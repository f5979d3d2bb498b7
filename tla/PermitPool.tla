----------------------------- MODULE PermitPool -----------------------------
(***************************************************************************)
(* What a queue handler bound with `concurrency` is promised: a pool of    *)
(* permits and a bounded waiting line.  The pool knows who is inside and   *)
(* who waits in which order; it keeps no counter.  BackpressureSemaphore   *)
(* is shown to implement it.                                               *)
(***************************************************************************)
EXTENDS Naturals, Sequences, FiniteSets

CONSTANTS Callers,  \* the message handlings that may ask for a permit
          Permits,  \* how many may be inside at the same time
          Room      \* how many may wait

VARIABLES inside,   \* the callers that hold a permit
          line      \* the callers that wait, the longest waiting first

poolVars == <<inside, line>>

Waiting == {line[i] : i \in 1..Len(line)}

Init == inside = {} /\ line = <<>>

Enter(c) ==
  /\ c \notin inside \cup Waiting
  /\ line = <<>>
  /\ Cardinality(inside) < Permits
  /\ inside' = inside \cup {c}
  /\ UNCHANGED line

Queue(c) ==
  /\ c \notin inside \cup Waiting
  /\ Cardinality(inside) = Permits
  /\ Len(line) < Room
  /\ line' = Append(line, c)
  /\ UNCHANGED inside

\* The permit that is given back goes to the head of the line, if there is one.
Leave(c) ==
  /\ c \in inside
  /\ \/ /\ line = <<>>
        /\ inside' = inside \ {c}
        /\ UNCHANGED line
     \/ /\ line # <<>>
        /\ inside' = (inside \ {c}) \cup {Head(line)}
        /\ line' = Tail(line)

Next == \E c \in Callers : Enter(c) \/ Queue(c) \/ Leave(c)

Spec == Init /\ [][Next]_poolVars

=============================================================================
