----------------------------- MODULE RetryPolicy -----------------------------
(***************************************************************************)
(* What a handler with `maxRetries` and `deadLetterChannel` may rely on:   *)
(* every message is tried a bounded number of times, a success is final,   *)
(* and at most one dead letter is written, only for a message that has     *)
(* been given up.  RequestPipeline is shown to implement it.               *)
(***************************************************************************)
EXTENDS Naturals

CONSTANTS Letters    \* the messages

VARIABLES limit,     \* how often a message may be tried
          tries,     \* tries[m]: the tries that have ended
          outcome,   \* outcome[m]: "open", "handled" or "given up"
          buried     \* buried[m]: a dead letter was written for m

policyVars == <<limit, tries, outcome, buried>>

Init ==
  /\ limit \in Nat \ {0}
  /\ tries = [m \in Letters |-> 0]
  /\ outcome = [m \in Letters |-> "open"]
  /\ buried = [m \in Letters |-> FALSE]

TryAgain(m) ==
  /\ outcome[m] = "open" /\ tries[m] + 1 < limit
  /\ tries' = [tries EXCEPT ![m] = @ + 1]
  /\ UNCHANGED <<limit, outcome, buried>>

Handle(m) ==
  /\ outcome[m] = "open" /\ tries[m] < limit
  /\ tries' = [tries EXCEPT ![m] = @ + 1]
  /\ outcome' = [outcome EXCEPT ![m] = "handled"]
  /\ UNCHANGED <<limit, buried>>

\* After the last try, or untried: the message cannot be read or is not valid.
GiveUp(m) ==
  /\ outcome[m] = "open"
  /\ \/ tries[m] + 1 = limit /\ tries' = [tries EXCEPT ![m] = limit]
     \/ tries[m] = 0 /\ UNCHANGED tries
  /\ outcome' = [outcome EXCEPT ![m] = "given up"]
  /\ UNCHANGED <<limit, buried>>

Bury(m) ==
  /\ outcome[m] = "given up" /\ ~buried[m]
  /\ buried' = [buried EXCEPT ![m] = TRUE]
  /\ UNCHANGED <<limit, tries, outcome>>

Next == \E m \in Letters : TryAgain(m) \/ Handle(m) \/ GiveUp(m) \/ Bury(m)

Spec == Init /\ [][Next]_policyVars

=============================================================================
