----------------------------- MODULE DedupWindow -----------------------------
(***************************************************************************)
(* What a queue handler bound with `idempotency` may rely on: a set of     *)
(* remembered keys, each the key of a message some handler finished with   *)
(* success.  A duplicate of a remembered key is acknowledged unhandled, so *)
(* that a window that remembers too much loses messages, while one that    *)
(* forgets early only handles a message again.  IdempotencyCache is shown  *)
(* to implement it; QueueConsumer is built on it.                          *)
(***************************************************************************)
EXTENDS Naturals, FiniteSets

CONSTANTS WindowKeys,  \* the idempotency keys
          Capacity     \* how many keys may be remembered

VARIABLES remembered,  \* the keys whose duplicates are suppressed
          attempts     \* attempts[k]: handlers that run for k, found not remembered

windowVars == <<remembered, attempts>>

Init ==
  /\ remembered = {}
  /\ attempts = [k \in WindowKeys |-> 0]

\* The check before a handler: only a key that is not remembered gets through.
Begin(k) ==
  /\ k \notin remembered
  /\ attempts' = [attempts EXCEPT ![k] = @ + 1]
  /\ remembered' \in SUBSET remembered

\* A successful handler records its key; the window may forget others for it,
\* or fail to take it in.
Remember(k) ==
  /\ attempts[k] > 0
  /\ attempts' = [attempts EXCEPT ![k] = @ - 1]
  /\ remembered' \in SUBSET (remembered \cup {k})
  /\ Cardinality(remembered') <= Capacity

\* A handler that throws records nothing.
Abandon(k) ==
  /\ attempts[k] > 0
  /\ attempts' = [attempts EXCEPT ![k] = @ - 1]
  /\ UNCHANGED remembered

\* The age limit passes, or the window is cleared.
Forget ==
  /\ remembered' \in SUBSET remembered
  /\ UNCHANGED attempts

Next ==
  \/ \E k \in WindowKeys : Begin(k) \/ Remember(k) \/ Abandon(k)
  \/ Forget

Spec == Init /\ [][Next]_windowVars

=============================================================================
