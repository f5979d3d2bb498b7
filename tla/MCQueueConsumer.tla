--------------------------- MODULE MCQueueConsumer ---------------------------
(***************************************************************************)
(* Instances of QueueConsumer.  m1 and m2 carry the same idempotency key,  *)
(* m3 carries none and is the one that validation may reject.  Three polls *)
(* over one permit and one place to wait: one handles, one waits, one is   *)
(* refused.                                                                *)
(***************************************************************************)
EXTENDS QueueConsumer, TLC

CONSTANTS m1, m2, m3, k

KeyOfTwins == [m \in Messages |-> IF m = m3 THEN NoKey ELSE k]

\* The polls are interchangeable; used for safety only.
AnyPoll == Permutations(Polls)

=============================================================================
