-------------------------- MODULE MCRequestPipeline --------------------------
(***************************************************************************)
(* An instance of RequestPipeline: two requests, a request and an event,   *)
(* or two events, under each of the ways a handler may be declared that    *)
(* the retry loop tells apart.                                             *)
(***************************************************************************)
EXTENDS RequestPipeline, TLC

CONSTANTS m1, m2

Declared(dlq, validate, maxRetries) ==
  {[kind |-> k, dlq |-> dlq, validate |-> validate, maxRetries |-> maxRetries] :
     k \in {k \in [Messages -> Channels] : k[m1] = "event" => k[m2] = "event"}}

RetryPolicies ==
  Declared(FALSE, TRUE, Unset) \cup Declared(TRUE, FALSE, Unset) \cup Declared(TRUE, TRUE, 0)

=============================================================================
