------------------------------ MODULE MockServer ------------------------------
(***************************************************************************)
(* MockKubeMQServer (src/src/testing/mock-kubemq-server.ts), the double    *)
(* that stands in for the transport in an application's unit tests: what   *)
(* its dispatch methods for commands, queries, events and events-store     *)
(* messages answer, as a function of how the handler behaves.  It keeps no *)
(* state besides its handlers, runs each handler once and never            *)
(* serializes.                                                             *)
(*                                                                         *)
(* Left out: a pattern without a handler, and the four dispatch methods    *)
(* for queue messages (dispatchQueueMessage, its WithRetry and             *)
(* WithIdempotencyKey forms, dispatchQueueBatch).                          *)
(***************************************************************************)

\* How one execution of a handler ends: the Observable it returns emits a value,
\* completes without one, or fails or runs into the timeout; or the handler itself
\* throws or rejects.
Behaviours == {"value", "empty", "errors", "rejects"}

\* executeWithDefault of the mock: an empty stream resolves to undefined.
MockResolves(b) == b \in {"value", "empty"}

\* A fault: dispatchRequest collects the result as dispatchEvent does.
MockExecutedLenient(b) == b \in {"value", "empty"}

\* dispatchRequest: `executed`; an empty stream is an EmptyError.
MockExecuted(b) == b = "value"

\* dispatchEvent and dispatchEventStore resolve, or reject with the handler's error.
MockEventResolves(b) == MockResolves(b)

\* dispatchEventWithTags awaits the handler, and does not subscribe to what it returns.
MockTaggedEventResolves(b) == b # "rejects"

=============================================================================
