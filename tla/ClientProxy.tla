----------------------------- MODULE ClientProxy -----------------------------
(***************************************************************************)
(* KubeMQClientProxy (src/src/client/kubemq-client.proxy.ts): connect() and *)
(* its shared promise, send() and emit() under the circuit breaker, and    *)
(* close().  Requests run concurrently: a step is what runs between two    *)
(* awaits, so that outcomes arrive late and in any order.  Nest calls      *)
(* connect() and then publish or dispatchEvent for each request (external).*)
(***************************************************************************)
EXTENDS Naturals

CONSTANTS Rpcs,   \* the requests of send(): commands and queries
          Events, \* those of emit(): events, stored events and queue messages
          FailureThreshold, HalfOpenRequests

ASSUME RequestsAssumption == Rpcs \cap Events = {}
ASSUME BreakerAssumption ==
  FailureThreshold \in Nat \ {0} /\ HalfOpenRequests \in Nat \ {0}

VARIABLES
  configured,     \* options.circuitBreaker is there
  listenerThrows, \* the application's listener of `circuitBreaker` throws
  connecting,     \* where doConnect, and with it connectPromise, is
  client,         \* this.client is not null
  live,           \* how many kubemq-js clients were created and not closed
  closing, closer,\* `closing`, and where close() is
  made,           \* this.circuitBreaker is there
  state, failures, halfOpenAllowed, resetTimer, \* of that breaker
  phase,          \* [Requests -> where the request is]
  answers,        \* [Requests -> how often it was answered]
  probes,         \* history: requests sent since the circuit is half-open
  lost,           \* history: probes granted since then that were never sent
  streak          \* history: consecutive failures recorded, up to the threshold

Breaker == INSTANCE CircuitBreaker

options == <<configured, listenerThrows>>
connection == <<connecting, client, live>>
shutdown == <<closing, closer>>
breaker == <<state, failures, halfOpenAllowed, resetTimer>>
requests == <<phase, answers>>
history == <<probes, lost, streak>>
vars == <<options, connection, shutdown, made, breaker, requests, history>>

Requests == Rpcs \cup Events

\* The callback with isDisposed, or the promise of dispatchEvent: a response or an error.
Answer(r) ==
  /\ phase' = [phase EXCEPT ![r] = "answered"]
  /\ answers' = [answers EXCEPT ![r] = @ + 1]

Goes(r, p) == phase' = [phase EXCEPT ![r] = p] /\ UNCHANGED answers

\* The step changes the state of the breaker, and the listener throws.
Throws == listenerThrows /\ state' # state

-----------------------------------------------------------------------------
(* Faults: operations as a slip would have written them. *)

\* The callback runs before the body is decoded, and once more when that fails.
AnswersAnyway(r) == phase' = [phase EXCEPT ![r] = "failing"]
                 /\ answers' = [answers EXCEPT ![r] = @ + 1]

\* The `catch` records the failure and forgets the callback.
FailsSilently(r) == Goes(r, "dropped")

\* close() goes for the client at once.
NeverWaits == FALSE

-----------------------------------------------------------------------------
(* Operations *)

Init ==
  /\ configured \in BOOLEAN /\ listenerThrows \in BOOLEAN
  /\ connecting = "none" /\ client = FALSE /\ live = 0
  /\ closing = FALSE /\ closer = "none"
  /\ made = FALSE /\ Breaker!Init
  /\ phase = [r \in Requests |-> "idle"]
  /\ answers = [r \in Requests |-> 0]
  /\ probes = 0 /\ lost = 0 /\ streak = 0

\* send() or emit() calls connect(): closing, connected, connecting, or to begin.
Request(r) ==
  /\ phase[r] = "idle"
  /\ \/ closing /\ Answer(r) /\ UNCHANGED connecting
     \/ ~closing /\ client /\ Goes(r, "ready") /\ UNCHANGED connecting
     \/ /\ ~closing /\ ~client
        /\ connecting' = IF connecting = "none" THEN "creating" ELSE connecting
        /\ Goes(r, "waiting")
  /\ UNCHANGED <<options, client, live, shutdown, made, breaker, history>>

Waiting == {r \in Requests : phase[r] = "waiting"}

\* connectPromise is over: the connect() of every request that waits returns.
Connected ==
  /\ connecting' = "none"
  /\ phase' = [r \in Requests |-> IF r \in Waiting THEN "ready" ELSE phase[r]]
  /\ UNCHANGED answers

\* A new client, for which it may be too late: close() has been called.
CreateSucceeds ==
  /\ connecting = "creating"
  /\ live' = live + 1
  /\ IF closing THEN connecting' = "discarding" /\ UNCHANGED client
                ELSE connecting' = "initializing" /\ client' = TRUE
  /\ UNCHANGED <<options, shutdown, made, breaker, requests, history>>

\* Everyone who waits for connectPromise gets the error.
CreateFails ==
  /\ connecting = "creating"
  /\ connecting' = "none"
  /\ phase' = [r \in Requests |-> IF r \in Waiting THEN "answered" ELSE phase[r]]
  /\ answers' = [r \in Requests |-> IF r \in Waiting THEN answers[r] + 1 ELSE answers[r]]
  /\ UNCHANGED <<options, client, live, shutdown, made, breaker, history>>

\* created.close() is over: connect() returns, with no client.
Discarded ==
  /\ connecting = "discarding"
  /\ live' = live - 1
  /\ Connected
  /\ UNCHANGED <<options, client, shutdown, made, breaker, history>>

\* TracePropagator.initialize is over: requests may have been sent meanwhile.
Initialized ==
  /\ connecting = "initializing"
  /\ made' = configured
  /\ Connected
  /\ UNCHANGED <<options, client, live, shutdown, breaker, history>>

\* publish or dispatchEvent, up to its only await: what becomes of a request that
\* guard() has let through.  One that is not sent leaves the breaker as it is.
Sends(r, sent) ==
  /\ IF sent THEN Goes(r, "sent") ELSE Answer(r)
  /\ probes' = IF sent /\ state = "half-open" THEN probes + 1 ELSE probes
  /\ lost' = IF ~sent /\ state = "half-open" THEN lost + 1 ELSE lost

Refused(r) ==
  /\ phase[r] = "ready"
  /\ made /\ Breaker!GuardRefuses
  /\ Answer(r)
  /\ UNCHANGED <<options, connection, shutdown, made, history>>

\* close() has taken the client away, or the data cannot be serialized, or it is
\* handed to kubemq-js.
Publish(r) ==
  /\ phase[r] = "ready"
  /\ IF made THEN Breaker!GuardPasses ELSE UNCHANGED breaker
  /\ \E sent \in IF client THEN BOOLEAN ELSE {FALSE} : Sends(r, sent)
  /\ UNCHANGED <<options, connection, shutdown, made, streak>>

NextStreak(failed) ==
  IF ~failed THEN 0 ELSE IF streak < FailureThreshold THEN streak + 1 ELSE streak

RecordsSuccess ==
  IF made THEN Breaker!RecordSuccess /\ streak' = NextStreak(FALSE)
          ELSE UNCHANGED <<breaker, streak>>

RecordsFailure ==
  IF made THEN Breaker!RecordFailure /\ streak' = NextStreak(TRUE)
          ELSE UNCHANGED <<breaker, streak>>

\* kubemq-js resolves with a response, whose body is good or the handler's error.
RpcSucceeds(r) ==
  /\ r \in Rpcs /\ phase[r] = "sent"
  /\ RecordsSuccess
  /\ IF Throws THEN Goes(r, "failing") ELSE Answer(r)
  /\ UNCHANGED <<options, connection, shutdown, made, probes, lost>>

\* The body cannot be decoded: an exception, for the `catch` that comes next.
DecodingThrows(r) == Goes(r, "failing")

RpcUndecodable(r) ==
  /\ r \in Rpcs /\ phase[r] = "sent"
  /\ RecordsSuccess
  /\ DecodingThrows(r)
  /\ UNCHANGED <<options, connection, shutdown, made, probes, lost>>

\* The `catch` calls the callback with the error.
CatchAnswers(r) == Answer(r)

\* kubemq-js rejects, after an abort too, or the `then` threw.  A listener that
\* throws in the `catch` keeps the callback from being called.
RpcFails(r) ==
  /\ r \in Rpcs /\ phase[r] \in {"sent", "failing"}
  /\ RecordsFailure
  /\ IF Throws THEN Goes(r, "dropped") ELSE CatchAnswers(r)
  /\ UNCHANGED <<options, connection, shutdown, made, probes, lost>>

\* dispatchEvent: a listener that throws fails the event it was recorded for.
EventSucceeds(r) ==
  /\ r \in Events /\ phase[r] = "sent"
  /\ IF made /\ listenerThrows /\ state = "half-open"
     THEN Breaker!RecordSuccessThenFailure /\ streak' = 1
     ELSE RecordsSuccess
  /\ Answer(r)
  /\ UNCHANGED <<options, connection, shutdown, made, probes, lost>>

EventFails(r) ==
  /\ r \in Events /\ phase[r] = "sent"
  /\ RecordsFailure
  /\ Answer(r)
  /\ UNCHANGED <<options, connection, shutdown, made, probes, lost>>

\* The timer of the breaker, which sets the state before it calls the listener.
ResetTimeout ==
  /\ Breaker!ResetTimeout
  /\ probes' = 0 /\ lost' = 0
  /\ UNCHANGED <<options, connection, shutdown, made, requests, streak>>

\* close(): destroy(), and then at once for the client, unless there is a
\* connectPromise to wait for first.
MustWait == connecting # "none"

GoesForClient == closer' = IF client THEN "closingClient" ELSE "done"

Close ==
  /\ closer = "none"
  /\ closing' = TRUE
  /\ IF made THEN Breaker!Destroy ELSE UNCHANGED breaker
  /\ IF MustWait THEN closer' = "awaiting" ELSE GoesForClient
  /\ UNCHANGED <<options, connection, made, requests, history>>

ConnectionAwaited ==
  /\ closer = "awaiting" /\ connecting = "none"
  /\ GoesForClient
  /\ UNCHANGED <<options, connection, closing, made, breaker, requests, history>>

\* client.close() is over.  When it fails the status is not set, client is.
ClientClosed ==
  /\ closer = "closingClient"
  /\ closer' \in {"done", "failed"}
  /\ client' = FALSE
  /\ live' = live - 1
  /\ UNCHANGED <<options, connecting, closing, made, breaker, requests, history>>

Connecting == CreateSucceeds \/ CreateFails \/ Discarded \/ Initialized
Proceeds(r) == Refused(r) \/ Publish(r)
Settles(r) ==
  RpcSucceeds(r) \/ RpcUndecodable(r) \/ RpcFails(r) \/ EventSucceeds(r) \/ EventFails(r)
Closing == ConnectionAwaited \/ ClientClosed

Next ==
  \/ Connecting
  \/ \E r \in Requests : Request(r) \/ Proceeds(r) \/ Settles(r)
  \/ ResetTimeout
  \/ Close \/ Closing

\* Promises settle (kubemq-js bounds every request by its timeout), timers fire.
Fairness ==
  /\ WF_vars(Connecting) /\ WF_vars(Closing) /\ WF_vars(ResetTimeout)
  /\ \A r \in Requests : WF_vars(Proceeds(r)) /\ WF_vars(Settles(r))

Spec == Init /\ [][Next]_vars /\ Fairness

-----------------------------------------------------------------------------
(* Properties *)

TypeOK ==
  /\ configured \in BOOLEAN /\ listenerThrows \in BOOLEAN
  /\ connecting \in {"none", "creating", "discarding", "initializing"}
  /\ client \in BOOLEAN /\ live \in Nat
  /\ closing \in BOOLEAN /\ closer \in {"none", "awaiting", "closingClient", "done", "failed"}
  /\ made \in BOOLEAN /\ Breaker!TypeOK
  /\ phase \in [Requests -> {"idle", "waiting", "ready", "sent", "failing", "answered", "dropped"}]
  /\ answers \in [Requests -> Nat]
  /\ probes \in Nat /\ lost \in Nat /\ streak \in 0 .. FailureThreshold

\* A request is answered once and no more, and whatever was answered is over: neither
\* an outcome whose recording or decoding throws nor a connection that fails for all
\* who wait for it answers it again.
AnsweredOnce ==
  \A r \in Requests : answers[r] = IF phase[r] = "answered" THEN 1 ELSE 0

\* However connect() and close() interleave, the only clients open are this.client
\* and one that is being discarded; after close() there is neither.
NoClientLeak ==
  /\ live = (IF client THEN 1 ELSE 0) + (IF connecting = "discarding" THEN 1 ELSE 0)
  /\ closer \in {"done", "failed"} => live = 0 /\ connecting = "none"

\* A circuit that is open has its timer running, unless the client is closing; no
\* other has one, so no timer of an earlier opening can end a later one.
TimerWhileOpen ==
  /\ resetTimer => state = "open"
  /\ state = "open" /\ ~closing => resetTimer

\* A half-open circuit lets a request through, or waits for one that was sent, or has
\* given a probe to a request that was never sent: nothing else holds it half-open.
HalfOpenCanEnd ==
  state = "half-open" =>
     halfOpenAllowed > 0 \/ lost > 0 \/ \E r \in Requests : phase[r] = "sent"

\* No more than halfOpenRequests requests are sent while the circuit is half-open,
\* and no probe is given away that is not counted.
ProbeBudget == state = "half-open" => probes + lost + halfOpenAllowed = HalfOpenRequests

\* A circuit that refuses requests has a way back, and the way back is one of as many
\* probes as it should be: the three above.
CircuitSound == TimerWhileOpen /\ HalfOpenCanEnd /\ ProbeBudget

\* "Number of consecutive failures to open the circuit": it is opened by that many
\* failures in a row, or by one while it is half-open, in whatever order they arrive.
OpensOnConsecutiveFailures ==
  [][state = "closed" /\ state' = "open" => streak' = FailureThreshold]_vars

\* Every request is answered in the end, unless a listener of the breaker throws.
EveryRequestAnswered ==
  \A r \in Requests : phase[r] # "idle" /\ ~listenerThrows ~> phase[r] = "answered"

\* "Number of probe requests allowed in half-open state": that many are sent, or
\* may still be.
ProbesAllowed == state = "half-open" => probes + halfOpenAllowed = HalfOpenRequests

=============================================================================
