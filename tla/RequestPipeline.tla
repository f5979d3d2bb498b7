--------------------------- MODULE RequestPipeline ---------------------------
(***************************************************************************)
(* Commands, queries, events and events-store messages on their way        *)
(* through KubeMQServer: handleRequestMessage, the two event callbacks,    *)
(* validation, the retry loop and the dead letters of                      *)
(* executeWithMiddleware, the responses, the subscription errors that the  *)
(* health indicator reports, and close() draining what is in flight        *)
(* (src/src/server/kubemq.server.ts).  Queues are QueueConsumer's.         *)
(*                                                                         *)
(* A message is handled from one await to the next; any number of them     *)
(* interleave.  Delays have no length; a timeout is an outcome.  How many  *)
(* callbacks kubemq-js runs at once (maxConcurrentCallbacks) is left open: *)
(* every interleaving under a limit is one of those without.               *)
(***************************************************************************)
EXTENDS Integers, Sequences, MockServer

CONSTANTS Messages,        \* the messages that may arrive
          Policies,        \* what is deployed: the kinds of the messages, and
                           \* the options of their handlers
          Unset,           \* an option that is not given
          DefaultRetries   \* retries of a handler with a dead letter channel: 3

\* Commands and queries; events and events-store messages.  One channel of each.
Channels == {"request", "event"}

ASSUME PipelineAssumption ==
  /\ DefaultRetries \in Nat
  /\ Unset \notin Nat
  /\ Policies \subseteq [kind : [Messages -> Channels], dlq : BOOLEAN, validate : BOOLEAN,
                         maxRetries : Nat \cup {Unset}]

VARIABLES
  policy,          \* the kinds of the messages, the metadata of the handlers
  status,          \* how far close() has come
  draining,        \* the promises that drain waits for
  phase,           \* phase[m]: which await m is at
  attempt,         \* attempt[m]: the loop variable of the retries
  answers,         \* answers[m]: `executed` of the responses the broker took
  letters,         \* letters[m]: the dead letters written for m
  subErrors,       \* subscriptionErrors: the channels that show an error
  fate,            \* history: what became of m in executeWithMiddleware
  faults,          \* history: faults[m] \subseteq {"send", "letter", "body"}
  only,            \* history: how the handler of m behaved, if it ran once
  timedOut         \* history: drain gave up

closing == <<status, draining, timedOut>>
vars == <<policy, closing, phase, attempt, answers, letters, subErrors,
          fate, faults, only>>

\* What may become of a message: its handler succeeded, or failed for good; it was
\* refused by the validation, could not be validated, or not be read.
Fates == {"open", "handled", "given up", "rejected", "unvalidated", "undecodable"}

TypeOK ==
  /\ policy \in Policies
  /\ status \in {"up", "draining", "closing", "closed"}
  /\ draining \subseteq Messages
  /\ phase \in [Messages -> {"idle", "validating", "handling", "refusing", "burying",
                             "answering", "apologizing", "done"}]
  /\ attempt \in [Messages -> Nat]
  /\ answers \in [Messages -> Seq(BOOLEAN)]
  /\ letters \in [Messages -> Nat]
  /\ subErrors \subseteq Channels
  /\ fate \in [Messages -> Fates]
  /\ faults \in [Messages -> SUBSET {"send", "letter", "body"}]
  /\ only \in [Messages -> Behaviours \cup {"none"}]
  /\ timedOut \in BOOLEAN

\* this.client: gone when close() has awaited client.close().
HasClient == status # "closed"

InFlight == {m \in Messages : phase[m] \notin {"idle", "done"}}
OnChannel(c) == {m \in Messages : policy.kind[m] = c}
Requests == OnChannel("request")
Events == OnChannel("event")

-----------------------------------------------------------------------------
(* Faults: definitions as a slip would have written them. *)

\* `attempt <= maxRetries` where the option counts from the default.
OneRetryMore ==
  IF policy.maxRetries # Unset THEN policy.maxRetries + 1
  ELSE IF policy.dlq THEN DefaultRetries ELSE 0

\* The catch block of handleRequestMessage leaves `error` undefined.
AlwaysExecuted(m) == TRUE

\* Everyone's error is cleared by anyone's success.
ErrorsAllCleared(m, returned) == IF m \in Requests \/ returned THEN {} ELSE subErrors

\* routeToDlq is not awaited, and its failure not noticed.
RoutedSilently(m, next) == phase' = [phase EXCEPT ![m] = "done"] /\ UNCHANGED faults

\* Without a client the response waits for one.
RespondsLater(m, next, S) ==
  /\ phase' = [phase EXCEPT ![m] = IF status # "closed" THEN next ELSE "waiting"]
  /\ faults' = [faults EXCEPT ![m] = @ \cup S]

\* Promise.race with a promise that is settled: drain does not wait.
DrainsAtOnce(late) == TRUE

-----------------------------------------------------------------------------
\* resolveMaxRetries
MaxRetries ==
  IF policy.maxRetries # Unset THEN policy.maxRetries
  ELSE IF policy.dlq THEN DefaultRetries ELSE 0

(* Where a message goes next, and the faults it met (history). *)

GoTo(m, next) == phase' = [phase EXCEPT ![m] = next]
Decide(m, f) == fate' = [fate EXCEPT ![m] = f]
Note(m, S) == faults' = [faults EXCEPT ![m] = @ \cup S]

\* With this.client gone sendResponse throws at once, and so does its repetition
\* in the outer catch block.
Respond(m, next, S) ==
  IF HasClient THEN GoTo(m, next) /\ Note(m, S)
               ELSE GoTo(m, "done") /\ Note(m, S \cup {"send"})

\* executeWithMiddleware has thrown: a request is answered, an event logged.
Throws(m, S) ==
  IF m \in Requests THEN Respond(m, "answering", S) ELSE GoTo(m, "done") /\ Note(m, S)

\* routeToDlq is called; without a client it only tells its listeners.
ToDlq(m, next) == IF HasClient THEN GoTo(m, next) /\ Note(m, {}) ELSE Throws(m, {"letter"})

\* subscriptionErrors.delete(channel): on every request that is answered, and on
\* an event whose executeWithMiddleware returned.
ErrorsAfter(m, returned) ==
  IF m \in Requests \/ returned THEN subErrors \ {policy.kind[m]} ELSE subErrors

\* executeRpc fails with EmptyError on an empty stream, executeWithDefault does not.
Succeeds(m, b) == b = "value" \/ (b = "empty" /\ m \in Events)

\* `executed` of the response that follows executeWithMiddleware.
Executed(m) == fate[m] = "handled"

-----------------------------------------------------------------------------
Init ==
  /\ policy \in Policies
  /\ status = "up" /\ draining = {} /\ timedOut = FALSE
  /\ phase = [m \in Messages |-> "idle"]
  /\ attempt = [m \in Messages |-> 0]
  /\ answers = [m \in Messages |-> <<>>]
  /\ letters = [m \in Messages |-> 0]
  /\ subErrors = {}
  /\ fate = [m \in Messages |-> "open"]
  /\ faults = [m \in Messages |-> {}]
  /\ only = [m \in Messages |-> "none"]

(* The subscription's callback, up to its first await. *)

Arrives(m) ==
  phase[m] = "idle" /\ status \in {"up", "draining"}

\* deserializeBody succeeds; the validator is asked, or the handler called.
Receive(m) ==
  /\ Arrives(m)
  /\ GoTo(m, IF policy.validate THEN "validating" ELSE "handling")
  /\ UNCHANGED <<policy, closing, attempt, answers, letters, subErrors, fate,
                 faults, only>>

\* deserializeBody throws: a request gets the outer catch block's response.
ReceiveUndecodable(m) ==
  /\ Arrives(m)
  /\ IF m \in Requests THEN Respond(m, "apologizing", {}) ELSE GoTo(m, "done") /\ Note(m, {})
  /\ Decide(m, "undecodable")
  /\ UNCHANGED <<policy, closing, attempt, answers, letters, subErrors, only>>

(* messageValidator.validate *)

Validated(m) ==
  /\ phase[m] = "validating"
  /\ GoTo(m, "handling")
  /\ UNCHANGED <<policy, closing, attempt, answers, letters, subErrors, fate,
                 faults, only>>

\* A refused request throws, a refused event is dead-lettered or dropped.
Refused(m) ==
  /\ phase[m] = "validating"
  /\ Decide(m, "rejected")
  /\ IF m \in Events /\ policy.dlq
     THEN ToDlq(m, "refusing") /\ UNCHANGED subErrors
     ELSE Throws(m, {}) /\ subErrors' = ErrorsAfter(m, TRUE)
  /\ UNCHANGED <<policy, closing, attempt, answers, letters, only>>

\* class-validator is not installed: ConfigurationError.
ValidatorMissing(m) ==
  /\ phase[m] = "validating"
  /\ Decide(m, "unvalidated")
  /\ Throws(m, {})
  /\ subErrors' = ErrorsAfter(m, FALSE)
  /\ UNCHANGED <<policy, closing, attempt, answers, letters, only>>

(* One execution of the handler, and the loop around it. *)

NoteOnly(m, b) == only' = [only EXCEPT ![m] = IF attempt[m] = 0 THEN b ELSE "none"]

HandlerReturns(m, b) ==
  /\ phase[m] = "handling" /\ Succeeds(m, b)
  /\ NoteOnly(m, b)
  /\ attempt' = [attempt EXCEPT ![m] = @ + 1]
  /\ Decide(m, "handled")
  /\ IF m \in Requests THEN Respond(m, "answering", {}) ELSE GoTo(m, "done") /\ Note(m, {})
  /\ subErrors' = ErrorsAfter(m, TRUE)
  /\ UNCHANGED <<policy, closing, answers, letters>>

\* serializeBody throws on the handler's result: nothing was sent yet.
ResponseUnserializable(m) ==
  /\ phase[m] = "handling" /\ m \in Requests
  /\ NoteOnly(m, "value")
  /\ attempt' = [attempt EXCEPT ![m] = @ + 1]
  /\ Decide(m, "handled")
  /\ Respond(m, "apologizing", {"body"})
  /\ subErrors' = ErrorsAfter(m, TRUE)
  /\ UNCHANGED <<policy, closing, answers, letters>>

HandlerFailsAgain(m, b) ==
  /\ phase[m] = "handling" /\ ~Succeeds(m, b)
  /\ attempt[m] < MaxRetries
  /\ attempt' = [attempt EXCEPT ![m] = @ + 1]
  /\ UNCHANGED <<policy, closing, phase, answers, letters, subErrors, fate,
                 faults, only>>

HandlerFailsForGood(m, b) ==
  /\ phase[m] = "handling" /\ ~Succeeds(m, b)
  /\ attempt[m] >= MaxRetries
  /\ NoteOnly(m, b)
  /\ attempt' = [attempt EXCEPT ![m] = @ + 1]
  /\ Decide(m, "given up")
  /\ IF policy.dlq
     THEN ToDlq(m, "burying") /\ UNCHANGED subErrors
     ELSE Throws(m, {}) /\ subErrors' = ErrorsAfter(m, FALSE)
  /\ UNCHANGED <<policy, closing, answers, letters>>

(* routeToDlq: the send ends, then the `deadLetter` listeners run and may throw. *)

Routed(m, written, failed, throws) ==
  /\ phase[m] \in {"refusing", "burying"}
  /\ written \/ failed
  /\ letters' = [letters EXCEPT ![m] = IF written THEN @ + 1 ELSE @]
  /\ Throws(m, IF failed THEN {"letter"} ELSE {})
  /\ subErrors' = ErrorsAfter(m, phase[m] = "refusing" /\ ~throws)
  /\ UNCHANGED <<policy, closing, attempt, answers, fate, only>>

(* sendResponse, and the negative response of the outer catch block.  A call *)
(* that rejects may have reached the broker all the same.                    *)

Takes(m, executed, reached) ==
  answers' = IF reached THEN [answers EXCEPT ![m] = Append(@, executed)] ELSE answers

ResponseSent(m) ==
  /\ phase[m] = "answering"
  /\ Takes(m, Executed(m), TRUE)
  /\ GoTo(m, "done")
  /\ UNCHANGED <<policy, closing, attempt, letters, subErrors, fate, faults,
                 only>>

ResponseFails(m, reached) ==
  /\ phase[m] = "answering"
  /\ Takes(m, Executed(m), reached)
  /\ Respond(m, "apologizing", {"send"})
  /\ UNCHANGED <<policy, closing, attempt, letters, subErrors, fate, only>>

Apology(m, reached, failed) ==
  /\ phase[m] = "apologizing"
  /\ reached \/ failed
  /\ Takes(m, FALSE, reached)
  /\ GoTo(m, "done")
  /\ Note(m, IF failed THEN {"send"} ELSE {})
  /\ UNCHANGED <<policy, closing, attempt, letters, subErrors, fate, only>>

(* Subscription errors and KubeMQHealthIndicator.isHealthy *)

\* A channel is subscribed to for the handlers deployed on it.
SubscriptionFails(c) ==
  /\ status \in {"up", "draining"} /\ OnChannel(c) # {}
  /\ subErrors' = subErrors \cup {c}
  /\ UNCHANGED <<policy, closing, phase, attempt, answers, letters, fate,
                 faults, only>>

\* The indicator's client is the server's; ping() rejects on a closed one, and may
\* reject on any.  What is read is read after the ping.
IsHealthy(answered) ==
  IF ~answered \/ ~HasClient THEN "down"
  ELSE IF subErrors # {} THEN "degraded" ELSE "up"

(* close() *)

\* close() begins: executor.drain waits for the promises in flight now.
Close ==
  /\ status = "up"
  /\ status' = "draining"
  /\ draining' = InFlight
  /\ UNCHANGED <<policy, timedOut, phase, attempt, answers, letters, subErrors,
                 fate, faults, only>>

\* Promise.race: all settled, or the timeout.
Drained(late) == draining \cap InFlight # {} => late

\* The subscriptions are cancelled and client.close() is called.
DrainEnds(late) ==
  /\ status = "draining"
  /\ Drained(late)
  /\ timedOut' = late
  /\ status' = "closing"
  /\ UNCHANGED <<policy, draining, phase, attempt, answers, letters, subErrors,
                 fate, faults, only>>

\* client.close() has ended: this.client = null, subscriptionErrors.clear().
CloseEnds ==
  /\ status = "closing"
  /\ status' = "closed"
  /\ subErrors' = {}
  /\ UNCHANGED <<policy, draining, timedOut, phase, attempt, answers, letters,
                 fate, faults, only>>

-----------------------------------------------------------------------------
\* What the event loop and the promises bring about for m.
Proceed(m) ==
  \/ Validated(m) \/ Refused(m) \/ ValidatorMissing(m)
  \/ \E b \in Behaviours :
       HandlerReturns(m, b) \/ HandlerFailsAgain(m, b) \/ HandlerFailsForGood(m, b)
  \/ ResponseUnserializable(m)
  \/ \E written, failed, throws \in BOOLEAN : Routed(m, written, failed, throws)
  \/ ResponseSent(m)
  \/ \E reached, failed \in BOOLEAN : ResponseFails(m, reached) \/ Apology(m, reached, failed)

Next ==
  \/ \E m \in Messages : Receive(m) \/ ReceiveUndecodable(m) \/ Proceed(m)
  \/ \E c \in Channels : SubscriptionFails(c)
  \/ Close \/ CloseEnds
  \/ \E late \in BOOLEAN : DrainEnds(late)

\* Handlers, validators and sends settle; nothing obliges a message to arrive, or
\* the server to close.
Spec == Init /\ [][Next]_vars /\ \A m \in Messages : WF_vars(Proceed(m))

-----------------------------------------------------------------------------
(* Properties *)

\* What a requester is told is what happened: a positive response only for a
\* request whose handler succeeded, one response unless something failed on the
\* way, and after a response whose sending failed at most one more, a negative
\* one (handleRequestMessage, its inner and its outer catch block).
AnswersTellTheOutcome ==
  \A m \in Requests :
    /\ \A i \in DOMAIN answers[m] : answers[m][i] => fate[m] = "handled"
    /\ Len(answers[m]) <= 2
    /\ Len(answers[m]) = 2 => ~answers[m][2] /\ "send" \in faults[m]
    /\ phase[m] = "done" /\ faults[m] = {} => answers[m] = <<fate[m] = "handled">>

\* The retries that decorator-options.interface.ts promises.
PromisedRetries ==
  CASE policy.maxRetries # Unset -> policy.maxRetries
    [] policy.maxRetries = Unset /\ policy.dlq -> DefaultRetries
    [] OTHER -> 0

\* Dead letters are for the messages that were given up and for no others: never
\* for one that was handled, not before the last try, at most one each; and with
\* a dead letter channel no event or request is given up without one, unless
\* the sending itself failed.  Refused requests are answered instead.
GivenUp(m) == fate[m] = "given up" \/ (fate[m] = "rejected" /\ m \in Events)
DeadLettersMatchLosses ==
  \A m \in Messages :
    /\ letters[m] <= 1
    /\ letters[m] = 1 => policy.dlq /\ GivenUp(m)
    /\ fate[m] = "given up" => attempt[m] = PromisedRetries + 1
    /\ phase[m] = "done" /\ policy.dlq /\ GivenUp(m) /\ "letter" \notin faults[m]
         => letters[m] = 1

\* close() reaches client.close() with every message that was in flight as it
\* began dealt with, and every such request answered, its retries and its dead
\* letter included, unless drain ran into its timeout.
DrainedMeansAnswered ==
  status \in {"closing", "closed"} /\ ~timedOut =>
    \A m \in draining :
      /\ phase[m] = "done"
      /\ m \in Requests /\ "send" \notin faults[m] => answers[m] # <<>>

\* A unit test against MockKubeMQServer ("Mirrors real Observable execution") sees
\* what a requester is told by the server with the same handler, for handlers that
\* ran once: the same `executed`, unless the result cannot be serialized, which the
\* mock never tries.  dispatchEvent rejects exactly where the server counts a
\* failure, and dispatchEventWithTags never where the server sees a success.
MockAgrees ==
  \A m \in Messages : only[m] # "none" =>
    /\ m \in Requests /\ answers[m] # <<>> /\ "send" \notin faults[m] =>
         answers[m] = <<MockExecuted(only[m]) /\ "body" \notin faults[m]>>
    /\ m \in Events =>
         /\ fate[m] = "handled" <=> MockEventResolves(only[m])
         /\ fate[m] = "handled" => MockTaggedEventResolves(only[m])

\* What the health indicator reports of the subscriptions: an error goes away only
\* with a message of its own channel, or with the server, and so does "degraded".
HealthTruthful ==
  [][/\ \A c \in subErrors \ subErrors' :
          status' = "closed" \/ \E m \in OnChannel(c) : phase'[m] # phase[m]
     /\ IsHealthy(TRUE) = "degraded" /\ IsHealthy(TRUE)' = "up" =>
          \A c \in subErrors : \E m \in OnChannel(c) : phase'[m] # phase[m]]_vars

\* Whatever fails, every message that came in is done with: no handling hangs in
\* its retries, its dead letter or its response.
EveryMessageSettles == \A m \in Messages : phase[m] # "idle" ~> phase[m] = "done"

\* The retry loop with its dead letters implements RetryPolicy.
Outcome(m) ==
  CASE fate[m] = "open" -> "open" [] fate[m] = "handled" -> "handled" [] OTHER -> "given up"

Policy == INSTANCE RetryPolicy WITH
  Letters <- Messages,
  limit <- PromisedRetries + 1,
  tries <- attempt,
  outcome <- [m \in Messages |-> Outcome(m)],
  buried <- [m \in Messages |-> letters[m] > 0]

ImplementsRetryPolicy == Policy!Spec

=============================================================================
