---------------------------- MODULE QueueConsumer ----------------------------
(***************************************************************************)
(* One queue handler of KubeMQServer: the polls its stream delivers,       *)
(* handleQueueSingle and handleQueueBatch, the queue part of               *)
(* executeWithMiddleware, the acknowledgements, and close() draining what  *)
(* is in flight (src/src/server/kubemq.server.ts).                         *)
(*                                                                         *)
(* A poll is one call of the onMessages callback.  A new poll may begin    *)
(* while earlier ones still wait for a permit or for their handler, so the *)
(* polls interleave at every await.  The permits are the semaphore's own   *)
(* operations, the idempotency cache is taken at what DedupWindow promises.*)
(***************************************************************************)
EXTENDS Integers, Sequences, FiniteSets

CONSTANTS Messages,       \* the messages of the queue
          Keys, NoKey,    \* the idempotency keys, and a message without one
          KeyOf,          \* KeyOf[m]: the x-idempotency tag of m
          Invalid,        \* the messages that the handler's validation rejects;
                          \* a handler without `validate` has none
          DeadLetter,     \* TRUE: the handler has a deadLetterChannel
          Polls,          \* the calls of onMessages that may overlap
          PollSize,       \* maxMessages of the stream
          MaxConcurrent, MaxQueueDepth,  \* options of the handler
          MaxRedeliveries \* bound: deliveries after the first ones, of all messages

ASSUME MessagesAssumption ==
  /\ KeyOf \in [Messages -> Keys \cup {NoKey}]
  /\ NoKey \notin Keys
  /\ Invalid \subseteq Messages
ASSUME SizesAssumption ==
  PollSize \in Nat \ {0} /\ MaxRedeliveries \in Nat /\ DeadLetter \in BOOLEAN
\* As BackpressureSemaphore assumes of its callers and its options.
ASSUME PermitsAssumption ==
  IsFiniteSet(Polls) /\ MaxConcurrent \in Nat \ {0} /\ MaxQueueDepth \in Nat
\* The keys come with messages, of which the queue holds finitely many.
ASSUME KeysAssumption == IsFiniteSet(Keys)

VARIABLES
  batch, manualAck,         \* the options the handler was bound with
  at, redeliveries,         \* the broker: where each message is; the bounded counter
  phase,                    \* phase[p]: what the poll p is doing
  todo,                     \* todo[p]: its messages not yet dealt with, in order
  verdict,                  \* verdict[p]: whether the work to be settled succeeded
  running, queue, promise,  \* the semaphore
  remembered,               \* the idempotency cache
  status,                   \* how far close() has come
  draining,                 \* the promises that drain waits for
  timedOut,                 \* drain gave up after callbackTimeoutSeconds
  fate,                     \* history: what became of each message
  refused,                  \* history: messages given up by an overflow
  unsettled,                \* history: messages whose ack and nack threw
  owed                   \* history: who had what in flight as close() began, and
                            \* has not answered for it since

options == <<batch, manualAck>>
broker == <<at, redeliveries>>
poll == <<phase, todo, verdict>>
semaphore == <<running, queue, promise>>
closing == <<status, draining, timedOut, owed>>
history == <<fate, refused, unsettled>>
vars == <<options, broker, poll, semaphore, remembered, closing, history>>

Sem == INSTANCE BackpressureSemaphore WITH Callers <- Polls

\* The messages the broker has ready; a nacked one is ready again.
Ready == {m \in Messages : at[m] \in {"queued", "requeued"}}
Requeued == {m \in Messages : at[m] = "requeued"}

\* Deliveries the stream can hand over: distinct messages, up to maxMessages.
Batches(S) == UNION {{s \in [1..n -> S] : \A i, j \in 1..n : s[i] = s[j] => i = j} :
                        n \in 1..PollSize}

Members(s) == {s[i] : i \in 1..Len(s)}

\* The messages of one tracked work: all of the poll, or its next one.
Work(p) == IF batch THEN todo[p] ELSE SubSeq(todo[p], 1, 1)

\* Both modes look at the first message only.
WorkKey(p) == KeyOf[todo[p][1]]

\* JavaScript runs every continuation that is due before it turns to the network,
\* a timer or a signal: while one of these is due, no event comes in.
ContinuationDue ==
  \E p \in Polls :
    \/ phase[p] \in {"settling", "between"}
    \/ phase[p] = "asking" /\ promise[p] # "pending"

\* close() empties the maps of semaphores and caches at its very end.
MapsFilled == status # "closed"

-----------------------------------------------------------------------------
(* Faults, for the sensitivity of the properties *)

\* The cache is looked up under another name than it is filed under.
DuplicateNotFound(p) == FALSE

\* add is not guarded by `if (cache && key)`.
HandlerSucceedsAnyKey(p) ==
  /\ phase[p] = "handling"
  /\ phase' = [phase EXCEPT ![p] = "settling"]
  /\ verdict' = [verdict EXCEPT ![p] = "ok"]
  /\ fate' = [m \in Messages |-> IF m \in Members(Work(p)) THEN "handled" ELSE fate[m]]
  /\ remembered' = remembered \cup {WorkKey(p)}
  /\ UNCHANGED <<options, broker, todo, semaphore, closing, refused, unsettled>>

\* executeWithMiddleware logs the error of the handler and does not rethrow it.
HandlerThrowsSwallowed(p) ==
  /\ phase[p] = "handling"
  /\ phase' = [phase EXCEPT ![p] = "settling"]
  /\ verdict' = [verdict EXCEPT ![p] = "ok"]
  /\ UNCHANGED <<options, broker, todo, semaphore, remembered, closing, history>>

\* The release stands at the end of the try block, not in `finally`.
ReleasePermitOnSuccess(p) ==
  IF promise[p] = "resolved" /\ verdict[p] = "ok" THEN Sem!Release(p) ELSE UNCHANGED semaphore

\* The catch block only logs.
AnsweredNoNack(i, r) == IF i <= r.acks THEN "acked" ELSE "delivered"

\* drain waits for running handlers and not for those that wait for a permit.
TrackedHandlers(p) == phase[p] \in {"validating", "routing", "handling", "settling"}

-----------------------------------------------------------------------------
(* Operations *)

\* executor.track has the promise of the work in `inflight`.
Tracked(p) == phase[p] \in {"asking", "validating", "routing", "handling", "settling"}

Init ==
  /\ batch \in BOOLEAN
  /\ manualAck \in BOOLEAN
  /\ at = [m \in Messages |-> "queued"]
  /\ redeliveries = 0
  /\ phase = [p \in Polls |-> "idle"]
  /\ todo = [p \in Polls |-> <<>>]
  /\ verdict = [p \in Polls |-> "none"]
  /\ Sem!Init
  /\ remembered = {}
  /\ status = "open"
  /\ draining = {}
  /\ timedOut = FALSE
  /\ fate = [m \in Messages |-> "none"]
  /\ refused = {}
  /\ unsettled = {}
  /\ owed = {}

\* executor.track runs the work up to `await sem.acquire(true)`.
AskPermit(p, s) ==
  /\ MapsFilled
  /\ Sem!AcquireFree(p) \/ Sem!AcquireWait(p)
  /\ phase' = [phase EXCEPT ![p] = "asking"]
  /\ todo' = [todo EXCEPT ![p] = s]
  /\ UNCHANGED refused

\* acquire throws outside the try block: the work rejects, the loop over the
\* messages ends, and nothing acknowledges what it leaves behind.
AskRefused(p, s) ==
  /\ MapsFilled
  /\ Sem!AcquireOverflow(p)
  /\ phase' = [phase EXCEPT ![p] = "idle"]
  /\ todo' = [todo EXCEPT ![p] = <<>>]
  /\ refused' = refused \cup Members(s)

\* After close() the map has no semaphore for the channel: no limit applies.
AskUnlimited(p, s) ==
  /\ ~MapsFilled
  /\ phase' = [phase EXCEPT ![p] = "asking"]
  /\ todo' = [todo EXCEPT ![p] = s]
  /\ UNCHANGED <<semaphore, refused>>

Ask(p, s) == AskPermit(p, s) \/ AskRefused(p, s) \/ AskUnlimited(p, s)

\* The stream delivers until close() has closed it, also while drain waits.
Deliver(p) ==
  /\ ~ContinuationDue
  /\ status = "open" \/ (status = "draining" /\ draining # {})
  /\ phase[p] = "idle"
  /\ \E s \in Batches(Ready) :
       /\ at' = [m \in Messages |-> IF m \in Members(s) THEN "delivered" ELSE at[m]]
       /\ redeliveries' = redeliveries + Cardinality(Members(s) \cap Requeued)
       /\ redeliveries' <= MaxRedeliveries
       /\ Ask(p, s)
  /\ UNCHANGED <<options, verdict, remembered, closing, fate, unsettled>>

\* The next round of the loop in handleQueueSingle.
NextMessage(p) ==
  /\ phase[p] = "between"
  /\ Ask(p, todo[p])
  /\ UNCHANGED <<options, broker, verdict, remembered, closing, fate, unsettled>>

PermitGranted(p) == phase[p] = "asking" /\ promise[p] # "pending"

Duplicate(p) == WorkKey(p) \in remembered

Settling(p, v) ==
  /\ phase' = [phase EXCEPT ![p] = "settling"]
  /\ verdict' = [verdict EXCEPT ![p] = v]

\* The key of the (first) message is in the cache: return without the handler.
SkipDuplicate(p) ==
  /\ PermitGranted(p)
  /\ Duplicate(p)
  /\ Settling(p, "ok")
  /\ UNCHANGED <<options, broker, todo, semaphore, remembered, closing, history>>

\* The key is not in the cache.  A handler with `validate` first awaits the
\* validation of the payload, one without it is called at once.
Validates == Invalid # {}

PassCache(p) ==
  /\ PermitGranted(p)
  /\ ~Duplicate(p)
  /\ phase' = [phase EXCEPT ![p] = IF Validates THEN "validating" ELSE "handling"]
  /\ UNCHANGED <<options, broker, todo, verdict, semaphore, remembered, closing, history>>

CallHandler(p) ==
  /\ phase[p] = "validating"
  /\ batch \/ todo[p][1] \notin Invalid
  /\ phase' = [phase EXCEPT ![p] = "handling"]
  /\ UNCHANGED <<options, broker, todo, verdict, semaphore, remembered, closing, history>>

\* Validation fails.  Of a batch, class-validator is given the array of the payloads
\* (its verdict is open here).
FailsValidation(p) ==
  /\ phase[p] = "validating"
  /\ batch \/ todo[p][1] \in Invalid

\* There is a dead letter channel: routeToDlq is awaited.  Of a batch it gets the
\* first body only.
RejectToDlq(p) ==
  /\ DeadLetter
  /\ FailsValidation(p)
  /\ phase' = [phase EXCEPT ![p] = "routing"]
  /\ UNCHANGED <<options, broker, todo, verdict, semaphore, remembered, closing, history>>

\* The send succeeded, or failed and is only reported; the work returns normally,
\* unless a listener of `deadLetter` throws.
DlqAnswered(p) ==
  /\ phase[p] = "routing"
  /\ \E f \in {"deadLettered", "dropped"} :
       fate' = [m \in Messages |-> IF m = todo[p][1] THEN f
                                   ELSE IF m \in Members(Work(p)) THEN "dropped"
                                   ELSE fate[m]]
  /\ Settling(p, "ok") \/ Settling(p, "error")
  /\ UNCHANGED <<options, broker, todo, semaphore, remembered, closing, refused, unsettled>>

\* Validation fails and there is no dead letter channel: a warning, and return.
RejectWithWarning(p) ==
  /\ ~DeadLetter
  /\ FailsValidation(p)
  /\ fate' = [m \in Messages |-> IF m \in Members(Work(p)) THEN "dropped" ELSE fate[m]]
  /\ Settling(p, "ok")
  /\ UNCHANGED <<options, broker, todo, semaphore, remembered, closing, refused, unsettled>>

\* The body does not deserialize, the validation packages are not installed, or a
\* listener of `deadLetter` throws when the broker has rerouted the message.
FailBeforeHandler(p) ==
  /\ PermitGranted(p) \/ phase[p] = "validating"
  /\ Settling(p, "error")
  /\ UNCHANGED <<options, broker, todo, semaphore, remembered, closing, history>>

\* What the context of the handler gives access to.  ackAll and nackAll of a batch go
\* through its messages one by one, and stop at one that throws.
Settleable(p) == {m \in Members(Work(p)) : at[m] = "delivered"}

\* In manual mode the handler itself acks, nacks or requeues, when it likes.
HandlerSettles(p) ==
  /\ manualAck
  /\ phase[p] = "handling"
  /\ \E m \in Settleable(p), w \in {"acked", "requeued"} : at' = [at EXCEPT ![m] = w]
  /\ UNCHANGED <<options, redeliveries, poll, semaphore, remembered, closing, history>>

\* execute resolves: the key is added, if the cache is still in the map.
HandlerSucceeds(p) ==
  /\ phase[p] = "handling"
  /\ Settling(p, "ok")
  /\ fate' = [m \in Messages |-> IF m \in Members(Work(p)) THEN "handled" ELSE fate[m]]
  /\ remembered' = IF MapsFilled THEN remembered \cup ({WorkKey(p)} \cap Keys) ELSE remembered
  /\ UNCHANGED <<options, broker, todo, semaphore, closing, refused, unsettled>>

\* The handler throws or its Observable times out.
HandlerThrows(p) ==
  /\ phase[p] = "handling"
  /\ Settling(p, "error")
  /\ UNCHANGED <<options, broker, todo, semaphore, remembered, closing, history>>

\* `finally`: release what this work acquired.
ReleasePermit(p) ==
  IF promise[p] = "resolved" THEN Sem!Release(p) ELSE UNCHANGED semaphore

\* The ack loop gets through `a` messages before one throws; then, as when the
\* handler failed, the nack loop starts over and gets through `n`.
Answers(w, v) ==
  {r \in [acks : 0..Len(w), nacks : 0..Len(w)] :
     /\ v = "error" => r.acks = 0
     /\ v = "ok" /\ r.acks = Len(w) => r.nacks = Len(w)}

\* What the loops leave of message i: an acked one stays acked.
Answered(i, r) ==
  IF i <= r.acks THEN "acked" ELSE IF i <= r.nacks THEN "requeued" ELSE "delivered"

\* After the try block: the answers to the broker, the release, the next round.
\* A nack that throws leaves the catch block and ends the poll.
Settle(p) ==
  /\ phase[p] = "settling"
  /\ LET w == Work(p)
         rest == SubSeq(todo[p], Len(w) + 1, Len(todo[p]))
     IN  \E r \in IF manualAck THEN {[acks |-> 0, nacks |-> Len(w)]} ELSE Answers(w, verdict[p]) :
           /\ at' = IF manualAck THEN at
                    ELSE [m \in Messages |->
                            IF m \in Members(w)
                            THEN Answered(CHOOSE i \in 1..Len(w) : w[i] = m, r)
                            ELSE at[m]]
           /\ IF r.nacks < Len(w)
              THEN /\ unsettled' = unsettled \cup
                        {m \in Members(todo[p]) : at'[m] = "delivered"}
                   /\ phase' = [phase EXCEPT ![p] = "idle"]
                   /\ todo' = [todo EXCEPT ![p] = <<>>]
              ELSE /\ phase' = [phase EXCEPT ![p] = IF rest = <<>> THEN "idle" ELSE "between"]
                   /\ todo' = [todo EXCEPT ![p] = rest]
                   /\ UNCHANGED unsettled
  /\ verdict' = [verdict EXCEPT ![p] = "none"]
  /\ ReleasePermit(p)
  /\ draining' = draining \ {p}
  /\ owed' = owed \ {<<p, m>> : m \in Members(Work(p))}
  /\ UNCHANGED <<options, redeliveries, remembered, status, timedOut, fate, refused>>

\* The cache lets go of keys, by age or for want of room.
Forget ==
  /\ \E k \in remembered : remembered' = remembered \ {k}
  /\ UNCHANGED <<options, broker, poll, semaphore, closing, history>>

\* close(): drain takes the set of the promises in flight now; with none it
\* returns at once and the streams close.
Close ==
  /\ ~ContinuationDue
  /\ status = "open"
  /\ draining' = {p \in Polls : Tracked(p)}
  /\ status' = IF draining' = {} THEN "stopping" ELSE "draining"
  /\ owed' = UNION {{p} \X Members(Work(p)) :
                      p \in {q \in Polls : phase[q] \notin {"idle", "between"}}}
  /\ UNCHANGED <<options, broker, poll, semaphore, remembered, timedOut, history>>

\* Promise.race: all of them settled, or the timeout; then the streams close.
DrainEnds ==
  /\ status = "draining"
  /\ draining = {} \/ ~ContinuationDue
  /\ timedOut' = (draining # {})
  /\ status' = "stopping"
  /\ UNCHANGED <<options, broker, poll, semaphore, remembered, draining, owed, history>>

\* The client is closed and the maps are cleared.
CloseEnds ==
  /\ ~ContinuationDue
  /\ status = "stopping"
  /\ status' = "closed"
  /\ remembered' = {}
  /\ UNCHANGED <<options, broker, poll, semaphore, draining, timedOut, owed, history>>

Proceed(p) ==
  \/ SkipDuplicate(p) \/ PassCache(p) \/ FailBeforeHandler(p) \/ CallHandler(p)
  \/ RejectToDlq(p) \/ DlqAnswered(p) \/ RejectWithWarning(p)
  \/ HandlerSucceeds(p) \/ HandlerThrows(p)
  \/ Settle(p) \/ NextMessage(p)

Next ==
  \/ \E p \in Polls : Deliver(p) \/ HandlerSettles(p) \/ Proceed(p)
  \/ Forget \/ Close \/ DrainEnds \/ CloseEnds

\* The event loop runs every continuation, and a handler settles.  Nothing
\* obliges the broker to deliver or the application to close.
Fairness == \A p \in Polls : WF_vars(Proceed(p))

Spec == Init /\ [][Next]_vars /\ Fairness

-----------------------------------------------------------------------------
(* Properties *)

TypeOK ==
  /\ batch \in BOOLEAN /\ manualAck \in BOOLEAN
  /\ at \in [Messages -> {"queued", "delivered", "requeued", "acked"}]
  /\ redeliveries \in 0..MaxRedeliveries
  /\ phase \in [Polls -> {"idle", "asking", "validating", "routing", "handling",
                          "settling", "between"}]
  /\ todo \in [Polls -> {<<>>} \cup Batches(Messages)]
  /\ verdict \in [Polls -> {"none", "ok", "error"}]
  /\ Sem!TypeOK
  /\ remembered \subseteq Keys
  /\ status \in {"open", "draining", "stopping", "closed"}
  /\ draining \subseteq Polls
  /\ timedOut \in BOOLEAN
  /\ fate \in [Messages -> {"none", "handled", "deadLettered", "dropped"}]
  /\ refused \subseteq Messages /\ unsettled \subseteq Messages
  /\ owed \subseteq Polls \X Messages

\* A permit is held exactly by work in progress and a waiter is a poll that asked:
\* whatever way the work ends (overflow, throwing nack), nothing leaks.
PermitsMatchWork ==
  /\ Sem!SemaphoreInv
  /\ \A p \in Polls :
       /\ promise[p] = "resolved" => Tracked(p)
       /\ promise[p] = "pending" => phase[p] = "asking"

\* Until the maps are cleared no more than `concurrency` handlers run together.
HandlersWithinLimit ==
  MapsFilled => Cardinality({p \in Polls : phase[p] = "handling"}) <= MaxConcurrent

\* The backpressure of a handler works: both of the above.
PermitsSound == PermitsMatchWork /\ HandlersWithinLimit

\* A message was handled, or another with its key was, or the validation took it.
Processed(m) ==
  \/ fate[m] # "none"
  \/ \E o \in Messages : KeyOf[o] = KeyOf[m] /\ KeyOf[m] \in Keys /\ fate[o] = "handled"

\* "Queues provide at-least-once delivery": with automatic acknowledgement only a
\* processed message is acknowledged, whatever is redelivered, expires or fails.
AckedWasProcessed ==
  ~manualAck => \A m \in Messages : at[m] = "acked" => Processed(m)

\* The same where messages are handled one by one.
AckedSinglyWasProcessed == ~batch => AckedWasProcessed

\* With automatic acknowledgement the server abandons a delivered message, so that
\* only the broker's own timeout can bring it back, for two reasons: an overflow
\* of the waiting line, or an ack or nack that threw.
InHand(m) == \E p \in Polls : m \in Members(todo[p])
AbandonedOnlyByFault ==
  ~manualAck =>
    \A m \in Messages : at[m] = "delivered" /\ ~InHand(m) => m \in refused \cup unsettled

\* When the streams close and drain did not time out, every message that was in
\* flight as close() began (waiting for a permit, too) has been answered.
DrainCoversInFlight ==
  status \in {"stopping", "closed"} /\ ~timedOut => owed = {}

\* The error's own words: "(queue: nack/requeue; non-queue: dropped)".
OverflowIsNacked == \A m \in refused : at[m] # "delivered"

\* The handler's runs keep the protocol of the window: one is let in only for a key
\* that is not remembered at that moment, and a key is only remembered by a run.
PastCache(p) == phase[p] \in {"validating", "handling"}

Window == INSTANCE DedupWindow
            WITH WindowKeys <- Keys,
                 Capacity <- Cardinality(Keys),
                 attempts <- [k \in Keys |->
                    Cardinality({p \in Polls : PastCache(p) /\ WorkKey(p) = k})]
UsesWindow == Window!Spec

\* Every poll comes to its end: no permit is lost on the way that another waits for.
PollEnds == \A p \in Polls : phase[p] # "idle" ~> phase[p] = "idle"

=============================================================================
