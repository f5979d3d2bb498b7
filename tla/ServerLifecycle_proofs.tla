----------------------- MODULE ServerLifecycle_proofs -----------------------
(***************************************************************************)
(* Theorems about ServerLifecycle, for any number of handlers, listeners   *)
(* and clients and any set of retry policies.                              *)
(***************************************************************************)
EXTENDS ServerLifecycle, TLAPS

\* Who connects: listen at most once and first, the timer only after it.
PhaseInv ==
  /\ listen = "idle" => task = "none" /\ ~timer /\ client = NoClient
  /\ listen = "connecting" => task # "none" /\ by = "listen"
  /\ task # "none" /\ by = "listen" => listen = "connecting"
  /\ by = "retry" => listen = "resolved"
  /\ timer => task = "none" /\ listen = "resolved"
  /\ timer \/ task = "creating" => client = NoClient

\* Which clients are open, and which one a discard or a rollback holds.
ClientInv ==
  /\ NoClientLeak
  /\ task \in {"none", "creating", "initializing", "binding"} => hand = NoClient
  /\ task = "rollback" => client \in {hand, NoClient}
  /\ task = "discarding" => closing
  /\ ~closing /\ task \in {"initializing", "binding"} => client # NoClient
  /\ ~closing /\ client # NoClient => client \in live

\* What close() has done so far stays done.
ClosingInv ==
  /\ closing <=> closer # "none"
  /\ closing => ~timer
  /\ closer \in {"closingClient", "done"} => pending = {}
  /\ closer = "done" => client = NoClient

\* The subscriptions are those the present attempt has made, on the present client.
SubsInv ==
  /\ task = "initializing" => bound = 0
  /\ ~closing =>
       /\ client = NoClient \/ task \in {"initializing", "rollback"} => subs = {}
       /\ task = "binding" => subs = {client} \X (1 .. bound)
       /\ task = "none" /\ client # NoClient => subs = {client} \X Handlers

\* The attempts counted by the code, and those made.
AttemptInv ==
  /\ exhausted => listen = "resolved" /\ task = "none" /\ ~timer
  /\ ~Unlimited =>
       /\ by = "listen" => attempt = 0
       /\ IF task # "none" /\ by = "retry" THEN tries = attempt + 1 ELSE tries = attempt
       /\ timer => attempt < maxAttempts
       /\ tries <= maxAttempts
       /\ exhausted => tries = maxAttempts

\* Each conjunct is inductive only in the company of the others.
IInv ==
  /\ TypeOK /\ PhaseInv /\ ClientInv /\ ClosingInv /\ SubsInv
  /\ AttemptInv /\ LoopAlive /\ ListenersKept

\* What a failed attempt leaves is of the right type.
LEMMA ThrowsType ==
  ASSUME TypeOK, NEW kind \in {"none", "connection", "validation", "other"},
         NEW s \in {"DISCONNECTED", "RECONNECTING", "CONNECTED", "CLOSED"},
         Throws(kind, s)
  PROVE  /\ task' = "none" /\ by' = by
         /\ listen' \in {"idle", "connecting", "resolved", "rejected"}
         /\ timer' \in BOOLEAN /\ exhausted' \in BOOLEAN
         /\ attempt' \in Nat /\ tries' = tries
         /\ cause' \in {"none", "connection", "validation", "other"}
         /\ status' \in {"DISCONNECTED", "RECONNECTING", "CONNECTED", "CLOSED"}
         /\ pending' \subseteq pending
<1> USE DEF TypeOK, Throws, ScheduleRetry, IsConnectionError
<1>1. CASE ThrowsToListen(kind, s)
  BY <1>1 DEF ThrowsToListen
<1>2. CASE ThrowsToRetry(kind, s)
  <2>1. attempt' \in Nat
    BY <1>2 DEF ThrowsToRetry, NextAttempt
  <2> QED
    BY <1>2, <2>1 DEF ThrowsToRetry
<1> QED
  BY <1>1, <1>2

\* listen() begins: nothing is connected yet, so every conjunct but PhaseInv is
\* only read.
LEMMA ListenIInv ==
  ASSUME IInv, Listen
  PROVE  IInv'
<1> USE DEF IInv, Listen,
            options, connecting, resources, retry, shutdown, listening, history
<1>1. TypeOK'
  BY DEF TypeOK
<1>2. PhaseInv'
  BY DEF PhaseInv, TypeOK
<1>3. ClientInv'
  BY DEF ClientInv, TypeOK, PhaseInv, NoClientLeak
<1>4. ClosingInv'
  BY DEF ClosingInv, TypeOK
<1>5. SubsInv'
  BY DEF SubsInv, TypeOK
<1>6. AttemptInv'
  BY DEF AttemptInv, TypeOK, PhaseInv, Unlimited
<1>7. LoopAlive'
  BY DEF LoopAlive, TypeOK
<1>8. ListenersKept'
  BY DEF TypeOK, ListenersKept
<1> QED
  BY <1>1, <1>2, <1>3, <1>4, <1>5, <1>6, <1>7, <1>8

\* The timer fires: the attempt that begins is the one `tries` is ahead of
\* `attempt` by.
LEMMA RetryTimerIInv ==
  ASSUME IInv, RetryTimer
  PROVE  IInv'
<1> USE DEF IInv
<1>1. TypeOK'
  <2>1. tries' \in Nat
    BY DEF RetryTimer, TypeOK, Unlimited
  <2>2. /\ timer' = FALSE /\ by' = "retry" /\ task' = "creating"
        /\ UNCHANGED <<options, listen, bound, hand, failure, resources, attempt, exhausted,
                       shutdown, status, wired, listening, lost, cause>>
    BY DEF RetryTimer
  <2>3. timer' \in BOOLEAN /\ by' \in {"listen", "retry"}
    BY <2>2
  <2>4. task' \in {"none", "creating", "discarding", "initializing", "binding", "rollback"}
    BY <2>2
  <2> QED
    BY <2>1, <2>2, <2>3, <2>4 DEF TypeOK, options, resources, shutdown, listening, Handlers
<1> USE DEF RetryTimer, Unlimited,
            options, resources, retry, shutdown, listening
<1>2. PhaseInv'
  BY DEF PhaseInv, TypeOK
<1>3. ClientInv'
  BY DEF ClientInv, TypeOK, PhaseInv, NoClientLeak
<1>4. ClosingInv'
  BY DEF ClosingInv, TypeOK
<1>5. SubsInv'
  BY DEF SubsInv, TypeOK
<1>6. AttemptInv'
  BY PoliciesAssumption DEF AttemptInv, TypeOK, PhaseInv
<1>7. LoopAlive'
  BY DEF LoopAlive, TypeOK
<1>8. ListenersKept'
  BY DEF TypeOK, ListenersKept
<1> QED
  BY <1>1, <1>2, <1>3, <1>4, <1>5, <1>6, <1>7, <1>8

\* A client arrives: there was none before, so it is the only one that is open.
LEMMA CreateSucceedsIInv ==
  ASSUME IInv, CreateSucceeds
  PROVE  IInv'
<1> USE DEF IInv, CreateSucceeds, Receives,
            options, retry, shutdown, history
<1>1. TypeOK'
  <2>1. 0 \in 0 .. NumHandlers
    BY HandlersAssumption
  <2> QED
    BY <2>1 DEF TypeOK, Handlers
<1>2. PhaseInv'
  BY DEF PhaseInv, TypeOK
<1>3. ClientInv'
  BY DEF ClientInv, TypeOK, PhaseInv, NoClientLeak
<1>4. ClosingInv'
  BY DEF ClosingInv, TypeOK
<1>5. SubsInv'
  BY DEF SubsInv, TypeOK, PhaseInv
<1>6. AttemptInv'
  BY DEF AttemptInv, TypeOK, Unlimited
<1>7. LoopAlive'
  BY DEF LoopAlive, TypeOK
<1>8. ListenersKept'
  <2>1. client = NoClient
    BY DEF PhaseInv
  <2>2. \A l \in registered : <<client, l>> \notin attached
    BY <2>1, ClientsAssumption DEF TypeOK
  <2>3. ~closing /\ ~exhausted => registered \subseteq pending \cup lost
    BY <2>2 DEF ListenersKept
  <2> QED
    BY <2>3 DEF ListenersKept
<1> QED
  BY <1>1, <1>2, <1>3, <1>4, <1>5, <1>6, <1>7, <1>8

\* No client arrives: the loop goes on, gives up, or listen() is rejected.
LEMMA CreateFailsIInv ==
  ASSUME IInv, CreateFails
  PROVE  IInv'
<1> USE DEF IInv
<1>1. TypeOK'
  <2>1. PICK kind \in {"connection", "other"} : Throws(kind, status)
    BY DEF CreateFails
  <2>2. UNCHANGED <<options, bound, hand, failure, resources, shutdown, wired,
                    registered, attached, lost>>
    BY DEF CreateFails
  <2> QED
    BY <2>1, <2>2, ThrowsType DEF TypeOK, options, resources, shutdown
<1> USE DEF IInv, CreateFails, Throws, ThrowsToListen, ThrowsToRetry, ScheduleRetry,
            NextAttempt, KeepsTrying, IsConnectionError, Unlimited,
            options, resources, retry, shutdown
<1>2. PhaseInv'
  BY DEF PhaseInv, TypeOK
<1>3. ClientInv'
  BY DEF ClientInv, TypeOK, NoClientLeak
<1>4. ClosingInv'
  BY DEF ClosingInv, TypeOK
<1>5. SubsInv'
  BY DEF SubsInv, TypeOK, PhaseInv
<1>6. AttemptInv'
  BY PoliciesAssumption DEF AttemptInv, TypeOK, PhaseInv
<1>7. LoopAlive'
  BY DEF LoopAlive, TypeOK
<1>8. ListenersKept'
  BY DEF TypeOK, ListenersKept
<1> QED
  BY <1>1, <1>2, <1>3, <1>4, <1>5, <1>6, <1>7, <1>8

\* The client that came too late is closed; the server is closing, so nothing is
\* owed.
LEMMA DiscardedIInv ==
  ASSUME IInv, Discarded
  PROVE  IInv'
<1> USE DEF IInv, Discarded, Returns,
            options, shutdown, listening
<1>1. TypeOK'
  BY DEF TypeOK
<1>2. PhaseInv'
  BY DEF PhaseInv, TypeOK
<1>3. ClientInv'
  BY DEF ClientInv, TypeOK, NoClientLeak
<1>4. ClosingInv'
  BY DEF ClosingInv, TypeOK
<1>5. SubsInv'
  BY DEF SubsInv, TypeOK, ClientInv, NoClientLeak
<1>6. AttemptInv'
  BY PoliciesAssumption DEF AttemptInv, TypeOK, Unlimited
<1>7. LoopAlive'
  BY DEF LoopAlive, TypeOK, ClientInv, NoClientLeak
<1>8. ListenersKept'
  BY DEF TypeOK, ListenersKept
<1> QED
  BY <1>1, <1>2, <1>3, <1>4, <1>5, <1>6, <1>7, <1>8

\* close() has taken the client away before the first handler.
LEMMA ClientGoneIInv ==
  ASSUME IInv, ClientGone
  PROVE  IInv'
<1> USE DEF IInv, ClientGone, Throws, ThrowsToListen, ThrowsToRetry, ScheduleRetry, NextAttempt,
            KeepsTrying, IsConnectionError, Unlimited,
            options, resources, retry, shutdown
<1>1. TypeOK'
  BY DEF TypeOK, ClientInv, NoClientLeak
<1>2. PhaseInv'
  BY DEF PhaseInv, TypeOK
<1>3. ClientInv'
  BY DEF ClientInv, TypeOK, NoClientLeak
<1>4. ClosingInv'
  BY DEF ClosingInv, TypeOK
<1>5. SubsInv'
  BY DEF SubsInv, TypeOK
<1>6. AttemptInv'
  BY DEF AttemptInv, TypeOK, PhaseInv, ClientInv, NoClientLeak
<1>7. LoopAlive'
  BY DEF LoopAlive, TypeOK
<1>8. ListenersKept'
  BY DEF TypeOK, ListenersKept
<1> QED
  BY <1>1, <1>2, <1>3, <1>4, <1>5, <1>6, <1>7, <1>8

\* One more handler: the subscriptions are those of 1 .. h.
LEMMA BindIInv ==
  ASSUME IInv, NEW h \in Handlers, Bind(h)
  PROVE  IInv'
<1> USE DEF IInv, Bind, Initialized, Resumed, WireClient, Rejected,
            options, retry, shutdown, history
<1>1. TypeOK'
  <2>1. client \in Clients /\ h \in 0 .. NumHandlers /\ <<client, h>> \in Clients \X Handlers
    BY HandlersAssumption DEF TypeOK, Handlers
  <2> QED
    BY <2>1 DEF TypeOK
<1>2. PhaseInv'
  BY DEF PhaseInv, TypeOK
<1>3. ClientInv'
  BY DEF ClientInv, TypeOK, NoClientLeak
<1>4. ClosingInv'
  BY DEF ClosingInv, TypeOK
<1>5. SubsInv'
  BY DEF SubsInv, TypeOK
<1>6. AttemptInv'
  BY DEF AttemptInv, TypeOK, Unlimited
<1>7. LoopAlive'
  BY DEF LoopAlive, TypeOK
<1>8. ListenersKept'
  BY DEF TypeOK, ListenersKept
<1> QED
  BY <1>1, <1>2, <1>3, <1>4, <1>5, <1>6, <1>7, <1>8

\* A binding fails: no subscription is left, and the rollback holds the client.
LEMMA BindFailsIInv ==
  ASSUME IInv, NEW h \in Handlers, BindFails(h)
  PROVE  IInv'
<1> USE DEF IInv, BindFails, Initialized, Resumed, WireClient, BindError, CancelsSubscriptions,
            Rejected,
            options, retry, shutdown, history
<1>1. TypeOK'
  <2>1. 0 \in 0 .. NumHandlers
    BY HandlersAssumption
  <2> QED
    BY <2>1 DEF TypeOK, Handlers
<1>2. PhaseInv'
  BY DEF PhaseInv, TypeOK
<1>3. ClientInv'
  BY ClientsAssumption DEF ClientInv, TypeOK, PhaseInv, ClosingInv, NoClientLeak
<1>4. ClosingInv'
  BY DEF ClosingInv, TypeOK
<1>5. SubsInv'
  BY DEF SubsInv, TypeOK
<1>6. AttemptInv'
  BY DEF AttemptInv, TypeOK, Unlimited
<1>7. LoopAlive'
  BY DEF LoopAlive, TypeOK
<1>8. ListenersKept'
  BY DEF TypeOK, ListenersKept
<1> QED
  BY <1>1, <1>2, <1>3, <1>4, <1>5, <1>6, <1>7, <1>8

\* The rollback is over: its client was this.client or close() had taken that
\* away.
LEMMA RolledBackIInv ==
  ASSUME IInv, RolledBack
  PROVE  IInv'
<1> USE DEF IInv
<1>1. TypeOK'
  <2>1. Throws(failure, IF hand \in live THEN "CLOSED" ELSE status)
    BY DEF RolledBack
  <2>2. /\ live' = live \ {hand} /\ wired' = wired \ {hand}
        /\ client' = NoClient /\ hand' = NoClient /\ failure' = "none"
        /\ lost' \subseteq Listeners
        /\ UNCHANGED <<options, bound, subs, shutdown, registered, attached>>
    BY DEF RolledBack, ClosesClient, TypeOK
  <2>3. (IF hand \in live THEN "CLOSED" ELSE status)
          \in {"DISCONNECTED", "RECONNECTING", "CONNECTED", "CLOSED"}
    BY DEF TypeOK
  <2> QED
    BY <2>1, <2>2, <2>3, ThrowsType DEF TypeOK, options, shutdown
<1> USE DEF IInv, RolledBack, ClosesClient, Throws, ThrowsToListen, ThrowsToRetry,
            ScheduleRetry, NextAttempt, KeepsTrying, IsConnectionError, Unlimited,
            options, retry, shutdown
<1>2. PhaseInv'
  BY DEF PhaseInv, TypeOK
<1>3. ClientInv'
  BY DEF ClientInv, TypeOK, NoClientLeak
<1>4. ClosingInv'
  BY DEF ClosingInv, TypeOK
<1>5. SubsInv'
  BY DEF SubsInv, TypeOK
<1>6. AttemptInv'
  BY PoliciesAssumption DEF AttemptInv, TypeOK, PhaseInv
<1>7. LoopAlive'
  BY DEF LoopAlive, TypeOK
<1>8. ListenersKept'
  <2>1. client \in {hand, NoClient} /\ \A l \in Listeners : <<NoClient, l>> \notin attached
    BY ClientsAssumption DEF ClientInv, TypeOK
  <2>2. \A l \in registered : ~closing /\ ~exhausted => l \in pending \/ l \in lost'
    BY <2>1 DEF ListenersKept, TypeOK
  <2>3. registered' = registered /\ closing' = closing
    OBVIOUS
  <2>4. ~closing /\ ~exhausted' => pending' = pending /\ ~exhausted
    BY DEF AttemptInv, TypeOK
  <2> QED
    BY <2>2, <2>3, <2>4 DEF ListenersKept
<1> QED
  BY <1>1, <1>2, <1>3, <1>4, <1>5, <1>6, <1>7, <1>8

\* All are bound: 1 .. bound is Handlers.
LEMMA AllBoundIInv ==
  ASSUME IInv, AllBound
  PROVE  IInv'
<1> USE DEF IInv, AllBound, Returns,
            options, resources, shutdown, listening
<1>1. TypeOK'
  BY DEF TypeOK
<1>2. PhaseInv'
  BY DEF PhaseInv, TypeOK
<1>3. ClientInv'
  BY DEF ClientInv, TypeOK, NoClientLeak
<1>4. ClosingInv'
  BY DEF ClosingInv, TypeOK
<1>5. SubsInv'
  BY DEF SubsInv, TypeOK, Handlers
<1>6. AttemptInv'
  BY PoliciesAssumption DEF AttemptInv, TypeOK, Unlimited
<1>7. LoopAlive'
  BY DEF LoopAlive, TypeOK, ClientInv, NoClientLeak
<1>8. ListenersKept'
  BY DEF TypeOK, ListenersKept
<1> QED
  BY <1>1, <1>2, <1>3, <1>4, <1>5, <1>6, <1>7, <1>8

\* A listener is attached to the client there is, or waits for one.
LEMMA OnIInv ==
  ASSUME IInv, NEW l \in Listeners, On(l)
  PROVE  IInv'
<1> USE DEF IInv, On,
            options, connecting, resources, retry, shutdown, history
<1>1. TypeOK'
  BY DEF TypeOK
<1>2. PhaseInv'
  BY DEF PhaseInv, TypeOK
<1>3. ClientInv'
  BY DEF ClientInv, TypeOK, NoClientLeak
<1>4. ClosingInv'
  BY DEF ClosingInv, TypeOK
<1>5. SubsInv'
  BY DEF SubsInv, TypeOK
<1>6. AttemptInv'
  BY DEF AttemptInv, TypeOK, Unlimited
<1>7. LoopAlive'
  BY DEF LoopAlive, TypeOK
<1>8. ListenersKept'
  BY DEF TypeOK, ListenersKept
<1> QED
  BY <1>1, <1>2, <1>3, <1>4, <1>5, <1>6, <1>7, <1>8

\* close() begins: from here on nothing but the clients is promised.
LEMMA CloseIInv ==
  ASSUME IInv, Close
  PROVE  IInv'
<1> USE DEF IInv, Close,
            options, connecting, resources, listening, history
<1>1. TypeOK'
  <2>1. /\ closer' \in {"none", "draining", "closingClient", "done"}
        /\ closing' \in BOOLEAN /\ timer' \in BOOLEAN
    OBVIOUS
  <2> QED
    BY <2>1 DEF TypeOK, Handlers
<1>2. PhaseInv'
  BY DEF PhaseInv, TypeOK
<1>3. ClientInv'
  BY DEF ClientInv, TypeOK, NoClientLeak
<1>4. ClosingInv'
  BY DEF ClosingInv, TypeOK
<1>5. SubsInv'
  BY DEF SubsInv, TypeOK
<1>6. AttemptInv'
  BY DEF AttemptInv, TypeOK, Unlimited
<1>7. LoopAlive'
  BY DEF LoopAlive, TypeOK
<1>8. ListenersKept'
  BY DEF TypeOK, ListenersKept
<1> QED
  BY <1>1, <1>2, <1>3, <1>4, <1>5, <1>6, <1>7, <1>8

\* Drain is over: no listener waits any more.
LEMMA DrainedIInv ==
  ASSUME IInv, Drained
  PROVE  IInv'
<1> USE DEF IInv, Drained,
            options, connecting, retry, history
<1>1. TypeOK'
  BY DEF TypeOK
<1>2. PhaseInv'
  BY DEF PhaseInv, TypeOK
<1>3. ClientInv'
  BY DEF ClientInv, TypeOK, NoClientLeak
<1>4. ClosingInv'
  BY DEF ClosingInv, TypeOK
<1>5. SubsInv'
  BY DEF SubsInv, TypeOK, ClosingInv
<1>6. AttemptInv'
  BY DEF AttemptInv, TypeOK, Unlimited
<1>7. LoopAlive'
  BY DEF LoopAlive, TypeOK
<1>8. ListenersKept'
  BY DEF TypeOK, ClosingInv, ListenersKept
<1> QED
  BY <1>1, <1>2, <1>3, <1>4, <1>5, <1>6, <1>7, <1>8

\* The client is closed, whether or not the rollback closes it, too.
LEMMA ClientClosedIInv ==
  ASSUME IInv, ClientClosed
  PROVE  IInv'
<1> USE DEF IInv, ClientClosed,
            options, connecting, retry, listening, history
<1>1. TypeOK'
  BY DEF TypeOK
<1>2. PhaseInv'
  BY DEF PhaseInv, TypeOK
<1>3. ClientInv'
  BY DEF ClientInv, TypeOK, ClosingInv, NoClientLeak
<1>4. ClosingInv'
  BY DEF ClosingInv, TypeOK
<1>5. SubsInv'
  BY DEF SubsInv, TypeOK, ClosingInv
<1>6. AttemptInv'
  BY DEF AttemptInv, TypeOK, Unlimited
<1>7. LoopAlive'
  BY DEF LoopAlive, TypeOK, ClosingInv
<1>8. ListenersKept'
  BY DEF TypeOK, ClosingInv, ListenersKept
<1> QED
  BY <1>1, <1>2, <1>3, <1>4, <1>5, <1>6, <1>7, <1>8

\* An event of kubemq-js touches the status only.
LEMMA SdkEventIInv ==
  ASSUME IInv, SdkEvent
  PROVE  IInv'
<1> USE DEF IInv, SdkEvent,
            options, connecting, resources, retry, shutdown, listening, history
<1>1. TypeOK'
  BY DEF TypeOK
<1>2. PhaseInv'
  BY DEF PhaseInv, TypeOK
<1>3. ClientInv'
  BY DEF ClientInv, TypeOK, NoClientLeak
<1>4. ClosingInv'
  BY DEF ClosingInv, TypeOK
<1>5. SubsInv'
  BY DEF SubsInv, TypeOK
<1>6. AttemptInv'
  BY DEF AttemptInv, TypeOK, Unlimited
<1>7. LoopAlive'
  BY DEF LoopAlive, TypeOK
<1>8. ListenersKept'
  BY DEF TypeOK, ListenersKept
<1> QED
  BY <1>1, <1>2, <1>3, <1>4, <1>5, <1>6, <1>7, <1>8

\* The constructor establishes the invariant.
LEMMA InitIInv == Init => IInv
<1> SUFFICES ASSUME Init PROVE IInv
  OBVIOUS
<1> USE DEF Init
<1>1. TypeOK
  <2>1. bound \in 0 .. NumHandlers
    BY HandlersAssumption
  <2>2. attempt \in Nat /\ tries \in Nat
    OBVIOUS
  <2> QED
    BY <2>1, <2>2 DEF TypeOK
<1>2. PhaseInv /\ ClientInv /\ ClosingInv /\ SubsInv
  BY DEF PhaseInv, ClientInv, NoClientLeak, ClosingInv, SubsInv
<1>3. AttemptInv
  BY PoliciesAssumption DEF AttemptInv, Unlimited
<1>4. LoopAlive /\ ListenersKept
  BY DEF LoopAlive, ListenersKept
<1> QED
  BY <1>1, <1>2, <1>3, <1>4 DEF IInv

\* A step that changes nothing keeps it.
LEMMA StutterIInv == IInv /\ UNCHANGED vars => IInv'
  BY DEF IInv, TypeOK, PhaseInv, ClientInv, NoClientLeak, ClosingInv, SubsInv, AttemptInv,
         Unlimited, LoopAlive, ListenersKept, vars, options, connecting, resources,
         retry, shutdown, listening, history

\* Every step keeps it, by the lemma of its action.
LEMMA StepIInv == IInv /\ [Next]_vars => IInv'
<1> SUFFICES ASSUME IInv, Next PROVE IInv'
  BY StutterIInv
<1>1. CASE Connecting
  BY <1>1, RetryTimerIInv, CreateSucceedsIInv, CreateFailsIInv, DiscardedIInv, ClientGoneIInv,
     BindIInv, BindFailsIInv, RolledBackIInv, AllBoundIInv DEF Connecting
<1>2. CASE ~Connecting
  BY <1>2, ListenIInv, OnIInv, CloseIInv, DrainedIInv, ClientClosedIInv, SdkEventIInv DEF Next
<1> QED
  BY <1>1, <1>2

\* The invariant holds in every state; fairness is not needed for it.
LEMMA Invariance == Spec => []IInv
  BY InitIInv, StepIInv, PTL DEF Spec

\* When nothing connects, the subscriptions are those of the whole loop.
LEMMA UpIsBound == IInv => BoundOnce
  BY DEF IInv, BoundOnce, Up, ClientInv, SubsInv

\* Without an attempt under way nobody holds a client beside this.client.
LEMMA DoneIsClosed == IInv => ClosedIsFinal
  BY ClientsAssumption DEF IInv, TypeOK, ClosedIsFinal, ClientInv, NoClientLeak, ClosingInv

\* The variables of the server keep their types, for any number of handlers,
\* listeners and clients and any set of retry policies.
THEOREM TypeCorrect == Spec => []TypeOK
<1>1. IInv => TypeOK
  BY DEF IInv
<1> QED
  BY Invariance, <1>1, PTL

\* Every client that KubeMQSDKClient.create returned and nobody closed is
\* this.client or in the hand of a discard or a rollback, however connecting and
\* closing interleave.
THEOREM ClientsDoNotLeak == Spec => []NoClientLeak
<1>1. IInv => NoClientLeak
  BY DEF IInv, ClientInv
<1> QED
  BY Invariance, <1>1, PTL

\* When connectAndBindHandlers has left a client, that client is open and its
\* subscriptions are those of all the handlers, once each, whatever was rolled
\* back before.
THEOREM BoundExactlyOnce == Spec => []BoundOnce
  BY Invariance, UpIsBound, PTL

\* When close() is over and no attempt is under way, there is no client, none is
\* open, no listener waits and no timer will bring one.
THEOREM ClosedForGood == Spec => []ClosedIsFinal
  BY Invariance, DoneIsClosed, PTL

\* After listen() a server that could not reach its broker is connecting, about to retry,
\* exhausted or closing: no error path of the loop forgets to schedule.
THEOREM LoopNeverStops == Spec => []LoopAlive
<1>1. IInv => LoopAlive
  BY DEF IInv
<1> QED
  BY Invariance, <1>1, PTL

\* With a limit, any limit, the loop retries that often before it gives up and
\* never more.
THEOREM AttemptsWithinLimit == Spec => []AttemptsBounded
<1>1. IInv => AttemptsBounded
  BY DEF IInv, AttemptInv, AttemptsBounded
<1> QED
  BY Invariance, <1>1, PTL

\* Until exhaustion or close(), every listener registered with on() is on the client,
\* waits for one, or went with the client of a rollback.
THEOREM ListenersNotLost == Spec => []ListenersKept
<1>1. IInv => ListenersKept
  BY DEF IInv, ListenersKept
<1> QED
  BY Invariance, <1>1, PTL

=============================================================================
