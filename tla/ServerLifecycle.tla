--------------------------- MODULE ServerLifecycle ---------------------------
(***************************************************************************)
(* KubeMQServer from listen() to close(): connecting, binding the handlers,*)
(* rolling a failed binding back, the reconnect loop of ReconnectManager,  *)
(* the listeners registered with on(), and the status it reports           *)
(* (src/src/server/kubemq.server.ts, reconnect-manager.ts).                *)
(*                                                                         *)
(* A step is what runs between two awaits.  One connectAndBindHandlers     *)
(* (`task`) and one close() (`closer`) are under way at most, and every    *)
(* await of the one lets the other in; the loop that binds the handlers    *)
(* awaits after each of them.  What drain waits for is the subject of      *)
(* QueueConsumer.                                                          *)
(***************************************************************************)
EXTENDS Integers

CONSTANTS NumHandlers, \* the message handlers to bind, in the order of the map
          Suspects,    \* those that may have been declared wrongly
          Listeners,   \* the callbacks the application registers with on()
          Clients,     \* the kubemq-js clients that may exist at the same time
          NoClient,    \* `null`
          Policies     \* the values of maxAttempts to consider, -1 for unlimited

ASSUME HandlersAssumption == NumHandlers \in Nat \ {0} /\ Suspects \subseteq 1 .. NumHandlers
ASSUME ClientsAssumption == NoClient \notin Clients
ASSUME PoliciesAssumption == Policies \subseteq Nat \cup {-1}

VARIABLES
  waits, maxAttempts, \* options: waitForConnection !== false; the retry policy
  misdeclared,        \* the handlers whose binding throws a ValidationError
  listen,             \* the promise of listen()
  task,               \* where connectAndBindHandlers is
  by,                 \* who called it: listen or the retry timer
  bound,              \* how many handlers it has bound
  hand,               \* the client a rollback or a discard is closing
  failure,            \* why the rollback: what is thrown after it
  client,             \* this.client
  live,               \* the clients created and not closed
  subs,               \* subscriptions and queueStreams: <<client, handler>>
  timer,              \* the retry timer is armed
  attempt,            \* failed attempts since the last success
  exhausted,          \* onExhausted was called
  closing, closer,    \* _closing, and where close() is
  status,             \* the last value of _status$
  wired,              \* the clients whose events feed _status$
  registered,         \* what the application registered while not closing
  pending,            \* pendingEventListeners
  attached,           \* <<client, listener>>: client.on(event, cb) was called
  lost,               \* history: the listeners on a client that a rollback has closed
  cause,              \* history: why the last attempt failed, if it did
  tries               \* history: retries since the last success

options == <<waits, maxAttempts, misdeclared>>
connecting == <<task, by, bound, hand, failure>>
resources == <<client, live, subs>>
retry == <<timer, attempt, exhausted>>
shutdown == <<closing, closer>>
listening == <<registered, pending, attached>>
history == <<lost, cause, tries>>
vars == <<options, listen, connecting, resources, retry, shutdown, status, wired,
          listening, history>>

Unlimited == maxAttempts < 0

Handlers == 1 .. NumHandlers

\* connectAndBindHandlers is over and has left a client bound.
Up == task = "none" /\ client # NoClient /\ ~closing

-----------------------------------------------------------------------------
(* Faults: operations as a slip would have written them. *)

\* The limit is compared with > instead of >=.
ScheduleRetryOnceMore(n) ==
  IF ~Unlimited /\ n > maxAttempts
  THEN exhausted' = TRUE /\ pending' = {} /\ UNCHANGED timer
  ELSE timer' = TRUE /\ UNCHANGED <<exhausted, pending>>

\* close() is not looked for again once the client is there.
KeepsClient(c) == task' = "initializing" /\ client' = c /\ UNCHANGED hand

\* The rollback leaves the subscriptions, or the client, behind.
CancelsNothing == UNCHANGED subs
ClosesNothing == UNCHANGED live

\* The loop looks at the status, which a rollback's own client.close() makes CLOSED.
KeepsTryingUnlessClosed(kind) == ~closing /\ status # "CLOSED"

\* The pending listeners are cleared before they are replayed.
WireClientForgetful == wired' = wired \cup {client} /\ UNCHANGED attached

-----------------------------------------------------------------------------
(* Operations *)

Init ==
  /\ waits \in BOOLEAN /\ maxAttempts \in Policies /\ misdeclared \in SUBSET Suspects
  /\ listen = "idle"
  /\ task = "none" /\ by = "listen" /\ bound = 0 /\ hand = NoClient /\ failure = "none"
  /\ client = NoClient /\ live = {} /\ subs = {}
  /\ timer = FALSE /\ attempt = 0 /\ exhausted = FALSE
  /\ closing = FALSE /\ closer = "none"
  /\ status = "DISCONNECTED" /\ wired = {}
  /\ registered = {} /\ pending = {} /\ attached = {}
  /\ lost = {} /\ cause = "none" /\ tries = 0

\* scheduleRetry with n failed attempts: arm the timer, or give up and drop the
\* listeners that still wait for a client.
ScheduleRetry(n) ==
  IF ~Unlimited /\ n >= maxAttempts
  THEN exhausted' = TRUE /\ pending' = {} /\ UNCHANGED timer
  ELSE timer' = TRUE /\ UNCHANGED <<exhausted, pending>>

\* The loop goes on whatever made the attempt fail, until the server closes.
KeepsTrying(kind) == ~closing

\* connectAndBindHandlers returns: listen is done, a retry resets the counter.
Returns ==
  /\ task' = "none"
  /\ IF by = "listen"
     THEN listen' = "resolved" /\ UNCHANGED <<attempt, tries>>
     ELSE attempt' = 0 /\ tries' = 0 /\ UNCHANGED listen
  /\ cause' = "none"
  /\ UNCHANGED <<by, timer, exhausted>>

\* isConnectionError: by its class, its code or its text, the error says that the broker
\* could not be reached.
IsConnectionError(kind) == kind = "connection"

\* It throws an error of the given kind to listen, the status being s: listen
\* rethrows, or reports RECONNECTING and starts the loop.
ThrowsToListen(kind, s) ==
  /\ by = "listen"
  /\ IF waits \/ ~IsConnectionError(kind)
     THEN /\ listen' = "rejected"
          /\ status' = s
          /\ UNCHANGED <<timer, exhausted, pending>>
     ELSE /\ listen' = "resolved"
          /\ status' = "RECONNECTING"
          /\ IF closing THEN UNCHANGED <<timer, exhausted, pending>>
                        ELSE ScheduleRetry(attempt)
  /\ UNCHANGED attempt

\* Without a limit `attempt` only stretches the delay.
NextAttempt == IF Unlimited THEN 0 ELSE attempt + 1

\* It throws to the retry timer's callback, which counts and schedules the next.
ThrowsToRetry(kind, s) ==
  /\ by = "retry"
  /\ attempt' = NextAttempt
  /\ status' = s
  /\ IF KeepsTrying(kind) THEN ScheduleRetry(attempt + 1)
                          ELSE UNCHANGED <<timer, exhausted, pending>>
  /\ UNCHANGED listen

Throws(kind, s) ==
  /\ task' = "none"
  /\ ThrowsToListen(kind, s) \/ ThrowsToRetry(kind, s)
  /\ cause' = kind
  /\ UNCHANGED <<by, tries>>

\* listen(): once, after which connectAndBindHandlers is at its first await,
\* unless the server is closing, when it returns as if all were bound.
Listen ==
  /\ listen = "idle"
  /\ IF closing THEN listen' = "resolved" /\ UNCHANGED task
                ELSE listen' = "connecting" /\ task' = "creating"
  /\ UNCHANGED <<options, by, bound, hand, failure, resources, retry, shutdown, status, wired,
                 listening, history>>

\* The timer's callback calls connectAndBindHandlers.
RetryTimer ==
  /\ timer
  /\ timer' = FALSE
  /\ ~closing
  /\ by' = "retry"
  /\ task' = "creating"
  /\ tries' = IF Unlimited THEN 0 ELSE tries + 1
  /\ UNCHANGED <<options, listen, bound, hand, failure, resources, attempt, exhausted, shutdown,
                 status, wired, listening, lost, cause>>

\* What connectAndBindHandlers does with a new client: close() may have been called.
Receives(c) ==
  IF closing THEN task' = "discarding" /\ hand' = c /\ UNCHANGED client
             ELSE task' = "initializing" /\ client' = c /\ UNCHANGED hand

\* KubeMQSDKClient.create resolves.
CreateSucceeds ==
  /\ task = "creating"
  /\ \E c \in Clients \ (live \cup wired \cup {client}) :
       /\ live' = live \cup {c}
       /\ attached' = {a \in attached : a[1] # c}
       /\ Receives(c)
  /\ bound' = 0
  /\ UNCHANGED <<options, listen, by, failure, subs, retry, shutdown, status, wired,
                 registered, pending, history>>

CreateFails ==
  /\ task = "creating"
  /\ \E kind \in {"connection", "other"} : Throws(kind, status)
  /\ UNCHANGED <<options, bound, hand, failure, resources, shutdown, wired,
                 registered, attached, lost>>

\* created.close() of a client that came too late.
Discarded ==
  /\ task = "discarding"
  /\ live' = live \ {hand}
  /\ hand' = NoClient
  /\ Returns
  /\ UNCHANGED <<options, bound, failure, client, subs, shutdown, status, wired, listening,
                 lost>>

\* setupConnectionListeners and replayPendingListeners on this.client.
WireClient ==
  /\ wired' = wired \cup {client}
  /\ attached' = attached \cup ({client} \X pending)

\* TracePropagator.initialize is over and the loop about to start; or close() has
\* taken the client away.
Initialized ==
  /\ task = "initializing"
  /\ client # NoClient
  /\ WireClient
  /\ pending' = {}

ClientGone ==
  /\ task = "initializing"
  /\ client = NoClient
  /\ Throws("other", status)
  /\ UNCHANGED <<options, bound, hand, failure, resources, shutdown, wired,
                 registered, attached, lost>>

\* The loop goes on after the await of the handler before.
Resumed == task = "binding" /\ UNCHANGED <<wired, attached, pending>>

\* The declaration of handler h is refused: a wildcard in the channel of a pattern that
\* takes none, or a start position that means nothing.
Rejected(h) == h \in misdeclared

\* Handler h is bound: kubemq-js has not refused the subscription.
Bind(h) ==
  /\ h = bound + 1
  /\ ~Rejected(h)
  /\ client # NoClient
  /\ Initialized \/ Resumed
  /\ task' = "binding"
  /\ bound' = h
  /\ subs' = subs \cup {<<client, h>>}
  /\ UNCHANGED <<options, listen, by, hand, failure, client, live, retry, shutdown, status,
                 registered, history>>

\* Why handler h does not bind: it is rejected, close() has taken the client away, or
\* kubemq-js throws, for its connection or because it is closing.
BindError(h) ==
  IF Rejected(h) THEN {"validation"}
  ELSE IF client = NoClient THEN {"other"}
  ELSE IF closer = "closingClient" THEN {"connection", "other"} ELSE {"connection"}

\* What rollbackBindings cancels at once, and what its close() of the client ends.
CancelsSubscriptions == subs' = {}
ClosesClient == live' = live \ {hand}

BindFails(h) ==
  /\ h = bound + 1
  /\ Initialized \/ Resumed
  /\ failure' \in BindError(h)
  /\ CancelsSubscriptions
  /\ task' = "rollback"
  /\ bound' = 0
  /\ hand' = client
  /\ UNCHANGED <<options, listen, by, client, live, retry, shutdown, status,
                 registered, history>>

\* The rollback has closed the client, whose own `closed` event comes first.
RolledBack ==
  /\ task = "rollback"
  /\ ClosesClient
  /\ wired' = wired \ {hand}
  /\ client' = NoClient
  /\ hand' = NoClient
  /\ failure' = "none"
  /\ lost' = lost \cup {l \in Listeners : <<hand, l>> \in attached}
  /\ Throws(failure, IF hand \in live THEN "CLOSED" ELSE status)
  /\ UNCHANGED <<options, bound, subs, shutdown, registered, attached>>

\* All handlers are bound.  close() may have begun, or ended, meanwhile.
AllBound ==
  /\ task = "binding"
  /\ bound = NumHandlers
  /\ status' = "CONNECTED"
  /\ Returns
  /\ UNCHANGED <<options, bound, hand, failure, resources, shutdown, wired, listening,
                 lost>>

\* on(event, callback), by the application.
On(l) ==
  /\ l \notin registered
  /\ ~closing
  /\ registered' = registered \cup {l}
  /\ IF client # NoClient
     THEN attached' = attached \cup {<<client, l>>} /\ UNCHANGED pending
     ELSE pending' = pending \cup {l} /\ UNCHANGED attached
  /\ UNCHANGED <<options, listen, connecting, resources, retry, shutdown, status, wired,
                 history>>

\* close() up to `await drain`: cancelLoop.
Close ==
  /\ closer = "none"
  /\ closer' = "draining"
  /\ closing' = TRUE
  /\ timer' = FALSE
  /\ UNCHANGED <<options, listen, connecting, resources, attempt, exhausted, status, wired,
                 listening, history>>

\* Drain is over: cancel what is subscribed now and go for the client.
Drained ==
  /\ closer = "draining"
  /\ pending' = {}
  /\ subs' = {}
  /\ IF client # NoClient
     THEN closer' = "closingClient" /\ UNCHANGED status
     ELSE closer' = "done" /\ status' = "CLOSED"
  /\ UNCHANGED <<options, listen, connecting, client, live, retry, closing, wired,
                 registered, attached, history>>

\* client.close() is over, well or not.
ClientClosed ==
  /\ closer = "closingClient"
  /\ closer' = "done"
  /\ live' = live \ {client}
  /\ wired' = wired \ {client}
  /\ client' = NoClient
  /\ status' = "CLOSED"
  /\ UNCHANGED <<options, listen, connecting, subs, retry, closing, listening, history>>

\* An event of a live kubemq-js client whose events are wired to the status.
SdkEvent ==
  /\ wired \cap live # {}
  /\ status' \in {"CONNECTED", "DISCONNECTED", "RECONNECTING"}
  /\ UNCHANGED <<options, listen, connecting, resources, retry, shutdown, wired, listening,
                 history>>

Connecting ==
  \/ RetryTimer \/ CreateSucceeds \/ CreateFails \/ Discarded \/ ClientGone
  \/ (\E h \in Handlers : Bind(h) \/ BindFails(h)) \/ RolledBack \/ AllBound

Next ==
  \/ Listen \/ Connecting
  \/ (\E l \in Listeners : On(l))
  \/ Close \/ Drained \/ ClientClosed
  \/ SdkEvent

\* Timers fire and promises settle.
Fairness == WF_vars(Connecting) /\ WF_vars(Drained \/ ClientClosed)

\* A broker that comes back again and again: a client is created in the end, and
\* each handler is bound in the end when it is its turn again and again.
BrokerComesBack == SF_vars(CreateSucceeds) /\ \A h \in Handlers : SF_vars(Bind(h))

Spec == Init /\ [][Next]_vars /\ Fairness /\ BrokerComesBack

-----------------------------------------------------------------------------
(* Properties *)

TypeOK ==
  /\ waits \in BOOLEAN /\ maxAttempts \in Policies /\ misdeclared \subseteq Suspects
  /\ listen \in {"idle", "connecting", "resolved", "rejected"}
  /\ task \in {"none", "creating", "discarding", "initializing", "binding", "rollback"}
  /\ by \in {"listen", "retry"}
  /\ bound \in 0 .. NumHandlers
  /\ failure \in {"none", "connection", "validation", "other"}
  /\ hand \in Clients \cup {NoClient} /\ client \in Clients \cup {NoClient}
  /\ live \subseteq Clients /\ wired \subseteq Clients
  /\ subs \subseteq Clients \X Handlers
  /\ timer \in BOOLEAN /\ attempt \in Nat /\ exhausted \in BOOLEAN
  /\ closing \in BOOLEAN /\ closer \in {"none", "draining", "closingClient", "done"}
  /\ status \in {"DISCONNECTED", "RECONNECTING", "CONNECTED", "CLOSED"}
  /\ registered \subseteq Listeners /\ pending \subseteq registered
  /\ attached \subseteq Clients \X Listeners
  /\ lost \subseteq Listeners
  /\ cause \in {"none", "connection", "validation", "other"} /\ tries \in Nat

\* However connecting, rolling back and closing interleave, every client created
\* and not closed is either this.client or about to be closed: none leaks with its
\* connection open.
NoClientLeak == live \subseteq {client, hand}

\* When connecting has come to an end with a client, that client is open and every
\* handler is bound to it, once, and nothing is left of a client rolled back.
BoundOnce == Up => client \in live /\ subs = {client} \X Handlers

\* Once close() is over and no connection attempt is under way, none is to come, and
\* no client is left open, not even one that was being created when close() began.
\* (Entries of `subscriptions` may be: of handlers bound while the client was closing.)
ClosedIsFinal ==
  closer = "done" /\ task = "none" => client = NoClient /\ live = {} /\ pending = {} /\ ~timer

\* A server whose listen() was resolved, and that last failed for want of a broker if it
\* failed, is bound, or an attempt is under way or scheduled, or it has given up, or is
\* closing: the loop does not stop while the broker is what it waits for.  After
\* any other error it may (isConnectionError is documented to keep those out of the loop;
\* the loop itself goes on after them too).
LoopAlive ==
  listen = "resolved" /\ cause \in {"none", "connection"} /\ ~closing /\ ~exhausted =>
    client # NoClient \/ timer \/ task # "none"

\* With a limit the loop makes that many attempts before it gives up, and no more.
AttemptsBounded ==
  ~Unlimited => /\ tries <= maxAttempts
                /\ exhausted => tries = maxAttempts

\* While the server has not given up, every listener that was registered is on the
\* client, or waits for one, or was on a client that a rollback has closed (such a one
\* the code does not put on the next client).
ListenersKept ==
  ~closing /\ ~exhausted =>
     \A l \in registered : l \in pending \/ <<client, l>> \in attached \/ l \in lost

\* With no limit, and every handler declared well, a scheduled retry leads to a
\* server that is bound, unless it is closed.
RetriesUntilBound ==
  Unlimited /\ misdeclared = {} /\ timer ~> Up \/ closing

=============================================================================
