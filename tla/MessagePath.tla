----------------------------- MODULE MessagePath -----------------------------
(***************************************************************************)
(* What a message carries and where it goes: from the KubeMQRecord an      *)
(* application builds, through KubeMQClientProxy (or its scoped form),     *)
(* the broker and KubeMQServer to the handler that is meant, from one      *)
(* handling to the messages it sends in turn, and back to the requester    *)
(* as a value or as a KubeMQRpcException.                                  *)
(*                                                                         *)
(* One process with one server and one proxy.  The broker, Nest's handler  *)
(* table, kubemq-js and OpenTelemetry are modelled as src/src uses them.   *)
(* Channel names are sequences of their dot-separated parts; payloads are  *)
(* left out, and of an error only who may read its text.                   *)
(***************************************************************************)
EXTENDS Naturals, Sequences, FiniteSets, TLC

CONSTANTS Apps,          \* the applications: handlers, options, sends, the errors of
                         \* kubemq-js they meet, and a bound on the messages they send
          None,          \* undefined
          MaxMessages    \* the largest of those bounds

ASSUME AppsAssumption ==
  /\ MaxMessages \in Nat
  /\ \A a \in Apps : a.max \in 0 .. MaxMessages /\ "HANDLER_ERROR" \notin a.failures

VARIABLES
  app,        \* the application
  otel,       \* trace-propagator.ts: "unloaded", "loading", "loaded" or "missing"
  server,     \* "down", "tracing", "bound" or "rejected"
  subs,       \* the subscriptions of the server: subscriptions
  proxy,      \* "down" or "connected"
  own,        \* own[s]: the tags in the record the application keeps for send s
  sent,       \* the messages, in the order the broker took them
  heard,      \* heard[i]: the subscriptions that have received message i
  rerouted,   \* rerouted[i]: the dead letter queue the broker has moved i to
  handlings,  \* the executions of handlers, in the order they began
  wire,       \* wire[i]: the response to request i on the wire
  told        \* told[i]: what the sender of request i was told

vars == <<app, otel, server, subs, proxy, own, sent, heard, rerouted, handlings, wire, told>>

Ids == 1 .. MaxMessages
Kinds == {"command", "query", "event", "event_store", "queue"}
Rpc == {"command", "query"}

\* The wire tags of constants.ts that are told apart.
PATTERN == "nestjs:pattern"
TYPE == "nestjs:type"
CONTENT == "nestjs:content-type"
CORRELATION == "x-correlation-id"
CAUSATION == "x-causation-id"
TRACE == "traceparent"
Reserved == {PATTERN, TYPE, CONTENT, "nestjs:id"}

NoTags == [t \in {} |-> None]
Of(f, k) == IF k \in DOMAIN f THEN f[k] ELSE None
Without(f, S) == [k \in DOMAIN f \ S |-> f[k]]

\* A tag, and an object spread over another.
Tag(k, v) == [x \in {k} |-> v]
Over(f, g) == [k \in DOMAIN f \cup DOMAIN g |-> IF k \in DOMAIN f THEN f[k] ELSE g[k]]

Id(i) == "m" \o ToString(i)
Uuid(h) == "uuid" \o ToString(h)

-----------------------------------------------------------------------------
(* KubeMQRecord: a plain payload is a record on which nothing was called. *)

NewRecord == [type |-> None, metadata |-> NoTags, tags |-> NoTags]
AsQuery(r) == [r EXCEPT !.type = "query"]
AsEventStore(r) == [r EXCEPT !.type = "event_store"]
AsQueue(r) == [r EXCEPT !.type = "queue"]
WithMetadata(r, meta) == [r EXCEPT !.metadata = Over(Without(meta, {"type"}), @)]
WithTags(r, tags) == [r EXCEPT !.tags = Over(Without(tags, Reserved), @)]
WithCorrelationId(r, id) == [r EXCEPT !.tags = Over(Tag(CORRELATION, id), @)]
WithDelay(r, seconds) ==
  LET policy == Of(r.metadata, "policy")
  IN  WithMetadata(r, Tag("policy", Over(Tag("delaySeconds", seconds),
                                         IF policy = None THEN NoTags ELSE policy)))

\* extractPacketMetadata
ExtractPacketMetadata(r) ==
  Over(r.metadata, IF r.type = None THEN NoTags ELSE Tag("type", r.type))

-----------------------------------------------------------------------------
(* Faults: definitions as a slip would have written them. *)

\* Object.assign(user, base) in place of a copy.
RecordKeepsTags(user, tags) == tags

\* The tag of the first branch, copied into the second.
LabelOfQueue(op, metadata) ==
  IF op = "send" THEN IF Of(metadata, "type") = "query" THEN "query" ELSE "command"
  ELSE IF Of(metadata, "type") = "event_store" THEN "queue" ELSE "event"

\* The store of the handling that began last: a variable for AsyncLocalStorage.
LatestStore(h) == handlings[Len(handlings)].store

\* The context is extracted and then not entered.
NotEntered(tags) == None

\* The outer catch block sends errorMessage(outerErr) as it is.
OuterVerbatim == "detail"

\* resolvePatternType by the flags alone: queue and event-store handlers that say
\* only their type are bound as events.
TypeByFlags(d) ==
  IF Of(d.extras, "query") = TRUE THEN "query" ELSE IF Of(d.extras, "store") = TRUE THEN "event_store"
  ELSE IF Of(d.extras, "queue") = TRUE THEN "queue" ELSE IF d.isEventHandler THEN "event" ELSE "command"

-----------------------------------------------------------------------------
(* Handlers: the decorators, Nest's table of handlers, bindHandler *)

\* @MessagePattern and @EventPattern of Nest, with what they are given for KubeMQ.
Flagged(name, isEventHandler, channel, extras) ==
  [name |-> name, channel |-> channel, isEventHandler |-> isEventHandler, extras |-> extras]

\* The five decorators; options of the application's come after their own flags.
CommandHandler(name, channel, options) ==
  Flagged(name, FALSE, channel, Over(options, Tag("type", "command")))
QueryHandler(name, channel, options) ==
  Flagged(name, FALSE, channel, Over(options, Over(Tag("type", "query"), Tag("query", TRUE))))
EventHandler(name, channel, options) ==
  Flagged(name, TRUE, channel, Over(options, Tag("type", "event")))
EventStoreHandler(name, channel, options) ==
  Flagged(name, TRUE, channel, Over(options, Over(Tag("type", "event_store"), Tag("store", TRUE))))
QueueHandler(name, channel, options) ==
  Flagged(name, TRUE, channel, Over(options, Over(Tag("type", "queue"), Tag("queue", TRUE))))

ResolvePatternType(d) ==
  IF Of(d.extras, "type") # None THEN d.extras["type"]
  ELSE IF Of(d.extras, "query") = TRUE THEN "query"
  ELSE IF Of(d.extras, "store") = TRUE THEN "event_store"
  ELSE IF Of(d.extras, "queue") = TRUE THEN "queue"
  ELSE IF d.isEventHandler THEN "event" ELSE "command"

\* Nest keeps one handler for a channel: an event handler joins those before it, any
\* other takes their place.
HeadHandler(ds, c) ==
  LET here == {i \in DOMAIN ds : ds[i].channel = c}
      others == {i \in here : ~ds[i].isEventHandler}
  IN  IF others = {} THEN CHOOSE i \in here : \A j \in here : i <= j
                     ELSE CHOOSE i \in others : \A j \in others : j <= i
Joined(ds, c) ==
  IF ds[HeadHandler(ds, c)].isEventHandler
  THEN {i \in DOMAIN ds : ds[i].channel = c} ELSE {HeadHandler(ds, c)}

\* resolveEventStoreStartPosition; kubemq-js takes the numbers.
StartPositions == [new |-> 1, first |-> 2, last |-> 3, sequence |-> 4, time |-> 5, timeDelta |-> 6]
StartPosition(d) ==
  LET from == Of(d.extras, "startFrom")
  IN  IF from = None THEN 1
      ELSE IF from \in DOMAIN StartPositions THEN StartPositions[from] ELSE None

\* The subscriptions of the server: the head's metadata decide for all that joined it.
Entry(ds, c) ==
  [channel |-> c, kind |-> ResolvePatternType(ds[HeadHandler(ds, c)]),
   start |-> StartPosition(ds[HeadHandler(ds, c)]),
   names |-> {ds[i].name : i \in Joined(ds, c)}]
Entries(ds) == {Entry(ds, ds[i].channel) : i \in DOMAIN ds}

Parts(c) == {c[i] : i \in DOMAIN c}
Bindable(e) ==
  /\ Parts(e.channel) \cap {"*", ">"} # {} => e.kind = "event"
  /\ e.kind = "event_store" => e.start # None

\* The broker's wildcards.
Covers(p, c) ==
  \/ Len(p) = Len(c) /\ \A i \in DOMAIN p : p[i] \in {"*", c[i]}
  \/ /\ p # <<>> /\ p[Len(p)] = ">" /\ Len(c) >= Len(p)
     /\ \A i \in 1 .. Len(p) - 1 : p[i] \in {"*", c[i]}

Matches(e, kind, channel) ==
  e.kind = kind /\ IF e.kind = "event" THEN Covers(e.channel, channel) ELSE e.channel = channel

-----------------------------------------------------------------------------
(* The proxy: publish and dispatchEvent *)

\* ScopedKubeMQClientProxy.applyPrefix
ApplyPrefix(prefix, channel) == prefix \o channel

\* Which of kubemq-js's five send calls is made.
KindOf(op, metadata) ==
  IF op = "send" THEN IF Of(metadata, "type") = "query" THEN "query" ELSE "command"
  ELSE IF Of(metadata, "type") \in {"queue", "event_store"} THEN metadata["type"] ELSE "event"

\* TAG_TYPE, set branch by branch.
LabelOf(op, metadata) ==
  IF op = "send" THEN IF Of(metadata, "type") = "query" THEN "query" ELSE "command"
  ELSE IF Of(metadata, "type") \in {"queue", "event_store"} THEN metadata["type"] ELSE "event"

\* mergeWireTags makes a new object, and leaves the record's own tags as they are.
MergeWireTags(base, user) == Over(Without(user, Reserved), base)
RecordTagsAfter(user, tags) == user

\* CorrelationContext.get(): the store of the handling whose code is running, also
\* after the handling has ended; code outside of any handling has none.
Store(h) == handlings[h].store
Inherit(tags, by) ==
  IF by = 0 THEN tags
  ELSE Over(tags, Over(Tag(CORRELATION, Store(by).correlation),
                       Tag(CAUSATION, Store(by).causation)))

\* injectIntoTags writes the context that is active, if OpenTelemetry is there.
Traces(side) == side.tracing /\ otel = "loaded"
InjectIntoTags(tags, active) ==
  IF Traces(app.client) /\ active # None THEN Over(Tag(TRACE, active), tags) ELSE tags

\* extractContext, and api.context.with around the handler.
ExtractContext(tags) == IF Traces(app.server) THEN Of(tags, TRACE) ELSE None

\* `metadata?.policy ?? this.options.defaultQueuePolicy`
PolicyOf(client, metadata) ==
  IF Of(metadata, "policy") = None THEN client.policy ELSE metadata["policy"]

\* The broker's name for the queue of what is refused.
DeadLetterQueue(policy) == IF policy = None THEN None ELSE Of(policy, "maxReceiveQueue")

Wired(by, s, user, active) ==
  LET metadata == ExtractPacketMetadata(s.record)
      channel == ApplyPrefix(app.client.prefix, s.channel)
      base == Over(Tag(PATTERN, channel), Over(Tag(TYPE, LabelOf(s.op, metadata)),
                                               Tag(CONTENT, app.client.codec)))
  IN  [by |-> by, send |-> s, early |-> server # "bound",
       thread |-> IF CORRELATION \in DOMAIN s.record.tags THEN s.record.tags[CORRELATION]
                  ELSE IF by = 0 THEN None ELSE handlings[by].thread,
       channel |-> channel, kind |-> KindOf(s.op, metadata),
       cache |-> Of(metadata, "cacheKey"), policy |-> PolicyOf(app.client, metadata),
       tags |-> InjectIntoTags(Inherit(MergeWireTags(base, user), by), active)]

-----------------------------------------------------------------------------
(* Errors *)

\* mapErrorToRpcException
StatusOf(class) ==
  CASE class = "AuthenticationError" -> 401 [] class = "AuthorizationError" -> 403
    [] class = "KubeMQTimeoutError" -> 408
    [] class \in {"ValidationError", "ConfigurationError"} -> 400
    [] class = "ThrottlingError" -> 429 [] class = "NotFoundError" -> 404
    [] class = "CancellationError" -> 499 [] class = "NotImplementedError" -> 501
    [] class = "PartialFailureError" -> 207
    [] class \in {"ConnectionError", "TransientError", "BufferFullError", "StreamBrokenError",
                  "ConnectionNotReadyError", "RetryExhaustedError", "CircuitBreakerOpenError"} -> 503
    [] OTHER -> 500

\* What may be read of an error: its own text, or a phrase in its place.
ServerText == IF app.server.verbose THEN "detail" ELSE "Internal handler error"
OuterText == IF app.server.verbose THEN "detail" ELSE "Internal handler error"
ClientText(text) == IF app.client.verbose THEN text ELSE "Transport operation failed"

Nothing == [outcome |-> "none"]
Value == [outcome |-> "value"]

\* A KubeMQRpcException: of an error of kubemq-js, or of a response that says
\* `executed: false`, whose kubemqCode is HANDLER_ERROR.
Exception(class, text) ==
  [outcome |-> "exception", class |-> class, status |-> StatusOf(class), text |-> ClientText(text)]

-----------------------------------------------------------------------------
Init ==
  /\ app \in Apps
  /\ otel = "unloaded" /\ server = "down" /\ subs = {} /\ proxy = "down"
  /\ own = [s \in app.sends |-> s.record.tags]
  /\ sent = <<>> /\ handlings = <<>>
  /\ heard = [i \in Ids |-> {}]
  /\ rerouted = [i \in Ids |-> None]
  /\ wire = [i \in Ids |-> Nothing]
  /\ told = [i \in Ids |-> Nothing]

(* Start-up: connectAndBindHandlers, doConnect, TracePropagator.initialize *)

\* bindHandler for one entry after the other: a ValidationError undoes all of them.
BindAll ==
  IF \A e \in Entries(app.handlers) : Bindable(e)
  THEN server' = "bound" /\ subs' = Entries(app.handlers)
  ELSE server' = "rejected" /\ subs' = {}

\* ensureOtelLoaded: only the first caller awaits the import; one that comes while
\* it is loading goes on without it.
AwaitsOtel(side) == side.tracing /\ otel = "unloaded"
StartsLoading(side) == otel' = IF AwaitsOtel(side) THEN "loading" ELSE otel

ServerConnects ==
  /\ server = "down"
  /\ StartsLoading(app.server)
  /\ IF AwaitsOtel(app.server) THEN server' = "tracing" /\ UNCHANGED subs ELSE BindAll
  /\ UNCHANGED <<app, proxy, own, sent, heard, rerouted, handlings, wire, told>>

ServerTraces ==
  /\ server = "tracing" /\ otel # "loading"
  /\ BindAll
  /\ UNCHANGED <<app, otel, proxy, own, sent, heard, rerouted, handlings, wire, told>>

\* this.client is set before initialize is awaited, and connect() returns as soon as
\* it is: only the first request waits.
ProxyConnects ==
  /\ proxy = "down"
  /\ StartsLoading(app.client)
  /\ proxy' = "connected"
  /\ UNCHANGED <<app, server, subs, own, sent, heard, rerouted, handlings, wire, told>>

OtelLoads(found) ==
  /\ otel = "loading"
  /\ otel' = IF found THEN "loaded" ELSE "missing"
  /\ UNCHANGED <<app, server, subs, proxy, own, sent, heard, rerouted, handlings, wire, told>>

(* Sending: `by` is the handling whose code sends, 0 for code outside of any. *)

Active(by, span) ==
  IF by # 0 THEN handlings[by].active
  ELSE IF span THEN "span" \o ToString(Len(sent) + 1) ELSE None

Publish(by, s, span) ==
  /\ proxy = "connected" /\ Len(sent) < app.max
  /\ s.inside <=> by # 0
  /\ app.waits => server = "bound"
  /\ span => by = 0 /\ app.client.tracing
  /\ LET m == Wired(by, s, own[s], Active(by, span))
     IN  /\ sent' = Append(sent, m)
         /\ own' = [own EXCEPT ![s] = RecordTagsAfter(@, m.tags)]
  /\ UNCHANGED <<app, otel, server, subs, proxy, heard, rerouted, handlings, wire, told>>

(* Receiving *)

Channel(i) == IF rerouted[i] = None THEN sent[i].channel ELSE rerouted[i]

\* What the broker keeps for a subscription that comes later.
Offered(i, e) ==
  sent[i].early =>
    \/ e.kind = "queue"
    \/ e.kind = "event_store" /\ e.start \in {2, 4, 5, 6}
    \/ /\ e.kind = "event_store" /\ e.start = 3
       /\ \A j \in DOMAIN sent : j > i /\ sent[j].early =>
            <<sent[j].kind, sent[j].channel>> # <<"event_store", e.channel>>

Reaches(i, e) ==
  /\ Matches(e, sent[i].kind, Channel(i))
  /\ Offered(i, e)
  /\ e \notin heard[i] /\ told[i] = Nothing

\* deserializeBody: a body of another codec throws.
Decodes(i) == sent[i].tags[CONTENT] = app.server.codec

\* CorrelationContext.createFromTags
CreateFromTags(i) ==
  [correlation |-> IF Of(sent[i].tags, CORRELATION) # None THEN sent[i].tags[CORRELATION]
                   ELSE Uuid(Len(handlings) + 1),
   causation |-> Id(i)]

Deliver(i, e) ==
  /\ server = "bound" /\ Reaches(i, e)
  /\ heard' = [heard EXCEPT ![i] = @ \cup {e}]
  /\ IF Decodes(i)
     THEN /\ handlings' = Append(handlings,
               [msg |-> i, names |-> e.names, kind |-> e.kind, store |-> CreateFromTags(i),
                active |-> ExtractContext(sent[i].tags), loaded |-> otel = "loaded",
                thread |-> IF sent[i].thread = None THEN Uuid(Len(handlings) + 1)
                           ELSE sent[i].thread,
                state |-> "running"])
          /\ UNCHANGED wire
     ELSE /\ wire' = IF e.kind \in Rpc
                     THEN [wire EXCEPT ![i] = [outcome |-> "error", text |-> OuterText]] ELSE wire
          /\ UNCHANGED handlings
  /\ UNCHANGED <<app, otel, server, subs, proxy, own, sent, rerouted, told>>

\* A query with a cache key that the broker has an answer for.
CacheAnswers(i) ==
  /\ sent[i].cache # None /\ told[i] = Nothing /\ heard[i] = {}
  /\ \E j \in DOMAIN sent :
       /\ <<sent[j].channel, sent[j].kind, sent[j].cache>> =
            <<sent[i].channel, sent[i].kind, sent[i].cache>>
       /\ wire[j].outcome = "value"
  /\ wire' = [wire EXCEPT ![i] = Value]
  /\ heard' = [heard EXCEPT ![i] = subs]
  /\ UNCHANGED <<app, otel, server, subs, proxy, own, sent, rerouted, handlings, told>>

\* A handler of a request or a queue message ends; nobody learns how one of an event
\* does.  A request is answered, and the broker moves a queue message that
\* is refused to the dead letter queue of its policy.
HandlerEnds(h, ok) ==
  LET i == handlings[h].msg
  IN  /\ handlings[h].state = "running" /\ handlings[h].kind \in Rpc \cup {"queue"}
      /\ handlings' = [handlings EXCEPT ![h].state = IF ok THEN "ok" ELSE "failed"]
      /\ wire' = IF handlings[h].kind \notin Rpc THEN wire
                 ELSE [wire EXCEPT ![i] = IF ok THEN Value
                                          ELSE [outcome |-> "error", text |-> ServerText]]
      /\ rerouted' = IF handlings[h].kind = "queue" /\ ~ok /\ rerouted[i] = None
                     THEN [rerouted EXCEPT ![i] = DeadLetterQueue(sent[i].policy)] ELSE rerouted
      /\ UNCHANGED <<app, otel, server, subs, proxy, own, sent, heard, told>>

(* Back at the requester *)

ReplyArrives(i) ==
  /\ wire[i] # Nothing /\ told[i] = Nothing
  /\ told' = [told EXCEPT ![i] =
       IF wire[i].outcome = "error" THEN Exception("HANDLER_ERROR", wire[i].text)
       ELSE IF app.server.codec = app.client.codec THEN Value
       ELSE Exception("SerializationError", "detail")]
  /\ UNCHANGED <<app, otel, server, subs, proxy, own, sent, heard, rerouted, handlings, wire>>

TransportFails(i, class) ==
  /\ i \in DOMAIN sent /\ sent[i].kind \in Rpc /\ told[i] = Nothing
  /\ told' = [told EXCEPT ![i] = Exception(class, "detail")]
  /\ UNCHANGED <<app, otel, server, subs, proxy, own, sent, heard, rerouted, handlings, wire>>

-----------------------------------------------------------------------------
StartUp == ServerConnects \/ ServerTraces \/ \E found \in BOOLEAN : OtelLoads(found)
Receive(i) == \E e \in subs : Deliver(i, e)
Answered(i) == ReplyArrives(i) \/ \E class \in app.failures : TransportFails(i, class)

Next ==
  \/ StartUp \/ ProxyConnects
  \/ \E by \in {0} \cup DOMAIN handlings, s \in app.sends, span \in BOOLEAN : Publish(by, s, span)
  \/ \E i \in DOMAIN sent : Receive(i) \/ CacheAnswers(i) \/ Answered(i)
  \/ \E h \in DOMAIN handlings, ok \in BOOLEAN : HandlerEnds(h, ok)

\* The server starts, the broker delivers, and a request ends with an answer or an
\* error of kubemq-js.  Nothing obliges a handler to end, or anybody to send.
Spec ==
  /\ Init /\ [][Next]_vars
  /\ WF_vars(StartUp)
  /\ \A i \in Ids : WF_vars(i \in DOMAIN sent /\ Receive(i))
  /\ \A i \in Ids : WF_vars(i \in DOMAIN sent /\ Answered(i))

-----------------------------------------------------------------------------
(* Properties *)

\* Every message belongs to the thread of the request or event that brought it about:
\* over any number of handlings, at the same time or one after the other, and of
\* sends of one record, it carries the thread's correlation id and the id of the
\* message that was being handled, unless its record names others; code outside of
\* handlers carries neither (CorrelationContext, publish, dispatchEvent).
CausalChain ==
  \A i \in DOMAIN sent :
    LET m == sent[i]
    IN  /\ Of(m.tags, CORRELATION) = m.thread
        /\ CAUSATION \notin DOMAIN m.send.record.tags =>
             Of(m.tags, CAUSATION) = IF m.by = 0 THEN None ELSE Id(handlings[m.by].msg)

\* A trace is not broken by a handler: what it sends continues the trace of what it
\* received, if OpenTelemetry was there when it began and the record names no other
\* trace, however the loading of the package and the first messages interleave
\* (TracePropagator).
TraceUnbroken ==
  \A i \in DOMAIN sent :
    LET m == sent[i]
        parent == sent[handlings[m.by].msg]
    IN  /\ m.by # 0 /\ app.client.tracing /\ app.server.tracing /\ handlings[m.by].loaded
        /\ TRACE \notin DOMAIN m.send.record.tags
        => Of(m.tags, TRACE) = Of(parent.tags, TRACE)

\* Who hears a message is who it was meant for, under the kind it was sent as, its
\* label on the wire says the same, and so do the pattern and the codec it names:
\* the record, the proxy, the prefix, the decorators and bindHandler agree.
NamesOf(i) == UNION {handlings[h].names : h \in {h \in DOMAIN handlings : handlings[h].msg = i}}
DeliveredAsMeant ==
  /\ \A h \in DOMAIN handlings :
       LET m == sent[handlings[h].msg]
       IN  /\ m.tags[TYPE] = handlings[h].kind /\ m.tags[TYPE] = m.send.kind
           /\ m.tags[PATTERN] = m.channel
           /\ m.tags[CONTENT] = app.server.codec
  /\ \A i \in DOMAIN sent : NamesOf(i) \subseteq sent[i].send.for \cup sent[i].send.dead

\* An application that is wired as it means to be: each of its sends is of the kind
\* it is meant to be, and matches, with the dead letter queue of its policy, only the
\* subscriptions of handlers it is meant for.
WiredAsMeant(a) ==
  \A s \in a.sends :
    LET metadata == ExtractPacketMetadata(s.record)
        kind == KindOf(s.op, metadata)
        dead == DeadLetterQueue(PolicyOf(a.client, metadata))
    IN  /\ kind = s.kind
        /\ \A e \in Entries(a.handlers) :
             /\ Matches(e, kind, ApplyPrefix(a.client.prefix, s.channel)) => e.names \subseteq s.for
             /\ kind = "queue" /\ dead # None /\ Matches(e, kind, dead) => e.names \subseteq s.dead

\* A handler has failed with message i.
Refused(i) == \E h \in DOMAIN handlings : handlings[h].msg = i /\ handlings[h].state = "failed"

\* A requester is never told of a success that did not happen, nor that its handler
\* failed while none has, unless the body could not be decoded for it; and the text
\* of an error leaves the server only if the server is verbose, and reaches the
\* requester only if the proxy is too (executeCommand, mapToRpcException).
ToldTheTruth ==
  \A i \in DOMAIN sent :
    /\ told[i] = Value =>
         \E h \in DOMAIN handlings :
           /\ handlings[h].state = "ok"
           /\ \/ handlings[h].msg = i
              \/ sent[i].cache # None /\ sent[handlings[h].msg].cache = sent[i].cache
    /\ wire[i].outcome = "error" /\ wire[i].text = "detail" => app.server.verbose
    /\ told[i].outcome = "exception" =>
         /\ told[i].text = "detail" => app.client.verbose
         /\ told[i].class = "HANDLER_ERROR" => Refused(i) \/ ~Decodes(i)

\* Every message is heard, by all subscribers of an event and by the dead letter
\* queue's handler if it is refused: one sent before the server was bound too, if it
\* is a queue message or a stored event within the handler's start position.
MeantFor(i) == IF sent[i].early THEN sent[i].send.early ELSE sent[i].send.for
IsHeard(i) ==
  IF sent[i].kind \in Rpc THEN told[i] # Nothing ELSE MeantFor(i) \subseteq NamesOf(i)
HeardAsMeant ==
  \A i \in Ids :
    /\ (i \in DOMAIN sent /\ app.sound) ~> (i \in DOMAIN sent /\ IsHeard(i))
    /\ (i \in DOMAIN sent /\ Refused(i) /\ sent[i].send.dead # {}) ~>
         (i \in DOMAIN sent /\ sent[i].send.dead \subseteq NamesOf(i))

=============================================================================
