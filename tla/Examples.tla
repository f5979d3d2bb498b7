------------------------------- MODULE Examples -------------------------------
(***************************************************************************)
(* The example applications of the repository as applications of           *)
(* MessagePath: what each declares with the decorators, what its service   *)
(* sends, and who its "Expected output" says will hear it (`for`, and      *)
(* `dead` for a dead letter queue).  Each is one process whose main waits  *)
(* for its server before it sends.                                         *)
(*                                                                         *)
(* The handler table is taken to hold the methods the decorators mark.     *)
(***************************************************************************)
EXTENDS MessagePath

Side(tracing, verbose, codec) ==
  [tracing |-> tracing, verbose |-> verbose, codec |-> codec, prefix |-> <<>>, policy |-> None]

App(handlers, serverSide, clientSide, sends, sound, failures, waits, max) ==
  [handlers |-> handlers, server |-> serverSide, client |-> clientSide, sends |-> sends,
   sound |-> sound, failures |-> failures, waits |-> waits, max |-> max]

Send(inside, op, kind, channel, record, for, early, dead) ==
  [inside |-> inside, op |-> op, kind |-> kind, channel |-> channel, record |-> record,
   for |-> for, early |-> early, dead |-> dead]

\* What the code outside of handlers sends to a running server.
Command(channel, record, for) ==
  Send(FALSE, "send", "command", channel, record, for, {}, {})
Query(channel, record, for) ==
  Send(FALSE, "send", "query", channel, AsQuery(record), for, {}, {})
Event(channel, for) == Send(FALSE, "emit", "event", channel, NewRecord, for, {}, {})
Stored(channel, for) ==
  Send(FALSE, "emit", "event_store", channel, AsEventStore(NewRecord), for, {}, {})
Queued(channel, record, for, dead) ==
  Send(FALSE, "emit", "queue", channel, AsQueue(record), for, {}, dead)

\* The options of the examples: no tracing, and errors that keep their text.  A loop of
\* sends, or a row of them, is cut at two messages.
Running(handlers, codec, sends) ==
  App(handlers, Side(FALSE, FALSE, codec), Side(FALSE, FALSE, codec), sends, TRUE,
      {"KubeMQTimeoutError"}, TRUE, 2)
Example(handlers, sends) == Running(handlers, "json", sends)

-----------------------------------------------------------------------------
(* events *)

BasicHandler == EventHandler("handler", <<"nestjs-events", "basic-pubsub">>, NoTags)
BasicSends == {Event(<<"nestjs-events", "basic-pubsub">>, {"handler"})}
BasicPubSub == Example(<<BasicHandler>>, BasicSends)

CancelHandler == EventHandler("handler", <<"nestjs-events", "cancel-subscription">>, NoTags)
CancelSubscription ==
  Example(<<CancelHandler>>, {Event(<<"nestjs-events", "cancel-subscription">>, {"handler"})})

GroupHandler ==
  EventHandler("handler", <<"nestjs-events", "consumer-group">>, "group" :> "nestjs-events-cg")
GroupSends == {Event(<<"nestjs-events", "consumer-group">>, {"handler"})}
ConsumerGroup == Example(<<GroupHandler>>, GroupSends)

SubscriberA == EventHandler("a", <<"nestjs-events", "multiple-subscribers">>, NoTags)
SubscriberB == EventHandler("b", <<"nestjs-events", "multiple-subscribers">>, NoTags)
SubscribersSends == {Event(<<"nestjs-events", "multiple-subscribers">>, {"a", "b"})}
MultipleSubscribers == Example(<<SubscriberA, SubscriberB>>, SubscribersSends)

WildcardHandler == EventHandler("handler", <<"nestjs-events", "wildcard", "*">>, NoTags)
WildcardSends ==
  {Event(<<"nestjs-events", "wildcard", c>>, {"handler"}) : c \in {"orders", "users", "payments"}}
WildcardSubscription == Example(<<WildcardHandler>>, WildcardSends)

-----------------------------------------------------------------------------
(* events-store *)

StoreCancelHandler ==
  EventStoreHandler("handler", <<"nestjs-events-store", "cancel-subscription">>, NoTags)
StoreCancelSubscription ==
  Example(<<StoreCancelHandler>>,
          {Stored(<<"nestjs-events-store", "cancel-subscription">>, {"handler"})})

StoreGroupHandler ==
  EventStoreHandler("handler", <<"nestjs-events-store", "consumer-group">>,
                    "group" :> "nestjs-es-cg")
StoreGroupSends == {Stored(<<"nestjs-events-store", "consumer-group">>, {"handler"})}
StoreConsumerGroup == Example(<<StoreGroupHandler>>, StoreGroupSends)

PersistentHandler ==
  EventStoreHandler("handler", <<"nestjs-events-store", "persistent-pubsub">>, NoTags)
PersistentSends == {Stored(<<"nestjs-events-store", "persistent-pubsub">>, {"handler"})}
PersistentPubSub == Example(<<PersistentHandler>>, PersistentSends)

-----------------------------------------------------------------------------
(* queues *)

AckRejectHandler ==
  QueueHandler("handler", <<"nestjs-queues", "ack-reject">>, "manualAck" :> TRUE)
AckRejectSends == {Queued(<<"nestjs-queues", "ack-reject">>, NewRecord, {"handler"}, {})}
AckReject == Example(<<AckRejectHandler>>, AckRejectSends)

PrimaryHandler ==
  QueueHandler("primary", <<"nestjs-queues", "dead-letter-queue">>, "manualAck" :> TRUE)
DLQHandler ==
  QueueHandler("dlq", <<"nestjs-queues", "dead-letter-queue", "dlq">>, "manualAck" :> TRUE)
PoisonSends ==
  {Queued(<<"nestjs-queues", "dead-letter-queue">>,
          WithMetadata(NewRecord, "policy" :>
            (("maxReceiveCount" :> 1) @@
             ("maxReceiveQueue" :> <<"nestjs-queues", "dead-letter-queue", "dlq">>))),
          {"primary"}, {"dlq"})}
DeadLetters == Example(<<PrimaryHandler, DLQHandler>>, PoisonSends)

DelayedHandler ==
  QueueHandler("handler", <<"nestjs-queues", "delayed-messages">>, "manualAck" :> TRUE)
DelayedSends ==
  {Queued(<<"nestjs-queues", "delayed-messages">>,
          WithMetadata(NewRecord, "policy" :> ("delaySeconds" :> 5)), {"handler"}, {})}
DelayedMessages == Example(<<DelayedHandler>>, DelayedSends)

ReceiveHandler ==
  QueueHandler("handler", <<"nestjs-queues", "send-receive">>, "manualAck" :> TRUE)
ReceiveSends == {Queued(<<"nestjs-queues", "send-receive">>, NewRecord, {"handler"}, {})}
SendReceive == Example(<<ReceiveHandler>>, ReceiveSends)

-----------------------------------------------------------------------------
(* rpc *)

CachedHandler == QueryHandler("handler", <<"nestjs-rpc", "cached-query">>, NoTags)
CachedSends ==
  {Query(<<"nestjs-rpc", "cached-query">>,
         WithMetadata(NewRecord, "cacheKey" :> "config:app.settings"), {"handler"})}
CachedQuery == Example(<<CachedHandler>>, CachedSends)

CommandGroupHandler ==
  CommandHandler("handler", <<"nestjs-rpc", "command-group">>,
                 "group" :> "nestjs-rpc-cmd-group")
CommandGroupSends == {Command(<<"nestjs-rpc", "command-group">>, NewRecord, {"handler"})}
CommandGroup == Example(<<CommandGroupHandler>>, CommandGroupSends)

\* No handler: the request ends with a timeout.
TimeoutSends ==
  {Command(<<"nestjs-rpc", "command-timeout">>, WithMetadata(NewRecord, "timeout" :> 2), {})}
CommandTimeout == Example(<<>>, TimeoutSends)

HandleCommandHandler == CommandHandler("handler", <<"nestjs-rpc", "handle-command">>, NoTags)
HandleCommandSends == {Command(<<"nestjs-rpc", "handle-command">>, NewRecord, {"handler"})}
HandleCommand == Example(<<HandleCommandHandler>>, HandleCommandSends)

HandleQueryHandler == QueryHandler("handler", <<"nestjs-rpc", "handle-query">>, NoTags)
HandleQuerySends == {Query(<<"nestjs-rpc", "handle-query">>, NewRecord, {"handler"})}
HandleQuery == Example(<<HandleQueryHandler>>, HandleQuerySends)

\* Two queries with one key: the second may be answered without the handler.
CacheHitHandler == QueryHandler("handler", <<"nestjs-rpc", "query-cache-hit">>, NoTags)
CacheHitSends ==
  {Query(<<"nestjs-rpc", "query-cache-hit">>,
         WithMetadata(NewRecord, "cacheKey" :> "rate:USD"), {"handler"})}
QueryCacheHit == Example(<<CacheHitHandler>>, CacheHitSends)

QueryGroupHandler ==
  QueryHandler("handler", <<"nestjs-rpc", "query-group">>, "group" :> "nestjs-rpc-query-group")
QueryGroupSends == {Query(<<"nestjs-rpc", "query-group">>, NewRecord, {"handler"})}
QueryGroup == Example(<<QueryGroupHandler>>, QueryGroupSends)

SendCommandHandler == CommandHandler("handler", <<"nestjs-rpc", "send-command">>, NoTags)
SendCommandSends == {Command(<<"nestjs-rpc", "send-command">>, NewRecord, {"handler"})}
SendCommand == Example(<<SendCommandHandler>>, SendCommandSends)

SendQueryHandler == QueryHandler("handler", <<"nestjs-rpc", "send-query">>, NoTags)
SendQuerySends == {Query(<<"nestjs-rpc", "send-query">>, NewRecord, {"handler"})}
SendQuery == Example(<<SendQueryHandler>>, SendQuerySends)

-----------------------------------------------------------------------------
(* patterns *)

FanOutA == EventHandler("a", <<"nestjs-patterns", "fan-out">>, NoTags)
FanOutB == EventHandler("b", <<"nestjs-patterns", "fan-out">>, NoTags)
FanOutSends == {Event(<<"nestjs-patterns", "fan-out">>, {"a", "b"})}
FanOut == Example(<<FanOutA, FanOutB>>, FanOutSends)

RequestReplyHandlers == <<
  CommandHandler("command", <<"nestjs-patterns", "request-reply", "commands">>, NoTags),
  QueryHandler("query", <<"nestjs-patterns", "request-reply", "queries">>, NoTags) >>
RequestReplySends == {
  Command(<<"nestjs-patterns", "request-reply", "commands">>, NewRecord, {"command"}),
  Query(<<"nestjs-patterns", "request-reply", "queries">>, NewRecord, {"query"}) }
RequestReply == Example(RequestReplyHandlers, RequestReplySends)

WorkerHandler == QueueHandler("worker", <<"nestjs-patterns", "work-queue">>, "group" :> "workers")
WorkSends == {Queued(<<"nestjs-patterns", "work-queue">>, NewRecord, {"worker"}, {})}
WorkQueue == Example(<<WorkerHandler>>, WorkSends)

-----------------------------------------------------------------------------
(* decorators *)

AllHandlersService == <<
  CommandHandler("cmd", <<"nestjs-decorators", "all-handlers-cmd">>, NoTags),
  QueryHandler("query", <<"nestjs-decorators", "all-handlers-query">>, NoTags),
  EventHandler("event", <<"nestjs-decorators", "all-handlers-event">>, NoTags),
  EventStoreHandler("store", <<"nestjs-decorators", "all-handlers-event-store">>, NoTags),
  QueueHandler("queue", <<"nestjs-decorators", "all-handlers-queue">>, "manualAck" :> TRUE) >>
AllHandlersSends == {
  Command(<<"nestjs-decorators", "all-handlers-cmd">>, NewRecord, {"cmd"}),
  Query(<<"nestjs-decorators", "all-handlers-query">>, NewRecord, {"query"}),
  Event(<<"nestjs-decorators", "all-handlers-event">>, {"event"}),
  Stored(<<"nestjs-decorators", "all-handlers-event-store">>, {"store"}),
  Queued(<<"nestjs-decorators", "all-handlers-queue">>, NewRecord, {"queue"}, {}) }
AllHandlers == Example(AllHandlersService, AllHandlersSends)

BillingHandlers == <<
  CommandHandler("billing", <<"nestjs-decorators", "custom-groups-orders">>, "group" :> "billing"),
  EventHandler("billing", <<"nestjs-decorators", "custom-groups-notifications">>,
               "group" :> "billing") >>
ShippingHandlers == <<
  CommandHandler("shipping", <<"nestjs-decorators", "custom-groups-orders">>,
                 "group" :> "shipping"),
  EventHandler("shipping", <<"nestjs-decorators", "custom-groups-notifications">>,
               "group" :> "shipping") >>
AnalyticsHandlers == <<
  EventHandler("analytics", <<"nestjs-decorators", "custom-groups-notifications">>,
               "group" :> "analytics") >>
CustomGroupsSends == {
  Command(<<"nestjs-decorators", "custom-groups-orders">>, NewRecord, {"billing", "shipping"}),
  Event(<<"nestjs-decorators", "custom-groups-notifications">>,
        {"billing", "shipping", "analytics"}) }
CustomGroups ==
  Example(BillingHandlers \o ShippingHandlers \o AnalyticsHandlers, CustomGroupsSends)

OptionsHandlerService == <<
  CommandHandler("cmd", <<"nestjs-decorators", "options-cmd">>, "group" :> "cmd-workers"),
  QueryHandler("query", <<"nestjs-decorators", "options-query">>,
               ("group" :> "query-workers") @@ ("maxConcurrent" :> 5)),
  EventHandler("event", <<"nestjs-decorators", "options-event">>, "group" :> "event-group"),
  EventStoreHandler("store", <<"nestjs-decorators", "options-event-store">>,
                    ("group" :> "store-group") @@ ("startFrom" :> "first")),
  QueueHandler("queue", <<"nestjs-decorators", "options-queue">>,
               ("manualAck" :> TRUE) @@ ("maxMessages" :> 10)) >>
OptionsSends == {
  Command(<<"nestjs-decorators", "options-cmd">>, NewRecord, {"cmd"}),
  Query(<<"nestjs-decorators", "options-query">>, NewRecord, {"query"}),
  Event(<<"nestjs-decorators", "options-event">>, {"event"}),
  Stored(<<"nestjs-decorators", "options-event-store">>, {"store"}),
  Queued(<<"nestjs-decorators", "options-queue">>, NewRecord, {"queue"}, {}) }
DecoratorOptions == Example(OptionsHandlerService, OptionsSends)

-----------------------------------------------------------------------------
(* serialization *)

DeserializerHandler ==
  EventHandler("handler", <<"nestjs-serialization", "custom-deserializer">>, NoTags)
DeserializerSends == {Event(<<"nestjs-serialization", "custom-deserializer">>, {"handler"})}
CustomDeserializer == Example(<<DeserializerHandler>>, DeserializerSends)

MsgPackHandler == EventHandler("handler", <<"nestjs-serialization", "msgpack">>, NoTags)
MsgPackSends == {Event(<<"nestjs-serialization", "msgpack">>, {"handler"})}
MsgPackExample == Running(<<MsgPackHandler>>, "msgpack", MsgPackSends)

-----------------------------------------------------------------------------
AllExamples == {
  BasicPubSub, CancelSubscription, ConsumerGroup, MultipleSubscribers, WildcardSubscription,
  StoreCancelSubscription, StoreConsumerGroup, PersistentPubSub,
  AckReject, DeadLetters, DelayedMessages, SendReceive,
  CachedQuery, CommandGroup, CommandTimeout, HandleCommand, HandleQuery, QueryCacheHit,
  QueryGroup, SendCommand, SendQuery,
  FanOut, RequestReply, WorkQueue, AllHandlers, CustomGroups, DecoratorOptions,
  CustomDeserializer, MsgPackExample }

=============================================================================
