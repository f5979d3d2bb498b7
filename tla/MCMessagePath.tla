---------------------------- MODULE MCMessagePath ----------------------------
(***************************************************************************)
(* Instances of MessagePath: an application of each kind the properties    *)
(* tell apart.  A shop whose handlers send on, with every kind of message, *)
(* a wildcard, joined handlers and a dead letter queue; the same traced;   *)
(* a log whose events are sent before its server is bound; and wirings     *)
(* that fail: a body of another codec, a subscription that is refused.     *)
(* The example applications of the repository come with them.              *)
(***************************************************************************)
EXTENDS Examples

ShopHandlers == <<
  CommandHandler("create", <<"shop", "create">>, NoTags),
  QueryHandler("price", <<"shop", "price">>, NoTags),
  EventHandler("all", <<"shop", "*">>, NoTags),
  EventHandler("billing", <<"shop", "sold">>, "group" :> "billing"),
  EventHandler("shipping", <<"shop", "sold">>, "group" :> "shipping"),
  Flagged("pack", TRUE, <<"shop", "pack">>, "type" :> "queue"),
  QueueHandler("dead", <<"shop", "dead">>, NoTags) >>

Poison == "policy" :> (("maxReceiveCount" :> 1) @@ ("maxReceiveQueue" :> <<"shop", "dead">>))

Create == Send(FALSE, "send", "command", <<"create">>, NewRecord, {"create"}, {}, {})
Sold ==
  Send(FALSE, "emit", "event", <<"sold">>, WithCorrelationId(NewRecord, "order7"),
       {"all", "billing", "shipping"}, {}, {})
Opened == Send(FALSE, "emit", "event", <<"opened">>, NewRecord, {"all"}, {}, {})
Pack ==
  Send(TRUE, "emit", "queue", <<"pack">>, WithDelay(WithMetadata(AsQueue(NewRecord), Poison), 5),
       {"pack"}, {"pack"}, {"dead"})
Moved ==
  Send(TRUE, "emit", "event", <<"moved">>, WithTags(NewRecord, TYPE :> "queue"), {"all"}, {}, {})

Shop(tracing, verbose, sends) ==
  App(ShopHandlers, Side(tracing, verbose, "json"),
      [Side(TRUE, TRUE, "json") EXCEPT !.prefix = <<"shop">>], sends, TRUE,
      {"KubeMQTimeoutError"}, TRUE, 3)

Prices ==
  App(ShopHandlers, Side(FALSE, TRUE, "json"), Side(FALSE, FALSE, "json"),
      {Send(FALSE, "send", "query", <<"shop", "price">>,
            WithMetadata(AsQuery(NewRecord), "cacheKey" :> "k"), {"price"}, {}, {})}, TRUE,
      {"KubeMQTimeoutError"}, TRUE, 2)

LogHandlers(start) == <<
  EventStoreHandler("log", <<"log">>, "startFrom" :> start),
  QueueHandler("work", <<"work">>, NoTags),
  Flagged("count", TRUE, <<"count">>, "store" :> TRUE) >>

Log(start, early) ==
  App(LogHandlers(start), Side(FALSE, FALSE, "json"), Side(FALSE, FALSE, "json"),
      {Send(FALSE, "emit", "event_store", <<"log">>, AsEventStore(NewRecord), {"log"}, early, {}),
       Send(FALSE, "emit", "queue", <<"work">>, AsQueue(NewRecord), {"work"}, {"work"}, {}),
       Send(FALSE, "emit", "event_store", <<"count">>, AsEventStore(NewRecord), {"count"}, {}, {})},
      start \in DOMAIN StartPositions, {}, FALSE, 3)

\* The errors kubemq-js fails a request with.
Classes == {"AuthenticationError", "KubeMQTimeoutError", "ValidationError", "CancellationError",
            "ConnectionError", "TransientError", "BufferFullError", "StreamBrokenError",
            "RetryExhaustedError", "ClientClosedError", "SerializationError"}

Mismatched(verbose) ==
  App(ShopHandlers, Side(FALSE, verbose, "json"), Side(FALSE, TRUE, "msgpack"),
      {Send(FALSE, "send", "command", <<"shop", "create">>, NewRecord, {"create"}, {}, {})},
      FALSE, Classes, FALSE, 1)

AllApps ==
  {Shop(TRUE, FALSE, {Sold, Moved}), Shop(FALSE, TRUE, {Opened, Pack}),
   Shop(FALSE, FALSE, {Create, Moved}), Prices, Log("first", {"log"}), Log("last", {}),
   Log("newest", {}), Mismatched(FALSE), Mismatched(TRUE)} \cup AllExamples

\* What the theorem about DeliveredAsMeant supposes of an application.
ASSUME WiringAssumption == \A a \in Apps : WiredAsMeant(a)

=============================================================================
