---------------------------- MODULE NestApplication ----------------------------
(***************************************************************************)
(* How an application is put together and taken down again: the providers  *)
(* of KubeMQModule, the client that KubeMQCqrsModule shares between its    *)
(* three publishers, KubeMQServer as the microservice, and the hooks by    *)
(* which Nest starts and closes them.  What happens inside a proxy or a    *)
(* server is the subject of other modules: here a proxy has a client or    *)
(* not, and the server is up, draining or closed.                          *)
(***************************************************************************)
EXTENDS Naturals, Sequences, FiniteSets, TLC

CONSTANTS Setups,      \* the applications: their modules, and how they are run
          None,        \* undefined, null
          MaxHandlings, MaxCalls   \* bounds

\* The imports KubeMQModule has.
Imports == {"forRoot", "forRootAsync", "register", "registerAsync", "forTest",
            "forFeature", "forFeatureAsync"}

VARIABLES
  setup,       \* the application
  phase,       \* how far Nest is with starting or closing it
  made,        \* the providers that exist: a function of their tokens
  sdk,         \* sdk[o]: the client of owner o in kubemq-js
  shared,      \* KubeMQCqrsModule.sharedClient
  pubsubs,     \* the client of the publishers of KubeMQCqrsModule
  publishers,  \* the publisher of each bus
  server,      \* "down", "up", "draining" or "closed"
  handlers,    \* the handlings that run
  calls        \* what the application's code has sent

vars == <<setup, phase, made, sdk, shared, pubsubs, publishers, server, handlers, calls>>

OPTIONS == "KUBEMQ_MODULE_OPTIONS"
SDK_CLIENT == "KUBEMQ_SDK_CLIENT"
CQRS == "cqrs"
Buses == {"CommandBus", "QueryBus", "EventBus"}

\* undefined is neither a client nor the state of one.
ASSUME NoneAssumption == None \notin {CQRS, "open", "closed"}

\* An application imports KubeMQModule, gives no client the name that stands for the
\* shared one here, and makes proxies of KubeMQ by these imports only.
ASSUME SetupsAssumption ==
  \A s \in Setups :
    /\ s.hybrid \in BOOLEAN /\ s.signalled \in BOOLEAN /\ s.cqrs \in BOOLEAN
    /\ s.package \in BOOLEAN
    /\ \A m \in s.modules : m.how \in Imports /\ m.name # CQRS
    /\ \A p \in s.providers : p.makes.is \notin {"proxy", "scoped"}

-----------------------------------------------------------------------------
(* Faults: definitions as a slip would have written them. *)

\* Each bus gets its publisher as it is found.
WiredAsFound == setup.buses

\* onModuleInit throws and keeps the client it created.
KeptOnFailure == "open"

\* The proxy implements OnModuleDestroy.
OnModuleDestroy == "destroying"

-----------------------------------------------------------------------------
(* KubeMQModule: the providers of each kind of import.  A provider has a   *)
(* token, the tokens it is injected with, and what it makes.               *)

Provider(token, needs, makes) == [token |-> token, needs |-> needs, makes |-> makes]
Options(needs) == Provider(OPTIONS, needs, [is |-> "options"])
Proxy(token, needs) == Provider(token, needs, [is |-> "proxy", owner |-> token])
Mock(token) == Provider(token, {}, [is |-> "mock"])

\* useFactory is injected with what it lists, useClass with an instance of the class,
\* which is a provider of the same module, and useExisting with one that is there.
Sources == {"useFactory", "useClass", "useExisting"}
Injected(m) == IF m.given = "useFactory" THEN m.inject ELSE {m.class}
OwnFactory(m) == IF m.given = "useClass" THEN {Provider(m.class, {}, [is |-> "factory"])} ELSE {}

ForRoot(m) == {Options({}), Proxy(SDK_CLIENT, {})}
ForRootAsync(m) == OwnFactory(m) \cup {Options(Injected(m)), Proxy(SDK_CLIENT, {OPTIONS})}
Register(m) == {Proxy(m.name, {})}
RegisterAsync(m) == OwnFactory(m) \cup {Proxy(m.name, Injected(m))}
ForTest(m) == {Options({}), Mock(m.name), Mock(SDK_CLIENT)}
ForFeature(m) == {Provider(m.name, {SDK_CLIENT}, [is |-> "scoped"])}

\* useClass is made by `new` and useExisting is the first of what `inject` lists: without
\* it the factory throws.
ForFeatureAsync(m) ==
  {Provider(m.name, {SDK_CLIENT} \cup m.inject,
            [is |-> IF m.given = "useExisting" /\ m.inject = {} THEN "error" ELSE "scoped"])}

Providers(m) ==
  CASE m.how = "forRoot" -> ForRoot(m)
    [] m.how = "forRootAsync" -> ForRootAsync(m)
    [] m.how = "register" -> Register(m)
    [] m.how = "registerAsync" -> RegisterAsync(m)
    [] m.how = "forTest" -> ForTest(m)
    [] m.how = "forFeature" -> ForFeature(m)
    [] m.how = "forFeatureAsync" -> ForFeatureAsync(m)
AllProviders == (UNION {Providers(m) : m \in setup.modules}) \cup setup.providers

\* forRootAsync and registerAsync throw when they are called.
Throws(m) == m.how \in {"forRootAsync", "registerAsync"} /\ m.given \notin Sources

-----------------------------------------------------------------------------
Owners == {CQRS} \cup {p.token : p \in {p \in AllProviders : p.makes.is = "proxy"}}
Proxies == Owners \ {CQRS}

Init ==
  /\ setup \in Setups
  /\ phase = "making"
  /\ made = [t \in {} |-> None]
  /\ sdk = [o \in Owners |-> None]
  /\ shared = None
  /\ pubsubs = None
  /\ publishers = [b \in Buses |-> "local"]
  /\ server = "down"
  /\ handlers = [h \in 1 .. MaxHandlings |-> "idle"]
  /\ calls = <<>>

(* Making: a provider is made once those it needs are. *)

Fails ==
  /\ phase = "making"
  /\ \/ \E m \in setup.modules : Throws(m)
     \/ \E p \in AllProviders :
          \/ p.makes.is = "error" /\ p.needs \subseteq DOMAIN made
          \/ ~(p.needs \subseteq {q.token : q \in AllProviders})
  /\ phase' = "failed"
  /\ UNCHANGED <<setup, made, sdk, shared, pubsubs, publishers, server, handlers, calls>>

\* The scoped proxy keeps the proxy it is injected with, real or mock.
Make(p) ==
  /\ phase = "making" /\ \A m \in setup.modules : ~Throws(m)
  /\ p.token \notin DOMAIN made /\ p.needs \subseteq DOMAIN made /\ p.makes.is # "error"
  /\ made' = [t \in DOMAIN made \cup {p.token} |->
                IF t = p.token
                THEN IF p.makes.is = "scoped" THEN made[SDK_CLIENT] ELSE p.makes
                ELSE made[t]]
  /\ phase' = IF DOMAIN made' = {q.token : q \in AllProviders} THEN "initialising" ELSE phase
  /\ UNCHANGED <<setup, sdk, shared, pubsubs, publishers, server, handlers, calls>>

(* KubeMQCqrsModule.onModuleInit *)

Initialised ==
  /\ phase = "initialising" /\ ~setup.cqrs
  /\ phase' = "ready"
  /\ UNCHANGED <<setup, made, sdk, shared, pubsubs, publishers, server, handlers, calls>>

InitWithoutOptions ==
  /\ phase = "initialising" /\ setup.cqrs /\ OPTIONS \notin DOMAIN made
  /\ phase' = "failed"
  /\ UNCHANGED <<setup, made, sdk, shared, pubsubs, publishers, server, handlers, calls>>

InitCreates ==
  /\ phase = "initialising" /\ setup.cqrs /\ OPTIONS \in DOMAIN made
  /\ phase' = "creating"
  /\ UNCHANGED <<setup, made, sdk, shared, pubsubs, publishers, server, handlers, calls>>

InitRejected ==
  /\ phase = "creating"
  /\ phase' = "failed"
  /\ UNCHANGED <<setup, made, sdk, shared, pubsubs, publishers, server, handlers, calls>>

\* The publishers of the buses change only after all three buses are found; the package
\* @nestjs/cqrs may be missing, and a bus too.
WiredBuses == IF setup.package /\ Buses \subseteq setup.buses THEN Buses ELSE {}

InitWires ==
  /\ phase = "creating"
  /\ sdk' = [sdk EXCEPT ![CQRS] = "open"]
  /\ shared' = CQRS /\ pubsubs' = CQRS
  /\ publishers' = [b \in Buses |-> IF b \in WiredBuses THEN "remote" ELSE publishers[b]]
  /\ phase' = IF setup.package /\ ~(Buses \subseteq setup.buses) THEN "undoing" ELSE "ready"
  /\ UNCHANGED <<setup, made, server, handlers, calls>>

\* The error of close() is swallowed: kubemq-js is taken to let go of the client anyhow.
AfterFailure == "closed"

InitUndoes ==
  /\ phase = "undoing"
  /\ sdk' = [sdk EXCEPT ![CQRS] = AfterFailure]
  /\ shared' = None
  /\ phase' = "failed"
  /\ UNCHANGED <<setup, made, pubsubs, publishers, server, handlers, calls>>

(* Nest: the server of a hybrid application listens when startAllMicroservices is *)
(* called, before or after the hooks; that of a microservice after them.          *)

ServerListens ==
  /\ server = "down"
  /\ phase \in (IF setup.hybrid THEN {"initialising", "creating", "ready"} ELSE {"ready"})
  /\ server' = "up"
  /\ UNCHANGED <<setup, phase, made, sdk, shared, pubsubs, publishers, handlers, calls>>

HandlerBegins(h) ==
  /\ server = "up" /\ handlers[h] = "idle"
  /\ handlers' = [handlers EXCEPT ![h] = "running"]
  /\ UNCHANGED <<setup, phase, made, sdk, shared, pubsubs, publishers, server, calls>>

HandlerEnds(h) ==
  /\ handlers[h] = "running"
  /\ handlers' = [handlers EXCEPT ![h] = "ended"]
  /\ UNCHANGED <<setup, phase, made, sdk, shared, pubsubs, publishers, server, calls>>

(* Sending: by a handling, or by 0, the other code of a ready application *)

Runs(by) == IF by = 0 THEN phase = "ready" ELSE handlers[by] = "running"
Called(by, via, state) ==
  calls' = Append(calls, [by |-> by, via |-> via, state |-> state,
                          drained |-> server = "closed"])

\* MockKubeMQClient answers from its tables.
CallMock(by, token) ==
  /\ Runs(by) /\ Len(calls) < MaxCalls
  /\ token \in DOMAIN made /\ made[token].is = "mock"
  /\ Called(by, token, IF token \in setup.errors THEN "failed" ELSE "value")
  /\ UNCHANGED <<setup, phase, made, sdk, shared, pubsubs, publishers, server, handlers>>

\* A proxy connects for the first call, and refuses calls after its close().
CallProxy(by, token) ==
  /\ Runs(by) /\ Len(calls) < MaxCalls
  /\ token \in DOMAIN made /\ made[token].is = "proxy"
  /\ LET owner == made[token].owner
     IN  IF sdk[owner] = "closed"
         THEN Called(by, token, "refused") /\ UNCHANGED sdk
         ELSE Called(by, token, "sent") /\ sdk' = [sdk EXCEPT ![owner] = "open"]
  /\ UNCHANGED <<setup, phase, made, shared, pubsubs, publishers, server, handlers>>

\* getClient of the pubsubs, and whether kubemq-js takes a call on the client.
PubSubOpen == pubsubs # None /\ sdk[CQRS] # "closed"

\* publish of the three pubsubs, or the bus's own publisher.
CallBus(by, bus) ==
  /\ Runs(by) /\ Len(calls) < MaxCalls /\ setup.package /\ bus \in setup.buses
  /\ \/ publishers[bus] = "local" /\ Called(by, bus, "local")
     \/ publishers[bus] = "remote" /\ ~PubSubOpen /\ Called(by, bus, "refused")
     \/ publishers[bus] = "remote" /\ PubSubOpen /\ Called(by, bus, "sent")
  /\ UNCHANGED <<setup, phase, made, sdk, shared, pubsubs, publishers, server, handlers>>

\* A command or query that was not executed is an error to who sent it; an event is done
\* when it is sent.
Answer(c, executed) ==
  /\ calls[c].state = "sent" /\ calls[c].via # "EventBus"
  /\ calls' = [calls EXCEPT ![c].state = IF executed THEN "value" ELSE "failed"]
  /\ UNCHANGED <<setup, phase, made, sdk, shared, pubsubs, publishers, server, handlers>>

-----------------------------------------------------------------------------
(* Closing.  Nest calls the hooks onModuleDestroy, closes the microservices that are *)
(* connected, and calls onApplicationShutdown.  The close() of a microservice of its *)
(* own closes its server first; on a signal, with enableShutdownHooks, it does not.  *)

HooksFirst == setup.hybrid \/ setup.signalled

Order ==
  IF HooksFirst
  THEN [ready |-> "destroying", destroying |-> "disposing", disposing |-> "shutting",
        shutting |-> "closed"]
  ELSE [ready |-> "disposing", disposing |-> "destroying", destroying |-> "shutting",
        shutting |-> "closed"]

\* The hook in which KubeMQClientProxy closes.
ProxyHook == "shutting"

Close ==
  /\ phase = "ready"
  /\ phase' = Order.ready
  /\ UNCHANGED <<setup, made, sdk, shared, pubsubs, publishers, server, handlers, calls>>

ProxyCloses(o) ==
  /\ phase = ProxyHook /\ sdk[o] # "closed"
  /\ sdk' = [sdk EXCEPT ![o] = "closed"]
  /\ UNCHANGED <<setup, phase, made, shared, pubsubs, publishers, server, handlers, calls>>

\* KubeMQCqrsModule.onModuleDestroy
CqrsCloses ==
  /\ phase = "destroying" /\ shared # None
  /\ sdk' = [sdk EXCEPT ![CQRS] = "closed"]
  /\ shared' = None
  /\ UNCHANGED <<setup, phase, made, pubsubs, publishers, server, handlers, calls>>

\* An error of close() is not caught there: app.close() ends with it.
CqrsCloseFails ==
  /\ phase = "destroying" /\ shared # None
  /\ phase' = "aborted"
  /\ UNCHANGED <<setup, made, sdk, shared, pubsubs, publishers, server, handlers, calls>>

\* KubeMQServer.close: until its handlings have ended, or their time is up.
ServerDrains ==
  /\ phase = "disposing" /\ server \in {"down", "up"}
  /\ server' = IF server = "up" THEN "draining" ELSE "closed"
  /\ UNCHANGED <<setup, phase, made, sdk, shared, pubsubs, publishers, handlers, calls>>
ServerCloses ==
  /\ server = "draining"
  /\ server' = "closed"
  /\ UNCHANGED <<setup, phase, made, sdk, shared, pubsubs, publishers, handlers, calls>>

HooksEnd ==
  /\ \/ phase = "destroying" /\ shared = None
     \/ phase = "disposing" /\ server = "closed"
     \/ phase = "shutting"
  /\ phase = ProxyHook => \A o \in Proxies : sdk[o] = "closed"
  /\ phase' = Order[phase]
  /\ UNCHANGED <<setup, made, sdk, shared, pubsubs, publishers, server, handlers, calls>>

-----------------------------------------------------------------------------
Start ==
  \/ Fails \/ \E p \in AllProviders : Make(p)
  \/ Initialised \/ InitWithoutOptions \/ InitCreates \/ InitRejected \/ InitWires \/ InitUndoes
  \/ ServerListens

Work ==
  \/ \E h \in DOMAIN handlers : HandlerBegins(h) \/ HandlerEnds(h)
  \/ \E by \in {0} \cup DOMAIN handlers :
       \/ \E token \in setup.tokens : CallMock(by, token) \/ CallProxy(by, token)
       \/ \E bus \in Buses : CallBus(by, bus)
  \/ \E c \in DOMAIN calls, executed \in BOOLEAN : Answer(c, executed)

Stop ==
  \/ Close \/ \E o \in Proxies : ProxyCloses(o)
  \/ CqrsCloses \/ CqrsCloseFails \/ ServerDrains \/ ServerCloses \/ HooksEnd

Next == Start \/ Work \/ Stop
Spec == Init /\ [][Next]_vars

-----------------------------------------------------------------------------
(* Properties *)

\* The buses go to the broker all three or not at all, whatever of @nestjs/cqrs is there
\* and whenever onModuleInit fails; and while the application is ready, a bus that does
\* has an open client behind it (onModuleInit).
BusesTogether ==
  /\ Cardinality({publishers[b] : b \in Buses}) = 1
  /\ phase = "ready" =>
       \A b \in Buses : publishers[b] = "remote" =>
         pubsubs = CQRS /\ shared = CQRS /\ sdk[CQRS] = "open"

\* No client of kubemq-js outlives the application: all are closed once app.close() has
\* ended well, also those of proxies that were first used while it was closing, and the
\* shared client of the buses is not left behind by an onModuleInit that throws.
NoClientOutlivesApp ==
  /\ phase = "closed" => \A o \in Owners : sdk[o] # "open"
  /\ phase = "failed" => sdk[CQRS] # "open"

\* A handler that the server still waits for can send through every proxy, its own
\* module's or a feature's, in whatever phase of closing the application is; through the
\* buses it can if the server closes first, as that of a microservice does in close().
HandlersCanSend ==
  \A c \in DOMAIN calls :
    calls[c].by # 0 /\ calls[c].state = "refused" =>
      calls[c].drained \/ (HooksFirst /\ calls[c].via \in Buses)

=============================================================================
