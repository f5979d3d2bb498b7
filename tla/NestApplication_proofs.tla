------------------------ MODULE NestApplication_proofs ------------------------
(***************************************************************************)
(* That no client outlives its application, that the buses go to the       *)
(* broker together and that a handler the server waits for can send, for   *)
(* any modules, providers and buses, however starting, sending and closing *)
(* interleave.                                                             *)
(*                                                                         *)
(* The three rest on the order in which Nest calls the hooks: OrderInv     *)
(* says what a phase already has behind it.                                *)
(***************************************************************************)
EXTENDS NestApplication, FiniteSetTheorems, SequenceTheorems, TLAPS

-----------------------------------------------------------------------------
(* The inductive invariant *)

Phases == {"making", "initialising", "creating", "undoing", "ready", "failed",
           "destroying", "disposing", "shutting", "closed", "aborted"}

Calls == [by : {0} \cup 1 .. MaxHandlings, via : setup.tokens \cup Buses,
          state : {"value", "failed", "refused", "sent", "local"}, drained : BOOLEAN]

Typed ==
  /\ setup \in Setups
  /\ phase \in Phases
  /\ sdk \in [Owners -> {None, "open", "closed"}]
  /\ shared \in {None, CQRS} /\ pubsubs \in {None, CQRS}
  /\ publishers \in [Buses -> {"local", "remote"}]
  /\ server \in {"down", "up", "draining", "closed"}
  /\ handlers \in [1 .. MaxHandlings -> {"idle", "running", "ended"}]
  /\ calls \in Seq(Calls)

\* A token stands for a proxy of its own, or for the one a feature was injected with;
\* none stands for the shared client of the buses.
MadeInv == \A t \in DOMAIN made : made[t].is = "proxy" => made[t].owner \in Proxies

\* The publishers change all at once, after onModuleInit has created the client; it
\* stays in `shared` as long as it is open.
AllLocal == \A b \in Buses : publishers[b] = "local"
AllRemote == \A b \in Buses : publishers[b] = "remote"
BusInv ==
  /\ AllLocal \/ (AllRemote /\ pubsubs = CQRS)
  /\ phase \in {"making", "initialising", "creating", "undoing"} => AllLocal
  /\ phase = "ready" /\ AllRemote => shared = CQRS
  /\ shared = CQRS <=> sdk[CQRS] = "open"

\* What lies behind a phase: the hooks that close the shared client, the server and
\* the proxies are called in this order, or the first two the other way round.
OrderInv ==
  /\ phase \in {"making", "initialising", "creating", "failed", "shutting", "closed"}
       \/ (HooksFirst /\ phase = "disposing")
     => shared = None
  /\ phase \in {"shutting", "closed"} \/ (~HooksFirst /\ phase = "destroying")
     => server = "closed"
  /\ phase = "closed" => \A o \in Proxies : sdk[o] = "closed"
  /\ \A o \in Proxies : sdk[o] = "closed" => server = "closed"
  /\ sdk[CQRS] = "closed" /\ AllRemote /\ ~HooksFirst => server = "closed"

IInv == Typed /\ MadeInv /\ BusInv /\ OrderInv /\ HandlersCanSend

-----------------------------------------------------------------------------
(* The providers *)

LEMMA SetupKnown ==
  ASSUME Typed
  PROVE  /\ HooksFirst \in BOOLEAN /\ setup.cqrs \in BOOLEAN /\ setup.package \in BOOLEAN
         /\ \A m \in setup.modules : m.how \in Imports /\ m.name # CQRS
         /\ \A p \in setup.providers : p.makes.is \notin {"proxy", "scoped"}
  BY SetupsAssumption DEF Typed, HooksFirst

\* A provider that makes a proxy makes its own, one that makes a scoped proxy is
\* injected with the proxy of the root.
LEMMA ProviderMakes ==
  ASSUME Typed, NEW p \in AllProviders
  PROVE  /\ p.makes.is = "proxy" => p.makes.owner = p.token /\ p.token \in Proxies
         /\ p.makes.is = "scoped" => SDK_CLIENT \in p.needs
<1>1. CASE p \in setup.providers
  BY <1>1, SetupKnown
<1>2. CASE \E m \in setup.modules : p \in Providers(m)
  <2>1. PICK m \in setup.modules : p \in Providers(m)
    BY <1>2
  <2>2. m.how \in Imports /\ m.name # CQRS
    BY SetupKnown
  <2>3. /\ p.makes.is = "proxy" => p.makes.owner = p.token /\ p.token \in {m.name, SDK_CLIENT}
        /\ p.makes.is = "scoped" => SDK_CLIENT \in p.needs
    <3> USE DEF Providers, Provider, Proxy, Options, Mock
    <3>1. CASE m.how \in {"forRoot", "register", "forTest", "forFeature"}
      BY <2>1, <3>1 DEF ForRoot, Register, ForTest, ForFeature
    <3>2. CASE m.how \in {"forRootAsync", "registerAsync"}
      BY <2>1, <3>2 DEF ForRootAsync, RegisterAsync, OwnFactory
    <3>3. CASE m.how = "forFeatureAsync"
      BY <2>1, <3>3 DEF ForFeatureAsync
    <3> QED
      BY <2>2, <3>1, <3>2, <3>3 DEF Imports
  <2>4. p.makes.is = "proxy" => p.token \in Proxies
    BY <2>2, <2>3 DEF Proxies, Owners, SDK_CLIENT, CQRS
  <2> QED
    BY <2>3, <2>4
<1>3. p \in setup.providers \/ \E m \in setup.modules : p \in Providers(m)
  BY DEF AllProviders
<1> QED
  BY <1>1, <1>2, <1>3

\* The owners change only with the application.
LEMMA SameOwners ==
  ASSUME setup' = setup
  PROVE  Owners' = Owners /\ Proxies' = Proxies
  BY DEF Owners, Proxies, AllProviders

LEMMA MakeKeepsMade ==
  ASSUME IInv, NEW p \in AllProviders, Make(p)
  PROVE  MadeInv'
<1>1. /\ p.needs \subseteq DOMAIN made
      /\ made' = [t \in DOMAIN made \cup {p.token} |->
                    IF t = p.token
                    THEN IF p.makes.is = "scoped" THEN made[SDK_CLIENT] ELSE p.makes
                    ELSE made[t]]
      /\ setup' = setup
  BY DEF Make
<1>2. /\ p.makes.is = "proxy" => p.makes.owner = p.token /\ p.token \in Proxies
      /\ p.makes.is = "scoped" => SDK_CLIENT \in DOMAIN made
  BY <1>1, ProviderMakes DEF IInv
<1>3. ASSUME NEW t \in DOMAIN made', made'[t].is = "proxy"
      PROVE  made'[t].owner \in Proxies
  <2>1. CASE t # p.token
    <3>1. t \in DOMAIN made /\ made'[t] = made[t]
      BY <1>1, <2>1
    <3> QED
      BY <1>3, <2>1, <3>1 DEF IInv, MadeInv
  <2>2. CASE t = p.token
    <3>1. made'[t] = IF p.makes.is = "scoped" THEN made[SDK_CLIENT] ELSE p.makes
      BY <1>1, <2>2
    <3> QED
      BY <1>2, <1>3, <3>1 DEF IInv, MadeInv
  <2> QED
    BY <2>1, <2>2
<1> QED
  BY <1>1, <1>3, SameOwners DEF MadeInv

-----------------------------------------------------------------------------
(* Each operation preserves the invariant *)

LEMMA InitIInv == Init => IInv
<1> SUFFICES ASSUME Init PROVE IInv
  OBVIOUS
<1>1. calls \in Seq(Calls) /\ Len(calls) = 0
  BY EmptySeq DEF Init
<1>2. Typed
  BY <1>1 DEF Init, Typed, Phases
<1>3. CQRS \in Owners /\ Proxies \subseteq Owners
  BY DEF Owners, Proxies
<1>4. MadeInv /\ HandlersCanSend
  BY <1>1 DEF Init, MadeInv, HandlersCanSend
<1>5. BusInv /\ OrderInv
  BY <1>3, NoneAssumption DEF Init, BusInv, OrderInv, AllLocal
<1> QED
  BY <1>2, <1>4, <1>5 DEF IInv

\* What an operation that makes nothing and sends nothing leaves as it is.
LEMMA QuietKeeps ==
  ASSUME IInv, UNCHANGED <<setup, made, calls>>
  PROVE  /\ MadeInv' /\ HandlersCanSend'
         /\ calls' \in Seq(Calls')
         /\ Owners' = Owners /\ Proxies' = Proxies
         /\ CQRS \in Owners /\ Proxies = Owners \ {CQRS}
<1>1. Owners' = Owners /\ Proxies' = Proxies
  BY SameOwners
<1>2. MadeInv'
  BY <1>1 DEF IInv, MadeInv
<1>3. HandlersCanSend'
  BY DEF IInv, HandlersCanSend, HooksFirst
<1>4. Calls' = Calls
  BY DEF Calls
<1> QED
  BY <1>1, <1>2, <1>3, <1>4 DEF IInv, Typed, Owners, Proxies

LEMMA StartIInv ==
  ASSUME IInv, Start
  PROVE  IInv'
<1> USE DEF IInv
<1>1. ASSUME NEW p \in AllProviders, Make(p) PROVE IInv'
  <2>1. /\ setup' = setup /\ UNCHANGED <<sdk, shared, pubsubs, publishers, server, handlers, calls>>
        /\ phase = "making" /\ phase' \in {"making", "initialising"}
    BY <1>1 DEF Make
  <2>2. Owners' = Owners /\ Proxies' = Proxies /\ Calls' = Calls
    BY <2>1, SameOwners DEF Calls
  <2>3. Typed'
    BY <2>1, <2>2 DEF Typed, Phases
  <2>4. BusInv' /\ OrderInv'
    BY <2>1, <2>2 DEF BusInv, OrderInv, AllLocal, AllRemote, HooksFirst
  <2>5. HandlersCanSend'
    BY <2>1 DEF HandlersCanSend, HooksFirst
  <2> QED
    BY <1>1, <2>3, <2>4, <2>5, MakeKeepsMade
<1>2. CASE \/ Fails \/ Initialised \/ InitWithoutOptions \/ InitCreates \/ InitRejected
           \/ InitWires \/ InitUndoes \/ ServerListens
  <2> USE DEF Fails, Initialised, InitWithoutOptions, InitCreates, InitRejected,
              InitWires, InitUndoes, ServerListens
  <2>1. UNCHANGED <<setup, made, handlers, calls>>
    BY <1>2
  <2>2. /\ MadeInv' /\ HandlersCanSend'
        /\ calls' \in Seq(Calls')
        /\ Owners' = Owners /\ Proxies' = Proxies
        /\ CQRS \in Owners /\ Proxies = Owners \ {CQRS}
    BY <2>1, QuietKeeps
  <2>3. WiredBuses = Buses \/ WiredBuses = {}
    BY DEF WiredBuses
  <2>4. Typed'
    BY <1>2, <2>1, <2>2, <2>3 DEF Typed, Phases, AfterFailure
  <2>5. BusInv'
    BY <1>2, <2>2, <2>3, NoneAssumption
    DEF BusInv, OrderInv, AllLocal, AllRemote, Typed, AfterFailure, WiredBuses, Buses
  <2>6. OrderInv'
    BY <1>2, <2>1, <2>2, <2>3, NoneAssumption
    DEF BusInv, OrderInv, AllLocal, AllRemote, Typed, AfterFailure, WiredBuses, Buses
  <2> QED
    BY <2>2, <2>4, <2>5, <2>6
<1> QED
  BY <1>1, <1>2 DEF Start

LEMMA StopIInv ==
  ASSUME IInv, Stop
  PROVE  IInv'
<1> USE DEF IInv
<1> USE DEF Close, ProxyCloses, CqrsCloses, CqrsCloseFails, ServerDrains, ServerCloses, HooksEnd
<1>1. UNCHANGED <<setup, made, pubsubs, publishers, handlers, calls>>
  BY DEF Stop
<1>2. /\ MadeInv' /\ HandlersCanSend'
      /\ calls' \in Seq(Calls')
      /\ Owners' = Owners /\ Proxies' = Proxies
      /\ CQRS \in Owners /\ Proxies = Owners \ {CQRS}
  BY <1>1, QuietKeeps
<1>3. HooksFirst \in BOOLEAN /\ HooksFirst' = HooksFirst
  BY <1>1, SetupKnown DEF HooksFirst
<1>4. CASE Close
  <2>1. phase' \in {"destroying", "disposing"} /\ (phase' = "destroying" <=> HooksFirst)
    BY <1>3, <1>4 DEF Order
  <2> QED
    BY <1>1, <1>2, <1>3, <1>4, <2>1 DEF Typed, Phases, BusInv, OrderInv, AllLocal, AllRemote
<1>5. CASE \E o \in Proxies : ProxyCloses(o)
  <2>1. PICK o \in Proxies : ProxyCloses(o)
    BY <1>5
  <2>2. phase = "shutting"
    BY <2>1 DEF ProxyHook
  <2> QED
    BY <1>1, <1>2, <2>1, <2>2 DEF Typed, BusInv, OrderInv, AllLocal, AllRemote
<1>6. CASE CqrsCloses
  BY <1>1, <1>2, <1>3, <1>6, NoneAssumption DEF Typed, BusInv, OrderInv, AllLocal, AllRemote
<1>7. CASE CqrsCloseFails
  BY <1>1, <1>2, <1>7 DEF Typed, Phases, BusInv, OrderInv, AllLocal, AllRemote
<1>8. CASE ServerDrains \/ ServerCloses
  BY <1>1, <1>2, <1>3, <1>8 DEF Typed, BusInv, OrderInv, AllLocal, AllRemote
<1>9. CASE HooksEnd
  <2>1. \/ phase = "destroying" /\ shared = None
           /\ phase' = IF HooksFirst THEN "disposing" ELSE "shutting"
        \/ phase = "disposing" /\ server = "closed"
           /\ phase' = IF HooksFirst THEN "shutting" ELSE "destroying"
        \/ phase = "shutting" /\ phase' = "closed" /\ \A o \in Proxies : sdk[o] = "closed"
    BY <1>9 DEF Order, ProxyHook
  <2> QED
    BY <1>1, <1>2, <1>3, <1>9, <2>1 DEF Typed, Phases, BusInv, OrderInv, AllLocal, AllRemote
<1> QED
  BY <1>4, <1>5, <1>6, <1>7, <1>8, <1>9 DEF Stop

\* A call is added to those there are, and one by a handling that is refused was made
\* when the server no longer waited, or through a bus of one whose hooks come first.
LEMMA CallIsKept ==
  ASSUME IInv, NEW by \in {0} \cup 1 .. MaxHandlings, NEW via \in setup.tokens \cup Buses,
         NEW state \in {"value", "failed", "refused", "sent", "local"},
         Called(by, via, state), setup' = setup,
         by # 0 /\ state = "refused" => server = "closed" \/ (HooksFirst /\ via \in Buses)
  PROVE  calls' \in Seq(Calls') /\ HandlersCanSend'
<1> DEFINE c == [by |-> by, via |-> via, state |-> state, drained |-> server = "closed"]
<1>1. c \in Calls /\ Calls' = Calls
  BY DEF Calls
<1>2. calls \in Seq(Calls) /\ calls' = Append(calls, c)
  BY DEF Called, IInv, Typed
<1>3. /\ calls' \in Seq(Calls)
      /\ Len(calls') = Len(calls) + 1
      /\ \A i \in 1 .. Len(calls) : calls'[i] = calls[i]
      /\ calls'[Len(calls) + 1] = c
      /\ DOMAIN calls' = 1 .. Len(calls') /\ DOMAIN calls = 1 .. Len(calls)
      /\ Len(calls) \in Nat
  BY <1>1, <1>2, AppendProperties, LenProperties
<1>4. ASSUME NEW i \in DOMAIN calls', calls'[i].by # 0, calls'[i].state = "refused"
      PROVE  calls'[i].drained \/ (HooksFirst /\ calls'[i].via \in Buses)
  <2>1. CASE i \in 1 .. Len(calls)
    BY <1>3, <1>4, <2>1 DEF IInv, HandlersCanSend
  <2>2. CASE i = Len(calls) + 1
    <3>1. calls'[i] = c
      BY <1>3, <2>2
    <3>2. server = "closed" \/ (HooksFirst /\ via \in Buses)
      BY <1>4, <3>1
    <3>3. server = "closed" => c.drained
      OBVIOUS
    <3>4. c.via = via
      OBVIOUS
    <3> QED
      BY <3>1, <3>2, <3>3, <3>4
  <2> QED
    BY <1>3, <2>1, <2>2
<1> QED
  BY <1>1, <1>3, <1>4 DEF HandlersCanSend, HooksFirst

LEMMA CallIInv ==
  ASSUME IInv, NEW by \in {0} \cup DOMAIN handlers,
         \/ \E token \in setup.tokens : CallMock(by, token) \/ CallProxy(by, token)
         \/ \E bus \in Buses : CallBus(by, bus)
  PROVE  IInv'
<1> USE DEF IInv
<1>1. /\ UNCHANGED <<setup, phase, made, shared, pubsubs, publishers, server, handlers>>
      /\ by \in {0} \cup 1 .. MaxHandlings
  BY DEF CallMock, CallProxy, CallBus, Typed
<1>2. /\ Owners' = Owners /\ Proxies' = Proxies /\ Proxies = Owners \ {CQRS}
      /\ CQRS \in Owners
  BY <1>1, SameOwners DEF Owners, Proxies
<1>3. MadeInv'
  BY <1>1, <1>2 DEF MadeInv
<1>4. CASE \E token \in setup.tokens : CallMock(by, token)
  <2>1. PICK token \in setup.tokens : CallMock(by, token)
    BY <1>4
  <2>2. calls' \in Seq(Calls') /\ HandlersCanSend'
    <3>1. \/ Called(by, token, "failed") \/ Called(by, token, "value")
      BY <2>1 DEF CallMock
    <3> QED
      BY <1>1, <3>1, CallIsKept
  <2>3. sdk' = sdk
    BY <2>1 DEF CallMock
  <2> QED
    BY <1>1, <1>2, <1>3, <2>2, <2>3 DEF Typed, BusInv, OrderInv, AllLocal, AllRemote, HooksFirst
<1>5. CASE \E token \in setup.tokens : CallProxy(by, token)
  <2>1. PICK token \in setup.tokens : CallProxy(by, token)
    BY <1>5
  <2> DEFINE owner == made[token].owner
  <2>2. owner \in Proxies
    BY <2>1 DEF CallProxy, MadeInv
  <2>3. CASE sdk[owner] = "closed"
    <3>1. Called(by, token, "refused") /\ sdk' = sdk
      BY <2>1, <2>3 DEF CallProxy
    <3>2. server = "closed"
      BY <2>2, <2>3 DEF OrderInv
    <3>3. calls' \in Seq(Calls') /\ HandlersCanSend'
      BY <1>1, <3>1, <3>2, CallIsKept
    <3> QED
      BY <1>1, <1>2, <1>3, <3>1, <3>3
      DEF Typed, BusInv, OrderInv, AllLocal, AllRemote, HooksFirst
  <2>4. CASE sdk[owner] # "closed"
    <3>1. Called(by, token, "sent") /\ sdk' = [sdk EXCEPT ![owner] = "open"]
      BY <2>1, <2>4 DEF CallProxy
    <3>2. calls' \in Seq(Calls') /\ HandlersCanSend'
      BY <1>1, <3>1, CallIsKept
    <3>3. phase # "closed"
      BY <2>2, <2>4 DEF OrderInv
    <3> QED
      BY <1>1, <1>2, <1>3, <2>2, <3>1, <3>2, <3>3
      DEF Typed, BusInv, OrderInv, AllLocal, AllRemote, HooksFirst
  <2> QED
    BY <2>3, <2>4
<1>6. CASE \E bus \in Buses : CallBus(by, bus)
  <2>1. PICK bus \in Buses : CallBus(by, bus)
    BY <1>6
  <2>2. \/ Called(by, bus, "local") \/ Called(by, bus, "sent")
        \/ /\ Called(by, bus, "refused") /\ publishers[bus] # "local"
           /\ pubsubs = None \/ sdk[CQRS] = "closed"
    BY <2>1 DEF CallBus, PubSubOpen
  <2>3. calls' \in Seq(Calls') /\ HandlersCanSend'
    <3>1. CASE Called(by, bus, "local") \/ Called(by, bus, "sent")
      BY <1>1, <3>1, CallIsKept
    <3>2. CASE /\ Called(by, bus, "refused") /\ publishers[bus] # "local"
               /\ pubsubs = None \/ sdk[CQRS] = "closed"
      <4>1. AllRemote /\ pubsubs = CQRS
        BY <3>2 DEF BusInv, AllLocal
      <4>2. server = "closed" \/ (HooksFirst /\ bus \in Buses)
        BY <3>2, <4>1, NoneAssumption, SetupKnown DEF OrderInv
      <4> QED
        BY <1>1, <3>2, <4>2, CallIsKept
    <3> QED
      BY <2>2, <3>1, <3>2
  <2>4. sdk' = sdk
    BY <2>1 DEF CallBus
  <2> QED
    BY <1>1, <1>2, <1>3, <2>3, <2>4 DEF Typed, BusInv, OrderInv, AllLocal, AllRemote, HooksFirst
<1> QED
  BY <1>4, <1>5, <1>6

LEMMA AnswerIInv ==
  ASSUME IInv, NEW c \in DOMAIN calls, NEW executed \in BOOLEAN, Answer(c, executed)
  PROVE  IInv'
<1> USE DEF IInv
<1>1. /\ UNCHANGED <<setup, phase, made, sdk, shared, pubsubs, publishers, server, handlers>>
      /\ calls' = [calls EXCEPT ![c].state = IF executed THEN "value" ELSE "failed"]
  BY DEF Answer
<1>2. /\ Owners' = Owners /\ Proxies' = Proxies /\ Calls' = Calls
  BY <1>1, SameOwners DEF Calls
<1>3. calls \in [1 .. Len(calls) -> Calls] /\ Len(calls) \in Nat
  BY LenProperties DEF Typed
<1>4. /\ calls' \in [1 .. Len(calls) -> Calls]
      /\ \A i \in DOMAIN calls : /\ calls'[i].by = calls[i].by
                                 /\ calls'[i].via = calls[i].via
                                 /\ calls'[i].drained = calls[i].drained
                                 /\ calls'[i].state = "refused" => calls[i].state = "refused"
      /\ DOMAIN calls' = DOMAIN calls
  BY <1>1, <1>3 DEF Calls
<1>5. calls' \in Seq(Calls')
  BY <1>2, <1>3, <1>4, SeqDef
<1>6. HandlersCanSend'
  BY <1>1, <1>4 DEF HandlersCanSend, HooksFirst
<1>7. Typed'
  BY <1>1, <1>2, <1>5 DEF Typed
<1> QED
  BY <1>1, <1>2, <1>6, <1>7 DEF MadeInv, BusInv, OrderInv, AllLocal, AllRemote, HooksFirst

LEMMA WorkIInv ==
  ASSUME IInv, Work
  PROVE  IInv'
<1>1. ASSUME NEW h \in DOMAIN handlers, HandlerBegins(h) \/ HandlerEnds(h) PROVE IInv'
  <2>1. /\ UNCHANGED <<setup, phase, made, sdk, shared, pubsubs, publishers, server, calls>>
        /\ handlers' \in [1 .. MaxHandlings -> {"idle", "running", "ended"}]
    BY <1>1 DEF HandlerBegins, HandlerEnds, IInv, Typed
  <2> QED
    BY <2>1, QuietKeeps DEF IInv, Typed, BusInv, OrderInv, AllLocal, AllRemote, HooksFirst
<1> QED
  BY <1>1, CallIInv, AnswerIInv DEF Work

LEMMA StepIInv == IInv /\ [Next]_vars => IInv'
<1>1. ASSUME IInv, UNCHANGED vars PROVE IInv'
  <2>1. UNCHANGED <<setup, phase, made, sdk, shared, pubsubs, publishers, server, handlers, calls>>
    BY <1>1 DEF vars
  <2> QED
    BY <1>1, <2>1, QuietKeeps DEF IInv, Typed, BusInv, OrderInv, AllLocal, AllRemote, HooksFirst
<1> QED
  BY <1>1, StartIInv, StopIInv, WorkIInv DEF Next

LEMMA Invariance == Spec => []IInv
  BY InitIInv, StepIInv, PTL DEF Spec

-----------------------------------------------------------------------------
(* The theorems *)

\* The buses go to the broker all three or not at all, and those of a ready application
\* that do have an open client behind them.
THEOREM BusesGoTogether == Spec => []BusesTogether
<1>1. IInv => BusesTogether
  <2> SUFFICES ASSUME IInv PROVE BusesTogether
    OBVIOUS
  <2>1. PICK where : \A b \in Buses : publishers[b] = where
    BY DEF IInv, BusInv, AllLocal, AllRemote
  <2>2. {publishers[b] : b \in Buses} = {where}
    BY <2>1 DEF Buses
  <2>3. Cardinality({publishers[b] : b \in Buses}) = 1
    BY <2>2, FS_Singleton
  <2>4. phase = "ready" =>
          \A b \in Buses : publishers[b] = "remote" =>
            pubsubs = CQRS /\ shared = CQRS /\ sdk[CQRS] = "open"
    BY DEF IInv, BusInv, AllLocal, AllRemote
  <2> QED
    BY <2>3, <2>4 DEF BusesTogether
<1> QED
  BY Invariance, <1>1, PTL

\* Whatever was opened while the application ran, or while it was closing, is closed
\* when app.close() has ended, and an onModuleInit that throws leaves nothing open.
THEOREM ClientsAreClosed == Spec => []NoClientOutlivesApp
<1>1. IInv => NoClientOutlivesApp
  BY NoneAssumption DEF IInv, BusInv, OrderInv, NoClientOutlivesApp, Proxies
<1> QED
  BY Invariance, <1>1, PTL

\* As long as the server waits for it, a handler is not refused by a proxy, nor by a
\* bus of an application whose server closes first.
THEOREM WaitedForCanSend == Spec => []HandlersCanSend
<1>1. IInv => HandlersCanSend
  BY DEF IInv
<1> QED
  BY Invariance, <1>1, PTL

=============================================================================
