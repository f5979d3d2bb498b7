-------------------------- MODULE MessagePath_proofs --------------------------
(***************************************************************************)
(* What a message carries, and what its sender is told, for any            *)
(* applications: any handlers, records, options, failures and number of    *)
(* messages.                                                               *)
(*                                                                         *)
(* The chain of causation is an induction over messages and handlings that *)
(* beget each other.  StoreInv and ActiveInv say what a handling inherits  *)
(* from its message, TagsOfMessage what a message inherits from the        *)
(* handling that sends it, whatever its record carries.                    *)
(***************************************************************************)
EXTENDS MessagePath, SequenceTheorems, TLAPS

\* A sequence, of whatever it holds.
IsSeq(s) == s \in Seq({s[i] : i \in 1 .. Len(s)})

-----------------------------------------------------------------------------
(* The inductive invariant *)

HandlingFields == {"msg", "names", "kind", "store", "active", "loaded", "thread", "state"}

Typed ==
  /\ app \in Apps
  /\ own = [s \in app.sends |-> s.record.tags]
  /\ IsSeq(sent) /\ IsSeq(handlings)
  /\ Len(sent) <= app.max
  /\ \A i \in DOMAIN sent : sent[i].by \in {0} \cup DOMAIN handlings
  /\ \A h \in DOMAIN handlings :
       DOMAIN handlings[h] = HandlingFields /\ handlings[h].msg \in DOMAIN sent
  /\ wire = [i \in Ids |-> wire[i]] /\ told = [i \in Ids |-> told[i]]

\* The store of a handling names its thread and its message.
StoreInv ==
  \A h \in DOMAIN handlings :
    /\ handlings[h].store.correlation = handlings[h].thread
    /\ handlings[h].store.causation = Id(handlings[h].msg)

\* A handling that began with OpenTelemetry there runs in the trace of its message,
\* and OpenTelemetry stays.
ActiveInv ==
  \A h \in DOMAIN handlings :
    handlings[h].loaded =>
      /\ otel = "loaded"
      /\ app.server.tracing => handlings[h].active = Of(sent[handlings[h].msg].tags, TRACE)

\* A message is labelled as what it is sent as, whatever tags its record carries,
\* and only a message of the server's codec comes to a handler, as its own kind.
LabelsAgree ==
  /\ \A i \in DOMAIN sent :
       /\ sent[i].tags[TYPE] = sent[i].kind
       /\ sent[i].tags[PATTERN] = sent[i].channel
       /\ sent[i].tags[CONTENT] = app.client.codec
  /\ \A h \in DOMAIN handlings :
       /\ handlings[h].kind = sent[handlings[h].msg].kind
       /\ app.client.codec = app.server.codec

\* A handler has succeeded with message i, or with one of the same cache key.
Succeeded(i) ==
  \E h \in DOMAIN handlings :
    /\ handlings[h].state = "ok"
    /\ \/ handlings[h].msg = i
       \/ sent[i].cache # None /\ sent[handlings[h].msg].cache = sent[i].cache

\* An error on the wire, with its own text if the server is verbose.
ErrorOnWire(v) ==
  /\ v = [outcome |-> "error", text |-> v.text]
  /\ v.text = "detail" => app.server.verbose

\* A value on the wire comes of a success.
WireInv ==
  \A i \in Ids :
    \/ wire[i] = Nothing
    \/ wire[i] = Value /\ i \in DOMAIN sent /\ Succeeded(i)
    \/ ErrorOnWire(wire[i])

\* So does a value that is told; all else goes through mapErrorToRpcException.
ToldInv ==
  \A i \in Ids :
    \/ told[i] = Nothing
    \/ told[i] = Value /\ i \in DOMAIN sent /\ Succeeded(i)
    \/ \E class, text : told[i] = Exception(class, text)

IInv ==
  /\ Typed
  /\ CausalChain /\ StoreInv
  /\ TraceUnbroken /\ ActiveInv
  /\ LabelsAgree
  /\ WireInv /\ ToldInv

-----------------------------------------------------------------------------
(* Sequences *)

LEMMA SeqFacts ==
  ASSUME NEW s, IsSeq(s)
  PROVE  Len(s) \in Nat /\ DOMAIN s = 1 .. Len(s)
BY LenProperties DEF IsSeq

LEMMA Appended ==
  ASSUME NEW s, IsSeq(s), NEW e
  PROVE  /\ IsSeq(Append(s, e))
         /\ Len(Append(s, e)) = Len(s) + 1
         /\ DOMAIN Append(s, e) = DOMAIN s \cup {Len(s) + 1}
         /\ Len(s) + 1 \notin DOMAIN s
         /\ \A i \in DOMAIN s : Append(s, e)[i] = s[i]
         /\ Append(s, e)[Len(s) + 1] = e
<1> DEFINE t == Append(s, e)
           R == {s[i] : i \in 1 .. Len(s)} \cup {e}
<1>1. Len(s) \in Nat /\ DOMAIN s = 1 .. Len(s)
  BY SeqFacts
<1>2. s \in Seq(R)
  BY SeqMonotonic DEF IsSeq
<1>3. /\ t \in Seq(R) /\ Len(t) = Len(s) + 1 /\ t[Len(s) + 1] = e
      /\ \A i \in 1 .. Len(s) : t[i] = s[i]
  BY <1>2, AppendProperties
<1>4. R = {t[i] : i \in 1 .. Len(t)}
  BY <1>1, <1>3
<1>5. IsSeq(t)
  BY <1>3, <1>4 DEF IsSeq
<1>6. DOMAIN t = 1 .. Len(t)
  BY <1>5, SeqFacts
<1> HIDE DEF t
<1> QED
  BY <1>1, <1>3, <1>5, <1>6 DEF t

LEMMA Updated ==
  ASSUME NEW s, IsSeq(s), NEW k \in DOMAIN s, NEW e
  PROVE  IsSeq([s EXCEPT ![k] = e]) /\ DOMAIN [s EXCEPT ![k] = e] = DOMAIN s
<1> DEFINE t == [s EXCEPT ![k] = e]
           R == {t[i] : i \in 1 .. Len(s)}
<1>1. Len(s) \in Nat /\ DOMAIN s = 1 .. Len(s)
  BY SeqFacts
<1>2. t \in [1 .. Len(s) -> R]
  BY <1>1
<1>3. DOMAIN t = DOMAIN s
  OBVIOUS
<1> HIDE DEF t
<1>4. t \in Seq(R)
  BY <1>1, <1>2, SeqDef
<1>5. Len(t) = Len(s)
  BY <1>1, <1>2, <1>4, LenProperties
<1> QED
  BY <1>3, <1>4, <1>5 DEF IsSeq, t

-----------------------------------------------------------------------------
(* Tags *)

LEMMA OfOver ==
  ASSUME NEW f, NEW g, NEW k
  PROVE  Of(Over(f, g), k) = IF k \in DOMAIN f THEN f[k] ELSE Of(g, k)
BY DEF Of, Over

LEMMA OfTag ==
  ASSUME NEW k, NEW v, NEW x
  PROVE  Of(Tag(k, v), x) = IF x = k THEN v ELSE None
BY DEF Of, Tag

\* What a message carries: its own pattern, kind and codec, whatever its record's
\* tags; of the thread, the cause and the trace what the record names, and failing
\* that what it inherits.
LEMMA TagsOfMessage ==
  ASSUME NEW by, NEW s, NEW user, NEW active
  PROVE  LET m == Wired(by, s, user, active)
         IN  /\ m.by = by /\ m.send = s
             /\ m.tags[TYPE] = m.kind
             /\ m.tags[PATTERN] = m.channel
             /\ m.tags[CONTENT] = app.client.codec
             /\ Of(m.tags, CORRELATION) =
                  IF CORRELATION \in DOMAIN user THEN user[CORRELATION]
                  ELSE IF by = 0 THEN None ELSE Store(by).correlation
             /\ CAUSATION \notin DOMAIN user =>
                  Of(m.tags, CAUSATION) = IF by = 0 THEN None ELSE Store(by).causation
             /\ TRACE \notin DOMAIN user =>
                  Of(m.tags, TRACE) = IF Traces(app.client) THEN active ELSE None
<1> DEFINE m == Wired(by, s, user, active)
           metadata == ExtractPacketMetadata(s.record)
           channel == ApplyPrefix(app.client.prefix, s.channel)
           codec == app.client.codec
           kind == KindOf(s.op, metadata)
           base == Over(Tag(PATTERN, channel), Over(Tag(TYPE, LabelOf(s.op, metadata)),
                                                    Tag(CONTENT, codec)))
           merged == MergeWireTags(base, user)
           inherited == Inherit(merged, by)
           tags == InjectIntoTags(inherited, active)
<1>1. /\ m.by = by /\ m.send = s /\ m.kind = kind /\ m.channel = channel /\ m.tags = tags
  BY DEF Wired
<1>2. LabelOf(s.op, metadata) = kind
  BY DEF LabelOf, KindOf
<1>3. /\ DOMAIN base = {PATTERN, TYPE, CONTENT}
      /\ base[PATTERN] = channel /\ base[TYPE] = kind /\ base[CONTENT] = codec
  <2> HIDE DEF channel, codec, kind, metadata
  <2> QED
    BY <1>2 DEF Over, Tag, PATTERN, TYPE, CONTENT
<1> HIDE DEF base, channel, codec, kind, metadata, m
<1>4. /\ DOMAIN merged = (DOMAIN user \ Reserved) \cup DOMAIN base
      /\ \A k \in DOMAIN base : merged[k] = base[k]
      /\ \A k \in DOMAIN user \ Reserved : merged[k] = user[k]
  BY <1>3 DEF MergeWireTags, Over, Without, Reserved
<1> HIDE DEF merged
<1>5. /\ \A k \in DOMAIN merged : k \in DOMAIN inherited /\ inherited[k] = merged[k]
      /\ \A k : k \notin DOMAIN merged =>
           Of(inherited, k) = IF by = 0 THEN None
                              ELSE IF k = CORRELATION THEN Store(by).correlation
                              ELSE IF k = CAUSATION THEN Store(by).causation ELSE None
  BY DEF Inherit, Over, Tag, Of, CORRELATION, CAUSATION
<1> HIDE DEF inherited
<1>6. /\ \A k \in DOMAIN inherited : k # TRACE => k \in DOMAIN tags /\ tags[k] = inherited[k]
      /\ \A k : k # TRACE => Of(tags, k) = Of(inherited, k)
      /\ Of(inherited, TRACE) = None =>
           Of(tags, TRACE) = IF Traces(app.client) THEN active ELSE None
  BY DEF InjectIntoTags, Over, Tag, Of
<1> HIDE DEF tags
<1>7. /\ tags[TYPE] = kind /\ tags[PATTERN] = channel /\ tags[CONTENT] = codec
  BY <1>3, <1>4, <1>5, <1>6 DEF TYPE, PATTERN, CONTENT, TRACE
<1>8. \A k \in {CORRELATION, CAUSATION, TRACE} :
        /\ k \in DOMAIN merged <=> k \in DOMAIN user
        /\ k \in DOMAIN user => merged[k] = user[k]
  BY <1>3, <1>4 DEF Reserved, TYPE, PATTERN, CONTENT, CORRELATION, CAUSATION, TRACE
<1>9. Of(tags, CORRELATION) = IF CORRELATION \in DOMAIN user THEN user[CORRELATION]
                              ELSE IF by = 0 THEN None ELSE Store(by).correlation
  <2>1. Of(tags, CORRELATION) = Of(inherited, CORRELATION)
    BY <1>6 DEF CORRELATION, TRACE
  <2> QED
    BY <2>1, <1>5, <1>8 DEF Of
<1>10. CAUSATION \notin DOMAIN user =>
         Of(tags, CAUSATION) = IF by = 0 THEN None ELSE Store(by).causation
  <2>1. Of(tags, CAUSATION) = Of(inherited, CAUSATION)
    BY <1>6 DEF CAUSATION, TRACE
  <2> QED
    BY <2>1, <1>5, <1>8 DEF CORRELATION, CAUSATION
<1>11. TRACE \notin DOMAIN user =>
         Of(tags, TRACE) = IF Traces(app.client) THEN active ELSE None
  BY <1>5, <1>6, <1>8 DEF CORRELATION, CAUSATION, TRACE
<1> QED
  BY <1>1, <1>7, <1>9, <1>10, <1>11 DEF m, codec

-----------------------------------------------------------------------------
(* Initially, and steps that touch neither messages nor handlings *)

LEMMA InitIInv == Init => IInv
<1> SUFFICES ASSUME Init PROVE IInv
  OBVIOUS
<1>1. /\ DOMAIN sent = {} /\ DOMAIN handlings = {} /\ Len(sent) = 0
      /\ IsSeq(sent) /\ IsSeq(handlings)
  <2>1. <<>> \in Seq({<<>>[i] : i \in 1 .. Len(<<>>)}) /\ Len(<<>>) = 0
    BY EmptySeq
  <2> QED
    BY <2>1, SeqFacts DEF Init, IsSeq
<1>2. app.max \in Nat
  BY AppsAssumption DEF Init
<1>3. Typed
  BY <1>1, <1>2 DEF Typed, Init
<1>4. WireInv /\ ToldInv
  BY DEF WireInv, ToldInv, Init
<1> QED
  BY <1>1, <1>3, <1>4
  DEF IInv, CausalChain, StoreInv, TraceUnbroken, ActiveInv, LabelsAgree

\* What has succeeded has, as long as messages stay and a handling that went well
\* stays as it is.
LEMMA SuccessLasts ==
  ASSUME \A i \in DOMAIN sent : i \in DOMAIN sent' /\ sent'[i] = sent[i],
         \A h \in DOMAIN handlings :
           /\ handlings[h].msg \in DOMAIN sent
           /\ h \in DOMAIN handlings' /\ handlings'[h].msg = handlings[h].msg
           /\ handlings[h].state = "ok" => handlings'[h].state = "ok"
  PROVE  \A i \in DOMAIN sent : Succeeded(i) => Succeeded(i)'
BY DEF Succeeded

LEMMA ErrorStays ==
  ASSUME UNCHANGED app, NEW v
  PROVE  ErrorOnWire(v)' <=> ErrorOnWire(v)
BY DEF ErrorOnWire

LEMMA QuietStep ==
  ASSUME IInv, UNCHANGED <<app, own, sent, handlings, wire, told>>,
         otel = "loaded" => otel' = "loaded"
  PROVE  IInv'
<1>1. Typed' /\ CausalChain' /\ StoreInv' /\ LabelsAgree'
  BY DEF IInv, Typed, CausalChain, StoreInv, LabelsAgree
<1>2. TraceUnbroken' /\ ActiveInv'
  BY DEF IInv, TraceUnbroken, ActiveInv
<1>3. WireInv' /\ ToldInv'
  <2>1. \A i : Succeeded(i)' <=> Succeeded(i)
    BY DEF Succeeded
  <2>2. \A class, text : Exception(class, text)' = Exception(class, text)
    BY DEF Exception, ClientText
  <2>3. \A v : ErrorOnWire(v)' <=> ErrorOnWire(v)
    BY ErrorStays
  <2>4. WireInv'
    BY <2>1, <2>3 DEF IInv, WireInv
  <2>5. ToldInv'
    BY <2>1, <2>2 DEF IInv, ToldInv
  <2> QED
    BY <2>4, <2>5
<1> QED
  BY <1>1, <1>2, <1>3 DEF IInv

\* ensureOtelLoaded: what is loaded is not loaded again.
LEMMA StartUpStep ==
  ASSUME IInv, StartUp \/ ProxyConnects
  PROVE  IInv'
<1>1. ASSUME ServerConnects PROVE IInv'
  BY <1>1, QuietStep DEF ServerConnects, StartsLoading, AwaitsOtel
<1>2. ASSUME ServerTraces PROVE IInv'
  BY <1>2, QuietStep DEF ServerTraces
<1>3. ASSUME NEW found \in BOOLEAN, OtelLoads(found) PROVE IInv'
  BY <1>3, QuietStep DEF OtelLoads
<1>4. ASSUME ProxyConnects PROVE IInv'
  BY <1>4, QuietStep DEF ProxyConnects, StartsLoading, AwaitsOtel
<1> QED
  BY <1>1, <1>2, <1>3, <1>4 DEF StartUp

-----------------------------------------------------------------------------
(* Sending *)

LEMMA PublishStep ==
  ASSUME IInv, NEW by \in {0} \cup DOMAIN handlings, NEW s \in app.sends, NEW span \in BOOLEAN,
         Publish(by, s, span)
  PROVE  IInv'
<1> DEFINE active == Active(by, span)
           m == Wired(by, s, own[s], active)
           n == Len(sent) + 1
           user == s.record.tags
<1> USE DEF IInv
<1>1. /\ UNCHANGED <<app, otel, handlings, wire, told>>
      /\ Len(sent) < app.max /\ sent' = Append(sent, m)
      /\ own[s] = user /\ own' = own
  BY DEF Publish, Typed, RecordTagsAfter
<1>2. /\ IsSeq(sent') /\ Len(sent') = n /\ DOMAIN sent' = DOMAIN sent \cup {n}
      /\ n \notin DOMAIN sent /\ sent'[n] = m
      /\ \A i \in DOMAIN sent : sent'[i] = sent[i]
  <2>1. IsSeq(sent)
    BY DEF Typed
  <2> HIDE DEF m
  <2> QED
    BY <1>1, <2>1, Appended
<1>3. /\ m.by = by /\ m.send = s /\ m.tags[TYPE] = m.kind /\ m.tags[PATTERN] = m.channel
      /\ m.tags[CONTENT] = app.client.codec
      /\ Of(m.tags, CORRELATION) = IF CORRELATION \in DOMAIN user THEN user[CORRELATION]
                                   ELSE IF by = 0 THEN None ELSE Store(by).correlation
      /\ CAUSATION \notin DOMAIN user =>
           Of(m.tags, CAUSATION) = IF by = 0 THEN None ELSE Store(by).causation
      /\ TRACE \notin DOMAIN user =>
           Of(m.tags, TRACE) = IF Traces(app.client) THEN active ELSE None
  BY <1>1, TagsOfMessage
<1>4. m.thread = IF CORRELATION \in DOMAIN user THEN user[CORRELATION]
                 ELSE IF by = 0 THEN None ELSE handlings[by].thread
  BY DEF Wired
<1>5. by # 0 => handlings[by].msg \in DOMAIN sent
  BY DEF Typed
<1> HIDE DEF m
<1>6. Typed'
  <2>1. Len(sent') <= app'.max
    <3>1. app.max \in Nat /\ Len(sent) \in Nat
      BY SeqFacts, AppsAssumption DEF Typed
    <3> QED
      BY <1>1, <1>2, <3>1
  <2> QED
    BY <1>1, <1>2, <1>3, <2>1 DEF Typed
<1>7. CausalChain'
  <2>1. /\ Of(m.tags, CORRELATION) = m.thread
        /\ CAUSATION \notin DOMAIN m.send.record.tags =>
             Of(m.tags, CAUSATION) = IF m.by = 0 THEN None ELSE Id(handlings[m.by].msg)
    BY <1>3, <1>4 DEF StoreInv, Store
  <2> QED
    BY <1>1, <1>2, <2>1 DEF CausalChain
<1>8. StoreInv'
  BY <1>1 DEF StoreInv
<1>9. TraceUnbroken'
  <2>1. ASSUME by # 0, app.client.tracing, app.server.tracing, handlings[by].loaded,
               TRACE \notin DOMAIN user
        PROVE  Of(m.tags, TRACE) = Of(sent[handlings[by].msg].tags, TRACE)
    BY <1>3, <2>1 DEF ActiveInv, Traces, Active
  <2>2. ASSUME NEW i \in DOMAIN sent, sent[i].by # 0
        PROVE  handlings[sent[i].by].msg \in DOMAIN sent
    BY <2>2 DEF Typed
  <2> QED
    BY <1>1, <1>2, <1>3, <1>5, <2>1, <2>2 DEF TraceUnbroken
<1>10. ActiveInv'
  BY <1>1, <1>2 DEF ActiveInv, Typed
<1>11. LabelsAgree'
  BY <1>1, <1>2, <1>3 DEF LabelsAgree, Typed
<1>12. WireInv' /\ ToldInv'
  <2>1. \A i \in DOMAIN sent : Succeeded(i) => Succeeded(i)'
    BY <1>1, <1>2, SuccessLasts DEF Typed
  <2>2. \A class, text : Exception(class, text)' = Exception(class, text)
    BY <1>1 DEF Exception, ClientText
  <2>3. WireInv'
    BY <1>1, <1>2, <2>1, ErrorStays DEF WireInv
  <2>4. ToldInv'
    BY <1>1, <1>2, <2>1, <2>2 DEF ToldInv
  <2> QED
    BY <2>3, <2>4
<1> QED
  BY <1>6, <1>7, <1>8, <1>9, <1>10, <1>11, <1>12

-----------------------------------------------------------------------------
(* Receiving *)

LEMMA InIds ==
  ASSUME Typed, NEW i \in DOMAIN sent
  PROVE  i \in Ids
<1>1. app.max \in 0 .. MaxMessages /\ MaxMessages \in Nat
  BY AppsAssumption DEF Typed
<1>2. i \in 1 .. Len(sent) /\ Len(sent) \in Nat /\ Len(sent) <= app.max
  BY SeqFacts DEF Typed
<1> QED
  BY <1>1, <1>2 DEF Ids

\* Both of the server's catch blocks send what its verbosity allows.
LEMMA ErrorsAllowed ==
  ASSUME NEW text \in {OuterText, ServerText}
  PROVE  ErrorOnWire([outcome |-> "error", text |-> text])
<1>1. text = "detail" => app.server.verbose
  BY DEF OuterText, ServerText
<1> QED
  BY <1>1 DEF ErrorOnWire

\* The three things on a wire are told apart by their outcome.
LEMMA Outcomes ==
  /\ Nothing.outcome = "none" /\ Value.outcome = "value"
  /\ \A v : ErrorOnWire(v) => v.outcome = "error"
<1>1. \A v : ErrorOnWire(v) => v.outcome = "error"
  <2> SUFFICES ASSUME NEW v, v = [outcome |-> "error", text |-> v.text] PROVE v.outcome = "error"
    BY DEF ErrorOnWire
  <2> QED
    OBVIOUS
<1> QED
  BY <1>1 DEF Nothing, Value

\* A response put on the wire, if it is a success that happened or such an error.
LEMMA WireSet ==
  ASSUME Typed, WireInv, NEW i \in DOMAIN sent, NEW v,
         UNCHANGED <<app, sent>>, wire' = [wire EXCEPT ![i] = v],
         \A j \in DOMAIN sent : Succeeded(j) => Succeeded(j)',
         (v = Value /\ Succeeded(i)') \/ ErrorOnWire(v)
  PROVE  WireInv' /\ wire' = [j \in Ids |-> wire'[j]]
<1>1. i \in Ids /\ wire = [j \in Ids |-> wire[j]]
  BY InIds DEF Typed
<1>2. wire'[i] = v /\ \A j \in Ids \ {i} : wire'[j] = wire[j]
  BY <1>1
<1>3. wire' = [j \in Ids |-> wire'[j]]
  BY <1>1
<1>4. \A w : ErrorOnWire(w) => ErrorOnWire(w)'
  BY ErrorStays
<1>5. WireInv'
  BY <1>2, <1>4 DEF WireInv
<1> QED
  BY <1>3, <1>5

LEMMA ToldSame ==
  ASSUME ToldInv, UNCHANGED <<app, sent, told>>,
         \A j \in DOMAIN sent : Succeeded(j) => Succeeded(j)'
  PROVE  ToldInv'
<1>1. \A class, text : Exception(class, text)' = Exception(class, text)
  BY DEF Exception, ClientText
<1> QED
  BY <1>1 DEF ToldInv

LEMMA WireSame ==
  ASSUME WireInv, UNCHANGED <<app, sent, wire>>,
         \A j \in DOMAIN sent : Succeeded(j) => Succeeded(j)'
  PROVE  WireInv'
<1>1. \A w : ErrorOnWire(w) => ErrorOnWire(w)'
  BY ErrorStays
<1> QED
  BY <1>1 DEF WireInv

LEMMA DeliverStep ==
  ASSUME IInv, NEW i \in DOMAIN sent, NEW e \in subs, Deliver(i, e)
  PROVE  IInv'
<1> USE DEF IInv
<1>1. UNCHANGED <<app, otel, own, sent, told>> /\ e.kind = sent[i].kind
  BY DEF Deliver, Reaches, Matches
<1>2. ASSUME Decodes(i) PROVE IInv'
  <2> DEFINE uuid == Uuid(Len(handlings) + 1)
             n == Len(handlings) + 1
             r == [msg |-> i, names |-> e.names, kind |-> e.kind, store |-> CreateFromTags(i),
                   active |-> ExtractContext(sent[i].tags), loaded |-> otel = "loaded",
                   thread |-> IF sent[i].thread = None THEN uuid ELSE sent[i].thread,
                   state |-> "running"]
  <2>1. handlings' = Append(handlings, r) /\ wire' = wire
    BY <1>2 DEF Deliver
  <2>2. /\ r.msg = i /\ r.kind = e.kind /\ r.store = CreateFromTags(i)
        /\ r.active = ExtractContext(sent[i].tags)
        /\ r.thread = IF sent[i].thread = None THEN uuid ELSE sent[i].thread
        /\ DOMAIN r = HandlingFields
    BY DEF HandlingFields
  <2>3. r.loaded <=> otel = "loaded"
    OBVIOUS
  <2> HIDE DEF r
  <2>4. /\ IsSeq(handlings') /\ DOMAIN handlings' = DOMAIN handlings \cup {n}
        /\ n \notin DOMAIN handlings /\ handlings'[n] = r
        /\ \A h \in DOMAIN handlings : handlings'[h] = handlings[h]
    BY <2>1, Appended DEF Typed
  <2>5. DOMAIN handlings = 1 .. Len(handlings) /\ Len(handlings) \in Nat
    BY SeqFacts DEF Typed
  <2> HIDE DEF n
  <2>6. Typed'
    BY <1>1, <2>1, <2>2, <2>4 DEF Typed
  <2>7. CausalChain'
    BY <1>1, <2>4 DEF CausalChain, Typed
  <2>8. StoreInv'
    <3>1. /\ CreateFromTags(i).correlation = IF sent[i].thread = None THEN uuid ELSE sent[i].thread
          /\ CreateFromTags(i).causation = Id(i)
      <4>1. Of(sent[i].tags, CORRELATION) = sent[i].thread
        BY DEF CausalChain
      <4>2. sent[i].thread # None => sent[i].tags[CORRELATION] = sent[i].thread
        BY <4>1 DEF Of
      <4> QED
        BY <4>1, <4>2 DEF CreateFromTags
    <3> QED
      BY <1>1, <2>2, <2>4, <3>1 DEF StoreInv
  <2>9. TraceUnbroken'
    BY <1>1, <2>4 DEF TraceUnbroken, Typed
  <2>10. ActiveInv'
    <3>1. ASSUME r.loaded
          PROVE  /\ otel = "loaded"
                 /\ app.server.tracing => r.active = Of(sent[i].tags, TRACE)
      BY <3>1, <2>2, <2>3 DEF ExtractContext, Traces
    <3> QED
      BY <1>1, <2>2, <2>4, <3>1 DEF ActiveInv
  <2>11. LabelsAgree'
    <3>1. app.client.codec = app.server.codec
      BY <1>2 DEF LabelsAgree, Decodes
    <3> QED
      BY <1>1, <2>2, <2>4, <3>1 DEF LabelsAgree
  <2>12. WireInv' /\ ToldInv'
    <3>1. \A j \in DOMAIN sent : Succeeded(j) => Succeeded(j)'
      BY <1>1, <2>4, SuccessLasts DEF Typed
    <3> QED
      BY <1>1, <2>1, <3>1, WireSame, ToldSame
  <2> QED
    BY <2>6, <2>7, <2>8, <2>9, <2>10, <2>11, <2>12
<1>3. ASSUME ~Decodes(i) PROVE IInv'
  <2>1. /\ handlings' = handlings
        /\ wire' = IF e.kind \in Rpc
                   THEN [wire EXCEPT ![i] = [outcome |-> "error", text |-> OuterText]] ELSE wire
    BY <1>3 DEF Deliver
  <2>2. \A j : Succeeded(j) <=> Succeeded(j)'
    BY <1>1, <2>1 DEF Succeeded
  <2>3. ErrorOnWire([outcome |-> "error", text |-> OuterText])
    BY ErrorsAllowed
  <2>4. WireInv' /\ wire' = [j \in Ids |-> wire'[j]]
    <3>1. CASE e.kind \in Rpc
      BY <1>1, <2>1, <2>2, <2>3, <3>1, WireSet
    <3>2. CASE e.kind \notin Rpc
      BY <1>1, <2>1, <2>2, <3>2, WireSame DEF Typed
    <3> QED
      BY <3>1, <3>2
  <2>5. Typed' /\ CausalChain' /\ StoreInv' /\ LabelsAgree'
    BY <1>1, <2>1, <2>4 DEF Typed, CausalChain, StoreInv, LabelsAgree
  <2>6. TraceUnbroken' /\ ActiveInv'
    BY <1>1, <2>1 DEF TraceUnbroken, ActiveInv
  <2>7. ToldInv'
    BY <1>1, <2>2, ToldSame
  <2> QED
    BY <2>4, <2>5, <2>6, <2>7
<1> QED
  BY <1>2, <1>3

LEMMA CacheStep ==
  ASSUME IInv, NEW i \in DOMAIN sent, CacheAnswers(i)
  PROVE  IInv'
<1> USE DEF IInv
<1>1. UNCHANGED <<app, otel, own, sent, handlings, told>> /\ wire' = [wire EXCEPT ![i] = Value]
  BY DEF CacheAnswers
<1>2. \A j : Succeeded(j) <=> Succeeded(j)'
  BY <1>1 DEF Succeeded
<1>3. PICK j \in DOMAIN sent :
        /\ sent[i].cache # None /\ sent[j].cache = sent[i].cache /\ wire[j].outcome = "value"
  BY DEF CacheAnswers
<1>4. Succeeded(j)
  <2>1. wire[j] # Nothing /\ ~ErrorOnWire(wire[j])
    BY <1>3, Outcomes
  <2> QED
    BY <1>3, <2>1, InIds DEF WireInv
<1>5. Succeeded(i)
  BY <1>3, <1>4 DEF Succeeded
<1>6. WireInv' /\ wire' = [k \in Ids |-> wire'[k]]
  BY <1>1, <1>2, <1>5, WireSet
<1>7. Typed' /\ CausalChain' /\ StoreInv' /\ LabelsAgree'
  BY <1>1, <1>6 DEF Typed, CausalChain, StoreInv, LabelsAgree
<1>8. TraceUnbroken' /\ ActiveInv'
  BY <1>1 DEF TraceUnbroken, ActiveInv
<1>9. ToldInv'
  BY <1>1, <1>2, ToldSame
<1> QED
  BY <1>6, <1>7, <1>8, <1>9

LEMMA HandlerEndsStep ==
  ASSUME IInv, NEW h \in DOMAIN handlings, NEW ok \in BOOLEAN, HandlerEnds(h, ok)
  PROVE  IInv'
<1> USE DEF IInv
<1> PICK i \in DOMAIN sent : i = handlings[h].msg
  BY DEF Typed
<1> DEFINE r == [handlings[h] EXCEPT !.state = IF ok THEN "ok" ELSE "failed"]
<1>1. /\ UNCHANGED <<app, otel, own, sent, told>> /\ handlings[h].state = "running"
      /\ handlings' = [handlings EXCEPT ![h] = r]
      /\ wire' = IF handlings[h].kind \notin Rpc THEN wire
                 ELSE [wire EXCEPT ![i] = IF ok THEN Value
                                          ELSE [outcome |-> "error", text |-> ServerText]]
  BY DEF HandlerEnds
<1>2. IsSeq(handlings) /\ DOMAIN handlings[h] = HandlingFields
  BY DEF Typed
<1>3. /\ DOMAIN r = HandlingFields
      /\ r.msg = i /\ r.kind = handlings[h].kind /\ r.store = handlings[h].store
      /\ r.active = handlings[h].active /\ r.thread = handlings[h].thread
      /\ r.state = IF ok THEN "ok" ELSE "failed"
  BY <1>2 DEF HandlingFields
<1>4. r.loaded = handlings[h].loaded
  BY <1>2 DEF HandlingFields
<1> HIDE DEF r
<1>5. /\ IsSeq(handlings') /\ DOMAIN handlings' = DOMAIN handlings /\ handlings'[h] = r
      /\ \A k \in DOMAIN handlings \ {h} : handlings'[k] = handlings[k]
  BY <1>1, <1>2, Updated
<1>6. \A k \in DOMAIN handlings :
        /\ DOMAIN handlings'[k] = HandlingFields
        /\ handlings'[k].msg = handlings[k].msg /\ handlings'[k].kind = handlings[k].kind
        /\ handlings'[k].store = handlings[k].store
        /\ handlings'[k].thread = handlings[k].thread
        /\ handlings'[k].active = handlings[k].active
        /\ handlings[k].state = "ok" => handlings'[k].state = "ok"
  <2>1. \A k \in DOMAIN handlings : DOMAIN handlings[k] = HandlingFields
    BY DEF Typed
  <2> QED
    BY <1>1, <1>3, <1>5, <2>1
<1>7. \A k \in DOMAIN handlings : handlings'[k].loaded = handlings[k].loaded
  BY <1>4, <1>5
<1>8. \A j \in DOMAIN sent : Succeeded(j) => Succeeded(j)'
  BY <1>1, <1>5, <1>6, SuccessLasts DEF Typed
<1>9. WireInv' /\ wire' = [k \in Ids |-> wire'[k]]
  <2>1. CASE handlings[h].kind \notin Rpc
    BY <1>1, <1>8, <2>1, WireSame DEF Typed
  <2>2. CASE handlings[h].kind \in Rpc /\ ok
    <3>1. handlings'[h].state = "ok" /\ handlings'[h].msg = i /\ h \in DOMAIN handlings'
      BY <1>3, <1>5, <2>2
    <3>2. Succeeded(i)'
      BY <3>1 DEF Succeeded
    <3> QED
      BY <1>1, <1>2, <1>8, <2>2, <3>2, WireSet
  <2>3. CASE handlings[h].kind \in Rpc /\ ~ok
    <3>1. ErrorOnWire([outcome |-> "error", text |-> ServerText])
      BY ErrorsAllowed
    <3> QED
      BY <1>1, <1>2, <1>8, <2>3, <3>1, WireSet
  <2> QED
    BY <2>1, <2>2, <2>3
<1>10. Typed'
  BY <1>1, <1>5, <1>6, <1>9 DEF Typed
<1>11. CausalChain' /\ StoreInv' /\ LabelsAgree'
  BY <1>1, <1>5, <1>6 DEF Typed, CausalChain, StoreInv, LabelsAgree
<1>12. TraceUnbroken' /\ ActiveInv'
  BY <1>1, <1>5, <1>6, <1>7 DEF Typed, TraceUnbroken, ActiveInv
<1>13. ToldInv'
  BY <1>1, <1>8, ToldSame
<1> QED
  BY <1>9, <1>10, <1>11, <1>12, <1>13

-----------------------------------------------------------------------------
(* Back at the requester *)

\* Whatever a requester is told, it is a success or a mapped error.
LEMMA ToldStep ==
  ASSUME IInv, NEW i \in DOMAIN sent, NEW v,
         UNCHANGED <<app, otel, own, sent, handlings, wire>>, told' = [told EXCEPT ![i] = v],
         \/ v = Value /\ Succeeded(i)
         \/ \E class, text : v = Exception(class, text)
  PROVE  IInv'
<1> USE DEF IInv
<1>1. \A j : Succeeded(j) <=> Succeeded(j)'
  BY DEF Succeeded
<1>2. \A class, text : Exception(class, text)' = Exception(class, text)
  BY DEF Exception, ClientText
<1>3. i \in Ids /\ told = [j \in Ids |-> told[j]]
  BY InIds DEF Typed
<1>4. told'[i] = v /\ \A j \in Ids \ {i} : told'[j] = told[j]
  BY <1>3
<1>5. told' = [j \in Ids |-> told'[j]]
  BY <1>3
<1>6. Typed' /\ CausalChain' /\ StoreInv' /\ LabelsAgree'
  BY <1>5 DEF Typed, CausalChain, StoreInv, LabelsAgree
<1>7. TraceUnbroken' /\ ActiveInv'
  BY DEF TraceUnbroken, ActiveInv
<1>8. WireInv'
  BY <1>1, WireSame
<1>9. ToldInv'
  BY <1>1, <1>2, <1>4 DEF ToldInv
<1> QED
  BY <1>6, <1>7, <1>8, <1>9

LEMMA AnsweredStep ==
  ASSUME IInv, NEW i \in DOMAIN sent, Answered(i)
  PROVE  IInv'
<1>1. ASSUME ReplyArrives(i) PROVE IInv'
  <2> DEFINE v == IF wire[i].outcome = "error" THEN Exception("HANDLER_ERROR", wire[i].text)
                  ELSE IF app.server.codec = app.client.codec THEN Value
                  ELSE Exception("SerializationError", "detail")
  <2>1. UNCHANGED <<app, otel, own, sent, handlings, wire>> /\ told' = [told EXCEPT ![i] = v]
    BY <1>1 DEF ReplyArrives
  <2>2. wire[i].outcome # "error" => Succeeded(i)
    BY <1>1, InIds, Outcomes DEF IInv, WireInv, ReplyArrives
  <2>3. (v = Value /\ Succeeded(i)) \/ \E class, text : v = Exception(class, text)
    BY <2>2
  <2> HIDE DEF v
  <2> QED
    BY <2>1, <2>3, ToldStep
<1>2. ASSUME NEW class \in app.failures, TransportFails(i, class) PROVE IInv'
  BY <1>2, ToldStep DEF TransportFails
<1> QED
  BY <1>1, <1>2 DEF Answered

-----------------------------------------------------------------------------
LEMMA NextIInv == IInv /\ [Next]_vars => IInv'
<1> SUFFICES ASSUME IInv, [Next]_vars PROVE IInv'
  OBVIOUS
<1>1. CASE UNCHANGED vars
  BY <1>1, QuietStep DEF vars
<1>2. CASE StartUp \/ ProxyConnects
  BY <1>2, StartUpStep
<1>3. ASSUME NEW by \in {0} \cup DOMAIN handlings, NEW s \in app.sends, NEW span \in BOOLEAN,
             Publish(by, s, span)
      PROVE  IInv'
  BY <1>3, PublishStep
<1>4. ASSUME NEW i \in DOMAIN sent, Receive(i) \/ CacheAnswers(i) \/ Answered(i) PROVE IInv'
  BY <1>4, DeliverStep, CacheStep, AnsweredStep DEF Receive
<1>5. ASSUME NEW h \in DOMAIN handlings, NEW ok \in BOOLEAN, HandlerEnds(h, ok) PROVE IInv'
  BY <1>5, HandlerEndsStep
<1> QED
  BY <1>1, <1>2, <1>3, <1>4, <1>5 DEF Next

LEMMA AlwaysIInv == Spec => []IInv
<1>1. Init => IInv
  BY InitIInv
<1>2. IInv /\ [Next]_vars => IInv'
  BY NextIInv
<1> QED
  BY <1>1, <1>2, PTL DEF Spec

-----------------------------------------------------------------------------
(* What the runs check, for any applications *)

\* Every message carries its thread's correlation id and the id of the message being
\* handled: CorrelationContext, publish and dispatchEvent, over any number of
\* handlings and sends of any records.
THEOREM ChainOfCausation == Spec => []CausalChain
<1>1. IInv => CausalChain
  BY DEF IInv
<1> QED
  BY <1>1, AlwaysIInv, PTL

\* A handler continues the trace of its message, whenever OpenTelemetry was loaded
\* (TracePropagator).
THEOREM TracesContinue == Spec => []TraceUnbroken
<1>1. IInv => TraceUnbroken
  BY DEF IInv
<1> QED
  BY <1>1, AlwaysIInv, PTL

\* The wire tags of publish and dispatchEvent say what was sent, where to and in
\* which codec, whatever tags the application's record carries (mergeWireTags), and
\* a handler receives a message of its own kind and codec.
THEOREM LabelsAreTrue == Spec => []LabelsAgree
<1>1. IInv => LabelsAgree
  BY DEF IInv
<1> QED
  BY <1>1, AlwaysIInv, PTL

-----------------------------------------------------------------------------
(* What a requester is told *)

\* A handler has failed with message i, or could not be called with it.
Failed(i) == Refused(i) \/ ~Decodes(i)

\* An error on the wire, or told, comes of a failure.
FailureInv ==
  \A i \in Ids :
    /\ wire[i].outcome = "error" => i \in DOMAIN sent /\ Failed(i)
    /\ told[i].outcome = "exception" /\ told[i].class = "HANDLER_ERROR" =>
         i \in DOMAIN sent /\ Failed(i)

\* A failure lasts, as long as messages stay and a failed handling stays as it is.
LEMMA FailureLasts ==
  ASSUME UNCHANGED app, \A i \in DOMAIN sent : i \in DOMAIN sent' /\ sent'[i] = sent[i],
         \A h \in DOMAIN handlings :
           /\ h \in DOMAIN handlings' /\ handlings'[h].msg = handlings[h].msg
           /\ handlings[h].state = "failed" => handlings'[h].state = "failed"
  PROVE  \A i \in DOMAIN sent : Failed(i) => Failed(i)'
<1>1. \A i \in DOMAIN sent : Refused(i) => Refused(i)'
  BY DEF Refused
<1>2. \A i \in DOMAIN sent : Decodes(i)' => Decodes(i)
  BY DEF Decodes
<1> QED
  BY <1>1, <1>2 DEF Failed

\* The response to one request is put on the wire, or told.
LEMMA FailureSet ==
  ASSUME Typed, FailureInv, NEW i \in DOMAIN sent, NEW v, NEW w,
         i \in DOMAIN sent', \A j \in DOMAIN sent : Failed(j) => Failed(j)',
         DOMAIN sent \subseteq DOMAIN sent',
         wire' = [wire EXCEPT ![i] = v] \/ (v = Nothing /\ UNCHANGED wire),
         told' = [told EXCEPT ![i] = w] \/ (w = Nothing /\ UNCHANGED told),
         v.outcome = "error" => Failed(i)',
         w.outcome = "exception" /\ w.class = "HANDLER_ERROR" => Failed(i)'
  PROVE  FailureInv'
<1>1. wire = [j \in Ids |-> wire[j]] /\ told = [j \in Ids |-> told[j]]
  BY DEF Typed
<1>2. \A j \in Ids : /\ wire'[j] = wire[j] \/ (j = i /\ wire'[j] = v)
                     /\ told'[j] = told[j] \/ (j = i /\ told'[j] = w)
  BY <1>1
<1> SUFFICES ASSUME NEW j \in Ids
             PROVE  /\ wire'[j].outcome = "error" => j \in DOMAIN sent' /\ Failed(j)'
                    /\ told'[j].outcome = "exception" /\ told'[j].class = "HANDLER_ERROR" =>
                         j \in DOMAIN sent' /\ Failed(j)'
  BY DEF FailureInv
<1>3. /\ wire[j].outcome = "error" => j \in DOMAIN sent' /\ Failed(j)'
      /\ told[j].outcome = "exception" /\ told[j].class = "HANDLER_ERROR" =>
           j \in DOMAIN sent' /\ Failed(j)'
  BY DEF FailureInv
<1> QED
  BY <1>2, <1>3

\* A step that answers nobody.
LEMMA FailureSame ==
  ASSUME FailureInv, UNCHANGED <<wire, told>>, DOMAIN sent \subseteq DOMAIN sent',
         \A j \in DOMAIN sent : Failed(j) => Failed(j)'
  PROVE  FailureInv'
BY DEF FailureInv

LEMMA DeliverFailure ==
  ASSUME IInv, FailureInv, NEW i \in DOMAIN sent, NEW e \in subs, Deliver(i, e)
  PROVE  FailureInv'
<1> USE DEF IInv
<1>1. UNCHANGED <<app, sent, told>>
  BY DEF Deliver
<1>2. CASE Decodes(i)
  <2>1. PICK r : handlings' = Append(handlings, r) /\ wire' = wire
    BY <1>2 DEF Deliver
  <2>2. \A h \in DOMAIN handlings : h \in DOMAIN handlings' /\ handlings'[h] = handlings[h]
    BY <2>1, Appended DEF Typed
  <2>3. \A j \in DOMAIN sent : Failed(j) => Failed(j)'
    BY <1>1, <2>2, FailureLasts
  <2> QED
    BY <1>1, <2>1, <2>3, FailureSame
<1>3. CASE ~Decodes(i)
  <2>1. /\ handlings' = handlings
        /\ wire' = IF e.kind \in Rpc
                   THEN [wire EXCEPT ![i] = [outcome |-> "error", text |-> OuterText]] ELSE wire
    BY <1>3 DEF Deliver
  <2>2. \A j \in DOMAIN sent : Failed(j) => Failed(j)'
    BY <1>1, <2>1, FailureLasts
  <2>3. Failed(i)'
    BY <1>1, <1>3 DEF Failed, Decodes
  <2>4. Nothing.outcome # "exception"
    BY DEF Nothing
  <2>5. CASE e.kind \in Rpc
    BY <1>1, <2>1, <2>2, <2>3, <2>4, <2>5, FailureSet
  <2>6. CASE e.kind \notin Rpc
    BY <1>1, <2>1, <2>2, <2>6, FailureSame
  <2> QED
    BY <2>5, <2>6
<1> QED
  BY <1>2, <1>3

LEMMA HandlerEndsFailure ==
  ASSUME IInv, FailureInv, NEW h \in DOMAIN handlings, NEW ok \in BOOLEAN, HandlerEnds(h, ok)
  PROVE  FailureInv'
<1> USE DEF IInv
<1> PICK i \in DOMAIN sent : i = handlings[h].msg
  BY DEF Typed
<1> DEFINE r == [handlings[h] EXCEPT !.state = IF ok THEN "ok" ELSE "failed"]
           v == IF ok THEN Value ELSE [outcome |-> "error", text |-> ServerText]
<1>1. /\ UNCHANGED <<app, sent, told>> /\ handlings[h].state = "running"
      /\ handlings' = [handlings EXCEPT ![h] = r]
      /\ wire' = IF handlings[h].kind \notin Rpc THEN wire ELSE [wire EXCEPT ![i] = v]
  BY DEF HandlerEnds
<1>2. DOMAIN handlings[h] = HandlingFields
  BY DEF Typed
<1>3. r.msg = i /\ r.state = IF ok THEN "ok" ELSE "failed"
  BY <1>2 DEF HandlingFields
<1>4. v.outcome = "error" => ~ok
  BY DEF Value
<1> HIDE DEF r, v
<1>5. /\ DOMAIN handlings' = DOMAIN handlings /\ handlings'[h] = r
      /\ \A k \in DOMAIN handlings \ {h} : handlings'[k] = handlings[k]
  BY <1>1
<1>6. \A j \in DOMAIN sent : Failed(j) => Failed(j)'
  BY <1>1, <1>3, <1>5, FailureLasts
<1>7. v.outcome = "error" => Failed(i)'
  BY <1>3, <1>4, <1>5 DEF Failed, Refused
<1>8. CASE handlings[h].kind \in Rpc
  <2>1. wire' = [wire EXCEPT ![i] = v] /\ Nothing.outcome # "exception"
    BY <1>1, <1>8 DEF Nothing
  <2> QED
    BY <1>1, <1>6, <1>7, <2>1, FailureSet
<1>9. CASE handlings[h].kind \notin Rpc
  BY <1>1, <1>6, <1>9, FailureSame
<1> QED
  BY <1>8, <1>9

LEMMA AnsweredFailure ==
  ASSUME IInv, FailureInv, NEW i \in DOMAIN sent, CacheAnswers(i) \/ Answered(i)
  PROVE  FailureInv'
<1> USE DEF IInv
<1>1. UNCHANGED <<app, sent, handlings>>
  BY DEF CacheAnswers, Answered, ReplyArrives, TransportFails
<1>2. \A j \in DOMAIN sent : Failed(j) <=> Failed(j)'
  BY <1>1 DEF Failed, Refused, Decodes
<1>3. /\ Nothing.outcome = "none" /\ Value.outcome = "value"
      /\ \A class, text : Exception(class, text).class = class
  BY DEF Nothing, Value, Exception
<1>4. CASE CacheAnswers(i)
  <2>1. wire' = [wire EXCEPT ![i] = Value] /\ told' = told
    BY <1>4 DEF CacheAnswers
  <2> QED
    BY <1>1, <1>2, <1>3, <2>1, FailureSet
<1>5. CASE ReplyArrives(i)
  <2> DEFINE w == IF wire[i].outcome = "error" THEN Exception("HANDLER_ERROR", wire[i].text)
                  ELSE IF app.server.codec = app.client.codec THEN Value
                  ELSE Exception("SerializationError", "detail")
  <2>1. wire' = wire /\ told' = [told EXCEPT ![i] = w]
    BY <1>5 DEF ReplyArrives
  <2>2. w.outcome = "exception" /\ w.class = "HANDLER_ERROR" => wire[i].outcome = "error"
    BY <1>3
  <2>3. w.outcome = "exception" /\ w.class = "HANDLER_ERROR" => Failed(i)'
    BY <1>2, <2>2, InIds DEF FailureInv
  <2> HIDE DEF w
  <2> QED
    BY <1>1, <1>2, <1>3, <2>1, <2>3, FailureSet
<1>6. ASSUME NEW class \in app.failures, TransportFails(i, class) PROVE FailureInv'
  <2>1. wire' = wire /\ told' = [told EXCEPT ![i] = Exception(class, "detail")]
    BY <1>6 DEF TransportFails
  <2>2. Exception(class, "detail").class # "HANDLER_ERROR"
    BY <1>3, AppsAssumption DEF Typed
  <2> QED
    BY <1>1, <1>2, <1>3, <2>1, <2>2, FailureSet
<1> QED
  BY <1>4, <1>5, <1>6 DEF Answered

LEMMA FailureStep == IInv /\ FailureInv /\ [Next]_vars => FailureInv'
<1> SUFFICES ASSUME IInv, FailureInv, [Next]_vars PROVE FailureInv'
  OBVIOUS
<1>1. CASE UNCHANGED vars \/ StartUp \/ ProxyConnects
  <2>1. UNCHANGED <<app, sent, handlings, wire, told>>
    BY <1>1 DEF vars, StartUp, ServerConnects, ServerTraces, OtelLoads, ProxyConnects
  <2> QED
    BY <2>1, FailureLasts, FailureSame
<1>2. ASSUME NEW by \in {0} \cup DOMAIN handlings, NEW s \in app.sends, NEW span \in BOOLEAN,
             Publish(by, s, span)
      PROVE  FailureInv'
  <2>1. PICK m : sent' = Append(sent, m)
    BY <1>2 DEF Publish
  <2>2. UNCHANGED <<app, handlings, wire, told>>
    BY <1>2 DEF Publish
  <2>3. \A i \in DOMAIN sent : i \in DOMAIN sent' /\ sent'[i] = sent[i]
    BY <2>1, Appended DEF IInv, Typed
  <2> QED
    BY <2>2, <2>3, FailureLasts, FailureSame
<1>3. ASSUME NEW i \in DOMAIN sent, Receive(i) PROVE FailureInv'
  BY <1>3, DeliverFailure DEF Receive
<1>4. ASSUME NEW i \in DOMAIN sent, CacheAnswers(i) \/ Answered(i) PROVE FailureInv'
  BY <1>4, AnsweredFailure
<1>5. ASSUME NEW h \in DOMAIN handlings, NEW ok \in BOOLEAN, HandlerEnds(h, ok)
      PROVE  FailureInv'
  BY <1>5, HandlerEndsFailure
<1> QED
  BY <1>1, <1>2, <1>3, <1>4, <1>5 DEF Next

\* A requester is told of no success that did not happen, of no failing handler
\* where none failed, and of no text it may not read (executeCommand,
\* mapToRpcException).
THEOREM RequestersAreToldTheTruth == Spec => []ToldTheTruth
<1>0. Init => FailureInv
  BY DEF Init, FailureInv, Nothing
<1>1. IInv /\ FailureInv /\ [Next]_vars => FailureInv'
  BY FailureStep
<1>2. IInv /\ FailureInv => ToldTheTruth
  <2> SUFFICES ASSUME IInv, FailureInv, NEW i \in DOMAIN sent
               PROVE  /\ told[i] = Value => Succeeded(i)
                      /\ wire[i].outcome = "error" /\ wire[i].text = "detail" => app.server.verbose
                      /\ told[i].outcome = "exception" =>
                           /\ told[i].text = "detail" => app.client.verbose
                           /\ told[i].class = "HANDLER_ERROR" => Refused(i) \/ ~Decodes(i)
    BY DEF ToldTheTruth, Succeeded
  <2>1. i \in Ids
    BY InIds DEF IInv
  <2>2. wire[i].outcome = "error" /\ wire[i].text = "detail" => app.server.verbose
    <3>1. wire[i].outcome = "error" => ErrorOnWire(wire[i])
      BY <2>1, Outcomes DEF IInv, WireInv
    <3> QED
      BY <3>1 DEF ErrorOnWire
  <2>3. ASSUME NEW class, NEW text, told[i] = Exception(class, text)
        PROVE  told[i].outcome = "exception" /\ told[i].text = ClientText(text)
    BY <2>3 DEF Exception
  <2>4. ASSUME NEW text, ClientText(text) = "detail" PROVE app.client.verbose
    BY <2>4 DEF ClientText
  <2>5. told[i] = Value => Succeeded(i)
    BY <2>1, <2>3, Outcomes DEF IInv, ToldInv
  <2>6. ASSUME told[i].outcome = "exception"
        PROVE  told[i].text = "detail" => app.client.verbose
    <3>1. PICK class, text : told[i] = Exception(class, text)
      BY <2>1, <2>6, Outcomes DEF IInv, ToldInv
    <3> QED
      BY <2>3, <2>4, <3>1
  <2>7. told[i].outcome = "exception" /\ told[i].class = "HANDLER_ERROR" =>
          Refused(i) \/ ~Decodes(i)
    BY <2>1 DEF FailureInv, Failed
  <2> QED
    BY <2>2, <2>5, <2>6, <2>7
<1> QED
  BY <1>0, <1>1, <1>2, AlwaysIInv, PTL DEF Spec

-----------------------------------------------------------------------------
(* Who hears a message *)

\* The server has none of its subscriptions or all, and those stay.
SubsInv == subs \in {{}, Entries(app.handlers)}

\* A message is what the proxy made of a send of the application's.
SentInv ==
  \A i \in DOMAIN sent :
    LET m == sent[i]
        metadata == ExtractPacketMetadata(m.send.record)
    IN  /\ m.send \in app.sends
        /\ m.kind = KindOf(m.send.op, metadata)
        /\ m.channel = ApplyPrefix(app.client.prefix, m.send.channel)
        /\ m.policy = PolicyOf(app.client, metadata)

\* Only queue messages are moved, and to the queue of their own policy.
ReroutedInv ==
  /\ rerouted = [i \in Ids |-> rerouted[i]]
  /\ \A i \in Ids :
       rerouted[i] # None =>
         /\ i \in DOMAIN sent /\ sent[i].kind = "queue"
         /\ rerouted[i] = DeadLetterQueue(sent[i].policy)

\* What is handled has come through a subscription that its own channel matches, or
\* its dead letter queue.
HearersInv ==
  \A h \in DOMAIN handlings :
    LET m == sent[handlings[h].msg]
        dead == DeadLetterQueue(m.policy)
    IN  \E e \in Entries(app.handlers) :
          /\ e.names = handlings[h].names
          /\ \/ Matches(e, m.kind, m.channel)
             \/ m.kind = "queue" /\ dead # None /\ Matches(e, m.kind, dead)

RoutesInv == SubsInv /\ SentInv /\ ReroutedInv /\ HearersInv

\* A step that sends, delivers and moves nothing.
LEMMA RoutesSame ==
  ASSUME IInv, RoutesInv, SubsInv', UNCHANGED <<app, sent, rerouted>>,
         handlings' = handlings
  PROVE  RoutesInv'
<1>1. SentInv' /\ ReroutedInv'
  BY DEF RoutesInv, SentInv, ReroutedInv
<1>2. HearersInv'
  BY DEF RoutesInv, HearersInv
<1> QED
  BY <1>1, <1>2 DEF RoutesInv

LEMMA PublishRoutes ==
  ASSUME IInv, RoutesInv, NEW by \in {0} \cup DOMAIN handlings, NEW s \in app.sends,
         NEW span \in BOOLEAN, Publish(by, s, span)
  PROVE  RoutesInv'
<1> DEFINE m == Wired(by, s, own[s], Active(by, span))
           n == Len(sent) + 1
<1> USE DEF IInv, RoutesInv
<1>1. UNCHANGED <<app, subs, handlings, rerouted>> /\ sent' = Append(sent, m)
  BY DEF Publish
<1>2. LET metadata == ExtractPacketMetadata(s.record)
      IN  /\ m.send = s /\ m.kind = KindOf(s.op, metadata)
          /\ m.channel = ApplyPrefix(app.client.prefix, s.channel)
          /\ m.policy = PolicyOf(app.client, metadata)
  BY DEF Wired
<1> HIDE DEF m
<1>3. /\ DOMAIN sent' = DOMAIN sent \cup {n} /\ sent'[n] = m /\ n \notin DOMAIN sent
      /\ \A i \in DOMAIN sent : sent'[i] = sent[i]
  BY <1>1, Appended DEF Typed
<1> HIDE DEF n
<1>4. SubsInv'
  BY <1>1 DEF SubsInv
<1>5. SentInv'
  <2>1. m.send \in app.sends
    BY <1>2
  <2> QED
    BY <1>1, <1>2, <1>3, <2>1 DEF SentInv
<1>6. ReroutedInv'
  BY <1>1, <1>3 DEF ReroutedInv
<1>7. HearersInv'
  BY <1>1, <1>3 DEF HearersInv, Typed
<1> QED
  BY <1>4, <1>5, <1>6, <1>7

LEMMA DeliverRoutes ==
  ASSUME IInv, RoutesInv, NEW i \in DOMAIN sent, NEW e \in subs, Deliver(i, e)
  PROVE  RoutesInv'
<1> USE DEF IInv, RoutesInv
<1>1. UNCHANGED <<app, subs, sent, rerouted>> /\ Matches(e, sent[i].kind, Channel(i))
  BY DEF Deliver, Reaches
<1>2. ASSUME Decodes(i) PROVE RoutesInv'
  <2> DEFINE r == [msg |-> i, names |-> e.names, kind |-> e.kind, store |-> CreateFromTags(i),
                   active |-> ExtractContext(sent[i].tags), loaded |-> otel = "loaded",
                   thread |-> IF sent[i].thread = None THEN Uuid(Len(handlings) + 1)
                              ELSE sent[i].thread,
                   state |-> "running"]
             n == Len(handlings) + 1
  <2>1. handlings' = Append(handlings, r)
    BY <1>2 DEF Deliver
  <2>2. r.msg = i /\ r.names = e.names
    OBVIOUS
  <2> HIDE DEF r
  <2>3. /\ DOMAIN handlings' = DOMAIN handlings \cup {n} /\ handlings'[n] = r
        /\ \A h \in DOMAIN handlings : handlings'[h] = handlings[h]
    BY <2>1, Appended DEF Typed
  <2>4. e \in Entries(app.handlers)
    BY DEF SubsInv
  <2>5. \/ Matches(e, sent[i].kind, sent[i].channel)
        \/ /\ sent[i].kind = "queue" /\ DeadLetterQueue(sent[i].policy) # None
           /\ Matches(e, sent[i].kind, DeadLetterQueue(sent[i].policy))
    BY <1>1, InIds DEF Channel, ReroutedInv
  <2>6. HearersInv'
    BY <1>1, <2>2, <2>3, <2>4, <2>5 DEF HearersInv
  <2> QED
    BY <1>1, <2>6 DEF SubsInv, SentInv, ReroutedInv
<1>3. ASSUME ~Decodes(i) PROVE RoutesInv'
  BY <1>1, <1>3, RoutesSame DEF Deliver, SubsInv
<1> QED
  BY <1>2, <1>3

LEMMA HandlerEndsRoutes ==
  ASSUME IInv, RoutesInv, NEW h \in DOMAIN handlings, NEW ok \in BOOLEAN, HandlerEnds(h, ok)
  PROVE  RoutesInv'
<1> USE DEF IInv, RoutesInv
<1> PICK i \in DOMAIN sent : i = handlings[h].msg
  BY DEF Typed
<1> DEFINE r == [handlings[h] EXCEPT !.state = IF ok THEN "ok" ELSE "failed"]
<1>1. UNCHANGED <<app, subs, sent>> /\ handlings' = [handlings EXCEPT ![h] = r]
  BY DEF HandlerEnds
<1>2. DOMAIN handlings[h] = HandlingFields /\ IsSeq(handlings)
  BY DEF Typed
<1>3. r.msg = i /\ r.names = handlings[h].names
  BY <1>2 DEF HandlingFields
<1> HIDE DEF r
<1>4. /\ DOMAIN handlings' = DOMAIN handlings
      /\ \A k \in DOMAIN handlings : /\ handlings'[k].msg = handlings[k].msg
                                     /\ handlings'[k].names = handlings[k].names
  BY <1>1, <1>3
<1>5. HearersInv'
  BY <1>1, <1>4 DEF HearersInv
<1>6. ReroutedInv'
  <2>1. CASE handlings[h].kind = "queue" /\ ~ok /\ rerouted[i] = None
    <3>1. rerouted' = [rerouted EXCEPT ![i] = DeadLetterQueue(sent[i].policy)]
      BY <2>1 DEF HandlerEnds
    <3>2. sent[i].kind = "queue"
      BY <2>1 DEF LabelsAgree
    <3> QED
      BY <1>1, <3>1, <3>2, InIds DEF ReroutedInv
  <2>2. CASE ~(handlings[h].kind = "queue" /\ ~ok /\ rerouted[i] = None)
    BY <1>1, <2>2 DEF HandlerEnds, ReroutedInv
  <2> QED
    BY <2>1, <2>2
<1> QED
  BY <1>1, <1>5, <1>6 DEF SubsInv, SentInv

LEMMA RoutesStep == IInv /\ RoutesInv /\ [Next]_vars => RoutesInv'
<1> SUFFICES ASSUME IInv, RoutesInv, [Next]_vars PROVE RoutesInv'
  OBVIOUS
<1>1. CASE UNCHANGED vars
  BY <1>1, RoutesSame DEF vars, RoutesInv, SubsInv
<1>2. CASE StartUp \/ ProxyConnects
  <2>1. UNCHANGED <<app, sent, rerouted, handlings>>
    BY <1>2 DEF StartUp, ServerConnects, ServerTraces, OtelLoads, ProxyConnects
  <2>2. SubsInv'
    BY <1>2 DEF StartUp, ServerConnects, ServerTraces, OtelLoads, ProxyConnects, BindAll,
                RoutesInv, SubsInv
  <2> QED
    BY <2>1, <2>2, RoutesSame
<1>3. ASSUME NEW by \in {0} \cup DOMAIN handlings, NEW s \in app.sends, NEW span \in BOOLEAN,
             Publish(by, s, span)
      PROVE  RoutesInv'
  BY <1>3, PublishRoutes
<1>4. ASSUME NEW i \in DOMAIN sent, Receive(i) PROVE RoutesInv'
  BY <1>4, DeliverRoutes DEF Receive
<1>5. ASSUME NEW i \in DOMAIN sent, CacheAnswers(i) \/ Answered(i) PROVE RoutesInv'
  <2>1. UNCHANGED <<app, subs, sent, rerouted, handlings>>
    BY <1>5 DEF CacheAnswers, Answered, ReplyArrives, TransportFails
  <2> QED
    BY <2>1, RoutesSame DEF RoutesInv, SubsInv
<1>6. ASSUME NEW h \in DOMAIN handlings, NEW ok \in BOOLEAN, HandlerEnds(h, ok) PROVE RoutesInv'
  BY <1>6, HandlerEndsRoutes
<1> QED
  BY <1>1, <1>2, <1>3, <1>4, <1>5, <1>6 DEF Next

\* Whatever an application sends, however its messages interleave with the start of
\* its server, with refusals and the dead letter queue: they are heard by those they
\* are meant for, as what they are meant to be, if the wiring of its sends and
\* handlers says so (publish, bindHandler).
THEOREM WiringDecides == Spec => [](WiredAsMeant(app) => DeliveredAsMeant)
<1>1. Init => RoutesInv
  <2> SUFFICES ASSUME Init PROVE RoutesInv
    OBVIOUS
  <2>1. DOMAIN sent = {} /\ DOMAIN handlings = {}
    BY EmptySeq, SeqFacts, InitIInv DEF Init, IInv, Typed
  <2> QED
    BY <2>1 DEF Init, RoutesInv, SubsInv, SentInv, ReroutedInv, HearersInv
<1>2. IInv /\ RoutesInv /\ [Next]_vars => RoutesInv'
  BY RoutesStep
<1>3. IInv /\ RoutesInv => (WiredAsMeant(app) => DeliveredAsMeant)
  <2> SUFFICES ASSUME IInv, RoutesInv, WiredAsMeant(app) PROVE DeliveredAsMeant
    OBVIOUS
  <2> USE DEF IInv, RoutesInv
  <2>1. \A i \in DOMAIN sent : sent[i].kind = sent[i].send.kind
    BY DEF SentInv, WiredAsMeant
  <2>2. ASSUME NEW h \in DOMAIN handlings
        PROVE  LET m == sent[handlings[h].msg]
               IN  /\ m.tags[TYPE] = handlings[h].kind /\ m.tags[TYPE] = m.send.kind
                   /\ m.tags[PATTERN] = m.channel
                   /\ m.tags[CONTENT] = app.server.codec
    BY <2>1 DEF LabelsAgree, Typed
  <2>3. ASSUME NEW h \in DOMAIN handlings
        PROVE  LET m == sent[handlings[h].msg]
               IN  handlings[h].names \subseteq m.send.for \cup m.send.dead
    <3> DEFINE m == sent[handlings[h].msg]
               dead == DeadLetterQueue(m.policy)
    <3>1. PICK e \in Entries(app.handlers) :
            /\ e.names = handlings[h].names
            /\ \/ Matches(e, m.kind, m.channel)
               \/ m.kind = "queue" /\ dead # None /\ Matches(e, m.kind, dead)
      BY DEF HearersInv
    <3>2. /\ m.send \in app.sends
          /\ m.kind = KindOf(m.send.op, ExtractPacketMetadata(m.send.record))
          /\ m.channel = ApplyPrefix(app.client.prefix, m.send.channel)
          /\ m.policy = PolicyOf(app.client, ExtractPacketMetadata(m.send.record))
      BY DEF SentInv, Typed
    <3> HIDE DEF m
    <3>3. /\ Matches(e, m.kind, m.channel) => e.names \subseteq m.send.for
          /\ m.kind = "queue" /\ dead # None /\ Matches(e, m.kind, dead) =>
               e.names \subseteq m.send.dead
      BY <3>2 DEF WiredAsMeant
    <3> QED
      BY <3>1, <3>3 DEF m
  <2>4. \A i \in DOMAIN sent : NamesOf(i) \subseteq sent[i].send.for \cup sent[i].send.dead
    BY <2>3 DEF NamesOf
  <2> QED
    BY <2>2, <2>4 DEF DeliveredAsMeant
<1> QED
  BY <1>1, <1>2, <1>3, AlwaysIInv, PTL DEF Spec

=============================================================================
