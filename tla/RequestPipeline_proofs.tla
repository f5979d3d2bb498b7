------------------------ MODULE RequestPipeline_proofs ------------------------
(***************************************************************************)
(* Theorems about RequestPipeline, for any set of messages and any number  *)
(* of retries: what requesters are told, which messages leave a dead       *)
(* letter, what close() waits for, and that the retry loop implements      *)
(* RetryPolicy.                                                            *)
(***************************************************************************)
EXTENDS RequestPipeline, TLAPS

\* Where a message can be, and what may go wrong on its way.
PhaseOf == {"idle", "validating", "handling", "refusing", "burying", "answering",
            "apologizing", "done"}
FaultOf == {"send", "letter", "body"}

\* What has become of a message is known as soon as its handler is through with it.
FateInv(m) == fate[m] = "open" <=> phase[m] \in {"idle", "validating", "handling"}

\* The retry loop counts its tries, and ends with the last one.
TriesInv(m) ==
  /\ phase[m] \in {"idle", "validating"} => attempt[m] = 0
  /\ phase[m] = "handling" => attempt[m] <= MaxRetries
  /\ fate[m] = "given up" => attempt[m] = MaxRetries + 1

\* Only requests are answered, and a letter is written for who lost its message.
PlaceInv(m) ==
  /\ phase[m] \in {"answering", "apologizing"} => m \in Requests
  /\ phase[m] = "refusing" => m \in Events /\ policy.dlq /\ fate[m] = "rejected"
  /\ phase[m] = "burying" => policy.dlq /\ fate[m] = "given up"

Past == {"answering", "apologizing", "done"}
LettersInv(m) ==
  /\ phase[m] \notin Past => letters[m] = 0
  /\ letters[m] <= 1
  /\ letters[m] = 1 => policy.dlq /\ GivenUp(m)
  /\ phase[m] \in Past /\ policy.dlq /\ GivenUp(m) /\ "letter" \notin faults[m] => letters[m] = 1

AnswersInv(m) ==
  /\ phase[m] \notin {"apologizing", "done"} => Len(answers[m]) = 0
  /\ phase[m] = "apologizing" =>
       /\ Len(answers[m]) <= 1
       /\ Len(answers[m]) = 1 => "send" \in faults[m]
       /\ faults[m] = {} => fate[m] # "handled"
  /\ \A i \in 1 .. Len(answers[m]) : answers[m][i] => fate[m] = "handled"
  /\ Len(answers[m]) <= 2
  /\ Len(answers[m]) = 2 => ~answers[m][2] /\ "send" \in faults[m]
  /\ phase[m] = "done" /\ m \in Requests /\ "send" \notin faults[m] => Len(answers[m]) >= 1
  /\ phase[m] = "done" /\ m \in Requests /\ faults[m] = {} =>
       Len(answers[m]) = 1 /\ (answers[m][1] <=> fate[m] = "handled")

MsgInv(m) == FateInv(m) /\ TriesInv(m) /\ PlaceInv(m) /\ LettersInv(m) /\ AnswersInv(m)

\* drain waits for messages that have come in, and close() goes on when they are done.
DrainInv ==
  /\ status = "up" => draining = {}
  /\ \A m \in draining : phase[m] # "idle"
  /\ status \in {"closing", "closed"} /\ ~timedOut => \A m \in draining : phase[m] = "done"

IInv == TypeOK /\ (\A m \in Messages : MsgInv(m)) /\ DrainInv

\* The number of retries is a number.
LEMMA RetriesType == TypeOK => MaxRetries \in Nat
  BY PipelineAssumption DEF TypeOK, MaxRetries

\* Every message is a request or an event.
LEMMA Kinds == TypeOK => \A m \in Messages : m \in Requests <=> m \notin Events
  BY PipelineAssumption DEF TypeOK, Requests, Events, OnChannel, Channels

\* A message that a step leaves alone keeps its part of the invariant.
LEMMA OthersKeep ==
  ASSUME IInv, NEW n \in Messages, policy' = policy,
         phase'[n] = phase[n], attempt'[n] = attempt[n], answers'[n] = answers[n],
         letters'[n] = letters[n], fate'[n] = fate[n], faults'[n] = faults[n]
  PROVE  MsgInv(n)'
<1> USE DEF MaxRetries, Requests, Events, OnChannel
<1>1. MsgInv(n)
  BY DEF IInv
<1>2. FateInv(n)' /\ TriesInv(n)' /\ PlaceInv(n)'
  BY <1>1 DEF MsgInv, FateInv, TriesInv, PlaceInv
<1>3. LettersInv(n)'
  BY <1>1 DEF MsgInv, LettersInv, GivenUp
<1>4. AnswersInv(n)'
  BY <1>1 DEF MsgInv, AnswersInv
<1> QED
  BY <1>2, <1>3, <1>4 DEF MsgInv

\* Responding moves a message on, and notes the fault if the client is gone.
LEMMA RespondType ==
  ASSUME TypeOK, NEW m \in Messages, NEW next \in PhaseOf, NEW S \in SUBSET FaultOf,
         Respond(m, next, S)
  PROVE  \E p \in {next, "done"}, T \in SUBSET FaultOf :
           /\ phase' = [phase EXCEPT ![m] = p] /\ faults' = [faults EXCEPT ![m] = @ \cup T]
           /\ S \subseteq T /\ T \subseteq S \cup {"send"}
           /\ p = next \/ "send" \in T
<1>1. S \cup {"send"} \in SUBSET FaultOf
  BY DEF FaultOf
<1>2. CASE HasClient
  BY <1>2 DEF Respond, GoTo, Note
<1>3. CASE ~HasClient
  BY <1>1, <1>3 DEF Respond, GoTo, Note
<1> QED
  BY <1>2, <1>3

\* So does a throw of executeWithMiddleware: a request is answered, an event done with.
LEMMA ThrowsType ==
  ASSUME TypeOK, NEW m \in Messages, NEW S \in SUBSET FaultOf, Throws(m, S)
  PROVE  \E p \in {"answering", "done"}, T \in SUBSET FaultOf :
           /\ phase' = [phase EXCEPT ![m] = p] /\ faults' = [faults EXCEPT ![m] = @ \cup T]
           /\ S \subseteq T /\ T \subseteq S \cup {"send"}
           /\ p = "answering" => m \in Requests
           /\ p = "done" /\ m \in Requests => "send" \in T
<1>1. CASE m \in Requests
  <2>1. Respond(m, "answering", S) /\ "answering" \in PhaseOf
    BY <1>1 DEF Throws, PhaseOf
  <2> QED
    BY <1>1, <2>1, RespondType
<1>2. CASE m \notin Requests
  BY <1>2 DEF Throws, GoTo, Note
<1> QED
  BY <1>1, <1>2

\* Routing to the dead letter queue: its send is awaited, or there is no client.
LEMMA ToDlqType ==
  ASSUME TypeOK, NEW m \in Messages, NEW next \in PhaseOf, ToDlq(m, next)
  PROVE  \E p \in {next, "answering", "done"}, T \in SUBSET FaultOf :
           /\ phase' = [phase EXCEPT ![m] = p] /\ faults' = [faults EXCEPT ![m] = @ \cup T]
           /\ "body" \notin T
           /\ \/ p = next
              \/ /\ "letter" \in T
                 /\ (p = "answering" /\ m \in Requests) \/ p = "done"
                 /\ p = "done" /\ m \in Requests => "send" \in T
<1>1. {} \in SUBSET FaultOf /\ {"letter"} \in SUBSET FaultOf
  BY DEF FaultOf
<1>2. CASE HasClient
  BY <1>1, <1>2 DEF ToDlq, GoTo, Note
<1>3. CASE ~HasClient
  <2>1. Throws(m, {"letter"})
    BY <1>3 DEF ToDlq
  <2> HIDE DEF FaultOf
  <2> QED
    BY <1>1, <2>1, ThrowsType
<1> QED
  BY <1>2, <1>3

\* A request that cannot be read is answered by the outer catch block.
LEMMA UnreadableType ==
  ASSUME TypeOK, NEW m \in Messages, NEW S \in SUBSET FaultOf,
         IF m \in Requests THEN Respond(m, "apologizing", S)
                           ELSE GoTo(m, "done") /\ Note(m, S)
  PROVE  \E p \in {"apologizing", "done"}, T \in SUBSET FaultOf :
           /\ phase' = [phase EXCEPT ![m] = p] /\ faults' = [faults EXCEPT ![m] = @ \cup T]
           /\ "body" \in T => "body" \in S
           /\ p = "apologizing" => m \in Requests
           /\ p = "done" /\ m \in Requests => "send" \in T
<1>1. CASE m \in Requests
  <2>1. Respond(m, "apologizing", S) /\ "apologizing" \in PhaseOf
    BY <1>1 DEF PhaseOf
  <2> QED
    BY <1>1, <2>1, RespondType
<1>2. CASE m \notin Requests
  BY <1>2 DEF GoTo, Note
<1> QED
  BY <1>1, <1>2

\* Success clears errors and makes none.
LEMMA ErrorsAfterType ==
  ASSUME NEW m, NEW returned \in BOOLEAN
  PROVE  ErrorsAfter(m, returned) \subseteq subErrors
  BY DEF ErrorsAfter

\* Appending to the answers.
LEMMA AppendAnswer ==
  ASSUME NEW s \in Seq(BOOLEAN), NEW e \in BOOLEAN
  PROVE  /\ Append(s, e) \in Seq(BOOLEAN) /\ Len(Append(s, e)) = Len(s) + 1
         /\ Append(s, e)[Len(s) + 1] = e
         /\ \A i \in 1 .. Len(s) : Append(s, e)[i] = s[i]
  OBVIOUS

\* A response that reaches the broker is one answer more.
LEMMA TakesType ==
  ASSUME TypeOK, NEW m \in Messages, NEW executed \in BOOLEAN, NEW reached \in BOOLEAN,
         Takes(m, executed, reached)
  PROVE  /\ answers' \in [Messages -> Seq(BOOLEAN)] /\ Len(answers[m]) \in Nat
         /\ \A n \in Messages \ {m} : answers'[n] = answers[n]
         /\ ~reached => answers'[m] = answers[m]
         /\ reached => /\ Len(answers'[m]) = Len(answers[m]) + 1
                       /\ answers'[m][Len(answers[m]) + 1] = executed
                       /\ \A i \in 1 .. Len(answers[m]) : answers'[m][i] = answers[m][i]
<1>1. answers[m] \in Seq(BOOLEAN) /\ answers \in [Messages -> Seq(BOOLEAN)]
  BY DEF TypeOK
<1>2. CASE reached
  <2>1. answers' = [answers EXCEPT ![m] = Append(answers[m], executed)]
    BY <1>2 DEF Takes
  <2>2. answers'[m] = Append(answers[m], executed)
    BY <1>1, <2>1
  <2> QED
    BY <1>1, <1>2, <2>1, <2>2, AppendAnswer
<1>3. CASE ~reached
  BY <1>1, <1>3 DEF Takes
<1> QED
  BY <1>2, <1>3

\* A message that nothing has been answered for, and that stays so.
LEMMA Unanswered ==
  ASSUME NEW m \in Messages, Len(answers[m]) = 0, answers'[m] = answers[m],
         phase'[m] = "apologizing" /\ faults'[m] = {} => fate'[m] # "handled",
         phase'[m] = "done" /\ m \in Requests' => "send" \in faults'[m]
  PROVE  AnswersInv(m)'
  BY DEF AnswersInv

\* A message that one response has been sent for.
LEMMA AnsweredOnce ==
  ASSUME NEW m \in Messages, NEW e \in BOOLEAN, Len(answers'[m]) = 1, answers'[m][1] = e,
         e <=> fate'[m] = "handled", phase'[m] \in {"apologizing", "done"},
         phase'[m] = "apologizing" => "send" \in faults'[m]
  PROVE  AnswersInv(m)'
<1>1. \A i \in 1 .. Len(answers'[m]) : i = 1
  OBVIOUS
<1>2. \A i \in 1 .. Len(answers'[m]) : answers'[m][i] => fate'[m] = "handled"
  BY <1>1, Zenon
<1>3. answers'[m][1] <=> fate'[m] = "handled"
  BY Zenon
<1>4. phase'[m] = "apologizing" => faults'[m] # {}
  OBVIOUS
<1> QED
  BY <1>2, <1>3, <1>4 DEF AnswersInv

\* Counting one answer more.
LEMMA OneMore ==
  ASSUME NEW n \in Nat, NEW k, k = n + 1
  PROVE  (k = 2 => n + 1 = 2 /\ n = 1) /\ (n <= 1 /\ n # 1 => n = 0)
  OBVIOUS

\* A positive response is the last one, unless its sending has failed.
LEMMA AnsweredNegatively ==
  ASSUME NEW m \in Messages, AnswersInv(m), phase[m] = "apologizing",
         fate'[m] = fate[m], phase'[m] = "done",
         Len(answers[m]) \in Nat, Len(answers'[m]) = Len(answers[m]) + 1,
         answers'[m][Len(answers[m]) + 1] = FALSE,
         \A i \in 1 .. Len(answers[m]) : answers'[m][i] = answers[m][i],
         faults[m] \subseteq faults'[m]
  PROVE  AnswersInv(m)'
<1>1. \A i \in 1 .. Len(answers'[m]) : i \in 1 .. Len(answers[m]) \/ i = Len(answers[m]) + 1
  OBVIOUS
<1>2. \A i \in 1 .. Len(answers[m]) : answers[m][i] => fate[m] = "handled"
  BY DEF AnswersInv
<1>3. \A i \in 1 .. Len(answers'[m]) : answers'[m][i] => fate'[m] = "handled"
  BY <1>1, <1>2, Zenon
<1>4. Len(answers[m]) <= 1 /\ (Len(answers[m]) = 1 => "send" \in faults[m])
  BY DEF AnswersInv
<1>5. Len(answers'[m]) <= 2 /\ Len(answers'[m]) >= 1
  BY <1>4
<1>6. Len(answers'[m]) = 2 => Len(answers[m]) + 1 = 2 /\ "send" \in faults'[m]
  <2>1. "send" \in faults[m] => "send" \in faults'[m]
    OBVIOUS
  <2>2. Len(answers'[m]) = 2 => Len(answers[m]) + 1 = 2 /\ Len(answers[m]) = 1
    BY OneMore, Zenon
  <2> QED
    BY <1>4, <2>1, <2>2, Zenon
<1>7. Len(answers'[m]) = 2 => ~answers'[m][2]
  BY <1>6, Zenon
<1>8. faults'[m] = {} => Len(answers[m]) + 1 = 1 /\ Len(answers'[m]) = 1 /\ fate'[m] # "handled"
  <2>1. faults'[m] = {} => faults[m] = {} /\ "send" \notin faults[m]
    OBVIOUS
  <2>2. faults'[m] = {} => Len(answers[m]) = 0
    BY <1>4, <2>1, OneMore, Zenon
  <2>3. faults'[m] = {} => fate[m] # "handled"
    BY <2>1 DEF AnswersInv
  <2>4. Len(answers[m]) = 0 => Len(answers[m]) + 1 = 1 /\ Len(answers'[m]) = 1
    OBVIOUS
  <2> QED
    BY <2>2, <2>3, <2>4, Zenon
<1>9. faults'[m] = {} => (answers'[m][1] <=> fate'[m] = "handled")
  BY <1>8, Zenon
<1> QED
  BY <1>3, <1>5, <1>6, <1>7, <1>8, <1>9 DEF AnswersInv

\* A message arrives and can be read.
LEMMA ReceiveIInv ==
  ASSUME IInv, NEW m \in Messages, Receive(m)
  PROVE  IInv'
<1>1. TypeOK /\ MsgInv(m) /\ DrainInv /\ MaxRetries \in Nat
  BY RetriesType DEF IInv
<1>2. /\ UNCHANGED <<policy, status, draining, timedOut, attempt, answers, letters, fate,
                     faults, only, subErrors>>
      /\ phase[m] = "idle" /\ status \in {"up", "draining"}
      /\ \E p \in {"validating", "handling"} : phase' = [phase EXCEPT ![m] = p]
  BY <1>1 DEF Receive, Arrives, GoTo, closing
<1>3. TypeOK'
  <2>1. phase' \in [Messages -> PhaseOf]
    BY <1>1, <1>2 DEF TypeOK, PhaseOf
  <2> QED
    BY <1>1, <1>2, <2>1 DEF TypeOK, PhaseOf, FaultOf
<1>4. \A n \in Messages \ {m} : MsgInv(n)'
  BY <1>1, <1>2, OthersKeep DEF TypeOK
<1>5. MsgInv(m)'
  <2>1. FateInv(m)' /\ TriesInv(m)'
    <3>1. MaxRetries' = MaxRetries
      BY <1>2 DEF MaxRetries
    <3>2. FateInv(m)'
      BY <1>1, <1>2 DEF TypeOK, MsgInv, FateInv
    <3>3. TriesInv(m)'
      BY <1>1, <1>2, <3>1 DEF TypeOK, MsgInv, FateInv, TriesInv
    <3> QED
      BY <3>2, <3>3
  <2>2. PlaceInv(m)'
    BY <1>1, <1>2, Kinds DEF TypeOK, MsgInv, FateInv, PlaceInv, Requests, Events, OnChannel
  <2>3. LettersInv(m)'
    BY <1>1, <1>2, Kinds DEF TypeOK, MsgInv, LettersInv, Past, GivenUp, PlaceInv, FateInv,
       Requests, Events, OnChannel
  <2>4. AnswersInv(m)'
    BY <1>1, <1>2, Unanswered, Kinds DEF TypeOK, MsgInv, AnswersInv, FateInv, PlaceInv,
       Requests, Events, OnChannel
  <2> QED
    BY <2>1, <2>2, <2>3, <2>4 DEF MsgInv
<1>6. DrainInv'
  BY <1>1, <1>2 DEF DrainInv, TypeOK
<1> QED
  BY <1>3, <1>4, <1>5, <1>6 DEF IInv

\* The validation accepts it.
LEMMA ValidatedIInv ==
  ASSUME IInv, NEW m \in Messages, Validated(m)
  PROVE  IInv'
<1>1. TypeOK /\ MsgInv(m) /\ DrainInv /\ MaxRetries \in Nat
  BY RetriesType DEF IInv
<1>2. /\ UNCHANGED <<policy, status, draining, timedOut, attempt, answers, letters, fate,
                     faults, only, subErrors>>
      /\ phase[m] = "validating"
      /\ phase' = [phase EXCEPT ![m] = "handling"]
  BY <1>1 DEF Validated, GoTo, closing
<1>3. TypeOK'
  <2>1. phase' \in [Messages -> PhaseOf]
    BY <1>1, <1>2 DEF TypeOK, PhaseOf
  <2> QED
    BY <1>1, <1>2, <2>1 DEF TypeOK, PhaseOf, FaultOf
<1>4. \A n \in Messages \ {m} : MsgInv(n)'
  BY <1>1, <1>2, OthersKeep DEF TypeOK
<1>5. MsgInv(m)'
  <2>1. FateInv(m)' /\ TriesInv(m)'
    <3>1. MaxRetries' = MaxRetries
      BY <1>2 DEF MaxRetries
    <3>2. FateInv(m)'
      BY <1>1, <1>2 DEF TypeOK, MsgInv, FateInv
    <3>3. TriesInv(m)'
      BY <1>1, <1>2, <3>1 DEF TypeOK, MsgInv, FateInv, TriesInv
    <3> QED
      BY <3>2, <3>3
  <2>2. PlaceInv(m)'
    BY <1>1, <1>2, Kinds DEF TypeOK, MsgInv, FateInv, PlaceInv, Requests, Events, OnChannel
  <2>3. LettersInv(m)'
    BY <1>1, <1>2, Kinds DEF TypeOK, MsgInv, LettersInv, Past, GivenUp, PlaceInv, FateInv,
       Requests, Events, OnChannel
  <2>4. AnswersInv(m)'
    BY <1>1, <1>2, Unanswered, Kinds DEF TypeOK, MsgInv, AnswersInv, FateInv, PlaceInv,
       Requests, Events, OnChannel
  <2> QED
    BY <2>1, <2>2, <2>3, <2>4 DEF MsgInv
<1>6. DrainInv'
  BY <1>1, <1>2 DEF DrainInv, TypeOK
<1> QED
  BY <1>3, <1>4, <1>5, <1>6 DEF IInv

\* The handler fails and is tried again.
LEMMA FailsAgainIInv ==
  ASSUME IInv, NEW m \in Messages, NEW b \in Behaviours, HandlerFailsAgain(m, b)
  PROVE  IInv'
<1>1. TypeOK /\ MsgInv(m) /\ DrainInv /\ MaxRetries \in Nat
  BY RetriesType DEF IInv
<1>2. /\ UNCHANGED <<policy, status, draining, timedOut, phase, answers, letters, fate, faults,
                     only, subErrors>>
      /\ phase[m] = "handling" /\ attempt[m] < MaxRetries
      /\ attempt' = [attempt EXCEPT ![m] = @ + 1]
  BY <1>1 DEF HandlerFailsAgain, closing
<1>3. TypeOK'
  <2>1. attempt' \in [Messages -> Nat]
    BY <1>1, <1>2 DEF TypeOK
  <2> QED
    BY <1>1, <1>2, <2>1 DEF TypeOK, PhaseOf, FaultOf
<1>4. \A n \in Messages \ {m} : MsgInv(n)'
  BY <1>1, <1>2, OthersKeep DEF TypeOK
<1>5. MsgInv(m)'
  <2>1. FateInv(m)' /\ TriesInv(m)'
    <3>1. MaxRetries' = MaxRetries
      BY <1>2 DEF MaxRetries
    <3>2. FateInv(m)'
      BY <1>1, <1>2 DEF TypeOK, MsgInv, FateInv
    <3>3. TriesInv(m)'
      BY <1>1, <1>2, <3>1 DEF TypeOK, MsgInv, FateInv, TriesInv
    <3> QED
      BY <3>2, <3>3
  <2>2. PlaceInv(m)'
    BY <1>1, <1>2, Kinds DEF TypeOK, MsgInv, FateInv, PlaceInv, Requests, Events, OnChannel
  <2>3. LettersInv(m)'
    BY <1>1, <1>2, Kinds DEF TypeOK, MsgInv, LettersInv, Past, GivenUp, PlaceInv, FateInv,
       Requests, Events, OnChannel
  <2>4. AnswersInv(m)'
    BY <1>1, <1>2, Unanswered, Kinds DEF TypeOK, MsgInv, AnswersInv, FateInv, PlaceInv,
       Requests, Events, OnChannel
  <2> QED
    BY <2>1, <2>2, <2>3, <2>4 DEF MsgInv
<1>6. DrainInv'
  BY <1>1, <1>2 DEF DrainInv, TypeOK
<1> QED
  BY <1>3, <1>4, <1>5, <1>6 DEF IInv

\* A message arrives that cannot be read.
LEMMA UndecodableIInv ==
  ASSUME IInv, NEW m \in Messages, ReceiveUndecodable(m)
  PROVE  IInv'
<1>1. TypeOK /\ MsgInv(m) /\ DrainInv /\ MaxRetries \in Nat
  BY RetriesType DEF IInv
<1>2. PICK p \in {"apologizing", "done"}, T \in SUBSET FaultOf :
        /\ phase' = [phase EXCEPT ![m] = p] /\ faults' = [faults EXCEPT ![m] = @ \cup T]
        /\ p = "apologizing" => m \in Requests
        /\ p = "done" /\ m \in Requests => "send" \in T
  BY <1>1, UnreadableType DEF ReceiveUndecodable, FaultOf
<1>3. /\ UNCHANGED <<policy, status, draining, timedOut, attempt, answers, letters, only,
                     subErrors>>
      /\ phase[m] = "idle" /\ status \in {"up", "draining"}
      /\ fate' = [fate EXCEPT ![m] = "undecodable"]
  BY <1>1, <1>2 DEF ReceiveUndecodable, Arrives, GoTo, Note, Decide, closing
<1>4. TypeOK'
  <2>1. phase' \in [Messages -> PhaseOf]
    BY <1>1, <1>2 DEF TypeOK, PhaseOf
  <2>2. fate' \in [Messages -> Fates]
    BY <1>1, <1>3 DEF TypeOK, Fates
  <2>3. faults' \in [Messages -> SUBSET FaultOf]
    BY <1>1, <1>2 DEF TypeOK, FaultOf
  <2> QED
    BY <1>1, <1>2, <1>3, <2>1, <2>2, <2>3 DEF TypeOK, PhaseOf, FaultOf
<1>5. \A n \in Messages \ {m} : MsgInv(n)'
  BY <1>1, <1>2, <1>3, OthersKeep DEF TypeOK
<1>6. MsgInv(m)'
  <2>1. FateInv(m)' /\ TriesInv(m)'
    <3>1. MaxRetries' = MaxRetries
      BY <1>3 DEF MaxRetries
    <3>2. FateInv(m)'
      BY <1>1, <1>2, <1>3 DEF TypeOK, MsgInv, FateInv
    <3>3. TriesInv(m)'
      BY <1>1, <1>2, <1>3, <3>1 DEF TypeOK, MsgInv, FateInv, TriesInv
    <3> QED
      BY <3>2, <3>3
  <2>2. PlaceInv(m)'
    BY <1>1, <1>2, <1>3, Kinds DEF TypeOK, MsgInv, FateInv, PlaceInv, Requests, Events, OnChannel
  <2>3. LettersInv(m)'
    BY <1>1, <1>2, <1>3, Kinds DEF TypeOK, MsgInv, LettersInv, Past, GivenUp, PlaceInv,
       FateInv, Requests, Events, OnChannel
  <2>4. AnswersInv(m)'
    BY <1>1, <1>2, <1>3, Unanswered, Kinds DEF TypeOK, MsgInv, AnswersInv, FateInv, PlaceInv,
       Requests, Events, OnChannel
  <2> QED
    BY <2>1, <2>2, <2>3, <2>4 DEF MsgInv
<1>7. DrainInv'
  BY <1>1, <1>2, <1>3 DEF DrainInv, TypeOK
<1> QED
  BY <1>4, <1>5, <1>6, <1>7 DEF IInv

\* The validation refuses it.
LEMMA RefusedIInv ==
  ASSUME IInv, NEW m \in Messages, Refused(m)
  PROVE  IInv'
<1>1. TypeOK /\ MsgInv(m) /\ DrainInv /\ MaxRetries \in Nat
  BY RetriesType DEF IInv
<1>2. PICK p \in {"refusing", "answering", "done"}, T \in SUBSET FaultOf :
        /\ phase' = [phase EXCEPT ![m] = p] /\ faults' = [faults EXCEPT ![m] = @ \cup T]
        /\ p = "refusing" => m \in Events /\ policy.dlq
        /\ p = "answering" => m \in Requests
        /\ p = "done" /\ m \in Requests => "send" \in T
        /\ p = "done" /\ m \in Events /\ policy.dlq => "letter" \in T
  <2>1. CASE m \in Events /\ policy.dlq
    <3>1. ToDlq(m, "refusing") /\ "refusing" \in PhaseOf
      BY <2>1 DEF Refused, PhaseOf
    <3> QED
      BY <1>1, <2>1, <3>1, ToDlqType, Kinds
  <2>2. CASE ~(m \in Events /\ policy.dlq)
    <3>1. Throws(m, {}) /\ {} \in SUBSET FaultOf
      BY <2>2 DEF Refused
    <3> QED
      BY <1>1, <2>2, <3>1, ThrowsType, Kinds
  <2> QED
    BY <2>1, <2>2
<1>3. /\ UNCHANGED <<policy, status, draining, timedOut, attempt, answers, letters, only>>
      /\ phase[m] = "validating"
      /\ fate' = [fate EXCEPT ![m] = "rejected"]
      /\ subErrors' \subseteq subErrors
  BY <1>1, <1>2, ErrorsAfterType DEF Refused, Decide, ToDlq, GoTo, Note, closing
<1>4. TypeOK'
  <2>1. phase' \in [Messages -> PhaseOf]
    BY <1>1, <1>2 DEF TypeOK, PhaseOf
  <2>2. fate' \in [Messages -> Fates]
    BY <1>1, <1>3 DEF TypeOK, Fates
  <2>3. faults' \in [Messages -> SUBSET FaultOf]
    BY <1>1, <1>2 DEF TypeOK, FaultOf
  <2>4. subErrors' \in SUBSET Channels
    BY <1>1, <1>3 DEF TypeOK
  <2> QED
    BY <1>1, <1>2, <1>3, <2>1, <2>2, <2>3, <2>4 DEF TypeOK, PhaseOf, FaultOf
<1>5. \A n \in Messages \ {m} : MsgInv(n)'
  BY <1>1, <1>2, <1>3, OthersKeep DEF TypeOK
<1>6. MsgInv(m)'
  <2>1. FateInv(m)' /\ TriesInv(m)'
    <3>1. MaxRetries' = MaxRetries
      BY <1>3 DEF MaxRetries
    <3>2. FateInv(m)'
      BY <1>1, <1>2, <1>3 DEF TypeOK, MsgInv, FateInv
    <3>3. TriesInv(m)'
      BY <1>1, <1>2, <1>3, <3>1 DEF TypeOK, MsgInv, FateInv, TriesInv
    <3> QED
      BY <3>2, <3>3
  <2>2. PlaceInv(m)'
    BY <1>1, <1>2, <1>3, Kinds DEF TypeOK, MsgInv, FateInv, PlaceInv, Requests, Events, OnChannel
  <2>3. LettersInv(m)'
    BY <1>1, <1>2, <1>3, Kinds DEF TypeOK, MsgInv, LettersInv, Past, GivenUp, PlaceInv,
       FateInv, Requests, Events, OnChannel
  <2>4. AnswersInv(m)'
    BY <1>1, <1>2, <1>3, Unanswered, Kinds DEF TypeOK, MsgInv, AnswersInv, FateInv, PlaceInv,
       Requests, Events, OnChannel
  <2> QED
    BY <2>1, <2>2, <2>3, <2>4 DEF MsgInv
<1>7. DrainInv'
  BY <1>1, <1>2, <1>3 DEF DrainInv, TypeOK
<1> QED
  BY <1>4, <1>5, <1>6, <1>7 DEF IInv

\* The validator is not installed.
LEMMA ValidatorMissingIInv ==
  ASSUME IInv, NEW m \in Messages, ValidatorMissing(m)
  PROVE  IInv'
<1>1. TypeOK /\ MsgInv(m) /\ DrainInv /\ MaxRetries \in Nat
  BY RetriesType DEF IInv
<1>2. PICK p \in {"answering", "done"}, T \in SUBSET FaultOf :
        /\ phase' = [phase EXCEPT ![m] = p] /\ faults' = [faults EXCEPT ![m] = @ \cup T]
        /\ p = "answering" => m \in Requests
        /\ p = "done" /\ m \in Requests => "send" \in T
  <2>1. Throws(m, {}) /\ {} \in SUBSET FaultOf
    BY DEF ValidatorMissing
  <2> QED
    BY <1>1, <2>1, ThrowsType
<1>3. /\ UNCHANGED <<policy, status, draining, timedOut, attempt, answers, letters, only>>
      /\ phase[m] = "validating"
      /\ fate' = [fate EXCEPT ![m] = "unvalidated"]
      /\ subErrors' \subseteq subErrors
  BY <1>1, <1>2, ErrorsAfterType DEF ValidatorMissing, Decide, closing
<1>4. TypeOK'
  <2>1. phase' \in [Messages -> PhaseOf]
    BY <1>1, <1>2 DEF TypeOK, PhaseOf
  <2>2. fate' \in [Messages -> Fates]
    BY <1>1, <1>3 DEF TypeOK, Fates
  <2>3. faults' \in [Messages -> SUBSET FaultOf]
    BY <1>1, <1>2 DEF TypeOK, FaultOf
  <2>4. subErrors' \in SUBSET Channels
    BY <1>1, <1>3 DEF TypeOK
  <2> QED
    BY <1>1, <1>2, <1>3, <2>1, <2>2, <2>3, <2>4 DEF TypeOK, PhaseOf, FaultOf
<1>5. \A n \in Messages \ {m} : MsgInv(n)'
  BY <1>1, <1>2, <1>3, OthersKeep DEF TypeOK
<1>6. MsgInv(m)'
  <2>1. FateInv(m)' /\ TriesInv(m)'
    <3>1. MaxRetries' = MaxRetries
      BY <1>3 DEF MaxRetries
    <3>2. FateInv(m)'
      BY <1>1, <1>2, <1>3 DEF TypeOK, MsgInv, FateInv
    <3>3. TriesInv(m)'
      BY <1>1, <1>2, <1>3, <3>1 DEF TypeOK, MsgInv, FateInv, TriesInv
    <3> QED
      BY <3>2, <3>3
  <2>2. PlaceInv(m)'
    BY <1>1, <1>2, <1>3, Kinds DEF TypeOK, MsgInv, FateInv, PlaceInv, Requests, Events, OnChannel
  <2>3. LettersInv(m)'
    BY <1>1, <1>2, <1>3, Kinds DEF TypeOK, MsgInv, LettersInv, Past, GivenUp, PlaceInv,
       FateInv, Requests, Events, OnChannel
  <2>4. AnswersInv(m)'
    BY <1>1, <1>2, <1>3, Unanswered, Kinds DEF TypeOK, MsgInv, AnswersInv, FateInv, PlaceInv,
       Requests, Events, OnChannel
  <2> QED
    BY <2>1, <2>2, <2>3, <2>4 DEF MsgInv
<1>7. DrainInv'
  BY <1>1, <1>2, <1>3 DEF DrainInv, TypeOK
<1> QED
  BY <1>4, <1>5, <1>6, <1>7 DEF IInv

\* The handler succeeds.
LEMMA ReturnsIInv ==
  ASSUME IInv, NEW m \in Messages, NEW b \in Behaviours, HandlerReturns(m, b)
  PROVE  IInv'
<1>1. TypeOK /\ MsgInv(m) /\ DrainInv /\ MaxRetries \in Nat
  BY RetriesType DEF IInv
<1>2. PICK p \in {"answering", "done"}, T \in SUBSET FaultOf :
        /\ phase' = [phase EXCEPT ![m] = p] /\ faults' = [faults EXCEPT ![m] = @ \cup T]
        /\ p = "answering" => m \in Requests
        /\ p = "done" /\ m \in Requests => "send" \in T
  <2>1. Throws(m, {}) /\ {} \in SUBSET FaultOf
    BY DEF HandlerReturns, Throws
  <2> QED
    BY <1>1, <2>1, ThrowsType
<1>3. /\ UNCHANGED <<policy, status, draining, timedOut, answers, letters>>
      /\ phase[m] = "handling"
      /\ attempt' = [attempt EXCEPT ![m] = @ + 1]
      /\ fate' = [fate EXCEPT ![m] = "handled"]
      /\ only' = [only EXCEPT ![m] = IF attempt[m] = 0 THEN b ELSE "none"]
      /\ subErrors' \subseteq subErrors
  BY <1>1, <1>2, ErrorsAfterType DEF HandlerReturns, NoteOnly, Decide, Throws, closing
<1>4. TypeOK'
  <2>1. phase' \in [Messages -> PhaseOf]
    BY <1>1, <1>2 DEF TypeOK, PhaseOf
  <2>2. attempt' \in [Messages -> Nat]
    BY <1>1, <1>3 DEF TypeOK
  <2>3. fate' \in [Messages -> Fates]
    BY <1>1, <1>3 DEF TypeOK, Fates
  <2>4. faults' \in [Messages -> SUBSET FaultOf]
    BY <1>1, <1>2 DEF TypeOK, FaultOf
  <2>5. only' \in [Messages -> Behaviours \cup {"none"}]
    BY <1>1, <1>3 DEF TypeOK, Behaviours, PhaseOf
  <2>6. subErrors' \in SUBSET Channels
    BY <1>1, <1>3 DEF TypeOK
  <2> QED
    BY <1>1, <1>2, <1>3, <2>1, <2>2, <2>3, <2>4, <2>5, <2>6 DEF TypeOK, PhaseOf, FaultOf
<1>5. \A n \in Messages \ {m} : MsgInv(n)'
  BY <1>1, <1>2, <1>3, OthersKeep DEF TypeOK
<1>6. MsgInv(m)'
  <2>1. FateInv(m)' /\ TriesInv(m)'
    <3>1. MaxRetries' = MaxRetries
      BY <1>3 DEF MaxRetries
    <3>2. FateInv(m)'
      BY <1>1, <1>2, <1>3 DEF TypeOK, MsgInv, FateInv
    <3>3. TriesInv(m)'
      BY <1>1, <1>2, <1>3, <3>1 DEF TypeOK, MsgInv, FateInv, TriesInv
    <3> QED
      BY <3>2, <3>3
  <2>2. PlaceInv(m)'
    BY <1>1, <1>2, <1>3, Kinds DEF TypeOK, MsgInv, FateInv, PlaceInv, Requests, Events, OnChannel
  <2>3. LettersInv(m)'
    BY <1>1, <1>2, <1>3, Kinds DEF TypeOK, MsgInv, LettersInv, Past, GivenUp, PlaceInv,
       FateInv, Requests, Events, OnChannel
  <2>4. AnswersInv(m)'
    BY <1>1, <1>2, <1>3, Unanswered, Kinds DEF TypeOK, MsgInv, AnswersInv, FateInv, PlaceInv,
       Requests, Events, OnChannel
  <2> QED
    BY <2>1, <2>2, <2>3, <2>4 DEF MsgInv
<1>7. DrainInv'
  BY <1>1, <1>2, <1>3 DEF DrainInv, TypeOK
<1> QED
  BY <1>4, <1>5, <1>6, <1>7 DEF IInv

\* Its result cannot be serialized.
LEMMA UnserializableIInv ==
  ASSUME IInv, NEW m \in Messages, ResponseUnserializable(m)
  PROVE  IInv'
<1>1. TypeOK /\ MsgInv(m) /\ DrainInv /\ MaxRetries \in Nat
  BY RetriesType DEF IInv
<1>2. PICK p \in {"apologizing", "done"}, T \in SUBSET FaultOf :
        /\ phase' = [phase EXCEPT ![m] = p] /\ faults' = [faults EXCEPT ![m] = @ \cup T]
        /\ "body" \in T
        /\ p = "done" => "send" \in T
  BY <1>1, RespondType DEF ResponseUnserializable, NoteOnly, Decide, PhaseOf, FaultOf
<1>3. /\ UNCHANGED <<policy, status, draining, timedOut, answers, letters>>
      /\ phase[m] = "handling" /\ m \in Requests
      /\ attempt' = [attempt EXCEPT ![m] = @ + 1]
      /\ fate' = [fate EXCEPT ![m] = "handled"]
      /\ only' = [only EXCEPT ![m] = IF attempt[m] = 0 THEN "value" ELSE "none"]
      /\ subErrors' \subseteq subErrors
  BY <1>1, <1>2, ErrorsAfterType DEF ResponseUnserializable, NoteOnly, Decide, closing
<1>4. TypeOK'
  <2>1. phase' \in [Messages -> PhaseOf]
    BY <1>1, <1>2 DEF TypeOK, PhaseOf
  <2>2. attempt' \in [Messages -> Nat]
    BY <1>1, <1>3 DEF TypeOK
  <2>3. fate' \in [Messages -> Fates]
    BY <1>1, <1>3 DEF TypeOK, Fates
  <2>4. faults' \in [Messages -> SUBSET FaultOf]
    BY <1>1, <1>2 DEF TypeOK, FaultOf
  <2>5. only' \in [Messages -> Behaviours \cup {"none"}]
    BY <1>1, <1>3 DEF TypeOK, Behaviours, PhaseOf
  <2>6. subErrors' \in SUBSET Channels
    BY <1>1, <1>3 DEF TypeOK
  <2> QED
    BY <1>1, <1>2, <1>3, <2>1, <2>2, <2>3, <2>4, <2>5, <2>6 DEF TypeOK, PhaseOf, FaultOf
<1>5. \A n \in Messages \ {m} : MsgInv(n)'
  BY <1>1, <1>2, <1>3, OthersKeep DEF TypeOK
<1>6. MsgInv(m)'
  <2>1. FateInv(m)' /\ TriesInv(m)'
    <3>1. MaxRetries' = MaxRetries
      BY <1>3 DEF MaxRetries
    <3>2. FateInv(m)'
      BY <1>1, <1>2, <1>3 DEF TypeOK, MsgInv, FateInv
    <3>3. TriesInv(m)'
      BY <1>1, <1>2, <1>3, <3>1 DEF TypeOK, MsgInv, FateInv, TriesInv
    <3> QED
      BY <3>2, <3>3
  <2>2. PlaceInv(m)'
    BY <1>1, <1>2, <1>3, Kinds DEF TypeOK, MsgInv, FateInv, PlaceInv, Requests, Events, OnChannel
  <2>3. LettersInv(m)'
    BY <1>1, <1>2, <1>3, Kinds DEF TypeOK, MsgInv, LettersInv, Past, GivenUp, PlaceInv,
       FateInv, Requests, Events, OnChannel
  <2>4. AnswersInv(m)'
    BY <1>1, <1>2, <1>3, Unanswered, Kinds DEF TypeOK, MsgInv, AnswersInv, FateInv, PlaceInv,
       Requests, Events, OnChannel
  <2> QED
    BY <2>1, <2>2, <2>3, <2>4 DEF MsgInv
<1>7. DrainInv'
  BY <1>1, <1>2, <1>3 DEF DrainInv, TypeOK
<1> QED
  BY <1>4, <1>5, <1>6, <1>7 DEF IInv

\* The handler has failed for the last time.
LEMMA GivesUpIInv ==
  ASSUME IInv, NEW m \in Messages, NEW b \in Behaviours, HandlerFailsForGood(m, b)
  PROVE  IInv'
<1>1. TypeOK /\ MsgInv(m) /\ DrainInv /\ MaxRetries \in Nat
  BY RetriesType DEF IInv
<1>2. PICK p \in {"burying", "answering", "done"}, T \in SUBSET FaultOf :
        /\ phase' = [phase EXCEPT ![m] = p] /\ faults' = [faults EXCEPT ![m] = @ \cup T]
        /\ p = "burying" => policy.dlq
        /\ p = "answering" => m \in Requests
        /\ p = "done" /\ m \in Requests => "send" \in T
        /\ p # "burying" /\ policy.dlq => "letter" \in T
  <2>1. CASE policy.dlq
    <3>1. ToDlq(m, "burying") /\ "burying" \in PhaseOf
      BY <2>1 DEF HandlerFailsForGood, PhaseOf
    <3> QED
      BY <1>1, <2>1, <3>1, ToDlqType
  <2>2. CASE ~policy.dlq
    <3>1. Throws(m, {}) /\ {} \in SUBSET FaultOf
      BY <2>2 DEF HandlerFailsForGood
    <3> QED
      BY <1>1, <2>2, <3>1, ThrowsType
  <2> QED
    BY <2>1, <2>2
<1>3. /\ UNCHANGED <<policy, status, draining, timedOut, answers, letters>>
      /\ phase[m] = "handling" /\ attempt[m] >= MaxRetries
      /\ attempt' = [attempt EXCEPT ![m] = @ + 1]
      /\ fate' = [fate EXCEPT ![m] = "given up"]
      /\ only' = [only EXCEPT ![m] = IF attempt[m] = 0 THEN b ELSE "none"]
      /\ subErrors' \subseteq subErrors
  BY <1>1, <1>2, ErrorsAfterType DEF HandlerFailsForGood, NoteOnly, Decide, ToDlq, GoTo, Note,
     closing
<1>4. TypeOK'
  <2>1. phase' \in [Messages -> PhaseOf]
    BY <1>1, <1>2 DEF TypeOK, PhaseOf
  <2>2. attempt' \in [Messages -> Nat]
    <3>1. attempt \in [Messages -> Nat]
      BY <1>1 DEF TypeOK
    <3>2. attempt' = [attempt EXCEPT ![m] = @ + 1]
      BY <1>3
    <3> QED
      BY <3>1, <3>2
  <2>3. fate' \in [Messages -> Fates]
    BY <1>1, <1>3 DEF TypeOK, Fates
  <2>4. faults' \in [Messages -> SUBSET FaultOf]
    BY <1>1, <1>2 DEF TypeOK, FaultOf
  <2>5. only' \in [Messages -> Behaviours \cup {"none"}]
    BY <1>1, <1>3 DEF TypeOK, Behaviours, PhaseOf
  <2>6. subErrors' \in SUBSET Channels
    BY <1>1, <1>3 DEF TypeOK
  <2> QED
    BY <1>1, <1>2, <1>3, <2>1, <2>2, <2>3, <2>4, <2>5, <2>6 DEF TypeOK, PhaseOf, FaultOf
<1>5. \A n \in Messages \ {m} : MsgInv(n)'
  BY <1>1, <1>2, <1>3, OthersKeep DEF TypeOK
<1>6. MsgInv(m)'
  <2>1. FateInv(m)' /\ TriesInv(m)'
    <3>1. MaxRetries' = MaxRetries
      BY <1>3 DEF MaxRetries
    <3>2. FateInv(m)'
      BY <1>1, <1>2, <1>3 DEF TypeOK, MsgInv, FateInv
    <3>3. TriesInv(m)'
      <4>1. attempt[m] \in Nat /\ attempt[m] <= MaxRetries /\ attempt[m] >= MaxRetries
        BY <1>1, <1>3 DEF TypeOK, MsgInv, TriesInv
      <4>2. attempt \in [Messages -> Nat] /\ attempt' = [attempt EXCEPT ![m] = @ + 1]
        BY <1>1, <1>3 DEF TypeOK
      <4>3. attempt'[m] = MaxRetries + 1
        BY <1>1, <4>1, <4>2
      <4>4. phase'[m] \notin {"idle", "validating", "handling"}
        BY <1>1, <1>2 DEF TypeOK
      <4> QED
        BY <3>1, <4>3, <4>4 DEF TriesInv
    <3> QED
      BY <3>2, <3>3
  <2>2. PlaceInv(m)'
    BY <1>1, <1>2, <1>3, Kinds DEF TypeOK, MsgInv, FateInv, PlaceInv, Requests, Events, OnChannel
  <2>3. LettersInv(m)'
    BY <1>1, <1>2, <1>3, Kinds DEF TypeOK, MsgInv, LettersInv, Past, GivenUp, PlaceInv,
       FateInv, Requests, Events, OnChannel
  <2>4. AnswersInv(m)'
    BY <1>1, <1>2, <1>3, Unanswered, Kinds DEF TypeOK, MsgInv, AnswersInv, FateInv, PlaceInv,
       Requests, Events, OnChannel
  <2> QED
    BY <2>1, <2>2, <2>3, <2>4 DEF MsgInv
<1>7. DrainInv'
  BY <1>1, <1>2, <1>3 DEF DrainInv, TypeOK
<1> QED
  BY <1>4, <1>5, <1>6, <1>7 DEF IInv

\* Its dead letter is written, or fails.
LEMMA RoutedIInv ==
  ASSUME IInv, NEW m \in Messages, NEW written \in BOOLEAN, NEW failed \in BOOLEAN,
         NEW throws \in BOOLEAN, Routed(m, written, failed, throws)
  PROVE  IInv'
<1>1. TypeOK /\ MsgInv(m) /\ DrainInv /\ MaxRetries \in Nat
  BY RetriesType DEF IInv
<1>2. PICK p \in {"answering", "done"}, T \in SUBSET FaultOf :
        /\ phase' = [phase EXCEPT ![m] = p] /\ faults' = [faults EXCEPT ![m] = @ \cup T]
        /\ p = "answering" => m \in Requests
        /\ p = "done" /\ m \in Requests => "send" \in T
        /\ ~written => "letter" \in T
  BY <1>1, ThrowsType DEF Routed, PhaseOf, FaultOf
<1>3. /\ UNCHANGED <<policy, status, draining, timedOut, attempt, answers, fate, only>>
      /\ phase[m] \in {"refusing", "burying"}
      /\ letters' = [letters EXCEPT ![m] = IF written THEN @ + 1 ELSE @]
      /\ subErrors' \subseteq subErrors
  BY <1>1, <1>2, ErrorsAfterType DEF Routed, closing
<1>4. TypeOK'
  <2>1. phase' \in [Messages -> PhaseOf]
    BY <1>1, <1>2 DEF TypeOK, PhaseOf
  <2>2. letters' \in [Messages -> Nat]
    BY <1>1, <1>3 DEF TypeOK
  <2>3. faults' \in [Messages -> SUBSET FaultOf]
    BY <1>1, <1>2 DEF TypeOK, FaultOf
  <2>4. subErrors' \in SUBSET Channels
    BY <1>1, <1>3 DEF TypeOK
  <2> QED
    BY <1>1, <1>2, <1>3, <2>1, <2>2, <2>3, <2>4 DEF TypeOK, PhaseOf, FaultOf
<1>5. \A n \in Messages \ {m} : MsgInv(n)'
  BY <1>1, <1>2, <1>3, OthersKeep DEF TypeOK
<1>6. MsgInv(m)'
  <2>1. FateInv(m)' /\ TriesInv(m)'
    <3>1. MaxRetries' = MaxRetries
      BY <1>3 DEF MaxRetries
    <3>2. FateInv(m)'
      BY <1>1, <1>2, <1>3 DEF TypeOK, MsgInv, FateInv
    <3>3. TriesInv(m)'
      BY <1>1, <1>2, <1>3, <3>1 DEF TypeOK, MsgInv, FateInv, TriesInv
    <3> QED
      BY <3>2, <3>3
  <2>2. PlaceInv(m)'
    BY <1>1, <1>2, <1>3, Kinds DEF TypeOK, MsgInv, FateInv, PlaceInv, Requests, Events, OnChannel
  <2>3. LettersInv(m)'
    <3>1. letters[m] = 0 /\ policy.dlq /\ GivenUp(m)
      BY <1>1, <1>3 DEF MsgInv, LettersInv, PlaceInv, Past, GivenUp
    <3>2. letters'[m] = IF written THEN 1 ELSE 0
      BY <1>1, <1>3, <3>1 DEF TypeOK
    <3>3. policy'.dlq /\ GivenUp(m)' /\ phase'[m] \in Past
      BY <1>1, <1>2, <1>3, <3>1 DEF TypeOK, GivenUp, Past, Events, OnChannel
    <3>4. ~written => "letter" \in faults'[m]
      BY <1>1, <1>2 DEF TypeOK
    <3> QED
      BY <3>2, <3>3, <3>4 DEF LettersInv
  <2>4. AnswersInv(m)'
    BY <1>1, <1>2, <1>3, Unanswered, Kinds DEF TypeOK, MsgInv, AnswersInv, FateInv, PlaceInv,
       Requests, Events, OnChannel
  <2> QED
    BY <2>1, <2>2, <2>3, <2>4 DEF MsgInv
<1>7. DrainInv'
  BY <1>1, <1>2, <1>3 DEF DrainInv, TypeOK
<1> QED
  BY <1>4, <1>5, <1>6, <1>7 DEF IInv

\* The response is sent.
LEMMA SentIInv ==
  ASSUME IInv, NEW m \in Messages, ResponseSent(m)
  PROVE  IInv'
<1>1. TypeOK /\ MsgInv(m) /\ DrainInv /\ MaxRetries \in Nat
  BY RetriesType DEF IInv
<1>2. /\ UNCHANGED <<policy, status, draining, timedOut, attempt, letters, fate, faults, only,
                     subErrors>>
      /\ phase[m] = "answering"
      /\ phase' = [phase EXCEPT ![m] = "done"]
      /\ answers' \in [Messages -> Seq(BOOLEAN)] /\ Len(answers[m]) \in Nat
      /\ \A n \in Messages \ {m} : answers'[n] = answers[n]
      /\ Len(answers'[m]) = Len(answers[m]) + 1
      /\ answers'[m][Len(answers[m]) + 1] = (fate[m] = "handled")
      /\ \A i \in 1 .. Len(answers[m]) : answers'[m][i] = answers[m][i]
  BY <1>1, TakesType DEF ResponseSent, GoTo, Executed, closing
<1>3. TypeOK'
  <2>1. phase' \in [Messages -> PhaseOf]
    BY <1>1, <1>2 DEF TypeOK, PhaseOf
  <2>2. answers' \in [Messages -> Seq(BOOLEAN)]
    BY <1>2 DEF TypeOK
  <2> QED
    BY <1>1, <1>2, <2>1, <2>2 DEF TypeOK, PhaseOf, FaultOf
<1>4. \A n \in Messages \ {m} : MsgInv(n)'
  BY <1>1, <1>2, OthersKeep DEF TypeOK
<1>5. MsgInv(m)'
  <2>1. FateInv(m)' /\ TriesInv(m)'
    <3>1. MaxRetries' = MaxRetries
      BY <1>2 DEF MaxRetries
    <3>2. FateInv(m)'
      BY <1>1, <1>2 DEF TypeOK, MsgInv, FateInv
    <3>3. TriesInv(m)'
      BY <1>1, <1>2, <3>1 DEF TypeOK, MsgInv, FateInv, TriesInv
    <3> QED
      BY <3>2, <3>3
  <2>2. PlaceInv(m)'
    BY <1>1, <1>2, Kinds DEF TypeOK, MsgInv, FateInv, PlaceInv, Requests, Events, OnChannel
  <2>3. LettersInv(m)'
    BY <1>1, <1>2, Kinds DEF TypeOK, MsgInv, LettersInv, Past, GivenUp, PlaceInv, FateInv,
       Requests, Events, OnChannel
  <2>4. AnswersInv(m)'
    <3>1. Len(answers[m]) = 0
      BY <1>1, <1>2 DEF MsgInv, AnswersInv
    <3>2. Len(answers'[m]) = 1 /\ answers'[m][1] = (fate'[m] = "handled")
      BY <1>2, <3>1
    <3>3. phase'[m] = "done" /\ (fate'[m] = "handled") \in BOOLEAN
      BY <1>1, <1>2 DEF TypeOK
    <3> QED
      BY <3>2, <3>3, AnsweredOnce
  <2> QED
    BY <2>1, <2>2, <2>3, <2>4 DEF MsgInv
<1>6. DrainInv'
  BY <1>1, <1>2 DEF DrainInv, TypeOK
<1> QED
  BY <1>3, <1>4, <1>5, <1>6 DEF IInv

\* Sending it fails.
LEMMA SendFailsIInv ==
  ASSUME IInv, NEW m \in Messages, NEW reached \in BOOLEAN, ResponseFails(m, reached)
  PROVE  IInv'
<1>1. TypeOK /\ MsgInv(m) /\ DrainInv /\ MaxRetries \in Nat
  BY RetriesType DEF IInv
<1>2. PICK p \in {"apologizing", "done"}, T \in SUBSET FaultOf :
        /\ phase' = [phase EXCEPT ![m] = p] /\ faults' = [faults EXCEPT ![m] = @ \cup T]
        /\ "send" \in T
  BY <1>1, RespondType DEF ResponseFails, Executed, PhaseOf, FaultOf
<1>3. /\ UNCHANGED <<policy, status, draining, timedOut, attempt, letters, fate, only, subErrors>>
      /\ phase[m] = "answering"
      /\ answers' \in [Messages -> Seq(BOOLEAN)] /\ Len(answers[m]) \in Nat
      /\ \A n \in Messages \ {m} : answers'[n] = answers[n]
      /\ ~reached => answers'[m] = answers[m]
      /\ reached => /\ Len(answers'[m]) = Len(answers[m]) + 1
            /\ answers'[m][Len(answers[m]) + 1] = (fate[m] = "handled")
            /\ \A i \in 1 .. Len(answers[m]) : answers'[m][i] = answers[m][i]
  BY <1>1, <1>2, TakesType DEF ResponseFails, Executed, closing
<1>4. TypeOK'
  <2>1. phase' \in [Messages -> PhaseOf]
    BY <1>1, <1>2 DEF TypeOK, PhaseOf
  <2>2. answers' \in [Messages -> Seq(BOOLEAN)]
    BY <1>3 DEF TypeOK
  <2>3. faults' \in [Messages -> SUBSET FaultOf]
    BY <1>1, <1>2 DEF TypeOK, FaultOf
  <2> QED
    BY <1>1, <1>2, <1>3, <2>1, <2>2, <2>3 DEF TypeOK, PhaseOf, FaultOf
<1>5. \A n \in Messages \ {m} : MsgInv(n)'
  BY <1>1, <1>2, <1>3, OthersKeep DEF TypeOK
<1>6. MsgInv(m)'
  <2>1. FateInv(m)' /\ TriesInv(m)'
    <3>1. MaxRetries' = MaxRetries
      BY <1>3 DEF MaxRetries
    <3>2. FateInv(m)'
      BY <1>1, <1>2, <1>3 DEF TypeOK, MsgInv, FateInv
    <3>3. TriesInv(m)'
      BY <1>1, <1>2, <1>3, <3>1 DEF TypeOK, MsgInv, FateInv, TriesInv
    <3> QED
      BY <3>2, <3>3
  <2>2. PlaceInv(m)'
    BY <1>1, <1>2, <1>3, Kinds DEF TypeOK, MsgInv, FateInv, PlaceInv, Requests, Events, OnChannel
  <2>3. LettersInv(m)'
    BY <1>1, <1>2, <1>3, Kinds DEF TypeOK, MsgInv, LettersInv, Past, GivenUp, PlaceInv,
       FateInv, Requests, Events, OnChannel
  <2>4. AnswersInv(m)'
    <3>1. Len(answers[m]) = 0
      BY <1>1, <1>3 DEF MsgInv, AnswersInv
    <3>2. phase'[m] \in {"apologizing", "done"} /\ "send" \in faults'[m]
      BY <1>1, <1>2 DEF TypeOK
    <3>3. CASE reached
      <4>1. Len(answers'[m]) = 1 /\ answers'[m][1] = (fate'[m] = "handled")
        BY <1>3, <3>1, <3>3
      <4>2. (fate'[m] = "handled") \in BOOLEAN
        OBVIOUS
      <4> QED
        BY <3>2, <4>1, <4>2, AnsweredOnce
    <3>4. CASE ~reached
      BY <1>3, <3>1, <3>2, <3>4, Unanswered
    <3> QED
      BY <3>3, <3>4
  <2> QED
    BY <2>1, <2>2, <2>3, <2>4 DEF MsgInv
<1>7. DrainInv'
  BY <1>1, <1>2, <1>3 DEF DrainInv, TypeOK
<1> QED
  BY <1>4, <1>5, <1>6, <1>7 DEF IInv

\* The negative response of the outer catch block.
LEMMA ApologyIInv ==
  ASSUME IInv, NEW m \in Messages, NEW reached \in BOOLEAN, NEW failed \in BOOLEAN, Apology(m,
         reached, failed)
  PROVE  IInv'
<1>1. TypeOK /\ MsgInv(m) /\ DrainInv /\ MaxRetries \in Nat
  BY RetriesType DEF IInv
<1>2. PICK p \in {"done"}, T \in SUBSET FaultOf :
        /\ phase' = [phase EXCEPT ![m] = p] /\ faults' = [faults EXCEPT ![m] = @ \cup T]
        /\ T = {} => reached
        /\ T # {} => "send" \in T
  BY <1>1 DEF Apology, GoTo, Note, PhaseOf, FaultOf
<1>3. /\ UNCHANGED <<policy, status, draining, timedOut, attempt, letters, fate, only, subErrors>>
      /\ phase[m] = "apologizing"
      /\ answers' \in [Messages -> Seq(BOOLEAN)] /\ Len(answers[m]) \in Nat
      /\ \A n \in Messages \ {m} : answers'[n] = answers[n]
      /\ ~reached => answers'[m] = answers[m]
      /\ reached => /\ Len(answers'[m]) = Len(answers[m]) + 1
            /\ answers'[m][Len(answers[m]) + 1] = FALSE
            /\ \A i \in 1 .. Len(answers[m]) : answers'[m][i] = answers[m][i]
  <2>1. Takes(m, FALSE, reached) /\ phase[m] = "apologizing"
    BY DEF Apology
  <2>2. UNCHANGED <<policy, status, draining, timedOut, attempt, letters, fate, only, subErrors>>
    BY DEF Apology, closing
  <2> QED
    BY <1>1, <2>1, <2>2, TakesType
<1>4. TypeOK'
  <2>1. phase' \in [Messages -> PhaseOf]
    BY <1>1, <1>2 DEF TypeOK, PhaseOf
  <2>2. answers' \in [Messages -> Seq(BOOLEAN)]
    BY <1>3 DEF TypeOK
  <2>3. faults' \in [Messages -> SUBSET FaultOf]
    BY <1>1, <1>2 DEF TypeOK, FaultOf
  <2> QED
    BY <1>1, <1>2, <1>3, <2>1, <2>2, <2>3 DEF TypeOK, PhaseOf, FaultOf
<1>5. \A n \in Messages \ {m} : MsgInv(n)'
  BY <1>1, <1>2, <1>3, OthersKeep DEF TypeOK
<1>6. MsgInv(m)'
  <2>1. FateInv(m)' /\ TriesInv(m)'
    <3>1. MaxRetries' = MaxRetries
      BY <1>3 DEF MaxRetries
    <3>2. FateInv(m)'
      BY <1>1, <1>2, <1>3 DEF TypeOK, MsgInv, FateInv
    <3>3. TriesInv(m)'
      BY <1>1, <1>2, <1>3, <3>1 DEF TypeOK, MsgInv, FateInv, TriesInv
    <3> QED
      BY <3>2, <3>3
  <2>2. PlaceInv(m)'
    BY <1>1, <1>2, <1>3, Kinds DEF TypeOK, MsgInv, FateInv, PlaceInv, Requests, Events, OnChannel
  <2>3. LettersInv(m)'
    BY <1>1, <1>2, <1>3, Kinds DEF TypeOK, MsgInv, LettersInv, Past, GivenUp, PlaceInv,
       FateInv, Requests, Events, OnChannel
  <2>4. AnswersInv(m)'
    <3>1. AnswersInv(m)
      BY <1>1 DEF MsgInv
    <3>2. /\ phase'[m] = "done" /\ fate'[m] = fate[m]
          /\ faults[m] \subseteq faults'[m] /\ (~reached => "send" \in faults'[m])
      BY <1>1, <1>2, <1>3 DEF TypeOK
    <3>3. CASE reached
      BY <1>3, <3>1, <3>2, <3>3, AnsweredNegatively
    <3>4. CASE ~reached
      <4>1. answers'[m] = answers[m] /\ "send" \in faults'[m] /\ faults'[m] # {} /\ Len(answers[m]) <= 1
        BY <1>3, <3>1, <3>2, <3>4 DEF AnswersInv
      <4> QED
        BY <1>3, <3>1, <3>2, <4>1 DEF AnswersInv
    <3> QED
      BY <3>3, <3>4
  <2> QED
    BY <2>1, <2>2, <2>3, <2>4 DEF MsgInv
<1>7. DrainInv'
  BY <1>1, <1>2, <1>3 DEF DrainInv, TypeOK
<1> QED
  BY <1>4, <1>5, <1>6, <1>7 DEF IInv

\* Subscription errors and the steps of close() leave the messages alone.
LEMMA MessagesKeep ==
  ASSUME IInv, UNCHANGED <<policy, phase, attempt, answers, letters, fate, faults>>
  PROVE  \A n \in Messages : MsgInv(n)'
  BY OthersKeep

\* A subscription reports an error.
LEMMA SubscriptionFailsIInv ==
  ASSUME IInv, NEW c \in Channels, SubscriptionFails(c)
  PROVE  IInv'
<1>1. /\ UNCHANGED <<policy, status, draining, timedOut, phase, attempt, answers, letters,
                     fate, faults, only>>
      /\ subErrors' = subErrors \cup {c}
  BY DEF SubscriptionFails, closing
<1>2. TypeOK'
  BY <1>1 DEF IInv, TypeOK
<1>3. DrainInv'
  BY <1>1 DEF IInv, DrainInv
<1> QED
  BY <1>1, <1>2, <1>3, MessagesKeep DEF IInv

\* close() begins: it waits for what is in flight.
LEMMA CloseIInv ==
  ASSUME IInv, Close
  PROVE  IInv'
<1>1. /\ UNCHANGED <<policy, timedOut, phase, attempt, answers, letters, fate, faults, only,
                     subErrors>>
      /\ status' = "draining" /\ draining' = InFlight
  BY DEF Close
<1>2. TypeOK'
  BY <1>1 DEF IInv, TypeOK, InFlight
<1>3. DrainInv'
  BY <1>1 DEF DrainInv, InFlight
<1> QED
  BY <1>1, <1>2, <1>3, MessagesKeep DEF IInv

\* drain ends: in time only with all of it done.
LEMMA DrainEndsIInv ==
  ASSUME IInv, NEW late \in BOOLEAN, DrainEnds(late)
  PROVE  IInv'
<1>1. /\ UNCHANGED <<policy, draining, phase, attempt, answers, letters, fate, faults, only,
                     subErrors>>
      /\ timedOut' = late /\ status' = "closing"
  BY DEF DrainEnds
<1>2. draining \cap InFlight = {} \/ late
  BY DEF DrainEnds, Drained
<1>3. draining \subseteq Messages /\ \A m \in draining : phase[m] # "idle"
  BY DEF IInv, DrainInv, TypeOK
<1>4. TypeOK'
  BY <1>1 DEF IInv, TypeOK
<1>5. DrainInv'
  BY <1>1, <1>2, <1>3 DEF DrainInv, InFlight
<1> QED
  BY <1>1, <1>4, <1>5, MessagesKeep DEF IInv

\* client.close() has ended.
LEMMA CloseEndsIInv ==
  ASSUME IInv, CloseEnds
  PROVE  IInv'
<1>1. /\ UNCHANGED <<policy, draining, timedOut, phase, attempt, answers, letters, fate,
                     faults, only>>
      /\ status = "closing" /\ status' = "closed" /\ subErrors' = {}
  BY DEF CloseEnds
<1>2. TypeOK'
  BY <1>1 DEF IInv, TypeOK
<1>3. DrainInv'
  BY <1>1 DEF IInv, DrainInv
<1> QED
  BY <1>1, <1>2, <1>3, MessagesKeep DEF IInv

\* Before the first message there is nothing in flight.
LEMMA InitIInv ==
  ASSUME Init
  PROVE  IInv
<1>1. /\ policy \in Policies /\ status = "up" /\ draining = {} /\ timedOut = FALSE
      /\ phase = [m \in Messages |-> "idle"] /\ attempt = [m \in Messages |-> 0]
      /\ answers = [m \in Messages |-> <<>>] /\ letters = [m \in Messages |-> 0]
      /\ subErrors = {} /\ fate = [m \in Messages |-> "open"]
      /\ faults = [m \in Messages |-> {}] /\ only = [m \in Messages |-> "none"]
  BY DEF Init
<1>2. TypeOK
  <2>1. <<>> \in Seq(BOOLEAN)
    OBVIOUS
  <2>2. answers \in [Messages -> Seq(BOOLEAN)]
    BY <1>1, <2>1
  <2>3. /\ only \in [Messages -> Behaviours \cup {"none"}]
        /\ faults \in [Messages -> SUBSET {"send", "letter", "body"}]
    BY <1>1
  <2>4. phase \in [Messages -> PhaseOf] /\ fate \in [Messages -> Fates]
    BY <1>1 DEF PhaseOf, Fates
  <2> QED
    BY <1>1, <2>2, <2>3, <2>4 DEF TypeOK, PhaseOf
<1>3. ASSUME NEW m \in Messages
      PROVE  MsgInv(m)
  <2>1. /\ phase[m] = "idle" /\ attempt[m] = 0 /\ Len(answers[m]) = 0 /\ letters[m] = 0
        /\ fate[m] = "open"
    BY <1>1
  <2>2. FateInv(m) /\ TriesInv(m) /\ PlaceInv(m)
    BY <2>1 DEF FateInv, TriesInv, PlaceInv
  <2>3. LettersInv(m)
    BY <2>1 DEF LettersInv, Past
  <2>4. AnswersInv(m)
    BY <2>1 DEF AnswersInv
  <2> QED
    BY <2>2, <2>3, <2>4 DEF MsgInv
<1>4. DrainInv
  BY <1>1 DEF DrainInv
<1> QED
  BY <1>2, <1>3, <1>4 DEF IInv

\* Whatever m does next keeps the invariant.
LEMMA ProceedIInv ==
  ASSUME IInv, NEW m \in Messages, Proceed(m)
  PROVE  IInv'
<1>1. CASE Validated(m)
  BY <1>1, ValidatedIInv
<1>2. CASE Refused(m)
  BY <1>2, RefusedIInv
<1>3. CASE ValidatorMissing(m)
  BY <1>3, ValidatorMissingIInv
<1>4. ASSUME NEW b \in Behaviours, HandlerReturns(m, b)
      PROVE  IInv'
  BY <1>4, ReturnsIInv
<1>5. ASSUME NEW b \in Behaviours, HandlerFailsAgain(m, b)
      PROVE  IInv'
  BY <1>5, FailsAgainIInv
<1>6. ASSUME NEW b \in Behaviours, HandlerFailsForGood(m, b)
      PROVE  IInv'
  BY <1>6, GivesUpIInv
<1>7. CASE ResponseUnserializable(m)
  BY <1>7, UnserializableIInv
<1>8. ASSUME NEW written \in BOOLEAN, NEW failed \in BOOLEAN, NEW throws \in BOOLEAN,
             Routed(m, written, failed, throws)
      PROVE  IInv'
  BY <1>8, RoutedIInv
<1>9. CASE ResponseSent(m)
  BY <1>9, SentIInv
<1>10. ASSUME NEW reached \in BOOLEAN, ResponseFails(m, reached)
       PROVE  IInv'
  BY <1>10, SendFailsIInv
<1>11. ASSUME NEW reached \in BOOLEAN, NEW failed \in BOOLEAN, Apology(m, reached, failed)
       PROVE  IInv'
  BY <1>11, ApologyIInv
<1> QED
  BY <1>1, <1>2, <1>3, <1>4, <1>5, <1>6, <1>7, <1>8, <1>9, <1>10, <1>11 DEF Proceed

\* Every step keeps the invariant.
LEMMA StepIInv ==
  ASSUME IInv, [Next]_vars
  PROVE  IInv'
<1>1. ASSUME NEW m \in Messages, Receive(m)
      PROVE  IInv'
  BY <1>1, ReceiveIInv
<1>2. ASSUME NEW m \in Messages, ReceiveUndecodable(m)
      PROVE  IInv'
  BY <1>2, UndecodableIInv
<1>3. ASSUME NEW m \in Messages, Proceed(m)
      PROVE  IInv'
  BY <1>3, ProceedIInv
<1>4. ASSUME NEW c \in Channels, SubscriptionFails(c)
      PROVE  IInv'
  BY <1>4, SubscriptionFailsIInv
<1>5. CASE Close
  BY <1>5, CloseIInv
<1>6. CASE CloseEnds
  BY <1>6, CloseEndsIInv
<1>7. ASSUME NEW late \in BOOLEAN, DrainEnds(late)
      PROVE  IInv'
  BY <1>7, DrainEndsIInv
<1>8. CASE UNCHANGED vars
  <2>1. UNCHANGED <<policy, status, draining, timedOut, phase, attempt, answers, letters,
                    subErrors, fate, faults, only>>
    BY <1>8 DEF vars, closing
  <2>2. TypeOK' /\ DrainInv'
    BY <2>1 DEF IInv, TypeOK, DrainInv
  <2> QED
    BY <2>1, <2>2, MessagesKeep DEF IInv
<1> QED
  BY <1>1, <1>2, <1>3, <1>4, <1>5, <1>6, <1>7, <1>8 DEF Next

\* The inductive invariant.
LEMMA Invariance == Spec => []IInv
<1>1. Init => IInv
  BY InitIInv
<1>2. IInv /\ [Next]_vars => IInv'
  BY StepIInv
<1> QED
  BY <1>1, <1>2, PTL DEF Spec

-----------------------------------------------------------------------------
(* What follows from it. *)

\* resolveMaxRetries does what decorator-options.interface.ts promises.
LEMMA RetriesAsPromised == TypeOK => MaxRetries = PromisedRetries
  BY PipelineAssumption DEF TypeOK, MaxRetries, PromisedRetries

\* The type invariant of the pipeline.
THEOREM TypeCorrect == Spec => []TypeOK
<1>1. IInv => TypeOK
  BY DEF IInv
<1> QED
  BY <1>1, Invariance, PTL

\* A requester is told what happened to its request: at most two responses, a second
\* one only as the negative one after a failed sending, and a positive one only
\* for a request whose handler succeeded (handleRequestMessage).
THEOREM AnswersAreTrue == Spec => []AnswersTellTheOutcome
<1>1. ASSUME IInv, NEW m \in Requests
      PROVE  /\ \A i \in DOMAIN answers[m] : answers[m][i] => fate[m] = "handled"
             /\ Len(answers[m]) <= 2
             /\ Len(answers[m]) = 2 => ~answers[m][2] /\ "send" \in faults[m]
             /\ phase[m] = "done" /\ faults[m] = {} => answers[m] = <<fate[m] = "handled">>
  <2>1. m \in Messages /\ answers[m] \in Seq(BOOLEAN)
    BY <1>1 DEF IInv, TypeOK, Requests, OnChannel
  <2>2. AnswersInv(m)
    BY <1>1, <2>1 DEF IInv, MsgInv
  <2>3. DOMAIN answers[m] = 1 .. Len(answers[m])
    BY <2>1
  <2>4. ASSUME phase[m] = "done", faults[m] = {}
        PROVE  answers[m] = <<fate[m] = "handled">>
    <3>1. Len(answers[m]) = 1 /\ (answers[m][1] <=> fate[m] = "handled")
      BY <1>1, <2>2, <2>4 DEF AnswersInv
    <3>2. answers[m][1] \in BOOLEAN
      BY <2>1, <3>1
    <3>3. answers[m][1] = (fate[m] = "handled")
      BY <3>1, <3>2, Zenon
    <3>4. answers[m] = <<answers[m][1]>>
      BY <2>1, <3>1
    <3> QED
      BY <3>3, <3>4, Zenon
  <2> QED
    BY <2>2, <2>3, <2>4 DEF AnswersInv
<1>2. IInv => AnswersTellTheOutcome
  BY <1>1 DEF AnswersTellTheOutcome
<1> QED
  BY <1>2, Invariance, PTL

\* Dead letters are for messages that were given up, after all the retries that the
\* options promise, and one each (the retry loop and routeToDlq).
THEOREM LettersMatchLosses == Spec => []DeadLettersMatchLosses
<1>1. ASSUME IInv, NEW m \in Messages
      PROVE  /\ letters[m] <= 1
             /\ letters[m] = 1 => policy.dlq /\ GivenUp(m)
             /\ fate[m] = "given up" => attempt[m] = PromisedRetries + 1
             /\ phase[m] = "done" /\ policy.dlq /\ GivenUp(m) /\ "letter" \notin faults[m]
                  => letters[m] = 1
  <2>1. TriesInv(m) /\ LettersInv(m) /\ TypeOK
    BY <1>1 DEF IInv, MsgInv
  <2>2. MaxRetries = PromisedRetries
    BY <2>1, RetriesAsPromised
  <2> QED
    BY <2>1, <2>2 DEF TriesInv, LettersInv, Past
<1>2. IInv => DeadLettersMatchLosses
  BY <1>1 DEF DeadLettersMatchLosses
<1> QED
  BY <1>2, Invariance, PTL

\* close() goes on to client.close() only with what was in flight dealt with and
\* answered, unless drain timed out (executor.drain).
THEOREM DrainWaits == Spec => []DrainedMeansAnswered
<1>1. ASSUME IInv, status \in {"closing", "closed"}, ~timedOut, NEW m \in draining
      PROVE  /\ phase[m] = "done"
             /\ m \in Requests /\ "send" \notin faults[m] => answers[m] # <<>>
  <2>1. m \in Messages /\ phase[m] = "done"
    BY <1>1 DEF IInv, TypeOK, DrainInv
  <2>2. AnswersInv(m)
    BY <1>1, <2>1 DEF IInv, MsgInv
  <2>3. m \in Requests /\ "send" \notin faults[m] => Len(answers[m]) >= 1
    BY <2>1, <2>2 DEF AnswersInv
  <2> QED
    BY <2>1, <2>3
<1>2. IInv => DrainedMeansAnswered
  BY <1>1 DEF DrainedMeansAnswered
<1> QED
  BY <1>2, Invariance, PTL

-----------------------------------------------------------------------------
(* The retry loop implements RetryPolicy. *)

outcomes == [m \in Messages |-> Outcome(m)]
buriedLetters == [m \in Messages |-> letters[m] > 0]

\* What the abstract policy sees of a step that decides what becomes of m.
LEMMA DecideOutcome ==
  ASSUME TypeOK, NEW m \in Messages, NEW f \in Fates \ {"open"}, fate' = [fate EXCEPT ![m] = f]
  PROVE  outcomes' = [outcomes EXCEPT ![m] = IF f = "handled" THEN "handled" ELSE "given up"]
<1>1. fate \in [Messages -> Fates]
  BY DEF TypeOK
<1>2. ASSUME NEW n \in Messages
      PROVE  Outcome(n)' = IF n = m THEN (IF f = "handled" THEN "handled" ELSE "given up")
                                    ELSE Outcome(n)
  BY <1>1 DEF Outcome, Fates
<1> QED
  BY <1>2 DEF outcomes

\* A step that changes neither tries, nor fates, nor letters is not seen.
LEMMA PolicyStutters ==
  ASSUME UNCHANGED <<policy, attempt, letters, fate>>
  PROVE  UNCHANGED Policy!policyVars
  BY DEF Policy!policyVars, Outcome, PromisedRetries

\* A message is given up untried: it cannot be read, or is not valid.
LEMMA GivesUpUntried ==
  ASSUME IInv, NEW m \in Messages, NEW f \in Fates \ {"open", "handled"},
         fate[m] = "open", attempt[m] = 0, fate' = [fate EXCEPT ![m] = f],
         UNCHANGED <<policy, attempt, letters>>
  PROVE  Policy!GiveUp(m)
<1>1. outcomes' = [outcomes EXCEPT ![m] = "given up"] /\ outcomes[m] = "open"
  BY DecideOutcome DEF IInv, outcomes, Outcome
<1>2. UNCHANGED <<PromisedRetries + 1, buriedLetters>>
  BY DEF PromisedRetries, buriedLetters
<1> QED
  BY <1>1, <1>2 DEF Policy!GiveUp, outcomes, buriedLetters

\* Its handler succeeds, on one of the tries it has.
LEMMA HandlesInTime ==
  ASSUME IInv, NEW m \in Messages, phase[m] = "handling", fate' = [fate EXCEPT ![m] = "handled"],
         attempt' = [attempt EXCEPT ![m] = @ + 1], UNCHANGED <<policy, letters>>
  PROVE  Policy!Handle(m)
<1>1. outcomes' = [outcomes EXCEPT ![m] = "handled"] /\ outcomes[m] = "open"
  <2>1. FateInv(m) /\ TypeOK /\ "handled" \in Fates \ {"open"}
    BY DEF IInv, MsgInv, Fates
  <2>2. outcomes' = [outcomes EXCEPT ![m] = "handled"]
    BY <2>1, DecideOutcome
  <2> QED
    BY <2>1, <2>2 DEF FateInv, outcomes, Outcome
<1>2. UNCHANGED <<PromisedRetries + 1, buriedLetters>>
  BY DEF PromisedRetries, buriedLetters
<1>3. attempt[m] < PromisedRetries + 1
  <2>1. attempt[m] <= MaxRetries /\ MaxRetries \in Nat /\ MaxRetries = PromisedRetries
    BY RetriesType, RetriesAsPromised DEF IInv, MsgInv, TriesInv
  <2>2. attempt[m] \in Nat
    BY DEF IInv, TypeOK
  <2> QED
    BY <2>1, <2>2
<1> QED
  BY <1>1, <1>2, <1>3 DEF Policy!Handle, outcomes, buriedLetters

\* It fails and has a try left.
LEMMA FailsInTime ==
  ASSUME IInv, NEW m \in Messages, NEW b \in Behaviours, HandlerFailsAgain(m, b)
  PROVE  Policy!TryAgain(m)
<1>1. outcomes[m] = "open" /\ UNCHANGED outcomes
  BY DEF IInv, MsgInv, FateInv, outcomes, Outcome, HandlerFailsAgain
<1>2. UNCHANGED <<PromisedRetries + 1, buriedLetters>>
  BY DEF PromisedRetries, buriedLetters, HandlerFailsAgain
<1>3. attempt[m] + 1 < PromisedRetries + 1
  <2>1. attempt[m] < MaxRetries /\ MaxRetries \in Nat /\ MaxRetries = PromisedRetries
    BY RetriesType, RetriesAsPromised DEF IInv, HandlerFailsAgain
  <2>2. attempt[m] \in Nat
    BY DEF IInv, TypeOK
  <2> QED
    BY <2>1, <2>2
<1>4. attempt' = [attempt EXCEPT ![m] = @ + 1]
  BY DEF HandlerFailsAgain
<1> QED
  BY <1>1, <1>2, <1>3, <1>4 DEF Policy!TryAgain, outcomes, buriedLetters

\* It fails on its last try.
LEMMA FailsAtLast ==
  ASSUME IInv, NEW m \in Messages, NEW b \in Behaviours, HandlerFailsForGood(m, b)
  PROVE  Policy!GiveUp(m)
<1>1. /\ phase[m] = "handling" /\ attempt[m] >= MaxRetries
      /\ fate' = [fate EXCEPT ![m] = "given up"]
      /\ UNCHANGED <<policy, letters>>
  BY DEF HandlerFailsForGood, Decide
<1>2. attempt' = [attempt EXCEPT ![m] = @ + 1]
  BY DEF HandlerFailsForGood
<1>3. outcomes' = [outcomes EXCEPT ![m] = "given up"] /\ outcomes[m] = "open"
  <2>1. FateInv(m) /\ TypeOK /\ "given up" \in Fates \ {"open"}
    BY DEF IInv, MsgInv, Fates
  <2>2. outcomes' = [outcomes EXCEPT ![m] = "given up"]
    BY <1>1, <2>1, DecideOutcome
  <2> QED
    BY <1>1, <2>1, <2>2 DEF FateInv, outcomes, Outcome
<1>4. UNCHANGED <<PromisedRetries + 1, buriedLetters>>
  BY <1>1 DEF PromisedRetries, buriedLetters
<1>5. attempt[m] + 1 = PromisedRetries + 1
  <2>1. attempt[m] <= MaxRetries /\ MaxRetries \in Nat /\ MaxRetries = PromisedRetries
    BY <1>1, RetriesType, RetriesAsPromised DEF IInv, MsgInv, TriesInv
  <2>2. attempt[m] \in Nat
    BY DEF IInv, TypeOK
  <2>3. attempt[m] >= MaxRetries
    BY <1>1
  <2> QED
    BY <2>1, <2>2, <2>3
<1> QED
  BY <1>2, <1>3, <1>4, <1>5 DEF Policy!GiveUp, outcomes, buriedLetters

\* Its dead letter is written, the first one.
LEMMA Buries ==
  ASSUME IInv, NEW m \in Messages, NEW written \in BOOLEAN, NEW failed \in BOOLEAN,
         NEW throws \in BOOLEAN, Routed(m, written, failed, throws)
  PROVE  Policy!Bury(m) \/ UNCHANGED Policy!policyVars
<1>1. /\ phase[m] \in {"refusing", "burying"}
      /\ letters' = [letters EXCEPT ![m] = IF written THEN @ + 1 ELSE @]
      /\ UNCHANGED <<policy, attempt, fate>>
  BY DEF Routed
<1>2. letters[m] = 0
  BY <1>1 DEF IInv, MsgInv, LettersInv, Past
<1>3. fate[m] \in {"rejected", "given up"}
  BY <1>1 DEF IInv, MsgInv, PlaceInv
<1>4. letters \in [Messages -> Nat]
  BY DEF IInv, TypeOK
<1>5. CASE written
  <2>1. letters' = [letters EXCEPT ![m] = 1]
    <3>1. letters' = [letters EXCEPT ![m] = letters[m] + 1]
      BY <1>1, <1>5
    <3>2. letters[m] + 1 = 1
      BY <1>2
    <3> QED
      BY <3>1, <3>2, Zenon
  <2>2. buriedLetters' = [buriedLetters EXCEPT ![m] = TRUE] /\ ~buriedLetters[m]
    <3>1. \A n \in Messages : (letters'[n] > 0) = (IF n = m THEN TRUE ELSE letters[n] > 0)
      <4>1. letters'[m] = 1 /\ \A n \in Messages \ {m} : letters'[n] = letters[n]
        BY <1>4, <2>1
      <4>2. letters'[m] > 0
        BY <4>1
      <4> QED
        BY <4>1, <4>2, Zenon
    <3>2. ~(letters[m] > 0)
      BY <1>2
    <3>3. ~buriedLetters[m]
      BY <3>2 DEF buriedLetters
    <3> QED
      BY <3>1, <3>3 DEF buriedLetters
  <2>3. UNCHANGED <<PromisedRetries + 1, outcomes>> /\ outcomes[m] = "given up"
    BY <1>1, <1>3 DEF PromisedRetries, outcomes, Outcome
  <2> QED
    BY <1>1, <2>2, <2>3 DEF Policy!Bury, outcomes, buriedLetters
<1>6. CASE ~written
  <2>1. UNCHANGED letters
    BY <1>1, <1>4, <1>6
  <2> QED
    BY <1>1, <2>1, PolicyStutters
<1> QED
  BY <1>5, <1>6

\* Whatever m does next is a step of the policy, or not seen by it.
LEMMA ProceedRefines ==
  ASSUME IInv, NEW m \in Messages, Proceed(m)
  PROVE  Policy!Next \/ UNCHANGED Policy!policyVars
<1>0. MsgInv(m) /\ TypeOK
  BY DEF IInv
<1>1. CASE Validated(m)
  BY <1>1, PolicyStutters DEF Validated
<1>2. CASE Refused(m) \/ ValidatorMissing(m)
  <2>1. phase[m] = "validating" /\ UNCHANGED <<policy, attempt, letters>>
    BY <1>2 DEF Refused, ValidatorMissing
  <2>2. PICK f \in {"rejected", "unvalidated"} : fate' = [fate EXCEPT ![m] = f]
    BY <1>2 DEF Refused, ValidatorMissing, Decide
  <2>3. fate[m] = "open" /\ attempt[m] = 0
    BY <1>0, <2>1 DEF MsgInv, FateInv, TriesInv
  <2>4. f \in Fates \ {"open", "handled"}
    BY DEF Fates
  <2>5. Policy!GiveUp(m)
    BY <2>1, <2>2, <2>3, <2>4, GivesUpUntried
  <2> QED
    BY <2>5 DEF Policy!Next
<1>3. ASSUME NEW b \in Behaviours, HandlerReturns(m, b)
      PROVE  Policy!Next
  <2>1. Policy!Handle(m)
    BY <1>3, HandlesInTime DEF HandlerReturns, Decide
  <2> QED
    BY <2>1 DEF Policy!Next
<1>4. CASE ResponseUnserializable(m)
  <2>1. Policy!Handle(m)
    BY <1>4, HandlesInTime DEF ResponseUnserializable, Decide
  <2> QED
    BY <2>1 DEF Policy!Next
<1>5. ASSUME NEW b \in Behaviours, HandlerFailsAgain(m, b)
      PROVE  Policy!Next
  BY <1>5, FailsInTime DEF Policy!Next
<1>6. ASSUME NEW b \in Behaviours, HandlerFailsForGood(m, b)
      PROVE  Policy!Next
  BY <1>6, FailsAtLast DEF Policy!Next
<1>7. ASSUME NEW written \in BOOLEAN, NEW failed \in BOOLEAN, NEW throws \in BOOLEAN,
             Routed(m, written, failed, throws)
      PROVE  Policy!Next \/ UNCHANGED Policy!policyVars
  BY <1>7, Buries DEF Policy!Next
<1>8. CASE ResponseSent(m)
  BY <1>8, PolicyStutters DEF ResponseSent
<1>9. ASSUME NEW reached \in BOOLEAN, ResponseFails(m, reached)
      PROVE  UNCHANGED Policy!policyVars
  BY <1>9, PolicyStutters DEF ResponseFails
<1>10. ASSUME NEW reached \in BOOLEAN, NEW failed \in BOOLEAN, Apology(m, reached, failed)
       PROVE  UNCHANGED Policy!policyVars
  BY <1>10, PolicyStutters DEF Apology
<1> QED
  BY <1>1, <1>2, <1>3, <1>4, <1>5, <1>6, <1>7, <1>8, <1>9, <1>10 DEF Proceed

\* So is every step.
LEMMA StepRefines ==
  ASSUME IInv, [Next]_vars
  PROVE  [Policy!Next]_(Policy!policyVars)
<1>1. ASSUME NEW m \in Messages, Receive(m)
      PROVE  UNCHANGED Policy!policyVars
  BY <1>1, PolicyStutters DEF Receive
<1>2. ASSUME NEW m \in Messages, ReceiveUndecodable(m)
      PROVE  Policy!Next
  <2>1. /\ phase[m] = "idle" /\ UNCHANGED <<policy, attempt, letters>>
        /\ fate' = [fate EXCEPT ![m] = "undecodable"]
    BY <1>2 DEF ReceiveUndecodable, Arrives, Decide
  <2>2. fate[m] = "open" /\ attempt[m] = 0
    BY <2>1 DEF IInv, MsgInv, FateInv, TriesInv
  <2>3. "undecodable" \in Fates \ {"open", "handled"}
    BY DEF Fates
  <2>4. Policy!GiveUp(m)
    BY <2>1, <2>2, <2>3, GivesUpUntried
  <2> QED
    BY <2>4 DEF Policy!Next
<1>3. ASSUME NEW m \in Messages, Proceed(m)
      PROVE  Policy!Next \/ UNCHANGED Policy!policyVars
  BY <1>3, ProceedRefines
<1>4. ASSUME NEW c \in Channels, SubscriptionFails(c)
      PROVE  UNCHANGED Policy!policyVars
  BY <1>4, PolicyStutters DEF SubscriptionFails
<1>5. CASE Close \/ CloseEnds
  BY <1>5, PolicyStutters DEF Close, CloseEnds
<1>6. ASSUME NEW late \in BOOLEAN, DrainEnds(late)
      PROVE  UNCHANGED Policy!policyVars
  BY <1>6, PolicyStutters DEF DrainEnds
<1>7. CASE UNCHANGED vars
  BY <1>7, PolicyStutters DEF vars
<1> QED
  BY <1>1, <1>2, <1>3, <1>4, <1>5, <1>6, <1>7 DEF Next

\* A handler with retries and a dead letter channel may rely on RetryPolicy: as many
\* tries as promised, a success is final, and one dead letter at most.
THEOREM RetriesRefinePolicy == Spec => ImplementsRetryPolicy
<1>1. Init => Policy!Init
  <2>1. SUFFICES ASSUME Init
                 PROVE  Policy!Init
    OBVIOUS
  <2>2. TypeOK
    BY <2>1, InitIInv DEF IInv
  <2>3. PromisedRetries + 1 \in Nat \ {0}
    <3>1. PromisedRetries \in Nat
      BY <2>2, RetriesType, RetriesAsPromised
    <3> QED
      BY <3>1
  <2>4. outcomes = [m \in Messages |-> "open"] /\ buriedLetters = [m \in Messages |-> FALSE]
    <3>1. letters = [m \in Messages |-> 0] /\ fate = [m \in Messages |-> "open"]
      BY <2>1 DEF Init
    <3>2. \A m \in Messages : Outcome(m) = "open" /\ (letters[m] > 0) = FALSE
      BY <3>1 DEF Outcome
    <3> QED
      BY <3>2 DEF outcomes, buriedLetters
  <2>5. attempt = [m \in Messages |-> 0]
    BY <2>1 DEF Init
  <2> QED
    BY <2>3, <2>4, <2>5 DEF Policy!Init, outcomes, buriedLetters
<1>2. IInv /\ [Next]_vars => [Policy!Next]_(Policy!policyVars)
  BY StepRefines
<1> QED
  BY <1>1, <1>2, Invariance, PTL DEF Spec, ImplementsRetryPolicy, Policy!Spec

-----------------------------------------------------------------------------
(* The mock *)

\* A handler that ran once has decided over its message, and behaved accordingly.
Mirrors(m) ==
  only[m] # "none" =>
    /\ only[m] \in Behaviours /\ fate[m] \in {"handled", "given up"}
    /\ fate[m] = "handled" <=> Succeeds(m, only[m])

\* A response that was sent without trouble tells what became of the request, and
\* whether its result could be serialized.
ToldInv(m) ==
  /\ phase[m] \notin {"apologizing", "done"} => "body" \notin faults[m]
  /\ phase[m] = "apologizing" =>
       "send" \in faults[m] \/ "body" \in faults[m] \/ fate[m] # "handled"
  /\ phase[m] = "done" /\ m \in Requests /\ "send" \notin faults[m] =>
       Len(answers[m]) = 1 /\ (answers[m][1] <=> fate[m] = "handled" /\ "body" \notin faults[m])

MockInv == \A m \in Messages : Mirrors(m) /\ ToldInv(m)

\* Counting answers.
LEMMA NoneLeft ==
  ASSUME NEW n \in Nat, n <= 1, n # 1
  PROVE  n = 0
OBVIOUS

LEMMA SomeAnswer ==
  ASSUME NEW s \in Seq(BOOLEAN), s # <<>>
  PROVE  Len(s) \in Nat /\ Len(s) # 0
OBVIOUS

LEMMA OneAnswer ==
  ASSUME NEW s \in Seq(BOOLEAN), Len(s) = 1
  PROVE  s[1] \in BOOLEAN /\ s = <<s[1]>>
OBVIOUS

\* The messages that a step leaves alone stay as they are.
LEMMA MockOthers ==
  ASSUME MockInv, NEW n \in Messages, policy' = policy, phase'[n] = phase[n],
         answers'[n] = answers[n], fate'[n] = fate[n], faults'[n] = faults[n],
         only'[n] = only[n]
  PROVE  Mirrors(n)' /\ ToldInv(n)'
BY DEF MockInv, Mirrors, ToldInv, Succeeds, Requests, Events, OnChannel

\* A step without an execution of the handler that moves m on.
LEMMA MockMoves ==
  ASSUME TypeOK, MockInv, NEW m \in Messages, UNCHANGED <<policy, answers, only>>,
         NEW p \in PhaseOf, NEW T \in SUBSET FaultOf, NEW f \in Fates,
         phase' = [phase EXCEPT ![m] = p], faults' = [faults EXCEPT ![m] = @ \cup T],
         fate' = [fate EXCEPT ![m] = f], f = fate[m] \/ fate[m] = "open",
         phase[m] \notin {"apologizing", "done"}, "body" \notin T,
         p = "apologizing" => "send" \in T \/ f # "handled",
         p = "done" /\ m \in Requests => "send" \in T
  PROVE  MockInv'
<1>1. /\ phase'[m] = p /\ faults'[m] = faults[m] \cup T /\ fate'[m] = f /\ only'[m] = only[m]
      /\ \A n \in Messages \ {m} :
           phase'[n] = phase[n] /\ faults'[n] = faults[n] /\ fate'[n] = fate[n]
  BY DEF TypeOK
<1>2. ToldInv(m)'
  BY <1>1 DEF MockInv, ToldInv, Requests, OnChannel
<1>3. Mirrors(m)'
  BY <1>1 DEF MockInv, Mirrors, Succeeds, Events, OnChannel
<1>4. \A n \in Messages \ {m} : Mirrors(n)' /\ ToldInv(n)'
  BY <1>1, MockOthers
<1> QED
  BY <1>2, <1>3, <1>4 DEF MockInv

\* The handler has ended for good, well or with a failure.
LEMMA MockTried ==
  ASSUME TypeOK, MockInv, NEW m \in Messages, NEW b \in Behaviours,
         UNCHANGED <<policy, answers>>, NoteOnly(m, b),
         NEW p \in PhaseOf, NEW T \in SUBSET FaultOf, NEW f \in {"handled", "given up"},
         phase' = [phase EXCEPT ![m] = p], faults' = [faults EXCEPT ![m] = @ \cup T],
         fate' = [fate EXCEPT ![m] = f], f = "handled" <=> Succeeds(m, b),
         phase[m] = "handling", p \notin {"apologizing", "done"} => "body" \notin T,
         p = "apologizing" => "send" \in T \/ "body" \in T,
         p = "done" /\ m \in Requests => "send" \in T
  PROVE  MockInv'
<1>1. /\ phase'[m] = p /\ faults'[m] = faults[m] \cup T /\ fate'[m] = f
      /\ only'[m] = b \/ only'[m] = "none"
      /\ \A n \in Messages \ {m} :
           phase'[n] = phase[n] /\ faults'[n] = faults[n] /\ fate'[n] = fate[n]
             /\ only'[n] = only[n]
  BY DEF TypeOK, NoteOnly
<1>2. ToldInv(m)'
  BY <1>1 DEF MockInv, ToldInv, Requests, OnChannel
<1>3. Mirrors(m)'
  <2>1. CASE only'[m] = b
    <3>1. Succeeds(m, only[m])' <=> Succeeds(m, b)
      BY <2>1 DEF Succeeds, Events, OnChannel
    <3> QED
      BY <1>1, <2>1, <3>1 DEF Mirrors
  <2>2. CASE only'[m] = "none"
    BY <2>2 DEF Mirrors
  <2> QED
    BY <1>1, <2>1, <2>2
<1>4. \A n \in Messages \ {m} : Mirrors(n)' /\ ToldInv(n)'
  BY <1>1, MockOthers
<1> QED
  BY <1>2, <1>3, <1>4 DEF MockInv

\* A message is given up, with or without a dead letter.
LEMMA MockGivesUp ==
  ASSUME IInv, MockInv, NEW m \in Messages, NEW b \in Behaviours, HandlerFailsForGood(m, b)
  PROVE  MockInv'
<1>0. TypeOK
  BY DEF IInv
<1>1. /\ TypeOK /\ UNCHANGED <<policy, answers>> /\ NoteOnly(m, b) /\ phase[m] = "handling"
      /\ fate' = [fate EXCEPT ![m] = "given up"] /\ ~Succeeds(m, b)
  BY DEF IInv, HandlerFailsForGood, Decide
<1>2. CASE policy.dlq
  <2>1. ToDlq(m, "burying") /\ "burying" \in PhaseOf
    BY <1>2 DEF HandlerFailsForGood, PhaseOf
  <2>2. PICK p \in {"burying", "answering", "done"}, T \in SUBSET FaultOf :
          /\ phase' = [phase EXCEPT ![m] = p] /\ faults' = [faults EXCEPT ![m] = @ \cup T]
          /\ "body" \notin T /\ (p = "done" /\ m \in Requests => "send" \in T)
    BY <1>1, <2>1, ToDlqType
  <2> QED
    BY <1>1, <2>2, MockTried DEF PhaseOf
<1>3. CASE ~policy.dlq
  <2>0. {} \in SUBSET FaultOf
    OBVIOUS
  <2>1. Throws(m, {})
    BY <1>3 DEF HandlerFailsForGood
  <2>2. PICK p \in {"answering", "done"}, T \in SUBSET FaultOf :
          /\ phase' = [phase EXCEPT ![m] = p] /\ faults' = [faults EXCEPT ![m] = @ \cup T]
          /\ "body" \notin T /\ (p = "done" /\ m \in Requests => "send" \in T)
    BY <1>0, <2>0, <2>1, ThrowsType
  <2> QED
    BY <1>1, <2>2, MockTried DEF PhaseOf
<1> QED
  BY <1>2, <1>3

\* A handler succeeds; its result can be serialized, or not.
LEMMA MockReturns ==
  ASSUME IInv, MockInv, NEW m \in Messages, NEW b \in Behaviours,
         HandlerReturns(m, b) \/ (b = "value" /\ ResponseUnserializable(m))
  PROVE  MockInv'
<1>1. /\ TypeOK /\ UNCHANGED <<policy, answers>> /\ NoteOnly(m, b) /\ phase[m] = "handling"
      /\ fate' = [fate EXCEPT ![m] = "handled"] /\ Succeeds(m, b)
  BY DEF IInv, HandlerReturns, ResponseUnserializable, Decide, Succeeds
<1>2. CASE ResponseUnserializable(m)
  <2>1. Respond(m, "apologizing", {"body"}) /\ "apologizing" \in PhaseOf
          /\ {"body"} \in SUBSET FaultOf
    BY <1>2 DEF ResponseUnserializable, PhaseOf, FaultOf
  <2>2. PICK p \in {"apologizing", "done"}, T \in SUBSET FaultOf :
          /\ phase' = [phase EXCEPT ![m] = p] /\ faults' = [faults EXCEPT ![m] = @ \cup T]
          /\ "body" \in T /\ (p = "done" => "send" \in T)
    BY <1>1, <2>1, RespondType
  <2> QED
    BY <1>1, <2>2, MockTried DEF PhaseOf
<1>3. CASE HandlerReturns(m, b) /\ m \in Requests
  <2>1. Respond(m, "answering", {}) /\ "answering" \in PhaseOf /\ {} \in SUBSET FaultOf
    BY <1>3 DEF HandlerReturns, PhaseOf
  <2>2. PICK p \in {"answering", "done"}, T \in SUBSET FaultOf :
          /\ phase' = [phase EXCEPT ![m] = p] /\ faults' = [faults EXCEPT ![m] = @ \cup T]
          /\ "body" \notin T /\ (p = "done" => "send" \in T)
    BY <1>1, <2>1, RespondType
  <2> QED
    BY <1>1, <2>2, MockTried DEF PhaseOf
<1>4. CASE HandlerReturns(m, b) /\ m \notin Requests
  <2>1. /\ phase' = [phase EXCEPT ![m] = "done"] /\ faults' = [faults EXCEPT ![m] = @ \cup {}]
        /\ "done" \in PhaseOf /\ {} \in SUBSET FaultOf
    BY <1>4 DEF HandlerReturns, GoTo, Note, PhaseOf
  <2> QED
    BY <1>1, <1>4, <2>1, MockTried
<1> QED
  BY <1>2, <1>3, <1>4

\* A message that no handler saw: it cannot be read, is refused, or cannot be validated.
LEMMA MockUntried ==
  ASSUME IInv, MockInv, NEW m \in Messages,
         ReceiveUndecodable(m) \/ Refused(m) \/ ValidatorMissing(m)
  PROVE  MockInv'
<1>1. TypeOK /\ UNCHANGED <<policy, answers, only>> /\ phase[m] \in {"idle", "validating"}
  BY DEF IInv, ReceiveUndecodable, Refused, ValidatorMissing, Arrives
<1>2. fate[m] = "open"
  BY <1>1 DEF IInv, MsgInv, FateInv
<1>3. PICK f \in {"undecodable", "rejected", "unvalidated"} : fate' = [fate EXCEPT ![m] = f]
  BY DEF ReceiveUndecodable, Refused, ValidatorMissing, Decide
<1>4. f \in Fates /\ f # "handled"
  BY DEF Fates
<1>5. \E p \in PhaseOf, T \in SUBSET FaultOf :
        /\ phase' = [phase EXCEPT ![m] = p] /\ faults' = [faults EXCEPT ![m] = @ \cup T]
        /\ "body" \notin T /\ (p = "done" /\ m \in Requests => "send" \in T)
  <2>0. {} \in SUBSET FaultOf
    OBVIOUS
  <2>1. CASE Throws(m, {})
    <3>1. PICK p \in {"answering", "done"}, T \in SUBSET FaultOf :
            /\ phase' = [phase EXCEPT ![m] = p] /\ faults' = [faults EXCEPT ![m] = @ \cup T]
            /\ "body" \notin T /\ (p = "done" /\ m \in Requests => "send" \in T)
      BY <1>1, <2>0, <2>1, ThrowsType
    <3> QED
      BY <3>1 DEF PhaseOf
  <2>2. CASE ToDlq(m, "refusing")
    <3>1. PICK p \in {"refusing", "answering", "done"}, T \in SUBSET FaultOf :
            /\ phase' = [phase EXCEPT ![m] = p] /\ faults' = [faults EXCEPT ![m] = @ \cup T]
            /\ "body" \notin T /\ (p = "done" /\ m \in Requests => "send" \in T)
      <4>1. "refusing" \in PhaseOf
        BY DEF PhaseOf
      <4> QED
        BY <1>1, <2>2, <4>1, ToDlqType
    <3> QED
      BY <3>1 DEF PhaseOf
  <2>3. CASE ReceiveUndecodable(m)
    <3>1. PICK p \in {"apologizing", "done"}, T \in SUBSET FaultOf :
            /\ phase' = [phase EXCEPT ![m] = p] /\ faults' = [faults EXCEPT ![m] = @ \cup T]
            /\ "body" \notin T /\ (p = "done" /\ m \in Requests => "send" \in T)
      BY <1>1, <2>0, <2>3, UnreadableType DEF ReceiveUndecodable
    <3> QED
      BY <3>1 DEF PhaseOf
  <2> QED
    BY <2>1, <2>2, <2>3 DEF Refused, ValidatorMissing
<1> QED
  BY <1>1, <1>2, <1>3, <1>4, <1>5, MockMoves

\* A message comes in, is let through, or is tried again.
LEMMA MockGoesOn ==
  ASSUME IInv, MockInv, NEW m \in Messages, NEW b,
         Receive(m) \/ Validated(m) \/ HandlerFailsAgain(m, b)
  PROVE  MockInv'
<1>1. /\ TypeOK /\ UNCHANGED <<policy, answers, only, fate, faults>>
      /\ phase[m] \notin {"apologizing", "done"} /\ phase'[m] \notin {"apologizing", "done"}
      /\ \A n \in Messages \ {m} : phase'[n] = phase[n]
  BY DEF IInv, TypeOK, Receive, Validated, HandlerFailsAgain, Arrives, GoTo
<1>2. Mirrors(m)' /\ ToldInv(m)'
  BY <1>1 DEF MockInv, Mirrors, ToldInv, Succeeds, Events, OnChannel
<1>3. \A n \in Messages \ {m} : Mirrors(n)' /\ ToldInv(n)'
  BY <1>1, MockOthers
<1> QED
  BY <1>2, <1>3 DEF MockInv

\* The dead letter's send has ended.
LEMMA MockRouted ==
  ASSUME IInv, MockInv, NEW m \in Messages, NEW written, NEW failed, NEW throws,
         Routed(m, written, failed, throws)
  PROVE  MockInv'
<1>1. /\ TypeOK /\ UNCHANGED <<policy, answers, only, fate>>
      /\ phase[m] \in {"refusing", "burying"}
  BY DEF IInv, Routed
<1>2. PICK S \in SUBSET {"letter"} : Throws(m, S)
  BY DEF Routed
<1>3. PICK p \in {"answering", "done"}, T \in SUBSET FaultOf :
        /\ phase' = [phase EXCEPT ![m] = p] /\ faults' = [faults EXCEPT ![m] = @ \cup T]
        /\ "body" \notin T /\ (p = "done" /\ m \in Requests => "send" \in T)
  <2>1. S \in SUBSET FaultOf /\ "body" \notin S
    BY <1>2 DEF FaultOf
  <2> QED
    BY <1>1, <1>2, <2>1, ThrowsType
<1>4. fate' = [fate EXCEPT ![m] = fate[m]] /\ fate[m] \in Fates
  BY <1>1 DEF TypeOK
<1> QED
  BY <1>1, <1>3, <1>4, MockMoves DEF PhaseOf

\* A response is sent, or its sending fails.
LEMMA MockAnswers ==
  ASSUME IInv, MockInv, NEW m \in Messages, NEW reached \in BOOLEAN, NEW failed \in BOOLEAN,
         ResponseSent(m) \/ ResponseFails(m, reached) \/ Apology(m, reached, failed)
  PROVE  MockInv'
<1>1. /\ TypeOK /\ UNCHANGED <<policy, only, fate>> /\ m \in Requests /\ AnswersInv(m)
      /\ Executed(m) \in BOOLEAN /\ ToldInv(m) /\ Mirrors(m)
  BY DEF IInv, MockInv, MsgInv, PlaceInv, ResponseSent, ResponseFails, Apology, Executed
<1>2. \A n \in Messages \ {m} :
        phase'[n] = phase[n] /\ faults'[n] = faults[n] /\ answers'[n] = answers[n]
  BY <1>1, TakesType
  DEF TypeOK, ResponseSent, ResponseFails, Apology, Respond, GoTo, Note, Takes
<1>3. ToldInv(m)'
  <2>1. CASE ResponseSent(m)
    <3>1. /\ phase[m] = "answering" /\ phase'[m] = "done" /\ faults'[m] = faults[m]
          /\ Takes(m, Executed(m), TRUE)
      BY <1>1, <2>1 DEF ResponseSent, GoTo, TypeOK
    <3>2. Len(answers[m]) = 0 /\ "body" \notin faults[m]
      BY <1>1, <3>1 DEF AnswersInv, ToldInv
    <3>3. Len(answers'[m]) = 0 + 1 /\ answers'[m][0 + 1] = Executed(m)
      BY <1>1, <3>1, <3>2, TakesType, Zenon
    <3>4. Len(answers'[m]) = 1 /\ answers'[m][1] = Executed(m)
      BY <3>3
    <3>5. answers'[m][1] <=> fate'[m] = "handled"
      BY <1>1, <3>4, Zenon DEF Executed
    <3> QED
      BY <3>1, <3>2, <3>4, <3>5 DEF ToldInv
  <2>2. CASE ResponseFails(m, reached)
    <3>1. "send" \in faults'[m] /\ phase'[m] \in {"apologizing", "done"}
      BY <1>1, <2>2 DEF ResponseFails, Respond, GoTo, Note, TypeOK
    <3> QED
      BY <3>1 DEF ToldInv
  <2>3. CASE Apology(m, reached, failed)
    <3>1. /\ phase[m] = "apologizing" /\ phase'[m] = "done"
          /\ faults'[m] = faults[m] \cup (IF failed THEN {"send"} ELSE {})
          /\ Takes(m, FALSE, reached) /\ (reached \/ failed)
      BY <1>1, <2>3 DEF Apology, GoTo, Note, TypeOK
    <3>2. CASE "send" \in faults'[m]
      BY <3>1, <3>2 DEF ToldInv
    <3>3. CASE "send" \notin faults'[m]
      <4>1. reached /\ "send" \notin faults[m] /\ faults'[m] = faults[m]
        BY <3>1, <3>3
      <4>2. ~(fate[m] = "handled" /\ "body" \notin faults[m])
        BY <1>1, <3>1, <4>1 DEF ToldInv
      <4>3. Len(answers[m]) = 0
        <5>1. Len(answers[m]) <= 1 /\ Len(answers[m]) # 1 /\ Len(answers[m]) \in Nat
          BY <1>1, <3>1, <4>1, TakesType DEF AnswersInv
        <5> QED
          BY <5>1, NoneLeft, Zenon
      <4>4. Len(answers'[m]) = 0 + 1 /\ answers'[m][0 + 1] = FALSE
        BY <1>1, <3>1, <4>1, <4>3, TakesType, Zenon
      <4>5. Len(answers'[m]) = 1 /\ answers'[m][1] = FALSE
        BY <4>4
      <4> QED
        BY <1>1, <3>1, <4>1, <4>2, <4>5 DEF ToldInv
    <3> QED
      BY <3>2, <3>3
  <2> QED
    BY <2>1, <2>2, <2>3
<1>4. Mirrors(m)'
  BY <1>1 DEF Mirrors, Succeeds, Events, OnChannel
<1>5. \A n \in Messages \ {m} : Mirrors(n)' /\ ToldInv(n)'
  BY <1>1, <1>2, MockOthers
<1> QED
  BY <1>3, <1>4, <1>5 DEF MockInv

LEMMA MockStep == IInv /\ MockInv /\ [Next]_vars => MockInv'
<1> SUFFICES ASSUME IInv, MockInv, [Next]_vars PROVE MockInv'
  OBVIOUS
<1>1. ASSUME NEW m \in Messages, ReceiveUndecodable(m) \/ Refused(m) \/ ValidatorMissing(m)
      PROVE  MockInv'
  BY <1>1, MockUntried
<1>2. ASSUME NEW m \in Messages, NEW b \in Behaviours,
             \/ Receive(m) \/ Validated(m) \/ HandlerReturns(m, b) \/ HandlerFailsAgain(m, b)
             \/ HandlerFailsForGood(m, b)
      PROVE  MockInv'
  BY <1>2, MockGoesOn, MockReturns, MockGivesUp
<1>3. "value" \in Behaviours
  BY DEF Behaviours
<1>4. ASSUME NEW m \in Messages, ResponseUnserializable(m) PROVE MockInv'
  BY <1>3, <1>4, MockReturns
<1>5. ASSUME NEW m \in Messages, NEW written, NEW failed, NEW throws,
             Routed(m, written, failed, throws)
      PROVE  MockInv'
  BY <1>5, MockRouted
<1>6. ASSUME NEW m \in Messages, NEW reached \in BOOLEAN, NEW failed \in BOOLEAN,
             ResponseSent(m) \/ ResponseFails(m, reached) \/ Apology(m, reached, failed)
      PROVE  MockInv'
  BY <1>6, MockAnswers
<1>7. ASSUME NEW c, NEW late,
             SubscriptionFails(c) \/ DrainEnds(late) \/ Close \/ CloseEnds \/ UNCHANGED vars
      PROVE  MockInv'
  <2>1. UNCHANGED <<policy, phase, answers, fate, faults, only>>
    BY <1>7 DEF SubscriptionFails, DrainEnds, Close, CloseEnds, vars
  <2> QED
    BY <2>1, MockOthers DEF MockInv
<1> QED
  BY <1>1, <1>2, <1>3, <1>4, <1>5, <1>6, <1>7 DEF Next, Proceed

\* MockKubeMQServer tells a test what the server tells a requester, for any handler
\* that is run once and any way it behaves: an empty stream fails a request and not
\* an event.  Only an answer that cannot be serialized is different, as no mock
\* answer is serialized.
THEOREM TheMockAgrees == Spec => []MockAgrees
<1>1. Init => MockInv
  <2> SUFFICES ASSUME Init, NEW m \in Messages PROVE Mirrors(m) /\ ToldInv(m)
    BY DEF MockInv
  <2>1. phase[m] = "idle" /\ faults[m] = {} /\ only[m] = "none"
    BY DEF Init
  <2> QED
    BY <2>1 DEF Mirrors, ToldInv
<1>2. IInv /\ MockInv /\ [Next]_vars => MockInv'
  BY MockStep
<1>3. IInv /\ MockInv => MockAgrees
  <2> SUFFICES ASSUME TypeOK, NEW m \in Messages, only[m] \in Behaviours,
                      fate[m] \in {"handled", "given up"},
                      fate[m] = "handled" <=> Succeeds(m, only[m]), ToldInv(m), MsgInv(m)
               PROVE  /\ m \in Requests /\ answers[m] # <<>> /\ "send" \notin faults[m] =>
                           answers[m] = <<MockExecuted(only[m]) /\ "body" \notin faults[m]>>
                      /\ m \in Events =>
                           /\ fate[m] = "handled" <=> MockEventResolves(only[m])
                           /\ fate[m] = "handled" => MockTaggedEventResolves(only[m])
    BY DEF IInv, MockInv, Mirrors, MockAgrees
  <2>1. ASSUME m \in Requests, answers[m] # <<>>, "send" \notin faults[m]
        PROVE  answers[m] = <<MockExecuted(only[m]) /\ "body" \notin faults[m]>>
    <3>0. answers[m] \in Seq(BOOLEAN)
      BY DEF TypeOK
    <3>1. Len(answers[m]) \in Nat /\ Len(answers[m]) # 0
      BY <2>1, <3>0, SomeAnswer, Zenon
    <3>2. phase[m] = "done"
      <4>1. phase[m] = "apologizing" => Len(answers[m]) <= 1 /\ Len(answers[m]) # 1
        BY <2>1 DEF MsgInv, AnswersInv
      <4>2. phase[m] # "apologizing"
        BY <3>1, <4>1, NoneLeft, Zenon
      <4> QED
        BY <3>1, <4>2 DEF MsgInv, AnswersInv
    <3>3. Len(answers[m]) = 1 /\ (answers[m][1] <=> fate[m] = "handled" /\ "body" \notin faults[m])
      BY <2>1, <3>2 DEF ToldInv
    <3>4. (fate[m] = "handled") <=> MockExecuted(only[m])
      BY <2>1, Kinds DEF Succeeds, MockExecuted
    <3>5. answers[m][1] \in BOOLEAN /\ answers[m] = <<answers[m][1]>>
      BY <3>0, <3>3, OneAnswer, Zenon
    <3>6. answers[m][1] = (MockExecuted(only[m]) /\ "body" \notin faults[m])
      BY <3>3, <3>4, <3>5, Zenon DEF MockExecuted
    <3> QED
      BY <3>5, <3>6
  <2>2. ASSUME m \in Events
        PROVE  /\ fate[m] = "handled" <=> MockEventResolves(only[m])
               /\ fate[m] = "handled" => MockTaggedEventResolves(only[m])
    BY <2>2
    DEF Succeeds, MockEventResolves, MockResolves, MockTaggedEventResolves, Behaviours
  <2> QED
    BY <2>1, <2>2
<1> QED
  BY <1>1, <1>2, <1>3, Invariance, PTL DEF Spec

-----------------------------------------------------------------------------
(* The health indicator *)

\* A message whose handling has come to an end is on its way out.
Onward == {"answering", "apologizing", "done"}

LEMMA RespondMoves ==
  ASSUME TypeOK, NEW m \in Messages, NEW next \in Onward, NEW S, Respond(m, next, S)
  PROVE  phase'[m] \in Onward
BY DEF TypeOK, Respond, GoTo, Onward

LEMMA ThrowsMoves ==
  ASSUME TypeOK, NEW m \in Messages, NEW S, Throws(m, S)
  PROVE  phase'[m] \in Onward
<1>1. CASE m \in Requests
  BY <1>1, RespondMoves DEF Throws, Onward
<1>2. CASE m \notin Requests
  BY <1>2 DEF TypeOK, Throws, GoTo, Onward
<1> QED
  BY <1>1, <1>2

\* Errors that are cleared are those of the channel of a message that has moved.
LEMMA ClearedByItsOwn ==
  ASSUME NEW m \in Messages, NEW returned, subErrors' = ErrorsAfter(m, returned),
         phase'[m] # phase[m]
  PROVE  \A c \in subErrors \ subErrors' : \E n \in OnChannel(c) : phase'[n] # phase[n]
BY DEF ErrorsAfter, OnChannel

LEMMA NotClearedOtherwise ==
  ASSUME subErrors \subseteq subErrors'
  PROVE  \A c \in subErrors \ subErrors' : \E n \in OnChannel(c) : phase'[n] # phase[n]
OBVIOUS

LEMMA ErrorsClearedByTheirOwn ==
  ASSUME IInv, [Next]_vars
  PROVE  \A c \in subErrors \ subErrors' :
           status' = "closed" \/ \E m \in OnChannel(c) : phase'[m] # phase[m]
<1> DEFINE Truthful ==
             \A c \in subErrors \ subErrors' : \E m \in OnChannel(c) : phase'[m] # phase[m]
<1>0. TypeOK /\ "answering" \in Onward /\ "apologizing" \in Onward
  BY DEF IInv, Onward
<1>1. ASSUME NEW m \in Messages, Refused(m) PROVE Truthful
  <2>1. CASE m \in Events /\ policy.dlq
    BY <1>1, <2>1, NotClearedOtherwise DEF Refused
  <2>2. CASE ~(m \in Events /\ policy.dlq)
    <3>1. phase'[m] # phase[m]
      BY <1>0, <1>1, <2>2, ThrowsMoves DEF Refused, Onward
    <3> QED
      BY <1>1, <2>2, <3>1, ClearedByItsOwn DEF Refused
  <2> QED
    BY <2>1, <2>2
<1>2. ASSUME NEW m \in Messages, ValidatorMissing(m) PROVE Truthful
  <2>1. phase'[m] # phase[m]
    BY <1>0, <1>2, ThrowsMoves DEF ValidatorMissing, Onward
  <2> QED
    BY <1>2, <2>1, ClearedByItsOwn DEF ValidatorMissing
<1>3. ASSUME NEW m \in Messages, NEW b \in Behaviours, HandlerReturns(m, b) PROVE Truthful
  <2>1. phase'[m] \in Onward
    <3>1. CASE m \in Requests
      BY <1>0, <1>3, <3>1, RespondMoves DEF HandlerReturns
    <3>2. CASE m \notin Requests
      BY <1>0, <1>3, <3>2 DEF HandlerReturns, TypeOK, GoTo, Onward
    <3> QED
      BY <3>1, <3>2
  <2>2. phase'[m] # phase[m]
    BY <1>3, <2>1 DEF HandlerReturns, Onward
  <2> QED
    BY <1>3, <2>2, ClearedByItsOwn DEF HandlerReturns
<1>4. ASSUME NEW m \in Messages, ResponseUnserializable(m) PROVE Truthful
  <2>1. phase'[m] # phase[m]
    BY <1>0, <1>4, RespondMoves DEF ResponseUnserializable, Onward
  <2> QED
    BY <1>4, <2>1, ClearedByItsOwn DEF ResponseUnserializable
<1>5. ASSUME NEW m \in Messages, NEW b \in Behaviours, HandlerFailsForGood(m, b) PROVE Truthful
  <2>1. CASE policy.dlq
    BY <1>5, <2>1, NotClearedOtherwise DEF HandlerFailsForGood
  <2>2. CASE ~policy.dlq
    <3>1. phase'[m] # phase[m]
      BY <1>0, <1>5, <2>2, ThrowsMoves DEF HandlerFailsForGood, Onward
    <3> QED
      BY <1>5, <2>2, <3>1, ClearedByItsOwn DEF HandlerFailsForGood
  <2> QED
    BY <2>1, <2>2
<1>6. ASSUME NEW m \in Messages, NEW written, NEW failed, NEW throws,
             Routed(m, written, failed, throws)
      PROVE  Truthful
  <2>1. phase'[m] # phase[m]
    BY <1>0, <1>6, ThrowsMoves DEF Routed, Onward
  <2> QED
    BY <1>6, <2>1, ClearedByItsOwn DEF Routed
<1>7. ASSUME NEW m \in Messages, NEW b, NEW reached, NEW failed,
             \/ Receive(m) \/ ReceiveUndecodable(m) \/ Validated(m) \/ HandlerFailsAgain(m, b)
             \/ ResponseSent(m) \/ ResponseFails(m, reached) \/ Apology(m, reached, failed)
      PROVE  Truthful
  BY <1>7, NotClearedOtherwise
  DEF Receive, ReceiveUndecodable, Validated, HandlerFailsAgain, ResponseSent, ResponseFails,
      Apology
<1>8. ASSUME NEW c \in Channels, SubscriptionFails(c) PROVE Truthful
  BY <1>8, NotClearedOtherwise DEF SubscriptionFails
<1>9. ASSUME NEW late, DrainEnds(late) \/ Close \/ UNCHANGED vars PROVE Truthful
  BY <1>9, NotClearedOtherwise DEF DrainEnds, Close, vars
<1>10. CloseEnds => status' = "closed"
  BY DEF CloseEnds
<1> QED
  BY <1>1, <1>2, <1>3, <1>4, <1>5, <1>6, <1>7, <1>8, <1>9, <1>10 DEF Next, Proceed

\* Of the subscriptions that have failed nobody is told that they are well before a
\* message has come through on each (subscriptionErrors, isHealthy).
THEOREM HealthIsTruthful == Spec => HealthTruthful
<1>1. IInv /\ [Next]_vars =>
        /\ \A c \in subErrors \ subErrors' :
             status' = "closed" \/ \E m \in OnChannel(c) : phase'[m] # phase[m]
        /\ IsHealthy(TRUE) = "degraded" /\ IsHealthy(TRUE)' = "up" =>
             \A c \in subErrors : \E m \in OnChannel(c) : phase'[m] # phase[m]
  <2> SUFFICES ASSUME IInv, [Next]_vars, IsHealthy(TRUE)' = "up"
               PROVE  \A c \in subErrors : \E m \in OnChannel(c) : phase'[m] # phase[m]
    BY ErrorsClearedByTheirOwn
  <2>1. status' # "closed" /\ subErrors' = {}
    BY DEF IsHealthy, HasClient
  <2> QED
    BY <2>1, ErrorsClearedByTheirOwn
<1> QED
  BY <1>1, Invariance, PTL DEF Spec, HealthTruthful

=============================================================================
