------------------------- MODULE ClientProxy_proofs -------------------------
(***************************************************************************)
(* Theorems about ClientProxy, for any sets of requests, any failure       *)
(* threshold and any number of probes.                                     *)
(***************************************************************************)
EXTENDS ClientProxy, TLAPS

\* Where a request can be.
PhaseOf == {"idle", "waiting", "ready", "sent", "failing", "answered", "dropped"}

\* connect() and close(): which one runs, and whether there is a client.
ConnectionInv ==
  /\ closing <=> closer # "none"
  /\ connecting \in {"creating", "discarding"} => ~client
  /\ closer \in {"closingClient", "done", "failed"} => connecting = "none"
  /\ closer = "closingClient" => client
  /\ closer \in {"done", "failed"} => ~client

\* Before the breaker is made the circuit is closed and has counted nothing.
MadeInv ==
  /\ ~made => state = "closed" /\ ~resetTimer
  /\ made => configured

\* The breaker counts the failures since the last success, up to the threshold.
StreakInv == failures = streak

\* Every outcome ends a half-open circuit, so a probe that was sent is still out.
ProbeInv == state = "half-open" /\ probes > 0 => \E r \in Requests : phase[r] = "sent"

IInv ==
  /\ TypeOK /\ ConnectionInv /\ NoClientLeak /\ AnsweredOnce
  /\ MadeInv /\ TimerWhileOpen /\ StreakInv /\ ProbeInv /\ ProbeBudget

\* Recording an outcome keeps the types of the breaker.
LEMMA RecordsSuccessType ==
  ASSUME TypeOK, RecordsSuccess
  PROVE  Breaker!TypeOK' /\ streak' \in 0 .. FailureThreshold
<1>1. 0 \in 0 .. FailureThreshold
  BY BreakerAssumption
<1> QED
  BY <1>1 DEF TypeOK, RecordsSuccess, NextStreak, breaker, Breaker!RecordSuccess, Breaker!TypeOK

\* As a failure it is counted up to the threshold.
LEMMA RecordsFailureType ==
  ASSUME TypeOK, RecordsFailure
  PROVE  Breaker!TypeOK' /\ streak' \in 0 .. FailureThreshold
<1>1. NextStreak(TRUE) \in 0 .. FailureThreshold
  BY BreakerAssumption DEF TypeOK, NextStreak
<1>2. (IF failures < FailureThreshold THEN failures + 1 ELSE failures) \in 0 .. FailureThreshold
  BY BreakerAssumption DEF TypeOK, Breaker!TypeOK
<1> QED
  BY <1>1, <1>2 DEF TypeOK, RecordsFailure, breaker, Breaker!RecordFailure, Breaker!FailsHalfOpen,
                    Breaker!Opens, Breaker!TypeOK

\* A success that a throwing listener turns into a failure counts as one failure.
LEMMA SuccessThenFailureType ==
  ASSUME TypeOK, Breaker!RecordSuccessThenFailure
  PROVE  Breaker!TypeOK' /\ 1 \in 0 .. FailureThreshold
<1>1. 1 \in 0 .. FailureThreshold
  BY BreakerAssumption
<1>2. resetTimer' \in BOOLEAN /\ state' \in {"closed", "open"}
  BY DEF Breaker!RecordSuccessThenFailure, Breaker!Opens
<1> QED
  BY <1>1, <1>2 DEF TypeOK, Breaker!RecordSuccessThenFailure, Breaker!TypeOK

\* Answering a request keeps the types of the requests.
LEMMA AnswerType ==
  ASSUME TypeOK, NEW r \in Requests, Answer(r)
  PROVE  /\ phase' \in [Requests -> PhaseOf]
         /\ answers' \in [Requests -> Nat]
  BY DEF TypeOK, Answer, PhaseOf

\* The same for a request that is taken a step further.
LEMMA GoesType ==
  ASSUME TypeOK, NEW r \in Requests, NEW p \in PhaseOf, Goes(r, p)
  PROVE  /\ phase' \in [Requests -> PhaseOf]
         /\ answers' \in [Requests -> Nat]
  BY DEF TypeOK, Goes, PhaseOf

\* A request arrives: it is answered at once, ready, or one that waits.
LEMMA RequestIInv ==
  ASSUME IInv, NEW r \in Requests, Request(r)
  PROVE  IInv'
<1> USE DEF IInv, Request, Answer, Goes, options, shutdown, breaker, history
<1>1. TypeOK'
  BY DEF TypeOK, Breaker!TypeOK
<1>2. ConnectionInv'
  BY DEF ConnectionInv
<1>3. NoClientLeak'
  BY DEF NoClientLeak, TypeOK, Breaker!TypeOK, ConnectionInv
<1>4. AnsweredOnce'
  BY DEF AnsweredOnce, TypeOK, Breaker!TypeOK
<1>5. MadeInv'
  BY DEF MadeInv
<1>6. TimerWhileOpen'
  BY DEF TimerWhileOpen
<1>7. StreakInv'
  BY DEF StreakInv
<1>8. ProbeInv'
  BY DEF ProbeInv, TypeOK, Breaker!TypeOK
<1>9. ProbeBudget'
  BY DEF ProbeBudget
<1> QED
  BY <1>1, <1>2, <1>3, <1>4, <1>5, <1>6, <1>7, <1>8, <1>9

\* A client arrives: there was none, and it is kept or about to be discarded.
LEMMA CreateSucceedsIInv ==
  ASSUME IInv, CreateSucceeds
  PROVE  IInv'
<1> USE DEF IInv
<1>1. TypeOK'
  <2>1. live' \in Nat
    BY DEF CreateSucceeds, TypeOK
  <2>2. client' \in BOOLEAN
    BY DEF CreateSucceeds, TypeOK
  <2>3. connecting' \in {"discarding", "initializing"}
    BY DEF CreateSucceeds
  <2>4. UNCHANGED <<options, shutdown, made, breaker, requests, history>>
    BY DEF CreateSucceeds
  <2> QED
    BY <2>1, <2>2, <2>3, <2>4 DEF TypeOK, Breaker!TypeOK, options, shutdown,
                              breaker, requests, history
<1> USE DEF CreateSucceeds, options, shutdown, breaker, requests, history
<1>2. ConnectionInv'
  BY DEF ConnectionInv
<1>3. NoClientLeak'
  BY DEF NoClientLeak, TypeOK, Breaker!TypeOK, ConnectionInv
<1>4. AnsweredOnce'
  BY DEF AnsweredOnce
<1>5. MadeInv'
  BY DEF MadeInv
<1>6. TimerWhileOpen'
  BY DEF TimerWhileOpen
<1>7. StreakInv'
  BY DEF StreakInv
<1>8. ProbeInv'
  BY DEF ProbeInv
<1>9. ProbeBudget'
  BY DEF ProbeBudget
<1> QED
  BY <1>1, <1>2, <1>3, <1>4, <1>5, <1>6, <1>7, <1>8, <1>9

\* No client arrives: those who wait are answered, none of them before.
LEMMA CreateFailsIInv ==
  ASSUME IInv, CreateFails
  PROVE  IInv'
<1> USE DEF IInv, CreateFails, Waiting, options, shutdown, breaker, history
<1>1. TypeOK'
  BY DEF TypeOK, Breaker!TypeOK
<1>2. ConnectionInv'
  BY DEF ConnectionInv
<1>3. NoClientLeak'
  BY DEF NoClientLeak
<1>4. AnsweredOnce'
  BY DEF AnsweredOnce
<1>5. MadeInv'
  BY DEF MadeInv
<1>6. TimerWhileOpen'
  BY DEF TimerWhileOpen
<1>7. StreakInv'
  BY DEF StreakInv
<1>8. ProbeInv'
  BY DEF ProbeInv
<1>9. ProbeBudget'
  BY DEF ProbeBudget
<1> QED
  BY <1>1, <1>2, <1>3, <1>4, <1>5, <1>6, <1>7, <1>8, <1>9

\* The client that came too late is closed.
LEMMA DiscardedIInv ==
  ASSUME IInv, Discarded
  PROVE  IInv'
<1> USE DEF IInv, Discarded, Connected, Waiting, options, shutdown, breaker, history
<1>1. TypeOK'
  BY DEF TypeOK, Breaker!TypeOK, ConnectionInv, NoClientLeak
<1>2. ConnectionInv'
  BY DEF ConnectionInv
<1>3. NoClientLeak'
  BY DEF NoClientLeak
<1>4. AnsweredOnce'
  BY DEF AnsweredOnce
<1>5. MadeInv'
  BY DEF MadeInv
<1>6. TimerWhileOpen'
  BY DEF TimerWhileOpen
<1>7. StreakInv'
  BY DEF StreakInv
<1>8. ProbeInv'
  BY DEF ProbeInv
<1>9. ProbeBudget'
  BY DEF ProbeBudget
<1> QED
  BY <1>1, <1>2, <1>3, <1>4, <1>5, <1>6, <1>7, <1>8, <1>9

\* The breaker is made; outcomes may have come before, which it has not counted.
LEMMA InitializedIInv ==
  ASSUME IInv, Initialized
  PROVE  IInv'
<1> USE DEF IInv, Initialized, Connected, Waiting, options, shutdown, breaker, history
<1>1. TypeOK'
  BY DEF TypeOK, Breaker!TypeOK
<1>2. ConnectionInv'
  BY DEF ConnectionInv
<1>3. NoClientLeak'
  BY DEF NoClientLeak
<1>4. AnsweredOnce'
  BY DEF AnsweredOnce
<1>5. MadeInv'
  BY DEF MadeInv, TypeOK, Breaker!TypeOK
<1>6. TimerWhileOpen'
  BY DEF TimerWhileOpen
<1>7. StreakInv'
  BY DEF StreakInv
<1>8. ProbeInv'
  BY DEF ProbeInv
<1>9. ProbeBudget'
  BY DEF ProbeBudget
<1> QED
  BY <1>1, <1>2, <1>3, <1>4, <1>5, <1>6, <1>7, <1>8, <1>9

\* guard() refuses: an answer and nothing else.
LEMMA RefusedIInv ==
  ASSUME IInv, NEW r \in Requests, Refused(r)
  PROVE  IInv'
<1> USE DEF IInv, Refused, Answer, Breaker!GuardRefuses, options, connection, shutdown, history,
            Breaker!breaker
<1>1. TypeOK'
  BY DEF TypeOK, Breaker!TypeOK
<1>2. ConnectionInv'
  BY DEF ConnectionInv
<1>3. NoClientLeak'
  BY DEF NoClientLeak
<1>4. AnsweredOnce'
  BY DEF AnsweredOnce, TypeOK, Breaker!TypeOK
<1>5. MadeInv'
  BY DEF MadeInv
<1>6. TimerWhileOpen'
  BY DEF TimerWhileOpen
<1>7. StreakInv'
  BY DEF StreakInv
<1>8. ProbeInv'
  BY DEF ProbeInv
<1>9. ProbeBudget'
  BY DEF ProbeBudget
<1> QED
  BY <1>1, <1>2, <1>3, <1>4, <1>5, <1>6, <1>7, <1>8, <1>9

\* guard() lets through: a probe is sent or lost, and is one of the budget.
LEMMA PublishIInv ==
  ASSUME IInv, NEW r \in Requests, Publish(r)
  PROVE  IInv'
<1> USE DEF IInv, Publish, Sends, Answer, Goes, Breaker!GuardPasses, Breaker!TakesProbe,
            options, connection, shutdown, breaker, Breaker!breaker
<1>1. TypeOK'
  BY BreakerAssumption DEF TypeOK, Breaker!TypeOK, MadeInv, ProbeBudget
<1>2. ConnectionInv'
  BY DEF ConnectionInv
<1>3. NoClientLeak'
  BY DEF NoClientLeak
<1>4. AnsweredOnce'
  BY DEF AnsweredOnce, TypeOK, Breaker!TypeOK
<1>5. MadeInv'
  BY DEF MadeInv
<1>6. TimerWhileOpen'
  BY DEF TimerWhileOpen
<1>7. StreakInv'
  BY DEF StreakInv
<1>8. ProbeInv'
  BY DEF ProbeInv, TypeOK, Breaker!TypeOK
<1>9. ProbeBudget'
  BY BreakerAssumption DEF ProbeBudget, TypeOK, Breaker!TypeOK, MadeInv
<1> QED
  BY <1>1, <1>2, <1>3, <1>4, <1>5, <1>6, <1>7, <1>8, <1>9

\* A success ends a half-open circuit, with whatever probes are out.
LEMMA RpcSucceedsIInv ==
  ASSUME IInv, NEW r \in Requests, RpcSucceeds(r)
  PROVE  IInv'
<1> USE DEF IInv
<1>1. TypeOK'
  <2>1. Breaker!TypeOK' /\ streak' \in 0 .. FailureThreshold
    BY RecordsSuccessType DEF RpcSucceeds
  <2>2. phase' \in [Requests -> PhaseOf] /\ answers' \in [Requests -> Nat]
    BY AnswerType, GoesType DEF RpcSucceeds, PhaseOf
  <2>3. UNCHANGED <<options, connection, shutdown, made, probes, lost>>
    BY DEF RpcSucceeds
  <2> QED
    BY <2>1, <2>2, <2>3 DEF TypeOK, PhaseOf, options, connection, shutdown
<1> USE DEF RpcSucceeds, Throws, Answer, Goes, RecordsSuccess, NextStreak,
            Breaker!RecordSuccess, options, connection, shutdown, breaker, Breaker!breaker
<1>2. ConnectionInv'
  BY DEF ConnectionInv
<1>3. NoClientLeak'
  BY DEF NoClientLeak
<1>4. AnsweredOnce'
  BY DEF AnsweredOnce, TypeOK, Breaker!TypeOK
<1>5. MadeInv'
  BY DEF MadeInv
<1>6. TimerWhileOpen'
  BY DEF TimerWhileOpen
<1>7. StreakInv'
  BY DEF StreakInv
<1>8. ProbeInv'
  BY BreakerAssumption DEF ProbeInv, TypeOK, Breaker!TypeOK, MadeInv, ProbeBudget
<1>9. ProbeBudget'
  BY DEF ProbeBudget
<1> QED
  BY <1>1, <1>2, <1>3, <1>4, <1>5, <1>6, <1>7, <1>8, <1>9

\* A success whose body is bad: the answer is left to the catch.
LEMMA RpcUndecodableIInv ==
  ASSUME IInv, NEW r \in Requests, RpcUndecodable(r)
  PROVE  IInv'
<1> USE DEF IInv
<1>1. TypeOK'
  <2>1. Breaker!TypeOK' /\ streak' \in 0 .. FailureThreshold
    BY RecordsSuccessType DEF RpcUndecodable
  <2>2. phase' \in [Requests -> PhaseOf] /\ answers' \in [Requests -> Nat]
    BY GoesType DEF RpcUndecodable, DecodingThrows, PhaseOf
  <2>3. UNCHANGED <<options, connection, shutdown, made, probes, lost>>
    BY DEF RpcUndecodable
  <2> QED
    BY <2>1, <2>2, <2>3 DEF TypeOK, PhaseOf, options, connection, shutdown
<1> USE DEF RpcUndecodable, DecodingThrows, Goes, RecordsSuccess, NextStreak,
            Breaker!RecordSuccess, options, connection, shutdown, breaker, Breaker!breaker
<1>2. ConnectionInv'
  BY DEF ConnectionInv
<1>3. NoClientLeak'
  BY DEF NoClientLeak
<1>4. AnsweredOnce'
  BY DEF AnsweredOnce
<1>5. MadeInv'
  BY DEF MadeInv
<1>6. TimerWhileOpen'
  BY DEF TimerWhileOpen
<1>7. StreakInv'
  BY DEF StreakInv
<1>8. ProbeInv'
  BY BreakerAssumption DEF ProbeInv, TypeOK, Breaker!TypeOK, MadeInv, ProbeBudget
<1>9. ProbeBudget'
  BY DEF ProbeBudget
<1> QED
  BY <1>1, <1>2, <1>3, <1>4, <1>5, <1>6, <1>7, <1>8, <1>9

\* A failure opens a half-open circuit; a request is answered or dropped.
LEMMA RpcFailsIInv ==
  ASSUME IInv, NEW r \in Requests, RpcFails(r)
  PROVE  IInv'
<1> USE DEF IInv
<1>1. TypeOK'
  <2>1. Breaker!TypeOK' /\ streak' \in 0 .. FailureThreshold
    BY RecordsFailureType DEF RpcFails
  <2>2. phase' \in [Requests -> PhaseOf] /\ answers' \in [Requests -> Nat]
    BY AnswerType, GoesType DEF RpcFails, CatchAnswers, PhaseOf
  <2>3. UNCHANGED <<options, connection, shutdown, made, probes, lost>>
    BY DEF RpcFails
  <2> QED
    BY <2>1, <2>2, <2>3 DEF TypeOK, PhaseOf, options, connection, shutdown
<1> USE DEF RpcFails, Throws, CatchAnswers, Answer, Goes, RecordsFailure, NextStreak,
            Breaker!RecordFailure, Breaker!FailsHalfOpen, Breaker!Opens, options, connection,
            shutdown, breaker, Breaker!breaker
<1>2. ConnectionInv'
  BY DEF ConnectionInv
<1>3. NoClientLeak'
  BY DEF NoClientLeak
<1>4. AnsweredOnce'
  BY DEF AnsweredOnce, TypeOK, Breaker!TypeOK
<1>5. MadeInv'
  BY DEF MadeInv
<1>6. TimerWhileOpen'
  BY DEF TimerWhileOpen
<1>7. StreakInv'
  BY DEF StreakInv
<1>8. ProbeInv'
  BY BreakerAssumption DEF ProbeInv, TypeOK, Breaker!TypeOK, MadeInv, ProbeBudget
<1>9. ProbeBudget'
  BY DEF ProbeBudget
<1> QED
  BY <1>1, <1>2, <1>3, <1>4, <1>5, <1>6, <1>7, <1>8, <1>9

\* A success of dispatchEvent, or one that a throwing listener turns into a
\* failure.
LEMMA EventSucceedsIInv ==
  ASSUME IInv, NEW r \in Requests, EventSucceeds(r)
  PROVE  IInv'
<1> USE DEF IInv
<1>1. TypeOK'
  <2>1. Breaker!TypeOK' /\ streak' \in 0 .. FailureThreshold
    BY RecordsSuccessType, SuccessThenFailureType DEF EventSucceeds
  <2>2. phase' \in [Requests -> PhaseOf] /\ answers' \in [Requests -> Nat]
    BY AnswerType DEF EventSucceeds
  <2>3. UNCHANGED <<options, connection, shutdown, made, probes, lost>>
    BY DEF EventSucceeds
  <2> QED
    BY <2>1, <2>2, <2>3 DEF TypeOK, PhaseOf, options, connection, shutdown
<1> USE DEF EventSucceeds, Answer, Breaker!RecordSuccessThenFailure, Breaker!Opens,
            RecordsSuccess, NextStreak, Breaker!RecordSuccess, options, connection, shutdown,
            breaker, Breaker!breaker
<1>2. ConnectionInv'
  BY DEF ConnectionInv
<1>3. NoClientLeak'
  BY DEF NoClientLeak
<1>4. AnsweredOnce'
  BY DEF AnsweredOnce, TypeOK, Breaker!TypeOK
<1>5. MadeInv'
  BY DEF MadeInv
<1>6. TimerWhileOpen'
  BY DEF TimerWhileOpen
<1>7. StreakInv'
  BY DEF StreakInv
<1>8. ProbeInv'
  BY BreakerAssumption DEF ProbeInv, TypeOK, Breaker!TypeOK, MadeInv, ProbeBudget
<1>9. ProbeBudget'
  BY DEF ProbeBudget
<1> QED
  BY <1>1, <1>2, <1>3, <1>4, <1>5, <1>6, <1>7, <1>8, <1>9

\* A failure of dispatchEvent.
LEMMA EventFailsIInv ==
  ASSUME IInv, NEW r \in Requests, EventFails(r)
  PROVE  IInv'
<1> USE DEF IInv
<1>1. TypeOK'
  <2>1. Breaker!TypeOK' /\ streak' \in 0 .. FailureThreshold
    BY RecordsFailureType DEF EventFails
  <2>2. phase' \in [Requests -> PhaseOf] /\ answers' \in [Requests -> Nat]
    BY AnswerType DEF EventFails
  <2>3. UNCHANGED <<options, connection, shutdown, made, probes, lost>>
    BY DEF EventFails
  <2> QED
    BY <2>1, <2>2, <2>3 DEF TypeOK, PhaseOf, options, connection, shutdown
<1> USE DEF EventFails, Answer, RecordsFailure, NextStreak, Breaker!RecordFailure,
            Breaker!FailsHalfOpen, Breaker!Opens, options, connection, shutdown, breaker,
            Breaker!breaker
<1>2. ConnectionInv'
  BY DEF ConnectionInv
<1>3. NoClientLeak'
  BY DEF NoClientLeak
<1>4. AnsweredOnce'
  BY DEF AnsweredOnce, TypeOK, Breaker!TypeOK
<1>5. MadeInv'
  BY DEF MadeInv
<1>6. TimerWhileOpen'
  BY DEF TimerWhileOpen
<1>7. StreakInv'
  BY DEF StreakInv
<1>8. ProbeInv'
  BY BreakerAssumption DEF ProbeInv, TypeOK, Breaker!TypeOK, MadeInv, ProbeBudget
<1>9. ProbeBudget'
  BY DEF ProbeBudget
<1> QED
  BY <1>1, <1>2, <1>3, <1>4, <1>5, <1>6, <1>7, <1>8, <1>9

\* The circuit becomes half-open with its whole budget.
LEMMA ResetTimeoutIInv ==
  ASSUME IInv, ResetTimeout
  PROVE  IInv'
<1> USE DEF IInv
<1>1. TypeOK'
  <2>1. HalfOpenRequests \in 0 .. HalfOpenRequests
    BY BreakerAssumption
  <2>2. Breaker!TypeOK'
    BY <2>1 DEF ResetTimeout, Breaker!ResetTimeout, TypeOK, Breaker!TypeOK
  <2>3. /\ probes' = 0 /\ lost' = 0
        /\ UNCHANGED <<options, connection, shutdown, made, requests, streak>>
    BY DEF ResetTimeout
  <2> QED
    BY <2>2, <2>3 DEF TypeOK, options, connection, shutdown, requests
<1> USE DEF ResetTimeout, Breaker!ResetTimeout, options, connection, shutdown, requests,
            Breaker!breaker
<1>2. ConnectionInv'
  BY DEF ConnectionInv
<1>3. NoClientLeak'
  BY DEF NoClientLeak
<1>4. AnsweredOnce'
  BY DEF AnsweredOnce
<1>5. MadeInv'
  BY DEF MadeInv
<1>6. TimerWhileOpen'
  BY DEF TimerWhileOpen
<1>7. StreakInv'
  BY DEF StreakInv
<1>8. ProbeInv'
  BY DEF ProbeInv
<1>9. ProbeBudget'
  BY BreakerAssumption DEF ProbeBudget, TypeOK, Breaker!TypeOK, MadeInv
<1> QED
  BY <1>1, <1>2, <1>3, <1>4, <1>5, <1>6, <1>7, <1>8, <1>9

\* close() begins: the timer is destroyed, and with a connection under way it
\* waits.
LEMMA CloseIInv ==
  ASSUME IInv, Close
  PROVE  IInv'
<1> USE DEF IInv, Close, MustWait, GoesForClient, Breaker!Destroy, options, connection, breaker,
            requests, history, Breaker!breaker
<1>1. TypeOK'
  BY DEF TypeOK, Breaker!TypeOK
<1>2. ConnectionInv'
  BY DEF ConnectionInv
<1>3. NoClientLeak'
  BY DEF NoClientLeak
<1>4. AnsweredOnce'
  BY DEF AnsweredOnce
<1>5. MadeInv'
  BY DEF MadeInv
<1>6. TimerWhileOpen'
  BY DEF TimerWhileOpen
<1>7. StreakInv'
  BY DEF StreakInv
<1>8. ProbeInv'
  BY DEF ProbeInv
<1>9. ProbeBudget'
  BY DEF ProbeBudget
<1> QED
  BY <1>1, <1>2, <1>3, <1>4, <1>5, <1>6, <1>7, <1>8, <1>9

\* The connection close() waited for is over, well or not.
LEMMA ConnectionAwaitedIInv ==
  ASSUME IInv, ConnectionAwaited
  PROVE  IInv'
<1> USE DEF IInv, ConnectionAwaited, GoesForClient, options, connection, breaker, requests,
            history
<1>1. TypeOK'
  BY DEF TypeOK, Breaker!TypeOK
<1>2. ConnectionInv'
  BY DEF ConnectionInv
<1>3. NoClientLeak'
  BY DEF NoClientLeak
<1>4. AnsweredOnce'
  BY DEF AnsweredOnce
<1>5. MadeInv'
  BY DEF MadeInv
<1>6. TimerWhileOpen'
  BY DEF TimerWhileOpen
<1>7. StreakInv'
  BY DEF StreakInv
<1>8. ProbeInv'
  BY DEF ProbeInv
<1>9. ProbeBudget'
  BY DEF ProbeBudget
<1> QED
  BY <1>1, <1>2, <1>3, <1>4, <1>5, <1>6, <1>7, <1>8, <1>9

\* The client is closed.
LEMMA ClientClosedIInv ==
  ASSUME IInv, ClientClosed
  PROVE  IInv'
<1> USE DEF IInv
<1>1. TypeOK'
  <2>1. live' \in Nat
    BY DEF ClientClosed, TypeOK, NoClientLeak, ConnectionInv
  <2>2. /\ closer' \in {"done", "failed"} /\ client' = FALSE
        /\ UNCHANGED <<options, connecting, closing, made, breaker, requests, history>>
    BY DEF ClientClosed
  <2> QED
    BY <2>1, <2>2 DEF TypeOK, Breaker!TypeOK, options, breaker, requests, history
<1> USE DEF ClientClosed, options, breaker, requests, history
<1>2. ConnectionInv'
  BY DEF ConnectionInv
<1>3. NoClientLeak'
  BY DEF NoClientLeak, TypeOK, Breaker!TypeOK, ConnectionInv
<1>4. AnsweredOnce'
  BY DEF AnsweredOnce
<1>5. MadeInv'
  BY DEF MadeInv
<1>6. TimerWhileOpen'
  BY DEF TimerWhileOpen
<1>7. StreakInv'
  BY DEF StreakInv
<1>8. ProbeInv'
  BY DEF ProbeInv
<1>9. ProbeBudget'
  BY DEF ProbeBudget
<1> QED
  BY <1>1, <1>2, <1>3, <1>4, <1>5, <1>6, <1>7, <1>8, <1>9

\* The constructor establishes the invariant.
LEMMA InitIInv == Init => IInv
<1> SUFFICES ASSUME Init PROVE IInv
  OBVIOUS
<1> USE DEF Init, Breaker!Init
<1>1. TypeOK
  <2>1. /\ 0 \in 0 .. FailureThreshold /\ 0 \in 0 .. HalfOpenRequests
        /\ live \in Nat /\ probes \in Nat /\ lost \in Nat
    BY BreakerAssumption
  <2> QED
    BY <2>1 DEF TypeOK, Breaker!TypeOK
<1>2. ConnectionInv /\ NoClientLeak /\ AnsweredOnce
  BY DEF ConnectionInv, NoClientLeak, AnsweredOnce
<1>3. MadeInv /\ TimerWhileOpen /\ StreakInv /\ ProbeInv /\ ProbeBudget
  BY DEF MadeInv, TimerWhileOpen, StreakInv, ProbeInv, ProbeBudget
<1> QED
  BY <1>1, <1>2, <1>3 DEF IInv

\* A step that changes nothing keeps it.
LEMMA StutterIInv == IInv /\ UNCHANGED vars => IInv'
<1> SUFFICES ASSUME IInv, UNCHANGED vars PROVE IInv'
  OBVIOUS
<1> USE DEF IInv, vars, options, connection, shutdown, breaker, requests, history
<1>1. TypeOK'
  BY DEF TypeOK, Breaker!TypeOK
<1>2. ConnectionInv' /\ NoClientLeak' /\ AnsweredOnce'
  BY DEF ConnectionInv, NoClientLeak, AnsweredOnce
<1>3. MadeInv' /\ TimerWhileOpen' /\ StreakInv' /\ ProbeInv' /\ ProbeBudget'
  BY DEF MadeInv, TimerWhileOpen, StreakInv, ProbeInv, ProbeBudget
<1> QED
  BY <1>1, <1>2, <1>3

\* Every step keeps it, by the lemma of its action.
LEMMA StepIInv == IInv /\ [Next]_vars => IInv'
<1> SUFFICES ASSUME IInv, Next PROVE IInv'
  BY StutterIInv
<1>1. CASE Connecting
  BY <1>1, CreateSucceedsIInv, CreateFailsIInv, DiscardedIInv, InitializedIInv DEF Connecting
<1>2. CASE \E r \in Requests : Request(r) \/ Proceeds(r) \/ Settles(r)
  BY <1>2, RequestIInv, RefusedIInv, PublishIInv, RpcSucceedsIInv, RpcUndecodableIInv,
     RpcFailsIInv, EventSucceedsIInv, EventFailsIInv DEF Proceeds, Settles
<1>3. CASE ResetTimeout
  BY <1>3, ResetTimeoutIInv
<1>4. CASE Close \/ Closing
  BY <1>4, CloseIInv, ConnectionAwaitedIInv, ClientClosedIInv DEF Closing
<1> QED
  BY <1>1, <1>2, <1>3, <1>4 DEF Next

\* The invariant holds in every state; fairness is not needed for it.
LEMMA Invariance == Spec => []IInv
  BY InitIInv, StepIInv, PTL DEF Spec

\* A half-open circuit has a probe left, or lost one, or the ones it sent are out.
LEMMA HalfOpenEnds == IInv => HalfOpenCanEnd
  BY BreakerAssumption
     DEF IInv, TypeOK, Breaker!TypeOK, ProbeInv, ProbeBudget, HalfOpenCanEnd

\* A circuit that was closed opens only where the count reaches the threshold.
LEMMA OpensAtThreshold ==
  ASSUME IInv, Next, state = "closed", state' = "open"
  PROVE  failures' = FailureThreshold
<1>1. CASE RecordsFailure
  <2>1. made
    BY <1>1 DEF RecordsFailure, breaker
  <2>2. Breaker!RecordFailure
    BY <1>1, <2>1 DEF RecordsFailure
  <2> QED
    BY <2>2 DEF Breaker!RecordFailure, Breaker!FailsHalfOpen, Breaker!Opens
<1>2. CASE RecordsSuccess
  BY <1>2 DEF RecordsSuccess, breaker, Breaker!RecordSuccess
<1>3. CASE UNCHANGED state
  BY <1>3
<1>4. RecordsFailure \/ RecordsSuccess \/ UNCHANGED state
  <2>1. CASE Connecting
    BY <2>1 DEF Connecting, CreateSucceeds, CreateFails, Discarded, Initialized, breaker
  <2>2. ASSUME NEW r \in Requests, Request(r) PROVE UNCHANGED state
    BY <2>2 DEF Request, breaker
  <2>3. ASSUME NEW r \in Requests, Proceeds(r) PROVE UNCHANGED state
    BY <2>3 DEF Proceeds, Refused, Publish, breaker, Breaker!GuardRefuses, Breaker!GuardPasses,
                Breaker!TakesProbe, Breaker!breaker
  <2>4. ASSUME NEW r \in Requests, Settles(r) PROVE RecordsFailure \/ RecordsSuccess
    BY <2>4 DEF Settles, RpcSucceeds, RpcUndecodable, RpcFails, EventSucceeds, EventFails
  <2>5. ~ResetTimeout
    BY DEF ResetTimeout, Breaker!ResetTimeout
  <2>6. CASE Close \/ Closing
    BY <2>6 DEF Close, Closing, ConnectionAwaited, ClientClosed, breaker, Breaker!Destroy
  <2> QED
    BY <2>1, <2>2, <2>3, <2>4, <2>5, <2>6 DEF Next
<1> QED
  BY <1>1, <1>2, <1>3, <1>4

\* The variables of the proxy and its breaker keep their types, for any requests,
\* threshold and number of probes.
THEOREM TypeCorrect == Spec => []TypeOK
<1>1. IInv => TypeOK
  BY DEF IInv
<1> QED
  BY Invariance, <1>1, PTL

\* A request that counts as answered was answered exactly once, and any other not at
\* all yet, whatever the order of outcomes, errors and close().
THEOREM RequestsAnsweredOnce == Spec => []AnsweredOnce
<1>1. IInv => AnsweredOnce
  BY DEF IInv
<1> QED
  BY Invariance, <1>1, PTL

\* A close() during connect() leaves no client open, at whichever await it comes.
THEOREM ClientsDoNotLeak == Spec => []NoClientLeak
<1>1. IInv => NoClientLeak
  BY DEF IInv
<1> QED
  BY Invariance, <1>1, PTL

\* An open circuit has its timer, and no other circuit has one.
THEOREM TimerOnlyWhileOpen == Spec => []TimerWhileOpen
<1>1. IInv => TimerWhileOpen
  BY DEF IInv
<1> QED
  BY Invariance, <1>1, PTL

\* Every probe of the budget is left, sent or lost, for any halfOpenRequests.
THEOREM ProbesAccountedFor == Spec => []ProbeBudget
<1>1. IInv => ProbeBudget
  BY DEF IInv
<1> QED
  BY Invariance, <1>1, PTL

\* But for a probe given to a request that was never sent, a half-open circuit always
\* has a way out: a probe to take or an outcome to come.
THEOREM HalfOpenHasAWayOut == Spec => []HalfOpenCanEnd
  BY Invariance, HalfOpenEnds, PTL

\* The circuit never sticks: it has a timer while it is open, every probe of its budget
\* is accounted for, and half-open it has a probe to take or an outcome to come.
THEOREM CircuitStaysSound == Spec => []CircuitSound
<1>1. IInv => TimerWhileOpen /\ ProbeBudget
  BY DEF IInv
<1>2. TimerWhileOpen /\ HalfOpenCanEnd /\ ProbeBudget => CircuitSound
  BY DEF CircuitSound
<1> QED
  BY <1>1, <1>2, Invariance, HalfOpenEnds, PTL

\* A closed circuit opens by failureThreshold failures in a row and not otherwise.
THEOREM OpensOnlyAtThreshold == Spec => OpensOnConsecutiveFailures
<1> DEFINE Opening == state = "closed" /\ state' = "open" => streak' = FailureThreshold
<1>1. IInv /\ IInv' /\ [Next]_vars => [Opening]_vars
  BY OpensAtThreshold DEF IInv, StreakInv
<1>2. Spec => [][Opening]_vars
  BY <1>1, Invariance, PTL DEF Spec
<1> QED
  BY <1>2 DEF OpensOnConsecutiveFailures

=============================================================================
