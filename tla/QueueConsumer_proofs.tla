------------------------ MODULE QueueConsumer_proofs ------------------------
(***************************************************************************)
(* The invariants of one queue handler, for any messages, keys, polls,     *)
(* limits and options, and that it keeps the protocol of DedupWindow.      *)
(*                                                                         *)
(* The semaphore's part rests on BackpressureSemaphore_proofs: a poll asks *)
(* and releases only by the semaphore's own operations, so that its        *)
(* invariant is preserved here as it is there.  What remains is to tie     *)
(* the permits to the work: HoldInv says who may hold one or wait for one, *)
(* PlaceInv what a poll has in hand in each phase.                         *)
(***************************************************************************)
EXTENDS QueueConsumer, FiniteSetTheorems, SequenceTheorems, TLAPS

SemP == INSTANCE BackpressureSemaphore_proofs WITH Callers <- Polls

\* The lines of messages a poll works through.
Lines == {s \in Seq(Messages) :
            /\ Len(s) <= PollSize
            /\ \A i, j \in 1..Len(s) : s[i] = s[j] => i = j}

-----------------------------------------------------------------------------
(* The inductive invariant *)

\* A poll has messages in hand from its delivery to its end, and one that is to
\* be settled has a verdict.
PlaceInv ==
  \A p \in Polls :
    /\ phase[p] = "idle" <=> todo[p] = <<>>
    /\ phase[p] = "settling" => verdict[p] # "none"

\* Only tracked work holds a permit, only work that asks waits for one, and as
\* long as there is a semaphore all tracked work does one or the other.
HoldInv ==
  \A p \in Polls :
    /\ promise[p] = "resolved" => Tracked(p)
    /\ promise[p] = "pending" => phase[p] = "asking"
    /\ MapsFilled /\ Tracked(p) => promise[p] \in {"pending", "resolved"}

\* Drain waits for work that is still tracked, and whatever is owed is in the
\* hands of a poll it waits for.
DrainInv ==
  /\ \A p \in draining : Tracked(p)
  /\ \A o \in owed : o[1] \in draining /\ o[2] \in Members(Work(o[1]))
  /\ status \in {"stopping", "closed"} /\ ~timedOut => draining = {}

\* Of messages handled one by one: the handler never sees one that its validation
\* rejects, and a rejected one is never taken for handled later; a key is
\* remembered for a message that was handled; work settled well is processed.
ProcessedInv ==
  ~batch =>
    /\ \A m \in Messages : fate[m] = "handled" => m \notin Invalid
    /\ \A p \in Polls :
         /\ phase[p] = "routing" => todo[p][1] \in Invalid
         /\ phase[p] = "handling" => todo[p][1] \notin Invalid
         /\ phase[p] = "settling" /\ verdict[p] = "ok" => Processed(todo[p][1])
    /\ \A key \in remembered : \E o \in Messages : KeyOf[o] = key /\ fate[o] = "handled"
    /\ AckedWasProcessed

IInv ==
  /\ TypeOK
  /\ Sem!SemaphoreInv
  /\ PlaceInv
  /\ HoldInv
  /\ DrainInv
  /\ AbandonedOnlyByFault
  /\ ProcessedInv

-----------------------------------------------------------------------------
(* Lines of messages *)

\* A delivery is a line, and not the empty one.
LEMMA BatchIsLine ==
  ASSUME NEW S \in SUBSET Messages, NEW s \in Batches(S)
  PROVE  s \in Lines /\ s # <<>> /\ Len(s) > 0 /\ Members(s) \subseteq S
<1>1. PICK n \in 1..PollSize : /\ s \in [1..n -> S]
                               /\ \A i, j \in 1..n : s[i] = s[j] => i = j
  BY DEF Batches
<1>2. n \in Nat /\ s \in [1..n -> Messages]
  BY <1>1, SizesAssumption
<1>3. s \in Seq(Messages)
  BY <1>2, SeqDef
<1>4. Len(s) = n
  BY <1>2
<1>5. s # <<>>
  BY <1>1, <1>3, <1>4, EmptySeq
<1> QED
  BY <1>1, <1>3, <1>4, <1>5, SizesAssumption DEF Lines, Members

\* A line that is not empty is a delivery.
LEMMA LineIsBatch == Lines = {<<>>} \cup Batches(Messages)
<1>1. ASSUME NEW s \in Lines, s # <<>> PROVE s \in Batches(Messages)
  <2>1. s \in Seq(Messages) /\ Len(s) \in 1..PollSize
    BY <1>1, EmptySeq, SizesAssumption DEF Lines
  <2>2. s \in [1..Len(s) -> Messages]
    BY <2>1, LenProperties
  <2> QED
    BY <2>1, <2>2 DEF Lines, Batches
<1>2. <<>> \in Lines
  BY EmptySeq, SizesAssumption DEF Lines
<1>3. Batches(Messages) \subseteq Lines
  BY BatchIsLine
<1> QED
  BY <1>1, <1>2, <1>3

\* The work of a poll is a prefix of its line, and what remains is a line.
Rest(p) == SubSeq(todo[p], Len(Work(p)) + 1, Len(todo[p]))

LEMMA WorkIsPrefix ==
  ASSUME NEW p \in Polls, todo[p] \in Lines, todo[p] # <<>>, batch \in BOOLEAN
  PROVE  /\ Len(Work(p)) \in 1..Len(todo[p])
         /\ \A i \in 1..Len(Work(p)) : Work(p)[i] = todo[p][i]
         /\ todo[p][1] \in Members(Work(p))
         /\ Members(Work(p)) \subseteq Members(todo[p])
         /\ Members(todo[p]) \subseteq Messages
         /\ ~batch => Members(Work(p)) = {todo[p][1]} /\ Len(Work(p)) = 1
<1> DEFINE t == todo[p]
<1>1. t \in Seq(Messages) /\ Len(t) \in Nat /\ Len(t) > 0
  BY EmptySeq DEF Lines
<1>2. /\ Len(SubSeq(t, 1, 1)) = 1
      /\ SubSeq(t, 1, 1)[1] = t[1]
  <2>1. \A i \in 1..1 : t[i] \in Messages
    BY <1>1, ElementOfSeq
  <2> QED
    BY <2>1, SubSeqProperties
<1>3. /\ Len(Work(p)) \in 1..Len(t)
      /\ \A i \in 1..Len(Work(p)) : Work(p)[i] = t[i]
  BY <1>1, <1>2 DEF Work
<1>4. ~batch => Len(Work(p)) = 1
  BY <1>2 DEF Work
<1>5. Members(t) \subseteq Messages
  BY <1>1, ElementOfSeq DEF Members
<1> QED
  BY <1>1, <1>3, <1>4, <1>5 DEF Members

LEMMA RestIsLine ==
  ASSUME NEW p \in Polls, todo[p] \in Lines, todo[p] # <<>>, batch \in BOOLEAN
  PROVE  /\ Rest(p) \in Lines
         /\ Members(todo[p]) = Members(Work(p)) \cup Members(Rest(p))
<1> DEFINE t == todo[p]
           k == Len(Work(p))
           r == Rest(p)
<1>1. t \in Seq(Messages) /\ Len(t) \in Nat
  BY LenProperties DEF Lines
<1>2. k \in 1..Len(t) /\ \A i \in 1..k : Work(p)[i] = t[i]
  BY WorkIsPrefix
<1>3. \A i \in k + 1..Len(t) : t[i] \in Messages
  BY <1>1, <1>2, ElementOfSeq
<1>4. /\ r \in Seq(Messages)
      /\ Len(r) = Len(t) - k
      /\ \A i \in 1..Len(t) - k : r[i] = t[i + k]
  <2>1. k + 1 \in Int /\ Len(t) \in Int
    BY <1>1, <1>2
  <2>2. /\ SubSeq(t, k + 1, Len(t)) \in Seq(Messages)
        /\ Len(SubSeq(t, k + 1, Len(t))) = IF k + 1 <= Len(t) THEN Len(t) - (k + 1) + 1 ELSE 0
        /\ \A i \in 1..Len(t) - (k + 1) + 1 : SubSeq(t, k + 1, Len(t))[i] = t[(k + 1) + i - 1]
    BY <1>3, <2>1, SubSeqProperties
  <2> QED
    BY <1>1, <1>2, <2>2 DEF Rest
<1> HIDE DEF t, k, r
<1>5. r \in Lines
  <2>1. Len(t) <= PollSize /\ \A i, j \in 1..Len(t) : t[i] = t[j] => i = j
    BY DEF Lines, t
  <2>2. ASSUME NEW i \in 1..Len(r), NEW j \in 1..Len(r), r[i] = r[j] PROVE i = j
    <3>1. /\ i + k \in 1..Len(t) /\ j + k \in 1..Len(t)
          /\ r[i] = t[i + k] /\ r[j] = t[j + k]
      BY <1>1, <1>2, <1>4
    <3>2. i + k = j + k
      BY <2>1, <2>2, <3>1
    <3> QED
      BY <1>1, <1>2, <3>2
  <2> QED
    BY <1>1, <1>2, <1>4, <2>1, <2>2, SizesAssumption DEF Lines
<1>6. Members(r) = {t[i] : i \in k + 1..Len(t)}
  <2>1. ASSUME NEW i \in k + 1..Len(t) PROVE t[i] \in Members(r)
    <3>1. i - k \in 1..Len(t) - k /\ r[i - k] = t[i]
      BY <1>1, <1>2, <1>4, <2>1
    <3> QED
      BY <1>4, <3>1 DEF Members
  <2>2. ASSUME NEW i \in 1..Len(r) PROVE r[i] \in {t[j] : j \in k + 1..Len(t)}
    <3>1. i + k \in k + 1..Len(t) /\ r[i] = t[i + k]
      BY <1>1, <1>2, <1>4
    <3> QED
      BY <3>1
  <2> QED
    BY <2>1, <2>2 DEF Members
<1>7. Members(Work(p)) = {t[i] : i \in 1..k}
  BY <1>2 DEF Members, k
<1>8. 1..Len(t) = 1..k \cup k + 1..Len(t)
  BY <1>1, <1>2
<1> QED
  BY <1>5, <1>6, <1>7, <1>8 DEF Members, r, t

-----------------------------------------------------------------------------
(* The semaphore, as its own module proves it *)

\* The copy of the semaphore that carries the proofs is the one the polls use.
LEMMA SameSemaphore ==
  /\ SemP!IInv <=> Sem!TypeOK /\ Sem!SemaphoreInv
  /\ \A S : SemP!IsFiniteSet(S) <=> IsFiniteSet(S)
<1>1. SemP!Holders = Sem!Holders
  BY DEF SemP!Holders, Sem!Holders
<1>2. SemP!Cardinality(Sem!Holders) = Sem!Cardinality(Sem!Holders)
  BY DEF SemP!Cardinality, Sem!Cardinality, SemP!IsFiniteSet, Sem!IsFiniteSet
<1>3. SemP!Waiters = Sem!Waiters
  BY DEF SemP!Waiters, Sem!Waiters
<1>4. SemP!TypeOK <=> Sem!TypeOK
  BY DEF SemP!TypeOK, Sem!TypeOK, SemP!PromiseState, Sem!PromiseState
<1>5. \A S : SemP!IsFiniteSet(S) <=> IsFiniteSet(S)
  BY DEF SemP!IsFiniteSet, IsFiniteSet
<1> QED
  BY <1>1, <1>2, <1>3, <1>4, <1>5
  DEF SemP!IInv, SemP!SemaphoreInv, Sem!SemaphoreInv,
      SemP!PermitConservation, Sem!PermitConservation,
      SemP!ConcurrencyLimit, Sem!ConcurrencyLimit, SemP!NoIdlePermit, Sem!NoIdlePermit,
      SemP!LineIsExact, Sem!LineIsExact, SemP!LineBounded, Sem!LineBounded

LEMMA SameSemaphoreNext == SemP!IInv' <=> (Sem!TypeOK /\ Sem!SemaphoreInv)'
  BY SameSemaphore, PTL

\* Whatever a poll asks of the semaphore preserves the semaphore's invariant.
LEMMA SemaphoreKept ==
  ASSUME Sem!TypeOK, Sem!SemaphoreInv,
         NEW p \in Polls, Sem!Acquire(p) \/ Sem!Release(p)
  PROVE  Sem!TypeOK' /\ Sem!SemaphoreInv'
<1>1. SemP!IInv
  BY SameSemaphore
<1>2. SemP!Acquire(p) \/ SemP!Release(p)
  BY DEF SemP!Acquire, Sem!Acquire, SemP!Release, Sem!Release,
         SemP!AcquireFree, Sem!AcquireFree, SemP!AcquireOverflow, Sem!AcquireOverflow,
         SemP!AcquireWait, Sem!AcquireWait, SemP!ReleaseHandOver, Sem!ReleaseHandOver,
         SemP!ReleaseIdle, Sem!ReleaseIdle, SemP!MayAsk, Sem!MayAsk
<1>3. SemP!IInv'
  BY <1>1, <1>2, SemP!StepIInv, PermitsAssumption, SameSemaphore DEF SemP!Next
<1> QED
  BY <1>3, SameSemaphoreNext

LEMMA SemaphoreInit == Sem!Init => Sem!TypeOK /\ Sem!SemaphoreInv
<1>1. Sem!Init => SemP!Init
  BY DEF Sem!Init, SemP!Init
<1> QED
  BY <1>1, SemP!InitIInv, PermitsAssumption, SameSemaphore

LEMMA SemaphoreUnchanged ==
  ASSUME Sem!TypeOK, Sem!SemaphoreInv, UNCHANGED semaphore
  PROVE  Sem!TypeOK' /\ Sem!SemaphoreInv'
  BY DEF semaphore, Sem!TypeOK, Sem!SemaphoreInv, Sem!PermitConservation,
         Sem!ConcurrencyLimit, Sem!NoIdlePermit, Sem!LineIsExact, Sem!LineBounded,
         Sem!Holders, Sem!Waiters

\* Asking settles the fate of the caller's own promise and of no other.
LEMMA AcquireEffect ==
  ASSUME Sem!TypeOK, NEW p \in Polls
  PROVE  /\ Sem!AcquireFree(p) \/ Sem!AcquireWait(p)
              => promise'[p] \in {"pending", "resolved"}
         /\ Sem!AcquireOverflow(p) => promise'[p] = "rejected"
         /\ Sem!Acquire(p) => \A q \in Polls \ {p} : promise'[q] = promise[q]
  BY DEF Sem!TypeOK, Sem!Acquire, Sem!AcquireFree, Sem!AcquireWait, Sem!AcquireOverflow

\* A release takes the permit from its caller and may give it to one who waits.
LEMMA ReleaseEffect ==
  ASSUME Sem!TypeOK, Sem!SemaphoreInv, NEW p \in Polls, Sem!Release(p)
  PROVE  /\ promise'[p] = "none"
         /\ \A q \in Polls \ {p} :
              \/ promise'[q] = promise[q]
              \/ promise[q] = "pending" /\ promise'[q] = "resolved"
<1>1. CASE Sem!ReleaseIdle(p)
  BY <1>1 DEF Sem!ReleaseIdle, Sem!TypeOK
<1>2. CASE Sem!ReleaseHandOver(p)
  <2>1. 1 \in 1..Len(queue) /\ Head(queue) = queue[1] /\ Head(queue) \in Polls
    BY <1>2 DEF Sem!ReleaseHandOver, Sem!TypeOK
  <2>2. promise[Head(queue)] = "pending" /\ promise[p] = "resolved"
    BY <1>2, <2>1 DEF Sem!ReleaseHandOver, Sem!SemaphoreInv, Sem!LineIsExact, Sem!Waiters
  <2> QED
    BY <1>2, <2>1, <2>2 DEF Sem!ReleaseHandOver, Sem!TypeOK
<1> QED
  BY <1>1, <1>2 DEF Sem!Release

-----------------------------------------------------------------------------
(* Each operation preserves the invariant *)

LEMMA InitIInv == Init => IInv
<1> SUFFICES ASSUME Init PROVE IInv
  OBVIOUS
<1>1. Sem!TypeOK /\ Sem!SemaphoreInv
  BY SemaphoreInit DEF Init
<1>2. TypeOK
  <2>1. redeliveries \in 0..MaxRedeliveries
    BY SizesAssumption DEF Init
  <2>2. /\ draining \subseteq Polls /\ owed \subseteq Polls \X Messages
        /\ refused \subseteq Messages /\ unsettled \subseteq Messages
        /\ remembered \subseteq Keys
    BY DEF Init
  <2>3. todo \in [Polls -> {<<>>} \cup Batches(Messages)]
    BY DEF Init
  <2> QED
    BY <1>1, <2>1, <2>2, <2>3 DEF Init, TypeOK
<1>3. PlaceInv /\ HoldInv /\ DrainInv
  BY DEF Init, Sem!Init, PlaceInv, HoldInv, DrainInv, Tracked
<1>4. AbandonedOnlyByFault /\ ProcessedInv
  BY DEF Init, AbandonedOnlyByFault, ProcessedInv, AckedWasProcessed
<1> QED
  BY <1>1, <1>2, <1>3, <1>4 DEF IInv

\* A poll whose permit is granted goes on, or its work ends: the phase and the
\* verdict change, the messages in hand and the permits do not.
PhaseStep(p) ==
  /\ Tracked(p)
  /\ promise[p] # "pending"
  /\ \E f \in {"validating", "routing", "handling", "settling"}, v \in {"none", "ok", "error"} :
       /\ phase' = [phase EXCEPT ![p] = f]
       /\ verdict' = [verdict EXCEPT ![p] = v]
       /\ f = "settling" => v # "none"
  /\ UNCHANGED <<options, broker, todo, semaphore, closing, refused, unsettled>>

\* What a run does between its permit and its settlement.
Runs(p) ==
  \/ SkipDuplicate(p) \/ PassCache(p) \/ FailBeforeHandler(p) \/ CallHandler(p)
  \/ RejectToDlq(p) \/ DlqAnswered(p) \/ RejectWithWarning(p)
  \/ HandlerSucceeds(p) \/ HandlerThrows(p)

LEMMA RunsArePhaseSteps ==
  ASSUME IInv, NEW p \in Polls, Runs(p)
  PROVE  PhaseStep(p)
<1> USE DEF IInv, PhaseStep
<1>1. /\ verdict = [verdict EXCEPT ![p] = verdict[p]]
      /\ verdict[p] \in {"none", "ok", "error"}
  BY DEF TypeOK
<1>2. phase[p] # "asking" => promise[p] # "pending"
  BY DEF HoldInv
<1>3. CASE SkipDuplicate(p)
  BY <1>3 DEF SkipDuplicate, PermitGranted, Settling, Tracked, history
<1>4. CASE PassCache(p)
  BY <1>1, <1>4 DEF PassCache, PermitGranted, Tracked, history
<1>5. CASE FailBeforeHandler(p)
  BY <1>2, <1>5 DEF FailBeforeHandler, PermitGranted, Settling, Tracked, history
<1>6. CASE CallHandler(p)
  BY <1>1, <1>2, <1>6 DEF CallHandler, Tracked, history
<1>7. CASE RejectToDlq(p)
  BY <1>1, <1>2, <1>7 DEF RejectToDlq, FailsValidation, Tracked, history
<1>8. CASE DlqAnswered(p)
  BY <1>2, <1>8 DEF DlqAnswered, Settling, Tracked
<1>9. CASE RejectWithWarning(p)
  BY <1>2, <1>9 DEF RejectWithWarning, FailsValidation, Settling, Tracked
<1>10. CASE HandlerSucceeds(p)
  BY <1>2, <1>10 DEF HandlerSucceeds, Settling, Tracked
<1>11. CASE HandlerThrows(p)
  BY <1>2, <1>11 DEF HandlerThrows, Settling, Tracked, history
<1> QED
  BY <1>3, <1>4, <1>5, <1>6, <1>7, <1>8, <1>9, <1>10, <1>11 DEF Runs

\* Such a step leaves every part of the invariant alone that does not look at
\* what became of the messages.
LEMMA PhaseStepKeeps ==
  ASSUME IInv, NEW p \in Polls, PhaseStep(p)
  PROVE  /\ Sem!TypeOK' /\ Sem!SemaphoreInv'
         /\ PlaceInv' /\ HoldInv' /\ DrainInv'
         /\ AbandonedOnlyByFault'
<1> USE DEF IInv
<1>1. PICK f \in {"validating", "routing", "handling", "settling"}, v \in {"none", "ok", "error"} :
        /\ phase' = [phase EXCEPT ![p] = f]
        /\ verdict' = [verdict EXCEPT ![p] = v]
        /\ f = "settling" => v # "none"
  BY DEF PhaseStep
<1>2. /\ UNCHANGED <<options, broker, todo, semaphore, closing, refused, unsettled>>
      /\ Tracked(p)
      /\ promise[p] # "pending"
  BY DEF PhaseStep
<1>3. /\ phase' \in [Polls -> {"idle", "asking", "validating", "routing", "handling",
                              "settling", "between"}]
      /\ phase'[p] = f /\ verdict'[p] = v
      /\ \A q \in Polls \ {p} : phase'[q] = phase[q] /\ verdict'[q] = verdict[q]
  BY <1>1 DEF TypeOK
<1>4. \A q \in Polls : Tracked(q)' <=> Tracked(q)
  BY <1>2, <1>3 DEF Tracked
<1>5. Sem!TypeOK' /\ Sem!SemaphoreInv'
  BY <1>2, SemaphoreUnchanged DEF TypeOK
<1>6. PlaceInv'
  BY <1>1, <1>2, <1>3 DEF PlaceInv, Tracked
<1>7. HoldInv'
  BY <1>2, <1>3, <1>4 DEF HoldInv, semaphore, MapsFilled, closing
<1>8. DrainInv'
  <2>1. \A q : Work(q)' = Work(q)
    BY <1>2 DEF Work, options
  <2>2. draining \subseteq Polls /\ draining' = draining
    BY <1>2 DEF TypeOK, closing
  <2>3. \A o \in owed' : o[1] \in draining' /\ o[2] \in Members(Work(o[1])')
    BY <1>2, <2>1, <2>2 DEF DrainInv, closing
  <2> QED
    BY <1>2, <1>4, <2>1, <2>2, <2>3 DEF DrainInv, closing
<1>9. AbandonedOnlyByFault'
  BY <1>2 DEF AbandonedOnlyByFault, InHand, options, broker
<1> QED
  BY <1>5, <1>6, <1>7, <1>8, <1>9

\* What is in a poll's hands while its work is tracked.
LEMMA InHandOf ==
  ASSUME IInv, NEW p \in Polls, phase[p] # "idle"
  PROVE  /\ todo[p] \in Lines
         /\ todo[p] # <<>>
         /\ todo[p][1] \in Messages
         /\ ~batch => Members(Work(p)) = {todo[p][1]} /\ Len(Work(p)) = 1
<1>1. todo[p] \in Lines /\ todo[p] # <<>> /\ batch \in BOOLEAN
  BY LineIsBatch DEF IInv, TypeOK, PlaceInv
<1> QED
  BY <1>1, WorkIsPrefix

LEMMA RunsKeepTypes ==
  ASSUME IInv, NEW p \in Polls, Runs(p)
  PROVE  TypeOK'
<1> USE DEF IInv
<1>1. PhaseStep(p)
  BY RunsArePhaseSteps
<1>2. Sem!TypeOK'
  BY <1>1, PhaseStepKeeps
<1>3. fate' \in [Messages -> {"none", "handled", "deadLettered", "dropped"}]
  <2>1. CASE HandlerSucceeds(p) \/ RejectWithWarning(p)
    BY <2>1 DEF HandlerSucceeds, RejectWithWarning, TypeOK
  <2>2. CASE DlqAnswered(p)
    BY <2>2 DEF DlqAnswered, TypeOK
  <2>3. CASE SkipDuplicate(p) \/ PassCache(p) \/ FailBeforeHandler(p) \/ CallHandler(p)
               \/ RejectToDlq(p) \/ HandlerThrows(p)
    BY <2>3 DEF SkipDuplicate, PassCache, FailBeforeHandler, CallHandler, RejectToDlq,
                HandlerThrows, history, TypeOK
  <2> QED
    BY <2>1, <2>2, <2>3 DEF Runs
<1>4. remembered' \subseteq Keys
  <2>1. CASE HandlerSucceeds(p)
    BY <2>1 DEF HandlerSucceeds, TypeOK
  <2>2. CASE ~HandlerSucceeds(p)
    BY <2>2 DEF Runs, SkipDuplicate, PassCache, FailBeforeHandler, CallHandler,
                RejectToDlq, DlqAnswered, RejectWithWarning, HandlerThrows, TypeOK
  <2> QED
    BY <2>1, <2>2
<1>5. /\ phase' \in [Polls -> {"idle", "asking", "validating", "routing", "handling",
                              "settling", "between"}]
      /\ verdict' \in [Polls -> {"none", "ok", "error"}]
  BY <1>1 DEF PhaseStep, TypeOK
<1> QED
  BY <1>1, <1>2, <1>3, <1>4, <1>5
  DEF PhaseStep, TypeOK, options, broker, semaphore, closing

\* How a run changes what became of messages handled one by one: only for its own
\* message, and as the validation of that message says.
LEMMA RunsChangeFate ==
  ASSUME IInv, NEW p \in Polls, Runs(p), ~batch
  PROVE  LET m == todo[p][1]
         IN  /\ m \in Messages
             /\ \A n \in Messages \ {m} : fate'[n] = fate[n]
             /\ \/ fate'[m] = fate[m]
                \/ fate'[m] = "handled" /\ m \notin Invalid
                \/ fate'[m] \in {"deadLettered", "dropped"} /\ m \in Invalid
<1> USE DEF IInv
<1> DEFINE m == todo[p][1]
<1>1. phase[p] # "idle"
  BY RunsArePhaseSteps DEF PhaseStep, Tracked
<1>2. m \in Messages /\ Members(Work(p)) = {m}
  BY <1>1, InHandOf
<1>3. CASE HandlerSucceeds(p)
  <2>1. m \notin Invalid
    BY <1>3 DEF HandlerSucceeds, ProcessedInv
  <2> QED
    BY <1>2, <1>3, <2>1 DEF HandlerSucceeds
<1>4. CASE DlqAnswered(p)
  <2>1. m \in Invalid
    BY <1>4 DEF DlqAnswered, ProcessedInv
  <2> QED
    BY <1>2, <1>4, <2>1 DEF DlqAnswered
<1>5. CASE RejectWithWarning(p)
  BY <1>2, <1>5 DEF RejectWithWarning, FailsValidation
<1>6. CASE SkipDuplicate(p) \/ PassCache(p) \/ FailBeforeHandler(p) \/ CallHandler(p)
             \/ RejectToDlq(p) \/ HandlerThrows(p)
  BY <1>2, <1>6 DEF SkipDuplicate, PassCache, FailBeforeHandler, CallHandler, RejectToDlq,
                    HandlerThrows, history
<1> QED
  BY <1>3, <1>4, <1>5, <1>6 DEF Runs

\* Processed messages stay processed, because a handled one is never rejected later.
LEMMA ProcessedStays ==
  ASSUME IInv, ~batch,
         \A n \in Messages :
           \/ fate'[n] = fate[n]
           \/ fate'[n] = "handled"
           \/ fate'[n] \in {"deadLettered", "dropped"} /\ n \in Invalid
  PROVE  /\ \A n \in Messages : fate[n] = "handled" => fate'[n] = "handled"
         /\ \A n \in Messages : Processed(n) => Processed(n)'
<1>1. \A n \in Messages : fate[n] = "handled" => n \notin Invalid
  BY DEF IInv, ProcessedInv
<1>2. \A n \in Messages : fate[n] = "handled" => fate'[n] = "handled"
  BY <1>1
<1> QED
  BY <1>2 DEF Processed

LEMMA RunsKeepProcessed ==
  ASSUME IInv, NEW p \in Polls, Runs(p)
  PROVE  ProcessedInv'
<1> USE DEF IInv
<1> DEFINE m == todo[p][1]
<1>1. PhaseStep(p) /\ phase[p] # "idle"
  BY RunsArePhaseSteps DEF PhaseStep, Tracked
<1>2. /\ batch' = batch /\ manualAck' = manualAck /\ todo' = todo /\ at' = at
      /\ \A q \in Polls \ {p} : phase'[q] = phase[q] /\ verdict'[q] = verdict[q]
  BY <1>1 DEF PhaseStep, TypeOK, options, broker
<1> SUFFICES ASSUME ~batch PROVE ProcessedInv'
  BY <1>2 DEF ProcessedInv
<1>3. /\ m \in Messages
      /\ \A n \in Messages \ {m} : fate'[n] = fate[n]
      /\ \/ fate'[m] = fate[m]
         \/ fate'[m] = "handled" /\ m \notin Invalid
         \/ fate'[m] \in {"deadLettered", "dropped"} /\ m \in Invalid
  BY RunsChangeFate
<1>4. /\ \A n \in Messages : fate[n] = "handled" => fate'[n] = "handled"
      /\ \A n \in Messages : Processed(n) => Processed(n)'
  BY <1>3, ProcessedStays
<1>5. \A n \in Messages : fate'[n] = "handled" => n \notin Invalid
  BY <1>3 DEF ProcessedInv
<1>6. \A key \in remembered' : \E o \in Messages : KeyOf[o] = key /\ fate'[o] = "handled"
  <2>1. CASE HandlerSucceeds(p)
    <3>1. fate'[m] = "handled" /\ remembered' \subseteq remembered \cup {KeyOf[m]}
      BY <1>1, <1>3, <2>1, InHandOf DEF HandlerSucceeds, WorkKey
    <3> QED
      BY <1>3, <1>4, <3>1 DEF ProcessedInv
  <2>2. CASE ~HandlerSucceeds(p)
    <3>1. remembered' = remembered
      BY <2>2 DEF Runs, SkipDuplicate, PassCache, FailBeforeHandler, CallHandler,
                  RejectToDlq, DlqAnswered, RejectWithWarning, HandlerThrows
    <3> QED
      BY <1>4, <3>1 DEF ProcessedInv
  <2> QED
    BY <2>1, <2>2
<1>7. AckedWasProcessed'
  BY <1>2, <1>4 DEF ProcessedInv, AckedWasProcessed
<1>8. /\ phase'[p] = "routing" => m \in Invalid
      /\ phase'[p] = "handling" => m \notin Invalid
      /\ phase'[p] = "settling" /\ verdict'[p] = "ok" => Processed(m)'
  <2> USE DEF TypeOK
  <2>1. CASE SkipDuplicate(p)
    <3>1. \E o \in Messages : KeyOf[o] = KeyOf[m] /\ KeyOf[m] \in Keys /\ fate[o] = "handled"
      BY <2>1 DEF SkipDuplicate, Duplicate, WorkKey, ProcessedInv
    <3> QED
      BY <1>3, <1>4, <2>1, <3>1 DEF SkipDuplicate, Settling, Processed
  <2>2. CASE PassCache(p)
    BY <1>3, <2>2 DEF PassCache, Validates
  <2>3. CASE FailBeforeHandler(p) \/ HandlerThrows(p)
    BY <2>3 DEF FailBeforeHandler, HandlerThrows, Settling
  <2>4. CASE CallHandler(p)
    BY <2>4 DEF CallHandler
  <2>5. CASE RejectToDlq(p)
    BY <2>5 DEF RejectToDlq, FailsValidation
  <2>6. CASE DlqAnswered(p)
    BY <1>3, <2>6 DEF DlqAnswered, Settling, Processed
  <2>7. CASE RejectWithWarning(p)
    <3>1. fate'[m] = "dropped"
      BY <1>1, <1>3, <2>7, InHandOf DEF RejectWithWarning
    <3> QED
      BY <2>7, <3>1 DEF RejectWithWarning, Settling, Processed
  <2>8. CASE HandlerSucceeds(p)
    <3>1. fate'[m] = "handled"
      BY <1>1, <1>3, <2>8, InHandOf DEF HandlerSucceeds
    <3> QED
      BY <2>8, <3>1 DEF HandlerSucceeds, Settling, Processed
  <2> QED
    BY <2>1, <2>2, <2>3, <2>4, <2>5, <2>6, <2>7, <2>8 DEF Runs
<1>9. ASSUME NEW q \in Polls \ {p}
      PROVE  /\ phase'[q] = "routing" => todo'[q][1] \in Invalid
             /\ phase'[q] = "handling" => todo'[q][1] \notin Invalid
             /\ phase'[q] = "settling" /\ verdict'[q] = "ok" => Processed(todo[q][1])'
  <2>1. phase[q] = "settling" => todo[q][1] \in Messages
    BY InHandOf
  <2>2. phase[q] = "settling" /\ verdict[q] = "ok" => Processed(todo[q][1])
    BY DEF ProcessedInv
  <2>3. phase[q] = "settling" /\ verdict[q] = "ok" => Processed(todo[q][1])'
    BY <1>2, <1>4, <2>1, <2>2 DEF Processed
  <2> QED
    BY <1>2, <2>3 DEF ProcessedInv
<1>10. \A q \in Polls :
        /\ phase'[q] = "routing" => todo'[q][1] \in Invalid
        /\ phase'[q] = "handling" => todo'[q][1] \notin Invalid
        /\ phase'[q] = "settling" /\ verdict'[q] = "ok" => Processed(todo[q][1])'
  BY <1>2, <1>8, <1>9
<1> QED
  BY <1>2, <1>5, <1>6, <1>7, <1>10 DEF ProcessedInv

\* Asking for a permit begins a tracked work, or is refused and ends the poll.
LEMMA AskKeeps ==
  ASSUME IInv, NEW p \in Polls, NEW s \in Lines, s # <<>>,
         phase[p] \in {"idle", "between"}, Ask(p, s),
         UNCHANGED <<options, verdict, remembered, closing, fate, unsettled>>
  PROVE  /\ Sem!TypeOK' /\ Sem!SemaphoreInv'
         /\ phase' \in [Polls -> {"idle", "asking", "validating", "routing", "handling",
                                  "settling", "between"}]
         /\ todo' \in [Polls -> Lines]
         /\ \A q \in Polls \ {p} : phase'[q] = phase[q] /\ todo'[q] = todo[q]
         /\ \/ phase'[p] = "asking" /\ todo'[p] = s /\ refused' = refused
            \/ phase'[p] = "idle" /\ todo'[p] = <<>> /\ refused' = refused \cup Members(s)
         /\ PlaceInv' /\ HoldInv' /\ DrainInv'
<1> USE DEF IInv
<1>1. todo \in [Polls -> Lines] /\ <<>> \in Lines
  BY LineIsBatch DEF TypeOK
<1>2. /\ phase' \in [Polls -> {"idle", "asking", "validating", "routing", "handling",
                              "settling", "between"}]
      /\ todo' \in [Polls -> Lines]
      /\ \A q \in Polls \ {p} : phase'[q] = phase[q] /\ todo'[q] = todo[q]
      /\ \/ phase'[p] = "asking" /\ todo'[p] = s /\ refused' = refused
         \/ phase'[p] = "idle" /\ todo'[p] = <<>> /\ refused' = refused \cup Members(s)
  BY <1>1 DEF Ask, AskPermit, AskRefused, AskUnlimited, TypeOK
<1>3. promise[p] \notin {"resolved", "pending"} /\ p \notin draining
  BY DEF HoldInv, DrainInv, Tracked
<1>4. /\ Sem!TypeOK' /\ Sem!SemaphoreInv'
      /\ \A q \in Polls \ {p} : promise'[q] = promise[q]
      /\ MapsFilled /\ phase'[p] = "asking" => promise'[p] \in {"pending", "resolved"}
      /\ phase'[p] = "idle" => promise'[p] = "rejected"
      /\ ~MapsFilled => promise'[p] = promise[p]
  <2>1. CASE AskPermit(p, s)
    <3>1. MapsFilled /\ (Sem!AcquireFree(p) \/ Sem!AcquireWait(p)) /\ phase'[p] = "asking"
      BY <2>1 DEF AskPermit, TypeOK
    <3>2. Sem!Acquire(p)
      BY <3>1 DEF Sem!Acquire
    <3> QED
      BY <3>1, <3>2, SemaphoreKept, AcquireEffect DEF TypeOK
  <2>2. CASE AskRefused(p, s)
    <3>1. MapsFilled /\ Sem!AcquireOverflow(p) /\ phase'[p] = "idle"
      BY <2>2 DEF AskRefused, TypeOK
    <3>2. Sem!Acquire(p)
      BY <3>1 DEF Sem!Acquire
    <3> QED
      BY <3>1, <3>2, SemaphoreKept, AcquireEffect DEF TypeOK
  <2>3. CASE AskUnlimited(p, s)
    <3>1. ~MapsFilled /\ UNCHANGED semaphore /\ phase'[p] = "asking"
      BY <2>3 DEF AskUnlimited, TypeOK
    <3>2. Sem!TypeOK' /\ Sem!SemaphoreInv'
      BY <3>1, SemaphoreUnchanged DEF TypeOK
    <3> QED
      BY <3>1, <3>2 DEF semaphore
  <2> QED
    BY <2>1, <2>2, <2>3 DEF Ask
<1>5. PlaceInv'
  BY <1>2 DEF PlaceInv
<1>6. MapsFilled' <=> MapsFilled
  BY DEF MapsFilled, closing
<1>7. \A q \in Polls \ {p} : Tracked(q)' <=> Tracked(q)
  BY <1>2 DEF Tracked
<1>8. HoldInv'
  <2>1. \A q \in Polls \ {p} :
          /\ promise'[q] = "resolved" => Tracked(q)'
          /\ promise'[q] = "pending" => phase'[q] = "asking"
          /\ MapsFilled' /\ Tracked(q)' => promise'[q] \in {"pending", "resolved"}
    BY <1>2, <1>4, <1>6, <1>7 DEF HoldInv
  <2>2. /\ promise'[p] = "resolved" => Tracked(p)'
        /\ promise'[p] = "pending" => phase'[p] = "asking"
        /\ MapsFilled' /\ Tracked(p)' => promise'[p] \in {"pending", "resolved"}
    BY <1>2, <1>3, <1>4, <1>6 DEF Tracked
  <2> QED
    BY <2>1, <2>2 DEF HoldInv
<1>9. DrainInv'
  <2>1. \A q \in Polls \ {p} : Work(q)' = Work(q)
    BY <1>2 DEF Work, options
  <2>2. draining \subseteq Polls \ {p} /\ draining' = draining /\ owed' = owed
    BY <1>3 DEF TypeOK, closing
  <2>3. \A o \in owed' : o[1] \in draining' /\ o[2] \in Members(Work(o[1])')
    BY <2>1, <2>2 DEF DrainInv
  <2>4. \A q \in draining' : Tracked(q)'
    BY <1>7, <2>2 DEF DrainInv
  <2> QED
    BY <2>2, <2>3, <2>4 DEF DrainInv, closing
<1> QED
  BY <1>2, <1>4, <1>5, <1>8, <1>9

\* A step that acknowledges processed messages only, processes none, and after which
\* no other poll routes, handles or settles than before, keeps ProcessedInv.
LEMMA ProcessedKept ==
  ASSUME IInv, batch' = batch, manualAck' = manualAck, fate' = fate,
         remembered' \subseteq remembered,
         \A m \in Messages : ~batch /\ ~manualAck /\ at'[m] = "acked"
                             => at[m] = "acked" \/ Processed(m),
         \A q \in Polls : \/ phase'[q] \in {"idle", "asking", "between"}
                          \/ /\ phase'[q] = phase[q]
                             /\ todo'[q] = todo[q]
                             /\ verdict'[q] = verdict[q]
  PROVE  ProcessedInv'
<1> SUFFICES ASSUME ~batch PROVE ProcessedInv'
  BY DEF ProcessedInv
<1> USE DEF IInv
<1>1. \A m \in Messages : fate'[m] = "handled" => m \notin Invalid
  BY DEF ProcessedInv
<1>2. AckedWasProcessed'
  BY DEF ProcessedInv, AckedWasProcessed, Processed
<1>3. \A key \in remembered' : \E o \in Messages : KeyOf[o] = key /\ fate'[o] = "handled"
  BY DEF ProcessedInv
<1>4. ASSUME NEW q \in Polls
      PROVE  /\ phase'[q] = "routing" => todo'[q][1] \in Invalid
             /\ phase'[q] = "handling" => todo'[q][1] \notin Invalid
             /\ phase'[q] = "settling" /\ verdict'[q] = "ok" => Processed(todo[q][1])'
  BY DEF ProcessedInv, Processed
<1> QED
  BY <1>1, <1>2, <1>3, <1>4 DEF ProcessedInv

\* The members of a line are finitely many, so that redeliveries can be counted.
LEMMA MembersFinite ==
  ASSUME NEW s \in Lines, NEW S
  PROVE  Cardinality(Members(s) \cap S) \in Nat
<1>1. IsFiniteSet(1..Len(s)) /\ Len(s) \in Nat
  BY FS_Interval, LenProperties DEF Lines
<1>2. IsFiniteSet({s[i] : i \in 1..Len(s)})
  <2>1. s \in [1..Len(s) -> Messages]
    BY LenProperties DEF Lines
  <2>2. s \in Surjection(1..Len(s), {s[i] : i \in 1..Len(s)})
    BY <2>1 DEF Surjection
  <2> QED
    BY <1>1, <2>2, FS_Surjection
<1>3. IsFiniteSet(Members(s) \cap S)
  BY <1>2, FS_Subset DEF Members
<1> QED
  BY <1>3, FS_CardinalityType

LEMMA DeliverIInv ==
  ASSUME IInv, NEW p \in Polls, Deliver(p)
  PROVE  IInv'
<1> USE DEF IInv
<1>1. PICK s \in Batches(Ready) :
        /\ at' = [m \in Messages |-> IF m \in Members(s) THEN "delivered" ELSE at[m]]
        /\ redeliveries' = redeliveries + Cardinality(Members(s) \cap Requeued)
        /\ redeliveries' <= MaxRedeliveries
        /\ Ask(p, s)
  BY DEF Deliver
<1>2. s \in Lines /\ s # <<>> /\ Members(s) \subseteq Messages
  BY BatchIsLine DEF Ready
<1>3. /\ phase[p] = "idle" /\ todo[p] = <<>>
      /\ UNCHANGED <<options, verdict, remembered, closing, fate, unsettled>>
  BY DEF Deliver, PlaceInv
<1>4. /\ Sem!TypeOK' /\ Sem!SemaphoreInv'
      /\ phase' \in [Polls -> {"idle", "asking", "validating", "routing", "handling",
                              "settling", "between"}]
      /\ todo' \in [Polls -> Lines]
      /\ \A q \in Polls \ {p} : phase'[q] = phase[q] /\ todo'[q] = todo[q]
      /\ \/ phase'[p] = "asking" /\ todo'[p] = s /\ refused' = refused
         \/ phase'[p] = "idle" /\ todo'[p] = <<>> /\ refused' = refused \cup Members(s)
      /\ PlaceInv' /\ HoldInv' /\ DrainInv'
  BY <1>1, <1>2, <1>3, AskKeeps
<1>5. TypeOK'
  <2>1. redeliveries' \in 0..MaxRedeliveries
    <3>1. Cardinality(Members(s) \cap Requeued) \in Nat
      BY <1>2, MembersFinite
    <3> QED
      BY <1>1, <3>1, SizesAssumption DEF TypeOK
  <2>2. at' \in [Messages -> {"queued", "delivered", "requeued", "acked"}]
    BY <1>1 DEF TypeOK
  <2>3. refused' \subseteq Messages
    BY <1>2, <1>4 DEF TypeOK
  <2> QED
    BY <1>3, <1>4, <2>1, <2>2, <2>3, LineIsBatch DEF TypeOK, options, closing
<1>6. AbandonedOnlyByFault'
  <2> SUFFICES ASSUME ~manualAck, NEW m \in Messages, at'[m] = "delivered", ~InHand(m)'
               PROVE  m \in refused' \cup unsettled'
    BY <1>3 DEF AbandonedOnlyByFault, options
  <2>1. CASE m \in Members(s)
    BY <1>4, <2>1 DEF InHand
  <2>2. CASE m \notin Members(s)
    <3>1. at[m] = "delivered"
      BY <1>1, <2>2
    <3>2. ~InHand(m)
      <4>1. m \notin Members(todo[p])
        BY <1>3, EmptySeq DEF Members
      <4> QED
        BY <1>4, <4>1 DEF InHand, Members
    <3> QED
      BY <1>3, <1>4, <3>1, <3>2 DEF AbandonedOnlyByFault
  <2> QED
    BY <2>1, <2>2
<1>7. ProcessedInv'
  <2>1. \A m \in Messages : at'[m] = "acked" => at[m] = "acked"
    BY <1>1
  <2> QED
    BY <1>3, <1>4, <2>1, ProcessedKept DEF options
<1> QED
  BY <1>4, <1>5, <1>6, <1>7

LEMMA NextMessageIInv ==
  ASSUME IInv, NEW p \in Polls, NextMessage(p)
  PROVE  IInv'
<1> USE DEF IInv
<1> DEFINE s == todo[p]
<1>1. /\ phase[p] = "between"
      /\ Ask(p, s)
      /\ UNCHANGED <<options, broker, verdict, remembered, closing, fate, unsettled>>
  BY DEF NextMessage
<1>2. s \in Lines /\ s # <<>> /\ Members(s) \subseteq Messages
  BY <1>1, InHandOf, ElementOfSeq DEF Members, Lines
<1>4. /\ Sem!TypeOK' /\ Sem!SemaphoreInv'
      /\ phase' \in [Polls -> {"idle", "asking", "validating", "routing", "handling",
                              "settling", "between"}]
      /\ todo' \in [Polls -> Lines]
      /\ \A q \in Polls \ {p} : phase'[q] = phase[q] /\ todo'[q] = todo[q]
      /\ \/ phase'[p] = "asking" /\ todo'[p] = s /\ refused' = refused
         \/ phase'[p] = "idle" /\ todo'[p] = <<>> /\ refused' = refused \cup Members(s)
      /\ PlaceInv' /\ HoldInv' /\ DrainInv'
  BY <1>1, <1>2, AskKeeps
<1>5. TypeOK'
  <2>1. refused' \subseteq Messages
    BY <1>2, <1>4 DEF TypeOK
  <2> QED
    BY <1>1, <1>4, <2>1, LineIsBatch DEF TypeOK, options, broker, closing
<1>6. AbandonedOnlyByFault'
  <2> SUFFICES ASSUME ~manualAck, NEW m \in Messages, at[m] = "delivered", ~InHand(m)'
               PROVE  m \in refused' \cup unsettled'
    BY <1>1 DEF AbandonedOnlyByFault, options, broker
  <2>1. CASE m \in Members(s)
    BY <1>4, <2>1 DEF InHand
  <2>2. CASE m \notin Members(s)
    <3>1. ~InHand(m)
      BY <1>4, <2>2 DEF InHand, Members
    <3> QED
      BY <1>1, <1>4, <3>1 DEF AbandonedOnlyByFault
  <2> QED
    BY <2>1, <2>2
<1>7. ProcessedInv'
  BY <1>1, <1>4, ProcessedKept DEF options, broker
<1> QED
  BY <1>4, <1>5, <1>6, <1>7

\* The permit of a settled work is given back, whether it had one or not.
LEMMA PermitReturned ==
  ASSUME IInv, NEW p \in Polls, phase[p] = "settling", ReleasePermit(p)
  PROVE  /\ Sem!TypeOK' /\ Sem!SemaphoreInv'
         /\ promise'[p] \notin {"resolved", "pending"}
         /\ \A q \in Polls \ {p} :
              \/ promise'[q] = promise[q]
              \/ promise[q] = "pending" /\ promise'[q] = "resolved"
<1> USE DEF IInv
<1>1. promise[p] # "pending"
  BY DEF HoldInv
<1>2. CASE promise[p] = "resolved"
  <2>1. Sem!Release(p)
    BY <1>2 DEF ReleasePermit
  <2> QED
    BY <2>1, SemaphoreKept, ReleaseEffect DEF TypeOK
<1>3. CASE promise[p] # "resolved"
  <2>1. UNCHANGED semaphore
    BY <1>3 DEF ReleasePermit
  <2>2. Sem!TypeOK' /\ Sem!SemaphoreInv'
    BY <2>1, SemaphoreUnchanged DEF TypeOK
  <2> QED
    BY <1>1, <1>3, <2>1, <2>2 DEF semaphore
<1> QED
  BY <1>2, <1>3

\* What a settlement does, with the choice of how far its loops get named.
LEMMA SettleEffect ==
  ASSUME IInv, NEW p \in Polls, Settle(p)
  PROVE  \E r \in [acks : 0..Len(Work(p)), nacks : 0..Len(Work(p))] :
           /\ verdict[p] = "error" /\ ~manualAck => r.acks = 0
           /\ manualAck => at' = at
           /\ ~manualAck =>
                \A m \in Messages :
                  IF m \in Members(Work(p))
                  THEN \E i \in 1..Len(Work(p)) : at'[m] = Answered(i, r)
                  ELSE at'[m] = at[m]
           /\ at' \in [Messages -> {"queued", "delivered", "requeued", "acked"}]
           /\ IF r.nacks < Len(Work(p))
              THEN /\ unsettled' = unsettled \cup
                                    {m \in Members(todo[p]) : at'[m] = "delivered"}
                   /\ phase' = [phase EXCEPT ![p] = "idle"]
                   /\ todo' = [todo EXCEPT ![p] = <<>>]
              ELSE /\ phase' = [phase EXCEPT ![p] = IF Rest(p) = <<>> THEN "idle" ELSE "between"]
                   /\ todo' = [todo EXCEPT ![p] = Rest(p)]
                   /\ unsettled' = unsettled
                   /\ r.nacks = Len(Work(p))
<1> USE DEF IInv
<1> DEFINE w == Work(p)
<1>1. phase[p] = "settling"
  BY DEF Settle
<1>2. Len(w) \in Nat
  <2>1. Len(w) \in 1..Len(todo[p]) /\ todo[p] \in Seq(Messages)
    BY <1>1, InHandOf, WorkIsPrefix DEF TypeOK, Lines
  <2> QED
    BY <2>1
<1>3. PICK r \in IF manualAck THEN {[acks |-> 0, nacks |-> Len(w)]} ELSE Answers(w, verdict[p]) :
        /\ at' = IF manualAck THEN at
                 ELSE [m \in Messages |->
                         IF m \in Members(w)
                         THEN Answered(CHOOSE i \in 1..Len(w) : w[i] = m, r)
                         ELSE at[m]]
        /\ IF r.nacks < Len(w)
           THEN /\ unsettled' = unsettled \cup
                     {m \in Members(todo[p]) : at'[m] = "delivered"}
                /\ phase' = [phase EXCEPT ![p] = "idle"]
                /\ todo' = [todo EXCEPT ![p] = <<>>]
           ELSE /\ phase' = [phase EXCEPT ![p] = IF Rest(p) = <<>> THEN "idle" ELSE "between"]
                /\ todo' = [todo EXCEPT ![p] = Rest(p)]
                /\ UNCHANGED unsettled
  BY DEF Settle, Rest
<1>4. /\ r \in [acks : 0..Len(w), nacks : 0..Len(w)]
      /\ verdict[p] = "error" /\ ~manualAck => r.acks = 0
  BY <1>2, <1>3 DEF Answers
<1>5. ASSUME ~manualAck, NEW m \in Messages, m \in Members(w)
      PROVE  \E i \in 1..Len(w) : at'[m] = Answered(i, r)
  <2>1. \E i \in 1..Len(w) : w[i] = m
    BY <1>5 DEF Members
  <2>2. (CHOOSE i \in 1..Len(w) : w[i] = m) \in 1..Len(w)
    BY <2>1
  <2> QED
    BY <1>3, <1>5, <2>2
<1>6. ~manualAck => \A m \in Messages : m \notin Members(w) => at'[m] = at[m]
  BY <1>3
<1>7. at' \in [Messages -> {"queued", "delivered", "requeued", "acked"}]
  BY <1>3 DEF TypeOK, Answered
<1>8. ~(r.nacks < Len(w)) => r.nacks = Len(w)
  BY <1>2, <1>4
<1> QED
  BY <1>3, <1>4, <1>5, <1>6, <1>7, <1>8

LEMMA SettleIInv ==
  ASSUME IInv, NEW p \in Polls, Settle(p)
  PROVE  IInv'
<1> USE DEF IInv
<1> DEFINE w == Work(p)
<1>1. /\ phase[p] = "settling"
      /\ verdict' = [verdict EXCEPT ![p] = "none"]
      /\ ReleasePermit(p)
      /\ draining' = draining \ {p}
      /\ owed' = owed \ {<<p, m>> : m \in Members(w)}
      /\ UNCHANGED <<options, redeliveries, remembered, status, timedOut, fate, refused>>
  BY DEF Settle
<1>2. PICK r \in [acks : 0..Len(w), nacks : 0..Len(w)] :
        /\ verdict[p] = "error" /\ ~manualAck => r.acks = 0
        /\ manualAck => at' = at
        /\ ~manualAck =>
             \A m \in Messages :
               IF m \in Members(w)
               THEN \E i \in 1..Len(w) : at'[m] = Answered(i, r)
               ELSE at'[m] = at[m]
        /\ at' \in [Messages -> {"queued", "delivered", "requeued", "acked"}]
        /\ IF r.nacks < Len(w)
           THEN /\ unsettled' = unsettled \cup
                                 {m \in Members(todo[p]) : at'[m] = "delivered"}
                /\ phase' = [phase EXCEPT ![p] = "idle"]
                /\ todo' = [todo EXCEPT ![p] = <<>>]
           ELSE /\ phase' = [phase EXCEPT ![p] = IF Rest(p) = <<>> THEN "idle" ELSE "between"]
                /\ todo' = [todo EXCEPT ![p] = Rest(p)]
                /\ unsettled' = unsettled
                /\ r.nacks = Len(w)
  BY SettleEffect
<1>3. /\ todo \in [Polls -> Lines] /\ <<>> \in Lines
      /\ todo[p] # <<>> /\ batch \in BOOLEAN
  BY <1>1, LineIsBatch, InHandOf DEF TypeOK
<1>4. /\ Rest(p) \in Lines
      /\ Members(todo[p]) = Members(w) \cup Members(Rest(p))
      /\ Members(todo[p]) \subseteq Messages
      /\ ~batch => Members(w) = {todo[p][1]} /\ Len(w) = 1
      /\ Len(w) \in Nat
  <2>1. Len(w) \in 1..Len(todo[p]) /\ todo[p] \in Seq(Messages)
    BY <1>3, WorkIsPrefix DEF Lines
  <2> QED
    BY <1>3, <2>1, RestIsLine, WorkIsPrefix
<1>5. /\ phase' \in [Polls -> {"idle", "asking", "validating", "routing", "handling",
                              "settling", "between"}]
      /\ todo' \in [Polls -> Lines]
      /\ verdict' \in [Polls -> {"none", "ok", "error"}]
      /\ \A q \in Polls \ {p} :
           phase'[q] = phase[q] /\ todo'[q] = todo[q] /\ verdict'[q] = verdict[q]
      /\ phase'[p] \in {"idle", "between"}
      /\ phase'[p] = "idle" <=> todo'[p] = <<>>
  BY <1>1, <1>2, <1>3, <1>4 DEF TypeOK
<1>6. /\ Sem!TypeOK' /\ Sem!SemaphoreInv'
      /\ promise'[p] \notin {"resolved", "pending"}
      /\ \A q \in Polls \ {p} :
           \/ promise'[q] = promise[q]
           \/ promise[q] = "pending" /\ promise'[q] = "resolved"
  BY <1>1, PermitReturned
<1>7. TypeOK'
  <2>1. unsettled' \subseteq Messages
    BY <1>2, <1>4 DEF TypeOK
  <2> QED
    BY <1>1, <1>2, <1>5, <1>6, <2>1, LineIsBatch DEF TypeOK, options
<1>8. PlaceInv'
  BY <1>5 DEF PlaceInv
<1>9. \A q \in Polls \ {p} : Tracked(q)' <=> Tracked(q)
  BY <1>5 DEF Tracked
<1>10. HoldInv'
  <2>1. ~Tracked(p)'
    BY <1>5 DEF Tracked
  <2>2. MapsFilled' <=> MapsFilled
    BY <1>1 DEF MapsFilled
  <2>3. \A q \in Polls : promise[q] = "pending" => phase[q] = "asking" /\ Tracked(q)
    BY DEF HoldInv, Tracked
  <2> QED
    BY <1>5, <1>6, <1>9, <2>1, <2>2, <2>3 DEF HoldInv
<1>11. DrainInv'
  <2>1. \A q \in Polls \ {p} : Work(q)' = Work(q)
    BY <1>1, <1>5 DEF Work, options
  <2>2. ASSUME NEW o \in owed'
        PROVE  o[1] \in draining' /\ o[2] \in Members(Work(o[1])')
    <3>1. o \in owed /\ o = <<o[1], o[2]>> /\ o[1] \in Polls
      BY <1>1 DEF TypeOK
    <3>2. o[1] \in draining /\ o[2] \in Members(Work(o[1]))
      BY <3>1 DEF DrainInv
    <3>3. o[1] # p
      BY <1>1, <3>1, <3>2
    <3> QED
      BY <1>1, <2>1, <3>1, <3>2, <3>3
  <2>3. draining' \subseteq Polls \ {p}
    BY <1>1 DEF TypeOK
  <2> QED
    BY <1>1, <1>9, <2>2, <2>3 DEF DrainInv
<1>12. AbandonedOnlyByFault'
  <2> SUFFICES ASSUME ~manualAck, NEW m \in Messages, at'[m] = "delivered", ~InHand(m)'
               PROVE  m \in refused' \cup unsettled'
    BY <1>1 DEF AbandonedOnlyByFault, options
  <2>1. CASE m \in Members(todo[p]) /\ r.nacks < Len(w)
    BY <1>2, <2>1
  <2>2. CASE m \in Members(w) /\ ~(r.nacks < Len(w))
    BY <1>2, <2>2 DEF Answered
  <2>3. CASE m \in Members(Rest(p)) /\ ~(r.nacks < Len(w))
    <3>1. todo'[p] = Rest(p)
      BY <1>2, <1>3, <2>3
    <3> QED
      BY <2>3, <3>1 DEF InHand, Members
  <2>4. CASE m \notin Members(todo[p])
    <3>1. at[m] = "delivered"
      BY <1>2, <1>4, <2>4
    <3>2. ~InHand(m)
      BY <1>5, <2>4 DEF InHand, Members
    <3> QED
      BY <1>1, <1>2, <3>1, <3>2 DEF AbandonedOnlyByFault
  <2> QED
    BY <1>4, <2>1, <2>2, <2>3, <2>4
<1>13. ProcessedInv'
  <2>1. ASSUME NEW m \in Messages, ~batch, ~manualAck, at'[m] = "acked"
        PROVE  at[m] = "acked" \/ Processed(m)
    <3>1. CASE m \notin Members(w)
      BY <1>2, <2>1, <3>1
    <3>2. CASE m \in Members(w)
      <4>1. PICK i \in 1..1 : Answered(i, r) = "acked"
        BY <1>2, <1>4, <2>1, <3>2
      <4>2. verdict[p] = "ok"
        BY <1>1, <1>2, <1>4, <2>1, <4>1 DEF Answered, PlaceInv, TypeOK
      <4> QED
        BY <1>1, <1>4, <2>1, <3>2, <4>2 DEF ProcessedInv
    <3> QED
      BY <3>1, <3>2
  <2> QED
    BY <1>1, <1>5, <2>1, ProcessedKept DEF options
<1> QED
  BY <1>6, <1>7, <1>8, <1>10, <1>11, <1>12, <1>13

LEMMA HandlerSettlesIInv ==
  ASSUME IInv, NEW p \in Polls, HandlerSettles(p)
  PROVE  IInv'
<1> USE DEF IInv
<1>1. /\ manualAck
      /\ at' \in [Messages -> {"queued", "delivered", "requeued", "acked"}]
      /\ UNCHANGED <<options, redeliveries, poll, semaphore, remembered, closing, history>>
  BY DEF HandlerSettles, Settleable, TypeOK
<1>2. Sem!TypeOK' /\ Sem!SemaphoreInv'
  BY <1>1, SemaphoreUnchanged DEF TypeOK
<1>3. TypeOK'
  BY <1>1, <1>2 DEF TypeOK, options, poll, closing, history
<1>4. PlaceInv' /\ HoldInv' /\ DrainInv'
  BY <1>1 DEF PlaceInv, HoldInv, DrainInv, Tracked, MapsFilled, Work,
              options, poll, semaphore, closing
<1>5. AbandonedOnlyByFault'
  BY <1>1 DEF AbandonedOnlyByFault, options
<1>6. ProcessedInv'
  BY <1>1, ProcessedKept DEF options, poll, history
<1> QED
  BY <1>2, <1>3, <1>4, <1>5, <1>6

\* The steps of close() and of the cache leave messages, polls and permits alone.
LEMMA QuietStep ==
  ASSUME IInv, UNCHANGED <<options, broker, poll, semaphore, history>>,
         remembered' \subseteq remembered,
         status' \in {"open", "draining", "stopping", "closed"},
         MapsFilled' => MapsFilled,
         draining' \subseteq Polls, timedOut' \in BOOLEAN, owed' \subseteq Polls \X Messages,
         DrainInv'
  PROVE  IInv'
<1> USE DEF IInv
<1>1. Sem!TypeOK' /\ Sem!SemaphoreInv'
  BY SemaphoreUnchanged DEF TypeOK
<1>2. TypeOK'
  BY <1>1 DEF TypeOK, options, broker, poll, history
<1>3. PlaceInv' /\ HoldInv'
  BY DEF PlaceInv, HoldInv, Tracked, poll, semaphore
<1>4. AbandonedOnlyByFault'
  BY DEF AbandonedOnlyByFault, InHand, options, broker, poll, history
<1>5. ProcessedInv'
  BY ProcessedKept DEF options, broker, poll, history
<1> QED
  BY <1>1, <1>2, <1>3, <1>4, <1>5

LEMMA ForgetIInv == ASSUME IInv, Forget PROVE IInv'
<1>1. /\ UNCHANGED <<options, broker, poll, semaphore, closing, history>>
      /\ remembered' \subseteq remembered
  BY DEF Forget
<1>2. DrainInv'
  BY <1>1 DEF IInv, DrainInv, Tracked, Work, options, poll, closing
<1> QED
  BY <1>1, <1>2, QuietStep DEF IInv, TypeOK, MapsFilled, closing

LEMMA CloseIInv == ASSUME IInv, Close PROVE IInv'
<1> USE DEF IInv
<1>1. /\ status = "open"
      /\ draining' = {p \in Polls : Tracked(p)}
      /\ status' = IF draining' = {} THEN "stopping" ELSE "draining"
      /\ owed' = UNION {{p} \X Members(Work(p)) :
                          p \in {q \in Polls : phase[q] \notin {"idle", "between"}}}
      /\ UNCHANGED <<options, broker, poll, semaphore, remembered, timedOut, history>>
  BY DEF Close
<1>2. \A p \in Polls : phase[p] \notin {"idle", "between"} <=> Tracked(p)
  BY DEF TypeOK, Tracked
<1>3. /\ \A p : Tracked(p)' <=> Tracked(p)
      /\ \A p : Work(p)' = Work(p)
  BY <1>1 DEF Tracked, Work, options, poll
<1>4. \A o \in owed' : /\ o[1] \in draining'
                       /\ o[2] \in Members(Work(o[1])) /\ o[2] \in Messages
                       /\ o \in Polls \X Messages
  <2>1. \A p \in Polls : Tracked(p) => Members(Work(p)) \subseteq Messages
    <3>1. ASSUME NEW p \in Polls, Tracked(p) PROVE Members(Work(p)) \subseteq Messages
      BY <3>1, InHandOf, WorkIsPrefix DEF Tracked, TypeOK
    <3> QED
      BY <3>1
  <2>2. ASSUME NEW o \in owed'
        PROVE  \E p \in Polls : Tracked(p) /\ o \in {p} \X Members(Work(p))
    BY <1>1, <1>2, <2>2
  <2> QED
    BY <1>1, <2>1, <2>2
<1>5. \A o \in owed' : o[2] \in Members(Work(o[1])')
  BY <1>3, <1>4
<1>6. DrainInv'
  BY <1>1, <1>3, <1>4, <1>5 DEF DrainInv
<1>7. draining' \subseteq Polls /\ owed' \subseteq Polls \X Messages
  BY <1>1, <1>4
<1> QED
  BY <1>1, <1>6, <1>7, QuietStep DEF MapsFilled, TypeOK

LEMMA DrainEndsIInv == ASSUME IInv, DrainEnds PROVE IInv'
<1> USE DEF IInv
<1>1. /\ status = "draining"
      /\ timedOut' = (draining # {})
      /\ status' = "stopping"
      /\ UNCHANGED <<options, broker, poll, semaphore, remembered, draining, owed, history>>
  BY DEF DrainEnds
<1>2. DrainInv'
  <2>1. /\ \A p : Tracked(p)' <=> Tracked(p)
        /\ \A p : Members(Work(p))' = Members(Work(p))
    BY <1>1 DEF Tracked, Work, Members, options, poll
  <2>2. \A o \in owed' : o[1] \in draining' /\ o[2] \in Members(Work(o[1])')
    BY <1>1 DEF DrainInv, Work, options, poll
  <2> QED
    BY <1>1, <2>1, <2>2 DEF DrainInv
<1> QED
  BY <1>1, <1>2, QuietStep DEF MapsFilled, TypeOK

LEMMA CloseEndsIInv == ASSUME IInv, CloseEnds PROVE IInv'
<1> USE DEF IInv
<1>1. /\ status = "stopping"
      /\ status' = "closed"
      /\ remembered' = {}
      /\ UNCHANGED <<options, broker, poll, semaphore, draining, timedOut, owed, history>>
  BY DEF CloseEnds
<1>2. DrainInv'
  BY <1>1 DEF DrainInv, Tracked, Work, options, poll
<1> QED
  BY <1>1, <1>2, QuietStep DEF MapsFilled, TypeOK

LEMMA StepIInv == IInv /\ [Next]_vars => IInv'
<1> SUFFICES ASSUME IInv, [Next]_vars PROVE IInv'
  OBVIOUS
<1>1. ASSUME NEW p \in Polls, Deliver(p) \/ HandlerSettles(p) \/ Proceed(p) PROVE IInv'
  <2>1. CASE Runs(p)
    BY <2>1, RunsArePhaseSteps, PhaseStepKeeps, RunsKeepTypes, RunsKeepProcessed DEF IInv
  <2> QED
    BY <1>1, <2>1, DeliverIInv, HandlerSettlesIInv, SettleIInv, NextMessageIInv
    DEF Proceed, Runs
<1>2. CASE UNCHANGED vars
  <2>1. UNCHANGED <<options, broker, poll, semaphore, remembered, closing, history>>
    BY <1>2 DEF vars
  <2>2. DrainInv'
    BY <2>1 DEF IInv, DrainInv, Tracked, Work, options, poll, closing
  <2> QED
    BY <2>1, <2>2, QuietStep DEF IInv, TypeOK, MapsFilled, closing
<1> QED
  BY <1>1, <1>2, ForgetIInv, CloseIInv, DrainEndsIInv, CloseEndsIInv DEF Next

LEMMA Invariance == Spec => []IInv
  BY InitIInv, StepIInv, PTL DEF Spec

-----------------------------------------------------------------------------
(* The theorems *)

\* Every variable keeps its type; in particular a line in hand never exceeds the
\* poll size or repeats a message.
THEOREM TypeCorrect == Spec => []TypeOK
<1>1. IInv => TypeOK
  BY DEF IInv
<1> QED
  BY Invariance, <1>1, PTL

\* A run of the handler holds a permit as long as there are any: the handlers are
\* among the holders, whom the semaphore limits.
LEMMA HandlersHoldPermits == IInv => HandlersWithinLimit
<1> SUFFICES ASSUME IInv, MapsFilled
             PROVE  Cardinality({p \in Polls : phase[p] = "handling"}) <= MaxConcurrent
  BY DEF HandlersWithinLimit
<1>1. {p \in Polls : phase[p] = "handling"} \subseteq Sem!Holders
  BY DEF IInv, HoldInv, Tracked, Sem!Holders
<1>2. Sem!Holders \subseteq Polls
  BY DEF Sem!Holders
<1>3. /\ IsFiniteSet(Sem!Holders)
      /\ Cardinality(Sem!Holders) \in Nat
      /\ Cardinality({p \in Polls : phase[p] = "handling"}) \in Nat
      /\ Cardinality({p \in Polls : phase[p] = "handling"}) <= Cardinality(Sem!Holders)
  BY <1>1, <1>2, PermitsAssumption, FS_Subset, FS_CardinalityType
<1>4. Sem!Cardinality(Sem!Holders) = Cardinality(Sem!Holders)
  BY DEF Sem!Cardinality, Cardinality, Sem!IsFiniteSet, IsFiniteSet
<1>5. Sem!Cardinality(Sem!Holders) <= MaxConcurrent
  BY DEF IInv, Sem!SemaphoreInv, Sem!ConcurrencyLimit
<1> QED
  BY <1>3, <1>4, <1>5, PermitsAssumption

\* Permits follow the work whatever way it ends (an overflow, a rejected message, a
\* failed handler, a nack that throws), and no more than `concurrency` handlers run
\* together until close() clears the maps.
THEOREM PermitsStaySound == Spec => []PermitsSound
<1>1. IInv => PermitsSound
  BY HandlersHoldPermits DEF IInv, HoldInv, PermitsSound, PermitsMatchWork
<1> QED
  BY Invariance, <1>1, PTL

\* With automatic acknowledgement and messages handled one by one, only a processed
\* message is acknowledged, through every redelivery, duplicate and failure.
THEOREM AckOnlyProcessed == Spec => []AckedSinglyWasProcessed
<1>1. IInv => AckedSinglyWasProcessed
  BY DEF IInv, ProcessedInv, AckedSinglyWasProcessed
<1> QED
  BY Invariance, <1>1, PTL

\* With automatic acknowledgement the server lets go of a delivered message without
\* an answer only for an overflow or an answer that threw.
THEOREM NothingElseAbandons == Spec => []AbandonedOnlyByFault
<1>1. IInv => AbandonedOnlyByFault
  BY DEF IInv
<1> QED
  BY Invariance, <1>1, PTL

\* When the streams close and drain did not time out, nothing that was in flight as
\* close() began is still owed an answer.
THEOREM DrainIsComplete == Spec => []DrainCoversInFlight
<1>1. IInv => DrainCoversInFlight
  <2> SUFFICES ASSUME IInv, status \in {"stopping", "closed"}, ~timedOut PROVE owed = {}
    BY DEF DrainCoversInFlight
  <2>1. \A o \in owed : o[1] \in draining
    BY DEF IInv, DrainInv
  <2>2. draining = {}
    BY DEF IInv, DrainInv
  <2> QED
    BY <2>1, <2>2
<1> QED
  BY Invariance, <1>1, PTL

-----------------------------------------------------------------------------
(* The runs of the handler keep the protocol of the window *)

\* The runs let in for a key, as the refinement mapping counts them.
RunsFor(key) == {p \in Polls : PastCache(p) /\ WorkKey(p) = key}
Attempts == [key \in Keys |-> Cardinality(RunsFor(key))]

LEMMA AttemptsCount ==
  \A key : IsFiniteSet(RunsFor(key)) /\ Cardinality(RunsFor(key)) \in Nat
<1>1. ASSUME NEW key PROVE IsFiniteSet(RunsFor(key))
  <2>1. RunsFor(key) \subseteq Polls
    BY DEF RunsFor
  <2> QED
    BY <2>1, PermitsAssumption, FS_Subset
<1> QED
  BY <1>1, FS_CardinalityType

\* Unless a poll enters or leaves the part between the cache and the end of the
\* handler, the count stays.
LEMMA AttemptsKept ==
  ASSUME \A q \in Polls : PastCache(q)' <=> PastCache(q),
         \A q \in Polls : PastCache(q) => todo'[q] = todo[q]
  PROVE  Attempts' = Attempts
<1>1. \A key : RunsFor(key)' = RunsFor(key)
  BY DEF RunsFor, WorkKey
<1>2. \A key : Cardinality(RunsFor(key))' = Cardinality(RunsFor(key))
  BY <1>1
<1> QED
  BY <1>2 DEF Attempts

\* A poll that enters adds one to the count of its key, if it has one.
LEMMA AttemptsGrow ==
  ASSUME NEW p \in Polls, ~PastCache(p), PastCache(p)', todo' = todo,
         \A q \in Polls \ {p} : PastCache(q)' <=> PastCache(q)
  PROVE  Attempts' = IF WorkKey(p) \in Keys
                     THEN [Attempts EXCEPT ![WorkKey(p)] = @ + 1]
                     ELSE Attempts
<1>1. \A key : key # WorkKey(p) => RunsFor(key)' = RunsFor(key)
  BY DEF RunsFor, WorkKey
<1>2. /\ RunsFor(WorkKey(p))' = RunsFor(WorkKey(p)) \cup {p}
      /\ p \notin RunsFor(WorkKey(p))
  BY DEF RunsFor, WorkKey
<1>3. Cardinality(RunsFor(WorkKey(p)) \cup {p}) = Cardinality(RunsFor(WorkKey(p))) + 1
  BY <1>2, AttemptsCount, FS_AddElement
<1>4. \A key \in Keys :
        Attempts'[key] = IF key = WorkKey(p) THEN Attempts[key] + 1 ELSE Attempts[key]
  BY <1>1, <1>2, <1>3 DEF Attempts, WorkKey
<1>5. Attempts \in [Keys -> Nat]
  BY AttemptsCount DEF Attempts
<1>6. Attempts' = [key \in Keys |-> Attempts'[key]]
  BY DEF Attempts
<1> QED
  BY <1>4, <1>5, <1>6

\* One that leaves was counted, and takes one off the count.
LEMMA AttemptsShrink ==
  ASSUME NEW p \in Polls, PastCache(p), ~PastCache(p)', todo' = todo,
         \A q \in Polls \ {p} : PastCache(q)' <=> PastCache(q)
  PROVE  /\ WorkKey(p) \in Keys => Attempts[WorkKey(p)] > 0
         /\ Attempts' = IF WorkKey(p) \in Keys
                        THEN [Attempts EXCEPT ![WorkKey(p)] = @ - 1]
                        ELSE Attempts
<1>1. \A key : key # WorkKey(p) => RunsFor(key)' = RunsFor(key)
  BY DEF RunsFor, WorkKey
<1>2. /\ RunsFor(WorkKey(p))' = RunsFor(WorkKey(p)) \ {p}
      /\ p \in RunsFor(WorkKey(p))
  BY DEF RunsFor, WorkKey
<1>3. /\ Cardinality(RunsFor(WorkKey(p)) \ {p}) = Cardinality(RunsFor(WorkKey(p))) - 1
      /\ Cardinality(RunsFor(WorkKey(p)) \ {p}) \in Nat
      /\ Cardinality(RunsFor(WorkKey(p))) \in Nat
  BY <1>2, AttemptsCount, FS_RemoveElement, FS_CardinalityType
<1>4. \A key \in Keys :
        Attempts'[key] = IF key = WorkKey(p) THEN Attempts[key] - 1 ELSE Attempts[key]
  BY <1>1, <1>2, <1>3 DEF Attempts, WorkKey
<1>5. Attempts \in [Keys -> Nat]
  BY AttemptsCount DEF Attempts
<1>6. Attempts' = [key \in Keys |-> Attempts'[key]]
  BY DEF Attempts
<1>7. WorkKey(p) \in Keys => Attempts[WorkKey(p)] > 0
  BY <1>3 DEF Attempts
<1> QED
  BY <1>4, <1>5, <1>6, <1>7

\* The window counts with the same operator.
LEMMA WindowCardinality == \A S : Window!Cardinality(S) = Cardinality(S)
  BY DEF Window!Cardinality, Cardinality, Window!IsFiniteSet, IsFiniteSet

\* A run that ends without success gives its attempt up.
LEMMA EndsWithoutSuccess ==
  ASSUME IInv, NEW p \in Polls, PhaseStep(p), PastCache(p), ~PastCache(p)',
         remembered' = remembered
  PROVE  Window!Next \/ UNCHANGED Window!windowVars
<1>1. /\ todo' = todo
      /\ \A q \in Polls \ {p} : PastCache(q)' <=> PastCache(q)
  BY DEF PhaseStep, IInv, TypeOK, PastCache
<1>2. /\ WorkKey(p) \in Keys => Attempts[WorkKey(p)] > 0
      /\ Attempts' = IF WorkKey(p) \in Keys
                     THEN [Attempts EXCEPT ![WorkKey(p)] = @ - 1]
                     ELSE Attempts
  BY <1>1, AttemptsShrink
<1>3. CASE WorkKey(p) \in Keys
  <2>1. Window!Abandon(WorkKey(p))
    BY <1>2, <1>3 DEF Window!Abandon, Attempts, RunsFor
  <2> QED
    BY <1>3, <2>1 DEF Window!Next
<1>4. CASE WorkKey(p) \notin Keys
  BY <1>2, <1>4 DEF Window!windowVars, Attempts, RunsFor
<1> QED
  BY <1>3, <1>4

\* Steps that let nobody in or out are steps of the window that forget, or nothing.
LEMMA WindowForgets ==
  ASSUME Attempts' = Attempts, remembered' \subseteq remembered
  PROVE  Window!Next
<1>1. Window!Forget
  BY DEF Window!Forget, Attempts, RunsFor
<1> QED
  BY <1>1 DEF Window!Next

LEMMA RunsRefine ==
  ASSUME IInv, NEW p \in Polls, Runs(p)
  PROVE  Window!Next \/ UNCHANGED Window!windowVars
<1> USE DEF IInv
<1>1. PhaseStep(p) /\ todo' = todo
  BY RunsArePhaseSteps DEF PhaseStep
<1>2. \A q \in Polls \ {p} : PastCache(q)' <=> PastCache(q)
  BY <1>1 DEF PhaseStep, TypeOK, PastCache
<1>3. CASE PassCache(p)
  <2>1. ~PastCache(p) /\ PastCache(p)' /\ WorkKey(p) \notin remembered
        /\ remembered' = remembered
    BY <1>3 DEF PassCache, PermitGranted, PastCache, Duplicate, TypeOK
  <2>2. Attempts' = IF WorkKey(p) \in Keys
                    THEN [Attempts EXCEPT ![WorkKey(p)] = @ + 1]
                    ELSE Attempts
    BY <1>1, <1>2, <2>1, AttemptsGrow
  <2>3. CASE WorkKey(p) \in Keys
    <3>1. Window!Begin(WorkKey(p))
      BY <2>1, <2>2, <2>3 DEF Window!Begin, Attempts, RunsFor
    <3> QED
      BY <2>3, <3>1 DEF Window!Next
  <2>4. CASE WorkKey(p) \notin Keys
    BY <2>1, <2>2, <2>4, WindowForgets
  <2> QED
    BY <2>3, <2>4
<1>4. CASE HandlerSucceeds(p)
  <2>1. PastCache(p) /\ ~PastCache(p)'
    BY <1>4 DEF HandlerSucceeds, Settling, PastCache, TypeOK
  <2>2. /\ remembered' \subseteq remembered \cup ({WorkKey(p)} \cap Keys)
        /\ remembered' \subseteq Keys
    BY <1>4 DEF HandlerSucceeds, TypeOK
  <2>3. /\ WorkKey(p) \in Keys => Attempts[WorkKey(p)] > 0
        /\ Attempts' = IF WorkKey(p) \in Keys
                       THEN [Attempts EXCEPT ![WorkKey(p)] = @ - 1]
                       ELSE Attempts
    BY <1>1, <1>2, <2>1, AttemptsShrink
  <2>4. CASE WorkKey(p) \in Keys
    <3>1. Cardinality(remembered') <= Cardinality(Keys)
      BY <2>2, KeysAssumption, FS_Subset
    <3>2. Window!Remember(WorkKey(p))
      BY <2>2, <2>3, <2>4, <3>1, WindowCardinality DEF Window!Remember, Attempts, RunsFor
    <3> QED
      BY <2>4, <3>2 DEF Window!Next
  <2>5. CASE WorkKey(p) \notin Keys
    BY <2>2, <2>3, <2>5, WindowForgets
  <2> QED
    BY <2>4, <2>5
<1>5. CASE RejectToDlq(p) \/ RejectWithWarning(p) \/ HandlerThrows(p)
  <2>1. PastCache(p) /\ ~PastCache(p)' /\ remembered' = remembered
    BY <1>5 DEF RejectToDlq, RejectWithWarning, HandlerThrows, FailsValidation, Settling,
                PastCache, TypeOK
  <2> QED
    BY <1>1, <2>1, EndsWithoutSuccess
<1>6. CASE FailBeforeHandler(p)
  <2>1. ~PastCache(p)' /\ remembered' = remembered
    BY <1>6 DEF FailBeforeHandler, Settling, PastCache, TypeOK
  <2>2. CASE PastCache(p)
    BY <1>1, <2>1, <2>2, EndsWithoutSuccess
  <2>3. CASE ~PastCache(p)
    <3>1. Attempts' = Attempts
      BY <1>1, <1>2, <2>1, <2>3, AttemptsKept
    <3> QED
      BY <2>1, <3>1, WindowForgets
  <2> QED
    BY <2>2, <2>3
<1>7. CASE SkipDuplicate(p) \/ CallHandler(p) \/ DlqAnswered(p)
  <2>1. (PastCache(p)' <=> PastCache(p)) /\ remembered' = remembered
    BY <1>7 DEF SkipDuplicate, PermitGranted, CallHandler, DlqAnswered, Settling, PastCache, TypeOK
  <2>2. Attempts' = Attempts
    BY <1>1, <1>2, <2>1, AttemptsKept
  <2> QED
    BY <2>1, <2>2, WindowForgets
<1> QED
  BY <1>3, <1>4, <1>5, <1>6, <1>7 DEF Runs

\* Deliveries, rounds of the loop and settlements happen outside that part.
LEMMA OthersRefine ==
  ASSUME IInv, NEW p \in Polls, Deliver(p) \/ NextMessage(p) \/ Settle(p)
  PROVE  Window!Next
<1> USE DEF IInv
<1>1. /\ ~PastCache(p) /\ ~PastCache(p)'
      /\ \A q \in Polls \ {p} : phase'[q] = phase[q] /\ todo'[q] = todo[q]
      /\ remembered' = remembered
  <2>1. CASE Deliver(p) \/ NextMessage(p)
    <3>1. PICK s : Ask(p, s)
      BY <2>1 DEF Deliver, NextMessage
    <3>2. /\ phase'[p] \in {"asking", "idle"}
          /\ \A q \in Polls \ {p} : phase'[q] = phase[q] /\ todo'[q] = todo[q]
      BY <3>1 DEF Ask, AskPermit, AskRefused, AskUnlimited, TypeOK
    <3> QED
      BY <2>1, <3>2 DEF Deliver, NextMessage, PastCache
  <2>2. CASE Settle(p)
    <3>1. /\ phase'[p] \in {"between", "idle"}
          /\ \A q \in Polls \ {p} : phase'[q] = phase[q] /\ todo'[q] = todo[q]
      BY <2>2, SettleEffect DEF TypeOK
    <3> QED
      BY <2>2, <3>1 DEF Settle, PastCache
  <2> QED
    BY <2>1, <2>2
<1>2. Attempts' = Attempts
  BY <1>1, AttemptsKept DEF PastCache
<1> QED
  BY <1>1, <1>2, WindowForgets

LEMMA StepRefines == IInv /\ [Next]_vars => [Window!Next]_(Window!windowVars)
<1> SUFFICES ASSUME IInv, [Next]_vars
             PROVE  Window!Next \/ UNCHANGED Window!windowVars
  OBVIOUS
<1>1. ASSUME NEW p \in Polls, Deliver(p) \/ HandlerSettles(p) \/ Proceed(p)
      PROVE  Window!Next \/ UNCHANGED Window!windowVars
  <2>1. CASE HandlerSettles(p)
    <3>1. UNCHANGED <<phase, todo, remembered>>
      BY <2>1 DEF HandlerSettles, poll
    <3>2. Attempts' = Attempts
      BY <3>1, AttemptsKept DEF PastCache
    <3> QED
      BY <3>1, <3>2, WindowForgets
  <2>2. CASE Runs(p)
    BY <2>2, RunsRefine
  <2> QED
    BY <1>1, <2>1, <2>2, OthersRefine DEF Proceed, Runs
<1>2. CASE UNCHANGED vars \/ Forget \/ Close \/ DrainEnds \/ CloseEnds
  <2>1. UNCHANGED <<phase, todo>> /\ remembered' \subseteq remembered
    BY <1>2 DEF vars, Forget, Close, DrainEnds, CloseEnds, poll
  <2>2. Attempts' = Attempts
    BY <2>1, AttemptsKept DEF PastCache
  <2> QED
    BY <2>1, <2>2, WindowForgets
<1> QED
  BY <1>1, <1>2 DEF Next

\* A run is let in only for a key that is not remembered at that moment, and a key is
\* remembered only by a run that was let in for it: the consumer keeps the protocol of
\* the window that IdempotencyCache implements.
THEOREM RunsKeepTheWindow == Spec => UsesWindow
<1>1. Init => Window!Init
  <2> SUFFICES ASSUME Init PROVE Window!Init
    OBVIOUS
  <2>1. \A key : RunsFor(key) = {}
    BY DEF Init, RunsFor, PastCache
  <2>2. \A key : Cardinality(RunsFor(key)) = 0
    BY <2>1, FS_EmptySet
  <2>3. Attempts = [key \in Keys |-> 0]
    BY <2>2 DEF Attempts
  <2> QED
    BY <2>3 DEF Init, Window!Init, Attempts, RunsFor
<1> QED
  BY Invariance, StepRefines, <1>1, PTL DEF Spec, UsesWindow, Window!Spec

=============================================================================
