--------------------- MODULE BackpressureSemaphore_proofs ---------------------
(***************************************************************************)
(* The invariants of BackpressureSemaphore for every finite set of callers *)
(* and every bound, that waiting is first come, first served, and that the *)
(* semaphore implements PermitPool.                                        *)
(*                                                                         *)
(* SemaphoreInv with TypeOK is inductive: NoIdlePermit is what makes a     *)
(* hand-over keep the number of holders, and the injectivity in            *)
(* LineIsExact what makes Tail take exactly one waiter out.                *)
(***************************************************************************)
EXTENDS BackpressureSemaphore, FiniteSetTheorems, TLAPS

IInv == TypeOK /\ SemaphoreInv

-----------------------------------------------------------------------------
(* The waiting line as a set *)

\* Appending to a line adds one element to the set of its elements.
LEMMA LineAppend ==
  ASSUME NEW S, NEW q \in Seq(S), NEW c \in S
  PROVE  LET r == Append(q, c)
         IN  /\ r \in Seq(S)
             /\ Len(r) = Len(q) + 1
             /\ {r[i] : i \in 1..Len(r)} = {q[i] : i \in 1..Len(q)} \cup {c}
<1> DEFINE r == Append(q, c)
<1>1. /\ r \in Seq(S)
      /\ Len(r) = Len(q) + 1
      /\ \A i \in 1..Len(q) : r[i] = q[i]
      /\ r[Len(q) + 1] = c
  OBVIOUS
<1>2. 1..Len(r) = 1..Len(q) \cup {Len(q) + 1}
  BY <1>1
<1>3. {r[i] : i \in 1..Len(r)} = {q[i] : i \in 1..Len(q)} \cup {c}
  BY <1>1, <1>2
<1> QED
  BY <1>1, <1>3

\* Taking the head off a line without repetitions removes exactly that element.
LEMMA LineTail ==
  ASSUME NEW S, NEW q \in Seq(S), Len(q) > 0,
         \A i, j \in 1..Len(q) : q[i] = q[j] => i = j
  PROVE  LET t == Tail(q)
         IN  /\ t \in Seq(S)
             /\ Len(t) = Len(q) - 1
             /\ Head(q) \in S
             /\ Head(q) = q[1]
             /\ \A i, j \in 1..Len(t) : t[i] = t[j] => i = j
             /\ {t[i] : i \in 1..Len(t)} = {q[i] : i \in 1..Len(q)} \ {Head(q)}
<1> DEFINE t == Tail(q)
<1>1. /\ t \in Seq(S)
      /\ Len(t) = Len(q) - 1
      /\ Head(q) = q[1]
      /\ Head(q) \in S
      /\ \A i \in 1..Len(t) : t[i] = q[i + 1]
  OBVIOUS
<1>2. Len(q) \in Nat
  OBVIOUS
<1>3. \A i, j \in 1..Len(t) : t[i] = t[j] => i = j
  BY <1>1, <1>2
<1>4. {t[i] : i \in 1..Len(t)} \subseteq {q[i] : i \in 1..Len(q)} \ {Head(q)}
  <2>1. ASSUME NEW i \in 1..Len(t)
        PROVE  t[i] \in {q[k] : k \in 1..Len(q)} /\ t[i] # Head(q)
    BY <1>1, <1>2
  <2> QED
    BY <2>1
<1>5. {q[i] : i \in 1..Len(q)} \ {Head(q)} \subseteq {t[i] : i \in 1..Len(t)}
  <2>1. ASSUME NEW i \in 1..Len(q), q[i] # Head(q)
        PROVE  q[i] \in {t[k] : k \in 1..Len(t)}
    <3>1. i - 1 \in 1..Len(t) /\ t[i - 1] = q[i]
      BY <1>1, <1>2, <2>1
    <3> QED
      BY <3>1
  <2> QED
    BY <2>1
<1> QED
  BY <1>1, <1>3, <1>4, <1>5

\* The callers inside are finitely many, so that they can be counted.
LEMMA HoldersFinite == IsFiniteSet(Holders) /\ Cardinality(Holders) \in Nat
<1>1. Holders \in SUBSET Callers
  BY DEF Holders
<1> QED
  BY <1>1, CallersAssumption, FS_Subset, FS_CardinalityType

-----------------------------------------------------------------------------
(* Each operation preserves the invariant *)

LEMMA InitIInv == Init => IInv
<1> SUFFICES ASSUME Init PROVE IInv
  OBVIOUS
<1>1. Holders = {} /\ Waiters = {} /\ queue = <<>>
  BY DEF Init, Holders, Waiters
<1>2. Cardinality(Holders) = 0
  BY <1>1, FS_EmptySet
<1> QED
  BY <1>1, <1>2, MaxConcurrentAssumption, MaxQueueDepthAssumption
  DEF Init, IInv, TypeOK, SemaphoreInv, PermitConservation, ConcurrencyLimit,
      NoIdlePermit, LineIsExact, LineBounded, PromiseState

LEMMA AcquireFreeIInv ==
  ASSUME IInv, NEW c \in Callers, AcquireFree(c)
  PROVE  IInv'
<1> USE DEF IInv, SemaphoreInv
<1>1. TypeOK'
  BY DEF TypeOK, AcquireFree, PromiseState
<1>2. queue = <<>> /\ queue' = <<>>
  BY MaxConcurrentAssumption DEF TypeOK, NoIdlePermit, AcquireFree
<1>3. c \notin Holders /\ Holders' = Holders \cup {c}
  BY DEF Holders, AcquireFree, MayAsk, TypeOK
<1>4. Cardinality(Holders') = Cardinality(Holders) + 1
  BY <1>3, HoldersFinite, FS_AddElement
<1>5. PermitConservation' /\ ConcurrencyLimit'
  BY <1>4, MaxConcurrentAssumption
  DEF TypeOK, PermitConservation, ConcurrencyLimit, AcquireFree
<1>6. LineIsExact'
  BY <1>2 DEF LineIsExact, Waiters, AcquireFree, MayAsk, TypeOK
<1> QED
  BY <1>1, <1>2, <1>5, <1>6, MaxQueueDepthAssumption DEF NoIdlePermit, LineBounded

LEMMA AcquireOverflowIInv ==
  ASSUME IInv, NEW c \in Callers, AcquireOverflow(c)
  PROVE  IInv'
<1> USE DEF IInv, SemaphoreInv
<1>1. TypeOK'
  BY DEF TypeOK, AcquireOverflow, PromiseState
<1>2. Holders' = Holders
  BY DEF Holders, AcquireOverflow, MayAsk, TypeOK
<1>3. PermitConservation' /\ ConcurrencyLimit'
  BY <1>2 DEF PermitConservation, ConcurrencyLimit, AcquireOverflow
<1>4. LineIsExact'
  BY DEF LineIsExact, Waiters, AcquireOverflow, MayAsk, TypeOK
<1> QED
  BY <1>1, <1>3, <1>4 DEF NoIdlePermit, LineBounded, AcquireOverflow

LEMMA AcquireWaitIInv ==
  ASSUME IInv, NEW c \in Callers, AcquireWait(c)
  PROVE  IInv'
<1> USE DEF IInv, SemaphoreInv
<1>1. /\ queue' \in Seq(Callers)
      /\ Len(queue') = Len(queue) + 1
      /\ Waiters' = Waiters \cup {c}
  BY LineAppend DEF TypeOK, AcquireWait, Waiters
<1>2. TypeOK'
  BY <1>1 DEF TypeOK, AcquireWait, PromiseState
<1>3. Holders' = Holders
  BY DEF Holders, AcquireWait, MayAsk, TypeOK
<1>4. PermitConservation' /\ ConcurrencyLimit'
  BY <1>3 DEF PermitConservation, ConcurrencyLimit, AcquireWait
<1>5. running = MaxConcurrent
  BY MaxConcurrentAssumption
  DEF TypeOK, PermitConservation, ConcurrencyLimit, AcquireWait
<1>6. c \notin Waiters
  BY DEF LineIsExact, AcquireWait, MayAsk, TypeOK
<1>7. LineIsExact'
  <2>1. Waiters' = {d \in Callers : promise'[d] = "pending"}
    BY <1>1 DEF LineIsExact, AcquireWait, MayAsk, TypeOK
  <2>2. \A i \in 1..Len(queue) : queue[i] # c
    BY <1>6 DEF Waiters
  <2>3. \A i, j \in 1..Len(queue') : queue'[i] = queue'[j] => i = j
    BY <1>1, <2>2 DEF LineIsExact, AcquireWait, TypeOK
  <2> QED
    BY <2>1, <2>3 DEF LineIsExact
<1> QED
  BY <1>1, <1>2, <1>4, <1>5, <1>7, MaxQueueDepthAssumption
  DEF NoIdlePermit, LineBounded, AcquireWait, TypeOK

LEMMA ReleaseHandOverIInv ==
  ASSUME IInv, NEW c \in Callers, ReleaseHandOver(c)
  PROVE  IInv'
<1> USE DEF IInv, SemaphoreInv
<1> DEFINE h == Head(queue)
<1>1. /\ queue' \in Seq(Callers)
      /\ Len(queue') = Len(queue) - 1
      /\ h \in Callers
      /\ h = queue[1]
      /\ \A i, j \in 1..Len(queue') : queue'[i] = queue'[j] => i = j
      /\ Waiters' = Waiters \ {h}
  <2>1. /\ queue \in Seq(Callers)
        /\ Len(queue) > 0
        /\ queue' = Tail(queue)
        /\ \A i, j \in 1..Len(queue) : queue[i] = queue[j] => i = j
    BY DEF TypeOK, LineIsExact, ReleaseHandOver
  <2>2. LET t == Tail(queue)
        IN  /\ t \in Seq(Callers)
            /\ Len(t) = Len(queue) - 1
            /\ Head(queue) \in Callers
            /\ Head(queue) = queue[1]
            /\ \A i, j \in 1..Len(t) : t[i] = t[j] => i = j
            /\ {t[i] : i \in 1..Len(t)} = {queue[i] : i \in 1..Len(queue)} \ {Head(queue)}
    BY <2>1, LineTail
  <2> QED
    BY <2>1, <2>2 DEF Waiters
<1>2. h \in Waiters /\ promise[h] = "pending" /\ h # c
  <2>1. 1 \in 1..Len(queue)
    BY DEF ReleaseHandOver, TypeOK
  <2> QED
    BY <1>1, <2>1 DEF Waiters, LineIsExact, ReleaseHandOver
<1>3. promise' = [promise EXCEPT ![c] = "none", ![h] = "resolved"]
  BY DEF ReleaseHandOver
<1>4. TypeOK'
  BY <1>1, <1>3 DEF TypeOK, ReleaseHandOver, PromiseState
<1>5. /\ c \in Holders
      /\ h \notin Holders \ {c}
      /\ Holders' = (Holders \ {c}) \cup {h}
  BY <1>1, <1>2, <1>3 DEF Holders, ReleaseHandOver, TypeOK
<1>6. Cardinality(Holders') = Cardinality(Holders)
  <2>1. /\ IsFiniteSet(Holders \ {c})
        /\ Cardinality(Holders \ {c}) = Cardinality(Holders) - 1
    BY <1>5, HoldersFinite, FS_RemoveElement
  <2>2. Cardinality((Holders \ {c}) \cup {h}) = Cardinality(Holders \ {c}) + 1
    BY <1>5, <2>1, FS_AddElement
  <2> QED
    BY <1>5, <2>1, <2>2, HoldersFinite
<1>7. PermitConservation' /\ ConcurrencyLimit'
  BY <1>6 DEF PermitConservation, ConcurrencyLimit, ReleaseHandOver
<1>8. LineIsExact'
  <2>1. Waiters' = {d \in Callers : promise'[d] = "pending"}
    BY <1>1, <1>2, <1>3 DEF LineIsExact, ReleaseHandOver, TypeOK
  <2> QED
    BY <1>1, <2>1 DEF LineIsExact
<1>9. running = MaxConcurrent
  BY DEF NoIdlePermit, ReleaseHandOver, TypeOK
<1> QED
  BY <1>1, <1>4, <1>7, <1>8, <1>9, MaxQueueDepthAssumption
  DEF NoIdlePermit, LineBounded, ReleaseHandOver, TypeOK

LEMMA ReleaseIdleIInv ==
  ASSUME IInv, NEW c \in Callers, ReleaseIdle(c)
  PROVE  IInv'
<1> USE DEF IInv, SemaphoreInv
<1>1. queue = <<>> /\ queue' = <<>>
  BY DEF ReleaseIdle, TypeOK
<1>2. TypeOK'
  BY DEF TypeOK, ReleaseIdle, PromiseState
<1>3. c \in Holders /\ Holders' = Holders \ {c}
  BY DEF Holders, ReleaseIdle, TypeOK
<1>4. /\ Cardinality(Holders') = Cardinality(Holders) - 1
      /\ Cardinality(Holders') \in Nat
  <2>1. IsFiniteSet(Holders \ {c})
    BY <1>3, HoldersFinite, FS_RemoveElement
  <2> QED
    BY <1>3, <2>1, HoldersFinite, FS_RemoveElement, FS_CardinalityType
\* The floor at 0 is never needed: a holder exists, so running is at least 1.
<1>5. running' = running - 1
  BY <1>4, HoldersFinite DEF ReleaseIdle, TypeOK, PermitConservation
<1>6. PermitConservation' /\ ConcurrencyLimit'
  BY <1>4, <1>5, HoldersFinite, MaxConcurrentAssumption
  DEF PermitConservation, ConcurrencyLimit
<1>7. LineIsExact'
  BY <1>1 DEF LineIsExact, Waiters, ReleaseIdle, TypeOK
<1> QED
  BY <1>1, <1>2, <1>6, <1>7, MaxQueueDepthAssumption DEF NoIdlePermit, LineBounded

LEMMA StepIInv == IInv /\ [Next]_vars => IInv'
<1> SUFFICES ASSUME IInv, [Next]_vars PROVE IInv'
  OBVIOUS
<1>1. CASE UNCHANGED vars
  BY <1>1
  DEF vars, IInv, TypeOK, SemaphoreInv, PermitConservation, ConcurrencyLimit,
      NoIdlePermit, LineIsExact, LineBounded, Holders, Waiters
<1>2. ASSUME NEW c \in Callers, Acquire(c) \/ Release(c) PROVE IInv'
  BY <1>2, AcquireFreeIInv, AcquireOverflowIInv, AcquireWaitIInv,
     ReleaseHandOverIInv, ReleaseIdleIInv
  DEF Acquire, Release
<1> QED
  BY <1>1, <1>2 DEF Next

-----------------------------------------------------------------------------
(* The theorems *)

\* The variables keep their types; in particular `running` never goes negative.
THEOREM TypeCorrect == Spec => []TypeOK
<1>1. IInv => TypeOK
  BY DEF IInv
<1> QED
  BY InitIInv, StepIInv, <1>1, PTL DEF Spec

\* In every reachable state the counter counts the holders, there are at most
\* MaxConcurrent of them, nobody waits beside a free permit, and the line holds
\* the pending promises once each and within its bound.
THEOREM SemaphoreSafe == Spec => []SemaphoreInv
<1>1. IInv => SemaphoreInv
  BY DEF IInv
<1> QED
  BY InitIInv, StepIInv, <1>1, PTL DEF Spec

\* While somebody waits, a step lets in only the head of the line and nobody
\* leaves the line without a permit.
THEOREM ServedInOrder == Spec => FirstComeFirstServed
<1> DEFINE InOrder ==
      queue # <<>> =>
        \A c \in Callers :
          /\ promise'[c] = "resolved" /\ promise[c] # "resolved" => c = Head(queue)
          /\ promise[c] = "pending" /\ promise'[c] # "pending" => promise'[c] = "resolved"
<1>1. IInv /\ [Next]_vars => [InOrder]_vars
  <2> SUFFICES ASSUME IInv, queue # <<>>, NEW c \in Callers, NEW d \in Callers,
                      Acquire(c) \/ Release(c)
               PROVE  /\ promise'[d] = "resolved" /\ promise[d] # "resolved"
                           => d = Head(queue)
                      /\ promise[d] = "pending" /\ promise'[d] # "pending"
                           => promise'[d] = "resolved"
    BY DEF Next
  <2>1. running = MaxConcurrent /\ Len(queue) > 0 /\ Head(queue) \in Callers
    BY DEF IInv, SemaphoreInv, NoIdlePermit, TypeOK
  <2>2. CASE AcquireFree(c)
    BY <2>1, <2>2, MaxConcurrentAssumption DEF AcquireFree
  <2>3. CASE AcquireOverflow(c) \/ AcquireWait(c)
    BY <2>3 DEF AcquireOverflow, AcquireWait, MayAsk, IInv, TypeOK
  <2>4. CASE ReleaseHandOver(c)
    BY <2>1, <2>4 DEF ReleaseHandOver, IInv, TypeOK
  <2>5. CASE ReleaseIdle(c)
    BY <2>1, <2>5 DEF ReleaseIdle
  <2> QED
    BY <2>2, <2>3, <2>4, <2>5 DEF Acquire, Release
<1> QED
  BY InitIInv, StepIInv, <1>1, PTL DEF Spec, FirstComeFirstServed

\* The pool counts with the same operator.
LEMMA PoolCardinality == Pool!Cardinality(Holders) = Cardinality(Holders)
  BY DEF Pool!Cardinality, Cardinality, Pool!IsFiniteSet, IsFiniteSet

\* Every step of the semaphore is a step of the pool or leaves it unchanged.
LEMMA StepRefines ==
  ASSUME IInv, NEW c \in Callers, Acquire(c) \/ Release(c)
  PROVE  Pool!Next \/ UNCHANGED Pool!poolVars
<1> USE DEF IInv, SemaphoreInv
<1>1. Pool!Waiting = Waiters
  BY DEF Pool!Waiting, Waiters
<1>2. queue \in Seq(Callers) /\ Len(queue) \in Nat
  BY DEF TypeOK
<1>3. CASE AcquireFree(c)
  <2>1. queue = <<>> /\ queue' = queue
    BY <1>3, MaxConcurrentAssumption DEF TypeOK, NoIdlePermit, AcquireFree
  <2>2. c \notin Holders \cup Waiters /\ Holders' = Holders \cup {c}
    BY <1>3 DEF Holders, LineIsExact, AcquireFree, MayAsk, TypeOK
  <2>3. Cardinality(Holders) < MaxConcurrent
    BY <1>3 DEF PermitConservation, AcquireFree
  <2>4. Pool!Enter(c)
    BY <1>1, <2>1, <2>2, <2>3, PoolCardinality DEF Pool!Enter
  <2> QED
    BY <2>4 DEF Pool!Next
<1>4. CASE AcquireOverflow(c)
  <2>1. Holders' = Holders
    BY <1>4 DEF Holders, AcquireOverflow, MayAsk, TypeOK
  <2> QED
    BY <1>4, <2>1 DEF Pool!poolVars, AcquireOverflow
<1>5. CASE AcquireWait(c)
  <2>1. Holders' = Holders /\ c \notin Holders \cup Waiters
    BY <1>5 DEF Holders, LineIsExact, AcquireWait, MayAsk, TypeOK
  <2>2. Cardinality(Holders) = MaxConcurrent
    BY <1>5, HoldersFinite, MaxConcurrentAssumption
    DEF PermitConservation, ConcurrencyLimit, AcquireWait
  <2>3. Pool!Queue(c)
    BY <1>1, <1>5, <2>1, <2>2, PoolCardinality DEF Pool!Queue, AcquireWait
  <2> QED
    BY <2>3 DEF Pool!Next
<1>6. CASE ReleaseHandOver(c)
  <2>1. 1 \in 1..Len(queue) /\ Head(queue) = queue[1] /\ Head(queue) \in Callers
    BY <1>2, <1>6 DEF ReleaseHandOver
  <2>2. promise[Head(queue)] = "pending"
    BY <2>1 DEF Waiters, LineIsExact
  <2>3. c \in Holders /\ Holders' = (Holders \ {c}) \cup {Head(queue)}
    BY <1>6, <2>1, <2>2 DEF Holders, ReleaseHandOver, TypeOK
  <2>4. Pool!Leave(c)
    BY <1>2, <1>6, <2>3 DEF Pool!Leave, ReleaseHandOver
  <2> QED
    BY <2>4 DEF Pool!Next
<1>7. CASE ReleaseIdle(c)
  <2>1. queue = <<>> /\ queue' = queue
    BY <1>2, <1>7 DEF ReleaseIdle
  <2>2. c \in Holders /\ Holders' = Holders \ {c}
    BY <1>7 DEF Holders, ReleaseIdle, TypeOK
  <2>3. Pool!Leave(c)
    BY <2>1, <2>2 DEF Pool!Leave
  <2> QED
    BY <2>3 DEF Pool!Next
<1> QED
  BY <1>3, <1>4, <1>5, <1>6, <1>7 DEF Acquire, Release

\* The counter, the FIFO and the promises implement the pool of permits.
THEOREM SemaphoreImplementsPool == Spec => ImplementsPool
<1>1. Init => Pool!Init
  BY DEF Init, Pool!Init, Holders
<1>2. IInv /\ [Next]_vars => [Pool!Next]_(Pool!poolVars)
  <2>1. UNCHANGED vars => UNCHANGED Pool!poolVars
    BY DEF vars, Pool!poolVars, Holders
  <2> QED
    BY <2>1, StepRefines DEF Next
<1> QED
  BY InitIInv, StepIInv, <1>1, <1>2, PTL DEF Spec, ImplementsPool, Pool!Spec

=============================================================================
