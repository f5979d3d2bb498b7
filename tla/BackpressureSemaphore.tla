----------------------- MODULE BackpressureSemaphore -----------------------
(***************************************************************************)
(* The semaphore that limits the concurrent executions of one queue        *)
(* handler (src/src/server/backpressure-semaphore.ts), together with the   *)
(* discipline of its only users, handleQueueSingle and handleQueueBatch:   *)
(* acquire once, and if the promise resolves, release once in `finally`.   *)
(*                                                                         *)
(* JavaScript runs acquire and release without interruption, so each is    *)
(* one step; what interleaves is the order in which the callers reach      *)
(* them.  `promise` is the state of the promise that the last acquire of a *)
(* caller returned; release puts it back to "none".                        *)
(***************************************************************************)
EXTENDS Integers, Sequences, FiniteSets

CONSTANTS Callers,        \* message handlings, each with its own call of acquire
          MaxConcurrent,  \* the constructor's maxConcurrent
          MaxQueueDepth   \* the constructor's maxQueueDepth

\* bindHandler makes a semaphore only when the option is truthy, so never for 0.
ASSUME MaxConcurrentAssumption == MaxConcurrent \in Nat \ {0}
ASSUME MaxQueueDepthAssumption == MaxQueueDepth \in Nat
ASSUME CallersAssumption == IsFiniteSet(Callers)

VARIABLES running,  \* the counter of permits in use
          queue,    \* the callers whose promise is pending, in FIFO order
          promise   \* promise[c]: what the last acquire of c returned

vars == <<running, queue, promise>>

PromiseState == {"none", "pending", "resolved", "rejected"}

Holders == {c \in Callers : promise[c] = "resolved"}
Waiters == {queue[i] : i \in 1..Len(queue)}

-----------------------------------------------------------------------------

(* Faults: what a slip in the code would make of an operation.  They are not *)
(* part of the specification; each is put in the place of the operation it   *)
(* mirrors to see that a property notices.                                   *)

\* release takes the running-- branch although it handed its permit over.
ReleaseHandOverAndDecrement(c) ==
  /\ promise[c] = "resolved"
  /\ Len(queue) > 0
  /\ queue' = Tail(queue)
  /\ promise' = [promise EXCEPT ![c] = "none", ![Head(queue)] = "resolved"]
  /\ running' = running - 1

\* release wakes the newest waiter (pop in place of shift).
ReleaseHandOverNewest(c) ==
  /\ promise[c] = "resolved"
  /\ Len(queue) > 0
  /\ queue' = SubSeq(queue, 1, Len(queue) - 1)
  /\ promise' = [promise EXCEPT ![c] = "none", ![queue[Len(queue)]] = "resolved"]
  /\ UNCHANGED running

\* release only frees the permit: the waiters rely on a later acquire.
ReleaseHandOverForgotten(c) ==
  /\ promise[c] = "resolved"
  /\ Len(queue) > 0
  /\ promise' = [promise EXCEPT ![c] = "none"]
  /\ running' = running - 1
  /\ UNCHANGED queue

\* acquire compares with <= and lets one caller too many in.
AcquireFreeOffByOne(c) ==
  /\ promise[c] \in {"none", "rejected"}
  /\ running <= MaxConcurrent
  /\ running' = running + 1
  /\ promise' = [promise EXCEPT ![c] = "resolved"]
  /\ UNCHANGED queue

-----------------------------------------------------------------------------
(* The operations *)

Init ==
  /\ running = 0
  /\ queue = <<>>
  /\ promise = [c \in Callers |-> "none"]

\* A caller asks when it has no call outstanding; a refused one may come back
\* with a later delivery.
MayAsk(c) == promise[c] \in {"none", "rejected"}

\* acquire, fast path: a permit is free.
AcquireFree(c) ==
  /\ MayAsk(c)
  /\ running < MaxConcurrent
  /\ running' = running + 1
  /\ promise' = [promise EXCEPT ![c] = "resolved"]
  /\ UNCHANGED queue

\* acquire throws BackpressureOverflowError: all permits are taken and the
\* waiting line is full.
AcquireOverflow(c) ==
  /\ MayAsk(c)
  /\ running >= MaxConcurrent
  /\ Len(queue) >= MaxQueueDepth
  /\ promise' = [promise EXCEPT ![c] = "rejected"]
  /\ UNCHANGED <<running, queue>>

\* acquire returns a promise that a later release resolves.
AcquireWait(c) ==
  /\ MayAsk(c)
  /\ running >= MaxConcurrent
  /\ Len(queue) < MaxQueueDepth
  /\ queue' = Append(queue, c)
  /\ promise' = [promise EXCEPT ![c] = "pending"]
  /\ UNCHANGED running

\* release hands the permit of c to the head of the queue: `running` stays.
ReleaseHandOver(c) ==
  /\ promise[c] = "resolved"
  /\ Len(queue) > 0
  /\ queue' = Tail(queue)
  /\ promise' = [promise EXCEPT ![c] = "none", ![Head(queue)] = "resolved"]
  /\ UNCHANGED running

\* release with nobody waiting: running = Math.max(0, running - 1).
ReleaseIdle(c) ==
  /\ promise[c] = "resolved"
  /\ Len(queue) = 0
  /\ running' = IF running - 1 > 0 THEN running - 1 ELSE 0
  /\ promise' = [promise EXCEPT ![c] = "none"]
  /\ UNCHANGED queue

Acquire(c) == AcquireFree(c) \/ AcquireOverflow(c) \/ AcquireWait(c)
Release(c) == ReleaseHandOver(c) \/ ReleaseIdle(c)

Next == \E c \in Callers : Acquire(c) \/ Release(c)

\* A handler that got its permit settles sooner or later (or its timeout fires)
\* and `finally` then releases.  Nothing obliges a caller to ask.
Fairness == \A c \in Callers : WF_vars(Release(c))

Spec == Init /\ [][Next]_vars /\ Fairness

-----------------------------------------------------------------------------
(* Properties *)

TypeOK ==
  /\ running \in Nat
  /\ queue \in Seq(Callers)
  /\ promise \in [Callers -> PromiseState]

\* The counter says how many callers really hold a permit: a hand-over that
\* also decremented, or a release that forgot to, would leak or invent permits.
PermitConservation == running = Cardinality(Holders)

\* Never more handlers at once than `concurrency` allows.
ConcurrencyLimit == Cardinality(Holders) <= MaxConcurrent

\* Nobody waits while a permit is free: release must pass its permit on.
NoIdlePermit == queue # <<>> => running = MaxConcurrent

\* The line holds every pending promise, and each exactly once: no waiter is
\* forgotten (it would never run) or resolved twice.
LineIsExact ==
  /\ Waiters = {c \in Callers : promise[c] = "pending"}
  /\ \A i, j \in 1..Len(queue) : queue[i] = queue[j] => i = j

\* The line never exceeds maxQueueDepth.
LineBounded == Len(queue) <= MaxQueueDepth

\* The conjunction that every step preserves.
SemaphoreInv ==
  /\ PermitConservation
  /\ ConcurrencyLimit
  /\ NoIdlePermit
  /\ LineIsExact
  /\ LineBounded

\* First come, first served: while somebody waits, the only caller a step may
\* let in is the one that has waited longest, and nobody leaves the line otherwise.
FirstComeFirstServed ==
  [][queue # <<>> =>
       \A c \in Callers :
         /\ promise'[c] = "resolved" /\ promise[c] # "resolved" => c = Head(queue)
         /\ promise[c] = "pending" /\ promise'[c] # "pending" => promise'[c] = "resolved"]_vars

\* A caller that waits gets its permit: no wake-up is lost.
WaiterServed ==
  \A c \in Callers : promise[c] = "pending" ~> promise[c] = "resolved"

\* The counter, the FIFO and the promises together are a pool of permits.
Pool == INSTANCE PermitPool
          WITH Permits <- MaxConcurrent, Room <- MaxQueueDepth,
               inside <- Holders, line <- queue

ImplementsPool == Pool!Spec

=============================================================================
