-------------------------- MODULE IdempotencyCache --------------------------
(***************************************************************************)
(* The cache of idempotency keys of one queue handler                      *)
(* (src/src/server/idempotency-cache.ts) as executeWithMiddleware uses it: *)
(* has(key) before the handler, add(key) after it succeeded, with other    *)
(* deliveries in between.                                                  *)
(*                                                                         *)
(* Date.now() only ever meets expiresAt in a comparison, so an entry keeps *)
(* what is left of its life, expiresAt - now, and -1 once now > expiresAt. *)
(***************************************************************************)
EXTENDS Integers, Sequences, FiniteSets

CONSTANTS Keys,
          MaxSize,      \* the constructor's maxSize
          Ttl,          \* ttlMs, in ticks of the clock
          MaxAttempts,  \* bound: handlers running for one key at the same time
          MaxOrder      \* bound: slots of `order`, which the code never shrinks
                        \* before the cache is full

ASSUME MaxSizeAssumption == MaxSize \in Nat
ASSUME TtlAssumption == Ttl \in Nat
ASSUME BoundsAssumption == MaxAttempts \in Nat /\ MaxOrder \in Nat

VARIABLES cache,       \* key |-> what is left of the life of its entry
          order,       \* the keys in the order they were added
          attempts,    \* attempts[k]: handlers between has(k) = false and add(k)
          handledAge   \* history: ticks since a handler of k last succeeded,
                       \* capped at Ttl + 1

vars == <<cache, order, attempts, handledAge>>

Present == DOMAIN cache
Live == {k \in Present : cache[k] >= 0}
OrderedKeys == {order[i] : i \in 1..Len(order)}
Never == Ttl + 1

Without(f, S) == [k \in DOMAIN f \ S |-> f[k]]
With(f, k, v) == [j \in DOMAIN f \cup {k} |-> IF j = k THEN v ELSE f[j]]

-----------------------------------------------------------------------------
(* Faults, for the sensitivity of the properties *)

\* has records the key at once: one test-and-set before the handler has run.
HasMissRecords(k) ==
  /\ k \notin Present
  /\ attempts[k] < MaxAttempts
  /\ attempts' = [attempts EXCEPT ![k] = @ + 1]
  /\ cache' = With(cache, k, Ttl)
  /\ order' = Append(order, k)
  /\ UNCHANGED handledAge

\* The eviction test reads `>` where the code has `>=`.
EvictionsOffByOne ==
  CHOOSE n \in 0..Len(order) :
    LET full(m) == Cardinality(Present \ {order[i] : i \in 1..m}) > MaxSize
    IN  /\ ~full(n) \/ n = Len(order)
        /\ \A m \in 0..(n - 1) : full(m)

-----------------------------------------------------------------------------
(* The operations *)

Init ==
  /\ cache = [k \in {} |-> 0]
  /\ order = <<>>
  /\ attempts = [k \in Keys |-> 0]
  /\ handledAge = [k \in Keys |-> Never]

\* has(key): no entry; the handler is called.
HasMiss(k) ==
  /\ k \notin Present
  /\ attempts[k] < MaxAttempts
  /\ attempts' = [attempts EXCEPT ![k] = @ + 1]
  /\ UNCHANGED <<cache, order, handledAge>>

\* has(key): the entry is expired and leaves the map, though not `order`.
HasExpired(k) ==
  /\ k \in Present
  /\ cache[k] < 0
  /\ attempts[k] < MaxAttempts
  /\ attempts' = [attempts EXCEPT ![k] = @ + 1]
  /\ cache' = Without(cache, {k})
  /\ UNCHANGED <<order, handledAge>>

\* How many slots add shifts off `order` before the cache has room: the while loop.
Evictions ==
  CHOOSE n \in 0..Len(order) :
    LET full(m) == Cardinality(Present \ {order[i] : i \in 1..m}) >= MaxSize
    IN  /\ ~full(n) \/ n = Len(order)
        /\ \A m \in 0..(n - 1) : full(m)

\* add(key): the map holds an entry, live or expired, and nothing happens.
AddPresent(k) ==
  /\ attempts[k] > 0
  /\ k \in Present
  /\ attempts' = [attempts EXCEPT ![k] = @ - 1]
  /\ handledAge' = [handledAge EXCEPT ![k] = 0]
  /\ UNCHANGED <<cache, order>>

\* add(key): make room, enter the key, give it the last slot.
AddNew(k) ==
  /\ attempts[k] > 0
  /\ k \notin Present
  /\ Len(order) < MaxOrder
  /\ attempts' = [attempts EXCEPT ![k] = @ - 1]
  /\ handledAge' = [handledAge EXCEPT ![k] = 0]
  /\ LET n == Evictions
     IN  /\ cache' = With(Without(cache, {order[i] : i \in 1..n}), k, Ttl)
         /\ order' = Append(SubSeq(order, n + 1, Len(order)), k)

\* The handler throws: add is not reached.
HandlerThrows(k) ==
  /\ attempts[k] > 0
  /\ attempts' = [attempts EXCEPT ![k] = @ - 1]
  /\ UNCHANGED <<cache, order, handledAge>>

Aged == [k \in Present |-> IF cache[k] >= 0 THEN cache[k] - 1 ELSE -1]

\* Date.now() advances.
Tick ==
  /\ cache' = Aged
  /\ handledAge' = [k \in Keys |-> IF handledAge[k] < Never THEN handledAge[k] + 1 ELSE Never]
  /\ UNCHANGED <<order, attempts>>

\* clear(), when the server closes.
Clear ==
  /\ cache' = [k \in {} |-> 0]
  /\ order' = <<>>
  /\ UNCHANGED <<attempts, handledAge>>

Next ==
  \/ \E k \in Keys :
       HasMiss(k) \/ HasExpired(k) \/ AddPresent(k) \/ AddNew(k) \/ HandlerThrows(k)
  \/ Tick
  \/ Clear

Spec == Init /\ [][Next]_vars

-----------------------------------------------------------------------------
(* Properties *)

TypeOK ==
  /\ Present \subseteq Keys
  /\ \A k \in Present : cache[k] \in -1..Ttl
  /\ order \in Seq(Keys)
  /\ attempts \in [Keys -> 0..MaxAttempts]
  /\ handledAge \in [Keys -> 0..Never]

\* A key that has() answers true for was handled with success within the TTL:
\* the duplicate that is acknowledged unhandled is really a duplicate.
RemembersOnlyHandled == \A k \in Live : handledAge[k] <= Ttl

\* The map never outgrows maxCacheSize; for a size of 0 the loop leaves one entry.
CacheBounded == Cardinality(Present) <= (IF MaxSize = 0 THEN 1 ELSE MaxSize)

\* Every entry of the map has a slot in `order`: were one missing, the loop could
\* drain `order`, stop, and let the map outgrow its bound.
EveryEntryEvictable == Present \subseteq OrderedKeys

\* The last slot of a key stands for its present entry: entries that were added
\* one after the other have their last slots in that order.
LastSlot(k) == CHOOSE i \in 1..Len(order) :
                 order[i] = k /\ \A j \in (i + 1)..Len(order) : order[j] # k

SlotsFollowAges ==
  \A j, k \in Present : cache[j] < cache[k] => LastSlot(j) < LastSlot(k)

\* All of the above: what is in the cache is right, and can be got out of it.
CacheSound ==
  TypeOK /\ RemembersOnlyHandled /\ CacheBounded /\ EveryEntryEvictable /\ SlotsFollowAges

\* The cache forgets early and late, and never remembers what was not handled.
Window == INSTANCE DedupWindow
            WITH WindowKeys <- Keys,
                 Capacity <- (IF MaxSize = 0 THEN 1 ELSE MaxSize),
                 remembered <- Live
ImplementsWindow == Window!Spec

=============================================================================
