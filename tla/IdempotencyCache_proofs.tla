----------------------- MODULE IdempotencyCache_proofs -----------------------
(***************************************************************************)
(* Theorems about IdempotencyCache, for any set of keys, any size of the   *)
(* cache, any TTL and any bounds: what it remembers was handled within the *)
(* TTL, it stays within its size, every entry can be evicted, evictions    *)
(* take the oldest entries, and it implements DedupWindow.                 *)
(*                                                                         *)
(* The loop of add is a CHOOSE of the least number of evictions that makes *)
(* room, and a key's place in the line is a CHOOSE of its last slot; that  *)
(* there are such numbers is the least-number principle (LeastNumber).     *)
(***************************************************************************)
EXTENDS IdempotencyCache, FiniteSetTheorems, SequenceTheorems, TLAPS

\* The age of a live entry and what is left of its life are within the TTL together.
LifeInv == \A k \in Live : cache[k] + handledAge[k] <= Ttl

IInv == CacheSound /\ LifeInv /\ IsFiniteSet(Present)

-----------------------------------------------------------------------------
(* Numbers and slots *)

\* Every set of natural numbers that is not empty has a least element: the
\* intervals 1..n are ordered by inclusion, which is well-founded on finite sets.
LEMMA LeastNumber ==
  ASSUME NEW A \in SUBSET Nat, A # {}
  PROVE  \E n \in A : \A m \in A : n <= m
<1> DEFINE T == {1..n : n \in A}
           R == StrictSubsetOrdering(Int)
<1>1. IsWellFoundedOn(R, FiniteSubsetsOf(Int))
  BY FS_StrictSubsetOrderingWellFounded
<1>2. T \subseteq FiniteSubsetsOf(Int) /\ T # {}
  <2>1. \A n \in A : 1..n \in SUBSET Int /\ IsFiniteSet(1..n)
    BY FS_Interval
  <2> QED
    BY <2>1 DEF FiniteSubsetsOf
<1>3. PICK s \in T : \A t \in T : <<t, s>> \notin R
  <2> HIDE DEF T, R
  <2> QED
    BY <1>1, <1>2, WFMin
<1>4. PICK n \in A : s = 1..n
  OBVIOUS
<1>5. ASSUME NEW m \in A, ~(n <= m) PROVE FALSE
  <2>1. m \in Nat /\ n \in Nat /\ m < n
    BY <1>5
  <2>2. 1..m \subseteq 1..n /\ n \in 1..n /\ n \notin 1..m
    BY <2>1
  <2>3. <<1..m, 1..n>> \in R
    BY <2>2, <2>1 DEF StrictSubsetOrdering
  <2> QED
    BY <1>3, <1>4, <2>3
<1> QED
  BY <1>5

\* The last place of k in a sequence: LastSlot, for any sequence.
LastOf(q, k) == CHOOSE i \in 1..Len(q) : q[i] = k /\ \A j \in (i + 1)..Len(q) : q[j] # k

\* A key that has a slot has a last one.
LEMMA LastOfExists ==
  ASSUME NEW S, NEW q \in Seq(S), NEW p \in 1..Len(q)
  PROVE  /\ LastOf(q, q[p]) \in 1..Len(q)
         /\ q[LastOf(q, q[p])] = q[p]
         /\ \A j \in (LastOf(q, q[p]) + 1)..Len(q) : q[j] # q[p]
<1> DEFINE N == Len(q)
           k == q[p]
           A == {n \in 0..N : n < N /\ q[N - n] = k}
<1>1. N \in Nat
  OBVIOUS
<1>2. N - p \in A
  <2>1. N - p \in 0..N /\ N - p < N /\ N - (N - p) = p
    BY <1>1
  <2> QED
    BY <2>1
<1>3. PICK n \in A : \A m \in A : n <= m
  <2>1. A \in SUBSET Nat /\ A # {}
    BY <1>1, <1>2
  <2> HIDE DEF A
  <2> QED
    BY <2>1, LeastNumber
<1>4. N - n \in 1..N /\ q[N - n] = k
  BY <1>1
<1>5. ASSUME NEW j \in (N - n + 1)..N, q[j] = k PROVE FALSE
  <2>1. N - j \in 0..N /\ N - j < N /\ N - (N - j) = j /\ N - j < n
    BY <1>1
  <2>2. N - j \in A
    BY <1>5, <2>1
  <2> QED
    BY <1>1, <1>3, <2>1, <2>2
<1>6. \E l \in 1..N : q[l] = k /\ \A j \in (l + 1)..N : q[j] # k
  <2> HIDE DEF A, N, k
  <2> QED
    BY <1>4, <1>5
<1> QED
  BY <1>6 DEF LastOf

\* Only one slot of a key is its last.
LEMMA LastOfIs ==
  ASSUME NEW S, NEW q \in Seq(S), NEW i \in 1..Len(q),
         \A j \in (i + 1)..Len(q) : q[j] # q[i]
  PROVE  LastOf(q, q[i]) = i
<1>1. ASSUME NEW l \in 1..Len(q), q[l] = q[i],
             \A j \in (l + 1)..Len(q) : q[j] # q[i]
      PROVE  l = i
  <2>1. Len(q) \in Nat
    OBVIOUS
  <2>2. ~(l < i)
    <3>1. l < i => i \in (l + 1)..Len(q)
      BY <2>1
    <3> QED
      BY <1>1, <3>1
  <2>3. ~(i < l)
    <3>1. i < l => l \in (i + 1)..Len(q)
      BY <2>1
    <3> QED
      BY <1>1, <3>1
  <2> QED
    BY <2>1, <2>2, <2>3
<1> QED
  BY <1>1 DEF LastOf

\* The slots of two sequences where the second is the first without its first n
\* places and with one key more.
LEMMA LastOfShifted ==
  ASSUME NEW S, NEW q \in Seq(S), NEW n \in 0..Len(q), NEW e \in S, NEW r \in Seq(S),
         Len(r) = Len(q) - n + 1, r[Len(r)] = e,
         \A i \in 1..(Len(q) - n) : r[i] = q[n + i],
         NEW p \in (n + 1)..Len(q), q[p] # e
  PROVE  LastOf(r, q[p]) = LastOf(q, q[p]) - n /\ LastOf(r, q[p]) < Len(r)
<1> DEFINE l == LastOf(q, q[p])
<1>1. Len(q) \in Nat /\ Len(r) \in Nat /\ p \in 1..Len(q)
  OBVIOUS
<1>2. l \in 1..Len(q) /\ q[l] = q[p] /\ \A j \in (l + 1)..Len(q) : q[j] # q[p]
  BY <1>1, LastOfExists
<1> HIDE DEF l
<1>3. l >= p
  <2>1. l < p => p \in (l + 1)..Len(q)
    BY <1>1, <1>2
  <2> QED
    BY <1>1, <1>2, <2>1
<1>4. l - n \in 1..(Len(q) - n) /\ n + (l - n) = l
  BY <1>1, <1>2, <1>3
<1>5. r[l - n] = q[p] /\ l - n \in 1..Len(r) /\ l - n < Len(r)
  BY <1>1, <1>2, <1>4
<1>6. ASSUME NEW j \in (l - n + 1)..Len(r) PROVE r[j] # q[p]
  <2>1. CASE j = Len(r)
    BY <2>1
  <2>2. CASE j # Len(r)
    <3>1. l \in Int /\ n \in Int /\ j \in Int /\ j >= l - n + 1 /\ j < Len(q) - n + 1
      <4>1. l \in Nat /\ n \in Nat
        BY <1>1, <1>2
      <4>2. j \in Int /\ l - n + 1 <= j /\ j <= Len(r)
        BY <1>1, <4>1
      <4> QED
        BY <1>1, <2>2, <4>1, <4>2
    <3>2. j \in 1..(Len(q) - n) /\ n + j \in (l + 1)..Len(q)
      BY <1>1, <1>4, <3>1
    <3> QED
      BY <1>2, <3>2
  <2> QED
    BY <2>1, <2>2
<1>7. LastOf(r, r[l - n]) = l - n
  BY <1>5, <1>6, LastOfIs
<1> QED
  BY <1>5, <1>7 DEF l

\* What the first n slots hold, and who stays when they are shifted off.
Shifted(n) == {order[i] : i \in 1..n}
Kept(n) == Present \ Shifted(n)

\* The loop of add ends, with room for an entry or with nothing left.
LEMMA EvictionsMakeRoom ==
  ASSUME order \in Seq(Keys), EveryEntryEvictable, IsFiniteSet(Present)
  PROVE  /\ Evictions \in 0..Len(order)
         /\ Cardinality(Kept(Evictions)) < MaxSize \/ Kept(Evictions) = {}
         /\ Kept(Evictions) = Present \ {order[i] : i \in 1..Evictions}
<1> DEFINE N == Len(order)
           full(m) == Cardinality(Present \ {order[i] : i \in 1..m}) >= MaxSize
           A == {n \in 0..N : ~full(n) \/ n = N}
           Makes(n) == (~full(n) \/ n = N) /\ \A m \in 0..(n - 1) : full(m)
<1>1. N \in Nat
  OBVIOUS
<1>2. PICK n \in A : \A m \in A : n <= m
  <2>1. N \in A
    BY <1>1
  <2>2. A \in SUBSET Nat /\ A # {}
    BY <1>1, <2>1
  <2> HIDE DEF A
  <2> QED
    BY <2>2, LeastNumber
<1>3. Makes(n)
  <2>1. n \in 0..N /\ (~full(n) \/ n = N)
    <3> HIDE DEF full
    <3> QED
      OBVIOUS
  <2>2. ASSUME NEW m \in 0..(n - 1) PROVE full(m)
    <3>1. m \in 0..N /\ ~(n <= m)
      BY <1>1, <2>1
    <3> HIDE DEF full
    <3> QED
      BY <1>2, <3>1
  <2> QED
    BY <2>1, <2>2
<1>4. Evictions = CHOOSE l \in 0..N : Makes(l)
  BY DEF Evictions
<1>5. Evictions \in 0..N /\ Makes(Evictions)
  <2>1. n \in 0..N
    OBVIOUS
  <2> HIDE DEF Makes
  <2> QED
    BY <1>3, <1>4, <2>1
<1>6. Kept(N) = {}
  BY DEF Kept, Shifted, EveryEntryEvictable, OrderedKeys
<1>7. Kept(Evictions) = Present \ {order[i] : i \in 1..Evictions}
  BY DEF Kept, Shifted
<1>8. Cardinality(Kept(Evictions)) < MaxSize \/ Kept(Evictions) = {}
  <2>1. CASE Evictions = N
    BY <1>6, <2>1
  <2>2. CASE ~full(Evictions)
    <3>1. ~(Cardinality(Kept(Evictions)) >= MaxSize)
      BY <1>7, <2>2
    <3>2. Cardinality(Kept(Evictions)) \in Nat
      <4>1. Kept(Evictions) \in SUBSET Present
        BY DEF Kept
      <4> QED
        BY <4>1, FS_Subset, FS_CardinalityType
    <3> QED
      BY <3>1, <3>2, MaxSizeAssumption
  <2> QED
    BY <1>5, <2>1, <2>2
<1> QED
  BY <1>5, <1>7, <1>8

-----------------------------------------------------------------------------
(* Each operation preserves the invariant *)

LEMMA InitIInv == Init => IInv
<1> SUFFICES ASSUME Init PROVE IInv
  OBVIOUS
<1>1. Present = {} /\ Live = {} /\ Cardinality(Present) = 0 /\ IsFiniteSet(Present)
  BY FS_EmptySet DEF Init, Present, Live
<1>2. TypeOK
  BY <1>1, TtlAssumption, BoundsAssumption DEF Init, TypeOK, Never
<1> QED
  BY <1>1, <1>2, MaxSizeAssumption
  DEF IInv, CacheSound, RemembersOnlyHandled, CacheBounded, EveryEntryEvictable,
      SlotsFollowAges, LifeInv

\* A key on its way through a handler leaves the cache alone.
LEMMA SameCache ==
  ASSUME IInv, UNCHANGED <<cache, order>>, TypeOK',
         \A k \in Live : handledAge'[k] <= handledAge[k]
  PROVE  IInv'
<1>1. Present' = Present /\ Live' = Live
  BY DEF Present, Live
<1>2. EveryEntryEvictable' /\ SlotsFollowAges' /\ CacheBounded' /\ IsFiniteSet(Present)'
  BY <1>1
  DEF IInv, CacheSound, EveryEntryEvictable, SlotsFollowAges, CacheBounded, OrderedKeys, LastSlot
<1>3. \A k \in Live : /\ handledAge[k] \in Int /\ handledAge'[k] \in Int /\ cache[k] \in Int
                      /\ handledAge[k] <= Ttl /\ cache[k] + handledAge[k] <= Ttl
  BY TtlAssumption DEF IInv, CacheSound, RemembersOnlyHandled, LifeInv, TypeOK, Live, Never, Present
<1>4. RemembersOnlyHandled' /\ LifeInv'
  BY <1>1, <1>3, TtlAssumption DEF RemembersOnlyHandled, LifeInv
<1> QED
  BY <1>2, <1>4 DEF IInv, CacheSound

LEMMA HasMissIInv ==
  ASSUME IInv, NEW k \in Keys, HasMiss(k)
  PROVE  IInv'
<1>1. TypeOK'
  BY BoundsAssumption DEF IInv, CacheSound, TypeOK, HasMiss, Present
<1>2. \A j \in Live : handledAge'[j] <= handledAge[j]
  BY TtlAssumption DEF HasMiss, IInv, CacheSound, TypeOK, Live, Present, Never
<1> QED
  BY <1>1, <1>2, SameCache DEF HasMiss

LEMMA AddPresentIInv ==
  ASSUME IInv, NEW k \in Keys, AddPresent(k)
  PROVE  IInv'
<1>1. TypeOK'
  BY BoundsAssumption, TtlAssumption DEF IInv, CacheSound, TypeOK, AddPresent, Present, Never
<1>2. \A j \in Live : handledAge'[j] <= handledAge[j]
  BY TtlAssumption DEF AddPresent, IInv, CacheSound, TypeOK, Live, Present, Never
<1> QED
  BY <1>1, <1>2, SameCache DEF AddPresent

LEMMA HandlerThrowsIInv ==
  ASSUME IInv, NEW k \in Keys, HandlerThrows(k)
  PROVE  IInv'
<1>1. TypeOK'
  BY BoundsAssumption DEF IInv, CacheSound, TypeOK, HandlerThrows, Present
<1>2. \A j \in Live : handledAge'[j] <= handledAge[j]
  BY TtlAssumption DEF HandlerThrows, IInv, CacheSound, TypeOK, Live, Present, Never
<1> QED
  BY <1>1, <1>2, SameCache DEF HandlerThrows

\* An entry that leaves the map takes nothing with it.
LEMMA HasExpiredIInv ==
  ASSUME IInv, NEW k \in Keys, HasExpired(k)
  PROVE  IInv'
<1>1. /\ Present' = Present \ {k} /\ Live' = Live
      /\ \A j \in Present' : cache'[j] = cache[j]
  BY DEF HasExpired, Without, Present, Live, IInv, CacheSound, TypeOK
<1>2. TypeOK'
  <2>1. Present' \subseteq Keys /\ \A j \in Present' : cache'[j] \in -1..Ttl
    BY <1>1 DEF IInv, CacheSound, TypeOK
  <2>2. order' \in Seq(Keys) /\ attempts' \in [Keys -> 0..MaxAttempts] /\ handledAge' \in [Keys -> 0..Never]
    BY BoundsAssumption DEF IInv, CacheSound, TypeOK, HasExpired
  <2> QED
    BY <2>1, <2>2 DEF TypeOK
<1>3. /\ IsFiniteSet(Present') /\ Cardinality(Present') <= Cardinality(Present)
      /\ Cardinality(Present') \in Nat /\ Cardinality(Present) \in Nat
  BY <1>1, FS_RemoveElement, FS_CardinalityType, FS_Subset DEF IInv
<1>4. CacheBounded'
  BY <1>3, MaxSizeAssumption DEF IInv, CacheSound, CacheBounded
<1>5. EveryEntryEvictable' /\ SlotsFollowAges'
  <2>1. order' = order
    BY DEF HasExpired
  <2>2. \A j : LastSlot(j)' = LastSlot(j)
    BY <2>1 DEF LastSlot
  <2>3. SlotsFollowAges'
    BY <1>1, <2>2 DEF IInv, CacheSound, SlotsFollowAges
  <2> QED
    BY <1>1, <2>1, <2>3 DEF IInv, CacheSound, EveryEntryEvictable, OrderedKeys
<1>6. RemembersOnlyHandled' /\ LifeInv'
  BY <1>1 DEF IInv, CacheSound, RemembersOnlyHandled, LifeInv, HasExpired, Live
<1> QED
  BY <1>2, <1>3, <1>4, <1>5, <1>6 DEF IInv, CacheSound

\* Time passes: entries grow older together, and keep their order.
LEMMA TickIInv ==
  ASSUME IInv, Tick
  PROVE  IInv'
<1>1. /\ Present' = Present
      /\ \A k \in Present : /\ cache[k] \in Int /\ cache'[k] \in Int
                            /\ cache[k] >= -1 /\ cache[k] <= Ttl
                            /\ cache'[k] = IF cache[k] >= 0 THEN cache[k] - 1 ELSE -1
  BY TtlAssumption DEF Tick, Aged, Present, IInv, CacheSound, TypeOK
<1>2. TypeOK'
  <2>1. Present' \subseteq Keys /\ \A j \in Present' : cache'[j] \in -1..Ttl
    <3>1. Present' \subseteq Keys
      BY <1>1 DEF IInv, CacheSound, TypeOK
    <3>2. ASSUME NEW j \in Present' PROVE cache'[j] \in -1..Ttl
      BY <1>1, TtlAssumption
    <3> QED
      BY <3>1, <3>2
  <2>2. order' \in Seq(Keys) /\ attempts' \in [Keys -> 0..MaxAttempts] /\ handledAge' \in [Keys -> 0..Never]
    BY TtlAssumption DEF IInv, CacheSound, TypeOK, Tick, Never
  <2> QED
    BY <2>1, <2>2 DEF TypeOK
<1>3. \A k \in Live' : k \in Live /\ k \in Keys /\ cache'[k] = cache[k] - 1
  BY <1>1 DEF Live, IInv, CacheSound, TypeOK
<1>4. \A k \in Live : /\ handledAge[k] \in Int /\ handledAge[k] <= Ttl /\ cache[k] \in Int
                      /\ cache[k] + handledAge[k] <= Ttl
  BY TtlAssumption DEF IInv, CacheSound, RemembersOnlyHandled, LifeInv, TypeOK, Live, Never, Present
<1>5. \A k \in Live' : handledAge'[k] = handledAge[k] + 1
  BY <1>3, <1>4, TtlAssumption DEF Tick, Never
<1>6. RemembersOnlyHandled' /\ LifeInv'
  <2>1. \A k \in Live' : /\ cache'[k] \in Int /\ cache'[k] >= 0 /\ handledAge'[k] \in Int
                         /\ cache'[k] + handledAge'[k] <= Ttl
    BY <1>1, <1>3, <1>4, <1>5 DEF Live
  <2> QED
    BY <2>1, TtlAssumption DEF RemembersOnlyHandled, LifeInv
<1>7. CacheBounded' /\ EveryEntryEvictable' /\ IsFiniteSet(Present')
  BY <1>1 DEF IInv, CacheSound, CacheBounded, EveryEntryEvictable, OrderedKeys, Tick
<1>8. SlotsFollowAges'
  <2>1. order' = order
    BY DEF Tick
  <2>2. \A j : LastSlot(j)' = LastSlot(j)
    BY <2>1 DEF LastSlot
  <2>3. \A j, k \in Present : cache'[j] < cache'[k] => cache[j] < cache[k]
    BY <1>1
  <2> QED
    BY <1>1, <2>2, <2>3 DEF IInv, CacheSound, SlotsFollowAges
<1> QED
  BY <1>2, <1>6, <1>7, <1>8 DEF IInv, CacheSound

LEMMA ClearIInv ==
  ASSUME IInv, Clear
  PROVE  IInv'
<1>1. Present' = {} /\ Live' = {} /\ Cardinality(Present') = 0 /\ IsFiniteSet(Present')
  BY FS_EmptySet DEF Clear, Present, Live
<1>2. TypeOK'
  BY <1>1 DEF Clear, IInv, CacheSound, TypeOK
<1> QED
  BY <1>1, <1>2, MaxSizeAssumption
  DEF IInv, CacheSound, RemembersOnlyHandled, CacheBounded, EveryEntryEvictable,
      SlotsFollowAges, LifeInv

\* What add does to the map and to the line.
LEMMA AddNewEffect ==
  ASSUME IInv, NEW k \in Keys, AddNew(k)
  PROVE  /\ Evictions \in 0..Len(order)
         /\ Present' = Kept(Evictions) \cup {k} /\ Kept(Evictions) \subseteq Present
         /\ k \notin Present
         /\ cache'[k] = Ttl /\ \A j \in Kept(Evictions) : cache'[j] = cache[j]
         /\ order' \in Seq(Keys) /\ Len(order') = Len(order) - Evictions + 1
         /\ order'[Len(order')] = k
         /\ \A i \in 1..(Len(order) - Evictions) : order'[i] = order[Evictions + i]
<1> DEFINE n == Evictions
           N == Len(order)
           q == SubSeq(order, n + 1, N)
<1>1. order \in Seq(Keys) /\ N \in Nat
  BY DEF IInv, CacheSound, TypeOK
<1>2. n \in 0..N /\ Kept(n) = Present \ {order[i] : i \in 1..n}
  BY <1>1, EvictionsMakeRoom DEF IInv, CacheSound
<1>3. /\ cache' = With(Without(cache, {order[i] : i \in 1..n}), k, Ttl)
      /\ order' = Append(q, k) /\ k \notin Present
  BY DEF AddNew
<1> HIDE DEF n
<1>4. /\ Present' = Kept(n) \cup {k} /\ Kept(n) \subseteq Present
      /\ cache'[k] = Ttl /\ \A j \in Kept(n) : cache'[j] = cache[j]
  BY <1>2, <1>3 DEF With, Without, Present
<1>5. q \in Seq(Keys) /\ Len(q) = N - n /\ \A i \in 1..(N - n) : q[i] = order[n + i]
  BY <1>1, <1>2
<1> HIDE DEF q
<1>6. /\ order' \in Seq(Keys) /\ Len(order') = Len(q) + 1 /\ order'[Len(q) + 1] = k
      /\ \A i \in 1..Len(q) : order'[i] = q[i]
  BY <1>3, <1>5, AppendProperties
<1> QED
  BY <1>1, <1>2, <1>3, <1>4, <1>5, <1>6 DEF n

\* add: the evicted entries go with all their slots, so that the line of those who
\* stay is what it was, and the new entry is the last and the youngest.
LEMMA AddNewIInv ==
  ASSUME IInv, NEW k \in Keys, AddNew(k)
  PROVE  IInv'
<1> DEFINE n == Evictions
           N == Len(order)
           K == Kept(n)
<1>1. order \in Seq(Keys) /\ N \in Nat /\ IsFiniteSet(Present) /\ Present \subseteq Keys
  BY DEF IInv, CacheSound, TypeOK
<1>2. /\ n \in 0..N
      /\ Present' = K \cup {k} /\ K \subseteq Present /\ k \notin Present
      /\ cache'[k] = Ttl /\ \A j \in K : cache'[j] = cache[j]
      /\ order' \in Seq(Keys) /\ Len(order') = N - n + 1 /\ order'[Len(order')] = k
      /\ \A i \in 1..(N - n) : order'[i] = order[n + i]
  BY AddNewEffect
<1>3. Cardinality(K) < MaxSize \/ K = {}
  BY <1>1, EvictionsMakeRoom DEF IInv, CacheSound
<1>4. \A j \in K : \A i \in 1..n : order[i] # j
  BY DEF Kept, Shifted
<1> HIDE DEF n, K
<1>5. IsFiniteSet(K) /\ IsFiniteSet(Present')
  BY <1>1, <1>2, FS_Subset, FS_AddElement
<1>6. TypeOK'
  <2>1. Present' \subseteq Keys
    BY <1>1, <1>2
  <2>2. ASSUME NEW j \in Present' PROVE cache'[j] \in -1..Ttl
    <3>1. \A i \in Present : cache[i] \in -1..Ttl
      BY DEF IInv, CacheSound, TypeOK
    <3>2. Ttl \in -1..Ttl
      BY TtlAssumption
    <3> QED
      BY <1>2, <3>1, <3>2
  <2>3. attempts' \in [Keys -> 0..MaxAttempts] /\ handledAge' \in [Keys -> 0..Never]
    BY BoundsAssumption, TtlAssumption DEF IInv, CacheSound, TypeOK, AddNew, Never
  <2> QED
    BY <1>2, <2>1, <2>2, <2>3 DEF TypeOK
<1>7. CacheBounded'
  <2>1. Cardinality(K) \in Nat /\ Cardinality(Present') = Cardinality(K) + 1
    BY <1>2, <1>5, FS_CardinalityType, FS_AddElement
  <2>2. K = {} => Cardinality(K) = 0
    BY FS_EmptySet
  <2> QED
    BY <1>3, <2>1, <2>2, MaxSizeAssumption DEF CacheBounded
\* Who stays has its last slot behind those that are shifted off.
<1>8. ASSUME NEW j \in K
      PROVE  /\ j \in OrderedKeys'
             /\ LastSlot(j)' = LastSlot(j) - n /\ LastSlot(j)' < Len(order')
             /\ LastSlot(j) \in Int
  <2>1. PICK p \in 1..N : order[p] = j
    BY <1>2 DEF IInv, CacheSound, EveryEntryEvictable, OrderedKeys
  <2>2. p \in (n + 1)..N /\ order[p] # k
    BY <1>1, <1>2, <1>4, <2>1
  <2>3. LastOf(order', j) = LastOf(order, j) - n /\ LastOf(order', j) < Len(order')
    BY <1>1, <1>2, <2>1, <2>2, LastOfShifted
  <2>4. LastSlot(j) = LastOf(order, j) /\ LastSlot(j)' = LastOf(order', j)
    BY DEF LastSlot, LastOf
  <2>5. LastOf(order, j) \in Int
    BY <1>1, <2>1, LastOfExists
  <2>6. p - n \in 1..(N - n) /\ p - n \in 1..Len(order') /\ n + (p - n) = p
    BY <1>1, <1>2, <2>2
  <2>7. j \in OrderedKeys'
    <3>1. order'[p - n] = j
      BY <1>2, <2>1, <2>6
    <3> QED
      BY <2>6, <3>1 DEF OrderedKeys
  <2> QED
    BY <2>3, <2>4, <2>5, <2>7
<1>9. k \in OrderedKeys' /\ LastSlot(k)' = Len(order')
  <2>1. Len(order') \in 1..Len(order') /\ \A i \in (Len(order') + 1)..Len(order') : FALSE
    BY <1>1, <1>2
  <2>2. LastOf(order', order'[Len(order')]) = Len(order')
    BY <1>2, <2>1, LastOfIs
  <2>3. LastSlot(k)' = LastOf(order', k)
    BY DEF LastSlot, LastOf
  <2> QED
    BY <1>2, <2>1, <2>2, <2>3 DEF OrderedKeys
<1>10. EveryEntryEvictable'
  BY <1>2, <1>8, <1>9 DEF EveryEntryEvictable
<1>11. SlotsFollowAges'
  <2> SUFFICES ASSUME NEW i \in Present', NEW j \in Present', cache'[i] < cache'[j]
               PROVE  LastSlot(i)' < LastSlot(j)'
    BY DEF SlotsFollowAges
  <2>1. i # k
    BY <1>2, <1>6, TtlAssumption DEF TypeOK
  <2>2. CASE j = k
    BY <1>2, <1>8, <1>9, <2>1, <2>2
  <2>3. CASE j # k
    <3>1. i \in K /\ j \in K /\ cache[i] < cache[j]
      BY <1>2, <2>1, <2>3
    <3>2. LastSlot(i) < LastSlot(j)
      BY <1>2, <3>1 DEF IInv, CacheSound, SlotsFollowAges
    <3>3. n \in Int
      BY <1>1, <1>2
    <3> QED
      BY <1>8, <3>1, <3>2, <3>3
  <2> QED
    BY <2>2, <2>3
<1>12. RemembersOnlyHandled' /\ LifeInv'
  <2>1. handledAge'[k] = 0 /\ \A j \in K : handledAge'[j] = handledAge[j]
    BY <1>1, <1>2 DEF AddNew, IInv, CacheSound, TypeOK
  <2>2. ASSUME NEW j \in Live'
        PROVE  handledAge'[j] <= Ttl /\ cache'[j] + handledAge'[j] <= Ttl
    <3>1. CASE j = k
      BY <1>2, <2>1, <3>1, TtlAssumption
    <3>2. CASE j # k
      <4>1. j \in K /\ j \in Live
        BY <1>2, <3>2 DEF Live
      <4> QED
        BY <1>2, <2>1, <4>1 DEF IInv, CacheSound, RemembersOnlyHandled, LifeInv
    <3> QED
      BY <3>1, <3>2
  <2> QED
    BY <2>2 DEF RemembersOnlyHandled, LifeInv
<1> QED
  BY <1>5, <1>6, <1>7, <1>10, <1>11, <1>12 DEF IInv, CacheSound

LEMMA StepIInv == IInv /\ [Next]_vars => IInv'
<1> SUFFICES ASSUME IInv, [Next]_vars PROVE IInv'
  OBVIOUS
<1>1. CASE UNCHANGED vars
  <2>1. TypeOK' /\ \A k \in Live : handledAge'[k] <= handledAge[k]
    BY <1>1, TtlAssumption DEF vars, IInv, CacheSound, TypeOK, Live, Present, Never
  <2> QED
    BY <1>1, <2>1, SameCache DEF vars
<1>2. CASE Next
  BY <1>2, HasMissIInv, HasExpiredIInv, AddPresentIInv, AddNewIInv, HandlerThrowsIInv,
     TickIInv, ClearIInv
  DEF Next
<1> QED
  BY <1>1, <1>2

-----------------------------------------------------------------------------
(* The theorems *)

\* In every reachable state of the cache, whatever handlers overlap, expire and
\* evict: a key it remembers was handled within the TTL, it holds no more than
\* maxCacheSize entries (one, for a size of 0), every entry has a slot by which it
\* can be evicted, and the slots stand in the order of the entries' ages.
THEOREM CacheStaysSound == Spec => []CacheSound
<1>1. IInv => CacheSound
  BY DEF IInv
<1> QED
  BY InitIInv, StepIInv, <1>1, PTL DEF Spec

\* The window counts with the same operator.
LEMMA WindowCardinality == \A S : Window!Cardinality(S) = Cardinality(S)
  BY DEF Window!Cardinality, Cardinality, Window!IsFiniteSet, IsFiniteSet

\* Every step of the cache is a step of the window or leaves it unchanged.
LEMMA StepRefines ==
  ASSUME IInv, IInv', Next
  PROVE  Window!Next \/ UNCHANGED Window!windowVars
<1>1. ASSUME NEW k \in Keys, HasMiss(k) PROVE Window!Begin(k)
  BY <1>1 DEF HasMiss, Window!Begin, Live, Present
<1>2. ASSUME NEW k \in Keys, HasExpired(k) PROVE Window!Begin(k)
  <2>1. k \notin Live /\ Live' \subseteq Live
    BY <1>2 DEF HasExpired, Without, Live, Present, IInv, CacheSound, TypeOK
  <2> QED
    BY <1>2, <2>1 DEF HasExpired, Window!Begin
<1>3. Window!Cardinality(Live') <= (IF MaxSize = 0 THEN 1 ELSE MaxSize)
  <2>1. IsFiniteSet(Present') /\ Live' \in SUBSET Present'
    BY DEF IInv, Live
  <2>2. Cardinality(Live') <= Cardinality(Present') /\ Cardinality(Live') \in Nat
        /\ Cardinality(Present') \in Nat
    BY <2>1, FS_Subset, FS_CardinalityType
  <2> QED
    BY <2>2, WindowCardinality, MaxSizeAssumption DEF IInv, CacheSound, CacheBounded
<1>4. ASSUME NEW k \in Keys, AddPresent(k) PROVE Window!Remember(k)
  <2>1. Live' = Live
    BY <1>4 DEF AddPresent, Live, Present
  <2> QED
    BY <1>3, <1>4, <2>1 DEF AddPresent, Window!Remember
<1>5. ASSUME NEW k \in Keys, AddNew(k) PROVE Window!Remember(k)
  <2>1. Live' \subseteq Live \cup {k}
    BY <1>5, AddNewEffect DEF Live
  <2> QED
    BY <1>3, <1>5, <2>1 DEF AddNew, Window!Remember
<1>6. ASSUME NEW k \in Keys, HandlerThrows(k) PROVE Window!Abandon(k)
  BY <1>6 DEF HandlerThrows, Window!Abandon, Live, Present
<1>7. ASSUME Tick PROVE Window!Forget
  <2>1. Live' \subseteq Live
    BY <1>7, TtlAssumption DEF Tick, Aged, Live, Present, IInv, CacheSound, TypeOK
  <2> QED
    BY <1>7, <2>1 DEF Tick, Window!Forget
<1>8. ASSUME Clear PROVE Window!Forget
  BY <1>8 DEF Clear, Window!Forget, Live, Present
<1> QED
  BY <1>1, <1>2, <1>4, <1>5, <1>6, <1>7, <1>8 DEF Next, Window!Next

\* The map, its slots and the clock implement the window: what the cache suppresses
\* is what DedupWindow allows to be suppressed, for every size and TTL.
THEOREM CacheImplementsWindow == Spec => ImplementsWindow
<1>1. Init => Window!Init
  BY DEF Init, Window!Init, Live, Present
<1>2. IInv /\ IInv' /\ [Next]_vars => [Window!Next]_(Window!windowVars)
  <2>1. UNCHANGED vars => UNCHANGED Window!windowVars
    BY DEF vars, Window!windowVars, Live, Present
  <2> QED
    BY <2>1, StepRefines
<1> QED
  BY InitIInv, StepIInv, <1>1, <1>2, PTL DEF Spec, ImplementsWindow, Window!Spec

=============================================================================
