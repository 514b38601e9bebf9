------------------------ MODULE ParameterManagerProofs ------------------------
(***************************************************************************)
(* A ParameterManager forgets nothing it waits for, whatever the vehicle    *)
(* sends: a read, a write, and a load that has values of the default        *)
(* component are timed.  What makes this hard is the timeout, which starts  *)
(* its timer again in every branch but the last: there it has to be shown   *)
(* that, when it asks for nothing, nothing is left to be asked for, though  *)
(* its queue is limited and does not tell the indices of two components     *)
(* apart.                                                                  *)
(*                                                                         *)
(* With the simulated vehicle and two links (ParameterProtocol) what it     *)
(* takes over is also true: a value may be old when it arrives, but its     *)
(* name, its count and its index are the vehicle's.  From this follows that *)
(* no index is lost track of and that a load that is complete is whole.     *)
(*                                                                         *)
(* Where nothing is lost, more follows: an old value is followed by a new   *)
(* one, so what is shown and what the user wrote last are right in the end; *)
(* and where the timers also outlast the links, whatever is asked for is    *)
(* under way or answered when a timer fires, and a load ends as the failure *)
(* modes of the vehicle say.                                               *)
(***************************************************************************)
EXTENDS ParameterProtocol, WellFoundedInduction, FiniteSetTheorems, SequenceTheorems, TLAPS

Pairs == Nat \X Nat
-----------------------------------------------------------------------------
(* The order of keys *)

LEMMA Least ==
  ASSUME NEW T \in SUBSET Nat, T /= {}
  PROVE  \E i \in T : \A j \in T : i <= j
<1>1. PICK i \in T : \A j \in T : <<j, i>> \notin OpToRel(<, Nat)
  BY NatLessThanWellFounded, WFMin
<1>2. \A j \in T : ~(j < i)
  BY <1>1 DEF OpToRel
<1>3. i \in Nat /\ \A j \in T : j \in Nat
  OBVIOUS
<1> QED
  BY <1>2, <1>3

LEMMA BeforeIsOrder ==
  /\ \A p \in Pairs : ~Before(p, p)
  /\ \A p, q \in Pairs : p /= q => Before(p, q) \/ Before(q, p)
  /\ \A p, q, r \in Pairs : Before(p, q) /\ Before(q, r) => Before(p, r)
  BY DEF Before, Pairs

\* Some key of a set comes before the others.
LEMMA First ==
  ASSUME NEW S \in SUBSET Pairs, S /= {}
  PROVE  \E p \in S : \A q \in S : ~Before(q, p)
<1> DEFINE firsts == {p[1] : p \in S}
<1>1. PICK a \in firsts : \A b \in firsts : a <= b
  <2>1. firsts \in SUBSET Nat /\ firsts /= {}
    BY DEF Pairs
  <2> HIDE DEF firsts
  <2> QED
    BY <2>1, Least
<1> DEFINE seconds == {p[2] : p \in {p \in S : p[1] = a}}
<1>2. PICK c \in seconds : \A d \in seconds : c <= d
  <2>1. seconds \in SUBSET Nat /\ seconds /= {}
    BY <1>1 DEF Pairs
  <2> HIDE DEF seconds
  <2> QED
    BY <2>1, Least
<1>3. PICK p \in S : p[1] = a /\ p[2] = c
  BY <1>2
<1>4. ASSUME NEW q \in S
      PROVE  ~Before(q, p)
  <2>1. a <= q[1] /\ (q[1] = a => c <= q[2])
    BY <1>1, <1>2
  <2>2. q[1] \in Nat /\ q[2] \in Nat /\ p[1] \in Nat /\ p[2] \in Nat
    BY DEF Pairs
  <2> QED
    BY <1>3, <2>1, <2>2 DEF Before
<1> QED
  BY <1>4

Rank(p, S) == Cardinality({q \in S : Before(q, p)})

\* The keys of a finite set are numbered in their order, from 0 on.
LEMMA Ranks ==
  ASSUME NEW S \in SUBSET Pairs, IsFiniteSet(S)
  PROVE  /\ Cardinality(S) \in Nat
         /\ \A p \in S : Rank(p, S) \in 0 .. Cardinality(S) - 1
         /\ \A p, q \in S : Before(p, q) => Rank(p, S) < Rank(q, S)
         /\ \A p, q \in S : Rank(p, S) = Rank(q, S) => p = q
         /\ \A i \in 0 .. Cardinality(S) - 1 : \E p \in S : Rank(p, S) = i
<1> DEFINE n == Cardinality(S)
           below(p) == {q \in S : Before(q, p)}
           rank == [p \in S |-> Rank(p, S)]
<1>1. n \in Nat
  BY FS_CardinalityType
<1>2. ASSUME NEW p \in S
      PROVE  IsFiniteSet(below(p)) /\ rank[p] = Cardinality(below(p)) /\ rank[p] \in 0 .. n - 1
  <2>1. below(p) \in SUBSET S /\ p \notin below(p)
    BY BeforeIsOrder
  <2>2. IsFiniteSet(below(p)) /\ Cardinality(below(p)) <= n /\ Cardinality(below(p)) /= n
    BY <2>1, FS_Subset
  <2> QED
    BY <1>1, <2>2, FS_CardinalityType DEF Rank
<1>3. ASSUME NEW p \in S, NEW q \in S, Before(p, q)
      PROVE  rank[p] < rank[q]
  <2>1. below(p) \in SUBSET below(q) /\ below(p) /= below(q)
    BY <1>3, BeforeIsOrder
  <2>2. /\ IsFiniteSet(below(q)) /\ rank[p] \in Nat /\ rank[q] \in Nat
        /\ rank[p] = Cardinality(below(p)) /\ rank[q] = Cardinality(below(q))
    <3> HIDE DEF rank, n
    <3>1. \A i \in 0 .. n - 1 : i \in Nat
      BY <1>1
    <3> QED
      BY <1>2, <3>1
  <2> HIDE DEF below, rank
  <2>3. Cardinality(below(p)) <= Cardinality(below(q))
        /\ Cardinality(below(p)) /= Cardinality(below(q))
    BY <2>1, <2>2, FS_Subset
  <2> QED
    BY <2>2, <2>3
<1>4. rank \in Injection(S, 0 .. n - 1) /\ \A p, q \in S : rank[p] = rank[q] => p = q
  <2>1. rank \in [S -> 0 .. n - 1]
    BY <1>2
  <2>2. ASSUME NEW p \in S, NEW q \in S, rank[p] = rank[q]
        PROVE  p = q
    <3> HIDE DEF rank, n
    <3>1. rank[p] \in Nat /\ rank[q] \in Nat
      <4>1. \A i \in 0 .. n - 1 : i \in Nat
        BY <1>1
      <4> QED
        BY <1>2, <4>1
    <3>2. ~Before(p, q) /\ ~Before(q, p)
      BY <1>3, <2>2, <3>1
    <3> QED
      BY <3>2, BeforeIsOrder
  <2> QED
    BY <2>1, <2>2 DEF Injection, IsInjective
<1>5. IsFiniteSet(0 .. n - 1) /\ Cardinality(0 .. n - 1) = n
  BY <1>1, FS_Interval
<1>6. rank \in Surjection(S, 0 .. n - 1)
  BY <1>4, <1>5, FS_Injection
<1>7. \A i \in 0 .. n - 1 : \E p \in S : rank[p] = i
  BY <1>6 DEF Surjection
<1>8. \A p \in S : rank[p] = Rank(p, S)
  OBVIOUS
<1> HIDE DEF rank, below
<1> QED
  BY <1>1, <1>2, <1>3, <1>4, <1>7, <1>8

\* Ordered lists a finite set of keys, each behind those before it.
LEMMA OrderedLists ==
  ASSUME NEW S \in SUBSET Pairs, IsFiniteSet(S)
  PROVE  /\ Ordered(S) \in Seq(S) /\ Len(Ordered(S)) = Cardinality(S)
         /\ Ordered(S) \in [1 .. Cardinality(S) -> S]
         /\ \A i \in 1 .. Cardinality(S) : Rank(Ordered(S)[i], S) = i - 1
         /\ \A i, j \in 1 .. Cardinality(S) : i < j => Before(Ordered(S)[i], Ordered(S)[j])
<1> DEFINE n == Cardinality(S)
<1>1. n \in Nat
  BY Ranks
<1>2. ASSUME NEW i \in 1 .. n
      PROVE  Ordered(S)[i] \in S /\ Rank(Ordered(S)[i], S) = i - 1
  <2>1. i - 1 \in 0 .. n - 1
    BY <1>1
  <2>2. \E p \in S : Rank(p, S) = i - 1
    BY <2>1, Ranks
  <2> QED
    BY <2>2 DEF Ordered, Rank
<1>3. Ordered(S) \in [1 .. n -> S]
  BY <1>2 DEF Ordered
<1>4. ASSUME NEW i \in 1 .. n, NEW j \in 1 .. n, i < j
      PROVE  Before(Ordered(S)[i], Ordered(S)[j])
  <2> DEFINE p == Ordered(S)[i]
             q == Ordered(S)[j]
  <2>1. p \in S /\ q \in S /\ Rank(p, S) = i - 1 /\ Rank(q, S) = j - 1
    BY <1>2
  <2> HIDE DEF p, q
  <2>2. ~Before(q, p) /\ p /= q
    BY <1>1, <1>4, <2>1, Ranks
  <2>3. Before(p, q)
    BY <2>1, <2>2, BeforeIsOrder
  <2> QED
    BY <2>3 DEF p, q
<1> QED
  BY <1>1, <1>2, <1>3, <1>4
-----------------------------------------------------------------------------
(* The batch queue *)

LEMMA ComponentsAreNaturals == ParamKey \subseteq Pairs /\ Component \X Nat \subseteq Pairs
  BY ComponentAssumption, NameAssumption DEF Pairs, ParamKey

LEMMA NoneBefore ==
  ASSUME NEW waiting, NEW queue, Cardinality(queue) = 0, NEW p,
         {q \in Fillable(waiting, queue) : Before(q, p)} = {}
  PROVE  HasRoom(p, waiting, queue)
<1>1. Cardinality({q \in Fillable(waiting, queue) : Before(q, p)}) = 0
  BY FS_EmptySet
<1> QED
  BY <1>1, RetryAssumption DEF HasRoom

\* A timeout that asks for no index gives all of them up.
LEMMA AskedOrGivenUp ==
  ASSUME NEW waiting, IsMap(waiting, Component \X Nat, Nat), Asked(waiting, {}) = {}
  PROVE  GivenUp(waiting, {}) = DOMAIN waiting
<1>1. Cardinality({}) = 0
  BY FS_EmptySet
<1>2. DOMAIN waiting \in SUBSET Pairs /\ \A p \in DOMAIN waiting : waiting[p] \in Nat
  BY ComponentsAreNaturals DEF IsMap
<1>3. Fillable(waiting, {}) = {}
  <2> SUFFICES ASSUME Fillable(waiting, {}) /= {} PROVE FALSE
    OBVIOUS
  <2>1. Fillable(waiting, {}) \in SUBSET Pairs
    BY <1>2 DEF Fillable
  <2>2. PICK p \in Fillable(waiting, {}) : \A q \in Fillable(waiting, {}) : ~Before(q, p)
    BY <2>1, First
  <2>3. HasRoom(p, waiting, {})
    BY <1>1, <2>2, NoneBefore
  <2> QED
    BY <2>2, <2>3 DEF Asked
<1>4. ASSUME NEW p \in DOMAIN waiting
      PROVE  waiting[p] >= MaxLoadRetry
  <2> SUFFICES ASSUME waiting[p] < MaxLoadRetry PROVE FALSE
    BY <1>2, RetryAssumption
  <2> DEFINE T == {q \in DOMAIN waiting : q[2] = p[2] /\ waiting[q] < MaxLoadRetry}
  <2>1. T \in SUBSET Pairs /\ p \in T
    BY <1>2
  <2>2. PICK r \in T : \A q \in T : ~Before(q, r)
    <3> HIDE DEF T
    <3> QED
      BY <2>1, First
  <2>3. \A q \in DOMAIN waiting : Before(q, r) /\ q[2] = r[2] => waiting[q] >= MaxLoadRetry
    BY <1>2, <2>2, RetryAssumption
  <2>4. r \in Fillable(waiting, {})
    BY <2>2, <2>3 DEF Fillable
  <2> QED
    BY <1>3, <2>4
<1>5. \A p \in DOMAIN waiting : HasRoom(p, waiting, {})
  BY <1>1, <1>3, NoneBefore
<1> QED
  BY <1>4, <1>5 DEF GivenUp

LEMMA FillTypes ==
  ASSUME NEW K \in SUBSET Component, NEW waiting, IsMap(waiting, K \X Nat, Nat),
         NEW queue \in SUBSET Nat, failedReadIndex \subseteq K \X Nat,
         FillIndexBatchQueue(waiting, queue)
  PROVE  /\ IsMap(waitingReadIndex', K \X Nat, Nat)
         /\ indexBatchQueue' \subseteq Nat /\ failedReadIndex' \subseteq K \X Nat
<1>1. /\ Asked(waiting, queue) \subseteq DOMAIN waiting
      /\ GivenUp(waiting, queue) \subseteq DOMAIN waiting
  BY DEF Asked, Fillable, GivenUp
<1>2. waitingReadIndex' = Retried(waiting, Asked(waiting, queue), GivenUp(waiting, queue))
      /\ indexBatchQueue' = queue \cup {p[2] : p \in Asked(waiting, queue)}
      /\ failedReadIndex' = failedReadIndex \cup GivenUp(waiting, queue)
  BY DEF FillIndexBatchQueue
<1>3. DOMAIN waiting \subseteq K \X Nat /\ \A p \in DOMAIN waiting : waiting[p] \in Nat
  BY DEF IsMap
<1>4. IsMap(waitingReadIndex', K \X Nat, Nat)
  BY <1>2, <1>3 DEF IsMap, Retried
<1>5. \A p \in Asked(waiting, queue) : p[2] \in Nat
  BY <1>1, <1>3
<1> QED
  BY <1>1, <1>2, <1>3, <1>4, <1>5
-----------------------------------------------------------------------------
(* Values that arrive *)

Messages == {"NoResponse", "Missing", "ReadFailed", "WriteFailed"}

\* After the check a load that is not complete waits for something.
LEMMA CheckOutcome ==
  ASSUME FlagTypeOK, NEW also \in SUBSET Messages, CheckInitialLoadComplete(also)
  PROVE  /\ parametersReady' \in BOOLEAN /\ missingParameters' \in BOOLEAN
         /\ told' \subseteq Messages
         /\ ~parametersReady' => ~LoadIsComplete
  BY DEF FlagTypeOK, Messages, CheckInitialLoadComplete, load

LEMMA ExpectedTypes ==
  ASSUME IndexTypeOK, NEW c \in Component, NEW count \in Nat
  PROVE  IsMap(Expected(c, count), (DOMAIN paramCount \cup {c}) \X Nat, Nat)
<1>1. Indices(c, count) \subseteq {c} \X Nat
  BY DEF Indices
<1> QED
  BY <1>1 DEF IndexTypeOK, IsMap, Expected, Seen

LEMMA WithTypes ==
  ASSUME NEW f, NEW keys, NEW values, IsMap(f, keys, values), NEW k, NEW v \in values
  PROVE  IsMap(With(f, k, v), keys \cup {k}, values)
  BY DEF IsMap, With

LEMMA WithoutTypes ==
  ASSUME NEW f, NEW keys, NEW values, IsMap(f, keys, values), NEW S
  PROVE  IsMap(Without(f, S), keys, values)
  BY DEF IsMap, Without

LEMMA UpdateIndexes ==
  ASSUME IndexTypeOK, NEW m \in ParamValue, NEW after, Update(m, after)
  PROVE  IndexTypeOK' /\ DOMAIN paramCount' = DOMAIN paramCount \cup {m.comp}
<1> DEFINE K == DOMAIN paramCount \cup {m.comp}
           i == <<m.comp, m.index>>
           waiting == Expected(m.comp, m.count)
           rest == Without(waiting, {i})
           queue == IF i \in DOMAIN waiting THEN indexBatchQueue \ {m.index} ELSE indexBatchQueue
<1>1. m.comp \in Component /\ m.count \in Nat /\ m.index \in Nat
  BY DEF ParamValue
<1>2. IsMap(paramCount', Component, Nat) /\ DOMAIN paramCount' = K
  <2>1. CASE Seen(m.comp)
    BY <1>1, <2>1 DEF Update, Seen, IndexTypeOK
  <2>2. CASE ~Seen(m.comp)
    <3>1. paramCount' = With(paramCount, m.comp, m.count)
      BY <2>2 DEF Update
    <3> QED
      BY <1>1, <3>1 DEF IndexTypeOK, IsMap, With
  <2> QED
    BY <2>1, <2>2
<1>3. K \in SUBSET Component
  BY <1>1 DEF IndexTypeOK, IsMap
<1>4. IsMap(rest, K \X Nat, Nat)
  BY <1>1, ExpectedTypes, WithoutTypes
<1>5. queue \in SUBSET Nat /\ failedReadIndex \subseteq K \X Nat
  BY DEF IndexTypeOK
<1>6. \/ FillIndexBatchQueue(rest, queue)
      \/ waitingReadIndex' = rest /\ indexBatchQueue' = queue /\ failedReadIndex' = failedReadIndex
  BY DEF Update
<1> HIDE DEF K, rest, queue
<1>7. /\ IsMap(waitingReadIndex', K \X Nat, Nat)
      /\ indexBatchQueue' \subseteq Nat /\ failedReadIndex' \subseteq K \X Nat
  <2>1. CASE FillIndexBatchQueue(rest, queue)
    BY <1>3, <1>4, <1>5, <2>1, FillTypes
  <2>2. CASE waitingReadIndex' = rest /\ indexBatchQueue' = queue /\ failedReadIndex' = failedReadIndex
    BY <1>4, <1>5, <2>2
  <2> QED
    BY <1>6, <2>1, <2>2
<1> QED
  BY <1>2, <1>7 DEF IndexTypeOK, K

LEMMA UpdateFacts ==
  ASSUME IndexTypeOK, FactTypeOK, NEW m \in ParamValue, NEW after, Update(m, after)
  PROVE  FactTypeOK'
<1> DEFINE p == <<m.comp, m.name>>
<1>1. m.name \in Name /\ m.value \in Value
  BY DEF ParamValue
<1>2. /\ facts' = With(facts, p, m.value)
      /\ waitingReadName' = Without(waitingReadName, {p})
      /\ waitingWriteName' = Without(waitingWriteName, {p})
  BY DEF Update
<1>3. DOMAIN paramCount' = DOMAIN paramCount \cup {m.comp}
  BY UpdateIndexes
<1>4. IsMap(facts', (DOMAIN paramCount') \X Name, Value)
  BY <1>1, <1>2, <1>3 DEF FactTypeOK, IsMap, With
<1>5. DOMAIN facts \subseteq DOMAIN facts'
  BY <1>2 DEF With
<1> QED
  BY <1>2, <1>4, <1>5 DEF FactTypeOK, IsMap, Without

LEMMA UpdateCacheTypes ==
  ASSUME IsMap(cache, Component, CacheMap), FactTypeOK', NEW c \in Component, UpdateCache(c)
  PROVE  IsMap(cache', Component, CacheMap)
<1>1. FactsOf(c) \in CacheMap
  <2> DEFINE known == {p[2] : p \in {q \in DOMAIN facts' : q[1] = c}}
  <2>1. \A p \in DOMAIN facts' : p = <<p[1], p[2]>> /\ p[2] \in Name /\ facts'[p] \in Value
    BY DEF FactTypeOK, IsMap
  <2>2. known \in SUBSET Name /\ \A n \in known : facts'[<<c, n>>] \in Value
    BY <2>1
  <2>3. FactsOf(c) = [n \in known |-> facts'[<<c, n>>]]
    BY DEF FactsOf
  <2> HIDE DEF known
  <2>4. FactsOf(c) \in [known -> Value]
    BY <2>2, <2>3
  <2> QED
    BY <2>2, <2>4 DEF CacheMap
<1>2. cache' = cache \/ cache' = With(cache, c, FactsOf(c))
  BY DEF UpdateCache
<1>3. IsMap(With(cache, c, FactsOf(c)), Component \cup {c}, CacheMap)
  BY <1>1, WithTypes
<1> QED
  BY <1>2, <1>3 DEF IsMap

\* A value is taken over, from the vehicle or from the cache.
LEMMA UpdateKeeps ==
  ASSUME ParameterTypeOK, NEW m \in ParamValue, NEW after, Update(m, after)
  PROVE  /\ IndexTypeOK' /\ FactTypeOK' /\ IsMap(cache', Component, CacheMap) /\ PendingIsTimed'
         /\ initialRequestTimer' \in BOOLEAN => FlagTypeOK'
<1>1. IndexTypeOK' /\ FactTypeOK'
  BY UpdateIndexes, UpdateFacts DEF ParameterTypeOK
<1>2. IsMap(cache', Component, CacheMap)
  <2>1. m.comp \in Component /\ UpdateCache(m.comp)
    BY DEF ParamValue, Update
  <2> QED
    BY <1>1, <2>1, UpdateCacheTypes DEF ParameterTypeOK, CacheTypeOK
<1>3. /\ CheckInitialLoadComplete({})
      /\ waitingParamTimer' = (SomethingWaits \/ ~Loaded(DefaultComponent))
  BY DEF Update
<1>4. /\ parametersReady' \in BOOLEAN /\ missingParameters' \in BOOLEAN
      /\ told' \subseteq Messages /\ (~parametersReady' => ~LoadIsComplete)
  BY <1>3, CheckOutcome DEF ParameterTypeOK
<1>5. PendingIsTimed'
  BY <1>3, <1>4 DEF PendingIsTimed, SomethingWaits, LoadIsComplete
<1>6. initialRequestTimer' \in BOOLEAN => FlagTypeOK'
  <2>1. waitingParamTimer' \in BOOLEAN
    BY <1>3
  <2>2. readsWaited' \in BOOLEAN
        /\ UNCHANGED <<initialRequestRetries, waitingForDefault, indexBatchQueueActive>>
    BY DEF Update
  <2> QED
    BY <1>4, <2>1, <2>2 DEF FlagTypeOK, ParameterTypeOK, Messages
<1> QED
  BY <1>1, <1>2, <1>5, <1>6

\* What _tryCacheHashLoad reads is what a vehicle could have sent.
LEMMA CachedTypes ==
  ASSUME ParameterTypeOK, NEW c \in DOMAIN cache
  PROVE  CachedValues(c) \in Seq(ParamValue)
<1> DEFINE D == DOMAIN cache[c]
           S == {c} \X D
           order == Ordered(S)
<1>1. c \in Component /\ cache[c] \in CacheMap
  BY DEF ParameterTypeOK, CacheTypeOK, IsMap
<1>2. D \in SUBSET Name /\ \A n \in D : cache[c][n] \in Value
  BY <1>1 DEF CacheMap
<1>3. IsFiniteSet(S)
  <2>1. IsFiniteSet(D)
    BY <1>2, NameAssumption, FS_Subset
  <2>2. IsFiniteSet({c})
    BY FS_Singleton
  <2> QED
    BY <2>1, <2>2, FS_Product
<1>4. S \in SUBSET Pairs
  BY <1>1, <1>2, ComponentAssumption, NameAssumption DEF Pairs
<1>5. order \in Seq(S)
  <2> HIDE DEF S
  <2> QED
    BY <1>3, <1>4, OrderedLists
<1>6. \A i \in DOMAIN order : order[i][2] \in D /\ i - 1 \in Nat
  <2> HIDE DEF D
  <2>1. \A i \in DOMAIN order : order[i] \in S /\ i \in 1 .. Len(order)
    <3> HIDE DEF S, order
    <3> QED
      BY <1>5
  <2>2. \A s \in S : s[2] \in D
    OBVIOUS
  <2> HIDE DEF S
  <2>3. Len(order) \in Nat
    BY <1>5
  <2> HIDE DEF order
  <2> QED
    BY <2>1, <2>2, <2>3
<1>7. CachedValues(c) = [i \in DOMAIN order |->
         [comp |-> c, name |-> order[i][2], count |-> Len(order), index |-> i - 1,
          value |-> cache[c][order[i][2]]]]
  BY DEF CachedValues
<1> HIDE DEF order, S, D
<1>8. Len(order) \in Nat /\ DOMAIN order = 1 .. Len(order)
  BY <1>5
<1>9. ASSUME NEW i \in DOMAIN order
      PROVE  [comp |-> c, name |-> order[i][2], count |-> Len(order), index |-> i - 1,
              value |-> cache[c][order[i][2]]] \in ParamValue
  BY <1>1, <1>2, <1>6, <1>8 DEF ParamValue
<1> QED
  BY <1>7, <1>8, <1>9

LEMMA ReceivePreserves ==
  ASSUME ParameterTypeOK, PendingIsTimed, NEW m, Receive(m)
  PROVE  ParameterTypeOK' /\ PendingIsTimed'
<1>1. CASE m \in ParamValue
  <2>1. CASE ParameterUpdate(m)
    <3>1. Update(m, NoRequests) /\ initialRequestTimer' = FALSE /\ fromCache' = fromCache
      BY <2>1 DEF ParameterUpdate
    <3>2. /\ IndexTypeOK' /\ FactTypeOK' /\ IsMap(cache', Component, CacheMap)
          /\ PendingIsTimed' /\ (initialRequestTimer' \in BOOLEAN => FlagTypeOK')
      BY <1>1, <3>1, UpdateKeeps
    <3>3. fromCache' \in Seq(ParamValue)
      BY <3>1 DEF ParameterTypeOK, CacheTypeOK
    <3> QED
      BY <3>1, <3>2, <3>3 DEF ParameterTypeOK, CacheTypeOK
  <2>2. CASE ParameterDisregarded(m)
    BY <2>2 DEF ParameterDisregarded, vars, managerVars, timers, indexes, names, load, cacheVars,
       ParameterTypeOK, FlagTypeOK, IndexTypeOK, FactTypeOK, CacheTypeOK, IsMap, PendingIsTimed,
       Loaded
  <2> QED
    BY <1>1, <2>1, <2>2 DEF Receive
<1>2. CASE m \notin ParamValue
  <2>1. HashReceived(m)
    BY <1>2 DEF Receive
  <2>2. /\ initialRequestTimer' = FALSE
        /\ UNCHANGED <<initialRequestRetries, waitingParamTimer, waitingForDefault, indexes,
                       indexBatchQueueActive, names, readsWaited, facts, load, cache, told>>
    BY <2>1 DEF HashReceived
  <2>3. FlagTypeOK' /\ IndexTypeOK' /\ FactTypeOK' /\ IsMap(cache', Component, CacheMap)
    BY <2>2 DEF ParameterTypeOK, FlagTypeOK, IndexTypeOK, FactTypeOK, CacheTypeOK, IsMap,
       indexes, names, load
  <2>4. PendingIsTimed'
    BY <2>2 DEF PendingIsTimed, Loaded, names, load
  <2>5. fromCache' \in Seq(ParamValue)
    BY <2>1, CachedTypes DEF HashReceived, ParameterTypeOK, CacheTypeOK, CacheMatches
  <2> QED
    BY <2>3, <2>4, <2>5 DEF ParameterTypeOK, CacheTypeOK
<1> QED
  BY <1>1, <1>2

LEMMA LoadFromCachePreserves ==
  ASSUME ParameterTypeOK, LoadFromCache
  PROVE  ParameterTypeOK' /\ PendingIsTimed'
<1>1. /\ fromCache \in Seq(ParamValue) /\ fromCache /= <<>>
      /\ fromCache' = Tail(fromCache) /\ initialRequestTimer' = initialRequestTimer
  BY DEF LoadFromCache, ParameterTypeOK, CacheTypeOK
<1>2. Head(fromCache) \in ParamValue /\ fromCache' \in Seq(ParamValue)
  BY <1>1
<1>3. PICK after : Update(Head(fromCache), after)
  BY DEF LoadFromCache
<1>4. initialRequestTimer' \in BOOLEAN
  BY <1>1 DEF ParameterTypeOK, FlagTypeOK
<1> QED
  BY <1>2, <1>3, <1>4, UpdateKeeps DEF ParameterTypeOK, CacheTypeOK
-----------------------------------------------------------------------------
(* What callers ask for *)

LEMMA ValueUpdatedPreserves ==
  ASSUME ParameterTypeOK, NEW p, NEW v \in Value, ValueUpdated(p, v)
  PROVE  ParameterTypeOK' /\ PendingIsTimed'
<1>1. /\ p \in DOMAIN facts /\ waitingParamTimer' = TRUE
      /\ facts' = [facts EXCEPT ![p] = v] /\ waitingWriteName' = With(waitingWriteName, p, 0)
      /\ UNCHANGED <<initialRequestTimer, initialRequestRetries, waitingForDefault, indexes,
                     indexBatchQueueActive, waitingReadName, readsWaited, load, cacheVars, told>>
  BY DEF ValueUpdated
<1>2. FlagTypeOK' /\ IndexTypeOK' /\ CacheTypeOK'
  BY <1>1 DEF ParameterTypeOK, FlagTypeOK, IndexTypeOK, CacheTypeOK, IsMap, indexes, load, cacheVars
<1>3. FactTypeOK'
  <2>1. 0 \in 0 .. MaxReadWriteRetry
    BY RetryAssumption
  <2>2. paramCount' = paramCount
    BY <1>1 DEF indexes
  <2>3. IsMap(facts', (DOMAIN paramCount') \X Name, Value) /\ DOMAIN facts' = DOMAIN facts
    BY <1>1, <2>2 DEF ParameterTypeOK, FactTypeOK, IsMap
  <2> QED
    BY <1>1, <2>1, <2>3 DEF ParameterTypeOK, FactTypeOK, IsMap, With
<1>4. PendingIsTimed'
  BY <1>1 DEF PendingIsTimed
<1> QED
  BY <1>2, <1>3, <1>4 DEF ParameterTypeOK

LEMMA RefreshParameterPreserves ==
  ASSUME ParameterTypeOK, NEW p, RefreshParameter(p)
  PROVE  ParameterTypeOK' /\ PendingIsTimed'
<1>1. /\ p \in DOMAIN facts /\ waitingParamTimer' = TRUE
      /\ waitingReadName' = With(waitingReadName, p, 0)
      /\ UNCHANGED <<initialRequestTimer, initialRequestRetries, waitingForDefault, indexes,
                     indexBatchQueueActive, waitingWriteName, readsWaited, facts, load, cacheVars,
                     told>>
  BY DEF RefreshParameter
<1>2. FlagTypeOK' /\ IndexTypeOK' /\ CacheTypeOK'
  BY <1>1 DEF ParameterTypeOK, FlagTypeOK, IndexTypeOK, CacheTypeOK, IsMap, indexes, load, cacheVars
<1>3. FactTypeOK'
  <2>1. 0 \in 0 .. MaxReadWriteRetry
    BY RetryAssumption
  <2> QED
    BY <1>1, <2>1 DEF ParameterTypeOK, FactTypeOK, IsMap, With, indexes
<1>4. PendingIsTimed'
  BY <1>1 DEF PendingIsTimed
<1> QED
  BY <1>2, <1>3, <1>4 DEF ParameterTypeOK

LEMMA RequestAllTypes ==
  ASSUME IndexTypeOK, NEW c, RequestAll(c)
  PROVE  IsMap(waitingReadIndex', (DOMAIN paramCount) \X Nat, Nat)
<1> DEFINE asked == {k \in DOMAIN paramCount : c \in {All, k}}
           again == UNION {Indices(k, paramCount[k]) : k \in asked}
<1>1. again \subseteq (DOMAIN paramCount) \X Nat
  BY DEF Indices, IndexTypeOK, IsMap
<1>2. waitingReadIndex' = [p \in DOMAIN waitingReadIndex \cup again |->
                             IF p \in again THEN 0 ELSE waitingReadIndex[p]]
  BY DEF RequestAll
<1> HIDE DEF again
<1> QED
  BY <1>1, <1>2 DEF IndexTypeOK, IsMap

LEMMA RefreshAllParametersPreserves ==
  ASSUME ParameterTypeOK, PendingIsTimed, NEW c, RefreshAllParameters(c)
  PROVE  ParameterTypeOK' /\ PendingIsTimed'
<1>1. /\ initialRequestTimer' = (initialRequestTimer \/ ~parametersReady)
      /\ UNCHANGED <<initialRequestRetries, waitingParamTimer, waitingForDefault, paramCount,
                     indexBatchQueue, failedReadIndex, indexBatchQueueActive, names, readsWaited,
                     facts, load, cacheVars, told>>
  BY DEF RefreshAllParameters
<1>2. FlagTypeOK' /\ FactTypeOK' /\ CacheTypeOK'
  BY <1>1 DEF ParameterTypeOK, FlagTypeOK, FactTypeOK, CacheTypeOK, IsMap, names, load, cacheVars
<1>3. IsMap(waitingReadIndex', (DOMAIN paramCount) \X Nat, Nat)
  BY RequestAllTypes DEF ParameterTypeOK, RefreshAllParameters
<1>4. IndexTypeOK'
  BY <1>1, <1>3 DEF ParameterTypeOK, IndexTypeOK, IsMap
<1>5. PendingIsTimed'
  BY <1>1 DEF PendingIsTimed, Loaded, names, load
<1> QED
  BY <1>2, <1>4, <1>5 DEF ParameterTypeOK
-----------------------------------------------------------------------------
(* The two timers *)

LEMMA InitialRequestTimeoutPreserves ==
  ASSUME ParameterTypeOK, PendingIsTimed, InitialRequestTimeout
  PROVE  ParameterTypeOK' /\ PendingIsTimed'
<1>1. UNCHANGED <<waitingParamTimer, waitingForDefault, paramCount, indexBatchQueue,
                  failedReadIndex, indexBatchQueueActive, names, readsWaited, facts, load,
                  cacheVars>>
  BY DEF InitialRequestTimeout
<1>2. FactTypeOK' /\ CacheTypeOK'
  BY <1>1 DEF ParameterTypeOK, FactTypeOK, CacheTypeOK, IsMap, names, cacheVars
<1>3. IsMap(waitingReadIndex', (DOMAIN paramCount) \X Nat, Nat)
  <2>1. RequestAll(All) \/ waitingReadIndex' = waitingReadIndex
    BY DEF InitialRequestTimeout
  <2> QED
    BY <2>1, RequestAllTypes DEF ParameterTypeOK, IndexTypeOK
<1>4. IndexTypeOK'
  BY <1>1, <1>3 DEF ParameterTypeOK, IndexTypeOK, IsMap
<1>5. /\ initialRequestTimer' \in BOOLEAN /\ told' \subseteq Messages
      /\ initialRequestRetries' \in 0 .. MaxRequestRetry + 1
  <2>1. /\ initialRequestTimer \in BOOLEAN /\ told \subseteq Messages
        /\ initialRequestRetries \in 0 .. MaxRequestRetry + 1
    BY DEF ParameterTypeOK, FlagTypeOK, Messages
  <2>2. CASE initialRequestRetries < MaxRequestRetry
    <3>1. /\ initialRequestRetries' = initialRequestRetries + 1
          /\ UNCHANGED <<initialRequestTimer, told>>
      BY <2>2 DEF InitialRequestTimeout
    <3> QED
      BY <2>1, <2>2, <3>1, RetryAssumption
  <2>3. CASE ~(initialRequestRetries < MaxRequestRetry)
    <3>1. /\ initialRequestRetries' = MaxRequestRetry + 1 /\ initialRequestTimer' = FALSE
          /\ told' = told \cup (IF GenericFirmware THEN {} ELSE {"NoResponse"})
      BY <2>3 DEF InitialRequestTimeout
    <3>2. told' \subseteq Messages
      BY <2>1, <3>1 DEF Messages
    <3>3. MaxRequestRetry + 1 \in 0 .. MaxRequestRetry + 1 /\ FALSE \in BOOLEAN
      BY RetryAssumption
    <3> QED
      BY <3>1, <3>2, <3>3
  <2> QED
    BY <2>2, <2>3
<1>6. FlagTypeOK'
  BY <1>1, <1>5 DEF ParameterTypeOK, FlagTypeOK, load, Messages
<1>7. PendingIsTimed'
  BY <1>1 DEF PendingIsTimed, Loaded, names, load
<1> QED
  BY <1>2, <1>4, <1>6, <1>7 DEF ParameterTypeOK

LEMMA AfterRetryTypes ==
  ASSUME NEW waiting, NEW keys, IsMap(waiting, keys, 0 .. MaxReadWriteRetry)
  PROVE  IsMap(AfterRetry(waiting), keys, 0 .. MaxReadWriteRetry)
<1>1. \A p \in Resent(waiting) : p \in DOMAIN waiting /\ waiting[p] < MaxReadWriteRetry
  BY DEF Resent, InBatch
<1>2. \A p \in Resent(waiting) : waiting[p] + 1 \in 0 .. MaxReadWriteRetry
  BY <1>1, RetryAssumption DEF IsMap
<1> QED
  BY <1>2 DEF IsMap, AfterRetry

\* The branches of the timeout after the indices.
LEMMA TimeoutOutcome ==
  ASSUME ParameterTypeOK, WaitingParamTimeout
  PROVE  /\ IsMap(waitingReadName', DOMAIN facts, 0 .. MaxReadWriteRetry)
         /\ IsMap(waitingWriteName', DOMAIN facts, 0 .. MaxReadWriteRetry)
         /\ waitingForDefault' \in BOOLEAN /\ parametersReady' \in BOOLEAN
         /\ missingParameters' \in BOOLEAN /\ told' \subseteq Messages
         /\ \/ waitingParamTimer' = TRUE
            \/ waitingParamTimer' = FALSE /\ NothingToRetry
<1>1. /\ IsMap(waitingReadName, DOMAIN facts, 0 .. MaxReadWriteRetry)
      /\ IsMap(waitingWriteName, DOMAIN facts, 0 .. MaxReadWriteRetry)
      /\ FlagTypeOK /\ {} \subseteq Messages
  BY DEF ParameterTypeOK, FactTypeOK
<1>2. CASE RequestIndices /\ UNCHANGED facts
  BY <1>1, <1>2, CheckOutcome DEF RequestIndices, names
<1>3. CASE AwaitDefaultComponent /\ UNCHANGED facts
  BY <1>1, <1>3 DEF AwaitDefaultComponent, names, load, FlagTypeOK, Messages
<1>4. CASE waitingForDefault' = FALSE /\ RetryWrites /\ UNCHANGED facts
  <2>1. Failed(waitingWriteName, "WriteFailed") \subseteq Messages
    BY DEF Failed, Messages
  <2>2. /\ parametersReady' \in BOOLEAN /\ missingParameters' \in BOOLEAN /\ told' \subseteq Messages
    BY <1>1, <1>4, <2>1, CheckOutcome DEF RetryWrites
  <2> QED
    BY <1>1, <1>4, <2>2, AfterRetryTypes DEF RetryWrites
<1>5. CASE waitingForDefault' = FALSE /\ RetryReads /\ UNCHANGED facts
  <2>1. Failed(waitingReadName, "ReadFailed") \subseteq Messages
    BY DEF Failed, Messages
  <2>2. /\ parametersReady' \in BOOLEAN /\ missingParameters' \in BOOLEAN /\ told' \subseteq Messages
    BY <1>1, <1>5, <2>1, CheckOutcome DEF RetryReads
  <2> QED
    BY <1>1, <1>5, <2>2, AfterRetryTypes DEF RetryReads
<1>6. CASE waitingForDefault' = FALSE /\ NothingToRetry /\ UNCHANGED facts
  BY <1>1, <1>6, CheckOutcome DEF NothingToRetry, names
<1> QED
  BY <1>2, <1>3, <1>4, <1>5, <1>6 DEF WaitingParamTimeout

\* The one branch that leaves the timer off has nothing left to ask for.
LEMMA NothingIsForgotten ==
  ASSUME ParameterTypeOK, WaitingParamTimeout, NothingToRetry, waitingParamTimer' = FALSE
  PROVE  PendingIsTimed'
<1>1. waitingReadName' = None /\ waitingWriteName' = None
  BY DEF NothingToRetry, names
<1>2. CheckInitialLoadComplete({}) /\ {} \subseteq Messages
  BY DEF NothingToRetry
<1>3. ~parametersReady' => ~LoadIsComplete
  BY <1>2, CheckOutcome DEF ParameterTypeOK
<1>4. Asked(waitingReadIndex, {}) = {} \/ waitingParamTimer' = TRUE
  BY DEF WaitingParamTimeout, RequestIndices
<1>5. IsMap(waitingReadIndex, Component \X Nat, Nat)
  BY DEF ParameterTypeOK, IndexTypeOK, IsMap
<1>6. GivenUp(waitingReadIndex, {}) = DOMAIN waitingReadIndex
  BY <1>4, <1>5, AskedOrGivenUp
<1>7. waitingReadIndex' = None
  <2>1. waitingReadIndex' = Retried(waitingReadIndex, Asked(waitingReadIndex, {}),
                                    GivenUp(waitingReadIndex, {}))
    BY DEF WaitingParamTimeout, FillIndexBatchQueue
  <2> QED
    BY <1>6, <2>1 DEF Retried, None
<1> QED
  BY <1>1, <1>3, <1>7 DEF PendingIsTimed, LoadIsComplete

LEMMA WaitingParamTimeoutPreserves ==
  ASSUME ParameterTypeOK, WaitingParamTimeout
  PROVE  ParameterTypeOK' /\ PendingIsTimed'
<1>1. /\ indexBatchQueueActive' = TRUE
      /\ FillIndexBatchQueue(waitingReadIndex, {})
      /\ UNCHANGED <<initialRequestTimer, initialRequestRetries, paramCount, readsWaited,
                     facts, cacheVars>>
  BY DEF WaitingParamTimeout
<1>2. IndexTypeOK'
  <2>1. /\ DOMAIN paramCount \in SUBSET Component
        /\ IsMap(waitingReadIndex, (DOMAIN paramCount) \X Nat, Nat)
        /\ failedReadIndex \subseteq (DOMAIN paramCount) \X Nat
    BY DEF ParameterTypeOK, IndexTypeOK, IsMap
  <2>2. /\ IsMap(waitingReadIndex', (DOMAIN paramCount) \X Nat, Nat)
        /\ indexBatchQueue' \subseteq Nat /\ failedReadIndex' \subseteq (DOMAIN paramCount) \X Nat
    BY <1>1, <2>1, FillTypes
  <2> QED
    BY <1>1, <2>2 DEF ParameterTypeOK, IndexTypeOK, IsMap
<1>3. FactTypeOK'
  BY <1>1, TimeoutOutcome DEF ParameterTypeOK, FactTypeOK, IsMap
<1>4. CacheTypeOK'
  BY <1>1 DEF ParameterTypeOK, CacheTypeOK, IsMap, cacheVars
<1>5. FlagTypeOK'
  BY <1>1, TimeoutOutcome DEF ParameterTypeOK, FlagTypeOK, Messages
<1>6. PendingIsTimed'
  <2>1. CASE waitingParamTimer' = TRUE
    BY <2>1 DEF PendingIsTimed
  <2> QED
    BY <2>1, TimeoutOutcome, NothingIsForgotten
<1> QED
  BY <1>2, <1>3, <1>4, <1>5, <1>6 DEF ParameterTypeOK
-----------------------------------------------------------------------------
(* The theorems *)

LEMMA InitOK ==
  ASSUME Init
  PROVE  ParameterTypeOK /\ PendingIsTimed
<1>1. IsMap(cache, Component, CacheMap)
  BY InputAssumption DEF Init, IsMap
<1>2. fromCache \in Seq(ParamValue)
  BY DEF Init
<1>3. FlagTypeOK
  <2>1. 0 \in 0 .. MaxRequestRetry + 1
    BY RetryAssumption
  <2> QED
    BY <2>1 DEF Init, FlagTypeOK
<1>4. IndexTypeOK /\ FactTypeOK
  BY DEF Init, IndexTypeOK, FactTypeOK, IsMap, None
<1>5. PendingIsTimed
  BY DEF Init, PendingIsTimed, Loaded, None
<1> QED
  BY <1>1, <1>2, <1>3, <1>4, <1>5 DEF ParameterTypeOK, CacheTypeOK

LEMMA NextPreserves ==
  ASSUME ParameterTypeOK, PendingIsTimed, [Next]_vars
  PROVE  ParameterTypeOK' /\ PendingIsTimed'
<1>1. CASE \E m \in VehicleInput : Receive(m)
  BY <1>1, ReceivePreserves
<1>2. CASE LoadFromCache
  BY <1>2, LoadFromCachePreserves
<1>3. CASE \E p \in ParamKey, v \in Value : ValueUpdated(p, v)
  BY <1>3, ValueUpdatedPreserves
<1>4. CASE \E p \in ParamKey : RefreshParameter(p)
  BY <1>4, RefreshParameterPreserves
<1>5. CASE \E c \in Component \cup {All} : RefreshAllParameters(c)
  BY <1>5, RefreshAllParametersPreserves
<1>6. CASE InitialRequestTimeout
  BY <1>6, InitialRequestTimeoutPreserves
<1>7. CASE WaitingParamTimeout
  BY <1>7, WaitingParamTimeoutPreserves
<1>8. CASE UNCHANGED vars
  BY <1>8 DEF vars, managerVars, timers, indexes, names, load, cacheVars, ParameterTypeOK,
     FlagTypeOK, IndexTypeOK, FactTypeOK, CacheTypeOK, IsMap, PendingIsTimed, Loaded
<1> QED
  BY <1>1, <1>2, <1>3, <1>4, <1>5, <1>6, <1>7, <1>8 DEF Next

\* In every state of a manager both hold, for any vehicle and any caches.
THEOREM Invariance == Spec => [](ParameterTypeOK /\ PendingIsTimed)
<1>1. Init => ParameterTypeOK /\ PendingIsTimed
  BY InitOK
<1>2. ParameterTypeOK /\ PendingIsTimed /\ [Next]_vars => (ParameterTypeOK /\ PendingIsTimed)'
  BY NextPreserves
<1> QED
  BY <1>1, <1>2, PTL DEF Spec

\* What is waited for belongs to components that were seen, whatever the
\* vehicle sends (the maps of ParameterManager.h, by component).
THEOREM TypeCorrect == Spec => []ParameterTypeOK
  BY Invariance, PTL

\* A read, a write or a load that waits is timed, whatever the vehicle sends
\* (_parameterUpdate and _waitingParamTimeout, which stop the timer).
THEOREM PendingTimed == Spec => []PendingIsTimed
  BY Invariance, PTL
-----------------------------------------------------------------------------
(* What is true of the vehicle, of what is under way and of what was learned *)

\* The indices of the vehicle's parameters, by component, as its values have them
VehicleIndices ==
  UNION {Indices(c, Cardinality(MockLink!Names(c))) : c \in DOMAIN vehicleParams}

\* A value under way may be old, but its name, count and index are the vehicle's.
TrueValues == {m \in ParamValue :
  /\ m.comp \in DOMAIN vehicleParams /\ m.name \in MockLink!Names(m.comp)
  /\ m.count = Cardinality(MockLink!Names(m.comp))
  /\ m.index = MockLink!IndexOf(<<m.comp, m.name>>)}

TrueHashes == {m \in HashCheck :
  /\ regime.hash /\ m.comp = DefaultComponent
  /\ DOMAIN m.hash = MockLink!Names(DefaultComponent)
                       \ VolatileOf(vehicleParams[DefaultComponent])}

Requests ==
  {RequestList(c) : c \in Component \cup {All}} \cup {ReturnHash(c) : c \in Component}
    \cup {ReadIndex(p) : p \in VehicleIndices}
    \cup {ReadName(p) : p \in MockLink!Keys}
    \cup {Write(p, v) : p \in MockLink!Keys, v \in Value}

VehicleOK ==
  /\ regime \in Regimes /\ sendsHash = regime.hash
  /\ IsMap(vehicleParams, Component, CacheMap) /\ DefaultComponent \in DOMAIN vehicleParams
  /\ sending \in Seq(MockLink!Keys)
  /\ toGcs \in Seq(TrueValues \cup TrueHashes)
  /\ toVehicle \in Seq(Requests)

\* What the ground station has learned is so.
LearnedOK ==
  /\ \A c \in DOMAIN paramCount :
       c \in DOMAIN vehicleParams /\ paramCount[c] = Cardinality(MockLink!Names(c))
  /\ DOMAIN waitingReadIndex \subseteq VehicleIndices
  /\ DOMAIN facts \subseteq MockLink!Keys

\* What is loaded from the cache is so; as long as it may be loaded, the cache
\* knows the volatile parameters, which the hash leaves out.
CacheKnows ==
  /\ fromCache \in Seq(TrueValues)
  /\ regime.hash /\ ~parametersReady /\ DefaultComponent \in DOMAIN cache =>
       VolatileOf(cache[DefaultComponent]) = VolatileOf(vehicleParams[DefaultComponent])
-----------------------------------------------------------------------------
(* Names and indices *)

\* The vehicle counts as the ground station does.
LEMMA SameCount ==
  ASSUME NEW S
  PROVE  MockLink!Cardinality(S) = Cardinality(S)
BY DEF MockLink!Cardinality, Cardinality

LEMMA RankOfName ==
  ASSUME NEW c \in Component, NEW T \in SUBSET Name
  PROVE  /\ {c} \X T \in SUBSET Pairs /\ IsFiniteSet({c} \X T) /\ IsFiniteSet(T)
         /\ Cardinality({c} \X T) = Cardinality(T) /\ Cardinality(T) \in Nat
         /\ \A n \in T : Rank(<<c, n>>, {c} \X T) = Cardinality({k \in T : k < n})
<1>1. \A U \in SUBSET T : IsFiniteSet(U) /\ Cardinality(U) \in Nat
  BY NameAssumption, FS_Subset, FS_CardinalityType
<1>2. IsFiniteSet({c}) /\ Cardinality({c}) = 1
  BY FS_Singleton
<1>3. \A U \in SUBSET T : IsFiniteSet({c} \X U) /\ Cardinality({c} \X U) = Cardinality(U)
  <2> SUFFICES ASSUME NEW U \in SUBSET T
               PROVE  IsFiniteSet({c} \X U) /\ Cardinality({c} \X U) = Cardinality(U)
    OBVIOUS
  <2>1. IsFiniteSet({c} \X U) /\ Cardinality({c} \X U) = Cardinality({c}) * Cardinality(U)
    BY <1>1, <1>2, FS_Product
  <2> QED
    BY <1>1, <1>2, <2>1
<1>4. ASSUME NEW n \in T
      PROVE  Rank(<<c, n>>, {c} \X T) = Cardinality({k \in T : k < n})
  <2> DEFINE below == {k \in T : k < n}
  <2>1. {q \in {c} \X T : Before(q, <<c, n>>)} = {c} \X below
    <3>1. c \in Nat
      BY ComponentAssumption
    <3> QED
      BY <3>1 DEF Before
  <2>2. below \in SUBSET T
    OBVIOUS
  <2> HIDE DEF below
  <2>3. Cardinality({c} \X below) = Cardinality(below)
    BY <1>3, <2>2
  <2> QED
    BY <2>1, <2>3 DEF Rank, below
<1>5. {c} \X T \in SUBSET Pairs
  BY ComponentAssumption, NameAssumption DEF Pairs
<1> QED
  BY <1>1, <1>3, <1>4, <1>5

\* The names of a component are numbered from 0 on.
LEMMA NamesAreNumbered ==
  ASSUME IsMap(vehicleParams, Component, CacheMap), NEW c \in DOMAIN vehicleParams
  PROVE  /\ c \in Component /\ MockLink!Names(c) \in SUBSET Name
         /\ Cardinality(MockLink!Names(c)) \in Nat
         /\ \A n \in MockLink!Names(c) :
              MockLink!IndexOf(<<c, n>>) \in 0 .. Cardinality(MockLink!Names(c)) - 1
         /\ \A n, k \in MockLink!Names(c) :
              MockLink!IndexOf(<<c, n>>) = MockLink!IndexOf(<<c, k>>) => n = k
         /\ \A i \in 0 .. Cardinality(MockLink!Names(c)) - 1 :
              \E n \in MockLink!Names(c) : MockLink!IndexOf(<<c, n>>) = i
<1> DEFINE T == MockLink!Names(c)
           S == {c} \X T
<1>1. c \in Component /\ T \in SUBSET Name
  BY DEF IsMap, CacheMap, MockLink!Names
<1>2. ASSUME NEW n
      PROVE  MockLink!IndexOf(<<c, n>>) = Cardinality({k \in T : k < n})
  BY SameCount DEF MockLink!IndexOf
<1> HIDE DEF T
<1>3. /\ S \in SUBSET Pairs /\ IsFiniteSet(S) /\ Cardinality(S) = Cardinality(T)
      /\ \A n \in T : Rank(<<c, n>>, S) = MockLink!IndexOf(<<c, n>>)
  <2>1. /\ S \in SUBSET Pairs /\ IsFiniteSet(S) /\ Cardinality(S) = Cardinality(T)
        /\ \A n \in T : Rank(<<c, n>>, S) = Cardinality({k \in T : k < n})
    BY <1>1, RankOfName
  <2> QED
    BY <1>2, <2>1
<1>4. /\ \A p \in S : p = <<c, p[2]>> /\ p[2] \in T
      /\ \A n \in T : <<c, n>> \in S
  OBVIOUS
<1> HIDE DEF S
<1>5. /\ Cardinality(S) \in Nat
      /\ \A p \in S : Rank(p, S) \in 0 .. Cardinality(S) - 1
      /\ \A p, q \in S : Rank(p, S) = Rank(q, S) => p = q
      /\ \A i \in 0 .. Cardinality(S) - 1 : \E p \in S : Rank(p, S) = i
  BY <1>3, Ranks
<1>6. \A n \in T : MockLink!IndexOf(<<c, n>>) \in 0 .. Cardinality(T) - 1
  BY <1>3, <1>4, <1>5
<1>7. ASSUME NEW n \in T, NEW k \in T, MockLink!IndexOf(<<c, n>>) = MockLink!IndexOf(<<c, k>>)
      PROVE  n = k
  <2>1. <<c, n>> = <<c, k>>
    BY <1>3, <1>4, <1>5, <1>7
  <2> QED
    BY <2>1
<1>8. ASSUME NEW i \in 0 .. Cardinality(T) - 1
      PROVE  \E n \in T : MockLink!IndexOf(<<c, n>>) = i
  <2>1. PICK p \in S : Rank(p, S) = i
    BY <1>3, <1>5
  <2>2. p = <<c, p[2]>> /\ p[2] \in T
    BY <1>4
  <2> QED
    BY <1>3, <2>1, <2>2
<1> QED
  BY <1>1, <1>3, <1>5, <1>6, <1>7, <1>8 DEF T

LEMMA IndicesOfVehicle ==
  ASSUME IsMap(vehicleParams, Component, CacheMap)
  PROVE  /\ VehicleIndices \in SUBSET Pairs /\ IsFiniteSet(VehicleIndices)
         /\ \A p \in VehicleIndices : /\ p = <<p[1], p[2]>> /\ p[1] \in DOMAIN vehicleParams
                                      /\ p[2] \in 0 .. Cardinality(MockLink!Names(p[1])) - 1
         /\ \A c \in DOMAIN vehicleParams :
              Indices(c, Cardinality(MockLink!Names(c))) \subseteq VehicleIndices
<1> DEFINE f == [c \in DOMAIN vehicleParams |-> Indices(c, Cardinality(MockLink!Names(c)))]
           all == {Indices(c, Cardinality(MockLink!Names(c))) : c \in DOMAIN vehicleParams}
<1>1. DOMAIN vehicleParams \in SUBSET Component
  BY DEF IsMap
<1>2. \A c \in DOMAIN vehicleParams : c \in Nat /\ Cardinality(MockLink!Names(c)) \in Nat
  BY <1>1, NamesAreNumbered, ComponentAssumption
<1>3. IsFiniteSet(all)
  <2>1. f \in Surjection(DOMAIN vehicleParams, all)
    BY DEF Surjection
  <2>2. IsFiniteSet(DOMAIN vehicleParams)
    BY <1>1, ComponentAssumption, FS_Subset
  <2> HIDE DEF f, all
  <2> QED
    BY <2>1, <2>2, FS_Surjection
<1>4. \A T \in all : IsFiniteSet(T)
  <2> SUFFICES ASSUME NEW c \in DOMAIN vehicleParams
               PROVE  IsFiniteSet(Indices(c, Cardinality(MockLink!Names(c))))
    OBVIOUS
  <2> DEFINE n == Cardinality(MockLink!Names(c)) - 1
  <2>1. n \in Int
    BY <1>2
  <2> HIDE DEF n
  <2>2. IsFiniteSet({c}) /\ IsFiniteSet(0 .. n)
    <3>1. IsFiniteSet({c})
      BY FS_Singleton
    <3>2. 0 \in Int
      OBVIOUS
    <3>3. IsFiniteSet(0 .. n)
      BY <2>1, <3>2, FS_Interval
    <3> QED
      BY <3>1, <3>3
  <2>3. IsFiniteSet({c} \X (0 .. n))
    BY <2>2, FS_Product
  <2> QED
    BY <2>3 DEF Indices, n
<1>5. IsFiniteSet(UNION all)
  <2> HIDE DEF all
  <2> QED
    BY <1>3, <1>4, FS_UNION
<1>6. VehicleIndices = UNION all
  BY DEF VehicleIndices
<1>7. ASSUME NEW p \in VehicleIndices
      PROVE  /\ p = <<p[1], p[2]>> /\ p[1] \in DOMAIN vehicleParams
             /\ p[2] \in 0 .. Cardinality(MockLink!Names(p[1])) - 1 /\ p \in Pairs
  <2>1. PICK c \in DOMAIN vehicleParams : p \in {c} \X (0 .. Cardinality(MockLink!Names(c)) - 1)
    BY DEF VehicleIndices, Indices
  <2>2. c \in Nat /\ p[1] = c
    BY <1>2, <2>1
  <2> QED
    BY <2>1, <2>2 DEF Pairs
<1>8. \A c \in DOMAIN vehicleParams :
        Indices(c, Cardinality(MockLink!Names(c))) \subseteq VehicleIndices
  BY DEF VehicleIndices
<1> QED
  BY <1>5, <1>6, <1>7, <1>8
-----------------------------------------------------------------------------
(* A vehicle's names do not change, whatever its values do *)

SameNames ==
  /\ DOMAIN vehicleParams' = DOMAIN vehicleParams
  /\ \A c \in DOMAIN vehicleParams : DOMAIN (vehicleParams'[c]) = DOMAIN vehicleParams[c]

LEMMA NamesStay ==
  ASSUME SameNames
  PROVE  /\ \A c \in DOMAIN vehicleParams : MockLink!Names(c)' = MockLink!Names(c)
         /\ \A c \in DOMAIN vehicleParams : \A n :
              MockLink!IndexOf(<<c, n>>)' = MockLink!IndexOf(<<c, n>>)
         /\ MockLink!Keys' = MockLink!Keys /\ VehicleIndices' = VehicleIndices
         /\ TrueValues' = TrueValues /\ Requests' = Requests
<1>1. \A c \in DOMAIN vehicleParams : MockLink!Names(c)' = MockLink!Names(c)
  BY DEF SameNames, MockLink!Names
<1>2. \A c \in DOMAIN vehicleParams : \A n :
        MockLink!IndexOf(<<c, n>>)' = MockLink!IndexOf(<<c, n>>)
  BY <1>1 DEF MockLink!IndexOf
<1>3. MockLink!Keys' = MockLink!Keys /\ VehicleIndices' = VehicleIndices
  BY <1>1 DEF SameNames, MockLink!Keys, VehicleIndices
<1>4. TrueValues' = TrueValues
  BY <1>1, <1>2 DEF SameNames, TrueValues
<1>5. Requests' = Requests
  BY <1>3 DEF Requests
<1> QED
  BY <1>1, <1>2, <1>3, <1>4, <1>5
-----------------------------------------------------------------------------
(* What the ground station sends *)

LEMMA SentAll ==
  ASSUME NEW S, toVehicle \in Seq(S), NEW ms \in Seq(S), SendAll(ms)
  PROVE  toVehicle' \in Seq(S)
<1> DEFINE sent == toVehicle \o ms
           n == IF Len(sent) < LinkCapacity THEN Len(sent) ELSE LinkCapacity
<1>1. sent \in Seq(S) /\ n \in Nat /\ n <= Len(sent)
  BY InputAssumption
<1>2. toVehicle' = SubSeq(sent, 1, n)
  BY DEF SendAll
<1> HIDE DEF sent, n
<1>3. \A i \in 1 .. n : sent[i] \in S
  BY <1>1
<1> QED
  BY <1>1, <1>2, <1>3

LEMMA SentOne ==
  ASSUME NEW S, toVehicle \in Seq(S), NEW m \in S, Send(m)
  PROVE  toVehicle' \in Seq(S)
<1>1. <<m>> \in Seq(S)
  OBVIOUS
<1> QED
  BY <1>1, SentAll DEF Send

\* A list of requests made of the keys of a finite set.
LEMMA RequestsInOrder ==
  ASSUME NEW S \in SUBSET Pairs, IsFiniteSet(S), NEW T, NEW f,
         DOMAIN f = DOMAIN Ordered(S),
         \A i \in DOMAIN Ordered(S) : Ordered(S)[i] \in S => f[i] \in T,
         f = [i \in DOMAIN f |-> f[i]]
  PROVE  f \in Seq(T)
<1>1. /\ Ordered(S) \in [1 .. Cardinality(S) -> S] /\ Cardinality(S) \in Nat
  BY OrderedLists, Ranks
<1>2. DOMAIN f = 1 .. Cardinality(S) /\ \A i \in 1 .. Cardinality(S) : f[i] \in T
  BY <1>1
<1>3. f \in [1 .. Cardinality(S) -> T]
  BY <1>2
<1> QED
  BY <1>1, <1>3

LEMMA IndicesRequested ==
  ASSUME IsMap(vehicleParams, Component, CacheMap),
         NEW waiting, DOMAIN waiting \subseteq VehicleIndices, NEW queue
  PROVE  IndexRequests(waiting, queue) \in Seq(Requests)
<1> DEFINE S == Asked(waiting, queue)
           f == IndexRequests(waiting, queue)
<1>1. S \subseteq VehicleIndices
  BY DEF Asked, Fillable
<1>2. f = [i \in DOMAIN Ordered(S) |-> ReadIndex(Ordered(S)[i])]
  BY DEF IndexRequests
<1> HIDE DEF S, f
<1>3. S \in SUBSET Pairs /\ IsFiniteSet(S)
  BY <1>1, IndicesOfVehicle, FS_Subset
<1>4. \A p \in S : ReadIndex(p) \in Requests
  BY <1>1 DEF Requests
<1>5. /\ DOMAIN f = DOMAIN Ordered(S) /\ f = [i \in DOMAIN f |-> f[i]]
      /\ \A i \in DOMAIN Ordered(S) : f[i] = ReadIndex(Ordered(S)[i])
  BY <1>2
<1>6. f \in Seq(Requests)
  BY <1>3, <1>4, <1>5, RequestsInOrder
<1> QED
  BY <1>6 DEF f
-----------------------------------------------------------------------------
(* A value is taken over *)

LEMMA FillLosesNothing ==
  ASSUME NEW waiting, NEW queue, FillIndexBatchQueue(waiting, queue)
  PROVE  /\ DOMAIN waitingReadIndex' \subseteq DOMAIN waiting
         /\ DOMAIN waiting \cup failedReadIndex
              \subseteq DOMAIN waitingReadIndex' \cup failedReadIndex'
BY DEF FillIndexBatchQueue, Retried

LEMMA UpdateLearns ==
  ASSUME VehicleOK, LearnedOK, EveryIndexIsAccounted, NEW m \in TrueValues,
         NEW after \in Seq(Requests), Update(m, after), vehicleParams' = vehicleParams
  PROVE  LearnedOK' /\ EveryIndexIsAccounted' /\ toVehicle' \in Seq(Requests)
         /\ DOMAIN facts' = DOMAIN facts \cup {<<m.comp, m.name>>}
<1> DEFINE p == <<m.comp, m.name>>
           i == <<m.comp, m.index>>
           waiting == Expected(m.comp, m.count)
           rest == Without(waiting, {i})
           queue == IF i \in DOMAIN waiting THEN indexBatchQueue \ {m.index} ELSE indexBatchQueue
           own == Indices(m.comp, m.count)
<1>1. /\ m.comp \in DOMAIN vehicleParams /\ m.name \in MockLink!Names(m.comp)
      /\ m.count = Cardinality(MockLink!Names(m.comp))
      /\ m.index = MockLink!IndexOf(<<m.comp, m.name>>)
  BY DEF TrueValues
<1>2. IsMap(vehicleParams, Component, CacheMap) /\ toVehicle \in Seq(Requests)
  BY DEF VehicleOK
<1>3. SameNames
  BY DEF SameNames
<1>4. /\ DOMAIN waitingReadIndex \subseteq DOMAIN waiting
      /\ DOMAIN waiting \subseteq DOMAIN waitingReadIndex \cup own
      /\ ~Seen(m.comp) => own \subseteq DOMAIN waiting
  BY DEF Expected
<1>5. own \subseteq VehicleIndices
  BY <1>1, <1>2, IndicesOfVehicle
<1>6. DOMAIN rest = DOMAIN waiting \ {i}
  BY DEF Without
<1>7. DOMAIN rest \subseteq VehicleIndices
  BY <1>4, <1>5, <1>6 DEF LearnedOK
<1>8. /\ DOMAIN waitingReadIndex' \subseteq DOMAIN rest
      /\ DOMAIN rest \cup failedReadIndex \subseteq DOMAIN waitingReadIndex' \cup failedReadIndex'
      /\ toVehicle' \in Seq(Requests)
  <2>1. CASE FillIndexBatchQueue(rest, queue) /\ SendAll(IndexRequests(rest, queue) \o after)
    <3>1. IndexRequests(rest, queue) \in Seq(Requests)
      BY <1>2, <1>7, IndicesRequested
    <3> DEFINE ms == IndexRequests(rest, queue) \o after
    <3>2. ms \in Seq(Requests)
      BY <3>1
    <3> HIDE DEF rest, queue, ms
    <3>3. SendAll(ms)
      BY <2>1 DEF ms
    <3> QED
      BY <1>2, <2>1, <3>2, <3>3, SentAll, FillLosesNothing
  <2>2. CASE waitingReadIndex' = rest /\ failedReadIndex' = failedReadIndex /\ SendAll(after)
    <3> HIDE DEF rest
    <3> QED
      BY <1>2, <2>2, SentAll
  <2> QED
    BY <2>1, <2>2 DEF Update
<1>9. facts' = With(facts, p, m.value)
      /\ paramCount' = IF Seen(m.comp) THEN paramCount ELSE With(paramCount, m.comp, m.count)
  BY DEF Update
<1>10. DOMAIN facts' = DOMAIN facts \cup {p}
  BY <1>9 DEF With
<1> HIDE DEF rest, waiting, own, queue
<1>11. LearnedOK'
  <2>1. \A c \in DOMAIN paramCount' :
          c \in DOMAIN vehicleParams /\ paramCount'[c] = Cardinality(MockLink!Names(c))
    BY <1>1, <1>9 DEF LearnedOK, With
  <2>2. p \in MockLink!Keys
    BY <1>1 DEF MockLink!Keys
  <2> QED
    BY <1>3, <1>7, <1>8, <1>10, <2>1, <2>2, NamesStay DEF LearnedOK
<1>12. EveryIndexIsAccounted'
  <2> SUFFICES ASSUME NEW c \in DOMAIN paramCount', NEW n \in DOMAIN (vehicleParams'[c])
               PROVE  \/ <<c, n>> \in DOMAIN facts'
                      \/ <<c, MockLink!IndexOf(<<c, n>>)'>>
                           \in DOMAIN waitingReadIndex' \cup failedReadIndex'
    BY DEF EveryIndexIsAccounted
  <2> DEFINE k == <<c, MockLink!IndexOf(<<c, n>>)>>
  <2>1. c \in DOMAIN vehicleParams /\ n \in MockLink!Names(c)
    BY <1>11, <1>3 DEF LearnedOK, MockLink!Names
  <2>2. MockLink!IndexOf(<<c, n>>)' = MockLink!IndexOf(<<c, n>>)
    BY <1>3, <2>1, NamesStay
  <2>3. ASSUME <<c, n>> \notin DOMAIN facts'
        PROVE  k \in DOMAIN rest \cup failedReadIndex
    <3>1. c = m.comp => n /= m.name
      BY <1>10, <2>3
    <3>2. k /= i
      <4>1. c = m.comp => MockLink!IndexOf(<<c, n>>) /= MockLink!IndexOf(<<m.comp, m.name>>)
        BY <1>1, <1>2, <2>1, <3>1, NamesAreNumbered
      <4> QED
        BY <1>1, <4>1
    <3>3. CASE c \in DOMAIN paramCount
      <4>1. k \in DOMAIN waitingReadIndex \cup failedReadIndex
        BY <1>10, <2>1, <2>3, <3>3 DEF EveryIndexIsAccounted, MockLink!Names
      <4> QED
        BY <1>4, <1>6, <3>2, <4>1
    <3>4. CASE c \notin DOMAIN paramCount
      <4>1. c = m.comp /\ ~Seen(m.comp)
        BY <1>9, <3>4 DEF With, Seen
      <4>2. MockLink!IndexOf(<<c, n>>) \in 0 .. m.count - 1
        BY <1>1, <1>2, <2>1, <4>1, NamesAreNumbered
      <4>3. k \in own
        BY <4>1, <4>2 DEF own, Indices
      <4> QED
        BY <1>4, <1>6, <3>2, <4>1, <4>3
    <3> QED
      BY <3>3, <3>4
  <2> QED
    BY <1>8, <2>2, <2>3
<1> QED
  BY <1>8, <1>10, <1>11, <1>12
-----------------------------------------------------------------------------
(* The end of the load, and what a step of the ground station keeps *)

LEMMA CompleteIsWhole ==
  ASSUME NEW also, CheckInitialLoadComplete(also), FactTypeOK', EveryIndexIsAccounted',
         ReadyIsWhole, DOMAIN facts \subseteq DOMAIN facts', vehicleParams' = vehicleParams
  PROVE  ReadyIsWhole' /\ (parametersReady => parametersReady')
<1>1. CASE ~parametersReady /\ LoadIsComplete
  <2>1. /\ parametersReady' = TRUE /\ missingParameters' = (failedReadIndex' /= {})
        /\ waitingReadIndex' = None /\ Loaded(DefaultComponent)'
    BY <1>1 DEF CheckInitialLoadComplete, LoadIsComplete
  <2>2. DefaultComponent \in DOMAIN paramCount'
    <3>1. PICK p \in DOMAIN facts' : p[1] = DefaultComponent
      BY <2>1 DEF Loaded
    <3> QED
      BY <3>1 DEF FactTypeOK, IsMap
  <2>3. DOMAIN waitingReadIndex' = {}
    BY <2>1 DEF None
  <2>4. ReadyIsWhole'
    BY <2>1, <2>2, <2>3 DEF ReadyIsWhole, EveryIndexIsAccounted
  <2> QED
    BY <1>1, <2>4
<1>2. CASE ~(~parametersReady /\ LoadIsComplete)
  BY <1>2 DEF CheckInitialLoadComplete, load, ReadyIsWhole
<1> QED
  BY <1>1, <1>2

\* A step that takes over no value and loses no index
LEMMA GroundKeeps ==
  ASSUME VehicleOK, LearnedOK, CacheKnows, EveryIndexIsAccounted, ReadyIsWhole, FactTypeOK',
         UNCHANGED <<vehicleParams, regime, paramCount>>, cache' = cache,
         fromCache' \in Seq(TrueValues), DOMAIN facts' = DOMAIN facts,
         DOMAIN waitingReadIndex' \subseteq VehicleIndices,
         DOMAIN waitingReadIndex \cup failedReadIndex
           \subseteq DOMAIN waitingReadIndex' \cup failedReadIndex',
         UNCHANGED load \/ \E also : CheckInitialLoadComplete(also)
  PROVE  LearnedOK' /\ CacheKnows' /\ EveryIndexIsAccounted' /\ ReadyIsWhole'
<1>1. SameNames
  BY DEF SameNames
<1>2. LearnedOK'
  BY <1>1, NamesStay DEF LearnedOK
<1>3. EveryIndexIsAccounted'
  <2> SUFFICES ASSUME NEW c \in DOMAIN paramCount, NEW n \in DOMAIN vehicleParams[c]
               PROVE  \/ <<c, n>> \in DOMAIN facts
                      \/ <<c, MockLink!IndexOf(<<c, n>>)'>>
                           \in DOMAIN waitingReadIndex' \cup failedReadIndex'
    BY DEF EveryIndexIsAccounted
  <2>1. MockLink!IndexOf(<<c, n>>)' = MockLink!IndexOf(<<c, n>>)
    BY <1>1, NamesStay DEF LearnedOK
  <2> QED
    BY <2>1 DEF EveryIndexIsAccounted
<1>4. ReadyIsWhole' /\ (parametersReady => parametersReady')
  <2>1. CASE UNCHANGED load
    BY <2>1 DEF load, ReadyIsWhole
  <2>2. CASE \E also : CheckInitialLoadComplete(also)
    BY <1>3, <2>2, CompleteIsWhole
  <2> QED
    BY <2>1, <2>2
<1>5. CacheKnows'
  BY <1>1, <1>4, NamesStay DEF CacheKnows, VolatileOf
<1> QED
  BY <1>2, <1>3, <1>4, <1>5

\* A step of the vehicle or a link
LEMMA VehicleKeeps ==
  ASSUME LearnedOK, CacheKnows, EveryIndexIsAccounted, ReadyIsWhole, VehicleOK,
         ParameterTypeOK, PendingIsTimed, UNCHANGED managerVars, SameNames, regime' = regime
  PROVE  /\ LearnedOK' /\ CacheKnows' /\ EveryIndexIsAccounted' /\ ReadyIsWhole'
         /\ ParameterTypeOK' /\ PendingIsTimed'
<1>1. /\ UNCHANGED <<timers, indexes, indexBatchQueueActive, names, readsWaited, facts, load,
                     cacheVars, told>>
  BY DEF managerVars
<1>2. LearnedOK'
  BY <1>1, NamesStay DEF LearnedOK, SameNames, indexes
<1>3. EveryIndexIsAccounted'
  <2> SUFFICES ASSUME NEW c \in DOMAIN paramCount, NEW n \in DOMAIN vehicleParams'[c]
               PROVE  \/ <<c, n>> \in DOMAIN facts
                      \/ <<c, MockLink!IndexOf(<<c, n>>)'>>
                           \in DOMAIN waitingReadIndex \cup failedReadIndex
    BY <1>1 DEF EveryIndexIsAccounted, indexes
  <2>1. c \in DOMAIN vehicleParams /\ n \in DOMAIN vehicleParams[c]
    BY DEF LearnedOK, SameNames
  <2>2. MockLink!IndexOf(<<c, n>>)' = MockLink!IndexOf(<<c, n>>)
    BY <2>1, NamesStay
  <2> QED
    BY <2>1, <2>2 DEF EveryIndexIsAccounted
<1>4. DOMAIN (vehicleParams'[DefaultComponent]) = DOMAIN vehicleParams[DefaultComponent]
  BY DEF SameNames, VehicleOK
<1>5. ReadyIsWhole' /\ CacheKnows'
  BY <1>1, <1>4, NamesStay DEF ReadyIsWhole, CacheKnows, VolatileOf, load, cacheVars
<1>6. ParameterTypeOK' /\ PendingIsTimed'
  BY <1>1 DEF timers, indexes, names, load, cacheVars, ParameterTypeOK,
     FlagTypeOK, IndexTypeOK, FactTypeOK, CacheTypeOK, IsMap, PendingIsTimed, Loaded
<1> QED
  BY <1>2, <1>3, <1>5, <1>6
-----------------------------------------------------------------------------
(* What arrives *)

ManagerInv ==
  /\ ParameterTypeOK /\ PendingIsTimed
  /\ LearnedOK /\ CacheKnows /\ EveryIndexIsAccounted /\ ReadyIsWhole

LEMMA TakenOver ==
  ASSUME VehicleOK, ManagerInv, NEW m \in TrueValues, NEW after \in Seq(Requests),
         Update(m, after), UNCHANGED <<vehicleParams, regime>>, FactTypeOK',
         fromCache' \in Seq(TrueValues)
  PROVE  /\ LearnedOK' /\ CacheKnows' /\ EveryIndexIsAccounted' /\ ReadyIsWhole'
         /\ toVehicle' \in Seq(Requests)
<1>1. /\ LearnedOK' /\ EveryIndexIsAccounted' /\ toVehicle' \in Seq(Requests)
      /\ DOMAIN facts' = DOMAIN facts \cup {<<m.comp, m.name>>}
  BY UpdateLearns DEF ManagerInv
<1>2. CheckInitialLoadComplete({}) /\ UpdateCache(m.comp)
  BY DEF Update
<1>3. ReadyIsWhole' /\ (parametersReady => parametersReady')
  BY <1>1, <1>2, CompleteIsWhole DEF ManagerInv
<1>4. CacheKnows'
  <2>1. SameNames
    BY DEF SameNames
  <2> SUFFICES ASSUME regime.hash, ~parametersReady', DefaultComponent \in DOMAIN cache'
               PROVE  VolatileOf(cache'[DefaultComponent])
                        = VolatileOf(vehicleParams[DefaultComponent])
    BY <2>1, NamesStay DEF CacheKnows, VolatileOf
  <2>2. ~LoadIsComplete
    BY <1>2, <1>3 DEF CheckInitialLoadComplete, load
  <2>3. m.comp = DefaultComponent => waitingReadIndex' /= None
    <3>1. ASSUME m.comp = DefaultComponent
          PROVE  Loaded(DefaultComponent)'
      <4>1. <<m.comp, m.name>> \in DOMAIN facts' /\ <<m.comp, m.name>>[1] = DefaultComponent
        BY <1>1, <3>1
      <4> QED
        BY <4>1 DEF Loaded
    <3> QED
      BY <2>2, <3>1 DEF LoadIsComplete
  <2>4. DefaultComponent \in DOMAIN cache /\ cache'[DefaultComponent] = cache[DefaultComponent]
    BY <1>2, <2>3 DEF UpdateCache, With
  <2> QED
    BY <1>3, <2>4 DEF ManagerInv, CacheKnows
<1> QED
  BY <1>1, <1>3, <1>4

\* A cache that the hash matches has the vehicle's names.
LEMMA MatchingCache ==
  ASSUME VehicleOK, ManagerInv, NEW m \in TrueHashes, ~parametersReady, CacheMatches(m)
  PROVE  CachedValues(m.comp) \in Seq(TrueValues)
<1> DEFINE D == DefaultComponent
           T == MockLink!Names(D)
           S == {D} \X T
           order == Ordered(S)
<1>1. /\ regime.hash /\ m.comp = D /\ D \in DOMAIN cache
      /\ DOMAIN m.hash = T \ VolatileOf(vehicleParams[D])
      /\ NotVolatile(D, cache[D]) = m.hash
  BY DEF TrueHashes, CacheMatches
<1>2. DOMAIN cache[D] = T
  <2>1. VolatileOf(cache[D]) = VolatileOf(vehicleParams[D])
    BY <1>1 DEF ManagerInv, CacheKnows
  <2>2. DOMAIN cache[D] \ VolatileOf(cache[D]) = DOMAIN m.hash
    <3>1. DOMAIN NotVolatile(D, cache[D]) = DOMAIN cache[D] \ VolatileOf(cache[D])
      BY DEF NotVolatile, Without, VolatileOf
    <3> QED
      BY <1>1, <3>1
  <2> QED
    BY <1>1, <2>1, <2>2 DEF VolatileOf, MockLink!Names
<1>3. IsMap(vehicleParams, Component, CacheMap) /\ D \in DOMAIN vehicleParams
  BY DEF VehicleOK
<1>4. D \in Component /\ T \in SUBSET Name /\ Cardinality(T) \in Nat
  BY <1>3, NamesAreNumbered
<1>5. CachedValues(D) \in Seq(ParamValue)
  BY <1>1, CachedTypes DEF ManagerInv
<1>6. CachedValues(D) = [i \in DOMAIN order |->
         [comp |-> D, name |-> order[i][2], count |-> Len(order), index |-> i - 1,
          value |-> cache[D][order[i][2]]]]
  BY <1>2 DEF CachedValues
<1>7. ASSUME NEW n
      PROVE  MockLink!IndexOf(<<D, n>>) = Cardinality({k \in T : k < n})
  BY SameCount DEF MockLink!IndexOf
<1> HIDE DEF T, D
<1>8. /\ S \in SUBSET Pairs /\ IsFiniteSet(S) /\ Cardinality(S) = Cardinality(T)
      /\ \A n \in T : Rank(<<D, n>>, S) = Cardinality({k \in T : k < n})
  BY <1>4, RankOfName
<1>9. \A p \in S : p = <<D, p[2]>> /\ p[2] \in T
  OBVIOUS
<1> HIDE DEF S
<1>10. /\ order \in [1 .. Cardinality(T) -> S] /\ Len(order) = Cardinality(T)
       /\ \A i \in 1 .. Cardinality(T) : Rank(order[i], S) = i - 1
  BY <1>8, OrderedLists
<1> HIDE DEF order
<1>11. ASSUME NEW i \in 1 .. Cardinality(T)
       PROVE  CachedValues(D)[i] \in TrueValues
  <2> DEFINE v == CachedValues(D)[i]
  <2>1. v \in ParamValue
    <3>1. DOMAIN CachedValues(D) = 1 .. Cardinality(T)
      BY <1>6, <1>10
    <3> QED
      BY <1>4, <1>5, <3>1
  <2>2. v.comp = D /\ v.name = order[i][2] /\ v.count = Cardinality(T) /\ v.index = i - 1
    BY <1>6, <1>10
  <2>3. order[i] = <<D, v.name>> /\ v.name \in T
    BY <1>9, <1>10, <2>2
  <2>4. v.index = MockLink!IndexOf(<<D, v.name>>)
    <3>1. MockLink!IndexOf(<<D, v.name>>) = Rank(<<D, v.name>>, S)
      BY <1>7, <1>8, <2>3
    <3> QED
      BY <1>10, <2>2, <2>3, <3>1
  <2> HIDE DEF v
  <2>5. v \in TrueValues
    BY <1>3, <2>1, <2>2, <2>3, <2>4 DEF TrueValues, T
  <2> QED
    BY <2>5 DEF v
<1>12. /\ DOMAIN CachedValues(D) = 1 .. Cardinality(T)
       /\ CachedValues(D) = [i \in 1 .. Cardinality(T) |-> CachedValues(D)[i]]
  BY <1>6, <1>10
<1>13. CachedValues(D) \in Seq(TrueValues)
  BY <1>4, <1>11, <1>12
<1> QED
  BY <1>1, <1>13 DEF D
-----------------------------------------------------------------------------
(* The steps of the ground station *)

LEMMA KeysAreFinite ==
  ASSUME IsMap(vehicleParams, Component, CacheMap)
  PROVE  MockLink!Keys \in SUBSET Pairs /\ IsFiniteSet(MockLink!Keys)
         /\ MockLink!Keys \subseteq ParamKey
<1>1. MockLink!Keys \subseteq ParamKey
  BY DEF IsMap, CacheMap, MockLink!Keys, MockLink!Names, ParamKey
<1>2. IsFiniteSet(ParamKey)
  BY ComponentAssumption, NameAssumption, FS_Product DEF ParamKey
<1> QED
  BY <1>1, <1>2, ComponentsAreNaturals, FS_Subset

LEMMA ValueArrives ==
  ASSUME VehicleOK, ManagerInv, NEW m \in TrueValues, ParameterUpdate(m),
         UNCHANGED <<vehicleParams, regime>>
  PROVE  ManagerInv' /\ toVehicle' \in Seq(Requests)
<1>1. /\ Update(m, NoRequests) /\ fromCache' = fromCache /\ m \in ParamValue
      /\ NoRequests \in Seq(Requests)
  BY DEF ParameterUpdate, TrueValues, NoRequests
<1>2. ParameterTypeOK' /\ PendingIsTimed'
  BY <1>1, ReceivePreserves DEF Receive, ManagerInv
<1>3. FactTypeOK' /\ fromCache' \in Seq(TrueValues)
  BY <1>1, <1>2 DEF ParameterTypeOK, ManagerInv, CacheKnows
<1> QED
  BY <1>1, <1>2, <1>3, TakenOver DEF ManagerInv

LEMMA HashArrives ==
  ASSUME VehicleOK, ManagerInv, NEW m \in TrueHashes, HashReceived(m),
         UNCHANGED <<vehicleParams, regime>>
  PROVE  ManagerInv' /\ toVehicle' \in Seq(Requests)
<1>1. /\ UNCHANGED <<initialRequestRetries, waitingParamTimer, waitingForDefault, indexes,
                     indexBatchQueueActive, names, readsWaited, facts, load, cache, told, toVehicle>>
      /\ fromCache' = IF ~parametersReady /\ CacheMatches(m) THEN CachedValues(m.comp) ELSE <<>>
  BY DEF HashReceived
<1>2. m \notin ParamValue
  <2>1. DOMAIN m = {"comp", "hash"}
    BY DEF TrueHashes, HashCheck
  <2> QED
    BY <2>1 DEF ParamValue
<1>3. ParameterTypeOK' /\ PendingIsTimed'
  BY <1>2, ReceivePreserves DEF Receive, ManagerInv
<1>4. fromCache' \in Seq(TrueValues)
  BY <1>1, MatchingCache
<1>5. /\ paramCount' = paramCount /\ waitingReadIndex' = waitingReadIndex
      /\ failedReadIndex' = failedReadIndex /\ UNCHANGED load
  BY <1>1 DEF indexes
<1>6. LearnedOK' /\ CacheKnows' /\ EveryIndexIsAccounted' /\ ReadyIsWhole'
  BY <1>1, <1>3, <1>4, <1>5, GroundKeeps DEF ManagerInv, ParameterTypeOK, LearnedOK
<1> QED
  BY <1>1, <1>3, <1>6 DEF ManagerInv, VehicleOK

LEMMA CacheLoads ==
  ASSUME VehicleOK, ManagerInv, LoadFromCache, UNCHANGED <<vehicleParams, regime>>
  PROVE  ManagerInv' /\ toVehicle' \in Seq(Requests)
<1> DEFINE m == Head(fromCache)
           after == IF Len(fromCache) = 1 THEN <<ReturnHash(m.comp)>> ELSE NoRequests
<1>1. /\ fromCache \in Seq(TrueValues) /\ fromCache /= <<>>
      /\ fromCache' = Tail(fromCache) /\ Update(m, after)
  BY DEF LoadFromCache, ManagerInv, CacheKnows
<1>2. m \in TrueValues /\ fromCache' \in Seq(TrueValues)
  BY <1>1
<1>3. after \in Seq(Requests)
  <2>1. m.comp \in Component
    BY <1>2 DEF TrueValues, ParamValue
  <2>2. ReturnHash(m.comp) \in Requests
    BY <2>1 DEF Requests
  <2> HIDE DEF m
  <2> QED
    BY <2>2 DEF NoRequests
<1>4. ParameterTypeOK' /\ PendingIsTimed'
  BY LoadFromCachePreserves DEF ManagerInv
<1> HIDE DEF m, after
<1> QED
  BY <1>1, <1>2, <1>3, <1>4, TakenOver DEF ManagerInv, ParameterTypeOK

LEMMA UserWriteKeeps ==
  ASSUME VehicleOK, ManagerInv, NEW p \in DOMAIN facts, NEW v \in Value, ValueUpdated(p, v),
         UNCHANGED <<vehicleParams, regime>>
  PROVE  ManagerInv' /\ toVehicle' \in Seq(Requests)
<1>1. ParameterTypeOK' /\ PendingIsTimed'
  BY ValueUpdatedPreserves DEF ManagerInv
<1>2. /\ DOMAIN facts' = DOMAIN facts /\ Send(Write(p, v))
      /\ UNCHANGED <<indexes, load, cacheVars>>
  BY DEF ValueUpdated
<1>3. LearnedOK' /\ CacheKnows' /\ EveryIndexIsAccounted' /\ ReadyIsWhole'
  BY <1>1, <1>2, GroundKeeps
     DEF ManagerInv, ParameterTypeOK, LearnedOK, CacheKnows, indexes, cacheVars
<1>4. Write(p, v) \in Requests
  BY DEF ManagerInv, LearnedOK, Requests
<1> QED
  BY <1>1, <1>2, <1>3, <1>4, SentOne DEF ManagerInv, VehicleOK

LEMMA UserRefreshKeeps ==
  ASSUME VehicleOK, ManagerInv, NEW p \in DOMAIN facts, RefreshParameter(p),
         UNCHANGED <<vehicleParams, regime>>
  PROVE  ManagerInv' /\ toVehicle' \in Seq(Requests)
<1>1. ParameterTypeOK' /\ PendingIsTimed'
  BY RefreshParameterPreserves DEF ManagerInv
<1>2. facts' = facts /\ Send(ReadName(p)) /\ UNCHANGED <<indexes, load, cacheVars>>
  BY DEF RefreshParameter
<1>3. LearnedOK' /\ CacheKnows' /\ EveryIndexIsAccounted' /\ ReadyIsWhole'
  BY <1>1, <1>2, GroundKeeps
     DEF ManagerInv, ParameterTypeOK, LearnedOK, CacheKnows, indexes, cacheVars
<1>4. ReadName(p) \in Requests
  BY DEF ManagerInv, LearnedOK, Requests
<1> QED
  BY <1>1, <1>2, <1>3, <1>4, SentOne DEF ManagerInv, VehicleOK

LEMMA AllRequested ==
  ASSUME VehicleOK, LearnedOK, RequestAll(All)
  PROVE  /\ DOMAIN waitingReadIndex' \subseteq VehicleIndices
         /\ DOMAIN waitingReadIndex \subseteq DOMAIN waitingReadIndex'
         /\ toVehicle' \in Seq(Requests)
<1> DEFINE again == UNION {Indices(k, paramCount[k]) :
                             k \in {k \in DOMAIN paramCount : All \in {All, k}}}
<1>1. again \subseteq VehicleIndices
  BY IndicesOfVehicle DEF VehicleOK, LearnedOK
<1>2. waitingReadIndex' = [p \in DOMAIN waitingReadIndex \cup again |->
                             IF p \in again THEN 0 ELSE waitingReadIndex[p]]
      /\ Send(RequestList(All))
  BY DEF RequestAll
<1> HIDE DEF again
<1>3. RequestList(All) \in Requests
  BY DEF Requests
<1> QED
  BY <1>1, <1>2, <1>3, SentOne DEF LearnedOK, VehicleOK

LEMMA UserRefreshesAll ==
  ASSUME VehicleOK, ManagerInv, RefreshAllParameters(All), UNCHANGED <<vehicleParams, regime>>
  PROVE  ManagerInv' /\ toVehicle' \in Seq(Requests)
<1>1. ParameterTypeOK' /\ PendingIsTimed'
  BY RefreshAllParametersPreserves DEF ManagerInv
<1>2. /\ RequestAll(All)
      /\ UNCHANGED <<paramCount, failedReadIndex, facts, load, cacheVars>>
  BY DEF RefreshAllParameters
<1>3. LearnedOK' /\ CacheKnows' /\ EveryIndexIsAccounted' /\ ReadyIsWhole'
  BY <1>1, <1>2, AllRequested, GroundKeeps
     DEF ManagerInv, ParameterTypeOK, CacheKnows, cacheVars
<1> QED
  BY <1>1, <1>2, <1>3, AllRequested DEF ManagerInv

LEMMA InitialTimeoutKeeps ==
  ASSUME VehicleOK, ManagerInv, InitialRequestTimeout, UNCHANGED <<vehicleParams, regime>>
  PROVE  ManagerInv' /\ toVehicle' \in Seq(Requests)
<1>1. ParameterTypeOK' /\ PendingIsTimed'
  BY InitialRequestTimeoutPreserves DEF ManagerInv
<1>2. /\ RequestAll(All) \/ UNCHANGED <<waitingReadIndex, toVehicle>>
      /\ UNCHANGED <<paramCount, failedReadIndex, facts, load, cacheVars>>
  BY DEF InitialRequestTimeout
<1>3. /\ DOMAIN waitingReadIndex' \subseteq VehicleIndices
      /\ DOMAIN waitingReadIndex \subseteq DOMAIN waitingReadIndex'
      /\ toVehicle' \in Seq(Requests)
  BY <1>2, AllRequested DEF ManagerInv, LearnedOK, VehicleOK
<1>4. LearnedOK' /\ CacheKnows' /\ EveryIndexIsAccounted' /\ ReadyIsWhole'
  BY <1>1, <1>2, <1>3, GroundKeeps DEF ManagerInv, ParameterTypeOK, CacheKnows, cacheVars
<1> QED
  BY <1>1, <1>3, <1>4 DEF ManagerInv

\* The reads and writes that a timeout sends again
LEMMA NamesRequested ==
  ASSUME VehicleOK, LearnedOK, FactTypeOK
  PROVE  WriteRequests \in Seq(Requests) /\ ReadRequests \in Seq(Requests)
<1>1. IsMap(vehicleParams, Component, CacheMap)
  BY DEF VehicleOK
<1>2. ASSUME NEW waiting, DOMAIN waiting \subseteq DOMAIN facts
      PROVE  /\ Resent(waiting) \in SUBSET Pairs /\ IsFiniteSet(Resent(waiting))
             /\ Resent(waiting) \subseteq DOMAIN facts /\ Resent(waiting) \subseteq MockLink!Keys
  <2>1. Resent(waiting) \subseteq DOMAIN facts
    BY <1>2 DEF Resent, InBatch
  <2>2. Resent(waiting) \subseteq MockLink!Keys
    BY <2>1 DEF LearnedOK
  <2> HIDE DEF Resent
  <2> QED
    BY <1>1, <2>1, <2>2, KeysAreFinite, FS_Subset
<1>3. /\ DOMAIN waitingWriteName \subseteq DOMAIN facts
      /\ DOMAIN waitingReadName \subseteq DOMAIN facts
      /\ \A p \in DOMAIN facts : facts[p] \in Value
  BY DEF FactTypeOK, IsMap
<1>4. WriteRequests \in Seq(Requests)
  <2> DEFINE S == Resent(waitingWriteName)
             f == WriteRequests
  <2>1. f = [i \in DOMAIN Ordered(S) |-> Write(Ordered(S)[i], facts[Ordered(S)[i]])]
    BY DEF WriteRequests
  <2>2. S \in SUBSET Pairs /\ IsFiniteSet(S) /\ S \subseteq DOMAIN facts /\ S \subseteq MockLink!Keys
    BY <1>2, <1>3
  <2> HIDE DEF S, f
  <2>3. \A p \in S : Write(p, facts[p]) \in Requests
    BY <1>3, <2>2 DEF Requests
  <2>4. /\ DOMAIN f = DOMAIN Ordered(S) /\ f = [i \in DOMAIN f |-> f[i]]
        /\ \A i \in DOMAIN Ordered(S) : f[i] = Write(Ordered(S)[i], facts[Ordered(S)[i]])
    BY <2>1
  <2>5. f \in Seq(Requests)
    BY <2>2, <2>3, <2>4, RequestsInOrder
  <2> QED
    BY <2>5 DEF f
<1>5. ReadRequests \in Seq(Requests)
  <2> DEFINE S == Resent(waitingReadName)
             f == ReadRequests
  <2>1. f = [i \in DOMAIN Ordered(S) |-> ReadName(Ordered(S)[i])]
    BY DEF ReadRequests
  <2>2. S \in SUBSET Pairs /\ IsFiniteSet(S) /\ S \subseteq MockLink!Keys
    BY <1>2, <1>3
  <2> HIDE DEF S, f
  <2>3. \A p \in S : ReadName(p) \in Requests
    BY <2>2 DEF Requests
  <2>4. /\ DOMAIN f = DOMAIN Ordered(S) /\ f = [i \in DOMAIN f |-> f[i]]
        /\ \A i \in DOMAIN Ordered(S) : f[i] = ReadName(Ordered(S)[i])
    BY <2>1
  <2>5. f \in Seq(Requests)
    BY <2>2, <2>3, <2>4, RequestsInOrder
  <2> QED
    BY <2>5 DEF f
<1> QED
  BY <1>4, <1>5

LEMMA TimeoutKeeps ==
  ASSUME VehicleOK, ManagerInv, WaitingParamTimeout, UNCHANGED <<vehicleParams, regime>>
  PROVE  ManagerInv' /\ toVehicle' \in Seq(Requests)
<1>1. ParameterTypeOK' /\ PendingIsTimed'
  BY WaitingParamTimeoutPreserves DEF ManagerInv
<1>2. /\ FillIndexBatchQueue(waitingReadIndex, {})
      /\ UNCHANGED <<paramCount, facts, cacheVars>>
      /\ RequestIndices \/ AwaitDefaultComponent \/ RetryWrites \/ RetryReads \/ NothingToRetry
  BY DEF WaitingParamTimeout
<1>3. /\ DOMAIN waitingReadIndex' \subseteq VehicleIndices
      /\ DOMAIN waitingReadIndex \cup failedReadIndex
           \subseteq DOMAIN waitingReadIndex' \cup failedReadIndex'
  BY <1>2, FillLosesNothing DEF ManagerInv, LearnedOK
<1>4. UNCHANGED load \/ \E also : CheckInitialLoadComplete(also)
  BY <1>2 DEF RequestIndices, AwaitDefaultComponent, RetryWrites, RetryReads, NothingToRetry
<1>5. LearnedOK' /\ CacheKnows' /\ EveryIndexIsAccounted' /\ ReadyIsWhole'
  BY <1>1, <1>2, <1>3, <1>4, GroundKeeps DEF ManagerInv, ParameterTypeOK, CacheKnows, cacheVars
<1>6. toVehicle' \in Seq(Requests)
  <2>1. IndexRequests(waitingReadIndex, {}) \in Seq(Requests)
    BY IndicesRequested DEF VehicleOK, ManagerInv, LearnedOK
  <2>2. WriteRequests \in Seq(Requests) /\ ReadRequests \in Seq(Requests)
    BY NamesRequested DEF ManagerInv, ParameterTypeOK
  <2>3. \/ toVehicle' = toVehicle
        \/ SendAll(IndexRequests(waitingReadIndex, {}))
        \/ SendAll(WriteRequests) \/ SendAll(ReadRequests)
    BY <1>2 DEF RequestIndices, AwaitDefaultComponent, RetryWrites, RetryReads, NothingToRetry
  <2>4. toVehicle \in Seq(Requests)
    BY DEF VehicleOK
  <2> QED
    BY <2>1, <2>2, <2>3, <2>4, SentAll
<1> QED
  BY <1>1, <1>5, <1>6 DEF ManagerInv
-----------------------------------------------------------------------------
(* The steps of the vehicle and of the links *)

Answers == TrueValues \cup TrueHashes

LEMMA Responded ==
  ASSUME NEW S, toGcs \in Seq(S), NEW m \in S, MockLink!Respond(m)
  PROVE  toGcs' \in Seq(S)
BY DEF MockLink!Respond

LEMMA ValueIsTrue ==
  ASSUME IsMap(vehicleParams, Component, CacheMap), NEW p \in MockLink!Keys
  PROVE  /\ MockLink!ValueOf(p) \in TrueValues
         /\ \A v \in Value : [MockLink!ValueOf(p) EXCEPT !.value = v] \in TrueValues
         /\ p = <<p[1], p[2]>> /\ p[1] \in DOMAIN vehicleParams
         /\ p[2] \in DOMAIN vehicleParams[p[1]]
<1>0. PICK c \in DOMAIN vehicleParams : p \in {c} \X MockLink!Names(c)
  BY DEF MockLink!Keys
<1>1. PICK n \in MockLink!Names(c) : p = <<c, n>>
  BY <1>0
<1>2. /\ c \in Component /\ n \in Name /\ vehicleParams[c][n] \in Value
      /\ Cardinality(MockLink!Names(c)) \in Nat /\ MockLink!IndexOf(<<c, n>>) \in Nat
  <2>1. /\ c \in Component /\ MockLink!Names(c) \in SUBSET Name
        /\ Cardinality(MockLink!Names(c)) \in Nat
        /\ MockLink!IndexOf(<<c, n>>) \in 0 .. Cardinality(MockLink!Names(c)) - 1
    BY NamesAreNumbered
  <2>2. vehicleParams[c][n] \in Value
    BY DEF IsMap, CacheMap, MockLink!Names
  <2> QED
    BY <2>1, <2>2
<1>3. MockLink!ValueOf(p) = [comp |-> c, name |-> n, count |-> Cardinality(MockLink!Names(c)),
                             index |-> MockLink!IndexOf(<<c, n>>), value |-> vehicleParams[c][n]]
  BY <1>1, SameCount DEF MockLink!ValueOf
<1>4. \A v \in Value : [MockLink!ValueOf(p) EXCEPT !.value = v] \in TrueValues
  BY <1>2, <1>3 DEF TrueValues, ParamValue
<1>5. MockLink!ValueOf(p) \in TrueValues
  BY <1>2, <1>3 DEF TrueValues, ParamValue
<1> QED
  BY <1>1, <1>4, <1>5 DEF MockLink!Names

LEMMA HashIsTrue ==
  ASSUME VehicleOK, regime.hash
  PROVE  MockLink!HashOf(DefaultComponent) \in TrueHashes
<1> DEFINE D == DefaultComponent
           S == {n \in MockLink!Names(D) : <<D, n>> \notin Volatile}
<1>1. D \in DOMAIN vehicleParams /\ D \in Component /\ vehicleParams[D] \in CacheMap
  BY DEF VehicleOK, IsMap
<1>2. S \in SUBSET Name /\ \A n \in S : vehicleParams[D][n] \in Value
  BY <1>1 DEF CacheMap, MockLink!Names
<1>3. S = MockLink!Names(D) \ VolatileOf(vehicleParams[D])
  BY DEF VolatileOf, MockLink!Names
<1>4. MockLink!HashOf(D) = [comp |-> D, hash |-> [n \in S |-> vehicleParams[D][n]]]
  BY DEF MockLink!HashOf
<1> HIDE DEF S
<1>5. [n \in S |-> vehicleParams[D][n]] \in CacheMap
  <2>1. [n \in S |-> vehicleParams[D][n]] \in [S -> Value]
    BY <1>2
  <2> QED
    BY <1>2, <2>1 DEF CacheMap
<1> QED
  BY <1>1, <1>3, <1>4, <1>5 DEF TrueHashes, HashCheck

LEMMA InOrderOfKeys ==
  ASSUME IsMap(vehicleParams, Component, CacheMap), NEW S \in SUBSET MockLink!Keys
  PROVE  MockLink!InOrder(S) \in Seq(MockLink!Keys)
<1>1. S \in SUBSET Pairs /\ IsFiniteSet(S)
  BY KeysAreFinite, FS_Subset
<1>2. /\ Ordered(S) \in [1 .. Cardinality(S) -> S] /\ Cardinality(S) \in Nat
      /\ \A i, j \in 1 .. Cardinality(S) : i < j => Before(Ordered(S)[i], Ordered(S)[j])
  BY <1>1, OrderedLists, Ranks
<1>3. \E s \in [1 .. Cardinality(S) -> S] :
        \A i, j \in DOMAIN s :
          i < j => s[i][1] < s[j][1] \/ (s[i][1] = s[j][1] /\ s[i][2] < s[j][2])
  BY <1>2 DEF Before
<1>4. MockLink!InOrder(S) \in [1 .. Cardinality(S) -> S]
  BY <1>3, SameCount DEF MockLink!InOrder
<1> QED
  BY <1>2, <1>4

\* Which name an index stands for
LEMMA NameOfIndex ==
  ASSUME IsMap(vehicleParams, Component, CacheMap), NEW p \in VehicleIndices
  PROVE  <<p[1], MockLink!NameAt(p[1], p[2])>> \in MockLink!Keys
<1>1. p[1] \in DOMAIN vehicleParams /\ p[2] \in 0 .. Cardinality(MockLink!Names(p[1])) - 1
  BY IndicesOfVehicle
<1>2. \E n \in MockLink!Names(p[1]) : MockLink!IndexOf(<<p[1], n>>) = p[2]
  BY <1>1, NamesAreNumbered
<1>3. MockLink!NameAt(p[1], p[2]) \in MockLink!Names(p[1])
  BY <1>2 DEF MockLink!NameAt
<1> QED
  BY <1>1, <1>3 DEF MockLink!Keys

\* What the vehicle does with a request or by itself
VehicleWorks ==
  /\ SameNames /\ sendsHash' = sendsHash
  /\ IsMap(vehicleParams', Component, CacheMap)
  /\ sending' \in Seq(MockLink!Keys) /\ toGcs' \in Seq(Answers)

LEMMA SetKeepsNames ==
  ASSUME IsMap(vehicleParams, Component, CacheMap), NEW p \in MockLink!Keys, NEW v \in Value,
         vehicleParams' = [vehicleParams EXCEPT ![p[1]][p[2]] = v]
  PROVE  SameNames /\ IsMap(vehicleParams', Component, CacheMap)
<1>1. p[1] \in DOMAIN vehicleParams /\ p[2] \in DOMAIN vehicleParams[p[1]]
  BY ValueIsTrue
<1> DEFINE map == [vehicleParams[p[1]] EXCEPT ![p[2]] = v]
<1>2. DOMAIN map = DOMAIN vehicleParams[p[1]] /\ map \in CacheMap
  <2>1. vehicleParams[p[1]] \in CacheMap
    BY <1>1 DEF IsMap
  <2>2. PICK S \in SUBSET Name : vehicleParams[p[1]] \in [S -> Value]
    BY <2>1 DEF CacheMap
  <2>3. map \in [S -> Value]
    BY <2>2
  <2> QED
    BY <2>2, <2>3 DEF CacheMap
<1>3. /\ DOMAIN vehicleParams' = DOMAIN vehicleParams
      /\ \A c \in DOMAIN vehicleParams :
           vehicleParams'[c] = IF c = p[1] THEN map ELSE vehicleParams[c]
  <2>1. vehicleParams' = [vehicleParams EXCEPT ![p[1]] = map]
    OBVIOUS
  <2> HIDE DEF map
  <2> QED
    BY <2>1
<1> HIDE DEF map
<1> QED
  BY <1>2, <1>3 DEF SameNames, IsMap

LEMMA MessageHandled ==
  ASSUME VehicleOK, NEW m \in Requests, MockLink!HandleMessage(m)
  PROVE  VehicleWorks
<1>1. /\ IsMap(vehicleParams, Component, CacheMap) /\ sending \in Seq(MockLink!Keys)
      /\ toGcs \in Seq(Answers) /\ sendsHash = regime.hash
  BY DEF VehicleOK, Answers
<1>2. CASE m.kind = "RequestList" /\ MockLink!HandleParamRequestList(m)
  <2>1. /\ UNCHANGED <<vehicleParams, sendsHash>>
        /\ sending' = sending \/ sending' = MockLink!InOrder(MockLink!Keys)
        /\ UNCHANGED toGcs \/ (sendsHash /\ MockLink!Respond(MockLink!HashOf(DefaultComponent)))
    BY <1>2 DEF MockLink!HandleParamRequestList
  <2>2. toGcs' \in Seq(Answers)
    BY <1>1, <2>1, HashIsTrue, Responded DEF Answers
  <2>3. sending' \in Seq(MockLink!Keys)
    BY <1>1, <2>1, InOrderOfKeys
  <2> QED
    BY <1>1, <2>1, <2>2, <2>3 DEF VehicleWorks, SameNames
<1>3. CASE m.kind \in {"ReadIndex", "ReadName"} /\ MockLink!HandleParamRequestRead(m)
  <2> DEFINE p == <<m.comp, IF m.kind = "ReadIndex" THEN MockLink!NameAt(m.comp, m.param)
                                                    ELSE m.param>>
  <2>1. p \in MockLink!Keys
    <3>1. CASE m.kind = "ReadIndex"
      <4>1. PICK q \in VehicleIndices : m = ReadIndex(q)
        BY <3>1 DEF Requests, RequestList, ReturnHash, ReadName, Write
      <4>2. p = <<q[1], MockLink!NameAt(q[1], q[2])>>
        BY <4>1 DEF ReadIndex
      <4> QED
        BY <1>1, <4>2, NameOfIndex
    <3>2. CASE m.kind = "ReadName"
      <4>1. PICK q \in MockLink!Keys : m = ReadName(q)
        BY <3>2 DEF Requests, RequestList, ReturnHash, ReadIndex, Write
      <4>2. p = <<q[1], q[2]>>
        BY <3>2, <4>1 DEF ReadName
      <4> QED
        BY <1>1, <4>2, ValueIsTrue
    <3> QED
      BY <1>3, <3>1, <3>2
  <2>2. /\ UNCHANGED <<vehicleParams, sending, sendsHash>>
        /\ UNCHANGED toGcs \/ MockLink!Respond(MockLink!ValueOf(p))
    BY <1>3 DEF MockLink!HandleParamRequestRead
  <2> HIDE DEF p
  <2>3. toGcs' \in Seq(Answers)
    BY <1>1, <2>1, <2>2, ValueIsTrue, Responded DEF Answers
  <2> QED
    BY <1>1, <2>2, <2>3 DEF VehicleWorks, SameNames
<1>4. CASE m.kind = "Set" /\ MockLink!HandleParamSet(m)
  <2>1. PICK p \in MockLink!Keys, v \in Value : m = Write(p, v)
    BY <1>4 DEF Requests, RequestList, ReturnHash, ReadIndex, ReadName
  <2>2. p = <<p[1], p[2]>>
    BY <1>1, ValueIsTrue
  <2>3. /\ vehicleParams' = [vehicleParams EXCEPT ![p[1]][p[2]] = v]
        /\ MockLink!Respond([MockLink!ValueOf(p) EXCEPT !.value = v])
        /\ UNCHANGED <<sending, sendsHash>>
    BY <1>4, <2>1, <2>2 DEF MockLink!HandleParamSet, Write
  <2>4. toGcs' \in Seq(Answers)
    BY <1>1, <2>3, ValueIsTrue, Responded DEF Answers
  <2>5. SameNames /\ IsMap(vehicleParams', Component, CacheMap)
    BY <1>1, <2>3, SetKeepsNames
  <2> QED
    BY <1>1, <2>3, <2>4, <2>5 DEF VehicleWorks
<1>5. CASE m.kind = "SetHash" /\ MockLink!HashReturned(m)
  <2> DEFINE S == {p \in {sending[i] : i \in DOMAIN sending} : p[1] /= m.comp}
  <2>1. sending' = MockLink!InOrder(S) /\ UNCHANGED <<vehicleParams, sendsHash, toGcs>>
    BY <1>5 DEF MockLink!HashReturned
  <2>2. S \in SUBSET MockLink!Keys
    BY <1>1
  <2> HIDE DEF S
  <2>3. sending' \in Seq(MockLink!Keys)
    BY <1>1, <2>1, <2>2, InOrderOfKeys
  <2> QED
    BY <1>1, <2>1, <2>3 DEF VehicleWorks, SameNames
<1> QED
  BY <1>2, <1>3, <1>4, <1>5 DEF MockLink!HandleMessage

LEMMA NextParameterSent ==
  ASSUME VehicleOK, MockLink!SendNextParameter
  PROVE  VehicleWorks
<1>1. /\ IsMap(vehicleParams, Component, CacheMap) /\ sending \in Seq(MockLink!Keys)
      /\ toGcs \in Seq(Answers)
  BY DEF VehicleOK, Answers
<1>2. /\ sending /= <<>> /\ sending' = Tail(sending) /\ UNCHANGED <<vehicleParams, sendsHash>>
      /\ UNCHANGED toGcs \/ MockLink!Respond(MockLink!ValueOf(Head(sending)))
  BY DEF MockLink!SendNextParameter
<1>3. Head(sending) \in MockLink!Keys /\ sending' \in Seq(MockLink!Keys)
  BY <1>1, <1>2
<1>4. toGcs' \in Seq(Answers)
  BY <1>1, <1>2, <1>3, ValueIsTrue, Responded DEF Answers
<1> QED
  BY <1>1, <1>2, <1>3, <1>4 DEF VehicleWorks, SameNames

LEMMA VolatileChanged ==
  ASSUME VehicleOK, MockLink!VolatileValueChanges
  PROVE  VehicleWorks
<1>1. /\ IsMap(vehicleParams, Component, CacheMap) /\ sending \in Seq(MockLink!Keys)
      /\ toGcs \in Seq(Answers)
  BY DEF VehicleOK, Answers
<1>2. PICK p \in Volatile \cap MockLink!Keys, v \in Value :
        /\ vehicleParams' = [vehicleParams EXCEPT ![p[1]][p[2]] = v]
        /\ UNCHANGED <<sending, sendsHash, failureMode, toGcs>>
  BY DEF MockLink!VolatileValueChanges
<1>3. SameNames /\ IsMap(vehicleParams', Component, CacheMap)
  BY <1>1, <1>2, SetKeepsNames
<1> QED
  BY <1>1, <1>2, <1>3 DEF VehicleWorks

\* The vehicle's part of the invariant
LEMMA VehicleStays ==
  ASSUME VehicleOK, VehicleWorks, regime' = regime, toVehicle' \in Seq(Requests)
  PROVE  VehicleOK'
<1>1. /\ MockLink!Keys' = MockLink!Keys /\ TrueValues' = TrueValues /\ Requests' = Requests
      /\ MockLink!Names(DefaultComponent)' = MockLink!Names(DefaultComponent)
  BY NamesStay DEF VehicleOK, VehicleWorks
<1>2. DOMAIN (vehicleParams'[DefaultComponent]) = DOMAIN vehicleParams[DefaultComponent]
  BY DEF VehicleOK, VehicleWorks, SameNames
<1>3. TrueHashes' = TrueHashes
  BY <1>1, <1>2 DEF TrueHashes, VolatileOf
<1> QED
  BY <1>1, <1>3 DEF VehicleOK, VehicleWorks, SameNames, Answers
-----------------------------------------------------------------------------
(* The invariant *)

ProtocolInv == VehicleOK /\ ManagerInv

GuardedInv == regime \in Regimes /\ (KnowVolatile(regime) => ProtocolInv)

LEMMA ProtocolStarts ==
  ASSUME ProtocolInit
  PROVE  GuardedInv
<1>1. regime \in Regimes /\ regime \in Regime
  BY RegimeAssumption DEF ProtocolInit
<1>2. IsMap(vehicleParams, Component, CacheMap) /\ DefaultComponent \in DOMAIN vehicleParams
  <2>1. vehicleParams \in UNION {[C \cup {DefaultComponent} -> CacheMap] : C \in SUBSET Component}
    BY <1>1 DEF ProtocolInit, Regime
  <2>2. PICK C \in SUBSET Component : vehicleParams \in [C \cup {DefaultComponent} -> CacheMap]
    BY <2>1
  <2> QED
    BY <2>2, ComponentAssumption DEF IsMap
<1>3. toVehicle \in Seq(Requests)
  <2> DEFINE s == <<RequestList(All)>>
             n == IF LinkCapacity > 0 THEN 1 ELSE 0
  <2>1. toVehicle = SubSeq(s, 1, n)
    BY DEF ProtocolInit, Init
  <2>2. RequestList(All) \in Requests
    BY DEF Requests
  <2>3. s \in Seq(Requests) /\ Len(s) = 1 /\ n \in Nat /\ n <= Len(s)
    BY <2>2
  <2> HIDE DEF s, n
  <2>4. \A i \in 1 .. n : s[i] \in Requests
    BY <2>3
  <2> QED
    BY <2>1, <2>3, <2>4
<1>4. VehicleOK
  BY <1>1, <1>2, <1>3 DEF ProtocolInit, VehicleOK
<1>5. ParameterTypeOK /\ PendingIsTimed
  BY InitOK DEF ProtocolInit
<1>6. LearnedOK /\ EveryIndexIsAccounted /\ ReadyIsWhole
  BY DEF ProtocolInit, Init, LearnedOK, EveryIndexIsAccounted, ReadyIsWhole, None
<1>7. KnowVolatile(regime) => CacheKnows
  <2>1. fromCache \in Seq(TrueValues)
    BY DEF ProtocolInit, Init
  <2> QED
    BY <2>1 DEF ProtocolInit, KnowVolatile, CacheKnows
<1> QED
  BY <1>1, <1>4, <1>5, <1>6, <1>7 DEF GuardedInv, ProtocolInv, ManagerInv

\* A step of the ground station leaves the vehicle alone.
LEMMA VehicleUntouched ==
  ASSUME VehicleOK, UNCHANGED <<vehicleVars, regime>>, toVehicle' \in Seq(Requests),
         toGcs' \in Seq(Answers)
  PROVE  VehicleOK'
<1>1. VehicleWorks
  BY DEF VehicleOK, VehicleWorks, SameNames, vehicleVars
<1> QED
  BY <1>1, VehicleStays

\* What arrives is a value or a hash, and is handled as one.
LEMMA Arrival ==
  ASSUME VehicleOK, GroundReceives
  PROVE  /\ toGcs' \in Seq(Answers) /\ UNCHANGED <<vehicleVars, regime>>
         /\ \/ \E m \in TrueValues : ParameterUpdate(m)
            \/ \E m \in TrueHashes : HashReceived(m)
<1>1. /\ toGcs \in Seq(Answers) /\ toGcs /= <<>> /\ toGcs' = Tail(toGcs)
      /\ UNCHANGED <<vehicleVars, regime>>
      /\ IF "hash" \in DOMAIN Head(toGcs) THEN HashReceived(Head(toGcs))
                                          ELSE ParameterUpdate(Head(toGcs))
  BY DEF VehicleOK, GroundReceives, Answers
<1>2. Head(toGcs) \in Answers /\ toGcs' \in Seq(Answers)
  BY <1>1
<1>3. \A m \in TrueValues : "hash" \notin DOMAIN m
  BY DEF TrueValues, ParamValue
<1>4. \A m \in TrueHashes : "hash" \in DOMAIN m
  BY DEF TrueHashes, HashCheck
<1> QED
  BY <1>1, <1>2, <1>3, <1>4 DEF Answers

LEMMA GroundStepKeeps ==
  ASSUME ProtocolInv,
         \/ UserWrites \/ UserRefreshes \/ GroundReceives \/ GroundLoadsFromCache \/ TimerFires
  PROVE  ProtocolInv' /\ regime' = regime
<1>1. VehicleOK /\ ManagerInv /\ toGcs \in Seq(Answers)
  BY DEF ProtocolInv, VehicleOK, Answers
<1> SUFFICES /\ UNCHANGED <<vehicleVars, regime>> /\ ManagerInv'
             /\ toVehicle' \in Seq(Requests) /\ toGcs' \in Seq(Answers)
  BY <1>1, VehicleUntouched DEF ProtocolInv
<1>2. CASE UserWrites
  <2>1. PICK p \in DOMAIN facts, v \in Value : ValueUpdated(p, v)
    BY <1>2 DEF UserWrites
  <2>2. UNCHANGED <<vehicleVars, toGcs, regime>>
    BY <1>2 DEF UserWrites
  <2> QED
    BY <1>1, <2>1, <2>2, UserWriteKeeps DEF vehicleVars
<1>3. CASE UserRefreshes
  <2>1. UNCHANGED <<vehicleVars, toGcs, regime>>
    BY <1>3 DEF UserRefreshes
  <2>2. (\E p \in DOMAIN facts : RefreshParameter(p)) \/ RefreshAllParameters(All)
    BY <1>3 DEF UserRefreshes
  <2> QED
    BY <1>1, <2>1, <2>2, UserRefreshKeeps, UserRefreshesAll DEF vehicleVars
<1>4. CASE GroundReceives
  BY <1>1, <1>4, Arrival, ValueArrives, HashArrives DEF vehicleVars
<1>5. CASE GroundLoadsFromCache
  BY <1>1, <1>5, CacheLoads DEF GroundLoadsFromCache, vehicleVars
<1>6. CASE TimerFires
  BY <1>1, <1>6, InitialTimeoutKeeps, TimeoutKeeps DEF TimerFires, vehicleVars
<1> QED
  BY <1>2, <1>3, <1>4, <1>5, <1>6

LEMMA VehicleStepKeeps ==
  ASSUME ProtocolInv,
         \/ VehicleReceives \/ VehicleSends \/ VolatileValueChanges \/ LoseToVehicle \/ LoseToGcs
         \/ UNCHANGED protocolVars
  PROVE  ProtocolInv' /\ regime' = regime
<1>1. /\ VehicleOK /\ ManagerInv /\ toVehicle \in Seq(Requests) /\ toGcs \in Seq(Answers)
      /\ IsMap(vehicleParams, Component, CacheMap) /\ sending \in Seq(MockLink!Keys)
  BY DEF ProtocolInv, VehicleOK, Answers
<1> SUFFICES /\ VehicleWorks /\ regime' = regime /\ UNCHANGED managerVars
             /\ toVehicle' \in Seq(Requests)
  <2>1. SameNames
    BY DEF VehicleWorks
  <2> QED
    BY <1>1, <2>1, VehicleStays, VehicleKeeps DEF ProtocolInv, ManagerInv
<1>2. CASE VehicleReceives
  <2>1. /\ toVehicle /= <<>> /\ toVehicle' = Tail(toVehicle)
        /\ MockLink!HandleMessage(Head(toVehicle))
        /\ UNCHANGED managerVars /\ regime' = regime
    BY <1>2 DEF VehicleReceives
  <2>2. Head(toVehicle) \in Requests /\ toVehicle' \in Seq(Requests)
    BY <1>1, <2>1
  <2> QED
    BY <1>1, <2>1, <2>2, MessageHandled
<1>3. CASE VehicleSends
  <2>1. MockLink!SendNextParameter /\ UNCHANGED vars /\ regime' = regime
    BY <1>3 DEF VehicleSends
  <2> QED
    BY <1>1, <2>1, NextParameterSent DEF vars
<1>4. CASE VolatileValueChanges
  <2>1. MockLink!VolatileValueChanges /\ UNCHANGED vars /\ regime' = regime
    BY <1>4 DEF VolatileValueChanges
  <2> QED
    BY <1>1, <2>1, VolatileChanged DEF vars
<1>5. CASE LoseToVehicle
  <2>1. /\ toVehicle /= <<>> /\ toVehicle' = Tail(toVehicle)
        /\ UNCHANGED <<managerVars, vehicleVars, toGcs, regime>>
    BY <1>5 DEF LoseToVehicle
  <2>2. toVehicle' \in Seq(Requests)
    BY <1>1, <2>1
  <2> QED
    BY <1>1, <2>1, <2>2 DEF VehicleWorks, SameNames, vehicleVars
<1>6. CASE LoseToGcs
  <2>1. toGcs /= <<>> /\ toGcs' = Tail(toGcs) /\ UNCHANGED <<vars, vehicleVars, regime>>
    BY <1>6 DEF LoseToGcs
  <2>2. toGcs' \in Seq(Answers)
    BY <1>1, <2>1
  <2> QED
    BY <1>1, <2>1, <2>2 DEF VehicleWorks, SameNames, vehicleVars, vars
<1>7. CASE UNCHANGED protocolVars
  <2>1. UNCHANGED <<vars, vehicleVars, toGcs, regime>>
    BY <1>7 DEF protocolVars
  <2> QED
    BY <1>1, <2>1 DEF VehicleWorks, SameNames, vehicleVars, vars
<1> QED
  BY <1>2, <1>3, <1>4, <1>5, <1>6, <1>7

LEMMA RegimeStays ==
  ASSUME [ProtocolNext]_protocolVars
  PROVE  regime' = regime
BY DEF ProtocolNext, UserWrites, UserRefreshes, GroundReceives, GroundLoadsFromCache, TimerFires,
   VehicleReceives, VehicleSends, VolatileValueChanges, LoseToVehicle, LoseToGcs, protocolVars

LEMMA ProtocolStepKeeps ==
  ASSUME ProtocolInv, [ProtocolNext]_protocolVars
  PROVE  ProtocolInv'
<1>1. CASE UserWrites \/ UserRefreshes \/ GroundReceives \/ GroundLoadsFromCache \/ TimerFires
  BY <1>1, GroundStepKeeps
<1>2. CASE \/ VehicleReceives \/ VehicleSends \/ VolatileValueChanges \/ LoseToVehicle
           \/ LoseToGcs \/ UNCHANGED protocolVars
  BY <1>2, VehicleStepKeeps
<1> QED
  BY <1>1, <1>2 DEF ProtocolNext

\* Whatever is lost, retried or loaded from a cache, what is under way and what
\* was learned is true of the vehicle, and nothing of it is lost track of.
THEOREM ProtocolInvariance == ProtocolSpec => []GuardedInv
<1>1. ProtocolInit => GuardedInv
  BY ProtocolStarts
<1>2. GuardedInv /\ [ProtocolNext]_protocolVars => GuardedInv'
  BY RegimeStays, ProtocolStepKeeps DEF GuardedInv
<1> QED
  BY <1>1, <1>2, PTL DEF ProtocolSpec

\* No index of a component that was seen is lost track of, over links that lose
\* messages, with answers that come late, two components whose indices are the
\* same in the batch queue, and values from a cache.
THEOREM IndicesAreAccounted ==
  ASSUME CachesKnowVolatile
  PROVE  ProtocolSpec => []EveryIndexIsAccounted
<1>1. GuardedInv => EveryIndexIsAccounted
  BY DEF CachesKnowVolatile, GuardedInv, ProtocolInv, ManagerInv
<1> QED
  BY <1>1, ProtocolInvariance, PTL

\* A load that is complete with nothing said to be missing has every parameter
\* of the default component (_checkInitialLoadComplete).
THEOREM LoadsAreWhole ==
  ASSUME CachesKnowVolatile
  PROVE  ProtocolSpec => []ReadyIsWhole
<1>1. GuardedInv => ReadyIsWhole
  BY DEF CachesKnowVolatile, GuardedInv, ProtocolInv, ManagerInv
<1> QED
  BY <1>1, ProtocolInvariance, PTL
-----------------------------------------------------------------------------
(* The outcome of a load *)

\* The load is asked for until a value arrives, or the user is told.
AskedOrTold ==
  ~regime.hash /\ DOMAIN vehicleParams = {DefaultComponent} /\ ~initialRequestTimer =>
    Loaded(DefaultComponent) \/ "NoResponse" \in told

LEMMA TakenOverIsLoaded ==
  ASSUME NEW m \in TrueValues, NEW after, Update(m, after),
         DOMAIN vehicleParams = {DefaultComponent}
  PROVE  Loaded(DefaultComponent)'
<1>1. m.comp = DefaultComponent
  BY DEF TrueValues
<1>2. facts' = With(facts, <<m.comp, m.name>>, m.value)
  BY DEF Update
<1>3. <<m.comp, m.name>> \in DOMAIN facts' /\ <<m.comp, m.name>>[1] = DefaultComponent
  BY <1>1, <1>2 DEF With
<1> QED
  BY <1>3 DEF Loaded

\* The steps that take over no value tell no less than was told.
LEMMA ToldStays ==
  ASSUME \/ \E p \in DOMAIN facts, v \in Value : ValueUpdated(p, v)
         \/ \E p \in DOMAIN facts : RefreshParameter(p)
         \/ RefreshAllParameters(All)
         \/ WaitingParamTimeout
  PROVE  DOMAIN facts' = DOMAIN facts /\ told \subseteq told'
         /\ (~initialRequestTimer' => ~initialRequestTimer)
<1>1. CASE \E p \in DOMAIN facts, v \in Value : ValueUpdated(p, v)
  BY <1>1 DEF ValueUpdated
<1>2. CASE \E p \in DOMAIN facts : RefreshParameter(p)
  BY <1>2 DEF RefreshParameter
<1>3. CASE RefreshAllParameters(All)
  BY <1>3 DEF RefreshAllParameters
<1>4. CASE WaitingParamTimeout
  <2>1. \A also : CheckInitialLoadComplete(also) => told \subseteq told'
    BY DEF CheckInitialLoadComplete
  <2>2. told \subseteq told'
    BY <1>4, <2>1 DEF WaitingParamTimeout, RequestIndices, AwaitDefaultComponent, RetryWrites,
       RetryReads, NothingToRetry
  <2> QED
    BY <1>4, <2>2 DEF WaitingParamTimeout
<1> QED
  BY <1>1, <1>2, <1>3, <1>4

LEMMA AskedOrToldStep ==
  ASSUME GenericFirmware = FALSE, ProtocolInv, AskedOrTold, [ProtocolNext]_protocolVars
  PROVE  AskedOrTold'
<1> SUFFICES ASSUME ~regime'.hash, DOMAIN vehicleParams' = {DefaultComponent}, ~initialRequestTimer'
             PROVE  Loaded(DefaultComponent)' \/ "NoResponse" \in told'
  BY DEF AskedOrTold
<1>1. regime' = regime /\ VehicleOK /\ ManagerInv
  BY RegimeStays DEF ProtocolInv
<1>2. CASE \/ UserWrites \/ UserRefreshes \/ GroundReceives \/ GroundLoadsFromCache \/ TimerFires
  <2>1. vehicleParams' = vehicleParams
    BY <1>2 DEF UserWrites, UserRefreshes, GroundReceives, GroundLoadsFromCache, TimerFires,
       vehicleVars
  <2>2. CASE \/ \E p \in DOMAIN facts, v \in Value : ValueUpdated(p, v)
             \/ \E p \in DOMAIN facts : RefreshParameter(p)
             \/ RefreshAllParameters(All)
             \/ WaitingParamTimeout
    BY <1>1, <2>1, <2>2, ToldStays DEF AskedOrTold, Loaded
  <2>3. CASE GroundReceives
    <3>1. PICK m \in TrueValues : ParameterUpdate(m)
      BY <1>1, <2>3, Arrival DEF TrueHashes
    <3>2. Update(m, NoRequests)
      BY <3>1 DEF ParameterUpdate
    <3> QED
      BY <2>1, <3>2, TakenOverIsLoaded
  <2>4. CASE LoadFromCache
    <3>1. Head(fromCache) \in TrueValues
      <4>1. fromCache \in Seq(TrueValues) /\ fromCache /= <<>>
        BY <1>1, <2>4 DEF ManagerInv, CacheKnows, LoadFromCache
      <4> QED
        BY <4>1
    <3>2. \E after : Update(Head(fromCache), after)
      BY <2>4 DEF LoadFromCache
    <3> QED
      BY <2>1, <3>1, <3>2, TakenOverIsLoaded
  <2>5. CASE InitialRequestTimeout
    BY <1>1, <2>1, <2>5 DEF InitialRequestTimeout, AskedOrTold, Loaded
  <2> QED
    BY <1>2, <2>2, <2>3, <2>4, <2>5
       DEF UserWrites, UserRefreshes, GroundLoadsFromCache, TimerFires
<1>3. CASE \/ VehicleReceives \/ VehicleSends \/ VolatileValueChanges \/ LoseToVehicle
           \/ LoseToGcs \/ UNCHANGED protocolVars
  <2>1. UNCHANGED managerVars
    BY <1>3 DEF VehicleReceives, VehicleSends, VolatileValueChanges, LoseToVehicle, LoseToGcs,
       protocolVars, vars
  <2>2. DOMAIN vehicleParams' = DOMAIN vehicleParams
    <3>1. CASE VehicleReceives
      <4>1. Head(toVehicle) \in Requests /\ MockLink!HandleMessage(Head(toVehicle))
        <5>1. toVehicle \in Seq(Requests) /\ toVehicle /= <<>>
          BY <1>1, <3>1 DEF VehicleOK, VehicleReceives
        <5> QED
          BY <3>1, <5>1 DEF VehicleReceives
      <4> QED
        BY <1>1, <4>1, MessageHandled DEF VehicleWorks, SameNames
    <3>2. CASE VehicleSends \/ VolatileValueChanges
      BY <1>1, <3>2, NextParameterSent, VolatileChanged
         DEF VehicleSends, VolatileValueChanges, VehicleWorks, SameNames
    <3>3. CASE LoseToVehicle \/ LoseToGcs \/ UNCHANGED protocolVars
      BY <3>3 DEF LoseToVehicle, LoseToGcs, protocolVars, vehicleVars
    <3> QED
      BY <1>3, <3>1, <3>2, <3>3
  <2> QED
    BY <1>1, <2>1, <2>2 DEF AskedOrTold, Loaded, managerVars, timers
<1> QED
  BY <1>2, <1>3 DEF ProtocolNext

\* The load of a vehicle of one component that sends no hash ends complete, or
\* the user is told that it did not respond, whatever is lost (the two timers
\* together; the generic firmware is not expected to have parameters).
THEOREM LoadsHaveOutcome ==
  ASSUME GenericFirmware = FALSE
  PROVE  ProtocolSpec => []LoadHasOutcome
<1> DEFINE Inv == ~regime.hash => AskedOrTold
<1>1. ProtocolInit => Inv
  BY DEF ProtocolInit, Init, AskedOrTold
<1>2. GuardedInv /\ Inv /\ [ProtocolNext]_protocolVars => Inv'
  BY RegimeStays, AskedOrToldStep DEF GuardedInv, KnowVolatile
<1>3. GuardedInv /\ Inv => LoadHasOutcome
  <2> SUFFICES ASSUME GuardedInv, Inv, AtRest, ~regime.hash,
                      DOMAIN vehicleParams = {DefaultComponent}
               PROVE  parametersReady \/ "NoResponse" \in told
    BY DEF LoadHasOutcome
  <2>1. Loaded(DefaultComponent) \/ "NoResponse" \in told
    BY DEF AtRest, AskedOrTold
  <2>2. PendingIsTimed
    BY DEF GuardedInv, KnowVolatile, ProtocolInv, ManagerInv
  <2> QED
    BY <2>1, <2>2 DEF PendingIsTimed, AtRest
<1> HIDE DEF Inv
<1> QED
  BY <1>1, <1>2, <1>3, ProtocolInvariance, PTL DEF ProtocolSpec
-----------------------------------------------------------------------------
(* Links that lose nothing and keep the order of messages *)

LinksHaveRoom == Len(toVehicle) < LinkCapacity /\ Len(toGcs) < LinkCapacity

VehicleValue(p) == vehicleParams[p[1]][p[2]]

IsValueOf(m, p) == "hash" \notin DOMAIN m /\ m.comp = p[1] /\ m.name = p[2]
IsHashOf(m, p)  == "hash" \in DOMAIN m /\ m.comp = p[1] /\ p[2] \in DOMAIN m.hash
IsWriteOf(m, p) == m.kind = "Set" /\ m.comp = p[1] /\ m.param = p[2]

\* The message has a value of p that is not, or no longer, the vehicle's.
IsOld(m, p) ==
  \/ IsValueOf(m, p) /\ m.value /= VehicleValue(p)
  \/ IsHashOf(m, p) /\ m.hash[p[2]] /= VehicleValue(p)

ValueFollows(i, p) == \E j \in DOMAIN toGcs : j > i /\ IsValueOf(toGcs[j], p)
WriteFollows(i, p) == \E j \in DOMAIN toVehicle : j > i /\ IsWriteOf(toVehicle[j], p)

\* A value that is old, under way, in the cache being loaded or on the screen,
\* will be replaced.
OldIsReplaced(p) ==
  /\ \A i \in DOMAIN toGcs : IsOld(toGcs[i], p) => ValueFollows(i, p)
  /\ \A i \in DOMAIN fromCache : IsOld(fromCache[i], p) => ValueFollows(0, p)
  /\ p \in DOMAIN facts /\ facts[p] /= VehicleValue(p) =>
       ValueFollows(0, p) \/ WriteFollows(0, p)

\* Of the writes of a parameter the last has what the user wrote last; the
\* vehicle holds that, or it is still to come.
LastWriteCounts(p) ==
  /\ \A i \in DOMAIN toVehicle :
       IsWriteOf(toVehicle[i], p) /\ toVehicle[i].value /= written[p] => WriteFollows(i, p)
  /\ VehicleValue(p) /= written[p] => WriteFollows(0, p)

\* What waits to be written is what the user wrote last.
WaitsToBeWritten ==
  /\ DOMAIN written \subseteq DOMAIN facts
  /\ \A p \in DOMAIN waitingWriteName : p \in DOMAIN written /\ facts[p] = written[p]

SoundInv ==
  /\ \A p \in MockLink!Keys \ Volatile : OldIsReplaced(p)
  /\ \A p \in DOMAIN written \ Volatile : LastWriteCounts(p)
  /\ WaitsToBeWritten
-----------------------------------------------------------------------------
(* Sequences as links *)

\* A message is taken from the front.
LEMMA ValuesMoveUp ==
  ASSUME NEW S, toGcs \in Seq(S), toGcs /= <<>>, toGcs' = Tail(toGcs), NEW p, NEW i \in Nat,
         ValueFollows(i, p), i = 0 => ~IsValueOf(toGcs[1], p)
  PROVE  ValueFollows(IF i = 0 THEN 0 ELSE i - 1, p)'
<1>1. PICK j \in DOMAIN toGcs : j > i /\ IsValueOf(toGcs[j], p)
  BY DEF ValueFollows
<1>2. /\ j - 1 \in DOMAIN toGcs' /\ toGcs'[j - 1] = toGcs[j]
      /\ j - 1 > (IF i = 0 THEN 0 ELSE i - 1)
  BY <1>1
<1> QED
  BY <1>1, <1>2 DEF ValueFollows, IsValueOf

LEMMA WritesMoveUp ==
  ASSUME NEW S, toVehicle \in Seq(S), toVehicle /= <<>>, toVehicle' = Tail(toVehicle), NEW p,
         NEW i \in Nat, WriteFollows(i, p), i = 0 => ~IsWriteOf(toVehicle[1], p)
  PROVE  WriteFollows(IF i = 0 THEN 0 ELSE i - 1, p)'
<1>1. PICK j \in DOMAIN toVehicle : j > i /\ IsWriteOf(toVehicle[j], p)
  BY DEF WriteFollows
<1>2. /\ j - 1 \in DOMAIN toVehicle' /\ toVehicle'[j - 1] = toVehicle[j]
      /\ j - 1 > (IF i = 0 THEN 0 ELSE i - 1)
  BY <1>1
<1> QED
  BY <1>1, <1>2 DEF WriteFollows, IsWriteOf

\* A link with room takes everything.
LEMMA AllIsSent ==
  ASSUME NEW S, toVehicle \in Seq(S), NEW ms \in Seq(S), SendAll(ms), LinksHaveRoom'
  PROVE  toVehicle' = toVehicle \o ms
<1> DEFINE sent == toVehicle \o ms
           n == IF Len(sent) < LinkCapacity THEN Len(sent) ELSE LinkCapacity
<1>1. sent \in Seq(S) /\ n \in Nat /\ n <= Len(sent)
  BY InputAssumption
<1>2. toVehicle' = SubSeq(sent, 1, n)
  BY DEF SendAll
<1>3. Len(toVehicle') < LinkCapacity
  BY DEF LinksHaveRoom
<1>4. n < LinkCapacity => n = Len(sent)
  BY <1>1
<1> HIDE DEF sent, n
<1>5. Len(toVehicle') = n
  BY <1>1, <1>2
<1>6. toVehicle' = sent
  BY <1>1, <1>2, <1>3, <1>4, <1>5
<1> QED
  BY <1>6 DEF sent

LEMMA AnswerIsSent ==
  ASSUME NEW S, toGcs \in Seq(S), NEW m \in S, MockLink!Respond(m), LinksHaveRoom'
  PROVE  toGcs' = Append(toGcs, m)
BY DEF MockLink!Respond, LinksHaveRoom

\* What follows is not changed by what is sent later.
LEMMA WritesStay ==
  ASSUME NEW S, toVehicle \in Seq(S), NEW ms \in Seq(S), toVehicle' = toVehicle \o ms,
         NEW p, NEW i \in Nat, WriteFollows(i, p)
  PROVE  WriteFollows(i, p)'
<1>1. PICK j \in DOMAIN toVehicle : j > i /\ IsWriteOf(toVehicle[j], p)
  BY DEF WriteFollows
<1>2. j \in DOMAIN toVehicle' /\ toVehicle'[j] = toVehicle[j]
  BY <1>1
<1> QED
  BY <1>1, <1>2 DEF WriteFollows, IsWriteOf

LEMMA ValuesStay ==
  ASSUME NEW S, toGcs \in Seq(S), NEW m \in S, toGcs' = Append(toGcs, m),
         NEW p, NEW i \in Nat, ValueFollows(i, p)
  PROVE  ValueFollows(i, p)'
<1>1. PICK j \in DOMAIN toGcs : j > i /\ IsValueOf(toGcs[j], p)
  BY DEF ValueFollows
<1>2. j \in DOMAIN toGcs' /\ toGcs'[j] = toGcs[j]
  BY <1>1
<1> QED
  BY <1>1, <1>2 DEF ValueFollows, IsValueOf
-----------------------------------------------------------------------------
(* What a step of the ground station sends *)

NoWrites(ms) == \A i \in DOMAIN ms : ms[i].kind /= "Set"

\* The writes among the messages are those that wait, with the values on the screen.
SendsAgain(ms) ==
  \A i \in DOMAIN ms :
    ms[i].kind = "Set" => \E p \in DOMAIN waitingWriteName : ms[i] = Write(p, facts[p])

LEMMA IndicesAreNoWrites ==
  ASSUME NEW waiting, NEW queue
  PROVE  NoWrites(IndexRequests(waiting, queue))
BY DEF NoWrites, IndexRequests, ReadIndex

LEMMA NothingIsSent ==
  ASSUME VehicleOK, toVehicle' = toVehicle
  PROVE  \E ms \in Seq(Requests) : toVehicle' = toVehicle \o ms /\ NoWrites(ms)
<1>1. toVehicle \in Seq(Requests) /\ <<>> \in Seq(Requests)
  BY DEF VehicleOK
<1>2. toVehicle' = toVehicle \o <<>> /\ NoWrites(<<>>)
  BY <1>1 DEF NoWrites
<1> QED
  BY <1>1, <1>2

LEMMA UpdateSends ==
  ASSUME VehicleOK, LearnedOK, NEW m \in TrueValues, NEW after \in Seq(Requests),
         NoWrites(after), Update(m, after), LinksHaveRoom'
  PROVE  \E ms \in Seq(Requests) : toVehicle' = toVehicle \o ms /\ NoWrites(ms)
<1> DEFINE i == <<m.comp, m.index>>
           waiting == Expected(m.comp, m.count)
           rest == Without(waiting, {i})
           queue == IF i \in DOMAIN waiting THEN indexBatchQueue \ {m.index} ELSE indexBatchQueue
           own == Indices(m.comp, m.count)
<1>1. IsMap(vehicleParams, Component, CacheMap) /\ toVehicle \in Seq(Requests)
  BY DEF VehicleOK
<1>2. DOMAIN waiting \subseteq DOMAIN waitingReadIndex \cup own
  BY DEF Expected
<1>3. own \subseteq VehicleIndices
  BY <1>1, IndicesOfVehicle DEF TrueValues
<1>4. DOMAIN rest \subseteq VehicleIndices
  BY <1>2, <1>3 DEF Without, LearnedOK
<1>5. CASE SendAll(IndexRequests(rest, queue) \o after)
  <2> DEFINE ask == IndexRequests(rest, queue)
             ms == ask \o after
  <2>1. ask \in Seq(Requests) /\ NoWrites(ask)
    BY <1>1, <1>4, IndicesRequested, IndicesAreNoWrites
  <2>2. SendAll(ms)
    BY <1>5
  <2> HIDE DEF ask
  <2>3. ms \in Seq(Requests)
    BY <2>1
  <2>4. NoWrites(ms)
    <3> SUFFICES ASSUME NEW k \in DOMAIN ms
                 PROVE  ms[k].kind /= "Set"
      BY DEF NoWrites
    <3>1. ms[k] = IF k <= Len(ask) THEN ask[k] ELSE after[k - Len(ask)]
      BY <2>1
    <3>2. IF k <= Len(ask) THEN k \in DOMAIN ask ELSE k - Len(ask) \in DOMAIN after
      BY <2>1
    <3> QED
      BY <2>1, <3>1, <3>2 DEF NoWrites
  <2> HIDE DEF ms
  <2> QED
    BY <1>1, <2>2, <2>3, <2>4, AllIsSent
<1>6. CASE SendAll(after)
  BY <1>1, <1>6, AllIsSent
<1> QED
  BY <1>5, <1>6 DEF Update

LEMMA TimeoutSends ==
  ASSUME VehicleOK, ManagerInv, LinksHaveRoom', InitialRequestTimeout \/ WaitingParamTimeout
  PROVE  \E ms \in Seq(Requests) : toVehicle' = toVehicle \o ms /\ SendsAgain(ms)
<1>1. toVehicle \in Seq(Requests)
  BY DEF VehicleOK
<1>2. \A ms : NoWrites(ms) => SendsAgain(ms)
  BY DEF NoWrites, SendsAgain
<1>3. CASE toVehicle' = toVehicle
  BY <1>2, <1>3, NothingIsSent
<1>4. CASE Send(RequestList(All))
  <2> DEFINE ms == <<RequestList(All)>>
  <2>1. ms \in Seq(Requests) /\ NoWrites(ms)
    <3>1. RequestList(All) \in Requests
      BY DEF Requests
    <3> QED
      BY <3>1 DEF NoWrites, RequestList
  <2>2. SendAll(ms)
    BY <1>4 DEF Send
  <2> HIDE DEF ms
  <2> QED
    BY <1>1, <1>2, <2>1, <2>2, AllIsSent
<1>5. CASE SendAll(IndexRequests(waitingReadIndex, {}))
  <2> DEFINE ms == IndexRequests(waitingReadIndex, {})
  <2>1. ms \in Seq(Requests) /\ NoWrites(ms)
    BY IndicesRequested, IndicesAreNoWrites DEF VehicleOK, ManagerInv, LearnedOK
  <2> HIDE DEF ms
  <2> QED
    BY <1>1, <1>2, <1>5, <2>1, AllIsSent DEF ms
<1>6. WriteRequests \in Seq(Requests) /\ ReadRequests \in Seq(Requests)
  BY NamesRequested DEF ManagerInv, ParameterTypeOK
<1>7. CASE SendAll(WriteRequests)
  <2> DEFINE S == Resent(waitingWriteName)
             ms == WriteRequests
  <2>1. ms = [i \in DOMAIN Ordered(S) |-> Write(Ordered(S)[i], facts[Ordered(S)[i]])]
    BY DEF WriteRequests
  <2>2. S \subseteq DOMAIN waitingWriteName
    BY DEF Resent, InBatch
  <2>3. S \in SUBSET Pairs /\ IsFiniteSet(S)
    <3>1. S \subseteq MockLink!Keys
      BY <2>2 DEF ManagerInv, LearnedOK, ParameterTypeOK, FactTypeOK, IsMap
    <3> HIDE DEF S
    <3> QED
      BY <3>1, KeysAreFinite, FS_Subset DEF VehicleOK
  <2> HIDE DEF S
  <2>4. \A i \in DOMAIN Ordered(S) : Ordered(S)[i] \in S
    BY <2>3, OrderedLists
  <2>5. SendsAgain(ms)
    BY <2>1, <2>2, <2>4 DEF SendsAgain
  <2> QED
    BY <1>1, <1>6, <1>7, <2>5, AllIsSent
<1>8. CASE SendAll(ReadRequests)
  <2>1. NoWrites(ReadRequests)
    BY DEF NoWrites, ReadRequests, ReadName
  <2> QED
    BY <1>1, <1>2, <1>6, <1>8, <2>1, AllIsSent
<1> QED
  BY <1>3, <1>4, <1>5, <1>7, <1>8 DEF InitialRequestTimeout, RequestAll, WaitingParamTimeout,
     RequestIndices, AwaitDefaultComponent, RetryWrites, RetryReads, NothingToRetry
-----------------------------------------------------------------------------
(* What is old is replaced: the steps of the ground station *)

LEMMA KeyOfValue ==
  ASSUME IsMap(vehicleParams, Component, CacheMap), NEW p \in MockLink!Keys, NEW m \in TrueValues
  PROVE  /\ IsValueOf(m, p) <=> <<m.comp, m.name>> = p
         /\ ~IsHashOf(m, p)
         /\ IsOld(m, p) <=> <<m.comp, m.name>> = p /\ m.value /= VehicleValue(p)
<1>1. p = <<p[1], p[2]>>
  BY ValueIsTrue
<1>2. "hash" \notin DOMAIN m
  BY DEF TrueValues, ParamValue
<1> QED
  BY <1>1, <1>2 DEF IsValueOf, IsHashOf, IsOld

LEMMA NothingNewIsShown ==
  ASSUME VehicleOK, NEW p, OldIsReplaced(p), UNCHANGED <<vehicleParams, toGcs, fromCache, facts>>,
         NEW ms \in Seq(Requests), toVehicle' = toVehicle \o ms
  PROVE  OldIsReplaced(p)'
<1>1. toVehicle \in Seq(Requests)
  BY DEF VehicleOK
<1>2. WriteFollows(0, p) => WriteFollows(0, p)'
  BY <1>1, WritesStay
<1>3. \A i : ValueFollows(i, p)' = ValueFollows(i, p)
  BY DEF ValueFollows
<1>4. VehicleValue(p)' = VehicleValue(p) /\ \A m : IsOld(m, p)' = IsOld(m, p)
  BY DEF VehicleValue, IsOld
<1> QED
  BY <1>2, <1>3, <1>4 DEF OldIsReplaced, IsOld, VehicleValue

\* A value that arrives is shown; if it is old another one follows.
LEMMA ArrivedIsReplaced ==
  ASSUME VehicleOK, NEW p \in MockLink!Keys, OldIsReplaced(p),
         toGcs /= <<>>, toGcs' = Tail(toGcs), NEW m \in TrueValues, m = toGcs[1],
         UNCHANGED <<vehicleParams, fromCache>>, fromCache = <<>>,
         facts' = With(facts, <<m.comp, m.name>>, m.value),
         NEW ms \in Seq(Requests), toVehicle' = toVehicle \o ms
  PROVE  OldIsReplaced(p)'
<1>1. /\ toVehicle \in Seq(Requests) /\ toGcs \in Seq(Answers)
      /\ IsMap(vehicleParams, Component, CacheMap)
  BY DEF VehicleOK, Answers
<1>2. WriteFollows(0, p) => WriteFollows(0, p)'
  BY <1>1, WritesStay
<1>3. VehicleValue(p)' = VehicleValue(p) /\ \A x : IsOld(x, p)' = IsOld(x, p)
  BY DEF VehicleValue, IsOld
<1>4. ASSUME NEW i \in DOMAIN toGcs', IsOld(toGcs'[i], p)
      PROVE  ValueFollows(i, p)'
  <2>1. i + 1 \in DOMAIN toGcs /\ toGcs[i + 1] = toGcs'[i] /\ i \in Nat /\ i + 1 /= 0
    BY <1>1
  <2>2. ValueFollows(i + 1, p)
    BY <1>4, <2>1 DEF OldIsReplaced
  <2> QED
    BY <1>1, <2>1, <2>2, ValuesMoveUp
<1>5. CASE <<m.comp, m.name>> = p
  <2>1. facts'[p] = m.value /\ 1 \in DOMAIN toGcs
    BY <1>1, <1>5 DEF With
  <2>2. m.value /= VehicleValue(p) => ValueFollows(0, p)'
    <3>1. ASSUME m.value /= VehicleValue(p)
          PROVE  ValueFollows(1, p)
      BY <1>1, <1>5, <2>1, <3>1, KeyOfValue DEF OldIsReplaced
    <3> QED
      BY <1>1, <3>1, ValuesMoveUp
  <2> QED
    BY <1>3, <1>4, <2>1, <2>2 DEF OldIsReplaced
<1>6. CASE <<m.comp, m.name>> /= p
  <2>1. p \in DOMAIN facts' => p \in DOMAIN facts /\ facts'[p] = facts[p]
    BY <1>6 DEF With
  <2>2. ValueFollows(0, p) => ValueFollows(0, p)'
    BY <1>1, <1>6, KeyOfValue, ValuesMoveUp
  <2> QED
    BY <1>2, <1>3, <1>4, <2>1, <2>2 DEF OldIsReplaced
<1> QED
  BY <1>5, <1>6

\* A value of the cache is shown; if it is old another one follows.
LEMMA CachedIsReplaced ==
  ASSUME VehicleOK, NEW p \in MockLink!Keys, OldIsReplaced(p),
         fromCache \in Seq(TrueValues), fromCache /= <<>>, fromCache' = Tail(fromCache),
         NEW m, m = fromCache[1], UNCHANGED <<vehicleParams, toGcs>>,
         facts' = With(facts, <<m.comp, m.name>>, m.value),
         NEW ms \in Seq(Requests), toVehicle' = toVehicle \o ms
  PROVE  OldIsReplaced(p)'
<1>1. /\ toVehicle \in Seq(Requests) /\ m \in TrueValues
      /\ IsMap(vehicleParams, Component, CacheMap)
  BY DEF VehicleOK
<1>2. WriteFollows(0, p) => WriteFollows(0, p)'
  BY <1>1, WritesStay
<1>3. VehicleValue(p)' = VehicleValue(p) /\ \A x : IsOld(x, p)' = IsOld(x, p)
  BY DEF VehicleValue, IsOld
<1>4. \A i : ValueFollows(i, p)' = ValueFollows(i, p)
  BY DEF ValueFollows
<1>5. \A i \in DOMAIN fromCache' : i + 1 \in DOMAIN fromCache /\ fromCache[i + 1] = fromCache'[i]
  OBVIOUS
<1>6. p \in DOMAIN facts' /\ facts'[p] /= VehicleValue(p) =>
        ValueFollows(0, p) \/ WriteFollows(0, p)
  <2>1. CASE <<m.comp, m.name>> = p
    <3>1. facts'[p] = m.value /\ 1 \in DOMAIN fromCache
      BY <2>1 DEF With
    <3> QED
      BY <1>1, <2>1, <3>1, KeyOfValue DEF OldIsReplaced
  <2>2. CASE <<m.comp, m.name>> /= p
    <3>1. p \in DOMAIN facts' => p \in DOMAIN facts /\ facts'[p] = facts[p]
      BY <2>2 DEF With
    <3> QED
      BY <3>1 DEF OldIsReplaced
  <2> QED
    BY <2>1, <2>2
<1>7. \A i \in DOMAIN fromCache' : IsOld(fromCache'[i], p) => ValueFollows(0, p)
  BY <1>5 DEF OldIsReplaced
<1>8. \A i \in DOMAIN toGcs : IsOld(toGcs[i], p) => ValueFollows(i, p)
  BY DEF OldIsReplaced
<1> QED
  BY <1>2, <1>3, <1>4, <1>6, <1>7, <1>8 DEF OldIsReplaced

\* The cache has the values of the hash; one that is old is followed by a value.
LEMMA HashIsReplaced ==
  ASSUME VehicleOK, ManagerInv, NEW p \in MockLink!Keys \ Volatile, OldIsReplaced(p),
         toGcs /= <<>>, toGcs' = Tail(toGcs), NEW m \in TrueHashes, m = toGcs[1],
         HashReceived(m), UNCHANGED vehicleParams
  PROVE  OldIsReplaced(p)'
<1>1. /\ toVehicle \in Seq(Requests) /\ toGcs \in Seq(Answers)
      /\ IsMap(vehicleParams, Component, CacheMap)
  BY DEF VehicleOK, Answers
<1>2. /\ UNCHANGED <<facts, toVehicle>>
      /\ \/ fromCache' = <<>>
         \/ fromCache' = CachedValues(m.comp) /\ CacheMatches(m) /\ ~parametersReady
  BY DEF HashReceived
<1>3. VehicleValue(p)' = VehicleValue(p) /\ \A x : IsOld(x, p)' = IsOld(x, p)
  BY DEF VehicleValue, IsOld
<1>4. "hash" \in DOMAIN m /\ 1 \in DOMAIN toGcs
  BY <1>1 DEF TrueHashes, HashCheck
<1>5. ASSUME NEW i \in DOMAIN toGcs', IsOld(toGcs'[i], p)
      PROVE  ValueFollows(i, p)'
  <2>1. i + 1 \in DOMAIN toGcs /\ toGcs[i + 1] = toGcs'[i] /\ i \in Nat /\ i + 1 /= 0
    BY <1>1
  <2>2. ValueFollows(i + 1, p)
    BY <1>5, <2>1 DEF OldIsReplaced
  <2> QED
    BY <1>1, <2>1, <2>2, ValuesMoveUp
<1>6. ValueFollows(0, p) => ValueFollows(0, p)'
  BY <1>1, <1>4, ValuesMoveUp DEF IsValueOf
<1>7. IsOld(m, p) => ValueFollows(0, p)'
  <2>1. IsOld(m, p) => ValueFollows(1, p)
    BY <1>4 DEF OldIsReplaced
  <2> QED
    BY <1>1, <2>1, ValuesMoveUp
<1>8. ASSUME NEW i \in DOMAIN fromCache', IsOld(fromCache'[i], p)
      PROVE  ValueFollows(0, p)'
  <2>1. fromCache' \in Seq(TrueValues)
    BY <1>2, MatchingCache
  <2>2. fromCache'[i] \in TrueValues
    BY <2>1
  <2>3. <<fromCache'[i].comp, fromCache'[i].name>> = p /\ fromCache'[i].value /= VehicleValue(p)
    BY <1>1, <1>8, <2>2, KeyOfValue
  <2>4. fromCache' = CachedValues(m.comp) /\ CacheMatches(m)
    BY <1>2, <1>8
  <2>5. /\ fromCache'[i].comp = m.comp
        /\ fromCache'[i].value = cache[m.comp][fromCache'[i].name]
    BY <1>8, <2>4 DEF CachedValues
  <2>6. /\ p = <<m.comp, p[2]>> /\ p[1] = m.comp
        /\ fromCache'[i].name = p[2] /\ cache[m.comp][p[2]] /= VehicleValue(p)
    BY <2>3, <2>5
  <2>7. p[2] \in DOMAIN cache[m.comp]
    <3> DEFINE S == {m.comp} \X DOMAIN cache[m.comp]
    <3>1. m.comp \in Component /\ m.comp \in DOMAIN cache
      BY <2>4 DEF TrueHashes, HashCheck, CacheMatches
    <3>2. S \in SUBSET Pairs /\ IsFiniteSet(S)
      <4>1. cache[m.comp] \in CacheMap
        BY <3>1 DEF ManagerInv, ParameterTypeOK, CacheTypeOK, IsMap
      <4>2. DOMAIN cache[m.comp] \in SUBSET Name
        BY <4>1 DEF CacheMap
      <4>3. IsFiniteSet(DOMAIN cache[m.comp])
        BY <4>2, NameAssumption, FS_Subset
      <4> QED
        BY <3>1, <4>2, <4>3, FS_Singleton, FS_Product, ComponentAssumption, NameAssumption DEF Pairs
    <3>3. /\ DOMAIN fromCache' = DOMAIN Ordered(S)
          /\ fromCache'[i].name = Ordered(S)[i][2]
      BY <1>8, <2>4 DEF CachedValues
    <3>4. \A q \in S : q[2] \in DOMAIN cache[m.comp]
      OBVIOUS
    <3> HIDE DEF S
    <3>5. Ordered(S)[i] \in S
      BY <1>8, <3>2, <3>3, OrderedLists
    <3> QED
      BY <2>6, <3>3, <3>4, <3>5
  <2>8. p[2] \in DOMAIN m.hash /\ m.hash[p[2]] = cache[m.comp][p[2]]
    <3>1. NotVolatile(m.comp, cache[m.comp]) = m.hash
      BY <2>4 DEF CacheMatches
    <3> QED
      BY <2>6, <2>7, <3>1 DEF NotVolatile, Without
  <2>9. IsOld(m, p)
    BY <1>4, <2>6, <2>8 DEF IsOld, IsHashOf
  <2> QED
    BY <1>7, <2>9
<1>9. WriteFollows(0, p)' = WriteFollows(0, p)
  BY <1>2 DEF WriteFollows
<1> QED
  BY <1>2, <1>3, <1>5, <1>6, <1>8, <1>9 DEF OldIsReplaced
\* What the user writes is on its way.
LEMMA WrittenIsReplaced ==
  ASSUME VehicleOK, ManagerInv, NEW p \in MockLink!Keys, OldIsReplaced(p),
         NEW q \in DOMAIN facts, NEW v \in Value, ValueUpdated(q, v), LinksHaveRoom',
         UNCHANGED <<vehicleParams, toGcs>>
  PROVE  /\ OldIsReplaced(p)' /\ toVehicle' = toVehicle \o <<Write(q, v)>>
         /\ Write(q, v) \in Requests
<1>1. /\ toVehicle \in Seq(Requests) /\ q \in MockLink!Keys /\ fromCache' = fromCache
      /\ IsMap(vehicleParams, Component, CacheMap)
  BY DEF VehicleOK, ManagerInv, LearnedOK, ValueUpdated, cacheVars
<1>2. Write(q, v) \in Requests
  BY <1>1 DEF Requests
<1> DEFINE ms == <<Write(q, v)>>
<1>3. ms \in Seq(Requests) /\ SendAll(ms)
  BY <1>2 DEF ValueUpdated, Send
<1>4. toVehicle' = toVehicle \o ms
  <2> HIDE DEF ms
  <2> QED
    BY <1>1, <1>3, AllIsSent
<1>5. VehicleValue(p)' = VehicleValue(p) /\ \A x : IsOld(x, p)' = IsOld(x, p)
  BY DEF VehicleValue, IsOld
<1>6. \A i : ValueFollows(i, p)' = ValueFollows(i, p)
  BY DEF ValueFollows
<1>7. p \in DOMAIN facts' /\ facts'[p] /= VehicleValue(p) =>
        ValueFollows(0, p) \/ WriteFollows(0, p)'
  <2>1. CASE p = q
    <3>1. /\ Len(toVehicle) + 1 \in DOMAIN toVehicle' /\ Len(toVehicle) + 1 > 0
          /\ toVehicle'[Len(toVehicle) + 1] = Write(q, v)
      BY <1>1, <1>2, <1>4
    <3>2. IsWriteOf(Write(q, v), p)
      BY <2>1 DEF IsWriteOf, Write
    <3> QED
      BY <3>1, <3>2 DEF WriteFollows, IsWriteOf
  <2>2. CASE p /= q
    <3>1. p \in DOMAIN facts' => p \in DOMAIN facts /\ facts'[p] = facts[p]
      BY <2>2 DEF ValueUpdated
    <3> HIDE DEF ms
    <3>2. WriteFollows(0, p) => WriteFollows(0, p)'
      BY <1>1, <1>3, <1>4, WritesStay
    <3> QED
      BY <3>1, <3>2 DEF OldIsReplaced
  <2> QED
    BY <2>1, <2>2
<1> HIDE DEF ms
<1>8. OldIsReplaced(p)'
  BY <1>1, <1>5, <1>6, <1>7 DEF OldIsReplaced
<1> QED
  BY <1>2, <1>4, <1>8 DEF ms
-----------------------------------------------------------------------------
(* What is old is replaced: the steps of the vehicle and of the links *)

\* An answer tells what the vehicle holds.
LEMMA AnswersAreNew ==
  ASSUME VehicleOK, NEW q \in MockLink!Keys, NEW p
  PROVE  ~IsOld(MockLink!ValueOf(q), p)
BY DEF IsOld, IsValueOf, IsHashOf, MockLink!ValueOf, VehicleValue

LEMMA HashesAreNew ==
  ASSUME VehicleOK, NEW p
  PROVE  ~IsOld(MockLink!HashOf(DefaultComponent), p)
BY DEF IsOld, IsValueOf, IsHashOf, MockLink!HashOf, VehicleValue

LEMMA AnswerKeeps ==
  ASSUME VehicleOK, NEW p, OldIsReplaced(p), UNCHANGED <<fromCache, facts>>,
         VehicleValue(p)' = VehicleValue(p), WriteFollows(0, p) => WriteFollows(0, p)',
         toGcs' = toGcs \/ \E m \in Answers : toGcs' = Append(toGcs, m) /\ ~IsOld(m, p)
  PROVE  OldIsReplaced(p)'
<1>1. toGcs \in Seq(Answers)
  BY DEF VehicleOK, Answers
<1>2. \A x : IsOld(x, p)' = IsOld(x, p)
  BY DEF IsOld
<1>3. ASSUME NEW i \in Nat, ValueFollows(i, p)
      PROVE  ValueFollows(i, p)'
  <2>1. CASE toGcs' = toGcs
    BY <1>3, <2>1 DEF ValueFollows
  <2>2. CASE \E m \in Answers : toGcs' = Append(toGcs, m)
    BY <1>1, <1>3, <2>2, ValuesStay
  <2> QED
    BY <2>1, <2>2
<1>4. ASSUME NEW i \in DOMAIN toGcs', IsOld(toGcs'[i], p)
      PROVE  ValueFollows(i, p)'
  <2>1. i \in DOMAIN toGcs /\ toGcs[i] = toGcs'[i] /\ i \in Nat
    <3>1. CASE toGcs' = toGcs
      BY <1>1, <3>1
    <3>2. ASSUME NEW m \in Answers, toGcs' = Append(toGcs, m), ~IsOld(m, p)
          PROVE  i \in DOMAIN toGcs /\ toGcs[i] = toGcs'[i] /\ i \in Nat
      <4>1. i \in Nat /\ IF i \in DOMAIN toGcs THEN toGcs'[i] = toGcs[i] ELSE toGcs'[i] = m
        BY <1>1, <3>2
      <4> QED
        BY <1>4, <3>2, <4>1
    <3> QED
      BY <3>1, <3>2
  <2> QED
    BY <1>3, <1>4, <2>1 DEF OldIsReplaced
<1> QED
  BY <1>2, <1>3, <1>4 DEF OldIsReplaced

\* A write that arrives is answered.
LEMMA WriteIsAnswered ==
  ASSUME VehicleOK, NEW p \in MockLink!Keys, OldIsReplaced(p), UNCHANGED <<fromCache, facts>>,
         NEW v \in Value, vehicleParams' = [vehicleParams EXCEPT ![p[1]][p[2]] = v],
         toGcs' = Append(toGcs, [MockLink!ValueOf(p) EXCEPT !.value = v])
  PROVE  OldIsReplaced(p)' /\ VehicleValue(p)' = v
<1> DEFINE m == [MockLink!ValueOf(p) EXCEPT !.value = v]
<1>1. toGcs \in Seq(Answers) /\ IsMap(vehicleParams, Component, CacheMap)
  BY DEF VehicleOK, Answers
<1>2. VehicleValue(p)' = v
  BY <1>1, ValueIsTrue DEF VehicleValue
<1>3. IsValueOf(m, p) /\ ~IsHashOf(m, p) /\ m.value = v /\ m \in Answers
  <2>1. m \in TrueValues
    BY <1>1, ValueIsTrue
  <2>2. "hash" \notin DOMAIN m
    BY <2>1 DEF TrueValues, ParamValue
  <2>3. m.comp = p[1] /\ m.name = p[2] /\ m.value = v
    BY DEF MockLink!ValueOf
  <2> QED
    BY <2>1, <2>2, <2>3 DEF IsValueOf, IsHashOf, Answers
<1> HIDE DEF m
<1>4. toGcs' = Append(toGcs, m)
  BY DEF m
<1>5. PICK n \in Nat : n = Len(toGcs) + 1
  BY <1>1
<1>6. /\ n \in DOMAIN toGcs' /\ toGcs'[n] = m /\ n > 0
      /\ \A i \in DOMAIN toGcs' : i = n \/ n > i
  BY <1>1, <1>3, <1>4, <1>5
<1>7. ASSUME NEW i, n > i
      PROVE  ValueFollows(i, p)'
  BY <1>3, <1>6, <1>7 DEF ValueFollows, IsValueOf
<1>8. ~IsOld(toGcs[n], p)'
  BY <1>2, <1>3, <1>6 DEF IsOld, IsValueOf, IsHashOf
<1>9. OldIsReplaced(p)'
  BY <1>6, <1>7, <1>8 DEF OldIsReplaced
<1> QED
  BY <1>2, <1>9
-----------------------------------------------------------------------------
(* The last write counts *)

LEMMA SentAgainCounts ==
  ASSUME VehicleOK, ManagerInv, WaitsToBeWritten, NEW p \in DOMAIN written, LastWriteCounts(p),
         UNCHANGED <<vehicleParams, written>>,
         NEW ms \in Seq(Requests), SendsAgain(ms), toVehicle' = toVehicle \o ms
  PROVE  LastWriteCounts(p)'
<1>1. /\ toVehicle \in Seq(Requests) /\ VehicleValue(p)' = VehicleValue(p)
      /\ IsMap(vehicleParams, Component, CacheMap)
  BY DEF VehicleOK, VehicleValue
<1>2. \A q \in DOMAIN facts : q \in MockLink!Keys /\ q = <<q[1], q[2]>>
  BY <1>1, ValueIsTrue DEF ManagerInv, LearnedOK
<1>3. ASSUME NEW i \in DOMAIN toVehicle', IsWriteOf(toVehicle'[i], p),
             toVehicle'[i].value /= written[p]
      PROVE  WriteFollows(i, p)'
  <2>1. CASE i \in DOMAIN toVehicle
    <3>1. toVehicle'[i] = toVehicle[i] /\ i \in Nat
      BY <1>1, <2>1
    <3>2. WriteFollows(i, p)
      BY <1>3, <2>1, <3>1 DEF LastWriteCounts
    <3> QED
      BY <1>1, <3>1, <3>2, WritesStay
  <2>2. CASE i \notin DOMAIN toVehicle
    <3>1. PICK k \in DOMAIN ms : toVehicle'[i] = ms[k]
      <4>1. i - Len(toVehicle) \in DOMAIN ms /\ toVehicle'[i] = ms[i - Len(toVehicle)]
        BY <1>1, <2>2
      <4> QED
        BY <4>1
    <3>2. PICK q \in DOMAIN waitingWriteName : ms[k] = Write(q, facts[q])
      BY <1>3, <3>1 DEF SendsAgain, IsWriteOf
    <3>3. q \in DOMAIN facts /\ p \in DOMAIN facts /\ facts[q] = written[q]
      BY DEF WaitsToBeWritten
    <3>4. q[1] = p[1] /\ q[2] = p[2]
      BY <1>3, <3>1, <3>2 DEF IsWriteOf, Write
    <3>5. q = p
      BY <1>2, <3>3, <3>4
    <3> QED
      BY <1>3, <3>1, <3>2, <3>3, <3>5 DEF Write
  <2> QED
    BY <2>1, <2>2
<1>4. VehicleValue(p) /= written[p] => WriteFollows(0, p)'
  BY <1>1, WritesStay DEF LastWriteCounts
<1> QED
  BY <1>1, <1>3, <1>4 DEF LastWriteCounts

LEMMA UserWriteCounts ==
  ASSUME VehicleOK, ManagerInv, NEW q \in DOMAIN facts, NEW v \in Value,
         NEW p \in DOMAIN facts, p /= q => p \in DOMAIN written /\ LastWriteCounts(p),
         UNCHANGED vehicleParams, written' = With(written, q, v),
         Write(q, v) \in Requests, toVehicle' = toVehicle \o <<Write(q, v)>>
  PROVE  LastWriteCounts(p)'
<1> DEFINE m == Write(q, v)
           ms == <<m>>
<1>1. /\ toVehicle \in Seq(Requests) /\ VehicleValue(p)' = VehicleValue(p)
      /\ IsMap(vehicleParams, Component, CacheMap)
  BY DEF VehicleOK, VehicleValue
<1>2. p = <<p[1], p[2]>> /\ q = <<q[1], q[2]>>
  BY <1>1, ValueIsTrue DEF ManagerInv, LearnedOK
<1>3. m.kind = "Set" /\ m.comp = q[1] /\ m.param = q[2] /\ m.value = v
  BY DEF Write
<1> HIDE DEF m
<1>4. ms \in Seq(Requests) /\ toVehicle' = toVehicle \o ms
  BY DEF m
<1>5. PICK n \in Nat : n = Len(toVehicle) + 1
  BY <1>1
<1>6. /\ n \in DOMAIN toVehicle' /\ toVehicle'[n] = m /\ n > 0
      /\ \A i \in DOMAIN toVehicle' :
           i = n \/ (n > i /\ i \in DOMAIN toVehicle /\ toVehicle'[i] = toVehicle[i] /\ i \in Nat)
  BY <1>1, <1>4, <1>5
<1>7. CASE p = q
  <2>1. written'[p] = v
    BY <1>7 DEF With
  <2>2. IsWriteOf(m, p)
    BY <1>3, <1>7 DEF IsWriteOf
  <2>3. ASSUME NEW i, n > i
        PROVE  WriteFollows(i, p)'
    BY <1>6, <2>2, <2>3 DEF WriteFollows, IsWriteOf
  <2> QED
    BY <1>3, <1>6, <2>1, <2>3 DEF LastWriteCounts
<1>8. CASE p /= q
  <2>1. written'[p] = written[p] /\ LastWriteCounts(p)
    BY <1>8 DEF With
  <2>2. ~IsWriteOf(m, p)
    BY <1>2, <1>3, <1>8 DEF IsWriteOf
  <2> HIDE DEF ms
  <2>3. \A i \in Nat : WriteFollows(i, p) => WriteFollows(i, p)'
    BY <1>1, <1>4, WritesStay
  <2> QED
    BY <1>1, <1>6, <2>1, <2>2, <2>3 DEF LastWriteCounts
<1> QED
  BY <1>7, <1>8

\* The vehicle takes a message: a write of p, which it stores, or another one.
LEMMA TakenCounts ==
  ASSUME VehicleOK, NEW p, LastWriteCounts(p), toVehicle /= <<>>,
         toVehicle' = Tail(toVehicle), written' = written,
         IF IsWriteOf(toVehicle[1], p) THEN VehicleValue(p)' = toVehicle[1].value
                                       ELSE VehicleValue(p)' = VehicleValue(p)
  PROVE  LastWriteCounts(p)'
<1>1. toVehicle \in Seq(Requests)
  BY DEF VehicleOK
<1>2. ASSUME NEW i \in DOMAIN toVehicle', IsWriteOf(toVehicle'[i], p),
             toVehicle'[i].value /= written[p]
      PROVE  WriteFollows(i, p)'
  <2>1. i + 1 \in DOMAIN toVehicle /\ toVehicle[i + 1] = toVehicle'[i] /\ i \in Nat /\ i + 1 /= 0
    BY <1>1
  <2>2. WriteFollows(i + 1, p)
    BY <1>2, <2>1 DEF LastWriteCounts
  <2> QED
    BY <1>1, <2>1, <2>2, WritesMoveUp
<1>3. ASSUME VehicleValue(p)' /= written[p]
      PROVE  WriteFollows(0, p)'
  <2>1. CASE IsWriteOf(toVehicle[1], p)
    <3>1. 1 \in DOMAIN toVehicle
      BY <1>1
    <3>2. WriteFollows(1, p)
      BY <1>3, <2>1, <3>1 DEF LastWriteCounts
    <3> QED
      BY <1>1, <3>2, WritesMoveUp
  <2>2. CASE ~IsWriteOf(toVehicle[1], p)
    <3>1. WriteFollows(0, p)
      BY <1>3, <2>2 DEF LastWriteCounts
    <3> QED
      BY <1>1, <2>2, <3>1, WritesMoveUp
  <2> QED
    BY <2>1, <2>2
<1> QED
  BY <1>2, <1>3 DEF LastWriteCounts
-----------------------------------------------------------------------------
(* The steps of the ground station *)

\* A value that arrives or comes from the cache
LEMMA TakenOverIsSound ==
  ASSUME VehicleOK, ManagerInv, SoundInv, NEW m \in TrueValues, NEW after \in Seq(Requests),
         NoWrites(after), Update(m, after), LinksHaveRoom',
         UNCHANGED <<vehicleParams, written>>
  PROVE  /\ \A p \in DOMAIN written \ Volatile : LastWriteCounts(p)'
         /\ WaitsToBeWritten'
         /\ \E ms \in Seq(Requests) : toVehicle' = toVehicle \o ms
         /\ facts' = With(facts, <<m.comp, m.name>>, m.value)
<1>1. PICK ms \in Seq(Requests) : toVehicle' = toVehicle \o ms /\ NoWrites(ms)
  BY UpdateSends DEF ManagerInv
<1>2. SendsAgain(ms)
  BY <1>1 DEF NoWrites, SendsAgain
<1>3. \A p \in DOMAIN written \ Volatile : LastWriteCounts(p)'
  BY <1>1, <1>2, SentAgainCounts DEF SoundInv
<1> DEFINE k == <<m.comp, m.name>>
<1>4. facts' = With(facts, k, m.value) /\ waitingWriteName' = Without(waitingWriteName, {k})
  BY DEF Update
<1> HIDE DEF k
<1>5. DOMAIN facts \subseteq DOMAIN facts' /\ DOMAIN waitingWriteName' = DOMAIN waitingWriteName \ {k}
  BY <1>4 DEF With, Without
<1>6. \A p \in DOMAIN waitingWriteName' : p \in DOMAIN facts /\ facts'[p] = facts[p]
  BY <1>4, <1>5 DEF With, SoundInv, WaitsToBeWritten
<1>7. WaitsToBeWritten'
  BY <1>5, <1>6 DEF SoundInv, WaitsToBeWritten
<1> QED
  BY <1>1, <1>3, <1>4, <1>7 DEF k

LEMMA GroundStepIsSound ==
  ASSUME ProtocolInv, SoundInv, LinksHaveRoom',
         \/ UserWrites \/ UserRefreshes \/ GroundReceives \/ GroundLoadsFromCache \/ TimerFires
  PROVE  SoundInv'
<1>1. /\ VehicleOK /\ ManagerInv /\ toVehicle \in Seq(Requests) /\ toGcs \in Seq(Answers)
      /\ IsMap(vehicleParams, Component, CacheMap)
  BY DEF ProtocolInv, VehicleOK, Answers
<1>2. UNCHANGED vehicleVars /\ (~GroundReceives => toGcs' = toGcs)
  BY DEF UserWrites, UserRefreshes, GroundReceives, GroundLoadsFromCache, TimerFires
<1>3. vehicleParams' = vehicleParams /\ MockLink!Keys' = MockLink!Keys
  BY <1>2 DEF vehicleVars, MockLink!Keys, MockLink!Names
<1> SUFFICES /\ \A p \in MockLink!Keys \ Volatile : OldIsReplaced(p)'
             /\ \A p \in DOMAIN written' \ Volatile : LastWriteCounts(p)'
             /\ WaitsToBeWritten'
  BY <1>3 DEF SoundInv
<1>4. CASE UserWrites
  <2>1. PICK q \in DOMAIN facts, v \in Value :
          ValueUpdated(q, v) /\ written' = With(written, q, v)
    BY <1>4 DEF UserWrites
  <2>2. toGcs' = toGcs
    BY <1>4 DEF UserWrites
  <2>3. q \in MockLink!Keys
    BY <1>1 DEF ManagerInv, LearnedOK
  <2>4. /\ \A p \in MockLink!Keys \ Volatile : OldIsReplaced(p)'
        /\ toVehicle' = toVehicle \o <<Write(q, v)>> /\ Write(q, v) \in Requests
    <3>1. ASSUME NEW p \in MockLink!Keys, OldIsReplaced(p)
          PROVE  OldIsReplaced(p)'
      BY <1>1, <1>3, <2>1, <2>2, <3>1, WrittenIsReplaced
    <3>2. toVehicle' = toVehicle \o <<Write(q, v)>> /\ Write(q, v) \in Requests
      <4>1. Write(q, v) \in Requests
        BY <2>3 DEF Requests
      <4> DEFINE ms == <<Write(q, v)>>
      <4>2. ms \in Seq(Requests) /\ SendAll(ms)
        BY <2>1, <4>1 DEF ValueUpdated, Send
      <4> HIDE DEF ms
      <4>3. toVehicle' = toVehicle \o ms
        BY <1>1, <4>2, AllIsSent
      <4> QED
        BY <4>1, <4>3 DEF ms
    <3> QED
      BY <3>1, <3>2 DEF SoundInv
  <2>5. DOMAIN written' = DOMAIN written \cup {q} /\ DOMAIN written' \subseteq DOMAIN facts
    BY <2>1 DEF With, SoundInv, WaitsToBeWritten
  <2>6. ASSUME NEW p \in DOMAIN written' \ Volatile
        PROVE  LastWriteCounts(p)'
    <3>1. p \in DOMAIN facts /\ (p /= q => p \in DOMAIN written /\ LastWriteCounts(p))
      BY <2>5 DEF SoundInv
    <3> QED
      BY <1>1, <1>3, <2>1, <2>4, <3>1, UserWriteCounts
  <2>7. WaitsToBeWritten'
    BY <2>1, <2>5 DEF ValueUpdated, With, SoundInv, WaitsToBeWritten
  <2> QED
    BY <2>4, <2>6, <2>7
<1>5. CASE UserRefreshes \/ TimerFires
  <2>1. UNCHANGED <<toGcs, fromCache, facts, written>>
    BY <1>5 DEF UserRefreshes, TimerFires, RefreshParameter, RefreshAllParameters, cacheVars,
       InitialRequestTimeout, WaitingParamTimeout
  <2>2. /\ DOMAIN waitingWriteName' \subseteq DOMAIN waitingWriteName
        /\ \E ms \in Seq(Requests) : toVehicle' = toVehicle \o ms /\ SendsAgain(ms)
    <3>1. CASE TimerFires
      <4>1. InitialRequestTimeout \/ WaitingParamTimeout
        BY <3>1 DEF TimerFires
      <4>2. DOMAIN waitingWriteName' \subseteq DOMAIN waitingWriteName
        BY <4>1 DEF InitialRequestTimeout, WaitingParamTimeout, names, RequestIndices,
           AwaitDefaultComponent, RetryWrites, RetryReads, NothingToRetry, AfterRetry
      <4> QED
        BY <1>1, <4>1, <4>2, TimeoutSends
    <3>2. CASE UserRefreshes
      <4>1. PICK m \in Requests : Send(m) /\ m.kind /= "Set"
        <5>1. CASE \E p \in DOMAIN facts : RefreshParameter(p)
          <6>1. PICK p \in DOMAIN facts : Send(ReadName(p))
            BY <5>1 DEF RefreshParameter
          <6>2. ReadName(p) \in Requests /\ ReadName(p).kind /= "Set"
            BY <1>1 DEF ManagerInv, LearnedOK, Requests, ReadName
          <6> QED
            BY <6>1, <6>2
        <5>2. CASE RefreshAllParameters(All)
          BY <5>2 DEF RefreshAllParameters, RequestAll, Requests, RequestList
        <5> QED
          BY <3>2, <5>1, <5>2 DEF UserRefreshes
      <4> DEFINE ms == <<m>>
      <4>2. ms \in Seq(Requests) /\ SendAll(ms) /\ SendsAgain(ms)
        BY <4>1 DEF Send, SendsAgain
      <4> HIDE DEF ms
      <4>3. toVehicle' = toVehicle \o ms
        BY <1>1, <4>2, AllIsSent
      <4>4. waitingWriteName' = waitingWriteName
        BY <3>2 DEF UserRefreshes, RefreshParameter, RefreshAllParameters, names
      <4> QED
        BY <4>2, <4>3, <4>4
    <3> QED
      BY <1>5, <3>1, <3>2
  <2>3. PICK ms \in Seq(Requests) : toVehicle' = toVehicle \o ms /\ SendsAgain(ms)
    BY <2>2
  <2>4. \A p \in MockLink!Keys \ Volatile : OldIsReplaced(p)'
    BY <1>1, <1>3, <2>1, <2>3, NothingNewIsShown DEF SoundInv
  <2>5. \A p \in DOMAIN written' \ Volatile : LastWriteCounts(p)'
    BY <1>1, <1>3, <2>1, <2>3, SentAgainCounts DEF SoundInv
  <2>6. WaitsToBeWritten'
    BY <2>1, <2>2 DEF SoundInv, WaitsToBeWritten
  <2> QED
    BY <2>4, <2>5, <2>6
<1>6. CASE GroundReceives
  <2>1. toGcs /= <<>> /\ toGcs' = Tail(toGcs) /\ written' = written /\ Head(toGcs) = toGcs[1]
    BY <1>1, <1>6 DEF GroundReceives
  <2>2. toGcs[1] \in Answers
    BY <1>1, <2>1
  <2>3. /\ toGcs[1] \in TrueValues => ParameterUpdate(toGcs[1])
        /\ toGcs[1] \in TrueHashes => HashReceived(toGcs[1])
    <3>1. \A m \in TrueValues : "hash" \notin DOMAIN m
      BY DEF TrueValues, ParamValue
    <3>2. \A m \in TrueHashes : "hash" \in DOMAIN m
      BY DEF TrueHashes, HashCheck
    <3> QED
      BY <1>6, <2>1, <3>1, <3>2 DEF GroundReceives
  <2>4. CASE toGcs[1] \in TrueValues
    <3>1. PICK m \in TrueValues : m = toGcs[1] /\ ParameterUpdate(m)
      BY <2>3, <2>4
    <3>2. Update(m, NoRequests) /\ fromCache = <<>> /\ fromCache' = fromCache
      BY <3>1 DEF ParameterUpdate, NoOtherStep
    <3>3. NoRequests \in Seq(Requests) /\ NoWrites(NoRequests)
      BY DEF NoRequests, NoWrites
    <3>4. /\ \A p \in DOMAIN written \ Volatile : LastWriteCounts(p)'
          /\ WaitsToBeWritten'
          /\ \E ms \in Seq(Requests) : toVehicle' = toVehicle \o ms
          /\ facts' = With(facts, <<m.comp, m.name>>, m.value)
      BY <1>1, <1>3, <2>1, <3>2, <3>3, TakenOverIsSound
    <3>5. \A p \in MockLink!Keys \ Volatile : OldIsReplaced(p)'
      BY <1>1, <1>3, <2>1, <3>1, <3>2, <3>4, ArrivedIsReplaced DEF SoundInv
    <3> QED
      BY <2>1, <3>4, <3>5
  <2>5. CASE toGcs[1] \in TrueHashes
    <3>1. PICK m \in TrueHashes : m = toGcs[1] /\ HashReceived(m)
      BY <2>3, <2>5
    <3>2. UNCHANGED <<facts, waitingWriteName, toVehicle>>
      BY <3>1 DEF HashReceived, names
    <3>3. \A p \in MockLink!Keys \ Volatile : OldIsReplaced(p)'
      BY <1>1, <1>3, <2>1, <3>1, HashIsReplaced DEF SoundInv
    <3>4. PICK ms \in Seq(Requests) : toVehicle' = toVehicle \o ms /\ NoWrites(ms)
      BY <1>1, <3>2, NothingIsSent
    <3>5. SendsAgain(ms)
      BY <3>4 DEF SendsAgain, NoWrites
    <3>6. \A p \in DOMAIN written' \ Volatile : LastWriteCounts(p)'
      BY <1>1, <1>3, <2>1, <3>4, <3>5, SentAgainCounts DEF SoundInv
    <3>7. WaitsToBeWritten'
      BY <2>1, <3>2 DEF SoundInv, WaitsToBeWritten
    <3> QED
      BY <3>3, <3>6, <3>7
  <2> QED
    BY <2>2, <2>4, <2>5 DEF Answers
<1>7. CASE GroundLoadsFromCache
  <2> DEFINE m == Head(fromCache)
             after == IF Len(fromCache) = 1 THEN <<ReturnHash(m.comp)>> ELSE NoRequests
  <2>1. /\ fromCache \in Seq(TrueValues) /\ fromCache /= <<>> /\ fromCache' = Tail(fromCache)
        /\ Update(m, after) /\ UNCHANGED <<toGcs, written>>
    BY <1>1, <1>7 DEF GroundLoadsFromCache, LoadFromCache, ManagerInv, CacheKnows
  <2>2. m \in TrueValues /\ m = fromCache[1]
    BY <2>1
  <2>3. after \in Seq(Requests) /\ NoWrites(after)
    <3>1. m.comp \in Component
      BY <2>2 DEF TrueValues, ParamValue
    <3>2. ReturnHash(m.comp) \in Requests /\ ReturnHash(m.comp).kind /= "Set"
      BY <3>1 DEF Requests, ReturnHash
    <3> HIDE DEF m
    <3> QED
      BY <3>2 DEF NoRequests, NoWrites
  <2> HIDE DEF m, after
  <2>4. /\ \A p \in DOMAIN written \ Volatile : LastWriteCounts(p)'
        /\ WaitsToBeWritten'
        /\ \E ms \in Seq(Requests) : toVehicle' = toVehicle \o ms
        /\ facts' = With(facts, <<m.comp, m.name>>, m.value)
    BY <1>1, <1>3, <2>1, <2>2, <2>3, TakenOverIsSound
  <2>5. \A p \in MockLink!Keys \ Volatile : OldIsReplaced(p)'
    BY <1>1, <1>3, <2>1, <2>2, <2>4, CachedIsReplaced DEF SoundInv
  <2> QED
    BY <2>1, <2>4, <2>5
<1> QED
  BY <1>4, <1>5, <1>6, <1>7
-----------------------------------------------------------------------------
(* The steps of the vehicle *)

\* A write of another parameter
LEMMA OthersKeepValues ==
  ASSUME IsMap(vehicleParams, Component, CacheMap), NEW p \in MockLink!Keys,
         NEW q \in MockLink!Keys, p /= q, NEW v \in Value,
         vehicleParams' = [vehicleParams EXCEPT ![q[1]][q[2]] = v]
  PROVE  VehicleValue(p)' = VehicleValue(p)
<1> DEFINE map == [vehicleParams[q[1]] EXCEPT ![q[2]] = v]
<1>1. vehicleParams' = [vehicleParams EXCEPT ![q[1]] = map]
  OBVIOUS
<1>2. /\ p = <<p[1], p[2]>> /\ q = <<q[1], q[2]>>
      /\ p[1] \in DOMAIN vehicleParams /\ p[2] \in DOMAIN vehicleParams[p[1]]
  BY ValueIsTrue
<1>3. vehicleParams'[p[1]] = IF p[1] = q[1] THEN map ELSE vehicleParams[p[1]]
  BY <1>1, <1>2
<1>4. p[1] = q[1] => map[p[2]] = vehicleParams[p[1]][p[2]]
  BY <1>2
<1> HIDE DEF map
<1> QED
  BY <1>3, <1>4 DEF VehicleValue

LEMMA ReadsAreOfKeys ==
  ASSUME IsMap(vehicleParams, Component, CacheMap), NEW m \in Requests,
         m.kind \in {"ReadIndex", "ReadName"}
  PROVE  <<m.comp, IF m.kind = "ReadIndex" THEN MockLink!NameAt(m.comp, m.param)
                                           ELSE m.param>> \in MockLink!Keys
<1> DEFINE p == <<m.comp, IF m.kind = "ReadIndex" THEN MockLink!NameAt(m.comp, m.param)
                                                  ELSE m.param>>
<1>1. CASE m.kind = "ReadIndex"
  <2>1. PICK q \in VehicleIndices : m = ReadIndex(q)
    BY <1>1 DEF Requests, RequestList, ReturnHash, ReadName, Write
  <2>2. p = <<q[1], MockLink!NameAt(q[1], q[2])>>
    BY <2>1 DEF ReadIndex
  <2> QED
    BY <2>2, NameOfIndex
<1>2. CASE m.kind = "ReadName"
  <2>1. PICK q \in MockLink!Keys : m = ReadName(q)
    BY <1>2 DEF Requests, RequestList, ReturnHash, ReadIndex, Write
  <2>2. p = <<q[1], q[2]>>
    BY <1>2, <2>1 DEF ReadName
  <2> QED
    BY <2>2, ValueIsTrue
<1> QED
  BY <1>1, <1>2

LEMMA MessageIsSound ==
  ASSUME VehicleOK, LinksHaveRoom', NEW p \in MockLink!Keys, OldIsReplaced(p),
         toVehicle /= <<>>, toVehicle' = Tail(toVehicle), UNCHANGED <<fromCache, facts>>,
         NEW m \in Requests, m = toVehicle[1], MockLink!HandleMessage(m)
  PROVE  /\ OldIsReplaced(p)'
         /\ IF IsWriteOf(m, p) THEN VehicleValue(p)' = m.value
                               ELSE VehicleValue(p)' = VehicleValue(p)
<1>1. /\ IsMap(vehicleParams, Component, CacheMap) /\ toVehicle \in Seq(Requests)
      /\ toGcs \in Seq(Answers) /\ sendsHash = regime.hash
  BY DEF VehicleOK, Answers
<1>2. ~IsWriteOf(m, p) => (WriteFollows(0, p) => WriteFollows(0, p)')
  BY <1>1, WritesMoveUp
<1>3. CASE m.kind = "Set" /\ MockLink!HandleParamSet(m)
  <2>1. PICK q \in MockLink!Keys, v \in Value : m = Write(q, v)
    BY <1>3 DEF Requests, RequestList, ReturnHash, ReadIndex, ReadName
  <2>2. q = <<q[1], q[2]>> /\ p = <<p[1], p[2]>>
    BY <1>1, ValueIsTrue
  <2>3. m.kind = "Set" /\ m.comp = q[1] /\ m.param = q[2] /\ m.value = v
    BY <2>1 DEF Write
  <2> DEFINE answer == [MockLink!ValueOf(q) EXCEPT !.value = v]
  <2>4. /\ vehicleParams' = [vehicleParams EXCEPT ![q[1]][q[2]] = v]
        /\ MockLink!Respond(answer)
    BY <1>3, <2>2, <2>3 DEF MockLink!HandleParamSet
  <2>5. answer \in Answers /\ answer.comp = q[1] /\ answer.name = q[2]
    BY <1>1, ValueIsTrue DEF Answers, MockLink!ValueOf
  <2>6. toGcs' = Append(toGcs, answer)
    BY <1>1, <2>4, <2>5, AnswerIsSent
  <2>7. CASE p = q
    BY <2>3, <2>4, <2>6, <2>7, WriteIsAnswered DEF IsWriteOf
  <2>8. CASE p /= q
    <3>1. ~IsWriteOf(m, p)
      BY <2>2, <2>3, <2>8 DEF IsWriteOf
    <3>2. VehicleValue(p)' = VehicleValue(p)
      BY <1>1, <2>4, <2>8, OthersKeepValues
    <3>3. ~IsOld(answer, p)
      <4>1. answer \in TrueValues
        BY <1>1, ValueIsTrue
      <4> HIDE DEF answer
      <4> QED
        BY <1>1, <2>2, <2>5, <2>8, <4>1, KeyOfValue
    <3> HIDE DEF answer
    <3> QED
      BY <1>2, <2>5, <2>6, <3>1, <3>2, <3>3, AnswerKeeps
  <2> QED
    BY <2>7, <2>8
<1>4. ASSUME m.kind /= "Set", vehicleParams' = vehicleParams,
             toGcs' = toGcs \/ \E a \in Answers : MockLink!Respond(a) /\ ~IsOld(a, p)
      PROVE  OldIsReplaced(p)' /\ VehicleValue(p)' = VehicleValue(p) /\ ~IsWriteOf(m, p)
  <2>1. VehicleValue(p)' = VehicleValue(p) /\ ~IsWriteOf(m, p)
    BY <1>4 DEF VehicleValue, IsWriteOf
  <2>2. toGcs' = toGcs \/ \E a \in Answers : toGcs' = Append(toGcs, a) /\ ~IsOld(a, p)
    BY <1>1, <1>4, AnswerIsSent
  <2> QED
    BY <1>2, <2>1, <2>2, AnswerKeeps
<1>5. CASE m.kind = "RequestList" /\ MockLink!HandleParamRequestList(m)
  <2>1. /\ vehicleParams' = vehicleParams
        /\ toGcs' = toGcs \/ (sendsHash /\ MockLink!Respond(MockLink!HashOf(DefaultComponent)))
    BY <1>5 DEF MockLink!HandleParamRequestList
  <2>2. sendsHash => MockLink!HashOf(DefaultComponent) \in Answers
    BY <1>1, HashIsTrue DEF Answers
  <2> QED
    BY <1>4, <1>5, <2>1, <2>2, HashesAreNew
<1>6. CASE m.kind \in {"ReadIndex", "ReadName"} /\ MockLink!HandleParamRequestRead(m)
  <2> DEFINE q == <<m.comp, IF m.kind = "ReadIndex" THEN MockLink!NameAt(m.comp, m.param)
                                                    ELSE m.param>>
  <2>1. q \in MockLink!Keys
    BY <1>1, <1>6, ReadsAreOfKeys
  <2>2. /\ vehicleParams' = vehicleParams
        /\ toGcs' = toGcs \/ MockLink!Respond(MockLink!ValueOf(q))
    BY <1>6 DEF MockLink!HandleParamRequestRead
  <2> HIDE DEF q
  <2>3. MockLink!ValueOf(q) \in Answers /\ ~IsOld(MockLink!ValueOf(q), p)
    BY <1>1, <2>1, ValueIsTrue, AnswersAreNew DEF Answers
  <2> QED
    BY <1>4, <1>6, <2>2, <2>3
<1>7. CASE m.kind = "SetHash" /\ MockLink!HashReturned(m)
  BY <1>4, <1>7 DEF MockLink!HashReturned
<1> QED
  BY <1>3, <1>4, <1>5, <1>6, <1>7 DEF MockLink!HandleMessage

LEMMA VehicleStepIsSound ==
  ASSUME ProtocolInv, SoundInv, LinksHaveRoom',
         VehicleReceives \/ VehicleSends \/ VolatileValueChanges \/ UNCHANGED protocolVars
  PROVE  SoundInv'
<1>1. /\ VehicleOK /\ IsMap(vehicleParams, Component, CacheMap) /\ toVehicle \in Seq(Requests)
      /\ toGcs \in Seq(Answers) /\ sending \in Seq(MockLink!Keys) /\ DOMAIN facts \subseteq MockLink!Keys
  BY DEF ProtocolInv, ManagerInv, LearnedOK, VehicleOK, Answers
<1>2. UNCHANGED <<managerVars, fromCache, facts, waitingWriteName, written>>
  BY DEF VehicleReceives, VehicleSends, VolatileValueChanges, protocolVars, vars, managerVars,
     names, cacheVars
<1>3. MockLink!Keys' = MockLink!Keys
  <2>1. VehicleWorks
    <3>1. CASE VehicleReceives
      <4>1. Head(toVehicle) \in Requests /\ MockLink!HandleMessage(Head(toVehicle))
        BY <1>1, <3>1 DEF VehicleReceives
      <4> QED
        BY <1>1, <4>1, MessageHandled
    <3>2. CASE VehicleSends
      BY <1>1, <3>2, NextParameterSent DEF VehicleSends
    <3>3. CASE VolatileValueChanges
      BY <1>1, <3>3, VolatileChanged DEF VolatileValueChanges
    <3>4. CASE UNCHANGED protocolVars
      BY <1>1, <3>4 DEF protocolVars, vehicleVars, VehicleWorks, SameNames, VehicleOK
    <3> QED
      BY <3>1, <3>2, <3>3, <3>4
  <2> QED
    BY <1>1, <2>1, NamesStay DEF VehicleWorks
<1>4. WaitsToBeWritten'
  BY <1>2 DEF SoundInv, WaitsToBeWritten
<1>5. CASE VehicleReceives
  <2>1. /\ toVehicle /= <<>> /\ toVehicle' = Tail(toVehicle) /\ Head(toVehicle) = toVehicle[1]
        /\ MockLink!HandleMessage(Head(toVehicle))
    BY <1>1, <1>5 DEF VehicleReceives
  <2>2. PICK m \in Requests : m = toVehicle[1] /\ MockLink!HandleMessage(m)
    BY <1>1, <2>1
  <2>3. ASSUME NEW p \in MockLink!Keys \ Volatile
        PROVE  /\ OldIsReplaced(p)'
               /\ IF IsWriteOf(toVehicle[1], p) THEN VehicleValue(p)' = toVehicle[1].value
                                                ELSE VehicleValue(p)' = VehicleValue(p)
    BY <1>1, <1>2, <2>1, <2>2, MessageIsSound DEF SoundInv
  <2>4. ASSUME NEW p \in DOMAIN written' \ Volatile
        PROVE  LastWriteCounts(p)'
    <3>1. p \in MockLink!Keys \ Volatile /\ LastWriteCounts(p)
      BY <1>1, <1>2 DEF SoundInv, WaitsToBeWritten
    <3> QED
      BY <1>1, <1>2, <2>1, <2>3, <3>1, TakenCounts
  <2> QED
    BY <1>3, <1>4, <2>3, <2>4 DEF SoundInv
<1>6. CASE VehicleSends \/ VolatileValueChanges \/ UNCHANGED protocolVars
  <2>1. toVehicle' = toVehicle
    BY <1>6 DEF VehicleSends, VolatileValueChanges, protocolVars, vars
  <2>2. ASSUME NEW p \in MockLink!Keys \ Volatile
        PROVE  /\ VehicleValue(p)' = VehicleValue(p)
               /\ toGcs' = toGcs \/ \E m \in Answers : toGcs' = Append(toGcs, m) /\ ~IsOld(m, p)
    <3>1. CASE VehicleSends
      <4>1. /\ vehicleParams' = vehicleParams /\ sending /= <<>>
            /\ toGcs' = toGcs \/ MockLink!Respond(MockLink!ValueOf(Head(sending)))
        BY <3>1 DEF VehicleSends, MockLink!SendNextParameter
      <4>2. PICK q \in MockLink!Keys : q = Head(sending)
        BY <1>1, <4>1
      <4>3. MockLink!ValueOf(q) \in Answers /\ ~IsOld(MockLink!ValueOf(q), p)
        BY <1>1, ValueIsTrue, AnswersAreNew DEF Answers
      <4>4. toGcs' = toGcs \/ toGcs' = Append(toGcs, MockLink!ValueOf(q))
        BY <1>1, <4>1, <4>2, <4>3, AnswerIsSent
      <4> QED
        BY <4>1, <4>3, <4>4 DEF VehicleValue
    <3>2. CASE VolatileValueChanges
      <4>1. PICK q \in Volatile \cap MockLink!Keys, v \in Value :
              vehicleParams' = [vehicleParams EXCEPT ![q[1]][q[2]] = v] /\ toGcs' = toGcs
        BY <3>2 DEF VolatileValueChanges, MockLink!VolatileValueChanges
      <4>2. q = <<q[1], q[2]>> /\ p = <<p[1], p[2]>> /\ p /= q
        BY <1>1, ValueIsTrue
      <4>3. VehicleValue(p)' = VehicleValue(p)
        BY <1>1, <4>1, <4>2, OthersKeepValues
      <4> QED
        BY <4>1, <4>3
    <3>3. CASE UNCHANGED protocolVars
      BY <3>3 DEF protocolVars, vehicleVars, VehicleValue
    <3> QED
      BY <1>6, <3>1, <3>2, <3>3
  <2>3. \A i, p : WriteFollows(i, p)' = WriteFollows(i, p)
    BY <2>1 DEF WriteFollows
  <2>4. \A p \in MockLink!Keys \ Volatile : OldIsReplaced(p)'
    BY <1>1, <1>2, <2>2, <2>3, AnswerKeeps DEF SoundInv
  <2>5. ASSUME NEW p \in DOMAIN written' \ Volatile
        PROVE  LastWriteCounts(p)'
    <3>1. p \in MockLink!Keys \ Volatile /\ LastWriteCounts(p)
      BY <1>1, <1>2 DEF SoundInv, WaitsToBeWritten
    <3> QED
      BY <1>2, <2>1, <2>2, <2>3, <3>1 DEF LastWriteCounts
  <2> QED
    BY <1>3, <1>4, <2>4, <2>5 DEF SoundInv
<1> QED
  BY <1>5, <1>6
-----------------------------------------------------------------------------
(* What the screen shows, and what the vehicle holds *)

LEMMA ProtocolStepIsSound ==
  ASSUME ProtocolInv, SoundInv, ~regime.lossy, LinksHaveRoom', [ProtocolNext]_protocolVars
  PROVE  SoundInv'
<1>1. CASE UserWrites \/ UserRefreshes \/ GroundReceives \/ GroundLoadsFromCache \/ TimerFires
  BY <1>1, GroundStepIsSound
<1>2. CASE VehicleReceives \/ VehicleSends \/ VolatileValueChanges \/ UNCHANGED protocolVars
  BY <1>2, VehicleStepIsSound
<1> QED
  BY <1>1, <1>2 DEF ProtocolNext, LoseToVehicle, LoseToGcs

LEMMA ProtocolStartsSound ==
  ASSUME ProtocolInit, VehicleOK
  PROVE  SoundInv
<1>1. /\ toGcs = <<>> /\ fromCache = <<>> /\ DOMAIN facts = {} /\ DOMAIN written = {}
      /\ DOMAIN waitingWriteName = {}
  BY DEF ProtocolInit, Init, None
<1> QED
  BY <1>1 DEF SoundInv, OldIsReplaced, LastWriteCounts, WaitsToBeWritten

LosslessInv == ~regime.lossy => SoundInv

\* Over links that lose nothing an old value is replaced, and the last write
\* counts.  The capacity of the links is a bound of the model; a link that is
\* full would lose what is sent.
THEOREM ReplacedAndWritten ==
  ASSUME CachesKnowVolatile
  PROVE  ProtocolSpec /\ []LinksHaveRoom => []LosslessInv
<1>1. GuardedInv => ProtocolInv
  BY DEF CachesKnowVolatile, GuardedInv
<1>2. ProtocolInit /\ GuardedInv => LosslessInv
  BY <1>1, ProtocolStartsSound DEF ProtocolInv, LosslessInv
<1>3. GuardedInv /\ LosslessInv /\ LinksHaveRoom' /\ [ProtocolNext]_protocolVars => LosslessInv'
  BY <1>1, RegimeStays, ProtocolStepIsSound DEF LosslessInv
<1> QED
  BY <1>2, <1>3, ProtocolInvariance, PTL DEF ProtocolSpec

\* Over links that lose nothing the screen shows what the vehicle holds when
\* nothing is under way: an answer that overtakes or precedes a later write, a
\* value of the first stream and a value of the cache all end up replaced.
THEOREM VehicleIsShown ==
  ASSUME CachesKnowVolatile
  PROVE  ProtocolSpec /\ []LinksHaveRoom => []ScreenShowsVehicle
<1>1. GuardedInv /\ LosslessInv => ScreenShowsVehicle
  <2> SUFFICES ASSUME ProtocolInv, LosslessInv, NothingUnderWay, ~regime.lossy,
                      NEW p \in DOMAIN facts \ Volatile
               PROVE  facts[p] = vehicleParams[p[1]][p[2]]
    BY DEF CachesKnowVolatile, GuardedInv, ScreenShowsVehicle
  <2>1. OldIsReplaced(p)
    BY DEF ProtocolInv, ManagerInv, LearnedOK, LosslessInv, SoundInv
  <2> QED
    BY <2>1 DEF OldIsReplaced, NothingUnderWay, ValueFollows, WriteFollows, VehicleValue
<1> QED
  BY <1>1, ReplacedAndWritten, ProtocolInvariance, PTL

\* The vehicle then holds what the user wrote last, though an older value that
\* arrives clears the write that waits, and sets the value a retry sends.
THEOREM LastWriteArrives ==
  ASSUME CachesKnowVolatile
  PROVE  ProtocolSpec /\ []LinksHaveRoom => []WritesArrive
<1>1. LosslessInv => WritesArrive
  BY DEF LosslessInv, SoundInv, LastWriteCounts, WriteFollows, VehicleValue, WritesArrive,
     NothingUnderWay
<1> QED
  BY <1>1, ReplacedAndWritten, PTL
-----------------------------------------------------------------------------
(* Timers that outlast the links: what is asked for arrives before they fire *)

InTime == regime.prompt /\ ~regime.lossy

NoAnswer == failureMode = "FailParamNoResponseToRequestList"
NeverSent == failureMode = "FailMissingParamOnAllRequests"

Held(link) == {link[i] : i \in DOMAIN link}

IsReadOf(m, p) == m.kind = "ReadName" /\ m.comp = p[1] /\ m.param = p[2]
IsIndexRead(m, i) == m.kind = "ReadIndex" /\ m.comp = DefaultComponent /\ m.param = i
IsIndexValue(m, i) == "hash" \notin DOMAIN m /\ m.comp = DefaultComponent /\ m.index = i

ListComes == \E m \in Held(toVehicle) : m.kind = "RequestList"
ValueComes(p) == \E m \in Held(toGcs) : IsValueOf(m, p)

\* The stream that was asked for has p, or a value of it is under way.
Coming(p) == ListComes \/ p \in Held(sending) \/ ValueComes(p)

Streamed == {p \in MockLink!Keys : ~MockLink!Skipped(p)}

\* A list request is answered, and then a value of the default component comes.
ListIsAnswered ==
  /\ initialRequestTimer =>
       ListComes \/ Held(toGcs) /= {} \/ (~sendsHash /\ Streamed \cap Held(sending) /= {})
  /\ \/ Loaded(DefaultComponent)
     \/ \E p \in Streamed : p[1] = DefaultComponent /\ Coming(p)

\* A hash is returned when the values it stands for were loaded.
HashFollowsValues ==
  /\ \A m \in Held(toVehicle) : m.kind = "SetHash" => sendsHash /\ Loaded(m.comp)
  /\ fromCache /= <<>> => sendsHash

\* A read or a write that waits is under way, or its answer is.
NamesAreAnswered ==
  /\ \A p \in DOMAIN waitingReadName :
       ValueComes(p) \/ \E m \in Held(toVehicle) : IsReadOf(m, p)
  /\ \A p \in DOMAIN waitingWriteName :
       ValueComes(p) \/ \E m \in Held(toVehicle) : IsWriteOf(m, p)

\* One component: an index in the batch queue is under way, or its value is, and an
\* index that was asked for again is in the queue.
BatchIsAnswered ==
  /\ \A i \in indexBatchQueue :
       /\ <<DefaultComponent, i>> \in DOMAIN waitingReadIndex
       /\ \/ \E m \in Held(toVehicle) : IsIndexRead(m, i)
          \/ \E m \in Held(toGcs) : IsIndexValue(m, i)
  /\ \A p \in DOMAIN waitingReadIndex : waitingReadIndex[p] /= 0 => p[2] \in indexBatchQueue

NotAwaited(p) ==
  p[1] \in DOMAIN paramCount /\ <<p[1], MockLink!IndexOf(p)>> \notin DOMAIN waitingReadIndex

\* Several components: whatever is waited for comes by itself.
StreamIsEnough ==
  /\ ~indexBatchQueueActive
  /\ DOMAIN waitingReadIndex /= {} \/ ~Loaded(DefaultComponent)
  /\ \A p \in MockLink!Keys : Coming(p) \/ NotAwaited(p)

\* A vehicle of one component
DefaultAlone == DOMAIN vehicleParams = {DefaultComponent}

\* What waits to be loaded matters until the load is ready: a vehicle of one parameter
\* may leave a timer running that asks for it again.
NothingGoesMissing ==
  /\ told = {} /\ ~missingParameters
  /\ NamesAreAnswered
  /\ ~parametersReady =>
       /\ failedReadIndex = {}
       /\ IF DefaultAlone THEN BatchIsAnswered ELSE StreamIsEnough

\* A vehicle that never sends the parameter in question
NeverLoaded ==
  /\ \A p \in DOMAIN facts : p[2] /= FailParam
  /\ \A m \in Held(toGcs) : m.name /= FailParam
  /\ \A m \in Held(toVehicle) : m.kind = "Set" => m.param /= FailParam
  /\ missingParameters => "Missing" \in told

\* A vehicle that does not answer
NeverAnswered ==
  /\ DOMAIN facts = {} /\ DOMAIN paramCount = {} /\ ~parametersReady
  /\ Held(toGcs) = {} /\ Held(sending) = {}
  /\ \A m \in Held(toVehicle) : m.kind = "RequestList"

EndInv ==
  IF NoAnswer THEN NeverAnswered /\ fromCache = <<>>
  ELSE /\ ListIsAnswered /\ HashFollowsValues
       /\ IF NeverSent THEN NeverLoaded ELSE NothingGoesMissing

VehicleAsTested == AsTested(sendsHash, vehicleParams, failureMode)
-----------------------------------------------------------------------------
(* What links hold *)

LEMMA HeldTogether ==
  ASSUME NEW S, NEW s \in Seq(S), NEW t \in Seq(S)
  PROVE  Held(s \o t) = Held(s) \cup Held(t)
<1>1. /\ \A i \in DOMAIN s : i \in DOMAIN (s \o t) /\ (s \o t)[i] = s[i]
      /\ \A i \in DOMAIN t : \E j \in DOMAIN (s \o t) : (s \o t)[j] = t[i]
  <2>1. \A i \in DOMAIN t : Len(s) + i \in DOMAIN (s \o t) /\ (s \o t)[Len(s) + i] = t[i]
    OBVIOUS
  <2>2. \A i \in DOMAIN s : i \in DOMAIN (s \o t) /\ (s \o t)[i] = s[i]
    OBVIOUS
  <2> QED
    BY <2>1, <2>2
<1>2. ASSUME NEW i \in DOMAIN (s \o t)
      PROVE  \/ i \in DOMAIN s /\ (s \o t)[i] = s[i]
             \/ \E j \in DOMAIN t : (s \o t)[i] = t[j]
  <2>1. \/ i \in DOMAIN s /\ (s \o t)[i] = s[i]
        \/ i - Len(s) \in DOMAIN t /\ (s \o t)[i] = t[i - Len(s)]
    OBVIOUS
  <2> QED
    BY <2>1
<1> DEFINE u == s \o t
<1> HIDE DEF u
<1>3. /\ \A i \in DOMAIN s : i \in DOMAIN u /\ u[i] = s[i]
      /\ \A i \in DOMAIN t : \E j \in DOMAIN u : u[j] = t[i]
      /\ \A i \in DOMAIN u : (i \in DOMAIN s /\ u[i] = s[i]) \/ \E j \in DOMAIN t : u[i] = t[j]
  BY <1>1, <1>2 DEF u
<1>4. Held(u) = Held(s) \cup Held(t)
  BY <1>3 DEF Held
<1> QED
  BY <1>4 DEF u

LEMMA HeldOne ==
  ASSUME NEW m
  PROVE  Held(<<m>>) = {m} /\ Held(<<>>) = {}
BY DEF Held

LEMMA HeldAppended ==
  ASSUME NEW S, NEW s \in Seq(S), NEW m \in S
  PROVE  Held(Append(s, m)) = Held(s) \cup {m}
<1>1. <<m>> \in Seq(S) /\ Append(s, m) = s \o <<m>>
  OBVIOUS
<1>2. Held(s \o <<m>>) = Held(s) \cup Held(<<m>>)
  BY <1>1, HeldTogether
<1> QED
  BY <1>1, <1>2, HeldOne

LEMMA HeldTaken ==
  ASSUME NEW S, NEW s \in Seq(S), s /= <<>>
  PROVE  /\ Held(s) = {Head(s)} \cup Held(Tail(s)) /\ Head(s) = s[1] /\ Head(s) \in S
         /\ Held(s) \subseteq S
<1>1. /\ Head(s) \in S /\ Head(s) = s[1] /\ 1 \in DOMAIN s
      /\ \A i \in DOMAIN Tail(s) : i + 1 \in DOMAIN s /\ Tail(s)[i] = s[i + 1]
      /\ \A i \in DOMAIN s : i = 1 \/ (i - 1 \in DOMAIN Tail(s) /\ Tail(s)[i - 1] = s[i])
      /\ \A i \in DOMAIN s : s[i] \in S
  OBVIOUS
<1> DEFINE t == Tail(s)
<1>2. /\ \A i \in DOMAIN t : \E j \in DOMAIN s : t[i] = s[j]
      /\ \A i \in DOMAIN s : s[i] = Head(s) \/ \E j \in DOMAIN t : t[j] = s[i]
  BY <1>1
<1> HIDE DEF t
<1>3. Held(s) = {Head(s)} \cup Held(t)
  BY <1>1, <1>2 DEF Held
<1>4. Held(s) \subseteq S
  BY <1>1 DEF Held
<1> QED
  BY <1>1, <1>3, <1>4 DEF t

LEMMA HeldNothing ==
  ASSUME NEW S, NEW s \in Seq(S)
  PROVE  (s = <<>> <=> Held(s) = {}) /\ Held(s) \subseteq S
<1>1. /\ s = <<>> => DOMAIN s = {}
      /\ s /= <<>> => 1 \in DOMAIN s
      /\ \A i \in DOMAIN s : s[i] \in S
  OBVIOUS
<1> QED
  BY <1>1 DEF Held

LEMMA AllAreListed ==
  ASSUME NEW S \in SUBSET Pairs, IsFiniteSet(S)
  PROVE  Held(Ordered(S)) = S
<1>1. /\ Ordered(S) \in [1 .. Cardinality(S) -> S] /\ Cardinality(S) \in Nat
      /\ \A i \in 1 .. Cardinality(S) : Rank(Ordered(S)[i], S) = i - 1
      /\ \A p \in S : Rank(p, S) \in 0 .. Cardinality(S) - 1
      /\ \A p, q \in S : Rank(p, S) = Rank(q, S) => p = q
  BY OrderedLists, Ranks
<1>2. ASSUME NEW p \in S
      PROVE  \E i \in DOMAIN Ordered(S) : Ordered(S)[i] = p
  <2>1. PICK r \in 0 .. Cardinality(S) - 1 : r = Rank(p, S)
    BY <1>1
  <2>2. r + 1 \in 1 .. Cardinality(S) /\ (r + 1) - 1 = r
    BY <1>1
  <2>3. Ordered(S)[r + 1] \in S /\ Rank(Ordered(S)[r + 1], S) = r
    BY <1>1, <2>2
  <2> QED
    BY <1>1, <2>1, <2>2, <2>3
<1> QED
  BY <1>1, <1>2 DEF Held

LEMMA StreamHolds ==
  ASSUME IsMap(vehicleParams, Component, CacheMap), NEW S \in SUBSET MockLink!Keys
  PROVE  Held(MockLink!InOrder(S)) = S
<1> DEFINE n == Cardinality(S)
           s == MockLink!InOrder(S)
<1>1. S \in SUBSET Pairs /\ IsFiniteSet(S)
  BY KeysAreFinite, FS_Subset
<1>2. /\ Ordered(S) \in [1 .. n -> S] /\ n \in Nat
      /\ \A i, j \in 1 .. n : i < j => Before(Ordered(S)[i], Ordered(S)[j])
  BY <1>1, OrderedLists, Ranks
<1>3. \E t \in [1 .. n -> S] :
        \A i, j \in DOMAIN t :
          i < j => t[i][1] < t[j][1] \/ (t[i][1] = t[j][1] /\ t[i][2] < t[j][2])
  BY <1>2 DEF Before
<1> DEFINE Increases(t) ==
             \A i, j \in DOMAIN t :
               i < j => t[i][1] < t[j][1] \/ (t[i][1] = t[j][1] /\ t[i][2] < t[j][2])
<1>4. s = CHOOSE t \in [1 .. n -> S] : Increases(t)
  BY SameCount DEF MockLink!InOrder
<1>5. s \in [1 .. n -> S] /\ Increases(s)
  <2> HIDE DEF s, n, Increases
  <2>1. \E t \in [1 .. n -> S] : Increases(t)
    BY <1>3 DEF Increases
  <2> QED
    BY <1>4, <2>1
<1>6. /\ s \in [1 .. n -> S]
      /\ \A i, j \in DOMAIN s :
           i < j => s[i][1] < s[j][1] \/ (s[i][1] = s[j][1] /\ s[i][2] < s[j][2])
  BY <1>5
<1> HIDE DEF s, Increases
<1>7. ASSUME NEW i \in 1 .. n, NEW j \in 1 .. n, i < j
      PROVE  s[i] /= s[j]
  <2>1. Before(s[i], s[j]) /\ s[i] \in Pairs
    BY <1>1, <1>6, <1>7 DEF Before
  <2> QED
    BY <2>1, BeforeIsOrder
<1>8. s \in Injection(1 .. n, S)
  <2>1. \A i, j \in 1 .. n : s[i] = s[j] => i = j
    BY <1>2, <1>7
  <2> QED
    BY <1>6, <2>1 DEF Injection, IsInjective
<1>9. IsFiniteSet(1 .. n) /\ Cardinality(1 .. n) = n
  BY <1>2, FS_Interval
<1>10. s \in Surjection(1 .. n, S)
  BY <1>1, <1>8, <1>9, FS_Injection
<1>11. \A p \in S : \E i \in 1 .. n : s[i] = p
  BY <1>10 DEF Surjection
<1>12. Held(s) = S
  BY <1>6, <1>11 DEF Held
<1> QED
  BY <1>12 DEF s

\* What is sent on a link with room is held by it.
LEMMA OneIsHeld ==
  ASSUME NEW S, toVehicle \in Seq(S), NEW m \in S, Send(m), LinksHaveRoom'
  PROVE  Held(toVehicle') = Held(toVehicle) \cup {m}
<1>1. <<m>> \in Seq(S)
  OBVIOUS
<1>2. toVehicle' = toVehicle \o <<m>>
  BY <1>1, AllIsSent DEF Send
<1>3. Held(toVehicle \o <<m>>) = Held(toVehicle) \cup Held(<<m>>)
  BY <1>1, HeldTogether
<1> QED
  BY <1>2, <1>3, HeldOne

LEMMA AnswerIsHeld ==
  ASSUME NEW S, toGcs \in Seq(S), NEW m \in S, MockLink!Respond(m), LinksHaveRoom'
  PROVE  Held(toGcs') = Held(toGcs) \cup {m}
<1>1. toGcs' = Append(toGcs, m)
  BY AnswerIsSent
<1>2. Held(Append(toGcs, m)) = Held(toGcs) \cup {m}
  BY HeldAppended
<1> QED
  BY <1>1, <1>2

LEMMA IndicesAreHeld ==
  ASSUME IsMap(vehicleParams, Component, CacheMap),
         NEW waiting, DOMAIN waiting \subseteq VehicleIndices, NEW queue
  PROVE  /\ IndexRequests(waiting, queue) \in Seq(Requests)
         /\ Held(IndexRequests(waiting, queue)) = {ReadIndex(p) : p \in Asked(waiting, queue)}
<1> DEFINE S == Asked(waiting, queue)
<1>1. S \subseteq VehicleIndices
  BY DEF Asked, Fillable
<1>2. IndexRequests(waiting, queue) = [i \in DOMAIN Ordered(S) |-> ReadIndex(Ordered(S)[i])]
  BY DEF IndexRequests
<1> HIDE DEF S
<1>3. S \in SUBSET Pairs /\ IsFiniteSet(S)
  BY <1>1, IndicesOfVehicle, FS_Subset
<1>4. Held(Ordered(S)) = S
  BY <1>3, AllAreListed
<1>5. Held(IndexRequests(waiting, queue)) = {ReadIndex(p) : p \in S}
  BY <1>2, <1>4 DEF Held
<1> QED
  BY <1>5, IndicesRequested DEF S
-----------------------------------------------------------------------------
(* What every step keeps *)

LEMMA SameVehicle ==
  ASSUME ProtocolInv, [ProtocolNext]_protocolVars
  PROVE  /\ SameNames /\ failureMode' = failureMode /\ sendsHash' = sendsHash
         /\ regime' = regime
<1>1. VehicleOK
  BY DEF ProtocolInv
<1>2. CASE \/ UserWrites \/ UserRefreshes \/ GroundReceives \/ GroundLoadsFromCache \/ TimerFires
           \/ LoseToVehicle \/ LoseToGcs \/ UNCHANGED protocolVars
  BY <1>2 DEF UserWrites, UserRefreshes, GroundReceives, GroundLoadsFromCache, TimerFires,
     LoseToVehicle, LoseToGcs, protocolVars, vehicleVars, SameNames
<1>3. CASE VehicleReceives
  <2>1. Head(toVehicle) \in Requests /\ MockLink!HandleMessage(Head(toVehicle))
    <3>1. toVehicle \in Seq(Requests) /\ toVehicle /= <<>>
      BY <1>1, <1>3 DEF VehicleOK, VehicleReceives
    <3> QED
      BY <1>3, <3>1 DEF VehicleReceives
  <2>2. VehicleWorks
    BY <1>1, <2>1, MessageHandled
  <2>3. failureMode' = failureMode
    BY <2>1 DEF MockLink!HandleMessage, MockLink!HandleParamRequestList,
       MockLink!HandleParamRequestRead, MockLink!HandleParamSet, MockLink!HashReturned
  <2> QED
    BY <1>3, <2>2, <2>3 DEF VehicleWorks, VehicleReceives
<1>4. CASE VehicleSends \/ VolatileValueChanges
  <2>1. VehicleWorks
    BY <1>1, <1>4, NextParameterSent, VolatileChanged DEF VehicleSends, VolatileValueChanges
  <2> QED
    BY <1>4, <2>1 DEF VehicleWorks, VehicleSends, VolatileValueChanges,
       MockLink!SendNextParameter, MockLink!VolatileValueChanges
<1> QED
  BY <1>2, <1>3, <1>4 DEF ProtocolNext

LEMMA StaysAsTested ==
  ASSUME ProtocolInv, [ProtocolNext]_protocolVars
  PROVE  /\ VehicleAsTested => VehicleAsTested'
         /\ MockLink!Keys' = MockLink!Keys /\ Streamed' = Streamed
         /\ DefaultAlone' = DefaultAlone /\ NoAnswer' = NoAnswer /\ NeverSent' = NeverSent
         /\ InTime' = InTime
<1>1. /\ SameNames /\ failureMode' = failureMode /\ sendsHash' = sendsHash
      /\ regime' = regime /\ DefaultComponent \in DOMAIN vehicleParams
  BY SameVehicle DEF ProtocolInv, VehicleOK
<1>2. DOMAIN (vehicleParams'[DefaultComponent]) = DOMAIN vehicleParams[DefaultComponent]
  BY <1>1 DEF SameNames
<1>3. VehicleAsTested => VehicleAsTested'
  BY <1>1, <1>2 DEF VehicleAsTested, AsTested, SameNames
<1>4. MockLink!Keys' = MockLink!Keys
  BY <1>1, NamesStay
<1>5. \A p : MockLink!Skipped(p)' = MockLink!Skipped(p)
  BY <1>1 DEF MockLink!Skipped
<1>6. Streamed' = Streamed
  BY <1>4, <1>5 DEF Streamed
<1> QED
  BY <1>1, <1>3, <1>4, <1>6 DEF DefaultAlone, SameNames, NoAnswer, NeverSent, InTime

\* What a value that is taken over leaves to be waited for
Awaits(m) == <<m.comp, m.index>> \in DOMAIN Expected(m.comp, m.count)
StillAwaited(m) == Without(Expected(m.comp, m.count), {<<m.comp, m.index>>})
StillQueued(m) == IF Awaits(m) THEN indexBatchQueue \ {m.index} ELSE indexBatchQueue

\* What the ground station sends when it takes over a value
LEMMA UpdateIsHeld ==
  ASSUME VehicleOK, LearnedOK, NEW m \in TrueValues, NEW after \in Seq(Requests),
         Update(m, after), LinksHaveRoom'
  PROVE  /\ DOMAIN StillAwaited(m) \subseteq VehicleIndices
         /\ \/ /\ Awaits(m) /\ indexBatchQueueActive
               /\ FillIndexBatchQueue(StillAwaited(m), StillQueued(m))
               /\ Held(toVehicle')
                    = Held(toVehicle) \cup Held(after)
                        \cup {ReadIndex(p) : p \in Asked(StillAwaited(m), StillQueued(m))}
            \/ /\ ~(Awaits(m) /\ indexBatchQueueActive)
               /\ waitingReadIndex' = StillAwaited(m) /\ indexBatchQueue' = StillQueued(m)
               /\ UNCHANGED failedReadIndex
               /\ Held(toVehicle') = Held(toVehicle) \cup Held(after)
<1> DEFINE own == Indices(m.comp, m.count)
           rest == StillAwaited(m)
           queue == StillQueued(m)
<1>1. IsMap(vehicleParams, Component, CacheMap) /\ toVehicle \in Seq(Requests)
  BY DEF VehicleOK
<1>2. DOMAIN rest \subseteq DOMAIN waitingReadIndex \cup own
  BY DEF StillAwaited, Expected, Without
<1>3. own \subseteq VehicleIndices
  BY <1>1, IndicesOfVehicle DEF TrueValues
<1>4. DOMAIN rest \subseteq VehicleIndices
  BY <1>2, <1>3 DEF LearnedOK
<1>5. \/ /\ Awaits(m) /\ indexBatchQueueActive
         /\ FillIndexBatchQueue(rest, queue)
         /\ SendAll(IndexRequests(rest, queue) \o after)
      \/ /\ ~(Awaits(m) /\ indexBatchQueueActive)
         /\ waitingReadIndex' = rest /\ indexBatchQueue' = queue
         /\ UNCHANGED failedReadIndex /\ SendAll(after)
  BY DEF Update, Awaits, StillAwaited, StillQueued
<1> HIDE DEF rest, queue
<1>6. CASE /\ Awaits(m) /\ indexBatchQueueActive
           /\ FillIndexBatchQueue(rest, queue)
           /\ SendAll(IndexRequests(rest, queue) \o after)
  <2> DEFINE ask == IndexRequests(rest, queue)
  <2>1. ask \in Seq(Requests) /\ Held(ask) = {ReadIndex(p) : p \in Asked(rest, queue)}
    BY <1>1, <1>4, IndicesAreHeld
  <2>2. PICK all : all = ask \o after
    OBVIOUS
  <2>3. SendAll(all)
    BY <1>6, <2>2
  <2> HIDE DEF ask
  <2>4. all \in Seq(Requests)
    BY <2>1, <2>2
  <2>5. Held(all) = Held(ask) \cup Held(after)
    BY <2>1, <2>2, HeldTogether
  <2>6. toVehicle' = toVehicle \o all
    BY <1>1, <2>3, <2>4, AllIsSent
  <2>7. Held(toVehicle \o all) = Held(toVehicle) \cup Held(all)
    BY <1>1, <2>4, HeldTogether
  <2>8. Held(toVehicle') = Held(toVehicle) \cup Held(after)
                             \cup {ReadIndex(p) : p \in Asked(rest, queue)}
    BY <2>1, <2>5, <2>6, <2>7
  <2> QED
    BY <1>4, <1>6, <2>8 DEF rest, queue
<1>7. CASE /\ ~(Awaits(m) /\ indexBatchQueueActive)
           /\ waitingReadIndex' = rest /\ indexBatchQueue' = queue
           /\ UNCHANGED failedReadIndex /\ SendAll(after)
  <2>1. toVehicle' = toVehicle \o after
    BY <1>1, <1>7, AllIsSent
  <2>2. Held(toVehicle \o after) = Held(toVehicle) \cup Held(after)
    BY <1>1, HeldTogether
  <2> QED
    BY <1>4, <1>7, <2>1, <2>2 DEF rest, queue
<1> QED
  BY <1>6, <1>7, <1>5

\* The requests that a timeout sends again
LEMMA TimeoutIsHeld ==
  ASSUME ProtocolInv, WaitingParamTimeout, LinksHaveRoom'
  PROVE  \/ toVehicle' = toVehicle
         \/ /\ RequestIndices
            /\ Held(toVehicle') = Held(toVehicle)
                 \cup {ReadIndex(p) : p \in Asked(waitingReadIndex, {})}
         \/ \E new \in SUBSET Requests :
              /\ Held(toVehicle') = Held(toVehicle) \cup new
              /\ \A m \in new : /\ m.kind \in {"Set", "ReadName"}
                                /\ <<m.comp, m.param>> \in DOMAIN facts
<1>1. /\ VehicleOK /\ ManagerInv /\ LearnedOK /\ FactTypeOK /\ toVehicle \in Seq(Requests)
      /\ IsMap(vehicleParams, Component, CacheMap)
  BY DEF ProtocolInv, ManagerInv, VehicleOK, ParameterTypeOK
<1>2. RequestIndices \/ AwaitDefaultComponent \/ RetryWrites \/ RetryReads \/ NothingToRetry
  BY DEF WaitingParamTimeout
<1>3. CASE RequestIndices
  <2> DEFINE ask == IndexRequests(waitingReadIndex, {})
  <2>1. ask \in Seq(Requests) /\ Held(ask) = {ReadIndex(p) : p \in Asked(waitingReadIndex, {})}
    BY <1>1, IndicesAreHeld DEF LearnedOK
  <2>2. SendAll(ask)
    BY <1>3 DEF RequestIndices
  <2> HIDE DEF ask
  <2>3. toVehicle' = toVehicle \o ask
    BY <1>1, <2>1, <2>2, AllIsSent
  <2>4. Held(toVehicle \o ask) = Held(toVehicle) \cup Held(ask)
    BY <1>1, <2>1, HeldTogether
  <2> QED
    BY <1>3, <2>1, <2>3, <2>4
<1>4. ASSUME NEW ms \in Seq(Requests), SendAll(ms),
             \A m \in Held(ms) : /\ m.kind \in {"Set", "ReadName"}
                                 /\ <<m.comp, m.param>> \in DOMAIN facts
      PROVE  \E new \in SUBSET Requests :
              /\ Held(toVehicle') = Held(toVehicle) \cup new
              /\ \A m \in new : /\ m.kind \in {"Set", "ReadName"}
                                /\ <<m.comp, m.param>> \in DOMAIN facts
  <2>1. toVehicle' = toVehicle \o ms
    BY <1>1, <1>4, AllIsSent
  <2>2. Held(toVehicle \o ms) = Held(toVehicle) \cup Held(ms)
    BY <1>1, HeldTogether
  <2>3. Held(ms) \in SUBSET Requests
    BY HeldNothing
  <2> QED
    BY <1>4, <2>1, <2>2, <2>3
<1>5. ASSUME NEW waiting, DOMAIN waiting \subseteq DOMAIN facts
      PROVE  \A i \in DOMAIN Ordered(Resent(waiting)) :
               /\ Ordered(Resent(waiting))[i] \in DOMAIN facts
               /\ Ordered(Resent(waiting))[i]
                    = <<Ordered(Resent(waiting))[i][1], Ordered(Resent(waiting))[i][2]>>
  <2> DEFINE S == Resent(waiting)
  <2>1. S \subseteq DOMAIN facts /\ S \subseteq MockLink!Keys
    BY <1>1, <1>5 DEF Resent, InBatch, LearnedOK
  <2> HIDE DEF S
  <2>2. S \in SUBSET Pairs /\ IsFiniteSet(S)
    BY <1>1, <2>1, KeysAreFinite, FS_Subset
  <2>3. \A i \in DOMAIN Ordered(S) : Ordered(S)[i] \in S
    BY <2>2, OrderedLists
  <2>4. \A p \in S : p = <<p[1], p[2]>>
    BY <1>1, <2>1, ValueIsTrue
  <2>5. \A i \in DOMAIN Ordered(S) : /\ Ordered(S)[i] \in DOMAIN facts
                                     /\ Ordered(S)[i] = <<Ordered(S)[i][1], Ordered(S)[i][2]>>
    BY <2>1, <2>3, <2>4
  <2> QED
    BY <2>5 DEF S
<1>6. /\ DOMAIN waitingWriteName \subseteq DOMAIN facts
      /\ DOMAIN waitingReadName \subseteq DOMAIN facts
      /\ WriteRequests \in Seq(Requests) /\ ReadRequests \in Seq(Requests)
  BY <1>1, NamesRequested DEF FactTypeOK, IsMap
<1>7. CASE RetryWrites
  <2>1. PICK o : o = Ordered(Resent(waitingWriteName))
    OBVIOUS
  <2>2. WriteRequests = [i \in DOMAIN o |-> Write(o[i], facts[o[i]])]
    BY <2>1 DEF WriteRequests
  <2>3. \A i \in DOMAIN o : o[i] \in DOMAIN facts /\ o[i] = <<o[i][1], o[i][2]>>
    BY <1>5, <1>6, <2>1
  <2>4. \A m \in Held(WriteRequests) : /\ m.kind \in {"Set", "ReadName"}
                                       /\ <<m.comp, m.param>> \in DOMAIN facts
    BY <2>2, <2>3 DEF Held, Write
  <2>5. SendAll(WriteRequests)
    BY <1>7 DEF RetryWrites
  <2> QED
    BY <1>4, <1>6, <2>4, <2>5
<1>8. CASE RetryReads
  <2>1. PICK o : o = Ordered(Resent(waitingReadName))
    OBVIOUS
  <2>2. ReadRequests = [i \in DOMAIN o |-> ReadName(o[i])]
    BY <2>1 DEF ReadRequests
  <2>3. \A i \in DOMAIN o : o[i] \in DOMAIN facts /\ o[i] = <<o[i][1], o[i][2]>>
    BY <1>5, <1>6, <2>1
  <2>4. \A m \in Held(ReadRequests) : /\ m.kind \in {"Set", "ReadName"}
                                      /\ <<m.comp, m.param>> \in DOMAIN facts
    BY <2>2, <2>3 DEF Held, ReadName
  <2>5. SendAll(ReadRequests)
    BY <1>8 DEF RetryReads
  <2> QED
    BY <1>4, <1>6, <2>4, <2>5
<1> QED
  BY <1>2, <1>3, <1>7, <1>8 DEF AwaitDefaultComponent, NothingToRetry

\* A step of the ground station adds to what is under way to the vehicle.
LEMMA GroundSends ==
  ASSUME ProtocolInv, LinksHaveRoom',
         \/ UserWrites \/ UserRefreshes \/ GroundReceives \/ GroundLoadsFromCache \/ TimerFires
  PROVE  /\ Held(toVehicle) \subseteq Held(toVehicle') /\ DOMAIN facts \subseteq DOMAIN facts'
         /\ \A m \in Held(toVehicle') \ Held(toVehicle) :
              /\ m.kind = "SetHash" => fromCache /= <<>> /\ Loaded(m.comp)'
              /\ m.kind \in {"Set", "ReadName"} => <<m.comp, m.param>> \in DOMAIN facts
              /\ m.kind = "ReadIndex" => m.comp \in DOMAIN paramCount'
              /\ m.kind \in {"RequestList", "SetHash", "Set", "ReadName", "ReadIndex"}
<1>1. /\ VehicleOK /\ ManagerInv /\ LearnedOK /\ IndexTypeOK /\ toVehicle \in Seq(Requests)
      /\ IsMap(vehicleParams, Component, CacheMap)
  BY DEF ProtocolInv, ManagerInv, VehicleOK, ParameterTypeOK
<1>2. ASSUME NEW p \in DOMAIN facts
      PROVE  p = <<p[1], p[2]>> /\ p \in MockLink!Keys
  BY <1>1, ValueIsTrue DEF LearnedOK
<1>3. CASE UserWrites
  <2>1. PICK p \in DOMAIN facts, v \in Value : ValueUpdated(p, v)
    BY <1>3 DEF UserWrites
  <2>2. Send(Write(p, v)) /\ DOMAIN facts' = DOMAIN facts
    BY <2>1 DEF ValueUpdated
  <2>3. Write(p, v) \in Requests
    BY <1>2 DEF Requests
  <2>4. Held(toVehicle') = Held(toVehicle) \cup {Write(p, v)}
    BY <1>1, <2>2, <2>3, OneIsHeld
  <2> QED
    BY <1>2, <2>2, <2>4 DEF Write
<1>4. CASE UserRefreshes /\ \E p \in DOMAIN facts : RefreshParameter(p)
  <2>1. PICK p \in DOMAIN facts : RefreshParameter(p)
    BY <1>4
  <2>2. Send(ReadName(p)) /\ facts' = facts
    BY <2>1 DEF RefreshParameter
  <2>3. ReadName(p) \in Requests
    BY <1>2 DEF Requests
  <2>4. Held(toVehicle') = Held(toVehicle) \cup {ReadName(p)}
    BY <1>1, <2>2, <2>3, OneIsHeld
  <2> QED
    BY <1>2, <2>2, <2>4 DEF ReadName
<1>5. ASSUME Send(RequestList(All)), facts' = facts
      PROVE  /\ Held(toVehicle) \subseteq Held(toVehicle') /\ DOMAIN facts \subseteq DOMAIN facts'
             /\ \A m \in Held(toVehicle') \ Held(toVehicle) : m.kind = "RequestList"
  <2>1. RequestList(All) \in Requests
    BY DEF Requests
  <2>2. Held(toVehicle') = Held(toVehicle) \cup {RequestList(All)}
    BY <1>1, <1>5, <2>1, OneIsHeld
  <2> QED
    BY <1>5, <2>2 DEF RequestList
<1>6. CASE UserRefreshes /\ RefreshAllParameters(All)
  BY <1>5, <1>6 DEF RefreshAllParameters, RequestAll
<1>7. ASSUME NEW m \in TrueValues, NEW after \in Seq(Requests), Update(m, after),
             \A r \in Held(after) : r.kind = "SetHash" /\ r.comp = m.comp /\ fromCache /= <<>>
      PROVE  /\ Held(toVehicle) \subseteq Held(toVehicle') /\ DOMAIN facts \subseteq DOMAIN facts'
             /\ \A r \in Held(toVehicle') \ Held(toVehicle) :
                  \/ r.kind = "SetHash" /\ fromCache /= <<>> /\ Loaded(r.comp)'
                  \/ r.kind = "ReadIndex" /\ r.comp \in DOMAIN paramCount'
  <2>1. \/ Held(toVehicle') = Held(toVehicle) \cup Held(after)
        \/ Held(toVehicle') = Held(toVehicle) \cup Held(after)
                \cup {ReadIndex(p) : p \in Asked(StillAwaited(m), StillQueued(m))}
    BY <1>1, <1>7, UpdateIsHeld
  <2>2. /\ paramCount' = IF Seen(m.comp) THEN paramCount ELSE With(paramCount, m.comp, m.count)
        /\ facts' = With(facts, <<m.comp, m.name>>, m.value)
    BY <1>7 DEF Update
  <2>3. ASSUME NEW p \in Asked(StillAwaited(m), StillQueued(m))
        PROVE  p[1] \in DOMAIN paramCount'
    <3>1. p \in DOMAIN waitingReadIndex \/ p \in Indices(m.comp, m.count)
      BY DEF Asked, Fillable, StillAwaited, Without, Expected
    <3>2. p[1] \in DOMAIN paramCount \/ p[1] = m.comp
      BY <1>1, <3>1 DEF IndexTypeOK, IsMap, Indices
    <3> QED
      BY <2>2, <3>2 DEF Seen, With
  <2>4. Loaded(m.comp)' /\ DOMAIN facts \subseteq DOMAIN facts'
    <3>1. DOMAIN facts' = DOMAIN facts \cup {<<m.comp, m.name>>}
      BY <2>2 DEF With
    <3>2. <<m.comp, m.name>>[1] = m.comp /\ <<m.comp, m.name>> \in DOMAIN facts'
      BY <3>1
    <3>3. \E p \in DOMAIN facts' : p[1] = m.comp
      BY <3>2
    <3> QED
      BY <3>1, <3>3 DEF Loaded
  <2> QED
    BY <1>7, <2>1, <2>3, <2>4 DEF ReadIndex
<1>8. CASE GroundReceives
  <2>1. CASE \E m \in TrueValues : ParameterUpdate(m)
    <3>1. PICK m \in TrueValues : Update(m, NoRequests)
      BY <2>1 DEF ParameterUpdate
    <3>2. <<>> \in Seq(Requests)
      OBVIOUS
    <3>3. NoRequests \in Seq(Requests) /\ Held(NoRequests) = {}
      BY <3>2, HeldOne DEF NoRequests
    <3>4. \A r \in Held(NoRequests) : r.kind = "SetHash" /\ r.comp = m.comp /\ fromCache /= <<>>
      BY <3>3
    <3> QED
      BY <1>7, <3>1, <3>3, <3>4
  <2>2. CASE \E m \in TrueHashes : HashReceived(m)
    BY <2>2 DEF HashReceived
  <2> QED
    BY <1>1, <1>8, <2>1, <2>2, Arrival
<1>9. CASE GroundLoadsFromCache
  <2>1. PICK m, after : /\ m = Head(fromCache)
                        /\ after = IF Len(fromCache) = 1 THEN <<ReturnHash(m.comp)>> ELSE NoRequests
    OBVIOUS
  <2>2. /\ fromCache \in Seq(TrueValues) /\ fromCache /= <<>> /\ Update(m, after)
    BY <1>1, <1>9, <2>1 DEF GroundLoadsFromCache, LoadFromCache, ManagerInv, CacheKnows
  <2>3. m \in TrueValues
    BY <2>1, <2>2
  <2>4. after \in Seq(Requests) /\ \A r \in Held(after) : r = ReturnHash(m.comp)
    <3>1. m.comp \in Component
      BY <2>3 DEF TrueValues, ParamValue
    <3>2. ReturnHash(m.comp) \in Requests
      BY <3>1 DEF Requests
    <3> QED
      BY <2>1, <3>2, HeldOne DEF NoRequests
  <2>5. \A r \in Held(after) : r.kind = "SetHash" /\ r.comp = m.comp /\ fromCache /= <<>>
    BY <2>2, <2>4 DEF ReturnHash
  <2> QED
    BY <1>7, <2>2, <2>3, <2>4, <2>5
<1>10. CASE TimerFires /\ InitialRequestTimeout
  <2>1. facts' = facts /\ (Send(RequestList(All)) \/ toVehicle' = toVehicle)
    BY <1>10 DEF InitialRequestTimeout, RequestAll
  <2> QED
    BY <1>5, <2>1
<1>11. CASE TimerFires /\ WaitingParamTimeout
  <2>1. facts' = facts /\ paramCount' = paramCount
    BY <1>11 DEF WaitingParamTimeout
  <2>2. CASE toVehicle' = toVehicle
    BY <2>1, <2>2
  <2>3. CASE Held(toVehicle') = Held(toVehicle)
                 \cup {ReadIndex(p) : p \in Asked(waitingReadIndex, {})}
    <3>1. \A p \in Asked(waitingReadIndex, {}) : p[1] \in DOMAIN paramCount'
      BY <1>1, <2>1 DEF Asked, Fillable, IndexTypeOK, IsMap
    <3> QED
      BY <2>1, <2>3, <3>1 DEF ReadIndex
  <2> QED
    BY <1>11, <2>1, <2>2, <2>3, TimeoutIsHeld
<1> QED
  BY <1>3, <1>4, <1>6, <1>8, <1>9, <1>10, <1>11 DEF UserRefreshes, TimerFires

LEMMA GroundTakes ==
  ASSUME VehicleOK, GroundReceives
  PROVE  \/ \E m \in TrueValues : Held(toGcs) = {m} \cup Held(toGcs') /\ ParameterUpdate(m)
         \/ \E m \in TrueHashes : Held(toGcs) = {m} \cup Held(toGcs') /\ HashReceived(m)
<1>1. /\ toGcs \in Seq(Answers) /\ toGcs /= <<>> /\ toGcs' = Tail(toGcs)
      /\ IF "hash" \in DOMAIN Head(toGcs) THEN HashReceived(Head(toGcs))
                                          ELSE ParameterUpdate(Head(toGcs))
  BY DEF VehicleOK, GroundReceives, Answers
<1>2. Head(toGcs) \in Answers /\ Held(toGcs) = {Head(toGcs)} \cup Held(toGcs')
  BY <1>1, HeldTaken
<1>3. \A m \in TrueValues : "hash" \notin DOMAIN m
  BY DEF TrueValues, ParamValue
<1>4. \A m \in TrueHashes : "hash" \in DOMAIN m
  BY DEF TrueHashes, HashCheck
<1> QED
  BY <1>1, <1>2, <1>3, <1>4 DEF Answers

KeyRead(m) == <<m.comp, IF m.kind = "ReadIndex" THEN MockLink!NameAt(m.comp, m.param)
                                                ELSE m.param>>

\* A value of p is sent.
Answered(p) ==
  \E a \in TrueValues : <<a.comp, a.name>> = p /\ Held(toGcs') = Held(toGcs) \cup {a}

VehicleTakes(m) ==
  \/ /\ m.kind = "RequestList"
     /\ IF NoAnswer THEN sending' = sending ELSE Held(sending') = MockLink!Keys
     /\ IF sendsHash THEN \E a \in TrueHashes : Held(toGcs') = Held(toGcs) \cup {a}
                     ELSE toGcs' = toGcs
  \/ /\ m.kind \in {"ReadIndex", "ReadName"} /\ KeyRead(m) \in MockLink!Keys
     /\ sending' = sending
     /\ IF NeverSent /\ KeyRead(m)[2] = FailParam THEN toGcs' = toGcs ELSE Answered(KeyRead(m))
  \/ /\ m.kind = "Set" /\ <<m.comp, m.param>> \in MockLink!Keys
     /\ sending' = sending
     /\ Answered(<<m.comp, m.param>>)
  \/ /\ m.kind = "SetHash" /\ toGcs' = toGcs
     /\ Held(sending') = {p \in Held(sending) : p[1] /= m.comp}

LEMMA VehicleHandles ==
  ASSUME VehicleOK, VehicleReceives, LinksHaveRoom'
  PROVE  \E m \in Requests : Held(toVehicle) = {m} \cup Held(toVehicle') /\ VehicleTakes(m)
<1>1. /\ IsMap(vehicleParams, Component, CacheMap) /\ toVehicle \in Seq(Requests)
      /\ toGcs \in Seq(Answers) /\ sendsHash = regime.hash /\ sending \in Seq(MockLink!Keys)
      /\ toVehicle /= <<>> /\ toVehicle' = Tail(toVehicle)
  BY DEF VehicleOK, Answers, VehicleReceives
<1>2. PICK m \in Requests : m = Head(toVehicle)
  BY <1>1
<1>3. Held(toVehicle) = {m} \cup Held(toVehicle') /\ MockLink!HandleMessage(m)
  BY <1>1, <1>2, HeldTaken DEF VehicleReceives
<1>4. CASE m.kind = "RequestList" /\ MockLink!HandleParamRequestList(m)
  <2>1. /\ IF NoAnswer THEN sending' = sending ELSE sending' = MockLink!InOrder(MockLink!Keys)
        /\ IF sendsHash THEN MockLink!Respond(MockLink!HashOf(DefaultComponent))
                        ELSE toGcs' = toGcs
    BY <1>4 DEF MockLink!HandleParamRequestList, NoAnswer
  <2>2. Held(MockLink!InOrder(MockLink!Keys)) = MockLink!Keys
    BY <1>1, StreamHolds
  <2>3. ASSUME sendsHash
        PROVE  \E a \in TrueHashes : Held(toGcs') = Held(toGcs) \cup {a}
    <3>1. MockLink!HashOf(DefaultComponent) \in TrueHashes
      BY <1>1, <2>3, HashIsTrue
    <3>2. PICK a \in TrueHashes : a = MockLink!HashOf(DefaultComponent)
      BY <3>1
    <3>3. MockLink!Respond(a) /\ a \in Answers
      BY <2>1, <2>3, <3>2 DEF Answers
    <3>4. Held(toGcs') = Held(toGcs) \cup {a}
      BY <1>1, <3>3, AnswerIsHeld
    <3> QED
      BY <3>4
  <2>4. IF NoAnswer THEN sending' = sending ELSE Held(sending') = MockLink!Keys
    BY <2>1, <2>2
  <2> QED
    BY <1>3, <1>4, <2>1, <2>3, <2>4 DEF VehicleTakes
<1>5. ASSUME NEW p \in MockLink!Keys, NEW a \in TrueValues, MockLink!Respond(a),
             <<a.comp, a.name>> = p
      PROVE  Answered(p)
  <2>1. a \in Answers
    BY DEF Answers
  <2>2. Held(toGcs') = Held(toGcs) \cup {a}
    BY <1>1, <1>5, <2>1, AnswerIsHeld
  <2> QED
    BY <1>5, <2>2 DEF Answered
<1>6. ASSUME NEW p \in MockLink!Keys
      PROVE  /\ MockLink!ValueOf(p) \in TrueValues
             /\ <<MockLink!ValueOf(p).comp, MockLink!ValueOf(p).name>> = p
             /\ \A v \in Value :
                  LET a == [MockLink!ValueOf(p) EXCEPT !.value = v]
                  IN  a \in TrueValues /\ <<a.comp, a.name>> = p
  BY <1>1, ValueIsTrue DEF MockLink!ValueOf
<1>7. CASE m.kind \in {"ReadIndex", "ReadName"} /\ MockLink!HandleParamRequestRead(m)
  <2>1. KeyRead(m) \in MockLink!Keys
    BY <1>1, <1>7, ReadsAreOfKeys DEF KeyRead
  <2>2. PICK p \in MockLink!Keys : p = KeyRead(m)
    BY <2>1
  <2>3. /\ sending' = sending
        /\ IF NeverSent /\ p[2] = FailParam THEN toGcs' = toGcs
                                            ELSE MockLink!Respond(MockLink!ValueOf(p))
    BY <1>7, <2>2 DEF MockLink!HandleParamRequestRead, KeyRead, NeverSent
  <2>4. IF NeverSent /\ p[2] = FailParam THEN toGcs' = toGcs ELSE Answered(p)
    BY <1>5, <1>6, <2>3
  <2> QED
    BY <1>3, <1>7, <2>1, <2>2, <2>3, <2>4 DEF VehicleTakes
<1>8. CASE m.kind = "Set" /\ MockLink!HandleParamSet(m)
  <2>1. PICK p \in MockLink!Keys, v \in Value : m = Write(p, v)
    BY <1>8 DEF Requests, RequestList, ReturnHash, ReadIndex, ReadName
  <2>2. p = <<m.comp, m.param>> /\ m.value = v
    BY <1>1, <2>1, ValueIsTrue DEF Write
  <2>3. sending' = sending /\ MockLink!Respond([MockLink!ValueOf(p) EXCEPT !.value = v])
    BY <1>8, <2>2 DEF MockLink!HandleParamSet
  <2>4. PICK a : a = [MockLink!ValueOf(p) EXCEPT !.value = v]
    OBVIOUS
  <2>5. a \in TrueValues /\ <<a.comp, a.name>> = p
    BY <1>6, <2>4
  <2>6. Answered(p)
    BY <1>5, <2>3, <2>4, <2>5
  <2> QED
    BY <1>3, <1>8, <2>2, <2>3, <2>6 DEF VehicleTakes
<1>9. CASE m.kind = "SetHash" /\ MockLink!HashReturned(m)
  <2> DEFINE S == {p \in Held(sending) : p[1] /= m.comp}
  <2>1. sending' = MockLink!InOrder(S) /\ toGcs' = toGcs
    BY <1>9 DEF MockLink!HashReturned, Held
  <2>2. S \in SUBSET MockLink!Keys
    BY <1>1, HeldNothing
  <2> HIDE DEF S
  <2>3. Held(sending') = S
    BY <1>1, <2>1, <2>2, StreamHolds
  <2> QED
    BY <1>3, <1>9, <2>1, <2>3 DEF VehicleTakes, S
<1> QED
  BY <1>3, <1>4, <1>7, <1>8, <1>9 DEF MockLink!HandleMessage

LEMMA VehicleStreams ==
  ASSUME VehicleOK, VehicleSends, LinksHaveRoom'
  PROVE  \E p \in MockLink!Keys :
           /\ Held(sending) = {p} \cup Held(sending')
           /\ IF MockLink!Skipped(p) THEN toGcs' = toGcs ELSE Answered(p)
<1>1. /\ IsMap(vehicleParams, Component, CacheMap) /\ sending \in Seq(MockLink!Keys)
      /\ toGcs \in Seq(Answers) /\ sending /= <<>> /\ sending' = Tail(sending)
  BY DEF VehicleOK, Answers, VehicleSends, MockLink!SendNextParameter
<1>2. PICK p \in MockLink!Keys : p = Head(sending)
  BY <1>1
<1>3. Held(sending) = {p} \cup Held(sending')
  BY <1>1, <1>2, HeldTaken
<1>4. IF MockLink!Skipped(p) THEN toGcs' = toGcs ELSE MockLink!Respond(MockLink!ValueOf(p))
  BY <1>2 DEF VehicleSends, MockLink!SendNextParameter
<1>5. CASE MockLink!Skipped(p)
  BY <1>3, <1>4, <1>5
<1>6. CASE ~MockLink!Skipped(p)
  <2>1. PICK a : a = MockLink!ValueOf(p)
    OBVIOUS
  <2>2. a \in TrueValues /\ <<a.comp, a.name>> = p /\ a \in Answers
    BY <1>1, <2>1, ValueIsTrue DEF MockLink!ValueOf, Answers
  <2>3. Held(toGcs') = Held(toGcs) \cup {a}
    BY <1>1, <1>4, <1>6, <2>1, <2>2, AnswerIsHeld
  <2>4. Answered(p)
    BY <2>2, <2>3 DEF Answered
  <2> QED
    BY <1>3, <1>6, <2>4
<1> QED
  BY <1>5, <1>6
-----------------------------------------------------------------------------
(* A list request is answered *)

LEMMA AnswersAdd ==
  ASSUME NEW p, Answered(p)
  PROVE  ValueComes(p)' /\ Held(toGcs) \subseteq Held(toGcs') /\ Held(toGcs') /= {}
<1>1. PICK a \in TrueValues : <<a.comp, a.name>> = p /\ Held(toGcs') = Held(toGcs) \cup {a}
  BY DEF Answered
<1>2. IsValueOf(a, p)
  BY <1>1 DEF IsValueOf, TrueValues, ParamValue
<1> QED
  BY <1>1, <1>2 DEF ValueComes

LEMMA ValuesStillCome ==
  ASSUME Held(toGcs) \subseteq Held(toGcs')
  PROVE  \A p : ValueComes(p) => ValueComes(p)'
BY DEF ValueComes

\* What a step of the vehicle does to what is on the links
LEMMA VehicleStepAdds ==
  ASSUME VehicleOK, LinksHaveRoom', VehicleReceives \/ VehicleSends \/ VolatileValueChanges
  PROVE  /\ Held(toGcs) \subseteq Held(toGcs') /\ Held(toVehicle') \subseteq Held(toVehicle)
         /\ UNCHANGED <<managerVars, regime>>
         /\ \A a \in Held(toGcs') \ Held(toGcs) :
              a \in TrueValues \/ (a \in TrueHashes /\ sendsHash)
<1>1. CASE VehicleReceives
  <2>1. PICK m \in Requests : Held(toVehicle) = {m} \cup Held(toVehicle') /\ VehicleTakes(m)
    BY <1>1, VehicleHandles
  <2>2. Held(toGcs') = Held(toGcs)
        \/ \E a : /\ Held(toGcs') = Held(toGcs) \cup {a}
                  /\ a \in TrueValues \/ (a \in TrueHashes /\ sendsHash)
    BY <2>1 DEF VehicleTakes, Answered, Held
  <2> QED
    BY <1>1, <2>1, <2>2 DEF VehicleReceives
<1>2. CASE VehicleSends
  <2>1. Held(toGcs') = Held(toGcs)
        \/ \E a : Held(toGcs') = Held(toGcs) \cup {a} /\ a \in TrueValues
    BY <1>2, VehicleStreams DEF Answered, Held
  <2> QED
    BY <1>2, <2>1 DEF VehicleSends, vars, Held
<1>3. CASE VolatileValueChanges
  BY <1>3 DEF VolatileValueChanges, MockLink!VolatileValueChanges, vars, Held
<1> QED
  BY <1>1, <1>2, <1>3

\* A step of the vehicle keeps what is to come, unless a hash was returned to it.
LEMMA StillComing ==
  ASSUME VehicleOK, HashFollowsValues, ~NoAnswer, LinksHaveRoom',
         VehicleReceives \/ VehicleSends \/ VolatileValueChanges,
         NEW p \in Streamed, Coming(p)
  PROVE  Coming(p)' \/ (sendsHash /\ Loaded(p[1]))
<1>1. \A q : ValueComes(q) => ValueComes(q)'
  BY VehicleStepAdds, ValuesStillCome
<1>2. CASE VehicleReceives
  <2>1. PICK m \in Requests : Held(toVehicle) = {m} \cup Held(toVehicle') /\ VehicleTakes(m)
    BY <1>2, VehicleHandles
  <2>2. CASE m.kind = "RequestList"
    BY <2>1, <2>2 DEF VehicleTakes, Coming, Streamed
  <2>3. CASE m.kind /= "RequestList"
    <3>1. ListComes => ListComes'
      BY <2>1, <2>3 DEF ListComes
    <3>2. CASE sending' = sending
      BY <1>1, <3>1, <3>2 DEF Coming, Held
    <3>3. CASE m.kind = "SetHash" /\ Held(sending') = {q \in Held(sending) : q[1] /= m.comp}
      <4>1. m \in Held(toVehicle) /\ sendsHash /\ Loaded(m.comp)
        BY <2>1, <3>3 DEF HashFollowsValues
      <4> QED
        BY <1>1, <3>1, <3>3, <4>1 DEF Coming
    <3> QED
      BY <2>1, <2>3, <3>2, <3>3 DEF VehicleTakes
  <2> QED
    BY <2>2, <2>3
<1>3. CASE VehicleSends
  <2>1. PICK q \in MockLink!Keys :
          /\ Held(sending) = {q} \cup Held(sending')
          /\ IF MockLink!Skipped(q) THEN toGcs' = toGcs ELSE Answered(q)
    BY <1>3, VehicleStreams
  <2>2. ListComes => ListComes'
    BY <1>3 DEF VehicleSends, vars, ListComes, Held
  <2>3. p \in Held(sending) => p \in Held(sending') \/ ValueComes(p)'
    BY <2>1, AnswersAdd DEF Streamed
  <2> QED
    BY <1>1, <2>2, <2>3 DEF Coming
<1>4. CASE VolatileValueChanges
  BY <1>4 DEF VolatileValueChanges, MockLink!VolatileValueChanges, vars, Coming, ListComes,
     ValueComes, Held
<1> QED
  BY <1>2, <1>3, <1>4

LEMMA DefaultIsStreamed ==
  ASSUME VehicleOK, VehicleAsTested
  PROVE  \E p \in Streamed : p[1] = DefaultComponent
<1>1. PICK n \in DOMAIN vehicleParams[DefaultComponent] :
        failureMode \in {"FailMissingParamOnInitialRequest", "FailMissingParamOnAllRequests"}
          => n /= FailParam
  BY DEF VehicleAsTested, AsTested
<1>2. <<DefaultComponent, n>> \in MockLink!Keys
  BY DEF MockLink!Keys, MockLink!Names, VehicleOK
<1>3. <<DefaultComponent, n>>[1] = DefaultComponent /\ ~MockLink!Skipped(<<DefaultComponent, n>>)
  BY <1>1 DEF MockLink!Skipped
<1>4. <<DefaultComponent, n>> \in Streamed
  BY <1>2, <1>3 DEF Streamed
<1> QED
  BY <1>3, <1>4

LEMMA VehicleAnswersList ==
  ASSUME ProtocolInv, VehicleAsTested, ~NoAnswer, ListIsAnswered, HashFollowsValues,
         LinksHaveRoom', VehicleReceives \/ VehicleSends \/ VolatileValueChanges
  PROVE  ListIsAnswered' /\ HashFollowsValues'
<1>1. /\ VehicleOK /\ SameNames /\ sendsHash' = sendsHash /\ Streamed' = Streamed
      /\ facts' = facts /\ fromCache' = fromCache /\ initialRequestTimer' = initialRequestTimer
      /\ Held(toGcs) \subseteq Held(toGcs') /\ Held(toVehicle') \subseteq Held(toVehicle)
      /\ [ProtocolNext]_protocolVars
  BY SameVehicle, StaysAsTested, VehicleStepAdds
     DEF ProtocolInv, ProtocolNext, managerVars, cacheVars, timers
<1>2. HashFollowsValues'
  BY <1>1 DEF HashFollowsValues, Loaded
<1>3. ASSUME ~Loaded(DefaultComponent)'
      PROVE  \E p \in Streamed : p[1] = DefaultComponent /\ Coming(p)'
  <2>1. PICK p \in Streamed : p[1] = DefaultComponent /\ Coming(p)
    BY <1>1, <1>3 DEF ListIsAnswered, Loaded
  <2>2. ~Loaded(p[1])
    BY <1>1, <1>3, <2>1 DEF Loaded
  <2> QED
    BY <1>1, <2>1, <2>2, StillComing
<1>4. ASSUME initialRequestTimer
      PROVE  ListComes' \/ Held(toGcs') /= {} \/ (~sendsHash /\ Streamed \cap Held(sending') /= {})
  <2>1. CASE Held(toGcs) /= {}
    BY <1>1, <2>1
  <2>2. CASE VolatileValueChanges
    BY <1>4, <2>2 DEF ListIsAnswered, VolatileValueChanges, MockLink!VolatileValueChanges, vars,
       ListComes, Held
  <2>3. CASE VehicleSends
    <3>1. PICK q \in MockLink!Keys :
            /\ Held(sending) = {q} \cup Held(sending')
            /\ IF MockLink!Skipped(q) THEN toGcs' = toGcs ELSE Answered(q)
      BY <1>1, <2>3, VehicleStreams
    <3>2. ListComes => ListComes'
      BY <2>3 DEF VehicleSends, vars, ListComes, Held
    <3>3. CASE q \in Streamed
      BY <3>1, <3>3, AnswersAdd DEF Streamed
    <3>4. CASE q \notin Streamed
      BY <1>4, <2>1, <3>1, <3>2, <3>4 DEF ListIsAnswered
    <3> QED
      BY <3>3, <3>4
  <2>4. CASE VehicleReceives
    <3>1. PICK m \in Requests : Held(toVehicle) = {m} \cup Held(toVehicle') /\ VehicleTakes(m)
      BY <1>1, <2>4, VehicleHandles
    <3>2. CASE m.kind = "RequestList"
      <4>1. CASE sendsHash
        BY <3>1, <3>2, <4>1 DEF VehicleTakes
      <4>2. CASE ~sendsHash
        <5>1. Held(sending') = MockLink!Keys
          BY <3>1, <3>2 DEF VehicleTakes
        <5>2. \E p \in Streamed : p \in Held(sending')
          BY <1>1, <5>1, DefaultIsStreamed DEF Streamed
        <5> QED
          BY <4>2, <5>2
      <4> QED
        BY <4>1, <4>2
    <3>3. CASE m.kind /= "RequestList"
      <4>1. ListComes => ListComes'
        BY <3>1, <3>3 DEF ListComes
      <4>2. CASE sending' = sending
        BY <1>4, <2>1, <4>1, <4>2 DEF ListIsAnswered, Held
      <4>3. CASE m.kind = "SetHash"
        <5>1. sendsHash
          BY <3>1, <4>3 DEF HashFollowsValues
        <5> QED
          BY <1>4, <2>1, <4>1, <5>1 DEF ListIsAnswered
      <4> QED
        BY <3>1, <3>3, <4>2, <4>3 DEF VehicleTakes
    <3> QED
      BY <3>2, <3>3
  <2> QED
    BY <2>2, <2>3, <2>4
<1> QED
  BY <1>1, <1>2, <1>3, <1>4 DEF ListIsAnswered

\* What a step of the ground station leaves alone
LEMMA GroundLeaves ==
  ASSUME ProtocolInv,
         \/ UserWrites \/ UserRefreshes \/ GroundReceives \/ GroundLoadsFromCache \/ TimerFires
  PROVE  /\ UNCHANGED <<vehicleVars, regime>>
         /\ VehicleOK /\ ManagerInv /\ toVehicle \in Seq(Requests) /\ toGcs \in Seq(Answers)
         /\ toGcs' = toGcs \/ GroundReceives
         /\ [ProtocolNext]_protocolVars
BY DEF ProtocolInv, VehicleOK, Answers, UserWrites, UserRefreshes, GroundReceives,
   GroundLoadsFromCache, TimerFires, ProtocolNext

LEMMA NothingIsHeld ==
  ASSUME VehicleOK, InTime, TimerFires
  PROVE  Held(toVehicle) = {} /\ Held(toGcs) = {} /\ Held(sending) = {}
BY HeldOne DEF InTime, TimerFires, NothingUnderWay

LEMMA OnlyOneTimerFires ==
  ASSUME ProtocolInv, InTime, ListIsAnswered, TimerFires
  PROVE  WaitingParamTimeout
BY NothingIsHeld DEF ProtocolInv, TimerFires, InitialRequestTimeout, ListIsAnswered, ListComes

LEMMA AllAreAsked ==
  ASSUME ProtocolInv, UserRefreshes, RefreshAllParameters(All), LinksHaveRoom'
  PROVE  ListComes'
<1>1. toVehicle \in Seq(Requests) /\ Send(RequestList(All)) /\ RequestList(All) \in Requests
  BY DEF ProtocolInv, VehicleOK, RefreshAllParameters, RequestAll, Requests
<1>2. Held(toVehicle') = Held(toVehicle) \cup {RequestList(All)}
  BY <1>1, OneIsHeld
<1>3. RequestList(All).kind = "RequestList"
  BY DEF RequestList
<1>4. \E m \in Held(toVehicle') : m.kind = "RequestList"
  BY <1>2, <1>3
<1> QED
  BY <1>4 DEF ListComes

LEMMA GroundAwaitsList ==
  ASSUME ProtocolInv, InTime, ListIsAnswered, HashFollowsValues, LinksHaveRoom',
         \/ UserWrites \/ UserRefreshes \/ GroundReceives \/ GroundLoadsFromCache \/ TimerFires
  PROVE  ListIsAnswered' /\ HashFollowsValues'
<1>1. /\ UNCHANGED <<vehicleVars, regime>> /\ VehicleOK /\ ManagerInv
      /\ toGcs' = toGcs \/ GroundReceives
      /\ Streamed' = Streamed
      /\ Held(toVehicle) \subseteq Held(toVehicle') /\ DOMAIN facts \subseteq DOMAIN facts'
      /\ \A m \in Held(toVehicle') \ Held(toVehicle) :
           m.kind = "SetHash" => fromCache /= <<>> /\ Loaded(m.comp)'
  BY GroundLeaves, GroundSends, StaysAsTested
<1>2. sendsHash' = sendsHash /\ sending' = sending /\ sendsHash = regime.hash
  BY <1>1 DEF vehicleVars, VehicleOK
<1>3. \A c : Loaded(c) => Loaded(c)'
  BY <1>1 DEF Loaded
<1>4. ListComes => ListComes'
  BY <1>1 DEF ListComes
<1>5. fromCache' /= <<>> => sendsHash
  <2>1. CASE UserWrites
    BY <2>1 DEF UserWrites, ValueUpdated, cacheVars, HashFollowsValues
  <2>2. CASE UserRefreshes
    BY <2>2 DEF UserRefreshes, RefreshParameter, RefreshAllParameters, cacheVars,
       HashFollowsValues
  <2>3. CASE GroundReceives
    BY <1>1, <1>2, <2>3, GroundTakes DEF ParameterUpdate, TrueHashes, HashFollowsValues
  <2>4. CASE GroundLoadsFromCache
    BY <2>4 DEF GroundLoadsFromCache, LoadFromCache, HashFollowsValues
  <2>5. CASE TimerFires
    BY <2>5, OnlyOneTimerFires DEF WaitingParamTimeout, cacheVars, HashFollowsValues
  <2> QED
    BY <2>1, <2>2, <2>3, <2>4, <2>5
<1>6. HashFollowsValues'
  BY <1>1, <1>2, <1>3, <1>5 DEF HashFollowsValues
<1>7. ASSUME ~Loaded(DefaultComponent)'
      PROVE  \E p \in Streamed : p[1] = DefaultComponent /\ Coming(p)'
  <2>1. PICK p \in Streamed : p[1] = DefaultComponent /\ Coming(p)
    BY <1>3, <1>7 DEF ListIsAnswered
  <2>2. ASSUME ValueComes(p)
        PROVE  ValueComes(p)'
    <3>1. CASE toGcs' = toGcs
      BY <2>2, <3>1 DEF ValueComes, Held
    <3>2. CASE \E m \in TrueValues : Held(toGcs) = {m} \cup Held(toGcs') /\ ParameterUpdate(m)
      <4>1. PICK m \in TrueValues : Held(toGcs) = {m} \cup Held(toGcs') /\ ParameterUpdate(m)
        BY <3>2
      <4>2. DOMAIN facts' = DOMAIN facts \cup {<<m.comp, m.name>>}
        BY <4>1 DEF ParameterUpdate, Update, With
      <4>3. <<m.comp, m.name>>[1] = m.comp /\ <<m.comp, m.name>> \in DOMAIN facts'
        BY <4>2
      <4>4. m.comp /= DefaultComponent
        BY <1>7, <4>3 DEF Loaded
      <4> QED
        BY <2>1, <2>2, <4>1, <4>4 DEF ValueComes, IsValueOf
    <3>3. CASE \E m \in TrueHashes : Held(toGcs) = {m} \cup Held(toGcs') /\ HashReceived(m)
      <4>1. PICK m \in TrueHashes : Held(toGcs) = {m} \cup Held(toGcs')
        BY <3>3
      <4>2. ~IsValueOf(m, p)
        BY DEF TrueHashes, HashCheck, IsValueOf
      <4> QED
        BY <2>2, <4>1, <4>2 DEF ValueComes
    <3> QED
      BY <1>1, <3>1, <3>2, <3>3, GroundTakes
  <2>3. Coming(p)'
    BY <1>2, <1>4, <2>1, <2>2 DEF Coming, Held
  <2> QED
    BY <2>1, <2>3
<1>8. ASSUME initialRequestTimer'
      PROVE  ListComes' \/ Held(toGcs') /= {} \/ (~sendsHash /\ Streamed \cap Held(sending') /= {})
  <2>1. ASSUME initialRequestTimer, toGcs' = toGcs
        PROVE  ListComes' \/ Held(toGcs') /= {} \/ (~sendsHash /\ Streamed \cap Held(sending') /= {})
    BY <1>2, <1>4, <2>1 DEF ListIsAnswered, Held
  <2>2. CASE UserWrites
    BY <1>8, <2>1, <2>2 DEF UserWrites, ValueUpdated
  <2>3. CASE UserRefreshes
    <3>1. CASE \E p \in DOMAIN facts : RefreshParameter(p)
      BY <1>8, <2>1, <2>3, <3>1 DEF UserRefreshes, RefreshParameter
    <3>2. CASE RefreshAllParameters(All)
      BY <2>3, <3>2, AllAreAsked
    <3> QED
      BY <2>3, <3>1, <3>2 DEF UserRefreshes
  <2>4. CASE GroundReceives
    BY <1>1, <1>8, <2>4, GroundTakes DEF ParameterUpdate, HashReceived
  <2>5. CASE GroundLoadsFromCache
    BY <1>8, <2>1, <2>5 DEF GroundLoadsFromCache, LoadFromCache
  <2>6. CASE TimerFires
    <3>1. initialRequestTimer' = initialRequestTimer /\ toGcs' = toGcs
      BY <2>6, OnlyOneTimerFires DEF WaitingParamTimeout, TimerFires
    <3> QED
      BY <1>8, <2>1, <3>1
  <2> QED
    BY <2>2, <2>3, <2>4, <2>5, <2>6
<1>9. ListIsAnswered'
  BY <1>1, <1>2, <1>7, <1>8 DEF ListIsAnswered
<1> QED
  BY <1>6, <1>9
-----------------------------------------------------------------------------
(* A parameter that is never sent, and a vehicle that does not answer *)

LEMMA NoHashes ==
  ASSUME VehicleOK, VehicleAsTested, NoAnswer \/ NeverSent
  PROVE  ~sendsHash /\ TrueHashes = {} /\ DefaultAlone
BY DEF VehicleOK, VehicleAsTested, AsTested, NoAnswer, NeverSent, TrueHashes, DefaultAlone

LEMMA MissingIsTold ==
  ASSUME missingParameters => "Missing" \in told,
         \/ UserWrites \/ UserRefreshes \/ GroundReceives \/ GroundLoadsFromCache \/ TimerFires
  PROVE  missingParameters' => "Missing" \in told'
<1>1. ASSUME NEW also, CheckInitialLoadComplete(also)
      PROVE  missingParameters' => "Missing" \in told'
  BY <1>1 DEF CheckInitialLoadComplete, load
<1>2. ASSUME missingParameters' = missingParameters, told \subseteq told'
      PROVE  missingParameters' => "Missing" \in told'
  BY <1>2
<1>3. ASSUME NEW m, NEW after, Update(m, after)
      PROVE  missingParameters' => "Missing" \in told'
  <2>1. CheckInitialLoadComplete({})
    BY <1>3 DEF Update
  <2> QED
    BY <1>1, <2>1
<1>4. CASE UserWrites \/ UserRefreshes
  BY <1>2, <1>4 DEF UserWrites, UserRefreshes, ValueUpdated, RefreshParameter,
     RefreshAllParameters, load
<1>5. CASE GroundReceives
  <2>1. HashReceived(Head(toGcs)) \/ Update(Head(toGcs), NoRequests)
    BY <1>5 DEF GroundReceives, ParameterUpdate
  <2> QED
    BY <1>2, <1>3, <2>1 DEF HashReceived, load
<1>6. CASE GroundLoadsFromCache
  BY <1>3, <1>6 DEF GroundLoadsFromCache, LoadFromCache
<1>7. CASE TimerFires /\ InitialRequestTimeout
  BY <1>2, <1>7 DEF InitialRequestTimeout, load
<1>8. CASE TimerFires /\ WaitingParamTimeout
  <2>1. AwaitDefaultComponent \/ \E also : CheckInitialLoadComplete(also)
    BY <1>8 DEF WaitingParamTimeout, RequestIndices, RetryWrites, RetryReads, NothingToRetry
  <2> QED
    BY <1>1, <1>2, <2>1 DEF AwaitDefaultComponent, load
<1> QED
  BY <1>4, <1>5, <1>6, <1>7, <1>8 DEF TimerFires

LEMMA NeverLoadedOnGround ==
  ASSUME ProtocolInv, VehicleAsTested, NeverSent, HashFollowsValues, NeverLoaded, LinksHaveRoom',
         \/ UserWrites \/ UserRefreshes \/ GroundReceives \/ GroundLoadsFromCache \/ TimerFires
  PROVE  NeverLoaded'
<1>1. /\ VehicleOK /\ TrueHashes = {} /\ fromCache = <<>>
      /\ toGcs' = toGcs \/ GroundReceives
      /\ \A m \in Held(toVehicle') \ Held(toVehicle) :
           m.kind \in {"Set", "ReadName"} => <<m.comp, m.param>> \in DOMAIN facts
  BY GroundLeaves, GroundSends, NoHashes DEF HashFollowsValues
<1>2. \A m \in Held(toVehicle') : m.kind = "Set" => m.param /= FailParam
  <2>1. ASSUME NEW m \in Held(toVehicle') \ Held(toVehicle), m.kind = "Set"
        PROVE  m.param /= FailParam
    <3>1. <<m.comp, m.param>> \in DOMAIN facts /\ <<m.comp, m.param>>[2] = m.param
      BY <1>1, <2>1
    <3> QED
      BY <3>1 DEF NeverLoaded
  <2> QED
    BY <2>1 DEF NeverLoaded
<1>3. missingParameters' => "Missing" \in told'
  BY MissingIsTold DEF NeverLoaded
<1>4. CASE GroundReceives
  <2>1. PICK m \in TrueValues : Held(toGcs) = {m} \cup Held(toGcs') /\ ParameterUpdate(m)
    BY <1>1, <1>4, GroundTakes
  <2>2. DOMAIN facts' = DOMAIN facts \cup {<<m.comp, m.name>>}
    BY <2>1 DEF ParameterUpdate, Update, With
  <2>3. <<m.comp, m.name>>[2] /= FailParam
    BY <2>1 DEF NeverLoaded
  <2>4. \A p \in DOMAIN facts' : p[2] /= FailParam
    BY <2>2, <2>3 DEF NeverLoaded
  <2> QED
    BY <1>2, <1>3, <2>1, <2>4 DEF NeverLoaded
<1>5. CASE ~GroundReceives
  <2>1. DOMAIN facts' = DOMAIN facts
    <3>1. CASE UserWrites
      BY <3>1 DEF UserWrites, ValueUpdated
    <3>2. CASE UserRefreshes
      BY <3>2 DEF UserRefreshes, RefreshParameter, RefreshAllParameters
    <3>3. CASE TimerFires
      BY <3>3 DEF TimerFires, InitialRequestTimeout, WaitingParamTimeout
    <3> QED
      BY <1>1, <1>5, <3>1, <3>2, <3>3 DEF GroundLoadsFromCache, LoadFromCache
  <2>2. Held(toGcs') = Held(toGcs)
    BY <1>1, <1>5 DEF Held
  <2> QED
    BY <1>2, <1>3, <2>1, <2>2 DEF NeverLoaded
<1> QED
  BY <1>4, <1>5

LEMMA NeverLoadedFromVehicle ==
  ASSUME ProtocolInv, VehicleAsTested, NeverSent, NeverLoaded, LinksHaveRoom',
         VehicleReceives \/ VehicleSends \/ VolatileValueChanges
  PROVE  NeverLoaded'
<1>1. /\ VehicleOK /\ ~sendsHash
      /\ Held(toVehicle') \subseteq Held(toVehicle) /\ UNCHANGED managerVars
  BY NoHashes, VehicleStepAdds DEF ProtocolInv
<1>2. ASSUME NEW p, p[2] /= FailParam, Answered(p)
      PROVE  \A m \in Held(toGcs') : m.name /= FailParam
  <2>1. PICK a \in TrueValues : <<a.comp, a.name>> = p /\ Held(toGcs') = Held(toGcs) \cup {a}
    BY <1>2 DEF Answered
  <2>2. a.name /= FailParam
    BY <1>2, <2>1
  <2> QED
    BY <2>1, <2>2 DEF NeverLoaded
<1>3. ASSUME VehicleReceives
      PROVE  \A m \in Held(toGcs') : m.name /= FailParam
  <2>1. PICK m \in Requests : Held(toVehicle) = {m} \cup Held(toVehicle') /\ VehicleTakes(m)
    BY <1>1, <1>3, VehicleHandles
  <2>2. CASE toGcs' = toGcs
    BY <2>2 DEF NeverLoaded, Held
  <2>3. CASE m.kind \in {"ReadIndex", "ReadName"}
    BY <1>2, <2>1, <2>2, <2>3 DEF VehicleTakes
  <2>4. CASE m.kind = "Set"
    <3>1. <<m.comp, m.param>>[2] /= FailParam
      BY <2>1, <2>4 DEF NeverLoaded
    <3> QED
      BY <1>2, <2>1, <2>4, <3>1 DEF VehicleTakes
  <2> QED
    BY <1>1, <2>1, <2>2, <2>3, <2>4 DEF VehicleTakes
<1>4. ASSUME VehicleSends
      PROVE  \A m \in Held(toGcs') : m.name /= FailParam
  <2>1. PICK q \in MockLink!Keys : IF MockLink!Skipped(q) THEN toGcs' = toGcs ELSE Answered(q)
    BY <1>1, <1>4, VehicleStreams
  <2>2. ~MockLink!Skipped(q) => q[2] /= FailParam
    BY DEF MockLink!Skipped, NeverSent
  <2>3. toGcs' = toGcs => \A m \in Held(toGcs') : m.name /= FailParam
    BY DEF NeverLoaded, Held
  <2> QED
    BY <1>2, <2>1, <2>2, <2>3
<1>5. ASSUME VolatileValueChanges
      PROVE  \A m \in Held(toGcs') : m.name /= FailParam
  BY <1>5 DEF VolatileValueChanges, MockLink!VolatileValueChanges, NeverLoaded, Held
<1>6. \A m \in Held(toGcs') : m.name /= FailParam
  BY <1>3, <1>4, <1>5
<1> QED
  BY <1>1, <1>6 DEF NeverLoaded, managerVars, load

LEMMA NeverAnsweredStep ==
  ASSUME ProtocolInv, VehicleAsTested, NoAnswer, NeverAnswered, fromCache = <<>>, InTime,
         LinksHaveRoom', [ProtocolNext]_protocolVars
  PROVE  NeverAnswered' /\ fromCache' = <<>>
<1>1. VehicleOK /\ ManagerInv /\ toGcs = <<>> /\ sending = <<>> /\ ~sendsHash
  BY HeldNothing, NoHashes DEF ProtocolInv, VehicleOK, NeverAnswered
<1>2. CASE UserRefreshes \/ TimerFires
  <2>1. UNCHANGED <<vehicleVars, toGcs, paramCount, facts, fromCache>>
    BY <1>2 DEF UserRefreshes, RefreshParameter, RefreshAllParameters, TimerFires, cacheVars,
       indexes, InitialRequestTimeout, WaitingParamTimeout
  <2>2. \A m \in Held(toVehicle') : m.kind = "RequestList"
    BY <1>2, <2>1, GroundSends DEF NeverAnswered
  <2>3. ~Loaded(DefaultComponent)'
    BY <2>1 DEF Loaded, NeverAnswered
  <2>4. ~parametersReady'
    <3>1. CASE UserRefreshes
      BY <3>1 DEF UserRefreshes, RefreshParameter, RefreshAllParameters, load, NeverAnswered
    <3>2. CASE TimerFires
      BY <2>3, <3>2 DEF TimerFires, InitialRequestTimeout, WaitingParamTimeout, RequestIndices,
         AwaitDefaultComponent, RetryWrites, RetryReads, NothingToRetry,
         CheckInitialLoadComplete, LoadIsComplete, load, NeverAnswered
    <3> QED
      BY <1>2, <3>1, <3>2
  <2> QED
    BY <2>1, <2>2, <2>4 DEF NeverAnswered, vehicleVars
<1>3. CASE VehicleReceives
  <2>1. PICK m \in Requests : Held(toVehicle) = {m} \cup Held(toVehicle') /\ VehicleTakes(m)
    BY <1>1, <1>3, VehicleHandles
  <2>2. m.kind = "RequestList"
    BY <2>1 DEF NeverAnswered
  <2>3. sending' = sending /\ toGcs' = toGcs
    BY <1>1, <2>1, <2>2 DEF VehicleTakes
  <2> QED
    BY <1>3, <2>1, <2>3 DEF NeverAnswered, VehicleReceives, managerVars, cacheVars, indexes, load
<1>4. CASE VolatileValueChanges \/ UNCHANGED protocolVars
  <2>1. UNCHANGED <<facts, paramCount, parametersReady, toGcs, sending, toVehicle, fromCache>>
    BY <1>4 DEF VolatileValueChanges, MockLink!VolatileValueChanges, vars, managerVars,
       cacheVars, indexes, load, protocolVars, vehicleVars
  <2> QED
    BY <2>1 DEF NeverAnswered, Held
<1> QED
  BY <1>1, <1>2, <1>3, <1>4 DEF ProtocolNext, UserWrites, GroundReceives, GroundLoadsFromCache,
     LoadFromCache, VehicleSends, MockLink!SendNextParameter, LoseToVehicle, LoseToGcs, InTime,
     NeverAnswered
-----------------------------------------------------------------------------
(* A read or a write that waits is answered *)

LEMMA WaitingAreKeys ==
  ASSUME ProtocolInv
  PROVE  \A p \in DOMAIN waitingReadName \cup DOMAIN waitingWriteName :
           p \in DOMAIN facts /\ p \in MockLink!Keys /\ p = <<p[1], p[2]>>
<1>1. /\ DOMAIN waitingReadName \subseteq DOMAIN facts
      /\ DOMAIN waitingWriteName \subseteq DOMAIN facts
      /\ DOMAIN facts \subseteq MockLink!Keys /\ IsMap(vehicleParams, Component, CacheMap)
  BY DEF ProtocolInv, ManagerInv, ParameterTypeOK, FactTypeOK, IsMap, LearnedOK, VehicleOK
<1> QED
  BY <1>1, ValueIsTrue

LEMMA NamesAnsweredByVehicle ==
  ASSUME ProtocolInv, ~NeverSent, NamesAreAnswered, LinksHaveRoom',
         VehicleReceives \/ VehicleSends \/ VolatileValueChanges
  PROVE  NamesAreAnswered'
<1>1. /\ VehicleOK /\ Held(toVehicle') \subseteq Held(toVehicle)
      /\ waitingReadName' = waitingReadName /\ waitingWriteName' = waitingWriteName
      /\ \A p : ValueComes(p) => ValueComes(p)'
  BY VehicleStepAdds, ValuesStillCome DEF ProtocolInv, managerVars, names
<1>2. CASE VehicleReceives
  <2>1. PICK m \in Requests : Held(toVehicle) = {m} \cup Held(toVehicle') /\ VehicleTakes(m)
    BY <1>1, <1>2, VehicleHandles
  <2>2. ASSUME NEW p \in DOMAIN waitingReadName
        PROVE  ValueComes(p)' \/ \E r \in Held(toVehicle') : IsReadOf(r, p)
    <3>1. p = <<p[1], p[2]>>
      BY WaitingAreKeys
    <3>2. CASE IsReadOf(m, p)
      <4>1. m.kind = "ReadName" /\ KeyRead(m) = p
        BY <3>1, <3>2 DEF IsReadOf, KeyRead
      <4>2. Answered(p)
        BY <2>1, <4>1 DEF VehicleTakes
      <4> QED
        BY <4>2, AnswersAdd
    <3> QED
      BY <1>1, <2>1, <3>2 DEF NamesAreAnswered
  <2>3. ASSUME NEW p \in DOMAIN waitingWriteName
        PROVE  ValueComes(p)' \/ \E r \in Held(toVehicle') : IsWriteOf(r, p)
    <3>1. p = <<p[1], p[2]>>
      BY WaitingAreKeys
    <3>2. CASE IsWriteOf(m, p)
      <4>1. m.kind = "Set" /\ <<m.comp, m.param>> = p
        BY <3>1, <3>2 DEF IsWriteOf
      <4>2. Answered(p)
        BY <2>1, <4>1 DEF VehicleTakes
      <4> QED
        BY <4>2, AnswersAdd
    <3> QED
      BY <1>1, <2>1, <3>2 DEF NamesAreAnswered
  <2> QED
    BY <1>1, <2>2, <2>3 DEF NamesAreAnswered
<1>3. CASE VehicleSends \/ VolatileValueChanges
  <2>1. Held(toVehicle') = Held(toVehicle)
    BY <1>3 DEF VehicleSends, VolatileValueChanges, vars, Held
  <2> QED
    BY <1>1, <2>1 DEF NamesAreAnswered
<1> QED
  BY <1>2, <1>3

LEMMA NamesAnsweredOnGround ==
  ASSUME ProtocolInv, InTime, ListIsAnswered, NamesAreAnswered, LinksHaveRoom',
         \/ UserWrites \/ UserRefreshes \/ GroundReceives \/ GroundLoadsFromCache \/ TimerFires
  PROVE  NamesAreAnswered'
<1>1. /\ VehicleOK /\ toVehicle \in Seq(Requests)
      /\ toGcs' = toGcs \/ GroundReceives
      /\ Held(toVehicle) \subseteq Held(toVehicle')
      /\ IsMap(vehicleParams, Component, CacheMap)
  BY GroundLeaves, GroundSends DEF VehicleOK
<1>2. ASSUME NEW taken,
             DOMAIN waitingReadName' \subseteq DOMAIN waitingReadName \ taken,
             DOMAIN waitingWriteName' \subseteq DOMAIN waitingWriteName \ taken,
             \A p \in MockLink!Keys \ taken : ValueComes(p) => ValueComes(p)'
      PROVE  NamesAreAnswered'
  BY <1>1, <1>2, WaitingAreKeys DEF NamesAreAnswered
<1>3. toGcs' = toGcs => \A p : ValueComes(p) => ValueComes(p)'
  BY DEF ValueComes, Held
<1>4. CASE UserWrites
  <2>1. PICK p \in DOMAIN facts, v \in Value : ValueUpdated(p, v)
    BY <1>4 DEF UserWrites
  <2>2. p \in MockLink!Keys
    BY DEF ProtocolInv, ManagerInv, LearnedOK
  <2>3. Write(p, v) \in Requests /\ Send(Write(p, v))
    BY <2>1, <2>2 DEF ValueUpdated, Requests
  <2>4. Held(toVehicle') = Held(toVehicle) \cup {Write(p, v)}
    BY <1>1, <2>3, OneIsHeld
  <2>5. /\ DOMAIN waitingWriteName' = DOMAIN waitingWriteName \cup {p}
        /\ waitingReadName' = waitingReadName /\ toGcs' = toGcs
    BY <1>4, <2>1 DEF ValueUpdated, With, UserWrites
  <2>6. IsWriteOf(Write(p, v), p)
    BY DEF IsWriteOf, Write
  <2> QED
    BY <1>1, <1>3, <2>4, <2>5, <2>6 DEF NamesAreAnswered
<1>5. CASE UserRefreshes /\ \E p \in DOMAIN facts : RefreshParameter(p)
  <2>1. PICK p \in DOMAIN facts : RefreshParameter(p)
    BY <1>5
  <2>2. p \in MockLink!Keys
    BY DEF ProtocolInv, ManagerInv, LearnedOK
  <2>3. ReadName(p) \in Requests /\ Send(ReadName(p))
    BY <2>1, <2>2 DEF RefreshParameter, Requests
  <2>4. Held(toVehicle') = Held(toVehicle) \cup {ReadName(p)}
    BY <1>1, <2>3, OneIsHeld
  <2>5. /\ DOMAIN waitingReadName' = DOMAIN waitingReadName \cup {p}
        /\ waitingWriteName' = waitingWriteName /\ toGcs' = toGcs
    BY <1>5, <2>1 DEF RefreshParameter, With, UserRefreshes
  <2>6. IsReadOf(ReadName(p), p)
    BY DEF IsReadOf, ReadName
  <2> QED
    BY <1>1, <1>3, <2>4, <2>5, <2>6 DEF NamesAreAnswered
<1>6. CASE UserRefreshes /\ RefreshAllParameters(All)
  BY <1>2, <1>3, <1>6 DEF UserRefreshes, RefreshAllParameters, names
<1>7. CASE GroundReceives
  <2>1. CASE \E m \in TrueValues : Held(toGcs) = {m} \cup Held(toGcs') /\ ParameterUpdate(m)
    <3>1. PICK m \in TrueValues : Held(toGcs) = {m} \cup Held(toGcs') /\ ParameterUpdate(m)
      BY <2>1
    <3> DEFINE taken == {<<m.comp, m.name>>}
    <3>2. /\ DOMAIN waitingReadName' \subseteq DOMAIN waitingReadName \ taken
          /\ DOMAIN waitingWriteName' \subseteq DOMAIN waitingWriteName \ taken
      BY <3>1 DEF ParameterUpdate, Update, Without
    <3>3. ASSUME NEW p \in MockLink!Keys \ taken, ValueComes(p)
          PROVE  ValueComes(p)'
      <4>1. p = <<p[1], p[2]>>
        BY <1>1, ValueIsTrue
      <4>2. ~IsValueOf(m, p)
        BY <4>1 DEF IsValueOf
      <4> QED
        BY <3>1, <3>3, <4>2 DEF ValueComes
    <3> QED
      BY <1>2, <3>2, <3>3
  <2>2. CASE \E m \in TrueHashes : Held(toGcs) = {m} \cup Held(toGcs') /\ HashReceived(m)
    <3>1. PICK m \in TrueHashes : Held(toGcs) = {m} \cup Held(toGcs') /\ HashReceived(m)
      BY <2>2
    <3>2. \A p : ~IsValueOf(m, p)
      BY DEF TrueHashes, HashCheck, IsValueOf
    <3>3. \A p : ValueComes(p) => ValueComes(p)'
      BY <3>1, <3>2 DEF ValueComes
    <3>4. waitingReadName' = waitingReadName /\ waitingWriteName' = waitingWriteName
      BY <3>1 DEF HashReceived, names
    <3> QED
      BY <1>2, <3>3, <3>4
  <2>3. \/ \E m \in TrueValues : Held(toGcs) = {m} \cup Held(toGcs') /\ ParameterUpdate(m)
        \/ \E m \in TrueHashes : Held(toGcs) = {m} \cup Held(toGcs') /\ HashReceived(m)
    BY <1>1, <1>7, GroundTakes
  <2> QED
    BY <2>1, <2>2, <2>3
<1>8. CASE GroundLoadsFromCache
  <2>1. /\ DOMAIN waitingReadName' \subseteq DOMAIN waitingReadName
        /\ DOMAIN waitingWriteName' \subseteq DOMAIN waitingWriteName /\ toGcs' = toGcs
    BY <1>8 DEF GroundLoadsFromCache, LoadFromCache, Update, Without
  <2> QED
    BY <1>2, <1>3, <2>1
<1>9. CASE TimerFires
  <2>1. WaitingParamTimeout /\ toGcs' = toGcs
    BY <1>9, OnlyOneTimerFires DEF TimerFires
  <2>2. /\ DOMAIN waitingReadName' \subseteq DOMAIN waitingReadName
        /\ DOMAIN waitingWriteName' \subseteq DOMAIN waitingWriteName
    BY <2>1 DEF WaitingParamTimeout, RequestIndices, AwaitDefaultComponent, RetryWrites,
       RetryReads, NothingToRetry, AfterRetry, names
  <2> QED
    BY <1>2, <1>3, <2>1, <2>2
<1> QED
  BY <1>4, <1>5, <1>6, <1>7, <1>8, <1>9 DEF UserRefreshes
-----------------------------------------------------------------------------
(* One component: an index that was asked for again is answered *)

LEMMA IndexOfNameAt ==
  ASSUME IsMap(vehicleParams, Component, CacheMap), NEW p \in VehicleIndices
  PROVE  MockLink!IndexOf(<<p[1], MockLink!NameAt(p[1], p[2])>>) = p[2]
<1>1. p[1] \in DOMAIN vehicleParams /\ p[2] \in 0 .. Cardinality(MockLink!Names(p[1])) - 1
  BY IndicesOfVehicle
<1>2. \E n \in MockLink!Names(p[1]) : MockLink!IndexOf(<<p[1], n>>) = p[2]
  BY <1>1, NamesAreNumbered
<1> QED
  BY <1>2 DEF MockLink!NameAt

LEMMA BatchFilled ==
  ASSUME MaxLoadRetry >= 1, NEW waiting, NEW queue, failedReadIndex = {},
         \A p \in DOMAIN waiting : waiting[p] /= 0 => p[2] \in queue,
         FillIndexBatchQueue(waiting, queue)
  PROVE  /\ failedReadIndex' = {} /\ DOMAIN waitingReadIndex' = DOMAIN waiting
         /\ indexBatchQueue' = queue \cup {p[2] : p \in Asked(waiting, queue)}
         /\ Asked(waiting, queue) \subseteq DOMAIN waiting
         /\ \A p \in DOMAIN waitingReadIndex' :
              waitingReadIndex'[p] /= 0 => p[2] \in indexBatchQueue'
<1>1. ASSUME NEW p \in GivenUp(waiting, queue)
      PROVE  FALSE
  <2>1. waiting[p] >= MaxLoadRetry /\ waiting[p] = 0
    BY <1>1 DEF GivenUp
  <2> QED
    BY <2>1, RetryAssumption
<1>2. GivenUp(waiting, queue) = {}
  BY <1>1
<1>3. /\ waitingReadIndex' = Retried(waiting, Asked(waiting, queue), {})
      /\ indexBatchQueue' = queue \cup {p[2] : p \in Asked(waiting, queue)}
      /\ failedReadIndex' = {}
  BY <1>2 DEF FillIndexBatchQueue
<1>4. /\ DOMAIN waitingReadIndex' = DOMAIN waiting
      /\ \A p \in DOMAIN waiting :
           waitingReadIndex'[p] = waiting[p] \/ p \in Asked(waiting, queue)
  BY <1>3 DEF Retried
<1>5. Asked(waiting, queue) \subseteq DOMAIN waiting
  BY DEF Asked, Fillable
<1> QED
  BY <1>3, <1>4, <1>5

\* What the queue and the waiting indices are to each other after a value
LEMMA QueueAfterValue ==
  ASSUME VehicleOK, LearnedOK, IndexTypeOK, DefaultAlone, BatchIsAnswered, NEW m \in TrueValues
  PROVE  /\ \A p \in DOMAIN StillAwaited(m) : StillAwaited(m)[p] /= 0 => p[2] \in StillQueued(m)
         /\ StillQueued(m) \subseteq indexBatchQueue
         /\ \A i \in StillQueued(m) :
              <<DefaultComponent, i>> \in DOMAIN StillAwaited(m) /\ i /= m.index
         /\ \A p \in DOMAIN StillAwaited(m) : p = <<DefaultComponent, p[2]>>
<1> DEFINE own == Indices(m.comp, m.count)
           waiting == Expected(m.comp, m.count)
           rest == StillAwaited(m)
<1>1. m.comp = DefaultComponent /\ DOMAIN waitingReadIndex \subseteq VehicleIndices
  BY DEF TrueValues, DefaultAlone, LearnedOK
<1>2. own \subseteq VehicleIndices
  BY IndicesOfVehicle DEF TrueValues, VehicleOK
<1>3. /\ DOMAIN rest = DOMAIN waiting \ {<<m.comp, m.index>>}
      /\ \A p \in DOMAIN rest : rest[p] = waiting[p]
      /\ DOMAIN waitingReadIndex \subseteq DOMAIN waiting
      /\ DOMAIN waiting \subseteq DOMAIN waitingReadIndex \cup own
  BY DEF StillAwaited, Without, Expected
<1>4. \A p \in DOMAIN rest : p = <<DefaultComponent, p[2]>>
  <2>1. DOMAIN rest \subseteq VehicleIndices
    BY <1>1, <1>2, <1>3
  <2> HIDE DEF rest
  <2> QED
    BY <2>1, IndicesOfVehicle DEF DefaultAlone, VehicleOK
<1>5. ASSUME NEW p \in DOMAIN rest, rest[p] /= 0
      PROVE  p[2] \in StillQueued(m)
  <2>1. p = <<DefaultComponent, p[2]>> /\ p \in DOMAIN waiting /\ waiting[p] /= 0
    BY <1>3, <1>4, <1>5
  <2>2. Seen(m.comp)
    <3>1. ~Seen(m.comp) => waiting[p] = 0
      <4>1. p[1] = m.comp
        BY <1>1, <2>1
      <4> QED
        BY <2>1, <4>1 DEF Expected
    <3> QED
      BY <2>1, <3>1
  <2>3. p \in DOMAIN waitingReadIndex /\ waitingReadIndex[p] /= 0
    BY <2>1, <2>2 DEF Expected
  <2>4. p[2] \in indexBatchQueue
    BY <2>3 DEF BatchIsAnswered
  <2>5. p[2] /= m.index
    BY <1>1, <1>3, <2>1
  <2> QED
    BY <2>4, <2>5 DEF StillQueued
<1>6. ASSUME NEW i \in StillQueued(m)
      PROVE  /\ i \in indexBatchQueue /\ i /= m.index
             /\ <<DefaultComponent, i>> \in DOMAIN rest
  <2>1. i \in indexBatchQueue
    BY DEF StillQueued
  <2>2. <<DefaultComponent, i>> \in DOMAIN waiting
    BY <1>3, <2>1 DEF BatchIsAnswered
  <2>3. i /= m.index
    BY <1>1, <2>2 DEF StillQueued, Awaits
  <2>4. <<DefaultComponent, i>> /= <<m.comp, m.index>>
    BY <2>3
  <2> QED
    BY <1>3, <2>1, <2>2, <2>3, <2>4
<1> QED
  BY <1>4, <1>5, <1>6

LEMMA BatchAfterUpdate ==
  ASSUME MaxLoadRetry >= 1, VehicleOK, LearnedOK, IndexTypeOK, DefaultAlone, BatchIsAnswered,
         failedReadIndex = {}, LinksHaveRoom',
         NEW m \in TrueValues, NEW after \in Seq(Requests), Update(m, after),
         \A r \in Held(toGcs) : r \in Held(toGcs') \/ r = m \/ r \notin TrueValues
  PROVE  BatchIsAnswered' /\ failedReadIndex' = {}
<1> DEFINE rest == StillAwaited(m)
           queue == StillQueued(m)
           answered(i) == \/ \E r \in Held(toVehicle') : IsIndexRead(r, i)
                          \/ \E r \in Held(toGcs') : IsIndexValue(r, i)
<1>1. /\ \A p \in DOMAIN rest : rest[p] /= 0 => p[2] \in queue
      /\ queue \subseteq indexBatchQueue
      /\ \A i \in queue : <<DefaultComponent, i>> \in DOMAIN rest /\ i /= m.index
      /\ \A p \in DOMAIN rest : p = <<DefaultComponent, p[2]>>
  BY QueueAfterValue
<1>2. Held(toGcs) \subseteq Answers
  BY HeldNothing DEF VehicleOK, Answers
<1>3. \/ /\ FillIndexBatchQueue(rest, queue)
         /\ Held(toVehicle') = Held(toVehicle) \cup Held(after)
                                 \cup {ReadIndex(p) : p \in Asked(rest, queue)}
      \/ /\ waitingReadIndex' = rest /\ indexBatchQueue' = queue
         /\ UNCHANGED failedReadIndex
         /\ Held(toVehicle') = Held(toVehicle) \cup Held(after)
  BY UpdateIsHeld
<1> HIDE DEF rest, queue
<1>4. ASSUME NEW i \in queue
      PROVE  answered(i)
  <2>1. CASE \E r \in Held(toVehicle) : IsIndexRead(r, i)
    BY <1>3, <2>1
  <2>2. CASE \E r \in Held(toGcs) : IsIndexValue(r, i)
    <3>1. PICK r \in Held(toGcs) : IsIndexValue(r, i)
      BY <2>2
    <3>2. r /= m
      BY <1>1, <1>4, <3>1 DEF IsIndexValue
    <3>3. r \in TrueValues
      BY <1>2, <3>1 DEF IsIndexValue, Answers, TrueHashes, HashCheck
    <3> QED
      BY <3>1, <3>2, <3>3
  <2> QED
    BY <1>1, <1>4, <2>1, <2>2 DEF BatchIsAnswered
<1>5. CASE /\ FillIndexBatchQueue(rest, queue)
           /\ Held(toVehicle') = Held(toVehicle) \cup Held(after)
                                   \cup {ReadIndex(p) : p \in Asked(rest, queue)}
  <2>1. /\ failedReadIndex' = {} /\ DOMAIN waitingReadIndex' = DOMAIN rest
        /\ indexBatchQueue' = queue \cup {p[2] : p \in Asked(rest, queue)}
        /\ Asked(rest, queue) \subseteq DOMAIN rest
        /\ \A p \in DOMAIN waitingReadIndex' :
             waitingReadIndex'[p] /= 0 => p[2] \in indexBatchQueue'
    BY <1>1, <1>5, BatchFilled
  <2>2. ASSUME NEW p \in Asked(rest, queue)
        PROVE  <<DefaultComponent, p[2]>> \in DOMAIN waitingReadIndex' /\ answered(p[2])
    <3>1. p = <<DefaultComponent, p[2]>> /\ p \in DOMAIN waitingReadIndex'
      BY <1>1, <2>1
    <3>2. ReadIndex(p) \in Held(toVehicle')
      BY <1>5
    <3>3. IsIndexRead(ReadIndex(p), p[2])
      BY <3>1 DEF IsIndexRead, ReadIndex
    <3> QED
      BY <3>1, <3>2, <3>3
  <2>3. \A i \in indexBatchQueue' :
          <<DefaultComponent, i>> \in DOMAIN waitingReadIndex' /\ answered(i)
    BY <1>1, <1>4, <2>1, <2>2
  <2> QED
    BY <2>1, <2>3 DEF BatchIsAnswered
<1>6. CASE waitingReadIndex' = rest /\ indexBatchQueue' = queue /\ UNCHANGED failedReadIndex
  <2>1. \A i \in indexBatchQueue' :
          <<DefaultComponent, i>> \in DOMAIN waitingReadIndex' /\ answered(i)
    BY <1>1, <1>4, <1>6
  <2> QED
    BY <1>1, <1>6, <2>1 DEF BatchIsAnswered
<1> QED
  BY <1>3, <1>5, <1>6

LEMMA BatchOnGround ==
  ASSUME MaxLoadRetry >= 1, ProtocolInv, InTime, DefaultAlone, ListIsAnswered, BatchIsAnswered,
         failedReadIndex = {}, LinksHaveRoom',
         \/ UserWrites \/ UserRefreshes \/ GroundReceives \/ GroundLoadsFromCache \/ TimerFires
  PROVE  BatchIsAnswered' /\ failedReadIndex' = {}
<1>1. /\ VehicleOK /\ LearnedOK /\ IndexTypeOK /\ toVehicle \in Seq(Requests)
      /\ IsMap(vehicleParams, Component, CacheMap)
      /\ toGcs' = toGcs \/ GroundReceives
      /\ Held(toVehicle) \subseteq Held(toVehicle')
  BY GroundLeaves, GroundSends DEF ManagerInv, ParameterTypeOK, VehicleOK
<1>2. ASSUME indexBatchQueue' = indexBatchQueue, failedReadIndex' = failedReadIndex,
             DOMAIN waitingReadIndex \subseteq DOMAIN waitingReadIndex',
             \A p \in DOMAIN waitingReadIndex' :
               waitingReadIndex'[p] = 0
                 \/ (p \in DOMAIN waitingReadIndex /\ waitingReadIndex'[p] = waitingReadIndex[p]),
             \A i : (\E r \in Held(toGcs) : IsIndexValue(r, i))
                      => \E r \in Held(toGcs') : IsIndexValue(r, i)
      PROVE  BatchIsAnswered' /\ failedReadIndex' = {}
  <2>1. ASSUME NEW i \in indexBatchQueue'
        PROVE  /\ <<DefaultComponent, i>> \in DOMAIN waitingReadIndex'
               /\ \/ \E r \in Held(toVehicle') : IsIndexRead(r, i)
                  \/ \E r \in Held(toGcs') : IsIndexValue(r, i)
    BY <1>1, <1>2 DEF BatchIsAnswered
  <2>2. \A p \in DOMAIN waitingReadIndex' : waitingReadIndex'[p] /= 0 => p[2] \in indexBatchQueue'
    BY <1>2 DEF BatchIsAnswered
  <2> QED
    BY <1>2, <2>1, <2>2 DEF BatchIsAnswered
<1>3. ASSUME UNCHANGED indexes, toGcs' = toGcs
      PROVE  BatchIsAnswered' /\ failedReadIndex' = {}
  BY <1>2, <1>3 DEF indexes, Held
<1>4. CASE UserWrites
  BY <1>3, <1>4 DEF UserWrites, ValueUpdated
<1>5. CASE UserRefreshes
  <2>1. CASE \E p \in DOMAIN facts : RefreshParameter(p)
    BY <1>3, <1>5, <2>1 DEF UserRefreshes, RefreshParameter
  <2>2. CASE RefreshAllParameters(All)
    <3>1. /\ indexBatchQueue' = indexBatchQueue /\ failedReadIndex' = failedReadIndex
          /\ DOMAIN waitingReadIndex \subseteq DOMAIN waitingReadIndex' /\ toGcs' = toGcs
          /\ \A p \in DOMAIN waitingReadIndex' :
               waitingReadIndex'[p] = 0
                 \/ (p \in DOMAIN waitingReadIndex /\ waitingReadIndex'[p] = waitingReadIndex[p])
      BY <1>5, <2>2 DEF UserRefreshes, RefreshAllParameters, RequestAll
    <3>2. \A i : (\E r \in Held(toGcs) : IsIndexValue(r, i))
                   => \E r \in Held(toGcs') : IsIndexValue(r, i)
      BY <3>1 DEF Held
    <3> QED
      BY <1>2, <3>1, <3>2
  <2> QED
    BY <1>5, <2>1, <2>2 DEF UserRefreshes
<1>6. CASE GroundReceives
  <2>1. CASE \E m \in TrueValues : Held(toGcs) = {m} \cup Held(toGcs') /\ ParameterUpdate(m)
    <3>1. PICK m \in TrueValues : Held(toGcs) = {m} \cup Held(toGcs') /\ ParameterUpdate(m)
      BY <2>1
    <3>2. <<>> \in Seq(Requests)
      OBVIOUS
    <3>3. NoRequests \in Seq(Requests) /\ Update(m, NoRequests)
      BY <3>1, <3>2 DEF NoRequests, ParameterUpdate
    <3>4. \A r \in Held(toGcs) : r \in Held(toGcs') \/ r = m \/ r \notin TrueValues
      BY <3>1
    <3> QED
      BY <1>1, <3>3, <3>4, BatchAfterUpdate
  <2>2. CASE \E m \in TrueHashes : Held(toGcs) = {m} \cup Held(toGcs') /\ HashReceived(m)
    <3>1. PICK m \in TrueHashes : Held(toGcs) = {m} \cup Held(toGcs') /\ HashReceived(m)
      BY <2>2
    <3>2. \A i : ~IsIndexValue(m, i)
      BY DEF TrueHashes, HashCheck, IsIndexValue
    <3>3. \A i : (\E r \in Held(toGcs) : IsIndexValue(r, i))
                   => \E r \in Held(toGcs') : IsIndexValue(r, i)
      BY <3>1, <3>2
    <3>4. UNCHANGED indexes
      BY <3>1 DEF HashReceived
    <3> QED
      BY <1>2, <3>3, <3>4 DEF indexes
  <2>3. \/ \E m \in TrueValues : Held(toGcs) = {m} \cup Held(toGcs') /\ ParameterUpdate(m)
        \/ \E m \in TrueHashes : Held(toGcs) = {m} \cup Held(toGcs') /\ HashReceived(m)
    BY <1>1, <1>6, GroundTakes
  <2> QED
    BY <2>1, <2>2, <2>3
<1>7. CASE GroundLoadsFromCache
  <2>1. PICK m, after : /\ m = Head(fromCache)
                        /\ after = IF Len(fromCache) = 1 THEN <<ReturnHash(m.comp)>> ELSE NoRequests
    OBVIOUS
  <2>2. /\ fromCache \in Seq(TrueValues) /\ fromCache /= <<>> /\ Update(m, after)
        /\ toGcs' = toGcs
    BY <1>7, <2>1 DEF GroundLoadsFromCache, LoadFromCache, ProtocolInv, ManagerInv, CacheKnows
  <2>3. m \in TrueValues
    BY <2>1, <2>2
  <2>4. after \in Seq(Requests)
    <3>1. m.comp \in Component
      BY <2>3 DEF TrueValues, ParamValue
    <3>2. ReturnHash(m.comp) \in Requests
      BY <3>1 DEF Requests
    <3> QED
      BY <2>1, <3>2 DEF NoRequests
  <2>5. \A r \in Held(toGcs) : r \in Held(toGcs') \/ r = m \/ r \notin TrueValues
    BY <2>2 DEF Held
  <2> QED
    BY <1>1, <2>2, <2>3, <2>4, <2>5, BatchAfterUpdate
<1>8. CASE TimerFires
  <2> DEFINE asked == Asked(waitingReadIndex, {})
  <2>1. WaitingParamTimeout /\ FillIndexBatchQueue(waitingReadIndex, {})
    BY <1>8, OnlyOneTimerFires DEF WaitingParamTimeout
  <2>2. indexBatchQueue = {}
    BY <1>1, <1>8, NothingIsHeld DEF BatchIsAnswered
  <2>3. \A p \in DOMAIN waitingReadIndex : waitingReadIndex[p] /= 0 => p[2] \in {}
    BY <2>2 DEF BatchIsAnswered
  <2>4. /\ failedReadIndex' = {} /\ DOMAIN waitingReadIndex' = DOMAIN waitingReadIndex
        /\ indexBatchQueue' = {p[2] : p \in asked} /\ asked \subseteq DOMAIN waitingReadIndex
        /\ \A p \in DOMAIN waitingReadIndex' :
             waitingReadIndex'[p] /= 0 => p[2] \in indexBatchQueue'
    BY <2>1, <2>3, BatchFilled
  <2>5. ASSUME NEW p \in asked
        PROVE  ReadIndex(p) \in Held(toVehicle')
    <3>1. SendAll(IndexRequests(waitingReadIndex, {}))
      BY <2>1, <2>5 DEF WaitingParamTimeout, RequestIndices
    <3>2. PICK ms : ms = IndexRequests(waitingReadIndex, {})
      OBVIOUS
    <3>3. ms \in Seq(Requests) /\ Held(ms) = {ReadIndex(q) : q \in asked}
      BY <1>1, <3>2, IndicesAreHeld DEF LearnedOK
    <3>4. toVehicle' = toVehicle \o ms
      BY <1>1, <3>1, <3>2, <3>3, AllIsSent
    <3>5. Held(toVehicle \o ms) = Held(toVehicle) \cup Held(ms)
      BY <1>1, <3>3, HeldTogether
    <3> QED
      BY <3>3, <3>4, <3>5
  <2> HIDE DEF asked
  <2>6. ASSUME NEW p \in asked
        PROVE  /\ <<DefaultComponent, p[2]>> \in DOMAIN waitingReadIndex'
               /\ \E r \in Held(toVehicle') : IsIndexRead(r, p[2])
    <3>1. p = <<p[1], p[2]>> /\ p[1] = DefaultComponent
      BY <1>1, <2>4, IndicesOfVehicle DEF LearnedOK, DefaultAlone
    <3>2. IsIndexRead(ReadIndex(p), p[2])
      BY <3>1 DEF IsIndexRead, ReadIndex
    <3> QED
      BY <2>4, <2>5, <3>1, <3>2
  <2> QED
    BY <2>4, <2>6 DEF BatchIsAnswered
<1> QED
  BY <1>4, <1>5, <1>6, <1>7, <1>8

LEMMA BatchFromVehicle ==
  ASSUME ProtocolInv, DefaultAlone, ~NeverSent, BatchIsAnswered, LinksHaveRoom',
         VehicleReceives \/ VehicleSends \/ VolatileValueChanges
  PROVE  BatchIsAnswered'
<1>1. /\ VehicleOK /\ LearnedOK /\ IsMap(vehicleParams, Component, CacheMap)
      /\ waitingReadIndex' = waitingReadIndex /\ indexBatchQueue' = indexBatchQueue
      /\ Held(toGcs) \subseteq Held(toGcs')
  BY VehicleStepAdds DEF ProtocolInv, ManagerInv, VehicleOK, managerVars, indexes
<1>2. ASSUME NEW i \in indexBatchQueue
      PROVE  \/ \E r \in Held(toVehicle') : IsIndexRead(r, i)
             \/ \E r \in Held(toGcs') : IsIndexValue(r, i)
  <2>1. CASE VehicleReceives
    <3>1. PICK m \in Requests : Held(toVehicle) = {m} \cup Held(toVehicle') /\ VehicleTakes(m)
      BY <1>1, <2>1, VehicleHandles
    <3>2. CASE IsIndexRead(m, i)
      <4> DEFINE k == KeyRead(m)
      <4>1. <<DefaultComponent, i>> \in VehicleIndices
        BY <1>1 DEF BatchIsAnswered, LearnedOK
      <4>2. m.kind = "ReadIndex" /\ k = <<DefaultComponent, MockLink!NameAt(DefaultComponent, i)>>
        BY <3>2 DEF IsIndexRead, KeyRead
      <4>3. MockLink!IndexOf(k) = i
        BY <1>1, <4>1, <4>2, IndexOfNameAt
      <4>4. Answered(k)
        BY <3>1, <4>2 DEF VehicleTakes
      <4> HIDE DEF k
      <4>5. PICK a \in TrueValues : <<a.comp, a.name>> = k /\ Held(toGcs') = Held(toGcs) \cup {a}
        BY <4>4 DEF Answered
      <4>6. a.index = i /\ a.comp = DefaultComponent /\ "hash" \notin DOMAIN a
        BY <4>2, <4>3, <4>5 DEF TrueValues, ParamValue
      <4> QED
        BY <4>5, <4>6 DEF IsIndexValue
    <3> QED
      BY <1>1, <3>1, <3>2 DEF BatchIsAnswered
  <2>2. CASE VehicleSends \/ VolatileValueChanges
    <3>1. Held(toVehicle') = Held(toVehicle)
      BY <2>2 DEF VehicleSends, VolatileValueChanges, vars, Held
    <3> QED
      BY <1>1, <3>1 DEF BatchIsAnswered
  <2> QED
    BY <2>1, <2>2
<1> QED
  BY <1>1, <1>2 DEF BatchIsAnswered
-----------------------------------------------------------------------------
(* Several components: what is waited for comes by itself *)

LEMMA SeveralStream ==
  ASSUME VehicleOK, VehicleAsTested, ~DefaultAlone
  PROVE  ~sendsHash /\ TrueHashes = {} /\ Streamed = MockLink!Keys
BY DEF VehicleOK, VehicleAsTested, AsTested, DefaultAlone, TrueHashes, Streamed, MockLink!Skipped

LEMMA IndicesStay ==
  ASSUME ProtocolInv, [ProtocolNext]_protocolVars
  PROVE  /\ MockLink!Keys' = MockLink!Keys
         /\ \A p \in MockLink!Keys : MockLink!IndexOf(p)' = MockLink!IndexOf(p)
<1>1. SameNames /\ IsMap(vehicleParams, Component, CacheMap)
  BY SameVehicle DEF ProtocolInv, VehicleOK
<1>2. ASSUME NEW p \in MockLink!Keys
      PROVE  MockLink!IndexOf(p)' = MockLink!IndexOf(p)
  <2>1. p = <<p[1], p[2]>> /\ p[1] \in DOMAIN vehicleParams
    BY <1>1, ValueIsTrue
  <2>2. DOMAIN (vehicleParams'[p[1]]) = DOMAIN vehicleParams[p[1]]
    BY <1>1, <2>1 DEF SameNames
  <2> QED
    BY <2>2 DEF MockLink!IndexOf, MockLink!Names
<1> QED
  BY <1>1, <1>2, NamesStay

\* When nothing is under way nothing is waited for: the load is complete.
LEMMA NoTimerFires ==
  ASSUME ProtocolInv, VehicleAsTested, ~DefaultAlone, InTime, ListIsAnswered, StreamIsEnough,
         TimerFires
  PROVE  FALSE
<1>1. /\ VehicleOK /\ LearnedOK /\ IsMap(vehicleParams, Component, CacheMap)
      /\ Held(toVehicle) = {} /\ Held(toGcs) = {} /\ Held(sending) = {}
  BY NothingIsHeld DEF ProtocolInv, ManagerInv, VehicleOK
<1>2. \A p : ~Coming(p)
  BY <1>1 DEF Coming, ListComes, ValueComes
<1>3. Loaded(DefaultComponent)
  BY <1>2 DEF ListIsAnswered
<1>4. ASSUME NEW w \in DOMAIN waitingReadIndex
      PROVE  FALSE
  <2>1. /\ w = <<w[1], w[2]>> /\ w[1] \in DOMAIN vehicleParams
        /\ w[2] \in 0 .. Cardinality(MockLink!Names(w[1])) - 1
    BY <1>1, IndicesOfVehicle DEF LearnedOK
  <2>2. PICK n \in MockLink!Names(w[1]) : MockLink!IndexOf(<<w[1], n>>) = w[2]
    BY <1>1, <2>1, NamesAreNumbered
  <2>3. PICK p : p = <<w[1], n>>
    OBVIOUS
  <2>4. p \in MockLink!Keys
    BY <2>1, <2>2, <2>3 DEF MockLink!Keys
  <2>5. p[1] = w[1] /\ MockLink!IndexOf(p) = w[2]
    BY <2>2, <2>3
  <2>6. NotAwaited(p)
    BY <1>2, <2>4 DEF StreamIsEnough
  <2> QED
    BY <2>1, <2>5, <2>6 DEF NotAwaited
<1> QED
  BY <1>3, <1>4 DEF StreamIsEnough

LEMMA StreamFromVehicle ==
  ASSUME ProtocolInv, VehicleAsTested, ~DefaultAlone, ~NoAnswer, HashFollowsValues,
         StreamIsEnough, LinksHaveRoom',
         VehicleReceives \/ VehicleSends \/ VolatileValueChanges
  PROVE  StreamIsEnough'
<1>1. /\ VehicleOK /\ ~sendsHash /\ Streamed = MockLink!Keys /\ UNCHANGED managerVars
      /\ [ProtocolNext]_protocolVars
  BY VehicleStepAdds, SeveralStream DEF ProtocolInv, ProtocolNext
<1>2. /\ MockLink!Keys' = MockLink!Keys
      /\ \A p \in MockLink!Keys : MockLink!IndexOf(p)' = MockLink!IndexOf(p)
  BY <1>1, IndicesStay
<1>3. ASSUME NEW p \in MockLink!Keys
      PROVE  Coming(p)' \/ NotAwaited(p)'
  <2>1. Coming(p) => Coming(p)'
    BY <1>1, StillComing
  <2>2. NotAwaited(p) => NotAwaited(p)'
    BY <1>1, <1>2 DEF NotAwaited, managerVars, indexes
  <2> QED
    BY <2>1, <2>2 DEF StreamIsEnough
<1>4. UNCHANGED <<indexBatchQueueActive, waitingReadIndex, facts>>
  BY <1>1 DEF managerVars, indexes
<1> QED
  BY <1>2, <1>3, <1>4 DEF StreamIsEnough, Loaded

LEMMA StreamOnGround ==
  ASSUME ProtocolInv, VehicleAsTested, ~DefaultAlone, InTime, ListIsAnswered,
         HashFollowsValues, StreamIsEnough, LinksHaveRoom',
         \/ UserWrites \/ UserRefreshes \/ GroundReceives \/ GroundLoadsFromCache \/ TimerFires
  PROVE  (~parametersReady' => StreamIsEnough') /\ failedReadIndex' = failedReadIndex
<1>1. /\ VehicleOK /\ LearnedOK /\ IsMap(vehicleParams, Component, CacheMap)
      /\ sending' = sending
      /\ toGcs' = toGcs \/ GroundReceives
      /\ Held(toVehicle) \subseteq Held(toVehicle')
      /\ ~sendsHash /\ TrueHashes = {} /\ fromCache = <<>>
  BY GroundLeaves, GroundSends, SeveralStream
     DEF ManagerInv, VehicleOK, vehicleVars, HashFollowsValues
<1>2. /\ MockLink!Keys' = MockLink!Keys
      /\ \A p \in MockLink!Keys : MockLink!IndexOf(p)' = MockLink!IndexOf(p)
  BY GroundLeaves, IndicesStay
<1>3. ~TimerFires
  BY NoTimerFires
<1>4. ASSUME toGcs' = toGcs, NEW p, Coming(p)
      PROVE  Coming(p)'
  BY <1>1, <1>4 DEF Coming, ListComes, ValueComes, Held
<1>5. ASSUME NEW p \in MockLink!Keys, NotAwaited(p), UNCHANGED indexes
      PROVE  NotAwaited(p)'
  BY <1>2, <1>5 DEF NotAwaited, indexes
<1>6. ASSUME UNCHANGED indexes, toGcs' = toGcs, indexBatchQueueActive' = indexBatchQueueActive,
             DOMAIN facts' = DOMAIN facts
      PROVE  StreamIsEnough' /\ failedReadIndex' = failedReadIndex
  <2>1. \A p \in MockLink!Keys : Coming(p)' \/ NotAwaited(p)'
    BY <1>4, <1>5, <1>6 DEF StreamIsEnough
  <2> QED
    BY <1>2, <1>6, <2>1 DEF StreamIsEnough, indexes, Loaded
<1>7. CASE UserWrites
  <2>1. /\ UNCHANGED indexes /\ toGcs' = toGcs /\ DOMAIN facts' = DOMAIN facts
        /\ indexBatchQueueActive' = indexBatchQueueActive
    BY <1>7 DEF UserWrites, ValueUpdated
  <2> QED
    BY <1>6, <2>1
<1>8. CASE UserRefreshes /\ \E p \in DOMAIN facts : RefreshParameter(p)
  <2>1. /\ UNCHANGED indexes /\ toGcs' = toGcs /\ DOMAIN facts' = DOMAIN facts
        /\ indexBatchQueueActive' = indexBatchQueueActive
    BY <1>8 DEF UserRefreshes, RefreshParameter
  <2> QED
    BY <1>6, <2>1
<1>9. CASE UserRefreshes /\ RefreshAllParameters(All)
  <2>1. ListComes'
    BY <1>9, AllAreAsked
  <2>2. /\ indexBatchQueueActive' = indexBatchQueueActive
        /\ facts' = facts
        /\ DOMAIN waitingReadIndex \subseteq DOMAIN waitingReadIndex'
        /\ failedReadIndex' = failedReadIndex
    BY <1>9 DEF RefreshAllParameters, RequestAll
  <2>3. \A p : Coming(p)'
    BY <2>1 DEF Coming
  <2> QED
    BY <2>2, <2>3 DEF StreamIsEnough, Loaded
<1>10. CASE GroundReceives
  <2>1. PICK m \in TrueValues : Held(toGcs) = {m} \cup Held(toGcs') /\ ParameterUpdate(m)
    BY <1>1, <1>10, GroundTakes
  <2>2. Update(m, NoRequests)
    BY <2>1 DEF ParameterUpdate
  <2>3. /\ waitingReadIndex' = StillAwaited(m) /\ failedReadIndex' = failedReadIndex
        /\ indexBatchQueueActive' = indexBatchQueueActive
        /\ paramCount' = IF Seen(m.comp) THEN paramCount ELSE With(paramCount, m.comp, m.count)
        /\ CheckInitialLoadComplete({})
    BY <2>2 DEF Update, StillAwaited, StreamIsEnough
  <2>4. StillAwaited(m) /= None => DOMAIN StillAwaited(m) /= {}
    BY DEF StillAwaited, Without, None
  <2>5. ~parametersReady' => DOMAIN waitingReadIndex' /= {} \/ ~Loaded(DefaultComponent)'
    BY <2>3, <2>4 DEF CheckInitialLoadComplete, LoadIsComplete, load
  <2>6. /\ DOMAIN paramCount \subseteq DOMAIN paramCount' /\ m.comp \in DOMAIN paramCount'
        /\ <<m.comp, m.index>> \notin DOMAIN waitingReadIndex'
        /\ DOMAIN waitingReadIndex' \subseteq
             DOMAIN waitingReadIndex \cup (IF Seen(m.comp) THEN {} ELSE Indices(m.comp, m.count))
    BY <2>3 DEF StillAwaited, Expected, Without, With, Seen
  <2>7. ASSUME NEW p \in MockLink!Keys
        PROVE  Coming(p)' \/ NotAwaited(p)'
    <3>1. p = <<p[1], p[2]>>
      BY <1>1, ValueIsTrue
    <3>2. CASE NotAwaited(p)
      <4>1. p[1] \in DOMAIN paramCount /\ <<p[1], MockLink!IndexOf(p)>> \notin DOMAIN waitingReadIndex
        BY <3>2 DEF NotAwaited
      <4>2. ~Seen(m.comp) => <<p[1], MockLink!IndexOf(p)>> \notin Indices(m.comp, m.count)
        BY <4>1 DEF Seen, Indices
      <4>3. <<p[1], MockLink!IndexOf(p)>> \notin DOMAIN waitingReadIndex'
        BY <2>6, <4>1, <4>2
      <4> QED
        BY <1>2, <2>6, <4>1, <4>3 DEF NotAwaited
    <3>3. CASE IsValueOf(m, p)
      <4>1. p = <<m.comp, m.name>> /\ p[1] = m.comp
        BY <3>1, <3>3 DEF IsValueOf
      <4>2. MockLink!IndexOf(p) = m.index
        BY <4>1 DEF TrueValues
      <4> QED
        BY <1>2, <2>6, <4>1, <4>2 DEF NotAwaited
    <3>4. CASE Coming(p) /\ ~IsValueOf(m, p)
      BY <1>1, <2>1, <3>4 DEF Coming, ListComes, ValueComes, Held
    <3> QED
      BY <3>2, <3>3, <3>4 DEF StreamIsEnough
  <2> QED
    BY <1>2, <2>3, <2>5, <2>7 DEF StreamIsEnough
<1> QED
  BY <1>1, <1>3, <1>7, <1>8, <1>9, <1>10 DEF UserRefreshes, GroundLoadsFromCache, LoadFromCache
-----------------------------------------------------------------------------
(* The failure modes end as they should *)

\* The user is told of nothing while nothing fails.
LEMMA NothingIsSaid ==
  ASSUME ProtocolInv, InTime, ListIsAnswered, NamesAreAnswered, told = {}, ~missingParameters,
         ~parametersReady => failedReadIndex' = {},
         \/ UserWrites \/ UserRefreshes \/ GroundReceives \/ GroundLoadsFromCache \/ TimerFires
  PROVE  told' = {} /\ ~missingParameters' /\ (parametersReady => parametersReady')
<1>1. ASSUME CheckInitialLoadComplete({})
      PROVE  told' = {} /\ ~missingParameters' /\ (parametersReady => parametersReady')
  BY <1>1 DEF CheckInitialLoadComplete, load
<1>2. ASSUME UNCHANGED load, told' = told
      PROVE  told' = {} /\ ~missingParameters' /\ (parametersReady => parametersReady')
  BY <1>2 DEF load
<1>3. ASSUME NEW m, NEW after, Update(m, after)
      PROVE  told' = {} /\ ~missingParameters' /\ (parametersReady => parametersReady')
  <2>1. CheckInitialLoadComplete({})
    BY <1>3 DEF Update
  <2> QED
    BY <1>1, <2>1
<1>4. CASE UserWrites
  BY <1>2, <1>4 DEF UserWrites, ValueUpdated
<1>5. CASE UserRefreshes
  BY <1>2, <1>5 DEF UserRefreshes, RefreshParameter, RefreshAllParameters
<1>6. CASE GroundReceives
  <2>1. HashReceived(Head(toGcs)) \/ Update(Head(toGcs), NoRequests)
    BY <1>6 DEF GroundReceives, ParameterUpdate
  <2> QED
    BY <1>2, <1>3, <2>1 DEF HashReceived
<1>7. CASE GroundLoadsFromCache
  BY <1>3, <1>7 DEF GroundLoadsFromCache, LoadFromCache
<1>8. CASE TimerFires
  <2>1. VehicleOK /\ WaitingParamTimeout
    BY <1>8, OnlyOneTimerFires DEF ProtocolInv
  <2>2. DOMAIN waitingReadName = {} /\ DOMAIN waitingWriteName = {}
    BY <1>8, <2>1, NothingIsHeld DEF NamesAreAnswered, ValueComes
  <2>3. \A message : /\ Failed(waitingReadName, message) = {}
                     /\ Failed(waitingWriteName, message) = {}
    BY <2>2 DEF Failed, Abandoned, InBatch
  <2>4. AwaitDefaultComponent \/ CheckInitialLoadComplete({})
    BY <2>1, <2>3 DEF WaitingParamTimeout, RequestIndices, RetryWrites, RetryReads,
       NothingToRetry
  <2> QED
    BY <1>1, <1>2, <2>4 DEF AwaitDefaultComponent
<1> QED
  BY <1>4, <1>5, <1>6, <1>7, <1>8

LEMMA NothingMissingOnGround ==
  ASSUME MaxLoadRetry >= 1, ProtocolInv, VehicleAsTested, InTime, ListIsAnswered,
         HashFollowsValues, NothingGoesMissing, LinksHaveRoom',
         \/ UserWrites \/ UserRefreshes \/ GroundReceives \/ GroundLoadsFromCache \/ TimerFires
  PROVE  NothingGoesMissing'
<1>1. DefaultAlone' = DefaultAlone
  BY GroundLeaves, StaysAsTested
<1>2. ASSUME ~parametersReady
      PROVE  /\ failedReadIndex' = {}
             /\ ~parametersReady' => IF DefaultAlone THEN BatchIsAnswered' ELSE StreamIsEnough'
  BY <1>2, BatchOnGround, StreamOnGround DEF NothingGoesMissing
<1>3. told' = {} /\ ~missingParameters' /\ (parametersReady => parametersReady')
  BY <1>2, NothingIsSaid DEF NothingGoesMissing
<1>4. NamesAreAnswered'
  BY NamesAnsweredOnGround DEF NothingGoesMissing
<1> QED
  BY <1>1, <1>2, <1>3, <1>4 DEF NothingGoesMissing

LEMMA NothingMissingFromVehicle ==
  ASSUME ProtocolInv, VehicleAsTested, ~NoAnswer, ~NeverSent, HashFollowsValues,
         NothingGoesMissing, LinksHaveRoom',
         VehicleReceives \/ VehicleSends \/ VolatileValueChanges
  PROVE  NothingGoesMissing'
<1>1. DefaultAlone' = DefaultAlone
  BY StaysAsTested DEF ProtocolNext
<1>2. UNCHANGED <<told, missingParameters, parametersReady, failedReadIndex>>
  BY VehicleStepAdds DEF ProtocolInv, managerVars, load, indexes
<1>3. NamesAreAnswered'
  BY NamesAnsweredByVehicle DEF NothingGoesMissing
<1>4. ~parametersReady => IF DefaultAlone THEN BatchIsAnswered' ELSE StreamIsEnough'
  BY BatchFromVehicle, StreamFromVehicle DEF NothingGoesMissing
<1> QED
  BY <1>1, <1>2, <1>3, <1>4 DEF NothingGoesMissing

LEMMA EndStays ==
  ASSUME EndInv, UNCHANGED protocolVars
  PROVE  EndInv'
BY DEF EndInv, NoAnswer, NeverSent, NeverAnswered, ListIsAnswered, HashFollowsValues, NeverLoaded,
   NothingGoesMissing, NamesAreAnswered, BatchIsAnswered, StreamIsEnough, DefaultAlone, Streamed,
   Coming, ListComes, ValueComes, NotAwaited, Loaded, Held, MockLink!Keys, MockLink!Names,
   MockLink!Skipped, MockLink!IndexOf, protocolVars, vars, managerVars, vehicleVars, timers,
   indexes, names, load, cacheVars

LEMMA EndStep ==
  ASSUME MaxLoadRetry >= 1, ProtocolInv, VehicleAsTested, InTime, EndInv, LinksHaveRoom',
         [ProtocolNext]_protocolVars
  PROVE  EndInv'
<1>1. NoAnswer' = NoAnswer /\ NeverSent' = NeverSent
  BY StaysAsTested
<1>2. CASE NoAnswer
  BY <1>1, <1>2, NeverAnsweredStep DEF EndInv
<1>3. CASE /\ ~NoAnswer
           /\ \/ UserWrites \/ UserRefreshes \/ GroundReceives \/ GroundLoadsFromCache
              \/ TimerFires
  BY <1>1, <1>3, GroundAwaitsList, NeverLoadedOnGround, NothingMissingOnGround DEF EndInv
<1>4. CASE ~NoAnswer /\ (VehicleReceives \/ VehicleSends \/ VolatileValueChanges)
  BY <1>1, <1>4, VehicleAnswersList, NeverLoadedFromVehicle, NothingMissingFromVehicle DEF EndInv
<1>5. CASE UNCHANGED protocolVars
  BY <1>5, EndStays
<1> QED
  BY <1>2, <1>3, <1>4, <1>5 DEF ProtocolNext, LoseToVehicle, LoseToGcs, InTime

LEMMA ProtocolStartsInTime ==
  ASSUME ProtocolInit, VehicleOK, VehicleAsTested, LinksHaveRoom
  PROVE  EndInv
<1>1. LinkCapacity > 0
  <2>1. toVehicle \in Seq(Requests)
    BY DEF VehicleOK
  <2>2. Len(toVehicle) \in Nat
    BY <2>1
  <2> QED
    BY <2>2, InputAssumption DEF LinksHaveRoom
<1>2. /\ toVehicle = SubSeq(<<RequestList(All)>>, 1, 1) /\ toGcs = <<>> /\ sending = <<>>
      /\ fromCache = <<>> /\ DOMAIN facts = {} /\ DOMAIN paramCount = {}
      /\ DOMAIN waitingReadIndex = {} /\ DOMAIN waitingReadName = {}
      /\ DOMAIN waitingWriteName = {} /\ indexBatchQueue = {} /\ ~indexBatchQueueActive
      /\ failedReadIndex = {} /\ told = {} /\ ~parametersReady /\ ~missingParameters
  BY <1>1 DEF ProtocolInit, Init, None
<1>3. toVehicle = <<RequestList(All)>>
  <2>1. PICK m : m = RequestList(All)
    OBVIOUS
  <2> DEFINE s == SubSeq(<<m>>, 1, 1)
  <2>2. /\ <<m>> \in Seq({m}) /\ Len(<<m>>) = 1
        /\ s \in Seq({m}) /\ Len(s) = 1 /\ s[1] = m
    OBVIOUS
  <2> HIDE DEF s
  <2>3. s = <<m>>
    BY <2>2
  <2> QED
    BY <1>2, <2>1, <2>3 DEF s
<1>4. Held(toVehicle) = {RequestList(All)} /\ Held(toGcs) = {} /\ Held(sending) = {}
  BY <1>2, <1>3, HeldOne
<1>5. RequestList(All).kind = "RequestList"
  BY DEF RequestList
<1>6. ListComes /\ \A p : Coming(p)
  BY <1>4, <1>5 DEF ListComes, Coming
<1>7. ListIsAnswered
  BY <1>6, DefaultIsStreamed DEF ListIsAnswered
<1>8. ~Loaded(DefaultComponent)
  BY <1>2 DEF Loaded
<1> QED
  BY <1>2, <1>4, <1>5, <1>6, <1>7, <1>8
     DEF EndInv, NeverAnswered, HashFollowsValues, NeverLoaded, NothingGoesMissing,
         NamesAreAnswered, BatchIsAnswered, StreamIsEnough

InTimeInv == InTime => VehicleAsTested /\ EndInv

\* A load over links that lose nothing, with timers that outlast them, ends as the
\* tests of the failure modes say, whatever the user does meanwhile: what the first
\* answer lacks is asked for until it is there, and the user is told of a parameter
\* that never comes and of a vehicle that does not answer, and of nothing else.
THEOREM FailureModesAreTold ==
  ASSUME CachesKnowVolatile, GenericFirmware = FALSE, MaxLoadRetry >= 1, InTimeIsTested
  PROVE  ProtocolSpec /\ []LinksHaveRoom => []FailureModesEnd
<1>1. GuardedInv => ProtocolInv
  BY DEF CachesKnowVolatile, GuardedInv
<1>2. ProtocolInit /\ GuardedInv /\ LinksHaveRoom => InTimeInv
  <2> SUFFICES ASSUME ProtocolInit, ProtocolInv, LinksHaveRoom, InTime
               PROVE  VehicleAsTested /\ EndInv
    BY <1>1 DEF InTimeInv
  <2>1. VehicleAsTested
    BY DEF InTimeIsTested, InTime, ProtocolInit, VehicleAsTested
  <2> QED
    BY <2>1, ProtocolStartsInTime DEF ProtocolInv
<1>3. GuardedInv /\ InTimeInv /\ LinksHaveRoom' /\ [ProtocolNext]_protocolVars => InTimeInv'
  <2> SUFFICES ASSUME ProtocolInv, InTimeInv, LinksHaveRoom', [ProtocolNext]_protocolVars, InTime
               PROVE  VehicleAsTested' /\ EndInv'
    BY <1>1, StaysAsTested DEF InTimeInv
  <2> QED
    BY StaysAsTested, EndStep DEF InTimeInv
<1>4. GuardedInv /\ InTimeInv /\ LoadHasOutcome => FailureModesEnd
  <2> SUFFICES ASSUME ProtocolInv, InTimeInv, LoadHasOutcome, AtRest, regime.prompt, ~regime.lossy
               PROVE  IF NoAnswer THEN ~parametersReady /\ "NoResponse" \in told
                      ELSE IF NeverSent
                      THEN parametersReady /\ missingParameters /\ "Missing" \in told
                      ELSE parametersReady /\ ~missingParameters /\ told = {}
    BY <1>1 DEF FailureModesEnd, NoAnswer, NeverSent
  <2>1. VehicleOK /\ VehicleAsTested /\ EndInv
    BY DEF InTimeInv, InTime, ProtocolInv
  <2>2. CASE NoAnswer
    <3>1. ~regime.hash /\ DOMAIN vehicleParams = {DefaultComponent} /\ ~parametersReady
      BY <2>1, <2>2, NoHashes DEF VehicleOK, DefaultAlone, EndInv, NeverAnswered
    <3> QED
      BY <2>2, <3>1 DEF LoadHasOutcome
  <2>3. CASE ~NoAnswer
    <3>1. \A p : ~Coming(p)
      BY HeldOne DEF AtRest, NothingUnderWay, Coming, ListComes, ValueComes
    <3>2. Loaded(DefaultComponent)
      BY <2>1, <2>3, <3>1 DEF EndInv, ListIsAnswered
    <3>3. parametersReady
      BY <3>2 DEF ProtocolInv, ManagerInv, PendingIsTimed, AtRest
    <3>4. CASE NeverSent
      <4>1. NeverLoaded
        BY <2>1, <2>3, <3>4 DEF EndInv
      <4>2. FailParam \in DOMAIN vehicleParams[DefaultComponent]
        BY <2>1, <3>4 DEF VehicleAsTested, AsTested, NeverSent
      <4>3. <<DefaultComponent, FailParam>> \notin DOMAIN facts
        <5>1. <<DefaultComponent, FailParam>>[2] = FailParam
          OBVIOUS
        <5> QED
          BY <4>1, <5>1 DEF NeverLoaded
      <4>4. missingParameters
        BY <3>3, <4>2, <4>3 DEF ProtocolInv, ManagerInv, ReadyIsWhole
      <4> QED
        BY <2>3, <3>3, <3>4, <4>1, <4>4 DEF NeverLoaded
    <3>5. CASE ~NeverSent
      BY <2>1, <2>3, <3>3, <3>5 DEF EndInv, NothingGoesMissing
    <3> QED
      BY <3>4, <3>5
  <2> QED
    BY <2>2, <2>3
<1> QED
  BY <1>2, <1>3, <1>4, ProtocolInvariance, LoadsHaveOutcome, PTL DEF ProtocolSpec
=============================================================================
