--------------------------- MODULE ParameterManager ---------------------------
(***************************************************************************)
(* The ground station's copy of a vehicle's parameters:                    *)
(* FactSystem/ParameterManager.cc for a connected vehicle that is not a     *)
(* high latency link or the replay of a log, both of which load nothing.   *)
(*                                                                         *)
(* A handler that runs to completion is one action, with one exception:    *)
(* the load from the local cache, which calls _parameterUpdate once for    *)
(* each cached parameter, is one step for each of those calls, and no other *)
(* step is possible in between.                                            *)
(*                                                                         *)
(* The vehicle may send any value of VehicleInput at any time.             *)
(***************************************************************************)
EXTENDS Integers, Sequences, FiniteSets

CONSTANTS
  Component,           \* component ids
  DefaultComponent,    \* _vehicle->defaultComponentId()
  Name,                \* parameter names, as numbers in their sorted order
  Value,               \* parameter values
  Volatile,            \* the <<component, name>> marked volatile in the metadata
  Px4Firmware,         \* _vehicle->px4Firmware()
  GenericFirmware,     \* _vehicle->genericFirmware()
  MaxRequestRetry,     \* _maxInitialRequestListRetry (4 in the code)
  MaxLoadRetry,        \* _maxInitialLoadRetrySingleParam (5)
  MaxReadWriteRetry,   \* _maxReadWriteRetry (5)
  MaxBatchSize,        \* maxBatchSize (10)
  LinkCapacity,        \* bound: messages the link to the vehicle holds at once
  Caches,              \* bound: the caches that earlier runs left
  VehicleInput         \* bound: the values the vehicle may send

All == 0               \* MAV_COMP_ID_ALL
Unrequested == 65535   \* the index of a value that answers no request by index

ParamKey == Component \X Name
CacheMap == UNION {[S -> Value] : S \in SUBSET Name}

ParamValue == [comp : Component, name : Name, count : Nat, index : Nat, value : Value]
\* _HASH_CHECK; the CRC over names and values is taken to be injective
HashCheck == [comp : Component, hash : CacheMap]

ASSUME ComponentAssumption == /\ Component \subseteq Nat \ {All} /\ IsFiniteSet(Component)
                              /\ DefaultComponent \in Component
ASSUME NameAssumption      == /\ Name \subseteq Nat /\ IsFiniteSet(Name)
                              /\ Volatile \subseteq ParamKey
ASSUME FirmwareAssumption  == Px4Firmware \in BOOLEAN /\ GenericFirmware \in BOOLEAN
ASSUME RetryAssumption     == /\ MaxRequestRetry \in Nat /\ MaxLoadRetry \in Nat
                              /\ MaxReadWriteRetry \in Nat /\ MaxBatchSize \in Nat
ASSUME InputAssumption     == /\ LinkCapacity \in Nat
                              /\ VehicleInput \subseteq ParamValue \cup HashCheck
                              /\ Caches \subseteq UNION {[C -> CacheMap] : C \in SUBSET Component}

VARIABLES
  initialRequestTimer,     \* _initialRequestTimeoutTimer.isActive()
  initialRequestRetries,   \* _initialRequestRetryCount
  waitingParamTimer,       \* _waitingParamTimeoutTimer.isActive()
  waitingForDefault,       \* _waitingForDefaultComponent
  paramCount,              \* _paramCountMap: the components seen so far
  waitingReadIndex,        \* _waitingReadParamIndexMap: retries of <<component, index>>
  waitingReadName,         \* _waitingReadParamNameMap: retries of <<component, name>>
  waitingWriteName,        \* _waitingWriteParamNameMap: the same for writes
  indexBatchQueue,         \* _indexBatchQueue: no index is in it twice
  indexBatchQueueActive,   \* _indexBatchQueueActive
  failedReadIndex,         \* _failedReadParamIndexMap
  readsWaited,             \* _prevWaitingReadParamIndexCount + ...NameCount != 0
  facts,                   \* _mapParameterName2Variant: the values by <<component, name>>
  parametersReady,         \* _parametersReady and _initialLoadComplete
  missingParameters,       \* _missingParameters
  cache,                   \* the cache files, by component; they outlive the program
  fromCache,               \* the values of a load from the cache still to be taken over
  told,                    \* what the user was told of, since the vehicle connected
  toVehicle                \* messages sent to the vehicle and not yet delivered

timers   == <<initialRequestTimer, initialRequestRetries, waitingParamTimer,
              waitingForDefault>>
indexes  == <<paramCount, waitingReadIndex, indexBatchQueue, failedReadIndex>>
names    == <<waitingReadName, waitingWriteName>>
load     == <<parametersReady, missingParameters>>
cacheVars == <<cache, fromCache>>
managerVars == <<timers, indexes, indexBatchQueueActive, names, readsWaited, facts, load,
                 cacheVars, told>>
vars == <<managerVars, toVehicle>>

None == [S \in {} |-> 0]
Without(f, S) == [k \in DOMAIN f \ S |-> f[k]]
With(f, k, v) == [x \in DOMAIN f \cup {k} |-> IF x = k THEN v ELSE f[x]]

\* QMap iterates in the order of its keys
Before(p, q) == p[1] < q[1] \/ (p[1] = q[1] /\ p[2] < q[2])
Ordered(S) == [i \in 1 .. Cardinality(S) |->
                 CHOOSE p \in S : Cardinality({q \in S : Before(q, p)}) = i - 1]

\* A link that is full loses what is sent on it.
SendAll(ms) == toVehicle' = LET sent == toVehicle \o ms
                            IN  SubSeq(sent, 1, IF Len(sent) < LinkCapacity
                                                THEN Len(sent) ELSE LinkCapacity)
Send(m) == SendAll(<<m>>)

RequestList(c) == [kind |-> "RequestList", comp |-> c]
ReadIndex(p)   == [kind |-> "ReadIndex", comp |-> p[1], param |-> p[2]]
ReadName(p)    == [kind |-> "ReadName", comp |-> p[1], param |-> p[2]]
Write(p, v)    == [kind |-> "Set", comp |-> p[1], param |-> p[2], value |-> v]
ReturnHash(c)  == [kind |-> "SetHash", comp |-> c]
-----------------------------------------------------------------------------
(* The batch queue: which indices are asked for again, which are given up   *)

Seen(c) == c \in DOMAIN paramCount
Indices(c, count) == {c} \X (0 .. count - 1)
Loaded(c) == \E p \in DOMAIN facts : p[1] = c

\* The retries of the indices in waiting that a call bumps, in the order of
\* the map, until the queue holds MaxBatchSize + 1.  The queue holds indices
\* without their components: an index of one component keeps the same index of
\* another one out.
Fillable(waiting, queue) ==
  {p \in DOMAIN waiting :
     /\ waiting[p] < MaxLoadRetry
     /\ p[2] \notin queue
     /\ \A q \in DOMAIN waiting :
          Before(q, p) /\ q[2] = p[2] => waiting[q] >= MaxLoadRetry}
HasRoom(p, waiting, queue) ==
  Cardinality(queue) + Cardinality({q \in Fillable(waiting, queue) : Before(q, p)})
    <= MaxBatchSize
Asked(waiting, queue) == {p \in Fillable(waiting, queue) : HasRoom(p, waiting, queue)}
\* MUTANT of GivenUp: no index is given up
NothingGivenUp(waiting, queue) == {}

GivenUp(waiting, queue) ==
  {p \in DOMAIN waiting :
     /\ waiting[p] >= MaxLoadRetry
     /\ p[2] \notin queue
     /\ HasRoom(p, waiting, queue)
     /\ \A q \in Asked(waiting, queue) : Before(q, p) => q[2] /= p[2]}

\* MUTANT of Retried: the retries of an index are not counted
RetriedUncounted(waiting, asked, given) == Without(waiting, given)

Retried(waiting, asked, given) ==
  [p \in DOMAIN waiting \ given |-> IF p \in asked THEN waiting[p] + 1 ELSE waiting[p]]

\* MUTANT of FillIndexBatchQueue: what is given up is not recorded
FillIndexBatchQueueUnrecorded(waiting, queue) ==
  LET asked == Asked(waiting, queue)
  IN  /\ waitingReadIndex' = Retried(waiting, asked, GivenUp(waiting, queue))
      /\ indexBatchQueue' = queue \cup {p[2] : p \in asked}
      /\ UNCHANGED failedReadIndex

\* _fillIndexBatchQueue on these lists; the requests it sends
FillIndexBatchQueue(waiting, queue) ==
  LET asked == Asked(waiting, queue)
      given == GivenUp(waiting, queue)
  IN  /\ waitingReadIndex' = Retried(waiting, asked, given)
      /\ indexBatchQueue' = queue \cup {p[2] : p \in asked}
      /\ failedReadIndex' = failedReadIndex \cup given
IndexRequests(waiting, queue) ==
  LET order == Ordered(Asked(waiting, queue))
  IN  [i \in DOMAIN order |-> ReadIndex(order[i])]
NoRequests == <<>>
-----------------------------------------------------------------------------
(* The end of the initial load *)

\* MUTANT of LoadIsComplete: the default component is not waited for
LoadIsCompleteWithoutDefault == waitingReadIndex' = None

LoadIsComplete == waitingReadIndex' = None /\ Loaded(DefaultComponent)'

\* _checkInitialLoadComplete, after everything else the handler does; also is
\* what the handler tells the user before it
CheckInitialLoadComplete(also) ==
  IF ~parametersReady /\ LoadIsComplete
  THEN /\ parametersReady' = TRUE
       /\ missingParameters' = (failedReadIndex' /= {})
       /\ told' = told \cup also \cup (IF failedReadIndex' /= {} THEN {"Missing"} ELSE {})
  ELSE /\ UNCHANGED load
       /\ told' = told \cup also
-----------------------------------------------------------------------------
(* Values that arrive *)

\* What is waited for when a value of component c arrives
Expected(c, count) ==
  IF Seen(c) THEN waitingReadIndex
  ELSE [p \in DOMAIN waitingReadIndex \cup Indices(c, count) |->
          IF p[1] = c THEN 0 ELSE waitingReadIndex[p]]

\* MUTANT of SomethingWaits: the load is not timed
SomethingNamedWaits == waitingReadName' /= None \/ waitingWriteName' /= None

\* MUTANT of SomethingWaits: writes are not timed
SomethingToReadWaits == waitingReadIndex' /= None \/ waitingReadName' /= None

SomethingWaits ==
  waitingReadIndex' /= None \/ waitingReadName' /= None \/ waitingWriteName' /= None

FactsOf(c) == [n \in {p[2] : p \in {q \in DOMAIN facts' : q[1] = c}} |-> facts'[<<c, n>>]]

\* _writeLocalParamCache, when the last read just finished
UpdateCache(c) ==
  cache' = IF /\ Px4Firmware /\ readsWaited
              /\ waitingReadIndex' = None /\ waitingReadName' = None
           THEN With(cache, c, FactsOf(c)) ELSE cache

\* The part of _parameterUpdate after its early returns; after is sent last.
Update(m, after) ==
  LET p == <<m.comp, m.name>>
      i == <<m.comp, m.index>>
      waiting == Expected(m.comp, m.count)
      rest == Without(waiting, {i})
      queue == IF i \in DOMAIN waiting THEN indexBatchQueue \ {m.index} ELSE indexBatchQueue
  IN  /\ paramCount' = IF Seen(m.comp) THEN paramCount ELSE With(paramCount, m.comp, m.count)
      /\ IF i \in DOMAIN waiting /\ indexBatchQueueActive
         THEN FillIndexBatchQueue(rest, queue) /\ SendAll(IndexRequests(rest, queue) \o after)
         ELSE /\ waitingReadIndex' = rest
              /\ indexBatchQueue' = queue
              /\ UNCHANGED failedReadIndex
              /\ SendAll(after)
      /\ waitingReadName' = Without(waitingReadName, {p})
      /\ waitingWriteName' = Without(waitingWriteName, {p})
      /\ waitingParamTimer' = (SomethingWaits \/ ~Loaded(DefaultComponent))
      /\ facts' = With(facts, p, m.value)
      /\ UpdateCache(m.comp)
      /\ readsWaited' = (waitingReadIndex' /= None \/ waitingReadName' /= None)
      /\ CheckInitialLoadComplete({})
      /\ UNCHANGED <<initialRequestRetries, waitingForDefault, indexBatchQueueActive>>

NoOtherStep == fromCache = <<>>

\* _parameterUpdate of a value; ArduPilot sends some that nothing asked for
ParameterUpdate(m) ==
  /\ NoOtherStep
  /\ ~(m.index = Unrequested /\ initialRequestTimer)
  /\ initialRequestTimer' = FALSE
  /\ Update(m, NoRequests)
  /\ UNCHANGED fromCache

ParameterDisregarded(m) ==
  /\ NoOtherStep
  /\ m.index = Unrequested /\ initialRequestTimer
  /\ UNCHANGED vars

NotVolatile(c, map) == Without(map, {n \in DOMAIN map : <<c, n>> \in Volatile})

\* MUTANT of CacheMatches: volatile parameters are not left out of the hash of
\* the cache, nor is the hash compared
CacheExists(m) == m.comp \in DOMAIN cache

CacheMatches(m) ==
  m.comp \in DOMAIN cache /\ NotVolatile(m.comp, cache[m.comp]) = m.hash

\* The values _tryCacheHashLoad hands to _parameterUpdate
CachedValues(c) ==
  LET order == Ordered({c} \X DOMAIN cache[c])
  IN  [i \in DOMAIN order |->
         [comp |-> c, name |-> order[i][2], count |-> Len(order), index |-> i - 1,
          value |-> cache[c][order[i][2]]]]

\* _parameterUpdate of a _HASH_CHECK, with _tryCacheHashLoad
HashReceived(m) ==
  /\ NoOtherStep
  /\ Px4Firmware
  /\ initialRequestTimer' = FALSE
  /\ fromCache' = IF ~parametersReady /\ CacheMatches(m) THEN CachedValues(m.comp) ELSE <<>>
  /\ UNCHANGED <<initialRequestRetries, waitingParamTimer, waitingForDefault, indexes,
                 indexBatchQueueActive, names, readsWaited, facts, load, cache, told, toVehicle>>

\* One turn of the loop of _tryCacheHashLoad; the last one returns the hash, so
\* that the vehicle sends no more
LoadFromCache ==
  /\ fromCache /= <<>>
  /\ Update(Head(fromCache), IF Len(fromCache) = 1
                              THEN <<ReturnHash(Head(fromCache).comp)>> ELSE NoRequests)
  /\ fromCache' = Tail(fromCache)
  /\ UNCHANGED initialRequestTimer

Receive(m) == IF m \in ParamValue THEN ParameterUpdate(m) \/ ParameterDisregarded(m)
              ELSE HashReceived(m)
-----------------------------------------------------------------------------
(* What callers ask for *)

\* MUTANT of ValueUpdated: a write that waits is not sent again
ValueUpdatedOnce(p, v) ==
  /\ NoOtherStep
  /\ p \in DOMAIN facts
  /\ facts' = [facts EXCEPT ![p] = v]
  /\ waitingWriteName' = With(waitingWriteName, p, 0)
  /\ waitingParamTimer' = TRUE
  /\ SendAll(IF p \in DOMAIN waitingWriteName THEN <<>> ELSE <<Write(p, v)>>)
  /\ UNCHANGED <<initialRequestTimer, initialRequestRetries, waitingForDefault, indexes,
                 indexBatchQueueActive, waitingReadName, readsWaited, load, cacheVars, told>>

\* Fact::setRawValue of a new value, or forceSetRawValue of any, and _valueUpdated
ValueUpdated(p, v) ==
  /\ NoOtherStep
  /\ p \in DOMAIN facts
  /\ facts' = [facts EXCEPT ![p] = v]
  /\ waitingWriteName' = With(waitingWriteName, p, 0)
  /\ waitingParamTimer' = TRUE
  /\ Send(Write(p, v))
  /\ UNCHANGED <<initialRequestTimer, initialRequestRetries, waitingForDefault, indexes,
                 indexBatchQueueActive, waitingReadName, readsWaited, load, cacheVars, told>>

\* Of a parameter that has a Fact. The code takes any name, and a panel asks again for
\* those it misses (FactPanelController::getMissingParameters): such a name is waited for
\* and asked again in the same way. What a vehicle answers to a name it does not have is
\* not in this code (MockLink asserts that it has it), so those requests are left out.
RefreshParameter(p) ==
  /\ NoOtherStep
  /\ p \in DOMAIN facts
  /\ waitingReadName' = With(waitingReadName, p, 0)
  /\ waitingParamTimer' = TRUE
  /\ Send(ReadName(p))
  /\ UNCHANGED <<initialRequestTimer, initialRequestRetries, waitingForDefault, indexes,
                 indexBatchQueueActive, waitingWriteName, readsWaited, facts, load,
                 cacheVars, told>>

\* refreshAllParameters after _initialRequestTimeoutTimer was dealt with
RequestAll(c) ==
  LET again == UNION {Indices(k, paramCount[k]) : k \in {k \in DOMAIN paramCount : c \in {All, k}}}
  IN  /\ waitingReadIndex' = [p \in DOMAIN waitingReadIndex \cup again |->
                                IF p \in again THEN 0 ELSE waitingReadIndex[p]]
      /\ Send(RequestList(c))

RefreshAllParameters(c) ==
  /\ NoOtherStep
  /\ RequestAll(c)
  /\ initialRequestTimer' = (initialRequestTimer \/ ~parametersReady)
  /\ UNCHANGED <<initialRequestRetries, waitingParamTimer, waitingForDefault, paramCount,
                 indexBatchQueue, failedReadIndex, indexBatchQueueActive, names, readsWaited,
                 facts, load, cacheVars, told>>
-----------------------------------------------------------------------------
(* The two timers *)

InitialRequestTimeout ==
  /\ NoOtherStep
  /\ initialRequestTimer
  /\ IF initialRequestRetries < MaxRequestRetry
     THEN /\ initialRequestRetries' = initialRequestRetries + 1
          /\ RequestAll(All)
          /\ UNCHANGED <<initialRequestTimer, told>>
     ELSE /\ initialRequestRetries' = MaxRequestRetry + 1
          /\ initialRequestTimer' = FALSE
          /\ told' = told \cup (IF GenericFirmware THEN {} ELSE {"NoResponse"})
          /\ UNCHANGED <<waitingReadIndex, toVehicle>>
  /\ UNCHANGED <<waitingParamTimer, waitingForDefault, paramCount, indexBatchQueue,
                 failedReadIndex, indexBatchQueueActive, names, readsWaited, facts, load,
                 cacheVars>>

\* The pairs a timeout gets to before it has sent MaxBatchSize + 1 requests
InBatch(waiting) ==
  {p \in DOMAIN waiting :
     Cardinality({q \in DOMAIN waiting : Before(q, p) /\ waiting[q] < MaxReadWriteRetry})
       <= MaxBatchSize}
Resent(waiting)    == {p \in InBatch(waiting) : waiting[p] < MaxReadWriteRetry}
Abandoned(waiting) == InBatch(waiting) \ Resent(waiting)
AfterRetry(waiting) ==
  [p \in DOMAIN waiting \ Abandoned(waiting) |->
     IF p \in Resent(waiting) THEN waiting[p] + 1 ELSE waiting[p]]
WriteRequests ==
  LET order == Ordered(Resent(waitingWriteName))
  IN  [i \in DOMAIN order |-> Write(order[i], facts[order[i]])]
ReadRequests ==
  LET order == Ordered(Resent(waitingReadName)) IN [i \in DOMAIN order |-> ReadName(order[i])]
Failed(waiting, message) == IF Abandoned(waiting) = {} THEN {} ELSE {message}

RequestIndices ==
  /\ waitingForDefault' = FALSE
  /\ CheckInitialLoadComplete({})
  /\ SendAll(IndexRequests(waitingReadIndex, {}))
  /\ waitingParamTimer' = TRUE
  /\ UNCHANGED names

AwaitDefaultComponent ==
  /\ waitingForDefault' = TRUE
  /\ waitingParamTimer' = TRUE
  /\ UNCHANGED <<names, load, told, toVehicle>>

RetryWrites ==
  /\ waitingWriteName /= None
  /\ waitingWriteName' = AfterRetry(waitingWriteName)
  /\ SendAll(WriteRequests)
  /\ CheckInitialLoadComplete(Failed(waitingWriteName, "WriteFailed"))
  /\ waitingParamTimer' = TRUE
  /\ UNCHANGED waitingReadName

RetryReads ==
  /\ waitingWriteName = None /\ waitingReadName /= None
  /\ waitingReadName' = AfterRetry(waitingReadName)
  /\ SendAll(ReadRequests)
  /\ CheckInitialLoadComplete(Failed(waitingReadName, "ReadFailed"))
  /\ waitingParamTimer' = TRUE
  /\ UNCHANGED waitingWriteName

NothingToRetry ==
  /\ names = <<None, None>>
  /\ CheckInitialLoadComplete({})
  /\ waitingParamTimer' = FALSE
  /\ UNCHANGED <<names, toVehicle>>

WaitingParamTimeout ==
  LET asked == Asked(waitingReadIndex, {})
      awaits == ~waitingForDefault /\ ~Loaded(DefaultComponent)
  IN  /\ NoOtherStep
      /\ waitingParamTimer
      /\ indexBatchQueueActive' = TRUE
      /\ FillIndexBatchQueue(waitingReadIndex, {})
      /\ UNCHANGED <<initialRequestTimer, initialRequestRetries, paramCount, readsWaited,
                     facts, cacheVars>>
      /\ \/ asked /= {} /\ RequestIndices
         \/ asked = {} /\ awaits /\ AwaitDefaultComponent
         \/ /\ asked = {} /\ ~awaits
            /\ waitingForDefault' = FALSE
            /\ RetryWrites \/ RetryReads \/ NothingToRetry
-----------------------------------------------------------------------------
(* The specification *)

\* The constructor asks for all parameters; the cache is what earlier runs of
\* the program left.
Init ==
  /\ initialRequestTimer = TRUE
  /\ initialRequestRetries = 0
  /\ waitingParamTimer = FALSE
  /\ waitingForDefault = FALSE
  /\ paramCount = None /\ waitingReadIndex = None
  /\ waitingReadName = None /\ waitingWriteName = None
  /\ indexBatchQueue = {}
  /\ indexBatchQueueActive = FALSE
  /\ failedReadIndex = {}
  /\ readsWaited = FALSE
  /\ facts = None
  /\ parametersReady = FALSE
  /\ missingParameters = FALSE
  /\ cache \in Caches
  /\ fromCache = <<>>
  /\ told = {}
  /\ toVehicle = SubSeq(<<RequestList(All)>>, 1, IF LinkCapacity > 0 THEN 1 ELSE 0)

Next ==
  \/ \E m \in VehicleInput : Receive(m)
  \/ LoadFromCache
  \/ \E p \in ParamKey, v \in Value : ValueUpdated(p, v)
  \/ \E p \in ParamKey : RefreshParameter(p)
  \/ \E c \in Component \cup {All} : RefreshAllParameters(c)
  \/ InitialRequestTimeout \/ WaitingParamTimeout

Spec == Init /\ [][Next]_vars
-----------------------------------------------------------------------------
(* What the manager promises whatever arrives *)

IsMap(f, keys, values) == DOMAIN f \subseteq keys /\ \A k \in DOMAIN f : f[k] \in values

FlagTypeOK ==
  /\ initialRequestTimer \in BOOLEAN /\ waitingParamTimer \in BOOLEAN
  /\ waitingForDefault \in BOOLEAN /\ indexBatchQueueActive \in BOOLEAN
  /\ readsWaited \in BOOLEAN /\ parametersReady \in BOOLEAN /\ missingParameters \in BOOLEAN
  /\ initialRequestRetries \in 0 .. MaxRequestRetry + 1
  /\ told \subseteq {"NoResponse", "Missing", "ReadFailed", "WriteFailed"}
IndexTypeOK ==
  /\ IsMap(paramCount, Component, Nat)
  /\ IsMap(waitingReadIndex, (DOMAIN paramCount) \X Nat, Nat)
  /\ failedReadIndex \subseteq (DOMAIN paramCount) \X Nat
  /\ indexBatchQueue \subseteq Nat
FactTypeOK ==
  /\ IsMap(facts, (DOMAIN paramCount) \X Name, Value)
  /\ IsMap(waitingReadName, DOMAIN facts, 0 .. MaxReadWriteRetry)
  /\ IsMap(waitingWriteName, DOMAIN facts, 0 .. MaxReadWriteRetry)
CacheTypeOK ==
  /\ IsMap(cache, Component, CacheMap)
  /\ fromCache \in Seq(ParamValue)

\* Each variable has its type; a value waited for is one of a component that
\* was seen, and a component was seen of which there are values.
ParameterTypeOK == FlagTypeOK /\ IndexTypeOK /\ FactTypeOK /\ CacheTypeOK

\* A read or a write of a parameter that waits for its answer is timed, and so
\* is a load that has values of the default component: neither can be
\* forgotten, whatever arrives in whatever order (_parameterUpdate stops the
\* timer and decides anew, _waitingParamTimeout is single shot).
PendingIsTimed ==
  \/ waitingReadName /= None \/ waitingWriteName /= None
  \/ ~parametersReady /\ Loaded(DefaultComponent)
  => waitingParamTimer
=============================================================================
