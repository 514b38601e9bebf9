-------------------------- MODULE ParameterProtocol --------------------------
(***************************************************************************)
(* The parameter protocol end to end: a ParameterManager, two links that    *)
(* keep the order of messages, and the vehicle of MockLinkParameters.       *)
(*                                                                         *)
(* As in MissionProtocol a regime says whether the timers are slower than   *)
(* the links (prompt), what is lost, and what may happen.                  *)
(***************************************************************************)
EXTENDS ParameterManager

CONSTANTS
  FailParam,   \* the parameter the failure modes of the vehicle are about
  Regimes      \* the regimes, of which a behaviour has one

VARIABLES vehicleParams, sending, sendsHash, failureMode, toGcs,
          regime,
          left,         \* bound: operations left to the user
          written       \* history: what the user wrote last

MockLink == INSTANCE MockLinkParameters WITH ReplyCapacity <- LinkCapacity

vehicleVars == <<vehicleParams, sending, sendsHash, failureMode>>
protocolVars == <<vars, vehicleVars, toGcs, regime, left, written>>

\* limit bounds what users do of operations; parameters is what vehicles may hold,
\* for the default component and others
Regime == [prompt : BOOLEAN, lossy : BOOLEAN, hash : BOOLEAN,
           parameters : SUBSET UNION {[C \cup {DefaultComponent} -> CacheMap] : C \in SUBSET Component},
           caches : SUBSET Caches,
           operations : SUBSET {"Set", "Refresh", "RefreshAll", "Volatile"},
           limit : Nat, failureModes : SUBSET STRING]
ASSUME RegimeAssumption == Regimes \subseteq Regime

ProtocolInit ==
  /\ regime \in Regimes
  /\ Init /\ cache \in regime.caches
  /\ failureMode \in regime.failureModes
  /\ vehicleParams \in regime.parameters
  /\ sendsHash = regime.hash
  /\ sending = <<>>
  /\ toGcs = <<>>
  /\ left = regime.limit
  /\ written = None

Operation(kinds) == left > 0 /\ kinds \cap regime.operations /= {} /\ left' = left - 1

UserWrites ==
  /\ Operation({"Set"})
  /\ \E p \in DOMAIN facts, v \in Value : ValueUpdated(p, v) /\ written' = With(written, p, v)
  /\ UNCHANGED <<vehicleVars, toGcs, regime>>

UserRefreshes ==
  /\ \/ Operation({"Refresh"}) /\ \E p \in DOMAIN facts : RefreshParameter(p)
     \/ Operation({"RefreshAll"}) /\ RefreshAllParameters(All)
  /\ UNCHANGED <<vehicleVars, toGcs, regime, written>>

GroundReceives ==
  /\ toGcs /= <<>>
  /\ toGcs' = Tail(toGcs)
  /\ IF "hash" \in DOMAIN Head(toGcs) THEN HashReceived(Head(toGcs))
                                       ELSE ParameterUpdate(Head(toGcs))
  /\ UNCHANGED <<vehicleVars, regime, left, written>>

GroundLoadsFromCache == LoadFromCache /\ UNCHANGED <<vehicleVars, toGcs, regime, left, written>>

\* Nothing is under way, nor will be until a timer fires.
NothingUnderWay == toVehicle = <<>> /\ toGcs = <<>> /\ sending = <<>>

TimerFires ==
  /\ regime.prompt => NothingUnderWay
  /\ InitialRequestTimeout \/ WaitingParamTimeout
  /\ UNCHANGED <<vehicleVars, toGcs, regime, left, written>>

VehicleReceives ==
  /\ toVehicle /= <<>>
  /\ toVehicle' = Tail(toVehicle)
  /\ MockLink!HandleMessage(Head(toVehicle))
  /\ UNCHANGED <<managerVars, regime, left, written>>

VehicleSends == MockLink!SendNextParameter /\ UNCHANGED <<vars, regime, left, written>>

VolatileValueChanges ==
  /\ Operation({"Volatile"})
  /\ MockLink!VolatileValueChanges
  /\ UNCHANGED <<vars, regime, written>>

LoseToVehicle ==
  /\ regime.lossy
  /\ toVehicle /= <<>>
  /\ toVehicle' = Tail(toVehicle)
  /\ UNCHANGED <<managerVars, vehicleVars, toGcs, regime, left, written>>

LoseToGcs ==
  /\ regime.lossy
  /\ toGcs /= <<>>
  /\ toGcs' = Tail(toGcs)
  /\ UNCHANGED <<vars, vehicleVars, regime, left, written>>

ProtocolNext ==
  \/ UserWrites \/ UserRefreshes
  \/ GroundReceives \/ GroundLoadsFromCache \/ TimerFires
  \/ VehicleReceives \/ VehicleSends \/ VolatileValueChanges
  \/ LoseToVehicle \/ LoseToGcs

\* Links deliver or lose what they hold, timers that keep running fire, and
\* the ground station and the vehicle go on with what they have begun.
ProtocolFairness ==
  /\ WF_protocolVars(GroundReceives \/ LoseToGcs)
  /\ WF_protocolVars(VehicleReceives \/ LoseToVehicle)
  /\ WF_protocolVars(VehicleSends)
  /\ WF_protocolVars(GroundLoadsFromCache)
  /\ WF_protocolVars(TimerFires)

ProtocolSpec == ProtocolInit /\ [][ProtocolNext]_protocolVars /\ ProtocolFairness
-----------------------------------------------------------------------------
(* What the theorems ask of the regimes *)

VolatileOf(map) == {n \in DOMAIN map : <<DefaultComponent, n>> \in Volatile}

\* The caches that earlier runs may have left know which volatile parameters
\* the vehicle has.  A hash cannot tell: it leaves them out.
KnowVolatile(r) ==
  r.hash => \A v \in r.parameters, k \in r.caches :
    DefaultComponent \in DOMAIN k =>
      VolatileOf(k[DefaultComponent]) = VolatileOf(v[DefaultComponent])

\* Caches know the volatile parameters of the vehicle, if the vehicle sends a hash.
CachesKnowVolatile == \A r \in Regimes : KnowVolatile(r)

\* The vehicles the failure modes are for: they have a parameter that is sent, send no
\* hash where a parameter or every answer is kept back, and have one component, unless
\* they send no hash and nothing is kept back.
AsTested(hash, parameters, mode) ==
  /\ \E n \in DOMAIN parameters[DefaultComponent] :
       mode \in {"FailMissingParamOnInitialRequest", "FailMissingParamOnAllRequests"}
         => n /= FailParam
  /\ mode = "FailMissingParamOnAllRequests" => FailParam \in DOMAIN parameters[DefaultComponent]
  /\ mode \in {"FailParamNoResponseToRequestList", "FailMissingParamOnAllRequests"} => ~hash
  /\ hash \/ mode \in {"FailParamNoResponseToRequestList", "FailMissingParamOnInitialRequest",
                       "FailMissingParamOnAllRequests"}
       => DOMAIN parameters = {DefaultComponent}

\* In the regimes without loss whose timers outlast the links, the vehicle is one
\* that the failure modes are for.
InTimeIsTested ==
  \A r \in Regimes : r.prompt /\ ~r.lossy =>
    \A parameters \in r.parameters, mode \in r.failureModes : AsTested(r.hash, parameters, mode)
-----------------------------------------------------------------------------
(* Properties *)

\* Nothing is under way and the ground station will not send again by itself.
AtRest == NothingUnderWay /\ fromCache = <<>> /\ ~initialRequestTimer /\ ~waitingParamTimer

\* No index of a component that was seen is lost track of: whatever is lost,
\* and whether the values came from the vehicle, from the cache or from both,
\* its value is there, or it is waited for, or it was given up.
EveryIndexIsAccounted ==
  \A c \in DOMAIN paramCount : \A n \in DOMAIN vehicleParams[c] :
    \/ <<c, n>> \in DOMAIN facts
    \/ <<c, MockLink!IndexOf(<<c, n>>)>> \in DOMAIN waitingReadIndex \cup failedReadIndex

\* A load that is complete, with nothing said to be missing, has every
\* parameter of the default component.
ReadyIsWhole ==
  parametersReady /\ ~missingParameters =>
    \A n \in DOMAIN vehicleParams[DefaultComponent] : <<DefaultComponent, n>> \in DOMAIN facts

\* Over links that lose nothing, when nothing is under way, each parameter that
\* is not volatile has the vehicle's value on the screen, whatever still waits
\* or was given up: an answer that overtakes or precedes a later write, a value
\* of the first stream and a value of the cache all end up replaced (Fact's
\* _containerSetRawValue and setRawValue).
ScreenShowsVehicle ==
  NothingUnderWay /\ fromCache = <<>> /\ ~regime.lossy =>
    \A p \in DOMAIN facts \ Volatile : facts[p] = vehicleParams[p[1]][p[2]]

\* Over such links what the user wrote last is then what the vehicle holds,
\* though an older value that arrives clears the write that waits and sets
\* the value a retry sends.
WritesArrive ==
  NothingUnderWay /\ ~regime.lossy =>
    \A p \in DOMAIN written \ Volatile : vehicleParams[p[1]][p[2]] = written[p]

\* FactSystem/ParameterManagerTest.cc: the load is complete without a parameter
\* missing although the first answer lacks one; without any answer it never
\* is, and with a parameter that never comes it is complete with a parameter
\* missing, and the user is told of both.
FailureModesEnd ==
  AtRest /\ regime.prompt /\ ~regime.lossy =>
    CASE failureMode = "FailParamNoResponseToRequestList" ->
           ~parametersReady /\ "NoResponse" \in told
      [] failureMode = "FailMissingParamOnAllRequests" ->
           parametersReady /\ missingParameters /\ "Missing" \in told
      [] OTHER -> parametersReady /\ ~missingParameters /\ told = {}

\* With one component and no hash, whatever is lost, the load ends complete or
\* the user is told that the vehicle did not respond.
LoadHasOutcome ==
  AtRest /\ ~regime.hash /\ DOMAIN vehicleParams = {DefaultComponent} =>
    parametersReady \/ "NoResponse" \in told

\* Whatever is lost the retries end and the ground station comes to rest.
RetriesEnd == <>[]AtRest
=============================================================================
