-------------------------- MODULE MultiVehicleManager --------------------------
(***************************************************************************)
(* Which vehicles are connected and which one is active:                   *)
(* Vehicle/MultiVehicleManager.cc.  The active vehicle changes in two       *)
(* phases, and so is a vehicle deleted: a first one at once and a second one *)
(* 20 ms later.  All these timers have the same length, so that they fire   *)
(* in the order they were started.                                         *)
(*                                                                         *)
(* A signal calls its slots at once, in the middle of the handler that      *)
(* emits it.  calls holds the slots that are still to be called, and what   *)
(* the handler does after them: each is a step, and nothing else happens    *)
(* until calls is empty.                                                   *)
(***************************************************************************)
EXTENDS Naturals, Sequences, FiniteSets, SequencesExt

CONSTANTS
  Vehicle,      \* Vehicle objects, of which a freed one may be used again
  NoVehicle,    \* nullptr
  Controllers   \* the PlanMasterControllers, in the order they were started

ASSUME VehicleAssumption == NoVehicle \notin Vehicle

VARIABLES
  vehicles,                \* _vehicles
  activeVehicle,           \* _activeVehicle
  activeVehicleAvailable,  \* _activeVehicleAvailable
  vehicleBeingSetActive,   \* _vehicleBeingSetActive
  vehiclesBeingDeleted,    \* _vehiclesBeingDeleted
  timers,                  \* the single shots of 20 ms, in the order they fire
  calls                    \* what the handler under way has still to call

multiVehicleVars == <<vehicles, activeVehicle, activeVehicleAvailable, vehicleBeingSetActive,
                      vehiclesBeingDeleted, timers, calls>>

Connected == ToSet(vehicles)
Existing == Connected \cup ToSet(vehiclesBeingDeleted)

Call(next) == calls' = next \o Tail(calls)
Idle == calls = <<>>
EmitActiveVehicleChanged(v, after) ==
  calls' = [i \in DOMAIN Controllers |->
              [slot |-> "ActiveVehicleChanged", controller |-> Controllers[i], vehicle |-> v]]
           \o <<[slot |-> after]>>
-----------------------------------------------------------------------------
\* setActiveVehicle
SetActive(v) ==
  IF v = activeVehicle
  THEN UNCHANGED <<activeVehicleAvailable, vehicleBeingSetActive, timers>>
  ELSE /\ activeVehicleAvailable' = (activeVehicleAvailable /\ activeVehicle = NoVehicle)
       /\ vehicleBeingSetActive' = v
       /\ timers' = Append(timers, "SetActiveVehiclePhase2")

\* _vehicleHeartbeatInfo of a vehicle that is not known
VehicleHeartbeatInfo(v) ==
  /\ Idle
  /\ v \notin Existing
  /\ vehicles' = Append(vehicles, v)
  /\ IF vehicles = <<>> THEN SetActive(v)
     ELSE UNCHANGED <<activeVehicleAvailable, vehicleBeingSetActive, timers>>
  /\ UNCHANGED <<activeVehicle, vehiclesBeingDeleted, calls>>

\* The user selects a vehicle
SelectVehicle(v) ==
  /\ Idle
  /\ v \in Connected
  /\ SetActive(v)
  /\ UNCHANGED <<vehicles, activeVehicle, vehiclesBeingDeleted, calls>>

\* The last link of a vehicle is gone
DeleteVehiclePhase1(v) ==
  /\ Idle
  /\ v \in Connected
  /\ vehicles' = RemoveAt(vehicles, CHOOSE i \in DOMAIN vehicles : vehicles[i] = v)
  /\ vehiclesBeingDeleted' = Append(vehiclesBeingDeleted, v)
  /\ activeVehicleAvailable' = FALSE
  /\ timers' = Append(timers, "DeleteVehiclePhase2")
  /\ UNCHANGED <<activeVehicle, vehicleBeingSetActive, calls>>

SetActiveVehiclePhase2 ==
  /\ Idle
  /\ timers /= <<>> /\ Head(timers) = "SetActiveVehiclePhase2"
  /\ timers' = Tail(timers)
  /\ activeVehicle' = vehicleBeingSetActive
  /\ EmitActiveVehicleChanged(vehicleBeingSetActive, "VehicleActivated")
  /\ UNCHANGED <<vehicles, activeVehicleAvailable, vehicleBeingSetActive, vehiclesBeingDeleted>>

VehicleActivated ==
  /\ activeVehicleAvailable' = TRUE
  /\ Call(<<>>)
  /\ UNCHANGED <<vehicles, activeVehicle, vehicleBeingSetActive, vehiclesBeingDeleted, timers>>

FirstVehicle == IF vehicles = <<>> THEN NoVehicle ELSE Head(vehicles)

\* MUTANT of DeleteVehiclePhase2: the active vehicle stays unless it is the vehicle
\* that was lost last
DeleteVehiclePhase2OfLast ==
  /\ Idle
  /\ timers /= <<>> /\ Head(timers) = "DeleteVehiclePhase2"
  /\ timers' = Tail(timers)
  /\ LET v == IF Last(vehiclesBeingDeleted) = activeVehicle THEN FirstVehicle ELSE activeVehicle
     IN activeVehicle' = v /\ EmitActiveVehicleChanged(v, "VehicleDeleted")
  /\ UNCHANGED <<vehicles, activeVehicleAvailable, vehicleBeingSetActive, vehiclesBeingDeleted>>

DeleteVehiclePhase2 ==
  /\ Idle
  /\ timers /= <<>> /\ Head(timers) = "DeleteVehiclePhase2"
  /\ timers' = Tail(timers)
  /\ activeVehicle' = FirstVehicle
  /\ EmitActiveVehicleChanged(FirstVehicle, "VehicleDeleted")
  /\ UNCHANGED <<vehicles, activeVehicleAvailable, vehicleBeingSetActive, vehiclesBeingDeleted>>

VehicleDeleted ==
  /\ vehiclesBeingDeleted' = Tail(vehiclesBeingDeleted)
  /\ Call(<<>>)
  /\ UNCHANGED <<vehicles, activeVehicle, activeVehicleAvailable, vehicleBeingSetActive, timers>>

MultiVehicleInit ==
  /\ vehicles = <<>>
  /\ activeVehicle = NoVehicle
  /\ activeVehicleAvailable = FALSE
  /\ vehicleBeingSetActive = NoVehicle
  /\ vehiclesBeingDeleted = <<>>
  /\ timers = <<>>
  /\ calls = <<>>
=============================================================================
