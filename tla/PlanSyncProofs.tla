---------------------------- MODULE PlanSyncProofs ----------------------------
(***************************************************************************)
(* Theorems about the vehicles of MultiVehicleManager and the views of       *)
(* PlanSync, for any vehicles, and any regime of what users and vehicles do: *)
(* no pointer to a vehicle outlives it, the views follow the active vehicle,  *)
(* and the fly view shows its plan.                                         *)
(*                                                                         *)
(* What makes the first two hard is that a vehicle is activated and deleted   *)
(* 20 ms after that was decided, when other vehicles may have been lost or    *)
(* selected.  It works because all timers have the same length: every vehicle *)
(* about to be deleted has a timer of its own, in the order in which they were *)
(* lost, and a vehicle about to be activated that is lost meanwhile is deleted *)
(* by a timer behind all those that activate it.                             *)
(*                                                                         *)
(* The fly view has two sources, the managers that tell it what they read and *)
(* wrote, and what it shows of the managers when the active vehicle changes.  *)
(* So FlyInv says that it shows what the manager has, or is about to be told;  *)
(* that the manager of an element has what the vehicle has, unless it is busy  *)
(* or still to be read or written by the sequence mission, fence, rally points *)
(* that is under way; and that such a sequence is not forgotten.              *)
(***************************************************************************)
EXTENDS PlanSync, SequenceTheorems, TLAPS

Timer == {"SetActiveVehiclePhase2", "DeleteVehiclePhase2"}

\* What calls may hold
SwitchFrame == [slot : {"ActiveVehicleChanged"}, controller : View, vehicle : Vehicle \cup {NoVehicle}]
FinishFrame == [slot : {"VehicleActivated", "VehicleDeleted"}]
LoadedFrame == [slot : {"VehicleLoaded"}, vehicle : Vehicle, element : Element]
ReportSlot == {"MasterLoaded", "Loaded", "MasterSent", "Sent", "Removed"}
ReportFrame == [slot : ReportSlot, controller : View, element : Element, error : BOOLEAN]
Frame == SwitchFrame \cup FinishFrame \cup LoadedFrame \cup ReportFrame

Switching(c) == c.slot = "ActiveVehicleChanged"
Finishing(c) == c.slot \in {"VehicleActivated", "VehicleDeleted"}
Reporting(c) == c.slot \in ReportSlot

VehicleTypeOK ==
  /\ vehicles \in Seq(Vehicle) /\ vehiclesBeingDeleted \in Seq(Vehicle)
  /\ activeVehicle \in Vehicle \cup {NoVehicle} /\ vehicleBeingSetActive \in Vehicle \cup {NoVehicle}
  /\ activeVehicleAvailable \in BOOLEAN
  /\ timers \in Seq(Timer) /\ calls \in Seq(Frame)
  /\ managerVehicle \in [View -> Vehicle \cup {NoVehicle}]
-----------------------------------------------------------------------------
(* The inductive invariant *)

Deleting == \E i \in DOMAIN calls : calls[i].slot = "VehicleDeleted"

\* The vehicles whose second phase of deletion has not begun
Doomed == IF Deleting THEN Tail(vehiclesBeingDeleted) ELSE vehiclesBeingDeleted

\* due says which timer deletes which of them.
IsSchedule(due) ==
  /\ \A j, k \in DOMAIN Doomed : j < k => due[j] < due[k]
  /\ \A i \in DOMAIN timers :
       timers[i] = "DeleteVehiclePhase2" <=> \E k \in DOMAIN Doomed : due[k] = i
ActivatedBefore(n) == \A i \in DOMAIN timers : timers[i] = "SetActiveVehiclePhase2" => i < n

\* The vehicle about to be activated is not deleted before.
CanBeActivated(due) ==
  "SetActiveVehiclePhase2" \in ToSet(timers) =>
    \/ vehicleBeingSetActive \in Connected
    \/ \E k \in DOMAIN Doomed : Doomed[k] = vehicleBeingSetActive /\ ActivatedBefore(due[k])

VehiclesAreDue ==
  \E due \in [DOMAIN Doomed -> DOMAIN timers] : IsSchedule(due) /\ CanBeActivated(due)

\* The slots of a change of the active vehicle are called with that vehicle, before the
\* handler ends; those of a transfer for controllers that have a vehicle.
CallsOK ==
  \A i \in DOMAIN calls :
    /\ Finishing(calls[i]) => i = Len(calls)
    /\ Switching(calls[i]) => calls[i].vehicle = activeVehicle
    /\ Reporting(calls[i]) => /\ managerVehicle[calls[i].controller] \in Vehicle
                              /\ \A j \in DOMAIN calls : ~Switching(calls[j])

\* A controller is set up for the active vehicle, or about to be.
ViewsAreTold ==
  \A c \in View :
    \/ managerVehicle[c] = activeVehicle
    \/ \E i \in DOMAIN calls : Switching(calls[i]) /\ calls[i].controller = c

ActiveExists ==
  /\ activeVehicle \in Existing \cup {NoVehicle}
  /\ Deleting => activeVehicle \in Connected \cup {NoVehicle} /\ vehiclesBeingDeleted /= <<>>
  /\ activeVehicle = NoVehicle /\ vehicles /= <<>> => timers /= <<>>

VehicleInv == VehicleTypeOK /\ CallsOK /\ ViewsAreTold /\ ActiveExists /\ VehiclesAreDue

SyncInv == VehicleInv /\ regime \in Regime
-----------------------------------------------------------------------------
(* Sequences *)

LEMMA Tails ==
  ASSUME NEW S, NEW s \in Seq(S), s /= <<>>
  PROVE  /\ Head(s) = s[1] /\ Head(s) \in S /\ 1 \in DOMAIN s
         /\ Tail(s) \in Seq(S) /\ Len(Tail(s)) = Len(s) - 1 /\ Len(s) \in Nat
         /\ DOMAIN s = 1 .. Len(s) /\ DOMAIN Tail(s) = 1 .. (Len(s) - 1)
         /\ \A i \in DOMAIN Tail(s) : i + 1 \in DOMAIN s /\ Tail(s)[i] = s[i + 1]
         /\ \A i \in DOMAIN s : i = 1 \/ (i - 1 \in DOMAIN Tail(s) /\ Tail(s)[i - 1] = s[i])
  OBVIOUS

LEMMA Appends ==
  ASSUME NEW S, NEW s \in Seq(S), NEW x \in S
  PROVE  /\ Append(s, x) \in Seq(S) /\ Append(s, x) /= <<>> /\ Len(s) \in Nat
         /\ DOMAIN s = 1 .. Len(s) /\ DOMAIN Append(s, x) = 1 .. (Len(s) + 1)
         /\ Append(s, x)[Len(s) + 1] = x
         /\ \A i \in DOMAIN s : i \in DOMAIN Append(s, x) /\ Append(s, x)[i] = s[i]
  OBVIOUS

LEMMA TailMembers ==
  ASSUME NEW S, NEW s \in Seq(S), s /= <<>>
  PROVE  ToSet(Tail(s)) \subseteq ToSet(s) /\ ToSet(s) = ToSet(Tail(s)) \cup {Head(s)}
<1>1. ToSet(Tail(s)) \subseteq ToSet(s) /\ Head(s) \in ToSet(s)
  BY Tails DEF ToSet
<1>2. ASSUME NEW x \in ToSet(s) PROVE x \in ToSet(Tail(s)) \cup {Head(s)}
  <2>1. PICK i \in DOMAIN s : s[i] = x
    BY DEF ToSet
  <2>2. CASE i = 1
    BY <2>1, <2>2, Tails
  <2>3. CASE i /= 1
    <3>1. i - 1 \in DOMAIN Tail(s) /\ Tail(s)[i - 1] = s[i]
      BY <2>3, Tails
    <3> QED
      BY <2>1, <3>1 DEF ToSet
  <2> QED
    BY <2>2, <2>3
<1> QED
  BY <1>1, <1>2

LEMMA AppendMembers ==
  ASSUME NEW S, NEW s \in Seq(S), NEW x \in S
  PROVE  ToSet(Append(s, x)) = ToSet(s) \cup {x}
<1>1. ToSet(s) \cup {x} \subseteq ToSet(Append(s, x))
  BY Appends DEF ToSet
<1>2. ToSet(Append(s, x)) \subseteq ToSet(s) \cup {x}
  <2> SUFFICES ASSUME NEW i \in DOMAIN Append(s, x) PROVE Append(s, x)[i] \in ToSet(s) \cup {x}
    BY DEF ToSet
  <2>1. i \in DOMAIN s \/ i = Len(s) + 1
    BY Appends
  <2> QED
    BY <2>1, Appends DEF ToSet
<1> QED
  BY <1>1, <1>2

LEMMA MembersType == ASSUME NEW S, NEW s \in Seq(S) PROVE ToSet(s) \subseteq S
  BY DEF ToSet

\* What removeAt leaves of a list
LEMMA RemovedMembers ==
  ASSUME NEW S, NEW s \in Seq(S), NEW i \in DOMAIN s, NEW t, t = RemoveAt(s, i)
  PROVE  t \in Seq(S) /\ ToSet(t) \subseteq ToSet(s) /\ ToSet(s) \subseteq ToSet(t) \cup {s[i]}
<1>1. /\ t \in Seq(S) /\ DOMAIN t = 1 .. Len(s) - 1 /\ DOMAIN s = 1 .. Len(s) /\ Len(s) \in Nat
      /\ \A k \in DOMAIN t : t[k] = IF k < i THEN s[k] ELSE s[k + 1]
  BY SMTT(60) DEF RemoveAt
<1>2. ASSUME NEW k \in DOMAIN t PROVE t[k] \in ToSet(s)
  <2>1. k \in DOMAIN s /\ k + 1 \in DOMAIN s
    BY <1>1
  <2> QED
    BY <1>1, <2>1 DEF ToSet
<1>3. ASSUME NEW k \in DOMAIN s, k /= i PROVE s[k] \in ToSet(t)
  <2>1. CASE k < i
    <3>1. k \in DOMAIN t /\ t[k] = s[k]
      BY <1>1, <2>1
    <3> QED
      BY <3>1 DEF ToSet
  <2>2. CASE i < k
    <3>1. k - 1 \in DOMAIN t /\ t[k - 1] = s[k]
      BY <1>1, <2>2
    <3> QED
      BY <3>1 DEF ToSet
  <2> QED
    BY <1>1, <1>3, <2>1, <2>2
<1> QED
  BY <1>1, <1>2, <1>3 DEF ToSet
-----------------------------------------------------------------------------
(* What a step that leaves the vehicles alone keeps *)

VehiclesUnchanged ==
  UNCHANGED <<vehicles, activeVehicle, activeVehicleAvailable, vehicleBeingSetActive,
              vehiclesBeingDeleted, timers, managerVehicle>>

\* A handler that deletes no vehicle leaves the timers' schedule as it is.
LEMMA ScheduleKept ==
  ASSUME VehiclesAreDue, UNCHANGED <<vehicles, vehicleBeingSetActive, vehiclesBeingDeleted, timers>>,
         Deleting' = Deleting
  PROVE  VehiclesAreDue'
<1>1. Doomed' = Doomed
  BY DEF Doomed
<1> QED
  BY <1>1 DEF VehiclesAreDue, IsSchedule, CanBeActivated, ActivatedBefore, Connected

\* Only a call of a switch or of its end matters to the vehicles.
Plain(c) == ~Switching(c) /\ ~Finishing(c)

\* A handler that begins and calls none of these
LEMMA PlainCallsKeep ==
  ASSUME VehicleInv, Idle, VehiclesUnchanged, calls' \in Seq(Frame),
         \A i \in DOMAIN calls' :
           Plain(calls'[i]) /\ (Reporting(calls'[i]) => managerVehicle[calls'[i].controller] \in Vehicle)
  PROVE  VehicleInv'
<1>1. Deleting = FALSE /\ Deleting' = FALSE
  BY DEF Deleting, Idle, Plain, Finishing
<1>2. VehicleTypeOK'
  BY DEF VehicleInv, VehicleTypeOK, VehiclesUnchanged
<1>3. CallsOK'
  BY DEF CallsOK, Plain, VehiclesUnchanged
<1>4. ViewsAreTold'
  BY DEF VehicleInv, ViewsAreTold, Idle, VehiclesUnchanged
<1>5. ActiveExists'
  BY <1>1 DEF VehicleInv, ActiveExists, Existing, Connected, VehiclesUnchanged
<1>6. VehiclesAreDue'
  BY <1>1, ScheduleKept DEF VehicleInv, VehiclesUnchanged
<1> QED
  BY <1>2, <1>3, <1>4, <1>5, <1>6 DEF VehicleInv

\* One of them that returns
LEMMA PlainReturnKeeps ==
  ASSUME VehicleInv, calls /= <<>>, Plain(Head(calls)), Call(<<>>), VehiclesUnchanged
  PROVE  VehicleInv'
<1>0. calls \in Seq(Frame) /\ calls' = Tail(calls)
  <2>1. calls \in Seq(Frame) /\ Tail(calls) \in Seq(Frame)
    BY DEF VehicleInv, VehicleTypeOK
  <2> QED
    BY <2>1 DEF Call
<1>1. /\ \A i \in DOMAIN calls' : i + 1 \in DOMAIN calls /\ calls'[i] = calls[i + 1]
      /\ \A i \in DOMAIN calls : Plain(calls[i]) \/ (i - 1 \in DOMAIN calls' /\ calls'[i - 1] = calls[i])
      /\ Len(calls') = Len(calls) - 1 /\ Len(calls) \in Nat /\ calls' \in Seq(Frame)
  BY <1>0, Tails
<1>2. Deleting' = Deleting
  BY <1>1 DEF Deleting, Plain, Finishing
<1>3. VehicleTypeOK'
  BY <1>1 DEF VehicleInv, VehicleTypeOK, VehiclesUnchanged
<1>4. CallsOK'
  <2> SUFFICES ASSUME NEW i \in DOMAIN calls'
               PROVE  /\ Finishing(calls'[i]) => i = Len(calls')
                      /\ Switching(calls'[i]) => calls'[i].vehicle = activeVehicle'
                      /\ Reporting(calls'[i]) =>
                           /\ managerVehicle'[calls'[i].controller] \in Vehicle
                           /\ \A j \in DOMAIN calls' : ~Switching(calls'[j])
    BY DEF CallsOK
  <2>1. i + 1 \in DOMAIN calls /\ calls'[i] = calls[i + 1] /\ i \in Nat
    BY <1>0, <1>1
  <2>2. /\ Finishing(calls[i + 1]) => i + 1 = Len(calls)
        /\ Switching(calls[i + 1]) => calls[i + 1].vehicle = activeVehicle
        /\ Reporting(calls[i + 1]) => /\ managerVehicle[calls[i + 1].controller] \in Vehicle
                                      /\ \A j \in DOMAIN calls : ~Switching(calls[j])
    BY <2>1 DEF VehicleInv, CallsOK
  <2> QED
    BY <1>1, <2>1, <2>2 DEF VehiclesUnchanged
<1>5. ViewsAreTold'
  <2> SUFFICES ASSUME NEW c \in View, managerVehicle[c] /= activeVehicle
               PROVE  \E i \in DOMAIN calls' : Switching(calls'[i]) /\ calls'[i].controller = c
    BY DEF ViewsAreTold, VehiclesUnchanged
  <2>1. PICK i \in DOMAIN calls : Switching(calls[i]) /\ calls[i].controller = c
    BY DEF VehicleInv, ViewsAreTold
  <2>2. i - 1 \in DOMAIN calls' /\ calls'[i - 1] = calls[i]
    BY <1>1, <2>1 DEF Plain
  <2> QED
    BY <2>1, <2>2
<1>6. ActiveExists'
  BY <1>2 DEF VehicleInv, ActiveExists, Existing, Connected, VehiclesUnchanged
<1>7. VehiclesAreDue'
  BY <1>2, ScheduleKept DEF VehicleInv, VehiclesUnchanged
<1> QED
  BY <1>3, <1>4, <1>5, <1>6, <1>7 DEF VehicleInv

\* A step that neither begins nor ends a handler
LEMMA SameCallsKeep ==
  ASSUME VehicleInv, VehiclesUnchanged, UNCHANGED calls
  PROVE  VehicleInv'
<1>1. Deleting' = Deleting
  BY DEF Deleting
<1>2. VehiclesAreDue'
  BY <1>1, ScheduleKept DEF VehicleInv, VehiclesUnchanged
<1> QED
  BY <1>1, <1>2 DEF VehicleInv, VehicleTypeOK, CallsOK, ViewsAreTold, ActiveExists, Existing,
     Connected, VehiclesUnchanged
-----------------------------------------------------------------------------
(* Vehicles come, are selected and are lost *)

\* Between two handlers nothing is left to call.
LEMMA WhenIdle ==
  ASSUME VehicleInv, Idle
  PROVE  /\ Deleting = FALSE /\ Doomed = vehiclesBeingDeleted
         /\ \A c \in View : managerVehicle[c] = activeVehicle
  BY DEF VehicleInv, Idle, Deleting, Doomed, ViewsAreTold

\* What a step that begins no handler has to show
LEMMA IdleKeeps ==
  ASSUME VehicleInv, Idle, UNCHANGED <<calls, managerVehicle, activeVehicle>>,
         vehicles' \in Seq(Vehicle), vehiclesBeingDeleted' \in Seq(Vehicle),
         vehicleBeingSetActive' \in Vehicle \cup {NoVehicle}, activeVehicleAvailable' \in BOOLEAN,
         timers' \in Seq(Timer),
         Existing \subseteq Existing',
         activeVehicle = NoVehicle /\ vehicles' /= <<>> => timers' /= <<>>,
         VehiclesAreDue'
  PROVE  VehicleInv'
<1>1. Deleting' = FALSE
  BY WhenIdle DEF Deleting
<1>2. VehicleTypeOK' /\ CallsOK' /\ ViewsAreTold'
  BY DEF VehicleInv, VehicleTypeOK, CallsOK, ViewsAreTold
<1>3. ActiveExists'
  BY <1>1 DEF VehicleInv, ActiveExists
<1> QED
  BY <1>2, <1>3 DEF VehicleInv

\* A vehicle that is activated in 20 ms is connected now.
LEMMA SetActiveKeepsSchedule ==
  ASSUME VehicleInv, Idle, UNCHANGED <<calls, vehiclesBeingDeleted>>,
         Connected \subseteq Connected', NEW v \in Connected', v \in Vehicle, SetActive(v)
  PROVE  /\ VehiclesAreDue'
         /\ timers' \in Seq(Timer) /\ vehicleBeingSetActive' \in Vehicle \cup {NoVehicle}
         /\ activeVehicleAvailable' \in BOOLEAN
         /\ timers /= <<>> \/ v /= activeVehicle => timers' /= <<>>
<1>0. timers \in Seq(Timer) /\ DOMAIN timers = 1 .. Len(timers) /\ Len(timers) \in Nat
  BY DEF VehicleInv, VehicleTypeOK
<1>1. Doomed' = Doomed
  BY DEF Doomed, Deleting
<1>2. PICK due \in [DOMAIN Doomed -> DOMAIN timers] : IsSchedule(due) /\ CanBeActivated(due)
  BY DEF VehicleInv, VehiclesAreDue
<1>3. CASE v = activeVehicle
  <2>1. UNCHANGED <<activeVehicleAvailable, vehicleBeingSetActive, timers>>
    BY <1>3 DEF SetActive
  <2>2. IsSchedule(due)' /\ CanBeActivated(due)' /\ due \in [DOMAIN Doomed' -> DOMAIN timers']
    BY <1>1, <1>2, <2>1 DEF IsSchedule, CanBeActivated, ActivatedBefore
  <2> QED
    BY <1>3, <2>1, <2>2 DEF VehiclesAreDue, VehicleInv, VehicleTypeOK
<1>4. CASE v /= activeVehicle
  <2>1. /\ activeVehicleAvailable' = (activeVehicleAvailable /\ activeVehicle = NoVehicle)
        /\ vehicleBeingSetActive' = v /\ timers' = Append(timers, "SetActiveVehiclePhase2")
    BY <1>4 DEF SetActive
  <2>2. /\ timers' \in Seq(Timer) /\ timers' /= <<>>
        /\ DOMAIN timers' = 1 .. (Len(timers) + 1)
        /\ timers'[Len(timers) + 1] = "SetActiveVehiclePhase2"
        /\ \A i \in DOMAIN timers : i \in DOMAIN timers' /\ timers'[i] = timers[i]
    BY <1>0, <2>1, Appends DEF Timer
  <2>3. due \in [DOMAIN Doomed' -> DOMAIN timers']
    BY <1>1, <1>2, <2>2
  <2>4. IsSchedule(due)'
    <3>1. \A j, k \in DOMAIN Doomed' : j < k => due[j] < due[k]
      BY <1>1, <1>2 DEF IsSchedule
    <3>2. ASSUME NEW i \in DOMAIN timers'
          PROVE  timers'[i] = "DeleteVehiclePhase2" <=> \E k \in DOMAIN Doomed' : due[k] = i
      <4>1. CASE i \in DOMAIN timers
        BY <1>1, <1>2, <2>2, <4>1 DEF IsSchedule
      <4>2. CASE i = Len(timers) + 1
        <5>1. i \notin DOMAIN timers
          BY <1>0, <4>2
        <5> QED
          BY <1>1, <1>2, <2>2, <4>2, <5>1
      <4> QED
        BY <1>0, <2>2, <4>1, <4>2
    <3> QED
      BY <3>1, <3>2 DEF IsSchedule
  <2>5. CanBeActivated(due)'
    BY <2>1 DEF CanBeActivated
  <2> QED
    BY <2>1, <2>2, <2>3, <2>4, <2>5 DEF VehiclesAreDue
<1> QED
  BY <1>3, <1>4

LEMMA VehicleHeartbeatInfoKeeps ==
  ASSUME VehicleInv, NEW v \in Vehicle, VehicleHeartbeatInfo(v), UNCHANGED managerVehicle
  PROVE  VehicleInv'
<1>1. Idle /\ v \notin Existing /\ vehicles' = Append(vehicles, v)
      /\ UNCHANGED <<activeVehicle, vehiclesBeingDeleted, calls>>
  BY DEF VehicleHeartbeatInfo
<1>2. vehicles \in Seq(Vehicle) /\ vehiclesBeingDeleted \in Seq(Vehicle)
  BY DEF VehicleInv, VehicleTypeOK
<1>3. vehicles' \in Seq(Vehicle) /\ Connected' = Connected \cup {v} /\ vehicles' /= <<>>
  BY <1>1, <1>2, Appends, AppendMembers DEF Connected
<1>4. Existing \subseteq Existing'
  BY <1>1, <1>3 DEF Existing
<1>5. v /= activeVehicle
  BY <1>1, VehicleAssumption DEF VehicleInv, ActiveExists
<1>6. CASE vehicles = <<>>
  <2>1. SetActive(v)
    BY <1>6 DEF VehicleHeartbeatInfo
  <2> QED
    BY <1>1, <1>2, <1>3, <1>4, <1>5, <2>1, SetActiveKeepsSchedule, IdleKeeps
<1>7. CASE vehicles /= <<>>
  <2>1. UNCHANGED <<activeVehicleAvailable, vehicleBeingSetActive, timers>>
    BY <1>7 DEF VehicleHeartbeatInfo
  <2>2. VehiclesAreDue'
    <3>1. Doomed' = Doomed
      BY <1>1 DEF Doomed, Deleting
    <3>2. PICK due \in [DOMAIN Doomed -> DOMAIN timers] : IsSchedule(due) /\ CanBeActivated(due)
      BY DEF VehicleInv, VehiclesAreDue
    <3>3. IsSchedule(due)' /\ CanBeActivated(due)' /\ due \in [DOMAIN Doomed' -> DOMAIN timers']
      BY <1>3, <2>1, <3>1, <3>2 DEF IsSchedule, CanBeActivated, ActivatedBefore
    <3> QED
      BY <3>3 DEF VehiclesAreDue
  <2>3. activeVehicle = NoVehicle => timers' /= <<>>
    BY <1>7, <2>1 DEF VehicleInv, ActiveExists
  <2> QED
    BY <1>1, <1>2, <1>3, <1>4, <2>1, <2>2, <2>3, IdleKeeps DEF VehicleInv, VehicleTypeOK
<1> QED
  BY <1>6, <1>7

LEMMA SelectVehicleKeeps ==
  ASSUME VehicleInv, NEW v \in Vehicle, SelectVehicle(v), UNCHANGED managerVehicle
  PROVE  VehicleInv'
<1>1. Idle /\ v \in Connected /\ SetActive(v)
      /\ UNCHANGED <<vehicles, activeVehicle, vehiclesBeingDeleted, calls>>
  BY DEF SelectVehicle
<1>2. Connected' = Connected /\ Existing' = Existing
  BY <1>1 DEF Connected, Existing
<1>3. /\ VehiclesAreDue'
      /\ timers' \in Seq(Timer) /\ vehicleBeingSetActive' \in Vehicle \cup {NoVehicle}
      /\ activeVehicleAvailable' \in BOOLEAN
      /\ timers /= <<>> => timers' /= <<>>
  BY <1>1, <1>2, SetActiveKeepsSchedule
<1>4. activeVehicle = NoVehicle /\ vehicles' /= <<>> => timers' /= <<>>
  BY <1>1, <1>3 DEF VehicleInv, ActiveExists
<1> QED
  BY <1>1, <1>2, <1>3, <1>4, IdleKeeps DEF VehicleInv, VehicleTypeOK

\* A vehicle that is lost is deleted after every activation that was asked for before.
LEMMA DeleteVehiclePhase1Keeps ==
  ASSUME VehicleInv, NEW v \in Vehicle, DeleteVehiclePhase1(v), UNCHANGED managerVehicle
  PROVE  VehicleInv'
<1> DEFINE at == CHOOSE i \in DOMAIN vehicles : vehicles[i] = v
<1>1. /\ Idle /\ v \in Connected /\ vehicles' = RemoveAt(vehicles, at)
      /\ vehiclesBeingDeleted' = Append(vehiclesBeingDeleted, v)
      /\ activeVehicleAvailable' = FALSE /\ timers' = Append(timers, "DeleteVehiclePhase2")
      /\ UNCHANGED <<activeVehicle, vehicleBeingSetActive, calls>>
  BY DEF DeleteVehiclePhase1
<1>2. /\ vehicles \in Seq(Vehicle) /\ vehiclesBeingDeleted \in Seq(Vehicle)
      /\ timers \in Seq(Timer) /\ Len(timers) \in Nat /\ Len(vehiclesBeingDeleted) \in Nat
      /\ DOMAIN timers = 1 .. Len(timers)
      /\ DOMAIN vehiclesBeingDeleted = 1 .. Len(vehiclesBeingDeleted)
  BY DEF VehicleInv, VehicleTypeOK
<1>3. at \in DOMAIN vehicles /\ vehicles[at] = v
  BY <1>1 DEF Connected, ToSet
<1> HIDE DEF at
<1>4. vehicles' \in Seq(Vehicle) /\ Connected \subseteq Connected' \cup {v}
  BY <1>1, <1>2, <1>3, RemovedMembers DEF Connected
<1>5. /\ vehiclesBeingDeleted' \in Seq(Vehicle)
      /\ ToSet(vehiclesBeingDeleted') = ToSet(vehiclesBeingDeleted) \cup {v}
  BY <1>1, <1>2, Appends, AppendMembers
<1>6. Existing \subseteq Existing'
  BY <1>4, <1>5 DEF Existing
<1>0. PICK n \in Nat, m \in Nat : n = Len(timers) + 1 /\ m = Len(vehiclesBeingDeleted) + 1
  BY <1>2
<1>7. /\ timers' \in Seq(Timer) /\ timers' /= <<>> /\ DOMAIN timers' = 1 .. n
      /\ timers'[n] = "DeleteVehiclePhase2"
      /\ \A i \in DOMAIN timers : i \in DOMAIN timers' /\ timers'[i] = timers[i]
  BY <1>0, <1>1, <1>2, Appends DEF Timer
<1>8. /\ Doomed = vehiclesBeingDeleted /\ Doomed' = vehiclesBeingDeleted'
      /\ DOMAIN Doomed = 1 .. (m - 1) /\ DOMAIN Doomed' = 1 .. m /\ Doomed'[m] = v
      /\ \A k \in DOMAIN Doomed : Doomed'[k] = Doomed[k]
  <2>1. Doomed = vehiclesBeingDeleted /\ Doomed' = vehiclesBeingDeleted'
    BY <1>1, WhenIdle DEF Doomed, Deleting
  <2>2. /\ DOMAIN vehiclesBeingDeleted' = 1 .. m /\ vehiclesBeingDeleted'[m] = v
        /\ \A k \in DOMAIN vehiclesBeingDeleted : vehiclesBeingDeleted'[k] = vehiclesBeingDeleted[k]
    BY <1>0, <1>1, <1>2, Appends
  <2> QED
    BY <1>0, <1>2, <2>1, <2>2
<1>9. PICK due \in [DOMAIN Doomed -> DOMAIN timers] : IsSchedule(due) /\ CanBeActivated(due)
  BY DEF VehicleInv, VehiclesAreDue
<1>10. PICK next \in [1 .. m -> 1 .. n] :
         next[m] = n /\ \A k \in DOMAIN Doomed : next[k] = due[k] /\ due[k] < n
  <2> DEFINE later == [k \in 1 .. m |-> IF k = m THEN n ELSE due[k]]
  <2>1. later \in [1 .. m -> 1 .. n]
    BY <1>0, <1>2, <1>8, <1>9
  <2>2. m \in 1 .. m /\ \A k \in DOMAIN Doomed : k \in 1 .. m /\ k /= m /\ due[k] < n
    BY <1>0, <1>2, <1>8, <1>9
  <2> QED
    BY <2>1, <2>2
<1>11. IsSchedule(next)'
  <2>1. ASSUME NEW j \in DOMAIN Doomed', NEW k \in DOMAIN Doomed', j < k
        PROVE  next[j] < next[k]
    <3>1. CASE k = m
      BY <1>8, <1>10, <2>1, <3>1
    <3>2. CASE k /= m
      <4>1. j \in DOMAIN Doomed /\ k \in DOMAIN Doomed
        BY <1>0, <1>2, <1>8, <2>1, <3>2
      <4> QED
        BY <1>9, <1>10, <2>1, <4>1 DEF IsSchedule
    <3> QED
      BY <3>1, <3>2
  <2>2. ASSUME NEW i \in DOMAIN timers'
        PROVE  timers'[i] = "DeleteVehiclePhase2" <=> \E k \in DOMAIN Doomed' : next[k] = i
    <3>1. CASE i = n
      <4>1. m \in DOMAIN Doomed'
        BY <1>0, <1>2, <1>8
      <4> QED
        BY <1>7, <1>10, <3>1, <4>1
    <3>2. CASE i /= n
      <4>1. i \in DOMAIN timers /\ timers'[i] = timers[i]
        BY <1>0, <1>2, <1>7, <3>2
      <4>2. ASSUME NEW k \in DOMAIN Doomed', next[k] = i PROVE k \in DOMAIN Doomed
        BY <1>0, <1>2, <1>8, <1>10, <3>2, <4>2
      <4>3. DOMAIN Doomed \subseteq DOMAIN Doomed'
        BY <1>0, <1>2, <1>8
      <4>4. (\E k \in DOMAIN Doomed' : next[k] = i) <=> \E k \in DOMAIN Doomed : due[k] = i
        BY <1>10, <4>2, <4>3
      <4> QED
        BY <1>9, <4>1, <4>4 DEF IsSchedule
    <3> QED
      BY <3>1, <3>2
  <2> QED
    BY <2>1, <2>2 DEF IsSchedule
<1>12. CanBeActivated(next)'
  <2> SUFFICES ASSUME "SetActiveVehiclePhase2" \in ToSet(timers')
               PROVE  \/ vehicleBeingSetActive \in Connected'
                      \/ \E k \in DOMAIN Doomed' :
                           Doomed'[k] = vehicleBeingSetActive /\ ActivatedBefore(next[k])'
    BY <1>1 DEF CanBeActivated
  <2>0. \A i \in DOMAIN timers' : timers'[i] = "SetActiveVehiclePhase2" =>
          i \in DOMAIN timers /\ timers[i] = "SetActiveVehiclePhase2"
    BY <1>0, <1>2, <1>7
  <2>1. "SetActiveVehiclePhase2" \in ToSet(timers)
    BY <2>0 DEF ToSet
  <2>2. CASE vehicleBeingSetActive \in Connected /\ vehicleBeingSetActive /= v
    BY <1>4, <2>2
  <2>3. CASE vehicleBeingSetActive = v
    <3>1. ActivatedBefore(next[m])'
      BY <1>0, <1>2, <1>10, <2>0 DEF ActivatedBefore
    <3>2. m \in DOMAIN Doomed'
      BY <1>0, <1>2, <1>8
    <3> QED
      BY <1>8, <2>3, <3>1, <3>2
  <2>4. ASSUME NEW k \in DOMAIN Doomed, Doomed[k] = vehicleBeingSetActive, ActivatedBefore(due[k])
        PROVE  \E l \in DOMAIN Doomed' : Doomed'[l] = vehicleBeingSetActive /\ ActivatedBefore(next[l])'
    <3>1. k \in DOMAIN Doomed' /\ Doomed'[k] = vehicleBeingSetActive
      BY <1>0, <1>2, <1>8, <2>4
    <3>2. ActivatedBefore(next[k])'
      BY <1>10, <2>0, <2>4 DEF ActivatedBefore
    <3> QED
      BY <3>1, <3>2
  <2> QED
    BY <1>9, <2>1, <2>2, <2>3, <2>4 DEF CanBeActivated
<1>13. VehiclesAreDue'
  BY <1>7, <1>8, <1>11, <1>12 DEF VehiclesAreDue
<1> QED
  BY <1>1, <1>2, <1>4, <1>5, <1>6, <1>7, <1>13, IdleKeeps DEF VehicleInv, VehicleTypeOK
-----------------------------------------------------------------------------
(* The timers fire *)

LEMMA ThreeCalls ==
  ASSUME NEW S, NEW s \in Seq(S), Len(s) = 2, NEW x \in S, NEW t, t = s \o <<x>>
  PROVE  /\ t \in Seq(S) /\ Len(t) = 3 /\ DOMAIN t = 1 .. 3
         /\ t[1] = s[1] /\ t[2] = s[2] /\ t[3] = x
<1> DEFINE u == <<x>>
<1>1. u \in Seq(S) /\ Len(u) = 1 /\ u[1] = x
  OBVIOUS
<1>2. t = s \o u
  OBVIOUS
<1> HIDE DEF u
<1> QED
  BY <1>1, <1>2, ConcatProperties

\* The slots of activeVehicleChanged, and the rest of the handler that emits it
EndsWithSwitch(v, after) ==
  /\ calls' \in Seq(Frame) /\ Len(calls') = 3 /\ DOMAIN calls' = 1 .. 3
  /\ \A i \in 1 .. 2 : calls'[i] = [slot |-> "ActiveVehicleChanged",
                                   controller |-> Controllers[i], vehicle |-> v]
  /\ calls'[3] = [slot |-> after]
  /\ \A c \in View : \E i \in 1 .. 2 : Controllers[i] = c

LEMMA Emits ==
  ASSUME NEW v \in Vehicle \cup {NoVehicle}, NEW after \in {"VehicleActivated", "VehicleDeleted"},
         EmitActiveVehicleChanged(v, after)
  PROVE  EndsWithSwitch(v, after)
<1> DEFINE told == [i \in DOMAIN Controllers |->
                      [slot |-> "ActiveVehicleChanged", controller |-> Controllers[i], vehicle |-> v]]
<1>1. DOMAIN Controllers = 1 .. 2 /\ \A i \in 1 .. 2 : Controllers[i] \in View
  BY ViewAssumption DEF ToSet
<1>2. told \in [1 .. 2 -> SwitchFrame]
  BY <1>1 DEF SwitchFrame
<1>3. told \in Seq(Frame) /\ Len(told) = 2
  <2>1. told \in [1 .. 2 -> Frame]
    BY <1>2 DEF Frame
  <2> QED
    BY <2>1
<1>4. [slot |-> after] \in Frame
  BY DEF Frame, FinishFrame
<1>5. calls' = told \o <<[slot |-> after]>>
  BY DEF EmitActiveVehicleChanged
<1>6. \A i \in 1 .. 2 : told[i] = [slot |-> "ActiveVehicleChanged",
                                   controller |-> Controllers[i], vehicle |-> v]
  BY <1>1
<1> HIDE DEF told
<1>7. /\ calls' \in Seq(Frame) /\ Len(calls') = 3 /\ DOMAIN calls' = 1 .. 3
      /\ calls'[1] = told[1] /\ calls'[2] = told[2] /\ calls'[3] = [slot |-> after]
  BY <1>3, <1>4, <1>5, ThreeCalls
<1>8. \A c \in View : \E i \in 1 .. 2 : Controllers[i] = c
  BY <1>1 DEF View, ToSet
<1> QED
  BY <1>6, <1>7, <1>8 DEF EndsWithSwitch

\* What both second phases share
LEMMA SwitchKeeps ==
  ASSUME VehicleInv, Idle, timers /= <<>>, timers' = Tail(timers),
         UNCHANGED <<vehicles, activeVehicleAvailable, vehicleBeingSetActive,
                     vehiclesBeingDeleted, managerVehicle>>,
         NEW after \in {"VehicleActivated", "VehicleDeleted"},
         EmitActiveVehicleChanged(activeVehicle', after),
         activeVehicle' \in Existing \cup {NoVehicle},
         after = "VehicleDeleted" =>
           activeVehicle' \in Connected \cup {NoVehicle} /\ vehiclesBeingDeleted /= <<>>,
         activeVehicle' = NoVehicle => vehicles = <<>>,
         VehiclesAreDue'
  PROVE  VehicleInv'
<1>1. vehicles \in Seq(Vehicle) /\ vehiclesBeingDeleted \in Seq(Vehicle) /\ timers \in Seq(Timer)
  BY DEF VehicleInv, VehicleTypeOK
<1>2. activeVehicle' \in Vehicle \cup {NoVehicle}
  BY <1>1, MembersType DEF Existing, Connected
<1>3. PICK v \in Vehicle \cup {NoVehicle} : v = activeVehicle' /\ EmitActiveVehicleChanged(v, after)
  BY <1>2
<1>4. EndsWithSwitch(v, after)
  BY <1>3, Emits
<1>5. VehicleTypeOK'
  BY <1>1, <1>2, <1>4 DEF VehicleInv, VehicleTypeOK, EndsWithSwitch
<1>6. CallsOK'
  BY <1>3, <1>4 DEF CallsOK, Switching, Finishing, Reporting, ReportSlot, EndsWithSwitch
<1>7. ViewsAreTold'
  BY <1>4 DEF ViewsAreTold, Switching, EndsWithSwitch
<1>8. Deleting' => after = "VehicleDeleted"
  BY <1>4 DEF Deleting, EndsWithSwitch
<1>9. ActiveExists'
  BY <1>8 DEF ActiveExists, Existing, Connected
<1> QED
  BY <1>5, <1>6, <1>7, <1>9 DEF VehicleInv

\* The vehicle that is activated exists: it is connected, or lost and not yet deleted.
LEMMA SetActiveVehiclePhase2Keeps ==
  ASSUME VehicleInv, SetActiveVehiclePhase2, UNCHANGED managerVehicle
  PROVE  VehicleInv'
<1>1. /\ Idle /\ timers /= <<>> /\ Head(timers) = "SetActiveVehiclePhase2" /\ timers' = Tail(timers)
      /\ activeVehicle' = vehicleBeingSetActive
      /\ EmitActiveVehicleChanged(activeVehicle', "VehicleActivated")
      /\ UNCHANGED <<vehicles, activeVehicleAvailable, vehicleBeingSetActive, vehiclesBeingDeleted>>
  BY DEF SetActiveVehiclePhase2
<1>2. timers \in Seq(Timer) /\ vehiclesBeingDeleted \in Seq(Vehicle) /\ vehicles \in Seq(Vehicle)
      /\ vehicleBeingSetActive \in Vehicle \cup {NoVehicle}
  BY DEF VehicleInv, VehicleTypeOK
<1>3. /\ timers[1] = "SetActiveVehiclePhase2" /\ 1 \in DOMAIN timers
      /\ timers' \in Seq(Timer) /\ DOMAIN timers = 1 .. Len(timers) /\ Len(timers) \in Nat
      /\ DOMAIN timers' = 1 .. (Len(timers) - 1)
      /\ \A i \in DOMAIN timers' : i + 1 \in DOMAIN timers /\ timers'[i] = timers[i + 1]
  BY <1>1, <1>2, Tails
<1>4. PICK due \in [DOMAIN Doomed -> DOMAIN timers] : IsSchedule(due) /\ CanBeActivated(due)
  BY DEF VehicleInv, VehiclesAreDue
<1>5. Doomed = vehiclesBeingDeleted /\ Doomed' = vehiclesBeingDeleted
  <2>1. Deleting' = FALSE
    <3>1. EmitActiveVehicleChanged(vehicleBeingSetActive, "VehicleActivated")
      BY <1>1
    <3>2. EndsWithSwitch(vehicleBeingSetActive, "VehicleActivated")
      BY <1>2, <3>1, Emits
    <3> QED
      BY <3>2 DEF Deleting, EndsWithSwitch
  <2> QED
    BY <1>1, <2>1, WhenIdle DEF Doomed
<1>6. \A k \in DOMAIN Doomed : due[k] \in DOMAIN timers /\ due[k] > 1
  BY <1>3, <1>4 DEF IsSchedule
<1>7. PICK next \in [DOMAIN Doomed -> DOMAIN timers'] : \A k \in DOMAIN Doomed : next[k] = due[k] - 1
  <2>1. \A k \in DOMAIN Doomed : due[k] - 1 \in DOMAIN timers'
    BY <1>3, <1>6
  <2>2. [k \in DOMAIN Doomed |-> due[k] - 1] \in [DOMAIN Doomed -> DOMAIN timers']
    BY <2>1
  <2> QED
    BY <2>2
<1>8. IsSchedule(next)'
  <2>1. \A j, k \in DOMAIN Doomed' : j < k => next[j] < next[k]
    BY <1>3, <1>4, <1>5, <1>6, <1>7 DEF IsSchedule
  <2>2. ASSUME NEW i \in DOMAIN timers'
        PROVE  timers'[i] = "DeleteVehiclePhase2" <=> \E k \in DOMAIN Doomed' : next[k] = i
    <3>1. timers[i + 1] = "DeleteVehiclePhase2" <=> \E k \in DOMAIN Doomed : due[k] = i + 1
      BY <1>3, <1>4 DEF IsSchedule
    <3>2. \A k \in DOMAIN Doomed : next[k] = i <=> due[k] = i + 1
      BY <1>3, <1>6, <1>7
    <3> QED
      BY <1>3, <1>5, <3>1, <3>2
  <2> QED
    BY <2>1, <2>2 DEF IsSchedule
<1>9. CanBeActivated(due) /\ "SetActiveVehiclePhase2" \in ToSet(timers)
  BY <1>3, <1>4 DEF ToSet
<1>10. CanBeActivated(next)'
  <2>1. ASSUME NEW k \in DOMAIN Doomed, ActivatedBefore(due[k]) PROVE ActivatedBefore(next[k])'
    BY <1>3, <1>6, <1>7, <2>1 DEF ActivatedBefore
  <2> QED
    BY <1>1, <1>5, <1>9, <2>1 DEF CanBeActivated, Connected
<1>11. VehiclesAreDue'
  BY <1>5, <1>8, <1>10 DEF VehiclesAreDue
<1>12. activeVehicle' \in Existing /\ activeVehicle' /= NoVehicle
  <2>1. vehicleBeingSetActive \in Existing
    BY <1>5, <1>9 DEF CanBeActivated, Existing, ToSet
  <2>2. Existing \subseteq Vehicle
    BY <1>2, MembersType DEF Existing, Connected
  <2> QED
    BY <1>1, <2>1, <2>2, VehicleAssumption
<1> QED
  BY <1>1, <1>11, <1>12, SwitchKeeps

\* The vehicle that is deleted is the one lost first, and no activation of it is pending.
LEMMA DeleteVehiclePhase2Keeps ==
  ASSUME VehicleInv, DeleteVehiclePhase2, UNCHANGED managerVehicle
  PROVE  VehicleInv'
<1>1. /\ Idle /\ timers /= <<>> /\ Head(timers) = "DeleteVehiclePhase2" /\ timers' = Tail(timers)
      /\ activeVehicle' = FirstVehicle
      /\ EmitActiveVehicleChanged(activeVehicle', "VehicleDeleted")
      /\ UNCHANGED <<vehicles, activeVehicleAvailable, vehicleBeingSetActive, vehiclesBeingDeleted>>
  BY DEF DeleteVehiclePhase2
<1>2. timers \in Seq(Timer) /\ vehiclesBeingDeleted \in Seq(Vehicle) /\ vehicles \in Seq(Vehicle)
  BY DEF VehicleInv, VehicleTypeOK
<1>3. /\ timers[1] = "DeleteVehiclePhase2" /\ 1 \in DOMAIN timers
      /\ timers' \in Seq(Timer) /\ DOMAIN timers = 1 .. Len(timers) /\ Len(timers) \in Nat
      /\ DOMAIN timers' = 1 .. (Len(timers) - 1)
      /\ \A i \in DOMAIN timers' : i + 1 \in DOMAIN timers /\ timers'[i] = timers[i + 1]
  BY <1>1, <1>2, Tails
<1>4. PICK due \in [DOMAIN Doomed -> DOMAIN timers] : IsSchedule(due) /\ CanBeActivated(due)
  BY DEF VehicleInv, VehiclesAreDue
<1>5. FirstVehicle \in Connected \cup {NoVehicle} /\ (FirstVehicle = NoVehicle => vehicles = <<>>)
  <2>1. vehicles /= <<>> => Head(vehicles) \in Connected
    BY <1>2, TailMembers DEF Connected
  <2>2. NoVehicle \notin Connected
    BY <1>2, MembersType, VehicleAssumption DEF Connected
  <2> QED
    BY <2>1, <2>2 DEF FirstVehicle
<1>6. Doomed = vehiclesBeingDeleted /\ Doomed' = Tail(vehiclesBeingDeleted)
  <2>1. Deleting'
    <3>1. FirstVehicle \in Vehicle \cup {NoVehicle} /\ EmitActiveVehicleChanged(FirstVehicle, "VehicleDeleted")
      BY <1>1, <1>2, <1>5, MembersType DEF Connected
    <3>2. EndsWithSwitch(FirstVehicle, "VehicleDeleted")
      BY <3>1, Emits
    <3> QED
      BY <3>2 DEF Deleting, EndsWithSwitch
  <2> QED
    BY <1>1, <2>1, WhenIdle DEF Doomed
<1>7. vehiclesBeingDeleted /= <<>> /\ due[1] = 1
  <2>1. PICK k \in DOMAIN Doomed : due[k] = 1
    BY <1>3, <1>4 DEF IsSchedule
  <2>2. 1 \in DOMAIN Doomed /\ k \in Nat /\ k >= 1 /\ vehiclesBeingDeleted /= <<>>
    BY <1>2, <1>6, <2>1
  <2>3. 1 < k => due[1] < 1
    BY <1>4, <2>1, <2>2 DEF IsSchedule
  <2>4. due[1] \in DOMAIN timers
    BY <1>4, <2>2
  <2> QED
    BY <1>3, <2>1, <2>2, <2>3, <2>4
<1>8. /\ 1 \in DOMAIN Doomed /\ DOMAIN Doomed = 1 .. Len(Doomed) /\ Len(Doomed) \in Nat
      /\ \A k \in DOMAIN Doomed' : k + 1 \in DOMAIN Doomed /\ Doomed'[k] = Doomed[k + 1]
      /\ \A k \in DOMAIN Doomed : k = 1 \/ (k - 1 \in DOMAIN Doomed' /\ Doomed'[k - 1] = Doomed[k])
      /\ DOMAIN Doomed' = 1 .. (Len(Doomed) - 1)
  BY <1>2, <1>6, <1>7, Tails
<1>9. \A k \in DOMAIN Doomed : k /= 1 => due[k] \in DOMAIN timers /\ due[k] > 1
  BY <1>4, <1>7, <1>8 DEF IsSchedule
<1>10. PICK next \in [DOMAIN Doomed' -> DOMAIN timers'] :
         \A k \in DOMAIN Doomed' : next[k] = due[k + 1] - 1
  <2>1. \A k \in DOMAIN Doomed' : k + 1 \in DOMAIN Doomed /\ k + 1 /= 1
    BY <1>8
  <2>2. \A k \in DOMAIN Doomed' : due[k + 1] - 1 \in DOMAIN timers'
    BY <1>3, <1>9, <2>1
  <2>3. [k \in DOMAIN Doomed' |-> due[k + 1] - 1] \in [DOMAIN Doomed' -> DOMAIN timers']
    BY <2>2
  <2> QED
    BY <2>3
<1>11. IsSchedule(next)'
  <2>1. ASSUME NEW j \in DOMAIN Doomed', NEW k \in DOMAIN Doomed', j < k PROVE next[j] < next[k]
    <3>1. /\ j + 1 \in DOMAIN Doomed /\ k + 1 \in DOMAIN Doomed /\ j + 1 < k + 1
          /\ j + 1 /= 1 /\ k + 1 /= 1
      BY <1>8, <2>1
    <3>2. due[j + 1] < due[k + 1] /\ due[j + 1] \in Nat /\ due[k + 1] \in Nat
      BY <1>3, <1>4, <3>1 DEF IsSchedule
    <3> QED
      BY <1>10, <3>2
  <2>2. ASSUME NEW i \in DOMAIN timers'
        PROVE  timers'[i] = "DeleteVehiclePhase2" <=> \E k \in DOMAIN Doomed' : next[k] = i
    <3>1. timers[i + 1] = "DeleteVehiclePhase2" <=> \E k \in DOMAIN Doomed : due[k] = i + 1
      BY <1>3, <1>4 DEF IsSchedule
    <3>2. ASSUME NEW k \in DOMAIN Doomed, due[k] = i + 1 PROVE \E l \in DOMAIN Doomed' : next[l] = i
      <4>1. k /= 1
        BY <1>3, <1>7, <3>2
      <4>2. k - 1 \in DOMAIN Doomed' /\ (k - 1) + 1 = k
        BY <1>8, <4>1
      <4>3. next[k - 1] = due[k] - 1
        BY <1>10, <4>2
      <4> QED
        BY <1>3, <3>2, <4>2, <4>3
    <3>3. ASSUME NEW k \in DOMAIN Doomed', next[k] = i PROVE \E l \in DOMAIN Doomed : due[l] = i + 1
      <4>1. k + 1 \in DOMAIN Doomed /\ k + 1 /= 1
        BY <1>8
      <4>2. due[k + 1] \in Nat
        BY <1>3, <1>9, <4>1
      <4> QED
        BY <1>3, <1>10, <3>3, <4>1, <4>2
    <3> QED
      BY <1>3, <3>1, <3>2, <3>3
  <2> QED
    BY <2>1, <2>2 DEF IsSchedule
<1>12. CanBeActivated(next)'
  <2> SUFFICES ASSUME "SetActiveVehiclePhase2" \in ToSet(timers')
               PROVE  \/ vehicleBeingSetActive \in Connected
                      \/ \E k \in DOMAIN Doomed' :
                           Doomed'[k] = vehicleBeingSetActive /\ ActivatedBefore(next[k])'
    BY <1>1 DEF CanBeActivated, Connected
  <2>1. PICK j \in DOMAIN timers' : timers'[j] = "SetActiveVehiclePhase2"
    BY DEF ToSet
  <2>2. j + 1 \in DOMAIN timers /\ timers[j + 1] = "SetActiveVehiclePhase2" /\ j + 1 > 1
    BY <1>3, <2>1
  <2>3. "SetActiveVehiclePhase2" \in ToSet(timers)
    BY <2>2 DEF ToSet
  <2>4. ASSUME NEW k \in DOMAIN Doomed, Doomed[k] = vehicleBeingSetActive, ActivatedBefore(due[k])
        PROVE  \E l \in DOMAIN Doomed' : Doomed'[l] = vehicleBeingSetActive /\ ActivatedBefore(next[l])'
    <3>1. k /= 1
      <4>1. j + 1 < due[k]
        BY <2>2, <2>4 DEF ActivatedBefore
      <4> QED
        BY <1>3, <1>7, <2>1, <4>1
    <3>2. PICK l \in DOMAIN Doomed' : l + 1 = k /\ Doomed'[l] = Doomed[k]
      <4>1. k - 1 \in DOMAIN Doomed' /\ Doomed'[k - 1] = Doomed[k] /\ (k - 1) + 1 = k
        BY <1>8, <3>1
      <4> QED
        BY <4>1
    <3>3. next[l] = due[k] - 1 /\ due[k] \in Nat
      BY <1>3, <1>9, <1>10, <3>1, <3>2
    <3>4. ActivatedBefore(next[l])'
      BY <1>3, <2>4, <3>3 DEF ActivatedBefore
    <3> QED
      BY <2>4, <3>2, <3>4
  <2> QED
    BY <1>4, <2>3, <2>4 DEF CanBeActivated
<1>13. VehiclesAreDue'
  BY <1>11, <1>12 DEF VehiclesAreDue
<1> QED
  BY <1>1, <1>5, <1>7, <1>13, SwitchKeeps DEF Existing
-----------------------------------------------------------------------------
(* The slots of a change of the active vehicle *)

\* A slot that is called leaves the rest of the handler.
LEMMA Returns ==
  ASSUME VehicleInv, calls /= <<>>, Call(<<>>)
  PROVE  /\ calls' \in Seq(Frame) /\ Len(calls') = Len(calls) - 1 /\ Len(calls) \in Nat
         /\ Head(calls) = calls[1] /\ 1 \in DOMAIN calls
         /\ \A i \in DOMAIN calls' :
              i \in Nat /\ i + 1 \in DOMAIN calls /\ calls'[i] = calls[i + 1] /\ i + 1 /= 1
         /\ \A i \in DOMAIN calls :
              i = 1 \/ (i - 1 \in DOMAIN calls' /\ calls'[i - 1] = calls[i])
<1>1. calls \in Seq(Frame) /\ Tail(calls) \in Seq(Frame)
  BY DEF VehicleInv, VehicleTypeOK
<1>2. calls' = Tail(calls)
  BY <1>1 DEF Call
<1> QED
  BY <1>1, <1>2, Tails

LEMMA VehicleActivatedKeeps ==
  ASSUME VehicleInv, calls /= <<>>, Head(calls).slot = "VehicleActivated", VehicleActivated,
         UNCHANGED managerVehicle
  PROVE  VehicleInv'
<1>1. activeVehicleAvailable' = TRUE /\ Call(<<>>)
      /\ UNCHANGED <<vehicles, activeVehicle, vehicleBeingSetActive, vehiclesBeingDeleted, timers>>
  BY DEF VehicleActivated
<1>2. Finishing(calls[1]) /\ ~Switching(calls[1])
  BY <1>1, Returns DEF Finishing, Switching
<1>3. Len(calls) = 1 /\ \A i \in DOMAIN calls : i = 1
  <2>1. Len(calls) = 1
    BY <1>1, <1>2, Returns DEF VehicleInv, CallsOK
  <2> QED
    BY <2>1 DEF VehicleInv, VehicleTypeOK
<1>4. calls' \in Seq(Frame) /\ DOMAIN calls' = {}
  BY <1>1, <1>3, Returns
<1>5. Deleting = FALSE /\ Deleting' = FALSE
  BY <1>1, <1>3, <1>4, Returns DEF Deleting
<1>6. VehiclesAreDue'
  BY <1>1, <1>5, ScheduleKept DEF VehicleInv
<1>7. VehicleTypeOK' /\ CallsOK'
  BY <1>1, <1>4 DEF VehicleInv, VehicleTypeOK, CallsOK
<1>8. ViewsAreTold'
  BY <1>1, <1>2, <1>3 DEF VehicleInv, ViewsAreTold
<1>9. ActiveExists'
  BY <1>1, <1>5 DEF VehicleInv, ActiveExists, Existing, Connected
<1> QED
  BY <1>6, <1>7, <1>8, <1>9 DEF VehicleInv

\* The vehicle is freed when every view has been told of another one.
LEMMA VehicleDeletedKeeps ==
  ASSUME VehicleInv, calls /= <<>>, Head(calls).slot = "VehicleDeleted", VehicleDeleted,
         UNCHANGED managerVehicle
  PROVE  VehicleInv'
<1>1. vehiclesBeingDeleted' = Tail(vehiclesBeingDeleted) /\ Call(<<>>)
      /\ UNCHANGED <<vehicles, activeVehicle, activeVehicleAvailable, vehicleBeingSetActive, timers>>
  BY DEF VehicleDeleted
<1>2. Finishing(calls[1]) /\ ~Switching(calls[1])
  BY <1>1, Returns DEF Finishing, Switching
<1>3. Len(calls) = 1 /\ \A i \in DOMAIN calls : i = 1
  <2>1. Len(calls) = 1
    BY <1>1, <1>2, Returns DEF VehicleInv, CallsOK
  <2> QED
    BY <2>1 DEF VehicleInv, VehicleTypeOK
<1>4. calls' \in Seq(Frame) /\ DOMAIN calls' = {}
  BY <1>1, <1>3, Returns
<1>5. Deleting = TRUE /\ Deleting' = FALSE
  <2>1. Deleting' = FALSE
    BY <1>4 DEF Deleting
  <2>2. Deleting
    BY <1>1, Returns DEF Deleting
  <2> QED
    BY <2>1, <2>2 DEF Deleting
<1>6. vehiclesBeingDeleted \in Seq(Vehicle) /\ vehiclesBeingDeleted /= <<>>
      /\ activeVehicle \in Connected \cup {NoVehicle}
  BY <1>5 DEF VehicleInv, VehicleTypeOK, ActiveExists
<1>7. vehiclesBeingDeleted' \in Seq(Vehicle)
  BY <1>1, <1>6, Tails
<1>8. Doomed' = Doomed
  BY <1>1, <1>5 DEF Doomed
<1>9. VehiclesAreDue'
  BY <1>1, <1>8 DEF VehicleInv, VehiclesAreDue, IsSchedule, CanBeActivated, ActivatedBefore, Connected
<1>10. VehicleTypeOK' /\ CallsOK'
  BY <1>1, <1>4, <1>7 DEF VehicleInv, VehicleTypeOK, CallsOK
<1>11. ViewsAreTold'
  BY <1>1, <1>2, <1>3 DEF VehicleInv, ViewsAreTold
<1>12. ActiveExists'
  BY <1>1, <1>5, <1>6 DEF VehicleInv, ActiveExists, Existing, Connected
<1> QED
  BY <1>9, <1>10, <1>11, <1>12 DEF VehicleInv

\* A view that is told of the active vehicle is set up for it.
LEMMA ActiveVehicleChangedKeeps ==
  ASSUME VehicleInv, ActiveVehicleChanged
  PROVE  VehicleInv'
<1> DEFINE f == Head(calls)
<1>1. /\ calls /= <<>> /\ f.slot = "ActiveVehicleChanged" /\ Call(<<>>)
      /\ managerVehicle' = [managerVehicle EXCEPT ![f.controller] = f.vehicle]
      /\ UNCHANGED <<vehicles, activeVehicle, activeVehicleAvailable, vehicleBeingSetActive,
                     vehiclesBeingDeleted, timers>>
  BY DEF ActiveVehicleChanged, Called, OnlyViewsChange
<1>2. /\ f = calls[1] /\ 1 \in DOMAIN calls /\ Switching(f) /\ f.vehicle = activeVehicle
      /\ \A i \in DOMAIN calls : ~Reporting(calls[i])
  <2>1. f = calls[1] /\ 1 \in DOMAIN calls /\ Switching(f)
    BY <1>1, Returns DEF Switching
  <2> QED
    BY <2>1 DEF VehicleInv, CallsOK
<1>3. activeVehicle \in Vehicle \cup {NoVehicle} /\ managerVehicle \in [View -> Vehicle \cup {NoVehicle}]
  BY DEF VehicleInv, VehicleTypeOK
<1>4. f.vehicle \in Vehicle \cup {NoVehicle}
  BY <1>2, <1>3
<1>5. ~Finishing(f)
  BY <1>1 DEF Finishing
<1> HIDE DEF f
<1>6. Deleting' = Deleting
  BY <1>1, <1>2, <1>5, Returns DEF Deleting, Finishing
<1>7. VehiclesAreDue'
  BY <1>1, <1>6, ScheduleKept DEF VehicleInv
<1>8. VehicleTypeOK'
  BY <1>1, <1>3, <1>4, Returns DEF VehicleInv, VehicleTypeOK
<1>9. CallsOK'
  <2> SUFFICES ASSUME NEW i \in DOMAIN calls'
               PROVE  /\ Finishing(calls'[i]) => i = Len(calls')
                      /\ Switching(calls'[i]) => calls'[i].vehicle = activeVehicle'
                      /\ ~Reporting(calls'[i])
    BY DEF CallsOK
  <2>1. i \in Nat /\ i + 1 \in DOMAIN calls /\ calls'[i] = calls[i + 1]
        /\ Len(calls') = Len(calls) - 1 /\ Len(calls) \in Nat
    BY <1>1, Returns
  <2>2. /\ Finishing(calls[i + 1]) => i + 1 = Len(calls)
        /\ Switching(calls[i + 1]) => calls[i + 1].vehicle = activeVehicle
    BY <2>1 DEF VehicleInv, CallsOK
  <2> QED
    BY <1>1, <1>2, <2>1, <2>2
<1>10. ViewsAreTold'
  <2> SUFFICES ASSUME NEW c \in View, managerVehicle'[c] /= activeVehicle
               PROVE  \E i \in DOMAIN calls' : Switching(calls'[i]) /\ calls'[i].controller = c
    BY <1>1 DEF ViewsAreTold
  <2>1. c /= f.controller /\ managerVehicle[c] /= activeVehicle
    BY <1>1, <1>2, <1>3
  <2>2. PICK i \in DOMAIN calls : Switching(calls[i]) /\ calls[i].controller = c
    BY <2>1 DEF VehicleInv, ViewsAreTold
  <2>3. i - 1 \in DOMAIN calls' /\ calls'[i - 1] = calls[i]
    BY <1>1, <1>2, <2>1, <2>2, Returns
  <2> QED
    BY <2>2, <2>3
<1>11. ActiveExists'
  BY <1>1, <1>6 DEF VehicleInv, ActiveExists, Existing, Connected
<1> QED
  BY <1>7, <1>8, <1>9, <1>10, <1>11 DEF VehicleInv
-----------------------------------------------------------------------------
(* A transaction ends *)

\* What the managers of v may call: nothing of the vehicles, and only the controllers
\* that are set up for v
ReportsOf(v) == {f \in ReportFrame : managerVehicle[f.controller] = v}
MayCall == {f \in Frame : Plain(f) /\ (Reporting(f) => managerVehicle[f.controller] \in Vehicle)}

LEMMA SlotsReport ==
  ASSUME NEW c \in View, NEW v \in Vehicle, NEW e \in Element,
         NEW slots \in Seq(ReportSlot), NEW error \in BOOLEAN
  PROVE  SlotsOf(c, v, e, slots, error) \in Seq(ReportsOf(v))
<1>1. CASE managerVehicle[c] /= v
  BY <1>1 DEF SlotsOf
<1>2. CASE managerVehicle[c] = v
  <2> DEFINE frames == [j \in DOMAIN slots |->
                          [slot |-> slots[j], controller |-> c, element |-> e, error |-> error]]
  <2>1. DOMAIN slots = 1 .. Len(slots) /\ Len(slots) \in Nat /\ \A j \in DOMAIN slots : slots[j] \in ReportSlot
    OBVIOUS
  <2>2. \A j \in DOMAIN slots : frames[j] \in ReportsOf(v)
    BY <1>2, <2>1 DEF ReportsOf, ReportFrame
  <2>3. frames \in [1 .. Len(slots) -> ReportsOf(v)]
    BY <2>1, <2>2
  <2>4. frames \in Seq(ReportsOf(v))
    BY <2>1, <2>3
  <2> QED
    BY <1>2, <2>4 DEF SlotsOf
<1> QED
  BY <1>1, <1>2

LEMMA ViewsReport ==
  ASSUME NEW v \in Vehicle, NEW e \in Element, NEW slots \in Seq(ReportSlot), NEW error \in BOOLEAN
  PROVE  ViewSlots(v, e, slots, error) \in Seq(MayCall)
<1>1. Controllers[1] \in View /\ Controllers[2] \in View
  BY ViewAssumption DEF View, ToSet
<1>2. /\ SlotsOf(Controllers[1], v, e, slots, error) \in Seq(ReportsOf(v))
      /\ SlotsOf(Controllers[2], v, e, slots, error) \in Seq(ReportsOf(v))
  BY <1>1, SlotsReport
<1>3. ViewSlots(v, e, slots, error) \in Seq(ReportsOf(v))
  BY <1>2, ConcatProperties DEF ViewSlots
<1>4. ReportsOf(v) \subseteq MayCall
  BY DEF ReportsOf, MayCall, Frame, ReportFrame, Plain, Switching, Finishing, Reporting, ReportSlot
<1> QED
  BY <1>3, <1>4

LEMMA TransactionEndsKeeps ==
  ASSUME VehicleInv, NEW v \in Vehicle, NEW e \in Element, TransactionEnds(v, e)
  PROVE  VehicleInv'
<1>1. Idle /\ VehiclesUnchanged
  BY DEF TransactionEnds, VehiclesUnchanged, viewVars
<1>2. calls' \in Seq(MayCall)
  <2>1. PICK ok \in BOOLEAN : ReadEnds(v, e, ok) \/ WriteEnds(v, e, ok) \/ RemoveAllEnds(v, e, ok)
    BY DEF TransactionEnds
  <2>2. CASE ReadEnds(v, e, ok)
    <3> DEFINE loaded == [slot |-> "VehicleLoaded", vehicle |-> v, element |-> e]
    <3>1. loaded \in MayCall
      BY DEF MayCall, Frame, LoadedFrame, Plain, Switching, Finishing, Reporting, ReportSlot
    <3>2. <<"MasterLoaded", "Loaded">> \in Seq(ReportSlot)
      BY DEF ReportSlot
    <3>3. ViewSlots(v, e, <<"MasterLoaded", "Loaded">>, FALSE) \in Seq(MayCall)
      BY <3>2, ViewsReport
    <3>4. calls' = <<loaded>> \o ViewSlots(v, e, <<"MasterLoaded", "Loaded">>, FALSE)
      BY <2>2 DEF ReadEnds
    <3> HIDE DEF loaded
    <3>5. <<loaded>> \in Seq(MayCall)
      BY <3>1
    <3> QED
      BY <3>3, <3>4, <3>5, ConcatProperties
  <2>3. CASE WriteEnds(v, e, ok)
    <3>1. <<"MasterSent", "Sent">> \in Seq(ReportSlot)
      BY DEF ReportSlot
    <3> QED
      BY <2>3, <3>1, ViewsReport DEF WriteEnds
  <2>4. CASE RemoveAllEnds(v, e, ok)
    <3>1. <<"Removed">> \in Seq(ReportSlot)
      BY DEF ReportSlot
    <3> QED
      BY <2>4, <3>1, ViewsReport DEF RemoveAllEnds
  <2> QED
    BY <2>1, <2>2, <2>3, <2>4
<1>3. \A i \in DOMAIN calls' : calls'[i] \in MayCall
  BY <1>2
<1>4. calls' \in Seq(Frame)
  <2>1. MayCall \subseteq Frame
    BY DEF MayCall
  <2> QED
    BY <1>2, <2>1
<1> QED
  BY <1>1, <1>3, <1>4, PlainCallsKeep DEF MayCall
-----------------------------------------------------------------------------
(* The invariant holds *)

LEMMA InitVehicleInv == SyncInit => VehicleInv
<1> SUFFICES ASSUME SyncInit PROVE VehicleInv
  OBVIOUS
<1>1. /\ vehicles = <<>> /\ activeVehicle = NoVehicle /\ activeVehicleAvailable = FALSE
      /\ vehicleBeingSetActive = NoVehicle /\ vehiclesBeingDeleted = <<>> /\ timers = <<>>
      /\ calls = <<>> /\ managerVehicle = [c \in View |-> NoVehicle]
  BY DEF SyncInit, MultiVehicleInit
<1>2. VehicleTypeOK
  <2>1. <<>> \in Seq(Vehicle) /\ <<>> \in Seq(Timer) /\ <<>> \in Seq(Frame)
    OBVIOUS
  <2>2. managerVehicle \in [View -> Vehicle \cup {NoVehicle}]
    BY <1>1
  <2> QED
    BY <1>1, <2>1, <2>2 DEF VehicleTypeOK
<1>3. CallsOK /\ ViewsAreTold
  BY <1>1 DEF CallsOK, ViewsAreTold
<1>4. Deleting = FALSE
  BY <1>1 DEF Deleting
<1>5. ActiveExists
  BY <1>1, <1>4 DEF ActiveExists
<1>6. VehiclesAreDue
  <2>1. DOMAIN Doomed = {} /\ DOMAIN timers = {}
    BY <1>1, <1>4 DEF Doomed
  <2>2. PICK due \in [{} -> {}] : TRUE
    <3>1. [k \in {} |-> k] \in [{} -> {}]
      OBVIOUS
    <3> QED
      BY <3>1
  <2>3. IsSchedule(due)
    BY <2>1 DEF IsSchedule
  <2>4. CanBeActivated(due)
    BY <2>1 DEF CanBeActivated, ToSet
  <2> QED
    BY <2>1, <2>2, <2>3, <2>4 DEF VehiclesAreDue
<1> QED
  BY <1>2, <1>3, <1>5, <1>6 DEF VehicleInv

LEMMA NextVehicleInv ==
  ASSUME VehicleInv, regime \in Regime, [SyncNext]_syncVars
  PROVE  VehicleInv'
<1>1. CASE \E v \in Vehicle, e \in Element : TransactionEnds(v, e)
  BY <1>1, TransactionEndsKeeps
<1>2. CASE \E v \in Vehicle : InitialRequest(v)
  <2>1. VehiclesUnchanged /\ UNCHANGED calls
    BY <1>2 DEF InitialRequest, multiVehicleVars, viewVars, VehiclesUnchanged
  <2> QED
    BY <2>1, SameCallsKeep
<1>3. CASE VehicleLoaded
  <2>1. calls /= <<>> /\ Plain(Head(calls)) /\ Call(<<>>) /\ VehiclesUnchanged
    BY <1>3 DEF VehicleLoaded, Called, Plain, Switching, Finishing, viewVars, VehiclesUnchanged
  <2> QED
    BY <2>1, PlainReturnKeeps
<1>4. CASE Loaded
  <2>1. calls /= <<>> /\ Plain(Head(calls)) /\ Call(<<>>) /\ VehiclesUnchanged
    BY <1>4 DEF Loaded, OnlyViewsChange, Called, Plain, Switching, Finishing, VehiclesUnchanged
  <2> QED
    BY <2>1, PlainReturnKeeps
<1>5. CASE SentOrRemoved
  <2>1. calls /= <<>> /\ Plain(Head(calls)) /\ Call(<<>>) /\ VehiclesUnchanged
    BY <1>5 DEF SentOrRemoved, OnlyViewsChange, Called, Plain, Switching, Finishing, VehiclesUnchanged
  <2> QED
    BY <2>1, PlainReturnKeeps
<1>6. CASE MasterLoaded
  <2>1. calls /= <<>> /\ Plain(Head(calls)) /\ Call(<<>>) /\ VehiclesUnchanged
    BY <1>6 DEF MasterLoaded, OnlyViewsChange, Called, Plain, Switching, Finishing, VehiclesUnchanged
  <2> QED
    BY <2>1, PlainReturnKeeps
<1>7. CASE MasterSent
  <2>1. calls /= <<>> /\ Plain(Head(calls)) /\ Call(<<>>) /\ VehiclesUnchanged
    BY <1>7 DEF MasterSent, OnlyViewsChange, Called, Plain, Switching, Finishing, VehiclesUnchanged
  <2> QED
    BY <2>1, PlainReturnKeeps
<1>8. CASE ActiveVehicleChanged
  BY <1>8, ActiveVehicleChangedKeeps
<1>9. CASE VehicleIsActivated
  BY <1>9, VehicleActivatedKeeps DEF VehicleIsActivated, Called, viewVars
<1>10. CASE VehicleIsDeleted
  BY <1>10, VehicleDeletedKeeps DEF VehicleIsDeleted, Called, viewVars
<1>11. CASE TimerFires
  BY <1>11, SetActiveVehiclePhase2Keeps, DeleteVehiclePhase2Keeps DEF TimerFires, viewVars
<1>12. CASE VehicleConnects
  <2>1. PICK v \in Vehicle : VehicleHeartbeatInfo(v)
    BY <1>12 DEF VehicleConnects, Regime
  <2>2. UNCHANGED managerVehicle
    BY <1>12 DEF VehicleConnects, viewVars
  <2> QED
    BY <2>1, <2>2, VehicleHeartbeatInfoKeeps
<1>13. CASE VehicleIsLost
  BY <1>13, DeleteVehiclePhase1Keeps DEF VehicleIsLost, May
<1>14. CASE UserSelects
  BY <1>14, SelectVehicleKeeps DEF UserSelects, May
<1>15. CASE EditPlan \/ LoadFromVehicle \/ SendToVehicle \/ ResumeMission
            \/ \E c \in View : RemoveAllFromVehicle(c)
  <2>1. UNCHANGED multiVehicleVars /\ UNCHANGED managerVehicle
    BY <1>15 DEF EditPlan, LoadFromVehicle, SendToVehicle, ResumeMission, RemoveAllFromVehicle, May
  <2>2. VehiclesUnchanged /\ UNCHANGED calls
    BY <2>1 DEF multiVehicleVars, VehiclesUnchanged
  <2> QED
    BY <2>2, SameCallsKeep
<1>16. CASE UNCHANGED syncVars
  <2>1. VehiclesUnchanged /\ UNCHANGED calls
    BY <1>16 DEF syncVars, multiVehicleVars, viewVars, VehiclesUnchanged
  <2> QED
    BY <2>1, SameCallsKeep
<1> QED
  BY <1>1, <1>2, <1>3, <1>4, <1>5, <1>6, <1>7, <1>8, <1>9, <1>10, <1>11, <1>12, <1>13, <1>14,
     <1>15, <1>16 DEF SyncNext, SlotIsCalled

\* The regime of a behaviour stays.
LEMMA RegimeKept == [SyncNext]_syncVars => UNCHANGED regime
  BY DEF SyncNext, syncVars, SlotIsCalled, TransactionEnds, InitialRequest, VehicleLoaded, Loaded,
     SentOrRemoved, MasterLoaded, MasterSent, ActiveVehicleChanged, OnlyViewsChange,
     VehicleIsActivated, VehicleIsDeleted, TimerFires, VehicleConnects, VehicleIsLost, UserSelects,
     EditPlan, LoadFromVehicle, SendToVehicle, ResumeMission, RemoveAllFromVehicle, May

\* SyncInv, and the types of the vehicles with it: every vehicle about to be deleted has
\* its timer, every activation that is pending is of a vehicle that will still exist, and
\* every view is set up for the active vehicle or will be by the handler under way
\* (MultiVehicleManager.cc _setActiveVehiclePhase2,
\* _deleteVehiclePhase2 and PlanMasterController.cc _activeVehicleChanged).
THEOREM SyncInvariance == SyncSpec => []SyncInv
<1>1. SyncInit => SyncInv
  BY InitVehicleInv, RegimeAssumption DEF SyncInv, SyncInit
<1>2. SyncInv /\ [SyncNext]_syncVars => SyncInv'
  BY NextVehicleInv, RegimeKept DEF SyncInv
<1> QED
  BY <1>1, <1>2, PTL DEF SyncSpec

\* No pointer to a vehicle outlives it (MultiVehicleManager.cc _deleteVehiclePhase2).
THEOREM VehiclesDoNotDangle == SyncSpec => []NoDanglingVehicle
<1>1. SyncInv => NoDanglingVehicle
  <2> SUFFICES ASSUME VehicleInv, Idle
               PROVE  /\ activeVehicle \in Existing \cup {NoVehicle}
                      /\ "SetActiveVehiclePhase2" \in ToSet(timers) => vehicleBeingSetActive \in Existing
                      /\ \A c \in View : managerVehicle[c] \in Existing \cup {NoVehicle}
    BY DEF SyncInv, NoDanglingVehicle
  <2>1. activeVehicle \in Existing \cup {NoVehicle}
    BY DEF VehicleInv, ActiveExists
  <2>2. \A c \in View : managerVehicle[c] = activeVehicle
    BY WhenIdle
  <2>3. "SetActiveVehiclePhase2" \in ToSet(timers) => vehicleBeingSetActive \in Existing
    BY WhenIdle DEF VehicleInv, VehiclesAreDue, CanBeActivated, Existing, ToSet
  <2> QED
    BY <2>1, <2>2, <2>3
<1> QED
  BY <1>1, SyncInvariance, PTL

\* When the timers have fired the active vehicle is a connected one and both views are set
\* up for it (MultiVehicleManager.cc and PlanMasterController.cc _activeVehicleChanged).
THEOREM ActiveIsFollowed == SyncSpec => []ViewsFollowActive
<1>1. SyncInv => ViewsFollowActive
  <2> SUFFICES ASSUME VehicleInv, Idle, timers = <<>>
               PROVE  /\ IF vehicles = <<>> THEN activeVehicle = NoVehicle ELSE activeVehicle \in Connected
                      /\ \A c \in View : managerVehicle[c] = activeVehicle
    BY DEF SyncInv, ViewsFollowActive
  <2>1. vehiclesBeingDeleted = <<>>
    <3>1. PICK due \in [DOMAIN Doomed -> DOMAIN timers] : TRUE
      BY DEF VehicleInv, VehiclesAreDue
    <3>2. DOMAIN Doomed = {}
      BY <3>1
    <3>3. DOMAIN vehiclesBeingDeleted = {} /\ vehiclesBeingDeleted \in Seq(Vehicle)
      BY <3>2, WhenIdle DEF VehicleInv, VehicleTypeOK
    <3>4. Len(vehiclesBeingDeleted) = 0
      BY <3>3
    <3> QED
      BY <3>3, <3>4, EmptySeq
  <2>2. Existing = Connected
    BY <2>1 DEF Existing, ToSet
  <2>3. vehicles = <<>> => Connected = {}
    BY DEF Connected, ToSet
  <2>4. activeVehicle \in Connected \cup {NoVehicle} /\ (activeVehicle = NoVehicle => vehicles = <<>>)
    BY <2>2 DEF VehicleInv, ActiveExists
  <2> QED
    BY <2>3, <2>4, WhenIdle
<1> QED
  BY <1>1, SyncInvariance, PTL
-----------------------------------------------------------------------------
(* What the managers know and the fly view shows *)

Transaction == {"None", "Read", "Write", "RemoveAll"}
Content == {"Empty", "Edited", "Resumed"} \cup Vehicle
Plan == [Element -> Content]

PlanTypeOK ==
  /\ transaction \in [Vehicle -> [Element -> Transaction]]
  /\ managerItems \in [Vehicle -> Plan] /\ sendItems \in [Vehicle -> Plan]
  /\ vehiclePlan \in [Vehicle -> Plan] /\ items \in [View -> Plan]
  /\ requested \in [Vehicle -> SUBSET Element] /\ planComplete \in [Vehicle -> BOOLEAN]
  /\ itemsRequested \in [View -> SUBSET Element]
  /\ toLoad \in [View -> SUBSET Element] /\ toSend \in [View -> SUBSET Element]
  /\ toLoad["FlyView"] = {} /\ toSend["FlyView"] = {}

\* Vehicles are selected and lost only while nothing is transferred.
Undisturbed == regime.calm /\ regime.steady

Reports(slots, c, e) ==
  \E i \in DOMAIN calls : calls[i].slot \in slots /\ calls[i].controller = c /\ calls[i].element = e
\* The fly view is about to be told what became of an element.
FlyIsTold(e) == Reports({"Loaded", "Sent", "Removed"}, "FlyView", e)
\* The vehicle is about to be told that an element was read.
VehicleIsTold(v, e) ==
  \E i \in DOMAIN calls : calls[i].slot = "VehicleLoaded" /\ calls[i].vehicle = v /\ calls[i].element = e

\* No vehicle is connected twice or while it is being deleted.
VehiclesDiffer ==
  /\ \A i, j \in DOMAIN vehicles : vehicles[i] = vehicles[j] => i = j
  /\ \A i, j \in DOMAIN vehiclesBeingDeleted :
       vehiclesBeingDeleted[i] = vehiclesBeingDeleted[j] => i = j
  /\ Connected \cap ToSet(vehiclesBeingDeleted) = {}

\* A manager that is not busy knows what the vehicle has.
Knows(v, e) == Busy(v, e) \/ managerItems[v][e] = vehiclePlan[v][e]

\* Nothing that is reported failed, and a vehicle that is told to go on with its initial
\* request is the first to be told, before the views.
FramesOK ==
  \A i \in DOMAIN calls :
    /\ Reporting(calls[i]) => ~calls[i].error
    /\ calls[i].slot = "VehicleLoaded" =>
         /\ i = 1 /\ calls[i].vehicle \in Existing
         /\ Supported(calls[i].element) /\ Knows(calls[i].vehicle, calls[i].element)
         /\ \A j \in DOMAIN calls : ~Switching(calls[j])
         /\ managerVehicle["FlyView"] = calls[i].vehicle => FlyIsTold(calls[i].element)

\* Only vehicles that exist transfer something, and where users wait for transfers to end
\* none is under way while a vehicle is activated or deleted.
Quiet ==
  /\ \A v \in Vehicle : SyncInProgress(v) => v \in Existing
  /\ Undisturbed /\ (timers /= <<>> \/ \E i \in DOMAIN calls : ~Plain(calls[i])) =>
       /\ \A v \in Vehicle : ~SyncInProgress(v)
       /\ \A i \in DOMAIN calls : ~Plain(calls[i])

\* What is not supported is empty everywhere.
UnsupportedIsEmpty ==
  \A e \in Element : ~Supported(e) =>
    /\ \A v \in Vehicle : /\ transaction[v][e] = "None"
                          /\ managerItems[v][e] = "Empty" /\ vehiclePlan[v][e] = "Empty"
    /\ items["FlyView"][e] = "Empty"

\* What was asked for once is known since; what is about to be removed is empty.
RequestedIsKnown ==
  \A v \in Vehicle, e \in Element :
    /\ Supported(e) /\ e \in requested[v] => Knows(v, e)
    /\ transaction[v][e] = "RemoveAll" => managerItems[v][e] = "Empty"

\* The sequence that follows a mission: it was read for the first time, or is sent.
ReadGoesOn(v) ==
  "Fence" \notin requested[v] /\ (transaction[v]["Mission"] = "Read" \/ VehicleIsTold(v, "Mission"))
SendGoesOn(v, e) ==
  /\ managerVehicle["PlanView"] = v /\ NextElement[e] \in toSend["PlanView"]
  /\ transaction[v][e] = "Write" \/ Reports({"MasterSent"}, "PlanView", e)
MissionGoesOn(v) == ReadGoesOn(v) \/ SendGoesOn(v, "Mission")
FenceGoesOn(v) ==
  transaction[v]["Fence"] = "Read" \/ VehicleIsTold(v, "Fence") \/ SendGoesOn(v, "Fence")

\* Nothing was done yet.
Fresh(v) ==
  requested[v] = {} /\ managerItems[v]["Mission"] = "Empty" /\ transaction[v]["Mission"] = "None"

\* Fence and rally points of a vehicle that was asked for its plan are known, or the
\* sequence that transfers them is under way.
SequencesGoOn ==
  Undisturbed => \A v \in Vehicle :
    /\ Fresh(v) \/ Knows(v, "Fence") \/ MissionGoesOn(v)
    /\ Fresh(v) \/ Knows(v, "Rally") \/ MissionGoesOn(v) \/ FenceGoesOn(v)
    /\ Busy(v, "Fence") => Knows(v, "Rally") \/ FenceGoesOn(v)

FlyVehicle == managerVehicle["FlyView"]

\* The fly view shows what the manager has.
FlyShows(e) ==
  FlyVehicle \in Vehicle /\ planComplete[FlyVehicle] =>
    Busy(FlyVehicle, e) \/ FlyIsTold(e) \/ items["FlyView"][e] = managerItems[FlyVehicle][e]

\* The fly view follows its vehicle, and a view that is about to follow a vehicle that the
\* other one shows finds its plan complete or being transferred.
FlyFollows ==
  /\ FlyShows("Mission")
  /\ Undisturbed => FlyShows("Fence") /\ FlyShows("Rally")
  /\ Undisturbed /\ FlyVehicle \in Vehicle => planComplete[FlyVehicle]
  /\ FlyVehicle = activeVehicle /\ FlyVehicle \in Vehicle
       /\ managerVehicle["PlanView"] /= FlyVehicle =>
         planComplete[FlyVehicle] \/ SyncInProgress(FlyVehicle)

\* Transfers do not fail, and either nothing interrupts them or there is but one
\* element to transfer.
Smooth == ~regime.failing /\ (Undisturbed \/ regime.supported = {})

\* The inductive invariant
FlyInv ==
  /\ PlanTypeOK /\ VehiclesDiffer
  /\ Smooth => /\ FramesOK /\ Quiet /\ UnsupportedIsEmpty /\ RequestedIsKnown
               /\ SequencesGoOn /\ FlyFollows
-----------------------------------------------------------------------------
(* The order of the elements *)

LEMMA InSequence ==
  /\ \A e, f \in Element :
       Before(e, f) <=>
         <<e, f>> \in {<<"Mission", "Fence">>, <<"Mission", "Rally">>, <<"Fence", "Rally">>}
  /\ NextElement["Mission"] = "Fence" /\ NextElement["Fence"] = "Rally"
<1>1. NextElement["Mission"] = "Fence" /\ NextElement["Fence"] = "Rally"
  BY DEF NextElement
<1>2. /\ ElementSeq[1] = "Mission" /\ ElementSeq[2] = "Fence" /\ ElementSeq[3] = "Rally"
      /\ 1 .. 3 = {1, 2, 3}
  BY DEF ElementSeq
<1>3. ASSUME NEW e \in Element, NEW f \in Element
      PROVE  Before(e, f) <=>
               <<e, f>> \in {<<"Mission", "Fence">>, <<"Mission", "Rally">>, <<"Fence", "Rally">>}
  BY <1>2 DEF Before, Element
<1> QED
  BY <1>1, <1>3

\* The element that is transferred after e, and what is left to do then
LEMMA AfterMission ==
  /\ Supported("Fence") => Target("Mission") = "Fence" /\ Skipped("Mission") = {}
  /\ ~Supported("Fence") /\ Supported("Rally") =>
       Target("Mission") = "Rally" /\ Skipped("Mission") = {"Fence"}
  /\ ~Supported("Fence") /\ ~Supported("Rally") =>
       Target("Mission") = "None" /\ Skipped("Mission") = {"Fence", "Rally"}
<1> DEFINE later == {f \in Element : Before("Mission", f) /\ Supported(f)}
<1>1. later = {f \in {"Fence", "Rally"} : Supported(f)}
  BY InSequence DEF Element
<1>2. Target("Mission") = IF later = {} THEN "None"
                          ELSE CHOOSE f \in later : \A g \in later : ~Before(g, f)
  BY DEF Target
<1>3. ~Before("Fence", "Fence") /\ ~Before("Rally", "Fence") /\ ~Before("Rally", "Rally")
      /\ Before("Fence", "Rally")
  BY InSequence DEF Element
<1> HIDE DEF later
<1>4. /\ Supported("Fence") => Target("Mission") = "Fence"
      /\ ~Supported("Fence") /\ Supported("Rally") => Target("Mission") = "Rally"
      /\ ~Supported("Fence") /\ ~Supported("Rally") => Target("Mission") = "None"
  <2>1. CASE Supported("Fence")
    <3>1. "Fence" \in later /\ \A f \in later : f = "Fence" \/ f = "Rally"
      BY <1>1, <2>1
    <3>2. \A f \in later : (\A g \in later : ~Before(g, f)) <=> f = "Fence"
      BY <1>3, <3>1
    <3> QED
      BY <1>2, <2>1, <3>1, <3>2
  <2>2. CASE ~Supported("Fence") /\ Supported("Rally")
    <3>1. later = {"Rally"}
      BY <1>1, <2>2
    <3> QED
      BY <1>2, <1>3, <2>2, <3>1
  <2>3. CASE ~Supported("Fence") /\ ~Supported("Rally")
    <3>1. later = {}
      BY <1>1, <2>3
    <3> QED
      BY <1>2, <2>3, <3>1
  <2> QED
    BY <2>1, <2>2, <2>3
<1> QED
  BY <1>4, InSequence DEF Skipped, Element

LEMMA AfterFence ==
  /\ Supported("Rally") => Target("Fence") = "Rally" /\ Skipped("Fence") = {}
  /\ ~Supported("Rally") => Target("Fence") = "None" /\ Skipped("Fence") = {"Rally"}
<1> DEFINE later == {f \in Element : Before("Fence", f) /\ Supported(f)}
<1>1. later = IF Supported("Rally") THEN {"Rally"} ELSE {}
  BY InSequence DEF Element
<1>2. Target("Fence") = IF later = {} THEN "None"
                        ELSE CHOOSE f \in later : \A g \in later : ~Before(g, f)
  BY DEF Target
<1>3. ~Before("Rally", "Rally")
  BY InSequence DEF Element
<1> HIDE DEF later
<1>4. Target("Fence") = IF Supported("Rally") THEN "Rally" ELSE "None"
  BY <1>1, <1>2, <1>3
<1> QED
  BY <1>4, InSequence DEF Skipped, Element

LEMMA FlagsLeft ==
  ASSUME NEW flags \in SUBSET Element
  PROVE  /\ Supported("Fence") => FlagsAfter(flags, "Mission") = (flags \ {"Fence"}) \cup {"Rally"}
         /\ FlagsAfter(flags, "Fence") = flags \ {"Rally"}
         /\ \A e \in {"Mission", "Fence"} : FlagsAfter(flags, e) \in SUBSET Element
<1>1. /\ \A f \in Element : Before("Fence", f) <=> f = "Rally"
      /\ \A f \in Element : Before("Mission", f) <=> f \in {"Fence", "Rally"}
  BY InSequence DEF Element
<1>2. Target("Fence") /= "Fence"
  BY AfterFence
<1>3. FlagsAfter(flags, "Fence") = flags \ {"Rally"}
  BY <1>1, <1>2 DEF FlagsAfter
<1>4. Supported("Fence") => FlagsAfter(flags, "Mission") = (flags \ {"Fence"}) \cup {"Rally"}
  BY AfterMission DEF FlagsAfter
<1>5. FlagsAfter(flags, "Mission") \in SUBSET Element
  BY DEF FlagsAfter, Element
<1> QED
  BY <1>3, <1>4, <1>5

\* What comes next is a supported element after a mission or a fence.
LEMMA Targets ==
  ASSUME NEW e \in Element, NEW flags, IsNextIn(flags, e), Target(e) /= "None"
  PROVE  /\ e \in {"Mission", "Fence"} /\ Target(e) \in {"Fence", "Rally"} /\ Target(e) /= e
         /\ Supported(Target(e))
<1>1. e \in {"Mission", "Fence"}
  BY DEF IsNextIn, Element
<1> QED
  BY <1>1, AfterMission, AfterFence
-----------------------------------------------------------------------------
(* What calls hold *)

\* A slot that is called is taken from the calls.
LEMMA Pops ==
  ASSUME VehicleTypeOK, calls /= <<>>, Call(<<>>)
  PROVE  /\ calls' = Tail(calls) /\ Head(calls) = calls[1] /\ Head(calls) \in Frame
         /\ 1 \in DOMAIN calls
         /\ \A i \in DOMAIN calls' : i + 1 \in DOMAIN calls /\ calls'[i] = calls[i + 1] /\ i + 1 /= 1
         /\ \A i \in DOMAIN calls : i = 1 \/ (i - 1 \in DOMAIN calls' /\ calls'[i - 1] = calls[i])
<1>1. calls \in Seq(Frame) /\ calls' = Tail(calls)
  BY DEF VehicleTypeOK, Call
<1>2. \A i \in DOMAIN Tail(calls) : i + 1 /= 1
  BY <1>1
<1> QED
  BY <1>1, <1>2, Tails

LEMMA ReportsPop ==
  ASSUME VehicleTypeOK, calls /= <<>>, Call(<<>>)
  PROVE  /\ \A slots, c, e :
              Reports(slots, c, e) =>
                \/ Reports(slots, c, e)'
                \/ Head(calls).slot \in slots /\ Head(calls).controller = c /\ Head(calls).element = e
         /\ \A slots, c, e : Reports(slots, c, e)' => Reports(slots, c, e)
         /\ \A v, e : VehicleIsTold(v, e) =>
              \/ VehicleIsTold(v, e)'
              \/ /\ Head(calls).slot = "VehicleLoaded"
                 /\ Head(calls).vehicle = v /\ Head(calls).element = e
BY Pops DEF Reports, VehicleIsTold

\* Which fields a call has
LEMMA FrameFields ==
  ASSUME NEW f \in Frame
  PROVE  /\ f.slot = "VehicleLoaded" => f.vehicle \in Vehicle /\ f.element \in Element
         /\ f.slot = "ActiveVehicleChanged" =>
              f.controller \in View /\ f.vehicle \in Vehicle \cup {NoVehicle}
         /\ Reporting(f) => /\ f.controller \in View /\ f.element \in Element
                            /\ f.error \in BOOLEAN
         /\ Plain(f) <=> Reporting(f) \/ f.slot = "VehicleLoaded"
BY DEF Frame, SwitchFrame, FinishFrame, LoadedFrame, ReportFrame, ReportSlot, Plain, Switching,
   Finishing, Reporting

LEMMA NothingIsTold ==
  ASSUME calls = <<>>
  PROVE  /\ \A slots, c, e : ~Reports(slots, c, e)
         /\ \A v, e : ~VehicleIsTold(v, e)
         /\ DOMAIN calls = {}
BY DEF Reports, VehicleIsTold

\* A transaction is started if the manager is not busy.
LEMMA Started ==
  ASSUME PlanTypeOK, NEW v \in Vehicle, NEW e \in Element, NEW kind \in Transaction \ {"None"},
         Start(v, e, kind)
  PROVE  /\ transaction' \in [Vehicle -> [Element -> Transaction]]
         /\ \A u \in Vehicle, f \in Element :
              transaction'[u][f] = IF u = v /\ f = e /\ ~Busy(v, e) THEN kind ELSE transaction[u][f]
         /\ \A u \in Vehicle, f \in Element :
              Busy(u, f)' <=> Busy(u, f) \/ (u = v /\ f = e)
BY DEF PlanTypeOK, Start, Busy, Transaction

LEMMA WriteStarted ==
  ASSUME PlanTypeOK, NEW v \in Vehicle, NEW e \in Element, NEW list \in Content,
         StartWrite(v, e, list)
  PROVE  sendItems' \in [Vehicle -> Plan]
BY DEF PlanTypeOK, StartWrite, Plan

LEMMA ElementShown ==
  ASSUME PlanTypeOK, NEW c \in View, NEW e \in Element, managerVehicle[c] \in Vehicle,
         ShowElement(c, e)
  PROVE  /\ items' \in [View -> Plan] /\ itemsRequested' \in [View -> SUBSET Element]
         /\ \A d \in View, f \in Element :
              items'[d][f] = IF d = c /\ f = e /\ planComplete[managerVehicle[c]]
                                /\ ~Busy(managerVehicle[c], e)
                             THEN managerItems[managerVehicle[c]][e] ELSE items[d][f]
<1> DEFINE v == managerVehicle[c]
<1>1. v \in Vehicle /\ managerItems[v][e] \in Content /\ items \in [View -> Plan]
  BY DEF PlanTypeOK, Plan
<1>2. items' = IF ~planComplete[v] \/ Busy(v, e) THEN items
               ELSE [items EXCEPT ![c][e] = managerItems[v][e]]
  BY DEF ShowElement
<1>3. itemsRequested' \in [View -> SUBSET Element]
  BY DEF ShowElement, PlanTypeOK, Element
<1> HIDE DEF v
<1>4. items' \in [View -> Plan]
  BY <1>1, <1>2 DEF Plan
<1>5. \A d \in View, f \in Element :
        items'[d][f] = IF d = c /\ f = e /\ planComplete[v] /\ ~Busy(v, e)
                       THEN managerItems[v][e] ELSE items[d][f]
  BY <1>1, <1>2 DEF Plan
<1> QED
  BY <1>3, <1>4, <1>5 DEF v

\* A plan is shown up to the first element whose manager is busy.
LEMMA PlanShown ==
  ASSUME PlanTypeOK, NEW c \in View, NEW v \in Vehicle, ShowPlan(c, v)
  PROVE  /\ items' \in [View -> Plan] /\ itemsRequested' \in [View -> SUBSET Element]
         /\ planComplete' \in [Vehicle -> BOOLEAN]
         /\ \A u \in Vehicle :
              planComplete'[u] = IF u = v THEN planComplete[v] \/ ~SyncInProgress(v)
                                          ELSE planComplete[u]
         /\ \A d \in View \ {c} : items'[d] = items[d]
         /\ \A e \in Element : planComplete'[v] /\ (e = "Mission" \/ ~SyncInProgress(v)) =>
              Busy(v, e) \/ items'[c][e] = managerItems[v][e]
         /\ \A e \in Element : items'[c][e] \in {managerItems[v][e], items[c][e]}
<1> DEFINE complete == planComplete[v] \/ ~SyncInProgress(v)
           shown == {e \in Element : complete /\ ~Busy(v, e)
                                     /\ \A f \in Element : Before(f, e) => ~Busy(v, f)}
<1>1. /\ planComplete' = [planComplete EXCEPT ![v] = complete] /\ complete \in BOOLEAN
      /\ items' = [items EXCEPT ![c] =
                    [e \in Element |-> IF e \in shown THEN managerItems[v][e] ELSE @[e]]]
      /\ itemsRequested' = [itemsRequested EXCEPT ![c] =
           (@ \ shown) \cup (IF "Mission" \in shown THEN {"Fence"} \ shown ELSE {})]
  BY DEF ShowPlan, PlanTypeOK
<1>2. \A e \in Element : complete /\ (e = "Mission" \/ ~SyncInProgress(v)) => Busy(v, e) \/ e \in shown
  BY InSequence DEF SyncInProgress, Element
<1> HIDE DEF shown, complete
<1>3. /\ items \in [View -> Plan] /\ \A e \in Element : managerItems[v][e] \in Content
      /\ \A e \in Element : items[c][e] \in Content
  BY DEF PlanTypeOK, Plan
<1>4. items' \in [View -> Plan]
  BY <1>1, <1>3 DEF Plan
<1>5. /\ \A d \in View \ {c} : items'[d] = items[d]
      /\ \A e \in Element : items'[c][e] = IF e \in shown THEN managerItems[v][e] ELSE items[c][e]
  BY <1>1, <1>3
<1>6. itemsRequested' \in [View -> SUBSET Element]
  BY <1>1 DEF PlanTypeOK, Element
<1>7. /\ planComplete' \in [Vehicle -> BOOLEAN]
      /\ \A u \in Vehicle : planComplete'[u] = IF u = v THEN complete ELSE planComplete[u]
  BY <1>1 DEF PlanTypeOK
<1> QED
  BY <1>2, <1>4, <1>5, <1>6, <1>7 DEF complete
-----------------------------------------------------------------------------
(* Types *)

LEMMA ViewsAre == View = {"FlyView", "PlanView"} /\ "FlyView" \in View /\ "PlanView" \in View
BY ViewAssumption

\* One element of a plan is replaced.
LEMMA ElementSet ==
  ASSUME NEW A, NEW g \in [A -> Plan], NEW a \in A, NEW e \in Element, NEW x \in Content,
         NEW h, h = [g EXCEPT ![a][e] = x]
  PROVE  /\ h \in [A -> Plan]
         /\ \A u \in A, f \in Element : h[u][f] = IF u = a /\ f = e THEN x ELSE g[u][f]
BY DEF Plan

\* What RemoveAllFromVehicle does to the managers
LEMMA AllRemoved ==
  ASSUME PlanTypeOK, NEW c \in View, RemoveAllFromVehicle(c),
         managerVehicle[c] \in Vehicle \cup {NoVehicle}
  PROVE  LET v == managerVehicle[c]
             removed(e) == Supported(e) /\ ~Busy(v, e)
         IN /\ v \in Vehicle
            /\ transaction' \in [Vehicle -> [Element -> Transaction]]
            /\ managerItems' \in [Vehicle -> Plan]
            /\ \A u \in Vehicle, e \in Element :
                 /\ transaction'[u][e] =
                      IF u = v /\ removed(e) THEN "RemoveAll" ELSE transaction[u][e]
                 /\ managerItems'[u][e] =
                      IF u = v /\ removed(e) THEN "Empty" ELSE managerItems[u][e]
            /\ itemsRequested' \in [View -> SUBSET Element]
<1> DEFINE v == managerVehicle[c]
           removed == {e \in Element : Supported(e) /\ ~Busy(v, e)}
<1>1. /\ v /= NoVehicle
      /\ transaction' = [transaction EXCEPT ![v] =
                           [e \in Element |-> IF e \in removed THEN "RemoveAll" ELSE @[e]]]
      /\ managerItems' = [managerItems EXCEPT ![v] =
                           [e \in Element |-> IF e \in removed THEN "Empty" ELSE @[e]]]
      /\ itemsRequested' = [itemsRequested EXCEPT ![c] = @ \cup ({"Mission"} \cap removed)]
  BY DEF RemoveAllFromVehicle
<1>2. v \in Vehicle
  BY <1>1
<1> HIDE DEF v
<1>3. /\ transaction \in [Vehicle -> [Element -> Transaction]]
      /\ managerItems \in [Vehicle -> Plan] /\ itemsRequested \in [View -> SUBSET Element]
  BY DEF PlanTypeOK
<1>4. "RemoveAll" \in Transaction /\ "Empty" \in Content
  BY DEF Transaction, Content
<1>5. \A e \in Element : e \in removed <=> Supported(e) /\ ~Busy(v, e)
  OBVIOUS
<1> HIDE DEF removed
<1>6. transaction' \in [Vehicle -> [Element -> Transaction]]
  BY <1>1, <1>2, <1>3, <1>4
<1>7. managerItems' \in [Vehicle -> Plan]
  BY <1>1, <1>2, <1>3, <1>4 DEF Plan
<1>8. \A u \in Vehicle, e \in Element :
        /\ transaction'[u][e] = IF u = v /\ e \in removed THEN "RemoveAll" ELSE transaction[u][e]
        /\ managerItems'[u][e] = IF u = v /\ e \in removed THEN "Empty" ELSE managerItems[u][e]
  BY <1>1, <1>2, <1>3 DEF Plan
<1>9. itemsRequested' \in [View -> SUBSET Element]
  BY <1>1, <1>3 DEF Element
<1> QED
  BY <1>2, <1>5, <1>6, <1>7, <1>8, <1>9 DEF v

\* What the end of a transaction does to the managers
LEMMA TransactionEnded ==
  ASSUME PlanTypeOK, NEW v \in Vehicle, NEW e \in Element, TransactionEnds(v, e)
  PROVE  /\ transaction' \in [Vehicle -> [Element -> Transaction]]
         /\ managerItems' \in [Vehicle -> Plan] /\ vehiclePlan' \in [Vehicle -> Plan]
         /\ Busy(v, e)
         /\ \A u \in Vehicle, f \in Element :
              transaction'[u][f] = IF u = v /\ f = e THEN "None" ELSE transaction[u][f]
         /\ \A u \in Vehicle, f \in Element : u /= v \/ f /= e =>
              managerItems'[u][f] = managerItems[u][f] /\ vehiclePlan'[u][f] = vehiclePlan[u][f]
         /\ ~regime.failing /\ (transaction[v][e] = "RemoveAll" => managerItems[v][e] = "Empty") =>
              managerItems'[v][e] = vehiclePlan'[v][e]
<1>1. PICK ok \in BOOLEAN :
        /\ ~ok => regime.failing
        /\ ReadEnds(v, e, ok) \/ WriteEnds(v, e, ok) \/ RemoveAllEnds(v, e, ok)
  BY DEF TransactionEnds
<1>2. transaction' = [transaction EXCEPT ![v][e] = "None"] /\ "None" \in Transaction
  BY DEF TransactionEnds, Transaction
<1>3. /\ transaction \in [Vehicle -> [Element -> Transaction]]
      /\ managerItems \in [Vehicle -> Plan] /\ vehiclePlan \in [Vehicle -> Plan]
      /\ "Empty" \in Content /\ vehiclePlan[v][e] \in Content /\ sendItems[v][e] \in Content
  BY DEF PlanTypeOK, Plan, Content
<1>4. /\ transaction' \in [Vehicle -> [Element -> Transaction]]
      /\ \A u \in Vehicle, f \in Element :
           transaction'[u][f] = IF u = v /\ f = e THEN "None" ELSE transaction[u][f]
  BY <1>2, <1>3
<1>5. /\ Busy(v, e)
      /\ \/ managerItems' = managerItems
         \/ \E x \in Content : managerItems' = [managerItems EXCEPT ![v][e] = x]
      /\ \/ vehiclePlan' = vehiclePlan
         \/ \E x \in Content : vehiclePlan' = [vehiclePlan EXCEPT ![v][e] = x]
  BY <1>1, <1>3 DEF ReadEnds, WriteEnds, WriteFailed, RemoveAllEnds, Busy
<1>6. /\ managerItems' \in [Vehicle -> Plan]
      /\ \A u \in Vehicle, f \in Element : u /= v \/ f /= e => managerItems'[u][f] = managerItems[u][f]
  <2>1. CASE managerItems' = managerItems
    BY <1>3, <2>1
  <2>2. ASSUME NEW x \in Content, managerItems' = [managerItems EXCEPT ![v][e] = x]
        PROVE  /\ managerItems' \in [Vehicle -> Plan]
               /\ \A u \in Vehicle, f \in Element :
                    managerItems'[u][f] = IF u = v /\ f = e THEN x ELSE managerItems[u][f]
    <3>1. managerItems \in [Vehicle -> Plan] /\ x \in Content
      BY <1>3
    <3> QED
      BY <2>2, <3>1 DEF Plan
  <2> QED
    BY <1>5, <2>1, <2>2
<1>7. /\ vehiclePlan' \in [Vehicle -> Plan]
      /\ \A u \in Vehicle, f \in Element : u /= v \/ f /= e => vehiclePlan'[u][f] = vehiclePlan[u][f]
  <2>1. CASE vehiclePlan' = vehiclePlan
    BY <1>3, <2>1
  <2>2. ASSUME NEW x \in Content, vehiclePlan' = [vehiclePlan EXCEPT ![v][e] = x]
        PROVE  /\ vehiclePlan' \in [Vehicle -> Plan]
               /\ \A u \in Vehicle, f \in Element :
                    vehiclePlan'[u][f] = IF u = v /\ f = e THEN x ELSE vehiclePlan[u][f]
    <3>1. vehiclePlan \in [Vehicle -> Plan] /\ x \in Content
      BY <1>3
    <3> QED
      BY <2>2, <3>1 DEF Plan
  <2> QED
    BY <1>5, <2>1, <2>2
<1>8. ASSUME ~regime.failing, transaction[v][e] = "RemoveAll" => managerItems[v][e] = "Empty"
      PROVE  managerItems'[v][e] = vehiclePlan'[v][e]
  <2>1. ok = TRUE
    BY <1>1, <1>8
  <2>2. CASE ReadEnds(v, e, ok)
    BY <1>3, <2>1, <2>2 DEF ReadEnds, Plan
  <2>3. CASE WriteEnds(v, e, ok)
    BY <1>3, <2>1, <2>3 DEF WriteEnds, Plan
  <2>4. CASE RemoveAllEnds(v, e, ok)
    BY <1>3, <1>8, <2>1, <2>4 DEF RemoveAllEnds, Plan
  <2> QED
    BY <1>1, <2>2, <2>3, <2>4
<1> QED
  BY <1>4, <1>5, <1>6, <1>7, <1>8

LEMMA SlotTypes ==
  ASSUME VehicleTypeOK, CallsOK, PlanTypeOK,
         VehicleLoaded \/ Loaded \/ SentOrRemoved \/ MasterLoaded \/ MasterSent
  PROVE  PlanTypeOK'
<1> DEFINE f == Head(calls)
           c == f.controller
           e == f.element
           v == managerVehicle[c]
<1>1. calls /= <<>> /\ Call(<<>>)
  BY DEF VehicleLoaded, Loaded, SentOrRemoved, MasterLoaded, MasterSent, Called
<1>2. f = calls[1] /\ f \in Frame /\ 1 \in DOMAIN calls
  BY <1>1, Pops
<1>3. Reporting(f) => c \in View /\ e \in Element /\ v \in Vehicle
  BY <1>2, FrameFields DEF CallsOK
<1>4. CASE VehicleLoaded
  <2> DEFINE w == f.vehicle
  <2>1. w \in Vehicle /\ e \in Element
    BY <1>2, <1>4, FrameFields DEF VehicleLoaded, Called
  <2>2. /\ \/ e = "Mission" /\ MissionLoadComplete(w)
           \/ e = "Fence" /\ GeoFenceLoadComplete(w, requested[w])
           \/ e = "Rally" /\ RallyPointLoadComplete(w) /\ UNCHANGED requested
        /\ UNCHANGED <<managerItems, sendItems, vehiclePlan, viewVars>>
    BY <1>4 DEF VehicleLoaded
  <2> HIDE DEF f, e, w
  <2>3. /\ requested' = requested \/ \E S \in SUBSET Element : requested' = [requested EXCEPT ![w] = S]
        /\ planComplete' = planComplete \/ planComplete' = [planComplete EXCEPT ![w] = TRUE]
        /\ transaction' = transaction \/ Start(w, "Fence", "Read") \/ Start(w, "Rally", "Read")
    BY <2>1, <2>2 DEF MissionLoadComplete, GeoFenceLoadComplete, RallyPointLoadComplete, PlanTypeOK,
       Element
  <2>4. transaction' \in [Vehicle -> [Element -> Transaction]]
    BY <2>1, <2>3, Started DEF PlanTypeOK, Transaction, Element
  <2>5. requested' \in [Vehicle -> SUBSET Element] /\ planComplete' \in [Vehicle -> BOOLEAN]
    BY <2>1, <2>3 DEF PlanTypeOK
  <2> QED
    BY <2>2, <2>4, <2>5 DEF PlanTypeOK, viewVars
<1>5. CASE Loaded
  <2>1. c \in View /\ e \in Element /\ v \in Vehicle
    BY <1>3, <1>5 DEF Loaded, Called, Reporting, ReportSlot
  <2>2. /\ items' = items \/ items' = [items EXCEPT ![c][e] = managerItems[v][e]]
        /\ itemsRequested' = [itemsRequested EXCEPT ![c] = @ \ {e}]
        /\ UNCHANGED <<transaction, managerItems, sendItems, vehiclePlan, requested, planComplete,
                       toLoad, toSend>>
    BY <1>5 DEF Loaded, OnlyViewsChange
  <2> HIDE DEF f, c, e, v
  <2>3. managerItems[v][e] \in Content
    BY <2>1 DEF PlanTypeOK, Plan
  <2>4. items' \in [View -> Plan]
    <3>1. items \in [View -> Plan]
      BY DEF PlanTypeOK
    <3> QED
      BY <2>1, <2>2, <2>3, <3>1, ElementSet
  <2> QED
    BY <2>1, <2>2, <2>4 DEF PlanTypeOK
<1>6. CASE SentOrRemoved
  <2>1. c \in View /\ e \in Element /\ v \in Vehicle
    BY <1>3, <1>6 DEF SentOrRemoved, Called, Reporting, ReportSlot
  <2>2. /\ ShowElement(c, e) \/ UNCHANGED <<items, itemsRequested>>
        /\ UNCHANGED <<transaction, managerItems, sendItems, vehiclePlan, requested, planComplete,
                       toLoad, toSend>>
    BY <1>6 DEF SentOrRemoved, OnlyViewsChange
  <2> HIDE DEF f, c, e
  <2>3. items' \in [View -> Plan] /\ itemsRequested' \in [View -> SUBSET Element]
    BY <2>1, <2>2, ElementShown DEF PlanTypeOK
  <2> QED
    BY <2>2, <2>3 DEF PlanTypeOK
<1>7. CASE MasterLoaded
  <2>1. c \in View /\ e \in Element /\ v \in Vehicle
    BY <1>3, <1>7 DEF MasterLoaded, Called, Reporting, ReportSlot
  <2>2. /\ UNCHANGED <<managerItems, sendItems, vehiclePlan, requested, planComplete, toSend>>
        /\ \/ UNCHANGED <<transaction, items, itemsRequested, toLoad>>
           \/ /\ IsNextIn(toLoad[c], e)
              /\ toLoad' = [toLoad EXCEPT ![c] = FlagsAfter(@, e)]
              /\ items' = [items EXCEPT ![c] =
                             [g \in Element |-> IF g \in Skipped(e) THEN "Empty" ELSE @[g]]]
              /\ \/ /\ TargetIsIdle(v, e) /\ Start(v, Target(e), "Read")
                    /\ itemsRequested' = [itemsRequested EXCEPT ![c] = @ \cup {Target(e)}]
                 \/ UNCHANGED <<transaction, itemsRequested>>
    BY <1>7 DEF MasterLoaded, OnlyViewsChange
  <2> HIDE DEF f, c, e, v
  <2>3. CASE UNCHANGED <<transaction, items, itemsRequested, toLoad>>
    BY <2>2, <2>3 DEF PlanTypeOK
  <2>4. CASE /\ IsNextIn(toLoad[c], e)
             /\ toLoad' = [toLoad EXCEPT ![c] = FlagsAfter(@, e)]
             /\ items' = [items EXCEPT ![c] =
                            [g \in Element |-> IF g \in Skipped(e) THEN "Empty" ELSE @[g]]]
             /\ \/ /\ TargetIsIdle(v, e) /\ Start(v, Target(e), "Read")
                   /\ itemsRequested' = [itemsRequested EXCEPT ![c] = @ \cup {Target(e)}]
                \/ UNCHANGED <<transaction, itemsRequested>>
    <3>1. c /= "FlyView"
      BY <2>4 DEF IsNextIn, PlanTypeOK
    <3>2. FlagsAfter(toLoad[c], e) \in SUBSET Element
      BY <2>1, <2>4, FlagsLeft DEF IsNextIn, PlanTypeOK, Element
    <3>3. toLoad' \in [View -> SUBSET Element] /\ toLoad'["FlyView"] = {}
      BY <2>1, <2>4, <3>1, <3>2 DEF PlanTypeOK
    <3>4. items' \in [View -> Plan]
      <4>1. items \in [View -> Plan] /\ "Empty" \in Content
        BY DEF PlanTypeOK, Content
      <4> QED
        BY <2>1, <2>4, <4>1 DEF Plan
    <3>5. TargetIsIdle(v, e) => Target(e) \in Element
      BY <2>1, <2>4, Targets DEF TargetIsIdle, Element
    <3>6. itemsRequested' \in [View -> SUBSET Element]
      BY <2>1, <2>4, <3>5 DEF PlanTypeOK
    <3>7. transaction' \in [Vehicle -> [Element -> Transaction]]
      BY <2>1, <2>4, <3>5, Started DEF PlanTypeOK, Transaction
    <3> QED
      BY <2>2, <3>3, <3>4, <3>6, <3>7 DEF PlanTypeOK
  <2> QED
    BY <2>2, <2>3, <2>4
<1>8. CASE MasterSent
  <2>1. c \in View /\ e \in Element /\ v \in Vehicle
    BY <1>3, <1>8 DEF MasterSent, Called, Reporting, ReportSlot
  <2>2. /\ UNCHANGED <<managerItems, vehiclePlan, requested, planComplete, items, itemsRequested,
                       toLoad>>
        /\ \/ UNCHANGED <<transaction, sendItems, toSend>>
           \/ /\ IsNextIn(toSend[c], e)
              /\ toSend' = [toSend EXCEPT ![c] = FlagsAfter(@, e)]
              /\ \/ TargetIsIdle(v, e) /\ StartWrite(v, Target(e), items[c][Target(e)])
                 \/ UNCHANGED <<transaction, sendItems>>
    BY <1>8 DEF MasterSent, OnlyViewsChange
  <2> HIDE DEF f, c, e, v
  <2>3. CASE UNCHANGED <<transaction, sendItems, toSend>>
    BY <2>2, <2>3 DEF PlanTypeOK
  <2>4. CASE /\ IsNextIn(toSend[c], e)
             /\ toSend' = [toSend EXCEPT ![c] = FlagsAfter(@, e)]
             /\ \/ TargetIsIdle(v, e) /\ StartWrite(v, Target(e), items[c][Target(e)])
                \/ UNCHANGED <<transaction, sendItems>>
    <3>1. c /= "FlyView"
      BY <2>4 DEF IsNextIn, PlanTypeOK
    <3>2. FlagsAfter(toSend[c], e) \in SUBSET Element
      BY <2>1, <2>4, FlagsLeft DEF IsNextIn, PlanTypeOK, Element
    <3>3. toSend' \in [View -> SUBSET Element] /\ toSend'["FlyView"] = {}
      BY <2>1, <2>4, <3>1, <3>2 DEF PlanTypeOK
    <3>4. TargetIsIdle(v, e) => Target(e) \in Element
      BY <2>1, <2>4, Targets DEF TargetIsIdle, Element
    <3>5. transaction' \in [Vehicle -> [Element -> Transaction]] /\ sendItems' \in [Vehicle -> Plan]
      <4>1. CASE UNCHANGED <<transaction, sendItems>>
        BY <4>1 DEF PlanTypeOK
      <4>2. CASE TargetIsIdle(v, e) /\ StartWrite(v, Target(e), items[c][Target(e)])
        <5>1. Start(v, Target(e), "Write") /\ "Write" \in Transaction \ {"None"}
          BY <4>2 DEF StartWrite, Transaction
        <5>2. items[c][Target(e)] \in Content
          BY <2>1, <3>4, <4>2 DEF PlanTypeOK, Plan
        <5> QED
          BY <2>1, <3>4, <4>2, <5>1, <5>2, Started, WriteStarted
      <4> QED
        BY <2>4, <4>1, <4>2
    <3> QED
      BY <2>2, <3>3, <3>5 DEF PlanTypeOK
  <2> QED
    BY <2>2, <2>3, <2>4
<1> QED
  BY <1>4, <1>5, <1>6, <1>7, <1>8

LEMMA SwitchTypes ==
  ASSUME VehicleTypeOK, PlanTypeOK, ActiveVehicleChanged
  PROVE  PlanTypeOK'
<1> DEFINE c == Head(calls).controller
           v == Head(calls).vehicle
<1>1. c \in View /\ v \in Vehicle \cup {NoVehicle}
  <2>1. calls /= <<>> /\ Call(<<>>) /\ Head(calls).slot = "ActiveVehicleChanged"
    BY DEF ActiveVehicleChanged, Called
  <2> QED
    BY <2>1, Pops, FrameFields
<1>2. /\ UNCHANGED <<transaction, managerItems, sendItems, vehiclePlan, requested, toLoad, toSend>>
      /\ \/ UNCHANGED <<items, itemsRequested, planComplete>>
         \/ items' = [items EXCEPT ![c] = Nothing] /\ UNCHANGED <<itemsRequested, planComplete>>
         \/ v /= NoVehicle /\ ShowPlan(c, v)
  BY DEF ActiveVehicleChanged, OnlyViewsChange
<1> HIDE DEF c, v
<1>3. items' \in [View -> Plan] /\ itemsRequested' \in [View -> SUBSET Element]
      /\ planComplete' \in [Vehicle -> BOOLEAN]
  <2>1. CASE UNCHANGED <<items, itemsRequested, planComplete>>
    BY <2>1 DEF PlanTypeOK
  <2>2. CASE items' = [items EXCEPT ![c] = Nothing] /\ UNCHANGED <<itemsRequested, planComplete>>
    <3>1. Nothing \in Plan
      BY DEF Nothing, Plan, Content
    <3> QED
      BY <1>1, <2>2, <3>1 DEF PlanTypeOK
  <2>3. CASE v /= NoVehicle /\ ShowPlan(c, v)
    BY <1>1, <2>3, PlanShown
  <2> QED
    BY <1>2, <2>1, <2>2, <2>3
<1> QED
  BY <1>2, <1>3 DEF PlanTypeOK

LEMMA RequestTypes ==
  ASSUME PlanTypeOK, NEW v \in Vehicle, InitialRequest(v)
  PROVE  PlanTypeOK'
<1>1. /\ requested' = [requested EXCEPT ![v] = @ \cup {"Mission"}] /\ Start(v, "Mission", "Read")
      /\ UNCHANGED <<managerItems, sendItems, planComplete, vehiclePlan, viewVars>>
  BY DEF InitialRequest
<1>2. requested' \in [Vehicle -> SUBSET Element]
  BY <1>1 DEF PlanTypeOK, Element
<1>3. transaction' \in [Vehicle -> [Element -> Transaction]]
  BY <1>1, Started DEF Element, Transaction
<1> QED
  BY <1>1, <1>2, <1>3 DEF PlanTypeOK, viewVars

LEMMA UserTypes ==
  ASSUME VehicleTypeOK, PlanTypeOK,
         EditPlan \/ LoadFromVehicle \/ SendToVehicle \/ ResumeMission
           \/ \E c \in View : RemoveAllFromVehicle(c)
  PROVE  PlanTypeOK'
<1>0. UNCHANGED <<requested, planComplete, vehiclePlan, managerVehicle>>
  BY DEF EditPlan, LoadFromVehicle, SendToVehicle, ResumeMission, RemoveAllFromVehicle, May
<1>1. CASE EditPlan
  <2>1. PICK e \in Element : items' = [items EXCEPT !["PlanView"][e] = "Edited"]
    BY <1>1 DEF EditPlan
  <2>2. items \in [View -> Plan] /\ "Edited" \in Content /\ "PlanView" \in View
    BY ViewsAre DEF PlanTypeOK, Content
  <2>3. items' \in [View -> Plan]
    BY <2>1, <2>2 DEF Plan
  <2>4. UNCHANGED <<transaction, managerItems, sendItems, itemsRequested, toLoad, toSend>>
    BY <1>1 DEF EditPlan
  <2> QED
    BY <1>0, <2>3, <2>4 DEF PlanTypeOK
<1>2. CASE LoadFromVehicle
  <2> DEFINE v == managerVehicle["PlanView"]
  <2>1. /\ v /= NoVehicle
        /\ toLoad' = [toLoad EXCEPT !["PlanView"] = @ \cup {"Fence"}]
        /\ itemsRequested' = [itemsRequested EXCEPT !["PlanView"] = @ \cup {"Mission"}]
        /\ Start(v, "Mission", "Read") /\ UNCHANGED <<managerItems, sendItems, items, toSend>>
    BY <1>2 DEF LoadFromVehicle
  <2>2. v \in Vehicle
    BY <2>1, ViewsAre DEF VehicleTypeOK
  <2> HIDE DEF v
  <2>3. transaction' \in [Vehicle -> [Element -> Transaction]]
    BY <2>1, <2>2, Started DEF Element, Transaction
  <2>4. toLoad' \in [View -> SUBSET Element] /\ toLoad'["FlyView"] = {}
    BY <2>1, ViewsAre DEF PlanTypeOK, Element
  <2>5. itemsRequested' \in [View -> SUBSET Element]
    BY <2>1 DEF PlanTypeOK, Element
  <2> QED
    BY <1>0, <2>1, <2>3, <2>4, <2>5 DEF PlanTypeOK
<1>3. CASE SendToVehicle \/ ResumeMission
  <2>1. PICK c \in View, list \in Content :
          /\ managerVehicle[c] /= NoVehicle /\ StartWrite(managerVehicle[c], "Mission", list)
          /\ toSend' = toSend \/ toSend' = [toSend EXCEPT !["PlanView"] = @ \cup {"Fence"}]
          /\ UNCHANGED <<managerItems, items, itemsRequested, toLoad>>
    <3>1. items["PlanView"]["Mission"] \in Content /\ "Resumed" \in Content
      BY ViewsAre DEF PlanTypeOK, Plan, Content, Element
    <3> QED
      BY <1>3, <3>1, ViewsAre DEF SendToVehicle, ResumeMission
  <2>2. managerVehicle[c] \in Vehicle
    BY <2>1 DEF VehicleTypeOK
  <2>3. transaction' \in [Vehicle -> [Element -> Transaction]] /\ sendItems' \in [Vehicle -> Plan]
    <3>1. Start(managerVehicle[c], "Mission", "Write")
      BY <2>1 DEF StartWrite
    <3> QED
      BY <2>1, <2>2, <3>1, Started, WriteStarted DEF Element, Transaction
  <2>4. toSend' \in [View -> SUBSET Element] /\ toSend'["FlyView"] = {}
    BY <2>1, ViewsAre DEF PlanTypeOK, Element
  <2> QED
    BY <1>0, <2>1, <2>3, <2>4 DEF PlanTypeOK
<1>4. ASSUME NEW c \in View, RemoveAllFromVehicle(c)
      PROVE  PlanTypeOK'
  <2>1. UNCHANGED <<sendItems, items, toLoad, toSend>>
    BY <1>4 DEF RemoveAllFromVehicle
  <2>2. managerVehicle[c] \in Vehicle \cup {NoVehicle}
    BY DEF VehicleTypeOK
  <2>3. /\ transaction' \in [Vehicle -> [Element -> Transaction]]
        /\ managerItems' \in [Vehicle -> Plan] /\ itemsRequested' \in [View -> SUBSET Element]
    BY <1>4, <2>2, AllRemoved
  <2> QED
    BY <1>0, <2>1, <2>3 DEF PlanTypeOK
<1> QED
  BY <1>1, <1>2, <1>3, <1>4

LEMMA DeletedTypes ==
  ASSUME VehicleTypeOK, PlanTypeOK, ActiveExists, VehicleIsDeleted
  PROVE  /\ PlanTypeOK' /\ vehiclesBeingDeleted /= <<>> /\ Head(vehiclesBeingDeleted) \in Vehicle
         /\ vehiclesBeingDeleted' = Tail(vehiclesBeingDeleted) /\ UNCHANGED vehicles
         /\ \A u \in Vehicle : IF u = Head(vehiclesBeingDeleted)
              THEN /\ \A e \in Element : /\ transaction'[u][e] = "None"
                                         /\ managerItems'[u][e] = "Empty"
                   /\ requested'[u] = {}
              ELSE /\ transaction'[u] = transaction[u] /\ managerItems'[u] = managerItems[u]
                   /\ requested'[u] = requested[u] /\ planComplete'[u] = planComplete[u]
<1> DEFINE v == Head(vehiclesBeingDeleted)
<1>1. calls /= <<>> /\ Call(<<>>) /\ Head(calls).slot = "VehicleDeleted"
  BY DEF VehicleIsDeleted, Called, VehicleDeleted
<1>2. Deleting
  BY <1>1, Pops DEF Deleting
<1>3. vehiclesBeingDeleted \in Seq(Vehicle) /\ vehiclesBeingDeleted /= <<>> /\ v \in Vehicle
  BY <1>2, Tails DEF ActiveExists, VehicleTypeOK
<1>4. /\ transaction' = [transaction EXCEPT ![v] = [e \in Element |-> "None"]]
      /\ managerItems' = [managerItems EXCEPT ![v] = Nothing]
      /\ sendItems' = [sendItems EXCEPT ![v] = Nothing]
      /\ requested' = [requested EXCEPT ![v] = {}]
      /\ planComplete' = [planComplete EXCEPT ![v] = FALSE]
      /\ UNCHANGED <<vehiclePlan, viewVars, vehicles>>
      /\ vehiclesBeingDeleted' = Tail(vehiclesBeingDeleted)
  BY DEF VehicleIsDeleted, VehicleDeleted
<1>5. Nothing \in Plan /\ \A e \in Element : Nothing[e] = "Empty"
  BY DEF Nothing, Plan, Content
<1>6. "None" \in Transaction
  BY DEF Transaction
<1> HIDE DEF v
<1>7. transaction' \in [Vehicle -> [Element -> Transaction]]
  BY <1>3, <1>4, <1>6 DEF PlanTypeOK
<1>8. /\ managerItems' \in [Vehicle -> Plan] /\ sendItems' \in [Vehicle -> Plan]
      /\ requested' \in [Vehicle -> SUBSET Element] /\ planComplete' \in [Vehicle -> BOOLEAN]
  BY <1>3, <1>4, <1>5 DEF PlanTypeOK
<1>9. PlanTypeOK'
  BY <1>4, <1>7, <1>8 DEF PlanTypeOK, viewVars
<1>10. \A u \in Vehicle : IF u = v
         THEN /\ \A e \in Element : transaction'[u][e] = "None" /\ managerItems'[u][e] = "Empty"
              /\ requested'[u] = {}
         ELSE /\ transaction'[u] = transaction[u] /\ managerItems'[u] = managerItems[u]
              /\ requested'[u] = requested[u] /\ planComplete'[u] = planComplete[u]
  BY <1>3, <1>4, <1>5 DEF PlanTypeOK
<1> QED
  BY <1>3, <1>4, <1>9, <1>10 DEF v

LEMMA PlanTypes ==
  ASSUME VehicleInv, PlanTypeOK, [SyncNext]_syncVars
  PROVE  PlanTypeOK'
<1>0. VehicleTypeOK /\ CallsOK /\ ActiveExists
  BY DEF VehicleInv
<1>1. ASSUME NEW v \in Vehicle, NEW e \in Element, TransactionEnds(v, e)
      PROVE  PlanTypeOK'
  <2>1. UNCHANGED <<sendItems, requested, planComplete, viewVars>>
    BY <1>1 DEF TransactionEnds
  <2> QED
    BY <1>1, <2>1, TransactionEnded DEF PlanTypeOK, viewVars
<1>2. CASE \E v \in Vehicle : InitialRequest(v)
  BY <1>2, RequestTypes
<1>3. CASE VehicleLoaded \/ Loaded \/ SentOrRemoved \/ MasterLoaded \/ MasterSent
  BY <1>0, <1>3, SlotTypes
<1>4. CASE ActiveVehicleChanged
  BY <1>0, <1>4, SwitchTypes
<1>5. CASE VehicleIsDeleted
  BY <1>0, <1>5, DeletedTypes
<1>6. CASE EditPlan \/ LoadFromVehicle \/ SendToVehicle \/ ResumeMission
             \/ \E c \in View : RemoveAllFromVehicle(c)
  BY <1>0, <1>6, UserTypes
<1>7. CASE VehicleIsActivated \/ TimerFires \/ VehicleConnects \/ VehicleIsLost \/ UserSelects
             \/ UNCHANGED syncVars
  <2>1. /\ UNCHANGED <<transaction, managerItems, sendItems, requested, planComplete, vehiclePlan>>
        /\ UNCHANGED <<items, itemsRequested, toLoad, toSend>>
    BY <1>7 DEF VehicleIsActivated, TimerFires, VehicleConnects, VehicleIsLost, UserSelects, May,
       syncVars, vehiclePlanVars, viewVars
  <2> QED
    BY <2>1 DEF PlanTypeOK
<1> QED
  BY <1>1, <1>2, <1>3, <1>4, <1>5, <1>6, <1>7 DEF SyncNext, SlotIsCalled
-----------------------------------------------------------------------------
(* Vehicles differ *)

LEMMA RemovedDiffer ==
  ASSUME NEW S, NEW s \in Seq(S), NEW i \in DOMAIN s, NEW t, t = RemoveAt(s, i),
         \A j, k \in DOMAIN s : s[j] = s[k] => j = k
  PROVE  (\A j, k \in DOMAIN t : t[j] = t[k] => j = k) /\ s[i] \notin ToSet(t)
<1>1. /\ t \in Seq(S) /\ DOMAIN t = 1 .. Len(s) - 1 /\ DOMAIN s = 1 .. Len(s) /\ Len(s) \in Nat
      /\ \A k \in DOMAIN t : t[k] = IF k < i THEN s[k] ELSE s[k + 1]
  BY SMTT(60) DEF RemoveAt
<1>2. \A k \in DOMAIN t : k \in DOMAIN s /\ k + 1 \in DOMAIN s
  BY <1>1
<1>3. \A j, k \in DOMAIN t : t[j] = t[k] => j = k
  BY <1>1, <1>2
<1>4. \A k \in DOMAIN t : t[k] /= s[i]
  BY <1>1, <1>2
<1> QED
  BY <1>3, <1>4 DEF ToSet

LEMMA AppendedDiffer ==
  ASSUME NEW S, NEW s \in Seq(S), NEW x \in S, x \notin ToSet(s),
         \A j, k \in DOMAIN s : s[j] = s[k] => j = k
  PROVE  \A j, k \in DOMAIN Append(s, x) : Append(s, x)[j] = Append(s, x)[k] => j = k
<1>1. /\ DOMAIN Append(s, x) = 1 .. Len(s) + 1 /\ DOMAIN s = 1 .. Len(s) /\ Len(s) \in Nat
      /\ Append(s, x)[Len(s) + 1] = x
      /\ \A i \in DOMAIN s : Append(s, x)[i] = s[i] /\ s[i] /= x
  BY Appends DEF ToSet
<1> QED
  BY <1>1

LEMMA VehiclesStayDifferent ==
  ASSUME VehicleInv, regime \in Regime, VehiclesDiffer, [SyncNext]_syncVars
  PROVE  VehiclesDiffer'
<1>0. vehicles \in Seq(Vehicle) /\ vehiclesBeingDeleted \in Seq(Vehicle) /\ VehicleTypeOK /\ ActiveExists
  BY DEF VehicleInv, VehicleTypeOK
<1>1. CASE UNCHANGED <<vehicles, vehiclesBeingDeleted>>
  BY <1>1 DEF VehiclesDiffer, Connected
<1>2. CASE VehicleConnects
  <2>1. PICK v \in Vehicle : VehicleHeartbeatInfo(v)
    BY <1>2 DEF VehicleConnects, Regime
  <2>2. /\ v \notin Existing /\ vehicles' = Append(vehicles, v)
        /\ vehiclesBeingDeleted' = vehiclesBeingDeleted
    BY <2>1 DEF VehicleHeartbeatInfo
  <2>3. ToSet(vehicles') = ToSet(vehicles) \cup {v}
    BY <1>0, <2>2, AppendMembers
  <2> QED
    BY <1>0, <2>2, <2>3, AppendedDiffer DEF VehiclesDiffer, Existing, Connected
<1>3. CASE VehicleIsLost
  <2>1. PICK v \in Vehicle : DeleteVehiclePhase1(v)
    BY <1>3 DEF VehicleIsLost
  <2> DEFINE i == CHOOSE k \in DOMAIN vehicles : vehicles[k] = v
  <2>2. /\ v \in Connected /\ vehicles' = RemoveAt(vehicles, i)
        /\ vehiclesBeingDeleted' = Append(vehiclesBeingDeleted, v)
    BY <2>1 DEF DeleteVehiclePhase1
  <2>3. i \in DOMAIN vehicles /\ vehicles[i] = v
    BY <2>2 DEF Connected, ToSet
  <2> HIDE DEF i
  <2>4. /\ \A j, k \in DOMAIN vehicles' : vehicles'[j] = vehicles'[k] => j = k
        /\ v \notin ToSet(vehicles')
    BY <1>0, <2>2, <2>3, RemovedDiffer DEF VehiclesDiffer
  <2>5. ToSet(vehicles') \subseteq ToSet(vehicles)
    BY <1>0, <2>2, <2>3, RemovedMembers
  <2>6. ToSet(vehiclesBeingDeleted') = ToSet(vehiclesBeingDeleted) \cup {v}
    BY <1>0, <2>2, AppendMembers
  <2>7. v \notin ToSet(vehiclesBeingDeleted)
    BY <2>2 DEF VehiclesDiffer
  <2>8. \A j, k \in DOMAIN vehiclesBeingDeleted' :
          vehiclesBeingDeleted'[j] = vehiclesBeingDeleted'[k] => j = k
    BY <1>0, <2>2, <2>7, AppendedDiffer DEF VehiclesDiffer
  <2> QED
    BY <2>4, <2>5, <2>6, <2>8 DEF VehiclesDiffer, Connected
<1>4. CASE VehicleIsDeleted
  <2>1. /\ vehiclesBeingDeleted /= <<>> /\ vehiclesBeingDeleted' = Tail(vehiclesBeingDeleted)
        /\ vehicles' = vehicles
    <3>1. calls /= <<>> /\ Call(<<>>) /\ Head(calls).slot = "VehicleDeleted"
      BY <1>4 DEF VehicleIsDeleted, Called, VehicleDeleted
    <3>2. Deleting
      BY <1>0, <3>1, Pops DEF Deleting
    <3> QED
      BY <1>0, <1>4, <3>2 DEF VehicleIsDeleted, VehicleDeleted, ActiveExists
  <2>2. \A j, k \in DOMAIN vehiclesBeingDeleted' :
          vehiclesBeingDeleted'[j] = vehiclesBeingDeleted'[k] => j = k
    <3>1. \A j \in DOMAIN vehiclesBeingDeleted' : j \in Nat /\ j + 1 \in DOMAIN vehiclesBeingDeleted
            /\ vehiclesBeingDeleted'[j] = vehiclesBeingDeleted[j + 1]
      BY <1>0, <2>1
    <3> QED
      BY <3>1 DEF VehiclesDiffer
  <2>3. ToSet(vehiclesBeingDeleted') \subseteq ToSet(vehiclesBeingDeleted)
    BY <1>0, <2>1, TailMembers
  <2> QED
    BY <2>1, <2>2, <2>3 DEF VehiclesDiffer, Connected
<1> QED
  BY <1>1, <1>2, <1>3, <1>4 DEF SyncNext, syncVars, multiVehicleVars, SlotIsCalled, TransactionEnds,
     InitialRequest, VehicleLoaded, Loaded, SentOrRemoved, MasterLoaded, MasterSent,
     ActiveVehicleChanged, OnlyViewsChange, VehicleIsActivated, VehicleActivated, TimerFires,
     SetActiveVehiclePhase2, DeleteVehiclePhase2, UserSelects, SelectVehicle, EditPlan,
     LoadFromVehicle, SendToVehicle, ResumeMission, RemoveAllFromVehicle
-----------------------------------------------------------------------------
(* What a transaction that ends calls *)

LEMMA ConcatMembers ==
  ASSUME NEW S, NEW s \in Seq(S), NEW t \in Seq(S)
  PROVE  /\ s \o t \in Seq(S) /\ ToSet(s \o t) = ToSet(s) \cup ToSet(t)
         /\ s /= <<>> => 1 \in DOMAIN (s \o t) /\ (s \o t)[1] = s[1]
         /\ Len(s) = 1 => \A i \in DOMAIN (s \o t) : i = 1 \/ (s \o t)[i] \in ToSet(t)
<1> DEFINE u == s \o t
<1>1. /\ u \in Seq(S) /\ Len(u) = Len(s) + Len(t) /\ Len(s) \in Nat /\ Len(t) \in Nat
      /\ DOMAIN u = 1 .. Len(u) /\ DOMAIN s = 1 .. Len(s) /\ DOMAIN t = 1 .. Len(t)
      /\ \A i \in 1 .. Len(u) : u[i] = IF i <= Len(s) THEN s[i] ELSE t[i - Len(s)]
  OBVIOUS
<1>2. s /= <<>> => Len(s) > 0
  OBVIOUS
<1> HIDE DEF u
<1>3. \A i \in DOMAIN u : \/ i \in DOMAIN s /\ u[i] = s[i]
                          \/ i - Len(s) \in DOMAIN t /\ u[i] = t[i - Len(s)]
  BY <1>1
<1>4. \A i \in DOMAIN s : i \in DOMAIN u /\ u[i] = s[i]
  BY <1>1
<1>5. \A i \in DOMAIN t : i + Len(s) \in DOMAIN u /\ u[i + Len(s)] = t[i]
  <2> SUFFICES ASSUME NEW i \in DOMAIN t PROVE i + Len(s) \in DOMAIN u /\ u[i + Len(s)] = t[i]
    OBVIOUS
  <2>1. i \in Nat /\ i + Len(s) \in 1 .. Len(u) /\ ~(i + Len(s) <= Len(s)) /\ i + Len(s) - Len(s) = i
    BY <1>1
  <2> QED
    BY <1>1, <2>1
<1>6. ToSet(u) = ToSet(s) \cup ToSet(t)
  <2>1. \A i \in DOMAIN u : u[i] \in ToSet(s) \cup ToSet(t)
    BY <1>3 DEF ToSet
  <2>2. \A i \in DOMAIN s : s[i] \in ToSet(u)
    BY <1>4 DEF ToSet
  <2>3. \A i \in DOMAIN t : t[i] \in ToSet(u)
    BY <1>5 DEF ToSet
  <2> QED
    BY <2>1, <2>2, <2>3 DEF ToSet
<1>7. Len(s) = 1 => \A i \in DOMAIN u : i = 1 \/ u[i] \in ToSet(t)
  BY <1>1, <1>3 DEF ToSet
<1>8. s /= <<>> => 1 \in DOMAIN u /\ u[1] = s[1]
  BY <1>1, <1>2, <1>4
<1> QED
  BY <1>1, <1>6, <1>7, <1>8 DEF u

\* The slot of a view that is told that a transfer succeeded
Told(slot, c, e) == [slot |-> slot, controller |-> c, element |-> e, error |-> FALSE]
ToldFrame(e) == [slot : ReportSlot, controller : View, element : {e}, error : {FALSE}]

LEMMA SlotsAre ==
  ASSUME NEW c \in View, NEW v \in Vehicle, NEW e \in Element, NEW slots \in Seq(ReportSlot)
  PROVE  /\ SlotsOf(c, v, e, slots, FALSE) \in Seq(ToldFrame(e))
         /\ managerVehicle[c] = v => \A j \in DOMAIN slots :
              Told(slots[j], c, e) \in ToSet(SlotsOf(c, v, e, slots, FALSE))
<1>1. CASE managerVehicle[c] /= v
  BY <1>1 DEF SlotsOf
<1>2. CASE managerVehicle[c] = v
  <2> DEFINE s == [j \in DOMAIN slots |-> Told(slots[j], c, e)]
  <2>1. DOMAIN slots = 1 .. Len(slots) /\ Len(slots) \in Nat /\ \A j \in DOMAIN slots : slots[j] \in ReportSlot
    OBVIOUS
  <2>2. \A j \in DOMAIN slots : s[j] \in ToldFrame(e)
    BY <2>1 DEF ToldFrame, Told
  <2>3. s \in [1 .. Len(slots) -> ToldFrame(e)]
    BY <2>1, <2>2
  <2>4. s \in Seq(ToldFrame(e))
    BY <2>1, <2>3
  <2>5. \A j \in DOMAIN slots : Told(slots[j], c, e) \in ToSet(s)
    BY DEF ToSet
  <2> QED
    BY <1>2, <2>4, <2>5 DEF SlotsOf, Told
<1> QED
  BY <1>1, <1>2

LEMMA SlotsToCall ==
  ASSUME NEW v \in Vehicle, NEW e \in Element, NEW slots \in Seq(ReportSlot)
  PROVE  /\ ViewSlots(v, e, slots, FALSE) \in Seq(ToldFrame(e))
         /\ \A c \in View : managerVehicle[c] = v => \A j \in DOMAIN slots :
              Told(slots[j], c, e) \in ToSet(ViewSlots(v, e, slots, FALSE))
<1> DEFINE s1 == SlotsOf(Controllers[1], v, e, slots, FALSE)
           s2 == SlotsOf(Controllers[2], v, e, slots, FALSE)
<1>1. /\ Controllers[1] \in View /\ Controllers[2] \in View
      /\ \A c \in View : c = Controllers[1] \/ c = Controllers[2]
  BY ViewAssumption DEF View, ToSet
<1>2. /\ s1 \in Seq(ToldFrame(e)) /\ s2 \in Seq(ToldFrame(e))
      /\ \A c \in View : managerVehicle[c] = v => \A j \in DOMAIN slots :
           Told(slots[j], c, e) \in ToSet(s1) \cup ToSet(s2)
  BY <1>1, SlotsAre
<1>3. ViewSlots(v, e, slots, FALSE) = s1 \o s2
  BY DEF ViewSlots
<1> HIDE DEF s1, s2
<1>4. s1 \o s2 \in Seq(ToldFrame(e)) /\ ToSet(s1 \o s2) = ToSet(s1) \cup ToSet(s2)
  BY <1>2, ConcatMembers
<1> QED
  BY <1>2, <1>3, <1>4

LEMMA ToldFrames ==
  ASSUME NEW e \in Element, NEW f \in ToldFrame(e)
  PROVE  /\ Plain(f) /\ Reporting(f) /\ ~f.error /\ f.slot /= "VehicleLoaded"
BY DEF ToldFrame, Plain, Switching, Finishing, Reporting, ReportSlot

LEMMA ToldIsReported ==
  ASSUME NEW e \in Element, NEW c \in View, NEW slots, NEW slot \in slots,
         Told(slot, c, e) \in ToSet(calls)'
  PROVE  Reports(slots, c, e)'
<1>1. PICK i \in DOMAIN calls' : calls'[i] = Told(slot, c, e)
  BY DEF ToSet
<1> QED
  BY <1>1 DEF Reports, Told

\* Everybody who is connected to the manager is told, the vehicle first.
LEMMA EndReports ==
  ASSUME ~regime.failing, NEW v \in Vehicle, NEW e \in Element, TransactionEnds(v, e)
  PROVE  /\ Idle /\ v \in Existing
         /\ \A i \in DOMAIN calls' :
              /\ Plain(calls'[i])
              /\ Reporting(calls'[i]) => ~calls'[i].error
              /\ calls'[i].slot = "VehicleLoaded" =>
                   i = 1 /\ calls'[i].vehicle = v /\ calls'[i].element = e
         /\ managerVehicle["FlyView"] = v => FlyIsTold(e)'
         /\ transaction[v][e] = "Read" => VehicleIsTold(v, e)'
         /\ transaction[v][e] = "Write" /\ managerVehicle["PlanView"] = v =>
              Reports({"MasterSent"}, "PlanView", e)'
<1>1. \/ ReadEnds(v, e, TRUE) \/ WriteEnds(v, e, TRUE) \/ RemoveAllEnds(v, e, TRUE)
  BY DEF TransactionEnds
<1>2. Idle /\ v \in Existing
  BY DEF TransactionEnds
<1>3. CASE ReadEnds(v, e, TRUE)
  <2> DEFINE s == ViewSlots(v, e, <<"MasterLoaded", "Loaded">>, FALSE)
             loaded == [slot |-> "VehicleLoaded", vehicle |-> v, element |-> e]
             first == <<loaded>>
             T == ToldFrame(e) \cup {loaded}
  <2>1. <<"MasterLoaded", "Loaded">> \in Seq(ReportSlot) /\ 2 \in DOMAIN <<"MasterLoaded", "Loaded">>
    BY DEF ReportSlot
  <2>2. calls' = first \o s /\ transaction[v][e] = "Read"
    BY <1>3 DEF ReadEnds
  <2>3. /\ s \in Seq(ToldFrame(e))
        /\ \A c \in View : managerVehicle[c] = v => Told("Loaded", c, e) \in ToSet(s)
    BY <2>1, SlotsToCall
  <2>4. /\ loaded.slot = "VehicleLoaded" /\ loaded.vehicle = v /\ loaded.element = e
        /\ ~Reporting(loaded) /\ Plain(loaded)
    BY DEF Reporting, ReportSlot, Plain, Switching, Finishing
  <2>5. ToldFrame(e) \subseteq T
    OBVIOUS
  <2>6. first \in Seq(T) /\ first /= <<>> /\ first[1] = loaded /\ Len(first) = 1
    OBVIOUS
  <2> HIDE DEF s, loaded, first, T
  <2>7. s \in Seq(T)
    BY <2>3, <2>5
  <2>8. /\ 1 \in DOMAIN calls' /\ calls'[1] = loaded /\ ToSet(s) \subseteq ToSet(calls)'
        /\ \A i \in DOMAIN calls' : i = 1 \/ calls'[i] \in ToSet(s)
    BY <2>2, <2>6, <2>7, ConcatMembers
  <2>9. \A i \in DOMAIN calls' : i = 1 \/ calls'[i] \in ToldFrame(e)
    BY <2>3, <2>8, MembersType
  <2>10. VehicleIsTold(v, e)'
    BY <2>4, <2>8 DEF VehicleIsTold
  <2>11. managerVehicle["FlyView"] = v => FlyIsTold(e)'
    BY <2>3, <2>8, ViewsAre, ToldIsReported DEF FlyIsTold
  <2>12. \A i \in DOMAIN calls' :
           /\ Plain(calls'[i])
           /\ Reporting(calls'[i]) => ~calls'[i].error
           /\ calls'[i].slot = "VehicleLoaded" =>
                i = 1 /\ calls'[i].vehicle = v /\ calls'[i].element = e
    BY <2>4, <2>8, <2>9, ToldFrames
  <2> QED
    BY <1>2, <2>2, <2>10, <2>11, <2>12
<1>4. CASE WriteEnds(v, e, TRUE)
  <2>1. /\ <<"MasterSent", "Sent">> \in Seq(ReportSlot)
        /\ 1 \in DOMAIN <<"MasterSent", "Sent">> /\ 2 \in DOMAIN <<"MasterSent", "Sent">>
    BY DEF ReportSlot
  <2>2. calls' = ViewSlots(v, e, <<"MasterSent", "Sent">>, FALSE) /\ transaction[v][e] = "Write"
    BY <1>4 DEF WriteEnds
  <2>3. /\ calls' \in Seq(ToldFrame(e))
        /\ \A c \in View : managerVehicle[c] = v =>
             Told("MasterSent", c, e) \in ToSet(calls)' /\ Told("Sent", c, e) \in ToSet(calls)'
    BY <2>1, <2>2, SlotsToCall
  <2>4. /\ managerVehicle["FlyView"] = v => FlyIsTold(e)'
        /\ managerVehicle["PlanView"] = v => Reports({"MasterSent"}, "PlanView", e)'
    BY <2>3, ViewsAre, ToldIsReported DEF FlyIsTold
  <2>5. \A i \in DOMAIN calls' : calls'[i] \in ToldFrame(e)
    BY <2>3
  <2> QED
    BY <1>2, <2>2, <2>4, <2>5, ToldFrames
<1>5. CASE RemoveAllEnds(v, e, TRUE)
  <2>1. <<"Removed">> \in Seq(ReportSlot) /\ 1 \in DOMAIN <<"Removed">>
    BY DEF ReportSlot
  <2>2. calls' = ViewSlots(v, e, <<"Removed">>, FALSE) /\ transaction[v][e] = "RemoveAll"
    BY <1>5 DEF RemoveAllEnds
  <2>3. /\ calls' \in Seq(ToldFrame(e))
        /\ \A c \in View : managerVehicle[c] = v => Told("Removed", c, e) \in ToSet(calls)'
    BY <2>1, <2>2, SlotsToCall
  <2>4. managerVehicle["FlyView"] = v => FlyIsTold(e)'
    BY <2>3, ViewsAre, ToldIsReported DEF FlyIsTold
  <2>5. \A i \in DOMAIN calls' : calls'[i] \in ToldFrame(e)
    BY <2>3
  <2> QED
    BY <1>2, <2>2, <2>4, <2>5, ToldFrames
<1> QED
  BY <1>1, <1>3, <1>4, <1>5
-----------------------------------------------------------------------------
(* Where handlers are *)

\* The views differ only in the middle of a switch.
LEMMA ViewsEqual ==
  ASSUME VehicleInv, FramesOK, Idle \/ ~Switching(Head(calls))
  PROVE  /\ \A c \in View : managerVehicle[c] = activeVehicle
         /\ managerVehicle["PlanView"] = managerVehicle["FlyView"]
         /\ activeVehicle \in Vehicle => activeVehicle \in Existing
<1>1. ASSUME Idle PROVE \A c \in View : managerVehicle[c] = activeVehicle
  BY <1>1, WhenIdle
<1>2. ASSUME calls /= <<>>, ~Switching(Head(calls))
      PROVE  \A c \in View : managerVehicle[c] = activeVehicle
  <2>1. calls \in Seq(Frame) /\ Head(calls) = calls[1] /\ 1 \in DOMAIN calls /\ Head(calls) \in Frame
    BY <1>2, Tails DEF VehicleInv, VehicleTypeOK
  <2>2. CASE Finishing(Head(calls))
    <3>1. Len(calls) = 1
      BY <2>1, <2>2 DEF VehicleInv, CallsOK
    <3>2. \A j \in DOMAIN calls : j = 1
      BY <2>1, <3>1
    <3> QED
      BY <1>2, <2>1, <3>2 DEF VehicleInv, ViewsAreTold
  <2>3. CASE Reporting(Head(calls)) \/ Head(calls).slot = "VehicleLoaded"
    <3>1. \A j \in DOMAIN calls : ~Switching(calls[j])
      BY <2>1, <2>3 DEF VehicleInv, CallsOK, FramesOK
    <3> QED
      BY <3>1 DEF VehicleInv, ViewsAreTold
  <2> QED
    BY <1>2, <2>1, <2>2, <2>3, FrameFields DEF Plain
<1>3. activeVehicle \in Vehicle => activeVehicle \in Existing
  BY VehicleAssumption DEF VehicleInv, ActiveExists
<1> QED
  BY <1>1, <1>2, <1>3, ViewsAre DEF Idle
-----------------------------------------------------------------------------
(* What steps leave under way *)

\* Transactions go on, and what is started is supported, of a vehicle that exists, and
\* all that a request asks for.
Continues ==
  /\ UNCHANGED vehiclePlan
  /\ \A u \in Vehicle, f \in Element :
       /\ Busy(u, f) => transaction'[u][f] = transaction[u][f]
       /\ transaction'[u][f] /= transaction[u][f] => u \in Existing /\ Supported(f)
       /\ managerItems'[u][f] /= managerItems[u][f] => Supported(f) /\ Busy(u, f)'
       /\ transaction'[u][f] = "RemoveAll" =>
            \/ managerItems'[u][f] = "Empty"
            \/ transaction[u][f] = "RemoveAll" /\ managerItems'[u][f] = managerItems[u][f]
       /\ f \in requested'[u] /\ Supported(f) => f \in requested[u] \/ Busy(u, f)'

LEMMA NothingStarts ==
  ASSUME UNCHANGED <<transaction, managerItems, vehiclePlan, requested>>
  PROVE  Continues
BY DEF Continues

LEMMA OneStarts ==
  ASSUME PlanTypeOK, NEW v \in Vehicle, NEW e \in Element, NEW kind \in {"Read", "Write"},
         Start(v, e, kind), v \in Existing, Supported(e), UNCHANGED <<managerItems, vehiclePlan>>,
         \A u \in Vehicle, f \in Element : f \in requested'[u] /\ Supported(f) =>
           f \in requested[u] \/ (u = v /\ f = e)
  PROVE  Continues
<1>1. kind \in Transaction \ {"None"} /\ kind /= "RemoveAll"
  BY DEF Transaction
<1>2. /\ \A u \in Vehicle, f \in Element :
           transaction'[u][f] = IF u = v /\ f = e /\ ~Busy(v, e) THEN kind ELSE transaction[u][f]
      /\ \A u \in Vehicle, f \in Element : Busy(u, f)' <=> Busy(u, f) \/ (u = v /\ f = e)
  BY <1>1, Started
<1> QED
  BY <1>1, <1>2 DEF Continues

LEMMA AllRemovedContinues ==
  ASSUME PlanTypeOK, NEW c \in View, RemoveAllFromVehicle(c),
         managerVehicle[c] \in Existing, managerVehicle[c] \in Vehicle
  PROVE  Continues
<1>1. UNCHANGED <<vehiclePlan, requested>>
  BY DEF RemoveAllFromVehicle, May
<1>2. \A u \in Vehicle, f \in Element :
        /\ transaction'[u][f] = IF u = managerVehicle[c] /\ Supported(f) /\ ~Busy(managerVehicle[c], f)
                                THEN "RemoveAll" ELSE transaction[u][f]
        /\ managerItems'[u][f] = IF u = managerVehicle[c] /\ Supported(f) /\ ~Busy(managerVehicle[c], f)
                                 THEN "Empty" ELSE managerItems[u][f]
  BY AllRemoved
<1> QED
  BY <1>1, <1>2 DEF Continues, Busy

\* What the vehicle does when it is told that an element was read
LEMMA LoadedByVehicle ==
  ASSUME VehicleTypeOK, PlanTypeOK, VehicleLoaded,
         NEW v, v = Head(calls).vehicle, NEW e, e = Head(calls).element
  PROVE  /\ calls /= <<>> /\ Call(<<>>) /\ v \in Vehicle /\ e \in Element
         /\ UNCHANGED <<vehicles, activeVehicle, vehiclesBeingDeleted, timers, regime,
                        managerItems, vehiclePlan, managerVehicle, items, toLoad, toSend>>
         /\ \A u \in Vehicle \ {v} : /\ transaction'[u] = transaction[u]
                                     /\ requested'[u] = requested[u]
                                     /\ planComplete'[u] = planComplete[u]
         /\ \A f \in Element :
              \/ transaction'[v][f] = transaction[v][f]
              \/ ~Busy(v, f) /\ Supported(f) /\ f /= "Mission" /\ transaction'[v][f] = "Read"
         /\ \A f \in Element : f \in requested'[v] /\ Supported(f) =>
              f \in requested[v] \/ transaction'[v][f] /= "None"
         /\ planComplete[v] => planComplete'[v]
         /\ e = "Mission" /\ "Fence" \in requested[v] => UNCHANGED <<transaction, requested>>
         /\ e = "Mission" /\ "Fence" \notin requested[v] /\ Supported("Fence") =>
              transaction'[v]["Fence"] /= "None" /\ transaction'[v]["Rally"] = transaction[v]["Rally"]
         /\ e = "Mission" /\ "Fence" \notin requested[v] /\ ~Supported("Fence") =>
              "Rally" \in requested[v] \/ ~Supported("Rally") \/ transaction'[v]["Rally"] /= "None"
         /\ e = "Fence" =>
              "Rally" \in requested[v] \/ ~Supported("Rally") \/ transaction'[v]["Rally"] /= "None"
         /\ e = "Fence" => transaction'[v]["Fence"] = transaction[v]["Fence"]
         /\ e = "Rally" => UNCHANGED <<transaction, requested>>
<1>1. /\ calls /= <<>> /\ Call(<<>>) /\ Head(calls).slot = "VehicleLoaded"
      /\ UNCHANGED <<vehicles, activeVehicle, vehiclesBeingDeleted, timers, regime,
                     managerItems, vehiclePlan, managerVehicle, items, toLoad, toSend>>
      /\ \/ e = "Mission" /\ MissionLoadComplete(v)
         \/ e = "Fence" /\ GeoFenceLoadComplete(v, requested[v])
         \/ e = "Rally" /\ RallyPointLoadComplete(v) /\ UNCHANGED requested
  BY DEF VehicleLoaded, Called, viewVars
<1>2. v \in Vehicle /\ e \in Element
  BY <1>1, Pops, FrameFields
<1>3. /\ transaction \in [Vehicle -> [Element -> Transaction]]
      /\ requested \in [Vehicle -> SUBSET Element] /\ planComplete \in [Vehicle -> BOOLEAN]
      /\ "Fence" \in Element /\ "Rally" \in Element /\ "Mission" \in Element
      /\ "Read" \in Transaction \ {"None"}
  BY DEF PlanTypeOK, Element, Transaction
<1>4. \/ e = "Mission" /\ "Fence" \in requested[v] /\ UNCHANGED <<requested, planComplete, transaction>>
      \/ /\ e = "Mission" /\ "Fence" \notin requested[v] /\ Supported("Fence")
         /\ requested' = [requested EXCEPT ![v] = requested[v] \cup {"Fence"}]
         /\ Start(v, "Fence", "Read") /\ UNCHANGED planComplete
      \/ \E flags \in {requested[v], requested[v] \cup {"Fence"}} :
           /\ flags = IF e = "Mission" THEN requested[v] \cup {"Fence"} ELSE requested[v]
           /\ e = "Fence" \/ (e = "Mission" /\ "Fence" \notin requested[v] /\ ~Supported("Fence"))
           /\ GeoFenceLoadComplete(v, flags)
      \/ e = "Rally" /\ RallyPointLoadComplete(v) /\ UNCHANGED requested
  BY <1>1 DEF MissionLoadComplete
<1> DEFINE Goal ==
     /\ \A u \in Vehicle \ {v} : /\ transaction'[u] = transaction[u]
                                 /\ requested'[u] = requested[u]
                                 /\ planComplete'[u] = planComplete[u]
     /\ \A f \in Element :
          \/ transaction'[v][f] = transaction[v][f]
          \/ ~Busy(v, f) /\ Supported(f) /\ f /= "Mission" /\ transaction'[v][f] = "Read"
     /\ \A f \in Element : f \in requested'[v] /\ Supported(f) =>
          f \in requested[v] \/ transaction'[v][f] /= "None"
     /\ planComplete[v] => planComplete'[v]
     /\ e = "Mission" /\ "Fence" \in requested[v] => UNCHANGED <<transaction, requested>>
     /\ e = "Mission" /\ "Fence" \notin requested[v] /\ Supported("Fence") =>
          transaction'[v]["Fence"] /= "None" /\ transaction'[v]["Rally"] = transaction[v]["Rally"]
     /\ e = "Mission" /\ "Fence" \notin requested[v] /\ ~Supported("Fence") =>
          "Rally" \in requested[v] \/ ~Supported("Rally") \/ transaction'[v]["Rally"] /= "None"
     /\ e = "Fence" =>
          "Rally" \in requested[v] \/ ~Supported("Rally") \/ transaction'[v]["Rally"] /= "None"
     /\ e = "Fence" => transaction'[v]["Fence"] = transaction[v]["Fence"]
     /\ e = "Rally" => UNCHANGED <<transaction, requested>>
<1>5. ASSUME e = "Mission", "Fence" \in requested[v], UNCHANGED <<requested, planComplete, transaction>>
      PROVE  Goal
  BY <1>5
<1>6. ASSUME e = "Mission", "Fence" \notin requested[v], Supported("Fence"),
             requested' = [requested EXCEPT ![v] = requested[v] \cup {"Fence"}],
             Start(v, "Fence", "Read"), UNCHANGED planComplete
      PROVE  Goal
  <2>1. /\ transaction' = IF Busy(v, "Fence") THEN transaction
                          ELSE [transaction EXCEPT ![v]["Fence"] = "Read"]
        /\ transaction'[v]["Fence"] /= "None"
    BY <1>2, <1>3, <1>6, Started DEF Start, Busy
  <2>2. \A u \in Vehicle \ {v} : transaction'[u] = transaction[u]
    BY <1>2, <1>3, <2>1
  <2>3. \A f \in Element :
          \/ transaction'[v][f] = transaction[v][f]
          \/ ~Busy(v, f) /\ f = "Fence" /\ transaction'[v][f] = "Read"
    BY <1>2, <1>3, <2>1
  <2>4. /\ \A u \in Vehicle \ {v} : requested'[u] = requested[u]
        /\ requested'[v] = requested[v] \cup {"Fence"}
    BY <1>2, <1>3, <1>6
  <2> QED
    BY <1>3, <1>6, <2>1, <2>2, <2>3, <2>4
<1>7. ASSUME NEW flags \in {requested[v], requested[v] \cup {"Fence"}},
             flags = IF e = "Mission" THEN requested[v] \cup {"Fence"} ELSE requested[v],
             e = "Fence" \/ (e = "Mission" /\ "Fence" \notin requested[v] /\ ~Supported("Fence")),
             GeoFenceLoadComplete(v, flags)
      PROVE  Goal
  <2>1. CASE "Rally" \in requested[v]
    <3>1. requested' = [requested EXCEPT ![v] = flags] /\ UNCHANGED <<planComplete, transaction>>
      BY <1>7, <2>1 DEF GeoFenceLoadComplete
    <3>2. /\ \A u \in Vehicle \ {v} : requested'[u] = requested[u]
          /\ requested'[v] = flags
      BY <1>2, <1>3, <3>1
    <3> QED
      BY <1>7, <2>1, <3>1, <3>2
  <2>2. CASE "Rally" \notin requested[v] /\ Supported("Rally")
    <3>1. /\ requested' = [requested EXCEPT ![v] = flags \cup {"Rally"}]
          /\ Start(v, "Rally", "Read") /\ UNCHANGED planComplete
      BY <1>7, <2>2 DEF GeoFenceLoadComplete
    <3>2. /\ transaction' = IF Busy(v, "Rally") THEN transaction
                            ELSE [transaction EXCEPT ![v]["Rally"] = "Read"]
          /\ transaction'[v]["Rally"] /= "None"
      BY <1>2, <1>3, <3>1, Started DEF Start, Busy
    <3>3. \A u \in Vehicle \ {v} : transaction'[u] = transaction[u]
      BY <1>2, <1>3, <3>2
    <3>4. \A f \in Element :
            \/ transaction'[v][f] = transaction[v][f]
            \/ ~Busy(v, f) /\ f = "Rally" /\ transaction'[v][f] = "Read"
      BY <1>2, <1>3, <3>2
    <3>5. /\ \A u \in Vehicle \ {v} : requested'[u] = requested[u]
          /\ requested'[v] = flags \cup {"Rally"}
      BY <1>2, <1>3, <3>1
    <3> QED
      BY <1>3, <1>7, <2>2, <3>1, <3>2, <3>3, <3>4, <3>5
  <2>3. CASE "Rally" \notin requested[v] /\ ~Supported("Rally")
    <3>1. /\ requested' = [requested EXCEPT ![v] = flags \cup {"Rally"}]
          /\ planComplete' = [planComplete EXCEPT ![v] = TRUE] /\ UNCHANGED transaction
      BY <1>7, <2>3 DEF GeoFenceLoadComplete, RallyPointLoadComplete
    <3>2. /\ \A u \in Vehicle \ {v} : requested'[u] = requested[u] /\ planComplete'[u] = planComplete[u]
          /\ requested'[v] = flags \cup {"Rally"} /\ planComplete'[v] = TRUE
      BY <1>2, <1>3, <3>1
    <3> QED
      BY <1>7, <2>3, <3>1, <3>2
  <2> QED
    BY <2>1, <2>2, <2>3
<1>8. ASSUME e = "Rally", RallyPointLoadComplete(v), UNCHANGED requested
      PROVE  Goal
  <2>1. planComplete' = [planComplete EXCEPT ![v] = TRUE] /\ UNCHANGED transaction
    BY <1>8 DEF RallyPointLoadComplete
  <2>2. /\ \A u \in Vehicle \ {v} : planComplete'[u] = planComplete[u]
        /\ planComplete'[v] = TRUE
    BY <1>2, <1>3, <2>1
  <2> QED
    BY <1>8, <2>1, <2>2
<1>9. Goal
  <2> HIDE DEF Goal
  <2> QED
    BY <1>4, <1>5, <1>6, <1>7, <1>8
<1> QED
  BY <1>1, <1>2, <1>9

\* The vehicle of the views, if they have one, exists.
LEMMA ViewVehicle ==
  ASSUME VehicleInv, FramesOK, Idle \/ ~Switching(Head(calls)), NEW c \in View,
         managerVehicle[c] /= NoVehicle
  PROVE  managerVehicle[c] \in Vehicle /\ managerVehicle[c] \in Existing
BY ViewsEqual DEF VehicleInv, VehicleTypeOK

LEMMA UserContinues ==
  ASSUME VehicleInv, PlanTypeOK, FramesOK,
         \/ EditPlan \/ LoadFromVehicle \/ SendToVehicle \/ ResumeMission
         \/ \E c \in View : RemoveAllFromVehicle(c)
         \/ \E v \in Vehicle : InitialRequest(v)
  PROVE  /\ Idle /\ Steady /\ Continues
         /\ UNCHANGED <<multiVehicleVars, managerVehicle, planComplete, regime>>
         /\ items'["FlyView"] = items["FlyView"]
<1>1. /\ Idle /\ Steady /\ UNCHANGED <<multiVehicleVars, managerVehicle, planComplete, regime, vehiclePlan>>
  BY DEF EditPlan, LoadFromVehicle, SendToVehicle, ResumeMission, RemoveAllFromVehicle, InitialRequest,
     May, viewVars
<1>2. "Mission" \in Element /\ Supported("Mission")
  BY DEF Element, Supported
<1>3. CASE EditPlan
  <2>1. UNCHANGED <<transaction, managerItems, requested>>
    BY <1>3 DEF EditPlan, May
  <2>2. PICK e \in Element : items' = [items EXCEPT !["PlanView"][e] = "Edited"]
    BY <1>3 DEF EditPlan
  <2>3. items'["FlyView"] = items["FlyView"]
    BY <2>2, ViewsAre DEF PlanTypeOK
  <2> QED
    BY <1>1, <2>1, <2>3, NothingStarts
<1>4. CASE LoadFromVehicle
  <2> DEFINE v == managerVehicle["PlanView"]
  <2>1. /\ v /= NoVehicle /\ Start(v, "Mission", "Read")
        /\ UNCHANGED <<managerItems, items, requested>>
    BY <1>4 DEF LoadFromVehicle, May
  <2>2. v \in Vehicle /\ v \in Existing
    BY <1>1, <2>1, ViewVehicle, ViewsAre
  <2> HIDE DEF v
  <2>3. Continues
    BY <1>1, <1>2, <2>1, <2>2, OneStarts
  <2> QED
    BY <1>1, <2>1, <2>3
<1>5. CASE SendToVehicle \/ ResumeMission
  <2>1. PICK c \in View : /\ managerVehicle[c] /= NoVehicle
                          /\ Start(managerVehicle[c], "Mission", "Write")
    BY <1>5, ViewsAre DEF SendToVehicle, ResumeMission, StartWrite
  <2>2. UNCHANGED <<managerItems, items, requested>>
    BY <1>5 DEF SendToVehicle, ResumeMission, May
  <2>3. managerVehicle[c] \in Vehicle /\ managerVehicle[c] \in Existing
    BY <1>1, <2>1, ViewVehicle
  <2>4. Continues
    BY <1>1, <1>2, <2>1, <2>2, <2>3, OneStarts
  <2> QED
    BY <1>1, <2>2, <2>4
<1>6. ASSUME NEW c \in View, RemoveAllFromVehicle(c)
      PROVE  Continues /\ items'["FlyView"] = items["FlyView"]
  <2>1. managerVehicle[c] /= NoVehicle /\ UNCHANGED items
    BY <1>6 DEF RemoveAllFromVehicle
  <2> QED
    BY <1>1, <1>6, <2>1, ViewVehicle, AllRemovedContinues
<1>7. ASSUME NEW v \in Vehicle, InitialRequest(v)
      PROVE  Continues /\ items'["FlyView"] = items["FlyView"]
  <2>1. /\ v \in Connected /\ requested' = [requested EXCEPT ![v] = @ \cup {"Mission"}]
        /\ Start(v, "Mission", "Read") /\ UNCHANGED <<managerItems, items>>
    BY <1>7 DEF InitialRequest, viewVars
  <2>2. v \in Existing
    BY <2>1 DEF Existing
  <2>3. \A u \in Vehicle, f \in Element :
          f \in requested'[u] => f \in requested[u] \/ (u = v /\ f = "Mission")
    BY <2>1 DEF PlanTypeOK
  <2> QED
    BY <1>1, <1>2, <2>1, <2>2, <2>3, OneStarts
<1> QED
  BY <1>1, <1>3, <1>4, <1>5, <1>6, <1>7

\* A slot of a view
ViewSlotIsCalled == Loaded \/ SentOrRemoved \/ MasterLoaded \/ MasterSent

LEMMA SlotOfView ==
  ASSUME VehicleInv, PlanTypeOK, ViewSlotIsCalled
  PROVE  /\ calls /= <<>> /\ Call(<<>>) /\ Reporting(Head(calls)) /\ Head(calls) = calls[1]
         /\ ~Switching(Head(calls)) /\ 1 \in DOMAIN calls
         /\ Head(calls).controller \in View /\ Head(calls).element \in Element
         /\ managerVehicle[Head(calls).controller] \in Vehicle
         /\ UNCHANGED <<vehicles, activeVehicle, vehiclesBeingDeleted, timers, managerVehicle,
                        planComplete, regime, managerItems, vehiclePlan, requested>>
<1>1. /\ calls /= <<>> /\ Call(<<>>) /\ Reporting(Head(calls))
      /\ UNCHANGED <<vehicles, activeVehicle, vehiclesBeingDeleted, timers, managerVehicle,
                     planComplete, regime, managerItems, vehiclePlan, requested>>
  BY DEF ViewSlotIsCalled, Loaded, SentOrRemoved, MasterLoaded, MasterSent, OnlyViewsChange, Called,
     Reporting, ReportSlot
<1>2. Head(calls) = calls[1] /\ Head(calls) \in Frame /\ 1 \in DOMAIN calls
  BY <1>1, Pops DEF VehicleInv
<1> QED
  BY <1>1, <1>2, FrameFields DEF VehicleInv, CallsOK, Reporting, Switching, ReportSlot

\* What a master controller starts
LEMMA NextStarts ==
  ASSUME VehicleInv, PlanTypeOK, MasterLoaded \/ MasterSent,
         NEW c, c = Head(calls).controller, NEW e, e = Head(calls).element
  PROVE  \/ UNCHANGED transaction
         \/ /\ c = "PlanView" /\ e \in {"Mission", "Fence"} /\ Target(e) \in Element \ {"Mission", e}
            /\ Supported(Target(e))
            /\ Start(managerVehicle[c], Target(e), IF MasterLoaded THEN "Read" ELSE "Write")
<1>1. c \in View /\ e \in Element
  BY SlotOfView DEF ViewSlotIsCalled
<1>2. ASSUME NEW flags, IsNextIn(flags, e), TargetIsIdle(managerVehicle[c], e)
      PROVE  /\ e \in {"Mission", "Fence"} /\ Target(e) \in Element \ {"Mission", e}
             /\ Supported(Target(e))
  BY <1>1, <1>2, Targets DEF TargetIsIdle, Element
<1>3. CASE MasterLoaded
  <2>1. \/ UNCHANGED transaction
        \/ /\ IsNextIn(toLoad[c], e) /\ TargetIsIdle(managerVehicle[c], e)
           /\ Start(managerVehicle[c], Target(e), "Read")
    BY <1>3 DEF MasterLoaded
  <2>2. IsNextIn(toLoad[c], e) => c /= "FlyView"
    BY DEF IsNextIn, PlanTypeOK
  <2> QED
    BY <1>1, <1>2, <1>3, <2>1, <2>2, ViewsAre
<1>4. CASE MasterSent
  <2>1. \/ UNCHANGED transaction
        \/ /\ IsNextIn(toSend[c], e) /\ TargetIsIdle(managerVehicle[c], e)
           /\ Start(managerVehicle[c], Target(e), "Write")
    BY <1>4 DEF MasterSent, StartWrite
  <2>2. IsNextIn(toSend[c], e) => c /= "FlyView"
    BY DEF IsNextIn, PlanTypeOK
  <2>3. ~MasterLoaded
    BY <1>4 DEF MasterSent, MasterLoaded, Called
  <2> QED
    BY <1>1, <1>2, <1>4, <2>1, <2>2, <2>3, ViewsAre
<1> QED
  BY <1>3, <1>4

LEMMA SlotContinues ==
  ASSUME VehicleInv, PlanTypeOK, FramesOK, ViewSlotIsCalled
  PROVE  Continues
<1>1. CASE Loaded \/ SentOrRemoved
  <2>1. UNCHANGED <<transaction, managerItems, vehiclePlan, requested>>
    BY <1>1 DEF Loaded, SentOrRemoved, OnlyViewsChange
  <2> QED
    BY <2>1, NothingStarts
<1>2. CASE MasterLoaded \/ MasterSent
  <2> DEFINE c == Head(calls).controller
             e == Head(calls).element
  <2>1. /\ c \in View /\ managerVehicle[c] \in Vehicle /\ managerVehicle[c] /= NoVehicle
        /\ ~Switching(Head(calls)) /\ UNCHANGED <<managerItems, vehiclePlan, requested>>
    BY SlotOfView, VehicleAssumption
  <2>2. managerVehicle[c] \in Existing
    BY <2>1, ViewVehicle
  <2>3. \/ UNCHANGED transaction
        \/ /\ Target(e) \in Element /\ Supported(Target(e))
           /\ \E kind \in {"Read", "Write"} : Start(managerVehicle[c], Target(e), kind)
    BY <1>2, NextStarts
  <2> HIDE DEF c, e
  <2> QED
    BY <2>1, <2>2, <2>3, OneStarts, NothingStarts
<1> QED
  BY <1>1, <1>2 DEF ViewSlotIsCalled

LEMMA LoadedContinues ==
  ASSUME VehicleInv, PlanTypeOK, FramesOK, VehicleLoaded
  PROVE  Continues
<1> DEFINE v == Head(calls).vehicle
           e == Head(calls).element
<1>0. v = Head(calls).vehicle /\ e = Head(calls).element /\ VehicleTypeOK
  BY DEF VehicleInv
<1> HIDE DEF v, e
<1>1. /\ calls /= <<>> /\ Call(<<>>) /\ v \in Vehicle /\ UNCHANGED <<managerItems, vehiclePlan>>
      /\ \A u \in Vehicle \ {v} : transaction'[u] = transaction[u] /\ requested'[u] = requested[u]
      /\ \A f \in Element :
           \/ transaction'[v][f] = transaction[v][f]
           \/ ~Busy(v, f) /\ Supported(f) /\ f /= "Mission" /\ transaction'[v][f] = "Read"
      /\ \A f \in Element : f \in requested'[v] /\ Supported(f) =>
           f \in requested[v] \/ transaction'[v][f] /= "None"
  BY <1>0, LoadedByVehicle
<1>2. v \in Existing
  <2>1. calls[1].slot = "VehicleLoaded" /\ 1 \in DOMAIN calls /\ Head(calls) = calls[1]
    BY <1>1, Pops DEF VehicleInv, VehicleLoaded, Called
  <2> QED
    BY <1>0, <2>1 DEF FramesOK
<1>3. ASSUME NEW u \in Vehicle, NEW f \in Element
      PROVE
        /\ transaction'[u][f] = transaction[u][f] \/ (~Busy(u, f) /\ transaction'[u][f] = "Read"
                                                      /\ u \in Existing /\ Supported(f))
        /\ f \in requested'[u] /\ Supported(f) => f \in requested[u] \/ transaction'[u][f] /= "None"
  <2>1. CASE u = v
    BY <1>1, <1>2, <2>1 DEF Busy
  <2>2. CASE u /= v
    BY <1>1, <2>2 DEF Busy
  <2> QED
    BY <2>1, <2>2
<1> QED
  BY <1>1, <1>3 DEF Continues, Busy

LEMMA OtherContinues ==
  ASSUME ActiveVehicleChanged \/ VehicleIsActivated \/ TimerFires \/ VehicleConnects
           \/ VehicleIsLost \/ UserSelects \/ UNCHANGED syncVars
  PROVE  Continues /\ UNCHANGED <<transaction, managerItems, vehiclePlan, requested>>
<1>1. UNCHANGED <<transaction, managerItems, vehiclePlan, requested>>
  BY DEF ActiveVehicleChanged, OnlyViewsChange, VehicleIsActivated, TimerFires, VehicleConnects,
     VehicleIsLost, UserSelects, May, syncVars, vehiclePlanVars
<1> QED
  BY <1>1, NothingStarts

\* What may happen: something continues, ends or is freed.
LEMMA StepsContinue ==
  ASSUME VehicleInv, PlanTypeOK, FramesOK, [SyncNext]_syncVars
  PROVE  \/ Continues
         \/ \E v \in Vehicle, e \in Element : TransactionEnds(v, e)
         \/ VehicleIsDeleted
BY UserContinues, SlotContinues, LoadedContinues, OtherContinues DEF SyncNext, SlotIsCalled, ViewSlotIsCalled

LEMMA KnowledgeKept ==
  ASSUME Continues, NEW v \in Vehicle, NEW e \in Element, Knows(v, e)
  PROVE  Knows(v, e)'
BY DEF Continues, Knows, Busy

LEMMA EndIsKnown ==
  ASSUME PlanTypeOK, RequestedIsKnown, ~regime.failing, NEW v \in Vehicle, NEW e \in Element,
         TransactionEnds(v, e)
  PROVE  /\ Knows(v, e)'
         /\ \A u \in Vehicle, f \in Element : Knows(u, f) => Knows(u, f)'
<1>1. /\ \A u \in Vehicle, f \in Element : u /= v \/ f /= e =>
           /\ transaction'[u][f] = transaction[u][f]
           /\ managerItems'[u][f] = managerItems[u][f] /\ vehiclePlan'[u][f] = vehiclePlan[u][f]
      /\ managerItems'[v][e] = vehiclePlan'[v][e]
  BY TransactionEnded DEF RequestedIsKnown
<1> QED
  BY <1>1 DEF Knows, Busy

LEMMA RequestsStayKnown ==
  ASSUME VehicleInv, PlanTypeOK, FramesOK, RequestedIsKnown, ~regime.failing, UNCHANGED regime,
         [SyncNext]_syncVars
  PROVE  RequestedIsKnown'
<1>0. \A e : Supported(e)' <=> Supported(e)
  BY DEF Supported
<1>1. CASE Continues
  <2> SUFFICES ASSUME NEW v \in Vehicle, NEW e \in Element
               PROVE  /\ Supported(e) /\ e \in requested'[v] => Knows(v, e)'
                      /\ transaction'[v][e] = "RemoveAll" => managerItems'[v][e] = "Empty"
    BY <1>0 DEF RequestedIsKnown
  <2>1. Busy(v, e)' => Knows(v, e)'
    BY DEF Knows
  <2>2. Supported(e) /\ e \in requested[v] => Knows(v, e)
    BY DEF RequestedIsKnown
  <2>3. transaction[v][e] = "RemoveAll" => managerItems[v][e] = "Empty"
    BY DEF RequestedIsKnown
  <2> QED
    BY <1>1, <2>1, <2>2, <2>3, KnowledgeKept DEF Continues
<1>2. ASSUME NEW v \in Vehicle, NEW e \in Element, TransactionEnds(v, e)
      PROVE  RequestedIsKnown'
  <2>1. requested' = requested
    BY <1>2 DEF TransactionEnds
  <2>2. \A u \in Vehicle, f \in Element : u /= v \/ f /= e =>
          transaction'[u][f] = transaction[u][f] /\ managerItems'[u][f] = managerItems[u][f]
    BY <1>2, TransactionEnded
  <2>3. transaction'[v][e] = "None"
    BY <1>2, TransactionEnded
  <2>4. \A u \in Vehicle, f \in Element : Knows(u, f) => Knows(u, f)'
    BY <1>2, EndIsKnown
  <2> QED
    BY <1>0, <2>1, <2>2, <2>3, <2>4 DEF RequestedIsKnown
<1>3. CASE VehicleIsDeleted
  <2>1. vehiclePlan' = vehiclePlan
    BY <1>3 DEF VehicleIsDeleted
  <2>2. \A u \in Vehicle : IF u = Head(vehiclesBeingDeleted)
          THEN /\ \A e \in Element : transaction'[u][e] = "None" /\ managerItems'[u][e] = "Empty"
               /\ requested'[u] = {}
          ELSE /\ transaction'[u] = transaction[u] /\ managerItems'[u] = managerItems[u]
               /\ requested'[u] = requested[u]
    BY <1>3, DeletedTypes DEF VehicleInv
  <2> QED
    BY <1>0, <2>1, <2>2 DEF RequestedIsKnown, Knows, Busy
<1> QED
  BY <1>1, <1>2, <1>3, StepsContinue
-----------------------------------------------------------------------------
(* Transfers succeed and everybody is told *)

\* A handler that returns tells nobody anything new.
LEMMA PoppedFramesOK ==
  ASSUME VehicleTypeOK, FramesOK, calls /= <<>>, Call(<<>>)
  PROVE  FramesOK'
<1>1. \A i \in DOMAIN calls' : i + 1 \in DOMAIN calls /\ calls'[i] = calls[i + 1] /\ i + 1 /= 1
  BY Pops
<1>2. ASSUME NEW i \in DOMAIN calls'
      PROVE  /\ Reporting(calls'[i]) => ~calls'[i].error
             /\ calls'[i].slot /= "VehicleLoaded"
  BY <1>1 DEF FramesOK
<1> QED
  BY <1>2 DEF FramesOK

\* The slots of a switch of the active vehicle
LEMMA TimerCalls ==
  ASSUME VehicleInv, TimerFires
  PROVE  /\ Idle /\ timers /= <<>>
         /\ UNCHANGED <<vehiclePlanVars, viewVars, regime, vehicles, vehiclesBeingDeleted>>
         /\ \A i \in DOMAIN calls' : ~Plain(calls'[i])
<1>1. /\ Idle /\ timers /= <<>>
      /\ UNCHANGED <<vehiclePlanVars, viewVars, regime, vehicles, vehiclesBeingDeleted>>
      /\ \/ EmitActiveVehicleChanged(vehicleBeingSetActive, "VehicleActivated")
         \/ EmitActiveVehicleChanged(FirstVehicle, "VehicleDeleted")
  BY DEF TimerFires, SetActiveVehiclePhase2, DeleteVehiclePhase2
<1>2. vehicleBeingSetActive \in Vehicle \cup {NoVehicle} /\ FirstVehicle \in Vehicle \cup {NoVehicle}
  BY Tails DEF VehicleInv, VehicleTypeOK, FirstVehicle
<1>3. PICK v \in Vehicle \cup {NoVehicle}, after \in {"VehicleActivated", "VehicleDeleted"} :
        EmitActiveVehicleChanged(v, after)
  BY <1>1, <1>2
<1>4. EndsWithSwitch(v, after)
  BY <1>3, Emits
<1>5. \A i \in DOMAIN calls' : calls'[i].slot \in {"ActiveVehicleChanged", "VehicleActivated",
                                                   "VehicleDeleted"}
  <2>1. /\ DOMAIN calls' = 1 .. 3 /\ calls'[3].slot = after
        /\ \A i \in 1 .. 2 : calls'[i].slot = "ActiveVehicleChanged"
    BY <1>4 DEF EndsWithSwitch
  <2> QED
    BY <2>1
<1> QED
  BY <1>1, <1>5 DEF Plain, Switching, Finishing

\* The steps of which some keep what is to be called, and the others return
LEMMA CallsLeft ==
  ASSUME VehicleInv, SyncNext
  PROVE  \/ Idle /\ UNCHANGED calls
         \/ calls /= <<>> /\ Call(<<>>)
         \/ TimerFires
         \/ \E v \in Vehicle, e \in Element : TransactionEnds(v, e)
<1>1. CASE \/ VehicleConnects \/ VehicleIsLost \/ UserSelects
           \/ EditPlan \/ LoadFromVehicle \/ SendToVehicle \/ ResumeMission
           \/ \E c \in View : RemoveAllFromVehicle(c)
           \/ \E v \in Vehicle : InitialRequest(v)
  BY <1>1 DEF VehicleConnects, VehicleHeartbeatInfo, VehicleIsLost, DeleteVehiclePhase1, UserSelects,
     SelectVehicle, EditPlan, LoadFromVehicle, SendToVehicle, ResumeMission, RemoveAllFromVehicle,
     InitialRequest, May, multiVehicleVars
<1>2. CASE SlotIsCalled
  BY <1>2 DEF SlotIsCalled, VehicleLoaded, Loaded, SentOrRemoved, MasterLoaded, MasterSent,
     ActiveVehicleChanged, VehicleIsActivated, VehicleActivated, VehicleIsDeleted, VehicleDeleted, Called
<1> QED
  BY <1>1, <1>2 DEF SyncNext

LEMMA FramesStayOK ==
  ASSUME VehicleInv, PlanTypeOK, FramesOK, UnsupportedIsEmpty, RequestedIsKnown, ~regime.failing,
         UNCHANGED regime, SyncNext
  PROVE  FramesOK'
<1>1. CASE Idle /\ UNCHANGED calls
  BY <1>1 DEF Idle, FramesOK
<1>2. CASE calls /= <<>> /\ Call(<<>>)
  BY <1>2, PoppedFramesOK DEF VehicleInv
<1>3. CASE TimerFires
  <2>1. \A i \in DOMAIN calls' : ~Plain(calls'[i])
    BY <1>3, TimerCalls
  <2>2. \A i \in DOMAIN calls' : ~Reporting(calls'[i]) /\ calls'[i].slot /= "VehicleLoaded"
    BY <2>1 DEF Plain, Switching, Finishing, Reporting, ReportSlot
  <2> QED
    BY <2>2 DEF FramesOK
<1>4. ASSUME NEW v \in Vehicle, NEW e \in Element, TransactionEnds(v, e)
      PROVE  FramesOK'
  <2>1. /\ v \in Existing
        /\ \A i \in DOMAIN calls' :
             /\ Plain(calls'[i])
             /\ Reporting(calls'[i]) => ~calls'[i].error
             /\ calls'[i].slot = "VehicleLoaded" =>
                  i = 1 /\ calls'[i].vehicle = v /\ calls'[i].element = e
        /\ managerVehicle["FlyView"] = v => FlyIsTold(e)'
    BY <1>4, EndReports
  <2>2. v \in Existing' /\ managerVehicle' = managerVehicle
    BY <1>4, <2>1 DEF TransactionEnds, Existing, Connected, viewVars
  <2>3. Supported(e)'
    <3>1. transaction[v][e] /= "None"
      BY <1>4, TransactionEnded DEF Busy
    <3> QED
      BY <3>1 DEF UnsupportedIsEmpty, Supported
  <2>4. Knows(v, e)'
    BY <1>4, EndIsKnown
  <2>5. \A i \in DOMAIN calls' : ~Switching(calls'[i])
    BY <2>1 DEF Plain
  <2> QED
    BY <2>1, <2>2, <2>3, <2>4, <2>5 DEF FramesOK
<1> QED
  BY <1>1, <1>2, <1>3, <1>4, CallsLeft
-----------------------------------------------------------------------------
(* Nothing is transferred while vehicles come, go or are selected *)

\* A vehicle about to be deleted has a timer.
LEMMA DeletionIsTimed ==
  ASSUME VehicleInv, Idle, timers = <<>>
  PROVE  vehiclesBeingDeleted = <<>>
<1>1. PICK due \in [DOMAIN Doomed -> DOMAIN timers] : TRUE
  BY DEF VehicleInv, VehiclesAreDue
<1>2. DOMAIN Doomed = {}
  BY <1>1
<1>3. DOMAIN vehiclesBeingDeleted = {} /\ vehiclesBeingDeleted \in Seq(Vehicle)
  BY <1>2, WhenIdle DEF VehicleInv, VehicleTypeOK
<1>4. Len(vehiclesBeingDeleted) = 0
  BY <1>3
<1> QED
  BY <1>3, <1>4, EmptySeq

LEMMA QuietStays ==
  ASSUME VehicleInv, PlanTypeOK, FramesOK, Quiet, ~regime.failing, UNCHANGED regime, SyncNext
  PROVE  Quiet'
<1>0. Undisturbed' <=> Undisturbed
  BY DEF Undisturbed
<1> DEFINE Left == timers' /= <<>> \/ \E i \in DOMAIN calls' : ~Plain(calls'[i])
           None == \A v \in Vehicle : ~SyncInProgress(v)
\* What has to be shown of a step that starts and ends nothing
<1>1. ASSUME UNCHANGED transaction, Existing \subseteq Existing',
             Undisturbed /\ Left => None /\ \A i \in DOMAIN calls' : ~Plain(calls'[i])
      PROVE  Quiet'
  BY <1>0, <1>1 DEF Quiet, SyncInProgress, Busy
<1>2. CASE \/ EditPlan \/ LoadFromVehicle \/ SendToVehicle \/ ResumeMission
           \/ \E c \in View : RemoveAllFromVehicle(c)
           \/ \E v \in Vehicle : InitialRequest(v)
  <2>1. Idle /\ Steady /\ Continues /\ UNCHANGED multiVehicleVars
    BY <1>2, UserContinues
  <2>2. Existing' = Existing /\ calls' = calls /\ timers' = timers
    BY <2>1 DEF multiVehicleVars, Existing, Connected
  <2>3. Undisturbed => timers' = <<>> /\ DOMAIN calls' = {}
    BY <2>1, <2>2 DEF Undisturbed, Steady, Idle
  <2>4. \A v \in Vehicle : SyncInProgress(v)' => v \in Existing
    BY <2>1 DEF Continues, Quiet, SyncInProgress, Busy
  <2> QED
    BY <1>0, <2>2, <2>3, <2>4 DEF Quiet
<1>3. CASE ViewSlotIsCalled \/ VehicleLoaded
  <2>1. /\ calls /= <<>> /\ Call(<<>>) /\ Plain(Head(calls)) /\ Continues
        /\ UNCHANGED <<vehicles, vehiclesBeingDeleted, timers>>
    <3>1. CASE ViewSlotIsCalled
      BY <3>1, SlotOfView, SlotContinues DEF Plain, Reporting, ReportSlot, Switching, Finishing
    <3>2. CASE VehicleLoaded
      BY <3>2, LoadedContinues DEF VehicleLoaded, Called, Plain, Switching, Finishing
    <3> QED
      BY <1>3, <3>1, <3>2
  <2>2. Existing' = Existing
    BY <2>1 DEF Existing, Connected
  <2>3. calls[1] = Head(calls) /\ 1 \in DOMAIN calls
        /\ \A i \in DOMAIN calls' : i + 1 \in DOMAIN calls /\ calls'[i] = calls[i + 1]
    BY <2>1, Pops DEF VehicleInv
  <2>4. ~(Undisturbed /\ Left)
    BY <2>1, <2>3 DEF Quiet
  <2>5. \A v \in Vehicle : SyncInProgress(v)' => v \in Existing
    BY <2>1 DEF Continues, Quiet, SyncInProgress, Busy
  <2> QED
    BY <1>0, <2>2, <2>4, <2>5 DEF Quiet
<1>4. CASE ActiveVehicleChanged \/ VehicleIsActivated
  <2>1. /\ calls /= <<>> /\ Call(<<>>) /\ ~Plain(Head(calls))
        /\ UNCHANGED <<transaction, vehicles, vehiclesBeingDeleted>>
    BY <1>4 DEF ActiveVehicleChanged, OnlyViewsChange, VehicleIsActivated, VehicleActivated, Called,
       vehiclePlanVars, Plain, Switching, Finishing
  <2>2. Existing' = Existing
    BY <2>1 DEF Existing, Connected
  <2>3. calls[1] = Head(calls) /\ 1 \in DOMAIN calls
        /\ \A i \in DOMAIN calls' : i + 1 \in DOMAIN calls /\ calls'[i] = calls[i + 1]
    BY <2>1, Pops DEF VehicleInv
  <2>4. Undisturbed => None /\ \A i \in DOMAIN calls : ~Plain(calls[i])
    BY <2>1, <2>3 DEF Quiet
  <2> QED
    BY <1>1, <2>1, <2>2, <2>3, <2>4
<1>5. CASE VehicleIsDeleted
  <2>1. /\ vehiclesBeingDeleted /= <<>> /\ vehiclesBeingDeleted' = Tail(vehiclesBeingDeleted)
        /\ UNCHANGED vehicles
        /\ \A u \in Vehicle : IF u = Head(vehiclesBeingDeleted)
             THEN \A e \in Element : transaction'[u][e] = "None"
             ELSE transaction'[u] = transaction[u]
    BY <1>5, DeletedTypes DEF VehicleInv
  <2>2. /\ calls /= <<>> /\ Call(<<>>) /\ ~Plain(Head(calls))
    BY <1>5 DEF VehicleIsDeleted, VehicleDeleted, Called, Plain, Finishing
  <2>3. calls[1] = Head(calls) /\ 1 \in DOMAIN calls
        /\ \A i \in DOMAIN calls' : i + 1 \in DOMAIN calls /\ calls'[i] = calls[i + 1]
    BY <2>2, Pops DEF VehicleInv
  <2>4. Undisturbed => None /\ \A i \in DOMAIN calls : ~Plain(calls[i])
    BY <2>2, <2>3 DEF Quiet
  <2>5. \A v \in Vehicle : SyncInProgress(v)' =>
          SyncInProgress(v) /\ v /= Head(vehiclesBeingDeleted)
    BY <2>1 DEF SyncInProgress, Busy
  <2>6. \A v \in Existing : v \in Existing' \/ v = Head(vehiclesBeingDeleted)
    <3>1. ToSet(vehiclesBeingDeleted) = ToSet(Tail(vehiclesBeingDeleted))
                                          \cup {Head(vehiclesBeingDeleted)}
      BY <2>1, TailMembers DEF VehicleInv, VehicleTypeOK
    <3> QED
      BY <2>1, <3>1 DEF Existing, Connected
  <2> QED
    BY <1>0, <2>3, <2>4, <2>5, <2>6 DEF Quiet
<1>6. ASSUME NEW v \in Vehicle, NEW e \in Element, TransactionEnds(v, e)
      PROVE  Quiet'
  <2>1. /\ Busy(v, e) /\ UNCHANGED <<vehicles, vehiclesBeingDeleted, timers>>
        /\ \A u \in Vehicle, f \in Element :
             transaction'[u][f] = IF u = v /\ f = e THEN "None" ELSE transaction[u][f]
    BY <1>6, TransactionEnded DEF TransactionEnds
  <2>2. Existing' = Existing
    BY <2>1 DEF Existing, Connected
  <2>3. \A i \in DOMAIN calls' : Plain(calls'[i])
    BY <1>6, EndReports
  <2>4. ~(Undisturbed /\ Left)
    BY <2>1, <2>3 DEF Quiet, SyncInProgress
  <2>5. \A u \in Vehicle : SyncInProgress(u)' => SyncInProgress(u)
    BY <2>1 DEF SyncInProgress, Busy
  <2> QED
    BY <1>0, <2>2, <2>4, <2>5 DEF Quiet
<1>7. CASE VehicleConnects
  <2>1. PICK v \in regime.vehicles : VehicleHeartbeatInfo(v)
    BY <1>7 DEF VehicleConnects
  <2>2. /\ Idle /\ vehicles' = Append(vehicles, v)
        /\ UNCHANGED <<vehiclesBeingDeleted, calls, transaction>>
        /\ vehicles /= <<>> => timers' = timers
    BY <1>7, <2>1 DEF VehicleHeartbeatInfo, VehicleConnects, vehiclePlanVars
  <2>3. Existing \subseteq Existing'
    <3>1. vehicles \in Seq(Vehicle \cup {v}) /\ v \in Vehicle \cup {v}
      BY DEF VehicleInv, VehicleTypeOK
    <3>2. ToSet(vehicles') = ToSet(vehicles) \cup {v}
      BY <2>2, <3>1, AppendMembers
    <3> QED
      BY <2>2, <3>2 DEF Existing, Connected
  <2>4. DOMAIN calls' = {}
    BY <2>2 DEF Idle
  <2>5. Undisturbed /\ Left => None
    <3>1. CASE timers /= <<>>
      BY <3>1 DEF Quiet
    <3>2. CASE timers = <<>> /\ vehicles /= <<>>
      BY <2>2, <2>4, <3>2
    <3>3. CASE timers = <<>> /\ vehicles = <<>>
      <4>1. vehiclesBeingDeleted = <<>>
        BY <2>2, <3>3, DeletionIsTimed
      <4>2. Existing = {}
        BY <3>3, <4>1 DEF Existing, Connected, ToSet
      <4> QED
        BY <4>2 DEF Quiet
    <3> QED
      BY <3>1, <3>2, <3>3
  <2> QED
    BY <1>1, <2>2, <2>3, <2>4, <2>5
<1>8. CASE VehicleIsLost \/ UserSelects
  <2>1. /\ Idle /\ Calm /\ UNCHANGED <<transaction, calls>>
        /\ (\E v \in Vehicle : DeleteVehiclePhase1(v)) \/ UNCHANGED <<vehicles, vehiclesBeingDeleted>>
    BY <1>8 DEF VehicleIsLost, UserSelects, May, DeleteVehiclePhase1, SelectVehicle
  <2>2. Undisturbed => None
    BY <2>1 DEF Undisturbed, Calm
  <2>3. Existing \subseteq Existing'
    <3>1. CASE UNCHANGED <<vehicles, vehiclesBeingDeleted>>
      BY <3>1 DEF Existing, Connected
    <3>2. ASSUME NEW v \in Vehicle, DeleteVehiclePhase1(v) PROVE Existing \subseteq Existing'
      <4> DEFINE k == CHOOSE i \in DOMAIN vehicles : vehicles[i] = v
      <4>1. /\ v \in Connected /\ vehicles' = RemoveAt(vehicles, k)
            /\ vehiclesBeingDeleted' = Append(vehiclesBeingDeleted, v)
            /\ vehicles \in Seq(Vehicle) /\ vehiclesBeingDeleted \in Seq(Vehicle)
        BY <3>2 DEF DeleteVehiclePhase1, VehicleInv, VehicleTypeOK
      <4>2. k \in DOMAIN vehicles /\ vehicles[k] = v
        BY <4>1 DEF Connected, ToSet
      <4> HIDE DEF k
      <4>3. /\ ToSet(vehicles) \subseteq ToSet(vehicles') \cup {v}
            /\ ToSet(vehiclesBeingDeleted') = ToSet(vehiclesBeingDeleted) \cup {v}
        BY <4>1, <4>2, RemovedMembers, AppendMembers
      <4> QED
        BY <4>3 DEF Existing, Connected
    <3> QED
      BY <2>1, <3>1, <3>2
  <2>4. DOMAIN calls' = {}
    BY <2>1 DEF Idle
  <2> QED
    BY <1>1, <2>1, <2>2, <2>3, <2>4
<1>9. CASE TimerFires
  <2>1. /\ timers /= <<>> /\ UNCHANGED <<vehiclePlanVars, vehicles, vehiclesBeingDeleted>>
        /\ \A i \in DOMAIN calls' : ~Plain(calls'[i])
    BY <1>9, TimerCalls
  <2>2. Existing' = Existing /\ transaction' = transaction
    BY <2>1 DEF Existing, Connected, vehiclePlanVars
  <2>3. Undisturbed => None
    BY <2>1 DEF Quiet
  <2> QED
    BY <1>1, <2>1, <2>2, <2>3
<1> QED
  BY <1>2, <1>3, <1>4, <1>5, <1>6, <1>7, <1>8, <1>9 DEF SyncNext, SlotIsCalled, ViewSlotIsCalled
-----------------------------------------------------------------------------
(* What the fly view shows *)

\* The slots of the fly view show the element that they are called for.
LEMMA FlySlots ==
  ASSUME VehicleInv, PlanTypeOK, FramesOK, ViewSlotIsCalled,
         NEW c, c = Head(calls).controller, NEW e, e = Head(calls).element
  PROVE  /\ \A f \in Element :
              \/ items'["FlyView"][f] = items["FlyView"][f]
              \/ c = "FlyView" /\ f = e /\ items'["FlyView"][f] = managerItems[FlyVehicle][f]
         /\ c = "FlyView" /\ Head(calls).slot \in {"Loaded", "Sent", "Removed"}
              /\ planComplete[FlyVehicle] =>
                Busy(FlyVehicle, e) \/ items'["FlyView"][e] = managerItems[FlyVehicle][e]
<1>1. /\ c \in View /\ e \in Element /\ managerVehicle[c] \in Vehicle
      /\ Head(calls) = calls[1] /\ 1 \in DOMAIN calls /\ Reporting(Head(calls))
  BY SlotOfView
<1>2. items \in [View -> Plan] /\ "FlyView" \in View
  BY ViewsAre DEF PlanTypeOK
<1>3. CASE Loaded
  <2>1. /\ items' = IF Accepts(c, e)
                    THEN [items EXCEPT ![c][e] = managerItems[managerVehicle[c]][e]] ELSE items
        /\ c = "FlyView" => Accepts(c, e)
    BY <1>3 DEF Loaded, Accepts
  <2>2. \A d \in View, f \in Element :
          items'[d][f] = IF d = c /\ f = e /\ Accepts(c, e)
                         THEN managerItems[managerVehicle[c]][e] ELSE items[d][f]
    BY <1>1, <1>2, <2>1 DEF Plan
  <2> QED
    BY <1>1, <1>2, <2>1, <2>2 DEF FlyVehicle
<1>4. CASE SentOrRemoved
  <2>1. ~Head(calls).error
    BY <1>1 DEF FramesOK
  <2>2. IF ShowsWhatEnded(c) THEN ShowElement(c, e) ELSE UNCHANGED <<items, itemsRequested>>
    BY <1>4, <2>1 DEF SentOrRemoved
  <2>3. CASE ShowsWhatEnded(c)
    <3>1. \A d \in View, f \in Element :
            items'[d][f] = IF d = c /\ f = e /\ planComplete[managerVehicle[c]]
                              /\ ~Busy(managerVehicle[c], e)
                           THEN managerItems[managerVehicle[c]][e] ELSE items[d][f]
      BY <1>1, <2>2, <2>3, ElementShown
    <3> QED
      BY <1>1, <1>2, <3>1 DEF FlyVehicle
  <2>4. CASE ~ShowsWhatEnded(c)
    BY <2>2, <2>4 DEF ShowsWhatEnded
  <2> QED
    BY <2>3, <2>4
<1>5. CASE MasterLoaded
  <2>1. \/ items' = items
        \/ /\ IsNextIn(toLoad[c], e)
           /\ items' = [items EXCEPT ![c] =
                          [f \in Element |-> IF f \in Skipped(e) THEN "Empty" ELSE @[f]]]
    BY <1>5 DEF MasterLoaded
  <2>2. c = "FlyView" => ~IsNextIn(toLoad[c], e)
    BY DEF IsNextIn, PlanTypeOK
  <2>3. items'["FlyView"] = items["FlyView"]
    BY <1>1, <1>2, <2>1, <2>2
  <2> QED
    BY <1>5, <2>3 DEF MasterLoaded, Called
<1>6. CASE MasterSent
  BY <1>6 DEF MasterSent, Called
<1> QED
  BY <1>3, <1>4, <1>5, <1>6 DEF ViewSlotIsCalled

\* What is shown comes from a manager.
LEMMA FlyViewItems ==
  ASSUME VehicleInv, PlanTypeOK, FramesOK, SyncNext, NEW f \in Element
  PROVE  \/ items'["FlyView"][f] \in {items["FlyView"][f], "Empty"}
         \/ \E w \in Vehicle : items'["FlyView"][f] = managerItems[w][f]
<1>1. CASE \/ EditPlan \/ LoadFromVehicle \/ SendToVehicle \/ ResumeMission
           \/ \E c \in View : RemoveAllFromVehicle(c)
           \/ \E v \in Vehicle : InitialRequest(v)
  BY <1>1, UserContinues
<1>2. CASE ViewSlotIsCalled
  <2>1. managerVehicle[Head(calls).controller] \in Vehicle
    BY <1>2, SlotOfView
  <2>2. \/ items'["FlyView"][f] = items["FlyView"][f]
        \/ /\ Head(calls).controller = "FlyView"
           /\ items'["FlyView"][f] = managerItems[FlyVehicle][f]
    BY <1>2, FlySlots
  <2> QED
    BY <2>1, <2>2 DEF FlyVehicle
<1>3. CASE ActiveVehicleChanged
  <2> DEFINE c == Head(calls).controller
             v == Head(calls).vehicle
  <2>1. c \in View /\ v \in Vehicle \cup {NoVehicle}
    <3>1. calls /= <<>> /\ Call(<<>>) /\ Head(calls).slot = "ActiveVehicleChanged"
      BY <1>3 DEF ActiveVehicleChanged, Called
    <3> QED
      BY <3>1, Pops, FrameFields DEF VehicleInv
  <2>2. \/ items' = items
        \/ items' = [items EXCEPT ![c] = Nothing]
        \/ v /= NoVehicle /\ ShowPlan(c, v)
    BY <1>3 DEF ActiveVehicleChanged
  <2> HIDE DEF c, v
  <2>3. items \in [View -> Plan] /\ "FlyView" \in View /\ Nothing[f] = "Empty"
    BY ViewsAre DEF PlanTypeOK, Nothing
  <2>4. CASE items' = items
    BY <2>4
  <2>5. CASE items' = [items EXCEPT ![c] = Nothing]
    BY <2>1, <2>3, <2>5
  <2>6. CASE v /= NoVehicle /\ ShowPlan(c, v)
    <3>1. /\ \A d \in View \ {c} : items'[d] = items[d]
          /\ \A g \in Element : items'[c][g] \in {managerItems[v][g], items[c][g]}
      BY <2>1, <2>6, PlanShown
    <3> QED
      BY <2>1, <2>3, <2>6, <3>1
  <2> QED
    BY <2>2, <2>4, <2>5, <2>6
<1>4. CASE \/ VehicleLoaded \/ VehicleIsActivated \/ VehicleIsDeleted \/ TimerFires
           \/ VehicleConnects \/ VehicleIsLost \/ UserSelects
           \/ \E v \in Vehicle, e \in Element : TransactionEnds(v, e)
  <2>1. items' = items
    BY <1>4 DEF VehicleLoaded, VehicleIsActivated, VehicleIsDeleted, TimerFires, VehicleConnects,
       VehicleIsLost, UserSelects, TransactionEnds, viewVars
  <2> QED
    BY <2>1
<1> QED
  BY <1>1, <1>2, <1>3, <1>4 DEF SyncNext, SlotIsCalled, ViewSlotIsCalled

LEMMA UnsupportedStaysEmpty ==
  ASSUME VehicleInv, PlanTypeOK, FramesOK, UnsupportedIsEmpty, UNCHANGED regime, SyncNext
  PROVE  UnsupportedIsEmpty'
<1> SUFFICES ASSUME NEW e \in Element, ~Supported(e)
             PROVE  /\ \A v \in Vehicle : /\ transaction'[v][e] = "None"
                                          /\ managerItems'[v][e] = "Empty"
                                          /\ vehiclePlan'[v][e] = "Empty"
                    /\ items'["FlyView"][e] = "Empty"
  BY DEF UnsupportedIsEmpty, Supported
<1>1. /\ \A v \in Vehicle : /\ transaction[v][e] = "None"
                            /\ managerItems[v][e] = "Empty" /\ vehiclePlan[v][e] = "Empty"
      /\ items["FlyView"][e] = "Empty"
  BY DEF UnsupportedIsEmpty
<1>2. items'["FlyView"][e] = "Empty"
  BY <1>1, FlyViewItems
<1>3. CASE Continues
  BY <1>1, <1>2, <1>3 DEF Continues
<1>4. ASSUME NEW v \in Vehicle, NEW f \in Element, TransactionEnds(v, f)
      PROVE  \A u \in Vehicle : /\ transaction'[u][e] = "None"
                                /\ managerItems'[u][e] = "Empty" /\ vehiclePlan'[u][e] = "Empty"
  <2>1. Busy(v, f)
    BY <1>4, TransactionEnded
  <2>2. f /= e
    BY <1>1, <2>1 DEF Busy
  <2>3. \A u \in Vehicle, g \in Element : u /= v \/ g /= f =>
          /\ transaction'[u][g] = transaction[u][g]
          /\ managerItems'[u][g] = managerItems[u][g] /\ vehiclePlan'[u][g] = vehiclePlan[u][g]
    BY <1>4, TransactionEnded
  <2> QED
    BY <1>1, <2>2, <2>3
<1>5. CASE VehicleIsDeleted
  <2>1. vehiclePlan' = vehiclePlan
    BY <1>5 DEF VehicleIsDeleted
  <2>2. \A u \in Vehicle : IF u = Head(vehiclesBeingDeleted)
          THEN \A g \in Element : transaction'[u][g] = "None" /\ managerItems'[u][g] = "Empty"
          ELSE transaction'[u] = transaction[u] /\ managerItems'[u] = managerItems[u]
    BY <1>5, DeletedTypes DEF VehicleInv
  <2> QED
    BY <1>1, <1>2, <2>1, <2>2
<1> QED
  BY <1>2, <1>3, <1>4, <1>5, StepsContinue
-----------------------------------------------------------------------------
(* The sequences of transactions go on *)

\* A sequence that goes on is not forgotten before what it transfers is known.
GoesOn(v) ==
  /\ \A e \in Element : Knows(v, e) => Knows(v, e)'
  /\ MissionGoesOn(v) \/ Fresh(v) =>
       \/ MissionGoesOn(v)' \/ Fresh(v)'
       \/ Knows(v, "Fence")' /\ (Knows(v, "Rally")' \/ FenceGoesOn(v)')
  /\ FenceGoesOn(v) => FenceGoesOn(v)' \/ Knows(v, "Rally")'
  /\ Busy(v, "Fence")' => Busy(v, "Fence") \/ Knows(v, "Rally")' \/ FenceGoesOn(v)'
StartsAnew(v) == Fresh(v)' /\ ~Busy(v, "Fence")'

LEMMA SequencesStay ==
  ASSUME SequencesGoOn, UNCHANGED regime,
         Undisturbed => \A v \in Vehicle : GoesOn(v) \/ StartsAnew(v)
  PROVE  SequencesGoOn'
<1> SUFFICES ASSUME Undisturbed, NEW v \in Vehicle
             PROVE  /\ Fresh(v)' \/ Knows(v, "Fence")' \/ MissionGoesOn(v)'
                    /\ Fresh(v)' \/ Knows(v, "Rally")' \/ MissionGoesOn(v)' \/ FenceGoesOn(v)'
                    /\ Busy(v, "Fence")' => Knows(v, "Rally")' \/ FenceGoesOn(v)'
  BY DEF SequencesGoOn, Undisturbed
<1>1. /\ Fresh(v) \/ Knows(v, "Fence") \/ MissionGoesOn(v)
      /\ Fresh(v) \/ Knows(v, "Rally") \/ MissionGoesOn(v) \/ FenceGoesOn(v)
      /\ Busy(v, "Fence") => Knows(v, "Rally") \/ FenceGoesOn(v)
  BY DEF SequencesGoOn
<1>2. "Fence" \in Element /\ "Rally" \in Element
  BY DEF Element
<1>3. CASE StartsAnew(v)
  BY <1>3 DEF StartsAnew
<1>4. CASE GoesOn(v)
  <2>1. /\ Knows(v, "Fence") => Knows(v, "Fence")'
        /\ Knows(v, "Rally") => Knows(v, "Rally")'
    BY <1>2, <1>4 DEF GoesOn
  <2> QED
    BY <1>1, <1>4, <2>1 DEF GoesOn
<1> QED
  BY <1>3, <1>4

\* The slots that carry the sequence of v on after e
KeepsTold(v, e) ==
  \A i \in DOMAIN calls :
    calls[i].element = e /\ (\/ calls[i].slot = "VehicleLoaded" /\ calls[i].vehicle = v
                             \/ calls[i].slot = "MasterSent" /\ calls[i].controller = "PlanView") =>
      \E j \in DOMAIN calls' : calls'[j] = calls[i]

LEMMA MissionKept ==
  ASSUME NEW v \in Vehicle, UNCHANGED managerVehicle, KeepsTold(v, "Mission"),
         transaction[v]["Mission"] /= "None" =>
           transaction'[v]["Mission"] = transaction[v]["Mission"],
         "Fence" \in requested'[v] => "Fence" \in requested[v],
         "Fence" \in toSend["PlanView"] => "Fence" \in toSend'["PlanView"]
  PROVE  MissionGoesOn(v) => MissionGoesOn(v)'
<1>0. "Mission" \in Element /\ NextElement["Mission"] = "Fence"
  BY InSequence DEF Element
<1>1. /\ transaction[v]["Mission"] = "Read" => transaction'[v]["Mission"] = "Read"
      /\ transaction[v]["Mission"] = "Write" => transaction'[v]["Mission"] = "Write"
  OBVIOUS
<1>2. VehicleIsTold(v, "Mission") => VehicleIsTold(v, "Mission")'
  BY DEF VehicleIsTold, KeepsTold
<1>3. Reports({"MasterSent"}, "PlanView", "Mission") => Reports({"MasterSent"}, "PlanView", "Mission")'
  BY DEF Reports, KeepsTold
<1> QED
  BY <1>0, <1>1, <1>2, <1>3 DEF MissionGoesOn, ReadGoesOn, SendGoesOn

LEMMA FenceKept ==
  ASSUME NEW v \in Vehicle, UNCHANGED managerVehicle, KeepsTold(v, "Fence"),
         transaction[v]["Fence"] /= "None" =>
           transaction'[v]["Fence"] = transaction[v]["Fence"],
         "Rally" \in toSend["PlanView"] => "Rally" \in toSend'["PlanView"]
  PROVE  FenceGoesOn(v) => FenceGoesOn(v)'
<1>0. "Fence" \in Element /\ NextElement["Fence"] = "Rally"
  BY InSequence DEF Element
<1>1. /\ transaction[v]["Fence"] = "Read" => transaction'[v]["Fence"] = "Read"
      /\ transaction[v]["Fence"] = "Write" => transaction'[v]["Fence"] = "Write"
  OBVIOUS
<1>2. VehicleIsTold(v, "Fence") => VehicleIsTold(v, "Fence")'
  BY DEF VehicleIsTold, KeepsTold
<1>3. Reports({"MasterSent"}, "PlanView", "Fence") => Reports({"MasterSent"}, "PlanView", "Fence")'
  BY DEF Reports, KeepsTold
<1> QED
  BY <1>0, <1>1, <1>2, <1>3 DEF FenceGoesOn, SendGoesOn

\* A handler that returns forgets but its own call.
LEMMA PopKeepsTold ==
  ASSUME VehicleTypeOK, calls /= <<>>, Call(<<>>), NEW v, NEW e,
         \/ Head(calls).slot \notin {"VehicleLoaded", "MasterSent"}
         \/ Head(calls).element /= e
         \/ Head(calls).slot = "VehicleLoaded" /\ Head(calls).vehicle /= v
         \/ Head(calls).slot = "MasterSent" /\ Head(calls).controller /= "PlanView"
  PROVE  KeepsTold(v, e)
<1>1. /\ Head(calls) = calls[1]
      /\ \A i \in DOMAIN calls : i = 1 \/ (i - 1 \in DOMAIN calls' /\ calls'[i - 1] = calls[i])
  BY Pops
<1> QED
  BY <1>1 DEF KeepsTold

LEMMA IdleKeepsTold == ASSUME Idle, NEW v, NEW e PROVE KeepsTold(v, e)
BY DEF Idle, KeepsTold

\* A step that starts nothing and forgets no call
LEMMA SequenceKept ==
  ASSUME NEW v \in Vehicle, UNCHANGED <<managerVehicle, toSend>>,
         \A e \in Element : Knows(v, e) => Knows(v, e)',
         transaction'[v] = transaction[v], requested'[v] = requested[v],
         managerItems'[v]["Mission"] = managerItems[v]["Mission"],
         KeepsTold(v, "Mission"), KeepsTold(v, "Fence")
  PROVE  GoesOn(v)
<1>2. (MissionGoesOn(v) => MissionGoesOn(v)') /\ (FenceGoesOn(v) => FenceGoesOn(v)')
  BY MissionKept, FenceKept
<1>3. (Fresh(v) => Fresh(v)') /\ (Busy(v, "Fence")' => Busy(v, "Fence"))
  BY DEF Fresh, Busy
<1> QED
  BY <1>2, <1>3 DEF GoesOn

LEMMA UserSequences ==
  ASSUME VehicleInv, PlanTypeOK, FramesOK, UnsupportedIsEmpty, NEW v \in Vehicle,
         \/ EditPlan \/ LoadFromVehicle \/ SendToVehicle \/ ResumeMission
         \/ \E c \in View : RemoveAllFromVehicle(c)
         \/ \E w \in Vehicle : InitialRequest(w)
  PROVE  GoesOn(v)
<1>1. Idle /\ Continues /\ UNCHANGED managerVehicle
  BY UserContinues
<1>2. KeepsTold(v, "Mission") /\ KeepsTold(v, "Fence")
  BY <1>1, IdleKeepsTold
<1>3. \A e \in Element : Knows(v, e) => Knows(v, e)'
  BY <1>1, KnowledgeKept
<1>4. "Mission" \in Element /\ "Fence" \in Element /\ "Rally" \in Element
      /\ NextElement["Mission"] = "Fence"
  BY InSequence DEF Element
<1>5. /\ "Fence" \in requested'[v] => "Fence" \in requested[v]
      /\ "Fence" \in toSend["PlanView"] => "Fence" \in toSend'["PlanView"]
      /\ "Rally" \in toSend["PlanView"] => "Rally" \in toSend'["PlanView"]
  <2>1. CASE EditPlan \/ LoadFromVehicle \/ ResumeMission \/ \E c \in View : RemoveAllFromVehicle(c)
    BY <2>1 DEF EditPlan, LoadFromVehicle, ResumeMission, RemoveAllFromVehicle, May
  <2>2. CASE SendToVehicle
    BY <2>2, ViewsAre DEF SendToVehicle, May, PlanTypeOK
  <2>3. CASE \E w \in Vehicle : InitialRequest(w)
    BY <2>3 DEF InitialRequest, viewVars, PlanTypeOK
  <2> QED
    BY <2>1, <2>2, <2>3
<1>6. (MissionGoesOn(v) => MissionGoesOn(v)') /\ (FenceGoesOn(v) => FenceGoesOn(v)')
  <2>1. \A f \in Element : transaction[v][f] /= "None" => transaction'[v][f] = transaction[v][f]
    BY <1>1 DEF Continues, Busy
  <2> QED
    BY <1>1, <1>2, <1>4, <1>5, <2>1, MissionKept, FenceKept
<1>7. /\ Fresh(v) => \/ MissionGoesOn(v)' \/ Fresh(v)'
                     \/ Knows(v, "Fence")' /\ Knows(v, "Rally")'
      /\ Busy(v, "Fence")' => Busy(v, "Fence") \/ Knows(v, "Rally")'
  <2>1. CASE EditPlan
    BY <2>1 DEF EditPlan, May, Fresh, Busy
  <2>2. CASE LoadFromVehicle
    <3> DEFINE w == managerVehicle["PlanView"]
    <3>1. /\ Start(w, "Mission", "Read") /\ w /= NoVehicle /\ ~SyncInProgress(w)
          /\ UNCHANGED <<managerItems, requested>>
      BY <2>2 DEF LoadFromVehicle, May
    <3>2. w \in Vehicle
      BY <1>1, <3>1, ViewVehicle, ViewsAre
    <3> HIDE DEF w
    <3>3. \A u \in Vehicle, f \in Element :
            transaction'[u][f] = IF u = w /\ f = "Mission" /\ ~Busy(w, "Mission") THEN "Read"
                                 ELSE transaction[u][f]
      BY <1>4, <3>1, <3>2, Started DEF Transaction
    <3>4. Busy(v, "Fence")' => Busy(v, "Fence")
      BY <1>4, <3>3 DEF Busy
    <3>5. Fresh(v) => Fresh(v)' \/ ReadGoesOn(v)'
      BY <1>4, <3>1, <3>3 DEF Fresh, ReadGoesOn, Busy
    <3> QED
      BY <3>4, <3>5 DEF MissionGoesOn
  <2>3. CASE SendToVehicle
    <3> DEFINE w == managerVehicle["PlanView"]
    <3>1. /\ Start(w, "Mission", "Write") /\ w /= NoVehicle
          /\ UNCHANGED <<managerItems, requested>>
          /\ "Fence" \in toSend'["PlanView"]
      BY <2>3, ViewsAre DEF SendToVehicle, StartWrite, May, PlanTypeOK
    <3>2. w \in Vehicle /\ managerVehicle'["PlanView"] = w
      BY <1>1, <3>1, ViewVehicle, ViewsAre
    <3> HIDE DEF w
    <3>3. \A u \in Vehicle, f \in Element :
            transaction'[u][f] = IF u = w /\ f = "Mission" /\ ~Busy(w, "Mission") THEN "Write"
                                 ELSE transaction[u][f]
      BY <1>4, <3>1, <3>2, Started DEF Transaction
    <3>4. Busy(v, "Fence")' => Busy(v, "Fence")
      BY <1>4, <3>3 DEF Busy
    <3>5. Fresh(v) => Fresh(v)' \/ SendGoesOn(v, "Mission")'
      BY <1>4, <3>1, <3>2, <3>3 DEF Fresh, SendGoesOn, Busy
    <3> QED
      BY <3>4, <3>5 DEF MissionGoesOn
  <2>4. CASE ResumeMission
    <3> DEFINE w == managerVehicle["FlyView"]
    <3>1. /\ Start(w, "Mission", "Write") /\ w /= NoVehicle
          /\ managerItems[w]["Mission"] /= "Empty" /\ UNCHANGED <<managerItems, requested>>
      BY <2>4 DEF ResumeMission, StartWrite, May
    <3>2. w \in Vehicle
      BY <1>1, <3>1, ViewVehicle, ViewsAre
    <3> HIDE DEF w
    <3>3. \A u \in Vehicle, f \in Element :
            transaction'[u][f] = IF u = w /\ f = "Mission" /\ ~Busy(w, "Mission") THEN "Write"
                                 ELSE transaction[u][f]
      BY <1>4, <3>1, <3>2, Started DEF Transaction
    <3>4. Busy(v, "Fence")' => Busy(v, "Fence")
      BY <1>4, <3>3 DEF Busy
    <3>5. Fresh(v) => Fresh(v)'
      BY <1>4, <3>1, <3>3 DEF Fresh
    <3> QED
      BY <3>4, <3>5
  <2>5. ASSUME NEW c \in View, RemoveAllFromVehicle(c)
        PROVE  /\ Fresh(v) => Fresh(v)' \/ (Knows(v, "Fence")' /\ Knows(v, "Rally")')
               /\ Busy(v, "Fence")' => Busy(v, "Fence") \/ Knows(v, "Rally")'
    <3> DEFINE w == managerVehicle[c]
    <3>1. UNCHANGED requested
      BY <2>5 DEF RemoveAllFromVehicle, May
    <3>2. w \in Vehicle \cup {NoVehicle}
      BY DEF VehicleInv, VehicleTypeOK
    <3>3. \A u \in Vehicle, f \in Element :
            /\ transaction'[u][f] = IF u = w /\ Supported(f) /\ ~Busy(w, f) THEN "RemoveAll"
                                    ELSE transaction[u][f]
            /\ managerItems'[u][f] = IF u = w /\ Supported(f) /\ ~Busy(w, f) THEN "Empty"
                                     ELSE managerItems[u][f]
      BY <2>5, <3>2, AllRemoved
    <3> HIDE DEF w
    <3>4. CASE v = w
      <4>1. ASSUME NEW f \in Element PROVE Knows(v, f)'
        <5>1. CASE Supported(f)
          BY <3>3, <3>4, <5>1 DEF Knows, Busy
        <5>2. CASE ~Supported(f)
          BY <1>3, <5>2 DEF UnsupportedIsEmpty, Knows
        <5> QED
          BY <5>1, <5>2
      <4> QED
        BY <1>4, <4>1
    <3>5. CASE v /= w
      BY <1>4, <3>1, <3>3, <3>5 DEF Fresh, Busy
    <3> QED
      BY <3>4, <3>5
  <2>6. ASSUME NEW w \in Vehicle, InitialRequest(w)
        PROVE  /\ Fresh(v) => Fresh(v)' \/ MissionGoesOn(v)'
               /\ Busy(v, "Fence")' => Busy(v, "Fence")
    <3>1. /\ Start(w, "Mission", "Read") /\ UNCHANGED managerItems
          /\ requested' = [requested EXCEPT ![w] = @ \cup {"Mission"}]
      BY <2>6 DEF InitialRequest
    <3>2. \A u \in Vehicle, f \in Element :
            transaction'[u][f] = IF u = w /\ f = "Mission" /\ ~Busy(w, "Mission") THEN "Read"
                                 ELSE transaction[u][f]
      BY <1>4, <3>1, Started DEF Transaction
    <3>3. Busy(v, "Fence")' => Busy(v, "Fence")
      BY <1>4, <3>2 DEF Busy
    <3>4. Fresh(v) => Fresh(v)' \/ ReadGoesOn(v)'
      BY <1>4, <3>1, <3>2 DEF Fresh, ReadGoesOn, Busy, PlanTypeOK
    <3> QED
      BY <3>3, <3>4 DEF MissionGoesOn
  <2> QED
    BY <2>1, <2>2, <2>3, <2>4, <2>5, <2>6
<1> QED
  BY <1>3, <1>6, <1>7 DEF GoesOn

LEMMA QuietSequences ==
  ASSUME VehicleInv, NEW v \in Vehicle,
         VehicleIsActivated \/ TimerFires \/ VehicleConnects \/ VehicleIsLost \/ UserSelects
  PROVE  GoesOn(v)
<1>1. Continues /\ UNCHANGED <<transaction, managerItems, vehiclePlan, requested>>
  BY OtherContinues
<1>2. UNCHANGED <<managerVehicle, toSend>>
  BY DEF VehicleIsActivated, TimerFires, VehicleConnects, VehicleIsLost, UserSelects, May, viewVars
<1>3. KeepsTold(v, "Mission") /\ KeepsTold(v, "Fence")
  <2>1. CASE VehicleIsActivated
    <3>1. calls /= <<>> /\ Call(<<>>) /\ Head(calls).slot = "VehicleActivated"
      BY <2>1 DEF VehicleIsActivated, VehicleActivated, Called
    <3> QED
      BY <3>1, PopKeepsTold DEF VehicleInv
  <2>2. CASE TimerFires \/ VehicleConnects \/ VehicleIsLost \/ UserSelects
    <3>1. Idle
      BY <2>2, TimerCalls DEF VehicleConnects, VehicleHeartbeatInfo, VehicleIsLost, UserSelects, May
    <3> QED
      BY <3>1, IdleKeepsTold
  <2> QED
    BY <2>1, <2>2
<1>4. \A e \in Element : Knows(v, e) => Knows(v, e)'
  BY <1>1, KnowledgeKept
<1> QED
  BY <1>1, <1>2, <1>3, <1>4, SequenceKept

\* What the views' slots leave as it is
LEMMA SlotKnowledge ==
  ASSUME VehicleInv, PlanTypeOK, FramesOK, ViewSlotIsCalled, NEW v \in Vehicle
  PROVE  /\ \A e \in Element : Knows(v, e) => Knows(v, e)'
         /\ \A e \in Element :
              transaction[v][e] /= "None" => transaction'[v][e] = transaction[v][e]
         /\ UNCHANGED <<managerVehicle, requested, managerItems>>
<1>1. Continues
  BY SlotContinues
<1>2. \A e \in Element : Knows(v, e) => Knows(v, e)'
  BY <1>1, KnowledgeKept
<1> QED
  BY <1>1, <1>2, SlotOfView DEF Continues, Busy

LEMMA LoadedSequences ==
  ASSUME VehicleInv, PlanTypeOK, FramesOK, NEW v \in Vehicle, Loaded \/ SentOrRemoved
  PROVE  GoesOn(v)
<1>1. ViewSlotIsCalled
  BY DEF ViewSlotIsCalled
<1>2. UNCHANGED <<transaction, toSend>> /\ Head(calls).slot \notin {"VehicleLoaded", "MasterSent"}
  BY DEF Loaded, SentOrRemoved, Called
<1>3. calls /= <<>> /\ Call(<<>>)
  BY <1>1, SlotOfView
<1>4. KeepsTold(v, "Mission") /\ KeepsTold(v, "Fence")
  BY <1>2, <1>3, PopKeepsTold DEF VehicleInv
<1> QED
  BY <1>1, <1>2, <1>4, SlotKnowledge, SequenceKept

LEMMA MasterLoadedSequences ==
  ASSUME VehicleInv, PlanTypeOK, FramesOK, NEW v \in Vehicle, MasterLoaded
  PROVE  GoesOn(v)
<1>1. ViewSlotIsCalled
  BY DEF ViewSlotIsCalled
<1>2. UNCHANGED toSend /\ Head(calls).slot \notin {"VehicleLoaded", "MasterSent"}
  BY DEF MasterLoaded, Called
<1>3. calls /= <<>> /\ Call(<<>>) /\ managerVehicle[Head(calls).controller] \in Vehicle
  BY <1>1, SlotOfView
<1>4. KeepsTold(v, "Mission") /\ KeepsTold(v, "Fence")
  BY <1>2, <1>3, PopKeepsTold DEF VehicleInv
<1>5. "Mission" \in Element /\ "Fence" \in Element
  BY DEF Element
<1>6. (MissionGoesOn(v) => MissionGoesOn(v)') /\ (FenceGoesOn(v) => FenceGoesOn(v)')
  BY <1>1, <1>2, <1>4, <1>5, SlotKnowledge, MissionKept, FenceKept
<1>7. /\ transaction'[v]["Mission"] = transaction[v]["Mission"]
      /\ transaction'[v]["Fence"] = transaction[v]["Fence"] \/ transaction'[v]["Fence"] = "Read"
  <2>1. CASE UNCHANGED transaction
    BY <2>1
  <2>2. CASE ~UNCHANGED transaction
    <3> DEFINE c == Head(calls).controller
    <3> DEFINE w == managerVehicle[c]
    <3> DEFINE t == Target(Head(calls).element)
    <3>1. t \in Element \ {"Mission"} /\ Start(w, t, "Read") /\ w \in Vehicle
      BY <1>3, <2>2, NextStarts
    <3> HIDE DEF c, w, t
    <3>2. \A u \in Vehicle, f \in Element :
            transaction'[u][f] = IF u = w /\ f = t /\ ~Busy(w, t) THEN "Read" ELSE transaction[u][f]
      BY <3>1, Started DEF Transaction
    <3> QED
      BY <1>5, <3>1, <3>2
  <2> QED
    BY <2>1, <2>2
<1>8. Fresh(v) => Fresh(v)'
  BY <1>1, <1>7, SlotKnowledge DEF Fresh
<1>9. Busy(v, "Fence")' => Busy(v, "Fence") \/ FenceGoesOn(v)'
  BY <1>7 DEF Busy, FenceGoesOn
<1> QED
  BY <1>1, <1>6, <1>8, <1>9, SlotKnowledge DEF GoesOn

LEMMA UnsupportedIsKnown ==
  ASSUME UnsupportedIsEmpty, UNCHANGED <<managerItems, vehiclePlan>>, NEW v \in Vehicle,
         NEW e \in Element, ~Supported(e)
  PROVE  Knows(v, e)'
BY DEF UnsupportedIsEmpty, Knows

LEMMA MasterSentSequences ==
  ASSUME VehicleInv, PlanTypeOK, FramesOK, UnsupportedIsEmpty, SequencesGoOn, Undisturbed,
         NEW v \in Vehicle, MasterSent
  PROVE  GoesOn(v)
<1> DEFINE c == Head(calls).controller
<1> DEFINE e == Head(calls).element
<1> DEFINE w == managerVehicle[c]
<1> DEFINE flags == toSend["PlanView"]
<1>1. ViewSlotIsCalled
  BY DEF ViewSlotIsCalled
<1>2. Head(calls).slot = "MasterSent"
  BY DEF MasterSent, Called
<1>3. /\ calls /= <<>> /\ Call(<<>>) /\ c \in View /\ e \in Element /\ w \in Vehicle
      /\ UNCHANGED <<managerItems, vehiclePlan>>
  BY <1>1, SlotOfView
<1>4. /\ "Mission" \in Element /\ "Fence" \in Element /\ "Rally" \in Element
      /\ NextElement["Mission"] = "Fence" /\ NextElement["Fence"] = "Rally"
  BY InSequence DEF Element
<1>5. /\ \A f \in Element : Knows(v, f) => Knows(v, f)'
      /\ \A f \in Element : transaction[v][f] /= "None" => transaction'[v][f] = transaction[v][f]
      /\ UNCHANGED <<managerVehicle, requested>> /\ managerItems' = managerItems
  BY <1>1, SlotKnowledge
<1>6. \/ UNCHANGED <<transaction, toSend>> /\ ~IsNextIn(toSend[c], e)
      \/ /\ c = "PlanView" /\ IsNextIn(flags, e) /\ toSend'["PlanView"] = FlagsAfter(flags, e)
         /\ IF TargetIsIdle(w, e) THEN Start(w, Target(e), "Write") ELSE UNCHANGED transaction
  <2>1. CASE ~IsNextIn(toSend[c], e)
    BY <2>1 DEF MasterSent
  <2>2. CASE IsNextIn(toSend[c], e)
    <3>1. c = "PlanView"
      BY <1>3, <2>2, ViewsAre DEF IsNextIn, PlanTypeOK
    <3>2. /\ toSend' = [toSend EXCEPT ![c] = FlagsAfter(@, e)]
          /\ IF TargetIsIdle(w, e) THEN Start(w, Target(e), "Write") ELSE UNCHANGED transaction
      BY <2>2 DEF MasterSent, StartWrite
    <3> QED
      BY <2>2, <3>1, <3>2, ViewsAre DEF PlanTypeOK
  <2> QED
    BY <2>1, <2>2
<1>7. flags \in SUBSET Element
  BY ViewsAre DEF PlanTypeOK
<1>8. \A f \in Element : f /= e \/ c /= "PlanView" => KeepsTold(v, f)
  BY <1>2, <1>3, PopKeepsTold DEF VehicleInv
<1>9. \A f \in Element : VehicleIsTold(v, f) => VehicleIsTold(v, f)'
  BY <1>2, <1>3, ReportsPop DEF VehicleInv
<1> HIDE DEF c, e, w, flags
<1>10. CASE ~IsNextIn(flags, e) \/ c /= "PlanView"
  <2>1. UNCHANGED <<transaction, toSend>>
    BY <1>6, <1>10
  <2>2. MissionGoesOn(v) => MissionGoesOn(v)'
    <3>1. CASE e = "Mission" /\ c = "PlanView"
      <4>1. "Fence" \notin flags
        BY <1>4, <1>10, <3>1 DEF IsNextIn
      <4> QED
        BY <1>4, <1>5, <1>9, <2>1, <4>1 DEF MissionGoesOn, ReadGoesOn, SendGoesOn, flags
    <3>2. CASE e /= "Mission" \/ c /= "PlanView"
      BY <1>4, <1>5, <1>8, <2>1, <3>2, MissionKept
    <3> QED
      BY <3>1, <3>2
  <2>3. FenceGoesOn(v) => FenceGoesOn(v)'
    <3>1. CASE e = "Fence" /\ c = "PlanView"
      <4>1. "Rally" \notin flags
        BY <1>4, <1>10, <3>1 DEF IsNextIn
      <4> QED
        BY <1>4, <1>5, <1>9, <2>1, <4>1 DEF FenceGoesOn, SendGoesOn, flags
    <3>2. CASE e /= "Fence" \/ c /= "PlanView"
      BY <1>4, <1>5, <1>8, <2>1, <3>2, FenceKept
    <3> QED
      BY <3>1, <3>2
  <2>4. (Fresh(v) => Fresh(v)') /\ (Busy(v, "Fence")' => Busy(v, "Fence"))
    BY <1>5, <2>1 DEF Fresh, Busy
  <2> QED
    BY <1>5, <2>2, <2>3, <2>4 DEF GoesOn
<1>11. CASE IsNextIn(flags, e) /\ c = "PlanView"
  <2>1. /\ toSend'["PlanView"] = FlagsAfter(flags, e)
        /\ IF TargetIsIdle(w, e) THEN Start(w, Target(e), "Write") ELSE UNCHANGED transaction
    BY <1>6, <1>11 DEF c, flags
  <2>2. e = "Mission" \/ e = "Fence"
    BY <1>3, <1>11 DEF IsNextIn, Element
  <2>3. Target(e) \in Element \/ Target(e) = "None"
    BY <1>4, <2>2, AfterMission, AfterFence
  <2>4. /\ \A u \in Vehicle, f \in Element :
             transaction'[u][f] = IF u = w /\ f = Target(e) /\ TargetIsIdle(w, e) THEN "Write"
                                  ELSE transaction[u][f]
        /\ Target(e) /= "None" => transaction'[w][Target(e)] /= "None"
    <3>1. CASE TargetIsIdle(w, e)
      <4>1. Target(e) \in Element /\ ~Busy(w, Target(e))
        BY <2>3, <3>1 DEF TargetIsIdle
      <4>2. \A u \in Vehicle, f \in Element :
              transaction'[u][f] = IF u = w /\ f = Target(e) /\ ~Busy(w, Target(e)) THEN "Write"
                                   ELSE transaction[u][f]
        BY <1>3, <2>1, <3>1, <4>1, Started DEF Transaction
      <4> QED
        BY <1>3, <3>1, <4>1, <4>2
    <3>2. CASE ~TargetIsIdle(w, e)
      BY <2>1, <3>2 DEF TargetIsIdle, Busy
    <3> QED
      BY <3>1, <3>2
  <2>5. \A u \in Vehicle : transaction'[u]["Mission"] = transaction[u]["Mission"]
    BY <1>4, <2>2, <2>4, AfterMission, AfterFence
  <2>6. Fresh(v) => Fresh(v)'
    BY <1>5, <2>5 DEF Fresh
  <2>7. w = managerVehicle["PlanView"]
    BY <1>11 DEF w
  <2>8. CASE v /= w
    <3>1. ~SendGoesOn(v, "Mission") /\ ~SendGoesOn(v, "Fence")
      BY <2>7, <2>8 DEF SendGoesOn
    <3>2. transaction'[v]["Mission"] = transaction[v]["Mission"]
          /\ transaction'[v]["Fence"] = transaction[v]["Fence"]
      BY <1>4, <2>4, <2>8
    <3>3. MissionGoesOn(v) => MissionGoesOn(v)'
      BY <1>4, <1>5, <1>9, <3>1, <3>2 DEF MissionGoesOn, ReadGoesOn
    <3>4. FenceGoesOn(v) => FenceGoesOn(v)'
      BY <1>4, <1>5, <1>9, <3>1, <3>2 DEF FenceGoesOn
    <3>5. Busy(v, "Fence")' => Busy(v, "Fence")
      BY <3>2 DEF Busy
    <3> QED
      BY <1>5, <2>6, <3>3, <3>4, <3>5 DEF GoesOn
  <2>9. CASE v = w /\ e = "Mission" /\ Supported("Fence")
    <3>1. Target(e) = "Fence" /\ "Rally" \in toSend'["PlanView"]
      BY <1>7, <2>1, <2>9, AfterMission, FlagsLeft
    <3>2. transaction'[v]["Fence"] /= "None"
      BY <2>4, <2>9, <3>1
    <3>3. FenceGoesOn(v) => FenceGoesOn(v)'
      BY <1>4, <1>5, <1>8, <2>9, <3>1, FenceKept
    <3>4. Knows(v, "Rally")' \/ FenceGoesOn(v)'
      <4>1. CASE Busy(v, "Fence")
        BY <1>4, <1>5, <3>3, <4>1 DEF SequencesGoOn
      <4>2. CASE ~Busy(v, "Fence")
        <5>1. transaction'[v]["Fence"] = "Write"
          BY <1>4, <2>4, <2>9, <3>1, <4>2 DEF TargetIsIdle
        <5>2. SendGoesOn(v, "Fence")'
          BY <1>4, <1>5, <2>7, <2>9, <3>1, <5>1 DEF SendGoesOn
        <5> QED
          BY <5>2 DEF FenceGoesOn
      <4> QED
        BY <4>1, <4>2
    <3> QED
      BY <1>5, <3>2, <3>3, <3>4 DEF GoesOn, Knows, Busy
  <2>10. CASE v = w /\ e = "Mission" /\ ~Supported("Fence")
    <3>1. Knows(v, "Fence")'
      BY <1>3, <1>4, <2>10, UnsupportedIsKnown
    <3>2. Knows(v, "Rally")'
      <4>1. CASE Supported("Rally")
        BY <1>4, <2>4, <2>10, <4>1, AfterMission DEF Knows, Busy
      <4>2. CASE ~Supported("Rally")
        BY <1>3, <1>4, <4>2, UnsupportedIsKnown
      <4> QED
        BY <4>1, <4>2
    <3> QED
      BY <1>5, <3>1, <3>2 DEF GoesOn
  <2>11. CASE v = w /\ e = "Fence"
    <3>1. Knows(v, "Rally")'
      <4>1. CASE Supported("Rally")
        BY <1>4, <2>4, <2>11, <4>1, AfterFence DEF Knows, Busy
      <4>2. CASE ~Supported("Rally")
        BY <1>3, <1>4, <4>2, UnsupportedIsKnown
      <4> QED
        BY <4>1, <4>2
    <3>2. "Fence" \in flags => "Fence" \in toSend'["PlanView"]
      BY <1>7, <2>1, <2>11, FlagsLeft
    <3>3. MissionGoesOn(v) => MissionGoesOn(v)'
      BY <1>4, <1>5, <1>8, <2>11, <3>2, MissionKept DEF flags
    <3> QED
      BY <1>5, <2>6, <3>1, <3>3 DEF GoesOn
  <2> QED
    BY <2>2, <2>8, <2>9, <2>10, <2>11
<1> QED
  BY <1>10, <1>11

LEMMA VehicleLoadedSequences ==
  ASSUME VehicleInv, PlanTypeOK, FramesOK, UnsupportedIsEmpty, RequestedIsKnown, SequencesGoOn,
         Undisturbed, NEW v \in Vehicle, VehicleLoaded
  PROVE  GoesOn(v)
<1> DEFINE w == Head(calls).vehicle
<1> DEFINE e == Head(calls).element
<1>1. Head(calls).slot = "VehicleLoaded"
  BY DEF VehicleLoaded, Called
<1>2. /\ calls /= <<>> /\ Call(<<>>) /\ w \in Vehicle /\ e \in Element
      /\ UNCHANGED <<managerItems, vehiclePlan, managerVehicle, toSend>>
  BY LoadedByVehicle DEF VehicleInv
<1>3. /\ \A f \in Element : Knows(v, f) => Knows(v, f)'
      /\ \A f \in Element : transaction[v][f] /= "None" => transaction'[v][f] = transaction[v][f]
  <2>1. Continues
    BY LoadedContinues
  <2>2. \A f \in Element : Knows(v, f) => Knows(v, f)'
    BY <2>1, KnowledgeKept
  <2> QED
    BY <2>1, <2>2 DEF Continues, Busy
<1>4. "Mission" \in Element /\ "Fence" \in Element /\ "Rally" \in Element
  BY DEF Element
<1>5. \A f \in Element : f /= e \/ v /= w => KeepsTold(v, f)
  BY <1>1, <1>2, PopKeepsTold DEF VehicleInv
<1>6. Reports({"MasterSent"}, "PlanView", "Mission") =>
        Reports({"MasterSent"}, "PlanView", "Mission")'
  BY <1>1, <1>2, ReportsPop DEF VehicleInv
<1>7. Knows(w, e)
  <2>1. Head(calls) = calls[1] /\ 1 \in DOMAIN calls
    BY <1>2, Pops DEF VehicleInv
  <2> QED
    BY <1>1, <2>1 DEF FramesOK
<1>8. /\ v /= w => transaction'[v] = transaction[v] /\ requested'[v] = requested[v]
      /\ e = "Rally" => UNCHANGED <<transaction, requested>>
      /\ e = "Mission" /\ "Fence" \in requested[w] => UNCHANGED <<transaction, requested>>
      /\ \A f \in Element :
              \/ transaction'[w][f] = transaction[w][f]
              \/ ~Busy(w, f) /\ Supported(f) /\ f /= "Mission" /\ transaction'[w][f] = "Read"
      /\ e = "Mission" /\ "Fence" \notin requested[w] /\ Supported("Fence") =>
           transaction'[w]["Fence"] /= "None"
      /\ e = "Fence" \/ (e = "Mission" /\ "Fence" \notin requested[w] /\ ~Supported("Fence")) =>
           "Rally" \in requested[w] \/ ~Supported("Rally") \/ transaction'[w]["Rally"] /= "None"
      /\ e = "Fence" => transaction'[w]["Fence"] = transaction[w]["Fence"]
  BY LoadedByVehicle DEF VehicleInv
<1> HIDE DEF w, e
<1>9. CASE v /= w
  <2>1. KeepsTold(v, "Mission") /\ KeepsTold(v, "Fence")
    BY <1>4, <1>5, <1>9
  <2> QED
    BY <1>2, <1>3, <1>8, <1>9, <2>1, SequenceKept
<1>10. CASE v = w /\ e = "Rally"
  <2>1. KeepsTold(v, "Mission") /\ KeepsTold(v, "Fence")
    BY <1>4, <1>5, <1>10
  <2> QED
    BY <1>2, <1>3, <1>8, <1>10, <2>1, SequenceKept
<1>11. (e = "Mission" => (FenceGoesOn(v) => FenceGoesOn(v)'))
  BY <1>2, <1>3, <1>4, <1>5, FenceKept
<1>12. CASE v = w /\ e = "Mission" /\ "Fence" \in requested[v]
  <2>1. UNCHANGED <<transaction, requested>>
    BY <1>8, <1>12
  <2>2. MissionGoesOn(v) => MissionGoesOn(v)'
    <3>1. ~ReadGoesOn(v)
      BY <1>12 DEF ReadGoesOn
    <3>2. SendGoesOn(v, "Mission") => SendGoesOn(v, "Mission")'
      BY <1>2, <1>6, <2>1, InSequence DEF SendGoesOn
    <3> QED
      BY <3>1, <3>2 DEF MissionGoesOn
  <2>3. ~Fresh(v)
    BY <1>12 DEF Fresh
  <2>4. Busy(v, "Fence")' => Busy(v, "Fence")
    BY <2>1 DEF Busy
  <2> QED
    BY <1>3, <1>11, <1>12, <2>2, <2>3, <2>4 DEF GoesOn
<1>13. ASSUME v = w, e \in {"Mission", "Fence"}, e = "Mission" => "Fence" \notin requested[v],
              e = "Fence" \/ ~Supported("Fence")
       PROVE  Knows(v, "Rally")'
  <2>1. "Rally" \in requested[v] \/ ~Supported("Rally") \/ transaction'[v]["Rally"] /= "None"
    BY <1>8, <1>13
  <2>2. CASE Supported("Rally") /\ "Rally" \in requested[v]
    BY <1>3, <1>4, <2>2 DEF RequestedIsKnown
  <2>3. CASE ~Supported("Rally")
    BY <1>2, <1>4, <2>3, UnsupportedIsKnown
  <2>4. CASE transaction'[v]["Rally"] /= "None"
    BY <2>4 DEF Knows, Busy
  <2> QED
    BY <2>1, <2>2, <2>3, <2>4
<1>14. CASE v = w /\ e = "Mission" /\ "Fence" \notin requested[v]
  <2>1. Busy(v, "Fence")' => Busy(v, "Fence") \/ FenceGoesOn(v)'
    BY <1>4, <1>8, <1>14 DEF Busy, FenceGoesOn
  <2>2. CASE Supported("Fence")
    <3>1. Busy(v, "Fence")'
      BY <1>8, <1>14, <2>2 DEF Busy
    <3>2. Busy(v, "Fence") => Knows(v, "Rally") \/ FenceGoesOn(v)
      BY DEF SequencesGoOn
    <3>3. Knows(v, "Rally")' \/ FenceGoesOn(v)'
      BY <1>3, <1>4, <1>11, <1>14, <2>1, <3>1, <3>2
    <3>4. Knows(v, "Fence")'
      BY <3>1 DEF Knows
    <3> QED
      BY <1>3, <1>11, <1>14, <2>1, <3>3, <3>4 DEF GoesOn
  <2>3. CASE ~Supported("Fence")
    <3>1. Knows(v, "Fence")'
      BY <1>2, <1>4, <2>3, UnsupportedIsKnown
    <3> QED
      BY <1>3, <1>13, <1>14, <2>3, <3>1 DEF GoesOn
  <2> QED
    BY <2>2, <2>3
<1>15. CASE v = w /\ e = "Fence"
  <2>1. Knows(v, "Fence")'
    BY <1>3, <1>4, <1>7, <1>15
  <2>2. Knows(v, "Rally")'
    BY <1>13, <1>15
  <2> QED
    BY <1>3, <2>1, <2>2 DEF GoesOn
<1> QED
  BY <1>2, <1>9, <1>10, <1>12, <1>14, <1>15 DEF Element

\* While the active vehicle changes nothing is transferred.
LEMMA NothingGoesOn ==
  ASSUME Quiet, Undisturbed, NEW i \in DOMAIN calls, ~Plain(calls[i]), NEW v \in Vehicle
  PROVE  /\ ~MissionGoesOn(v) /\ ~FenceGoesOn(v)
         /\ \A e \in Element : transaction[v][e] = "None"
<1>1. ~SyncInProgress(v) /\ \A j \in DOMAIN calls : ~Plain(calls[j])
  BY DEF Quiet
<1>2. \A e \in Element : transaction[v][e] = "None"
  BY <1>1 DEF SyncInProgress, Busy
<1>3. /\ \A e \in Element : ~VehicleIsTold(v, e)
      /\ \A e \in Element : ~Reports({"MasterSent"}, "PlanView", e)
  BY <1>1 DEF VehicleIsTold, Reports, Plain, Switching, Finishing
<1> QED
  BY <1>2, <1>3 DEF MissionGoesOn, FenceGoesOn, ReadGoesOn, SendGoesOn, Element

LEMMA SwitchSequences ==
  ASSUME VehicleInv, PlanTypeOK, Quiet, Undisturbed, NEW v \in Vehicle, ActiveVehicleChanged
  PROVE  GoesOn(v)
<1>1. Continues /\ UNCHANGED <<transaction, managerItems, vehiclePlan, requested>>
  BY OtherContinues
<1>2. \A e \in Element : Knows(v, e) => Knows(v, e)'
  BY <1>1, KnowledgeKept
<1>3. 1 \in DOMAIN calls /\ ~Plain(calls[1])
  <2>1. calls /= <<>> /\ Call(<<>>) /\ Head(calls).slot = "ActiveVehicleChanged"
    BY DEF ActiveVehicleChanged, Called
  <2> QED
    BY <2>1, Pops DEF VehicleInv, Plain, Switching
<1>4. ~MissionGoesOn(v) /\ ~FenceGoesOn(v)
  BY <1>3, NothingGoesOn
<1>5. (Fresh(v) => Fresh(v)') /\ (Busy(v, "Fence")' => Busy(v, "Fence"))
  BY <1>1 DEF Fresh, Busy
<1> QED
  BY <1>2, <1>4, <1>5 DEF GoesOn

LEMMA EndSequences ==
  ASSUME VehicleInv, PlanTypeOK, RequestedIsKnown, ~regime.failing, NEW v \in Vehicle,
         NEW w \in Vehicle, NEW e \in Element, TransactionEnds(w, e)
  PROVE  GoesOn(v)
<1>1. \A f \in Element : Knows(v, f) => Knows(v, f)'
  BY EndIsKnown
<1>2. /\ Busy(w, e)
      /\ \A f \in Element :
           transaction'[v][f] = IF v = w /\ f = e THEN "None" ELSE transaction[v][f]
      /\ \A f \in Element : v /= w \/ f /= e => managerItems'[v][f] = managerItems[v][f]
  BY TransactionEnded
<1>3. UNCHANGED <<managerVehicle, toSend, requested>>
  BY DEF TransactionEnds, viewVars
<1>4. /\ Idle
      /\ transaction[w][e] = "Read" => VehicleIsTold(w, e)'
      /\ transaction[w][e] = "Write" /\ managerVehicle["PlanView"] = w =>
           Reports({"MasterSent"}, "PlanView", e)'
  BY EndReports
<1>5. KeepsTold(v, "Mission") /\ KeepsTold(v, "Fence")
  BY <1>4, IdleKeepsTold
<1>6. "Mission" \in Element /\ "Fence" \in Element
  BY DEF Element
<1>7. Busy(v, "Fence")' => Busy(v, "Fence")
  BY <1>2, <1>6 DEF Busy
<1>8. v /= w \/ e /= "Mission" => /\ MissionGoesOn(v) => MissionGoesOn(v)'
                                  /\ Fresh(v) => Fresh(v)'
  <2> SUFFICES ASSUME v /= w \/ e /= "Mission"
               PROVE  (MissionGoesOn(v) => MissionGoesOn(v)') /\ (Fresh(v) => Fresh(v)')
    OBVIOUS
  <2>1. transaction'[v]["Mission"] = transaction[v]["Mission"]
        /\ managerItems'[v]["Mission"] = managerItems[v]["Mission"]
    BY <1>2, <1>6
  <2> QED
    BY <1>3, <1>5, <2>1, MissionKept DEF Fresh
<1>9. v /= w \/ e /= "Fence" => (FenceGoesOn(v) => FenceGoesOn(v)')
  <2> SUFFICES ASSUME v /= w \/ e /= "Fence" PROVE FenceGoesOn(v) => FenceGoesOn(v)'
    OBVIOUS
  <2>1. transaction'[v]["Fence"] = transaction[v]["Fence"]
    BY <1>2, <1>6
  <2> QED
    BY <1>3, <1>5, <2>1, FenceKept
<1>10. \A f, c : ~VehicleIsTold(v, f) /\ ~Reports({"MasterSent"}, c, f)
  BY <1>4, NothingIsTold DEF Idle
<1>11. CASE v = w /\ e = "Mission"
  <2>1. ~Fresh(v)
    BY <1>2, <1>11 DEF Fresh, Busy
  <2>2. MissionGoesOn(v) => MissionGoesOn(v)'
    BY <1>3, <1>4, <1>10, <1>11 DEF MissionGoesOn, ReadGoesOn, SendGoesOn
  <2> QED
    BY <1>1, <1>7, <1>9, <1>11, <2>1, <2>2 DEF GoesOn
<1>12. CASE v = w /\ e = "Fence"
  <2>1. FenceGoesOn(v) => FenceGoesOn(v)'
    BY <1>3, <1>4, <1>10, <1>12 DEF FenceGoesOn, SendGoesOn
  <2> QED
    BY <1>1, <1>7, <1>8, <1>12, <2>1 DEF GoesOn
<1>13. CASE v /= w \/ e \notin {"Mission", "Fence"}
  BY <1>1, <1>7, <1>8, <1>9, <1>13 DEF GoesOn
<1> QED
  BY <1>11, <1>12, <1>13

LEMMA DeletedSequences ==
  ASSUME VehicleInv, PlanTypeOK, Quiet, Undisturbed, NEW v \in Vehicle, VehicleIsDeleted
  PROVE  GoesOn(v) \/ StartsAnew(v)
<1>1. IF v = Head(vehiclesBeingDeleted)
        THEN /\ \A e \in Element : transaction'[v][e] = "None" /\ managerItems'[v][e] = "Empty"
             /\ requested'[v] = {}
        ELSE /\ transaction'[v] = transaction[v] /\ managerItems'[v] = managerItems[v]
             /\ requested'[v] = requested[v]
  BY DeletedTypes DEF VehicleInv
<1>2. UNCHANGED vehiclePlan
  BY DEF VehicleIsDeleted
<1>3. 1 \in DOMAIN calls /\ ~Plain(calls[1])
  <2>1. calls /= <<>> /\ Call(<<>>) /\ Head(calls).slot = "VehicleDeleted"
    BY DEF VehicleIsDeleted, VehicleDeleted, Called
  <2> QED
    BY <2>1, Pops DEF VehicleInv, Plain, Finishing
<1>4. ~MissionGoesOn(v) /\ ~FenceGoesOn(v) /\ transaction[v]["Fence"] = "None"
  BY <1>3, NothingGoesOn DEF Element
<1>5. CASE v = Head(vehiclesBeingDeleted)
  BY <1>1, <1>4, <1>5 DEF StartsAnew, Fresh, Busy, Element
<1>6. CASE v /= Head(vehiclesBeingDeleted)
  <2>1. \A e \in Element : Knows(v, e) => Knows(v, e)'
    BY <1>1, <1>2, <1>6 DEF Knows, Busy
  <2>2. (Fresh(v) => Fresh(v)') /\ (Busy(v, "Fence")' => Busy(v, "Fence"))
    BY <1>1, <1>6 DEF Fresh, Busy
  <2> QED
    BY <1>4, <2>1, <2>2 DEF GoesOn
<1> QED
  BY <1>5, <1>6

LEMMA SequencesStayOn ==
  ASSUME VehicleInv, PlanTypeOK, FramesOK, Quiet, UnsupportedIsEmpty, RequestedIsKnown,
         SequencesGoOn, ~regime.failing, UNCHANGED regime, SyncNext
  PROVE  SequencesGoOn'
<1> SUFFICES ASSUME Undisturbed, NEW v \in Vehicle PROVE GoesOn(v) \/ StartsAnew(v)
  BY SequencesStay
<1>1. CASE \E w \in Vehicle, e \in Element : TransactionEnds(w, e)
  BY <1>1, EndSequences
<1>2. CASE \/ EditPlan \/ LoadFromVehicle \/ SendToVehicle \/ ResumeMission
           \/ \E c \in View : RemoveAllFromVehicle(c)
           \/ \E w \in Vehicle : InitialRequest(w)
  BY <1>2, UserSequences
<1>3. CASE VehicleIsActivated \/ TimerFires \/ VehicleConnects \/ VehicleIsLost \/ UserSelects
  BY <1>3, QuietSequences
<1>4. CASE VehicleLoaded
  BY <1>4, VehicleLoadedSequences
<1>5. CASE Loaded \/ SentOrRemoved
  BY <1>5, LoadedSequences
<1>6. CASE MasterLoaded
  BY <1>6, MasterLoadedSequences
<1>7. CASE MasterSent
  BY <1>7, MasterSentSequences
<1>8. CASE ActiveVehicleChanged
  BY <1>8, SwitchSequences
<1>9. CASE VehicleIsDeleted
  BY <1>9, DeletedSequences
<1> QED
  BY <1>1, <1>2, <1>3, <1>4, <1>5, <1>6, <1>7, <1>8, <1>9 DEF SyncNext, SlotIsCalled
-----------------------------------------------------------------------------
(* The fly view follows *)

\* A step after which the views have the vehicles they had
LEMMA FlyKept ==
  ASSUME VehicleInv, FramesOK, FlyFollows, UNCHANGED <<regime, managerVehicle>>,
         Idle \/ ~Switching(Head(calls)),
         FlyVehicle \in Vehicle => planComplete'[FlyVehicle] = planComplete[FlyVehicle],
         FlyVehicle \in Vehicle /\ planComplete[FlyVehicle] =>
           \A e \in Element :
             (\/ Busy(FlyVehicle, e) \/ FlyIsTold(e)
              \/ items["FlyView"][e] = managerItems[FlyVehicle][e]) =>
             \/ transaction'[FlyVehicle][e] /= "None" \/ FlyIsTold(e)'
             \/ items'["FlyView"][e] = managerItems'[FlyVehicle][e]
  PROVE  FlyFollows'
<1>1. "Mission" \in Element /\ "Fence" \in Element /\ "Rally" \in Element
  BY DEF Element
<1>2. managerVehicle["PlanView"] = managerVehicle["FlyView"]
  BY ViewsEqual
<1>3. UNCHANGED FlyVehicle
  BY DEF FlyVehicle
<1>4. FlyShows("Mission") /\ (Undisturbed => FlyShows("Fence") /\ FlyShows("Rally"))
      /\ (Undisturbed /\ FlyVehicle \in Vehicle => planComplete[FlyVehicle])
  BY DEF FlyFollows
<1>5. \A e \in Element : FlyShows(e) => FlyShows(e)'
  BY <1>3 DEF FlyShows, Busy
<1>6. UNCHANGED Undisturbed
  BY DEF Undisturbed
<1>7. managerVehicle'["PlanView"] = managerVehicle'["FlyView"]
  BY <1>2
<1> QED
  BY <1>1, <1>3, <1>4, <1>5, <1>6, <1>7 DEF FlyFollows, FlyVehicle

LEMMA UserFollows ==
  ASSUME VehicleInv, PlanTypeOK, FramesOK, FlyFollows,
         \/ EditPlan \/ LoadFromVehicle \/ SendToVehicle \/ ResumeMission
         \/ \E c \in View : RemoveAllFromVehicle(c)
         \/ \E w \in Vehicle : InitialRequest(w)
  PROVE  FlyFollows'
<1>1. /\ Idle /\ Continues /\ UNCHANGED <<managerVehicle, planComplete, regime>>
      /\ items'["FlyView"] = items["FlyView"]
  BY UserContinues
<1>2. \A e : ~FlyIsTold(e)
  BY <1>1, NothingIsTold DEF FlyIsTold, Idle
<1> QED
  BY <1>1, <1>2, FlyKept DEF Continues, Busy

LEMMA OtherFollows ==
  ASSUME VehicleInv, FramesOK, FlyFollows,
         VehicleIsActivated \/ TimerFires \/ VehicleConnects \/ VehicleIsLost \/ UserSelects
  PROVE  FlyFollows'
<1>1. UNCHANGED <<managerVehicle, transaction, managerItems, planComplete, items, regime>>
  BY DEF VehicleIsActivated, TimerFires, VehicleConnects, VehicleIsLost, UserSelects, May, viewVars,
     vehiclePlanVars
<1>2. CASE VehicleIsActivated
  <2>1. calls /= <<>> /\ Call(<<>>) /\ Head(calls).slot = "VehicleActivated"
    BY <1>2 DEF VehicleIsActivated, VehicleActivated, Called
  <2>2. \A e : FlyIsTold(e) => FlyIsTold(e)'
    BY <2>1, ReportsPop DEF FlyIsTold, VehicleInv
  <2> QED
    BY <1>1, <2>1, <2>2, FlyKept DEF Switching, Busy
<1>3. CASE TimerFires \/ VehicleConnects \/ VehicleIsLost \/ UserSelects
  <2>1. Idle
    BY <1>3, TimerCalls DEF VehicleConnects, VehicleHeartbeatInfo, VehicleIsLost, UserSelects, May
  <2>2. \A e : ~FlyIsTold(e)
    BY <2>1, NothingIsTold DEF FlyIsTold, Idle
  <2> QED
    BY <1>1, <2>1, <2>2, FlyKept DEF Busy
<1> QED
  BY <1>2, <1>3

LEMMA EndFollows ==
  ASSUME VehicleInv, PlanTypeOK, FramesOK, FlyFollows, ~regime.failing,
         NEW v \in Vehicle, NEW e \in Element, TransactionEnds(v, e)
  PROVE  FlyFollows'
<1>1. /\ \A u \in Vehicle, f \in Element :
           transaction'[u][f] = IF u = v /\ f = e THEN "None" ELSE transaction[u][f]
      /\ \A u \in Vehicle, f \in Element :
           u /= v \/ f /= e => managerItems'[u][f] = managerItems[u][f]
  BY TransactionEnded
<1>2. UNCHANGED <<managerVehicle, planComplete, items, regime>>
  BY DEF TransactionEnds, viewVars
<1>3. Idle /\ (FlyVehicle = v => FlyIsTold(e)')
  BY EndReports DEF FlyVehicle
<1>4. \A f : ~FlyIsTold(f)
  BY <1>3, NothingIsTold DEF FlyIsTold, Idle
<1>5. ASSUME FlyVehicle \in Vehicle, NEW f \in Element,
             Busy(FlyVehicle, f) \/ items["FlyView"][f] = managerItems[FlyVehicle][f]
      PROVE  \/ transaction'[FlyVehicle][f] /= "None" \/ FlyIsTold(f)'
             \/ items'["FlyView"][f] = managerItems'[FlyVehicle][f]
  <2>1. CASE FlyVehicle = v /\ f = e
    BY <1>3, <2>1
  <2>2. CASE FlyVehicle /= v \/ f /= e
    BY <1>1, <1>2, <1>5, <2>2 DEF Busy
  <2> QED
    BY <2>1, <2>2
<1> QED
  BY <1>2, <1>3, <1>4, <1>5, FlyKept

LEMMA SlotFollows ==
  ASSUME VehicleInv, PlanTypeOK, FramesOK, FlyFollows, ViewSlotIsCalled
  PROVE  FlyFollows'
<1> DEFINE c == Head(calls).controller
<1> DEFINE e == Head(calls).element
<1>1. /\ calls /= <<>> /\ Call(<<>>) /\ ~Switching(Head(calls))
      /\ UNCHANGED <<managerVehicle, planComplete, regime, managerItems>>
  BY SlotOfView
<1>2. Continues
  BY SlotContinues
<1>3. /\ \A f \in Element :
           \/ items'["FlyView"][f] = items["FlyView"][f]
           \/ items'["FlyView"][f] = managerItems[FlyVehicle][f]
      /\ c = "FlyView" /\ Head(calls).slot \in {"Loaded", "Sent", "Removed"}
           /\ planComplete[FlyVehicle] =>
             Busy(FlyVehicle, e) \/ items'["FlyView"][e] = managerItems[FlyVehicle][e]
  BY FlySlots
<1>4. \A f : FlyIsTold(f) =>
        \/ FlyIsTold(f)'
        \/ Head(calls).slot \in {"Loaded", "Sent", "Removed"} /\ c = "FlyView" /\ e = f
  BY <1>1, ReportsPop DEF FlyIsTold, VehicleInv
<1> HIDE DEF c, e
<1>5. ASSUME FlyVehicle \in Vehicle
      PROVE  \A f \in Element : Busy(FlyVehicle, f) => transaction'[FlyVehicle][f] /= "None"
  BY <1>2, <1>5 DEF Continues, Busy
<1>6. ASSUME FlyVehicle \in Vehicle, planComplete[FlyVehicle], NEW f \in Element,
             \/ Busy(FlyVehicle, f) \/ FlyIsTold(f)
             \/ items["FlyView"][f] = managerItems[FlyVehicle][f]
      PROVE  \/ transaction'[FlyVehicle][f] /= "None" \/ FlyIsTold(f)'
             \/ items'["FlyView"][f] = managerItems'[FlyVehicle][f]
  BY <1>1, <1>3, <1>4, <1>5, <1>6
<1> QED
  BY <1>1, <1>6, FlyKept

LEMMA LoadedFollows ==
  ASSUME VehicleInv, PlanTypeOK, FramesOK, FlyFollows, Undisturbed \/ regime.supported = {},
         VehicleLoaded
  PROVE  FlyFollows'
<1> DEFINE w == Head(calls).vehicle
<1> DEFINE e == Head(calls).element
<1>1. Head(calls).slot = "VehicleLoaded"
  BY DEF VehicleLoaded, Called
<1>2. /\ calls /= <<>> /\ Call(<<>>) /\ w \in Vehicle /\ e \in Element
      /\ UNCHANGED <<managerItems, managerVehicle, items, regime>>
      /\ \A u \in Vehicle \ {w} : planComplete'[u] = planComplete[u]
      /\ planComplete[w] => planComplete'[w]
  BY LoadedByVehicle DEF VehicleInv
<1>3. Continues
  BY LoadedContinues
<1>4. \A f : FlyIsTold(f) => FlyIsTold(f)'
  BY <1>1, <1>2, ReportsPop DEF FlyIsTold, VehicleInv
<1>5. /\ FlyVehicle = w => FlyIsTold(e)
      /\ Supported(e)
  <2>1. Head(calls) = calls[1] /\ 1 \in DOMAIN calls
    BY <1>2, Pops DEF VehicleInv
  <2> QED
    BY <1>1, <2>1 DEF FramesOK, FlyVehicle
<1>6. ~Switching(Head(calls))
  BY <1>1 DEF Switching
<1>7. PlanTypeOK'
  BY PlanTypes DEF SyncNext, SlotIsCalled
<1> HIDE DEF w, e
<1>8. ASSUME FlyVehicle \in Vehicle
      PROVE  \A f \in Element : Busy(FlyVehicle, f) => transaction'[FlyVehicle][f] /= "None"
  BY <1>3, <1>8 DEF Continues, Busy
<1>9. CASE FlyVehicle \in Vehicle /\ ~planComplete[FlyVehicle] /\ planComplete'[FlyVehicle]
  <2>1. FlyVehicle = w /\ ~Undisturbed /\ e = "Mission"
    BY <1>2, <1>5, <1>9 DEF FlyFollows, Supported
  <2>2. FlyIsTold("Mission")'
    BY <1>4, <1>5, <2>1
  <2>3. managerVehicle'["PlanView"] = FlyVehicle' /\ Undisturbed' = Undisturbed
    BY <1>2, <1>6, ViewsEqual DEF FlyVehicle, Undisturbed
  <2> QED
    BY <2>1, <2>2, <2>3 DEF FlyFollows, FlyShows
<1>10. CASE FlyVehicle \in Vehicle => (planComplete'[FlyVehicle] => planComplete[FlyVehicle])
  <2>1. FlyVehicle \in Vehicle => planComplete'[FlyVehicle] = planComplete[FlyVehicle]
    BY <1>2, <1>7, <1>10 DEF PlanTypeOK
  <2> QED
    BY <1>2, <1>4, <1>6, <1>8, <2>1, FlyKept
<1> QED
  BY <1>9, <1>10

LEMMA SwitchFollows ==
  ASSUME VehicleInv, PlanTypeOK, Quiet, FlyFollows, ActiveVehicleChanged
  PROVE  FlyFollows'
<1> DEFINE c == Head(calls).controller
<1> DEFINE v == Head(calls).vehicle
<1>1. /\ calls /= <<>> /\ Call(<<>>) /\ Head(calls).slot = "ActiveVehicleChanged"
      /\ UNCHANGED <<transaction, managerItems, activeVehicle, regime>>
      /\ managerVehicle' = [managerVehicle EXCEPT ![c] = v]
  BY DEF ActiveVehicleChanged, Called, OnlyViewsChange
<1>2. Head(calls) = calls[1] /\ 1 \in DOMAIN calls /\ Head(calls) \in Frame
  BY <1>1, Pops DEF VehicleInv
<1>3. c \in View /\ v = activeVehicle /\ v \in Vehicle \cup {NoVehicle}
  BY <1>1, <1>2, FrameFields DEF VehicleInv, CallsOK, Switching
<1>4. /\ c = "FlyView" => FlyVehicle' = v /\ managerVehicle'["PlanView"] = managerVehicle["PlanView"]
      /\ c = "PlanView" => FlyVehicle' = FlyVehicle /\ managerVehicle'["PlanView"] = v
  BY <1>1, <1>3, ViewsAre DEF FlyVehicle, VehicleInv, VehicleTypeOK
<1>5. \A f : ~FlyIsTold(f)
  BY <1>1, <1>2 DEF VehicleInv, CallsOK, FlyIsTold, Reports, Reporting, Switching, ReportSlot
<1>6. Undisturbed => ~SyncInProgress(v) \/ v \notin Vehicle
  BY <1>1, <1>2 DEF Quiet, Plain, Switching
<1>7. UNCHANGED Undisturbed
  BY <1>1 DEF Undisturbed
<1>8. \/ /\ UNCHANGED <<items, planComplete>>
         /\ v = managerVehicle[c] \/ v = NoVehicle \/ c = "PlanView"
      \/ v = NoVehicle /\ c = "FlyView"
      \/ v \in Vehicle /\ v /= managerVehicle[c] /\ ShowPlan(c, v)
  <2>1. CASE v = managerVehicle[c]
    BY <2>1 DEF ActiveVehicleChanged
  <2>2. CASE v /= managerVehicle[c] /\ v = NoVehicle
    BY <1>3, <2>2, ViewsAre DEF ActiveVehicleChanged
  <2>3. CASE v /= managerVehicle[c] /\ v /= NoVehicle
    BY <1>3, <2>3, ViewsAre DEF ActiveVehicleChanged
  <2> QED
    BY <2>1, <2>2, <2>3
<1>9. "Mission" \in Element /\ "Fence" \in Element /\ "Rally" \in Element
  BY DEF Element
<1>10. CASE c = "FlyView" /\ v = managerVehicle[c] /\ UNCHANGED <<items, planComplete>>
  <2>1. UNCHANGED <<managerVehicle, FlyVehicle>>
    BY <1>1, <1>4, <1>10 DEF VehicleInv, VehicleTypeOK, FlyVehicle
  <2>2. \A f \in Element : FlyShows(f) => FlyShows(f)'
    BY <1>1, <1>5, <1>10, <2>1 DEF FlyShows, Busy
  <2>3. SyncInProgress(FlyVehicle)' = SyncInProgress(FlyVehicle)
    BY <1>1, <2>1 DEF SyncInProgress, Busy
  <2> QED
    BY <1>1, <1>7, <1>9, <1>10, <2>1, <2>2, <2>3 DEF FlyFollows
<1>11. CASE c = "FlyView" /\ v = NoVehicle
  BY <1>4, <1>11, VehicleAssumption DEF FlyFollows, FlyShows
<1>12. CASE c = "FlyView" /\ v \in Vehicle /\ v /= managerVehicle[c] /\ ShowPlan(c, v)
  <2>1. /\ planComplete'[v] = (planComplete[v] \/ ~SyncInProgress(v))
        /\ \A e \in Element : planComplete'[v] /\ (e = "Mission" \/ ~SyncInProgress(v)) =>
             Busy(v, e) \/ items'[c][e] = managerItems[v][e]
    BY <1>3, <1>12, PlanShown
  <2> HIDE DEF c, v
  <2>2. FlyShows("Mission")'
    BY <1>1, <1>4, <1>9, <1>12, <2>1 DEF FlyShows, Busy
  <2>3. Undisturbed => FlyShows("Fence")' /\ FlyShows("Rally")'
    BY <1>1, <1>4, <1>6, <1>9, <1>12, <2>1 DEF FlyShows, Busy
  <2>4. planComplete'[FlyVehicle'] \/ SyncInProgress(FlyVehicle)'
    <3>1. planComplete'[v] \/ SyncInProgress(v)
      BY <1>12, <2>1 DEF PlanTypeOK
    <3>2. SyncInProgress(v) => \E e \in Element : transaction'[v][e] /= "None"
      BY <1>1 DEF SyncInProgress, Busy
    <3> QED
      BY <1>4, <1>12, <3>1, <3>2 DEF SyncInProgress, Busy
  <2>5. Undisturbed => planComplete'[v]
    BY <1>6, <1>12, <2>1 DEF PlanTypeOK
  <2> QED
    BY <1>4, <1>7, <1>12, <2>2, <2>3, <2>4, <2>5 DEF FlyFollows
<1>13. CASE c = "PlanView"
  <2>1. items'["FlyView"] = items["FlyView"]
    BY <1>3, <1>8, <1>13, PlanShown, ViewsAre
  <2>2. FlyVehicle \in Vehicle => planComplete'[FlyVehicle] = planComplete[FlyVehicle]
    <3>1. CASE UNCHANGED planComplete
      BY <3>1
    <3>2. CASE v \in Vehicle /\ v /= managerVehicle[c] /\ ShowPlan(c, v)
      <4>1. \A u \in Vehicle :
              planComplete'[u] = IF u = v THEN planComplete[v] \/ ~SyncInProgress(v)
                                          ELSE planComplete[u]
        BY <1>3, <3>2, PlanShown
      <4>2. CASE FlyVehicle = v
        <5>1. planComplete[v] \/ SyncInProgress(v)
          BY <1>3, <1>13, <3>2, <4>2 DEF FlyFollows
        <5> QED
          BY <3>2, <4>1, <4>2, <5>1 DEF PlanTypeOK
      <4>3. CASE FlyVehicle /= v
        BY <4>1, <4>3
      <4> QED
        BY <4>2, <4>3
    <3> QED
      BY <1>8, <1>13, <3>1, <3>2
  <2>3. \A f \in Element : FlyShows(f) => FlyShows(f)'
    BY <1>1, <1>4, <1>5, <1>13, <2>1, <2>2 DEF FlyShows, Busy
  <2>4. FlyVehicle' = activeVehicle' => managerVehicle'["PlanView"] = FlyVehicle'
    BY <1>1, <1>3, <1>4, <1>13
  <2> QED
    BY <1>4, <1>7, <1>9, <1>13, <2>2, <2>3, <2>4 DEF FlyFollows
<1> QED
  BY <1>3, <1>8, <1>10, <1>11, <1>12, <1>13, ViewsAre

LEMMA DeletedFollows ==
  ASSUME VehicleInv, PlanTypeOK, FramesOK, VehiclesDiffer, FlyFollows, VehicleIsDeleted
  PROVE  FlyFollows'
<1>1. /\ calls /= <<>> /\ Call(<<>>) /\ Head(calls).slot = "VehicleDeleted"
      /\ UNCHANGED <<managerVehicle, items, regime>>
  BY DEF VehicleIsDeleted, VehicleDeleted, Called, viewVars
<1>2. Head(calls) = calls[1] /\ 1 \in DOMAIN calls
  BY <1>1, Pops DEF VehicleInv
<1>3. ~Switching(Head(calls))
  BY <1>1 DEF Switching
<1>4. FlyVehicle = activeVehicle
  BY <1>3, ViewsEqual, ViewsAre DEF FlyVehicle
<1>5. /\ vehiclesBeingDeleted /= <<>>
      /\ \A u \in Vehicle : u /= Head(vehiclesBeingDeleted) =>
           /\ transaction'[u] = transaction[u] /\ managerItems'[u] = managerItems[u]
           /\ planComplete'[u] = planComplete[u]
  BY DeletedTypes DEF VehicleInv
<1>6. FlyVehicle \in Vehicle => FlyVehicle /= Head(vehiclesBeingDeleted)
  <2>1. Deleting
    BY <1>1, <1>2 DEF Deleting
  <2>2. FlyVehicle \in Vehicle => FlyVehicle \in Connected
    BY <1>4, <2>1, VehicleAssumption DEF VehicleInv, ActiveExists
  <2>3. Head(vehiclesBeingDeleted) \in ToSet(vehiclesBeingDeleted)
    BY <1>5, TailMembers DEF VehicleInv, VehicleTypeOK
  <2> QED
    BY <2>2, <2>3 DEF VehiclesDiffer
<1>7. \A f : FlyIsTold(f) => FlyIsTold(f)'
  BY <1>1, ReportsPop DEF FlyIsTold, VehicleInv
<1> QED
  BY <1>1, <1>3, <1>5, <1>6, <1>7, FlyKept DEF Busy

LEMMA FlyStillFollows ==
  ASSUME VehicleInv, PlanTypeOK, VehiclesDiffer, FramesOK, Quiet, FlyFollows, Smooth,
         UNCHANGED regime, SyncNext
  PROVE  FlyFollows'
<1>1. CASE \E w \in Vehicle, e \in Element : TransactionEnds(w, e)
  BY <1>1, EndFollows DEF Smooth
<1>2. CASE \/ EditPlan \/ LoadFromVehicle \/ SendToVehicle \/ ResumeMission
           \/ \E c \in View : RemoveAllFromVehicle(c)
           \/ \E w \in Vehicle : InitialRequest(w)
  BY <1>2, UserFollows
<1>3. CASE VehicleIsActivated \/ TimerFires \/ VehicleConnects \/ VehicleIsLost \/ UserSelects
  BY <1>3, OtherFollows
<1>4. CASE VehicleLoaded
  BY <1>4, LoadedFollows DEF Smooth
<1>5. CASE ViewSlotIsCalled
  BY <1>5, SlotFollows
<1>6. CASE ActiveVehicleChanged
  BY <1>6, SwitchFollows
<1>7. CASE VehicleIsDeleted
  BY <1>7, DeletedFollows
<1> QED
  BY <1>1, <1>2, <1>3, <1>4, <1>5, <1>6, <1>7 DEF SyncNext, SlotIsCalled, ViewSlotIsCalled
-----------------------------------------------------------------------------
(* The theorem *)

LEMMA StutterKeepsFly ==
  ASSUME FlyInv, UNCHANGED syncVars
  PROVE  FlyInv'
<1> USE DEF syncVars, multiVehicleVars, vehiclePlanVars, viewVars
<1>1. PlanTypeOK' = PlanTypeOK /\ Smooth' = Smooth
  BY DEF PlanTypeOK, Smooth, Undisturbed
<1>2. VehiclesDiffer' = VehiclesDiffer
  BY DEF VehiclesDiffer, Connected
<1>3. FramesOK' = FramesOK
  BY DEF FramesOK, Reporting, Existing, Connected, Supported, Knows, Busy, Switching, FlyIsTold,
     Reports
<1>4. Quiet' = Quiet
  BY DEF Quiet, SyncInProgress, Busy, Existing, Connected, Undisturbed, Plain, Switching, Finishing
<1>5. UnsupportedIsEmpty' = UnsupportedIsEmpty
  BY DEF UnsupportedIsEmpty, Supported
<1>6. RequestedIsKnown' = RequestedIsKnown
  BY DEF RequestedIsKnown, Supported, Knows, Busy
<1>7. SequencesGoOn' = SequencesGoOn
  BY DEF SequencesGoOn, Undisturbed, Fresh, Knows, Busy, MissionGoesOn, FenceGoesOn, ReadGoesOn,
     SendGoesOn, VehicleIsTold, Reports
<1>8. FlyFollows' = FlyFollows
  BY DEF FlyFollows, FlyShows, Undisturbed, FlyVehicle, FlyIsTold, Reports, SyncInProgress, Busy
<1> QED
  BY <1>1, <1>2, <1>3, <1>4, <1>5, <1>6, <1>7, <1>8 DEF FlyInv

LEMMA NextFlyInv ==
  ASSUME VehicleInv, regime \in Regime, FlyInv, [SyncNext]_syncVars
  PROVE  FlyInv'
<1>1. CASE UNCHANGED syncVars
  BY <1>1, StutterKeepsFly
<1>2. CASE SyncNext
  <2>1. UNCHANGED regime
    BY RegimeKept
  <2>2. PlanTypeOK /\ VehiclesDiffer /\ PlanTypeOK' /\ VehiclesDiffer'
    BY PlanTypes, VehiclesStayDifferent DEF FlyInv
  <2>3. Smooth' = Smooth
    BY <2>1 DEF Smooth, Undisturbed
  <2>4. ASSUME Smooth
        PROVE  /\ FramesOK' /\ Quiet' /\ UnsupportedIsEmpty' /\ RequestedIsKnown'
               /\ SequencesGoOn' /\ FlyFollows'
    <3>1. FramesOK /\ Quiet /\ UnsupportedIsEmpty /\ RequestedIsKnown /\ SequencesGoOn /\ FlyFollows
      BY <2>4 DEF FlyInv
    <3>2. ~regime.failing
      BY <2>4 DEF Smooth
    <3>3. FramesOK' /\ Quiet'
      BY <1>2, <2>1, <2>2, <3>1, <3>2, FramesStayOK, QuietStays
    <3>4. UnsupportedIsEmpty' /\ RequestedIsKnown'
      BY <1>2, <2>1, <2>2, <3>1, <3>2, UnsupportedStaysEmpty, RequestsStayKnown
    <3>5. SequencesGoOn'
      BY <1>2, <2>1, <2>2, <3>1, <3>2, SequencesStayOn
    <3>6. FlyFollows'
      BY <1>2, <2>1, <2>2, <2>4, <3>1, FlyStillFollows
    <3> QED
      BY <3>3, <3>4, <3>5, <3>6
  <2> QED
    BY <2>2, <2>3, <2>4 DEF FlyInv
<1> QED
  BY <1>1, <1>2

LEMMA InitFlyInv == SyncInit => FlyInv
<1> SUFFICES ASSUME SyncInit PROVE FlyInv
  OBVIOUS
<1>1. /\ vehicles = <<>> /\ vehiclesBeingDeleted = <<>> /\ timers = <<>> /\ calls = <<>>
      /\ activeVehicle = NoVehicle
  BY DEF SyncInit, MultiVehicleInit
<1>2. /\ transaction = [v \in Vehicle |-> [e \in Element |-> "None"]]
      /\ managerItems = [v \in Vehicle |-> Nothing]
      /\ sendItems = [v \in Vehicle |-> Nothing]
      /\ requested = [v \in Vehicle |-> {}]
      /\ planComplete = [v \in Vehicle |-> FALSE]
      /\ vehiclePlan = [v \in Vehicle |-> [e \in Element |-> IF Supported(e) THEN v ELSE "Empty"]]
      /\ managerVehicle = [c \in View |-> NoVehicle]
      /\ items = [c \in View |-> Nothing]
      /\ itemsRequested = [c \in View |-> {}]
      /\ toLoad = [c \in View |-> {}] /\ toSend = [c \in View |-> {}]
  BY DEF SyncInit
<1>3. /\ \A v \in Vehicle, e \in Element :
           /\ transaction[v][e] = "None" /\ managerItems[v][e] = "Empty"
           /\ vehiclePlan[v][e] = IF Supported(e) THEN v ELSE "Empty"
      /\ \A v \in Vehicle : requested[v] = {}
      /\ \A c \in View, e \in Element : items[c][e] = "Empty"
      /\ \A c \in View : managerVehicle[c] = NoVehicle
  BY <1>2 DEF Nothing
<1>4. PlanTypeOK
  <2>1. Nothing \in Plan
    BY DEF Nothing, Plan, Content
  <2>2. \A v \in Vehicle : [e \in Element |-> IF Supported(e) THEN v ELSE "Empty"] \in Plan
    BY DEF Plan, Content
  <2>3. vehiclePlan \in [Vehicle -> Plan]
    BY <1>2, <2>2
  <2> QED
    BY <1>2, <2>1, <2>3, ViewsAre DEF PlanTypeOK, Transaction
<1>5. VehiclesDiffer
  BY <1>1 DEF VehiclesDiffer, Connected, ToSet
<1>6. DOMAIN calls = {}
  BY <1>1, NothingIsTold
<1>7. FramesOK
  BY <1>6 DEF FramesOK
<1>8. Quiet
  BY <1>1, <1>3, <1>6 DEF Quiet, SyncInProgress, Busy
<1>9. UnsupportedIsEmpty
  BY <1>3, ViewsAre DEF UnsupportedIsEmpty
<1>10. RequestedIsKnown
  BY <1>3 DEF RequestedIsKnown
<1>11. SequencesGoOn
  BY <1>3 DEF SequencesGoOn, Fresh, Busy, Element
<1>12. FlyFollows
  BY <1>3, ViewsAre, VehicleAssumption DEF FlyFollows, FlyShows, FlyVehicle
<1> QED
  BY <1>4, <1>5, <1>7, <1>8, <1>9, <1>10, <1>11, <1>12 DEF FlyInv

\* When nothing is under way the fly view has what the vehicle has.
LEMMA FlyInvShows ==
  ASSUME VehicleInv, FlyInv, Smooth \/ regime.failing
  PROVE  FlyShowsPlan
<1> DEFINE v == FlyVehicle
<1> SUFFICES ASSUME v /= NoVehicle, ~regime.failing, AtRest(v), "Mission" \in requested[v],
                    planComplete[v]
             PROVE  items["FlyView"] = vehiclePlan[v]
  BY DEF FlyShowsPlan, FlyVehicle
<1>1. /\ PlanTypeOK /\ FramesOK /\ UnsupportedIsEmpty /\ RequestedIsKnown /\ SequencesGoOn
      /\ FlyFollows
      /\ Undisturbed \/ regime.supported = {}
  BY DEF FlyInv, Smooth
<1>2. v \in Vehicle
  BY ViewsAre DEF VehicleInv, VehicleTypeOK, FlyVehicle
<1>3. \A f, c : ~FlyIsTold(f) /\ ~VehicleIsTold(v, f) /\ ~Reports({"MasterSent"}, c, f)
  BY NothingIsTold DEF AtRest, Idle, FlyIsTold
<1>4. \A e \in Element : ~Busy(v, e)
  BY DEF AtRest, SyncInProgress
<1>5. ~MissionGoesOn(v) /\ ~FenceGoesOn(v) /\ ~Fresh(v)
  BY <1>3, <1>4 DEF MissionGoesOn, FenceGoesOn, ReadGoesOn, SendGoesOn, Fresh, Busy, Element
<1>6. "Mission" \in Element /\ "Fence" \in Element /\ "Rally" \in Element
  BY DEF Element
<1>7. ASSUME NEW e \in Element PROVE items["FlyView"][e] = vehiclePlan[v][e]
  <2>1. CASE ~Supported(e)
    BY <1>1, <1>2, <2>1 DEF UnsupportedIsEmpty
  <2>2. CASE Supported(e)
    <3>1. e = "Mission" \/ Undisturbed
      BY <1>1, <2>2 DEF Supported
    <3>2. Knows(v, e)
      <4>1. CASE e = "Mission"
        BY <1>1, <1>2, <1>6, <2>2, <4>1 DEF RequestedIsKnown
      <4>2. CASE e /= "Mission"
        BY <1>1, <1>2, <1>5, <3>1, <4>2 DEF SequencesGoOn, Element
      <4> QED
        BY <4>1, <4>2
    <3>3. FlyShows(e)
      BY <1>1, <3>1 DEF FlyFollows, Element
    <3> QED
      BY <1>2, <1>3, <1>4, <3>2, <3>3 DEF Knows, FlyShows
  <2> QED
    BY <2>1, <2>2
<1> QED
  BY <1>1, <1>2, <1>7, ViewsAre DEF PlanTypeOK, Plan

\* Whatever is edited, loaded, sent, resumed and removed, and whichever vehicle is active:
\* the fly view shows the plan of its vehicle once nothing is under way
\* (PlanMasterController.cc _loadMissionComplete, _sendMissionComplete and
\* _showPlanFromManagerVehicle, the three element controllers and the initial plan request
\* of Vehicle.cc).
THEOREM FlyViewIsRight ==
  ASSUME TransfersAreLeftAlone
  PROVE  SyncSpec => []FlyShowsPlan
<1> DEFINE Inv == /\ VehicleInv /\ regime \in Regime /\ FlyInv
                  /\ regime \in Regimes
<1>1. SyncInit => Inv
  BY InitVehicleInv, InitFlyInv, RegimeAssumption DEF SyncInit
<1>2. Inv /\ [SyncNext]_syncVars => Inv'
  BY NextVehicleInv, NextFlyInv, RegimeKept
<1>3. Inv => FlyShowsPlan
  <2> SUFFICES ASSUME Inv PROVE FlyShowsPlan
    OBVIOUS
  <2>1. Smooth \/ regime.failing
    BY DEF TransfersAreLeftAlone, Smooth, Undisturbed
  <2> QED
    BY <2>1, FlyInvShows
<1> QED
  BY <1>1, <1>2, <1>3, PTL DEF SyncSpec
=============================================================================
