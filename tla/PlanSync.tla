------------------------------- MODULE PlanSync -------------------------------
(***************************************************************************)
(* How the plans of the views and of the vehicles are kept the same:        *)
(* MissionManager/PlanMasterController.cc with its three element controllers *)
(* (mission, geofence, rally points) in each view, and the three managers of *)
(* each vehicle, over the vehicles of MultiVehicleManager.                  *)
(*                                                                         *)
(* A manager is as PlanTransaction promises: busy until it reports, and deaf *)
(* to requests meanwhile.  Each slot its report calls is a step of its own,  *)
(* in the order in which the slots were connected: the Vehicle's first, then  *)
(* for each view the master controller's before the element controller's.    *)
(* The offline vehicle of a controller is NoVehicle.  What users may do, and *)
(* when, is set by a regime.                                                *)
(***************************************************************************)
EXTENDS MultiVehicleManager

CONSTANT
  Regimes   \* the regimes, of which a behaviour has one

VARIABLES
  transaction,         \* _transactionInProgress of each manager
  managerItems,        \* its list
  sendItems,           \* the list it writes
  requested,           \* the managers whose ...InitialRequestSent is set
  planComplete,        \* _initialPlanRequestComplete
  vehiclePlan,         \* the plan on the vehicle itself
  managerVehicle,      \* _managerVehicle of each view's controllers
  items,               \* what its element controllers show
  itemsRequested,      \* the element controllers whose _itemsRequested is set
  toLoad,              \* _loadGeoFence, _loadRallyPoints
  toSend,              \* _sendGeoFence, _sendRallyPoints
  regime,
  left,                \* bound: what is left for users to do
  loadAsked,           \* history: the vehicle the plan view was last asked to load from,
                       \* forgotten by an edit for another one
  sent                 \* history: the plan the plan view was last asked to send

vehiclePlanVars == <<transaction, managerItems, sendItems, requested, planComplete, vehiclePlan>>
viewVars == <<managerVehicle, items, itemsRequested, toLoad, toSend>>
history == <<loadAsked, sent>>
syncVars == <<multiVehicleVars, vehiclePlanVars, viewVars, regime, left, history>>

Element == {"Mission", "Fence", "Rally"}
ElementSeq == <<"Mission", "Fence", "Rally">>
Before(e, f) == \E i, j \in 1 .. 3 : i < j /\ ElementSeq[i] = e /\ ElementSeq[j] = f
NextElement == [e \in {"Mission", "Fence"} |-> IF e = "Mission" THEN "Fence" ELSE "Rally"]

View == ToSet(Controllers)
ASSUME ViewAssumption == /\ Controllers \in Seq({"FlyView", "PlanView"}) /\ Len(Controllers) = 2
                         /\ View = {"FlyView", "PlanView"}

\* What an element holds: "Empty", "Edited" and "Resumed" of the ground station, or what
\* a vehicle began with
Nothing == [e \in Element |-> "Empty"]
NoneSent == [vehicle |-> NoVehicle, items |-> Nothing]

\* supported is what all vehicles support, ready are the vehicles of which what the
\* initial plan request waits for arrives, failing says that transfers may fail,
\* calm that vehicles are selected and lost only while nothing is transferred, steady
\* that nothing begins while a vehicle is about to be activated or deleted
Regime == [operations : SUBSET {"Edit", "Load", "Send", "Remove", "Resume", "Select", "Lose"},
           limit : Nat, supported : SUBSET {"Fence", "Rally"}, vehicles : SUBSET Vehicle,
           ready : SUBSET Vehicle, failing : BOOLEAN, calm : BOOLEAN, steady : BOOLEAN]
ASSUME RegimeAssumption == Regimes \subseteq Regime

\* Users let transfers that do not fail end before they select or lose a vehicle, or
\* the vehicles have nothing but a mission.
TransfersAreLeftAlone ==
  \A r \in Regimes : r.failing \/ (r.calm /\ r.steady) \/ r.supported = {}

Supported(e) == e = "Mission" \/ e \in regime.supported
Busy(v, e) == transaction[v][e] /= "None"
SyncInProgress(v) == \E e \in Element : Busy(v, e)
Steady == regime.steady => timers = <<>>
Containing(c) == \E e \in Element : items[c][e] /= "Empty"
-----------------------------------------------------------------------------
(* The managers of a vehicle *)

\* A manager that is busy ignores the request.
Start(v, e, kind) ==
  transaction' = IF Busy(v, e) THEN transaction ELSE [transaction EXCEPT ![v][e] = kind]

StartWrite(v, e, list) ==
  /\ Start(v, e, "Write")
  /\ sendItems' = IF Busy(v, e) THEN sendItems ELSE [sendItems EXCEPT ![v][e] = list]

\* The slots of the views that are connected to the managers of v
SlotsOf(c, v, e, slots, error) ==
  IF managerVehicle[c] /= v THEN <<>>
  ELSE [j \in DOMAIN slots |-> [slot |-> slots[j], controller |-> c, element |-> e, error |-> error]]
ViewSlots(v, e, slots, error) ==
  SlotsOf(Controllers[1], v, e, slots, error) \o SlotsOf(Controllers[2], v, e, slots, error)

ReadEnds(v, e, ok) ==
  /\ transaction[v][e] = "Read"
  /\ managerItems' = [managerItems EXCEPT ![v][e] = IF ok THEN vehiclePlan[v][e] ELSE "Empty"]
  /\ calls' = <<[slot |-> "VehicleLoaded", vehicle |-> v, element |-> e]>>
              \o ViewSlots(v, e, <<"MasterLoaded", "Loaded">>, FALSE)
  /\ UNCHANGED vehiclePlan

\* The fence and the rally point managers forget what they had.
WriteFailed(v, e) ==
  IF e = "Mission" THEN managerItems ELSE [managerItems EXCEPT ![v][e] = "Empty"]

WriteEnds(v, e, ok) ==
  /\ transaction[v][e] = "Write"
  /\ managerItems' = IF ok THEN [managerItems EXCEPT ![v][e] = sendItems[v][e]]
                     ELSE WriteFailed(v, e)
  /\ calls' = ViewSlots(v, e, <<"MasterSent", "Sent">>, ~ok)
  /\ \/ vehiclePlan' = [vehiclePlan EXCEPT ![v][e] = sendItems[v][e]]
     \/ ~ok /\ UNCHANGED vehiclePlan

RemoveAllEnds(v, e, ok) ==
  /\ transaction[v][e] = "RemoveAll"
  /\ calls' = ViewSlots(v, e, <<"Removed">>, ~ok)
  /\ \/ vehiclePlan' = [vehiclePlan EXCEPT ![v][e] = "Empty"]
     \/ ~ok /\ UNCHANGED vehiclePlan
  /\ UNCHANGED managerItems

\* A transaction of v ends, successfully only while v is connected.
TransactionEnds(v, e) ==
  /\ Idle
  /\ v \in Existing
  /\ \E ok \in BOOLEAN :
       /\ ok => v \in Connected
       /\ ~ok => regime.failing
       /\ ReadEnds(v, e, ok) \/ WriteEnds(v, e, ok) \/ RemoveAllEnds(v, e, ok)
       /\ sent' = IF ok THEN sent ELSE NoneSent
  /\ transaction' = [transaction EXCEPT ![v][e] = "None"]
  /\ UNCHANGED <<vehicles, activeVehicle, activeVehicleAvailable, vehicleBeingSetActive,
                 vehiclesBeingDeleted, timers, sendItems, requested, planComplete, viewVars,
                 regime, left, loadAsked>>
-----------------------------------------------------------------------------
(* The initial plan request of a vehicle *)

\* _startPlanRequest, once VehicleConnect's conditions are met
InitialRequest(v) ==
  /\ Idle /\ Steady
  /\ v \in Connected \cap regime.ready /\ "Mission" \notin requested[v]
  /\ requested' = [requested EXCEPT ![v] = @ \cup {"Mission"}]
  /\ Start(v, "Mission", "Read")
  /\ UNCHANGED <<multiVehicleVars, managerItems, sendItems, planComplete, vehiclePlan, viewVars,
                 regime, left, history>>

RallyPointLoadComplete(v) ==
  planComplete' = [planComplete EXCEPT ![v] = TRUE] /\ UNCHANGED transaction

GeoFenceLoadComplete(v, requestSent) ==
  IF "Rally" \in requested[v]
  THEN /\ requested' = [requested EXCEPT ![v] = requestSent]
       /\ UNCHANGED <<planComplete, transaction>>
  ELSE /\ requested' = [requested EXCEPT ![v] = requestSent \cup {"Rally"}]
       /\ IF Supported("Rally") THEN Start(v, "Rally", "Read") /\ UNCHANGED planComplete
          ELSE RallyPointLoadComplete(v)

MissionLoadComplete(v) ==
  LET requestSent == requested[v] \cup {"Fence"} IN
  IF "Fence" \in requested[v] THEN UNCHANGED <<requested, planComplete, transaction>>
  ELSE IF ~Supported("Fence") THEN GeoFenceLoadComplete(v, requestSent)
  ELSE /\ requested' = [requested EXCEPT ![v] = requestSent]
       /\ Start(v, "Fence", "Read")
       /\ UNCHANGED planComplete

Called(slot) == calls /= <<>> /\ Head(calls).slot = slot

VehicleLoaded ==
  /\ Called("VehicleLoaded")
  /\ LET v == Head(calls).vehicle
         e == Head(calls).element
     IN \/ e = "Mission" /\ MissionLoadComplete(v)
        \/ e = "Fence" /\ GeoFenceLoadComplete(v, requested[v])
        \/ e = "Rally" /\ RallyPointLoadComplete(v) /\ UNCHANGED requested
  /\ Call(<<>>)
  /\ UNCHANGED <<vehicles, activeVehicle, activeVehicleAvailable, vehicleBeingSetActive,
                 vehiclesBeingDeleted, timers, managerItems, sendItems, vehiclePlan, viewVars,
                 regime, left, history>>
-----------------------------------------------------------------------------
(* The slots of the element controllers *)

OnlyViewsChange ==
  UNCHANGED <<vehicles, activeVehicle, activeVehicleAvailable, vehicleBeingSetActive,
              vehiclesBeingDeleted, timers, managerItems, requested, vehiclePlan,
              regime, left, history>>

\* The fly view always reloads, the plan view if a load was requested or it has
\* nothing.
Accepts(c, e) == c = "FlyView" \/ e \in itemsRequested[c] \/ items[c][e] = "Empty"

\* _newMissionItemsAvailableFromVehicle, _managerLoadComplete
Loaded ==
  /\ Called("Loaded")
  /\ LET c == Head(calls).controller
         e == Head(calls).element
     IN /\ items' = IF Accepts(c, e)
                    THEN [items EXCEPT ![c][e] = managerItems[managerVehicle[c]][e]] ELSE items
        /\ itemsRequested' = [itemsRequested EXCEPT ![c] = @ \ {e}]
  /\ Call(<<>>)
  /\ UNCHANGED <<transaction, sendItems, planComplete, managerVehicle, toLoad, toSend>>
  /\ OnlyViewsChange

\* showPlanFromManagerVehicle of one element controller: it waits while its
\* manager is busy or the initial request is not complete.  The geofence's one
\* marks the list as requested before it looks.
ShowElement(c, e) ==
  LET v == managerVehicle[c]
      waits == ~planComplete[v] \/ Busy(v, e)
  IN /\ items' = IF waits THEN items ELSE [items EXCEPT ![c][e] = managerItems[v][e]]
     /\ itemsRequested' = [itemsRequested EXCEPT ![c] =
                             IF ~waits THEN @ \ {e} ELSE @ \cup ({e} \cap {"Fence"})]

\* MUTANT of ShowsWhatEnded: nobody shows what was sent
ShowsOnlyRemoved(c) == Called("Removed")

\* A view shows what was sent only if it is the fly view, and always what was removed.
ShowsWhatEnded(c) == Called("Removed") \/ c = "FlyView"

\* _managerSendComplete and _managerRemoveAllComplete
SentOrRemoved ==
  /\ Called("Sent") \/ Called("Removed")
  /\ LET c == Head(calls).controller
         e == Head(calls).element
     IN IF ~Head(calls).error /\ ShowsWhatEnded(c) THEN ShowElement(c, e)
        ELSE UNCHANGED <<items, itemsRequested>>
  /\ Call(<<>>)
  /\ UNCHANGED <<transaction, sendItems, planComplete, managerVehicle, toLoad, toSend>>
  /\ OnlyViewsChange
-----------------------------------------------------------------------------
(* The slots of the master controller *)

\* The first supported element after e, and those that are skipped on the way
Target(e) ==
  LET later == {f \in Element : Before(e, f) /\ Supported(f)}
  IN IF later = {} THEN "None" ELSE CHOOSE f \in later : \A g \in later : ~Before(g, f)
Skipped(e) == {f \in Element : Before(e, f) /\ ~Supported(f)
                               /\ (Target(e) /= "None" => Before(f, Target(e)))}

\* MUTANT of FlagsAfter: the geofence is the last element
FlagsAfterFence(flags, e) == flags \ {"Fence", "Rally"}

\* What is left to transfer when the element after e has had its turn
FlagsAfter(flags, e) ==
  IF Target(e) = "Fence" THEN (flags \ {"Fence"}) \cup {"Rally"}
  ELSE {f \in flags : ~Before(e, f)}

IsNextIn(flags, e) == e /= "Rally" /\ NextElement[e] \in flags
TargetIsIdle(v, e) == Target(e) /= "None" /\ ~Busy(v, Target(e))

\* _loadMissionComplete, _loadGeoFenceComplete: what is not supported is emptied.
\* A manager that is busy is not asked.
MasterLoaded ==
  /\ Called("MasterLoaded")
  /\ LET c == Head(calls).controller
         e == Head(calls).element
         v == managerVehicle[c]
     IN IF ~IsNextIn(toLoad[c], e)
        THEN UNCHANGED <<transaction, items, itemsRequested, toLoad>>
        ELSE /\ toLoad' = [toLoad EXCEPT ![c] = FlagsAfter(@, e)]
             /\ items' = [items EXCEPT ![c] =
                            [f \in Element |-> IF f \in Skipped(e) THEN "Empty" ELSE @[f]]]
             /\ IF TargetIsIdle(v, e)
                THEN /\ Start(v, Target(e), "Read")
                     /\ itemsRequested' = [itemsRequested EXCEPT ![c] = @ \cup {Target(e)}]
                ELSE UNCHANGED <<transaction, itemsRequested>>
  /\ Call(<<>>)
  /\ UNCHANGED <<sendItems, planComplete, managerVehicle, toSend>>
  /\ OnlyViewsChange

\* _sendMissionComplete, _sendGeoFenceComplete, which do not look at the error
MasterSent ==
  /\ Called("MasterSent")
  /\ LET c == Head(calls).controller
         e == Head(calls).element
         v == managerVehicle[c]
     IN IF ~IsNextIn(toSend[c], e) THEN UNCHANGED <<transaction, sendItems, toSend>>
        ELSE /\ toSend' = [toSend EXCEPT ![c] = FlagsAfter(@, e)]
             /\ IF TargetIsIdle(v, e) THEN StartWrite(v, Target(e), items[c][Target(e)])
                ELSE UNCHANGED <<transaction, sendItems>>
  /\ Call(<<>>)
  /\ UNCHANGED <<planComplete, managerVehicle, items, itemsRequested, toLoad>>
  /\ OnlyViewsChange

\* _showPlanFromManagerVehicle: an initial request of which nothing is under way
\* is taken for complete; the elements are shown up to the first that waits.
ShowPlan(c, v) ==
  LET complete == planComplete[v] \/ ~SyncInProgress(v)
      shown == {e \in Element : complete /\ ~Busy(v, e)
                                /\ \A f \in Element : Before(f, e) => ~Busy(v, f)}
  IN /\ planComplete' = [planComplete EXCEPT ![v] = complete]
     /\ items' = [items EXCEPT ![c] =
                    [e \in Element |-> IF e \in shown THEN managerItems[v][e] ELSE @[e]]]
     /\ itemsRequested' = [itemsRequested EXCEPT ![c] =
          (@ \ shown) \cup (IF "Mission" \in shown THEN {"Fence"} \ shown ELSE {})]

\* _activeVehicleChanged: the fly view shows the plan of the new vehicle, or
\* nothing; the plan view does so if it has no plan.
ActiveVehicleChanged ==
  /\ Called("ActiveVehicleChanged")
  /\ LET c == Head(calls).controller
         v == Head(calls).vehicle
     IN /\ managerVehicle' = [managerVehicle EXCEPT ![c] = v]
        /\ IF v = managerVehicle[c] THEN UNCHANGED <<items, itemsRequested, planComplete>>
           ELSE IF v = NoVehicle
           THEN /\ items' = IF c = "FlyView" THEN [items EXCEPT ![c] = Nothing] ELSE items
                /\ UNCHANGED <<itemsRequested, planComplete>>
           ELSE IF c = "FlyView" \/ ~Containing(c) THEN ShowPlan(c, v)
           ELSE UNCHANGED <<items, itemsRequested, planComplete>>
  /\ Call(<<>>)
  /\ UNCHANGED <<transaction, sendItems, toLoad, toSend>>
  /\ OnlyViewsChange
-----------------------------------------------------------------------------
(* What users do *)

May(operation) ==
  /\ Idle /\ Steady
  /\ operation \in regime.operations
  /\ left > 0 /\ left' = left - 1
  /\ UNCHANGED <<requested, planComplete, vehiclePlan, managerVehicle, regime>>

\* A change of the plan in the plan view, or a plan loaded from a file
EditPlan ==
  /\ May("Edit")
  /\ \E e \in Element : items' = [items EXCEPT !["PlanView"][e] = "Edited"]
  /\ loadAsked' = IF loadAsked = managerVehicle["PlanView"] THEN loadAsked ELSE NoVehicle
  /\ sent' = NoneSent
  /\ UNCHANGED <<multiVehicleVars, transaction, managerItems, sendItems, itemsRequested,
                 toLoad, toSend>>

LoadFromVehicle ==
  /\ May("Load")
  /\ LET v == managerVehicle["PlanView"] IN
       /\ v /= NoVehicle /\ ~SyncInProgress(v)
       /\ toLoad' = [toLoad EXCEPT !["PlanView"] = @ \cup {"Fence"}]
       /\ itemsRequested' = [itemsRequested EXCEPT !["PlanView"] = @ \cup {"Mission"}]
       /\ Start(v, "Mission", "Read")
       /\ loadAsked' = v
  /\ UNCHANGED <<multiVehicleVars, managerItems, sendItems, items, toSend, sent>>

SendToVehicle ==
  /\ May("Send")
  /\ LET v == managerVehicle["PlanView"] IN
       /\ v /= NoVehicle /\ ~SyncInProgress(v)
       /\ toSend' = [toSend EXCEPT !["PlanView"] = @ \cup {"Fence"}]
       /\ StartWrite(v, "Mission", items["PlanView"]["Mission"])
       /\ sent' = [vehicle |-> v, items |-> items["PlanView"]]
  /\ UNCHANGED <<multiVehicleVars, managerItems, items, itemsRequested, toLoad, loadAsked>>

\* All three are removed at once, each unless its manager is busy.
RemoveAllFromVehicle(c) ==
  /\ May("Remove")
  /\ LET v == managerVehicle[c]
         removed == {e \in Element : Supported(e) /\ ~Busy(v, e)}
     IN /\ v /= NoVehicle
        /\ transaction' = [transaction EXCEPT ![v] =
                             [e \in Element |-> IF e \in removed THEN "RemoveAll" ELSE @[e]]]
        /\ managerItems' = [managerItems EXCEPT ![v] =
                             [e \in Element |-> IF e \in removed THEN "Empty" ELSE @[e]]]
        /\ itemsRequested' = [itemsRequested EXCEPT ![c] = @ \cup ({"Mission"} \cap removed)]
  /\ sent' = NoneSent
  /\ UNCHANGED <<multiVehicleVars, sendItems, items, toLoad, toSend, loadAsked>>

\* The fly view writes the rest of a mission to resume it.
ResumeMission ==
  /\ May("Resume")
  /\ LET v == managerVehicle["FlyView"] IN
       /\ v /= NoVehicle /\ ~Busy(v, "Mission") /\ managerItems[v]["Mission"] /= "Empty"
       /\ StartWrite(v, "Mission", "Resumed")
  /\ sent' = NoneSent
  /\ UNCHANGED <<multiVehicleVars, managerItems, items, itemsRequested, toLoad, toSend, loadAsked>>

Calm == regime.calm => \A v \in Vehicle : ~SyncInProgress(v)

UserSelects ==
  /\ May("Select") /\ Calm
  /\ \E v \in Vehicle : SelectVehicle(v)
  /\ UNCHANGED <<transaction, managerItems, sendItems, items, itemsRequested, toLoad, toSend,
                 history>>
-----------------------------------------------------------------------------
(* The vehicles come and go *)

VehicleConnects ==
  /\ \E v \in regime.vehicles : VehicleHeartbeatInfo(v)
  /\ UNCHANGED <<vehiclePlanVars, viewVars, regime, left, history>>

VehicleIsLost ==
  /\ May("Lose") /\ Calm
  /\ \E v \in Vehicle : DeleteVehiclePhase1(v)
  /\ sent' = NoneSent
  /\ UNCHANGED <<transaction, managerItems, sendItems, items, itemsRequested, toLoad, toSend,
                 loadAsked>>

TimerFires ==
  /\ SetActiveVehiclePhase2 \/ DeleteVehiclePhase2
  /\ UNCHANGED <<vehiclePlanVars, viewVars, regime, left, history>>

VehicleIsActivated ==
  /\ Called("VehicleActivated")
  /\ VehicleActivated
  /\ UNCHANGED <<vehiclePlanVars, viewVars, regime, left, history>>

\* The object is freed with its managers; a new one with this name begins anew.
VehicleIsDeleted ==
  /\ Called("VehicleDeleted")
  /\ VehicleDeleted
  /\ LET v == Head(vehiclesBeingDeleted) IN
       /\ transaction' = [transaction EXCEPT ![v] = [e \in Element |-> "None"]]
       /\ managerItems' = [managerItems EXCEPT ![v] = Nothing]
       /\ sendItems' = [sendItems EXCEPT ![v] = Nothing]
       /\ requested' = [requested EXCEPT ![v] = {}]
       /\ planComplete' = [planComplete EXCEPT ![v] = FALSE]
  /\ UNCHANGED <<vehiclePlan, viewVars, regime, left, history>>
-----------------------------------------------------------------------------
SyncInit ==
  /\ regime \in Regimes /\ left = regime.limit
  /\ MultiVehicleInit
  /\ transaction = [v \in Vehicle |-> [e \in Element |-> "None"]]
  /\ managerItems = [v \in Vehicle |-> Nothing]
  /\ sendItems = [v \in Vehicle |-> Nothing]
  /\ requested = [v \in Vehicle |-> {}]
  /\ planComplete = [v \in Vehicle |-> FALSE]
  /\ vehiclePlan = [v \in Vehicle |->
                      [e \in Element |-> IF Supported(e) THEN v ELSE "Empty"]]
  /\ managerVehicle = [c \in View |-> NoVehicle]
  /\ items = [c \in View |-> Nothing]
  /\ itemsRequested = [c \in View |-> {}]
  /\ toLoad = [c \in View |-> {}] /\ toSend = [c \in View |-> {}]
  /\ loadAsked = NoVehicle /\ sent = NoneSent

SlotIsCalled ==
  \/ VehicleLoaded \/ Loaded \/ SentOrRemoved \/ MasterLoaded \/ MasterSent
  \/ ActiveVehicleChanged \/ VehicleIsActivated \/ VehicleIsDeleted

SyncNext ==
  \/ \E v \in Vehicle, e \in Element : TransactionEnds(v, e)
  \/ \E v \in Vehicle : InitialRequest(v)
  \/ SlotIsCalled \/ TimerFires
  \/ VehicleConnects \/ VehicleIsLost \/ UserSelects
  \/ EditPlan \/ LoadFromVehicle \/ SendToVehicle \/ ResumeMission
  \/ \E c \in View : RemoveAllFromVehicle(c)

\* Handlers run to their end, timers fire, transactions end (PlanManager:
\* TransactionsEnd) and plans are requested (VehicleConnect); nothing is assumed
\* of users and of vehicles that come and go.
SyncFairness ==
  /\ WF_syncVars(SlotIsCalled)
  /\ WF_syncVars(TimerFires)
  /\ \A v \in Vehicle :
       /\ WF_syncVars(InitialRequest(v))
       /\ \A e \in Element : WF_syncVars(TransactionEnds(v, e))

SyncSpec == SyncInit /\ [][SyncNext]_syncVars /\ SyncFairness
-----------------------------------------------------------------------------
(* Properties *)

\* No pointer to a vehicle outlives it: the active vehicle, the one that a timer
\* that is pending will activate, and the vehicles of both views' controllers
\* exist whenever a handler begins, though vehicles are lost while a timer that
\* activates or deletes one is pending (MultiVehicleManager.cc: "The sequence of
\* signals is very important in order to not leave Qml elements connected to a
\* non-existent vehicle").
NoDanglingVehicle ==
  Idle =>
    /\ activeVehicle \in Existing \cup {NoVehicle}
    /\ "SetActiveVehiclePhase2" \in ToSet(timers) => vehicleBeingSetActive \in Existing
    /\ \A c \in View : managerVehicle[c] \in Existing \cup {NoVehicle}

\* When the timers have fired the active vehicle is connected, if any vehicle is,
\* and both views are set up for it.
ViewsFollowActive ==
  Idle /\ timers = <<>> =>
    /\ IF vehicles = <<>> THEN activeVehicle = NoVehicle ELSE activeVehicle \in Connected
    /\ \A c \in View : managerVehicle[c] = activeVehicle

AtRest(v) == Idle /\ timers = <<>> /\ ~SyncInProgress(v)

\* When nothing is under way the fly view shows the plan of the active vehicle
\* (PlanMasterController.cc: "Fly view has changed to a new active vehicle, update
\* to show correct mission", "Fly view always reloads").
FlyShowsPlan ==
  LET v == managerVehicle["FlyView"] IN
  v /= NoVehicle /\ ~regime.failing =>
    (AtRest(v) /\ "Mission" \in requested[v] /\ planComplete[v] =>
       items["FlyView"] = vehiclePlan[v])

\* A plan that is sent arrives whole, element after element, unless a transfer
\* fails, something else is done to it meanwhile or the vehicle is lost.
SentPlanArrives ==
  \A v \in Vehicle :
    sent.vehicle = v ~> \/ sent.vehicle /= v
                        \/ \A e \in Element : Supported(e) => vehiclePlan[v][e] = sent.items[e]

\* PlanMasterController.cc:166 of the plan view and a newly connected vehicle: "If
\* there is no plan available in Plan view show the one from the vehicle, Otherwise
\* leave the current plan alone".  (Not so: a request to load from a vehicle that was
\* lost meanwhile is remembered, and what is edited since gives way to the plan of
\* the next vehicle.)
CurrentPlanIsKept ==
  [][\A e \in Element :
       items["PlanView"][e] = "Edited" /\ items'["PlanView"][e] /= "Edited" =>
         loadAsked /= NoVehicle \/ Called("Removed")]_syncVars
=============================================================================
