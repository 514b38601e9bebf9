--------------------------- MODULE MissionProtocol ---------------------------
(***************************************************************************)
(* The mission protocol end to end: a PlanManager, two links that keep the *)
(* order of messages and lose any of them, and the vehicle of the          *)
(* repository, MockLinkMissionItemHandler.                                 *)
(*                                                                         *)
(* A regime says what a behaviour is about.  Its ack timer is either slower *)
(* than the links (prompt: it fires only when no message is under way, so   *)
(* that the answer really is missing), or it fires at any time while it     *)
(* runs; its links lose messages or do not; and it bounds what callers do  *)
(* and which failure modes the vehicle has.                                *)
(***************************************************************************)
EXTENDS PlanManager, FiniteSets

CONSTANTS
  Regimes,                     \* the regimes, of which a behaviour has one
  StoredPlans,                 \* bound: the plans the vehicle starts with
  SendHomePositionOnEmptyList  \* whether the vehicle is an ArduPilot one

\* What an earlier upload left is numbered from 0 on.
IsStoredPlan(plan) ==
  /\ IsFiniteSet(DOMAIN plan)
  /\ plan \in [0 .. Cardinality(DOMAIN plan) - 1 -> ItemType]
ASSUME StoredAssumption == \A plan \in StoredPlans : IsStoredPlan(plan)

VARIABLES vehicleItems, requestType, writeSequenceCount, writeSequenceIndex,
          failureMode, failFirst, toGcs,
          begunAfresh,  \* history: nothing was under way when the transaction began
          regime

MockLink == INSTANCE MockLinkMissionItemHandler WITH ReplyCapacity <- LinkCapacity

vehicleVars == <<vehicleItems, requestType, writeSequenceCount,
                 writeSequenceIndex, failureMode, failFirst>>
protocolVars == <<vars, vehicleVars, toGcs, begunAfresh, regime>>

\* plans are the lists callers write, a part of PlanInput
Regime == [prompt : BOOLEAN, lossy : BOOLEAN, plans : SUBSET PlanInput,
           operations : SUBSET {"Load", "Write", "Resume", "RemoveAll"},
           failureModes : SUBSET STRING]
ASSUME RegimeAssumption == Regimes \subseteq Regime

\* Where no message is lost the ack timer outlasts the links.
LosslessIsPrompt == \A r \in Regimes : r.lossy \/ r.prompt

ProtocolInit ==
  /\ Init
  /\ MockLink!Init
  /\ begunAfresh = TRUE
  /\ regime \in Regimes
  /\ failureMode \in regime.failureModes

GroundOperation ==
  /\ \/ "Load" \in regime.operations /\ LoadFromVehicle
     \/ "Write" \in regime.operations /\ \E list \in regime.plans : WriteMissionItems(list)
     \/ "Resume" \in regime.operations /\ \E kept \in ResumeChoices : WriteResumeMission(kept)
     \/ "RemoveAll" \in regime.operations /\ RemoveAll
  /\ begunAfresh' = (toVehicle = <<>> /\ toGcs = <<>>)
  /\ UNCHANGED <<vehicleVars, toGcs, regime>>

GroundReceives ==
  /\ toGcs /= <<>>
  /\ toGcs' = Tail(toGcs)
  /\ IF connections > 0 THEN Receive(Head(toGcs)) ELSE UNCHANGED vars
  /\ UNCHANGED <<vehicleVars, begunAfresh, regime>>

GroundTimesOut ==
  /\ regime.prompt => toVehicle = <<>> /\ toGcs = <<>>
  /\ AckTimeout
  /\ UNCHANGED <<vehicleVars, toGcs, begunAfresh, regime>>

VehicleReceives ==
  /\ toVehicle /= <<>>
  /\ toVehicle' = Tail(toVehicle)
  /\ MockLink!HandleMessage(Head(toVehicle))
  /\ UNCHANGED <<managerVars, begunAfresh, regime>>

LoseToVehicle ==
  /\ regime.lossy
  /\ toVehicle /= <<>>
  /\ toVehicle' = Tail(toVehicle)
  /\ UNCHANGED <<managerVars, vehicleVars, toGcs, begunAfresh, regime>>

LoseToGcs ==
  /\ regime.lossy
  /\ toGcs /= <<>>
  /\ toGcs' = Tail(toGcs)
  /\ UNCHANGED <<vars, vehicleVars, begunAfresh, regime>>

ProtocolNext ==
  \/ GroundOperation \/ GroundReceives \/ GroundTimesOut
  \/ VehicleReceives \/ LoseToVehicle \/ LoseToGcs

\* A link delivers or loses what it holds, and a running timer fires: nothing
\* is assumed of the callers, nor that any message arrives.
ProtocolFairness ==
  /\ WF_protocolVars(GroundReceives \/ LoseToGcs)
  /\ WF_protocolVars(VehicleReceives \/ LoseToVehicle)
  /\ WF_protocolVars(GroundTimesOut)

ProtocolSpec == ProtocolInit /\ [][ProtocolNext]_protocolVars /\ ProtocolFairness
-----------------------------------------------------------------------------
(* Properties *)

vehiclePlan == vehicleItems[PlanType]

\* The plan the vehicle holds is this list of items, in this order.
VehicleHolds(list) == vehiclePlan = [s \in 0 .. Len(list) - 1 |-> list[s + 1]]

\* The list is what the vehicle holds, every item once and in its place.
IsVehiclePlan(list) ==
  /\ Cardinality(DOMAIN vehiclePlan) = Len(list)
  /\ \A i \in 1 .. Len(list) :
       /\ i - 1 \in DOMAIN vehiclePlan
       /\ list[i] = [seq  |-> i - 1, item |-> FromVehicle(vehiclePlan[i - 1])]

Ends(t) == transaction = t /\ transaction' = "None"
Succeeds == Signal("error", TRUE) \notin signals'

\* Two failure modes leave the vehicle with a plan that has a gap, which its
\* own MISSION_COUNT cannot describe.
HasNoGap == failureMode \notin {"FailWriteRequest0IncorrectSequence",
                                "FailWriteRequest1IncorrectSequence"}

\* A read that succeeds returns the plan the vehicle holds, whatever was lost,
\* asked for twice or answered twice on the way (loadFromVehicle, _ackTimeout,
\* _handleMissionItem).
ReadReturnsVehiclePlan ==
  [][Ends("Read") /\ Succeeds /\ regime.prompt /\ HasNoGap
       => IsVehiclePlan(missionItems')]_protocolVars

\* Nobody changes the plan of the vehicle.
OnlyLoads == regime.operations \subseteq {"Load"}

\* Even when answers come later than the timer allows for, and those of an
\* abandoned read are taken for answers of the next one, a read that succeeds
\* returns every item of a plan that does not change, and each once.
ReadReturnsEveryItem ==
  [][Ends("Read") /\ Succeeds /\ HasNoGap /\ (regime.prompt \/ OnlyLoads) =>
       /\ Len(missionItems') = Cardinality(DOMAIN vehiclePlan)
       /\ {missionItems'[i] : i \in 1 .. Len(missionItems')}
            = {[seq |-> s, item |-> FromVehicle(vehiclePlan[s])] : s \in DOMAIN vehiclePlan}
    ]_protocolVars

\* A write that succeeds leaves the vehicle with exactly the list written
\* (PlanManager.h: "Writes the specified set of mission items to the vehicle",
\* "Signals sendComplete when done").
WriteReachesVehicle ==
  [][Ends("Write") /\ Succeeds /\ regime.prompt
       => VehicleHolds(writeMissionItems)]_protocolVars

\* A removal that succeeds leaves the vehicle with no items (PlanManager.h:
\* "Removes all mission items from vehicle", "Signals removeAllComplete when
\* done"), also when the timer has repeated it before a late acknowledgement and all
\* of the requests are acknowledged.  Only what an earlier transaction left on the
\* links can falsify it: an acknowledgement of that one, taken for that of the
\* removal, or an item the vehicle stores after it.
RemoveAllReachesVehicle ==
  [][Ends("RemoveAll") /\ Succeeds /\ (regime.prompt \/ begunAfresh)
       => VehicleHolds(<<>>)]_protocolVars

\* The outcomes MissionManagerTest expects of the vehicle's failure modes, for
\* a plan of at least the items the mode is about.
ReadFailures ==
  LET list   == {"FailReadRequestListNoResponse"}
      first  == {"FailReadRequest0NoResponse", "FailReadRequest0IncorrectSequence",
                 "FailReadRequest0ErrorAck"}
      second == {"FailReadRequest1NoResponse", "FailReadRequest1IncorrectSequence",
                 "FailReadRequest1ErrorAck"}
  IN  [mode \in list \cup first \cup second |->
         IF mode \in list THEN 0 ELSE IF mode \in first THEN 1 ELSE 2]
WriteFailures ==
  LET first  == {"FailWriteMissionCountNoResponse", "FailWriteRequest0IncorrectSequence",
                 "FailWriteRequest0ErrorAck", "FailWriteFinalAckNoResponse",
                 "FailWriteFinalAckErrorAck"}
      second == {"FailWriteRequest1NoResponse", "FailWriteRequest1IncorrectSequence",
                 "FailWriteRequest1ErrorAck"}
      fourth == {"FailWriteFinalAckMissingRequests"}
  IN  [mode \in first \cup second \cup fourth |->
         IF mode \in first THEN 1 ELSE IF mode \in second THEN 2 ELSE 4]
RecoverableModes == {"FailNone", "FailReadRequestListFirstResponse",
  "FailReadRequest1FirstResponse", "FailWriteMissionCountFirstResponse"}

\* No read or write is taken for a success with a vehicle that fails it
\* (MissionManagerTest: the cases with shouldFail = true).
FailureModesFail ==
  [][Succeeds =>
       /\ Ends("Read") /\ failureMode \in DOMAIN ReadFailures =>
            Len(missionItems') < ReadFailures[failureMode]
       /\ Ends("Write") /\ regime.prompt /\ failureMode \in DOMAIN WriteFailures =>
            Len(writeMissionItems) < WriteFailures[failureMode]]_protocolVars

\* A vehicle that leaves only the first request unanswered makes no transaction
\* fail when nothing else is lost (MissionManagerTest: shouldFail = false).
RetriesRecover ==
  [][InProgress /\ ~InProgress' /\ ~regime.lossy /\ failureMode \in RecoverableModes
       => Succeeds]_protocolVars

\* Every transaction ends, though any message may be lost.
TransactionsEnd == InProgress ~> ~InProgress
=============================================================================
