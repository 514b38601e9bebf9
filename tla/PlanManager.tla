----------------------------- MODULE PlanManager -----------------------------
(***************************************************************************)
(* The ground station's end of the MAVLink mission protocol:               *)
(* PlanManager.cc, the base class of MissionManager, GeoFenceManager and   *)
(* RallyPointManager, with the two writes MissionManager adds to it        *)
(* (ArduPilot guided item, resume mission), for a connected vehicle: with  *)
(* the offline editing vehicle a read or a write returns at once.          *)
(*                                                                         *)
(* Every handler runs to completion on the Qt main thread, so one call of  *)
(* a public operation, one received message or one expiry of the ack timer *)
(* is one action.  The vehicle is not modelled here: Receive(m) may be     *)
(* called with any message of VehicleInput at any time, so that what is    *)
(* proved here is true whatever the vehicle and the link do.  The module   *)
(* MissionProtocol puts a vehicle and lossy links behind it.               *)
(***************************************************************************)
EXTENDS Integers, Sequences

CONSTANTS
  PlanType,          \* _planType: the MAV_MISSION_TYPE this manager transfers
  PlanTypes,         \* every MAV_MISSION_TYPE a received message can carry
  SendHome,          \* firmwarePlugin()->sendHomePositionToVehicle()
  ApmFirmware,       \* _vehicle->apmFirmware()
  MaxRetryCount,     \* _maxRetryCount (5 in the code)
  LinkCapacity,      \* bound: messages the link to the vehicle holds at once
  PlanInput,         \* bound: the lists a caller asks to write
  VehicleInput       \* bound: the messages the vehicle may send

\* A mission item, reduced to what the transfer changes in it: the parameter
\* of a DO_JUMP is an item number and is shifted with the home position.  "Zero"
\* is an item whose bytes are all zero.
ItemType == [command : {"Waypoint", "DoJump", "Zero"}, param1 : Int]

AckResult == {"Accepted", "InvalidSequence", "Error"}

VehicleMessage ==
       [kind : {"Count"},   mt : PlanTypes, n : Nat]
  \cup [kind : {"Item"},    mt : PlanTypes, seq : Nat, item : ItemType]
  \cup [kind : {"Request"}, mt : PlanTypes, seq : Nat]
  \cup [kind : {"Ack"},     mt : PlanTypes, result : AckResult]

GroundMessage ==
       [kind : {"RequestList", "ClearAll"}, mt : PlanTypes]
  \cup [kind : {"Request"}, mt : PlanTypes, seq : Nat]
  \cup [kind : {"Count"},   mt : PlanTypes, n : Nat]
  \cup [kind : {"Item"},    mt : PlanTypes, seq : Nat, item : ItemType]
  \cup [kind : {"Ack"},     mt : PlanTypes, result : AckResult]

ASSUME PlanTypeAssumption == PlanType \in PlanTypes
ASSUME FirmwareAssumption == SendHome \in BOOLEAN /\ ApmFirmware \in BOOLEAN
ASSUME RetryAssumption    == MaxRetryCount \in Nat
ASSUME LinkAssumption     == LinkCapacity \in Nat
ASSUME InputAssumption    == /\ PlanInput \subseteq Seq(ItemType)
                             /\ VehicleInput \subseteq VehicleMessage

VARIABLES
  expectedAck,        \* _expectedAck
  timerRunning,       \* _ackTimeoutTimer->isActive()
  retryCount,         \* _retryCount
  transaction,        \* _transactionInProgress
  itemIndicesToWrite, \* _itemIndicesToWrite (kept ascending: a set)
  itemIndicesToRead,  \* _itemIndicesToRead (kept ascending: a set)
  missionItems,       \* _missionItems: the items with their sequence numbers
  writeMissionItems,  \* _writeMissionItems: item i has sequence number i - 1
  resumeMission,      \* _resumeMission
  connections,        \* Qt connections of _mavlinkMessageReceived
  signals,            \* the signals the last step emitted
  toVehicle           \* messages sent to the vehicle and not yet delivered

ackTimer == <<expectedAck, timerRunning>>
session  == <<transaction, resumeMission, connections>>
indices  == <<itemIndicesToWrite, itemIndicesToRead>>
lists    == <<missionItems, writeMissionItems>>
managerVars == <<ackTimer, retryCount, session, indices, lists, signals>>
vars == <<managerVars, toVehicle>>

AckType == {"None", "MissionCount", "MissionItem", "MissionRequest",
            "MissionClearAll", "GuidedItem"}
TransactionType == {"None", "Read", "Write", "RemoveAll"}

\* The signals that tell other components about a transaction; inProgressChanged
\* follows transaction and progressPct is display only.
SignalType == [name : {"error", "newMissionItemsAvailable", "sendComplete",
                       "removeAllComplete", "resumeMissionReady",
                       "resumeMissionUploadFail", "homePosition"},
               error : BOOLEAN]
Signal(name, failed) == [name |-> name, error |-> failed]
SendError == {Signal("error", TRUE)}

InProgress == transaction /= "None"

-----------------------------------------------------------------------------
(* What the transfer does to an item *)

\* The item numbers of a plan that carries no home position are one less.
SkipFirstItem == PlanType = "Mission" /\ ~SendHome

ToVehicle(item) ==
  IF SkipFirstItem /\ item.command = "DoJump"
  THEN [item EXCEPT !.param1 = @ - 1] ELSE item

FromVehicle(item) ==
  IF ~SendHome /\ item.command = "DoJump"
  THEN [item EXCEPT !.param1 = @ + 1] ELSE item

ToWriteList(list) ==
  LET skipped == IF SkipFirstItem /\ list /= <<>> THEN 1 ELSE 0
  IN  [i \in 1 .. Len(list) - skipped |-> ToVehicle(list[i + skipped])]

\* MUTANT of Numbered: the numbers are shifted though nothing was skipped
NumberedFromMinusOne(list) ==
  [i \in 1 .. Len(list) |-> [seq |-> i - 2, item |-> list[i]]]

Numbered(list) == [i \in 1 .. Len(list) |-> [seq |-> i - 1, item |-> list[i]]]

-----------------------------------------------------------------------------
(* Sending, the ack timer, and the end of a transaction *)

\* A link that is full loses what is sent on it.
Send(m) == toVehicle' = IF Len(toVehicle) < LinkCapacity
                        THEN Append(toVehicle, m) ELSE toVehicle

StartAckTimeout(ack) == expectedAck' = ack /\ timerRunning' = TRUE

\* _checkForExpectedAck when the ack matches
AckReceived == expectedAck' = "None" /\ timerRunning' = FALSE

\* MUTANT of Begin: the retries of the last transaction still count
BeginRetriesKept(type) ==
  /\ ~InProgress
  /\ transaction' = type
  /\ UNCHANGED retryCount

\* How a read, a list write and a removal start
Begin(type) ==
  /\ ~InProgress
  /\ transaction' = type
  /\ retryCount' = 0

\* MUTANT of CompletionSignals: only a success is reported
SuccessSignals(success, guided) ==
  IF ~success \/ guided THEN {}
  ELSE {Signal(IF transaction = "Read" THEN "newMissionItemsAvailable"
               ELSE IF transaction = "Write" THEN "sendComplete"
               ELSE "removeAllComplete", FALSE)}

CompletionSignals(success, guided) ==
  IF transaction = "Read" THEN {Signal("newMissionItemsAvailable", FALSE)}
  ELSE IF transaction = "RemoveAll" THEN {Signal("removeAllComplete", ~success)}
  ELSE IF guided THEN {}
  ELSE {Signal("sendComplete", ~success)}

ResumeSignals(success) ==
  IF ~resumeMission THEN {}
  ELSE {Signal(IF success THEN "resumeMissionReady" ELSE "resumeMissionUploadFail",
               FALSE)}

\* MUTANT of EndSession: the manager still listens to the vehicle
EndSessionConnected ==
  /\ itemIndicesToRead' = {}
  /\ itemIndicesToWrite' = {}
  /\ transaction' = "None"
  /\ UNCHANGED connections

EndSession ==
  /\ connections' = 0
  /\ itemIndicesToRead' = {}
  /\ itemIndicesToWrite' = {}
  /\ transaction' = "None"

\* MUTANT of ListAfter: a read that fails leaves what it has read
ListAfterKept(success, listWrite, items) ==
  IF listWrite /\ success THEN Numbered(writeMissionItems) ELSE items

\* The local list is left as the transaction found it unless it is a read that
\* failed or a list write that succeeded.
ListAfter(success, listWrite, items) ==
  IF transaction = "Read" /\ ~success THEN <<>>
  ELSE IF listWrite /\ success THEN Numbered(writeMissionItems)
  ELSE items

\* A guided item never went through the lists.
FinishTransaction(success, guided, items, errors) ==
  LET listWrite == transaction = "Write" /\ ~guided
  IN  /\ EndSession
      /\ missionItems' = ListAfter(success, listWrite, items)
      /\ writeMissionItems' = IF listWrite THEN <<>> ELSE writeMissionItems
      /\ resumeMission' = FALSE
      /\ signals' = errors \cup CompletionSignals(success, guided)
                           \cup ResumeSignals(success)

FailTransaction(guided) ==
  /\ FinishTransaction(FALSE, guided, missionItems, SendError)
  /\ UNCHANGED <<retryCount, toVehicle>>

ReadTransactionComplete(items) ==
  /\ Send([kind |-> "Ack", mt |-> PlanType, result |-> "Accepted"])
  /\ FinishTransaction(TRUE, FALSE, items, {})

Ignore ==
  /\ signals' = {}
  /\ UNCHANGED <<ackTimer, retryCount, session, indices, lists, toVehicle>>

-----------------------------------------------------------------------------
(* Reading the plan of the vehicle *)

RequestList ==
  /\ itemIndicesToRead' = {}
  /\ missionItems' = <<>>
  /\ Send([kind |-> "RequestList", mt |-> PlanType])
  /\ StartAckTimeout("MissionCount")

LoadFromVehicle ==
  /\ Begin("Read")
  /\ connections' = connections + 1
  /\ RequestList
  /\ signals' = {}
  /\ UNCHANGED <<itemIndicesToWrite, writeMissionItems, resumeMission>>

\* MUTANT of IsNext: the items are requested from the last one on
IsLast(i, toRead) == \A j \in toRead : i >= j

IsNext(i, toRead) == \A j \in toRead : i <= j

\* Requests the lowest of the indices still to be read.  The code's internal
\* error for an empty list is never met: see NoStuckTransaction.
RequestNextMissionItem(toRead) ==
  /\ \E i \in toRead :
       /\ IsNext(i, toRead)
       /\ Send([kind |-> "Request", mt |-> PlanType, seq |-> i])
  /\ StartAckTimeout("MissionItem")
  /\ signals' = {}

HandleMissionCount(m) ==
  IF m.mt /= PlanType \/ expectedAck /= "MissionCount"
  THEN Ignore
  ELSE /\ retryCount' = 0
       /\ IF m.n = 0
          THEN /\ AckReceived
               /\ ReadTransactionComplete(missionItems)
          ELSE /\ itemIndicesToRead' = itemIndicesToRead \cup 0 .. m.n - 1
               /\ RequestNextMissionItem(itemIndicesToRead \cup 0 .. m.n - 1)
               /\ UNCHANGED <<session, itemIndicesToWrite, lists>>

\* MUTANT of ItemWasRequested: whatever item arrives is kept
AnyItem(seq) == TRUE

ItemWasRequested(seq) == seq \in itemIndicesToRead

\* MUTANT of DropItem: the timer stopped by the item is not started again
DropItemUntimed ==
  /\ AckReceived
  /\ signals' = {}
  /\ UNCHANGED <<retryCount, session, indices, lists, toVehicle>>

\* An item nobody asked for is dropped; the one asked for may still come.
DropItem ==
  /\ StartAckTimeout("MissionItem")
  /\ signals' = {}
  /\ UNCHANGED <<retryCount, session, indices, lists, toVehicle>>

\* Unlike the other handlers this one does not look at the mission type.
HandleMissionItem(m) ==
  IF expectedAck /= "MissionItem"
  THEN IF ApmFirmware /\ m.seq = 0 /\ PlanType = "Mission"
       THEN /\ signals' = {Signal("homePosition", FALSE)}
            /\ UNCHANGED <<ackTimer, retryCount, session, indices, lists, toVehicle>>
       ELSE Ignore
  ELSE IF ~ItemWasRequested(m.seq)
  THEN DropItem
  ELSE LET items  == Append(missionItems,
                            [seq |-> m.seq, item |-> FromVehicle(m.item)])
           toRead == itemIndicesToRead \ {m.seq}
       IN  /\ retryCount' = 0
           /\ IF toRead = {}
              THEN AckReceived /\ ReadTransactionComplete(items)
              ELSE /\ itemIndicesToRead' = toRead
                   /\ missionItems' = items
                   /\ RequestNextMissionItem(toRead)
                   /\ UNCHANGED <<session, itemIndicesToWrite, writeMissionItems>>

-----------------------------------------------------------------------------
(* Writing a plan to the vehicle *)

WriteMissionCount(list) ==
  /\ Send([kind |-> "Count", mt |-> PlanType, n |-> Len(list)])
  /\ StartAckTimeout("MissionRequest")

\* _writeMissionItemsWorker: starts a write of list
StartWrite(list) ==
  /\ Begin("Write")
  /\ writeMissionItems' = list
  /\ itemIndicesToWrite' = 0 .. Len(list) - 1
  /\ connections' = connections + 1
  /\ WriteMissionCount(list)
  /\ signals' = {}
  /\ UNCHANGED <<itemIndicesToRead, missionItems>>

WriteMissionItems(list) == StartWrite(ToWriteList(list)) /\ UNCHANGED resumeMission

\* generateResumeMission: the items of the local list from some index on, and
\* of those before it the ones that set the vehicle up, are written back as
\* they stand; a plan with a DO_JUMP is refused.
WriteResumeMission(kept) ==
  /\ \A i \in 1 .. Len(missionItems) : missionItems[i].item.command /= "DoJump"
  /\ StartWrite([i \in 1 .. Len(kept) |-> missionItems[kept[i]].item])
  /\ resumeMission' = TRUE

\* What a resume mission can be made of: the last items of the local list,
\* preceded by any of the earlier ones, and by the home position where it is
\* part of the plan.  The code indexes out of range when nothing would follow.
ResumeChoices ==
  LET n == Len(missionItems)
  IN  {kept \in UNION {[1 .. k -> 1 .. n] : k \in 1 .. n} :
         /\ \A i, j \in 1 .. Len(kept) : i < j => kept[i] < kept[j]
         /\ kept[Len(kept)] = n
         /\ SendHome => kept[1] = 1 /\ Len(kept) > 1}

\* MUTANT of ItemToSend: off by one, as if the home position were still there
ItemToSendShifted(seq) == writeMissionItems[IF seq = 0 THEN 1 ELSE seq]

ItemToSend(seq) == writeMissionItems[seq + 1]

HandleMissionRequest(m) ==
  IF m.mt /= PlanType \/ expectedAck /= "MissionRequest"
  THEN Ignore
  ELSE IF m.seq > Len(writeMissionItems) - 1
  THEN AckReceived /\ FailTransaction(FALSE)
  ELSE /\ itemIndicesToWrite' = itemIndicesToWrite \ {m.seq}
       /\ Send([kind |-> "Item", mt |-> PlanType, seq |-> m.seq,
                item |-> ItemToSend(m.seq)])
       /\ StartAckTimeout("MissionRequest")
       /\ signals' = {}
       /\ UNCHANGED <<retryCount, session, itemIndicesToRead, lists>>

\* MissionManager::writeArduPilotGuidedMissionItem
WriteGuidedItem ==
  /\ PlanType = "Mission"
  /\ ~InProgress
  /\ transaction' = "Write"
  /\ connections' = connections + 1
  /\ Send([kind |-> "Item", mt |-> "Mission", seq |-> 0,
           item |-> [command |-> "Waypoint", param1 |-> 0]])
  /\ StartAckTimeout("GuidedItem")
  /\ signals' = {}
  /\ UNCHANGED <<retryCount, indices, lists, resumeMission>>

-----------------------------------------------------------------------------
(* Removing the plan of the vehicle *)

\* Every retry connects once more, so the manager may hold several connections.
RemoveAllWorker ==
  /\ connections' = connections + 1
  /\ Send([kind |-> "ClearAll", mt |-> PlanType])
  /\ StartAckTimeout("MissionClearAll")

RemoveAll ==
  /\ Begin("RemoveAll")
  /\ missionItems' = <<>>
  /\ RemoveAllWorker
  /\ signals' = {}
  /\ UNCHANGED <<indices, writeMissionItems, resumeMission>>

-----------------------------------------------------------------------------
(* MISSION_ACK ends whatever is going on *)

\* MUTANT of AckIsSuccess: the vehicle may accept a write it has only a part of
AckIsAccepted(result) ==
  /\ result = "Accepted"
  /\ expectedAck \in {"MissionClearAll", "GuidedItem", "MissionRequest"}

\* What an ack with this result makes of the transaction that awaits it
AckIsSuccess(result) ==
  /\ result = "Accepted"
  /\ \/ expectedAck \in {"MissionClearAll", "GuidedItem"}
     \/ expectedAck = "MissionRequest" /\ itemIndicesToWrite = {}

HandleMissionAck(m) ==
  IF m.mt /= PlanType \/ (ApmFirmware /\ m.result = "InvalidSequence")
  THEN Ignore
  ELSE IF expectedAck = "None"
  THEN /\ timerRunning' = FALSE
       /\ signals' = {}
       /\ UNCHANGED <<expectedAck, retryCount, session, indices, lists, toVehicle>>
  ELSE /\ AckReceived
       /\ FinishTransaction(AckIsSuccess(m.result), expectedAck = "GuidedItem",
                            missionItems,
                            IF AckIsSuccess(m.result) THEN {} ELSE SendError)
       /\ UNCHANGED <<retryCount, toVehicle>>

\* A message reaches the handlers only while the manager is connected.  The
\* handlers that several connections would repeat ignore what reaches them:
\* see OneConnectionPerTransfer.
Receive(m) ==
  /\ connections > 0
  /\ \/ m.kind = "Count"   /\ HandleMissionCount(m)
     \/ m.kind = "Item"    /\ HandleMissionItem(m)
     \/ m.kind = "Request" /\ HandleMissionRequest(m)
     \/ m.kind = "Ack"     /\ HandleMissionAck(m)

-----------------------------------------------------------------------------
(* _ackTimeout.  A failure for want of an answer leaves _expectedAck as it is *)
(* where the code does; the single-shot timer has stopped.                    *)

TimedOut(ack) == timerRunning /\ expectedAck = ack

\* MUTANT of GiveUp: no answer is taken for a success
GiveUpAsSuccess ==
  /\ timerRunning' = FALSE
  /\ FinishTransaction(TRUE, FALSE, missionItems, {})
  /\ UNCHANGED <<retryCount, toVehicle>>

GiveUp ==
  /\ timerRunning' = FALSE
  /\ FailTransaction(FALSE)

RetriesExceeded == retryCount > MaxRetryCount

\* MUTANT of CountRetry: a retry is not counted
RetryUncounted == UNCHANGED retryCount

CountRetry == retryCount' = retryCount + 1

CountTimeout ==
  /\ TimedOut("MissionCount")
  /\ IF RetriesExceeded
     THEN GiveUp /\ UNCHANGED expectedAck
     ELSE /\ CountRetry
          /\ RequestList
          /\ signals' = {}
          /\ UNCHANGED <<session, itemIndicesToWrite, writeMissionItems>>

ItemTimeout ==
  /\ TimedOut("MissionItem")
  /\ IF RetriesExceeded
     THEN GiveUp /\ UNCHANGED expectedAck
     ELSE /\ CountRetry
          /\ RequestNextMissionItem(itemIndicesToRead)
          /\ UNCHANGED <<session, indices, lists>>

\* The vehicle asked for everything and sent no final ack, or it stopped asking.
WriteAbandoned ==
  /\ TimedOut("MissionRequest")
  /\ 0 \notin itemIndicesToWrite
  /\ GiveUp
  /\ expectedAck' = IF itemIndicesToWrite = {} THEN expectedAck ELSE "None"

\* Item 0 is still to be written: the vehicle did not answer MISSION_COUNT.
WriteCountTimeout ==
  /\ TimedOut("MissionRequest")
  /\ 0 \in itemIndicesToWrite
  /\ IF RetriesExceeded
     THEN GiveUp /\ UNCHANGED expectedAck
     ELSE /\ CountRetry
          /\ WriteMissionCount(writeMissionItems)
          /\ signals' = {}
          /\ UNCHANGED <<session, indices, lists>>

ClearAllTimeout ==
  /\ TimedOut("MissionClearAll")
  /\ IF RetriesExceeded
     THEN GiveUp /\ UNCHANGED expectedAck
     ELSE /\ CountRetry
          /\ RemoveAllWorker
          /\ signals' = {}
          /\ UNCHANGED <<transaction, resumeMission, indices, lists>>

GuidedTimeout ==
  /\ TimedOut("GuidedItem")
  /\ GiveUp
  /\ expectedAck' = "None"

AckTimeout ==
  \/ CountTimeout \/ ItemTimeout \/ WriteAbandoned \/ WriteCountTimeout
  \/ ClearAllTimeout \/ GuidedTimeout

-----------------------------------------------------------------------------
\* The timer is created stopped and nothing is connected; the other fields
\* have their constructor's values, the flags and lists empty.
Init ==
  /\ expectedAck = "None"
  /\ timerRunning = FALSE
  /\ retryCount = 0   \* not set by the constructor, and by no use before it is set
  /\ transaction = "None"
  /\ itemIndicesToWrite = {}
  /\ itemIndicesToRead = {}
  /\ missionItems = <<>>
  /\ writeMissionItems = <<>>
  /\ resumeMission = FALSE
  /\ connections = 0
  /\ signals = {}
  /\ toVehicle = <<>>

Operation ==
  \/ LoadFromVehicle
  \/ \E list \in PlanInput : WriteMissionItems(list)
  \/ \E kept \in ResumeChoices : WriteResumeMission(kept)
  \/ WriteGuidedItem
  \/ RemoveAll

\* The link hands a message to the vehicle, or loses it.
LinkTakes ==
  /\ toVehicle /= <<>>
  /\ toVehicle' = Tail(toVehicle)
  /\ UNCHANGED managerVars

Next ==
  \/ Operation
  \/ \E m \in VehicleInput : Receive(m)
  \/ AckTimeout
  \/ LinkTakes

Spec == Init /\ [][Next]_vars

-----------------------------------------------------------------------------
(* Properties *)

\* Every value has the type the code declares for it.
TypeOK ==
  /\ expectedAck \in AckType
  /\ timerRunning \in BOOLEAN
  /\ retryCount \in Nat
  /\ transaction \in TransactionType
  /\ itemIndicesToWrite \subseteq Nat
  /\ itemIndicesToRead \subseteq Nat
  /\ missionItems \in Seq([seq : Nat, item : ItemType])
  /\ writeMissionItems \in Seq(ItemType)
  /\ resumeMission \in BOOLEAN
  /\ connections \in Nat
  /\ signals \subseteq SignalType
  /\ toVehicle \in Seq(GroundMessage)

\* The acks a transaction waits for
AcksOf(t) == {ack \in AckType :
  \/ t = "Read"      /\ ack \in {"MissionCount", "MissionItem"}
  \/ t = "Write"     /\ ack \in {"MissionRequest", "GuidedItem"}
  \/ t = "RemoveAll" /\ ack = "MissionClearAll"}

\* No transaction hangs: as long as one is in progress the timer that can end
\* it is running, the manager listens to the vehicle, and it waits for an
\* answer of this transaction.  Whoever has no items left to read has finished
\* (_requestNextMissionItem would return without starting the timer).
NoStuckTransaction ==
  InProgress =>
    /\ timerRunning
    /\ connections > 0
    /\ expectedAck \in AcksOf(transaction)
    /\ expectedAck = "MissionItem" => itemIndicesToRead /= {}

\* A manager that is not in a transaction is deaf and has nothing left of the
\* last one that could leak into the next: no timer, no connection, no index,
\* no list to write, no resume flag.
IdleIsQuiescent ==
  ~InProgress =>
    /\ ~timerRunning
    /\ connections = 0
    /\ itemIndicesToRead = {} /\ itemIndicesToWrite = {}
    /\ writeMissionItems = <<>>
    /\ ~resumeMission

\* A list is whole when it holds every sequence number below its largest one,
\* each once.
IsWhole(list) ==
  /\ \A i \in 1 .. Len(list) : \A s \in 0 .. list[i].seq :
       \E j \in 1 .. Len(list) : list[j].seq = s
  /\ \A i, j \in 1 .. Len(list) : list[i].seq = list[j].seq => i = j

\* Whatever the vehicle answers, repeats or leaves out, the list other
\* components see outside a read is whole: neither part of a plan nor one with
\* an item twice (_handleMissionItem drops what it did not ask for, and a read
\* that fails clears what it has).
NoPartialList == transaction /= "Read" => IsWhole(missionItems)

\* The retries of _removeAllWorker connect again, so that a message can be
\* handled several times.  Only a removal may be connected more than once: its
\* one answer ends it, while a request or an item handled twice would not.
OneConnectionPerTransfer == connections > 1 => transaction = "RemoveAll"

\* One request is repeated at most MaxRetryCount + 1 times in a row
\* (_retryCount > _maxRetryCount is tested before it is incremented).
RetriesBounded == retryCount <= MaxRetryCount + 1

\* The signals as the completion reports of PlanTransaction
CompletionReports ==
  LET kind == [newMissionItemsAvailable |-> "Read",
               sendComplete             |-> "Write",
               removeAllComplete        |-> "RemoveAll"]
      ok == \A s \in signals : s.name /= "error"
  IN  {[of |-> kind[s.name], ok |-> ok /\ ~s.error] :
         s \in {x \in signals : x.name \in DOMAIN kind}}

Promise == INSTANCE PlanTransaction WITH
  Guided  <- PlanType = "Mission",
  current <- IF transaction = "Write" /\ expectedAck = "GuidedItem"
             THEN "GuidedItem" ELSE transaction,
  reports <- CompletionReports

\* The manager keeps the promise of PlanTransaction: each transaction that was
\* started ends with exactly one completion signal of its kind, and none is
\* emitted at any other time.
KeepsPromise == Promise!Spec
=============================================================================
