--------------------- MODULE MockLinkMissionItemHandler ---------------------
(***************************************************************************)
(* The vehicle's end of the MAVLink mission protocol as the repository      *)
(* implements it for its unit tests: comm/MockLinkMissionItemHandler.cc,    *)
(* with the failure modes the tests select.  Its response timer only        *)
(* asserts in a debug build and is left out.                               *)
(***************************************************************************)
EXTENDS Integers, Sequences, FiniteSets

CONSTANTS
  PlanTypes,                   \* the MAV_MISSION_TYPEs stored
  ReplyCapacity,               \* bound: messages the link to the ground holds
  StoredPlans,                 \* bound: the plans the vehicle starts with, by seq
  SendHomePositionOnEmptyList  \* _sendHomePositionOnEmptyList

VARIABLES
  vehicleItems,        \* _missionItems, _fenceItems, _rallyItems: maps by seq
  requestType,         \* _requestType
  writeSequenceCount,  \* _writeSequenceCount
  writeSequenceIndex,  \* _writeSequenceIndex
  failureMode,         \* _failureMode
  failFirst,           \* the _fail...FirstResponse flags that are set
  toGcs                \* messages sent to the ground and not yet delivered

writeSequence == <<writeSequenceCount, writeSequenceIndex>>
vehicleVars == <<vehicleItems, requestType, writeSequence, failureMode, failFirst>>

NoItems == [s \in {} |-> 0]
ZeroItem == [command |-> "Zero", param1 |-> 0]
HomeItem == [command |-> "Waypoint", param1 |-> 0]

Flag == {"ReadRequestList", "ReadRequest1", "WriteMissionCount"}

Init ==
  /\ vehicleItems \in [PlanTypes -> StoredPlans]
  /\ requestType \in PlanTypes   \* not set by the constructor
  /\ writeSequenceCount = 0
  /\ writeSequenceIndex = 0
  /\ failFirst = Flag
  /\ toGcs = <<>>

\* respondWithMavlinkMessage; a link that is full loses the message.
Respond(m) == toGcs' = IF Len(toGcs) < ReplyCapacity THEN Append(toGcs, m) ELSE toGcs
NoResponse == UNCHANGED toGcs

SendAck(type, result) == Respond([kind |-> "Ack", mt |-> type, result |-> result])

HandleMissionClearAll(m) ==
  /\ requestType' = m.mt
  /\ vehicleItems' = [vehicleItems EXCEPT ![m.mt] = NoItems]
  /\ SendAck(m.mt, "Accepted")
  /\ UNCHANGED <<writeSequence, failureMode, failFirst>>

StoredCount(type) ==
  IF /\ type = "Mission"
     /\ vehicleItems[type] = NoItems
     /\ SendHomePositionOnEmptyList
  THEN 1 ELSE Cardinality(DOMAIN vehicleItems[type])

HandleMissionRequestList(m) ==
  LET rearmed == failFirst \cup {"ReadRequest1"}
  IN  /\ IF failureMode = "FailReadRequestListNoResponse"
         THEN NoResponse /\ failFirst' = rearmed /\ UNCHANGED requestType
         ELSE IF /\ failureMode = "FailReadRequestListFirstResponse"
                 /\ "ReadRequestList" \in failFirst
         THEN /\ NoResponse
              /\ failFirst' = rearmed \ {"ReadRequestList"}
              /\ UNCHANGED requestType
         ELSE /\ requestType' = m.mt
              /\ failFirst' = rearmed \cup {"ReadRequestList"}
              /\ Respond([kind |-> "Count", mt |-> m.mt, n |-> StoredCount(m.mt)])
      /\ UNCHANGED <<vehicleItems, writeSequence, failureMode>>

\* The item is stored in the map, in place of any other with this number.
Store(items, seq, item) ==
  [s \in DOMAIN items \cup {seq} |-> IF s = seq THEN item ELSE items[s]]

\* QMap::operator[] on an index nobody wrote stores a zeroed item there.  The
\* answer carries the type of the last transaction, not that of the request.
RespondWithItem(type, seq) ==
  IF type = "Mission" /\ vehicleItems[type] = NoItems /\ SendHomePositionOnEmptyList
  THEN /\ Respond([kind |-> "Item", mt |-> requestType, seq |-> seq, item |-> HomeItem])
       /\ UNCHANGED vehicleItems
  ELSE LET stored == vehicleItems[type]
           items  == IF seq \in DOMAIN stored THEN stored ELSE Store(stored, seq, ZeroItem)
       IN  /\ Respond([kind |-> "Item", mt |-> requestType, seq |-> seq,
                       item |-> items[seq]])
           /\ vehicleItems' = [vehicleItems EXCEPT ![type] = items]

\* A failure mode for one item: mode names it by its sequence number.
Fails(seq, mode0, mode1) ==
  (failureMode = mode0 /\ seq = 0) \/ (failureMode = mode1 /\ seq = 1)

HandleMissionRequest(m) ==
  LET wrong == Fails(m.seq, "FailReadRequest0IncorrectSequence",
                            "FailReadRequest1IncorrectSequence")
      seq   == IF wrong THEN m.seq + 1 ELSE m.seq
      first == /\ failureMode = "FailReadRequest1FirstResponse"
               /\ m.seq = 1
               /\ "ReadRequest1" \in failFirst
  IN  /\ failFirst' = IF first THEN failFirst \ {"ReadRequest1"} ELSE failFirst
      /\ IF first \/ Fails(m.seq, "FailReadRequest0NoResponse",
                                  "FailReadRequest1NoResponse")
         THEN NoResponse /\ UNCHANGED vehicleItems
         ELSE IF Fails(m.seq, "FailReadRequest0ErrorAck", "FailReadRequest1ErrorAck")
         THEN SendAck(requestType, "Error") /\ UNCHANGED vehicleItems
         ELSE RespondWithItem(m.mt, seq)
      /\ UNCHANGED <<requestType, writeSequence, failureMode>>

\* Asks for item index of a write of count items.
RequestNextMissionItem(type, index, count) ==
  LET wrong == Fails(index, "FailWriteRequest0IncorrectSequence",
                            "FailWriteRequest1IncorrectSequence")
      seq   == IF wrong THEN index + 1 ELSE index
  IN  IF Fails(index, "", "FailWriteRequest1NoResponse") \/ index >= count
      THEN NoResponse
      ELSE IF Fails(seq, "FailWriteRequest0ErrorAck", "FailWriteRequest1ErrorAck")
      THEN SendAck(type, "Error")
      ELSE Respond([kind |-> "Request", mt |-> type, seq |-> seq])

HandleMissionCount(m) ==
  LET first == /\ failureMode = "FailWriteMissionCountFirstResponse"
               /\ "WriteMissionCount" \in failFirst
      silent == first \/ failureMode = "FailWriteMissionCountNoResponse"
  IN  /\ requestType' = m.mt
      /\ writeSequenceCount' = m.n
      /\ vehicleItems' = [vehicleItems EXCEPT ![m.mt] = NoItems]
      /\ IF m.n = 0
         THEN SendAck(m.mt, "Accepted") /\ UNCHANGED <<writeSequenceIndex, failFirst>>
         ELSE IF silent
         THEN /\ NoResponse
              /\ failFirst' = IF first THEN failFirst \ {"WriteMissionCount"}
                                       ELSE failFirst
              /\ UNCHANGED writeSequenceIndex
         ELSE /\ failFirst' = failFirst \cup {"WriteMissionCount"}
              /\ writeSequenceIndex' = 0
              /\ RequestNextMissionItem(m.mt, 0, m.n)
      /\ UNCHANGED failureMode

\* The index counts the items received, whatever their sequence numbers are.
HandleMissionItem(m) ==
  LET next == writeSequenceIndex + 1
  IN  /\ vehicleItems' = [vehicleItems EXCEPT ![m.mt] = Store(@, m.seq, m.item)]
      /\ writeSequenceIndex' = next
      /\ IF next < writeSequenceCount
         THEN IF failureMode = "FailWriteFinalAckMissingRequests" /\ next = 3
              THEN SendAck(requestType, "Accepted")
              ELSE RequestNextMissionItem(requestType, next, writeSequenceCount)
         ELSE IF failureMode = "FailWriteFinalAckNoResponse"
              THEN NoResponse
              ELSE SendAck(requestType, IF failureMode = "FailWriteFinalAckErrorAck"
                                        THEN "Error" ELSE "Accepted")
      /\ UNCHANGED <<requestType, writeSequenceCount, failureMode, failFirst>>

\* handleMessage; a MISSION_ACK from the ground is not looked at.
HandleMessage(m) ==
  \/ m.kind = "ClearAll"    /\ HandleMissionClearAll(m)
  \/ m.kind = "RequestList" /\ HandleMissionRequestList(m)
  \/ m.kind = "Request"     /\ HandleMissionRequest(m)
  \/ m.kind = "Count"       /\ HandleMissionCount(m)
  \/ m.kind = "Item"        /\ HandleMissionItem(m)
  \/ m.kind = "Ack"         /\ UNCHANGED <<vehicleVars, toGcs>>
=============================================================================
