-------------------------- MODULE PlanManagerProofs --------------------------
(***************************************************************************)
(* Proofs about PlanManager: what holds of the ground station's end of the *)
(* mission protocol whatever the vehicle sends and the link loses, for     *)
(* every list length, retry limit and firmware.                            *)
(*                                                                         *)
(*   - Types.                                                              *)
(*   - The safety invariants.  They are not inductive by themselves: two   *)
(*     facts strengthen them.  The list to write is empty unless a list is *)
(*     being written (NothingElseToWrite), and the items read so far and   *)
(*     those still to be read are disjoint and leave no gap (ReadProgress).*)
(*   - PlanManager implements PlanTransaction: a transaction is reported   *)
(*     once, as what it was, in the step that ends it, and nothing else is.*)
(***************************************************************************)
EXTENDS PlanManager, SequenceTheorems, TLAPS

NumberedItem == [seq : Nat, item : ItemType]
-----------------------------------------------------------------------------
(* What the operators on items, lists and messages return *)

\* A shifted item is an item: ToVehicle and FromVehicle change a DO_JUMP's number.
LEMMA ToVehicleType ==
  ASSUME NEW item \in ItemType
  PROVE  ToVehicle(item) \in ItemType
BY DEF ItemType, ToVehicle

\* The same for an item that is read.
LEMMA FromVehicleType ==
  ASSUME NEW item \in ItemType
  PROVE  FromVehicle(item) \in ItemType
BY DEF ItemType, FromVehicle

\* A function on the numbers up to n is a sequence of that length.
LEMMA FunctionIsSeq ==
  ASSUME NEW S, NEW n \in Nat, NEW f \in [1 .. n -> S]
  PROVE  f \in Seq(S) /\ Len(f) = n
<1>1. f \in Seq(S)
  BY SeqDef
<1> QED BY <1>1, LenProperties, SMT

\* The list writeMissionItems hands to the worker is a list of items.
LEMMA ToWriteListType ==
  ASSUME NEW list \in Seq(ItemType)
  PROVE  ToWriteList(list) \in Seq(ItemType)
<1> DEFINE skipped == IF SkipFirstItem /\ list /= <<>> THEN 1 ELSE 0
           n == Len(list) - skipped
<1>1. n \in Nat /\ skipped \in 0 .. 1
  BY EmptySeq, LenProperties
<1>2. \A i \in 1 .. n : list[i + skipped] \in ItemType
  BY <1>1, ElementOfSeq, LenProperties
<1>3. [i \in 1 .. n |-> ToVehicle(list[i + skipped])] \in [1 .. n -> ItemType]
  BY <1>2, ToVehicleType
<1>4. [i \in 1 .. n |-> ToVehicle(list[i + skipped])] \in Seq(ItemType)
  <2> HIDE DEF n
  <2> QED BY <1>1, <1>3, FunctionIsSeq
<1> QED BY <1>4 DEF ToWriteList

\* A written list, numbered, has every number below its length once.
LEMMA NumberedIsWhole ==
  ASSUME NEW list \in Seq(ItemType)
  PROVE  Numbered(list) \in Seq(NumberedItem) /\ IsWhole(Numbered(list))
<1> DEFINE n == Len(list)
<1>1. n \in Nat /\ \A i \in 1 .. n : list[i] \in ItemType
  BY ElementOfSeq, LenProperties
<1>2. Numbered(list) \in [1 .. n -> NumberedItem]
  BY <1>1 DEF Numbered, NumberedItem
<1>3. Numbered(list) \in Seq(NumberedItem) /\ Len(Numbered(list)) = n
  BY <1>1, <1>2, FunctionIsSeq
<1>4. \A i \in 1 .. n : Numbered(list)[i].seq = i - 1
  BY <1>1 DEF Numbered
<1>5. \A i \in 1 .. n : \A s \in 0 .. i - 1 :
        s + 1 \in 1 .. n /\ Numbered(list)[s + 1].seq = s
  BY <1>1, <1>4
<1> QED BY <1>1, <1>3, <1>4, <1>5 DEF IsWhole

\* Sending keeps the link a sequence of messages to the vehicle.
LEMMA SendType ==
  ASSUME toVehicle \in Seq(GroundMessage), NEW m \in GroundMessage, Send(m)
  PROVE  toVehicle' \in Seq(GroundMessage)
BY AppendProperties DEF Send

\* What Signal makes is a signal.
LEMMA SignalInType ==
  ASSUME NEW name \in {"error", "newMissionItemsAvailable", "sendComplete",
                       "removeAllComplete", "resumeMissionReady",
                       "resumeMissionUploadFail", "homePosition"},
         NEW failed \in BOOLEAN
  PROVE  {Signal(name, failed)} \subseteq SignalType
BY DEF Signal, SignalType

\* The signals a transaction ends with are signals, whatever it was.
LEMMA CompletionSignalsType ==
  ASSUME NEW success \in BOOLEAN, NEW guided \in BOOLEAN
  PROVE  CompletionSignals(success, guided) \cup ResumeSignals(success) \subseteq SignalType
<1>1. (~success) \in BOOLEAN
  OBVIOUS
<1>2. /\ {Signal("newMissionItemsAvailable", FALSE)} \subseteq SignalType
      /\ {Signal("removeAllComplete", ~success)} \subseteq SignalType
      /\ {Signal("sendComplete", ~success)} \subseteq SignalType
      /\ {Signal("resumeMissionReady", FALSE)} \subseteq SignalType
      /\ {Signal("resumeMissionUploadFail", FALSE)} \subseteq SignalType
  BY <1>1, SignalInType
<1>3. CompletionSignals(success, guided) \subseteq SignalType
  BY <1>2 DEF CompletionSignals
<1>4. ResumeSignals(success) \subseteq SignalType
  BY <1>2 DEF ResumeSignals
<1> QED BY <1>3, <1>4

\* The ways a transaction ends keep the types of what they assign.
LEMMA FinishType ==
  ASSUME TypeOK, NEW success \in BOOLEAN, NEW guided \in BOOLEAN,
         NEW items \in Seq(NumberedItem), NEW errors \in SUBSET SignalType,
         FinishTransaction(success, guided, items, errors)
  PROVE  /\ connections' \in Nat /\ transaction' \in TransactionType
         /\ itemIndicesToRead' \subseteq Nat /\ itemIndicesToWrite' \subseteq Nat
         /\ missionItems' \in Seq(NumberedItem)
         /\ writeMissionItems' \in Seq(ItemType)
         /\ resumeMission' \in BOOLEAN /\ signals' \subseteq SignalType
<1>1. Numbered(writeMissionItems) \in Seq(NumberedItem)
  BY NumberedIsWhole DEF TypeOK
<1>2. missionItems' \in Seq(NumberedItem)
  BY <1>1, EmptySeq DEF FinishTransaction, EndSession, ListAfter
<1>3. writeMissionItems' \in Seq(ItemType)
  BY EmptySeq DEF FinishTransaction, EndSession, ListAfter, TypeOK
<1>4. signals' \subseteq SignalType
  BY CompletionSignalsType DEF FinishTransaction, EndSession, ListAfter
<1> QED BY <1>2, <1>3, <1>4 DEF FinishTransaction, EndSession, TransactionType

-----------------------------------------------------------------------------
(* Type correctness *)

\* What a message of a kind carries
LEMMA MessageFields ==
  ASSUME NEW m \in VehicleMessage
  PROVE  /\ m.mt \in PlanTypes
         /\ m.kind = "Count" => m.n \in Nat
         /\ m.kind = "Item" => m.seq \in Nat /\ m.item \in ItemType
         /\ m.kind = "Request" => m.seq \in Nat
         /\ m.kind = "Ack" => m.result \in AckResult
BY DEF VehicleMessage

\* Everything the manager sends is a message to the vehicle.
LEMMA SentMessages ==
  /\ [kind |-> "RequestList", mt |-> PlanType] \in GroundMessage
  /\ [kind |-> "ClearAll", mt |-> PlanType] \in GroundMessage
  /\ [kind |-> "Ack", mt |-> PlanType, result |-> "Accepted"] \in GroundMessage
  /\ \A n \in Nat :
       /\ [kind |-> "Count", mt |-> PlanType, n |-> n] \in GroundMessage
       /\ [kind |-> "Request", mt |-> PlanType, seq |-> n] \in GroundMessage
       /\ \A i \in ItemType :
            [kind |-> "Item", mt |-> PlanType, seq |-> n, item |-> i] \in GroundMessage
BY PlanTypeAssumption DEF GroundMessage, AckResult

\* Asking for the next item of a list of numbers keeps the types.
LEMMA RequestNextType ==
  ASSUME toVehicle \in Seq(GroundMessage), NEW toRead \in SUBSET Nat,
         RequestNextMissionItem(toRead)
  PROVE  /\ toVehicle' \in Seq(GroundMessage)
         /\ expectedAck' = "MissionItem" /\ timerRunning' = TRUE
         /\ signals' = {}
BY SentMessages, SendType DEF RequestNextMissionItem, StartAckTimeout

\* The end of a read that has all its items keeps the types.
LEMMA ReadCompleteType ==
  ASSUME TypeOK, NEW items \in Seq(NumberedItem), AckReceived,
         ReadTransactionComplete(items), retryCount' = 0
  PROVE  TypeOK'
<1>1. toVehicle' \in Seq(GroundMessage)
  BY SentMessages, SendType DEF ReadTransactionComplete, TypeOK
<1>2. FinishTransaction(TRUE, FALSE, items, {})
  BY DEF ReadTransactionComplete
<1>3. /\ connections' \in Nat /\ transaction' \in TransactionType
      /\ itemIndicesToRead' \subseteq Nat /\ itemIndicesToWrite' \subseteq Nat
      /\ missionItems' \in Seq(NumberedItem)
      /\ writeMissionItems' \in Seq(ItemType)
      /\ resumeMission' \in BOOLEAN /\ signals' \subseteq SignalType
  <2>1. {} \in SUBSET SignalType
    OBVIOUS
  <2> QED BY <1>2, <2>1, FinishType
<1>4. expectedAck' \in AckType /\ timerRunning' \in BOOLEAN /\ retryCount' \in Nat
  BY DEF AckReceived, AckType
<1> QED
  BY <1>1, <1>3, <1>4 DEF TypeOK, NumberedItem

\* The end of a transaction that fails keeps the types.
LEMMA FailType ==
  ASSUME TypeOK, FailTransaction(FALSE), expectedAck' \in AckType,
         timerRunning' \in BOOLEAN
  PROVE  TypeOK'
<1>1. SendError \in SUBSET SignalType
  BY SignalInType DEF SendError
<1>2. missionItems \in Seq(NumberedItem)
  BY DEF TypeOK, NumberedItem
<1>3. FinishTransaction(FALSE, FALSE, missionItems, SendError)
  BY DEF FailTransaction
<1>4. /\ connections' \in Nat /\ transaction' \in TransactionType
      /\ itemIndicesToRead' \subseteq Nat /\ itemIndicesToWrite' \subseteq Nat
      /\ missionItems' \in Seq(NumberedItem)
      /\ writeMissionItems' \in Seq(ItemType)
      /\ resumeMission' \in BOOLEAN /\ signals' \subseteq SignalType
  BY <1>1, <1>2, <1>3, FinishType
<1>5. retryCount' \in Nat /\ toVehicle' \in Seq(GroundMessage)
  BY DEF FailTransaction, TypeOK
<1> QED
  BY <1>4, <1>5 DEF TypeOK, NumberedItem

\* A message that is not meant for the current state changes no type.
LEMMA IgnoreType ==
  ASSUME TypeOK, Ignore
  PROVE  TypeOK'
BY DEF TypeOK, Ignore, ackTimer, session, indices, lists

\* Each handler of a message keeps the types.
LEMMA ReceiveType ==
  ASSUME TypeOK, NEW m \in VehicleMessage, Receive(m)
  PROVE  TypeOK'
<1> USE DEF ackTimer, session, indices, lists
<1>1. CASE m.kind = "Count" /\ HandleMissionCount(m)
  <2>1. m.n \in Nat
    BY <1>1, MessageFields
  <2>2. CASE m.mt /= PlanType \/ expectedAck /= "MissionCount"
    BY <1>1, <2>2, IgnoreType DEF HandleMissionCount
  <2>3. CASE ~(m.mt /= PlanType \/ expectedAck /= "MissionCount") /\ m.n = 0
    BY <1>1, <2>3, ReadCompleteType DEF HandleMissionCount, TypeOK, NumberedItem
  <2>4. CASE ~(m.mt /= PlanType \/ expectedAck /= "MissionCount") /\ m.n /= 0
    <3> DEFINE toRead == itemIndicesToRead \cup (0 .. m.n - 1)
    <3>1. toRead \in SUBSET Nat
      <4>1. itemIndicesToRead \subseteq Nat /\ 0 .. m.n - 1 \subseteq Nat
        BY <2>1 DEF TypeOK
      <4> QED BY <4>1
    <3>2. /\ itemIndicesToRead' = toRead /\ RequestNextMissionItem(toRead)
          /\ retryCount' = 0
          /\ UNCHANGED <<session, itemIndicesToWrite, lists>>
      BY <1>1, <2>4 DEF HandleMissionCount
    <3> HIDE DEF toRead
    <3> QED BY <3>1, <3>2, RequestNextType DEF TypeOK, AckType
  <2> QED BY <2>2, <2>3, <2>4
<1>2. CASE m.kind = "Item" /\ HandleMissionItem(m)
  <2> DEFINE items  == Append(missionItems, [seq |-> m.seq, item |-> FromVehicle(m.item)])
             toRead == itemIndicesToRead \ {m.seq}
  <2>1. [seq |-> m.seq, item |-> FromVehicle(m.item)] \in NumberedItem
    BY <1>2, MessageFields, FromVehicleType DEF NumberedItem
  <2>2. items \in Seq(NumberedItem) /\ toRead \subseteq Nat
    BY <2>1, AppendProperties DEF TypeOK, NumberedItem
  <2>3. CASE expectedAck /= "MissionItem"
    <3>1. {Signal("homePosition", FALSE)} \subseteq SignalType
      BY SignalInType
    <3> QED BY <1>2, <2>3, <3>1, IgnoreType
       DEF HandleMissionItem, TypeOK, ItemWasRequested, DropItem
  <2>4. CASE expectedAck = "MissionItem" /\ m.seq \notin itemIndicesToRead
    BY <1>2, <2>4
       DEF HandleMissionItem, StartAckTimeout, TypeOK, AckType,
           ItemWasRequested, DropItem
  <2>5. CASE expectedAck = "MissionItem" /\ m.seq \in itemIndicesToRead /\ toRead = {}
    <3>1. AckReceived /\ ReadTransactionComplete(items) /\ retryCount' = 0
      BY <1>2, <2>5 DEF HandleMissionItem, ItemWasRequested, DropItem
    <3> HIDE DEF items
    <3> QED BY <2>2, <3>1, ReadCompleteType
  <2>6. CASE expectedAck = "MissionItem" /\ m.seq \in itemIndicesToRead /\ toRead /= {}
    <3>1. /\ itemIndicesToRead' = toRead /\ missionItems' = items
          /\ RequestNextMissionItem(toRead) /\ retryCount' = 0
          /\ UNCHANGED <<session, itemIndicesToWrite, writeMissionItems>>
      BY <1>2, <2>6 DEF HandleMissionItem, ItemWasRequested, DropItem
    <3> HIDE DEF items, toRead
    <3> QED BY <2>2, <3>1, RequestNextType DEF TypeOK, AckType, NumberedItem
  <2> QED BY <2>3, <2>4, <2>5, <2>6
<1>3. CASE m.kind = "Request" /\ HandleMissionRequest(m)
  <2>1. m.seq \in Nat
    BY <1>3, MessageFields
  <2>2. CASE m.mt /= PlanType \/ expectedAck /= "MissionRequest"
    BY <1>3, <2>2, IgnoreType DEF HandleMissionRequest, ItemToSend
  <2>3. CASE /\ ~(m.mt /= PlanType \/ expectedAck /= "MissionRequest")
             /\ m.seq > Len(writeMissionItems) - 1
    BY <1>3, <2>3, FailType DEF HandleMissionRequest, AckReceived, AckType, ItemToSend
  <2>4. CASE /\ ~(m.mt /= PlanType \/ expectedAck /= "MissionRequest")
             /\ ~(m.seq > Len(writeMissionItems) - 1)
    <3>1. writeMissionItems[m.seq + 1] \in ItemType
      BY <2>1, <2>4, ElementOfSeq, LenProperties DEF TypeOK
    <3>2. toVehicle' \in Seq(GroundMessage)
      BY <1>3, <2>1, <2>4, <3>1, SentMessages, SendType
         DEF HandleMissionRequest, TypeOK, ItemToSend
    <3> QED
      BY <1>3, <2>4, <3>2
         DEF HandleMissionRequest, StartAckTimeout, TypeOK, AckType, ItemToSend
  <2> QED BY <2>2, <2>3, <2>4
<1>4. CASE m.kind = "Ack" /\ HandleMissionAck(m)
  <2>1. CASE m.mt /= PlanType \/ (ApmFirmware /\ m.result = "InvalidSequence")
    BY <1>4, <2>1, IgnoreType DEF HandleMissionAck
  <2>2. CASE /\ ~(m.mt /= PlanType \/ (ApmFirmware /\ m.result = "InvalidSequence"))
             /\ expectedAck = "None"
    BY <1>4, <2>2 DEF HandleMissionAck, TypeOK
  <2>3. CASE /\ ~(m.mt /= PlanType \/ (ApmFirmware /\ m.result = "InvalidSequence"))
             /\ expectedAck /= "None"
    <3> DEFINE ok == AckIsSuccess(m.result)
               guided == expectedAck = "GuidedItem"
               errors == IF ok THEN {} ELSE SendError
    <3>1. FinishTransaction(ok, guided, missionItems, errors) /\ AckReceived
          /\ UNCHANGED <<retryCount, toVehicle>>
      BY <1>4, <2>3 DEF HandleMissionAck
    <3>2. ok \in BOOLEAN /\ guided \in BOOLEAN /\ errors \in SUBSET SignalType
      BY SignalInType DEF SendError, AckIsSuccess
    <3>3. missionItems \in Seq(NumberedItem)
      BY DEF TypeOK, NumberedItem
    <3> HIDE DEF ok, guided, errors
    <3> QED BY <3>1, <3>2, <3>3, FinishType
            DEF AckReceived, TypeOK, AckType, NumberedItem
  <2> QED BY <2>1, <2>2, <2>3
<1> QED BY <1>1, <1>2, <1>3, <1>4 DEF Receive

\* Sending MISSION_COUNT keeps the types.
LEMMA WriteCountType ==
  ASSUME toVehicle \in Seq(GroundMessage), NEW list \in Seq(ItemType),
         WriteMissionCount(list)
  PROVE  /\ toVehicle' \in Seq(GroundMessage)
         /\ expectedAck' = "MissionRequest" /\ timerRunning' = TRUE
<1>1. Len(list) \in Nat
  BY LenProperties
<1> QED BY <1>1, SentMessages, SendType DEF WriteMissionCount, StartAckTimeout

\* Starting a write keeps the types.
LEMMA StartWriteType ==
  ASSUME TypeOK, NEW list \in Seq(ItemType), StartWrite(list), resumeMission' \in BOOLEAN
  PROVE  TypeOK'
<1>1. Len(list) \in Nat /\ 0 .. Len(list) - 1 \subseteq Nat
  BY LenProperties
<1>2. /\ toVehicle' \in Seq(GroundMessage)
      /\ expectedAck' = "MissionRequest" /\ timerRunning' = TRUE
  BY WriteCountType DEF StartWrite, TypeOK, Begin
<1> QED BY <1>1, <1>2 DEF StartWrite, TypeOK, AckType, TransactionType, Begin

\* A choice of the items of a list is a list of its items.
LEMMA ResumeListType ==
  ASSUME TypeOK, NEW kept \in ResumeChoices
  PROVE  [i \in 1 .. Len(kept) |-> missionItems[kept[i]].item] \in Seq(ItemType)
<1> DEFINE n == Len(missionItems)
<1>1. n \in Nat /\ \A i \in 1 .. n : missionItems[i].item \in ItemType
  <2>1. missionItems \in Seq(NumberedItem)
    BY DEF TypeOK, NumberedItem
  <2>2. n \in Nat /\ \A i \in 1 .. n : missionItems[i] \in NumberedItem
    BY <2>1, ElementOfSeq, LenProperties
  <2> QED BY <2>2 DEF NumberedItem
<1>2. PICK k \in 1 .. n : kept \in [1 .. k -> 1 .. n]
  BY DEF ResumeChoices
<1>3. Len(kept) = k /\ k \in Nat
  BY <1>1, <1>2, FunctionIsSeq
<1>4. [i \in 1 .. k |-> missionItems[kept[i]].item] \in [1 .. k -> ItemType]
  BY <1>1, <1>2
<1> QED BY <1>3, <1>4, FunctionIsSeq

\* Asking for the list of the vehicle keeps the types.
LEMMA RequestListType ==
  ASSUME toVehicle \in Seq(GroundMessage), RequestList
  PROVE  /\ toVehicle' \in Seq(GroundMessage)
         /\ expectedAck' = "MissionCount" /\ timerRunning' = TRUE
         /\ itemIndicesToRead' = {} /\ missionItems' = <<>>
BY SentMessages, SendType DEF RequestList, StartAckTimeout

\* Each public operation keeps the types.
LEMMA OperationType ==
  ASSUME TypeOK, Operation
  PROVE  TypeOK'
<1> USE DEF ackTimer, session, indices, lists
<1>1. CASE LoadFromVehicle
  <2>1. toVehicle \in Seq(GroundMessage) /\ RequestList
    BY <1>1 DEF TypeOK, LoadFromVehicle, Begin
  <2>2. <<>> \in Seq([seq : Nat, item : ItemType])
    BY EmptySeq
  <2> QED BY <1>1, <2>1, <2>2, RequestListType
          DEF LoadFromVehicle, TypeOK, AckType, TransactionType, Begin
<1>2. ASSUME NEW list \in PlanInput, WriteMissionItems(list)
      PROVE  TypeOK'
  <2>1. ToWriteList(list) \in Seq(ItemType)
    BY InputAssumption, ToWriteListType
  <2> QED BY <1>2, <2>1, StartWriteType DEF WriteMissionItems, TypeOK
<1>3. ASSUME NEW kept \in ResumeChoices, WriteResumeMission(kept)
      PROVE  TypeOK'
  BY <1>3, ResumeListType, StartWriteType DEF WriteResumeMission
<1>4. CASE WriteGuidedItem
  <2>1. PlanType = "Mission"
    BY <1>4 DEF WriteGuidedItem
  <2>2. [command |-> "Waypoint", param1 |-> 0] \in ItemType
    BY DEF ItemType
  <2>3. [kind |-> "Item", mt |-> PlanType, seq |-> 0,
         item |-> [command |-> "Waypoint", param1 |-> 0]] \in GroundMessage
    BY <2>2, SentMessages
  <2>4. toVehicle' \in Seq(GroundMessage)
    BY <1>4, <2>1, <2>3, SendType DEF WriteGuidedItem, TypeOK
  <2> QED BY <1>4, <2>4 DEF WriteGuidedItem, StartAckTimeout, TypeOK, AckType,
                            TransactionType
<1>5. CASE RemoveAll
  <2>1. toVehicle' \in Seq(GroundMessage)
    BY <1>5, SentMessages, SendType DEF RemoveAll, RemoveAllWorker, TypeOK, Begin
  <2>2. <<>> \in Seq([seq : Nat, item : ItemType])
    BY EmptySeq
  <2> QED BY <1>5, <2>1, <2>2 DEF RemoveAll, RemoveAllWorker, StartAckTimeout, TypeOK,
                            AckType, TransactionType, Begin
<1> QED BY <1>1, <1>2, <1>3, <1>4, <1>5 DEF Operation

\* Each branch of the ack timeout keeps the types.
LEMMA AckTimeoutType ==
  ASSUME TypeOK, AckTimeout
  PROVE  TypeOK'
<1> USE DEF ackTimer, session, indices, lists
<1>1. ASSUME GiveUp, expectedAck' \in AckType
      PROVE  TypeOK'
  BY <1>1, FailType DEF GiveUp
<1>2. "None" \in AckType /\ expectedAck \in AckType
  BY DEF AckType, TypeOK
<1>3. CASE CountTimeout
  <2>1. <<>> \in Seq([seq : Nat, item : ItemType])
    BY EmptySeq
  <2>2. CASE ~RetriesExceeded
    <3>1. /\ retryCount' = retryCount + 1 /\ RequestList /\ signals' = {}
          /\ UNCHANGED <<session, itemIndicesToWrite, writeMissionItems>>
      BY <1>3, <2>2 DEF CountTimeout, CountRetry
    <3> QED BY <2>1, <3>1, RequestListType DEF TypeOK, AckType
  <2>3. CASE RetriesExceeded
    <3>1. GiveUp /\ expectedAck' = expectedAck
      BY <1>3, <2>3 DEF CountTimeout, CountRetry
    <3>2. expectedAck' \in AckType
      BY <1>2, <3>1
    <3> QED BY <1>1, <3>1, <3>2
  <2> QED BY <2>2, <2>3
<1>4. CASE ItemTimeout
  <2>1. CASE ~RetriesExceeded
    <3>1. itemIndicesToRead \in SUBSET Nat
      BY DEF TypeOK
    <3>2. /\ retryCount' = retryCount + 1 /\ RequestNextMissionItem(itemIndicesToRead)
          /\ UNCHANGED <<session, indices, lists>>
      BY <1>4, <2>1 DEF ItemTimeout, CountRetry
    <3>3. /\ toVehicle' \in Seq(GroundMessage)
          /\ expectedAck' = "MissionItem" /\ timerRunning' = TRUE /\ signals' = {}
      BY <3>1, <3>2, RequestNextType DEF TypeOK
    <3>4. retryCount' \in Nat
      BY <3>2 DEF TypeOK
    <3> QED BY <3>2, <3>3, <3>4 DEF TypeOK, AckType
  <2>2. CASE RetriesExceeded
    <3>1. GiveUp /\ expectedAck' = expectedAck
      BY <1>4, <2>2 DEF ItemTimeout, CountRetry
    <3>2. expectedAck' \in AckType
      BY <1>2, <3>1
    <3> QED BY <1>1, <3>1, <3>2
  <2> QED BY <2>1, <2>2
<1>5. CASE WriteAbandoned
  BY <1>1, <1>2, <1>5 DEF WriteAbandoned
<1>6. CASE WriteCountTimeout
  <2>1. CASE ~RetriesExceeded
    <3>1. /\ retryCount' = retryCount + 1 /\ WriteMissionCount(writeMissionItems)
          /\ signals' = {} /\ UNCHANGED <<session, indices, lists>>
      BY <1>6, <2>1 DEF WriteCountTimeout, CountRetry
    <3>2. /\ toVehicle' \in Seq(GroundMessage)
          /\ expectedAck' = "MissionRequest" /\ timerRunning' = TRUE
      BY <3>1, WriteCountType DEF TypeOK
    <3>3. retryCount' \in Nat
      BY <3>1 DEF TypeOK
    <3> QED BY <3>1, <3>2, <3>3 DEF TypeOK, AckType
  <2>2. CASE RetriesExceeded
    <3>1. GiveUp /\ expectedAck' = expectedAck
      BY <1>6, <2>2 DEF WriteCountTimeout, CountRetry
    <3>2. expectedAck' \in AckType
      BY <1>2, <3>1
    <3> QED BY <1>1, <3>1, <3>2
  <2> QED BY <2>1, <2>2
<1>7. CASE ClearAllTimeout
  <2>1. CASE ~RetriesExceeded
    <3>1. /\ retryCount' = retryCount + 1 /\ RemoveAllWorker /\ signals' = {}
          /\ UNCHANGED <<transaction, resumeMission, indices, lists>>
      BY <1>7, <2>1 DEF ClearAllTimeout, CountRetry
    <3>2. toVehicle' \in Seq(GroundMessage)
      BY <3>1, SentMessages, SendType DEF RemoveAllWorker, TypeOK
    <3>3. retryCount' \in Nat /\ connections' \in Nat
      BY <3>1 DEF RemoveAllWorker, TypeOK
    <3>4. expectedAck' = "MissionClearAll" /\ timerRunning' = TRUE
      BY <3>1 DEF RemoveAllWorker, StartAckTimeout
    <3> QED BY <3>1, <3>2, <3>3, <3>4 DEF TypeOK, AckType
  <2>2. CASE RetriesExceeded
    <3>1. GiveUp /\ expectedAck' = expectedAck
      BY <1>7, <2>2 DEF ClearAllTimeout, CountRetry
    <3>2. expectedAck' \in AckType
      BY <1>2, <3>1
    <3> QED BY <1>1, <3>1, <3>2
  <2> QED BY <2>1, <2>2
<1>8. CASE GuidedTimeout
  BY <1>1, <1>2, <1>8 DEF GuidedTimeout
<1> QED BY <1>3, <1>4, <1>5, <1>6, <1>7, <1>8 DEF AckTimeout

\* Every step keeps the types.
LEMMA TypeStep == TypeOK /\ [Next]_vars => TypeOK'
<1> SUFFICES ASSUME TypeOK, [Next]_vars
             PROVE  TypeOK'
  OBVIOUS
<1>1. CASE Operation
  BY <1>1, OperationType
<1>2. CASE \E m \in VehicleInput : Receive(m)
  BY <1>2, InputAssumption, ReceiveType
<1>3. CASE AckTimeout
  BY <1>3, AckTimeoutType
<1>4. CASE LinkTakes
  BY <1>4, HeadTailProperties
     DEF LinkTakes, TypeOK, managerVars, ackTimer, session, indices, lists
<1>5. CASE UNCHANGED vars
  BY <1>5 DEF TypeOK, vars, managerVars, ackTimer, session, indices, lists
<1> QED BY <1>1, <1>2, <1>3, <1>4, <1>5 DEF Next

\* A manager with nothing to do has the right types.
LEMMA TypeInit == Init => TypeOK
<1>1. /\ <<>> \in Seq([seq : Nat, item : ItemType])
      /\ <<>> \in Seq(ItemType) /\ <<>> \in Seq(GroundMessage)
  BY EmptySeq
<1> SUFFICES ASSUME Init
             PROVE  TypeOK
  OBVIOUS
<1>2. expectedAck \in AckType /\ timerRunning \in BOOLEAN /\ retryCount \in Nat
  BY DEF Init, AckType
<1>3. transaction \in TransactionType /\ resumeMission \in BOOLEAN /\ connections \in Nat
  BY DEF Init, TransactionType
<1>4. itemIndicesToWrite \subseteq Nat /\ itemIndicesToRead \subseteq Nat
      /\ signals \subseteq SignalType
  BY DEF Init
<1>5. /\ missionItems \in Seq([seq : Nat, item : ItemType])
      /\ writeMissionItems \in Seq(ItemType) /\ toVehicle \in Seq(GroundMessage)
  BY <1>1 DEF Init
<1> QED BY <1>2, <1>3, <1>4, <1>5 DEF TypeOK

\* Whatever the vehicle sends, every value of the manager has the type that the
\* code declares for it.
THEOREM TypeCorrect == Spec => []TypeOK
BY TypeInit, TypeStep, PTL DEF Spec
-----------------------------------------------------------------------------
(* The safety invariants *)

\* A list write fills _writeMissionItems and its end clears it; no other
\* transaction touches it, so that the end of one finds it empty.
NothingElseToWrite ==
  InProgress /\ (transaction /= "Write" \/ expectedAck = "GuidedItem")
    => writeMissionItems = <<>>

SeqsOf(list) == {list[i].seq : i \in 1 .. Len(list)}
Once(list) == \A i, j \in 1 .. Len(list) : list[i].seq = list[j].seq => i = j
Downward(S) == \A s \in S : 0 .. s \subseteq S

\* What is read and what is still to be read make a whole plan.
ReadProgress ==
  transaction = "Read" =>
    /\ expectedAck = "MissionCount" => missionItems = <<>> /\ itemIndicesToRead = {}
    /\ expectedAck = "MissionItem" =>
         /\ Once(missionItems)
         /\ SeqsOf(missionItems) \cap itemIndicesToRead = {}
         /\ Downward(SeqsOf(missionItems) \cup itemIndicesToRead)

Control ==
  /\ NoStuckTransaction
  /\ IdleIsQuiescent
  /\ OneConnectionPerTransfer
  /\ RetriesBounded
  /\ NothingElseToWrite

IInv == TypeOK /\ Control /\ ReadProgress /\ NoPartialList
-----------------------------------------------------------------------------
(* Control: timers, connections and retries *)

\* However a transaction ends, nothing of it is left.
LEMMA FinishControl ==
  ASSUME NEW success, NEW guided \in BOOLEAN, NEW items, NEW errors,
         FinishTransaction(success, guided, items, errors),
         transaction /= "Write" \/ guided => writeMissionItems = <<>>,
         timerRunning' = FALSE, RetriesBounded'
  PROVE  Control'
<1>1. /\ transaction' = "None" /\ connections' = 0
      /\ itemIndicesToRead' = {} /\ itemIndicesToWrite' = {}
      /\ resumeMission' = FALSE /\ writeMissionItems' = <<>>
  BY DEF FinishTransaction, EndSession, ListAfter
<1>2. NoStuckTransaction'
  BY <1>1 DEF NoStuckTransaction, InProgress
<1>3. IdleIsQuiescent'
  BY <1>1 DEF IdleIsQuiescent
<1>4. OneConnectionPerTransfer' /\ NothingElseToWrite'
  BY <1>1 DEF OneConnectionPerTransfer, NothingElseToWrite, InProgress
<1> QED BY <1>2, <1>3, <1>4 DEF Control

\* Whoever waits for an answer, or hears one, is in the transaction it is for.
LEMMA WhatIsAwaited ==
  ASSUME TypeOK, Control, timerRunning \/ connections > 0
  PROVE  /\ InProgress /\ expectedAck \in AcksOf(transaction)
         /\ timerRunning /\ connections > 0 /\ connections \in Nat
         /\ expectedAck \in {"MissionCount", "MissionItem"} <=> transaction = "Read"
         /\ expectedAck \in {"MissionRequest", "GuidedItem"} <=> transaction = "Write"
         /\ expectedAck = "MissionClearAll" <=> transaction = "RemoveAll"
         /\ expectedAck /= "None"
         /\ transaction /= "RemoveAll" => connections = 1
<1>1. InProgress
  BY DEF Control, IdleIsQuiescent, TypeOK
<1>2. expectedAck \in AcksOf(transaction) /\ timerRunning /\ connections > 0
  BY <1>1 DEF Control, NoStuckTransaction
<1>3. transaction \in {"Read", "Write", "RemoveAll"}
  BY <1>1 DEF InProgress, TypeOK, TransactionType
<1>4. connections \in Nat /\ (transaction /= "RemoveAll" => connections = 1)
  BY <1>2 DEF Control, OneConnectionPerTransfer, TypeOK
<1> QED BY <1>1, <1>2, <1>3, <1>4 DEF AcksOf, AckType

\* A step inside a transaction that asks for one more answer of it keeps it in
\* control.
LEMMA WorkControl ==
  ASSUME TypeOK, Control, InProgress, UNCHANGED <<transaction, writeMissionItems>>,
         timerRunning' = TRUE, connections' \in Nat, connections' > 0,
         connections' > 1 => transaction = "RemoveAll",
         expectedAck' \in AcksOf(transaction),
         expectedAck' = "GuidedItem" => expectedAck = "GuidedItem",
         expectedAck' = "MissionItem" => itemIndicesToRead' /= {},
         RetriesBounded'
  PROVE  Control'
<1>1. InProgress' /\ transaction' = transaction
  BY DEF InProgress
<1>2. NoStuckTransaction'
  <2>1. expectedAck' \in AcksOf(transaction')
    BY <1>1
  <2> QED BY <1>1, <2>1 DEF NoStuckTransaction
<1>3. IdleIsQuiescent'
  BY <1>1 DEF IdleIsQuiescent
<1>4. OneConnectionPerTransfer' /\ NothingElseToWrite'
  BY <1>1 DEF Control, OneConnectionPerTransfer, NothingElseToWrite
<1> QED BY <1>2, <1>3, <1>4 DEF Control

\* A transaction starts from a manager that is idle.
LEMMA StartControl ==
  ASSUME TypeOK, Control, ~InProgress, transaction' \in {"Read", "Write", "RemoveAll"},
         connections' = connections + 1, timerRunning' = TRUE,
         expectedAck' \in AcksOf(transaction'), expectedAck' /= "MissionItem",
         transaction' /= "Write" \/ expectedAck' = "GuidedItem"
           => UNCHANGED writeMissionItems,
         RetriesBounded'
  PROVE  Control'
<1>1. connections' = 1 /\ writeMissionItems = <<>>
  BY DEF Control, IdleIsQuiescent
<1>2. InProgress'
  BY DEF InProgress
<1>3. NoStuckTransaction' /\ IdleIsQuiescent'
  BY <1>1, <1>2 DEF NoStuckTransaction, IdleIsQuiescent
<1>4. OneConnectionPerTransfer' /\ NothingElseToWrite'
  BY <1>1 DEF OneConnectionPerTransfer, NothingElseToWrite
<1> QED BY <1>3, <1>4 DEF Control

\* A new transaction has used no retry; a guided item keeps the count it finds.
LEMMA OperationControl ==
  ASSUME TypeOK, Control, Operation
  PROVE  Control'
<1>1. RetriesBounded /\ 0 <= MaxRetryCount + 1
  BY RetryAssumption DEF Control
<1>2. CASE LoadFromVehicle
  <2>1. /\ expectedAck' = "MissionCount" /\ timerRunning' = TRUE
        /\ UNCHANGED writeMissionItems /\ RetriesBounded'
    BY <1>1, <1>2
       DEF LoadFromVehicle, RequestList, StartAckTimeout, RetriesBounded, Begin
  <2>2. ~InProgress /\ transaction' = "Read" /\ connections' = connections + 1
    BY <1>2 DEF LoadFromVehicle, Begin
  <2> QED BY <2>1, <2>2, StartControl DEF AcksOf, AckType
<1>3. ASSUME NEW list, StartWrite(list)
      PROVE  Control'
  <2>1. /\ expectedAck' = "MissionRequest" /\ timerRunning' = TRUE /\ RetriesBounded'
    BY <1>1, <1>3
       DEF StartWrite, WriteMissionCount, StartAckTimeout, RetriesBounded, Begin
  <2>2. ~InProgress /\ transaction' = "Write" /\ connections' = connections + 1
    BY <1>3 DEF StartWrite, Begin
  <2> QED BY <2>1, <2>2, StartControl DEF AcksOf, AckType
<1>4. CASE WriteGuidedItem
  <2>1. /\ expectedAck' = "GuidedItem" /\ timerRunning' = TRUE
        /\ UNCHANGED writeMissionItems /\ RetriesBounded'
    BY <1>1, <1>4 DEF WriteGuidedItem, StartAckTimeout, RetriesBounded, lists
  <2>2. ~InProgress /\ transaction' = "Write" /\ connections' = connections + 1
    BY <1>4 DEF WriteGuidedItem
  <2> QED BY <2>1, <2>2, StartControl DEF AcksOf, AckType
<1>5. CASE RemoveAll
  <2>1. /\ expectedAck' = "MissionClearAll" /\ timerRunning' = TRUE
        /\ UNCHANGED writeMissionItems /\ RetriesBounded'
    BY <1>1, <1>5 DEF RemoveAll, RemoveAllWorker, StartAckTimeout, RetriesBounded, Begin
  <2>2. ~InProgress /\ transaction' = "RemoveAll" /\ connections' = connections + 1
    BY <1>5 DEF RemoveAll, RemoveAllWorker, Begin
  <2> QED BY <2>1, <2>2, StartControl DEF AcksOf, AckType
<1> QED BY <1>2, <1>3, <1>4, <1>5 DEF Operation, WriteMissionItems, WriteResumeMission

\* What a step leaves alone when it changes neither the transaction nor its answer
LEMMA SameControl ==
  ASSUME Control, UNCHANGED <<expectedAck, timerRunning, retryCount, transaction,
                    resumeMission, connections, indices, writeMissionItems>>
  PROVE  Control'
BY DEF Control, NoStuckTransaction, InProgress, AcksOf, IdleIsQuiescent,
       OneConnectionPerTransfer, RetriesBounded, NothingElseToWrite, indices

\* Control survives every message.
LEMMA ReceiveControl ==
  ASSUME TypeOK, Control, NEW m \in VehicleMessage, Receive(m)
  PROVE  Control'
<1>1. /\ InProgress /\ connections > 0 /\ connections \in Nat /\ timerRunning
      /\ expectedAck \in AcksOf(transaction) /\ expectedAck /= "None"
      /\ expectedAck \in {"MissionCount", "MissionItem"} <=> transaction = "Read"
      /\ expectedAck \in {"MissionRequest", "GuidedItem"} <=> transaction = "Write"
      /\ transaction /= "RemoveAll" => connections = 1
  BY WhatIsAwaited DEF Receive
<1>2. RetriesBounded /\ 0 <= MaxRetryCount + 1
  BY RetryAssumption DEF Control
<1>3. transaction /= "Write" \/ expectedAck = "GuidedItem" => writeMissionItems = <<>>
  BY <1>1 DEF Control, NothingElseToWrite
<1>4. ASSUME Ignore PROVE Control'
  BY <1>4, SameControl DEF Ignore, ackTimer, session, lists
<1>5. CASE m.kind = "Count" /\ HandleMissionCount(m)
  <2>1. CASE m.mt /= PlanType \/ expectedAck /= "MissionCount"
    BY <1>4, <1>5, <2>1 DEF HandleMissionCount
  <2>2. CASE ~(m.mt /= PlanType \/ expectedAck /= "MissionCount") /\ m.n = 0
    <3>1. /\ FinishTransaction(TRUE, FALSE, missionItems, {})
          /\ timerRunning' = FALSE /\ retryCount' = 0
      BY <1>5, <2>2 DEF HandleMissionCount, AckReceived, ReadTransactionComplete
    <3>2. transaction = "Read"
      BY <1>1, <2>2
    <3>3. RetriesBounded'
      BY <1>2, <3>1 DEF RetriesBounded
    <3> QED BY <1>3, <3>1, <3>2, <3>3, FinishControl
  <2>3. CASE ~(m.mt /= PlanType \/ expectedAck /= "MissionCount") /\ m.n /= 0
    <3> DEFINE toRead == itemIndicesToRead \cup (0 .. m.n - 1)
    <3>1. /\ itemIndicesToRead' = toRead /\ RequestNextMissionItem(toRead)
          /\ retryCount' = 0 /\ UNCHANGED <<session, lists>>
      BY <1>5, <2>3 DEF HandleMissionCount
    <3>2. toRead /= {} /\ expectedAck' = "MissionItem" /\ timerRunning' = TRUE
      <4> HIDE DEF toRead
      <4> QED BY <3>1 DEF RequestNextMissionItem, StartAckTimeout
    <3>3. RetriesBounded'
      BY <1>2, <3>1 DEF RetriesBounded
    <3>4. transaction = "Read" /\ expectedAck' \in AcksOf(transaction)
      BY <1>1, <2>3, <3>2 DEF AcksOf, AckType
    <3> HIDE DEF toRead
    <3> QED BY <1>1, <3>1, <3>2, <3>3, <3>4, WorkControl DEF session, lists
  <2> QED BY <2>1, <2>2, <2>3
<1>6. CASE m.kind = "Item" /\ HandleMissionItem(m)
  <2>1. CASE expectedAck /= "MissionItem"
    BY <1>6, <2>1, SameControl
       DEF HandleMissionItem, Ignore, ackTimer, session, lists,
           ItemWasRequested, DropItem
  <2>2. ASSUME expectedAck = "MissionItem"
        PROVE  transaction = "Read" /\ expectedAck \in AcksOf(transaction)
    BY <1>1, <2>2
  <2>3. CASE expectedAck = "MissionItem" /\ m.seq \notin itemIndicesToRead
    <3>1. /\ expectedAck' = "MissionItem" /\ timerRunning' = TRUE
          /\ UNCHANGED <<retryCount, session, indices, lists>>
      BY <1>6, <2>3 DEF HandleMissionItem, StartAckTimeout, ItemWasRequested, DropItem
    <3> QED BY <1>1, <2>3, <3>1, SameControl DEF session, lists
  <2> DEFINE items  == Append(missionItems, [seq |-> m.seq, item |-> FromVehicle(m.item)])
             toRead == itemIndicesToRead \ {m.seq}
  <2>4. CASE expectedAck = "MissionItem" /\ m.seq \in itemIndicesToRead /\ toRead = {}
    <3>1. /\ FinishTransaction(TRUE, FALSE, items, {})
          /\ timerRunning' = FALSE /\ retryCount' = 0
      BY <1>6, <2>4
         DEF HandleMissionItem, AckReceived, ReadTransactionComplete,
             ItemWasRequested, DropItem
    <3>2. RetriesBounded'
      BY <1>2, <3>1 DEF RetriesBounded
    <3> HIDE DEF items
    <3> QED BY <1>3, <2>2, <2>4, <3>1, <3>2, FinishControl
  <2>5. CASE expectedAck = "MissionItem" /\ m.seq \in itemIndicesToRead /\ toRead /= {}
    <3>1. /\ itemIndicesToRead' = toRead /\ RequestNextMissionItem(toRead)
          /\ retryCount' = 0 /\ UNCHANGED <<session, writeMissionItems>>
      BY <1>6, <2>5 DEF HandleMissionItem, ItemWasRequested, DropItem
    <3>2. expectedAck' = "MissionItem" /\ timerRunning' = TRUE /\ RetriesBounded'
      BY <1>2, <3>1 DEF RequestNextMissionItem, StartAckTimeout, RetriesBounded
    <3> HIDE DEF toRead
    <3> QED BY <1>1, <2>2, <2>5, <3>1, <3>2, WorkControl DEF session
  <2> QED BY <2>1, <2>3, <2>4, <2>5
<1>7. CASE m.kind = "Request" /\ HandleMissionRequest(m)
  <2>1. CASE m.mt /= PlanType \/ expectedAck /= "MissionRequest"
    BY <1>4, <1>7, <2>1 DEF HandleMissionRequest, ItemToSend
  <2>2. CASE /\ ~(m.mt /= PlanType \/ expectedAck /= "MissionRequest")
             /\ m.seq > Len(writeMissionItems) - 1
    <3>1. /\ FinishTransaction(FALSE, FALSE, missionItems, SendError)
          /\ timerRunning' = FALSE /\ retryCount' = retryCount
      BY <1>7, <2>2 DEF HandleMissionRequest, AckReceived, FailTransaction, ItemToSend
    <3>2. transaction = "Write" /\ RetriesBounded'
      BY <1>1, <1>2, <2>2, <3>1 DEF RetriesBounded
    <3> QED BY <3>1, <3>2, FinishControl
  <2>3. CASE /\ ~(m.mt /= PlanType \/ expectedAck /= "MissionRequest")
             /\ ~(m.seq > Len(writeMissionItems) - 1)
    <3>1. /\ expectedAck' = "MissionRequest" /\ timerRunning' = TRUE
          /\ UNCHANGED <<retryCount, session, lists>>
      BY <1>7, <2>3 DEF HandleMissionRequest, StartAckTimeout, ItemToSend
    <3>2. expectedAck = "MissionRequest" /\ RetriesBounded'
      BY <1>2, <2>3, <3>1 DEF RetriesBounded
    <3> QED BY <1>1, <3>1, <3>2, WorkControl DEF session, lists
  <2> QED BY <2>1, <2>2, <2>3
<1>8. CASE m.kind = "Ack" /\ HandleMissionAck(m)
  <2>1. CASE m.mt /= PlanType \/ (ApmFirmware /\ m.result = "InvalidSequence")
    BY <1>4, <1>8, <2>1 DEF HandleMissionAck
  <2>2. CASE ~(m.mt /= PlanType \/ (ApmFirmware /\ m.result = "InvalidSequence"))
    <3> DEFINE ok == AckIsSuccess(m.result)
               guided == expectedAck = "GuidedItem"
               errors == IF ok THEN {} ELSE SendError
    <3>1. FinishTransaction(ok, guided, missionItems, errors)
          /\ timerRunning' = FALSE /\ retryCount' = retryCount
      BY <1>1, <1>8, <2>2 DEF HandleMissionAck, AckReceived
    <3>2. /\ guided \in BOOLEAN
          /\ transaction /= "Write" \/ guided => writeMissionItems = <<>>
      BY <1>3
    <3>3. RetriesBounded'
      BY <1>2, <3>1 DEF RetriesBounded
    <3> HIDE DEF ok, guided, errors
    <3> QED BY <3>1, <3>2, <3>3, FinishControl
  <2> QED BY <2>1, <2>2
<1> QED BY <1>5, <1>6, <1>7, <1>8 DEF Receive

\* Control survives every expiry of the ack timer: it is restarted, or the
\* transaction is over.
LEMMA AckTimeoutControl ==
  ASSUME TypeOK, Control, AckTimeout
  PROVE  Control'
<1>1. timerRunning
  BY DEF AckTimeout, TimedOut, CountTimeout, ItemTimeout, WriteAbandoned,
         WriteCountTimeout, ClearAllTimeout, GuidedTimeout, CountRetry
<1>2. /\ InProgress /\ connections > 0 /\ connections \in Nat
      /\ expectedAck \in AcksOf(transaction)
      /\ expectedAck \in {"MissionCount", "MissionItem"} <=> transaction = "Read"
      /\ expectedAck \in {"MissionRequest", "GuidedItem"} <=> transaction = "Write"
      /\ expectedAck = "MissionClearAll" <=> transaction = "RemoveAll"
      /\ transaction /= "RemoveAll" => connections = 1
  BY <1>1, WhatIsAwaited
<1>3. RetriesBounded /\ retryCount \in Nat /\ MaxRetryCount \in Nat
  BY RetryAssumption DEF Control, TypeOK
<1>4. ASSUME ~RetriesExceeded, retryCount' = retryCount + 1
      PROVE  RetriesBounded'
  BY <1>3, <1>4 DEF RetriesExceeded, RetriesBounded
<1>5. ASSUME GiveUp
      PROVE  Control'
  <2>1. /\ FinishTransaction(FALSE, FALSE, missionItems, SendError)
        /\ timerRunning' = FALSE /\ retryCount' = retryCount
    BY <1>5 DEF GiveUp, FailTransaction
  <2>2. transaction /= "Write" => writeMissionItems = <<>>
    BY <1>2 DEF Control, NothingElseToWrite
  <2>3. RetriesBounded'
    BY <1>3, <2>1 DEF RetriesBounded
  <2> QED BY <2>1, <2>2, <2>3, FinishControl
<1>6. CASE CountTimeout
  <2>1. CASE ~RetriesExceeded
    <3>1. /\ retryCount' = retryCount + 1 /\ expectedAck' = "MissionCount"
          /\ timerRunning' = TRUE /\ UNCHANGED <<session, writeMissionItems>>
      BY <1>6, <2>1 DEF CountTimeout, RequestList, StartAckTimeout, CountRetry
    <3>2. expectedAck = "MissionCount"
      BY <1>6 DEF CountTimeout, TimedOut, CountRetry
    <3> QED BY <1>2, <1>4, <2>1, <3>1, <3>2, WorkControl DEF session
  <2> QED BY <1>5, <1>6, <2>1 DEF CountTimeout, CountRetry
<1>7. CASE ItemTimeout
  <2>1. CASE ~RetriesExceeded
    <3>1. /\ retryCount' = retryCount + 1 /\ expectedAck' = "MissionItem"
          /\ timerRunning' = TRUE /\ UNCHANGED <<session, indices, lists>>
      BY <1>7, <2>1 DEF ItemTimeout, RequestNextMissionItem, StartAckTimeout, CountRetry
    <3>2. expectedAck = "MissionItem" /\ itemIndicesToRead /= {}
      BY <1>2, <1>7 DEF ItemTimeout, TimedOut, Control, NoStuckTransaction, CountRetry
    <3>3. itemIndicesToRead' /= {}
      BY <3>1, <3>2 DEF indices
    <3> QED BY <1>2, <1>4, <2>1, <3>1, <3>2, <3>3, WorkControl DEF session, lists
  <2> QED BY <1>5, <1>7, <2>1 DEF ItemTimeout, CountRetry
<1>8. CASE WriteAbandoned
  BY <1>5, <1>8 DEF WriteAbandoned
<1>9. CASE WriteCountTimeout
  <2>1. CASE ~RetriesExceeded
    <3>1. /\ retryCount' = retryCount + 1 /\ expectedAck' = "MissionRequest"
          /\ timerRunning' = TRUE /\ UNCHANGED <<session, indices, lists>>
      BY <1>9, <2>1
         DEF WriteCountTimeout, WriteMissionCount, StartAckTimeout, CountRetry
    <3>2. expectedAck = "MissionRequest"
      BY <1>9 DEF WriteCountTimeout, TimedOut, CountRetry
    <3> QED BY <1>2, <1>4, <2>1, <3>1, <3>2, WorkControl DEF session, lists
  <2> QED BY <1>5, <1>9, <2>1 DEF WriteCountTimeout, CountRetry
<1>10. CASE ClearAllTimeout
  <2>1. CASE ~RetriesExceeded
    <3>1. /\ retryCount' = retryCount + 1 /\ expectedAck' = "MissionClearAll"
          /\ timerRunning' = TRUE /\ connections' = connections + 1
          /\ UNCHANGED <<transaction, resumeMission, indices, lists>>
      BY <1>10, <2>1 DEF ClearAllTimeout, RemoveAllWorker, StartAckTimeout, CountRetry
    <3>2. expectedAck = "MissionClearAll"
      BY <1>10 DEF ClearAllTimeout, TimedOut, CountRetry
    <3> QED BY <1>2, <1>4, <2>1, <3>1, <3>2, WorkControl DEF lists
  <2> QED BY <1>5, <1>10, <2>1 DEF ClearAllTimeout, CountRetry
<1>11. CASE GuidedTimeout
  BY <1>5, <1>11 DEF GuidedTimeout
<1> QED BY <1>6, <1>7, <1>8, <1>9, <1>10, <1>11 DEF AckTimeout

\* Every step keeps the timers, the connections and the retries in order.
LEMMA ControlStep == TypeOK /\ Control /\ [Next]_vars => Control'
<1> SUFFICES ASSUME TypeOK, Control, [Next]_vars
             PROVE  Control'
  OBVIOUS
<1>1. CASE LinkTakes \/ UNCHANGED vars
  BY <1>1, SameControl DEF LinkTakes, vars, managerVars, ackTimer, session, lists
<1> QED BY <1>1, InputAssumption, OperationControl, ReceiveControl, AckTimeoutControl
        DEF Next
-----------------------------------------------------------------------------
(* Lists *)

\* Appending an item with a number the list does not have
LEMMA AppendOnce ==
  ASSUME NEW list \in Seq(NumberedItem), NEW e \in NumberedItem,
         Once(list), e.seq \notin SeqsOf(list)
  PROVE  /\ Once(Append(list, e))
         /\ SeqsOf(Append(list, e)) = SeqsOf(list) \cup {e.seq}
<1> DEFINE n == Len(list)
           longer == Append(list, e)
<1>1. /\ n \in Nat /\ Len(longer) = n + 1 /\ longer[n + 1] = e
      /\ \A i \in 1 .. n : longer[i] = list[i]
  BY AppendProperties, LenProperties
<1>2. 1 .. n + 1 = 1 .. n \cup {n + 1}
  BY <1>1
<1>3. \A i \in 1 .. n : list[i].seq /= e.seq
  BY DEF SeqsOf
<1> HIDE DEF longer, n
<1>4. Once(longer)
  BY <1>1, <1>2, <1>3 DEF Once, n
<1>5. SeqsOf(longer) = SeqsOf(list) \cup {e.seq}
  BY <1>1, <1>2 DEF SeqsOf, n
<1> QED BY <1>4, <1>5 DEF longer

\* A list without repetitions and gaps is whole.
LEMMA OnceIsWhole ==
  ASSUME NEW list, Once(list), Downward(SeqsOf(list))
  PROVE  IsWhole(list)
<1>1. \A i \in 1 .. Len(list) : \A s \in 0 .. list[i].seq : s \in SeqsOf(list)
  BY DEF Downward, SeqsOf
<1> QED BY <1>1 DEF IsWhole, Once, SeqsOf

\* The empty list is whole.
LEMMA EmptyList == IsWhole(<<>>) /\ Once(<<>>) /\ SeqsOf(<<>>) = {}
<1>1. Len(<<>>) = 0 /\ 1 .. 0 = {}
  BY EmptySeq
<1> QED BY <1>1 DEF IsWhole, Once, SeqsOf

ListsOK == ReadProgress /\ NoPartialList

\* However a transaction ends, the list it leaves is whole.
LEMMA FinishLists ==
  ASSUME TypeOK, NEW success, NEW guided, NEW items, NEW errors,
         FinishTransaction(success, guided, items, errors),
         transaction /= "Read" \/ success => IsWhole(items)
  PROVE  ListsOK'
<1>1. transaction' = "None"
  BY DEF FinishTransaction, EndSession, ListAfter
<1>2. IsWhole(Numbered(writeMissionItems))
  BY NumberedIsWhole DEF TypeOK
<1>3. missionItems' \in {<<>>, Numbered(writeMissionItems), items}
      /\ (transaction = "Read" /\ ~success => missionItems' = <<>>)
  BY DEF FinishTransaction, EndSession, ListAfter
<1>4. IsWhole(missionItems')
  BY <1>2, <1>3, EmptyList
<1> QED BY <1>1, <1>4 DEF ListsOK, ReadProgress, NoPartialList, IsWhole

\* A step that leaves the transaction, its answer and the local list alone
LEMMA SameLists ==
  ASSUME ListsOK, UNCHANGED <<expectedAck, transaction, missionItems, itemIndicesToRead>>
  PROVE  ListsOK'
<1>1. NoPartialList'
  BY DEF ListsOK, NoPartialList, IsWhole
<1>2. ASSUME transaction = "Read", expectedAck = "MissionCount"
      PROVE  missionItems' = <<>> /\ itemIndicesToRead' = {}
  BY <1>2 DEF ListsOK, ReadProgress
<1>3. ASSUME transaction = "Read", expectedAck = "MissionItem"
      PROVE  /\ Once(missionItems')
             /\ SeqsOf(missionItems') \cap itemIndicesToRead' = {}
             /\ Downward(SeqsOf(missionItems') \cup itemIndicesToRead')
  BY <1>3 DEF ListsOK, ReadProgress
<1>4. ReadProgress'
  BY <1>2, <1>3 DEF ReadProgress, Once, SeqsOf, Downward
<1> QED BY <1>1, <1>4 DEF ListsOK

\* A step of a write or a removal that leaves the local list alone
LEMMA NoReadLists ==
  ASSUME ListsOK, transaction /= "Read", transaction' /= "Read", UNCHANGED missionItems
  PROVE  ListsOK'
BY DEF ListsOK, ReadProgress, NoPartialList, IsWhole

\* An operation starts with the whole list it finds, or with none.
LEMMA OperationLists ==
  ASSUME TypeOK, ListsOK, Operation
  PROVE  ListsOK'
<1>1. CASE LoadFromVehicle
  <2>1. /\ transaction' = "Read" /\ expectedAck' = "MissionCount"
        /\ itemIndicesToRead' = {} /\ missionItems' = <<>>
    BY <1>1 DEF LoadFromVehicle, RequestList, StartAckTimeout, Begin
  <2> QED BY <2>1 DEF ListsOK, ReadProgress, NoPartialList
<1>2. CASE RemoveAll
  <2>1. transaction' = "RemoveAll" /\ missionItems' = <<>>
    BY <1>2 DEF RemoveAll, Begin
  <2>2. IsWhole(missionItems')
    BY <2>1, EmptyList
  <2> QED BY <2>1, <2>2 DEF ListsOK, ReadProgress, NoPartialList, IsWhole
<1>3. ASSUME NEW list, StartWrite(list)
      PROVE  ListsOK'
  <2>1. transaction = "None" /\ transaction' = "Write" /\ UNCHANGED missionItems
    BY <1>3 DEF StartWrite, InProgress, Begin
  <2> QED BY <2>1, NoReadLists
<1>4. CASE WriteGuidedItem
  <2>1. transaction = "None" /\ transaction' = "Write" /\ UNCHANGED missionItems
    BY <1>4 DEF WriteGuidedItem, InProgress, lists
  <2> QED BY <2>1, NoReadLists
<1> QED BY <1>1, <1>2, <1>3, <1>4 DEF Operation, WriteMissionItems, WriteResumeMission

\* No message spoils the list: an item is kept only when it was still to be
\* read, and a read is complete only when nothing is.
LEMMA ReceiveLists ==
  ASSUME TypeOK, Control, ListsOK, NEW m \in VehicleMessage, Receive(m)
  PROVE  ListsOK'
<1>1. /\ InProgress /\ expectedAck /= "None"
      /\ expectedAck \in {"MissionCount", "MissionItem"} <=> transaction = "Read"
      /\ expectedAck \in {"MissionRequest", "GuidedItem"} <=> transaction = "Write"
  BY WhatIsAwaited DEF Receive
<1>2. ASSUME transaction /= "Read" PROVE IsWhole(missionItems)
  BY <1>2 DEF ListsOK, NoPartialList
<1>3. ASSUME Ignore PROVE ListsOK'
  BY <1>3, SameLists DEF Ignore, ackTimer, session, lists, indices
<1>4. CASE m.kind = "Count" /\ HandleMissionCount(m)
  <2>1. CASE m.mt /= PlanType \/ expectedAck /= "MissionCount"
    BY <1>3, <1>4, <2>1 DEF HandleMissionCount
  <2>2. CASE ~(m.mt /= PlanType \/ expectedAck /= "MissionCount")
    <3>1. missionItems = <<>> /\ itemIndicesToRead = {} /\ m.n \in Nat
      BY <1>1, <1>4, <2>2, MessageFields DEF ListsOK, ReadProgress
    <3>2. CASE m.n = 0
      <4>1. FinishTransaction(TRUE, FALSE, missionItems, {})
        BY <1>4, <2>2, <3>2 DEF HandleMissionCount, ReadTransactionComplete
      <4> QED BY <3>1, <4>1, EmptyList, FinishLists
    <3>3. CASE m.n /= 0
      <4>1. /\ itemIndicesToRead' = 0 .. m.n - 1 /\ missionItems' = <<>>
            /\ transaction' = "Read" /\ expectedAck' = "MissionItem"
        BY <1>1, <1>4, <2>2, <3>1, <3>3

              DEF HandleMissionCount, RequestNextMissionItem, StartAckTimeout, session, lists
      <4>2. Downward(0 .. m.n - 1)
        BY <3>1 DEF Downward
      <4>3. Once(missionItems') /\ SeqsOf(missionItems') = {}
        BY <4>1, EmptyList
      <4>4. ReadProgress'
        BY <4>1, <4>2, <4>3 DEF ReadProgress, Once, SeqsOf, Downward
      <4> QED BY <4>1, <4>4 DEF ListsOK, NoPartialList
    <3> QED BY <3>2, <3>3
  <2> QED BY <2>1, <2>2
<1>5. CASE m.kind = "Item" /\ HandleMissionItem(m)
  <2>1. CASE expectedAck /= "MissionItem" \/ m.seq \notin itemIndicesToRead
    BY <1>5, <2>1, SameLists DEF HandleMissionItem, Ignore, StartAckTimeout,
                                 ackTimer, session, lists, indices,
                                 ItemWasRequested, DropItem
  <2>2. CASE expectedAck = "MissionItem" /\ m.seq \in itemIndicesToRead
    <3> DEFINE e      == [seq |-> m.seq, item |-> FromVehicle(m.item)]
               items  == Append(missionItems, e)
               toRead == itemIndicesToRead \ {m.seq}
    <3>1. e \in NumberedItem /\ missionItems \in Seq(NumberedItem) /\ e.seq = m.seq
      BY <1>5, MessageFields, FromVehicleType DEF NumberedItem, TypeOK
    <3>2. /\ transaction = "Read" /\ Once(missionItems)
          /\ SeqsOf(missionItems) \cap itemIndicesToRead = {}
          /\ Downward(SeqsOf(missionItems) \cup itemIndicesToRead)
      BY <1>1, <2>2 DEF ListsOK, ReadProgress
    <3> HIDE DEF e
    <3>3. Once(items) /\ SeqsOf(items) = SeqsOf(missionItems) \cup {m.seq}
      BY <2>2, <3>1, <3>2, AppendOnce
    <3>4. /\ SeqsOf(items) \cap toRead = {}
          /\ SeqsOf(items) \cup toRead = SeqsOf(missionItems) \cup itemIndicesToRead
      BY <2>2, <3>2, <3>3
    <3> HIDE DEF items
    <3>5. Downward(SeqsOf(items) \cup toRead)
      BY <3>2, <3>4
    <3>6. CASE toRead = {}
      <4>1. FinishTransaction(TRUE, FALSE, items, {})
        BY <1>5, <2>2, <3>6
           DEF HandleMissionItem, ReadTransactionComplete, items, e,
               ItemWasRequested, DropItem
      <4>2. IsWhole(items)
        BY <3>3, <3>5, <3>6, OnceIsWhole
      <4> QED BY <4>1, <4>2, FinishLists
    <3>7. CASE toRead /= {}
      <4>1. /\ itemIndicesToRead' = toRead /\ missionItems' = items
            /\ transaction' = "Read"
        BY <1>5, <2>2, <3>2, <3>7
           DEF HandleMissionItem, items, e, session, ItemWasRequested, DropItem
      <4>2. expectedAck' = "MissionItem"
        BY <1>5, <2>2, <3>7
           DEF HandleMissionItem, RequestNextMissionItem, StartAckTimeout,
               ItemWasRequested, DropItem
      <4> HIDE DEF toRead
      <4>3. ReadProgress'
        BY <3>3, <3>4, <3>5, <4>1, <4>2 DEF ReadProgress, Once, SeqsOf, Downward
      <4> QED BY <4>1, <4>3 DEF ListsOK, NoPartialList
    <3> QED BY <3>6, <3>7
  <2> QED BY <2>1, <2>2
<1>6. CASE m.kind = "Request" /\ HandleMissionRequest(m)
  <2>1. CASE m.mt /= PlanType \/ expectedAck /= "MissionRequest"
    BY <1>3, <1>6, <2>1 DEF HandleMissionRequest, ItemToSend
  <2>2. CASE /\ ~(m.mt /= PlanType \/ expectedAck /= "MissionRequest")
             /\ m.seq > Len(writeMissionItems) - 1
    <3>1. FinishTransaction(FALSE, FALSE, missionItems, SendError) /\ transaction = "Write"
      BY <1>1, <1>6, <2>2 DEF HandleMissionRequest, FailTransaction, ItemToSend
    <3> QED BY <1>2, <3>1, FinishLists
  <2>3. CASE /\ ~(m.mt /= PlanType \/ expectedAck /= "MissionRequest")
             /\ ~(m.seq > Len(writeMissionItems) - 1)
    <3>1. transaction = "Write" /\ UNCHANGED <<transaction, missionItems>>
      BY <1>1, <1>6, <2>3 DEF HandleMissionRequest, session, lists, ItemToSend
    <3> QED BY <3>1, NoReadLists
  <2> QED BY <2>1, <2>2, <2>3
<1>7. CASE m.kind = "Ack" /\ HandleMissionAck(m)
  <2>1. CASE m.mt /= PlanType \/ (ApmFirmware /\ m.result = "InvalidSequence")
    BY <1>3, <1>7, <2>1 DEF HandleMissionAck
  <2>2. CASE ~(m.mt /= PlanType \/ (ApmFirmware /\ m.result = "InvalidSequence"))
    <3> DEFINE ok == AckIsSuccess(m.result)
               guided == expectedAck = "GuidedItem"
               errors == IF ok THEN {} ELSE SendError
    <3>1. FinishTransaction(ok, guided, missionItems, errors)
      BY <1>1, <1>7, <2>2 DEF HandleMissionAck
    <3>2. transaction = "Read" => ~ok
      BY <1>1 DEF AckIsSuccess
    <3> HIDE DEF ok, guided, errors
    <3> QED BY <1>2, <3>1, <3>2, FinishLists
  <2> QED BY <2>1, <2>2
<1> QED BY <1>4, <1>5, <1>6, <1>7 DEF Receive

\* A timeout repeats a request or ends the transaction; a retried read starts
\* over.
LEMMA AckTimeoutLists ==
  ASSUME TypeOK, Control, ListsOK, AckTimeout
  PROVE  ListsOK'
<1>1. timerRunning
  BY DEF AckTimeout, TimedOut, CountTimeout, ItemTimeout, WriteAbandoned,
         WriteCountTimeout, ClearAllTimeout, GuidedTimeout, CountRetry
<1>2. /\ expectedAck \in {"MissionCount", "MissionItem"} <=> transaction = "Read"
  BY <1>1, WhatIsAwaited
<1>3. ASSUME GiveUp PROVE ListsOK'
  <2>1. FinishTransaction(FALSE, FALSE, missionItems, SendError)
    BY <1>3 DEF GiveUp, FailTransaction
  <2>2. transaction /= "Read" => IsWhole(missionItems)
    BY DEF ListsOK, NoPartialList
  <2> QED BY <2>1, <2>2, FinishLists
<1>4. CASE CountTimeout /\ ~RetriesExceeded
  <2>1. /\ transaction' = "Read" /\ expectedAck' = "MissionCount"
        /\ itemIndicesToRead' = {} /\ missionItems' = <<>>
    BY <1>2, <1>4
       DEF CountTimeout, TimedOut, RequestList, StartAckTimeout, session, CountRetry
  <2> QED BY <2>1 DEF ListsOK, ReadProgress, NoPartialList
<1>5. CASE ItemTimeout /\ ~RetriesExceeded
  BY <1>5, SameLists DEF ItemTimeout, TimedOut, RequestNextMissionItem, StartAckTimeout,
                         session, indices, lists, CountRetry
<1>6. CASE (WriteCountTimeout \/ ClearAllTimeout) /\ ~RetriesExceeded
  <2>1. transaction /= "Read"
    BY <1>2, <1>6 DEF WriteCountTimeout, ClearAllTimeout, TimedOut, CountRetry
  <2>2. UNCHANGED <<transaction, missionItems>>
    BY <1>6 DEF WriteCountTimeout, ClearAllTimeout, session, lists, CountRetry
  <2> QED BY <2>1, <2>2, NoReadLists
<1> QED BY <1>3, <1>4, <1>5, <1>6
        DEF AckTimeout, CountTimeout, ItemTimeout, WriteAbandoned, WriteCountTimeout,
            ClearAllTimeout, GuidedTimeout, CountRetry

\* Every step keeps the list whole.
LEMMA ListsStep == TypeOK /\ Control /\ ListsOK /\ [Next]_vars => ListsOK'
<1> SUFFICES ASSUME TypeOK, Control, ListsOK, [Next]_vars
             PROVE  ListsOK'
  OBVIOUS
<1>1. CASE LinkTakes \/ UNCHANGED vars
  BY <1>1, SameLists DEF LinkTakes, vars, managerVars, ackTimer, session, indices, lists
<1> QED BY <1>1, InputAssumption, OperationLists, ReceiveLists, AckTimeoutLists DEF Next
-----------------------------------------------------------------------------
(* Theorems *)

\* A manager with nothing to do satisfies the inductive invariant.
LEMMA IInvInit == Init => IInv
<1> SUFFICES ASSUME Init
             PROVE  IInv
  OBVIOUS
<1>1. Control
  BY RetryAssumption DEF Init, Control, NoStuckTransaction, IdleIsQuiescent,
     OneConnectionPerTransfer, RetriesBounded, NothingElseToWrite, InProgress
<1>2. ReadProgress /\ NoPartialList
  BY EmptyList DEF Init, ReadProgress, NoPartialList
<1> QED BY <1>1, <1>2, TypeInit DEF IInv

\* IInv is inductive.
THEOREM Invariance == Spec => []IInv
<1>1. IInv /\ [Next]_vars => IInv'
  BY TypeStep, ControlStep, ListsStep DEF IInv, ListsOK
<1> QED BY <1>1, IInvInit, PTL DEF Spec

\* No vehicle, by what it sends, repeats or leaves out, can make a transaction
\* hang: while one is in progress the ack timer runs, the manager listens, and
\* it waits for an answer of this transaction.
THEOREM NeverStuck == Spec => []NoStuckTransaction
<1>1. IInv => NoStuckTransaction
  BY DEF IInv, Control
<1> QED BY <1>1, Invariance, PTL

\* Whatever ended the last transaction, nothing of it leaks into the next.
THEOREM QuiescentWhenIdle == Spec => []IdleIsQuiescent
<1>1. IInv => IdleIsQuiescent
  BY DEF IInv, Control
<1> QED BY <1>1, Invariance, PTL

\* A read or a write never handles a message twice.
THEOREM OneConnection == Spec => []OneConnectionPerTransfer
<1>1. IInv => OneConnectionPerTransfer
  BY DEF IInv, Control
<1> QED BY <1>1, Invariance, PTL

\* No request is repeated more than MaxRetryCount + 1 times in a row.
THEOREM BoundedRetries == Spec => []RetriesBounded
<1>1. IInv => RetriesBounded
  BY DEF IInv, Control
<1> QED BY <1>1, Invariance, PTL

\* For plans of any length, the list other components see holds every number
\* below its largest, each once: never part of a plan.
THEOREM AlwaysWhole == Spec => []NoPartialList
<1>1. IInv => NoPartialList
  BY DEF IInv
<1> QED BY <1>1, Invariance, PTL
-----------------------------------------------------------------------------
(* The refinement *)

\* The completion signal of each transaction
CompletionName(t) ==
  IF t = "Read" THEN "newMissionItemsAvailable"
  ELSE IF t = "Write" THEN "sendComplete" ELSE "removeAllComplete"

CompletionNames == {"newMissionItemsAvailable", "sendComplete", "removeAllComplete"}
-----------------------------------------------------------------------------
(* Reports *)

\* A step without a completion signal makes no report.
LEMMA NoReport ==
  ASSUME \A s \in signals' : s.name \notin CompletionNames
  PROVE  CompletionReports' = {}
BY DEF CompletionReports, CompletionNames

\* A step with one completion signal makes one report, of its transaction; it is
\* one of failure if an error is signalled as well.
LEMMA OneReport ==
  ASSUME NEW t \in {"Read", "Write", "RemoveAll"}, NEW c \in signals',
         c.name = CompletionName(t),
         \A s \in signals' : s.name \in CompletionNames => s = c
  PROVE  \E ok \in BOOLEAN :
           /\ CompletionReports' = {[of |-> t, ok |-> ok]}
           /\ (\E s \in signals' : s.name = "error") => ok = FALSE
<1> DEFINE kind == [newMissionItemsAvailable |-> "Read",
                    sendComplete             |-> "Write",
                    removeAllComplete        |-> "RemoveAll"]
           noError == \A s \in signals' : s.name /= "error"
           ok == noError /\ ~c.error
<1>1. CompletionReports' = {[of |-> kind[s.name], ok |-> noError /\ ~s.error] :
                              s \in {x \in signals' : x.name \in DOMAIN kind}}
  BY DEF CompletionReports
<1>2. DOMAIN kind = CompletionNames /\ kind[c.name] = t
  BY DEF CompletionName, CompletionNames
<1>3. {x \in signals' : x.name \in DOMAIN kind} = {c}
  <2>1. c.name \in CompletionNames
    BY DEF CompletionName, CompletionNames
  <2> HIDE DEF kind
  <2> QED BY <1>2, <2>1
<1>4. CompletionReports' = {[of |-> t, ok |-> ok]}
  <2> HIDE DEF kind, noError
  <2> QED BY <1>1, <1>2, <1>3
<1>5. ok \in BOOLEAN /\ ((\E s \in signals' : s.name = "error") => ok = FALSE)
  OBVIOUS
<1> HIDE DEF ok
<1> QED BY <1>4, <1>5

\* What the end of a transaction reports.
LEMMA FinishReports ==
  ASSUME transaction \in {"Read", "Write", "RemoveAll"},
         NEW success, NEW guided \in BOOLEAN, NEW items,
         NEW errors \in {{}, SendError},
         FinishTransaction(success, guided, items, errors),
         guided => transaction = "Write"
  PROVE  IF guided THEN CompletionReports' = {}
         ELSE \E ok \in BOOLEAN :
                /\ CompletionReports' = {[of |-> transaction, ok |-> ok]}
                /\ errors = SendError => ok = FALSE
<1>1. signals' = errors \cup CompletionSignals(success, guided) \cup ResumeSignals(success)
  BY DEF FinishTransaction
<1>2. \A s \in errors \cup ResumeSignals(success) : s.name \notin CompletionNames
  BY DEF SendError, ResumeSignals, Signal, CompletionNames
<1>3. CASE guided
  <2>1. CompletionSignals(success, guided) = {}
    BY <1>3 DEF CompletionSignals
  <2> QED BY <1>1, <1>2, <1>3, <2>1, NoReport
<1>4. CASE ~guided
  <2> DEFINE c == Signal(CompletionName(transaction),
                         IF transaction = "Read" THEN FALSE ELSE ~success)
  <2>1. CompletionSignals(success, guided) = {c}
    BY <1>4 DEF CompletionSignals, CompletionName
  <2>2. c.name = CompletionName(transaction)
    BY DEF Signal
  <2>3. errors = SendError => \E s \in signals' : s.name = "error"
    <3>1. Signal("error", TRUE).name = "error"
      BY DEF Signal
    <3> QED BY <1>1, <3>1 DEF SendError
  <2> HIDE DEF c
  <2>4. c \in signals' /\ \A s \in signals' : s.name \in CompletionNames => s = c
    BY <1>1, <1>2, <2>1
  <2> QED BY <1>4, <2>2, <2>3, <2>4, OneReport
<1> QED BY <1>3, <1>4
-----------------------------------------------------------------------------
(* Steps *)

\* What PlanTransaction sees as the transaction under way
Current == IF transaction = "Write" /\ expectedAck = "GuidedItem"
           THEN "GuidedItem" ELSE transaction

LEMMA InitImplements == Init => Promise!Init
<1> SUFFICES ASSUME Init PROVE Promise!Init
  OBVIOUS
<1>1. transaction = "None" /\ signals = {}
  BY DEF Init
<1>2. CompletionReports = {}
  BY <1>1 DEF CompletionReports
<1> QED BY <1>1, <1>2 DEF Promise!Init

\* A step inside a transaction, or one that no transaction is concerned by
LEMMA WorkImplements ==
  ASSUME transaction' = transaction,
         transaction = "Write" =>
           (expectedAck' = "GuidedItem" <=> expectedAck = "GuidedItem"),
         \A s \in signals' : s.name \notin CompletionNames
  PROVE  Promise!Next
<1>1. Current' = Current
  BY DEF Current
<1>2. CompletionReports' = {}
  BY NoReport
<1> QED BY <1>1, <1>2 DEF Promise!Next, Promise!Work, Current

\* A manager that is idle starts a transaction and reports nothing.
LEMMA StartImplements ==
  ASSUME ~InProgress, signals' = {}, transaction' \in {"Read", "Write", "RemoveAll"},
         expectedAck' = "GuidedItem" => PlanType = "Mission"
  PROVE  Promise!Next
<1>1. Current = "None"
  BY DEF Current, InProgress
<1>2. Current' \in {"Read", "Write", "RemoveAll"}
        \cup (IF PlanType = "Mission" THEN {"GuidedItem"} ELSE {})
  BY DEF Current
<1>3. CompletionReports' = {}
  BY NoReport
<1> QED BY <1>1, <1>2, <1>3 DEF Promise!Next, Promise!Start, Promise!Kind, Current

\* A transaction ends with its report; a guided item, with none if it was answered
\* and with that of a failed write if it was not.
LEMMA EndImplements ==
  ASSUME transaction \in {"Read", "Write", "RemoveAll"},
         NEW success, NEW guided \in BOOLEAN, NEW items,
         NEW errors \in {{}, SendError},
         FinishTransaction(success, guided, items, errors),
         guided => Current = "GuidedItem",
         Current = "GuidedItem" => guided \/ errors = SendError
  PROVE  Promise!Next
<1>1. Current' = "None"
  BY DEF Current, FinishTransaction, EndSession
<1>2. guided => transaction = "Write"
  BY DEF Current
<1>3. CASE guided
  <2>1. CompletionReports' = {}
    BY <1>2, <1>3, FinishReports
  <2>2. Promise!EndGuidedItem
    BY <1>1, <1>3, <2>1 DEF Promise!EndGuidedItem, Current
  <2> QED BY <2>2 DEF Promise!Next
<1>4. CASE ~guided
  <2>1. PICK ok \in BOOLEAN :
          /\ CompletionReports' = {[of |-> transaction, ok |-> ok]}
          /\ errors = SendError => ok = FALSE
    BY <1>2, <1>4, FinishReports
  <2>2. CASE Current = "GuidedItem"
    <3>1. CompletionReports' = {Promise!Report("Write", FALSE)}
      BY <1>4, <2>1, <2>2 DEF Promise!Report, Current
    <3>2. Promise!EndGuidedItem
      BY <1>1, <2>2, <3>1 DEF Promise!EndGuidedItem, Current
    <3> QED BY <3>2 DEF Promise!Next
  <2>3. CASE Current /= "GuidedItem"
    <3>1. Current = transaction
      BY <2>3 DEF Current
    <3>2. CompletionReports' = {Promise!Report(Current, ok)}
      BY <2>1, <3>1 DEF Promise!Report
    <3>3. Promise!End
      BY <1>1, <3>1, <3>2 DEF Promise!End, Promise!Kind, Current
    <3> QED BY <3>3 DEF Promise!Next
  <2> QED BY <2>2, <2>3
<1> QED BY <1>3, <1>4

\* Every operation that is not refused starts its transaction.
LEMMA OperationImplements ==
  ASSUME Operation
  PROVE  Promise!Next
<1>1. CASE LoadFromVehicle
  <2>1. /\ ~InProgress /\ transaction' = "Read" /\ signals' = {}
        /\ expectedAck' = "MissionCount"
    BY <1>1 DEF LoadFromVehicle, Begin, RequestList, StartAckTimeout
  <2> QED BY <2>1, StartImplements
<1>2. ASSUME NEW list, StartWrite(list)
      PROVE  Promise!Next
  <2>1. /\ ~InProgress /\ transaction' = "Write" /\ signals' = {}
        /\ expectedAck' = "MissionRequest"
    BY <1>2 DEF StartWrite, Begin, WriteMissionCount, StartAckTimeout
  <2> QED BY <2>1, StartImplements
<1>3. CASE WriteGuidedItem
  <2>1. /\ ~InProgress /\ transaction' = "Write" /\ signals' = {}
        /\ PlanType = "Mission"
    BY <1>3 DEF WriteGuidedItem
  <2> QED BY <2>1, StartImplements
<1>4. CASE RemoveAll
  <2>1. /\ ~InProgress /\ transaction' = "RemoveAll" /\ signals' = {}
        /\ expectedAck' = "MissionClearAll"
    BY <1>4 DEF RemoveAll, Begin, RemoveAllWorker, StartAckTimeout
  <2> QED BY <2>1, StartImplements
<1> QED BY <1>1, <1>2, <1>3, <1>4 DEF Operation, WriteMissionItems, WriteResumeMission

\* A message moves the transaction it answers on, ends it, or changes nothing
\* that listeners are told of.
LEMMA ReceiveImplements ==
  ASSUME TypeOK, Control, NEW m \in VehicleMessage, Receive(m)
  PROVE  Promise!Next
<1>1. /\ transaction \in {"Read", "Write", "RemoveAll"}
      /\ expectedAck /= "None"
      /\ expectedAck \in {"MissionCount", "MissionItem"} <=> transaction = "Read"
      /\ expectedAck \in {"MissionRequest", "GuidedItem"} <=> transaction = "Write"
  BY WhatIsAwaited DEF Receive, InProgress, TypeOK, TransactionType
<1>2. ASSUME Ignore PROVE Promise!Next
  BY <1>2, WorkImplements DEF Ignore, ackTimer, session
<1>3. ASSUME NEW items, transaction = "Read",
             FinishTransaction(TRUE, FALSE, items, {})
      PROVE  Promise!Next
  BY <1>1, <1>3, EndImplements DEF Current
<1>4. CASE m.kind = "Count" /\ HandleMissionCount(m)
  <2>1. CASE m.mt /= PlanType \/ expectedAck /= "MissionCount"
    BY <1>2, <1>4, <2>1 DEF HandleMissionCount
  <2>2. CASE ~(m.mt /= PlanType \/ expectedAck /= "MissionCount") /\ m.n = 0
    BY <1>1, <1>3, <1>4, <2>2 DEF HandleMissionCount, ReadTransactionComplete
  <2>3. CASE ~(m.mt /= PlanType \/ expectedAck /= "MissionCount") /\ m.n /= 0
    <3>1. transaction' = transaction /\ transaction = "Read" /\ signals' = {}
      BY <1>1, <1>4, <2>3 DEF HandleMissionCount, RequestNextMissionItem, session
    <3> QED BY <3>1, WorkImplements
  <2> QED BY <2>1, <2>2, <2>3
<1>5. CASE m.kind = "Item" /\ HandleMissionItem(m)
  <2> DEFINE items  == Append(missionItems, [seq |-> m.seq, item |-> FromVehicle(m.item)])
             toRead == itemIndicesToRead \ {m.seq}
  <2>1. CASE expectedAck /= "MissionItem"
    <3>1. /\ UNCHANGED <<transaction, expectedAck>>
          /\ signals' \in {{}, {Signal("homePosition", FALSE)}}
      BY <1>5, <2>1 DEF HandleMissionItem, Ignore, ackTimer, session
    <3>2. \A s \in signals' : s.name \notin CompletionNames
      BY <3>1 DEF Signal, CompletionNames
    <3> QED BY <3>1, <3>2, WorkImplements
  <2>2. CASE expectedAck = "MissionItem" /\ ~ItemWasRequested(m.seq)
    <3>1. transaction' = transaction /\ transaction = "Read" /\ signals' = {}
      BY <1>1, <1>5, <2>2 DEF HandleMissionItem, DropItem, session
    <3> QED BY <3>1, WorkImplements
  <2>3. CASE expectedAck = "MissionItem" /\ ItemWasRequested(m.seq) /\ toRead = {}
    <3>1. FinishTransaction(TRUE, FALSE, items, {})
      BY <1>5, <2>3 DEF HandleMissionItem, ReadTransactionComplete
    <3> HIDE DEF items
    <3> QED BY <1>1, <1>3, <2>3, <3>1
  <2>4. CASE expectedAck = "MissionItem" /\ ItemWasRequested(m.seq) /\ toRead /= {}
    <3>1. transaction' = transaction /\ transaction = "Read" /\ signals' = {}
      BY <1>1, <1>5, <2>4 DEF HandleMissionItem, RequestNextMissionItem, session
    <3> QED BY <3>1, WorkImplements
  <2> QED BY <2>1, <2>2, <2>3, <2>4
<1>6. CASE m.kind = "Request" /\ HandleMissionRequest(m)
  <2>1. CASE m.mt /= PlanType \/ expectedAck /= "MissionRequest"
    BY <1>2, <1>6, <2>1 DEF HandleMissionRequest
  <2>2. CASE /\ ~(m.mt /= PlanType \/ expectedAck /= "MissionRequest")
             /\ m.seq > Len(writeMissionItems) - 1
    <3>1. FinishTransaction(FALSE, FALSE, missionItems, SendError)
      BY <1>6, <2>2 DEF HandleMissionRequest, FailTransaction
    <3> QED BY <1>1, <3>1, EndImplements
  <2>3. CASE /\ ~(m.mt /= PlanType \/ expectedAck /= "MissionRequest")
             /\ ~(m.seq > Len(writeMissionItems) - 1)
    <3>1. /\ transaction' = transaction /\ signals' = {}
          /\ expectedAck = "MissionRequest" /\ expectedAck' = "MissionRequest"
      BY <1>6, <2>3 DEF HandleMissionRequest, StartAckTimeout, session
    <3> QED BY <3>1, WorkImplements
  <2> QED BY <2>1, <2>2, <2>3
<1>7. CASE m.kind = "Ack" /\ HandleMissionAck(m)
  <2>1. CASE m.mt /= PlanType \/ (ApmFirmware /\ m.result = "InvalidSequence")
    BY <1>2, <1>7, <2>1 DEF HandleMissionAck
  <2>2. CASE ~(m.mt /= PlanType \/ (ApmFirmware /\ m.result = "InvalidSequence"))
    <3> DEFINE ok == AckIsSuccess(m.result)
               guided == expectedAck = "GuidedItem"
               errors == IF ok THEN {} ELSE SendError
    <3>1. FinishTransaction(ok, guided, missionItems, errors)
      BY <1>1, <1>7, <2>2 DEF HandleMissionAck
    <3>2. errors \in {{}, SendError} /\ guided \in BOOLEAN /\ (guided <=> Current = "GuidedItem")
      BY <1>1 DEF Current
    <3> HIDE DEF ok, guided, errors
    <3> QED BY <1>1, <3>1, <3>2, EndImplements
  <2> QED BY <2>1, <2>2
<1> QED BY <1>4, <1>5, <1>6, <1>7 DEF Receive

\* A timeout asks again or ends the transaction it is in as a failure.
LEMMA AckTimeoutImplements ==
  ASSUME TypeOK, Control, AckTimeout
  PROVE  Promise!Next
<1>1. timerRunning
  BY DEF AckTimeout, TimedOut, CountTimeout, ItemTimeout, WriteAbandoned,
         WriteCountTimeout, ClearAllTimeout, GuidedTimeout
<1>2. transaction \in {"Read", "Write", "RemoveAll"}
  BY <1>1, WhatIsAwaited DEF InProgress, TypeOK, TransactionType
<1>3. ASSUME GiveUp PROVE Promise!Next
  <2>1. FinishTransaction(FALSE, FALSE, missionItems, SendError)
    BY <1>3 DEF GiveUp, FailTransaction
  <2> QED BY <1>2, <2>1, EndImplements
<1>4. ASSUME transaction' = transaction, signals' = {},
             expectedAck /= "GuidedItem", expectedAck' /= "GuidedItem"
      PROVE  Promise!Next
  BY <1>4, WorkImplements
<1>5. CASE CountTimeout
  <2>1. CASE ~RetriesExceeded
    BY <1>4, <1>5, <2>1 DEF CountTimeout, TimedOut, RequestList, StartAckTimeout, session
  <2> QED BY <1>3, <1>5, <2>1 DEF CountTimeout
<1>6. CASE ItemTimeout
  <2>1. CASE ~RetriesExceeded
    BY <1>4, <1>6, <2>1
       DEF ItemTimeout, TimedOut, RequestNextMissionItem, StartAckTimeout, session
  <2> QED BY <1>3, <1>6, <2>1 DEF ItemTimeout
<1>7. CASE WriteCountTimeout
  <2>1. CASE ~RetriesExceeded
    BY <1>4, <1>7, <2>1
       DEF WriteCountTimeout, TimedOut, WriteMissionCount, StartAckTimeout, session
  <2> QED BY <1>3, <1>7, <2>1 DEF WriteCountTimeout
<1>8. CASE ClearAllTimeout
  <2>1. CASE ~RetriesExceeded
    BY <1>4, <1>8, <2>1
       DEF ClearAllTimeout, TimedOut, RemoveAllWorker, StartAckTimeout
  <2> QED BY <1>3, <1>8, <2>1 DEF ClearAllTimeout
<1>9. CASE WriteAbandoned \/ GuidedTimeout
  BY <1>3, <1>9 DEF WriteAbandoned, GuidedTimeout
<1> QED BY <1>5, <1>6, <1>7, <1>8, <1>9 DEF AckTimeout

LEMMA StepImplements ==
  TypeOK /\ Control /\ [Next]_vars => [Promise!Next]_(Promise!vars)
<1> SUFFICES ASSUME TypeOK, Control, [Next]_vars
             PROVE  [Promise!Next]_(Promise!vars)
  OBVIOUS
<1>1. CASE LinkTakes \/ UNCHANGED vars
  <2>1. UNCHANGED <<transaction, expectedAck, signals>>
    BY <1>1 DEF LinkTakes, vars, managerVars, ackTimer, session
  <2>2. UNCHANGED CompletionReports
    BY <2>1 DEF CompletionReports
  <2> QED BY <2>1, <2>2 DEF Promise!vars
<1> QED BY <1>1, InputAssumption, OperationImplements, ReceiveImplements,
           AckTimeoutImplements DEF Next

\* The manager keeps its promise to the components that sequence on it: exactly
\* one completion signal for each transaction, of its kind, when it ends.
THEOREM Implementation == Spec => KeepsPromise
<1>1. IInv => TypeOK /\ Control
  BY DEF IInv
<1> QED BY <1>1, Invariance, InitImplements, StepImplements, PTL
        DEF Spec, KeepsPromise, Promise!Spec
=============================================================================
