------------------------ MODULE MissionProtocolProofs ------------------------
(***************************************************************************)
(* Theorems about the mission protocol with the repository's vehicle, for    *)
(* plans of any length, any links, regimes and failure modes: what is        *)
(* reported as written, removed or read is.  While the ack timer outlasts    *)
(* the links one request or its answer is under way, and the invariant says  *)
(* what each of them means: which items the vehicle holds when it answers,   *)
(* and which the ground station has read when it asks.  The failure modes of  *)
(* the vehicle are told apart: those that withhold the same message at every *)
(* attempt are reported, those that withhold it once are recovered from.     *)
(***************************************************************************)
EXTENDS MissionProtocol, PlanManagerProofs, FiniteSetTheorems

(* Types *)

\* A plan in the vehicle's map: items by sequence number.
IsPlan(plan) ==
  /\ DOMAIN plan \subseteq Nat /\ IsFiniteSet(DOMAIN plan)
  /\ plan \in [DOMAIN plan -> ItemType]

ProtocolTypeOK ==
  /\ regime \in Regimes
  /\ vehicleItems = [t \in PlanTypes |-> vehicleItems[t]]
  /\ \A t \in PlanTypes : IsPlan(vehicleItems[t])
  /\ requestType \in PlanTypes
  /\ writeSequenceCount \in Nat /\ writeSequenceIndex \in Nat
  /\ toGcs \in Seq(VehicleMessage)
-----------------------------------------------------------------------------
(* What a transfer has done so far *)

\* The vehicles about which nothing is said of what is read: those that keep a
\* plan with a gap, and those that count a home position they do not store.
Sound == HasNoGap /\ SendHomePositionOnEmptyList = FALSE

WrongFirst == failureMode = "FailWriteRequest0IncorrectSequence"
WrongRead(s) ==
  \/ failureMode = "FailReadRequest0IncorrectSequence" /\ s = 0
  \/ failureMode = "FailReadRequest1IncorrectSequence" /\ s = 1

ToWrite == 0 .. Len(writeMissionItems) - 1

\* The items are asked for from the first on, or the first is never asked for.
WriteState ==
  transaction = "Write" =>
    /\ expectedAck = "MissionRequest"
    /\ itemIndicesToWrite \subseteq ToWrite
    /\ IF WrongFirst THEN 0 \in ToWrite => 0 \in itemIndicesToWrite
       ELSE 0 \in itemIndicesToWrite => itemIndicesToWrite = ToWrite

\* The vehicle holds items of the list being written and no others, and all that
\* were sent but those on their way.
HoldsSent(underWay) ==
  /\ DOMAIN vehiclePlan \subseteq ToWrite
  /\ \A s \in DOMAIN vehiclePlan : vehiclePlan[s] = writeMissionItems[s + 1]
  /\ WrongFirst \/ ToWrite \ itemIndicesToWrite \subseteq DOMAIN vehiclePlan \cup underWay

\* The next item the vehicle expects has this number, and it has those below.
FilledTo(s) == writeSequenceIndex = s /\ DOMAIN vehiclePlan = 0 .. s - 1

\* The plan of the vehicle has no gap.
NoGap == \E k \in Nat : DOMAIN vehiclePlan = 0 .. k - 1

\* The items read are the first ones of the vehicle's plan, and the others are
\* left to be read; or one that the vehicle never sends is.
ReadInOrder ==
  /\ \E k \in Nat : /\ DOMAIN vehiclePlan = 0 .. k - 1
                    /\ itemIndicesToRead = Len(missionItems) .. k - 1
  /\ \A i \in 1 .. Len(missionItems) :
       missionItems[i] = [seq |-> i - 1, item |-> FromVehicle(vehiclePlan[i - 1])]

ReadCannotEnd == \E s \in itemIndicesToRead : WrongRead(s)

ReadState ==
  transaction = "Read" /\ expectedAck = "MissionItem" =>
    /\ itemIndicesToRead \subseteq DOMAIN vehiclePlan
    /\ ReadInOrder \/ ReadCannotEnd
-----------------------------------------------------------------------------
(* What is under way *)

\* What the ground station asks for in each transaction
ReadRequest(m) ==
  \/ m.kind = "RequestList" /\ expectedAck = "MissionCount"
  \/ /\ m.kind = "Request" /\ expectedAck = "MissionItem"
     /\ m.seq \in itemIndicesToRead /\ IsNext(m.seq, itemIndicesToRead)

WriteRequest(m) ==
  \/ /\ m.kind = "Count" /\ m.n = Len(writeMissionItems)
     /\ WrongFirst \/ itemIndicesToWrite = ToWrite
  \/ /\ m.kind = "Item" /\ m.seq \in ToWrite \ itemIndicesToWrite
     /\ m.item = writeMissionItems[m.seq + 1]
     /\ HoldsSent({m.seq})
     /\ Sound => FilledTo(m.seq)

RequestOK(m) ==
  /\ m.mt = PlanType
  /\ \/ transaction = "Read" /\ ReadRequest(m)
     \/ transaction = "Write" /\ WriteRequest(m)
     \/ transaction = "RemoveAll" /\ m.kind = "ClearAll"

\* What the vehicle answers
ItemAnswers(m, s) ==
  IF WrongRead(s) THEN m.seq = s + 1
  ELSE m.seq = s /\ m.item = vehiclePlan[s]

ReadAnswer(m) ==
  \/ /\ m.kind = "Count" /\ expectedAck = "MissionCount"
     /\ m.n = Cardinality(DOMAIN vehiclePlan)
  \/ /\ m.kind = "Item" /\ expectedAck = "MissionItem"
     /\ \E s \in itemIndicesToRead : IsNext(s, itemIndicesToRead) /\ ItemAnswers(m, s)
  \/ m.kind = "Ack" /\ m.result = "Error"

WriteAnswer(m) ==
  \/ m.kind = "Ack" /\ (m.result = "Accepted" => HoldsSent({}))
  \/ /\ m.kind = "Request" /\ HoldsSent({})
     /\ IF WrongFirst THEN m.seq /= 0 ELSE 0 \in itemIndicesToWrite => m.seq = 0
     /\ Sound => FilledTo(m.seq)

AnswerOK(m) ==
  \/ transaction = "Read" /\ (Sound => ReadAnswer(m))
  \/ transaction = "Write" /\ WriteAnswer(m)
  \/ transaction = "RemoveAll" /\ m.kind = "Ack" /\ vehiclePlan = MockLink!NoItems

\* One request or one answer to it is under way, of the transaction in progress;
\* before it there may be acknowledgements of earlier reads.
Exchange ==
  /\ \A i \in 1 .. Len(toVehicle) : toVehicle[i].kind /= "Ack" =>
       i = Len(toVehicle) /\ toGcs = <<>> /\ RequestOK(toVehicle[i])
  /\ \A i \in 1 .. Len(toGcs) : i = 1 /\ AnswerOK(toGcs[i])

PromptInv ==
  /\ WriteState
  /\ Exchange
  /\ Sound => NoGap /\ ReadState

\* Where callers only load, nothing is written or removed.
OnlyReads == regime.operations \subseteq {"Load"} => transaction \in {"None", "Read"}

Base == IInv /\ ProtocolTypeOK /\ OnlyReads

ProtocolInv == Base /\ (regime.prompt => PromptInv)
-----------------------------------------------------------------------------
(* Links *)

AcksOnly(link) == \A i \in 1 .. Len(link) : link[i].kind = "Ack"

\* What is sent behind acknowledgements is the only request, and the last.
LEMMA SentLast ==
  ASSUME NEW m, toVehicle \in Seq(GroundMessage), AcksOnly(toVehicle), Send(m)
  PROVE  \A i \in 1 .. Len(toVehicle') : toVehicle'[i].kind /= "Ack" =>
           i = Len(toVehicle') /\ toVehicle'[i] = m
<1>1. CASE toVehicle' = toVehicle
  BY <1>1 DEF AcksOnly
<1>2. CASE toVehicle' = Append(toVehicle, m)
  <2>1. /\ Len(toVehicle) \in Nat /\ Len(toVehicle') = Len(toVehicle) + 1
        /\ toVehicle'[Len(toVehicle) + 1] = m
        /\ \A i \in 1 .. Len(toVehicle) : toVehicle'[i] = toVehicle[i]
    BY <1>2
  <2> QED
    BY <2>1 DEF AcksOnly
<1> QED
  BY <1>1, <1>2 DEF Send

\* A link without its first message
LEMMA WithoutFirst ==
  ASSUME NEW S, NEW link \in Seq(S), link /= <<>>
  PROVE  /\ Head(link) = link[1] /\ Head(link) \in S
         /\ Tail(link) \in Seq(S) /\ Len(Tail(link)) = Len(link) - 1 /\ Len(link) >= 1
         /\ \A i \in 1 .. Len(Tail(link)) : i + 1 \in 1 .. Len(link) /\ Tail(link)[i] = link[i + 1]
<1>1. Len(link) \in Nat /\ Len(link) >= 1 /\ Len(Tail(link)) = Len(link) - 1
  OBVIOUS
<1>2. Head(link) = link[1] /\ Head(link) \in S /\ Tail(link) \in Seq(S)
  OBVIOUS
<1>3. \A i \in 1 .. Len(Tail(link)) : i + 1 \in 1 .. Len(link) /\ Tail(link)[i] = link[i + 1]
  BY <1>1
<1> QED
  BY <1>1, <1>2, <1>3

\* A link with one message at most
LEMMA OneAtMost ==
  ASSUME NEW S, NEW link \in Seq(S), link /= <<>>, \A i \in 1 .. Len(link) : i = 1
  PROVE  Len(link) = 1 /\ Tail(link) = <<>>
<1>1. Len(link) \in Nat /\ Len(link) /= 0
  OBVIOUS
<1>2. CASE Len(link) = 1
  <2>1. Tail(link) \in Seq(S) /\ Len(Tail(link)) = 0
    BY <1>2
  <2> QED
    BY <1>2, <2>1, EmptySeq
<1>3. CASE Len(link) /= 1
  <2> PICK n \in Nat : n = Len(link)
    BY <1>1
  <2>0. n /= 0 /\ n /= 1
    BY <1>1, <1>3
  <2>1. 2 \in 1 .. n
    BY <2>0
  <2>2. 2 = 1
    BY <2>1
  <2> QED
    BY <2>2
<1> QED
  BY <1>2, <1>3

\* A request under way is the only thing that is; without a transaction none is.
LEMMA QuietLinks ==
  ASSUME TypeOK, ProtocolTypeOK, Exchange
  PROVE  /\ toGcs /= <<>> => AcksOnly(toVehicle) /\ Len(toGcs) = 1
         /\ ~InProgress => AcksOnly(toVehicle) /\ toGcs = <<>>
<1>1. ASSUME toGcs /= <<>> PROVE AcksOnly(toVehicle) /\ Len(toGcs) = 1
  BY <1>1, OneAtMost DEF Exchange, AcksOnly, ProtocolTypeOK
<1>2. ASSUME ~InProgress PROVE AcksOnly(toVehicle) /\ toGcs = <<>>
  <2>1. AcksOnly(toVehicle)
    BY <1>2 DEF Exchange, AcksOnly, RequestOK, InProgress
  <2>2. ASSUME toGcs /= <<>> PROVE FALSE
    <3>1. 1 \in 1 .. Len(toGcs)
      BY <1>1, <2>2
    <3> QED
      BY <1>2, <3>1 DEF Exchange, AnswerOK, InProgress
  <2> QED
    BY <2>1, <2>2
<1> QED
  BY <1>1, <1>2

\* The ground station asks for something, or acknowledges, when nothing is under way.
LEMMA GroundAsks ==
  ASSUME toVehicle \in Seq(GroundMessage), AcksOnly(toVehicle), toGcs' = <<>>,
         NEW m, Send(m), m.kind = "Ack" \/ RequestOK(m)'
  PROVE  Exchange'
<1>1. \A i \in 1 .. Len(toVehicle') : toVehicle'[i].kind /= "Ack" =>
        i = Len(toVehicle') /\ toVehicle'[i] = m
  BY SentLast
<1>2. Len(toGcs') = 0
  OBVIOUS
<1> QED
  BY <1>1, <1>2 DEF Exchange

LEMMA GroundIsQuiet ==
  ASSUME AcksOnly(toVehicle), toGcs' = <<>>, toVehicle' = toVehicle
  PROVE  Exchange'
<1>1. Len(toGcs') = 0
  OBVIOUS
<1> QED
  BY <1>1 DEF Exchange, AcksOnly
-----------------------------------------------------------------------------
(* The vehicle: what a message changes, and what is answered *)

\* What a message of a kind carries
LEMMA GroundFields ==
  ASSUME NEW m \in GroundMessage
  PROVE  /\ m.mt \in PlanTypes
         /\ m.kind = "Count" => m.n \in Nat
         /\ m.kind = "Item" => m.seq \in Nat /\ m.item \in ItemType
         /\ m.kind = "Request" => m.seq \in Nat
         /\ m.kind \in {"RequestList", "ClearAll", "Request", "Count", "Item", "Ack"}
BY DEF GroundMessage

\* The answer r is sent, or lost with a link that is full.
Replies(r) == toGcs' = toGcs \/ toGcs' = Append(toGcs, r)

LEMMA RespondReplies ==
  ASSUME NEW r, MockLink!Respond(r)
  PROVE  Replies(r)
BY DEF MockLink!Respond, Replies

AckMessage(type, result) == [kind |-> "Ack", mt |-> type, result |-> result]
RequestMessage(type, seq) == [kind |-> "Request", mt |-> type, seq |-> seq]

\* The plan of one type is replaced, the others are not.
Replaces(type, plan) == vehicleItems' = [vehicleItems EXCEPT ![type] = plan]

WrongWrite(s) ==
  \/ failureMode = "FailWriteRequest0IncorrectSequence" /\ s = 0
  \/ failureMode = "FailWriteRequest1IncorrectSequence" /\ s = 1

\* Asked for is the item expected next, or the one after it; or there is an error.
Asks(type, index) ==
  \/ toGcs' = toGcs
  \/ Replies(AckMessage(type, "Error"))
  \/ \E seq \in {index, index + 1} :
       /\ IF WrongWrite(index) THEN seq = index + 1 ELSE seq = index
       /\ Replies(RequestMessage(type, seq))

LEMMA NextItemAsked ==
  ASSUME NEW type, NEW index, NEW count, MockLink!RequestNextMissionItem(type, index, count)
  PROVE  Asks(type, index)
<1> PICK seq : seq = IF WrongWrite(index) THEN index + 1 ELSE index
  OBVIOUS
<1>1. CASE toGcs' = toGcs
  BY <1>1 DEF Asks
<1>2. CASE MockLink!Respond(AckMessage(type, "Error"))
  BY <1>2, RespondReplies DEF Asks
<1>3. CASE MockLink!Respond(RequestMessage(type, seq))
  BY <1>3, RespondReplies DEF Asks
<1> QED
  BY <1>1, <1>2, <1>3
     DEF MockLink!RequestNextMissionItem, MockLink!Fails, WrongWrite, MockLink!NoResponse,
         MockLink!SendAck, AckMessage, RequestMessage

ClearAllEffect(m) ==
  /\ Replaces(m.mt, MockLink!NoItems)
  /\ Replies(AckMessage(m.mt, "Accepted"))
  /\ requestType' = m.mt
  /\ UNCHANGED <<writeSequenceCount, writeSequenceIndex, failureMode>>

RequestListEffect(m) ==
  /\ Replies([kind |-> "Count", mt |-> m.mt, n |-> MockLink!StoredCount(m.mt)])
  /\ requestType' \in {requestType, m.mt}
  /\ UNCHANGED <<vehicleItems, writeSequenceCount, writeSequenceIndex, failureMode>>

RequestEffect(m) ==
  /\ \/ toGcs' = toGcs /\ UNCHANGED vehicleItems
     \/ Replies(AckMessage(requestType, "Error")) /\ UNCHANGED vehicleItems
     \/ IF WrongRead(m.seq) THEN MockLink!RespondWithItem(m.mt, m.seq + 1)
                            ELSE MockLink!RespondWithItem(m.mt, m.seq)
  /\ UNCHANGED <<requestType, writeSequenceCount, writeSequenceIndex, failureMode>>

CountEffect(m) ==
  /\ Replaces(m.mt, MockLink!NoItems)
  /\ requestType' = m.mt /\ writeSequenceCount' = m.n /\ UNCHANGED failureMode
  /\ \/ toGcs' = toGcs /\ UNCHANGED writeSequenceIndex
     \/ m.n = 0 /\ Replies(AckMessage(m.mt, "Accepted")) /\ UNCHANGED writeSequenceIndex
     \/ writeSequenceIndex' = 0 /\ Asks(m.mt, 0)

ItemEffect(m) ==
  /\ Replaces(m.mt, MockLink!Store(vehicleItems[m.mt], m.seq, m.item))
  /\ writeSequenceIndex' = writeSequenceIndex + 1
  /\ \/ toGcs' = toGcs
     \/ \E result \in AckResult : Replies(AckMessage(requestType, result))
     \/ Asks(requestType, writeSequenceIndex + 1)
  /\ UNCHANGED <<requestType, writeSequenceCount, failureMode>>

\* The handlers, by what their callers see of them
LEMMA VehicleEffects ==
  ASSUME NEW m, MockLink!HandleMessage(m)
  PROVE  \/ m.kind = "ClearAll" /\ ClearAllEffect(m)
         \/ m.kind = "RequestList" /\ RequestListEffect(m)
         \/ m.kind = "Request" /\ RequestEffect(m)
         \/ m.kind = "Count" /\ CountEffect(m)
         \/ m.kind = "Item" /\ ItemEffect(m)
         \/ m.kind = "Ack" /\ UNCHANGED <<vehicleVars, toGcs>>
<1> USE DEF MockLink!SendAck, MockLink!NoResponse, MockLink!writeSequence
<1>1. CASE m.kind = "ClearAll" /\ MockLink!HandleMissionClearAll(m)
  <2>1. ClearAllEffect(m)
    BY <1>1, RespondReplies DEF MockLink!HandleMissionClearAll, ClearAllEffect, Replaces, AckMessage
  <2> QED
    BY <1>1, <2>1
<1>2. CASE m.kind = "RequestList" /\ MockLink!HandleMissionRequestList(m)
  <2>1. RequestListEffect(m)
    <3> PICK r : r = [kind |-> "Count", mt |-> m.mt, n |-> MockLink!StoredCount(m.mt)]
      OBVIOUS
    <3>1. toGcs' = toGcs \/ MockLink!Respond(r)
      BY <1>2 DEF MockLink!HandleMissionRequestList
    <3>2. Replies(r)
      BY <3>1, RespondReplies DEF Replies
    <3> QED
      BY <1>2, <3>2 DEF MockLink!HandleMissionRequestList, RequestListEffect
  <2> QED
    BY <1>2, <2>1
<1>3. CASE m.kind = "Request" /\ MockLink!HandleMissionRequest(m)
  <2>1. RequestEffect(m)
    <3> PICK r : r = AckMessage(requestType, "Error")
      OBVIOUS
    <3>1. \/ toGcs' = toGcs /\ UNCHANGED vehicleItems
          \/ MockLink!Respond(r) /\ UNCHANGED vehicleItems
          \/ IF WrongRead(m.seq) THEN MockLink!RespondWithItem(m.mt, m.seq + 1)
                                 ELSE MockLink!RespondWithItem(m.mt, m.seq)
      BY <1>3 DEF MockLink!HandleMissionRequest, MockLink!Fails, WrongRead, AckMessage
    <3>2. UNCHANGED <<requestType, writeSequenceCount, writeSequenceIndex, failureMode>>
      BY <1>3 DEF MockLink!HandleMissionRequest
    <3> QED
      BY <3>1, <3>2, RespondReplies DEF RequestEffect
  <2> QED
    BY <1>3, <2>1
<1>4. CASE m.kind = "Count" /\ MockLink!HandleMissionCount(m)
  <2>1. CountEffect(m)
    <3> PICK r : r = AckMessage(m.mt, "Accepted")
      OBVIOUS
    <3>1. \/ toGcs' = toGcs /\ UNCHANGED writeSequenceIndex
          \/ m.n = 0 /\ MockLink!Respond(r) /\ UNCHANGED writeSequenceIndex
          \/ writeSequenceIndex' = 0 /\ MockLink!RequestNextMissionItem(m.mt, 0, m.n)
      BY <1>4 DEF MockLink!HandleMissionCount, AckMessage
    <3>2. /\ Replaces(m.mt, MockLink!NoItems)
          /\ requestType' = m.mt /\ writeSequenceCount' = m.n /\ UNCHANGED failureMode
      BY <1>4 DEF MockLink!HandleMissionCount, Replaces
    <3> QED
      BY <3>1, <3>2, RespondReplies, NextItemAsked DEF CountEffect
  <2> QED
    BY <1>4, <2>1
<1>5. CASE m.kind = "Item" /\ MockLink!HandleMissionItem(m)
  <2>1. ItemEffect(m)
    <3> PICK next : next = writeSequenceIndex + 1
      OBVIOUS
    <3>1. \/ toGcs' = toGcs
          \/ \E result \in AckResult : MockLink!Respond(AckMessage(requestType, result))
          \/ MockLink!RequestNextMissionItem(requestType, next, writeSequenceCount)
      BY <1>5 DEF MockLink!HandleMissionItem, AckMessage, AckResult
    <3>2. /\ Replaces(m.mt, MockLink!Store(vehicleItems[m.mt], m.seq, m.item))
          /\ writeSequenceIndex' = next
          /\ UNCHANGED <<requestType, writeSequenceCount, failureMode>>
      BY <1>5 DEF MockLink!HandleMissionItem, Replaces
    <3>3. Asks(requestType, next) \/ toGcs' = toGcs
            \/ \E result \in AckResult : Replies(AckMessage(requestType, result))
      BY <3>1, RespondReplies, NextItemAsked
    <3> QED
      BY <3>2, <3>3 DEF ItemEffect
  <2> QED
    BY <1>5, <2>1
<1>6. CASE m.kind = "Ack" /\ UNCHANGED <<MockLink!vehicleVars, toGcs>>
  BY <1>6 DEF MockLink!vehicleVars, vehicleVars
<1> QED
  BY <1>1, <1>2, <1>3, <1>4, <1>5, <1>6 DEF MockLink!HandleMessage
-----------------------------------------------------------------------------
(* The plans of the vehicle *)

\* Replacing the plan of one type leaves a map of plans.
LEMMA PlanReplaced ==
  ASSUME NEW type \in PlanTypes, NEW plan, Replaces(type, plan),
         vehicleItems = [t \in PlanTypes |-> vehicleItems[t]]
  PROVE  /\ vehicleItems' = [t \in PlanTypes |-> vehicleItems'[t]]
         /\ vehicleItems'[type] = plan
         /\ \A t \in PlanTypes : t /= type => vehicleItems'[t] = vehicleItems[t]
<1>1. DOMAIN vehicleItems = PlanTypes
  BY Zenon
<1>2. vehicleItems' = [t \in PlanTypes |-> IF t = type THEN plan ELSE vehicleItems[t]]
  BY <1>1 DEF Replaces
<1>3. \A t \in PlanTypes : vehicleItems'[t] = IF t = type THEN plan ELSE vehicleItems[t]
  BY <1>2
<1> QED
  BY <1>2, <1>3

\* The empty plan, and a plan with one more item, are plans.
LEMMA NoItemsIsPlan == IsPlan(MockLink!NoItems) /\ DOMAIN MockLink!NoItems = {}
BY FS_EmptySet DEF IsPlan, MockLink!NoItems

LEMMA StoreIsPlan ==
  ASSUME NEW plan, IsPlan(plan), NEW seq \in Nat, NEW item \in ItemType
  PROVE  /\ IsPlan(MockLink!Store(plan, seq, item))
         /\ DOMAIN MockLink!Store(plan, seq, item) = DOMAIN plan \cup {seq}
         /\ MockLink!Store(plan, seq, item)[seq] = item
         /\ \A s \in DOMAIN plan : s /= seq =>
              MockLink!Store(plan, seq, item)[s] = plan[s]
<1> DEFINE D == DOMAIN plan \cup {seq}
<1>1. MockLink!Store(plan, seq, item) = [s \in D |-> IF s = seq THEN item ELSE plan[s]]
  BY DEF MockLink!Store
<1>2. D \subseteq Nat /\ IsFiniteSet(D)
  BY FS_AddElement DEF IsPlan
<1>3. \A s \in D : (IF s = seq THEN item ELSE plan[s]) \in ItemType
  BY DEF IsPlan
<1>4. [s \in D |-> IF s = seq THEN item ELSE plan[s]] \in [D -> ItemType]
  BY <1>3
<1> HIDE DEF D
<1>5. IsPlan(MockLink!Store(plan, seq, item))
  BY <1>1, <1>2, <1>4 DEF IsPlan
<1>6. seq \in D /\ \A s \in DOMAIN plan : s \in D
  BY DEF D
<1> QED
  BY <1>1, <1>5, <1>6 DEF D

LEMMA ConstantItems ==
  MockLink!ZeroItem \in ItemType /\ MockLink!HomeItem \in ItemType
BY DEF MockLink!ZeroItem, MockLink!HomeItem, ItemType

\* What the answer to a request for an item is, and what it may store
LEMMA ItemIsAnswered ==
  ASSUME ProtocolTypeOK, NEW type \in PlanTypes, NEW seq \in Nat,
         MockLink!RespondWithItem(type, seq)
  PROVE  \E item \in ItemType :
           /\ Replies([kind |-> "Item", mt |-> requestType, seq |-> seq, item |-> item])
           /\ \/ /\ UNCHANGED vehicleItems
                 /\ SendHomePositionOnEmptyList = FALSE =>
                      seq \in DOMAIN vehicleItems[type] /\ item = vehicleItems[type][seq]
              \/ /\ seq \notin DOMAIN vehicleItems[type]
                 /\ Replaces(type, MockLink!Store(vehicleItems[type], seq, MockLink!ZeroItem))
<1> PICK plan : plan = vehicleItems[type]
  OBVIOUS
<1>0. IsPlan(plan)
  BY DEF ProtocolTypeOK
<1> PICK home : home = [kind |-> "Item", mt |-> requestType, seq |-> seq, item |-> MockLink!HomeItem]
  OBVIOUS
<1>1. CASE MockLink!Respond(home) /\ UNCHANGED vehicleItems /\ SendHomePositionOnEmptyList
  BY <1>1, RespondReplies, ConstantItems
<1>2. CASE /\ seq \in DOMAIN plan
           /\ MockLink!Respond([kind |-> "Item", mt |-> requestType, seq |-> seq, item |-> plan[seq]])
           /\ vehicleItems' = [vehicleItems EXCEPT ![type] = plan]
  <2>1. UNCHANGED vehicleItems
    BY <1>2 DEF ProtocolTypeOK
  <2>2. plan[seq] \in ItemType
    BY <1>0, <1>2 DEF IsPlan
  <2> QED
    BY <1>2, <2>1, <2>2, RespondReplies
<1>3. CASE /\ seq \notin DOMAIN plan
           /\ \E item : /\ item = MockLink!Store(plan, seq, MockLink!ZeroItem)[seq]
                        /\ MockLink!Respond([kind |-> "Item", mt |-> requestType, seq |-> seq,
                                            item |-> item])
           /\ vehicleItems' = [vehicleItems EXCEPT ![type] =
                                 MockLink!Store(plan, seq, MockLink!ZeroItem)]
  <2>1. MockLink!Store(plan, seq, MockLink!ZeroItem)[seq] = MockLink!ZeroItem
    BY DEF MockLink!Store
  <2> QED
    BY <1>3, <2>1, ConstantItems, RespondReplies DEF Replaces
<1>4. CASE type = "Mission" /\ plan = MockLink!NoItems /\ SendHomePositionOnEmptyList
  BY <1>1, <1>4 DEF MockLink!RespondWithItem
<1>5. CASE ~(type = "Mission" /\ plan = MockLink!NoItems /\ SendHomePositionOnEmptyList)
  BY <1>2, <1>3, <1>5 DEF MockLink!RespondWithItem
<1> QED
  BY <1>4, <1>5

\* The vehicle counts its items as anyone does.
LEMMA SameCardinality ==
  ASSUME NEW S
  PROVE  MockLink!Cardinality(S) = Cardinality(S)
BY DEF MockLink!Cardinality, Cardinality

\* A plan is counted by a number.
LEMMA CountIsNumber ==
  ASSUME ProtocolTypeOK, NEW type \in PlanTypes
  PROVE  MockLink!StoredCount(type) \in Nat
<1>1. IsFiniteSet(DOMAIN vehicleItems[type])
  BY DEF ProtocolTypeOK, IsPlan
<1>2. Cardinality(DOMAIN vehicleItems[type]) \in Nat
  BY <1>1, FS_CardinalityType
<1> QED
  BY <1>2, SameCardinality DEF MockLink!StoredCount

\* An answer leaves the link one of the vehicle's messages.
LEMMA ReplyType ==
  ASSUME toGcs \in Seq(VehicleMessage), NEW r \in VehicleMessage, Replies(r)
  PROVE  toGcs' \in Seq(VehicleMessage)
BY AppendProperties DEF Replies

LEMMA AnswerTypes ==
  ASSUME NEW type \in PlanTypes
  PROVE  /\ \A result \in AckResult : AckMessage(type, result) \in VehicleMessage
         /\ \A seq \in Nat :
              /\ RequestMessage(type, seq) \in VehicleMessage
              /\ [kind |-> "Count", mt |-> type, n |-> seq] \in VehicleMessage
              /\ \A item \in ItemType :
                   [kind |-> "Item", mt |-> type, seq |-> seq, item |-> item] \in VehicleMessage
BY DEF AckMessage, RequestMessage, VehicleMessage

LEMMA AsksType ==
  ASSUME toGcs \in Seq(VehicleMessage), NEW type \in PlanTypes, NEW index \in Nat,
         Asks(type, index)
  PROVE  toGcs' \in Seq(VehicleMessage)
<1>1. "Error" \in AckResult
  BY DEF AckResult
<1>2. AckMessage(type, "Error") \in VehicleMessage
  BY <1>1, AnswerTypes
<1>3. \A seq \in {index, index + 1} : RequestMessage(type, seq) \in VehicleMessage
  <2>1. \A seq \in Nat : RequestMessage(type, seq) \in VehicleMessage
    BY AnswerTypes
  <2>2. index + 1 \in Nat
    OBVIOUS
  <2> QED
    BY <2>1, <2>2
<1> QED
  BY <1>2, <1>3, ReplyType DEF Asks

\* The vehicle keeps the types.
LEMMA VehicleType ==
  ASSUME ProtocolTypeOK, regime' = regime, NEW m \in GroundMessage, MockLink!HandleMessage(m)
  PROVE  ProtocolTypeOK'
<1>0. /\ toGcs \in Seq(VehicleMessage) /\ requestType \in PlanTypes
      /\ writeSequenceIndex \in Nat /\ writeSequenceCount \in Nat /\ regime' \in Regimes
      /\ vehicleItems = [t \in PlanTypes |-> vehicleItems[t]]
      /\ \A t \in PlanTypes : IsPlan(vehicleItems[t])
      /\ m.mt \in PlanTypes
  BY GroundFields DEF ProtocolTypeOK
<1>1. "Accepted" \in AckResult /\ "Error" \in AckResult
  BY DEF AckResult
<1>2. ASSUME NEW plan, IsPlan(plan), Replaces(m.mt, plan)
      PROVE  /\ vehicleItems' = [t \in PlanTypes |-> vehicleItems'[t]]
             /\ \A t \in PlanTypes : IsPlan(vehicleItems'[t])
  BY <1>0, <1>2, PlanReplaced
<1>3. ASSUME UNCHANGED vehicleItems
      PROVE  /\ vehicleItems' = [t \in PlanTypes |-> vehicleItems'[t]]
             /\ \A t \in PlanTypes : IsPlan(vehicleItems'[t])
  BY <1>0, <1>3
<1>4. CASE m.kind = "ClearAll" /\ ClearAllEffect(m)
  <2>1. toGcs' \in Seq(VehicleMessage)
    BY <1>0, <1>1, <1>4, AnswerTypes, ReplyType DEF ClearAllEffect
  <2> QED
    BY <1>0, <1>2, <1>4, <2>1, NoItemsIsPlan DEF ClearAllEffect, ProtocolTypeOK
<1>5. CASE m.kind = "RequestList" /\ RequestListEffect(m)
  <2>1. toGcs' \in Seq(VehicleMessage)
    BY <1>0, <1>5, CountIsNumber, AnswerTypes, ReplyType DEF RequestListEffect
  <2> QED
    BY <1>0, <1>3, <1>5, <2>1 DEF RequestListEffect, ProtocolTypeOK
<1>6. CASE m.kind = "Request" /\ RequestEffect(m)
  <2>1. CASE UNCHANGED vehicleItems /\ (toGcs' = toGcs \/ Replies(AckMessage(requestType, "Error")))
    <3>1. toGcs' \in Seq(VehicleMessage)
      BY <1>0, <1>1, <2>1, AnswerTypes, ReplyType
    <3> QED
      BY <1>0, <1>3, <1>6, <2>1, <3>1 DEF RequestEffect, ProtocolTypeOK
  <2>2. ASSUME NEW seq \in Nat, MockLink!RespondWithItem(m.mt, seq) PROVE ProtocolTypeOK'
    <3>1. PICK item \in ItemType :
           /\ Replies([kind |-> "Item", mt |-> requestType, seq |-> seq, item |-> item])
           /\ \/ UNCHANGED vehicleItems
              \/ Replaces(m.mt, MockLink!Store(vehicleItems[m.mt], seq, MockLink!ZeroItem))
      BY <1>0, <2>2, ItemIsAnswered
    <3>2. toGcs' \in Seq(VehicleMessage)
      BY <1>0, <3>1, AnswerTypes, ReplyType
    <3>3. IsPlan(MockLink!Store(vehicleItems[m.mt], seq, MockLink!ZeroItem))
      BY <1>0, ConstantItems, StoreIsPlan
    <3> QED
      BY <1>0, <1>2, <1>3, <1>6, <3>1, <3>2, <3>3 DEF RequestEffect, ProtocolTypeOK
  <2>3. m.seq \in Nat /\ m.seq + 1 \in Nat
    BY <1>6, GroundFields
  <2> QED
    BY <1>6, <2>1, <2>2, <2>3 DEF RequestEffect
<1>7. CASE m.kind = "Count" /\ CountEffect(m)
  <2>0. m.n \in Nat
    BY <1>7, GroundFields
  <2>1. toGcs' \in Seq(VehicleMessage)
    BY <1>0, <1>1, <1>7, AnswerTypes, ReplyType, AsksType DEF CountEffect
  <2> QED
    BY <1>0, <1>2, <1>7, <2>0, <2>1, NoItemsIsPlan DEF CountEffect, ProtocolTypeOK
<1>8. CASE m.kind = "Item" /\ ItemEffect(m)
  <2>0. m.seq \in Nat /\ m.item \in ItemType /\ writeSequenceIndex + 1 \in Nat
    BY <1>0, <1>8, GroundFields
  <2>1. toGcs' \in Seq(VehicleMessage)
    BY <1>0, <1>8, <2>0, AnswerTypes, ReplyType, AsksType DEF ItemEffect
  <2>2. IsPlan(MockLink!Store(vehicleItems[m.mt], m.seq, m.item))
    BY <1>0, <2>0, StoreIsPlan
  <2> QED
    BY <1>0, <1>2, <1>8, <2>0, <2>1, <2>2 DEF ItemEffect, ProtocolTypeOK
<1>9. CASE m.kind = "Ack" /\ UNCHANGED <<vehicleVars, toGcs>>
  BY <1>0, <1>3, <1>9 DEF vehicleVars, ProtocolTypeOK
<1> QED
  BY <1>4, <1>5, <1>6, <1>7, <1>8, <1>9, VehicleEffects
-----------------------------------------------------------------------------
(* What holds in every regime *)

LEMMA OperationIsOne ==
  ASSUME ProtocolTypeOK, GroundOperation
  PROVE  Operation
<1>1. regime.plans \subseteq PlanInput
  BY RegimeAssumption DEF ProtocolTypeOK, Regime
<1> QED
  BY <1>1 DEF GroundOperation, Operation

\* A message of the vehicle is handled like any other.
LEMMA ReceiveKeepsInvariant ==
  ASSUME IInv, NEW m \in VehicleMessage, Receive(m)
  PROVE  IInv'
BY ReceiveType, ReceiveControl, ReceiveLists DEF IInv, ListsOK

LEMMA StepKeepsManager ==
  ASSUME IInv, ProtocolTypeOK, [ProtocolNext]_protocolVars
  PROVE  IInv'
<1>1. ASSUME [Next]_vars PROVE IInv'
  BY <1>1, TypeStep, ControlStep, ListsStep DEF IInv, ListsOK
<1>2. CASE GroundOperation
  BY <1>1, <1>2, OperationIsOne DEF Next
<1>3. CASE GroundReceives
  <2>1. Head(toGcs) \in VehicleMessage
    BY <1>3, WithoutFirst DEF GroundReceives, ProtocolTypeOK
  <2> QED
    BY <1>1, <1>3, <2>1, ReceiveKeepsInvariant DEF GroundReceives
<1>4. CASE GroundTimesOut
  BY <1>1, <1>4 DEF GroundTimesOut, Next
<1>5. CASE VehicleReceives \/ LoseToVehicle
  <2>1. LinkTakes
    BY <1>5 DEF VehicleReceives, LoseToVehicle, LinkTakes
  <2> QED
    BY <1>1, <2>1 DEF Next
<1>6. CASE LoseToGcs \/ UNCHANGED protocolVars
  <2>1. UNCHANGED vars
    BY <1>6 DEF LoseToGcs, protocolVars
  <2> QED
    BY <1>1, <2>1
<1> QED
  BY <1>2, <1>3, <1>4, <1>5, <1>6 DEF ProtocolNext

LEMMA StepKeepsProtocolTypes ==
  ASSUME TypeOK, ProtocolTypeOK, [ProtocolNext]_protocolVars
  PROVE  ProtocolTypeOK'
<1>1. CASE VehicleReceives
  <2>1. Head(toVehicle) \in GroundMessage
    BY <1>1, WithoutFirst DEF VehicleReceives, TypeOK
  <2> QED
    BY <1>1, <2>1, VehicleType DEF VehicleReceives
<1>2. CASE UNCHANGED <<vehicleVars, regime>> /\ (toGcs' = toGcs \/ (toGcs /= <<>> /\ toGcs' = Tail(toGcs)))
  <2>1. toGcs' \in Seq(VehicleMessage)
    BY <1>2, WithoutFirst DEF ProtocolTypeOK
  <2> QED
    BY <1>2, <2>1 DEF ProtocolTypeOK, vehicleVars
<1>3. ASSUME ~VehicleReceives
      PROVE  UNCHANGED <<vehicleVars, regime>> /\ (toGcs' = toGcs \/ (toGcs /= <<>> /\ toGcs' = Tail(toGcs)))
  BY <1>3 DEF ProtocolNext, GroundOperation, GroundReceives, GroundTimesOut, LoseToVehicle,
              LoseToGcs, protocolVars
<1> QED
  BY <1>1, <1>2, <1>3

\* Only the operations of callers start a transaction.
LEMMA StepKeepsLoads ==
  ASSUME Base, [ProtocolNext]_protocolVars
  PROVE  OnlyReads'
<1>1. regime' = regime
  BY DEF ProtocolNext, GroundOperation, GroundReceives, GroundTimesOut, VehicleReceives,
         LoseToVehicle, LoseToGcs, protocolVars
<1>2. CASE transaction' \in {transaction, "None"}
  BY <1>1, <1>2 DEF Base, OnlyReads
<1>3. CASE GroundOperation
  <2> SUFFICES ASSUME regime.operations \subseteq {"Load"}
               PROVE  transaction' \in {"None", "Read"}
    BY <1>1 DEF OnlyReads
  <2>1. LoadFromVehicle
    BY <1>3 DEF GroundOperation
  <2> QED
    BY <2>1 DEF LoadFromVehicle, Begin
<1>4. CASE GroundReceives
  <2>1. PICK m : Receive(m) \/ UNCHANGED vars
    BY <1>4 DEF GroundReceives
  <2>2. transaction' \in {transaction, "None"}
    BY <2>1
       DEF Receive, HandleMissionCount, HandleMissionItem, HandleMissionRequest,
           HandleMissionAck, Ignore, DropItem, ReadTransactionComplete, FailTransaction,
           FinishTransaction, EndSession, session, vars, managerVars
  <2> QED
    BY <1>2, <2>2
<1>5. CASE GroundTimesOut
  <2>1. transaction' \in {transaction, "None"}
    BY <1>5
       DEF GroundTimesOut, AckTimeout, CountTimeout, ItemTimeout, WriteAbandoned,
           WriteCountTimeout, ClearAllTimeout, GuidedTimeout, GiveUp, FailTransaction,
           FinishTransaction, EndSession, session
  <2> QED
    BY <1>2, <2>1
<1>6. CASE VehicleReceives \/ LoseToVehicle \/ LoseToGcs \/ UNCHANGED protocolVars
  <2>1. transaction' = transaction
    BY <1>6
       DEF VehicleReceives, LoseToVehicle, LoseToGcs, protocolVars, vars, managerVars, session
  <2> QED
    BY <1>2, <2>1
<1> QED
  BY <1>3, <1>4, <1>5, <1>6 DEF ProtocolNext

LEMMA StepKeepsBase ==
  ASSUME Base, [ProtocolNext]_protocolVars
  PROVE  Base'
<1>1. IInv /\ TypeOK /\ ProtocolTypeOK
  BY DEF Base, IInv
<1> QED
  BY <1>1, StepKeepsManager, StepKeepsProtocolTypes, StepKeepsLoads DEF Base

LEMMA BaseStarts == ProtocolInit => Base
<1> SUFFICES ASSUME ProtocolInit PROVE Base
  OBVIOUS
<1>1. IInv /\ OnlyReads
  BY IInvInit DEF ProtocolInit, OnlyReads, Init
<1>2. \A t \in PlanTypes : vehicleItems[t] \in StoredPlans
  BY DEF ProtocolInit, MockLink!Init
<1>3. \A plan \in StoredPlans : IsPlan(plan)
  <2> SUFFICES ASSUME NEW plan \in StoredPlans PROVE IsPlan(plan)
    OBVIOUS
  <2> PICK n : n = Cardinality(DOMAIN plan)
    OBVIOUS
  <2>1. IsFiniteSet(DOMAIN plan) /\ n \in Nat
    BY StoredAssumption, FS_CardinalityType DEF IsStoredPlan
  <2>2. plan \in [0 .. n - 1 -> ItemType] /\ 0 .. n - 1 \subseteq Nat
    BY <2>1, StoredAssumption DEF IsStoredPlan
  <2> QED
    BY <2>1, <2>2 DEF IsPlan
<1>4. vehicleItems = [t \in PlanTypes |-> vehicleItems[t]]
  BY DEF ProtocolInit, MockLink!Init
<1>5. toGcs \in Seq(VehicleMessage)
  BY EmptySeq DEF ProtocolInit, MockLink!Init
<1> QED
  BY <1>1, <1>2, <1>3, <1>4, <1>5 DEF ProtocolInit, MockLink!Init, ProtocolTypeOK, Base
-----------------------------------------------------------------------------
(* The ground station, where the ack timer outlasts the links *)

VehicleSame == UNCHANGED <<vehicleVars, regime>>

\* What the ground station does leaves the vehicle's plan and mode.
LEMMA VehicleStays ==
  ASSUME VehicleSame
  PROVE  /\ vehiclePlan' = vehiclePlan /\ failureMode' = failureMode
         /\ writeSequenceIndex' = writeSequenceIndex /\ regime' = regime
         /\ Sound' = Sound /\ NoGap' = NoGap /\ WrongFirst' = WrongFirst
BY DEF VehicleSame, vehicleVars, vehiclePlan, Sound, HasNoGap, NoGap, WrongFirst

LEMMA GroundStep ==
  ASSUME PromptInv, VehicleSame, WriteState', Exchange', Sound => ReadState'
  PROVE  PromptInv'
BY VehicleStays DEF PromptInv

\* The end of a transaction leaves nothing to say.
LEMMA EndKeeps ==
  ASSUME TypeOK, PromptInv, VehicleSame, AcksOnly(toVehicle), toGcs' = <<>>,
         transaction' = "None",
         toVehicle' = toVehicle \/ \E m : Send(m) /\ m.kind = "Ack"
  PROVE  PromptInv'
<1>1. Exchange'
  <2>1. CASE toVehicle' = toVehicle
    BY <2>1, GroundIsQuiet
  <2>2. ASSUME NEW m, Send(m), m.kind = "Ack" PROVE Exchange'
    BY <2>2, GroundAsks DEF TypeOK
  <2> QED
    BY <2>1, <2>2
<1>2. WriteState' /\ ReadState'
  BY DEF WriteState, ReadState
<1> QED
  BY <1>1, <1>2, GroundStep

\* A message that changes nothing, or a request that is repeated
LEMMA SameStates ==
  ASSUME PromptInv, VehicleSame, UNCHANGED <<expectedAck, transaction, indices, lists>>
  PROVE  WriteState' /\ (Sound => ReadState')
<1>1. WriteState'
  BY VehicleStays DEF PromptInv, WriteState, ToWrite, indices, lists
<1>2. ASSUME Sound PROVE ReadState'
  BY <1>2, VehicleStays
     DEF PromptInv, ReadState, ReadInOrder, ReadCannotEnd, WrongRead, indices, lists
<1> QED
  BY <1>1, <1>2

LEMMA SameKeeps ==
  ASSUME TypeOK, PromptInv, VehicleSame, AcksOnly(toVehicle), toGcs' = <<>>,
         UNCHANGED <<expectedAck, transaction, indices, lists>>,
         toVehicle' = toVehicle \/ \E m : Send(m) /\ RequestOK(m)'
  PROVE  PromptInv'
<1>1. Exchange'
  <2>1. CASE toVehicle' = toVehicle
    BY <2>1, GroundIsQuiet
  <2>2. ASSUME NEW m, Send(m), RequestOK(m)' PROVE Exchange'
    BY <2>2, GroundAsks DEF TypeOK
  <2> QED
    BY <2>1, <2>2
<1> QED
  BY <1>1, SameStates, GroundStep

\* A transaction starts with a request.
LEMMA OperationKeeps ==
  ASSUME Base, PromptInv, GroundOperation
  PROVE  PromptInv'
<1>1. TypeOK /\ ProtocolTypeOK /\ VehicleSame /\ toGcs' = toGcs
  BY DEF Base, IInv, GroundOperation, VehicleSame
<1>2. ~InProgress
  BY DEF GroundOperation, LoadFromVehicle, WriteMissionItems, WriteResumeMission, StartWrite,
         RemoveAll, Begin
<1>3. AcksOnly(toVehicle) /\ toGcs' = <<>>
  BY <1>1, <1>2, QuietLinks DEF PromptInv
<1>4. CASE LoadFromVehicle
  <2> PICK m : m = [kind |-> "RequestList", mt |-> PlanType]
    OBVIOUS
  <2>1. Send(m) /\ transaction' = "Read" /\ expectedAck' = "MissionCount"
    BY <1>4 DEF LoadFromVehicle, RequestList, Begin, StartAckTimeout
  <2>2. RequestOK(m)'
    BY <2>1 DEF RequestOK, ReadRequest
  <2>3. WriteState' /\ ReadState'
    BY <2>1 DEF WriteState, ReadState
  <2> QED
    BY <1>1, <1>3, <2>1, <2>2, <2>3, GroundAsks, GroundStep DEF TypeOK
<1>5. ASSUME NEW list, StartWrite(list) PROVE PromptInv'
  <2> PICK m : m = [kind |-> "Count", mt |-> PlanType, n |-> Len(list)]
    OBVIOUS
  <2>1. /\ Send(m) /\ transaction' = "Write" /\ expectedAck' = "MissionRequest"
        /\ writeMissionItems' = list /\ itemIndicesToWrite' = 0 .. Len(list) - 1
    BY <1>5 DEF StartWrite, WriteMissionCount, Begin, StartAckTimeout
  <2>2. itemIndicesToWrite' = ToWrite'
    BY <2>1 DEF ToWrite
  <2>3. RequestOK(m)'
    BY <2>1, <2>2 DEF RequestOK, WriteRequest
  <2>4. WriteState' /\ ReadState'
    BY <2>1, <2>2 DEF WriteState, ReadState
  <2> QED
    BY <1>1, <1>3, <2>1, <2>3, <2>4, GroundAsks, GroundStep DEF TypeOK
<1>6. CASE RemoveAll
  <2> PICK m : m = [kind |-> "ClearAll", mt |-> PlanType]
    OBVIOUS
  <2>1. Send(m) /\ transaction' = "RemoveAll"
    BY <1>6 DEF RemoveAll, RemoveAllWorker, Begin
  <2>2. RequestOK(m)'
    BY <2>1 DEF RequestOK
  <2>3. WriteState' /\ ReadState'
    BY <2>1 DEF WriteState, ReadState
  <2> QED
    BY <1>1, <1>3, <2>1, <2>2, <2>3, GroundAsks, GroundStep DEF TypeOK
<1> QED
  BY <1>4, <1>5, <1>6 DEF GroundOperation, WriteMissionItems, WriteResumeMission

\* A timer that expires repeats the request, or gives up.
LEMMA TimeoutKeeps ==
  ASSUME Base, PromptInv, regime.prompt, GroundTimesOut
  PROVE  PromptInv'
<1>1. /\ TypeOK /\ ProtocolTypeOK /\ VehicleSame /\ toGcs' = <<>> /\ Control
      /\ toVehicle = <<>> /\ AckTimeout
  BY DEF Base, IInv, GroundTimesOut, VehicleSame
<1>2. AcksOnly(toVehicle)
  BY <1>1 DEF AcksOnly
<1>3. timerRunning
  BY <1>1 DEF AckTimeout, TimedOut, CountTimeout, ItemTimeout, WriteAbandoned,
              WriteCountTimeout, ClearAllTimeout, GuidedTimeout
<1>4. /\ expectedAck \in {"MissionCount", "MissionItem"} <=> transaction = "Read"
      /\ expectedAck \in {"MissionRequest", "GuidedItem"} <=> transaction = "Write"
      /\ expectedAck = "MissionClearAll" <=> transaction = "RemoveAll"
  BY <1>1, <1>3, WhatIsAwaited
<1>5. ASSUME GiveUp PROVE PromptInv'
  <2>1. transaction' = "None" /\ toVehicle' = toVehicle
    BY <1>5 DEF GiveUp, FailTransaction, FinishTransaction, EndSession
  <2> QED
    BY <1>1, <1>2, <2>1, EndKeeps
<1>6. CASE CountTimeout /\ ~GiveUp
  <2> PICK m : m = [kind |-> "RequestList", mt |-> PlanType]
    OBVIOUS
  <2>1. /\ Send(m) /\ expectedAck = "MissionCount" /\ expectedAck' = "MissionCount"
        /\ transaction' = transaction
    BY <1>6 DEF CountTimeout, TimedOut, RequestList, StartAckTimeout, session
  <2>2. RequestOK(m)'
    BY <1>4, <2>1 DEF RequestOK, ReadRequest
  <2>3. WriteState' /\ ReadState'
    BY <1>4, <2>1 DEF WriteState, ReadState
  <2> QED
    BY <1>1, <1>2, <2>1, <2>2, <2>3, GroundAsks, GroundStep DEF TypeOK
<1>7. CASE ItemTimeout /\ ~GiveUp
  <2>1. /\ RequestNextMissionItem(itemIndicesToRead) /\ expectedAck = "MissionItem"
        /\ UNCHANGED <<session, indices, lists>>
    BY <1>7 DEF ItemTimeout, TimedOut
  <2>2. PICK i \in itemIndicesToRead :
          /\ IsNext(i, itemIndicesToRead)
          /\ Send([kind |-> "Request", mt |-> PlanType, seq |-> i])
    BY <2>1 DEF RequestNextMissionItem
  <2> PICK m : m = [kind |-> "Request", mt |-> PlanType, seq |-> i]
    OBVIOUS
  <2>3. UNCHANGED <<expectedAck, transaction, indices, lists>> /\ Send(m)
    BY <2>1, <2>2 DEF RequestNextMissionItem, StartAckTimeout, session
  <2>4. RequestOK(m)'
    BY <1>4, <2>1, <2>2, <2>3 DEF RequestOK, ReadRequest, IsNext, indices
  <2> QED
    BY <1>1, <1>2, <2>3, <2>4, SameKeeps
<1>8. CASE WriteCountTimeout /\ ~GiveUp
  <2> PICK m : m = [kind |-> "Count", mt |-> PlanType, n |-> Len(writeMissionItems)]
    OBVIOUS
  <2>1. /\ Send(m) /\ expectedAck = "MissionRequest" /\ expectedAck' = "MissionRequest"
        /\ 0 \in itemIndicesToWrite /\ UNCHANGED <<session, indices, lists>>
    BY <1>8 DEF WriteCountTimeout, TimedOut, WriteMissionCount, StartAckTimeout
  <2>2. transaction = "Write" /\ UNCHANGED <<expectedAck, transaction, indices, lists>>
    BY <1>4, <2>1 DEF session
  <2>3. WrongFirst \/ itemIndicesToWrite = ToWrite
    BY <2>1, <2>2 DEF PromptInv, WriteState
  <2>4. WrongFirst' \/ itemIndicesToWrite' = ToWrite'
    BY <1>1, <2>2, <2>3, VehicleStays DEF ToWrite, indices, lists
  <2>5. RequestOK(m)'
    BY <2>2, <2>4 DEF RequestOK, WriteRequest, lists
  <2> QED
    BY <1>1, <1>2, <2>1, <2>2, <2>5, SameKeeps
<1>9. CASE ClearAllTimeout /\ ~GiveUp
  <2> PICK m : m = [kind |-> "ClearAll", mt |-> PlanType]
    OBVIOUS
  <2>1. /\ Send(m) /\ expectedAck = "MissionClearAll" /\ expectedAck' = "MissionClearAll"
        /\ UNCHANGED <<transaction, indices, lists>>
    BY <1>9 DEF ClearAllTimeout, TimedOut, RemoveAllWorker, StartAckTimeout
  <2>2. RequestOK(m)'
    BY <1>4, <2>1 DEF RequestOK
  <2> QED
    BY <1>1, <1>2, <2>1, <2>2, SameKeeps
<1>10. CASE WriteAbandoned \/ GuidedTimeout
  BY <1>5, <1>10 DEF WriteAbandoned, GuidedTimeout
<1> QED
  BY <1>1, <1>5, <1>6, <1>7, <1>8, <1>9, <1>10 DEF AckTimeout
-----------------------------------------------------------------------------
(* The ground station receives the one answer under way *)

\* An answer is taken off the link and handled; what is left is acknowledgements.
Received(a) ==
  /\ Base /\ PromptInv /\ VehicleSame
  /\ AcksOnly(toVehicle) /\ toGcs' = <<>>
  /\ a \in VehicleMessage /\ AnswerOK(a)
  /\ expectedAck \in {"MissionCount", "MissionItem"} <=> transaction = "Read"
  /\ expectedAck \in {"MissionRequest", "GuidedItem"} <=> transaction = "Write"

LEMMA ReceivedEnds ==
  ASSUME NEW a, Received(a), transaction' = "None",
         toVehicle' = toVehicle \/ \E m : Send(m) /\ m.kind = "Ack"
  PROVE  PromptInv'
BY EndKeeps DEF Received, Base, IInv

LEMMA ReceivedChangesNothing ==
  ASSUME NEW a, Received(a), UNCHANGED <<expectedAck, transaction, indices, lists, toVehicle>>
  PROVE  PromptInv'
BY SameKeeps DEF Received, Base, IInv

LEMMA ReadCompleteEnds ==
  ASSUME NEW items, ReadTransactionComplete(items)
  PROVE  transaction' = "None" /\ \E m : Send(m) /\ m.kind = "Ack"
<1> PICK m : m = [kind |-> "Ack", mt |-> PlanType, result |-> "Accepted"]
  OBVIOUS
<1>1. Send(m) /\ m.kind = "Ack"
  BY DEF ReadTransactionComplete
<1> QED
  BY <1>1 DEF ReadTransactionComplete, FinishTransaction, EndSession

\* The next item is asked for.
LEMMA NextIsAsked ==
  ASSUME NEW a, Received(a), transaction = "Read", transaction' = "Read",
         RequestNextMissionItem(itemIndicesToRead'), Sound => ReadState'
  PROVE  PromptInv'
<1> PICK toRead : toRead = itemIndicesToRead'
  OBVIOUS
<1>1. PICK i \in toRead : IsNext(i, toRead)
                          /\ Send([kind |-> "Request", mt |-> PlanType, seq |-> i])
  BY DEF RequestNextMissionItem
<1> PICK m : m = [kind |-> "Request", mt |-> PlanType, seq |-> i]
  OBVIOUS
<1>2. Send(m) /\ expectedAck' = "MissionItem"
  BY <1>1 DEF RequestNextMissionItem, StartAckTimeout
<1>3. RequestOK(m)'
  BY <1>1, <1>2 DEF RequestOK, ReadRequest, IsNext
<1>4. Exchange'
  BY <1>2, <1>3, GroundAsks DEF Received, Base, IInv, TypeOK
<1>5. WriteState'
  BY DEF WriteState
<1> QED
  BY <1>4, <1>5, GroundStep DEF Received

\* A set of the first numbers is known by its cardinality.
LEMMA FirstNumbers ==
  ASSUME NEW k \in Nat
  PROVE  Cardinality(0 .. k - 1) = k
<1>1. Cardinality(0 .. k - 1) = IF 0 > k - 1 THEN 0 ELSE (k - 1) - 0 + 1
  BY FS_Interval
<1> QED
  BY <1>1

LEMMA CountKeeps ==
  ASSUME NEW a, Received(a), a.kind = "Count", HandleMissionCount(a)
  PROVE  PromptInv'
<1>1. CASE Ignore
  BY <1>1, ReceivedChangesNothing DEF Ignore, ackTimer, session
<1>2. CASE a.n = 0 /\ ReadTransactionComplete(missionItems)
  BY <1>2, ReadCompleteEnds, ReceivedEnds
<1>3. CASE /\ expectedAck = "MissionCount" /\ UNCHANGED <<session, itemIndicesToWrite, lists>>
           /\ itemIndicesToRead' = itemIndicesToRead \cup 0 .. a.n - 1
           /\ RequestNextMissionItem(itemIndicesToRead \cup 0 .. a.n - 1)
  <2>1. transaction = "Read" /\ transaction' = "Read" /\ expectedAck' = "MissionItem"
    BY <1>3 DEF Received, session, RequestNextMissionItem, StartAckTimeout
  <2>2. missionItems = <<>> /\ itemIndicesToRead = {} /\ missionItems' = <<>>
    BY <1>3, <2>1 DEF Received, Base, IInv, ReadProgress, lists
  <2>3. itemIndicesToRead' = 0 .. a.n - 1
    BY <1>3, <2>2
  <2>4. ASSUME Sound PROVE ReadState'
    <3>1. a.n = Cardinality(DOMAIN vehiclePlan)
      BY <1>3, <2>1, <2>4 DEF Received, AnswerOK, ReadAnswer
    <3>2. PICK k \in Nat : DOMAIN vehiclePlan = 0 .. k - 1
      BY <2>4 DEF Received, PromptInv, NoGap
    <3>3. itemIndicesToRead' = 0 .. k - 1
      BY <2>3, <3>1, <3>2, FirstNumbers
    <3>4. vehiclePlan' = vehiclePlan
      BY VehicleStays DEF Received
    <3>5. Len(missionItems') = 0
      BY <2>2
    <3>6. ReadInOrder'
      BY <3>2, <3>3, <3>4, <3>5 DEF ReadInOrder
    <3> QED
      BY <3>2, <3>3, <3>4, <3>6 DEF ReadState
  <2> QED
    BY <1>3, <2>1, <2>4, NextIsAsked
<1> QED
  BY <1>1, <1>2, <1>3 DEF HandleMissionCount

\* The item read is the next of the plan, when the vehicle does not leave one out.
LEMMA ItemReadInOrder ==
  ASSUME TypeOK, ReadInOrder, NEW s \in itemIndicesToRead, IsNext(s, itemIndicesToRead),
         NEW item, item = vehiclePlan[s], vehiclePlan' = vehiclePlan,
         itemIndicesToRead' = itemIndicesToRead \ {s},
         missionItems' = Append(missionItems, [seq |-> s, item |-> FromVehicle(item)])
  PROVE  ReadInOrder'
<1> PICK e : e = [seq |-> s, item |-> FromVehicle(item)]
  OBVIOUS
<1> PICK n \in Nat : n = Len(missionItems)
  BY LenProperties DEF TypeOK
<1>1. PICK k \in Nat : DOMAIN vehiclePlan = 0 .. k - 1 /\ itemIndicesToRead = n .. k - 1
  BY DEF ReadInOrder
<1>2. s = n
  <2>1. n \in n .. k - 1
    BY <1>1
  <2> QED
    BY <1>1, <2>1 DEF IsNext
<1>3. itemIndicesToRead' = n + 1 .. k - 1
  BY <1>1, <1>2
<1>4. /\ Len(missionItems') = n + 1 /\ missionItems'[n + 1] = e
      /\ \A i \in 1 .. n : missionItems'[i] = missionItems[i]
  BY DEF TypeOK
<1>5. \A i \in 1 .. n + 1 :
        missionItems'[i] = [seq |-> i - 1, item |-> FromVehicle(vehiclePlan[i - 1])]
  <2>1. \A i \in 1 .. n :
          missionItems[i] = [seq |-> i - 1, item |-> FromVehicle(vehiclePlan[i - 1])]
    BY DEF ReadInOrder
  <2>2. \A i \in 1 .. n + 1 : i \in 1 .. n \/ i = n + 1
    OBVIOUS
  <2>3. n + 1 - 1 = s
    BY <1>2
  <2> QED
    BY <1>4, <2>1, <2>2, <2>3
<1> QED
  BY <1>1, <1>3, <1>4, <1>5 DEF ReadInOrder

LEMMA ItemKeeps ==
  ASSUME NEW a, Received(a), a.kind = "Item", HandleMissionItem(a)
  PROVE  PromptInv'
<1> PICK items : items = Append(missionItems, [seq |-> a.seq, item |-> FromVehicle(a.item)])
  OBVIOUS
<1> PICK toRead : toRead = itemIndicesToRead \ {a.seq}
  OBVIOUS
<1>1. CASE Ignore \/ UNCHANGED <<ackTimer, retryCount, session, indices, lists, toVehicle>>
  BY <1>1, ReceivedChangesNothing DEF Ignore, ackTimer, session
<1>2. CASE expectedAck = "MissionItem" /\ DropItem
  BY <1>2, ReceivedChangesNothing DEF DropItem, StartAckTimeout, session
<1>3. CASE ReadTransactionComplete(items)
  BY <1>3, ReadCompleteEnds, ReceivedEnds
<1>4. CASE /\ expectedAck = "MissionItem" /\ a.seq \in itemIndicesToRead
           /\ itemIndicesToRead' = toRead /\ missionItems' = items
           /\ RequestNextMissionItem(toRead)
           /\ UNCHANGED <<session, itemIndicesToWrite, writeMissionItems>>
  <2>1. transaction = "Read" /\ transaction' = "Read"
    BY <1>4 DEF Received, session
  <2>2. vehiclePlan' = vehiclePlan /\ failureMode' = failureMode
    BY VehicleStays DEF Received
  <2>3. ASSUME Sound PROVE ReadState'
    <3>1. /\ itemIndicesToRead \subseteq DOMAIN vehiclePlan
          /\ ReadInOrder \/ ReadCannotEnd
      BY <1>4, <2>1, <2>3 DEF Received, PromptInv, ReadState
    <3>2. PICK s \in itemIndicesToRead : IsNext(s, itemIndicesToRead) /\ ItemAnswers(a, s)
      BY <1>4, <2>1, <2>3 DEF Received, AnswerOK, ReadAnswer
    <3>3. s \in Nat
      BY DEF Received, Base, IInv, TypeOK
    <3>4. ASSUME NEW t \in itemIndicesToRead, WrongRead(t), t /= a.seq PROVE ReadCannotEnd'
      <4>1. t \in toRead
        BY <3>4
      <4> QED
        BY <1>4, <2>2, <3>4, <4>1 DEF ReadCannotEnd, WrongRead
    <3>5. CASE WrongRead(s)
      <4>1. a.seq = s + 1 /\ s /= a.seq
        BY <3>2, <3>3, <3>5 DEF ItemAnswers
      <4> QED
        BY <1>4, <2>2, <3>1, <3>4, <3>5, <4>1 DEF ReadState
    <3>6. CASE ~WrongRead(s)
      <4>1. a.seq = s /\ a.item = vehiclePlan[s]
        BY <3>2, <3>6 DEF ItemAnswers
      <4>2. ASSUME ReadCannotEnd PROVE ReadCannotEnd'
        BY <3>4, <3>6, <4>1, <4>2 DEF ReadCannotEnd
      <4>3. ASSUME ReadInOrder PROVE ReadInOrder'
        BY <1>4, <2>2, <3>2, <4>1, <4>3, ItemReadInOrder DEF Received, Base, IInv
      <4> QED
        BY <1>4, <2>2, <3>1, <4>2, <4>3 DEF ReadState
    <3> QED
      BY <3>5, <3>6
  <2> QED
    BY <1>4, <2>1, <2>3, NextIsAsked
<1> QED
  BY <1>1, <1>2, <1>3, <1>4 DEF HandleMissionItem, ItemWasRequested

\* The item asked for is sent.
LEMMA RequestKeeps ==
  ASSUME NEW a, Received(a), a.kind = "Request", HandleMissionRequest(a)
  PROVE  PromptInv'
<1>1. CASE Ignore
  BY <1>1, ReceivedChangesNothing DEF Ignore, ackTimer, session
<1>2. CASE AckReceived /\ FailTransaction(FALSE)
  BY <1>2, ReceivedEnds DEF FailTransaction, FinishTransaction, EndSession
<1>3. CASE /\ expectedAck = "MissionRequest" /\ ~(a.seq > Len(writeMissionItems) - 1)
           /\ itemIndicesToWrite' = itemIndicesToWrite \ {a.seq}
           /\ Send([kind |-> "Item", mt |-> PlanType, seq |-> a.seq, item |-> ItemToSend(a.seq)])
           /\ StartAckTimeout("MissionRequest")
           /\ UNCHANGED <<session, itemIndicesToRead, lists>>
  <2> PICK m : m = [kind |-> "Item", mt |-> PlanType, seq |-> a.seq, item |-> ItemToSend(a.seq)]
    OBVIOUS
  <2>1. /\ transaction = "Write" /\ transaction' = "Write" /\ expectedAck' = "MissionRequest"
        /\ writeMissionItems' = writeMissionItems
    BY <1>3 DEF Received, session, lists, StartAckTimeout
  <2>2. /\ HoldsSent({})
        /\ Sound => FilledTo(m.seq)
        /\ IF WrongFirst THEN a.seq /= 0 ELSE 0 \in itemIndicesToWrite => a.seq = 0
    BY <1>3, <2>1 DEF Received, AnswerOK, WriteAnswer
  <2>3. /\ itemIndicesToWrite \subseteq ToWrite
        /\ IF WrongFirst THEN 0 \in ToWrite => 0 \in itemIndicesToWrite
           ELSE 0 \in itemIndicesToWrite => itemIndicesToWrite = ToWrite
    BY <2>1 DEF Received, PromptInv, WriteState
  <2>4. /\ ToWrite' = ToWrite /\ WrongFirst' = WrongFirst /\ vehiclePlan' = vehiclePlan
        /\ Sound' = Sound /\ FilledTo(m.seq)' = FilledTo(m.seq)
    BY <2>1, VehicleStays DEF Received, ToWrite, FilledTo
  <2>5. a.seq \in ToWrite
    <3>1. a.seq \in Nat
      BY <1>3, MessageFields DEF Received
    <3>2. Len(writeMissionItems) \in Nat
      BY LenProperties DEF Received, Base, IInv, TypeOK
    <3> QED
      BY <1>3, <3>1, <3>2 DEF ToWrite
  <2>6. WriteState'
    BY <1>3, <2>1, <2>2, <2>3, <2>4 DEF WriteState
  <2>7. HoldsSent({m.seq})'
    <3>1. itemIndicesToWrite' = itemIndicesToWrite \ {m.seq}
      BY <1>3
    <3>2. ToWrite \ itemIndicesToWrite' \subseteq (ToWrite \ itemIndicesToWrite) \cup {m.seq}
      BY <3>1
    <3>3. WrongFirst' \/ ToWrite' \ itemIndicesToWrite' \subseteq DOMAIN vehiclePlan' \cup {m.seq}
      BY <2>2, <2>4, <3>2 DEF HoldsSent
    <3> QED
      BY <2>1, <2>2, <2>4, <3>3 DEF HoldsSent
  <2>8. RequestOK(m)'
    <3>1. m.kind = "Item" /\ m.mt = PlanType /\ m.seq = a.seq /\ m.item = writeMissionItems[m.seq + 1]
      BY DEF ItemToSend
    <3>2. m.seq \in ToWrite' \ itemIndicesToWrite'
      BY <1>3, <2>4, <2>5, <3>1
    <3>3. m.item = writeMissionItems'[m.seq + 1]
      BY <2>1, <3>1
    <3>4. Sound' => FilledTo(m.seq)'
      BY <2>2, <2>4, <3>1
    <3> QED
      BY <2>1, <2>7, <3>1, <3>2, <3>3, <3>4 DEF RequestOK, WriteRequest
  <2>9. Exchange'
    BY <1>3, <2>8, GroundAsks DEF Received, Base, IInv, TypeOK
  <2>10. ReadState'
    BY <2>1 DEF ReadState
  <2> QED
    BY <2>6, <2>9, <2>10, GroundStep DEF Received
<1> QED
  BY <1>1, <1>2, <1>3 DEF HandleMissionRequest

LEMMA AckKeeps ==
  ASSUME NEW a, Received(a), a.kind = "Ack", HandleMissionAck(a)
  PROVE  PromptInv'
<1>1. CASE Ignore
  BY <1>1, ReceivedChangesNothing DEF Ignore, ackTimer, session
<1>2. CASE UNCHANGED <<expectedAck, retryCount, session, indices, lists, toVehicle>>
  BY <1>2, ReceivedChangesNothing DEF session
<1>3. CASE transaction' = "None" /\ UNCHANGED toVehicle
  BY <1>3, ReceivedEnds
<1> QED
  BY <1>1, <1>2, <1>3 DEF HandleMissionAck, FinishTransaction, EndSession

\* The answer the ground station receives is the one to its request.
LEMMA TheOneAnswer ==
  ASSUME Base, PromptInv, GroundReceives
  PROVE  Received(Head(toGcs)) /\ Receive(Head(toGcs))
<1> PICK a : a = Head(toGcs)
  OBVIOUS
<1>1. TypeOK /\ Control /\ ProtocolTypeOK /\ VehicleSame /\ toGcs /= <<>> /\ Exchange
  BY DEF Base, IInv, GroundReceives, VehicleSame, PromptInv
<1>2. AcksOnly(toVehicle) /\ InProgress
  BY <1>1, QuietLinks
<1>3. connections > 0
  BY <1>1, <1>2 DEF Control, NoStuckTransaction
<1>4. toGcs' = <<>> /\ toGcs \in Seq(VehicleMessage) /\ 1 \in 1 .. Len(toGcs)
  <2>1. toGcs \in Seq(VehicleMessage) /\ \A i \in 1 .. Len(toGcs) : i = 1
    BY <1>1 DEF ProtocolTypeOK, Exchange
  <2>2. Len(toGcs) = 1 /\ Tail(toGcs) = <<>>
    BY <1>1, <2>1, OneAtMost
  <2> QED
    BY <2>1, <2>2 DEF GroundReceives
<1>5. a \in VehicleMessage /\ a = toGcs[1]
  BY <1>1, <1>4, WithoutFirst
<1>6. AnswerOK(a)
  BY <1>1, <1>4, <1>5 DEF Exchange
<1>7. Receive(a)
  BY <1>3 DEF GroundReceives
<1> QED
  BY <1>1, <1>2, <1>3, <1>4, <1>5, <1>6, <1>7, WhatIsAwaited DEF Received

LEMMA ReceivesKeeps ==
  ASSUME Base, PromptInv, GroundReceives
  PROVE  PromptInv'
<1> PICK a : a = Head(toGcs)
  OBVIOUS
<1>1. Received(a) /\ Receive(a)
  BY TheOneAnswer
<1> QED
  BY <1>1, CountKeeps, ItemKeeps, RequestKeeps, AckKeeps DEF Receive
-----------------------------------------------------------------------------
(* The vehicle serves the one request under way *)

\* A request is taken off the link, and nothing else is on it.
Served(m) ==
  /\ Base /\ PromptInv /\ UNCHANGED <<managerVars, regime>>
  /\ toGcs = <<>> /\ toVehicle' = <<>>
  /\ m \in GroundMessage /\ RequestOK(m)

\* The vehicle leaves the ground station as it is.
LEMMA GroundStays ==
  ASSUME UNCHANGED <<managerVars, regime>>
  PROVE  /\ transaction' = transaction /\ expectedAck' = expectedAck
         /\ itemIndicesToRead' = itemIndicesToRead /\ itemIndicesToWrite' = itemIndicesToWrite
         /\ missionItems' = missionItems /\ writeMissionItems' = writeMissionItems
         /\ regime' = regime /\ ToWrite' = ToWrite
BY DEF managerVars, ackTimer, session, indices, lists, ToWrite

LEMMA AnswerIsUnderWay ==
  ASSUME toGcs = <<>>, toVehicle' = <<>>,
         toGcs' = toGcs \/ \E r : Replies(r) /\ AnswerOK(r)'
  PROVE  Exchange'
<1>1. Len(toVehicle') = 0
  OBVIOUS
<1>2. CASE toGcs' = toGcs
  <2>1. Len(toGcs') = 0
    BY <1>2
  <2> QED
    BY <1>1, <2>1 DEF Exchange
<1>3. ASSUME NEW r, toGcs' = Append(toGcs, r), AnswerOK(r)' PROVE Exchange'
  <2>1. Len(toGcs') = 1 /\ toGcs'[1] = r
    BY <1>3
  <2>2. \A i \in 1 .. Len(toGcs') : i = 1
    BY <2>1
  <2> QED
    BY <1>1, <1>3, <2>1, <2>2 DEF Exchange
<1> QED
  BY <1>2, <1>3 DEF Replies

LEMMA ServedKeeps ==
  ASSUME NEW m, Served(m), failureMode' = failureMode,
         toGcs' = toGcs \/ \E r : Replies(r) /\ AnswerOK(r)',
         Sound => NoGap' /\ ReadState'
  PROVE  PromptInv'
<1>1. Exchange'
  BY AnswerIsUnderWay DEF Served
<1>2. WrongFirst' = WrongFirst /\ Sound' = Sound
  BY DEF WrongFirst, Sound, HasNoGap
<1>3. WriteState'
  BY <1>2, GroundStays DEF Served, PromptInv, WriteState
<1> QED
  BY <1>1, <1>2, <1>3 DEF PromptInv

\* What is replaced is the plan that is transferred.
LEMMA PlanIsReplaced ==
  ASSUME NEW m, Served(m), NEW plan, Replaces(m.mt, plan)
  PROVE  vehiclePlan' = plan
<1>1. m.mt = PlanType
  BY DEF Served, RequestOK
<1> QED
  BY <1>1, PlanTypeAssumption, PlanReplaced DEF Served, Base, ProtocolTypeOK, vehiclePlan

LEMMA EmptyHasNoGap ==
  ASSUME vehiclePlan' = MockLink!NoItems
  PROVE  NoGap' /\ DOMAIN vehiclePlan' = {}
<1>1. DOMAIN vehiclePlan' = 0 .. 0 - 1
  BY NoItemsIsPlan
<1> QED
  BY <1>1 DEF NoGap

\* Removal: the plan is emptied before it is said to be.
LEMMA ClearAllKeeps ==
  ASSUME NEW m, Served(m), m.kind = "ClearAll", ClearAllEffect(m)
  PROVE  PromptInv'
<1> PICK r : r = AckMessage(m.mt, "Accepted")
  OBVIOUS
<1>1. transaction = "RemoveAll" /\ transaction' = "RemoveAll"
  BY GroundStays DEF Served, RequestOK, ReadRequest, WriteRequest
<1>2. vehiclePlan' = MockLink!NoItems
  BY PlanIsReplaced DEF ClearAllEffect
<1>3. Replies(r) /\ AnswerOK(r)'
  BY <1>1, <1>2 DEF ClearAllEffect, AnswerOK, AckMessage
<1>4. NoGap' /\ ReadState'
  BY <1>1, <1>2, EmptyHasNoGap DEF ReadState
<1> QED
  BY <1>3, <1>4, ServedKeeps DEF ClearAllEffect

\* Reading: the items are counted.
LEMMA RequestListKeeps ==
  ASSUME NEW m, Served(m), m.kind = "RequestList", RequestListEffect(m)
  PROVE  PromptInv'
<1> PICK r : r = [kind |-> "Count", mt |-> m.mt, n |-> MockLink!StoredCount(m.mt)]
  OBVIOUS
<1>1. /\ transaction' = "Read" /\ expectedAck' = "MissionCount" /\ m.mt = PlanType
      /\ vehiclePlan' = vehiclePlan /\ failureMode' = failureMode
  BY GroundStays
     DEF Served, RequestOK, ReadRequest, WriteRequest, RequestListEffect, vehiclePlan
<1>2. Sound' = Sound /\ NoGap' = NoGap
  BY <1>1 DEF Sound, HasNoGap, NoGap
<1>3. ASSUME Sound PROVE r.n = Cardinality(DOMAIN vehiclePlan')
  BY <1>1, <1>3, SameCardinality DEF Sound, MockLink!StoredCount, vehiclePlan
<1>4. AnswerOK(r)'
  BY <1>1, <1>2, <1>3 DEF AnswerOK, ReadAnswer
<1>5. Sound => NoGap' /\ ReadState'
  BY <1>1, <1>2 DEF Served, PromptInv, ReadState
<1> QED
  BY <1>1, <1>4, <1>5, ServedKeeps DEF RequestListEffect

\* A zero item the vehicle stores behind its plan leaves no gap.
LEMMA StoredBehind ==
  ASSUME NoGap, NEW s \in DOMAIN vehiclePlan, s + 1 \notin DOMAIN vehiclePlan,
         DOMAIN vehiclePlan' = DOMAIN vehiclePlan \cup {s + 1}
  PROVE  NoGap'
<1>1. PICK k \in Nat : DOMAIN vehiclePlan = 0 .. k - 1
  BY DEF NoGap
<1>2. s \in 0 .. k - 1 /\ s + 1 \notin 0 .. k - 1
  BY <1>1
<1>3. s + 1 = k
  BY <1>2
<1>4. DOMAIN vehiclePlan' = 0 .. (k + 1) - 1
  BY <1>1, <1>3
<1> QED
  BY <1>4 DEF NoGap

\* Reading: an item is answered, the one asked for or the one after it.
LEMMA RequestAnswered ==
  ASSUME NEW m, Served(m), m.kind = "Request", UNCHANGED failureMode,
         NEW seq \in Nat, IF WrongRead(m.seq) THEN seq = m.seq + 1 ELSE seq = m.seq,
         MockLink!RespondWithItem(m.mt, seq)
  PROVE  PromptInv'
<1>1. /\ transaction' = "Read" /\ expectedAck' = "MissionItem" /\ m.mt = PlanType
      /\ transaction = "Read" /\ expectedAck = "MissionItem"
      /\ m.seq \in itemIndicesToRead /\ IsNext(m.seq, itemIndicesToRead)
      /\ itemIndicesToRead' = itemIndicesToRead
  BY GroundStays DEF Served, RequestOK, ReadRequest, WriteRequest
<1>2. ProtocolTypeOK /\ m.seq \in Nat
  BY GroundFields DEF Served, Base
<1>3. PICK item \in ItemType :
        /\ Replies([kind |-> "Item", mt |-> requestType, seq |-> seq, item |-> item])
        /\ \/ /\ UNCHANGED vehicleItems
              /\ SendHomePositionOnEmptyList = FALSE =>
                   seq \in DOMAIN vehicleItems[m.mt] /\ item = vehicleItems[m.mt][seq]
           \/ /\ seq \notin DOMAIN vehicleItems[m.mt]
              /\ Replaces(m.mt, MockLink!Store(vehicleItems[m.mt], seq, MockLink!ZeroItem))
  BY <1>1, <1>2, PlanTypeAssumption, ItemIsAnswered
<1> PICK r : r = [kind |-> "Item", mt |-> requestType, seq |-> seq, item |-> item]
  OBVIOUS
<1>4. vehiclePlan = vehicleItems[m.mt]
  BY <1>1 DEF vehiclePlan
<1>5. /\ Sound' = Sound /\ \A s : WrongRead(s)' = WrongRead(s)
      /\ missionItems' = missionItems
  BY GroundStays DEF Sound, HasNoGap, WrongRead, Served
<1>6. ASSUME Sound
      PROVE  NoGap' /\ ReadState' /\ ItemAnswers(r, m.seq)'
  <2>1. /\ NoGap /\ m.seq \in DOMAIN vehiclePlan /\ itemIndicesToRead \subseteq DOMAIN vehiclePlan
        /\ ReadInOrder \/ ReadCannotEnd
    BY <1>1, <1>6 DEF Served, PromptInv, ReadState
  <2>2. CASE /\ UNCHANGED vehicleItems
             /\ SendHomePositionOnEmptyList = FALSE =>
                  seq \in DOMAIN vehicleItems[m.mt] /\ item = vehicleItems[m.mt][seq]
    <3>1. seq \in DOMAIN vehiclePlan /\ item = vehiclePlan[seq] /\ vehiclePlan' = vehiclePlan
      BY <1>4, <1>6, <2>2 DEF Sound, vehiclePlan
    <3>2. NoGap' /\ ReadState'
      BY <1>1, <1>5, <2>1, <3>1 DEF NoGap, ReadState, ReadInOrder, ReadCannotEnd
    <3>3. ItemAnswers(r, m.seq)'
      BY <1>5, <3>1 DEF ItemAnswers
    <3> QED
      BY <3>2, <3>3
  <2>3. CASE /\ seq \notin DOMAIN vehicleItems[m.mt]
             /\ Replaces(m.mt, MockLink!Store(vehicleItems[m.mt], seq, MockLink!ZeroItem))
    <3>1. WrongRead(m.seq) /\ seq = m.seq + 1
      BY <1>4, <2>1, <2>3
    <3>2. vehiclePlan' = MockLink!Store(vehiclePlan, seq, MockLink!ZeroItem)
      BY <1>4, <2>3, PlanIsReplaced
    <3>3. DOMAIN vehiclePlan' = DOMAIN vehiclePlan \cup {m.seq + 1}
      BY <3>1, <3>2 DEF MockLink!Store
    <3>4. NoGap'
      BY <1>4, <2>1, <2>3, <3>1, <3>3, StoredBehind
    <3>5. ReadCannotEnd'
      BY <1>1, <1>5, <3>1 DEF ReadCannotEnd
    <3>6. ReadState'
      BY <1>1, <2>1, <3>3, <3>5 DEF ReadState
    <3>7. ItemAnswers(r, m.seq)'
      BY <1>5, <3>1 DEF ItemAnswers
    <3> QED
      BY <3>4, <3>6, <3>7
  <2> QED
    BY <1>3, <2>2, <2>3
<1>7. AnswerOK(r)'
  BY <1>1, <1>5, <1>6 DEF AnswerOK, ReadAnswer, IsNext
<1> QED
  BY <1>3, <1>6, <1>7, ServedKeeps

LEMMA RequestServed ==
  ASSUME NEW m, Served(m), m.kind = "Request", RequestEffect(m)
  PROVE  PromptInv'
<1>1. CASE UNCHANGED vehicleItems /\ (toGcs' = toGcs \/ Replies(AckMessage(requestType, "Error")))
  <2> PICK r : r = AckMessage(requestType, "Error")
    OBVIOUS
  <2>1. transaction' = "Read" /\ transaction = "Read"
    BY GroundStays DEF Served, RequestOK, ReadRequest, WriteRequest
  <2>2. AnswerOK(r)'
    BY <2>1 DEF AnswerOK, ReadAnswer, AckMessage
  <2>3. vehiclePlan' = vehiclePlan /\ failureMode' = failureMode
    BY <1>1 DEF RequestEffect, vehiclePlan
  <2>4. Sound => NoGap' /\ ReadState'
    BY <2>3, GroundStays
       DEF Served, PromptInv, NoGap, ReadState, ReadInOrder, ReadCannotEnd, WrongRead
  <2> QED
    BY <1>1, <2>2, <2>3, <2>4, ServedKeeps
<1>2. m.seq \in Nat /\ m.seq + 1 \in Nat
  BY GroundFields DEF Served
<1> QED
  BY <1>1, <1>2, RequestAnswered DEF RequestEffect

\* Writing: the plan is emptied, and its first item asked for.
LEMMA CountServed ==
  ASSUME NEW m, Served(m), m.kind = "Count", CountEffect(m)
  PROVE  PromptInv'
<1>1. /\ transaction' = "Write" /\ transaction = "Write" /\ m.n = Len(writeMissionItems)
      /\ WrongFirst \/ itemIndicesToWrite = ToWrite
  BY GroundStays DEF Served, RequestOK, ReadRequest, WriteRequest
<1>2. /\ itemIndicesToWrite' = itemIndicesToWrite /\ ToWrite' = ToWrite
      /\ failureMode' = failureMode /\ WrongFirst' = WrongFirst /\ Sound' = Sound
  BY GroundStays DEF Served, CountEffect, WrongFirst, Sound, HasNoGap
<1>3. NoGap' /\ DOMAIN vehiclePlan' = {}
  BY PlanIsReplaced, EmptyHasNoGap DEF CountEffect
<1>4. HoldsSent({})'
  <2>1. WrongFirst' \/ ToWrite' \ itemIndicesToWrite' \subseteq {}
    BY <1>1, <1>2
  <2> QED
    BY <1>3, <2>1 DEF HoldsSent
<1>5. Sound => NoGap' /\ ReadState'
  BY <1>1, <1>3 DEF ReadState
<1>6. ASSUME NEW r, r.kind = "Ack" PROVE AnswerOK(r)'
  BY <1>1, <1>4, <1>6 DEF AnswerOK, WriteAnswer
<1>7. ASSUME NEW seq, writeSequenceIndex' = 0,
             IF WrongWrite(0) THEN seq = 0 + 1 ELSE seq = 0
      PROVE  AnswerOK(RequestMessage(m.mt, seq))'
  <2> PICK r : r = RequestMessage(m.mt, seq)
    OBVIOUS
  <2>1. r.kind = "Request" /\ r.seq = seq
    BY DEF RequestMessage
  <2>2. IF WrongFirst' THEN r.seq /= 0 ELSE 0 \in itemIndicesToWrite' => r.seq = 0
    BY <1>2, <1>7, <2>1 DEF WrongWrite, WrongFirst
  <2>3. ASSUME Sound' PROVE FilledTo(r.seq)'
    <3>1. r.seq = 0
      BY <1>2, <1>7, <2>1, <2>3 DEF Sound, HasNoGap, WrongWrite
    <3>2. DOMAIN vehiclePlan' = 0 .. 0 - 1
      BY <1>3
    <3> QED
      BY <1>7, <3>1, <3>2 DEF FilledTo
  <2>4. AnswerOK(r)'
    BY <1>1, <1>4, <2>1, <2>2, <2>3 DEF AnswerOK, WriteAnswer
  <2> QED
    BY <2>4
<1>8. CASE toGcs' = toGcs
  BY <1>2, <1>5, <1>8, ServedKeeps
<1>9. ASSUME NEW result, Replies(AckMessage(m.mt, result)) PROVE PromptInv'
  <2> PICK r : r = AckMessage(m.mt, result)
    OBVIOUS
  <2>1. Replies(r) /\ AnswerOK(r)'
    BY <1>6, <1>9 DEF AckMessage
  <2> QED
    BY <1>2, <1>5, <2>1, ServedKeeps
<1>10. CASE writeSequenceIndex' = 0 /\ Asks(m.mt, 0)
  <2>1. ASSUME NEW seq, Replies(RequestMessage(m.mt, seq)),
               IF WrongWrite(0) THEN seq = 0 + 1 ELSE seq = 0
        PROVE  PromptInv'
    <3> PICK r : r = RequestMessage(m.mt, seq)
      OBVIOUS
    <3>1. AnswerOK(r)'
      BY <1>7, <1>10, <2>1
    <3> QED
      BY <1>2, <1>5, <2>1, <3>1, ServedKeeps
  <2> QED
    BY <1>8, <1>9, <1>10, <2>1 DEF Asks
<1> QED
  BY <1>8, <1>9, <1>10 DEF CountEffect

\* Writing: the item sent is stored, and the next one asked for.
LEMMA ItemServed ==
  ASSUME NEW m, Served(m), m.kind = "Item", ItemEffect(m)
  PROVE  PromptInv'
<1>1. /\ transaction' = "Write" /\ transaction = "Write"
      /\ m.seq \in ToWrite \ itemIndicesToWrite /\ m.item = writeMissionItems[m.seq + 1]
      /\ HoldsSent({m.seq})
      /\ Sound => FilledTo(m.seq)
  BY GroundStays DEF Served, RequestOK, ReadRequest, WriteRequest
<1>2. /\ itemIndicesToWrite' = itemIndicesToWrite /\ ToWrite' = ToWrite
      /\ writeMissionItems' = writeMissionItems
      /\ failureMode' = failureMode /\ WrongFirst' = WrongFirst /\ Sound' = Sound
  BY GroundStays DEF Served, ItemEffect, WrongFirst, Sound, HasNoGap
<1>3. /\ m.seq \in Nat /\ m.item \in ItemType /\ m.mt = PlanType
      /\ writeSequenceIndex \in Nat /\ IsPlan(vehiclePlan)
  BY GroundFields, PlanTypeAssumption
     DEF Served, Base, ProtocolTypeOK, vehiclePlan, RequestOK
<1>4. vehiclePlan' = MockLink!Store(vehiclePlan, m.seq, m.item)
  BY <1>3, PlanIsReplaced DEF ItemEffect, vehiclePlan
<1>5. /\ DOMAIN vehiclePlan' = DOMAIN vehiclePlan \cup {m.seq}
      /\ vehiclePlan'[m.seq] = m.item
      /\ \A s \in DOMAIN vehiclePlan : s /= m.seq => vehiclePlan'[s] = vehiclePlan[s]
  <2> PICK D : D = DOMAIN vehiclePlan \cup {m.seq}
    OBVIOUS
  <2>1. vehiclePlan' = [s \in D |-> IF s = m.seq THEN m.item ELSE vehiclePlan[s]]
    BY <1>4 DEF MockLink!Store
  <2>2. m.seq \in D /\ \A s \in DOMAIN vehiclePlan : s \in D
    OBVIOUS
  <2> QED
    BY <2>1, <2>2
<1>6. HoldsSent({})'
  <2>1. /\ DOMAIN vehiclePlan \subseteq ToWrite
        /\ \A s \in DOMAIN vehiclePlan : vehiclePlan[s] = writeMissionItems[s + 1]
        /\ WrongFirst \/ ToWrite \ itemIndicesToWrite \subseteq DOMAIN vehiclePlan \cup {m.seq}
    BY <1>1 DEF HoldsSent
  <2>2. DOMAIN vehiclePlan' \subseteq ToWrite
    BY <1>1, <1>5, <2>1
  <2>3. \A s \in DOMAIN vehiclePlan' : vehiclePlan'[s] = writeMissionItems[s + 1]
    BY <1>1, <1>5, <2>1
  <2>4. WrongFirst \/ ToWrite \ itemIndicesToWrite \subseteq DOMAIN vehiclePlan'
    BY <1>5, <2>1
  <2> QED
    BY <1>2, <2>2, <2>3, <2>4 DEF HoldsSent
<1> PICK next : next = writeSequenceIndex + 1
  OBVIOUS
<1>7. next \in Nat /\ next /= 0 /\ writeSequenceIndex' = next
  BY <1>3 DEF ItemEffect
<1>8. ASSUME Sound PROVE FilledTo(next)' /\ NoGap'
  <2>1. writeSequenceIndex = m.seq /\ DOMAIN vehiclePlan = 0 .. m.seq - 1
    BY <1>1, <1>8 DEF FilledTo
  <2>2. next = m.seq + 1 /\ DOMAIN vehiclePlan' = 0 .. next - 1
    BY <1>3, <1>5, <2>1
  <2> QED
    BY <1>7, <2>2 DEF FilledTo, NoGap
<1>9. Sound => NoGap' /\ ReadState'
  BY <1>1, <1>8 DEF ReadState
<1>10. CASE toGcs' = toGcs
  BY <1>2, <1>9, <1>10, ServedKeeps
<1>11. ASSUME NEW result, Replies(AckMessage(requestType, result)) PROVE PromptInv'
  <2> PICK r : r = AckMessage(requestType, result)
    OBVIOUS
  <2>1. Replies(r) /\ AnswerOK(r)'
    BY <1>1, <1>6, <1>11 DEF AckMessage, AnswerOK, WriteAnswer
  <2> QED
    BY <1>2, <1>9, <2>1, ServedKeeps
<1>12. ASSUME NEW seq, Replies(RequestMessage(requestType, seq)),
              IF WrongWrite(next) THEN seq = next + 1 ELSE seq = next
       PROVE  PromptInv'
  <2> PICK r : r = RequestMessage(requestType, seq)
    OBVIOUS
  <2>1. r.kind = "Request" /\ r.seq = seq
    BY DEF RequestMessage
  <2>2. seq /= 0
    BY <1>7, <1>12
  <2>3. ~WrongFirst => 0 \notin itemIndicesToWrite
    BY <1>1 DEF Served, PromptInv, WriteState
  <2>4. ASSUME Sound' PROVE FilledTo(r.seq)'
    <3>1. WrongWrite(next) = FALSE
      BY <1>2, <2>4 DEF Sound, HasNoGap, WrongWrite
    <3>2. r.seq = next
      BY <1>12, <2>1, <3>1
    <3> QED
      BY <1>2, <1>8, <2>4, <3>2
  <2>5. IF WrongFirst' THEN r.seq /= 0 ELSE 0 \in itemIndicesToWrite' => r.seq = 0
    BY <1>2, <2>1, <2>2, <2>3
  <2>6. AnswerOK(r)'
    BY <1>1, <1>6, <2>1, <2>4, <2>5 DEF AnswerOK, WriteAnswer
  <2> QED
    BY <1>2, <1>9, <1>12, <2>6, ServedKeeps
<1> QED
  BY <1>10, <1>11, <1>12 DEF ItemEffect, Asks

\* A message taken off a link, with nothing else changed, is not missed.
LEMMA TakenKeeps ==
  ASSUME Base, PromptInv, UNCHANGED <<managerVars, vehicleVars, toGcs, regime>>,
         \/ UNCHANGED toVehicle
         \/ toVehicle /= <<>> /\ toVehicle' = Tail(toVehicle)
  PROVE  PromptInv'
<1>1. /\ VehicleSame /\ transaction' = transaction /\ expectedAck' = expectedAck
      /\ UNCHANGED <<expectedAck, transaction, indices, lists>> /\ toGcs' = toGcs
  BY GroundStays DEF VehicleSame, indices, lists
<1>2. WriteState' /\ (Sound => ReadState')
  BY <1>1, SameStates
<1>3. \A s : HoldsSent(s)' = HoldsSent(s)
  BY <1>1, GroundStays, VehicleStays DEF HoldsSent
<1>4. \A s : FilledTo(s)' = FilledTo(s)
  BY <1>1, VehicleStays DEF FilledTo
<1>5. \A s : WrongRead(s)' = WrongRead(s)
  BY <1>1, VehicleStays DEF WrongRead
<1>6. /\ itemIndicesToRead' = itemIndicesToRead /\ itemIndicesToWrite' = itemIndicesToWrite
      /\ writeMissionItems' = writeMissionItems /\ ToWrite' = ToWrite
      /\ vehiclePlan' = vehiclePlan /\ Sound' = Sound /\ WrongFirst' = WrongFirst
  BY <1>1, GroundStays, VehicleStays
<1>7. ASSUME NEW m, RequestOK(m) PROVE RequestOK(m)'
  BY <1>1, <1>3, <1>4, <1>6, <1>7 DEF RequestOK, ReadRequest, WriteRequest
<1>8. ASSUME NEW a, AnswerOK(a) PROVE AnswerOK(a)'
  BY <1>1, <1>3, <1>4, <1>5, <1>6, <1>8
     DEF AnswerOK, ReadAnswer, WriteAnswer, ItemAnswers
<1>9. \A i \in 1 .. Len(toGcs') : i = 1 /\ AnswerOK(toGcs[i])'
  BY <1>1, <1>8 DEF PromptInv, Exchange
<1>10. \A i \in 1 .. Len(toVehicle) : toVehicle[i].kind /= "Ack" =>
         i = Len(toVehicle) /\ toGcs = <<>> /\ \E m : m = toVehicle[i] /\ RequestOK(m)'
  BY <1>7 DEF PromptInv, Exchange
<1>11. \A i \in 1 .. Len(toVehicle') : toVehicle'[i].kind /= "Ack" =>
         i = Len(toVehicle') /\ toGcs' = <<>> /\ \E m : m = toVehicle'[i] /\ RequestOK(m)'
  <2>1. CASE UNCHANGED toVehicle
    BY <1>1, <1>10, <2>1
  <2>2. CASE toVehicle /= <<>> /\ toVehicle' = Tail(toVehicle)
    <3>1. /\ Len(toVehicle') = Len(toVehicle) - 1 /\ Len(toVehicle) \in Nat
          /\ \A i \in 1 .. Len(toVehicle') :
               i + 1 \in 1 .. Len(toVehicle) /\ toVehicle'[i] = toVehicle[i + 1]
      BY <2>2, WithoutFirst, LenProperties DEF Base, IInv, TypeOK
    <3>2. \A i \in 1 .. Len(toVehicle') : i + 1 = Len(toVehicle) => i = Len(toVehicle')
      BY <3>1
    <3>3. ASSUME NEW i \in 1 .. Len(toVehicle'), toVehicle'[i].kind /= "Ack"
          PROVE  i = Len(toVehicle') /\ toGcs' = <<>>
                 /\ \E m : m = toVehicle'[i] /\ RequestOK(m)'
      <4> PICK j : j = i + 1
        OBVIOUS
      <4>1. j \in 1 .. Len(toVehicle) /\ toVehicle'[i] = toVehicle[j]
        BY <3>1
      <4>2. /\ j = Len(toVehicle) /\ toGcs = <<>>
            /\ \E m : m = toVehicle[j] /\ RequestOK(m)'
        BY <1>10, <3>3, <4>1
      <4> QED
        BY <1>1, <3>2, <4>1, <4>2
    <3> QED
      BY <3>3
  <2> QED
    BY <2>1, <2>2
<1>12. Exchange'
  BY <1>1, <1>9, <1>11 DEF Exchange
<1> QED
  BY <1>1, <1>2, <1>12, GroundStep

LEMMA VehicleKeeps ==
  ASSUME Base, PromptInv, VehicleReceives
  PROVE  PromptInv'
<1> PICK m : m = Head(toVehicle)
  OBVIOUS
<1>1. /\ toVehicle \in Seq(GroundMessage) /\ toVehicle /= <<>> /\ toVehicle' = Tail(toVehicle)
      /\ UNCHANGED <<managerVars, regime>> /\ MockLink!HandleMessage(m)
  BY DEF Base, IInv, TypeOK, VehicleReceives
<1>2. m = toVehicle[1] /\ m \in GroundMessage /\ Len(toVehicle) \in Nat /\ Len(toVehicle) >= 1
  BY <1>1, WithoutFirst
<1>3. CASE m.kind = "Ack"
  <2>1. UNCHANGED <<vehicleVars, toGcs>>
    BY <1>1, <1>3, VehicleEffects
  <2> QED
    BY <1>1, <2>1, TakenKeeps
<1>4. CASE m.kind /= "Ack"
  <2>1. 1 \in 1 .. Len(toVehicle)
    BY <1>2
  <2>2. Len(toVehicle) = 1 /\ toGcs = <<>> /\ RequestOK(m)
    BY <1>2, <1>4, <2>1 DEF PromptInv, Exchange
  <2>3. Tail(toVehicle) = <<>>
    <3>1. \A i \in 1 .. Len(toVehicle) : i = 1
      BY <2>2
    <3> QED
      BY <1>1, <3>1, OneAtMost
  <2>4. Served(m)
    BY <1>1, <1>2, <2>2, <2>3 DEF Served
  <2> QED
    BY <1>1, <1>4, <2>4, VehicleEffects, ClearAllKeeps, RequestListKeeps, RequestServed,
       CountServed, ItemServed
<1> QED
  BY <1>3, <1>4

LEMMA LosesAnswer ==
  ASSUME Base, PromptInv, LoseToGcs
  PROVE  PromptInv'
<1>1. /\ TypeOK /\ ProtocolTypeOK /\ Exchange /\ toGcs /= <<>> /\ VehicleSame
      /\ UNCHANGED vars /\ toGcs' = Tail(toGcs)
  BY DEF Base, IInv, PromptInv, LoseToGcs, VehicleSame
<1>2. AcksOnly(toVehicle)
  BY <1>1, QuietLinks
<1>3. toGcs' = <<>>
  <2>1. toGcs \in Seq(VehicleMessage) /\ \A i \in 1 .. Len(toGcs) : i = 1
    BY <1>1 DEF ProtocolTypeOK, Exchange
  <2> QED
    BY <1>1, <2>1, OneAtMost
<1>4. UNCHANGED <<expectedAck, transaction, indices, lists, toVehicle>>
  BY <1>1 DEF vars, managerVars, ackTimer, session
<1> QED
  BY <1>1, <1>2, <1>3, <1>4, SameKeeps

LEMMA StepKeepsExchange ==
  ASSUME Base, PromptInv, regime.prompt, [ProtocolNext]_protocolVars
  PROVE  PromptInv'
<1>1. CASE LoseToVehicle \/ UNCHANGED protocolVars
  <2>1. /\ UNCHANGED <<managerVars, vehicleVars, toGcs, regime>>
        /\ UNCHANGED toVehicle \/ (toVehicle /= <<>> /\ toVehicle' = Tail(toVehicle))
    BY <1>1 DEF LoseToVehicle, protocolVars, vars
  <2> QED
    BY <2>1, TakenKeeps
<1> QED
  BY <1>1, OperationKeeps, ReceivesKeeps, TimeoutKeeps, VehicleKeeps, LosesAnswer DEF ProtocolNext

\* At first nothing is under way, and what is stored is numbered from 0.
LEMMA StoredHasNoGap ==
  ASSUME ProtocolInit
  PROVE  NoGap
<1>1. vehiclePlan \in StoredPlans
  BY PlanTypeAssumption DEF ProtocolInit, MockLink!Init, vehiclePlan
<1> PICK k : k = Cardinality(DOMAIN vehiclePlan)
  OBVIOUS
<1>2. k \in Nat /\ DOMAIN vehiclePlan = 0 .. k - 1
  BY <1>1, StoredAssumption, FS_CardinalityType DEF IsStoredPlan
<1> QED
  BY <1>2 DEF NoGap

LEMMA ExchangeStarts ==
  ASSUME ProtocolInit
  PROVE  PromptInv
<1>1. transaction = "None" /\ toVehicle = <<>> /\ toGcs = <<>>
  BY DEF ProtocolInit, Init, MockLink!Init
<1>2. Len(toVehicle) = 0 /\ Len(toGcs) = 0
  BY <1>1
<1>3. WriteState /\ Exchange /\ ReadState
  BY <1>1, <1>2 DEF WriteState, Exchange, ReadState
<1> QED
  BY <1>3, StoredHasNoGap DEF PromptInv

LEMMA ProtocolInvStep ==
  ASSUME ProtocolInv, [ProtocolNext]_protocolVars
  PROVE  ProtocolInv'
<1>1. regime' = regime
  BY DEF ProtocolNext, GroundOperation, GroundReceives, GroundTimesOut, VehicleReceives,
         LoseToVehicle, LoseToGcs, protocolVars
<1> QED
  BY <1>1, StepKeepsBase, StepKeepsExchange DEF ProtocolInv

\* Whatever is lost, repeated or failed on purpose: while the ack timer outlasts
\* the links one request or the answer to it is under way, and the answer tells
\* what the vehicle then holds.  PlanManager can rely on it though it compares
\* no answer with what it asked for but by kind and number.
THEOREM ExchangeInvariance == ProtocolSpec => []ProtocolInv
<1>1. ProtocolInit => ProtocolInv
  BY BaseStarts, ExchangeStarts DEF ProtocolInv
<1>2. ProtocolInv /\ [ProtocolNext]_protocolVars => ProtocolInv'
  BY ProtocolInvStep
<1> QED
  BY <1>1, <1>2, PTL DEF ProtocolSpec
-----------------------------------------------------------------------------
(* A removal that begins with nothing under way, in every regime *)

ClearRequest == [kind |-> "ClearAll", mt |-> PlanType]

\* Only requests to remove the plan and acknowledgements of them are under way; one
\* of these says that the plan is gone.
OnlyRemovals ==
  /\ toVehicle \in Seq({ClearRequest})
  /\ toGcs \in Seq({AckMessage(PlanType, "Accepted")})
  /\ toGcs /= <<>> => vehiclePlan = MockLink!NoItems

RemovalInv == transaction = "RemoveAll" /\ begunAfresh => OnlyRemovals

\* A transaction that is not begun goes on or ends.
LEMMA NotBegun ==
  ASSUME [ProtocolNext]_protocolVars, ~GroundOperation
  PROVE  transaction' \in {transaction, "None"} /\ begunAfresh' = begunAfresh
<1>1. begunAfresh' = begunAfresh
  BY DEF ProtocolNext, GroundReceives, GroundTimesOut, VehicleReceives, LoseToVehicle,
         LoseToGcs, protocolVars
<1>2. CASE GroundReceives
  <2>1. PICK m : Receive(m) \/ UNCHANGED vars
    BY <1>2 DEF GroundReceives
  <2>2. transaction' \in {transaction, "None"}
    BY <2>1
       DEF Receive, HandleMissionCount, HandleMissionItem, HandleMissionRequest,
           HandleMissionAck, Ignore, DropItem, ReadTransactionComplete, FailTransaction,
           FinishTransaction, EndSession, session, vars, managerVars
  <2> QED
    BY <1>1, <2>2
<1>3. CASE GroundTimesOut
  <2>1. transaction' \in {transaction, "None"}
    BY <1>3
       DEF GroundTimesOut, AckTimeout, CountTimeout, ItemTimeout, WriteAbandoned,
           WriteCountTimeout, ClearAllTimeout, GuidedTimeout, GiveUp, FailTransaction,
           FinishTransaction, EndSession, session
  <2> QED
    BY <1>1, <2>1
<1>4. CASE VehicleReceives \/ LoseToVehicle \/ LoseToGcs \/ UNCHANGED protocolVars
  <2>1. transaction' = transaction
    BY <1>4
       DEF VehicleReceives, LoseToVehicle, LoseToGcs, protocolVars, vars, managerVars, session
  <2> QED
    BY <1>1, <2>1
<1> QED
  BY <1>2, <1>3, <1>4 DEF ProtocolNext

\* The removal begins: its request is alone, or lost with a link that is full.
LEMMA RemovalBegins ==
  ASSUME GroundOperation, transaction' = "RemoveAll", begunAfresh'
  PROVE  OnlyRemovals'
<1>1. RemoveAll
  BY DEF GroundOperation, LoadFromVehicle, WriteMissionItems, WriteResumeMission, StartWrite, Begin
<1>2. toVehicle = <<>> /\ toGcs = <<>> /\ toGcs' = toGcs
  BY DEF GroundOperation
<1>3. Send(ClearRequest)
  BY <1>1 DEF RemoveAll, RemoveAllWorker, ClearRequest
<1>4. toVehicle' = <<>> \/ toVehicle' = <<ClearRequest>>
  BY <1>2, <1>3 DEF Send
<1>5. <<>> \in Seq({ClearRequest}) /\ <<ClearRequest>> \in Seq({ClearRequest})
  OBVIOUS
<1>6. toGcs' \in Seq({AckMessage(PlanType, "Accepted")})
  BY <1>2
<1> QED
  BY <1>2, <1>4, <1>5, <1>6 DEF OnlyRemovals

\* The removal goes on: the ground station repeats its request or takes an answer.
LEMMA RemovalGoesOn ==
  ASSUME Base, OnlyRemovals, transaction = "RemoveAll", transaction' = "RemoveAll",
         GroundReceives \/ GroundTimesOut
  PROVE  OnlyRemovals'
<1>1. vehiclePlan' = vehiclePlan
  BY DEF GroundReceives, GroundTimesOut, vehicleVars, vehiclePlan
<1>2. CASE GroundReceives
  <2>1. /\ toGcs \in Seq({AckMessage(PlanType, "Accepted")}) /\ toGcs /= <<>>
        /\ toGcs' = Tail(toGcs)
    BY <1>2 DEF OnlyRemovals, GroundReceives
  <2>2. toGcs' \in Seq({AckMessage(PlanType, "Accepted")})
    BY <2>1, WithoutFirst
  <2>3. Head(toGcs).kind = "Ack"
    BY <2>1, WithoutFirst DEF AckMessage
  <2>4. HandleMissionAck(Head(toGcs)) \/ UNCHANGED vars
    BY <1>2, <2>3 DEF GroundReceives, Receive
  <2>5. toVehicle' = toVehicle
    BY <2>4 DEF HandleMissionAck, Ignore, vars
  <2> QED
    BY <1>1, <2>1, <2>2, <2>5 DEF OnlyRemovals
<1>3. CASE GroundTimesOut
  <2>1. expectedAck = "MissionClearAll"
    BY DEF Base, IInv, Control, NoStuckTransaction, InProgress, AcksOf
  <2>2. ClearAllTimeout /\ toGcs' = toGcs
    BY <1>3, <2>1 DEF GroundTimesOut, AckTimeout, CountTimeout, ItemTimeout, WriteAbandoned,
                      WriteCountTimeout, GuidedTimeout, TimedOut
  <2>3. RemoveAllWorker
    BY <2>2 DEF ClearAllTimeout, GiveUp, FailTransaction, FinishTransaction, EndSession
  <2>4. Send(ClearRequest)
    BY <2>3 DEF RemoveAllWorker, ClearRequest
  <2>5. toVehicle' = toVehicle \/ toVehicle' = Append(toVehicle, ClearRequest)
    BY <2>4 DEF Send
  <2>6. toVehicle' \in Seq({ClearRequest})
    BY <2>5 DEF OnlyRemovals
  <2> QED
    BY <1>1, <2>2, <2>6 DEF OnlyRemovals
<1> QED
  BY <1>2, <1>3

\* The vehicle executes a removal and acknowledges it.
LEMMA RemovalExecuted ==
  ASSUME Base, OnlyRemovals, VehicleReceives
  PROVE  OnlyRemovals'
<1>1. /\ toVehicle \in Seq({ClearRequest}) /\ toVehicle /= <<>>
      /\ toVehicle' = Tail(toVehicle)
      /\ MockLink!HandleMessage(Head(toVehicle))
  BY DEF OnlyRemovals, VehicleReceives
<1>2. Head(toVehicle) = ClearRequest /\ toVehicle' \in Seq({ClearRequest})
  BY <1>1, WithoutFirst
<1>3. MockLink!HandleMissionClearAll(ClearRequest)
  BY <1>1, <1>2 DEF MockLink!HandleMessage, ClearRequest
<1>4. /\ vehicleItems' = [vehicleItems EXCEPT ![PlanType] = MockLink!NoItems]
      /\ MockLink!SendAck(PlanType, "Accepted")
  BY <1>3 DEF MockLink!HandleMissionClearAll, ClearRequest
<1>5. vehiclePlan' = MockLink!NoItems
  <2>1. vehicleItems = [t \in PlanTypes |-> vehicleItems[t]] /\ PlanType \in PlanTypes
    BY PlanTypeAssumption DEF Base, ProtocolTypeOK
  <2> QED
    BY <1>4, <2>1 DEF vehiclePlan
<1>6. toGcs' = toGcs \/ toGcs' = Append(toGcs, AckMessage(PlanType, "Accepted"))
  BY <1>4 DEF MockLink!SendAck, MockLink!Respond, AckMessage
<1>7. toGcs' \in Seq({AckMessage(PlanType, "Accepted")})
  BY <1>6 DEF OnlyRemovals
<1> QED
  BY <1>2, <1>5, <1>7 DEF OnlyRemovals

\* A link loses what it holds, or nothing happens.
LEMMA RemovalLost ==
  ASSUME OnlyRemovals, LoseToVehicle \/ LoseToGcs \/ UNCHANGED protocolVars
  PROVE  OnlyRemovals'
<1>1. vehiclePlan' = vehiclePlan
  BY DEF LoseToVehicle, LoseToGcs, protocolVars, vehicleVars, vehiclePlan
<1>2. /\ toVehicle' = toVehicle \/ (toVehicle /= <<>> /\ toVehicle' = Tail(toVehicle))
      /\ toGcs' = toGcs \/ (toGcs /= <<>> /\ toGcs' = Tail(toGcs))
  BY DEF LoseToVehicle, LoseToGcs, protocolVars, vars
<1>3. /\ toVehicle' \in Seq({ClearRequest})
      /\ toGcs' \in Seq({AckMessage(PlanType, "Accepted")})
  BY <1>2, WithoutFirst DEF OnlyRemovals
<1>4. toGcs' /= <<>> => toGcs /= <<>>
  BY <1>2
<1> QED
  BY <1>1, <1>3, <1>4 DEF OnlyRemovals

LEMMA RemovalInvStep ==
  ASSUME Base, RemovalInv, [ProtocolNext]_protocolVars
  PROVE  RemovalInv'
<1> SUFFICES ASSUME transaction' = "RemoveAll", begunAfresh' PROVE OnlyRemovals'
  BY DEF RemovalInv
<1>1. CASE GroundOperation
  BY <1>1, RemovalBegins
<1>2. CASE ~GroundOperation
  <2>1. transaction = "RemoveAll" /\ OnlyRemovals
    BY <1>2, NotBegun DEF RemovalInv
  <2> QED
    BY <1>2, <2>1, RemovalGoesOn, RemovalExecuted, RemovalLost DEF ProtocolNext
<1> QED
  BY <1>1, <1>2

LEMMA RemovalStarts == ProtocolInit => RemovalInv
BY DEF ProtocolInit, Init, RemovalInv
-----------------------------------------------------------------------------
(* What the ends of transactions mean *)

\* Who gives up reports an error.
LEMMA FailureReports ==
  ASSUME Succeeds, NEW guided, FailTransaction(guided)
  PROVE  FALSE
BY DEF Succeeds, FailTransaction, FinishTransaction, SendError

\* A transaction that ends without an error ends with an answer.
LEMMA SuccessIsReceived ==
  ASSUME [ProtocolNext]_protocolVars, Succeeds, transaction /= "None", transaction' = "None"
  PROVE  GroundReceives /\ Receive(Head(toGcs)) /\ ~Ignore /\ ~DropItem
<1>1. CASE GroundOperation
  BY <1>1 DEF GroundOperation, LoadFromVehicle, WriteMissionItems, WriteResumeMission,
              StartWrite, RemoveAll, Begin
<1>2. CASE GroundTimesOut
  <2>1. GiveUp \/ transaction' = transaction
    BY <1>2 DEF GroundTimesOut, AckTimeout, CountTimeout, ItemTimeout, WriteAbandoned,
                WriteCountTimeout, ClearAllTimeout, GuidedTimeout, session
  <2> QED
    BY <2>1, FailureReports DEF GiveUp
<1>3. CASE VehicleReceives \/ LoseToVehicle \/ LoseToGcs \/ UNCHANGED protocolVars
  <2>1. transaction' = transaction
    BY <1>3
       DEF VehicleReceives, LoseToVehicle, LoseToGcs, protocolVars, vars, managerVars, session
  <2> QED
    BY <2>1
<1>4. CASE GroundReceives
  <2>1. ~Ignore /\ ~DropItem /\ ~UNCHANGED vars
    BY DEF Ignore, DropItem, session, vars, managerVars
  <2> QED
    BY <1>4, <2>1 DEF GroundReceives
<1> QED
  BY <1>1, <1>2, <1>3, <1>4 DEF ProtocolNext

\* A write or a removal that succeeds was accepted.
LEMMA SuccessIsAccepted ==
  ASSUME NEW a, Received(a), Receive(a), ~Ignore, ~DropItem, Succeeds,
         transaction \in {"Write", "RemoveAll"}, transaction' = "None"
  PROVE  a.kind = "Ack" /\ AckIsSuccess(a.result)
<1>1. expectedAck \notin {"MissionCount", "MissionItem"}
  BY DEF Received
<1>2. CASE a.kind = "Ack" /\ HandleMissionAck(a)
  <2>1. \/ transaction' = transaction
        \/ SendError \subseteq signals'
        \/ AckIsSuccess(a.result)
    BY <1>2 DEF HandleMissionAck, FinishTransaction, session
  <2> QED
    BY <1>2, <2>1 DEF Succeeds, SendError
<1>3. CASE a.kind = "Count" /\ HandleMissionCount(a)
  BY <1>1, <1>3 DEF HandleMissionCount
<1>4. CASE a.kind = "Item" /\ HandleMissionItem(a)
  BY <1>1, <1>4 DEF HandleMissionItem, session
<1>5. CASE a.kind = "Request" /\ HandleMissionRequest(a)
  BY <1>5, FailureReports DEF HandleMissionRequest, session
<1> QED
  BY <1>2, <1>3, <1>4, <1>5 DEF Receive

\* A plan with these items and no others is the list.
LEMMA HeldIsList ==
  ASSUME IsPlan(vehiclePlan), DOMAIN vehiclePlan = ToWrite,
         \A s \in DOMAIN vehiclePlan : vehiclePlan[s] = writeMissionItems[s + 1]
  PROVE  VehicleHolds(writeMissionItems)
<1> PICK plan : plan = vehiclePlan
  OBVIOUS
<1>1. plan = [s \in DOMAIN plan |-> plan[s]]
  BY DEF IsPlan
<1>2. [s \in DOMAIN plan |-> plan[s]] = [s \in ToWrite |-> writeMissionItems[s + 1]]
  OBVIOUS
<1> QED
  BY <1>1, <1>2 DEF VehicleHolds, ToWrite

LEMMA AcceptedIsHeld ==
  ASSUME NEW a, Received(a), a.kind = "Ack", AckIsSuccess(a.result), transaction = "Write"
  PROVE  VehicleHolds(writeMissionItems)
<1>1. /\ expectedAck = "MissionRequest" /\ itemIndicesToWrite \subseteq ToWrite
      /\ WrongFirst => (0 \in ToWrite => 0 \in itemIndicesToWrite)
  BY DEF Received, PromptInv, WriteState
<1>2. a.result = "Accepted" /\ itemIndicesToWrite = {}
  BY <1>1 DEF AckIsSuccess
<1>3. HoldsSent({})
  BY <1>2 DEF Received, AnswerOK, WriteAnswer
<1>4. DOMAIN vehiclePlan = ToWrite
  <2>1. CASE WrongFirst
    <3>1. 0 \notin ToWrite
      BY <1>1, <1>2, <2>1
    <3>2. Len(writeMissionItems) \in Nat
      BY LenProperties DEF Received, Base, IInv, TypeOK
    <3>3. ToWrite = {}
      BY <3>1, <3>2 DEF ToWrite
    <3> QED
      BY <1>3, <3>3 DEF HoldsSent
  <2>2. CASE ~WrongFirst
    BY <1>2, <1>3, <2>2 DEF HoldsSent
  <2> QED
    BY <2>1, <2>2
<1>5. IsPlan(vehiclePlan)
  BY PlanTypeAssumption DEF Received, Base, ProtocolTypeOK, vehiclePlan
<1> QED
  BY <1>3, <1>4, <1>5, HeldIsList DEF HoldsSent

LEMMA WriteStep ==
  ASSUME ProtocolInv, regime.prompt, [ProtocolNext]_protocolVars, Ends("Write"), Succeeds
  PROVE  VehicleHolds(writeMissionItems)
<1>1. /\ transaction = "Write" /\ transaction' = "None"
      /\ Base /\ PromptInv
  BY DEF Ends, ProtocolInv
<1> PICK a : a = Head(toGcs)
  OBVIOUS
<1>2. Received(a) /\ Receive(a) /\ ~Ignore /\ ~DropItem
  BY <1>1, SuccessIsReceived, TheOneAnswer
<1>3. a.kind = "Ack" /\ AckIsSuccess(a.result)
  BY <1>1, <1>2, SuccessIsAccepted
<1> QED
  BY <1>1, <1>2, <1>3, AcceptedIsHeld

\* The plan without items is the empty list.
LEMMA NothingHeld ==
  ASSUME vehiclePlan = MockLink!NoItems
  PROVE  VehicleHolds(<<>>)
<1>1. \A s \in 0 .. Len(<<>>) - 1 : FALSE
  OBVIOUS
<1>2. 0 .. Len(<<>>) - 1 = {}
  BY <1>1
<1>3. [s \in 0 .. Len(<<>>) - 1 |-> <<>>[s + 1]] = [s \in {} |-> 0]
  BY <1>2
<1> QED
  BY <1>3 DEF VehicleHolds, MockLink!NoItems

LEMMA RemoveAllStep ==
  ASSUME ProtocolInv, RemovalInv, regime.prompt \/ begunAfresh,
         [ProtocolNext]_protocolVars, Ends("RemoveAll"), Succeeds
  PROVE  VehicleHolds(<<>>)
<1>1. transaction = "RemoveAll" /\ transaction' = "None" /\ Base
  BY DEF Ends, ProtocolInv
<1> PICK a : a = Head(toGcs)
  OBVIOUS
<1>2. GroundReceives /\ Receive(a) /\ ~Ignore /\ ~DropItem
  BY <1>1, SuccessIsReceived
<1>3. CASE regime.prompt
  <2>1. PromptInv
    BY <1>3 DEF ProtocolInv
  <2>2. Received(a)
    BY <1>1, <1>2, <1>3, <2>1, TheOneAnswer
  <2>3. vehiclePlan = MockLink!NoItems
    BY <1>1, <1>2, <2>2 DEF Received, AnswerOK
  <2> QED
    BY <2>3, NothingHeld
<1>4. CASE begunAfresh
  <2>1. toGcs /= <<>>
    BY <1>2 DEF GroundReceives
  <2>2. vehiclePlan = MockLink!NoItems
    BY <1>1, <1>4, <2>1 DEF RemovalInv, OnlyRemovals
  <2> QED
    BY <2>2, NothingHeld
<1> QED
  BY <1>3, <1>4

\* The last item read, and the plan without items
LEMMA LastItemRead ==
  ASSUME NEW a, Received(a), a.kind = "Item", Sound, expectedAck = "MissionItem",
         a.seq \in itemIndicesToRead, itemIndicesToRead \ {a.seq} = {},
         missionItems' = Append(missionItems, [seq |-> a.seq, item |-> FromVehicle(a.item)])
  PROVE  IsVehiclePlan(missionItems')
<1>1. transaction = "Read" /\ TypeOK
  BY DEF Received, Base, IInv
<1>2. ReadInOrder \/ ReadCannotEnd
  BY <1>1 DEF Received, PromptInv, ReadState
<1>3. PICK s \in itemIndicesToRead : IsNext(s, itemIndicesToRead) /\ ItemAnswers(a, s)
  BY <1>1 DEF Received, AnswerOK, ReadAnswer
<1>4. s = a.seq /\ itemIndicesToRead = {s}
  OBVIOUS
<1>5. s \in Nat
  BY <1>1 DEF TypeOK
<1>6. ~WrongRead(s) /\ a.item = vehiclePlan[s]
  BY <1>3, <1>4, <1>5 DEF ItemAnswers
<1>7. ReadInOrder
  BY <1>2, <1>4, <1>6 DEF ReadCannotEnd
<1> PICK n \in Nat : n = Len(missionItems)
  BY <1>1, LenProperties DEF TypeOK
<1>8. PICK k \in Nat : DOMAIN vehiclePlan = 0 .. k - 1 /\ itemIndicesToRead = n .. k - 1
  BY <1>7 DEF ReadInOrder
<1>9. s = n /\ k = n + 1
  <2>1. n .. k - 1 = {s}
    BY <1>4, <1>8
  <2>2. n \in n .. k - 1 /\ k - 1 \in n .. k - 1
    BY <2>1
  <2> QED
    BY <2>1, <2>2
<1>10. Cardinality(DOMAIN vehiclePlan) = n + 1 /\ DOMAIN vehiclePlan = 0 .. n
  BY <1>8, <1>9, FirstNumbers
<1> PICK e : e = [seq |-> s, item |-> FromVehicle(vehiclePlan[s])]
  OBVIOUS
<1>11. missionItems' = Append(missionItems, e)
  BY <1>4, <1>6
<1>12. /\ Len(missionItems') = n + 1 /\ missionItems'[n + 1] = e
       /\ \A i \in 1 .. n : missionItems'[i] = missionItems[i]
  BY <1>1, <1>11 DEF TypeOK
<1>13. \A i \in 1 .. n + 1 :
         /\ i - 1 \in DOMAIN vehiclePlan
         /\ missionItems'[i] = [seq |-> i - 1, item |-> FromVehicle(vehiclePlan[i - 1])]
  <2>1. \A i \in 1 .. n :
          missionItems[i] = [seq |-> i - 1, item |-> FromVehicle(vehiclePlan[i - 1])]
    BY <1>7 DEF ReadInOrder
  <2>2. \A i \in 1 .. n + 1 : (i \in 1 .. n \/ i = n + 1) /\ i - 1 \in 0 .. n
    OBVIOUS
  <2>3. n + 1 - 1 = s
    BY <1>9
  <2> QED
    BY <1>10, <1>12, <2>1, <2>2, <2>3
<1> QED
  BY <1>10, <1>12, <1>13 DEF IsVehiclePlan

LEMMA NothingRead ==
  ASSUME NEW a, Received(a), a.kind = "Count", Sound, expectedAck = "MissionCount", a.n = 0,
         missionItems' = missionItems
  PROVE  IsVehiclePlan(missionItems')
<1>1. transaction = "Read"
  BY DEF Received
<1>2. missionItems = <<>> /\ Cardinality(DOMAIN vehiclePlan) = 0
  BY <1>1 DEF Received, Base, IInv, ReadProgress, AnswerOK, ReadAnswer
<1>3. Len(missionItems') = 0
  BY <1>2
<1> QED
  BY <1>2, <1>3 DEF IsVehiclePlan

\* An answer that completes a read: there is no item, or it is the last.
ReadCompletes(a) ==
  \/ /\ a.kind = "Count" /\ expectedAck = "MissionCount" /\ a.n = 0
     /\ missionItems' = missionItems
  \/ /\ a.kind = "Item" /\ expectedAck = "MissionItem"
     /\ a.seq \in itemIndicesToRead /\ itemIndicesToRead \ {a.seq} = {}
     /\ missionItems' = Append(missionItems, [seq |-> a.seq, item |-> FromVehicle(a.item)])

LEMMA CompletedList ==
  ASSUME NEW items, transaction = "Read", ReadTransactionComplete(items)
  PROVE  missionItems' = items
BY DEF ReadTransactionComplete, FinishTransaction, ListAfter

LEMMA ReadSuccess ==
  ASSUME Base, [ProtocolNext]_protocolVars, Ends("Read"), Succeeds
  PROVE  GroundReceives /\ ReadCompletes(Head(toGcs))
<1> PICK a : a = Head(toGcs)
  OBVIOUS
<1>1. transaction = "Read" /\ transaction' = "None" /\ TypeOK /\ Control
  BY DEF Ends, Base, IInv
<1>2. GroundReceives
  BY <1>1, SuccessIsReceived
<1>3. Receive(a) /\ ~Ignore /\ ~DropItem
  BY <1>1, <1>2, SuccessIsReceived
<1>4. connections > 0
  BY <1>3 DEF Receive
<1>5. expectedAck \in {"MissionCount", "MissionItem"}
  BY <1>1, <1>4, WhatIsAwaited
<1>6. CASE a.kind = "Count" /\ HandleMissionCount(a)
  <2>1. expectedAck = "MissionCount" /\ a.n = 0 /\ ReadTransactionComplete(missionItems)
    BY <1>1, <1>3, <1>6 DEF HandleMissionCount, session
  <2> QED
    BY <1>1, <1>2, <1>6, <2>1, CompletedList DEF ReadCompletes
<1>7. CASE a.kind = "Item" /\ HandleMissionItem(a)
  <2> PICK items : items = Append(missionItems, [seq |-> a.seq, item |-> FromVehicle(a.item)])
    OBVIOUS
  <2>1. /\ expectedAck = "MissionItem" /\ a.seq \in itemIndicesToRead
        /\ itemIndicesToRead \ {a.seq} = {} /\ ReadTransactionComplete(items)
    BY <1>1, <1>3, <1>7 DEF HandleMissionItem, ItemWasRequested, session
  <2>2. missionItems' = items
    BY <1>1, <2>1, CompletedList
  <2> QED
    BY <1>2, <1>7, <2>1, <2>2 DEF ReadCompletes
<1>8. CASE a.kind = "Request" /\ HandleMissionRequest(a)
  BY <1>3, <1>5, <1>8 DEF HandleMissionRequest
<1>9. CASE a.kind = "Ack" /\ HandleMissionAck(a)
  <2>1. ~AckIsSuccess(a.result)
    BY <1>5 DEF AckIsSuccess
  <2>2. SendError \subseteq signals'
    BY <1>1, <1>3, <1>9, <2>1 DEF HandleMissionAck, FinishTransaction, session
  <2> QED
    BY <2>2 DEF Succeeds, SendError
<1> QED
  BY <1>3, <1>6, <1>7, <1>8, <1>9 DEF Receive

LEMMA ReadStep ==
  ASSUME SendHomePositionOnEmptyList = FALSE, ProtocolInv, [ProtocolNext]_protocolVars,
         Ends("Read"), Succeeds, regime.prompt, HasNoGap
  PROVE  IsVehiclePlan(missionItems')
<1>1. Sound /\ Base /\ PromptInv
  BY DEF Sound, ProtocolInv
<1> PICK a : a = Head(toGcs)
  OBVIOUS
<1>2. GroundReceives /\ ReadCompletes(a)
  BY <1>1, ReadSuccess
<1>3. Received(a)
  BY <1>1, <1>2, TheOneAnswer
<1> QED
  BY <1>1, <1>2, <1>3, LastItemRead, NothingRead DEF ReadCompletes
-----------------------------------------------------------------------------
(* Reads whose answers come late, of a vehicle that nobody writes to *)

LoadsOnly == regime.operations \subseteq {"Load"} /\ SendHomePositionOnEmptyList = FALSE

\* An item the vehicle answers another for is asked for again and again.
ReadRequests == {m \in GroundMessage : m.mt = PlanType /\ m.kind \in {"RequestList", "Request", "Ack"}}
AnswersWithout(w) == {a \in VehicleMessage :
  \/ a.kind = "Count" /\ a.n > w
  \/ a.kind = "Item" /\ a.seq /= w
  \/ a.kind = "Ack" /\ a.result = "Error"}

NeverRead(w) ==
  /\ WrongRead(w) /\ 0 .. w \subseteq DOMAIN vehiclePlan
  /\ toVehicle \in Seq(ReadRequests) /\ toGcs \in Seq(AnswersWithout(w))
  /\ transaction = "Read" /\ expectedAck = "MissionItem" => w \in itemIndicesToRead

\* Otherwise the plan does not change, and a message is true whichever read it
\* belongs to.
TrueRequests == {m \in GroundMessage :
  /\ m.mt = PlanType
  /\ m.kind \in {"RequestList", "Ack"} \/ (m.kind = "Request" /\ m.seq \in DOMAIN vehiclePlan)}
TrueAnswers == {a \in VehicleMessage :
  \/ a.kind = "Count" /\ a.n = Cardinality(DOMAIN vehiclePlan)
  \/ a.kind = "Item" /\ a.seq \in DOMAIN vehiclePlan /\ a.item = vehiclePlan[a.seq]
  \/ a.kind = "Ack" /\ a.result = "Error"}
TrueItems(list) == \A i \in 1 .. Len(list) : list[i].item = FromVehicle(vehiclePlan[list[i].seq])

TrueRead ==
  transaction = "Read" /\ expectedAck = "MissionItem" =>
    /\ SeqsOf(missionItems) \cup itemIndicesToRead = DOMAIN vehiclePlan
    /\ TrueItems(missionItems)

TrueReads ==
  /\ NoGap /\ \A s \in DOMAIN vehiclePlan : ~WrongRead(s)
  /\ toVehicle \in Seq(TrueRequests) /\ toGcs \in Seq(TrueAnswers)
  /\ TrueRead

LateInv == LoadsOnly => TrueReads \/ \E w \in {0, 1} : NeverRead(w)

\* What the ground station does in a read, the request it sends and what the link
\* loses
ItemRequest(i) == [kind |-> "Request", mt |-> PlanType, seq |-> i]
ListRequest == [kind |-> "RequestList", mt |-> PlanType]
ReadAck == [kind |-> "Ack", mt |-> PlanType, result |-> "Accepted"]

TakesAnswer(a) ==
  \/ a.kind = "Count" /\ itemIndicesToRead' = 0 .. a.n - 1 /\ missionItems' = <<>>
  \/ /\ a.kind = "Item" /\ expectedAck = "MissionItem" /\ a.seq \in itemIndicesToRead
     /\ itemIndicesToRead' = itemIndicesToRead \ {a.seq}
     /\ missionItems' = Append(missionItems, [seq |-> a.seq, item |-> FromVehicle(a.item)])

ReadMoves ==
  \/ /\ UNCHANGED <<transaction, expectedAck, itemIndicesToRead, missionItems>>
     /\ UNCHANGED toVehicle \/ (toVehicle /= <<>> /\ toVehicle' = Tail(toVehicle))
  \/ transaction' /= "Read" /\ (UNCHANGED toVehicle \/ Send(ReadAck))
  \/ transaction' = "Read" /\ expectedAck' /= "MissionItem" /\ Send(ListRequest)
  \/ /\ UNCHANGED <<transaction, expectedAck, itemIndicesToRead, missionItems>>
     /\ transaction = "Read" /\ expectedAck = "MissionItem"
     /\ \E i \in itemIndicesToRead : Send(ItemRequest(i))
  \/ /\ transaction = "Read" /\ TakesAnswer(Head(toGcs)) /\ toGcs /= <<>>
     /\ \E i \in itemIndicesToRead' : Send(ItemRequest(i))

LEMMA GroundReads ==
  ASSUME Base, regime.operations \subseteq {"Load"},
         GroundOperation \/ GroundReceives \/ GroundTimesOut
  PROVE  ReadMoves
<1>1. transaction \in {"None", "Read"} /\ TypeOK /\ Control /\ ReadProgress
  BY DEF Base, OnlyReads, IInv
<1>2. CASE GroundOperation
  <2>1. LoadFromVehicle
    BY <1>2 DEF GroundOperation
  <2> QED
    BY <2>1 DEF LoadFromVehicle, Begin, RequestList, StartAckTimeout, ReadMoves, ListRequest
<1>3. CASE GroundTimesOut
  <2>1. AckTimeout /\ timerRunning
    BY <1>3 DEF GroundTimesOut, AckTimeout, TimedOut, CountTimeout, ItemTimeout, WriteAbandoned,
                WriteCountTimeout, ClearAllTimeout, GuidedTimeout
  <2>2. expectedAck \in {"MissionCount", "MissionItem"} /\ transaction = "Read"
    BY <1>1, <2>1, WhatIsAwaited DEF InProgress
  <2>3. CASE GiveUp
    BY <2>3 DEF GiveUp, FailTransaction, FinishTransaction, EndSession, ReadMoves
  <2>4. CASE CountTimeout /\ ~GiveUp
    BY <2>2, <2>4
       DEF CountTimeout, RequestList, StartAckTimeout, session, ReadMoves, ListRequest
  <2>5. CASE ItemTimeout /\ ~GiveUp
    <3>1. /\ expectedAck = "MissionItem" /\ RequestNextMissionItem(itemIndicesToRead)
          /\ UNCHANGED <<session, indices, lists>>
      BY <2>5 DEF ItemTimeout, TimedOut
    <3>2. \E i \in itemIndicesToRead : Send(ItemRequest(i))
      BY <3>1 DEF RequestNextMissionItem, ItemRequest
    <3> QED
      BY <2>2, <3>1, <3>2
         DEF RequestNextMissionItem, StartAckTimeout, session, indices, lists, ReadMoves
  <2> QED
    BY <2>1, <2>2, <2>3, <2>4, <2>5
       DEF AckTimeout, TimedOut, WriteAbandoned, WriteCountTimeout, ClearAllTimeout, GuidedTimeout
<1>4. CASE GroundReceives
  <2> PICK a : a = Head(toGcs)
    OBVIOUS
  <2>1. toGcs /= <<>> /\ (Receive(a) \/ UNCHANGED vars)
    BY <1>4 DEF GroundReceives
  <2>2. CASE UNCHANGED vars \/ Ignore
    BY <2>2 DEF vars, managerVars, ackTimer, session, indices, lists, Ignore, ReadMoves
  <2>3. CASE Receive(a) /\ ~Ignore
    <3>1. expectedAck \in {"MissionCount", "MissionItem"} /\ transaction = "Read"
      BY <1>1, <2>3, WhatIsAwaited DEF Receive, InProgress
    <3>2. ASSUME NEW items, ReadTransactionComplete(items) PROVE ReadMoves
      BY <3>2 DEF ReadTransactionComplete, FinishTransaction, EndSession, ReadMoves, ReadAck
    <3>3. CASE a.kind = "Count" /\ HandleMissionCount(a)
      <4>1. CASE a.n /= 0
        <5>1. /\ expectedAck = "MissionCount" /\ UNCHANGED <<session, itemIndicesToWrite, lists>>
              /\ itemIndicesToRead' = itemIndicesToRead \cup 0 .. a.n - 1
              /\ RequestNextMissionItem(itemIndicesToRead')
          BY <2>3, <3>3, <4>1 DEF HandleMissionCount
        <5>2. itemIndicesToRead' = 0 .. a.n - 1 /\ missionItems' = <<>>
          BY <1>1, <3>1, <5>1 DEF ReadProgress, lists
        <5>3. \E i \in itemIndicesToRead' : Send(ItemRequest(i))
          BY <5>1 DEF RequestNextMissionItem, ItemRequest
        <5> QED
          BY <2>1, <3>1, <3>3, <5>2, <5>3 DEF ReadMoves, TakesAnswer
      <4> QED
        BY <2>3, <3>2, <3>3, <4>1 DEF HandleMissionCount
    <3>4. CASE a.kind = "Item" /\ HandleMissionItem(a)
      <4> PICK items : items = Append(missionItems, [seq |-> a.seq, item |-> FromVehicle(a.item)])
        OBVIOUS
      <4>1. CASE UNCHANGED <<ackTimer, retryCount, session, indices, lists, toVehicle>>
        BY <4>1 DEF ackTimer, session, indices, lists, ReadMoves
      <4>2. CASE expectedAck = "MissionItem" /\ DropItem
        BY <4>2 DEF DropItem, StartAckTimeout, session, indices, lists, ReadMoves
      <4>3. CASE /\ expectedAck = "MissionItem" /\ a.seq \in itemIndicesToRead
                 /\ itemIndicesToRead' = itemIndicesToRead \ {a.seq} /\ missionItems' = items
                 /\ RequestNextMissionItem(itemIndicesToRead')
        <5>1. \E i \in itemIndicesToRead' : Send(ItemRequest(i))
          BY <4>3 DEF RequestNextMissionItem, ItemRequest
        <5>2. TakesAnswer(a)
          BY <3>4, <4>3 DEF TakesAnswer
        <5> QED
          BY <2>1, <3>1, <5>1, <5>2 DEF ReadMoves
      <4> QED
        BY <2>3, <3>2, <3>4, <4>1, <4>2, <4>3 DEF HandleMissionItem, ItemWasRequested
    <3>5. CASE a.kind = "Request" /\ HandleMissionRequest(a)
      BY <2>3, <3>1, <3>5 DEF HandleMissionRequest
    <3>6. CASE a.kind = "Ack" /\ HandleMissionAck(a)
      BY <2>3, <3>1, <3>6
         DEF HandleMissionAck, FinishTransaction, EndSession, ReadMoves
    <3> QED
      BY <2>3, <3>3, <3>4, <3>5, <3>6 DEF Receive
  <2> QED
    BY <2>1, <2>2, <2>3
<1> QED
  BY <1>2, <1>3, <1>4

\* A link keeps messages of a kind.
LEMMA LinkKeepsKind ==
  ASSUME NEW S, NEW m \in S, toVehicle \in Seq(S), Send(m)
  PROVE  toVehicle' \in Seq(S)
BY AppendProperties DEF Send

LEMMA ReplyKeepsKind ==
  ASSUME NEW S, NEW r \in S, toGcs \in Seq(S), Replies(r)
  PROVE  toGcs' \in Seq(S)
BY AppendProperties DEF Replies

LEMMA TailKeepsKind ==
  ASSUME NEW S, NEW link \in Seq(S), link /= <<>>
  PROVE  Tail(link) \in Seq(S) /\ Head(link) \in S
BY WithoutFirst

\* The messages of a read
LEMMA ReadMessages ==
  /\ ListRequest \in ReadRequests /\ ReadAck \in ReadRequests
  /\ ListRequest \in TrueRequests /\ ReadAck \in TrueRequests
  /\ \A i \in Nat : ItemRequest(i) \in ReadRequests
  /\ \A i \in Nat : i \in DOMAIN vehiclePlan => ItemRequest(i) \in TrueRequests
<1>1. ListRequest \in GroundMessage /\ ReadAck \in GroundMessage
  BY SentMessages DEF ListRequest, ReadAck
<1>2. \A i \in Nat : ItemRequest(i) \in GroundMessage
  BY SentMessages DEF ItemRequest
<1> QED
  BY <1>1, <1>2 DEF ReadRequests, TrueRequests, ListRequest, ReadAck, ItemRequest

\* An answer is taken off its link, or none is.
AnswersTaken == toGcs' = toGcs \/ (toGcs /= <<>> /\ toGcs' = Tail(toGcs))

LEMMA NeverReadGround ==
  ASSUME Base, NEW w \in {0, 1}, NeverRead(w), VehicleSame, ReadMoves, AnswersTaken
  PROVE  NeverRead(w)'
<1>1. WrongRead(w)' /\ 0 .. w \subseteq DOMAIN vehiclePlan'
  BY VehicleStays DEF NeverRead, WrongRead
<1>2. toGcs' \in Seq(AnswersWithout(w))
  BY TailKeepsKind DEF NeverRead, AnswersTaken
<1>3. itemIndicesToRead \subseteq Nat /\ toVehicle \in Seq(ReadRequests)
  BY DEF NeverRead, Base, IInv, TypeOK
<1>4. CASE /\ UNCHANGED <<transaction, expectedAck, itemIndicesToRead, missionItems>>
           /\ UNCHANGED toVehicle \/ (toVehicle /= <<>> /\ toVehicle' = Tail(toVehicle))
  <2>1. toVehicle' \in Seq(ReadRequests)
    BY <1>3, <1>4, TailKeepsKind
  <2> QED
    BY <1>1, <1>2, <1>4, <2>1 DEF NeverRead
<1>5. CASE \/ transaction' /= "Read" /\ (UNCHANGED toVehicle \/ Send(ReadAck))
           \/ transaction' = "Read" /\ expectedAck' /= "MissionItem" /\ Send(ListRequest)
  <2>1. toVehicle' \in Seq(ReadRequests)
    BY <1>3, <1>5, ReadMessages, LinkKeepsKind
  <2> QED
    BY <1>1, <1>2, <1>5, <2>1 DEF NeverRead
<1>6. CASE /\ UNCHANGED <<transaction, expectedAck, itemIndicesToRead, missionItems>>
           /\ \E i \in itemIndicesToRead : Send(ItemRequest(i))
  <2>1. toVehicle' \in Seq(ReadRequests)
    BY <1>3, <1>6, ReadMessages, LinkKeepsKind
  <2> QED
    BY <1>1, <1>2, <1>6, <2>1 DEF NeverRead
<1>7. CASE /\ transaction = "Read" /\ TakesAnswer(Head(toGcs)) /\ toGcs /= <<>>
           /\ \E i \in itemIndicesToRead' : Send(ItemRequest(i))
  <2> PICK a : a = Head(toGcs)
    OBVIOUS
  <2>1. a \in AnswersWithout(w)
    BY <1>7, TailKeepsKind DEF NeverRead
  <2>2. CASE a.kind = "Count" /\ itemIndicesToRead' = 0 .. a.n - 1
    <3>1. a.n \in Nat /\ a.n > w
      BY <2>1, <2>2, MessageFields DEF AnswersWithout
    <3>2. w \in itemIndicesToRead' /\ \A i \in itemIndicesToRead' : i \in Nat
      BY <2>2, <3>1
    <3>3. toVehicle' \in Seq(ReadRequests)
      BY <1>3, <1>7, <3>2, ReadMessages, LinkKeepsKind
    <3> QED
      BY <1>1, <1>2, <3>2, <3>3 DEF NeverRead
  <2>3. CASE /\ a.kind = "Item" /\ expectedAck = "MissionItem"
             /\ itemIndicesToRead' = itemIndicesToRead \ {a.seq}
    <3>1. a.seq /= w
      BY <2>1, <2>3 DEF AnswersWithout
    <3>2. w \in itemIndicesToRead' /\ \A i \in itemIndicesToRead' : i \in Nat
      BY <1>3, <1>7, <2>3, <3>1 DEF NeverRead
    <3>3. toVehicle' \in Seq(ReadRequests)
      BY <1>3, <1>7, <3>2, ReadMessages, LinkKeepsKind
    <3> QED
      BY <1>1, <1>2, <3>2, <3>3 DEF NeverRead
  <2> QED
    BY <1>7, <2>2, <2>3 DEF TakesAnswer
<1> QED
  BY <1>4, <1>5, <1>6, <1>7 DEF ReadMoves

\* A plan with the numbers up to w has more items than w.
LEMMA CountsBeyond ==
  ASSUME ProtocolTypeOK, SendHomePositionOnEmptyList = FALSE, NEW w \in Nat,
         0 .. w \subseteq DOMAIN vehiclePlan
  PROVE  MockLink!StoredCount(PlanType) \in Nat /\ MockLink!StoredCount(PlanType) > w
<1> PICK D : D = DOMAIN vehiclePlan
  OBVIOUS
<1>1. IsFiniteSet(D)
  BY PlanTypeAssumption DEF ProtocolTypeOK, IsPlan, vehiclePlan
<1>2. Cardinality(0 .. w) = w + 1
  BY FS_Interval
<1>3. Cardinality(D) \in Nat
  BY <1>1, FS_CardinalityType
<1>4. Cardinality(0 .. w) <= Cardinality(D)
  BY <1>1, FS_Subset
<1>5. MockLink!StoredCount(PlanType) = Cardinality(D)
  BY SameCardinality DEF MockLink!StoredCount, vehiclePlan
<1> QED
  BY <1>2, <1>3, <1>4, <1>5

LEMMA NeverReadVehicle ==
  ASSUME Base, LoadsOnly, NEW w \in {0, 1}, NeverRead(w), VehicleReceives
  PROVE  NeverRead(w)'
<1> PICK m : m = Head(toVehicle)
  OBVIOUS
<1>1. /\ ProtocolTypeOK /\ toVehicle /= <<>> /\ toVehicle' = Tail(toVehicle)
      /\ UNCHANGED <<managerVars, regime>> /\ MockLink!HandleMessage(m)
      /\ WrongRead(w) /\ 0 .. w \subseteq DOMAIN vehiclePlan
      /\ toVehicle \in Seq(ReadRequests) /\ toGcs \in Seq(AnswersWithout(w))
      /\ requestType \in PlanTypes /\ SendHomePositionOnEmptyList = FALSE
  BY DEF Base, ProtocolTypeOK, VehicleReceives, NeverRead, LoadsOnly
<1>2. m \in GroundMessage /\ m.mt = PlanType /\ m.kind \in {"RequestList", "Request", "Ack"}
      /\ toVehicle' \in Seq(ReadRequests)
  BY <1>1, TailKeepsKind DEF ReadRequests
<1>3. ASSUME UNCHANGED failureMode, toGcs' \in Seq(AnswersWithout(w)),
             0 .. w \subseteq DOMAIN vehiclePlan'
      PROVE  NeverRead(w)'
  BY <1>1, <1>2, <1>3, GroundStays DEF NeverRead, WrongRead
<1>4. CASE m.kind = "RequestList" /\ RequestListEffect(m)
  <2> PICK n : n = MockLink!StoredCount(PlanType)
    OBVIOUS
  <2> PICK r : r = [kind |-> "Count", mt |-> PlanType, n |-> n]
    OBVIOUS
  <2>1. n \in Nat /\ n > w
    BY <1>1, CountsBeyond
  <2>2. r \in AnswersWithout(w)
    BY <2>1, AnswerTypes, PlanTypeAssumption DEF AnswersWithout
  <2>3. toGcs' \in Seq(AnswersWithout(w))
    BY <1>1, <1>2, <1>4, <2>2, ReplyKeepsKind DEF RequestListEffect
  <2> QED
    BY <1>1, <1>3, <1>4, <2>3 DEF RequestListEffect, vehiclePlan
<1>5. CASE m.kind = "Request" /\ RequestEffect(m)
  <2>0. m.seq \in Nat
    BY <1>2, <1>5, GroundFields
  <2>1. CASE UNCHANGED vehicleItems /\ (toGcs' = toGcs \/ Replies(AckMessage(requestType, "Error")))
    <3> PICK r : r = AckMessage(requestType, "Error")
      OBVIOUS
    <3>1. r \in VehicleMessage
      BY <1>1, AnswerTypes DEF AckResult
    <3>2. r \in AnswersWithout(w)
      BY <3>1 DEF AnswersWithout, AckMessage
    <3>3. toGcs' \in Seq(AnswersWithout(w))
      BY <1>1, <2>1, <3>2, ReplyKeepsKind
    <3> QED
      BY <1>1, <1>3, <1>5, <2>1, <3>3 DEF RequestEffect, vehiclePlan
  <2>2. ASSUME NEW seq \in Nat, seq /= w, MockLink!RespondWithItem(m.mt, seq)
        PROVE  NeverRead(w)'
    <3>1. PICK item \in ItemType :
            /\ Replies([kind |-> "Item", mt |-> requestType, seq |-> seq, item |-> item])
            /\ \/ UNCHANGED vehicleItems
               \/ Replaces(m.mt, MockLink!Store(vehicleItems[m.mt], seq, MockLink!ZeroItem))
      BY <1>1, <1>2, <2>2, PlanTypeAssumption, ItemIsAnswered
    <3> PICK r : r = [kind |-> "Item", mt |-> requestType, seq |-> seq, item |-> item]
      OBVIOUS
    <3>2. r \in VehicleMessage
      BY <1>1, AnswerTypes
    <3>3. r \in AnswersWithout(w)
      BY <2>2, <3>2 DEF AnswersWithout
    <3>4. toGcs' \in Seq(AnswersWithout(w))
      BY <1>1, <3>1, <3>3, ReplyKeepsKind
    <3>5. 0 .. w \subseteq DOMAIN vehiclePlan'
      <4>1. CASE UNCHANGED vehicleItems
        BY <1>1, <4>1 DEF vehiclePlan
      <4>2. ASSUME NEW plan, Replaces(m.mt, plan), DOMAIN vehiclePlan \subseteq DOMAIN plan
            PROVE  0 .. w \subseteq DOMAIN vehiclePlan'
        BY <1>1, <1>2, <4>2, PlanTypeAssumption, PlanReplaced DEF ProtocolTypeOK, vehiclePlan
      <4>3. DOMAIN vehiclePlan \subseteq
              DOMAIN MockLink!Store(vehicleItems[m.mt], seq, MockLink!ZeroItem)
        BY <1>2 DEF MockLink!Store, vehiclePlan
      <4> QED
        BY <3>1, <4>1, <4>2, <4>3
    <3> QED
      BY <1>3, <1>5, <3>4, <3>5 DEF RequestEffect
  <2>3. IF WrongRead(m.seq) THEN m.seq + 1 /= w ELSE m.seq /= w
    BY <1>1, <2>0 DEF WrongRead
  <2> QED
    BY <1>5, <2>0, <2>1, <2>2, <2>3 DEF RequestEffect
<1>6. CASE m.kind = "Ack" /\ UNCHANGED <<vehicleVars, toGcs>>
  BY <1>1, <1>3, <1>6 DEF vehicleVars, vehiclePlan
<1> QED
  BY <1>1, <1>2, <1>4, <1>5, <1>6, VehicleEffects

\* An item read belongs to the plan, and its number is none already read.
LEMMA TrueItemRead ==
  ASSUME TypeOK, ReadProgress, TrueRead, transaction = "Read", expectedAck = "MissionItem",
         NEW a \in TrueAnswers, a.kind = "Item", a.seq \in itemIndicesToRead,
         NEW list, list = Append(missionItems, [seq |-> a.seq, item |-> FromVehicle(a.item)])
  PROVE  /\ list \in Seq(NumberedItem) /\ Once(list)
         /\ SeqsOf(list) \cup (itemIndicesToRead \ {a.seq}) = DOMAIN vehiclePlan
         /\ TrueItems(list)
<1> PICK e : e = [seq |-> a.seq, item |-> FromVehicle(a.item)]
  OBVIOUS
<1> PICK items : items = missionItems
  OBVIOUS
<1>1. a.seq \in Nat /\ a.item \in ItemType /\ a.item = vehiclePlan[a.seq]
  BY MessageFields DEF TrueAnswers
<1>2. e \in NumberedItem
  BY <1>1, FromVehicleType DEF NumberedItem
<1>3. items \in Seq(NumberedItem) /\ Once(items) /\ e.seq \notin SeqsOf(items)
  BY DEF TypeOK, NumberedItem, ReadProgress
<1>4. Once(list) /\ SeqsOf(list) = SeqsOf(items) \cup {a.seq}
  BY <1>2, <1>3, AppendOnce
<1>5. SeqsOf(items) \cup itemIndicesToRead = DOMAIN vehiclePlan /\ TrueItems(items)
  BY DEF TrueRead
<1> PICK n \in Nat : n = Len(items)
  BY <1>3, LenProperties
<1>6. /\ list \in Seq(NumberedItem) /\ Len(list) = n + 1 /\ list[n + 1] = e
      /\ \A i \in 1 .. n : list[i] = items[i]
  BY <1>2, <1>3
<1>7. \A i \in 1 .. n + 1 : list[i].item = FromVehicle(vehiclePlan[list[i].seq])
  <2>1. \A i \in 1 .. n + 1 : i \in 1 .. n \/ i = n + 1
    OBVIOUS
  <2> QED
    BY <1>1, <1>5, <1>6, <2>1 DEF TrueItems
<1> QED
  BY <1>4, <1>5, <1>6, <1>7 DEF TrueItems

LEMMA TrueReadsGround ==
  ASSUME Base, TrueReads, VehicleSame, ReadMoves, AnswersTaken
  PROVE  TrueReads'
<1>1. /\ vehiclePlan' = vehiclePlan /\ NoGap' /\ \A s \in DOMAIN vehiclePlan' : ~WrongRead(s)'
      /\ TrueRequests' = TrueRequests /\ TrueAnswers' = TrueAnswers
      /\ \A list : TrueItems(list)' = TrueItems(list)
  BY VehicleStays DEF TrueReads, WrongRead, TrueRequests, TrueAnswers, TrueItems
<1>2. toGcs' \in Seq(TrueAnswers)
  BY TailKeepsKind DEF TrueReads, AnswersTaken
<1>3. /\ itemIndicesToRead \subseteq Nat /\ toVehicle \in Seq(TrueRequests)
      /\ TypeOK /\ ReadProgress /\ TrueRead
  BY DEF TrueReads, Base, IInv, TypeOK
<1>4. ASSUME toVehicle' \in Seq(TrueRequests), TrueRead' PROVE TrueReads'
  BY <1>1, <1>2, <1>4 DEF TrueReads
<1>5. CASE /\ UNCHANGED <<transaction, expectedAck, itemIndicesToRead, missionItems>>
           /\ UNCHANGED toVehicle \/ (toVehicle /= <<>> /\ toVehicle' = Tail(toVehicle))
  <2>1. toVehicle' \in Seq(TrueRequests)
    BY <1>3, <1>5, TailKeepsKind
  <2>2. TrueRead'
    BY <1>1, <1>3, <1>5 DEF TrueRead, TrueItems
  <2> QED
    BY <1>4, <2>1, <2>2
<1>6. CASE \/ transaction' /= "Read" /\ (UNCHANGED toVehicle \/ Send(ReadAck))
           \/ transaction' = "Read" /\ expectedAck' /= "MissionItem" /\ Send(ListRequest)
  <2>1. toVehicle' \in Seq(TrueRequests)
    BY <1>3, <1>6, ReadMessages, LinkKeepsKind
  <2>2. TrueRead'
    BY <1>6 DEF TrueRead
  <2> QED
    BY <1>4, <2>1, <2>2
<1>7. CASE /\ UNCHANGED <<transaction, expectedAck, itemIndicesToRead, missionItems>>
           /\ transaction = "Read" /\ expectedAck = "MissionItem"
           /\ \E i \in itemIndicesToRead : Send(ItemRequest(i))
  <2>1. itemIndicesToRead \subseteq DOMAIN vehiclePlan
    BY <1>3, <1>7 DEF TrueRead
  <2>2. toVehicle' \in Seq(TrueRequests)
    BY <1>3, <1>7, <2>1, ReadMessages, LinkKeepsKind
  <2>3. TrueRead'
    BY <1>1, <1>3, <1>7 DEF TrueRead, TrueItems
  <2> QED
    BY <1>4, <2>2, <2>3
<1>8. CASE /\ transaction = "Read" /\ TakesAnswer(Head(toGcs)) /\ toGcs /= <<>>
           /\ \E i \in itemIndicesToRead' : Send(ItemRequest(i))
  <2> PICK a : a = Head(toGcs)
    OBVIOUS
  <2> PICK list : list = missionItems'
    OBVIOUS
  <2>1. a \in TrueAnswers
    BY <1>8, TailKeepsKind DEF TrueReads
  <2>2. ASSUME SeqsOf(list) \cup itemIndicesToRead' = DOMAIN vehiclePlan, TrueItems(list),
               itemIndicesToRead' \subseteq Nat
        PROVE  TrueReads'
    <3>1. toVehicle' \in Seq(TrueRequests)
      BY <1>3, <1>8, <2>2, ReadMessages, LinkKeepsKind
    <3>2. SeqsOf(missionItems') = SeqsOf(list) /\ TrueItems(list)'
      BY <1>1, <2>2
    <3>3. TrueRead'
      BY <1>1, <2>2, <3>2 DEF TrueRead, SeqsOf, TrueItems
    <3> QED
      BY <1>4, <3>1, <3>3
  <2>3. CASE a.kind = "Count" /\ itemIndicesToRead' = 0 .. a.n - 1 /\ list = <<>>
    <3>1. a.n = Cardinality(DOMAIN vehiclePlan)
      BY <2>1, <2>3 DEF TrueAnswers
    <3>2. PICK k \in Nat : DOMAIN vehiclePlan = 0 .. k - 1
      BY DEF TrueReads, NoGap
    <3>3. itemIndicesToRead' = 0 .. k - 1
      BY <2>3, <3>1, <3>2, FirstNumbers
    <3>4. Len(list) = 0
      BY <2>3
    <3>5. SeqsOf(list) = {} /\ TrueItems(list)
      BY <3>4 DEF SeqsOf, TrueItems
    <3> QED
      BY <2>2, <3>2, <3>3, <3>5
  <2>4. CASE /\ a.kind = "Item" /\ expectedAck = "MissionItem" /\ a.seq \in itemIndicesToRead
             /\ itemIndicesToRead' = itemIndicesToRead \ {a.seq}
             /\ list = Append(missionItems, [seq |-> a.seq, item |-> FromVehicle(a.item)])
    <3>1. SeqsOf(list) \cup (itemIndicesToRead \ {a.seq}) = DOMAIN vehiclePlan /\ TrueItems(list)
      BY <1>3, <1>8, <2>1, <2>4, TrueItemRead
    <3> QED
      BY <1>3, <2>2, <2>4, <3>1
  <2> QED
    BY <1>8, <2>3, <2>4 DEF TakesAnswer
<1> QED
  BY <1>5, <1>6, <1>7, <1>8 DEF ReadMoves

LEMMA TrueReadsVehicle ==
  ASSUME Base, LoadsOnly, TrueReads, VehicleReceives
  PROVE  TrueReads'
<1> PICK m : m = Head(toVehicle)
  OBVIOUS
<1>1. /\ ProtocolTypeOK /\ toVehicle /= <<>> /\ toVehicle' = Tail(toVehicle)
      /\ UNCHANGED <<managerVars, regime>> /\ MockLink!HandleMessage(m)
      /\ \A s \in DOMAIN vehiclePlan : ~WrongRead(s)
      /\ toVehicle \in Seq(TrueRequests) /\ toGcs \in Seq(TrueAnswers) /\ NoGap
      /\ requestType \in PlanTypes /\ SendHomePositionOnEmptyList = FALSE
  BY DEF Base, ProtocolTypeOK, VehicleReceives, TrueReads, LoadsOnly
<1>2. /\ m \in GroundMessage /\ m.mt = PlanType /\ m.kind \in {"RequestList", "Request", "Ack"}
      /\ m.kind = "Request" => m.seq \in DOMAIN vehiclePlan
      /\ toVehicle' \in Seq(TrueRequests)
  BY <1>1, TailKeepsKind DEF TrueRequests
<1>3. ASSUME UNCHANGED <<failureMode, vehicleItems>>, toGcs' \in Seq(TrueAnswers)
      PROVE  TrueReads'
  <2>1. /\ vehiclePlan' = vehiclePlan /\ TrueRequests' = TrueRequests /\ TrueAnswers' = TrueAnswers
        /\ NoGap' /\ \A s : WrongRead(s)' = WrongRead(s)
    BY <1>1, <1>3 DEF vehiclePlan, TrueRequests, TrueAnswers, NoGap, WrongRead
  <2>2. TrueRead'
    BY <1>1, <2>1, GroundStays DEF TrueReads, TrueRead, TrueItems
  <2> QED
    BY <1>1, <1>2, <1>3, <2>1, <2>2 DEF TrueReads
<1>4. CASE m.kind = "RequestList" /\ RequestListEffect(m)
  <2> PICK n : n = MockLink!StoredCount(PlanType)
    OBVIOUS
  <2> PICK r : r = [kind |-> "Count", mt |-> PlanType, n |-> n]
    OBVIOUS
  <2>1. n = Cardinality(DOMAIN vehiclePlan)
    BY <1>1, SameCardinality DEF MockLink!StoredCount, vehiclePlan
  <2>2. r \in VehicleMessage
    BY <1>1, CountIsNumber, AnswerTypes, PlanTypeAssumption
  <2>3. r \in TrueAnswers
    BY <2>1, <2>2 DEF TrueAnswers
  <2>4. toGcs' \in Seq(TrueAnswers)
    BY <1>1, <1>2, <1>4, <2>3, ReplyKeepsKind DEF RequestListEffect
  <2> QED
    BY <1>3, <1>4, <2>4 DEF RequestListEffect
<1>5. CASE m.kind = "Request" /\ RequestEffect(m)
  <2>0. m.seq \in Nat /\ m.seq \in DOMAIN vehiclePlan /\ ~WrongRead(m.seq)
    BY <1>1, <1>2, <1>5, GroundFields
  <2>1. CASE UNCHANGED vehicleItems /\ (toGcs' = toGcs \/ Replies(AckMessage(requestType, "Error")))
    <3> PICK r : r = AckMessage(requestType, "Error")
      OBVIOUS
    <3>1. r \in VehicleMessage
      BY <1>1, AnswerTypes DEF AckResult
    <3>2. r \in TrueAnswers
      BY <3>1 DEF TrueAnswers, AckMessage
    <3>3. toGcs' \in Seq(TrueAnswers)
      BY <1>1, <2>1, <3>2, ReplyKeepsKind
    <3> QED
      BY <1>3, <1>5, <2>1, <3>3 DEF RequestEffect
  <2>2. CASE MockLink!RespondWithItem(m.mt, m.seq)
    <3> PICK seq \in Nat : seq = m.seq
      BY <2>0
    <3>1. PICK item \in ItemType :
            /\ Replies([kind |-> "Item", mt |-> requestType, seq |-> seq, item |-> item])
            /\ \/ /\ UNCHANGED vehicleItems
                  /\ SendHomePositionOnEmptyList = FALSE =>
                       seq \in DOMAIN vehicleItems[m.mt] /\ item = vehicleItems[m.mt][seq]
               \/ seq \notin DOMAIN vehicleItems[m.mt]
      BY <1>1, <1>2, <2>2, PlanTypeAssumption, ItemIsAnswered
    <3>2. UNCHANGED vehicleItems /\ item = vehiclePlan[seq]
      BY <1>1, <1>2, <2>0, <3>1 DEF vehiclePlan
    <3> PICK r : r = [kind |-> "Item", mt |-> requestType, seq |-> seq, item |-> item]
      OBVIOUS
    <3>3. r \in VehicleMessage
      BY <1>1, AnswerTypes
    <3>4. r \in TrueAnswers
      BY <2>0, <3>2, <3>3 DEF TrueAnswers
    <3>5. toGcs' \in Seq(TrueAnswers)
      BY <1>1, <3>1, <3>4, ReplyKeepsKind
    <3> QED
      BY <1>3, <1>5, <3>2, <3>5 DEF RequestEffect
  <2> QED
    BY <1>5, <2>0, <2>1, <2>2 DEF RequestEffect
<1>6. CASE m.kind = "Ack" /\ UNCHANGED <<vehicleVars, toGcs>>
  BY <1>1, <1>3, <1>6 DEF vehicleVars
<1> QED
  BY <1>1, <1>2, <1>4, <1>5, <1>6, VehicleEffects

LEMMA LateInvStep ==
  ASSUME Base, LateInv, [ProtocolNext]_protocolVars
  PROVE  LateInv'
<1>1. regime' = regime
  BY DEF ProtocolNext, GroundOperation, GroundReceives, GroundTimesOut, VehicleReceives,
         LoseToVehicle, LoseToGcs, protocolVars
<1>2. CASE ~LoadsOnly
  BY <1>1, <1>2 DEF LateInv, LoadsOnly
<1>3. CASE LoadsOnly /\ VehicleReceives
  BY <1>3, NeverReadVehicle, TrueReadsVehicle DEF LateInv
<1>4. CASE LoadsOnly /\ ~VehicleReceives
  <2>1. VehicleSame /\ AnswersTaken
    BY <1>4 DEF ProtocolNext, GroundOperation, GroundReceives, GroundTimesOut, LoseToVehicle,
                LoseToGcs, protocolVars, VehicleSame, AnswersTaken
  <2>2. ASSUME ~(GroundOperation \/ GroundReceives \/ GroundTimesOut) PROVE ReadMoves
    BY <1>4, <2>2
       DEF ProtocolNext, LoseToVehicle, LoseToGcs, protocolVars, vars, managerVars, ackTimer,
           session, indices, lists, ReadMoves
  <2>3. ReadMoves
    BY <1>4, <2>2, GroundReads DEF LoadsOnly
  <2> QED
    BY <1>4, <2>1, <2>3, NeverReadGround, TrueReadsGround DEF LateInv
<1> QED
  BY <1>2, <1>3, <1>4

LEMMA LateInvStarts ==
  ASSUME ProtocolInit
  PROVE  LateInv
<1>1. transaction = "None" /\ NoGap
  BY StoredHasNoGap DEF ProtocolInit, Init
<1>2. \A S : toVehicle \in Seq(S) /\ toGcs \in Seq(S)
  BY EmptySeq DEF ProtocolInit, Init, MockLink!Init
<1>3. CASE \A s \in DOMAIN vehiclePlan : ~WrongRead(s)
  BY <1>1, <1>2, <1>3 DEF LateInv, TrueReads, TrueRead
<1>4. ASSUME NEW w \in DOMAIN vehiclePlan, WrongRead(w) PROVE \E v \in {0, 1} : NeverRead(v)
  <2>1. w \in {0, 1}
    BY <1>4 DEF WrongRead
  <2>2. PICK k \in Nat : DOMAIN vehiclePlan = 0 .. k - 1
    BY <1>1 DEF NoGap
  <2>3. w \in 0 .. k - 1
    BY <2>2
  <2>4. 0 .. w \subseteq 0 .. k - 1
    BY <2>1, <2>3
  <2>5. NeverRead(w)
    BY <1>1, <1>2, <1>4, <2>2, <2>4 DEF NeverRead
  <2> QED
    BY <2>1, <2>5
<1> QED
  BY <1>3, <1>4 DEF LateInv

\* A list with every item of the plan once is the plan in some order.
AllItems(list) ==
  /\ Len(list) = Cardinality(DOMAIN vehiclePlan)
  /\ {list[i] : i \in 1 .. Len(list)}
       = {[seq |-> s, item |-> FromVehicle(vehiclePlan[s])] : s \in DOMAIN vehiclePlan}

LEMMA EveryItemRead ==
  ASSUME NEW list \in Seq(NumberedItem), Once(list), SeqsOf(list) = DOMAIN vehiclePlan,
         TrueItems(list)
  PROVE  AllItems(list)
<1> PICK D : D = DOMAIN vehiclePlan
  OBVIOUS
<1> PICK n \in Nat : n = Len(list)
  BY LenProperties
<1>1. \A i \in 1 .. n : list[i] \in NumberedItem
  BY ElementOfSeq
<1>2. D = {list[i].seq : i \in 1 .. n}
  BY DEF SeqsOf
<1>3. Cardinality(D) = n
  <2> PICK f : f = [i \in 1 .. n |-> list[i].seq]
    OBVIOUS
  <2>1. f \in Surjection(1 .. n, D)
    <3>1. f \in [1 .. n -> D]
      BY <1>2
    <3>2. \A s \in D : \E i \in 1 .. n : f[i] = s
      BY <1>2
    <3> QED
      BY <3>1, <3>2 DEF Surjection
  <2>2. f \in Injection(1 .. n, D)
    <3>1. \A i, j \in 1 .. n : f[i] = f[j] => i = j
      BY DEF Once
    <3> QED
      BY <2>1, <3>1 DEF Surjection, Injection, IsInjective
  <2>3. ExistsBijection(1 .. n, D)
    BY <2>1, <2>2 DEF ExistsBijection, Bijection
  <2> QED
    BY <2>3, FS_CountingElements
<1>4. \A i \in 1 .. n : list[i] = [seq |-> list[i].seq, item |-> FromVehicle(vehiclePlan[list[i].seq])]
  BY <1>1 DEF NumberedItem, TrueItems
<1>5. {list[i] : i \in 1 .. n}
        = {[seq |-> s, item |-> FromVehicle(vehiclePlan[s])] : s \in D}
  <2> PICK g : g = [s \in D |-> [seq |-> s, item |-> FromVehicle(vehiclePlan[s])]]
    OBVIOUS
  <2>1. \A i \in 1 .. n : list[i].seq \in D /\ list[i] = g[list[i].seq]
    BY <1>2, <1>4
  <2>2. {list[i] : i \in 1 .. n} \subseteq {g[s] : s \in D}
    <3> SUFFICES ASSUME NEW i \in 1 .. n PROVE list[i] \in {g[s] : s \in D}
      OBVIOUS
    <3> PICK s \in D : list[i] = g[s]
      BY <2>1
    <3> QED
      OBVIOUS
  <2>3. \A s \in D : \E i \in 1 .. n : list[i].seq = s
    BY <1>2
  <2>4. {g[s] : s \in D} \subseteq {list[i] : i \in 1 .. n}
    BY <2>1, <2>3
  <2>5. {g[s] : s \in D} = {[seq |-> s, item |-> FromVehicle(vehiclePlan[s])] : s \in D}
    OBVIOUS
  <2> QED
    BY <2>2, <2>4, <2>5
<1> QED
  BY <1>3, <1>5 DEF AllItems

\* So is a plan read in order.
LEMMA PlanIsEveryItem ==
  ASSUME NoGap, NEW list, IsVehiclePlan(list), Len(list) \in Nat
  PROVE  AllItems(list)
<1> PICK n \in Nat : n = Len(list)
  OBVIOUS
<1>1. PICK k \in Nat : DOMAIN vehiclePlan = 0 .. k - 1
  BY DEF NoGap
<1>2. k = n /\ DOMAIN vehiclePlan = 0 .. n - 1
  BY <1>1, FirstNumbers DEF IsVehiclePlan
<1>3. \A i \in 1 .. n : i - 1 \in 0 .. n - 1
                        /\ list[i] = [seq |-> i - 1, item |-> FromVehicle(vehiclePlan[i - 1])]
  BY <1>2 DEF IsVehiclePlan
<1>4. \A s \in 0 .. n - 1 : s + 1 \in 1 .. n /\ (s + 1) - 1 = s
  OBVIOUS
<1>5. \A s \in 0 .. n - 1 : list[s + 1] = [seq |-> s, item |-> FromVehicle(vehiclePlan[s])]
  BY <1>3, <1>4
<1>6. {list[i] : i \in 1 .. n}
        = {[seq |-> s, item |-> FromVehicle(vehiclePlan[s])] : s \in 0 .. n - 1}
  <2> PICK g : g = [s \in 0 .. n - 1 |-> [seq |-> s, item |-> FromVehicle(vehiclePlan[s])]]
    OBVIOUS
  <2>1. \A i \in 1 .. n : list[i] = g[i - 1]
    BY <1>3
  <2>2. {list[i] : i \in 1 .. n} \subseteq {g[s] : s \in 0 .. n - 1}
    BY <1>3, <2>1
  <2>3. {g[s] : s \in 0 .. n - 1} \subseteq {list[i] : i \in 1 .. n}
    BY <1>4, <1>5
  <2>4. {g[s] : s \in 0 .. n - 1}
          = {[seq |-> s, item |-> FromVehicle(vehiclePlan[s])] : s \in 0 .. n - 1}
    OBVIOUS
  <2> QED
    BY <2>2, <2>3, <2>4
<1> QED
  BY <1>2, <1>6 DEF AllItems, IsVehiclePlan

LEMMA LateReadStep ==
  ASSUME Base, LateInv, LoadsOnly, [ProtocolNext]_protocolVars, Ends("Read"), Succeeds
  PROVE  AllItems(missionItems')
<1> PICK a : a = Head(toGcs)
  OBVIOUS
<1> PICK list : list = missionItems'
  OBVIOUS
<1>1. ReadCompletes(a) /\ toGcs /= <<>>
  BY ReadSuccess DEF GroundReceives
<1>2. TypeOK /\ ReadProgress /\ transaction = "Read"
  BY DEF Base, IInv, Ends
<1>3. ASSUME NEW w \in {0, 1}, NeverRead(w) PROVE FALSE
  <2>1. a \in AnswersWithout(w)
    BY <1>1, <1>3, TailKeepsKind DEF NeverRead
  <2>2. expectedAck = "MissionItem" => w \in itemIndicesToRead
    BY <1>2, <1>3 DEF NeverRead
  <2> QED
    BY <1>1, <2>1, <2>2 DEF ReadCompletes, AnswersWithout
<1>4. TrueReads
  BY <1>3 DEF LateInv
<1>5. a \in TrueAnswers /\ TrueRead
  BY <1>1, <1>4, TailKeepsKind DEF TrueReads
<1>6. CASE /\ a.kind = "Count" /\ expectedAck = "MissionCount" /\ a.n = 0
           /\ list = missionItems
  <2>1. list = <<>>
    BY <1>2, <1>6 DEF ReadProgress
  <2>2. Cardinality(DOMAIN vehiclePlan) = 0
    BY <1>5, <1>6 DEF TrueAnswers
  <2>3. PICK k \in Nat : DOMAIN vehiclePlan = 0 .. k - 1
    BY <1>4 DEF TrueReads, NoGap
  <2>4. DOMAIN vehiclePlan = {}
    BY <2>2, <2>3, FirstNumbers
  <2>5. Len(list) = 0
    BY <2>1
  <2> QED
    BY <2>2, <2>4, <2>5 DEF AllItems
<1>7. CASE /\ a.kind = "Item" /\ expectedAck = "MissionItem"
           /\ a.seq \in itemIndicesToRead /\ itemIndicesToRead \ {a.seq} = {}
           /\ list = Append(missionItems, [seq |-> a.seq, item |-> FromVehicle(a.item)])
  <2>1. /\ list \in Seq(NumberedItem) /\ Once(list) /\ TrueItems(list)
        /\ SeqsOf(list) \cup (itemIndicesToRead \ {a.seq}) = DOMAIN vehiclePlan
    BY <1>2, <1>5, <1>7, TrueItemRead
  <2>2. SeqsOf(list) = DOMAIN vehiclePlan
    BY <1>7, <2>1
  <2> QED
    BY <2>1, <2>2, EveryItemRead
<1> QED
  BY <1>1, <1>6, <1>7 DEF ReadCompletes

LEMMA EveryItemStep ==
  ASSUME SendHomePositionOnEmptyList = FALSE, ProtocolInv, LateInv,
         [ProtocolNext]_protocolVars, Ends("Read"), Succeeds, HasNoGap,
         regime.prompt \/ OnlyLoads
  PROVE  AllItems(missionItems')
<1>1. Base /\ regime \in Regimes
  BY DEF ProtocolInv, Base, ProtocolTypeOK
<1>2. CASE regime.prompt
  <2> PICK list : list = missionItems'
    OBVIOUS
  <2>1. IsVehiclePlan(list) /\ NoGap
    BY <1>2, ReadStep DEF ProtocolInv, PromptInv, Sound
  <2>2. TypeOK'
    BY <1>1, StepKeepsBase DEF Base, IInv
  <2>3. Len(list) \in Nat
    BY <2>2, LenProperties DEF TypeOK
  <2> QED
    BY <2>1, <2>3, PlanIsEveryItem
<1>3. CASE ~regime.prompt
  <2>1. LoadsOnly
    BY <1>3 DEF OnlyLoads, LoadsOnly
  <2> QED
    BY <1>1, <2>1, LateReadStep
<1> QED
  BY <1>2, <1>3
-----------------------------------------------------------------------------
(* A write that succeeds leaves the vehicle with exactly the list written: every *)
(* loss, repetition and failure mode leads to that or to an error, where the ack *)
(* timer outlasts the links.                                                     *)
THEOREM WritesArriveWhole == ProtocolSpec => WriteReachesVehicle
<1>1. ProtocolInv /\ [ProtocolNext]_protocolVars =>
        [Ends("Write") /\ Succeeds /\ regime.prompt
           => VehicleHolds(writeMissionItems)]_protocolVars
  BY WriteStep
<1> QED
  BY <1>1, ExchangeInvariance, PTL DEF ProtocolSpec, WriteReachesVehicle

\* A removal that succeeds leaves the vehicle with no items, after any number of
\* repetitions and also when their acknowledgements come late: unless an earlier
\* transaction had left a message on the links when it began.  That case the code
\* gets wrong: PlanManager.cc:655 takes any acknowledgement of the mission type.
THEOREM RemovalsArrive == ProtocolSpec => RemoveAllReachesVehicle
<1>1. ProtocolInit => ProtocolInv /\ RemovalInv
  BY BaseStarts, ExchangeStarts, RemovalStarts DEF ProtocolInv
<1>2. ProtocolInv /\ RemovalInv /\ [ProtocolNext]_protocolVars => (ProtocolInv /\ RemovalInv)'
  BY ProtocolInvStep, RemovalInvStep DEF ProtocolInv
<1>3. ProtocolInv /\ RemovalInv /\ [ProtocolNext]_protocolVars =>
        [Ends("RemoveAll") /\ Succeeds /\ (regime.prompt \/ begunAfresh)
           => VehicleHolds(<<>>)]_protocolVars
  BY RemoveAllStep
<1> QED
  BY <1>1, <1>2, <1>3, PTL DEF ProtocolSpec, RemoveAllReachesVehicle

\* A read that succeeds while the ack timer outlasts the links returns the plan
\* of the vehicle, in order.  An ArduPilot vehicle without a plan is left out: it
\* counts and sends a home position that it does not store.
THEOREM ReadsReturnThePlan ==
  ASSUME SendHomePositionOnEmptyList = FALSE
  PROVE  ProtocolSpec => ReadReturnsVehiclePlan
<1>1. ProtocolInv /\ [ProtocolNext]_protocolVars =>
        [Ends("Read") /\ Succeeds /\ regime.prompt /\ HasNoGap
           => IsVehiclePlan(missionItems')]_protocolVars
  BY ReadStep
<1> QED
  BY <1>1, ExchangeInvariance, PTL DEF ProtocolSpec, ReadReturnsVehiclePlan

\* Even when answers come later than the timer allows for, and those of an
\* abandoned read are taken for answers of the next one, a read that succeeds
\* returns every item of the vehicle's plan, each once.
THEOREM ReadsReturnEveryItem ==
  ASSUME SendHomePositionOnEmptyList = FALSE
  PROVE  ProtocolSpec => ReadReturnsEveryItem
<1>1. ProtocolInit => ProtocolInv /\ LateInv
  BY BaseStarts, ExchangeStarts, LateInvStarts DEF ProtocolInv
<1>2. ProtocolInv /\ LateInv /\ [ProtocolNext]_protocolVars => (ProtocolInv /\ LateInv)'
  BY ProtocolInvStep, LateInvStep DEF ProtocolInv
<1>3. ProtocolInv /\ LateInv /\ [ProtocolNext]_protocolVars =>
        [Ends("Read") /\ Succeeds /\ HasNoGap /\ (regime.prompt \/ OnlyLoads) =>
           /\ Len(missionItems') = Cardinality(DOMAIN vehiclePlan)
           /\ {missionItems'[i] : i \in 1 .. Len(missionItems')}
                = {[seq |-> s, item |-> FromVehicle(vehiclePlan[s])] : s \in DOMAIN vehiclePlan}
        ]_protocolVars
  BY EveryItemStep DEF AllItems
<1> QED
  BY <1>1, <1>2, <1>3, PTL DEF ProtocolSpec, ReadReturnsEveryItem
-----------------------------------------------------------------------------
(* The failure modes that are not recovered from *)

\* The item that a failure mode never lets the ground station read
Unreadable(s) ==
  \/ s = 0 /\ failureMode \in {"FailReadRequest0NoResponse", "FailReadRequest0IncorrectSequence",
                               "FailReadRequest0ErrorAck"}
  \/ s = 1 /\ failureMode \in {"FailReadRequest1NoResponse", "FailReadRequest1IncorrectSequence",
                               "FailReadRequest1ErrorAck"}

\* The item that a failure mode never asks for
Unasked(s) ==
  \/ s = 0 /\ failureMode \in {"FailWriteMissionCountNoResponse",
                               "FailWriteRequest0IncorrectSequence", "FailWriteRequest0ErrorAck"}
  \/ s = 1 /\ failureMode \in {"FailWriteRequest1NoResponse", "FailWriteRequest1IncorrectSequence",
                               "FailWriteRequest1ErrorAck"}
  \/ s = 3 /\ failureMode = "FailWriteFinalAckMissingRequests"

NoList == failureMode = "FailReadRequestListNoResponse"
NoFinalAck == failureMode \in {"FailWriteFinalAckNoResponse", "FailWriteFinalAckErrorAck"}

\* What a vehicle with this failure mode may send
Offered ==
  {a \in VehicleMessage : /\ a.kind = "Count" => ~NoList
                          /\ a.kind = "Item" => ~Unreadable(a.seq)
                          /\ a.kind = "Request" => ~Unasked(a.seq)}
Unaccepting == {a \in VehicleMessage : a.kind = "Ack" => a.result /= "Accepted"}

Readable == {x \in [seq : Nat, item : ItemType] : ~Unreadable(x.seq)}

\* What is withheld is neither under way nor was it ever received, however often it is
\* asked for and however late the answers are.
NeverOffered ==
  /\ toGcs \in Seq(Offered)
  /\ NoList => expectedAck /= "MissionItem"
  /\ transaction = "Read" => missionItems \in Seq(Readable)
  /\ transaction = "Write" => \A s \in ToWrite : Unasked(s) => s \in itemIndicesToWrite

\* A list of items is not accepted without a final ack.
NeverAccepted ==
  NoFinalAck /\ transaction = "Write" /\ writeMissionItems /= <<>> => toGcs \in Seq(Unaccepting)

\* The next item asked for is none that is withheld.
LEMMA NextIsOffered ==
  ASSUME NEW type \in PlanTypes, NEW index \in Nat, NEW count,
         MockLink!RequestNextMissionItem(type, index, count),
         failureMode = "FailWriteMissionCountNoResponse" => index /= 0,
         failureMode = "FailWriteFinalAckMissingRequests" => index /= 3
  PROVE  toGcs' = toGcs \/ \E r \in Offered : Replies(r)
<1> PICK seq : seq = IF WrongWrite(index) THEN index + 1 ELSE index
  OBVIOUS
<1>1. seq \in Nat
  OBVIOUS
<1>2. CASE toGcs' = toGcs
  BY <1>2
<1>3. CASE MockLink!Respond(AckMessage(type, "Error"))
  <2> PICK r : r = AckMessage(type, "Error")
    OBVIOUS
  <2>1. r \in Offered
    BY AnswerTypes DEF Offered, AckMessage, AckResult
  <2> QED
    BY <1>3, <2>1, RespondReplies
<1>4. CASE /\ MockLink!Respond(RequestMessage(type, seq))
           /\ ~MockLink!Fails(index, "", "FailWriteRequest1NoResponse")
           /\ ~MockLink!Fails(seq, "FailWriteRequest0ErrorAck", "FailWriteRequest1ErrorAck")
  <2> PICK r : r = RequestMessage(type, seq)
    OBVIOUS
  <2>1. r \in VehicleMessage
    BY <1>1, AnswerTypes
  <2>2. ~Unasked(seq)
    <3>1. CASE WrongWrite(index)
      <4>1. seq = index + 1 /\ index \in {0, 1}
        BY <3>1 DEF WrongWrite
      <4>2. /\ index = 0 => failureMode = "FailWriteRequest0IncorrectSequence" /\ seq = 1
            /\ index = 1 => failureMode = "FailWriteRequest1IncorrectSequence" /\ seq = 2
        BY <3>1, <4>1 DEF WrongWrite
      <4> QED
        BY <4>1, <4>2 DEF Unasked
    <3>2. CASE ~WrongWrite(index)
      <4>1. seq = index
        BY <3>2
      <4>2. /\ seq = 0 => /\ failureMode /= "FailWriteRequest0IncorrectSequence"
                          /\ failureMode /= "FailWriteRequest0ErrorAck"
            /\ seq = 1 => /\ failureMode /= "FailWriteRequest1IncorrectSequence"
                          /\ failureMode /= "FailWriteRequest1ErrorAck"
                          /\ failureMode /= "FailWriteRequest1NoResponse"
        BY <1>4, <3>2, <4>1 DEF WrongWrite, MockLink!Fails
      <4> QED
        BY <4>1, <4>2 DEF Unasked
    <3> QED
      BY <3>1, <3>2
  <2>3. r \in Offered
    BY <2>1, <2>2 DEF Offered, RequestMessage
  <2> QED
    BY <1>4, <2>3, RespondReplies
<1> QED
  BY <1>2, <1>3, <1>4
     DEF MockLink!RequestNextMissionItem, MockLink!Fails, WrongWrite, MockLink!NoResponse,
         MockLink!SendAck, AckMessage, RequestMessage

\* Nor is an answer to any other message.
LEMMA AnswerIsOffered ==
  ASSUME ProtocolTypeOK, NEW m \in GroundMessage, MockLink!HandleMessage(m)
  PROVE  toGcs' = toGcs \/ \E r \in Offered : Replies(r)
<1>0. /\ m.mt \in PlanTypes /\ requestType \in PlanTypes
      /\ writeSequenceIndex \in Nat /\ writeSequenceIndex + 1 \in Nat
      /\ m.kind \in {"Request", "Item"} => m.seq \in Nat
  BY GroundFields DEF ProtocolTypeOK
<1>1. ASSUME NEW type \in PlanTypes, NEW result \in AckResult, MockLink!SendAck(type, result)
      PROVE  \E r \in Offered : Replies(r)
  <2> PICK r : r = AckMessage(type, result)
    OBVIOUS
  <2>1. r \in Offered
    BY AnswerTypes DEF Offered, AckMessage
  <2> QED
    BY <1>1, <2>1, RespondReplies DEF MockLink!SendAck, AckMessage
<1>2. "Error" \in AckResult /\ "Accepted" \in AckResult
  BY DEF AckResult
<1>3. CASE m.kind = "ClearAll" /\ MockLink!HandleMissionClearAll(m)
  BY <1>0, <1>1, <1>2, <1>3 DEF MockLink!HandleMissionClearAll
<1>4. CASE m.kind = "RequestList" /\ MockLink!HandleMissionRequestList(m)
  <2> PICK n : n = MockLink!StoredCount(m.mt)
    OBVIOUS
  <2> PICK r : r = [kind |-> "Count", mt |-> m.mt, n |-> n]
    OBVIOUS
  <2>1. r \in VehicleMessage
    BY <1>0, CountIsNumber, AnswerTypes
  <2>2. toGcs' = toGcs \/ (~NoList /\ MockLink!Respond(r))
    BY <1>4 DEF MockLink!HandleMissionRequestList, MockLink!NoResponse, NoList
  <2>3. ~NoList => r \in Offered
    BY <2>1 DEF Offered
  <2> QED
    BY <2>2, <2>3, RespondReplies
<1>5. CASE m.kind = "Request" /\ MockLink!HandleMissionRequest(m)
  <2> PICK seq : seq = IF WrongRead(m.seq) THEN m.seq + 1 ELSE m.seq
    OBVIOUS
  <2>1. seq \in Nat
    BY <1>0, <1>5
  <2>2. CASE toGcs' = toGcs \/ MockLink!SendAck(requestType, "Error")
    BY <1>0, <1>1, <1>2, <2>2
  <2>3. CASE /\ MockLink!RespondWithItem(m.mt, seq)
             /\ ~MockLink!Fails(m.seq, "FailReadRequest0NoResponse", "FailReadRequest1NoResponse")
             /\ ~MockLink!Fails(m.seq, "FailReadRequest0ErrorAck", "FailReadRequest1ErrorAck")
    <3>1. PICK item \in ItemType :
            Replies([kind |-> "Item", mt |-> requestType, seq |-> seq, item |-> item])
      BY <1>0, <2>1, <2>3, ItemIsAnswered
    <3> PICK r : r = [kind |-> "Item", mt |-> requestType, seq |-> seq, item |-> item]
      OBVIOUS
    <3>2. r \in VehicleMessage
      BY <1>0, <2>1, AnswerTypes
    <3>3. ~Unreadable(seq)
      BY <1>0, <1>5, <2>3 DEF Unreadable, WrongRead, MockLink!Fails
    <3>4. r \in Offered
      BY <3>2, <3>3 DEF Offered
    <3> QED
      BY <3>1, <3>4
  <2> QED
    BY <1>5, <2>2, <2>3
       DEF MockLink!HandleMissionRequest, MockLink!NoResponse, MockLink!Fails, WrongRead
<1>6. CASE m.kind = "Count" /\ MockLink!HandleMissionCount(m)
  <2>1. \/ MockLink!SendAck(m.mt, "Accepted")
        \/ toGcs' = toGcs
        \/ /\ failureMode /= "FailWriteMissionCountNoResponse"
           /\ MockLink!RequestNextMissionItem(m.mt, 0, m.n)
    BY <1>6 DEF MockLink!HandleMissionCount, MockLink!NoResponse
  <2> QED
    BY <1>0, <1>1, <1>2, <2>1, NextIsOffered
<1>7. CASE m.kind = "Item" /\ MockLink!HandleMissionItem(m)
  <2> PICK next : next = writeSequenceIndex + 1
    OBVIOUS
  <2>1. \/ \E result \in AckResult : MockLink!SendAck(requestType, result)
        \/ toGcs' = toGcs
        \/ /\ failureMode = "FailWriteFinalAckMissingRequests" => next /= 3
           /\ MockLink!RequestNextMissionItem(requestType, next, writeSequenceCount)
    BY <1>2, <1>7 DEF MockLink!HandleMissionItem, MockLink!NoResponse
  <2>2. next \in Nat /\ next /= 0
    BY <1>0
  <2> QED
    BY <1>0, <1>1, <2>1, <2>2, NextIsOffered
<1>8. CASE m.kind = "Ack" /\ UNCHANGED <<MockLink!vehicleVars, toGcs>>
  BY <1>8
<1> QED
  BY <1>3, <1>4, <1>5, <1>6, <1>7, <1>8 DEF MockLink!HandleMessage

\* The properties depend on the failure mode, which stays.
LEMMA OffersStay ==
  ASSUME failureMode' = failureMode
  PROVE  /\ \A s : Unasked(s)' = Unasked(s) /\ Unreadable(s)' = Unreadable(s)
         /\ NoList' = NoList /\ NoFinalAck' = NoFinalAck /\ Readable' = Readable
         /\ Offered' = Offered
<1>1. \A s : Unasked(s)' = Unasked(s)
  BY DEF Unasked
<1>2. \A s : Unreadable(s)' = Unreadable(s)
  BY DEF Unreadable
<1>3. NoList' = NoList /\ NoFinalAck' = NoFinalAck
  BY DEF NoList, NoFinalAck
<1> QED
  BY <1>1, <1>2, <1>3 DEF Readable, Offered

\* An operation starts with nothing read and, of a list to write, everything to write.
LEMMA OfferedOperation ==
  ASSUME Base, NeverOffered, GroundOperation
  PROVE  NeverOffered'
<1>1. UNCHANGED <<vehicleVars, toGcs>>
  BY DEF GroundOperation
<1>2. toGcs' = toGcs /\ failureMode' = failureMode
  BY <1>1 DEF vehicleVars
<1>3. toGcs' \in Seq(Offered)'
  BY <1>2, OffersStay DEF NeverOffered
<1>4. CASE LoadFromVehicle
  <2>1. transaction' = "Read" /\ expectedAck' = "MissionCount" /\ missionItems' = <<>>
    BY <1>4 DEF LoadFromVehicle, RequestList, Begin, StartAckTimeout
  <2> QED
    BY <1>3, <2>1 DEF NeverOffered
<1>5. ASSUME NEW list, StartWrite(list) PROVE NeverOffered'
  <2>1. /\ transaction' = "Write" /\ expectedAck' = "MissionRequest"
        /\ writeMissionItems' = list /\ itemIndicesToWrite' = 0 .. Len(list) - 1
    BY <1>5 DEF StartWrite, WriteMissionCount, Begin, StartAckTimeout
  <2> QED
    BY <1>3, <2>1 DEF NeverOffered, ToWrite
<1>6. CASE RemoveAll
  <2>1. transaction' = "RemoveAll" /\ expectedAck' = "MissionClearAll"
    BY <1>6 DEF RemoveAll, RemoveAllWorker, Begin, StartAckTimeout
  <2> QED
    BY <1>3, <2>1 DEF NeverOffered
<1> QED
  BY <1>4, <1>5, <1>6 DEF GroundOperation, WriteMissionItems, WriteResumeMission

\* The end of a transaction leaves nothing to say but of what is awaited.
LEMMA OfferedEnd ==
  ASSUME NeverOffered, UNCHANGED vehicleVars, toGcs' \in Seq(Offered), transaction' = "None",
         expectedAck' \in {expectedAck, "None"}
  PROVE  NeverOffered'
<1>1. failureMode' = failureMode
  BY DEF vehicleVars
<1> QED
  BY <1>1, OffersStay DEF NeverOffered

LEMMA OfferedSame ==
  ASSUME NeverOffered, failureMode' = failureMode, toGcs' \in Seq(Offered),
         UNCHANGED <<expectedAck, transaction, itemIndicesToWrite, lists>>
  PROVE  NeverOffered'
<1>1. missionItems' = missionItems /\ writeMissionItems' = writeMissionItems /\ ToWrite' = ToWrite
  BY DEF lists, ToWrite
<1> QED
  BY <1>1, OffersStay DEF NeverOffered

LEMMA OfferedTimeout ==
  ASSUME Base, NeverOffered, GroundTimesOut
  PROVE  NeverOffered'
<1>1. UNCHANGED vehicleVars /\ toGcs' = toGcs /\ failureMode' = failureMode /\ AckTimeout
      /\ toGcs' \in Seq(Offered)
  BY DEF GroundTimesOut, vehicleVars, NeverOffered
<1>2. ASSUME GiveUp, expectedAck' \in {expectedAck, "None"} PROVE NeverOffered'
  <2>1. transaction' = "None"
    BY <1>2 DEF GiveUp, FailTransaction, FinishTransaction, EndSession
  <2> QED
    BY <1>1, <1>2, <2>1, OfferedEnd
<1>3. ASSUME RequestList, UNCHANGED <<session, itemIndicesToWrite, writeMissionItems>>
      PROVE  NeverOffered'
  <2>1. /\ transaction' = transaction /\ expectedAck' = "MissionCount" /\ missionItems' = <<>>
        /\ itemIndicesToWrite' = itemIndicesToWrite /\ ToWrite' = ToWrite
    BY <1>3 DEF RequestList, StartAckTimeout, session, ToWrite
  <2> QED
    BY <1>1, <2>1, OffersStay DEF NeverOffered
<1>4. ASSUME UNCHANGED <<expectedAck, transaction, itemIndicesToWrite, lists>> PROVE NeverOffered'
  BY <1>1, <1>4, OfferedSame
<1> QED
  BY <1>1, <1>2, <1>3, <1>4
     DEF AckTimeout, CountTimeout, ItemTimeout, WriteAbandoned, WriteCountTimeout,
         ClearAllTimeout, GuidedTimeout, TimedOut, RequestNextMissionItem, WriteMissionCount,
         RemoveAllWorker, StartAckTimeout, session, indices

\* A message taken off its link, and handled or not.
LEMMA OfferedReceive ==
  ASSUME Base, NeverOffered, GroundReceives
  PROVE  NeverOffered'
<1> PICK a : a = Head(toGcs)
  OBVIOUS
<1>1. /\ UNCHANGED vehicleVars /\ failureMode' = failureMode /\ a \in Offered
      /\ toGcs' \in Seq(Offered) /\ a \in VehicleMessage /\ missionItems \in Seq([seq : Nat, item : ItemType])
  BY TailKeepsKind DEF GroundReceives, vehicleVars, NeverOffered, Offered, Base, IInv, TypeOK
<1>2. ASSUME transaction' = "None", expectedAck' \in {expectedAck, "None"} PROVE NeverOffered'
  BY <1>1, <1>2, OfferedEnd
<1>3. ASSUME UNCHANGED <<expectedAck, transaction, itemIndicesToWrite, lists>> PROVE NeverOffered'
  BY <1>1, <1>3, OfferedSame
<1>4. CASE Ignore \/ UNCHANGED vars
  BY <1>3, <1>4 DEF Ignore, vars, managerVars, ackTimer, session, indices
<1>5. CASE a.kind = "Count" /\ HandleMissionCount(a) /\ ~Ignore
  <2>1. CASE AckReceived /\ ReadTransactionComplete(missionItems)
    BY <1>2, <2>1 DEF AckReceived, ReadTransactionComplete, FinishTransaction, EndSession
  <2>2. CASE RequestNextMissionItem(itemIndicesToRead \cup 0 .. a.n - 1)
             /\ UNCHANGED <<session, itemIndicesToWrite, lists>>
    <3>1. ~NoList
      BY <1>1, <1>5 DEF Offered
    <3>2. /\ transaction' = transaction /\ missionItems' = missionItems /\ ToWrite' = ToWrite
          /\ itemIndicesToWrite' = itemIndicesToWrite
      BY <2>2 DEF session, lists, ToWrite
    <3> QED
      BY <1>1, <3>1, <3>2, OffersStay DEF NeverOffered
  <2> QED
    BY <1>5, <2>1, <2>2 DEF HandleMissionCount
<1>6. CASE a.kind = "Item" /\ HandleMissionItem(a) /\ ~Ignore
  <2>1. CASE UNCHANGED <<ackTimer, retryCount, session, indices, lists, toVehicle>>
    BY <1>3, <2>1 DEF ackTimer, session, indices
  <2>2. CASE expectedAck = "MissionItem" /\ DropItem
    BY <1>3, <2>2 DEF DropItem, StartAckTimeout, session, indices
  <2>3. CASE AckReceived /\ \E items : ReadTransactionComplete(items)
    BY <1>2, <2>3 DEF AckReceived, ReadTransactionComplete, FinishTransaction, EndSession
  <2>4. CASE /\ expectedAck = "MissionItem"
             /\ missionItems' = Append(missionItems, [seq |-> a.seq, item |-> FromVehicle(a.item)])
             /\ UNCHANGED <<session, itemIndicesToWrite, writeMissionItems>>
    <3> PICK x : x = [seq |-> a.seq, item |-> FromVehicle(a.item)]
      OBVIOUS
    <3>1. ~NoList
      BY <2>4 DEF NeverOffered
    <3>2. x \in Readable
      <4>1. ~Unreadable(a.seq) /\ a.seq \in Nat /\ FromVehicle(a.item) \in ItemType
        BY <1>1, <1>6, MessageFields, FromVehicleType DEF Offered
      <4> QED
        BY <4>1 DEF Readable
    <3>3. transaction = "Read" => missionItems' \in Seq(Readable)
      BY <2>4, <3>2, AppendProperties DEF NeverOffered
    <3>4. /\ transaction' = transaction /\ ToWrite' = ToWrite
          /\ itemIndicesToWrite' = itemIndicesToWrite
      BY <2>4 DEF session, ToWrite
    <3> QED
      BY <1>1, <3>1, <3>3, <3>4, OffersStay DEF NeverOffered
  <2> QED
    BY <1>6, <2>1, <2>2, <2>3, <2>4 DEF HandleMissionItem
<1>7. CASE a.kind = "Request" /\ HandleMissionRequest(a) /\ ~Ignore
  <2>1. CASE AckReceived /\ FailTransaction(FALSE)
    BY <1>2, <2>1 DEF AckReceived, FailTransaction, FinishTransaction, EndSession
  <2>2. CASE /\ itemIndicesToWrite' = itemIndicesToWrite \ {a.seq}
             /\ expectedAck' = "MissionRequest"
             /\ UNCHANGED <<retryCount, session, itemIndicesToRead, lists>>
    <3>1. ~Unasked(a.seq)
      BY <1>1, <1>7 DEF Offered
    <3>2. transaction' = transaction /\ missionItems' = missionItems /\ ToWrite' = ToWrite
      BY <2>2 DEF session, lists, ToWrite
    <3> QED
      BY <1>1, <2>2, <3>1, <3>2, OffersStay DEF NeverOffered
  <2> QED
    BY <1>7, <2>1, <2>2 DEF HandleMissionRequest, StartAckTimeout
<1>8. CASE a.kind = "Ack" /\ HandleMissionAck(a) /\ ~Ignore
  BY <1>2, <1>3, <1>8
     DEF HandleMissionAck, AckReceived, FinishTransaction, EndSession, session, indices
<1> QED
  BY <1>4, <1>5, <1>6, <1>7, <1>8 DEF GroundReceives, Receive

LEMMA OfferedStep ==
  ASSUME Base, NeverOffered, [ProtocolNext]_protocolVars
  PROVE  NeverOffered'
<1>1. ASSUME UNCHANGED managerVars, failureMode' = failureMode, toGcs' \in Seq(Offered)
      PROVE  NeverOffered'
  BY <1>1, OfferedSame DEF managerVars, ackTimer, session, indices
<1>2. CASE VehicleReceives
  <2>1. /\ Head(toVehicle) \in GroundMessage /\ MockLink!HandleMessage(Head(toVehicle))
        /\ UNCHANGED managerVars
    BY <1>2, WithoutFirst DEF VehicleReceives, Base, IInv, TypeOK
  <2>2. failureMode' = failureMode
    BY <2>1, VehicleEffects
       DEF ClearAllEffect, RequestListEffect, RequestEffect, CountEffect, ItemEffect, vehicleVars
  <2>3. toGcs' = toGcs \/ \E r \in Offered : Replies(r)
    BY <2>1, AnswerIsOffered DEF Base
  <2>4. toGcs' \in Seq(Offered)
    BY <2>3, ReplyKeepsKind DEF NeverOffered
  <2> QED
    BY <1>1, <2>1, <2>2, <2>4
<1>3. CASE LoseToVehicle \/ LoseToGcs \/ UNCHANGED protocolVars
  <2>1. UNCHANGED managerVars /\ failureMode' = failureMode
    BY <1>3 DEF LoseToVehicle, LoseToGcs, protocolVars, vehicleVars, vars
  <2>2. toGcs' \in Seq(Offered)
    BY <1>3, TailKeepsKind DEF LoseToVehicle, LoseToGcs, protocolVars, NeverOffered
  <2> QED
    BY <1>1, <2>1, <2>2
<1> QED
  BY <1>2, <1>3, OfferedOperation, OfferedReceive, OfferedTimeout DEF ProtocolNext

\* An empty link carries anything.
LEMMA EmptyLink ==
  ASSUME NEW S
  PROVE  <<>> \in Seq(S)
OBVIOUS

\* The vehicle serves a request of the write and does not accept it: it has none of the
\* items yet, or its final ack fails.
LEMMA ServedUnaccepted ==
  ASSUME NEW m, Served(m), MockLink!HandleMessage(m), m.kind /= "Ack",
         NoFinalAck, transaction = "Write", writeMissionItems /= <<>>
  PROVE  toGcs' \in Seq(Unaccepting)
<1>1. /\ toGcs = <<>> /\ m \in GroundMessage /\ ProtocolTypeOK /\ TypeOK
      /\ m.mt \in PlanTypes /\ requestType \in PlanTypes
      /\ writeSequenceIndex \in Nat /\ writeSequenceIndex + 1 \in Nat
  BY GroundFields DEF Served, Base, IInv, ProtocolTypeOK
<1>2. \/ m.kind = "Count" /\ m.n = Len(writeMissionItems)
      \/ m.kind = "Item"
  BY DEF Served, RequestOK, WriteRequest
<1>3. m.kind = "Count" => m.n /= 0
  <2>1. Len(writeMissionItems) /= 0
    BY <1>1, EmptySeq DEF TypeOK
  <2> QED
    BY <1>2, <2>1
<1>4. toGcs \in Seq(Unaccepting)
  BY <1>1, EmptyLink
<1>5. ASSUME NEW r \in VehicleMessage, Replies(r), r.kind = "Ack" => r.result /= "Accepted"
      PROVE  toGcs' \in Seq(Unaccepting)
  BY <1>4, <1>5, ReplyKeepsKind DEF Unaccepting
<1>6. ASSUME NEW type \in PlanTypes, MockLink!SendAck(type, "Error")
      PROVE  toGcs' \in Seq(Unaccepting)
  <2> PICK r : r = AckMessage(type, "Error")
    OBVIOUS
  <2>1. r \in VehicleMessage /\ r.result /= "Accepted"
    BY AnswerTypes DEF AckMessage, AckResult
  <2>2. Replies(r)
    BY <1>6, RespondReplies DEF MockLink!SendAck, AckMessage
  <2> QED
    BY <1>5, <2>1, <2>2
<1>7. ASSUME NEW type \in PlanTypes, NEW index \in Nat, Asks(type, index)
      PROVE  toGcs' \in Seq(Unaccepting)
  <2>1. CASE toGcs' = toGcs
    BY <1>4, <2>1
  <2>2. CASE Replies(AckMessage(type, "Error"))
    <3> PICK r : r = AckMessage(type, "Error")
      OBVIOUS
    <3>1. r \in VehicleMessage /\ r.result /= "Accepted"
      BY AnswerTypes DEF AckMessage, AckResult
    <3> QED
      BY <1>5, <2>2, <3>1
  <2>3. ASSUME NEW seq \in {index, index + 1}, Replies(RequestMessage(type, seq))
        PROVE  toGcs' \in Seq(Unaccepting)
    <3> PICK r : r = RequestMessage(type, seq)
      OBVIOUS
    <3>1. seq \in Nat
      OBVIOUS
    <3>2. r \in VehicleMessage /\ r.kind = "Request"
      BY <3>1, AnswerTypes DEF RequestMessage
    <3> QED
      BY <1>5, <2>3, <3>2
  <2> QED
    BY <1>7, <2>1, <2>2, <2>3 DEF Asks
<1>8. CASE m.kind = "Count" /\ MockLink!HandleMissionCount(m)
  <2>1. toGcs' = toGcs \/ MockLink!RequestNextMissionItem(m.mt, 0, m.n)
    BY <1>3, <1>8 DEF MockLink!HandleMissionCount, MockLink!NoResponse
  <2> QED
    BY <1>1, <1>4, <1>7, <2>1, NextItemAsked
<1>9. CASE m.kind = "Item" /\ MockLink!HandleMissionItem(m)
  <2> PICK next \in Nat : next = writeSequenceIndex + 1
    BY <1>1
  <2>1. \/ MockLink!SendAck(requestType, "Error")
        \/ toGcs' = toGcs
        \/ MockLink!RequestNextMissionItem(requestType, next, writeSequenceCount)
    BY <1>9 DEF MockLink!HandleMissionItem, MockLink!NoResponse, NoFinalAck
  <2> QED
    BY <1>1, <1>4, <1>6, <1>7, <2>1, NextItemAsked
<1> QED
  BY <1>2, <1>8, <1>9 DEF MockLink!HandleMessage

LEMMA AcceptedStep ==
  ASSUME Base, PromptInv, regime.prompt, NeverAccepted, [ProtocolNext]_protocolVars
  PROVE  NeverAccepted'
<1>1. /\ TypeOK /\ ProtocolTypeOK /\ Exchange
  BY DEF Base, IInv, PromptInv
<1>2. CASE toGcs' = <<>>
  BY <1>2, EmptyLink DEF NeverAccepted
<1>3. ASSUME failureMode' = failureMode, toGcs' = toGcs \/ (toGcs /= <<>> /\ toGcs' = Tail(toGcs)),
             UNCHANGED <<transaction, writeMissionItems>>
      PROVE  NeverAccepted'
  BY <1>3, TailKeepsKind DEF NeverAccepted, NoFinalAck, Unaccepting
<1>4. CASE GroundOperation
  <2>1. ~InProgress /\ toGcs' = toGcs
    BY <1>4 DEF GroundOperation, LoadFromVehicle, WriteMissionItems, WriteResumeMission,
                StartWrite, RemoveAll, Begin
  <2> QED
    BY <1>1, <1>2, <2>1, QuietLinks
<1>5. CASE GroundReceives
  BY <1>2, <1>5, TheOneAnswer DEF Received
<1>6. CASE GroundTimesOut
  BY <1>2, <1>6 DEF GroundTimesOut
<1>7. CASE VehicleReceives
  <2> PICK m : m = Head(toVehicle)
    OBVIOUS
  <2>1. /\ toVehicle \in Seq(GroundMessage) /\ toVehicle /= <<>> /\ toVehicle' = Tail(toVehicle)
        /\ UNCHANGED <<managerVars, regime>> /\ MockLink!HandleMessage(m)
    BY <1>1, <1>7 DEF TypeOK, VehicleReceives
  <2>2. /\ m = toVehicle[1] /\ m \in GroundMessage /\ Len(toVehicle) \in Nat
        /\ Len(toVehicle) >= 1
    BY <2>1, WithoutFirst
  <2>3. failureMode' = failureMode
    BY <2>1, VehicleEffects
       DEF ClearAllEffect, RequestListEffect, RequestEffect, CountEffect, ItemEffect, vehicleVars
  <2>4. transaction' = transaction /\ writeMissionItems' = writeMissionItems
    BY <2>1, GroundStays
  <2>5. CASE m.kind = "Ack"
    <3>1. UNCHANGED <<vehicleVars, toGcs>>
      BY <2>1, <2>5, VehicleEffects
    <3> QED
      BY <1>3, <2>3, <2>4, <3>1
  <2>6. CASE m.kind /= "Ack"
    <3>1. 1 \in 1 .. Len(toVehicle)
      BY <2>2
    <3>2. Len(toVehicle) = 1 /\ toGcs = <<>> /\ RequestOK(m)
      BY <1>1, <2>2, <2>6, <3>1 DEF Exchange
    <3>3. Tail(toVehicle) = <<>>
      <4>1. \A i \in 1 .. Len(toVehicle) : i = 1
        BY <3>2
      <4> QED
        BY <2>1, <4>1, OneAtMost
    <3>4. Served(m)
      BY <2>1, <2>2, <3>2, <3>3 DEF Served
    <3>5. NoFinalAck' = NoFinalAck /\ Unaccepting' = Unaccepting
      BY <2>3 DEF NoFinalAck, Unaccepting
    <3> QED
      BY <2>1, <2>4, <2>6, <3>4, <3>5, ServedUnaccepted DEF NeverAccepted
  <2> QED
    BY <2>5, <2>6
<1>8. CASE LoseToVehicle \/ LoseToGcs \/ UNCHANGED protocolVars
  <2>1. UNCHANGED managerVars /\ failureMode' = failureMode
    BY <1>8 DEF LoseToVehicle, LoseToGcs, protocolVars, vehicleVars, vars
  <2>2. toGcs' = toGcs \/ (toGcs /= <<>> /\ toGcs' = Tail(toGcs))
    BY <1>8 DEF LoseToVehicle, LoseToGcs, protocolVars
  <2> QED
    BY <1>3, <2>1, <2>2 DEF managerVars, session, lists
<1> QED
  BY <1>4, <1>5, <1>6, <1>7, <1>8 DEF ProtocolNext

FailingInv == NeverOffered /\ (regime.prompt => NeverAccepted)

LEMMA FailingStarts == ProtocolInit => FailingInv
<1> SUFFICES ASSUME ProtocolInit PROVE FailingInv
  OBVIOUS
<1>1. toGcs = <<>> /\ transaction = "None" /\ expectedAck = "None"
  BY DEF ProtocolInit, Init, MockLink!Init
<1> QED
  BY <1>1, EmptyLink DEF FailingInv, NeverOffered, NeverAccepted

LEMMA FailingStep ==
  ASSUME ProtocolInv, FailingInv, [ProtocolNext]_protocolVars
  PROVE  FailingInv'
<1>1. regime' = regime
  BY DEF ProtocolNext, GroundOperation, GroundReceives, GroundTimesOut, VehicleReceives,
         LoseToVehicle, LoseToGcs, protocolVars
<1> QED
  BY <1>1, OfferedStep, AcceptedStep DEF ProtocolInv, FailingInv

\* A whole list without an item ends before it.
LEMMA EndsBefore ==
  ASSUME NEW list \in Seq(Readable), IsWhole(list), NEW s \in {0, 1}, Unreadable(s)
  PROVE  Len(list) <= s
<1>1. \A i \in 1 .. Len(list) : list[i].seq \in Nat /\ list[i].seq /= s
  BY DEF Readable
<1>2. \A i \in 1 .. Len(list) : list[i].seq < s
  <2> SUFFICES ASSUME NEW i \in 1 .. Len(list), ~(list[i].seq < s) PROVE FALSE
    OBVIOUS
  <2>1. s \in 0 .. list[i].seq
    BY <1>1
  <2>2. \E j \in 1 .. Len(list) : list[j].seq = s
    BY <2>1 DEF IsWhole
  <2> QED
    BY <1>1, <2>2
<1> PICK n \in Nat : n = Len(list)
  OBVIOUS
<1>3. CASE s = 0
  <2>1. \A i \in 1 .. n : FALSE
    BY <1>1, <1>2, <1>3
  <2>2. n = 0
    BY <2>1
  <2> QED
    BY <1>3, <2>2
<1>4. CASE s = 1
  <2>1. \A i \in 1 .. n : list[i].seq = 0
    BY <1>1, <1>2, <1>4
  <2>2. \A i, j \in 1 .. n : i = j
    BY <2>1 DEF IsWhole
  <2>3. n <= 1
    <3> SUFFICES ASSUME ~(n <= 1) PROVE FALSE
      OBVIOUS
    <3>1. 1 \in 1 .. n /\ 2 \in 1 .. n
      OBVIOUS
    <3>2. 1 = 2
      BY <2>2, <3>1
    <3> QED
      BY <3>2
  <2> QED
    BY <1>4, <2>3
<1> QED
  BY <1>3, <1>4

\* A read that succeeds had its list, and nothing that is withheld.
LEMMA SuccessIsOffered ==
  ASSUME Base, NeverOffered, [ProtocolNext]_protocolVars, Ends("Read"), Succeeds
  PROVE  ~NoList /\ missionItems' \in Seq(Readable)
<1>1. /\ transaction = "Read" /\ transaction' = "None" /\ missionItems \in Seq(Readable)
      /\ Control /\ TypeOK
  BY DEF Ends, NeverOffered, Base, IInv
<1> PICK a : a = Head(toGcs)
  OBVIOUS
<1>2. /\ Receive(a) /\ ~Ignore /\ ~DropItem /\ a \in Offered /\ a \in VehicleMessage
  <2>1. GroundReceives /\ Receive(a) /\ ~Ignore /\ ~DropItem
    BY <1>1, SuccessIsReceived
  <2> QED
    BY <2>1, TailKeepsKind DEF GroundReceives, NeverOffered, Offered
<1>3. expectedAck \in {"MissionCount", "MissionItem"}
  BY <1>1, <1>2, WhatIsAwaited DEF Receive
<1>4. CASE a.kind = "Count" /\ HandleMissionCount(a)
  <2>1. ~NoList
    BY <1>2, <1>4 DEF Offered
  <2>2. ReadTransactionComplete(missionItems)
    BY <1>1, <1>2, <1>4 DEF HandleMissionCount, session
  <2>3. missionItems' = missionItems
    BY <1>1, <2>2 DEF ReadTransactionComplete, FinishTransaction, ListAfter
  <2> QED
    BY <1>1, <2>1, <2>3
<1>5. CASE a.kind = "Item" /\ HandleMissionItem(a)
  <2> PICK x : x = [seq |-> a.seq, item |-> FromVehicle(a.item)]
    OBVIOUS
  <2>1. /\ expectedAck = "MissionItem"
        /\ ReadTransactionComplete(Append(missionItems, x))
    BY <1>1, <1>2, <1>5 DEF HandleMissionItem, session
  <2>2. x \in Readable
    <3>1. ~Unreadable(a.seq) /\ a.seq \in Nat /\ FromVehicle(a.item) \in ItemType
      BY <1>2, <1>5, MessageFields, FromVehicleType DEF Offered
    <3> QED
      BY <3>1 DEF Readable
  <2>3. missionItems' = Append(missionItems, x)
    BY <1>1, <2>1 DEF ReadTransactionComplete, FinishTransaction, ListAfter
  <2> QED
    BY <1>1, <2>1, <2>2, <2>3, AppendProperties DEF NeverOffered
<1>6. CASE a.kind = "Request" /\ HandleMissionRequest(a)
  BY <1>1, <1>2, <1>6, FailureReports DEF HandleMissionRequest, session
<1>7. CASE a.kind = "Ack" /\ HandleMissionAck(a)
  <2>1. ~AckIsSuccess(a.result)
    BY <1>3 DEF AckIsSuccess
  <2>2. \/ transaction' = transaction
        \/ SendError \subseteq signals'
        \/ AckIsSuccess(a.result)
    BY <1>2, <1>7 DEF HandleMissionAck, FinishTransaction, session
  <2> QED
    BY <1>1, <2>1, <2>2 DEF Succeeds, SendError
<1> QED
  BY <1>2, <1>4, <1>5, <1>6, <1>7 DEF Receive

LEMMA FailingRead ==
  ASSUME Base, NeverOffered, [ProtocolNext]_protocolVars, Ends("Read"), Succeeds,
         failureMode \in DOMAIN ReadFailures
  PROVE  Len(missionItems') < ReadFailures[failureMode]
<1> PICK list : list = missionItems'
  OBVIOUS
<1>1. ~NoList /\ list \in Seq(Readable)
  BY SuccessIsOffered
<1>2. Base'
  BY StepKeepsBase
<1>3. IsWhole(list)
  BY <1>2 DEF Base, IInv, NoPartialList, Ends
<1>4. Len(list) \in Nat
  BY <1>1
<1>5. CASE Unreadable(0) /\ ReadFailures[failureMode] = 1
  <2>1. Len(list) <= 0
    BY <1>1, <1>3, <1>5, EndsBefore
  <2> QED
    BY <1>4, <1>5, <2>1
<1>6. CASE Unreadable(1) /\ ReadFailures[failureMode] = 2
  <2>1. Len(list) <= 1
    BY <1>1, <1>3, <1>6, EndsBefore
  <2> QED
    BY <1>4, <1>6, <2>1
<1>7. \/ Unreadable(0) /\ ReadFailures[failureMode] = 1
      \/ Unreadable(1) /\ ReadFailures[failureMode] = 2
  BY <1>1 DEF ReadFailures, Unreadable, NoList
<1> QED
  BY <1>5, <1>6, <1>7

LEMMA FailingWrite ==
  ASSUME ProtocolInv, FailingInv, regime.prompt, [ProtocolNext]_protocolVars,
         Ends("Write"), Succeeds, failureMode \in DOMAIN WriteFailures
  PROVE  Len(writeMissionItems) < WriteFailures[failureMode]
<1>1. /\ transaction = "Write" /\ transaction' = "None"
      /\ Base /\ PromptInv /\ NeverOffered /\ NeverAccepted
  BY DEF Ends, ProtocolInv, FailingInv
<1> PICK a : a = Head(toGcs)
  OBVIOUS
<1>2. GroundReceives /\ Received(a) /\ Receive(a) /\ ~Ignore /\ ~DropItem
  BY <1>1, SuccessIsReceived, TheOneAnswer
<1>3. a.kind = "Ack" /\ AckIsSuccess(a.result)
  BY <1>1, <1>2, SuccessIsAccepted
<1>4. a.result = "Accepted" /\ itemIndicesToWrite = {}
  BY <1>1, <1>3 DEF AckIsSuccess, PromptInv, WriteState
<1>5. ASSUME NEW s \in Nat, Unasked(s) PROVE Len(writeMissionItems) <= s
  <2>1. s \notin ToWrite
    BY <1>1, <1>4, <1>5 DEF NeverOffered
  <2>2. Len(writeMissionItems) \in Nat
    BY <1>1, LenProperties DEF Base, IInv, TypeOK
  <2> QED
    BY <2>1, <2>2 DEF ToWrite
<1>6. ASSUME NoFinalAck PROVE Len(writeMissionItems) = 0
  <2>1. a \notin Unaccepting
    BY <1>3, <1>4 DEF Unaccepting
  <2>2. writeMissionItems = <<>>
    BY <1>1, <1>2, <1>6, <2>1, TailKeepsKind DEF NeverAccepted, GroundReceives
  <2> QED
    BY <2>2
<1> PICK n : n = Len(writeMissionItems)
  OBVIOUS
<1>7. n \in Nat
  BY <1>1, LenProperties DEF Base, IInv, TypeOK
<1>8. \/ Unasked(0) /\ WriteFailures[failureMode] = 1
      \/ Unasked(1) /\ WriteFailures[failureMode] = 2
      \/ Unasked(3) /\ WriteFailures[failureMode] = 4
      \/ NoFinalAck /\ WriteFailures[failureMode] = 1
  BY DEF WriteFailures, Unasked, NoFinalAck
<1>9. /\ Unasked(0) => n <= 0
      /\ Unasked(1) => n <= 1
      /\ Unasked(3) => n <= 3
      /\ NoFinalAck => n = 0
  BY <1>5, <1>6
<1> QED
  BY <1>7, <1>8, <1>9

\* A vehicle that fails on purpose fails the transfer, whatever is lost and repeated: no
\* list with the item in question is reported as read, nor, where the ack timer outlasts
\* the links, as written.
THEOREM FailuresAreReported == ProtocolSpec => FailureModesFail
<1>1. ProtocolInit => ProtocolInv /\ FailingInv
  BY BaseStarts, ExchangeStarts, FailingStarts DEF ProtocolInv
<1>2. ProtocolInv /\ FailingInv /\ [ProtocolNext]_protocolVars => (ProtocolInv /\ FailingInv)'
  BY ProtocolInvStep, FailingStep
<1>3. ProtocolInv /\ FailingInv /\ [ProtocolNext]_protocolVars =>
        [Succeeds =>
           /\ Ends("Read") /\ failureMode \in DOMAIN ReadFailures =>
                Len(missionItems') < ReadFailures[failureMode]
           /\ Ends("Write") /\ regime.prompt /\ failureMode \in DOMAIN WriteFailures =>
                Len(writeMissionItems) < WriteFailures[failureMode]]_protocolVars
  BY FailingRead, FailingWrite DEF ProtocolInv, FailingInv
<1> QED
  BY <1>1, <1>2, <1>3, PTL DEF ProtocolSpec, FailureModesFail

-----------------------------------------------------------------------------
(* The failure modes that are recovered from *)

\* The request that the vehicle leaves unanswered once
Swallows(m) ==
  \/ /\ m.kind = "RequestList" /\ failureMode = "FailReadRequestListFirstResponse"
     /\ "ReadRequestList" \in failFirst
  \/ /\ m.kind = "Request" /\ failureMode = "FailReadRequest1FirstResponse"
     /\ "ReadRequest1" \in failFirst
  \/ /\ m.kind = "Count" /\ failureMode = "FailWriteMissionCountFirstResponse"
     /\ "WriteMissionCount" \in failFirst

\* It has done so.
HasSwallowed ==
  /\ failureMode = "FailReadRequestListFirstResponse" => "ReadRequestList" \notin failFirst
  /\ failureMode = "FailReadRequest1FirstResponse" => "ReadRequest1" \notin failFirst
  /\ failureMode = "FailWriteMissionCountFirstResponse" => "WriteMissionCount" \notin failFirst

\* The vehicle takes the items of the list one after the other, and this is the next.
IsNextWritten(s) ==
  /\ s \in ToWrite /\ writeSequenceIndex = s
  /\ writeSequenceCount = Len(writeMissionItems) /\ requestType = PlanType

\* A request that is answered, or else was sent for the first time
GoodRequest(m) ==
  /\ m.kind = "Item" => IsNextWritten(m.seq) /\ itemIndicesToWrite = ToWrite \ (0 .. m.seq)
  /\ retryCount /= 0 => ~Swallows(m)

\* An answer that ends no transaction but with success
GoodAnswer(a) ==
  \/ /\ transaction = "Read" /\ a.kind = "Count" /\ a.mt = PlanType
     /\ expectedAck = "MissionCount"
  \/ /\ transaction = "Read" /\ a.kind = "Item" /\ expectedAck = "MissionItem"
     /\ a.seq \in itemIndicesToRead
  \/ /\ transaction = "Write" /\ a.kind = "Request" /\ a.mt = PlanType
     /\ IsNextWritten(a.seq) /\ itemIndicesToWrite = ToWrite \ (0 .. a.seq - 1)
  \/ /\ transaction = "Write" /\ a.kind = "Ack" /\ a.mt = PlanType /\ a.result = "Accepted"
     /\ itemIndicesToWrite = {}
  \/ transaction = "RemoveAll" /\ a.kind = "Ack" /\ a.mt = PlanType /\ a.result = "Accepted"

\* The request was left unanswered for the first time, and will be repeated.
WillRecover ==
  /\ retryCount = 0 /\ HasSwallowed
  /\ transaction \in {"Read", "Write"}
  /\ transaction = "Write" => 0 \in itemIndicesToWrite

\* An acknowledgement of the last read may be under way, and is taken before the answer.
OneAck == \A i \in 1 .. Len(toVehicle) : toVehicle[i].kind = "Ack" => i = 1

OneIsAnswered ==
  /\ OneAck /\ (toGcs /= <<>> => toVehicle = <<>>)
  /\ \A i \in 1 .. Len(toVehicle) : toVehicle[i].kind /= "Ack" => GoodRequest(toVehicle[i])
  /\ \A i \in 1 .. Len(toGcs) : GoodAnswer(toGcs[i])
  /\ InProgress /\ toGcs = <<>> /\ AcksOnly(toVehicle) => WillRecover

Recoverable == ~regime.lossy /\ regime.prompt /\ failureMode \in RecoverableModes

RecoverInv == Recoverable => OneIsAnswered

\* What is sent behind an acknowledgement finds room.
LEMMA FindsRoom ==
  ASSUME LinkCapacity >= 2, toVehicle \in Seq(GroundMessage), AcksOnly(toVehicle), OneAck,
         NEW m, Send(m)
  PROVE  /\ Len(toVehicle) \in {0, 1} /\ Len(toVehicle') = Len(toVehicle) + 1
         /\ toVehicle'[Len(toVehicle) + 1] = m
         /\ \A i \in 1 .. Len(toVehicle) : toVehicle'[i] = toVehicle[i]
<1> PICK n \in Nat : n = Len(toVehicle)
  OBVIOUS
<1>1. n <= 1
  <2> SUFFICES ASSUME ~(n <= 1) PROVE FALSE
    OBVIOUS
  <2>1. 2 \in 1 .. n
    OBVIOUS
  <2>2. 2 = 1
    BY <2>1 DEF AcksOnly, OneAck
  <2> QED
    BY <2>2
<1>2. toVehicle' = Append(toVehicle, m)
  BY <1>1, LinkAssumption DEF Send
<1>3. /\ Len(toVehicle') = Len(toVehicle) + 1 /\ toVehicle'[Len(toVehicle) + 1] = m
      /\ \A i \in 1 .. Len(toVehicle) : toVehicle'[i] = toVehicle[i]
  BY <1>2
<1> QED
  BY <1>1, <1>3

LEMMA AskedIsAnswered ==
  ASSUME LinkCapacity >= 2, toVehicle \in Seq(GroundMessage), AcksOnly(toVehicle), OneAck,
         NEW m, Send(m), m.kind /= "Ack", GoodRequest(m)', toGcs' = <<>>
  PROVE  OneIsAnswered'
<1> PICK n \in Nat : n = Len(toVehicle)
  OBVIOUS
<1>1. /\ n \in {0, 1} /\ Len(toVehicle') = n + 1 /\ toVehicle'[n + 1] = m
      /\ \A i \in 1 .. n : toVehicle'[i] = toVehicle[i]
  BY FindsRoom
<1>2. \A i \in 1 .. Len(toVehicle') : i \in 1 .. n \/ i = n + 1
  BY <1>1
<1>3. OneAck'
  BY <1>1, <1>2 DEF OneAck
<1>4. \A i \in 1 .. Len(toVehicle') : toVehicle'[i].kind /= "Ack" => toVehicle'[i] = m
  BY <1>1, <1>2 DEF AcksOnly
<1>5. ~AcksOnly(toVehicle')
  <2>1. n + 1 \in 1 .. Len(toVehicle')
    BY <1>1
  <2> QED
    BY <1>1, <2>1 DEF AcksOnly
<1>6. Len(toGcs') = 0
  OBVIOUS
<1>7. \A i \in 1 .. Len(toVehicle') : toVehicle'[i].kind /= "Ack" => GoodRequest(toVehicle[i])'
  BY <1>4
<1> QED
  BY <1>3, <1>5, <1>6, <1>7 DEF OneIsAnswered, AcksOnly

\* A transaction that ends leaves an acknowledgement at most.
LEMMA EndedIsAnswered ==
  ASSUME toVehicle = <<>>, transaction' = "None", toGcs' = <<>>,
         toVehicle' = toVehicle \/ \E m : Send(m) /\ m.kind = "Ack"
  PROVE  OneIsAnswered'
<1>1. Len(toGcs') = 0 /\ Len(toVehicle) = 0
  OBVIOUS
<1>2. CASE toVehicle' = toVehicle
  <2>1. Len(toVehicle') = 0
    BY <1>1, <1>2
  <2> QED
    BY <1>1, <2>1 DEF OneIsAnswered, OneAck, InProgress
<1>3. ASSUME NEW m, toVehicle' = Append(toVehicle, m), m.kind = "Ack" PROVE OneIsAnswered'
  <2>1. Len(toVehicle') = 1 /\ toVehicle'[1] = m
    BY <1>3
  <2>2. \A i \in 1 .. Len(toVehicle') : i = 1
    BY <2>1
  <2> QED
    BY <1>1, <1>3, <2>1, <2>2 DEF OneIsAnswered, OneAck, InProgress
<1> QED
  BY <1>2, <1>3 DEF Send

LEMMA OperationIsAnswered ==
  ASSUME LinkCapacity >= 2, Base, PromptInv, OneIsAnswered, GroundOperation
  PROVE  OneIsAnswered'
<1>1. TypeOK /\ ProtocolTypeOK /\ toGcs' = toGcs /\ OneAck
  BY DEF Base, IInv, GroundOperation, OneIsAnswered
<1>2. ~InProgress
  BY DEF GroundOperation, LoadFromVehicle, WriteMissionItems, WriteResumeMission, StartWrite,
         RemoveAll, Begin
<1>3. AcksOnly(toVehicle) /\ toGcs' = <<>> /\ toVehicle \in Seq(GroundMessage)
  BY <1>1, <1>2, QuietLinks DEF PromptInv, TypeOK
<1>4. ASSUME NEW m, Send(m), m.kind \notin {"Ack", "Item"}, retryCount' = 0
      PROVE  OneIsAnswered'
  <2>1. GoodRequest(m)'
    BY <1>4 DEF GoodRequest
  <2> QED
    BY <1>1, <1>3, <1>4, <2>1, AskedIsAnswered
<1>5. CASE LoadFromVehicle
  <2> PICK m : m = [kind |-> "RequestList", mt |-> PlanType]
    OBVIOUS
  <2>1. Send(m) /\ m.kind = "RequestList" /\ retryCount' = 0
    BY <1>5 DEF LoadFromVehicle, RequestList, Begin
  <2> QED
    BY <1>4, <2>1
<1>6. ASSUME NEW list, StartWrite(list) PROVE OneIsAnswered'
  <2> PICK m : m = [kind |-> "Count", mt |-> PlanType, n |-> Len(list)]
    OBVIOUS
  <2>1. Send(m) /\ m.kind = "Count" /\ retryCount' = 0
    BY <1>6 DEF StartWrite, WriteMissionCount, Begin
  <2> QED
    BY <1>4, <2>1
<1>7. CASE RemoveAll
  <2> PICK m : m = [kind |-> "ClearAll", mt |-> PlanType]
    OBVIOUS
  <2>1. Send(m) /\ m.kind = "ClearAll" /\ retryCount' = 0
    BY <1>7 DEF RemoveAll, RemoveAllWorker, Begin
  <2> QED
    BY <1>4, <2>1
<1> QED
  BY <1>5, <1>6, <1>7 DEF GroundOperation, WriteMissionItems, WriteResumeMission

\* A timeout repeats the request that was left unanswered.
LEMMA TimeoutRepeats ==
  ASSUME Base, PromptInv, Recoverable, OneIsAnswered, GroundTimesOut
  PROVE  /\ toVehicle = <<>> /\ toGcs' = <<>> /\ UNCHANGED <<vehicleVars, regime, transaction>>
         /\ InProgress /\ HasSwallowed
         /\ \E m : Send(m) /\ m.kind \in {"RequestList", "Request", "Count"}
<1>1. /\ TypeOK /\ Control /\ toVehicle = <<>> /\ toGcs = <<>> /\ toGcs' = toGcs
      /\ AckTimeout /\ UNCHANGED <<vehicleVars, regime>>
  BY DEF Base, IInv, GroundTimesOut, Recoverable
<1>2. timerRunning
  BY <1>1 DEF AckTimeout, TimedOut, CountTimeout, ItemTimeout, WriteAbandoned,
              WriteCountTimeout, ClearAllTimeout, GuidedTimeout
<1>3. /\ InProgress
      /\ expectedAck \in {"MissionCount", "MissionItem"} <=> transaction = "Read"
      /\ expectedAck \in {"MissionRequest", "GuidedItem"} <=> transaction = "Write"
      /\ expectedAck = "MissionClearAll" <=> transaction = "RemoveAll"
  BY <1>1, <1>2, WhatIsAwaited
<1>4. AcksOnly(toVehicle)
  BY <1>1 DEF AcksOnly
<1>5. WillRecover
  BY <1>1, <1>3, <1>4 DEF OneIsAnswered
<1>6. ~RetriesExceeded
  BY <1>5, RetryAssumption DEF WillRecover, RetriesExceeded
<1>7. ~WriteAbandoned /\ ~ClearAllTimeout /\ ~GuidedTimeout
  BY <1>3, <1>5 DEF WillRecover, WriteAbandoned, ClearAllTimeout, GuidedTimeout, TimedOut,
                    PromptInv, WriteState
<1>8. CASE CountTimeout
  <2> PICK m : m = [kind |-> "RequestList", mt |-> PlanType]
    OBVIOUS
  <2>1. Send(m) /\ m.kind = "RequestList" /\ transaction' = transaction
    BY <1>6, <1>8 DEF CountTimeout, RequestList, session
  <2> QED
    BY <1>1, <1>3, <1>5, <2>1 DEF WillRecover
<1>9. CASE ItemTimeout
  <2>1. PICK i \in itemIndicesToRead : Send([kind |-> "Request", mt |-> PlanType, seq |-> i])
    BY <1>6, <1>9 DEF ItemTimeout, RequestNextMissionItem
  <2> PICK m : m = [kind |-> "Request", mt |-> PlanType, seq |-> i]
    OBVIOUS
  <2>2. Send(m) /\ m.kind = "Request" /\ transaction' = transaction
    BY <1>6, <1>9, <2>1 DEF ItemTimeout, session
  <2> QED
    BY <1>1, <1>3, <1>5, <2>2 DEF WillRecover
<1>10. CASE WriteCountTimeout
  <2> PICK m : m = [kind |-> "Count", mt |-> PlanType, n |-> Len(writeMissionItems)]
    OBVIOUS
  <2>1. Send(m) /\ m.kind = "Count" /\ transaction' = transaction
    BY <1>6, <1>10 DEF WriteCountTimeout, WriteMissionCount, session
  <2> QED
    BY <1>1, <1>3, <1>5, <2>1 DEF WillRecover
<1> QED
  BY <1>1, <1>7, <1>8, <1>9, <1>10 DEF AckTimeout

LEMMA TimeoutIsAnswered ==
  ASSUME LinkCapacity >= 2, Base, PromptInv, Recoverable, OneIsAnswered, GroundTimesOut
  PROVE  OneIsAnswered'
<1>1. /\ toVehicle = <<>> /\ toGcs' = <<>> /\ UNCHANGED vehicleVars /\ HasSwallowed
      /\ OneAck /\ toVehicle \in Seq(GroundMessage)
  BY TimeoutRepeats DEF OneIsAnswered, Base, IInv, TypeOK
<1>2. PICK m : Send(m) /\ m.kind \in {"RequestList", "Request", "Count"}
  BY TimeoutRepeats
<1>3. ~Swallows(m)'
  BY <1>1 DEF Swallows, HasSwallowed, vehicleVars
<1>4. GoodRequest(m)'
  BY <1>2, <1>3 DEF GoodRequest
<1>5. AcksOnly(toVehicle)
  BY <1>1 DEF AcksOnly
<1> QED
  BY <1>1, <1>2, <1>4, <1>5, AskedIsAnswered

\* What the ground station does with a good answer: it asks for the next item, sends the
\* one that was asked for, or ends the transaction with success.
Proceeds ==
  \/ /\ transaction' = "None" /\ Succeeds
     /\ toVehicle' = toVehicle \/ \E m : Send(m) /\ m.kind = "Ack"
  \/ /\ transaction' = transaction
     /\ \E m : Send(m) /\ m.kind \notin {"Ack", "Item"} /\ retryCount' = 0
  \/ /\ transaction' = transaction
     /\ \E m : /\ Send(m) /\ m.kind = "Item"
               /\ IsNextWritten(m.seq)' /\ itemIndicesToWrite' = ToWrite' \ (0 .. m.seq)

LEMMA ReadCompleteSucceeds ==
  ASSUME NEW items, ReadTransactionComplete(items)
  PROVE  Proceeds
<1>1. Succeeds
  BY DEF ReadTransactionComplete, FinishTransaction, CompletionSignals, ResumeSignals, Signal,
         Succeeds
<1> QED
  BY <1>1, ReadCompleteEnds DEF Proceeds

LEMMA NextProceeds ==
  ASSUME NEW toRead, RequestNextMissionItem(toRead), retryCount' = 0, UNCHANGED session
  PROVE  Proceeds
<1>1. PICK i \in toRead : Send([kind |-> "Request", mt |-> PlanType, seq |-> i])
  BY DEF RequestNextMissionItem
<1> PICK m : m = [kind |-> "Request", mt |-> PlanType, seq |-> i]
  OBVIOUS
<1>2. Send(m) /\ m.kind = "Request" /\ transaction' = transaction
  BY <1>1 DEF session
<1> QED
  BY <1>2 DEF Proceeds

LEMMA AcceptedSucceeds ==
  ASSUME NEW guided, FinishTransaction(TRUE, guided, missionItems, {}), UNCHANGED toVehicle
  PROVE  Proceeds
<1>1. Succeeds
  BY DEF FinishTransaction, CompletionSignals, ResumeSignals, Signal, Succeeds
<1> QED
  BY <1>1 DEF Proceeds, FinishTransaction, EndSession

LEMMA GoodAnswerProceeds ==
  ASSUME NEW a, Received(a), Receive(a), GoodAnswer(a)
  PROVE  Proceeds
<1>1. /\ a \in VehicleMessage /\ TypeOK /\ UNCHANGED vehicleVars
      /\ transaction = "Write" => expectedAck = "MissionRequest"
      /\ Control /\ connections > 0
  BY DEF Received, Base, IInv, PromptInv, WriteState, VehicleSame, Receive
<1>2. transaction = "RemoveAll" => expectedAck = "MissionClearAll"
  BY <1>1, WhatIsAwaited
<1>3. CASE transaction = "Read" /\ a.kind = "Count" /\ a.mt = PlanType
           /\ expectedAck = "MissionCount"
  <2>1. HandleMissionCount(a)
    BY <1>3 DEF Receive
  <2> QED
    BY <1>3, <2>1, ReadCompleteSucceeds, NextProceeds DEF HandleMissionCount
<1>4. CASE transaction = "Read" /\ a.kind = "Item" /\ expectedAck = "MissionItem"
           /\ a.seq \in itemIndicesToRead
  <2>1. HandleMissionItem(a)
    BY <1>4 DEF Receive
  <2> QED
    BY <1>4, <2>1, ReadCompleteSucceeds, NextProceeds DEF HandleMissionItem, ItemWasRequested
<1>5. CASE transaction = "Write" /\ a.kind = "Request" /\ a.mt = PlanType
           /\ IsNextWritten(a.seq) /\ itemIndicesToWrite = ToWrite \ (0 .. a.seq - 1)
  <2>1. HandleMissionRequest(a)
    BY <1>5 DEF Receive
  <2>2. a.seq \in Nat /\ Len(writeMissionItems) \in Nat
    BY <1>1, <1>5, MessageFields, LenProperties DEF TypeOK
  <2>3. ~(a.seq > Len(writeMissionItems) - 1)
    BY <1>5, <2>2 DEF IsNextWritten, ToWrite
  <2> PICK m : m = [kind |-> "Item", mt |-> PlanType, seq |-> a.seq, item |-> ItemToSend(a.seq)]
    OBVIOUS
  <2>4. /\ Send(m) /\ m.kind = "Item" /\ m.seq = a.seq
        /\ itemIndicesToWrite' = itemIndicesToWrite \ {a.seq}
        /\ transaction' = transaction /\ writeMissionItems' = writeMissionItems
    BY <1>1, <1>5, <2>1, <2>3 DEF HandleMissionRequest, session, lists
  <2>5. IsNextWritten(m.seq)'
    BY <1>1, <1>5, <2>4 DEF IsNextWritten, ToWrite, vehicleVars
  <2>6. itemIndicesToWrite' = ToWrite' \ (0 .. m.seq)
    <3>1. ToWrite' = ToWrite
      BY <2>4 DEF ToWrite
    <3>2. (0 .. a.seq - 1) \cup {a.seq} = 0 .. a.seq
      BY <2>2
    <3> QED
      BY <1>5, <2>4, <3>1, <3>2
  <2> QED
    BY <2>4, <2>5, <2>6 DEF Proceeds
<1>6. CASE a.kind = "Ack" /\ a.mt = PlanType /\ a.result = "Accepted"
           /\ AckIsSuccess(a.result) /\ expectedAck /= "None"
  <2>1. HandleMissionAck(a)
    BY <1>6 DEF Receive
  <2>2. AckIsSuccess(a.result) = TRUE
    BY <1>6 DEF AckIsSuccess
  <2>3. FinishTransaction(AckIsSuccess(a.result), expectedAck = "GuidedItem", missionItems,
                          IF AckIsSuccess(a.result) THEN {} ELSE SendError)
        /\ UNCHANGED <<retryCount, toVehicle>>
    BY <1>6, <2>1 DEF HandleMissionAck
  <2>4. FinishTransaction(TRUE, expectedAck = "GuidedItem", missionItems, {})
    BY <2>2, <2>3
  <2> QED
    BY <2>3, <2>4, AcceptedSucceeds
<1> QED
  BY <1>1, <1>2, <1>3, <1>4, <1>5, <1>6 DEF GoodAnswer, AckIsSuccess

\* The answer under way is a good one.
LEMMA AnswerIsGood ==
  ASSUME Base, PromptInv, OneIsAnswered, GroundReceives
  PROVE  /\ Proceeds /\ toGcs' = <<>> /\ UNCHANGED vehicleVars
         /\ toVehicle = <<>> /\ AcksOnly(toVehicle)
<1> PICK a : a = Head(toGcs)
  OBVIOUS
<1>1. Received(a) /\ Receive(a)
  BY TheOneAnswer
<1>2. a = toGcs[1] /\ 1 \in 1 .. Len(toGcs) /\ toVehicle = <<>>
  <2>1. toGcs /= <<>> /\ toGcs \in Seq(VehicleMessage)
    BY DEF GroundReceives, Base, ProtocolTypeOK
  <2>2. Len(toGcs) >= 1 /\ Len(toGcs) \in Nat
    BY <2>1, WithoutFirst
  <2> QED
    BY <2>1, <2>2, WithoutFirst DEF OneIsAnswered
<1>3. GoodAnswer(a)
  BY <1>2 DEF OneIsAnswered
<1> QED
  BY <1>1, <1>2, <1>3, GoodAnswerProceeds DEF Received, VehicleSame

LEMMA ReceiveIsAnswered ==
  ASSUME LinkCapacity >= 2, Base, PromptInv, OneIsAnswered, GroundReceives
  PROVE  OneIsAnswered'
<1>1. /\ Proceeds /\ toGcs' = <<>> /\ UNCHANGED vehicleVars
      /\ toVehicle = <<>> /\ AcksOnly(toVehicle) /\ OneAck /\ toVehicle \in Seq(GroundMessage)
  BY AnswerIsGood DEF OneIsAnswered, Base, IInv, TypeOK
<1>2. CASE /\ transaction' = "None"
           /\ toVehicle' = toVehicle \/ \E m : Send(m) /\ m.kind = "Ack"
  BY <1>1, <1>2, EndedIsAnswered
<1>3. ASSUME NEW m, Send(m), m.kind \notin {"Ack", "Item"}, retryCount' = 0
      PROVE  OneIsAnswered'
  <2>1. GoodRequest(m)'
    BY <1>3 DEF GoodRequest
  <2> QED
    BY <1>1, <1>3, <2>1, AskedIsAnswered
<1>4. ASSUME NEW m, Send(m), m.kind = "Item", IsNextWritten(m.seq)',
             itemIndicesToWrite' = ToWrite' \ (0 .. m.seq)
      PROVE  OneIsAnswered'
  <2>1. GoodRequest(m)'
    BY <1>4 DEF GoodRequest, Swallows
  <2> QED
    BY <1>1, <1>4, <2>1, AskedIsAnswered
<1> QED
  BY <1>1, <1>2, <1>3, <1>4 DEF Proceeds

\* The vehicle answers, or leaves the request unanswered.
LEMMA RespondIsAnswer ==
  ASSUME LinkCapacity >= 2, toGcs = <<>>, toVehicle' = <<>>, NEW r, MockLink!Respond(r),
         GoodAnswer(r)'
  PROVE  OneIsAnswered'
<1>1. toGcs' = Append(toGcs, r)
  <2>1. Len(toGcs) < LinkCapacity
    BY LinkAssumption
  <2> QED
    BY <2>1 DEF MockLink!Respond
<1>2. Len(toGcs') = 1 /\ toGcs'[1] = r /\ Len(toVehicle') = 0 /\ toGcs' /= <<>>
  BY <1>1
<1>3. \A i \in 1 .. Len(toGcs') : toGcs'[i] = r
  BY <1>2
<1> QED
  BY <1>2, <1>3 DEF OneIsAnswered, OneAck

LEMMA UnansweredRecovers ==
  ASSUME toGcs' = <<>>, toVehicle' = <<>>, WillRecover'
  PROVE  OneIsAnswered'
<1>1. Len(toGcs') = 0 /\ Len(toVehicle') = 0
  OBVIOUS
<1> QED
  BY <1>1 DEF OneIsAnswered, OneAck

\* Served by a vehicle that recovers
Answered(m) ==
  /\ Served(m) /\ MockLink!HandleMessage(m)
  /\ LinkCapacity >= 2 /\ failureMode \in RecoverableModes /\ GoodRequest(m)

LEMMA NextIsGood ==
  ASSUME LinkCapacity >= 2, toGcs = <<>>, toVehicle' = <<>>, failureMode \in RecoverableModes,
         NEW index \in Nat, NEW count \in Nat, index < count,
         MockLink!RequestNextMissionItem(PlanType, index, count),
         transaction' = "Write", IsNextWritten(index)',
         itemIndicesToWrite' = ToWrite' \ (0 .. index - 1)
  PROVE  OneIsAnswered'
<1> PICK r : r = [kind |-> "Request", mt |-> PlanType, seq |-> index]
  OBVIOUS
<1>1. ~(index >= count)
  OBVIOUS
<1>2. /\ ~MockLink!Fails(index, "", "FailWriteRequest1NoResponse")
      /\ ~MockLink!Fails(index, "FailWriteRequest0IncorrectSequence",
                                "FailWriteRequest1IncorrectSequence")
      /\ ~MockLink!Fails(index, "FailWriteRequest0ErrorAck", "FailWriteRequest1ErrorAck")
  BY DEF RecoverableModes, MockLink!Fails
<1>3. MockLink!Respond(r)
  BY <1>1, <1>2 DEF MockLink!RequestNextMissionItem
<1>4. GoodAnswer(r)'
  BY DEF GoodAnswer
<1> QED
  BY <1>3, <1>4, RespondIsAnswer

LEMMA ServedFacts ==
  ASSUME NEW m, Answered(m)
  PROVE  /\ toGcs = <<>> /\ toVehicle' = <<>> /\ m.mt = PlanType /\ m \in GroundMessage
         /\ UNCHANGED <<transaction, expectedAck, retryCount, itemIndicesToRead,
                        itemIndicesToWrite, writeMissionItems>>
         /\ ToWrite' = ToWrite /\ ~WrongFirst /\ Len(writeMissionItems) \in Nat
         /\ LinkCapacity >= 2
BY LenProperties
   DEF Answered, Served, RequestOK, managerVars, ackTimer, session, indices, lists, ToWrite,
       WrongFirst, RecoverableModes, Base, IInv, TypeOK

LEMMA SwallowedRecovers ==
  ASSUME NEW m, Answered(m), Swallows(m), toGcs' = toGcs, HasSwallowed',
         transaction \in {"Read", "Write"}, transaction = "Write" => 0 \in itemIndicesToWrite
  PROVE  OneIsAnswered'
<1>1. retryCount = 0
  BY DEF Answered, GoodRequest
<1>2. WillRecover'
  BY <1>1, ServedFacts DEF WillRecover
<1> QED
  BY <1>2, ServedFacts, UnansweredRecovers

LEMMA ClearAllIsAnswered ==
  ASSUME NEW m, Answered(m), m.kind = "ClearAll"
  PROVE  OneIsAnswered'
<1> PICK r : r = [kind |-> "Ack", mt |-> PlanType, result |-> "Accepted"]
  OBVIOUS
<1>1. transaction = "RemoveAll"
  BY DEF Answered, Served, RequestOK, ReadRequest, WriteRequest
<1>2. MockLink!Respond(r)
  BY ServedFacts DEF Answered, MockLink!HandleMessage, MockLink!HandleMissionClearAll, MockLink!SendAck
<1>3. GoodAnswer(r)'
  BY <1>1, ServedFacts DEF GoodAnswer
<1> QED
  BY <1>2, <1>3, ServedFacts, RespondIsAnswer

LEMMA RequestListIsAnswered ==
  ASSUME NEW m, Answered(m), m.kind = "RequestList"
  PROVE  OneIsAnswered'
<1> PICK r : r = [kind |-> "Count", mt |-> PlanType, n |-> MockLink!StoredCount(PlanType)]
  OBVIOUS
<1>1. transaction = "Read" /\ expectedAck = "MissionCount"
  BY DEF Answered, Served, RequestOK, ReadRequest, WriteRequest
<1>2. MockLink!HandleMissionRequestList(m) /\ failureMode /= "FailReadRequestListNoResponse"
  BY DEF Answered, MockLink!HandleMessage, RecoverableModes
<1>3. CASE failureMode = "FailReadRequestListFirstResponse" /\ "ReadRequestList" \in failFirst
  <2>1. Swallows(m)
    BY <1>3 DEF Swallows
  <2>2. /\ toGcs' = toGcs /\ failureMode' = failureMode
        /\ failFirst' = (failFirst \cup {"ReadRequest1"}) \ {"ReadRequestList"}
    BY <1>2, <1>3 DEF MockLink!HandleMissionRequestList, MockLink!NoResponse
  <2>3. HasSwallowed'
    BY <1>3, <2>2 DEF HasSwallowed
  <2> QED
    BY <1>1, <2>1, <2>2, <2>3, SwallowedRecovers
<1>4. CASE ~(failureMode = "FailReadRequestListFirstResponse" /\ "ReadRequestList" \in failFirst)
  <2>1. MockLink!Respond(r)
    BY <1>2, <1>4, ServedFacts DEF MockLink!HandleMissionRequestList
  <2>2. GoodAnswer(r)'
    BY <1>1, ServedFacts DEF GoodAnswer
  <2> QED
    BY <2>1, <2>2, ServedFacts, RespondIsAnswer
<1> QED
  BY <1>3, <1>4

LEMMA RequestIsAnswered ==
  ASSUME NEW m, Answered(m), m.kind = "Request"
  PROVE  OneIsAnswered'
<1>1. /\ transaction = "Read" /\ expectedAck = "MissionItem" /\ m.seq \in itemIndicesToRead
  BY DEF Answered, Served, RequestOK, ReadRequest, WriteRequest
<1>2. MockLink!HandleMissionRequest(m)
  BY DEF Answered, MockLink!HandleMessage
<1> PICK first \in BOOLEAN :
      first <=> /\ failureMode = "FailReadRequest1FirstResponse"
                /\ m.seq = 1
                /\ "ReadRequest1" \in failFirst
  OBVIOUS
<1>3. CASE first
  <2>1. Swallows(m)
    BY <1>3 DEF Swallows
  <2>2. /\ toGcs' = toGcs /\ failureMode' = failureMode
        /\ failFirst' = failFirst \ {"ReadRequest1"}
    BY <1>2, <1>3 DEF MockLink!HandleMissionRequest, MockLink!NoResponse
  <2>3. HasSwallowed'
    BY <1>3, <2>2 DEF HasSwallowed
  <2> QED
    BY <1>1, <2>1, <2>2, <2>3, SwallowedRecovers
<1>4. CASE ~first
  <2>1. /\ ~MockLink!Fails(m.seq, "FailReadRequest0IncorrectSequence",
                                  "FailReadRequest1IncorrectSequence")
        /\ ~MockLink!Fails(m.seq, "FailReadRequest0NoResponse", "FailReadRequest1NoResponse")
        /\ ~MockLink!Fails(m.seq, "FailReadRequest0ErrorAck", "FailReadRequest1ErrorAck")
    BY DEF Answered, RecoverableModes, MockLink!Fails
  <2>2. MockLink!RespondWithItem(m.mt, m.seq)
    BY <1>2, <1>4, <2>1 DEF MockLink!HandleMissionRequest
  <2>3. PICK item : MockLink!Respond([kind |-> "Item", mt |-> requestType, seq |-> m.seq,
                                      item |-> item])
    BY <2>2 DEF MockLink!RespondWithItem
  <2> PICK r : r = [kind |-> "Item", mt |-> requestType, seq |-> m.seq, item |-> item]
    OBVIOUS
  <2>4. GoodAnswer(r)'
    BY <1>1, ServedFacts DEF GoodAnswer
  <2> QED
    BY <2>3, <2>4, ServedFacts, RespondIsAnswer
<1> QED
  BY <1>3, <1>4

LEMMA CountIsAnswered ==
  ASSUME NEW m, Answered(m), m.kind = "Count"
  PROVE  OneIsAnswered'
<1>1. /\ transaction = "Write" /\ m.n = Len(writeMissionItems) /\ itemIndicesToWrite = ToWrite
  BY ServedFacts DEF Answered, Served, RequestOK, ReadRequest, WriteRequest
<1>2. /\ MockLink!HandleMissionCount(m) /\ failureMode /= "FailWriteMissionCountNoResponse"
      /\ m.n \in Nat
  BY <1>1, ServedFacts DEF Answered, MockLink!HandleMessage, RecoverableModes
<1>3. requestType' = PlanType /\ writeSequenceCount' = Len(writeMissionItems)
  BY <1>1, <1>2, ServedFacts DEF MockLink!HandleMissionCount
<1>4. CASE m.n = 0
  <2> PICK r : r = [kind |-> "Ack", mt |-> PlanType, result |-> "Accepted"]
    OBVIOUS
  <2>1. MockLink!Respond(r)
    BY <1>2, <1>4, ServedFacts DEF MockLink!HandleMissionCount, MockLink!SendAck
  <2>2. itemIndicesToWrite = {}
    BY <1>1, <1>4 DEF ToWrite
  <2>3. GoodAnswer(r)'
    BY <1>1, <2>2, ServedFacts DEF GoodAnswer
  <2> QED
    BY <2>1, <2>3, ServedFacts, RespondIsAnswer
<1>5. CASE m.n /= 0 /\ failureMode = "FailWriteMissionCountFirstResponse"
           /\ "WriteMissionCount" \in failFirst
  <2>1. Swallows(m)
    BY <1>5 DEF Swallows
  <2>2. /\ toGcs' = toGcs /\ failureMode' = failureMode
        /\ failFirst' = failFirst \ {"WriteMissionCount"}
    BY <1>2, <1>5 DEF MockLink!HandleMissionCount, MockLink!NoResponse
  <2>3. HasSwallowed'
    BY <1>5, <2>2 DEF HasSwallowed
  <2>4. 0 \in itemIndicesToWrite
    BY <1>1, <1>2, <1>5 DEF ToWrite
  <2> QED
    BY <1>1, <2>1, <2>2, <2>3, <2>4, SwallowedRecovers
<1>6. CASE m.n /= 0 /\ ~(failureMode = "FailWriteMissionCountFirstResponse"
                         /\ "WriteMissionCount" \in failFirst)
  <2>1. writeSequenceIndex' = 0 /\ MockLink!RequestNextMissionItem(PlanType, 0, m.n)
    BY <1>2, <1>6, ServedFacts DEF MockLink!HandleMissionCount
  <2>2. 0 \in ToWrite
    BY <1>1, <1>2, <1>6 DEF ToWrite
  <2>3. IsNextWritten(0)'
    BY <1>3, <2>1, <2>2, ServedFacts DEF IsNextWritten
  <2>4. itemIndicesToWrite' = ToWrite' \ (0 .. 0 - 1)
    BY <1>1, ServedFacts
  <2>5. 0 < m.n /\ 0 \in Nat /\ transaction' = "Write"
    BY <1>1, <1>2, <1>6, ServedFacts
  <2> QED
    BY <1>2, <2>1, <2>3, <2>4, <2>5, ServedFacts, NextIsGood DEF Answered
<1> QED
  BY <1>4, <1>5, <1>6

LEMMA ItemIsServed ==
  ASSUME NEW m, Answered(m), m.kind = "Item"
  PROVE  OneIsAnswered'
<1>1. /\ transaction = "Write" /\ IsNextWritten(m.seq)
      /\ itemIndicesToWrite = ToWrite \ (0 .. m.seq)
  BY DEF Answered, Served, RequestOK, ReadRequest, WriteRequest, GoodRequest
<1>2. /\ MockLink!HandleMissionItem(m) /\ m.seq \in Nat
      /\ failureMode \notin {"FailWriteFinalAckMissingRequests", "FailWriteFinalAckNoResponse",
                             "FailWriteFinalAckErrorAck"}
  <2>1. m \in GroundMessage
    BY ServedFacts
  <2> QED
    BY <2>1, GroundFields DEF Answered, MockLink!HandleMessage, RecoverableModes
<1> PICK next \in Nat : next = m.seq + 1
  BY <1>2
<1>3. /\ writeSequenceIndex' = next /\ requestType' = PlanType
      /\ writeSequenceCount = Len(writeMissionItems)
      /\ writeSequenceCount' = Len(writeMissionItems)
      /\ writeSequenceIndex + 1 = next /\ requestType = PlanType
  BY <1>1, <1>2 DEF MockLink!HandleMissionItem, IsNextWritten
<1>4. CASE next < Len(writeMissionItems)
  <2>1. MockLink!RequestNextMissionItem(PlanType, next, Len(writeMissionItems))
    BY <1>2, <1>3, <1>4 DEF MockLink!HandleMissionItem
  <2>2. next \in ToWrite
    BY <1>4, ServedFacts DEF ToWrite
  <2>3. IsNextWritten(next)'
    BY <1>3, <2>2, ServedFacts DEF IsNextWritten
  <2>4. itemIndicesToWrite' = ToWrite' \ (0 .. next - 1)
    <3>1. next - 1 = m.seq
      BY <1>2
    <3> QED
      BY <1>1, <3>1, ServedFacts
  <2>5. transaction' = "Write" /\ Len(writeMissionItems) \in Nat
    BY <1>1, ServedFacts
  <2> QED
    BY <1>4, <2>1, <2>3, <2>4, <2>5, ServedFacts, NextIsGood DEF Answered
<1>5. CASE ~(next < Len(writeMissionItems))
  <2> PICK r : r = [kind |-> "Ack", mt |-> PlanType, result |-> "Accepted"]
    OBVIOUS
  <2>1. MockLink!Respond(r)
    BY <1>2, <1>3, <1>5 DEF MockLink!HandleMissionItem, MockLink!SendAck
  <2>2. itemIndicesToWrite = {}
    BY <1>1, <1>2, <1>5, ServedFacts DEF ToWrite
  <2>3. GoodAnswer(r)'
    BY <1>1, <2>2, ServedFacts DEF GoodAnswer
  <2> QED
    BY <2>1, <2>3, ServedFacts, RespondIsAnswer
<1> QED
  BY <1>4, <1>5

\* Nothing changes but that an acknowledgement is taken.
LEMMA TakenIsAnswered ==
  ASSUME OneIsAnswered, toVehicle \in Seq(GroundMessage),
         UNCHANGED <<managerVars, vehicleVars, toGcs>>,
         \/ UNCHANGED toVehicle
         \/ toVehicle /= <<>> /\ toVehicle' = Tail(toVehicle) /\ Head(toVehicle).kind = "Ack"
  PROVE  OneIsAnswered'
<1>1. /\ UNCHANGED <<transaction, expectedAck, retryCount, itemIndicesToRead,
                     itemIndicesToWrite, writeMissionItems, requestType, writeSequenceCount,
                     writeSequenceIndex, failureMode, failFirst, toGcs>>
      /\ ToWrite' = ToWrite
  BY DEF managerVars, ackTimer, session, indices, lists, vehicleVars, ToWrite
<1>2. \A s : IsNextWritten(s)' = IsNextWritten(s)
  BY <1>1 DEF IsNextWritten
<1>3. \A m : Swallows(m)' = Swallows(m)
  BY <1>1 DEF Swallows
<1>4. ASSUME NEW m, GoodRequest(m) PROVE GoodRequest(m)'
  BY <1>1, <1>2, <1>3, <1>4 DEF GoodRequest
<1>5. ASSUME NEW a, GoodAnswer(a) PROVE GoodAnswer(a)'
  BY <1>1, <1>2, <1>5 DEF GoodAnswer
<1>6. \A i \in 1 .. Len(toGcs') : GoodAnswer(toGcs[i])'
  BY <1>1, <1>5 DEF OneIsAnswered
<1>7. WillRecover => WillRecover'
  BY <1>1 DEF WillRecover, HasSwallowed
<1>8. \A i \in 1 .. Len(toVehicle) : toVehicle[i].kind /= "Ack" =>
        \E m : m = toVehicle[i] /\ GoodRequest(m)'
  BY <1>4 DEF OneIsAnswered
<1>9. CASE UNCHANGED toVehicle
  BY <1>1, <1>6, <1>7, <1>8, <1>9 DEF OneIsAnswered, OneAck, AcksOnly, InProgress
<1>10. CASE toVehicle /= <<>> /\ toVehicle' = Tail(toVehicle) /\ Head(toVehicle).kind = "Ack"
  <2>1. /\ Head(toVehicle) = toVehicle[1] /\ Len(toVehicle) >= 1 /\ Len(toVehicle) \in Nat
        /\ Len(toVehicle') = Len(toVehicle) - 1
        /\ \A i \in 1 .. Len(toVehicle') :
             i + 1 \in 1 .. Len(toVehicle) /\ toVehicle'[i] = toVehicle[i + 1]
    BY <1>10, WithoutFirst, LenProperties
  <2>2. \A i \in 1 .. Len(toVehicle') : i + 1 /= 1
    OBVIOUS
  <2>3. \A i \in 1 .. Len(toVehicle') :
          toVehicle'[i].kind /= "Ack" /\ \E m : m = toVehicle'[i] /\ GoodRequest(m)'
    BY <1>8, <2>1, <2>2 DEF OneIsAnswered, OneAck
  <2>4. AcksOnly(toVehicle') => AcksOnly(toVehicle)
    <3> SUFFICES ASSUME AcksOnly(toVehicle'), NEW i \in 1 .. Len(toVehicle), i /= 1
                 PROVE  toVehicle[i].kind = "Ack"
      BY <1>10, <2>1 DEF AcksOnly
    <3> PICK j : j = i - 1
      OBVIOUS
    <3>1. j \in 1 .. Len(toVehicle') /\ j + 1 = i
      BY <2>1
    <3> QED
      BY <2>1, <3>1 DEF AcksOnly
  <2>5. toGcs' = <<>>
    BY <1>1, <1>10 DEF OneIsAnswered
  <2>6. Len(toGcs') = 0
    BY <2>5
  <2> QED
    BY <1>1, <1>7, <2>3, <2>4, <2>5, <2>6 DEF OneIsAnswered, OneAck, AcksOnly, InProgress
<1> QED
  BY <1>9, <1>10

LEMMA VehicleAnswers ==
  ASSUME LinkCapacity >= 2, Base, PromptInv, Recoverable, OneIsAnswered, VehicleReceives
  PROVE  OneIsAnswered'
<1> PICK m : m = Head(toVehicle)
  OBVIOUS
<1>1. /\ toVehicle \in Seq(GroundMessage) /\ toVehicle /= <<>> /\ toVehicle' = Tail(toVehicle)
      /\ UNCHANGED <<managerVars, regime>> /\ MockLink!HandleMessage(m)
  BY DEF Base, IInv, TypeOK, VehicleReceives
<1>2. m = toVehicle[1] /\ m \in GroundMessage /\ Len(toVehicle) \in Nat /\ Len(toVehicle) >= 1
  BY <1>1, WithoutFirst
<1>3. CASE m.kind = "Ack"
  <2>1. UNCHANGED <<vehicleVars, toGcs>>
    BY <1>1, <1>3, VehicleEffects
  <2> QED
    BY <1>1, <1>3, <2>1, TakenIsAnswered
<1>4. CASE m.kind /= "Ack"
  <2>1. 1 \in 1 .. Len(toVehicle)
    BY <1>2
  <2>2. Len(toVehicle) = 1 /\ toGcs = <<>> /\ RequestOK(m) /\ GoodRequest(m)
    BY <1>2, <1>4, <2>1 DEF PromptInv, Exchange, OneIsAnswered
  <2>3. Tail(toVehicle) = <<>>
    <3>1. \A i \in 1 .. Len(toVehicle) : i = 1
      BY <2>2
    <3> QED
      BY <1>1, <3>1, OneAtMost
  <2>4. Answered(m)
    BY <1>1, <1>2, <2>2, <2>3 DEF Served, Answered, Recoverable
  <2> QED
    BY <1>2, <1>4, <2>4, GroundFields, ClearAllIsAnswered, RequestListIsAnswered,
       RequestIsAnswered, CountIsAnswered, ItemIsServed
<1> QED
  BY <1>3, <1>4

LEMMA RecoverStep ==
  ASSUME LinkCapacity >= 2, ProtocolInv, RecoverInv, [ProtocolNext]_protocolVars
  PROVE  RecoverInv'
<1>1. regime' = regime
  BY DEF ProtocolNext, GroundOperation, GroundReceives, GroundTimesOut, VehicleReceives,
         LoseToVehicle, LoseToGcs, protocolVars
<1>2. failureMode' = failureMode
  <2>1. CASE VehicleReceives
    <3>1. MockLink!HandleMessage(Head(toVehicle))
      BY <2>1 DEF VehicleReceives
    <3> QED
      BY <3>1, VehicleEffects
         DEF ClearAllEffect, RequestListEffect, RequestEffect, CountEffect, ItemEffect, vehicleVars
  <2>2. CASE ~VehicleReceives
    BY <2>2 DEF ProtocolNext, GroundOperation, GroundReceives, GroundTimesOut, LoseToVehicle,
                LoseToGcs, protocolVars, vehicleVars
  <2> QED
    BY <2>1, <2>2
<1> SUFFICES ASSUME Recoverable, OneIsAnswered, Base, PromptInv PROVE OneIsAnswered'
  BY <1>1, <1>2 DEF RecoverInv, Recoverable, ProtocolInv
<1>3. CASE UNCHANGED protocolVars
  BY <1>3, TakenIsAnswered DEF protocolVars, vars, Base, IInv, TypeOK
<1>4. ~LoseToVehicle /\ ~LoseToGcs
  BY DEF LoseToVehicle, LoseToGcs, Recoverable
<1> QED
  BY <1>3, <1>4, OperationIsAnswered, ReceiveIsAnswered, TimeoutIsAnswered, VehicleAnswers
     DEF ProtocolNext

LEMMA RecoverStarts == ProtocolInit => RecoverInv
<1> SUFFICES ASSUME ProtocolInit PROVE OneIsAnswered
  BY DEF RecoverInv
<1>1. toGcs = <<>> /\ toVehicle = <<>> /\ transaction = "None"
  BY DEF ProtocolInit, Init, MockLink!Init
<1>2. Len(toGcs) = 0 /\ Len(toVehicle) = 0
  BY <1>1
<1> QED
  BY <1>1, <1>2 DEF OneIsAnswered, OneAck, InProgress

LEMMA EndsWithSuccess ==
  ASSUME LosslessIsPrompt, ProtocolInv, RecoverInv, [ProtocolNext]_protocolVars,
         InProgress, ~InProgress', ~regime.lossy, failureMode \in RecoverableModes
  PROVE  Succeeds
<1>1. Base /\ regime.prompt /\ PromptInv /\ Recoverable /\ OneIsAnswered
  BY DEF LosslessIsPrompt, ProtocolInv, Base, ProtocolTypeOK, RecoverInv, Recoverable
<1>2. transaction /= "None" /\ transaction' = "None"
  BY DEF InProgress
<1>3. CASE GroundOperation
  BY <1>2, <1>3 DEF GroundOperation, LoadFromVehicle, WriteMissionItems, WriteResumeMission,
                    StartWrite, RemoveAll, Begin, InProgress
<1>4. CASE GroundTimesOut
  BY <1>1, <1>2, <1>4, TimeoutRepeats
<1>5. CASE VehicleReceives \/ LoseToVehicle \/ LoseToGcs \/ UNCHANGED protocolVars
  BY <1>2, <1>5
     DEF VehicleReceives, LoseToVehicle, LoseToGcs, protocolVars, vars, managerVars, session
<1>6. CASE GroundReceives
  BY <1>1, <1>2, <1>6, AnswerIsGood DEF Proceeds
<1> QED
  BY <1>3, <1>4, <1>5, <1>6 DEF ProtocolNext

\* A vehicle that leaves the first list request, the first request of an item or the first
\* count unanswered makes no transaction fail where no message is lost.
THEOREM RetriesAreEnough ==
  ASSUME LosslessIsPrompt, LinkCapacity >= 2
  PROVE  ProtocolSpec => RetriesRecover
<1>1. ProtocolInit => ProtocolInv /\ RecoverInv
  BY BaseStarts, ExchangeStarts, RecoverStarts DEF ProtocolInv
<1>2. ProtocolInv /\ RecoverInv /\ [ProtocolNext]_protocolVars => (ProtocolInv /\ RecoverInv)'
  BY ProtocolInvStep, RecoverStep
<1>3. ProtocolInv /\ RecoverInv /\ [ProtocolNext]_protocolVars =>
        [InProgress /\ ~InProgress' /\ ~regime.lossy /\ failureMode \in RecoverableModes
           => Succeeds]_protocolVars
  BY EndsWithSuccess
<1> QED
  BY <1>1, <1>2, <1>3, PTL DEF ProtocolSpec, RetriesRecover
=============================================================================
