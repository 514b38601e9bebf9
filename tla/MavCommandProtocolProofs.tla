----------------------- MODULE MavCommandProtocolProofs -----------------------
(***************************************************************************)
(* Theorems about commands sent to the vehicle of the repository, for every  *)
(* set of regimes, commands and parameters: what is reported as accepted is  *)
(* in effect, and, when nothing is lost, every command ends as              *)
(* SendMavCommandTest expects.  Where the timer outlasts a round trip, one   *)
(* message at most is under way, and it is about the head of the queue.      *)
(* Where it does not, late answers and repeated commands pile up on the       *)
(* links; they speak of the head of the queue if none did when it was sent.   *)
(***************************************************************************)
EXTENDS MavCommandProtocol, MavCommandQueueProofs

ProtocolTypeOK ==
  /\ regime \in Regimes
  /\ toGcs \in Seq(CommandAck)
  /\ armed \in BOOLEAN /\ sentAfresh \in BOOLEAN
  /\ firstAttempt \subseteq MockLink!SecondAttemptCommand

\* The answer of the vehicle to a request.
AnswerTo(r) == [command |-> r.command, result |-> MockLink!Result(r.command)]

\* What the vehicle did for a request it answers.
TakesEffect(r) ==
  /\ r.command /= "User5"
  /\ r.command = "ArmDisarm" => armed = (r.param /= 0)

\* It is the repository's vehicle, and the ack timer outlasts a round trip.
Prompt == ~regime.open /\ regime.prompt

NothingUnderWay == toVehicle = <<>> /\ toGcs = <<>>

RequestUnderWay ==
  /\ mavCommandQueue /= <<>>
  /\ toVehicle = <<Head(mavCommandQueue)>>
  /\ toGcs = <<>>

AnswerUnderWay ==
  /\ mavCommandQueue /= <<>>
  /\ toVehicle = <<>>
  /\ toGcs = <<AnswerTo(Head(mavCommandQueue))>>
  /\ TakesEffect(Head(mavCommandQueue))

\* One message at most is under way: the command at the head of the queue or the
\* answer to it, of which then what it says is true.
OneMessage == NothingUnderWay \/ RequestUnderWay \/ AnswerUnderWay

\* A test command that is answered is under way for the first time, or for the
\* second after the vehicle has left out the first; unanswered is only that one.
AttemptsOK ==
  mavCommandQueue /= <<>> /\ Head(mavCommandQueue).command /= "User5" =>
    /\ RequestUnderWay =>
         \/ mavCommandRetryCount = 1
         \/ mavCommandRetryCount = 2 /\ Head(mavCommandQueue).command \notin firstAttempt
    /\ NothingUnderWay =>
         /\ mavCommandRetryCount = 1
         /\ Head(mavCommandQueue).command \in MockLink!SecondAttemptCommand \ firstAttempt

IsArmDisarm(r) == r.command = "ArmDisarm"

\* What is under way of arming and disarming, when only r was sent for it: r again
\* and again, and acknowledgements of an r that has been executed.
OnlyFor(r) ==
  /\ \A i \in 1 .. Len(toVehicle) : IsArmDisarm(toVehicle[i]) => toVehicle[i] = r
  /\ \A i \in 1 .. Len(toGcs) : IsArmDisarm(toGcs[i]) => armed = (r.param /= 0)

AfreshOK ==
  sentAfresh /\ mavCommandQueue /= <<>> /\ IsArmDisarm(Head(mavCommandQueue)) =>
    OnlyFor(Head(mavCommandQueue))

\* The inductive invariant: that of the queue and what is under way.
ProtocolInv ==
  /\ IInv
  /\ ProtocolTypeOK
  /\ Prompt => OneMessage
  /\ ~regime.open => AfreshOK

\* What it takes in addition where nothing is lost.
LosslessInv == Prompt /\ ~regime.lossy => AttemptsOK
-----------------------------------------------------------------------------
(* Sending *)

\* Links that hold one message or none, and what is left of a link.
LEMMA ShortLinks ==
  ASSUME NEW S, NEW m \in S
  PROVE  <<m>> \in Seq(S) /\ <<>> \in Seq(S)
OBVIOUS

LEMMA LinkAfterHead ==
  ASSUME NEW S, NEW link \in Seq(S), link /= <<>>
  PROVE  Head(link) \in S /\ Tail(link) \in Seq(S)
OBVIOUS

\* On an empty link what is sent is under way alone, or lost with a link that
\* holds nothing.
LEMMA SendOnEmptyLink ==
  ASSUME NEW r, toVehicle = <<>>, Send(r)
  PROVE  /\ toVehicle' = <<r>> \/ toVehicle' = <<>>
         /\ LinkCapacity >= 1 => toVehicle' = <<r>>
<1>1. Len(toVehicle) = 0 /\ Append(toVehicle, r) = <<r>>
  OBVIOUS
<1>2. CASE LinkCapacity >= 1
  BY <1>1, <1>2, LimitAssumption DEF Send
<1>3. CASE ~(LinkCapacity >= 1)
  BY <1>1, <1>3, LimitAssumption DEF Send
<1> QED
  BY <1>2, <1>3

\* When nothing is under way, the next command of the queue is sent alone, for the
\* first time.
LEMMA NextIsUnderWay ==
  ASSUME NEW retries, SendNextQueued(mavCommandQueue', retries),
         toVehicle = <<>>, toGcs' = <<>>
  PROVE  /\ OneMessage'
         /\ LinkCapacity >= 1 => AttemptsOK'
<1>1. CASE mavCommandQueue' /= <<>> /\ SendHead(mavCommandQueue')
  <2>1. mavCommandRetryCount' = 1 /\ Send(Head(mavCommandQueue'))
    BY <1>1 DEF SendHead
  <2>2. /\ toVehicle' = <<Head(mavCommandQueue')>> \/ toVehicle' = <<>>
        /\ LinkCapacity >= 1 => toVehicle' = <<Head(mavCommandQueue')>>
    BY <2>1, SendOnEmptyLink
  <2>3. OneMessage'
    BY <1>1, <2>2 DEF OneMessage, RequestUnderWay, NothingUnderWay
  <2>4. ASSUME LinkCapacity >= 1 PROVE AttemptsOK'
    <3>1. toVehicle' /= <<>>
      BY <2>2, <2>4
    <3> QED
      BY <2>1, <3>1 DEF AttemptsOK, NothingUnderWay
  <2> QED
    BY <2>3, <2>4
<1>2. CASE mavCommandQueue' = <<>> /\ UNCHANGED toVehicle
  BY <1>2 DEF OneMessage, NothingUnderWay, AttemptsOK
<1> QED
  BY <1>1, <1>2 DEF SendNextQueued
-----------------------------------------------------------------------------
(* What was under way when the head of the queue was sent *)

\* A link after its head is taken holds what it held behind it, and after a message
\* is sent what it held and perhaps that message.
LEMMA TailEntries ==
  ASSUME NEW S, NEW link \in Seq(S), link /= <<>>
  PROVE  \A i \in 1 .. Len(Tail(link)) :
           i + 1 \in 1 .. Len(link) /\ Tail(link)[i] = link[i + 1]
OBVIOUS

LEMMA AppendEntries ==
  ASSUME NEW S, NEW link \in Seq(S), NEW m \in S
  PROVE  \A i \in 1 .. Len(Append(link, m)) :
           \/ i \in 1 .. Len(link) /\ Append(link, m)[i] = link[i]
           \/ Append(link, m)[i] = m
OBVIOUS

LEMMA RememberType ==
  ASSUME ProtocolTypeOK, Remember
  PROVE  sentAfresh' \in BOOLEAN
BY DEF ProtocolTypeOK, Remember

\* A command sent when nothing of its MAV_CMD was under way is alone with it.
LEMMA SentAlone ==
  ASSUME ProtocolTypeOK, toVehicle \in Seq(Request), NEW r \in Request, Send(r),
         ~UnderWay(r, toVehicle, toGcs'), IsArmDisarm(r)
  PROVE  OnlyFor(r)'
<1>1. /\ \A i \in 1 .. Len(toVehicle) : ~IsArmDisarm(toVehicle[i])
      /\ \A i \in 1 .. Len(toGcs') : ~IsArmDisarm(toGcs'[i])
  BY DEF UnderWay, IsArmDisarm
<1>2. toVehicle' = toVehicle \/ toVehicle' = Append(toVehicle, r)
  BY DEF Send
<1>3. \A i \in 1 .. Len(toVehicle') : IsArmDisarm(toVehicle'[i]) => toVehicle'[i] = r
  <2>1. CASE toVehicle' = toVehicle
    BY <1>1, <2>1
  <2>2. CASE toVehicle' = Append(toVehicle, r)
    BY <1>1, <2>2, AppendEntries
  <2> QED
    BY <1>2, <2>1, <2>2
<1> QED
  BY <1>1, <1>3 DEF OnlyFor

\* So it is with the next command of the queue.
LEMMA NextIsAfresh ==
  ASSUME ProtocolInv, NEW retries, SendNextQueued(mavCommandQueue', retries), Remember,
         mavCommandQueue' \in Seq(Request),
         mavCommandQueue = <<>> \/ Len(mavCommandQueue') < Len(mavCommandQueue)
  PROVE  AfreshOK'
<1> SUFFICES ASSUME sentAfresh', mavCommandQueue' /= <<>>, IsArmDisarm(Head(mavCommandQueue'))
             PROVE  OnlyFor(Head(mavCommandQueue))'
  BY DEF AfreshOK, IsArmDisarm
<1>1. Head(mavCommandQueue') \in Request
  BY HeadIsRequest
<1>2. SendsNext /\ Send(Head(mavCommandQueue'))
  BY DEF SendsNext, SendNextQueued, SendHead
<1>3. ~UnderWay(Head(mavCommandQueue'), toVehicle, toGcs')
  BY <1>2 DEF Remember
<1>4. PICK h \in Request : h = Head(mavCommandQueue')
  BY <1>1
<1>5. toVehicle \in Seq(Request) /\ ProtocolTypeOK
  BY DEF ProtocolInv, IInv, TypeOK
<1>6. Send(h) /\ ~UnderWay(h, toVehicle, toGcs') /\ IsArmDisarm(h)
  BY <1>2, <1>3, <1>4
<1>7. OnlyFor(h)'
  BY <1>5, <1>6, SentAlone
<1> QED
  BY <1>4, <1>7 DEF OnlyFor

\* The command at the head of the queue stays there.
HeadStays ==
  /\ mavCommandQueue /= <<>> /\ mavCommandQueue' /= <<>>
  /\ Head(mavCommandQueue') = Head(mavCommandQueue)
  /\ sentAfresh' = sentAfresh /\ armed' = armed

\* The links keep, deliver or lose what they hold, or that command is sent again.
LinksMove ==
  /\ \/ toVehicle' = toVehicle
     \/ toVehicle' = Append(toVehicle, Head(mavCommandQueue))
     \/ toVehicle /= <<>> /\ toVehicle' = Tail(toVehicle)
  /\ \/ toGcs' = toGcs
     \/ toGcs /= <<>> /\ toGcs' = Tail(toGcs)

\* It stays alone meanwhile.
LEMMA HeadStaysAlone ==
  ASSUME ProtocolInv, ~regime.open, HeadStays, LinksMove
  PROVE  AfreshOK'
<1> USE DEF HeadStays, LinksMove
<1> SUFFICES ASSUME sentAfresh, IsArmDisarm(Head(mavCommandQueue))
             PROVE  OnlyFor(Head(mavCommandQueue))'
  BY DEF AfreshOK, OnlyFor, IsArmDisarm
<1>1. PICK h : h = Head(mavCommandQueue)
  OBVIOUS
<1>2. h \in Request /\ toVehicle \in Seq(Request) /\ toGcs \in Seq(CommandAck)
  BY <1>1, HeadIsRequest DEF ProtocolInv, IInv, TypeOK, ProtocolTypeOK
<1>3. OnlyFor(h)
  BY <1>1 DEF ProtocolInv, AfreshOK
<1>4. \A i \in 1 .. Len(toVehicle') : IsArmDisarm(toVehicle'[i]) => toVehicle'[i] = h
  <2>1. CASE toVehicle' = toVehicle
    BY <1>3, <2>1 DEF OnlyFor
  <2>2. CASE toVehicle' = Append(toVehicle, h)
    BY <1>2, <1>3, <2>2, AppendEntries DEF OnlyFor
  <2>3. CASE toVehicle /= <<>> /\ toVehicle' = Tail(toVehicle)
    BY <1>2, <1>3, <2>3, TailEntries DEF OnlyFor
  <2> QED
    BY <1>1, <2>1, <2>2, <2>3
<1>5. \A i \in 1 .. Len(toGcs') : IsArmDisarm(toGcs'[i]) => armed' = (h.param /= 0)
  <2>1. CASE toGcs' = toGcs
    BY <1>3, <2>1 DEF OnlyFor
  <2>2. CASE toGcs /= <<>> /\ toGcs' = Tail(toGcs)
    BY <1>2, <1>3, <2>2, TailEntries DEF OnlyFor
  <2> QED
    BY <2>1, <2>2
<1>6. OnlyFor(h)'
  BY <1>4, <1>5 DEF OnlyFor
<1>7. Head(mavCommandQueue') = h
  BY <1>1
<1> QED
  BY <1>1, <1>6, <1>7 DEF OnlyFor
-----------------------------------------------------------------------------
(* Steps *)

LEMMA CallerSendsKeeps ==
  ASSUME ProtocolInv, CallerSends
  PROVE  /\ ProtocolInv'
         /\ LinkCapacity >= 1 /\ LosslessInv => LosslessInv'
<1> PICK r \in regime.requests : SendMavCommand(r)
  BY DEF CallerSends
<1>1. r \in Request
  BY RegimeAssumption DEF ProtocolInv, ProtocolTypeOK
<1>2. IInv'
  BY <1>1, SendKeepsInvariant DEF ProtocolInv
<1>3. /\ armed' = armed /\ firstAttempt' = firstAttempt /\ toGcs' = toGcs /\ regime' = regime
  BY DEF CallerSends, vehicleVars
<1>4. mavCommandQueue \in Seq(Request) /\ mavCommandQueue' = Append(mavCommandQueue, r)
  BY DEF ProtocolInv, IInv, TypeOK, SendMavCommand
<1>5. ASSUME Prompt
      PROVE  OneMessage' /\ (LinkCapacity >= 1 /\ AttemptsOK => AttemptsOK')
  <2>1. OneMessage
    BY <1>5 DEF ProtocolInv
  <2>2. CASE IsOnly(mavCommandQueue')
    <3>1. mavCommandQueue = <<>>
      BY <1>1, <1>4, <2>2 DEF IsOnly
    <3>2. NothingUnderWay
      BY <2>1, <3>1 DEF OneMessage, RequestUnderWay, AnswerUnderWay
    <3>3. SendHead(mavCommandQueue') /\ mavCommandQueue' /= <<>>
      BY <1>1, <1>4, <2>2 DEF SendMavCommand
    <3>4. SendNextQueued(mavCommandQueue', 0)
      BY <3>3 DEF SendNextQueued
    <3> QED
      BY <1>3, <3>2, <3>4, NextIsUnderWay DEF NothingUnderWay
  <2>3. CASE ~IsOnly(mavCommandQueue')
    <3>1. UNCHANGED <<mavCommandRetryCount, ackTimerRunning, toVehicle>>
      BY <2>3 DEF SendMavCommand
    <3>2. mavCommandQueue /= <<>> /\ mavCommandQueue' /= <<>>
      BY <1>1, <1>4, <2>3 DEF IsOnly
    <3>3. Head(mavCommandQueue') = Head(mavCommandQueue)
      BY <1>1, <1>4, <3>2
    <3>4. /\ NothingUnderWay' <=> NothingUnderWay
          /\ RequestUnderWay' <=> RequestUnderWay
      BY <1>3, <3>1, <3>2, <3>3 DEF NothingUnderWay, RequestUnderWay
    <3>5. AnswerUnderWay => AnswerUnderWay'
      BY <1>3, <3>1, <3>2, <3>3 DEF AnswerUnderWay, TakesEffect, AnswerTo
    <3>6. OneMessage'
      BY <2>1, <3>4, <3>5 DEF OneMessage
    <3>7. AttemptsOK => AttemptsOK'
      BY <1>3, <3>1, <3>2, <3>3, <3>4 DEF AttemptsOK
    <3> QED
      BY <3>6, <3>7
  <2> QED
    BY <2>2, <2>3
<1>6. Remember
  BY DEF CallerSends
<1>7. ASSUME ~regime.open PROVE AfreshOK'
  <2>1. CASE IsOnly(mavCommandQueue')
    <3>1. mavCommandQueue = <<>> /\ mavCommandQueue' /= <<>>
      BY <1>1, <1>4, <2>1 DEF IsOnly
    <3>2. SendNextQueued(mavCommandQueue', 0)
      BY <2>1, <3>1 DEF SendMavCommand, SendNextQueued
    <3>3. mavCommandQueue' \in Seq(Request)
      BY <1>1, <1>4
    <3> QED
      BY <1>6, <3>1, <3>2, <3>3, NextIsAfresh
  <2>2. CASE ~IsOnly(mavCommandQueue')
    <3>1. /\ mavCommandQueue /= <<>> /\ mavCommandQueue' /= <<>>
          /\ Head(mavCommandQueue') = Head(mavCommandQueue)
          /\ ~(Len(mavCommandQueue') < Len(mavCommandQueue))
      BY <1>1, <1>4, <2>2 DEF IsOnly
    <3>2. sentAfresh' = sentAfresh
      BY <1>6, <3>1 DEF Remember, SendsNext
    <3>3. toVehicle' = toVehicle
      BY <2>2 DEF SendMavCommand
    <3>4. HeadStays /\ LinksMove
      BY <1>3, <3>1, <3>2, <3>3 DEF HeadStays, LinksMove
    <3> QED
      BY <1>7, <3>4, HeadStaysAlone
  <2> QED
    BY <2>1, <2>2
<1> QED
  BY <1>2, <1>3, <1>5, <1>6, <1>7, RememberType
     DEF ProtocolInv, ProtocolTypeOK, LosslessInv, Prompt

\* An answer completes the head of the queue, as the answer says, and the next
\* command is sent.
LEMMA AnswerCompletes ==
  ASSUME ProtocolInv, GroundReceives, Prompt
  PROVE  /\ AnswerUnderWay
         /\ mavCommandQueue' = Tail(mavCommandQueue)
         /\ SendNextQueued(mavCommandQueue', mavCommandRetryCount)
         /\ toGcs' = <<>>
         /\ results' = {Report(Head(mavCommandQueue).command,
                               MockLink!Result(Head(mavCommandQueue).command), FALSE)}
<1>1. AnswerUnderWay
  BY DEF ProtocolInv, OneMessage, NothingUnderWay, RequestUnderWay, GroundReceives
<1> DEFINE a == AnswerTo(Head(mavCommandQueue))
<1>2. toGcs = <<a>>
  BY <1>1 DEF AnswerUnderWay
<1>3. Head(toGcs) = a /\ Tail(toGcs) = <<>>
  BY <1>2
<1>4. HandleCommandAck(a) /\ toGcs' = <<>>
  BY <1>3 DEF GroundReceives
<1>5. /\ a.command = Head(mavCommandQueue).command
      /\ a.result = MockLink!Result(Head(mavCommandQueue).command)
  BY DEF AnswerTo
<1>6. Answers(a)
  BY <1>1, <1>5 DEF Answers, AnswerUnderWay
<1>7. CommandCompleted(a)
  BY <1>4, <1>6 DEF HandleCommandAck, StrayAck
<1> QED
  BY <1>1, <1>4, <1>5, <1>7 DEF CommandCompleted

LEMMA GroundReceivesKeeps ==
  ASSUME ProtocolInv, GroundReceives
  PROVE  /\ ProtocolInv'
         /\ LinkCapacity >= 1 => LosslessInv'
<1>1. /\ toGcs \in Seq(CommandAck) /\ toGcs /= <<>>
      /\ toGcs' = Tail(toGcs)
      /\ HandleCommandAck(Head(toGcs))
      /\ armed' = armed /\ firstAttempt' = firstAttempt /\ regime' = regime
  BY DEF ProtocolInv, ProtocolTypeOK, GroundReceives, vehicleVars
<1>2. Head(toGcs) \in CommandAck /\ toGcs' \in Seq(CommandAck)
  BY <1>1, LinkAfterHead
<1>3. IInv'
  BY <1>1, <1>2, AckKeepsInvariant DEF ProtocolInv
<1>4. ASSUME Prompt PROVE OneMessage' /\ (LinkCapacity >= 1 => AttemptsOK')
  <2>1. /\ AnswerUnderWay
        /\ SendNextQueued(mavCommandQueue', mavCommandRetryCount)
        /\ toGcs' = <<>>
    BY <1>4, AnswerCompletes
  <2> QED
    BY <2>1, NextIsUnderWay DEF AnswerUnderWay
<1>5. Remember
  BY DEF GroundReceives
<1>6. ASSUME ~regime.open PROVE AfreshOK'
  <2>1. mavCommandQueue \in Seq(Request)
    BY DEF ProtocolInv, IInv, TypeOK
  <2>2. CASE CommandCompleted(Head(toGcs))
    <3>1. /\ mavCommandQueue /= <<>> /\ mavCommandQueue' = Tail(mavCommandQueue)
          /\ SendNextQueued(mavCommandQueue', mavCommandRetryCount)
      BY <2>2 DEF CommandCompleted, Answers
    <3>2. mavCommandQueue' \in Seq(Request) /\ Len(mavCommandQueue') < Len(mavCommandQueue)
      BY <2>1, <3>1
    <3> QED
      BY <1>5, <3>1, <3>2, NextIsAfresh
  <2>3. CASE StrayAck(Head(toGcs))
    <3>1. mavCommandQueue' = mavCommandQueue /\ toVehicle' = toVehicle
      BY <2>3 DEF StrayAck, queueVars
    <3>2. ~(Len(mavCommandQueue') < Len(mavCommandQueue))
      BY <2>1, <3>1
    <3>3. CASE mavCommandQueue = <<>>
      BY <3>1, <3>3 DEF AfreshOK
    <3>4. CASE mavCommandQueue /= <<>>
      <4>1. sentAfresh' = sentAfresh
        BY <1>5, <3>2, <3>4 DEF Remember, SendsNext
      <4>2. HeadStays /\ LinksMove
        BY <1>1, <3>1, <3>4, <4>1 DEF HeadStays, LinksMove
      <4> QED
        BY <1>6, <4>2, HeadStaysAlone
    <3> QED
      BY <3>3, <3>4
  <2> QED
    BY <1>1, <2>2, <2>3 DEF HandleCommandAck
<1> QED
  BY <1>1, <1>2, <1>3, <1>4, <1>5, <1>6, RememberType
     DEF ProtocolInv, ProtocolTypeOK, LosslessInv, Prompt

LEMMA AnythingKeeps ==
  ASSUME ProtocolInv, VehicleAcknowledgesAnything
  PROVE  ProtocolInv' /\ LosslessInv'
<1>1. PICK ack \in CommandAck : HandleCommandAck(ack)
  BY DEF VehicleAcknowledgesAnything
<1>2. IInv'
  BY <1>1, AckKeepsInvariant DEF ProtocolInv
<1>3. regime.open /\ UNCHANGED <<vehicleVars, toGcs, regime>> /\ Remember
  BY DEF VehicleAcknowledgesAnything
<1> QED
  BY <1>2, <1>3, RememberType DEF ProtocolInv, ProtocolTypeOK, LosslessInv, Prompt, vehicleVars

LEMMA GroundTimesOutKeeps ==
  ASSUME ProtocolInv, GroundTimesOut
  PROVE  /\ ProtocolInv'
         /\ LinkCapacity >= 1 /\ MaxRetryCount >= 1 /\ LosslessInv => LosslessInv'
<1>1. SendMavCommandAgain /\ UNCHANGED <<vehicleVars, toGcs, regime>>
  BY DEF GroundTimesOut
<1>2. IInv'
  BY <1>1, TimeoutKeepsInvariant DEF ProtocolInv
<1>3. ASSUME Prompt
      PROVE  OneMessage' /\ (LinkCapacity >= 1 /\ AttemptsOK => AttemptsOK')
  <2>1. toVehicle = <<>> /\ toGcs' = <<>> /\ NothingUnderWay
    BY <1>1, <1>3 DEF GroundTimesOut, NothingUnderWay, Prompt
  <2>2. CASE GiveUpCommand
    <3>1. SendNextQueued(mavCommandQueue', mavCommandRetryCount + 1)
      BY <2>2 DEF GiveUpCommand
    <3> QED
      BY <2>1, <3>1, NextIsUnderWay
  <2>3. CASE LeaveCommand
    <3>1. /\ mavCommandQueue' = mavCommandQueue /\ mavCommandQueue /= <<>>
          /\ toVehicle' = <<>>
          /\ Head(mavCommandQueue).command = "StartRxPair"
      BY <2>1, <2>3 DEF LeaveCommand, TimedOut, IsSentOnce
    <3>2. OneMessage'
      BY <2>1, <3>1 DEF OneMessage, NothingUnderWay
    <3>3. ~AttemptsOK
      BY <2>1, <3>1 DEF AttemptsOK, MockLink!SecondAttemptCommand
    <3> QED
      BY <3>2, <3>3
  <2>4. CASE RetryCommand
    <3>1. /\ mavCommandQueue' = mavCommandQueue /\ mavCommandQueue /= <<>>
          /\ mavCommandRetryCount' = mavCommandRetryCount + 1
          /\ Send(Head(mavCommandQueue))
      BY <2>4 DEF RetryCommand, TimedOut, CountRetry
    <3>2. /\ toVehicle' = <<Head(mavCommandQueue)>> \/ toVehicle' = <<>>
          /\ LinkCapacity >= 1 => toVehicle' = <<Head(mavCommandQueue)>>
      BY <2>1, <3>1, SendOnEmptyLink
    <3>3. OneMessage'
      BY <2>1, <3>1, <3>2 DEF OneMessage, NothingUnderWay, RequestUnderWay
    <3>4. ASSUME LinkCapacity >= 1, AttemptsOK PROVE AttemptsOK'
      <4>1. toVehicle' /= <<>>
        BY <3>2, <3>4
      <4>2. ~NothingUnderWay'
        BY <4>1 DEF NothingUnderWay
      <4>3. ASSUME Head(mavCommandQueue).command /= "User5"
            PROVE  /\ mavCommandRetryCount' = 2
                   /\ Head(mavCommandQueue).command \notin firstAttempt
        BY <2>1, <3>1, <3>4, <4>3 DEF AttemptsOK
      <4>4. firstAttempt' = firstAttempt
        BY <1>1 DEF vehicleVars
      <4> QED
        BY <3>1, <4>2, <4>3, <4>4 DEF AttemptsOK
    <3> QED
      BY <3>3, <3>4
  <2> QED
    BY <1>1, <2>2, <2>3, <2>4 DEF SendMavCommandAgain
<1>4. Remember
  BY DEF GroundTimesOut
<1>5. ASSUME ~regime.open PROVE AfreshOK'
  <2>1. mavCommandQueue \in Seq(Request) /\ mavCommandQueue /= <<>>
    BY <1>1 DEF ProtocolInv, IInv, TypeOK, SendMavCommandAgain, GiveUpCommand, LeaveCommand,
                RetryCommand, TimedOut
  <2>2. CASE GiveUpCommand
    <3>1. /\ mavCommandQueue' = Tail(mavCommandQueue)
          /\ SendNextQueued(mavCommandQueue', mavCommandRetryCount + 1)
      BY <2>2 DEF GiveUpCommand
    <3>2. mavCommandQueue' \in Seq(Request) /\ Len(mavCommandQueue') < Len(mavCommandQueue)
      BY <2>1, <3>1
    <3> QED
      BY <1>4, <3>1, <3>2, NextIsAfresh
  <2>3. CASE LeaveCommand \/ RetryCommand
    <3>1. /\ mavCommandQueue' = mavCommandQueue
          /\ \/ toVehicle' = toVehicle
             \/ toVehicle' = Append(toVehicle, Head(mavCommandQueue))
      BY <2>3 DEF LeaveCommand, RetryCommand, Send
    <3>2. ~(Len(mavCommandQueue') < Len(mavCommandQueue))
      BY <2>1, <3>1
    <3>3. sentAfresh' = sentAfresh
      BY <1>4, <2>1, <3>2 DEF Remember, SendsNext
    <3>4. armed' = armed /\ toGcs' = toGcs
      BY <1>1 DEF vehicleVars
    <3>5. HeadStays /\ LinksMove
      BY <2>1, <3>1, <3>3, <3>4 DEF HeadStays, LinksMove
    <3> QED
      BY <1>5, <3>5, HeadStaysAlone
  <2> QED
    BY <1>1, <2>2, <2>3 DEF SendMavCommandAgain
<1> QED
  BY <1>1, <1>2, <1>3, <1>4, <1>5, RememberType
     DEF ProtocolInv, ProtocolTypeOK, LosslessInv, Prompt, vehicleVars

\* What the vehicle answers to a command is an acknowledgement of it.
LEMMA AnswerType ==
  ASSUME NEW r \in Request
  PROVE  AnswerTo(r) \in CommandAck
<1>1. MockLink!Result(r.command) \in AckResult
  BY DEF MockLink!Result, AckResult
<1>2. r.command \in CommandName
  BY DEF Request
<1> QED
  BY <1>1, <1>2 DEF AnswerTo, CommandAck

\* What a request does to the vehicle, and what it says of it.
LEMMA VehicleEffect ==
  ASSUME ProtocolInv, VehicleReceives
  PROVE  /\ IInv' /\ ProtocolTypeOK'
         /\ mavCommandQueue' = mavCommandQueue /\ sentAfresh' = sentAfresh /\ regime' = regime
         /\ toVehicle /= <<>> /\ toVehicle' = Tail(toVehicle)
         /\ armed' = IF Head(toVehicle).command = "ArmDisarm"
                     THEN Head(toVehicle).param /= 0 ELSE armed
         /\ toGcs' = toGcs \/ toGcs' = Append(toGcs, AnswerTo(Head(toVehicle)))
<1>1. /\ regime' = regime /\ sentAfresh' = sentAfresh
      /\ UNCHANGED queueVars
      /\ results' = {}
      /\ toVehicle' = Tail(toVehicle)
      /\ toVehicle /= <<>>
      /\ MockLink!HandleCommandLong(Head(toVehicle))
  BY DEF VehicleReceives
<1>2. Head(toVehicle) \in Request /\ toVehicle' \in Seq(Request)
  BY <1>1, LinkAfterHead DEF ProtocolInv, IInv, TypeOK
<1>3. IInv'
  BY <1>1, <1>2
     DEF ProtocolInv, queueVars, IInv, TypeOK, HeadIsUnderWay, RetriesBounded, IsSentOnce
<1>4. /\ armed' = IF Head(toVehicle).command = "ArmDisarm"
                  THEN Head(toVehicle).param /= 0 ELSE armed
      /\ firstAttempt' \subseteq MockLink!SecondAttemptCommand
  BY <1>1 DEF MockLink!HandleCommandLong, MockLink!NextAttempt, ProtocolInv, ProtocolTypeOK
<1>5. toGcs' = toGcs \/ toGcs' = Append(toGcs, AnswerTo(Head(toVehicle)))
  BY <1>1 DEF MockLink!HandleCommandLong, MockLink!Respond, AnswerTo
<1>6. toGcs' \in Seq(CommandAck)
  BY <1>2, <1>5, AnswerType DEF ProtocolInv, ProtocolTypeOK
<1>7. armed' \in BOOLEAN
  BY <1>4 DEF ProtocolInv, ProtocolTypeOK
<1> QED
  BY <1>1, <1>3, <1>4, <1>5, <1>6, <1>7 DEF ProtocolInv, ProtocolTypeOK, queueVars

LEMMA PromptlyReceived ==
  ASSUME ProtocolInv, VehicleReceives, Prompt
  PROVE  /\ OneMessage'
         /\ LinkCapacity >= 1 /\ AttemptsOK => AttemptsOK'
<1>1. /\ regime' = regime
      /\ UNCHANGED queueVars
      /\ results' = {}
      /\ toVehicle' = Tail(toVehicle)
      /\ toVehicle /= <<>>
      /\ MockLink!HandleCommandLong(Head(toVehicle))
  BY DEF VehicleReceives
<1>2. RequestUnderWay
  BY <1>1 DEF ProtocolInv, OneMessage, NothingUnderWay, AnswerUnderWay
<1> PICK h : h = Head(mavCommandQueue)
  OBVIOUS
<1>3. toVehicle = <<h>> /\ mavCommandQueue /= <<>> /\ toGcs = <<>>
  BY <1>2 DEF RequestUnderWay
<1>4. Head(toVehicle) = h /\ Tail(toVehicle) = <<>>
  BY <1>3
<1>5. h \in Request
  BY <1>3, HeadIsRequest DEF ProtocolInv, IInv, TypeOK
<1>6. toVehicle' = <<>> /\ MockLink!HandleCommandLong(h)
  BY <1>1, <1>4
<1>7. mavCommandQueue' = mavCommandQueue /\ mavCommandRetryCount' = mavCommandRetryCount
  BY <1>1 DEF queueVars
<1>9. /\ armed' \in BOOLEAN /\ (h.command = "ArmDisarm" => armed' = (h.param /= 0))
      /\ firstAttempt' = MockLink!NextAttempt(h.command)
      /\ firstAttempt' \subseteq MockLink!SecondAttemptCommand
  BY <1>6 DEF MockLink!HandleCommandLong, MockLink!NextAttempt, ProtocolInv, ProtocolTypeOK
<1>10. CASE ~MockLink!IsAnswered(h.command)
  <2>1. toGcs' = <<>>
    BY <1>3, <1>6, <1>10 DEF MockLink!HandleCommandLong
  <2>2. OneMessage'
    BY <1>6, <2>1 DEF OneMessage, NothingUnderWay
  <2>3. ASSUME AttemptsOK PROVE AttemptsOK'
    <3>1. SUFFICES ASSUME h.command /= "User5"
                   PROVE  /\ mavCommandRetryCount = 1
                          /\ h.command \in MockLink!SecondAttemptCommand \ firstAttempt'
      BY <1>6, <1>7 DEF AttemptsOK, RequestUnderWay
    <3>2. h.command \in firstAttempt
      BY <1>10, <3>1 DEF MockLink!IsAnswered
    <3>3. mavCommandRetryCount = 1
      BY <1>2, <1>3, <2>3, <3>1, <3>2 DEF AttemptsOK
    <3>4. firstAttempt' = firstAttempt \ {h.command}
      BY <1>9, <3>2 DEF MockLink!NextAttempt
    <3> QED
      BY <3>2, <3>3, <3>4 DEF ProtocolInv, ProtocolTypeOK
  <2> QED
    BY <2>2, <2>3
<1>11. CASE MockLink!IsAnswered(h.command)
  <2> PICK a : a = AnswerTo(h)
    OBVIOUS
  <2>1. MockLink!Respond(a)
    BY <1>6, <1>11 DEF MockLink!HandleCommandLong, AnswerTo
  <2>2. /\ toGcs' = <<a>> \/ toGcs' = <<>>
        /\ LinkCapacity >= 1 => toGcs' = <<a>>
    <3>1. Len(toGcs) = 0 /\ Append(toGcs, a) = <<a>>
      BY <1>3
    <3>2. CASE LinkCapacity >= 1
      BY <2>1, <3>1, <3>2, LimitAssumption DEF MockLink!Respond
    <3>3. CASE ~(LinkCapacity >= 1)
      BY <2>1, <3>1, <3>3, LimitAssumption DEF MockLink!Respond
    <3> QED
      BY <3>2, <3>3
  <2>3. ASSUME toGcs' = <<a>> PROVE AnswerUnderWay'
    <3>1. /\ h.command /= "User5"
          /\ h.command = "ArmDisarm" => armed' = (h.param /= 0)
      BY <1>9, <1>11 DEF MockLink!IsAnswered
    <3> QED
      BY <1>3, <1>6, <1>7, <2>3, <3>1 DEF AnswerUnderWay, TakesEffect, AnswerTo
  <2>4. OneMessage'
    BY <1>6, <2>2, <2>3 DEF OneMessage, NothingUnderWay
  <2>5. LinkCapacity >= 1 => AttemptsOK'
    BY <1>6, <2>2 DEF AttemptsOK, NothingUnderWay, RequestUnderWay
  <2> QED
    BY <2>4, <2>5
<1> QED
  BY <1>10, <1>11

LEMMA VehicleReceivesKeeps ==
  ASSUME ProtocolInv, VehicleReceives
  PROVE  /\ ProtocolInv'
         /\ LinkCapacity >= 1 /\ LosslessInv => LosslessInv'
<1>1. IInv' /\ ProtocolTypeOK' /\ regime' = regime
  BY VehicleEffect
<1>2. ASSUME ~regime.open PROVE AfreshOK'
  <2>1. /\ mavCommandQueue' = mavCommandQueue /\ sentAfresh' = sentAfresh
        /\ toVehicle /= <<>> /\ toVehicle' = Tail(toVehicle)
        /\ armed' = IF Head(toVehicle).command = "ArmDisarm"
                    THEN Head(toVehicle).param /= 0 ELSE armed
        /\ toGcs' = toGcs \/ toGcs' = Append(toGcs, AnswerTo(Head(toVehicle)))
    BY VehicleEffect
  <2> SUFFICES ASSUME sentAfresh, mavCommandQueue /= <<>>,
                      IsArmDisarm(Head(mavCommandQueue))
               PROVE  OnlyFor(Head(mavCommandQueue))'
    BY <2>1 DEF AfreshOK, OnlyFor
  <2>2. PICK h : h = Head(mavCommandQueue)
    OBVIOUS
  <2>3. toVehicle \in Seq(Request) /\ toGcs \in Seq(CommandAck)
    BY DEF ProtocolInv, IInv, TypeOK, ProtocolTypeOK
  <2>4. OnlyFor(h)
    BY <1>2, <2>2 DEF ProtocolInv, AfreshOK
  <2>5. PICK m \in Request : m = Head(toVehicle) /\ m = toVehicle[1] /\ 1 \in 1 .. Len(toVehicle)
    BY <2>1, <2>3
  <2>6. IsArmDisarm(m) => m = h
    BY <2>4, <2>5 DEF OnlyFor
  <2>7. \A i \in 1 .. Len(toVehicle') : IsArmDisarm(toVehicle'[i]) => toVehicle'[i] = h
    BY <2>1, <2>3, <2>4, TailEntries DEF OnlyFor
  <2>8. CASE IsArmDisarm(m)
    <3>1. armed' = (h.param /= 0)
      BY <2>1, <2>5, <2>6, <2>8 DEF IsArmDisarm
    <3>2. OnlyFor(h)'
      BY <2>7, <3>1 DEF OnlyFor
    <3> QED
      BY <2>1, <2>2, <3>2 DEF OnlyFor
  <2>9. CASE ~IsArmDisarm(m)
    <3>1. armed' = armed /\ AnswerTo(m) \in CommandAck /\ ~IsArmDisarm(AnswerTo(m))
      BY <2>1, <2>5, <2>9, AnswerType DEF IsArmDisarm, AnswerTo
    <3>2. \A i \in 1 .. Len(toGcs') : IsArmDisarm(toGcs'[i]) => armed' = (h.param /= 0)
      <4>1. CASE toGcs' = toGcs
        BY <2>4, <3>1, <4>1 DEF OnlyFor
      <4>2. CASE toGcs' = Append(toGcs, AnswerTo(m))
        BY <2>3, <2>4, <3>1, <4>2, AppendEntries DEF OnlyFor
      <4> QED
        BY <2>1, <2>5, <4>1, <4>2
    <3>3. OnlyFor(h)'
      BY <2>7, <3>2 DEF OnlyFor
    <3> QED
      BY <2>1, <2>2, <3>3 DEF OnlyFor
  <2> QED
    BY <2>8, <2>9
<1> QED
  BY <1>1, <1>2, PromptlyReceived DEF ProtocolInv, LosslessInv, Prompt

LEMMA LossKeeps ==
  ASSUME ProtocolInv, LoseToVehicle \/ LoseToGcs
  PROVE  ProtocolInv' /\ LosslessInv'
<1>1. regime.lossy /\ UNCHANGED <<queueVars, results, vehicleVars, sentAfresh, regime>>
  BY DEF LoseToVehicle, LoseToGcs, LinkTakes, vars
<1>2. \/ toVehicle /= <<>> /\ toVehicle' = Tail(toVehicle) /\ toGcs' = toGcs
      \/ toGcs /= <<>> /\ toGcs' = Tail(toGcs) /\ toVehicle' = toVehicle
  BY DEF LoseToVehicle, LoseToGcs, LinkTakes, vars
<1>3. toVehicle' \in Seq(Request) /\ toGcs' \in Seq(CommandAck)
  BY <1>2, LinkAfterHead DEF ProtocolInv, ProtocolTypeOK, IInv, TypeOK
<1>4. IInv'
  BY <1>1, <1>3
     DEF ProtocolInv, queueVars, IInv, TypeOK, HeadIsUnderWay, RetriesBounded, IsSentOnce
<1>5. ASSUME Prompt PROVE OneMessage'
  <2>1. CASE NothingUnderWay
    BY <1>2, <2>1 DEF NothingUnderWay
  <2>2. CASE RequestUnderWay
    BY <1>2, <2>2 DEF RequestUnderWay, OneMessage, NothingUnderWay
  <2>3. CASE AnswerUnderWay
    BY <1>2, <2>3 DEF AnswerUnderWay, OneMessage, NothingUnderWay
  <2> QED
    BY <1>5, <2>1, <2>2, <2>3 DEF ProtocolInv, OneMessage
<1>6. ASSUME ~regime.open PROVE AfreshOK'
  <2>1. mavCommandQueue' = mavCommandQueue /\ sentAfresh' = sentAfresh /\ armed' = armed
    BY <1>1 DEF queueVars, vehicleVars
  <2>2. CASE mavCommandQueue = <<>>
    BY <2>1, <2>2 DEF AfreshOK
  <2>3. CASE mavCommandQueue /= <<>>
    <3>1. HeadStays
      BY <2>1, <2>3 DEF HeadStays
    <3>2. LinksMove
      BY <1>2 DEF LinksMove
    <3> QED
      BY <1>6, <3>1, <3>2, HeadStaysAlone
  <2> QED
    BY <2>2, <2>3
<1> QED
  BY <1>1, <1>3, <1>4, <1>5, <1>6
     DEF ProtocolInv, ProtocolTypeOK, LosslessInv, Prompt, vehicleVars

LEMMA StutterKeeps ==
  ASSUME ProtocolInv, UNCHANGED protocolVars
  PROVE  ProtocolInv' /\ (LosslessInv => LosslessInv')
<1>1. /\ UNCHANGED vars
      /\ UNCHANGED <<queueVars, toVehicle, vehicleVars, toGcs, sentAfresh, regime>>
  BY DEF protocolVars, vars
<1>2. IInv'
  BY <1>1, StutterKeepsInvariant DEF ProtocolInv
<1>3. OneMessage => OneMessage'
  BY <1>1 DEF queueVars, vehicleVars, OneMessage, NothingUnderWay, RequestUnderWay,
              AnswerUnderWay, TakesEffect, AnswerTo
<1>4. AttemptsOK => AttemptsOK'
  BY <1>1 DEF queueVars, vehicleVars, AttemptsOK, NothingUnderWay, RequestUnderWay
<1>5. AfreshOK => AfreshOK'
  BY <1>1 DEF queueVars, vehicleVars, AfreshOK, OnlyFor
<1> QED
  BY <1>1, <1>2, <1>3, <1>4, <1>5
     DEF ProtocolInv, ProtocolTypeOK, LosslessInv, Prompt, vehicleVars

LEMMA StepKeepsProtocol ==
  ASSUME ProtocolInv, [ProtocolNext]_protocolVars
  PROVE  /\ ProtocolInv'
         /\ LinkCapacity >= 1 /\ MaxRetryCount >= 1 /\ LosslessInv => LosslessInv'
BY CallerSendsKeeps, GroundReceivesKeeps, AnythingKeeps, GroundTimesOutKeeps,
   VehicleReceivesKeeps, LossKeeps, StutterKeeps DEF ProtocolNext

LEMMA ProtocolStarts == ProtocolInit => ProtocolInv /\ LosslessInv
<1> SUFFICES ASSUME ProtocolInit PROVE ProtocolInv /\ LosslessInv
  OBVIOUS
<1>1. IInv
  BY InitInvariant DEF ProtocolInit
<1>2. ProtocolTypeOK /\ NothingUnderWay /\ AttemptsOK /\ AfreshOK
  BY EmptySeq
     DEF ProtocolInit, Init, MockLink!Init, ProtocolTypeOK, NothingUnderWay, AttemptsOK, AfreshOK
<1> QED
  BY <1>1, <1>2 DEF ProtocolInv, OneMessage, LosslessInv

\* The inductive invariant of the protocol, in every regime.
THEOREM ProtocolInvariance == ProtocolSpec => []ProtocolInv
<1>1. ProtocolInv /\ [ProtocolNext]_protocolVars => ProtocolInv'
  BY StepKeepsProtocol
<1> QED
  BY <1>1, ProtocolStarts, PTL DEF ProtocolSpec
-----------------------------------------------------------------------------
(* What a completion means *)

\* Commands are completed by an answer or by giving up, with a report each.
LEMMA WhatCompletes ==
  ASSUME ProtocolInv, [ProtocolNext]_protocolVars, Completes, ~regime.open
  PROVE  \/ GroundReceives
         \/ GroundTimesOut /\ GiveUpCommand
<1>1. mavCommandQueue \in Seq(Request) /\ Len(mavCommandQueue') < Len(mavCommandQueue)
  BY DEF ProtocolInv, IInv, TypeOK, Completes
<1>2. mavCommandQueue' /= mavCommandQueue
  BY <1>1
<1>3. ~CallerSends
  <2> SUFFICES ASSUME CallerSends PROVE FALSE
    OBVIOUS
  <2>1. PICK r \in regime.requests : mavCommandQueue' = Append(mavCommandQueue, r)
    BY DEF CallerSends, SendMavCommand
  <2> QED
    BY <1>1, <2>1
<1>4. ~(VehicleReceives \/ LoseToVehicle \/ LoseToGcs \/ UNCHANGED protocolVars)
  BY <1>2 DEF VehicleReceives, LoseToVehicle, LoseToGcs, LinkTakes, vars, protocolVars, queueVars
<1>5. ASSUME GroundTimesOut PROVE GiveUpCommand
  BY <1>2, <1>5 DEF GroundTimesOut, SendMavCommandAgain, LeaveCommand, RetryCommand
<1> QED
  BY <1>3, <1>4, <1>5 DEF ProtocolNext, VehicleAcknowledgesAnything

\* Only an answer completes a command as accepted: where the timer outlasts a round
\* trip one to its own request, and otherwise one to the command at the head of the
\* queue, if it was sent when nothing about its MAV_CMD was under way.
LEMMA AcceptedStep ==
  ASSUME ProtocolInv, [ProtocolNext]_protocolVars, ~regime.open,
         regime.prompt \/ sentAfresh,
         CompletesAs("Accepted", FALSE), Head(mavCommandQueue).command = "ArmDisarm"
  PROVE  armed = (Head(mavCommandQueue).param /= 0)
<1>1. Completes /\ \E res \in results' : res.result = "Accepted" /\ res.noResponse = FALSE
  BY DEF CompletesAs
<1>2. ~GiveUpCommand
  BY <1>1 DEF GiveUpCommand, Report
<1>3. GroundReceives
  BY <1>1, <1>2, WhatCompletes
<1>4. CASE regime.prompt
  BY <1>3, <1>4, AnswerCompletes DEF Prompt, AnswerUnderWay, TakesEffect
<1>5. CASE sentAfresh
  <2>1. /\ mavCommandQueue \in Seq(Request) /\ toGcs \in Seq(CommandAck) /\ toGcs /= <<>>
        /\ HandleCommandAck(Head(toGcs))
    BY <1>3 DEF ProtocolInv, IInv, TypeOK, ProtocolTypeOK, GroundReceives
  <2>2. ~StrayAck(Head(toGcs))
    <3> SUFFICES ASSUME mavCommandQueue' = mavCommandQueue PROVE FALSE
      BY DEF StrayAck, queueVars
    <3>1. Len(mavCommandQueue) < Len(mavCommandQueue) /\ Len(mavCommandQueue) \in Nat
      BY <1>1, <2>1 DEF Completes
    <3> QED
      BY <3>1
  <2>3. mavCommandQueue /= <<>> /\ Head(toGcs).command = Head(mavCommandQueue).command
    BY <2>1, <2>2 DEF HandleCommandAck, CommandCompleted, Answers
  <2>4. OnlyFor(Head(mavCommandQueue)) /\ IsArmDisarm(Head(toGcs))
    BY <1>5, <2>3 DEF ProtocolInv, AfreshOK, IsArmDisarm
  <2>5. 1 \in 1 .. Len(toGcs) /\ Head(toGcs) = toGcs[1]
    BY <2>1
  <2> QED
    BY <2>4, <2>5 DEF OnlyFor
<1> QED
  BY <1>4, <1>5

\* A vehicle reported to have accepted to arm or to disarm did, on links that lose
\* messages, after any number of retries and whichever acknowledgement comes late:
\* unless an earlier command of the same MAV_CMD was not settled when this one was
\* sent.  That case the code gets wrong, as Vehicle.cc:3512 compares nothing else.
THEOREM AcceptedIsReal == ProtocolSpec => AcceptedIsInEffect
<1>1. ProtocolInv /\ [ProtocolNext]_protocolVars =>
        [~regime.open /\ (regime.prompt \/ sentAfresh)
           /\ CompletesAs("Accepted", FALSE) /\ Head(mavCommandQueue).command = "ArmDisarm"
           => armed = (Head(mavCommandQueue).param /= 0)]_protocolVars
  BY AcceptedStep
<1> QED
  BY <1>1, ProtocolInvariance, PTL DEF ProtocolSpec, AcceptedIsInEffect

\* Where nothing is lost a command is given up only if the vehicle never answers it.
LEMMA OutcomeStep ==
  ASSUME ProtocolInv, LosslessInv, MaxRetryCount >= 1,
         [ProtocolNext]_protocolVars, Completes,
         ~regime.open, regime.prompt, ~regime.lossy
  PROVE  IF Head(mavCommandQueue).command = "User5"
         THEN CompletesAs("Failed", TRUE)
         ELSE CompletesAs(MockLink!Result(Head(mavCommandQueue).command), FALSE)
<1>1. CASE GroundReceives
  <2>1. /\ AnswerUnderWay
        /\ results' = {Report(Head(mavCommandQueue).command,
                              MockLink!Result(Head(mavCommandQueue).command), FALSE)}
    BY <1>1, AnswerCompletes DEF Prompt
  <2>2. Head(mavCommandQueue).command /= "User5"
    BY <2>1 DEF AnswerUnderWay, TakesEffect
  <2> QED
    BY <2>1, <2>2 DEF CompletesAs, Report
<1>2. CASE GroundTimesOut /\ GiveUpCommand
  <2>1. /\ results' = {Report(Head(mavCommandQueue).command, "Failed", TRUE)}
        /\ mavCommandRetryCount > MaxRetryCount /\ mavCommandQueue /= <<>>
    BY <1>2 DEF GiveUpCommand, TimedOut, RetriesExceeded
  <2>2. NothingUnderWay
    BY <1>2 DEF GroundTimesOut, NothingUnderWay
  <2>3. mavCommandRetryCount /= 1
    BY <2>1, RetryAssumption DEF ProtocolInv, IInv, TypeOK
  <2>4. Head(mavCommandQueue).command = "User5"
    BY <2>1, <2>2, <2>3 DEF LosslessInv, AttemptsOK, Prompt
  <2> QED
    BY <2>1, <2>4 DEF CompletesAs, Report
<1> QED
  BY <1>1, <1>2, WhatCompletes

\* On links that lose nothing and hold a message, and with one retry or more, every
\* command of SendMavCommandTest ends with the vehicle's own answer, and the one
\* that has none as failed without response, in whatever order they are sent.
THEOREM TestsEndAsExpected ==
  ASSUME MaxRetryCount >= 1, LinkCapacity >= 1
  PROVE  ProtocolSpec => TestOutcomes
<1>1. ProtocolInit => LosslessInv
  BY ProtocolStarts
<1>2. ProtocolInv /\ LosslessInv /\ [ProtocolNext]_protocolVars => LosslessInv'
  BY StepKeepsProtocol
<1>3. ProtocolInv /\ LosslessInv /\ [ProtocolNext]_protocolVars =>
        [Completes /\ ~regime.open /\ regime.prompt /\ ~regime.lossy =>
           IF Head(mavCommandQueue).command = "User5"
           THEN CompletesAs("Failed", TRUE)
           ELSE CompletesAs(MockLink!Result(Head(mavCommandQueue).command), FALSE)
        ]_protocolVars
  BY OutcomeStep
<1> QED
  BY <1>1, <1>2, <1>3, ProtocolInvariance, PTL DEF ProtocolSpec, TestOutcomes
-----------------------------------------------------------------------------
(* The queue inside the protocol *)

LEMMA ProtocolStepServes ==
  ASSUME ProtocolInv, [ProtocolNext]_protocolVars
  PROVE  [Promise!Next]_(Promise!vars)
<1>1. CASE CallerSends
  <2>1. PICK r \in regime.requests : SendMavCommand(r)
    BY <1>1 DEF CallerSends
  <2>2. r \in Request
    BY RegimeAssumption DEF ProtocolInv, ProtocolTypeOK
  <2> QED
    BY <2>1, <2>2 DEF SendMavCommand, Promise!Next, Promise!Submit
<1>2. CASE GroundReceives
  <2>1. toGcs \in Seq(CommandAck) /\ toGcs /= <<>> /\ HandleCommandAck(Head(toGcs))
    BY <1>2 DEF ProtocolInv, ProtocolTypeOK, GroundReceives
  <2> QED
    BY <2>1, LinkAfterHead, AckImplements
<1>3. CASE VehicleAcknowledgesAnything
  BY <1>3, AckImplements DEF VehicleAcknowledgesAnything
<1>4. CASE GroundTimesOut
  BY <1>4, TimeoutImplements DEF GroundTimesOut
<1>5. CASE VehicleReceives
  BY <1>5 DEF VehicleReceives, queueVars, Promise!Next, Promise!Work
<1>6. CASE LoseToVehicle \/ LoseToGcs \/ UNCHANGED protocolVars
  BY <1>6 DEF LoseToVehicle, LoseToGcs, LinkTakes, protocolVars, vars, queueVars, Promise!vars
<1> QED
  BY <1>1, <1>2, <1>3, <1>4, <1>5, <1>6 DEF ProtocolNext

\* With the vehicle and the links around it the queue still implements
\* CommandService, although the vehicle's steps clear the results of the last.
THEOREM ProtocolServesCommands == ProtocolSpec => KeepsPromise
<1>1. ProtocolInit => Promise!Init
  BY InitImplements DEF ProtocolInit
<1>2. ProtocolInv /\ [ProtocolNext]_protocolVars => [Promise!Next]_(Promise!vars)
  BY ProtocolStepServes
<1> QED
  BY <1>1, <1>2, ProtocolInvariance, PTL DEF ProtocolSpec, KeepsPromise, Promise!Spec
=============================================================================
