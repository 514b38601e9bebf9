--------------------------- MODULE MavCommandQueue ---------------------------
(***************************************************************************)
(* The command queue of Vehicle.cc: sendMavCommand, sendMavCommandInt, the  *)
(* retries of _sendMavCommandAgain and the queue's part of                  *)
(* _handleCommandAck.  One command is under way at a time, the head of the  *)
(* queue; an acknowledgement names a command and nothing else.              *)
(*                                                                         *)
(* As in PlanManager a handler is one action, and the vehicle may send any  *)
(* acknowledgement at any time.  What the answers to the two requests of a  *)
(* new connection set off is in VehicleConnect, which extends the actions   *)
(* of this module.  A listener of mavCommandResult that sends a command     *)
(* from inside the signal is a caller that does so in the next step: the    *)
(* signal is emitted next to the end of the handler.                        *)
(***************************************************************************)
EXTENDS Integers, Sequences

CONSTANTS
  CommandName,      \* the MAV_CMDs callers send
  Param,            \* what tells two requests of one MAV_CMD apart
  Px4Firmware,      \* px4Firmware()
  MaxRetryCount,    \* _mavCommandMaxRetryCount (3 in the code)
  QueueLimit,       \* bound: commands waiting at once
  LinkCapacity      \* bound: messages the link to the vehicle holds at once

Request == [command : CommandName, param : Param]
AckResult == {"Accepted", "InProgress", "Failed", "Unsupported"}
CommandAck == [command : CommandName, result : AckResult]

ASSUME RetryAssumption == MaxRetryCount \in Nat
ASSUME LimitAssumption == QueueLimit \in Nat /\ LinkCapacity \in Nat
ASSUME FirmwareAssumption == Px4Firmware \in BOOLEAN

VARIABLES
  mavCommandQueue,       \* _mavCommandQueue
  mavCommandRetryCount,  \* _mavCommandRetryCount
  ackTimerRunning,       \* _mavCommandAckTimer.isActive()
  results,               \* the mavCommandResult signals of the last step
  toVehicle              \* messages sent to the vehicle and not yet delivered

queueVars == <<mavCommandQueue, mavCommandRetryCount, ackTimerRunning>>
vars == <<queueVars, results, toVehicle>>

Report(name, result, noResponse) ==
  [command |-> name, result |-> result, noResponse |-> noResponse]

\* A link that is full loses what is sent on it.
Send(r) == toVehicle' = IF Len(toVehicle) < LinkCapacity
                        THEN Append(toVehicle, r) ELSE toVehicle

\* Sends the head of queue for the first time: _sendMavCommandAgain has just
\* counted the retry count from 0 to 1.
SendHead(queue) ==
  /\ mavCommandRetryCount' = 1
  /\ ackTimerRunning' = TRUE
  /\ Send(Head(queue))

\* MUTANT of SendNextQueued: the next command is forgotten until one is sent
SendNextLater(queue, retries) ==
  /\ ackTimerRunning' = FALSE
  /\ mavCommandRetryCount' = retries
  /\ UNCHANGED toVehicle

\* _sendNextQueuedMavCommand, after the command before it has been removed and
\* the timer stopped with retries counted
SendNextQueued(queue, retries) ==
  \/ queue /= <<>> /\ SendHead(queue)
  \/ /\ queue = <<>>
     /\ ackTimerRunning' = FALSE
     /\ mavCommandRetryCount' = retries
     /\ UNCHANGED toVehicle

\* MUTANT of IsOnly: every command is sent at once
AnyLength(queue) == TRUE

IsOnly(queue) == Len(queue) = 1

SendMavCommand(r) ==
  /\ Len(mavCommandQueue) < QueueLimit
  /\ mavCommandQueue' = Append(mavCommandQueue, r)
  /\ IF IsOnly(mavCommandQueue')
     THEN SendHead(mavCommandQueue')
     ELSE UNCHANGED <<mavCommandRetryCount, ackTimerRunning, toVehicle>>
  /\ results' = {}
-----------------------------------------------------------------------------
(* The ack timer expires: _sendMavCommandAgain.  It runs only while a command *)
(* is under way, so that the code's warning for an empty queue is never met.  *)

TimedOut == ackTimerRunning /\ mavCommandQueue /= <<>>

\* MUTANT of RetriesExceeded: off by one
RetriesExceededLate == mavCommandRetryCount > MaxRetryCount + 1

\* MUTANT of RetriesExceeded: nothing is sent twice
RetriesExceededAtOnce == mavCommandRetryCount > 0

RetriesExceeded == mavCommandRetryCount > MaxRetryCount

GiveUpCommand ==
  /\ TimedOut /\ RetriesExceeded
  /\ results' = {Report(Head(mavCommandQueue).command, "Failed", TRUE)}
  /\ mavCommandQueue' = Tail(mavCommandQueue)
  /\ SendNextQueued(Tail(mavCommandQueue), mavCommandRetryCount + 1)

\* A request that other firmwares than PX4 may not know is not sent again: the
\* handler returns before the single-shot timer is started.
IsSentOnce(r) == r.command = "StartRxPair" /\ ~Px4Firmware

LeaveCommand ==
  /\ TimedOut /\ ~RetriesExceeded
  /\ IsSentOnce(Head(mavCommandQueue))
  /\ mavCommandRetryCount' = mavCommandRetryCount + 1
  /\ ackTimerRunning' = FALSE
  /\ results' = {}
  /\ UNCHANGED <<mavCommandQueue, toVehicle>>

\* MUTANT of CountRetry: a retry is not counted
RetryUncounted == UNCHANGED mavCommandRetryCount

CountRetry == mavCommandRetryCount' = mavCommandRetryCount + 1

RetryCommand ==
  /\ TimedOut /\ ~RetriesExceeded
  /\ ~IsSentOnce(Head(mavCommandQueue))
  /\ CountRetry
  /\ ackTimerRunning' = TRUE
  /\ Send(Head(mavCommandQueue))
  /\ results' = {}
  /\ UNCHANGED mavCommandQueue

SendMavCommandAgain == GiveUpCommand \/ LeaveCommand \/ RetryCommand
-----------------------------------------------------------------------------
(* COMMAND_ACK *)

\* MUTANT of Answers: whatever is acknowledged, the head is done
AnswersAnything(ack) == mavCommandQueue /= <<>>

Answers(ack) ==
  mavCommandQueue /= <<>> /\ ack.command = Head(mavCommandQueue).command

CommandCompleted(ack) ==
  /\ Answers(ack)
  /\ mavCommandQueue' = Tail(mavCommandQueue)
  /\ SendNextQueued(Tail(mavCommandQueue), mavCommandRetryCount)
  /\ results' = {Report(ack.command, ack.result, FALSE)}

StrayAck(ack) ==
  /\ ~Answers(ack)
  /\ results' = {Report(ack.command, ack.result, FALSE)}
  /\ UNCHANGED <<queueVars, toVehicle>>

HandleCommandAck(ack) == CommandCompleted(ack) \/ StrayAck(ack)
-----------------------------------------------------------------------------
\* The retry count is not set by the constructor, and set before it is used.
Init ==
  /\ mavCommandQueue = <<>>
  /\ mavCommandRetryCount = 0
  /\ ackTimerRunning = FALSE
  /\ results = {}
  /\ toVehicle = <<>>

\* The link hands a message to the vehicle, or loses it.
LinkTakes ==
  /\ toVehicle /= <<>>
  /\ toVehicle' = Tail(toVehicle)
  /\ UNCHANGED <<queueVars, results>>

Next ==
  \/ \E r \in Request : SendMavCommand(r)
  \/ SendMavCommandAgain
  \/ \E ack \in CommandAck : HandleCommandAck(ack)
  \/ LinkTakes

Spec == Init /\ [][Next]_vars
-----------------------------------------------------------------------------
(* Properties *)

ResultType == [command : CommandName, result : AckResult, noResponse : BOOLEAN]

\* Every value has the type the code declares for it.
TypeOK ==
  /\ mavCommandQueue \in Seq(Request)
  /\ mavCommandRetryCount \in Nat
  /\ ackTimerRunning \in BOOLEAN
  /\ results \subseteq ResultType
  /\ toVehicle \in Seq(Request)

\* A command that waits at the head of the queue has been sent and its timer
\* runs, unless it is one that is never sent again; with no command waiting no
\* timer runs, so that it cannot fire into a later command.
HeadIsUnderWay ==
  /\ ackTimerRunning => mavCommandQueue /= <<>>
  /\ mavCommandQueue /= <<>> =>
       /\ mavCommandRetryCount >= 1
       /\ ackTimerRunning \/ IsSentOnce(Head(mavCommandQueue))

\* A command is sent at most MaxRetryCount + 1 times: once, and as many retries
\* as allowed.
RetriesBounded ==
  mavCommandQueue /= <<>> => mavCommandRetryCount <= MaxRetryCount + 1

\* The queue keeps the promise made to the callers of sendMavCommand.
Promise == INSTANCE CommandService WITH pending <- mavCommandQueue
KeepsPromise == Promise!Spec
=============================================================================
