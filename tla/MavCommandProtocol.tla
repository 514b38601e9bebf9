-------------------------- MODULE MavCommandProtocol --------------------------
(***************************************************************************)
(* MAV_CMDs end to end: the command queue of a Vehicle, two links that keep  *)
(* the order of messages, and the vehicle of the repository.  A regime says  *)
(* which commands are sent, whether the links lose messages (lossy), and     *)
(* whether the vehicle is another one, which may acknowledge anything at     *)
(* any time (open).  The ack timeout is longer than a round trip (prompt), so *)
(* that it expires only when the answer really is missing, or it expires at   *)
(* any time, and a late acknowledgement is taken for that of a later command. *)
(***************************************************************************)
EXTENDS MavCommandQueue

CONSTANT
  Regimes   \* the regimes, of which a behaviour has one

ASSUME RegimeAssumption ==
  Regimes \subseteq [open : BOOLEAN, prompt : BOOLEAN, lossy : BOOLEAN,
                   requests : SUBSET Request]

VARIABLES
  armed, firstAttempt, toGcs,
  sentAfresh,   \* history: nothing about the head's MAV_CMD was under way when it was sent
  regime

MockLink == INSTANCE MockLinkCommands WITH AckCapacity <- LinkCapacity

vehicleVars == <<armed, firstAttempt>>
protocolVars == <<vars, vehicleVars, toGcs, sentAfresh, regime>>

\* Messages about the MAV_CMD of r, on their way to the vehicle or back
UnderWay(r, requests, acks) ==
  \/ \E i \in 1 .. Len(requests) : requests[i].command = r.command
  \/ \E i \in 1 .. Len(acks) : acks[i].command = r.command

\* A step that sends a command for the first time: the queue was empty, or loses its head.
SendsNext ==
  /\ mavCommandQueue' /= <<>>
  /\ mavCommandQueue = <<>> \/ Len(mavCommandQueue') < Len(mavCommandQueue)

\* It remembers what was under way then.
Remember ==
  sentAfresh' = IF SendsNext THEN ~UnderWay(Head(mavCommandQueue'), toVehicle, toGcs')
                ELSE sentAfresh

ProtocolInit == Init /\ MockLink!Init /\ sentAfresh = TRUE /\ regime \in Regimes

CallerSends ==
  /\ \E r \in regime.requests : SendMavCommand(r)
  /\ UNCHANGED <<vehicleVars, toGcs, regime>>
  /\ Remember

GroundReceives ==
  /\ toGcs /= <<>>
  /\ toGcs' = Tail(toGcs)
  /\ HandleCommandAck(Head(toGcs))
  /\ UNCHANGED <<vehicleVars, regime>>
  /\ Remember

VehicleAcknowledgesAnything ==
  /\ regime.open
  /\ \E ack \in CommandAck : HandleCommandAck(ack)
  /\ UNCHANGED <<vehicleVars, toGcs, regime>>
  /\ Remember

GroundTimesOut ==
  /\ regime.prompt => toVehicle = <<>> /\ toGcs = <<>>
  /\ SendMavCommandAgain
  /\ UNCHANGED <<vehicleVars, toGcs, regime>>
  /\ Remember

VehicleReceives ==
  /\ ~regime.open
  /\ toVehicle /= <<>>
  /\ toVehicle' = Tail(toVehicle)
  /\ MockLink!HandleCommandLong(Head(toVehicle))
  /\ results' = {}
  /\ UNCHANGED <<queueVars, sentAfresh, regime>>

LoseToVehicle ==
  /\ regime.lossy
  /\ LinkTakes
  /\ UNCHANGED <<vehicleVars, toGcs, sentAfresh, regime>>

LoseToGcs ==
  /\ regime.lossy
  /\ toGcs /= <<>>
  /\ toGcs' = Tail(toGcs)
  /\ UNCHANGED <<vars, vehicleVars, sentAfresh, regime>>

ProtocolNext ==
  \/ CallerSends \/ GroundReceives \/ VehicleAcknowledgesAnything \/ GroundTimesOut
  \/ VehicleReceives \/ LoseToVehicle \/ LoseToGcs

\* A link delivers or loses what it holds and a running timer expires; nothing
\* is assumed of callers, nor that any message arrives.
ProtocolFairness ==
  /\ WF_protocolVars(GroundReceives \/ LoseToGcs)
  /\ WF_protocolVars(VehicleReceives \/ LoseToVehicle)
  /\ WF_protocolVars(GroundTimesOut)

ProtocolSpec == ProtocolInit /\ [][ProtocolNext]_protocolVars /\ ProtocolFairness
-----------------------------------------------------------------------------
(* Properties *)

Completes == Len(mavCommandQueue') < Len(mavCommandQueue)
CompletesAs(result, noResponse) ==
  Completes /\ \E res \in results' : res.result = result /\ res.noResponse = noResponse

\* A vehicle reported to have accepted the command to arm or to disarm is armed
\* or disarmed (Vehicle.h: "Signals: mavCommandResult on success or failure"), also
\* when a retry was sent before a late acknowledgement and both are acknowledged.
\* Only an earlier command that was given up or repeated can falsify it: its answer,
\* or the command itself, was still under way when this one was first sent.
AcceptedIsInEffect ==
  [][~regime.open /\ (regime.prompt \/ sentAfresh)
       /\ CompletesAs("Accepted", FALSE) /\ Head(mavCommandQueue).command = "ArmDisarm"
       => armed = (Head(mavCommandQueue).param /= 0)]_protocolVars

\* What SendMavCommandTest expects of each of its commands when nothing is lost or late:
\* the vehicle's own answer, also when only the second attempt is answered, and
\* a failure without response where there is none.
TestOutcomes ==
  [][Completes /\ ~regime.open /\ regime.prompt /\ ~regime.lossy =>
       IF Head(mavCommandQueue).command = "User5"
       THEN CompletesAs("Failed", TRUE)
       ELSE CompletesAs(MockLink!Result(Head(mavCommandQueue).command), FALSE)
    ]_protocolVars

\* Every command is completed, though any message may be lost and callers keep
\* sending more (Vehicle.h: "queued and sent when the previous command
\* completes"): if the queue is not empty again and again, commands are
\* completed again and again, oldest first.
QueueAdvances == regime.open \/ []<>(mavCommandQueue = <<>>) \/ []<><<Completes>>_protocolVars
=============================================================================
