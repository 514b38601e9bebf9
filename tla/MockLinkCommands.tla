--------------------------- MODULE MockLinkCommands ---------------------------
(***************************************************************************)
(* The vehicle's side of MAV_CMDs as the repository's own vehicle plays it  *)
(* (MockLink::_handleCommandLong): arming is done and accepted, the user    *)
(* commands answer as the unit tests want them to, a command it does not     *)
(* know is acknowledged as unsupported. The calibration, storage and         *)
(* capabilities commands it also accepts (MockLink.cc:909-919) are left out: *)
(* nothing here sends them.                                                  *)
(***************************************************************************)
EXTENDS Naturals, Sequences

CONSTANTS
  AckCapacity   \* bound: messages the link to the ground holds at once

VARIABLES
  armed,         \* MAV_MODE_FLAG_SAFETY_ARMED of _mavBaseMode
  firstAttempt,  \* the commands whose next attempt goes unanswered
  toGcs          \* acknowledgements sent and not yet delivered

SecondAttemptCommand == {"User3", "User4"}

Init == armed = FALSE /\ firstAttempt = SecondAttemptCommand /\ toGcs = <<>>

\* A link that is full loses what is sent on it.
Respond(ack) == toGcs' = IF Len(toGcs) < AckCapacity THEN Append(toGcs, ack) ELSE toGcs

Result(name) ==
  IF name \in {"ArmDisarm", "User1", "User3"} THEN "Accepted"
  ELSE IF name \in {"User2", "User4"} THEN "Failed" ELSE "Unsupported"

IsAnswered(name) == name /= "User5" /\ name \notin firstAttempt

\* Every other attempt at a command that answers the second one goes unanswered.
NextAttempt(name) ==
  IF name \in firstAttempt THEN firstAttempt \ {name}
  ELSE firstAttempt \cup ({name} \cap SecondAttemptCommand)

HandleCommandLong(request) ==
  /\ armed' = IF request.command = "ArmDisarm" THEN request.param /= 0 ELSE armed
  /\ firstAttempt' = NextAttempt(request.command)
  /\ IF IsAnswered(request.command)
     THEN Respond([command |-> request.command, result |-> Result(request.command)])
     ELSE UNCHANGED toGcs
=============================================================================
