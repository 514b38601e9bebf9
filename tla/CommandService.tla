---------------------------- MODULE CommandService ----------------------------
(***************************************************************************)
(* What Vehicle promises the callers of sendMavCommand (Vehicle.h: "queued  *)
(* and sent when the previous command completes", "Signals:                 *)
(* mavCommandResult on success or failure"): commands complete in the order *)
(* they were sent, and each is reported in the step that completes it.  An   *)
(* acknowledgement nobody waits for is reported as well.                     *)
(***************************************************************************)
EXTENDS Sequences

CONSTANTS CommandName, Request, AckResult

VARIABLES
  pending,   \* the commands sent and not completed, oldest first
  results    \* the results signalled by the last step

vars == <<pending, results>>

Report(name, result, noResponse) ==
  [command |-> name, result |-> result, noResponse |-> noResponse]

Init == pending = <<>> /\ results = {}

Submit == \E r \in Request : pending' = Append(pending, r) /\ results' = {}

Work == results' = {} /\ UNCHANGED pending

Complete ==
  /\ pending /= <<>>
  /\ pending' = Tail(pending)
  /\ \E result \in AckResult, noResponse \in BOOLEAN :
       results' = {Report(Head(pending).command, result, noResponse)}

\* A late or repeated acknowledgement, of no command that waits for one
Stray ==
  /\ \E name \in CommandName, result \in AckResult :
       /\ pending /= <<>> => name /= Head(pending).command
       /\ results' = {Report(name, result, FALSE)}
  /\ UNCHANGED pending

Next == Submit \/ Work \/ Complete \/ Stray

Spec == Init /\ [][Next]_vars
=============================================================================
