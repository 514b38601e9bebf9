---------------------------- MODULE MCPlanManager ----------------------------
(* PlanManager against any vehicle, on lists of up to two items.            *)
EXTENDS PlanManager

MCItem == {[command |-> "Waypoint", param1 |-> 0], [command |-> "DoJump", param1 |-> 1]}

MCPlanInput == UNION {[1 .. n -> MCItem] : n \in 0 .. 2}

MCVehicleInput ==
       [kind : {"Count"}, mt : PlanTypes, n : 0 .. 2]
  \cup [kind : {"Item"}, mt : {PlanType}, seq : 0 .. 2, item : MCItem]
  \cup [kind : {"Request"}, mt : PlanTypes, seq : 0 .. 2]
  \cup [kind : {"Ack"}, mt : PlanTypes, result : AckResult]
=============================================================================
