--------------------------- MODULE PlanTransaction ---------------------------
(***************************************************************************)
(* What a plan manager promises the components that listen to it           *)
(* (PlanMasterController, GeoFenceManager, RallyPointManager, Vehicle): at *)
(* most one transaction at a time, and for each exactly one completion      *)
(* signal, in the step that ends it and of the kind that was started.  The  *)
(* one transaction without a promise is the ArduPilot guided item.         *)
(***************************************************************************)

CONSTANT Guided    \* TRUE or FALSE: whether this manager sends guided items

VARIABLES
  current,     \* the transaction under way
  reports      \* the completion signals emitted by the last step

vars == <<current, reports>>

Kind == {"Read", "Write", "RemoveAll"}
Report(kind, ok) == [of |-> kind, ok |-> ok]

Init == current = "None" /\ reports = {}

Start ==
  /\ current = "None"
  /\ current' \in Kind \cup (IF Guided THEN {"GuidedItem"} ELSE {})
  /\ reports' = {}

\* A step inside a transaction, or of a manager that is idle
Work == reports' = {} /\ UNCHANGED current

End ==
  /\ current \in Kind
  /\ current' = "None"
  /\ \E ok \in BOOLEAN : reports' = {Report(current, ok)}

\* An answered guided item is not reported; one that times out is reported as
\* a failed write.
EndGuidedItem ==
  /\ current = "GuidedItem"
  /\ current' = "None"
  /\ reports' \in {{}, {Report("Write", FALSE)}}

Next == Start \/ Work \/ End \/ EndGuidedItem

Spec == Init /\ [][Next]_vars
=============================================================================
