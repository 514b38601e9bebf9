-------------------------- MODULE MCMissionProtocol --------------------------
EXTENDS MissionProtocol, TLC

Home == [command |-> "Waypoint", param1 |-> 0]
Land == [command |-> "Waypoint", param1 |-> 1]
Jump == [command |-> "DoJump",   param1 |-> 1]

\* What a caller writes has the home position first.
MCPlanInput == {<<Home>>, <<Home, Land>>, <<Home, Home, Land>>}
MCLongInput == {<<Home, Home, Land>>, <<Home, Home, Home, Land, Land>>}

\* The plans a vehicle has when the ground station connects
MCNoPlan == {[s \in {} |-> Home]}
MCStoredPlans == MCNoPlan \cup {0 :> Home, 0 :> Home @@ 1 :> Jump @@ 2 :> Land}

MCNoInput == {}
MCAllInput == MCPlanInput \cup MCLongInput

MCFailureModes == DOMAIN ReadFailures \cup DOMAIN WriteFailures \cup RecoverableModes
\* The others make the vehicle store a plan with a gap, which it cannot report.
MCSoundModes == MCFailureModes \ {"FailWriteRequest0IncorrectSequence",
                                  "FailWriteRequest1IncorrectSequence"}

\* A prompt vehicle on lossy links: what is reported as done is done.
LossyRegime ==
  [prompt |-> TRUE, lossy |-> TRUE, plans |-> MCPlanInput,
   operations |-> {"Load", "Write", "Resume", "RemoveAll"},
   failureModes |-> MCSoundModes]
\* Every failure mode on links that lose nothing, as in the unit tests.
TestRegime ==
  [prompt |-> TRUE, lossy |-> FALSE, plans |-> MCLongInput,
   operations |-> {"Load", "Write"}, failureModes |-> MCFailureModes]
\* A timer that may fire while answers are under way.
SlowRegime(operations) ==
  [prompt |-> FALSE, lossy |-> TRUE, plans |-> {<<Home, Land>>},
   operations |-> operations, failureModes |-> {"FailNone"}]

MCRegimes == {LossyRegime, TestRegime, SlowRegime({"Load"}),
              SlowRegime({"Write", "RemoveAll"})}

\* What theorems ask of the constants (MissionProtocolProofs) holds here.
ASSUME HypothesesHold ==
  /\ LosslessIsPrompt
  /\ LinkCapacity >= 2 /\ SendHomePositionOnEmptyList = FALSE
=============================================================================
