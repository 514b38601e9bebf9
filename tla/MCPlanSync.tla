------------------------------ MODULE MCPlanSync ------------------------------
EXTENDS PlanSync

Views == <<"FlyView", "PlanView">>

Base == [operations |-> {}, limit |-> 0, supported |-> {"Fence"}, vehicles |-> Vehicle,
         ready |-> Vehicle, failing |-> FALSE, calm |-> TRUE, steady |-> TRUE]

\* One vehicle, all elements, everything a user may do with a plan
TransferRegime == [Base EXCEPT !.operations = {"Edit", "Load", "Send"}, !.limit = 4,
                               !.supported = {"Fence", "Rally"}, !.vehicles = {"v1"}]
RemoveRegime == [Base EXCEPT !.operations = {"Edit", "Send", "Resume", "Remove"}, !.limit = 4,
                             !.supported = {"Rally"}, !.vehicles = {"v1"}]
\* Transfers that fail
FailRegime == [Base EXCEPT !.operations = {"Edit", "Send", "Load", "Remove"}, !.limit = 3,
                           !.failing = TRUE, !.supported = {}, !.vehicles = {"v1"}]
\* Three vehicles that come, go and are selected, with nothing else going on
ChurnRegime == [Base EXCEPT !.operations = {"Select", "Lose"}, !.limit = 3,
                            !.supported = {}, !.ready = {"v1"},
                            !.calm = FALSE, !.steady = FALSE]
\* Two vehicles, selected and lost between transfers
SwitchRegime == [Base EXCEPT !.operations = {"Select", "Lose", "Resume", "Load"}, !.limit = 3,
                             !.vehicles = {"v1", "v2"}]

MCRegimes == {TransferRegime, RemoveRegime, FailRegime, ChurnRegime, SwitchRegime}

\* A vehicle is lost in the middle of a transfer.
LostRegimes == {[Base EXCEPT !.operations = {"Edit", "Load", "Lose"}, !.limit = 3,
                             !.vehicles = {"v1", "v2"}, !.calm = FALSE]}

\* What a theorem asks of the regimes (PlanSyncProofs) holds but for these.
ASSUME HypothesesHold == TransfersAreLeftAlone \/ Regimes = LostRegimes
=============================================================================
