------------------------- MODULE MCParameterProtocol -------------------------
EXTENDS ParameterProtocol, TLC

\* One component with three parameters, one of which is volatile; two
\* components whose indices overlap
NoInput == {}
MCFailParam == 1
OneVolatile == {<<1, 2>>}
OneComponent == {(1 :> (0 :> 0 @@ 1 :> 1 @@ 2 :> 0))}
TwoOfOne == {(1 :> (0 :> 0 @@ 1 :> 1))}
OneVolatileOf == {(1 :> (0 :> 1 @@ 2 :> 0))}
NoCache == {[n \in {} |-> 0]}
\* Up to date, with another volatile value, out of date
SomeCaches == {(1 :> (0 :> 1 @@ 2 :> 0)), (1 :> (0 :> 1 @@ 2 :> 1)), (1 :> (0 :> 0 @@ 2 :> 0))}
AllCaches == NoCache \cup SomeCaches
TwoComponents == {(1 :> (0 :> 0 @@ 1 :> 1)) @@ (2 :> (0 :> 1 @@ 1 :> 0))}
AllModes == {"FailNone", "FailMissingParamOnInitialRequest", "FailMissingParamOnAllRequests",
             "FailParamNoResponseToRequestList"}

Base == [prompt |-> TRUE, lossy |-> FALSE, hash |-> FALSE, parameters |-> OneComponent,
         caches |-> NoCache,
         operations |-> {}, limit |-> 0, failureModes |-> {"FailNone"}]

TestRegime  == [Base EXCEPT !.failureModes = AllModes]
LossyRegime == [Base EXCEPT !.lossy = TRUE,
                            !.operations = {"Set", "Refresh", "RefreshAll"}, !.limit = 1]
LossyHashRegime == [Base EXCEPT !.lossy = TRUE, !.hash = TRUE, !.parameters = OneVolatileOf,
                                !.caches = AllCaches, !.operations = {"RefreshAll"}, !.limit = 1]
LossyTwoRegime == [Base EXCEPT !.lossy = TRUE, !.parameters = TwoComponents]
RaceRegime == [Base EXCEPT !.prompt = FALSE, !.parameters = TwoOfOne, !.operations = {"Set", "RefreshAll"},
                            !.limit = 1]
WriteRegime == [Base EXCEPT !.operations = {"Set", "Refresh"}, !.limit = 3]
RefreshRegime == [Base EXCEPT !.operations = {"RefreshAll", "Set"}, !.limit = 2]
CacheRegime == [Base EXCEPT !.parameters = OneVolatileOf, !.hash = TRUE, !.caches = AllCaches,
                            !.operations = {"Volatile", "RefreshAll"}, !.limit = 2]
TwoRegime   == [Base EXCEPT !.parameters = TwoComponents, !.operations = {"Set", "RefreshAll"}, !.limit = 2]

MCRegimes == {TestRegime, LossyRegime, LossyHashRegime, LossyTwoRegime, RaceRegime, WriteRegime, RefreshRegime, CacheRegime, TwoRegime}

\* What theorems ask of the constants (ParameterManagerProofs) holds here.
ASSUME HypothesesHold ==
  /\ CachesKnowVolatile /\ InTimeIsTested
  /\ GenericFirmware = FALSE /\ MaxLoadRetry >= 1
=============================================================================
