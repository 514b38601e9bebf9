------------------------- MODULE VehicleConnectProofs -------------------------
(***************************************************************************)
(* Theorems about the connection sequence of a Vehicle, for any vehicle     *)
(* that answers whatever it likes: types, the plan request that no handler   *)
(* forgets, the one request for the capabilities, and the order of the       *)
(* lists.  The steps of the command queue keep the invariant of               *)
(* MavCommandQueueProofs; what is added is what they set off here.           *)
(***************************************************************************)
EXTENDS VehicleConnect, MavCommandQueueProofs, FiniteSetTheorems

\* The types of what the vehicle is known to be, and of its plan
KnownTypeOK ==
  /\ parametersReady \in BOOLEAN /\ capabilitiesKnown \in BOOLEAN
  /\ capabilityBits \subseteq Bits
  /\ capabilitiesRetry \in {"NotStarted", "Running", "Expired"}
  /\ protocolComplete \in BOOLEAN
  /\ protocolMax \in Nat /\ maxProtoVersion \in Nat /\ versionTimers \in Nat
PlanTypeOK ==
  /\ requested \subseteq Manager /\ planComplete \in BOOLEAN
  /\ loading \subseteq Manager /\ writing \subseteq Manager /\ removing \subseteq Manager

\* Two requests for the capabilities that are queued are the same one.
AsksForCapabilities(r) == r.command = "RequestCapabilities"
AsksOnce ==
  \A i, j \in 1 .. Len(mavCommandQueue) :
    AsksForCapabilities(mavCommandQueue[i]) /\ AsksForCapabilities(mavCommandQueue[j]) => i = j

ConnectInv ==
  /\ IInv /\ KnownTypeOK /\ PlanTypeOK /\ active \in BOOLEAN
  /\ NoLostWakeup
  /\ AsksOnce
-----------------------------------------------------------------------------
(* The initial plan request *)

\* A handler that ends in _startPlanRequest leaves no request unmade.
LEMMA StartPlanRequestWakes ==
  ASSUME PlanTypeOK, StartPlanRequest
  PROVE  PlanTypeOK' /\ NoLostWakeup' /\ requested \subseteq requested'
<1>1. CASE ~MayStartPlanRequest
  BY <1>1 DEF StartPlanRequest, MayStartPlanRequest, planVars, PlanTypeOK, NoLostWakeup
<1>2. CASE MayStartPlanRequest
  <2>1. requested' = requested \cup {"Mission"}
    BY <1>2 DEF StartPlanRequest
  <2>2. /\ loading' \subseteq Manager /\ writing' \subseteq Manager
        /\ removing' \subseteq Manager /\ planComplete' \in BOOLEAN
    BY <1>2 DEF StartPlanRequest, SendPlanToVehicle, Load, PlanTypeOK, Manager
  <2> QED
    BY <2>1, <2>2 DEF PlanTypeOK, NoLostWakeup, Manager
<1> QED
  BY <1>1, <1>2

\* What does not touch the three conditions leaves no request unmade either.
LEMMA NothingLearnt ==
  ASSUME NoLostWakeup, UNCHANGED <<parametersReady, capabilitiesKnown, protocolComplete>>,
         requested \subseteq requested'
  PROVE  NoLostWakeup'
BY DEF NoLostWakeup

LEMMA FollowingIsManager == ASSUME NEW manager PROVE Following(manager) \subseteq Manager
BY DEF Following, Manager

\* What a load that ends goes on with, in the Vehicle and in a plan view
LEMMA LoadEndsCases ==
  ASSUME PlanTypeOK, NEW manager \in Manager, LoadEnds(manager)
  PROVE  \E others \in SUBSET Manager :
           /\ "Load" \notin Operations => others = loading \ {manager}
           /\ \/ manager = "Mission" /\ MissionLoadComplete(others)
              \/ manager = "Fence" /\ GeoFenceLoadComplete(others, requested)
              \/ manager = "Rally" /\ RallyPointLoadComplete(others) /\ UNCHANGED requested
<1>1. PICK more \in {{}} \cup (IF "Load" \in Operations THEN {Following(manager)} ELSE {}) :
        \/ manager = "Mission" /\ MissionLoadComplete((loading \ {manager}) \cup more)
        \/ manager = "Fence" /\ GeoFenceLoadComplete((loading \ {manager}) \cup more, requested)
        \/ /\ manager = "Rally" /\ RallyPointLoadComplete((loading \ {manager}) \cup more)
           /\ UNCHANGED requested
  BY DEF LoadEnds
<1>2. (loading \ {manager}) \cup more \in SUBSET Manager
  BY <1>1, FollowingIsManager DEF PlanTypeOK
<1>3. "Load" \notin Operations => (loading \ {manager}) \cup more = loading \ {manager}
  BY <1>1
<1> QED
  BY <1>1, <1>2, <1>3

LEMMA LoadEndsTypes ==
  ASSUME PlanTypeOK, NEW manager \in Manager, LoadEnds(manager)
  PROVE  PlanTypeOK' /\ requested \subseteq requested'
<1>1. writing' = writing /\ removing' = removing
  BY DEF LoadEnds
<1>2. PICK others \in SUBSET Manager :
        \/ manager = "Mission" /\ MissionLoadComplete(others)
        \/ manager = "Fence" /\ GeoFenceLoadComplete(others, requested)
        \/ manager = "Rally" /\ RallyPointLoadComplete(others) /\ UNCHANGED requested
  BY LoadEndsCases
<1>3. CASE manager = "Mission"
  BY <1>1, <1>2, <1>3 DEF MissionLoadComplete, GeoFenceLoadComplete, RallyPointLoadComplete,
     PlanTypeOK, Manager
<1>4. CASE manager = "Fence"
  BY <1>1, <1>2, <1>4 DEF GeoFenceLoadComplete, RallyPointLoadComplete, PlanTypeOK, Manager
<1>5. CASE manager = "Rally"
  BY <1>1, <1>2, <1>5 DEF RallyPointLoadComplete, PlanTypeOK, Manager
<1> QED
  BY <1>3, <1>4, <1>5 DEF Manager
-----------------------------------------------------------------------------
(* Capabilities and protocol version *)

LEMMA LoweredType ==
  ASSUME KnownTypeOK, NEW version \in Nat
  PROVE  Lowered(version) \in Nat
BY DEF Lowered, KnownTypeOK

LEMMA SetMaxProtoVersionType ==
  ASSUME KnownTypeOK, protocolMax' \in Nat, SetMaxProtoVersion
  PROVE  maxProtoVersion' \in Nat
<1>1. maxProtoVersion \in Nat /\ 100 \in Nat /\ 200 \in Nat
  BY DEF KnownTypeOK
<1> QED
  BY <1>1, LoweredType DEF SetMaxProtoVersion

LEMMA LearnCapabilitiesKeeps ==
  ASSUME KnownTypeOK, PlanTypeOK, NEW bits \in SUBSET Bits, LearnCapabilities(bits),
         versionTimers' \in Nat
  PROVE  KnownTypeOK' /\ PlanTypeOK' /\ NoLostWakeup'
<1>1. PlanTypeOK' /\ NoLostWakeup'
  BY StartPlanRequestWakes DEF LearnCapabilities
<1>2. protocolMax' \in Nat
  BY DEF LearnCapabilities, KnownTypeOK
<1>3. maxProtoVersion' \in Nat
  BY <1>2, SetMaxProtoVersionType DEF LearnCapabilities
<1> QED
  BY <1>1, <1>2, <1>3 DEF LearnCapabilities, KnownTypeOK

LEMMA LearnVersionKeeps ==
  ASSUME KnownTypeOK, PlanTypeOK, NEW version \in Nat, LearnVersion(version),
         versionTimers' \in Nat
  PROVE  KnownTypeOK' /\ PlanTypeOK' /\ NoLostWakeup'
<1>1. PlanTypeOK' /\ NoLostWakeup'
  BY StartPlanRequestWakes DEF LearnVersion
<1>2. maxProtoVersion' \in Nat
  BY SetMaxProtoVersionType DEF LearnVersion
<1> QED
  BY <1>1, <1>2 DEF LearnVersion, KnownTypeOK

LEMMA RequestUnsupportedKeeps ==
  ASSUME KnownTypeOK, PlanTypeOK, NoLostWakeup, NEW name, RequestUnsupported(name)
  PROVE  KnownTypeOK' /\ PlanTypeOK' /\ NoLostWakeup' /\ active' = active
<1>0. versionTimers' \in Nat /\ active' = active /\ protocolMax \in Nat
  BY DEF RequestUnsupported, KnownTypeOK
<1>1. CASE LearnCapabilities({})
  BY <1>0, <1>1, LearnCapabilitiesKeeps
<1>2. CASE LearnVersion(protocolMax)
  BY <1>0, <1>2, LearnVersionKeeps
<1>3. CASE UNCHANGED <<vehicleVars, planVars>>
  BY <1>0, <1>3 DEF vehicleVars, planVars, KnownTypeOK, PlanTypeOK, NoLostWakeup
<1> QED
  BY <1>0, <1>1, <1>2, <1>3 DEF RequestUnsupported
-----------------------------------------------------------------------------
(* The command queue *)

\* A queue that loses its head, or nothing, has no more requests than before.
LEMMA FewerRequests ==
  ASSUME mavCommandQueue \in Seq(Request), AsksOnce,
         \/ mavCommandQueue' = mavCommandQueue
         \/ mavCommandQueue /= <<>> /\ mavCommandQueue' = Tail(mavCommandQueue)
  PROVE  AsksOnce'
<1>1. CASE mavCommandQueue' = mavCommandQueue
  BY <1>1 DEF AsksOnce
<1>2. CASE mavCommandQueue /= <<>> /\ mavCommandQueue' = Tail(mavCommandQueue)
  <2> SUFFICES ASSUME NEW i \in 1 .. Len(mavCommandQueue'), NEW j \in 1 .. Len(mavCommandQueue'),
                      AsksForCapabilities(mavCommandQueue'[i]),
                      AsksForCapabilities(mavCommandQueue'[j])
               PROVE  i = j
    BY DEF AsksOnce
  <2>1. /\ i + 1 \in 1 .. Len(mavCommandQueue) /\ mavCommandQueue'[i] = mavCommandQueue[i + 1]
        /\ j + 1 \in 1 .. Len(mavCommandQueue) /\ mavCommandQueue'[j] = mavCommandQueue[j + 1]
        /\ i \in Nat /\ j \in Nat
    BY <1>2
  <2>2. i + 1 = j + 1
    BY <2>1 DEF AsksOnce
  <2> QED
    BY <2>1, <2>2
<1> QED
  BY <1>1, <1>2

\* A command that is queued behind the others may ask for the capabilities if none
\* of them does.
LEMMA OneMoreRequest ==
  ASSUME mavCommandQueue \in Seq(Request), AsksOnce, NEW r \in Request,
         mavCommandQueue' = Append(mavCommandQueue, r),
         AsksForCapabilities(r) => ~CapabilitiesRequested
  PROVE  AsksOnce'
<1> DEFINE n == Len(mavCommandQueue)
<1>1. n \in Nat /\ Len(mavCommandQueue') = n + 1 /\ mavCommandQueue'[n + 1] = r
      /\ \A i \in 1 .. n : mavCommandQueue'[i] = mavCommandQueue[i]
  OBVIOUS
<1>2. \A i \in 1 .. n : AsksForCapabilities(r) => ~AsksForCapabilities(mavCommandQueue[i])
  BY DEF CapabilitiesRequested, AsksForCapabilities
<1> SUFFICES ASSUME NEW i \in 1 .. Len(mavCommandQueue'), NEW j \in 1 .. Len(mavCommandQueue'),
                    AsksForCapabilities(mavCommandQueue'[i]),
                    AsksForCapabilities(mavCommandQueue'[j])
             PROVE  i = j
  BY DEF AsksOnce
<1>3. CASE i \in 1 .. n /\ j \in 1 .. n
  BY <1>1, <1>3 DEF AsksOnce
<1>4. CASE i = n + 1 /\ j \in 1 .. n
  BY <1>1, <1>2, <1>4
<1>5. CASE i \in 1 .. n /\ j = n + 1
  BY <1>1, <1>2, <1>5
<1> QED
  BY <1>1, <1>3, <1>4, <1>5

LEMMA HandshakeRequests ==
  ASSUME NEW name \in Handshake
  PROVE  HandshakeRequest(name) \in Request /\ HandshakeRequest(name).command = name
<1>1. PICK p \in Param : TRUE
  BY HandshakeAssumption
<1>2. [command |-> name, param |-> p] \in Request
  BY HandshakeAssumption DEF Request
<1> QED
  BY <1>2 DEF HandshakeRequest

\* A step of the queue is one that keeps the invariant of the queue.
LEMMA QueueSteps ==
  ASSUME IInv,
         \/ SendMavCommandAgain
         \/ \E ack \in CommandAck : HandleCommandAck(ack)
         \/ \E r \in Request : SendMavCommand(r)
         \/ results' = {} /\ UNCHANGED <<queueVars, toVehicle>>
  PROVE  IInv'
<1>1. CASE results' = {} /\ UNCHANGED <<queueVars, toVehicle>>
  BY <1>1 DEF queueVars, IInv, TypeOK, HeadIsUnderWay, RetriesBounded, IsSentOnce
<1> QED
  BY <1>1, SendKeepsInvariant, TimeoutKeepsInvariant, AckKeepsInvariant
-----------------------------------------------------------------------------
(* The steps *)

\* What a step that learns nothing new about the vehicle, or about its plan, keeps
LEMMA SameKnowledge ==
  ASSUME KnownTypeOK, PlanTypeOK, NoLostWakeup
  PROVE  /\ UNCHANGED vehicleVars => KnownTypeOK'
         /\ UNCHANGED planVars => PlanTypeOK'
         /\ UNCHANGED <<vehicleVars, planVars>> => NoLostWakeup'
BY DEF vehicleVars, planVars, KnownTypeOK, PlanTypeOK, NoLostWakeup

\* What a step that leaves the queue alone keeps
LEMMA SameQueue ==
  ASSUME IInv, AsksOnce, results' = {}, UNCHANGED <<queueVars, toVehicle>>
  PROVE  IInv' /\ AsksOnce'
<1>1. AsksOnce'
  BY FewerRequests DEF IInv, TypeOK, queueVars
<1> QED
  BY <1>1, QueueSteps

LEMMA TimesOutKeeps ==
  ASSUME ConnectInv, ConnectTimesOut
  PROVE  ConnectInv'
<1> USE DEF ConnectInv
<1>1. mavCommandQueue \in Seq(Request)
  BY DEF IInv, TypeOK
<1>2. CASE GiveUpCommand /\ RequestUnsupported(Head(mavCommandQueue).command)
  <2>1. IInv'
    BY <1>2, QueueSteps DEF SendMavCommandAgain
  <2>2. AsksOnce'
    BY <1>1, <1>2, FewerRequests DEF GiveUpCommand, TimedOut
  <2> QED
    BY <1>2, <2>1, <2>2, RequestUnsupportedKeeps
<1>3. CASE (LeaveCommand \/ RetryCommand) /\ UNCHANGED <<vehicleVars, planVars, active>>
  <2>1. IInv'
    BY <1>3, QueueSteps DEF SendMavCommandAgain
  <2>2. AsksOnce'
    BY <1>1, <1>3, FewerRequests DEF LeaveCommand, RetryCommand
  <2> QED
    BY <1>3, <2>1, <2>2, SameKnowledge
<1> QED
  BY <1>2, <1>3 DEF ConnectTimesOut

LEMMA AwaitVersionKeeps ==
  ASSUME KnownTypeOK, PlanTypeOK, NoLostWakeup, NEW name, AwaitVersion(name)
  PROVE  KnownTypeOK' /\ PlanTypeOK' /\ NoLostWakeup' /\ active' = active
<1>1. versionTimers' \in Nat
  BY DEF AwaitVersion, KnownTypeOK
<1> QED
  BY <1>1 DEF AwaitVersion, planVars, KnownTypeOK, PlanTypeOK, NoLostWakeup

LEMMA ConnectAckKeeps ==
  ASSUME ConnectInv, NEW ack \in CommandAck, ConnectAck(ack)
  PROVE  ConnectInv'
<1> USE DEF ConnectInv
<1>1. IInv'
  BY QueueSteps DEF ConnectAck
<1>2. AsksOnce'
  BY FewerRequests
     DEF ConnectAck, HandleCommandAck, CommandCompleted, StrayAck, Answers, queueVars, IInv, TypeOK
<1>3. KnownTypeOK' /\ PlanTypeOK' /\ NoLostWakeup' /\ active' = active
  BY RequestUnsupportedKeeps, AwaitVersionKeeps DEF ConnectAck
<1> QED
  BY <1>1, <1>2, <1>3

\* What the vehicle tells, or does not tell in time
LEMMA LearningKeeps ==
  ASSUME ConnectInv,
         HandleAutopilotVersion \/ HandleProtocolVersion \/ ProtocolVersionTimeOut
  PROVE  ConnectInv'
<1> USE DEF ConnectInv
<1>1. IInv' /\ AsksOnce' /\ active' = active
  BY SameQueue DEF HandleAutopilotVersion, HandleProtocolVersion, ProtocolVersionTimeOut
<1>2. CASE HandleAutopilotVersion
  <2>1. PICK bits \in Capabilities : LearnCapabilities(bits)
    BY <1>2 DEF HandleAutopilotVersion
  <2>2. bits \in SUBSET Bits /\ versionTimers' \in Nat
    BY <1>2, VehicleAssumption DEF HandleAutopilotVersion, KnownTypeOK
  <2> QED
    BY <1>1, <2>1, <2>2, LearnCapabilitiesKeeps
<1>3. CASE HandleProtocolVersion
  <2>1. PICK version \in ProtocolVersion : LearnVersion(version)
    BY <1>3 DEF HandleProtocolVersion
  <2>2. version \in Nat /\ versionTimers' \in Nat
    BY <1>3, VehicleAssumption DEF HandleProtocolVersion, KnownTypeOK
  <2> QED
    BY <1>1, <2>1, <2>2, LearnVersionKeeps
<1>4. CASE ProtocolVersionTimeOut
  <2>1. LearnVersion(100) /\ versionTimers' \in Nat /\ 100 \in Nat
    BY <1>4 DEF ProtocolVersionTimeOut, TimerPending, KnownTypeOK
  <2> QED
    BY <1>1, <2>1, LearnVersionKeeps
<1> QED
  BY <1>2, <1>3, <1>4

\* A heartbeat queues a request for the capabilities only if none is queued.
LEMMA HeartbeatKeeps ==
  ASSUME ConnectInv, Heartbeat
  PROVE  ConnectInv'
<1> USE DEF ConnectInv
<1>0. active' = active /\ versionTimers' \in Nat
  BY DEF Heartbeat, KnownTypeOK
<1>1. CASE /\ capabilitiesRetry' = "Running"
           /\ results' = {}
           /\ UNCHANGED <<queueVars, toVehicle, planVars, parametersReady, capabilitiesKnown,
                          capabilityBits, protocolComplete, protocolMax, maxProtoVersion>>
  <2>1. IInv' /\ AsksOnce'
    BY <1>1, SameQueue
  <2>2. KnownTypeOK' /\ PlanTypeOK' /\ NoLostWakeup'
    BY <1>0, <1>1 DEF planVars, KnownTypeOK, PlanTypeOK, NoLostWakeup
  <2> QED
    BY <1>0, <2>1, <2>2
<1>2. CASE /\ SendMavCommand(HandshakeRequest("RequestCapabilities"))
           /\ UNCHANGED <<vehicleVars, planVars>>
  <2>1. HandshakeRequest("RequestCapabilities") \in Request
    BY HandshakeRequests DEF Handshake
  <2>2. IInv'
    BY <1>2, <2>1, QueueSteps
  <2>3. AsksOnce'
    BY <1>2, <2>1, OneMoreRequest DEF Heartbeat, SendMavCommand, IInv, TypeOK
  <2> QED
    BY <1>0, <1>2, <2>2, <2>3, SameKnowledge
<1>3. CASE LearnCapabilities({}) /\ results' = {} /\ UNCHANGED <<queueVars, toVehicle>>
  <2>1. {} \in SUBSET Bits
    OBVIOUS
  <2> QED
    BY <1>0, <1>3, <2>1, SameQueue, LearnCapabilitiesKeeps
<1> QED
  BY <1>1, <1>2, <1>3 DEF Heartbeat

LEMMA TenSecondsPassKeeps ==
  ASSUME ConnectInv, TenSecondsPass
  PROVE  ConnectInv'
<1>1. IInv'
  BY DEF ConnectInv, TenSecondsPass, vars, queueVars, IInv, TypeOK, HeadIsUnderWay,
     RetriesBounded, IsSentOnce
<1>2. AsksOnce'
  BY DEF ConnectInv, TenSecondsPass, vars, queueVars, AsksOnce
<1> QED
  BY <1>1, <1>2
     DEF ConnectInv, TenSecondsPass, planVars, KnownTypeOK, PlanTypeOK, NoLostWakeup

LEMMA ParametersReadyKeeps ==
  ASSUME ConnectInv, ParametersReady
  PROVE  ConnectInv'
<1> USE DEF ConnectInv
<1>1. IInv' /\ AsksOnce'
  BY SameQueue DEF ParametersReady
<1>2. PlanTypeOK' /\ NoLostWakeup'
  BY StartPlanRequestWakes DEF ParametersReady
<1> QED
  BY <1>1, <1>2 DEF ParametersReady, KnownTypeOK

LEMMA CallerSendsKeeps ==
  ASSUME ConnectInv, CallerSends
  PROVE  ConnectInv'
<1> USE DEF ConnectInv
<1>1. PICK r \in Request : r.command /= "RequestCapabilities" /\ SendMavCommand(r)
  BY DEF CallerSends
<1>2. AsksOnce'
  BY <1>1, OneMoreRequest DEF AsksForCapabilities, SendMavCommand, IInv, TypeOK
<1> QED
  BY <1>1, <1>2, QueueSteps, SameKnowledge DEF CallerSends

\* Links that raise the version or lower it
LEMMA LinksKeep ==
  ASSUME ConnectInv, Mavlink2Message \/ HighLatencyLinkBack
  PROVE  ConnectInv'
<1> USE DEF ConnectInv
<1>1. IInv' /\ AsksOnce'
  BY SameQueue DEF Mavlink2Message, HighLatencyLinkBack
<1>2. maxProtoVersion' \in Nat
  BY LoweredType DEF Mavlink2Message, HighLatencyLinkBack
<1> QED
  BY <1>1, <1>2
     DEF Mavlink2Message, HighLatencyLinkBack, planVars, KnownTypeOK, PlanTypeOK, NoLostWakeup

\* Transfers that end or that users begin, and the view that shows the plan
LEMMA TransfersKeep ==
  ASSUME ConnectInv,
         \/ \E manager \in Manager : LoadEnds(manager) \/ WriteEnds(manager) \/ RemoveEnds(manager)
         \/ UserTransfers \/ Activate \/ Deactivate
  PROVE  ConnectInv'
<1> USE DEF ConnectInv
<1>1. IInv' /\ AsksOnce' /\ UNCHANGED vehicleVars
  BY SameQueue DEF LoadEnds, WriteEnds, RemoveEnds, UserTransfers, Activate, Deactivate
<1>2. PlanTypeOK' /\ active' \in BOOLEAN /\ requested \subseteq requested'
  <2>1. ASSUME NEW manager \in Manager, LoadEnds(manager)
        PROVE  PlanTypeOK' /\ active' = active /\ requested \subseteq requested'
    BY <2>1, LoadEndsTypes DEF LoadEnds
  <2>2. ASSUME NEW manager \in Manager, WriteEnds(manager)
        PROVE  PlanTypeOK' /\ active' = active /\ requested \subseteq requested'
    BY <2>2, FollowingIsManager DEF WriteEnds, PlanTypeOK
  <2>3. ASSUME NEW manager \in Manager, RemoveEnds(manager)
        PROVE  PlanTypeOK' /\ active' = active /\ requested \subseteq requested'
    BY <2>3 DEF RemoveEnds, PlanTypeOK
  <2>4. CASE UserTransfers
    <3>1. /\ active' = active /\ requested' = requested /\ planComplete' = planComplete
      BY <2>4 DEF UserTransfers
    <3>2. "Mission" \in Manager
      BY DEF Manager
    <3>3. loading' \subseteq Manager /\ writing' \subseteq Manager /\ removing' \subseteq Manager
      BY <2>4, <3>2 DEF UserTransfers, Load, PlanTypeOK
    <3> QED
      BY <3>1, <3>3 DEF PlanTypeOK
  <2>5. CASE Activate \/ Deactivate
    <3>1. planComplete' \in BOOLEAN /\ active' \in BOOLEAN
      BY <2>5 DEF Activate, Deactivate, ShowPlan, planVars, PlanTypeOK
    <3> QED
      BY <2>5, <3>1 DEF Activate, Deactivate, planVars, PlanTypeOK
  <2> QED
    BY <2>1, <2>2, <2>3, <2>4, <2>5
<1>3. KnownTypeOK'
  BY <1>1, SameKnowledge
<1>4. NoLostWakeup'
  BY <1>1, <1>2, NothingLearnt DEF vehicleVars
<1> QED
  BY <1>1, <1>2, <1>3, <1>4

LEMMA ConnectStutters ==
  ASSUME ConnectInv, UNCHANGED connectVars
  PROVE  ConnectInv'
BY DEF ConnectInv, connectVars, vars, queueVars, vehicleVars, planVars, IInv, TypeOK,
   HeadIsUnderWay, RetriesBounded, IsSentOnce, KnownTypeOK, PlanTypeOK, NoLostWakeup, AsksOnce

LEMMA ConnectStep == ConnectInv /\ [ConnectNext]_connectVars => ConnectInv'
<1> SUFFICES ASSUME ConnectInv, [ConnectNext]_connectVars PROVE ConnectInv'
  OBVIOUS
<1> QED
  BY TimesOutKeeps, ConnectAckKeeps, LearningKeeps, HeartbeatKeeps, TenSecondsPassKeeps,
     ParametersReadyKeeps, CallerSendsKeeps, LinksKeep, TransfersKeep,
     ConnectStutters, VehicleAssumption DEF ConnectNext
-----------------------------------------------------------------------------
\* A new vehicle has the two requests queued, the first of which is under way, or
\* nothing at all.
LEMMA ConnectInitInv == ConnectInit => ConnectInv
<1> SUFFICES ASSUME ConnectInit PROVE ConnectInv
  OBVIOUS
<1>1. PICK quiet \in Quiet :
        /\ mavCommandQueue =
             IF quiet THEN <<>> ELSE <<HandshakeRequest("RequestCapabilities"),
                                       HandshakeRequest("RequestProtocolVersion")>>
        /\ mavCommandRetryCount = IF quiet THEN 0 ELSE 1
        /\ ackTimerRunning = ~quiet
        /\ results = {} /\ toVehicle = <<>>
        /\ parametersReady = FALSE
        /\ capabilitiesKnown = quiet
        /\ capabilityBits \in IF quiet THEN {{}} ELSE Capabilities
        /\ capabilitiesRetry = "NotStarted"
        /\ protocolComplete = FALSE /\ protocolMax = 0
        /\ maxProtoVersion = IF quiet THEN 100 ELSE 0
        /\ versionTimers = 0
        /\ requested = IF quiet THEN Manager ELSE {}
        /\ planComplete = quiet
        /\ loading = {} /\ writing = {} /\ removing = {} /\ active = FALSE
  BY DEF ConnectInit
<1>2. quiet \in BOOLEAN
  BY ChoiceAssumption
<1>3. /\ HandshakeRequest("RequestCapabilities") \in Request
      /\ HandshakeRequest("RequestProtocolVersion") \in Request
      /\ HandshakeRequest("RequestProtocolVersion").command = "RequestProtocolVersion"
  BY HandshakeRequests DEF Handshake
<1> DEFINE asks == HandshakeRequest("RequestCapabilities")
           version == HandshakeRequest("RequestProtocolVersion")
<1> HIDE DEF asks, version
<1>4. KnownTypeOK /\ PlanTypeOK /\ active \in BOOLEAN /\ NoLostWakeup
  BY <1>1, <1>2, VehicleAssumption DEF KnownTypeOK, PlanTypeOK, NoLostWakeup
<1>5. CASE quiet
  <2>1. mavCommandQueue = <<>>
    BY <1>1, <1>5
  <2>2. IInv
    BY <1>1, <1>5, <2>1, EmptySeq DEF IInv, TypeOK, HeadIsUnderWay, RetriesBounded
  <2>3. AsksOnce
    BY <2>1 DEF AsksOnce
  <2> QED
    BY <1>4, <2>2, <2>3 DEF ConnectInv
<1>6. CASE ~quiet
  <2>1. mavCommandQueue = <<asks, version>> /\ asks \in Request /\ version \in Request
        /\ ~AsksForCapabilities(version)
    BY <1>1, <1>3, <1>6 DEF asks, version, AsksForCapabilities
  <2>2. mavCommandQueue \in Seq(Request) /\ mavCommandQueue /= <<>> /\ Len(mavCommandQueue) = 2
        /\ mavCommandQueue[2] = version
    BY <2>1
  <2>3. mavCommandRetryCount = 1 /\ ackTimerRunning = TRUE /\ toVehicle \in Seq(Request)
    BY <1>1, <1>6, EmptySeq
  <2>4. IInv
    BY <1>1, <2>2, <2>3, RetryAssumption DEF IInv, TypeOK, HeadIsUnderWay, RetriesBounded
  <2>5. AsksOnce
    BY <2>1, <2>2 DEF AsksOnce
  <2> QED
    BY <1>4, <2>4, <2>5 DEF ConnectInv
<1> QED
  BY <1>2, <1>5, <1>6

\* The inductive invariant of the connection sequence, whatever the vehicle answers.
THEOREM ConnectInvariance == ConnectSpec => []ConnectInv
<1> QED
  BY ConnectInitInv, ConnectStep, PTL DEF ConnectSpec

\* Every reachable state of a connection is well typed.
THEOREM ConnectTypeCorrect == ConnectSpec => []ConnectTypeOK
<1>1. ConnectInv => ConnectTypeOK
  BY DEF ConnectInv, IInv, KnownTypeOK, PlanTypeOK, ConnectTypeOK
<1> QED
  BY <1>1, ConnectInvariance, PTL

\* No order of the three answers makes the Vehicle miss the moment at which it
\* requests the plan, however often any of them is repeated or given up.
THEOREM PlanIsRequested == ConnectSpec => []NoLostWakeup
<1>1. ConnectInv => NoLostWakeup
  BY DEF ConnectInv
<1> QED
  BY <1>1, ConnectInvariance, PTL

LEMMA OneOfMany ==
  ASSUME mavCommandQueue \in Seq(Request), AsksOnce
  PROVE  OneCapabilitiesRequest
<1> DEFINE S == {i \in 1 .. Len(mavCommandQueue) :
                   mavCommandQueue[i].command = "RequestCapabilities"}
<1>1. CASE S = {}
  <2>1. Cardinality(S) = 0
    BY <1>1, FS_EmptySet
  <2> QED
    BY <2>1 DEF OneCapabilitiesRequest
<1>2. CASE S /= {}
  <2>1. PICK i \in S : TRUE
    BY <1>2
  <2>2. \A j \in S : j = i
    BY <2>1 DEF AsksOnce, AsksForCapabilities
  <2>3. S = {i}
    BY <2>1, <2>2
  <2>4. Cardinality(S) = 1
    BY <2>3, FS_Singleton
  <2> QED
    BY <2>4 DEF OneCapabilitiesRequest
<1> QED
  BY <1>1, <1>2

\* Heartbeats, callers and retries never queue a second request for the capabilities.
THEOREM CapabilitiesAskedOnce == ConnectSpec => []OneCapabilitiesRequest
<1>1. ConnectInv => OneCapabilitiesRequest
  BY OneOfMany DEF ConnectInv, IInv, TypeOK
<1> QED
  BY <1>1, ConnectInvariance, PTL
-----------------------------------------------------------------------------
(* The order of the three lists *)

\* Which lists have been asked for says which one may be under way.
RequestedBefore(manager) ==
  IF manager = "Mission" THEN {"Mission"}
  ELSE IF manager = "Fence" THEN {"Mission", "Fence"} ELSE Manager
InOrder ==
  /\ "Mission" \notin requested => requested = {}
  /\ \A manager \in loading : requested = RequestedBefore(manager)

LEMMA StartKeepsOrder ==
  ASSUME PlanTypeOK, InOrder, StartPlanRequest
  PROVE  InOrder'
<1>1. CASE ~MayStartPlanRequest
  BY <1>1 DEF StartPlanRequest, MayStartPlanRequest, planVars, InOrder, RequestedBefore
<1>2. CASE MayStartPlanRequest
  <2>1. requested = {} /\ requested' = {"Mission"}
    BY <1>2 DEF StartPlanRequest, MayStartPlanRequest, InOrder
  <2>2. loading = {}
    BY <2>1 DEF PlanTypeOK, InOrder, RequestedBefore, Manager
  <2>3. loading' \subseteq {"Mission"}
    BY <1>2, <2>2 DEF StartPlanRequest, SendPlanToVehicle, Load
  <2> QED
    BY <2>1, <2>3 DEF InOrder, RequestedBefore
<1> QED
  BY <1>1, <1>2

\* Only the list asked for last is under way, so that the next one is the next.
LEMMA LoadEndsKeepsOrder ==
  ASSUME PlanTypeOK, InOrder, NEW manager \in Manager, LoadEnds(manager),
         "Load" \notin Operations
  PROVE  InOrder'
<1>1. manager \in loading /\ requested = RequestedBefore(manager)
  BY DEF LoadEnds, InOrder
<1>2. loading \subseteq {manager}
  BY <1>1 DEF InOrder, RequestedBefore, PlanTypeOK, Manager
<1> DEFINE Goes(others) ==
      \/ manager = "Mission" /\ MissionLoadComplete(others)
      \/ manager = "Fence" /\ GeoFenceLoadComplete(others, requested)
      \/ manager = "Rally" /\ RallyPointLoadComplete(others) /\ UNCHANGED requested
<1>0. Goes({})
  <2>1. PICK others : others = loading \ {manager} /\ Goes(others)
    BY LoadEndsCases
  <2> QED
    BY <1>2, <2>1
<1>3. CASE manager = "Mission"
  <2>1. requested = {"Mission"}
    BY <1>1, <1>3 DEF RequestedBefore
  <2>2. \/ requested' = {"Mission", "Fence"} /\ loading' \subseteq {"Fence"}
        \/ requested' = Manager /\ loading' \subseteq {"Rally"}
    BY <1>0, <1>3, <2>1 DEF MissionLoadComplete, GeoFenceLoadComplete, RallyPointLoadComplete,
       Manager
  <2> QED
    BY <2>2 DEF InOrder, RequestedBefore, Manager
<1>4. CASE manager = "Fence"
  <2>1. requested = {"Mission", "Fence"}
    BY <1>1, <1>4 DEF RequestedBefore
  <2>2. requested' = Manager /\ loading' \subseteq {"Rally"}
    BY <1>0, <1>4, <2>1 DEF GeoFenceLoadComplete, RallyPointLoadComplete, Manager
  <2> QED
    BY <2>2 DEF InOrder, RequestedBefore, Manager
<1>5. CASE manager = "Rally"
  <2>1. requested' = requested /\ loading' = {}
    BY <1>0, <1>5 DEF RallyPointLoadComplete
  <2> QED
    BY <2>1 DEF InOrder
<1> QED
  BY <1>3, <1>4, <1>5 DEF Manager

\* Users who load nothing leave the order alone, whatever else they do.
LEMMA StepKeepsOrder ==
  ASSUME "Load" \notin Operations, ConnectInv, InOrder, [ConnectNext]_connectVars
  PROVE  InOrder'
<1>0. PlanTypeOK
  BY DEF ConnectInv
<1>1. CASE StartPlanRequest
  BY <1>0, <1>1, StartKeepsOrder
<1>2. CASE UNCHANGED <<requested, loading>>
  BY <1>2 DEF InOrder
<1>3. CASE \E manager \in Manager : LoadEnds(manager)
  BY <1>0, <1>3, LoadEndsKeepsOrder
<1>4. StartPlanRequest \/ UNCHANGED <<requested, loading>> \/ \E manager \in Manager : LoadEnds(manager)
  <2>1. ASSUME NEW name, RequestUnsupported(name)
        PROVE  StartPlanRequest \/ UNCHANGED <<requested, loading>>
    BY <2>1 DEF RequestUnsupported, LearnCapabilities, LearnVersion, planVars
  <2>2. CASE ConnectTimesOut
    BY <2>1, <2>2 DEF ConnectTimesOut, planVars
  <2>3. ASSUME NEW ack \in Acknowledgements, ConnectAck(ack)
        PROVE  StartPlanRequest \/ UNCHANGED <<requested, loading>>
    BY <2>1, <2>3 DEF ConnectAck, AwaitVersion, planVars
  <2>4. CASE HandleAutopilotVersion \/ HandleProtocolVersion \/ ProtocolVersionTimeOut
    BY <2>4 DEF HandleAutopilotVersion, HandleProtocolVersion, ProtocolVersionTimeOut,
       LearnCapabilities, LearnVersion
  <2>5. CASE Heartbeat
    BY <2>5 DEF Heartbeat, LearnCapabilities, planVars
  <2>6. CASE TenSecondsPass \/ ParametersReady \/ CallerSends \/ Mavlink2Message
             \/ HighLatencyLinkBack
    BY <2>6 DEF TenSecondsPass, ParametersReady, CallerSends, Mavlink2Message,
       HighLatencyLinkBack, planVars
  <2>7. CASE UserTransfers
    BY <2>7 DEF UserTransfers
  <2>8. CASE (\E manager \in Manager : WriteEnds(manager) \/ RemoveEnds(manager))
             \/ Activate \/ Deactivate
    BY <2>8 DEF WriteEnds, RemoveEnds, Activate, Deactivate, planVars
  <2>9. CASE UNCHANGED connectVars
    BY <2>9 DEF connectVars, planVars
  <2> QED
    BY <2>2, <2>3, <2>4, <2>5, <2>6, <2>7, <2>8, <2>9 DEF ConnectNext
<1> QED
  BY <1>1, <1>2, <1>3, <1>4

LEMMA OrderIsSequence ==
  ASSUME PlanTypeOK, InOrder
  PROVE  LoadsInSequence
<1>1. "Mission" \in loading => requested = {"Mission"}
  BY DEF InOrder, RequestedBefore
<1>2. CASE loading = {}
  BY <1>1, <1>2, FS_EmptySet DEF LoadsInSequence
<1>3. CASE loading /= {}
  <2>1. PICK manager \in loading : TRUE
    BY <1>3
  <2>2. loading = {manager}
    BY <2>1 DEF InOrder, RequestedBefore, PlanTypeOK, Manager
  <2>3. Cardinality(loading) = 1
    BY <2>2, FS_Singleton
  <2> QED
    BY <1>1, <2>3 DEF LoadsInSequence
<1> QED
  BY <1>2, <1>3

\* The lists are loaded one after the other, and the mission once, for every vehicle,
\* also when users write or remove plans meanwhile.
THEOREM InitialLoadsInSequence ==
  ASSUME "Load" \notin Operations
  PROVE  ConnectSpec => []LoadsInSequence
<1>1. ConnectInit => InOrder
  BY DEF ConnectInit, InOrder, RequestedBefore, Manager
<1>2. ConnectInv /\ InOrder /\ [ConnectNext]_connectVars => InOrder'
  BY StepKeepsOrder
<1>3. ConnectInv /\ InOrder => LoadsInSequence
  BY OrderIsSequence DEF ConnectInv
<1> QED
  BY <1>1, <1>2, <1>3, ConnectInvariance, PTL DEF ConnectSpec
-----------------------------------------------------------------------------
(* The queue inside the connection *)

LEMMA ConnectStepServes == [ConnectNext]_connectVars => [Promise!Next]_(Promise!vars)
<1> SUFFICES ASSUME [ConnectNext]_connectVars PROVE [Promise!Next]_(Promise!vars)
  OBVIOUS
<1>1. CASE results' = {} /\ UNCHANGED mavCommandQueue
  BY <1>1 DEF Promise!Next, Promise!Work
<1>2. CASE ConnectTimesOut
  BY <1>2, TimeoutImplements DEF ConnectTimesOut, SendMavCommandAgain
<1>3. ASSUME NEW ack \in Acknowledgements, ConnectAck(ack)
      PROVE  Promise!Next
  BY <1>3, AckImplements, VehicleAssumption DEF ConnectAck
<1>4. ASSUME NEW r \in Request, SendMavCommand(r)
      PROVE  Promise!Next
  BY <1>4 DEF SendMavCommand, Promise!Next, Promise!Submit
<1>5. CASE Heartbeat
  <2>1. HandshakeRequest("RequestCapabilities") \in Request
    BY HandshakeRequests DEF Handshake
  <2> QED
    BY <1>1, <1>4, <1>5, <2>1 DEF Heartbeat, queueVars
<1>6. CASE CallerSends
  BY <1>4, <1>6 DEF CallerSends
<1>7. CASE \/ HandleAutopilotVersion \/ HandleProtocolVersion \/ ProtocolVersionTimeOut
           \/ ParametersReady \/ Mavlink2Message \/ HighLatencyLinkBack
           \/ UserTransfers \/ Activate \/ Deactivate
           \/ \E manager \in Manager : LoadEnds(manager) \/ WriteEnds(manager) \/ RemoveEnds(manager)
  BY <1>1, <1>7 DEF HandleAutopilotVersion, HandleProtocolVersion, ProtocolVersionTimeOut,
     ParametersReady, Mavlink2Message, HighLatencyLinkBack, UserTransfers, Activate, Deactivate,
     LoadEnds, WriteEnds, RemoveEnds, queueVars
<1>8. CASE TenSecondsPass \/ UNCHANGED connectVars
  BY <1>8 DEF TenSecondsPass, connectVars, vars, queueVars, Promise!vars
<1> QED
  BY <1>2, <1>3, <1>5, <1>6, <1>7, <1>8 DEF ConnectNext

\* The queue keeps its promise to the callers of sendMavCommand while the handlers of
\* the connection send, complete and give up commands through it.
THEOREM ConnectServesCommands == ConnectSpec => [][Promise!Next]_(Promise!vars)
<1> QED
  BY ConnectStepServes, PTL DEF ConnectSpec
=============================================================================
