---------------------------- MODULE VehicleConnect ----------------------------
(***************************************************************************)
(* What happens between a Vehicle and a vehicle that has just been found:   *)
(* two commands ask for its capabilities and protocol version, the          *)
(* parameters are downloaded, and once all three are known the mission, the  *)
(* geofence and the rally points are loaded one after the other.  The        *)
(* handlers of MavCommandQueue are taken whole: here with what giving up or   *)
(* acknowledging one of the two commands sets off.                          *)
(*                                                                         *)
(* The vehicle may answer anything at any time, so that it does not matter   *)
(* what its link holds.  A plan manager is as PlanTransaction promises: busy  *)
(* until it reports, and deaf to a request while it is busy.                *)
(***************************************************************************)
EXTENDS MavCommandQueue, FiniteSets

CONSTANTS
  Acknowledgements, \* bound: the acknowledgements a vehicle may send
  Capabilities,     \* bound: the capabilities a vehicle may report
  ProtocolVersion,  \* what vehicles report in PROTOCOL_VERSION (200 in practice)
  Autoload,         \* whether a plan file to load for the vehicle may exist
  Quiet,            \* whether the link may be one on which nothing is requested
  Operations,       \* bound: what users do meanwhile
  TimerLimit        \* bound: version timers pending at once

Manager == {"Mission", "Fence", "Rally"}
Bits == {"Mavlink2", "Fence", "Rally"}
Handshake == {"RequestCapabilities", "RequestProtocolVersion"}
HandshakeRequest(name) == CHOOSE r \in Request : r.command = name

ASSUME HandshakeAssumption == Handshake \subseteq CommandName /\ Param /= {}
ASSUME VehicleAssumption   == /\ Acknowledgements \subseteq CommandAck
                              /\ Capabilities \subseteq SUBSET Bits
                              /\ ProtocolVersion \subseteq Nat \ {0}
ASSUME ChoiceAssumption    == Autoload \subseteq BOOLEAN /\ Quiet \subseteq BOOLEAN

VARIABLES
  parametersReady,     \* _parameterManager->parametersReady()
  capabilitiesKnown,   \* _capabilityBitsKnown
  capabilityBits,      \* _capabilityBits
  capabilitiesRetry,   \* _capabilitiesRetryCount and _capabilitiesRetryElapsed
  protocolComplete,    \* _mavlinkProtocolRequestComplete
  protocolMax,         \* _mavlinkProtocolRequestMaxProtoVersion
  maxProtoVersion,     \* _maxProtoVersion
  versionTimers,       \* single shots of _protocolVersionTimeOut pending
  requested,           \* the managers whose ...InitialRequestSent is set
  planComplete,        \* _initialPlanRequestComplete
  loading,             \* the managers that read from the vehicle
  writing,             \* the managers that write to it
  removing,            \* the managers that remove what it has
  active               \* it is MultiVehicleManager's active vehicle

vehicleVars == <<parametersReady, capabilitiesKnown, capabilityBits, capabilitiesRetry,
                 protocolComplete, protocolMax, maxProtoVersion, versionTimers>>
planVars == <<requested, planComplete, loading, writing, removing>>
connectVars == <<vars, vehicleVars, planVars, active>>

busy == loading \cup writing \cup removing
-----------------------------------------------------------------------------
(* The initial plan request *)

\* loadFromVehicle of a manager: refused while it is busy
Load(manager) == loading' = loading \cup ({manager} \ (writing \cup removing))

\* MUTANT of MayStartPlanRequest: the request is made again and again
StartsAgain == parametersReady' /\ capabilitiesKnown' /\ protocolComplete'

\* _startPlanRequest, at the end of a handler
MayStartPlanRequest ==
  "Mission" \notin requested /\ parametersReady' /\ capabilitiesKnown' /\ protocolComplete'

\* A plan file for this vehicle is sent to it in place of loading its plan.
SendPlanToVehicle ==
  /\ planComplete' = TRUE
  /\ writing' = IF busy = {} THEN {"Mission"} ELSE writing
  /\ UNCHANGED loading

StartPlanRequest ==
  IF ~MayStartPlanRequest THEN UNCHANGED planVars
  ELSE /\ requested' = requested \cup {"Mission"}
       /\ UNCHANGED removing
       /\ \E fileExists \in Autoload :
            IF fileExists THEN SendPlanToVehicle
            ELSE Load("Mission") /\ UNCHANGED <<planComplete, writing>>

Supported(manager) == manager \in capabilityBits /\ maxProtoVersion >= 200

\* The lists that a load or an upload of a user goes on with when manager has ended:
\* the next one that is supported, if its manager is idle
Following(manager) ==
  (IF manager = "Mission" /\ Supported("Fence") THEN {"Fence"}
   ELSE IF manager /= "Rally" /\ Supported("Rally") THEN {"Rally"} ELSE {}) \ busy

RallyPointLoadComplete(others) == loading' = others /\ planComplete' = TRUE

\* Each load completion asks for the next list, once, or skips to the completion
\* of one that is not supported.  others are the other managers that read.
GeoFenceLoadComplete(others, sent) ==
  IF "Rally" \in requested
  THEN loading' = others /\ requested' = sent /\ UNCHANGED planComplete
  ELSE /\ requested' = sent \cup {"Rally"}
       /\ IF Supported("Rally")
          THEN /\ loading' = others \cup ({"Rally"} \ (writing \cup removing))
               /\ UNCHANGED planComplete
          ELSE RallyPointLoadComplete(others)

MissionLoadComplete(others) ==
  IF "Fence" \in requested
  THEN loading' = others /\ UNCHANGED <<requested, planComplete>>
  ELSE IF Supported("Fence")
  THEN /\ requested' = requested \cup {"Fence"}
       /\ loading' = others \cup ({"Fence"} \ (writing \cup removing))
       /\ UNCHANGED planComplete
  ELSE GeoFenceLoadComplete(others, requested \cup {"Fence"})

\* A manager that was reading reports newMissionItemsAvailable or loadComplete: to
\* the Vehicle, and to a plan view that may have asked for all the lists.
LoadEnds(manager) ==
  /\ manager \in loading
  /\ \E more \in {{}} \cup (IF "Load" \in Operations THEN {Following(manager)} ELSE {}) :
       LET others == (loading \ {manager}) \cup more
       IN  \/ manager = "Mission" /\ MissionLoadComplete(others)
           \/ manager = "Fence" /\ GeoFenceLoadComplete(others, requested)
           \/ manager = "Rally" /\ RallyPointLoadComplete(others) /\ UNCHANGED requested
  /\ results' = {}
  /\ UNCHANGED <<queueVars, toVehicle, vehicleVars, writing, removing, active>>
-----------------------------------------------------------------------------
(* Capabilities and protocol version *)

\* _setMaxProtoVersion: set once, or lowered
Lowered(version) ==
  IF maxProtoVersion = 0 \/ version < maxProtoVersion THEN version ELSE maxProtoVersion

\* _setMaxProtoVersionFromBothSources, after the handler has set what it has learnt
SetMaxProtoVersion ==
  maxProtoVersion' =
    IF ~(protocolComplete' /\ capabilitiesKnown') THEN maxProtoVersion
    ELSE Lowered(IF protocolMax' /= 0 THEN protocolMax'
                 ELSE IF "Mavlink2" \in capabilityBits' THEN 200 ELSE 100)

LearnCapabilities(bits) ==
  /\ capabilitiesKnown' = TRUE
  /\ capabilityBits' = bits
  /\ UNCHANGED <<parametersReady, capabilitiesRetry, protocolComplete, protocolMax>>
  /\ SetMaxProtoVersion
  /\ StartPlanRequest

\* MUTANT of LearnVersion: what waits for the version is not told
LearnVersionSilently(version) ==
  /\ protocolComplete' = TRUE
  /\ protocolMax' = version
  /\ UNCHANGED <<parametersReady, capabilitiesKnown, capabilityBits, capabilitiesRetry>>
  /\ SetMaxProtoVersion
  /\ UNCHANGED planVars

LearnVersion(version) ==
  /\ protocolComplete' = TRUE
  /\ protocolMax' = version
  /\ UNCHANGED <<parametersReady, capabilitiesKnown, capabilityBits, capabilitiesRetry>>
  /\ SetMaxProtoVersion
  /\ StartPlanRequest

\* A handshake command that nobody answers, or that fails
RequestUnsupported(name) ==
  /\ \/ name = "RequestCapabilities" /\ LearnCapabilities({})
     \/ name = "RequestProtocolVersion" /\ LearnVersion(protocolMax)
     \/ name \notin Handshake /\ UNCHANGED <<vehicleVars, planVars>>
  /\ UNCHANGED <<versionTimers, active>>

ConnectTimesOut ==
  \/ GiveUpCommand /\ RequestUnsupported(Head(mavCommandQueue).command)
  \/ (LeaveCommand \/ RetryCommand) /\ UNCHANGED <<vehicleVars, planVars, active>>

\* An accepted request for the version is followed by the version, or by nothing.
AwaitVersion(name) ==
  /\ IF name = "RequestProtocolVersion" /\ ~protocolComplete
     THEN versionTimers < TimerLimit /\ versionTimers' = versionTimers + 1
     ELSE UNCHANGED versionTimers
  /\ UNCHANGED <<parametersReady, capabilitiesKnown, capabilityBits, capabilitiesRetry,
                 protocolComplete, protocolMax, maxProtoVersion, planVars, active>>

ConnectAck(ack) ==
  /\ HandleCommandAck(ack)
  /\ IF ack.result = "Accepted" THEN AwaitVersion(ack.command)
     ELSE RequestUnsupported(ack.command)

HandleAutopilotVersion ==
  /\ \E bits \in Capabilities : LearnCapabilities(bits)
  /\ results' = {}
  /\ UNCHANGED <<queueVars, toVehicle, versionTimers, active>>

HandleProtocolVersion ==
  /\ \E version \in ProtocolVersion : LearnVersion(version)
  /\ results' = {}
  /\ UNCHANGED <<queueVars, toVehicle, versionTimers, active>>

\* MUTANT of TimerPending: the version times out before it was promised
TimerAlways == TRUE

TimerPending == versionTimers > 0

ProtocolVersionTimeOut ==
  /\ TimerPending
  /\ versionTimers' = versionTimers - 1
  /\ LearnVersion(100)
  /\ results' = {}
  /\ UNCHANGED <<queueVars, toVehicle, active>>

\* MUTANT of CapabilitiesRequested: only the command under way is looked at
CapabilitiesUnderWay ==
  mavCommandQueue /= <<>> /\ Head(mavCommandQueue).command = "RequestCapabilities"

CapabilitiesRequested ==
  \E i \in 1 .. Len(mavCommandQueue) : mavCommandQueue[i].command = "RequestCapabilities"

\* A heartbeat asks for the capabilities again, the first one but starts the
\* watch that ends the asking after ten seconds.
Heartbeat ==
  /\ ~capabilitiesKnown /\ ~CapabilitiesRequested
  /\ \/ /\ capabilitiesRetry = "NotStarted"
        /\ capabilitiesRetry' = "Running"
        /\ results' = {}
        /\ UNCHANGED <<queueVars, toVehicle, planVars, parametersReady, capabilitiesKnown,
                       capabilityBits, protocolComplete, protocolMax, maxProtoVersion>>
     \/ /\ capabilitiesRetry = "Running"
        /\ SendMavCommand(HandshakeRequest("RequestCapabilities"))
        /\ UNCHANGED <<vehicleVars, planVars>>
     \/ /\ capabilitiesRetry = "Expired"
        /\ LearnCapabilities({})
        /\ results' = {}
        /\ UNCHANGED <<queueVars, toVehicle>>
  /\ UNCHANGED <<versionTimers, active>>

TenSecondsPass ==
  /\ capabilitiesRetry = "Running"
  /\ capabilitiesRetry' = "Expired"
  /\ UNCHANGED <<vars, planVars, active, parametersReady, capabilitiesKnown, capabilityBits,
                 protocolComplete, protocolMax, maxProtoVersion, versionTimers>>
-----------------------------------------------------------------------------
(* The other components *)

ParametersReady ==
  /\ ~parametersReady
  /\ parametersReady' = TRUE
  /\ UNCHANGED <<capabilitiesKnown, capabilityBits, capabilitiesRetry, protocolComplete,
                 protocolMax, maxProtoVersion, versionTimers>>
  /\ StartPlanRequest
  /\ results' = {}
  /\ UNCHANGED <<queueVars, toVehicle, active>>

\* Commands of other components, and the version asked for again when a link
\* comes back; room is left for the capabilities.
CallerSends ==
  /\ Len(mavCommandQueue) < QueueLimit - 1
  /\ \E r \in Request : r.command /= "RequestCapabilities" /\ SendMavCommand(r)
  /\ UNCHANGED <<vehicleVars, planVars, active>>

\* A message on a link that runs MAVLink 2 sets the version, whoever it is from.
Mavlink2Message ==
  /\ maxProtoVersion < 200
  /\ maxProtoVersion' = 200
  /\ results' = {}
  /\ UNCHANGED <<queueVars, toVehicle, planVars, active, parametersReady, capabilitiesKnown,
                 capabilityBits, capabilitiesRetry, protocolComplete, protocolMax, versionTimers>>

\* The connection comes back on a link with a high latency.
HighLatencyLinkBack ==
  /\ maxProtoVersion' = Lowered(100)
  /\ results' = {}
  /\ UNCHANGED <<queueVars, toVehicle, planVars, active, parametersReady, capabilitiesKnown,
                 capabilityBits, capabilitiesRetry, protocolComplete, protocolMax, versionTimers>>

\* What users of the active vehicle do.  A load or an upload of the plan waits until
\* nothing is under way, and begins with the mission, which is also written for
\* guided mode and to resume it whatever the other managers do.  A removal waits for
\* nothing: every list that is supported and idle at that moment is removed.
UserTransfers ==
  /\ active
  /\ \/ /\ "Load" \in Operations /\ busy = {}
        /\ Load("Mission")
        /\ UNCHANGED <<writing, removing>>
     \/ /\ "Write" \in Operations /\ "Mission" \notin busy
        /\ writing' = writing \cup {"Mission"}
        /\ UNCHANGED <<loading, removing>>
     \/ /\ "Remove" \in Operations
        /\ removing' = removing \cup
             {manager \in Manager \ busy : manager = "Mission" \/ Supported(manager)}
        /\ UNCHANGED <<loading, writing>>
  /\ results' = {}
  /\ UNCHANGED <<queueVars, toVehicle, vehicleVars, requested, planComplete, active>>

\* sendComplete: an upload of the plan goes on with the next list.
WriteEnds(manager) ==
  /\ manager \in writing
  /\ \E more \in {{}, Following(manager)} : writing' = (writing \ {manager}) \cup more
  /\ results' = {}
  /\ UNCHANGED <<queueVars, toVehicle, vehicleVars, requested, planComplete, loading, removing,
                 active>>

\* removeAllComplete: neither the Vehicle nor a plan view goes on from here.
RemoveEnds(manager) ==
  /\ manager \in removing
  /\ removing' = removing \ {manager}
  /\ results' = {}
  /\ UNCHANGED <<queueVars, toVehicle, vehicleVars, requested, planComplete, loading, writing,
                 active>>

\* MUTANT of ShowPlan: the view waits, though nothing is under way
ShowPlanLater == UNCHANGED planComplete

\* _showPlanFromManagerVehicle: with no transfer under way the initial request is
\* taken for complete.
ShowPlan == planComplete' = (planComplete \/ busy = {})

\* The fly view shows the plan of a vehicle that becomes the active one.
Activate ==
  /\ ~active
  /\ active' = TRUE
  /\ ShowPlan
  /\ results' = {}
  /\ UNCHANGED <<queueVars, toVehicle, vehicleVars, requested, loading, writing, removing>>

Deactivate ==
  /\ active
  /\ active' = FALSE
  /\ results' = {}
  /\ UNCHANGED <<queueVars, toVehicle, vehicleVars, planVars>>
-----------------------------------------------------------------------------
\* A new Vehicle asks for both, the capabilities first; on a high latency link, or
\* one to a PX4Flow, it asks for nothing.  _capabilityBits is not initialised.
ConnectInit ==
  \E quiet \in Quiet :
    /\ mavCommandQueue =
         IF quiet THEN <<>> ELSE <<HandshakeRequest("RequestCapabilities"),
                                   HandshakeRequest("RequestProtocolVersion")>>
    /\ mavCommandRetryCount = IF quiet THEN 0 ELSE 1
    /\ ackTimerRunning = ~quiet
    /\ results = {} /\ toVehicle = <<>>
    /\ parametersReady = FALSE
    /\ capabilitiesKnown = quiet
    /\ capabilityBits \in IF quiet THEN {{}} ELSE Capabilities
    /\ capabilitiesRetry = "NotStarted"
    /\ protocolComplete = FALSE /\ protocolMax = 0
    /\ maxProtoVersion = IF quiet THEN 100 ELSE 0
    /\ versionTimers = 0
    /\ requested = IF quiet THEN Manager ELSE {}
    /\ planComplete = quiet
    /\ loading = {} /\ writing = {} /\ removing = {} /\ active = FALSE

\* Every handler runs to completion; the vehicle answers anything it likes.
ConnectNext ==
  \/ ConnectTimesOut \/ \E ack \in Acknowledgements : ConnectAck(ack)
  \/ HandleAutopilotVersion \/ HandleProtocolVersion \/ ProtocolVersionTimeOut
  \/ Heartbeat \/ TenSecondsPass \/ ParametersReady
  \/ \E manager \in Manager : LoadEnds(manager) \/ WriteEnds(manager) \/ RemoveEnds(manager)
  \/ CallerSends \/ Mavlink2Message \/ HighLatencyLinkBack
  \/ UserTransfers \/ Activate \/ Deactivate

\* Timers that run expire, heartbeats come, the parameter download and every
\* transfer end (PlanManager: TransactionsEnd).  No other answer is assumed.
ConnectFairness ==
  /\ WF_connectVars(ConnectTimesOut)
  /\ WF_connectVars(ProtocolVersionTimeOut)
  /\ WF_connectVars(Heartbeat)
  /\ WF_connectVars(TenSecondsPass)
  /\ WF_connectVars(ParametersReady)
  /\ \A manager \in Manager :
       /\ WF_connectVars(LoadEnds(manager))
       /\ WF_connectVars(WriteEnds(manager))
       /\ WF_connectVars(RemoveEnds(manager))

ConnectSpec == ConnectInit /\ [][ConnectNext]_connectVars /\ ConnectFairness
-----------------------------------------------------------------------------
(* Properties *)

\* Every value has the type the code declares for it.
ConnectTypeOK ==
  /\ TypeOK
  /\ parametersReady \in BOOLEAN /\ capabilitiesKnown \in BOOLEAN
  /\ capabilityBits \subseteq Bits
  /\ capabilitiesRetry \in {"NotStarted", "Running", "Expired"}
  /\ protocolComplete \in BOOLEAN
  /\ protocolMax \in Nat /\ maxProtoVersion \in Nat /\ versionTimers \in Nat
  /\ requested \subseteq Manager /\ planComplete \in BOOLEAN
  /\ loading \subseteq Manager /\ writing \subseteq Manager /\ removing \subseteq Manager
  /\ active \in BOOLEAN

\* Whichever of the three conditions of the plan request is met last, the plan is
\* requested: no handler that learns one of them forgets _startPlanRequest.
NoLostWakeup ==
  parametersReady /\ capabilitiesKnown /\ protocolComplete => "Mission" \in requested

\* Heartbeats come every second and answers may take longer: they never queue a
\* second request for the capabilities.
OneCapabilitiesRequest ==
  Cardinality({i \in 1 .. Len(mavCommandQueue) :
                 mavCommandQueue[i].command = "RequestCapabilities"}) <= 1

\* Unless users load something themselves the three lists are loaded one after the
\* other, and the mission is loaded only once.
LoadsInSequence ==
  /\ Cardinality(loading) <= 1
  /\ "Mission" \in loading => requested = {"Mission"}

\* The Vehicle has asked for a list that is being removed, and nothing is read.
LoadRefused == loading = {} /\ requested \cap removing /= {}

\* Every vehicle's initial plan request completes, whatever it answers or leaves
\* unanswered and whatever users write (GeoFenceController.cc: "we can just wait for
\* loadComplete to be signalled automatically").  One thing alone stops it: a list
\* that is asked for while the user removes it.
InitialPlanCompletes == <>(planComplete \/ LoadRefused)

\* "The PROTOCOL_VERSION message didn't make it through the pipe": the timeout does
\* not take back a version that did.
VersionIsKept ==
  [][(protocolMax \in ProtocolVersion) => protocolMax' = protocolMax]_connectVars
=============================================================================
