# Formal models of QGroundControl's vehicle protocols

This directory holds TLA+ models of the ground station in `src/`, the TLC configurations that
check them on small instances, and theorems about them that TLAPS checks. It covers what lies
between the ground station's views and a vehicle:

* the transfer of plans (missions, geofences, rally points), on which everything the plan view
  shows or flies rests;
* the command queue, through which every component commands the vehicle;
* the sequence of questions and downloads a new connection begins with;
* the download, the reading and the writing of parameters, with its cache on disk;
* how the plans of the two views and of several vehicles are kept the same while vehicles come,
  go and are selected;
* the links over which a vehicle is heard, and which of them is used.

Paths are relative to the repository's inner `src/` directory.

## 1. The system

QGroundControl is a Qt program. Messages arrive on link threads, are parsed by `MAVLinkProtocol`
and are delivered through queued signals to objects that live on the main thread. A handler, a
slot or a timer callback therefore runs to completion, and the hard interleavings are those of
whole handlers: a message that arrives after its timeout, a user operation between two messages
of a protocol, a slot that is called, and calls others, in the middle of a handler.

| component | state | operations | who it interacts with |
|---|---|---|---|
| `MissionManager/PlanManager` | transaction in progress, answer awaited, ack timer, retry count, indices still to read or write, local list, list being written, message connections | loadFromVehicle, writeMissionItems, removeAll; MISSION_COUNT, ITEM, REQUEST, ACK; timeout | the vehicle by messages; listeners by signals |
| `MissionManager/MissionManager` | current item, last item flown, a cached candidate for it | guided item, resume mission; MISSION_CURRENT, HEARTBEAT | is a PlanManager; fly view |
| `GeoFenceManager`, `RallyPointManager` | lists being sent, lists loaded | loadFromVehicle, sendToVehicle, removeAll | own a PlanManager |
| `PlanMasterController` and the three element controllers, once in the fly view and once in the plan view | vehicle they are set up for, what they show, what was requested, which transfers are still to be started | load, send, remove all, edit; completion signals; a new active vehicle | the three managers of the active vehicle |
| `Vehicle/MultiVehicleManager` | vehicles, the active one, the one to be activated, those to be deleted | first heartbeat, selection, loss of a vehicle; two timers of 20 ms | plan controllers, all of QML |
| `Vehicle` connection sequence and initial plan request | capabilities, protocol version and where they come from, the watch of the capability retries, which of three requests were sent, completion | AUTOPILOT_VERSION, PROTOCOL_VERSION, heartbeat, version timer, parametersReady, the three load completions, becoming the active vehicle | command queue, the three managers, ParameterManager, PlanMasterController, MultiVehicleManager |
| `Vehicle` command queue | queue, retry count, ack timer | sendMavCommand; COMMAND_ACK; timeout | every component that commands the vehicle |
| `Vehicle` links, `comm/LinkManager`, `MavlinkMessagesTimer` | open links, when each was heard last, signals under way, priority link and whether it was commanded, high latency flag, connection lost | opening, message, timeout, closing, choice by the user, reboot | each other: closing a link calls the vehicle, a loss closes links |
| `FactSystem/ParameterManager` | waiting lists for reads, writes and indices, batch queue, retry counts, values, cache files, two timers | refresh, write; PARAM_VALUE, _HASH_CHECK; the two timeouts | Vehicle, facts, plugins |
| `uas/FileManager` (FTP) | session, operation, sequence number, missing blocks | list, download, upload; response; timeout | views |
| `AnalyzeView/LogDownloadController` | chunk table, log list, retry count | refresh, download, erase; LOG_ENTRY, LOG_DATA; timeout | views |
| `comm/MockLink`: commands | armed, whether a test command was tried once | COMMAND_LONG | the command queue's vehicle in the unit tests |
| `comm/MockLink`: parameters | values, position of the stream, failure mode | PARAM_REQUEST_LIST, REQUEST_READ, SET; worker | the parameter manager's vehicle in the unit tests |
| `comm/MockLinkMissionItemHandler` | plans stored, sequence of the write under way, failure mode | the vehicle's side of the mission protocol | the unit tests' vehicle |
| camera, terrain, Airmap, radios, joystick, video, UI | mostly I/O, data or presentation | | |

`PROJECT.json` lists every part with its status and the reason a part is left out, and every
hazard with the properties that cover it.

What makes the transfer of plans hard:

* messages are lost, and a retry may get two answers, one of them late;
* MISSION_ACK has no identifier: an ack belongs to whatever is waiting;
* one timer and one `_expectedAck` serve three kinds of transactions, and every path of every
  handler has to leave them consistent;
* `_finishTransaction` is the only way out, and each listener relies on getting exactly one
  completion signal;
* item numbers differ by one between ground and vehicle for firmwares that do not carry the home
  position in the plan, and DO_JUMP items contain such numbers;
* retries are bounded, counted in one place, reset in several.

What makes it correct: a transaction never hangs, never leaves a trace in the next one, reports
once, never shows part of a plan, and what it reports as done is done.

What makes the command queue hard: COMMAND_ACK names a command and not an attempt, one timer and
one count serve all commands in turn, three handlers move the head of the queue, and one of them
leaves a command without its timer. It is correct when commands complete in order, each once,
the one at the head is always under way, and one reported as accepted is in effect.

What makes the connection sequence hard: three conditions become true in any order, each in
several handlers, some of them by giving up; a timer is not cancelled; the chain of loads
listens to signals that user transfers emit too, and its completion may be forced from outside.
It is correct when the plan is requested as soon as it may be, not before, once, and when the
request always completes.

What makes the parameters hard: PARAM_VALUE carries no request identifier, so that the answer to
a read, the confirmation of a write, a value of the first stream and one nobody asked for look
the same; one timer serves reads, writes and the load, and every value stops it; retries are
batched, in a queue that does not tell components apart; the cache is written at the end of
reads of any kind and used when a hash matches that leaves out some of the values. It is correct
when nothing that is waited for is forgotten, a load that is said to be complete is, and screen
and vehicle agree when all is quiet.

What makes plans that are kept the same hard: a slot of one signal starts a transfer that
another slot of the same signal then finds busy; flags of a transfer survive the vehicle they
were set for; a view that switches to a vehicle must know whether the plan will still be
signalled or is there already; and activation and deletion of vehicles happen in two phases with
20 ms in between, in which the other may begin. It is correct when no pointer outlives its
vehicle, both views follow the active vehicle, the fly view shows the vehicle's plan, the plan
view's plan is not lost, and a plan that is sent arrives whole.

What makes the links hard: five handlers choose the priority link with different arguments; a
choice calls the handler of a change, which chooses again; a loop over the links closes them,
which removes them from the list it runs over; a link that lives in its own thread is signalled
late, or after it was freed. It is correct when a closed link is never chosen, the best link
that is heard is used, and the connection is declared lost when, and only when, nothing is
heard.

## 2. The modules

### Plan transfer

`PlanManager.tla` models `PlanManager.cc` with the two writes of `MissionManager.cc`. One action
is one handler run to completion: an operation (`LoadFromVehicle`, `WriteMissionItems`,
`WriteResumeMission`, `WriteGuidedItem`, `RemoveAll`), a message (`Receive`, with one operator
per message), or the expiry of the timer (`AckTimeout`, with one operator per kind of answer
awaited). Variables have the source's names without the underscore; `timerRunning` is
`_ackTimeoutTimer->isActive()`, `connections` the number of Qt connections of the message slot,
`signals` what the last step emitted. Item payloads are abstracted to their command and the one
parameter the transfer changes. The list to write needs no stored sequence numbers, because
callers number their items from 0 and the skip of the home item renumbers. In this module the
vehicle may send *any* message of `VehicleInput` at any time, so what holds here holds whatever
the vehicle and the links do.

`PlanTransaction.tla` is what a manager promises its listeners: one transaction at a time, and
exactly one completion signal, of its kind, in the step that ends it. The ArduPilot guided item
has no such promise. `PlanManager` implements it (`KeepsPromise`, through the mapping at the end
of the module).

`MockLinkMissionItemHandler.tla` models the vehicle that the repository implements for its unit
tests, with all its failure modes; `QMap::operator[]`, which stores a zeroed item when a missing
index is read, is modelled as it behaves.

`MissionProtocol.tla` composes the two over two links that keep the order of messages. What a
behaviour is about is chosen once, by its `regime`: whether the links lose messages (`lossy`),
whether the ack timeout is longer than a round trip (`prompt`), the operations, the lists and
the vehicle's failure modes. The plans a vehicle has at first are numbered from 0
(`StoredAssumption`), as a plan that was written is. `_ackTimeoutMilliseconds` is 1500 and
`_retryTimeoutMilliseconds` 250, and neither bounds what a radio does; so the run has prompt and
slow regimes, and each property says in which it holds. `begunAfresh` is a history variable: it
remembers whether the links were empty when the transaction began.

### Command queue

`MavCommandQueue.tla` models the queue in `Vehicle.cc` (lines 3284-3541): `SendMavCommand`, the
timer in its three outcomes (`GiveUpCommand`, `LeaveCommand`, `RetryCommand`) and the
acknowledgement (`CommandCompleted`, `StrayAck`). `sendMavCommand` and `sendMavCommandInt`
differ in the message they build only. `results` are the `mavCommandResult` signals of the last
step. As above, any acknowledgement may arrive at any time.

`CommandService.tla` is what the queue promises its callers: first in, first out, each command
completed by one result for it, and a result for nothing that was asked completes nothing
(`KeepsPromise`).

`MockLinkCommands.tla` models how `MockLink` answers COMMAND_LONG: arming, and the test commands
that succeed or fail at once, at the second attempt or never. `MavCommandProtocol.tla` composes
it with the queue over two links. Its regimes say which commands are sent, whether the links
lose messages, whether the ack timer outlasts a round trip (`prompt`), and whether the vehicle is
`open`: an open regime has no MockLink, any acknowledgement arrives at any time
(`VehicleAcknowledgesAnything`). Where the timer may fire while the answer is under way, commands
are repeated and acknowledged more than once, and late acknowledgements meet later commands.
`sentAfresh` is a history variable: it remembers whether anything of that kind was under way when
the command at the head was first sent. Calibration, storage and capabilities commands, which
`MockLink` also accepts (`MockLink.cc:909-919`), are not sent and left out.

### Connection sequence

`VehicleConnect.tla` extends `MavCommandQueue` with what the answers to the first two commands
set off: each handler of the queue is taken whole, with the capabilities or the version it makes
known (`RequestUnsupported`, `AwaitVersion`), and with the attempt to start the plan request at
its end. `_startPlanRequest` and the three load completions are `StartPlanRequest`,
`MissionLoadComplete`, `GeoFenceLoadComplete` and `RallyPointLoadComplete`; the skips of
unsupported lists are part of the same step, as in the code. A plan manager is what
`PlanTransaction` promises: a member of `loading`, `writing` or `removing` until it reports, and
deaf to requests meanwhile. Around it are the fly view's `_showPlanFromManagerVehicle`, which
completes the request by force (`ShowPlan`), what users transfer, and the plan file that may be
sent in place of a load. `UserTransfers` waits as the code does and no more: a load or an upload
until nothing is under way (`PlanMasterController.cc:189`, `296`), a write of the mission until
the mission manager is idle, a removal for nothing (`PlanMasterController.cc:500`): it removes
every list whose manager is idle, also in the middle of the initial load. A load or an upload of
all the lists goes on with the next one when one ends (`Following`). Any message on a link that
runs MAVLink 2 raises the version (`Mavlink2Message`), a link of high latency lowers it. The
vehicle may answer anything, so the link's contents are left empty (`LinkCapacity = 0`), and the
bound `Acknowledgements` says which answers to commands are tried.

### Parameters

`ParameterManager.tla` models `ParameterManager.cc` for a connected vehicle on an ordinary link.
One action is one handler: `ParameterUpdate` (`_parameterUpdate` with the batch it asks for, the
cache file it writes and the check whether the load is complete), `HashReceived`, `ValueUpdated`
(a write), `RefreshParameter` (of a name that has a Fact), `RefreshAllParameters`,
`InitialRequestTimeout`, and `WaitingParamTimeout` with its five outcomes (`RequestIndices`,
`AwaitDefaultComponent`, `RetryWrites`, `RetryReads`, `NothingToRetry`). One handler is several
steps: the load from the cache calls `_parameterUpdate` for each cached value (`LoadFromCache`),
and no other step is possible in between. `_fillIndexBatchQueue` is stated as sets: `Asked` is
what it requests, `GivenUp` what it drops, given that it walks the indices in order until its
queue is full and that the queue holds indices without their components. The two `_prev...Count`
members are one flag, `readsWaited`, because only their being zero is looked at. A cache hash is
taken to be injective. `told` is what the user was told of: no response, missing parameters, a
read or a write that failed.

`MockLinkParameters.tla` is `MockLink`'s end with its failure modes. What MockLink lacks is
marked external there: the hash PX4 sends, and a volatile value that changes on the vehicle.
`ParameterProtocol.tla` composes the two over two links. Its regimes say what is lost, whether
timers are slower than links, what vehicles and caches hold, and what users do how often.

### Plans of views and vehicles

`MultiVehicleManager.tla` models `MultiVehicleManager.cc`: `VehicleHeartbeatInfo`,
`SelectVehicle`, `DeleteVehiclePhase1`, and the second phases, which wait in `timers` and fire
in the order they were started, because all have the same length. A signal calls its slots at
once; `calls` holds the slots still to be called and what the handler does after them. Each is a
step, and nothing else happens until `calls` is empty. A `Vehicle` object that was freed may be
used again, as memory is.

`PlanSync.tla` extends it with the plan managers of each vehicle and the controllers of both
views. A manager is what `PlanTransaction` promises; its lists are one value each ("Edited",
"Resumed", "Empty", or the plan a vehicle began with), because nothing here depends on their
items. `TransactionEnds` puts the slots of its signal into `calls` in the order in which they
were connected: the vehicle's chain of initial loads (`VehicleLoaded`), then for each view the
master controller's slot (`MasterLoaded`, `MasterSent`) before the element controller's
(`Loaded`, `SentOrRemoved`). `ActiveVehicleChanged` is the switch of a view to another vehicle;
the offline vehicle of a controller is `NoVehicle`. A regime names the vehicles, what they
support, whether transfers fail, what users do, and three restrictions that separate questions:
`ready` (of which vehicles the initial request starts), `calm` (vehicles are selected and lost
only while nothing is transferred) and `steady` (nothing begins while a phase two is pending).

### Links

`VehicleLinks.tla` models the links of one vehicle across `Vehicle.cc`, `LinkManager.cc`,
`LinkInterface.cc` and `MavlinkMessagesTimer.cc`. As above, `calls` holds what the handler under
way has still to call, here a stack that several levels deep calls build: a message starts the
link's timer, whose signal calls `LinkActiveChanged`, which calls `UpdatePriorityLink`, which
may call `LinkActiveChanged` of the new link, which may declare the connection lost
(`CheckLoss`), which closes links (`DisconnectEach`, `DisconnectLink`), each of which calls
`LinkDeleted` once for each connection ever made. Signals of links that live in a thread of
their own (`Threaded`) wait in `pending`, and those not yet emitted are lost with the thread. A
link that is neither open nor the priority link is freed, and its object may be used again.

Left out there: more than one message in a buffer, a second `Vehicle` object for the same
vehicle created while the first waits for its deletion, `processEvents` in
`Vehicle::prepareDelete`, and `highLatencyChanged` (a link's kind is constant). Other vehicles
appear only as `Shared` links.

### Proofs, instances, mutants

`PlanManagerProofs.tla`, `MissionProtocolProofs.tla`, `MavCommandQueueProofs.tla`,
`MavCommandProtocolProofs.tla`, `VehicleConnectProofs.tla`, `ParameterManagerProofs.tla`,
`PlanSyncProofs.tla` and `VehicleLinksProofs.tla` hold the theorems. `MC*.tla` and `MC*.cfg` are
the instances for TLC; where theorems ask something of the regimes, their modules assume it, so
that TLC finds it true of the instance. Operators whose comment begins with MUTANT are what a
plausible mistake would make of the operator after them; nothing uses them, they show that a
property can fail.

## 3. What the runs check

| run | configuration | question | result | states |
|---|---|---|---|---|
| plan_manager | `MCPlanManager.cfg` | Against any vehicle: can a manager hang, leave something behind, show part of a plan, report twice or not at all? | no | 21,775 |
| mission_protocol | `MCMissionProtocol.cfg` | With the repository's vehicle: is what is reported as done done, does each failure mode end as the unit test expects, does every transaction end? | yes | 175,597 |
| mav_commands | `MCMavCommandProtocol.cfg` | Is the head of the queue always under way, are commands completed in order and once, is an accepted one in effect, does the queue keep moving? | yes | 187,961 |
| stalled_queue | `MCStalledQueue.cfg` | Does the queue keep moving on other firmwares than PX4? | not past an unanswered pairing command | |
| vehicle_connect | `MCVehicleConnect.cfg` | Is the plan requested whichever condition is met last? Do heartbeats flood the queue? | yes; no | 424,576 |
| initial_plan | `MCInitialPlan.cfg` | Are the lists loaded in sequence, and does the initial request of every vehicle complete, also when users write or remove plans meanwhile? | yes, because it may be forced; unless a list is asked for while it is removed | 334,096 |
| version_timeout | `MCVersionTimeout.cfg` | Does the version timeout respect a version that arrived? | no | |
| parameters | `MCParameterProtocol.cfg` | Is every parameter accounted for, a complete load complete, and do screen and vehicle agree at rest? | yes | 75,121 |
| plan_sync | `MCPlanSync.cfg` | Do pointers outlive vehicles? Do views follow the active one, show its plan, and send theirs whole? | no; yes | 186,586 |
| overwritten_plan | `MCOverwrittenPlan.cfg` | Is an edited plan left alone when another vehicle connects? | not after a load from a vehicle that was lost | |
| vehicle_links | `MCVehicleLinks.cfg` | Is a closed link ever used, is the best one used, is a loss real? | no; yes; yes | 1,094,530 |
| comm_loss | `MCCommLoss.cfg` | Is a loss of connection always shown? | not when the second of two links goes quiet | |

**plan_manager.** `NoStuckTransaction` (a transaction in progress has a timer running, waits for
an answer of its own kind, and has something left to ask for), `IdleIsQuiescent` (nothing is
left of a transaction that ended), `NoPartialList` (outside a read the local list has no gap and
no repeated item), `OneConnectionPerTransfer` (the retries of a removal connect the slot again
each time; no transfer runs with more than one connection), and `KeepsPromise`, the refinement.
Deadlock is checked.

Bounds: lists of up to two items, of two kinds; two mission types, so that messages for another
manager are among the inputs; sequence numbers up to 2, one past the end; one retry in place of
five (the code only compares, and the theorems hold for every value); one message on the link,
which the properties of this run do not look at. The list variables take every value that the
handlers tell apart: empty, one item, several, with and without a jump.

**mission_protocol** has four regimes. In the lossy one the vehicle is prompt and has any
failure mode that keeps its plan without a gap; in the test regime the links lose nothing and
every failure mode of `MissionManagerTest.cc` is there; in the two slow ones a timer may fire while
answers are under way, and plans are read, or written and removed. `ReadReturnsVehiclePlan` and
`WriteReachesVehicle` (both prompt) and `RemoveAllReachesVehicle` compare the ground's report with
the vehicle's memory in the step that reports. The last holds for slow answers too: a removal
that is repeated before its acknowledgement arrives is acknowledged several times, and it is
wrong only if a message of an earlier transaction was still on the links when it began. That is
the most that holds of the code (`PlanManager.cc:655`, below): with that condition left out TLC
finds a removal reported that did not happen. `ReadReturnsEveryItem` holds for slow
answers too, which may change the order of items but not their set, if nobody changes the plan.
`FailureModesFail` and `RetriesRecover`
restate the tables of `MissionManagerTest.cc` (write modes from line 187, read modes from line
230): a vehicle that fails a transfer is never taken for one that completed it, and a vehicle
that leaves only the first request unanswered makes nothing fail. `TransactionsEnd` is liveness.

The ground's home item is not sent (`SendHome = FALSE`), so that numbers are shifted. Lists have
up to three items (two on the vehicle), enough for a first, a middle and a last one with the
home position in front; in the test regime up to five, because the mode that acknowledges after
three items needs a fourth. Two modes make the vehicle store a plan with a gap that its own
MISSION_COUNT cannot describe; the lossy regime leaves them out and the test regime has them.

**mav_commands.** In the open regime any acknowledgement of arming, a test command or pairing
arrives at any time: `HeadIsUnderWay` relates queue, timer and retry count (a waiting command
has a running timer, or is the one the code sends only once; no timer outlives its command),
`RetriesBounded` is the off-by-one of a comparison with a post-increment, and `KeepsPromise` the
refinement. In the others MockLink answers, over links that lose messages or do not.
`AcceptedIsInEffect` compares a result with what the vehicle did. In the prompt regimes a retry
is sent only after the answer to the attempt before is known to be lost; in the slow one the
timer fires at any time, and retries and acknowledgements of several attempts, and of arming and
disarming in turn, are under way together. There it is stated of commands that were first sent
when nothing of their kind was under way, which is the most that holds of the code
(`Vehicle.cc:3512`, below): without that condition TLC finds an "armed" that is a late answer to
an earlier command. `TestOutcomes` restates the table of `SendMavCommandTest.cc` for links that
lose nothing and are prompt. One retry in place of three is enough for the commands that are
answered at the second attempt; three commands wait at once, so that each test command also runs
behind others; a link holds two messages.

**vehicle_connect.** `NoLostWakeup`: the plan has been requested in every state in which the
three conditions hold. `OneCapabilitiesRequest`: heartbeats, which come faster than retries,
queue no second request for the capabilities. The vehicle supports rally points and no geofence,
so that one list is skipped and one loaded, and reports version 200; unanswered or failed
requests add "no capabilities" and "unknown version". The queue holds the two requests and one
more, with one retry; one version timer is pending at a time. `WithoutResults` leaves the
signals of the last step out of the state, on which nothing in the run depends.

**initial_plan** is the liveness run, without that view and with a vehicle that supports
everything if it says so at all; there are no retries, which change none of the variables of the
sequence, and a request that fails has the effect of one that is given up, so only acceptances
are tried. `InitialPlanCompletes` holds only through `ShowPlan`: a write that users start before
the plan request makes the first load refused, and without the force nothing would complete
(that is its mutant). It has one exception, which the property names (`LoadRefused`): a removal
waits for nothing, so a list may be asked for while it is being removed; it is then refused,
nothing signals the end of a load, and the request stays incomplete. Users write and remove at
any moment, also in the middle of the initial load. Users can write to the active vehicle only,
and a vehicle that becomes active with nothing under way is forced. `LoadsInSequence` does not
hold when users load early (below), which is why this run has writes and removals only.

**parameters** has nine regimes: the failure modes of `ParameterManagerTest.cc`; lossy links
with one component, with two, and with a hash and a cache; timers that fire while answers are
under way; and, over sound links, sequences of writes and refreshes, refreshes of everything,
caches with volatile values that change, and two components. `PendingIsTimed` (what waits is
timed), `EveryIndexIsAccounted` (the value of each index is there, waited for or given up) and
`ReadyIsWhole` hold in all of them. When nothing is under way, whatever still waits or was given
up, `ScreenShowsVehicle` and `WritesArrive` compare screen, vehicle and what the user wrote last,
where no message was lost;
`FailureModesEnd` is the table of the unit test; `LoadHasOutcome` says that a load ends complete
or is reported. `RetriesEnd` is liveness: the ground station comes to rest whatever is lost.

Bounds: two components with the same two indices; one component with up to three parameters, one
of them volatile; two values; one retry of each kind in place of four or five, and batches of
two in place of eleven, so that a batch ends in the middle of a component; links hold 13
messages, more than are ever under way. Caches are absent, up to date, up to date but for the
volatile parameter, or out of date. A cache without one of the volatile parameters is left out:
the hash cannot tell, and the load is then complete without that parameter. One to three
operations of users.

**plan_sync** has five regimes: transfers of one vehicle with everything supported; the same
with removals and a mission that is resumed; transfers that fail; three vehicles that come, go
and are selected at any moment, also between the two phases of another change; two vehicles that
are selected and lost between transfers. `NoDanglingVehicle` and `ViewsFollowActive` are about
the fourth above all, `FlyShowsPlan` (at rest the fly view has the active vehicle's plan) about
the others. `SentPlanArrives` is liveness: whatever was in the plan view when it was sent
reaches the vehicle, unless a transfer fails, something else is done to the vehicle's plan or it
is lost. Three vehicles are the least with which one is selected while another is deleted and a
third takes over; three or four operations let a transfer meet an edit, a removal and another
transfer. The system may stop, once users have nothing left to do; deadlock is not checked.

**vehicle_links**: a USB link, a radio that lives in its own thread and is shared with other
vehicles, and a satellite link of high latency, of which a vehicle is given up to four in its
life and a thread has up to two signals under way. `NoClosedLink` holds at every call of every
handler. `PriorityIsBest`, `HighLatencyIsStopped` and `LossIsReal` are stated for a vehicle
whose user chose no link, when the signals have arrived. Three links are one of each kind of the
choice; four connections let a link return after it was closed, with its slot connected twice;
two signals let a loss and a return be under way together.

**Fairness.** `TransactionsEnd` assumes that a link delivers or loses the message at its head
and that a timer that keeps running fires (a `QTimer` on a running event loop does). Nothing is
assumed of callers, and no message is assumed to arrive. In particular a timer restarted by an
answer is not a timer that keeps running, and the property needs the retries to be counted: its
mutant does not count them. `QueueAdvances` assumes the same of the links and the command timer,
and `RetriesEnd` of the links and both parameter timers, besides that the vehicle sends on what
it has begun to send and that a load from the cache goes on. `InitialPlanCompletes` assumes that
running timers fire, that heartbeats come (they are what a connected vehicle is), that the
parameter download ends (it has its own retries and failure path, `RetriesEnd`) and that
transfers end (`TransactionsEnd`). It does not assume that the vehicle answers either request.
`SentPlanArrives` assumes that slots are called, timers fire and transfers end. `VehicleLinks`
states no fairness; its properties are safety.

### The disagreements

1. `Vehicle.cc:3364` (stalled_queue): when START_RX_PAIR is not answered by a firmware other
   than PX4 the handler returns without its timer and with the command still at the head. Only
   an acknowledgement of that command, which nothing asks for again, moves the queue.
2. `Vehicle.cc:3443` (version_timeout): the version timer is not cancelled, so that a version
   that arrived after the acknowledgement is replaced by 100. `_setMaxProtoVersion` then lowers
   the vehicle's version, and with it the support of fence and rally points.
3. `MissionController.cc:225` (overwritten_plan): what a load was asked for is remembered when
   its vehicle is lost. The initial load of the next vehicle is taken for it and replaces what
   the user edited since.
4. `Vehicle.cc:2118` (comm_loss): when the priority link goes quiet and no other is heard, the
   first link is taken, although it went quiet before. The check for a loss then sees a priority
   link other than the one that was lost and declares nothing; both timers have expired, so
   nothing follows.

The models have these behaviours too; they are named here and no run is spent on them.

Plan transfer and connection sequence:

* `PlanManager.cc:655`: the late final ack of a write that was given up completes the removal
  that follows it. If MISSION_CLEAR_ALL is then lost, the ground reports a removal that never
  happens. This is what `begunAfresh` excludes from `RemoveAllReachesVehicle`.
* `PlanManager.cc:857`: the list that was written is copied into the local list with the jump
  targets as sent, one less than what a read returns.
* `PlanManager.cc:202`: the branch for "nothing left to write" comes before the one for "item 0
  is still to be written". For an empty list both mean "no answer yet", so its MISSION_COUNT is
  not sent again, against the comment at line 207.
* `PlanManager.cc:449`: an item is accepted if its number is still to be read, even when another
  one was requested. With a late answer a read succeeds with its items out of order.
* `Vehicle.cc:3512`: an acknowledgement is matched by command. The late one of a first attempt
  completes the next command of the same kind, say "disarm" after "arm", while that one may be
  lost, and is then not retried. This is what `sentAfresh` excludes from `AcceptedIsInEffect`.
* `Vehicle.cc:3347`: a second request for the capabilities that fails sets those that are known
  back to none.
* `Vehicle.cc:2681`: any end of a mission load counts as the end of the initial one. If a user
  downloads before the capabilities are known, fence and rally points are skipped for good.
* `PlanMasterController.cc:572`: the request is forced complete when the vehicle becomes active,
  20 ms after it was found, though the comment at line 573 speaks of a load that went wrong. The
  initial load then runs after the views were told that it is over.

Parameters:

* `ParameterManager.cc:1241`: a load is complete when nothing is waited for, and only indices
  that were given up count as missing. The parameters of a component none of whose values came,
  and those a cache lacks that matches the hash, are missing with nothing said, against "false:
  all parameters received from firmware" (`ParameterManager.h:40`).
* `ParameterManager.cc:304`: a value that was sent before a write clears the write that waits.
  If the write is then lost it is neither retried nor reported.
* `ParameterManager.cc:215` and `757`: a value of another component or a hash stops the timer of
  the list request. If the rest of the answer is lost, the load ends neither complete nor with a
  message.
* `ParameterManager.cc:504`: a refresh of everything after the load starts neither timer; what
  it asked for is retried only when some value arrives.

Plans of views and vehicles:

* `MissionController.cc:2245`: a vehicle that is selected between the loads of its mission and
  its fence is taken to be about to signal its mission, which it has already done: the fly view
  shows an empty mission, against the comment at line 2246.
* `PlanMasterController.cc:577`: a mission manager that is busy when a view switches ends the
  chain, and fence and rally points that were loaded before are not shown.
* `PlanMasterController.cc:249`: the slots of the upload do not look at the error flag: fence
  and rally points are sent after a mission that failed. Their flags survive the loss of the
  vehicle, so that the end of any later write sends them.
* `FlightDisplayView.qml:215`: a removal from the fly view, which does not wait, makes the
  initial load of the fence refused, and the chain stops. This is the exception of
  `InitialPlanCompletes`.
* `MultiVehicleManager.cc:263`: selecting the vehicle that is still active, within the 20 ms in
  which another one is to be activated, is ignored, and the other becomes active.
* `MultiVehicleManager.cc:232`: the second phase of a deletion signals that an active vehicle is
  available and does not set `_activeVehicleAvailable`.
* `GeoFenceManager.cc:147`: a load clears polygons and circles and keeps the breach return point
  of the load before; `sendToVehicle` (line 50) overwrites the lists to send even when the
  manager is busy and refuses.

Links:

* `Vehicle.cc:2748`: the loop that is to "disconnect all links" counts upwards through a list
  that loses an element with each link it closes, and so does the loop of a reboot: every second
  link stays.
* `Vehicle.cc:2871`: after a loss, an auxiliary link that is heard again becomes the priority
  link without the connection being found again. A later message over it changes nothing, since
  it is active already.
* `Vehicle.cc:2870`: a signal of a threaded link arrives after the link was freed; and the
  signal of a commanded link that was closed meanwhile may declare a loss while another link is
  heard. A commanded link that is closed stays the priority link, when its last signal was lost
  with its thread.
* `Vehicle.cc:2850`: when the priority link is lost the switch to a link of high latency sends
  no CONTROL_HIGH_LATENCY, so that the vehicle is not asked to transmit there.

## 4. What is proved

**PlanManager**, for every plan type, set of types, firmware flags, retry bound, link capacity,
set of lists to write and set of vehicle messages that satisfy the assumptions of
`PlanManager.tla` (`PlanTypeAssumption`, `FirmwareAssumption`, `RetryAssumption`,
`LinkAssumption`, `InputAssumption`: only that the constants have their types):

| theorem | statement |
|---|---|
| `TypeCorrect` | `Spec => []TypeOK` |
| `Invariance` | `Spec => []IInv` |
| `NeverStuck` | `Spec => []NoStuckTransaction` |
| `QuiescentWhenIdle` | `Spec => []IdleIsQuiescent` |
| `OneConnection` | `Spec => []OneConnectionPerTransfer` |
| `BoundedRetries` | `Spec => []RetriesBounded` |
| `AlwaysWhole` | `Spec => []NoPartialList` |
| `Implementation` | `Spec => KeepsPromise` |

`PlanManagerProofs.tla` begins with `TypeCorrect`: one lemma for the messages, one for the
operations, one for the timeouts.

None of the safety invariants is inductive alone.
`NoStuckTransaction`, `IdleIsQuiescent` and `OneConnectionPerTransfer` need each other: a
handler is called only when the manager is connected, an idle manager is not connected, so a
handler finds a transaction in progress and the answer it awaits tells which (`WhatIsAwaited`).
Two facts have to be added:

* `NothingElseToWrite`: the list to write is empty unless a list is being written. A transaction
  that is not a write does not clear it, so without this fact the end of one could leave it
  filled.
* `ReadProgress`: what has been read and what is still to be read are disjoint, have no
  repetition, and together leave no gap. When nothing is left to be read, what was read is
  whole, whatever the order of arrival: this is `NoPartialList`.

For `Implementation` each action is shown to be a step of `PlanTransaction` or a stutter. It
uses the invariant: a completion signal is the right one only because a handler runs while the
transaction it completes is in progress.

**MissionProtocol**, for plans of any length, and every set of stored plans, lists to write,
regimes, failure modes, link capacity and retry bound (the assumptions of `PlanManager.tla`,
`RegimeAssumption`, `StoredAssumption`):

| theorem | hypotheses | statement |
|---|---|---|
| `ExchangeInvariance` | | `ProtocolSpec => []ProtocolInv` |
| `WritesArriveWhole` | | `ProtocolSpec => WriteReachesVehicle` |
| `RemovalsArrive` | | `ProtocolSpec => RemoveAllReachesVehicle` |
| `ReadsReturnThePlan` | no phantom home | `ProtocolSpec => ReadReturnsVehiclePlan` |
| `ReadsReturnEveryItem` | no phantom home | `ProtocolSpec => ReadReturnsEveryItem` |
| `FailuresAreReported` | | `ProtocolSpec => FailureModesFail` |
| `RetriesAreEnough` | `LosslessIsPrompt`, `LinkCapacity >= 2` | `ProtocolSpec => RetriesRecover` |

But for the last, no theorem restricts the regimes: callers read, write and remove what they
like, prompt or not, and the properties say what is promised in which. `PlanManager` compares an
answer with what it asked for by its kind and number only, so an answer that comes late may be
taken for that of a later transaction. Of a write nothing is then promised, of a removal what
`begunAfresh` leaves. "No phantom home" is `SendHomePositionOnEmptyList = FALSE`: an ArduPilot
vehicle without a plan counts and sends a home position that it does not store, and a read of it
returns an item that is not in the plan. `LosslessIsPrompt`: on links that lose nothing the ack
timer outlasts a round trip; with late answers a transfer may fail for that alone. The run
satisfies all hypotheses.

The properties relate what the ground station reports to the vehicle's memory, so the invariant
has to say what each message under way means. With a prompt vehicle there is one at most
(`Exchange`): a request, or an answer to it, of the transaction in progress; only the
acknowledgements that end reads may be under way before it. `RequestOK` and `AnswerOK` say what
is true when it is: a vehicle that is sent an item holds the others that were sent (`HoldsSent`)
and expects the number of this one (`FilledTo`), its success means that it holds them all; an
item that arrives is the one of the vehicle's plan with that number, and those read before it
are the first ones (`ReadInOrder`), or the vehicle sends a wrong one and the read cannot end
(`ReadCannotEnd`). A retry keeps this because it is sent only when the link has lost the request
or its answer, and because it does no harm: the list is counted or the item read again, the
vehicle is told the length of a list whose first item it has not asked for, or it removes what
it has removed. A write that has sent its first item is not retried. What fails on purpose is
kept apart: two failure modes leave a plan with a gap, and of those `Sound` leaves out what is
not true.

When answers are late there is no such thing as the answer to a request. What holds then, as
long as nothing is written, is that every message is true whichever read it belongs to: a count
is the length of the plan, an item is the vehicle's with its number (`TrueReads`). A read that
ends has struck every number off its list once, so it has every item once, in the order of their
arrival. A vehicle that answers for another item than it was asked for never lets that one be
struck off, and such a read does not succeed (`NeverRead`). `LateInv` is the disjunction of the
two.

A removal needs less than the exchange. `OnlyRemovals` says that one that began with empty links is
alone on them: every request under way is its own or a repetition of it, every answer is an
acknowledgement of one of them, and if there is an answer the vehicle has no items, whatever the
timer repeats and however late the answers are; nothing that could store an item is under way.
`RemovalInv` adds this to the invariant.

The tables of `MissionManagerTest.cc` need two more invariants. A mode that fails a transfer
withholds the same message at every attempt: the count, an item, the request of an item. Such a
message is not under way and was never received (`NeverOffered`), whatever is lost, repeated or
late, so its number is never struck off and no list that has it ends with success; a list that
is too short for the mode may. The modes that withhold the final acknowledgement do so only
after the last item, and here an answer must be prompt: the list is not accepted because no
success is under way while it is written (`NeverAccepted`), which a late one of an earlier
removal would be. The conjunction is `FailingInv`. In the other direction, `RecoverInv` says
that with a mode that fails once, on links that lose nothing, something that leads to success is
always under way: a request that the vehicle will answer, or an answer that is no failure
(`GoodRequest`, `GoodAnswer`); or else the request was left unanswered for the first time
and the vehicle has used up its refusal (`WillRecover`), so one retry is enough. A link
must hold two messages for this, since the acknowledgement that ends a read may be under way
when the next request is sent; the links of the program have no such bound.

**MavCommandQueue**, for every set of commands and parameters, firmware, retry bound, queue and
link capacity (`RetryAssumption`, `LimitAssumption`, `FirmwareAssumption`: the types of the
constants):

| theorem | statement |
|---|---|
| `TypeCorrect` | `Spec => []TypeOK` |
| `WaitingIsUnderWay` | `Spec => []HeadIsUnderWay` |
| `BoundedRetries` | `Spec => []RetriesBounded` |
| `Implementation` | `Spec => KeepsPromise` |

The conjunction of the three invariants is inductive (`Invariance`): the count of a waiting
command is at least 1 because it has been sent, and at most one more than the bound because the
timer, which alone counts, compares first.

**MavCommandProtocol**, the same with the repository's vehicle over links, for every set of
regimes (`RegimeAssumption` besides):

| theorem | statement |
|---|---|
| `ProtocolInvariance` | `ProtocolSpec => []ProtocolInv` |
| `AcceptedIsReal` | `ProtocolSpec => AcceptedIsInEffect` |
| `TestsEndAsExpected` | `MaxRetryCount >= 1 /\ LinkCapacity >= 1` implies `ProtocolSpec => TestOutcomes` |
| `ProtocolServesCommands` | `ProtocolSpec => KeepsPromise` |

The queue takes an acknowledgement for the command at its head without asking which attempt it
answers, and the vehicle may have been told something else since. With a prompt timer this does
no harm because of `OneMessage`: nothing is under way, or the command at the head of the queue,
or the answer to it, and then what the answer says is so (`TakesEffect`). It is inductive
because the next command is sent when an answer was taken or the timer gave up, and the timer
expires only when nothing is under way. With late answers messages pile up. `AfreshOK` then says
of an arming or disarming command that was first sent with none of its kind under way that every
request of its kind on the links is a repetition of it, and that if an acknowledgement of its
kind is on the way back the vehicle is as it asks. The theorem therefore has no hypothesis on
the regimes. `TestOutcomes` needs in addition that on links that lose nothing a command is under
way for the first time, or for the second after the vehicle ignored the first (`AttemptsOK`).
For that there must be a retry (the code has three) and a link must hold a message: without
these the commands that are answered at the second attempt fail.

**ParameterManager**, for every finite set of components, finite set of names, set of values,
firmware, bounds on retries and batches, caches of earlier runs and messages of the vehicle (the
assumptions of `ParameterManager.tla` are the types of the constants):

| theorem | statement |
|---|---|
| `Invariance` | `Spec => [](ParameterTypeOK /\ PendingIsTimed)` |
| `TypeCorrect` | `Spec => []ParameterTypeOK` |
| `PendingTimed` | `Spec => []PendingIsTimed` |

`ParameterTypeOK` says more than types: what waits belongs to components that were seen, and a
read or a write to a parameter that has a value. `PendingIsTimed` is then inductive, and the
hard case is the timeout that leaves its timer off. It has asked for no index, and
`AskedOrGivenUp` shows that it has then given all of them up: among the indices that may still
be retried one comes first in the order of the map (`First`, by the well-foundedness of the
naturals), nothing of the limited queue stands before it, and so it would have been asked for,
also when its index is another component's. Nothing is left to wait for, and the check at the
end of the handler completes the load (`NothingIsForgotten`). `OrderedLists` shows that a finite
set of keys is listed in the order of the map, which the load from a cache needs.

**ParameterProtocol**, the same with the repository's vehicle over links that may lose anything,
for every set of regimes: any number of components, any parameters and failure modes of the
vehicle, any operations of the users, in any order (`RegimeAssumption`: their types):

| theorem | statement |
|---|---|
| `ProtocolInvariance` | `ProtocolSpec => []GuardedInv` |
| `IndicesAreAccounted` | `CachesKnowVolatile` implies `ProtocolSpec => []EveryIndexIsAccounted` |
| `LoadsAreWhole` | `CachesKnowVolatile` implies `ProtocolSpec => []ReadyIsWhole` |
| `LoadsHaveOutcome` | `GenericFirmware = FALSE` implies `ProtocolSpec => []LoadHasOutcome` |
| `ReplacedAndWritten` | `CachesKnowVolatile` implies `ProtocolSpec /\ []LinksHaveRoom => []LosslessInv` |
| `VehicleIsShown` | `CachesKnowVolatile` implies `ProtocolSpec /\ []LinksHaveRoom => []ScreenShowsVehicle` |
| `LastWriteArrives` | `CachesKnowVolatile` implies `ProtocolSpec /\ []LinksHaveRoom => []WritesArrive` |
| `FailureModesAreTold` | `CachesKnowVolatile`, `GenericFirmware = FALSE`, `MaxLoadRetry >= 1` and `InTimeIsTested` imply `ProtocolSpec /\ []LinksHaveRoom => []FailureModesEnd` |

A value may be old when it arrives: it was sent before a write, or before the retry that asked
for it again. The invariant says what cannot be old. Every value under way or taken from a cache
has a name of the vehicle, and its count and its index are the vehicle's (`TrueValues`); a hash
under way is about the vehicle's names but for the volatile ones (`TrueHashes`); a request asks
for nothing the vehicle does not have (`Requests`), which a read by index from a timeout would
otherwise do. The indices number the names of a component from 0 on, one to one
(`NamesAreNumbered`), so a value that arrives takes exactly its own index out of what waits, and
`FillLosesNothing` shows that the batch queue moves indices from waiting to given up and drops
none. A component that was seen has therefore every index there, waited for or given up. A load
is complete when nothing waits; if no parameter is said to be missing, nothing was given up
either, and every name has a value (`CompleteIsWhole`).

The cache is where this may fail. `HashReceived` takes the values of the cache if their hash is
the vehicle's, and the hash leaves the volatile parameters out. A cache without one of them has
a smaller count and other indices, and the first of its values makes the ground station expect
too few (`MatchingCache` shows that nothing else can go wrong). Hence `CachesKnowVolatile`: where
the vehicle sends a hash, the caches of earlier runs have the volatile parameters that the
vehicle has. `ParameterManager.cc` does not check this; it holds when the cache was written for
the same firmware. `GuardedInv` is the invariant for the regimes where it holds. A cache file
that is written later comes from values that arrived, and may lack one that was given up; but
none is written for the default component before the load is complete, which is why the
invariant asks this of caches only while they may still be loaded (`CacheKnows`).

`LoadsHaveOutcome` needs no such hypothesis, as its property is about vehicles that send no
hash. `AskedOrTold` says that the list is asked for, with a timer, until a value arrives or the
user is told that there was no answer; from then on the load is timed (`PendingIsTimed`), and at
rest it is complete. Firmware that is not known is not expected to have parameters, and its
user is told nothing.

The next three are about the values themselves, where no message is lost. `LinkCapacity` is a
bound of the model and a full link loses what is sent, so they are about behaviours in which the
links have room (`LinksHaveRoom`, an invariant of the run). Both questions are about orders. An
old value arrives after a newer one was written, because it was read or streamed before the
write: it is then shown, and clears the write that waits, which will not be repeated. The
invariant (`SoundInv`) says why no harm is done. A value that differs from the vehicle's,
wherever it is (under way, in the cache being loaded or on the screen), is followed by another
value of that parameter, and the last of them is the vehicle's; only the value on the screen may
instead be the one that a write under way will put into effect (`OldIsReplaced`). A vehicle
answers each write with the new value, which is behind all older ones. Of the writes under way
the last carries what the user wrote last (`LastWriteCounts`). The retry is the hard case: it
sends what the screen has, which an old value may have overwritten. It is sent only for what
waits, and what waits was not overwritten: the old value would have cleared it
(`WaitsToBeWritten`).

`FailureModesAreTold` is the table of the unit test, for any number of parameters, retries and
operations of users. Where nothing is lost and the timers outlast the links (`InTime`), a timer
fires only when nothing is under way. So it is enough that what is asked for is under way, or
its answer is, until it is there (`EndInv`): then a timeout finds nothing to repeat, but for the
indices that were not asked for yet. A request for the list, and then the default component's
first value, is on its way (`ListIsAnswered`); a read or a write that waits is, or a value of
its parameter (`NamesAreAnswered`). Indices are different, as the first answer may lack one. For
one component each index in the batch queue is under way, and one that was asked for before is
in the queue (`BatchIsAnswered`). The queue is empty when a timer fires, so that no index waits
which was asked for twice; one retry is enough (`MaxLoadRetry >= 1`), and none is given up. For
several components this is false, as their equal indices hide each other in the queue; but the
failure modes keep nothing back from them, and the answer to the list has everything that waits,
with no request for an index at all (`StreamIsEnough`). Both hold until the load is ready and not
longer: a default component of one parameter is loaded by its first value, whose handler
still finds it not loaded and starts the timer of the load, and that timer repeats what waits
although the load is over. What the user is told is right all the same, because a load is
completed once. The other two rows of the table are simpler: a parameter that is never sent is
nowhere to be found (`NeverLoaded`), so that a load which is complete, as at rest it is, has given
up its index and says so; and a vehicle that does not answer leaves nothing but requests for the
list (`NeverAnswered`). `InTimeIsTested` says that the vehicles are those the failure modes are
for: one component, and no hash where it would take the place of what is kept back; a vehicle
without hash or failure mode may have several components.

**VehicleConnect**, for every set of commands with the two of the handshake, every capabilities
and versions a vehicle may report, and what users may do (`HandshakeAssumption`,
`VehicleAssumption`, `ChoiceAssumption`, and those of the command queue):

| theorem | statement |
|---|---|
| `ConnectInvariance` | `ConnectSpec => []ConnectInv` |
| `ConnectTypeCorrect` | `ConnectSpec => []ConnectTypeOK` |
| `PlanIsRequested` | `ConnectSpec => []NoLostWakeup` |
| `CapabilitiesAskedOnce` | `ConnectSpec => []OneCapabilitiesRequest` |
| `InitialLoadsInSequence` | `"Load" \notin Operations` implies `ConnectSpec => []LoadsInSequence` |
| `ConnectServesCommands` | `ConnectSpec => [][Promise!Next]_(Promise!vars)` |

The handlers of the connection are handlers of the queue with something added, and the proofs
are built the same way: a step that changes the queue keeps the invariant of
`MavCommandQueueProofs`, by that module's lemmas, and keeps the promise of `CommandService`;
what is added is what it sets off here. `NoLostWakeup` is kept by every handler that learns one
of the three conditions, because each ends in `_startPlanRequest` (`StartPlanRequestWakes`).
`OneCapabilitiesRequest` is a count; the inductive form is that two places of the queue which
hold the request are the same one (`AsksOnce`), kept because a heartbeat asks only when none is
queued, no other component asks, and retries leave the queue alone. For
`LoadsInSequence` the invariant is `InOrder`: a list that is being loaded is the last that was
requested. A load of the user's breaks it, as section 3 says, so the theorem has the hypothesis
that users load nothing themselves (they may write and remove).

**MultiVehicleManager and PlanSync**, for every set of vehicles and set of regimes
(`VehicleAssumption`, `ViewAssumption`, `RegimeAssumption`):

| theorem | statement |
|---|---|
| `SyncInvariance` | `SyncSpec => []SyncInv` |
| `VehiclesDoNotDangle` | `SyncSpec => []NoDanglingVehicle` |
| `ActiveIsFollowed` | `SyncSpec => []ViewsFollowActive` |
| `FlyViewIsRight` | `TransfersAreLeftAlone` implies `SyncSpec => []FlyShowsPlan` |

A vehicle is activated and deleted 20 ms after that was decided, when others may have been lost
or selected. It works because all timers have the same length, so that they fire in the order
they were started: there is an assignment `due` of the vehicles to be deleted to timers, in the
order in which they were lost, that uses each timer of a deletion once (`IsSchedule`); and if an
activation is pending, its vehicle is connected or is deleted by a timer behind all those that
activate it (`CanBeActivated`). Each event shows the assignment that follows from the one before
(a timer fires: shifted by one; a vehicle is lost: extended by the new timer). While calls are
under way, a view that is not set up for the active vehicle has a call of `ActiveVehicleChanged`
before it, with that vehicle (`ViewsAreTold`, `CallsOK`); and with vehicles but no active one
some timer is pending (`ActiveExists`). The transfers of plans are arbitrary for these three:
what they may do to the calls is all that is used of them.

`FlyViewIsRight` is about the transfers. The fly view learns a plan in two ways, from the reports
of the managers of its vehicle and, when the active vehicle changes, from what these managers
have. `FlyInv` therefore has a chain of two parts. The view shows what the manager has, unless
the manager is busy or a report to the view is under way (`FlyShows`, `FlyFollows`). And the
manager has what the vehicle has, unless it is busy (`Knows`); for fence and rally points there
is a third possibility, that they are still to be read or written by the sequence mission,
fence, rally points, which has several handlers as its steps and is not forgotten between them
(`SequencesGoOn`): the transfer of the element before is under way, or its end is about to be
reported to the one who continues. That is the vehicle for the first load, which must be told
before the views (`FramesOK`), and the plan view for what it sends. Elements that are not
supported are skipped and are empty everywhere (`UnsupportedIsEmpty`).

The hypothesis says in which regimes this is so, and those of the run satisfy it: transfers may
fail (nothing is promised then), or users let them end before they select or lose a vehicle, or
the vehicles have nothing but a mission. Without it the property is false, for the reasons given
above at `MissionController.cc:2245` and `PlanMasterController.cc:577`: a vehicle selected between
the loads of its mission and its fence, or while its mission manager is busy, is shown without
what its managers have.

**VehicleLinks**, for every set of links of any kinds, of which any may be threaded, shared, USB
or of high latency, but for USB links of high latency, which the code never makes
(`LinkAssumption`, `DirectAssumption`):

| theorem | statement |
|---|---|
| `Invariance` | `LinksSpec => []IInv` |
| `TypeCorrect` | `LinksSpec => []LinksTypeOK` |
| `NoClosedLinks` | `LinksSpec => []NoClosedLink` |
| `BestInvariance` | `LinksSpec => [](IInv /\ BestInv)` |
| `TalksOverTheBest` | `LinksSpec => []PriorityIsBest` |
| `LossesAreReal` | `LinksSpec => LossIsReal` |
| `HighInvariance` | `LinksSpec => [](IInv /\ HighInv)` |
| `HighLatencyStops` | `LinksSpec => []HighLatencyIsStopped` |

Links are closed by calls several levels deep, and `_addLink` runs some calls after the message
that caused it. `IInv` therefore describes the stack of calls: a link is added only by the call
at its top, to a known vehicle, and is open (`CallsOK`); between a message and its handling only
calls are pending that close nothing, nor call anything that does (`Calm`: an update without a
change of state, the signal of a link that is heard, and anything for a vehicle that does not
disconnect by itself). A link of the vehicle that is not open is the one whose `LinkDeleted` is
next (`LinksAreOpen`); that call exists because a vehicle with links has at least one connection
(`LinksAreConnected`), and it removes the link because links are in the list once. A vehicle
that is not known has no links and does not disconnect by itself (`NewIsQuiet`).

`BestInv` adds when the choice is right. Unless what is called next chooses again (`Choosing`),
the priority link is one of the links and as good as any that is heard (`ChoiceIsGood`), with
one exception: a signal that will make the vehicle choose again is still on its way. So the
signals have to be trusted: the last one of a link that is under way tells what the link is
(`LastIsTrue`), and so does one that is being delivered, unless others follow it (`ToldIsTrue`).
That is false of a link that was closed and of one that is not the vehicle's, and these are left
out. The check for a loss comes right after the choice, about the priority link, of which it is
known that it went quiet (`LossIsChecked`); as the choice is good, no link is heard then. The
first choice of `BestLink` is a direct link whatever its latency, and the theorem needs that
none is of high latency (`DirectAssumption`, from `LinkManager.cc:581`).

`HighInv` adds why a vehicle that transmits over a satellite link is told to stop, although not
every call of `_updatePriorityLink` lets it send a command. A link of high latency has no
timeout, so it never goes quiet (`HighIsNeverQuiet`), and one of the vehicle's is active
(`HighIsActive`) but for two moments: while the first link of a new vehicle is added, before
its timer is started (`IsNew`), and while it is being taken away. A choice that sends nothing
is therefore made only when the vehicle was not asked to transmit, or is gone (`SilentCalls`,
`SilentLinks`): for its first link, or when the priority link went quiet, which is then not of
high latency. To carry this through the stack of calls the invariant says for each kind of call
where in the stack it may be, and `Shifts` how the stack moves when a handler calls others.

## 5. What is only model-checked

Every invariant and action property that a run checks is stated by a theorem, unless a run shows
it violated. What the provers cannot do:

* Liveness, among it that a plan which is sent arrives (`SentPlanArrives`) and that transactions
  and retries end: the provers handle neither fairness nor ENABLED. Facts by induction over data are
  out of their reach too.

Two invariants are proved and checked by no run as such: `RetriesBounded` of `PlanManager` and
`TypeOK` of `MavCommandQueue`, like the types of `ParameterManager` and `VehicleLinks`.
`BestInv`, `HighInv`, the five invariants of `MissionProtocol`, `AfreshOK`, those of
`ParameterProtocol` and `FlyInv` were checked by TLC on the instances of the runs before they
were proved.

In `VehicleConnect` and `PlanSync` the plan managers are abstract; the runs take what
`PlanManager` is shown to promise (`KeepsPromise`) and that transfers end for granted. The users
are abstract everywhere.

## 6. Plan

Done: the six parts of section 2. To come, in this order:

1. `CurrentItem`: MISSION_CURRENT and HEARTBEAT in `MissionManager.cc`, with flight mode changes
   of the vehicle interleaved with both, and the search of `generateResumeMission`.
2. Two `PlanManager`s of different types on one link: `_handleMissionItem` does not look at the
   mission type.
3. FTP (`FileManager`) and log download: each with its abstract specification (what was asked
   for is eventually complete or reported as failed).

## 7. Not modelled

* Inside the modelled parts: the offline editing vehicle (an operation on it returns at once),
  the progress percentage and `inProgressChanged` (they follow the transaction), the current
  item indices (planned), the dirty flags, plan files except the one a static vehicle is sent,
  and plans over links of high latency. `_retryCount` is not set by the constructor of
  `PlanManager` and no step uses it before it is set, except that a guided item leaves it as it
  is: `Init` takes it as 0.
* The conversion of fences and rally points to items, complex items, geometry and terrain:
  sequential computations over floating-point data, with unit tests of their own.
* Requests for parameters that are missing: a panel asks `refreshParameter` for names that have no
  Fact (`FactPanelController.cc:130`), which then wait and are asked again like the others. What
  a vehicle answers to a name it does not have is not in this code (`MockLink.cc:828` asserts that it
  has it), so only parameters that are known are refreshed.
* Parameter metadata, the import and export of parameter files, and the parameters of a replayed
  log or a link of high latency, of which nothing is loaded.
* Packet parsing, link configurations, sockets, serial ports and video: input and output without
  protocol state in this program; a link is modelled as a vehicle sees it.
* Camera, Airmap, pairing, radios, GPS, ADSB, joystick, settings and QML: clients of devices and
  services, or presentation. `PROJECT.json` gives the reason for each.
* Libraries in `libs/` and what is vendored elsewhere, which are not this program; they are most
  of the repository's lines.
