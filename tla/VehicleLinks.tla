----------------------------- MODULE VehicleLinks -----------------------------
(***************************************************************************)
(* The links of a vehicle: Vehicle/Vehicle.cc with comm/LinkManager.cc,     *)
(* comm/LinkInterface.cc and comm/MavlinkMessagesTimer.cc.  A vehicle is    *)
(* reached over every link it was heard on and talks over one of them, its  *)
(* priority link, which it chooses again whenever a link is found, goes     *)
(* quiet, is heard again or is closed.                                     *)
(*                                                                         *)
(* As in MultiVehicleManager, calls holds what the handler under way has    *)
(* still to call: each is a step, and nothing else happens until it is      *)
(* empty.  A received buffer holds one message.                            *)
(***************************************************************************)
EXTENDS Naturals, Sequences, FiniteSets, SequencesExt

CONSTANTS
  Link,             \* LinkInterface objects, of which a freed one may be used again
  NoLink,           \* nullptr
  UsbDirect,        \* the serial links whose usbDirect() is true
  HighLatency,      \* the links whose highLatency() is true
  Threaded,         \* the links that live in a thread of their own: UDP, TCP
  Shared,           \* the links other vehicles use: linkInUse
  MaxConnections,   \* bound on the links a vehicle is given in its life
  MaxSignals        \* bound on the signals of a link that are on their way

ASSUME LinkAssumption ==
  /\ NoLink \notin Link
  /\ UsbDirect \subseteq Link /\ HighLatency \subseteq Link /\ Threaded \subseteq Link
  /\ MaxConnections \in Nat

\* Only the links of boards that autoconnect finds are direct (LinkManager.cc:581), and a
\* new SerialConfiguration is of no high latency.
ASSUME DirectAssumption == UsbDirect \cap HighLatency = {}

VARIABLES
  open,             \* _sharedLinks of the LinkManager
  timer,            \* the state of the link's MavlinkMessagesTimer for the vehicle
  pending,          \* activeChanged signals between the thread of a link and the vehicle
  created,          \* the vehicle is known
  links,            \* _links
  priorityLink,     \* _priorityLink, which keeps a closed link alive
  commanded,        \* _priorityLinkCommanded
  highLatencyLink,  \* _highLatencyLink
  told,             \* the last CONTROL_HIGH_LATENCY sent
  connectionLost,   \* _connectionLost
  autoDisconnect,   \* _autoDisconnect
  connections,      \* how often linkDeleted is connected to the vehicle
  gone,             \* _allLinksInactiveSent
  calls             \* what the handler under way has still to call

channelVars == <<open, timer, pending>>
choiceVars == <<priorityLink, commanded, highLatencyLink, told>>
lifeVars == <<created, links, connections, gone>>
lossVars == <<connectionLost, autoDisconnect>>
linkVars == <<channelVars, choiceVars, lifeVars, lossVars, calls>>

Idle == calls = <<>>
Call(next) == calls' = next \o Tail(calls)
Returns == Call(<<>>)
Settled == Idle /\ \A l \in Link : pending[l] = <<>>

\* link_active
LinkActive(l) == l \in Link /\ timer[l] = "Active"

AddLinkTo(l) == [slot |-> "AddLink", link |-> l]
UpdatePriorityLinkWith(update, send) ==
  [slot |-> "UpdatePriorityLink", updateActive |-> update, sendCommand |-> send]
LinkActiveChangedTo(l, active) == [slot |-> "LinkActiveChanged", link |-> l, active |-> active]
DisconnectFrom(which, i) == [slot |-> which, index |-> i]
Disconnecting(l) == [slot |-> "DisconnectLink", link |-> l]
-----------------------------------------------------------------------------
\* activeChanged of a link.  One that lives in the main thread calls the vehicle at
\* once; another one's signal passes through the event loop of its thread, which is
\* gone once the link is closed.
EmitActiveChanged(l, active) ==
  IF l \in Threaded
  THEN /\ pending' = IF l \in open THEN [pending EXCEPT ![l] = Append(@, active)] ELSE pending
       /\ Returns
  ELSE /\ Call(IF l \in ToSet(links) \cup {priorityLink}
               THEN <<LinkActiveChangedTo(l, active)>> ELSE <<>>)
       /\ UNCHANGED pending

\* A link that is neither open nor the priority link is freed, with its timer.
Freed(l) == l \in Link /\ l \notin open /\ l /= priorityLink
TimerWithout(l) == IF l \in Link THEN [timer EXCEPT ![l] = "None"] ELSE timer

LinkOpens(l) ==
  /\ Idle
  /\ Freed(l) /\ pending[l] = <<>> /\ connections < MaxConnections
  /\ open' = open \cup {l}
  /\ UNCHANGED <<timer, pending, choiceVars, lifeVars, lossVars, calls>>

\* receiveBytes: a message of the vehicle, which a heartbeat makes known
BytesReceived(l, message) ==
  /\ Idle
  /\ l \in open /\ Len(pending[l]) < MaxSignals
  /\ l \in ToSet(links) \/ connections < MaxConnections
  /\ created' = (created \/ message = "Heartbeat")
  /\ calls' = (IF ~created /\ created' THEN <<AddLinkTo(l)>> ELSE <<>>)
                \o <<[slot |-> "StartTimer", link |-> l],
                     [slot |-> "MessageReceived", link |-> l, message |-> message]>>
  /\ UNCHANGED <<channelVars, choiceVars, links, connections, gone, lossVars>>

\* startMavlinkMessagesTimer and restartTimer.  The signals of a link's thread may all be
\* emitted before the vehicle connects to it.
StartTimer(l) ==
  /\ timer' = [timer EXCEPT ![l] = "Active"]
  /\ IF timer[l] = "Active"
     THEN Returns /\ UNCHANGED pending
     ELSE \/ EmitActiveChanged(l, TRUE)
          \/ /\ l \in Threaded /\ l \notin ToSet(links)
             /\ pending' = [pending EXCEPT ![l] = <<>>]
             /\ Returns
  /\ UNCHANGED <<open, choiceVars, lifeVars, lossVars>>

\* _mavlinkMessageReceived.  An autopilot that reboots asks for its USB link to be closed.
MessageReceived(l, message) ==
  /\ Call((IF created /\ l \notin ToSet(links) THEN <<AddLinkTo(l)>> ELSE <<>>)
          \o IF created /\ message = "Reboot" THEN <<DisconnectFrom("DisconnectUsb", 1)>> ELSE <<>>)
  /\ UNCHANGED <<channelVars, choiceVars, lifeVars, lossVars>>

\* timerTimeout: no message for 3.5 seconds
TimerTimeout(l) ==
  /\ Idle
  /\ l \notin HighLatency /\ timer[l] = "Active" /\ Len(pending[l]) < MaxSignals
  /\ timer' = [timer EXCEPT ![l] = "Inactive"]
  /\ IF l \in Threaded
     THEN /\ pending' = IF l \in open THEN [pending EXCEPT ![l] = Append(@, FALSE)] ELSE pending
          /\ UNCHANGED calls
     ELSE /\ calls' = IF l \in ToSet(links) \cup {priorityLink}
                      THEN <<LinkActiveChangedTo(l, FALSE)>> ELSE <<>>
          /\ UNCHANGED pending
  /\ UNCHANGED <<open, choiceVars, lifeVars, lossVars>>

\* A signal of a link's thread reaches the vehicle, if that connected to it.  A link
\* freed in the meantime cannot stop it.
SignalArrives(l) ==
  /\ Idle
  /\ pending[l] /= <<>>
  /\ pending' = [pending EXCEPT ![l] = Tail(@)]
  /\ calls' = IF created /\ (l \in ToSet(links) \cup {priorityLink} \/ Freed(l))
              THEN <<LinkActiveChangedTo(l, Head(pending[l]))>> ELSE <<>>
  /\ UNCHANGED <<open, timer, choiceVars, lifeVars, lossVars>>
-----------------------------------------------------------------------------
\* MUTANT of AddLink: the count of links is taken before the new one is added
AddLinkCountedEarly(l) ==
  /\ links' = Append(links, l)
  /\ connections' = connections + 1
  /\ Call(<<UpdatePriorityLinkWith(TRUE, Len(links) > 1)>>)
  /\ UNCHANGED <<channelVars, choiceVars, created, gone, lossVars>>

\* _addLink.  The code connects the slots after the update, which closes nothing: the
\* link was just heard, or the vehicle is new.
AddLink(l) ==
  /\ links' = Append(links, l)
  /\ connections' = connections + 1
  /\ Call(<<UpdatePriorityLinkWith(TRUE, links /= <<>>)>>)
  /\ UNCHANGED <<channelVars, choiceVars, created, gone, lossVars>>

\* The first of links in the first class that has one
FirstOf(S) == links[CHOOSE i \in DOMAIN links :
                      links[i] \in S /\ \A j \in DOMAIN links : links[j] \in S => i <= j]
BestLink ==
  LET active == {l \in ToSet(links) : LinkActive(l)}
      classes == <<(active \cap UsbDirect) \ {priorityLink}, active \ HighLatency,
                   active \cap HighLatency, ToSet(links)>>
  IN FirstOf(classes[CHOOSE i \in 1..4 : classes[i] /= {} /\ \A j \in 1..(i - 1) : classes[j] = {}])

\* _updateHighLatencyLink of a new priority link
UpdateHighLatencyLink(l, sendCommand) ==
  /\ highLatencyLink' = (l \in HighLatency)
  /\ told' = IF sendCommand /\ highLatencyLink /= (l \in HighLatency)
             THEN (IF l \in HighLatency THEN "Start" ELSE "Stop") ELSE told

StillValid == /\ priorityLink \in ToSet(links) /\ priorityLink \notin HighLatency
              /\ LinkActive(priorityLink)

SwitchTo(l, sendCommand) ==
  /\ priorityLink' = l
  /\ timer' = IF priorityLink \notin open THEN TimerWithout(priorityLink) ELSE timer
  /\ UpdateHighLatencyLink(l, sendCommand)

UpdatePriorityLink(updateActive, sendCommand) ==
  /\ commanded' = (commanded /\ LinkActive(priorityLink))
  /\ IF commanded' \/ links = <<>> \/ StillValid \/ BestLink = priorityLink
     THEN Returns /\ UNCHANGED <<timer, priorityLink, highLatencyLink, told>>
     ELSE /\ SwitchTo(BestLink, sendCommand)
          /\ Call(IF updateActive THEN <<LinkActiveChangedTo(BestLink, LinkActive(BestLink))>>
                  ELSE <<>>)
  /\ UNCHANGED <<open, pending, lifeVars, lossVars>>

\* MUTANT of LinkActiveChanged: only the signal of the priority link matters
LinkActiveChangedOfPriority(l, active) ==
  /\ connectionLost' = (connectionLost /\ ~(l = priorityLink /\ active))
  /\ Call(IF l = priorityLink /\ ~active /\ ~connectionLost
          THEN <<UpdatePriorityLinkWith(FALSE, FALSE), [slot |-> "CheckLoss", link |-> l]>>
          ELSE <<>>)
  /\ UNCHANGED <<channelVars, choiceVars, lifeVars, autoDisconnect>>

\* _linkActiveChanged
LinkActiveChanged(l, active) ==
  /\ connectionLost' = (connectionLost /\ ~(l = priorityLink /\ active))
  /\ Call(IF l /= priorityLink THEN <<UpdatePriorityLinkWith(FALSE, TRUE)>>
          ELSE IF ~active /\ ~connectionLost
          THEN <<UpdatePriorityLinkWith(FALSE, FALSE), [slot |-> "CheckLoss", link |-> l]>>
          ELSE <<>>)
  /\ UNCHANGED <<channelVars, choiceVars, lifeVars, autoDisconnect>>

\* MUTANT of CheckLoss: whether another link took over is not looked at
CheckLossOfAny(l) ==
  /\ connectionLost' = TRUE
  /\ Call(IF autoDisconnect THEN <<DisconnectFrom("DisconnectInactiveVehicle", 1)>> ELSE <<>>)
  /\ UNCHANGED <<channelVars, choiceVars, lifeVars, autoDisconnect>>

\* ... and its rest, after the update
CheckLoss(l) ==
  /\ connectionLost' = (connectionLost \/ l = priorityLink)
  /\ Call(IF l = priorityLink /\ autoDisconnect
          THEN <<DisconnectFrom("DisconnectInactiveVehicle", 1)>> ELSE <<>>)
  /\ UNCHANGED <<channelVars, choiceVars, lifeVars, autoDisconnect>>
-----------------------------------------------------------------------------
\* The loops of disconnectInactiveVehicle and of _handleCommandLong.  A link that is
\* closed leaves links, and the index goes on.
DisconnectEach(which, i, toClose) ==
  /\ Call(IF i > Len(links) THEN <<>>
          ELSE (IF links[i] \in toClose THEN <<Disconnecting(links[i])>> ELSE <<>>)
               \o <<DisconnectFrom(which, i + 1)>>)
  /\ UNCHANGED <<channelVars, choiceVars, lifeVars, lossVars>>

\* disconnectLink and _deleteLink.  What the link's thread has not yet emitted is lost.
DisconnectLink(l) ==
  /\ open' = open \ {l}
  /\ timer' = IF l /= priorityLink THEN TimerWithout(l) ELSE timer
  /\ IF l \in open
     THEN /\ Call([i \in 1..connections |-> [slot |-> "LinkDeleted", link |-> l]])
          /\ \E n \in 0..Len(pending[l]) : pending' = [pending EXCEPT ![l] = SubSeq(@, 1, n)]
     ELSE Returns /\ UNCHANGED pending
  /\ UNCHANGED <<choiceVars, lifeVars, lossVars>>

\* links.removeOne
LinksWithout(l) ==
  IF l \in ToSet(links) THEN RemoveAt(links, CHOOSE i \in DOMAIN links : links[i] = l) ELSE links

\* MUTANT of LinkDeleted: only the priority link is forgotten
LinkDeletedOfPriority(l) ==
  /\ links' = IF l = priorityLink THEN LinksWithout(l) ELSE links
  /\ Call(<<UpdatePriorityLinkWith(TRUE, TRUE), [slot |-> "CheckGone"]>>)
  /\ UNCHANGED <<channelVars, choiceVars, created, connections, gone, lossVars>>

\* _linkInactiveOrDeleted
LinkDeleted(l) ==
  /\ links' = LinksWithout(l)
  /\ Call(<<UpdatePriorityLinkWith(TRUE, TRUE), [slot |-> "CheckGone"]>>)
  /\ UNCHANGED <<channelVars, choiceVars, created, connections, gone, lossVars>>

\* ... and its rest, after the update
CheckGone ==
  /\ gone' = (gone \/ links = <<>>)
  /\ Returns
  /\ UNCHANGED <<channelVars, choiceVars, created, links, connections, lossVars>>

\* The user closes a link or its port is gone, ...
UserDisconnects(l) ==
  /\ Idle
  /\ l \in open
  /\ calls' = <<Disconnecting(l)>>
  /\ UNCHANGED <<channelVars, choiceVars, lifeVars, lossVars>>

\* ... or all links of a vehicle whose connection is lost.
DisconnectInactiveVehicle ==
  /\ Idle
  /\ created /\ connectionLost
  /\ calls' = <<DisconnectFrom("DisconnectInactiveVehicle", 1)>>
  /\ UNCHANGED <<channelVars, choiceVars, lifeVars, lossVars>>

\* setPriorityLinkByName, from the menu of links
SetPriorityLinkByName(l) ==
  /\ Idle
  /\ l \in ToSet(links) /\ l /= priorityLink
  /\ commanded' = TRUE
  /\ SwitchTo(l, TRUE)
  /\ calls' = <<LinkActiveChangedTo(l, LinkActive(l))>>
  /\ UNCHANGED <<open, pending, lifeVars, lossVars>>

\* rebootVehicle, or the firmware upgrade page
RebootVehicle ==
  /\ Idle
  /\ created
  /\ autoDisconnect' = TRUE
  /\ UNCHANGED <<channelVars, choiceVars, lifeVars, connectionLost, calls>>

\* _deleteVehiclePhase2, 20 ms after the last link is gone.  The signals that were on
\* their way have arrived by then.
VehicleDeleted ==
  /\ Settled
  /\ gone
  /\ created' = FALSE /\ links' = <<>> /\ connections' = 0 /\ gone' = FALSE
  /\ priorityLink' = NoLink /\ commanded' = FALSE /\ highLatencyLink' = FALSE /\ told' = "Nothing"
  /\ connectionLost' = FALSE /\ autoDisconnect' = FALSE
  /\ timer' = IF priorityLink \notin open THEN TimerWithout(priorityLink) ELSE timer
  /\ UNCHANGED <<open, pending, calls>>
-----------------------------------------------------------------------------
LinksInit ==
  /\ open = {}
  /\ timer = [l \in Link |-> "None"]
  /\ pending = [l \in Link |-> <<>>]
  /\ created = FALSE /\ links = <<>> /\ connections = 0 /\ gone = FALSE
  /\ priorityLink = NoLink /\ commanded = FALSE /\ highLatencyLink = FALSE /\ told = "Nothing"
  /\ connectionLost = FALSE /\ autoDisconnect = FALSE
  /\ calls = <<>>

Handle(c) ==
  \/ c.slot = "AddLink" /\ AddLink(c.link)
  \/ c.slot = "StartTimer" /\ StartTimer(c.link)
  \/ c.slot = "MessageReceived" /\ MessageReceived(c.link, c.message)
  \/ c.slot = "UpdatePriorityLink" /\ UpdatePriorityLink(c.updateActive, c.sendCommand)
  \/ c.slot = "LinkActiveChanged" /\ LinkActiveChanged(c.link, c.active)
  \/ c.slot = "CheckLoss" /\ CheckLoss(c.link)
  \/ c.slot = "DisconnectInactiveVehicle" /\ DisconnectEach(c.slot, c.index, Link \ Shared)
  \/ c.slot = "DisconnectUsb" /\ DisconnectEach(c.slot, c.index, UsbDirect)
  \/ c.slot = "DisconnectLink" /\ DisconnectLink(c.link)
  \/ c.slot = "LinkDeleted" /\ LinkDeleted(c.link)
  \/ c.slot = "CheckGone" /\ CheckGone

LinksNext ==
  \/ ~Idle /\ Handle(Head(calls))
  \/ \E l \in Link :
       \/ LinkOpens(l)
       \/ \E message \in {"Heartbeat", "Reboot", "Other"} : BytesReceived(l, message)
       \/ TimerTimeout(l)
       \/ SignalArrives(l)
       \/ UserDisconnects(l)
       \/ SetPriorityLinkByName(l)
  \/ DisconnectInactiveVehicle
  \/ RebootVehicle
  \/ VehicleDeleted

LinksSpec == LinksInit /\ [][LinksNext]_linkVars
-----------------------------------------------------------------------------
\* What calls may hold
Frame ==
  [slot : {"AddLink", "StartTimer", "CheckLoss", "DisconnectLink", "LinkDeleted"}, link : Link]
  \cup [slot : {"MessageReceived"}, link : Link, message : {"Heartbeat", "Reboot", "Other"}]
  \cup [slot : {"UpdatePriorityLink"}, updateActive : BOOLEAN, sendCommand : BOOLEAN]
  \cup [slot : {"LinkActiveChanged"}, link : Link, active : BOOLEAN]
  \cup [slot : {"DisconnectInactiveVehicle", "DisconnectUsb"}, index : Nat \ {0}]
  \cup [slot : {"CheckGone"}]

\* The variables have their types.
LinksTypeOK ==
  /\ open \subseteq Link
  /\ timer \in [Link -> {"None", "Active", "Inactive"}]
  /\ pending \in [Link -> Seq(BOOLEAN)]
  /\ created \in BOOLEAN /\ links \in Seq(Link) /\ connections \in Nat /\ gone \in BOOLEAN
  /\ priorityLink \in Link \cup {NoLink} /\ commanded \in BOOLEAN /\ highLatencyLink \in BOOLEAN
  /\ told \in {"Nothing", "Start", "Stop"}
  /\ connectionLost \in BOOLEAN /\ autoDisconnect \in BOOLEAN
  /\ calls \in Seq(Frame)

\* A vehicle never chooses among its links, closes some of them, or waits for the next
\* event, with a link that was closed among them, whatever was called from where: for a
\* closed link sharedLinkInterfacePointerForLink finds none, and the priority link would
\* be null.
NoClosedLink ==
  ~(calls /= <<>> /\ Head(calls).slot = "LinkDeleted") => ToSet(links) \subseteq open

\* Once all signals have arrived, a vehicle whose connection is not shown as lost, and
\* whose user chose no link, talks over a link that is heard if there is one, and over
\* one of high latency only if no other is heard: "Returns the highest quality link
\* available to the Vehicle" (Vehicle.h).
PriorityIsBest ==
  Settled /\ created /\ ~gone /\ ~commanded /\ ~connectionLost =>
    LET active == {l \in ToSet(links) : LinkActive(l)}
    IN /\ active /= {} => priorityLink \in active
       /\ active \ HighLatency /= {} => priorityLink \notin HighLatency

\* A vehicle that was asked to transmit over a link of high latency, which is paid for,
\* is asked to stop when it is reached over another link again.
HighLatencyIsStopped == Idle /\ ~gone /\ told = "Start" => priorityLink \in HighLatency

\* Once all signals have arrived, the connection of a vehicle whose user chose no link is
\* declared lost only when none of its links is heard.
LossIsReal ==
  [][(/\ ~connectionLost /\ connectionLost' /\ ~commanded
      /\ \A l \in Link : pending[l] = <<>>) =>
       \A l \in ToSet(links) : ~LinkActive(l)]_linkVars

\* Once all signals have arrived, a vehicle none of whose links is heard is shown as
\* lost: "Signal connection lost after 3.5 seconds of no messages"
\* (MavlinkMessagesTimer.h).
LossIsKnown ==
  Settled /\ created /\ ~gone /\ ~commanded /\ (\A l \in ToSet(links) : ~LinkActive(l))
    => connectionLost
=============================================================================
