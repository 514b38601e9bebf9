-------------------------- MODULE VehicleLinksProofs --------------------------
(***************************************************************************)
(* The links of a vehicle, for any links of any kinds.  What makes the      *)
(* three results hard is that handlers call one another, and that a signal  *)
(* of a link that lives in a thread of its own arrives late.                *)
(*                                                                         *)
(*   - A vehicle never chooses among links one of which was closed (IInv).  *)
(*     A link is added some calls after its message was received, and might *)
(*     be closed in between.  It is not, since what is called until then is *)
(*     calm: it can close a link only for a vehicle that disconnects by     *)
(*     itself, and only when a link has gone quiet.                         *)
(*   - It talks over the best of them, and is declared lost only when none  *)
(*     is heard (BestInv).  While nothing is being chosen the choice is as  *)
(*     good as any link that is heard, unless a signal that will make the   *)
(*     vehicle choose again is still on its way.                            *)
(*   - It is told to stop transmitting over a link of high latency that it  *)
(*     no longer talks over (HighInv), although some of the choices are     *)
(*     made without telling it: those are made when there is nothing to     *)
(*     tell.                                                                *)
(***************************************************************************)
EXTENDS VehicleLinks, WellFoundedInduction, TLAPS

\* A call that closes no link, nor anything it calls, before a message is handled
Calm(c, disconnects) ==
  \/ c.slot = "StartTimer"
  \/ c.slot = "UpdatePriorityLink" /\ c.updateActive = FALSE
  \/ c.slot = "LinkActiveChanged" /\ c.active = TRUE
  \/ /\ disconnects = FALSE
     /\ c.slot \in {"AddLink", "UpdatePriorityLink", "LinkActiveChanged", "CheckLoss"}

\* A link is added to a known vehicle, at once, and is open.  So is one whose message is
\* handled, after calm calls.
CallsOK ==
  \A j \in DOMAIN calls :
    /\ calls[j].slot = "AddLink" =>
         j = 1 /\ created /\ calls[j].link \in open /\ calls[j].link \notin ToSet(links)
    /\ calls[j].slot = "MessageReceived" =>
         calls[j].link \in open /\ \A i \in 1 .. (j - 1) : Calm(calls[i], autoDisconnect)

\* A link of the vehicle is open, or the vehicle is being told that it is not.
LinksAreOpen ==
  \A k \in ToSet(links) :
    \/ k \in open
    \/ calls /= <<>> /\ Head(calls).slot = "LinkDeleted" /\ Head(calls).link = k

NewIsQuiet == created = FALSE => links = <<>> /\ autoDisconnect = FALSE
LinksAreConnected == links /= <<>> => connections >= 1

IInv == LinksTypeOK /\ IsInjective(links) /\ CallsOK /\ LinksAreOpen /\ NewIsQuiet
          /\ LinksAreConnected

ChannelTypeOK == /\ timer \in [Link -> {"None", "Active", "Inactive"}]
                 /\ pending \in [Link -> Seq(BOOLEAN)]
ChoiceTypeOK == /\ priorityLink \in Link \cup {NoLink}
                /\ commanded \in BOOLEAN /\ highLatencyLink \in BOOLEAN
                /\ told \in {"Nothing", "Start", "Stop"}
FlagTypeOK == created \in BOOLEAN /\ gone \in BOOLEAN /\ connectionLost \in BOOLEAN
                /\ autoDisconnect \in BOOLEAN
-----------------------------------------------------------------------------
(* Frames and sequences of them *)

LEMMA FrameFields ==
  ASSUME NEW c \in Frame
  PROVE  /\ c.slot \in {"AddLink", "StartTimer", "CheckLoss", "DisconnectLink", "LinkDeleted",
                        "MessageReceived", "LinkActiveChanged"} => c.link \in Link
         /\ c.slot = "LinkActiveChanged" => c.active \in BOOLEAN
         /\ c.slot = "UpdatePriorityLink" => c.updateActive \in BOOLEAN /\ c.sendCommand \in BOOLEAN
         /\ c.slot \in {"DisconnectInactiveVehicle", "DisconnectUsb"} => c.index \in Nat \ {0}
         /\ c.slot = "MessageReceived" => c.message \in {"Heartbeat", "Reboot", "Other"}
  BY DEF Frame

LEMMA FramesAre ==
  /\ \A l \in Link : AddLinkTo(l) \in Frame /\ Disconnecting(l) \in Frame
  /\ \A l \in Link, slot \in {"StartTimer", "CheckLoss", "LinkDeleted"} :
       [slot |-> slot, link |-> l] \in Frame
  /\ \A l \in Link, message \in {"Heartbeat", "Reboot", "Other"} :
       [slot |-> "MessageReceived", link |-> l, message |-> message] \in Frame
  /\ \A l \in Link, active \in BOOLEAN : LinkActiveChangedTo(l, active) \in Frame
  /\ \A l \in Link : LinkActiveChangedTo(l, TRUE) \in Frame
  /\ \A u, s \in BOOLEAN : UpdatePriorityLinkWith(u, s) \in Frame
  /\ \A w \in {"DisconnectInactiveVehicle", "DisconnectUsb"}, i \in Nat \ {0} :
       DisconnectFrom(w, i) \in Frame
  /\ [slot |-> "CheckGone"] \in Frame
  BY DEF Frame, AddLinkTo, Disconnecting, LinkActiveChangedTo, UpdatePriorityLinkWith,
         DisconnectFrom

LEMMA Joined == ASSUME NEW f, NEW g PROVE <<>> \o <<g>> = <<g>> /\ <<f>> \o <<g>> = <<f, g>>
<1> DEFINE S == {f, g}
<1>1. <<>> \in Seq(S) /\ <<f>> \in Seq(S) /\ <<g>> \in Seq(S) /\ <<f, g>> \in Seq(S)
  OBVIOUS
<1> HIDE DEF S
<1>2. <<>> \o <<g>> = <<g>>
  BY <1>1
<1> DEFINE u == <<f>> \o <<g>>
           v == <<f, g>>
<1>3. u \in Seq(S) /\ Len(u) = 2 /\ u[1] = f /\ u[2] = g
  BY <1>1
<1>4. v \in Seq(S) /\ Len(v) = 2 /\ v[1] = f /\ v[2] = g
  BY <1>1
<1> HIDE DEF u, v
<1>5. u = v
  <2>1. DOMAIN u = 1 .. 2 /\ DOMAIN v = 1 .. 2 /\ u \in [1 .. 2 -> S] /\ v \in [1 .. 2 -> S]
    BY <1>3, <1>4
  <2>2. \A i \in 1 .. 2 : u[i] = v[i]
    BY <1>3, <1>4
  <2> QED
    BY <2>1, <2>2
<1> QED
  BY <1>2, <1>5 DEF u, v

\* What a handler calls comes before what was still to be called.
LEMMA CalledFirst ==
  ASSUME NEW S, NEW s \in Seq(S), s /= <<>>, NEW next \in Seq(S), NEW t, t = next \o Tail(s)
  PROVE  /\ t \in Seq(S) /\ Len(t) = Len(next) + Len(s) - 1
         /\ \A i \in 1 .. Len(next) : t[i] = next[i]
         /\ \A i \in (Len(next) + 1) .. Len(t) :
              i - Len(next) + 1 \in 2 .. Len(s) /\ t[i] = s[i - Len(next) + 1]
         /\ next /= <<>> => t /= <<>> /\ Head(t) = next[1]
  OBVIOUS

\* What keeps CallsOK: calm calls call calm ones, and only others close links.
LEMMA CallKeepsCallsOK ==
  ASSUME IInv, calls /= <<>>, NEW next \in Seq(Frame), Call(next),
         UNCHANGED <<created, autoDisconnect>>,
         open' = open \/ ~Calm(Head(calls), autoDisconnect),
         Calm(Head(calls), autoDisconnect) =>
           \A i \in DOMAIN next : Calm(next[i], autoDisconnect),
         \A i \in DOMAIN next :
           /\ next[i].slot /= "MessageReceived"
           /\ next[i].slot = "AddLink" =>
                i = 1 /\ created /\ next[i].link \in open' /\ next[i].link \notin ToSet(links')
  PROVE  CallsOK' /\ calls' \in Seq(Frame)
<1> DEFINE n == Len(next)
<1>1. /\ calls' \in Seq(Frame) /\ n \in Nat /\ calls \in Seq(Frame)
      /\ DOMAIN next = 1 .. n /\ DOMAIN calls = 1 .. Len(calls) /\ Len(calls) \in Nat
      /\ DOMAIN calls' = 1 .. Len(calls') /\ Len(calls') = n + Len(calls) - 1
      /\ \A i \in 1 .. n : calls'[i] = next[i]
      /\ \A i \in (n + 1) .. Len(calls') :
           i - n + 1 \in 2 .. Len(calls) /\ calls'[i] = calls[i - n + 1]
  BY CalledFirst DEF IInv, LinksTypeOK, Call
<1>2. ASSUME NEW j \in DOMAIN calls', calls'[j].slot = "AddLink"
      PROVE  /\ j = 1 /\ created' /\ calls'[j].link \in open'
             /\ calls'[j].link \notin ToSet(links')
  <2>1. CASE j \in 1 .. n
    BY <1>1, <1>2, <2>1
  <2>2. CASE j \in (n + 1) .. Len(calls')
    <3>1. j - n + 1 \in DOMAIN calls /\ j - n + 1 /= 1 /\ calls[j - n + 1].slot = "AddLink"
      <4>1. j - n + 1 \in 2 .. Len(calls) /\ calls'[j] = calls[j - n + 1]
        BY <1>1, <2>2
      <4> QED
        BY <1>1, <1>2, <4>1
    <3> QED
      BY <3>1 DEF IInv, CallsOK
  <2> QED
    BY <1>1, <2>1, <2>2
<1>3. ASSUME NEW j \in DOMAIN calls', calls'[j].slot = "MessageReceived"
      PROVE  /\ calls'[j].link \in open'
             /\ \A i \in 1 .. (j - 1) : Calm(calls'[i], autoDisconnect)
  <2>1. j \in (n + 1) .. Len(calls')
    BY <1>1, <1>3
  <2> DEFINE k == j - n + 1
  <2>2. k \in 2 .. Len(calls) /\ calls'[j] = calls[k] /\ k \in DOMAIN calls
    BY <1>1, <2>1
  <2>3. calls[k].link \in open /\ \A i \in 1 .. (k - 1) : Calm(calls[i], autoDisconnect)
    BY <1>3, <2>2 DEF IInv, CallsOK
  <2>4. Calm(Head(calls), autoDisconnect)
    <3>1. 1 \in 1 .. (k - 1) /\ Head(calls) = calls[1]
      BY <1>1, <2>2
    <3> QED
      BY <2>3, <3>1
  <2>5. ASSUME NEW i \in 1 .. (j - 1)
        PROVE  Calm(calls'[i], autoDisconnect)
    <3>1. CASE i \in 1 .. n
      <4>1. calls'[i] = next[i] /\ i \in DOMAIN next
        BY <1>1, <3>1
      <4> QED
        BY <2>4, <4>1
    <3>2. CASE i \in (n + 1) .. (j - 1)
      <4>1. i \in (n + 1) .. Len(calls') /\ i - n + 1 \in 1 .. (k - 1)
        BY <1>1, <2>1, <3>2
      <4>2. calls'[i] = calls[i - n + 1]
        BY <1>1, <4>1
      <4> QED
        BY <2>3, <4>1, <4>2
    <3> QED
      BY <1>1, <2>1, <3>1, <3>2
  <2> QED
    BY <2>2, <2>3, <2>4, <2>5
<1> QED
  BY <1>1, <1>2, <1>3 DEF CallsOK
-----------------------------------------------------------------------------
(* The best link is one of the links, and of the best class of them *)

LEMMA LeastIndex ==
  ASSUME NEW T \in SUBSET Nat, T /= {}
  PROVE  \E i \in T : \A j \in T : i <= j
<1>1. PICK i \in T : \A j \in T : <<j, i>> \notin OpToRel(<, Nat)
  BY NatLessThanWellFounded, WFMin
<1>2. \A j \in T : ~(j < i)
  BY <1>1 DEF OpToRel
<1>3. i \in Nat /\ \A j \in T : j \in Nat
  OBVIOUS
<1> QED
  BY <1>2, <1>3

LEMMA FirstIsLink ==
  ASSUME NEW S, links \in Seq(Link), ToSet(links) \cap S /= {}
  PROVE  FirstOf(S) \in ToSet(links) \cap S
<1> DEFINE T == {i \in DOMAIN links : links[i] \in S}
<1>1. T \in SUBSET Nat /\ T /= {}
  BY DEF ToSet
<1>2. PICK i \in T : \A j \in T : i <= j
  BY <1>1, LeastIndex
<1>3. \E k \in DOMAIN links : links[k] \in S /\ \A j \in DOMAIN links : links[j] \in S => k <= j
  BY <1>2
<1> QED
  BY <1>3 DEF FirstOf, ToSet

LEMMA BestIsBest ==
  ASSUME links \in Seq(Link), links /= <<>>
  PROVE  /\ BestLink \in ToSet(links)
         /\ \A k \in ToSet(links) :
              LinkActive(k) => LinkActive(BestLink) /\ (k \notin HighLatency => BestLink \notin HighLatency)
<1> DEFINE active == {l \in ToSet(links) : LinkActive(l)}
           classes == <<(active \cap UsbDirect) \ {priorityLink}, active \ HighLatency,
                        active \cap HighLatency, ToSet(links)>>
           P(i) == classes[i] /= {} /\ \A j \in 1 .. (i - 1) : classes[j] = {}
<1>0. ToSet(links) /= {} /\ active \subseteq ToSet(links)
  BY DEF ToSet
<1>1. classes[4] /= {} /\ \A i \in 1 .. 4 : classes[i] \subseteq ToSet(links)
  <2> HIDE DEF active
  <2> QED
    BY <1>0
<1>2. \E i \in 1 .. 4 : P(i)
  <2> HIDE DEF classes
  <2>1. CASE classes[1] /= {}
    <3>1. P(1) BY <2>1
    <3> QED BY <3>1
  <2>2. CASE classes[1] = {} /\ classes[2] /= {}
    <3>1. P(2) BY <2>2
    <3> QED BY <3>1
  <2>3. CASE classes[1] = {} /\ classes[2] = {} /\ classes[3] /= {}
    <3>1. P(3) BY <2>3
    <3> QED BY <3>1
  <2>4. CASE classes[1] = {} /\ classes[2] = {} /\ classes[3] = {}
    <3>1. P(4) BY <2>4, <1>1
    <3> QED BY <3>1
  <2> QED
    BY <2>1, <2>2, <2>3, <2>4
<1> DEFINE c == CHOOSE i \in 1 .. 4 : P(i)
<1>3. c \in 1 .. 4 /\ P(c)
  BY <1>2
<1>4. BestLink \in ToSet(links) \cap classes[c]
  <2>1. ToSet(links) \cap classes[c] /= {}
    BY <1>1, <1>3
  <2>2. BestLink = FirstOf(classes[c])
    BY DEF BestLink
  <2> QED
    BY <2>1, <2>2, FirstIsLink
<1>5. /\ c = 1 => classes[c] \subseteq active \cap UsbDirect
      /\ c = 2 => classes[c] = active \ HighLatency
      /\ c = 3 => classes[c] \subseteq active /\ active \ HighLatency = {}
      /\ c = 4 => active \ HighLatency = {} /\ active \cap HighLatency = {}
  <2>1. /\ classes[1] = (active \cap UsbDirect) \ {priorityLink} /\ classes[2] = active \ HighLatency
        /\ classes[3] = active \cap HighLatency
    OBVIOUS
  <2>2. c = 3 => classes[2] = {}
    <3>1. c = 3 => 2 \in 1 .. (c - 1)
      <4> HIDE DEF c
      <4> QED
        OBVIOUS
    <3> QED
      BY <1>3, <3>1
  <2>3. c = 4 => classes[2] = {} /\ classes[3] = {}
    <3>1. c = 4 => 2 \in 1 .. (c - 1) /\ 3 \in 1 .. (c - 1)
      <4> HIDE DEF c
      <4> QED
        OBVIOUS
    <3> QED
      BY <1>3, <3>1
  <2> HIDE DEF active, classes, c
  <2> QED
    BY <2>1, <2>2, <2>3
<1>6. c = 1 \/ c = 2 \/ c = 3 \/ c = 4
  <2>1. c \in 1 .. 4
    BY <1>3
  <2> HIDE DEF c
  <2> QED
    BY <2>1
<1>7. ASSUME NEW k \in ToSet(links), LinkActive(k) PROVE k \in active
  BY <1>7
<1>8. \A k \in active : LinkActive(k)
  OBVIOUS
<1> HIDE DEF active, classes, c
<1> QED
  BY <1>4, <1>5, <1>6, <1>7, <1>8, DirectAssumption
-----------------------------------------------------------------------------
(* The calls that close no link *)

\* What a handler that leaves the links alone has to show.
LEMMA KeepsInvariant ==
  ASSUME IInv, calls /= <<>>, Head(calls).slot /= "LinkDeleted",
         UNCHANGED <<open, created, links, connections, autoDisconnect>>,
         ChannelTypeOK', ChoiceTypeOK', FlagTypeOK',
         NEW next \in Seq(Frame), Call(next),
         Calm(Head(calls), autoDisconnect) =>
           \A i \in DOMAIN next : Calm(next[i], autoDisconnect),
         \A i \in DOMAIN next :
           /\ next[i].slot /= "MessageReceived"
           /\ next[i].slot = "AddLink" =>
                i = 1 /\ created /\ next[i].link \in open /\ next[i].link \notin ToSet(links)
  PROVE  IInv'
<1>1. CallsOK' /\ calls' \in Seq(Frame)
  BY CallKeepsCallsOK
<1>2. LinksTypeOK'
  BY <1>1 DEF IInv, LinksTypeOK, ChannelTypeOK, ChoiceTypeOK, FlagTypeOK
<1>3. IsInjective(links)'
  BY DEF IInv, IsInjective
<1>4. LinksAreOpen'
  BY DEF IInv, LinksAreOpen
<1>5. NewIsQuiet' /\ LinksAreConnected'
  BY DEF IInv, NewIsQuiet, LinksAreConnected
<1> QED
  BY <1>1, <1>2, <1>3, <1>4, <1>5 DEF IInv

LEMMA HeadIsFrame == ASSUME IInv, calls /= <<>> PROVE Head(calls) \in Frame
  BY DEF IInv, LinksTypeOK

\* The types of what a handler leaves alone
LEMMA SameTypes ==
  ASSUME IInv
  PROVE  /\ UNCHANGED <<timer, pending>> => ChannelTypeOK'
         /\ UNCHANGED choiceVars => ChoiceTypeOK'
         /\ UNCHANGED <<created, gone, connectionLost, autoDisconnect>> => FlagTypeOK'
<1>1. ChannelTypeOK /\ ChoiceTypeOK /\ FlagTypeOK
  BY DEF IInv, LinksTypeOK, ChannelTypeOK, ChoiceTypeOK, FlagTypeOK
<1> QED
  BY <1>1 DEF ChannelTypeOK, ChoiceTypeOK, FlagTypeOK, choiceVars

\* The three shapes of what a handler calls
LEMMA KeepsReturning ==
  ASSUME IInv, calls /= <<>>, Head(calls).slot /= "LinkDeleted",
         UNCHANGED <<open, created, links, connections, autoDisconnect>>,
         ChannelTypeOK', ChoiceTypeOK', FlagTypeOK', Call(<<>>)
  PROVE  IInv'
<1>1. <<>> \in Seq(Frame) /\ DOMAIN <<>> = {}
  OBVIOUS
<1> QED
  BY <1>1, KeepsInvariant

LEMMA KeepsCallingOne ==
  ASSUME IInv, calls /= <<>>, Head(calls).slot /= "LinkDeleted",
         UNCHANGED <<open, created, links, connections, autoDisconnect>>,
         ChannelTypeOK', ChoiceTypeOK', FlagTypeOK',
         NEW f \in Frame, Call(<<f>>), f.slot \notin {"AddLink", "MessageReceived"},
         Calm(Head(calls), autoDisconnect) => Calm(f, autoDisconnect)
  PROVE  IInv'
<1> DEFINE next == <<f>>
<1>1. next \in Seq(Frame) /\ \A i \in DOMAIN next : next[i] = f
  OBVIOUS
<1>2. Call(next)
  OBVIOUS
<1> HIDE DEF next
<1> QED
  BY <1>1, <1>2, KeepsInvariant

LEMMA KeepsCallingTwo ==
  ASSUME IInv, calls /= <<>>, Head(calls).slot /= "LinkDeleted",
         UNCHANGED <<open, created, links, connections, autoDisconnect>>,
         ChannelTypeOK', ChoiceTypeOK', FlagTypeOK',
         NEW f \in Frame, NEW g \in Frame, Call(<<f, g>>),
         f.slot \notin {"AddLink", "MessageReceived"},
         g.slot \notin {"AddLink", "MessageReceived"},
         Calm(Head(calls), autoDisconnect) =>
           Calm(f, autoDisconnect) /\ Calm(g, autoDisconnect)
  PROVE  IInv'
<1> DEFINE next == <<f, g>>
<1>1. next \in Seq(Frame) /\ \A i \in DOMAIN next : next[i] = f \/ next[i] = g
  OBVIOUS
<1>2. Call(next)
  OBVIOUS
<1> HIDE DEF next
<1> QED
  BY <1>1, <1>2, KeepsInvariant

LEMMA StartTimerKeeps ==
  ASSUME IInv, calls /= <<>>, NEW c \in Frame, Head(calls) = c, c.slot = "StartTimer",
         StartTimer(c.link)
  PROVE  IInv'
<1> DEFINE l == c.link
<1>1. l \in Link
  BY FrameFields
<1>2. UNCHANGED <<open, created, links, connections, autoDisconnect>> /\ ChoiceTypeOK' /\ FlagTypeOK'
  BY SameTypes DEF StartTimer, choiceVars, lifeVars, lossVars
<1>3. ChannelTypeOK'
  <2>1. timer \in [Link -> {"None", "Active", "Inactive"}] /\ pending \in [Link -> Seq(BOOLEAN)]
    BY DEF IInv, LinksTypeOK
  <2>2. timer' \in [Link -> {"None", "Active", "Inactive"}]
    BY <1>1, <2>1 DEF StartTimer
  <2>3. Append(pending[l], TRUE) \in Seq(BOOLEAN) /\ <<>> \in Seq(BOOLEAN)
    BY <1>1, <2>1
  <2>4. \/ pending' = pending
        \/ pending' = [pending EXCEPT ![l] = Append(pending[l], TRUE)]
        \/ pending' = [pending EXCEPT ![l] = <<>>]
    BY DEF StartTimer, EmitActiveChanged
  <2>5. pending' \in [Link -> Seq(BOOLEAN)]
    BY <2>1, <2>3, <2>4
  <2> QED
    BY <2>2, <2>5 DEF ChannelTypeOK
<1> DEFINE f == LinkActiveChangedTo(l, TRUE)
<1>4. Call(<<>>) \/ Call(<<f>>)
  BY DEF StartTimer, EmitActiveChanged, Returns
<1>5. f \in Frame /\ Calm(f, autoDisconnect) /\ f.slot = "LinkActiveChanged"
  BY <1>1, FramesAre DEF Calm, LinkActiveChangedTo
<1>6. CASE Call(<<>>)
  BY <1>2, <1>3, <1>6, KeepsReturning
<1>7. CASE Call(<<f>>)
  <2> HIDE DEF f
  <2> QED
    BY <1>2, <1>3, <1>5, <1>7, KeepsCallingOne
<1> QED
  BY <1>4, <1>6, <1>7

LEMMA MessageReceivedKeeps ==
  ASSUME IInv, calls /= <<>>, NEW c \in Frame, Head(calls) = c, c.slot = "MessageReceived",
         MessageReceived(c.link, c.message)
  PROVE  IInv'
<1> DEFINE add == IF created /\ c.link \notin ToSet(links) THEN <<AddLinkTo(c.link)>> ELSE <<>>
           close == IF created /\ c.message = "Reboot"
                    THEN <<DisconnectFrom("DisconnectUsb", 1)>> ELSE <<>>
           next == add \o close
<1>1. c.link \in Link /\ c.link \in open
  <2>1. 1 \in DOMAIN calls /\ calls[1] = c
    BY DEF IInv, LinksTypeOK
  <2> QED
    BY <2>1, FrameFields DEF IInv, CallsOK
<1>2. /\ UNCHANGED <<open, created, links, connections, autoDisconnect>>
      /\ ChannelTypeOK' /\ ChoiceTypeOK' /\ FlagTypeOK' /\ Call(next)
  BY SameTypes DEF MessageReceived, channelVars, choiceVars, lifeVars, lossVars
<1>3. add \in Seq(Frame) /\ close \in Seq(Frame)
  BY <1>1, FramesAre
<1>4. /\ \/ add = <<>>
         \/ created /\ c.link \notin ToSet(links) /\ add = <<AddLinkTo(c.link)>>
      /\ close = <<>> \/ close = <<DisconnectFrom("DisconnectUsb", 1)>>
      /\ AddLinkTo(c.link).slot = "AddLink" /\ AddLinkTo(c.link).link = c.link
      /\ DisconnectFrom("DisconnectUsb", 1).slot = "DisconnectUsb"
  BY DEF AddLinkTo, DisconnectFrom
<1> HIDE DEF add, close
<1>5. \A i \in DOMAIN next :
        /\ next[i].slot /= "MessageReceived"
        /\ next[i].slot = "AddLink" =>
             i = 1 /\ created /\ next[i].link \in open /\ next[i].link \notin ToSet(links)
  BY <1>1, <1>3, <1>4
<1>6. next \in Seq(Frame) /\ ~Calm(c, autoDisconnect)
  BY <1>3 DEF Calm
<1> HIDE DEF next
<1> QED
  BY <1>2, <1>5, <1>6, KeepsInvariant

LEMMA TimerWithoutType ==
  ASSUME IInv, NEW l
  PROVE  TimerWithout(l) \in [Link -> {"None", "Active", "Inactive"}]
<1>1. timer \in [Link -> {"None", "Active", "Inactive"}]
  BY DEF IInv, LinksTypeOK
<1> QED
  BY <1>1 DEF TimerWithout

LEMMA SwitchToTypes ==
  ASSUME IInv, NEW l \in Link, NEW sendCommand \in BOOLEAN, SwitchTo(l, sendCommand),
         commanded' \in BOOLEAN, UNCHANGED pending
  PROVE  ChannelTypeOK' /\ ChoiceTypeOK'
<1>1. timer' \in [Link -> {"None", "Active", "Inactive"}]
  <2>1. timer' = TimerWithout(priorityLink) \/ timer' = timer
    BY DEF SwitchTo
  <2> QED
    BY <2>1, TimerWithoutType DEF IInv, LinksTypeOK
<1>2. ChannelTypeOK'
  BY <1>1 DEF ChannelTypeOK, IInv, LinksTypeOK
<1>3. priorityLink' \in Link \cup {NoLink} /\ highLatencyLink' \in BOOLEAN
  BY DEF SwitchTo, UpdateHighLatencyLink
<1>4. told' \in {"Nothing", "Start", "Stop"}
  BY DEF SwitchTo, UpdateHighLatencyLink, IInv, LinksTypeOK
<1> QED
  BY <1>2, <1>3, <1>4 DEF ChoiceTypeOK

LEMMA UpdatePriorityLinkKeeps ==
  ASSUME IInv, calls /= <<>>, NEW c \in Frame, Head(calls) = c, c.slot = "UpdatePriorityLink",
         UpdatePriorityLink(c.updateActive, c.sendCommand)
  PROVE  IInv'
<1>1. c.updateActive \in BOOLEAN /\ c.sendCommand \in BOOLEAN
  BY FrameFields
<1>2. /\ UNCHANGED <<open, pending, created, links, connections, autoDisconnect>>
      /\ FlagTypeOK' /\ commanded' \in BOOLEAN
  BY SameTypes DEF UpdatePriorityLink, lifeVars, lossVars
<1>3. CASE Returns /\ UNCHANGED <<timer, priorityLink, highLatencyLink, told>>
  <2>1. ChannelTypeOK' /\ ChoiceTypeOK'
    BY <1>2, <1>3 DEF ChannelTypeOK, ChoiceTypeOK, IInv, LinksTypeOK
  <2> QED
    BY <1>2, <1>3, <2>1, KeepsReturning DEF Returns
<1>4. CASE /\ links /= <<>> /\ SwitchTo(BestLink, c.sendCommand)
           /\ Call(IF c.updateActive
                   THEN <<LinkActiveChangedTo(BestLink, LinkActive(BestLink))>> ELSE <<>>)
  <2> DEFINE l == BestLink
             f == LinkActiveChangedTo(l, LinkActive(l))
  <2>1. l \in Link /\ LinkActive(l) \in BOOLEAN
    BY <1>4, BestIsBest DEF IInv, LinksTypeOK, ToSet, LinkActive
  <2>2. ChannelTypeOK' /\ ChoiceTypeOK'
    <3>1. SwitchTo(l, c.sendCommand)
      BY <1>4
    <3>2. l \in Link /\ c.sendCommand \in BOOLEAN /\ commanded' \in BOOLEAN /\ UNCHANGED pending
      BY <1>1, <1>2, <2>1
    <3> HIDE DEF l
    <3> QED
      BY <3>1, <3>2, SwitchToTypes
  <2>3. f \in Frame /\ f.slot = "LinkActiveChanged"
    <3>1. \A b \in BOOLEAN : LinkActiveChangedTo(l, b) \in Frame
      BY <2>1, FramesAre
    <3> QED
      BY <2>1, <3>1 DEF LinkActiveChangedTo
  <2>4. CASE Call(<<>>)
    BY <1>2, <2>2, <2>4, KeepsReturning
  <2>5. CASE c.updateActive /\ Call(<<f>>)
    <3>1. Calm(c, autoDisconnect) => Calm(f, autoDisconnect)
      BY <2>3, <2>5 DEF Calm
    <3> HIDE DEF f
    <3> QED
      BY <1>2, <2>2, <2>3, <2>5, <3>1, KeepsCallingOne
  <2> QED
    BY <1>4, <2>4, <2>5
<1> QED
  BY <1>3, <1>4 DEF UpdatePriorityLink

LEMMA LinkActiveChangedKeeps ==
  ASSUME IInv, calls /= <<>>, NEW c \in Frame, Head(calls) = c, c.slot = "LinkActiveChanged",
         LinkActiveChanged(c.link, c.active)
  PROVE  IInv'
<1> DEFINE quiet == UpdatePriorityLinkWith(FALSE, TRUE)
           lost == UpdatePriorityLinkWith(FALSE, FALSE)
           check == [slot |-> "CheckLoss", link |-> c.link]
<1>1. c.link \in Link /\ c.active \in BOOLEAN
  BY FrameFields
<1>2. /\ UNCHANGED <<open, created, links, connections, autoDisconnect>>
      /\ ChannelTypeOK' /\ ChoiceTypeOK'
  BY SameTypes DEF LinkActiveChanged, channelVars, choiceVars, lifeVars
<1>3. FlagTypeOK'
  BY DEF LinkActiveChanged, lifeVars, FlagTypeOK, IInv, LinksTypeOK
<1>4. /\ quiet \in Frame /\ lost \in Frame /\ check \in Frame
      /\ quiet.slot = "UpdatePriorityLink" /\ lost.slot = "UpdatePriorityLink"
      /\ check.slot = "CheckLoss"
      /\ quiet.updateActive = FALSE /\ lost.updateActive = FALSE
  BY <1>1 DEF Frame, UpdatePriorityLinkWith
<1>5. Calm(quiet, autoDisconnect)
  BY <1>4 DEF Calm
<1>6. c.active = FALSE /\ Calm(c, autoDisconnect)
        => Calm(lost, autoDisconnect) /\ Calm(check, autoDisconnect)
  BY <1>4 DEF Calm
<1>7. \/ Call(<<quiet>>)
      \/ c.active = FALSE /\ Call(<<lost, check>>)
      \/ Call(<<>>)
  BY <1>1 DEF LinkActiveChanged
<1> HIDE DEF quiet, lost, check
<1>8. CASE Call(<<quiet>>)
  BY <1>2, <1>3, <1>4, <1>5, <1>8, KeepsCallingOne
<1>9. CASE c.active = FALSE /\ Call(<<lost, check>>)
  BY <1>2, <1>3, <1>4, <1>6, <1>9, KeepsCallingTwo
<1>10. CASE Call(<<>>)
  BY <1>2, <1>3, <1>10, KeepsReturning
<1> QED
  BY <1>7, <1>8, <1>9, <1>10

LEMMA CheckLossKeeps ==
  ASSUME IInv, calls /= <<>>, NEW c \in Frame, Head(calls) = c, c.slot = "CheckLoss",
         CheckLoss(c.link)
  PROVE  IInv'
<1> DEFINE f == DisconnectFrom("DisconnectInactiveVehicle", 1)
<1>1. /\ UNCHANGED <<open, created, links, connections, autoDisconnect>>
      /\ ChannelTypeOK' /\ ChoiceTypeOK'
  BY SameTypes DEF CheckLoss, channelVars, choiceVars, lifeVars
<1>2. FlagTypeOK'
  BY DEF CheckLoss, lifeVars, FlagTypeOK, IInv, LinksTypeOK
<1>3. Call(<<>>) \/ (autoDisconnect = TRUE /\ Call(<<f>>))
  BY DEF CheckLoss, IInv, LinksTypeOK
<1>4. f \in Frame /\ f.slot = "DisconnectInactiveVehicle"
  BY FramesAre DEF DisconnectFrom
<1>5. autoDisconnect = TRUE => ~Calm(c, autoDisconnect)
  BY DEF Calm
<1> HIDE DEF f
<1>6. CASE Call(<<>>)
  BY <1>1, <1>2, <1>6, KeepsReturning
<1>7. CASE autoDisconnect = TRUE /\ Call(<<f>>)
  BY <1>1, <1>2, <1>4, <1>5, <1>7, KeepsCallingOne
<1> QED
  BY <1>3, <1>6, <1>7

LEMMA DisconnectEachKeeps ==
  ASSUME IInv, calls /= <<>>, NEW c \in Frame, Head(calls) = c,
         c.slot \in {"DisconnectInactiveVehicle", "DisconnectUsb"},
         NEW toClose, DisconnectEach(c.slot, c.index, toClose)
  PROVE  IInv'
<1> DEFINE i == c.index
           f == Disconnecting(links[i])
           g == DisconnectFrom(c.slot, i + 1)
<1>1. i \in Nat \ {0} /\ ~Calm(c, autoDisconnect)
  BY FrameFields DEF Calm
<1>2. /\ UNCHANGED <<open, created, links, connections, autoDisconnect>>
      /\ ChannelTypeOK' /\ ChoiceTypeOK' /\ FlagTypeOK'
  BY SameTypes DEF DisconnectEach, channelVars, choiceVars, lifeVars, lossVars
<1>3. g \in Frame /\ g.slot \in {"DisconnectInactiveVehicle", "DisconnectUsb"}
  BY <1>1 DEF Frame, DisconnectFrom
<1>4. ASSUME i <= Len(links)
      PROVE  f \in Frame /\ f.slot = "DisconnectLink"
  <2>1. links[i] \in Link
    BY <1>1, <1>4 DEF IInv, LinksTypeOK
  <2> QED
    BY <2>1, FramesAre DEF Disconnecting
<1>5. \/ Call(<<>>)
      \/ Call(<<g>>)
      \/ i <= Len(links) /\ Call(<<f, g>>)
  <2>1. Len(links) \in Nat
    BY DEF IInv, LinksTypeOK
  <2>2. CASE i > Len(links)
    BY <2>2 DEF DisconnectEach
  <2>3. CASE i <= Len(links)
    <3>1. <<>> \o <<g>> = <<g>> /\ <<f>> \o <<g>> = <<f, g>>
      BY Joined
    <3>2. ~(i > Len(links))
      BY <1>1, <2>1, <2>3
    <3>3. Call((IF links[i] \in toClose THEN <<f>> ELSE <<>>) \o <<g>>)
      BY <3>2 DEF DisconnectEach
    <3> HIDE DEF f, g
    <3> QED
      BY <2>3, <3>1, <3>3
  <2> QED
    BY <1>1, <2>1, <2>2, <2>3
<1> HIDE DEF f, g
<1>6. CASE Call(<<>>)
  BY <1>2, <1>6, KeepsReturning
<1>7. CASE Call(<<g>>)
  BY <1>1, <1>2, <1>3, <1>7, KeepsCallingOne
<1>8. CASE i <= Len(links) /\ Call(<<f, g>>)
  BY <1>1, <1>2, <1>3, <1>4, <1>8, KeepsCallingTwo
<1> QED
  BY <1>5, <1>6, <1>7, <1>8

LEMMA CheckGoneKeeps ==
  ASSUME IInv, calls /= <<>>, Head(calls).slot = "CheckGone", CheckGone
  PROVE  IInv'
<1>1. /\ UNCHANGED <<open, created, links, connections, autoDisconnect>>
      /\ ChannelTypeOK' /\ ChoiceTypeOK'
  BY SameTypes DEF CheckGone, channelVars, choiceVars, lossVars
<1>2. FlagTypeOK'
  BY DEF CheckGone, lossVars, FlagTypeOK, IInv, LinksTypeOK
<1> QED
  BY <1>1, <1>2, KeepsReturning DEF CheckGone, Returns
-----------------------------------------------------------------------------
(* The calls that add or close a link *)

LEMMA AddLinkKeeps ==
  ASSUME IInv, calls /= <<>>, NEW c \in Frame, Head(calls) = c, c.slot = "AddLink",
         AddLink(c.link)
  PROVE  IInv'
<1> DEFINE l == c.link
           f == UpdatePriorityLinkWith(TRUE, links /= <<>>)
           next == <<f>>
<1>1. l \in Link /\ created /\ l \in open /\ l \notin ToSet(links) /\ links \in Seq(Link)
  <2>1. 1 \in DOMAIN calls /\ calls[1] = c
    BY DEF IInv, LinksTypeOK
  <2> QED
    BY <2>1, FrameFields DEF IInv, CallsOK, LinksTypeOK
<1>2. /\ UNCHANGED <<open, created, autoDisconnect>> /\ ChannelTypeOK' /\ ChoiceTypeOK'
      /\ FlagTypeOK' /\ links' = Append(links, l) /\ connections' = connections + 1 /\ Call(next)
  BY SameTypes DEF AddLink, channelVars, choiceVars, lossVars
<1>3. f \in Frame /\ f.slot = "UpdatePriorityLink"
  <2>1. \A b \in BOOLEAN : UpdatePriorityLinkWith(TRUE, b) \in Frame
    BY FramesAre
  <2> QED
    BY <2>1 DEF UpdatePriorityLinkWith
<1>4. Calm(c, autoDisconnect) => Calm(f, autoDisconnect)
  BY <1>3 DEF Calm
<1> HIDE DEF f
<1>5. next \in Seq(Frame) /\ \A i \in DOMAIN next : next[i] = f
  BY <1>3
<1> HIDE DEF next
<1>6. CallsOK' /\ calls' \in Seq(Frame)
  BY <1>2, <1>3, <1>4, <1>5, CallKeepsCallsOK
<1>7. /\ links' \in Seq(Link) /\ ToSet(links') = ToSet(links) \cup {l}
      /\ \A i \in DOMAIN links' :
           \/ i \in DOMAIN links /\ links'[i] = links[i]
           \/ i = Len(links) + 1 /\ links'[i] = l
  <2>1. /\ links' \in Seq(Link) /\ DOMAIN links' = 1 .. Len(links) + 1
        /\ DOMAIN links = 1 .. Len(links) /\ links'[Len(links) + 1] = l
        /\ \A i \in DOMAIN links : links'[i] = links[i]
    BY <1>1, <1>2
  <2> QED
    BY <2>1 DEF ToSet
<1>8. IsInjective(links)'
  BY <1>1, <1>7 DEF IInv, IsInjective, ToSet
<1>9. LinksTypeOK'
  BY <1>2, <1>6, <1>7 DEF IInv, LinksTypeOK, ChannelTypeOK, ChoiceTypeOK, FlagTypeOK
<1>10. LinksAreOpen'
  BY <1>1, <1>2, <1>7 DEF IInv, LinksAreOpen
<1>11. NewIsQuiet' /\ LinksAreConnected'
  BY <1>1, <1>2 DEF IInv, LinksTypeOK, NewIsQuiet, LinksAreConnected
<1> QED
  BY <1>6, <1>8, <1>9, <1>10, <1>11 DEF IInv

LEMMA DisconnectLinkKeeps ==
  ASSUME IInv, calls /= <<>>, NEW c \in Frame, Head(calls) = c, c.slot = "DisconnectLink",
         DisconnectLink(c.link)
  PROVE  IInv'
<1> DEFINE l == c.link
           f == [slot |-> "LinkDeleted", link |-> l]
           next == IF l \in open THEN [i \in 1 .. connections |-> f] ELSE <<>>
<1>1. l \in Link /\ connections \in Nat /\ ~Calm(c, autoDisconnect)
      /\ f \in Frame /\ f.slot = "LinkDeleted" /\ f.link = l
  BY FrameFields, FramesAre DEF IInv, LinksTypeOK, Calm
<1>2. /\ UNCHANGED <<created, links, connections, autoDisconnect>> /\ open' = open \ {l}
      /\ ChoiceTypeOK' /\ FlagTypeOK' /\ Call(next)
  BY SameTypes DEF DisconnectLink, choiceVars, lifeVars, lossVars, Returns
<1>3. ChannelTypeOK'
  <2>1. timer' \in [Link -> {"None", "Active", "Inactive"}]
    <3>1. timer' = TimerWithout(l) \/ timer' = timer
      BY DEF DisconnectLink
    <3> QED
      BY <3>1, TimerWithoutType DEF IInv, LinksTypeOK
  <2>2. pending \in [Link -> Seq(BOOLEAN)] /\ pending[l] \in Seq(BOOLEAN)
    BY <1>1 DEF IInv, LinksTypeOK
  <2>3. \A n \in 0 .. Len(pending[l]) : SubSeq(pending[l], 1, n) \in Seq(BOOLEAN)
    BY <2>2
  <2>4. \/ pending' = pending
        \/ \E n \in 0 .. Len(pending[l]) :
             pending' = [pending EXCEPT ![l] = SubSeq(pending[l], 1, n)]
    BY DEF DisconnectLink
  <2>5. pending' \in [Link -> Seq(BOOLEAN)]
    BY <2>2, <2>3, <2>4
  <2> QED
    BY <2>1, <2>5 DEF ChannelTypeOK
<1> HIDE DEF f
<1>4. /\ next \in Seq(Frame) /\ \A i \in DOMAIN next : next[i] = f
      /\ l \in open /\ connections >= 1 => next /= <<>> /\ next[1] = f
      /\ l \notin open => next = <<>>
  BY <1>1
<1> HIDE DEF next
<1>5. CallsOK' /\ calls' \in Seq(Frame)
  BY <1>1, <1>2, <1>4, CallKeepsCallsOK
<1>6. LinksTypeOK'
  BY <1>2, <1>3, <1>5 DEF IInv, LinksTypeOK, ChannelTypeOK, ChoiceTypeOK, FlagTypeOK
<1>7. LinksAreOpen'
  <2> SUFFICES ASSUME NEW k \in ToSet(links)
               PROVE  \/ k \in open'
                      \/ calls' /= <<>> /\ Head(calls').slot = "LinkDeleted" /\ Head(calls').link = k
    BY <1>2 DEF LinksAreOpen
  <2>1. k \in open
    BY DEF IInv, LinksAreOpen
  <2>2. connections >= 1
    BY DEF IInv, LinksAreConnected, ToSet
  <2>3. k = l => calls' /= <<>> /\ Head(calls') = f
    <3>1. k = l => next /= <<>> /\ next[1] = f
      BY <1>4, <2>1, <2>2
    <3> QED
      BY <1>2, <1>4, <3>1, CalledFirst DEF Call, IInv, LinksTypeOK
  <2> QED
    BY <1>1, <1>2, <2>1, <2>3
<1>8. IsInjective(links)' /\ NewIsQuiet' /\ LinksAreConnected'
  BY <1>2 DEF IInv, IsInjective, NewIsQuiet, LinksAreConnected
<1> QED
  BY <1>5, <1>6, <1>7, <1>8 DEF IInv

\* What is removed from a list without repetitions is no longer in it.
LEMMA Removed ==
  ASSUME NEW S, NEW s \in Seq(S), IsInjective(s), NEW i \in DOMAIN s, NEW t, t = RemoveAt(s, i)
  PROVE  t \in Seq(S) /\ IsInjective(t) /\ ToSet(t) \subseteq ToSet(s) \ {s[i]}
<1>1. /\ t \in Seq(S) /\ DOMAIN t = 1 .. Len(s) - 1 /\ DOMAIN s = 1 .. Len(s)
      /\ \A k \in DOMAIN t : t[k] = IF k < i THEN s[k] ELSE s[k + 1]
  BY DEF RemoveAt
<1> DEFINE at(k) == IF k < i THEN k ELSE k + 1
<1>2. \A k \in DOMAIN t : at(k) \in DOMAIN s /\ at(k) /= i /\ t[k] = s[at(k)]
  BY <1>1
<1>3. \A k, m \in DOMAIN t : at(k) = at(m) => k = m
  BY <1>1
<1> HIDE DEF at
<1>4. IsInjective(t)
  BY <1>2, <1>3 DEF IsInjective
<1>5. \A k \in DOMAIN t : t[k] \in ToSet(s) /\ t[k] /= s[i]
  BY <1>2 DEF ToSet, IsInjective
<1> QED
  BY <1>1, <1>4, <1>5 DEF ToSet

LEMMA LinksWithoutIt ==
  ASSUME IInv, NEW l
  PROVE  /\ LinksWithout(l) \in Seq(Link) /\ IsInjective(LinksWithout(l))
         /\ ToSet(LinksWithout(l)) \subseteq ToSet(links) \ {l}
<1>1. links \in Seq(Link) /\ IsInjective(links)
  BY DEF IInv, LinksTypeOK
<1>2. CASE l \in ToSet(links)
  <2> DEFINE i == CHOOSE i \in DOMAIN links : links[i] = l
  <2>1. i \in DOMAIN links /\ links[i] = l
    BY <1>2 DEF ToSet
  <2>2. LinksWithout(l) = RemoveAt(links, i)
    BY <1>2 DEF LinksWithout
  <2> HIDE DEF i
  <2> QED
    BY <1>1, <2>1, <2>2, Removed
<1>3. CASE l \notin ToSet(links)
  BY <1>1, <1>3 DEF LinksWithout
<1> QED
  BY <1>2, <1>3

LEMMA LinkDeletedKeeps ==
  ASSUME IInv, calls /= <<>>, NEW c \in Frame, Head(calls) = c, c.slot = "LinkDeleted",
         LinkDeleted(c.link)
  PROVE  IInv'
<1> DEFINE l == c.link
           f == UpdatePriorityLinkWith(TRUE, TRUE)
           g == [slot |-> "CheckGone"]
           next == <<f, g>>
<1>1. ~Calm(c, autoDisconnect)
  BY DEF Calm
<1>2. /\ UNCHANGED <<open, created, connections, autoDisconnect>> /\ links' = LinksWithout(l)
      /\ ChannelTypeOK' /\ ChoiceTypeOK' /\ FlagTypeOK' /\ Call(next)
  BY SameTypes DEF LinkDeleted, channelVars, choiceVars, lossVars
<1>3. f \in Frame /\ g \in Frame /\ f.slot = "UpdatePriorityLink" /\ g.slot = "CheckGone"
  BY DEF Frame, UpdatePriorityLinkWith
<1> HIDE DEF f, g
<1>4. next \in Seq(Frame) /\ \A i \in DOMAIN next : next[i] = f \/ next[i] = g
  BY <1>3
<1> HIDE DEF next
<1>5. CallsOK' /\ calls' \in Seq(Frame)
  BY <1>1, <1>2, <1>3, <1>4, CallKeepsCallsOK
<1>6. links' \in Seq(Link) /\ IsInjective(links') /\ ToSet(links') \subseteq ToSet(links) \ {l}
  BY <1>2, LinksWithoutIt
<1>7. LinksTypeOK'
  BY <1>2, <1>5, <1>6 DEF IInv, LinksTypeOK, ChannelTypeOK, ChoiceTypeOK, FlagTypeOK
<1>8. LinksAreOpen'
  BY <1>2, <1>6 DEF IInv, LinksAreOpen
<1>9. links = <<>> => links' = <<>>
  BY <1>2 DEF LinksWithout, ToSet
<1>10. NewIsQuiet' /\ LinksAreConnected'
  BY <1>2, <1>9 DEF IInv, NewIsQuiet, LinksAreConnected
<1> QED
  BY <1>5, <1>6, <1>7, <1>8, <1>10 DEF IInv
-----------------------------------------------------------------------------
(* What begins when nothing is under way *)

LEMMA Begins ==
  ASSUME IInv, calls = <<>>, UNCHANGED <<links, connections>>, open \subseteq open',
         open' \subseteq Link, NewIsQuiet', CallsOK', calls' \in Seq(Frame),
         ChannelTypeOK', ChoiceTypeOK', FlagTypeOK'
  PROVE  IInv'
<1>1. LinksTypeOK'
  BY DEF IInv, LinksTypeOK, ChannelTypeOK, ChoiceTypeOK, FlagTypeOK
<1>2. IsInjective(links)' /\ LinksAreConnected'
  BY DEF IInv, IsInjective, LinksAreConnected
<1>3. LinksAreOpen'
  BY DEF IInv, LinksAreOpen
<1> QED
  BY <1>1, <1>2, <1>3 DEF IInv

LEMMA BeginsWithOne ==
  ASSUME IInv, calls = <<>>, UNCHANGED <<links, connections>>, open \subseteq open',
         open' \subseteq Link, NewIsQuiet', ChannelTypeOK', ChoiceTypeOK', FlagTypeOK',
         \/ calls' = <<>>
         \/ \E f \in Frame : f.slot \notin {"AddLink", "MessageReceived"} /\ calls' = <<f>>
  PROVE  IInv'
<1>1. calls' \in Seq(Frame) /\ \A j \in DOMAIN calls' :
        calls'[j].slot \notin {"AddLink", "MessageReceived"}
  <2>1. CASE calls' = <<>>
    BY <2>1
  <2>2. ASSUME NEW f \in Frame, f.slot \notin {"AddLink", "MessageReceived"}, calls' = <<f>>
        PROVE  <1>1!1 /\ <1>1!2
    BY <2>2
  <2> QED
    BY <2>1, <2>2
<1>2. CallsOK'
  BY <1>1 DEF CallsOK
<1> QED
  BY <1>1, <1>2, Begins

LEMMA JoinedThree == ASSUME NEW f, NEW g, NEW h PROVE <<f>> \o <<g, h>> = <<f, g, h>>
<1> DEFINE S == {f, g, h}
           u == <<f>> \o <<g, h>>
           v == <<f, g, h>>
<1>1. <<f>> \in Seq(S) /\ <<g, h>> \in Seq(S)
  OBVIOUS
<1>2. v \in Seq(S) /\ Len(v) = 3 /\ v[1] = f /\ v[2] = g /\ v[3] = h
  OBVIOUS
<1> HIDE DEF S, v
<1>3. u \in Seq(S) /\ Len(u) = 3 /\ u[1] = f /\ u[2] = g /\ u[3] = h
  BY <1>1
<1> HIDE DEF u
<1>4. u \in [1 .. 3 -> S] /\ v \in [1 .. 3 -> S]
  <2>1. \A s \in Seq(S) : Len(s) = 3 => s \in [1 .. 3 -> S]
    OBVIOUS
  <2> QED
    BY <1>2, <1>3, <2>1
<1>5. \A i \in 1 .. 3 : u[i] = v[i]
  BY <1>2, <1>3
<1>6. u = v
  BY <1>4, <1>5
<1> QED
  BY <1>6 DEF u, v

\* What a message of a vehicle calls
CallsOfMessage(l) ==
  \E a, t, m \in Frame :
    /\ a.slot = "AddLink" /\ a.link = l /\ t.slot = "StartTimer" /\ t.link = l
    /\ m.slot = "MessageReceived" /\ m.link = l
    /\ \/ calls' = <<t, m>>
       \/ created = FALSE /\ created' = TRUE /\ calls' = <<a, t, m>>

LEMMA ReceivedCalls ==
  ASSUME IInv, NEW l \in Link, NEW message \in {"Heartbeat", "Reboot", "Other"},
         BytesReceived(l, message)
  PROVE  CallsOfMessage(l)
<1>0. PICK a, t, m : /\ a = AddLinkTo(l) /\ t = [slot |-> "StartTimer", link |-> l]
                     /\ m = [slot |-> "MessageReceived", link |-> l, message |-> message]
  OBVIOUS
<1>1. /\ a \in Frame /\ t \in Frame /\ m \in Frame
      /\ a.slot = "AddLink" /\ a.link = l /\ t.slot = "StartTimer" /\ t.link = l
      /\ m.slot = "MessageReceived" /\ m.link = l
  BY <1>0 DEF Frame, AddLinkTo
<1>2. created \in BOOLEAN /\ created' \in BOOLEAN
  BY DEF BytesReceived, IInv, LinksTypeOK
<1>3. \/ calls' = <<t, m>>
      \/ created = FALSE /\ created' = TRUE /\ calls' = <<a, t, m>>
  <2>1. CASE ~created /\ created'
    <3>1. calls' = <<a>> \o <<t, m>>
      BY <1>0, <2>1 DEF BytesReceived
    <3>2. <<a>> \o <<t, m>> = <<a, t, m>>
      BY JoinedThree
    <3> QED
      BY <2>1, <3>1, <3>2, <1>2
  <2>2. CASE ~(~created /\ created')
    <3>1. calls' = <<>> \o <<t, m>>
      BY <1>0, <2>2 DEF BytesReceived
    <3>2. <<t, m>> \in Seq(Frame)
      BY <1>1
    <3> QED
      BY <3>1, <3>2
  <2> QED
    BY <2>1, <2>2
<1> QED
  BY <1>1, <1>3 DEF CallsOfMessage

LEMMA BytesReceivedKeeps ==
  ASSUME IInv, NEW l \in Link, NEW message \in {"Heartbeat", "Reboot", "Other"},
         BytesReceived(l, message)
  PROVE  IInv'
<1>1. PICK a, t, m \in Frame :
        /\ a.slot = "AddLink" /\ a.link = l /\ t.slot = "StartTimer"
        /\ m.slot = "MessageReceived" /\ m.link = l
        /\ calls' = <<t, m>> \/ (created = FALSE /\ created' = TRUE /\ calls' = <<a, t, m>>)
  <2>1. CallsOfMessage(l)
    BY ReceivedCalls
  <2> QED
    BY <2>1 DEF CallsOfMessage
<1>2. /\ calls = <<>> /\ l \in open /\ open \subseteq Link
      /\ UNCHANGED <<open, links, connections, autoDisconnect>>
      /\ ChannelTypeOK' /\ ChoiceTypeOK'
  BY SameTypes DEF BytesReceived, Idle, channelVars, choiceVars, lossVars, IInv, LinksTypeOK
<1>3. FlagTypeOK' /\ NewIsQuiet'
  BY DEF BytesReceived, lossVars, FlagTypeOK, NewIsQuiet, IInv, LinksTypeOK
<1>5. Calm(t, autoDisconnect) /\ (created = FALSE => autoDisconnect = FALSE /\ links = <<>>)
  BY <1>1 DEF Calm, NewIsQuiet, IInv
<1>6. CASE calls' = <<t, m>>
  <2>1. calls' \in Seq(Frame) /\ DOMAIN calls' = 1 .. 2 /\ calls'[1] = t /\ calls'[2] = m
    BY <1>1, <1>6
  <2>2. CallsOK'
    BY <1>1, <1>2, <1>5, <2>1 DEF CallsOK
  <2> QED
    BY <1>2, <1>3, <2>1, <2>2, Begins
<1>7. CASE created = FALSE /\ created' = TRUE /\ calls' = <<a, t, m>>
  <2>1. /\ calls' \in Seq(Frame) /\ DOMAIN calls' = 1 .. 3
        /\ calls'[1] = a /\ calls'[2] = t /\ calls'[3] = m
    BY <1>1, <1>7
  <2>2. Calm(a, autoDisconnect) /\ l \notin ToSet(links')
    BY <1>1, <1>2, <1>5, <1>7 DEF Calm, ToSet
  <2>3. CallsOK'
    BY <1>1, <1>2, <1>5, <1>7, <2>1, <2>2 DEF CallsOK
  <2> QED
    BY <1>2, <1>3, <2>1, <2>3, Begins
<1> QED
  BY <1>1, <1>6, <1>7

LEMMA TimerTimeoutKeeps ==
  ASSUME IInv, NEW l \in Link, TimerTimeout(l)
  PROVE  IInv'
<1>1. /\ calls = <<>> /\ UNCHANGED <<open, created, links, connections, autoDisconnect>>
      /\ open \subseteq Link /\ ChoiceTypeOK' /\ FlagTypeOK' /\ NewIsQuiet'
  BY SameTypes DEF TimerTimeout, Idle, choiceVars, lifeVars, lossVars, IInv, LinksTypeOK, NewIsQuiet
<1>2. ChannelTypeOK'
  <2>1. timer' \in [Link -> {"None", "Active", "Inactive"}]
    BY DEF TimerTimeout, IInv, LinksTypeOK
  <2>2. pending \in [Link -> Seq(BOOLEAN)] /\ Append(pending[l], FALSE) \in Seq(BOOLEAN)
    BY DEF IInv, LinksTypeOK
  <2>3. pending' = pending \/ pending' = [pending EXCEPT ![l] = Append(pending[l], FALSE)]
    BY DEF TimerTimeout
  <2>4. pending' \in [Link -> Seq(BOOLEAN)]
    BY <2>2, <2>3
  <2> QED
    BY <2>1, <2>4 DEF ChannelTypeOK
<1> DEFINE f == LinkActiveChangedTo(l, FALSE)
<1>3. f \in Frame /\ f.slot = "LinkActiveChanged"
  BY DEF Frame, LinkActiveChangedTo
<1>4. calls' = <<>> \/ calls' = <<f>>
  BY <1>1 DEF TimerTimeout
<1> HIDE DEF f
<1> QED
  BY <1>1, <1>2, <1>3, <1>4, BeginsWithOne

LEMMA SignalArrivesKeeps ==
  ASSUME IInv, NEW l \in Link, SignalArrives(l)
  PROVE  IInv'
<1>1. /\ calls = <<>>
      /\ UNCHANGED <<open, timer, created, links, connections, autoDisconnect>>
      /\ open \subseteq Link /\ ChoiceTypeOK' /\ FlagTypeOK' /\ NewIsQuiet'
  BY SameTypes DEF SignalArrives, Idle, choiceVars, lifeVars, lossVars, IInv, LinksTypeOK, NewIsQuiet
<1>2. pending \in [Link -> Seq(BOOLEAN)] /\ pending[l] \in Seq(BOOLEAN) /\ pending[l] /= <<>>
  BY DEF SignalArrives, IInv, LinksTypeOK
<1>3. Head(pending[l]) \in BOOLEAN /\ Tail(pending[l]) \in Seq(BOOLEAN)
  BY <1>2
<1>4. ChannelTypeOK'
  BY <1>1, <1>2, <1>3 DEF SignalArrives, ChannelTypeOK, IInv, LinksTypeOK
<1> DEFINE f == LinkActiveChangedTo(l, Head(pending[l]))
<1>5. f \in Frame /\ f.slot = "LinkActiveChanged"
  <2>1. \A b \in BOOLEAN : LinkActiveChangedTo(l, b) \in Frame
    BY FramesAre
  <2> QED
    BY <1>3, <2>1 DEF LinkActiveChangedTo
<1>6. calls' = <<>> \/ calls' = <<f>>
  BY DEF SignalArrives
<1> HIDE DEF f
<1> QED
  BY <1>1, <1>4, <1>5, <1>6, BeginsWithOne

LEMMA UserActionKeeps ==
  ASSUME IInv,
         \/ \E l \in Link : UserDisconnects(l)
         \/ DisconnectInactiveVehicle
  PROVE  IInv'
<1>1. /\ calls = <<>> /\ UNCHANGED <<open, created, links, connections, autoDisconnect>>
      /\ open \subseteq Link /\ ChannelTypeOK' /\ ChoiceTypeOK' /\ FlagTypeOK' /\ NewIsQuiet'
  BY SameTypes DEF UserDisconnects, DisconnectInactiveVehicle, Idle, channelVars, choiceVars,
                   lifeVars, lossVars, IInv, LinksTypeOK, NewIsQuiet
<1>2. \E f \in Frame : f.slot \notin {"AddLink", "MessageReceived"} /\ calls' = <<f>>
  <2>1. ASSUME NEW l \in Link, UserDisconnects(l)
        PROVE  \E f \in Frame : f.slot \notin {"AddLink", "MessageReceived"} /\ calls' = <<f>>
    <3>1. Disconnecting(l) \in Frame /\ Disconnecting(l).slot = "DisconnectLink"
      BY FramesAre DEF Disconnecting
    <3> QED
      BY <2>1, <3>1 DEF UserDisconnects
  <2>2. CASE DisconnectInactiveVehicle
    <3> DEFINE f == DisconnectFrom("DisconnectInactiveVehicle", 1)
    <3>1. f \in Frame /\ f.slot = "DisconnectInactiveVehicle"
      BY FramesAre DEF DisconnectFrom
    <3> QED
      BY <2>2, <3>1 DEF DisconnectInactiveVehicle
  <2> QED
    BY <2>1, <2>2
<1> QED
  BY <1>1, <1>2, BeginsWithOne

LEMMA SetPriorityLinkByNameKeeps ==
  ASSUME IInv, NEW l \in Link, SetPriorityLinkByName(l)
  PROVE  IInv'
<1>1. /\ calls = <<>> /\ UNCHANGED <<open, pending, created, links, connections, autoDisconnect>>
      /\ open \subseteq Link /\ FlagTypeOK' /\ NewIsQuiet'
  BY SameTypes DEF SetPriorityLinkByName, Idle, lifeVars, lossVars, IInv, LinksTypeOK, NewIsQuiet
<1>2. SwitchTo(l, TRUE) /\ commanded' \in BOOLEAN
  BY DEF SetPriorityLinkByName
<1>3. \A send \in BOOLEAN : SwitchTo(l, send) => ChannelTypeOK' /\ ChoiceTypeOK'
  BY <1>1, <1>2, SwitchToTypes
<1>4. ChannelTypeOK' /\ ChoiceTypeOK'
  BY <1>2, <1>3
<1> DEFINE f == LinkActiveChangedTo(l, LinkActive(l))
<1>5. f \in Frame /\ f.slot = "LinkActiveChanged"
  <2>1. \A b \in BOOLEAN : LinkActiveChangedTo(l, b) \in Frame
    BY FramesAre
  <2> QED
    BY <2>1 DEF LinkActiveChangedTo, LinkActive
<1>6. calls' = <<f>>
  BY DEF SetPriorityLinkByName
<1> HIDE DEF f
<1> QED
  BY <1>1, <1>4, <1>5, <1>6, BeginsWithOne

LEMMA RestKeeps ==
  ASSUME IInv, LinkAssumption,
         \/ \E l \in Link : LinkOpens(l)
         \/ RebootVehicle
         \/ VehicleDeleted
  PROVE  IInv'
<1>1. ASSUME NEW l \in Link, LinkOpens(l)
      PROVE  IInv'
  <2>1. /\ calls = <<>> /\ calls' = <<>> /\ UNCHANGED <<created, links, connections, autoDisconnect>>
        /\ ChannelTypeOK' /\ ChoiceTypeOK' /\ FlagTypeOK' /\ NewIsQuiet'
        /\ open \subseteq open' /\ open' \subseteq Link
    BY <1>1, SameTypes DEF LinkOpens, Idle, choiceVars, lifeVars, lossVars, IInv, LinksTypeOK,
                           NewIsQuiet
  <2> QED
    BY <2>1, BeginsWithOne
<1>2. CASE RebootVehicle
  <2>1. /\ calls = <<>> /\ calls' = <<>> /\ UNCHANGED <<open, links, connections>>
        /\ open \subseteq Link /\ ChannelTypeOK' /\ ChoiceTypeOK'
    BY <1>2, SameTypes DEF RebootVehicle, Idle, channelVars, choiceVars, lifeVars, IInv, LinksTypeOK
  <2>2. FlagTypeOK' /\ NewIsQuiet'
    BY <1>2 DEF RebootVehicle, lifeVars, FlagTypeOK, NewIsQuiet, IInv, LinksTypeOK
  <2> QED
    BY <2>1, <2>2, BeginsWithOne
<1>3. CASE VehicleDeleted
  <2>1. /\ links' = <<>> /\ connections' = 0 /\ calls' = <<>> /\ UNCHANGED <<open, pending>>
        /\ ChoiceTypeOK' /\ FlagTypeOK' /\ autoDisconnect' = FALSE
    BY <1>3 DEF VehicleDeleted, Settled, Idle, ChoiceTypeOK, FlagTypeOK
  <2>2. timer' \in [Link -> {"None", "Active", "Inactive"}]
    <3>1. timer' = TimerWithout(priorityLink) \/ timer' = timer
      BY <1>3 DEF VehicleDeleted
    <3> QED
      BY <3>1, TimerWithoutType DEF IInv, LinksTypeOK
  <2>3. /\ DOMAIN <<>> = {} /\ <<>> \in Seq(Link) /\ <<>> \in Seq(Frame)
    OBVIOUS
  <2>4. LinksTypeOK'
    BY <2>1, <2>2, <2>3 DEF IInv, LinksTypeOK, ChoiceTypeOK, FlagTypeOK
  <2>5. IsInjective(links)' /\ CallsOK' /\ LinksAreOpen' /\ NewIsQuiet' /\ LinksAreConnected'
    BY <2>1, <2>3 DEF IsInjective, CallsOK, LinksAreOpen, NewIsQuiet, LinksAreConnected, ToSet
  <2> QED
    BY <2>4, <2>5 DEF IInv
<1> QED
  BY <1>1, <1>2, <1>3
-----------------------------------------------------------------------------
(* The invariant, and what follows from it *)

LEMMA HandleKeeps ==
  ASSUME IInv, calls /= <<>>, Handle(Head(calls))
  PROVE  IInv'
<1> DEFINE c == Head(calls)
<1>1. c \in Frame
  BY HeadIsFrame
<1> QED
  BY <1>1, AddLinkKeeps, StartTimerKeeps, MessageReceivedKeeps, UpdatePriorityLinkKeeps,
     LinkActiveChangedKeeps, CheckLossKeeps, DisconnectEachKeeps, DisconnectLinkKeeps,
     LinkDeletedKeeps, CheckGoneKeeps DEF Handle

LEMMA IInvInit == LinksInit => IInv
<1> SUFFICES ASSUME LinksInit PROVE IInv
  OBVIOUS
<1>1. <<>> \in Seq(Link) /\ <<>> \in Seq(BOOLEAN) /\ <<>> \in Seq(Frame) /\ DOMAIN <<>> = {}
  OBVIOUS
<1>2. LinksTypeOK
  BY <1>1 DEF LinksInit, LinksTypeOK
<1> QED
  BY <1>1, <1>2 DEF LinksInit, IInv, IsInjective, CallsOK, LinksAreOpen, NewIsQuiet,
                    LinksAreConnected, ToSet

LEMMA IInvStep == IInv /\ [LinksNext]_linkVars => IInv'
<1> SUFFICES ASSUME IInv, [LinksNext]_linkVars PROVE IInv'
  OBVIOUS
<1>1. CASE ~Idle /\ Handle(Head(calls))
  BY <1>1, HandleKeeps DEF Idle
<1>2. ASSUME NEW l \in Link, LinkOpens(l) PROVE IInv'
  BY <1>2, LinkAssumption, RestKeeps
<1>3. ASSUME NEW l \in Link, NEW message \in {"Heartbeat", "Reboot", "Other"},
             BytesReceived(l, message)
      PROVE  IInv'
  BY <1>3, BytesReceivedKeeps
<1>4. ASSUME NEW l \in Link, TimerTimeout(l) PROVE IInv'
  BY <1>4, TimerTimeoutKeeps
<1>5. ASSUME NEW l \in Link, SignalArrives(l) PROVE IInv'
  BY <1>5, SignalArrivesKeeps
<1>6. ASSUME NEW l \in Link, UserDisconnects(l) PROVE IInv'
  BY <1>6, UserActionKeeps
<1>7. ASSUME NEW l \in Link, SetPriorityLinkByName(l) PROVE IInv'
  BY <1>7, SetPriorityLinkByNameKeeps
<1>8. CASE DisconnectInactiveVehicle
  BY <1>8, UserActionKeeps
<1>9. CASE RebootVehicle \/ VehicleDeleted
  BY <1>9, LinkAssumption, RestKeeps
<1>10. CASE UNCHANGED linkVars
  BY <1>10 DEF linkVars, channelVars, choiceVars, lifeVars, lossVars, IInv, LinksTypeOK,
               IsInjective, CallsOK, LinksAreOpen, NewIsQuiet, LinksAreConnected
<1> QED
  BY <1>1, <1>2, <1>3, <1>4, <1>5, <1>6, <1>7, <1>8, <1>9, <1>10 DEF LinksNext

\* IInv is an invariant.
THEOREM Invariance == LinksSpec => []IInv
<1> QED
  BY IInvInit, IInvStep, PTL DEF LinksSpec

\* The variables of the links of a vehicle keep their types.
THEOREM TypeCorrect == LinksSpec => []LinksTypeOK
<1>1. IInv => LinksTypeOK
  BY DEF IInv
<1> QED
  BY Invariance, <1>1, PTL

\* A vehicle never chooses among its links, closes some of them, or waits for the next
\* event, with a closed link among them.
THEOREM NoClosedLinks == LinksSpec => []NoClosedLink
<1>1. IInv => NoClosedLink
  BY DEF IInv, LinksAreOpen, NoClosedLink
<1> QED
  BY Invariance, <1>1, PTL
-----------------------------------------------------------------------------
(* The best link is chosen *)

\* What is called next chooses a link, or starts what does.
Choosing ==
  /\ calls /= <<>>
  /\ \/ Head(calls).slot \in {"AddLink", "UpdatePriorityLink", "LinkDeleted"}
     \/ /\ Head(calls).slot = "LinkActiveChanged"
        /\ \/ Head(calls).link /= priorityLink
           \/ Head(calls).active = FALSE /\ connectionLost = FALSE

\* The last of the signals of a link that are on their way tells what it is.
LastIsTrue ==
  /\ \A l \in open : pending[l] /= <<>> => (pending[l][Len(pending[l])] = TRUE <=> LinkActive(l))
  /\ \A l \in Link \ Threaded : pending[l] = <<>>

\* So does what the vehicle is told at once, unless signals are on their way.
ToldIsTrue ==
  \A j \in DOMAIN calls :
    calls[j].slot = "LinkActiveChanged" =>
      /\ j = 1
      /\ calls[j].link \in ToSet(links) =>
           \/ calls[j].active = TRUE <=> LinkActive(calls[j].link)
           \/ pending[calls[j].link] /= <<>>

\* What checks the loss is called right after the choice.
LossIsChecked ==
  \A j \in DOMAIN calls :
    calls[j].slot = "CheckLoss" =>
      /\ \/ j = 1
         \/ /\ j = 2 /\ calls[1].slot = "UpdatePriorityLink" /\ calls[1].updateActive = FALSE
            /\ calls[j].link = priorityLink
      /\ calls[j].link = priorityLink /\ calls[j].link \in ToSet(links) =>
           LinkActive(calls[j].link) = FALSE \/ pending[calls[j].link] /= <<>>

\* The priority link is as good as any link that is known to be heard, unless the vehicle
\* will hear of its loss.
IsGoodAs(l) ==
  /\ \/ LinkActive(priorityLink) \/ connectionLost = TRUE
     \/ pending[priorityLink] /= <<>> \/ pending[l] /= <<>>
  /\ priorityLink \in HighLatency /\ l \notin HighLatency => pending[l] /= <<>>
ChoiceIsGood ==
  links /= <<>> /\ commanded = FALSE /\ Choosing = FALSE =>
    /\ priorityLink \in ToSet(links)
    /\ \A l \in ToSet(links) : LinkActive(l) => IsGoodAs(l)

BestInv == LastIsTrue /\ ToldIsTrue /\ LossIsChecked /\ ChoiceIsGood
-----------------------------------------------------------------------------
LEMMA HeadFirst ==
  ASSUME IInv, calls /= <<>>
  PROVE  /\ calls \in Seq(Frame) /\ 1 \in DOMAIN calls /\ Head(calls) = calls[1]
         /\ DOMAIN calls = 1 .. Len(calls) /\ Len(calls) \in Nat
  BY DEF IInv, LinksTypeOK

\* What is left to call below a handler is neither of the links' signals nor, but for the
\* choice that comes before it, the check of the loss.
LEMMA Below ==
  ASSUME IInv, BestInv, calls /= <<>>, NEW next \in Seq(Frame), Call(next),
         NEW j \in DOMAIN calls', j \notin DOMAIN next
  PROVE  /\ calls'[j].slot /= "LinkActiveChanged"
         /\ calls'[j].slot = "CheckLoss" =>
              /\ j = Len(next) + 1 /\ calls'[j].link = priorityLink
              /\ Head(calls).slot = "UpdatePriorityLink" /\ Head(calls).updateActive = FALSE
              /\ priorityLink \in ToSet(links) =>
                   LinkActive(priorityLink) = FALSE \/ pending[priorityLink] /= <<>>
<1>1. /\ j \in Nat /\ Len(next) \in Nat /\ DOMAIN next = 1 .. Len(next)
      /\ j \in (Len(next) + 1) .. Len(calls')
      /\ j - Len(next) + 1 \in 2 .. Len(calls) /\ calls'[j] = calls[j - Len(next) + 1]
  <2>1. /\ calls' \in Seq(Frame) /\ Len(next) \in Nat /\ DOMAIN next = 1 .. Len(next)
        /\ \A i \in (Len(next) + 1) .. Len(calls') :
             i - Len(next) + 1 \in 2 .. Len(calls) /\ calls'[i] = calls[i - Len(next) + 1]
    BY HeadFirst, CalledFirst DEF Call
  <2>2. j \in Nat /\ j \in (Len(next) + 1) .. Len(calls')
    BY <2>1
  <2> QED
    BY <2>1, <2>2
<1>2. PICK k \in DOMAIN calls : k = j - Len(next) + 1 /\ k /= 1 /\ calls'[j] = calls[k]
  BY <1>1, HeadFirst
<1>3. calls[k].slot /= "LinkActiveChanged"
  BY <1>2 DEF BestInv, ToldIsTrue
<1>4. ASSUME calls[k].slot = "CheckLoss"
      PROVE  /\ k = 2 /\ calls[k].link = priorityLink
             /\ calls[1].slot = "UpdatePriorityLink" /\ calls[1].updateActive = FALSE
             /\ priorityLink \in ToSet(links) =>
                  LinkActive(priorityLink) = FALSE \/ pending[priorityLink] /= <<>>
  BY <1>2, <1>4 DEF BestInv, LossIsChecked
<1>5. k = 2 => j = Len(next) + 1
  BY <1>1, <1>2
<1> QED
  BY <1>2, <1>3, <1>4, <1>5, HeadFirst

\* A handler other than the choice that calls neither
LEMMA FramesKept ==
  ASSUME IInv, BestInv, calls /= <<>>, Head(calls).slot /= "UpdatePriorityLink",
         NEW next \in Seq(Frame), Call(next),
         \A i \in DOMAIN next : next[i].slot \notin {"LinkActiveChanged", "CheckLoss"}
  PROVE  ToldIsTrue' /\ LossIsChecked'
<1>1. \A i \in DOMAIN next : calls'[i] = next[i]
  BY HeadFirst, CalledFirst DEF Call
<1>2. \A j \in DOMAIN calls' : calls'[j].slot \notin {"LinkActiveChanged", "CheckLoss"}
  BY <1>1, Below
<1> QED
  BY <1>2 DEF ToldIsTrue, LossIsChecked

\* One that calls a signal of a link, which tells what the link is
LEMMA TellKept ==
  ASSUME IInv, BestInv, calls /= <<>>,
         NEW f \in Frame, Call(<<f>>), f.slot = "LinkActiveChanged",
         Head(calls).slot = "UpdatePriorityLink" => Head(calls).updateActive = TRUE,
         f.link \in ToSet(links') =>
           (f.active = TRUE <=> LinkActive(f.link)') \/ pending'[f.link] /= <<>>
  PROVE  ToldIsTrue' /\ LossIsChecked'
<1> DEFINE next == <<f>>
<1>0. next \in Seq(Frame) /\ DOMAIN next = {1} /\ next[1] = f /\ Call(next)
  OBVIOUS
<1> HIDE DEF next
<1>1. calls'[1] = f
  BY <1>0, HeadFirst, CalledFirst DEF Call
<1>2. \A j \in DOMAIN calls' : j = 1 \/ calls'[j].slot \notin {"LinkActiveChanged", "CheckLoss"}
  BY <1>0, Below
<1> QED
  BY <1>1, <1>2 DEF ToldIsTrue, LossIsChecked

\* What leaves the links, their signals and the choice alone
SameChoice == UNCHANGED <<timer, pending, links, priorityLink, commanded>>

LEMMA ChoiceKept ==
  ASSUME BestInv, Choosing = FALSE, SameChoice, connectionLost = TRUE => connectionLost' = TRUE
  PROVE  ChoiceIsGood'
  BY DEF BestInv, ChoiceIsGood, SameChoice, IsGoodAs, LinkActive

LEMMA LastKept ==
  ASSUME BestInv, UNCHANGED <<open, timer, pending>>
  PROVE  LastIsTrue'
  BY DEF BestInv, LastIsTrue, LinkActive
-----------------------------------------------------------------------------
(* The handlers keep BestInv *)

LEMMA AddLinkBest ==
  ASSUME IInv, BestInv, calls /= <<>>, NEW c \in Frame, Head(calls) = c, c.slot = "AddLink",
         AddLink(c.link)
  PROVE  BestInv'
<1> DEFINE f == UpdatePriorityLinkWith(TRUE, links /= <<>>)
           next == <<f>>
<1>1. UNCHANGED <<open, timer, pending>> /\ Call(next)
  BY DEF AddLink, channelVars
<1>2. f \in Frame /\ f.slot = "UpdatePriorityLink"
  <2>1. \A b \in BOOLEAN : UpdatePriorityLinkWith(TRUE, b) \in Frame
    BY FramesAre
  <2> QED
    BY <2>1 DEF UpdatePriorityLinkWith
<1> HIDE DEF f
<1>3. next \in Seq(Frame) /\ next /= <<>> /\ next[1] = f /\ \A i \in DOMAIN next : next[i] = f
  BY <1>2
<1> HIDE DEF next
<1>4. LastIsTrue'
  BY <1>1, LastKept
<1>5. ToldIsTrue' /\ LossIsChecked'
  BY <1>1, <1>2, <1>3, FramesKept
<1>6. calls' /= <<>> /\ Head(calls') = f
  BY <1>1, <1>3, HeadFirst, CalledFirst DEF Call
<1>7. ChoiceIsGood'
  BY <1>2, <1>6 DEF ChoiceIsGood, Choosing
<1> QED
  BY <1>4, <1>5, <1>7 DEF BestInv

LEMMA LinkDeletedBest ==
  ASSUME IInv, BestInv, calls /= <<>>, NEW c \in Frame, Head(calls) = c, c.slot = "LinkDeleted",
         LinkDeleted(c.link)
  PROVE  BestInv'
<1> DEFINE f == UpdatePriorityLinkWith(TRUE, TRUE)
           g == [slot |-> "CheckGone"]
           next == <<f, g>>
<1>1. UNCHANGED <<open, timer, pending>> /\ Call(next)
  BY DEF LinkDeleted, channelVars
<1>2. f \in Frame /\ f.slot = "UpdatePriorityLink" /\ g \in Frame /\ g.slot = "CheckGone"
  BY DEF Frame, UpdatePriorityLinkWith
<1> HIDE DEF f, g
<1>3. next \in Seq(Frame) /\ next /= <<>> /\ next[1] = f /\ \A i \in DOMAIN next : next[i] = f \/ next[i] = g
  BY <1>2
<1> HIDE DEF next
<1>4. LastIsTrue'
  BY <1>1, LastKept
<1>5. ToldIsTrue' /\ LossIsChecked'
  BY <1>1, <1>2, <1>3, FramesKept
<1>6. calls' /= <<>> /\ Head(calls') = f
  BY <1>1, <1>3, HeadFirst, CalledFirst DEF Call
<1>7. ChoiceIsGood'
  BY <1>2, <1>6 DEF ChoiceIsGood, Choosing
<1> QED
  BY <1>4, <1>5, <1>7 DEF BestInv

\* Handlers that change nothing of the links and call neither a signal nor a check
LEMMA OthersBest ==
  ASSUME IInv, BestInv, calls /= <<>>, NEW c \in Frame, Head(calls) = c,
         c.slot \in {"MessageReceived", "CheckLoss", "CheckGone", "DisconnectInactiveVehicle",
                     "DisconnectUsb"},
         UNCHANGED open, SameChoice, connectionLost = TRUE => connectionLost' = TRUE,
         NEW next \in Seq(Frame), Call(next),
         \A i \in DOMAIN next : next[i].slot \notin {"LinkActiveChanged", "CheckLoss"}
  PROVE  BestInv'
<1>1. LastIsTrue'
  BY LastKept DEF SameChoice
<1>2. ToldIsTrue' /\ LossIsChecked'
  BY FramesKept
<1>3. Choosing = FALSE
  BY DEF Choosing
<1> QED
  BY <1>1, <1>2, <1>3, ChoiceKept DEF BestInv

LEMMA MessageReceivedBest ==
  ASSUME IInv, BestInv, calls /= <<>>, NEW c \in Frame, Head(calls) = c, c.slot = "MessageReceived",
         MessageReceived(c.link, c.message)
  PROVE  BestInv'
<1> DEFINE add == IF created /\ c.link \notin ToSet(links) THEN <<AddLinkTo(c.link)>> ELSE <<>>
           close == IF created /\ c.message = "Reboot"
                    THEN <<DisconnectFrom("DisconnectUsb", 1)>> ELSE <<>>
           next == add \o close
<1>1. UNCHANGED open /\ SameChoice /\ UNCHANGED connectionLost /\ Call(next) /\ c.link \in Link
  BY FrameFields DEF MessageReceived, SameChoice, channelVars, choiceVars, lifeVars, lossVars
<1>2. add \in Seq(Frame) /\ close \in Seq(Frame)
  BY <1>1, FramesAre
<1>3. /\ add = <<>> \/ add = <<AddLinkTo(c.link)>>
      /\ close = <<>> \/ close = <<DisconnectFrom("DisconnectUsb", 1)>>
      /\ AddLinkTo(c.link).slot = "AddLink"
      /\ DisconnectFrom("DisconnectUsb", 1).slot = "DisconnectUsb"
  BY DEF AddLinkTo, DisconnectFrom
<1> HIDE DEF add, close
<1>4. next \in Seq(Frame) /\ \A i \in DOMAIN next : next[i].slot \in {"AddLink", "DisconnectUsb"}
  BY <1>2, <1>3
<1> HIDE DEF next
<1> QED
  BY <1>1, <1>4, OthersBest

LEMMA CheckLossBest ==
  ASSUME IInv, BestInv, calls /= <<>>, NEW c \in Frame, Head(calls) = c, c.slot = "CheckLoss",
         CheckLoss(c.link)
  PROVE  BestInv'
<1> DEFINE f == DisconnectFrom("DisconnectInactiveVehicle", 1)
           next == IF c.link = priorityLink /\ autoDisconnect THEN <<f>> ELSE <<>>
<1>1. UNCHANGED open /\ SameChoice /\ Call(next) /\ (connectionLost = TRUE => connectionLost' = TRUE)
  BY DEF CheckLoss, SameChoice, channelVars, choiceVars, lifeVars
<1>2. f \in Frame /\ f.slot = "DisconnectInactiveVehicle"
  BY FramesAre DEF DisconnectFrom
<1> HIDE DEF f
<1>3. next \in Seq(Frame) /\ \A i \in DOMAIN next : next[i] = f
  BY <1>2
<1> HIDE DEF next
<1> QED
  BY <1>1, <1>2, <1>3, OthersBest

LEMMA CheckGoneBest ==
  ASSUME IInv, BestInv, calls /= <<>>, NEW c \in Frame, Head(calls) = c, c.slot = "CheckGone",
         CheckGone
  PROVE  BestInv'
<1>1. UNCHANGED open /\ SameChoice /\ UNCHANGED connectionLost /\ Call(<<>>)
  BY DEF CheckGone, SameChoice, channelVars, choiceVars, lossVars, Returns
<1>2. <<>> \in Seq(Frame) /\ DOMAIN <<>> = {}
  OBVIOUS
<1> QED
  BY <1>1, <1>2, OthersBest

\* What the loops call
LEMMA DisconnectEachCalls ==
  ASSUME IInv, calls /= <<>>, NEW c \in Frame, Head(calls) = c,
         c.slot \in {"DisconnectInactiveVehicle", "DisconnectUsb"},
         NEW toClose, DisconnectEach(c.slot, c.index, toClose)
  PROVE  \E next \in Seq(Frame) :
           Call(next) /\ \A k \in DOMAIN next : next[k].slot \in {c.slot, "DisconnectLink"}
<1> DEFINE i == c.index
           f == Disconnecting(links[i])
           g == DisconnectFrom(c.slot, i + 1)
           next == IF i > Len(links) THEN <<>>
                   ELSE (IF links[i] \in toClose THEN <<f>> ELSE <<>>) \o <<g>>
<1>1. Call(next) /\ i \in Nat \ {0}
  BY FrameFields DEF DisconnectEach
<1>2. g \in Frame /\ g.slot = c.slot
  BY <1>1 DEF Frame, DisconnectFrom
<1>3. links \in Seq(Link) /\ Len(links) \in Nat
  BY DEF IInv, LinksTypeOK
<1>4. ~(i > Len(links)) => f \in Frame /\ f.slot = "DisconnectLink"
  <2> SUFFICES ASSUME ~(i > Len(links)) PROVE f \in Frame /\ f.slot = "DisconnectLink"
    OBVIOUS
  <2>1. links[i] \in Link
    BY <1>1, <1>3
  <2> QED
    BY <2>1, FramesAre DEF Disconnecting
<1> HIDE DEF f, g
<1>5. /\ <<>> \o <<g>> = <<g>> /\ <<f>> \o <<g>> = <<f, g>>
  BY Joined
<1>6. next \in Seq(Frame) /\ \A k \in DOMAIN next : next[k].slot \in {c.slot, "DisconnectLink"}
  <2>4. ASSUME ~(i > Len(links)) PROVE next = <<g>> \/ next = <<f, g>>
    <3>1. CASE links[i] \in toClose
      <4>1. next = <<f>> \o <<g>>
        BY <2>4, <3>1
      <4> QED
        BY <1>5, <4>1
    <3>2. CASE links[i] \notin toClose
      <4>1. next = <<>> \o <<g>>
        BY <2>4, <3>2
      <4> QED
        BY <1>5, <4>1
    <3> QED
      BY <3>1, <3>2
  <2>5. i > Len(links) => next = <<>>
    OBVIOUS
  <2> HIDE DEF next
  <2>1. CASE next = <<>>
    BY <2>1
  <2>2. CASE next = <<g>>
    BY <1>2, <2>2
  <2>3. CASE ~(i > Len(links)) /\ next = <<f, g>>
    BY <1>2, <1>4, <2>3
  <2> QED
    BY <1>1, <1>3, <2>1, <2>2, <2>3, <2>4, <2>5
<1> HIDE DEF next
<1> QED
  BY <1>1, <1>6

LEMMA DisconnectEachBest ==
  ASSUME IInv, BestInv, calls /= <<>>, NEW c \in Frame, Head(calls) = c,
         c.slot \in {"DisconnectInactiveVehicle", "DisconnectUsb"},
         NEW toClose, DisconnectEach(c.slot, c.index, toClose)
  PROVE  BestInv'
<1>1. UNCHANGED open /\ SameChoice /\ UNCHANGED connectionLost
  BY DEF DisconnectEach, SameChoice, channelVars, choiceVars, lifeVars, lossVars
<1>2. PICK next \in Seq(Frame) :
        Call(next) /\ \A k \in DOMAIN next : next[k].slot \in {c.slot, "DisconnectLink"}
  BY DisconnectEachCalls
<1> QED
  BY <1>1, <1>2, OthersBest

LEMMA LastOfAppend ==
  ASSUME NEW s \in Seq(BOOLEAN), NEW b \in BOOLEAN, NEW t, t = Append(s, b)
  PROVE  t /= <<>> /\ t[Len(t)] = b
  OBVIOUS

LEMMA LastOfTail ==
  ASSUME NEW s \in Seq(BOOLEAN), s /= <<>>, NEW t, t = Tail(s), t /= <<>>
  PROVE  t[Len(t)] = s[Len(s)]
  OBVIOUS

\* A link of the vehicle is open when another handler than that of its end begins.
LEMMA LinksOpen ==
  ASSUME IInv, calls /= <<>> => Head(calls).slot /= "LinkDeleted"
  PROVE  ToSet(links) \subseteq open
  BY DEF IInv, LinksAreOpen

LEMMA StartTimerBest ==
  ASSUME IInv, BestInv, calls /= <<>>, NEW c \in Frame, Head(calls) = c, c.slot = "StartTimer",
         StartTimer(c.link)
  PROVE  BestInv'
<1> DEFINE l == c.link
           f == LinkActiveChangedTo(l, TRUE)
<1>1. l \in Link /\ pending \in [Link -> Seq(BOOLEAN)] /\ pending[l] \in Seq(BOOLEAN)
      /\ timer \in [Link -> {"None", "Active", "Inactive"}]
  BY FrameFields DEF IInv, LinksTypeOK
<1>2. /\ timer' = [timer EXCEPT ![l] = "Active"]
      /\ UNCHANGED <<open, links, priorityLink, commanded, connectionLost>>
      /\ \A k \in Link : k /= l => timer'[k] = timer[k]
      /\ LinkActive(l)' /\ \A k : k /= l => (LinkActive(k)' <=> LinkActive(k))
  BY <1>1 DEF StartTimer, choiceVars, lifeVars, lossVars, LinkActive
<1>3. Choosing = FALSE /\ ToSet(links) \subseteq open
  BY LinksOpen DEF Choosing
<1>4. f \in Frame /\ f.slot = "LinkActiveChanged" /\ f.link = l /\ f.active = TRUE
  BY <1>1, FramesAre DEF LinkActiveChangedTo
<1>5. \/ LinkActive(l) /\ Call(<<>>) /\ UNCHANGED pending
      \/ l \in Threaded /\ l \in open /\ Call(<<>>)
           /\ pending' = [pending EXCEPT ![l] = Append(pending[l], TRUE)]
      \/ l \in Threaded /\ l \notin open /\ Call(<<>>) /\ UNCHANGED pending
      \/ l \notin Threaded /\ UNCHANGED pending
           /\ IF l \in ToSet(links) \cup {priorityLink} THEN Call(<<f>>) ELSE Call(<<>>)
      \/ l \in Threaded /\ l \notin ToSet(links) /\ Call(<<>>)
           /\ pending' = [pending EXCEPT ![l] = <<>>]
  BY <1>1 DEF StartTimer, EmitActiveChanged, Returns, LinkActive
<1>6. LastIsTrue'
  <2>1. Append(pending[l], TRUE) /= <<>> /\ Append(pending[l], TRUE)[Len(Append(pending[l], TRUE))] = TRUE
    BY <1>1, LastOfAppend
  <2>2. \A k \in Link : k /= l => pending'[k] = pending[k]
    BY <1>1, <1>5
  <2>3. l \in open /\ pending'[l] /= <<>> => pending'[l][Len(pending'[l])] = TRUE
    <3>1. CASE UNCHANGED pending
      <4>1. \A k \in open : pending[k] /= <<>> => (pending[k][Len(pending[k])] = TRUE <=> LinkActive(k))
        BY DEF BestInv, LastIsTrue
      <4>2. \A k \in Link \ Threaded : pending[k] = <<>>
        BY DEF BestInv, LastIsTrue
      <4>3. CASE LinkActive(l)
        BY <3>1, <4>1, <4>3
      <4>4. CASE l \notin open
        BY <4>4
      <4>5. CASE l \notin Threaded
        BY <1>1, <3>1, <4>2, <4>5
      <4>6. CASE pending' = [pending EXCEPT ![l] = Append(pending[l], TRUE)]
        BY <1>1, <2>1, <4>6
      <4>7. CASE pending' = [pending EXCEPT ![l] = <<>>]
        BY <1>1, <4>7
      <4> QED
        BY <1>5, <4>3, <4>4, <4>5, <4>6, <4>7
    <3>2. CASE pending' = [pending EXCEPT ![l] = Append(pending[l], TRUE)]
      BY <1>1, <2>1, <3>2
    <3>3. CASE pending' = [pending EXCEPT ![l] = <<>>]
      BY <1>1, <3>3
    <3> QED
      BY <1>5, <3>1, <3>2, <3>3
  <2>4. l \notin Threaded => pending'[l] = pending[l]
    BY <1>5
  <2>5. open \subseteq Link
    BY DEF IInv, LinksTypeOK
  <2> QED
    BY <1>1, <1>2, <2>2, <2>3, <2>4, <2>5 DEF BestInv, LastIsTrue
<1> HIDE DEF f
<1>7. ToldIsTrue' /\ LossIsChecked'
  <2>1. CASE Call(<<>>)
    <3>1. <<>> \in Seq(Frame) /\ DOMAIN <<>> = {}
      OBVIOUS
    <3> QED
      BY <2>1, <3>1, FramesKept
  <2>2. CASE Call(<<f>>)
    BY <1>2, <1>4, <2>2, TellKept
  <2> QED
    BY <1>5, <2>1, <2>2
<1>8. ChoiceIsGood'
  <2> SUFFICES ASSUME links /= <<>>, commanded = FALSE, Choosing' = FALSE
               PROVE  /\ priorityLink \in ToSet(links)
                      /\ \A k \in ToSet(links) : LinkActive(k)' => IsGoodAs(k)'
    BY <1>2 DEF ChoiceIsGood
  <2>1. priorityLink \in ToSet(links) /\ \A k \in ToSet(links) : LinkActive(k) => IsGoodAs(k)
    BY <1>3 DEF BestInv, ChoiceIsGood
  <2>2. \A k \in ToSet(links) : pending[k] /= <<>> => pending'[k] /= <<>>
    <3>1. ToSet(links) \subseteq Link
      BY DEF IInv, LinksTypeOK, ToSet
    <3>2. Append(pending[l], TRUE) /= <<>>
      BY <1>1, LastOfAppend
    <3> QED
      BY <1>1, <1>5, <3>1, <3>2
  <2>3. ASSUME NEW k \in ToSet(links), LinkActive(k), LinkActive(k)' PROVE IsGoodAs(k)'
    BY <1>2, <2>1, <2>2, <2>3 DEF IsGoodAs
  <2>4. ASSUME l \in ToSet(links), ~LinkActive(l) PROVE IsGoodAs(l)'
    <3>1. CASE l = priorityLink
      BY <1>2, <3>1 DEF IsGoodAs
    <3>2. CASE l /= priorityLink
      <4>1. ~Call(<<f>>)
        <5> SUFFICES ASSUME Call(<<f>>) PROVE FALSE
          OBVIOUS
        <5>1. <<f>> \in Seq(Frame) /\ <<f>> /= <<>> /\ <<f>>[1] = f
          BY <1>4
        <5>2. calls' /= <<>> /\ Head(calls') = f
          BY <5>1, HeadFirst, CalledFirst DEF Call
        <5> QED
          BY <1>2, <1>4, <3>2, <5>2 DEF Choosing
      <4>2. l \in open
        BY <1>3, <2>4
      <4>3. pending'[l] /= <<>>
        <5>1. Append(pending[l], TRUE) /= <<>>
          BY <1>1, LastOfAppend
        <5> QED
          BY <1>1, <1>5, <2>4, <4>1, <4>2, <5>1
      <4> QED
        BY <4>3 DEF IsGoodAs
    <3> QED
      BY <3>1, <3>2
  <2> QED
    BY <1>2, <2>1, <2>3, <2>4
<1> QED
  BY <1>6, <1>7, <1>8 DEF BestInv
-----------------------------------------------------------------------------
LEMMA FirstOfShorter ==
  ASSUME NEW s \in Seq(BOOLEAN), NEW n \in 0 .. Len(s), NEW t, t = SubSeq(s, 1, n), s = <<>>
  PROVE  t = <<>>
  OBVIOUS

LEMMA DisconnectLinkBest ==
  ASSUME IInv, BestInv, calls /= <<>>, NEW c \in Frame, Head(calls) = c, c.slot = "DisconnectLink",
         DisconnectLink(c.link)
  PROVE  BestInv'
<1> DEFINE l == c.link
           f == [slot |-> "LinkDeleted", link |-> l]
           next == IF l \in open THEN [i \in 1 .. connections |-> f] ELSE <<>>
<1>1. /\ l \in Link /\ connections \in Nat /\ f \in Frame /\ f.slot = "LinkDeleted"
      /\ timer \in [Link -> {"None", "Active", "Inactive"}]
      /\ pending \in [Link -> Seq(BOOLEAN)] /\ pending[l] \in Seq(BOOLEAN)
  BY FrameFields, FramesAre DEF IInv, LinksTypeOK
<1>2. /\ UNCHANGED <<links, priorityLink, commanded, connectionLost>> /\ open' = open \ {l}
      /\ Call(next)
  BY DEF DisconnectLink, choiceVars, lifeVars, lossVars, Returns
<1>3. /\ \A k \in Link : k /= l => pending'[k] = pending[k]
      /\ pending[l] = <<>> => pending'[l] = <<>>
      /\ l \notin open => pending' = pending
  <2>1. \/ pending' = pending
        \/ l \in open /\ \E n \in 0 .. Len(pending[l]) :
             pending' = [pending EXCEPT ![l] = SubSeq(pending[l], 1, n)]
    BY DEF DisconnectLink
  <2>2. CASE pending' = pending
    BY <2>2
  <2>3. ASSUME l \in open, NEW n \in 0 .. Len(pending[l]),
               pending' = [pending EXCEPT ![l] = SubSeq(pending[l], 1, n)]
        PROVE  <1>3!1 /\ <1>3!2 /\ <1>3!3
    <3>1. pending'[l] = SubSeq(pending[l], 1, n) /\ \A k \in Link : k /= l => pending'[k] = pending[k]
      BY <1>1, <2>3
    <3>2. pending[l] = <<>> => pending'[l] = <<>>
      BY <1>1, <3>1, FirstOfShorter
    <3> QED
      BY <2>3, <3>1, <3>2
  <2> QED
    BY <2>1, <2>2, <2>3
<1>4. /\ \A k : k /= l => (LinkActive(k)' <=> LinkActive(k))
      /\ l = priorityLink => timer' = timer
  BY <1>1 DEF DisconnectLink, TimerWithout, LinkActive
<1> HIDE DEF f
<1>5. /\ next \in Seq(Frame) /\ \A i \in DOMAIN next : next[i] = f
      /\ l \in open /\ connections >= 1 => next /= <<>> /\ next[1] = f
      /\ l \notin open => next = <<>>
  <2>1. connections \in Nat /\ f \in Frame
    BY <1>1
  <2> QED
    BY <2>1
<1> HIDE DEF next
<1>6. LastIsTrue'
  <2>1. open \subseteq Link
    BY DEF IInv, LinksTypeOK
  <2> QED
    BY <1>1, <1>2, <1>3, <1>4, <2>1 DEF BestInv, LastIsTrue
<1>7. ToldIsTrue' /\ LossIsChecked'
  BY <1>1, <1>2, <1>5, FramesKept
<1>8. ChoiceIsGood'
  <2> SUFFICES ASSUME links /= <<>>, commanded = FALSE, Choosing' = FALSE
               PROVE  /\ priorityLink \in ToSet(links)
                      /\ \A k \in ToSet(links) : LinkActive(k)' => IsGoodAs(k)'
    BY <1>2 DEF ChoiceIsGood
  <2>1. l \notin open
    <3> SUFFICES ASSUME l \in open PROVE FALSE
      OBVIOUS
    <3>1. connections >= 1
      BY DEF IInv, LinksAreConnected
    <3>2. calls' /= <<>> /\ Head(calls') = f
      BY <1>2, <1>5, <3>1, HeadFirst, CalledFirst DEF Call
    <3> QED
      BY <1>1, <3>2 DEF Choosing
  <2>2. ToSet(links) \subseteq open /\ Choosing = FALSE
    BY LinksOpen DEF Choosing
  <2>3. priorityLink \in ToSet(links) /\ \A k \in ToSet(links) : LinkActive(k) => IsGoodAs(k)
    BY <2>2 DEF BestInv, ChoiceIsGood
  <2> QED
    BY <1>2, <1>3, <1>4, <2>1, <2>2, <2>3 DEF IsGoodAs
<1> QED
  BY <1>6, <1>7, <1>8 DEF BestInv

\* The timer of a freed link is of no open one.
FreedIfUnused == timer' = IF priorityLink \notin open THEN TimerWithout(priorityLink) ELSE timer

LEMMA FreedKept ==
  ASSUME IInv, FreedIfUnused
  PROVE  \A k \in open : LinkActive(k)' <=> LinkActive(k)
<1>1. timer \in [Link -> {"None", "Active", "Inactive"}] /\ open \subseteq Link
  BY DEF IInv, LinksTypeOK
<1> QED
  BY <1>1 DEF FreedIfUnused, TimerWithout, LinkActive

\* The vehicle is told that a link of its is not heard, or that is on its way.
MayBeLost(l) == l \in ToSet(links) => LinkActive(l) = FALSE \/ pending[l] /= <<>>

LEMMA BelowReturned ==
  ASSUME IInv, BestInv, calls /= <<>>, Call(<<>>), NEW p, p = priorityLink
  PROVE  \A j \in DOMAIN calls' :
           /\ calls'[j].slot /= "LinkActiveChanged"
           /\ calls'[j].slot = "CheckLoss" => j = 1 /\ calls'[j].link = p /\ MayBeLost(p)
<1> DEFINE next == <<>>
<1>1. next \in Seq(Frame) /\ DOMAIN next = {} /\ Len(next) + 1 = 1 /\ Call(next)
  OBVIOUS
<1> HIDE DEF next
<1>2. ASSUME NEW j \in DOMAIN calls'
      PROVE  /\ calls'[j].slot /= "LinkActiveChanged"
             /\ calls'[j].slot = "CheckLoss" =>
                  /\ j = Len(next) + 1 /\ calls'[j].link = priorityLink
                  /\ priorityLink \in ToSet(links) =>
                       LinkActive(priorityLink) = FALSE \/ pending[priorityLink] /= <<>>
  BY <1>1, Below
<1> QED
  BY <1>1, <1>2 DEF MayBeLost

LEMMA UpdatePriorityLinkBest ==
  ASSUME IInv, BestInv, calls /= <<>>, NEW c \in Frame, Head(calls) = c, c.slot = "UpdatePriorityLink",
         UpdatePriorityLink(c.updateActive, c.sendCommand)
  PROVE  BestInv'
<1>1. /\ UNCHANGED <<open, pending, links, connectionLost>>
      /\ links \in Seq(Link) /\ ToSet(links) \subseteq open /\ c.updateActive \in BOOLEAN
      /\ \A k \in open : LinkActive(k)' <=> LinkActive(k)
  <2>1. timer' = timer \/ FreedIfUnused
    BY DEF UpdatePriorityLink, SwitchTo, FreedIfUnused
  <2>2. timer' = timer => \A k \in open : LinkActive(k)' <=> LinkActive(k)
    BY DEF LinkActive
  <2> QED
    BY <2>1, <2>2, FreedKept, LinksOpen, FrameFields
       DEF UpdatePriorityLink, lifeVars, lossVars, IInv, LinksTypeOK
<1>2. LastIsTrue'
  BY <1>1 DEF BestInv, LastIsTrue
<1>4. CASE Returns /\ UNCHANGED <<timer, priorityLink>>
           /\ (commanded' \/ links = <<>> \/ StillValid \/ BestLink = priorityLink)
  <2>1. Call(<<>>)
    BY <1>4 DEF Returns
  <2>2. PICK p : p = priorityLink
    OBVIOUS
  <2>3. ToldIsTrue' /\ LossIsChecked'
    <3>1. \A j \in DOMAIN calls' :
            /\ calls'[j].slot /= "LinkActiveChanged"
            /\ calls'[j].slot = "CheckLoss" => j = 1 /\ calls'[j].link = p /\ MayBeLost(p)
      BY <2>1, <2>2, BelowReturned
    <3>2. MayBeLost(p) => MayBeLost(p)'
      BY <1>1, <1>4 DEF MayBeLost, LinkActive
    <3>3. ToldIsTrue'
      BY <3>1 DEF ToldIsTrue
    <3> QED
      BY <3>1, <3>2, <3>3 DEF LossIsChecked, MayBeLost
  <2>4. ChoiceIsGood'
    <3> SUFFICES ASSUME links /= <<>>, commanded' = FALSE
                 PROVE  /\ priorityLink \in ToSet(links)
                        /\ \A k \in ToSet(links) : LinkActive(k) => IsGoodAs(k)
      BY <1>1, <1>4 DEF ChoiceIsGood, IsGoodAs, LinkActive
    <3>1. StillValid \/ BestLink = priorityLink
      BY <1>4
    <3>2. CASE StillValid
      BY <3>2 DEF StillValid, IsGoodAs
    <3>3. CASE BestLink = priorityLink
      BY <1>1, <3>3, BestIsBest DEF IsGoodAs
    <3> QED
      BY <3>1, <3>2, <3>3
  <2> QED
    BY <1>2, <2>3, <2>4 DEF BestInv
<1>5. CASE /\ links /= <<>> /\ priorityLink' = BestLink
           /\ Call(IF c.updateActive
                   THEN <<LinkActiveChangedTo(BestLink, LinkActive(BestLink))>> ELSE <<>>)
  <2>1. PICK l \in ToSet(links) :
          /\ l = BestLink
          /\ \A k \in ToSet(links) :
               LinkActive(k) => LinkActive(l) /\ (k \notin HighLatency => l \notin HighLatency)
    BY <1>1, <1>5, BestIsBest
  <2>2. l \in Link /\ LinkActive(l) \in BOOLEAN /\ (LinkActive(l)' <=> LinkActive(l))
    BY <1>1, <2>1 DEF LinkActive, IInv, LinksTypeOK
  <2>3. ToldIsTrue' /\ LossIsChecked'
    <3>1. CASE c.updateActive = TRUE
      <4>1. PICK f : f = LinkActiveChangedTo(l, LinkActive(l))
        OBVIOUS
      <4>2. f \in Frame /\ f.slot = "LinkActiveChanged" /\ f.link = l /\ f.active = LinkActive(l)
        <5>1. \A b \in BOOLEAN : LinkActiveChangedTo(l, b) \in Frame
          BY <2>2, FramesAre
        <5> QED
          BY <2>2, <4>1, <5>1 DEF LinkActiveChangedTo
      <4>3. Call(<<f>>)
        BY <1>5, <2>1, <3>1, <4>1
      <4>4. f.active = TRUE <=> LinkActive(f.link)'
        BY <2>2, <4>2
      <4> QED
        BY <3>1, <4>2, <4>3, <4>4, TellKept
    <3>2. CASE c.updateActive = FALSE
      <4>1. Call(<<>>)
        BY <1>5, <3>2
      <4>2. PICK p : p = priorityLink
        OBVIOUS
      <4>3. \A j \in DOMAIN calls' :
              /\ calls'[j].slot /= "LinkActiveChanged"
              /\ calls'[j].slot = "CheckLoss" => j = 1 /\ calls'[j].link = p /\ MayBeLost(p)
        BY <4>1, <4>2, BelowReturned
      <4>4. MayBeLost(p) => MayBeLost(p)'
        BY <1>1 DEF MayBeLost, LinkActive
      <4>5. ToldIsTrue'
        BY <4>3 DEF ToldIsTrue
      <4> QED
        BY <4>3, <4>4, <4>5 DEF LossIsChecked, MayBeLost
    <3> QED
      BY <1>1, <3>1, <3>2
  <2>4. ChoiceIsGood'
    <3>1. \A k \in ToSet(links) : LinkActive(k)' =>
            (LinkActive(priorityLink))' /\ (k \notin HighLatency => priorityLink' \notin HighLatency)
      BY <1>1, <1>5, <2>1, <2>2 DEF LinkActive
    <3> QED
      BY <1>1, <1>5, <2>1, <3>1 DEF ChoiceIsGood, IsGoodAs
  <2> QED
    BY <1>2, <2>3, <2>4 DEF BestInv
<1> QED
  BY <1>4, <1>5 DEF UpdatePriorityLink, SwitchTo

LEMMA LinkActiveChangedBest ==
  ASSUME IInv, BestInv, calls /= <<>>, NEW c \in Frame, Head(calls) = c, c.slot = "LinkActiveChanged",
         LinkActiveChanged(c.link, c.active)
  PROVE  BestInv'
<1> DEFINE quiet == UpdatePriorityLinkWith(FALSE, TRUE)
           lost == UpdatePriorityLinkWith(FALSE, FALSE)
           check == [slot |-> "CheckLoss", link |-> c.link]
<1>1. c.link \in Link /\ c.active \in BOOLEAN /\ connectionLost \in BOOLEAN
  BY FrameFields DEF IInv, LinksTypeOK
<1>2. UNCHANGED open /\ SameChoice
  BY DEF LinkActiveChanged, channelVars, choiceVars, lifeVars, SameChoice
<1>3. /\ quiet \in Frame /\ lost \in Frame /\ check \in Frame
      /\ quiet.slot = "UpdatePriorityLink" /\ lost.slot = "UpdatePriorityLink"
      /\ lost.updateActive = FALSE /\ check.slot = "CheckLoss" /\ check.link = c.link
  BY <1>1 DEF Frame, UpdatePriorityLinkWith
<1>4. \/ c.link /= priorityLink /\ Call(<<quiet>>)
      \/ c.link = priorityLink /\ c.active = FALSE /\ connectionLost = FALSE /\ Call(<<lost, check>>)
      \/ c.link = priorityLink /\ (c.active = TRUE \/ connectionLost = TRUE) /\ Call(<<>>)
  BY <1>1 DEF LinkActiveChanged
<1>5. connectionLost = TRUE /\ connectionLost' /= TRUE => c.link = priorityLink /\ c.active = TRUE
  BY <1>1 DEF LinkActiveChanged
<1>6. LastIsTrue'
  BY <1>2, LastKept DEF SameChoice
<1>7. c.link \in ToSet(links) =>
        \/ c.active = TRUE <=> LinkActive(c.link)
        \/ pending[c.link] /= <<>>
  <2>1. 1 \in DOMAIN calls /\ calls[1] = c
    BY HeadFirst
  <2> QED
    BY <2>1 DEF BestInv, ToldIsTrue
<1> HIDE DEF quiet, lost, check
<1>8. CASE c.link /= priorityLink /\ Call(<<quiet>>)
  <2> DEFINE next == <<quiet>>
  <2>1. /\ next \in Seq(Frame) /\ next /= <<>> /\ next[1] = quiet
        /\ \A i \in DOMAIN next : next[i] = quiet
    BY <1>3
  <2>2. Call(next)
    BY <1>8
  <2> HIDE DEF next
  <2>3. ToldIsTrue' /\ LossIsChecked'
    BY <1>3, <2>1, <2>2, FramesKept
  <2>4. calls' /= <<>> /\ Head(calls') = quiet
    BY <2>1, <2>2, HeadFirst, CalledFirst DEF Call
  <2>5. ChoiceIsGood'
    BY <1>3, <2>4 DEF ChoiceIsGood, Choosing
  <2> QED
    BY <1>6, <2>3, <2>5 DEF BestInv
<1>9. CASE c.link = priorityLink /\ c.active = FALSE /\ connectionLost = FALSE
           /\ Call(<<lost, check>>)
  <2> DEFINE next == <<lost, check>>
  <2>1. /\ next \in Seq(Frame) /\ next /= <<>> /\ next[1] = lost
        /\ DOMAIN next = {1, 2} /\ DOMAIN next = 1 .. Len(next) /\ next[2] = check
    BY <1>3
  <2>2. Call(next)
    BY <1>9
  <2> HIDE DEF next
  <2>3. calls' /= <<>> /\ Head(calls') = lost /\ \A i \in DOMAIN next : calls'[i] = next[i]
    <3>1. calls \in Seq(Frame) /\ calls' = next \o Tail(calls)
      BY <2>2, HeadFirst DEF Call
    <3>2. /\ calls' /= <<>> /\ Head(calls') = next[1]
          /\ \A i \in 1 .. Len(next) : calls'[i] = next[i]
      BY <2>1, <3>1, CalledFirst
    <3>3. DOMAIN next = 1 .. Len(next)
      BY <2>1
    <3> QED
      BY <2>1, <3>2, <3>3
  <2>4. \A j \in DOMAIN calls' : j \in {1, 2} \/ calls'[j].slot \notin {"LinkActiveChanged", "CheckLoss"}
    BY <2>1, <2>2, Below
  <2>5. calls'[1] = lost /\ calls'[2] = check
    BY <2>1, <2>3
  <2>6. ToldIsTrue'
    BY <1>3, <2>4, <2>5 DEF ToldIsTrue
  <2>7. LossIsChecked'
    BY <1>2, <1>3, <1>7, <1>9, <2>4, <2>5 DEF LossIsChecked, SameChoice, LinkActive
  <2>8. ChoiceIsGood'
    BY <1>3, <2>3 DEF ChoiceIsGood, Choosing
  <2> QED
    BY <1>6, <2>6, <2>7, <2>8 DEF BestInv
<1>10. CASE c.link = priorityLink /\ (c.active = TRUE \/ connectionLost = TRUE) /\ Call(<<>>)
  <2>1. <<>> \in Seq(Frame) /\ DOMAIN <<>> = {}
    OBVIOUS
  <2>2. ToldIsTrue' /\ LossIsChecked'
    BY <1>10, <2>1, FramesKept
  <2>3. ChoiceIsGood'
    <3> SUFFICES ASSUME links /= <<>>, commanded = FALSE
                 PROVE  /\ priorityLink \in ToSet(links)
                        /\ \A k \in ToSet(links) : LinkActive(k) => IsGoodAs(k)'
      BY <1>2 DEF ChoiceIsGood, SameChoice, LinkActive
    <3>1. priorityLink \in ToSet(links) /\ \A k \in ToSet(links) : LinkActive(k) => IsGoodAs(k)
      BY <1>10 DEF BestInv, ChoiceIsGood, Choosing
    <3>2. connectionLost' = TRUE \/ connectionLost = FALSE
          \/ LinkActive(priorityLink) \/ pending[priorityLink] /= <<>>
      BY <1>1, <1>5, <1>7, <3>1
    <3> QED
      BY <1>2, <3>1, <3>2 DEF IsGoodAs, SameChoice, LinkActive
  <2> QED
    BY <1>6, <2>2, <2>3 DEF BestInv
<1> QED
  BY <1>4, <1>8, <1>9, <1>10
-----------------------------------------------------------------------------
\* What begins with no signal and no check
LEMMA BegunQuietly ==
  ASSUME \/ calls' = <<>>
         \/ \E f \in Frame : f.slot \notin {"LinkActiveChanged", "CheckLoss"} /\ calls' = <<f>>
  PROVE  ToldIsTrue' /\ LossIsChecked'
<1>1. \A j \in DOMAIN calls' : calls'[j].slot \notin {"LinkActiveChanged", "CheckLoss"}
  OBVIOUS
<1> QED
  BY <1>1 DEF ToldIsTrue, LossIsChecked

\* ... and with a signal that tells what the link is
LEMMA BegunTelling ==
  ASSUME NEW f, f.slot = "LinkActiveChanged", calls' = <<f>>,
         f.link \in ToSet(links') =>
           (f.active = TRUE <=> LinkActive(f.link)') \/ pending'[f.link] /= <<>>
  PROVE  ToldIsTrue' /\ LossIsChecked'
<1>1. DOMAIN calls' = {1} /\ calls'[1] = f
  OBVIOUS
<1> QED
  BY <1>1 DEF ToldIsTrue, LossIsChecked

\* With nothing under way, the choice is made.
LEMMA ChoiceIsMade ==
  ASSUME IInv, BestInv, calls = <<>>
  PROVE  /\ Choosing = FALSE /\ ToSet(links) \subseteq open /\ open \subseteq Link
         /\ links /= <<>> /\ commanded = FALSE =>
              /\ priorityLink \in ToSet(links)
              /\ \A k \in ToSet(links) : LinkActive(k) => IsGoodAs(k)
<1>1. Choosing = FALSE
  BY DEF Choosing
<1> QED
  BY <1>1, LinksOpen DEF BestInv, ChoiceIsGood, IInv, LinksTypeOK

LEMMA BytesReceivedBest ==
  ASSUME IInv, BestInv, NEW l \in Link, NEW message \in {"Heartbeat", "Reboot", "Other"},
         BytesReceived(l, message)
  PROVE  BestInv'
<1>1. calls = <<>> /\ UNCHANGED open /\ SameChoice /\ UNCHANGED connectionLost
  BY DEF BytesReceived, Idle, SameChoice, channelVars, choiceVars, lossVars
<1>3. PICK a, t, m \in Frame :
        /\ a.slot = "AddLink" /\ t.slot = "StartTimer" /\ m.slot = "MessageReceived"
        /\ calls' = <<t, m>> \/ calls' = <<a, t, m>>
  <2>1. CallsOfMessage(l)
    BY ReceivedCalls
  <2> QED
    BY <2>1 DEF CallsOfMessage
<1>4. \A j \in DOMAIN calls' : calls'[j].slot \notin {"LinkActiveChanged", "CheckLoss"}
  BY <1>3
<1>5. ToldIsTrue' /\ LossIsChecked'
  BY <1>4 DEF ToldIsTrue, LossIsChecked
<1>6. LastIsTrue'
  BY <1>1, LastKept DEF SameChoice
<1>7. ChoiceIsGood'
  BY <1>1, ChoiceIsMade, ChoiceKept
<1> QED
  BY <1>5, <1>6, <1>7 DEF BestInv

LEMMA TimerTimeoutBest ==
  ASSUME IInv, BestInv, NEW l \in Link, TimerTimeout(l)
  PROVE  BestInv'
<1> DEFINE f == LinkActiveChangedTo(l, FALSE)
<1>1. /\ calls = <<>> /\ l \notin HighLatency
      /\ UNCHANGED <<open, links, priorityLink, commanded, connectionLost>>
      /\ pending \in [Link -> Seq(BOOLEAN)] /\ pending[l] \in Seq(BOOLEAN)
      /\ LinkActive(l)' = FALSE /\ \A k : k /= l => (LinkActive(k)' <=> LinkActive(k))
  BY DEF TimerTimeout, Idle, choiceVars, lifeVars, lossVars, IInv, LinksTypeOK, LinkActive
<1>2. \/ l \in Threaded /\ l \in open /\ calls' = <<>>
           /\ pending' = [pending EXCEPT ![l] = Append(pending[l], FALSE)]
      \/ l \in Threaded /\ l \notin open /\ calls' = <<>> /\ UNCHANGED pending
      \/ l \notin Threaded /\ UNCHANGED pending
           /\ calls' = IF l \in ToSet(links) \cup {priorityLink} THEN <<f>> ELSE <<>>
  BY <1>1 DEF TimerTimeout
<1>3. f.slot = "LinkActiveChanged" /\ f.link = l /\ f.active = FALSE
  BY DEF LinkActiveChangedTo
<1>4. /\ \A k \in Link : k /= l => pending'[k] = pending[k]
      /\ l \in Threaded /\ l \in open =>
           pending'[l] /= <<>> /\ pending'[l][Len(pending'[l])] = FALSE
      /\ l \notin Threaded => pending'[l] = pending[l]
  <2>1. PICK s : s = Append(pending[l], FALSE)
    OBVIOUS
  <2>2. s /= <<>> /\ s[Len(s)] = FALSE
    BY <1>1, <2>1, LastOfAppend
  <2> QED
    BY <1>1, <1>2, <2>1, <2>2
<1> HIDE DEF f
<1>5. LastIsTrue'
  <2>1. open \subseteq Link
    BY DEF IInv, LinksTypeOK
  <2>2. l \notin Threaded => pending[l] = <<>>
    BY DEF BestInv, LastIsTrue
  <2> QED
    BY <1>1, <1>4, <2>1, <2>2 DEF BestInv, LastIsTrue
<1>6. ToldIsTrue' /\ LossIsChecked'
  <2>1. CASE calls' = <<>>
    BY <2>1, BegunQuietly
  <2>2. CASE calls' = <<f>>
    BY <1>1, <1>3, <2>2, BegunTelling
  <2> QED
    BY <1>2, <2>1, <2>2
<1>7. ChoiceIsGood'
  <2> SUFFICES ASSUME links /= <<>>, commanded = FALSE, Choosing' = FALSE
               PROVE  /\ priorityLink \in ToSet(links)
                      /\ \A k \in ToSet(links) : LinkActive(k)' => IsGoodAs(k)'
    BY <1>1 DEF ChoiceIsGood
  <2>1. /\ priorityLink \in ToSet(links) /\ ToSet(links) \subseteq open /\ open \subseteq Link
        /\ \A k \in ToSet(links) : LinkActive(k) => IsGoodAs(k)
    BY <1>1, ChoiceIsMade
  <2> SUFFICES ASSUME NEW k \in ToSet(links), LinkActive(k)' PROVE IsGoodAs(k)'
    BY <2>1
  <2>2. k /= l /\ IsGoodAs(k) /\ pending'[k] = pending[k]
    BY <1>1, <1>4, <2>1
  <2>3. CASE l /= priorityLink
    <3>1. pending'[priorityLink] = pending[priorityLink]
      BY <1>4, <2>1, <2>3
    <3> QED
      BY <1>1, <2>2, <2>3, <3>1 DEF IsGoodAs
  <2>4. CASE l = priorityLink
    <3>1. connectionLost = TRUE \/ pending'[l] /= <<>>
      <4>1. CASE l \in Threaded
        BY <1>4, <2>1, <2>4, <4>1
      <4>2. CASE l \notin Threaded
        <5>1. calls' = <<f>>
          BY <1>2, <2>4, <4>2
        <5>3. calls' /= <<>> /\ Head(calls') = f
          BY <5>1
        <5>2. connectionLost \in BOOLEAN
          BY DEF IInv, LinksTypeOK
        <5> QED
          BY <1>1, <1>3, <2>4, <5>2, <5>3 DEF Choosing
      <4> QED
        BY <4>1, <4>2
    <3> QED
      BY <1>1, <2>2, <2>4, <3>1 DEF IsGoodAs
  <2> QED
    BY <2>3, <2>4
<1> QED
  BY <1>5, <1>6, <1>7 DEF BestInv

LEMMA OnlyIsLast ==
  ASSUME NEW s \in Seq(BOOLEAN), s /= <<>>, Tail(s) = <<>>
  PROVE  s[Len(s)] = Head(s)
<1>1. Len(s) \in Nat /\ Len(s) /= 0 /\ Len(Tail(s)) = Len(s) - 1
  OBVIOUS
<1>2. Len(<<>>) = 0
  OBVIOUS
<1>3. Len(s) = 1
  BY <1>1, <1>2
<1> QED
  BY <1>3

LEMMA SignalArrivesBest ==
  ASSUME IInv, BestInv, NEW l \in Link, SignalArrives(l)
  PROVE  BestInv'
<1>1. PICK f : f = LinkActiveChangedTo(l, Head(pending[l]))
  OBVIOUS
<1>2. /\ calls = <<>>
      /\ UNCHANGED <<open, timer, links, priorityLink, commanded, connectionLost>>
      /\ pending \in [Link -> Seq(BOOLEAN)] /\ pending[l] \in Seq(BOOLEAN) /\ pending[l] /= <<>>
      /\ pending' = [pending EXCEPT ![l] = Tail(pending[l])]
      /\ calls' = IF created /\ (l \in ToSet(links) \cup {priorityLink} \/ Freed(l))
                  THEN <<f>> ELSE <<>>
      /\ \A k : LinkActive(k)' <=> LinkActive(k)
  BY <1>1 DEF SignalArrives, Idle, choiceVars, lifeVars, lossVars, IInv, LinksTypeOK, LinkActive
<1>3. /\ f.slot = "LinkActiveChanged" /\ f.link = l /\ f.active = Head(pending[l])
      /\ f.active \in BOOLEAN
  BY <1>1, <1>2 DEF LinkActiveChangedTo
<1>4. /\ ToSet(links) \subseteq open /\ open \subseteq Link
      /\ links /= <<>> => created = TRUE
  BY <1>2, ChoiceIsMade DEF IInv, NewIsQuiet, LinksTypeOK
<1>5. /\ \A k \in Link : k /= l => pending'[k] = pending[k]
      /\ pending'[l] = Tail(pending[l])
  BY <1>2
<1>6. pending'[l] /= <<>> => pending'[l][Len(pending'[l])] = pending[l][Len(pending[l])]
  BY <1>2, <1>5, LastOfTail
<1>7. l \in open /\ pending'[l] = <<>> => (f.active = TRUE <=> LinkActive(l))
  <2>1. pending'[l] = <<>> => pending[l][Len(pending[l])] = f.active
    BY <1>2, <1>3, <1>5, OnlyIsLast
  <2> QED
    BY <1>2, <2>1 DEF BestInv, LastIsTrue
<1>8. LastIsTrue'
  <2>1. l \in Threaded
    BY <1>2 DEF BestInv, LastIsTrue
  <2> QED
    BY <1>2, <1>4, <1>5, <1>6, <2>1 DEF BestInv, LastIsTrue
<1>9. ToldIsTrue' /\ LossIsChecked'
  <2>1. CASE calls' = <<>>
    BY <2>1, BegunQuietly
  <2>2. CASE calls' = <<f>>
    <3>1. f.link \in ToSet(links') =>
            (f.active = TRUE <=> LinkActive(f.link)') \/ pending'[f.link] /= <<>>
      BY <1>2, <1>3, <1>4, <1>7
    <3> QED
      BY <1>3, <2>2, <3>1, BegunTelling
  <2> QED
    BY <1>2, <2>1, <2>2
<1>10. ChoiceIsGood'
  <2> SUFFICES ASSUME links /= <<>>, commanded = FALSE, Choosing' = FALSE
               PROVE  /\ priorityLink \in ToSet(links)
                      /\ \A k \in ToSet(links) : LinkActive(k) => IsGoodAs(k)'
    BY <1>2 DEF ChoiceIsGood
  <2>1. /\ priorityLink \in ToSet(links) /\ ToSet(links) \subseteq Link
        /\ \A k \in ToSet(links) : LinkActive(k) => IsGoodAs(k)
    BY <1>2, ChoiceIsMade
  <2> SUFFICES ASSUME NEW k \in ToSet(links), LinkActive(k) PROVE IsGoodAs(k)'
    BY <2>1
  <2>2. CASE l \notin ToSet(links)
    <3>1. pending'[k] = pending[k] /\ pending'[priorityLink] = pending[priorityLink]
      BY <1>5, <2>1, <2>2
    <3> QED
      BY <1>2, <2>1, <3>1 DEF IsGoodAs
  <2>3. CASE l \in ToSet(links)
    <3>1. calls' /= <<>> /\ Head(calls') = f
      BY <1>2, <1>4, <2>3
    <3>2. l = priorityLink /\ (f.active = TRUE \/ connectionLost = TRUE)
      <4>1. connectionLost \in BOOLEAN
        BY DEF IInv, LinksTypeOK
      <4> QED
        BY <1>2, <1>3, <3>1, <4>1 DEF Choosing
    <3>3. LinkActive(priorityLink) \/ connectionLost = TRUE \/ pending'[priorityLink] /= <<>>
      BY <1>4, <1>7, <2>3, <3>2
    <3>4. k /= l => pending'[k] = pending[k]
      BY <1>5, <2>1
    <3> QED
      BY <1>2, <2>1, <3>2, <3>3, <3>4 DEF IsGoodAs
  <2> QED
    BY <2>2, <2>3
<1> QED
  BY <1>8, <1>9, <1>10 DEF BestInv

LEMMA SetPriorityLinkByNameBest ==
  ASSUME IInv, BestInv, NEW l \in Link, SetPriorityLinkByName(l)
  PROVE  BestInv'
<1>1. PICK f : f = LinkActiveChangedTo(l, LinkActive(l))
  OBVIOUS
<1>2. /\ calls = <<>> /\ l \in ToSet(links) /\ commanded' = TRUE /\ calls' = <<f>>
      /\ UNCHANGED <<open, pending, links>> /\ FreedIfUnused
  BY <1>1 DEF SetPriorityLinkByName, Idle, SwitchTo, FreedIfUnused, lifeVars
<1>3. f.slot = "LinkActiveChanged" /\ f.link = l /\ f.active = LinkActive(l)
  BY <1>1 DEF LinkActiveChangedTo
<1>4. l \in open /\ \A k \in open : LinkActive(k)' <=> LinkActive(k)
  BY <1>2, ChoiceIsMade, FreedKept
<1>5. LastIsTrue'
  BY <1>2, <1>4 DEF BestInv, LastIsTrue
<1>6. ToldIsTrue' /\ LossIsChecked'
  <2>1. f.active = TRUE <=> LinkActive(f.link)'
    BY <1>3, <1>4
  <2> QED
    BY <1>2, <1>3, <2>1, BegunTelling
<1>7. ChoiceIsGood'
  BY <1>2 DEF ChoiceIsGood
<1> QED
  BY <1>5, <1>6, <1>7 DEF BestInv

LEMMA RestBest ==
  ASSUME IInv, BestInv,
         \/ \E l \in Link : LinkOpens(l) \/ UserDisconnects(l)
         \/ DisconnectInactiveVehicle
         \/ RebootVehicle
         \/ VehicleDeleted
  PROVE  BestInv'
<1>1. CASE VehicleDeleted
  <2>1. links' = <<>> /\ calls' = <<>> /\ UNCHANGED <<open, pending>> /\ FreedIfUnused
    BY <1>1 DEF VehicleDeleted, Settled, Idle, FreedIfUnused
  <2>2. LastIsTrue'
    BY <2>1, FreedKept DEF BestInv, LastIsTrue
  <2>3. ToldIsTrue' /\ LossIsChecked' /\ ChoiceIsGood'
    BY <2>1, BegunQuietly DEF ChoiceIsGood
  <2> QED
    BY <2>2, <2>3 DEF BestInv
<1>2. ASSUME \/ \E l \in Link : LinkOpens(l) \/ UserDisconnects(l)
             \/ DisconnectInactiveVehicle
             \/ RebootVehicle
      PROVE  BestInv'
  <2>1. /\ calls = <<>> /\ SameChoice /\ UNCHANGED connectionLost
        /\ \/ UNCHANGED open
           \/ \E l \in Link : pending[l] = <<>> /\ open' = open \cup {l}
    BY <1>2 DEF LinkOpens, UserDisconnects, DisconnectInactiveVehicle, RebootVehicle, Idle,
                SameChoice, channelVars, choiceVars, lifeVars, lossVars
  <2>2. \/ calls' = <<>>
        \/ \E f \in Frame : f.slot \notin {"LinkActiveChanged", "CheckLoss"} /\ calls' = <<f>>
    <3>1. ASSUME NEW l \in Link, UserDisconnects(l) PROVE <2>2
      <4>1. Disconnecting(l) \in Frame /\ Disconnecting(l).slot = "DisconnectLink"
        BY FramesAre DEF Disconnecting
      <4> QED
        BY <3>1, <4>1 DEF UserDisconnects
    <3>2. CASE DisconnectInactiveVehicle
      <4>1. /\ DisconnectFrom("DisconnectInactiveVehicle", 1) \in Frame
            /\ DisconnectFrom("DisconnectInactiveVehicle", 1).slot = "DisconnectInactiveVehicle"
        BY FramesAre DEF DisconnectFrom
      <4> QED
        BY <3>2, <4>1 DEF DisconnectInactiveVehicle
    <3>3. ASSUME RebootVehicle \/ \E l \in Link : LinkOpens(l) PROVE calls' = <<>>
      BY <2>1, <3>3 DEF RebootVehicle, LinkOpens
    <3> QED
      BY <1>2, <3>1, <3>2, <3>3
  <2>3. LastIsTrue'
    BY <2>1 DEF BestInv, LastIsTrue, SameChoice, LinkActive
  <2>4. ToldIsTrue' /\ LossIsChecked'
    BY <2>2, BegunQuietly
  <2>5. ChoiceIsGood'
    BY <2>1, ChoiceIsMade, ChoiceKept
  <2> QED
    BY <2>3, <2>4, <2>5 DEF BestInv
<1> QED
  BY <1>1, <1>2

LEMMA HandleBest ==
  ASSUME IInv, BestInv, calls /= <<>>, Handle(Head(calls))
  PROVE  BestInv'
<1> DEFINE c == Head(calls)
<1>1. c \in Frame
  BY HeadIsFrame
<1> QED
  BY <1>1, AddLinkBest, StartTimerBest, MessageReceivedBest, UpdatePriorityLinkBest,
     LinkActiveChangedBest, CheckLossBest, DisconnectEachBest, DisconnectLinkBest,
     LinkDeletedBest, CheckGoneBest DEF Handle

LEMMA BestInvInit == LinksInit => BestInv
<1> SUFFICES ASSUME LinksInit PROVE BestInv
  OBVIOUS
<1>1. DOMAIN <<>> = {}
  OBVIOUS
<1> QED
  BY <1>1 DEF LinksInit, BestInv, LastIsTrue, ToldIsTrue, LossIsChecked, ChoiceIsGood

LEMMA BestInvStep == IInv /\ BestInv /\ [LinksNext]_linkVars => BestInv'
<1> SUFFICES ASSUME IInv, BestInv, [LinksNext]_linkVars PROVE BestInv'
  OBVIOUS
<1>1. CASE ~Idle /\ Handle(Head(calls))
  BY <1>1, HandleBest DEF Idle
<1>2. ASSUME NEW l \in Link, NEW message \in {"Heartbeat", "Reboot", "Other"},
             BytesReceived(l, message)
      PROVE  BestInv'
  BY <1>2, BytesReceivedBest
<1>3. ASSUME NEW l \in Link, TimerTimeout(l) PROVE BestInv'
  BY <1>3, TimerTimeoutBest
<1>4. ASSUME NEW l \in Link, SignalArrives(l) PROVE BestInv'
  BY <1>4, SignalArrivesBest
<1>5. ASSUME NEW l \in Link, SetPriorityLinkByName(l) PROVE BestInv'
  BY <1>5, SetPriorityLinkByNameBest
<1>6. ASSUME NEW l \in Link, LinkOpens(l) \/ UserDisconnects(l) PROVE BestInv'
  BY <1>6, RestBest
<1>7. CASE DisconnectInactiveVehicle \/ RebootVehicle \/ VehicleDeleted
  BY <1>7, RestBest
<1>8. CASE UNCHANGED linkVars
  BY <1>8 DEF linkVars, channelVars, choiceVars, lifeVars, lossVars, BestInv, LastIsTrue,
              ToldIsTrue, LossIsChecked, ChoiceIsGood, Choosing, IsGoodAs, LinkActive
<1> QED
  BY <1>1, <1>2, <1>3, <1>4, <1>5, <1>6, <1>7, <1>8 DEF LinksNext

\* IInv and BestInv are invariants.
THEOREM BestInvariance == LinksSpec => [](IInv /\ BestInv)
<1> QED
  BY IInvInit, IInvStep, BestInvInit, BestInvStep, PTL DEF LinksSpec

\* Once all signals have arrived, a vehicle talks over a link that is heard if there is
\* one, and over one of high latency only if no other is heard.
THEOREM TalksOverTheBest == LinksSpec => []PriorityIsBest
<1>1. IInv /\ BestInv => PriorityIsBest
  <2> SUFFICES ASSUME IInv, BestInv, Settled, commanded = FALSE, connectionLost = FALSE,
                      NEW k \in ToSet(links), LinkActive(k)
               PROVE  /\ priorityLink \in ToSet(links) /\ LinkActive(priorityLink)
                      /\ k \notin HighLatency => priorityLink \notin HighLatency
    BY DEF PriorityIsBest, IInv, LinksTypeOK
  <2>1. calls = <<>> /\ \A l \in Link : pending[l] = <<>>
    BY DEF Settled, Idle
  <2>2. links /= <<>> /\ k \in Link
    BY DEF ToSet, IInv, LinksTypeOK
  <2>3. priorityLink \in ToSet(links) /\ priorityLink \in Link /\ IsGoodAs(k)
    BY <2>1, <2>2, ChoiceIsMade
  <2> QED
    BY <2>1, <2>2, <2>3 DEF IsGoodAs
<1> QED
  BY BestInvariance, <1>1, PTL

\* Once all signals have arrived, the connection is declared lost only when no link of
\* the vehicle is heard.
THEOREM LossesAreReal == LinksSpec => LossIsReal
<1> DEFINE Real == (/\ ~connectionLost /\ connectionLost' /\ ~commanded
                    /\ \A l \in Link : pending[l] = <<>>) =>
                      \A l \in ToSet(links) : ~LinkActive(l)
<1>1. IInv /\ BestInv /\ [LinksNext]_linkVars => [Real]_linkVars
  <2> SUFFICES ASSUME IInv, BestInv, LinksNext, ~connectionLost, connectionLost', ~commanded,
                      \A l \in Link : pending[l] = <<>>
               PROVE  \A l \in ToSet(links) : ~LinkActive(l)
    OBVIOUS
  <2>1. PICK c \in Frame : /\ calls /= <<>> /\ c = Head(calls) /\ c.slot = "CheckLoss"
                           /\ CheckLoss(c.link)
    <3>1. ~Idle /\ Handle(Head(calls))
      BY DEF LinksNext, LinkOpens, BytesReceived, TimerTimeout, SignalArrives, UserDisconnects,
             SetPriorityLinkByName, DisconnectInactiveVehicle, RebootVehicle, VehicleDeleted,
             lossVars
    <3>2. Head(calls).slot = "CheckLoss" /\ CheckLoss(Head(calls).link)
      BY <3>1 DEF Handle, AddLink, StartTimer, MessageReceived, UpdatePriorityLink,
                  LinkActiveChanged, DisconnectEach, DisconnectLink, LinkDeleted, CheckGone,
                  lossVars
    <3> QED
      BY <3>1, <3>2, HeadIsFrame DEF Idle
  <2>2. c.link = priorityLink
    BY <2>1 DEF CheckLoss
  <2>3. Choosing = FALSE /\ commanded = FALSE /\ connectionLost = FALSE
    BY <2>1 DEF Choosing, IInv, LinksTypeOK
  <2>4. ToSet(links) \subseteq Link
    BY DEF IInv, LinksTypeOK, ToSet
  <2> SUFFICES ASSUME NEW l \in ToSet(links), LinkActive(l) PROVE FALSE
    OBVIOUS
  <2>5. priorityLink \in ToSet(links) /\ IsGoodAs(l)
    BY <2>3 DEF BestInv, ChoiceIsGood, ToSet
  <2>6. LinkActive(priorityLink) = FALSE \/ pending[priorityLink] /= <<>>
    <3>1. 1 \in DOMAIN calls /\ calls[1] = c
      BY <2>1, HeadFirst
    <3> QED
      BY <2>1, <2>2, <2>5, <3>1 DEF BestInv, LossIsChecked
  <2> QED
    BY <2>3, <2>4, <2>5, <2>6 DEF IsGoodAs
<1>2. [][Real]_linkVars => LossIsReal
  BY DEF LossIsReal
<1> QED
  BY BestInvariance, <1>1, <1>2, PTL DEF LinksSpec
-----------------------------------------------------------------------------
(* A link of high latency is told to stop *)

\* A call that neither asks a vehicle to transmit nor forgets to ask it to stop
Harmless(c, i) ==
  \/ c.slot = "UpdatePriorityLink" /\ c.sendCommand = FALSE
  \/ c.slot = "CheckLoss"
  \/ c.slot = "LinkActiveChanged" /\ i = 1 /\ c.link = priorityLink

\* The first link of a new vehicle, until the timer of the link starts
IsNew(l) ==
  /\ links = <<l>> /\ told = "Nothing" /\ autoDisconnect = FALSE
  /\ \E j \in DOMAIN calls : calls[j].slot = "StartTimer" /\ calls[j].link = l
                               /\ \A i \in 1 .. (j - 1) : Harmless(calls[i], i)

\* A link of high latency is never found quiet, ...
HighIsNeverQuiet ==
  \A l \in HighLatency : timer[l] /= "Inactive" /\ \A i \in DOMAIN pending[l] : pending[l][i] = TRUE

\* ... so that one of the vehicle is heard, or new, or being taken away.
HighIsActive ==
  \A l \in ToSet(links) \cap HighLatency :
    \/ LinkActive(l) \/ IsNew(l)
    \/ calls /= <<>> /\ Head(calls).slot = "LinkDeleted" /\ Head(calls).link = l

HighIsKnown == highLatencyLink = TRUE <=> priorityLink \in HighLatency
MayBeSilent == told /= "Start" \/ gone = TRUE
Stopped == told = "Start" => gone = TRUE \/ priorityLink \in HighLatency
NewIsSilent == created = FALSE => told = "Nothing"

\* What does not ask the vehicle is called when there is nothing to ask for, ...
SilentCalls ==
  \A j \in DOMAIN calls :
    /\ calls[j].slot = "UpdatePriorityLink" /\ calls[j].sendCommand = FALSE => j = 1 /\ MayBeSilent
    /\ calls[j].slot = "LinkActiveChanged" /\ calls[j].active = FALSE
         /\ calls[j].link \in HighLatency => j = 1 /\ MayBeSilent

\* ... which the first link of a vehicle is, that of a message that was received.
SilentLinks ==
  \A j \in DOMAIN calls :
    /\ calls[j].slot = "MessageReceived" =>
         /\ j = Len(calls)
         /\ \/ LinkActive(calls[j].link)
            \/ \E i \in 1 .. (j - 1) : calls[i].slot = "StartTimer" /\ calls[i].link = calls[j].link
    /\ calls[j].slot = "AddLink" =>
         /\ links = <<>> => MayBeSilent
         /\ \/ LinkActive(calls[j].link)
            \/ /\ links = <<>> /\ told = "Nothing" /\ autoDisconnect = FALSE
               /\ 2 \in DOMAIN calls /\ calls[2].slot = "StartTimer"
               /\ calls[2].link = calls[j].link

\* A vehicle without links is gone, or will be.
NoneIsLeft ==
  links = <<>> => MayBeSilent \/ \E j \in DOMAIN calls : calls[j].slot = "CheckGone"

HighInv == HighIsNeverQuiet /\ HighIsActive /\ HighIsKnown /\ Stopped /\ NewIsSilent
             /\ SilentCalls /\ SilentLinks /\ NoneIsLeft
-----------------------------------------------------------------------------
\* Where the calls go that a handler finds below its own, for which it calls n others
Shifts(next, n) ==
  /\ n \in Nat /\ DOMAIN next = 1 .. n
  /\ DOMAIN calls' = 1 .. Len(calls') /\ Len(calls') \in Nat /\ Len(calls') = n + Len(calls) - 1
  /\ \A i \in DOMAIN next : i \in DOMAIN calls' /\ calls'[i] = next[i]
  /\ \A j \in DOMAIN calls' : j \in DOMAIN next
       \/ (j - n + 1 \in DOMAIN calls /\ j - n + 1 >= 2 /\ calls'[j] = calls[j - n + 1])
  /\ \A k \in DOMAIN calls : k >= 2 =>
       k + n - 1 \in DOMAIN calls' /\ calls'[k + n - 1] = calls[k]

LEMMA ShiftOfIndex ==
  ASSUME NEW n \in Nat, NEW m \in Nat, NEW k \in 1 .. m, k >= 2, NEW j, j = k + n - 1
  PROVE  j \in (n + 1) .. (n + m - 1) /\ j \in 1 .. (n + m - 1) /\ j - n + 1 = k
  OBVIOUS

LEMMA Shifted ==
  ASSUME IInv, calls /= <<>>, NEW next \in Seq(Frame), Call(next)
  PROVE  \E n : Shifts(next, n)
<1>0. PICK n : n = Len(next)
  OBVIOUS
<1>1. /\ calls \in Seq(Frame) /\ DOMAIN calls = 1 .. Len(calls) /\ Len(calls) \in Nat
      /\ n \in Nat /\ DOMAIN next = 1 .. n /\ Len(calls) >= 1
  BY <1>0, HeadFirst
<1>2. /\ calls' \in Seq(Frame) /\ Len(calls') = n + Len(calls) - 1
      /\ \A i \in 1 .. n : calls'[i] = next[i]
      /\ \A i \in (n + 1) .. Len(calls') :
           i - n + 1 \in 2 .. Len(calls) /\ calls'[i] = calls[i - n + 1]
  BY <1>0, <1>1, CalledFirst DEF Call
<1>3. DOMAIN calls' = 1 .. Len(calls')
  BY <1>2
<1>4. \A i \in DOMAIN next : i \in DOMAIN calls' /\ calls'[i] = next[i]
  BY <1>1, <1>2, <1>3
<1>5. \A j \in DOMAIN calls' : j \in DOMAIN next
        \/ (j - n + 1 \in DOMAIN calls /\ j - n + 1 >= 2 /\ calls'[j] = calls[j - n + 1])
  BY <1>1, <1>2, <1>3
<1>6. ASSUME NEW k \in DOMAIN calls, k >= 2
      PROVE  k + n - 1 \in DOMAIN calls' /\ calls'[k + n - 1] = calls[k]
  <2>1. PICK j : j = k + n - 1
    OBVIOUS
  <2>2. PICK m : m = Len(calls)
    OBVIOUS
  <2>3. /\ m \in Nat /\ DOMAIN calls = 1 .. m /\ Len(calls') = n + m - 1 /\ n \in Nat
        /\ k \in 1 .. m
    BY <1>1, <1>2, <2>2
  <2>4. j \in (n + 1) .. (n + m - 1) /\ j \in 1 .. (n + m - 1) /\ j - n + 1 = k
    BY <1>6, <2>1, <2>3, ShiftOfIndex
  <2> QED
    BY <1>2, <1>3, <2>1, <2>3, <2>4
<1>7. Len(calls') \in Nat
  BY <1>1, <1>2
<1>8. Shifts(next, n)
  BY <1>1, <1>2, <1>3, <1>4, <1>5, <1>6, <1>7 DEF Shifts
<1> QED
  BY <1>8

\* While the first link of a vehicle is new, what is called is harmless.
LEMMA NewIsHarmless ==
  ASSUME IInv, calls /= <<>>, Head(calls).slot /= "StartTimer", NEW l, IsNew(l)
  PROVE  Harmless(Head(calls), 1)
<1>1. PICK j \in DOMAIN calls : /\ calls[j].slot = "StartTimer"
                                /\ \A i \in 1 .. (j - 1) : Harmless(calls[i], i)
  BY DEF IsNew
<1>2. j \in Nat /\ j >= 1 /\ j /= 1 /\ Head(calls) = calls[1]
  BY <1>1, HeadFirst
<1>3. 1 \in 1 .. (j - 1)
  BY <1>2
<1> QED
  BY <1>1, <1>2, <1>3

LEMMA NewKept ==
  ASSUME IInv, HighInv, calls /= <<>>, Head(calls).slot /= "StartTimer", NEW l, IsNew(l),
         UNCHANGED <<links, told, autoDisconnect>>, NEW next \in Seq(Frame), Call(next),
         \A i \in DOMAIN next : Harmless(next[i], i)'
  PROVE  IsNew(l)'
<1>1. PICK k \in DOMAIN calls : /\ calls[k].slot = "StartTimer" /\ calls[k].link = l
                                /\ \A i \in 1 .. (k - 1) : Harmless(calls[i], i)
  BY DEF IsNew
<1>2. PICK n : Shifts(next, n)
  BY Shifted
<1>3. /\ n \in Nat /\ DOMAIN next = 1 .. n
      /\ DOMAIN calls' = 1 .. Len(calls') /\ Len(calls') \in Nat
      /\ \A i \in DOMAIN next : i \in DOMAIN calls' /\ calls'[i] = next[i]
      /\ \A j \in DOMAIN calls' : j \in DOMAIN next
           \/ (j - n + 1 \in DOMAIN calls /\ j - n + 1 >= 2 /\ calls'[j] = calls[j - n + 1])
      /\ \A i \in DOMAIN calls : i >= 2 =>
           i + n - 1 \in DOMAIN calls' /\ calls'[i + n - 1] = calls[i]
  BY <1>2 DEF Shifts
<1>4. k \in Nat /\ k >= 2
  BY <1>1, HeadFirst
<1>5. PICK j : j = k + n - 1
  OBVIOUS
<1>6. j \in DOMAIN calls' /\ calls'[j] = calls[k]
  BY <1>3, <1>4, <1>5
<1>7. ASSUME NEW i \in 1 .. (j - 1) PROVE \E f : f = calls'[i] /\ Harmless(f, i)'
  <2>1. i \in DOMAIN calls'
    BY <1>3, <1>6
  <2>2. CASE i \in DOMAIN next
    BY <1>3, <2>2
  <2>3. CASE i \notin DOMAIN next
    <3>1. PICK m : m = i - n + 1
      OBVIOUS
    <3>2. m \in DOMAIN calls /\ m >= 2 /\ calls'[i] = calls[m]
      BY <1>3, <2>1, <2>3, <3>1
    <3>3. m \in 1 .. (k - 1) /\ m /= 1
      BY <1>3, <1>4, <1>5, <3>1, <3>2
    <3>4. PICK f : f = calls[m] /\ Harmless(f, m)
      BY <1>1, <3>3
    <3>5. /\ f.slot = "LinkActiveChanged" => m = 1
          /\ f.slot = "LinkActiveChanged" \/ Harmless(f, i)'
      BY <3>4 DEF Harmless
    <3> QED
      BY <3>2, <3>3, <3>4, <3>5
  <2> QED
    BY <2>2, <2>3
<1> QED
  <2>1. links' = <<l>> /\ told' = "Nothing" /\ autoDisconnect' = FALSE
    BY DEF IsNew
  <2>2. \A i \in 1 .. (j - 1) :
          \/ calls'[i].slot = "UpdatePriorityLink" /\ calls'[i].sendCommand = FALSE
          \/ calls'[i].slot = "CheckLoss"
          \/ calls'[i].slot = "LinkActiveChanged" /\ i = 1 /\ calls'[i].link = priorityLink'
    BY <1>7 DEF Harmless
  <2>3. calls'[j].slot = "StartTimer" /\ calls'[j].link = l
    BY <1>1, <1>6
  <2> QED
    BY <1>6, <2>1, <2>2, <2>3 DEF IsNew, Harmless

\* What a handler that calls next shows of the calls
NextIsSilent(next) ==
  \A i \in DOMAIN next :
    /\ next[i].slot = "UpdatePriorityLink" /\ next[i].sendCommand = FALSE => i = 1 /\ MayBeSilent'
    /\ next[i].slot = "LinkActiveChanged" /\ next[i].active = FALSE /\ next[i].link \in HighLatency
         => i = 1 /\ MayBeSilent'
    /\ next[i].slot /= "MessageReceived"
    /\ next[i].slot = "AddLink" => (links' = <<>> => MayBeSilent') /\ LinkActive(next[i].link)'

LEMMA SilentKept ==
  ASSUME IInv, HighInv, calls /= <<>>, NEW c, Head(calls) = c, NEW next \in Seq(Frame), Call(next),
         NextIsSilent(next),
         c.slot = "DisconnectLink" \/ \A l \in open : LinkActive(l) => LinkActive(l)',
         c.slot = "StartTimer" => LinkActive(c.link)'
  PROVE  SilentCalls' /\ SilentLinks'
<1>1. PICK n : Shifts(next, n)
  BY Shifted
<1>2. /\ n \in Nat /\ DOMAIN next = 1 .. n /\ Len(calls') = n + Len(calls) - 1
      /\ \A i \in DOMAIN next : i \in DOMAIN calls' /\ calls'[i] = next[i]
      /\ \A j \in DOMAIN calls' : j \in DOMAIN next
           \/ (j - n + 1 \in DOMAIN calls /\ j - n + 1 >= 2 /\ calls'[j] = calls[j - n + 1])
      /\ \A i \in DOMAIN calls : i >= 2 =>
           i + n - 1 \in DOMAIN calls' /\ calls'[i + n - 1] = calls[i]
  BY <1>1 DEF Shifts
<1>3. ASSUME NEW j \in DOMAIN calls', j \notin DOMAIN next
      PROVE  \E k \in DOMAIN calls : k = j - n + 1 /\ k >= 2 /\ k /= 1 /\ calls'[j] = calls[k]
  BY <1>2, <1>3
<1>4. SilentCalls'
  <2> SUFFICES ASSUME NEW j \in DOMAIN calls'
               PROVE  /\ calls'[j].slot = "UpdatePriorityLink" /\ calls'[j].sendCommand = FALSE
                           => j = 1 /\ MayBeSilent'
                      /\ calls'[j].slot = "LinkActiveChanged" /\ calls'[j].active = FALSE
                           /\ calls'[j].link \in HighLatency => j = 1 /\ MayBeSilent'
    BY DEF SilentCalls
  <2>1. CASE j \in DOMAIN next
    BY <1>2, <2>1 DEF NextIsSilent
  <2>2. CASE j \notin DOMAIN next
    BY <1>3, <2>2 DEF HighInv, SilentCalls
  <2> QED
    BY <2>1, <2>2
<1>5. ASSUME NEW j \in DOMAIN calls', calls'[j].slot = "AddLink"
      PROVE  (links' = <<>> => MayBeSilent') /\ \E l : l = calls'[j].link /\ LinkActive(l)'
  <2>1. CASE j \in DOMAIN next
    <3>1. calls'[j] = next[j] /\ next[j].slot = "AddLink"
      BY <1>2, <1>5, <2>1
    <3> QED
      BY <2>1, <3>1 DEF NextIsSilent
  <2>2. CASE j \notin DOMAIN next
    BY <1>3, <1>5, <2>2 DEF IInv, CallsOK
  <2> QED
    BY <2>1, <2>2
<1>6. ASSUME NEW j \in DOMAIN calls', calls'[j].slot = "MessageReceived"
      PROVE  /\ j = Len(calls')
             /\ \/ \E l : l = calls'[j].link /\ LinkActive(l)'
                \/ \E i \in 1 .. (j - 1) : calls'[i].slot = "StartTimer" /\ calls'[i].link = calls'[j].link
  <2>1. PICK k \in DOMAIN calls : /\ k = j - n + 1 /\ k >= 2 /\ calls'[j] = calls[k]
                                  /\ calls[k].slot = "MessageReceived"
    BY <1>2, <1>3, <1>6 DEF NextIsSilent
  <2>2. /\ k = Len(calls) /\ calls[k].link \in open
        /\ \A i \in 1 .. (k - 1) : Calm(calls[i], autoDisconnect)
    BY <2>1 DEF HighInv, SilentLinks, IInv, CallsOK
  <2>3. k \in Nat /\ j = Len(calls') /\ j \in Nat /\ j = k + n - 1
    BY <1>2, <2>1, <2>2, HeadFirst
  <2>4. c = calls[1] /\ c.slot /= "DisconnectLink"
    <3>1. 1 \in 1 .. (k - 1)
      BY <2>1, <2>3
    <3> QED
      BY <2>2, <3>1, HeadFirst DEF Calm
  <2>5. PICK l \in open : l = calls[k].link /\ l = calls'[j].link
    BY <2>1, <2>2
  <2>6. CASE LinkActive(l)
    BY <2>3, <2>4, <2>5, <2>6
  <2>7. ASSUME NEW i \in 1 .. (k - 1), calls[i].slot = "StartTimer", calls[i].link = l
        PROVE  \/ LinkActive(l)'
               \/ \E m \in 1 .. (j - 1) : calls'[m].slot = "StartTimer" /\ calls'[m].link = l
    <3>1. CASE i = 1
      BY <2>4, <2>7, <3>1
    <3>2. CASE i /= 1
      <4>1. i \in DOMAIN calls /\ i >= 2
        BY <2>1, <2>3, <3>2, HeadFirst
      <4>2. PICK m : m = i + n - 1
        OBVIOUS
      <4>3. m \in DOMAIN calls' /\ calls'[m] = calls[i]
        BY <1>2, <4>1, <4>2
      <4>4. n \in Nat /\ i \in Nat /\ i >= 2 /\ i <= k - 1
        BY <1>2, <2>3, <4>1
      <4>5. m \in 1 .. (j - 1)
        BY <2>3, <4>2, <4>4
      <4> QED
        BY <2>7, <4>3, <4>5
    <3> QED
      BY <3>1, <3>2
  <2>8. \/ LinkActive(l)
        \/ \E i \in 1 .. (k - 1) : calls[i].slot = "StartTimer" /\ calls[i].link = l
    BY <2>1, <2>5 DEF HighInv, SilentLinks
  <2> QED
    BY <2>3, <2>5, <2>6, <2>7, <2>8
<1>7. SilentLinks'
  BY <1>5, <1>6 DEF SilentLinks, LinkActive
<1> QED
  BY <1>4, <1>7

LEMMA NoneKept ==
  ASSUME IInv, HighInv, calls /= <<>>, NEW next \in Seq(Frame), Call(next),
         \/ Head(calls).slot /= "CheckGone"
         \/ links = <<>> => MayBeSilent',
         links' = <<>> => links = <<>>, MayBeSilent => MayBeSilent'
  PROVE  NoneIsLeft'
<1>1. ASSUME NEW k \in DOMAIN calls, calls[k].slot = "CheckGone", Head(calls).slot /= "CheckGone"
      PROVE  \E j \in DOMAIN calls' : calls'[j].slot = "CheckGone"
  <2>1. k >= 2
    BY <1>1, HeadFirst
  <2>2. PICK n : Shifts(next, n)
    BY Shifted
  <2>3. \E j \in DOMAIN calls' : calls'[j] = calls[k]
    BY <2>1, <2>2 DEF Shifts
  <2> QED
    BY <1>1, <2>3
<1> QED
  BY <1>1 DEF HighInv, NoneIsLeft

\* What leaves the links and the choice alone
LEMMA ChannelKept ==
  ASSUME HighInv, UNCHANGED <<timer, pending, priorityLink, highLatencyLink, told>>,
         created' = FALSE => created = FALSE, gone = TRUE => gone' = TRUE
  PROVE  /\ HighIsNeverQuiet' /\ HighIsKnown' /\ Stopped' /\ NewIsSilent'
         /\ MayBeSilent => MayBeSilent'
         /\ \A l : LinkActive(l)' <=> LinkActive(l)
  BY DEF HighInv, HighIsNeverQuiet, HighIsKnown, Stopped, NewIsSilent, MayBeSilent, LinkActive
-----------------------------------------------------------------------------
(* The handlers keep HighInv *)

\* Handlers that leave the links and the choice alone
LEMMA PlainKept ==
  ASSUME IInv, HighInv, calls /= <<>>, NEW c \in Frame, Head(calls) = c,
         c.slot \notin {"StartTimer", "LinkDeleted"},
         UNCHANGED <<open, timer, pending, priorityLink, highLatencyLink, told, created, links,
                     autoDisconnect>>,
         gone = TRUE => gone' = TRUE, c.slot /= "CheckGone" \/ (links = <<>> => gone' = TRUE),
         NEW next \in Seq(Frame), Call(next), NextIsSilent(next),
         Harmless(c, 1) /\ autoDisconnect = FALSE => \A i \in DOMAIN next : Harmless(next[i], i)'
  PROVE  HighInv'
<1>1. /\ HighIsNeverQuiet' /\ HighIsKnown' /\ Stopped' /\ NewIsSilent'
      /\ MayBeSilent => MayBeSilent'
      /\ \A l : LinkActive(l)' <=> LinkActive(l)
  BY ChannelKept
<1>2. SilentCalls' /\ SilentLinks'
  BY <1>1, SilentKept
<1>3. NoneIsLeft'
  BY <1>1, NoneKept DEF MayBeSilent
<1>4. HighIsActive'
  <2> SUFFICES ASSUME NEW l \in ToSet(links) \cap HighLatency PROVE LinkActive(l)' \/ IsNew(l)'
    BY DEF HighIsActive
  <2>1. LinkActive(l) \/ IsNew(l)
    BY DEF HighInv, HighIsActive
  <2>2. ASSUME IsNew(l) PROVE IsNew(l)'
    <3>1. Harmless(c, 1) /\ autoDisconnect = FALSE
      BY <2>2, NewIsHarmless DEF IsNew
    <3> QED
      BY <2>2, <3>1, NewKept
  <2> QED
    BY <1>1, <2>1, <2>2
<1> QED
  BY <1>1, <1>2, <1>3, <1>4 DEF HighInv

LEMMA MessageReceivedHigh ==
  ASSUME IInv, HighInv, calls /= <<>>, NEW c \in Frame, Head(calls) = c, c.slot = "MessageReceived",
         MessageReceived(c.link, c.message)
  PROVE  HighInv'
<1> DEFINE f == AddLinkTo(c.link)
           g == DisconnectFrom("DisconnectUsb", 1)
           add == IF created /\ c.link \notin ToSet(links) THEN <<f>> ELSE <<>>
           close == IF created /\ c.message = "Reboot" THEN <<g>> ELSE <<>>
           calling == add \o close
<1>1. /\ UNCHANGED <<open, timer, pending, priorityLink, highLatencyLink, told, created, links,
                     autoDisconnect, gone>>
      /\ Call(calling) /\ c.link \in Link
  BY FrameFields DEF MessageReceived, channelVars, choiceVars, lifeVars, lossVars
<1>2. /\ f \in Frame /\ g \in Frame /\ f.slot = "AddLink" /\ f.link = c.link
      /\ g.slot = "DisconnectUsb"
  BY <1>1, FramesAre DEF AddLinkTo, DisconnectFrom
<1> HIDE DEF f, g
<1>3. /\ add \in Seq(Frame) /\ close \in Seq(Frame)
      /\ add = <<>> \/ add = <<f>>
      /\ close = <<>> \/ close = <<g>>
  BY <1>2
<1> HIDE DEF add, close
<1>4. PICK next \in Seq(Frame) :
        next = calling /\ \A i \in DOMAIN next : next[i] = f \/ next[i] = g
  <2>1. calling \in Seq(Frame) /\ \A i \in DOMAIN calling : calling[i] = f \/ calling[i] = g
    BY <1>3
  <2> HIDE DEF calling
  <2> QED
    BY <2>1
<1> HIDE DEF calling
<1>5. LinkActive(c.link) /\ (links = <<>> => MayBeSilent)
  <2>1. 1 \in DOMAIN calls /\ calls[1] = c /\ DOMAIN calls = 1 .. Len(calls) /\ Len(calls) \in Nat
    BY HeadFirst
  <2>2. /\ Len(calls) = 1
        /\ LinkActive(c.link) \/ \E i \in 1 .. (1 - 1) : calls[i].slot = "StartTimer"
    BY <2>1 DEF HighInv, SilentLinks
  <2>3. \A j \in DOMAIN calls : calls[j] = c
    BY <2>1, <2>2
  <2> QED
    BY <2>2, <2>3 DEF HighInv, NoneIsLeft
<1>6. LinkActive(c.link)' /\ (links' = <<>> => MayBeSilent')
  BY <1>1, <1>5 DEF LinkActive, MayBeSilent
<1>7. NextIsSilent(next)
  <2>1. LinkActive(f.link)' /\ (links' = <<>> => MayBeSilent')
    BY <1>2, <1>6 DEF LinkActive
  <2>2. \A i \in DOMAIN next : next[i].slot = "AddLink" => next[i] = f
    BY <1>2, <1>4
  <2>3. \A i \in DOMAIN next : next[i].slot = "AddLink" => LinkActive(next[i].link)'
    BY <2>1, <2>2
  <2> QED
    BY <1>2, <1>4, <2>1, <2>3 DEF NextIsSilent
<1>8. ~Harmless(c, 1)
  BY DEF Harmless
<1> QED
  BY <1>1, <1>4, <1>7, <1>8, PlainKept

LEMMA LinkActiveChangedHigh ==
  ASSUME IInv, HighInv, calls /= <<>>, NEW c \in Frame, Head(calls) = c, c.slot = "LinkActiveChanged",
         LinkActiveChanged(c.link, c.active)
  PROVE  HighInv'
<1> DEFINE quiet == UpdatePriorityLinkWith(FALSE, TRUE)
           lost == UpdatePriorityLinkWith(FALSE, FALSE)
           check == [slot |-> "CheckLoss", link |-> c.link]
<1>1. /\ UNCHANGED <<open, timer, pending, priorityLink, highLatencyLink, told, created, links,
                     autoDisconnect, gone>>
      /\ c.link \in Link /\ c.active \in BOOLEAN
  BY FrameFields DEF LinkActiveChanged, channelVars, choiceVars, lifeVars
<1>2. /\ quiet \in Frame /\ lost \in Frame /\ check \in Frame
      /\ quiet.slot = "UpdatePriorityLink" /\ quiet.sendCommand = TRUE
      /\ lost.slot = "UpdatePriorityLink" /\ lost.sendCommand = FALSE /\ check.slot = "CheckLoss"
  BY <1>1 DEF Frame, UpdatePriorityLinkWith
<1>3. \/ c.link /= priorityLink /\ Call(<<quiet>>)
      \/ c.link = priorityLink /\ c.active = FALSE /\ Call(<<lost, check>>)
      \/ Call(<<>>)
  BY <1>1 DEF LinkActiveChanged
<1> HIDE DEF quiet, lost, check
<1>4. CASE c.link /= priorityLink /\ Call(<<quiet>>)
  <2> DEFINE next == <<quiet>>
  <2>1. next \in Seq(Frame) /\ Call(next) /\ \A i \in DOMAIN next : next[i] = quiet
    BY <1>2, <1>4
  <2> HIDE DEF next
  <2>2. NextIsSilent(next) /\ ~Harmless(c, 1)
    BY <1>2, <1>4, <2>1 DEF NextIsSilent, Harmless
  <2> QED
    BY <1>1, <2>1, <2>2, PlainKept
<1>5. CASE c.link = priorityLink /\ c.active = FALSE /\ Call(<<lost, check>>)
  <2> DEFINE next == <<lost, check>>
  <2>1. /\ next \in Seq(Frame) /\ Call(next)
        /\ \A i \in DOMAIN next : (i = 1 /\ next[i] = lost) \/ next[i] = check
    BY <1>2, <1>5
  <2> HIDE DEF next
  <2>2. MayBeSilent
    <3>1. 1 \in DOMAIN calls /\ calls[1] = c
      BY HeadFirst
    <3>2. c.link \in HighLatency => MayBeSilent
      BY <1>5, <3>1 DEF HighInv, SilentCalls
    <3> QED
      BY <1>5, <3>2 DEF HighInv, Stopped, MayBeSilent
  <2>3. MayBeSilent'
    BY <1>1, <2>2 DEF MayBeSilent
  <2>4. NextIsSilent(next) /\ \A i \in DOMAIN next : Harmless(next[i], i)'
    BY <1>2, <2>1, <2>3 DEF NextIsSilent, Harmless
  <2> QED
    BY <1>1, <2>1, <2>4, PlainKept
<1>6. CASE Call(<<>>)
  <2> DEFINE next == <<>>
  <2>1. next \in Seq(Frame) /\ Call(next) /\ DOMAIN next = {}
    BY <1>6
  <2> HIDE DEF next
  <2>2. NextIsSilent(next)
    BY <2>1 DEF NextIsSilent
  <2> QED
    BY <1>1, <2>1, <2>2, PlainKept
<1> QED
  BY <1>3, <1>4, <1>5, <1>6

LEMMA CheckLossHigh ==
  ASSUME IInv, HighInv, calls /= <<>>, NEW c \in Frame, Head(calls) = c, c.slot = "CheckLoss",
         CheckLoss(c.link)
  PROVE  HighInv'
<1> DEFINE f == DisconnectFrom("DisconnectInactiveVehicle", 1)
           next == IF c.link = priorityLink /\ autoDisconnect THEN <<f>> ELSE <<>>
<1>1. /\ UNCHANGED <<open, timer, pending, priorityLink, highLatencyLink, told, created, links,
                     autoDisconnect, gone>>
      /\ Call(next) /\ autoDisconnect \in BOOLEAN
  BY DEF CheckLoss, channelVars, choiceVars, lifeVars, IInv, LinksTypeOK
<1>2. f \in Frame /\ f.slot = "DisconnectInactiveVehicle"
  BY FramesAre DEF DisconnectFrom
<1> HIDE DEF f
<1>3. /\ next \in Seq(Frame) /\ \A i \in DOMAIN next : next[i] = f
      /\ autoDisconnect = FALSE => DOMAIN next = {}
  BY <1>2
<1> HIDE DEF next
<1>4. NextIsSilent(next)
  BY <1>2, <1>3 DEF NextIsSilent
<1> QED
  BY <1>1, <1>3, <1>4, PlainKept

LEMMA CheckGoneHigh ==
  ASSUME IInv, HighInv, calls /= <<>>, NEW c \in Frame, Head(calls) = c, c.slot = "CheckGone",
         CheckGone
  PROVE  HighInv'
<1> DEFINE next == <<>>
<1>1. /\ UNCHANGED <<open, timer, pending, priorityLink, highLatencyLink, told, created, links,
                     autoDisconnect>>
      /\ gone = TRUE => gone' = TRUE
      /\ links = <<>> => gone' = TRUE
      /\ Call(next)
  BY DEF CheckGone, channelVars, choiceVars, lossVars, Returns
<1>2. next \in Seq(Frame) /\ DOMAIN next = {}
  OBVIOUS
<1> HIDE DEF next
<1>3. NextIsSilent(next) /\ ~Harmless(c, 1)
  BY <1>2 DEF NextIsSilent, Harmless
<1> QED
  BY <1>1, <1>2, <1>3, PlainKept

LEMMA DisconnectEachHigh ==
  ASSUME IInv, HighInv, calls /= <<>>, NEW c \in Frame, Head(calls) = c,
         c.slot \in {"DisconnectInactiveVehicle", "DisconnectUsb"},
         NEW toClose, DisconnectEach(c.slot, c.index, toClose)
  PROVE  HighInv'
<1>1. UNCHANGED <<open, timer, pending, priorityLink, highLatencyLink, told, created, links,
                  autoDisconnect, gone>>
  BY DEF DisconnectEach, channelVars, choiceVars, lifeVars, lossVars
<1>2. PICK next \in Seq(Frame) :
        Call(next) /\ \A i \in DOMAIN next : next[i].slot \in {c.slot, "DisconnectLink"}
  BY DisconnectEachCalls
<1>3. NextIsSilent(next) /\ ~Harmless(c, 1)
  BY <1>2 DEF NextIsSilent, Harmless
<1> QED
  BY <1>1, <1>2, <1>3, PlainKept

LEMMA AddLinkHigh ==
  ASSUME IInv, HighInv, calls /= <<>>, NEW c \in Frame, Head(calls) = c, c.slot = "AddLink",
         AddLink(c.link)
  PROVE  HighInv'
<1> DEFINE l == c.link
           f == UpdatePriorityLinkWith(TRUE, links /= <<>>)
           next == <<f>>
<1>1. /\ UNCHANGED <<open, timer, pending, priorityLink, highLatencyLink, told, created,
                     autoDisconnect, gone>>
      /\ links' = Append(links, l) /\ Call(next) /\ l \in Link /\ links \in Seq(Link)
  BY FrameFields DEF AddLink, channelVars, choiceVars, lossVars, IInv, LinksTypeOK
<1>2. f \in Frame /\ f.slot = "UpdatePriorityLink" /\ (f.sendCommand = TRUE <=> links /= <<>>)
      /\ f.sendCommand \in BOOLEAN
  <2>1. \A b \in BOOLEAN : UpdatePriorityLinkWith(TRUE, b) \in Frame
    BY FramesAre
  <2> QED
    BY <2>1 DEF UpdatePriorityLinkWith
<1>3. /\ links' /= <<>> /\ ToSet(links') \subseteq ToSet(links) \cup {l}
      /\ links = <<>> => links' = <<l>>
  <2>1. /\ DOMAIN links' = 1 .. Len(links) + 1 /\ Len(links) \in Nat
        /\ DOMAIN links = 1 .. Len(links) /\ links'[Len(links) + 1] = l
        /\ \A i \in DOMAIN links : links'[i] = links[i]
    BY <1>1
  <2>2. ToSet(links') \subseteq ToSet(links) \cup {l}
    BY <2>1 DEF ToSet
  <2>3. links' /= <<>> /\ Append(<<>>, l) = <<l>>
    BY <1>1
  <2>4. links = <<>> => links' = <<l>>
    BY <1>1, <2>3
  <2> QED
    BY <2>2, <2>3, <2>4
<1> HIDE DEF f
<1>4. /\ next \in Seq(Frame) /\ DOMAIN next = {1} /\ next[1] = f
  BY <1>2
<1> HIDE DEF next
<1>5. /\ HighIsNeverQuiet' /\ HighIsKnown' /\ Stopped' /\ NewIsSilent'
      /\ MayBeSilent => MayBeSilent'
      /\ \A k : LinkActive(k)' <=> LinkActive(k)
  BY <1>1, ChannelKept
<1>6. /\ links = <<>> => MayBeSilent
      /\ \/ LinkActive(l)
         \/ /\ links = <<>> /\ told = "Nothing" /\ autoDisconnect = FALSE
            /\ 2 \in DOMAIN calls /\ calls[2].slot = "StartTimer" /\ calls[2].link = l
  <2>1. 1 \in DOMAIN calls /\ calls[1] = c
    BY HeadFirst
  <2> QED
    BY <2>1 DEF HighInv, SilentLinks
<1>7. SilentCalls' /\ SilentLinks'
  <2>1. NextIsSilent(next)
    BY <1>2, <1>4, <1>5, <1>6 DEF NextIsSilent
  <2> QED
    BY <1>4, <1>1, <1>5, <2>1, SilentKept
<1>8. NoneIsLeft'
  BY <1>3 DEF NoneIsLeft
<1>9. ASSUME NEW k \in ToSet(links') \cap HighLatency PROVE LinkActive(k)' \/ IsNew(k)'
  <2>1. CASE k \in ToSet(links)
    <3>1. ~Harmless(c, 1) /\ c.slot \notin {"StartTimer", "LinkDeleted"}
      BY DEF Harmless
    <3>2. LinkActive(k)
      BY <1>9, <2>1, <3>1, NewIsHarmless DEF HighInv, HighIsActive
    <3> QED
      BY <1>5, <3>2
  <2>2. CASE k \notin ToSet(links)
    <3>1. k = l
      BY <1>3, <1>9, <2>2
    <3>2. CASE LinkActive(l)
      BY <1>5, <3>1, <3>2
    <3>3. CASE /\ links = <<>> /\ told = "Nothing" /\ autoDisconnect = FALSE
               /\ 2 \in DOMAIN calls /\ calls[2].slot = "StartTimer" /\ calls[2].link = l
      <4>1. PICK n : Shifts(next, n)
        BY <1>1, <1>4, Shifted
      <4>2. n = 1
        BY <1>4, <4>1 DEF Shifts
      <4>3. 2 \in DOMAIN calls' /\ calls'[2] = calls[2] /\ calls'[1] = f
        BY <1>4, <3>3, <4>1, <4>2 DEF Shifts
      <4>4. f.slot = "UpdatePriorityLink" /\ f.sendCommand = FALSE
        BY <1>2, <3>3
      <4>5. \A i \in 1 .. (2 - 1) : i = 1
        OBVIOUS
      <4>6. links' = <<k>> /\ told' = "Nothing" /\ autoDisconnect' = FALSE
        BY <1>1, <1>3, <3>1, <3>3
      <4> QED
        BY <3>1, <3>3, <4>3, <4>4, <4>5, <4>6 DEF IsNew, Harmless
    <3> QED
      BY <1>6, <3>2, <3>3
  <2> QED
    BY <2>1, <2>2
<1>10. HighIsActive'
  BY <1>9 DEF HighIsActive
<1> QED
  BY <1>5, <1>7, <1>8, <1>10 DEF HighInv
-----------------------------------------------------------------------------
\* A new choice of a link of the vehicle
LEMMA SwitchedHigh ==
  ASSUME IInv, HighInv, NEW l \in ToSet(links), NEW sendCommand \in BOOLEAN,
         SwitchTo(l, sendCommand), sendCommand = FALSE => MayBeSilent,
         UNCHANGED <<open, pending, links, created, gone>>
  PROVE  /\ HighIsNeverQuiet' /\ HighIsKnown' /\ Stopped' /\ NewIsSilent' /\ NoneIsLeft'
         /\ sendCommand = FALSE => MayBeSilent' /\ told' = told
         /\ priorityLink' = l /\ \A k \in open : LinkActive(k)' <=> LinkActive(k)
<1>1. /\ priorityLink' = l /\ highLatencyLink' = (l \in HighLatency) /\ FreedIfUnused
      /\ told' = IF sendCommand /\ highLatencyLink /= (l \in HighLatency)
                 THEN (IF l \in HighLatency THEN "Start" ELSE "Stop") ELSE told
      /\ highLatencyLink \in BOOLEAN /\ (highLatencyLink = TRUE <=> priorityLink \in HighLatency)
  BY DEF SwitchTo, UpdateHighLatencyLink, FreedIfUnused, HighInv, HighIsKnown, IInv, LinksTypeOK
<1>2. \A k \in open : LinkActive(k)' <=> LinkActive(k)
  BY <1>1, FreedKept
<1>3. HighIsNeverQuiet'
  <2>1. \A k \in Link : timer'[k] = timer[k] \/ timer'[k] = "None"
    BY <1>1 DEF FreedIfUnused, TimerWithout, IInv, LinksTypeOK
  <2> QED
    BY <2>1, LinkAssumption DEF HighInv, HighIsNeverQuiet
<1>4. HighIsKnown'
  BY <1>1 DEF HighIsKnown
<1>5. sendCommand = FALSE => MayBeSilent' /\ told' = told
  BY <1>1 DEF MayBeSilent
<1>6. Stopped'
  <2>1. CASE sendCommand = FALSE
    BY <1>5, <2>1 DEF MayBeSilent, Stopped
  <2>2. CASE sendCommand = TRUE /\ highLatencyLink /= (l \in HighLatency)
    BY <1>1, <2>2 DEF Stopped
  <2>3. CASE sendCommand = TRUE /\ highLatencyLink = (l \in HighLatency)
    BY <1>1, <2>3 DEF Stopped, HighInv
  <2> QED
    BY <2>1, <2>2, <2>3
<1>7. links /= <<>> /\ (created = FALSE => links = <<>>)
  BY DEF ToSet, IInv, NewIsQuiet
<1>8. NewIsSilent' /\ NoneIsLeft'
  BY <1>7 DEF NewIsSilent, NoneIsLeft
<1> QED
  BY <1>1, <1>2, <1>3, <1>4, <1>5, <1>6, <1>8

LEMMA UpdatePriorityLinkHigh ==
  ASSUME IInv, HighInv, calls /= <<>>, NEW c \in Frame, Head(calls) = c, c.slot = "UpdatePriorityLink",
         UpdatePriorityLink(c.updateActive, c.sendCommand)
  PROVE  HighInv'
<1>1. /\ UNCHANGED <<open, pending, created, links, gone, autoDisconnect>>
      /\ c.updateActive \in BOOLEAN /\ c.sendCommand \in BOOLEAN
      /\ ToSet(links) \subseteq open /\ links \in Seq(Link) /\ open \subseteq Link
  BY FrameFields, LinksOpen DEF UpdatePriorityLink, lifeVars, lossVars, IInv, LinksTypeOK
<1>2. CASE Returns /\ UNCHANGED <<timer, priorityLink, highLatencyLink, told>>
  <2> DEFINE next == <<>>
  <2>1. next \in Seq(Frame) /\ Call(next) /\ DOMAIN next = {}
    BY <1>2 DEF Returns
  <2> HIDE DEF next
  <2>2. NextIsSilent(next)
    BY <2>1 DEF NextIsSilent
  <2> QED
    BY <1>1, <1>2, <2>1, <2>2, PlainKept
<1>3. CASE /\ links /= <<>> /\ SwitchTo(BestLink, c.sendCommand)
           /\ Call(IF c.updateActive
                   THEN <<LinkActiveChangedTo(BestLink, LinkActive(BestLink))>> ELSE <<>>)
  <2>1. PICK l \in ToSet(links) : l = BestLink
    BY <1>1, <1>3, BestIsBest
  <2>2. PICK f : f = LinkActiveChangedTo(l, LinkActive(l))
    OBVIOUS
  <2>3. /\ f \in Frame /\ f.slot = "LinkActiveChanged" /\ f.link = l /\ f.active = LinkActive(l)
    <3>1. \A b \in BOOLEAN : LinkActiveChangedTo(l, b) \in Frame
      BY <1>1, FramesAre
    <3> QED
      BY <2>2, <3>1 DEF LinkActiveChangedTo, LinkActive
  <2>4. PICK next \in Seq(Frame) :
          Call(next) /\ \A i \in DOMAIN next : i = 1 /\ next[i] = f
    <3>1. CASE c.updateActive = TRUE
      <4>1. Call(<<f>>)
        BY <1>3, <2>1, <2>2, <3>1
      <4>2. <<f>> \in Seq(Frame) /\ \A i \in DOMAIN <<f>> : i = 1 /\ <<f>>[i] = f
        BY <2>3
      <4> QED
        BY <4>1, <4>2
    <3>2. CASE c.updateActive = FALSE
      <4>1. Call(<<>>)
        BY <1>3, <3>2
      <4>2. <<>> \in Seq(Frame) /\ \A i \in DOMAIN <<>> : i = 1 /\ <<>>[i] = f
        OBVIOUS
      <4> QED
        BY <4>1, <4>2
    <3> QED
      BY <1>1, <3>1, <3>2
  <2>5. c.sendCommand = FALSE => MayBeSilent
    <3>1. 1 \in DOMAIN calls /\ calls[1] = c
      BY HeadFirst
    <3> QED
      BY <3>1 DEF HighInv, SilentCalls
  <2>6. /\ HighIsNeverQuiet' /\ HighIsKnown' /\ Stopped' /\ NewIsSilent' /\ NoneIsLeft'
        /\ c.sendCommand = FALSE => MayBeSilent' /\ told' = told
        /\ priorityLink' = l /\ \A k \in open : LinkActive(k)' <=> LinkActive(k)
    <3>1. SwitchTo(l, c.sendCommand)
      BY <1>3, <2>1
    <3> QED
      BY <1>1, <2>1, <2>5, <3>1, SwitchedHigh
  <2>7. ASSUME NEW k, IsNew(k) PROVE k = l /\ c.sendCommand = FALSE
    <3>1. Harmless(c, 1) /\ links = <<k>>
      BY <2>7, NewIsHarmless DEF IsNew
    <3> QED
      BY <2>1, <3>1 DEF Harmless, ToSet
  <2>8. \A k \in ToSet(links) \cap HighLatency : LinkActive(k) \/ IsNew(k)
    BY DEF HighInv, HighIsActive
  <2>9. f.active = FALSE /\ f.link \in HighLatency => MayBeSilent'
    <3>1. ASSUME ~LinkActive(l), l \in HighLatency PROVE MayBeSilent'
      BY <2>1, <2>6, <2>7, <2>8, <3>1
    <3> QED
      BY <2>3, <3>1
  <2>10. SilentCalls' /\ SilentLinks'
    <3>1. NextIsSilent(next)
      BY <2>3, <2>4, <2>9 DEF NextIsSilent
    <3> QED
      BY <2>4, <2>6, <3>1, SilentKept
  <2>11. HighIsActive'
    <3> SUFFICES ASSUME NEW k \in ToSet(links) \cap HighLatency PROVE LinkActive(k)' \/ IsNew(k)'
      BY <1>1 DEF HighIsActive
    <3>1. CASE LinkActive(k)
      BY <1>1, <2>6, <3>1
    <3>2. CASE IsNew(k)
      <4>1. \A i \in DOMAIN next : Harmless(next[i], i)'
        BY <2>3, <2>4, <2>6 DEF Harmless
      <4>2. told' = told
        BY <2>6, <2>7, <3>2
      <4> QED
        BY <1>1, <2>4, <3>2, <4>1, <4>2, NewKept
    <3> QED
      BY <2>8, <3>1, <3>2
  <2> QED
    BY <2>6, <2>10, <2>11 DEF HighInv
<1> QED
  BY <1>2, <1>3 DEF UpdatePriorityLink

LEMMA AllTrue ==
  ASSUME NEW s \in Seq(BOOLEAN), \A i \in DOMAIN s : s[i] = TRUE
  PROVE  /\ \A i \in DOMAIN Append(s, TRUE) : Append(s, TRUE)[i] = TRUE
         /\ \A n \in 0 .. Len(s) : \A i \in DOMAIN SubSeq(s, 1, n) : SubSeq(s, 1, n)[i] = TRUE
         /\ s /= <<>> => Head(s) = TRUE /\ \A i \in DOMAIN Tail(s) : Tail(s)[i] = TRUE
<1>1. \A i \in DOMAIN Append(s, TRUE) : Append(s, TRUE)[i] = TRUE
  OBVIOUS
<1>2. \A n \in 0 .. Len(s) : \A i \in DOMAIN SubSeq(s, 1, n) : SubSeq(s, 1, n)[i] = TRUE
  OBVIOUS
<1>3. ASSUME s /= <<>>
      PROVE  Head(s) = TRUE /\ \A i \in DOMAIN Tail(s) : Tail(s)[i] = TRUE
  <2>1. Len(s) \in Nat /\ Len(s) >= 1 /\ DOMAIN s = 1 .. Len(s) /\ Head(s) = s[1]
    BY <1>3
  <2>2. DOMAIN Tail(s) = 1 .. (Len(s) - 1)
    BY <1>3
  <2>3. ASSUME NEW i \in DOMAIN Tail(s) PROVE Tail(s)[i] = TRUE
    <3>1. Tail(s)[i] = s[i + 1]
      BY <1>3, <2>3
    <3>2. i + 1 \in DOMAIN s
      BY <2>1, <2>2, <2>3
    <3> QED
      BY <3>1, <3>2
  <2>4. s[1] = TRUE
    BY <2>1
  <2> QED
    BY <2>1, <2>3, <2>4
<1> QED
  BY <1>1, <1>2, <1>3

LEMMA StartTimerHigh ==
  ASSUME IInv, HighInv, calls /= <<>>, NEW c \in Frame, Head(calls) = c, c.slot = "StartTimer",
         StartTimer(c.link)
  PROVE  HighInv'
<1> DEFINE l == c.link
           f == LinkActiveChangedTo(l, TRUE)
<1>1. /\ UNCHANGED <<open, priorityLink, highLatencyLink, told, created, links, gone, autoDisconnect>>
      /\ l \in Link /\ timer \in [Link -> {"None", "Active", "Inactive"}]
      /\ pending \in [Link -> Seq(BOOLEAN)] /\ pending[l] \in Seq(BOOLEAN)
      /\ timer' = [timer EXCEPT ![l] = "Active"]
  BY FrameFields DEF StartTimer, choiceVars, lifeVars, lossVars, IInv, LinksTypeOK
<1>2. LinkActive(l)' /\ \A k : LinkActive(k) => LinkActive(k)'
  BY <1>1 DEF LinkActive
<1>3. f \in Frame /\ f.slot = "LinkActiveChanged" /\ f.active = TRUE
  BY <1>1, FramesAre DEF LinkActiveChangedTo
<1>4. /\ \/ pending' = pending
         \/ pending' = [pending EXCEPT ![l] = Append(pending[l], TRUE)]
         \/ pending' = [pending EXCEPT ![l] = <<>>]
      /\ Call(<<>>) \/ Call(<<f>>)
  BY DEF StartTimer, EmitActiveChanged, Returns
<1> HIDE DEF f
<1>5. PICK next \in Seq(Frame) : Call(next) /\ \A i \in DOMAIN next : next[i] = f
  <2>1. <<>> \in Seq(Frame) /\ DOMAIN <<>> = {}
    OBVIOUS
  <2>2. <<f>> \in Seq(Frame) /\ \A i \in DOMAIN <<f>> : <<f>>[i] = f
    BY <1>3
  <2> QED
    BY <1>4, <2>1, <2>2
<1>6. HighIsNeverQuiet'
  <2>1. \A k \in HighLatency : timer'[k] /= "Inactive"
    BY <1>1, LinkAssumption DEF HighInv, HighIsNeverQuiet
  <2>2. \A k \in Link : k /= l => pending'[k] = pending[k]
    BY <1>1, <1>4
  <2>3. l \in HighLatency => \A i \in DOMAIN pending'[l] : pending'[l][i] = TRUE
    <3>1. l \in HighLatency => \A i \in DOMAIN pending[l] : pending[l][i] = TRUE
      BY DEF HighInv, HighIsNeverQuiet
    <3>2. PICK s : s = Append(pending[l], TRUE)
      OBVIOUS
    <3>3. l \in HighLatency => \A i \in DOMAIN s : s[i] = TRUE
      BY <1>1, <3>1, <3>2, AllTrue
    <3>4. pending'[l] = pending[l] \/ pending'[l] = s \/ pending'[l] = <<>>
      BY <1>1, <1>4, <3>2
    <3> QED
      BY <3>1, <3>3, <3>4
  <2> QED
    BY <2>1, <2>2, <2>3, LinkAssumption DEF HighInv, HighIsNeverQuiet
<1>7. HighIsKnown' /\ Stopped' /\ NewIsSilent' /\ (MayBeSilent => MayBeSilent')
  BY <1>1 DEF HighInv, HighIsKnown, Stopped, NewIsSilent, MayBeSilent
<1>8. SilentCalls' /\ SilentLinks'
  <2>1. NextIsSilent(next)
    BY <1>3, <1>5 DEF NextIsSilent
  <2> QED
    BY <1>2, <1>5, <2>1, SilentKept
<1>9. NoneIsLeft'
  BY <1>1, <1>5, <1>7, NoneKept
<1>10. HighIsActive'
  <2> SUFFICES ASSUME NEW k \in ToSet(links) \cap HighLatency, k /= l PROVE LinkActive(k)'
    BY <1>1, <1>2 DEF HighIsActive
  <2>1. ~IsNew(k)
    <3> SUFFICES ASSUME IsNew(k) PROVE FALSE
      OBVIOUS
    <3>1. PICK j \in DOMAIN calls : /\ calls[j].slot = "StartTimer" /\ calls[j].link = k
                                    /\ \A i \in 1 .. (j - 1) : Harmless(calls[i], i)
      BY DEF IsNew
    <3>2. j \in Nat /\ j >= 1 /\ j /= 1 /\ calls[1] = c
      BY <3>1, HeadFirst
    <3>3. 1 \in 1 .. (j - 1)
      BY <3>2
    <3>4. Harmless(c, 1)
      BY <3>1, <3>2, <3>3
    <3> QED
      BY <3>4 DEF Harmless
  <2> QED
    BY <1>2, <2>1 DEF HighInv, HighIsActive
<1> QED
  BY <1>6, <1>7, <1>8, <1>9, <1>10 DEF HighInv

LEMMA DisconnectLinkHigh ==
  ASSUME IInv, HighInv, calls /= <<>>, NEW c \in Frame, Head(calls) = c, c.slot = "DisconnectLink",
         DisconnectLink(c.link)
  PROVE  HighInv'
<1> DEFINE l == c.link
           f == [slot |-> "LinkDeleted", link |-> l]
           calling == IF l \in open THEN [i \in 1 .. connections |-> f] ELSE <<>>
<1>1. /\ UNCHANGED <<priorityLink, highLatencyLink, told, created, links, gone, autoDisconnect>>
      /\ Call(calling) /\ l \in Link /\ connections \in Nat
      /\ f \in Frame /\ f.slot = "LinkDeleted" /\ f.link = l
  BY FrameFields, FramesAre DEF DisconnectLink, choiceVars, lifeVars, lossVars, Returns, IInv,
                                LinksTypeOK
<1>2. /\ timer \in [Link -> {"None", "Active", "Inactive"}]
      /\ pending \in [Link -> Seq(BOOLEAN)] /\ pending[l] \in Seq(BOOLEAN)
  BY <1>1 DEF IInv, LinksTypeOK
<1>3. HighIsNeverQuiet'
  <2>1. \A k \in HighLatency : timer'[k] /= "Inactive"
    BY <1>1, <1>2, LinkAssumption DEF DisconnectLink, TimerWithout, HighInv, HighIsNeverQuiet
  <2>2. \/ pending' = pending
        \/ \E n \in 0 .. Len(pending[l]) :
             pending' = [pending EXCEPT ![l] = SubSeq(pending[l], 1, n)]
    BY DEF DisconnectLink
  <2>3. CASE pending' = pending
    BY <2>1, <2>3 DEF HighInv, HighIsNeverQuiet
  <2>4. ASSUME NEW n \in 0 .. Len(pending[l]),
               pending' = [pending EXCEPT ![l] = SubSeq(pending[l], 1, n)]
        PROVE  HighIsNeverQuiet'
    <3>1. PICK s : s = SubSeq(pending[l], 1, n)
      OBVIOUS
    <3>2. l \in HighLatency => \A i \in DOMAIN pending[l] : pending[l][i] = TRUE
      BY DEF HighInv, HighIsNeverQuiet
    <3>3. l \in HighLatency => \A i \in DOMAIN s : s[i] = TRUE
      BY <1>2, <3>1, <3>2, AllTrue
    <3>4. pending'[l] = s /\ \A k \in Link : k /= l => pending'[k] = pending[k]
      BY <1>1, <1>2, <2>4, <3>1
    <3> QED
      BY <2>1, <3>3, <3>4, LinkAssumption DEF HighInv, HighIsNeverQuiet
  <2> QED
    BY <2>2, <2>3, <2>4
<1>4. \A k : k /= l => (LinkActive(k)' <=> LinkActive(k))
  BY <1>1, <1>2 DEF DisconnectLink, TimerWithout, LinkActive
<1> HIDE DEF f
<1>5. PICK next \in Seq(Frame) :
        /\ Call(next) /\ \A i \in DOMAIN next : next[i] = f
        /\ l \in open /\ connections >= 1 => next /= <<>> /\ next[1] = f
  <2>1. connections \in Nat /\ f \in Frame
    BY <1>1
  <2>2. /\ calling \in Seq(Frame) /\ \A i \in DOMAIN calling : calling[i] = f
        /\ l \in open /\ connections >= 1 => calling /= <<>> /\ calling[1] = f
        /\ l \notin open => calling = <<>>
    BY <2>1
  <2> HIDE DEF calling
  <2> QED
    BY <1>1, <2>2
<1>6. HighIsKnown' /\ Stopped' /\ NewIsSilent' /\ (MayBeSilent => MayBeSilent')
  BY <1>1 DEF HighInv, HighIsKnown, Stopped, NewIsSilent, MayBeSilent
<1>7. SilentCalls' /\ SilentLinks'
  <2>1. NextIsSilent(next)
    BY <1>1, <1>5 DEF NextIsSilent
  <2> QED
    BY <1>5, <2>1, SilentKept
<1>8. NoneIsLeft'
  BY <1>1, <1>5, <1>6, NoneKept
<1>9. HighIsActive'
  <2> SUFFICES ASSUME NEW k \in ToSet(links) \cap HighLatency
               PROVE  \/ LinkActive(k)'
                      \/ calls' /= <<>> /\ Head(calls').slot = "LinkDeleted" /\ Head(calls').link = k
    BY <1>1 DEF HighIsActive
  <2>1. LinkActive(k)
    <3>1. ~Harmless(c, 1)
      BY DEF Harmless
    <3> QED
      BY <3>1, NewIsHarmless DEF HighInv, HighIsActive
  <2>2. CASE k /= l
    BY <1>4, <2>1, <2>2
  <2>3. CASE k = l
    <3>1. l \in open /\ connections >= 1
      BY <2>3, LinksOpen DEF IInv, LinksAreConnected, ToSet
    <3>2. calls' /= <<>> /\ Head(calls') = f
      BY <1>5, <3>1, HeadFirst, CalledFirst DEF Call
    <3> QED
      BY <1>1, <2>3, <3>2
  <2> QED
    BY <2>2, <2>3
<1> QED
  BY <1>3, <1>6, <1>7, <1>8, <1>9 DEF HighInv

LEMMA LinkDeletedHigh ==
  ASSUME IInv, HighInv, calls /= <<>>, NEW c \in Frame, Head(calls) = c, c.slot = "LinkDeleted",
         LinkDeleted(c.link)
  PROVE  HighInv'
<1> DEFINE l == c.link
           f == UpdatePriorityLinkWith(TRUE, TRUE)
           g == [slot |-> "CheckGone"]
           next == <<f, g>>
<1>1. /\ UNCHANGED <<open, timer, pending, priorityLink, highLatencyLink, told, created, gone>>
      /\ Call(next) /\ links' = LinksWithout(l)
  BY DEF LinkDeleted, channelVars, choiceVars
<1>2. /\ f \in Frame /\ f.slot = "UpdatePriorityLink" /\ f.sendCommand = TRUE
      /\ g \in Frame /\ g.slot = "CheckGone"
  BY DEF Frame, UpdatePriorityLinkWith
<1> HIDE DEF f, g
<1>3. /\ next \in Seq(Frame) /\ \A i \in DOMAIN next : next[i] = f \/ next[i] = g
      /\ 2 \in DOMAIN next /\ next[2] = g
  BY <1>2
<1> HIDE DEF next
<1>4. /\ HighIsNeverQuiet' /\ HighIsKnown' /\ Stopped' /\ NewIsSilent'
      /\ \A k : LinkActive(k)' <=> LinkActive(k)
  BY <1>1, ChannelKept
<1>5. SilentCalls' /\ SilentLinks'
  <2>1. NextIsSilent(next)
    BY <1>2, <1>3 DEF NextIsSilent
  <2> QED
    BY <1>1, <1>3, <1>4, <2>1, SilentKept
<1>6. NoneIsLeft'
  <2>1. PICK n : Shifts(next, n)
    BY <1>1, <1>3, Shifted
  <2>2. 2 \in DOMAIN calls' /\ calls'[2] = g
    BY <1>3, <2>1 DEF Shifts
  <2> QED
    BY <1>2, <2>2 DEF NoneIsLeft
<1>7. HighIsActive'
  <2> SUFFICES ASSUME NEW k \in ToSet(links') \cap HighLatency PROVE LinkActive(k)'
    BY DEF HighIsActive
  <2>1. k \in ToSet(links) \cap HighLatency /\ k /= l
    BY <1>1, LinksWithoutIt
  <2>2. ~Harmless(c, 1)
    BY DEF Harmless
  <2> QED
    BY <1>4, <2>1, <2>2, NewIsHarmless DEF HighInv, HighIsActive
<1> QED
  BY <1>4, <1>5, <1>6, <1>7 DEF HighInv
-----------------------------------------------------------------------------
\* With nothing under way, no link is new, and a vehicle without links is gone.
LEMMA HighWhenIdle ==
  ASSUME HighInv, calls = <<>>
  PROVE  /\ \A k \in ToSet(links) \cap HighLatency : LinkActive(k)
         /\ links = <<>> => MayBeSilent
<1>1. DOMAIN calls = {}
  OBVIOUS
<1> QED
  BY <1>1 DEF HighInv, HighIsActive, IsNew, NoneIsLeft

\* What begins with a call that does not keep quiet about a link of high latency
BeginsSilently ==
  \/ calls' = <<>>
  \/ \E f \in Frame :
       /\ calls' = <<f>>
       /\ f.slot \notin {"UpdatePriorityLink", "MessageReceived", "AddLink"}
       /\ f.slot = "LinkActiveChanged" /\ f.active = FALSE => f.link \notin HighLatency

LEMMA BegunHigh ==
  ASSUME HighInv, calls = <<>>, BeginsSilently, UNCHANGED links,
         HighIsNeverQuiet', HighIsKnown', Stopped', NewIsSilent',
         links = <<>> /\ MayBeSilent => MayBeSilent',
         \A k \in ToSet(links) \cap HighLatency : LinkActive(k)'
  PROVE  HighInv'
<1>1. \A j \in DOMAIN calls' :
        /\ calls'[j].slot \notin {"UpdatePriorityLink", "MessageReceived", "AddLink"}
        /\ calls'[j].slot = "LinkActiveChanged" /\ calls'[j].active = FALSE
             => calls'[j].link \notin HighLatency
  <2>1. CASE calls' = <<>>
    BY <2>1
  <2>2. ASSUME NEW f \in Frame, calls' = <<f>> PROVE \A j \in DOMAIN calls' : calls'[j] = f
    BY <2>2
  <2> QED
    BY <2>1, <2>2 DEF BeginsSilently
<1>2. SilentCalls' /\ SilentLinks'
  BY <1>1 DEF SilentCalls, SilentLinks
<1>3. HighIsActive' /\ NoneIsLeft'
  BY HighWhenIdle DEF HighIsActive, NoneIsLeft
<1> QED
  BY <1>2, <1>3 DEF HighInv

LEMMA BytesReceivedHigh ==
  ASSUME IInv, HighInv, NEW l \in Link, NEW message \in {"Heartbeat", "Reboot", "Other"},
         BytesReceived(l, message)
  PROVE  HighInv'
<1>1. /\ calls = <<>>
      /\ UNCHANGED <<open, timer, pending, priorityLink, highLatencyLink, told, links, gone,
                     autoDisconnect>>
      /\ created = TRUE => created' = TRUE
      /\ created \in BOOLEAN /\ created' \in BOOLEAN
  BY DEF BytesReceived, Idle, channelVars, choiceVars, lossVars, IInv, LinksTypeOK
<1>2. PICK a, t, m \in Frame :
        /\ a.slot = "AddLink" /\ a.link = l /\ t.slot = "StartTimer" /\ t.link = l
        /\ m.slot = "MessageReceived" /\ m.link = l
        /\ \/ calls' = <<t, m>>
           \/ created = FALSE /\ created' = TRUE /\ calls' = <<a, t, m>>
  <2>1. CallsOfMessage(l)
    BY ReceivedCalls
  <2> QED
    BY <2>1 DEF CallsOfMessage
<1>3. /\ HighIsNeverQuiet' /\ HighIsKnown' /\ Stopped' /\ NewIsSilent'
      /\ MayBeSilent => MayBeSilent'
      /\ \A k : LinkActive(k)' <=> LinkActive(k)
  BY <1>1, ChannelKept
<1>4. HighIsActive' /\ NoneIsLeft'
  BY <1>1, <1>3, HighWhenIdle DEF HighIsActive, NoneIsLeft
<1>5. CASE calls' = <<t, m>>
  <2>1. /\ DOMAIN calls' = 1 .. 2 /\ Len(calls') = 2 /\ calls'[1] = t /\ calls'[2] = m
        /\ 1 \in 1 .. (2 - 1)
    BY <1>5
  <2>2. SilentCalls'
    BY <1>2, <2>1 DEF SilentCalls
  <2>3. SilentLinks'
    BY <1>2, <2>1 DEF SilentLinks
  <2> QED
    BY <1>3, <1>4, <2>2, <2>3 DEF HighInv
<1>6. CASE created = FALSE /\ created' = TRUE /\ calls' = <<a, t, m>>
  <2>1. /\ DOMAIN calls' = 1 .. 3 /\ Len(calls') = 3
        /\ calls'[1] = a /\ calls'[2] = t /\ calls'[3] = m
        /\ 2 \in 1 .. (3 - 1) /\ 2 \in 1 .. 3
    BY <1>6
  <2>2. links' = <<>> /\ told' = "Nothing" /\ autoDisconnect' = FALSE /\ MayBeSilent'
    BY <1>1, <1>6 DEF IInv, NewIsQuiet, HighInv, NewIsSilent, MayBeSilent
  <2>3. SilentCalls'
    BY <1>2, <2>1 DEF SilentCalls
  <2>4. SilentLinks'
    BY <1>2, <2>1, <2>2 DEF SilentLinks
  <2> QED
    BY <1>3, <1>4, <2>3, <2>4 DEF HighInv
<1> QED
  BY <1>2, <1>5, <1>6

LEMMA TimerTimeoutHigh ==
  ASSUME IInv, HighInv, NEW l \in Link, TimerTimeout(l)
  PROVE  HighInv'
<1> DEFINE f == LinkActiveChangedTo(l, FALSE)
<1>1. /\ calls = <<>> /\ l \notin HighLatency
      /\ UNCHANGED <<links, priorityLink, highLatencyLink, told, created, gone>>
      /\ \A k \in Link : k /= l => timer'[k] = timer[k] /\ pending'[k] = pending[k]
      /\ calls' = <<>> \/ calls' = <<f>>
  BY DEF TimerTimeout, Idle, choiceVars, lifeVars, IInv, LinksTypeOK
<1>2. f \in Frame /\ f.slot = "LinkActiveChanged" /\ f.link = l
  BY FramesAre DEF LinkActiveChangedTo
<1> HIDE DEF f
<1>3. BeginsSilently
  BY <1>1, <1>2 DEF BeginsSilently
<1>4. HighIsNeverQuiet'
  BY <1>1, LinkAssumption DEF HighInv, HighIsNeverQuiet
<1>5. /\ HighIsKnown' /\ Stopped' /\ NewIsSilent'
      /\ MayBeSilent => MayBeSilent'
  BY <1>1 DEF HighInv, HighIsKnown, Stopped, NewIsSilent, MayBeSilent
<1>6. \A k \in ToSet(links) \cap HighLatency : LinkActive(k)'
  BY <1>1, HighWhenIdle, LinkAssumption DEF LinkActive
<1> QED
  BY <1>1, <1>3, <1>4, <1>5, <1>6, BegunHigh

LEMMA SignalArrivesHigh ==
  ASSUME IInv, HighInv, NEW l \in Link, SignalArrives(l)
  PROVE  HighInv'
<1>0. PICK s : s = pending[l]
  OBVIOUS
<1>1. PICK f : f = LinkActiveChangedTo(l, Head(s))
  OBVIOUS
<1>2. /\ calls = <<>> /\ s \in Seq(BOOLEAN) /\ s /= <<>>
      /\ UNCHANGED <<timer, links, priorityLink, highLatencyLink, told, created, gone>>
      /\ pending'[l] = Tail(s) /\ \A k \in Link : k /= l => pending'[k] = pending[k]
      /\ calls' = <<>> \/ calls' = <<f>>
  BY <1>0, <1>1 DEF SignalArrives, Idle, choiceVars, lifeVars, IInv, LinksTypeOK
<1>3. /\ f \in Frame /\ f.slot = "LinkActiveChanged" /\ f.link = l /\ f.active = Head(s)
  <2>1. Head(s) \in BOOLEAN
    BY <1>2
  <2> QED
    BY <1>1, <2>1, FramesAre DEF LinkActiveChangedTo
<1>4. l \in HighLatency => Head(s) = TRUE /\ \A i \in DOMAIN Tail(s) : Tail(s)[i] = TRUE
  <2>1. l \in HighLatency => \A i \in DOMAIN s : s[i] = TRUE
    BY <1>0 DEF HighInv, HighIsNeverQuiet
  <2> QED
    BY <1>2, <2>1, AllTrue
<1>5. BeginsSilently
  BY <1>2, <1>3, <1>4 DEF BeginsSilently
<1>6. HighIsNeverQuiet'
  BY <1>2, <1>4, LinkAssumption DEF HighInv, HighIsNeverQuiet
<1>7. /\ HighIsKnown' /\ Stopped' /\ NewIsSilent'
      /\ MayBeSilent => MayBeSilent'
  BY <1>2 DEF HighInv, HighIsKnown, Stopped, NewIsSilent, MayBeSilent
<1>8. \A k \in ToSet(links) \cap HighLatency : LinkActive(k)'
  BY <1>2, HighWhenIdle DEF LinkActive
<1> QED
  BY <1>2, <1>5, <1>6, <1>7, <1>8, BegunHigh

LEMMA SetPriorityLinkByNameHigh ==
  ASSUME IInv, HighInv, NEW l \in Link, SetPriorityLinkByName(l)
  PROVE  HighInv'
<1>1. PICK f : f = LinkActiveChangedTo(l, LinkActive(l))
  OBVIOUS
<1>2. /\ calls = <<>> /\ l \in ToSet(links) /\ SwitchTo(l, TRUE) /\ calls' = <<f>>
      /\ UNCHANGED <<open, pending, links, created, gone>>
  BY <1>1 DEF SetPriorityLinkByName, Idle, lifeVars
<1>3. f \in Frame /\ f.slot = "LinkActiveChanged" /\ f.link = l /\ f.active = LinkActive(l)
  <2>1. \A b \in BOOLEAN : LinkActiveChangedTo(l, b) \in Frame
    BY FramesAre
  <2> QED
    BY <1>1, <2>1 DEF LinkActiveChangedTo, LinkActive
<1>4. \A k \in ToSet(links) \cap HighLatency : LinkActive(k)
  BY <1>2, HighWhenIdle
<1>5. BeginsSilently
  BY <1>2, <1>3, <1>4 DEF BeginsSilently
<1>6. /\ HighIsNeverQuiet' /\ HighIsKnown' /\ Stopped' /\ NewIsSilent'
      /\ \A k \in open : LinkActive(k)' <=> LinkActive(k)
  BY <1>2, SwitchedHigh
<1>7. links /= <<>> /\ ToSet(links) \subseteq open
  BY <1>2, LinksOpen DEF ToSet
<1>8. \A k \in ToSet(links) \cap HighLatency : LinkActive(k)'
  BY <1>4, <1>6, <1>7
<1> QED
  BY <1>2, <1>5, <1>6, <1>7, <1>8, BegunHigh

LEMMA VehicleDeletedHigh ==
  ASSUME IInv, HighInv, VehicleDeleted
  PROVE  HighInv'
<1>1. /\ links' = <<>> /\ calls' = <<>> /\ UNCHANGED pending
      /\ priorityLink' = NoLink /\ highLatencyLink' = FALSE /\ told' = "Nothing"
      /\ timer' = IF priorityLink \notin open THEN TimerWithout(priorityLink) ELSE timer
  BY DEF VehicleDeleted, Settled, Idle
<1>2. DOMAIN calls' = {} /\ ToSet(links') = {} /\ NoLink \notin HighLatency
  BY <1>1, LinkAssumption DEF ToSet
<1>3. HighIsNeverQuiet'
  <2>1. \A k \in Link : timer'[k] = timer[k] \/ timer'[k] = "None"
    BY <1>1 DEF TimerWithout, IInv, LinksTypeOK
  <2> QED
    BY <1>1, <2>1, LinkAssumption DEF HighInv, HighIsNeverQuiet
<1>4. HighIsActive' /\ HighIsKnown' /\ Stopped' /\ NewIsSilent' /\ NoneIsLeft'
  BY <1>1, <1>2 DEF HighIsActive, HighIsKnown, Stopped, NewIsSilent, NoneIsLeft, MayBeSilent
<1>5. SilentCalls' /\ SilentLinks'
  BY <1>2 DEF SilentCalls, SilentLinks
<1> QED
  BY <1>3, <1>4, <1>5 DEF HighInv

LEMMA UserActionHigh ==
  ASSUME IInv, HighInv,
         \/ \E l \in Link : LinkOpens(l) \/ UserDisconnects(l)
         \/ DisconnectInactiveVehicle
         \/ RebootVehicle
  PROVE  HighInv'
<1>1. /\ calls = <<>>
      /\ UNCHANGED <<timer, pending, priorityLink, highLatencyLink, told, created, links, gone>>
  BY DEF LinkOpens, UserDisconnects, DisconnectInactiveVehicle, RebootVehicle, Idle,
         channelVars, choiceVars, lifeVars, lossVars
<1>2. BeginsSilently
  <2>1. ASSUME NEW l \in Link, UserDisconnects(l) PROVE BeginsSilently
    <3>1. Disconnecting(l) \in Frame /\ Disconnecting(l).slot = "DisconnectLink"
      BY FramesAre DEF Disconnecting
    <3> QED
      BY <2>1, <3>1 DEF UserDisconnects, BeginsSilently
  <2>2. CASE DisconnectInactiveVehicle
    <3>1. /\ DisconnectFrom("DisconnectInactiveVehicle", 1) \in Frame
          /\ DisconnectFrom("DisconnectInactiveVehicle", 1).slot = "DisconnectInactiveVehicle"
      BY FramesAre DEF DisconnectFrom
    <3> QED
      BY <2>2, <3>1 DEF DisconnectInactiveVehicle, BeginsSilently
  <2>3. ASSUME RebootVehicle \/ \E l \in Link : LinkOpens(l) PROVE calls' = <<>>
    BY <1>1, <2>3 DEF RebootVehicle, LinkOpens
  <2> QED
    BY <2>1, <2>2, <2>3 DEF BeginsSilently
<1>3. /\ HighIsNeverQuiet' /\ HighIsKnown' /\ Stopped' /\ NewIsSilent'
      /\ MayBeSilent => MayBeSilent'
      /\ \A k : LinkActive(k)' <=> LinkActive(k)
  BY <1>1, ChannelKept
<1> QED
  BY <1>1, <1>2, <1>3, HighWhenIdle, BegunHigh

LEMMA HandleHigh ==
  ASSUME IInv, HighInv, calls /= <<>>, Handle(Head(calls))
  PROVE  HighInv'
<1> DEFINE c == Head(calls)
<1>1. c \in Frame
  BY HeadIsFrame
<1> QED
  BY <1>1, AddLinkHigh, StartTimerHigh, MessageReceivedHigh, UpdatePriorityLinkHigh,
     LinkActiveChangedHigh, CheckLossHigh, DisconnectEachHigh, DisconnectLinkHigh,
     LinkDeletedHigh, CheckGoneHigh DEF Handle

LEMMA HighInvInit == LinksInit => HighInv
<1> SUFFICES ASSUME LinksInit PROVE HighInv
  OBVIOUS
<1>1. /\ calls = <<>> /\ links = <<>> /\ DOMAIN calls = {} /\ ToSet(links) = {}
      /\ told = "Nothing" /\ highLatencyLink = FALSE /\ priorityLink = NoLink
      /\ \A l \in Link : timer[l] = "None" /\ pending[l] = <<>>
  BY DEF LinksInit, ToSet
<1>2. HighIsNeverQuiet
  BY <1>1, LinkAssumption DEF HighIsNeverQuiet
<1>3. HighIsActive /\ HighIsKnown /\ Stopped /\ NewIsSilent /\ NoneIsLeft
  BY <1>1, LinkAssumption DEF HighIsActive, HighIsKnown, Stopped, NewIsSilent, NoneIsLeft,
                              MayBeSilent
<1>4. SilentCalls /\ SilentLinks
  BY <1>1 DEF SilentCalls, SilentLinks
<1> QED
  BY <1>2, <1>3, <1>4 DEF HighInv

LEMMA HighInvStep == IInv /\ HighInv /\ [LinksNext]_linkVars => HighInv'
<1> SUFFICES ASSUME IInv, HighInv, [LinksNext]_linkVars PROVE HighInv'
  OBVIOUS
<1>1. CASE ~Idle /\ Handle(Head(calls))
  BY <1>1, HandleHigh DEF Idle
<1>2. ASSUME NEW l \in Link, NEW message \in {"Heartbeat", "Reboot", "Other"},
             BytesReceived(l, message)
      PROVE  HighInv'
  BY <1>2, BytesReceivedHigh
<1>3. ASSUME NEW l \in Link, TimerTimeout(l) PROVE HighInv'
  BY <1>3, TimerTimeoutHigh
<1>4. ASSUME NEW l \in Link, SignalArrives(l) PROVE HighInv'
  BY <1>4, SignalArrivesHigh
<1>5. ASSUME NEW l \in Link, SetPriorityLinkByName(l) PROVE HighInv'
  BY <1>5, SetPriorityLinkByNameHigh
<1>6. ASSUME NEW l \in Link, LinkOpens(l) \/ UserDisconnects(l) PROVE HighInv'
  BY <1>6, UserActionHigh
<1>7. CASE DisconnectInactiveVehicle \/ RebootVehicle
  BY <1>7, UserActionHigh
<1>8. CASE VehicleDeleted
  BY <1>8, VehicleDeletedHigh
<1>9. CASE UNCHANGED linkVars
  BY <1>9 DEF linkVars, channelVars, choiceVars, lifeVars, lossVars, HighInv, HighIsNeverQuiet,
              HighIsActive, HighIsKnown, Stopped, NewIsSilent, SilentCalls, SilentLinks,
              NoneIsLeft, MayBeSilent, IsNew, Harmless, LinkActive
<1> QED
  BY <1>1, <1>2, <1>3, <1>4, <1>5, <1>6, <1>7, <1>8, <1>9 DEF LinksNext

\* IInv and HighInv are invariants.
THEOREM HighInvariance == LinksSpec => [](IInv /\ HighInv)
<1> QED
  BY IInvInit, IInvStep, HighInvInit, HighInvStep, PTL DEF LinksSpec

\* A vehicle that was asked to transmit over a link of high latency is asked to stop when
\* it is reached over another link again.
THEOREM HighLatencyStops == LinksSpec => []HighLatencyIsStopped
<1>1. HighInv => HighLatencyIsStopped
  BY DEF HighInv, Stopped, HighLatencyIsStopped
<1> QED
  BY HighInvariance, <1>1, PTL
=============================================================================
