-------------------------- MODULE MockLinkParameters --------------------------
(***************************************************************************)
(* The vehicle's end of the parameter protocol as comm/MockLink.cc          *)
(* implements it for the unit tests, with its failure modes.  What MockLink *)
(* lacks is external: PX4 precedes the answer to a PARAM_REQUEST_LIST with  *)
(* a hash of the values that are not volatile, and stops when the hash is   *)
(* returned to it; values change on the vehicle, too.                       *)
(***************************************************************************)
EXTENDS Integers, Sequences, FiniteSets

CONSTANTS
  DefaultComponent, Value, Volatile,
  FailParam,      \* _failParam, a name
  ReplyCapacity   \* bound: messages the link to the ground holds at once

VARIABLES
  vehicleParams,  \* _mapParamName2Value: a map from names to values by component
  sending,        \* what _paramRequestListWorker has still to send, in order
  sendsHash,      \* the vehicle has a hash to send (external)
  failureMode,    \* _failureMode
  toGcs           \* messages sent to the ground and not yet delivered

Names(c) == DOMAIN vehicleParams[c]
\* The index of a name is its place in the sorted map.
IndexOf(p) == Cardinality({n \in Names(p[1]) : n < p[2]})
NameAt(c, i) == CHOOSE n \in Names(c) : IndexOf(<<c, n>>) = i

ValueOf(p) ==
  [comp |-> p[1], name |-> p[2], count |-> Cardinality(Names(p[1])),
   index |-> IndexOf(p), value |-> vehicleParams[p[1]][p[2]]]
HashOf(c) ==
  [comp |-> c, hash |-> [n \in {m \in Names(c) : <<c, m>> \notin Volatile} |->
                           vehicleParams[c][n]]]

\* respondWithMavlinkMessage; a link that is full loses the message.
Respond(m) == toGcs' = IF Len(toGcs) < ReplyCapacity THEN Append(toGcs, m) ELSE toGcs

Keys == UNION {{c} \X Names(c) : c \in DOMAIN vehicleParams}
InOrder(S) == CHOOSE s \in [1 .. Cardinality(S) -> S] :
                \A i, j \in DOMAIN s :
                  i < j => s[i][1] < s[j][1] \/ (s[i][1] = s[j][1] /\ s[i][2] < s[j][2])

Skipped(p) ==
  /\ failureMode \in {"FailMissingParamOnInitialRequest", "FailMissingParamOnAllRequests"}
  /\ p[2] = FailParam

HandleParamRequestList(m) ==
  /\ sending' = IF failureMode = "FailParamNoResponseToRequestList" THEN sending ELSE InOrder(Keys)
  /\ IF sendsHash THEN Respond(HashOf(DefaultComponent))
     ELSE UNCHANGED toGcs
  /\ UNCHANGED <<vehicleParams, sendsHash, failureMode>>

\* _paramRequestListWorker
SendNextParameter ==
  /\ sending /= <<>>
  /\ sending' = Tail(sending)
  /\ IF Skipped(Head(sending)) THEN UNCHANGED toGcs ELSE Respond(ValueOf(Head(sending)))
  /\ UNCHANGED <<vehicleParams, sendsHash, failureMode>>

HandleParamSet(m) ==
  LET p == <<m.comp, m.param>>
  IN  /\ vehicleParams' = [vehicleParams EXCEPT ![m.comp][m.param] = m.value]
      /\ Respond([ValueOf(p) EXCEPT !.value = m.value])
      /\ UNCHANGED <<sending, sendsHash, failureMode>>

HandleParamRequestRead(m) ==
  LET p == <<m.comp, IF m.kind = "ReadIndex" THEN NameAt(m.comp, m.param) ELSE m.param>>
  IN  /\ IF failureMode = "FailMissingParamOnAllRequests" /\ p[2] = FailParam
         THEN UNCHANGED toGcs ELSE Respond(ValueOf(p))
      /\ UNCHANGED <<vehicleParams, sending, sendsHash, failureMode>>

\* External: the hash is returned, no more values are wanted
HashReturned(m) ==
  /\ sending' = InOrder({p \in {sending[i] : i \in DOMAIN sending} : p[1] /= m.comp})
  /\ UNCHANGED <<vehicleParams, sendsHash, failureMode, toGcs>>

HandleMessage(m) ==
  \/ m.kind = "RequestList" /\ HandleParamRequestList(m)
  \/ m.kind \in {"ReadIndex", "ReadName"} /\ HandleParamRequestRead(m)
  \/ m.kind = "Set" /\ HandleParamSet(m)
  \/ m.kind = "SetHash" /\ HashReturned(m)

\* External: a volatile value changes
VolatileValueChanges ==
  \E p \in Volatile \cap Keys, v \in Value :
    /\ vehicleParams' = [vehicleParams EXCEPT ![p[1]][p[2]] = v]
    /\ UNCHANGED <<sending, sendsHash, failureMode, toGcs>>
=============================================================================
