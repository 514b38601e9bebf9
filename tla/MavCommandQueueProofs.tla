------------------------ MODULE MavCommandQueueProofs ------------------------
(***************************************************************************)
(* Theorems about the command queue of a Vehicle, for every set of commands *)
(* and parameters, firmware, retry bound and capacity, and any vehicle:     *)
(* types, what waits is under way, retries are bounded, and the queue keeps  *)
(* the promise of CommandService.                                            *)
(***************************************************************************)
EXTENDS MavCommandQueue, SequenceTheorems, TLAPS

\* What is sent on a link of requests leaves it one.
LEMMA SendType ==
  ASSUME NEW r \in Request, toVehicle \in Seq(Request), Send(r)
  PROVE  toVehicle' \in Seq(Request)
BY DEF Send

\* The head of a queue of requests is a request, and the rest is a queue.
LEMMA HeadIsRequest ==
  ASSUME NEW queue \in Seq(Request), queue /= <<>>
  PROVE  Head(queue) \in Request /\ Tail(queue) \in Seq(Request)
OBVIOUS

\* What a report says is typed.
LEMMA ReportType ==
  ASSUME NEW name \in CommandName, NEW result \in AckResult, NEW noResponse \in BOOLEAN
  PROVE  Report(name, result, noResponse) \in ResultType
BY DEF Report, ResultType

\* Sending the next command of a queue leaves the queue variables typed and
\* the new head, if there is one, under way.
LEMMA SendNextType ==
  ASSUME NEW queue \in Seq(Request), NEW retries \in Nat,
         toVehicle \in Seq(Request), SendNextQueued(queue, retries)
  PROVE  /\ mavCommandRetryCount' \in Nat
         /\ ackTimerRunning' \in BOOLEAN
         /\ toVehicle' \in Seq(Request)
         /\ queue /= <<>> => ackTimerRunning' = TRUE /\ mavCommandRetryCount' = 1
         /\ queue = <<>> => ackTimerRunning' = FALSE
<1>1. CASE queue /= <<>> /\ SendHead(queue)
  <2>1. Head(queue) \in Request
    BY <1>1, HeadIsRequest
  <2>2. Send(Head(queue)) /\ mavCommandRetryCount' = 1 /\ ackTimerRunning' = TRUE
    BY <1>1 DEF SendHead
  <2>3. toVehicle' \in Seq(Request)
    BY <2>1, <2>2, SendType
  <2> QED
    BY <1>1, <2>2, <2>3
<1>2. CASE /\ queue = <<>>
           /\ ackTimerRunning' = FALSE
           /\ mavCommandRetryCount' = retries
           /\ UNCHANGED toVehicle
  BY <1>2
<1> QED
  BY <1>1, <1>2 DEF SendNextQueued
-----------------------------------------------------------------------------
\* The invariants of the queue are inductive together: the retry bound needs no
\* more than the guard of a retry, and a queue whose head is under way is left
\* with its next head under way.
IInv == TypeOK /\ HeadIsUnderWay /\ RetriesBounded

LEMMA InitInvariant == Init => IInv
<1> SUFFICES ASSUME Init PROVE IInv
  OBVIOUS
<1>1. TypeOK
  BY EmptySeq DEF Init, TypeOK
<1>2. HeadIsUnderWay /\ RetriesBounded
  BY DEF Init, HeadIsUnderWay, RetriesBounded
<1> QED
  BY <1>1, <1>2 DEF IInv

\* A command sent by a caller is put behind the others, or is sent at once.
LEMMA SendKeepsInvariant ==
  ASSUME IInv, NEW r \in Request, SendMavCommand(r)
  PROVE  IInv'
<1> USE DEF IInv
<1>1. mavCommandQueue' = Append(mavCommandQueue, r) /\ results' = {}
  BY DEF SendMavCommand
<1>2. mavCommandQueue' \in Seq(Request) /\ mavCommandQueue' /= <<>>
  BY <1>1 DEF TypeOK
<1>3. CASE IsOnly(mavCommandQueue')
  <2>1. SendHead(mavCommandQueue')
    BY <1>3 DEF SendMavCommand
  <2>2. SendNextQueued(mavCommandQueue', mavCommandRetryCount)
    BY <1>2, <2>1 DEF SendNextQueued
  <2>3. /\ mavCommandRetryCount' \in Nat
        /\ toVehicle' \in Seq(Request)
        /\ ackTimerRunning' = TRUE /\ mavCommandRetryCount' = 1
    BY <1>2, <2>1, HeadIsRequest, SendType DEF SendHead, TypeOK
  <2> QED
    BY <1>1, <1>2, <2>3, RetryAssumption
       DEF TypeOK, HeadIsUnderWay, RetriesBounded, ResultType
<1>4. CASE ~IsOnly(mavCommandQueue')
  <2>1. UNCHANGED <<mavCommandRetryCount, ackTimerRunning, toVehicle>>
    BY <1>4 DEF SendMavCommand
  <2>2. mavCommandQueue /= <<>> /\ Head(mavCommandQueue') = Head(mavCommandQueue)
    BY <1>1, <1>4 DEF IsOnly, TypeOK
  <2> QED
    BY <1>1, <1>2, <2>1, <2>2
       DEF TypeOK, HeadIsUnderWay, RetriesBounded, ResultType, IsSentOnce
<1> QED
  BY <1>3, <1>4

\* A command that completes, in whatever way, hands over to the next one.
LEMMA CompletionKeepsInvariant ==
  ASSUME IInv, mavCommandQueue /= <<>>,
         mavCommandQueue' = Tail(mavCommandQueue),
         NEW retries \in Nat,
         SendNextQueued(Tail(mavCommandQueue), retries),
         results' \subseteq ResultType
  PROVE  IInv'
<1>1. Tail(mavCommandQueue) \in Seq(Request) /\ toVehicle \in Seq(Request)
  BY HeadIsRequest DEF IInv, TypeOK
<1>2. /\ mavCommandRetryCount' \in Nat
      /\ ackTimerRunning' \in BOOLEAN
      /\ toVehicle' \in Seq(Request)
      /\ mavCommandQueue' /= <<>> => ackTimerRunning' = TRUE /\ mavCommandRetryCount' = 1
      /\ mavCommandQueue' = <<>> => ackTimerRunning' = FALSE
  BY <1>1, SendNextType
<1> QED
  BY <1>1, <1>2, RetryAssumption
     DEF IInv, TypeOK, HeadIsUnderWay, RetriesBounded

LEMMA TimeoutKeepsInvariant ==
  ASSUME IInv, SendMavCommandAgain
  PROVE  IInv'
<1> USE DEF IInv
<1>0. mavCommandQueue /= <<>>
  BY DEF SendMavCommandAgain, GiveUpCommand, LeaveCommand, RetryCommand, TimedOut
<1>1. Head(mavCommandQueue) \in Request /\ mavCommandRetryCount + 1 \in Nat
  BY <1>0, HeadIsRequest DEF TypeOK
<1>2. CASE GiveUpCommand
  <2>1. mavCommandQueue /= <<>> /\ mavCommandQueue' = Tail(mavCommandQueue)
    BY <1>2 DEF GiveUpCommand, TimedOut
  <2>2. results' = {Report(Head(mavCommandQueue).command, "Failed", TRUE)}
    BY <1>2 DEF GiveUpCommand
  <2>3. results' \subseteq ResultType
    BY <1>1, <2>2, ReportType DEF Request, AckResult
  <2>4. SendNextQueued(Tail(mavCommandQueue), mavCommandRetryCount + 1)
    BY <1>2 DEF GiveUpCommand
  <2> QED
    BY <1>1, <2>1, <2>3, <2>4, CompletionKeepsInvariant
<1>3. CASE LeaveCommand
  <2>1. /\ mavCommandQueue' = mavCommandQueue /\ toVehicle' = toVehicle
        /\ IsSentOnce(Head(mavCommandQueue))
        /\ mavCommandRetryCount' = mavCommandRetryCount + 1
        /\ ~(mavCommandRetryCount > MaxRetryCount)
        /\ ackTimerRunning' = FALSE /\ results' = {}
    BY <1>3 DEF LeaveCommand, RetriesExceeded
  <2>2. HeadIsUnderWay'
    BY <1>1, <2>1 DEF TypeOK, HeadIsUnderWay, IsSentOnce
  <2>3. TypeOK'
    BY <1>1, <2>1 DEF TypeOK
  <2>4. RetriesBounded'
    BY <2>1, RetryAssumption DEF TypeOK, RetriesBounded
  <2> QED
    BY <2>2, <2>3, <2>4
<1>4. CASE RetryCommand
  <2>1. /\ mavCommandQueue' = mavCommandQueue /\ mavCommandQueue /= <<>>
        /\ mavCommandRetryCount' = mavCommandRetryCount + 1
        /\ ~(mavCommandRetryCount > MaxRetryCount)
        /\ ackTimerRunning' = TRUE /\ results' = {}
    BY <1>4 DEF RetryCommand, TimedOut, RetriesExceeded, CountRetry
  <2>2. toVehicle' \in Seq(Request)
    BY <1>1, <1>4, SendType DEF RetryCommand, TypeOK
  <2> QED
    BY <1>1, <2>1, <2>2, RetryAssumption DEF TypeOK, HeadIsUnderWay, RetriesBounded
<1> QED
  BY <1>2, <1>3, <1>4 DEF SendMavCommandAgain

LEMMA AckKeepsInvariant ==
  ASSUME IInv, NEW ack \in CommandAck, HandleCommandAck(ack)
  PROVE  IInv'
<1>1. ack.command \in CommandName /\ ack.result \in AckResult
  BY DEF CommandAck
<1>2. results' = {Report(ack.command, ack.result, FALSE)}
  BY DEF HandleCommandAck, CommandCompleted, StrayAck
<1>3. results' \subseteq ResultType
  BY <1>1, <1>2, ReportType
<1>4. CASE CommandCompleted(ack)
  <2>1. mavCommandQueue /= <<>> /\ mavCommandQueue' = Tail(mavCommandQueue)
    BY <1>4 DEF CommandCompleted, Answers
  <2>2. SendNextQueued(Tail(mavCommandQueue), mavCommandRetryCount)
    BY <1>4 DEF CommandCompleted
  <2>3. mavCommandRetryCount \in Nat
    BY DEF IInv, TypeOK
  <2> QED
    BY <1>3, <2>1, <2>2, <2>3, CompletionKeepsInvariant
<1>5. CASE StrayAck(ack)
  BY <1>3, <1>5
     DEF StrayAck, queueVars, IInv, TypeOK, HeadIsUnderWay, RetriesBounded, IsSentOnce
<1> QED
  BY <1>4, <1>5 DEF HandleCommandAck

LEMMA LinkKeepsInvariant ==
  ASSUME IInv, LinkTakes
  PROVE  IInv'
<1>1. toVehicle' \in Seq(Request)
  BY DEF LinkTakes, IInv, TypeOK
<1> QED
  BY <1>1 DEF LinkTakes, queueVars, IInv, TypeOK, HeadIsUnderWay, RetriesBounded, IsSentOnce

LEMMA StutterKeepsInvariant ==
  ASSUME IInv, UNCHANGED vars
  PROVE  IInv'
BY DEF vars, queueVars, IInv, TypeOK, HeadIsUnderWay, RetriesBounded, IsSentOnce

LEMMA StepKeepsInvariant == IInv /\ [Next]_vars => IInv'
<1> SUFFICES ASSUME IInv, [Next]_vars PROVE IInv'
  OBVIOUS
<1> QED
  BY SendKeepsInvariant, TimeoutKeepsInvariant, AckKeepsInvariant,
     LinkKeepsInvariant, StutterKeepsInvariant DEF Next

\* The inductive invariant of the queue: whatever is acknowledged, whenever.
THEOREM Invariance == Spec => []IInv
<1> QED
  BY InitInvariant, StepKeepsInvariant, PTL DEF Spec

\* Every reachable state of the queue is well typed.
THEOREM TypeCorrect == Spec => []TypeOK
<1>1. IInv => TypeOK
  BY DEF IInv
<1> QED
  BY <1>1, Invariance, PTL

\* The command at the head of the queue has been sent and is timed, unless the
\* code sends it only once; no timer runs for an empty queue.
THEOREM WaitingIsUnderWay == Spec => []HeadIsUnderWay
<1>1. IInv => HeadIsUnderWay
  BY DEF IInv
<1> QED
  BY <1>1, Invariance, PTL

\* No command is sent more often than _mavCommandMaxRetryCount allows.
THEOREM BoundedRetries == Spec => []RetriesBounded
<1>1. IInv => RetriesBounded
  BY DEF IInv
<1> QED
  BY <1>1, Invariance, PTL
-----------------------------------------------------------------------------
LEMMA InitImplements == Init => Promise!Init
BY DEF Init, Promise!Init

\* A timer that expires completes the head of the queue, or changes nothing that
\* callers see.
LEMMA TimeoutImplements ==
  ASSUME SendMavCommandAgain
  PROVE  Promise!Next
<1>1. CASE GiveUpCommand
  <2>1. /\ mavCommandQueue /= <<>> /\ mavCommandQueue' = Tail(mavCommandQueue)
        /\ results' = {Promise!Report(Head(mavCommandQueue).command, "Failed", TRUE)}
    BY <1>1 DEF GiveUpCommand, TimedOut, Report, Promise!Report
  <2>2. Promise!Complete
    BY <2>1 DEF Promise!Complete, AckResult
  <2> QED
    BY <2>2 DEF Promise!Next
<1>2. CASE LeaveCommand \/ RetryCommand
  BY <1>2 DEF LeaveCommand, RetryCommand, Promise!Next, Promise!Work
<1> QED
  BY <1>1, <1>2 DEF SendMavCommandAgain

\* An acknowledgement completes the head of the queue if it names its command,
\* and is reported as a stray one otherwise.
LEMMA AckImplements ==
  ASSUME NEW ack \in CommandAck, HandleCommandAck(ack)
  PROVE  Promise!Next
<1>1. ack.command \in CommandName /\ ack.result \in AckResult
  BY DEF CommandAck
<1>2. results' = {Promise!Report(ack.command, ack.result, FALSE)}
  BY DEF HandleCommandAck, CommandCompleted, StrayAck, Report, Promise!Report
<1>3. CASE CommandCompleted(ack)
  <2>1. /\ mavCommandQueue /= <<>> /\ mavCommandQueue' = Tail(mavCommandQueue)
        /\ ack.command = Head(mavCommandQueue).command
    BY <1>3 DEF CommandCompleted, Answers
  <2>2. Promise!Complete
    BY <1>1, <1>2, <2>1 DEF Promise!Complete
  <2> QED
    BY <2>2 DEF Promise!Next
<1>4. CASE StrayAck(ack)
  <2>1. /\ mavCommandQueue' = mavCommandQueue
        /\ mavCommandQueue /= <<>> => ack.command /= Head(mavCommandQueue).command
    BY <1>4 DEF StrayAck, Answers, queueVars
  <2>2. Promise!Stray
    BY <1>1, <1>2, <2>1 DEF Promise!Stray
  <2> QED
    BY <2>2 DEF Promise!Next
<1> QED
  BY <1>3, <1>4 DEF HandleCommandAck

LEMMA StepImplements == [Next]_vars => [Promise!Next]_(Promise!vars)
<1> SUFFICES ASSUME [Next]_vars PROVE [Promise!Next]_(Promise!vars)
  OBVIOUS
<1>1. ASSUME NEW r \in Request, SendMavCommand(r) PROVE Promise!Next
  BY <1>1 DEF SendMavCommand, Promise!Next, Promise!Submit
<1>2. CASE LinkTakes \/ UNCHANGED vars
  BY <1>2 DEF LinkTakes, vars, queueVars, Promise!vars
<1> QED
  BY <1>1, <1>2, TimeoutImplements, AckImplements DEF Next

\* The queue implements CommandService: commands complete in the order they were
\* sent, each with one result, and acknowledgements nobody waits for complete none.
THEOREM Implementation == Spec => KeepsPromise
<1> QED
  BY InitImplements, StepImplements, PTL DEF Spec, KeepsPromise, Promise!Spec
=============================================================================
