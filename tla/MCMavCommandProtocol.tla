------------------------- MODULE MCMavCommandProtocol -------------------------
(* The commands of SendMavCommandTest and arming, over links that lose      *)
(* messages and links that do not; arming and a test command with a timer that *)
(* does not wait for late answers; arming, a test command and pairing of a     *)
(* receiver for a vehicle that acknowledges anything.                        *)
EXTENDS MavCommandProtocol

ArmRequests == [command : {"ArmDisarm"}, param : {0, 1}]
TestRequests == [command : {"User1", "User2", "User3", "User4", "User5"}, param : {0}]
PairRequests == [command : {"StartRxPair"}, param : {0}]
User1Requests == [command : {"User1"}, param : {0}]

OpenRegime == [open |-> TRUE, prompt |-> FALSE, lossy |-> TRUE,
               requests |-> ArmRequests \cup User1Requests \cup PairRequests]

\* An ack timer that may fire while the answer is under way.
SlowRegime == [open |-> FALSE, prompt |-> FALSE, lossy |-> TRUE,
               requests |-> ArmRequests \cup User1Requests]

MCRegimes == {OpenRegime, SlowRegime} \cup
             [open : {FALSE}, prompt : {TRUE}, lossy : BOOLEAN,
              requests : {ArmRequests \cup TestRequests}]

StallRegimes == [open : {FALSE}, prompt : {TRUE}, lossy : {TRUE}, requests : {PairRequests \cup User1Requests}]
=============================================================================
