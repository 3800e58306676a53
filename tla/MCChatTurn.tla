----------------------------- MODULE MCChatTurn -----------------------------
(* Small instances of ChatTurn for TLC: the kinds, homes and messages of the *)
(* jobs, and the bounds on what the environment may do.                      *)
EXTENDS ChatTurnClaims

\* A scheduled run's ticket and then a user's send.
TicketUser == [j \in Jobs |-> <<"ticket", "user">>[j]]
\* A user's send and then a background run.
UserAsync == [j \in Jobs |-> <<"user", "async">>[j]]
\* A send, a retry of it and a scheduled run.
UserRetryTicket == [j \in Jobs |-> <<"user", "retry", "ticket">>[j]]

\* Odd and even jobs run on different instances.
Alternate == [j \in Jobs |-> IF j % 2 = 1 THEN "a" ELSE "b"]

OwnMessages == [j \in Jobs |-> j]
FirstTwice == [j \in Jobs |-> IF j <= 2 THEN 1 ELSE j]

Quiet == [stops |-> 0, crashes |-> 0, shutdowns |-> 0, faults |-> 0]
OneStop == [Quiet EXCEPT !.stops = 1]
OneCrash == [Quiet EXCEPT !.crashes = 1]
StopCrashAndFault == [OneCrash EXCEPT !.stops = 1, !.faults = 1]
StopAndShutdown == [OneStop EXCEPT !.shutdowns = 1]
CrashAndFaults == [OneCrash EXCEPT !.faults = 2]
=============================================================================
