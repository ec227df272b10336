------------------------------ MODULE AtmSystem ------------------------------
(***************************************************************************)
(* The ATM: the server of atm_server.c and the clients of atm_client.c,    *)
(* interleaved step by step over their TCP connections.                    *)
(***************************************************************************)
EXTENDS AtmServer, AtmClient

CONSTANT NONE \* no command or answer under way, in the abstract account

ASSUME NoneAssumption == NONE \notin Requests \cup Responses

vars == <<connectionVars, serverVars, clientVars>>

TypeOK == ConnectionTypeOK /\ ServerTypeOK /\ ClientTypeOK

Init == ConnectionInit /\ ServerInit /\ ClientInit

\* main of the client: the connection is refused when no server listens.
EstablishConnection(c) == IF server_up THEN Connect(c) ELSE ConnectFails(c)

Next ==
  \/ \E c \in Clients : (EstablishConnection(c) \/ ClientStep(c)) /\ UNCHANGED serverVars
  \/ ServerNext /\ UNCHANGED clientVars

Spec == Init /\ [][Next]_vars

\* Threads and processes that can go on do go on, and a connection that was
\* queued is accepted.  Nobody is obliged to type, to restart a server or to
\* stop a process.
Fairness ==
  \A c \in Clients :
    /\ WF_vars(ThreadStep(c) /\ UNCHANGED clientVars)
    /\ WF_vars(AcceptStep(c) /\ UNCHANGED clientVars)
    /\ WF_vars(ClientReceives(c) /\ UNCHANGED serverVars)

FairSpec == Spec /\ Fairness

-----------------------------------------------------------------------------
(* Safety.                                                                 *)

\* The file is empty only while the thread that holds accountMutex is between
\* its fopen and its fclose, and nobody else is near the file: no thread ever
\* scans a balance that is not there (readAccountBalance would return an
\* uninitialised float).  This needs a file that can be written and a server
\* that is not stopped in between.
TornFileIsPrivate ==
  /\ \A c \in Clients : thread[c] \in CriticalSteps <=> accountMutex = c
  /\ account_file = EMPTY =>
       accountMutex # NOBODY /\ thread[accountMutex] \in {"initialize", "write"}

\* No amount that is a number overdraws the account, whatever the two ends round
\* and however withdrawals of several clients interleave: the balance a thread
\* has checked is still the balance when it writes.  An amount nan passes the
\* checks of both ends, so it is withdrawn whatever the balance is; with it, or
\* with a deposit of inf, the balance stops being a number, and in no other way.
LosesNumber(c) ==
  \/ currentBalance[c] \notin Int \/ amount(c) = NAN
  \/ amount(c) = INF /\ request[c].op = OPERATION_DEPOSIT
NeverOverdrawn ==
  /\ account_file \in Int => account_file >= 0
  /\ \A c \in Clients :
       At(c, "write") =>
         /\ IF LosesNumber(c) THEN newBalance(c) \in NoNumbers ELSE newBalance(c) \in Nat
         /\ \A d \in Clients \ {c} : ~At(d, "write")

\* Each session has at most one command under way, as a request, in its thread
\* or as an answer.  So a recv never returns two messages as one, an answer
\* always belongs to the last request, and no thread sends twice to a client
\* that is gone (the second send would raise SIGPIPE and stop the server).  An
\* EXIT is not a command, and nothing follows it.
EndsWithExit(queue) == queue # <<>> /\ queue[Len(queue)].op = OPERATION_EXIT
WithoutExit(queue) == IF EndsWithExit(queue) THEN SubSeq(queue, 1, Len(queue) - 1) ELSE queue
Asked(c) == WithoutExit(to_server[c])
Busy(c) == IF thread[c] \in {"none", "recv"} THEN 0 ELSE 1
OneInFlight ==
  \A c \in Clients :
    LET underway == Len(Asked(c)) + Busy(c) + Len(to_client[c]) IN
    /\ underway <= 1
    /\ client[c] = "menu" => underway = 0
    /\ \A i \in 1 .. Len(to_server[c]) - 1 : to_server[c][i].op # OPERATION_EXIT
    /\ Len(to_server[c]) > 1 => client[c] = "ended"

\* As long as the file can be opened for writing, a client is told "SUCCESS:
\* ... Updated Balance" only of a balance that the file holds when the mutex is
\* released; after that it may hold the old one, in one piece.
ToldAfterStored ==
  \A c \in Clients :
    At(c, "unlock") /\ response[c].verdict = "SUCCESS" =>
      \/ account_file = response[c].balance
      \/ ~file_writable /\ account_file \in {currentBalance[c], ABSENT}

\* The mutex, the file, the messages and the answers agree at every step of
\* every thread and client.
Consistent == TypeOK /\ TornFileIsPrivate /\ OneInFlight /\ ToldAfterStored

-----------------------------------------------------------------------------
(* Liveness.                                                               *)

\* A client that waits for an answer gets one, or learns that the server is
\* gone: not even a crash of the server leaves it waiting.
AnswerArrives == \A c \in Clients : client[c] = "waiting" ~> client[c] # "waiting"

\* When a client has gone, its thread ends too, for good.
SessionsEnd == \A c \in Clients : client[c] = "ended" ~> [](thread[c] = "none")

-----------------------------------------------------------------------------
(* Refinement.                                                             *)

\* The commands that have not taken effect yet, and those that have.
Undecided == {"lock", "read", "create", "initialize", "decide", "write"}
Decided == {"unlock", "send"}

\* The balance in the file, or the one its writer is about to replace.
Balance ==
  IF account_file = ABSENT THEN 0
  ELSE IF account_file # EMPTY THEN account_file
  ELSE IF accountMutex # NOBODY /\ At(accountMutex, "write") THEN currentBalance[accountMutex]
  ELSE 0

Pending(c) ==
  IF Asked(c) # <<>> THEN Head(Asked(c))
  ELSE IF thread[c] \in Undecided THEN request[c] ELSE NONE
AnswerTo(c) ==
  IF to_client[c] # <<>> THEN Head(to_client[c])
  ELSE IF thread[c] \in Decided THEN response[c] ELSE NONE

\* To its customers the system is a single account on which each command takes
\* effect at once: no update of another session is lost, and every answer tells
\* the balance of that moment, or, when the file can no longer be written, the one
\* that was meant; the account then stays as it is.  With an amount or a balance
\* that is nan or inf it does what AtmAccount says of them, and no more.
Account ==
  INSTANCE AtmAccount
    WITH balance <- Balance, writable <- file_writable,
         pending <- [c \in Clients |-> Pending(c)],
         answer <- [c \in Clients |-> AnswerTo(c)],
         Commands <- Payloads,
         Balances <- { IF f = ABSENT THEN 0 ELSE f : f \in InitialFiles }
RefinesAccount == Account!Spec
=============================================================================
