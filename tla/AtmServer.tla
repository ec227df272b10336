------------------------------ MODULE AtmServer ------------------------------
(***************************************************************************)
(* atm_server.c: the accept loop, one detached thread per client, and the  *)
(* account file that the threads read and rewrite under accountMutex.      *)
(* Money is counted in cents, or is nan or inf; balances that are numbers  *)
(* stay below 131072.00, where a float still tells cents apart.            *)
(***************************************************************************)
EXTENDS AtmConnection

CONSTANTS
  InitialFiles,    \* what accountDB.txt may hold at first: ABSENT or a balance
  FileMayFail,     \* whether opening or writing the account file may fail
  FileMayBeLocked, \* whether it may become impossible to open it for writing
  ThreadMayFail,   \* whether pthread_create may fail
  GarbageBalances, \* what an uninitialised balance may hold
  MaxCrashes,      \* bound on the crashes of the server process
  ABSENT,          \* there is no account file
  EMPTY,           \* the account file was truncated and not yet written
  NOBODY           \* the mutex is free

ASSUME ServerAssumption ==
  /\ InitialFiles \subseteq Amounts \cup {ABSENT}
  /\ FileMayFail \in BOOLEAN /\ FileMayBeLocked \in BOOLEAN /\ ThreadMayFail \in BOOLEAN
  /\ GarbageBalances \subseteq Money /\ MaxCrashes \in Nat
  /\ NOBODY \notin Clients /\ ABSENT # EMPTY /\ ABSENT \notin Money /\ EMPTY \notin Money

VARIABLES
  server_up,      \* whether a server process runs
  file_writable,  \* whether fopen(ACCOUNT_DATA_FILE, "w") can succeed
  account_file,   \* ABSENT, EMPTY or the balance written in it
  accountMutex,   \* the client whose thread holds it, or NOBODY
  thread,         \* client -> where its thread is, "none" if it has none
  request,        \* client -> the command its thread processes
  currentBalance, \* client -> the balance its thread has read
  response,       \* client -> the responseMessage of its thread
  crashes         \* crashes so far

serverVars == <<server_up, file_writable, account_file, accountMutex, thread, request, currentBalance,
                response, crashes>>

ThreadSteps == {"none", "recv", "lock", "read", "create", "initialize", "decide", "write",
                "unlock", "send"}
\* The steps taken with the mutex held.
CriticalSteps == {"read", "create", "initialize", "decide", "write", "unlock"}

NoRequest == [op |-> OPERATION_EXIT, amount |-> 0]
NoResponse == [verdict |-> "INVALID", balance |-> 0]

ServerTypeOK ==
  /\ server_up \in BOOLEAN /\ file_writable \in BOOLEAN
  /\ account_file \in Money \/ account_file \in {ABSENT, EMPTY}
  /\ accountMutex \in Clients \cup {NOBODY}
  /\ thread \in [Clients -> ThreadSteps]
  /\ request \in [Clients -> Requests]
  /\ currentBalance \in [Clients -> Money]
  /\ response \in [Clients -> Responses]
  /\ crashes \in 0 .. MaxCrashes

ServerInit ==
  /\ server_up = TRUE /\ file_writable = TRUE
  /\ account_file \in InitialFiles
  /\ accountMutex = NOBODY
  /\ thread = [c \in Clients |-> "none"]
  /\ request = [c \in Clients |-> NoRequest]
  /\ currentBalance = [c \in Clients |-> 0]
  /\ response = [c \in Clients |-> NoResponse]
  /\ crashes = 0

At(c, step) == thread[c] = step
GoTo(c, step) == thread' = [thread EXCEPT ![c] = step]
Say(c, verdict, balance) ==
  response' = [response EXCEPT ![c] = [verdict |-> verdict, balance |-> balance]]

-----------------------------------------------------------------------------
(* Sessions.                                                               *)

\* launchServer accepts a connection and starts its thread ...
Accept(c) ==
  /\ server_up /\ server_end[c] = "backlog"
  /\ server_end' = [server_end EXCEPT ![c] = "open"]
  /\ GoTo(c, "recv")
  /\ UNCHANGED <<client_end, to_server, to_client, server_up, file_writable, account_file, accountMutex,
                 request, currentBalance, response, crashes>>

\* ... or closes it, if it cannot start a thread.
AcceptFails(c) ==
  /\ server_up /\ server_end[c] = "backlog"
  /\ ThreadMayFail
  /\ server_end' = [server_end EXCEPT ![c] = ClosedEnd(c)]
  /\ to_server' = [to_server EXCEPT ![c] = <<>>]
  /\ UNCHANGED <<client_end, to_client, serverVars>>

\* clientSessionHandler receives a command and dispatches it.
Receive(c) ==
  /\ At(c, "recv") /\ to_server[c] # <<>>
  /\ Head(to_server[c]).op # OPERATION_EXIT
  /\ request' = [request EXCEPT ![c] = Head(to_server[c])]
  /\ to_server' = [to_server EXCEPT ![c] = Tail(@)]
  /\ GoTo(c, "lock")
  /\ UNCHANGED <<client_end, server_end, to_client, server_up, file_writable, account_file, accountMutex,
                 currentBalance, response, crashes>>

\* Mutant: recv's 0 for a client that has gone is not looked at.
EndSession_told(c) ==
  /\ At(c, "recv") /\ to_server[c] # <<>> /\ Head(to_server[c]).op = OPERATION_EXIT
  /\ to_server' = [to_server EXCEPT ![c] = <<>>]
  /\ server_end' = [server_end EXCEPT ![c] = "closed"]
  /\ GoTo(c, "none")
  /\ UNCHANGED <<client_end, to_client, server_up, file_writable, account_file, accountMutex, request,
                 currentBalance, response, crashes>>

\* The command was EXIT, or the client has closed its end: the thread closes
\* its own end and exits.
EndSession(c) ==
  /\ At(c, "recv")
  /\ IF to_server[c] = <<>> THEN client_end[c] = "closed"
                            ELSE Head(to_server[c]).op = OPERATION_EXIT
  /\ to_server' = [to_server EXCEPT ![c] = <<>>]
  /\ server_end' = [server_end EXCEPT ![c] = "closed"]
  /\ GoTo(c, "none")
  /\ UNCHANGED <<client_end, to_client, server_up, file_writable, account_file, accountMutex, request,
                 currentBalance, response, crashes>>

\* The locals of the handler of client c, which end with it.
Forget(c) ==
  /\ request' = [request EXCEPT ![c] = NoRequest]
  /\ currentBalance' = [currentBalance EXCEPT ![c] = 0]
  /\ response' = [response EXCEPT ![c] = NoResponse]

\* A response to a client that is gone is lost.
Send(c) ==
  /\ At(c, "send")
  /\ to_client' = IF client_end[c] = "open"
                  THEN [to_client EXCEPT ![c] = Append(@, response[c])] ELSE to_client
  /\ GoTo(c, "recv") /\ Forget(c)
  /\ UNCHANGED <<client_end, server_end, to_server, server_up, file_writable, account_file, accountMutex,
                 crashes>>

-----------------------------------------------------------------------------
(* The handlers.                                                           *)

amount(c) == request[c].amount

\* Comparisons with nan are false.  No balance or amount is -inf: the client
\* refuses that amount, and an amount inf exceeds every number.
AtMostZero(a) == a \in Int /\ a <= 0
Exceeds(a, b) == b \in Int /\ (a = INF \/ (a \in Int /\ a > b))
Plus(a, b) ==
  IF NAN \in {a, b} THEN NAN ELSE IF INF \in {a, b} THEN INF ELSE a + b
\* inf - inf is nan, and no amount inf is taken from a number.
Minus(a, b) ==
  IF {a, b} \subseteq Int THEN a - b ELSE IF a = INF /\ b \in Int THEN INF ELSE NAN

\* Mutant: the handlers run without the mutex.
Lock_unguarded(c) ==
  /\ At(c, "lock")
  /\ accountMutex' = c
  /\ GoTo(c, "read")
  /\ UNCHANGED <<connectionVars, server_up, file_writable, account_file, request, currentBalance, response,
                 crashes>>

\* A deposit looks at its amount before it reads the balance, the others after.
Lock(c) ==
  /\ At(c, "lock") /\ accountMutex = NOBODY
  /\ accountMutex' = c
  /\ IF request[c].op = OPERATION_DEPOSIT /\ AtMostZero(amount(c))
     THEN Say(c, "INVALID", 0) /\ GoTo(c, "unlock")
     ELSE GoTo(c, "read") /\ UNCHANGED response
  /\ UNCHANGED <<connectionVars, server_up, file_writable, account_file, request, currentBalance, crashes>>

\* Mutant: a handler returns without unlocking.
Unlock_forgotten(c) ==
  /\ At(c, "unlock")
  /\ GoTo(c, "send")
  /\ UNCHANGED <<connectionVars, server_up, file_writable, account_file, accountMutex, request, currentBalance,
                 response, crashes>>

Unlock(c) ==
  /\ At(c, "unlock")
  /\ accountMutex' = NOBODY
  /\ GoTo(c, "send")
  /\ UNCHANGED <<connectionVars, server_up, file_writable, account_file, request, currentBalance, response,
                 crashes>>

\* readAccountBalance opens the file and scans a balance; of an empty file it
\* scans nothing and returns an uninitialised float.
ReadBalance(c) ==
  /\ At(c, "read") /\ account_file # ABSENT
  /\ \E b \in IF account_file = EMPTY THEN GarbageBalances ELSE {account_file} :
       currentBalance' = [currentBalance EXCEPT ![c] = b]
  /\ GoTo(c, "decide")
  /\ UNCHANGED <<connectionVars, server_up, file_writable, account_file, accountMutex, request, response,
                 crashes>>

\* Any failure to open it is taken for a missing file.
OpenFails(c) ==
  /\ At(c, "read") /\ (account_file = ABSENT \/ FileMayFail)
  /\ GoTo(c, "create")
  /\ UNCHANGED <<connectionVars, server_up, file_writable, account_file, accountMutex, request, currentBalance,
                 response, crashes>>

CreateFile(c) ==
  /\ At(c, "create") /\ file_writable
  /\ account_file' = EMPTY
  /\ GoTo(c, "initialize")
  /\ UNCHANGED <<connectionVars, server_up, file_writable, accountMutex, request, currentBalance, response,
                 crashes>>

\* The initial balance is written, or gets lost (fclose is not checked).
InitializeFile(c) ==
  /\ At(c, "initialize")
  /\ \/ account_file' = 0
     \/ FileMayFail /\ account_file' = EMPTY
  /\ currentBalance' = [currentBalance EXCEPT ![c] = 0]
  /\ GoTo(c, "decide")
  /\ UNCHANGED <<connectionVars, server_up, file_writable, accountMutex, request, response, crashes>>

CreateFails(c) ==
  /\ At(c, "create") /\ (FileMayFail \/ ~file_writable)
  /\ currentBalance' = [currentBalance EXCEPT ![c] = 0]
  /\ GoTo(c, "decide")
  /\ UNCHANGED <<connectionVars, server_up, file_writable, account_file, accountMutex, request, response,
                 crashes>>

\* The balance that the request leads to.
newBalance(c) ==
  IF request[c].op = OPERATION_WITHDRAW THEN Minus(currentBalance[c], amount(c))
                                        ELSE Plus(currentBalance[c], amount(c))

InvalidWithdrawal(c) == request[c].op = OPERATION_WITHDRAW /\ AtMostZero(amount(c))
\* Mutant: the comparison with the balance is the wrong way round.
Overdraws_swapped(c) ==
  request[c].op = OPERATION_WITHDRAW /\ ~AtMostZero(amount(c)) /\ Exceeds(currentBalance[c], amount(c))
Overdraws(c) ==
  request[c].op = OPERATION_WITHDRAW /\ ~AtMostZero(amount(c)) /\ Exceeds(amount(c), currentBalance[c])

\* The request changes nothing: an answer is made up from the balance read.
Decline(c) ==
  /\ At(c, "decide")
  /\ \/ InvalidWithdrawal(c) /\ Say(c, "INVALID", 0)
     \/ Overdraws(c) /\ Say(c, "INSUFFICIENT", currentBalance[c])
     \/ request[c].op = OPERATION_CHECK_BALANCE /\ Say(c, "BALANCE", currentBalance[c])
  /\ GoTo(c, "unlock")
  /\ UNCHANGED <<connectionVars, server_up, file_writable, account_file, accountMutex, request, currentBalance,
                 crashes>>

\* The request changes the balance: writeAccountBalance truncates the file ...
Truncate(c) ==
  /\ At(c, "decide") /\ file_writable
  /\ request[c].op # OPERATION_CHECK_BALANCE /\ ~InvalidWithdrawal(c) /\ ~Overdraws(c)
  /\ account_file' = EMPTY
  /\ GoTo(c, "write")
  /\ UNCHANGED <<connectionVars, server_up, file_writable, accountMutex, request, currentBalance, response,
                 crashes>>

\* Mutant: the balance that was read is written back.
Write_old(c) ==
  /\ At(c, "write")
  /\ account_file' = currentBalance[c]
  /\ Say(c, "SUCCESS", newBalance(c))
  /\ GoTo(c, "unlock")
  /\ UNCHANGED <<connectionVars, server_up, file_writable, accountMutex, request, currentBalance, crashes>>

\* ... and writes the new balance, or loses it (fclose is not checked) ...
Write(c) ==
  /\ At(c, "write")
  /\ \/ account_file' = newBalance(c)
     \/ FileMayFail /\ account_file' = EMPTY
  /\ Say(c, "SUCCESS", newBalance(c))
  /\ GoTo(c, "unlock")
  /\ UNCHANGED <<connectionVars, server_up, file_writable, accountMutex, request, currentBalance, crashes>>

\* ... or cannot open the file and leaves it as it is.  The client is told of
\* success all the same.
TruncateFails(c) ==
  /\ At(c, "decide") /\ (FileMayFail \/ ~file_writable)
  /\ request[c].op # OPERATION_CHECK_BALANCE /\ ~InvalidWithdrawal(c) /\ ~Overdraws(c)
  /\ Say(c, "SUCCESS", newBalance(c))
  /\ GoTo(c, "unlock")
  /\ UNCHANGED <<connectionVars, server_up, file_writable, account_file, accountMutex, request, currentBalance,
                 crashes>>

-----------------------------------------------------------------------------
(* The server process.                                                     *)

\* The process dies: its threads and its mutex are gone, the system closes its
\* ends of the connections, the file stays as it is.
Crash ==
  /\ server_up /\ crashes < MaxCrashes
  /\ server_up' = FALSE /\ crashes' = crashes + 1
  /\ thread' = [c \in Clients |-> "none"]
  /\ accountMutex' = NOBODY
  /\ server_end' = [c \in Clients |->
       IF server_end[c] \in {"backlog", "open"} THEN ClosedEnd(c) ELSE server_end[c]]
  /\ to_server' = [c \in Clients |-> <<>>]
  /\ request' = [c \in Clients |-> NoRequest]
  /\ currentBalance' = [c \in Clients |-> 0]
  /\ response' = [c \in Clients |-> NoResponse]
  /\ UNCHANGED <<client_end, to_client, file_writable, account_file>>

\* The account file is made read-only, or its disk is, for good.
LockFile ==
  /\ FileMayBeLocked /\ file_writable
  /\ file_writable' = FALSE
  /\ UNCHANGED <<connectionVars, server_up, account_file, accountMutex, thread, request,
                 currentBalance, response, crashes>>

Restart ==
  /\ ~server_up /\ server_up' = TRUE
  /\ UNCHANGED <<connectionVars, file_writable, account_file, accountMutex, thread, request, currentBalance,
                 response, crashes>>

\* The steps of the thread of client c.
ThreadStep(c) ==
  \/ Receive(c) \/ EndSession(c) \/ Send(c) \/ Lock(c) \/ Unlock(c)
  \/ ReadBalance(c) \/ OpenFails(c) \/ CreateFile(c) \/ InitializeFile(c) \/ CreateFails(c)
  \/ Decline(c) \/ Truncate(c) \/ Write(c) \/ TruncateFails(c)
AcceptStep(c) == Accept(c) \/ AcceptFails(c)

ServerNext == Crash \/ Restart \/ LockFile \/ \E c \in Clients : AcceptStep(c) \/ ThreadStep(c)
=============================================================================
