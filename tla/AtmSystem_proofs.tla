--------------------------- MODULE AtmSystem_proofs ---------------------------
(***************************************************************************)
(* Proofs about AtmSystem, for any number of clients and requests.         *)
(***************************************************************************)
EXTENDS AtmSystem, TLAPS

-----------------------------------------------------------------------------
(* Types.                                                                  *)

\* What a client sends is a request.
LEMMA PayloadType == Payloads \subseteq Requests
<1>1. \A a \in TypedAmounts : Cents(a) \in Amounts
  BY ClientAssumption DEF Cents, Amounts
<1>2. 0 \in Amounts
  BY DEF Amounts
<1> QED
  BY <1>1, <1>2 DEF Payloads, Requests, OPERATION_WITHDRAW, OPERATION_DEPOSIT,
                    OPERATION_CHECK_BALANCE, OPERATION_EXIT

\* The steps of a client keep the types.
LEMMA ClientType ==
  ASSUME TypeOK, UNCHANGED serverVars, NEW c \in Clients,
         EstablishConnection(c) \/ ClientStep(c)
  PROVE  TypeOK'
<1> USE DEF TypeOK, ConnectionTypeOK, ServerTypeOK, ClientTypeOK, serverVars, connectionVars
<1>1. CASE EstablishConnection(c)
  BY <1>1 DEF EstablishConnection, Connect, ConnectFails
<1>2. ASSUME NEW p \in Payloads, transmitRequest(c, p) PROVE TypeOK'
  BY <1>2, PayloadType, ClientAssumption DEF transmitRequest
<1>3. CASE TransmitInVain(c)
  BY <1>3, ClientAssumption DEF TransmitInVain
<1>4. CASE BrokenPipe(c)
  BY <1>4 DEF BrokenPipe
<1>5. CASE Exit(c)
  <2>1. [op |-> OPERATION_EXIT, amount |-> 0] \in Requests
    BY DEF Requests, Amounts, OPERATION_EXIT, OPERATION_WITHDRAW
  <2> QED
    BY <1>5, <2>1 DEF Exit
<1>6. CASE Interrupt(c)
  BY <1>6 DEF Interrupt
<1>7. CASE ClientReceives(c)
  <2>1. CASE receiveServerMessage(c)
    <3>1. Tail(to_client[c]) \in Seq(Responses)
      BY <2>1 DEF receiveServerMessage
    <3> QED
      BY <2>1, <3>1 DEF receiveServerMessage
  <2>2. CASE ReceiveNothing(c)
    BY <2>2 DEF ReceiveNothing
  <2> QED
    BY <1>7, <2>1, <2>2 DEF ClientReceives
<1> QED
  BY <1>1, <1>2, <1>3, <1>4, <1>5, <1>6, <1>7 DEF ClientStep

\* Floats: sums of money, nan and inf make nothing else, and a sum stops being a
\* number only by a term that is none.
LEMMA MoneyType ==
  ASSUME NEW a \in Money, NEW b \in Money
  PROVE  Plus(a, b) \in Money /\ Minus(a, b) \in Money
  BY MoneyAssumption DEF Money, NoNumbers, Plus, Minus

LEMMA NumberFacts ==
  ASSUME NEW a \in Nat, NEW b \in Nat
  PROVE  /\ a \notin NoNumbers /\ Plus(a, b) = a + b /\ Minus(a, b) = a - b
         /\ AtMostZero(b) <=> b = 0
         /\ Exceeds(b, a) <=> b > a
  BY MoneyAssumption DEF NoNumbers, Plus, Minus, AtMostZero, Exceeds

LEMMA NoNumberFacts ==
  ASSUME NEW a \in Amounts, NEW b \in Amounts, a \in NoNumbers \/ b \in NoNumbers
  PROVE  /\ Plus(a, b) \in NoNumbers
         /\ Minus(a, b) \in NoNumbers
         /\ Exceeds(b, a) <=> a \in Nat /\ b = INF
         /\ AtMostZero(b) <=> b = 0
  BY MoneyAssumption DEF Amounts, NoNumbers, Plus, Minus, Exceeds, AtMostZero

\* The balance a request leads to is money.
LEMMA NewBalanceType ==
  ASSUME TypeOK, NEW c \in Clients
  PROVE  newBalance(c) \in Money /\ amount(c) \in Amounts /\ currentBalance[c] \in Money
<1>1. amount(c) \in Amounts /\ currentBalance[c] \in Money
  BY DEF TypeOK, ServerTypeOK, amount, Requests
<1>2. amount(c) \in Money
  BY <1>1 DEF Amounts, Money
<1> QED
  BY <1>1, <1>2, MoneyType DEF newBalance

\* So do the steps of a thread ...
LEMMA ThreadType ==
  ASSUME TypeOK, UNCHANGED clientVars, NEW c \in Clients, ThreadStep(c)
  PROVE  TypeOK'
<1> USE DEF TypeOK, ConnectionTypeOK, ServerTypeOK, ClientTypeOK, clientVars, connectionVars,
            ThreadSteps, GoTo, At
<1>1. NoRequest \in Requests /\ NoResponse \in Responses /\ 0 \in Money
  BY DEF NoRequest, NoResponse, Requests, Responses, Amounts, Money, OPERATION_EXIT, OPERATION_WITHDRAW
<1>2. ASSUME NEW v \in {"SUCCESS", "INVALID", "INSUFFICIENT", "BALANCE"}, NEW b \in Money, Say(c, v, b)
      PROVE  response' \in [Clients -> Responses]
  <2>1. [verdict |-> v, balance |-> b] \in Responses
    BY DEF Responses
  <2> QED
    BY <1>2, <2>1 DEF Say
<1>3. newBalance(c) \in Money /\ currentBalance[c] \in Money
  BY NewBalanceType
<1>4. CASE Receive(c)
  BY <1>4 DEF Receive
<1>5. CASE EndSession(c)
  BY <1>5 DEF EndSession
<1>6. CASE Send(c)
  BY <1>1, <1>6 DEF Send, Forget
<1>7. CASE Lock(c)
  <2>1. thread' \in [Clients -> ThreadSteps] /\ accountMutex' = c
    BY <1>7 DEF Lock
  <2>2. response' \in [Clients -> Responses]
    BY <1>1, <1>2, <1>7 DEF Lock
  <2> QED
    BY <1>7, <2>1, <2>2 DEF Lock
<1>8. CASE Unlock(c)
  BY <1>8 DEF Unlock
<1>9. CASE ReadBalance(c)
  BY <1>9, ServerAssumption DEF ReadBalance
<1>10. CASE OpenFails(c) \/ CreateFile(c)
  BY <1>10 DEF OpenFails, CreateFile
<1>11. CASE InitializeFile(c) \/ CreateFails(c)
  <2>1. CASE InitializeFile(c)
    BY <1>1, <2>1 DEF InitializeFile
  <2>2. CASE CreateFails(c)
    BY <1>1, <2>2 DEF CreateFails
  <2> QED
    BY <1>11, <2>1, <2>2
<1>12. CASE Decline(c)
  BY <1>1, <1>2, <1>3, <1>12 DEF Decline
<1>13. CASE Truncate(c)
  BY <1>13 DEF Truncate
<1>14. CASE Write(c)
  BY <1>2, <1>3, <1>14 DEF Write
<1>15. CASE TruncateFails(c)
  BY <1>2, <1>3, <1>15 DEF TruncateFails
<1> QED
  BY <1>4, <1>5, <1>6, <1>7, <1>8, <1>9, <1>10, <1>11, <1>12, <1>13, <1>14, <1>15 DEF ThreadStep

\* ... and those of the server process.
LEMMA ProcessType ==
  ASSUME TypeOK, UNCHANGED clientVars,
         Crash \/ Restart \/ LockFile \/ \E c \in Clients : AcceptStep(c)
  PROVE  TypeOK'
<1> USE DEF TypeOK, ConnectionTypeOK, ServerTypeOK, ClientTypeOK, clientVars, connectionVars
<1>1. NoRequest \in Requests /\ NoResponse \in Responses /\ 0 \in Money
  BY DEF NoRequest, NoResponse, Requests, Responses, Amounts, Money, OPERATION_EXIT, OPERATION_WITHDRAW
<1>2. CASE Crash
  <2>1. server_end' \in [Clients -> {"none", "backlog", "open", "closed", "reset"}]
    BY <1>2 DEF Crash, ClosedEnd
  <2>2. to_server' \in [Clients -> Seq(Requests)] /\ thread' \in [Clients -> ThreadSteps]
    BY <1>2 DEF Crash, ThreadSteps
  <2>3. /\ request' \in [Clients -> Requests] /\ currentBalance' \in [Clients -> Money]
        /\ response' \in [Clients -> Responses] /\ crashes' \in 0 .. MaxCrashes
    BY <1>1, <1>2, ServerAssumption DEF Crash
  <2> QED
    BY <1>2, <2>1, <2>2, <2>3 DEF Crash
<1>3. CASE Restart \/ LockFile
  BY <1>3 DEF Restart, LockFile
<1>4. ASSUME NEW c \in Clients, AcceptStep(c) PROVE TypeOK'
  <2>1. CASE Accept(c)
    BY <2>1 DEF Accept, GoTo, ThreadSteps
  <2>2. CASE AcceptFails(c)
    BY <2>2 DEF AcceptFails, ClosedEnd, serverVars
  <2> QED
    BY <1>4, <2>1, <2>2 DEF AcceptStep
<1> QED
  BY <1>2, <1>3, <1>4

\* Every variable of the clients, the connections and the server keeps its type.
LEMMA NextType == TypeOK /\ [Next]_vars => TypeOK'
<1> SUFFICES ASSUME TypeOK, [Next]_vars PROVE TypeOK'
  OBVIOUS
<1>1. CASE UNCHANGED vars
  BY <1>1 DEF vars, connectionVars, serverVars, clientVars, TypeOK, ConnectionTypeOK, ServerTypeOK,
              ClientTypeOK
<1> QED
  BY <1>1, ClientType, ThreadType, ProcessType DEF Next, ServerNext

LEMMA InitType == Init => TypeOK
  BY ServerAssumption, ClientAssumption
  DEF Init, ConnectionInit, ServerInit, ClientInit, TypeOK, ConnectionTypeOK, ServerTypeOK,
      ClientTypeOK, NoRequest, NoResponse, Requests, Responses, Amounts, Money, OPERATION_EXIT,
      OPERATION_WITHDRAW, ThreadSteps

-----------------------------------------------------------------------------
(* Sessions.                                                               *)

Underway(c) == Len(Asked(c)) + Busy(c) + Len(to_client[c])

\* One session: a thread serves an open end, an end that was closed has nothing
\* left to read, nothing is on its way before the client connects or while it
\* shows its menu, and EXIT is the last word of a client that has ended.
Session(c) ==
  /\ thread[c] # "none" <=> server_end[c] = "open"
  /\ server_end[c] \notin {"backlog", "open"} => to_server[c] = <<>>
  /\ client[c] = "start" => server_end[c] = "none"
  /\ server_end[c] = "none" => to_client[c] = <<>>
  /\ \A i \in 1 .. Len(to_server[c]) :
       to_server[c][i].op = OPERATION_EXIT => i = Len(to_server[c]) /\ client[c] = "ended"
  /\ Len(to_server[c]) > 1 => EndsWithExit(to_server[c])
  /\ Underway(c) <= 1
  /\ client[c] = "menu" => Underway(c) = 0
  /\ thread[c] \notin {"none", "recv"} => request[c].op # OPERATION_EXIT

MutexInv == \A c \in Clients : thread[c] \in CriticalSteps <=> accountMutex = c

\* What is known of every session, whatever fails and whenever the server stops.
SessionInv == TypeOK /\ MutexInv /\ \A c \in Clients : Session(c)

\* The queue of requests: how what a client sends and a thread receives changes
\* what is asked for in it.
LEMMA QueueFacts ==
  ASSUME NEW queue \in Seq(Requests)
  PROVE  /\ WithoutExit(queue) \in Seq(Requests)
         /\ Len(WithoutExit(queue)) \in Nat
         /\ Len(WithoutExit(queue)) = IF EndsWithExit(queue) THEN Len(queue) - 1 ELSE Len(queue)
         /\ WithoutExit(queue) # <<>> => Head(WithoutExit(queue)) = Head(queue)
         /\ \A p \in Requests :
              IF p.op = OPERATION_EXIT THEN WithoutExit(Append(queue, p)) = queue
              ELSE WithoutExit(Append(queue, p)) = Append(queue, p)
         /\ queue # <<>> /\ Head(queue).op # OPERATION_EXIT =>
              /\ WithoutExit(queue) # <<>>
              /\ Len(WithoutExit(Tail(queue))) = Len(WithoutExit(queue)) - 1
<1> USE DEF WithoutExit, EndsWithExit
<1>1. /\ WithoutExit(queue) \in Seq(Requests)
      /\ Len(WithoutExit(queue)) \in Nat
      /\ Len(WithoutExit(queue)) = IF EndsWithExit(queue) THEN Len(queue) - 1 ELSE Len(queue)
  OBVIOUS
<1>2. WithoutExit(queue) # <<>> => Head(WithoutExit(queue)) = Head(queue)
  OBVIOUS
<1>3. ASSUME NEW p \in Requests
      PROVE  IF p.op = OPERATION_EXIT THEN WithoutExit(Append(queue, p)) = queue
             ELSE WithoutExit(Append(queue, p)) = Append(queue, p)
  <2> PICK longer : longer = Append(queue, p)
    OBVIOUS
  <2>1. longer \in Seq(Requests) /\ longer # <<>> /\ Len(longer) = Len(queue) + 1 /\ longer[Len(longer)] = p
    OBVIOUS
  <2>2. SubSeq(longer, 1, Len(longer) - 1) = queue
    BY <2>1
  <2> QED
    BY <2>1, <2>2
<1>4. ASSUME queue # <<>>, Head(queue).op # OPERATION_EXIT
      PROVE  /\ WithoutExit(queue) # <<>>
             /\ Len(WithoutExit(Tail(queue))) = Len(WithoutExit(queue)) - 1
  <2> PICK rest : rest = Tail(queue)
    OBVIOUS
  <2>1. rest \in Seq(Requests) /\ Len(rest) = Len(queue) - 1 /\ \A i \in 1 .. Len(rest) : rest[i] = queue[i + 1]
    BY <1>4
  <2>2. EndsWithExit(rest) <=> EndsWithExit(queue)
    <3>1. CASE Len(queue) = 1
      BY <1>4, <2>1, <3>1
    <3>2. CASE Len(queue) # 1
      <4>1. Len(rest) >= 1 /\ rest # <<>> /\ rest[Len(rest)] = queue[Len(queue)]
        BY <1>4, <2>1, <3>2
      <4> QED
        BY <1>4, <4>1
    <3> QED
      BY <3>1, <3>2
  <2>3. Len(WithoutExit(rest)) = IF EndsWithExit(rest) THEN Len(rest) - 1 ELSE Len(rest)
    BY <2>1
  <2> QED
    BY <1>1, <1>4, <2>1, <2>2, <2>3
<1> QED
  BY <1>1, <1>2, <1>3, <1>4

LEMMA TailShape ==
  ASSUME NEW queue \in Seq(Requests), NEW over \in BOOLEAN, queue # <<>>,
         Len(queue) > 1 => EndsWithExit(queue),
         \A i \in 1 .. Len(queue) : queue[i].op = OPERATION_EXIT => i = Len(queue) /\ over
  PROVE  /\ Len(Tail(queue)) > 1 => EndsWithExit(Tail(queue))
         /\ \A i \in 1 .. Len(Tail(queue)) :
              Tail(queue)[i].op = OPERATION_EXIT => i = Len(Tail(queue)) /\ over
<1>1. ASSUME NEW rest \in Seq(Requests), Len(queue) = Len(rest) + 1,
             \A i \in 1 .. Len(rest) : rest[i] = queue[i + 1]
      PROVE  /\ Len(rest) > 1 => EndsWithExit(rest)
             /\ \A i \in 1 .. Len(rest) : rest[i].op = OPERATION_EXIT => i = Len(rest) /\ over
  <2>1. Len(rest) \in Nat
    OBVIOUS
  <2>2. ASSUME NEW i \in 1 .. Len(rest), rest[i].op = OPERATION_EXIT PROVE i = Len(rest) /\ over
    <3>1. i + 1 \in 1 .. Len(queue) /\ queue[i + 1].op = OPERATION_EXIT
      BY <1>1, <2>1, <2>2
    <3>2. i + 1 = Len(queue) /\ over
      BY <3>1
    <3> QED
      BY <1>1, <2>1, <3>2
  <2> QED
    BY <1>1, <2>1, <2>2 DEF EndsWithExit
<1>2. /\ Tail(queue) \in Seq(Requests) /\ Len(queue) = Len(Tail(queue)) + 1
      /\ \A i \in 1 .. Len(Tail(queue)) : Tail(queue)[i] = queue[i + 1]
  OBVIOUS
<1> QED
  BY <1>1, <1>2, Zenon

\* A session is not disturbed by steps that leave its own state alone.
Same(c) ==
  /\ client'[c] = client[c] /\ server_end'[c] = server_end[c] /\ client_end'[c] = client_end[c]
  /\ to_server'[c] = to_server[c] /\ to_client'[c] = to_client[c]
  /\ thread'[c] = thread[c] /\ request'[c] = request[c]
  /\ currentBalance'[c] = currentBalance[c] /\ response'[c] = response[c]
OthersSame(c) == \A d \in Clients \ {c} : Same(d)

LEMMA SameSession == ASSUME NEW c \in Clients, Same(c), Session(c) PROVE Session(c)'
  BY DEF Same, Session, Underway, Asked, Busy

\* A step of a client leaves the other sessions alone.
LEMMA ClientLocal ==
  ASSUME TypeOK, UNCHANGED serverVars, NEW c \in Clients,
         EstablishConnection(c) \/ ClientStep(c)
  PROVE  OthersSame(c)
  BY DEF TypeOK, ConnectionTypeOK, ServerTypeOK, ClientTypeOK, serverVars, connectionVars,
         OthersSame, Same, EstablishConnection, ClientStep, Connect, ConnectFails, transmitRequest,
         TransmitInVain, BrokenPipe, Exit, Interrupt, ClientReceives, receiveServerMessage,
         ReceiveNothing

\* So does a step of its thread, and its connection.
LEMMA ThreadLocal ==
  ASSUME TypeOK, UNCHANGED clientVars, NEW c \in Clients, ThreadStep(c) \/ AcceptStep(c)
  PROVE  OthersSame(c)
<1> USE DEF TypeOK, ConnectionTypeOK, ServerTypeOK, ClientTypeOK, clientVars, serverVars,
            connectionVars, OthersSame, Same, GoTo, Say
<1>1. CASE Receive(c) \/ EndSession(c) \/ Send(c) \/ Lock(c) \/ Unlock(c)
  BY <1>1 DEF Receive, EndSession, Send, Forget, Lock, Unlock
<1>2. CASE ReadBalance(c) \/ OpenFails(c) \/ CreateFile(c) \/ InitializeFile(c) \/ CreateFails(c)
  BY <1>2 DEF ReadBalance, OpenFails, CreateFile, InitializeFile, CreateFails
<1>3. CASE Decline(c) \/ Truncate(c) \/ Write(c) \/ TruncateFails(c)
  BY <1>3 DEF Decline, Truncate, Write, TruncateFails
<1>4. CASE AcceptStep(c)
  BY <1>4 DEF AcceptStep, Accept, AcceptFails
<1> QED
  BY <1>1, <1>2, <1>3, <1>4 DEF ThreadStep

\* Nothing is on its way for a client that shows its menu.
LEMMA MenuIsQuiet ==
  ASSUME TypeOK, NEW c \in Clients, Session(c), client[c] = "menu"
  PROVE  /\ to_server[c] = <<>> /\ to_client[c] = <<>>
         /\ thread[c] \in {"none", "recv"}
<1> PICK queue, back : queue = to_server[c] /\ back = to_client[c]
  OBVIOUS
<1>1. queue \in Seq(Requests) /\ Len(queue) \in Nat /\ back \in Seq(Responses) /\ Len(back) \in Nat
  BY DEF TypeOK, ConnectionTypeOK
<1>2. Len(WithoutExit(queue)) + Busy(c) + Len(back) = 0 /\ Len(WithoutExit(queue)) \in Nat
  BY <1>1, QueueFacts DEF Session, Underway, Asked
<1>3. Busy(c) \in {0, 1}
  BY DEF Busy
<1>4. Len(WithoutExit(queue)) = 0 /\ Busy(c) = 0 /\ Len(back) = 0
  BY <1>1, <1>2, <1>3
<1>5. ~EndsWithExit(queue)
  <2>1. \A i \in 1 .. Len(queue) : queue[i].op # OPERATION_EXIT
    BY DEF Session
  <2> QED
    BY <1>1, <2>1 DEF EndsWithExit
<1>6. Len(queue) = 0
  BY <1>1, <1>4, <1>5, QueueFacts
<1> QED
  BY <1>1, <1>4, <1>6 DEF Busy

\* The client's side of a session.
LEMMA ClientSession ==
  ASSUME SessionInv, TypeOK', UNCHANGED serverVars, NEW c \in Clients,
         EstablishConnection(c) \/ ClientStep(c)
  PROVE  Session(c)'
<1> USE DEF SessionInv, Session, TypeOK, ConnectionTypeOK, ClientTypeOK, serverVars, connectionVars
<1>1. CASE EstablishConnection(c)
  BY <1>1, QueueFacts DEF EstablishConnection, Connect, ConnectFails, Underway, Asked, Busy
<1>2. ASSUME NEW p \in Payloads, transmitRequest(c, p) PROVE Session(c)'
  <2>1. p \in Requests /\ p.op # OPERATION_EXIT
    BY PayloadType DEF Payloads, OPERATION_WITHDRAW, OPERATION_DEPOSIT, OPERATION_CHECK_BALANCE,
                       OPERATION_EXIT
  <2>2. /\ to_server[c] \in Seq(Requests) /\ to_server'[c] = Append(to_server[c], p)
        /\ client[c] = "menu" /\ client'[c] = "waiting" /\ server_end[c] \in {"backlog", "open"}
        /\ to_client' = to_client /\ thread' = thread /\ server_end' = server_end
        /\ request' = request /\ to_client[c] \in Seq(Responses)
    BY <1>2 DEF transmitRequest
  <2>3. to_server[c] = <<>> /\ to_client[c] = <<>> /\ thread[c] \in {"none", "recv"}
    BY <2>2, MenuIsQuiet
  <2>4. to_server'[c] = <<p>> /\ to_client'[c] = <<>>
    BY <2>1, <2>2, <2>3
  <2>5. WithoutExit(<<p>>) = <<p>> /\ ~EndsWithExit(<<p>>)
    BY <2>1 DEF WithoutExit, EndsWithExit
  <2>6. Underway(c)' = 1
    BY <2>2, <2>3, <2>4, <2>5 DEF Underway, Asked, Busy
  <2> QED
    BY <2>1, <2>2, <2>3, <2>4, <2>5, <2>6
<1>3. CASE TransmitInVain(c)
  BY <1>3, QueueFacts DEF TransmitInVain, Underway, Asked, Busy
<1>4. CASE BrokenPipe(c) \/ Interrupt(c)
  BY <1>4, QueueFacts DEF BrokenPipe, Interrupt, Underway, Asked, Busy
<1>5. CASE Exit(c)
  <2> PICK e : e = [op |-> OPERATION_EXIT, amount |-> 0]
    OBVIOUS
  <2>1. /\ e \in Requests /\ e.op = OPERATION_EXIT
        /\ client[c] = "menu" /\ client'[c] = "ended"
        /\ to_client' = to_client /\ thread' = thread /\ server_end' = server_end
        /\ request' = request
        /\ \/ server_end[c] \in {"backlog", "open"} /\ to_server'[c] = Append(to_server[c], e)
           \/ to_server'[c] = to_server[c]
    BY <1>5 DEF Exit, Requests, Amounts, OPERATION_EXIT, OPERATION_WITHDRAW
  <2>2. to_server[c] = <<>> /\ to_client[c] = <<>> /\ thread[c] \in {"none", "recv"}
    BY <2>1, MenuIsQuiet
  <2>3. to_server'[c] = <<>> \/ (server_end[c] \in {"backlog", "open"} /\ to_server'[c] = <<e>>)
    BY <2>1, <2>2
  <2>4. EndsWithExit(<<e>>) /\ Len(WithoutExit(<<e>>)) = 0 /\ Len(WithoutExit(<<>>)) = 0
    BY <2>1 DEF WithoutExit, EndsWithExit
  <2>5. Underway(c)' = 0
    <3>1. Len(Asked(c)') = 0
      BY <2>3, <2>4 DEF Asked
    <3>2. Busy(c)' = 0 /\ Len(to_client[c]') = 0
      BY <2>1, <2>2 DEF Busy
    <3> QED
      BY <3>1, <3>2 DEF Underway
  <2>6. CASE to_server'[c] = <<>>
    BY <2>1, <2>2, <2>5, <2>6
  <2>7. CASE to_server'[c] = <<e>> /\ server_end[c] \in {"backlog", "open"}
    BY <2>1, <2>2, <2>4, <2>5, <2>7
  <2> QED
    BY <2>3, <2>6, <2>7
<1>6. CASE ClientReceives(c)
  BY <1>6, QueueFacts DEF ClientReceives, receiveServerMessage, ReceiveNothing, Underway, Asked, Busy
<1> QED
  BY <1>1, <1>2, <1>3, <1>4, <1>5, <1>6 DEF ClientStep

\* The server's side of a session.
LEMMA ServerSession ==
  ASSUME SessionInv, TypeOK', UNCHANGED clientVars, NEW c \in Clients, ThreadStep(c) \/ AcceptStep(c)
  PROVE  Session(c)'
<1> PICK queue : queue = to_server[c]
  OBVIOUS
<1>1. /\ queue \in Seq(Requests) /\ to_client[c] \in Seq(Responses) /\ Session(c)
      /\ client' = client /\ response[c] \in Responses
      /\ thread \in [Clients -> ThreadSteps] /\ server_end \in [Clients -> {"none", "backlog", "open", "closed", "reset"}]
      /\ to_server \in [Clients -> Seq(Requests)] /\ to_client \in [Clients -> Seq(Responses)]
      /\ request \in [Clients -> Requests]
  BY DEF SessionInv, TypeOK, ConnectionTypeOK, ServerTypeOK, clientVars
<1>b. Busy(c) \in {0, 1} /\ Len(WithoutExit(<<>>)) = 0
  BY DEF Busy, WithoutExit, EndsWithExit
<1>n. Len(queue) \in Nat /\ Len(to_client[c]) \in Nat /\ Len(WithoutExit(queue)) \in Nat
  BY <1>1, QueueFacts
<1>u. /\ Underway(c) = Len(WithoutExit(queue)) + Busy(c) + Len(to_client[c])
      /\ Underway(c)' = Len(WithoutExit(to_server'[c])) + Busy(c)' + Len(to_client'[c])
  BY DEF Underway, Asked
<1>s. /\ Underway(c) <= 1 /\ (client[c] = "menu" => Underway(c) = 0)
      /\ \A i \in 1 .. Len(queue) :
           queue[i].op = OPERATION_EXIT => i = Len(queue) /\ client[c] = "ended"
      /\ Len(queue) > 1 => EndsWithExit(queue)
      /\ thread[c] # "none" <=> server_end[c] = "open"
      /\ client[c] = "start" => server_end[c] = "none"
  BY <1>1 DEF Session
<1>2. CASE Receive(c)
  <2>1. /\ queue # <<>> /\ Head(queue).op # OPERATION_EXIT /\ thread[c] = "recv"
        /\ request'[c] = Head(queue) /\ to_server'[c] = Tail(queue) /\ thread'[c] = "lock"
        /\ UNCHANGED <<client_end, server_end, to_client>>
    BY <1>1, <1>2 DEF Receive, GoTo, At
  <2>2. Len(WithoutExit(Tail(queue))) = Len(WithoutExit(queue)) - 1
    BY <1>1, <2>1, QueueFacts
  <2>3. Underway(c)' = Underway(c)
    <3>1. Busy(c) = 0 /\ Busy(c)' = 1
      BY <2>1 DEF Busy
    <3>2. /\ Len(WithoutExit(to_server'[c])) = Len(WithoutExit(queue)) - 1
          /\ Len(to_client'[c]) = Len(to_client[c])
      BY <2>1, <2>2
    <3> QED
      BY <1>n, <1>u, <3>1, <3>2
  <2>4. /\ Len(Tail(queue)) > 1 => EndsWithExit(Tail(queue))
        /\ \A i \in 1 .. Len(Tail(queue)) :
             Tail(queue)[i].op = OPERATION_EXIT => i = Len(Tail(queue)) /\ client[c] = "ended"
    BY <1>1, <1>s, <2>1, TailShape
  <2>7. client' = client /\ client[c] # "menu"
    <3>1. Len(WithoutExit(queue)) > 0
      BY <1>1, <2>1, QueueFacts
    <3> QED
      BY <1>1, <1>b, <1>n, <1>s, <1>u, <3>1
  <2> QED
    BY <1>1, <2>1, <2>3, <2>4, <2>7 DEF Session
<1>3. CASE EndSession(c)
  <2>1. /\ thread[c] = "recv" /\ to_server'[c] = <<>> /\ server_end'[c] = "closed"
        /\ thread'[c] = "none" /\ UNCHANGED <<client_end, to_client, request>>
    BY <1>1, <1>3 DEF EndSession, GoTo, At
  <2>2. Underway(c)' <= Underway(c) /\ Underway(c)' \in Nat /\ Underway(c) \in Nat
    <3>1. Busy(c)' = 0
      BY <2>1 DEF Busy
    <3> QED
      BY <1>1, <1>b, <1>n, <1>u, <2>1, <3>1
  <2> QED
    BY <1>1, <2>1, <2>2 DEF Session
<1>4. CASE AcceptFails(c)
  <2>1. /\ server_end[c] = "backlog" /\ to_server'[c] = <<>> /\ server_end'[c] \in {"closed", "reset"}
        /\ UNCHANGED <<client_end, to_client, serverVars>>
    BY <1>1, <1>4 DEF AcceptFails, ClosedEnd, serverVars
  <2>2. Underway(c)' <= Underway(c) /\ Underway(c)' \in Nat /\ Underway(c) \in Nat
    <3>1. Busy(c)' = Busy(c)
      BY <2>1 DEF Busy, serverVars
    <3> QED
      BY <1>1, <1>b, <1>n, <1>u, <2>1, <3>1
  <2> QED
    BY <1>1, <2>1, <2>2 DEF Session, serverVars
<1>5. CASE Accept(c)
  <2>1. /\ server_end[c] = "backlog" /\ server_end'[c] = "open" /\ thread'[c] = "recv"
        /\ UNCHANGED <<client_end, to_server, to_client, request>>
    BY <1>1, <1>5 DEF Accept, GoTo
  <2>2. Underway(c)' = Underway(c)
    BY <1>1, <2>1 DEF Underway, Asked, Busy, Session
  <2> QED
    BY <1>1, <2>1, <2>2 DEF Session
<1>6. CASE Send(c)
  <2>1. /\ thread[c] = "send" /\ thread'[c] = "recv"
        /\ to_client'[c] = Append(to_client[c], response[c]) \/ to_client'[c] = to_client[c]
        /\ UNCHANGED <<client_end, server_end, to_server>>
    BY <1>1, <1>6 DEF Send, GoTo, At
  <2>2. response[c] \in Responses /\ Len(to_client'[c]) <= Len(to_client[c]) + 1 /\ Len(to_client'[c]) \in Nat
    BY <1>1, <2>1
  <2>3. Underway(c)' <= Underway(c) /\ Underway(c)' \in Nat /\ Underway(c) \in Nat
    <3>1. Busy(c) = 1 /\ Busy(c)' = 0
      BY <2>1 DEF Busy
    <3> QED
      BY <1>1, <1>b, <1>n, <1>u, <2>1, <2>2, <3>1
  <2>4. server_end[c] = "open"
    BY <1>s, <2>1
  <2>5. Underway(c)' <= 1 /\ (client[c] = "menu" => Underway(c)' = 0)
    BY <1>s, <2>3
  <2>6. Session(c)
    BY <1>1
  <2> QED
    BY <1>1, <2>1, <2>4, <2>5, <2>6 DEF Session
<1>7. CASE UNCHANGED <<connectionVars, request>> /\ thread[c] \notin {"none", "recv"}
           /\ thread'[c] \notin {"none", "recv"}
  <2>1. Underway(c)' = Underway(c)
    BY <1>7 DEF Underway, Asked, Busy, connectionVars
  <2> QED
    BY <1>1, <1>7, <2>1 DEF Session, connectionVars
<1>8. ASSUME ThreadStep(c), ~Receive(c), ~EndSession(c), ~Send(c)
      PROVE  UNCHANGED <<connectionVars, request>> /\ thread[c] \notin {"none", "recv"}
             /\ thread'[c] \notin {"none", "recv"}
  BY <1>1, <1>8 DEF connectionVars, ThreadStep, Lock, Unlock, ReadBalance, OpenFails, CreateFile, InitializeFile, CreateFails,
              Decline, Truncate, Write, TruncateFails, At, GoTo
<1> QED
  BY <1>2, <1>3, <1>4, <1>5, <1>6, <1>7, <1>8 DEF AcceptStep

\* Stopping, restarting or starving the server: a crash ends every session.
LEMMA ProcessSession ==
  ASSUME SessionInv, TypeOK', UNCHANGED clientVars, Crash \/ Restart \/ LockFile, NEW c \in Clients
  PROVE  Session(c)'
<1>1. Session(c)
  BY DEF SessionInv
<1>2. CASE Restart \/ LockFile
  <2>1. Same(c)
    BY <1>2 DEF Restart, LockFile, Same, connectionVars, clientVars
  <2> QED
    BY <1>1, <2>1, SameSession
<1>3. CASE Crash
  <2>1. /\ to_server'[c] = <<>> /\ thread'[c] = "none" /\ to_client' = to_client /\ client' = client
        /\ server_end'[c] = IF server_end[c] \in {"backlog", "open"} THEN ClosedEnd(c) ELSE server_end[c]
    BY <1>3 DEF Crash, clientVars
  <2>2. /\ to_server[c] \in Seq(Requests) /\ Len(to_client[c]) \in Nat
        /\ Len(WithoutExit(to_server[c])) \in Nat
    BY QueueFacts DEF SessionInv, TypeOK, ConnectionTypeOK
  <2>3. Len(WithoutExit(<<>>)) = 0 /\ Busy(c) \in {0, 1} /\ Busy(c)' = 0
    BY <2>1 DEF WithoutExit, EndsWithExit, Busy
  <2>4. /\ Underway(c) = Len(WithoutExit(to_server[c])) + Busy(c) + Len(to_client[c])
        /\ Underway(c)' = Len(to_client[c])
    BY <2>1, <2>2, <2>3 DEF Underway, Asked
  <2>5. Underway(c)' <= Underway(c) /\ Underway(c) \in Nat /\ Underway(c)' \in Nat
    BY <2>2, <2>3, <2>4
  <2>6. server_end'[c] # "open" /\ (server_end'[c] = "none" => server_end[c] = "none")
        /\ (server_end[c] = "none" => server_end'[c] = "none")
    BY <2>1 DEF ClosedEnd
  <2> QED
    BY <1>1, <2>1, <2>5, <2>6 DEF Session
<1> QED
  BY <1>2, <1>3

\* The mutex is held by the one thread that is in a critical section.
LEMMA ThreadMutex ==
  ASSUME SessionInv, NEW c \in Clients, ThreadStep(c)
  PROVE  MutexInv'
<1>1. /\ MutexInv /\ thread \in [Clients -> ThreadSteps] /\ accountMutex \in Clients \cup {NOBODY}
      /\ NOBODY \notin Clients
  BY ServerAssumption DEF SessionInv, TypeOK, ServerTypeOK
<1> USE DEF MutexInv, CriticalSteps, GoTo, At
<1>2. CASE Receive(c) \/ EndSession(c) \/ Send(c)
  BY <1>1, <1>2 DEF Receive, EndSession, Send
<1>3. CASE Lock(c)
  BY <1>1, <1>3 DEF Lock
<1>4. CASE Unlock(c)
  BY <1>1, <1>4 DEF Unlock
<1>5. CASE ReadBalance(c) \/ OpenFails(c) \/ CreateFile(c) \/ InitializeFile(c) \/ CreateFails(c)
  BY <1>1, <1>5 DEF ReadBalance, OpenFails, CreateFile, InitializeFile, CreateFails
<1>6. CASE Decline(c) \/ Truncate(c) \/ Write(c) \/ TruncateFails(c)
  BY <1>1, <1>6 DEF Decline, Truncate, Write, TruncateFails
<1> QED
  BY <1>2, <1>3, <1>4, <1>5, <1>6 DEF ThreadStep

LEMMA NextMutex == SessionInv /\ [Next]_vars => MutexInv'
<1> SUFFICES ASSUME SessionInv, [Next]_vars PROVE MutexInv'
  OBVIOUS
<1>1. MutexInv /\ thread \in [Clients -> ThreadSteps] /\ NOBODY \notin Clients
  BY ServerAssumption DEF SessionInv, TypeOK, ServerTypeOK
<1>2. CASE UNCHANGED <<thread, accountMutex>>
  BY <1>1, <1>2 DEF MutexInv
<1>3. CASE Crash
  BY <1>1, <1>3 DEF Crash, MutexInv, CriticalSteps
<1>4. ASSUME NEW c \in Clients, AcceptStep(c) PROVE MutexInv'
  <2>1. thread[c] = "none" \/ UNCHANGED <<thread, accountMutex>>
    BY <1>4 DEF AcceptStep, Accept, AcceptFails, SessionInv, Session, serverVars
  <2>2. CASE Accept(c)
    BY <1>1, <2>1, <2>2 DEF Accept, GoTo, MutexInv, CriticalSteps
  <2>3. CASE AcceptFails(c)
    BY <1>2, <2>3 DEF AcceptFails, serverVars
  <2> QED
    BY <1>4, <2>2, <2>3 DEF AcceptStep
<1>5. CASE UNCHANGED serverVars \/ UNCHANGED vars \/ Restart \/ LockFile
  BY <1>2, <1>5 DEF vars, serverVars, Restart, LockFile
<1> QED
  BY <1>3, <1>4, <1>5, ThreadMutex DEF Next, ServerNext

\* Every step keeps what is known of the sessions.
LEMMA NextSession == SessionInv /\ [Next]_vars => SessionInv'
<1> SUFFICES ASSUME SessionInv, [Next]_vars PROVE SessionInv'
  OBVIOUS
<1>1. TypeOK /\ TypeOK' /\ MutexInv'
  BY NextType, NextMutex DEF SessionInv
<1>2. ASSUME NEW c \in Clients, OthersSame(c), Session(c)' PROVE \A d \in Clients : Session(d)'
  BY <1>2, SameSession DEF OthersSame, SessionInv
<1>3. CASE \E c \in Clients : (EstablishConnection(c) \/ ClientStep(c)) /\ UNCHANGED serverVars
  BY <1>1, <1>2, <1>3, ClientLocal, ClientSession DEF SessionInv
<1>4. CASE UNCHANGED clientVars /\ \E c \in Clients : AcceptStep(c) \/ ThreadStep(c)
  BY <1>1, <1>2, <1>4, ThreadLocal, ServerSession DEF SessionInv
<1>5. CASE UNCHANGED clientVars /\ (Crash \/ Restart \/ LockFile)
  BY <1>1, <1>5, ProcessSession DEF SessionInv
<1>6. CASE UNCHANGED vars
  BY <1>1, <1>6, SameSession
  DEF SessionInv, Same, vars, connectionVars, serverVars, clientVars
<1> QED
  BY <1>3, <1>4, <1>5, <1>6 DEF Next, ServerNext

LEMMA InitSession == Init => SessionInv
<1> SUFFICES ASSUME Init PROVE SessionInv
  OBVIOUS
<1>1. MutexInv
  BY ServerAssumption DEF Init, ServerInit, MutexInv, CriticalSteps
<1>2. ASSUME NEW c \in Clients PROVE Session(c)
  <2>1. /\ to_server[c] = <<>> /\ to_client[c] = <<>> /\ thread[c] = "none" /\ client[c] = "start"
        /\ server_end[c] = "none"
    BY DEF Init, ServerInit, ConnectionInit, ClientInit
  <2>2. Underway(c) = 0
    BY <2>1 DEF Underway, Asked, WithoutExit, EndsWithExit, Busy
  <2> QED
    BY <2>1, <2>2 DEF Session
<1> QED
  BY <1>1, <1>2, InitType DEF SessionInv

\* Whatever fails and however often the server is stopped, the mutex is held by
\* the one thread in a critical section, and every session keeps to its protocol.
THEOREM SessionsCorrect == Spec => []SessionInv
  BY InitSession, NextSession, PTL DEF Spec

\* A session has one command under way at most, as a request, in its thread or
\* as an answer, whatever fails: answers belong to the last request, and no
\* thread sends twice to a client that is gone.
THEOREM OneCommandAtATime == Spec => []OneInFlight
<1>1. SessionInv => OneInFlight
  <2> SUFFICES ASSUME SessionInv, NEW c \in Clients
               PROVE  /\ Underway(c) <= 1
                      /\ client[c] = "menu" => Underway(c) = 0
                      /\ \A i \in 1 .. Len(to_server[c]) - 1 : to_server[c][i].op # OPERATION_EXIT
                      /\ Len(to_server[c]) > 1 => client[c] = "ended"
    BY DEF OneInFlight, Underway
  <2>1. Session(c) /\ to_server[c] \in Seq(Requests)
    BY DEF SessionInv, TypeOK, ConnectionTypeOK
  <2> QED
    BY <2>1 DEF Session, EndsWithExit
<1> QED
  BY <1>1, SessionsCorrect, PTL

\* No two session threads are between lock and unlock of accountMutex at once,
\* also after the server was stopped inside a critical section and restarted.
THEOREM MutualExclusion == Spec => [](\A c, d \in Clients :
    thread[c] \in CriticalSteps /\ thread[d] \in CriticalSteps => c = d)
<1>1. SessionInv => \A c, d \in Clients :
                      thread[c] \in CriticalSteps /\ thread[d] \in CriticalSteps => c = d
  BY DEF SessionInv, MutexInv
<1> QED
  BY <1>1, SessionsCorrect, PTL

-----------------------------------------------------------------------------
(* The account file.                                                       *)

\* A request that got past its handler's own check of the amount.
Checked(c) == request[c].op = OPERATION_DEPOSIT => ~AtMostZero(amount(c))

\* What the thread of c, at each of its steps, knows of the file.
Knows(c) ==
  /\ At(c, "create") => account_file = ABSENT
  /\ At(c, "initialize") => account_file = EMPTY
  /\ At(c, "decide") =>
       /\ currentBalance[c] \in Amounts
       /\ \/ account_file = currentBalance[c]
          \/ ~file_writable /\ account_file = ABSENT /\ currentBalance[c] = 0
  /\ At(c, "write") =>
       /\ account_file = EMPTY /\ currentBalance[c] \in Amounts
       /\ request[c].op # OPERATION_CHECK_BALANCE /\ ~InvalidWithdrawal(c) /\ ~Overdraws(c)
  /\ At(c, "unlock") /\ response[c].verdict = "SUCCESS" =>
       \/ account_file = response[c].balance
       \/ ~file_writable /\ account_file \in {currentBalance[c], ABSENT}
  /\ thread[c] \in CriticalSteps \ {"unlock"} => Checked(c)

\* With a file that is lost only as a whole: it is empty only in the hands of
\* the thread that fills it, and never holds less than nothing.
FileInv ==
  /\ account_file = EMPTY =>
       accountMutex # NOBODY /\ thread[accountMutex] \in {"initialize", "write"}
  /\ account_file \in Amounts \cup {ABSENT, EMPTY}
  /\ \A c \in Clients : Knows(c)

\* What NeverOverdrawn and ToldAfterStored rest on: what is printed into the
\* file gets there, and the server is not stopped while it rewrites it.
ReliableFile == ~FileMayFail /\ MaxCrashes = 0

AccountInv == SessionInv /\ FileInv

\* Only a thread in a critical section touches the file or its own knowledge of
\* it, so the others' knowledge stays.
LEMMA OthersKnow ==
  ASSUME AccountInv, NEW c \in Clients, NEW d \in Clients \ {c}, Same(d), thread[c] \in CriticalSteps
  PROVE  Knows(d)'
<1>1. thread[d] \notin CriticalSteps /\ thread'[d] = thread[d]
  BY DEF AccountInv, SessionInv, MutexInv, Same
<1> QED
  BY <1>1 DEF Knows, CriticalSteps, At

\* What every step of a thread starts from.
LEMMA AccountFacts ==
  ASSUME AccountInv, NEW c \in Clients
  PROVE  /\ Knows(c) /\ thread \in [Clients -> ThreadSteps] /\ currentBalance \in [Clients -> Money]
         /\ request \in [Clients -> Requests] /\ request[c] \in Requests /\ amount(c) \in Amounts
         /\ currentBalance[c] \in Money /\ newBalance(c) \in Money /\ response \in [Clients -> Responses]
         /\ account_file \in Amounts \cup {ABSENT, EMPTY}
         /\ ABSENT # EMPTY /\ ABSENT \notin Money /\ EMPTY \notin Money /\ NOBODY \notin Clients
         /\ ABSENT \notin Amounts /\ EMPTY \notin Amounts /\ 0 \in Amounts
         /\ thread[c] \in CriticalSteps <=> accountMutex = c
         /\ account_file = EMPTY =>
              accountMutex # NOBODY /\ thread[accountMutex] \in {"initialize", "write"}
         /\ file_writable \in BOOLEAN
<1>1. Amounts \subseteq Money /\ 0 \in Amounts
  BY DEF Amounts, Money
<1> QED
  BY <1>1, ServerAssumption, NewBalanceType
  DEF AccountInv, SessionInv, FileInv, MutexInv, TypeOK, ServerTypeOK, Requests

\* A deposit, or a withdrawal that is not refused, leads to a balance that is not
\* negative: it is the sum or the difference of numbers, or no number if one of
\* them is none, other than a withdrawal of inf from a number, which is refused.
LEMMA Outcome ==
  ASSUME NEW c \in Clients, currentBalance[c] \in Amounts, amount(c) \in Amounts, Checked(c),
         request[c].op \in {OPERATION_DEPOSIT, OPERATION_WITHDRAW},
         ~InvalidWithdrawal(c), ~Overdraws(c)
  PROVE  /\ newBalance(c) \in Amounts
         /\ IF LosesNumber(c) THEN newBalance(c) \in NoNumbers
            ELSE /\ amount(c) \in Nat \ {0} /\ currentBalance[c] \in Nat /\ newBalance(c) \in Nat
                 /\ \/ /\ request[c].op = OPERATION_DEPOSIT
                       /\ newBalance(c) = currentBalance[c] + amount(c)
                    \/ /\ request[c].op = OPERATION_WITHDRAW /\ amount(c) <= currentBalance[c]
                       /\ newBalance(c) = currentBalance[c] - amount(c)
<1> PICK a, b : a = currentBalance[c] /\ b = amount(c)
  OBVIOUS
<1>1. /\ a \in Amounts /\ b \in Amounts /\ ~AtMostZero(b) /\ NAN # INF
      /\ \A x \in Amounts : (x \in Nat <=> x \in Int) /\ (x \in Nat \/ x \in NoNumbers)
      /\ \A x \in NoNumbers : x \notin Int /\ (x = NAN \/ x = INF)
      /\ NoNumbers \subseteq Amounts /\ Nat \subseteq Amounts
  BY MoneyAssumption DEF Checked, InvalidWithdrawal, Amounts, NoNumbers
<1>2. /\ request[c].op = OPERATION_WITHDRAW <=> request[c].op # OPERATION_DEPOSIT
      /\ request[c].op = OPERATION_WITHDRAW => ~Exceeds(b, a) /\ newBalance(c) = Minus(a, b)
      /\ request[c].op = OPERATION_DEPOSIT => newBalance(c) = Plus(a, b)
  BY <1>1 DEF Overdraws, newBalance, OPERATION_WITHDRAW, OPERATION_DEPOSIT
<1>3. CASE a \in Nat /\ b \in Nat
  <2>1. ~LosesNumber(c)
    BY <1>3, MoneyAssumption DEF LosesNumber
  <2>2. Plus(a, b) = a + b /\ Minus(a, b) = a - b /\ b # 0 /\ (Exceeds(b, a) <=> b > a)
    BY <1>1, <1>3, NumberFacts
  <2>3. newBalance(c) \in Nat
    BY <1>2, <1>3, <2>2
  <2> QED
    BY <1>1, <1>2, <1>3, <2>1, <2>2, <2>3
<1>4. CASE a \in NoNumbers \/ b \in NoNumbers
  <2>1. Plus(a, b) \in NoNumbers /\ Minus(a, b) \in NoNumbers /\ (Exceeds(b, a) <=> a \in Nat /\ b = INF)
    BY <1>1, <1>4, NoNumberFacts
  <2>2. newBalance(c) \in NoNumbers
    BY <1>2, <2>1
  <2>3. LosesNumber(c)
    BY <1>1, <1>2, <1>4, <2>1 DEF LosesNumber
  <2> QED
    BY <1>1, <2>2, <2>3
<1> QED
  BY <1>1, <1>3, <1>4

\* Knowledge of an untouched file stays.
LEMMA KnowledgeStays ==
  ASSUME NEW c \in Clients, Knows(c), Same(c), UNCHANGED <<account_file, file_writable>>
  PROVE  Knows(c)'
  BY DEF Knows, Same, At, Checked, InvalidWithdrawal, Overdraws, amount

\* Before and after its critical section a thread knows nothing of the file.
LEMMA AsideFile ==
  ASSUME AccountInv, NEW c \in Clients, OthersSame(c),
         Receive(c) \/ EndSession(c) \/ Send(c) \/ AcceptStep(c)
  PROVE  FileInv'
<1>1. /\ UNCHANGED <<account_file, file_writable, accountMutex>> /\ thread[c] \notin CriticalSteps
      /\ thread'[c] \notin CriticalSteps
  <2>1. thread[c] = "none" \/ ~AcceptStep(c)
    BY DEF AcceptStep, Accept, AcceptFails, AccountInv, SessionInv, Session
  <2> QED
    BY <2>1, AccountFacts
    DEF Receive, EndSession, Send, AcceptStep, Accept, AcceptFails, serverVars, CriticalSteps, At, GoTo
<1>2. Knows(c)'
  BY <1>1 DEF Knows, CriticalSteps, At
<1>3. ASSUME NEW d \in Clients \ {c} PROVE Knows(d)'
  BY <1>1, <1>3, KnowledgeStays DEF OthersSame, AccountInv, FileInv
<1>4. account_file = EMPTY => accountMutex # c /\ accountMutex \in Clients
  BY <1>1, AccountFacts DEF AccountInv, SessionInv, TypeOK, ServerTypeOK
<1>5. account_file = EMPTY => thread'[accountMutex] = thread[accountMutex]
  BY <1>4 DEF OthersSame, Same
<1> QED
  BY <1>1, <1>2, <1>3, <1>4, <1>5, AccountFacts DEF FileInv

\* Entering and leaving the critical section: the file is whole.
LEMMA EnterFile ==
  ASSUME AccountInv, NEW c \in Clients, OthersSame(c), Lock(c) \/ Unlock(c)
  PROVE  FileInv'
<1>1. UNCHANGED <<account_file, file_writable, request>> /\ account_file # EMPTY
  BY AccountFacts DEF Lock, Unlock, At, CriticalSteps
<1>2. Knows(c)'
  BY <1>1, AccountFacts DEF Lock, Unlock, Knows, Checked, amount, CriticalSteps, At, GoTo, Say
<1>3. ASSUME NEW d \in Clients \ {c} PROVE Knows(d)'
  BY <1>1, <1>3, KnowledgeStays DEF OthersSame, AccountInv, FileInv
<1> QED
  BY <1>1, <1>2, <1>3, AccountFacts DEF FileInv

\* Reading the balance, or creating the file for it.
LEMMA ReadFile ==
  ASSUME AccountInv, ReliableFile, NEW c \in Clients, OthersSame(c),
         \/ ReadBalance(c) \/ OpenFails(c) \/ CreateFile(c)
         \/ InitializeFile(c) \/ CreateFails(c)
  PROVE  FileInv'
<1>1. /\ thread[c] \in {"read", "create", "initialize"} /\ thread[c] \in CriticalSteps
      /\ accountMutex = c /\ accountMutex' = accountMutex /\ request' = request
      /\ file_writable' = file_writable
  BY AccountFacts
  DEF ReadBalance, OpenFails, CreateFile, InitializeFile, CreateFails, CriticalSteps, At
<1>2. Checked(c)'
  BY <1>1, AccountFacts DEF Knows, Checked, amount
<1>3. /\ account_file' = EMPTY => thread'[c] = "initialize"
      /\ account_file' \in Amounts \cup {ABSENT, EMPTY}
  BY <1>1, AccountFacts
  DEF ReadBalance, OpenFails, CreateFile, InitializeFile, CreateFails, CriticalSteps, At, GoTo, ReliableFile
<1>4. Knows(c)'
  BY <1>1, <1>2, AccountFacts
  DEF ReadBalance, OpenFails, CreateFile, InitializeFile, CreateFails, Knows, CriticalSteps, At, GoTo,
      ReliableFile
<1>5. ASSUME NEW d \in Clients \ {c} PROVE Knows(d)'
  BY <1>1, <1>5, OthersKnow DEF OthersSame
<1> QED
  BY <1>1, <1>3, <1>4, <1>5, AccountFacts DEF FileInv

\* Deciding about a request and writing the balance it leads to, which is never
\* negative.
LEMMA WriteFile ==
  ASSUME AccountInv, ReliableFile, NEW c \in Clients, OthersSame(c),
         Decline(c) \/ Truncate(c) \/ Write(c) \/ TruncateFails(c)
  PROVE  FileInv'
<1>1. /\ thread[c] \in {"decide", "write"} /\ thread[c] \in CriticalSteps
      /\ accountMutex = c /\ accountMutex' = accountMutex /\ request' = request
      /\ currentBalance' = currentBalance /\ file_writable' = file_writable
  BY AccountFacts DEF Decline, Truncate, Write, TruncateFails, CriticalSteps, At
<1>2. Checked(c)'
  BY <1>1, AccountFacts DEF Knows, Checked, amount
<1>w. Write(c) => newBalance(c) \in Amounts
  <2>1. request[c].op # OPERATION_EXIT
    BY <1>1 DEF AccountInv, SessionInv, Session
  <2>2. Write(c) => request[c].op \in {OPERATION_DEPOSIT, OPERATION_WITHDRAW}
    BY <2>1, AccountFacts
    DEF Write, Knows, Requests, OPERATION_WITHDRAW, OPERATION_DEPOSIT, OPERATION_CHECK_BALANCE,
        OPERATION_EXIT
  <2> QED
    BY <2>2, AccountFacts, Outcome DEF Write, Knows, At, CriticalSteps
<1>3. /\ account_file' = EMPTY => thread'[c] = "write"
      /\ account_file' \in Amounts \cup {ABSENT, EMPTY}
  BY <1>1, <1>w, AccountFacts
  DEF Decline, Truncate, Write, TruncateFails, At, GoTo, ReliableFile, CriticalSteps
<1>4. Knows(c)'
  <2>1. CASE Decline(c)
    BY <1>1, <1>2, <2>1, AccountFacts DEF Decline, Knows, CriticalSteps, At, GoTo, Say
  <2>2. CASE Truncate(c)
    BY <1>1, <1>2, <2>2, AccountFacts
    DEF Truncate, Knows, CriticalSteps, At, GoTo, InvalidWithdrawal, Overdraws, amount
  <2>3. CASE Write(c)
    BY <1>1, <1>2, <2>3, AccountFacts DEF Write, Knows, CriticalSteps, At, GoTo, Say, ReliableFile
  <2>4. CASE TruncateFails(c)
    BY <1>1, <1>2, <2>4, AccountFacts DEF TruncateFails, Knows, CriticalSteps, At, GoTo, Say, ReliableFile
  <2> QED
    BY <2>1, <2>2, <2>3, <2>4
<1>5. ASSUME NEW d \in Clients \ {c} PROVE Knows(d)'
  BY <1>1, <1>5, OthersKnow DEF OthersSame
<1> QED
  BY <1>1, <1>3, <1>4, <1>5, AccountFacts DEF FileInv

\* A reliable server does not crash; that the file becomes read-only, or that
\* the server is started again, does not change what the threads know.
LEMMA ProcessFile ==
  ASSUME AccountInv, ReliableFile, Crash \/ Restart \/ LockFile
  PROVE  FileInv' /\ ~Crash
<1>1. ~Crash
  BY DEF Crash, ReliableFile, AccountInv, SessionInv, TypeOK, ServerTypeOK
<1>2. /\ UNCHANGED <<account_file, accountMutex, thread, request, currentBalance, response>>
      /\ file_writable' = file_writable \/ ~file_writable'
  BY <1>1 DEF Restart, LockFile
<1>3. ASSUME NEW c \in Clients PROVE Knows(c)'
  BY <1>2, AccountFacts
  DEF Knows, At, Checked, InvalidWithdrawal, Overdraws, amount
<1> QED
  BY <1>1, <1>2, <1>3 DEF AccountInv, FileInv

\* Every step of a reliable server keeps what its threads know of the file.
LEMMA NextAccount == ASSUME ReliableFile PROVE AccountInv /\ [Next]_vars => AccountInv'
<1> SUFFICES ASSUME AccountInv, [Next]_vars PROVE AccountInv'
  OBVIOUS
<1>1. SessionInv' /\ TypeOK
  BY NextSession DEF AccountInv, SessionInv
<1>2. CASE UNCHANGED serverVars
  <2>1. \A c \in Clients : Knows(c)'
    BY <1>2
    DEF AccountInv, FileInv, serverVars, Knows, At, Checked, InvalidWithdrawal, Overdraws, amount
  <2> QED
    BY <1>1, <1>2, <2>1 DEF AccountInv, FileInv, serverVars
<1>3. ASSUME UNCHANGED clientVars, NEW c \in Clients, ThreadStep(c) \/ AcceptStep(c)
      PROVE  FileInv'
  BY <1>1, <1>3, ThreadLocal, AsideFile, EnterFile, ReadFile, WriteFile DEF ThreadStep
<1>4. CASE Crash \/ Restart \/ LockFile
  BY <1>1, <1>4, ProcessFile DEF AccountInv
<1> QED
  BY <1>1, <1>2, <1>3, <1>4 DEF AccountInv, Next, ServerNext, vars

LEMMA InitAccount == Init => AccountInv
<1>1. EMPTY \notin Amounts /\ ABSENT # EMPTY
  BY ServerAssumption DEF Amounts, Money
<1> QED
  BY <1>1, InitSession, ServerAssumption
  DEF AccountInv, FileInv, Init, ServerInit, Knows, At, CriticalSteps

\* The file is never less than nothing, it is empty only in the hands of the
\* thread that fills it, and what a thread has read of it is still true.
THEOREM AccountCorrect == ASSUME ReliableFile PROVE Spec => []AccountInv
  BY InitAccount, NextAccount, PTL DEF Spec

\* The mutex, the file, the messages and the answers agree at every step of
\* every thread and client, when what is printed into the file gets there and
\* the server is not stopped in between.
THEOREM ConsistencyCorrect == ASSUME ReliableFile PROVE Spec => []Consistent
<1>1. AccountInv => TornFileIsPrivate /\ ToldAfterStored /\ TypeOK
  BY DEF AccountInv, SessionInv, MutexInv, FileInv, Knows, TornFileIsPrivate, ToldAfterStored
<1> QED
  BY <1>1, AccountCorrect, OneCommandAtATime, PTL DEF Consistent

\* However the withdrawals of any number of clients interleave, no amount that is
\* a number overdraws the account: the balance a thread has checked is still there
\* when it writes.  A balance stops being a number only by an amount nan, whatever
\* the balance was, by a deposit of inf, or because it was none before.
THEOREM OverdraftCorrect == ASSUME ReliableFile PROVE Spec => []NeverOverdrawn
<1>1. AccountInv => NeverOverdrawn
  <2> SUFFICES ASSUME AccountInv PROVE NeverOverdrawn
    OBVIOUS
  <2>1. ASSUME NEW c \in Clients, At(c, "write")
        PROVE  /\ IF LosesNumber(c) THEN newBalance(c) \in NoNumbers ELSE newBalance(c) \in Nat
               /\ \A d \in Clients \ {c} : ~At(d, "write")
    <3>1. /\ currentBalance[c] \in Amounts /\ amount(c) \in Amounts /\ Checked(c)
          /\ ~InvalidWithdrawal(c) /\ ~Overdraws(c)
          /\ request[c].op # OPERATION_CHECK_BALANCE /\ request[c].op # OPERATION_EXIT
      BY <2>1, AccountFacts DEF Knows, At, CriticalSteps, AccountInv, SessionInv, Session
    <3>2. request[c].op \in {OPERATION_DEPOSIT, OPERATION_WITHDRAW}
      BY <3>1, AccountFacts
      DEF Requests, OPERATION_WITHDRAW, OPERATION_DEPOSIT, OPERATION_CHECK_BALANCE, OPERATION_EXIT
    <3>3. \A d \in Clients \ {c} : ~At(d, "write")
      BY <2>1 DEF AccountInv, SessionInv, MutexInv, CriticalSteps, At
    <3> QED
      BY <3>1, <3>2, <3>3, Outcome
  <2>2. account_file \in Int => account_file >= 0
    BY MoneyAssumption, ServerAssumption DEF AccountInv, FileInv, Amounts, NoNumbers, Money
  <2> QED
    BY <2>1, <2>2 DEF NeverOverdrawn
<1> QED
  BY <1>1, AccountCorrect, PTL

-----------------------------------------------------------------------------
(* The refinement.                                                         *)

PendingOf == [c \in Clients |-> Pending(c)]
AnswerOf == [c \in Clients |-> AnswerTo(c)]

\* A command is in one place: asked for, in its thread, or answered.
LEMMA OnePlace ==
  ASSUME SessionInv, NEW c \in Clients
  PROVE  /\ thread[c] \in ThreadSteps
         /\ Asked(c) # <<>> => thread[c] \in {"none", "recv"} /\ to_client[c] = <<>>
         /\ thread[c] \notin {"none", "recv"} => Asked(c) = <<>> /\ to_client[c] = <<>>
         /\ to_client[c] # <<>> => Len(to_client[c]) = 1 /\ Head(to_client[c]) \in Responses
         /\ Len(Asked(c)) \in 0 .. 1
         /\ Asked(c) # <<>> => Head(Asked(c)) \in Requests
<1>1. Asked(c) \in Seq(Requests) /\ to_client[c] \in Seq(Responses) /\ thread[c] \in ThreadSteps
  BY QueueFacts DEF SessionInv, TypeOK, ConnectionTypeOK, ServerTypeOK, Asked
<1>2. Len(Asked(c)) + Busy(c) + Len(to_client[c]) <= 1
  BY DEF SessionInv, Session, Underway
<1>3. Busy(c) = IF thread[c] \in {"none", "recv"} THEN 0 ELSE 1
  BY DEF Busy
<1>4. /\ Len(Asked(c)) \in Nat /\ (Asked(c) # <<>> <=> Len(Asked(c)) > 0)
      /\ Asked(c) # <<>> => Head(Asked(c)) \in Requests
  BY <1>1
<1>5. /\ Len(to_client[c]) \in Nat /\ (to_client[c] # <<>> <=> Len(to_client[c]) > 0)
      /\ to_client[c] # <<>> => Head(to_client[c]) \in Responses
  BY <1>1
<1>6. ASSUME NEW asked \in Nat, NEW busy \in {0, 1}, NEW answered \in Nat, asked + busy + answered <= 1
      PROVE  /\ asked # 0 => busy # 1 /\ answered = 0
             /\ busy = 1 => asked = 0 /\ answered = 0
             /\ answered # 0 => answered = 1 /\ asked = 0 /\ busy # 1
             /\ asked \in 0 .. 1
  BY <1>6
<1>7. /\ Len(Asked(c)) # 0 => Busy(c) # 1 /\ Len(to_client[c]) = 0
      /\ Busy(c) = 1 => Len(Asked(c)) = 0 /\ Len(to_client[c]) = 0
      /\ Len(to_client[c]) # 0 => Len(to_client[c]) = 1 /\ Len(Asked(c)) = 0 /\ Busy(c) # 1
      /\ Len(Asked(c)) \in 0 .. 1
  BY <1>2, <1>3, <1>4, <1>5, <1>6, Zenon
<1>8. /\ Asked(c) # <<>> <=> Len(Asked(c)) # 0
      /\ to_client[c] # <<>> <=> Len(to_client[c]) # 0
  BY <1>1
<1> QED
  BY <1>1, <1>3, <1>4, <1>5, <1>7, <1>8

\* The clients whose session is left alone keep their command and their answer.
LEMMA SameMap ==
  ASSUME NEW c \in Clients, Same(c)
  PROVE  Pending(c)' = Pending(c) /\ AnswerTo(c)' = AnswerTo(c)
  BY DEF Same, Pending, AnswerTo, Asked

LEMMA OthersMap ==
  ASSUME NEW c \in Clients, OthersSame(c)
  PROVE  /\ PendingOf' = [PendingOf EXCEPT ![c] = Pending(c)']
         /\ AnswerOf' = [AnswerOf EXCEPT ![c] = AnswerTo(c)']
<1>1. \A d \in Clients \ {c} : Pending(d)' = Pending(d) /\ AnswerTo(d)' = AnswerTo(d)
  BY SameMap DEF OthersSame
<1> QED
  BY <1>1 DEF PendingOf, AnswerOf

LEMMA Unmoved ==
  ASSUME NEW c \in Clients, OthersSame(c), Pending(c)' = Pending(c), AnswerTo(c)' = AnswerTo(c)
  PROVE  UNCHANGED <<PendingOf, AnswerOf>>
  BY OthersMap DEF PendingOf, AnswerOf

\* The step of a client is a request, a delivery or nothing to the account.
LEMMA ClientRefines ==
  ASSUME SessionInv, UNCHANGED serverVars, NEW c \in Clients, OthersSame(c),
         EstablishConnection(c) \/ ClientStep(c)
  PROVE  Account!Next \/ UNCHANGED Account!vars
<1>1. UNCHANGED <<Balance, file_writable, thread, request, response>>
  BY DEF serverVars, Balance, At
<1>2. ASSUME NEW p \in Payloads, transmitRequest(c, p) PROVE Account!Request(c)
  <2>1. p \in Requests /\ p.op # OPERATION_EXIT /\ p # NONE
    BY PayloadType, NoneAssumption
    DEF Payloads, OPERATION_WITHDRAW, OPERATION_DEPOSIT, OPERATION_CHECK_BALANCE, OPERATION_EXIT
  <2>2. to_server[c] = <<>> /\ to_client[c] = <<>> /\ thread[c] \in {"none", "recv"}
    BY <1>2, MenuIsQuiet DEF SessionInv, transmitRequest
  <2>3. to_server'[c] = <<p>> /\ to_client'[c] = <<>>
    BY <1>2, <2>1, <2>2 DEF transmitRequest, SessionInv, TypeOK, ConnectionTypeOK
  <2>4. WithoutExit(<<>>) = <<>> /\ WithoutExit(<<p>>) = <<p>>
    BY <2>1 DEF WithoutExit, EndsWithExit
  <2>5. Pending(c) = NONE /\ AnswerTo(c) = NONE
    BY <2>2, <2>4 DEF Pending, AnswerTo, Asked, Undecided, Decided
  <2>6. Pending(c)' = p /\ AnswerTo(c)' = NONE
    BY <1>1, <2>2, <2>3, <2>4 DEF Pending, AnswerTo, Asked, Decided
  <2>7. PendingOf' = [PendingOf EXCEPT ![c] = p] /\ AnswerOf' = AnswerOf
    BY <2>5, <2>6, OthersMap DEF AnswerOf
  <2> QED
    BY <1>1, <2>5, <2>7 DEF Account!Request, Account!Idle, PendingOf, AnswerOf
<1>3. CASE receiveServerMessage(c)
  <2>1. /\ to_client[c] # <<>> /\ to_client'[c] = Tail(to_client[c]) /\ to_server' = to_server
    BY <1>3 DEF receiveServerMessage, SessionInv, TypeOK, ConnectionTypeOK
  <2>2. /\ Len(to_client[c]) = 1 /\ Head(to_client[c]) \in Responses
        /\ thread[c] \in {"none", "recv"}
        /\ to_client[c] \in Seq(Responses)
    BY <2>1, OnePlace DEF SessionInv, TypeOK, ConnectionTypeOK
  <2>3. to_client'[c] = <<>>
    <3>1. \A s \in Seq(Responses) : Len(s) = 1 => Len(Tail(s)) = 0 /\ Tail(s) \in Seq(Responses)
      OBVIOUS
    <3>2. \A s \in Seq(Responses) : Len(s) = 0 => s = <<>>
      OBVIOUS
    <3> QED
      BY <2>1, <2>2, <3>1, <3>2
  <2>4. AnswerTo(c) # NONE /\ AnswerTo(c)' = NONE
    BY <1>1, <2>1, <2>2, <2>3, NoneAssumption DEF AnswerTo, Decided
  <2>5. Pending(c)' = Pending(c)
    BY <1>1, <2>1 DEF Pending, Asked
  <2>6. AnswerOf' = [AnswerOf EXCEPT ![c] = NONE] /\ PendingOf' = PendingOf
    BY <2>4, <2>5, OthersMap DEF PendingOf
  <2>7. Account!Deliver(c)
    BY <1>1, <2>4, <2>6 DEF Account!Deliver, PendingOf, AnswerOf
  <2> QED
    BY <2>7 DEF Account!Next
<1>4. ASSUME Asked(c)' = Asked(c), to_client' = to_client PROVE UNCHANGED Account!vars
  <2>1. Pending(c)' = Pending(c) /\ AnswerTo(c)' = AnswerTo(c)
    BY <1>1, <1>4 DEF Pending, AnswerTo
  <2> QED
    BY <1>1, <2>1, Unmoved DEF Account!vars, PendingOf, AnswerOf
<1>5. CASE Exit(c)
  <2> PICK e : e = [op |-> OPERATION_EXIT, amount |-> 0]
    OBVIOUS
  <2>1. to_server[c] = <<>> /\ to_client' = to_client
    BY <1>5, MenuIsQuiet DEF SessionInv, Exit
  <2>2. to_server'[c] = <<>> \/ to_server'[c] = <<e>>
    BY <1>5, <2>1 DEF Exit, SessionInv, TypeOK, ConnectionTypeOK
  <2>3. e.op = OPERATION_EXIT
    OBVIOUS
  <2>4. WithoutExit(<<>>) = <<>> /\ WithoutExit(<<e>>) = <<>>
    BY <2>3 DEF WithoutExit, EndsWithExit
  <2> QED
    BY <1>4, <2>1, <2>2, <2>4 DEF Asked
<1>6. CASE UNCHANGED <<to_server, to_client>>
  BY <1>4, <1>6 DEF Asked
<1> QED
  BY <1>2, <1>3, <1>5, <1>6
  DEF EstablishConnection, ClientStep, Connect, ConnectFails, TransmitInVain, BrokenPipe, Interrupt,
      ClientReceives, ReceiveNothing, Account!Next, connectionVars
\* A thread outside the critical section, and the accept loop: the command moves
\* on, its answer gets under way, or it is dropped with its session.
LEMMA AsideRefines ==
  ASSUME AccountInv, SessionInv', NEW c \in Clients, OthersSame(c),
         Receive(c) \/ EndSession(c) \/ Send(c) \/ AcceptStep(c)
  PROVE  Account!Next \/ UNCHANGED Account!vars
<1>1. /\ UNCHANGED <<account_file, file_writable, accountMutex>>
      /\ c # accountMutex /\ (accountMutex # NOBODY => accountMutex \in Clients)
  <2>1. thread[c] = "none" \/ ~AcceptStep(c)
    BY DEF AcceptStep, Accept, AcceptFails, AccountInv, SessionInv, Session
  <2>2. thread[c] \notin CriticalSteps
    BY <2>1, AccountFacts DEF Receive, EndSession, Send, CriticalSteps, At
  <2>3. UNCHANGED <<account_file, file_writable, accountMutex>>
    BY DEF Receive, EndSession, Send, AcceptStep, Accept, AcceptFails, serverVars
  <2> QED
    BY <2>2, <2>3, AccountFacts DEF AccountInv, SessionInv, TypeOK, ServerTypeOK
<1>2. Balance' = Balance
  <2>1. accountMutex # NOBODY =>
          thread'[accountMutex] = thread[accountMutex]
            /\ currentBalance'[accountMutex] = currentBalance[accountMutex]
    BY <1>1 DEF OthersSame, Same
  <2> QED
    BY <1>1, <2>1 DEF Balance, At
<1>3. ASSUME Pending(c)' = Pending(c), AnswerTo(c)' = AnswerTo(c) PROVE UNCHANGED Account!vars
  BY <1>1, <1>2, <1>3, Unmoved DEF Account!vars, PendingOf, AnswerOf
<1>4. /\ to_server \in [Clients -> Seq(Requests)] /\ to_client \in [Clients -> Seq(Responses)]
      /\ thread \in [Clients -> ThreadSteps] /\ request \in [Clients -> Requests]
      /\ to_server[c] \in Seq(Requests)
  BY DEF AccountInv, SessionInv, TypeOK, ConnectionTypeOK, ServerTypeOK
<1>5. WithoutExit(<<>>) = <<>>
  BY DEF WithoutExit, EndsWithExit
<1>6. CASE Receive(c)
  <2>1. /\ to_server[c] # <<>> /\ Head(to_server[c]).op # OPERATION_EXIT /\ thread[c] = "recv"
        /\ request'[c] = Head(to_server[c]) /\ to_server'[c] = Tail(to_server[c])
        /\ thread'[c] = "lock" /\ to_client' = to_client
    BY <1>4, <1>6 DEF Receive, GoTo, At
  <2>2. Asked(c) # <<>> /\ Head(Asked(c)) = request'[c]
    BY <1>4, <2>1, QueueFacts DEF Asked
  <2>3. to_client[c] = <<>> /\ Len(Asked(c)) = 1
    BY <2>2, OnePlace, <1>4, QueueFacts DEF AccountInv, Asked
  <2>4. Asked(c)' = <<>>
    <3>1. Len(WithoutExit(Tail(to_server[c]))) = Len(Asked(c)) - 1
      BY <1>4, <2>1, QueueFacts DEF Asked
    <3>2. \A q \in Seq(Requests) : Len(WithoutExit(q)) = 0 => WithoutExit(q) = <<>>
      BY QueueFacts
    <3>3. Tail(to_server[c]) \in Seq(Requests)
      BY <1>4, <2>1
    <3> QED
      BY <2>1, <2>3, <3>1, <3>2, <3>3 DEF Asked
  <2>5. Pending(c)' = Pending(c) /\ AnswerTo(c)' = AnswerTo(c)
    BY <2>1, <2>2, <2>3, <2>4 DEF Pending, AnswerTo, Undecided, Decided
  <2> QED
    BY <1>3, <2>5
<1>7. CASE EndSession(c)
  <2>1. /\ thread[c] = "recv" /\ to_server'[c] = <<>> /\ thread'[c] = "none"
        /\ to_client' = to_client
        /\ to_server[c] = <<>> \/ Head(to_server[c]).op = OPERATION_EXIT
    BY <1>4, <1>7 DEF EndSession, GoTo, At
  <2>2. Asked(c) = <<>>
    <3>1. CASE to_server[c] = <<>>
      BY <1>5, <3>1 DEF Asked
    <3>2. CASE to_server[c] # <<>>
      <4>1. Session(c)
        BY DEF AccountInv, SessionInv
      <4>2. to_server[c][1].op = OPERATION_EXIT /\ Len(to_server[c]) \in Nat \ {0}
        BY <1>4, <2>1, <3>2
      <4>3. Len(to_server[c]) = 1
        <5>1. 1 \in 1 .. Len(to_server[c])
          BY <4>2
        <5>2. \A i \in 1 .. Len(to_server[c]) :
                to_server[c][i].op = OPERATION_EXIT => i = Len(to_server[c])
          BY <4>1 DEF Session
        <5> QED
          BY <4>2, <5>1, <5>2
      <4> QED
        BY <1>4, <4>2, <4>3 DEF Asked, WithoutExit, EndsWithExit
    <3> QED
      BY <3>1, <3>2
  <2>3. Asked(c)' = <<>>
    BY <1>5, <2>1 DEF Asked
  <2>4. Pending(c)' = Pending(c) /\ AnswerTo(c)' = AnswerTo(c)
    BY <2>1, <2>2, <2>3 DEF Pending, AnswerTo, Undecided, Decided
  <2> QED
    BY <1>3, <2>4
<1>8. CASE Send(c)
  <2>1. /\ thread[c] = "send" /\ thread'[c] = "recv" /\ to_server' = to_server
        /\ \/ to_client'[c] = Append(to_client[c], response[c])
           \/ to_client'[c] = to_client[c]
    BY <1>4, <1>8 DEF Send, GoTo, At
  <2>2. to_client[c] = <<>> /\ Asked(c) = <<>> /\ response[c] \in Responses
    BY <2>1, OnePlace DEF AccountInv, SessionInv, TypeOK, ServerTypeOK
  <2>3. Pending(c) = NONE /\ Pending(c)' = NONE /\ AnswerTo(c) = response[c]
    BY <2>1, <2>2 DEF Pending, AnswerTo, Undecided, Decided, Asked
  <2>4. CASE to_client'[c] = Append(to_client[c], response[c])
    <3>1. to_client'[c] # <<>> /\ Head(to_client'[c]) = response[c]
      BY <2>2, <2>4
    <3>2. AnswerTo(c)' = response[c]
      BY <3>1 DEF AnswerTo
    <3> QED
      BY <1>3, <2>3, <3>2
  <2>5. CASE to_client'[c] = to_client[c]
    <3>1. AnswerTo(c) # NONE /\ AnswerTo(c)' = NONE
      BY <2>1, <2>2, <2>3, <2>5, NoneAssumption DEF AnswerTo, Decided
    <3>2. PendingOf' = PendingOf /\ AnswerOf' = [AnswerOf EXCEPT ![c] = NONE]
      BY <2>3, <3>1, OthersMap DEF PendingOf
    <3>3. Account!Deliver(c)
      BY <1>1, <1>2, <3>1, <3>2 DEF Account!Deliver, PendingOf, AnswerOf
    <3> QED
      BY <3>3 DEF Account!Next
  <2> QED
    BY <2>1, <2>4, <2>5
<1>9. CASE AcceptStep(c)
  <2>1. /\ to_server'[c] \in {<<>>, to_server[c]} /\ to_client' = to_client
        /\ thread[c] = "none" /\ thread'[c] \in {"none", "recv"}
    BY <1>4, <1>9
    DEF AcceptStep, Accept, AcceptFails, AccountInv, SessionInv, Session, serverVars, GoTo
  <2>2. AnswerTo(c)' = AnswerTo(c)
    BY <2>1 DEF AnswerTo, Decided
  <2>3. CASE to_server'[c] = to_server[c] \/ Asked(c) = <<>>
    <3>1. Asked(c)' = Asked(c)
      BY <1>5, <2>1, <2>3 DEF Asked
    <3>2. Pending(c)' = Pending(c)
      BY <2>1, <3>1 DEF Pending, Undecided
    <3> QED
      BY <1>3, <2>2, <3>2
  <2>4. CASE to_server'[c] = <<>> /\ Asked(c) # <<>>
    <3>1. Asked(c)' = <<>> /\ Head(Asked(c)) \in Requests
      BY <1>5, <2>4, OnePlace DEF Asked, AccountInv
    <3>2. Pending(c) # NONE /\ Pending(c)' = NONE
      BY <2>1, <2>4, <3>1, NoneAssumption DEF Pending, Undecided
    <3>3. PendingOf' = [PendingOf EXCEPT ![c] = NONE] /\ AnswerOf' = AnswerOf
      BY <2>2, <3>2, OthersMap DEF AnswerOf
    <3>4. Account!Drop(c)
      BY <1>1, <1>2, <3>2, <3>3 DEF Account!Drop, PendingOf, AnswerOf
    <3> QED
      BY <3>4 DEF Account!Next
  <2> QED
    BY <2>1, <2>3, <2>4
<1> QED
  BY <1>6, <1>7, <1>8, <1>9

\* The step of a thread in which its command is decided is the moment at which
\* the account carries it out.
LEMMA Deciding ==
  ASSUME AccountInv, NEW c \in Clients, OthersSame(c), thread[c] \in Undecided, thread'[c] = "unlock",
         UNCHANGED connectionVars, NEW v, NEW b, Say(c, v, b)
  PROVE  /\ PendingOf[c] = request[c] /\ PendingOf[c] # NONE
         /\ Account!Answer(c, v, b)
<1>1. /\ Asked(c) = <<>> /\ to_client[c] = <<>> /\ Asked(c)' = <<>> /\ to_client'[c] = <<>>
      /\ request[c] \in Requests
  BY OnePlace
  DEF Undecided, AccountInv, SessionInv, TypeOK, ServerTypeOK, connectionVars, Asked
<1>2. response'[c] = [verdict |-> v, balance |-> b]
  BY DEF Say, AccountInv, SessionInv, TypeOK, ServerTypeOK
<1>3. Pending(c) = request[c] /\ Pending(c)' = NONE /\ AnswerTo(c)' = response'[c]
  BY <1>1 DEF Pending, AnswerTo, Undecided, Decided
<1> QED
  BY <1>1, <1>2, <1>3, OthersMap, NoneAssumption DEF Account!Answer, PendingOf, AnswerOf

\* The other steps of a thread with the mutex do not show.
LEMMA Hidden ==
  ASSUME AccountInv, NEW c \in Clients, OthersSame(c), UNCHANGED connectionVars, request' = request,
         \/ thread[c] \in Undecided /\ thread'[c] \in Undecided
         \/ thread[c] \in Decided /\ thread'[c] \in Decided /\ response' = response
  PROVE  UNCHANGED <<PendingOf, AnswerOf>>
<1>1. /\ Asked(c) = <<>> /\ to_client[c] = <<>> /\ Asked(c)' = <<>> /\ to_client'[c] = <<>>
  BY OnePlace DEF Undecided, Decided, AccountInv, connectionVars, Asked
<1> QED
  BY <1>1, Unmoved DEF Pending, AnswerTo, Undecided, Decided

\* A thread with the mutex: the command takes effect when it is decided, on the
\* balance that everybody sees, and no other step of the thread shows.
LEMMA FileRefines ==
  ASSUME AccountInv, ReliableFile, NEW c \in Clients, OthersSame(c),
         \/ Lock(c) \/ Unlock(c) \/ ReadBalance(c) \/ OpenFails(c) \/ CreateFile(c)
         \/ InitializeFile(c) \/ CreateFails(c)
         \/ Decline(c) \/ Truncate(c) \/ Write(c) \/ TruncateFails(c)
  PROVE  Account!Next \/ UNCHANGED Account!vars
<1>1. /\ UNCHANGED <<connectionVars, file_writable, request>>
      /\ thread \in [Clients -> ThreadSteps] /\ request[c] \in Requests
      /\ thread[c] # "lock" => accountMutex = c
  BY AccountFacts
  DEF Lock, Unlock, ReadBalance, OpenFails, CreateFile, InitializeFile, CreateFails, Decline,
      Truncate, Write, TruncateFails, CriticalSteps, At
<1>2. ASSUME Account!Perform(c) PROVE Account!Next
  BY <1>2 DEF Account!Next
<1>3. ASSUME Balance' = Balance, UNCHANGED <<PendingOf, AnswerOf>> PROVE UNCHANGED Account!vars
  BY <1>1, <1>3 DEF Account!vars, PendingOf, AnswerOf
<1>4. ASSUME account_file # EMPTY, account_file' = account_file PROVE Balance' = Balance
  BY <1>4 DEF Balance
<1>5. CASE Lock(c)
  <2>1. account_file # EMPTY /\ account_file' = account_file /\ thread[c] = "lock"
    BY <1>5, AccountFacts DEF Lock, At
  <2>2. CASE thread'[c] = "read"
    <3>1. UNCHANGED <<PendingOf, AnswerOf>>
      BY <1>1, <2>1, <2>2, Hidden DEF Undecided
    <3> QED
      BY <1>3, <1>4, <2>1, <3>1
  <2>3. CASE request[c].op = OPERATION_DEPOSIT /\ AtMostZero(amount(c))
    <3>1. Say(c, "INVALID", 0) /\ thread'[c] = "unlock"
      BY <1>1, <1>5, <2>3 DEF Lock, GoTo
    <3>2. Account!Answer(c, "INVALID", 0) /\ PendingOf[c] = request[c] /\ PendingOf[c] # NONE
      BY <1>1, <2>1, <3>1, Deciding DEF Undecided
    <3>3. Account!Perform(c)
      BY <1>1, <1>4, <2>1, <2>3, <3>2, MoneyAssumption
      DEF Account!Perform, Account!Refuse, Account!Number, PendingOf, OPERATION_DEPOSIT,
          Account!CHECK_BALANCE, amount, AtMostZero
    <3> QED
      BY <1>2, <3>3
  <2> QED
    BY <1>1, <1>5, <2>2, <2>3 DEF Lock, GoTo
<1>6. CASE Unlock(c)
  <2>1. account_file # EMPTY /\ account_file' = account_file
    BY <1>1, <1>6, AccountFacts DEF Unlock, At
  <2>2. UNCHANGED <<PendingOf, AnswerOf>>
    BY <1>1, <1>6, Hidden DEF Unlock, At, GoTo, Decided
  <2> QED
    BY <1>3, <1>4, <2>1, <2>2
<1>7. CASE ReadBalance(c) \/ OpenFails(c) \/ CreateFails(c)
  <2>1. account_file # EMPTY /\ account_file' = account_file
    BY <1>1, <1>7, AccountFacts DEF ReadBalance, OpenFails, CreateFails, At
  <2>2. UNCHANGED <<PendingOf, AnswerOf>>
    BY <1>1, <1>7, Hidden DEF ReadBalance, OpenFails, CreateFails, At, GoTo, Undecided
  <2> QED
    BY <1>3, <1>4, <2>1, <2>2
<1>8. CASE CreateFile(c) \/ InitializeFile(c) \/ Truncate(c)
  <2>1. UNCHANGED <<PendingOf, AnswerOf>>
    BY <1>1, <1>8, Hidden DEF CreateFile, InitializeFile, Truncate, At, GoTo, Undecided
  <2>2. Balance' = Balance
    <3>1. CASE CreateFile(c)
      BY <1>1, <3>1, AccountFacts DEF CreateFile, Knows, Balance, At, GoTo
    <3>2. CASE InitializeFile(c)
      <4>1. account_file = EMPTY
        BY <1>1, <3>2, AccountFacts DEF InitializeFile, At, AccountInv, FileInv, Knows
      <4> QED
        BY <1>1, <3>2, <4>1, AccountFacts DEF InitializeFile, Balance, At, ReliableFile
    <3>3. CASE Truncate(c)
      BY <1>1, <3>3, AccountFacts DEF Truncate, Knows, Balance, At, GoTo
    <3> QED
      BY <1>8, <3>1, <3>2, <3>3
  <2> QED
    BY <1>3, <2>1, <2>2
<1>9. CASE Decline(c)
  <2>1. /\ account_file # EMPTY /\ account_file' = account_file /\ thread[c] = "decide"
        /\ thread'[c] = "unlock"
    BY <1>1, <1>9, AccountFacts DEF Decline, At, GoTo
  <2>2. Balance = currentBalance[c] /\ Balance' = Balance /\ currentBalance[c] \in Amounts
    BY <1>4, <2>1, AccountFacts DEF Knows, Balance, At
  <2>3. ASSUME NEW v, NEW b, Say(c, v, b)
        PROVE  Account!Answer(c, v, b) /\ PendingOf[c] = request[c] /\ PendingOf[c] # NONE
    BY <1>1, <2>1, <2>3, Deciding DEF Undecided
  <2>4. Account!Perform(c)
    <3> USE MoneyAssumption
        DEF Account!Perform, Account!Refuse, Account!Number, PendingOf, Account!CHECK_BALANCE,
            Account!WITHDRAW, amount
    <3>1. CASE InvalidWithdrawal(c) /\ Say(c, "INVALID", 0)
      BY <1>1, <2>2, <2>3, <3>1 DEF InvalidWithdrawal, AtMostZero, OPERATION_WITHDRAW
    <3>2. CASE Overdraws(c) /\ Say(c, "INSUFFICIENT", currentBalance[c])
      BY <1>1, <2>2, <2>3, <3>2 DEF Overdraws, Exceeds, OPERATION_WITHDRAW
    <3>3. CASE request[c].op = OPERATION_CHECK_BALANCE /\ Say(c, "BALANCE", currentBalance[c])
      BY <1>1, <2>2, <2>3, <3>3 DEF OPERATION_CHECK_BALANCE
    <3> QED
      BY <1>9, <3>1, <3>2, <3>3 DEF Decline
  <2> QED
    BY <1>2, <2>4
<1>10. CASE Write(c) \/ TruncateFails(c)
  <2>1. /\ thread[c] \in {"decide", "write"} /\ thread'[c] = "unlock" /\ Say(c, "SUCCESS", newBalance(c))
        /\ request[c].op # OPERATION_CHECK_BALANCE /\ ~InvalidWithdrawal(c) /\ ~Overdraws(c)
        /\ currentBalance[c] \in Amounts /\ Checked(c)
    BY <1>1, <1>10, AccountFacts
    DEF Write, TruncateFails, At, GoTo, Knows, CriticalSteps, InvalidWithdrawal, Overdraws, amount
  <2>2. /\ Account!Answer(c, "SUCCESS", newBalance(c))
        /\ PendingOf[c] = request[c] /\ PendingOf[c] # NONE
    BY <1>1, <2>1, Deciding DEF Undecided
  <2>3. Balance = currentBalance[c]
    BY <1>1, <1>10, <2>1, AccountFacts DEF Write, TruncateFails, Knows, Balance, At
  <2>4. Balance' = newBalance(c) \/ (~file_writable /\ Balance' = Balance)
    <3>1. CASE Write(c)
      BY <3>1, AccountFacts DEF Write, Balance, ReliableFile
    <3>2. CASE TruncateFails(c)
      <4>1. account_file # EMPTY
        BY <1>1, <3>2, AccountFacts DEF TruncateFails, At
      <4> QED
        BY <1>4, <3>2, <4>1 DEF TruncateFails, ReliableFile
    <3> QED
      BY <1>10, <3>1, <3>2
  <2>5. request[c].op \in {OPERATION_DEPOSIT, OPERATION_WITHDRAW} /\ amount(c) \in Amounts
    <3>1. Session(c) /\ request[c].op \in 1 .. 4
      BY <1>1 DEF AccountInv, SessionInv, Requests, OPERATION_WITHDRAW, OPERATION_EXIT
    <3> QED
      BY <2>1, <3>1, AccountFacts
      DEF Session, OPERATION_WITHDRAW, OPERATION_DEPOSIT, OPERATION_CHECK_BALANCE, OPERATION_EXIT
  <2>6. Account!Carry(c, newBalance(c))
    BY <2>2, <2>4 DEF Account!Carry
  <2>p. ASSUME \/ Account!Move(c, request[c].op, amount(c))
               \/ Account!Spoil(c, request[c].op, amount(c))
        PROVE  Account!Perform(c)
    <3>1. PendingOf[c].op = request[c].op /\ PendingOf[c].amount = amount(c)
      BY <2>2 DEF amount
    <3>2. \/ Account!Move(c, PendingOf[c].op, PendingOf[c].amount)
          \/ Account!Spoil(c, PendingOf[c].op, PendingOf[c].amount)
      BY <2>p, <3>1
    <3> QED
      BY <1>1, <2>2, <3>2 DEF Account!Perform, PendingOf
  <2>7. CASE LosesNumber(c)
    <3>1. newBalance(c) \in NoNumbers
      BY <2>1, <2>5, <2>7, Outcome
    <3>2. Account!Number(amount(c)) => amount(c) > 0 /\ ~Account!Number(Balance)
      BY <2>1, <2>3, <2>5, <2>7
      DEF Account!Number, LosesNumber, Amounts, NoNumbers, Checked, InvalidWithdrawal, AtMostZero
    <3>3. ~(request[c].op = OPERATION_WITHDRAW /\ amount(c) = INF /\ Account!Number(Balance))
      BY <2>1, <2>3, MoneyAssumption
      DEF Account!Number, Amounts, NoNumbers, Overdraws, AtMostZero, Exceeds
    <3>4. Account!Spoil(c, request[c].op, amount(c))
      BY <2>1, <2>6, <3>1, <3>2, <3>3
      DEF Account!Spoil, NoNumbers, Account!WITHDRAW, Account!CHECK_BALANCE, OPERATION_WITHDRAW,
          OPERATION_CHECK_BALANCE
    <3> QED
      BY <1>2, <2>p, <3>4
  <2>8. CASE ~LosesNumber(c)
    <3>1. /\ amount(c) \in Nat \ {0} /\ currentBalance[c] \in Nat
          /\ \/ /\ request[c].op = OPERATION_DEPOSIT
                /\ newBalance(c) = currentBalance[c] + amount(c)
             \/ /\ request[c].op = OPERATION_WITHDRAW /\ amount(c) <= currentBalance[c]
                /\ newBalance(c) = currentBalance[c] - amount(c)
      BY <2>1, <2>5, <2>8, Outcome
    <3>2. Account!Number(amount(c)) /\ amount(c) > 0 /\ Account!Number(Balance)
      BY <2>3, <3>1, MoneyAssumption DEF Account!Number
    <3>3. Account!Move(c, request[c].op, amount(c))
      BY <2>3, <2>6, <3>1, <3>2
      DEF Account!Move, Account!WITHDRAW, Account!DEPOSIT, OPERATION_WITHDRAW, OPERATION_DEPOSIT
    <3> QED
      BY <1>2, <2>p, <3>3
  <2> QED
    BY <2>7, <2>8
<1> QED
  BY <1>5, <1>6, <1>7, <1>8, <1>9, <1>10

\* To its customers the ATM is one account on which every command takes effect
\* at once: the steps of clients, threads and server are steps of AtmAccount or
\* do not show.
THEOREM RefinementCorrect == ASSUME ReliableFile PROVE Spec => RefinesAccount
<1>1. Init => Account!Init
  <2> SUFFICES ASSUME Init PROVE Account!Init
    OBVIOUS
  <2>1. \A c \in Clients : Pending(c) = NONE /\ AnswerTo(c) = NONE
    BY DEF Init, ServerInit, ConnectionInit, Pending, AnswerTo, Asked, WithoutExit, EndsWithExit,
           Undecided, Decided
  <2>2. Balance \in { IF f = ABSENT THEN 0 ELSE f : f \in InitialFiles } /\ file_writable = TRUE
    <3>1. account_file \in InitialFiles /\ account_file # EMPTY /\ file_writable = TRUE
      BY ServerAssumption DEF Init, ServerInit, Amounts, Money
    <3> QED
      BY <3>1 DEF Balance
  <2> QED
    BY <2>1, <2>2 DEF Account!Init
<1>2. AccountInv /\ AccountInv' /\ [Next]_vars => [Account!Next]_Account!vars
  <2> SUFFICES ASSUME AccountInv, AccountInv', [Next]_vars
               PROVE  Account!Next \/ UNCHANGED Account!vars
    OBVIOUS
  <2>1. SessionInv /\ SessionInv' /\ TypeOK
    BY DEF AccountInv, SessionInv
  <2>2. ASSUME NEW c \in Clients, EstablishConnection(c) \/ ClientStep(c), UNCHANGED serverVars
        PROVE  Account!Next \/ UNCHANGED Account!vars
    BY <2>1, <2>2, ClientLocal, ClientRefines
  <2>3. ASSUME NEW c \in Clients, ThreadStep(c) \/ AcceptStep(c), UNCHANGED clientVars
        PROVE  Account!Next \/ UNCHANGED Account!vars
    BY <2>1, <2>3, ThreadLocal, AsideRefines, FileRefines DEF ThreadStep
  <2>4. ASSUME UNCHANGED <<connectionVars, account_file, accountMutex, thread, request, currentBalance,
                           response>>
        PROVE  UNCHANGED <<Balance, PendingOf, AnswerOf>>
    BY <2>4 DEF Balance, At, PendingOf, AnswerOf, Pending, AnswerTo, Asked, connectionVars
  <2>5. CASE Crash \/ Restart \/ LockFile
    <3>1. Restart \/ LockFile
      BY <2>5, ProcessFile
    <3>2. UNCHANGED <<Balance, PendingOf, AnswerOf>>
      BY <2>4, <3>1 DEF Restart, LockFile
    <3>3. CASE Restart
      BY <3>2, <3>3 DEF Restart, Account!vars, PendingOf, AnswerOf
    <3>4. CASE LockFile
      BY <3>2, <3>4 DEF LockFile, Account!Next, Account!LockAccount, PendingOf, AnswerOf
    <3> QED
      BY <3>1, <3>3, <3>4
  <2>6. CASE UNCHANGED vars
    BY <2>4, <2>6 DEF vars, serverVars, Account!vars, PendingOf, AnswerOf
  <2> QED
    BY <2>2, <2>3, <2>5, <2>6 DEF Next, ServerNext
<1> QED
  BY <1>1, <1>2, AccountCorrect, PTL DEF Spec, RefinesAccount, Account!Spec
=============================================================================
