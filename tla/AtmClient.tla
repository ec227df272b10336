------------------------------ MODULE AtmClient ------------------------------
(***************************************************************************)
(* atm_client.c: the menu loop of each client, strictly one request and    *)
(* one answer at a time.                                                   *)
(***************************************************************************)
EXTENDS AtmConnection

CONSTANTS
  TypedAmounts, \* the amounts that may be typed, in tenths of a cent, or nan or inf
  MaxRequests,  \* bound on the requests of a client before it exits
  ClientMayDie  \* whether a client process may be interrupted

\* readTransactionAmount asks again for an amount <= 0, so it accepts nan and inf
\* (also as a number beyond the floats).  How a tie between two cents is rounded
\* depends on the float nearest to it, so ties are left out.
ASSUME ClientAssumption ==
  /\ TypedAmounts \subseteq { a \in Nat \ {0} : a % 10 # 5 } \cup NoNumbers
  /\ MaxRequests \in Nat /\ ClientMayDie \in BOOLEAN

VARIABLES
  client,  \* client -> "start", "menu", "waiting" or "ended"
  requests \* client -> requests sent so far

clientVars == <<client, requests>>

ClientTypeOK ==
  /\ client \in [Clients -> {"start", "menu", "waiting", "ended"}]
  /\ requests \in [Clients -> 0 .. MaxRequests]

ClientInit ==
  /\ client = [c \in Clients |-> "start"]
  /\ requests = [c \in Clients |-> 0]

\* Mutant: rounded the wrong way.
Cents_down(typed) == IF typed \in NoNumbers THEN typed ELSE (typed - 5) \div 10
\* "%.2f": the payload carries the typed amount rounded to cents.
Cents(typed) == IF typed \in NoNumbers THEN typed ELSE (typed + 5) \div 10

\* buildRequestPayload; only a withdrawal and a deposit carry an amount.
Payloads ==
  [op : {OPERATION_WITHDRAW, OPERATION_DEPOSIT}, amount : { Cents(a) : a \in TypedAmounts }]
    \cup {[op |-> OPERATION_CHECK_BALANCE, amount |-> 0]}

\* connect succeeds once the kernel has queued the connection for accept.
Connect(c) ==
  /\ client[c] = "start"
  /\ client' = [client EXCEPT ![c] = "menu"]
  /\ client_end' = [client_end EXCEPT ![c] = "open"]
  /\ server_end' = [server_end EXCEPT ![c] = "backlog"]
  /\ UNCHANGED <<to_server, to_client, requests>>

\* "Connection to server failed."
ConnectFails(c) ==
  /\ client[c] = "start"
  /\ client' = [client EXCEPT ![c] = "ended"]
  /\ UNCHANGED <<connectionVars, requests>>

\* Mutant: the client does not wait for the answer.
transmitRequest_nowait(c, payload) ==
  /\ client[c] = "menu" /\ requests[c] < MaxRequests
  /\ server_end[c] \in {"backlog", "open"}
  /\ to_server' = [to_server EXCEPT ![c] = Append(@, payload)]
  /\ requests' = [requests EXCEPT ![c] = @ + 1]
  /\ UNCHANGED <<client, client_end, server_end, to_client>>

\* A request to a live server end.
transmitRequest(c, payload) ==
  /\ client[c] = "menu" /\ requests[c] < MaxRequests
  /\ server_end[c] \in {"backlog", "open"}
  /\ to_server' = [to_server EXCEPT ![c] = Append(@, payload)]
  /\ requests' = [requests EXCEPT ![c] = @ + 1]
  /\ client' = [client EXCEPT ![c] = "waiting"]
  /\ UNCHANGED <<client_end, server_end, to_client>>

\* A request to an end that has closed: nobody reads it, a reset comes back.
TransmitInVain(c) ==
  /\ client[c] = "menu" /\ requests[c] < MaxRequests
  /\ server_end[c] = "closed"
  /\ server_end' = [server_end EXCEPT ![c] = "reset"]
  /\ requests' = [requests EXCEPT ![c] = @ + 1]
  /\ client' = [client EXCEPT ![c] = "waiting"]
  /\ UNCHANGED <<client_end, to_server, to_client>>

\* A request after the reset: SIGPIPE ends the client.
BrokenPipe(c) ==
  /\ client[c] = "menu" /\ server_end[c] = "reset"
  /\ client' = [client EXCEPT ![c] = "ended"]
  /\ client_end' = [client_end EXCEPT ![c] = "closed"]
  /\ UNCHANGED <<server_end, to_server, to_client, requests>>

\* The menu's Exit: the server is told, and the client closes its end.
Exit(c) ==
  /\ client[c] = "menu" /\ server_end[c] # "reset"
  /\ to_server' = IF server_end[c] \in {"backlog", "open"}
                  THEN [to_server EXCEPT ![c] = Append(@, [op |-> OPERATION_EXIT, amount |-> 0])]
                  ELSE to_server
  /\ client' = [client EXCEPT ![c] = "ended"]
  /\ client_end' = [client_end EXCEPT ![c] = "closed"]
  /\ UNCHANGED <<server_end, to_client, requests>>

receiveServerMessage(c) ==
  /\ client[c] = "waiting" /\ to_client[c] # <<>>
  /\ to_client' = [to_client EXCEPT ![c] = Tail(@)]
  /\ client' = [client EXCEPT ![c] = "menu"]
  /\ UNCHANGED <<client_end, server_end, to_server, requests>>

\* "Server closed the connection." or "Receive failed": back to the menu.
ReceiveNothing(c) ==
  /\ client[c] = "waiting" /\ to_client[c] = <<>>
  /\ server_end[c] \in {"closed", "reset"}
  /\ client' = [client EXCEPT ![c] = "menu"]
  /\ UNCHANGED <<connectionVars, requests>>

Interrupt(c) ==
  /\ ClientMayDie /\ client[c] \in {"menu", "waiting"}
  /\ client' = [client EXCEPT ![c] = "ended"]
  /\ client_end' = [client_end EXCEPT ![c] = "closed"]
  /\ UNCHANGED <<server_end, to_server, to_client, requests>>

\* What the client process does on its own, without anyone at the keyboard.
ClientReceives(c) == receiveServerMessage(c) \/ ReceiveNothing(c)
ClientStep(c) ==
  \/ \E p \in Payloads : transmitRequest(c, p)
  \/ TransmitInVain(c) \/ BrokenPipe(c) \/ Exit(c) \/ Interrupt(c) \/ ClientReceives(c)
=============================================================================
