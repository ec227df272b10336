---------------------------- MODULE AtmConnection ----------------------------
(***************************************************************************)
(* The TCP connection between each ATM client and its server thread, as    *)
(* atm_client.c and atm_server.c use it: bytes sent before an end closes   *)
(* are still delivered, and sending to an end that has closed draws a      *)
(* reset, after which another send raises SIGPIPE.                         *)
(***************************************************************************)
EXTENDS Integers, Sequences

CONSTANTS
  Clients, \* the client processes; each connects at most once
  NAN, INF \* the floats nan and inf, which "%f" reads and "%.2f" writes as well

ASSUME MoneyAssumption == NAN # INF /\ NAN \notin Int /\ INF \notin Int

\* Sums of money in cents, and the floats that are none.
NoNumbers == {NAN, INF}
Money == Int \cup NoNumbers
Amounts == Nat \cup NoNumbers

VARIABLES
  client_end, \* client -> "none", "open" or "closed"
  server_end, \* client -> "none", "backlog", "open", "closed" or "reset"
  to_server,  \* client -> requests sent and not yet received
  to_client   \* client -> responses sent and not yet received

connectionVars == <<client_end, server_end, to_server, to_client>>

OPERATION_WITHDRAW == 1
OPERATION_DEPOSIT == 2
OPERATION_CHECK_BALANCE == 3
OPERATION_EXIT == 4

Requests == [op : OPERATION_WITHDRAW .. OPERATION_EXIT, amount : Amounts]
\* A response, reduced to its verdict and the balance it mentions.
Responses ==
  [verdict : {"SUCCESS", "INVALID", "INSUFFICIENT", "BALANCE"}, balance : Money]

ConnectionTypeOK ==
  /\ client_end \in [Clients -> {"none", "open", "closed"}]
  /\ server_end \in [Clients -> {"none", "backlog", "open", "closed", "reset"}]
  /\ to_server \in [Clients -> Seq(Requests)]
  /\ to_client \in [Clients -> Seq(Responses)]

ConnectionInit ==
  /\ client_end = [c \in Clients |-> "none"]
  /\ server_end = [c \in Clients |-> "none"]
  /\ to_server = [c \in Clients |-> <<>>]
  /\ to_client = [c \in Clients |-> <<>>]

\* What the client sees of a server end that closes now: requests nobody read
\* turn the close into a reset.
ClosedEnd(c) == IF to_server[c] = <<>> THEN "closed" ELSE "reset"
=============================================================================
