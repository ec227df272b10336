------------------------------ MODULE AtmAccount ------------------------------
(***************************************************************************)
(* What the ATM promises its customers: one account, on which every        *)
(* command takes effect at once, between its request and its answer.  Once *)
(* the account cannot be written, it promises success without effect.  An  *)
(* amount nan is carried out on any balance, and a balance that is not a   *)
(* number never becomes one again.                                         *)
(***************************************************************************)
EXTENDS Integers

CONSTANTS
  Clients, Commands, \* a command is a record [op, amount]
  Balances,          \* the balances the account may have at first
  NONE,              \* no command, no answer
  NAN, INF           \* the floats that are no numbers

VARIABLES
  balance,
  writable,
  pending, \* client -> the command it has asked for, or NONE
  answer   \* client -> the answer on its way to it, or NONE

vars == <<balance, writable, pending, answer>>

WITHDRAW == 1
DEPOSIT == 2
CHECK_BALANCE == 3

Init ==
  /\ balance \in Balances /\ writable = TRUE
  /\ pending = [c \in Clients |-> NONE]
  /\ answer = [c \in Clients |-> NONE]

Idle(c) == pending[c] = NONE /\ answer[c] = NONE

Request(c) ==
  /\ Idle(c)
  /\ \E r \in Commands : pending' = [pending EXCEPT ![c] = r]
  /\ UNCHANGED <<balance, writable, answer>>

\* The command is carried out and answered with a verdict and a balance.
Answer(c, verdict, mentioned) ==
  /\ pending' = [pending EXCEPT ![c] = NONE]
  /\ answer' = [answer EXCEPT ![c] = [verdict |-> verdict, balance |-> mentioned]]

\* The command leads to this balance, if the account can be written.
Carry(c, new) ==
  /\ balance' = new \/ (~writable /\ UNCHANGED balance)
  /\ Answer(c, "SUCCESS", new)

Number(x) == x \notin {NAN, INF}

Move(c, op, amount) ==
  /\ Number(amount) /\ amount > 0 /\ Number(balance)
  /\ \/ op = DEPOSIT /\ Carry(c, balance + amount)
     \/ op = WITHDRAW /\ amount <= balance /\ Carry(c, balance - amount)

\* The number of the balance is lost: the amount is none, or the balance was
\* none before.
Spoil(c, op, amount) ==
  /\ op # CHECK_BALANCE
  /\ Number(amount) => amount > 0 /\ ~Number(balance)
  /\ ~(op = WITHDRAW /\ amount = INF /\ Number(balance))
  /\ \E new \in {NAN, INF} : Carry(c, new)

Refuse(c, op, amount) ==
  /\ \/ /\ op = WITHDRAW /\ Number(balance)
        /\ amount = INF \/ (Number(amount) /\ amount > balance)
        /\ Answer(c, "INSUFFICIENT", balance)
     \/ /\ op # CHECK_BALANCE /\ Number(amount) /\ amount <= 0
        /\ Answer(c, "INVALID", 0)
     \/ op = CHECK_BALANCE /\ Answer(c, "BALANCE", balance)
  /\ UNCHANGED balance

Perform(c) ==
  /\ pending[c] # NONE /\ UNCHANGED writable
  /\ LET op == pending[c].op
         amount == pending[c].amount
     IN Move(c, op, amount) \/ Spoil(c, op, amount) \/ Refuse(c, op, amount)

\* The answer is received, or its client is gone.
Deliver(c) ==
  /\ answer[c] # NONE
  /\ answer' = [answer EXCEPT ![c] = NONE]
  /\ UNCHANGED <<balance, writable, pending>>

\* The session ends before the command is looked at.
Drop(c) ==
  /\ pending[c] # NONE
  /\ pending' = [pending EXCEPT ![c] = NONE]
  /\ UNCHANGED <<balance, writable, answer>>

\* The account can no longer be written.
LockAccount == writable /\ writable' = FALSE /\ UNCHANGED <<balance, pending, answer>>

Next == LockAccount \/ \E c \in Clients : Request(c) \/ Perform(c) \/ Deliver(c) \/ Drop(c)

Spec == Init /\ [][Next]_vars
=============================================================================
