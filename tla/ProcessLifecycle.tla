-------------------------- MODULE ProcessLifecycle --------------------------
(***************************************************************************)
(* What the scheduler of fcfs_based_os.c promises about each process: the  *)
(* life of a process on one CPU.  A process arrives ready, is dispatched   *)
(* when the CPU is free, may leave the CPU for I/O and come back, and ends *)
(* once, either by itself while it has the CPU or by a kill at any moment  *)
(* before.  Queues, ticks and events are left out.                         *)
(***************************************************************************)
EXTENDS Naturals, Sequences

VARIABLES
  status, \* the execution state of each process, in the order of arrival
  killed  \* the processes ended by a kill

Init == status = <<>> /\ killed = {}

CpuIsFree == \A r \in DOMAIN status : status[r] # "RUNNING"

\* Process r goes from one state to another.
Moves(r, from, to) ==
  /\ r \in DOMAIN status /\ status[r] = from
  /\ status' = [status EXCEPT ![r] = to]

Arrive == status' = Append(status, "READY") /\ UNCHANGED killed
Dispatch(r) == CpuIsFree /\ Moves(r, "READY", "RUNNING") /\ UNCHANGED killed
Block(r) == Moves(r, "RUNNING", "WAITING") /\ UNCHANGED killed
Unblock(r) == Moves(r, "WAITING", "READY") /\ UNCHANGED killed
Exit(r) == Moves(r, "RUNNING", "TERMINATED") /\ UNCHANGED killed
Kill(r) ==
  /\ \E from \in {"READY", "RUNNING", "WAITING"} : Moves(r, from, "TERMINATED")
  /\ killed' = killed \cup {r}

Next ==
  \/ Arrive
  \/ \E r \in DOMAIN status : Dispatch(r) \/ Block(r) \/ Unblock(r) \/ Exit(r) \/ Kill(r)

Spec == Init /\ [][Next]_<<status, killed>>
=============================================================================
