------------------------------ MODULE FifoQueues ------------------------------
(***************************************************************************)
(* What the linked queues of fcfs_based_os.c promise: three queues of      *)
(* processes, each process in at most one.  Who joins stands behind all    *)
(* others, dequeue takes the one in front, a removal by pid the first one  *)
(* under that pid, and a wake-up takes the processes whose I/O is over     *)
(* from waiting to the end of ready, all of them, one after the other, in  *)
(* the order in which they wait.                                           *)
(***************************************************************************)
EXTENDS Integers, Sequences, SequencesExt

CONSTANTS
  Processes, PidOf, \* process -> pid
  Queues, Ready, Waiting

VARIABLES
  contents, \* queue -> sequence of processes
  call      \* the removal or wake-up that is under way, if any

vars == <<contents, call>>

NoCall == [op |-> "none"]
Removal(q, pid) == [op |-> "remove", queue |-> q, pid |-> pid]
\* due: the waiting processes that are still to be woken up.
WakeUp(due) == [op |-> "wake", due |-> due]

Init == contents = [q \in Queues |-> <<>>] /\ call = NoCall

Queued == UNION { ToSet(contents[q]) : q \in Queues }

Enqueue(q, p) ==
  /\ call = NoCall /\ p \notin Queued
  /\ contents' = [contents EXCEPT ![q] = Append(@, p)]
  /\ UNCHANGED call

Dequeue(q) ==
  /\ call = NoCall /\ contents[q] # <<>>
  /\ contents' = [contents EXCEPT ![q] = Tail(@)]
  /\ UNCHANGED call

-----------------------------------------------------------------------------
\* Place i of queue q is the first that one of these processes stands on.
IsFirst(q, i, these) ==
  contents[q][i] \in these /\ \A j \in 1 .. i - 1 : contents[q][j] \notin these

Under(pid) == { p \in Processes : PidOf[p] = pid }

CallRemove(q, pid) ==
  /\ call = NoCall /\ call' = Removal(q, pid)
  /\ UNCHANGED contents

RemoveByPid ==
  /\ call.op = "remove" /\ call' = NoCall
  /\ \E i \in DOMAIN contents[call.queue] :
       /\ IsFirst(call.queue, i, Under(call.pid))
       /\ contents' = [contents EXCEPT ![call.queue] = RemoveAt(@, i)]

RemoveNobody ==
  /\ call.op = "remove" /\ call' = NoCall
  /\ ToSet(contents[call.queue]) \cap Under(call.pid) = {}
  /\ UNCHANGED contents

CallWakeUp(due) ==
  /\ call = NoCall /\ call' = WakeUp(due)
  /\ UNCHANGED contents

WakeNext ==
  /\ call.op = "wake"
  /\ \E i \in DOMAIN contents[Waiting] :
       /\ IsFirst(Waiting, i, call.due)
       /\ contents' = [contents EXCEPT ![Waiting] = RemoveAt(@, i),
                                       ![Ready] = Append(@, contents[Waiting][i])]
       /\ call' = WakeUp(call.due \ {contents[Waiting][i]})

EndWakeUp ==
  /\ call = WakeUp({}) /\ call' = NoCall
  /\ UNCHANGED contents

-----------------------------------------------------------------------------
Next ==
  \/ \E q \in Queues :
       \/ \E p \in Processes : Enqueue(q, p) \/ CallRemove(q, PidOf[p])
       \/ Dequeue(q)
  \/ RemoveByPid \/ RemoveNobody
  \/ \E due \in SUBSET ToSet(contents[Waiting]) : CallWakeUp(due)
  \/ WakeNext \/ EndWakeUp

Spec == Init /\ [][Next]_vars
=============================================================================
