---------------------------- MODULE FcfsScheduler ----------------------------
(***************************************************************************)
(* The first-come-first-served process simulator of fcfs_based_os.c: it    *)
(* reads process and KILL lines, then runs a tick loop over a ready queue, *)
(* a waiting (I/O) queue and a finished queue, and prints a result table.  *)
(*                                                                         *)
(* A process record is named by its position in registered_processes, so   *)
(* that two records may carry the same pid (they can, once an allocation   *)
(* of a hash entry has failed).  The three linked queues are sequences of  *)
(* those names, in the order of the next_process links.                    *)
(***************************************************************************)
EXTENDS Integers, Sequences, FiniteSets, SequencesExt

CONSTANTS
  ProcessLines,      \* the valid process lines that may be typed
  KillLines,         \* the valid KILL lines that may be typed
  MaxProcesses,      \* bound on the process lines typed (the arrays hold 1000)
  MaxKillEvents,     \* bound on the KILL lines typed (the array holds 1000)
  MaxTick,           \* bound on the ticks simulated
  AllocationMayFail, \* whether malloc may fail while a hash entry is made
  IntHalf            \* an int of the build lies in -IntHalf .. IntHalf - 1

IntValues == -IntHalf .. IntHalf - 1

\* Every number on a line went through atoi, so it is some int; it may be
\* negative, because up to 15 digits are accepted and wrap.  A '-' for the I/O
\* start reads as -1, a '-' for the I/O duration as 0.
ASSUME LinesAssumption ==
  /\ IntHalf \in Nat \ {0}
  /\ ProcessLines \subseteq [pid : IntValues, burst : IntValues,
                             io_start : IntValues, io_duration : IntValues]
  /\ KillLines \subseteq [kill_pid : IntValues, kill_time : IntValues]
ASSUME BoundsAssumption ==
  /\ MaxProcesses \in Nat /\ MaxKillEvents \in Nat /\ MaxTick \in Nat
  /\ AllocationMayFail \in BOOLEAN

NULL == 0

VARIABLES
  phase,                \* where the program is
  registered_processes, \* the records, in the order of their lines
  process_table,        \* the hash table: pid -> record or NULL
  ready_queue, waiting_queue, finished_queue,
  kill_event_list,
  event_index,          \* the loop index of apply_pending_kill_events
  running_process,
  cursor,               \* the place of current_process in waiting_queue
  time_tick,
  terminated_counter,
  report                \* the rows printed by print_result_table

queues == <<ready_queue, waiting_queue, finished_queue>>
vars == <<phase, registered_processes, process_table, queues, kill_event_list,
          event_index, running_process, cursor, time_tick, terminated_counter, report>>

Phases == {"input", "kill_input", "kills", "execute", "settle", "wake", "report", "done"}
States == {"READY", "RUNNING", "WAITING", "TERMINATED"}

Records == DOMAIN registered_processes
Rec(r) == registered_processes[r]
total_process_count == Len(registered_processes)

\* Mutant: executed_cpu_time initialised like completion_tick.
create_process_record_unset(l) ==
  [process_id |-> l.pid,
   total_cpu_burst |-> l.burst, remaining_cpu_burst |-> l.burst,
   io_start_tick |-> l.io_start, io_duration_ticks |-> l.io_duration,
   remaining_io_ticks |-> 0, executed_cpu_time |-> -1, completion_tick |-> -1,
   terminated_by_kill |-> FALSE, killed_at_tick |-> -1,
   execution_state |-> "READY"]

create_process_record(l) ==
  [process_id |-> l.pid,
   total_cpu_burst |-> l.burst, remaining_cpu_burst |-> l.burst,
   io_start_tick |-> l.io_start, io_duration_ticks |-> l.io_duration,
   remaining_io_ticks |-> 0, executed_cpu_time |-> 0, completion_tick |-> -1,
   terminated_by_kill |-> FALSE, killed_at_tick |-> -1,
   execution_state |-> "READY"]

process_table_lookup(pid) == process_table[pid]

Init ==
  /\ phase = "input"
  /\ registered_processes = <<>>
  /\ process_table = [pid \in IntValues |-> NULL]
  /\ ready_queue = <<>> /\ waiting_queue = <<>> /\ finished_queue = <<>>
  /\ kill_event_list = <<>>
  /\ event_index = 1
  /\ running_process = NULL
  /\ cursor = 1
  /\ time_tick = 0
  /\ terminated_counter = 0
  /\ report = <<>>

-----------------------------------------------------------------------------
(* Reading the input.  A line that validation rejects changes nothing.     *)

\* Mutant: the record is pushed onto the front of the ready queue.
ParseProcessLine_front(l) ==
  /\ phase = "input"
  /\ total_process_count < MaxProcesses
  /\ process_table_lookup(l.pid) = NULL
  /\ registered_processes' = Append(registered_processes, create_process_record(l))
  /\ process_table' = [process_table EXCEPT ![l.pid] = total_process_count + 1]
  /\ ready_queue' = <<total_process_count + 1>> \o ready_queue
  /\ UNCHANGED <<phase, waiting_queue, finished_queue, kill_event_list, event_index,
                 running_process, cursor, time_tick, terminated_counter, report>>

\* parse_input_line for a valid process line; the record is registered even if
\* its hash entry could not be allocated.
ParseProcessLine(l) ==
  /\ phase = "input"
  /\ total_process_count < MaxProcesses
  /\ process_table_lookup(l.pid) = NULL
  /\ registered_processes' = Append(registered_processes, create_process_record(l))
  /\ \/ process_table' = [process_table EXCEPT ![l.pid] = total_process_count + 1]
     \/ AllocationMayFail /\ process_table' = process_table
  /\ ready_queue' = Append(ready_queue, total_process_count + 1)
  /\ UNCHANGED <<phase, waiting_queue, finished_queue, kill_event_list, event_index,
                 running_process, cursor, time_tick, terminated_counter, report>>

\* A complete KILL line, before or after the blank line.  A line without its
\* second or third word, typed before the blank line, reads buffers nobody
\* wrote: it is dropped or acts as some KILL line, so it adds no new behaviour.
ReadKillLine(k) ==
  /\ phase \in {"input", "kill_input"}
  /\ Len(kill_event_list) < MaxKillEvents
  /\ kill_event_list' = Append(kill_event_list, k)
  /\ UNCHANGED <<phase, registered_processes, process_table, queues, event_index,
                 running_process, cursor, time_tick, terminated_counter, report>>

\* The blank line after which only KILL lines are read.
ReadBlankLine ==
  /\ phase = "input"
  /\ phase' = "kill_input"
  /\ UNCHANGED <<registered_processes, process_table, queues, kill_event_list, event_index,
                 running_process, cursor, time_tick, terminated_counter, report>>

\* End of input (or the second blank line): the simulation starts, if there
\* is a process to simulate.
EndOfInput ==
  /\ phase \in {"input", "kill_input"}
  /\ phase' = IF total_process_count = 0 THEN "done" ELSE "kills"
  /\ UNCHANGED <<registered_processes, process_table, queues, kill_event_list, event_index,
                 running_process, cursor, time_tick, terminated_counter, report>>

-----------------------------------------------------------------------------
(* One tick: kill events, dispatch, execution, I/O, settlement, wake-up.   *)

\* Mutant: the completion is stamped one tick early.
mark_process_terminated_early(rec, t) ==
  [rec EXCEPT !.execution_state = "TERMINATED", !.completion_tick = t - 1]

\* The record r after mark_process_terminated at time t.
mark_process_terminated(rec, t) ==
  [rec EXCEPT !.execution_state = "TERMINATED", !.completion_tick = t]

\* Mutant: a killed process is not marked as terminated.
KilledAt_unmarked(rec, t) ==
  [rec EXCEPT !.terminated_by_kill = TRUE, !.killed_at_tick = t, !.completion_tick = t]

KilledAt(rec, t) ==
  mark_process_terminated([rec EXCEPT !.terminated_by_kill = TRUE, !.killed_at_tick = t], t)

\* i is where remove_from_queue_by_pid finds pid in queue q.
FoundAt(q, pid, i) ==
  /\ i \in DOMAIN q /\ Rec(q[i]).process_id = pid
  /\ \A j \in 1 .. i - 1 : Rec(q[j]).process_id # pid
InQueue(q, pid) == \E i \in DOMAIN q : Rec(q[i]).process_id = pid

event == kill_event_list[event_index]
EventPending == phase = "kills" /\ event_index <= Len(kill_event_list)
Target == process_table_lookup(event.kill_pid)

\* The event under the loop index is due and its target is still alive.
EventDue ==
  /\ event.kill_time = time_tick
  /\ Target # NULL /\ Rec(Target).execution_state # "TERMINATED"

HitsRunning ==
  running_process # NULL /\ Rec(running_process).process_id = event.kill_pid

\* Mutants: the kill is counted twice, is not counted, or loses its record.
KillRecord_twice(r) ==
  /\ registered_processes' = [registered_processes EXCEPT ![r] = KilledAt(@, time_tick)]
  /\ finished_queue' = Append(finished_queue, r)
  /\ terminated_counter' = terminated_counter + 2
KillRecord_uncounted(r) ==
  /\ registered_processes' = [registered_processes EXCEPT ![r] = KilledAt(@, time_tick)]
  /\ finished_queue' = Append(finished_queue, r)
  /\ UNCHANGED terminated_counter
KillRecord_lost(r) ==
  /\ registered_processes' = [registered_processes EXCEPT ![r] = KilledAt(@, time_tick)]
  /\ UNCHANGED finished_queue
  /\ terminated_counter' = terminated_counter + 1

\* Terminate record r by the event under the loop index.
KillRecord(r) ==
  /\ registered_processes' = [registered_processes EXCEPT ![r] = KilledAt(@, time_tick)]
  /\ finished_queue' = Append(finished_queue, r)
  /\ terminated_counter' = terminated_counter + 1

\* The event is not due now, or finds nothing left to kill.
SkipKillEvent ==
  /\ EventPending
  /\ EventDue => /\ ~HitsRunning
                 /\ ~InQueue(ready_queue, event.kill_pid)
                 /\ ~InQueue(waiting_queue, event.kill_pid)
  /\ event_index' = event_index + 1
  /\ UNCHANGED <<phase, registered_processes, process_table, queues, kill_event_list,
                 running_process, cursor, time_tick, terminated_counter, report>>

kill_running_process ==
  /\ EventPending /\ EventDue /\ HitsRunning
  /\ running_process' = NULL
  /\ KillRecord(running_process)
  /\ event_index' = event_index + 1
  /\ UNCHANGED <<phase, process_table, ready_queue, waiting_queue, kill_event_list,
                 cursor, time_tick, report>>

\* kill_queued_process that finds its target in the ready queue.
KillReady ==
  /\ EventPending /\ EventDue /\ ~HitsRunning
  /\ \E i \in DOMAIN ready_queue :
       /\ FoundAt(ready_queue, event.kill_pid, i)
       /\ ready_queue' = RemoveAt(ready_queue, i)
       /\ KillRecord(ready_queue[i])
  /\ event_index' = event_index + 1
  /\ UNCHANGED <<phase, process_table, waiting_queue, kill_event_list, running_process,
                 cursor, time_tick, report>>

\* kill_queued_process that finds its target in the waiting queue.
KillWaiting ==
  /\ EventPending /\ EventDue /\ ~HitsRunning
  /\ ~InQueue(ready_queue, event.kill_pid)
  /\ \E i \in DOMAIN waiting_queue :
       /\ FoundAt(waiting_queue, event.kill_pid, i)
       /\ waiting_queue' = RemoveAt(waiting_queue, i)
       /\ KillRecord(waiting_queue[i])
  /\ event_index' = event_index + 1
  /\ UNCHANGED <<phase, process_table, ready_queue, kill_event_list, running_process,
                 cursor, time_tick, report>>

\* Mutant: the loop over the events stops one short.
KillsApplied_short == phase = "kills" /\ event_index >= Len(kill_event_list)
KillsApplied == phase = "kills" /\ event_index > Len(kill_event_list)

\* An idle CPU takes the front of the ready queue.
Dispatch ==
  /\ KillsApplied
  /\ running_process = NULL /\ ready_queue # <<>>
  /\ running_process' = Head(ready_queue)
  /\ ready_queue' = Tail(ready_queue)
  /\ registered_processes' =
       [registered_processes EXCEPT ![Head(ready_queue)].execution_state = "RUNNING"]
  /\ phase' = "execute"
  /\ UNCHANGED <<process_table, waiting_queue, finished_queue, kill_event_list, event_index,
                 cursor, time_tick, terminated_counter, report>>

\* The CPU is taken, or nothing is ready.
NoDispatch ==
  /\ KillsApplied
  /\ running_process # NULL \/ ready_queue = <<>>
  /\ phase' = "execute"
  /\ UNCHANGED <<registered_processes, process_table, queues, kill_event_list, event_index,
                 running_process, cursor, time_tick, terminated_counter, report>>

\* Mutant: the I/O advances by two.
decrement_io_for_process_two(rec) ==
  IF rec.remaining_io_ticks > 0 THEN [rec EXCEPT !.remaining_io_ticks = @ - 2] ELSE rec

decrement_io_for_process(rec) ==
  IF rec.remaining_io_ticks > 0 THEN [rec EXCEPT !.remaining_io_ticks = @ - 1] ELSE rec

\* Mutant: a tick is charged twice.
ExecutedOnce_twice(rec) ==
  [rec EXCEPT !.executed_cpu_time = @ + 2, !.remaining_cpu_burst = @ - 1]

\* The record after it was on the CPU for a tick.
ExecutedOnce(rec) ==
  [rec EXCEPT !.executed_cpu_time = @ + 1, !.remaining_cpu_burst = @ - 1]

\* Mutant: the I/O of every process advances, waiting or not.
Execute_all ==
  /\ phase = "execute"
  /\ registered_processes' =
       [r \in Records |-> IF r = running_process THEN ExecutedOnce(Rec(r))
                          ELSE decrement_io_for_process(Rec(r))]
  /\ phase' = "settle"
  /\ UNCHANGED <<process_table, queues, kill_event_list, event_index, running_process,
                 cursor, time_tick, terminated_counter, report>>

\* The running process executes and every waiting process gets on with its I/O.
Execute ==
  /\ phase = "execute"
  /\ registered_processes' =
       [r \in Records |->
          IF r = running_process THEN ExecutedOnce(Rec(r))
          ELSE IF r \in ToSet(waiting_queue) THEN decrement_io_for_process(Rec(r))
          ELSE Rec(r)]
  /\ phase' = "settle"
  /\ UNCHANGED <<process_table, queues, kill_event_list, event_index, running_process,
                 cursor, time_tick, terminated_counter, report>>

\* Mutant: "no I/O" (-1) is not recognised and a start that was passed counts.
IoDue_unchecked(rec) ==
  /\ rec.remaining_cpu_burst > 0
  /\ rec.executed_cpu_time >= rec.io_start_tick
  /\ rec.io_duration_ticks > 0

\* The running process has reached its I/O.
IoDue(rec) ==
  /\ rec.remaining_cpu_burst > 0
  /\ rec.io_start_tick >= 0
  /\ rec.executed_cpu_time = rec.io_start_tick
  /\ rec.io_duration_ticks > 0

StartIo ==
  /\ phase = "settle" /\ running_process # NULL
  /\ IoDue(Rec(running_process))
  /\ registered_processes' =
       [registered_processes EXCEPT
          ![running_process].remaining_io_ticks = Rec(running_process).io_duration_ticks,
          ![running_process].execution_state = "WAITING"]
  /\ waiting_queue' = Append(waiting_queue, running_process)
  /\ running_process' = NULL
  /\ phase' = "wake" /\ cursor' = 1
  /\ UNCHANGED <<process_table, ready_queue, finished_queue, kill_event_list, event_index,
                 time_tick, terminated_counter, report>>

Finish ==
  /\ phase = "settle" /\ running_process # NULL
  /\ ~IoDue(Rec(running_process)) /\ Rec(running_process).remaining_cpu_burst = 0
  /\ registered_processes' =
       [registered_processes EXCEPT
          ![running_process] = mark_process_terminated(@, time_tick + 1)]
  /\ finished_queue' = Append(finished_queue, running_process)
  /\ running_process' = NULL
  /\ terminated_counter' = terminated_counter + 1
  /\ phase' = "wake" /\ cursor' = 1
  /\ UNCHANGED <<process_table, ready_queue, waiting_queue, kill_event_list, event_index,
                 time_tick, report>>

\* The running process keeps the CPU, or there is none.
KeepRunning ==
  /\ phase = "settle"
  /\ running_process # NULL => /\ ~IoDue(Rec(running_process))
                               /\ Rec(running_process).remaining_cpu_burst # 0
  /\ phase' = "wake" /\ cursor' = 1
  /\ UNCHANGED <<registered_processes, process_table, queues, kill_event_list, event_index,
                 running_process, time_tick, terminated_counter, report>>

\* Mutant: the process is put at the front of the ready queue.
Wake_front ==
  /\ phase = "wake" /\ cursor <= Len(waiting_queue)
  /\ Rec(waiting_queue[cursor]).remaining_io_ticks = 0
  /\ waiting_queue' = RemoveAt(waiting_queue, cursor)
  /\ ready_queue' = <<waiting_queue[cursor]>> \o ready_queue
  /\ registered_processes' =
       [registered_processes EXCEPT ![waiting_queue[cursor]].execution_state = "READY"]
  /\ UNCHANGED <<phase, process_table, finished_queue, kill_event_list, event_index,
                 running_process, cursor, time_tick, terminated_counter, report>>

\* move_completed_io_to_ready unlinks a process whose I/O is over.
Wake ==
  /\ phase = "wake" /\ cursor <= Len(waiting_queue)
  /\ Rec(waiting_queue[cursor]).remaining_io_ticks = 0
  /\ waiting_queue' = RemoveAt(waiting_queue, cursor)
  /\ ready_queue' = Append(ready_queue, waiting_queue[cursor])
  /\ registered_processes' =
       [registered_processes EXCEPT ![waiting_queue[cursor]].execution_state = "READY"]
  /\ UNCHANGED <<phase, process_table, finished_queue, kill_event_list, event_index,
                 running_process, cursor, time_tick, terminated_counter, report>>

\* ... and passes over one that is still waiting.
PassOver ==
  /\ phase = "wake" /\ cursor <= Len(waiting_queue)
  /\ Rec(waiting_queue[cursor]).remaining_io_ticks # 0
  /\ cursor' = cursor + 1
  /\ UNCHANGED <<phase, registered_processes, process_table, queues, kill_event_list,
                 event_index, running_process, time_tick, terminated_counter, report>>

\* The end of the loop body and the test of its condition.
EndTick ==
  /\ phase = "wake" /\ cursor > Len(waiting_queue)
  /\ time_tick < MaxTick
  /\ time_tick' = time_tick + 1
  /\ event_index' = 1
  /\ phase' = IF terminated_counter < total_process_count THEN "kills" ELSE "report"
  /\ UNCHANGED <<registered_processes, process_table, queues, kill_event_list,
                 running_process, cursor, terminated_counter, report>>

-----------------------------------------------------------------------------
(* The result table.                                                       *)

\* Mutant: the operands are swapped.
compare_process_by_pid_swapped(r, s) ==
  ((Rec(s).process_id - Rec(r).process_id + IntHalf) % (2 * IntHalf)) - IntHalf

\* The difference of two pids in an int of the build.
compare_process_by_pid(r, s) ==
  ((Rec(r).process_id - Rec(s).process_id + IntHalf) % (2 * IntHalf)) - IntHalf

\* The orders qsort may leave: a permutation in which no neighbours are out of
\* order by the comparison, which is not transitive once it wraps.
Sorted ==
  { order \in [Records -> Records] :
      /\ \A i, j \in Records : order[i] = order[j] => i = j
      /\ \A i \in Records : i + 1 \in Records =>
           compare_process_by_pid(order[i], order[i + 1]) <= 0 }

Clamped(waiting) == IF waiting < 0 THEN 0 ELSE waiting

Row(rec) ==
  IF rec.terminated_by_kill
  THEN [pid |-> rec.process_id, cpu |-> rec.total_cpu_burst, io |-> rec.io_duration_ticks,
        killed_at |-> rec.killed_at_tick, turnaround |-> -1, waiting |-> -1]
  ELSE [pid |-> rec.process_id, cpu |-> rec.total_cpu_burst, io |-> rec.io_duration_ticks,
        killed_at |-> -1, turnaround |-> rec.completion_tick,
        waiting |-> Clamped(rec.completion_tick - rec.total_cpu_burst)]

print_result_table ==
  /\ phase = "report"
  /\ \E order \in Sorted : report' = [i \in Records |-> Row(Rec(order[i]))]
  /\ phase' = "done"
  /\ UNCHANGED <<registered_processes, process_table, queues, kill_event_list, event_index,
                 running_process, cursor, time_tick, terminated_counter>>

-----------------------------------------------------------------------------
apply_pending_kill_events ==
  SkipKillEvent \/ kill_running_process \/ KillReady \/ KillWaiting

execute_scheduler ==
  \/ apply_pending_kill_events
  \/ Dispatch \/ NoDispatch \/ Execute
  \/ StartIo \/ Finish \/ KeepRunning
  \/ Wake \/ PassOver \/ EndTick

ReadInput ==
  \/ \E l \in ProcessLines : ParseProcessLine(l)
  \/ \E k \in KillLines : ReadKillLine(k)
  \/ ReadBlankLine \/ EndOfInput

Next == ReadInput \/ execute_scheduler \/ print_result_table

Spec == Init /\ [][Next]_vars

\* The simulator is one thread: once its input has ended it takes every step
\* it can.  Nothing obliges the person at the keyboard to end the input.
FairSpec == Spec /\ WF_vars(execute_scheduler \/ print_result_table)

-----------------------------------------------------------------------------
(* Types.                                                                  *)

ProcessRecords ==
  [process_id : IntValues, total_cpu_burst : Int, remaining_cpu_burst : Int,
   io_start_tick : Int, io_duration_ticks : Int, remaining_io_ticks : Nat,
   executed_cpu_time : Nat, completion_tick : Int, terminated_by_kill : BOOLEAN,
   killed_at_tick : Int, execution_state : States]

\* The type invariant.
TypeOK ==
  /\ phase \in Phases
  /\ registered_processes \in Seq(ProcessRecords)
  /\ process_table \in [IntValues -> Records \cup {NULL}]
  /\ ready_queue \in Seq(Records)
  /\ waiting_queue \in Seq(Records)
  /\ finished_queue \in Seq(Records)
  /\ kill_event_list \in Seq(KillLines)
  /\ event_index \in Nat \ {0}
  /\ running_process \in Records \cup {NULL}
  /\ cursor \in Nat \ {0}
  /\ time_tick \in Nat
  /\ terminated_counter \in Nat

-----------------------------------------------------------------------------
(* Safety.                                                                 *)

PlacedByState(r) ==
  /\ Rec(r).execution_state = "READY" <=> r \in ToSet(ready_queue)
  /\ Rec(r).execution_state = "WAITING" <=> r \in ToSet(waiting_queue)
  /\ Rec(r).execution_state = "TERMINATED" <=> r \in ToSet(finished_queue)
  /\ Rec(r).execution_state = "RUNNING" <=> r = running_process

\* The records are shared by three intrusive lists and the CPU: each is in
\* exactly the one its execution_state names, and there only once, whatever
\* sequence of dispatches, kills and wake-ups moved it (enqueue, dequeue,
\* remove_from_queue_by_pid, move_completed_io_to_ready).
PlacementMatchesState ==
  /\ IsInjective(ready_queue) /\ IsInjective(waiting_queue) /\ IsInjective(finished_queue)
  /\ \A r \in Records : PlacedByState(r)

\* The loop of execute_scheduler counts terminations instead of looking at the
\* processes: it must leave only when every process has terminated.
LeavesOnlyWhenAllTerminated ==
  phase \in {"report", "done"} =>
    \A r \in Records : Rec(r).execution_state = "TERMINATED"

\* Records, queues and counter agree from the first line read to the table.
QueuesConsistent == TypeOK /\ PlacementMatchesState /\ LeavesOnlyWhenAllTerminated

\* A process does its I/O if it starts it strictly inside its burst.
DoesIo(rec) ==
  rec.io_start_tick \in 1 .. rec.total_cpu_burst - 1 /\ rec.io_duration_ticks > 0

\* The ticks of I/O behind a process.  On the tick it reaches its I/O, the
\* process is charged before the I/O is set up.
IoStarted(r) ==
  /\ DoesIo(Rec(r))
  /\ \/ Rec(r).executed_cpu_time > Rec(r).io_start_tick
     \/ /\ Rec(r).executed_cpu_time = Rec(r).io_start_tick
        /\ ~(phase = "settle" /\ r = running_process)
IoBehind(r) ==
  IF IoStarted(r) THEN Rec(r).io_duration_ticks - Rec(r).remaining_io_ticks ELSE 0

Now == IF phase \in {"settle", "wake"} THEN time_tick + 1 ELSE time_tick

\* No process gets more than one tick of progress per tick of the clock, CPU
\* and I/O together, over the order execute - decrement - settle - wake of the
\* tick loop: its I/O neither overlaps its own execution nor ends early.
ProgressWithinClock ==
  \A r \in Records :
    Rec(r).execution_state # "TERMINATED" =>
      Rec(r).executed_cpu_time + IoBehind(r) <= Now

\* A turnaround that is printed covers the whole burst and the whole I/O of
\* its process, so print_result_table never has a negative waiting time to
\* clamp; and a process with nothing to execute never completes on its own.
TurnaroundCoversWork ==
  \A r \in Records :
    Rec(r).execution_state = "TERMINATED" /\ ~Rec(r).terminated_by_kill =>
      /\ Rec(r).executed_cpu_time = Rec(r).total_cpu_burst
      /\ Rec(r).total_cpu_burst > 0
      /\ Rec(r).completion_tick >=
           Rec(r).total_cpu_burst + (IF DoesIo(Rec(r)) THEN Rec(r).io_duration_ticks ELSE 0)
      /\ Rec(r).completion_tick <= Now

\* The clock and the work agree, for every process at every step of the tick
\* loop: progress never runs ahead of the clock, and what has ended took at
\* least the time its work needs.
WorkAccounted == ProgressWithinClock /\ TurnaroundCoversWork

\* There is one CPU: the ticks executed by all processes never exceed the
\* ticks that have passed.
OneCpu == SumFunction([r \in Records |-> Rec(r).executed_cpu_time]) <= Now

\* The CPU is never left idle while something could run: when no process does
\* I/O, every tick so far was executed by some process.
NoIdleTickWithoutIo ==
  (phase = "kills" /\ event_index = 1 /\ \A r \in Records : ~DoesIo(Rec(r))) =>
    SumFunction([r \in Records |-> Rec(r).executed_cpu_time]) = time_tick

\* First come, first served: a process has had the CPU only if every process
\* typed before it has had it too, or was killed before it got it.
FirstDispatchInInputOrder ==
  \A r, s \in Records :
    r < s /\ Rec(s).execution_state # "READY" /\ ~Rec(s).terminated_by_kill =>
      \/ Rec(r).execution_state # "READY"
      \/ Rec(r).executed_cpu_time > 0

\* The one CPU is never given out twice, never wasted, and given first to who
\* came first.
CpuAccounted == OneCpu /\ NoIdleTickWithoutIo /\ FirstDispatchInInputOrder

\* Every KILL event whose time has come was obeyed: its process, if there is
\* one (and no second one under its pid, after a failed allocation), was
\* terminated by that time; and nothing is killed but on the tick an event
\* asked for it.
Applied(i) ==
  LET k == kill_event_list[i] IN
  \/ k.kill_time \in 0 .. time_tick - 1
  \/ k.kill_time = time_tick /\ (phase = "kills" => i < event_index)
DistinctPids == \A r, s \in Records : Rec(r).process_id = Rec(s).process_id => r = s
KillsObeyed ==
  phase \notin {"input", "kill_input"} =>
    /\ \A i \in DOMAIN kill_event_list :
         LET k == kill_event_list[i] IN
         (/\ Applied(i) /\ phase \notin {"report", "done"}
          /\ process_table[k.kill_pid] # NULL /\ DistinctPids) =>
           /\ Rec(process_table[k.kill_pid]).execution_state = "TERMINATED"
           /\ Rec(process_table[k.kill_pid]).completion_tick <= k.kill_time
    /\ \A r \in Records :
         Rec(r).terminated_by_kill =>
           /\ Rec(r).completion_tick = Rec(r).killed_at_tick
           /\ Rec(r).remaining_cpu_burst # 0 \/ Rec(r).total_cpu_burst <= 0
           /\ \E i \in DOMAIN kill_event_list :
                 kill_event_list[i] = [kill_pid |-> Rec(r).process_id,
                                       kill_time |-> Rec(r).killed_at_tick]

\* A process that cannot end by itself and that no event kills keeps the loop
\* running for ever.
CanEnd(r) ==
  \/ Rec(r).total_cpu_burst > 0
  \/ \E i \in DOMAIN kill_event_list :
        /\ kill_event_list[i].kill_pid = Rec(r).process_id
        /\ process_table[Rec(r).process_id] # NULL
        /\ kill_event_list[i].kill_time >= 0

\* The table has a row for every process, in the order of the pids as long as
\* none of them wrapped to a negative number (compare_process_by_pid
\* subtracts); and no two rows claim the CPU for the same tick: the bursts of
\* the processes that completed by a time fit into that time.
ReportIsConsistent ==
  phase = "done" =>
    /\ Len(report) = total_process_count
    /\ \A r \in Records : \E i \in DOMAIN report : report[i].pid = Rec(r).process_id
    /\ (\A r \in Records : Rec(r).process_id >= 0) =>
         \A i, j \in DOMAIN report : i < j => report[i].pid <= report[j].pid
    /\ \A i \in DOMAIN report :
         SumFunctionOnSet([j \in DOMAIN report |-> report[j].cpu],
                          { j \in DOMAIN report : /\ report[j].killed_at = -1
                                                  /\ report[j].turnaround <= report[i].turnaround })
           <= report[i].turnaround \/ report[i].killed_at # -1

-----------------------------------------------------------------------------
(* Action properties.                                                      *)

\* The outcome of a process is final: a second KILL for it, or its own I/O
\* bookkeeping, never touches a record that has terminated.
OutcomeIsFinal ==
  [][\A r \in Records :
       Rec(r).execution_state = "TERMINATED" =>
         registered_processes'[r] = registered_processes[r]]_vars

\* Nobody overtakes in a queue: of two processes that stay in it, the one in
\* front stays in front, and whoever joins stands behind both.
Before(q, r, s) == \E i, j \in DOMAIN q : i < j /\ q[i] = r /\ q[j] = s
KeepsOrder(q, new) ==
  /\ \A r, s \in ToSet(q) \cap ToSet(new) : Before(q, r, s) => Before(new, r, s)
  /\ \A r \in ToSet(q) \cap ToSet(new), s \in ToSet(new) \ ToSet(q) : Before(new, r, s)
NoOvertaking ==
  [][/\ KeepsOrder(ready_queue, ready_queue')
     /\ KeepsOrder(waiting_queue, waiting_queue')]_vars

-----------------------------------------------------------------------------
(* Liveness.                                                               *)

\* Once the input has ended, a simulation all of whose processes can end (no
\* two under one pid, or the kill may meet the other one) does end, with its table printed.
EndsIfAllCanEnd ==
  (phase = "kills" /\ DistinctPids /\ \A r \in Records : CanEnd(r)) ~> phase = "done"

-----------------------------------------------------------------------------
(* Refinement.                                                             *)

\* Seen through their execution states, the processes live the life that
\* ProcessLifecycle describes: one CPU, dispatch only from ready, I/O only
\* from the CPU, one end.
Lifecycle ==
  INSTANCE ProcessLifecycle
    WITH status <- [r \in Records |-> Rec(r).execution_state],
         killed <- { r \in Records : Rec(r).terminated_by_kill }
RefinesLifecycle == Lifecycle!Spec
=============================================================================
