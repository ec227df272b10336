------------------------ MODULE FcfsScheduler_proofs ------------------------
(***************************************************************************)
(* Proofs about FcfsScheduler, for every set of lines, any number of       *)
(* processes and events, any horizon, and with allocation failures.        *)
(***************************************************************************)
EXTENDS FcfsScheduler, DataLemmas, FiniteSetTheorems

\* The records are numbered from 1 to total_process_count.
LEMMA RecordsAreAnInterval ==
  ASSUME TypeOK
  PROVE  /\ Records = 1 .. total_process_count
         /\ total_process_count \in Nat
         /\ NULL \notin Records
         /\ \A r \in Records : Rec(r) \in ProcessRecords
  BY DEF TypeOK, Records, Rec, total_process_count, NULL

\* Replacing one record by a record leaves the registry well formed.
LEMMA UpdateFacts ==
  ASSUME TypeOK, NEW r \in Records, NEW new \in ProcessRecords
  PROVE  LET reg == [registered_processes EXCEPT ![r] = new] IN
         /\ reg \in Seq(ProcessRecords)
         /\ DOMAIN reg = Records
         /\ Len(reg) = total_process_count
         /\ \A s \in Records : reg[s] = IF s = r THEN new ELSE Rec(s)
  BY DEF TypeOK, Records, Rec, total_process_count

\* The initial state is well typed.
LEMMA InitType == Init => TypeOK
  BY LinesAssumption DEF Init, TypeOK, Phases, Records, NULL, IntValues

\* Reading a process line keeps the types.
LEMMA ParseProcessLineType ==
  ASSUME TypeOK, NEW l \in ProcessLines, ParseProcessLine(l)
  PROVE  TypeOK'
<1>1. create_process_record(l) \in ProcessRecords
  BY LinesAssumption DEF create_process_record, ProcessRecords, States, IntValues
<1>2. l.pid \in IntValues
  BY LinesAssumption
<1>3. /\ registered_processes' \in Seq(ProcessRecords)
      /\ Records' = Records \cup {total_process_count + 1}
      /\ total_process_count + 1 \in Records'
  BY <1>1, RecordsAreAnInterval DEF ParseProcessLine, TypeOK, Records, total_process_count
<1>4. process_table' \in [IntValues -> Records' \cup {NULL}]
  BY <1>2, <1>3 DEF ParseProcessLine, TypeOK
<1>5. /\ ready_queue' \in Seq(Records') /\ waiting_queue' \in Seq(Records')
      /\ finished_queue' \in Seq(Records')
  BY <1>3 DEF ParseProcessLine, TypeOK
<1> QED
  BY <1>3, <1>4, <1>5 DEF ParseProcessLine, TypeOK

\* The operations on a single record, field by field.
LEMMA TerminatedFacts ==
  ASSUME NEW rec \in ProcessRecords, NEW t \in Int
  PROVE  LET new == mark_process_terminated(rec, t) IN
         /\ new \in ProcessRecords
         /\ new.execution_state = "TERMINATED" /\ new.completion_tick = t
         /\ new.total_cpu_burst = rec.total_cpu_burst
         /\ new.remaining_cpu_burst = rec.remaining_cpu_burst
         /\ new.io_start_tick = rec.io_start_tick
         /\ new.io_duration_ticks = rec.io_duration_ticks
         /\ new.executed_cpu_time = rec.executed_cpu_time
         /\ new.terminated_by_kill = rec.terminated_by_kill
  BY DEF ProcessRecords, States, mark_process_terminated

\* mark_process_terminated by a kill, at the time of the kill.
LEMMA KilledFacts ==
  ASSUME NEW rec \in ProcessRecords, NEW t \in Int
  PROVE  LET new == KilledAt(rec, t) IN
         /\ new \in ProcessRecords
         /\ new.execution_state = "TERMINATED"
         /\ new.total_cpu_burst = rec.total_cpu_burst
         /\ new.remaining_cpu_burst = rec.remaining_cpu_burst
         /\ new.io_start_tick = rec.io_start_tick
         /\ new.io_duration_ticks = rec.io_duration_ticks
         /\ new.executed_cpu_time = rec.executed_cpu_time
         /\ new.terminated_by_kill = TRUE
<1> DEFINE k == [rec EXCEPT !.terminated_by_kill = TRUE, !.killed_at_tick = t]
<1>1. /\ k \in ProcessRecords
      /\ k.total_cpu_burst = rec.total_cpu_burst
      /\ k.remaining_cpu_burst = rec.remaining_cpu_burst
      /\ k.io_start_tick = rec.io_start_tick /\ k.io_duration_ticks = rec.io_duration_ticks
      /\ k.executed_cpu_time = rec.executed_cpu_time
      /\ k.terminated_by_kill = TRUE
  BY DEF ProcessRecords
<1>2. KilledAt(rec, t) = mark_process_terminated(k, t)
  BY DEF KilledAt
<1> HIDE DEF k
<1> QED
  BY <1>1, <1>2, TerminatedFacts

\* One tick of the CPU.
LEMMA ExecutedFacts ==
  ASSUME NEW rec \in ProcessRecords
  PROVE  LET new == ExecutedOnce(rec) IN
         /\ new \in ProcessRecords
         /\ new.execution_state = rec.execution_state
         /\ new.total_cpu_burst = rec.total_cpu_burst
         /\ new.remaining_cpu_burst = rec.remaining_cpu_burst - 1
         /\ new.io_start_tick = rec.io_start_tick
         /\ new.io_duration_ticks = rec.io_duration_ticks
         /\ new.remaining_io_ticks = rec.remaining_io_ticks
         /\ new.executed_cpu_time = rec.executed_cpu_time + 1
         /\ new.terminated_by_kill = rec.terminated_by_kill
<1>1. ASSUME NEW e \in Nat, NEW b \in Int
      PROVE  LET new == [rec EXCEPT !.executed_cpu_time = e, !.remaining_cpu_burst = b] IN
             /\ new \in ProcessRecords
             /\ new.execution_state = rec.execution_state
             /\ new.total_cpu_burst = rec.total_cpu_burst
             /\ new.remaining_cpu_burst = b
             /\ new.io_start_tick = rec.io_start_tick
             /\ new.io_duration_ticks = rec.io_duration_ticks
             /\ new.remaining_io_ticks = rec.remaining_io_ticks
             /\ new.executed_cpu_time = e
             /\ new.terminated_by_kill = rec.terminated_by_kill
  BY DEF ProcessRecords
<1>2. rec.executed_cpu_time + 1 \in Nat /\ rec.remaining_cpu_burst - 1 \in Int
  BY DEF ProcessRecords
<1> QED
  BY <1>1, <1>2 DEF ExecutedOnce

\* One tick of I/O.
LEMMA DecrementedFacts ==
  ASSUME NEW rec \in ProcessRecords
  PROVE  LET new == decrement_io_for_process(rec) IN
         /\ new \in ProcessRecords
         /\ new.execution_state = rec.execution_state
         /\ new.total_cpu_burst = rec.total_cpu_burst
         /\ new.remaining_cpu_burst = rec.remaining_cpu_burst
         /\ new.io_start_tick = rec.io_start_tick
         /\ new.io_duration_ticks = rec.io_duration_ticks
         /\ new.remaining_io_ticks \in {rec.remaining_io_ticks, rec.remaining_io_ticks - 1}
         /\ new.executed_cpu_time = rec.executed_cpu_time
         /\ new.terminated_by_kill = rec.terminated_by_kill
  BY DEF ProcessRecords, decrement_io_for_process

\* A record that changes its state and nothing else.
LEMMA MovedFacts ==
  ASSUME NEW rec \in ProcessRecords, NEW st \in States
  PROVE  LET new == [rec EXCEPT !.execution_state = st] IN
         /\ new \in ProcessRecords
         /\ new.execution_state = st
         /\ new.total_cpu_burst = rec.total_cpu_burst
         /\ new.remaining_cpu_burst = rec.remaining_cpu_burst
         /\ new.io_start_tick = rec.io_start_tick
         /\ new.io_duration_ticks = rec.io_duration_ticks
         /\ new.executed_cpu_time = rec.executed_cpu_time
         /\ new.terminated_by_kill = rec.terminated_by_kill
         /\ new.remaining_io_ticks = rec.remaining_io_ticks
  BY DEF ProcessRecords

\* A record that leaves the CPU for its I/O.
LEMMA IoStartedFacts ==
  ASSUME NEW rec \in ProcessRecords, NEW io \in Nat
  PROVE  LET new == [rec EXCEPT !.remaining_io_ticks = io, !.execution_state = "WAITING"] IN
         /\ new \in ProcessRecords
         /\ new.execution_state = "WAITING"
         /\ new.total_cpu_burst = rec.total_cpu_burst
         /\ new.remaining_cpu_burst = rec.remaining_cpu_burst
         /\ new.io_start_tick = rec.io_start_tick
         /\ new.io_duration_ticks = rec.io_duration_ticks
         /\ new.executed_cpu_time = rec.executed_cpu_time
         /\ new.terminated_by_kill = rec.terminated_by_kill
         /\ new.remaining_io_ticks = io
  BY DEF ProcessRecords, States

\* What KillRecord makes of the record it terminates.
LEMMA KillRecordType ==
  ASSUME TypeOK, NEW r \in Records, KillRecord(r)
  PROVE  /\ registered_processes' \in Seq(ProcessRecords)
         /\ Records' = Records
         /\ finished_queue' \in Seq(Records)
         /\ terminated_counter' \in Nat
         /\ KilledAt(Rec(r), time_tick) \in ProcessRecords
         /\ \A s \in Records :
              registered_processes'[s] = IF s = r THEN KilledAt(Rec(r), time_tick) ELSE Rec(s)
<1>1. KilledAt(Rec(r), time_tick) \in ProcessRecords
  <2>1. Rec(r) \in ProcessRecords /\ time_tick \in Int
    BY RecordsAreAnInterval DEF TypeOK
  <2> QED
    BY <2>1, KilledFacts
<1>2. registered_processes' = [registered_processes EXCEPT ![r] = KilledAt(Rec(r), time_tick)]
  BY DEF KillRecord, Records, Rec
<1>3. /\ registered_processes' \in Seq(ProcessRecords)
      /\ Records' = Records
      /\ \A s \in Records :
           registered_processes'[s] = IF s = r THEN KilledAt(Rec(r), time_tick) ELSE Rec(s)
  BY <1>1, <1>2, UpdateFacts DEF Records
<1> QED
  BY <1>1, <1>3 DEF KillRecord, TypeOK

-----------------------------------------------------------------------------
(* The queues.                                                             *)

CounterMatchesQueue == terminated_counter = Len(finished_queue)
ExitMatchesCounter ==
  phase \in {"report", "done"} => terminated_counter >= total_process_count

QueueInv ==
  /\ TypeOK
  /\ PlacementMatchesState
  /\ CounterMatchesQueue
  /\ ExitMatchesCounter

\* The queues are empty at the start.
LEMMA InitQueueInv == Init => QueueInv
<1> SUFFICES ASSUME Init PROVE QueueInv
  OBVIOUS
<1>1. TypeOK
  BY InitType
<1>2. PlacementMatchesState
  BY DEF Init, PlacementMatchesState, Records, IsInjective
<1> QED
  BY <1>1, <1>2 DEF QueueInv, Init, CounterMatchesQueue, ExitMatchesCounter

\* A new process joins the ready queue.
LEMMA ParseProcessLineQueues ==
  ASSUME QueueInv, NEW l \in ProcessLines, ParseProcessLine(l)
  PROVE  QueueInv'
<1> PICK n : n = total_process_count + 1
  OBVIOUS
<1>1. TypeOK'
  BY ParseProcessLineType DEF QueueInv
<1>2. n \notin Records /\ n # NULL /\ total_process_count \in Nat
  BY RecordsAreAnInterval DEF QueueInv, NULL
<1>3. registered_processes' = Append(registered_processes, create_process_record(l))
  BY DEF ParseProcessLine
<1>4. /\ Records' = Records \cup {n}
      /\ Rec(n)' = create_process_record(l)
      /\ \A r \in Records : Rec(r)' = Rec(r)
  <2>1. registered_processes \in Seq(ProcessRecords) /\ n = Len(registered_processes) + 1
    BY DEF QueueInv, TypeOK, total_process_count
  <2> QED
    BY <1>3, <2>1 DEF Records, Rec
<1>5. create_process_record(l).execution_state = "READY"
  BY DEF create_process_record
<1>6. n \notin ToSet(ready_queue) /\ n \notin ToSet(waiting_queue) /\ n \notin ToSet(finished_queue)
      /\ n # running_process
  BY <1>2 DEF QueueInv, TypeOK, ToSet
<1>7. IsInjective(ready_queue') /\ ToSet(ready_queue') = ToSet(ready_queue) \cup {n}
  <2>1. ready_queue \in Seq(Records \cup {n}) /\ ready_queue' = Append(ready_queue, n)
    BY DEF QueueInv, TypeOK, ParseProcessLine
  <2> QED
    BY <2>1, <1>6, AppendFacts DEF QueueInv, PlacementMatchesState
<1>8. PlacedByState(n)'
  BY <1>4, <1>5, <1>6, <1>7 DEF PlacedByState, ParseProcessLine
<1>9. ASSUME NEW r \in Records PROVE PlacedByState(r)'
  BY <1>2, <1>4, <1>7 DEF PlacedByState, ParseProcessLine, QueueInv, PlacementMatchesState
<1>10. PlacementMatchesState'
  BY <1>4, <1>7, <1>8, <1>9 DEF QueueInv, PlacementMatchesState, ParseProcessLine
<1> QED
  BY <1>1, <1>10 DEF QueueInv, ParseProcessLine, CounterMatchesQueue, ExitMatchesCounter

\* Steps that move no process.
LEMMA IdleQueues ==
  ASSUME QueueInv, UNCHANGED <<registered_processes, process_table, queues, running_process,
                               terminated_counter>>,
         phase' \in Phases, phase' \in {"report", "done"} => ExitMatchesCounter',
         event_index' \in Nat \ {0}, cursor' \in Nat \ {0}, time_tick' \in Nat,
         kill_event_list' \in Seq(KillLines)
  PROVE  QueueInv'
<1>1. Records' = Records /\ total_process_count' = total_process_count
      /\ \A r \in Records : Rec(r)' = Rec(r)
  BY DEF Records, total_process_count, Rec
<1>2. /\ ready_queue' = ready_queue /\ waiting_queue' = waiting_queue
      /\ finished_queue' = finished_queue
  BY DEF queues
<1>3. TypeOK'
  BY <1>1, <1>2 DEF QueueInv, TypeOK
<1>4. PlacementMatchesState'
  BY <1>1, <1>2 DEF QueueInv, PlacementMatchesState, PlacedByState
<1> QED
  BY <1>1, <1>2, <1>3, <1>4 DEF QueueInv, CounterMatchesQueue, ExitMatchesCounter

\* What terminating r, wherever it was unlinked from, does to the finished queue.
LEMMA KillRecordQueues ==
  ASSUME QueueInv, NEW r \in Records, KillRecord(r), Rec(r).execution_state # "TERMINATED"
  PROVE  /\ registered_processes' \in Seq(ProcessRecords)
         /\ Records' = Records
         /\ total_process_count' = total_process_count
         /\ Rec(r)'.execution_state = "TERMINATED"
         /\ \A s \in Records : s # r => Rec(s)' = Rec(s)
         /\ finished_queue' \in Seq(Records)
         /\ IsInjective(finished_queue')
         /\ ToSet(finished_queue') = ToSet(finished_queue) \cup {r}
         /\ CounterMatchesQueue'
         /\ terminated_counter' \in Nat
         /\ terminated_counter' = terminated_counter + 1
<1>1. r \notin ToSet(finished_queue)
  BY DEF QueueInv, PlacementMatchesState, PlacedByState
<1>2. /\ finished_queue \in Seq(Records) /\ IsInjective(finished_queue)
      /\ finished_queue' = Append(finished_queue, r)
  BY DEF QueueInv, TypeOK, PlacementMatchesState, KillRecord
<1>3. /\ IsInjective(finished_queue')
      /\ ToSet(finished_queue') = ToSet(finished_queue) \cup {r}
      /\ Len(finished_queue') = Len(finished_queue) + 1
  BY <1>1, <1>2, AppendFacts
<1>4. /\ registered_processes' \in Seq(ProcessRecords)
      /\ Records' = Records
      /\ finished_queue' \in Seq(Records)
      /\ terminated_counter' \in Nat
      /\ \A s \in Records :
           registered_processes'[s] = IF s = r THEN KilledAt(Rec(r), time_tick) ELSE Rec(s)
  BY KillRecordType DEF QueueInv
<1>5. KilledAt(Rec(r), time_tick).execution_state = "TERMINATED"
  <2>1. Rec(r) \in ProcessRecords /\ time_tick \in Int
    BY RecordsAreAnInterval DEF QueueInv, TypeOK
  <2> QED
    BY <2>1, KilledFacts
<1>6. /\ Rec(r)' = KilledAt(Rec(r), time_tick)
      /\ \A s \in Records : s # r => Rec(s)' = Rec(s)
  BY <1>4 DEF Rec
<1>7. total_process_count' = total_process_count
  BY <1>4 DEF Records, total_process_count, QueueInv, TypeOK
<1> QED
  BY <1>3, <1>4, <1>5, <1>6, <1>7 DEF QueueInv, CounterMatchesQueue, KillRecord

\* Killing the running process moves it from the CPU to the finished queue.
LEMMA KillRunningQueues == ASSUME QueueInv, kill_running_process PROVE QueueInv'
<1> PICK r : r = running_process
  OBVIOUS
<1>1. r \in Records /\ KillRecord(r) /\ running_process' = NULL /\ NULL \notin Records
  BY RecordsAreAnInterval DEF QueueInv, TypeOK, kill_running_process, HitsRunning
<1>2. Rec(r).execution_state = "RUNNING"
  BY <1>1 DEF QueueInv, PlacementMatchesState, PlacedByState
<1>3. ASSUME NEW s \in Records PROVE PlacedByState(s)'
  BY <1>1, <1>2, KillRecordQueues
  DEF QueueInv, PlacementMatchesState, PlacedByState, kill_running_process
<1>4. PlacementMatchesState'
  BY <1>1, <1>2, <1>3, KillRecordQueues DEF QueueInv, PlacementMatchesState, kill_running_process
<1>5. TypeOK'
  BY <1>1, <1>2, KillRecordQueues DEF QueueInv, TypeOK, kill_running_process
<1> QED
  BY <1>1, <1>2, <1>4, <1>5, KillRecordQueues
  DEF QueueInv, ExitMatchesCounter, kill_running_process, EventPending

\* Killing a ready process moves it from the ready to the finished queue.
LEMMA KillReadyQueues == ASSUME QueueInv, KillReady PROVE QueueInv'
<1>1. PICK i \in DOMAIN ready_queue :
        ready_queue' = RemoveAt(ready_queue, i) /\ KillRecord(ready_queue[i])
  BY DEF KillReady
<1> PICK r : r = ready_queue[i]
  OBVIOUS
<1>2. /\ r \in Records /\ r \in ToSet(ready_queue) /\ KillRecord(r)
      /\ ready_queue' \in Seq(Records) /\ IsInjective(ready_queue')
      /\ ToSet(ready_queue') = ToSet(ready_queue) \ {r}
  BY <1>1, RemoveAtFacts DEF QueueInv, TypeOK, PlacementMatchesState
<1>3. Rec(r).execution_state = "READY"
  BY <1>2 DEF QueueInv, PlacementMatchesState, PlacedByState
<1>4. ASSUME NEW s \in Records PROVE PlacedByState(s)'
  BY <1>2, <1>3, KillRecordQueues DEF QueueInv, PlacementMatchesState, PlacedByState, KillReady
<1>5. PlacementMatchesState'
  BY <1>2, <1>3, <1>4, KillRecordQueues DEF QueueInv, PlacementMatchesState, KillReady
<1>6. TypeOK'
  BY <1>2, <1>3, KillRecordQueues DEF QueueInv, TypeOK, KillReady
<1> QED
  BY <1>2, <1>3, <1>5, <1>6, KillRecordQueues
  DEF QueueInv, ExitMatchesCounter, KillReady, EventPending

\* Killing a waiting process moves it from the waiting to the finished queue.
LEMMA KillWaitingQueues == ASSUME QueueInv, KillWaiting PROVE QueueInv'
<1>1. PICK i \in DOMAIN waiting_queue :
        waiting_queue' = RemoveAt(waiting_queue, i) /\ KillRecord(waiting_queue[i])
  BY DEF KillWaiting
<1> PICK r : r = waiting_queue[i]
  OBVIOUS
<1>2. /\ r \in Records /\ r \in ToSet(waiting_queue) /\ KillRecord(r)
      /\ waiting_queue' \in Seq(Records) /\ IsInjective(waiting_queue')
      /\ ToSet(waiting_queue') = ToSet(waiting_queue) \ {r}
  BY <1>1, RemoveAtFacts DEF QueueInv, TypeOK, PlacementMatchesState
<1>3. Rec(r).execution_state = "WAITING"
  BY <1>2 DEF QueueInv, PlacementMatchesState, PlacedByState
<1>4. ASSUME NEW s \in Records PROVE PlacedByState(s)'
  BY <1>2, <1>3, KillRecordQueues DEF QueueInv, PlacementMatchesState, PlacedByState, KillWaiting
<1>5. PlacementMatchesState'
  BY <1>2, <1>3, <1>4, KillRecordQueues DEF QueueInv, PlacementMatchesState, KillWaiting
<1>6. TypeOK'
  BY <1>2, <1>3, KillRecordQueues DEF QueueInv, TypeOK, KillWaiting
<1> QED
  BY <1>2, <1>3, <1>5, <1>6, KillRecordQueues
  DEF QueueInv, ExitMatchesCounter, KillWaiting, EventPending

\* Steps that rewrite the one record r.
LEMMA OneRecord ==
  ASSUME QueueInv, NEW r \in Records, NEW new \in ProcessRecords,
         registered_processes' = [registered_processes EXCEPT ![r] = new]
  PROVE  /\ registered_processes' \in Seq(ProcessRecords)
         /\ Records' = Records
         /\ total_process_count' = total_process_count
         /\ Rec(r)' = new
         /\ \A s \in Records : s # r => Rec(s)' = Rec(s)
  BY UpdateFacts DEF QueueInv, Records, Rec, total_process_count

\* Dispatch moves the front of the ready queue to the CPU.
LEMMA DispatchQueues == ASSUME QueueInv, Dispatch PROVE QueueInv'
<1> PICK r : r = Head(ready_queue)
  OBVIOUS
<1>1. /\ r \in Records /\ r \in ToSet(ready_queue) /\ running_process' = r
      /\ ready_queue' \in Seq(Records) /\ IsInjective(ready_queue')
      /\ ToSet(ready_queue') = ToSet(ready_queue) \ {r}
  BY TailFacts DEF QueueInv, TypeOK, PlacementMatchesState, Dispatch
<1>2. Rec(r).execution_state = "READY"
  BY <1>1 DEF QueueInv, PlacementMatchesState, PlacedByState
<1> PICK new : new = [Rec(r) EXCEPT !.execution_state = "RUNNING"]
  OBVIOUS
<1>3. new \in ProcessRecords /\ new.execution_state = "RUNNING"
  BY <1>1, MovedFacts, RecordsAreAnInterval DEF QueueInv, States
<1>4. registered_processes' = [registered_processes EXCEPT ![r] = new]
  BY DEF Dispatch, Rec
<1>u. /\ registered_processes' \in Seq(ProcessRecords) /\ Records' = Records
      /\ Rec(r)' = new /\ \A s \in Records : s # r => Rec(s)' = Rec(s)
  BY <1>1, <1>3, <1>4, OneRecord
<1>5. ASSUME NEW s \in Records PROVE PlacedByState(s)'
  <2>1. CASE s = r
    BY <2>1, <1>u, <1>1, <1>2, <1>3, <1>4, RecordsAreAnInterval
    DEF QueueInv, PlacementMatchesState, PlacedByState, Dispatch
  <2>2. CASE s # r
    BY <2>2, <1>u, <1>1, <1>2, <1>3, <1>4, RecordsAreAnInterval
    DEF QueueInv, PlacementMatchesState, PlacedByState, Dispatch
  <2> QED
    BY <2>1, <2>2
<1>6. PlacementMatchesState'
  BY <1>1, <1>3, <1>4, <1>5, <1>u DEF QueueInv, PlacementMatchesState, Dispatch
<1>7. TypeOK'
  BY <1>1, <1>3, <1>4, <1>u DEF QueueInv, TypeOK, Dispatch, Phases
<1> QED
  BY <1>6, <1>7 DEF QueueInv, CounterMatchesQueue, ExitMatchesCounter, Dispatch

\* A tick of CPU and I/O changes no state and no pid.
LEMMA ExecuteRecords ==
  ASSUME QueueInv, Execute
  PROVE  /\ registered_processes' \in Seq(ProcessRecords)
         /\ Records' = Records
         /\ total_process_count' = total_process_count
         /\ \A s \in Records :
              Rec(s)' = IF s = running_process THEN ExecutedOnce(Rec(s))
                        ELSE IF s \in ToSet(waiting_queue) THEN decrement_io_for_process(Rec(s))
                        ELSE Rec(s)
<1>1. /\ Records = 1 .. total_process_count /\ total_process_count \in Nat
      /\ \A s \in Records : Rec(s) \in ProcessRecords
  BY RecordsAreAnInterval DEF QueueInv
<1>2. /\ DOMAIN registered_processes' = Records
      /\ \A s \in Records :
           registered_processes'[s] =
             IF s = running_process THEN ExecutedOnce(Rec(s))
             ELSE IF s \in ToSet(waiting_queue) THEN decrement_io_for_process(Rec(s))
             ELSE Rec(s)
  BY DEF Execute
<1>3. \A s \in Records : registered_processes'[s] \in ProcessRecords
  BY <1>1, <1>2, ExecutedFacts, DecrementedFacts
<1>4. registered_processes' = [s \in 1 .. total_process_count |-> registered_processes'[s]]
  BY <1>1 DEF Execute
<1>5. registered_processes' \in Seq(ProcessRecords) /\ Len(registered_processes') = total_process_count
  BY <1>1, <1>3, <1>4
<1> QED
  BY <1>2, <1>5 DEF Records, Rec, total_process_count

\* A tick of CPU and I/O moves no process.
LEMMA ExecuteQueues == ASSUME QueueInv, Execute PROVE QueueInv'
<1>1. \A s \in Records : Rec(s)'.execution_state = Rec(s).execution_state
  BY ExecuteRecords, ExecutedFacts, DecrementedFacts, RecordsAreAnInterval DEF QueueInv
<1>2. ready_queue' = ready_queue /\ waiting_queue' = waiting_queue /\ finished_queue' = finished_queue
  BY DEF Execute, queues
<1>3. PlacementMatchesState'
  BY <1>1, <1>2, ExecuteRecords DEF QueueInv, PlacementMatchesState, PlacedByState, Execute
<1>4. TypeOK'
  BY <1>2, ExecuteRecords DEF QueueInv, TypeOK, Execute, Phases
<1> QED
  BY <1>2, <1>3, <1>4 DEF QueueInv, CounterMatchesQueue, ExitMatchesCounter, Execute

\* I/O moves the running process to the waiting queue.
LEMMA StartIoQueues == ASSUME QueueInv, StartIo PROVE QueueInv'
<1> PICK r : r = running_process
  OBVIOUS
<1>1. /\ r \in Records /\ running_process' = NULL /\ NULL \notin Records
      /\ Rec(r) \in ProcessRecords
  BY RecordsAreAnInterval DEF QueueInv, TypeOK, StartIo
<1>2. Rec(r).execution_state = "RUNNING"
  BY <1>1 DEF QueueInv, PlacementMatchesState, PlacedByState
<1>3. /\ waiting_queue' \in Seq(Records) /\ IsInjective(waiting_queue')
      /\ ToSet(waiting_queue') = ToSet(waiting_queue) \cup {r}
  <2>1. /\ waiting_queue \in Seq(Records) /\ IsInjective(waiting_queue)
        /\ r \notin ToSet(waiting_queue) /\ waiting_queue' = Append(waiting_queue, r)
    BY <1>1, <1>2 DEF QueueInv, TypeOK, PlacementMatchesState, PlacedByState, StartIo
  <2> QED
    BY <1>1, <2>1, AppendFacts
<1>4. Rec(r).io_duration_ticks \in Nat
  BY <1>1 DEF StartIo, IoDue, ProcessRecords
<1> PICK new : new = [Rec(r) EXCEPT !.remaining_io_ticks = Rec(r).io_duration_ticks,
                                    !.execution_state = "WAITING"]
  OBVIOUS
<1>5. new \in ProcessRecords /\ new.execution_state = "WAITING"
  BY <1>1, <1>4, IoStartedFacts
<1>6. registered_processes' = [registered_processes EXCEPT ![r] = new]
  BY <1>1, UpdateFacts DEF StartIo, Rec, QueueInv, TypeOK, Records
<1>u. /\ registered_processes' \in Seq(ProcessRecords) /\ Records' = Records
      /\ Rec(r)' = new /\ \A s \in Records : s # r => Rec(s)' = Rec(s)
  BY <1>1, <1>5, <1>6, OneRecord
<1>7. ASSUME NEW s \in Records PROVE PlacedByState(s)'
  <2>1. CASE s = r
    BY <2>1, <1>u, <1>1, <1>2, <1>3, <1>5, <1>6
    DEF QueueInv, PlacementMatchesState, PlacedByState, StartIo
  <2>2. CASE s # r
    BY <2>2, <1>u, <1>1, <1>2, <1>3, <1>5, <1>6
    DEF QueueInv, PlacementMatchesState, PlacedByState, StartIo
  <2> QED
    BY <2>1, <2>2
<1>8. PlacementMatchesState'
  BY <1>1, <1>3, <1>5, <1>6, <1>7, <1>u DEF QueueInv, PlacementMatchesState, StartIo
<1>9. TypeOK'
  BY <1>1, <1>3, <1>5, <1>6, <1>u DEF QueueInv, TypeOK, StartIo, Phases
<1> QED
  BY <1>8, <1>9 DEF QueueInv, CounterMatchesQueue, ExitMatchesCounter, StartIo

\* Completion moves the running process to the finished queue.
LEMMA FinishQueues == ASSUME QueueInv, Finish PROVE QueueInv'
<1> PICK r : r = running_process
  OBVIOUS
<1>1. /\ r \in Records /\ running_process' = NULL /\ NULL \notin Records
      /\ Rec(r) \in ProcessRecords /\ time_tick + 1 \in Int
  BY RecordsAreAnInterval DEF QueueInv, TypeOK, Finish
<1>2. Rec(r).execution_state = "RUNNING"
  BY <1>1 DEF QueueInv, PlacementMatchesState, PlacedByState
<1>3. /\ finished_queue' \in Seq(Records) /\ IsInjective(finished_queue')
      /\ ToSet(finished_queue') = ToSet(finished_queue) \cup {r}
      /\ Len(finished_queue') = Len(finished_queue) + 1
  <2>1. /\ finished_queue \in Seq(Records) /\ IsInjective(finished_queue)
        /\ r \notin ToSet(finished_queue) /\ finished_queue' = Append(finished_queue, r)
    BY <1>1, <1>2 DEF QueueInv, TypeOK, PlacementMatchesState, PlacedByState, Finish
  <2> QED
    BY <1>1, <2>1, AppendFacts
<1> PICK new : new = mark_process_terminated(Rec(r), time_tick + 1)
  OBVIOUS
<1>4. new \in ProcessRecords /\ new.execution_state = "TERMINATED"
  BY <1>1, TerminatedFacts
<1>5. registered_processes' = [registered_processes EXCEPT ![r] = new]
  BY <1>1 DEF Finish, Rec, Records
<1>u. /\ registered_processes' \in Seq(ProcessRecords) /\ Records' = Records
      /\ Rec(r)' = new /\ \A s \in Records : s # r => Rec(s)' = Rec(s)
  BY <1>1, <1>4, <1>5, OneRecord
<1>6. ASSUME NEW s \in Records PROVE PlacedByState(s)'
  <2>1. CASE s = r
    BY <2>1, <1>u, <1>1, <1>2, <1>3, <1>4, <1>5
    DEF QueueInv, PlacementMatchesState, PlacedByState, Finish
  <2>2. CASE s # r
    BY <2>2, <1>u, <1>1, <1>2, <1>3, <1>4, <1>5
    DEF QueueInv, PlacementMatchesState, PlacedByState, Finish
  <2> QED
    BY <2>1, <2>2
<1>7. PlacementMatchesState'
  BY <1>1, <1>3, <1>4, <1>5, <1>6, <1>u DEF QueueInv, PlacementMatchesState, Finish
<1>8. TypeOK'
  BY <1>1, <1>3, <1>4, <1>5, <1>u DEF QueueInv, TypeOK, Finish, Phases
<1> QED
  BY <1>3, <1>7, <1>8 DEF QueueInv, CounterMatchesQueue, ExitMatchesCounter, Finish

\* The end of I/O moves a process from the waiting to the ready queue.
LEMMA WakeQueues == ASSUME QueueInv, Wake PROVE QueueInv'
<1> PICK r : r = waiting_queue[cursor]
  OBVIOUS
<1>1. /\ r \in Records /\ r \in ToSet(waiting_queue) /\ Rec(r) \in ProcessRecords
      /\ waiting_queue' \in Seq(Records) /\ IsInjective(waiting_queue')
      /\ ToSet(waiting_queue') = ToSet(waiting_queue) \ {r}
  <2>1. cursor \in DOMAIN waiting_queue
    BY DEF QueueInv, TypeOK, Wake
  <2> QED
    BY <2>1, RemoveAtFacts, RecordsAreAnInterval DEF QueueInv, TypeOK, PlacementMatchesState, Wake
<1>2. Rec(r).execution_state = "WAITING"
  BY <1>1 DEF QueueInv, PlacementMatchesState, PlacedByState
<1>3. /\ ready_queue' \in Seq(Records) /\ IsInjective(ready_queue')
      /\ ToSet(ready_queue') = ToSet(ready_queue) \cup {r}
  <2>1. /\ ready_queue \in Seq(Records) /\ IsInjective(ready_queue)
        /\ r \notin ToSet(ready_queue) /\ ready_queue' = Append(ready_queue, r)
    BY <1>1, <1>2 DEF QueueInv, TypeOK, PlacementMatchesState, PlacedByState, Wake
  <2> QED
    BY <1>1, <2>1, AppendFacts
<1> PICK new : new = [Rec(r) EXCEPT !.execution_state = "READY"]
  OBVIOUS
<1>4. new \in ProcessRecords /\ new.execution_state = "READY"
  BY <1>1, MovedFacts DEF States
<1>5. registered_processes' = [registered_processes EXCEPT ![r] = new]
  BY DEF Wake, Rec
<1>u. /\ registered_processes' \in Seq(ProcessRecords) /\ Records' = Records
      /\ Rec(r)' = new /\ \A s \in Records : s # r => Rec(s)' = Rec(s)
  BY <1>1, <1>4, <1>5, OneRecord
<1>6. ASSUME NEW s \in Records PROVE PlacedByState(s)'
  <2>1. CASE s = r
    BY <2>1, <1>u, <1>1, <1>2, <1>3, <1>4, <1>5
    DEF QueueInv, PlacementMatchesState, PlacedByState, Wake
  <2>2. CASE s # r
    BY <2>2, <1>u, <1>1, <1>2, <1>3, <1>4, <1>5
    DEF QueueInv, PlacementMatchesState, PlacedByState, Wake
  <2> QED
    BY <2>1, <2>2
<1>7. PlacementMatchesState'
  BY <1>1, <1>3, <1>4, <1>5, <1>6, <1>u DEF QueueInv, PlacementMatchesState, Wake
<1>8. TypeOK'
  BY <1>1, <1>3, <1>4, <1>5, <1>u DEF QueueInv, TypeOK, Wake
<1> QED
  BY <1>7, <1>8 DEF QueueInv, CounterMatchesQueue, ExitMatchesCounter, Wake

\* Every step keeps the queues, the states and the counter together.
LEMMA NextQueues == QueueInv /\ [Next]_vars => QueueInv'
<1> SUFFICES ASSUME QueueInv, [Next]_vars PROVE QueueInv'
  OBVIOUS
<1>0. /\ TypeOK /\ ExitMatchesCounter
      /\ event_index + 1 \in Nat \ {0} /\ cursor + 1 \in Nat \ {0} /\ time_tick + 1 \in Nat
      /\ total_process_count \in Nat
  BY RecordsAreAnInterval DEF QueueInv, TypeOK
<1>1. CASE ReadInput
  <2>1. ASSUME NEW l \in ProcessLines, ParseProcessLine(l) PROVE QueueInv'
    BY <2>1, ParseProcessLineQueues
  <2>2. ASSUME NEW k \in KillLines, ReadKillLine(k) PROVE QueueInv'
    BY <1>0, <2>2, IdleQueues DEF ReadKillLine, TypeOK
  <2>3. CASE ReadBlankLine
    BY <1>0, <2>3, IdleQueues DEF ReadBlankLine, TypeOK, Phases
  <2>4. CASE EndOfInput
    BY <1>0, <2>4, IdleQueues
    DEF EndOfInput, TypeOK, Phases, ExitMatchesCounter, total_process_count
  <2> QED
    BY <1>1, <2>1, <2>2, <2>3, <2>4 DEF ReadInput
<1>2. CASE SkipKillEvent
  BY <1>0, <1>2, IdleQueues DEF SkipKillEvent, EventPending, TypeOK
<1>3. CASE NoDispatch
  BY <1>0, <1>3, IdleQueues DEF NoDispatch, TypeOK, Phases
<1>4. CASE KeepRunning
  BY <1>0, <1>4, IdleQueues DEF KeepRunning, TypeOK, Phases
<1>5. CASE PassOver
  BY <1>0, <1>5, IdleQueues DEF PassOver, TypeOK, ExitMatchesCounter
<1>6. CASE EndTick
  <2>1. phase' \in {"report", "done"} => ExitMatchesCounter'
    BY <1>0, <1>6 DEF EndTick, TypeOK, ExitMatchesCounter, total_process_count
  <2> QED
    BY <1>0, <1>6, <2>1, IdleQueues DEF EndTick, TypeOK, Phases
<1>7. CASE print_result_table
  BY <1>0, <1>7, IdleQueues
  DEF print_result_table, TypeOK, Phases, ExitMatchesCounter, total_process_count
<1>8. CASE UNCHANGED vars
  BY <1>0, <1>8, IdleQueues DEF vars, TypeOK, ExitMatchesCounter, total_process_count
<1> QED
  BY <1>1, <1>2, <1>3, <1>4, <1>5, <1>6, <1>7, <1>8, KillRunningQueues, KillReadyQueues,
     KillWaitingQueues, DispatchQueues, ExecuteQueues, StartIoQueues, FinishQueues, WakeQueues
  DEF Next, execute_scheduler, apply_pending_kill_events

\* The type invariant, the queues against the states, and the counter against
\* the finished queue hold in every reachable state.
THEOREM QueuesAlwaysConsistent == Spec => []QueueInv
<1>1. Init => QueueInv
  BY InitQueueInv
<1>2. QueueInv /\ [Next]_vars => QueueInv'
  BY NextQueues
<1> QED
  BY <1>1, <1>2, PTL DEF Spec

\* Type correctness.
THEOREM TypeCorrect == Spec => []TypeOK
  BY QueuesAlwaysConsistent, PTL DEF QueueInv

\* A process is always in exactly the queue its execution_state names.
THEOREM PlacementCorrect == Spec => []PlacementMatchesState
  BY QueuesAlwaysConsistent, PTL DEF QueueInv

\* Where the loop has been left, every process has terminated: the counter is
\* the length of a queue of distinct processes.
LEMMA AllTerminatedAtExit ==
  ASSUME QueueInv, phase \in {"report", "done"}, NEW r \in Records
  PROVE  Rec(r).execution_state = "TERMINATED"
<1>1. /\ Records = 1 .. total_process_count /\ total_process_count \in Nat
      /\ finished_queue \in Seq(1 .. total_process_count) /\ IsInjective(finished_queue)
      /\ Len(finished_queue) >= total_process_count
  BY RecordsAreAnInterval
  DEF QueueInv, TypeOK, PlacementMatchesState, CounterMatchesQueue, ExitMatchesCounter
<1>2. ToSet(finished_queue) = Records
  BY <1>1, FullQueue
<1> QED
  BY <1>2 DEF QueueInv, PlacementMatchesState, PlacedByState

\* The loop leaves, and the table is printed, only when every process has
\* terminated.
THEOREM ExitCorrect == Spec => []LeavesOnlyWhenAllTerminated
<1>1. QueueInv => LeavesOnlyWhenAllTerminated
  BY AllTerminatedAtExit DEF LeavesOnlyWhenAllTerminated
<1> QED
  BY <1>1, QueuesAlwaysConsistent, PTL

\* Records, queues and counter agree from the first line read to the table.
THEOREM QueuesCorrect == Spec => []QueuesConsistent
<1>1. TypeOK /\ PlacementMatchesState /\ LeavesOnlyWhenAllTerminated => QueuesConsistent
  BY DEF QueuesConsistent
<1> QED
  BY <1>1, TypeCorrect, PlacementCorrect, ExitCorrect, PTL

-----------------------------------------------------------------------------
(* What a step does to the records.                                        *)

\* A step changes the execution state of at most one process, along one edge
\* of the life of a process.
Edge(r, from, to) ==
  /\ r \in Records /\ Records' = Records
  /\ Rec(r).execution_state = from /\ Rec(r)'.execution_state = to
  /\ \A s \in Records : s # r => Rec(s)' = Rec(s)

\* Terminating a record is an edge of its life.
LEMMA KillEdge ==
  ASSUME QueueInv, EventPending, EventDue, NEW r \in Records, KillRecord(r),
         Rec(r).execution_state # "TERMINATED"
  PROVE  /\ Edge(r, Rec(r).execution_state, "TERMINATED")
         /\ Rec(r)'.terminated_by_kill = TRUE
<1>1. Edge(r, Rec(r).execution_state, "TERMINATED")
  BY KillRecordQueues DEF Edge
<1>2. Rec(r)' = KilledAt(Rec(r), time_tick)
  BY KillRecordType DEF QueueInv, Rec
<1>3. Rec(r) \in ProcessRecords /\ time_tick \in Int
  BY RecordsAreAnInterval DEF QueueInv, TypeOK
<1> QED
  BY <1>1, <1>2, <1>3, KilledFacts

\* Every kill takes a live process to its end.
LEMMA KillEdges ==
  ASSUME QueueInv, kill_running_process \/ KillReady \/ KillWaiting
  PROVE  \E r \in Records, from \in {"READY", "RUNNING", "WAITING"} :
           Edge(r, from, "TERMINATED") /\ Rec(r)'.terminated_by_kill = TRUE
<1>1. CASE kill_running_process
  <2>1. /\ running_process \in Records /\ KillRecord(running_process)
        /\ Rec(running_process).execution_state = "RUNNING"
    BY <1>1, RecordsAreAnInterval
    DEF QueueInv, TypeOK, PlacementMatchesState, PlacedByState, kill_running_process, HitsRunning
  <2> QED
    BY <1>1, <2>1, KillEdge DEF kill_running_process
<1>2. CASE KillReady
  <2>1. PICK i \in DOMAIN ready_queue : KillRecord(ready_queue[i])
    BY <1>2 DEF KillReady
  <2>2. ready_queue[i] \in Records /\ Rec(ready_queue[i]).execution_state = "READY"
    BY <2>1 DEF QueueInv, TypeOK, PlacementMatchesState, PlacedByState, ToSet
  <2> QED
    BY <1>2, <2>1, <2>2, KillEdge DEF KillReady
<1>3. CASE KillWaiting
  <2>1. PICK i \in DOMAIN waiting_queue : KillRecord(waiting_queue[i])
    BY <1>3 DEF KillWaiting
  <2>2. waiting_queue[i] \in Records /\ Rec(waiting_queue[i]).execution_state = "WAITING"
    BY <2>1 DEF QueueInv, TypeOK, PlacementMatchesState, PlacedByState, ToSet
  <2> QED
    BY <1>3, <2>1, <2>2, KillEdge DEF KillWaiting
<1> QED
  BY <1>1, <1>2, <1>3

\* The record that an edge rewrites keeps its mark of how it ended.
LEMMA OneRecordEdge ==
  ASSUME QueueInv, NEW r \in Records, NEW new \in ProcessRecords,
         registered_processes' = [registered_processes EXCEPT ![r] = new],
         new.terminated_by_kill = Rec(r).terminated_by_kill
  PROVE  /\ Edge(r, Rec(r).execution_state, new.execution_state)
         /\ Rec(r)'.terminated_by_kill = Rec(r).terminated_by_kill
  BY OneRecord DEF Edge

\* Dispatch is an edge of one life.
LEMMA DispatchEdge ==
  ASSUME QueueInv, Dispatch
  PROVE  \E r \in Records :
           /\ Edge(r, "READY", "RUNNING") /\ running_process = NULL
           /\ Rec(r)'.terminated_by_kill = Rec(r).terminated_by_kill
<1> PICK r : r = Head(ready_queue)
  OBVIOUS
<1> PICK new : new = [Rec(r) EXCEPT !.execution_state = "RUNNING"]
  OBVIOUS
<1>1. r \in Records /\ r \in ToSet(ready_queue) /\ Rec(r) \in ProcessRecords
  BY TailFacts, RecordsAreAnInterval DEF QueueInv, TypeOK, PlacementMatchesState, Dispatch
<1>2. Rec(r).execution_state = "READY"
  BY <1>1 DEF QueueInv, PlacementMatchesState, PlacedByState
<1>3. /\ new \in ProcessRecords /\ new.execution_state = "RUNNING"
      /\ new.terminated_by_kill = Rec(r).terminated_by_kill
  BY <1>1, MovedFacts DEF States
<1>4. registered_processes' = [registered_processes EXCEPT ![r] = new] /\ running_process = NULL
  BY DEF Dispatch, Rec
<1> QED
  BY <1>1, <1>2, <1>3, <1>4, OneRecordEdge

\* The start of I/O is an edge of one life.
LEMMA StartIoEdge ==
  ASSUME QueueInv, StartIo
  PROVE  \E r \in Records :
           /\ Edge(r, "RUNNING", "WAITING")
           /\ Rec(r)'.terminated_by_kill = Rec(r).terminated_by_kill
<1> PICK r : r = running_process
  OBVIOUS
<1> PICK new : new = [Rec(r) EXCEPT !.remaining_io_ticks = Rec(r).io_duration_ticks,
                                    !.execution_state = "WAITING"]
  OBVIOUS
<1>1. r \in Records /\ Rec(r) \in ProcessRecords
  BY RecordsAreAnInterval DEF QueueInv, TypeOK, StartIo
<1>2. Rec(r).execution_state = "RUNNING"
  BY <1>1 DEF QueueInv, PlacementMatchesState, PlacedByState
<1>3. Rec(r).io_duration_ticks \in Nat
  BY <1>1 DEF StartIo, IoDue, ProcessRecords
<1>4. /\ new \in ProcessRecords /\ new.execution_state = "WAITING"
      /\ new.terminated_by_kill = Rec(r).terminated_by_kill
  BY <1>1, <1>3, IoStartedFacts
<1>5. registered_processes' = [registered_processes EXCEPT ![r] = new]
  BY <1>1, UpdateFacts DEF StartIo, Rec, QueueInv, TypeOK, Records
<1> QED
  BY <1>1, <1>2, <1>4, <1>5, OneRecordEdge

\* Completion is an edge of one life.
LEMMA FinishEdge ==
  ASSUME QueueInv, Finish
  PROVE  \E r \in Records :
           /\ Edge(r, "RUNNING", "TERMINATED")
           /\ Rec(r)'.terminated_by_kill = Rec(r).terminated_by_kill
<1> PICK r : r = running_process
  OBVIOUS
<1> PICK new : new = mark_process_terminated(Rec(r), time_tick + 1)
  OBVIOUS
<1>1. r \in Records /\ Rec(r) \in ProcessRecords /\ time_tick + 1 \in Int
  BY RecordsAreAnInterval DEF QueueInv, TypeOK, Finish
<1>2. Rec(r).execution_state = "RUNNING"
  BY <1>1 DEF QueueInv, PlacementMatchesState, PlacedByState
<1>3. /\ new \in ProcessRecords /\ new.execution_state = "TERMINATED"
      /\ new.terminated_by_kill = Rec(r).terminated_by_kill
  BY <1>1, TerminatedFacts
<1>4. registered_processes' = [registered_processes EXCEPT ![r] = new]
  BY <1>1 DEF Finish, Rec, Records
<1> QED
  BY <1>1, <1>2, <1>3, <1>4, OneRecordEdge

\* The end of I/O is an edge of one life.
LEMMA WakeEdge ==
  ASSUME QueueInv, Wake
  PROVE  \E r \in Records :
           /\ Edge(r, "WAITING", "READY")
           /\ Rec(r)'.terminated_by_kill = Rec(r).terminated_by_kill
<1> PICK r : r = waiting_queue[cursor]
  OBVIOUS
<1> PICK new : new = [Rec(r) EXCEPT !.execution_state = "READY"]
  OBVIOUS
<1>1. r \in Records /\ r \in ToSet(waiting_queue) /\ Rec(r) \in ProcessRecords
  BY RecordsAreAnInterval DEF QueueInv, TypeOK, Wake, ToSet
<1>2. Rec(r).execution_state = "WAITING"
  BY <1>1 DEF QueueInv, PlacementMatchesState, PlacedByState
<1>3. /\ new \in ProcessRecords /\ new.execution_state = "READY"
      /\ new.terminated_by_kill = Rec(r).terminated_by_kill
  BY <1>1, MovedFacts DEF States
<1>4. registered_processes' = [registered_processes EXCEPT ![r] = new]
  BY DEF Wake, Rec
<1> QED
  BY <1>1, <1>2, <1>3, <1>4, OneRecordEdge

\* Steps along no edge.
SameLives ==
  /\ Records' = Records
  /\ \A s \in Records : /\ Rec(s)'.execution_state = Rec(s).execution_state
                         /\ Rec(s)'.terminated_by_kill = Rec(s).terminated_by_kill
  /\ \A s \in Records : Rec(s).execution_state = "TERMINATED" => Rec(s)' = Rec(s)

\* A tick of CPU and I/O moves no process along its life.
LEMMA ExecuteLives == ASSUME QueueInv, Execute PROVE SameLives
<1>1. ASSUME NEW s \in Records, Rec(s).execution_state = "TERMINATED"
      PROVE  s # running_process /\ s \notin ToSet(waiting_queue)
  BY <1>1 DEF QueueInv, PlacementMatchesState, PlacedByState
<1>2. \A s \in Records : /\ Rec(s)'.execution_state = Rec(s).execution_state
                         /\ Rec(s)'.terminated_by_kill = Rec(s).terminated_by_kill
  BY ExecuteRecords, ExecutedFacts, DecrementedFacts, RecordsAreAnInterval DEF QueueInv
<1> QED
  BY <1>1, <1>2, ExecuteRecords DEF SameLives

\* The steps of the simulator, as edges.
Killing(r) ==
  /\ \E from \in {"READY", "RUNNING", "WAITING"} : Edge(r, from, "TERMINATED")
  /\ Rec(r)'.terminated_by_kill = TRUE
Moving(r) ==
  /\ \/ Edge(r, "READY", "RUNNING") /\ running_process = NULL
     \/ Edge(r, "RUNNING", "WAITING")
     \/ Edge(r, "WAITING", "READY")
     \/ Edge(r, "RUNNING", "TERMINATED")
  /\ Rec(r)'.terminated_by_kill = Rec(r).terminated_by_kill

\* Every step after the input moves one process along one edge, or none.
LEMMA StepsAreEdges ==
  ASSUME QueueInv, [Next]_vars
  PROVE  \/ \E l \in ProcessLines : ParseProcessLine(l)
         \/ \E r \in Records : Killing(r) \/ Moving(r)
         \/ SameLives
<1>1. CASE \/ kill_running_process \/ KillReady \/ KillWaiting
  BY <1>1, KillEdges DEF Killing
<1>2. CASE Dispatch \/ StartIo \/ Finish \/ Wake
  BY <1>2, DispatchEdge, StartIoEdge, FinishEdge, WakeEdge DEF Moving
<1>3. CASE Execute
  BY <1>3, ExecuteLives
<1>4. CASE UNCHANGED registered_processes
  BY <1>4 DEF SameLives, Records, Rec
<1> QED
  BY <1>1, <1>2, <1>3, <1>4
  DEF Next, ReadInput, execute_scheduler, apply_pending_kill_events, ReadKillLine,
      ReadBlankLine, EndOfInput, SkipKillEvent, NoDispatch, KeepRunning, PassOver, EndTick,
      print_result_table, vars

\* A record that has terminated is never touched again.
LEMMA TerminatedStays ==
  ASSUME QueueInv, [Next]_vars, NEW r \in Records, Rec(r).execution_state = "TERMINATED"
  PROVE  registered_processes'[r] = registered_processes[r]
<1>1. CASE \E l \in ProcessLines : ParseProcessLine(l)
  BY <1>1 DEF ParseProcessLine, QueueInv, TypeOK, Records
<1>2. CASE \E s \in Records : Killing(s) \/ Moving(s)
  BY <1>2 DEF Killing, Moving, Edge, Rec
<1>3. CASE SameLives
  <2>1. Rec(r)' = Rec(r)
    BY <1>3 DEF SameLives
  <2> QED
    BY <2>1 DEF Rec
<1> QED
  BY <1>1, <1>2, <1>3, StepsAreEdges

\* The outcome of a process is final.
THEOREM OutcomesAreFinal == Spec => OutcomeIsFinal
<1>1. QueueInv /\ [Next]_vars =>
        [\A r \in Records : Rec(r).execution_state = "TERMINATED" =>
             registered_processes'[r] = registered_processes[r]]_vars
  BY TerminatedStays
<1> QED
  BY <1>1, QueuesAlwaysConsistent, PTL DEF Spec, OutcomeIsFinal

-----------------------------------------------------------------------------
(* The refinement.                                                         *)

StatusOf == [r \in Records |-> Rec(r).execution_state]
KilledOf == { r \in Records : Rec(r).terminated_by_kill }

\* An edge is a move of the abstract process.
LEMMA EdgeIsMove ==
  ASSUME NEW r, NEW from, NEW to, Edge(r, from, to)
  PROVE  /\ r \in DOMAIN StatusOf /\ StatusOf[r] = from
         /\ StatusOf' = [StatusOf EXCEPT ![r] = to]
  BY DEF Edge, StatusOf

\* Reading a process line is an arrival of the abstract process.
LEMMA ArrivalRefines ==
  ASSUME QueueInv, NEW l \in ProcessLines, ParseProcessLine(l)
  PROVE  StatusOf' = Append(StatusOf, "READY") /\ KilledOf' = KilledOf
<1> PICK n : n = total_process_count
  OBVIOUS
<1>1. /\ n \in Nat /\ Records = 1 .. n /\ n = Len(registered_processes)
      /\ registered_processes \in Seq(ProcessRecords)
      /\ registered_processes' = Append(registered_processes, create_process_record(l))
  BY RecordsAreAnInterval DEF QueueInv, TypeOK, ParseProcessLine, total_process_count
<1>2. /\ Records' = 1 .. n + 1
      /\ \A r \in 1 .. n : registered_processes'[r] = registered_processes[r]
      /\ registered_processes'[n + 1] = create_process_record(l)
  BY <1>1 DEF Records
<1>3. /\ create_process_record(l).execution_state = "READY"
      /\ create_process_record(l).terminated_by_kill = FALSE
  BY DEF create_process_record
<1>4. StatusOf = [r \in 1 .. n |-> registered_processes[r].execution_state] /\ Len(StatusOf) = n
  BY <1>1 DEF StatusOf, Rec
<1>5. StatusOf' = [r \in 1 .. n + 1 |-> registered_processes'[r].execution_state]
  BY <1>2 DEF StatusOf, Rec
<1>6. Append(StatusOf, "READY") = [r \in 1 .. n + 1 |-> IF r = n + 1 THEN "READY" ELSE StatusOf[r]]
  <2>1. \A r \in 1 .. n : registered_processes[r].execution_state \in States
    <3>1. \A r \in 1 .. n : registered_processes[r] \in ProcessRecords
      BY <1>1
    <3> QED
      BY <3>1 DEF ProcessRecords
  <2>2. StatusOf \in Seq(States)
    BY <1>1, <1>4, <2>1
  <2>3. /\ Append(StatusOf, "READY") \in Seq(States)
        /\ Len(Append(StatusOf, "READY")) = n + 1
        /\ \A r \in 1 .. n : Append(StatusOf, "READY")[r] = StatusOf[r]
        /\ Append(StatusOf, "READY")[n + 1] = "READY"
    BY <1>1, <1>4, <2>2 DEF States
  <2> PICK a : a = Append(StatusOf, "READY")
    OBVIOUS
  <2>4. a = [r \in 1 .. n + 1 |-> a[r]]
    <3>1. a \in Seq(States) /\ Len(a) = n + 1
      BY <2>3
    <3>2. a \in [1 .. n + 1 -> States]
      BY <3>1, LenProperties
    <3> QED
      BY <3>2
  <2>5. \A r \in 1 .. n + 1 : a[r] = IF r = n + 1 THEN "READY" ELSE StatusOf[r]
    BY <1>1, <2>3
  <2> QED
    BY <2>4, <2>5
<1>7. StatusOf' = Append(StatusOf, "READY")
  BY <1>1, <1>2, <1>3, <1>4, <1>5, <1>6
<1>8. KilledOf' = KilledOf
  BY <1>1, <1>2, <1>3 DEF KilledOf, Rec
<1> QED
  BY <1>7, <1>8

\* A step that is no arrival is a step of the abstract process or a stutter.
LEMMA EdgeRefines ==
  ASSUME NEW r \in Records, Killing(r) \/ Moving(r), QueueInv
  PROVE  \/ Lifecycle!Dispatch(r) \/ Lifecycle!Block(r) \/ Lifecycle!Unblock(r)
         \/ Lifecycle!Exit(r) \/ Lifecycle!Kill(r)
<1>1. ASSUME NEW from, NEW to, Edge(r, from, to) PROVE Lifecycle!Moves(r, from, to)
  BY <1>1, EdgeIsMove DEF Lifecycle!Moves, StatusOf
<1>2. CASE Killing(r)
  <2>1. KilledOf' = KilledOf \cup {r}
    BY <1>2 DEF Killing, Edge, KilledOf
  <2> QED
    BY <1>1, <1>2, <2>1 DEF Killing, KilledOf, Lifecycle!Kill
<1>3. CASE Moving(r)
  <2>1. KilledOf' = KilledOf
    BY <1>3 DEF Moving, Edge, KilledOf
  <2>2. ASSUME running_process = NULL PROVE Lifecycle!CpuIsFree
    BY <2>2, RecordsAreAnInterval
    DEF Lifecycle!CpuIsFree, QueueInv, PlacementMatchesState, PlacedByState
  <2> QED
    BY <1>1, <1>3, <2>1, <2>2
    DEF Moving, KilledOf, Lifecycle!Dispatch, Lifecycle!Block, Lifecycle!Unblock, Lifecycle!Exit
<1> QED
  BY <1>2, <1>3

\* The simulator implements the life of a process on one CPU.
THEOREM RefinementCorrect == Spec => RefinesLifecycle
<1>1. Init => Lifecycle!Init
  BY DEF Init, Lifecycle!Init, Records
<1>2. QueueInv /\ [Next]_vars => [Lifecycle!Next]_<<StatusOf, KilledOf>>
  <2> SUFFICES ASSUME QueueInv, [Next]_vars
               PROVE  Lifecycle!Next \/ UNCHANGED <<StatusOf, KilledOf>>
    OBVIOUS
  <2>1. ASSUME NEW l \in ProcessLines, ParseProcessLine(l) PROVE Lifecycle!Arrive
    BY <2>1, ArrivalRefines DEF Lifecycle!Arrive, StatusOf, KilledOf
  <2>2. ASSUME NEW r \in Records, Killing(r) \/ Moving(r) PROVE Lifecycle!Next
    <3>1. r \in DOMAIN StatusOf
      BY DEF StatusOf
    <3> QED
      BY <2>2, <3>1, EdgeRefines DEF Lifecycle!Next, StatusOf
  <2>3. ASSUME SameLives PROVE UNCHANGED <<StatusOf, KilledOf>>
    BY <2>3 DEF SameLives, StatusOf, KilledOf
  <2> QED
    BY <2>1, <2>2, <2>3, StepsAreEdges DEF Lifecycle!Next
<1> QED
  BY <1>1, <1>2, QueuesAlwaysConsistent, PTL
  DEF Spec, RefinesLifecycle, Lifecycle!Spec, StatusOf, KilledOf

-----------------------------------------------------------------------------
(* Work and time.                                                          *)

\* What a turnaround must cover, for one terminated record.
Covered(r) ==
  /\ Rec(r).executed_cpu_time = Rec(r).total_cpu_burst
  /\ Rec(r).total_cpu_burst > 0
  /\ Rec(r).completion_tick >=
       Rec(r).total_cpu_burst + (IF DoesIo(Rec(r)) THEN Rec(r).io_duration_ticks ELSE 0)
  /\ Rec(r).completion_tick <= Now

\* The bookkeeping of one record: its burst is split into what is executed and
\* what remains, I/O is pending exactly while it waits, and its progress fits
\* into the time that has passed.
Work(r) ==
  /\ Rec(r).executed_cpu_time + Rec(r).remaining_cpu_burst = Rec(r).total_cpu_burst
  /\ Rec(r).execution_state \in {"READY", "RUNNING"} => Rec(r).remaining_io_ticks = 0
  /\ Rec(r).execution_state = "WAITING" =>
       /\ DoesIo(Rec(r)) /\ Rec(r).executed_cpu_time = Rec(r).io_start_tick
       /\ Rec(r).remaining_io_ticks <= Rec(r).io_duration_ticks
  /\ phase = "settle" /\ r = running_process => Rec(r).executed_cpu_time >= 1
  /\ Rec(r).execution_state # "TERMINATED" => Rec(r).executed_cpu_time + IoBehind(r) <= Now
  /\ Rec(r).execution_state = "TERMINATED" /\ ~Rec(r).terminated_by_kill => Covered(r)

WorkInv == QueueInv /\ \A r \in Records : Work(r)

Settling(r) == phase = "settle" /\ r = running_process

\* The clock of the accounting is a natural number.
LEMMA NowFacts ==
  ASSUME TypeOK, [Next]_vars
  PROVE  Now \in Int /\ Now' \in Int /\ Now' >= Now
  BY DEF Now, TypeOK, Next, ReadInput, execute_scheduler, apply_pending_kill_events,
         ParseProcessLine, ReadKillLine, ReadBlankLine, EndOfInput, EventPending, SkipKillEvent,
         kill_running_process, KillReady, KillWaiting, KillsApplied, Dispatch, NoDispatch,
         Execute, StartIo, Finish, KeepRunning, Wake, PassOver, EndTick, print_result_table, vars

\* A record that a step leaves alone, outside the settlement of its tick.
LEMMA UntouchedWork ==
  ASSUME WorkInv, [Next]_vars, NEW r \in Records, Rec(r)' = Rec(r),
         ~Settling(r), ~Settling(r)'
  PROVE  Work(r)'
<1>1. Now \in Int /\ Now' \in Int /\ Now' >= Now
  BY NowFacts DEF WorkInv, QueueInv
<1>2. Rec(r) \in ProcessRecords
  BY RecordsAreAnInterval DEF WorkInv, QueueInv
<1>3. IoBehind(r)' = IoBehind(r) /\ IoBehind(r) \in Int
  BY <1>2 DEF IoBehind, IoStarted, Settling, ProcessRecords
<1>4. Covered(r) => Covered(r)'
  <2> PICK rec : rec = Rec(r)
    OBVIOUS
  <2>1. rec.completion_tick \in Int
    BY <1>2 DEF ProcessRecords
  <2> QED
    BY <2>1, <1>1 DEF Covered
<1>5. Rec(r).executed_cpu_time \in Int
  BY <1>2 DEF ProcessRecords
<1> QED
  BY <1>1, <1>3, <1>4, <1>5 DEF WorkInv, Work, Settling

\* A new process has done no work.
LEMMA ParseProcessLineWork ==
  ASSUME WorkInv, NEW l \in ProcessLines, ParseProcessLine(l), NEW s \in Records'
  PROVE  Work(s)'
<1>0. PICK n : n = total_process_count + 1
  OBVIOUS
<1>1. [Next]_vars
  BY DEF Next, ReadInput
<1>2. /\ registered_processes \in Seq(ProcessRecords) /\ n = Len(registered_processes) + 1
      /\ registered_processes' = Append(registered_processes, create_process_record(l))
      /\ phase = "input" /\ phase' = "input" /\ time_tick \in Nat /\ time_tick' = time_tick
  BY <1>0 DEF WorkInv, QueueInv, TypeOK, total_process_count, ParseProcessLine
<1>3. CASE s \in Records
  <2>1. Rec(s)' = Rec(s)
    BY <1>2, <1>3 DEF Rec, Records
  <2> QED
    BY <1>1, <1>2, <1>3, <2>1, UntouchedWork DEF Settling
<1>4. CASE s \notin Records
  <2>1. Rec(s)' = create_process_record(l)
    BY <1>2, <1>4 DEF Rec, Records
  <2>2. l.burst \in Int /\ l.io_start \in Int /\ l.io_duration \in Int
    BY LinesAssumption DEF IntValues
  <2>3. /\ Rec(s)'.executed_cpu_time = 0 /\ Rec(s)'.remaining_cpu_burst = l.burst
        /\ Rec(s)'.total_cpu_burst = l.burst /\ Rec(s)'.execution_state = "READY"
        /\ Rec(s)'.remaining_io_ticks = 0 /\ Rec(s)'.io_start_tick = l.io_start
    BY <2>1 DEF create_process_record
  <2>4. IoBehind(s)' = 0
    BY <2>2, <2>3 DEF IoBehind, IoStarted, DoesIo
  <2> QED
    BY <1>2, <2>2, <2>3, <2>4 DEF Work, Now
<1> QED
  BY <1>3, <1>4

\* A record that is killed keeps its account.
LEMMA KillWork ==
  ASSUME WorkInv, NEW r \in Records, KillRecord(r), EventPending, phase' = phase, [Next]_vars,
         Rec(r).execution_state # "TERMINATED", NEW s \in Records
  PROVE  Work(s)'
<1>1. /\ QueueInv /\ TypeOK /\ Rec(r) \in ProcessRecords /\ time_tick \in Int
      /\ phase = "kills" /\ phase' = "kills"
  BY RecordsAreAnInterval DEF WorkInv, QueueInv, TypeOK, EventPending
<1>2. CASE s = r
  <2>1. Rec(r)' = KilledAt(Rec(r), time_tick)
    BY <1>1, KillRecordType DEF Rec
  <2>2. /\ Rec(r)'.execution_state = "TERMINATED"
        /\ Rec(r)'.total_cpu_burst = Rec(r).total_cpu_burst
        /\ Rec(r)'.remaining_cpu_burst = Rec(r).remaining_cpu_burst
        /\ Rec(r)'.executed_cpu_time = Rec(r).executed_cpu_time
        /\ Rec(r)'.terminated_by_kill = TRUE
    <3> PICK new : new = KilledAt(Rec(r), time_tick)
      OBVIOUS
    <3>1. /\ new.execution_state = "TERMINATED"
          /\ new.total_cpu_burst = Rec(r).total_cpu_burst
          /\ new.remaining_cpu_burst = Rec(r).remaining_cpu_burst
          /\ new.executed_cpu_time = Rec(r).executed_cpu_time
          /\ new.terminated_by_kill = TRUE
      BY <1>1, KilledFacts
    <3> QED
      BY <2>1, <3>1
  <2>3. Work(r)
    BY DEF WorkInv
  <2> QED
    BY <1>1, <1>2, <2>2, <2>3 DEF Work
<1>3. CASE s # r
  <2>1. Rec(s)' = Rec(s)
    BY <1>1, <1>3, KillRecordQueues
  <2> QED
    BY <1>1, <2>1, UntouchedWork DEF Settling
<1> QED
  BY <1>2, <1>3

\* Each of the kills keeps the account.
LEMMA KillsWork ==
  ASSUME WorkInv, kill_running_process \/ KillReady \/ KillWaiting, [Next]_vars, NEW s \in Records
  PROVE  Work(s)'
<1>1. CASE kill_running_process
  <2>1. /\ running_process \in Records /\ KillRecord(running_process)
        /\ Rec(running_process).execution_state = "RUNNING"
    BY <1>1, RecordsAreAnInterval
    DEF WorkInv, QueueInv, TypeOK, PlacementMatchesState, PlacedByState, kill_running_process,
        HitsRunning
  <2> QED
    BY <1>1, <2>1, KillWork DEF kill_running_process
<1>2. CASE KillReady
  <2>1. PICK i \in DOMAIN ready_queue : KillRecord(ready_queue[i])
    BY <1>2 DEF KillReady
  <2>2. ready_queue[i] \in Records /\ Rec(ready_queue[i]).execution_state = "READY"
    BY <2>1 DEF WorkInv, QueueInv, TypeOK, PlacementMatchesState, PlacedByState, ToSet
  <2> QED
    BY <1>2, <2>1, <2>2, KillWork DEF KillReady
<1>3. CASE KillWaiting
  <2>1. PICK i \in DOMAIN waiting_queue : KillRecord(waiting_queue[i])
    BY <1>3 DEF KillWaiting
  <2>2. waiting_queue[i] \in Records /\ Rec(waiting_queue[i]).execution_state = "WAITING"
    BY <2>1 DEF WorkInv, QueueInv, TypeOK, PlacementMatchesState, PlacedByState, ToSet
  <2> QED
    BY <1>3, <2>1, <2>2, KillWork DEF KillWaiting
<1> QED
  BY <1>1, <1>2, <1>3

\* Dispatch changes no work that was done.
LEMMA DispatchWork ==
  ASSUME WorkInv, Dispatch, [Next]_vars, NEW s \in Records
  PROVE  Work(s)'
<1> PICK r : r = Head(ready_queue)
  OBVIOUS
<1> PICK new : new = [Rec(r) EXCEPT !.execution_state = "RUNNING"]
  OBVIOUS
<1>1. /\ QueueInv /\ r \in Records /\ r \in ToSet(ready_queue) /\ Rec(r) \in ProcessRecords
      /\ phase = "kills" /\ phase' = "execute" /\ time_tick' = time_tick /\ time_tick \in Nat
  BY TailFacts, RecordsAreAnInterval
  DEF WorkInv, QueueInv, TypeOK, PlacementMatchesState, Dispatch, KillsApplied
<1>2. Rec(r).execution_state = "READY"
  BY <1>1 DEF QueueInv, PlacementMatchesState, PlacedByState
<1>3. /\ new \in ProcessRecords /\ new.execution_state = "RUNNING"
      /\ new.total_cpu_burst = Rec(r).total_cpu_burst
      /\ new.remaining_cpu_burst = Rec(r).remaining_cpu_burst
      /\ new.io_start_tick = Rec(r).io_start_tick
      /\ new.io_duration_ticks = Rec(r).io_duration_ticks
      /\ new.executed_cpu_time = Rec(r).executed_cpu_time
      /\ new.remaining_io_ticks = Rec(r).remaining_io_ticks
  BY <1>1, MovedFacts DEF States
<1>4. registered_processes' = [registered_processes EXCEPT ![r] = new]
  BY DEF Dispatch, Rec
<1>5. Rec(r)' = new /\ \A t \in Records : t # r => Rec(t)' = Rec(t)
  BY <1>1, <1>3, <1>4, OneRecord
<1>6. CASE s = r
  <2>1. IoBehind(r)' = IoBehind(r) /\ Now' = Now
    BY <1>1, <1>3, <1>5 DEF IoBehind, IoStarted, DoesIo, Now
  <2>2. Work(r)
    BY <1>1 DEF WorkInv
  <2>3. /\ Rec(r)'.execution_state = "RUNNING"
        /\ Rec(r)'.total_cpu_burst = Rec(r).total_cpu_burst
        /\ Rec(r)'.remaining_cpu_burst = Rec(r).remaining_cpu_burst
        /\ Rec(r)'.executed_cpu_time = Rec(r).executed_cpu_time
        /\ Rec(r)'.remaining_io_ticks = Rec(r).remaining_io_ticks
    BY <1>3, <1>5
  <2> QED
    BY <1>1, <1>2, <1>6, <2>1, <2>2, <2>3 DEF Work
<1>7. CASE s # r
  BY <1>1, <1>5, <1>7, UntouchedWork DEF Settling
<1> QED
  BY <1>6, <1>7

\* A tick adds one to the work of the running and of each waiting process.
LEMMA ExecuteWork ==
  ASSUME WorkInv, Execute, [Next]_vars, NEW s \in Records
  PROVE  Work(s)'
<1>1. /\ QueueInv /\ Rec(s) \in ProcessRecords /\ time_tick \in Nat /\ time_tick' = time_tick
      /\ phase = "execute" /\ phase' = "settle" /\ running_process' = running_process
      /\ Now = time_tick /\ Now' = time_tick + 1
  BY RecordsAreAnInterval DEF WorkInv, QueueInv, TypeOK, Execute, Now
<1>2. Work(s)
  BY DEF WorkInv
<1>3. CASE s = running_process
  <2>1. Rec(s).execution_state = "RUNNING"
    BY <1>1, <1>3 DEF QueueInv, PlacementMatchesState, PlacedByState
  <2>2. Rec(s)' = ExecutedOnce(Rec(s))
    BY <1>1, <1>3, ExecuteRecords
  <2>3. /\ Rec(s)'.total_cpu_burst = Rec(s).total_cpu_burst
        /\ Rec(s)'.remaining_cpu_burst = Rec(s).remaining_cpu_burst - 1
        /\ Rec(s)'.executed_cpu_time = Rec(s).executed_cpu_time + 1
        /\ Rec(s)'.io_start_tick = Rec(s).io_start_tick
        /\ Rec(s)'.io_duration_ticks = Rec(s).io_duration_ticks
        /\ Rec(s)'.remaining_io_ticks = 0 /\ Rec(s).remaining_io_ticks = 0
        /\ Rec(s)'.execution_state = "RUNNING"
    BY <1>1, <1>2, <2>1, <2>2, ExecutedFacts DEF Work
  <2>4. /\ Rec(s).total_cpu_burst \in Int /\ Rec(s).remaining_cpu_burst \in Int
        /\ Rec(s).executed_cpu_time \in Nat /\ Rec(s).io_start_tick \in Int
        /\ Rec(s).io_duration_ticks \in Int
    BY <1>1 DEF ProcessRecords
  <2>5. DoesIo(Rec(s))' <=> DoesIo(Rec(s))
    BY <2>3 DEF DoesIo
  <2>6. IoBehind(s)' = IoBehind(s) /\ IoBehind(s) \in Int
    BY <1>1, <1>3, <2>3, <2>4, <2>5 DEF IoBehind, IoStarted
  <2> QED
    BY <1>1, <1>2, <2>1, <2>3, <2>4, <2>6 DEF Work
<1>4. CASE s # running_process /\ s \in ToSet(waiting_queue)
  <2>1. Rec(s).execution_state = "WAITING"
    BY <1>1, <1>4 DEF QueueInv, PlacementMatchesState, PlacedByState
  <2>2. Rec(s)' = decrement_io_for_process(Rec(s))
    BY <1>1, <1>4, ExecuteRecords
  <2>3. /\ Rec(s)'.total_cpu_burst = Rec(s).total_cpu_burst
        /\ Rec(s)'.remaining_cpu_burst = Rec(s).remaining_cpu_burst
        /\ Rec(s)'.executed_cpu_time = Rec(s).executed_cpu_time
        /\ Rec(s)'.io_start_tick = Rec(s).io_start_tick
        /\ Rec(s)'.io_duration_ticks = Rec(s).io_duration_ticks
        /\ Rec(s)'.remaining_io_ticks \in {Rec(s).remaining_io_ticks, Rec(s).remaining_io_ticks - 1}
        /\ Rec(s)'.execution_state = "WAITING"
    BY <1>1, <2>1, <2>2, DecrementedFacts
  <2>4. /\ Rec(s).remaining_io_ticks \in Int /\ Rec(s).executed_cpu_time \in Nat
        /\ Rec(s).io_start_tick \in Int /\ Rec(s).io_duration_ticks \in Int
    BY <1>1 DEF ProcessRecords
  <2>5. DoesIo(Rec(s))' <=> DoesIo(Rec(s))
    BY <2>3 DEF DoesIo
  <2>6. IoStarted(s) /\ IoStarted(s)'
    BY <1>1, <1>2, <1>4, <2>1, <2>3, <2>5 DEF IoStarted, Work
  <2>7. IoBehind(s)' <= IoBehind(s) + 1 /\ IoBehind(s)' \in Int /\ IoBehind(s) \in Int
    BY <2>3, <2>4, <2>6 DEF IoBehind
  <2> QED
    BY <1>1, <1>2, <1>4, <2>1, <2>3, <2>4, <2>5, <2>7 DEF Work
<1>5. CASE s # running_process /\ s \notin ToSet(waiting_queue)
  BY <1>1, <1>5, ExecuteRecords, UntouchedWork DEF Settling
<1> QED
  BY <1>3, <1>4, <1>5

\* The start of I/O keeps the account of the process that leaves the CPU.
LEMMA StartIoWork ==
  ASSUME WorkInv, StartIo, [Next]_vars, NEW s \in Records
  PROVE  Work(s)'
<1> PICK r : r = running_process
  OBVIOUS
<1> PICK new : new = [Rec(r) EXCEPT !.remaining_io_ticks = Rec(r).io_duration_ticks,
                                    !.execution_state = "WAITING"]
  OBVIOUS
<1>1. /\ QueueInv /\ r \in Records /\ Rec(r) \in ProcessRecords
      /\ phase = "settle" /\ phase' = "wake" /\ time_tick' = time_tick /\ time_tick \in Nat
      /\ Now = time_tick + 1 /\ Now' = time_tick + 1 /\ IoDue(Rec(r))
  BY RecordsAreAnInterval DEF WorkInv, QueueInv, TypeOK, StartIo, Now
<1>2. /\ Work(r) /\ Rec(r).execution_state = "RUNNING"
      /\ Rec(r).io_duration_ticks \in Nat \ {0} /\ Rec(r).executed_cpu_time \in Nat
      /\ Rec(r).io_start_tick \in Int /\ Rec(r).total_cpu_burst \in Int
      /\ Rec(r).remaining_cpu_burst \in Int
  BY <1>1 DEF WorkInv, QueueInv, PlacementMatchesState, PlacedByState, ProcessRecords, IoDue
<1>3. /\ new \in ProcessRecords /\ new.execution_state = "WAITING"
      /\ new.total_cpu_burst = Rec(r).total_cpu_burst
      /\ new.remaining_cpu_burst = Rec(r).remaining_cpu_burst
      /\ new.io_start_tick = Rec(r).io_start_tick
      /\ new.io_duration_ticks = Rec(r).io_duration_ticks
      /\ new.executed_cpu_time = Rec(r).executed_cpu_time
      /\ new.remaining_io_ticks = Rec(r).io_duration_ticks
  <2> PICK rec, io : rec = Rec(r) /\ io = Rec(r).io_duration_ticks
    OBVIOUS
  <2>1. rec \in ProcessRecords /\ io \in Nat
    BY <1>1, <1>2
  <2>2. new = [rec EXCEPT !.remaining_io_ticks = io, !.execution_state = "WAITING"]
    OBVIOUS
  <2> QED
    BY <2>1, <2>2 DEF ProcessRecords, States
<1>4. registered_processes' = [registered_processes EXCEPT ![r] = new]
  BY <1>1, UpdateFacts DEF StartIo, Rec, QueueInv, TypeOK, Records
<1>5. Rec(r)' = new /\ \A t \in Records : t # r => Rec(t)' = Rec(t)
  BY <1>1, <1>3, <1>4, OneRecord
<1>6. CASE s = r
  <2>1. /\ Rec(r)'.execution_state = "WAITING"
        /\ Rec(r)'.total_cpu_burst = Rec(r).total_cpu_burst
        /\ Rec(r)'.remaining_cpu_burst = Rec(r).remaining_cpu_burst
        /\ Rec(r)'.executed_cpu_time = Rec(r).executed_cpu_time
        /\ Rec(r)'.io_start_tick = Rec(r).io_start_tick
        /\ Rec(r)'.io_duration_ticks = Rec(r).io_duration_ticks
        /\ Rec(r)'.remaining_io_ticks = Rec(r).io_duration_ticks
    BY <1>3, <1>5
  <2>2. Rec(r).executed_cpu_time >= 1 /\ Rec(r).executed_cpu_time <= Now
    <3>1. IoBehind(r) = 0
      BY <1>1, <1>2 DEF IoBehind, IoStarted, IoDue
    <3> QED
      BY <1>1, <1>2, <3>1 DEF Work
  <2>3. DoesIo(Rec(r))'
    BY <1>1, <1>2, <2>1, <2>2 DEF DoesIo, IoDue, Work
  <2>4. IoBehind(r)' = 0
    BY <1>2, <2>1 DEF IoBehind
  <2> QED
    BY <1>1, <1>2, <1>6, <2>1, <2>2, <2>3, <2>4 DEF Work, IoDue
<1>7. CASE s # r
  BY <1>1, <1>5, <1>7, UntouchedWork DEF Settling
<1> QED
  BY <1>6, <1>7

\* Completion stamps the tick after the last one worked.
LEMMA FinishWork ==
  ASSUME WorkInv, Finish, [Next]_vars, NEW s \in Records
  PROVE  Work(s)'
<1> PICK r : r = running_process
  OBVIOUS
<1> PICK new : new = mark_process_terminated(Rec(r), time_tick + 1)
  OBVIOUS
<1>1. /\ QueueInv /\ r \in Records /\ Rec(r) \in ProcessRecords
      /\ phase = "settle" /\ phase' = "wake" /\ time_tick' = time_tick /\ time_tick \in Nat
      /\ Now = time_tick + 1 /\ Now' = time_tick + 1 /\ time_tick + 1 \in Int
      /\ Rec(r).remaining_cpu_burst = 0
  BY RecordsAreAnInterval DEF WorkInv, QueueInv, TypeOK, Finish, Now
<1>2. /\ Work(r) /\ Rec(r).execution_state = "RUNNING"
      /\ Rec(r).io_duration_ticks \in Int /\ Rec(r).executed_cpu_time \in Nat
      /\ Rec(r).io_start_tick \in Int /\ Rec(r).total_cpu_burst \in Int
  BY <1>1 DEF WorkInv, QueueInv, PlacementMatchesState, PlacedByState, ProcessRecords
<1>3. /\ new \in ProcessRecords
      /\ new.execution_state = "TERMINATED" /\ new.completion_tick = time_tick + 1
      /\ new.total_cpu_burst = Rec(r).total_cpu_burst
      /\ new.remaining_cpu_burst = Rec(r).remaining_cpu_burst
      /\ new.executed_cpu_time = Rec(r).executed_cpu_time
      /\ new.io_start_tick = Rec(r).io_start_tick
      /\ new.io_duration_ticks = Rec(r).io_duration_ticks
  BY <1>1, TerminatedFacts
<1>4. registered_processes' = [registered_processes EXCEPT ![r] = new]
  BY <1>1 DEF Finish, Rec, Records
<1>5. Rec(r)' = new /\ \A t \in Records : t # r => Rec(t)' = Rec(t)
  BY <1>1, <1>3, <1>4, OneRecord
<1>6. CASE s = r
  <2>1. /\ Rec(r).executed_cpu_time = Rec(r).total_cpu_burst /\ Rec(r).executed_cpu_time >= 1
        /\ Rec(r).executed_cpu_time + IoBehind(r) <= Now /\ Rec(r).remaining_io_ticks = 0
    BY <1>1, <1>2 DEF Work
  <2>2. DoesIo(Rec(r)) => IoBehind(r) = Rec(r).io_duration_ticks
    BY <1>1, <1>2, <2>1 DEF DoesIo, IoBehind, IoStarted
  <2>3. ~DoesIo(Rec(r)) => IoBehind(r) = 0
    BY DEF IoBehind, IoStarted
  <2>4. DoesIo(Rec(r))' <=> DoesIo(Rec(r))
    BY <1>3, <1>5 DEF DoesIo
  <2>5. Covered(r)'
    BY <1>1, <1>2, <1>3, <1>5, <2>1, <2>2, <2>3, <2>4 DEF Covered
  <2>6. /\ Rec(r)'.execution_state = "TERMINATED"
        /\ Rec(r)'.executed_cpu_time + Rec(r)'.remaining_cpu_burst = Rec(r)'.total_cpu_burst
    BY <1>2, <1>3, <1>5 DEF Work
  <2> QED
    BY <1>1, <1>6, <2>5, <2>6 DEF Work
<1>7. CASE s # r
  BY <1>1, <1>5, <1>7, UntouchedWork DEF Settling
<1> QED
  BY <1>6, <1>7

\* A process that goes on running keeps its account.
LEMMA KeepRunningWork ==
  ASSUME WorkInv, KeepRunning, [Next]_vars, NEW s \in Records
  PROVE  Work(s)'
<1>1. /\ QueueInv /\ Rec(s) \in ProcessRecords /\ Rec(s)' = Rec(s) /\ Work(s)
      /\ phase = "settle" /\ phase' = "wake" /\ time_tick' = time_tick /\ time_tick \in Nat
      /\ Now = time_tick + 1 /\ Now' = time_tick + 1 /\ running_process' = running_process
  BY RecordsAreAnInterval DEF WorkInv, QueueInv, TypeOK, KeepRunning, Now, Rec
<1>2. CASE s = running_process
  <2>1. /\ Rec(s).execution_state = "RUNNING"
        /\ Rec(s).io_duration_ticks \in Int /\ Rec(s).executed_cpu_time \in Nat
        /\ Rec(s).io_start_tick \in Int /\ Rec(s).total_cpu_burst \in Int
        /\ Rec(s).remaining_cpu_burst \in Int
    BY <1>1, <1>2 DEF QueueInv, PlacementMatchesState, PlacedByState, ProcessRecords
  <2>2. ~IoDue(Rec(s))
    BY <1>1, <1>2, RecordsAreAnInterval DEF KeepRunning, QueueInv
  <2>3. DoesIo(Rec(s)) => Rec(s).executed_cpu_time # Rec(s).io_start_tick
    BY <1>1, <2>1, <2>2 DEF DoesIo, IoDue, Work
  <2>4. IoBehind(s)' = IoBehind(s)
    BY <1>1, <2>3 DEF IoBehind, IoStarted
  <2> QED
    BY <1>1, <2>1, <2>4 DEF Work
<1>3. CASE s # running_process
  BY <1>1, <1>3, UntouchedWork DEF Settling
<1> QED
  BY <1>2, <1>3

\* A process that wakes up keeps its account.
LEMMA WakeWork ==
  ASSUME WorkInv, Wake, [Next]_vars, NEW s \in Records
  PROVE  Work(s)'
<1> PICK r : r = waiting_queue[cursor]
  OBVIOUS
<1> PICK new : new = [Rec(r) EXCEPT !.execution_state = "READY"]
  OBVIOUS
<1>1. /\ QueueInv /\ r \in Records /\ r \in ToSet(waiting_queue) /\ Rec(r) \in ProcessRecords
      /\ phase = "wake" /\ phase' = "wake" /\ time_tick' = time_tick /\ time_tick \in Nat
      /\ Rec(r).remaining_io_ticks = 0
  BY RecordsAreAnInterval DEF WorkInv, QueueInv, TypeOK, Wake, ToSet
<1>2. Rec(r).execution_state = "WAITING"
  BY <1>1 DEF QueueInv, PlacementMatchesState, PlacedByState
<1>3. /\ new \in ProcessRecords /\ new.execution_state = "READY"
      /\ new.total_cpu_burst = Rec(r).total_cpu_burst
      /\ new.remaining_cpu_burst = Rec(r).remaining_cpu_burst
      /\ new.io_start_tick = Rec(r).io_start_tick
      /\ new.io_duration_ticks = Rec(r).io_duration_ticks
      /\ new.executed_cpu_time = Rec(r).executed_cpu_time
      /\ new.remaining_io_ticks = Rec(r).remaining_io_ticks
  BY <1>1, MovedFacts DEF States
<1>4. registered_processes' = [registered_processes EXCEPT ![r] = new]
  BY DEF Wake, Rec
<1>5. Rec(r)' = new /\ \A t \in Records : t # r => Rec(t)' = Rec(t)
  BY <1>1, <1>3, <1>4, OneRecord
<1>6. CASE s = r
  <2>1. IoBehind(r)' = IoBehind(r) /\ Now' = Now
    BY <1>1, <1>3, <1>5 DEF IoBehind, IoStarted, DoesIo, Now
  <2>2. Work(r)
    BY <1>1 DEF WorkInv
  <2>3. /\ Rec(r)'.execution_state = "READY"
        /\ Rec(r)'.total_cpu_burst = Rec(r).total_cpu_burst
        /\ Rec(r)'.remaining_cpu_burst = Rec(r).remaining_cpu_burst
        /\ Rec(r)'.executed_cpu_time = Rec(r).executed_cpu_time
        /\ Rec(r)'.remaining_io_ticks = 0
    BY <1>1, <1>3, <1>5
  <2> QED
    BY <1>1, <1>2, <1>6, <2>1, <2>2, <2>3 DEF Work
<1>7. CASE s # r
  BY <1>1, <1>5, <1>7, UntouchedWork DEF Settling
<1> QED
  BY <1>6, <1>7

\* Every step keeps the bookkeeping.
LEMMA NextWork == WorkInv /\ [Next]_vars => WorkInv'
<1> SUFFICES ASSUME WorkInv, [Next]_vars PROVE WorkInv'
  OBVIOUS
<1>1. QueueInv'
  BY NextQueues DEF WorkInv
<1>2. SUFFICES ASSUME NEW s \in Records' PROVE Work(s)'
  BY <1>1 DEF WorkInv
<1>3. CASE \E l \in ProcessLines : ParseProcessLine(l)
  BY <1>3, ParseProcessLineWork
<1>4. CASE kill_running_process \/ KillReady \/ KillWaiting
  <2>1. Records' = Records
    BY <1>4, KillEdges DEF WorkInv, Edge
  <2> QED
    BY <1>4, <2>1, KillsWork
<1>5. CASE Dispatch \/ StartIo \/ Finish \/ Wake
  <2>1. Records' = Records
    BY <1>5, DispatchEdge, StartIoEdge, FinishEdge, WakeEdge DEF WorkInv, Edge
  <2> QED
    BY <1>5, <2>1, DispatchWork, StartIoWork, FinishWork, WakeWork
<1>6. CASE Execute
  BY <1>6, ExecuteRecords, ExecuteWork DEF WorkInv
<1>7. CASE KeepRunning
  <2>1. Records' = Records
    BY <1>7 DEF KeepRunning, Records
  <2> QED
    BY <1>7, <2>1, KeepRunningWork
<1>8. CASE /\ UNCHANGED registered_processes
           /\ phase # "settle" /\ phase' # "settle"
  BY <1>8, UntouchedWork DEF Settling, Records, Rec
<1>9. CASE UNCHANGED vars
  BY <1>9 DEF vars, WorkInv, Work, Records, Rec, Covered, IoBehind, IoStarted, Now
<1> QED
  BY <1>3, <1>4, <1>5, <1>6, <1>7, <1>8, <1>9
  DEF Next, ReadInput, execute_scheduler, apply_pending_kill_events, ReadKillLine,
      ReadBlankLine, EndOfInput, EventPending, SkipKillEvent, KillsApplied, NoDispatch, PassOver,
      EndTick, print_result_table

\* The account of work and clock holds in every reachable state.
THEOREM WorkAlwaysAccounted == Spec => []WorkInv
<1>1. Init => WorkInv
  BY InitQueueInv DEF WorkInv, Init, Records
<1>2. WorkInv /\ [Next]_vars => WorkInv'
  BY NextWork
<1> QED
  BY <1>1, <1>2, PTL DEF Spec

\* No process advances by more than one tick, CPU and I/O together, per tick.
THEOREM ProgressCorrect == Spec => []ProgressWithinClock
<1>1. WorkInv => ProgressWithinClock
  BY DEF WorkInv, Work, ProgressWithinClock
<1> QED
  BY <1>1, WorkAlwaysAccounted, PTL

\* A turnaround covers the burst and the I/O of its process.
THEOREM TurnaroundCorrect == Spec => []TurnaroundCoversWork
<1>1. WorkInv => TurnaroundCoversWork
  BY DEF WorkInv, Work, Covered, TurnaroundCoversWork
<1> QED
  BY <1>1, WorkAlwaysAccounted, PTL

\* The tick loop accounts for the work of every process: its progress stays
\* within the clock, and its turnaround covers what it did.
THEOREM WorkCorrect == Spec => []WorkAccounted
<1>1. ProgressWithinClock /\ TurnaroundCoversWork => WorkAccounted
  BY DEF WorkAccounted
<1> QED
  BY <1>1, ProgressCorrect, TurnaroundCorrect, PTL

-----------------------------------------------------------------------------
(* Kills.                                                                  *)

\* The hash table leads to a record with the pid that is looked up.
TableMatches ==
  \A pid \in IntValues : process_table[pid] # NULL => Rec(process_table[pid]).process_id = pid

\* Nothing has happened while the lines are read.
StillReading ==
  phase \in {"input", "kill_input"} =>
    /\ time_tick = 0 /\ event_index = 1
    /\ \A r \in Records : ~Rec(r).terminated_by_kill

\* A process that can go on has something left to execute, but on the way from
\* its last tick to its end; and one that was killed could have gone on, and was
\* asked for by an event.
HasWork(r) == Rec(r).remaining_cpu_burst # 0 \/ Rec(r).total_cpu_burst <= 0
AskedFor(r) ==
  \E i \in DOMAIN kill_event_list :
    kill_event_list[i] = [kill_pid |-> Rec(r).process_id, kill_time |-> Rec(r).killed_at_tick]
Fate(r) ==
  /\ Rec(r).execution_state = "TERMINATED" => Rec(r).completion_tick <= Now
  /\ Rec(r).execution_state # "TERMINATED" /\ ~Settling(r) => HasWork(r)
  /\ Rec(r).terminated_by_kill =>
       /\ Rec(r).execution_state = "TERMINATED"
       /\ Rec(r).completion_tick = Rec(r).killed_at_tick /\ Rec(r).killed_at_tick >= 0
       /\ HasWork(r) /\ AskedFor(r)

\* The event i has been obeyed, if it has been applied.
Obeyed(i) ==
  LET k == kill_event_list[i] IN
  (/\ Applied(i) /\ phase \notin {"report", "done"}
   /\ process_table[k.kill_pid] # NULL /\ DistinctPids) =>
    /\ Rec(process_table[k.kill_pid]).execution_state = "TERMINATED"
    /\ Rec(process_table[k.kill_pid]).completion_tick <= k.kill_time

KillInv ==
  /\ WorkInv /\ TableMatches /\ StillReading
  /\ \A r \in Records : Fate(r)
  /\ phase \notin {"input", "kill_input"} => \A i \in DOMAIN kill_event_list : Obeyed(i)

\* What a step that terminates nobody does to a record.
SameFate(r) ==
  /\ Rec(r)'.process_id = Rec(r).process_id
  /\ Rec(r)'.total_cpu_burst = Rec(r).total_cpu_burst
  /\ Rec(r)'.completion_tick = Rec(r).completion_tick
  /\ Rec(r)'.killed_at_tick = Rec(r).killed_at_tick
  /\ Rec(r)'.terminated_by_kill = Rec(r).terminated_by_kill
  /\ Rec(r)'.execution_state = "TERMINATED" <=> Rec(r).execution_state = "TERMINATED"
  /\ Rec(r).execution_state = "TERMINATED" =>
       Rec(r)'.remaining_cpu_burst = Rec(r).remaining_cpu_burst
  /\ Rec(r).execution_state # "TERMINATED" /\ ~Settling(r)' => HasWork(r)'

\* What KilledAt and mark_process_terminated stamp on a record.
LEMMA StampFacts ==
  ASSUME NEW rec \in ProcessRecords, NEW t \in Int
  PROVE  /\ KilledAt(rec, t).process_id = rec.process_id
         /\ KilledAt(rec, t).completion_tick = t
         /\ KilledAt(rec, t).killed_at_tick = t
         /\ mark_process_terminated(rec, t).process_id = rec.process_id
         /\ mark_process_terminated(rec, t).killed_at_tick = rec.killed_at_tick
  BY DEF ProcessRecords, KilledAt, mark_process_terminated

\* A tick stamps nothing.
LEMMA UnstampedFacts ==
  ASSUME NEW rec \in ProcessRecords
  PROVE  /\ ExecutedOnce(rec).process_id = rec.process_id
         /\ ExecutedOnce(rec).completion_tick = rec.completion_tick
         /\ ExecutedOnce(rec).killed_at_tick = rec.killed_at_tick
         /\ decrement_io_for_process(rec).process_id = rec.process_id
         /\ decrement_io_for_process(rec).completion_tick = rec.completion_tick
         /\ decrement_io_for_process(rec).killed_at_tick = rec.killed_at_tick
  BY DEF ProcessRecords, ExecutedOnce, decrement_io_for_process

\* A record that is left alone keeps its fate, if it is not about to be settled.
LEMMA UntouchedFate ==
  ASSUME KillInv, NEW r \in Records, Rec(r)' = Rec(r), ~Settling(r) \/ HasWork(r)
  PROVE  SameFate(r)
  BY DEF KillInv, Fate, SameFate, HasWork

LEMMA DispatchFate == ASSUME KillInv, Dispatch, NEW s \in Records PROVE SameFate(s)
<1> PICK r : r = Head(ready_queue)
  OBVIOUS
<1> PICK new : new = [Rec(r) EXCEPT !.execution_state = "RUNNING"]
  OBVIOUS
<1>1. /\ QueueInv /\ r \in Records /\ r \in ToSet(ready_queue) /\ Rec(r) \in ProcessRecords
      /\ phase = "kills"
  BY TailFacts, RecordsAreAnInterval
  DEF KillInv, WorkInv, QueueInv, TypeOK, PlacementMatchesState, Dispatch, KillsApplied
<1>2. Rec(r).execution_state = "READY" /\ HasWork(r)
  BY <1>1 DEF QueueInv, PlacementMatchesState, PlacedByState, KillInv, Fate, Settling
<1>3. /\ new \in ProcessRecords /\ new.execution_state = "RUNNING"
      /\ new.total_cpu_burst = Rec(r).total_cpu_burst
      /\ new.remaining_cpu_burst = Rec(r).remaining_cpu_burst
      /\ new.terminated_by_kill = Rec(r).terminated_by_kill
  BY <1>1, MovedFacts DEF States
<1>m. /\ new.process_id = Rec(r).process_id /\ new.completion_tick = Rec(r).completion_tick
      /\ new.killed_at_tick = Rec(r).killed_at_tick
  BY <1>1 DEF ProcessRecords
<1>4. registered_processes' = [registered_processes EXCEPT ![r] = new]
  BY DEF Dispatch, Rec
<1>5. Rec(r)' = new /\ \A t \in Records : t # r => Rec(t)' = Rec(t)
  BY <1>1, <1>3, <1>4, OneRecord
<1>6. CASE s = r
  BY <1>2, <1>3, <1>m, <1>5, <1>6 DEF SameFate, HasWork
<1>7. CASE s # r
  BY <1>1, <1>5, <1>7, UntouchedFate DEF Settling
<1> QED
  BY <1>6, <1>7

LEMMA StartIoFate == ASSUME KillInv, StartIo, NEW s \in Records PROVE SameFate(s)
<1> PICK r : r = running_process
  OBVIOUS
<1> PICK new : new = [Rec(r) EXCEPT !.remaining_io_ticks = Rec(r).io_duration_ticks,
                                    !.execution_state = "WAITING"]
  OBVIOUS
<1>1. QueueInv /\ r \in Records /\ Rec(r) \in ProcessRecords
  BY RecordsAreAnInterval DEF KillInv, WorkInv, QueueInv, TypeOK, StartIo
<1>2. Rec(r).execution_state = "RUNNING"
  BY <1>1 DEF QueueInv, PlacementMatchesState, PlacedByState
<1>3. Rec(r).io_duration_ticks \in Nat /\ Rec(r).remaining_cpu_burst # 0
  BY <1>1 DEF StartIo, IoDue, ProcessRecords
<1>4. /\ new \in ProcessRecords /\ new.execution_state = "WAITING"
      /\ new.total_cpu_burst = Rec(r).total_cpu_burst
      /\ new.remaining_cpu_burst = Rec(r).remaining_cpu_burst
      /\ new.terminated_by_kill = Rec(r).terminated_by_kill
  BY <1>1, <1>3, IoStartedFacts
<1>m. /\ new.process_id = Rec(r).process_id /\ new.completion_tick = Rec(r).completion_tick
      /\ new.killed_at_tick = Rec(r).killed_at_tick
  BY <1>1 DEF ProcessRecords
<1>5. registered_processes' = [registered_processes EXCEPT ![r] = new]
  BY <1>1, UpdateFacts DEF StartIo, Rec, QueueInv, TypeOK, Records
<1>6. Rec(r)' = new /\ \A t \in Records : t # r => Rec(t)' = Rec(t)
  BY <1>1, <1>4, <1>5, OneRecord
<1>7. CASE s = r
  BY <1>2, <1>3, <1>4, <1>m, <1>6, <1>7 DEF SameFate, HasWork
<1>8. CASE s # r
  BY <1>1, <1>6, <1>8, UntouchedFate DEF Settling
<1> QED
  BY <1>7, <1>8

LEMMA WakeFate == ASSUME KillInv, Wake, NEW s \in Records PROVE SameFate(s)
<1> PICK r : r = waiting_queue[cursor]
  OBVIOUS
<1> PICK new : new = [Rec(r) EXCEPT !.execution_state = "READY"]
  OBVIOUS
<1>1. /\ QueueInv /\ r \in Records /\ r \in ToSet(waiting_queue) /\ Rec(r) \in ProcessRecords
      /\ phase = "wake"
  BY RecordsAreAnInterval DEF KillInv, WorkInv, QueueInv, TypeOK, Wake, ToSet
<1>2. Rec(r).execution_state = "WAITING" /\ HasWork(r)
  BY <1>1 DEF QueueInv, PlacementMatchesState, PlacedByState, KillInv, Fate, Settling
<1>3. /\ new \in ProcessRecords /\ new.execution_state = "READY"
      /\ new.total_cpu_burst = Rec(r).total_cpu_burst
      /\ new.remaining_cpu_burst = Rec(r).remaining_cpu_burst
      /\ new.terminated_by_kill = Rec(r).terminated_by_kill
  BY <1>1, MovedFacts DEF States
<1>m. /\ new.process_id = Rec(r).process_id /\ new.completion_tick = Rec(r).completion_tick
      /\ new.killed_at_tick = Rec(r).killed_at_tick
  BY <1>1 DEF ProcessRecords
<1>4. registered_processes' = [registered_processes EXCEPT ![r] = new]
  BY DEF Wake, Rec
<1>5. Rec(r)' = new /\ \A t \in Records : t # r => Rec(t)' = Rec(t)
  BY <1>1, <1>3, <1>4, OneRecord
<1>6. CASE s = r
  BY <1>2, <1>3, <1>m, <1>5, <1>6 DEF SameFate, HasWork
<1>7. CASE s # r
  BY <1>1, <1>5, <1>7, UntouchedFate DEF Settling
<1> QED
  BY <1>6, <1>7

LEMMA ExecuteFate == ASSUME KillInv, Execute, NEW s \in Records PROVE SameFate(s)
<1>1. /\ QueueInv /\ Rec(s) \in ProcessRecords /\ phase = "execute" /\ phase' = "settle"
      /\ running_process' = running_process
  BY RecordsAreAnInterval DEF KillInv, WorkInv, QueueInv, Execute
<1>2. CASE s = running_process
  <2>1. Rec(s)' = ExecutedOnce(Rec(s)) /\ Rec(s).execution_state = "RUNNING" /\ Settling(s)'
    BY <1>1, <1>2, ExecuteRecords
    DEF QueueInv, PlacementMatchesState, PlacedByState, Settling
  <2> PICK new : new = ExecutedOnce(Rec(s))
    OBVIOUS
  <2>2. /\ new.execution_state = "RUNNING"
        /\ new.total_cpu_burst = Rec(s).total_cpu_burst
        /\ new.terminated_by_kill = Rec(s).terminated_by_kill
        /\ new.process_id = Rec(s).process_id /\ new.completion_tick = Rec(s).completion_tick
        /\ new.killed_at_tick = Rec(s).killed_at_tick
    BY <1>1, <2>1, ExecutedFacts, UnstampedFacts
  <2> QED
    BY <2>1, <2>2 DEF SameFate
<1>3. CASE s # running_process /\ s \in ToSet(waiting_queue)
  <2>1. /\ Rec(s)' = decrement_io_for_process(Rec(s)) /\ Rec(s).execution_state = "WAITING"
        /\ HasWork(s)
    BY <1>1, <1>3, ExecuteRecords
    DEF QueueInv, PlacementMatchesState, PlacedByState, Settling, KillInv, Fate
  <2> PICK new : new = decrement_io_for_process(Rec(s))
    OBVIOUS
  <2>2. /\ new.execution_state = "WAITING"
        /\ new.total_cpu_burst = Rec(s).total_cpu_burst
        /\ new.remaining_cpu_burst = Rec(s).remaining_cpu_burst
        /\ new.terminated_by_kill = Rec(s).terminated_by_kill
        /\ new.process_id = Rec(s).process_id /\ new.completion_tick = Rec(s).completion_tick
        /\ new.killed_at_tick = Rec(s).killed_at_tick
    BY <1>1, <2>1, DecrementedFacts, UnstampedFacts
  <2> QED
    BY <2>1, <2>2 DEF SameFate, HasWork
<1>4. CASE s # running_process /\ s \notin ToSet(waiting_queue)
  BY <1>1, <1>4, ExecuteRecords, UntouchedFate DEF Settling
<1> QED
  BY <1>2, <1>3, <1>4

\* Steps that terminate nobody keep the fates, the table and the pids.
LEMMA FatesStay ==
  ASSUME KillInv, [Next]_vars, Records' = Records, UNCHANGED process_table,
         \A i \in DOMAIN kill_event_list :
           i \in DOMAIN kill_event_list' /\ kill_event_list'[i] = kill_event_list[i],
         \A r \in Records : SameFate(r)
  PROVE  /\ \A r \in Records : Fate(r)'
         /\ TableMatches' /\ (DistinctPids' <=> DistinctPids)
<1>1. TypeOK /\ Now \in Int /\ Now' \in Int /\ Now' >= Now
  BY NowFacts DEF KillInv, WorkInv, QueueInv
<1>2. ASSUME NEW r \in Records PROVE Fate(r)'
  <2>1. Fate(r) /\ SameFate(r) /\ Rec(r) \in ProcessRecords
    BY <1>1, RecordsAreAnInterval DEF KillInv
  <2>2. Rec(r).completion_tick \in Int
    BY <2>1 DEF ProcessRecords
  <2>3. Rec(r)'.execution_state = "TERMINATED" => Rec(r)'.completion_tick <= Now'
    BY <1>1, <2>1, <2>2 DEF Fate, SameFate
  <2>4. Rec(r)'.execution_state # "TERMINATED" /\ ~Settling(r)' => HasWork(r)'
    BY <2>1 DEF SameFate
  <2>5. AskedFor(r) => AskedFor(r)'
    BY <2>1 DEF AskedFor, SameFate
  <2>6. ASSUME Rec(r)'.terminated_by_kill
        PROVE  /\ Rec(r)'.execution_state = "TERMINATED"
               /\ Rec(r)'.completion_tick = Rec(r)'.killed_at_tick /\ Rec(r)'.killed_at_tick >= 0
               /\ HasWork(r)' /\ AskedFor(r)'
    BY <2>1, <2>5, <2>6 DEF Fate, SameFate, HasWork
  <2> QED
    BY <2>3, <2>4, <2>6 DEF Fate
<1>3. TableMatches'
  BY <1>1 DEF KillInv, TableMatches, SameFate, TypeOK
<1>4. DistinctPids' <=> DistinctPids
  BY DEF DistinctPids, SameFate
<1> QED
  BY <1>2, <1>3, <1>4

\* Such a step disobeys no event, if it applies none.
LEMMA ObedienceStays ==
  ASSUME KillInv, [Next]_vars, Records' = Records, UNCHANGED <<process_table, kill_event_list>>,
         \A r \in Records : SameFate(r),
         phase \notin {"input", "kill_input", "report", "done"},
         phase' # "report" => \A i \in DOMAIN kill_event_list : Applied(i)' => Applied(i)
  PROVE  \A i \in DOMAIN kill_event_list : Obeyed(i)'
<1> SUFFICES ASSUME NEW i \in DOMAIN kill_event_list PROVE Obeyed(i)'
  OBVIOUS
<1>1. Obeyed(i) /\ (DistinctPids' <=> DistinctPids) /\ TypeOK
  BY FatesStay DEF KillInv, WorkInv, QueueInv
<1>2. kill_event_list[i].kill_pid \in IntValues
  BY <1>1, LinesAssumption DEF TypeOK
<1>3. process_table[kill_event_list[i].kill_pid] \in Records \cup {NULL}
  BY <1>1, <1>2 DEF TypeOK
<1> QED
  BY <1>1, <1>3 DEF Obeyed, SameFate

\* The steps of the tick loop that terminate nobody.
LEMMA LoopFate ==
  ASSUME KillInv,
         \/ Dispatch \/ NoDispatch \/ Execute \/ StartIo \/ KeepRunning
         \/ Wake \/ PassOver \/ EndTick
  PROVE  /\ Records' = Records /\ UNCHANGED <<process_table, kill_event_list>>
         /\ \A r \in Records : SameFate(r)
         /\ phase \notin {"input", "kill_input", "report", "done"}
         /\ phase' \notin {"input", "kill_input"}
         /\ phase' # "report" => \A i \in DOMAIN kill_event_list : Applied(i)' => Applied(i)
<1>1. QueueInv /\ TypeOK /\ time_tick \in Nat /\ event_index \in Nat
      /\ kill_event_list \in Seq(KillLines)
  BY DEF KillInv, WorkInv, QueueInv, TypeOK
<1>2. /\ UNCHANGED <<process_table, kill_event_list>>
      /\ phase \in {"kills", "execute", "settle", "wake"}
      /\ phase' \in {"kills", "execute", "settle", "wake", "report"}
  BY DEF Dispatch, NoDispatch, KillsApplied, Execute, StartIo, KeepRunning, Wake, PassOver, EndTick
<1>3. /\ phase = "kills" => event_index > Len(kill_event_list)
      /\ \/ time_tick' = time_tick /\ phase' # "kills"
         \/ time_tick' = time_tick + 1 /\ event_index' = 1 /\ phase = "wake"
            /\ phase' \in {"kills", "report"}
  BY DEF Dispatch, NoDispatch, KillsApplied, Execute, StartIo, KeepRunning, Wake, PassOver, EndTick
<1>4. Records' = Records
  <2>1. CASE Dispatch \/ StartIo \/ Wake
    BY <1>1, <2>1, DispatchEdge, StartIoEdge, WakeEdge DEF Edge
  <2>2. CASE Execute
    BY <1>1, <2>2, ExecuteRecords
  <2>3. CASE NoDispatch \/ KeepRunning \/ PassOver \/ EndTick
    BY <2>3 DEF NoDispatch, KeepRunning, PassOver, EndTick, Records
  <2> QED
    BY <2>1, <2>2, <2>3
<1>5. ASSUME NEW r \in Records PROVE SameFate(r)
  <2>1. CASE Dispatch \/ StartIo \/ Wake \/ Execute
    BY <2>1, DispatchFate, StartIoFate, WakeFate, ExecuteFate
  <2>2. CASE NoDispatch \/ PassOver \/ EndTick
    BY <2>2, UntouchedFate DEF NoDispatch, KillsApplied, PassOver, EndTick, Settling, Rec
  <2>3. CASE KeepRunning
    BY <1>1, <2>3, RecordsAreAnInterval, UntouchedFate DEF KeepRunning, Settling, HasWork, Rec
  <2> QED
    BY <2>1, <2>2, <2>3
<1>6. ASSUME phase' # "report", NEW i \in DOMAIN kill_event_list, Applied(i)' PROVE Applied(i)
  <2> DEFINE k == kill_event_list[i]
  <2>1. k.kill_time \in Int /\ i \in Nat /\ i <= Len(kill_event_list) /\ kill_event_list'[i] = k
    BY <1>1, <1>2, LinesAssumption DEF IntValues
  <2>2. \/ k.kill_time \in 0 .. time_tick' - 1
        \/ k.kill_time = time_tick' /\ (phase' = "kills" => i < event_index')
    BY <1>6, <2>1 DEF Applied
  <2>3. phase = "kills" => i < event_index
    BY <1>1, <1>3, <2>1
  <2> HIDE DEF k
  <2>4. CASE time_tick' = time_tick
    BY <1>1, <2>1, <2>2, <2>3, <2>4 DEF Applied, k
  <2>5. CASE time_tick' = time_tick + 1 /\ event_index' = 1 /\ phase' = "kills"
    BY <1>1, <2>1, <2>2, <2>3, <2>5 DEF Applied, k
  <2> QED
    BY <1>3, <1>6, <2>4, <2>5
<1> QED
  BY <1>2, <1>4, <1>5, <1>6

\* Reading a process line.
LEMMA ParseFate == ASSUME KillInv, NEW l \in ProcessLines, ParseProcessLine(l) PROVE KillInv'
<1> PICK n : n = total_process_count + 1
  OBVIOUS
<1>1. /\ WorkInv /\ TypeOK /\ n \notin Records /\ n # NULL /\ l.pid \in IntValues
      /\ phase = "input" /\ phase' = "input" /\ time_tick' = time_tick
      /\ event_index' = event_index /\ kill_event_list' = kill_event_list
      /\ running_process' = running_process
  BY RecordsAreAnInterval, LinesAssumption
  DEF KillInv, WorkInv, QueueInv, NULL, ParseProcessLine
<1>2. /\ Records' = Records \cup {n} /\ Rec(n)' = create_process_record(l)
      /\ \A r \in Records : Rec(r)' = Rec(r)
  <2>1. /\ registered_processes \in Seq(ProcessRecords) /\ n = Len(registered_processes) + 1
        /\ registered_processes' = Append(registered_processes, create_process_record(l))
    BY <1>1 DEF TypeOK, total_process_count, ParseProcessLine
  <2> QED
    BY <2>1 DEF Records, Rec
<1>3. WorkInv'
  BY <1>1, NextWork DEF Next, ReadInput
<1>4. /\ Rec(n)'.process_id = l.pid /\ Rec(n)'.execution_state = "READY"
      /\ Rec(n)'.terminated_by_kill = FALSE
      /\ Rec(n)'.remaining_cpu_burst = l.burst /\ Rec(n)'.total_cpu_burst = l.burst
      /\ l.burst \in Int
  BY <1>2, LinesAssumption DEF create_process_record, IntValues
<1>5. Fate(n)'
  BY <1>4 DEF Fate, HasWork
<1>6. ASSUME NEW r \in Records PROVE Fate(r)'
  BY <1>1, <1>2 DEF KillInv, Fate, HasWork, AskedFor, Settling, Now
<1>7. TableMatches'
  <2>1. \A pid \in IntValues :
          \/ process_table'[pid] = process_table[pid]
          \/ pid = l.pid /\ process_table'[pid] = n
    BY <1>1 DEF ParseProcessLine, TypeOK
  <2>2. \A pid \in IntValues : process_table[pid] # NULL =>
          process_table[pid] \in Records /\ Rec(process_table[pid]).process_id = pid
    BY <1>1 DEF KillInv, TableMatches, TypeOK
  <2>3. ASSUME NEW pid \in IntValues, process_table'[pid] # NULL
        PROVE  Rec(process_table[pid])'.process_id = pid
    BY <1>2, <1>4, <2>1, <2>2, <2>3
  <2> QED
    BY <2>3 DEF TableMatches
<1>8. StillReading'
  BY <1>1, <1>2, <1>4 DEF KillInv, StillReading
<1> QED
  BY <1>1, <1>2, <1>3, <1>5, <1>6, <1>7, <1>8 DEF KillInv

\* Terminating the target of the event under the loop index.
LEMMA KillFate ==
  ASSUME KillInv, [Next]_vars, EventPending, EventDue, NEW r \in Records, KillRecord(r),
         Rec(r).process_id = event.kill_pid, Rec(r).execution_state # "TERMINATED",
         event_index' = event_index + 1, UNCHANGED <<phase, process_table, kill_event_list, time_tick>>
  PROVE  KillInv'
<1>1. /\ WorkInv /\ QueueInv /\ TypeOK /\ Rec(r) \in ProcessRecords
      /\ phase = "kills" /\ phase' = "kills" /\ time_tick \in Nat /\ event_index \in Nat
      /\ event_index \in DOMAIN kill_event_list /\ kill_event_list \in Seq(KillLines)
  BY RecordsAreAnInterval DEF KillInv, WorkInv, QueueInv, TypeOK, EventPending
<1>2. WorkInv'
  BY <1>1, NextWork
<1>3. Records' = Records /\ \A s \in Records : s # r => Rec(s)' = Rec(s)
  BY <1>1, KillRecordQueues
<1>4. Rec(r)' = KilledAt(Rec(r), time_tick)
  BY <1>1, KillRecordType DEF Rec
<1>5. /\ Rec(r)'.execution_state = "TERMINATED" /\ Rec(r)'.terminated_by_kill = TRUE
      /\ Rec(r)'.total_cpu_burst = Rec(r).total_cpu_burst
      /\ Rec(r)'.remaining_cpu_burst = Rec(r).remaining_cpu_burst
      /\ Rec(r)'.process_id = Rec(r).process_id
      /\ Rec(r)'.completion_tick = time_tick /\ Rec(r)'.killed_at_tick = time_tick
  <2> PICK new : new = KilledAt(Rec(r), time_tick)
    OBVIOUS
  <2>0. time_tick \in Int
    BY <1>1
  <2>1. /\ new.execution_state = "TERMINATED" /\ new.terminated_by_kill = TRUE
        /\ new.total_cpu_burst = Rec(r).total_cpu_burst
        /\ new.remaining_cpu_burst = Rec(r).remaining_cpu_burst
    BY <1>1, <2>0, KilledFacts
  <2>2. /\ new.process_id = Rec(r).process_id
        /\ new.completion_tick = time_tick /\ new.killed_at_tick = time_tick
    BY <1>1, StampFacts
  <2> QED
    BY <1>4, <2>1, <2>2
<1>6. event = [kill_pid |-> Rec(r).process_id, kill_time |-> time_tick]
  BY <1>1, LinesAssumption DEF EventDue, event
<1>7. AskedFor(r)'
  BY <1>1, <1>5, <1>6 DEF AskedFor, event
<1>8. HasWork(r)'
  BY <1>1, <1>5 DEF KillInv, Fate, HasWork, Settling
<1>9. ASSUME NEW s \in Records PROVE Fate(s)'
  <2>1. CASE s = r
    BY <1>1, <1>5, <1>7, <1>8, <2>1 DEF Fate, Now
  <2>2. CASE s # r
    BY <1>1, <1>3, <2>2 DEF KillInv, Fate, HasWork, AskedFor, Settling, Now
  <2> QED
    BY <2>1, <2>2
<1>10. TableMatches' /\ (DistinctPids' <=> DistinctPids)
  <2>1. \A s \in Records : Rec(s)'.process_id = Rec(s).process_id
    BY <1>3, <1>5
  <2> QED
    BY <1>1, <1>3, <2>1 DEF KillInv, TableMatches, DistinctPids, TypeOK
<1>11. ASSUME NEW i \in DOMAIN kill_event_list PROVE Obeyed(i)'
  <2> DEFINE k == kill_event_list[i]
             t == process_table[k.kill_pid]
  <2>1. /\ k.kill_time \in Int /\ k.kill_pid \in IntValues /\ t \in Records \cup {NULL}
        /\ i \in Nat
    BY <1>1, LinesAssumption DEF TypeOK, IntValues
  <2> SUFFICES ASSUME Applied(i)', t # NULL, DistinctPids
               PROVE  Rec(t)'.execution_state = "TERMINATED" /\ Rec(t)'.completion_tick <= k.kill_time
    BY <1>10 DEF Obeyed
  <2>2. t \in Records /\ Rec(t).process_id = k.kill_pid
    BY <1>1, <2>1 DEF KillInv, TableMatches
  <2>3. CASE Applied(i)
    <3>1. Rec(t).execution_state = "TERMINATED" /\ Rec(t).completion_tick <= k.kill_time
      BY <1>1, <2>3 DEF KillInv, Obeyed
    <3> QED
      BY <1>3, <2>2, <3>1
  <2>4. CASE ~Applied(i)
    <3>1. i = event_index /\ k.kill_time = time_tick
      BY <1>1, <2>1, <2>4 DEF Applied
    <3>2. t = r
      BY <2>2, <3>1 DEF DistinctPids, event
    <3> QED
      BY <1>1, <1>5, <3>1, <3>2
  <2> QED
    BY <2>3, <2>4
<1> QED
  BY <1>1, <1>2, <1>3, <1>9, <1>10, <1>11 DEF KillInv, StillReading

\* The three kills terminate the target of their event.
LEMMA KillsFate ==
  ASSUME KillInv, [Next]_vars, kill_running_process \/ KillReady \/ KillWaiting
  PROVE  KillInv'
<1>1. QueueInv /\ TypeOK
  BY DEF KillInv, WorkInv, QueueInv
<1>2. CASE kill_running_process
  <2>1. /\ running_process \in Records /\ KillRecord(running_process)
        /\ Rec(running_process).process_id = event.kill_pid
        /\ Rec(running_process).execution_state = "RUNNING"
    BY <1>1, <1>2, RecordsAreAnInterval
    DEF QueueInv, TypeOK, PlacementMatchesState, PlacedByState, kill_running_process, HitsRunning
  <2> QED
    BY <1>2, <2>1, KillFate DEF kill_running_process
<1>3. CASE KillReady
  <2>1. PICK i \in DOMAIN ready_queue :
          FoundAt(ready_queue, event.kill_pid, i) /\ KillRecord(ready_queue[i])
    BY <1>3 DEF KillReady
  <2>2. /\ ready_queue[i] \in Records /\ Rec(ready_queue[i]).execution_state = "READY"
        /\ Rec(ready_queue[i]).process_id = event.kill_pid
    BY <1>1, <2>1 DEF QueueInv, TypeOK, PlacementMatchesState, PlacedByState, ToSet, FoundAt
  <2> QED
    BY <1>3, <2>1, <2>2, KillFate DEF KillReady
<1>4. CASE KillWaiting
  <2>1. PICK i \in DOMAIN waiting_queue :
          FoundAt(waiting_queue, event.kill_pid, i) /\ KillRecord(waiting_queue[i])
    BY <1>4 DEF KillWaiting
  <2>2. /\ waiting_queue[i] \in Records /\ Rec(waiting_queue[i]).execution_state = "WAITING"
        /\ Rec(waiting_queue[i]).process_id = event.kill_pid
    BY <1>1, <2>1 DEF QueueInv, TypeOK, PlacementMatchesState, PlacedByState, ToSet, FoundAt
  <2> QED
    BY <1>4, <2>1, <2>2, KillFate DEF KillWaiting
<1> QED
  BY <1>2, <1>3, <1>4

\* An event that is skipped is not due, or its target had ended before: a target
\* that has not ended is in one of the three places that are searched.
LEMMA SkipFate == ASSUME KillInv, SkipKillEvent PROVE KillInv'
<1>1. /\ [Next]_vars /\ EventPending /\ event_index' = event_index + 1
      /\ UNCHANGED <<phase, registered_processes, process_table, kill_event_list,
                     running_process, time_tick>>
  BY DEF SkipKillEvent, Next, execute_scheduler, apply_pending_kill_events
<1>2. /\ WorkInv /\ QueueInv /\ TypeOK /\ WorkInv'
      /\ phase = "kills" /\ time_tick \in Nat /\ event_index \in Nat
      /\ event_index \in DOMAIN kill_event_list /\ kill_event_list \in Seq(KillLines)
  BY <1>1, NextWork DEF KillInv, WorkInv, QueueInv, TypeOK, EventPending
<1>3. Records' = Records /\ (\A r \in Records : Rec(r)' = Rec(r)) /\ Now' = Now
  BY <1>1 DEF Records, Rec, Now
<1>4. \A r \in Records : Fate(r)'
  BY <1>1, <1>3 DEF KillInv, Fate, HasWork, AskedFor, Settling
<1>5. TableMatches' /\ (DistinctPids' <=> DistinctPids)
  BY <1>1, <1>2, <1>3 DEF KillInv, TableMatches, DistinctPids, TypeOK
<1>6. ASSUME EventDue PROVE FALSE
  <2>1. /\ Target \in Records /\ Rec(Target).execution_state # "TERMINATED"
        /\ Rec(Target).process_id = event.kill_pid
    <3>1. event.kill_pid \in IntValues
      BY <1>2, LinesAssumption DEF event
    <3> QED
      BY <1>2, <1>6, <3>1
      DEF EventDue, Target, process_table_lookup, TypeOK, KillInv, TableMatches
  <2>2. \/ Target \in ToSet(ready_queue) \/ Target \in ToSet(waiting_queue)
        \/ Target = running_process
    <3>1. Rec(Target).execution_state \in {"READY", "RUNNING", "WAITING"}
      BY <1>2, <2>1, RecordsAreAnInterval DEF ProcessRecords, States
    <3> QED
      BY <1>2, <2>1, <3>1 DEF QueueInv, PlacementMatchesState, PlacedByState
  <2>3. ~HitsRunning /\ ~InQueue(ready_queue, event.kill_pid) /\ ~InQueue(waiting_queue, event.kill_pid)
    BY <1>6 DEF SkipKillEvent
  <2>4. NULL \notin Records
    BY <1>2, RecordsAreAnInterval
  <2> QED
    BY <2>1, <2>2, <2>3, <2>4 DEF HitsRunning, InQueue, ToSet
<1>7. ASSUME NEW i \in DOMAIN kill_event_list PROVE Obeyed(i)'
  <2> DEFINE k == kill_event_list[i]
             t == process_table[k.kill_pid]
  <2>1. /\ k.kill_time \in Int /\ k.kill_pid \in IntValues /\ t \in Records \cup {NULL}
        /\ i \in Nat
    BY <1>2, LinesAssumption DEF TypeOK, IntValues
  <2> SUFFICES ASSUME Applied(i)', t # NULL, DistinctPids
               PROVE  Rec(t).execution_state = "TERMINATED" /\ Rec(t).completion_tick <= k.kill_time
    BY <1>1, <1>3, <1>5, <2>1 DEF Obeyed
  <2>2. CASE Applied(i)
    BY <1>2, <2>2 DEF KillInv, Obeyed
  <2>3. CASE ~Applied(i)
    <3>1. i = event_index /\ k.kill_time = time_tick
      BY <1>1, <1>2, <2>1, <2>3 DEF Applied
    <3>2. Rec(t).execution_state = "TERMINATED"
      BY <1>6, <3>1 DEF EventDue, event, Target, process_table_lookup
    <3>3. Rec(t).completion_tick <= time_tick
      BY <1>2, <2>1, <3>2 DEF KillInv, Fate, Now
    <3> QED
      BY <3>1, <3>2, <3>3
  <2> QED
    BY <2>2, <2>3
<1> QED
  BY <1>1, <1>2, <1>3, <1>4, <1>5, <1>7 DEF KillInv, StillReading

\* A process that completes was not killed, and no event is about the next tick.
LEMMA FinishFate == ASSUME KillInv, Finish PROVE KillInv'
<1> PICK r : r = running_process
  OBVIOUS
<1> PICK new : new = mark_process_terminated(Rec(r), time_tick + 1)
  OBVIOUS
<1>1. /\ [Next]_vars /\ phase = "settle" /\ phase' = "wake"
      /\ UNCHANGED <<process_table, kill_event_list, time_tick>>
  BY DEF Finish, Next, execute_scheduler
<1>2. /\ WorkInv /\ QueueInv /\ TypeOK /\ WorkInv' /\ r \in Records /\ Rec(r) \in ProcessRecords
      /\ time_tick \in Nat /\ time_tick + 1 \in Int
  BY <1>1, NextWork, RecordsAreAnInterval DEF KillInv, WorkInv, QueueInv, TypeOK, Finish
<1>3. Rec(r).execution_state = "RUNNING"
  BY <1>2 DEF QueueInv, PlacementMatchesState, PlacedByState
<1>4. /\ new \in ProcessRecords /\ new.execution_state = "TERMINATED"
      /\ new.terminated_by_kill = Rec(r).terminated_by_kill /\ new.completion_tick = time_tick + 1
  BY <1>2, TerminatedFacts
<1>5. new.process_id = Rec(r).process_id
  BY <1>2, StampFacts
<1>6. registered_processes' = [registered_processes EXCEPT ![r] = new]
  BY <1>2 DEF Finish, Rec, Records
<1>7. Records' = Records /\ Rec(r)' = new /\ \A s \in Records : s # r => Rec(s)' = Rec(s)
  BY <1>2, <1>4, <1>6, OneRecord
<1>8. ASSUME NEW s \in Records PROVE Fate(s)'
  <2>1. CASE s = r
    <3>1. ~Rec(r).terminated_by_kill
      BY <1>2, <1>3 DEF KillInv, Fate
    <3>2. Now' = time_tick + 1
      BY <1>1 DEF Now
    <3> QED
      BY <1>2, <1>4, <1>7, <2>1, <3>1, <3>2 DEF Fate
  <2>2. CASE s # r
    BY <1>1, <1>2, <1>7, <2>2 DEF KillInv, Fate, HasWork, AskedFor, Settling, Now
  <2> QED
    BY <2>1, <2>2
<1>9. TableMatches' /\ (DistinctPids' <=> DistinctPids)
  <2>1. \A s \in Records : Rec(s)'.process_id = Rec(s).process_id
    BY <1>4, <1>5, <1>7
  <2> QED
    BY <1>1, <1>2, <1>7, <2>1 DEF KillInv, TableMatches, DistinctPids, TypeOK
<1>10. ASSUME NEW i \in DOMAIN kill_event_list PROVE Obeyed(i)'
  <2> DEFINE k == kill_event_list[i]
             t == process_table[k.kill_pid]
  <2>1. t \in Records \cup {NULL} /\ k \in KillLines
    BY <1>2, LinesAssumption DEF TypeOK
  <2> SUFFICES ASSUME Applied(i)', t # NULL, DistinctPids, NEW u \in Records, u = t
               PROVE  Rec(u)'.execution_state = "TERMINATED" /\ Rec(u)'.completion_tick <= k.kill_time
    BY <1>1, <1>9, <2>1 DEF Obeyed
  <2>2. Applied(i)
    BY <1>1 DEF Applied
  <2>3. Rec(u).execution_state = "TERMINATED" /\ Rec(u).completion_tick <= k.kill_time
    BY <1>1, <2>2 DEF KillInv, Obeyed
  <2>4. Rec(u)' = Rec(u)
    BY <1>3, <1>7, <2>3
  <2> QED
    BY <2>3, <2>4
<1> QED
  BY <1>1, <1>2, <1>7, <1>8, <1>9, <1>10 DEF KillInv, StillReading

\* Every step obeys the events, and kills nobody without one.
LEMMA NextKill == KillInv /\ [Next]_vars => KillInv'
<1> SUFFICES ASSUME KillInv, [Next]_vars PROVE KillInv'
  OBVIOUS
<1>1. /\ WorkInv /\ QueueInv /\ TypeOK /\ TableMatches /\ StillReading /\ WorkInv'
      /\ Now \in Int /\ Now' \in Int /\ Now' >= Now
  BY NextWork, NowFacts DEF KillInv, WorkInv, QueueInv
<1>2. CASE \E l \in ProcessLines : ParseProcessLine(l)
  BY <1>2, ParseFate
<1>3. CASE SkipKillEvent \/ kill_running_process \/ KillReady \/ KillWaiting
  BY <1>3, SkipFate, KillsFate
<1>4. CASE Finish
  BY <1>4, FinishFate
<1>5. CASE \/ Dispatch \/ NoDispatch \/ Execute \/ StartIo \/ KeepRunning
           \/ Wake \/ PassOver \/ EndTick
  <2>1. /\ Records' = Records /\ UNCHANGED <<process_table, kill_event_list>>
        /\ \A r \in Records : SameFate(r)
        /\ phase \notin {"input", "kill_input", "report", "done"}
        /\ phase' \notin {"input", "kill_input"}
        /\ phase' # "report" => \A i \in DOMAIN kill_event_list : Applied(i)' => Applied(i)
    BY <1>5, LoopFate
  <2>2. (\A r \in Records : Fate(r)') /\ TableMatches'
    BY <2>1, FatesStay
  <2>3. \A i \in DOMAIN kill_event_list : Obeyed(i)'
    BY <2>1, ObedienceStays
  <2> QED
    BY <1>1, <2>1, <2>2, <2>3 DEF KillInv, StillReading
<1>6. CASE /\ UNCHANGED <<registered_processes, process_table, running_process>>
           /\ phase # "settle" /\ phase' # "settle"
           /\ \A i \in DOMAIN kill_event_list :
                i \in DOMAIN kill_event_list' /\ kill_event_list'[i] = kill_event_list[i]
           /\ \/ /\ phase' \in {"input", "kill_input"} /\ phase \in {"input", "kill_input"}
                 /\ UNCHANGED <<time_tick, event_index>>
              \/ /\ phase \in {"input", "kill_input"} /\ phase' \in {"kills", "done"}
                 /\ UNCHANGED <<time_tick, event_index, kill_event_list>>
              \/ phase' = "done"
  <2>1. Records' = Records /\ \A r \in Records : Rec(r)' = Rec(r) /\ SameFate(r)
    <3>1. Records' = Records /\ \A r \in Records : Rec(r)' = Rec(r)
      BY <1>6 DEF Records, Rec
    <3> QED
      BY <1>6, <3>1, UntouchedFate DEF Settling
  <2>2. (\A r \in Records : Fate(r)') /\ TableMatches'
    BY <1>6, <2>1, FatesStay
  <2>3. StillReading'
    BY <1>1, <1>6, <2>1 DEF StillReading
  <2>4. phase' \notin {"input", "kill_input"} => \A i \in DOMAIN kill_event_list' : Obeyed(i)'
    <3>1. CASE phase' = "done"
      BY <3>1 DEF Obeyed
    <3>2. CASE /\ phase \in {"input", "kill_input"} /\ phase' = "kills"
               /\ UNCHANGED <<time_tick, event_index, kill_event_list>>
      <4>1. time_tick' = 0 /\ event_index' = 1
        BY <1>1, <3>2 DEF StillReading
      <4>2. ASSUME NEW i \in DOMAIN kill_event_list' PROVE ~Applied(i)'
        <5>1. i \in Nat /\ i >= 1
          BY <1>1, <3>2 DEF TypeOK
        <5> QED
          BY <3>2, <4>1, <5>1 DEF Applied
      <4> QED
        BY <4>2 DEF Obeyed
    <3> QED
      BY <1>6, <3>1, <3>2
  <2> QED
    BY <1>1, <2>1, <2>2, <2>3, <2>4 DEF KillInv
<1>7. CASE UNCHANGED vars
  <2>1. Records' = Records /\ Now' = Now /\ \A r \in Records : Rec(r)' = Rec(r)
    BY <1>7 DEF vars, Records, Rec, Now
  <2>2. \A r \in Records : Fate(r)'
    BY <1>7, <2>1 DEF vars, KillInv, Fate, HasWork, AskedFor, Settling
  <2>3. TableMatches' /\ StillReading'
    BY <1>1, <1>7 DEF vars, TableMatches, StillReading, Rec, Records
  <2>4. \A i \in DOMAIN kill_event_list : Obeyed(i) => Obeyed(i)'
    BY <1>7, <2>1 DEF vars, Obeyed, Applied, DistinctPids, Rec
  <2> QED
    BY <1>1, <1>7, <2>1, <2>2, <2>3, <2>4 DEF vars, KillInv
<1>8. ASSUME NEW k \in KillLines, ReadKillLine(k) PROVE KillInv'
  <2>1. /\ kill_event_list \in Seq(KillLines) /\ kill_event_list' = Append(kill_event_list, k)
        /\ phase \in {"input", "kill_input"} /\ phase' = phase
        /\ UNCHANGED <<registered_processes, process_table, running_process, time_tick, event_index>>
    BY <1>1, <1>8 DEF ReadKillLine, TypeOK
  <2>2. \A i \in DOMAIN kill_event_list :
          i \in DOMAIN kill_event_list' /\ kill_event_list'[i] = kill_event_list[i]
    BY <2>1
  <2> QED
    BY <1>6, <2>1, <2>2
<1>9. CASE ReadBlankLine
  BY <1>6, <1>9 DEF ReadBlankLine
<1>10. CASE EndOfInput
  BY <1>6, <1>10 DEF EndOfInput
<1>11. CASE print_result_table
  BY <1>6, <1>11 DEF print_result_table
<1> QED
  BY <1>2, <1>3, <1>4, <1>5, <1>7, <1>8, <1>9, <1>10, <1>11
  DEF Next, ReadInput, execute_scheduler, apply_pending_kill_events

\* No record and no event exists at the start.
LEMMA InitKill == Init => KillInv
<1>1. Init => WorkInv
  BY InitQueueInv DEF WorkInv, Init, Records
<1> QED
  BY <1>1 DEF Init, KillInv, TableMatches, StillReading, Records

\* The hash table, the fates of the records and the events applied so far fit
\* together in every reachable state.
THEOREM KillsAlwaysObeyed == Spec => []KillInv
  BY InitKill, NextKill, PTL DEF Spec

\* Every KILL event whose time has come has terminated its process by then, as
\* long as no two processes share a pid; and whoever was killed had still work
\* to do (apply_pending_kill_events comes before the dispatch of a tick) and
\* was killed on the tick some event asked for.
THEOREM KillsCorrect == Spec => []KillsObeyed
<1>1. KillInv => KillsObeyed
  <2> SUFFICES ASSUME KillInv, phase \notin {"input", "kill_input"} PROVE KillsObeyed
    BY DEF KillsObeyed
  <2>1. \A i \in DOMAIN kill_event_list : Obeyed(i)
    BY DEF KillInv
  <2>2. \A r \in Records : Fate(r)
    BY DEF KillInv
  <2> QED
    BY <2>1, <2>2 DEF KillsObeyed, Obeyed, Fate, HasWork, AskedFor
<1> QED
  BY <1>1, KillsAlwaysObeyed, PTL

-----------------------------------------------------------------------------
(* The order of the queues.                                                *)

\* Joining at the rear keeps the order of a queue.
LEMMA OrderAfterAppend ==
  ASSUME NEW S, NEW q \in Seq(S), NEW e \in S, IsInjective(q), e \notin ToSet(q)
  PROVE  KeepsOrder(q, Append(q, e))
<1> DEFINE a == Append(q, e)
<1>1. /\ Len(q) \in Nat /\ DOMAIN q = 1 .. Len(q) /\ DOMAIN a = 1 .. Len(q) + 1
      /\ \A i \in 1 .. Len(q) : a[i] = q[i]
      /\ a[Len(q) + 1] = e
  OBVIOUS
<1>2. ToSet(a) = ToSet(q) \cup {e}
  BY AppendFacts
<1> HIDE DEF a
<1>3. \A r, s : Before(q, r, s) => Before(a, r, s)
  BY <1>1 DEF Before
<1>4. ASSUME NEW r \in ToSet(q) PROVE Before(a, r, e)
  BY <1>1 DEF Before, ToSet
<1> QED
  BY <1>2, <1>3, <1>4 DEF KeepsOrder, a

\* Leaving from the front keeps the order of a queue.
LEMMA OrderAfterTail ==
  ASSUME NEW S, NEW q \in Seq(S), IsInjective(q), q # <<>>
  PROVE  KeepsOrder(q, Tail(q))
<1> DEFINE t == Tail(q)
<1>1. /\ Len(q) \in Nat /\ Len(q) > 0
      /\ DOMAIN q = 1 .. Len(q) /\ DOMAIN t = 1 .. Len(q) - 1
      /\ \A i \in 1 .. Len(q) - 1 : t[i] = q[i + 1]
      /\ Head(q) = q[1]
  BY EmptySeq
<1>2. ToSet(t) = ToSet(q) \ {Head(q)}
  BY TailFacts
<1> HIDE DEF t
<1>3. ASSUME NEW r \in ToSet(t), NEW s \in ToSet(t), Before(q, r, s) PROVE Before(t, r, s)
  <2>1. PICK i \in 1 .. Len(q), j \in 1 .. Len(q) : i < j /\ q[i] = r /\ q[j] = s
    BY <1>1, <1>3 DEF Before
  <2>2. i # 1
    BY <1>1, <1>2, <2>1
  <2>3. /\ i - 1 \in 1 .. Len(q) - 1 /\ j - 1 \in 1 .. Len(q) - 1
        /\ i - 1 < j - 1 /\ t[i - 1] = r /\ t[j - 1] = s
    BY <1>1, <2>1, <2>2
  <2> QED
    BY <1>1, <2>3 DEF Before
<1> QED
  BY <1>2, <1>3 DEF KeepsOrder, t

\* Unlinking a place keeps the order of a queue.
LEMMA OrderAfterRemoval ==
  ASSUME NEW S, NEW q \in Seq(S), IsInjective(q), NEW n \in DOMAIN q
  PROVE  KeepsOrder(q, RemoveAt(q, n))
<1> DEFINE t == RemoveAt(q, n)
<1>1. /\ t \in Seq(S) /\ Len(q) \in Nat /\ n \in 1 .. Len(q) /\ Len(t) = Len(q) - 1
      /\ DOMAIN q = 1 .. Len(q) /\ DOMAIN t = 1 .. Len(q) - 1
      /\ \A j \in 1 .. Len(q) - 1 : t[j] = IF j < n THEN q[j] ELSE q[j + 1]
  BY RemoveAtElements
<1>2. ToSet(t) = ToSet(q) \ {q[n]}
  BY RemoveAtFacts
<1> HIDE DEF t
<1>3. ASSUME NEW r \in ToSet(t), NEW s \in ToSet(t), Before(q, r, s) PROVE Before(t, r, s)
  <2>1. PICK i \in 1 .. Len(q), j \in 1 .. Len(q) : i < j /\ q[i] = r /\ q[j] = s
    BY <1>1, <1>3 DEF Before
  <2>2. i # n /\ j # n
    BY <1>1, <1>2, <1>3, <2>1
  <2> DEFINE dst(m) == IF m < n THEN m ELSE m - 1
  <2>3. /\ dst(i) \in 1 .. Len(q) - 1 /\ dst(j) \in 1 .. Len(q) - 1 /\ dst(i) < dst(j)
        /\ t[dst(i)] = r /\ t[dst(j)] = s
    BY <1>1, <2>1, <2>2
  <2> QED
    BY <1>1, <2>3 DEF Before
<1> QED
  BY <1>2, <1>3 DEF KeepsOrder, t

\* A queue that is not touched keeps its order.
LEMMA OrderUntouched == ASSUME NEW q PROVE KeepsOrder(q, q)
  BY DEF KeepsOrder

\* Every step keeps the order of both queues.
LEMMA QueuesKeepOrder ==
  ASSUME QueueInv, [Next]_vars
  PROVE  KeepsOrder(ready_queue, ready_queue') /\ KeepsOrder(waiting_queue, waiting_queue')
<1>1. /\ TypeOK /\ ready_queue \in Seq(Records) /\ waiting_queue \in Seq(Records)
      /\ IsInjective(ready_queue) /\ IsInjective(waiting_queue)
      /\ \A r \in Records : PlacedByState(r)
      /\ total_process_count + 1 \notin Records
  BY RecordsAreAnInterval DEF QueueInv, TypeOK, PlacementMatchesState
<1>2. CASE \E l \in ProcessLines : ParseProcessLine(l)
  <2>1. ready_queue' = Append(ready_queue, total_process_count + 1) /\ waiting_queue' = waiting_queue
    BY <1>2 DEF ParseProcessLine
  <2>2. ready_queue \in Seq(Records \cup {total_process_count + 1})
    BY <1>1
  <2>3. total_process_count + 1 \notin ToSet(ready_queue)
    BY <1>1 DEF ToSet
  <2> QED
    BY <1>1, <2>1, <2>2, <2>3, OrderAfterAppend, OrderUntouched
<1>3. CASE Dispatch
  BY <1>1, <1>3, OrderAfterTail, OrderUntouched DEF Dispatch
<1>4. CASE KillReady
  BY <1>1, <1>4, OrderAfterRemoval, OrderUntouched DEF KillReady
<1>5. CASE KillWaiting
  BY <1>1, <1>5, OrderAfterRemoval, OrderUntouched DEF KillWaiting
<1>6. CASE StartIo
  <2>1. running_process \in Records /\ running_process \notin ToSet(waiting_queue)
    BY <1>1, <1>6 DEF TypeOK, StartIo, PlacedByState
  <2> QED
    BY <1>1, <1>6, <2>1, OrderAfterAppend, OrderUntouched DEF StartIo
<1>7. CASE Wake
  <2>1. cursor \in DOMAIN waiting_queue
    BY <1>1, <1>7 DEF TypeOK, Wake
  <2>2. waiting_queue[cursor] \in Records /\ waiting_queue[cursor] \in ToSet(waiting_queue)
    BY <1>1, <2>1, RemoveAtFacts
  <2>3. waiting_queue[cursor] \notin ToSet(ready_queue)
    BY <1>1, <2>2 DEF PlacedByState
  <2> QED
    BY <1>1, <1>7, <2>1, <2>2, <2>3, OrderAfterAppend, OrderAfterRemoval DEF Wake
<1>8. CASE UNCHANGED <<ready_queue, waiting_queue>>
  BY <1>8, OrderUntouched
<1> QED
  BY <1>2, <1>3, <1>4, <1>5, <1>6, <1>7, <1>8
  DEF Next, ReadInput, execute_scheduler, apply_pending_kill_events, ReadKillLine,
      ReadBlankLine, EndOfInput, SkipKillEvent, kill_running_process, NoDispatch, Execute,
      Finish, KeepRunning, PassOver, EndTick, print_result_table, vars, queues

\* Nobody overtakes in the ready queue or in the waiting queue, whichever
\* mixture of dispatches, kills and wake-ups works on them.
THEOREM NobodyOvertakes == Spec => NoOvertaking
<1>1. QueueInv /\ [Next]_vars =>
        [/\ KeepsOrder(ready_queue, ready_queue')
         /\ KeepsOrder(waiting_queue, waiting_queue')]_vars
  BY QueuesKeepOrder
<1> QED
  BY <1>1, QueuesAlwaysConsistent, PTL DEF Spec, NoOvertaking

-----------------------------------------------------------------------------
(* What a step charges.                                                    *)

\* What a record keeps all its life; a tick on the CPU is all that is charged.
SameLine(r) ==
  /\ Rec(r)'.process_id = Rec(r).process_id
  /\ Rec(r)'.total_cpu_burst = Rec(r).total_cpu_burst
  /\ Rec(r)'.io_start_tick = Rec(r).io_start_tick
  /\ Rec(r)'.io_duration_ticks = Rec(r).io_duration_ticks
  /\ Rec(r).terminated_by_kill => Rec(r)'.terminated_by_kill
SameAccount(r) == SameLine(r) /\ Rec(r)'.executed_cpu_time = Rec(r).executed_cpu_time

\* A step that rewrites one record, as it is seen by the accounts.
LEMMA OneRecordAccount ==
  ASSUME QueueInv, NEW r \in Records, NEW new \in ProcessRecords,
         registered_processes' = [registered_processes EXCEPT ![r] = new],
         new.process_id = Rec(r).process_id,
         new.total_cpu_burst = Rec(r).total_cpu_burst,
         new.io_start_tick = Rec(r).io_start_tick,
         new.io_duration_ticks = Rec(r).io_duration_ticks,
         new.executed_cpu_time = Rec(r).executed_cpu_time,
         Rec(r).terminated_by_kill => new.terminated_by_kill
  PROVE  Records' = Records /\ \A s \in Records : SameAccount(s)
<1>1. Records' = Records /\ Rec(r)' = new /\ \A s \in Records : s # r => Rec(s)' = Rec(s)
  BY OneRecord
<1> QED
  BY <1>1 DEF SameAccount, SameLine

\* A kill charges nothing.
LEMMA KillAccount ==
  ASSUME QueueInv, NEW r \in Records, KillRecord(r)
  PROVE  Records' = Records /\ \A s \in Records : SameAccount(s)
<1> PICK new : new = KilledAt(Rec(r), time_tick)
  OBVIOUS
<1>1. Rec(r) \in ProcessRecords /\ time_tick \in Int
  BY RecordsAreAnInterval DEF QueueInv, TypeOK
<1>2. registered_processes' = [registered_processes EXCEPT ![r] = new]
  BY DEF KillRecord, Records, Rec
<1>3. /\ new \in ProcessRecords /\ new.total_cpu_burst = Rec(r).total_cpu_burst
      /\ new.io_start_tick = Rec(r).io_start_tick
      /\ new.io_duration_ticks = Rec(r).io_duration_ticks
      /\ new.executed_cpu_time = Rec(r).executed_cpu_time
      /\ new.terminated_by_kill = TRUE
  BY <1>1, KilledFacts
<1>4. new.process_id = Rec(r).process_id
  BY <1>1, StampFacts
<1> QED
  BY <1>2, <1>3, <1>4, OneRecordAccount

\* A step that only moves a record charges nothing.
LEMMA MoveAccount ==
  ASSUME QueueInv, NEW r \in Records, NEW st \in States,
         registered_processes' = [registered_processes EXCEPT ![r].execution_state = st]
  PROVE  Records' = Records /\ \A s \in Records : SameAccount(s)
<1> PICK new : new = [Rec(r) EXCEPT !.execution_state = st]
  OBVIOUS
<1>1. Rec(r) \in ProcessRecords
  BY RecordsAreAnInterval DEF QueueInv
<1>2. registered_processes' = [registered_processes EXCEPT ![r] = new]
  BY DEF Rec
<1>3. /\ new \in ProcessRecords /\ new.total_cpu_burst = Rec(r).total_cpu_burst
      /\ new.io_start_tick = Rec(r).io_start_tick
      /\ new.io_duration_ticks = Rec(r).io_duration_ticks
      /\ new.executed_cpu_time = Rec(r).executed_cpu_time
      /\ new.terminated_by_kill = Rec(r).terminated_by_kill
  BY <1>1, MovedFacts
<1>4. new.process_id = Rec(r).process_id
  BY <1>1 DEF ProcessRecords
<1> QED
  BY <1>2, <1>3, <1>4, OneRecordAccount

\* Starting an I/O charges nothing.
LEMMA StartIoAccount ==
  ASSUME QueueInv, StartIo
  PROVE  Records' = Records /\ \A s \in Records : SameAccount(s)
<1> PICK r : r = running_process
  OBVIOUS
<1> PICK io : io = Rec(r).io_duration_ticks
  OBVIOUS
<1> PICK new : new = [Rec(r) EXCEPT !.remaining_io_ticks = io, !.execution_state = "WAITING"]
  OBVIOUS
<1>1. r \in Records /\ Rec(r) \in ProcessRecords
  BY RecordsAreAnInterval DEF QueueInv, TypeOK, StartIo
<1>2. io \in Nat
  BY <1>1 DEF StartIo, IoDue, ProcessRecords
<1>3. registered_processes' = [registered_processes EXCEPT ![r] = new]
  BY <1>1, UpdateFacts DEF StartIo, Rec, QueueInv, TypeOK, Records
<1>4. /\ new \in ProcessRecords /\ new.total_cpu_burst = Rec(r).total_cpu_burst
      /\ new.io_start_tick = Rec(r).io_start_tick
      /\ new.io_duration_ticks = Rec(r).io_duration_ticks
      /\ new.executed_cpu_time = Rec(r).executed_cpu_time
      /\ new.terminated_by_kill = Rec(r).terminated_by_kill
  BY <1>1, <1>2, IoStartedFacts
<1>5. new.process_id = Rec(r).process_id
  BY <1>1 DEF ProcessRecords
<1> QED
  BY <1>1, <1>3, <1>4, <1>5, OneRecordAccount

\* A completion charges nothing.
LEMMA FinishAccount ==
  ASSUME QueueInv, Finish
  PROVE  Records' = Records /\ \A s \in Records : SameAccount(s)
<1> PICK r : r = running_process
  OBVIOUS
<1> PICK new : new = mark_process_terminated(Rec(r), time_tick + 1)
  OBVIOUS
<1>1. r \in Records /\ Rec(r) \in ProcessRecords /\ time_tick + 1 \in Int
  BY RecordsAreAnInterval DEF QueueInv, TypeOK, Finish
<1>2. registered_processes' = [registered_processes EXCEPT ![r] = new]
  BY <1>1 DEF Finish, Rec, Records
<1>3. /\ new \in ProcessRecords /\ new.total_cpu_burst = Rec(r).total_cpu_burst
      /\ new.io_start_tick = Rec(r).io_start_tick
      /\ new.io_duration_ticks = Rec(r).io_duration_ticks
      /\ new.executed_cpu_time = Rec(r).executed_cpu_time
      /\ new.terminated_by_kill = Rec(r).terminated_by_kill
  BY <1>1, TerminatedFacts
<1>4. new.process_id = Rec(r).process_id
  BY <1>1, StampFacts
<1> QED
  BY <1>1, <1>2, <1>3, <1>4, OneRecordAccount

\* A tick charges the process on the CPU and nobody else.
LEMMA ExecuteAccount ==
  ASSUME QueueInv, Execute
  PROVE  /\ Records' = Records
         /\ \A s \in Records :
              /\ SameLine(s)
              /\ Rec(s)'.executed_cpu_time =
                   Rec(s).executed_cpu_time + (IF s = running_process THEN 1 ELSE 0)
<1>1. \A s \in Records : Rec(s) \in ProcessRecords /\ Rec(s).executed_cpu_time \in Int
  BY RecordsAreAnInterval DEF QueueInv, ProcessRecords
<1>2. Records' = Records
  BY ExecuteRecords
<1>3. ASSUME NEW s \in Records
      PROVE  /\ SameLine(s)
             /\ Rec(s)'.executed_cpu_time =
                  Rec(s).executed_cpu_time + (IF s = running_process THEN 1 ELSE 0)
  <2>1. CASE s = running_process
    <3>1. Rec(s)' = ExecutedOnce(Rec(s))
      BY <2>1, ExecuteRecords
    <3> QED
      BY <1>1, <2>1, <3>1, ExecutedFacts, UnstampedFacts DEF SameLine
  <2>2. CASE s # running_process /\ s \in ToSet(waiting_queue)
    <3>1. Rec(s)' = decrement_io_for_process(Rec(s))
      BY <2>2, ExecuteRecords
    <3> QED
      BY <1>1, <2>2, <3>1, DecrementedFacts, UnstampedFacts DEF SameLine
  <2>3. CASE s # running_process /\ s \notin ToSet(waiting_queue)
    <3>1. Rec(s)' = Rec(s)
      BY <2>3, ExecuteRecords
    <3> QED
      BY <1>1, <2>3, <3>1 DEF SameLine
  <2> QED
    BY <2>1, <2>2, <2>3
<1> QED
  BY <1>2, <1>3

\* The accounts are touched by a new process, by a tick, and by nothing else.
LEMMA StepsAreCharged ==
  ASSUME QueueInv, [Next]_vars
  PROVE  \/ \E l \in ProcessLines : ParseProcessLine(l)
         \/ Execute
         \/ Records' = Records /\ \A s \in Records : SameAccount(s)
<1>1. CASE kill_running_process \/ KillReady \/ KillWaiting
  <2>1. PICK r \in Records : KillRecord(r)
    BY <1>1 DEF kill_running_process, HitsRunning, KillReady, KillWaiting, QueueInv, TypeOK
  <2> QED
    BY <2>1, KillAccount
<1>2. CASE Dispatch
  <2>1. Head(ready_queue) \in Records
    BY <1>2, TailFacts DEF QueueInv, TypeOK, PlacementMatchesState, Dispatch
  <2> QED
    BY <1>2, <2>1, MoveAccount DEF Dispatch, States
<1>3. CASE Wake
  <2>1. waiting_queue[cursor] \in Records
    BY <1>3 DEF QueueInv, TypeOK, Wake
  <2> QED
    BY <1>3, <2>1, MoveAccount DEF Wake, States
<1>4. CASE StartIo \/ Finish
  BY <1>4, StartIoAccount, FinishAccount
<1>5. CASE UNCHANGED registered_processes
  BY <1>5 DEF SameAccount, SameLine, Records, Rec
<1> QED
  BY <1>1, <1>2, <1>3, <1>4, <1>5
  DEF Next, ReadInput, execute_scheduler, apply_pending_kill_events, ReadKillLine,
      ReadBlankLine, EndOfInput, SkipKillEvent, NoDispatch, KeepRunning, PassOver, EndTick,
      print_result_table, vars

\* The ticks executed by each process, and by all of them together.
Executed == [r \in Records |-> Rec(r).executed_cpu_time]
Spent == SumFunction(Executed)

\* The records, and what each has executed, as the sums see them.
LEMMA SpentFacts ==
  ASSUME NEW recs \in Seq(ProcessRecords), NEW f,
         f = [r \in DOMAIN recs |-> recs[r].executed_cpu_time]
  PROVE  /\ IsFiniteSet(DOMAIN recs)
         /\ SumFunction(f) = SumFunctionOnSet(f, DOMAIN recs)
         /\ \A r \in DOMAIN recs : f[r] = recs[r].executed_cpu_time /\ f[r] \in Nat
<1>1. \A r \in DOMAIN recs : recs[r].executed_cpu_time \in Nat
  <2>1. \A r \in DOMAIN recs : recs[r] \in ProcessRecords
    OBVIOUS
  <2> QED
    BY <2>1 DEF ProcessRecords
<1>2. IsFiniteSet(DOMAIN recs)
  <2>1. DOMAIN recs = 1 .. Len(recs) /\ Len(recs) \in Int /\ 1 \in Int
    OBVIOUS
  <2> QED
    BY <2>1, FS_Interval
<1> QED
  BY <1>1, <1>2 DEF SumFunction

\* What a step adds to the ticks executed.
LEMMA SpentStep ==
  ASSUME QueueInv, [Next]_vars, ~\E l \in ProcessLines : ParseProcessLine(l)
  PROVE  /\ Spent \in Int /\ Spent' \in Int
         /\ Execute /\ running_process # NULL => Spent' = Spent + 1
         /\ ~(Execute /\ running_process # NULL) => Spent' = Spent
<1>0. QueueInv'
  BY NextQueues
<1>1. /\ IsFiniteSet(Records) /\ Spent = SumFunctionOnSet(Executed, Records)
      /\ \A r \in Records : Executed[r] = Rec(r).executed_cpu_time /\ Executed[r] \in Nat
  BY SpentFacts DEF QueueInv, TypeOK, Executed, Spent, Records, Rec
<1>2. /\ Spent' = SumFunctionOnSet(Executed', Records')
      /\ \A r \in Records' : Executed'[r] = Rec(r)'.executed_cpu_time /\ Executed'[r] \in Nat
  BY <1>0, SpentFacts DEF QueueInv, TypeOK, Executed, Spent, Records, Rec
<1>3. Records' = Records
  BY StepsAreCharged, ExecuteAccount
<1>4. Spent \in Int /\ Spent' \in Int
  BY <1>1, <1>2, <1>3, SumType
<1>5. CASE Execute /\ running_process # NULL
  <2>1. running_process \in Records
    BY <1>5 DEF QueueInv, TypeOK
  <2>2. /\ Executed'[running_process] = Executed[running_process] + 1
        /\ \A r \in Records : r # running_process => Executed[r] = Executed'[r]
    BY <1>1, <1>2, <1>3, <1>5, <2>1, ExecuteAccount
  <2> PICK f : f = Executed
    OBVIOUS
  <2> PICK g : g = Executed'
    OBVIOUS
  <2> PICK S : S = Records
    OBVIOUS
  <2>3. /\ IsFiniteSet(S) /\ running_process \in S
        /\ \A x \in S : f[x] \in Int /\ g[x] \in Int
        /\ \A x \in S : x # running_process => f[x] = g[x]
    BY <1>1, <1>2, <1>3, <2>1, <2>2
  <2>4. SumFunctionOnSet(g, S) = SumFunctionOnSet(f, S) - f[running_process] + g[running_process]
    BY <2>3, SumUpdate
  <2>5. Spent' = Spent - f[running_process] + g[running_process]
    BY <1>1, <1>2, <1>3, <2>4
  <2> QED
    BY <1>1, <1>4, <1>5, <2>1, <2>2, <2>5
<1>6. CASE ~(Execute /\ running_process # NULL)
  <2>1. \A r \in Records : Executed[r] = Executed'[r]
    <3>1. NULL \notin Records
      BY RecordsAreAnInterval DEF QueueInv, NULL
    <3>2. CASE Execute
      BY <1>1, <1>2, <1>3, <1>6, <3>1, <3>2, ExecuteAccount
    <3>3. CASE ~Execute
      BY <1>1, <1>2, <1>3, <3>3, StepsAreCharged DEF SameAccount
    <3> QED
      BY <3>2, <3>3
  <2>2. Spent = Spent'
    BY <1>1, <1>2, <1>3, <2>1, SumSame
  <2> QED
    BY <1>4, <1>6, <2>2
<1> QED
  BY <1>5, <1>6

-----------------------------------------------------------------------------
(* The one CPU.                                                            *)

\* A process that has not been on the CPU.
Fresh(r) == Rec(r).execution_state = "READY" /\ Rec(r).executed_cpu_time = 0
StillFresh == phase \in {"input", "kill_input"} => \A r \in Records : Fresh(r)

\* The fresh processes are the last ones typed, but for those killed, and they
\* are in the ready queue in the order they were typed.
FreshInOrder ==
  \A r, s \in Records :
    r < s /\ Fresh(r) =>
      /\ Fresh(s) \/ Rec(s).terminated_by_kill
      /\ Fresh(s) => Before(ready_queue, r, s)

\* Without I/O, every tick of a simulation that is not over is spent.
AllEnded == \A r \in Records : Rec(r).execution_state = "TERMINATED"
NoIo == \A r \in Records : ~DoesIo(Rec(r))
NeverIdle ==
  NoIo =>
    /\ phase = "kills" => Spent = time_tick
    /\ phase = "execute" => Spent = time_tick /\ (running_process # NULL \/ AllEnded)
    /\ phase \in {"settle", "wake"} => Spent = time_tick + 1 \/ AllEnded

CpuInv == KillInv /\ StillFresh /\ FreshInOrder /\ Spent <= Now /\ NeverIdle

\* Nobody becomes fresh again.
LEMMA FreshBefore ==
  ASSUME WorkInv, [Next]_vars, ~\E l \in ProcessLines : ParseProcessLine(l),
         NEW r \in Records, Fresh(r)'
  PROVE  Fresh(r)
<1>1. QueueInv /\ Rec(r) \in ProcessRecords
  BY RecordsAreAnInterval DEF WorkInv, QueueInv
<1>2. Rec(r).execution_state \in {"READY", "WAITING"}
  <2>1. CASE \E t \in Records : Killing(t) \/ Moving(t)
    BY <2>1 DEF Killing, Moving, Edge, Fresh
  <2>2. CASE SameLives
    BY <2>2 DEF SameLives, Fresh
  <2> QED
    BY <1>1, <2>1, <2>2, StepsAreEdges
<1>3. r # running_process
  BY <1>1, <1>2 DEF QueueInv, PlacementMatchesState, PlacedByState
<1>4. Rec(r).executed_cpu_time = 0
  <2>1. Rec(r)'.executed_cpu_time = Rec(r).executed_cpu_time \/ Execute
    BY <1>1, StepsAreCharged DEF SameAccount
  <2>2. Rec(r).executed_cpu_time \in Nat
    BY <1>1 DEF ProcessRecords
  <2> QED
    BY <1>1, <1>3, <2>1, <2>2, ExecuteAccount DEF Fresh
<1>5. Rec(r).execution_state # "WAITING"
  <2>1. Rec(r).io_start_tick \in Int
    BY <1>1 DEF ProcessRecords
  <2> QED
    BY <1>4, <2>1 DEF WorkInv, Work, DoesIo
<1> QED
  BY <1>2, <1>4, <1>5 DEF Fresh

\* Who is no longer fresh was dispatched or killed.
LEMMA FreshAfter ==
  ASSUME KillInv, [Next]_vars, NEW r \in Records, Fresh(r)
  PROVE  \/ Fresh(r)' \/ Rec(r)'.terminated_by_kill
         \/ Dispatch /\ r = Head(ready_queue)
<1>1. QueueInv /\ Rec(r) \in ProcessRecords
  BY RecordsAreAnInterval DEF KillInv, WorkInv, QueueInv
<1>2. r # running_process
  BY <1>1 DEF QueueInv, PlacementMatchesState, PlacedByState, Fresh
<1>3. CASE \E l \in ProcessLines : ParseProcessLine(l)
  <2>1. Rec(r)' = Rec(r)
    BY <1>1, <1>3 DEF ParseProcessLine, Rec, Records, QueueInv, TypeOK
  <2> QED
    BY <2>1 DEF Fresh
<1>4. CASE ~\E l \in ProcessLines : ParseProcessLine(l)
  <2>1. Rec(r)'.executed_cpu_time = 0
    <3>1. Rec(r).executed_cpu_time = 0
      BY DEF Fresh
    <3> QED
      BY <1>1, <1>2, <1>4, <3>1, StepsAreCharged, ExecuteAccount DEF SameAccount
  <2>2. CASE Rec(r)'.execution_state = "READY"
    BY <2>1, <2>2 DEF Fresh
  <2>3. CASE Rec(r)'.execution_state # "READY"
    <3>1. PICK t \in Records : Killing(t) \/ Moving(t)
      BY <1>1, <1>4, <2>3, StepsAreEdges DEF SameLives, Fresh
    <3>2. t = r
      BY <2>3, <3>1 DEF Killing, Moving, Edge, Fresh
    <3>3. CASE Killing(r)
      BY <3>3 DEF Killing
    <3>4. CASE Moving(r)
      <4>1. Rec(r)'.execution_state = "RUNNING" /\ running_process = NULL
        BY <3>4 DEF Moving, Edge, Fresh
      <4>2. r \in Records' /\ QueueInv'
        BY <1>1, <3>4, NextQueues DEF Moving, Edge
      <4>3. running_process' = r /\ r # NULL
        BY <4>1, <4>2, <1>1, RecordsAreAnInterval
        DEF QueueInv, PlacementMatchesState, PlacedByState, NULL
      <4>4. Dispatch
        BY <4>1, <4>3
        DEF Next, ReadInput, execute_scheduler, apply_pending_kill_events, ParseProcessLine,
            ReadKillLine, ReadBlankLine, EndOfInput, SkipKillEvent, kill_running_process,
            KillReady, KillWaiting, NoDispatch, Execute, StartIo, Finish, KeepRunning, Wake,
            PassOver, EndTick, print_result_table, vars
      <4> QED
        BY <4>3, <4>4 DEF Dispatch
    <3> QED
      BY <3>1, <3>2, <3>3, <3>4
  <2> QED
    BY <2>2, <2>3
<1> QED
  BY <1>3, <1>4

\* First come, first served, as an invariant: who is taken from the front of
\* the ready queue leaves nobody fresh behind who was typed before.
LEMMA NextFresh == ASSUME CpuInv, [Next]_vars PROVE StillFresh' /\ FreshInOrder'
<1>1. /\ KillInv /\ WorkInv /\ QueueInv /\ QueueInv' /\ TypeOK /\ StillFresh /\ FreshInOrder
      /\ Records = 1 .. total_process_count /\ total_process_count \in Nat
  BY NextQueues, RecordsAreAnInterval DEF CpuInv, KillInv, WorkInv, QueueInv
<1>2. CASE \E l \in ProcessLines : ParseProcessLine(l)
  <2>1. PICK l \in ProcessLines : ParseProcessLine(l)
    BY <1>2
  <2> PICK n : n = total_process_count + 1
    OBVIOUS
  <2>a. /\ registered_processes \in Seq(ProcessRecords)
        /\ total_process_count = Len(registered_processes)
        /\ registered_processes' = Append(registered_processes, create_process_record(l))
        /\ phase = "input" /\ n \in Nat /\ n \notin Records /\ \A r \in Records : r < n
    BY <1>1, <2>1 DEF TypeOK, total_process_count, ParseProcessLine
  <2>2. /\ Records' = Records \cup {n}
        /\ Rec(n)' = create_process_record(l)
        /\ \A r \in Records : Rec(r)' = Rec(r)
    BY <2>a DEF Records, Rec
  <2>3. ASSUME NEW r \in Records' PROVE Fresh(r)'
    <3>1. CASE r \in Records
      BY <1>1, <2>a, <2>2, <3>1 DEF StillFresh, Fresh
    <3>2. CASE r = n
      BY <2>2, <3>2 DEF Fresh, create_process_record
    <3> QED
      BY <2>2, <3>1, <3>2
  <2>4. ASSUME NEW r \in Records', NEW s \in Records', r < s PROVE Before(ready_queue, r, s)'
    <3>1. r \in Records /\ (s \in Records \/ s = n)
      BY <1>1, <2>a, <2>2, <2>4
    <3>2. r \in ToSet(ready_queue) /\ r \in ToSet(ready_queue') /\ s \in ToSet(ready_queue')
      BY <1>1, <2>a, <2>2, <2>3, <3>1
      DEF QueueInv, PlacementMatchesState, PlacedByState, StillFresh, Fresh
    <3>3. CASE s \in Records
      <4>1. Before(ready_queue, r, s) /\ s \in ToSet(ready_queue)
        BY <1>1, <2>a, <2>2, <2>4, <3>1, <3>3
        DEF FreshInOrder, StillFresh, QueueInv, PlacementMatchesState, PlacedByState, Fresh
      <4> QED
        BY <1>1, <3>2, <4>1, QueuesKeepOrder DEF KeepsOrder
    <3>4. CASE s = n
      <4>1. s \notin ToSet(ready_queue)
        BY <1>1, <2>a, <3>4 DEF TypeOK, ToSet
      <4> QED
        BY <1>1, <3>2, <4>1, QueuesKeepOrder DEF KeepsOrder
    <3> QED
      BY <3>1, <3>3, <3>4
  <2> QED
    BY <2>3, <2>4 DEF StillFresh, FreshInOrder
<1>3. CASE ~\E l \in ProcessLines : ParseProcessLine(l)
  <2>1. Records' = Records
    BY <1>1, <1>3, StepsAreCharged, ExecuteAccount
  <2>2. StillFresh'
    <3>1. phase' \in {"input", "kill_input"} =>
            phase \in {"input", "kill_input"} /\ UNCHANGED registered_processes
      BY <1>3 DEF Next, ReadInput, ReadKillLine, ReadBlankLine, EndOfInput,
             execute_scheduler, apply_pending_kill_events, SkipKillEvent, EventPending,
             kill_running_process, KillReady, KillWaiting, Dispatch, NoDispatch, Execute, StartIo,
             Finish, KeepRunning, Wake, PassOver, EndTick, print_result_table, vars
    <3> QED
      BY <1>1, <3>1 DEF StillFresh, Fresh, Rec, Records
  <2>3. ASSUME NEW r \in Records, NEW s \in Records, r < s, Fresh(r)'
        PROVE  /\ Fresh(s)' \/ Rec(s)'.terminated_by_kill
               /\ Fresh(s)' => Before(ready_queue, r, s)'
    <3>1. Fresh(r)
      BY <1>1, <1>3, <2>3, FreshBefore
    <3>2. CASE Rec(s).terminated_by_kill
      <4>1. Rec(s).execution_state = "TERMINATED"
        BY <1>1, <3>2 DEF KillInv, Fate
      <4>2. Rec(s)' = Rec(s)
        BY <1>1, <4>1, TerminatedStays DEF Rec
      <4> QED
        BY <3>2, <4>1, <4>2 DEF Fresh
    <3>3. CASE ~Rec(s).terminated_by_kill
      <4>1. Fresh(s) /\ Before(ready_queue, r, s)
        BY <1>1, <2>3, <3>1, <3>3 DEF FreshInOrder
      <4>2. ~(Dispatch /\ s = Head(ready_queue))
        <5>1. SUFFICES ASSUME Dispatch, s = Head(ready_queue) PROVE FALSE
          OBVIOUS
        <5>2. PICK i \in DOMAIN ready_queue, j \in DOMAIN ready_queue :
                i < j /\ ready_queue[j] = s
          BY <4>1 DEF Before
        <5>3. /\ ready_queue \in Seq(Records) /\ IsInjective(ready_queue)
              /\ ready_queue # <<>>
          BY <1>1, <5>1 DEF QueueInv, TypeOK, PlacementMatchesState, Dispatch
        <5>a. i \in Nat \ {0} /\ j \in Nat
          BY <5>3
        <5>4. Head(ready_queue) = ready_queue[1] /\ 1 \in DOMAIN ready_queue
          BY <5>3, EmptySeq
        <5>5. j = 1
          BY <5>1, <5>2, <5>3, <5>4 DEF IsInjective
        <5> QED
          BY <5>2, <5>a, <5>5
      <4>3. Fresh(s)' \/ Rec(s)'.terminated_by_kill
        BY <1>1, <4>1, <4>2, FreshAfter
      <4>4. ASSUME Fresh(s)' PROVE Before(ready_queue, r, s)'
        <5>1. /\ r \in ToSet(ready_queue) /\ s \in ToSet(ready_queue)
              /\ r \in ToSet(ready_queue') /\ s \in ToSet(ready_queue')
          BY <1>1, <2>1, <2>3, <3>1, <4>1, <4>4
          DEF QueueInv, PlacementMatchesState, PlacedByState, Fresh
        <5> QED
          BY <1>1, <4>1, <5>1, QueuesKeepOrder DEF KeepsOrder
      <4> QED
        BY <4>3, <4>4
    <3> QED
      BY <3>2, <3>3
  <2> QED
    BY <2>1, <2>2, <2>3 DEF FreshInOrder
<1> QED
  BY <1>2, <1>3

\* When every process has ended, the loop has counted them all.
LEMMA AllEndedCounted ==
  ASSUME QueueInv, AllEnded
  PROVE  terminated_counter >= total_process_count
<1>1. /\ Records = 1 .. total_process_count /\ total_process_count \in Nat
      /\ terminated_counter = Len(finished_queue) /\ Len(finished_queue) \in Nat
      /\ finished_queue \in [1 .. Len(finished_queue) -> Records]
  BY RecordsAreAnInterval DEF QueueInv, TypeOK, CounterMatchesQueue
<1>2. \A r \in Records : r \in ToSet(finished_queue)
  BY DEF QueueInv, PlacementMatchesState, PlacedByState, AllEnded
<1>3. \A m \in Nat : IsFiniteSet(1 .. m) /\ Cardinality(1 .. m) = m
  <2> TAKE m \in Nat
  <2>1. 1 \in Int /\ m \in Int /\ (IF 1 > m THEN 0 ELSE m - 1 + 1) = m
    OBVIOUS
  <2> QED
    BY <2>1, FS_Interval
<1>4. finished_queue \in Surjection(1 .. Len(finished_queue), Records)
  BY <1>1, <1>2 DEF Surjection, ToSet
<1>5. Cardinality(Records) <= Cardinality(1 .. Len(finished_queue))
  BY <1>1, <1>3, <1>4, FS_Surjection
<1> QED
  BY <1>1, <1>3, <1>5

\* The ticks executed stay within the clock.
LEMMA NextSpent == ASSUME CpuInv, [Next]_vars PROVE Spent' <= Now' /\ Spent' \in Int
<1>1. /\ KillInv /\ QueueInv /\ QueueInv' /\ TypeOK /\ Spent <= Now
      /\ Now \in Int /\ Now' \in Int /\ Now' >= Now
  BY NextQueues, NowFacts DEF CpuInv, KillInv, WorkInv, QueueInv
<1>2. CASE \E l \in ProcessLines : ParseProcessLine(l)
  <2>1. phase' = "input" /\ time_tick' = 0
    BY <1>1, <1>2 DEF ParseProcessLine, KillInv, StillReading
  <2>2. \A r \in Records' : Fresh(r)'
    BY <2>1, NextFresh DEF StillFresh
  <2>3. /\ IsFiniteSet(Records') /\ Spent' = SumFunctionOnSet(Executed', Records')
        /\ \A r \in Records' : Executed'[r] = Rec(r)'.executed_cpu_time
    BY <1>1, SpentFacts DEF QueueInv, TypeOK, Executed, Spent, Records, Rec
  <2>4. \A r \in Records' : Executed'[r] = 0
    BY <2>2, <2>3 DEF Fresh
  <2>5. Spent' = 0
    BY <2>3, <2>4, SumZero
  <2> QED
    BY <2>1, <2>5 DEF Now
<1>3. CASE ~\E l \in ProcessLines : ParseProcessLine(l)
  <2>1. /\ Spent \in Int /\ Spent' \in Int
        /\ Execute /\ running_process # NULL => Spent' = Spent + 1
        /\ ~(Execute /\ running_process # NULL) => Spent' = Spent
    BY <1>1, <1>3, SpentStep
  <2>2. Execute => Now' = Now + 1
    BY DEF Execute, Now
  <2> QED
    BY <1>1, <2>1, <2>2
<1> QED
  BY <1>2, <1>3

\* No tick is wasted: a CPU that stays idle when nobody does I/O has nobody left.
LEMMA NextIdle == ASSUME CpuInv, [Next]_vars PROVE NeverIdle'
<1>1. /\ KillInv /\ WorkInv /\ QueueInv /\ QueueInv' /\ TypeOK /\ TypeOK' /\ NeverIdle /\ StillFresh
      /\ time_tick \in Nat
  BY NextQueues DEF CpuInv, KillInv, WorkInv, QueueInv, TypeOK
<1>2. CASE \E l \in ProcessLines : ParseProcessLine(l)
  BY <1>2 DEF ParseProcessLine, NeverIdle
<1>3. CASE ~\E l \in ProcessLines : ParseProcessLine(l)
  <2> SUFFICES ASSUME NoIo' PROVE NeverIdle'
    BY DEF NeverIdle
  <2>1. Records' = Records /\ \A r \in Records : SameLine(r)
    BY <1>1, <1>3, StepsAreCharged, ExecuteAccount DEF SameAccount
  <2>2. NoIo
    BY <2>1 DEF NoIo, DoesIo, SameLine
  <2>3. /\ Spent \in Int /\ Spent' \in Int
        /\ Execute /\ running_process # NULL => Spent' = Spent + 1
        /\ ~(Execute /\ running_process # NULL) => Spent' = Spent
    BY <1>1, <1>3, SpentStep
  <2>4. AllEnded => AllEnded'
    <3>1. \A r \in Records : Rec(r).execution_state = "TERMINATED" => Rec(r)' = Rec(r)
      BY <1>1, TerminatedStays DEF Rec
    <3> QED
      BY <2>1, <3>1 DEF AllEnded
  <2>5. AllEnded => running_process = NULL
    BY <1>1 DEF AllEnded, QueueInv, TypeOK, PlacementMatchesState, PlacedByState
  <2>6. CASE EndOfInput
    <3>1. Spent = 0
      <4>1. /\ IsFiniteSet(Records) /\ Spent = SumFunctionOnSet(Executed, Records)
            /\ \A r \in Records : Executed[r] = Rec(r).executed_cpu_time
        BY <1>1, SpentFacts DEF QueueInv, TypeOK, Executed, Spent, Records, Rec
      <4>2. \A r \in Records : Executed[r] = 0
        BY <1>1, <2>6, <4>1 DEF StillFresh, Fresh, EndOfInput
      <4> QED
        BY <4>1, <4>2, SumZero
    <3>2. time_tick = 0 /\ time_tick' = 0
      BY <1>1, <2>6 DEF EndOfInput, KillInv, StillReading
    <3>3. phase' \in {"kills", "done"} /\ ~Execute
      BY <2>6 DEF EndOfInput, Execute
    <3> QED
      BY <2>3, <3>1, <3>2, <3>3 DEF NeverIdle
  <2>7. CASE apply_pending_kill_events
    <3>1. phase = "kills" /\ phase' = "kills" /\ time_tick' = time_tick
      BY <2>7 DEF apply_pending_kill_events, SkipKillEvent, EventPending, kill_running_process,
             KillReady, KillWaiting
    <3>2. ~Execute
      BY <3>1 DEF Execute
    <3> QED
      BY <1>1, <2>2, <2>3, <3>1, <3>2 DEF NeverIdle
  <2>8. CASE Dispatch
    <3>1. phase = "kills" /\ phase' = "execute" /\ time_tick' = time_tick /\ ~Execute
      BY <2>8 DEF Dispatch, KillsApplied, Execute
    <3>2. running_process' # NULL
      <4>1. Head(ready_queue) \in Records
        BY <1>1, <2>8, TailFacts DEF QueueInv, TypeOK, PlacementMatchesState, Dispatch
      <4> QED
        BY <1>1, <2>8, <4>1, RecordsAreAnInterval DEF Dispatch, QueueInv, NULL
    <3> QED
      BY <1>1, <2>2, <2>3, <3>1, <3>2 DEF NeverIdle
  <2>9. CASE NoDispatch
    <3>1. /\ phase = "kills" /\ phase' = "execute" /\ time_tick' = time_tick /\ ~Execute
          /\ UNCHANGED <<running_process, registered_processes>>
      BY <2>9 DEF NoDispatch, KillsApplied, Execute
    <3>2. ASSUME running_process = NULL, NEW r \in Records
          PROVE  Rec(r).execution_state = "TERMINATED"
      <4>1. Rec(r).execution_state \in States
        BY <1>1, RecordsAreAnInterval DEF QueueInv, ProcessRecords
      <4>2. Rec(r).execution_state # "RUNNING"
        BY <1>1, <3>2, RecordsAreAnInterval
        DEF QueueInv, PlacementMatchesState, PlacedByState, NULL
      <4>3. Rec(r).execution_state # "WAITING"
        BY <1>1, <2>2 DEF WorkInv, Work, NoIo
      <4>4. Rec(r).execution_state # "READY"
        BY <1>1, <2>9, <3>2
        DEF NoDispatch, QueueInv, PlacementMatchesState, PlacedByState, ToSet
      <4> QED
        BY <4>1, <4>2, <4>3, <4>4 DEF States
    <3>3. running_process' # NULL \/ AllEnded'
      BY <2>4, <3>1, <3>2 DEF AllEnded
    <3> QED
      BY <1>1, <2>2, <2>3, <3>1, <3>3 DEF NeverIdle
  <2>10. CASE Execute
    <3>1. phase = "execute" /\ phase' = "settle" /\ time_tick' = time_tick
      BY <2>10 DEF Execute
    <3> QED
      BY <1>1, <2>2, <2>3, <2>4, <2>10, <3>1 DEF NeverIdle
  <2>11. CASE StartIo \/ Finish \/ KeepRunning \/ Wake \/ PassOver
    <3>1. /\ phase \in {"settle", "wake"} /\ phase' = "wake" /\ time_tick' = time_tick
          /\ ~Execute
      BY <2>11 DEF StartIo, Finish, KeepRunning, Wake, PassOver, Execute
    <3> QED
      BY <1>1, <2>2, <2>3, <2>4, <3>1 DEF NeverIdle
  <2>12. CASE EndTick
    <3>1. /\ phase = "wake" /\ time_tick' = time_tick + 1 /\ ~Execute
          /\ phase' \in {"kills", "report"}
          /\ phase' = "kills" => terminated_counter < total_process_count
          /\ terminated_counter \in Nat /\ total_process_count \in Nat
      BY <1>1, <2>12, RecordsAreAnInterval DEF EndTick, Execute, QueueInv, TypeOK
    <3>2. phase' = "kills" => ~AllEnded
      BY <1>1, <3>1, AllEndedCounted
    <3> QED
      BY <1>1, <2>2, <2>3, <3>1, <3>2 DEF NeverIdle
  <2>13. CASE UNCHANGED vars
    BY <1>1, <2>2, <2>3, <2>4, <2>13 DEF vars, NeverIdle, Execute
  <2>14. CASE print_result_table \/ ReadBlankLine \/ \E k \in KillLines : ReadKillLine(k)
    BY <2>14 DEF print_result_table, ReadBlankLine, ReadKillLine, NeverIdle
  <2> QED
    BY <1>3, <2>6, <2>7, <2>8, <2>9, <2>10, <2>11, <2>12, <2>13, <2>14
    DEF Next, ReadInput, execute_scheduler
<1> QED
  BY <1>2, <1>3

\* At the start nothing has been executed.
LEMMA InitCpu == Init => CpuInv
<1> SUFFICES ASSUME Init PROVE CpuInv
  OBVIOUS
<1>1. KillInv
  BY InitKill
<1>2. Records = {}
  BY DEF Init, Records
<1>3. /\ IsFiniteSet(Records) /\ Spent = SumFunctionOnSet(Executed, Records)
  BY <1>1, SpentFacts DEF KillInv, WorkInv, QueueInv, TypeOK, Executed, Spent, Records, Rec
<1>4. Spent = 0
  BY <1>2, <1>3, SumEmpty
<1> QED
  BY <1>1, <1>2, <1>4 DEF Init, CpuInv, StillFresh, FreshInOrder, NeverIdle, Now

\* Every step keeps the accounts of the CPU.
LEMMA NextCpu == CpuInv /\ [Next]_vars => CpuInv'
<1>1. CpuInv => KillInv
  BY DEF CpuInv
<1> QED
  BY <1>1, NextKill, NextFresh, NextSpent, NextIdle DEF CpuInv

\* The accounts of the CPU hold in every reachable state.
THEOREM CpuAlwaysAccounted == Spec => []CpuInv
  BY InitCpu, NextCpu, PTL DEF Spec

\* The one CPU is never given out twice, never left idle while nobody does I/O,
\* and given first to who was typed first.
THEOREM CpuCorrect == Spec => []CpuAccounted
<1>1. CpuInv => CpuAccounted
  <2> SUFFICES ASSUME CpuInv PROVE CpuAccounted
    OBVIOUS
  <2>1. /\ KillInv /\ StillFresh /\ FreshInOrder /\ Spent <= Now /\ NeverIdle
        /\ \A r \in Records : Rec(r) \in ProcessRecords
    BY RecordsAreAnInterval DEF CpuInv, KillInv, WorkInv, QueueInv
  <2>2. OneCpu /\ NoIdleTickWithoutIo
    BY <2>1 DEF OneCpu, NoIdleTickWithoutIo, Spent, Executed, NeverIdle, NoIo
  <2>3. ASSUME NEW r \in Records, NEW s \in Records, r < s,
               Rec(s).execution_state # "READY", ~Rec(s).terminated_by_kill,
               Rec(r).execution_state = "READY"
        PROVE  Rec(r).executed_cpu_time > 0
    <3>1. ~Fresh(s)
      BY <2>3 DEF Fresh
    <3>2. ~Fresh(r)
      BY <2>1, <2>3, <3>1 DEF FreshInOrder
    <3>3. Rec(r).executed_cpu_time \in Nat
      BY <2>1 DEF ProcessRecords
    <3> QED
      BY <2>3, <3>2, <3>3 DEF Fresh
  <2>4. FirstDispatchInInputOrder
    BY <2>3 DEF FirstDispatchInInputOrder
  <2> QED
    BY <2>2, <2>4 DEF CpuAccounted
<1> QED
  BY <1>1, CpuAlwaysAccounted, PTL

-----------------------------------------------------------------------------
(* The result table.                                                       *)

\* The processes that completed by time t, and what they were to execute.
Completed(r) == Rec(r).execution_state = "TERMINATED" /\ ~Rec(r).terminated_by_kill
CompletedBy(t) == { r \in Records : Completed(r) /\ Rec(r).completion_tick <= t }
Bursts == [r \in Records |-> Rec(r).total_cpu_burst]

\* The bursts of the processes that completed by the end of one of them fit
\* into the time before it.
Fits ==
  \A r \in Records : Completed(r) =>
    SumFunctionOnSet(Bursts, CompletedBy(Rec(r).completion_tick)) <= Rec(r).completion_tick

\* The table is printed from the records, in some order that qsort may leave.
Tabled ==
  /\ phase # "done" => report = <<>>
  /\ phase = "done" => \E order \in Sorted : report = [i \in Records |-> Row(Rec(order[i]))]

ReportInv == CpuInv /\ Fits /\ Tabled

\* What some processes were to execute and did execute is part of what all
\* processes executed.
LEMMA BurstsWithinSpent ==
  ASSUME NEW recs \in Seq(ProcessRecords), NEW C \in SUBSET (DOMAIN recs),
         NEW b, b = [r \in DOMAIN recs |-> recs[r].total_cpu_burst],
         NEW e, e = [r \in DOMAIN recs |-> recs[r].executed_cpu_time],
         \A r \in C : recs[r].executed_cpu_time = recs[r].total_cpu_burst
  PROVE  SumFunctionOnSet(b, C) <= SumFunction(e)
<1>1. \A r \in DOMAIN recs : recs[r] \in ProcessRecords
  OBVIOUS
<1>2. \A r \in DOMAIN recs : e[r] = recs[r].executed_cpu_time /\ e[r] \in Nat
  BY <1>1 DEF ProcessRecords
<1>3. IsFiniteSet(DOMAIN recs) /\ IsFiniteSet(C) /\ SumFunction(e) = SumFunctionOnSet(e, DOMAIN recs)
  BY SpentFacts, FS_Subset
<1>4. \A r \in C : b[r] \in Int /\ b[r] = e[r]
  BY <1>2
<1>5. SumFunctionOnSet(b, C) = SumFunctionOnSet(e, C)
  BY <1>3, <1>4, SumSame
<1>6. SumFunctionOnSet(e, C) <= SumFunctionOnSet(e, DOMAIN recs)
  BY <1>2, <1>3, SumOfPart
<1> QED
  BY <1>3, <1>5, <1>6

\* Who completes on this step completes now.
LEMMA CompletesNow ==
  ASSUME CpuInv, [Next]_vars, Records' = Records,
         NEW r \in Records, Completed(r)', ~Completed(r)
  PROVE  Rec(r)'.completion_tick = Now'
<1>1. /\ KillInv /\ QueueInv /\ TypeOK /\ Rec(r) \in ProcessRecords /\ time_tick \in Nat
      /\ total_process_count \in Nat
  BY RecordsAreAnInterval DEF CpuInv, KillInv, WorkInv, QueueInv, TypeOK
<1>2. Rec(r).execution_state # "TERMINATED"
  <2>1. Rec(r).execution_state = "TERMINATED" => Rec(r)' = Rec(r)
    BY <1>1, TerminatedStays DEF Rec
  <2> QED
    BY <2>1 DEF Completed
<1>3. CASE kill_running_process \/ KillReady \/ KillWaiting
  BY <1>1, <1>2, <1>3, KillEdges DEF Edge, Completed
<1>4. CASE Dispatch \/ StartIo \/ Wake
  BY <1>1, <1>2, <1>4, DispatchEdge, StartIoEdge, WakeEdge DEF Edge, Completed
<1>5. CASE Execute
  BY <1>1, <1>2, <1>5, ExecuteLives DEF SameLives, Completed
<1>6. CASE Finish
  <2>1. r = running_process
    <3>1. PICK t \in Records : Edge(t, "RUNNING", "TERMINATED")
      BY <1>1, <1>6, FinishEdge
    <3>2. r = t
      BY <1>2, <3>1 DEF Edge, Completed
    <3> QED
      BY <1>1, <3>1, <3>2 DEF Edge, QueueInv, PlacementMatchesState, PlacedByState
  <2>2. registered_processes'[r] = mark_process_terminated(Rec(r), time_tick + 1)
    BY <1>6, <2>1 DEF Finish, Rec, Records
  <2>3. Rec(r)'.completion_tick = time_tick + 1
    BY <1>1, <2>2, TerminatedFacts DEF Rec
  <2> QED
    BY <1>6, <2>3 DEF Finish, Now
<1>7. CASE UNCHANGED registered_processes
  BY <1>2, <1>7 DEF Completed, Rec
<1>8. CASE \E l \in ProcessLines : ParseProcessLine(l)
  <2>1. registered_processes \in Seq(ProcessRecords)
    BY <1>1 DEF TypeOK
  <2>2. Len(registered_processes') = Len(registered_processes) + 1
    BY <1>8, <2>1 DEF ParseProcessLine
  <2>3. FALSE
    BY <1>1, <1>8, <2>1, <2>2 DEF ParseProcessLine, Records
  <2> QED
    BY <2>3
<1> QED
  BY <1>3, <1>4, <1>5, <1>6, <1>7, <1>8
  DEF Next, ReadInput, execute_scheduler, apply_pending_kill_events, ReadKillLine,
      ReadBlankLine, EndOfInput, SkipKillEvent, NoDispatch, KeepRunning, PassOver, EndTick,
      print_result_table, vars

\* The completions keep fitting into the time.
LEMMA NextFits == ASSUME CpuInv, Fits, [Next]_vars, CpuInv' PROVE Fits'
<1>1. /\ QueueInv /\ TypeOK /\ QueueInv' /\ TypeOK' /\ Now \in Int /\ Now' \in Int /\ Now' >= Now
      /\ WorkInv'
  BY NowFacts DEF CpuInv, KillInv, WorkInv, QueueInv
<1>2. CASE \E l \in ProcessLines : ParseProcessLine(l)
  <2>1. phase' = "input"
    BY <1>2 DEF ParseProcessLine
  <2> QED
    BY <2>1 DEF CpuInv, StillFresh, Fresh, Fits, Completed
<1>3. CASE ~\E l \in ProcessLines : ParseProcessLine(l)
  <2>1. Records' = Records /\ \A r \in Records : SameLine(r)
    BY <1>1, <1>3, StepsAreCharged, ExecuteAccount DEF SameAccount
  <2>2. Bursts' = Bursts
    BY <2>1 DEF Bursts, SameLine
  <2>3. ASSUME NEW r \in Records, Completed(r)
        PROVE  Completed(r)' /\ Rec(r)'.completion_tick = Rec(r).completion_tick
    <3>1. Rec(r)' = Rec(r)
      BY <1>1, <2>3, TerminatedStays DEF Rec, Completed
    <3> QED
      BY <2>3, <3>1 DEF Completed
  <2>4. ASSUME NEW r \in Records, Completed(r)'
        PROVE  SumFunctionOnSet(Bursts, CompletedBy(Rec(r).completion_tick))' <= Rec(r)'.completion_tick
    <3> PICK c : c = Rec(r)'.completion_tick
      OBVIOUS
    <3>1. /\ c \in Int /\ c <= Now'
          /\ \A s \in Records : Rec(s)'.completion_tick \in Int
      <4>1. \A s \in Records : Rec(s)' \in ProcessRecords
        BY <1>1, <2>1 DEF TypeOK, Records, Rec
      <4>2. Covered(r)'
        BY <1>1, <2>1, <2>4 DEF WorkInv, Work, Completed
      <4> QED
        BY <4>1, <4>2 DEF ProcessRecords, Covered
    <3>2. CASE c < Now'
      <4>1. Completed(r) /\ Rec(r).completion_tick = c
        BY <2>1, <2>3, <2>4, <3>1, <3>2, CompletesNow
      <4>2. CompletedBy(c)' = CompletedBy(c)
        BY <2>1, <2>3, <3>1, <3>2, CompletesNow DEF CompletedBy
      <4>3. SumFunctionOnSet(Bursts, CompletedBy(c)) <= c
        BY <4>1 DEF Fits
      <4> QED
        BY <2>2, <4>2, <4>3
    <3>3. CASE c = Now'
      <4>1. \A s \in CompletedBy(c)' : Rec(s)'.executed_cpu_time = Rec(s)'.total_cpu_burst
        BY <1>1 DEF WorkInv, Work, Covered, CompletedBy, Completed
      <4>2. SumFunctionOnSet(Bursts', CompletedBy(c)') <= Spent'
        BY <1>1, <4>1, BurstsWithinSpent
        DEF TypeOK, Bursts, CompletedBy, Spent, Executed, Records, Rec
      <4>3. Spent' <= Now' /\ Spent' \in Int
        BY NextSpent
      <4>4. SumFunctionOnSet(Bursts', CompletedBy(c)') \in Int
        <5>1. IsFiniteSet(Records') /\ CompletedBy(c)' \in SUBSET Records'
          BY <1>1, SpentFacts DEF TypeOK, Records, CompletedBy
        <5>2. \A s \in Records' : Bursts'[s] \in Int
          <6>1. \A s \in Records' : Rec(s)' \in ProcessRecords
            BY <1>1 DEF TypeOK, Records, Rec
          <6> QED
            BY <6>1 DEF Bursts, ProcessRecords
        <5> QED
          BY <5>1, <5>2, FS_Subset, SumType
      <4> QED
        BY <3>1, <3>3, <4>2, <4>3, <4>4
    <3> QED
      BY <1>1, <3>1, <3>2, <3>3
  <2> QED
    BY <2>1, <2>4 DEF Fits
<1> QED
  BY <1>2, <1>3

\* The table is printed once, from the records as they are then.
LEMMA NextTabled == ASSUME CpuInv, Tabled, [Next]_vars PROVE Tabled'
<1>1. /\ QueueInv /\ Records = 1 .. total_process_count /\ total_process_count \in Nat
  BY RecordsAreAnInterval DEF CpuInv, KillInv, WorkInv, QueueInv
<1>2. CASE print_result_table
  <2>1. PICK order \in Sorted : report' = [i \in Records |-> Row(Rec(order[i]))]
    BY <1>2 DEF print_result_table
  <2>2. phase' = "done" /\ registered_processes' = registered_processes
    BY <1>2 DEF print_result_table
  <2> QED
    BY <2>1, <2>2 DEF Tabled, Sorted, compare_process_by_pid, Records, Rec
<1>3. CASE EndOfInput
  <2>1. /\ phase # "done" /\ report' = report /\ registered_processes' = registered_processes
        /\ phase' = "done" => Records = {}
    BY <1>1, <1>3 DEF EndOfInput
  <2>2. ASSUME phase' = "done"
        PROVE  \E order \in Sorted' : report' = [i \in Records' |-> Row(Rec(order[i])')]
    <3>1. Records' = {} /\ report' = <<>>
      BY <2>1, <2>2 DEF Records, Tabled
    <3>2. <<>> \in Sorted'
      BY <3>1 DEF Sorted
    <3>3. <<>> = [i \in Records' |-> Row(Rec(<<>>[i])')]
      BY <3>1
    <3> QED
      BY <3>1, <3>2, <3>3
  <2> QED
    BY <2>1, <2>2 DEF Tabled
<1>4. CASE UNCHANGED vars
  BY <1>4 DEF vars, Tabled, Sorted, compare_process_by_pid, Records, Rec
<1>5. CASE ~(print_result_table \/ EndOfInput \/ UNCHANGED vars)
  <2>1. phase # "done" /\ phase' # "done" /\ report' = report
    BY <1>5
    DEF Next, ReadInput, execute_scheduler, apply_pending_kill_events, ParseProcessLine,
        ReadKillLine, ReadBlankLine, SkipKillEvent, EventPending, kill_running_process,
        KillReady, KillWaiting, KillsApplied, Dispatch, NoDispatch, Execute, StartIo, Finish,
        KeepRunning, Wake, PassOver, EndTick
  <2> QED
    BY <2>1 DEF Tabled
<1> QED
  BY <1>2, <1>3, <1>4, <1>5

\* A difference that fits into an int is not changed by the wrap.
LEMMA NoWrap ==
  ASSUME NEW h \in Nat \ {0}, NEW d \in Int, -h <= d, d < h
  PROVE  ((d + h) % (2 * h)) - h = d
<1> PICK m \in Nat \ {0}, a \in Nat : m = 2 * h /\ a = d + h
  OBVIOUS
<1>1. a < m
  OBVIOUS
<1>2. a % m = a
  BY <1>1
<1> QED
  BY <1>2

\* A table whose neighbours are in order is in order.
LEMMA NeighboursSuffice ==
  ASSUME NEW n \in Nat, NEW f, \A i \in 1 .. n : f[i] \in Int,
         \A i \in 1 .. n : i + 1 \in 1 .. n => f[i] <= f[i + 1]
  PROVE  \A i, j \in 1 .. n : i < j => f[i] <= f[j]
<1> DEFINE T == { d \in Nat : \A i \in 1 .. n : i + d \in 1 .. n => f[i] <= f[i + d] }
<1>1. 0 \in T
  OBVIOUS
<1>2. ASSUME NEW d \in Nat, d \in T PROVE d + 1 \in T
  <2> SUFFICES ASSUME NEW i \in 1 .. n, i + (d + 1) \in 1 .. n PROVE f[i] <= f[i + (d + 1)]
    OBVIOUS
  <2>1. i + d \in 1 .. n /\ (i + d) + 1 = i + (d + 1)
    OBVIOUS
  <2>2. f[i] <= f[i + d]
    BY <1>2, <2>1
  <2>3. f[i + d] <= f[i + (d + 1)]
    BY <2>1
  <2>4. f[i] \in Int /\ f[i + d] \in Int /\ f[i + (d + 1)] \in Int
    BY <2>1
  <2> QED
    BY <2>2, <2>3, <2>4
<1>3. Nat \subseteq T
  <2> HIDE DEF T
  <2> QED
    BY <1>1, <1>2, InductionOnNat
<1>4. ASSUME NEW i \in 1 .. n, NEW j \in 1 .. n, i < j PROVE f[i] <= f[j]
  <2>1. j - i \in Nat /\ i + (j - i) = j
    BY <1>4
  <2>2. j - i \in T
    BY <1>3, <2>1
  <2> QED
    BY <2>1, <2>2
<1> QED
  BY <1>4

\* With pids that did not wrap, an order that qsort may leave is ascending.
LEMMA SortedAscends ==
  ASSUME QueueInv, NEW order \in Sorted, \A r \in Records : Rec(r).process_id >= 0
  PROVE  \A i, j \in Records : i < j => Rec(order[i]).process_id <= Rec(order[j]).process_id
<1>1. /\ Records = 1 .. total_process_count /\ total_process_count \in Nat
      /\ order \in [Records -> Records]
      /\ \A r \in Records : Rec(r).process_id \in IntValues
  BY RecordsAreAnInterval DEF QueueInv, Sorted, ProcessRecords
<1> DEFINE f == [i \in Records |-> Rec(order[i]).process_id]
<1>2. IntHalf \in Nat \ {0} /\ \A i \in Records : f[i] \in Int /\ 0 <= f[i] /\ f[i] < IntHalf
  BY <1>1, LinesAssumption DEF IntValues
<1>3. ASSUME NEW i \in Records, i + 1 \in Records PROVE f[i] <= f[i + 1]
  <2>1. ((f[i] - f[i + 1] + IntHalf) % (2 * IntHalf)) - IntHalf <= 0
    BY <1>3 DEF Sorted, compare_process_by_pid
  <2> HIDE DEF f
  <2>2. PICK d \in Int : d = f[i] - f[i + 1] /\ -IntHalf <= d /\ d < IntHalf
    BY <1>2, <1>3
  <2>3. ((d + IntHalf) % (2 * IntHalf)) - IntHalf = d
    BY <1>2, <2>2, NoWrap
  <2> QED
    BY <1>2, <1>3, <2>1, <2>2, <2>3
<1>4. \A i, j \in 1 .. total_process_count : i < j => f[i] <= f[j]
  <2> HIDE DEF f
  <2> QED
    BY <1>1, <1>2, <1>3, NeighboursSuffice
<1> QED
  BY <1>1, <1>4

\* The order of the table runs through all records.
LEMMA SortedCoversAll ==
  ASSUME QueueInv, NEW order \in Sorted, NEW r \in Records
  PROVE  \E i \in Records : order[i] = r
<1>1. /\ Records = 1 .. total_process_count /\ total_process_count \in Nat
      /\ order \in [Records -> Records] /\ IsInjective(order)
  BY RecordsAreAnInterval DEF QueueInv, Sorted, IsInjective
<1>2. order \in Seq(1 .. total_process_count) /\ Len(order) = total_process_count
  BY <1>1
<1>3. ToSet(order) = 1 .. total_process_count
  BY <1>1, <1>2, FullQueue
<1> QED
  BY <1>1, <1>2, <1>3 DEF ToSet

\* At the start there is no table.
LEMMA InitReport == Init => ReportInv
  BY InitCpu DEF Init, ReportInv, Fits, Tabled, Records

\* The table and the completions in it hold in every reachable state.
THEOREM ReportAlwaysFits == Spec => []ReportInv
<1>1. ReportInv /\ [Next]_vars => ReportInv'
  BY NextCpu, NextFits, NextTabled DEF ReportInv
<1> QED
  BY <1>1, InitReport, PTL DEF Spec

\* The rows of the processes that completed by the time of one row are the
\* records that completed by then.
LEMMA RowsAreCompletions ==
  ASSUME QueueInv, WorkInv, \A r \in Records : Fate(r), AllEnded, NEW order \in Sorted,
         report = [i \in Records |-> Row(Rec(order[i]))],
         NEW i \in Records, report[i].killed_at = -1
  PROVE  LET c == Rec(order[i]).completion_tick IN
         /\ Completed(order[i]) /\ report[i].turnaround = c
         /\ SumFunctionOnSet([j \in DOMAIN report |-> report[j].cpu],
                             { j \in DOMAIN report : /\ report[j].killed_at = -1
                                                     /\ report[j].turnaround <= c })
              = SumFunctionOnSet(Bursts, CompletedBy(c))
<1> PICK c : c = Rec(order[i]).completion_tick
  OBVIOUS
<1> DEFINE J == { j \in Records : order[j] \in CompletedBy(c) }
           b == [j \in J |-> order[j]]
           g == [j \in Records |-> report[j].cpu]
<1>1. /\ order \in [Records -> Records] /\ DOMAIN report = Records
      /\ \A k, j \in Records : order[k] = order[j] => k = j
      /\ IsFiniteSet(Records)
  BY SpentFacts DEF Sorted, QueueInv, TypeOK, Records
<1>2. ASSUME NEW j \in Records
      PROVE  /\ report[j].cpu = Rec(order[j]).total_cpu_burst
             /\ report[j].killed_at = -1 <=> Completed(order[j])
             /\ Completed(order[j]) => report[j].turnaround = Rec(order[j]).completion_tick
  <2>1. order[j] \in Records /\ Rec(order[j]) \in ProcessRecords
    BY <1>1, RecordsAreAnInterval DEF QueueInv
  <2>2. /\ Rec(order[j]).execution_state = "TERMINATED"
        /\ Rec(order[j]).terminated_by_kill => Rec(order[j]).killed_at_tick >= 0
        /\ Rec(order[j]).killed_at_tick \in Int
    BY <2>1 DEF AllEnded, Fate, ProcessRecords
  <2>3. report[j] = Row(Rec(order[j]))
    OBVIOUS
  <2> QED
    BY <2>2, <2>3 DEF Row, Completed
<1>3. J = { j \in DOMAIN report : report[j].killed_at = -1 /\ report[j].turnaround <= c }
  BY <1>1, <1>2 DEF CompletedBy
<1>4. Completed(order[i]) /\ report[i].turnaround = c
  BY <1>2
<1>5. /\ IsFiniteSet(J) /\ b \in [J -> Records]
      /\ \A x, y \in J : b[x] = b[y] => x = y
      /\ \A y \in Records : Bursts[y] \in Int
      /\ \A x \in J : g[x] = Bursts[b[x]]
  <2>1. IsFiniteSet(J)
    BY <1>1, FS_Subset
  <2>2. \A y \in Records : Bursts[y] = Rec(y).total_cpu_burst /\ Bursts[y] \in Int
    BY RecordsAreAnInterval DEF QueueInv, Bursts, ProcessRecords
  <2> QED
    BY <1>1, <1>2, <2>1, <2>2
<1>6. { b[x] : x \in J } = CompletedBy(c)
  <2>1. ASSUME NEW r \in CompletedBy(c) PROVE \E x \in J : b[x] = r
    BY SortedCoversAll DEF CompletedBy
  <2> QED
    BY <2>1
<1>7. SumFunctionOnSet(g, J) = SumFunctionOnSet(Bursts, { b[x] : x \in J })
  <2> HIDE DEF J, b, g
  <2> QED
    BY <1>1, <1>5, SumReindexed
<1>8. g = [j \in DOMAIN report |-> report[j].cpu]
  BY <1>1
<1>9. SumFunctionOnSet([j \in DOMAIN report |-> report[j].cpu],
                       { j \in DOMAIN report : /\ report[j].killed_at = -1
                                               /\ report[j].turnaround <= c })
        = SumFunctionOnSet(Bursts, CompletedBy(c))
  <2> HIDE DEF J, b, g
  <2> QED
    BY <1>3, <1>6, <1>7, <1>8
<1> QED
  BY <1>4, <1>9

\* The table that is printed has a row for every process, ascending by pid as
\* long as no pid wrapped to a negative number, and the bursts of the processes
\* that completed by the time of any row fit into that time.
THEOREM ReportCorrect == Spec => []ReportIsConsistent
<1>1. ReportInv => ReportIsConsistent
  <2> SUFFICES ASSUME ReportInv, phase = "done" PROVE ReportIsConsistent
    BY DEF ReportIsConsistent
  <2>1. /\ CpuInv /\ QueueInv /\ WorkInv /\ Fits /\ \A r \in Records : Fate(r)
        /\ Records = 1 .. total_process_count /\ total_process_count \in Nat
    BY RecordsAreAnInterval DEF ReportInv, CpuInv, KillInv, WorkInv, QueueInv
  <2>2. AllEnded
    BY <2>1, AllTerminatedAtExit DEF AllEnded
  <2>3. PICK order \in Sorted : report = [i \in Records |-> Row(Rec(order[i]))]
    BY DEF ReportInv, Tabled
  <2>4. /\ DOMAIN report = Records /\ order \in [Records -> Records]
        /\ \A i \in Records : report[i].pid = Rec(order[i]).process_id
    BY <2>3 DEF Row, Sorted
  <2>5. Len(report) = total_process_count
    BY <2>1, <2>3
  <2>6. \A r \in Records : \E i \in DOMAIN report : report[i].pid = Rec(r).process_id
    <3> TAKE r \in Records
    <3>1. PICK i \in Records : order[i] = r
      BY <2>1, SortedCoversAll
    <3>2. i \in DOMAIN report /\ report[i].pid = Rec(r).process_id
      BY <2>4, <3>1
    <3> QED
      BY <3>2
  <2>7. (\A r \in Records : Rec(r).process_id >= 0) =>
          \A i, j \in DOMAIN report : i < j => report[i].pid <= report[j].pid
    BY <2>1, <2>4, SortedAscends
  <2>8. ASSUME NEW i \in DOMAIN report, report[i].killed_at = -1
        PROVE  SumFunctionOnSet([j \in DOMAIN report |-> report[j].cpu],
                                { j \in DOMAIN report :
                                    /\ report[j].killed_at = -1
                                    /\ report[j].turnaround <= report[i].turnaround })
                 <= report[i].turnaround
    <3>1. order[i] \in Records
      BY <2>4
    <3> QED
      BY <2>1, <2>2, <2>3, <2>4, <2>8, <3>1, RowsAreCompletions DEF Fits
  <2> QED
    BY <2>5, <2>6, <2>7, <2>8 DEF ReportIsConsistent
<1> QED
  BY <1>1, ReportAlwaysFits, PTL
=============================================================================
