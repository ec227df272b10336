---------------------------- MODULE ProcessQueues ----------------------------
(***************************************************************************)
(* The three linked queues of fcfs_based_os.c at the level of their        *)
(* pointers: every record has one link, next_process, which serves the     *)
(* queue it is in.  FcfsScheduler takes the queues for sequences; this     *)
(* module shows that the pointers implement them.                          *)
(*                                                                         *)
(* The loops of remove_from_queue_by_pid and move_completed_io_to_ready    *)
(* are taken one iteration at a time.                                      *)
(***************************************************************************)
EXTENDS Integers, Sequences, SequencesExt, FiniteSets

CONSTANTS
  Processes, \* the process records
  PidOf,     \* record -> process_id (records may share one)
  NoProcess

Queues == {"ready", "waiting", "finished"}

ASSUME PointerAssumption ==
  IsFiniteSet(Processes) /\ NoProcess \notin Processes /\ PidOf \in [Processes -> Int]

VARIABLES
  next_process,     \* record -> record or NoProcess
  front_process,    \* queue -> record or NoProcess
  rear_process,     \* queue -> record or NoProcess
  loop,             \* the loop that runs: "none", "remove" or "move"
  queue, process_id,              \* the arguments of remove_from_queue_by_pid
  previous_process, current_process, \* the pointers of the loop
  io_done           \* the waiting records with remaining_io_ticks = 0

lists == <<next_process, front_process, rear_process>>
locals == <<loop, queue, process_id, previous_process, current_process, io_done>>
vars == <<lists, locals>>

Pointers == Processes \cup {NoProcess}

\* Mutant: the finished queue is not initialised.
Init_forgotten ==
  /\ next_process = [p \in Processes |-> NoProcess]
  /\ front_process = [q \in Queues \ {"finished"} |-> NoProcess]
  /\ rear_process = [q \in Queues \ {"finished"} |-> NoProcess]
  /\ loop = "none"
  /\ queue = "ready" /\ process_id = 0
  /\ previous_process = NoProcess /\ current_process = NoProcess
  /\ io_done = {}

\* init_queue on each queue; malloc leaves any link in a record, but
\* create_process_record sets it to NoProcess.
Init ==
  /\ next_process = [p \in Processes |-> NoProcess]
  /\ front_process = [q \in Queues |-> NoProcess]
  /\ rear_process = [q \in Queues |-> NoProcess]
  /\ loop = "none"
  /\ queue = "ready" /\ process_id = 0
  /\ previous_process = NoProcess /\ current_process = NoProcess
  /\ io_done = {}

\* The records of q in the order of their links: one more than there are when
\* the links run in a circle.
Linked(q) ==
  LET walk[n \in 1 .. Cardinality(Processes) + 1] ==
        IF n = 1 THEN front_process[q]
        ELSE IF walk[n - 1] = NoProcess THEN NoProcess ELSE next_process[walk[n - 1]]
  IN [n \in { m \in DOMAIN walk : walk[m] # NoProcess } |-> walk[n]]
Everywhere == UNION { ToSet(Linked(q)) : q \in Queues }

-----------------------------------------------------------------------------
\* Mutant: the link of the new rear is left as it is.
Appended_unterminated(q, p, next, front, rear) ==
  /\ next_process' = IF rear[q] = NoProcess THEN next ELSE [next EXCEPT ![rear[q]] = p]
  /\ front_process' = IF rear[q] = NoProcess THEN [front EXCEPT ![q] = p] ELSE front
  /\ rear_process' = [rear EXCEPT ![q] = p]

\* The links and ends of the queues after enqueue(q, p), from links and ends
\* next, front and rear.
Appended(q, p, next, front, rear) ==
  /\ next_process' =
       IF rear[q] = NoProcess THEN [next EXCEPT ![p] = NoProcess]
       ELSE [next EXCEPT ![p] = NoProcess, ![rear[q]] = p]
  /\ front_process' = IF rear[q] = NoProcess THEN [front EXCEPT ![q] = p] ELSE front
  /\ rear_process' = [rear EXCEPT ![q] = p]

\* The scheduler enqueues a record only when it is in no queue.
enqueue(q, p) ==
  /\ loop = "none" /\ p \notin Everywhere
  /\ Appended(q, p, next_process, front_process, rear_process)
  /\ UNCHANGED locals

\* Mutant: the record at the rear is taken, as from a stack.
dequeue_last(q) ==
  LET s == Linked(q) IN
  /\ loop = "none" /\ s # <<>>
  /\ front_process' = [front_process EXCEPT ![q] = IF Len(s) = 1 THEN NoProcess ELSE @]
  /\ rear_process' = [rear_process EXCEPT ![q] = IF Len(s) = 1 THEN NoProcess ELSE s[Len(s) - 1]]
  /\ next_process' = [next_process EXCEPT ![s[IF Len(s) = 1 THEN 1 ELSE Len(s) - 1]] = NoProcess]
  /\ UNCHANGED locals

dequeue(q) ==
  /\ loop = "none" /\ front_process[q] # NoProcess
  /\ front_process' = [front_process EXCEPT ![q] = next_process[front_process[q]]]
  /\ rear_process' =
       IF next_process[front_process[q]] = NoProcess THEN [rear_process EXCEPT ![q] = NoProcess]
                                                ELSE rear_process
  /\ UNCHANGED <<next_process, locals>>

-----------------------------------------------------------------------------
remove_from_queue_by_pid(q, pid) ==
  /\ loop = "none"
  /\ loop' = "remove" /\ queue' = q /\ process_id' = pid
  /\ current_process' = front_process[q] /\ previous_process' = NoProcess
  /\ UNCHANGED <<lists, io_done>>

\* The end of either loop; its locals are gone.
Return ==
  /\ loop' = "none" /\ queue' = "ready" /\ process_id' = 0
  /\ previous_process' = NoProcess /\ current_process' = NoProcess /\ io_done' = {}

\* Take current_process out of queue q: links and ends without it.
Unlinked(q) ==
  IF previous_process = NoProcess THEN next_process
  ELSE [next_process EXCEPT ![previous_process] = next_process[current_process]]
FrontWithout(q) ==
  IF previous_process # NoProcess THEN front_process
  ELSE [front_process EXCEPT ![q] = next_process[current_process]]

\* Mutant: the rear is not moved back when the last record leaves.
RearWithout_stale(q) == rear_process

RearWithout(q) ==
  IF current_process = rear_process[q] THEN [rear_process EXCEPT ![q] = previous_process]
                                       ELSE rear_process

RemoveFound ==
  /\ loop = "remove" /\ current_process # NoProcess
  /\ PidOf[current_process] = process_id
  /\ next_process' = [Unlinked(queue) EXCEPT ![current_process] = NoProcess]
  /\ front_process' = FrontWithout(queue)
  /\ rear_process' = RearWithout(queue)
  /\ Return

RemovePasses ==
  /\ loop = "remove" /\ current_process # NoProcess
  /\ PidOf[current_process] # process_id
  /\ previous_process' = current_process
  /\ current_process' = next_process[current_process]
  /\ UNCHANGED <<lists, loop, queue, process_id, io_done>>

LoopEnds ==
  /\ loop # "none" /\ current_process = NoProcess
  /\ Return
  /\ UNCHANGED lists

-----------------------------------------------------------------------------
\* move_completed_io_to_ready, when the I/O of the records in done is over.
move_completed_io_to_ready(done) ==
  /\ loop = "none"
  /\ loop' = "move" /\ io_done' = done
  /\ current_process' = front_process["waiting"] /\ previous_process' = NoProcess
  /\ UNCHANGED <<lists, queue, process_id>>

\* Mutant: the next record is read after enqueue.
MoveToReady_late ==
  /\ loop = "move" /\ current_process \in io_done
  /\ Appended("ready", current_process, Unlinked("waiting"), FrontWithout("waiting"),
              RearWithout("waiting"))
  /\ current_process' = next_process'[current_process]
  /\ UNCHANGED <<loop, queue, process_id, previous_process, io_done>>

\* Mutant: who wakes up goes to the front of ready.
MoveToReady_ahead ==
  /\ loop = "move" /\ current_process \in io_done
  /\ next_process' = [Unlinked("waiting") EXCEPT ![current_process] = front_process["ready"]]
  /\ front_process' = [FrontWithout("waiting") EXCEPT !["ready"] = current_process]
  /\ rear_process' = [RearWithout("waiting") EXCEPT !["ready"] =
                        IF @ = NoProcess THEN current_process ELSE @]
  /\ current_process' = next_process[current_process]
  /\ UNCHANGED <<loop, queue, process_id, previous_process, io_done>>

\* The next record was read before enqueue resets the link of this one.
MoveToReady ==
  /\ loop = "move" /\ current_process \in io_done
  /\ Appended("ready", current_process, Unlinked("waiting"), FrontWithout("waiting"),
              RearWithout("waiting"))
  /\ current_process' = next_process[current_process]
  /\ UNCHANGED <<loop, queue, process_id, previous_process, io_done>>

StaysWaiting ==
  /\ loop = "move" /\ current_process # NoProcess /\ current_process \notin io_done
  /\ previous_process' = current_process
  /\ current_process' = next_process[current_process]
  /\ UNCHANGED <<lists, loop, queue, process_id, io_done>>

-----------------------------------------------------------------------------
Next ==
  \/ \E q \in Queues :
       \/ \E p \in Processes : enqueue(q, p)
       \/ dequeue(q)
       \/ \E p \in Processes : remove_from_queue_by_pid(q, PidOf[p])
  \/ \E done \in SUBSET ToSet(Linked("waiting")) : move_completed_io_to_ready(done)
  \/ RemoveFound \/ RemovePasses \/ MoveToReady \/ StaysWaiting \/ LoopEnds

Spec == Init /\ [][Next]_vars
FairSpec == Spec /\ WF_vars(RemoveFound \/ RemovePasses \/ MoveToReady \/ StaysWaiting \/ LoopEnds)

-----------------------------------------------------------------------------
\* The type invariant.
TypeOK ==
  /\ next_process \in [Processes -> Pointers]
  /\ front_process \in [Queues -> Pointers]
  /\ rear_process \in [Queues -> Pointers]
  /\ loop \in {"none", "remove", "move"}
  /\ queue \in Queues /\ process_id \in Int
  /\ previous_process \in Pointers /\ current_process \in Pointers
  /\ io_done \subseteq Processes

\* The links of every queue end (no circle), its rear is its last record and
\* has no link, and no record is in two queues or twice in one: one link per
\* record is enough.
WellLinked ==
  /\ \A q \in Queues :
       /\ rear_process[q] = (IF Linked(q) = <<>> THEN NoProcess ELSE Last(Linked(q)))
       /\ rear_process[q] # NoProcess => next_process[rear_process[q]] = NoProcess
  /\ \A q, r \in Queues : \A i \in DOMAIN Linked(q), j \in DOMAIN Linked(r) :
       Linked(q)[i] = Linked(r)[j] => q = r /\ i = j

\* A loop walks its own queue to the end, although the records it moves change
\* their links under it: previous_process stands right before current_process,
\* and behind it no record is left that should have been moved or removed.
LoopInPlace ==
  loop # "none" =>
    LET q == IF loop = "move" THEN "waiting" ELSE queue
        s == Linked(q)
        wanted(p) == IF loop = "move" THEN p \in io_done ELSE PidOf[p] = process_id
    IN \E i \in 0 .. Len(s) :
         /\ previous_process = (IF i = 0 THEN NoProcess ELSE s[i])
         /\ current_process = (IF i = Len(s) THEN NoProcess ELSE s[i + 1])
         /\ \A j \in 1 .. i : ~wanted(s[j])

\* The pointers stay sound through every iteration of both loops.
PointersOK == TypeOK /\ WellLinked /\ LoopInPlace

\* Both loops end.
LoopsEnd == loop # "none" ~> loop = "none"

\* The call whose loop runs; a wake-up with the records it has still to move.
Call ==
  CASE loop = "remove" -> [op |-> "remove", queue |-> queue, pid |-> process_id]
    [] loop = "move" -> [op |-> "wake", due |-> io_done \cap ToSet(Linked("waiting"))]
    [] OTHER -> [op |-> "none"]

\* The pointers implement three first-in first-out queues: a record joins behind
\* all others, dequeue takes the first one, a removal the first one under its
\* pid, and a wake-up moves everybody whose I/O is over to the end of ready, in
\* the order in which they wait, with nothing else done in between.
Fifo ==
  INSTANCE FifoQueues
    WITH contents <- [q \in Queues |-> Linked(q)], call <- Call,
         Ready <- "ready", Waiting <- "waiting"
RefinesFifo == Fifo!Spec
=============================================================================
