--------------------------- MODULE SharedMemorySort ---------------------------
(***************************************************************************)
(* shared_memory_ipc.c: the child sorts in place the array the parent has  *)
(* typed into a shared memory segment.                                     *)
(*                                                                         *)
(* The segment is found under a fixed key and outlives the processes, so   *)
(* runs of the program (sessions) meet in it: one after the other when an  *)
(* earlier one has left it behind, or at the same time.                    *)
(***************************************************************************)
EXTENDS Integers, Sequences, FiniteSets

CONSTANTS
  Sessions,
  Arrays, \* what the users type, at most MAX_ELEMENTS integers each
  NONE

ASSUME SharedMemoryAssumption == Arrays \subseteq Seq(Int) /\ NONE \notin Arrays

VARIABLES
  pc,             \* session -> where it is
  typed,          \* session -> the array its user types
  index,          \* session -> currentIndex of readIntegerArrayFromUser
  outerIndex, innerIndex, \* session -> the loops of its child
  sharedMemoryId, \* session -> the segment it has attached
  segments,       \* the segments, each with the array behind its first cell
  keyed,          \* the segment found under SHARED_MEMORY_KEY, or 0
  disturbed,      \* the sessions that shared their segment while it was in use
                  \* (only for the properties)
  printed         \* session -> what "Array After Sorting" shows

kernel == <<segments, keyed>>
loops == <<outerIndex, innerIndex>>
vars == <<pc, typed, index, loops, sharedMemoryId, kernel, disturbed, printed>>

Init ==
  /\ pc = [s \in Sessions |-> "new"]
  /\ typed \in [Sessions -> Arrays]
  /\ index = [s \in Sessions |-> 0]
  /\ outerIndex = [s \in Sessions |-> 0] /\ innerIndex = [s \in Sessions |-> 0]
  /\ sharedMemoryId = [s \in Sessions |-> 0]
  /\ segments = <<>> /\ keyed = 0
  /\ disturbed = {}
  /\ printed = [s \in Sessions |-> NONE]

elementCount(s) == Len(typed[s])
Goto(s, there) == pc' = [pc EXCEPT ![s] = there]
Running(s) == pc[s] \in {"input", "sort", "sorted"}
Cells(s) == segments[sharedMemoryId[s]]

\* shmget finds the segment of the key, creates it when there is none (its
\* cells are zero), and fails when the one there is smaller than asked for.
shmget(s) ==
  /\ pc[s] = "new"
  /\ IF keyed # 0 /\ Len(segments[keyed]) < elementCount(s)
     THEN Goto(s, "refused") /\ UNCHANGED <<kernel, sharedMemoryId, disturbed>>
     ELSE /\ IF keyed # 0 THEN UNCHANGED kernel
             ELSE /\ segments' = Append(segments, [i \in 1 .. elementCount(s) |-> 0])
                  /\ keyed' = Len(segments) + 1
          /\ sharedMemoryId' = [sharedMemoryId EXCEPT ![s] = keyed']
          /\ LET users == { r \in Sessions : Running(r) /\ sharedMemoryId[r] = keyed' }
             IN disturbed' = IF users = {} THEN disturbed ELSE disturbed \cup users \cup {s}
          /\ Goto(s, "input")
  /\ UNCHANGED <<typed, index, loops, printed>>

\* Store v in cell i (from 0) of the segment of session s.
Stored(s, i, v) == [segments EXCEPT ![sharedMemoryId[s]][i + 1] = v]

\* readIntegerArrayFromUser types straight into the segment.
readElement(s) ==
  /\ pc[s] = "input" /\ index[s] < elementCount(s)
  /\ segments' = Stored(s, index[s], typed[s][index[s] + 1])
  /\ index' = [index EXCEPT ![s] = @ + 1]
  /\ UNCHANGED <<pc, typed, loops, sharedMemoryId, keyed, disturbed, printed>>

\* The input ends or fork fails: the segment stays.
giveUp(s) ==
  /\ pc[s] = "input"
  /\ Goto(s, "aborted")
  /\ UNCHANGED <<typed, index, loops, sharedMemoryId, kernel, disturbed, printed>>

fork(s) ==
  /\ pc[s] = "input" /\ index[s] = elementCount(s)
  /\ Goto(s, "sort")
  /\ UNCHANGED <<typed, index, loops, sharedMemoryId, kernel, disturbed, printed>>

\* sortArrayAscending in the child, on the shared cells.

InnerRuns(s) == innerIndex[s] < elementCount(s) - outerIndex[s] - 1

\* Mutant: more passes than elements.
OuterRuns_more(s) == outerIndex[s] <= elementCount(s)

OuterRuns(s) == outerIndex[s] < elementCount(s) - 1

Compare(s) ==
  LET i == innerIndex[s]
      a == Cells(s)[i + 1]
      b == Cells(s)[i + 2]
  IN /\ pc[s] = "sort" /\ OuterRuns(s) /\ InnerRuns(s)
     /\ segments' =
          IF a > b THEN [segments EXCEPT ![sharedMemoryId[s]][i + 1] = b,
                                         ![sharedMemoryId[s]][i + 2] = a]
          ELSE segments
     /\ innerIndex' = [innerIndex EXCEPT ![s] = i + 1]
     /\ UNCHANGED <<pc, typed, index, outerIndex, sharedMemoryId, keyed, disturbed, printed>>

NextPass(s) ==
  /\ pc[s] = "sort" /\ OuterRuns(s) /\ ~InnerRuns(s)
  /\ outerIndex' = [outerIndex EXCEPT ![s] = @ + 1]
  /\ innerIndex' = [innerIndex EXCEPT ![s] = 0]
  /\ UNCHANGED <<pc, typed, index, sharedMemoryId, kernel, disturbed, printed>>

childExits(s) ==
  /\ pc[s] = "sort" /\ ~OuterRuns(s)
  /\ Goto(s, "sorted")
  /\ UNCHANGED <<typed, index, loops, sharedMemoryId, kernel, disturbed, printed>>

\* Mutant: the parent does not wait for the child.
Waited_not(s) == pc[s] \in {"sort", "sorted"}

\* wait(NULL) has returned.
Waited(s) == pc[s] = "sorted"

\* Mutant: the segment is detached but not removed.
Removed_never(s) == keyed' = keyed

\* shmctl(sharedMemoryId, IPC_RMID) fails when the segment is gone already.
Removed(s) == keyed' = IF keyed = sharedMemoryId[s] THEN 0 ELSE keyed

displayAfter(s) ==
  /\ Waited(s)
  /\ printed' = [printed EXCEPT ![s] = SubSeq(Cells(s), 1, elementCount(s))]
  /\ Removed(s)
  /\ Goto(s, "done")
  /\ UNCHANGED <<typed, index, loops, sharedMemoryId, segments, disturbed>>

Next ==
  \E s \in Sessions :
    \/ shmget(s) \/ readElement(s) \/ giveUp(s) \/ fork(s)
    \/ Compare(s) \/ NextPass(s) \/ childExits(s) \/ displayAfter(s)

Spec == Init /\ [][Next]_vars

-----------------------------------------------------------------------------
\* The type invariant.
TypeOK ==
  /\ pc \in [Sessions -> {"new", "refused", "input", "aborted", "sort", "sorted", "done"}]
  /\ typed \in [Sessions -> Arrays]
  /\ segments \in Seq(Seq(Int))
  /\ keyed \in 0 .. Len(segments)
  /\ \A s \in Sessions :
       /\ index[s] \in 0 .. elementCount(s)
       /\ outerIndex[s] \in 0 .. elementCount(s) /\ innerIndex[s] \in 0 .. elementCount(s)
       /\ sharedMemoryId[s] \in 0 .. Len(segments)
       /\ printed[s] = NONE \/ printed[s] \in Seq(Int)

\* A session that comes to its end leaves no segment behind: the one under the
\* key belongs to a session that runs or was aborted, so no other can make
\* shmget fail for a later, longer array.
NoStraySegment ==
  keyed # 0 =>
    \E r \in Sessions : sharedMemoryId[r] = keyed /\ (Running(r) \/ pc[r] = "aborted")

\* What a session shows after sorting is what its user typed, sorted, in
\* whatever segment it finds; only a session that attaches the segment while
\* it is in use can spoil it.
Service == INSTANCE SortService WITH inputArray <- typed
UndisturbedIsSorted ==
  \A s \in Sessions \ disturbed :
    printed[s] # NONE => printed[s] = Service!sortArrayAscending(typed[s])

\* Every segment is in the hands of a session that will remove it or was
\* aborted, and nobody is shown what others did to it but those they disturb.
SegmentsOK == TypeOK /\ NoStraySegment /\ UndisturbedIsSorted
=============================================================================
