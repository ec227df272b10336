------------------------------- MODULE FileSort -------------------------------
(***************************************************************************)
(* file_ipc.c: parent and child exchange the array through a file.         *)
(*                                                                         *)
(* Nothing tells the child when the file is complete, or from which run of *)
(* the program (session) it is: the child goes on as soon as a file of     *)
(* that name exists, and no session removes it.  What is written reaches   *)
(* the file at fclose, as it fits the buffer of stdio.                     *)
(***************************************************************************)
EXTENDS Integers, Sequences

CONSTANTS
  Sessions,
  Arrays,  \* what the users type, at most MAX_ELEMENTS integers each
  ABSENT, EMPTY, \* a file that does not exist, or was just opened with "w"
  GARBAGE, \* an array nobody typed: read from an empty file, or from two
           \* texts written over each other
  NONE

\* What is assumed of the constants.
FileAssumption == {ABSENT, EMPTY, GARBAGE, NONE} \cap Arrays = {}

VARIABLES
  parent, child, \* session -> where the process is
  typed,         \* session -> the array its user types
  file,          \* the contents of IPC_FILENAME
  receivedArray, \* session -> what its child has read, or NONE
  printed        \* session -> what "Array After Sorting" shows, or NONE

vars == <<parent, child, typed, file, receivedArray, printed>>

Service == INSTANCE SortService WITH inputArray <- typed
Sorted(a) == IF a = GARBAGE THEN GARBAGE ELSE Service!sortArrayAscending(a)

Init ==
  /\ parent = [s \in Sessions |-> "new"] /\ child = [s \in Sessions |-> "none"]
  /\ typed \in [Sessions -> Arrays]
  /\ file = ABSENT
  /\ receivedArray = [s \in Sessions |-> NONE] /\ printed = [s \in Sessions |-> NONE]

ParentAt(s, there) == parent' = [parent EXCEPT ![s] = there]
ChildAt(s, there) == child' = [child EXCEPT ![s] = there]
Running(s) == parent[s] \notin {"new", "done", "aborted", "crashed"}

\* fork.  Sessions run one after the other, but the child of a session that
\* gave up may still be there.
start(s) ==
  /\ parent[s] = "new" /\ \A r \in Sessions : ~Running(r)
  /\ ParentAt(s, "input") /\ ChildAt(s, "poll")
  /\ UNCHANGED <<typed, file, receivedArray, printed>>

\* Mutant: the texts are appended to the file.
Flushed_append(a) ==
  IF file \in {ABSENT, EMPTY, GARBAGE} \/ a = GARBAGE THEN {a} ELSE {file \o a}

\* What the file may hold after fclose of a text: the rest of a longer text
\* written in the meantime may show behind it.
Flushed(a) == IF file \in {EMPTY, a} THEN {a} ELSE {a, GARBAGE}

\* Mutant: an empty file reads as an array.
Scanned_raw == {file}

\* What fscanf may deliver; the count it does not find in an empty file is
\* uninitialised, which may also crash the loop that uses it.
Scanned == IF file = EMPTY THEN {GARBAGE} ELSE {file}

-----------------------------------------------------------------------------
\* The parent.

\* The input ends, or the count is above MAX_ELEMENTS.
giveUp(s) ==
  /\ parent[s] = "input"
  /\ ParentAt(s, "aborted")
  /\ UNCHANGED <<child, typed, file, receivedArray, printed>>

\* writeArrayToFile: fopen(fileName, "w") and fclose.
openFile(s) ==
  /\ parent[s] = "input"
  /\ file' = EMPTY
  /\ ParentAt(s, "write")
  /\ UNCHANGED <<child, typed, receivedArray, printed>>

closeFile(s) ==
  /\ parent[s] = "write"
  /\ file' \in Flushed(typed[s])
  /\ ParentAt(s, "wait")
  /\ UNCHANGED <<child, typed, receivedArray, printed>>

\* Mutant: the parent does not wait for the child.
Waited_not(s) == parent[s] = "wait"

\* wait(NULL) has returned.
Waited(s) == parent[s] = "wait" /\ child[s] = "ended"

readBack(s) ==
  /\ Waited(s)
  /\ \/ \E a \in Scanned : printed' = [printed EXCEPT ![s] = a] /\ ParentAt(s, "done")
     \/ file = EMPTY /\ ParentAt(s, "crashed") /\ UNCHANGED printed
  /\ UNCHANGED <<child, typed, file, receivedArray>>

Parent(s) == giveUp(s) \/ openFile(s) \/ closeFile(s) \/ readBack(s)

-----------------------------------------------------------------------------
\* The child.

\* Mutant: the child waits for a file that is empty.
Exists_empty == file = EMPTY

Exists == file # ABSENT

waitUntilFileExists(s) ==
  /\ child[s] = "poll" /\ Exists
  /\ ChildAt(s, "read")
  /\ UNCHANGED <<parent, typed, file, receivedArray, printed>>

readArrayFromFile(s) ==
  /\ child[s] = "read"
  /\ \/ /\ \E a \in Scanned : receivedArray' = [receivedArray EXCEPT ![s] = a]
        /\ ChildAt(s, "sorted")
     \/ file = EMPTY /\ ChildAt(s, "ended") /\ UNCHANGED receivedArray
  /\ UNCHANGED <<parent, typed, file, printed>>

\* writeArrayToFile in the child.
openSorted(s) ==
  /\ child[s] = "sorted"
  /\ file' = EMPTY
  /\ ChildAt(s, "write")
  /\ UNCHANGED <<parent, typed, receivedArray, printed>>

closeSorted(s) ==
  /\ child[s] = "write"
  /\ file' \in Flushed(Sorted(receivedArray[s]))
  /\ ChildAt(s, "ended")
  /\ UNCHANGED <<parent, typed, receivedArray, printed>>

Child(s) ==
  waitUntilFileExists(s) \/ readArrayFromFile(s) \/ openSorted(s) \/ closeSorted(s)

Next == \E s \in Sessions : start(s) \/ Parent(s) \/ Child(s)

Spec == Init /\ [][Next]_vars
\* The system runs every process, and every user types or ends the input.
FairSpec == Spec /\ \A s \in Sessions : WF_vars(Parent(s)) /\ WF_vars(Child(s))

-----------------------------------------------------------------------------
\* The type invariant.
TypeOK ==
  /\ parent \in [Sessions -> {"new", "input", "write", "wait", "done", "aborted", "crashed"}]
  /\ child \in [Sessions -> {"none", "poll", "read", "sorted", "write", "ended"}]
  /\ typed \in [Sessions -> Arrays]
  /\ file \in {ABSENT, EMPTY, GARBAGE} \cup Arrays \cup { Sorted(a) : a \in Arrays }
  /\ \A s \in Sessions :
       receivedArray[s] \in {NONE, GARBAGE} \cup Arrays \cup { Sorted(a) : a \in Arrays }
  /\ \A s \in Sessions : receivedArray[s] = NONE => child[s] \notin {"sorted", "write"}

\* In the first session, a child that comes late enough to read the complete
\* array makes the session show it sorted.
SortedIfReceived ==
  \A s \in Sessions :
    /\ printed[s] # NONE /\ receivedArray[s] = typed[s]
    /\ \A r \in Sessions \ {s} : parent[r] = "new"
    => printed[s] = Sorted(typed[s])

\* Whatever the order, nothing appears from nowhere: but for garbage, what is
\* shown is the array of this or an earlier session, sorted or as it was typed.
ShownFromSomeone ==
  \A s \in Sessions : printed[s] \notin {NONE, GARBAGE} =>
    \E r \in Sessions : parent[r] # "new" /\ printed[s] \in {typed[r], Sorted(typed[r])}

\* What a user is shown: the sorted array when the child was late enough, an
\* array of some session in any case.
ShownOK == TypeOK /\ SortedIfReceived /\ ShownFromSomeone

\* Once some parent has written the file, every child ends, also those whose
\* parent gave up, and with them the parents that wait.
AllEndOnceWritten ==
  \A s, r \in Sessions :
    parent[s] = "write" ~> parent[r] # "wait" /\ child[r] \in {"none", "ended"}
=============================================================================
