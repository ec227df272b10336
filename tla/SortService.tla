----------------------------- MODULE SortService -----------------------------
(***************************************************************************)
(* What the IPC programs promise: the array typed into a session is        *)
(* printed back sorted, once.  A session may also stop before it answers.  *)
(* PipeSort implements it; sessions of the other three can disturb each    *)
(* other, and their modules say how far the promise goes.                  *)
(***************************************************************************)
EXTENDS Integers, Sequences, Functions

CONSTANTS
  Sessions,
  Arrays, \* the arrays that can be typed in: non-empty sequences of integers
  NONE

VARIABLES
  inputArray, \* session -> what "Array Before Sorting" shows, or NONE
  printed     \* session -> what "Array After Sorting" shows, or NONE

\* The rearrangement of a in which no element stands behind a greater one.
\* BubbleSort shows that the loops of the code compute this.
Rearranged(a) == { [i \in DOMAIN a |-> a[f[i]]] : f \in Bijection(DOMAIN a, DOMAIN a) }
sortArrayAscending(a) ==
  CHOOSE b \in Rearranged(a) : \A i, j \in DOMAIN a : i < j => b[i] <= b[j]

Init ==
  /\ inputArray = [s \in Sessions |-> NONE]
  /\ printed = [s \in Sessions |-> NONE]

Ask(s) ==
  /\ inputArray[s] = NONE
  /\ \E a \in Arrays : inputArray' = [inputArray EXCEPT ![s] = a]
  /\ UNCHANGED printed

Answer(s) ==
  /\ inputArray[s] # NONE /\ printed[s] = NONE
  /\ printed' = [printed EXCEPT ![s] = sortArrayAscending(inputArray[s])]
  /\ UNCHANGED inputArray

Next == \E s \in Sessions : Ask(s) \/ Answer(s)

Spec == Init /\ [][Next]_<<inputArray, printed>>
=============================================================================
