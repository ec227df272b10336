------------------------------ MODULE BubbleSort ------------------------------
(***************************************************************************)
(* sortArrayAscending of the four IPC programs, one comparison at a time.  *)
(* The array is indexed from 0 as in C.                                    *)
(***************************************************************************)
EXTENDS Integers

CONSTANT
  MAX_ELEMENTS, \* 100 in the code
  IntValues     \* the values of an element

ASSUME ElementsAssumption == MAX_ELEMENTS \in Nat /\ IntValues \subseteq Int

VARIABLES
  inputArray,             \* what the array held at the call
  arrayData, elementCount,
  outerIndex, innerIndex

sortVars == <<inputArray, arrayData, elementCount, outerIndex, innerIndex>>

Indexes == 0 .. elementCount - 1

\* readPositiveInteger and the check of MAX_ELEMENTS bound the count.
SortInit ==
  /\ elementCount \in 1 .. MAX_ELEMENTS
  /\ inputArray \in [Indexes -> IntValues] /\ arrayData = inputArray
  /\ outerIndex = 0 /\ innerIndex = 0

\* Mutant: only the first pass swaps.
swapIntegers_once(i) ==
  [arrayData EXCEPT ![i] = IF outerIndex = 0 THEN arrayData[i + 1] ELSE arrayData[i],
                    ![i + 1] = IF outerIndex = 0 THEN arrayData[i] ELSE arrayData[i + 1]]

\* Mutant: the second value is assigned after the first was overwritten.
swapIntegers_lost(i) == [arrayData EXCEPT ![i] = arrayData[i + 1]]

swapIntegers(i) == [arrayData EXCEPT ![i] = arrayData[i + 1], ![i + 1] = arrayData[i]]

\* Mutant: each pass stops one comparison early.
InnerRuns_short == outerIndex < elementCount - 1 /\ innerIndex < elementCount - outerIndex - 2

InnerRuns == outerIndex < elementCount - 1 /\ innerIndex < elementCount - outerIndex - 1

\* Mutant: the inner index advances only after a swap.
Compare_stuck ==
  /\ InnerRuns
  /\ arrayData' = IF arrayData[innerIndex] > arrayData[innerIndex + 1]
                  THEN swapIntegers(innerIndex) ELSE arrayData
  /\ innerIndex' = IF arrayData[innerIndex] > arrayData[innerIndex + 1]
                   THEN innerIndex + 1 ELSE innerIndex
  /\ UNCHANGED <<inputArray, elementCount, outerIndex>>

\* One iteration of the inner loop.
Compare ==
  /\ InnerRuns
  /\ arrayData' = IF arrayData[innerIndex] > arrayData[innerIndex + 1]
                  THEN swapIntegers(innerIndex) ELSE arrayData
  /\ innerIndex' = innerIndex + 1
  /\ UNCHANGED <<inputArray, elementCount, outerIndex>>

\* Mutant: the inner index is not reset.
NextPass_unreset ==
  /\ outerIndex < elementCount - 1 /\ ~InnerRuns
  /\ UNCHANGED innerIndex
  /\ outerIndex' = outerIndex + 1
  /\ UNCHANGED <<inputArray, arrayData, elementCount>>

NextPass ==
  /\ outerIndex < elementCount - 1 /\ ~InnerRuns
  /\ outerIndex' = outerIndex + 1 /\ innerIndex' = 0
  /\ UNCHANGED <<inputArray, arrayData, elementCount>>

Done == outerIndex >= elementCount - 1

SortNext == Compare \/ NextPass

SortSpec == SortInit /\ [][SortNext]_sortVars
FairSort == SortSpec /\ WF_sortVars(SortNext)

-----------------------------------------------------------------------------
\* The type invariant.
SortTypeOK ==
  /\ elementCount \in 1 .. MAX_ELEMENTS
  /\ inputArray \in [Indexes -> IntValues] /\ arrayData \in [Indexes -> IntValues]
  /\ outerIndex \in 0 .. elementCount - 1
  /\ innerIndex \in 0 .. elementCount - 1 - outerIndex

\* No value is lost or doubled: the array is a rearrangement of the input.
Rearrangements ==
  { f \in [Indexes -> Indexes] : \A i, j \in Indexes : f[i] = f[j] => i = j }
IsRearrangement ==
  \E f \in Rearrangements : \A i \in Indexes : arrayData[i] = inputArray[f[i]]

\* After each pass the largest values stand in order at the end of the array,
\* and within a pass the largest value so far is at innerIndex.
SuffixInPlace ==
  /\ \A i, j \in Indexes :
       i < j /\ j >= elementCount - outerIndex => arrayData[i] <= arrayData[j]
  /\ outerIndex < elementCount - 1 =>
       \A i \in 0 .. innerIndex : arrayData[i] <= arrayData[innerIndex]

\* The invariant of the two loops.
LoopInv == SortTypeOK /\ IsRearrangement /\ SuffixInPlace

\* The array is sorted when the function returns.
SortedAtReturn ==
  Done => \A i, j \in Indexes : i < j => arrayData[i] <= arrayData[j]

\* The function returns.
Returns == <>Done
=============================================================================
