------------------------------ MODULE SonarImage ------------------------------
(***************************************************************************)
(* sonar_image_processing.c: a square matrix is rotated in place, one swap *)
(* at a time, and smoothed in place, one row at a time.                    *)
(*                                                                         *)
(* The smoothing overwrites a row that the next row still needs: only      *)
(* previousRow keeps it.                                                   *)
(***************************************************************************)
EXTENDS Integers, FiniteSets, Functions

CONSTANTS
  MINIMUM_MATRIX_SIZE, MAXIMUM_MATRIX_SIZE, \* 2 and 10 in the code
  MAXIMUM_RANDOM_VALUE,                     \* 256 in the code
  Pictures \* the matrices that are generated, by their size

Indexes(size) == 0 .. size - 1
Cells(size) == Indexes(size) \X Indexes(size)

\* What is assumed of the constants.
SonarAssumption ==
  /\ MINIMUM_MATRIX_SIZE \in Nat \ {0} /\ MAXIMUM_MATRIX_SIZE \in Nat
  /\ MAXIMUM_RANDOM_VALUE \in Nat
  /\ \A size \in MINIMUM_MATRIX_SIZE .. MAXIMUM_MATRIX_SIZE :
       Pictures[size] \subseteq [Cells(size) -> 0 .. MAXIMUM_RANDOM_VALUE - 1]

VARIABLES
  phase,
  matrixSize, matrix,
  rowIndex, columnIndex, \* of the loop under way; leftElement when rows are reversed
  previousRow,           \* the row above as it was before it was smoothed
  original, rotated      \* the matrix as it was printed first and second

vars == <<phase, matrixSize, matrix, rowIndex, columnIndex, previousRow, original, rotated>>

\* getValidMatrixSize asks until the size is in range.
Init ==
  /\ matrixSize \in MINIMUM_MATRIX_SIZE .. MAXIMUM_MATRIX_SIZE
  /\ matrix \in Pictures[matrixSize]
  /\ original = matrix /\ rotated = matrix
  /\ previousRow = [c \in Indexes(matrixSize) |-> 0]
  /\ phase = "transpose" /\ rowIndex = 0 /\ columnIndex = 1

-----------------------------------------------------------------------------
(* rotateMatrix90Clockwise.                                                *)

\* Mutant: the first value is overwritten before it is kept.
swapValues_lost(a, b) == [matrix EXCEPT ![a] = matrix[b]]

swapValues(a, b) == [matrix EXCEPT ![a] = matrix[b], ![b] = matrix[a]]

\* Mutant: the inner loop starts in the first column and swaps all twice.
firstSwap_zero(row) == 0

\* Where the inner loop of transposeMatrix starts.
firstSwap(row) == row + 1

transposeStep ==
  /\ phase = "transpose"
  /\ IF columnIndex < matrixSize
     THEN /\ matrix' = swapValues(<<rowIndex, columnIndex>>, <<columnIndex, rowIndex>>)
          /\ columnIndex' = columnIndex + 1
          /\ UNCHANGED <<phase, rowIndex>>
     ELSE /\ IF rowIndex + 1 < matrixSize
             THEN rowIndex' = rowIndex + 1 /\ columnIndex' = firstSwap(rowIndex + 1)
                  /\ UNCHANGED phase
             ELSE phase' = "reverse" /\ rowIndex' = 0 /\ columnIndex' = 0
          /\ UNCHANGED matrix
  /\ UNCHANGED <<matrixSize, previousRow, original, rotated>>

rightElement == matrixSize - 1 - columnIndex

reverseStep ==
  /\ phase = "reverse" /\ rowIndex < matrixSize
  /\ IF columnIndex < rightElement
     THEN /\ matrix' = swapValues(<<rowIndex, columnIndex>>, <<rowIndex, rightElement>>)
          /\ columnIndex' = columnIndex + 1
          /\ UNCHANGED rowIndex
     ELSE rowIndex' = rowIndex + 1 /\ columnIndex' = 0 /\ UNCHANGED matrix
  /\ UNCHANGED <<phase, matrixSize, previousRow, original, rotated>>

-----------------------------------------------------------------------------
(* apply3x3SmoothingFilter.                                                *)

startFilter ==
  /\ phase = "reverse" /\ rowIndex = matrixSize
  /\ rotated' = matrix
  /\ previousRow' = [c \in Indexes(matrixSize) |-> matrix[0, c]]
  /\ phase' = "filter" /\ rowIndex' = 0
  /\ UNCHANGED <<matrixSize, matrix, columnIndex, original>>

\* Mutant: the row above is read from the matrix, where it is smoothed already.
neighborValue_inPlace(row, near) == matrix[near]

neighborValue(row, near) ==
  IF near[1] = row - 1 THEN previousRow[near[2]] ELSE matrix[near]

\* The offsets -1 to 1 that stay within the matrix.
Neighbors(row, column) ==
  { near \in (row - 1 .. row + 1) \X (column - 1 .. column + 1) :
      near[1] \in Indexes(matrixSize) /\ near[2] \in Indexes(matrixSize) }

\* Mutant: at the border too the sum is divided by nine.
numberOfElements_nine(row, column) == 9

numberOfElements(row, column) == Cardinality(Neighbors(row, column))

smoothedRow(row) ==
  [column \in Indexes(matrixSize) |->
    SumFunction([near \in Neighbors(row, column) |-> neighborValue(row, near)])
      \div numberOfElements(row, column)]

\* Mutant: the row is kept after it was overwritten.
currentRowOriginal_smoothed(row) == smoothedRow(row)

currentRowOriginal(row) == [column \in Indexes(matrixSize) |-> matrix[row, column]]

smoothRow ==
  /\ phase = "filter" /\ rowIndex < matrixSize
  /\ matrix' = [cell \in DOMAIN matrix |->
                 IF cell[1] = rowIndex THEN smoothedRow(rowIndex)[cell[2]] ELSE matrix[cell]]
  /\ previousRow' = currentRowOriginal(rowIndex)
  /\ rowIndex' = rowIndex + 1
  /\ UNCHANGED <<phase, matrixSize, columnIndex, original, rotated>>

Done == phase = "filter" /\ rowIndex = matrixSize

Next == transposeStep \/ reverseStep \/ startFilter \/ smoothRow

Spec == Init /\ [][Next]_vars

-----------------------------------------------------------------------------
\* The type invariant.
TypeOK ==
  /\ phase \in {"transpose", "reverse", "filter"}
  /\ matrixSize \in MINIMUM_MATRIX_SIZE .. MAXIMUM_MATRIX_SIZE
  /\ matrix \in [Cells(matrixSize) -> 0 .. MAXIMUM_RANDOM_VALUE - 1]
  /\ original \in [Cells(matrixSize) -> 0 .. MAXIMUM_RANDOM_VALUE - 1]
  /\ rowIndex \in 0 .. matrixSize /\ columnIndex \in 0 .. matrixSize

\* A quarter turn clockwise: the first column, read upwards, is the first row.
QuarterTurn(m) == [cell \in Cells(matrixSize) |-> m[matrixSize - 1 - cell[2], cell[1]]]

\* The mean of the cells at most one step away, itself included, rounded down.
MeanAround(m, cell) ==
  LET Near == { n \in Cells(matrixSize) : \A k \in 1 .. 2 : n[k] - cell[k] \in -1 .. 1 }
  IN  SumFunction([n \in Near |-> m[n]]) \div Cardinality(Near)

\* What is printed second is the first turned by a quarter, and however far the
\* filter has come, the rows it has done are the means of the turned matrix,
\* never of values that are smoothed already, and the others are untouched.
PictureOK ==
  /\ TypeOK
  /\ phase = "filter" =>
       /\ rotated = QuarterTurn(original)
       /\ \A cell \in Cells(matrixSize) :
            matrix[cell] = IF cell[1] < rowIndex THEN MeanAround(rotated, cell)
                           ELSE rotated[cell]
=============================================================================
