------------------------------ MODULE MCSequential ------------------------------
(***************************************************************************)
(* The programs in which only one thing happens at a time, and the sort    *)
(* that the four IPC programs share.  A behaviour is a run of one of them; *)
(* the variables of the others stay as they are.                           *)
(***************************************************************************)
EXTENDS BubbleSort, Sequences, SequencesExt

CONSTANTS
  IntHalf,                                                        \* as int everywhere
  Texts, Garbage,                                                 \* Calculator
  MINIMUM_MATRIX_SIZE, MAXIMUM_MATRIX_SIZE, MAXIMUM_RANDOM_VALUE, \* SonarImage
  Pictures,
  MAX_STUDENTS, MAX_ROLL, MAX_MARKS, Numbers, StudentLines, MALFORMED,
  INITIAL_NUMBER_OF_PRODUCTS, MAXIMUM_ID, MAXIMUM_QUANTITY, MAXIMUM_PRICE, \* Inventory
  MAXIMUM_NAME_LENGTH, ProductIntHalf, Longs, Decimals, NameLines, NULL, UNKNOWN, NAN

VARIABLES
  program, \* which program is run
  inputExpression, i, expectNumber, operandStack, operatorStack,
  newOperandStack, newOperatorStack, j, answer,
  matrixSize, matrix, rowIndex, columnIndex, previousRow, original, rotated,
  numberOfStudents, details, printed, rolls, outcome,
  products, count, shown,
  calculatorPhase, sonarPhase, inventoryPhase

calculatorVars ==
  <<inputExpression, i, expectNumber, operandStack, operatorStack,
    newOperandStack, newOperatorStack, j, answer, calculatorPhase>>
sonarVars ==
  <<matrixSize, matrix, rowIndex, columnIndex, previousRow, original, rotated, sonarPhase>>
studentsVars == <<numberOfStudents, details, printed, rolls, outcome>>
inventoryVars == <<products, count, shown, inventoryPhase>>
allVars == <<program, sortVars, calculatorVars, sonarVars, studentsVars, inventoryVars>>

Calculator == INSTANCE Calculator WITH phase <- calculatorPhase
Sonar == INSTANCE SonarImage WITH phase <- sonarPhase
Students == INSTANCE Students WITH Lines <- StudentLines
Inventory ==
  INSTANCE Inventory WITH IntHalf <- ProductIntHalf, Lines <- NameLines, phase <- inventoryPhase

ASSUME ProgramsAssumption ==
  /\ Calculator!CalculatorAssumption /\ Sonar!SonarAssumption
  /\ Students!StudentsAssumption /\ Inventory!InventoryAssumption

-----------------------------------------------------------------------------
(* One program is run; the others are in one of their initial states.      *)

Runs(p) == program = p
MCInit ==
  /\ program \in {"sort", "calculator", "sonar", "students", "inventory"}
  /\ SortInit /\ (~Runs("sort") => inputArray = [k \in 0 .. 0 |-> 0])
  /\ Calculator!Init /\ (~Runs("calculator") => inputExpression = <<>>)
  /\ Sonar!Init /\ (~Runs("sonar") => \A cell \in DOMAIN matrix : matrixSize = 2 /\ matrix[cell] = 0)
  /\ Students!Init /\ (~Runs("students") => numberOfStudents = 0)
  /\ Inventory!Init /\ (~Runs("inventory") => count = 1)

Step(p) ==
  \/ /\ p = "sort" /\ SortNext
     /\ UNCHANGED <<calculatorVars, sonarVars, studentsVars, inventoryVars>>
  \/ /\ p = "calculator" /\ Calculator!Next
     /\ UNCHANGED <<sortVars, sonarVars, studentsVars, inventoryVars>>
  \/ /\ p = "sonar" /\ Sonar!Next
     /\ UNCHANGED <<sortVars, calculatorVars, studentsVars, inventoryVars>>
  \/ /\ p = "students" /\ Students!Next
     /\ UNCHANGED <<sortVars, calculatorVars, sonarVars, inventoryVars>>
  \/ /\ p = "inventory" /\ Inventory!Next
     /\ UNCHANGED <<sortVars, calculatorVars, sonarVars, studentsVars>>

MCNext == UNCHANGED program /\ Step(program)

\* A step that is possible is taken in the end, where the program goes on by
\* itself and where it asks again until the line of a student is accepted; the
\* menu of the inventory may stay unused.
MCSpec ==
  /\ MCInit /\ [][MCNext]_allVars
  /\ WF_allVars(~Runs("inventory") /\ MCNext)

-----------------------------------------------------------------------------
\* The calculator answers an expression with its value, and nothing else.
AnswerOK == Calculator!AnswerOK

\* The picture is turned by a quarter and smoothed, both in place.
PictureOK == Sonar!PictureOK

\* The students fit into their array, and their report is fair.
RegisterOK == Students!RegisterOK

\* The products stay distinct and inside their block of memory.
InventoryOK == Inventory!InventoryOK

\* The inventory implements Catalogue.
RefinesCatalogue == Inventory!RefinesCatalogue

\* The sort, the calculator and the filter come to their end, whatever the
\* input; the students' program does unless it was asked for more students than
\* there are roll numbers.
AllReturn ==
  /\ Runs("sort") => Returns
  /\ Runs("calculator") => <>(calculatorPhase = "done")
  /\ Runs("sonar") => <>Sonar!Done
  /\ Runs("students") /\ numberOfStudents <= MAX_ROLL => <>(outcome # "running")

-----------------------------------------------------------------------------
(* Inputs: every array of up to four elements over four values.            *)

FourValues == -1 .. 2

\* Expressions of up to four numbers, numbers with signs and with spaces in them,
\* and every text of up to three characters.
Operators == {<<43>>, <<45>>, <<42>>, <<47>>}
SmallNumbers == {<<50>>, <<55>>}
OddNumbers == {<<48>>, <<50>>, <<45, 49>>, <<45, 51, 50>>, <<49, 32, 50>>}
MCTexts ==
  { a \o o \o b \o p \o c \o q \o d : a, b, c, d \in SmallNumbers, o, p, q \in Operators }
  \cup { a \o o \o b \o p \o c : a, b, c \in OddNumbers, o, p \in Operators }
  \cup UNION { [1 .. n -> {49, 32, 9, 43, 45, 42, 47, 120}] : n \in 0 .. 3 }
MCGarbage == {-1, 0, 5}

\* All black and white pictures of two and three cells a side; of four, a slope
\* with two bright cells.
Square(n) == (0 .. n - 1) \X (0 .. n - 1)
MCPictures ==
  [n \in 2 .. 4 |->
    IF n < 4 THEN [Square(n) -> {0, 255}]
    ELSE { [c \in Square(n) |-> IF c \in {lit, <<0, 0>>} THEN 255 ELSE 7 * c[1] + c[2]] :
             lit \in Square(n) }]

\* Lines with each kind of mistake, and marks at the limits of the grades.
Line(roll, valid, marks) == [roll |-> roll, name_valid |-> valid, marks |-> marks]
MCStudents ==
  {MALFORMED, Line(1, FALSE, <<1, 1, 1>>), Line(1, TRUE, <<101, 0, 0>>)}
  \cup { Line(roll, TRUE, marks) :
           roll \in 0 .. 3,
           marks \in {<<35, 35, 35>>, <<34, 35, 35>>, <<85, 85, 85>>, <<70, 70, 70>>, <<50, 51, 49>>} }
MCNumbers == -1 .. 3

\* Numbers that an int takes for others, two names of which one is part of the
\* other when letters are compared without case, one with a digit too many, and
\* no name at all.
MCLongs == -1 .. 3 \cup {17, 18}
MCDecimals == {4, 9, NAN}
MCNames == {<<97, 66>>, <<98, 97, 98, 53>>, <<>>}
=============================================================================
