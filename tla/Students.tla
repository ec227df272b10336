------------------------------- MODULE Students -------------------------------
(***************************************************************************)
(* student_performance_analyzer.c: students are typed in line by line and  *)
(* graded.                                                                 *)
(*                                                                         *)
(* The number of students is never compared with the size of details: that *)
(* no student is stored behind its end follows from the roll numbers.      *)
(***************************************************************************)
EXTENDS Integers, Sequences, SequencesExt

CONSTANTS
  MAX_STUDENTS, \* the size of details, 100 in the code
  MAX_ROLL,     \* 100, written into main
  MAX_MARKS,    \* 100, written into isMarksValid
  Numbers,      \* what can be typed as the number of students
  Lines,        \* what can be typed as a student: a roll number, whether the
                \* name has only letters and spaces, and marks; or MALFORMED
  MALFORMED

TOTAL_SUBJECTS == 3

\* What is assumed of the constants.
StudentsAssumption ==
  /\ MAX_ROLL \in Nat /\ MAX_STUDENTS \in Nat /\ MAX_ROLL <= MAX_STUDENTS
  /\ Numbers \subseteq Int
  /\ \A line \in Lines \ {MALFORMED} : Len(line.marks) = TOTAL_SUBJECTS

VARIABLES
  numberOfStudents,
  details, \* the students stored
  printed, \* the report, student by student
  rolls,   \* what rollNumbers has printed
  outcome

vars == <<numberOfStudents, details, printed, rolls, outcome>>

Init ==
  /\ numberOfStudents \in Numbers
  /\ details = <<>> /\ printed = <<>> /\ rolls = <<>> /\ outcome = "running"

\* Mutant: the last student stored is not compared.
isUniqueRoll_last(roll) == \A i \in 1 .. Len(details) - 1 : details[i].roll # roll

isUniqueRoll(roll) == \A i \in 1 .. Len(details) : details[i].roll # roll

isMarksValid(marks) == \A i \in 1 .. TOTAL_SUBJECTS : marks[i] \in 0 .. MAX_MARKS

\* Mutant: roll numbers have no upper bound.
Accepted_anyRoll(line) ==
  /\ line # MALFORMED /\ line.roll >= 1 /\ isUniqueRoll(line.roll)
  /\ line.name_valid /\ isMarksValid(line.marks)

Accepted(line) ==
  /\ line # MALFORMED /\ line.roll \in 1 .. MAX_ROLL /\ isUniqueRoll(line.roll)
  /\ line.name_valid /\ isMarksValid(line.marks)

\* One line; one that is not accepted is asked for again.
enterStudent ==
  /\ Len(details) < numberOfStudents
  /\ \E line \in Lines :
       details' = IF Accepted(line) THEN Append(details, line) ELSE details
  /\ UNCHANGED <<numberOfStudents, printed, rolls, outcome>>

total(student) == FoldSeq(+, 0, student.marks)

Thresholds == [A |-> 85, B |-> 70, C |-> 50, D |-> 35, F |-> 0]

\* Mutant: an average of exactly 35 is not a D.
Reaches_strictly(sum, grade) == grade = "F" \/ sum > Thresholds[grade] * TOTAL_SUBJECTS

\* Whether the average, a third of the sum, reaches the threshold of a grade.
Reaches(sum, grade) == sum >= Thresholds[grade] * TOTAL_SUBJECTS

gradeOfStudent(sum) ==
  CHOOSE g \in DOMAIN Thresholds :
    /\ Reaches(sum, g)
    /\ \A h \in DOMAIN Thresholds : Reaches(sum, h) => Thresholds[h] <= Thresholds[g]

\* printStars.
Stars == [A |-> 5, B |-> 4, C |-> 3, D |-> 2, F |-> 0]

\* A student with an average below 35 gets no line of stars.
Report(student) ==
  LET sum == total(student)
      grade == gradeOfStudent(sum)
  IN  [roll |-> student.roll, total |-> sum, grade |-> grade,
       performance |-> IF sum < 35 * TOTAL_SUBJECTS THEN <<>> ELSE <<Stars[grade]>>]

\* One iteration of the loop that prints the report.
printStudent ==
  /\ Len(details) >= numberOfStudents /\ Len(printed) < numberOfStudents
  /\ printed' = Append(printed, Report(details[Len(printed) + 1]))
  /\ UNCHANGED <<numberOfStudents, details, rolls, outcome>>

\* rollNumbers calls itself until the index equals numberOfStudents; for a
\* negative number it runs out of the array and the stack.
rollNumbers ==
  /\ outcome = "running" /\ Len(details) >= numberOfStudents /\ Len(printed) >= numberOfStudents
  /\ IF numberOfStudents >= 0
     THEN /\ rolls' = [i \in 1 .. numberOfStudents |-> details[i].roll]
          /\ outcome' = "done"
     ELSE outcome' = "crashed" /\ UNCHANGED rolls
  /\ UNCHANGED <<numberOfStudents, details, printed>>

Next == enterStudent \/ printStudent \/ rollNumbers

Spec == Init /\ [][Next]_vars

-----------------------------------------------------------------------------
\* The type invariant.
TypeOK ==
  /\ numberOfStudents \in Numbers /\ outcome \in {"running", "done", "crashed"}
  /\ details \in Seq(Lines \ {MALFORMED}) /\ Len(printed) <= Len(details)

\* Nothing is stored behind the end of details, whatever number was typed: the
\* roll numbers are distinct, and there are no more of them than places.  For
\* the same reason a number above MAX_ROLL never gets to the report.
StoredInside ==
  /\ \A i, j \in 1 .. Len(details) : details[i].roll = details[j].roll => i = j
  /\ Len(details) <= MAX_STUDENTS
  /\ numberOfStudents > MAX_ROLL => Len(details) < numberOfStudents /\ printed = <<>>

\* The report follows the students in order and does not contradict itself:
\* stars are shown to exactly those who do not fail, and nobody gets fewer of
\* them than someone with a lower total.
ReportFair ==
  /\ \A i \in 1 .. Len(printed) :
       /\ printed[i].roll = details[i].roll
       /\ (printed[i].grade = "F") <=> (printed[i].performance = <<>>)
       /\ \A j \in 1 .. Len(printed) :
            printed[i].total <= printed[j].total => Stars[printed[i].grade] <= Stars[printed[j].grade]
  /\ outcome = "done" => Len(printed) = numberOfStudents /\ Len(rolls) = Len(printed)
  /\ outcome = "crashed" => numberOfStudents < 0

\* The register holds what it has room for, and the report is fair.
RegisterOK == TypeOK /\ StoredInside /\ ReportFair
=============================================================================
