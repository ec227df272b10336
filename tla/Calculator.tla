------------------------------ MODULE Calculator ------------------------------
(***************************************************************************)
(* calculator.c: a line is scanned into operands and operators, then * and *)
(* / are worked off, then + and -.                                         *)
(*                                                                         *)
(* A text is a sequence of character codes.  An int has the range          *)
(* -IntHalf .. IntHalf - 1 and wraps; a long is cut to it.                 *)
(***************************************************************************)
EXTENDS Integers, Sequences, SequencesExt

CONSTANTS
  Texts,   \* the lines that can be typed, without their end
  IntHalf, \* 2^31 in the code
  Garbage  \* what an element of operandStack may hold that was never set

\* What is assumed of the constants.
CalculatorAssumption ==
  /\ IntHalf \in Nat \ {0} /\ Garbage \subseteq -IntHalf .. IntHalf - 1 /\ Garbage # {}
  /\ Texts \subseteq Seq(1 .. 127)

VARIABLES
  inputExpression, i, expectNumber,
  operandStack, operatorStack,       \* as they are scanned
  newOperandStack, newOperatorStack, \* as they are after the first pass
  j,                                 \* the operator the pass has come to
  phase, answer

scanVars == <<inputExpression, i, expectNumber, operandStack, operatorStack>>
passVars == <<newOperandStack, newOperatorStack, j>>
vars == <<scanVars, passVars, phase, answer>>

Space == 32
Plus == 43
Minus == 45
Times == 42
Slash == 47
isdigit(c) == c \in 48 .. 57
isspace(c) == c \in {Space} \cup 9 .. 13

\* The value an int keeps of v, and a division of ints, which truncates.
Cut(v) == ((v + IntHalf) % (2 * IntHalf)) - IntHalf
Quotient(a, b) ==
  LET q == (IF a < 0 THEN -a ELSE a) \div (IF b < 0 THEN -b ELSE b)
  IN  IF (a < 0) = (b < 0) THEN q ELSE -q

\* The character at position k, 0 behind the end.
At(k) == IF k <= Len(inputExpression) THEN inputExpression[k] ELSE 0

\* The first position from k on whose character is not one of Skipped.
After(k, Skipped) ==
  CHOOSE e \in k .. Len(inputExpression) + 1 :
    /\ At(e) \notin Skipped
    /\ \A m \in k .. e - 1 : At(m) \in Skipped

Init ==
  /\ inputExpression \in Texts
  /\ i = 1 /\ expectNumber = TRUE
  /\ operandStack = <<>> /\ operatorStack = <<>>
  /\ newOperandStack = <<>> /\ newOperatorStack = <<>> /\ j = 1
  /\ phase = "start" /\ answer = <<>>

-----------------------------------------------------------------------------
(* Scanning: one iteration of the loop over the text.                      *)

Answer(what) == phase' = "done" /\ answer' = what

skipLeadingSpaces ==
  /\ phase = "start"
  /\ i' = After(1, {Space})
  /\ IF i' > Len(inputExpression) THEN Answer(<<"Error: Empty expression">>)
     ELSE phase' = "scan" /\ UNCHANGED answer
  /\ UNCHANGED <<inputExpression, expectNumber, operandStack, operatorStack, passVars>>

Scanning == phase = "scan" /\ i <= Len(inputExpression)

skipSpace ==
  /\ Scanning /\ isspace(At(i))
  /\ i' = i + 1
  /\ UNCHANGED <<inputExpression, expectNumber, operandStack, operatorStack, passVars, phase, answer>>

Signed == expectNumber /\ At(i) \in {Plus, Minus}

\* Mutant: no spaces are skipped after a sign.
NumberStart_strict == IF Signed THEN i + 1 ELSE i

\* Where the number starts, behind a sign and the spaces after it.
NumberStart == IF Signed THEN After(i + 1, {Space}) ELSE i

\* Mutant: the digits after a space are dropped.
Digits_first(from, to) == SelectSeq(SubSeq(inputExpression, from, After(from, 48 .. 57) - 1), isdigit)

\* Spaces between the digits of a number are passed over.
Digits(from, to) == SelectSeq(SubSeq(inputExpression, from, to), isdigit)

readNumber ==
  /\ Scanning /\ isdigit(At(NumberStart))
  /\ LET end == After(NumberStart, {Space} \cup 48 .. 57)
         value == FoldLeft(LAMBDA v, c : 10 * v + c - 48, 0, Digits(NumberStart, end - 1))
     IN  /\ operandStack' =
              Append(operandStack, Cut(IF Signed /\ At(i) = Minus THEN -value ELSE value))
         /\ i' = end
  /\ expectNumber' = FALSE
  /\ UNCHANGED <<inputExpression, operatorStack, passVars, phase, answer>>

readOperator ==
  /\ Scanning /\ ~expectNumber /\ At(i) \in {Plus, Minus, Times, Slash}
  /\ operatorStack' = Append(operatorStack, At(i))
  /\ i' = i + 1 /\ expectNumber' = TRUE
  /\ UNCHANGED <<inputExpression, operandStack, passVars, phase, answer>>

reject ==
  /\ Scanning /\ ~isspace(At(i)) /\ ~isdigit(At(NumberStart))
  /\ expectNumber \/ At(i) \notin {Plus, Minus, Times, Slash}
  /\ Answer(<<"Error: Invalid expression">>)
  /\ UNCHANGED <<scanVars, passVars>>

-----------------------------------------------------------------------------
(* The two passes over the operators.                                      *)

\* An operand that no number was scanned for is uninitialised.
Operand(k) == IF k <= Len(operandStack) THEN {operandStack[k]} ELSE Garbage

startFirstPass ==
  /\ phase = "scan" /\ i > Len(inputExpression)
  /\ \E first \in Operand(1) : newOperandStack' = <<first>>
  /\ phase' = "first"
  /\ UNCHANGED <<scanVars, newOperatorStack, j, answer>>

InFirstPass == phase = "first" /\ j <= Len(operatorStack)

\* Mutant: a product takes the first operand instead of the last.
multiply_first ==
  /\ InFirstPass /\ operatorStack[j] = Times
  /\ \E b \in Operand(j + 1) : newOperandStack' = [newOperandStack EXCEPT ![1] = Cut(@ * b)]
  /\ j' = j + 1
  /\ UNCHANGED <<scanVars, newOperatorStack, phase, answer>>

multiply ==
  /\ InFirstPass /\ operatorStack[j] = Times
  /\ \E b \in Operand(j + 1) :
       newOperandStack' = [newOperandStack EXCEPT ![Len(newOperandStack)] = Cut(@ * b)]
  /\ j' = j + 1
  /\ UNCHANGED <<scanVars, newOperatorStack, phase, answer>>

\* The least int divided by -1 does not fit: the processor stops the program.
divide ==
  /\ InFirstPass /\ operatorStack[j] = Slash
  /\ \E b \in Operand(j + 1) :
       LET a == newOperandStack[Len(newOperandStack)] IN
       \/ b = 0 /\ Answer(<<"Error: Division by zero">>) /\ UNCHANGED passVars
       \/ b = -1 /\ a = -IntHalf /\ Answer(<<"crashed">>) /\ UNCHANGED passVars
       \/ /\ b # 0 /\ ~(b = -1 /\ a = -IntHalf)
          /\ newOperandStack' = [newOperandStack EXCEPT ![Len(newOperandStack)] = Quotient(a, b)]
          /\ j' = j + 1
          /\ UNCHANGED <<newOperatorStack, phase, answer>>
  /\ UNCHANGED scanVars

carryOver ==
  /\ InFirstPass /\ operatorStack[j] \in {Plus, Minus}
  /\ newOperatorStack' = Append(newOperatorStack, operatorStack[j])
  /\ \E b \in Operand(j + 1) : newOperandStack' = Append(newOperandStack, b)
  /\ j' = j + 1
  /\ UNCHANGED <<scanVars, phase, answer>>

\* Mutant: what is subtracted are the differences that follow.
Total_right ==
  FoldRight(LAMBDA k, v : IF k > 1 /\ newOperatorStack[k - 1] = Minus
                          THEN Cut(newOperandStack[k] - v) ELSE Cut(newOperandStack[k] + v),
            [k \in 1 .. Len(newOperandStack) |-> k], 0)

\* From left to right.
Total ==
  FoldLeft(LAMBDA v, k : Cut(IF newOperatorStack[k] = Plus THEN v + newOperandStack[k + 1]
                             ELSE v - newOperandStack[k + 1]),
           newOperandStack[1], [k \in 1 .. Len(newOperatorStack) |-> k])

printValue ==
  /\ phase = "first" /\ j > Len(operatorStack)
  /\ Answer(<<"value", Total>>)
  /\ UNCHANGED <<scanVars, passVars>>

Next ==
  \/ skipLeadingSpaces \/ skipSpace \/ readNumber \/ readOperator \/ reject
  \/ startFirstPass \/ multiply \/ divide \/ carryOver \/ printValue

Spec == Init /\ [][Next]_vars

-----------------------------------------------------------------------------
\* The type invariant.
TypeOK ==
  /\ i \in 1 .. Len(inputExpression) + 1
  /\ \A s \in {operandStack, newOperandStack} :
       Len(s) <= Len(inputExpression) + 1 /\ \A k \in 1 .. Len(s) : s[k] \in -IntHalf .. IntHalf - 1
  /\ phase \in {"start", "scan", "first", "done"}

\* What an expression t, a text without blanks, is and what it is worth, without
\* stacks and passes.
IsOperator(t, k) == k > 1 /\ t[k] \in {Plus, Minus, Times, Slash} /\ isdigit(t[k - 1])
IsSign(t, k) == t[k] \in {Plus, Minus} /\ (k = 1 \/ IsOperator(t, k - 1))
WellFormed(t) ==
  /\ t # <<>> /\ isdigit(Last(t))
  /\ \A k \in 1 .. Len(t) : isdigit(t[k]) \/ IsOperator(t, k) \/ IsSign(t, k)

\* The value of t, split at the last operator of the weakest kind; whether
\* something is divided by zero, and whether all values fit an int.
Meaning(t) ==
  LET of[lo \in 1 .. Len(t), hi \in 1 .. Len(t)] ==
        LET Operators == { k \in lo .. hi : IsOperator(t, k) }
            Weak == { k \in Operators : t[k] \in {Plus, Minus} }
            k == Max(IF Weak # {} THEN Weak ELSE Operators)
            a == of[lo, k - 1]
            b == of[k + 1, hi]
            zero == a.zero \/ b.zero \/ (t[k] = Slash /\ b.value = 0)
            v == CASE zero -> 0
                   [] ~zero /\ t[k] = Plus -> a.value + b.value
                   [] ~zero /\ t[k] = Minus -> a.value - b.value
                   [] ~zero /\ t[k] = Times -> a.value * b.value
                   [] ~zero /\ t[k] = Slash -> Quotient(a.value, b.value)
            decimal == FoldLeft(LAMBDA n, c : IF isdigit(c) THEN 10 * n + c - 48 ELSE n, 0,
                                SubSeq(t, lo, hi))
            number == IF t[lo] = Minus THEN -decimal ELSE decimal
        IN  IF Operators = {} THEN [value |-> number, zero |-> FALSE, fits |-> Cut(number) = number]
            ELSE [value |-> v, zero |-> zero, fits |-> a.fits /\ b.fits /\ Cut(v) = v]
  IN  of[1, Len(t)]

\* The answer to t, a text without its spaces.
Answered(t) ==
  IF WellFormed(t)
  THEN LET m == Meaning(t) IN
       m.fits \/ (\A k \in 1 .. Len(t) : t[k] # Slash) =>
         answer = IF m.zero THEN <<"Error: Division by zero">> ELSE <<"value", Cut(m.value)>>
  ELSE \/ t # <<>> /\ WellFormed(Front(t)) /\ IsOperator(t, Len(t))
       \/ answer = IF t = <<>> THEN <<"Error: Empty expression">>
                   ELSE <<"Error: Invalid expression">>

\* An expression whose values fit an int is answered with its value, by the usual
\* precedence and from left to right, or with the division by zero; without
\* divisions the value is right up to a multiple of the range.  Anything else is
\* refused, except when only the last number is missing.  All this needs that no
\* blank but the space is typed: a tab inside a number makes it two operands.
AnswerOK ==
  /\ TypeOK
  /\ phase = "done" /\ (\A k \in 1 .. Len(inputExpression) : isspace(At(k)) => At(k) = Space)
       => Answered(SelectSeq(inputExpression, LAMBDA c : ~isspace(c)))
=============================================================================
