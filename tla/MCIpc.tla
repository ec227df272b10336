--------------------------------- MODULE MCIpc ---------------------------------
(***************************************************************************)
(* The two IPC programs that have no object outliving them in the system:  *)
(* a behaviour is one of pipe_ipc.c, or several runs of file_ipc.c that    *)
(* share the file.  The variables of the other program stay as they are.   *)
(***************************************************************************)
EXTENDS PipeSort

CONSTANTS Sessions, FileArrays, ABSENT, EMPTY, GARBAGE

VARIABLES
  program, \* which of the two programs is run
  fileParent, fileChild, typed, file, receivedArray, filePrinted

fileVars == <<fileParent, fileChild, typed, file, receivedArray, filePrinted>>
allVars == <<program, vars, fileVars>>

File ==
  INSTANCE FileSort
    WITH Arrays <- FileArrays, parent <- fileParent, child <- fileChild, printed <- filePrinted

ASSUME SessionsAssumption == File!FileAssumption

MCInit ==
  /\ program \in {"pipe_ipc", "file_ipc"}
  /\ Init /\ File!Init
  /\ program = "pipe_ipc" => \A r, s \in Sessions : typed[r] = typed[s] /\ Len(typed[r]) = 3

PipeStep(A) == program = "pipe_ipc" /\ A /\ UNCHANGED <<program, fileVars>>
FileStep(A) == program = "file_ipc" /\ A /\ UNCHANGED <<program, vars>>

MCNext == PipeStep(Next) \/ FileStep(File!Next)

\* The fairness of the two programs.
MCSpec ==
  /\ MCInit /\ [][MCNext]_allVars
  /\ WF_allVars(PipeStep(Parent)) /\ WF_allVars(PipeStep(Child))
  /\ \A s \in Sessions :
       WF_allVars(FileStep(File!Parent(s))) /\ WF_allVars(FileStep(File!Child(s)))

-----------------------------------------------------------------------------
\* What a user of file_ipc.c is shown: the sorted array when the child was late
\* enough, an array of some session in any case.
FileShownOK == File!ShownOK

\* The programs end: both processes of pipe_ipc.c, also when the parent gives up
\* or one of them is interrupted; and once some parent has written the file, all
\* processes of file_ipc.c, also the children whose parent gave up.
ProgramsEnd ==
  /\ program = "pipe_ipc" => BothEnd
  /\ File!AllEndOnceWritten

-----------------------------------------------------------------------------
(* Arrays of up to four elements, in order, out of order and repeating.    *)

PipeArrays == {<<7>>, <<1, 2>>, <<2, 1>>, <<3, -1, 2>>, <<4, 3, 3, 1>>}
SessionArrays == {<<1, 2>>, <<2, 1>>, <<3, -1, 2>>}
=============================================================================
