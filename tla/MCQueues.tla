------------------------------- MODULE MCQueues -------------------------------
(***************************************************************************)
(* Finite instances of ProcessQueues: four records, two with one pid.      *)
(***************************************************************************)
EXTENDS ProcessQueues

FourProcesses == 1 .. 4
ThreeProcesses == 1 .. 3
SharedPids == [p \in FourProcesses |-> IF p = 4 THEN 3 ELSE p]
OwnPids == [p \in ThreeProcesses |-> p]
=============================================================================
