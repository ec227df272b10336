-------------------------------- MODULE MCAtm --------------------------------
(***************************************************************************)
(* Finite instances of AtmSystem.                                          *)
(***************************************************************************)
EXTENDS AtmSystem, TLC

CONSTANTS c1, c2

\* 0.004, which the client accepts and rounds to nothing, 0.06, which is all
\* there is at first, and the amounts that are no numbers.
MCAmounts == {4, 60, NAN, INF}
MCOneAmount == {60}
MCFiles == {6, ABSENT}
MCStoredFile == {6}
MCGarbage == {-3, 7}
TwoClients == {c1, c2}
Symmetry == Permutations(TwoClients)
=============================================================================
