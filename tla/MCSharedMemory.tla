---------------------------- MODULE MCSharedMemory ----------------------------
(***************************************************************************)
(* Sessions of SharedMemorySort over arrays of different lengths.          *)
(***************************************************************************)
EXTENDS SharedMemorySort, TLC

SomeArrays == {<<7>>, <<2, 1>>, <<3, -1, 2>>}

Symmetry == Permutations(Sessions)
=============================================================================
