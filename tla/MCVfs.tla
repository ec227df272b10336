--------------------------------- MODULE MCVfs ---------------------------------
(***************************************************************************)
(* A finite instance of VirtualFileSystem: three files and directories     *)
(* below the root, three names of which one is "..", and too few blocks.   *)
(***************************************************************************)
EXTENDS VirtualFileSystem, TLC

TwoBlocks == {0, 1}

\* Addresses are compared for equality only.
Symmetry == Permutations(Nodes \ {root})
=============================================================================
