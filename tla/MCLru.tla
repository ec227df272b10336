-------------------------------- MODULE MCLru --------------------------------
(***************************************************************************)
(* A finite instance of LruCache: four keys in two buckets, capacities up  *)
(* to three, and rejected capacities on both sides.                        *)
(***************************************************************************)
EXTENDS LruCache, TLC

FourKeys == 1 .. 4
TwoBuckets == [k \in FourKeys |-> k % 2]
SomeCapacities == {0, 1, 3, 4}

\* Addresses are compared for equality only.
Symmetry == Permutations(Nodes)
=============================================================================
