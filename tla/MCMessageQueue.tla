---------------------------- MODULE MCMessageQueue ----------------------------
(***************************************************************************)
(* Sessions of MessageQueueSort over arrays of different lengths.          *)
(***************************************************************************)
EXTENDS MessageQueueSort

SomeArrays == {<<2, 1>>, <<3, -1, 2>>}
=============================================================================
