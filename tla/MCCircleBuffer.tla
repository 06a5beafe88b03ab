--------------------------- MODULE MCCircleBuffer ---------------------------
(***************************************************************************)
(* A small instance of CircleBuffer: the counters wrap after the storage   *)
(* was used twice.  The code never looks at the value of a byte, so the    *)
(* bytes are interchangeable.                                              *)
(***************************************************************************)
EXTENDS CircleBuffer, TLC

ByteSymmetry == Permutations(Bytes)
=============================================================================
