------------------------------ MODULE MCSerial ------------------------------
(***************************************************************************)
(* Small instances of Serial: buffers of two bytes are full, empty and     *)
(* half full, and two tasks meet between their critical sections.          *)
(***************************************************************************)
EXTENDS Serial, TLC

TaskSymmetry == Permutations(Tasks)
=============================================================================
