---------------------------- MODULE MCCompressor ----------------------------
(***************************************************************************)
(* Small instances of Compressor.  The periods keep the order of the       *)
(* code's 2, 5, 10 and 270 minutes where time matters.  The temperatures   *)
(* 0, 3 and 4 hit the first limits and the gap between them, and lie       *)
(* below, at and just above the stop limit of the second ones; the third   *)
(* limits are some that the alarm task rejects.                            *)
(***************************************************************************)
EXTENDS Compressor

OneLimit == {[work |-> 4, stop |-> 0]}
AllLimits == OneLimit \cup {[work |-> 5, stop |-> 3], [work |-> 9, stop |-> 3]}
=============================================================================
