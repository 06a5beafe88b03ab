------------------------------- MODULE MCAlarm -------------------------------
(***************************************************************************)
(* Instances of Alarm: ranges of a configuration, one of which has a       *)
(* temperature the alarm task refuses (high > 8).                          *)
(***************************************************************************)
EXTENDS Alarm

Range == [high |-> 5, low |-> 2]
OneRange == [k \in Kinds |-> {Range}]
TwoRanges == [OneRange EXCEPT !["temperature"] = @ \cup {[high |-> 9, low |-> 2]}]
=============================================================================
