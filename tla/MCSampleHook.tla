---------------------------- MODULE MCSampleHook ----------------------------
(* SampleHook for TLC: watch_in keeps nothing from one packet to the next, so *)
(* that one connection meets all that can happen to it.                       *)
EXTENDS SampleHook, TLC

CONSTANT c1

MCConn == {c1}
=============================================================================
