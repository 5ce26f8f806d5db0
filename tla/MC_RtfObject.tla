---------------------------- MODULE MC_RtfObject ----------------------------
(* Model checking RtfObject on a scaled-down object layout: every field is *)
(* short enough that a handful of process calls of 1 or 3 bytes split each *)
(* field across calls and complete a whole object.                         *)
EXTENDS RtfObject, TLC
=============================================================================
