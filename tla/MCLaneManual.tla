------------------------------ MODULE MCLaneManual ------------------------------
(***************************************************************************)
(* LaneManual for TLC: a plan of two moves, so that a search can stop      *)
(* before, between and after them, and a way back of two moves, so that a  *)
(* return can be cut short half way.                                       *)
(***************************************************************************)
EXTENDS LaneManual
=============================================================================
