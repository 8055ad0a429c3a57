----------------------------- MODULE MCCoordinator -----------------------------
(***************************************************************************)
(* Three drones with one lane each: the least with which the lanes of a    *)
(* lost drone are shared between two others, and one of those, given a     *)
(* share, can be lost, refuse or be deferred in turn.                      *)
(***************************************************************************)
EXTENDS Coordinator

CONSTANTS d1, d2, d3

ThreeLinks   == <<d1, d2, d3>>
LanesOfThree == [d \in {d1, d2, d3} |-> 1]
=============================================================================
