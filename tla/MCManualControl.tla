----------------------------- MODULE MCManualControl -----------------------------
(***************************************************************************)
(* The dashboard's manual control over an edge that keeps EdgeControl's    *)
(* promise, with two clicks of operators who may also disconnect: enough   *)
(* to take a drone, lose the browser and take it again.                    *)
(***************************************************************************)
EXTENDS ManualControl
=============================================================================
