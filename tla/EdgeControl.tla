------------------------------- MODULE EdgeControl -------------------------------
(***************************************************************************)
(* What an edge promises the ground of manual control: once taken, a drone *)
(* stays under manual control through takeoffs and landings, until it is   *)
(* given back or gets a new plan on the ground, and a landing is not over  *)
(* before the drone is down.                                               *)
(*                                                                         *)
(* LaneManual implements it; ManualControl relies on it.                   *)
(***************************************************************************)
VARIABLES taken, flying, landing

vars == <<taken, flying, landing>>

Init == taken = FALSE /\ flying = FALSE /\ landing = FALSE

Take ==
    /\ ~landing /\ ~taken /\ taken' = TRUE
    /\ UNCHANGED <<flying, landing>>

GiveBack ==
    /\ ~landing /\ taken /\ taken' = FALSE
    /\ UNCHANGED <<flying, landing>>

NewPlan ==
    /\ ~flying /\ taken' = FALSE
    /\ UNCHANGED <<flying, landing>>

TakeOff ==
    /\ ~flying /\ flying' = TRUE
    /\ UNCHANGED <<taken, landing>>

Land ==
    /\ flying /\ ~landing /\ landing' = TRUE
    /\ UNCHANGED <<taken, flying>>

\* Landed as asked, or come down by itself.
Down ==
    /\ flying /\ flying' = FALSE /\ landing' = FALSE
    /\ UNCHANGED taken

Next == Take \/ GiveBack \/ NewPlan \/ TakeOff \/ Land \/ Down

Spec == Init /\ [][Next]_vars

=============================================================================
