----------------------------- MODULE MCTelloLanding -----------------------------
(***************************************************************************)
(* TelloLanding for TLC: two threads land, so that a land meets a takeoff, *)
(* a move, a keepalive and another land.  They are interchangeable.        *)
(***************************************************************************)
EXTENDS TelloLanding, TLC

LanderSymmetry == Permutations(Landers)
=============================================================================
