----------------------------- MODULE FencedFlight -----------------------------
(***************************************************************************)
(* What the fleet protocol promises about one drone, without connections,  *)
(* messages or threads: leader epochs only grow, each has one leader, and  *)
(* a flight belongs to the epoch it is flown under.  A new leader takes    *)
(* the drone over on the ground, or in flight where that is allowed.       *)
(***************************************************************************)
EXTENDS Naturals

CONSTANTS
    Leaders,
    InFlight,   \* whether a flying drone may be handed over
    Nobody      \* neither a leader nor an epoch

VARIABLES epoch, leader, pilot   \* pilot: the epoch a flight belongs to, or Nobody

vars == <<epoch, leader, pilot>>

Init == epoch = 0 /\ leader = Nobody /\ pilot = Nobody

Lead(n) ==
    /\ epoch' \in Nat /\ epoch' > epoch /\ leader' = n
    /\ \/ pilot = Nobody /\ pilot' = Nobody
       \/ InFlight /\ pilot = epoch /\ pilot' = epoch'

\* Only under a leader does a flight begin, and it is that leader's.
Fly == leader # Nobody /\ pilot = Nobody /\ pilot' = epoch /\ UNCHANGED <<epoch, leader>>

Land == pilot # Nobody /\ pilot' = Nobody /\ UNCHANGED <<epoch, leader>>

Next == (\E n \in Leaders : Lead(n)) \/ Fly \/ Land

Spec == Init /\ [][Next]_vars
=============================================================================
