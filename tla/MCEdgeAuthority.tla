--------------------------- MODULE MCEdgeAuthority ---------------------------
(***************************************************************************)
(* Instances of EdgeAuthority for TLC: two grounds A and B.  A leads at    *)
(* epoch 1; B, or A again, may lead later.                                 *)
(***************************************************************************)
EXTENDS EdgeAuthority, TLC

CONSTANTS A, B, k1, k2, c1, c2, c3, p1

Lead(n, e, v) == [node |-> n, role |-> "leader", epoch |-> e, proto |-> v]
Standby(n, e) == [node |-> n, role |-> "standby", epoch |-> e, proto |-> 2]
Beat(n, e)    == [type |-> "heartbeat", epoch |-> e, leader |-> n]
Cmd(t, c, n, e, p) == [type |-> t, cmd |-> c, epoch |-> e, leader |-> n, plan |-> p,
                       to |-> n, next |-> 0]
HandTo(c, n, e, to, next) == [type |-> "handover", cmd |-> c, epoch |-> e, leader |-> n,
                              plan |-> None, to |-> to, next |-> next]

\* Who leads: A at 1, B at 1 (a tie) or, as a v1 ground, at 2, while A stands
\* by at 2; a plan of A at 1 and its start.  A cache of one evicts the other.
EpochHellos   == {Lead(A, 1, 2), Lead(B, 1, 2), Lead(B, 2, 1), Standby(A, 2)}
EpochControls == {Beat(B, 2)}
EpochCommands == {Cmd("assign_lanes", c1, A, 1, p1), Cmd("start_at", c2, A, 1, p1)}

\* A flies and may hand over to B, which waits at 2: for the handover, or for the
\* drone to be on the ground and idle.
HandHellos   == {Lead(A, 1, 2), Lead(B, 2, 2)}
HandControls == {Beat(A, 1), Beat(B, 2)}
HandCommands == {Cmd("takeoff", c1, A, 1, None), HandTo(c2, A, 1, B, 2)}

\* A leads, B waits at 2, and one takeoff of A's makes the drone busy.
WaitHellos   == {Lead(A, 1, 2), Lead(B, 2, 2)}
WaitControls == {Beat(A, 1), Beat(B, 2)}
WaitCommands == {Cmd("takeoff", c1, A, 1, None)}

Symmetry == Permutations(Conns)
=============================================================================
