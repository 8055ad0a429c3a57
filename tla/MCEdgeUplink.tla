----------------------------- MODULE MCEdgeUplink -----------------------------
(***************************************************************************)
(* Instances of EdgeUplink for TLC: A leads at epoch 1 and B at 2.         *)
(***************************************************************************)
EXTENDS EdgeUplink, TLC

CONSTANTS A, B, k1, k2, c1, c2, p1

Lead(n, e) == [node |-> n, role |-> "leader", epoch |-> e, proto |-> 2]
Cmd(t, c, n, e, p) == [type |-> t, cmd |-> c, epoch |-> e, leader |-> n, plan |-> p,
                       to |-> n, next |-> 0]
HandTo(c, n, e, to, next) == [type |-> "handover", cmd |-> c, epoch |-> e, leader |-> n,
                              plan |-> None, to |-> to, next |-> next]

\* B reuses the cmd_id of A's takeoff for one of its own.
QueueHellos   == {Lead(A, 1), Lead(B, 2)}
QueueControls == {[type |-> "heartbeat", epoch |-> 2, leader |-> B]}
QueueCommands == {Cmd("takeoff", c1, A, 1, None), Cmd("takeoff", c1, B, 2, None),
                  Cmd("assign_lanes", c2, A, 1, p1), HandTo(c2, A, 1, B, 2)}
=============================================================================
