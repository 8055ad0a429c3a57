---------------------------- MODULE MCLaneExecutor ----------------------------
EXTENDS LaneExecutor
=============================================================================
