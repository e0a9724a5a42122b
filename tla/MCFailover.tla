----------------------------- MODULE MCFailover -----------------------------
(* Instances of Failover for TLC: two pools are enough for every order of   *)
(* the primary and a backup.                                                *)
EXTENDS Failover

MCNone == {}
MCPrimary == {0}
MCBoth == {0, 1}
=============================================================================
