---------------------------- MODULE MCNeighbors -----------------------------
(* Two neighbours behind at most two MAC addresses; lifetimes shorter and  *)
(* longer than the purge interval.                                         *)
EXTENDS Neighbors

MCAddr == {"a", "b"}
MCMac == {"m1", "m2"}
MCLifetimes == {1, 3}
=============================================================================
