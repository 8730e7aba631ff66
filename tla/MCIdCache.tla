----------------------------- MODULE MCIdCache ------------------------------
(* Three ids, lifetimes 0 and 2: one record can expire while another lives. *)
EXTENDS IdCacheSpec

MCUniqueId == {"o1", "o2", "p1"}
MCLifetimes == {0, 2}
=============================================================================
