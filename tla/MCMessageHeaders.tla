-------------------------- MODULE MCMessageHeaders --------------------------
(***************************************************************************)
(* Small octets, and a RERR that holds three destinations.                 *)
(***************************************************************************)
EXTENDS MessageHeaders

MCHops == {0, OctetMod - 1}
MCWords == {1, OctetMod ^ 3 + 2}
MCAddresses == {3, OctetMod, OctetMod ^ 2, WordMod - 1}
\* The last one does not fit into a word of milliseconds.
MCTimes == {0, TimePerMs * OctetMod + 1, TimePerMs * (WordMod + 2) + 1}
=============================================================================
