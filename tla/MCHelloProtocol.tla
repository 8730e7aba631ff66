--------------------------- MODULE MCHelloProtocol --------------------------
(***************************************************************************)
(* Hellos every three units, a purge timer of two.                         *)
(***************************************************************************)
EXTENDS HelloProtocol
=============================================================================
