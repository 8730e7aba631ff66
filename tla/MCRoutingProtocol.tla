-------------------------- MODULE MCRoutingProtocol --------------------------
(***************************************************************************)
(* Small networks for the routing protocol: nodes A, B, C, D in a line.    *)
(***************************************************************************)
EXTENDS RoutingProtocol

CONSTANTS A, B, C, D

Line(seq) == { {seq[i], seq[i + 1]} : i \in 1 .. Len(seq) - 1 }
Line3 == Line(<<A, B, C>>)
Line4 == Line(<<A, B, C, D>>)

FromTo(k, x, y) == [uid |-> k, src |-> x, dst |-> y]

\* One packet over two hops; two that cross.
One == {FromTo(1, A, C)}
Crossing == One \cup {FromTo(2, C, A)}

\* C searches A while A searches D through it.
RelaySearches == {FromTo(1, A, D), FromTo(2, C, A)}

\* Two packets for D while the rate limit is used up by one for C.
HeldBack == {FromTo(1, A, D), FromTo(2, A, D), FromTo(3, A, C)}
=============================================================================
