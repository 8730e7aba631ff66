--------------------------- MODULE MCRoutingTable ---------------------------
(* Two destinations, one interface, short lifetimes.                       *)
EXTENDS RoutingTableSpec

CONSTANTS A, B, I1

MCAddr == {A, B}
MCIface == {I1}

\* What the protocol builds: a fresh reverse or neighbour route, and the
\* placeholder of a route discovery.
MCNewRoutes ==
    { RoutingTableEntry(TRUE, 1, I1, 1, A, 1),
      RoutingTableEntry(FALSE, 0, I1, 2, B, 0),
      [RoutingTableEntry(FALSE, 0, NoIface, 1, NoAddr, 1) EXCEPT
         !.flag = "IN_SEARCH", !.reqCount = 1] }
=============================================================================
