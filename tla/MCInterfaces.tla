---------------------------- MODULE MCInterfaces ----------------------------
(***************************************************************************)
(* A node with two devices, one of which has two addresses of one subnet.  *)
(***************************************************************************)
EXTENDS Interfaces

CONSTANTS dev1, dev2, a1, b1, a2, bcast1, bcast2, n, origin

MCDeviceOf == [ a \in {a1, b1, a2} |-> IF a = a2 THEN dev2 ELSE dev1 ]
MCBroadcastOf == [ a \in {a1, b1, a2} |-> IF a = a2 THEN bcast2 ELSE bcast1 ]

\* A packet bound to a device, and one that is not, for the same neighbour.
MCPacket == { [uid |-> 1, dst |-> n, oif |-> dev2], [uid |-> 2, dst |-> n, oif |-> NoDev] }

\* One for the subnet with two addresses, and one that both devices receive.
MCDatagram == { [uid |-> 3, origin |-> origin, dst |-> bcast1, ttl |-> 2],
                [uid |-> 4, origin |-> origin, dst |-> AllHosts, ttl |-> 2] }
=============================================================================
