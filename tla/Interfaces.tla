----------------------------- MODULE Interfaces -----------------------------
(***************************************************************************)
(* One node with several devices: the interface and address notifications  *)
(* of the routing protocol (src/model/madaodv-routing-protocol.cc), the two*)
(* socket maps, the routes that name an interface, packets bound to a      *)
(* device, and broadcast data.                                             *)
(*                                                                         *)
(* An interface address stands for its local address too, and belongs to   *)
(* one device.  Ipv4L3Protocol, which keeps up and addrs and calls the     *)
(* notifications after it has changed them, is external.  The maps are     *)
(* ordered by the addresses of the socket objects, so that a search finds  *)
(* any of the sockets that match; they are bags here, of an address and    *)
(* whether the socket is bound to it.  Discovery is reduced to the flag of *)
(* the entry and its retry timer, and a run is short against the lifetimes *)
(* of routes: RoutingProtocol and RoutingTableSpec have both in full.      *)
(***************************************************************************)
EXTENDS RoutingTable, Selections, SequencesExt, Bags

CONSTANTS
    Dev, NoDev,         \* the devices; a packet that is bound to none
    LoIface, Loopback,  \* the interface address and the address of lo
    DeviceOf,           \* the device of an interface address
    BroadcastOf,        \* the broadcast address of its subnet
    AllHosts,           \* 255.255.255.255
    Neighbor,           \* addresses of other nodes
    Packet,             \* packets of applications: [uid, dst, oif]
    Datagram,           \* broadcast data: [uid, origin, dst, ttl]
    EnableBroadcast,
    MaxSocket,          \* bound on the broadcast sockets in their map
    Lifetime            \* the lifetime of a route: it outlasts the run

OwnAddress == Iface \ {LoIface}

ASSUME InterfaceAssumption ==
    /\ NoDev \notin Dev /\ LoIface \in Iface /\ Loopback \in Addr
    /\ Dev \cap {"none", "waiting", "refused", "dropped"} = {}
    /\ Neighbor \subseteq Addr \ {Loopback} /\ DeviceOf \in [OwnAddress -> Dev]
    /\ BroadcastOf \in [OwnAddress -> Addr \ (Neighbor \cup {Loopback})]
    /\ \A p \in Packet : p.dst \in Neighbor /\ p.oif \in Dev \cup {NoDev}
    /\ AllHosts \in Addr \ (Neighbor \cup {Loopback})
    /\ \A a \in OwnAddress : BroadcastOf[a] # AllHosts
    /\ \A m \in Datagram : m.ttl \in Nat
    /\ EnableBroadcast \in BOOLEAN /\ MaxSocket \in Nat /\ Lifetime \in Nat

\* Each device has a subnet of its own.  (The routing table holds one entry for
\* a broadcast address, so that two interfaces cannot share a subnet.)
ASSUME SubnetAssumption ==
    \A a, b \in OwnAddress : BroadcastOf[a] = BroadcastOf[b] => DeviceOf[a] = DeviceOf[b]

VARIABLES
    up, addrs,                \* of Ipv4L3Protocol, by device
    socketAddresses,          \* m_socketAddresses
    broadcastAddresses,       \* m_socketSubnetBroadcastAddresses
    table, nb, htimer,        \* m_routingTable, the members of m_nb, m_htimer
    retry,                    \* destinations whose retry timer runs
    lo, queue,                \* packets in the loopback device, m_queue
    outcome,                  \* history: what became of each packet
    dpd,                      \* m_dpd
    deliveries, forwards      \* history: how often each datagram was handed on
                              \* since m_dpd has known it

ipVars == << up, addrs >>
netVars == << socketAddresses, broadcastAddresses, table, nb, htimer >>
packetVars == << retry, lo, queue, outcome >>
broadcastVars == << dpd, deliveries, forwards >>
vars == << ipVars, netVars, packetVars, broadcastVars >>

-----------------------------------------------------------------------------
(* Sockets *)

Socket(a, bound) == [addr |-> a, bound |-> bound]

\* FindSocketWithInterfaceAddress, FindSubnetBroadcastSocketWithInterfaceAddress:
\* what they may return.
SocketsWith(map, a) == { s \in BagToSet(map) : s.addr = a }

Erase(map, s) == map (-) SetToBag({s})

\* The socket is closed but stays in its map.
Close(map, s) == Erase(map, s) (+) SetToBag({Socket(s.addr, FALSE)})

\* A socket is created for a and bound to bindTo[a]; Bind fails if another one has
\* that address on the device.
Insert(map, a, bindTo) ==
    LET taken == \E s \in BagToSet(map) : /\ s.bound /\ DeviceOf[s.addr] = DeviceOf[a]
                                          /\ bindTo[s.addr] = bindTo[a]
    IN  map (+) SetToBag({Socket(a, ~taken)})

\* Mutant of BroadcastRoute: the record of the subnet is not added.
BroadcastRouteNone(t, a) == t

\* The local broadcast record of the routing table.
BroadcastRoute(t, a) ==
    AddRoute(t, BroadcastOf[a],
             RoutingTableEntry(TRUE, 0, a, 1, BroadcastOf[a], Lifetime))

\* The protocol starts to take part on the interface with address a, from the
\* maps u and b and the table t.
Participate(u, b, t, a) ==
    /\ BagCardinality(b) < MaxSocket
    /\ socketAddresses' = Insert(u, a, [ x \in OwnAddress |-> x ])
    /\ broadcastAddresses' = Insert(b, a, BroadcastOf)
    /\ table' = BroadcastRoute(t, a)

\* The last unicast socket has gone.
Shutdown ==
    /\ htimer' = FALSE
    /\ nb' = {}
    /\ table' = EmptyTable

-----------------------------------------------------------------------------
(* Notifications, with the change of Ipv4L3Protocol that causes them *)

NotifyInterfaceUp(d) ==
    /\ ~up[d] /\ addrs[d] # << >>
    /\ up' = [up EXCEPT ![d] = TRUE]
    /\ Participate(socketAddresses, broadcastAddresses, table, Head(addrs[d]))
    /\ UNCHANGED << addrs, nb, htimer, packetVars, broadcastVars >>

\* Mutant of NotifyInterfaceDown: the routes of the interface stay.
NotifyInterfaceDownKeepsRoutes(d) ==
    /\ up[d] /\ addrs[d] # << >>
    /\ up' = [up EXCEPT ![d] = FALSE]
    /\ \E s \in SocketsWith(socketAddresses, Head(addrs[d])),
          b \in SocketsWith(broadcastAddresses, Head(addrs[d])) :
         /\ socketAddresses' = Erase(socketAddresses, s)
         /\ broadcastAddresses' = Erase(broadcastAddresses, b)
    /\ UNCHANGED << addrs, table, nb, htimer, packetVars, broadcastVars >>

\* Both sockets are closed and erased.
NotifyInterfaceDown(d) ==
    LET a == Head(addrs[d])
    IN  /\ up[d] /\ addrs[d] # << >>
        /\ up' = [up EXCEPT ![d] = FALSE]
        /\ \E s \in SocketsWith(socketAddresses, a), b \in SocketsWith(broadcastAddresses, a) :
             /\ socketAddresses' = Erase(socketAddresses, s)
             /\ broadcastAddresses' = Erase(broadcastAddresses, b)
        /\ IF socketAddresses' = EmptyBag THEN Shutdown
           ELSE /\ table' = DeleteAllRoutesFromInterface(table, a)
                /\ UNCHANGED << nb, htimer >>
        /\ UNCHANGED << addrs, packetVars, broadcastVars >>

\* Only the first address of an interface that is up counts.
NotifyAddAddress(d, a) ==
    /\ DeviceOf[a] = d /\ a \notin ToSet(addrs[d])
    /\ addrs' = [addrs EXCEPT ![d] = Append(@, a)]
    /\ IF up[d] /\ addrs[d] = << >> /\ SocketsWith(socketAddresses, a) = {}
       THEN Participate(socketAddresses, broadcastAddresses, table, a)
       ELSE UNCHANGED << socketAddresses, broadcastAddresses, table >>
    /\ UNCHANGED << up, nb, htimer, packetVars, broadcastVars >>

\* The addresses of an interface when a is removed.
Without(q, a) == At(q, { i \in DOMAIN q : q[i] # a })

\* Mutant of NotifyRemoveAddress: nothing replaces the address removed.
NotifyRemoveAddressNoSuccessor(d, a) ==
    /\ a \in ToSet(addrs[d])
    /\ addrs' = [addrs EXCEPT ![d] = Without(@, a)]
    /\ socketAddresses' = socketAddresses (-) SetToBag(SocketsWith(socketAddresses, a))
    /\ table' = IF socketAddresses' = EmptyBag THEN EmptyTable
                ELSE DeleteAllRoutesFromInterface(table, a)
    /\ UNCHANGED << up, broadcastAddresses, nb, htimer, packetVars, broadcastVars >>

\* The protocol took part with address a: the next address of the interface
\* takes over.  The broadcast socket is closed, but erased from the unicast map,
\* where it is not: it stays among the broadcast sockets.
NotifyRemoveAddress(d, a) ==
    LET t == DeleteAllRoutesFromInterface(table, a)
    IN  /\ a \in ToSet(addrs[d])
        /\ addrs' = [addrs EXCEPT ![d] = Without(@, a)]
        /\ \/ /\ SocketsWith(socketAddresses, a) = {}
              /\ UNCHANGED netVars
           \/ \E s \in SocketsWith(socketAddresses, a), b \in SocketsWith(broadcastAddresses, a) :
                LET u == Erase(socketAddresses, s)
                    c == Close(broadcastAddresses, b)
                IN  IF addrs'[d] # << >>
                    THEN Participate(u, c, t, Head(addrs'[d])) /\ UNCHANGED << nb, htimer >>
                    ELSE /\ socketAddresses' = u /\ broadcastAddresses' = c
                         /\ IF u = EmptyBag THEN Shutdown
                            ELSE table' = t /\ UNCHANGED << nb, htimer >>
        /\ UNCHANGED << up, packetVars, broadcastVars >>

-----------------------------------------------------------------------------
(* Neighbours *)

\* A hello message from sender arrives on a subnet broadcast socket, whose
\* address tells the interface (RecvMadaodv, UpdateRouteToNeighbor, ProcessHello).
ProcessHello(s, sender) ==
    LET d == DeviceOf[s.addr]
        e == RoutingTableEntry(TRUE, 0, Head(addrs[d]), 1, sender, Lifetime)
    IN  /\ s.bound /\ up[d] /\ socketAddresses # EmptyBag
        /\ s.addr \in ToSet(addrs[d])
        /\ table' = IF HasRoute(table, sender) THEN Update(table, sender, e)
                    ELSE AddRoute(table, sender, e)
        /\ nb' = nb \cup {sender}
        /\ UNCHANGED << ipVars, socketAddresses, broadcastAddresses, htimer,
                        packetVars, broadcastVars >>

\* SendRerrWhenBreaksLinkToNextHop: no route here has a precursor to be told.
LinkFailure(a) ==
    /\ a \in nb
    /\ nb' = nb \ {a}
    /\ table' = InvalidateRoutesWithDst(table, {a})
    /\ UNCHANGED << ipVars, socketAddresses, broadcastAddresses, htimer,
                    packetVars, broadcastVars >>

-----------------------------------------------------------------------------
(* Packets of applications *)

\* The device of the route to d.
RouteDevice(d) == DeviceOf[table[d].iface]

Suits(p, d) == p.oif \in {NoDev, d}

\* An application sends p.  LoopbackRoute asserts that the device p is bound to
\* takes part in the protocol.
RouteOutput(p) ==
    LET ends(how) == outcome' = [outcome EXCEPT ![p] = how] /\ UNCHANGED lo
    IN  /\ outcome[p] = "none"
        /\ \/ socketAddresses = EmptyBag /\ ends("refused")
           \/ /\ socketAddresses # EmptyBag /\ HasValidRoute(table, p.dst)
              /\ ends(IF Suits(p, RouteDevice(p.dst)) THEN RouteDevice(p.dst) ELSE "refused")
           \/ /\ socketAddresses # EmptyBag /\ ~HasValidRoute(table, p.dst)
              /\ \E s \in BagToSet(socketAddresses) : Suits(p, DeviceOf[s.addr])
              /\ lo' = lo \cup {p}
              /\ outcome' = [outcome EXCEPT ![p] = "waiting"]
        /\ UNCHANGED << ipVars, netVars, retry, queue, broadcastVars >>

InSearch(t, d) == d \in DOMAIN t /\ t[d].flag = "IN_SEARCH"

\* SendRequest: the entry of d is searched and its retry timer runs.
SendRequest(d) ==
    LET fresh == RoutingTableEntry(FALSE, 0, NoIface, 1, NoAddr, Lifetime)
        old == IF d \in DOMAIN table THEN table[d] ELSE fresh
        new == [old EXCEPT !.flag = "IN_SEARCH"]
    IN  /\ table' = IF d \in DOMAIN table THEN Update(table, d, new)
                    ELSE AddRoute(table, d, new)
        /\ retry' = retry \cup {d}

\* Mutant of DeferredRouteOutput: a packet that meets a search is not queued.
DeferredRouteOutputForgets(p) ==
    /\ p \in lo /\ socketAddresses # EmptyBag
    /\ lo' = lo \ {p}
    /\ IF InSearch(table, p.dst) THEN UNCHANGED << queue, table, retry >>
       ELSE queue' = Append(queue, p) /\ SendRequest(p.dst)
    /\ UNCHANGED << ipVars, socketAddresses, broadcastAddresses, nb, htimer, outcome,
                    broadcastVars >>

\* The packet comes back from the loopback device.
DeferredRouteOutput(p) ==
    /\ p \in lo
    /\ lo' = lo \ {p}
    /\ IF socketAddresses = EmptyBag
       THEN /\ outcome' = [outcome EXCEPT ![p] = "dropped"]
            /\ UNCHANGED << queue, table, retry >>
       ELSE /\ queue' = Append(queue, p)
            /\ IF InSearch(table, p.dst) THEN UNCHANGED << table, retry >>
               ELSE SendRequest(p.dst)
            /\ UNCHANGED outcome
    /\ UNCHANGED << ipVars, socketAddresses, broadcastAddresses, nb, htimer, broadcastVars >>

\* Mutant of SendPacketFromQueue: the device a packet is bound to is not looked at.
SendPacketFromQueueAnywhere(d, dev) ==
    /\ queue' = At(queue, { i \in DOMAIN queue : queue[i].dst # d })
    /\ outcome' = [ p \in Packet |-> IF p \in ToSet(queue) /\ p.dst = d THEN dev ELSE outcome[p] ]

\* The packets for d leave over dev, up to the first that is bound to another
\* device.  That one is taken out of the queue and dropped, and ends the loop.
SendPacketFromQueue(d, dev) ==
    LET forD == { i \in DOMAIN queue : queue[i].dst = d }
        bad == { i \in forD : ~Suits(queue[i], dev) }
        left == { i \in forD : \A j \in bad : i <= j }
        taken == { queue[i] : i \in left }
    IN  /\ queue' = At(queue, DOMAIN queue \ left)
        /\ outcome' = [ p \in Packet |-> IF p \notin taken THEN outcome[p]
                                         ELSE IF Suits(p, dev) THEN dev ELSE "dropped" ]

\* Mutant of RouteRequestTimerExpire: the packets of a search given up wait on.
RouteRequestTimerExpireKeeps(d) ==
    /\ d \in retry
    /\ retry' = retry \ {d}
    /\ IF HasValidRoute(table, d)
       THEN SendPacketFromQueue(d, RouteDevice(d)) /\ UNCHANGED table
       ELSE table' = DeleteRoute(table, d) /\ UNCHANGED << queue, outcome >>
    /\ UNCHANGED << ipVars, socketAddresses, broadcastAddresses, nb, htimer, lo, broadcastVars >>

\* The retry timer fires: the packets leave, or the search goes on or ends.
RouteRequestTimerExpire(d) ==
    /\ d \in retry
    /\ \/ /\ HasValidRoute(table, d)
          /\ SendPacketFromQueue(d, RouteDevice(d))
          /\ retry' = retry \ {d}
          /\ UNCHANGED table
       \/ /\ InSearch(table, d)
          /\ SendRequest(d)
          /\ UNCHANGED << queue, outcome >>
       \/ /\ ~HasValidRoute(table, d)
          /\ table' = DeleteRoute(table, d)
          /\ retry' = retry \ {d}
          /\ queue' = At(queue, { i \in DOMAIN queue : queue[i].dst # d })
          /\ outcome' = [ p \in Packet |-> IF p \in ToSet(queue) /\ p.dst = d
                                           THEN "refused" ELSE outcome[p] ]
    /\ UNCHANGED << ipVars, socketAddresses, broadcastAddresses, nb, htimer, lo, broadcastVars >>

-----------------------------------------------------------------------------
(* Broadcast data *)

\* m_dpd.IsDuplicate
IsKnown(m) == m \in dpd

\* A copy of datagram m arrives on device d (RouteInput), sent to its subnet or
\* to all hosts: it is delivered unless it is known, and passed on over the
\* interface that the table has for its destination, if it has one.
RecvBroadcast(d, m) ==
    LET count(f) == [f EXCEPT ![m] = @ + 1]
        passedOn == EnableBroadcast /\ m.ttl > 1 /\ HasRoute(table, m.dst)
    IN  /\ up[d]
        /\ \E s \in BagToSet(socketAddresses) :
             DeviceOf[s.addr] = d /\ m.dst \in {BroadcastOf[s.addr], AllHosts}
        /\ \A s \in BagToSet(socketAddresses) : m.origin # s.addr
        /\ ~IsKnown(m)
        /\ dpd' = dpd \cup {m}
        /\ deliveries' = count(deliveries)
        /\ forwards' = IF passedOn THEN count(forwards) ELSE forwards
        /\ UNCHANGED << ipVars, netVars, packetVars >>

\* The record of m expires after PathDiscoveryTime: a copy that comes later is
\* taken for a new datagram.
RecordExpires(m) ==
    /\ IsKnown(m)
    /\ dpd' = dpd \ {m}
    /\ deliveries' = [deliveries EXCEPT ![m] = 0]
    /\ forwards' = [forwards EXCEPT ![m] = 0]
    /\ UNCHANGED << ipVars, netVars, packetVars >>

-----------------------------------------------------------------------------
\* SetIpv4: only the loopback interface exists.
Init ==
    /\ up = [ d \in Dev |-> FALSE ] /\ addrs = [ d \in Dev |-> << >> ]
    /\ socketAddresses = EmptyBag /\ broadcastAddresses = EmptyBag
    /\ table = AddRoute(EmptyTable, Loopback,
                        RoutingTableEntry(TRUE, 0, LoIface, 1, Loopback, Lifetime))
    /\ nb = {} /\ htimer = TRUE
    /\ retry = {} /\ lo = {} /\ queue = << >> /\ outcome = [ p \in Packet |-> "none" ]
    /\ dpd = {} /\ deliveries = [ m \in Datagram |-> 0 ] /\ forwards = [ m \in Datagram |-> 0 ]

Next ==
    \/ \E d \in Dev : NotifyInterfaceUp(d) \/ NotifyInterfaceDown(d)
    \/ \E d \in Dev, a \in OwnAddress : NotifyAddAddress(d, a) \/ NotifyRemoveAddress(d, a)
    \/ \E s \in BagToSet(broadcastAddresses), n \in Neighbor : ProcessHello(s, n)
    \/ \E a \in Neighbor : LinkFailure(a) \/ RouteRequestTimerExpire(a)
    \/ \E p \in Packet : RouteOutput(p) \/ DeferredRouteOutput(p)
    \/ \E d \in Dev, m \in Datagram : RecvBroadcast(d, m)
    \/ \E m \in Datagram : RecordExpires(m)

Spec == Init /\ [][Next]_vars

-----------------------------------------------------------------------------
(* Properties *)

IsSocketMap(map) ==
    IsABag(map) /\ BagToSet(map) \subseteq [addr : OwnAddress, bound : BOOLEAN]

\* The type of the state.  What waits is in the loopback device or in the queue,
\* and nothing else is.
TypeOK ==
    /\ up \in [Dev -> BOOLEAN]
    /\ \A d \in Dev : \A a \in ToSet(addrs[d]) : DeviceOf[a] = d
    /\ IsSocketMap(socketAddresses) /\ IsSocketMap(broadcastAddresses)
    /\ IsTable(table) /\ nb \subseteq Neighbor /\ retry \subseteq Neighbor
    /\ htimer \in BOOLEAN
    /\ outcome \in [Packet -> Dev \cup {"none", "waiting", "refused", "dropped"}]
    /\ \A p \in Packet : outcome[p] = "waiting" <=> p \in lo \cup ToSet(queue)
    /\ dpd \subseteq Datagram
    /\ deliveries \in [Datagram -> Nat] /\ forwards \in [Datagram -> Nat]

\* The primary address of an interface that takes part in the protocol.
Primaries == { Head(addrs[d]) : d \in { x \in Dev : up[x] /\ addrs[x] # << >> } }

\* Whatever order interfaces and addresses come and go in, the protocol listens
\* on every interface that is up: exactly one unicast socket, bound to its first
\* address, and a bound socket for the broadcasts of its subnet,
\* although the broadcast map collects closed sockets and NotifyInterfaceDown may
\* take one of those for the open one.  No unicast socket is left over.
ListensEverywhere ==
    /\ socketAddresses = SetToBag({ Socket(a, TRUE) : a \in Primaries })
    /\ \A a \in Primaries :
         /\ \E s \in BagToSet(broadcastAddresses) :
              s.bound /\ BroadcastOf[s.addr] = BroadcastOf[a]
         /\ SocketsWith(broadcastAddresses, a) # {}

\* A route names an interface that is up, by the address the protocol listens on:
\* SendReply, SendReplyAck, RecvReply and SendRerrMessage look up the socket of
\* the route's interface and assert that they find it.
RoutesHaveSocket ==
    \A d \in DOMAIN table : table[d].iface \in Primaries \cup {NoIface, LoIface}

\* Each subnet the node takes part in has its broadcast route.  While its record
\* is kept a datagram is delivered once, however many copies of it arrive on
\* whichever interfaces while these come and go.  One for a subnet that may travel
\* further always finds the route to be passed on, once; one for all hosts never
\* finds a route, so that it ends here whatever its TTL.
BroadcastRelayed ==
    /\ \A a \in Primaries : HasRoute(table, BroadcastOf[a])
    /\ \A m \in Datagram :
         /\ deliveries[m] <= 1
         /\ forwards[m] = IF EnableBroadcast /\ m.ttl > 1 /\ m.dst # AllHosts
                          THEN deliveries[m] ELSE 0

\* A packet that its socket bound to a device leaves over no other, although it
\* waits in the loopback device and in the queue while routes change.
DeviceRespected == \A p \in Packet : outcome[p] \in Dev => Suits(p, outcome[p])

\* A packet stays behind in the queue without a timer only where a packet for the
\* same destination that was bound to another device ended SendPacketFromQueue.
\* The loss of interfaces, which clears the table under a search, strands none.
StrandedOnlyByDevice ==
    \A p \in ToSet(queue) :
        \/ p.dst \in retry
        \/ \E q \in Packet : q.dst = p.dst /\ q.oif # NoDev /\ outcome[q] = "dropped"

-----------------------------------------------------------------------------
(* What a comment of the code says, and the code does not do *)

\* m_socketSubnetBroadcastAddresses: a "subnet directed broadcast socket per each
\* IP interface", so that an open socket on a device that is up belongs to an
\* address of it.  RecvMadaodv takes that address for the receiver, and
\* UpdateRouteToNeighbor asks for its device.
OpenSocketHasInterface ==
    \A s \in BagToSet(broadcastAddresses) :
        s.bound /\ up[DeviceOf[s.addr]] => s.addr \in ToSet(addrs[DeviceOf[s.addr]])
=============================================================================
