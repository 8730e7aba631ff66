------------------------------ MODULE Handlers ------------------------------
(***************************************************************************)
(* What the handlers of the routing protocol                               *)
(* (src/model/madaodv-routing-protocol.cc) do to a node's routing table,   *)
(* and the messages they build: pure operators, used by the RoutingProtocol*)
(* state machine.                                                          *)
(*                                                                         *)
(* Every node has one interface, Wlan, and its address is the node itself. *)
(* Times are counted in a unit that is long against the flight of a        *)
(* message.                                                                *)
(***************************************************************************)
EXTENDS RoutingTable, SequencesExt

CONSTANTS
    Wlan,                \* the interface of a node
    TtlStart, TtlIncrement, TtlThreshold, NetDiameter,
    ActiveRouteTimeout, MyRouteTimeout, PathDiscoveryTime,
    NetTraversalTime, NodeTraversalTime,
    HelloLifetime,       \* AllowedHelloLoss * HelloInterval
    GratuitousReply, DestinationOnly,
    SeqNoMod,            \* 2^32: sequence numbers are uint32_t
    FoldedComparison     \* what the build makes of a signed overflow

ASSUME SeqNoAssumption == SeqNoMod \in Nat \ {0} /\ FoldedComparison \in BOOLEAN
ASSUME WlanAssumption == Wlan \in Iface
ASSUME TtlAssumption ==
    /\ TtlStart \in Nat \ {0} /\ TtlIncrement \in Nat \ {0}
    /\ TtlThreshold \in Nat /\ NetDiameter \in Nat
    /\ TtlStart <= NetDiameter /\ TtlThreshold < NetDiameter
ASSUME TimeAssumption ==
    /\ {ActiveRouteTimeout, MyRouteTimeout, PathDiscoveryTime, HelloLifetime,
        NetTraversalTime, NodeTraversalTime} \subseteq Nat
    /\ {GratuitousReply, DestinationOnly} \subseteq BOOLEAN

-----------------------------------------------------------------------------
(* Sequence numbers *)

NextSeqNo(s) == (s + 1) % SeqNoMod

\* The number as an int32_t.
Signed(s) == IF 2 * s < SeqNoMod THEN s ELSE s - SeqNoMod

\* int32_t(a) - int32_t(b), of which only the sign is used.  An overflow is
\* undefined: the subtraction wraps, or the compiler compares a with b.
Difference(a, b) ==
    LET d == Signed(a) - Signed(b)
    IN  IF FoldedComparison THEN d ELSE Signed(d % SeqNoMod)

-----------------------------------------------------------------------------
(* Messages: the four AODV messages and the payload of an application.     *)

RreqHeader(d, dstSeqno, unknown, origin, originSeqno, id) ==
    [ type |-> "RREQ", dst |-> d, dstSeqno |-> dstSeqno, unknown |-> unknown,
      origin |-> origin, originSeqno |-> originSeqno, id |-> id,
      hopCount |-> 0,
      gratuitous |-> GratuitousReply, destinationOnly |-> DestinationOnly ]

RrepHeader(hopCount, d, dstSeqno, origin, lifetime, ack) ==
    [ type |-> "RREP", hopCount |-> hopCount, dst |-> d, dstSeqno |-> dstSeqno,
      origin |-> origin, lifetime |-> lifetime, ack |-> ack ]

RerrHeader(un) == [type |-> "RERR", un |-> un]

RrepAckHeader == [type |-> "RREP_ACK"]

Data(p) == [type |-> "DATA", packet |-> p]

\* An IP packet.  The receiver of a message learns its ttl from SocketIpTtlTag.
Ip(src, dst, ttl, body) == [src |-> src, dst |-> dst, ttl |-> ttl, body |-> body]

-----------------------------------------------------------------------------
(* Lifetimes and neighbours *)

UpdateRouteLifeTime(t, a, lifetime) ==
    IF HasValidRoute(t, a)
    THEN LET p == Purge(t)
         IN  Update(p, a, [p[a] EXCEPT !.reqCount = 0,
                                       !.lifeTime = Max({lifetime, @})])
    ELSE Purge(t)

\* A message came from sender: unless the entry already is a one-hop route
\* with a valid sequence number it is replaced by a fresh one.  (The code
\* also extends the lifetime of an entry it keeps, but only in its copy.)
UpdateRouteToNeighbor(t, sender) ==
    LET p == Purge(t)
        fresh(left) == RoutingTableEntry(FALSE, 0, Wlan, 1, sender, left)
    IN  IF sender \notin DOMAIN p
        THEN AddRoute(p, sender, fresh(ActiveRouteTimeout))
        ELSE IF p[sender].validSeqNo /\ p[sender].hops = 1 /\ p[sender].iface = Wlan
        THEN p
        ELSE Update(p, sender, fresh(Max({ActiveRouteTimeout, p[sender].lifeTime})))

-----------------------------------------------------------------------------
(* SendRequest *)

\* Mutant of SearchTtl: the ring of a running search does not grow.
SearchTtlStuck(t, d) ==
    LET p == Purge(t)
    IN  IF d \notin DOMAIN p THEN TtlStart
        ELSE IF p[d].flag # "IN_SEARCH" THEN Min({p[d].hops + TtlIncrement, NetDiameter})
        ELSE p[d].hops

\* The ring of the next RREQ: the hop field of an entry in search holds the
\* previous ring.
SearchTtl(t, d) ==
    LET p == Purge(t)
        ring == p[d].hops + TtlIncrement
    IN  IF d \notin DOMAIN p THEN TtlStart
        ELSE IF p[d].flag # "IN_SEARCH" THEN Min({ring, NetDiameter})
        ELSE IF ring > TtlThreshold THEN NetDiameter ELSE ring

SendRequestTable(t, d) ==
    LET p   == Purge(t)
        ttl == SearchTtl(t, d)
        old == IF d \in DOMAIN p THEN p[d]
               ELSE RoutingTableEntry(FALSE, 0, NoIface, ttl, NoAddr, PathDiscoveryTime)
        counted == IF ttl = NetDiameter THEN IncrementRreqCnt(old) ELSE old
        new == [counted EXCEPT !.hops = ttl, !.flag = "IN_SEARCH",
                               !.lifeTime = PathDiscoveryTime]
    IN  IF d \in DOMAIN p THEN Update(p, d, new) ELSE AddRoute(p, d, new)

SendRequestHeader(t, d, origin, originSeqno, id) ==
    LET known == HasRoute(t, d) /\ Purge(t)[d].validSeqNo
    IN  RreqHeader(d, IF known THEN Purge(t)[d].seqNo ELSE 0, ~known,
                   origin, originSeqno, id)

-----------------------------------------------------------------------------
(* RecvRequest; m is the RREQ with its hop count already incremented.      *)

\* The reverse route to the originator, through src.
ReverseRoute(t, src, m) ==
    LET p == Purge(t)
        o == m.origin
        lifetime == 2 * NetTraversalTime - 2 * m.hopCount * NodeTraversalTime
    IN  IF o \notin DOMAIN p
        THEN AddRoute(p, o, RoutingTableEntry(TRUE, m.originSeqno, Wlan,
                                              m.hopCount, src, lifetime))
        ELSE Update(p, o,
               [p[o] EXCEPT !.seqNo = IF p[o].validSeqNo /\ Difference(m.originSeqno, @) <= 0
                                      THEN @ ELSE m.originSeqno,
                            !.validSeqNo = TRUE, !.nextHop = src, !.iface = Wlan,
                            !.hops = m.hopCount, !.lifeTime = Max({lifetime, @})])

\* Mutant of NeighborRoute: the originator's sequence number is taken for
\* one of the neighbour.
NeighborRouteValidSeqNo(t, src, m) ==
    LET p == Purge(t)
    IN  IF src \notin DOMAIN p
        THEN AddRoute(p, src, RoutingTableEntry(TRUE, m.originSeqno, Wlan, 1, src,
                                                ActiveRouteTimeout))
        ELSE Update(p, src,
               [p[src] EXCEPT !.lifeTime = ActiveRouteTimeout, !.validSeqNo = TRUE,
                              !.seqNo = m.originSeqno, !.flag = "VALID",
                              !.iface = Wlan, !.hops = 1, !.nextHop = src])

\* The route to src itself.
NeighborRoute(t, src, m) ==
    LET p == Purge(t)
    IN  IF src \notin DOMAIN p
        THEN AddRoute(p, src, RoutingTableEntry(FALSE, m.originSeqno, Wlan, 1, src,
                                                ActiveRouteTimeout))
        ELSE Update(p, src,
               [p[src] EXCEPT !.lifeTime = ActiveRouteTimeout, !.validSeqNo = FALSE,
                              !.seqNo = m.originSeqno, !.flag = "VALID",
                              !.iface = Wlan, !.hops = 1, !.nextHop = src])

RecvRequestTable(t, src, m) == NeighborRoute(ReverseRoute(t, src, m), src, m)

\* The table has a sequence number for the destination that is good enough.
KnowsDst(t, m) ==
    /\ HasRoute(t, m.dst)
    /\ Purge(t)[m.dst].validSeqNo
    /\ m.unknown \/ Difference(Purge(t)[m.dst].seqNo, m.dstSeqno) >= 0

\* What the receiver n does with the RREQ, in the order the code decides.
RequestVerdict(n, t, src, m, ttl) ==
    IF m.dst = n THEN "destination"
    ELSE IF HasRoute(t, m.dst) /\ Purge(t)[m.dst].nextHop = src THEN "loop"
    ELSE IF KnowsDst(t, m) /\ ~m.destinationOnly /\ HasValidRoute(t, m.dst)
         THEN "intermediate"
    ELSE IF ttl < 2 THEN "ttl exceeded"
    ELSE "forward"

\* The RREQ as it is sent on.
ForwardedRequest(t, m) ==
    IF KnowsDst(t, m)
    THEN [m EXCEPT !.dstSeqno = Purge(t)[m.dst].seqNo, !.unknown = FALSE]
    ELSE m

\* SendReply: the number the destination answers with.
ReplySeqNo(m, seqNo) ==
    IF ~m.unknown /\ m.dstSeqno = NextSeqNo(seqNo) THEN NextSeqNo(seqNo) ELSE seqNo

SendReply(n, t, m, seqNo) ==
    LET o == Purge(t)[m.origin]
    IN  Ip(n, o.nextHop, o.hops,
           RrepHeader(0, m.dst, seqNo, m.origin, MyRouteTimeout, FALSE))

\* SendReplyByIntermediateNode: the table, the reply and the gratuitous reply.
IntermediateTable(t, m) ==
    LET p == Purge(t)
        toDst == p[m.dst]
        toOrigin == p[m.origin]
    IN  Update(Update(p, m.dst, InsertPrecursor(toDst, toOrigin.nextHop)),
               m.origin, InsertPrecursor(toOrigin, toDst.nextHop))

IntermediateReply(n, t, m) ==
    LET toDst == Purge(t)[m.dst]
        toOrigin == Purge(t)[m.origin]
    IN  Ip(n, toOrigin.nextHop, toOrigin.hops,
           RrepHeader(toDst.hops, m.dst, toDst.seqNo, m.origin, toDst.lifeTime,
                      toDst.hops = 1))

GratuitousRrep(n, t, m) ==
    LET toDst == Purge(t)[m.dst]
        toOrigin == Purge(t)[m.origin]
    IN  Ip(n, toDst.nextHop, toDst.hops,
           RrepHeader(toOrigin.hops, m.origin, toOrigin.seqNo, m.dst,
                      toOrigin.lifeTime, FALSE))

-----------------------------------------------------------------------------
(* RecvReply; m is the RREP with its hop count already incremented.        *)

\* Mutant of ReplyEntry: the next hop is the destination itself.
ReplyEntryToDst(sender, m) ==
    RoutingTableEntry(TRUE, m.dstSeqno, Wlan, m.hopCount, m.dst, m.lifetime)

ReplyEntry(sender, m) ==
    RoutingTableEntry(TRUE, m.dstSeqno, Wlan, m.hopCount, sender, m.lifetime)

\* The four circumstances in which an existing entry is updated.
Supersedes(m, e) ==
    \/ ~e.validSeqNo
    \/ Difference(m.dstSeqno, e.seqNo) > 0
    \/ m.dstSeqno = e.seqNo /\ (e.flag # "VALID" \/ m.hopCount < e.hops)

ForwardRoute(t, sender, m) ==
    LET p == Purge(t)
    IN  IF m.dst \notin DOMAIN p THEN AddRoute(p, m.dst, ReplyEntry(sender, m))
        ELSE IF Supersedes(m, p[m.dst]) THEN Update(p, m.dst, ReplyEntry(sender, m))
        ELSE p

\* The originator was searching the destination: the reply is taken whatever
\* the four circumstances say.
AcceptAtOrigin(t, sender, m) == Update(t, m.dst, ReplyEntry(sender, m))

\* A relay can pass the reply on.
HasReversePath(t, m) ==
    HasRoute(t, m.origin) /\ Purge(t)[m.origin].flag # "IN_SEARCH"

\* A relay refreshes the reverse route and notes precursors.  The entry of
\* the originator is written back from the copy taken before the entry of
\* the next hop was touched.
RelayTable(t, m) ==
    LET p == Purge(t)
        toOrigin == [p[m.origin] EXCEPT !.lifeTime = Max({ActiveRouteTimeout, @})]
        back == toOrigin.nextHop
        t1 == Update(p, m.origin, toOrigin)
        ahead == t1[m.dst].nextHop
        t2 == Update(t1, m.dst, InsertPrecursor(t1[m.dst], back))
        t3 == IF ahead \in DOMAIN t2
              THEN Update(t2, ahead, InsertPrecursor(t2[ahead], back)) ELSE t2
        t4 == Update(t3, m.origin, InsertPrecursor(toOrigin, ahead))
        t5 == IF back \in DOMAIN t4
              THEN Update(t4, back, InsertPrecursor(t4[back], ahead)) ELSE t4
    IN  IF HasValidRoute(t1, m.dst) THEN t5 ELSE t1

-----------------------------------------------------------------------------
(* RecvReplyAck, ProcessHello *)

RecvReplyAckTable(t, neighbor) ==
    LET p == Purge(t)
    IN  IF neighbor \in DOMAIN p
        THEN Update(p, neighbor, [p[neighbor] EXCEPT !.flag = "VALID"]) ELSE p

ProcessHelloTable(t, m) ==
    LET p == Purge(t)
        a == m.dst
    IN  IF a \notin DOMAIN p
        THEN AddRoute(p, a, RoutingTableEntry(TRUE, m.dstSeqno, Wlan, 1, a, m.lifetime))
        ELSE Update(p, a,
               [p[a] EXCEPT !.lifeTime = Max({HelloLifetime, @}),
                            !.seqNo = m.dstSeqno, !.validSeqNo = TRUE,
                            !.flag = "VALID", !.iface = Wlan, !.hops = 1, !.nextHop = a])

-----------------------------------------------------------------------------
(* Route errors: the unreachable destinations with their sequence numbers, *)
(* and the precursors that have to hear of them.                           *)

\* RecvError: those of the RERR's destinations that are routed through src.
RerrAffected(t, src, m) ==
    Restrict(m.un, DOMAIN m.un \cap DOMAIN DestinationsWithNextHop(t, src))

\* SendRerrWhenBreaksLinkToNextHop: everything routed through nextHop, and
\* nextHop itself.
LinkBreakAffected(t, nextHop) ==
    LET via == DestinationsWithNextHop(t, nextHop)
    IN  [ d \in DOMAIN via \cup {nextHop} |-> Purge(t)[d].seqNo ]

PrecursorsOf(t, dsts) == UNION { Purge(t)[d].precursors : d \in dsts }

-----------------------------------------------------------------------------
(* RouteInput and Forwarding: the lifetimes that traffic extends.          *)

\* Local delivery of a unicast packet, and the neighbour it vouches for.
DeliveryTable(t, origin) ==
    LET t1 == UpdateRouteLifeTime(t, origin, ActiveRouteTimeout)
    IN  IF HasValidRoute(t1, origin)
        THEN UpdateRouteLifeTime(t1, t1[origin].nextHop, ActiveRouteTimeout)
        ELSE t1

DeliveryNeighbors(t, origin) ==
    IF HasValidRoute(t, origin) THEN {Purge(t)[origin].nextHop} ELSE {}

\* The previous hop towards origin; Ipv4Address() when the table has none.
PreviousHop(t, origin) == IF HasRoute(t, origin) THEN Purge(t)[origin].nextHop ELSE NoAddr

ForwardingTable(t, origin, d) ==
    LET life(s, a) == UpdateRouteLifeTime(s, a, ActiveRouteTimeout)
    IN  life(life(life(life(t, origin), d), Purge(t)[d].nextHop), PreviousHop(t, origin))
=============================================================================
