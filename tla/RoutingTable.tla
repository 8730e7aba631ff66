---------------------------- MODULE RoutingTable ----------------------------
(***************************************************************************)
(* The routing table of one node (src/model/madaodv-rtable.{h,cc}) as      *)
(* operators on its value: a function from the destinations that have an   *)
(* entry to RoutingTableEntry records.                                     *)
(*                                                                         *)
(* lifeTime is what GetLifeTime() returns, the time left, so time passes   *)
(* by Age and not by a clock.  It stops at -1: the code only asks whether  *)
(* a lifetime is negative, or takes its maximum with a non-negative one.   *)
(* The output device is abstracted into iface, which the code always sets  *)
(* together with it.  The RREP-ACK timer and the blacklist timeout are     *)
(* left out: the first is never scheduled, the second is never read.       *)
(***************************************************************************)
EXTENDS Integers, Functions

CONSTANTS
    Addr,             \* IPv4 addresses a table can hold routes to
    Iface,            \* interface addresses of the node
    NoAddr,           \* Ipv4Address()
    NoIface,          \* Ipv4InterfaceAddress()
    BadLinkLifetime,  \* m_badLinkLifetime, the protocol's DeletePeriod
    RreqCntMod        \* 256 in the code: m_reqCount is a uint8_t

ASSUME BadLinkLifetimeAssumption == BadLinkLifetime \in Nat
ASSUME RreqCntModAssumption == RreqCntMod \in Nat \ {0}
ASSUME NoAddrAssumption == NoAddr \notin Addr /\ NoIface \notin Iface

RouteFlags == {"VALID", "INVALID", "IN_SEARCH"}

Entry == [ validSeqNo     : BOOLEAN,
           seqNo          : Nat,
           iface          : Iface \cup {NoIface},
           hops           : Nat,
           nextHop        : Addr \cup {NoAddr},
           lifeTime       : Int,
           flag           : RouteFlags,
           precursors     : SUBSET Addr,
           reqCount       : 0 .. RreqCntMod - 1,
           unidirectional : BOOLEAN ]

\* t is a table a node can hold.
IsTable(t) == DOMAIN t \subseteq Addr /\ t \in [DOMAIN t -> Entry]

-----------------------------------------------------------------------------
(* RoutingTableEntry *)

\* The constructor; the destination is the key the entry is stored under.
RoutingTableEntry(vSeqNo, seqNo, iface, hops, nextHop, lifetime) ==
    [ validSeqNo |-> vSeqNo, seqNo |-> seqNo, iface |-> iface, hops |-> hops,
      nextHop |-> nextHop, lifeTime |-> lifetime, flag |-> "VALID",
      precursors |-> {}, reqCount |-> 0, unidirectional |-> FALSE ]

InsertPrecursor(e, id) == [e EXCEPT !.precursors = @ \cup {id}]

DeletePrecursor(e, id) == [e EXCEPT !.precursors = @ \ {id}]

\* Mutant of IncrementRreqCnt: the counter outgrows its eight bits.
IncrementRreqCntWide(e) == [e EXCEPT !.reqCount = @ + 1]

IncrementRreqCnt(e) == [e EXCEPT !.reqCount = (@ + 1) % RreqCntMod]

\* Mutant of Invalidate: the deletion time is not restarted.
InvalidateKeepsLifeTime(e) ==
    IF e.flag = "INVALID" THEN e
    ELSE [e EXCEPT !.flag = "INVALID", !.reqCount = 0]

Invalidate(e) ==
    IF e.flag = "INVALID" THEN e
    ELSE [e EXCEPT !.flag = "INVALID", !.reqCount = 0,
                   !.lifeTime = BadLinkLifetime]

Expired(e) == e.lifeTime < 0

\* Add and Update clear the request counter of an entry that is not searched.
ResetRreqCnt(e) ==
    IF e.flag = "IN_SEARCH" THEN e ELSE [e EXCEPT !.reqCount = 0]

-----------------------------------------------------------------------------
(* RoutingTable *)

\* Mutant of Purge: only the flag of an expired route is changed.
PurgeFlagOnly(t) ==
    LET kept == { d \in DOMAIN t : ~(Expired(t[d]) /\ t[d].flag = "INVALID") }
    IN  [ d \in kept |-> IF Expired(t[d]) /\ t[d].flag = "VALID"
                         THEN [t[d] EXCEPT !.flag = "INVALID"]
                         ELSE t[d] ]

Purge(t) ==
    LET kept == { d \in DOMAIN t : ~(Expired(t[d]) /\ t[d].flag = "INVALID") }
    IN  [ d \in kept |-> IF Expired(t[d]) /\ t[d].flag = "VALID"
                         THEN Invalidate(t[d])
                         ELSE t[d] ]

\* What LookupRoute and LookupValidRoute find, once they have purged t.
HasRoute(t, d) == d \in DOMAIN Purge(t)
HasValidRoute(t, d) == HasRoute(t, d) /\ Purge(t)[d].flag = "VALID"

DeleteRoute(t, d) == Restrict(Purge(t), DOMAIN Purge(t) \ {d})

AddRoute(t, d, e) ==
    LET p == Purge(t)
    IN  IF d \in DOMAIN p THEN p
        ELSE [ x \in DOMAIN p \cup {d} |->
                 IF x = d THEN ResetRreqCnt(e) ELSE p[x] ]

Update(t, d, e) ==
    IF d \in DOMAIN t THEN [t EXCEPT ![d] = ResetRreqCnt(e)] ELSE t

\* Mutant of SetEntryState: the request counter survives.
SetEntryStateKeepsCnt(t, d, state) ==
    IF d \in DOMAIN t THEN [t EXCEPT ![d].flag = state] ELSE t

SetEntryState(t, d, state) ==
    IF d \in DOMAIN t
    THEN [t EXCEPT ![d] = [@ EXCEPT !.flag = state, !.reqCount = 0]]
    ELSE t

\* The destinations, with their sequence numbers, routed through nextHop.
DestinationsWithNextHop(t, nextHop) ==
    LET p == Purge(t)
    IN  [ d \in { x \in DOMAIN p : p[x].nextHop = nextHop } |-> p[d].seqNo ]

InvalidateRoutesWithDst(t, unreachable) ==
    LET p == Purge(t)
    IN  [ d \in DOMAIN p |-> IF d \in unreachable /\ p[d].flag = "VALID"
                             THEN Invalidate(p[d])
                             ELSE p[d] ]

DeleteAllRoutesFromInterface(t, iface) ==
    Restrict(t, { d \in DOMAIN t : t[d].iface # iface })

MarkLinkAsUnidirectional(t, neighbor) ==
    IF neighbor \in DOMAIN t
    THEN [t EXCEPT ![neighbor] =
            [@ EXCEPT !.unidirectional = TRUE, !.reqCount = 0]]
    ELSE t

\* The table after Clear(), and of a node that has learned nothing.
EmptyTable == [ d \in {} |-> NoAddr ]

-----------------------------------------------------------------------------
\* One time unit passes.
Elapse(left) == IF left < 0 THEN left ELSE left - 1
Age(t) == [ d \in DOMAIN t |-> [t[d] EXCEPT !.lifeTime = Elapse(@)] ]
=============================================================================
