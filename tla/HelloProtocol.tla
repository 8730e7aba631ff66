--------------------------- MODULE HelloProtocol ----------------------------
(***************************************************************************)
(* The hello timer of one node, Peer, and the neighbour list of another    *)
(* that listens to it (src/model/madaodv-routing-protocol.cc).  Peer lets  *)
(* its other broadcasts stand for hellos; the listener counts a hello, and *)
(* a RREQ unless it has seen the RREQ before.                              *)
(*                                                                         *)
(* The list changes without Peer being heard, too: data that goes through  *)
(* an entry of the routing table with the next hop Peer renews it for      *)
(* ActiveRouteTimeout, the MAC layer may close the link, and the loss of   *)
(* the last interface clears it.                                           *)
(*                                                                         *)
(* Broadcasts leave after a random delay and may be lost; Peer may vanish. *)
(* The list is the one of module Neighbors.  Times are what is left of     *)
(* them, counted from a start later than time zero.                        *)
(***************************************************************************)
EXTENDS Integers

CONSTANTS
    Peer, PeerMac, NoMac,
    HelloInterval,   \* the attribute of Peer and of the listener
    AllowedHelloLoss,
    ActiveRouteTimeout,
    PurgeDelay,      \* the delay of the listener's purge timer
    StartDelay,      \* DoInitialize starts the hello timer after at most this
    MaxJitter        \* SendTo is scheduled after at most this

ASSUME HelloAssumption ==
    /\ HelloInterval \in Nat \ {0} /\ AllowedHelloLoss \in Nat \ {0}
    /\ PurgeDelay \in Nat \ {0} /\ ActiveRouteTimeout \in Nat
    /\ StartDelay \in 0 .. HelloInterval /\ MaxJitter \in Nat
    /\ PeerMac # NoMac

VARIABLES
    htimer,      \* time left of Peer's m_htimer
    lastBcast,   \* time since m_lastBcastTime; None if that is zero
    flying,      \* Peer's broadcasts on their way: [counts, delay]
    nb, timer, arp, reported, credit,   \* the listener's Neighbors
    route,       \* the listener's table has an entry with next hop Peer
    gone,        \* Peer is out of range for ever
    quiet,       \* history: time since Peer last broadcast
    unheard,     \* history: broadcasts of Peer since it was last heard
    heard        \* history: Peer was heard and not closed or cleared since

\* The list is constructed with the default of HelloInterval; the attribute set
\* later does not reach it.
N == INSTANCE Neighbors WITH
        Addr <- {Peer}, Mac <- {PeerMac}, HelloInterval <- PurgeDelay,
        Lifetimes <- {AllowedHelloLoss * HelloInterval, ActiveRouteTimeout}

peerVars == << htimer, lastBcast, flying, gone, quiet >>
listVars == << nb, timer, arp, credit >>
vars == << peerVars, listVars, reported, route, unheard, heard >>

None == -1

\* Counters are capped where nothing tells larger values apart.
MaxCount == AllowedHelloLoss + 1
Count(k) == IF k < MaxCount THEN k + 1 ELSE k

\* A broadcast on its way; counts says whether the listener takes it as a sign
\* of life (ProcessHello does; RecvRequest returns early on a RREQ it knows).
Broadcast == [counts : BOOLEAN, delay : 0 .. MaxJitter]

\* Start has set off the listener's purge timer, DoInitialize Peer's hellos.
Init ==
    /\ N!Init /\ timer = PurgeDelay
    /\ htimer \in 0 .. StartDelay
    /\ lastBcast = None /\ flying = {} /\ gone = FALSE /\ route = FALSE
    /\ quiet = 0 /\ unheard = 0 /\ heard = FALSE

-----------------------------------------------------------------------------
(* Peer *)

\* Something is broadcast after a random delay.
SendTo(counts) ==
    /\ \E d \in 0 .. MaxJitter : flying' = flying \cup {[counts |-> counts, delay |-> d]}
    /\ quiet' = 0
    /\ unheard' = Count(unheard)

\* Mutant of NextHello: a deferred hello waits for a whole interval.
NextHelloWhole == HelloInterval

\* Mutant of NextHello: the offset is added instead of taken off.
NextHelloLater == IF lastBcast = None THEN HelloInterval ELSE HelloInterval + lastBcast

\* When the timer is to fire again: an interval after the last broadcast.
NextHello == IF lastBcast = None THEN HelloInterval
             ELSE IF lastBcast > HelloInterval THEN 0 ELSE HelloInterval - lastBcast

HelloTimerExpire ==
    /\ htimer = 0 /\ ~gone
    /\ \/ /\ lastBcast # None
          /\ UNCHANGED << flying, quiet, unheard >>
       \/ /\ lastBcast = None
          /\ SendTo(TRUE)
    /\ htimer' = NextHello
    /\ lastBcast' = None
    /\ reported' = {}
    /\ UNCHANGED << listVars, route, gone, heard >>

\* SendRequest or the forwarding of a RREQ, which the listener may have heard
\* from another node before; at most one in a unit of time.
BroadcastRequest(known) ==
    /\ ~gone /\ quiet > 0
    /\ SendTo(~known)
    /\ lastBcast' = 0
    /\ reported' = {}
    /\ UNCHANGED << htimer, listVars, route, gone, heard >>

-----------------------------------------------------------------------------
(* The listener *)

\* What a sign of life is worth.
Lifetime == AllowedHelloLoss * HelloInterval

\* RecvMadaodv enters every sender in the routing table; RecvRequest and
\* ProcessHello renew its entry in the list.
Hear(m) ==
    /\ m \in flying /\ m.delay = 0 /\ ~gone
    /\ flying' = flying \ {m}
    /\ route' = TRUE
    /\ IF m.counts
       THEN N!Update(Peer, Lifetime) /\ unheard' = 0 /\ heard' = TRUE
       ELSE reported' = {} /\ UNCHANGED << listVars, unheard, heard >>
    /\ UNCHANGED << htimer, lastBcast, gone, quiet >>

\* A RREP, RERR or RREP_ACK of Peer: it renews the route and not the list.
HearUnicast ==
    /\ ~gone
    /\ route' = TRUE
    /\ reported' = {}
    /\ UNCHANGED << peerVars, listVars, unheard, heard >>

\* Data is forwarded to or delivered from the next hop Peer, which Forwarding
\* and RouteInput take for alive without having heard it.  The entry for the
\* origin counts even if it is invalid.
UseRoute ==
    /\ route
    /\ N!Update(Peer, ActiveRouteTimeout)
    /\ UNCHANGED << peerVars, route, unheard, heard >>

\* The table deletes its entries with next hop Peer; a link failure only
\* invalidates them.
RouteDeleted ==
    /\ route /\ route' = FALSE
    /\ reported' = {}
    /\ UNCHANGED << peerVars, listVars, unheard, heard >>

\* The MAC layer drops a frame for Peer.
NotifyTxError ==
    /\ N!ProcessTxError(PeerMac)
    /\ heard' = (heard /\ ~(Peer \in DOMAIN nb /\ nb[Peer].mac = PeerMac))
    /\ UNCHANGED << peerVars, route, unheard >>

\* The listener's last interface goes down: list and table are cleared.
InterfaceLost ==
    /\ N!Clear
    /\ route' = FALSE /\ heard' = FALSE
    /\ UNCHANGED << peerVars, unheard >>

\* m_ntimer of the list expires.
PurgeTimerExpire ==
    /\ N!TimerExpire
    /\ UNCHANGED << peerVars, route, unheard, heard >>

-----------------------------------------------------------------------------
(* The environment *)

Lose(m) ==
    /\ m \in flying /\ m.delay = 0
    /\ flying' = flying \ {m}
    /\ reported' = {}
    /\ UNCHANGED << htimer, lastBcast, listVars, route, gone, quiet, unheard, heard >>

Vanish ==
    /\ ~gone /\ gone' = TRUE
    /\ reported' = {}
    /\ UNCHANGED << htimer, lastBcast, flying, listVars, route, quiet, unheard, heard >>

\* What the listener's ARP caches know of Peer changes.
ArpChange ==
    /\ \E mac \in {PeerMac, NoMac} : N!ArpChange(Peer, mac)
    /\ UNCHANGED << peerVars, route, unheard, heard >>

\* Time passes when nothing is due.
Tick ==
    /\ htimer > 0 \/ gone
    /\ \A m \in flying : m.delay > 0
    /\ N!Tick
    /\ flying' = { [m EXCEPT !.delay = @ - 1] : m \in flying }
    /\ htimer' = IF gone THEN htimer ELSE htimer - 1
    /\ lastBcast' = IF lastBcast = None \/ gone THEN lastBcast ELSE lastBcast + 1
    /\ quiet' = IF gone THEN quiet ELSE quiet + 1
    /\ UNCHANGED << gone, route, unheard, heard >>

Arrival == \E m \in flying : Hear(m) \/ Lose(m)

Next ==
    \/ HelloTimerExpire
    \/ \E known \in BOOLEAN : BroadcastRequest(known)
    \/ Arrival
    \/ HearUnicast
    \/ UseRoute
    \/ RouteDeleted
    \/ NotifyTxError
    \/ InterfaceLost
    \/ PurgeTimerExpire
    \/ Vanish
    \/ ArpChange
    \/ Tick

\* The simulator runs every event that is due and lets time pass when none is.
Fairness ==
    /\ WF_vars(HelloTimerExpire) /\ WF_vars(Arrival)
    /\ WF_vars(PurgeTimerExpire) /\ WF_vars(Tick)

Spec == Init /\ [][Next]_vars /\ Fairness

-----------------------------------------------------------------------------
\* The timers stay within an interval, what flies is delayed by at most the
\* jitter, and the list is a list of neighbours.
TypeOK ==
    /\ htimer \in 0 .. HelloInterval
    /\ lastBcast \in None .. HelloInterval
    /\ flying \subseteq Broadcast
    /\ N!TypeOK
    /\ gone \in BOOLEAN /\ route \in BOOLEAN /\ heard \in BOOLEAN
    /\ quiet \in Nat
    /\ unheard \in 0 .. MaxCount

\* A node in range is never silent for longer than a HelloInterval, although
\* HelloTimerExpire skips the hello and shifts its own phase whenever some other
\* broadcast was made since it last ran.
NeverSilent == quiet <= HelloInterval

\* Once heard, a Peer in range stays on the list until AllowedHelloLoss of its
\* broadcasts in a row did not count (they were lost, are still delayed, or were
\* RREQs the listener had seen), unless the MAC layer closes the link or the
\* list is cleared.  The phases of the hello timer, of the jitter and of the
\* purge timer never cost a hello that arrived, nor does data that renews the
\* entry for an ActiveRouteTimeout shorter than what hellos are worth.  A Peer
\* that only data or a MAC error put on the list, or back on it, has no such
\* promise.
LinkKeptWhileHeard == (heard /\ ~gone /\ unheard < AllowedHelloLoss) => Peer \in DOMAIN nb

\* A neighbour that has vanished leaves the list for good, provided that data
\* stops using the routes through it: each purge finds the timer restarted by
\* the one before until the entry has expired.  Without the proviso it need not:
\* Forwarding renews the entry at every packet it sends to a Peer that is no
\* longer there, and only the MAC layer can put an end to that.
VanishedDetected == []<><< UseRoute >>_vars \/ (gone ~> [](Peer \notin DOMAIN nb))
=============================================================================
