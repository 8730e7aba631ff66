----------------------------- MODULE Neighbors ------------------------------
(***************************************************************************)
(* The list of active neighbours (src/model/madaodv-neighbor.{h,cc}) with  *)
(* its purge timer, the link-failure callback and the MAC addresses that   *)
(* connect it to layer 2.  Times are what is left of them.                 *)
(*                                                                         *)
(* The ARP caches belong to the simulator; they are modelled as a function *)
(* that resolves an address to a MAC address or to none and may change at  *)
(* any time.  The simulator runs the timer's event when it is due, before  *)
(* time moves on.                                                          *)
(***************************************************************************)
EXTENDS Integers, Functions

CONSTANTS
    Addr,            \* addresses of possible neighbours
    Mac, NoMac,      \* MAC addresses; Mac48Address()
    HelloInterval,   \* delay of m_ntimer
    Lifetimes        \* lifetimes Update is called with

ASSUME HelloIntervalAssumption == HelloInterval \in Nat
ASSUME NbLifetimesAssumption == Lifetimes \subseteq Nat
ASSUME NoMacAssumption == NoMac \notin Mac

VARIABLES
    nb,         \* m_nb: address -> [expire, mac, close]
    timer,      \* time left of m_ntimer, Stopped if it is not scheduled
    arp,        \* what the ARP caches resolve
    reported,   \* addresses the last step passed to m_handleLinkFailure
    credit      \* history: time for which each address was promised to stay

vars == << nb, timer, arp, reported, credit >>

Stopped == -1
NoCredit == -1

\* Expired times count down to this bound.
LongPast == -1 - HelloInterval

Neighbor == [expire : Int, mac : Mac \cup {NoMac}, close : BOOLEAN]

\* The list maps addresses to neighbours, and the purge timer is never set
\* for longer than a HelloInterval.
TypeOK ==
    /\ DOMAIN nb \subseteq Addr /\ nb \in [DOMAIN nb -> Neighbor]
    /\ timer \in Stopped .. HelloInterval
    /\ arp \in [Addr -> Mac \cup {NoMac}]
    /\ reported \subseteq Addr
    /\ credit \in [Addr -> Int]

NoNeighbors == [a \in {} |-> NoMac]

\* Start has scheduled the timer if hello messages are enabled.
Init ==
    /\ nb = NoNeighbors
    /\ timer \in {Stopped, HelloInterval}
    /\ arp \in [Addr -> Mac \cup {NoMac}]
    /\ reported = {}
    /\ credit = [a \in Addr |-> NoCredit]

-----------------------------------------------------------------------------
\* Mutant of CloseNeighbor: closed links are not looked at.
CloseNeighborExpiredOnly(n) == n.expire < 0

CloseNeighbor(n) == n.expire < 0 \/ n.close

LookupMacAddress(a) == arp[a]

\* Mutant of Purge: the timer is not restarted.
PurgeOnce(list, left) ==
    LET closed == { a \in DOMAIN list : CloseNeighbor(list[a]) }
    IN  /\ nb' = Restrict(list, DOMAIN list \ closed)
        /\ reported' = closed
        /\ timer' = left

\* Mutant of Purge: entries go without being reported.
PurgeSilently(list, left) ==
    LET closed == { a \in DOMAIN list : CloseNeighbor(list[a]) }
    IN  /\ nb' = Restrict(list, DOMAIN list \ closed)
        /\ reported' = {}
        /\ timer' = IF DOMAIN list = {} THEN left ELSE HelloInterval

\* Mutant of Purge: the timer is set for too long.
PurgeLate(list, left) ==
    LET closed == { a \in DOMAIN list : CloseNeighbor(list[a]) }
    IN  /\ nb' = Restrict(list, DOMAIN list \ closed)
        /\ reported' = closed
        /\ timer' = IF DOMAIN list = {} THEN left ELSE HelloInterval + 1

\* Report and erase the closed neighbours of list.  Only a list that is not
\* empty restarts the timer; otherwise left remains of it.
Purge(list, left) ==
    LET closed == { a \in DOMAIN list : CloseNeighbor(list[a]) }
    IN  /\ nb' = Restrict(list, DOMAIN list \ closed)
        /\ reported' = closed
        /\ timer' = IF DOMAIN list = {} THEN left ELSE HelloInterval

\* IsNeighbor, GetExpireTime.
Lookup ==
    /\ Purge(nb, timer)
    /\ UNCHANGED << arp, credit >>

\* Mutant of Refreshed: a later, shorter lifetime replaces a longer one.
RefreshedShorter(n, a, lifetime) ==
    [n EXCEPT !.expire = lifetime,
              !.mac = IF @ = NoMac THEN LookupMacAddress(a) ELSE @]

Refreshed(n, a, lifetime) ==
    [n EXCEPT !.expire = IF lifetime > @ THEN lifetime ELSE @,
              !.mac = IF @ = NoMac THEN LookupMacAddress(a) ELSE @]

\* A known neighbour is refreshed without a purge, even if it has expired;
\* a new one is added and the list is purged.
Update(a, lifetime) ==
    /\ \/ /\ a \in DOMAIN nb
          /\ nb' = [nb EXCEPT ![a] = Refreshed(@, a, lifetime)]
          /\ reported' = {}
          /\ UNCHANGED timer
       \/ /\ a \notin DOMAIN nb
          /\ LET new == [expire |-> lifetime, mac |-> LookupMacAddress(a),
                         close |-> FALSE]
             IN  Purge([x \in DOMAIN nb \cup {a} |-> IF x = a THEN new ELSE nb[x]],
                       timer)
    /\ credit' = [credit EXCEPT ![a] = IF lifetime > @ THEN lifetime ELSE @]
    /\ UNCHANGED arp

\* The MAC layer gave up sending to a station: its links are closed at once.
ProcessTxError(mac) ==
    /\ Purge([a \in DOMAIN nb |-> [nb[a] EXCEPT !.close = @ \/ nb[a].mac = mac]],
             timer)
    /\ credit' = [a \in Addr |-> IF a \in DOMAIN nb /\ nb[a].mac = mac
                                 THEN NoCredit ELSE credit[a]]
    /\ UNCHANGED arp

\* m_ntimer expires and calls Purge.
TimerExpire ==
    /\ timer = 0
    /\ Purge(nb, Stopped)
    /\ UNCHANGED << arp, credit >>

\* The protocol forgets all neighbours when its last interface goes.
Clear ==
    /\ nb' = NoNeighbors
    /\ reported' = {}
    /\ credit' = [a \in Addr |-> NoCredit]
    /\ UNCHANGED << timer, arp >>

\* AddArpCache, DelArpCache and ARP itself change what can be resolved.
ArpChange(a, mac) ==
    /\ arp' = [arp EXCEPT ![a] = mac]
    /\ reported' = {}
    /\ UNCHANGED << nb, timer, credit >>

Tick ==
    /\ timer # 0
    /\ timer' = IF timer = Stopped THEN Stopped ELSE timer - 1
    /\ nb' = [a \in DOMAIN nb |-> [nb[a] EXCEPT !.expire = IF @ > LongPast THEN @ - 1 ELSE @]]
    /\ credit' = [a \in Addr |-> IF credit[a] < 0 THEN NoCredit ELSE credit[a] - 1]
    /\ reported' = {}
    /\ UNCHANGED arp

Next ==
    \/ Lookup
    \/ \E a \in Addr, lifetime \in Lifetimes : Update(a, lifetime)
    \/ \E mac \in Mac : ProcessTxError(mac)
    \/ TimerExpire
    \/ Clear
    \/ \E a \in Addr, mac \in Mac \cup {NoMac} : ArpChange(a, mac)
    \/ Tick

Spec == Init /\ [][Next]_vars

-----------------------------------------------------------------------------
\* As long as there is a neighbour to watch the purge timer is running, even
\* though Purge stops restarting it when the list runs empty.
TimerCoversList == DOMAIN nb # {} => timer # Stopped

\* A dead neighbour stays on the list for at most one HelloInterval, however
\* often other calls of Purge restart the timer (Purge, Update, m_ntimer).
FailureDetectedInTime ==
    \A a \in DOMAIN nb : timer # Stopped => nb[a].expire >= timer - HelloInterval

\* A neighbour that was heard from stays for the longest lifetime any message
\* gave it, unless the MAC layer reports its station gone (Update, Purge).
CreditHonoured ==
    \A a \in Addr : credit[a] >= 0 =>
        a \in DOMAIN nb /\ ~nb[a].close /\ nb[a].expire >= credit[a]

\* A neighbour leaves the list only through the link-failure callback, so
\* that its routes are invalidated; only Clear forgets without reporting.
LossReported == [][ Clear \/ DOMAIN nb \ DOMAIN nb' \subseteq reported' ]_vars

\* A transmission error takes every neighbour known under that MAC address
\* off the list in the same step: no closed link is ever left in it.
NoClosedLinkKept == \A a \in DOMAIN nb : ~nb[a].close
=============================================================================
