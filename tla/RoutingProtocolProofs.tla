------------------------ MODULE RoutingProtocolProofs ------------------------
(***************************************************************************)
(* Proofs about the network of RoutingProtocol, for every set of nodes,    *)
(* every topology, every set of packets and all limits and timeouts.       *)
(*                                                                         *)
(* A handler is a function from object to object, so its lemma says what   *)
(* it makes of any object an event can start from, and the lemma of an     *)
(* action composes those of the handlers it calls.                         *)
(***************************************************************************)
EXTENDS RoutingProtocol, SelectionProofs, TLAPS

-----------------------------------------------------------------------------
(* Entries *)

\* The addresses in radio range of n.
Near(n) == { a \in Addr : {n, a} \in Link }

LEMMA NearAddr == \A n : \A a \in Near(n) : a \in Addr
  BY DEF Near

\* An entry is searched or has an interface, an interface comes with a next
\* hop in range, so do precursors, and the destination or the
\* ring of its search is at least a hop away.
GoodEntry(n, e) ==
    /\ e \in Entry /\ e.hops >= 1 /\ e.precursors \subseteq Near(n)
    /\ e.iface = Wlan => e.nextHop \in Near(n)
    /\ e.flag # "IN_SEARCH" => e.iface = Wlan

\* A purge does not delete the entry.
Lasts(e) == e.flag = "INVALID" => e.lifeTime >= 0

LEMMA MaxTwo ==
    ASSUME NEW a \in Int, NEW b \in Int
    PROVE  Max({a, b}) \in Int /\ Max({a, b}) >= a /\ Max({a, b}) >= b
<1>1. CASE a >= b
  <2>1. a \in {a, b} /\ \A y \in {a, b} : a >= y
    BY <1>1
  <2> QED
    BY <2>1 DEF Max
<1>2. CASE b >= a
  <2>1. b \in {a, b} /\ \A y \in {a, b} : b >= y
    BY <1>2
  <2> QED
    BY <2>1 DEF Max
<1> QED
  BY <1>1, <1>2

LEMMA MinTwo ==
    ASSUME NEW a \in Int, NEW b \in Int
    PROVE  Min({a, b}) \in {a, b}
<1>1. CASE a <= b
  <2>1. a \in {a, b} /\ \A y \in {a, b} : a <= y
    BY <1>1
  <2> QED
    BY <2>1 DEF Min
<1>2. CASE b <= a
  <2>1. b \in {a, b} /\ \A y \in {a, b} : b <= y
    BY <1>2
  <2> QED
    BY <2>1 DEF Min
<1> QED
  BY <1>1, <1>2

\* The entries that handlers make: with a sequence number, or for a neighbour.
LEMMA KnownEntry ==
    ASSUME NEW n, NEW q \in Nat, NEW h \in Nat, h >= 1, NEW a \in Near(n), NEW l \in Int
    PROVE  LET e == RoutingTableEntry(TRUE, q, Wlan, h, a, l)
           IN  GoodEntry(n, e) /\ Lasts(e) /\ e.flag = "VALID" /\ e.iface = Wlan
<1>1. 0 \in 0 .. RreqCntMod - 1 /\ a \in Addr
  BY RreqCntModAssumption, NearAddr
<1> QED
  BY <1>1, WlanAssumption DEF GoodEntry, Lasts, RoutingTableEntry, Entry, RouteFlags

LEMMA FreshEntry ==
    ASSUME NEW n, NEW q \in Nat, NEW a \in Near(n), NEW l \in Int
    PROVE  LET e == RoutingTableEntry(FALSE, q, Wlan, 1, a, l)
           IN  GoodEntry(n, e) /\ Lasts(e) /\ e.flag = "VALID" /\ e.iface = Wlan
<1>1. 0 \in 0 .. RreqCntMod - 1 /\ a \in Addr
  BY RreqCntModAssumption, NearAddr
<1> QED
  BY <1>1, WlanAssumption DEF GoodEntry, Lasts, RoutingTableEntry, Entry, RouteFlags

LEMMA ResetEntry ==
    ASSUME NEW n, NEW e, GoodEntry(n, e), Lasts(e)
    PROVE  LET r == ResetRreqCnt(e)
           IN  /\ GoodEntry(n, r) /\ Lasts(r) /\ r.flag = e.flag /\ r.iface = e.iface
               /\ r.nextHop = e.nextHop
<1>1. 0 \in 0 .. RreqCntMod - 1
  BY RreqCntModAssumption
<1> DEFINE r == [e EXCEPT !.reqCount = 0]
<1>2. r \in Entry
  BY <1>1 DEF GoodEntry, Entry
<1>3. /\ r.flag = e.flag /\ r.iface = e.iface /\ r.nextHop = e.nextHop /\ r.hops = e.hops
      /\ r.precursors = e.precursors
      /\ r.lifeTime = e.lifeTime
  BY DEF GoodEntry, Entry
<1> HIDE DEF r
<1>4. ResetRreqCnt(e) \in {e, r}
  BY DEF ResetRreqCnt, r
<1> QED
  BY <1>2, <1>3, <1>4 DEF GoodEntry, Lasts

LEMMA InvalidEntry ==
    ASSUME NEW n, NEW e, GoodEntry(n, e), e.flag = "VALID"
    PROVE  LET r == Invalidate(e)
           IN  /\ GoodEntry(n, r) /\ Lasts(r) /\ r.flag = "INVALID" /\ r.iface = e.iface
               /\ r.nextHop = e.nextHop
<1>1. 0 \in 0 .. RreqCntMod - 1 /\ BadLinkLifetime \in Int /\ BadLinkLifetime >= 0
  BY RreqCntModAssumption, BadLinkLifetimeAssumption
<1> DEFINE r == [e EXCEPT !.flag = "INVALID", !.reqCount = 0, !.lifeTime = BadLinkLifetime]
<1>2. r \in Entry
  BY <1>1 DEF GoodEntry, Entry, RouteFlags
<1>3. /\ r.flag = "INVALID" /\ r.iface = e.iface /\ r.nextHop = e.nextHop /\ r.hops = e.hops
      /\ r.precursors = e.precursors
      /\ r.lifeTime = BadLinkLifetime
  BY DEF GoodEntry, Entry
<1> HIDE DEF r
<1>4. Invalidate(e) = r
  BY DEF Invalidate, r
<1> QED
  BY <1>1, <1>2, <1>3, <1>4 DEF GoodEntry, Lasts

\* The fields a handler may change without touching what GoodEntry is about.
LEMMA RefreshedEntry ==
    ASSUME NEW n, NEW e, GoodEntry(n, e), Lasts(e), NEW l \in Int, l >= e.lifeTime
    PROVE  LET r == [e EXCEPT !.lifeTime = l]
           IN  GoodEntry(n, r) /\ Lasts(r) /\ r.flag = e.flag /\ r.nextHop = e.nextHop
<1> DEFINE r == [e EXCEPT !.lifeTime = l]
<1>1. r \in Entry /\ e.lifeTime \in Int
  BY DEF GoodEntry, Entry
<1>2. /\ r.flag = e.flag /\ r.iface = e.iface /\ r.nextHop = e.nextHop /\ r.hops = e.hops
      /\ r.precursors = e.precursors /\ r.lifeTime = l
  BY DEF GoodEntry, Entry
<1> HIDE DEF r
<1>3. GoodEntry(n, r)
  BY <1>1, <1>2 DEF GoodEntry
<1>4. Lasts(r)
  BY <1>1, <1>2 DEF Lasts
<1> QED
  BY <1>2, <1>3, <1>4 DEF r

LEMMA UsedEntry ==
    ASSUME NEW n, NEW e, GoodEntry(n, e), Lasts(e), NEW l \in Int, l >= e.lifeTime
    PROVE  LET r == [e EXCEPT !.reqCount = 0, !.lifeTime = l]
           IN  GoodEntry(n, r) /\ Lasts(r) /\ r.flag = e.flag
<1> DEFINE r == [e EXCEPT !.reqCount = 0, !.lifeTime = l]
<1>0. 0 \in 0 .. RreqCntMod - 1
  BY RreqCntModAssumption
<1>1. r \in Entry /\ e.lifeTime \in Int
  BY <1>0 DEF GoodEntry, Entry
<1>2. /\ r.flag = e.flag /\ r.iface = e.iface /\ r.nextHop = e.nextHop /\ r.hops = e.hops
      /\ r.precursors = e.precursors /\ r.lifeTime = l
  BY DEF GoodEntry, Entry
<1> HIDE DEF r
<1>3. GoodEntry(n, r)
  BY <1>1, <1>2 DEF GoodEntry
<1>4. Lasts(r)
  BY <1>1, <1>2 DEF Lasts
<1> QED
  BY <1>2, <1>3, <1>4 DEF r

LEMMA ConfirmedEntry ==
    ASSUME NEW n, NEW e, GoodEntry(n, e), e.iface = Wlan
    PROVE  LET r == [e EXCEPT !.flag = "VALID"]
           IN  GoodEntry(n, r) /\ Lasts(r) /\ r.flag = "VALID"
<1> DEFINE r == [e EXCEPT !.flag = "VALID"]
<1>1. r \in Entry
  BY DEF GoodEntry, Entry, RouteFlags
<1>2. /\ r.flag = "VALID" /\ r.iface = e.iface /\ r.nextHop = e.nextHop /\ r.hops = e.hops
      /\ r.precursors = e.precursors
  BY DEF GoodEntry, Entry
<1> HIDE DEF r
<1> QED
  BY <1>1, <1>2 DEF r, GoodEntry, Lasts

LEMMA PrecursorEntry ==
    ASSUME NEW n, NEW e, GoodEntry(n, e), Lasts(e), NEW a \in Near(n)
    PROVE  LET r == InsertPrecursor(e, a)
           IN  GoodEntry(n, r) /\ Lasts(r) /\ r.flag = e.flag /\ r.nextHop = e.nextHop
<1> DEFINE x == e.precursors \cup {a}
           r == InsertPrecursor(e, a)
<1>1. r = [e EXCEPT !.precursors = x] /\ x \in SUBSET Near(n) /\ x \in SUBSET Addr
  BY NearAddr DEF InsertPrecursor, GoodEntry, Entry
<1> HIDE DEF x, r
<1>2. r \in Entry
  BY <1>1 DEF GoodEntry, Entry
<1>3. /\ r.flag = e.flag /\ r.iface = e.iface /\ r.nextHop = e.nextHop /\ r.hops = e.hops
      /\ r.precursors = x /\ r.lifeTime = e.lifeTime
  BY <1>1 DEF GoodEntry, Entry
<1> QED
  BY <1>1, <1>2, <1>3 DEF r, GoodEntry, Lasts

-----------------------------------------------------------------------------
(* Tables *)

GoodTable(n, t) == IsTable(t) /\ \A d \in DOMAIN t : GoodEntry(n, t[d])

\* A purge deletes nothing from t.
Clean(n, t) == GoodTable(n, t) /\ \A d \in DOMAIN t : Lasts(t[d])

Searched(t) == { d \in DOMAIN t : t[d].flag = "IN_SEARCH" }

\* u is a clean table that has kept the entries of t and searches nothing new.
Extends(n, u, t) ==
    Clean(n, u) /\ DOMAIN t \subseteq DOMAIN u /\ Searched(u) \subseteq Searched(t)

LEMMA ExtendsTrans ==
    ASSUME NEW n, NEW t, NEW u, NEW v, Extends(n, u, t), Extends(n, v, u)
    PROVE  Extends(n, v, t)
  BY DEF Extends

LEMMA PurgedEntry ==
    ASSUME NEW n, NEW t, GoodTable(n, t), NEW d \in DOMAIN Purge(t)
    PROVE  /\ d \in DOMAIN t /\ GoodEntry(n, Purge(t)[d]) /\ Lasts(Purge(t)[d])
           /\ Purge(t)[d].flag = "IN_SEARCH" <=> t[d].flag = "IN_SEARCH"
           /\ Purge(t)[d].flag = "VALID" => t[d].flag = "VALID"
           /\ Purge(t)[d].iface = t[d].iface /\ Purge(t)[d].nextHop = t[d].nextHop
<1>1. /\ d \in DOMAIN t /\ ~(Expired(t[d]) /\ t[d].flag = "INVALID")
      /\ Purge(t)[d] = IF Expired(t[d]) /\ t[d].flag = "VALID" THEN Invalidate(t[d]) ELSE t[d]
  BY DEF Purge
<1>2. GoodEntry(n, t[d]) /\ t[d].lifeTime \in Int
  BY <1>1 DEF GoodTable, GoodEntry, Entry
<1>3. CASE Expired(t[d]) /\ t[d].flag = "VALID"
  BY <1>1, <1>2, <1>3, InvalidEntry
<1>4. CASE ~(Expired(t[d]) /\ t[d].flag = "VALID")
  <2>1. Lasts(t[d])
    BY <1>1, <1>2 DEF Lasts, Expired
  <2> QED
    BY <1>1, <1>2, <1>4, <2>1
<1> QED
  BY <1>3, <1>4

\* A purge keeps the searches, and all entries of a clean table.
LEMMA PurgeClean ==
    ASSUME NEW n, NEW t, GoodTable(n, t)
    PROVE  /\ Clean(n, Purge(t)) /\ DOMAIN Purge(t) \subseteq DOMAIN t
           /\ Searched(Purge(t)) = Searched(t)
           /\ Clean(n, t) => DOMAIN Purge(t) = DOMAIN t /\ Extends(n, Purge(t), t)
<1> DEFINE p == Purge(t)
           kept == { d \in DOMAIN t : ~(Expired(t[d]) /\ t[d].flag = "INVALID") }
<1>1. DOMAIN p = kept /\ p = [ d \in kept |-> p[d] ]
  BY DEF Purge
<1>2. \A d \in DOMAIN p : /\ d \in DOMAIN t /\ GoodEntry(n, p[d]) /\ Lasts(p[d])
                          /\ p[d].flag = "IN_SEARCH" <=> t[d].flag = "IN_SEARCH"
  BY PurgedEntry
<1>3. DOMAIN t \subseteq Addr
  BY DEF GoodTable, IsTable
<1>4. \A d \in DOMAIN t : t[d].flag = "IN_SEARCH" => d \in kept
  OBVIOUS
<1>5. Clean(n, t) => DOMAIN p = DOMAIN t
  <2> SUFFICES ASSUME Clean(n, t), NEW d \in DOMAIN t PROVE d \in kept
    BY <1>1
  <2>1. Lasts(t[d]) /\ t[d].lifeTime \in Int
    BY DEF Clean, GoodTable, GoodEntry, Entry
  <2> QED
    BY <2>1 DEF Lasts, Expired
<1> HIDE DEF p, kept
<1>6. \A d \in kept : p[d] \in Entry
  BY <1>1, <1>2 DEF GoodEntry
<1>7. IsTable(p)
  <2>1. p \in [kept -> Entry] /\ kept \subseteq Addr
    BY <1>1, <1>2, <1>3, <1>6
  <2> QED
    BY <1>1, <2>1 DEF IsTable
<1>8. Clean(n, p) /\ Searched(p) = Searched(t)
  BY <1>1, <1>2, <1>4, <1>7 DEF Clean, GoodTable, Searched
<1> QED
  BY <1>1, <1>2, <1>5, <1>8 DEF p, Extends

LEMMA ValidRoute ==
    ASSUME NEW n, NEW t, GoodTable(n, t), NEW d, HasValidRoute(t, d)
    PROVE  /\ d \in Addr /\ d \in DOMAIN Purge(t) /\ d \in DOMAIN t /\ t[d].flag = "VALID"
           /\ GoodEntry(n, Purge(t)[d]) /\ Purge(t)[d].nextHop \in Near(n)
           /\ t[d].nextHop \in Near(n)
<1>1. d \in DOMAIN Purge(t) /\ Purge(t)[d].flag = "VALID"
  BY DEF HasValidRoute, HasRoute
<1>2. d \in DOMAIN t /\ GoodEntry(n, Purge(t)[d]) /\ t[d].flag = "VALID"
      /\ Purge(t)[d].nextHop = t[d].nextHop
  BY <1>1, PurgedEntry
<1>3. d \in Addr
  BY <1>2 DEF GoodTable, IsTable
<1> QED
  BY <1>1, <1>2, <1>3 DEF GoodEntry

LEMMA UpdateOK ==
    ASSUME NEW n, NEW t, Clean(n, t), NEW d, NEW e, GoodEntry(n, e), Lasts(e)
    PROVE  LET u == Update(t, d, e)
           IN  /\ Clean(n, u) /\ DOMAIN u = DOMAIN t /\ Searched(u) \subseteq Searched(t) \cup {d}
               /\ e.flag # "IN_SEARCH" \/ d \in Searched(t) => Extends(n, u, t)
               /\ d \in DOMAIN t =>
                    u[d].flag = e.flag /\ u[d].iface = e.iface /\ u[d].nextHop = e.nextHop
               /\ \A x \in DOMAIN t : x # d => u[x] = t[x]
<1>1. CASE d \notin DOMAIN t
  <2>1. Update(t, d, e) = t
    BY <1>1 DEF Update
  <2> QED
    BY <1>1, <2>1 DEF Extends
<1>2. CASE d \in DOMAIN t
  <2> DEFINE r == ResetRreqCnt(e)
             u == [t EXCEPT ![d] = r]
  <2>1. /\ GoodEntry(n, r) /\ Lasts(r) /\ r.flag = e.flag /\ r.iface = e.iface
        /\ r.nextHop = e.nextHop
    BY ResetEntry
  <2>2. Update(t, d, e) = u
    BY <1>2 DEF Update
  <2> HIDE DEF r
  <2>3. t \in [DOMAIN t -> Entry] /\ DOMAIN t \subseteq Addr
    BY DEF Clean, GoodTable, IsTable
  <2>4. /\ DOMAIN u = DOMAIN t /\ u[d] = r /\ u \in [DOMAIN t -> Entry]
        /\ \A x \in DOMAIN t : x # d => u[x] = t[x]
    BY <1>2, <2>1, <2>3 DEF GoodEntry
  <2> HIDE DEF u
  <2>5. \A x \in DOMAIN u : GoodEntry(n, u[x]) /\ Lasts(u[x])
    BY <2>1, <2>4 DEF Clean, GoodTable
  <2>6. /\ Searched(u) \subseteq Searched(t) \cup {d}
        /\ e.flag # "IN_SEARCH" => Searched(u) \subseteq Searched(t)
    BY <2>1, <2>4 DEF Searched
  <2>7. Clean(n, u)
    BY <2>3, <2>4, <2>5 DEF Clean, GoodTable, IsTable
  <2>8. e.flag # "IN_SEARCH" \/ d \in Searched(t) => Extends(n, u, t)
    BY <2>4, <2>6, <2>7 DEF Extends
  <2> QED
    BY <2>1, <2>2, <2>4, <2>6, <2>7, <2>8
<1> QED
  BY <1>1, <1>2

LEMMA AddOK ==
    ASSUME NEW n, NEW t, Clean(n, t), NEW d \in Addr, NEW e, GoodEntry(n, e), Lasts(e)
    PROVE  LET u == AddRoute(t, d, e)
           IN  /\ Clean(n, u) /\ d \in DOMAIN u
               /\ Searched(u) \subseteq Searched(t) \cup {d}
               /\ e.flag # "IN_SEARCH" => Extends(n, u, t)
               /\ d \notin DOMAIN t =>
                    u[d].flag = e.flag /\ u[d].iface = e.iface /\ u[d].nextHop = e.nextHop
               /\ \A x \in DOMAIN t : u[x].iface = t[x].iface
<1> DEFINE p == Purge(t)
           r == ResetRreqCnt(e)
           u == [ x \in DOMAIN p \cup {d} |-> IF x = d THEN r ELSE p[x] ]
<1>1. Clean(n, p) /\ DOMAIN p = DOMAIN t /\ Extends(n, p, t)
  BY PurgeClean DEF Clean
<1>1a. \A x \in DOMAIN p : p[x].iface = t[x].iface
  BY PurgedEntry DEF Clean
<1>2. CASE d \in DOMAIN p
  <2>1. AddRoute(t, d, e) = p
    BY <1>2 DEF AddRoute
  <2> QED
    BY <1>1, <1>1a, <1>2, <2>1 DEF Extends
<1>3. CASE d \notin DOMAIN p
  <2>1. /\ GoodEntry(n, r) /\ Lasts(r) /\ r.flag = e.flag /\ r.iface = e.iface
        /\ r.nextHop = e.nextHop
    BY ResetEntry
  <2>2. AddRoute(t, d, e) = u
    BY <1>3 DEF AddRoute
  <2> HIDE DEF r, p
  <2>3. p \in [DOMAIN p -> Entry] /\ DOMAIN p \subseteq Addr /\ r \in Entry
    BY <1>1, <2>1 DEF Clean, GoodTable, IsTable, GoodEntry
  <2>4. /\ DOMAIN u = DOMAIN p \cup {d} /\ u[d] = r /\ u \in [DOMAIN p \cup {d} -> Entry]
        /\ \A x \in DOMAIN p : x # d /\ u[x] = p[x]
    BY <1>3, <2>3
  <2> HIDE DEF u
  <2>5. \A x \in DOMAIN u : GoodEntry(n, u[x]) /\ Lasts(u[x])
    BY <1>1, <2>1, <2>4 DEF Clean, GoodTable
  <2>6. /\ Searched(u) \subseteq Searched(p) \cup {d}
        /\ e.flag # "IN_SEARCH" => Searched(u) \subseteq Searched(p)
    BY <2>1, <2>4 DEF Searched
  <2>7. Clean(n, u)
    BY <2>3, <2>4, <2>5 DEF Clean, GoodTable, IsTable
  <2>8. Searched(u) \subseteq Searched(t) \cup {d} /\ (e.flag # "IN_SEARCH" => Extends(n, u, t))
    BY <1>1, <2>4, <2>6, <2>7 DEF Extends
  <2> QED
    BY <1>1, <1>1a, <2>1, <2>2, <2>4, <2>7, <2>8
<1> QED
  BY <1>2, <1>3

-----------------------------------------------------------------------------
(* What the handlers do to a table *)

LEMMA Times ==
    /\ ActiveRouteTimeout \in Int /\ MyRouteTimeout \in Int /\ PathDiscoveryTime \in Int
    /\ HelloLifetime \in Int /\ NetTraversalTime \in Int /\ NodeTraversalTime \in Int
  BY TimeAssumption

LEMMA LifeTimeOK ==
    ASSUME NEW n, NEW t, GoodTable(n, t), NEW a
    PROVE  Extends(n, UpdateRouteLifeTime(t, a, ActiveRouteTimeout), Purge(t))
<1> DEFINE p == Purge(t)
           l == Max({ActiveRouteTimeout, p[a].lifeTime})
           e == [p[a] EXCEPT !.reqCount = 0, !.lifeTime = l]
<1>1. Clean(n, p) /\ Extends(n, p, p)
  BY PurgeClean DEF Extends
<1>2. CASE HasValidRoute(t, a)
  <2>1. a \in DOMAIN p /\ p[a].flag = "VALID"
    BY <1>2 DEF HasValidRoute, HasRoute
  <2>2. GoodEntry(n, p[a]) /\ Lasts(p[a]) /\ p[a].lifeTime \in Int
    BY <1>1, <2>1 DEF Clean, GoodTable, GoodEntry, Entry
  <2>3. l \in Int /\ l >= p[a].lifeTime
    BY <2>2, MaxTwo, Times
  <2>4. GoodEntry(n, e) /\ Lasts(e) /\ e.flag = "VALID"
    <3> HIDE DEF p, l
    <3> QED
      BY <2>1, <2>2, <2>3, UsedEntry
  <2>5. UpdateRouteLifeTime(t, a, ActiveRouteTimeout) = Update(p, a, e)
    BY <1>2 DEF UpdateRouteLifeTime
  <2> HIDE DEF p, e
  <2>6. Extends(n, Update(p, a, e), p)
    BY <1>1, <2>4, UpdateOK
  <2> QED
    BY <2>5, <2>6 DEF p
<1>3. CASE ~HasValidRoute(t, a)
  BY <1>1, <1>3 DEF UpdateRouteLifeTime
<1> QED
  BY <1>2, <1>3

\* The same on top of a table that is already clean.
LEMMA LifeTimeExtends ==
    ASSUME NEW n, NEW t, NEW u, Extends(n, u, t), NEW a
    PROVE  Extends(n, UpdateRouteLifeTime(u, a, ActiveRouteTimeout), t)
<1>1. Clean(n, u) /\ GoodTable(n, u)
  BY DEF Extends, Clean
<1>2. Extends(n, Purge(u), u)
  BY <1>1, PurgeClean
<1> QED
  BY <1>1, <1>2, LifeTimeOK, ExtendsTrans

LEMMA NeighborOK ==
    ASSUME NEW n, NEW t, GoodTable(n, t), NEW a \in Near(n)
    PROVE  LET u == UpdateRouteToNeighbor(t, a)
           IN  Extends(n, u, Purge(t)) /\ a \in DOMAIN u /\ u[a].iface = Wlan
<1> DEFINE p == Purge(t)
           u == UpdateRouteToNeighbor(t, a)
           e(l) == RoutingTableEntry(FALSE, 0, Wlan, 1, a, l)
           l2 == Max({ActiveRouteTimeout, p[a].lifeTime})
<1>1. Clean(n, p) /\ Extends(n, p, p)
  BY PurgeClean DEF Extends
<1>1a. a \in Addr
  BY NearAddr
<1>2. \A l \in Int : GoodEntry(n, e(l)) /\ Lasts(e(l)) /\ e(l).flag = "VALID" /\ e(l).iface = Wlan
  <2> SUFFICES ASSUME NEW l \in Int
               PROVE  GoodEntry(n, e(l)) /\ Lasts(e(l)) /\ e(l).flag = "VALID" /\ e(l).iface = Wlan
    OBVIOUS
  <2>1. 0 \in Nat
    OBVIOUS
  <2> QED
    BY <2>1, FreshEntry
<1> HIDE DEF e
<1>3. CASE a \notin DOMAIN p
  <2>1. u = AddRoute(p, a, e(ActiveRouteTimeout))
    BY <1>3 DEF UpdateRouteToNeighbor, e
  <2> DEFINE x == e(ActiveRouteTimeout)
  <2>2. GoodEntry(n, x) /\ Lasts(x) /\ x.flag = "VALID" /\ x.iface = Wlan
    BY <1>2, Times
  <2> HIDE DEF p, x
  <2>3. LET v == AddRoute(p, a, x) IN Extends(n, v, p) /\ a \in DOMAIN v /\ v[a].iface = Wlan
    BY <1>1, <1>1a, <1>3, <2>2, AddOK
  <2> QED
    BY <2>1, <2>3 DEF p, x
<1>4. CASE a \in DOMAIN p /\ p[a].validSeqNo /\ p[a].hops = 1 /\ p[a].iface = Wlan
  BY <1>1, <1>4 DEF UpdateRouteToNeighbor
<1>5. CASE a \in DOMAIN p /\ ~(p[a].validSeqNo /\ p[a].hops = 1 /\ p[a].iface = Wlan)
  <2>1. u = Update(p, a, e(l2))
    BY <1>5 DEF UpdateRouteToNeighbor, e
  <2>2. p[a].lifeTime \in Int
    BY <1>1, <1>5 DEF Clean, GoodTable, GoodEntry, Entry
  <2>3. l2 \in Int
    BY <2>2, MaxTwo, Times
  <2> DEFINE x == e(l2)
  <2>4. GoodEntry(n, x) /\ Lasts(x) /\ x.flag = "VALID" /\ x.iface = Wlan
    BY <1>2, <2>3
  <2> HIDE DEF p, x
  <2>5. LET v == Update(p, a, x) IN Extends(n, v, p) /\ a \in DOMAIN v /\ v[a].iface = Wlan
    BY <1>1, <1>5, <2>4, UpdateOK
  <2> QED
    BY <2>1, <2>5 DEF p, x
<1> QED
  BY <1>3, <1>4, <1>5

\* The ring of a search is at least one hop wide.
LEMMA RingOK ==
    ASSUME NEW n, NEW t, GoodTable(n, t), NEW d
    PROVE  SearchTtl(t, d) \in Nat /\ SearchTtl(t, d) >= 1
<1> DEFINE p == Purge(t)
           ring == p[d].hops + TtlIncrement
<1>1. CASE d \notin DOMAIN p
  BY <1>1, TtlAssumption DEF SearchTtl
<1>2. CASE d \in DOMAIN p
  <2>1. p[d].hops \in Nat /\ p[d].hops >= 1
    BY <1>2, PurgeClean DEF Clean, GoodTable, GoodEntry, Entry
  <2>2. ring \in Nat /\ ring >= 1 /\ NetDiameter \in Nat /\ NetDiameter >= 1
    BY <2>1, TtlAssumption
  <2>3. SearchTtl(t, d) \in {Min({ring, NetDiameter}), NetDiameter, ring}
    BY <1>2 DEF SearchTtl
  <2> HIDE DEF ring
  <2>4. Min({ring, NetDiameter}) \in {ring, NetDiameter}
    BY <2>2, MinTwo
  <2> QED
    BY <2>2, <2>3, <2>4
<1> QED
  BY <1>1, <1>2

\* A request puts the destination, and nothing else, into search.
LEMMA SendRequestTableOK ==
    ASSUME NEW n, NEW t, GoodTable(n, t), NEW d \in Addr
    PROVE  LET u == SendRequestTable(t, d)
           IN  GoodTable(n, u) /\ Searched(u) \subseteq Searched(t) \cup {d}
<1> DEFINE p == Purge(t)
           ttl == SearchTtl(t, d)
           old == IF d \in DOMAIN p THEN p[d]
                  ELSE RoutingTableEntry(FALSE, 0, NoIface, ttl, NoAddr, PathDiscoveryTime)
           counted == IF ttl = NetDiameter THEN IncrementRreqCnt(old) ELSE old
           new == [counted EXCEPT !.hops = ttl, !.flag = "IN_SEARCH",
                                  !.lifeTime = PathDiscoveryTime]
           u == SendRequestTable(t, d)
<1>1. Clean(n, p) /\ Searched(p) = Searched(t)
  BY PurgeClean
<1>2. ttl \in Nat /\ ttl >= 1
  BY RingOK
<1>3. PathDiscoveryTime \in Int
  BY TimeAssumption
<1>4. u = IF d \in DOMAIN p THEN Update(p, d, new) ELSE AddRoute(p, d, new)
  BY DEF SendRequestTable
<1> HIDE DEF ttl, p
<1>5. old \in Entry /\ (old.iface = Wlan => old.nextHop \in Near(n))
      /\ old.precursors \subseteq Near(n)
  <2>1. CASE d \in DOMAIN p
    BY <1>1, <2>1 DEF Clean, GoodTable, GoodEntry
  <2>2. CASE d \notin DOMAIN p
    <3>1. old = RoutingTableEntry(FALSE, 0, NoIface, ttl, NoAddr, PathDiscoveryTime)
      BY <2>2
    <3>2. 0 \in 0 .. RreqCntMod - 1 /\ NoIface # Wlan
      BY RreqCntModAssumption, NoAddrAssumption, WlanAssumption
    <3> HIDE DEF old
    <3> QED
      BY <1>2, <1>3, <3>1, <3>2 DEF RoutingTableEntry, Entry, RouteFlags
  <2> QED
    BY <2>1, <2>2
<1> HIDE DEF old
<1>6. counted \in Entry /\ counted.iface = old.iface /\ counted.nextHop = old.nextHop
      /\ counted.precursors = old.precursors
  <2> DEFINE c == (old.reqCount + 1) % RreqCntMod
  <2>1. c \in 0 .. RreqCntMod - 1
    BY <1>5, RreqCntModAssumption DEF Entry
  <2>2. counted \in {old, [old EXCEPT !.reqCount = c]}
    BY DEF IncrementRreqCnt
  <2> HIDE DEF c, counted
  <2> QED
    BY <1>5, <2>1, <2>2 DEF Entry
<1> HIDE DEF counted
<1>7. new \in Entry /\ new.hops = ttl /\ new.flag = "IN_SEARCH"
      /\ new.iface = counted.iface /\ new.nextHop = counted.nextHop
      /\ new.precursors = counted.precursors
  BY <1>2, <1>3, <1>6 DEF Entry, RouteFlags
<1> HIDE DEF new
<1>8. GoodEntry(n, new) /\ Lasts(new)
  BY <1>2, <1>5, <1>6, <1>7 DEF GoodEntry, Lasts
<1> HIDE DEF u
<1>9. Clean(n, u) /\ Searched(u) \subseteq Searched(p) \cup {d}
  <2>1. CASE d \in DOMAIN p
    BY <1>1, <1>4, <1>8, <2>1, UpdateOK
  <2>2. CASE d \notin DOMAIN p
    BY <1>1, <1>4, <1>8, <2>2, AddOK
  <2> QED
    BY <2>1, <2>2
<1> QED
  BY <1>1, <1>9 DEF Clean, u

LEMMA ReverseRouteOK ==
    ASSUME NEW n, NEW t, GoodTable(n, t), NEW src \in Near(n), NEW m, m.origin \in Addr,
           m.originSeqno \in Nat, m.hopCount \in Nat, m.hopCount >= 1
    PROVE  LET u == ReverseRoute(t, src, m)
           IN  Extends(n, u, Purge(t)) /\ m.origin \in DOMAIN u /\ u[m.origin].iface = Wlan
<1> DEFINE p == Purge(t)
           o == m.origin
           left == 2 * NetTraversalTime - 2 * m.hopCount * NodeTraversalTime
           u == ReverseRoute(t, src, m)
<1>0. src \in Addr
  BY NearAddr
<1>1. Clean(n, p)
  BY PurgeClean
<1>2. left \in Int
  <2>1. NodeTraversalTime \in Int /\ NetTraversalTime \in Int /\ m.hopCount \in Int
    BY Times
  <2>2. 2 * m.hopCount * NodeTraversalTime \in Int
    BY <2>1
  <2> QED
    BY <2>1, <2>2
<1>3. CASE o \notin DOMAIN p
  <2> DEFINE e == RoutingTableEntry(TRUE, m.originSeqno, Wlan, m.hopCount, src, left)
  <2>1. u = AddRoute(p, o, e)
    BY <1>3 DEF ReverseRoute
  <2>2. GoodEntry(n, e) /\ Lasts(e) /\ e.flag = "VALID" /\ e.iface = Wlan
    <3> DEFINE q == m.originSeqno
               h == m.hopCount
    <3>1. q \in Nat /\ h \in Nat /\ h >= 1 /\ left \in Int
      BY <1>2
    <3> HIDE DEF q, h, left
    <3>2. LET f == RoutingTableEntry(TRUE, q, Wlan, h, src, left)
          IN  GoodEntry(n, f) /\ Lasts(f) /\ f.flag = "VALID" /\ f.iface = Wlan
      BY <3>1, KnownEntry
    <3> QED
      BY <3>2 DEF q, h
  <2> HIDE DEF p, e
  <2>3. LET w == AddRoute(p, o, e) IN Extends(n, w, p) /\ o \in DOMAIN w /\ w[o].iface = Wlan
    BY <1>1, <1>3, <2>2, AddOK
  <2> QED
    BY <2>1, <2>3 DEF p
<1>4. CASE o \in DOMAIN p
  <2> DEFINE x == IF p[o].validSeqNo /\ Difference(m.originSeqno, p[o].seqNo) <= 0
                  THEN p[o].seqNo ELSE m.originSeqno
             l == Max({left, p[o].lifeTime})
             e == [p[o] EXCEPT !.seqNo = x, !.validSeqNo = TRUE, !.nextHop = src,
                               !.iface = Wlan, !.hops = m.hopCount, !.lifeTime = l]
  <2>1. u = Update(p, o, e)
    BY <1>4 DEF ReverseRoute
  <2>2. GoodEntry(n, p[o]) /\ Lasts(p[o]) /\ p[o].seqNo \in Nat /\ p[o].lifeTime \in Int
    BY <1>1, <1>4 DEF Clean, GoodTable, GoodEntry, Entry
  <2> HIDE DEF left
  <2>3. x \in Nat /\ l \in Int /\ l >= p[o].lifeTime
    BY <1>2, <2>2, MaxTwo
  <2>4. p[o].flag = "IN_SEARCH" => o \in Searched(p)
    BY <1>4 DEF Searched
  <2>4a. e = [p[o] EXCEPT !.seqNo = x, !.validSeqNo = TRUE, !.nextHop = src,
                          !.iface = Wlan, !.hops = m.hopCount, !.lifeTime = l]
    OBVIOUS
  <2> HIDE DEF x, l, p, e
  <2>5. GoodEntry(n, e) /\ Lasts(e) /\ e.flag = p[o].flag /\ e.iface = Wlan
    <3>1. e \in Entry
      BY <1>0, <2>2, <2>3, <2>4a, WlanAssumption DEF GoodEntry, Entry
    <3>2. /\ e.flag = p[o].flag /\ e.iface = Wlan /\ e.nextHop = src /\ e.hops = m.hopCount
          /\ e.lifeTime = l /\ e.precursors = p[o].precursors
      BY <2>2, <2>4a DEF GoodEntry, Entry
    <3>3. Lasts(e)
      BY <2>2, <2>3, <3>2 DEF Lasts
    <3> QED
      BY <2>2, <3>1, <3>2, <3>3 DEF GoodEntry
  <2>6. LET w == Update(p, o, e) IN Extends(n, w, p) /\ o \in DOMAIN w /\ w[o].iface = Wlan
    BY <1>1, <1>4, <2>4, <2>5, UpdateOK
  <2> QED
    BY <2>1, <2>6 DEF p
<1> QED
  BY <1>3, <1>4

LEMMA NeighborRouteOK ==
    ASSUME NEW n, NEW t, Clean(n, t), NEW src \in Near(n), NEW m, m.originSeqno \in Nat
    PROVE  LET u == NeighborRoute(t, src, m)
           IN  Extends(n, u, t) /\ \A d \in DOMAIN t : t[d].iface = Wlan => u[d].iface = Wlan
<1> DEFINE p == Purge(t)
           u == NeighborRoute(t, src, m)
<1>0. src \in Addr
  BY NearAddr
<1>1. Clean(n, p) /\ DOMAIN p = DOMAIN t /\ Extends(n, p, t)
  BY PurgeClean DEF Clean
<1>2. \A d \in DOMAIN p : p[d].iface = t[d].iface
  BY PurgedEntry DEF Clean
<1>3. ActiveRouteTimeout \in Int /\ FALSE \in BOOLEAN /\ 1 \in Nat
  BY Times
<1>4. CASE src \notin DOMAIN p
  <2> DEFINE e == RoutingTableEntry(FALSE, m.originSeqno, Wlan, 1, src, ActiveRouteTimeout)
  <2>1. u = AddRoute(p, src, e)
    BY <1>4 DEF NeighborRoute
  <2>2. GoodEntry(n, e) /\ Lasts(e) /\ e.flag = "VALID"
    BY <1>3, FreshEntry
  <2> HIDE DEF p, e
  <2>3. LET w == AddRoute(p, src, e)
        IN  Extends(n, w, p) /\ \A d \in DOMAIN p : w[d].iface = p[d].iface
    BY <1>0, <1>1, <2>2, AddOK
  <2>4. Extends(n, AddRoute(p, src, e), t)
    BY <1>1, <2>3, ExtendsTrans
  <2> QED
    BY <1>1, <1>2, <2>1, <2>3, <2>4
<1>5. CASE src \in DOMAIN p
  <2> DEFINE e == [p[src] EXCEPT !.lifeTime = ActiveRouteTimeout, !.validSeqNo = FALSE,
                                 !.seqNo = m.originSeqno, !.flag = "VALID",
                                 !.iface = Wlan, !.hops = 1, !.nextHop = src]
  <2>1. u = Update(p, src, e)
    BY <1>5 DEF NeighborRoute
  <2>2. GoodEntry(n, p[src])
    BY <1>1, <1>5 DEF Clean, GoodTable
  <2>2a. e = [p[src] EXCEPT !.lifeTime = ActiveRouteTimeout, !.validSeqNo = FALSE,
                            !.seqNo = m.originSeqno, !.flag = "VALID",
                            !.iface = Wlan, !.hops = 1, !.nextHop = src]
    OBVIOUS
  <2> HIDE DEF p, e
  <2>3. GoodEntry(n, e) /\ Lasts(e) /\ e.flag = "VALID" /\ e.iface = Wlan
    <3>1. e \in Entry
      BY <1>0, <1>3, <2>2, <2>2a, WlanAssumption DEF GoodEntry, Entry, RouteFlags
    <3>2. e.flag = "VALID" /\ e.iface = Wlan /\ e.nextHop = src /\ e.hops = 1
          /\ e.precursors = p[src].precursors
      BY <2>2, <2>2a DEF GoodEntry, Entry
    <3> QED
      BY <2>2, <3>1, <3>2 DEF GoodEntry, Lasts
  <2>4. LET w == Update(p, src, e)
        IN  Extends(n, w, p) /\ w[src].iface = Wlan /\ \A d \in DOMAIN p : d # src => w[d] = p[d]
    BY <1>1, <1>5, <2>3, UpdateOK
  <2>5. Extends(n, Update(p, src, e), t)
    BY <1>1, <2>4, ExtendsTrans
  <2> QED
    BY <1>1, <1>2, <2>1, <2>4, <2>5
<1> QED
  BY <1>4, <1>5

\* After a RREQ there is an entry for its originator, with an interface.
LEMMA RecvRequestTableOK ==
    ASSUME NEW n, NEW t, GoodTable(n, t), NEW src \in Near(n), NEW m, m.origin \in Addr,
           m.originSeqno \in Nat, m.hopCount \in Nat, m.hopCount >= 1
    PROVE  LET u == RecvRequestTable(t, src, m)
           IN  Extends(n, u, Purge(t)) /\ m.origin \in DOMAIN u /\ u[m.origin].iface = Wlan
<1> DEFINE r == ReverseRoute(t, src, m)
           u == NeighborRoute(r, src, m)
<1>1. Extends(n, r, Purge(t)) /\ m.origin \in DOMAIN r /\ r[m.origin].iface = Wlan
  BY ReverseRouteOK
<1> HIDE DEF r
<1>2. Extends(n, u, r) /\ \A d \in DOMAIN r : r[d].iface = Wlan => u[d].iface = Wlan
  BY <1>1, NeighborRouteOK DEF Extends
<1>3. RecvRequestTable(t, src, m) = u
  BY DEF RecvRequestTable, r
<1> HIDE DEF u
<1>4. Extends(n, u, Purge(t))
  BY <1>1, <1>2, ExtendsTrans
<1> QED
  BY <1>1, <1>2, <1>3, <1>4 DEF Extends

\* A precursor is added to an entry of the table.
LEMMA PrecursorOK ==
    ASSUME NEW n, NEW t, Clean(n, t), NEW d \in DOMAIN t, NEW a \in Near(n)
    PROVE  LET u == Update(t, d, InsertPrecursor(t[d], a))
           IN  Extends(n, u, t) /\ \A x \in DOMAIN t : x # d => u[x] = t[x]
<1> DEFINE e == InsertPrecursor(t[d], a)
<1>1. GoodEntry(n, t[d]) /\ Lasts(t[d]) /\ (t[d].flag = "IN_SEARCH" => d \in Searched(t))
  BY DEF Clean, GoodTable, Searched
<1>2. GoodEntry(n, e) /\ Lasts(e) /\ e.flag = t[d].flag
  BY <1>1, PrecursorEntry
<1> HIDE DEF e
<1>3. LET u == Update(t, d, e) IN Extends(n, u, t) /\ \A x \in DOMAIN t : x # d => u[x] = t[x]
  BY <1>1, <1>2, UpdateOK
<1> QED
  BY <1>3 DEF e

LEMMA IntermediateTableOK ==
    ASSUME NEW n, NEW t, Clean(n, t), NEW m, m.origin \in DOMAIN t, t[m.origin].iface = Wlan,
           HasValidRoute(t, m.dst)
    PROVE  Extends(n, IntermediateTable(t, m), t)
<1> DEFINE p == Purge(t)
           toDst == p[m.dst]
           toOrigin == p[m.origin]
           u == Update(p, m.dst, InsertPrecursor(toDst, toOrigin.nextHop))
           e == InsertPrecursor(toOrigin, toDst.nextHop)
<1>1. Clean(n, p) /\ DOMAIN p = DOMAIN t /\ Extends(n, p, t) /\ GoodTable(n, t)
  BY PurgeClean DEF Clean
<1>2. m.dst \in DOMAIN p /\ toDst.nextHop \in Near(n) /\ toDst.flag = "VALID"
  BY <1>1, ValidRoute DEF HasValidRoute
<1>3. toOrigin.iface = Wlan /\ GoodEntry(n, toOrigin) /\ Lasts(toOrigin)
  BY <1>1, PurgedEntry
<1>4. toOrigin.nextHop \in Near(n)
  BY <1>3 DEF GoodEntry
<1>5. IntermediateTable(t, m) = Update(u, m.origin, e)
  BY DEF IntermediateTable
<1>6. GoodEntry(n, e) /\ Lasts(e) /\ e.flag = toOrigin.flag
  BY <1>2, <1>3, PrecursorEntry
<1> HIDE DEF p, e
<1>7. Extends(n, u, p) /\ \A x \in DOMAIN p : x # m.dst => u[x] = p[x]
  BY <1>1, <1>2, <1>4, PrecursorOK
<1> HIDE DEF u
<1>8. e.flag # "IN_SEARCH" \/ m.origin \in Searched(u)
  <2>1. CASE m.origin = m.dst
    BY <1>2, <1>6, <2>1
  <2>2. CASE m.origin # m.dst
    BY <1>1, <1>6, <1>7, <2>2 DEF Searched, Extends
  <2> QED
    BY <2>1, <2>2
<1>9. Extends(n, Update(u, m.origin, e), u)
  BY <1>6, <1>7, <1>8, UpdateOK DEF Extends
<1>10. Extends(n, Update(u, m.origin, e), p)
  BY <1>7, <1>9, ExtendsTrans
<1> QED
  BY <1>1, <1>5, <1>10, ExtendsTrans

\* What a RREP stores.
LEMMA ReplyEntryOK ==
    ASSUME NEW n, NEW a \in Near(n), NEW m, m.dstSeqno \in Nat, m.hopCount \in Nat, m.hopCount >= 1,
           m.lifetime \in Int
    PROVE  LET e == ReplyEntry(a, m) IN GoodEntry(n, e) /\ Lasts(e) /\ e.flag = "VALID"
  BY KnownEntry DEF ReplyEntry

LEMMA ForwardRouteOK ==
    ASSUME NEW n, NEW t, GoodTable(n, t), NEW a \in Near(n),
           NEW m, m.dst \in Addr, m.dstSeqno \in Nat,
           m.hopCount \in Nat, m.hopCount >= 1, m.lifetime \in Int
    PROVE  LET u == ForwardRoute(t, a, m) IN Extends(n, u, Purge(t)) /\ m.dst \in DOMAIN u
<1> DEFINE p == Purge(t)
           e == ReplyEntry(a, m)
           u == ForwardRoute(t, a, m)
<1>1. Clean(n, p) /\ Extends(n, p, p)
  BY PurgeClean DEF Extends
<1>2. GoodEntry(n, e) /\ Lasts(e) /\ e.flag = "VALID"
  BY ReplyEntryOK
<1>3. \/ m.dst \notin DOMAIN p /\ u = AddRoute(p, m.dst, e)
      \/ m.dst \in DOMAIN p /\ u \in {p, Update(p, m.dst, e)}
  BY DEF ForwardRoute
<1> HIDE DEF p, e, u
<1>4. LET w == AddRoute(p, m.dst, e) IN Extends(n, w, p) /\ m.dst \in DOMAIN w
  BY <1>1, <1>2, AddOK
<1>5. LET w == Update(p, m.dst, e) IN Extends(n, w, p)
  BY <1>1, <1>2, UpdateOK
<1>6. Extends(n, u, p) /\ m.dst \in DOMAIN u
  BY <1>1, <1>3, <1>4, <1>5 DEF Extends
<1> QED
  BY <1>6 DEF p, u

\* The reply ends the search.
LEMMA AcceptOK ==
    ASSUME NEW n, NEW t, Clean(n, t), NEW a \in Near(n), NEW m, m.dst \in Addr, m.dstSeqno \in Nat,
           m.hopCount \in Nat, m.hopCount >= 1, m.lifetime \in Int
    PROVE  LET u == AcceptAtOrigin(t, a, m)
           IN  Extends(n, u, t) /\ m.dst \notin Searched(u)
<1> DEFINE e == ReplyEntry(a, m)
           u == Update(t, m.dst, e)
<1>1. GoodEntry(n, e) /\ Lasts(e) /\ e.flag = "VALID"
  BY ReplyEntryOK
<1> HIDE DEF e
<1>2. /\ Extends(n, u, t) /\ DOMAIN u = DOMAIN t
      /\ m.dst \in DOMAIN t => u[m.dst].flag = "VALID"
  BY <1>1, UpdateOK
<1> HIDE DEF u
<1>3. m.dst \notin Searched(u)
  BY <1>2 DEF Searched
<1> QED
  BY <1>2, <1>3 DEF AcceptAtOrigin, u, e

\* A relay keeps the route back, and it has a next hop.
LEMMA RelayTableOK ==
    ASSUME NEW n, NEW t, Clean(n, t), NEW m, HasReversePath(t, m)
    PROVE  LET u == RelayTable(t, m)
           IN  Extends(n, u, t) /\ u[m.origin].nextHop \in Near(n)
<1> DEFINE p == Purge(t)
           l == Max({ActiveRouteTimeout, p[m.origin].lifeTime})
           toOrigin == [p[m.origin] EXCEPT !.lifeTime = l]
           back == toOrigin.nextHop
           t1 == Update(p, m.origin, toOrigin)
           ahead == t1[m.dst].nextHop
           t2 == Update(t1, m.dst, InsertPrecursor(t1[m.dst], back))
           t3 == IF ahead \in DOMAIN t2
                 THEN Update(t2, ahead, InsertPrecursor(t2[ahead], back)) ELSE t2
           e == InsertPrecursor(toOrigin, ahead)
           t4 == Update(t3, m.origin, e)
           t5 == IF back \in DOMAIN t4
                 THEN Update(t4, back, InsertPrecursor(t4[back], ahead)) ELSE t4
           u == RelayTable(t, m)
<1>1. Clean(n, p) /\ DOMAIN p = DOMAIN t /\ Extends(n, p, t) /\ Searched(p) = Searched(t)
  BY PurgeClean DEF Clean
<1>2. m.origin \in DOMAIN p /\ p[m.origin].flag # "IN_SEARCH"
  BY DEF HasReversePath, HasRoute
<1>3. GoodEntry(n, p[m.origin]) /\ Lasts(p[m.origin]) /\ p[m.origin].lifeTime \in Int
  BY <1>1, <1>2 DEF Clean, GoodTable, GoodEntry, Entry
<1>4. l \in Int /\ l >= p[m.origin].lifeTime
  BY <1>3, MaxTwo, Times
<1>5. u = IF HasValidRoute(t1, m.dst) THEN t5 ELSE t1
  BY DEF RelayTable
<1> HIDE DEF p, l
<1>6. GoodEntry(n, toOrigin) /\ Lasts(toOrigin) /\ toOrigin.flag # "IN_SEARCH"
  BY <1>2, <1>3, <1>4, RefreshedEntry
<1> HIDE DEF toOrigin
<1>7. back \in Near(n)
  BY <1>6 DEF GoodEntry
<1>8. Extends(n, t1, p)
  BY <1>1, <1>6, UpdateOK
<1> HIDE DEF t1, back
<1>9. ASSUME HasValidRoute(t1, m.dst) PROVE Extends(n, t5, t1)
  <2>1. m.dst \in DOMAIN t1 /\ ahead \in Near(n)
    BY <1>8, <1>9, ValidRoute DEF Extends, Clean
  <2> HIDE DEF ahead
  <2>2. Extends(n, t2, t1)
    BY <1>7, <1>8, <2>1, PrecursorOK DEF Extends
  <2> HIDE DEF t2
  <2>3. Extends(n, t3, t2)
    <3>1. CASE ahead \in DOMAIN t2
      BY <1>7, <2>1, <2>2, <3>1, PrecursorOK DEF Extends
    <3>2. CASE ahead \notin DOMAIN t2
      BY <2>2, <3>2 DEF Extends
    <3> QED
      BY <3>1, <3>2
  <2> HIDE DEF t3
  <2>4. GoodEntry(n, e) /\ Lasts(e) /\ e.flag # "IN_SEARCH"
    BY <1>6, <2>1, PrecursorEntry
  <2> HIDE DEF e
  <2>5. Extends(n, t4, t3)
    BY <2>3, <2>4, UpdateOK DEF Extends
  <2> HIDE DEF t4
  <2>6. Extends(n, t5, t4)
    <3>1. CASE back \in DOMAIN t4
      BY <2>1, <2>5, <3>1, PrecursorOK DEF Extends
    <3>2. CASE back \notin DOMAIN t4
      BY <2>5, <3>2 DEF Extends
    <3> QED
      BY <3>1, <3>2
  <2> HIDE DEF t5
  <2> QED
    BY <2>2, <2>3, <2>5, <2>6 DEF Extends
<1> HIDE DEF t5, u
<1>10. Extends(n, u, p)
  BY <1>5, <1>8, <1>9, ExtendsTrans
<1>11. Extends(n, u, t)
  BY <1>1, <1>10, ExtendsTrans
<1>12. m.origin \in DOMAIN u /\ m.origin \notin Searched(u)
  BY <1>2, <1>10 DEF Extends, Searched
<1>13. GoodEntry(n, u[m.origin]) /\ u[m.origin].flag # "IN_SEARCH"
  BY <1>11, <1>12 DEF Extends, Clean, GoodTable, Searched
<1> QED
  BY <1>11, <1>13 DEF GoodEntry, u

LEMMA ReplyAckTableOK ==
    ASSUME NEW n, NEW t, Clean(n, t), NEW a \in DOMAIN t, t[a].iface = Wlan
    PROVE  Extends(n, RecvReplyAckTable(t, a), t)
<1> DEFINE p == Purge(t)
           e == [p[a] EXCEPT !.flag = "VALID"]
<1>1. Clean(n, p) /\ DOMAIN p = DOMAIN t /\ Extends(n, p, t)
  BY PurgeClean DEF Clean
<1>2. GoodEntry(n, p[a]) /\ Lasts(p[a]) /\ p[a].iface = Wlan
  BY <1>1, PurgedEntry DEF Clean
<1>3. RecvReplyAckTable(t, a) = Update(p, a, e)
  BY <1>1 DEF RecvReplyAckTable
<1> HIDE DEF p
<1>4. GoodEntry(n, e) /\ Lasts(e) /\ e.flag = "VALID"
  BY <1>2, ConfirmedEntry
<1> HIDE DEF e
<1>5. Extends(n, Update(p, a, e), p)
  BY <1>1, <1>4, UpdateOK
<1> QED
  BY <1>1, <1>3, <1>5, ExtendsTrans

LEMMA HelloTableOK ==
    ASSUME NEW n, NEW t, GoodTable(n, t), NEW m, m.dst \in Near(n),
           m.dstSeqno \in Nat, m.lifetime \in Int
    PROVE  Extends(n, ProcessHelloTable(t, m), Purge(t))
<1> DEFINE p == Purge(t)
           a == m.dst
<1>1. Clean(n, p) /\ a \in Addr
  BY PurgeClean, NearAddr
<1>2. HelloLifetime \in Int /\ TRUE \in BOOLEAN /\ 1 \in Nat /\ 1 >= 1
  BY Times
<1>3. CASE a \notin DOMAIN p
  <2> DEFINE e == RoutingTableEntry(TRUE, m.dstSeqno, Wlan, 1, a, m.lifetime)
  <2>1. ProcessHelloTable(t, m) = AddRoute(p, a, e)
    BY <1>3 DEF ProcessHelloTable
  <2>2. GoodEntry(n, e) /\ Lasts(e) /\ e.flag = "VALID"
    <3> DEFINE q == m.dstSeqno
               l == m.lifetime
               h == 1
    <3>1. q \in Nat /\ l \in Int /\ a \in Near(n) /\ h \in Nat /\ h >= 1
      OBVIOUS
    <3> HIDE DEF q, l, a, h
    <3>2. LET f == RoutingTableEntry(TRUE, q, Wlan, h, a, l)
          IN  GoodEntry(n, f) /\ Lasts(f) /\ f.flag = "VALID"
      BY <3>1, KnownEntry
    <3> QED
      BY <3>2 DEF q, l, a, h
  <2> HIDE DEF p, e
  <2>3. Extends(n, AddRoute(p, a, e), p)
    BY <1>1, <2>2, AddOK
  <2> QED
    BY <2>1, <2>3 DEF p
<1>4. CASE a \in DOMAIN p
  <2> DEFINE l == Max({HelloLifetime, p[a].lifeTime})
             e == [p[a] EXCEPT !.lifeTime = l, !.seqNo = m.dstSeqno, !.validSeqNo = TRUE,
                               !.flag = "VALID", !.iface = Wlan, !.hops = 1, !.nextHop = a]
  <2>1. ProcessHelloTable(t, m) = Update(p, a, e)
    BY <1>4 DEF ProcessHelloTable
  <2>2. GoodEntry(n, p[a]) /\ p[a].lifeTime \in Int
    BY <1>1, <1>4 DEF Clean, GoodTable, GoodEntry, Entry
  <2>3. l \in Int
    BY <1>2, <2>2, MaxTwo
  <2>4. e = [p[a] EXCEPT !.lifeTime = l, !.seqNo = m.dstSeqno, !.validSeqNo = TRUE,
                         !.flag = "VALID", !.iface = Wlan, !.hops = 1, !.nextHop = a]
    OBVIOUS
  <2> HIDE DEF p, e, l
  <2>5. GoodEntry(n, e) /\ Lasts(e) /\ e.flag = "VALID"
    <3>1. e \in Entry
      BY <1>1, <1>2, <2>2, <2>3, <2>4, WlanAssumption DEF GoodEntry, Entry, RouteFlags
    <3>2. e.flag = "VALID" /\ e.iface = Wlan /\ e.nextHop = a /\ e.hops = 1
          /\ e.precursors = p[a].precursors
      BY <2>2, <2>4 DEF GoodEntry, Entry
    <3> QED
      BY <2>2, <3>1, <3>2 DEF GoodEntry, Lasts
  <2>6. Extends(n, Update(p, a, e), p)
    BY <1>1, <2>5, UpdateOK
  <2> QED
    BY <2>1, <2>6 DEF p
<1> QED
  BY <1>3, <1>4

LEMMA InvalidateRoutesOK ==
    ASSUME NEW n, NEW t, GoodTable(n, t), NEW dsts
    PROVE  Extends(n, InvalidateRoutesWithDst(t, dsts), Purge(t))
<1> DEFINE p == Purge(t)
           u == InvalidateRoutesWithDst(t, dsts)
<1>1. Clean(n, p)
  BY PurgeClean
<1>2. DOMAIN u = DOMAIN p /\ u = [ d \in DOMAIN u |-> u[d] ]
  BY DEF InvalidateRoutesWithDst
<1>2a. \A d \in DOMAIN p : u[d] = p[d] \/ (p[d].flag = "VALID" /\ u[d] = Invalidate(p[d]))
  BY DEF InvalidateRoutesWithDst
<1> HIDE DEF p, u
<1>3. ASSUME NEW d \in DOMAIN p
      PROVE  /\ GoodEntry(n, u[d]) /\ Lasts(u[d])
             /\ u[d].flag = "IN_SEARCH" => p[d].flag = "IN_SEARCH"
  <2>1. GoodEntry(n, p[d]) /\ Lasts(p[d])
    BY <1>1 DEF Clean, GoodTable
  <2>2. p[d].flag = "VALID" => /\ GoodEntry(n, Invalidate(p[d])) /\ Lasts(Invalidate(p[d]))
                               /\ Invalidate(p[d]).flag = "INVALID"
    BY <2>1, InvalidEntry
  <2>3. u[d] = p[d] \/ (p[d].flag = "VALID" /\ u[d] = Invalidate(p[d]))
    BY <1>2a
  <2> QED
    BY <2>1, <2>2, <2>3
<1>4. DOMAIN p \subseteq Addr
  BY <1>1 DEF Clean, GoodTable, IsTable
<1>5. IsTable(u)
  <2>1. \A d \in DOMAIN u : u[d] \in Entry
    BY <1>2, <1>3 DEF GoodEntry
  <2> QED
    BY <1>2, <1>4, <2>1 DEF IsTable
<1>6. Extends(n, u, p)
  BY <1>2, <1>3, <1>5 DEF Extends, Clean, GoodTable, Searched
<1> QED
  BY <1>6 DEF p, u

\* A search that is given up leaves nothing behind.
LEMMA DeleteRouteOK ==
    ASSUME NEW n, NEW t, GoodTable(n, t), NEW d
    PROVE  LET u == DeleteRoute(t, d)
           IN  GoodTable(n, u) /\ Searched(u) \subseteq Searched(t) \ {d}
<1> DEFINE p == Purge(t)
           u == DeleteRoute(t, d)
<1>1. Clean(n, p) /\ Searched(p) = Searched(t)
  BY PurgeClean
<1>2. u = [ x \in DOMAIN p \ {d} |-> p[x] ]
  BY DEF DeleteRoute, Restrict
<1> HIDE DEF p, u
<1>3. DOMAIN u = DOMAIN p \ {d} /\ \A x \in DOMAIN u : u[x] = p[x]
  BY <1>2
<1>4. IsTable(u)
  <2>1. DOMAIN p \subseteq Addr /\ \A x \in DOMAIN u : u[x] \in Entry
    BY <1>1, <1>3 DEF Clean, GoodTable, GoodEntry, IsTable
  <2>2. u = [ x \in DOMAIN u |-> u[x] ]
    BY <1>2
  <2> QED
    BY <1>3, <2>1, <2>2 DEF IsTable
<1>5. GoodTable(n, u) /\ Searched(u) \subseteq Searched(p) \ {d}
  BY <1>1, <1>3, <1>4 DEF Clean, GoodTable, Searched
<1> QED
  BY <1>1, <1>5 DEF u

LEMMA DeliveryTableOK ==
    ASSUME NEW n, NEW t, GoodTable(n, t), NEW a
    PROVE  /\ Extends(n, DeliveryTable(t, a), Purge(t))
           /\ DeliveryNeighbors(t, a) \subseteq Addr
<1> DEFINE t1 == UpdateRouteLifeTime(t, a, ActiveRouteTimeout)
<1>1. Extends(n, t1, Purge(t))
  BY LifeTimeOK
<1>2. DeliveryTable(t, a) \in {t1, UpdateRouteLifeTime(t1, t1[a].nextHop, ActiveRouteTimeout)}
  BY DEF DeliveryTable
<1> HIDE DEF t1
<1>3. Extends(n, UpdateRouteLifeTime(t1, t1[a].nextHop, ActiveRouteTimeout), Purge(t))
  BY <1>1, LifeTimeExtends
<1>4. DeliveryNeighbors(t, a) \subseteq Addr
  BY ValidRoute, NearAddr DEF DeliveryNeighbors
<1> QED
  BY <1>1, <1>2, <1>3, <1>4

LEMMA ForwardingTableOK ==
    ASSUME NEW n, NEW t, GoodTable(n, t), NEW o, NEW d
    PROVE  /\ Extends(n, ForwardingTable(t, o, d), Purge(t))
           /\ PreviousHop(t, o) \in Addr \cup {NoAddr}
<1> DEFINE life(s, a) == UpdateRouteLifeTime(s, a, ActiveRouteTimeout)
           t1 == life(t, o)
           t2 == life(t1, d)
           t3 == life(t2, Purge(t)[d].nextHop)
           t4 == life(t3, PreviousHop(t, o))
<1>1. ForwardingTable(t, o, d) = t4
  BY DEF ForwardingTable
<1>2. Extends(n, t1, Purge(t))
  BY LifeTimeOK
<1> HIDE DEF t1
<1>3. Extends(n, t2, Purge(t))
  BY <1>2, LifeTimeExtends
<1> HIDE DEF t2
<1>4. Extends(n, t3, Purge(t))
  BY <1>3, LifeTimeExtends
<1> HIDE DEF t3
<1>5. Extends(n, t4, Purge(t))
  BY <1>4, LifeTimeExtends
<1>6. PreviousHop(t, o) \in Addr \cup {NoAddr}
  <2>1. CASE HasRoute(t, o)
    <3>1. GoodEntry(n, Purge(t)[o])
      BY <2>1, PurgedEntry DEF HasRoute
    <3> QED
      BY <2>1, <3>1 DEF PreviousHop, GoodEntry, Entry
  <2> QED
    BY <2>1 DEF PreviousHop
<1> QED
  BY <1>1, <1>5, <1>6

LEMMA AgeOK ==
    ASSUME NEW n, NEW t, GoodTable(n, t)
    PROVE  GoodTable(n, Age(t)) /\ Searched(Age(t)) = Searched(t)
<1> DEFINE u == Age(t)
<1>1. DOMAIN u = DOMAIN t /\ u = [ d \in DOMAIN u |-> u[d] ]
      /\ \A d \in DOMAIN t : u[d] = [t[d] EXCEPT !.lifeTime = Elapse(t[d].lifeTime)]
  BY DEF Age
<1> HIDE DEF u
<1>2. ASSUME NEW d \in DOMAIN t
      PROVE  GoodEntry(n, u[d]) /\ u[d].flag = t[d].flag
  <2> DEFINE l == Elapse(t[d].lifeTime)
  <2>1. GoodEntry(n, t[d]) /\ t[d] \in Entry
    BY DEF GoodTable, GoodEntry
  <2>2. l \in Int
    BY <2>1 DEF Elapse, Entry
  <2>3. u[d] = [t[d] EXCEPT !.lifeTime = l]
    BY <1>1
  <2> HIDE DEF l
  <2>4. u[d] \in Entry
    BY <2>1, <2>2, <2>3 DEF Entry
  <2>5. u[d].flag = t[d].flag /\ u[d].hops = t[d].hops /\ u[d].iface = t[d].iface
        /\ u[d].nextHop = t[d].nextHop /\ u[d].precursors = t[d].precursors
    BY <2>1, <2>3 DEF Entry
  <2> QED
    BY <2>1, <2>4, <2>5 DEF GoodEntry
<1>3. DOMAIN t \subseteq Addr
  BY DEF GoodTable, IsTable
<1>4. IsTable(u)
  <2>1. \A d \in DOMAIN u : u[d] \in Entry
    BY <1>1, <1>2 DEF GoodEntry
  <2> QED
    BY <1>1, <1>3, <2>1 DEF IsTable
<1>5. GoodTable(n, u) /\ Searched(u) = Searched(t)
  BY <1>1, <1>2, <1>4 DEF GoodTable, Searched
<1> QED
  BY <1>5 DEF u

-----------------------------------------------------------------------------
(* The types of messages and objects; S is the set of packets sent so far. *)

Rreq == { m \in [ type : {"RREQ"}, dst : Addr, dstSeqno : Nat, unknown : BOOLEAN, origin : Addr,
                  originSeqno : Nat, id : Nat, hopCount : Nat, gratuitous : BOOLEAN,
                  destinationOnly : BOOLEAN ] : m.dst # m.origin }
Rrep == [ type : {"RREP"}, hopCount : Nat, dst : Addr, dstSeqno : Nat, origin : Addr,
          lifetime : Int, ack : BOOLEAN ]
Unreachable == UNION { [D -> Nat] : D \in SUBSET Addr }
Rerr == [type : {"RERR"}, un : Unreachable]
RrepAck == [type : {"RREP_ACK"}]
Payload(S) == [type : {"DATA"}, packet : S]

Body(S) == Rreq \cup Rrep \cup Rerr \cup RrepAck \cup Payload(S)

\* What a node unicasts, and what n broadcasts.
Answer == { m \in Rrep : m.dst # m.origin } \cup Rerr \cup RrepAck
Flood(n) == Rreq \cup Rerr \cup { m \in Rrep : m.dst = n /\ m.origin = n }

\* Messages travel one hop: unicast to a neighbour, or broadcast, as every
\* request and every hello is; a hello is about its sender.
OneHop(x) ==
    /\ x.src # x.dst
    /\ x.body.type = "RREQ" => x.dst = Bcast
    /\ IsHello(x.body) => x.dst = Bcast /\ x.src = x.body.dst
    /\ x.body.type # "DATA" /\ x.dst # Bcast => x.dst \in Near(x.src)

IpPacket(S) ==
    { x \in [src : Addr, dst : Addr \cup {Bcast}, ttl : Int, body : Body(S)] : OneHop(x) }

\* Packets of n for RouteOutput, as such and in the queue.
Routed(n, S) == { x \in IpPacket(S) : x.src = n /\ x.dst \in Addr }
Held(n, S) == [uid : Routed(n, S), dst : Addr]
Item(n, S) == [uid : Routed(n, S), dst : Addr, expire : Int]

Frames(n, S) ==
    { g \in [via : {n}, to : Addr \cup {NoAddr}, ip : IpPacket(S)] :
        g.ip.dst = Bcast => g.ip.src = n }
Tables(n) == { t \in UNION { [D -> Entry] : D \in SUBSET Addr } : GoodTable(n, t) }
Ids == UNION { [D -> Int] : D \in SUBSET (Addr \X Nat) }

NodeState(n, S) ==
    [ up : BOOLEAN, htimer : BOOLEAN, table : Tables(n), queue : Seq(Item(n, S)),
      seqNo : Nat, requestId : Nat, rreqIdCache : Ids,
      rreqCount : 0 .. RreqRateLimit, rerrCount : 0 .. RerrRateLimit,
      retry : SUBSET (Addr \ {n}), deferred : { f \in [Addr -> Nat] : f[n] = 0 },
      nb : SUBSET (Addr \cup {NoAddr}),
      lo : Seq(Routed(n, S)), scheduled : SUBSET Routed(n, {}),
      out : SUBSET Frames(n, S), errors : SUBSET Held(n, S) ]

LEMMA TableType == \A n, t : t \in Tables(n) <=> GoodTable(n, t)
<1>1. ASSUME NEW n, NEW t, GoodTable(n, t) PROVE t \in UNION { [D -> Entry] : D \in SUBSET Addr }
  BY <1>1 DEF GoodTable, IsTable
<1> QED
  BY <1>1 DEF Tables

LEMMA BodyTypes ==
    ASSUME NEW S, NEW b \in Body(S)
    PROVE  /\ b.type = "RREQ" => b \in Rreq
           /\ b.type = "RREP" => b \in Rrep
           /\ b.type = "RERR" => b \in Rerr
           /\ b.type = "DATA" => b \in Payload(S) /\ b.packet \in S
<1>1. b \in Rreq => b.type = "RREQ"
  BY DEF Rreq
<1>2. b \in Rrep => b.type = "RREP"
  BY DEF Rrep
<1>3. b \in Rerr => b.type = "RERR"
  BY DEF Rerr
<1>4. b \in RrepAck => b.type = "RREP_ACK"
  BY DEF RrepAck
<1>5. b \in Payload(S) => b.type = "DATA" /\ b.packet \in S
  BY DEF Payload
<1> QED
  BY <1>1, <1>2, <1>3, <1>4, <1>5 DEF Body

LEMMA IpTypes ==
    ASSUME NEW S, NEW x \in IpPacket(S)
    PROVE  /\ x.src \in Addr /\ x.dst \in Addr \cup {Bcast} /\ x.ttl \in Int /\ x.body \in Body(S)
           /\ OneHop(x)
  BY DEF IpPacket

LEMMA RoutedTypes ==
    ASSUME NEW n, NEW S, NEW x \in Routed(n, S)
    PROVE  /\ x.dst \in Addr /\ x.dst # n /\ x.src = n /\ x.body \in Body(S) /\ x \in IpPacket(S)
           /\ Queued(x) \in Held(n, S)
  BY DEF IpPacket, Routed, Queued, Held, OneHop

\* Nobody is a neighbour of itself.
LEMMA NotNear == \A n : n \notin Near(n)
  BY NodeAssumption DEF Near

\* Building packets.
LEMMA AnswerMade ==
    ASSUME NEW S, NEW n \in Addr, NEW k \in Int, NEW b \in Answer, NEW d \in Near(n)
    PROVE  Ip(n, d, k, b) \in Routed(n, S)
<1> DEFINE x == Ip(n, d, k, b)
<1>1. x.src = n /\ x.dst = d /\ x.ttl = k /\ x.body = b
      /\ x \in [src : {n}, dst : {d}, ttl : {k}, body : {b}]
  BY DEF Ip
<1> HIDE DEF x
<1>2. d \in Addr /\ d # n /\ d # Bcast
  BY NearAddr, NotNear, NodeAssumption
<1>3. b.type # "RREQ" /\ ~IsHello(b) /\ b \in Body(S)
  BY DEF Answer, Rrep, Rerr, RrepAck, IsHello, Body
<1>4. x \in [src : Addr, dst : Addr \cup {Bcast}, ttl : Int, body : Body(S)]
  BY <1>1, <1>2, <1>3
<1>5. OneHop(x)
  BY <1>1, <1>2, <1>3 DEF OneHop
<1> QED
  BY <1>1, <1>2, <1>4, <1>5 DEF IpPacket, Routed, x

LEMMA FloodMade ==
    ASSUME NEW S, NEW n \in Addr, NEW k \in Int, NEW b \in Flood(n)
    PROVE  Ip(n, Bcast, k, b) \in IpPacket(S)
<1> DEFINE x == Ip(n, Bcast, k, b)
<1>1. x.src = n /\ x.dst = Bcast /\ x.ttl = k /\ x.body = b
      /\ x \in [src : {n}, dst : {Bcast}, ttl : {k}, body : {b}]
  BY DEF Ip
<1> HIDE DEF x
<1>2. Bcast # n
  BY NodeAssumption
<1>3. b \in Body(S) /\ (IsHello(b) => b.dst = n)
  BY DEF Flood, Rreq, Rrep, Rerr, IsHello, Body
<1>4. x \in [src : Addr, dst : Addr \cup {Bcast}, ttl : Int, body : Body(S)]
  BY <1>1, <1>3
<1>5. OneHop(x)
  BY <1>1, <1>2, <1>3 DEF OneHop
<1> QED
  BY <1>4, <1>5 DEF IpPacket, x

-----------------------------------------------------------------------------
(* What one step may do to an object *)

\* Packets that wait and timers are left alone.
Same(r, s) == r.queue = s.queue /\ r.retry = s.retry /\ r.deferred = s.deferred

\* r is an object that waits for what s waits for and searches nothing new.
Mild(n, S, r, s) ==
    r \in NodeState(n, S) /\ Same(r, s) /\ Searched(r.table) \subseteq Searched(s.table)

\* x is the application packet p on its way.
Carries(x, p) == x.body.type = "DATA" /\ x.body.packet = p

\* Where s keeps p: positions of the loopback device and of the queue, frames
\* for the radio, and packets to give back.
LoAt(s, p) == { i \in DOMAIN s.lo : Carries(s.lo[i], p) }
QueueAt(s, p) == { i \in DOMAIN s.queue : Carries(s.queue[i].uid, p) }
OutAt(s, p) == { g \in s.out : Carries(g.ip, p) }
BackAt(s, p) == { e \in s.errors : Carries(e.uid, p) }

\* r keeps an application packet only where s keeps it.
NoMore(r, s) ==
    \A p : /\ LoAt(r, p) \subseteq LoAt(s, p) /\ QueueAt(r, p) \subseteq QueueAt(s, p)
           /\ OutAt(r, p) \subseteq OutAt(s, p) /\ BackAt(r, p) \subseteq BackAt(s, p)

LEMMA NoMoreTrans ==
    ASSUME NEW s, NEW r, NEW q, NoMore(r, s), NoMore(q, r)
    PROVE  NoMore(q, s)
  BY DEF NoMore

LEMMA NoMoreHere ==
    ASSUME NEW s, NEW r, r.lo = s.lo, r.queue = s.queue, r.out = s.out, r.errors = s.errors
    PROVE  NoMore(r, s)
  BY DEF NoMore, LoAt, QueueAt, OutAt, BackAt

\* The packets of the protocol itself carry nothing.
LEMMA ControlPacket ==
    ASSUME NEW x \in IpPacket({})
    PROVE  \A p : ~Carries(x, p)
<1>1. x.body \in Body({})
  BY DEF IpPacket
<1> DEFINE b == x.body
           S == {}
<1>2. b \in Body(S)
  BY <1>1
<1> HIDE DEF b, S
<1>3. b.type = "DATA" => b.packet \in S
  BY <1>2, BodyTypes
<1> QED
  BY <1>3 DEF Carries, b, S

LEMMA MildTrans ==
    ASSUME NEW n, NEW S, NEW s, NEW r, NEW q, Mild(n, S, r, s), Mild(n, S, q, r)
    PROVE  Mild(n, S, q, s)
  BY DEF Mild, Same

LEMMA Fields ==
    ASSUME NEW n, NEW S, NEW s \in NodeState(n, S)
    PROVE  /\ GoodTable(n, s.table) /\ s.queue \in Seq(Item(n, S)) /\ s.seqNo \in Nat
           /\ s.requestId \in Nat /\ s.rreqIdCache \in Ids /\ s.rreqCount \in 0 .. RreqRateLimit
           /\ s.rerrCount \in 0 .. RerrRateLimit /\ s.retry \subseteq Addr \ {n}
           /\ s.deferred \in [Addr -> Nat] /\ s.deferred[n] = 0 /\ s.nb \subseteq Addr \cup {NoAddr}
           /\ s.lo \in Seq(Routed(n, S)) /\ s.scheduled \subseteq Routed(n, {})
           /\ s.out \subseteq Frames(n, S) /\ s.errors \subseteq Held(n, S)
           /\ s.up \in BOOLEAN /\ s.htimer \in BOOLEAN
  BY TableType DEF NodeState

LEMMA SetTable ==
    ASSUME NEW n, NEW S, NEW s \in NodeState(n, S), NEW u, GoodTable(n, u)
    PROVE  LET r == [s EXCEPT !.table = u]
           IN  r \in NodeState(n, S) /\ r.table = u /\ Same(r, s) /\ r.nb = s.nb
               /\ r.out = s.out /\ r.rerrCount = s.rerrCount /\ r.errors = s.errors
               /\ NoMore(r, s)
<1> DEFINE r == [s EXCEPT !.table = u]
<1>0. u \in Tables(n)
  BY TableType
<1>1. r \in NodeState(n, S)
  BY <1>0 DEF NodeState
<1>2. r.table = u /\ Same(r, s) /\ r.nb = s.nb /\ r.out = s.out /\ r.rerrCount = s.rerrCount
      /\ r.errors = s.errors
  BY DEF NodeState, Same
<1>3. r.lo = s.lo /\ r.queue = s.queue
  BY DEF NodeState
<1> HIDE DEF r
<1>4. NoMore(r, s)
  BY <1>2, <1>3, NoMoreHere
<1> QED
  BY <1>1, <1>2, <1>4 DEF r

LEMMA SetOut ==
    ASSUME NEW n, NEW S, NEW s \in NodeState(n, S), NEW f, f \subseteq Frames(n, S)
    PROVE  LET r == [s EXCEPT !.out = f]
           IN  /\ r \in NodeState(n, S) /\ r.table = s.table /\ Same(r, s)
               /\ r.lo = s.lo /\ r.errors = s.errors /\ r.out = f
<1> DEFINE r == [s EXCEPT !.out = f]
<1>1. r \in NodeState(n, S)
  BY DEF NodeState
<1>2. r.table = s.table /\ Same(r, s) /\ r.lo = s.lo /\ r.errors = s.errors /\ r.out = f
  BY DEF NodeState, Same
<1> QED
  BY <1>1, <1>2

LEMMA UnicastOK ==
    ASSUME NEW n, NEW S, NEW s \in NodeState(n, S), NEW a \in Addr \cup {NoAddr},
           NEW x \in IpPacket(S), x.dst # Bcast
    PROVE  LET r == Unicast(n, s, a, x)
           IN  /\ r \in NodeState(n, S) /\ r.table = s.table /\ Same(r, s)
               /\ r.lo = s.lo /\ r.errors = s.errors /\ r.out = s.out \cup {Frame(n, a, x)}
<1> DEFINE f == s.out \cup {Frame(n, a, x)}
<1>1. f \subseteq Frames(n, S)
  BY Fields DEF Frame, Frames
<1>2. Unicast(n, s, a, x) = [s EXCEPT !.out = f]
  BY DEF Unicast
<1> HIDE DEF f
<1>3. LET r == Unicast(n, s, a, x)
      IN  /\ r \in NodeState(n, S) /\ r.table = s.table /\ Same(r, s)
          /\ r.lo = s.lo /\ r.errors = s.errors /\ r.out = f
  BY <1>1, <1>2, SetOut
<1> QED
  BY <1>3 DEF f

LEMMA BroadcastOK ==
    ASSUME NEW n \in Node, NEW S, NEW s \in NodeState(n, S), NEW k \in Int, NEW b \in Flood(n)
    PROVE  LET r == Broadcast(n, s, k, b)
           IN  r \in NodeState(n, S) /\ r.table = s.table /\ Same(r, s) /\ NoMore(r, s)
<1> DEFINE r == Broadcast(n, s, k, b)
           x == Ip(n, Bcast, k, b)
           f == s.out \cup { Frame(n, m, x) : m \in Node }
<1>1. x \in IpPacket(S) /\ x.src = n
  BY FloodMade, NodeAssumption DEF Ip
<1>2. r = [s EXCEPT !.out = f]
  BY DEF Broadcast
<1>0. \A p : ~Carries(x, p)
  BY FloodMade, NodeAssumption, ControlPacket
<1> HIDE DEF x, r
<1>3. f \subseteq Frames(n, S)
  <2>1. s.out \subseteq Frames(n, S)
    BY Fields
  <2>2. \A m \in Node : Frame(n, m, x) \in Frames(n, S)
    BY <1>1, NodeAssumption DEF Frame, Frames
  <2> QED
    BY <2>1, <2>2
<1>4. \A p, g : g \in f /\ Carries(g.ip, p) => g \in s.out
  BY <1>0 DEF Frame
<1> HIDE DEF f
<1>5. /\ r \in NodeState(n, S) /\ r.table = s.table /\ Same(r, s)
      /\ r.lo = s.lo /\ r.errors = s.errors /\ r.out = f
  BY <1>2, <1>3, SetOut
<1>6. NoMore(r, s)
  BY <1>4, <1>5 DEF NoMore, LoAt, QueueAt, OutAt, BackAt, Same
<1> QED
  BY <1>5, <1>6 DEF r

-----------------------------------------------------------------------------
(* Handlers that leave queue and timers alone *)

\* r is s with x put into the loopback device, on the air, or given back.
Puts(n, r, s, x) ==
    \/ r.lo = Append(s.lo, x) /\ r.out = s.out /\ r.errors = s.errors
    \/ /\ r.lo = s.lo /\ r.errors = s.errors
       /\ \E hop : r.out = s.out \cup {Frame(n, hop, x)}
    \/ r.lo = s.lo /\ r.out = s.out /\ r.errors = s.errors \cup {Queued(x)}

LEMMA RouteOutputOK ==
    ASSUME NEW n, NEW S, NEW s \in NodeState(n, S), NEW x \in Routed(n, S)
    PROVE  LET r == RouteOutput(n, s, x)
           IN  /\ Mild(n, S, r, s) /\ (Clean(n, s.table) => Extends(n, r.table, s.table))
               /\ Puts(n, r, s, x)
<1> DEFINE t == Purge(s.table)
           hop == t[x.dst].nextHop
           life(u, a) == UpdateRouteLifeTime(u, a, ActiveRouteTimeout)
           u == life(life(t, x.dst), hop)
           r == RouteOutput(n, s, x)
<1>1. GoodTable(n, s.table) /\ s.out \subseteq Frames(n, S) /\ s.errors \subseteq Held(n, S)
      /\ s.lo \in Seq(Routed(n, S))
  BY Fields
<1>2. /\ Clean(n, t) /\ GoodTable(n, t) /\ Searched(t) = Searched(s.table)
      /\ Extends(n, Purge(t), t)
      /\ Clean(n, s.table) => Extends(n, t, s.table)
  BY <1>1, PurgeClean DEF Clean
<1>3. x \in IpPacket(S) /\ Queued(x) \in Held(n, S) /\ x.dst # Bcast
  BY RoutedTypes, NodeAssumption
<1>4. CASE ~s.up
  <2> DEFINE f == s.errors \cup {Queued(x)}
  <2>1. r = [s EXCEPT !.errors = f]
    BY <1>4 DEF RouteOutput
  <2>2. f \subseteq Held(n, S)
    BY <1>1, <1>3
  <2> HIDE DEF f, r
  <2>3. r \in NodeState(n, S)
    BY <2>1, <2>2 DEF NodeState
  <2>4. r.table = s.table /\ Same(r, s)
    BY <2>1 DEF NodeState, Same
  <2>5. Clean(n, s.table) => Extends(n, s.table, s.table)
    BY DEF Extends
  <2>6. r.lo = s.lo /\ r.out = s.out /\ r.errors = f
    BY <2>1 DEF NodeState
  <2>7. Puts(n, r, s, x)
    BY <2>6 DEF Puts, f
  <2> QED
    BY <2>3, <2>4, <2>5, <2>7 DEF Mild, r
<1>5. CASE s.up /\ HasValidRoute(t, x.dst)
  <2> DEFINE q == [s EXCEPT !.table = u]
  <2>1. r = Unicast(n, q, hop, x)
    BY <1>5 DEF RouteOutput
  <2>2. hop \in Addr
    BY <1>2, <1>5, ValidRoute, NearAddr
  <2>3. Extends(n, u, t)
    <3>1. Extends(n, life(t, x.dst), t)
      BY <1>2, LifeTimeOK, ExtendsTrans
    <3> QED
      BY <3>1, LifeTimeExtends
  <2> HIDE DEF u, hop, t
  <2>4. q \in NodeState(n, S) /\ q.table = u /\ Same(q, s) /\ q.out = s.out /\ q.errors = s.errors
    BY <2>3, SetTable DEF Extends, Clean
  <2>8. q.lo = s.lo
    BY DEF NodeState
  <2> HIDE DEF q, r
  <2>5. /\ r \in NodeState(n, S) /\ r.table = q.table /\ Same(r, q)
        /\ r.lo = q.lo /\ r.errors = q.errors /\ r.out = q.out \cup {Frame(n, hop, x)}
    BY <1>3, <2>1, <2>2, <2>4, UnicastOK
  <2>6. Clean(n, s.table) => Extends(n, u, s.table)
    BY <1>2, <2>3, ExtendsTrans
  <2>7. Puts(n, r, s, x)
    BY <2>4, <2>5, <2>8 DEF Puts
  <2>9. Mild(n, S, r, s)
    BY <1>2, <2>3, <2>4, <2>5 DEF Mild, Same, Extends
  <2> QED
    BY <2>4, <2>5, <2>6, <2>7, <2>9 DEF r
<1>6. CASE s.up /\ ~HasValidRoute(t, x.dst)
  <2> DEFINE w == Append(s.lo, x)
  <2>1. r = [s EXCEPT !.table = t, !.lo = w]
    BY <1>6 DEF RouteOutput
  <2>2. w \in Seq(Routed(n, S)) /\ t \in Tables(n)
    BY <1>1, <1>2, TableType
  <2> HIDE DEF t, r, w
  <2>3. r \in NodeState(n, S)
    BY <2>1, <2>2 DEF NodeState
  <2>4. r.table = t /\ Same(r, s)
    BY <2>1 DEF NodeState, Same
  <2>5. r.lo = w /\ r.out = s.out /\ r.errors = s.errors
    BY <2>1 DEF NodeState
  <2>6. Puts(n, r, s, x)
    BY <2>5 DEF Puts, w
  <2> QED
    BY <1>2, <2>3, <2>4, <2>6 DEF Mild, r
<1>7. s.up \in BOOLEAN
  BY Fields
<1> QED
  BY <1>4, <1>5, <1>6, <1>7

\* A packet of the protocol itself adds no application packet.
LEMMA PutsControl ==
    ASSUME NEW n, NEW S, NEW s \in NodeState(n, S), NEW x \in Routed(n, S), \A p : ~Carries(x, p),
           NEW r, Puts(n, r, s, x), r.queue = s.queue
    PROVE  NoMore(r, s)
<1>1. CASE r.lo = Append(s.lo, x) /\ r.out = s.out /\ r.errors = s.errors
  <2>1. s.lo \in Seq(Routed(n, S))
    BY Fields
  <2>2. \A i \in DOMAIN r.lo : (i \in DOMAIN s.lo /\ r.lo[i] = s.lo[i]) \/ r.lo[i] = x
    BY <1>1, <2>1
  <2>3. \A p : LoAt(r, p) \subseteq LoAt(s, p)
    BY <2>2 DEF LoAt
  <2> QED
    BY <1>1, <2>3 DEF NoMore, QueueAt, OutAt, BackAt
<1>2. CASE /\ r.lo = s.lo /\ r.errors = s.errors
           /\ \E hop : r.out = s.out \cup {Frame(n, hop, x)}
  <2>1. \A g \in r.out : g \in s.out \/ g.ip = x
    BY <1>2 DEF Frame
  <2> QED
    BY <1>2, <2>1 DEF NoMore, LoAt, QueueAt, OutAt, BackAt
<1>3. CASE r.lo = s.lo /\ r.out = s.out /\ r.errors = s.errors \cup {Queued(x)}
  <2>1. \A e \in r.errors : e \in s.errors \/ e.uid = x
    BY <1>3 DEF Queued
  <2> QED
    BY <1>3, <2>1 DEF NoMore, LoAt, QueueAt, OutAt, BackAt
<1> QED
  BY <1>1, <1>2, <1>3 DEF Puts

LEMMA RouteOutputControl ==
    ASSUME NEW n, NEW S, NEW s \in NodeState(n, S), NEW x \in Routed(n, S), x \in Routed(n, {})
    PROVE  NoMore(RouteOutput(n, s, x), s)
<1> DEFINE r == RouteOutput(n, s, x)
<1>1. Puts(n, r, s, x) /\ r.queue = s.queue
  BY RouteOutputOK DEF Mild, Same
<1>2. \A p : ~Carries(x, p)
  BY ControlPacket DEF Routed
<1> HIDE DEF r
<1>3. NoMore(r, s)
  BY <1>1, <1>2, PutsControl
<1> QED
  BY <1>3 DEF r

\* RouteInput notes the sender, and the route to it has an interface.
LEMMA NoteOriginOK ==
    ASSUME NEW n, NEW S, NEW s \in NodeState(n, S), NEW a
    PROVE  LET r == NoteOrigin(s, a) IN Mild(n, S, r, s) /\ NoMore(r, s)
<1> DEFINE u == DeliveryTable(s.table, a)
           b == s.nb \cup DeliveryNeighbors(s.table, a)
           r == NoteOrigin(s, a)
<1>1. GoodTable(n, s.table) /\ s.nb \subseteq Addr \cup {NoAddr}
  BY Fields
<1>2. GoodTable(n, u) /\ Searched(u) \subseteq Searched(s.table)
  BY <1>1, DeliveryTableOK, PurgeClean DEF Extends, Clean
<1>3. b \subseteq Addr \cup {NoAddr}
  BY <1>1, DeliveryTableOK
<1>4. r = [s EXCEPT !.table = u, !.nb = b]
  BY DEF NoteOrigin
<1>5. u \in Tables(n)
  BY <1>2, TableType
<1> HIDE DEF u, b, r
<1>6. r \in NodeState(n, S)
  BY <1>3, <1>4, <1>5 DEF NodeState
<1>7. r.table = u /\ Same(r, s) /\ r.lo = s.lo /\ r.out = s.out /\ r.errors = s.errors
  BY <1>4 DEF NodeState, Same
<1>8. NoMore(r, s)
  BY <1>7, NoMoreHere DEF Same
<1> QED
  BY <1>2, <1>6, <1>7, <1>8 DEF Mild, r

LEMMA RecvMadaodvOK ==
    ASSUME NEW n, NEW S, NEW s \in NodeState(n, S), NEW x \in IpPacket(S), x.src \in Near(n)
    PROVE  LET r == RecvMadaodv(s, x)
           IN  /\ Mild(n, S, r, s) /\ Clean(n, r.table) /\ NoMore(r, s)
               /\ x.src \in DOMAIN r.table /\ r.table[x.src].iface = Wlan
<1> DEFINE v == UpdateRouteLifeTime(s.table, x.src, ActiveRouteTimeout)
           q == IF x.dst = Bcast THEN [s EXCEPT !.table = v] ELSE NoteOrigin(s, x.src)
           u == UpdateRouteToNeighbor(q.table, x.src)
           r == RecvMadaodv(s, x)
<1>1. GoodTable(n, s.table) /\ x.src \in Addr
  BY Fields, IpTypes
<1>2. Extends(n, v, Purge(s.table)) /\ Searched(Purge(s.table)) = Searched(s.table)
  BY <1>1, LifeTimeOK, PurgeClean
<1>3. r = [q EXCEPT !.table = u]
  BY DEF RecvMadaodv
<1> HIDE DEF v
<1>4. Mild(n, S, q, s) /\ NoMore(q, s)
  <2>1. CASE x.dst = Bcast
    <3>1. q = [s EXCEPT !.table = v] /\ GoodTable(n, v)
      BY <1>2, <2>1 DEF Extends, Clean
    <3> HIDE DEF q
    <3>2. q \in NodeState(n, S) /\ q.table = v /\ Same(q, s) /\ NoMore(q, s)
      BY <3>1, SetTable
    <3> QED
      BY <1>2, <3>2 DEF Mild, Extends
  <2>2. CASE x.dst # Bcast
    BY <2>2, NoteOriginOK
  <2> QED
    BY <2>1, <2>2
<1> HIDE DEF q
<1>5. q \in NodeState(n, S) /\ GoodTable(n, q.table)
  BY <1>4, Fields DEF Mild
<1>6. Extends(n, u, Purge(q.table)) /\ x.src \in DOMAIN u /\ u[x.src].iface = Wlan
  BY <1>1, <1>5, NeighborOK
<1>7. Searched(Purge(q.table)) = Searched(q.table)
  BY <1>5, PurgeClean
<1> HIDE DEF u
<1>8. r \in NodeState(n, S) /\ r.table = u /\ Same(r, q) /\ NoMore(r, q)
  BY <1>3, <1>5, <1>6, SetTable DEF Extends, Clean
<1>9. Mild(n, S, r, q)
  BY <1>6, <1>7, <1>8 DEF Mild, Extends
<1> HIDE DEF r
<1>10. Mild(n, S, r, s) /\ NoMore(r, s)
  BY <1>4, <1>8, <1>9, MildTrans, NoMoreTrans
<1> QED
  BY <1>6, <1>8, <1>10 DEF Extends, r

\* A RERR for some destinations.
LEMMA RerrBody ==
    ASSUME NEW n, NEW un \in Unreachable
    PROVE  RerrHeader(un) \in Answer /\ RerrHeader(un) \in Flood(n)
  BY DEF RerrHeader, Rerr, Answer, Flood

LEMMA SendRerrMessageOK ==
    ASSUME NEW n \in Node, NEW S, NEW s \in NodeState(n, S), NEW un \in Unreachable,
           NEW pre, pre \subseteq Near(n)
    PROVE  LET r == SendRerrMessage(n, s, un, pre)
           IN  r \in NodeState(n, S) /\ Same(r, s) /\ r.table = s.table /\ NoMore(r, s)
<1> DEFINE valid == { p \in pre : HasValidRoute(s.table, p) }
           b == RerrHeader(un)
           k == s.rerrCount + 1
           w == s.scheduled \cup { Ip(n, p, 1, b) : p \in valid }
           r == SendRerrMessage(n, s, un, pre)
<1>1. b \in Answer /\ b \in Flood(n)
  BY RerrBody
<1>2. /\ GoodTable(n, s.table) /\ s.scheduled \subseteq Routed(n, {})
      /\ s.rerrCount \in 0 .. RerrRateLimit
  BY Fields
<1>3. \A p \in valid : p \in Near(n)
  OBVIOUS
<1>4. \/ r = s
      \/ s.rerrCount # RerrRateLimit /\ r = [s EXCEPT !.rerrCount = k, !.scheduled = w]
      \/ r = Broadcast(n, s, 1, b)
  BY DEF SendRerrMessage
<1> HIDE DEF valid, b, r
<1>5. CASE r = s
  BY <1>5, NoMoreHere DEF Same, r
<1>6. CASE s.rerrCount # RerrRateLimit /\ r = [s EXCEPT !.rerrCount = k, !.scheduled = w]
  <2>1. k \in 0 .. RerrRateLimit
    BY <1>2, <1>6, LimitAssumption
  <2>2. w \subseteq Routed(n, {})
    <3>1. n \in Addr /\ 1 \in Int
      BY NodeAssumption
    <3>2. \A p \in valid : Ip(n, p, 1, b) \in Routed(n, {})
      BY <1>1, <1>3, <3>1, AnswerMade
    <3> QED
      BY <1>2, <3>2
  <2> HIDE DEF w, k
  <2>3. r \in NodeState(n, S)
    BY <1>6, <2>1, <2>2 DEF NodeState
  <2>4. Same(r, s) /\ r.table = s.table /\ r.lo = s.lo /\ r.out = s.out /\ r.errors = s.errors
    BY <1>6 DEF NodeState, Same
  <2>5. NoMore(r, s)
    BY <2>4, NoMoreHere DEF Same
  <2> QED
    BY <2>3, <2>4, <2>5 DEF r
<1>7. CASE r = Broadcast(n, s, 1, b)
  BY <1>1, <1>7, BroadcastOK DEF r
<1> QED
  BY <1>4, <1>5, <1>6, <1>7

LEMMA RerrNoRouteOK ==
    ASSUME NEW n \in Node, NEW S, NEW s \in NodeState(n, S), NEW d \in Addr, NEW k \in Nat, NEW o
    PROVE  LET r == SendRerrWhenNoRouteToForward(n, s, d, k, o)
           IN  Mild(n, S, r, s) /\ NoMore(r, s)
<1> DEFINE un == [ x \in {d} |-> k ]
           b == RerrHeader(un)
           hop == Purge(s.table)[o].nextHop
           r == SendRerrWhenNoRouteToForward(n, s, d, k, o)
<1>1. un \in Unreachable
  <2>1. un \in [{d} -> Nat] /\ {d} \in SUBSET Addr
    OBVIOUS
  <2> QED
    BY <2>1 DEF Unreachable
<1>2. b \in Answer /\ b \in Flood(n) /\ n \in Addr /\ GoodTable(n, s.table)
  BY <1>1, RerrBody, NodeAssumption, Fields
<1>3. \/ r = s
      \/ HasValidRoute(s.table, o) /\ r = RouteOutput(n, s, Ip(n, hop, 1, b))
      \/ r = Broadcast(n, s, 1, b)
  BY DEF SendRerrWhenNoRouteToForward
<1> HIDE DEF b, r
<1>4. CASE r = s
  BY <1>4, NoMoreHere DEF Mild, Same, r
<1>5. CASE HasValidRoute(s.table, o) /\ r = RouteOutput(n, s, Ip(n, hop, 1, b))
  <2>1. hop \in Near(n)
    BY <1>2, <1>5, ValidRoute
  <2> HIDE DEF hop, un
  <2>2. b \in Answer /\ n \in Addr /\ 1 \in Int
    BY <1>2
  <2>3. Ip(n, hop, 1, b) \in Routed(n, S) /\ Ip(n, hop, 1, b) \in Routed(n, {})
    BY <2>1, <2>2, AnswerMade
  <2> QED
    BY <1>5, <2>3, RouteOutputOK, RouteOutputControl DEF r
<1>6. CASE r = Broadcast(n, s, 1, b)
  BY <1>2, <1>6, BroadcastOK DEF Mild, r
<1> QED
  BY <1>3, <1>4, <1>5, <1>6

\* The destinations of a RERR are addresses of the table, and those who have
\* to hear of it are neighbours.
LEMMA PrecursorsNear ==
    ASSUME NEW n, NEW t, GoodTable(n, t), NEW D, D \subseteq DOMAIN Purge(t)
    PROVE  PrecursorsOf(t, D) \subseteq Near(n)
<1>1. \A d \in D : Purge(t)[d].precursors \subseteq Near(n)
  BY PurgedEntry DEF GoodEntry
<1> QED
  BY <1>1 DEF PrecursorsOf

LEMMA AffectedOK ==
    ASSUME NEW n, NEW t, GoodTable(n, t), NEW a
    PROVE  /\ HasRoute(t, a) =>
                LET un == LinkBreakAffected(t, a)
                IN  un \in Unreachable /\ PrecursorsOf(t, DOMAIN un) \subseteq Near(n)
           /\ \A m \in Rerr : LET un == RerrAffected(t, a, m)
                              IN  un \in Unreachable /\ PrecursorsOf(t, DOMAIN un) \subseteq Near(n)
<1> DEFINE p == Purge(t)
           via == DestinationsWithNextHop(t, a)
<1>1. GoodTable(n, p) /\ DOMAIN p \subseteq Addr /\ \A d \in DOMAIN p : p[d].seqNo \in Nat
  BY PurgeClean DEF Clean, GoodTable, IsTable, GoodEntry, Entry
<1>2. DOMAIN via \subseteq DOMAIN p
  BY DEF DestinationsWithNextHop
<1>3. ASSUME HasRoute(t, a)
      PROVE  LET un == LinkBreakAffected(t, a)
             IN  un \in Unreachable /\ PrecursorsOf(t, DOMAIN un) \subseteq Near(n)
  <2> DEFINE D == DOMAIN via \cup {a}
             f == [ d \in D |-> p[d].seqNo ]
  <2>1. LinkBreakAffected(t, a) = f
    BY DEF LinkBreakAffected
  <2>2. D \subseteq DOMAIN p
    BY <1>2, <1>3 DEF HasRoute
  <2>2a. DOMAIN f = D /\ PrecursorsOf(t, D) \subseteq Near(n)
    BY <2>2, PrecursorsNear
  <2> HIDE DEF D, p
  <2>3. f \in [D -> Nat] /\ D \in SUBSET Addr
    BY <1>1, <2>2
  <2> QED
    BY <2>1, <2>2a, <2>3 DEF Unreachable
<1>4. ASSUME NEW m \in Rerr
      PROVE  LET un == RerrAffected(t, a, m)
             IN  un \in Unreachable /\ PrecursorsOf(t, DOMAIN un) \subseteq Near(n)
  <2> DEFINE D == DOMAIN m.un \cap DOMAIN via
             f == [ d \in D |-> m.un[d] ]
  <2>1. RerrAffected(t, a, m) = f
    BY DEF RerrAffected, Restrict
  <2>2. D \in SUBSET Addr
    BY <1>1, <1>2
  <2>2a. DOMAIN f = D /\ PrecursorsOf(t, D) \subseteq Near(n)
    BY <1>2, PrecursorsNear
  <2>3. PICK E \in SUBSET Addr : m.un \in [E -> Nat]
    BY DEF Rerr, Unreachable
  <2>4. \A d \in D : m.un[d] \in Nat
    BY <2>3
  <2> HIDE DEF D
  <2>5. f \in [D -> Nat]
    BY <2>4
  <2> QED
    BY <2>1, <2>2, <2>2a, <2>5 DEF Unreachable
<1> QED
  BY <1>3, <1>4


\* A RERR arrives, or the link to a neighbour is lost.
LEMMA BreaksLinkOK ==
    ASSUME NEW n \in Node, NEW S, NEW s \in NodeState(n, S), NEW a
    PROVE  LET r == SendRerrWhenBreaksLinkToNextHop(n, s, a)
           IN  Mild(n, S, r, s) /\ NoMore(r, s)
<1> DEFINE un == LinkBreakAffected(s.table, a)
           told == SendRerrMessage(n, s, un, PrecursorsOf(s.table, DOMAIN un))
           u == InvalidateRoutesWithDst(told.table, DOMAIN un)
           p == Purge(s.table)
           r == SendRerrWhenBreaksLinkToNextHop(n, s, a)
<1>1. GoodTable(n, s.table)
  BY Fields
<1>2. GoodTable(n, p) /\ Searched(p) = Searched(s.table)
  BY <1>1, PurgeClean DEF Clean
<1>3. CASE ~HasRoute(s.table, a)
  <2>1. r = [s EXCEPT !.table = p]
    BY <1>3 DEF SendRerrWhenBreaksLinkToNextHop
  <2> HIDE DEF p, r
  <2>2. r \in NodeState(n, S) /\ r.table = p /\ Same(r, s) /\ NoMore(r, s)
    BY <1>2, <2>1, SetTable
  <2> QED
    BY <1>2, <2>2 DEF Mild, r
<1>4. CASE HasRoute(s.table, a)
  <2> DEFINE pre == PrecursorsOf(s.table, DOMAIN un)
  <2>1. un \in Unreachable /\ pre \subseteq Near(n)
    BY <1>1, <1>4, AffectedOK
  <2>2. r = [told EXCEPT !.table = u]
    BY <1>4 DEF SendRerrWhenBreaksLinkToNextHop
  <2> HIDE DEF un, pre
  <2>3. told \in NodeState(n, S) /\ Same(told, s) /\ told.table = s.table /\ NoMore(told, s)
    BY <2>1, SendRerrMessageOK DEF pre
  <2> HIDE DEF told, r
  <2>4. GoodTable(n, u) /\ Searched(u) \subseteq Searched(s.table)
    BY <1>1, <1>2, <2>3, InvalidateRoutesOK DEF Extends, Clean
  <2> HIDE DEF u
  <2>5. r \in NodeState(n, S) /\ r.table = u /\ Same(r, told) /\ NoMore(r, told)
    BY <2>2, <2>3, <2>4, SetTable
  <2>6. NoMore(r, s)
    BY <2>3, <2>5, NoMoreTrans
  <2> QED
    BY <2>3, <2>4, <2>5, <2>6 DEF Mild, Same, r
<1> QED
  BY <1>3, <1>4

LEMMA HandleErrorOK ==
    ASSUME NEW n \in Node, NEW S, NEW s \in NodeState(n, S), NEW a, NEW m \in Rerr
    PROVE  LET r == HandleError(n, s, a, m) IN Mild(n, S, r, s) /\ NoMore(r, s)
<1> DEFINE un == RerrAffected(s.table, a, m)
           told == SendRerrMessage(n, s, un, PrecursorsOf(s.table, DOMAIN un))
           u == InvalidateRoutesWithDst(told.table, DOMAIN un)
           r == HandleError(n, s, a, m)
<1>1. GoodTable(n, s.table) /\ Searched(Purge(s.table)) = Searched(s.table)
  BY Fields, PurgeClean
<1> DEFINE pre == PrecursorsOf(s.table, DOMAIN un)
<1>2. un \in Unreachable /\ pre \subseteq Near(n)
  BY <1>1, AffectedOK
<1>3. r = [told EXCEPT !.table = u]
  BY DEF HandleError
<1> HIDE DEF un, pre
<1>4. told \in NodeState(n, S) /\ Same(told, s) /\ told.table = s.table /\ NoMore(told, s)
  BY <1>2, SendRerrMessageOK DEF pre
<1> HIDE DEF told, r
<1>5. GoodTable(n, u) /\ Searched(u) \subseteq Searched(s.table)
  BY <1>1, <1>4, InvalidateRoutesOK DEF Extends, Clean
<1> HIDE DEF u
<1>6. r \in NodeState(n, S) /\ r.table = u /\ Same(r, told) /\ NoMore(r, told)
  BY <1>3, <1>4, <1>5, SetTable
<1>7. NoMore(r, s)
  BY <1>4, <1>6, NoMoreTrans
<1> QED
  BY <1>4, <1>5, <1>6, <1>7 DEF Mild, Same, r

LEMMA HandleForwardOK ==
    ASSUME NEW n \in Node, NEW S, NEW s \in NodeState(n, S), NEW x \in IpPacket(S),
           x.dst \in Addr
    PROVE  LET r == HandleForward(n, s, x)
           IN  /\ Mild(n, S, r, s)
               /\ \/ NoMore(r, s)
                  \/ \E y : y.body = x.body /\ Puts(n, r, s, y)
<1> DEFINE t == Purge(s.table)
           hop == t[x.dst].nextHop
           u == ForwardingTable(t, x.src, x.dst)
           b == s.nb \cup {hop, PreviousHop(t, x.src)}
           r == [s EXCEPT !.table = u, !.nb = b]
           known == HasRoute(t, x.dst) /\ t[x.dst].validSeqNo
           k == IF known THEN t[x.dst].seqNo ELSE 0
           w == [s EXCEPT !.table = t]
           y == [x EXCEPT !.ttl = @ - 1]
           h == HandleForward(n, s, x)
<1>1. GoodTable(n, s.table) /\ s.nb \subseteq Addr \cup {NoAddr}
  BY Fields
<1>2. GoodTable(n, t) /\ Searched(t) = Searched(s.table) /\ Searched(Purge(t)) = Searched(t)
  BY <1>1, PurgeClean DEF Clean
<1>3. /\ GoodTable(n, u) /\ Searched(u) \subseteq Searched(s.table)
      /\ PreviousHop(t, x.src) \in Addr \cup {NoAddr}
  BY <1>2, ForwardingTableOK DEF Extends, Clean
<1>4. h = IF x.src = n THEN s
          ELSE IF HasValidRoute(t, x.dst) THEN IF x.ttl > 1 THEN Unicast(n, r, hop, y) ELSE r
          ELSE SendRerrWhenNoRouteToForward(n, w, x.dst, k, x.src)
  BY DEF HandleForward
<1>5. CASE x.src = n
  BY <1>4, <1>5, NoMoreHere DEF Mild, Same
<1>6. CASE x.src # n /\ HasValidRoute(t, x.dst)
  <2>1. hop \in Addr
    BY <1>2, <1>6, ValidRoute, NearAddr
  <2>2. b \subseteq Addr \cup {NoAddr} /\ u \in Tables(n)
    BY <1>1, <1>3, <2>1, TableType
  <2>3. y \in IpPacket(S) /\ y.dst # Bcast /\ y.body = x.body
    <3>1. /\ x \in [src : Addr, dst : Addr \cup {Bcast}, ttl : Int, body : Body(S)]
          /\ OneHop(x) /\ x.dst # Bcast
      BY NodeAssumption DEF IpPacket
    <3> DEFINE i == x.ttl - 1
    <3>2. i \in Int
      BY <3>1
    <3> HIDE DEF i
    <3>3. y = [x EXCEPT !.ttl = i]
      BY DEF i
    <3>4. /\ y \in [src : Addr, dst : Addr \cup {Bcast}, ttl : Int, body : Body(S)]
          /\ y.src = x.src /\ y.dst = x.dst /\ y.body = x.body
      BY <3>1, <3>2, <3>3
    <3> QED
      BY <3>1, <3>4 DEF IpPacket, OneHop
  <2>4. h = Unicast(n, r, hop, y) \/ h = r
    BY <1>4, <1>6
  <2> HIDE DEF u, b, hop, y, h
  <2>5. r \in NodeState(n, S)
    BY <2>2 DEF NodeState
  <2>6. r.table = u /\ Same(r, s) /\ r.lo = s.lo /\ r.out = s.out /\ r.errors = s.errors
    BY DEF NodeState, Same
  <2> HIDE DEF r
  <2> DEFINE q == Unicast(n, r, hop, y)
  <2>7. /\ q \in NodeState(n, S) /\ q.table = r.table /\ Same(q, r)
        /\ q.lo = r.lo /\ q.errors = r.errors /\ q.out = r.out \cup {Frame(n, hop, y)}
    BY <2>1, <2>3, <2>5, UnicastOK
  <2> HIDE DEF q
  <2>8. Mild(n, S, q, s) /\ Mild(n, S, r, s)
    BY <1>3, <2>5, <2>6, <2>7 DEF Mild, Same
  <2>9. NoMore(r, s)
    BY <2>6, NoMoreHere DEF Same
  <2>10. CASE h = q
    <3>1. Puts(n, h, s, y)
      BY <2>6, <2>7, <2>10 DEF Puts
    <3> QED
      BY <2>3, <2>8, <2>10, <3>1 DEF h
  <2>11. CASE h = r
    BY <2>8, <2>9, <2>11 DEF h
  <2> QED
    BY <2>4, <2>10, <2>11 DEF q
<1>7. CASE x.src # n /\ ~HasValidRoute(t, x.dst)
  <2>1. k \in Nat
    <3>1. ASSUME known PROVE t[x.dst].seqNo \in Nat
      <4>1. x.dst \in DOMAIN t
        BY <1>2, <3>1, PurgeClean DEF HasRoute
      <4> QED
        BY <1>2, <4>1 DEF GoodTable, GoodEntry, Entry
    <3> QED
      BY <3>1
  <2>2. h = SendRerrWhenNoRouteToForward(n, w, x.dst, k, x.src)
    BY <1>4, <1>7
  <2> HIDE DEF k, t, h
  <2>3. w \in NodeState(n, S) /\ w.table = t /\ Same(w, s) /\ NoMore(w, s)
    BY <1>2, SetTable
  <2> HIDE DEF w
  <2>4. Mild(n, S, h, w) /\ NoMore(h, w)
    BY <1>1, <2>1, <2>2, <2>3, RerrNoRouteOK
  <2>5. NoMore(h, s)
    BY <2>3, <2>4, NoMoreTrans
  <2> QED
    BY <1>2, <2>3, <2>4, <2>5 DEF Mild, Same, h
<1> QED
  BY <1>5, <1>6, <1>7

-----------------------------------------------------------------------------
(* Requests and replies *)

LEMMA EntryFields ==
    ASSUME NEW n, NEW t, GoodTable(n, t), NEW d \in DOMAIN t
    PROVE  /\ d \in Addr /\ t[d].seqNo \in Nat /\ t[d].hops \in Nat /\ t[d].hops >= 1
           /\ t[d].lifeTime \in Int /\ t[d].nextHop \in Addr \cup {NoAddr}
           /\ t[d].iface = Wlan => t[d].nextHop \in Near(n)
  BY DEF GoodTable, GoodEntry, Entry, IsTable

\* What SendReply and its intermediate variant read from the route to a.
LEMMA UsableRoute ==
    ASSUME NEW n, NEW t, Clean(n, t), NEW a \in DOMAIN t, t[a].iface = Wlan
    PROVE  LET e == Purge(t)[a]
           IN  /\ e.nextHop \in Near(n) /\ e.hops \in Nat /\ e.seqNo \in Nat /\ e.lifeTime \in Int
               /\ e.hops \in Int
<1>1. a \in DOMAIN Purge(t) /\ GoodTable(n, Purge(t)) /\ GoodTable(n, t)
  BY PurgeClean DEF Clean
<1>2. Purge(t)[a].iface = Wlan
  BY <1>1, PurgedEntry
<1> QED
  BY <1>1, <1>2, EntryFields

LEMMA RrepBody ==
    ASSUME NEW h \in Nat, NEW d \in Addr, NEW q \in Nat, NEW o \in Addr, NEW l \in Int,
           NEW k \in BOOLEAN
    PROVE  LET m == RrepHeader(h, d, q, o, l, k)
           IN  m \in Rrep /\ m.dst = d /\ m.origin = o /\ (d # o => m \in Answer)
  BY DEF RrepHeader, Rrep, Answer

\* The request as it is handled: its hop count was incremented.
LEMMA HoppedRequest ==
    ASSUME NEW m \in Rreq
    PROVE  Hop(m) \in Rreq /\ Hop(m).hopCount >= 1
<1> DEFINE k == m.hopCount + 1
<1>1. k \in Nat /\ k >= 1
  BY DEF Rreq
<1> HIDE DEF k
<1>2. [m EXCEPT !.hopCount = k] \in Rreq /\ [m EXCEPT !.hopCount = k].hopCount = k
  BY <1>1 DEF Rreq
<1> QED
  BY <1>1, <1>2 DEF Hop, k

LEMMA HoppedReply ==
    ASSUME NEW m \in Rrep
    PROVE  /\ Hop(m) \in Rrep /\ Hop(m).hopCount >= 1
           /\ Hop(m).dst = m.dst /\ Hop(m).origin = m.origin
<1> DEFINE k == m.hopCount + 1
<1>1. k \in Nat /\ k >= 1
  BY DEF Rrep
<1> HIDE DEF k
<1>2. [m EXCEPT !.hopCount = k] \in Rrep /\ [m EXCEPT !.hopCount = k].hopCount = k
      /\ [m EXCEPT !.hopCount = k].dst = m.dst /\ [m EXCEPT !.hopCount = k].origin = m.origin
  BY <1>1 DEF Rrep
<1> QED
  BY <1>1, <1>2 DEF Hop, k

LEMMA ForwardedOK ==
    ASSUME NEW n, NEW t, GoodTable(n, t), NEW m \in Rreq
    PROVE  ForwardedRequest(t, m) \in Rreq
<1> DEFINE k == Purge(t)[m.dst].seqNo
<1>1. CASE KnowsDst(t, m)
  <2>1. k \in Nat
    <3>1. m.dst \in DOMAIN Purge(t) /\ GoodTable(n, Purge(t))
      BY <1>1, PurgeClean DEF KnowsDst, HasRoute, Clean
    <3> QED
      BY <3>1, EntryFields
  <2>2. ForwardedRequest(t, m) = [m EXCEPT !.dstSeqno = k, !.unknown = FALSE]
    BY <1>1 DEF ForwardedRequest
  <2> HIDE DEF k
  <2> QED
    BY <2>1, <2>2 DEF Rreq
<1>2. CASE ~KnowsDst(t, m)
  BY <1>2 DEF ForwardedRequest
<1> QED
  BY <1>1, <1>2

LEMMA NextSeqNoOK ==
    ASSUME NEW k \in Nat
    PROVE  NextSeqNo(k) \in Nat
<1>1. \A a \in Nat, b \in Nat \ {0} : a % b \in Nat
  OBVIOUS
<1>2. k + 1 \in Nat /\ SeqNoMod \in Nat \ {0}
  BY SeqNoAssumption
<1> QED
  BY <1>1, <1>2 DEF NextSeqNo

LEMMA RecordedOK ==
    ASSUME NEW c \in Ids, NEW id \in Addr \X Nat
    PROVE  Recorded(c, id, PathDiscoveryTime) \in Ids
<1> DEFINE p == PurgeIds(c)
           D == DOMAIN p \cup {id}
           f == [ u \in D |-> IF u = id THEN PathDiscoveryTime ELSE p[u] ]
<1>1. PICK E \in SUBSET (Addr \X Nat) : c \in [E -> Int]
  BY DEF Ids
<1>2. DOMAIN p \subseteq E /\ p \in [DOMAIN p -> Int]
  BY <1>1 DEF PurgeIds, Restrict
<1>3. Recorded(c, id, PathDiscoveryTime) = IF id \in DOMAIN p THEN p ELSE f
  BY DEF Recorded
<1> HIDE DEF p
<1>4. f \in [D -> Int] /\ D \in SUBSET (Addr \X Nat)
  BY <1>1, <1>2, Times
<1> HIDE DEF D, f
<1>5. p \in Ids /\ f \in Ids
  BY <1>1, <1>2, <1>4 DEF Ids
<1> QED
  BY <1>3, <1>5

\* A request that is new to the node, once the reverse route is recorded.
LEMMA AnswerRequestOK ==
    ASSUME NEW n \in Node, NEW S, NEW s \in NodeState(n, S), NEW a, NEW m \in Rreq, NEW k \in Int,
           Clean(n, s.table), m.origin \in DOMAIN s.table, s.table[m.origin].iface = Wlan
    PROVE  LET r == AnswerRequest(n, s, a, m, k) IN Mild(n, S, r, s) /\ NoMore(r, s)
<1> DEFINE t == s.table
           o == Purge(t)[m.origin]
           verdict == RequestVerdict(n, t, a, m, k)
           q == ReplySeqNo(m, s.seqNo)
           z == [s EXCEPT !.seqNo = q]
           v == IntermediateTable(t, m)
           w == [s EXCEPT !.table = v]
           replied == RouteOutput(n, w, IntermediateReply(n, t, m))
           r == AnswerRequest(n, s, a, m, k)
<1>1. /\ o.nextHop \in Near(n) /\ o.hops \in Nat /\ o.seqNo \in Nat /\ o.lifeTime \in Int
      /\ o.hops \in Int
  BY UsableRoute
<1>2. n \in Addr /\ s.seqNo \in Nat /\ m.dst \in Addr /\ m.origin \in Addr /\ m.dst # m.origin
  BY NodeAssumption, Fields DEF Rreq
<1>3. \/ verdict = "destination" /\ r = RouteOutput(n, z, SendReply(n, t, m, q))
      \/ verdict = "intermediate" /\ r = RouteOutput(n, replied, GratuitousRrep(n, t, m))
      \/ verdict = "intermediate" /\ r = replied
      \/ r = Broadcast(n, s, k - 1, ForwardedRequest(t, m))
      \/ r = s
  BY DEF AnswerRequest
<1>4. CASE verdict = "destination" /\ r = RouteOutput(n, z, SendReply(n, t, m, q))
  <2>1. q \in Nat
    BY <1>2, NextSeqNoOK DEF ReplySeqNo
  <2> HIDE DEF q
  <2>2. z \in NodeState(n, S)
    BY <2>1 DEF NodeState
  <2>3. z.table = t /\ Same(z, s) /\ z.lo = s.lo /\ z.out = s.out /\ z.errors = s.errors
    BY DEF NodeState, Same
  <2> DEFINE b == RrepHeader(0, m.dst, q, m.origin, MyRouteTimeout, FALSE)
  <2>4. 0 \in Nat /\ FALSE \in BOOLEAN
    OBVIOUS
  <2>5. b \in Answer
    BY <1>2, <2>1, <2>4, RrepBody, Times
  <2>6. SendReply(n, t, m, q) = Ip(n, o.nextHop, o.hops, b)
    BY DEF SendReply
  <2> HIDE DEF b, z, o, r
  <2>7. SendReply(n, t, m, q) \in Routed(n, S) /\ SendReply(n, t, m, q) \in Routed(n, {})
    BY <1>1, <1>2, <2>5, <2>6, AnswerMade
  <2>8. Mild(n, S, r, z) /\ NoMore(r, z)
    BY <1>4, <2>2, <2>7, RouteOutputOK, RouteOutputControl
  <2>9. Mild(n, S, z, s) /\ NoMore(z, s)
    BY <2>2, <2>3, NoMoreHere DEF Mild, Same
  <2> QED
    BY <2>8, <2>9, MildTrans, NoMoreTrans DEF r
<1>5. ASSUME verdict = "intermediate"
      PROVE  /\ Mild(n, S, replied, s) /\ NoMore(replied, s)
             /\ LET last == RouteOutput(n, replied, GratuitousRrep(n, t, m))
                IN  Mild(n, S, last, s) /\ NoMore(last, s)
  <2> DEFINE e == Purge(t)[m.dst]
             b == RrepHeader(e.hops, m.dst, e.seqNo, m.origin, e.lifeTime, e.hops = 1)
             c == RrepHeader(o.hops, m.origin, o.seqNo, m.dst, o.lifeTime, FALSE)
             x == IntermediateReply(n, t, m)
             y == GratuitousRrep(n, t, m)
  <2>1. HasValidRoute(t, m.dst)
    BY <1>5 DEF RequestVerdict
  <2>2. m.dst \in DOMAIN Purge(t) /\ GoodTable(n, Purge(t)) /\ e.nextHop \in Near(n)
    BY <2>1, ValidRoute, PurgeClean DEF Clean
  <2>3. e.hops \in Nat /\ e.hops \in Int /\ e.seqNo \in Nat /\ e.lifeTime \in Int
    BY <2>2, EntryFields
  <2>4. Extends(n, v, t)
    BY <2>1, IntermediateTableOK
  <2>5. x = Ip(n, o.nextHop, o.hops, b) /\ y = Ip(n, e.nextHop, e.hops, c)
    BY DEF IntermediateReply, GratuitousRrep
  <2>6. (e.hops = 1) \in BOOLEAN /\ FALSE \in BOOLEAN
    OBVIOUS
  <2> HIDE DEF e, o
  <2>7. b \in Answer /\ c \in Answer
    BY <1>1, <1>2, <2>3, <2>6, RrepBody
  <2> HIDE DEF b, c, x, y
  <2>8. /\ x \in Routed(n, S) /\ y \in Routed(n, S)
        /\ x \in Routed(n, {}) /\ y \in Routed(n, {})
    BY <1>1, <1>2, <2>2, <2>3, <2>5, <2>7, AnswerMade
  <2> HIDE DEF v
  <2>9. w \in NodeState(n, S) /\ w.table = v /\ Same(w, s) /\ NoMore(w, s)
    BY <2>4, SetTable DEF Extends, Clean
  <2>10. Mild(n, S, w, s)
    BY <2>4, <2>9 DEF Mild, Extends
  <2> HIDE DEF w
  <2>11. Mild(n, S, replied, w) /\ NoMore(replied, w)
    BY <2>8, <2>9, RouteOutputOK, RouteOutputControl DEF x
  <2>12. Mild(n, S, replied, s) /\ NoMore(replied, s)
    BY <2>9, <2>10, <2>11, MildTrans, NoMoreTrans
  <2> HIDE DEF replied
  <2> DEFINE last == RouteOutput(n, replied, y)
  <2>13. Mild(n, S, last, replied) /\ NoMore(last, replied)
    BY <2>8, <2>12, RouteOutputOK, RouteOutputControl DEF Mild
  <2> HIDE DEF last
  <2>14. Mild(n, S, last, s) /\ NoMore(last, s)
    BY <2>12, <2>13, MildTrans, NoMoreTrans
  <2> QED
    BY <2>12, <2>14 DEF y, last
<1>6. CASE r = Broadcast(n, s, k - 1, ForwardedRequest(t, m))
  <2>1. ForwardedRequest(t, m) \in Flood(n) /\ k - 1 \in Int
    BY ForwardedOK DEF Clean, Flood
  <2> QED
    BY <1>6, <2>1, BroadcastOK DEF Mild
<1>7. CASE r = s
  BY <1>7, NoMoreHere DEF Mild, Same
<1> QED
  BY <1>3, <1>4, <1>5, <1>6, <1>7

LEMMA HandleRequestOK ==
    ASSUME NEW n \in Node, NEW S, NEW s \in NodeState(n, S), NEW a \in Near(n), NEW m \in Rreq,
           m.hopCount >= 1, NEW k \in Int
    PROVE  LET r == HandleRequest(n, s, a, m, k) IN Mild(n, S, r, s) /\ NoMore(r, s)
<1> DEFINE c == Recorded(s.rreqIdCache, <<m.origin, m.id>>, PathDiscoveryTime)
           noted == [s EXCEPT !.rreqIdCache = c]
           u == RecvRequestTable(noted.table, a, m)
           b == noted.nb \cup {a}
           w == [noted EXCEPT !.table = u, !.nb = b]
           r == HandleRequest(n, s, a, m, k)
<1>1. c \in Ids
  BY Fields, RecordedOK DEF Rreq
<1>2. r = s \/ r = noted \/ r = AnswerRequest(n, w, a, m, k)
  BY DEF HandleRequest
<1> HIDE DEF c, r
<1>3. noted \in NodeState(n, S)
  BY <1>1 DEF NodeState
<1>4. /\ noted.table = s.table /\ Same(noted, s) /\ noted.nb = s.nb
      /\ noted.lo = s.lo /\ noted.out = s.out /\ noted.errors = s.errors
  BY DEF NodeState, Same
<1> HIDE DEF noted
<1>5. GoodTable(n, noted.table) /\ noted.nb \subseteq Addr \cup {NoAddr} /\ a \in Addr
  BY <1>3, Fields, NearAddr
<1>6. m.origin \in Addr /\ m.originSeqno \in Nat /\ m.hopCount \in Nat
  BY DEF Rreq
<1>7. Extends(n, u, Purge(noted.table)) /\ m.origin \in DOMAIN u /\ u[m.origin].iface = Wlan
  BY <1>5, <1>6, RecvRequestTableOK
<1>8. GoodTable(n, u) /\ Searched(u) \subseteq Searched(noted.table) /\ Clean(n, u)
  BY <1>5, <1>7, PurgeClean DEF Extends, Clean
<1>9. u \in Tables(n) /\ b \subseteq Addr \cup {NoAddr}
  BY <1>5, <1>8, TableType
<1> HIDE DEF u, b
<1>10. w \in NodeState(n, S)
  BY <1>3, <1>9 DEF NodeState
<1>11. /\ w.table = u /\ Same(w, noted)
       /\ w.lo = noted.lo /\ w.out = noted.out /\ w.errors = noted.errors
  BY <1>3 DEF NodeState, Same
<1> HIDE DEF w
<1> DEFINE z == AnswerRequest(n, w, a, m, k)
<1>12. Mild(n, S, z, w) /\ NoMore(z, w)
  BY <1>7, <1>8, <1>10, <1>11, AnswerRequestOK
<1> HIDE DEF z
<1>13. Mild(n, S, w, s) /\ Mild(n, S, noted, s) /\ Mild(n, S, s, s)
  BY <1>3, <1>4, <1>8, <1>10, <1>11 DEF Mild, Same
<1>15. NoMore(w, s) /\ NoMore(noted, s) /\ NoMore(s, s)
  BY <1>4, <1>11, NoMoreHere DEF Same
<1>14. Mild(n, S, z, s) /\ NoMore(z, s)
  BY <1>12, <1>13, <1>15, MildTrans, NoMoreTrans
<1> QED
  BY <1>2, <1>13, <1>14, <1>15 DEF r, z

LEMMA RelayReplyOK ==
    ASSUME NEW n \in Node, NEW S, NEW s \in NodeState(n, S), Clean(n, s.table), NEW m \in Answer,
           m \in Rrep, NEW k \in Int
    PROVE  LET r == RelayReply(n, s, m, k) IN Mild(n, S, r, s) /\ NoMore(r, s)
<1> DEFINE t == RelayTable(s.table, m)
           r == [s EXCEPT !.table = t]
           x == Ip(n, t[m.origin].nextHop, k - 1, m)
           q == RelayReply(n, s, m, k)
<1>1. q = IF ~HasReversePath(s.table, m) THEN s ELSE IF k < 2 THEN r ELSE RouteOutput(n, r, x)
  BY DEF RelayReply
<1>2. CASE ~HasReversePath(s.table, m)
  BY <1>1, <1>2, NoMoreHere DEF Mild, Same
<1>3. CASE HasReversePath(s.table, m)
  <2>1. Extends(n, t, s.table) /\ t[m.origin].nextHop \in Near(n)
    BY <1>3, RelayTableOK
  <2>2. k - 1 \in Int /\ n \in Addr
    BY NodeAssumption
  <2>3. x \in Routed(n, S) /\ x \in Routed(n, {})
    BY <2>1, <2>2, AnswerMade
  <2>4. q = r \/ q = RouteOutput(n, r, x)
    BY <1>1, <1>3
  <2> HIDE DEF t, x, q
  <2>5. r \in NodeState(n, S) /\ r.table = t /\ Same(r, s) /\ NoMore(r, s)
    BY <2>1, SetTable DEF Extends, Clean
  <2>6. Mild(n, S, r, s)
    BY <2>1, <2>5 DEF Mild, Extends
  <2> HIDE DEF r
  <2> DEFINE z == RouteOutput(n, r, x)
  <2>7. Mild(n, S, z, r) /\ NoMore(z, r)
    BY <2>3, <2>5, RouteOutputOK, RouteOutputControl
  <2> HIDE DEF z
  <2>8. Mild(n, S, z, s) /\ NoMore(z, s)
    BY <2>5, <2>6, <2>7, MildTrans, NoMoreTrans
  <2> QED
    BY <2>4, <2>5, <2>6, <2>8 DEF q, z
<1> QED
  BY <1>2, <1>3

-----------------------------------------------------------------------------
(* Searches and waiting packets *)

\* Somebody will look after d again: its retry timer, or a request held back.
Awake(s, d) == d \in s.retry \/ s.deferred[d] > 0

\* Every search and every packet that waits is looked after, those of the
\* addresses X perhaps excepted.
Settled(s, X) ==
    /\ \A d \in Searched(s.table) : d \in X \/ Awake(s, d)
    /\ \A e \in ToSet(s.queue) : e.dst \in X \/ Awake(s, e.dst)

LEMMA MildSettled ==
    ASSUME NEW n, NEW S, NEW s, NEW r, NEW X, Mild(n, S, r, s), Settled(s, X)
    PROVE  Settled(r, X)
  BY DEF Mild, Same, Settled, Awake

LEMMA ItemFields ==
    ASSUME NEW n, NEW S, NEW e \in Item(n, S)
    PROVE  /\ e.dst \in Addr /\ e.uid \in Routed(n, S) /\ e.expire \in Int
           /\ PacketOf(e) \in Held(n, S)
  BY DEF Item, Held, PacketOf

LEMMA InQueue ==
    ASSUME NEW n, NEW S, NEW q \in Seq(Item(n, S)), NEW e \in ToSet(q)
    PROVE  e \in Item(n, S)
  BY DEF ToSet

LEMMA PurgeQueueOK ==
    ASSUME NEW n, NEW S, NEW q \in Seq(Item(n, S))
    PROVE  PurgeQueue(q) \in Seq(Item(n, S)) /\ ToSet(PurgeQueue(q)) \subseteq ToSet(q)
<1> DEFINE I == { i \in DOMAIN q : ~Outdated(q[i]) }
<1>1. I \in SUBSET DOMAIN q
  OBVIOUS
<1>2. PurgeQueue(q) = At(q, I)
  BY DEF PurgeQueue
<1> HIDE DEF I
<1>3. At(q, I) \in Seq(Item(n, S)) /\ ToSet(At(q, I)) = { q[i] : i \in I }
  BY <1>1, AtType
<1> QED
  BY <1>1, <1>2, <1>3 DEF ToSet

LEMMA DropQueueOK ==
    ASSUME NEW n, NEW S, NEW q \in Seq(Item(n, S)), NEW d
    PROVE  /\ DropPacketWithDst(q, d) \in Seq(Item(n, S))
           /\ \A e \in ToSet(DropPacketWithDst(q, d)) : e \in ToSet(q) /\ e.dst # d
<1> DEFINE r == PurgeQueue(q)
           I == { i \in DOMAIN r : r[i].dst # d }
<1>1. r \in Seq(Item(n, S)) /\ ToSet(r) \subseteq ToSet(q)
  BY PurgeQueueOK
<1>2. DropPacketWithDst(q, d) = At(r, I)
  BY DEF DropPacketWithDst
<1> HIDE DEF r
<1>3. I \in SUBSET DOMAIN r /\ \A i \in I : r[i].dst # d
  OBVIOUS
<1> HIDE DEF I
<1>4. At(r, I) \in Seq(Item(n, S)) /\ ToSet(At(r, I)) = { r[i] : i \in I }
  BY <1>1, <1>3, AtType
<1>5. \A i \in I : r[i] \in ToSet(r)
  BY <1>3 DEF ToSet
<1> QED
  BY <1>1, <1>2, <1>3, <1>4, <1>5

LEMMA QueueErrorsOK ==
    ASSUME NEW n, NEW S, NEW q \in Seq(Item(n, S)), NEW d
    PROVE  PurgeErrors(q) \subseteq Held(n, S) /\ DropErrors(q, d) \subseteq Held(n, S)
<1>1. \A e \in ToSet(q) : PacketOf(e) \in Held(n, S)
  BY InQueue, ItemFields
<1> QED
  BY <1>1 DEF PurgeErrors, DropErrors

LEMMA EnqueueOK ==
    ASSUME NEW n, NEW S, NEW q \in Seq(Item(n, S)), NEW p \in Held(n, S)
    PROVE  LET r == Enqueue(q, p, MaxQueueLen, MaxQueueTime)
           IN  /\ r \in Seq(Item(n, S))
               /\ \A e \in ToSet(r) : e \in ToSet(q) \/ e.dst = p.dst
               /\ Holds(PurgeQueue(q), p) => ToSet(r) \subseteq ToSet(q)
               /\ EnqueueErrors(q, p, MaxQueueLen) \subseteq Held(n, S)
<1> DEFINE r == PurgeQueue(q)
           w == IF Len(r) = MaxQueueLen THEN Tail(r) ELSE r
           i == QueueEntry(p, MaxQueueTime)
           u == Enqueue(q, p, MaxQueueLen, MaxQueueTime)
<1>1. r \in Seq(Item(n, S)) /\ ToSet(r) \subseteq ToSet(q)
  BY PurgeQueueOK
<1>2. u = IF Holds(r, p) THEN r ELSE Append(w, i)
  BY DEF Enqueue
<1>3. i \in Item(n, S) /\ i.dst = p.dst
  BY LimitAssumption DEF QueueEntry, Item, Held
<1>4. EnqueueErrors(q, p, MaxQueueLen) \subseteq
          PurgeErrors(q) \cup (IF Len(r) = MaxQueueLen THEN {PacketOf(Head(r))} ELSE {})
  BY DEF EnqueueErrors
<1> HIDE DEF r, i
<1>5. Len(r) = MaxQueueLen => Head(r) \in Item(n, S)
  <2>1. ASSUME Len(r) = MaxQueueLen PROVE r # << >>
    BY <2>1, LimitAssumption
  <2> QED
    BY <1>1, <2>1
<1>6. w \in Seq(Item(n, S)) /\ ToSet(w) \subseteq ToSet(r)
  <2>1. CASE Len(r) = MaxQueueLen
    <3>1. Len(r) \in Nat /\ Len(r) > 0 /\ r # << >>
      BY <1>1, <2>1, LimitAssumption
    <3>2. w = Tail(r)
      BY <2>1
    <3>3. Tail(r) \in Seq(Item(n, S)) /\ DOMAIN Tail(r) = 1 .. Len(r) - 1
          /\ \A j \in 1 .. Len(r) - 1 : Tail(r)[j] = r[j + 1]
      BY <1>1, <3>1
    <3>4. \A j \in 1 .. Len(r) - 1 : j + 1 \in DOMAIN r
      BY <1>1, <3>1
    <3> QED
      BY <3>2, <3>3, <3>4 DEF ToSet
  <2>2. CASE Len(r) # MaxQueueLen
    BY <1>1, <2>2
  <2> QED
    BY <2>1, <2>2
<1> HIDE DEF w
<1>7. Append(w, i) \in Seq(Item(n, S)) /\ \A e \in ToSet(Append(w, i)) : e \in ToSet(w) \/ e = i
  <2>1. DOMAIN Append(w, i) = 1 .. Len(w) + 1 /\ DOMAIN w = 1 .. Len(w) /\ Len(w) \in Nat
    BY <1>3, <1>6
  <2>2. \A j \in 1 .. Len(w) + 1 : j \in 1 .. Len(w) \/ j = Len(w) + 1
    BY <2>1
  <2>3. \A j \in DOMAIN w : Append(w, i)[j] = w[j]
    BY <1>3, <1>6
  <2>4. Append(w, i)[Len(w) + 1] = i
    BY <1>3, <1>6
  <2> QED
    BY <1>3, <1>6, <2>1, <2>2, <2>3, <2>4 DEF ToSet
<1>8. EnqueueErrors(q, p, MaxQueueLen) \subseteq Held(n, S)
  BY <1>4, <1>5, QueueErrorsOK, ItemFields
<1>9. Holds(r, p) => u = r
  BY <1>2
<1>10. ~Holds(r, p) => u = Append(w, i)
  BY <1>2
<1> HIDE DEF u
<1>11. u \in Seq(Item(n, S)) /\ \A e \in ToSet(u) : e \in ToSet(q) \/ e.dst = p.dst
  BY <1>1, <1>3, <1>6, <1>7, <1>9, <1>10
<1>12. Holds(r, p) => ToSet(u) \subseteq ToSet(q)
  BY <1>1, <1>9
<1> QED
  BY <1>8, <1>11, <1>12 DEF u, r

LEMMA AgeQueueOK ==
    ASSUME NEW n, NEW S, NEW q \in Seq(Item(n, S))
    PROVE  /\ AgeQueue(q) \in Seq(Item(n, S)) /\ DOMAIN AgeQueue(q) = DOMAIN q
           /\ \A i \in DOMAIN q : AgeQueue(q)[i].uid = q[i].uid
           /\ \A e \in ToSet(AgeQueue(q)) : \E x \in ToSet(q) : e.dst = x.dst
<1> DEFINE k(i) == IF q[i].expire < 0 THEN q[i].expire ELSE q[i].expire - 1
           r == AgeQueue(q)
<1>1. r = [ i \in DOMAIN q |-> [q[i] EXCEPT !.expire = k(i)] ]
  BY DEF AgeQueue
<1>2. DOMAIN q = 1 .. Len(q) /\ Len(q) \in Nat /\ \A i \in DOMAIN q : q[i] \in Item(n, S)
  OBVIOUS
<1>3. \A i \in DOMAIN q : k(i) \in Int
  BY <1>2, ItemFields
<1> HIDE DEF k, r
<1>4. \A i \in DOMAIN q : r[i] \in Item(n, S) /\ r[i].dst = q[i].dst /\ r[i].uid = q[i].uid
  <2> SUFFICES ASSUME NEW i \in DOMAIN q
               PROVE  r[i] \in Item(n, S) /\ r[i].dst = q[i].dst /\ r[i].uid = q[i].uid
    OBVIOUS
  <2> DEFINE l == k(i)
             e == q[i]
  <2>1. r[i] = [e EXCEPT !.expire = l] /\ l \in Int /\ e \in Item(n, S)
    BY <1>1, <1>2, <1>3
  <2> HIDE DEF l, e
  <2>2. r[i] \in Item(n, S) /\ r[i].dst = e.dst /\ r[i].uid = e.uid
    BY <2>1 DEF Item
  <2> QED
    BY <2>2 DEF e
<1>5. r \in [1 .. Len(q) -> Item(n, S)]
  BY <1>1, <1>2, <1>4
<1>6. r \in Seq(Item(n, S)) /\ DOMAIN r = DOMAIN q
  BY <1>2, <1>5
<1> QED
  BY <1>4, <1>6 DEF ToSet, r

-----------------------------------------------------------------------------
(* One place for every application packet *)

\* s keeps p in one place at most.
Single(s, p) ==
    /\ \A i, j \in LoAt(s, p) : i = j
    /\ \A i, j \in QueueAt(s, p) : i = j
    /\ \A g, h \in OutAt(s, p) : g = h
    /\ LoAt(s, p) = {} \/ QueueAt(s, p) = {}
    /\ LoAt(s, p) = {} \/ OutAt(s, p) = {}
    /\ LoAt(s, p) = {} \/ BackAt(s, p) = {}
    /\ QueueAt(s, p) = {} \/ OutAt(s, p) = {}
    /\ QueueAt(s, p) = {} \/ BackAt(s, p) = {}
    /\ OutAt(s, p) = {} \/ BackAt(s, p) = {}

Has(s, p) == LoAt(s, p) # {} \/ QueueAt(s, p) # {} \/ OutAt(s, p) # {} \/ BackAt(s, p) # {}

\* From s to r packets move or go, and none is doubled or comes in.
Conserves(r, s) == \A p : Single(s, p) => Single(r, p) /\ (Has(r, p) => Has(s, p))

LEMMA ConservesTrans ==
    ASSUME NEW s, NEW r, NEW q, Conserves(r, s), Conserves(q, r)
    PROVE  Conserves(q, s)
  BY DEF Conserves

LEMMA Fewer ==
    ASSUME NEW s, NEW r, NEW p, Single(s, p),
           LoAt(r, p) \subseteq LoAt(s, p), QueueAt(r, p) \subseteq QueueAt(s, p),
           OutAt(r, p) \subseteq OutAt(s, p), BackAt(r, p) \subseteq BackAt(s, p)
    PROVE  Single(r, p) /\ (Has(r, p) => Has(s, p))
<1>1. Single(r, p)
  BY DEF Single
<1>2. Has(r, p) => Has(s, p)
  BY DEF Has
<1> QED
  BY <1>1, <1>2

LEMMA NoMoreConserves ==
    ASSUME NEW s, NEW r, NoMore(r, s)
    PROVE  Conserves(r, s)
<1> SUFFICES ASSUME NEW p, Single(s, p) PROVE Single(r, p) /\ (Has(r, p) => Has(s, p))
  BY DEF Conserves
<1>1. /\ LoAt(r, p) \subseteq LoAt(s, p) /\ QueueAt(r, p) \subseteq QueueAt(s, p)
      /\ OutAt(r, p) \subseteq OutAt(s, p) /\ BackAt(r, p) \subseteq BackAt(s, p)
  BY DEF NoMore
<1> QED
  BY <1>1, Fewer

\* A packet that s does not keep yet is put into one place.
LEMMA PutsSingle ==
    ASSUME NEW n, NEW S, NEW s \in NodeState(n, S), NEW x, NEW r, Puts(n, r, s, x),
           r.queue = s.queue, NEW p, Single(s, p), Carries(x, p) => ~Has(s, p)
    PROVE  Single(r, p) /\ (Has(r, p) => Has(s, p) \/ Carries(x, p))
<1>1. QueueAt(r, p) = QueueAt(s, p)
  BY DEF QueueAt
<1>2. CASE r.lo = Append(s.lo, x) /\ r.out = s.out /\ r.errors = s.errors
  <2>1. s.lo \in Seq(Routed(n, S)) /\ Len(s.lo) \in Nat
    BY Fields
  <2>2. \A i \in DOMAIN r.lo : \/ i \in DOMAIN s.lo /\ r.lo[i] = s.lo[i]
                               \/ i = Len(s.lo) + 1 /\ r.lo[i] = x
    BY <1>2, <2>1
  <2>3. OutAt(r, p) = OutAt(s, p) /\ BackAt(r, p) = BackAt(s, p)
    BY <1>2 DEF OutAt, BackAt
  <2>4. \A i \in LoAt(r, p) : i \in LoAt(s, p) \/ (Carries(x, p) /\ i = Len(s.lo) + 1)
    BY <2>2 DEF LoAt
  <2>5. CASE Carries(x, p)
    BY <1>1, <2>3, <2>4, <2>5 DEF Single, Has
  <2>6. CASE ~Carries(x, p)
    BY <1>1, <2>3, <2>4, <2>6, Fewer
  <2> QED
    BY <2>5, <2>6
<1>3. CASE /\ r.lo = s.lo /\ r.errors = s.errors
           /\ \E hop : r.out = s.out \cup {Frame(n, hop, x)}
  <2>1. PICK hop : r.out = s.out \cup {Frame(n, hop, x)}
    BY <1>3
  <2> DEFINE f == Frame(n, hop, x)
  <2>2. f.ip = x
    BY DEF Frame
  <2> HIDE DEF f
  <2>3. \A g \in OutAt(r, p) : g \in OutAt(s, p) \/ (Carries(x, p) /\ g = f)
    BY <2>1, <2>2 DEF OutAt, f
  <2>4. LoAt(r, p) = LoAt(s, p) /\ BackAt(r, p) = BackAt(s, p)
    BY <1>3 DEF LoAt, BackAt
  <2>5. CASE Carries(x, p)
    BY <1>1, <2>3, <2>4, <2>5 DEF Single, Has
  <2>6. CASE ~Carries(x, p)
    BY <1>1, <2>3, <2>4, <2>6, Fewer
  <2> QED
    BY <2>5, <2>6
<1>4. CASE r.lo = s.lo /\ r.out = s.out /\ r.errors = s.errors \cup {Queued(x)}
  <2>1. Queued(x).uid = x
    BY DEF Queued
  <2>2. \A e \in BackAt(r, p) : e \in BackAt(s, p) \/ Carries(x, p)
    BY <1>4, <2>1 DEF BackAt
  <2>3. LoAt(r, p) = LoAt(s, p) /\ OutAt(r, p) = OutAt(s, p)
    BY <1>4 DEF LoAt, OutAt
  <2>4. CASE Carries(x, p)
    BY <1>1, <2>2, <2>3, <2>4 DEF Single, Has
  <2>5. CASE ~Carries(x, p)
    BY <1>1, <2>2, <2>3, <2>5, Fewer
  <2> QED
    BY <2>4, <2>5
<1> QED
  BY <1>2, <1>3, <1>4 DEF Puts

\* p is at most once in the queue q.
Once(q, p) == \A i, j \in DOMAIN q : Carries(q[i].uid, p) /\ Carries(q[j].uid, p) => i = j

LEMMA OnceAt ==
    ASSUME NEW X, NEW q \in Seq(X), NEW I \in SUBSET DOMAIN q, NEW p, Once(q, p)
    PROVE  Once(At(q, I), p)
<1> DEFINE c == Cardinality(I)
           r == At(q, I)
<1>1. Len(q) \in Nat /\ DOMAIN q = 1 .. Len(q) /\ I \in SUBSET (1 .. Len(q))
  OBVIOUS
<1>2. DOMAIN r = 1 .. c /\ \A k \in 1 .. c : r[k] = q[Position(I, k)]
  BY DEF At
<1>3. c \in Nat /\ \A k \in 1 .. c : Position(I, k) \in I
  BY <1>1, BeforeOrdered, PositionRight
<1>4. \A k, l \in 1 .. c : k < l => Position(I, k) < Position(I, l)
  BY <1>1, PositionOrdered
<1> HIDE DEF c, r
<1> SUFFICES ASSUME NEW k \in 1 .. c, NEW l \in 1 .. c, Carries(r[k].uid, p), Carries(r[l].uid, p)
             PROVE  k = l
  BY <1>2 DEF Once, r
<1>5. Position(I, k) \in DOMAIN q /\ Position(I, l) \in DOMAIN q
  BY <1>3
<1>6. Position(I, k) = Position(I, l)
  BY <1>2, <1>5 DEF Once
<1>7. ~(k < l) /\ ~(l < k)
  BY <1>1, <1>3, <1>4, <1>6
<1> QED
  BY <1>3, <1>7

LEMMA PurgeOnce ==
    ASSUME NEW n, NEW S, NEW q \in Seq(Item(n, S)), NEW p, Once(q, p)
    PROVE  /\ Once(PurgeQueue(q), p)
           /\ \A e \in ToSet(PurgeQueue(q)) : e \in ToSet(q) /\ ~Outdated(e)
<1> DEFINE I == { i \in DOMAIN q : ~Outdated(q[i]) }
<1>1. I \in SUBSET DOMAIN q /\ \A i \in I : ~Outdated(q[i])
  OBVIOUS
<1>2. PurgeQueue(q) = At(q, I)
  BY DEF PurgeQueue
<1> HIDE DEF I
<1>3. Once(At(q, I), p) /\ ToSet(At(q, I)) = { q[i] : i \in I }
  BY <1>1, OnceAt, AtType
<1> QED
  BY <1>1, <1>2, <1>3 DEF ToSet

LEMMA DropOnce ==
    ASSUME NEW n, NEW S, NEW q \in Seq(Item(n, S)), NEW d, NEW p, Once(q, p)
    PROVE  /\ Once(DropPacketWithDst(q, d), p)
           /\ \A e \in ToSet(DropPacketWithDst(q, d)) : e \in ToSet(q) /\ ~Outdated(e) /\ e.dst # d
<1> DEFINE r == PurgeQueue(q)
           I == { i \in DOMAIN r : r[i].dst # d }
<1>1. r \in Seq(Item(n, S)) /\ Once(r, p) /\ \A e \in ToSet(r) : ~Outdated(e)
  BY PurgeQueueOK, PurgeOnce
<1>2. DropPacketWithDst(q, d) = At(r, I)
  BY DEF DropPacketWithDst
<1> HIDE DEF r
<1>3. I \in SUBSET DOMAIN r
  OBVIOUS
<1> HIDE DEF I
<1>4. Once(At(r, I), p) /\ ToSet(At(r, I)) = { r[i] : i \in I }
  BY <1>1, <1>3, OnceAt, AtType
<1>5. \A e \in ToSet(At(r, I)) : e \in ToSet(r)
  BY <1>3, <1>4 DEF ToSet
<1> QED
  BY <1>1, <1>2, <1>4, <1>5, DropQueueOK

LEMMA OnceSingle ==
    ASSUME NEW s, NEW p
    PROVE  /\ Once(s.queue, p) <=> \A i, j \in QueueAt(s, p) : i = j
           /\ QueueAt(s, p) # {} <=> \E e \in ToSet(s.queue) : Carries(e.uid, p)
           /\ Once(s.queue, p) =>
                \A e, f \in ToSet(s.queue) : Carries(e.uid, p) /\ Carries(f.uid, p) => e = f
<1>1. Once(s.queue, p) <=> \A i, j \in QueueAt(s, p) : i = j
  BY DEF Once, QueueAt
<1>2. QueueAt(s, p) # {} <=> \E e \in ToSet(s.queue) : Carries(e.uid, p)
  BY DEF QueueAt, ToSet
<1>3. ASSUME Once(s.queue, p), NEW e \in ToSet(s.queue), NEW f \in ToSet(s.queue),
             Carries(e.uid, p), Carries(f.uid, p)
      PROVE  e = f
  <2>1. PICK i \in DOMAIN s.queue, j \in DOMAIN s.queue : e = s.queue[i] /\ f = s.queue[j]
    BY DEF ToSet
  <2> QED
    BY <1>3, <2>1 DEF Once
<1> QED
  BY <1>1, <1>2, <1>3

\* The entries of the queue with p are dealt out: K stay, O leave for the radio
\* as G says, B are given back.
Deals(r, s, p, K, O, B, G) ==
    /\ \A e \in K \cup O \cup B : e \in ToSet(s.queue) /\ Carries(e.uid, p)
    /\ K \cap O = {} /\ K \cap B = {} /\ O \cap B = {}
    /\ Once(r.queue, p) /\ \A e \in ToSet(r.queue) : Carries(e.uid, p) => e \in K
    /\ \A g \in OutAt(r, p) : g \in OutAt(s, p) \/ \E e \in O : g = G[e]
    /\ \A e \in BackAt(r, p) : e \in BackAt(s, p) \/ B # {}
    /\ \A i, j \in LoAt(r, p) : i = j
    /\ LoAt(r, p) # {} => LoAt(s, p) # {}

LEMMA Dealt ==
    ASSUME NEW s, NEW r, NEW p, Single(s, p), NEW K, NEW O, NEW B, NEW G,
           Deals(r, s, p, K, O, B, G)
    PROVE  Single(r, p) /\ (Has(r, p) => Has(s, p))
<1> USE DEF Deals
<1>1. Once(s.queue, p)
  BY OnceSingle DEF Single
<1>2. \A e, f \in K \cup O \cup B : e = f
  BY <1>1, OnceSingle
<1>3. K \cup O \cup B # {} => QueueAt(s, p) # {}
  BY OnceSingle
<1>4. /\ \A i, j \in QueueAt(r, p) : i = j
      /\ QueueAt(r, p) # {} => K # {}
  BY OnceSingle
<1>5. CASE QueueAt(s, p) = {}
  <2>1. K = {} /\ O = {} /\ B = {}
    BY <1>3, <1>5
  <2>2. QueueAt(r, p) = {} /\ OutAt(r, p) \subseteq OutAt(s, p) /\ BackAt(r, p) \subseteq BackAt(s, p)
    BY <1>4, <2>1
  <2>3. Single(r, p)
    BY <2>2 DEF Single
  <2>4. Has(r, p) => Has(s, p)
    BY <2>2 DEF Has
  <2> QED
    BY <2>3, <2>4
<1>6. CASE QueueAt(s, p) # {}
  <2>1. LoAt(r, p) = {} /\ OutAt(s, p) = {} /\ BackAt(s, p) = {} /\ Has(s, p)
    BY <1>6 DEF Single, Has
  <2>2. \A g \in OutAt(r, p) : \E e \in O : g = G[e]
    BY <2>1
  <2>3. \A g, h \in OutAt(r, p) : g = h
    BY <1>2, <2>2
  <2>4. (OutAt(r, p) # {} => O # {}) /\ (BackAt(r, p) # {} => B # {})
    BY <2>1, <2>2
  <2>5. (K = {} \/ O = {}) /\ (K = {} \/ B = {}) /\ (O = {} \/ B = {})
    BY <1>2
  <2> QED
    BY <1>4, <2>1, <2>3, <2>4, <2>5 DEF Single
<1> QED
  BY <1>5, <1>6

\* A packet leaves the loopback device.
LEMMA TailLo ==
    ASSUME NEW n, NEW S, NEW s \in NodeState(n, S), s.lo # << >>, NEW r, r.lo = Tail(s.lo), NEW p,
           Single(s, p)
    PROVE  /\ \A i, j \in LoAt(r, p) : i = j
           /\ LoAt(r, p) # {} => LoAt(s, p) # {}
           /\ Carries(Head(s.lo), p) => LoAt(s, p) # {} /\ LoAt(r, p) = {}
<1>1. s.lo \in Seq(Routed(n, S))
  BY Fields
<1>2. /\ Len(s.lo) \in Nat /\ Len(s.lo) >= 1 /\ DOMAIN s.lo = 1 .. Len(s.lo) /\ Head(s.lo) = s.lo[1]
      /\ DOMAIN r.lo = 1 .. Len(s.lo) - 1 /\ \A i \in DOMAIN r.lo : r.lo[i] = s.lo[i + 1]
  BY <1>1
<1>3. \A i \in LoAt(r, p) : i \in Int /\ i >= 1 /\ i + 1 \in LoAt(s, p)
  BY <1>2 DEF LoAt
<1>4. \A i, j \in LoAt(s, p) : i = j
  BY DEF Single
<1>5. \A i, j \in LoAt(r, p) : i = j
  <2> SUFFICES ASSUME NEW i \in LoAt(r, p), NEW j \in LoAt(r, p) PROVE i = j
    OBVIOUS
  <2>1. i + 1 = j + 1 /\ i \in Int /\ j \in Int
    BY <1>3, <1>4
  <2> QED
    BY <2>1
<1>6. ASSUME Carries(Head(s.lo), p) PROVE LoAt(s, p) # {} /\ LoAt(r, p) = {}
  <2>1. 1 \in LoAt(s, p)
    BY <1>2, <1>6 DEF LoAt
  <2>2. ASSUME NEW i \in LoAt(r, p) PROVE FALSE
    <3>1. i + 1 = 1 /\ i \in Int /\ i >= 1
      BY <1>3, <1>4, <2>1
    <3> QED
      BY <3>1
  <2> QED
    BY <2>1, <2>2
<1> QED
  BY <1>3, <1>5, <1>6

LEMMA TailConserves ==
    ASSUME NEW n, NEW S, NEW s \in NodeState(n, S), s.lo # << >>, NEW r, r.lo = Tail(s.lo),
           r.queue = s.queue, r.out = s.out, r.errors = s.errors
    PROVE  Conserves(r, s)
<1> SUFFICES ASSUME NEW p, Single(s, p) PROVE Single(r, p) /\ (Has(r, p) => Has(s, p))
  BY DEF Conserves
<1>1. QueueAt(r, p) = QueueAt(s, p) /\ OutAt(r, p) = OutAt(s, p) /\ BackAt(r, p) = BackAt(s, p)
  BY DEF QueueAt, OutAt, BackAt
<1>2. (\A i, j \in LoAt(r, p) : i = j) /\ (LoAt(r, p) # {} => LoAt(s, p) # {})
  BY TailLo
<1>3. Single(r, p)
  BY <1>1, <1>2 DEF Single
<1>4. Has(r, p) => Has(s, p)
  BY <1>1, <1>2 DEF Has
<1> QED
  BY <1>3, <1>4

\* A packet that is not in the queue yet joins it once; what is given back is
\* no longer in it.
LEMMA EnqueueOnce ==
    ASSUME NEW n, NEW S, NEW q \in Seq(Item(n, S)), NEW h \in Held(n, S), NEW p, Once(q, p),
           Carries(h.uid, p) => \A e \in ToSet(q) : ~Carries(e.uid, p)
    PROVE  LET u == Enqueue(q, h, MaxQueueLen, MaxQueueTime)
           IN  /\ Once(u, p)
               /\ \A e \in ToSet(u) : Carries(e.uid, p) /\ ~Carries(h.uid, p) =>
                                        e \in ToSet(q) /\ ~Outdated(e)
               /\ \A b \in EnqueueErrors(q, h, MaxQueueLen) : Carries(b.uid, p) =>
                     \E y \in ToSet(q) : Carries(y.uid, p) /\ (Outdated(y) \/ y \notin ToSet(u))
<1> DEFINE r == PurgeQueue(q)
           w == IF Len(r) = MaxQueueLen THEN Tail(r) ELSE r
           i == QueueEntry(h, MaxQueueTime)
           u == Enqueue(q, h, MaxQueueLen, MaxQueueTime)
           b == EnqueueErrors(q, h, MaxQueueLen)
<1>1. /\ r \in Seq(Item(n, S)) /\ Once(r, p)
      /\ \A e \in ToSet(r) : e \in ToSet(q) /\ ~Outdated(e)
  BY PurgeQueueOK, PurgeOnce
<1>2. u = IF Holds(r, h) THEN r ELSE Append(w, i)
  BY DEF Enqueue
<1>3. i \in Item(n, S) /\ i.uid = h.uid
  BY LimitAssumption DEF QueueEntry, Item, Held
<1>4. \A x \in b : \/ \E y \in ToSet(q) : Outdated(y) /\ x = PacketOf(y)
                   \/ ~Holds(r, h) /\ Len(r) = MaxQueueLen /\ x = PacketOf(Head(r))
  BY DEF EnqueueErrors, PurgeErrors
<1>5. \A y : PacketOf(y).uid = y.uid
  BY DEF PacketOf
<1>6. CASE Holds(r, h)
  <2>1. u = r
    BY <1>2, <1>6
  <2> HIDE DEF r, u, b
  <2>2. ASSUME NEW x \in b, Carries(x.uid, p)
        PROVE  \E y \in ToSet(q) : Carries(y.uid, p) /\ (Outdated(y) \/ y \notin ToSet(u))
    BY <1>4, <1>5, <1>6, <2>2
  <2> QED
    BY <1>1, <2>1, <2>2 DEF u, b
<1>7. CASE ~Holds(r, h)
  <2>1. u = Append(w, i)
    BY <1>2, <1>7
  <2> HIDE DEF r, i, u, b
  <2>m. MaxQueueLen \in Nat \ {0}
    BY LimitAssumption
  <2>2. Len(r) = MaxQueueLen => r # << >> /\ Len(r) >= 1
    BY <1>1, <2>m
  <2>3. PICK c \in {0, 1} : /\ w \in Seq(Item(n, S))
                            /\ Len(r) = MaxQueueLen => c = 1
                            /\ \A j \in DOMAIN w : j + c \in DOMAIN r /\ w[j] = r[j + c]
    <3>1. CASE Len(r) = MaxQueueLen
      <4>1. /\ w = Tail(r) /\ Tail(r) \in Seq(Item(n, S)) /\ DOMAIN Tail(r) = 1 .. Len(r) - 1
            /\ \A j \in 1 .. Len(r) - 1 : Tail(r)[j] = r[j + 1] /\ j + 1 \in DOMAIN r
        BY <1>1, <2>2, <3>1
      <4> QED
        BY <4>1
    <3>2. CASE Len(r) # MaxQueueLen
      <4>1. w = r /\ \A j \in DOMAIN r : j + 0 = j
        BY <1>1, <3>2
      <4> QED
        BY <1>1, <3>2, <4>1
    <3> QED
      BY <3>1, <3>2
  <2> HIDE DEF w
  <2>4. /\ Len(w) \in Nat /\ DOMAIN w = 1 .. Len(w) /\ DOMAIN u = 1 .. Len(w) + 1
        /\ \A j \in DOMAIN w : u[j] = w[j] /\ u[Len(w) + 1] = i
    BY <1>3, <2>1, <2>3
  <2>5. \A j \in DOMAIN u : \/ j \in DOMAIN w /\ u[j] = w[j] /\ u[j] \in ToSet(r)
                            \/ j = Len(w) + 1 /\ u[j] = i
    <3>1. u[Len(w) + 1] = i
      BY <1>3, <2>1, <2>3
    <3> QED
      BY <2>3, <2>4, <3>1 DEF ToSet
  <2>6. \A j, k \in DOMAIN w : Carries(w[j].uid, p) /\ Carries(w[k].uid, p) => j = k
    <3> SUFFICES ASSUME NEW j \in DOMAIN w, NEW k \in DOMAIN w, Carries(w[j].uid, p),
                        Carries(w[k].uid, p)
                 PROVE  j = k
      OBVIOUS
    <3>1. j + c = k + c
      BY <1>1, <2>3 DEF Once
    <3> QED
      BY <2>3, <2>4, <3>1
  <2>7. Once(u, p)
    <3>1. CASE Carries(h.uid, p)
      <4>1. \A j \in DOMAIN u : Carries(u[j].uid, p) => j = Len(w) + 1
        BY <1>1, <2>5, <3>1
      <4> QED
        BY <4>1 DEF Once
    <3>2. CASE ~Carries(h.uid, p)
      <4>1. \A j \in DOMAIN u : Carries(u[j].uid, p) => j \in DOMAIN w /\ u[j] = w[j]
        BY <1>3, <2>5, <3>2
      <4> QED
        BY <2>6, <4>1 DEF Once
    <3> QED
      BY <3>1, <3>2
  <2>8. ASSUME NEW e \in ToSet(u), Carries(e.uid, p), ~Carries(h.uid, p)
        PROVE  e \in ToSet(q) /\ ~Outdated(e)
    BY <1>1, <1>3, <2>5, <2>8 DEF ToSet
  <2>9. ASSUME NEW x \in b, Carries(x.uid, p)
        PROVE  \E y \in ToSet(q) : Carries(y.uid, p) /\ (Outdated(y) \/ y \notin ToSet(u))
    <3>1. CASE \E y \in ToSet(q) : Outdated(y) /\ x = PacketOf(y)
      BY <1>5, <2>9, <3>1
    <3>2. CASE Len(r) = MaxQueueLen /\ x = PacketOf(Head(r))
      <4> DEFINE y == Head(r)
      <4>1. 1 \in DOMAIN r /\ y = r[1] /\ c = 1
        BY <1>1, <2>2, <2>3, <3>2
      <4>2. Carries(y.uid, p) /\ y \in ToSet(r)
        BY <1>5, <2>9, <3>2, <4>1 DEF ToSet
      <4>3. ~Carries(h.uid, p)
        BY <1>1, <4>2
      <4>4. ASSUME NEW j \in DOMAIN u, u[j] = y PROVE FALSE
        <5>1. j \in DOMAIN w /\ w[j] = y
          BY <1>3, <2>5, <4>2, <4>3, <4>4
        <5>2. j + 1 \in DOMAIN r /\ r[j + 1] = y
          BY <2>3, <4>1, <5>1
        <5>3. j + 1 = 1
          BY <1>1, <4>1, <4>2, <5>2 DEF Once
        <5> QED
          BY <2>4, <5>1, <5>3
      <4>5. y \notin ToSet(u)
        BY <4>4 DEF ToSet
      <4> QED
        BY <1>1, <4>2, <4>5
    <3> QED
      BY <1>4, <2>9, <3>1, <3>2
  <2> QED
    BY <2>7, <2>8, <2>9 DEF u, b
<1> QED
  BY <1>6, <1>7

LEMMA EnqueueConserves ==
    ASSUME NEW n, NEW S, NEW s \in NodeState(n, S), s.lo # << >>, NEW h, h = Queued(Head(s.lo)),
           NEW r, r.lo = Tail(s.lo), r.out = s.out,
           r.queue = Enqueue(s.queue, h, MaxQueueLen, MaxQueueTime),
           r.errors = EnqueueErrors(s.queue, h, MaxQueueLen)
    PROVE  Conserves(r, s)
<1> SUFFICES ASSUME NEW p, Single(s, p) PROVE Single(r, p) /\ (Has(r, p) => Has(s, p))
  BY DEF Conserves
<1>1. /\ s.queue \in Seq(Item(n, S)) /\ s.lo \in Seq(Routed(n, S)) /\ Head(s.lo) \in Routed(n, S)
      /\ h \in Held(n, S) /\ h.uid = Head(s.lo)
  <2>1. s.queue \in Seq(Item(n, S)) /\ s.lo \in Seq(Routed(n, S))
    BY Fields
  <2>2. Head(s.lo) \in Routed(n, S)
    BY <2>1
  <2>3. h.uid = Head(s.lo)
    BY DEF Queued
  <2> QED
    BY <2>1, <2>2, <2>3, RoutedTypes
<1>2. /\ \A i, j \in LoAt(r, p) : i = j
      /\ LoAt(r, p) # {} => LoAt(s, p) # {}
      /\ Carries(h.uid, p) => LoAt(s, p) # {} /\ LoAt(r, p) = {}
  BY <1>1, TailLo
<1>3. Once(s.queue, p)
  BY OnceSingle DEF Single
<1>4. Carries(h.uid, p) => QueueAt(s, p) = {} /\ OutAt(s, p) = {} /\ Has(s, p)
  BY <1>2 DEF Single, Has
<1>5. Carries(h.uid, p) => \A e \in ToSet(s.queue) : ~Carries(e.uid, p)
  BY <1>4, OnceSingle
<1>6. /\ Once(r.queue, p)
      /\ \A e \in ToSet(r.queue) : Carries(e.uid, p) /\ ~Carries(h.uid, p) =>
                                     e \in ToSet(s.queue) /\ ~Outdated(e)
      /\ \A b \in r.errors : Carries(b.uid, p) =>
            \E y \in ToSet(s.queue) :
              Carries(y.uid, p) /\ (Outdated(y) \/ y \notin ToSet(r.queue))
  BY <1>1, <1>3, <1>5, EnqueueOnce
<1>7. OutAt(r, p) = OutAt(s, p)
  BY DEF OutAt
<1>8. CASE Carries(h.uid, p)
  <2>1. BackAt(r, p) = {}
    BY <1>5, <1>6, <1>8 DEF BackAt
  <2>2. \A i, j \in QueueAt(r, p) : i = j
    BY <1>6, OnceSingle
  <2>3. OutAt(r, p) = {} /\ LoAt(r, p) = {} /\ Has(s, p)
    BY <1>2, <1>4, <1>7, <1>8
  <2> QED
    BY <2>1, <2>2, <2>3 DEF Single
<1>9. CASE ~Carries(h.uid, p)
  <2> DEFINE Q == { e \in ToSet(s.queue) : Carries(e.uid, p) }
             K == { e \in Q : ~Outdated(e) /\ e \in ToSet(r.queue) }
             O == {}
             B == { e \in Q : Outdated(e) \/ e \notin ToSet(r.queue) }
             G == << >>
  <2>1. /\ \A e \in K \cup O \cup B : e \in ToSet(s.queue) /\ Carries(e.uid, p)
        /\ K \cap O = {} /\ K \cap B = {} /\ O \cap B = {}
    OBVIOUS
  <2>2. \A e \in ToSet(r.queue) : Carries(e.uid, p) => e \in K
    BY <1>6, <1>9
  <2>3. \A e \in BackAt(r, p) : e \in BackAt(s, p) \/ B # {}
    BY <1>6 DEF BackAt
  <2>4. \A g \in OutAt(r, p) : g \in OutAt(s, p) \/ \E e \in O : g = G[e]
    BY <1>7
  <2> HIDE DEF K, O, B, G
  <2>5. Deals(r, s, p, K, O, B, G)
    BY <1>2, <1>6, <2>1, <2>2, <2>3, <2>4 DEF Deals
  <2> QED
    BY <2>5, Dealt
<1> QED
  BY <1>8, <1>9

-----------------------------------------------------------------------------
(* Handlers that send, answer or give up a search *)

LEMMA BroadcastRequestOK ==
    ASSUME NEW n \in Node, NEW S, NEW s \in NodeState(n, S), NEW d \in Addr \ {n}, Settled(s, {d}),
           s.rreqCount # RreqRateLimit
    PROVE  LET r == BroadcastRequest(n, s, d)
           IN  r \in NodeState(n, S) /\ Settled(r, {}) /\ NoMore(r, s)
<1> DEFINE k == s.rreqCount + 1
           q == NextSeqNo(s.seqNo)
           i == s.requestId + 1
           w == s.retry \cup {d}
           u == SendRequestTable(s.table, d)
           c == [s EXCEPT !.rreqCount = k, !.seqNo = q, !.requestId = i, !.retry = w, !.table = u]
           ids == Recorded(c.rreqIdCache, <<n, c.requestId>>, PathDiscoveryTime)
           v == [c EXCEPT !.rreqIdCache = ids]
           h == SendRequestHeader(s.table, d, n, c.seqNo, c.requestId)
           b == Broadcast(n, v, SearchTtl(s.table, d), h)
           r == BroadcastRequest(n, s, d)
<1>1. GoodTable(n, s.table) /\ s.rreqCount \in 0 .. RreqRateLimit /\ s.seqNo \in Nat
      /\ s.requestId \in Nat /\ s.retry \subseteq Addr \ {n}
  BY Fields
<1>2. k \in 0 .. RreqRateLimit /\ q \in Nat /\ i \in Nat /\ w \subseteq Addr \ {n}
  BY <1>1, LimitAssumption, NextSeqNoOK
<1>3. GoodTable(n, u) /\ Searched(u) \subseteq Searched(s.table) \cup {d}
  BY <1>1, SendRequestTableOK
<1>4. u \in Tables(n)
  BY <1>3, TableType
<1>5. r = IF ~s.up THEN c ELSE b
  BY DEF BroadcastRequest
<1>6. d \in w /\ s.retry \subseteq w
  OBVIOUS
<1> HIDE DEF k, q, i, w, u, r
<1>7. c \in NodeState(n, S)
  BY <1>2, <1>4 DEF NodeState
<1>8. /\ c.table = u /\ c.retry = w /\ c.queue = s.queue /\ c.deferred = s.deferred
      /\ c.lo = s.lo /\ c.out = s.out /\ c.errors = s.errors
  BY DEF NodeState
<1>9. c.seqNo = q /\ c.requestId = i
  BY DEF NodeState
<1> HIDE DEF c
<1>10. Settled(c, {})
  BY <1>3, <1>6, <1>8 DEF Settled, Awake
<1>11. ids \in Ids
  <2>1. c.rreqIdCache \in Ids /\ <<n, c.requestId>> \in Addr \X Nat
    BY <1>2, <1>7, <1>9, Fields, NodeAssumption
  <2> QED
    BY <2>1, RecordedOK
<1>12. h \in Flood(n)
  <2> DEFINE known == HasRoute(s.table, d) /\ Purge(s.table)[d].validSeqNo
             j == IF known THEN Purge(s.table)[d].seqNo ELSE 0
  <2>1. j \in Nat
    <3>1. ASSUME known PROVE Purge(s.table)[d].seqNo \in Nat
      <4>1. d \in DOMAIN Purge(s.table) /\ GoodTable(n, Purge(s.table))
        BY <1>1, <3>1, PurgeClean DEF HasRoute, Clean
      <4> QED
        BY <4>1, EntryFields
    <3> QED
      BY <3>1
  <2>2. h = RreqHeader(d, j, ~known, n, q, i)
    BY <1>9 DEF SendRequestHeader
  <2> HIDE DEF j, known
  <2>3. (~known) \in BOOLEAN /\ GratuitousReply \in BOOLEAN /\ DestinationOnly \in BOOLEAN
    BY TimeAssumption
  <2>4. n \in Addr
    BY NodeAssumption
  <2> QED
    BY <1>2, <2>1, <2>2, <2>3, <2>4 DEF RreqHeader, Rreq, Flood
<1> HIDE DEF ids, h
<1>13. v \in NodeState(n, S)
  BY <1>7, <1>11 DEF NodeState
<1>14. v.table = c.table /\ Same(v, c) /\ v.lo = c.lo /\ v.out = c.out /\ v.errors = c.errors
  BY <1>7 DEF NodeState, Same
<1> HIDE DEF v
<1>15. b \in NodeState(n, S) /\ b.table = v.table /\ Same(b, v) /\ NoMore(b, v)
  <2>1. SearchTtl(s.table, d) \in Int
    BY <1>1, RingOK
  <2> QED
    BY <1>12, <1>13, <2>1, BroadcastOK
<1> HIDE DEF b
<1>16. Settled(b, {})
  BY <1>10, <1>14, <1>15 DEF Settled, Same, Awake
<1>17. NoMore(c, s) /\ NoMore(v, s)
  BY <1>8, <1>14, NoMoreHere DEF Same
<1>18. NoMore(b, s)
  BY <1>15, <1>17, NoMoreTrans
<1> QED
  BY <1>5, <1>7, <1>10, <1>15, <1>16, <1>17, <1>18 DEF r

\* A search that nobody looks after gets its timer, or its request is held back.
LEMMA SendRequestOK ==
    ASSUME NEW n \in Node, NEW S, NEW s \in NodeState(n, S), NEW d \in Addr \ {n}, Settled(s, {d})
    PROVE  LET r == SendRequest(n, s, d)
           IN  r \in NodeState(n, S) /\ Settled(r, {}) /\ NoMore(r, s)
<1> DEFINE f == [s.deferred EXCEPT ![d] = @ + 1]
           r == SendRequest(n, s, d)
<1>1. CASE s.rreqCount = RreqRateLimit
  <2>1. r = [s EXCEPT !.deferred = f]
    BY <1>1 DEF SendRequest
  <2>2. s.deferred \in [Addr -> Nat] /\ s.deferred[n] = 0 /\ n \in Addr
    BY Fields, NodeAssumption
  <2>3. f \in [Addr -> Nat] /\ f[n] = 0 /\ f[d] > 0 /\ \A a \in Addr : s.deferred[a] > 0 => f[a] > 0
    BY <2>2
  <2> HIDE DEF f, r
  <2>4. r \in NodeState(n, S)
    BY <2>1, <2>3 DEF NodeState
  <2>5. /\ r.table = s.table /\ r.queue = s.queue /\ r.retry = s.retry /\ r.deferred = f
        /\ r.lo = s.lo /\ r.out = s.out /\ r.errors = s.errors
    BY <2>1 DEF NodeState
  <2>9. NoMore(r, s)
    BY <2>5, NoMoreHere
  <2>6. \A a \in Searched(s.table) : a \in Addr
    BY Fields DEF Searched, GoodTable, IsTable
  <2>7. \A e \in ToSet(s.queue) : e.dst \in Addr
    BY Fields, InQueue, ItemFields
  <2>8. \A a \in Addr : a \in {d} \/ Awake(s, a) => Awake(r, a)
    BY <2>3, <2>5 DEF Awake
  <2> QED
    BY <2>4, <2>5, <2>6, <2>7, <2>8, <2>9 DEF Settled, r
<1>2. CASE s.rreqCount # RreqRateLimit
  <2>1. r = BroadcastRequest(n, s, d)
    BY <1>2 DEF SendRequest
  <2> QED
    BY <1>2, <2>1, BroadcastRequestOK
<1> QED
  BY <1>1, <1>2

\* The packets for d leave; the search for d itself is over or looked after.
LEMMA SendFromQueueOK ==
    ASSUME NEW n, NEW S, NEW s \in NodeState(n, S), NEW d \in Addr, Settled(s, {d}),
           d \in Searched(s.table) => Awake(s, d), NEW hop \in Addr \cup {NoAddr}
    PROVE  LET r == SendPacketFromQueue(n, s, d, hop) IN r \in NodeState(n, S) /\ Settled(r, {})
<1> DEFINE ready == { e.uid : e \in { x \in ToSet(PurgeQueue(s.queue)) : x.dst = d } }
           q == DropPacketWithDst(s.queue, d)
           w == s.errors \cup PurgeErrors(s.queue)
           f == s.out \cup { Frame(n, hop, x) : x \in ready }
           r == SendPacketFromQueue(n, s, d, hop)
<1>1. s.queue \in Seq(Item(n, S)) /\ s.errors \subseteq Held(n, S) /\ s.out \subseteq Frames(n, S)
  BY Fields
<1>2. q \in Seq(Item(n, S)) /\ \A e \in ToSet(q) : e \in ToSet(s.queue) /\ e.dst # d
  BY <1>1, DropQueueOK
<1>3. w \subseteq Held(n, S)
  BY <1>1, QueueErrorsOK
<1>4. \A x \in ready : Frame(n, hop, x) \in Frames(n, S)
  <2>1. \A e \in ToSet(PurgeQueue(s.queue)) : e.uid \in IpPacket(S) /\ e.uid.src = n
    BY <1>1, PurgeQueueOK, InQueue, ItemFields, RoutedTypes
  <2>2. \A x \in ready : x \in IpPacket(S) /\ x.src = n
    BY <2>1
  <2> QED
    BY <2>2 DEF Frame, Frames
<1>5. r = [s EXCEPT !.queue = q, !.errors = w, !.out = f]
  BY DEF SendPacketFromQueue
<1> HIDE DEF ready
<1>6. f \subseteq Frames(n, S)
  BY <1>1, <1>4
<1> HIDE DEF q, w, f, r
<1>7. r \in NodeState(n, S)
  BY <1>2, <1>3, <1>5, <1>6 DEF NodeState
<1>8. r.table = s.table /\ r.queue = q /\ r.retry = s.retry /\ r.deferred = s.deferred
  BY <1>5 DEF NodeState
<1>9. Settled(r, {})
  BY <1>2, <1>8 DEF Settled, Awake
<1> QED
  BY <1>7, <1>9 DEF r

LEMMA SendFromQueueConserves ==
    ASSUME NEW n, NEW S, NEW s \in NodeState(n, S), NEW d, NEW hop
    PROVE  Conserves(SendPacketFromQueue(n, s, d, hop), s)
<1> DEFINE ready == { e.uid : e \in { x \in ToSet(PurgeQueue(s.queue)) : x.dst = d } }
           q == DropPacketWithDst(s.queue, d)
           w == s.errors \cup PurgeErrors(s.queue)
           f == s.out \cup { Frame(n, hop, x) : x \in ready }
           r == SendPacketFromQueue(n, s, d, hop)
<1>1. s.queue \in Seq(Item(n, S))
  BY Fields
<1>2. r = [s EXCEPT !.queue = q, !.errors = w, !.out = f]
  BY DEF SendPacketFromQueue
<1>3. \A g \in f : \/ g \in s.out
                   \/ \E e \in ToSet(PurgeQueue(s.queue)) : e.dst = d /\ g = Frame(n, hop, e.uid)
  OBVIOUS
<1>4. \A e \in w : \/ e \in s.errors
                   \/ \E y \in ToSet(s.queue) : Outdated(y) /\ e = PacketOf(y)
  BY DEF PurgeErrors
<1> HIDE DEF q, w, f, r
<1>5. r.queue = q /\ r.errors = w /\ r.out = f /\ r.lo = s.lo
  BY <1>2 DEF NodeState
<1>6. ASSUME NEW p, Single(s, p) PROVE Single(r, p) /\ (Has(r, p) => Has(s, p))
  <2> DEFINE Q == { e \in ToSet(s.queue) : Carries(e.uid, p) }
             K == { e \in Q : ~Outdated(e) /\ e.dst # d }
             O == { e \in Q : ~Outdated(e) /\ e.dst = d }
             B == { e \in Q : Outdated(e) }
             G == [ e \in O |-> Frame(n, hop, e.uid) ]
  <2>1. Once(s.queue, p)
    BY <1>6, OnceSingle DEF Single
  <2>2. /\ \A e \in K \cup O \cup B : e \in ToSet(s.queue) /\ Carries(e.uid, p)
        /\ K \cap O = {} /\ K \cap B = {} /\ O \cap B = {}
    OBVIOUS
  <2>3. Once(r.queue, p) /\ \A e \in ToSet(r.queue) : Carries(e.uid, p) => e \in K
    BY <1>1, <1>5, <2>1, DropOnce DEF q
  <2>4. ASSUME NEW g \in OutAt(r, p) PROVE g \in OutAt(s, p) \/ \E e \in O : g = G[e]
    <3>1. g \in f /\ Carries(g.ip, p)
      BY <1>5 DEF OutAt
    <3>2. CASE g \in s.out
      BY <3>1, <3>2 DEF OutAt
    <3>3. ASSUME NEW e \in ToSet(PurgeQueue(s.queue)), e.dst = d, g = Frame(n, hop, e.uid)
          PROVE  \E y \in O : g = G[y]
      <4>1. e \in ToSet(s.queue) /\ ~Outdated(e)
        BY <1>1, <2>1, PurgeOnce
      <4>2. g.ip = e.uid
        BY <3>3 DEF Frame
      <4>3. e \in O
        BY <3>1, <3>3, <4>1, <4>2
      <4> QED
        BY <3>3, <4>3
    <3> QED
      BY <1>3, <3>1, <3>2, <3>3
  <2>5. ASSUME NEW e \in BackAt(r, p) PROVE e \in BackAt(s, p) \/ B # {}
    <3>1. e \in w /\ Carries(e.uid, p)
      BY <1>5 DEF BackAt
    <3>2. ASSUME NEW y \in ToSet(s.queue), Outdated(y), e = PacketOf(y) PROVE y \in B
      BY <3>1, <3>2 DEF PacketOf
    <3> QED
      BY <1>4, <3>1, <3>2 DEF BackAt
  <2>6. LoAt(r, p) = LoAt(s, p)
    BY <1>5 DEF LoAt
  <2>7. (\A i, j \in LoAt(r, p) : i = j) /\ (LoAt(r, p) # {} => LoAt(s, p) # {})
    BY <1>6, <2>6 DEF Single
  <2> HIDE DEF K, O, B, G
  <2>8. Deals(r, s, p, K, O, B, G)
    BY <2>2, <2>3, <2>4, <2>5, <2>7 DEF Deals
  <2> QED
    BY <1>6, <2>8, Dealt
<1> QED
  BY <1>6 DEF Conserves, r

LEMMA StopSearchOK ==
    ASSUME NEW n, NEW S, NEW s \in NodeState(n, S), NEW d \in Addr \ {n}, Settled(s, {d})
    PROVE  LET r == StopSearch(s, d) IN r \in NodeState(n, S) /\ Settled(r, {})
<1> DEFINE u == DeleteRoute(s.table, d)
           k == s.retry \ {d}
           q == DropPacketWithDst(s.queue, d)
           w == s.errors \cup DropErrors(s.queue, d)
           r == StopSearch(s, d)
<1>1. GoodTable(n, s.table) /\ s.queue \in Seq(Item(n, S)) /\ s.errors \subseteq Held(n, S)
      /\ s.retry \subseteq Addr \ {n}
  BY Fields
<1>2. q \in Seq(Item(n, S)) /\ \A e \in ToSet(q) : e \in ToSet(s.queue) /\ e.dst # d
  BY <1>1, DropQueueOK
<1>3. w \subseteq Held(n, S) /\ k \subseteq Addr \ {n} /\ \A a \in s.retry : a # d => a \in k
  BY <1>1, QueueErrorsOK
<1>4. u \in Tables(n) /\ Searched(u) \subseteq Searched(s.table) \ {d}
  BY <1>1, DeleteRouteOK, TableType
<1>5. r = [s EXCEPT !.table = u, !.retry = k, !.queue = q, !.errors = w]
  BY DEF StopSearch
<1> HIDE DEF u, k, q, w, r
<1>6. r \in NodeState(n, S)
  BY <1>2, <1>3, <1>4, <1>5 DEF NodeState
<1>7. r.table = u /\ r.queue = q /\ r.retry = k /\ r.deferred = s.deferred
  BY <1>5 DEF NodeState
<1>8. Settled(r, {})
  BY <1>2, <1>3, <1>4, <1>7 DEF Settled, Awake
<1> QED
  BY <1>6, <1>8 DEF r

LEMMA StopSearchConserves ==
    ASSUME NEW n, NEW S, NEW s \in NodeState(n, S), NEW d
    PROVE  Conserves(StopSearch(s, d), s)
<1> DEFINE u == DeleteRoute(s.table, d)
           k == s.retry \ {d}
           q == DropPacketWithDst(s.queue, d)
           w == s.errors \cup DropErrors(s.queue, d)
           r == StopSearch(s, d)
<1>1. s.queue \in Seq(Item(n, S))
  BY Fields
<1>2. r = [s EXCEPT !.table = u, !.retry = k, !.queue = q, !.errors = w]
  BY DEF StopSearch
<1>3. \A e \in w : \/ e \in s.errors
                   \/ \E y \in ToSet(s.queue) : (Outdated(y) \/ y.dst = d) /\ e = PacketOf(y)
  BY DEF DropErrors, PurgeErrors
<1> HIDE DEF u, k, q, w, r
<1>4. r.queue = q /\ r.errors = w /\ r.out = s.out /\ r.lo = s.lo
  BY <1>2 DEF NodeState
<1>5. ASSUME NEW p, Single(s, p) PROVE Single(r, p) /\ (Has(r, p) => Has(s, p))
  <2> DEFINE Q == { e \in ToSet(s.queue) : Carries(e.uid, p) }
             K == { e \in Q : ~Outdated(e) /\ e.dst # d }
             O == {}
             B == { e \in Q : Outdated(e) \/ e.dst = d }
             G == << >>
  <2>1. Once(s.queue, p)
    BY <1>5, OnceSingle DEF Single
  <2>2. /\ \A e \in K \cup O \cup B : e \in ToSet(s.queue) /\ Carries(e.uid, p)
        /\ K \cap O = {} /\ K \cap B = {} /\ O \cap B = {}
    OBVIOUS
  <2>3. Once(r.queue, p) /\ \A e \in ToSet(r.queue) : Carries(e.uid, p) => e \in K
    BY <1>1, <1>4, <2>1, DropOnce DEF q
  <2>4. \A g \in OutAt(r, p) : g \in OutAt(s, p) \/ \E e \in O : g = G[e]
    BY <1>4 DEF OutAt
  <2>5. ASSUME NEW e \in BackAt(r, p) PROVE e \in BackAt(s, p) \/ B # {}
    <3>1. e \in w /\ Carries(e.uid, p)
      BY <1>4 DEF BackAt
    <3>2. ASSUME NEW y \in ToSet(s.queue), Outdated(y) \/ y.dst = d, e = PacketOf(y) PROVE y \in B
      BY <3>1, <3>2 DEF PacketOf
    <3> QED
      BY <1>3, <3>1, <3>2 DEF BackAt
  <2>6. LoAt(r, p) = LoAt(s, p)
    BY <1>4 DEF LoAt
  <2>7. (\A i, j \in LoAt(r, p) : i = j) /\ (LoAt(r, p) # {} => LoAt(s, p) # {})
    BY <1>5, <2>6 DEF Single
  <2> HIDE DEF K, O, B, G
  <2>8. Deals(r, s, p, K, O, B, G)
    BY <2>2, <2>3, <2>4, <2>5, <2>7 DEF Deals
  <2> QED
    BY <1>5, <2>8, Dealt
<1> QED
  BY <1>5 DEF Conserves, r

LEMMA HandleReplyOK ==
    ASSUME NEW n \in Node, NEW S, NEW s \in NodeState(n, S), Settled(s, {}), NEW a \in Near(n),
           NEW m \in Rrep, m.dst # m.origin, m.hopCount >= 1, NEW k \in Int
    PROVE  LET r == HandleReply(n, s, a, m, k)
           IN  r \in NodeState(n, S) /\ Settled(r, {}) /\ Conserves(r, s)
<1> DEFINE searching == HasRoute(s.table, m.dst) /\ s.table[m.dst].flag = "IN_SEARCH"
           u == ForwardRoute(s.table, a, m)
           learned == [s EXCEPT !.table = u]
           x == Ip(n, a, 1, RrepAckHeader)
           acked == IF m.ack THEN RouteOutput(n, learned, x) ELSE learned
           m1 == [m EXCEPT !.ack = FALSE]
           r == HandleReply(n, s, a, m, k)
<1>1. r = IF m.origin = n THEN ReplyAtOrigin(n, acked, a, m1, searching)
          ELSE RelayReply(n, acked, m1, k)
  BY DEF HandleReply
<1>2. m.dst \in Addr /\ m.dstSeqno \in Nat /\ m.hopCount \in Nat /\ m.lifetime \in Int
  BY DEF Rrep
<1>3. GoodTable(n, s.table) /\ Searched(Purge(s.table)) = Searched(s.table)
  BY Fields, PurgeClean
<1>4. Extends(n, u, Purge(s.table)) /\ m.dst \in DOMAIN u
  BY <1>2, <1>3, ForwardRouteOK
<1>5. x \in Routed(n, S) /\ x \in Routed(n, {})
  <2>1. RrepAckHeader \in Answer /\ n \in Addr /\ 1 \in Int
    BY NodeAssumption DEF RrepAckHeader, RrepAck, Answer
  <2> QED
    BY <2>1, AnswerMade
<1>6. m1 \in Rrep /\ m1.hopCount >= 1 /\ m1.dst = m.dst /\ m1 \in Answer
  BY DEF Rrep, Answer
<1> HIDE DEF u, x, m1, searching, r
<1>7. learned \in NodeState(n, S) /\ learned.table = u /\ Same(learned, s) /\ NoMore(learned, s)
  BY <1>4, SetTable DEF Extends, Clean
<1>8. Mild(n, S, learned, s)
  BY <1>3, <1>4, <1>7 DEF Mild, Extends
<1> HIDE DEF learned
<1>9. Mild(n, S, acked, s) /\ Clean(n, acked.table) /\ m.dst \in DOMAIN acked.table
  <2>1. CASE m.ack
    <3>1. Mild(n, S, acked, learned) /\ Extends(n, acked.table, learned.table)
      BY <1>4, <1>5, <1>7, <2>1, RouteOutputOK DEF Extends
    <3>2. Mild(n, S, acked, s)
      BY <1>8, <3>1, MildTrans
    <3> QED
      BY <1>4, <1>7, <3>1, <3>2 DEF Extends
  <2>2. CASE ~m.ack
    <3>1. acked = learned
      BY <2>2
    <3> QED
      BY <1>4, <1>7, <1>8, <3>1 DEF Extends
  <2> QED
    BY <2>1, <2>2
<1>13. NoMore(acked, s)
  <2>1. NoMore(RouteOutput(n, learned, x), learned)
    BY <1>5, <1>7, RouteOutputControl
  <2> DEFINE z == RouteOutput(n, learned, x)
  <2> HIDE DEF z
  <2>2. NoMore(z, s)
    BY <1>7, <2>1, NoMoreTrans DEF z
  <2> QED
    BY <1>7, <2>2 DEF z
<1> HIDE DEF acked
<1>10. acked \in NodeState(n, S) /\ Settled(acked, {})
  BY <1>9, MildSettled DEF Mild
<1>11. CASE m.origin = n
  <2> DEFINE v == AcceptAtOrigin(acked.table, a, m1)
             w == acked.retry \ {m1.dst}
             taken == [acked EXCEPT !.table = v, !.retry = w]
             q == IF searching THEN taken ELSE acked
             hop == Purge(q.table)[m1.dst].nextHop
  <2>1. r = SendPacketFromQueue(n, q, m1.dst, hop)
    BY <1>1, <1>11 DEF ReplyAtOrigin
  <2>2. m1.dst \in Addr /\ m1.dstSeqno \in Nat /\ m1.hopCount \in Nat /\ m1.lifetime \in Int
    BY <1>6 DEF Rrep
  <2>3. Extends(n, v, acked.table) /\ m1.dst \notin Searched(v)
    BY <1>6, <1>9, <2>2, AcceptOK
  <2>4. v \in Tables(n) /\ w \subseteq Addr \ {n}
    BY <1>10, <2>3, TableType, Fields DEF Extends, Clean
  <2>5. \A d \in acked.retry : d # m1.dst => d \in w
    OBVIOUS
  <2> HIDE DEF v, w
  <2>6. taken \in NodeState(n, S)
    BY <1>10, <2>4 DEF NodeState
  <2>7. taken.table = v /\ taken.retry = w /\ taken.queue = acked.queue
        /\ taken.deferred = acked.deferred
        /\ taken.lo = acked.lo /\ taken.out = acked.out /\ taken.errors = acked.errors
    BY <1>10 DEF NodeState
  <2> HIDE DEF taken
  <2>8. Settled(taken, {m1.dst})
    BY <1>10, <2>3, <2>5, <2>7 DEF Settled, Awake, Extends
  <2>9. /\ q \in NodeState(n, S) /\ Settled(q, {m1.dst}) /\ Clean(n, q.table)
        /\ m1.dst \in Searched(q.table) => Awake(q, m1.dst)
        /\ m1.dst \in DOMAIN q.table
        /\ NoMore(q, acked)
    <3>0. NoMore(taken, acked) /\ NoMore(acked, acked)
      BY <2>7, NoMoreHere
    <3>1. CASE searching
      BY <1>6, <1>9, <2>3, <2>6, <2>7, <2>8, <3>0, <3>1 DEF Extends
    <3>2. CASE ~searching
      BY <1>6, <1>9, <1>10, <3>0, <3>2 DEF Settled
    <3> QED
      BY <3>1, <3>2
  <2> HIDE DEF q
  <2>10. hop \in Addr \cup {NoAddr}
    <3>1. m1.dst \in DOMAIN Purge(q.table) /\ GoodTable(n, Purge(q.table))
      BY <2>9, PurgeClean DEF Clean
    <3> QED
      BY <3>1, EntryFields
  <2> HIDE DEF hop
  <2>11. NoMore(q, s)
    BY <1>13, <2>9, NoMoreTrans
  <2>12. Conserves(r, q) /\ Conserves(q, s)
    BY <2>1, <2>9, <2>11, SendFromQueueConserves, NoMoreConserves
  <2>13. Conserves(r, s)
    BY <2>12, ConservesTrans
  <2> QED
    BY <2>1, <2>2, <2>9, <2>10, <2>13, SendFromQueueOK DEF r
<1>12. CASE m.origin # n
  <2>1. r = RelayReply(n, acked, m1, k)
    BY <1>1, <1>12
  <2>2. Mild(n, S, r, acked) /\ NoMore(r, acked)
    BY <1>6, <1>9, <1>10, <2>1, RelayReplyOK
  <2>3. NoMore(r, s)
    BY <1>13, <2>2, NoMoreTrans
  <2>4. Conserves(r, s)
    BY <2>3, NoMoreConserves
  <2> QED
    BY <1>10, <2>2, <2>4, MildSettled DEF Mild, r
<1> QED
  BY <1>11, <1>12

-----------------------------------------------------------------------------
(* Growing types *)

LEMMA SeqMono ==
    ASSUME NEW X, NEW Y, \A e : e \in X => e \in Y, NEW q \in Seq(X)
    PROVE  q \in Seq(Y)
<1>1. Len(q) \in Nat /\ q \in [1 .. Len(q) -> X]
  OBVIOUS
<1>2. q \in [1 .. Len(q) -> Y]
  BY <1>1
<1> QED
  BY <1>1, <1>2

LEMMA Grows ==
    ASSUME NEW n, NEW S, NEW T, S \subseteq T
    PROVE  /\ \A x : x \in IpPacket(S) => x \in IpPacket(T)
           /\ \A x : x \in Routed(n, S) => x \in Routed(n, T)
           /\ \A s : s \in NodeState(n, S) => s \in NodeState(n, T)
<1>1. \A x : x \in Body(S) => x \in Body(T)
  BY DEF Body, Payload
<1>2. \A x : x \in IpPacket(S) => x \in IpPacket(T)
  BY <1>1 DEF IpPacket
<1>3. \A x : x \in Routed(n, S) => x \in Routed(n, T)
  BY <1>2 DEF Routed
<1>4. /\ \A x : x \in Held(n, S) => x \in Held(n, T)
      /\ \A x : x \in Item(n, S) => x \in Item(n, T)
      /\ \A x : x \in Frames(n, S) => x \in Frames(n, T)
  BY <1>2, <1>3 DEF Held, Item, Frames
<1>5. ASSUME NEW s \in NodeState(n, S) PROVE s \in NodeState(n, T)
  <2>1. s.queue \in Seq(Item(n, S)) /\ s.lo \in Seq(Routed(n, S))
    BY Fields
  <2>2. s.queue \in Seq(Item(n, T))
    BY <1>4, <2>1, SeqMono
  <2>3. s.lo \in Seq(Routed(n, T))
    BY <1>3, <2>1, SeqMono
  <2>4. s.out \subseteq Frames(n, T) /\ s.errors \subseteq Held(n, T)
    BY <1>4, Fields
  <2> QED
    BY <2>2, <2>3, <2>4 DEF NodeState
<1> QED
  BY <1>2, <1>3, <1>5

-----------------------------------------------------------------------------
(* The inductive invariant *)

\* A frame in flight is within range, and a broadcast comes from its author.
OnAir(S) ==
    { g \in [via : Node, to : Node, ip : IpPacket(S)] :
        InRange(g) /\ (g.ip.dst = Bcast => g.ip.src = g.via) }

\* The object of n between two events.
Resting(n, s) ==
    s \in NodeState(n, sent) /\ s.out = {} /\ s.errors = {} /\ Settled(s, {})

\* Where p is in flight.
AirAt(p) == { g \in net : Carries(g.ip, p) }

\* p is in one place at most, at a node or in flight, and nowhere once it is
\* delivered or given back.
Alone(p) ==
    /\ \A n \in Node : Single(node[n], p)
    /\ \A m, n \in Node : Has(node[m], p) /\ Has(node[n], p) => m = n
    /\ \A g, h \in AirAt(p) : g = h
    /\ AirAt(p) # {} => \A n \in Node : ~Has(node[n], p)
    /\ p \in delivered \cup failed => AirAt(p) = {} /\ \A n \in Node : ~Has(node[n], p)
    /\ p \notin delivered \/ p \notin failed

Placed == \A p \in Packet : Alone(p)

IInv ==
    /\ sent \subseteq Packet /\ delivered \subseteq sent /\ failed \subseteq sent
    /\ net \subseteq OnAir(sent)
    /\ DOMAIN node = Node /\ \A n \in Node : Resting(n, node[n])
    /\ Placed

LEMMA NoEntries ==
    ASSUME NEW n
    PROVE  GoodTable(n, EmptyTable) /\ EmptyTable \in Ids /\ Searched(EmptyTable) = {}
<1>1. DOMAIN EmptyTable = {} /\ EmptyTable \in [{} -> Entry] /\ EmptyTable \in [{} -> Int]
  BY DEF EmptyTable
<1>2. {} \in SUBSET (Addr \X Nat)
  OBVIOUS
<1> QED
  BY <1>1, <1>2 DEF GoodTable, IsTable, Searched, Ids

LEMMA InitOK == Init => IInv
<1> SUFFICES ASSUME Init PROVE IInv
  OBVIOUS
<1>1. ASSUME NEW n \in Node PROVE Resting(n, FreshNode)
  <2>1. EmptyTable \in Tables(n) /\ EmptyTable \in Ids /\ Searched(EmptyTable) = {}
    BY NoEntries, TableType
  <2> DEFINE q == << >>
             f == [ d \in Addr |-> 0 ]
             t == EmptyTable
  <2>2. q \in Seq(Item(n, sent)) /\ q \in Seq(Routed(n, sent)) /\ ToSet(q) = {}
    BY DEF ToSet
  <2>3. f \in [Addr -> Nat] /\ f[n] = 0 /\ InitialSeqNo \in Nat
    BY NodeAssumption, LimitAssumption
  <2>4. FreshNode = [ up |-> TRUE, htimer |-> TRUE, table |-> t, queue |-> q,
                      seqNo |-> InitialSeqNo, requestId |-> 0, rreqIdCache |-> t,
                      rreqCount |-> 0, rerrCount |-> 0, retry |-> {}, deferred |-> f, nb |-> {},
                      lo |-> q, scheduled |-> {}, out |-> {}, errors |-> {} ]
    BY DEF FreshNode
  <2>5. 0 \in 0 .. RreqRateLimit /\ 0 \in 0 .. RerrRateLimit
    BY LimitAssumption
  <2> HIDE DEF q, f, t
  <2>6. FreshNode \in NodeState(n, sent)
    BY <2>1, <2>2, <2>3, <2>4, <2>5 DEF NodeState, t
  <2>7. FreshNode.out = {} /\ FreshNode.errors = {} /\ FreshNode.table = t /\ FreshNode.queue = q
    BY <2>4
  <2> QED
    BY <2>1, <2>2, <2>6, <2>7 DEF Resting, Settled, t
<1>2. /\ node = [ n \in Node |-> FreshNode ]
      /\ net = {} /\ sent = {} /\ delivered = {} /\ failed = {}
  BY DEF Init
<1>3. ASSUME NEW p PROVE Single(FreshNode, p) /\ ~Has(FreshNode, p)
  <2> DEFINE s == FreshNode
  <2>1. s.lo = << >> /\ s.queue = << >> /\ s.out = {} /\ s.errors = {}
    BY DEF FreshNode
  <2> HIDE DEF s
  <2>2. LoAt(s, p) = {} /\ QueueAt(s, p) = {} /\ OutAt(s, p) = {} /\ BackAt(s, p) = {}
    BY <2>1 DEF LoAt, QueueAt, OutAt, BackAt
  <2> QED
    BY <2>2 DEF Single, Has, s
<1>4. ASSUME NEW p PROVE Alone(p)
  <2>1. AirAt(p) = {} /\ \A n \in Node : node[n] = FreshNode
    BY <1>2 DEF AirAt
  <2> QED
    BY <1>2, <1>3, <2>1 DEF Alone
<1> QED
  BY <1>1, <1>2, <1>4 DEF IInv, Placed

\* A packet that was not handed over yet is nowhere.
LEMMA Unsent ==
    ASSUME NEW n, NEW S, NEW p, p \notin S
    PROVE  /\ \A x \in IpPacket(S) : ~Carries(x, p)
           /\ \A s \in NodeState(n, S) : ~Has(s, p)
<1>1. \A x \in IpPacket(S) : ~Carries(x, p)
  BY IpTypes, BodyTypes DEF Carries
<1>2. ASSUME NEW s \in NodeState(n, S) PROVE ~Has(s, p)
  <2>1. /\ s.lo \in Seq(Routed(n, S)) /\ s.queue \in Seq(Item(n, S))
        /\ s.out \subseteq Frames(n, S) /\ s.errors \subseteq Held(n, S)
    BY Fields
  <2>2. \A x \in Routed(n, S) : ~Carries(x, p)
    BY <1>1 DEF Routed
  <2>3. LoAt(s, p) = {}
    <3>1. \A i \in DOMAIN s.lo : s.lo[i] \in Routed(n, S)
      BY <2>1
    <3> QED
      BY <2>2, <3>1 DEF LoAt
  <2>4. QueueAt(s, p) = {}
    <3>1. \A i \in DOMAIN s.queue : s.queue[i] \in Item(n, S)
      BY <2>1
    <3>2. \A i \in DOMAIN s.queue : s.queue[i].uid \in Routed(n, S)
      BY <3>1 DEF Item
    <3> QED
      BY <2>2, <3>2 DEF QueueAt
  <2>5. OutAt(s, p) = {}
    BY <1>1, <2>1 DEF OutAt, Frames
  <2>6. BackAt(s, p) = {}
    BY <2>1, <2>2 DEF BackAt, Held
  <2> QED
    BY <2>3, <2>4, <2>5, <2>6 DEF Has
<1> QED
  BY <1>1, <1>2

\* An event of n that consumes the frames f may take p: nobody else has it.
Free(n, f, p) ==
    /\ AirAt(p) \subseteq f /\ p \notin delivered /\ p \notin failed
    /\ \A m \in Node : m # n => ~Has(node[m], p)

LEMMA FreeToTake ==
    ASSUME IInv, NEW n \in Node, NEW f, NEW p \in Packet,
           Has(node[n], p) \/ (\E g \in f \cap net : Carries(g.ip, p)) \/ p \notin sent
    PROVE  Free(n, f, p)
<1>1. Alone(p)
  BY DEF IInv, Placed
<1>2. CASE Has(node[n], p)
  BY <1>1, <1>2 DEF Alone, Free
<1>3. CASE \E g \in f \cap net : Carries(g.ip, p)
  <2>1. PICK g \in AirAt(p) : g \in f
    BY <1>3 DEF AirAt
  <2> QED
    BY <1>1, <2>1 DEF Alone, Free
<1>4. CASE p \notin sent
  <2>1. p \notin delivered /\ p \notin failed /\ \A m \in Node : node[m] \in NodeState(m, sent)
    BY <1>4 DEF IInv, Resting
  <2>2. \A m \in Node : ~Has(node[m], p)
    BY <1>4, <2>1, Unsent
  <2>3. \A g \in net : g.ip \in IpPacket(sent)
    BY DEF IInv, OnAir
  <2>4. AirAt(p) = {}
    BY <1>4, <2>3, Unsent DEF AirAt
  <2> QED
    BY <2>1, <2>2, <2>4 DEF Free
<1> QED
  BY <1>2, <1>3, <1>4

\* The event that turned the object into s leaves r behind and gives d back.
Ends(s, r, d) ==
    /\ r = [s EXCEPT !.out = {}, !.errors = {}]
    /\ d = DataOf({ p.uid : p \in s.errors })

LEMMA EventEnd ==
    ASSUME NEW n \in Node, NEW S, NEW s \in NodeState(n, S), Settled(s, {}),
           NEW r, NEW d, Ends(s, r, d)
    PROVE  /\ r \in NodeState(n, S) /\ r.out = {} /\ r.errors = {} /\ Settled(r, {})
           /\ \A g \in s.out : InRange(g) => g \in OnAir(S)
           /\ d \subseteq S
<1> USE DEF Ends
<1>1. r \in NodeState(n, S)
  BY DEF NodeState
<1>2. r.out = {} /\ r.errors = {} /\ r.table = s.table /\ Same(r, s)
  BY DEF NodeState, Same
<1>3. Settled(r, {})
  BY <1>2 DEF Settled, Same, Awake
<1>4. ASSUME NEW g \in s.out, InRange(g) PROVE g \in OnAir(S)
  <2>1. g \in Frames(n, S)
    BY Fields
  <2>2. g.to \in Node
    BY <1>4, NodeAssumption DEF InRange
  <2> QED
    BY <1>4, <2>1, <2>2 DEF Frames, OnAir
<1>5. \A p \in s.errors : p.uid.body.type = "DATA" => p.uid.body.packet \in S
  <2>1. \A p \in s.errors : p.uid \in Routed(n, S)
    BY Fields DEF Held
  <2> QED
    BY <2>1, RoutedTypes, BodyTypes
<1> QED
  BY <1>1, <1>2, <1>3, <1>4, <1>5 DEF DataOf

\* A packet stays in one place when the event that ends held it in one place
\* and took it from where it was.
LEMMA CommitAlone ==
    ASSUME IInv, NEW n \in Node, NEW S, NEW s \in NodeState(n, S), NEW f, Commit(n, s, f),
           NEW p \in Packet, Single(s, p), delivered \subseteq delivered',
           Has(s, p) \/ p \in delivered' \ delivered => Free(n, f, p),
           ~Has(s, p) \/ p \notin delivered' \ delivered
    PROVE  Alone(p)'
<1> DEFINE r == [s EXCEPT !.out = {}, !.errors = {}]
<1>1. r.lo = s.lo /\ r.queue = s.queue /\ r.out = {} /\ r.errors = {}
  BY DEF NodeState
<1>2. /\ node' = [node EXCEPT ![n] = r]
      /\ net' = (net \ f) \cup { g \in s.out : InRange(g) }
      /\ failed' = failed \cup DataOf({ e.uid : e \in s.errors })
  BY DEF Commit
<1> HIDE DEF r
<1>3. /\ LoAt(r, p) = LoAt(s, p) /\ QueueAt(r, p) = QueueAt(s, p)
      /\ OutAt(r, p) = {} /\ BackAt(r, p) = {}
  BY <1>1 DEF LoAt, QueueAt, OutAt, BackAt
<1>4. AirAt(p)' \subseteq (AirAt(p) \ f) \cup OutAt(s, p)
  BY <1>2 DEF AirAt, OutAt
<1>5. p \in failed' => p \in failed \/ BackAt(s, p) # {}
  BY <1>2 DEF DataOf, BackAt, Carries
<1>6. node'[n] = r /\ \A m \in Node : m # n => node'[m] = node[m]
  BY <1>2 DEF IInv
<1>7. Alone(p)
  BY DEF IInv, Placed
<1>8. Single(r, p) /\ (Has(r, p) => LoAt(s, p) # {} \/ QueueAt(s, p) # {})
  BY <1>3 DEF Single, Has
<1>9. \A m \in Node : Single(node'[m], p)
  BY <1>6, <1>7, <1>8 DEF Alone
<1>10. CASE Free(n, f, p)
  <2>1. /\ \A m \in Node : Has(node'[m], p) => m = n /\ Has(r, p)
        /\ AirAt(p)' \subseteq OutAt(s, p)
        /\ p \in failed' => BackAt(s, p) # {}
        /\ p \in delivered' => ~Has(s, p)
    BY <1>4, <1>5, <1>6, <1>10 DEF Free
  <2>2. \A g, h \in AirAt(p)' : g = h
    BY <2>1 DEF Single
  <2>3. AirAt(p)' # {} => \A m \in Node : ~Has(node'[m], p)
    BY <1>8, <2>1 DEF Single
  <2>4. p \in failed' => AirAt(p)' = {} /\ \A m \in Node : ~Has(node'[m], p)
    BY <1>8, <2>1 DEF Single
  <2>5. p \in delivered' => AirAt(p)' = {} /\ p \notin failed' /\ \A m \in Node : ~Has(node'[m], p)
    BY <1>8, <2>1 DEF Has
  <2> QED
    BY <1>9, <2>1, <2>2, <2>3, <2>4, <2>5 DEF Alone
<1>11. CASE ~Free(n, f, p)
  <2>1. ~Has(s, p) /\ (p \in delivered' => p \in delivered)
    BY <1>11
  <2>2. ~Has(r, p) /\ AirAt(p)' \subseteq AirAt(p) /\ (p \in failed' => p \in failed)
    BY <1>4, <1>5, <1>8, <2>1 DEF Has
  <2>3. \A m \in Node : Has(node'[m], p) => Has(node[m], p)
    BY <1>6, <2>2
  <2> QED
    BY <1>7, <1>9, <2>1, <2>2, <2>3 DEF Alone
<1> QED
  BY <1>10, <1>11

LEMMA CommitOK ==
    ASSUME IInv, NEW n \in Node, NEW s \in NodeState(n, sent'), Settled(s, {}), NEW f,
           Commit(n, s, f), sent \subseteq sent', sent' \subseteq Packet, delivered' \subseteq sent',
           Placed'
    PROVE  IInv'
<1> DEFINE r == [s EXCEPT !.out = {}, !.errors = {}]
           d == DataOf({ p.uid : p \in s.errors })
<1>1. node' = [node EXCEPT ![n] = r] /\ net' = (net \ f) \cup { g \in s.out : InRange(g) }
      /\ failed' = failed \cup d
  BY DEF Commit
<1>2. /\ r \in NodeState(n, sent') /\ r.out = {} /\ r.errors = {} /\ Settled(r, {})
      /\ \A g \in s.out : InRange(g) => g \in OnAir(sent')
      /\ d \subseteq sent'
  <2>1. Ends(s, r, d)
    BY DEF Ends
  <2> HIDE DEF r, d
  <2> QED
    BY <2>1, EventEnd
<1> HIDE DEF r, d
<1>3. failed' \subseteq sent'
  BY <1>1, <1>2 DEF IInv
<1>4. net' \subseteq OnAir(sent')
  <2>1. \A g \in net : g \in OnAir(sent')
    BY Grows DEF IInv, OnAir
  <2> QED
    BY <1>1, <1>2, <2>1 DEF IInv
<1>5. DOMAIN node' = Node
  BY <1>1 DEF IInv
<1>6. ASSUME NEW m \in Node PROVE Resting(m, node[m])'
  <2>1. CASE m = n
    <3>1. node'[m] = r
      BY <1>1, <2>1 DEF IInv
    <3> QED
      BY <1>2, <2>1, <3>1 DEF Resting
  <2>2. CASE m # n
    <3>1. node'[m] = node[m] /\ Resting(m, node[m])
      BY <1>1, <2>2 DEF IInv
    <3>2. node[m] \in NodeState(m, sent')
      BY <3>1, Grows DEF Resting
    <3> QED
      BY <3>1, <3>2 DEF Resting
  <2> QED
    BY <2>1, <2>2
<1> QED
  BY <1>3, <1>4, <1>5, <1>6 DEF IInv

\* The usual case: nothing is handed over.
LEMMA CommitSame ==
    ASSUME IInv, NEW n \in Node, NEW s \in NodeState(n, sent), Settled(s, {}), NEW f,
           Commit(n, s, f), Conserves(s, node[n]), sent' = sent, delivered' = delivered
    PROVE  IInv'
<1>1. s \in NodeState(n, sent') /\ sent \subseteq sent' /\ sent' \subseteq Packet
      /\ delivered' \subseteq sent'
  BY DEF IInv
<1>2. ASSUME NEW p \in Packet PROVE Alone(p)'
  <2>1. Single(node[n], p)
    BY DEF IInv, Placed, Alone
  <2>2. Single(s, p) /\ (Has(s, p) => Has(node[n], p))
    BY <2>1 DEF Conserves
  <2>3. Has(s, p) => Free(n, f, p)
    BY <2>2, FreeToTake
  <2> QED
    BY <2>2, <2>3, CommitAlone
<1>3. Placed'
  BY <1>2 DEF Placed
<1> QED
  BY <1>1, <1>3, CommitOK

-----------------------------------------------------------------------------
(* The events *)

LEMMA Rests ==
    ASSUME IInv, NEW n \in Node
    PROVE  node[n] \in NodeState(n, sent) /\ Settled(node[n], {})
  BY DEF IInv, Resting

\* An event whose handlers leave queue and timers alone.
LEMMA MildEvent ==
    ASSUME IInv, NEW n \in Node, NEW s, Mild(n, sent, s, node[n]), NoMore(s, node[n]), NEW f,
           Commit(n, s, f), sent' = sent, delivered' = delivered
    PROVE  IInv'
<1>1. s \in NodeState(n, sent) /\ Settled(s, {}) /\ Conserves(s, node[n])
  BY Rests, MildSettled, NoMoreConserves DEF Mild
<1> QED
  BY <1>1, CommitSame

LEMMA SendOK ==
    ASSUME IInv, NEW p \in Packet, Send(p)
    PROVE  IInv'
<1> DEFINE n == p.src
           s == node[n]
           x == Ip(n, p.dst, DataTtl, Data(p))
           r == RouteOutput(n, s, x)
<1>1. n \in Node /\ n \in Addr /\ p.dst \in Addr /\ p.dst # n /\ DataTtl \in Int
  BY NodeAssumption, LimitAssumption
<1>2. p \notin sent /\ sent' = sent \cup {p} /\ Commit(n, r, {}) /\ delivered' = delivered
  BY DEF Send
<1>3. sent \subseteq sent' /\ p \in sent' /\ sent' \subseteq Packet /\ delivered' \subseteq sent'
  BY <1>2 DEF IInv
<1>4. x \in Routed(n, sent')
  <2> DEFINE b == Data(p)
  <2>1. b \in Body(sent') /\ b.type = "DATA" /\ ~IsHello(b)
    BY <1>3 DEF Data, Payload, Body, IsHello
  <2> HIDE DEF b
  <2>2. x = Ip(n, p.dst, DataTtl, b)
    BY DEF b
  <2> HIDE DEF x, n
  <2>3. /\ x \in [src : Addr, dst : Addr \cup {Bcast}, ttl : Int, body : Body(sent')]
        /\ x.src = n /\ x.dst = p.dst /\ x.body = b
    BY <1>1, <2>1, <2>2 DEF Ip
  <2> QED
    BY <1>1, <2>1, <2>3 DEF IpPacket, Routed, OneHop
<1>5. s \in NodeState(n, sent') /\ Settled(s, {})
  BY <1>1, <1>3, Rests, Grows
<1>c. \A k : Carries(x, k) => k = p
  BY DEF Carries, Ip, Data
<1> HIDE DEF x, s, n
<1>6. Mild(n, sent', r, s) /\ Puts(n, r, s, x)
  BY <1>4, <1>5, RouteOutputOK
<1> HIDE DEF r
<1>7. r \in NodeState(n, sent') /\ Settled(r, {}) /\ r.queue = s.queue
  BY <1>5, <1>6, MildSettled DEF Mild, Same
<1>8. ASSUME NEW k \in Packet PROVE Alone(k)'
  <2>1. Single(s, k)
    BY <1>1 DEF IInv, Placed, Alone, s
  <2>2. Carries(x, k) => ~Has(s, k)
    BY <1>1, <1>2, <1>c, Rests, Unsent DEF s
  <2>3. Single(r, k) /\ (Has(r, k) => Has(s, k) \/ Carries(x, k))
    BY <1>5, <1>6, <1>7, <2>1, <2>2, PutsSingle
  <2>4. Has(r, k) => Free(n, {}, k)
    BY <1>1, <1>2, <1>c, <2>3, FreeToTake DEF s
  <2> QED
    BY <1>1, <1>2, <1>7, <2>3, <2>4, CommitAlone
<1>9. Placed'
  BY <1>8 DEF Placed
<1> QED
  BY <1>1, <1>2, <1>3, <1>7, <1>9, CommitOK

LEMMA DeferredRouteOutputOK ==
    ASSUME IInv, NEW n \in Node, DeferredRouteOutput(n)
    PROVE  IInv'
<1> DEFINE S == sent
           s == node[n]
           x == Head(s.lo)
           p == Queued(x)
           l == Tail(s.lo)
           q == Enqueue(s.queue, p, MaxQueueLen, MaxQueueTime)
           e == EnqueueErrors(s.queue, p, MaxQueueLen)
           a == [s EXCEPT !.lo = l]
           r == [s EXCEPT !.lo = l, !.queue = q, !.errors = e]
           t == Purge(r.table)
           w == [r EXCEPT !.table = t]
<1>1. s \in NodeState(n, S) /\ Settled(s, {}) /\ s.lo \in Seq(Routed(n, S))
      /\ s.queue \in Seq(Item(n, S)) /\ GoodTable(n, s.table)
  BY Rests, Fields
<1>2. /\ s.lo # << >> /\ sent' = sent /\ delivered' = delivered
      /\ \/ Commit(n, a, {})
         \/ Holds(PurgeQueue(s.queue), p) /\ Commit(n, r, {})
         \/ /\ HasRoute(s.table, x.dst) /\ Purge(s.table)[x.dst].flag = "IN_SEARCH"
            /\ Commit(n, w, {})
         \/ Commit(n, SendRequest(n, r, x.dst), {})
  BY DEF DeferredRouteOutput
<1>3. x \in Routed(n, S) /\ l \in Seq(Routed(n, S))
  BY <1>1, <1>2
<1>4. p \in Held(n, S) /\ x.dst \in Addr \ {n} /\ p.dst = x.dst
  BY <1>3, RoutedTypes DEF Queued
<1>5. /\ q \in Seq(Item(n, S)) /\ e \subseteq Held(n, S)
      /\ \A i \in ToSet(q) : i \in ToSet(s.queue) \/ i.dst = p.dst
      /\ Holds(PurgeQueue(s.queue), p) => ToSet(q) \subseteq ToSet(s.queue)
  BY <1>1, <1>4, EnqueueOK
<1> HIDE DEF s, x, p, l, q, e
<1>6. a \in NodeState(n, S) /\ r \in NodeState(n, S)
  BY <1>1, <1>3, <1>5 DEF NodeState
<1>7. a.table = s.table /\ Same(a, s)
  BY <1>1 DEF NodeState, Same
<1>8. r.table = s.table /\ r.queue = q /\ r.retry = s.retry /\ r.deferred = s.deferred
  BY <1>1 DEF NodeState
<1>c. a.lo = l /\ a.queue = s.queue /\ a.out = s.out /\ a.errors = s.errors
      /\ r.lo = l /\ r.out = s.out /\ r.errors = e
  BY <1>1 DEF NodeState
<1> HIDE DEF a, r
<1>k. Conserves(a, s) /\ Conserves(r, s)
  <2>1. Conserves(a, s)
    BY <1>1, <1>2, <1>c, TailConserves DEF l
  <2>2. Conserves(r, s)
    <3>1. /\ r.lo = Tail(s.lo) /\ p = Queued(Head(s.lo))
          /\ r.queue = Enqueue(s.queue, p, MaxQueueLen, MaxQueueTime)
          /\ r.errors = EnqueueErrors(s.queue, p, MaxQueueLen)
      BY <1>8, <1>c DEF l, q, e, p, x
    <3> QED
      BY <1>1, <1>2, <1>c, <3>1, EnqueueConserves
  <2> QED
    BY <2>1, <2>2
<1>9. Settled(a, {})
  BY <1>1, <1>7 DEF Settled, Same, Awake
<1>10. Settled(r, {x.dst})
  BY <1>1, <1>4, <1>5, <1>8 DEF Settled, Awake
<1>11. CASE Commit(n, a, {})
  BY <1>2, <1>6, <1>9, <1>11, <1>k, CommitSame DEF s
<1>12. CASE Holds(PurgeQueue(s.queue), p) /\ Commit(n, r, {})
  <2>1. Settled(r, {})
    BY <1>1, <1>5, <1>8, <1>12 DEF Settled, Awake
  <2> QED
    BY <1>2, <1>6, <1>12, <1>k, <2>1, CommitSame DEF s
<1>13. CASE /\ HasRoute(s.table, x.dst) /\ Purge(s.table)[x.dst].flag = "IN_SEARCH"
            /\ Commit(n, w, {})
  <2>1. x.dst \in Searched(s.table) /\ GoodTable(n, t) /\ Searched(t) = Searched(s.table)
    <3>1. x.dst \in Searched(Purge(s.table))
      BY <1>13 DEF HasRoute, Searched
    <3> QED
      BY <1>1, <1>8, <3>1, PurgeClean DEF Clean
  <2>2. Awake(s, x.dst)
    BY <1>1, <2>1 DEF Settled
  <2> HIDE DEF t
  <2>3. w \in NodeState(n, S) /\ w.table = t /\ Same(w, r) /\ NoMore(w, r)
    BY <1>6, <2>1, SetTable
  <2> HIDE DEF w
  <2>k. Conserves(w, s)
    BY <1>k, <2>3, NoMoreConserves, ConservesTrans
  <2>4. Settled(w, {})
    BY <1>8, <1>10, <2>1, <2>2, <2>3 DEF Settled, Same, Awake
  <2> QED
    BY <1>2, <1>13, <2>3, <2>4, <2>k, CommitSame DEF s
<1>14. CASE Commit(n, SendRequest(n, r, x.dst), {})
  <2> DEFINE z == SendRequest(n, r, x.dst)
  <2>1. z \in NodeState(n, S) /\ Settled(z, {}) /\ NoMore(z, r)
    BY <1>4, <1>6, <1>10, SendRequestOK
  <2> HIDE DEF z
  <2>2. Conserves(z, s)
    BY <1>k, <2>1, NoMoreConserves, ConservesTrans
  <2>3. Commit(n, z, {})
    BY <1>14 DEF z
  <2> QED
    BY <1>2, <2>1, <2>2, <2>3, CommitSame DEF s
<1> QED
  BY <1>2, <1>11, <1>12, <1>13, <1>14

LEMMA SendDeferredRequestOK ==
    ASSUME IInv, NEW n \in Node, NEW d \in Addr, SendDeferredRequest(n, d)
    PROVE  IInv'
<1> DEFINE S == sent
           s == node[n]
           f == [s.deferred EXCEPT ![d] = @ - 1]
           r == [s EXCEPT !.deferred = f]
           z == SendRequest(n, r, d)
<1>1. s \in NodeState(n, S) /\ Settled(s, {}) /\ s.deferred \in [Addr -> Nat] /\ s.deferred[n] = 0
  BY Rests, Fields
<1>2. s.deferred[d] > 0 /\ Commit(n, z, {}) /\ sent' = sent /\ delivered' = delivered
  BY DEF SendDeferredRequest
<1>3. d \in Addr \ {n} /\ n \in Addr
  BY <1>1, <1>2, NodeAssumption
<1> HIDE DEF s
<1>4. f \in [Addr -> Nat] /\ f[n] = 0 /\ \A a \in Addr : a # d => f[a] = s.deferred[a]
  BY <1>1, <1>2, <1>3
<1> HIDE DEF f
<1>5. r \in NodeState(n, S)
  BY <1>1, <1>4 DEF NodeState
<1>6. r.table = s.table /\ r.queue = s.queue /\ r.retry = s.retry /\ r.deferred = f
  BY <1>1 DEF NodeState
<1>k. NoMore(r, s)
  <2>1. r.lo = s.lo /\ r.out = s.out /\ r.errors = s.errors
    BY <1>1 DEF NodeState
  <2> HIDE DEF r
  <2> QED
    BY <1>6, <2>1, NoMoreHere
<1> HIDE DEF r
<1>7. Settled(r, {d})
  <2>1. \A a \in Searched(s.table) : a \in Addr
    BY <1>1, Fields DEF Searched, GoodTable, IsTable
  <2>2. \A e \in ToSet(s.queue) : e.dst \in Addr
    BY <1>1, Fields, InQueue, ItemFields
  <2>3. \A a \in Addr : Awake(s, a) => a \in {d} \/ Awake(r, a)
    BY <1>4, <1>6 DEF Awake
  <2> QED
    BY <1>1, <1>6, <2>1, <2>2, <2>3 DEF Settled
<1>8. z \in NodeState(n, S) /\ Settled(z, {}) /\ NoMore(z, r)
  BY <1>3, <1>5, <1>7, SendRequestOK
<1> HIDE DEF z
<1>9. Conserves(z, s)
  BY <1>8, <1>k, NoMoreTrans, NoMoreConserves
<1> QED
  BY <1>2, <1>8, <1>9, CommitSame DEF s

LEMMA TimerExpireOK ==
    ASSUME IInv, NEW n \in Node, NEW d \in Addr, RouteRequestTimerExpire(n, d)
    PROVE  IInv'
<1> DEFINE S == sent
           s == node[n]
           p == Purge(s.table)
           k == s.retry \ {d}
           t == [s EXCEPT !.table = p, !.retry = k]
<1>1. /\ s \in NodeState(n, S) /\ Settled(s, {}) /\ GoodTable(n, s.table)
      /\ s.retry \subseteq Addr \ {n}
  BY Rests, Fields
<1>2. /\ d \in s.retry /\ sent' = sent /\ delivered' = delivered
      /\ \/ HasValidRoute(p, d) /\ Commit(n, SendPacketFromQueue(n, t, d, p[d].nextHop), {})
         \/ Commit(n, SendRequest(n, t, d), {})
         \/ Commit(n, StopSearch(t, d), {})
  BY DEF RouteRequestTimerExpire
<1>3. d \in Addr \ {n} /\ k \subseteq Addr \ {n} /\ \A a \in s.retry : a # d => a \in k
  BY <1>1, <1>2
<1>4. GoodTable(n, p) /\ Searched(p) = Searched(s.table)
  BY <1>1, PurgeClean DEF Clean
<1>5. p \in Tables(n)
  BY <1>4, TableType
<1> HIDE DEF s, p, k
<1>6. t \in NodeState(n, S)
  BY <1>1, <1>3, <1>5 DEF NodeState
<1>7. t.table = p /\ t.retry = k /\ t.queue = s.queue /\ t.deferred = s.deferred
  BY <1>1 DEF NodeState
<1>c. t.lo = s.lo /\ t.out = s.out /\ t.errors = s.errors
  BY <1>1 DEF NodeState
<1> HIDE DEF t
<1>k. Conserves(t, s)
  BY <1>7, <1>c, NoMoreHere, NoMoreConserves
<1>8. Settled(t, {d})
  BY <1>1, <1>3, <1>4, <1>7 DEF Settled, Awake
<1>9. CASE HasValidRoute(p, d) /\ Commit(n, SendPacketFromQueue(n, t, d, p[d].nextHop), {})
  <2> DEFINE hop == p[d].nextHop
             z == SendPacketFromQueue(n, t, d, hop)
  <2>1. hop \in Addr \cup {NoAddr} /\ d \notin Searched(t.table)
    BY <1>4, <1>7, <1>9, ValidRoute, NearAddr DEF Searched
  <2> HIDE DEF hop
  <2>2. z \in NodeState(n, S) /\ Settled(z, {})
    BY <1>6, <1>8, <2>1, SendFromQueueOK
  <2>3. Conserves(z, t)
    BY <1>6, SendFromQueueConserves
  <2>4. Commit(n, z, {})
    BY <1>9 DEF hop
  <2> HIDE DEF z
  <2>5. Conserves(z, s)
    BY <1>k, <2>3, ConservesTrans
  <2> QED
    BY <1>2, <2>2, <2>4, <2>5, CommitSame DEF s
<1>10. CASE Commit(n, SendRequest(n, t, d), {})
  <2> DEFINE z == SendRequest(n, t, d)
  <2>1. z \in NodeState(n, S) /\ Settled(z, {}) /\ NoMore(z, t)
    BY <1>3, <1>6, <1>8, SendRequestOK
  <2> HIDE DEF z
  <2>2. Conserves(z, s)
    BY <1>k, <2>1, NoMoreConserves, ConservesTrans
  <2>3. Commit(n, z, {})
    BY <1>10 DEF z
  <2> QED
    BY <1>2, <2>1, <2>2, <2>3, CommitSame DEF s
<1>11. CASE Commit(n, StopSearch(t, d), {})
  <2> DEFINE z == StopSearch(t, d)
  <2>1. z \in NodeState(n, S) /\ Settled(z, {})
    BY <1>3, <1>6, <1>8, StopSearchOK
  <2>2. Conserves(z, t)
    BY <1>6, StopSearchConserves
  <2> HIDE DEF z
  <2>3. Conserves(z, s)
    BY <1>k, <2>2, ConservesTrans
  <2>4. Commit(n, z, {})
    BY <1>11 DEF z
  <2> QED
    BY <1>2, <2>1, <2>3, <2>4, CommitSame DEF s
<1> QED
  BY <1>2, <1>9, <1>10, <1>11

LEMMA RateLimitOK ==
    ASSUME IInv, NEW n \in Node, RreqRateLimitTimerExpire(n) \/ RerrRateLimitTimerExpire(n)
    PROVE  IInv'
<1> DEFINE s == node[n]
           a == [s EXCEPT !.rreqCount = 0]
           b == [s EXCEPT !.rerrCount = 0]
<1>1. s \in NodeState(n, sent)
  BY Rests
<1>2. (Commit(n, a, {}) \/ Commit(n, b, {})) /\ sent' = sent /\ delivered' = delivered
  BY DEF RreqRateLimitTimerExpire, RerrRateLimitTimerExpire
<1>3. 0 \in 0 .. RreqRateLimit /\ 0 \in 0 .. RerrRateLimit
  BY LimitAssumption
<1> HIDE DEF s
<1>4. a \in NodeState(n, sent) /\ b \in NodeState(n, sent)
  BY <1>1, <1>3 DEF NodeState
<1>5. a.table = s.table /\ Same(a, s) /\ b.table = s.table /\ Same(b, s)
  BY <1>1 DEF NodeState, Same
<1>k. /\ a.lo = s.lo /\ a.queue = s.queue /\ a.out = s.out /\ a.errors = s.errors
      /\ b.lo = s.lo /\ b.queue = s.queue /\ b.out = s.out /\ b.errors = s.errors
  BY <1>1 DEF NodeState
<1> HIDE DEF a, b
<1>6. Mild(n, sent, a, s) /\ Mild(n, sent, b, s)
  BY <1>4, <1>5 DEF Mild
<1>7. NoMore(a, s) /\ NoMore(b, s)
  BY <1>k, NoMoreHere
<1> QED
  BY <1>2, <1>6, <1>7, MildEvent DEF s

LEMMA SendToOK ==
    ASSUME IInv, NEW n \in Node, NEW x \in node[n].scheduled, SendTo(n, x)
    PROVE  IInv'
<1> DEFINE s == node[n]
           w == s.scheduled \ {x}
           a == [s EXCEPT !.scheduled = w]
           r == RouteOutput(n, a, x)
<1>1. s \in NodeState(n, sent)
  BY Rests
<1>2. x \in Routed(n, {}) /\ w \subseteq Routed(n, {})
  BY <1>1, Fields
<1>r. x \in Routed(n, sent)
  BY <1>2, Grows
<1>3. Commit(n, r, {}) /\ sent' = sent /\ delivered' = delivered
  BY DEF SendTo
<1> HIDE DEF s, w
<1>4. a \in NodeState(n, sent)
  BY <1>1, <1>2 DEF NodeState
<1>5. /\ a.table = s.table /\ Same(a, s)
      /\ a.lo = s.lo /\ a.queue = s.queue /\ a.out = s.out /\ a.errors = s.errors
  BY <1>1 DEF NodeState, Same
<1> HIDE DEF a
<1>6. Mild(n, sent, r, a) /\ Mild(n, sent, a, s)
  BY <1>r, <1>4, <1>5, RouteOutputOK DEF Mild
<1>k. NoMore(r, a) /\ NoMore(a, s)
  BY <1>2, <1>4, <1>5, <1>r, RouteOutputControl, NoMoreHere
<1> HIDE DEF r
<1>7. Mild(n, sent, r, s) /\ NoMore(r, s)
  BY <1>6, <1>k, MildTrans, NoMoreTrans
<1> QED
  BY <1>3, <1>7, MildEvent DEF s

LEMMA SendHelloOK ==
    ASSUME IInv, NEW n \in Node, SendHello(n)
    PROVE  IInv'
<1> DEFINE s == node[n]
           q == s.seqNo
           h == RrepHeader(0, n, q, n, HelloLifetime, FALSE)
           r == Broadcast(n, s, 1, h)
<1>1. s \in NodeState(n, sent) /\ q \in Nat
  BY Rests, Fields
<1>2. Commit(n, r, {}) /\ sent' = sent /\ delivered' = delivered
  BY DEF SendHello
<1> HIDE DEF q
<1>3. h \in Flood(n)
  <2>1. 0 \in Nat /\ FALSE \in BOOLEAN /\ n \in Addr /\ HelloLifetime \in Int
    BY NodeAssumption, Times
  <2>2. h \in Rrep /\ h.dst = n /\ h.origin = n
    BY <1>1, <2>1 DEF RrepHeader, Rrep
  <2> HIDE DEF h
  <2> QED
    BY <2>2 DEF Flood
<1> HIDE DEF s, h
<1>4. 1 \in Int
  OBVIOUS
<1>5. Mild(n, sent, r, s) /\ NoMore(r, s)
  BY <1>1, <1>3, <1>4, BroadcastOK DEF Mild
<1> HIDE DEF r
<1> QED
  BY <1>2, <1>5, MildEvent DEF s

LEMMA LinkFailureOK ==
    ASSUME IInv, NEW n \in Node, NEW a, LinkFailure(n, a)
    PROVE  IInv'
<1> DEFINE s == node[n]
           b == s.nb \ {a}
           w == [s EXCEPT !.nb = b]
           r == SendRerrWhenBreaksLinkToNextHop(n, w, a)
<1>1. s \in NodeState(n, sent) /\ b \subseteq Addr \cup {NoAddr}
  BY Rests, Fields
<1>2. Commit(n, r, {}) /\ sent' = sent /\ delivered' = delivered
  BY DEF LinkFailure
<1> HIDE DEF s, b
<1>3. w \in NodeState(n, sent)
  BY <1>1 DEF NodeState
<1>4. /\ w.table = s.table /\ Same(w, s)
      /\ w.lo = s.lo /\ w.queue = s.queue /\ w.out = s.out /\ w.errors = s.errors
  BY <1>1 DEF NodeState, Same
<1> HIDE DEF w
<1>5. Mild(n, sent, r, w) /\ Mild(n, sent, w, s) /\ NoMore(r, w)
  BY <1>3, <1>4, BreaksLinkOK DEF Mild
<1> HIDE DEF r
<1>6. Mild(n, sent, r, s) /\ NoMore(r, s)
  BY <1>4, <1>5, MildTrans, NoMoreHere, NoMoreTrans
<1> QED
  BY <1>2, <1>6, MildEvent DEF s

LEMMA InterfaceOK ==
    ASSUME IInv, NEW n \in Node, NotifyInterfaceDown(n) \/ NotifyInterfaceUp(n)
    PROVE  IInv'
<1> DEFINE s == node[n]
           t == EmptyTable
           a == [s EXCEPT !.up = FALSE, !.htimer = FALSE, !.nb = {}, !.table = t, !.scheduled = {}]
           b == [s EXCEPT !.up = TRUE]
<1>1. s \in NodeState(n, sent)
  BY Rests
<1>2. (Commit(n, a, {}) \/ Commit(n, b, {})) /\ sent' = sent /\ delivered' = delivered
  BY DEF NotifyInterfaceDown, NotifyInterfaceUp
<1>3. t \in Tables(n) /\ Searched(t) = {}
  BY NoEntries, TableType
<1> HIDE DEF s, t
<1>4. a \in NodeState(n, sent) /\ b \in NodeState(n, sent)
  BY <1>1, <1>3 DEF NodeState
<1>5. a.table = t /\ Same(a, s) /\ b.table = s.table /\ Same(b, s)
  BY <1>1 DEF NodeState, Same
<1>k. /\ a.lo = s.lo /\ a.queue = s.queue /\ a.out = s.out /\ a.errors = s.errors
      /\ b.lo = s.lo /\ b.queue = s.queue /\ b.out = s.out /\ b.errors = s.errors
  BY <1>1 DEF NodeState
<1> HIDE DEF a, b
<1>6. Mild(n, sent, a, s) /\ Mild(n, sent, b, s)
  BY <1>3, <1>4, <1>5 DEF Mild
<1>7. NoMore(a, s) /\ NoMore(b, s)
  BY <1>k, NoMoreHere
<1> QED
  BY <1>2, <1>6, <1>7, MildEvent DEF s

\* A message that n takes in comes from a neighbour.
LEMMA FromNeighbor ==
    ASSUME IInv, NEW f \in net
    PROVE  /\ f.to \in Node /\ f.ip \in IpPacket(sent)
           /\ ForMe(f.to, f) /\ f.ip.body.type # "DATA" => f.ip.src \in Near(f.to)
<1> DEFINE n == f.to
           x == f.ip
<1>1. /\ n \in Node /\ f.via \in Node /\ x \in IpPacket(sent) /\ {f.via, n} \in Link
      /\ x.dst = Bcast => x.src = f.via
  BY DEF IInv, OnAir, InRange
<1>2. x.src \in Addr /\ OneHop(x) /\ f.via \in Addr
  BY <1>1, IpTypes, NodeAssumption
<1>3. ASSUME ForMe(n, f), x.body.type # "DATA" PROVE x.src \in Near(n)
  <2>1. CASE x.dst = Bcast
    <3>1. {n, x.src} = {f.via, n}
      BY <1>1, <2>1
    <3> QED
      BY <1>1, <1>2, <3>1 DEF Near
  <2>2. CASE x.dst # Bcast
    <3>1. x.dst = n /\ x.dst \in Near(x.src)
      BY <1>2, <1>3, <2>2 DEF ForMe, OneHop
    <3>2. {n, x.src} = {x.src, x.dst}
      BY <3>1
    <3> QED
      BY <1>2, <3>1, <3>2 DEF Near
  <2> QED
    BY <2>1, <2>2
<1> QED
  BY <1>1, <1>3

LEMMA ReceiveOK ==
    ASSUME IInv, NEW f \in net, Receive(f.to, f)
    PROVE  IInv'
<1> DEFINE S == sent
           n == f.to
           x == f.ip
           m == x.body
           s == node[n]
           r == RecvMadaodv(s, x)
<1>1. n \in Node /\ x \in IpPacket(S) /\ s \in NodeState(n, S) /\ Settled(s, {})
  BY FromNeighbor, Rests
<1>2. x.src \in Addr /\ x.dst \in Addr \cup {Bcast} /\ x.ttl \in Int /\ m \in Body(S) /\ OneHop(x)
  BY <1>1, IpTypes
<1>3. ForMe(n, f) /\ m.type # "DATA" =>
        /\ x.src \in Near(n) /\ Mild(n, S, r, s) /\ Clean(n, r.table) /\ NoMore(r, s)
        /\ x.src \in DOMAIN r.table /\ r.table[x.src].iface = Wlan
  BY <1>1, FromNeighbor, RecvMadaodvOK
<1>4. CASE RecvRequest(n, f)
  <2> DEFINE z == HandleRequest(n, r, x.src, Hop(m), x.ttl)
  <2>1. /\ ForMe(n, f) /\ m.type = "RREQ" /\ Commit(n, z, {f})
        /\ sent' = sent /\ delivered' = delivered
    BY <1>4 DEF RecvRequest
  <2>2. Hop(m) \in Rreq /\ Hop(m).hopCount >= 1
    BY <1>2, <2>1, BodyTypes, HoppedRequest
  <2>3. x.src \in Near(n) /\ Mild(n, S, r, s) /\ r \in NodeState(n, S) /\ NoMore(r, s)
    BY <1>3, <2>1 DEF Mild
  <2> HIDE DEF r
  <2>4. Mild(n, S, z, r) /\ NoMore(z, r)
    BY <1>1, <1>2, <2>2, <2>3, HandleRequestOK
  <2> HIDE DEF z
  <2>5. Mild(n, S, z, s) /\ NoMore(z, s)
    BY <2>3, <2>4, MildTrans, NoMoreTrans
  <2> QED
    BY <1>1, <2>1, <2>5, MildEvent
<1>5. CASE RecvReply(n, f)
  <2> DEFINE z == HandleReply(n, r, x.src, Hop(m), x.ttl)
  <2>1. /\ ForMe(n, f) /\ m.type = "RREP" /\ m.dst # m.origin /\ Commit(n, z, {f})
        /\ sent' = sent /\ delivered' = delivered
    BY <1>5 DEF RecvReply, IsHello
  <2>2. Hop(m) \in Rrep /\ Hop(m).hopCount >= 1 /\ Hop(m).dst # Hop(m).origin
    BY <1>2, <2>1, BodyTypes, HoppedReply
  <2>3. x.src \in Near(n) /\ Mild(n, S, r, s) /\ r \in NodeState(n, S) /\ NoMore(r, s)
    BY <1>3, <2>1 DEF Mild
  <2>4. Settled(r, {})
    BY <1>1, <2>3, MildSettled
  <2> HIDE DEF r
  <2>5. z \in NodeState(n, S) /\ Settled(z, {}) /\ Conserves(z, r)
    BY <1>1, <1>2, <2>2, <2>3, <2>4, HandleReplyOK
  <2> HIDE DEF z
  <2>6. Conserves(z, s)
    BY <2>3, <2>5, NoMoreConserves, ConservesTrans
  <2> QED
    BY <1>1, <2>1, <2>5, <2>6, CommitSame
<1>6. CASE ProcessHello(n, f)
  <2> DEFINE u == ProcessHelloTable(r.table, m)
             b == r.nb \cup {m.dst}
             z == [r EXCEPT !.table = u, !.nb = b]
  <2>1. /\ ForMe(n, f) /\ IsHello(m) /\ Commit(n, z, {f})
        /\ sent' = sent /\ delivered' = delivered
    BY <1>6 DEF ProcessHello
  <2>2. m \in Rrep /\ m.type # "DATA" /\ x.src = m.dst
    BY <1>2, <2>1, BodyTypes DEF IsHello, OneHop
  <2>3. m.dst \in Near(n) /\ Mild(n, S, r, s) /\ r \in NodeState(n, S) /\ NoMore(r, s)
    BY <1>3, <2>1, <2>2 DEF Mild
  <2>4. m.dst \in Addr /\ m.dstSeqno \in Nat /\ m.lifetime \in Int
    BY <2>2 DEF Rrep
  <2> HIDE DEF r
  <2>5. GoodTable(n, r.table) /\ b \subseteq Addr \cup {NoAddr}
    BY <2>3, <2>4, Fields
  <2>6. Extends(n, u, Purge(r.table)) /\ Searched(Purge(r.table)) = Searched(r.table)
    BY <2>3, <2>4, <2>5, HelloTableOK, PurgeClean
  <2>7. u \in Tables(n) /\ Searched(u) \subseteq Searched(r.table)
    BY <2>6, TableType DEF Extends, Clean
  <2> HIDE DEF u, b
  <2>8. z \in NodeState(n, S)
    BY <2>3, <2>5, <2>7 DEF NodeState
  <2>9. /\ z.table = u /\ Same(z, r)
        /\ z.lo = r.lo /\ z.queue = r.queue /\ z.out = r.out /\ z.errors = r.errors
    BY <2>3 DEF NodeState, Same
  <2> HIDE DEF z
  <2>10. Mild(n, S, z, r) /\ NoMore(z, r)
    BY <2>7, <2>8, <2>9, NoMoreHere DEF Mild
  <2>11. Mild(n, S, z, s) /\ NoMore(z, s)
    BY <2>3, <2>10, MildTrans, NoMoreTrans
  <2> QED
    BY <1>1, <2>1, <2>11, MildEvent
<1>7. CASE RecvError(n, f)
  <2> DEFINE z == HandleError(n, r, x.src, m)
  <2>1. /\ ForMe(n, f) /\ m.type = "RERR" /\ Commit(n, z, {f})
        /\ sent' = sent /\ delivered' = delivered
    BY <1>7 DEF RecvError
  <2>2. m \in Rerr
    BY <1>2, <2>1, BodyTypes
  <2>3. Mild(n, S, r, s) /\ r \in NodeState(n, S) /\ NoMore(r, s)
    BY <1>3, <2>1 DEF Mild
  <2> HIDE DEF r
  <2>4. Mild(n, S, z, r) /\ NoMore(z, r)
    BY <1>1, <2>2, <2>3, HandleErrorOK
  <2> HIDE DEF z
  <2>5. Mild(n, S, z, s) /\ NoMore(z, s)
    BY <2>3, <2>4, MildTrans, NoMoreTrans
  <2> QED
    BY <1>1, <2>1, <2>5, MildEvent
<1>8. CASE RecvReplyAck(n, f)
  <2> DEFINE u == RecvReplyAckTable(r.table, x.src)
             z == [r EXCEPT !.table = u]
  <2>1. /\ ForMe(n, f) /\ m.type = "RREP_ACK" /\ Commit(n, z, {f})
        /\ sent' = sent /\ delivered' = delivered
    BY <1>8 DEF RecvReplyAck
  <2>2. Mild(n, S, r, s) /\ r \in NodeState(n, S) /\ Extends(n, u, r.table) /\ NoMore(r, s)
    BY <1>3, <2>1, ReplyAckTableOK DEF Mild
  <2> HIDE DEF r, u
  <2>3. z \in NodeState(n, S) /\ z.table = u /\ Same(z, r) /\ NoMore(z, r)
    BY <2>2, SetTable DEF Extends, Clean
  <2> HIDE DEF z
  <2>4. Mild(n, S, z, r)
    BY <2>2, <2>3 DEF Mild, Extends
  <2>5. Mild(n, S, z, s) /\ NoMore(z, s)
    BY <2>2, <2>3, <2>4, MildTrans, NoMoreTrans
  <2> QED
    BY <1>1, <2>1, <2>5, MildEvent
<1>9. CASE LocalDelivery(n, f)
  <2> DEFINE z == NoteOrigin(s, x.src)
  <2>1. /\ m.type = "DATA" /\ Commit(n, z, {f}) /\ sent' = sent
        /\ delivered' = delivered \cup {m.packet}
    BY <1>9 DEF LocalDelivery
  <2>2. m.packet \in sent
    BY <1>2, <2>1, BodyTypes
  <2>3. sent \subseteq sent' /\ sent' \subseteq Packet /\ delivered' \subseteq sent'
    BY <2>1, <2>2 DEF IInv
  <2>4. Mild(n, S, z, s) /\ NoMore(z, s)
    BY <1>1, NoteOriginOK
  <2> HIDE DEF z
  <2>5. z \in NodeState(n, sent') /\ Settled(z, {}) /\ Conserves(z, s)
    BY <1>1, <2>1, <2>4, MildSettled, NoMoreConserves DEF Mild
  <2>6. ASSUME NEW k \in Packet PROVE Alone(k)'
    <3>1. Alone(k)
      BY DEF IInv, Placed
    <3>2. Single(s, k)
      BY <1>1, <3>1 DEF Alone
    <3>3. Single(z, k) /\ (Has(z, k) => Has(s, k))
      BY <2>5, <3>2 DEF Conserves
    <3>4. k \in delivered' \ delivered => f \in AirAt(k)
      BY <2>1 DEF AirAt, Carries
    <3>5. f \in AirAt(k) => Free(n, {f}, k)
      BY <1>1, FreeToTake DEF AirAt
    <3>6. Has(z, k) => Free(n, {f}, k)
      BY <1>1, <3>3, FreeToTake
    <3>7. ~Has(z, k) \/ k \notin delivered' \ delivered
      BY <1>1, <3>1, <3>3, <3>4 DEF Alone
    <3>8. delivered \subseteq delivered'
      BY <2>1
    <3> HIDE DEF n, s
    <3> QED
      BY <1>1, <2>1, <2>5, <3>3, <3>4, <3>5, <3>6, <3>7, <3>8, CommitAlone
  <2>7. Placed'
    BY <2>6 DEF Placed
  <2> QED
    BY <1>1, <2>1, <2>3, <2>5, <2>7, CommitOK
<1>10. CASE Forwarding(n, f)
  <2> DEFINE z == HandleForward(n, s, x)
  <2>1. /\ x.dst # Bcast /\ Commit(n, z, {f}) /\ sent' = sent /\ delivered' = delivered
    BY <1>10 DEF Forwarding
  <2>2. /\ Mild(n, S, z, s)
        /\ NoMore(z, s) \/ \E y : y.body = m /\ Puts(n, z, s, y)
    BY <1>1, <1>2, <2>1, HandleForwardOK
  <2> HIDE DEF z
  <2>3. CASE NoMore(z, s)
    BY <1>1, <2>1, <2>2, <2>3, MildEvent
  <2>4. CASE \E y : y.body = m /\ Puts(n, z, s, y)
    <3>1. PICK y : y.body = m /\ Puts(n, z, s, y)
      BY <2>4
    <3>2. z \in NodeState(n, sent') /\ Settled(z, {}) /\ z.queue = s.queue
      BY <1>1, <2>1, <2>2, MildSettled DEF Mild, Same
    <3>3. ASSUME NEW k \in Packet PROVE Alone(k)'
      <4>1. Alone(k)
        BY DEF IInv, Placed
      <4>2. Single(s, k)
        BY <1>1, <4>1 DEF Alone
      <4>3. Carries(y, k) => f \in AirAt(k)
        BY <3>1 DEF Carries, AirAt
      <4>4. Carries(y, k) => ~Has(s, k)
        BY <1>1, <4>1, <4>3 DEF Alone
      <4>5. Single(z, k) /\ (Has(z, k) => Has(s, k) \/ Carries(y, k))
        BY <1>1, <3>1, <3>2, <4>2, <4>4, PutsSingle
      <4>6. Has(s, k) \/ f \in AirAt(k) => Free(n, {f}, k)
        BY <1>1, FreeToTake DEF AirAt
      <4> HIDE DEF n, s
      <4>7. Has(z, k) => Free(n, {f}, k)
        BY <4>3, <4>5, <4>6
      <4> QED
        BY <1>1, <2>1, <3>2, <4>5, <4>7, CommitAlone
    <3>4. Placed'
      BY <3>3 DEF Placed
    <3>5. sent \subseteq sent' /\ sent' \subseteq Packet /\ delivered' \subseteq sent'
      BY <2>1 DEF IInv
    <3> QED
      BY <1>1, <2>1, <3>2, <3>4, <3>5, CommitOK
  <2> QED
    BY <2>2, <2>3, <2>4
<1> QED
  BY <1>4, <1>5, <1>6, <1>7, <1>8, <1>9, <1>10 DEF Receive

LEMMA LoseOK ==
    ASSUME IInv, NEW f, Lose(f)
    PROVE  IInv'
<1>1. /\ node' = node /\ sent' = sent /\ delivered' = delivered /\ failed' = failed
      /\ net' \subseteq net
  BY DEF Lose
<1>2. ASSUME NEW p \in Packet PROVE Alone(p)'
  <2>1. AirAt(p)' \subseteq AirAt(p) /\ Alone(p)
    BY <1>1 DEF AirAt, IInv, Placed
  <2> QED
    BY <1>1, <2>1 DEF Alone
<1>3. Placed'
  BY <1>2 DEF Placed
<1> QED
  BY <1>1, <1>3 DEF IInv, Resting

LEMMA AgeIdsOK ==
    ASSUME NEW c \in Ids
    PROVE  AgeIds(c) \in Ids
<1>1. PICK D \in SUBSET (Addr \X Nat) : c \in [D -> Int]
  BY DEF Ids
<1>2. AgeIds(c) \in [D -> Int]
  BY <1>1 DEF AgeIds
<1> QED
  BY <1>1, <1>2 DEF Ids

LEMMA TickOK ==
    ASSUME IInv, Tick
    PROVE  IInv'
<1> DEFINE aged(s) == [s EXCEPT !.table = Age(@), !.queue = AgeQueue(@),
                                !.rreqIdCache = AgeIds(@)]
<1>a. node' = [ n \in Node |-> aged(node[n]) ]
  BY Zenon DEF Tick
<1>b. net' = net /\ sent' = sent /\ delivered' = delivered /\ failed' = failed
  BY Zenon DEF Tick
<1> HIDE DEF aged, Tick
<1>1. ASSUME NEW n \in Node PROVE Resting(n, node'[n]) /\ NoMore(node'[n], node[n])
  <2> DEFINE s == node[n]
             t == Age(s.table)
             q == AgeQueue(s.queue)
             c == AgeIds(s.rreqIdCache)
             r == [s EXCEPT !.table = t, !.queue = q, !.rreqIdCache = c]
  <2>1. s \in NodeState(n, sent) /\ s.out = {} /\ s.errors = {} /\ Settled(s, {})
    BY DEF IInv, Resting
  <2>2. GoodTable(n, s.table) /\ s.queue \in Seq(Item(n, sent)) /\ s.rreqIdCache \in Ids
    BY <2>1, Fields
  <2>3. node'[n] = r
    <3>1. node'[n] = aged(node[n])
      BY <1>a, Zenon
    <3> QED
      BY <3>1, Zenon DEF aged
  <2>4. t \in Tables(n) /\ Searched(t) = Searched(s.table)
    BY <2>2, AgeOK, TableType
  <2>5. /\ q \in Seq(Item(n, sent)) /\ c \in Ids
        /\ \A e \in ToSet(q) : \E x \in ToSet(s.queue) : e.dst = x.dst
        /\ DOMAIN q = DOMAIN s.queue /\ \A i \in DOMAIN q : q[i].uid = s.queue[i].uid
    BY <2>2, AgeQueueOK, AgeIdsOK
  <2> HIDE DEF s, t, q, c
  <2>6. r \in NodeState(n, sent)
    BY <2>1, <2>4, <2>5 DEF NodeState
  <2>7. /\ r.table = t /\ r.queue = q /\ r.retry = s.retry /\ r.deferred = s.deferred
        /\ r.out = s.out /\ r.errors = s.errors /\ r.lo = s.lo
    BY <2>1 DEF NodeState
  <2> HIDE DEF r
  <2>8. Settled(r, {})
    BY <2>1, <2>4, <2>5, <2>7 DEF Settled, Awake
  <2>9. NoMore(r, s)
    BY <2>5, <2>7 DEF NoMore, LoAt, QueueAt, OutAt, BackAt
  <2> QED
    BY <2>1, <2>3, <2>6, <2>7, <2>8, <2>9 DEF Resting, s
<1>2. /\ net' = net /\ sent' = sent /\ delivered' = delivered /\ failed' = failed
      /\ DOMAIN node' = Node
  BY <1>a, <1>b
<1>3. ASSUME NEW n \in Node PROVE Resting(n, node[n])'
  BY <1>1, <1>2 DEF Resting
<1>4. ASSUME NEW p \in Packet PROVE Alone(p)'
  <2>1. Alone(p) /\ AirAt(p)' = AirAt(p)
    BY <1>2 DEF IInv, Placed, AirAt
  <2>2. \A n \in Node : Single(node[n], p)
    BY <2>1 DEF Alone
  <2>3. \A n \in Node : Single(node'[n], p) /\ (Has(node'[n], p) => Has(node[n], p))
    BY <1>1, <2>2, NoMoreConserves DEF Conserves
  <2> QED
    BY <1>2, <2>1, <2>3 DEF Alone
<1>5. Placed'
  BY <1>4 DEF Placed
<1> QED
  BY <1>2, <1>3, <1>5 DEF IInv

LEMMA NextOK == IInv /\ [Next]_vars => IInv'
<1> SUFFICES ASSUME IInv, [Next]_vars PROVE IInv'
  OBVIOUS
<1>1. ASSUME NEW p \in Packet, Send(p) PROVE IInv'
  BY <1>1, SendOK
<1>2. ASSUME NEW n \in Node, DeferredRouteOutput(n) PROVE IInv'
  BY <1>2, DeferredRouteOutputOK
<1>3. ASSUME NEW n \in Node, NEW d \in Addr, SendDeferredRequest(n, d) PROVE IInv'
  BY <1>3, SendDeferredRequestOK
<1>4. ASSUME NEW n \in Node, NEW d \in Addr, RouteRequestTimerExpire(n, d) PROVE IInv'
  BY <1>4, TimerExpireOK
<1>5. ASSUME NEW n \in Node, RreqRateLimitTimerExpire(n) \/ RerrRateLimitTimerExpire(n)
      PROVE  IInv'
  BY <1>5, RateLimitOK
<1>6. ASSUME NEW n \in Node, SendHello(n) PROVE IInv'
  BY <1>6, SendHelloOK
<1>7. ASSUME NEW n \in Node, NEW x \in node[n].scheduled, SendTo(n, x) PROVE IInv'
  BY <1>7, SendToOK
<1>8. ASSUME NEW n \in Node, NEW a \in node[n].nb, LinkFailure(n, a) PROVE IInv'
  BY <1>8, LinkFailureOK
<1>9. ASSUME NEW n \in Node, NotifyInterfaceDown(n) \/ NotifyInterfaceUp(n) PROVE IInv'
  BY <1>9, InterfaceOK
<1>10. ASSUME NEW f \in net, Receive(f.to, f) PROVE IInv'
  BY <1>10, ReceiveOK
<1>11. ASSUME NEW f \in net, Lose(f) PROVE IInv'
  BY <1>11, LoseOK
<1>12. ASSUME Tick PROVE IInv'
  BY <1>12, TickOK
<1>13. ASSUME UNCHANGED vars PROVE IInv'
  <2>1. Placed => Placed'
    BY <1>13 DEF Placed, Alone, AirAt, vars
  <2> QED
    BY <1>13, <2>1 DEF IInv, Resting, vars
<1> QED
  BY <1>1, <1>2, <1>3, <1>4, <1>5, <1>6, <1>7, <1>8, <1>9, <1>10, <1>11, <1>12, <1>13 DEF Next

LEMMA Invariance == Spec => []IInv
  BY InitOK, NextOK, PTL DEF Spec

-----------------------------------------------------------------------------
(* What follows *)

\* The state has its type: the rate counters stay within their limits, the
\* tables are well formed, frames are only in flight between nodes in range,
\* and what handlers collect for the radio and the error callbacks leaves the
\* object with the event.
THEOREM TypeCorrect == Spec => []TypeOK
<1>1. IInv => TypeOK
  <2> SUFFICES ASSUME IInv PROVE TypeOK
    OBVIOUS
  <2>1. \A f \in net : f.via \in Node /\ f.to \in Node /\ InRange(f)
    BY DEF IInv, OnAir
  <2>2. ASSUME NEW n \in Node
        PROVE  /\ IsTable(Table(n))
               /\ node[n].rreqCount \in 0 .. RreqRateLimit
               /\ node[n].rerrCount \in 0 .. RerrRateLimit
               /\ node[n].nb \subseteq Addr \cup {NoAddr}
               /\ node[n].retry \subseteq Addr
               /\ node[n].deferred \in [Addr -> Nat]
               /\ node[n].up \in BOOLEAN /\ node[n].htimer \in BOOLEAN
               /\ node[n].out = {} /\ node[n].errors = {}
    <3> DEFINE s == node[n]
    <3>1. s \in NodeState(n, sent) /\ s.out = {} /\ s.errors = {}
      BY DEF IInv, Resting
    <3> HIDE DEF s
    <3>2. GoodTable(n, s.table) /\ s.retry \subseteq Addr
      BY <3>1, Fields
    <3> QED
      BY <3>1, <3>2, Fields DEF s, Table, GoodTable
  <2> QED
    BY <2>1, <2>2 DEF TypeOK, IInv
<1> QED
  BY <1>1, Invariance, PTL

\* The route of RouteOutput, of the replies, of the acknowledgements and of the
\* unicast errors has an interface and leads to a node in range, whatever
\* requests, replies, errors, hellos and expired timers made of the entry
\* before: the assertions on the route and its socket hold, in every topology.
THEOREM RoutesAlwaysUsable == Spec => []RoutesUsable
<1>1. IInv => RoutesUsable
  <2> SUFFICES ASSUME IInv, NEW n \in Node, NEW d \in DOMAIN Table(n),
                      Table(n)[d].flag # "IN_SEARCH"
               PROVE  /\ Table(n)[d].iface = Wlan /\ {n, Table(n)[d].nextHop} \in Link
                      /\ Table(n)[d].hops >= 1
    BY DEF RoutesUsable
  <2>1. GoodTable(n, Table(n))
    BY Rests, Fields DEF Table
  <2> QED
    BY <2>1 DEF GoodTable, GoodEntry, Near
<1> QED
  BY <1>1, Invariance, PTL

\* An entry in search, which never expires and which packets only wait for, is
\* looked after by its retry timer or by a request held back by the rate limit.
THEOREM SearchesLookedAfter == Spec => []SearchHasWakeup
<1>1. IInv => SearchHasWakeup
  <2> SUFFICES ASSUME IInv, NEW n \in Node, NEW d \in DOMAIN Table(n),
                      Table(n)[d].flag = "IN_SEARCH"
               PROVE  d \in node[n].retry \/ node[n].deferred[d] > 0
    BY DEF SearchHasWakeup
  <2> QED
    BY Rests DEF Settled, Searched, Awake, Table
<1> QED
  BY <1>1, Invariance, PTL

\* Every packet in a queue has a retry timer that will send or drop it, or a
\* held-back request that will start one, also across the loss of the interface
\* and the expiry of routes.
THEOREM PacketsLookedAfter == Spec => []NoStrandedPacket
<1>1. IInv => NoStrandedPacket
  BY Rests DEF Settled, Awake, NoStrandedPacket
<1> QED
  BY <1>1, Invariance, PTL

\* A set with one element at most.
LEMMA OneAtMost ==
    ASSUME NEW X, \A x, y \in X : x = y
    PROVE  X # {} => Cardinality(X) = 1
<1> SUFFICES ASSUME NEW x \in X PROVE Cardinality(X) = 1
  OBVIOUS
<1>1. X = {x}
  OBVIOUS
<1> QED
  BY <1>1, FS_Singleton

\* An application packet is never doubled: it is on the air, in a loopback
\* device or in a queue, in one place only, whatever timers, replies, errors,
\* losses and interfaces do in between; and it is in none of them once it is
\* delivered or its sender was told that it is lost, never both.
THEOREM PacketsConserved == Spec => []PacketConserved
<1>1. IInv => PacketConserved
  <2> SUFFICES ASSUME IInv, NEW p \in Packet
               PROVE  Copies(p) + (IF p \in delivered THEN 1 ELSE 0)
                                + (IF p \in failed THEN 1 ELSE 0) <= 1
    BY DEF PacketConserved
  <2> DEFINE X == { g \in net : Carries(g.ip, p) }
             L(n) == { j \in DOMAIN node[n].lo : Carries(node[n].lo[j], p) }
             Y == UNION { { <<n, i>> : i \in L(n) } : n \in Node }
             Z == { n \in Node : \E x \in Waiting(n) : Carries(x, p) }
  <2>1. Copies(p) = Cardinality(X) + Cardinality(Y) + Cardinality(Z)
    BY DEF Copies, Carries
  <2>2. Alone(p)
    BY DEF IInv, Placed
  <2>3. X = AirAt(p)
    BY DEF AirAt
  <2>4. \A y \in Y : \E n \in Node : \E i \in LoAt(node[n], p) : y = <<n, i>>
    BY DEF LoAt
  <2>5. \A n \in Z : n \in Node /\ QueueAt(node[n], p) # {}
    BY DEF QueueAt, Waiting, ToSet
  <2> HIDE DEF X, Y, Z
  <2>6. /\ \A x, y \in X : x = y
        /\ \A x, y \in Y : x = y
        /\ \A x, y \in Z : x = y
    <3>1. \A x, y \in X : x = y
      BY <2>2, <2>3 DEF Alone
    <3>2. ASSUME NEW x \in Y, NEW y \in Y PROVE x = y
      <4>1. PICK m \in Node : \E i \in LoAt(node[m], p) : x = <<m, i>>
        BY <2>4
      <4>2. PICK n \in Node : \E j \in LoAt(node[n], p) : y = <<n, j>>
        BY <2>4
      <4>3. m = n /\ Single(node[n], p)
        BY <2>2, <4>1, <4>2 DEF Alone, Has
      <4> QED
        BY <4>1, <4>2, <4>3 DEF Single
    <3>3. \A x, y \in Z : x = y
      BY <2>2, <2>5 DEF Alone, Has
    <3> QED
      BY <3>1, <3>2, <3>3
  <2>7. /\ X = {} \/ (Y = {} /\ Z = {})
        /\ Y = {} \/ Z = {}
        /\ p \in delivered \/ p \in failed => X = {} /\ Y = {} /\ Z = {}
        /\ p \notin delivered \/ p \notin failed
    <3>1. Y # {} => \E n \in Node : LoAt(node[n], p) # {} /\ Has(node[n], p)
      BY <2>4 DEF Has
    <3>2. Z # {} => \E n \in Node : QueueAt(node[n], p) # {} /\ Has(node[n], p)
      BY <2>5 DEF Has
    <3>3. Y = {} \/ Z = {}
      <4> SUFFICES ASSUME Y # {}, Z # {} PROVE FALSE
        OBVIOUS
      <4>1. PICK m \in Node : LoAt(node[m], p) # {} /\ Has(node[m], p)
        BY <3>1
      <4>2. PICK n \in Node : QueueAt(node[n], p) # {} /\ Has(node[n], p)
        BY <3>2
      <4>3. m = n /\ Single(node[n], p)
        BY <2>2, <4>1, <4>2 DEF Alone
      <4> QED
        BY <4>1, <4>2, <4>3 DEF Single
    <3>4. X = {} \/ (Y = {} /\ Z = {})
      BY <2>2, <2>3, <3>1, <3>2 DEF Alone
    <3>5. p \in delivered \/ p \in failed => X = {} /\ Y = {} /\ Z = {}
      BY <2>2, <2>3, <3>1, <3>2 DEF Alone
    <3> QED
      BY <2>2, <3>3, <3>4, <3>5 DEF Alone
  <2>8. /\ X = {} => Cardinality(X) = 0
        /\ Y = {} => Cardinality(Y) = 0
        /\ Z = {} => Cardinality(Z) = 0
    BY FS_EmptySet
  <2>9. /\ X # {} => Cardinality(X) = 1
        /\ Y # {} => Cardinality(Y) = 1
        /\ Z # {} => Cardinality(Z) = 1
    BY <2>6, OneAtMost
  <2> QED
    BY <2>1, <2>7, <2>8, <2>9
<1> QED
  BY <1>1, Invariance, PTL

=============================================================================
