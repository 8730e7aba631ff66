------------------------- MODULE RoutingTableProofs -------------------------
(***************************************************************************)
(* Proofs about the routing table: the invariants MCRoutingTable checks    *)
(* on two destinations, for every set of addresses, interfaces and input   *)
(* entries, and every DeletePeriod.                                        *)
(***************************************************************************)
EXTENDS RoutingTableSpec, TLAPS

CntOK(e) == e.reqCount > 0 => e.flag = "IN_SEARCH"

\* Nothing the entry methods do leaves the type of entries.
LEMMA EntryOps ==
    ASSUME NEW e \in Entry, NEW n \in Addr
    PROVE  /\ Invalidate(e) \in Entry
           /\ ResetRreqCnt(e) \in Entry
           /\ InsertPrecursor(e, n) \in Entry
           /\ DeletePrecursor(e, n) \in Entry
           /\ [IncrementRreqCnt(e) EXCEPT !.flag = "IN_SEARCH"] \in Entry
           /\ [e EXCEPT !.lifeTime = Elapse(@)] \in Entry
<1>1. /\ 0 \in 0 .. RreqCntMod - 1
      /\ (e.reqCount + 1) % RreqCntMod \in 0 .. RreqCntMod - 1
  BY RreqCntModAssumption DEF Entry
<1>2. Invalidate(e) \in Entry
  <2>1. CASE e.flag = "INVALID"
    BY <2>1 DEF Invalidate
  <2>2. CASE e.flag # "INVALID"
    <3>1. Invalidate(e) = [e EXCEPT !.flag = "INVALID", !.reqCount = 0,
                                    !.lifeTime = BadLinkLifetime]
      BY <2>2 DEF Invalidate
    <3>2. "INVALID" \in RouteFlags /\ BadLinkLifetime \in Int
      BY BadLinkLifetimeAssumption DEF RouteFlags
    <3> QED
      BY <1>1, <3>1, <3>2 DEF Entry
  <2> QED
    BY <2>1, <2>2
<1>3. ResetRreqCnt(e) \in Entry
  BY <1>1 DEF ResetRreqCnt, Entry
<1>4. InsertPrecursor(e, n) \in Entry /\ DeletePrecursor(e, n) \in Entry
  BY DEF InsertPrecursor, DeletePrecursor, Entry
<1>5. [IncrementRreqCnt(e) EXCEPT !.flag = "IN_SEARCH"] \in Entry
  BY <1>1 DEF IncrementRreqCnt, Entry, RouteFlags
<1>6. [e EXCEPT !.lifeTime = Elapse(@)] \in Entry
  BY DEF Elapse, Entry
<1> QED
  BY <1>2, <1>3, <1>4, <1>5, <1>6

\* Purging a table yields a table.
LEMMA PurgeType ==
    ASSUME NEW t, IsTable(t)
    PROVE  IsTable(Purge(t)) /\ DOMAIN Purge(t) \subseteq DOMAIN t
<1>1. \A d \in DOMAIN t : t[d] \in Entry /\ Invalidate(t[d]) \in Entry
  <2> SUFFICES ASSUME NEW d \in DOMAIN t PROVE t[d] \in Entry /\ Invalidate(t[d]) \in Entry
    OBVIOUS
  <2>1. t[d] \in Entry /\ d \in Addr
    BY DEF IsTable
  <2> QED BY <2>1, EntryOps
<1> QED
  BY <1>1 DEF Purge, IsTable

\* What Invalidate makes of a usable route.
LEMMA InvalidateUsable ==
    ASSUME NEW e \in Entry, e.flag = "VALID"
    PROVE  /\ Invalidate(e).flag = "INVALID"
           /\ Invalidate(e).reqCount = 0
           /\ Invalidate(e).lifeTime = BadLinkLifetime
  BY DEF Invalidate, Entry

\* What a purge makes of one entry: a usable route is kept or invalidated,
\* an invalid one whose time has not run out is kept as it is.
LEMMA PurgeEntry ==
    ASSUME NEW t, IsTable(t), NEW d \in DOMAIN t
    PROVE  /\ d \in DOMAIN Purge(t) =>
                 \/ Purge(t)[d] = t[d]
                 \/ t[d].flag = "VALID" /\ Purge(t)[d] = Invalidate(t[d])
           /\ t[d].flag = "VALID" => d \in DOMAIN Purge(t)
           /\ t[d].flag = "INVALID" /\ t[d].lifeTime >= 0 =>
                 d \in DOMAIN Purge(t) /\ Purge(t)[d] = t[d]
<1>1. t[d] \in Entry
  BY DEF IsTable
<1> DEFINE kept == { x \in DOMAIN t : ~(Expired(t[x]) /\ t[x].flag = "INVALID") }
<1>2. DOMAIN Purge(t) = kept
  BY DEF Purge
<1>3. d \in kept => Purge(t)[d] = IF Expired(t[d]) /\ t[d].flag = "VALID"
                                  THEN Invalidate(t[d]) ELSE t[d]
  BY DEF Purge
<1>4. t[d].lifeTime >= 0 => ~Expired(t[d])
  BY <1>1 DEF Expired, Entry
<1> QED
  BY <1>1, <1>2, <1>3, <1>4

-----------------------------------------------------------------------------
\* The invariant: the three together are inductive, retention needs the type.
IInv == TypeOK /\ BrokenRouteRetained /\ RreqCntOnlyInSearch

\* Entry e honours a debt of r time units to a broken route.
Honours(e, r) == e.flag = "INVALID" /\ e.lifeTime >= r

\* t may become the table when the caller answers for chosen.
Sound(t, chosen) ==
    /\ IsTable(t)
    /\ \A d \in DOMAIN t : CntOK(t[d])
    /\ \A d \in Addr \ chosen :
         /\ d \in Broken(t) => d \in DOMAIN t /\ Honours(t[d], BadLinkLifetime)
         /\ d \notin Broken(t) /\ retention[d] >= 0
              => d \in DOMAIN t /\ Honours(t[d], retention[d])

LEMMA BecomesSound ==
    ASSUME IInv, NEW t, NEW chosen, Sound(t, chosen), Becomes(t, chosen)
    PROVE  IInv'
<1>1. TypeOK'
  BY BadLinkLifetimeAssumption
  DEF IInv, TypeOK, Sound, Becomes, NotOwed, IsTable
<1>2. RreqCntOnlyInSearch'
  BY DEF RreqCntOnlyInSearch, Sound, Becomes, CntOK
<1>3. BrokenRouteRetained'
  <2> SUFFICES ASSUME NEW d \in Addr, retention'[d] >= 0
               PROVE  d \in DOMAIN table' /\ Honours(table'[d], retention'[d])
    BY DEF BrokenRouteRetained, Honours
  <2>1. d \notin chosen
    BY DEF Becomes, NotOwed
  <2>2. retention'[d] = IF d \in Broken(t) THEN BadLinkLifetime ELSE retention[d]
    BY <2>1 DEF Becomes
  <2> QED
    BY <2>1, <2>2 DEF Sound, Becomes
<1> QED
  BY <1>1, <1>2, <1>3 DEF IInv

LEMMA PurgeSound ==
    ASSUME IInv
    PROVE  Sound(Purge(table), {})
<1> DEFINE p == Purge(table)
<1>1. IsTable(table) /\ IsTable(p) /\ DOMAIN p \subseteq DOMAIN table
  BY PurgeType DEF IInv, TypeOK
<1>2. \A d \in DOMAIN table : table[d] \in Entry
  BY <1>1 DEF IsTable
<1>3. \A d \in DOMAIN p : CntOK(p[d])
  <2> TAKE d \in DOMAIN p
  <2>1. d \in DOMAIN table /\ CntOK(table[d])
    BY <1>1 DEF IInv, RreqCntOnlyInSearch, CntOK
  <2>2. \/ p[d] = table[d]
        \/ table[d].flag = "VALID" /\ p[d] = Invalidate(table[d])
    BY <1>1, PurgeEntry
  <2> QED
    BY <1>2, <2>1, <2>2, InvalidateUsable DEF CntOK
<1>4. ASSUME NEW d \in Addr, d \in Broken(p)
      PROVE  d \in DOMAIN p /\ Honours(p[d], BadLinkLifetime)
  <2>1. d \in DOMAIN table /\ table[d].flag = "VALID"
    BY <1>4 DEF Broken
  <2>2. d \in DOMAIN p /\ p[d] = Invalidate(table[d])
    BY <1>1, <1>4, <2>1, PurgeEntry DEF Broken
  <2> QED
    BY <1>2, <2>1, <2>2, InvalidateUsable, BadLinkLifetimeAssumption DEF Honours
<1>5. ASSUME NEW d \in Addr, retention[d] >= 0
      PROVE  d \in DOMAIN p /\ Honours(p[d], retention[d])
  <2>1. d \in DOMAIN table /\ table[d].flag = "INVALID"
        /\ table[d].lifeTime >= retention[d]
    BY <1>5 DEF IInv, BrokenRouteRetained
  <2>2. table[d].lifeTime >= 0
    BY <1>2, <1>5, <2>1 DEF IInv, TypeOK, Entry
  <2>3. d \in DOMAIN p /\ p[d] = table[d]
    BY <1>1, <2>1, <2>2, PurgeEntry
  <2> QED
    BY <2>1, <2>3 DEF Honours
<1> QED
  BY <1>1, <1>3, <1>4, <1>5 DEF Sound

\* Storing any entry keeps the request counter rule.
LEMMA ResetCnt ==
    ASSUME NEW e \in Entry
    PROVE  ResetRreqCnt(e) \in Entry /\ CntOK(ResetRreqCnt(e))
<1>1. 0 \in 0 .. RreqCntMod - 1
  BY RreqCntModAssumption
<1> QED
  BY <1>1 DEF ResetRreqCnt, CntOK, Entry

LEMMA AddSound ==
    ASSUME IInv, NEW d \in Addr, NEW e \in Entry
    PROVE  Sound(AddRoute(table, d, e), {})
<1> DEFINE p == Purge(table)
           q == AddRoute(table, d, e)
<1>1. Sound(p, {})
  BY PurgeSound
<1>2. CASE d \in DOMAIN p
  BY <1>1, <1>2 DEF AddRoute
<1>3. CASE d \notin DOMAIN p
  <2>1. /\ DOMAIN q = DOMAIN p \cup {d}
        /\ q[d] = ResetRreqCnt(e)
        /\ \A x \in DOMAIN p : q[x] = p[x]
        /\ q = [x \in DOMAIN q |-> q[x]]
    BY <1>3 DEF AddRoute
  <2>2. IsTable(q)
    BY <1>1, <2>1, ResetCnt DEF Sound, IsTable
  <2>3. \A x \in DOMAIN q : CntOK(q[x])
    BY <1>1, <2>1, ResetCnt DEF Sound
  <2>4. d \notin Broken(p) /\ d \notin Broken(q) /\ ~(retention[d] >= 0)
    BY <1>1, <1>3, <2>1 DEF Sound, Broken
  <2>5. \A x \in Addr \ {d} : (x \in Broken(q)) = (x \in Broken(p))
    BY <2>1 DEF Broken
  <2> QED
    BY <1>1, <2>1, <2>2, <2>3, <2>4, <2>5 DEF Sound
<1> QED
  BY <1>2, <1>3

\* Changing the entry of one destination the caller answers for.
LEMMA PointSound ==
    ASSUME IInv, NEW d \in DOMAIN table, NEW e \in Entry, CntOK(e)
    PROVE  Sound([table EXCEPT ![d] = e], {d})
<1> DEFINE q == [table EXCEPT ![d] = e]
<1>1. /\ DOMAIN q = DOMAIN table /\ q[d] = e
      /\ \A x \in DOMAIN table \ {d} : q[x] = table[x]
  BY DEF IInv, TypeOK, IsTable
<1>2. IsTable(q)
  BY <1>1 DEF IInv, TypeOK, IsTable
<1>3. \A x \in DOMAIN q : CntOK(q[x])
  BY <1>1 DEF IInv, RreqCntOnlyInSearch, CntOK
<1>4. \A x \in Addr \ {d} : x \notin Broken(q)
  BY <1>1 DEF Broken
<1>5. \A x \in Addr \ {d} : retention[x] >= 0 =>
         x \in DOMAIN q /\ Honours(q[x], retention[x])
  BY <1>1 DEF IInv, BrokenRouteRetained, Honours
<1> QED
  BY <1>2, <1>3, <1>4, <1>5 DEF Sound

\* Leaving the table alone.
LEMMA SameSound ==
    ASSUME IInv, NEW chosen
    PROVE  Sound(table, chosen)
<1>1. \A x \in Addr : x \notin Broken(table)
  BY DEF Broken
<1> QED
  BY <1>1 DEF Sound, IInv, TypeOK, RreqCntOnlyInSearch, CntOK,
              BrokenRouteRetained, Honours

LEMMA StoreSound ==
    ASSUME IInv, NEW d \in Addr, NEW e \in Entry
    PROVE  Sound(Update(table, d, e), {d})
<1>1. CASE d \in DOMAIN table
  BY <1>1, ResetCnt, PointSound DEF Update
<1>2. CASE d \notin DOMAIN table
  BY <1>2, SameSound DEF Update
<1> QED
  BY <1>1, <1>2

LEMMA SetStateSound ==
    ASSUME IInv, NEW d \in Addr, NEW state \in RouteFlags
    PROVE  Sound(SetEntryState(table, d, state), {d})
<1>1. CASE d \in DOMAIN table
  <2> DEFINE e == [table[d] EXCEPT !.flag = state, !.reqCount = 0]
  <2>1. table[d] \in Entry /\ 0 \in 0 .. RreqCntMod - 1
    BY <1>1, RreqCntModAssumption DEF IInv, TypeOK, IsTable
  <2>2. e \in Entry /\ CntOK(e)
    <3>1. e \in Entry
      BY <2>1 DEF Entry
    <3>2. e.reqCount = 0
      BY <2>1 DEF Entry
    <3> QED
      BY <3>1, <3>2 DEF CntOK
  <2>3. SetEntryState(table, d, state) = [table EXCEPT ![d] = e]
    BY <1>1 DEF SetEntryState, IInv, TypeOK, IsTable
  <2> HIDE DEF e
  <2> QED
    BY <1>1, <2>2, <2>3, PointSound
<1>2. CASE d \notin DOMAIN table
  BY <1>2, SameSound DEF SetEntryState
<1> QED
  BY <1>1, <1>2

LEMMA MarkSound ==
    ASSUME IInv, NEW n \in Addr
    PROVE  Sound(MarkLinkAsUnidirectional(table, n), {})
<1>1. CASE n \in DOMAIN table
  <2> DEFINE e == [table[n] EXCEPT !.unidirectional = TRUE, !.reqCount = 0]
             q == [table EXCEPT ![n] = e]
  <2>1. table[n] \in Entry /\ 0 \in 0 .. RreqCntMod - 1
    BY <1>1, RreqCntModAssumption DEF IInv, TypeOK, IsTable
  <2>2. e \in Entry /\ CntOK(e) /\ e.flag = table[n].flag
        /\ e.lifeTime = table[n].lifeTime
    <3>1. e \in Entry
      BY <2>1 DEF Entry
    <3>2. e.reqCount = 0 /\ e.flag = table[n].flag /\ e.lifeTime = table[n].lifeTime
      BY <2>1 DEF Entry
    <3> QED
      BY <3>1, <3>2 DEF CntOK
  <2>3. MarkLinkAsUnidirectional(table, n) = q
    BY <1>1 DEF MarkLinkAsUnidirectional, IInv, TypeOK, IsTable
  <2>4. DOMAIN q = DOMAIN table /\ q[n] = e
    BY <1>1 DEF IInv, TypeOK, IsTable
  <2> HIDE DEF e
  <2>5. Sound(q, {n})
    BY <1>1, <2>2, PointSound
  <2>6. n \notin Broken(q)
    BY <2>2, <2>4 DEF Broken
  <2>7. retention[n] >= 0 => Honours(q[n], retention[n])
    BY <2>2, <2>4 DEF IInv, BrokenRouteRetained, Honours
  <2> QED
    BY <1>1, <2>3, <2>4, <2>5, <2>6, <2>7 DEF Sound
<1>2. CASE n \notin DOMAIN table
  BY <1>2, SameSound DEF MarkLinkAsUnidirectional
<1> QED
  BY <1>1, <1>2

\* Dropping entries the caller answers for.
LEMMA RestrictSound ==
    ASSUME NEW t, NEW D, NEW chosen, D \subseteq DOMAIN t,
           Sound(t, {}), DOMAIN t \ D \subseteq chosen
    PROVE  Sound(Restrict(t, D), chosen)
<1> DEFINE q == Restrict(t, D)
<1>1. DOMAIN q = D /\ (\A x \in D : q[x] = t[x]) /\ q = [x \in D |-> q[x]]
  BY DEF Restrict
<1>2. IsTable(q) /\ \A x \in DOMAIN q : CntOK(q[x])
  BY <1>1 DEF Sound, IsTable
<1>3. \A x \in Addr \ chosen : (x \in Broken(q)) = (x \in Broken(t))
  BY <1>1 DEF Broken
<1> HIDE DEF q
<1> QED
  BY <1>1, <1>2, <1>3 DEF Sound, q

LEMMA BreakSound ==
    ASSUME IInv, NEW D \in SUBSET Addr
    PROVE  Sound(InvalidateRoutesWithDst(table, D), {})
<1> DEFINE p == Purge(table)
           q == InvalidateRoutesWithDst(table, D)
<1>1. Sound(p, {}) /\ \A d \in DOMAIN p : p[d] \in Entry
  BY PurgeSound DEF Sound, IsTable
<1>2. /\ DOMAIN q = DOMAIN p
      /\ q = [x \in DOMAIN q |-> q[x]]
      /\ \A x \in DOMAIN q : q[x] = IF x \in D /\ p[x].flag = "VALID"
                                    THEN Invalidate(p[x]) ELSE p[x]
  BY DEF InvalidateRoutesWithDst
<1>3. \A x \in DOMAIN q :
        /\ q[x] \in Entry /\ CntOK(q[x])
        /\ p[x].flag # "VALID" => q[x] = p[x]
        /\ p[x].flag = "VALID" /\ q[x].flag # "VALID"
             => Honours(q[x], BadLinkLifetime)
  <2> TAKE x \in DOMAIN q
  <2>1. CASE x \in D /\ p[x].flag = "VALID"
    <3>1. q[x] = Invalidate(p[x]) /\ p[x] \in Entry /\ x \in Addr
      BY <1>1, <1>2, <2>1
    <3>2. q[x] \in Entry
      BY <3>1, EntryOps
    <3>3. q[x].flag = "INVALID" /\ q[x].reqCount = 0 /\ q[x].lifeTime = BadLinkLifetime
      BY <2>1, <3>1, InvalidateUsable
    <3> QED
      BY <2>1, <3>2, <3>3, BadLinkLifetimeAssumption DEF CntOK, Honours
  <2>2. CASE ~(x \in D /\ p[x].flag = "VALID")
    <3>1. q[x] = p[x]
      BY <1>2, <2>2
    <3> QED
      BY <1>1, <1>2, <3>1 DEF Sound
  <2> QED
    BY <2>1, <2>2
<1>4. IsTable(q)
  BY <1>1, <1>2, <1>3 DEF Sound, IsTable
<1> HIDE DEF q, p
<1>5. ASSUME NEW x \in Addr, x \in Broken(q)
      PROVE  x \in DOMAIN q /\ Honours(q[x], BadLinkLifetime)
  <2>1. CASE x \in Broken(p)
    <3>1. x \in DOMAIN p /\ Honours(p[x], BadLinkLifetime)
      BY <1>1, <2>1 DEF Sound
    <3> QED
      BY <1>2, <1>3, <3>1 DEF Honours
  <2>2. CASE x \notin Broken(p)
    <3>1. x \in DOMAIN p /\ p[x].flag = "VALID"
      BY <1>5, <2>2 DEF Broken
    <3> QED
      BY <1>2, <1>3, <1>5, <3>1 DEF Broken
  <2> QED
    BY <2>1, <2>2
<1>6. ASSUME NEW x \in Addr, x \notin Broken(q), retention[x] >= 0
      PROVE  x \in DOMAIN q /\ Honours(q[x], retention[x])
  <2>1. x \in DOMAIN table /\ table[x].flag = "INVALID"
    BY <1>6 DEF IInv, BrokenRouteRetained
  <2>2. x \notin Broken(p)
    BY <2>1 DEF Broken
  <2>3. x \in DOMAIN p /\ Honours(p[x], retention[x])
    BY <1>1, <1>6, <2>2 DEF Sound
  <2> QED
    BY <1>2, <1>3, <2>3 DEF Honours
<1> QED
  BY <1>2, <1>3, <1>4, <1>5, <1>6 DEF Sound, q

\* Time takes one unit from a debt and at most one from the entry that owes it.
LEMMA TickSound ==
    ASSUME IInv, Tick
    PROVE  IInv'
<1>1. \A d \in DOMAIN table : table[d] \in Entry /\ d \in Addr
  BY DEF IInv, TypeOK, IsTable
<1>2. /\ DOMAIN table' = DOMAIN table
      /\ table' = [d \in DOMAIN table' |-> table'[d]]
      /\ \A d \in DOMAIN table :
           /\ table'[d] = [table[d] EXCEPT !.lifeTime = Elapse(table[d].lifeTime)]
           /\ table'[d] \in Entry
  BY <1>1, EntryOps DEF Tick, Age
<1>3. \A d \in DOMAIN table : /\ table'[d].flag = table[d].flag
                              /\ table'[d].reqCount = table[d].reqCount
                              /\ table'[d].lifeTime = Elapse(table[d].lifeTime)
  BY <1>1, <1>2 DEF Entry
<1>4. \A d \in Addr : retention[d] \in Int /\ retention'[d] = Elapse(retention[d])
  BY DEF IInv, TypeOK, Tick
<1>5. TypeOK'
  BY <1>1, <1>2, <1>4 DEF TypeOK, IsTable, Tick, Elapse
<1>6. RreqCntOnlyInSearch'
  BY <1>2, <1>3 DEF IInv, RreqCntOnlyInSearch
<1>7. BrokenRouteRetained'
  <2> SUFFICES ASSUME NEW d \in Addr, retention'[d] >= 0
               PROVE  d \in DOMAIN table' /\ table'[d].flag = "INVALID"
                      /\ table'[d].lifeTime >= retention'[d]
    BY DEF BrokenRouteRetained
  <2>1. retention[d] >= 0 /\ retention'[d] = retention[d] - 1
    BY <1>4 DEF Elapse
  <2>2. d \in DOMAIN table /\ table[d].flag = "INVALID"
        /\ table[d].lifeTime >= retention[d]
    BY <2>1 DEF IInv, BrokenRouteRetained
  <2>3. table[d].lifeTime \in Int /\ table'[d].lifeTime = table[d].lifeTime - 1
    BY <1>1, <1>3, <1>4, <2>1, <2>2 DEF Elapse, Entry
  <2> QED
    BY <1>2, <1>3, <1>4, <2>1, <2>2, <2>3
<1> QED
  BY <1>5, <1>6, <1>7 DEF IInv

LEMMA InitIInv == Init => IInv
<1> SUFFICES ASSUME Init PROVE IInv
  OBVIOUS
<1>1. DOMAIN table = {} /\ table = [d \in {} |-> table[d]]
  BY DEF Init, EmptyTable
<1>2. IsTable(table)
  BY <1>1 DEF IsTable
<1>3. retention \in [Addr -> Int] /\ \A d \in Addr : ~(retention[d] >= 0)
  BY DEF Init, NotOwed
<1> QED
  BY <1>1, <1>2, <1>3 DEF IInv, TypeOK, BrokenRouteRetained, RreqCntOnlyInSearch

LEMMA NextIInv == IInv /\ [Next]_vars => IInv'
<1> SUFFICES ASSUME IInv, [Next]_vars PROVE IInv'
  OBVIOUS
<1>1. CASE Lookup
  BY <1>1, PurgeSound, BecomesSound DEF Lookup
<1>2. CASE \E d \in Addr, e \in NewRoutes : Add(d, e)
  <2>1. PICK d \in Addr, e \in NewRoutes : Add(d, e)
    BY <1>2
  <2>2. e \in Entry
    BY NewRoutesAssumption
  <2> QED
    BY <2>1, <2>2, AddSound, BecomesSound DEF Add
<1>3. CASE \E d \in Addr, e \in NewRoutes : Store(d, e)
  <2>1. PICK d \in Addr, e \in NewRoutes : Store(d, e)
    BY <1>3
  <2>2. e \in Entry
    BY NewRoutesAssumption
  <2> QED
    BY <2>1, <2>2, StoreSound, BecomesSound DEF Store
<1>4. CASE \E d \in Addr : Edit(d)
  <2>1. PICK d \in Addr : Edit(d)
    BY <1>4
  <2>2. d \in DOMAIN table /\ table[d] \in Entry
    BY <2>1 DEF Edit, IInv, TypeOK, IsTable
  <2>3. \E e \in Entry : Store(d, e)
    BY <2>1, <2>2, EntryOps DEF Edit
  <2> QED
    BY <2>3, StoreSound, BecomesSound DEF Store
<1>5. CASE \E d \in Addr, state \in RouteFlags : SetState(d, state)
  BY <1>5, SetStateSound, BecomesSound DEF SetState
<1>6. CASE \E d \in Addr : Delete(d)
  <2>1. PICK d \in Addr : Delete(d)
    BY <1>6
  <2>2. Sound(DeleteRoute(table, d), {d})
    BY PurgeSound, RestrictSound DEF DeleteRoute
  <2> QED
    BY <2>1, <2>2, BecomesSound DEF Delete
<1>7. CASE \E unreachable \in SUBSET Addr : BreakLinks(unreachable)
  BY <1>7, BreakSound, BecomesSound DEF BreakLinks
<1>8. CASE \E i \in Iface : DeleteFromInterface(i)
  <2>1. PICK i \in Iface : DeleteFromInterface(i)
    BY <1>8
  <2> DEFINE D == { d \in DOMAIN table : table[d].iface # i }
             C == { d \in DOMAIN table : table[d].iface = i }
  <2>2. Sound(Restrict(table, D), C)
    BY SameSound, RestrictSound
  <2> QED
    BY <2>1, <2>2, BecomesSound DEF DeleteFromInterface, DeleteAllRoutesFromInterface
<1>9. CASE \E n \in Addr : MarkUnidirectional(n)
  BY <1>9, MarkSound, BecomesSound DEF MarkUnidirectional
<1>10. CASE ClearTable
  <2>1. DOMAIN EmptyTable = {} /\ EmptyTable = [d \in {} |-> EmptyTable[d]]
    BY DEF EmptyTable
  <2>2. Sound(EmptyTable, Addr)
    BY <2>1 DEF Sound, IsTable
  <2> QED
    BY <1>10, <2>2, BecomesSound DEF ClearTable
<1>11. CASE Tick
  BY <1>11, TickSound
<1>12. CASE UNCHANGED vars
  BY <1>12 DEF vars, IInv, TypeOK, BrokenRouteRetained, RreqCntOnlyInSearch
<1> QED
  BY <1>1, <1>2, <1>3, <1>4, <1>5, <1>6, <1>7, <1>8, <1>9, <1>10, <1>11, <1>12
  DEF Next

LEMMA SpecIInv == Spec => []IInv
  BY InitIInv, NextIInv, PTL DEF Spec

\* Whatever operations are called in whatever order, the map holds entries of
\* the right shape under known destinations.
THEOREM TypeCorrect == Spec => []TypeOK
<1>1. IInv => TypeOK
  BY DEF IInv
<1> QED
  BY <1>1, SpecIInv, PTL

\* A broken route keeps its place, as INVALID, for the whole DeletePeriod:
\* no sequence of operations on other destinations and no purge ends it early.
THEOREM BrokenRoutesRetained == Spec => []BrokenRouteRetained
<1>1. IInv => BrokenRouteRetained
  BY DEF IInv
<1> QED
  BY <1>1, SpecIInv, PTL

\* Only entries in search carry a request count.
THEOREM CountsOnlyInSearch == Spec => []RreqCntOnlyInSearch
<1>1. IInv => RreqCntOnlyInSearch
  BY DEF IInv
<1> QED
  BY <1>1, SpecIInv, PTL

\* Two purges in one instant leave what one leaves: the second lookup of a
\* handler finds exactly the entries its first one found.
THEOREM PurgesIdempotent == Spec => []PurgeIdempotent
<1>1. ASSUME IInv PROVE PurgeIdempotent
  <2> DEFINE p == Purge(table)
             q == Purge(p)
  <2>1. IsTable(table) /\ IsTable(p)
    BY <1>1, PurgeType DEF IInv, TypeOK
  <2>2. ASSUME NEW d \in DOMAIN p
        PROVE  ~(Expired(p[d]) /\ p[d].flag # "IN_SEARCH")
    <3>1. d \in DOMAIN table /\ table[d] \in Entry
      BY <2>1, <2>2, PurgeType DEF IsTable
    <3>2. p[d] = IF Expired(table[d]) /\ table[d].flag = "VALID"
                 THEN Invalidate(table[d]) ELSE table[d]
      BY <2>2 DEF Purge
    <3>3. ~(Expired(table[d]) /\ table[d].flag = "INVALID")
      BY <2>2 DEF Purge
    <3>4. CASE Expired(table[d]) /\ table[d].flag = "VALID"
      <4>1. p[d].lifeTime = BadLinkLifetime
        BY <3>1, <3>2, <3>4, InvalidateUsable
      <4> QED
        BY <4>1, BadLinkLifetimeAssumption DEF Expired
    <3>5. CASE ~(Expired(table[d]) /\ table[d].flag = "VALID")
      BY <3>1, <3>2, <3>3, <3>5 DEF Entry, RouteFlags
    <3> QED
      BY <3>4, <3>5
  <2>3. DOMAIN q = DOMAIN p /\ \A d \in DOMAIN p : q[d] = p[d]
    BY <2>2 DEF Purge
  <2>4. p = [d \in DOMAIN p |-> p[d]] /\ q = [d \in DOMAIN q |-> q[d]]
    BY DEF Purge
  <2> QED
    BY <2>3, <2>4 DEF PurgeIdempotent
<1> QED
  BY <1>1, SpecIInv, PTL
=============================================================================
