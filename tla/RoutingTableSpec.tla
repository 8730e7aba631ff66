-------------------------- MODULE RoutingTableSpec --------------------------
(***************************************************************************)
(* The routing table as a state machine: every public operation of the     *)
(* class is an action, called in any order, and time may pass between      *)
(* calls.  NewRoutes stands for the entries callers build with the         *)
(* constructor and the setters before they hand them to AddRoute or        *)
(* Update; Edit covers the callers that change a copy of the stored entry  *)
(* and write it back.                                                      *)
(***************************************************************************)
EXTENDS RoutingTable

CONSTANT NewRoutes

ASSUME NewRoutesAssumption == NewRoutes \subseteq Entry

VARIABLES
    table,      \* m_ipv4AddressEntry
    retention   \* history: time for which a broken route is still owed a place

vars == << table, retention >>

NotOwed == -1

\* The table maps destinations to well-formed entries, whose request counter
\* fits its eight bits.
TypeOK ==
    /\ IsTable(table)
    /\ retention \in [Addr -> Int]

Init ==
    /\ table = EmptyTable
    /\ retention = [d \in Addr |-> NotOwed]

-----------------------------------------------------------------------------
\* Destinations whose route was usable and is not usable in t.
Broken(t) ==
    { d \in DOMAIN table :
        table[d].flag = "VALID" /\ ~(d \in DOMAIN t /\ t[d].flag = "VALID") }

\* The table becomes t; the caller itself decided what happens to the
\* destinations in chosen, every other loss of a route is the table's doing.
Becomes(t, chosen) ==
    /\ table' = t
    /\ retention' = [ d \in Addr |-> IF d \in chosen THEN NotOwed
                                     ELSE IF d \in Broken(t) THEN BadLinkLifetime
                                     ELSE retention[d] ]

\* LookupRoute, LookupValidRoute, GetListOfDestinationWithNextHop, Purge:
\* they all change the table by purging it.
Lookup == Becomes(Purge(table), {})

Add(d, e) == Becomes(AddRoute(table, d, e), {})

Store(d, e) == Becomes(Update(table, d, e), {d})

\* A stored entry is copied, changed through its setters and written back.
Edit(d) ==
    /\ d \in DOMAIN table
    /\ \/ Store(d, [IncrementRreqCnt(table[d]) EXCEPT !.flag = "IN_SEARCH"])
       \/ \E n \in Addr : \/ Store(d, InsertPrecursor(table[d], n))
                          \/ Store(d, DeletePrecursor(table[d], n))

SetState(d, state) == Becomes(SetEntryState(table, d, state), {d})

Delete(d) == Becomes(DeleteRoute(table, d), {d})

BreakLinks(unreachable) ==
    Becomes(InvalidateRoutesWithDst(table, unreachable), {})

DeleteFromInterface(i) ==
    Becomes(DeleteAllRoutesFromInterface(table, i),
            { d \in DOMAIN table : table[d].iface = i })

MarkUnidirectional(n) == Becomes(MarkLinkAsUnidirectional(table, n), {})

ClearTable == Becomes(EmptyTable, Addr)

Tick ==
    /\ table' = Age(table)
    /\ retention' = [d \in Addr |-> Elapse(retention[d])]

Next ==
    \/ Lookup
    \/ \E d \in Addr, e \in NewRoutes : Add(d, e)
    \/ \E d \in Addr, e \in NewRoutes : Store(d, e)
    \/ \E d \in Addr : Edit(d)
    \/ \E d \in Addr, state \in RouteFlags : SetState(d, state)
    \/ \E d \in Addr : Delete(d)
    \/ \E unreachable \in SUBSET Addr : BreakLinks(unreachable)
    \/ \E i \in Iface : DeleteFromInterface(i)
    \/ \E n \in Addr : MarkUnidirectional(n)
    \/ ClearTable
    \/ Tick

Spec == Init /\ [][Next]_vars

-----------------------------------------------------------------------------
\* A route that breaks, by a timeout or a lost link, stays in the table as
\* INVALID for a whole DeletePeriod, so that its sequence number is not
\* forgotten (Purge and InvalidateRoutesWithDst together with Invalidate).
BrokenRouteRetained ==
    \A d \in Addr : retention[d] >= 0 =>
        /\ d \in DOMAIN table
        /\ table[d].flag = "INVALID"
        /\ table[d].lifeTime >= retention[d]

\* Only an entry that is being searched carries a request count, whatever
\* order of operations stored it: a finished search never leaks its count
\* into the next one (AddRoute, Update, SetEntryState, Invalidate).
RreqCntOnlyInSearch ==
    \A d \in DOMAIN table :
        table[d].reqCount > 0 => table[d].flag = "IN_SEARCH"

\* Purging twice in the same instant is purging once.  Every handler purges
\* on each of its lookups and writes back a copy it took at an earlier one:
\* no lookup may pull an entry from under the handler.
PurgeIdempotent == Purge(Purge(table)) = Purge(table)
=============================================================================
