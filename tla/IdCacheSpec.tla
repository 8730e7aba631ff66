---------------------------- MODULE IdCacheSpec -----------------------------
(***************************************************************************)
(* The duplicate cache as a state machine, and the promise it keeps.  Its  *)
(* owners are the RREQ id cache and the broadcast duplicate detector of    *)
(* the routing protocol.                                                   *)
(***************************************************************************)
EXTENDS IdCache

CONSTANTS
    UniqueId,   \* the pairs that can be asked about
    Lifetimes   \* the lifetimes the owner may set

ASSUME LifetimesAssumption == Lifetimes \subseteq Nat

VARIABLES
    cache,      \* m_idCache
    lifetime,   \* m_lifetime
    reply       \* what the last call of IsDuplicate returned

vars == << cache, lifetime, reply >>

Init ==
    /\ cache = [u \in {} |-> 0]
    /\ lifetime \in Lifetimes
    /\ reply = "none"

Ask(u) ==
    /\ reply' = IF IsDuplicate(cache, u) THEN "duplicate" ELSE "new"
    /\ cache' = Recorded(cache, u, lifetime)
    /\ UNCHANGED lifetime

GetSize ==
    /\ cache' = PurgeIds(cache)
    /\ UNCHANGED << lifetime, reply >>

SetLifetime(l) ==
    /\ lifetime' = l
    /\ UNCHANGED << cache, reply >>

Tick ==
    /\ cache' = AgeIds(cache)
    /\ UNCHANGED << lifetime, reply >>

Next ==
    \/ \E u \in UniqueId : Ask(u)
    \/ GetSize
    \/ \E l \in Lifetimes : SetLifetime(l)
    \/ Tick

Spec == Init /\ [][Next]_vars

-----------------------------------------------------------------------------
\* The refinement mapping: a record that has expired but was not purged yet
\* promises nothing any more.
promise == [ u \in UniqueId |-> IF u \in DOMAIN cache /\ cache[u] >= 0
                                THEN cache[u] ELSE -1 ]

Filter == INSTANCE DuplicateFilter WITH promise <- promise, lifetime <- lifetime, reply <- reply

\* The cache, lazy purging and all, keeps the promise of a duplicate filter.
FilterSpec == Filter!Spec
=============================================================================
