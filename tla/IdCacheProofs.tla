--------------------------- MODULE IdCacheProofs ----------------------------
(***************************************************************************)
(* The duplicate cache implements DuplicateFilter, for every set of ids    *)
(* and every choice of lifetimes.                                          *)
(***************************************************************************)
EXTENDS IdCacheSpec, TLAPS

\* The invariant of the refinement: what the cache holds are ids with the time
\* left of their records.
CacheInv ==
    /\ DOMAIN cache \subseteq UniqueId
    /\ cache \in [DOMAIN cache -> Nat \cup {-1}]
    /\ lifetime \in Lifetimes

LEMMA InitCache == Init => CacheInv
  BY DEF Init, CacheInv

LEMMA NextCache == CacheInv /\ [Next]_vars => CacheInv'
<1> SUFFICES ASSUME CacheInv, [Next]_vars PROVE CacheInv'
  OBVIOUS
<1>1. CASE \E u \in UniqueId : Ask(u)
  BY <1>1, LifetimesAssumption
  DEF CacheInv, Ask, Recorded, IsDuplicate, PurgeIds, Restrict
<1>2. CASE GetSize
  BY <1>2 DEF CacheInv, GetSize, PurgeIds, Restrict
<1>3. CASE \E l \in Lifetimes : SetLifetime(l)
  BY <1>3 DEF CacheInv, SetLifetime
<1>4. CASE Tick
  BY <1>4 DEF CacheInv, Tick, AgeIds
<1>5. CASE UNCHANGED vars
  BY <1>5 DEF CacheInv, vars
<1> QED
  BY <1>1, <1>2, <1>3, <1>4, <1>5 DEF Next

\* An empty cache promises nothing.
LEMMA InitRefines == Init => Filter!Init
  BY DEF Init, Filter!Init, Filter!None, promise

\* Every step of the cache is a step of the filter, or changes nothing it
\* promises (GetSize, and the purge inside every call).
LEMMA NextRefines ==
    CacheInv /\ [Next]_vars => [Filter!Next]_<< promise, lifetime, reply >>
<1> SUFFICES ASSUME CacheInv, [Next]_vars
             PROVE  [Filter!Next]_<< promise, lifetime, reply >>
  OBVIOUS
<1>1. ASSUME NEW u \in UniqueId, Ask(u) PROVE Filter!Ask(u)
  <2>1. IsDuplicate(cache, u) <=> promise[u] >= 0
    BY <1>1 DEF IsDuplicate, PurgeIds, Restrict, promise
  <2>2. promise' = [promise EXCEPT ![u] = IF promise[u] >= 0 THEN promise[u] ELSE lifetime]
    <3>1. \A v \in UniqueId : promise'[v] = IF v = u /\ ~(promise[u] >= 0)
                                           THEN lifetime ELSE promise[v]
      <4> TAKE v \in UniqueId
      <4>1. lifetime \in Nat
        BY LifetimesAssumption DEF CacheInv
      <4>2. CASE u \in DOMAIN PurgeIds(cache)
        BY <1>1, <4>1, <4>2 DEF Ask, Recorded, PurgeIds, Restrict, promise, CacheInv
      <4>3. CASE u \notin DOMAIN PurgeIds(cache)
        BY <1>1, <4>1, <4>3 DEF Ask, Recorded, PurgeIds, Restrict, promise, CacheInv
      <4> QED
        BY <4>2, <4>3
    <3>2. promise' = [v \in UniqueId |-> promise'[v]] /\ promise = [v \in UniqueId |-> promise[v]]
      BY DEF promise
    <3> QED
      BY <3>1, <3>2
  <2> QED
    BY <1>1, <2>1, <2>2 DEF Ask, Filter!Ask
<1>2. ASSUME GetSize PROVE UNCHANGED << promise, lifetime, reply >>
  BY <1>2 DEF GetSize, PurgeIds, Restrict, promise
<1>3. ASSUME NEW l \in Lifetimes, SetLifetime(l) PROVE Filter!SetLifetime(l)
  BY <1>3 DEF SetLifetime, Filter!SetLifetime, promise
<1>4. ASSUME Tick PROVE Filter!Tick
  BY <1>4 DEF Tick, Filter!Tick, AgeIds, promise, CacheInv, Filter!None
<1>5. ASSUME UNCHANGED vars PROVE UNCHANGED << promise, lifetime, reply >>
  BY <1>5 DEF vars, promise
<1> QED
  BY <1>1, <1>2, <1>3, <1>4, <1>5 DEF Next, Filter!Next

\* A purge that is late, or early because another call made it, never lets a
\* duplicate through before its lifetime is over nor refuses an id after it.
THEOREM CacheKeepsPromise == Spec => FilterSpec
<1>1. Spec => []CacheInv
  BY InitCache, NextCache, PTL DEF Spec
<1> QED
  BY <1>1, InitRefines, NextRefines, PTL DEF Spec, FilterSpec, Filter!Spec
=============================================================================
