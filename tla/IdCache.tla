------------------------------ MODULE IdCache -------------------------------
(***************************************************************************)
(* The duplicate cache (src/model/madaodv-id-cache.{h,cc}) as operators.   *)
(* A cache is a function from the remembered ids, pairs of a context       *)
(* address and a number, to the time left until their record expires.      *)
(* DuplicatePacketDetection is the same cache keyed by source and packet   *)
(* uid.                                                                    *)
(***************************************************************************)
EXTENDS Integers, Functions

\* Mutant of PurgeIds: a record is dropped in the instant it expires.
PurgeIdsEarly(cache) == Restrict(cache, { u \in DOMAIN cache : cache[u] > 0 })

PurgeIds(cache) == Restrict(cache, { u \in DOMAIN cache : cache[u] >= 0 })

\* IsDuplicate returns this ...
IsDuplicate(cache, id) == id \in DOMAIN PurgeIds(cache)

\* ... and leaves the cache so: an unknown id is recorded, a known one keeps
\* the time it had.
Recorded(cache, id, lifetime) ==
    LET p == PurgeIds(cache)
    IN  IF id \in DOMAIN p THEN p
        ELSE [ u \in DOMAIN p \cup {id} |-> IF u = id THEN lifetime ELSE p[u] ]

\* Time passes.  The code keeps the absolute time of expiry; what an expired
\* record has left stops at -1 here, since nothing tells such records apart.
AgeIds(cache) == [ u \in DOMAIN cache |-> IF cache[u] < 0 THEN cache[u]
                                          ELSE cache[u] - 1 ]
=============================================================================
