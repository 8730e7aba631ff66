-------------------------- MODULE DuplicateFilter ---------------------------
(***************************************************************************)
(* What a duplicate filter promises, without saying how it remembers: once *)
(* an id has been reported as new it is reported as a duplicate for the    *)
(* lifetime in force at that moment, whatever else is asked meanwhile, and *)
(* afterwards it is new again.                                             *)
(***************************************************************************)
EXTENDS Integers

CONSTANTS
    UniqueId,    \* the ids that can be asked about
    Lifetimes    \* the lifetimes the owner may set

VARIABLES
    promise,     \* per id, time for which it is still a duplicate; -1 if none
    lifetime,    \* lifetime of future records
    reply        \* last answer given

None == -1

Init ==
    /\ promise = [u \in UniqueId |-> None]
    /\ lifetime \in Lifetimes
    /\ reply = "none"

Ask(u) ==
    /\ reply' = IF promise[u] >= 0 THEN "duplicate" ELSE "new"
    /\ promise' = [promise EXCEPT ![u] = IF @ >= 0 THEN @ ELSE lifetime]
    /\ UNCHANGED lifetime

SetLifetime(l) ==
    /\ lifetime' = l
    /\ UNCHANGED << promise, reply >>

Tick ==
    /\ promise' = [u \in UniqueId |-> IF promise[u] < 0 THEN None ELSE promise[u] - 1]
    /\ UNCHANGED << lifetime, reply >>

Next ==
    \/ \E u \in UniqueId : Ask(u)
    \/ \E l \in Lifetimes : SetLifetime(l)
    \/ Tick

Spec == Init /\ [][Next]_<< promise, lifetime, reply >>
=============================================================================
