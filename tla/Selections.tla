----------------------------- MODULE Selections -----------------------------
(***************************************************************************)
(* The entries of a list at some of its positions, in the order of the     *)
(* list: what std::remove_if and a loop of erase leave of a vector.        *)
(***************************************************************************)
EXTENDS Integers, FiniteSets

\* How many of the positions I come before i.
Before(I, i) == Cardinality({ j \in I : j < i })

\* The k-th of the positions I.
Position(I, k) == CHOOSE i \in I : Before(I, i) = k - 1

\* The entries of q at the positions I.
At(q, I) == [ k \in 1 .. Cardinality(I) |-> q[Position(I, k)] ]
=============================================================================
