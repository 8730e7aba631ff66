-------------------------- MODULE SelectionProofs ---------------------------
(***************************************************************************)
(* What At selects from a list: the lemmas that the proofs about the       *)
(* request queue, the network and the interfaces rest on.                  *)
(***************************************************************************)
EXTENDS Selections, SequencesExt, FiniteSetTheorems, TLAPS

\* Counting the positions before one of them orders them.
LEMMA BeforeOrdered ==
    ASSUME NEW n \in Nat, NEW I \in SUBSET (1 .. n)
    PROVE  /\ IsFiniteSet(I) /\ Cardinality(I) \in Nat
           /\ \A i \in I : Before(I, i) \in 0 .. Cardinality(I) - 1
           /\ \A i, j \in I : i < j => Before(I, i) < Before(I, j)
<1>1. IsFiniteSet(1 .. n)
  BY FS_Interval
<1>2a. IsFiniteSet(I)
  BY <1>1, FS_Subset
<1>2b. Cardinality(I) \in Nat
  BY <1>2a, FS_CardinalityType
<1>2c. I \subseteq Int
  OBVIOUS
<1>2. IsFiniteSet(I) /\ Cardinality(I) \in Nat /\ \A i \in I : i \in Int
  BY <1>2a, <1>2b, <1>2c
<1>3. ASSUME NEW S \in SUBSET I, NEW T \in SUBSET S, S # T
      PROVE  Cardinality(T) \in Nat /\ Cardinality(S) \in Nat /\ Cardinality(T) < Cardinality(S)
  <2>1. IsFiniteSet(S) /\ IsFiniteSet(T)
    BY <1>2, FS_Subset
  <2>2. Cardinality(T) <= Cardinality(S) /\ Cardinality(S) # Cardinality(T)
    BY <1>3, <2>1, FS_Subset
  <2> QED
    BY <2>1, <2>2, FS_CardinalityType
<1>4. ASSUME NEW i \in I
      PROVE  Before(I, i) \in 0 .. Cardinality(I) - 1
  <2>1. { k \in I : k < i } \in SUBSET I /\ I \in SUBSET I /\ I # { k \in I : k < i }
    BY <1>2
  <2> HIDE DEF Before
  <2>2. Before(I, i) \in Nat /\ Before(I, i) < Cardinality(I)
    BY <1>3, <2>1 DEF Before
  <2> QED
    BY <1>2, <2>2
<1>5. ASSUME NEW i \in I, NEW j \in I, i < j
      PROVE  Before(I, i) < Before(I, j)
  <2>1. { k \in I : k < i } \in SUBSET { k \in I : k < j }
    <3> SUFFICES ASSUME NEW k \in I, k < i PROVE k < j
      OBVIOUS
    <3>1. k \in Int /\ i \in Int /\ j \in Int
      BY <1>2
    <3> QED
      BY <1>5, <3>1
  <2>2. { k \in I : k < j } # { k \in I : k < i }
    <3>1. i \in { k \in I : k < j } /\ i \notin { k \in I : k < i }
      BY <1>2, <1>5
    <3> QED
      BY <3>1
  <2>3. { k \in I : k < j } \in SUBSET I
    OBVIOUS
  <2> QED
    BY <1>3, <2>1, <2>2, <2>3 DEF Before
<1> QED
  BY <1>2, <1>4, <1>5

\* Every number below Cardinality(I) counts the positions before exactly one
\* of them, and Position finds it.
LEMMA PositionRight ==
    ASSUME NEW n \in Nat, NEW I \in SUBSET (1 .. n)
    PROVE  /\ \A k \in 1 .. Cardinality(I) :
                Position(I, k) \in I /\ Before(I, Position(I, k)) = k - 1
           /\ \A i \in I : Position(I, Before(I, i) + 1) = i
<1> DEFINE c == Cardinality(I)
           T == 0 .. c - 1
           f == [ i \in I |-> Before(I, i) ]
<1>1a. c \in Nat /\ IsFiniteSet(I)
  BY BeforeOrdered
<1>1. c \in Nat /\ IsFiniteSet(I) /\ \A i \in I : i \in Int
  BY <1>1a
<1>2. \A i \in I : Before(I, i) \in T
  BY BeforeOrdered
<1>3. \A i, j \in I : Before(I, i) = Before(I, j) => i = j
  <2> SUFFICES ASSUME NEW i \in I, NEW j \in I, i # j PROVE Before(I, i) # Before(I, j)
    OBVIOUS
  <2>1. Before(I, i) \in Int /\ Before(I, j) \in Int /\ i \in Int /\ j \in Int
    BY <1>1, <1>2
  <2>2. (i < j => Before(I, i) < Before(I, j)) /\ (j < i => Before(I, j) < Before(I, i))
    BY BeforeOrdered
  <2> QED
    BY <2>1, <2>2
<1>4. f \in Injection(I, T)
  <2> HIDE DEF T
  <2>1. f \in [I -> T]
    BY <1>2
  <2>2. IsInjective(f)
    BY <1>3 DEF IsInjective
  <2> QED
    BY <2>1, <2>2 DEF Injection
<1>5. IsFiniteSet(T) /\ Cardinality(T) = c
  <2>1. 0 \in Int /\ c - 1 \in Int
    BY <1>1
  <2> HIDE DEF c
  <2>2. IsFiniteSet(T) /\ Cardinality(T) = IF 0 > c - 1 THEN 0 ELSE c - 1 - 0 + 1
    BY <2>1, FS_Interval
  <2> QED
    BY <1>1, <2>2
<1>6. f \in Surjection(I, T)
  BY <1>4, <1>5, FS_Injection
<1>7. \A k \in T : \E i \in I : Before(I, i) = k
  BY <1>6 DEF Surjection
<1>8. ASSUME NEW k \in 1 .. c
      PROVE  Position(I, k) \in I /\ Before(I, Position(I, k)) = k - 1
  <2>1. \E i \in I : Before(I, i) = k - 1
    BY <1>1, <1>7
  <2> QED
    BY <2>1 DEF Position
<1>9. ASSUME NEW i \in I
      PROVE  Position(I, Before(I, i) + 1) = i
  <2>1. Before(I, i) \in 0 .. c - 1 /\ Before(I, i) + 1 \in 1 .. c
    BY <1>1, <1>2
  <2>2. Position(I, Before(I, i) + 1) \in I
        /\ Before(I, Position(I, Before(I, i) + 1)) = Before(I, i) + 1 - 1
    BY <1>8, <2>1
  <2>3. Before(I, i) + 1 - 1 = Before(I, i)
    BY <2>1
  <2> QED
    BY <1>3, <2>2, <2>3
<1> QED
  BY <1>8, <1>9

\* The order of the positions is kept.
LEMMA PositionOrdered ==
    ASSUME NEW n \in Nat, NEW I \in SUBSET (1 .. n),
           NEW k \in 1 .. Cardinality(I), NEW l \in 1 .. Cardinality(I), k < l
    PROVE  Position(I, k) < Position(I, l)
<1> DEFINE i == Position(I, k)
           j == Position(I, l)
<1>1a. Cardinality(I) \in Nat
  BY BeforeOrdered
<1>1. Cardinality(I) \in Nat /\ \A x \in I : x \in Int
  BY <1>1a
<1>2. i \in I /\ j \in I /\ Before(I, i) = k - 1 /\ Before(I, j) = l - 1
  BY PositionRight
<1>3. j < i => Before(I, j) < Before(I, i)
  BY <1>2, BeforeOrdered
<1>4. i # j
  BY <1>1, <1>2
<1> HIDE DEF i, j
<1>5. ~(j < i) /\ i \in Int /\ j \in Int
  BY <1>1, <1>2, <1>3
<1>6. i < j
  BY <1>4, <1>5
<1> QED
  BY <1>6 DEF i, j

\* The first of the positions is the smallest.
LEMMA SmallestPosition ==
    ASSUME NEW n \in Nat, NEW I \in SUBSET (1 .. n), I # {}
    PROVE  Min(I) \in I /\ \A j \in I : Min(I) <= j
<1>1. PICK i \in I : TRUE
  OBVIOUS
<1>2. Before(I, i) \in 0 .. Cardinality(I) - 1 /\ Cardinality(I) \in Nat
  BY BeforeOrdered
<1>3. 1 \in 1 .. Cardinality(I)
  BY <1>2
<1>4. Position(I, 1) \in I /\ Before(I, Position(I, 1)) = 1 - 1
  BY <1>3, PositionRight
<1>5. PICK f \in I : Before(I, f) = 0
  <2>1. Before(I, Position(I, 1)) = 0
    BY <1>4
  <2> QED
    BY <1>4, <2>1, Zenon
<1>6. ASSUME NEW j \in I PROVE f <= j
  <2>1. Before(I, j) \in 0 .. Cardinality(I) - 1
    BY BeforeOrdered
  <2>2. j < f => Before(I, j) < Before(I, f)
    BY BeforeOrdered
  <2>3. f \in Int /\ j \in Int
    OBVIOUS
  <2> QED
    BY <1>2, <1>5, <2>1, <2>2, <2>3
<1> QED
  BY <1>5, <1>6 DEF Min

\* The selection is a list of Cardinality(I) entries of q, which are those at
\* the positions I.
LEMMA AtType ==
    ASSUME NEW X, NEW q \in Seq(X), NEW I \in SUBSET DOMAIN q
    PROVE  /\ At(q, I) \in Seq(X)
           /\ Len(At(q, I)) = Cardinality(I) /\ DOMAIN At(q, I) = 1 .. Cardinality(I)
           /\ Cardinality(I) <= Len(q)
           /\ ToSet(At(q, I)) = { q[i] : i \in I }
<1>1. Len(q) \in Nat /\ I \in SUBSET (1 .. Len(q)) /\ DOMAIN q = 1 .. Len(q)
  OBVIOUS
<1>2. Cardinality(I) \in Nat
  BY <1>1, BeforeOrdered
<1>3. ASSUME NEW k \in 1 .. Cardinality(I)
      PROVE  Position(I, k) \in I /\ q[Position(I, k)] \in X
  <2>1. Position(I, k) \in I
    BY <1>1, PositionRight
  <2> QED
    BY <2>1
<1>4. At(q, I) \in Seq(X) /\ Len(At(q, I)) = Cardinality(I)
      /\ DOMAIN At(q, I) = 1 .. Cardinality(I)
  BY <1>2, <1>3 DEF At
<1>5. Cardinality(I) <= Len(q)
  <2> DEFINE l == Len(q)
  <2>0. l \in Nat /\ 1 \in Int /\ l \in Int
    BY <1>1
  <2> HIDE DEF l
  <2>1a. IsFiniteSet(1 .. l) /\ Cardinality(1 .. l) = IF 1 > l THEN 0 ELSE l - 1 + 1
    BY <2>0, FS_Interval
  <2>1b. IsFiniteSet(1 .. l) /\ Cardinality(1 .. l) = l
    BY <2>0, <2>1a
  <2>1. IsFiniteSet(1 .. Len(q)) /\ Cardinality(1 .. Len(q)) = Len(q)
    BY <2>1b DEF l
  <2> QED
    BY <1>1, <2>1, FS_Subset
<1>6. ToSet(At(q, I)) \subseteq { q[i] : i \in I }
  BY <1>3, <1>4 DEF At, ToSet
<1>7. ASSUME NEW i \in I PROVE q[i] \in ToSet(At(q, I))
  <2> DEFINE k == Before(I, i) + 1
  <2>a. Before(I, i) \in 0 .. Cardinality(I) - 1
    BY <1>1, BeforeOrdered
  <2>b. Position(I, k) = i
    BY <1>1, PositionRight
  <2>1. k \in 1 .. Cardinality(I) /\ Position(I, k) = i
    BY <1>2, <2>a, <2>b
  <2> HIDE DEF k
  <2>2. At(q, I)[k] = q[i]
    BY <2>1 DEF At
  <2> QED
    BY <1>4, <2>1, <2>2 DEF ToSet
<1> QED
  BY <1>4, <1>5, <1>6, <1>7

\* The positions I are listed by the one increasing function onto them, and
\* that is Position.
LEMMA PositionUnique ==
    ASSUME NEW n \in Nat, NEW I \in SUBSET (1 .. n), NEW m \in Nat, NEW g \in [1 .. m -> I],
           \A j, k \in 1 .. m : j < k => g[j] < g[k],
           \A i \in I : \E k \in 1 .. m : g[k] = i
    PROVE  m = Cardinality(I) /\ \A k \in 1 .. m : g[k] = Position(I, k)
<1>1. \A i \in I : i \in Int
  OBVIOUS
<1>2. \A j, k \in 1 .. m : g[j] \in Int /\ g[k] \in Int /\ (g[j] < g[k] <=> j < k)
  <2> SUFFICES ASSUME NEW j \in 1 .. m, NEW k \in 1 .. m
               PROVE  g[j] \in Int /\ g[k] \in Int /\ (g[j] < g[k] <=> j < k)
    OBVIOUS
  <2>0. g[j] \in I /\ g[k] \in I /\ j \in Int /\ k \in Int
    OBVIOUS
  <2>1. g[j] \in Int /\ g[k] \in Int /\ j \in Int /\ k \in Int
    BY <1>1, <2>0
  <2>2. (j < k => g[j] < g[k]) /\ (k < j => g[k] < g[j]) /\ (j = k => g[j] = g[k])
    OBVIOUS
  <2> QED
    BY <2>1, <2>2
\* The first l of the numbers are as many as the positions g takes them to.
<1>3. ASSUME NEW l \in 0 .. m
      PROVE  Cardinality({ g[j] : j \in 1 .. l }) = l
  <2> DEFINE S == 1 .. l
             T == { g[j] : j \in S }
             h == [ j \in S |-> g[j] ]
  <2>1. l \in Int /\ l \in Nat /\ 1 \in Int /\ S \subseteq 1 .. m
    OBVIOUS
  <2>2. IsFiniteSet(S) /\ Cardinality(S) = l
    <3>1. IsFiniteSet(S) /\ Cardinality(S) = IF 1 > l THEN 0 ELSE l - 1 + 1
      BY <2>1, FS_Interval
    <3> QED
      BY <2>1, <3>1
  <2>3. \A j, k \in S : g[j] = g[k] => j = k
    BY <1>2, <2>1
  <2> HIDE DEF S
  <2>4. h \in Bijection(S, T)
    <3>1. h \in [S -> T]
      OBVIOUS
    <3>2. IsInjective(h)
      BY <2>3 DEF IsInjective
    <3>3. h \in Surjection(S, T)
      BY <3>1 DEF Surjection
    <3> QED
      BY <3>1, <3>2, <3>3 DEF Bijection, Injection
  <2>5. Cardinality(S) = Cardinality(T)
    <3>1. ExistsBijection(S, T)
      BY <2>4 DEF ExistsBijection
    <3> QED
      BY <2>2, <3>1, FS_Bijection
  <2> QED
    BY <2>2, <2>5 DEF S
<1>4. m = Cardinality(I)
  <2>1. I = { g[j] : j \in 1 .. m }
    OBVIOUS
  <2>2. m \in 0 .. m
    OBVIOUS
  <2> QED
    BY <1>3, <2>1, <2>2
<1>5. ASSUME NEW k \in 1 .. m
      PROVE  g[k] = Position(I, k)
  <2>1. k - 1 \in 0 .. m
    OBVIOUS
  <2>2. { i \in I : i < g[k] } = { g[j] : j \in 1 .. k - 1 }
    <3>1. ASSUME NEW i \in I, i < g[k] PROVE \E j \in 1 .. k - 1 : g[j] = i
      <4>1. PICK j \in 1 .. m : g[j] = i
        OBVIOUS
      <4>2. j < k
        BY <1>2, <3>1, <4>1
      <4>3. j \in 1 .. k - 1
        BY <4>2
      <4> QED
        BY <4>1, <4>3
    <3>2. ASSUME NEW j \in 1 .. k - 1 PROVE g[j] \in I /\ g[j] < g[k]
      <4>1. j \in 1 .. m /\ j < k
        OBVIOUS
      <4> QED
        BY <1>2, <4>1
    <3> QED
      BY <3>1, <3>2
  <2>3. Before(I, g[k]) = k - 1
    BY <1>3, <2>1, <2>2 DEF Before
  <2>4. g[k] \in I /\ Position(I, Before(I, g[k]) + 1) = g[k]
    BY PositionRight
  <2>5. Before(I, g[k]) + 1 = k
    BY <2>3
  <2> QED
    BY <2>4, <2>5
<1> QED
  BY <1>4, <1>5

\* Selecting twice is selecting once.
LEMMA AtAt ==
    ASSUME NEW X, NEW q \in Seq(X), NEW I \in SUBSET DOMAIN q,
           NEW J \in SUBSET DOMAIN At(q, I)
    PROVE  At(At(q, I), J) = At(q, { Position(I, j) : j \in J })
<1> DEFINE K == { Position(I, j) : j \in J }
           c == Cardinality(I)
           m == Cardinality(J)
           g == [ k \in 1 .. m |-> Position(I, Position(J, k)) ]
<1>1. Len(q) \in Nat /\ I \in SUBSET (1 .. Len(q)) /\ DOMAIN q = 1 .. Len(q)
  OBVIOUS
<1>2. c \in Nat /\ DOMAIN At(q, I) = 1 .. c /\ J \in SUBSET (1 .. c)
  BY <1>1, AtType, BeforeOrdered
<1>3. m \in Nat
  BY <1>2, BeforeOrdered
<1>4. ASSUME NEW j \in J PROVE Position(I, j) \in I /\ j \in 1 .. c
  BY <1>1, <1>2, PositionRight
<1>5. ASSUME NEW k \in 1 .. m PROVE Position(J, k) \in J
  BY <1>2, PositionRight
<1>6. K \in SUBSET (1 .. Len(q))
  BY <1>1, <1>4
<1>7. g \in [1 .. m -> K]
  BY <1>5
<1>8. ASSUME NEW j \in 1 .. m, NEW k \in 1 .. m, j < k PROVE g[j] < g[k]
  <2>1. Position(J, j) < Position(J, k)
    BY <1>2, <1>8, PositionOrdered
  <2>2. Position(J, j) \in 1 .. c /\ Position(J, k) \in 1 .. c
    BY <1>4, <1>5
  <2>3. Position(I, Position(J, j)) < Position(I, Position(J, k))
    BY <1>1, <2>1, <2>2, PositionOrdered
  <2> QED
    BY <2>3
<1>9. ASSUME NEW i \in K PROVE \E k \in 1 .. m : g[k] = i
  <2>1. PICK j \in J : i = Position(I, j)
    OBVIOUS
  <2>2. Before(J, j) \in 0 .. m - 1 /\ Position(J, Before(J, j) + 1) = j
    BY <1>2, BeforeOrdered, PositionRight
  <2>3. Before(J, j) + 1 \in 1 .. m
    BY <1>3, <2>2
  <2>4. g[Before(J, j) + 1] = i
    BY <2>1, <2>2, <2>3
  <2> QED
    BY <2>3, <2>4
<1> HIDE DEF K, g
<1>10. m = Cardinality(K) /\ \A k \in 1 .. m : g[k] = Position(K, k)
  BY <1>1, <1>3, <1>6, <1>7, <1>8, <1>9, PositionUnique
<1>11. At(At(q, I), J) = [ k \in 1 .. m |-> q[Position(I, Position(J, k))] ]
  <2>1. ASSUME NEW k \in 1 .. m PROVE At(q, I)[Position(J, k)] = q[Position(I, Position(J, k))]
    <3>1. Position(J, k) \in 1 .. Cardinality(I)
      BY <1>4, <1>5
    <3> QED
      BY <3>1 DEF At
  <2>2. At(At(q, I), J) = [ k \in 1 .. m |-> At(q, I)[Position(J, k)] ]
    BY DEF At
  <2> QED
    BY <2>1, <2>2
<1>12. At(At(q, I), J) = [ k \in 1 .. m |-> q[g[k]] ]
  BY <1>11 DEF g
<1>13. At(q, K) = [ k \in 1 .. m |-> q[g[k]] ]
  BY <1>10 DEF At
<1> QED
  BY <1>12, <1>13 DEF K

\* Selecting everything, or all but one entry.
LEMMA AtAll ==
    ASSUME NEW X, NEW q \in Seq(X)
    PROVE  At(q, DOMAIN q) = q
<1> DEFINE n == Len(q)
           g == [ k \in 1 .. n |-> k ]
<1>1. n \in Nat /\ DOMAIN q = 1 .. n
  OBVIOUS
<1> HIDE DEF n
<1>2. n = Cardinality(1 .. n) /\ \A k \in 1 .. n : g[k] = Position(1 .. n, k)
  <2>1. /\ g \in [1 .. n -> 1 .. n]
        /\ \A j, k \in 1 .. n : j < k => g[j] < g[k]
        /\ \A i \in 1 .. n : \E k \in 1 .. n : g[k] = i
    OBVIOUS
  <2> HIDE DEF g
  <2> QED
    BY <1>1, <2>1, PositionUnique
<1>3. \A k \in 1 .. n : Position(1 .. n, k) = k
  BY <1>2
<1>4. At(q, 1 .. n) = [ k \in 1 .. n |-> q[k] ]
  BY <1>2, <1>3 DEF At
<1>5. q = [ k \in 1 .. n |-> q[k] ]
  BY <1>1 DEF n
<1> QED
  BY <1>1, <1>4, <1>5

LEMMA RemoveAtIsAt ==
    ASSUME NEW X, NEW q \in Seq(X), NEW i \in DOMAIN q
    PROVE  /\ RemoveAt(q, i) = At(q, DOMAIN q \ {i})
           /\ RemoveAt(q, i) \in Seq(X) /\ Len(RemoveAt(q, i)) = Len(q) - 1
<1> DEFINE n == Len(q)
           I == DOMAIN q \ {i}
           m == n - 1
           g == [ k \in 1 .. m |-> IF k < i THEN k ELSE k + 1 ]
<1>1. n \in Nat /\ DOMAIN q = 1 .. n /\ i \in 1 .. n /\ m \in Nat /\ I = (1 .. n) \ {i}
  OBVIOUS
<1>2. RemoveAt(q, i) \in Seq(X) /\ Len(RemoveAt(q, i)) = m
      /\ \A k \in 1 .. m : RemoveAt(q, i)[k] = q[IF k < i THEN k ELSE k + 1]
  <2> DEFINE a == SubSeq(q, 1, i - 1)
             b == SubSeq(q, i + 1, Len(q))
  <2>1. a \in Seq(X) /\ Len(a) = i - 1 /\ \A k \in 1 .. i - 1 : a[k] = q[k]
    BY <1>1
  <2>2. b \in Seq(X) /\ Len(b) = Len(q) - i
        /\ \A k \in 1 .. Len(q) - i : b[k] = q[i + k]
    BY <1>1
  <2> HIDE DEF a, b
  <2>3. a \o b \in Seq(X) /\ Len(a \o b) = m
    <3>0. a \in Seq(X) /\ b \in Seq(X)
      BY <2>1, <2>2
    <3>1. a \o b \in Seq(X) /\ Len(a \o b) = Len(a) + Len(b)
      BY <3>0
    <3>2. (i - 1) + (Len(q) - i) = m
      BY <1>1
    <3> QED
      BY <2>1, <2>2, <3>1, <3>2
  <2>4. ASSUME NEW k \in 1 .. m PROVE (a \o b)[k] = q[IF k < i THEN k ELSE k + 1]
    <3>1. CASE k < i
      BY <1>1, <2>1, <2>2, <3>1
    <3>2. CASE ~(k < i)
      <4>1. (a \o b)[k] = b[k - (i - 1)]
        BY <1>1, <2>1, <2>2, <3>2
      <4>2. k - (i - 1) \in 1 .. Len(q) - i /\ i + (k - (i - 1)) = k + 1
        BY <1>1, <3>2
      <4> QED
        BY <2>2, <3>2, <4>1, <4>2
    <3> QED
      BY <3>1, <3>2
  <2> QED
    BY <2>3, <2>4 DEF RemoveAt, a, b
<1>3. RemoveAt(q, i) = [ k \in 1 .. m |-> q[IF k < i THEN k ELSE k + 1] ]
  BY <1>1, <1>2
<1> HIDE DEF n, I
<1>4. g \in [1 .. m -> I] /\ I \in SUBSET (1 .. n)
  BY <1>1
<1>5. \A j, k \in 1 .. m : j < k => g[j] < g[k]
  BY <1>1
<1>6. ASSUME NEW x \in I PROVE \E k \in 1 .. m : g[k] = x
  <2>1. x \in 1 .. n /\ x # i
    BY <1>1
  <2>2. CASE x < i
    <3>1. x \in 1 .. m /\ g[x] = x
      BY <1>1, <2>1, <2>2
    <3> QED
      BY <3>1
  <2>3. CASE x > i
    <3>1. x - 1 \in 1 .. m /\ g[x - 1] = x
      BY <1>1, <2>1, <2>3
    <3> QED
      BY <3>1
  <2> QED
    BY <1>1, <2>1, <2>2, <2>3
<1>7. m = Cardinality(I) /\ \A k \in 1 .. m : g[k] = Position(I, k)
  <2> HIDE DEF m, g
  <2> QED
    <3>1. n \in Nat /\ I \in SUBSET (1 .. n) /\ m \in Nat /\ g \in [1 .. m -> I]
      BY <1>1, <1>4
    <3>2. \A x \in I : \E k \in 1 .. m : g[k] = x
      BY <1>6
    <3> QED
      BY <1>5, <3>1, <3>2, PositionUnique
<1>8. At(q, I) = [ k \in 1 .. m |-> q[g[k]] ]
  <2> HIDE DEF m, g
  <2> QED
    BY <1>7 DEF At
<1>9. [ k \in 1 .. m |-> q[g[k]] ] = [ k \in 1 .. m |-> q[IF k < i THEN k ELSE k + 1] ]
  OBVIOUS
<1>10. At(q, I) = RemoveAt(q, i)
  BY <1>3, <1>8, <1>9
<1> QED
  BY <1>2, <1>10 DEF I, n

LEMMA TailIsAt ==
    ASSUME NEW X, NEW q \in Seq(X), q # << >>
    PROVE  Tail(q) = At(q, DOMAIN q \ {1})
<1>1. 1 \in DOMAIN q
  OBVIOUS
<1>2. Tail(q) = RemoveAt(q, 1)
  BY <1>1 DEF RemoveAt
<1> QED
  BY <1>1, <1>2, RemoveAtIsAt
=============================================================================
