------------------------- MODULE RequestQueueProofs -------------------------
(***************************************************************************)
(* Proofs about the request queue, for every set of packets, every limit   *)
(* and every timeout.                                                      *)
(***************************************************************************)
EXTENDS RequestQueueSpec, SelectionProofs

Outcomes == {"none", "waiting", "forwarded", "error"}

\* The times an entry may have left.
Expires == UNION { -1 .. t : t \in QueueTimeouts }

\* The entries of the queue.
QueueRecord == { QueueEntry(p, x) : p \in Packet, x \in Expires }

\* A queue q that agrees with the history (o, a): it holds the waiting packets
\* once each, in the order in which they arrived.
Agrees(q, o, a) ==
    /\ q \in Seq(QueueRecord)
    /\ o \in [Packet -> Outcomes]
    /\ a = [ i \in DOMAIN q |-> PacketOf(q[i]) ]
    /\ \A i, j \in DOMAIN q : PacketOf(q[i]) = PacketOf(q[j]) => i = j
    /\ \A p \in Packet : o[p] = "waiting" <=> \E i \in DOMAIN q : PacketOf(q[i]) = p

\* The inductive invariant.
IInv ==
    /\ Agrees(queue, outcome, arrived)
    /\ maxLen \in MaxLens
    /\ queueTimeout \in QueueTimeouts

\* The times left are integers, and a new entry is one of the queue's.
LEMMA Records ==
    /\ Expires \subseteq Int
    /\ \A e \in QueueRecord : /\ PacketOf(e) \in Packet /\ PacketOf(e).dst = e.dst
                              /\ e.expire \in Expires
                              /\ e = QueueEntry(PacketOf(e), e.expire)
    /\ \A p \in Packet, t \in QueueTimeouts :
         QueueEntry(p, t) \in QueueRecord /\ PacketOf(QueueEntry(p, t)) = p
<1>1. Expires \subseteq Int
  BY QueueTimeoutsAssumption DEF Expires
<1>2. ASSUME NEW p \in Packet, NEW x \in Expires
      PROVE  LET e == QueueEntry(p, x)
             IN  /\ PacketOf(e) = p /\ PacketOf(e).dst = e.dst /\ e.expire = x
                 /\ e = QueueEntry(PacketOf(e), e.expire)
  BY PacketAssumption DEF PacketOf, QueueEntry
<1>3. ASSUME NEW t \in QueueTimeouts PROVE t \in Expires
  BY QueueTimeoutsAssumption DEF Expires
<1> QED
  BY <1>1, <1>2, <1>3 DEF QueueRecord

\* Some entries leave, and the history has just their packets waiting no more.
LEMMA SelectAgrees ==
    ASSUME NEW q, NEW o, NEW a, Agrees(q, o, a), NEW I \in SUBSET DOMAIN q,
           NEW after \in [Packet -> Outcomes],
           \A i \in DOMAIN q : after[PacketOf(q[i])] = "waiting" <=> i \in I,
           \A p \in Packet : after[p] = "waiting" => o[p] = "waiting"
    PROVE  Agrees(At(q, I), after, At(a, { i \in DOMAIN a : after[a[i]] = "waiting" }))
<1> DEFINE r == At(q, I)
           c == Cardinality(I)
<1>1. /\ q \in Seq(QueueRecord) /\ DOMAIN a = DOMAIN q
      /\ DOMAIN q = 1 .. Len(q) /\ Len(q) \in Nat /\ I \in SUBSET (1 .. Len(q))
      /\ \A i \in DOMAIN q : a[i] = PacketOf(q[i]) /\ q[i] \in QueueRecord
  BY DEF Agrees
<1>2. { i \in DOMAIN a : after[a[i]] = "waiting" } = I
  BY <1>1
<1>3. r \in Seq(QueueRecord) /\ DOMAIN r = 1 .. c /\ c \in Nat
  BY <1>1, AtType, BeforeOrdered
<1>4. ASSUME NEW k \in 1 .. c
      PROVE  Position(I, k) \in I /\ Before(I, Position(I, k)) = k - 1
             /\ r[k] = q[Position(I, k)] /\ At(a, I)[k] = a[Position(I, k)]
  BY <1>1, PositionRight DEF At
<1>5. At(a, I) = [ k \in DOMAIN r |-> PacketOf(r[k]) ]
  <2>1. At(a, I) = [ k \in 1 .. c |-> a[Position(I, k)] ]
    BY DEF At
  <2> QED
    BY <1>1, <1>3, <1>4, <2>1
<1>6. ASSUME NEW k \in DOMAIN r, NEW l \in DOMAIN r, PacketOf(r[k]) = PacketOf(r[l])
      PROVE  k = l
  <2>1. k \in 1 .. c /\ l \in 1 .. c
    BY <1>3
  <2>2. Position(I, k) = Position(I, l)
    <3>1. /\ Position(I, k) \in DOMAIN q /\ Position(I, l) \in DOMAIN q
          /\ PacketOf(q[Position(I, k)]) = PacketOf(q[Position(I, l)])
      BY <1>4, <1>6, <2>1
    <3> QED
      BY <3>1 DEF Agrees
  <2>3. k - 1 = l - 1
    BY <1>4, <2>1, <2>2
  <2> QED
    BY <2>1, <2>3
<1>7. ASSUME NEW p \in Packet
      PROVE  after[p] = "waiting" <=> \E k \in DOMAIN r : PacketOf(r[k]) = p
  <2>1. ASSUME after[p] = "waiting" PROVE \E k \in DOMAIN r : PacketOf(r[k]) = p
    <3>1. PICK i \in DOMAIN q : PacketOf(q[i]) = p
      BY <2>1 DEF Agrees
    <3>2. i \in I
      BY <2>1, <3>1
    <3>3. q[i] \in ToSet(r)
      BY <1>1, <3>2, AtType
    <3>4. PICK k \in DOMAIN r : r[k] = q[i]
      BY <3>3 DEF ToSet
    <3> QED
      BY <3>1, <3>4
  <2>2. ASSUME NEW k \in DOMAIN r, PacketOf(r[k]) = p PROVE after[p] = "waiting"
    <3>1. k \in 1 .. c
      BY <1>3
    <3>2. Position(I, k) \in I /\ PacketOf(q[Position(I, k)]) = p
      BY <1>4, <2>2, <3>1
    <3> QED
      BY <3>2
  <2> QED
    BY <2>1, <2>2
<1> HIDE DEF r
<1>8. Agrees(r, after, At(a, I))
  BY <1>3, <1>5, <1>6, <1>7 DEF Agrees
<1> QED
  BY <1>2, <1>8 DEF r

\* The same when the entries leave in two rounds, J of those that I left.
LEMMA SelectTwiceAgrees ==
    ASSUME NEW q, NEW o, NEW a, Agrees(q, o, a),
           NEW I \in SUBSET DOMAIN q, NEW J \in SUBSET DOMAIN At(q, I),
           NEW after \in [Packet -> Outcomes],
           \A i \in DOMAIN q : after[PacketOf(q[i])] = "waiting" => i \in I,
           \A j \in DOMAIN At(q, I) : after[PacketOf(At(q, I)[j])] = "waiting" <=> j \in J,
           \A p \in Packet : after[p] = "waiting" => o[p] = "waiting"
    PROVE  Agrees(At(At(q, I), J), after,
                  At(a, { i \in DOMAIN a : after[a[i]] = "waiting" }))
<1> DEFINE r == At(q, I)
           c == Cardinality(I)
           K == { Position(I, j) : j \in J }
<1>1. /\ q \in Seq(QueueRecord) /\ Len(q) \in Nat /\ I \in SUBSET (1 .. Len(q))
  BY DEF Agrees
<1>2. DOMAIN r = 1 .. c /\ c \in Nat
  BY <1>1, AtType, BeforeOrdered
<1>3. ASSUME NEW j \in DOMAIN r PROVE Position(I, j) \in I /\ r[j] = q[Position(I, j)]
  BY <1>1, <1>2, PositionRight DEF At
<1>4. K \in SUBSET DOMAIN q
  BY <1>3
<1>5. ASSUME NEW i \in DOMAIN q PROVE after[PacketOf(q[i])] = "waiting" <=> i \in K
  <2>1. ASSUME after[PacketOf(q[i])] = "waiting" PROVE i \in K
    <3>1. i \in I
      BY <2>1
    <3>2. Before(I, i) \in 0 .. c - 1 /\ Position(I, Before(I, i) + 1) = i
      BY <1>1, <3>1, BeforeOrdered, PositionRight
    <3>3. Before(I, i) + 1 \in DOMAIN r
      BY <1>2, <3>2
    <3>4. Before(I, i) + 1 \in J
      BY <1>3, <2>1, <3>2, <3>3
    <3> QED
      BY <3>2, <3>4
  <2>2. ASSUME i \in K PROVE after[PacketOf(q[i])] = "waiting"
    <3>1. PICK j \in J : i = Position(I, j)
      BY <2>2
    <3> QED
      BY <1>3, <3>1
  <2> QED
    BY <2>1, <2>2
<1>6. At(At(q, I), J) = At(q, K)
  BY <1>1, AtAt
<1> HIDE DEF K
<1>7. Agrees(At(q, K), after, At(a, { i \in DOMAIN a : after[a[i]] = "waiting" }))
  BY <1>4, <1>5, SelectAgrees
<1> QED
  BY <1>6, <1>7

\* A packet that is not waiting is put at the end.
LEMMA AppendAgrees ==
    ASSUME NEW q, NEW o, NEW a, Agrees(q, o, a), NEW p \in Packet, ~Holds(q, p),
           NEW t \in QueueTimeouts
    PROVE  Agrees(Append(q, QueueEntry(p, t)), [o EXCEPT ![p] = "waiting"], Append(a, p))
<1> DEFINE e == QueueEntry(p, t)
           r == Append(q, e)
           n == Len(q)
<1>1. q \in Seq(QueueRecord) /\ e \in QueueRecord /\ PacketOf(e) = p /\ n \in Nat
      /\ DOMAIN q = 1 .. n
  BY Records DEF Agrees
<1> HIDE DEF e
<1>2. /\ r \in Seq(QueueRecord) /\ Len(r) = n + 1 /\ DOMAIN r = 1 .. n + 1
      /\ r[n + 1] = e /\ \A i \in 1 .. n : r[i] = q[i]
  BY <1>1
<1>3. [o EXCEPT ![p] = "waiting"] \in [Packet -> Outcomes]
  BY DEF Agrees, Outcomes
<1>4. \A i \in 1 .. n : PacketOf(q[i]) # p
  BY <1>1 DEF Holds
<1>5. Append(a, p) = [ i \in DOMAIN r |-> PacketOf(r[i]) ]
  <2>1. a = [ i \in 1 .. n |-> PacketOf(q[i]) ]
    BY <1>1 DEF Agrees
  <2>2. \A i \in 1 .. n : PacketOf(q[i]) \in Packet
    BY <1>1, Records
  <2>3. a \in Seq(Packet) /\ Len(a) = n
    BY <1>1, <2>1, <2>2
  <2>4. Append(a, p) = [ i \in 1 .. n + 1 |-> IF i = n + 1 THEN p ELSE a[i] ]
    <3>1. /\ Append(a, p) \in Seq(Packet) /\ Len(Append(a, p)) = n + 1
          /\ \A i \in 1 .. n + 1 : Append(a, p)[i] = IF i = n + 1 THEN p ELSE a[i]
      BY <1>1, <2>3
    <3> DEFINE b == Append(a, p)
    <3>2. b \in Seq(Packet) /\ Len(b) = n + 1
      BY <3>1
    <3> HIDE DEF b
    <3>3. b = [ i \in 1 .. n + 1 |-> b[i] ]
      BY <3>2
    <3>4. \A i \in 1 .. n + 1 : b[i] = IF i = n + 1 THEN p ELSE a[i]
      BY <3>1 DEF b
    <3> QED
      BY <3>3, <3>4 DEF b
  <2>5. ASSUME NEW i \in 1 .. n + 1
        PROVE  (IF i = n + 1 THEN p ELSE a[i]) = PacketOf(r[i])
    BY <1>1, <1>2, <2>1
  <2> HIDE DEF r
  <2> QED
    BY <1>2, <2>4, <2>5
<1>6. ASSUME NEW i \in DOMAIN r, NEW j \in DOMAIN r, PacketOf(r[i]) = PacketOf(r[j])
      PROVE  i = j
  <2>1. i \in 1 .. n \/ i = n + 1
    BY <1>1, <1>2
  <2>2. j \in 1 .. n \/ j = n + 1
    BY <1>1, <1>2
  <2>3. \A x, y \in 1 .. n : PacketOf(q[x]) = PacketOf(q[y]) => x = y
    BY <1>1 DEF Agrees
  <2> QED
    BY <1>1, <1>2, <1>4, <1>6, <2>1, <2>2, <2>3
<1>7. ASSUME NEW x \in Packet
      PROVE  [o EXCEPT ![p] = "waiting"][x] = "waiting"
               <=> \E i \in DOMAIN r : PacketOf(r[i]) = x
  <2>1. CASE x = p
    <3>1. n + 1 \in DOMAIN r /\ PacketOf(r[n + 1]) = p
      BY <1>1, <1>2
    <3>2. [o EXCEPT ![p] = "waiting"][p] = "waiting"
      BY DEF Agrees
    <3> QED
      BY <2>1, <3>1, <3>2
  <2>2. CASE x # p
    <3>1. [o EXCEPT ![p] = "waiting"][x] = o[x]
      BY <2>2 DEF Agrees
    <3>2. (\E i \in DOMAIN r : PacketOf(r[i]) = x) <=> \E i \in DOMAIN q : PacketOf(q[i]) = x
      <4>1. ASSUME NEW i \in DOMAIN r, PacketOf(r[i]) = x PROVE \E k \in DOMAIN q : PacketOf(q[k]) = x
        <5>1. i \in 1 .. n
          BY <1>1, <1>2, <2>2, <4>1
        <5> QED
          BY <1>1, <1>2, <4>1, <5>1
      <4>2. ASSUME NEW i \in DOMAIN q, PacketOf(q[i]) = x PROVE \E k \in DOMAIN r : PacketOf(r[k]) = x
        <5>1. i \in 1 .. n /\ i \in DOMAIN r
          BY <1>1, <1>2
        <5> QED
          BY <1>2, <4>2, <5>1
      <4> QED
        BY <4>1, <4>2
    <3> QED
      BY <3>1, <3>2 DEF Agrees
  <2> QED
    BY <2>1, <2>2
<1> HIDE DEF r
<1>8. Agrees(r, [o EXCEPT ![p] = "waiting"], Append(a, p))
  BY <1>2, <1>3, <1>5, <1>6, <1>7 DEF Agrees
<1> QED
  BY <1>8 DEF r, e

-----------------------------------------------------------------------------
(* The operations *)

\* What Purge leaves, and whom it tells.
LEMMA PurgeFacts ==
    ASSUME IInv
    PROVE  /\ PurgeQueue(queue) \in Seq(QueueRecord)
           /\ Len(PurgeQueue(queue)) <= Len(queue)
           /\ \A i \in DOMAIN queue :
                PacketOf(queue[i]) \in PurgeErrors(queue) <=> Outdated(queue[i])
           /\ \A j \in DOMAIN PurgeQueue(queue) :
                \E i \in DOMAIN queue : PurgeQueue(queue)[j] = queue[i] /\ ~Outdated(queue[i])
           /\ \A i, j \in DOMAIN PurgeQueue(queue) :
                PacketOf(PurgeQueue(queue)[i]) = PacketOf(PurgeQueue(queue)[j]) => i = j
<1> DEFINE I == { i \in DOMAIN queue : ~Outdated(queue[i]) }
           r == PurgeQueue(queue)
<1>1. queue \in Seq(QueueRecord) /\ I \in SUBSET DOMAIN queue /\ r = At(queue, I)
      /\ Len(queue) \in Nat /\ I \in SUBSET (1 .. Len(queue))
  BY DEF IInv, Agrees, PurgeQueue
<1> HIDE DEF I, r
<1>2. /\ r \in Seq(QueueRecord) /\ Len(r) = Cardinality(I) /\ Cardinality(I) <= Len(queue)
      /\ DOMAIN r = 1 .. Cardinality(I)
  BY <1>1, AtType
<1>3. ASSUME NEW j \in DOMAIN r
      PROVE  Position(I, j) \in I /\ Before(I, Position(I, j)) = j - 1 /\ r[j] = queue[Position(I, j)]
  BY <1>1, <1>2, PositionRight DEF At
<1>4. ASSUME NEW i \in DOMAIN queue
      PROVE  PacketOf(queue[i]) \in PurgeErrors(queue) <=> Outdated(queue[i])
  <2>1. ASSUME PacketOf(queue[i]) \in PurgeErrors(queue) PROVE Outdated(queue[i])
    <3>1. PICK j \in DOMAIN queue : Outdated(queue[j]) /\ PacketOf(queue[i]) = PacketOf(queue[j])
      BY <2>1 DEF PurgeErrors, ToSet
    <3> QED
      BY <3>1 DEF IInv, Agrees
  <2>2. ASSUME Outdated(queue[i]) PROVE PacketOf(queue[i]) \in PurgeErrors(queue)
    BY <2>2 DEF PurgeErrors, ToSet
  <2> QED
    BY <2>1, <2>2
<1>5. ASSUME NEW j \in DOMAIN r
      PROVE  \E i \in DOMAIN queue : r[j] = queue[i] /\ ~Outdated(queue[i])
  BY <1>3 DEF I
<1>6. ASSUME NEW i \in DOMAIN r, NEW j \in DOMAIN r, PacketOf(r[i]) = PacketOf(r[j])
      PROVE  i = j
  <2>1. Position(I, i) \in DOMAIN queue /\ Position(I, j) \in DOMAIN queue
        /\ PacketOf(queue[Position(I, i)]) = PacketOf(queue[Position(I, j)])
    BY <1>1, <1>3, <1>6
  <2>2. Position(I, i) = Position(I, j)
    BY <2>1 DEF IInv, Agrees
  <2>3. i - 1 = j - 1 /\ i \in Int /\ j \in Int
    BY <1>2, <1>3, <2>2
  <2> QED
    BY <2>3
<1> QED
  BY <1>2, <1>4, <1>5, <1>6 DEF r

\* The history once the senders of the packets in F are told.
LEMMA FailedFacts ==
    ASSUME IInv, NEW F
    PROVE  /\ Failed(F) \in [Packet -> Outcomes]
           /\ \A p \in Packet : Failed(F)[p] = "waiting" <=> p \notin F /\ outcome[p] = "waiting"
           /\ \A i \in DOMAIN queue :
                PacketOf(queue[i]) \in Packet /\ outcome[PacketOf(queue[i])] = "waiting"
<1>1. outcome \in [Packet -> Outcomes] /\ queue \in Seq(QueueRecord)
  BY DEF IInv, Agrees
<1>2. \A i \in DOMAIN queue : PacketOf(queue[i]) \in Packet
  BY <1>1, Records
<1>3. \A i \in DOMAIN queue : outcome[PacketOf(queue[i])] = "waiting"
  BY <1>2 DEF IInv, Agrees
<1> QED
  BY <1>1, <1>2, <1>3 DEF Failed, Outcomes

\* After a purge, the entries J of what it left remain.
LEMMA SecondRound ==
    ASSUME IInv, NEW J \in SUBSET DOMAIN PurgeQueue(queue),
           NEW after \in [Packet -> Outcomes],
           \A p \in Packet : after[p] = "waiting" =>
                                p \notin PurgeErrors(queue) /\ outcome[p] = "waiting",
           \A j \in DOMAIN PurgeQueue(queue) :
             after[PacketOf(PurgeQueue(queue)[j])] = "waiting" <=> j \in J
    PROVE  Agrees(At(PurgeQueue(queue), J), after, StillWaiting(after))
<1> DEFINE I == { i \in DOMAIN queue : ~Outdated(queue[i]) }
<1>1. PurgeQueue(queue) = At(queue, I) /\ I \in SUBSET DOMAIN queue
  BY DEF PurgeQueue
<1>2. \A i \in DOMAIN queue : after[PacketOf(queue[i])] = "waiting" => i \in I
  BY PurgeFacts, FailedFacts
<1> HIDE DEF I
<1>3. Agrees(queue, outcome, arrived)
  BY DEF IInv
<1> QED
  BY <1>1, <1>2, <1>3, SelectTwiceAgrees DEF StillWaiting

LEMMA PurgeAgrees ==
    ASSUME IInv, NEW after, after = Failed(PurgeErrors(queue))
    PROVE  Agrees(PurgeQueue(queue), after, StillWaiting(after))
<1> DEFINE r == PurgeQueue(queue)
<1>1. r \in Seq(QueueRecord)
  BY PurgeFacts
<1>2. after \in [Packet -> Outcomes]
      /\ \A p \in Packet : after[p] = "waiting" => p \notin PurgeErrors(queue) /\ outcome[p] = "waiting"
  BY FailedFacts
<1>3. ASSUME NEW j \in DOMAIN r PROVE after[PacketOf(r[j])] = "waiting"
  <2>1. PICK i \in DOMAIN queue : r[j] = queue[i] /\ ~Outdated(queue[i])
    BY PurgeFacts
  <2> QED
    BY <2>1, PurgeFacts, FailedFacts
<1>4. Agrees(At(r, DOMAIN r), after, StillWaiting(after))
  BY <1>2, <1>3, SecondRound
<1> QED
  BY <1>1, <1>4, AtAll

LEMMA DropAgrees ==
    ASSUME IInv, NEW d, NEW after, after = Failed(DropErrors(queue, d))
    PROVE  Agrees(DropPacketWithDst(queue, d), after, StillWaiting(after))
<1> DEFINE r == PurgeQueue(queue)
           J == { j \in DOMAIN r : r[j].dst # d }
<1>1. after \in [Packet -> Outcomes]
      /\ \A p \in Packet : after[p] = "waiting" <=> p \notin DropErrors(queue, d) /\ outcome[p] = "waiting"
  BY FailedFacts
<1>2. \A p \in Packet : after[p] = "waiting" => p \notin PurgeErrors(queue) /\ outcome[p] = "waiting"
  BY <1>1 DEF DropErrors
<1>3. ASSUME NEW j \in DOMAIN r PROVE after[PacketOf(r[j])] = "waiting" <=> j \in J
  <2>1. PICK i \in DOMAIN queue : r[j] = queue[i] /\ ~Outdated(queue[i])
    BY PurgeFacts
  <2>2. /\ PacketOf(queue[i]) \in Packet /\ outcome[PacketOf(queue[i])] = "waiting"
        /\ PacketOf(queue[i]) \notin PurgeErrors(queue)
    BY <2>1, PurgeFacts, FailedFacts
  <2>3. PacketOf(queue[i]) \in DropErrors(queue, d) <=> queue[i].dst = d
    <3>1. \A k \in DOMAIN queue : PacketOf(queue[k]).dst = queue[k].dst
      BY DEF PacketOf
    <3> QED
      BY <2>2, <3>1 DEF DropErrors, ToSet
  <2> QED
    BY <1>1, <2>1, <2>2, <2>3
<1>4. DropPacketWithDst(queue, d) = At(r, J) /\ J \in SUBSET DOMAIN r
  BY DEF DropPacketWithDst
<1> HIDE DEF J
<1> QED
  BY <1>1, <1>2, <1>3, <1>4, SecondRound

\* FirstFor finds an entry for d if there is one.
LEMMA FirstForFound ==
    ASSUME NEW X, NEW r \in Seq(X), NEW d, \E e \in ToSet(r) : e.dst = d
    PROVE  FirstFor(r, d) \in DOMAIN r /\ r[FirstFor(r, d)].dst = d
<1> DEFINE I == { i \in DOMAIN r : r[i].dst = d }
<1>1. Len(r) \in Nat /\ I \in SUBSET (1 .. Len(r)) /\ I # {}
  BY DEF ToSet
<1> HIDE DEF I
<1>2. Min(I) \in I
  BY <1>1, SmallestPosition
<1> QED
  BY <1>2 DEF I, FirstFor

LEMMA DequeueAgrees ==
    ASSUME IInv, NEW d, CanDequeue(queue, d), NEW after,
           after = [Failed(PurgeErrors(queue)) EXCEPT ![Dequeued(queue, d)] = "forwarded"]
    PROVE  Agrees(Dequeue(queue, d), after, StillWaiting(after))
<1> DEFINE r == PurgeQueue(queue)
           k == FirstFor(r, d)
           J == DOMAIN r \ {k}
           failed == Failed(PurgeErrors(queue))
<1>1. r \in Seq(QueueRecord) /\ k \in DOMAIN r
  BY PurgeFacts, FirstForFound DEF CanDequeue
<1>2. Dequeue(queue, d) = At(r, J) /\ J \in SUBSET DOMAIN r
  BY <1>1, RemoveAtIsAt DEF Dequeue
<1>3. /\ failed \in [Packet -> Outcomes]
      /\ \A p \in Packet : failed[p] = "waiting" <=> p \notin PurgeErrors(queue) /\ outcome[p] = "waiting"
  BY FailedFacts
<1>4. Dequeued(queue, d) = PacketOf(r[k]) /\ PacketOf(r[k]) \in Packet
  BY <1>1, Records DEF Dequeued
<1> HIDE DEF failed
<1>5. after \in [Packet -> Outcomes]
  BY <1>3, <1>4 DEF Outcomes, failed
<1>6. \A p \in Packet : after[p] = IF p = PacketOf(r[k]) THEN "forwarded" ELSE failed[p]
  BY <1>3, <1>4 DEF failed
<1>7. ASSUME NEW j \in DOMAIN r PROVE after[PacketOf(r[j])] = "waiting" <=> j \in J
  <2>1. PICK i \in DOMAIN queue : r[j] = queue[i] /\ ~Outdated(queue[i])
    BY PurgeFacts
  <2>2. PacketOf(r[j]) \in Packet /\ failed[PacketOf(r[j])] = "waiting"
    BY <1>3, <2>1, PurgeFacts, FailedFacts
  <2>3. PacketOf(r[j]) = PacketOf(r[k]) <=> j = k
    BY <1>1, PurgeFacts
  <2> QED
    BY <1>6, <2>2, <2>3
<1>8. \A p \in Packet : after[p] = "waiting" => p \notin PurgeErrors(queue) /\ outcome[p] = "waiting"
  BY <1>3, <1>6
<1> HIDE DEF J
<1> QED
  BY <1>2, <1>5, <1>7, <1>8, SecondRound

\* Room is made for a new packet: a full queue gives up its head.
LEMMA EvictAgrees ==
    ASSUME IInv, NEW p, ~Holds(PurgeQueue(queue), p), NEW after,
           after = Failed(EnqueueErrors(queue, p, maxLen))
    PROVE  LET r == PurgeQueue(queue)
           IN  Agrees(IF Len(r) = maxLen THEN Tail(r) ELSE r, after, StillWaiting(after))
<1> DEFINE r == PurgeQueue(queue)
           J == DOMAIN r \ {1}
<1>1. CASE Len(r) # maxLen
  <2>1. EnqueueErrors(queue, p, maxLen) = PurgeErrors(queue)
    BY <1>1 DEF EnqueueErrors
  <2> QED
    BY <1>1, <2>1, PurgeAgrees
<1>2. CASE Len(r) = maxLen
  <2>1. r \in Seq(QueueRecord) /\ r # << >> /\ 1 \in DOMAIN r /\ Head(r) = r[1]
    BY <1>2, PurgeFacts, MaxLensAssumption DEF IInv
  <2>2. Tail(r) = At(r, J) /\ J \in SUBSET DOMAIN r
    BY <2>1, TailIsAt
  <2>3. EnqueueErrors(queue, p, maxLen) = PurgeErrors(queue) \cup {PacketOf(r[1])}
    BY <1>2, <2>1 DEF EnqueueErrors
  <2>4. after \in [Packet -> Outcomes]
        /\ \A x \in Packet : after[x] = "waiting" <=>
             x \notin PurgeErrors(queue) /\ x # PacketOf(r[1]) /\ outcome[x] = "waiting"
    BY <2>3, FailedFacts
  <2>5. ASSUME NEW j \in DOMAIN r PROVE after[PacketOf(r[j])] = "waiting" <=> j \in J
    <3>1. PICK i \in DOMAIN queue : r[j] = queue[i] /\ ~Outdated(queue[i])
      BY PurgeFacts
    <3>2. /\ PacketOf(r[j]) \in Packet /\ outcome[PacketOf(r[j])] = "waiting"
          /\ PacketOf(r[j]) \notin PurgeErrors(queue)
      BY <3>1, PurgeFacts, FailedFacts
    <3>3. PacketOf(r[j]) = PacketOf(r[1]) <=> j = 1
      BY <2>1, PurgeFacts
    <3> QED
      BY <2>4, <3>2, <3>3
  <2>6. Agrees(At(r, J), after, StillWaiting(after))
    <3> HIDE DEF J
    <3> QED
      BY <2>2, <2>4, <2>5, SecondRound
  <2> QED
    BY <1>2, <2>2, <2>6
<1> QED
  BY <1>1, <1>2

LEMMA EnqueueAgrees ==
    ASSUME IInv, NEW p \in Packet, EnqueuePacket(p)
    PROVE  Agrees(queue', outcome', arrived')
<1> DEFINE r == PurgeQueue(queue)
           base == IF Len(r) = maxLen THEN Tail(r) ELSE r
           after == Failed(EnqueueErrors(queue, p, maxLen))
<1>1. CASE Holds(r, p)
  <2>1. EnqueueErrors(queue, p, maxLen) = PurgeErrors(queue)
    BY <1>1 DEF EnqueueErrors
  <2>2. queue' = r /\ outcome' = after /\ arrived' = StillWaiting(after)
    BY <1>1 DEF EnqueuePacket, Enqueue
  <2> QED
    BY <2>1, <2>2, PurgeAgrees
<1>2. CASE ~Holds(r, p)
  <2>1. /\ queue' = Append(base, QueueEntry(p, queueTimeout))
        /\ outcome' = [after EXCEPT ![p] = "waiting"]
        /\ arrived' = Append(StillWaiting(after), p)
    BY <1>2 DEF EnqueuePacket, Enqueue
  <2>2. Agrees(base, after, StillWaiting(after))
    BY <1>2, EvictAgrees
  <2>3. ~Holds(base, p)
    <3>1. CASE Len(r) = maxLen
      <4>1. r \in Seq(QueueRecord) /\ r # << >> /\ Len(r) \in Nat
        BY <3>1, PurgeFacts, MaxLensAssumption DEF IInv
      <4>2. \A i \in DOMAIN Tail(r) : i + 1 \in DOMAIN r /\ Tail(r)[i] = r[i + 1]
        BY <4>1
      <4> QED
        BY <1>2, <3>1, <4>2 DEF Holds
    <3>2. CASE Len(r) # maxLen
      BY <1>2, <3>2
    <3> QED
      BY <3>1, <3>2
  <2>4. queueTimeout \in QueueTimeouts
    BY DEF IInv
  <2> HIDE DEF base, after
  <2> QED
    BY <2>1, <2>2, <2>3, <2>4, AppendAgrees
<1> QED
  BY <1>1, <1>2

\* Time passes: the entries keep their places and their packets.
LEMMA TickAgrees ==
    ASSUME IInv
    PROVE  Agrees(AgeQueue(queue), outcome, arrived)
<1> DEFINE r == AgeQueue(queue)
<1>1. queue \in Seq(QueueRecord) /\ DOMAIN queue = 1 .. Len(queue) /\ Len(queue) \in Nat
  BY DEF IInv, Agrees
<1> DEFINE Rec == [uid : { p.uid : p \in Packet }, dst : { p.dst : p \in Packet },
                   expire : Expires]
<1>2a. \A i \in DOMAIN queue : queue[i] \in Rec
  BY <1>1 DEF QueueRecord, QueueEntry
<1>2. DOMAIN r = DOMAIN queue
  BY <1>2a DEF AgeQueue
<1>3. ASSUME NEW i \in DOMAIN queue
      PROVE  r[i] \in QueueRecord /\ PacketOf(r[i]) = PacketOf(queue[i])
  <2> DEFINE e == queue[i]
             x == IF e.expire < 0 THEN e.expire ELSE e.expire - 1
  <2>1. e \in QueueRecord
    BY <1>1
  <2>2. e = QueueEntry(PacketOf(e), e.expire) /\ PacketOf(e) \in Packet /\ e.expire \in Expires
    BY <2>1, Records
  <2>3. x \in Expires
    <3>1. PICK t \in QueueTimeouts : e.expire \in -1 .. t
      BY <2>2 DEF Expires
    <3>2. t \in Int
      BY QueueTimeoutsAssumption
    <3>3. x \in -1 .. t
      BY <3>1, <3>2
    <3> QED
      BY <3>3 DEF Expires
  <2>4. r[i] = [e EXCEPT !.expire = x] /\ e \in Rec
    BY <1>2a DEF AgeQueue
  <2> HIDE DEF e, x, r
  <2>5. e = [uid |-> PacketOf(e).uid, dst |-> PacketOf(e).dst, expire |-> e.expire]
    BY <2>2 DEF QueueEntry
  <2>6. r[i] = [uid |-> PacketOf(e).uid, dst |-> PacketOf(e).dst, expire |-> x]
    BY <2>4, <2>5
  <2>7. r[i] = QueueEntry(PacketOf(e), x)
    BY <2>6 DEF QueueEntry
  <2>8. PacketOf(r[i]) = PacketOf(e)
    BY <2>5, <2>6 DEF PacketOf
  <2> QED
    BY <2>2, <2>3, <2>7, <2>8 DEF QueueRecord, e
<1> HIDE DEF r
<1>4. r \in Seq(QueueRecord)
  <2>1. r = [ i \in 1 .. Len(queue) |-> r[i] ]
    BY <1>1, <1>2, <1>2a DEF r, AgeQueue
  <2> QED
    BY <1>1, <1>3, <2>1
<1>5. arrived = [ i \in DOMAIN r |-> PacketOf(r[i]) ]
  BY <1>2, <1>3 DEF IInv, Agrees
<1>6. /\ \A i, j \in DOMAIN r : PacketOf(r[i]) = PacketOf(r[j]) => i = j
      /\ \A p \in Packet : outcome[p] = "waiting" <=> \E i \in DOMAIN r : PacketOf(r[i]) = p
  BY <1>2, <1>3 DEF IInv, Agrees
<1>7. outcome \in [Packet -> Outcomes]
  BY DEF IInv, Agrees
<1> QED
  BY <1>4, <1>5, <1>6, <1>7 DEF Agrees, r

-----------------------------------------------------------------------------
LEMMA InitIInv == Init => IInv
<1> SUFFICES ASSUME Init PROVE IInv
  OBVIOUS
<1>1. queue = << >> /\ arrived = << >> /\ outcome = [ p \in Packet |-> "none" ]
  BY DEF Init
<1>2. queue \in Seq(QueueRecord) /\ DOMAIN queue = {}
  BY <1>1
<1>3. arrived = [ i \in DOMAIN queue |-> PacketOf(queue[i]) ]
  BY <1>1, <1>2
<1>4. outcome \in [Packet -> Outcomes] /\ \A p \in Packet : outcome[p] # "waiting"
  BY <1>1 DEF Outcomes
<1> QED
  BY <1>2, <1>3, <1>4 DEF IInv, Agrees, Init

LEMMA NextIInv == IInv /\ [Next]_vars => IInv'
<1> SUFFICES ASSUME IInv, [Next]_vars PROVE IInv'
  OBVIOUS
<1> USE DEF IInv
<1>1. ASSUME NEW p \in Packet, EnqueuePacket(p) PROVE IInv'
  BY <1>1, EnqueueAgrees DEF EnqueuePacket
<1>2. ASSUME NEW d \in Dst, DequeuePacket(d) PROVE IInv'
  <2>1. CASE CanDequeue(queue, d)
    <3>1. Agrees(queue', outcome', arrived')
      BY <1>2, <2>1, DequeueAgrees DEF DequeuePacket
    <3> QED
      BY <1>2, <3>1 DEF DequeuePacket
  <2>2. CASE ~CanDequeue(queue, d)
    <3>1. queue' = PurgeQueue(queue) /\ outcome' = Failed(PurgeErrors(queue))
          /\ arrived' = StillWaiting(outcome')
      BY <1>2, <2>2 DEF DequeuePacket, Dequeue
    <3>2. Agrees(queue', outcome', arrived')
      BY <3>1, PurgeAgrees
    <3> QED
      BY <1>2, <3>2 DEF DequeuePacket
  <2> QED
    BY <2>1, <2>2
<1>3. ASSUME NEW d \in Dst, DropDst(d) PROVE IInv'
  <2>1. Agrees(queue', outcome', arrived')
    BY <1>3, DropAgrees DEF DropDst
  <2> QED
    BY <1>3, <2>1 DEF DropDst
<1>4. CASE GetSize
  <2>1. Agrees(queue', outcome', arrived')
    BY <1>4, PurgeAgrees DEF GetSize
  <2> QED
    BY <1>4, <2>1 DEF GetSize
<1>5. ASSUME NEW len \in MaxLens, SetMaxQueueLen(len) PROVE IInv'
  BY <1>5 DEF SetMaxQueueLen
<1>6. ASSUME NEW t \in QueueTimeouts, SetQueueTimeout(t) PROVE IInv'
  BY <1>6 DEF SetQueueTimeout
<1>7. CASE Tick
  BY <1>7, TickAgrees DEF Tick
<1>8. CASE UNCHANGED vars
  BY <1>8 DEF vars
<1> QED
  BY <1>1, <1>2, <1>3, <1>4, <1>5, <1>6, <1>7, <1>8 DEF Next

LEMMA SpecIInv == Spec => []IInv
  BY InitIInv, NextIInv, PTL DEF Spec

\* Whatever is called in whatever order, the queue holds known packets, none
\* longer than a timeout it was given, and the history has the right shape.
THEOREM TypeCorrect == Spec => []TypeOK
<1>1. ASSUME IInv PROVE TypeOK
  <2>1. queue \in Seq(QueueRecord) /\ outcome \in [Packet -> Outcomes]
        /\ arrived = [ i \in DOMAIN queue |-> PacketOf(queue[i]) ]
    BY <1>1 DEF IInv, Agrees
  <2>2. ASSUME NEW i \in DOMAIN queue
        PROVE  PacketOf(queue[i]) \in Packet
               /\ \E t \in QueueTimeouts : queue[i].expire \in -1 .. t
    <3>1. queue[i] \in QueueRecord
      BY <2>1
    <3>2. PacketOf(queue[i]) \in Packet /\ queue[i].expire \in Expires
      BY <3>1, Records
    <3> QED
      BY <3>2 DEF Expires
  <2>3. arrived \in Seq(Packet)
    <3>1. DOMAIN queue = 1 .. Len(queue) /\ Len(queue) \in Nat
      BY <2>1
    <3> QED
      BY <2>1, <2>2, <3>1
  <2> QED
    BY <1>1, <2>1, <2>2, <2>3 DEF IInv, TypeOK, Outcomes
<1> QED
  BY <1>1, SpecIInv, PTL

\* A packet the queue accepted sits in it exactly once until it is forwarded or
\* its sender is told, for every limit, timeout and order of calls.
THEOREM NothingLost == Spec => []NoPacketLost
<1>1. ASSUME IInv PROVE NoPacketLost
  <2> SUFFICES ASSUME NEW p \in Packet
               PROVE  Cardinality({ i \in DOMAIN queue : PacketOf(queue[i]) = p })
                        = IF outcome[p] = "waiting" THEN 1 ELSE 0
    BY DEF NoPacketLost
  <2> DEFINE S == { i \in DOMAIN queue : PacketOf(queue[i]) = p }
  <2>1. outcome[p] = "waiting" <=> \E i \in DOMAIN queue : PacketOf(queue[i]) = p
    BY <1>1 DEF IInv, Agrees
  <2>2. CASE outcome[p] = "waiting"
    <3>1. PICK i \in DOMAIN queue : PacketOf(queue[i]) = p
      BY <2>1, <2>2
    <3>2. S = {i}
      BY <1>1, <3>1 DEF IInv, Agrees
    <3>3. Cardinality({i}) = 1
      BY FS_Singleton
    <3> QED
      BY <2>2, <3>2, <3>3
  <2>3. CASE outcome[p] # "waiting"
    <3>1. S = {}
      BY <2>1, <2>3
    <3> QED
      BY <2>3, <3>1, FS_EmptySet
  <2> QED
    BY <2>2, <2>3
<1> QED
  BY <1>1, SpecIInv, PTL

\* Packets stand in the order in which they were accepted.
THEOREM InOrder == Spec => []OldestFirst
<1>1. IInv => OldestFirst
  BY DEF IInv, Agrees, OldestFirst
<1> QED
  BY <1>1, SpecIInv, PTL

-----------------------------------------------------------------------------
\* Every call leaves at most as many packets as there were, except that Enqueue
\* adds one where the limit leaves room.
LEMMA LengthStep ==
    ASSUME IInv, QueueBounded, [Next]_vars, maxLen' = maxLen
    PROVE  QueueBounded'
<1> DEFINE r == PurgeQueue(queue)
<1>1. /\ r \in Seq(QueueRecord) /\ Len(r) \in Nat /\ Len(r) <= Len(queue)
      /\ queue \in Seq(QueueRecord) /\ Len(queue) \in Nat /\ Len(queue) <= maxLen
      /\ maxLen \in Nat \ {0}
  BY PurgeFacts, MaxLensAssumption DEF IInv, Agrees, QueueBounded
<1>2. Len(r) <= maxLen
  BY <1>1
<1>3. ASSUME NEW p \in Packet, EnqueuePacket(p) PROVE Len(queue') <= maxLen
  <2>1. CASE Holds(r, p)
    BY <1>2, <1>3, <2>1 DEF EnqueuePacket, Enqueue
  <2>2. CASE ~Holds(r, p)
    <3> DEFINE base == IF Len(r) = maxLen THEN Tail(r) ELSE r
    <3>1. QueueEntry(p, queueTimeout) \in QueueRecord
      BY Records DEF IInv
    <3>2. base \in Seq(QueueRecord) /\ Len(base) + 1 <= maxLen
      <4>1. CASE Len(r) = maxLen
        BY <1>1, <4>1
      <4>2. CASE Len(r) # maxLen
        BY <1>1, <1>2, <4>2
      <4> QED
        BY <4>1, <4>2
    <3>3. queue' = Append(base, QueueEntry(p, queueTimeout))
      BY <1>3, <2>2 DEF EnqueuePacket, Enqueue
    <3> HIDE DEF base
    <3>4. Len(queue') = Len(base) + 1
      BY <3>1, <3>2, <3>3
    <3> QED
      BY <3>2, <3>4
  <2> QED
    BY <2>1, <2>2
<1>4. ASSUME NEW d \in Dst, DequeuePacket(d) PROVE Len(queue') <= maxLen
  <2>1. CASE CanDequeue(queue, d)
    <3>1. FirstFor(r, d) \in DOMAIN r
      BY <1>1, <2>1, FirstForFound DEF CanDequeue
    <3>2. Len(RemoveAt(r, FirstFor(r, d))) = Len(r) - 1
      BY <1>1, <3>1, RemoveAtIsAt
    <3>3. queue' = RemoveAt(r, FirstFor(r, d))
      BY <1>4, <2>1 DEF DequeuePacket, Dequeue
    <3> QED
      BY <1>1, <1>2, <3>2, <3>3
  <2>2. CASE ~CanDequeue(queue, d)
    BY <1>2, <1>4, <2>2 DEF DequeuePacket, Dequeue
  <2> QED
    BY <2>1, <2>2
<1>5. ASSUME NEW d \in Dst, DropDst(d) PROVE Len(queue') <= maxLen
  <2> DEFINE J == { i \in DOMAIN r : r[i].dst # d }
  <2>1. queue' = At(r, J) /\ J \in SUBSET DOMAIN r
    BY <1>5 DEF DropDst, DropPacketWithDst
  <2> HIDE DEF J
  <2>2. Len(At(r, J)) = Cardinality(J) /\ Cardinality(J) <= Len(r)
    BY <1>1, <2>1, AtType
  <2>3. Cardinality(J) \in Nat
    <3>1. J \in SUBSET (1 .. Len(r))
      BY <1>1, <2>1
    <3> QED
      BY <1>1, <3>1, BeforeOrdered
  <2> QED
    BY <1>1, <1>2, <2>1, <2>2, <2>3
<1>6. ASSUME GetSize PROVE Len(queue') <= maxLen
  BY <1>2, <1>6 DEF GetSize
<1>7. ASSUME NEW len \in MaxLens, SetMaxQueueLen(len) PROVE Len(queue') <= maxLen
  BY <1>1, <1>7 DEF SetMaxQueueLen
<1>8. ASSUME NEW t \in QueueTimeouts, SetQueueTimeout(t) PROVE Len(queue') <= maxLen
  BY <1>1, <1>8 DEF SetQueueTimeout
<1>9. ASSUME Tick PROVE Len(queue') <= maxLen
  <2>1. queue' = AgeQueue(queue) /\ DOMAIN queue' = 1 .. Len(queue)
    BY <1>1, <1>9 DEF Tick, AgeQueue
  <2>2. queue' \in Seq(QueueRecord)
    BY <2>1, TickAgrees DEF Agrees
  <2>3. Len(queue') = Len(queue)
    BY <1>1, <2>1, <2>2
  <2> QED
    BY <1>1, <2>3
<1>10. ASSUME UNCHANGED vars PROVE Len(queue') <= maxLen
  BY <1>1, <1>10 DEF vars
<1>11. Len(queue') <= maxLen
  BY <1>3, <1>4, <1>5, <1>6, <1>7, <1>8, <1>9, <1>10 DEF Next
<1> QED
  BY <1>11 DEF QueueBounded

\* A queue within its limit stays within it until the limit is changed.
THEOREM LimitKept == Spec => [][QueueBounded /\ maxLen' = maxLen => QueueBounded']_vars
<1>1. IInv /\ [Next]_vars => [QueueBounded /\ maxLen' = maxLen => QueueBounded']_vars
  BY LengthStep
<1> QED
  BY <1>1, SpecIInv, PTL DEF Spec

\* While the limit is left alone the queue never outgrows it.
THEOREM Bounded ==
    ASSUME NEW m, MaxLens = {m}
    PROVE  Spec => []QueueBounded
<1>1. Init => QueueBounded
  <2> SUFFICES ASSUME Init PROVE QueueBounded
    OBVIOUS
  <2>1. Len(queue) = 0 /\ maxLen \in Nat
    BY MaxLensAssumption DEF Init
  <2> QED
    BY <2>1 DEF QueueBounded
<1>2. IInv /\ IInv' /\ QueueBounded /\ [Next]_vars => QueueBounded'
  <2> SUFFICES ASSUME IInv, IInv', QueueBounded, [Next]_vars PROVE QueueBounded'
    OBVIOUS
  <2>1. maxLen' = maxLen
    BY DEF IInv
  <2> QED
    BY <2>1, LengthStep
<1> QED
  BY <1>1, <1>2, SpecIInv, PTL DEF Spec
=============================================================================
