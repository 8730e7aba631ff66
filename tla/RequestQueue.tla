---------------------------- MODULE RequestQueue ----------------------------
(***************************************************************************)
(* The queue of packets waiting for a route                                *)
(* (src/model/madaodv-rqueue.{h,cc}) as operators on a sequence of         *)
(* entries.  A packet is its uid and destination; expire is the time left, *)
(* what GetExpireTime() returns, and stops at -1.  Every operation has a   *)
(* companion giving the packets whose error callback it calls.             *)
(***************************************************************************)
EXTENDS Selections, SequencesExt

PacketOf(e) == [uid |-> e.uid, dst |-> e.dst]

Outdated(e) == e.expire < 0

PurgeQueue(q) == At(q, { i \in DOMAIN q : ~Outdated(q[i]) })
PurgeErrors(q) == { PacketOf(e) : e \in { x \in ToSet(q) : Outdated(x) } }

Holds(q, p) == \E i \in DOMAIN q : PacketOf(q[i]) = p

\* Mutant of QueueEntry: the packet waits one time unit too long.
QueueEntryLate(p, timeout) ==
    [uid |-> p.uid, dst |-> p.dst, expire |-> timeout + 1]

QueueEntry(p, timeout) == [uid |-> p.uid, dst |-> p.dst, expire |-> timeout]

\* Mutant of Enqueue: the new packet is put in front.
EnqueueFront(q, p, maxLen, timeout) ==
    LET r == PurgeQueue(q)
    IN  IF Holds(r, p) THEN r
        ELSE << QueueEntry(p, timeout) >> \o (IF Len(r) = maxLen THEN Tail(r) ELSE r)

\* Mutant of Enqueue: the limit is tested after the packet has been added.
EnqueueLateTest(q, p, maxLen, timeout) ==
    LET r == PurgeQueue(q)
    IN  IF Holds(r, p) THEN r
        ELSE Append(IF Len(r) > maxLen THEN Tail(r) ELSE r, QueueEntry(p, timeout))

\* Mutant of Enqueue: the same packet may wait twice.
EnqueueTwice(q, p, maxLen, timeout) ==
    LET r == PurgeQueue(q)
    IN  Append(IF Len(r) = maxLen THEN Tail(r) ELSE r, QueueEntry(p, timeout))

\* A known packet is refused; a full queue gives up its oldest packet.
Enqueue(q, p, maxLen, timeout) ==
    LET r == PurgeQueue(q)
    IN  IF Holds(r, p) THEN r
        ELSE Append(IF Len(r) = maxLen THEN Tail(r) ELSE r, QueueEntry(p, timeout))

EnqueueErrors(q, p, maxLen) ==
    LET r == PurgeQueue(q)
    IN  PurgeErrors(q) \cup
        (IF ~Holds(r, p) /\ Len(r) = maxLen THEN {PacketOf(Head(r))} ELSE {})

DropPacketWithDst(q, d) ==
    LET r == PurgeQueue(q) IN At(r, { i \in DOMAIN r : r[i].dst # d })
DropErrors(q, d) ==
    PurgeErrors(q) \cup { PacketOf(e) : e \in { x \in ToSet(q) : x.dst = d } }

\* The first packet for d leaves the queue, after a purge.
FirstFor(q, d) == Min({ i \in DOMAIN q : q[i].dst = d })
CanDequeue(q, d) == \E e \in ToSet(PurgeQueue(q)) : e.dst = d
Dequeued(q, d) == LET r == PurgeQueue(q) IN PacketOf(r[FirstFor(r, d)])
Dequeue(q, d) ==
    LET r == PurgeQueue(q)
    IN  IF CanDequeue(q, d) THEN RemoveAt(r, FirstFor(r, d)) ELSE r

AgeQueue(q) == [ i \in DOMAIN q |->
                   [q[i] EXCEPT !.expire = IF @ < 0 THEN @ ELSE @ - 1] ]
=============================================================================
