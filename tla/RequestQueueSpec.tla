-------------------------- MODULE RequestQueueSpec --------------------------
(***************************************************************************)
(* The request queue as a state machine.  outcome is the history of every  *)
(* packet as its sender sees it: handed to the queue, sent through the     *)
(* forward callback, or returned through the error callback; arrived lists *)
(* the waiting packets in the order in which the queue accepted them.      *)
(***************************************************************************)
EXTENDS RequestQueue

CONSTANTS
    Packet,        \* records [uid, dst]
    MaxLens,       \* values SetMaxQueueLen may be given
    QueueTimeouts  \* values SetQueueTimeout may be given

ASSUME PacketAssumption == \A p \in Packet : PacketOf(p) = p
ASSUME MaxLensAssumption == MaxLens \subseteq Nat \ {0} /\ MaxLens # {}
ASSUME QueueTimeoutsAssumption == QueueTimeouts \subseteq Nat /\ QueueTimeouts # {}

VARIABLES
    queue,         \* m_queue
    maxLen,        \* m_maxLen
    queueTimeout,  \* m_queueTimeout
    outcome,       \* history: what became of each packet
    arrived        \* history: the waiting packets, in order of arrival

vars == << queue, maxLen, queueTimeout, outcome, arrived >>

Dst == { p.dst : p \in Packet }

\* The queue holds known packets, none of them longer than a timeout that
\* it was given.
TypeOK ==
    /\ \A i \in DOMAIN queue : /\ PacketOf(queue[i]) \in Packet
                               /\ \E t \in QueueTimeouts : queue[i].expire \in -1 .. t
    /\ maxLen \in MaxLens
    /\ queueTimeout \in QueueTimeouts
    /\ outcome \in [Packet -> {"none", "waiting", "forwarded", "error"}]
    /\ arrived \in Seq(Packet)

Init ==
    /\ queue = << >>
    /\ maxLen \in MaxLens
    /\ queueTimeout \in QueueTimeouts
    /\ arrived = << >>
    /\ outcome = [p \in Packet |-> "none"]

\* outcome once the error callback has been called for the packets in failed.
Failed(failed) == [ p \in Packet |-> IF p \in failed THEN "error" ELSE outcome[p] ]

\* The packets that still wait once the outcomes are after.
StillWaiting(after) ==
    At(arrived, { i \in DOMAIN arrived : after[arrived[i]] = "waiting" })

\* Enqueue; the caller only counts the packet as accepted if it returns true.
EnqueuePacket(p) ==
    /\ queue' = Enqueue(queue, p, maxLen, queueTimeout)
    /\ LET after == Failed(EnqueueErrors(queue, p, maxLen))
       IN  IF Holds(PurgeQueue(queue), p)
           THEN /\ outcome' = after
                /\ arrived' = StillWaiting(after)
           ELSE /\ outcome' = [after EXCEPT ![p] = "waiting"]
                /\ arrived' = Append(StillWaiting(after), p)
    /\ UNCHANGED << maxLen, queueTimeout >>

DequeuePacket(d) ==
    /\ queue' = Dequeue(queue, d)
    /\ LET after == Failed(PurgeErrors(queue))
       IN  outcome' = IF CanDequeue(queue, d)
                      THEN [after EXCEPT ![Dequeued(queue, d)] = "forwarded"]
                      ELSE after
    /\ arrived' = StillWaiting(outcome')
    /\ UNCHANGED << maxLen, queueTimeout >>

DropDst(d) ==
    /\ queue' = DropPacketWithDst(queue, d)
    /\ outcome' = Failed(DropErrors(queue, d))
    /\ arrived' = StillWaiting(outcome')
    /\ UNCHANGED << maxLen, queueTimeout >>

GetSize ==
    /\ queue' = PurgeQueue(queue)
    /\ outcome' = Failed(PurgeErrors(queue))
    /\ arrived' = StillWaiting(outcome')
    /\ UNCHANGED << maxLen, queueTimeout >>

SetMaxQueueLen(len) ==
    /\ maxLen' = len
    /\ UNCHANGED << queue, queueTimeout, outcome, arrived >>

\* Packets that wait already keep the deadline they were given.
SetQueueTimeout(t) ==
    /\ queueTimeout' = t
    /\ UNCHANGED << queue, maxLen, outcome, arrived >>

Tick ==
    /\ queue' = AgeQueue(queue)
    /\ UNCHANGED << maxLen, queueTimeout, outcome, arrived >>

Next ==
    \/ \E p \in Packet : EnqueuePacket(p)
    \/ \E d \in Dst : DequeuePacket(d)
    \/ \E d \in Dst : DropDst(d)
    \/ GetSize
    \/ \E len \in MaxLens : SetMaxQueueLen(len)
    \/ \E t \in QueueTimeouts : SetQueueTimeout(t)
    \/ Tick

Spec == Init /\ [][Next]_vars

-----------------------------------------------------------------------------
\* No packet is lost and none is duplicated: a packet the queue accepted sits
\* in it exactly once until it is forwarded or its error callback is called.
NoPacketLost ==
    \A p \in Packet :
        Cardinality({ i \in DOMAIN queue : PacketOf(queue[i]) = p })
          = IF outcome[p] = "waiting" THEN 1 ELSE 0

\* Packets stand in the order in which they were accepted, also when a
\* shortened timeout lets a late packet expire from the middle: the front of
\* the queue really is the most aged packet and packets to one destination
\* leave in the order they came (Enqueue's eviction and Dequeue rely on it).
OldestFirst == arrived = [ i \in DOMAIN queue |-> PacketOf(queue[i]) ]

\* While the limit is left alone the queue never outgrows it, whatever order
\* packets come, expire and leave in (Enqueue's test is an equality).
QueueBounded == Len(queue) <= maxLen
=============================================================================
