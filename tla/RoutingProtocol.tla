--------------------------- MODULE RoutingProtocol ---------------------------
(***************************************************************************)
(* A network of nodes running the routing protocol                         *)
(* (src/model/madaodv-routing-protocol.cc) over an unreliable radio.       *)
(*                                                                         *)
(* node[n] is the RoutingProtocol object of n.  A handler is an operator   *)
(* from the object to the object it leaves behind; what it hands to the    *)
(* radio and the packets whose error callback it calls are collected in    *)
(* out and errors and leave the object when the event ends (Commit).  One  *)
(* action is one event of the simulator: a packet from an application, the *)
(* loopback device or the radio, or a timer.                               *)
(*                                                                         *)
(* Every node has the one interface Wlan.  Timers other than the lifetimes *)
(* have no duration: they fire at any time while they run.  The neighbour  *)
(* list is the set of its members (module Neighbors has its timing).  Two  *)
(* equal control messages in flight between the same nodes are one.        *)
(***************************************************************************)
EXTENDS Handlers, IdCache, RequestQueue

CONSTANTS
    Node,               \* the nodes; the other addresses answer to nobody
    Link,               \* pairs of nodes in radio range
    Bcast,              \* the broadcast address
    Packet,             \* application packets: [uid, src, dst]
    DataTtl,            \* the TTL of application packets
    RreqRetries, RreqRateLimit, RerrRateLimit,
    MaxQueueLen, MaxQueueTime,
    InitialSeqNo,       \* the sequence number of the nodes when the run begins
    PatientTimers,      \* retry timers wait until nothing is in flight
    MaxRequestId,       \* bound on the route requests of a node
    MaxLoss,            \* bound on the frames lost
    MaxFault,           \* bound on the links given up and the interfaces lost
    MaxHello, MaxTick   \* bounds on the hello messages and on the time

ASSUME NodeAssumption ==
    /\ Node \subseteq Addr /\ Bcast \notin Addr \cup {NoAddr}
    /\ \A l \in Link : \E m, n \in Node : m # n /\ l = {m, n}
    /\ \A p \in Packet : p.src \in Node /\ p.dst \in Addr \ {p.src}
ASSUME LimitAssumption ==
    /\ {DataTtl, RreqRetries, RreqRateLimit, RerrRateLimit, MaxQueueLen} \subseteq Nat \ {0}
    /\ {MaxQueueTime, MaxRequestId, MaxLoss, MaxFault, MaxHello, MaxTick} \subseteq Nat
    /\ PatientTimers \in BOOLEAN /\ InitialSeqNo \in 0 .. SeqNoMod - 1

VARIABLES
    node,       \* the protocol object of each node
    net,        \* frames in flight: [via, to, ip]
    sent,       \* the application packets handed to the protocol
    delivered,  \* those that reached their destination
    failed,     \* those whose error callback was called
    budget      \* how often the environment may still act

vars == <<node, net, sent, delivered, failed, budget>>

-----------------------------------------------------------------------------
(* The radio *)

Frame(via, to, ip) == [via |-> via, to |-> to, ip |-> ip]

Unicast(n, s, to, x) == [s EXCEPT !.out = @ \cup {Frame(n, to, x)}]

Broadcast(n, s, ttl, body) ==
    [s EXCEPT !.out = @ \cup { Frame(n, m, Ip(n, Bcast, ttl, body)) : m \in Node }]

InRange(f) == {f.via, f.to} \in Link

\* The packet of the queue for an IP packet.
Queued(x) == [uid |-> x, dst |-> x.dst]

DataOf(xs) == { x.body.packet : x \in { y \in xs : y.body.type = "DATA" } }

\* The event at n that turned its object into s ends; it consumed the frames f.
Commit(n, s, f) ==
    /\ node' = [node EXCEPT ![n] = [s EXCEPT !.out = {}, !.errors = {}]]
    /\ net' = (net \ f) \cup { g \in s.out : InRange(g) }
    /\ failed' = failed \cup DataOf({ p.uid : p \in s.errors })

Quiet == /\ net = {}
         /\ \A n \in Node : node[n].lo = << >> /\ node[n].scheduled = {}

-----------------------------------------------------------------------------
(* Handlers shared by several events *)

\* RouteOutput for a packet of this node: over a valid route, or through the
\* loopback device; refused without an interface.
RouteOutput(n, s, x) ==
    LET t == Purge(s.table)
        hop == t[x.dst].nextHop
        life(u, a) == UpdateRouteLifeTime(u, a, ActiveRouteTimeout)
    IN  IF ~s.up THEN [s EXCEPT !.errors = @ \cup {Queued(x)}]
        ELSE IF HasValidRoute(t, x.dst)
        THEN Unicast(n, [s EXCEPT !.table = life(life(t, x.dst), hop)], hop, x)
        ELSE [s EXCEPT !.table = t, !.lo = Append(@, x)]

\* A route request leaves: the ring, the counters, the table, the own id in
\* the duplicate cache, and the retry timer (ScheduleRreqRetry).  Without an
\* interface all of that happens, but nothing is sent.
BroadcastRequest(n, s, d) ==
    LET counted == [s EXCEPT !.rreqCount = @ + 1, !.seqNo = NextSeqNo(@),
                             !.requestId = @ + 1, !.retry = @ \cup {d},
                             !.table = SendRequestTable(@, d)]
        id == <<n, counted.requestId>>
    IN  IF ~s.up THEN counted
        ELSE Broadcast(n, [counted EXCEPT !.rreqIdCache = Recorded(@, id, PathDiscoveryTime)],
                       SearchTtl(s.table, d),
                       SendRequestHeader(s.table, d, n, counted.seqNo, counted.requestId))

\* Mutant of SendRequest: one request more than the limit is let through.
SendRequestOverLimit(n, s, d) ==
    IF s.rreqCount > RreqRateLimit THEN [s EXCEPT !.deferred[d] = @ + 1]
    ELSE BroadcastRequest(n, s, d)

\* Mutant of SendRequest: the retry timer is not started.
SendRequestNoTimer(n, s, d) ==
    IF s.rreqCount = RreqRateLimit THEN [s EXCEPT !.deferred[d] = @ + 1]
    ELSE [BroadcastRequest(n, s, d) EXCEPT !.retry = s.retry]

\* Mutant of SendRequest: the own request id is not put into the cache.
SendRequestUnrecorded(n, s, d) ==
    IF s.rreqCount = RreqRateLimit THEN [s EXCEPT !.deferred[d] = @ + 1]
    ELSE [BroadcastRequest(n, s, d) EXCEPT !.rreqIdCache = s.rreqIdCache]

SendRequest(n, s, d) ==
    IF s.rreqCount = RreqRateLimit THEN [s EXCEPT !.deferred[d] = @ + 1]
    ELSE BroadcastRequest(n, s, d)

\* Mutant of SendPacketFromQueue: the packets stay in the queue.
SendPacketFromQueueKeeps(n, s, d, hop) ==
    LET ready == { e.uid : e \in { x \in ToSet(PurgeQueue(s.queue)) : x.dst = d } }
    IN  [s EXCEPT !.queue = PurgeQueue(@),
                  !.errors = @ \cup PurgeErrors(s.queue),
                  !.out = @ \cup { Frame(n, hop, x) : x \in ready }]

\* All packets waiting for d leave towards hop.
SendPacketFromQueue(n, s, d, hop) ==
    LET ready == { e.uid : e \in { x \in ToSet(PurgeQueue(s.queue)) : x.dst = d } }
    IN  [s EXCEPT !.queue = DropPacketWithDst(@, d),
                  !.errors = @ \cup PurgeErrors(s.queue),
                  !.out = @ \cup { Frame(n, hop, x) : x \in ready }]

\* Mutant of StopSearch: the packets are left in the queue.
StopSearchKeepsPackets(s, d) == [s EXCEPT !.table = DeleteRoute(@, d), !.retry = @ \ {d}]

\* Mutant of StopSearch: the entry stays in search.
StopSearchKeepsEntry(s, d) ==
    [s EXCEPT !.retry = @ \ {d}, !.queue = DropPacketWithDst(@, d),
              !.errors = @ \cup DropErrors(s.queue, d)]

\* Search failed: the packets for d are dropped and their senders told.
StopSearch(s, d) ==
    [s EXCEPT !.table = DeleteRoute(@, d), !.retry = @ \ {d},
              !.queue = DropPacketWithDst(@, d),
              !.errors = @ \cup DropErrors(s.queue, d)]

SendRerrMessage(n, s, un, precursors) ==
    LET valid == { p \in precursors : HasValidRoute(s.table, p) }
    IN  IF valid = {} \/ s.rerrCount = RerrRateLimit THEN s
        ELSE IF Cardinality(precursors) = 1
        THEN [s EXCEPT !.rerrCount = @ + 1,
                       !.scheduled = @ \cup { Ip(n, p, 1, RerrHeader(un)) : p \in valid }]
        ELSE Broadcast(n, s, 1, RerrHeader(un))

SendRerrWhenNoRouteToForward(n, s, d, dstSeqno, origin) ==
    LET un == [ x \in {d} |-> dstSeqno ]
    IN  IF s.rerrCount = RerrRateLimit THEN s
        ELSE IF HasValidRoute(s.table, origin)
        THEN RouteOutput(n, s, Ip(n, Purge(s.table)[origin].nextHop, 1, RerrHeader(un)))
        ELSE Broadcast(n, s, 1, RerrHeader(un))

\* The link to nextHop is lost.
SendRerrWhenBreaksLinkToNextHop(n, s, nextHop) ==
    LET un == LinkBreakAffected(s.table, nextHop)
        told == SendRerrMessage(n, s, un, PrecursorsOf(s.table, DOMAIN un))
    IN  IF ~HasRoute(s.table, nextHop) THEN [s EXCEPT !.table = Purge(@)]
        ELSE [told EXCEPT !.table = InvalidateRoutesWithDst(@, DOMAIN un)]

-----------------------------------------------------------------------------
(* RouteInput: what happens to the object before the message itself is     *)
(* looked at, for a frame that n takes in.                                  *)

ForMe(n, f) == f.to = n /\ f.ip.dst \in {n, Bcast}

NoteOrigin(s, origin) ==
    [s EXCEPT !.table = DeliveryTable(@, origin),
              !.nb = @ \cup DeliveryNeighbors(s.table, origin)]

RecvMadaodv(s, ip) ==
    LET r == IF ip.dst = Bcast
             THEN [s EXCEPT !.table = UpdateRouteLifeTime(@, ip.src, ActiveRouteTimeout)]
             ELSE NoteOrigin(s, ip.src)
    IN  [r EXCEPT !.table = UpdateRouteToNeighbor(@, ip.src)]

-----------------------------------------------------------------------------
(* The handlers of the messages; m has its hop count incremented.          *)

\* A request that was not seen before, once the routes are recorded in s.
AnswerRequest(n, s, src, m, ttl) ==
    LET verdict == RequestVerdict(n, s.table, src, m, ttl)
        seqNo == ReplySeqNo(m, s.seqNo)
        replied == RouteOutput(n, [s EXCEPT !.table = IntermediateTable(@, m)],
                               IntermediateReply(n, s.table, m))
    IN  CASE verdict = "destination" ->
               RouteOutput(n, [s EXCEPT !.seqNo = seqNo], SendReply(n, s.table, m, seqNo))
          [] verdict = "intermediate" ->
               IF m.gratuitous THEN RouteOutput(n, replied, GratuitousRrep(n, s.table, m))
               ELSE replied
          [] verdict = "forward" -> Broadcast(n, s, ttl - 1, ForwardedRequest(s.table, m))
          [] OTHER -> s

HandleRequest(n, s, src, m, ttl) ==
    LET known == IsDuplicate(s.rreqIdCache, <<m.origin, m.id>>)
        noted == [s EXCEPT !.rreqIdCache = Recorded(@, <<m.origin, m.id>>, PathDiscoveryTime)]
    IN  IF HasRoute(s.table, src) /\ Purge(s.table)[src].unidirectional THEN s
        ELSE IF known THEN noted
        ELSE AnswerRequest(n, [noted EXCEPT !.table = RecvRequestTable(@, src, m),
                                            !.nb = @ \cup {src}], src, m, ttl)

\* The reply has reached the node that asked.
ReplyAtOrigin(n, s, sender, m, searching) ==
    LET r == IF searching
             THEN [s EXCEPT !.table = AcceptAtOrigin(@, sender, m), !.retry = @ \ {m.dst}]
             ELSE s
    IN  SendPacketFromQueue(n, r, m.dst, Purge(r.table)[m.dst].nextHop)

RelayReply(n, s, m, ttl) ==
    LET t == RelayTable(s.table, m)
        r == [s EXCEPT !.table = t]
    IN  IF ~HasReversePath(s.table, m) THEN s
        ELSE IF ttl < 2 THEN r
        ELSE RouteOutput(n, r, Ip(n, t[m.origin].nextHop, ttl - 1, m))

HandleReply(n, s, sender, m, ttl) ==
    LET searching == HasRoute(s.table, m.dst) /\ s.table[m.dst].flag = "IN_SEARCH"
        learned == [s EXCEPT !.table = ForwardRoute(@, sender, m)]
        acked == IF m.ack THEN RouteOutput(n, learned, Ip(n, sender, 1, RrepAckHeader))
                 ELSE learned
        m1 == [m EXCEPT !.ack = FALSE]
    IN  IF m.origin = n THEN ReplyAtOrigin(n, acked, sender, m1, searching)
        ELSE RelayReply(n, acked, m1, ttl)

HandleError(n, s, src, m) ==
    LET un == RerrAffected(s.table, src, m)
        told == SendRerrMessage(n, s, un, PrecursorsOf(s.table, DOMAIN un))
    IN  [told EXCEPT !.table = InvalidateRoutesWithDst(@, DOMAIN un)]

\* A packet of this node that comes back over the radio is discarded.
HandleForward(n, s, x) ==
    LET t == Purge(s.table)
        hop == t[x.dst].nextHop
        r == [s EXCEPT !.table = ForwardingTable(t, x.src, x.dst),
                       !.nb = @ \cup {hop, PreviousHop(t, x.src)}]
        known == HasRoute(t, x.dst) /\ t[x.dst].validSeqNo
    IN  IF x.src = n THEN s
        ELSE IF HasValidRoute(t, x.dst)
        THEN IF x.ttl > 1 THEN Unicast(n, r, hop, [x EXCEPT !.ttl = @ - 1]) ELSE r
        ELSE SendRerrWhenNoRouteToForward(n, [s EXCEPT !.table = t], x.dst,
                                          IF known THEN t[x.dst].seqNo ELSE 0, x.src)

-----------------------------------------------------------------------------
(* Events of the application and the loopback device *)

\* An application hands over a packet.
Send(p) ==
    /\ p \notin sent
    /\ sent' = sent \cup {p}
    /\ Commit(p.src, RouteOutput(p.src, node[p.src], Ip(p.src, p.dst, DataTtl, Data(p))), {})
    /\ UNCHANGED <<delivered, budget>>

\* A packet without a route comes back from the loopback device; RouteInput
\* does not take it if the last interface has gone meanwhile.
DeferredRouteOutput(n) ==
    LET s == node[n]
        x == Head(s.lo)
        p == Queued(x)
        r == [s EXCEPT !.lo = Tail(@),
                       !.queue = Enqueue(@, p, MaxQueueLen, MaxQueueTime),
                       !.errors = EnqueueErrors(s.queue, p, MaxQueueLen)]
    IN  /\ s.lo # << >>
        /\ s.requestId < MaxRequestId
        /\ IF ~s.up THEN Commit(n, [s EXCEPT !.lo = Tail(@)], {})
           ELSE IF Holds(PurgeQueue(s.queue), p) THEN Commit(n, r, {})
           ELSE IF HasRoute(s.table, x.dst) /\ Purge(s.table)[x.dst].flag = "IN_SEARCH"
           THEN Commit(n, [r EXCEPT !.table = Purge(@)], {})
           ELSE Commit(n, SendRequest(n, r, x.dst), {})
        /\ UNCHANGED <<sent, delivered, budget>>

-----------------------------------------------------------------------------
(* Timers *)

\* A request put off by the rate limit is tried again; if the limit is still
\* reached it is put off once more.
SendDeferredRequest(n, d) ==
    LET s == [node[n] EXCEPT !.deferred[d] = @ - 1]
    IN  /\ node[n].deferred[d] > 0
        /\ s.rreqCount # RreqRateLimit
        /\ s.requestId < MaxRequestId
        /\ Commit(n, SendRequest(n, s, d), {})
        /\ UNCHANGED <<sent, delivered, budget>>

RouteRequestTimerExpire(n, d) ==
    LET s == node[n]
        p == Purge(s.table)
        t == [s EXCEPT !.table = p, !.retry = @ \ {d}]
        searched == d \in DOMAIN p /\ p[d].flag = "IN_SEARCH"
        tried == IF d \in DOMAIN p THEN p[d].reqCount ELSE 0
    IN  /\ d \in s.retry
        /\ PatientTimers => Quiet
        /\ s.requestId < MaxRequestId
        /\ \/ /\ HasValidRoute(p, d)
              /\ Commit(n, SendPacketFromQueue(n, t, d, p[d].nextHop), {})
           \/ /\ ~HasValidRoute(p, d)
              /\ tried # RreqRetries /\ searched
              /\ Commit(n, SendRequest(n, t, d), {})
           \/ /\ ~HasValidRoute(p, d)
              /\ tried = RreqRetries \/ ~searched
              /\ Commit(n, StopSearch(t, d), {})
        /\ UNCHANGED <<sent, delivered, budget>>

RreqRateLimitTimerExpire(n) ==
    /\ node[n].rreqCount # 0
    /\ Commit(n, [node[n] EXCEPT !.rreqCount = 0], {})
    /\ UNCHANGED <<sent, delivered, budget>>

RerrRateLimitTimerExpire(n) ==
    /\ node[n].rerrCount # 0
    /\ Commit(n, [node[n] EXCEPT !.rerrCount = 0], {})
    /\ UNCHANGED <<sent, delivered, budget>>

\* A unicast RERR leaves, at the end of its random delay.
SendTo(n, x) ==
    /\ x \in node[n].scheduled
    /\ Commit(n, RouteOutput(n, [node[n] EXCEPT !.scheduled = @ \ {x}], x), {})
    /\ UNCHANGED <<sent, delivered, budget>>

SendHello(n) ==
    LET hello == RrepHeader(0, n, node[n].seqNo, n, HelloLifetime, FALSE)
    IN  /\ node[n].htimer /\ budget.hello > 0
        /\ budget' = [budget EXCEPT !.hello = @ - 1]
        /\ Commit(n, Broadcast(n, node[n], 1, hello), {})
        /\ UNCHANGED <<sent, delivered>>

\* A neighbour is given up, its credit expired or a transmission to it failed.
LinkFailure(n, a) ==
    /\ a \in node[n].nb
    /\ budget.fault > 0
    /\ budget' = [budget EXCEPT !.fault = @ - 1]
    /\ Commit(n, SendRerrWhenBreaksLinkToNextHop(n, [node[n] EXCEPT !.nb = @ \ {a}], a), {})
    /\ UNCHANGED <<sent, delivered>>

-----------------------------------------------------------------------------
(* A frame arrives *)

Hop(m) == [m EXCEPT !.hopCount = @ + 1]

RecvRequest(n, f) ==
    /\ ForMe(n, f) /\ f.ip.body.type = "RREQ"
    /\ Commit(n, HandleRequest(n, RecvMadaodv(node[n], f.ip), f.ip.src, Hop(f.ip.body), f.ip.ttl),
              {f})
    /\ UNCHANGED <<sent, delivered, budget>>

IsHello(m) == m.type = "RREP" /\ m.dst = m.origin

RecvReply(n, f) ==
    /\ ForMe(n, f) /\ f.ip.body.type = "RREP" /\ ~IsHello(f.ip.body)
    /\ Commit(n, HandleReply(n, RecvMadaodv(node[n], f.ip), f.ip.src, Hop(f.ip.body), f.ip.ttl),
              {f})
    /\ UNCHANGED <<sent, delivered, budget>>

ProcessHello(n, f) ==
    LET s == RecvMadaodv(node[n], f.ip)
    IN  /\ ForMe(n, f) /\ IsHello(f.ip.body)
        /\ Commit(n, [s EXCEPT !.table = ProcessHelloTable(@, f.ip.body),
                               !.nb = @ \cup {f.ip.body.dst}], {f})
        /\ UNCHANGED <<sent, delivered, budget>>

RecvError(n, f) ==
    /\ ForMe(n, f) /\ f.ip.body.type = "RERR"
    /\ Commit(n, HandleError(n, RecvMadaodv(node[n], f.ip), f.ip.src, f.ip.body), {f})
    /\ UNCHANGED <<sent, delivered, budget>>

RecvReplyAck(n, f) ==
    LET s == RecvMadaodv(node[n], f.ip)
    IN  /\ ForMe(n, f) /\ f.ip.body.type = "RREP_ACK"
        /\ Commit(n, [s EXCEPT !.table = RecvReplyAckTable(@, f.ip.src)], {f})
        /\ UNCHANGED <<sent, delivered, budget>>

LocalDelivery(n, f) ==
    /\ ForMe(n, f) /\ f.ip.body.type = "DATA"
    /\ delivered' = delivered \cup {f.ip.body.packet}
    /\ Commit(n, NoteOrigin(node[n], f.ip.src), {f})
    /\ UNCHANGED <<sent, budget>>

Forwarding(n, f) ==
    /\ f.to = n /\ f.ip.dst \notin {n, Bcast}
    /\ Commit(n, HandleForward(n, node[n], f.ip), {f})
    /\ UNCHANGED <<sent, delivered, budget>>

-----------------------------------------------------------------------------
(* The environment *)

Lose(f) ==
    /\ \/ budget.loss > 0 /\ budget' = [budget EXCEPT !.loss = @ - 1]
       \/ ~node[f.to].up /\ UNCHANGED budget
    /\ net' = net \ {f}
    /\ UNCHANGED <<node, sent, delivered, failed>>

\* A time unit passes: long against the flight of a message.
Tick ==
    /\ Quiet
    /\ budget.tick > 0
    /\ budget' = [budget EXCEPT !.tick = @ - 1]
    /\ node' = [ n \in Node |-> [node[n] EXCEPT !.table = Age(@), !.queue = AgeQueue(@),
                                                !.rreqIdCache = AgeIds(@)] ]
    /\ UNCHANGED <<net, sent, delivered, failed>>

\* Mutant of NotifyInterfaceDown: the retry timers are cancelled.
NotifyInterfaceDownCancels(n) ==
    /\ node[n].up /\ budget.fault > 0
    /\ budget' = [budget EXCEPT !.fault = @ - 1]
    /\ Commit(n, [node[n] EXCEPT !.up = FALSE, !.htimer = FALSE, !.nb = {}, !.retry = {},
                                 !.table = EmptyTable, !.scheduled = {}], {})
    /\ UNCHANGED <<sent, delivered>>

\* The interface goes: the sockets are closed, with what waits to be sent over
\* them, and table and neighbours are cleared.  The hello timer is cancelled for
\* good.  Queue, retry timers and held-back requests live on.
NotifyInterfaceDown(n) ==
    /\ node[n].up /\ budget.fault > 0
    /\ budget' = [budget EXCEPT !.fault = @ - 1]
    /\ Commit(n, [node[n] EXCEPT !.up = FALSE, !.htimer = FALSE, !.nb = {},
                                 !.table = EmptyTable, !.scheduled = {}], {})
    /\ UNCHANGED <<sent, delivered>>

NotifyInterfaceUp(n) ==
    /\ ~node[n].up
    /\ Commit(n, [node[n] EXCEPT !.up = TRUE], {})
    /\ UNCHANGED <<sent, delivered, budget>>

-----------------------------------------------------------------------------
FreshNode ==
    [ up |-> TRUE, htimer |-> TRUE, table |-> EmptyTable, queue |-> << >>,
      seqNo |-> InitialSeqNo, requestId |-> 0, rreqIdCache |-> EmptyTable,
      rreqCount |-> 0, rerrCount |-> 0, retry |-> {},
      deferred |-> [ d \in Addr |-> 0 ], nb |-> {}, lo |-> << >>, scheduled |-> {},
      out |-> {}, errors |-> {} ]

Init ==
    /\ node = [ n \in Node |-> FreshNode ]
    /\ net = {} /\ sent = {} /\ delivered = {} /\ failed = {}
    /\ budget = [loss |-> MaxLoss, fault |-> MaxFault, hello |-> MaxHello, tick |-> MaxTick]

Receive(n, f) ==
    /\ node[n].up
    /\ \/ RecvRequest(n, f)  \/ RecvReply(n, f)     \/ ProcessHello(n, f)
       \/ RecvError(n, f)    \/ RecvReplyAck(n, f)  \/ LocalDelivery(n, f)
       \/ Forwarding(n, f)

Next ==
    \/ \E p \in Packet : Send(p)
    \/ \E n \in Node : DeferredRouteOutput(n)
    \/ \E n \in Node, d \in Addr : SendDeferredRequest(n, d) \/ RouteRequestTimerExpire(n, d)
    \/ \E n \in Node : RreqRateLimitTimerExpire(n) \/ RerrRateLimitTimerExpire(n) \/ SendHello(n)
    \/ \E n \in Node : \E x \in node[n].scheduled : SendTo(n, x)
    \/ \E n \in Node : \E a \in node[n].nb : LinkFailure(n, a)
    \/ \E n \in Node : NotifyInterfaceDown(n) \/ NotifyInterfaceUp(n)
    \/ \E f \in net : Receive(f.to, f) \/ Lose(f)
    \/ Tick

Spec == Init /\ [][Next]_vars

\* The simulator has an event of the protocol to run.
Busy ==
    \/ net # {}
    \/ \E n \in Node :
         \/ node[n].scheduled # {} \/ node[n].rreqCount # 0
         \/ node[n].requestId < MaxRequestId /\ node[n].lo # << >>
         \/ node[n].requestId < MaxRequestId /\ \E d \in Addr : node[n].deferred[d] > 0
         \/ node[n].requestId < MaxRequestId /\ node[n].retry # {} /\ (PatientTimers => Quiet)

\* Simulator::Run goes on as long as an event is pending.
FairSpec == Spec /\ ([]<><<TRUE>>_vars \/ []<>~Busy)

-----------------------------------------------------------------------------
(* Properties *)

Table(n) == node[n].table

\* IP packets waiting for a route at n.
Waiting(n) == { e.uid : e \in ToSet(node[n].queue) }

\* The type of the state.  The two rate counters stay within their limits, the
\* tables are well formed, and what an event collects for the radio and for the
\* error callbacks has left the object when the event is over.
TypeOK ==
    /\ sent \subseteq Packet /\ delivered \subseteq sent /\ failed \subseteq sent
    /\ \A f \in net : f.via \in Node /\ f.to \in Node /\ InRange(f)
    /\ \A n \in Node :
         /\ IsTable(Table(n))
         /\ node[n].rreqCount \in 0 .. RreqRateLimit
         /\ node[n].rerrCount \in 0 .. RerrRateLimit
         /\ node[n].nb \subseteq Addr \cup {NoAddr}
         /\ node[n].retry \subseteq Addr
         /\ node[n].deferred \in [Addr -> Nat]
         /\ node[n].up \in BOOLEAN /\ node[n].htimer \in BOOLEAN
         /\ node[n].out = {} /\ node[n].errors = {}

\* A route that is not being searched has an interface and a next hop that
\* really is a neighbour.  RouteOutput, SendReply, SendReplyAck, the relay of
\* RecvReply and SendRerrMessage rely on it: they assert that the route and the
\* socket of its interface exist, while entries are created without either by
\* SendRequest and are overwritten by messages about other searches.
RoutesUsable ==
    \A n \in Node : \A d \in DOMAIN Table(n) :
        LET e == Table(n)[d]
        IN  e.flag # "IN_SEARCH" =>
                e.iface = Wlan /\ {n, e.nextHop} \in Link /\ e.hops >= 1

\* No node learns a route to itself, although its own requests come back to it
\* from its neighbours and replies about it travel through the network.
NoRouteToSelf == \A n \in Node : n \notin DOMAIN Table(n)

\* A sequence number that a table marks as valid was issued by the destination
\* itself: it is never ahead of the destination's own number, and nobody knows
\* one for an address that no node has.  Ahead is meant in the circular order of
\* 32-bit numbers, whose counter wraps.
SeqNoSound ==
    \A n \in Node : \A d \in DOMAIN Table(n) :
        Table(n)[d].validSeqNo =>
            d \in Node /\ 2 * ((node[d].seqNo - Table(n)[d].seqNo) % SeqNoMod) < SeqNoMod

\* An entry in search is always going to be looked at again: its retry timer is
\* running or a request held back by the rate limit will be sent.  Such an
\* entry never expires, and packets for it start no search of their own.
SearchHasWakeup ==
    \A n \in Node : \A d \in DOMAIN Table(n) :
        Table(n)[d].flag = "IN_SEARCH" => d \in node[n].retry \/ node[n].deferred[d] > 0

\* Every packet in the queue has a timer that will send or drop it, or a held
\* back request that will start one.  Nothing else ever looks at the queue.
NoStrandedPacket ==
    \A n \in Node : \A e \in ToSet(node[n].queue) :
        e.dst \in node[n].retry \/ node[n].deferred[e.dst] > 0

\* The copies of p on the air, in loopback devices and in queues.
Copies(p) ==
    LET is(x) == x.body.type = "DATA" /\ x.body.packet = p
    IN    Cardinality({ f \in net : is(f.ip) })
        + Cardinality(UNION { { <<n, i>> : i \in { j \in DOMAIN node[n].lo : is(node[n].lo[j]) } }
                              : n \in Node })
        + Cardinality({ n \in Node : \E x \in Waiting(n) : is(x) })

\* A packet is in one place only: on the air, in a loopback device or in a
\* queue; and in none of them once it is delivered or its sender was told that
\* it is lost, never both.
PacketConserved ==
    \A p \in Packet : Copies(p) + (IF p \in delivered THEN 1 ELSE 0)
                                + (IF p \in failed THEN 1 ELSE 0) <= 1

\* In a connected network that loses nothing, and with retry timers longer than
\* the flight of the messages, every packet is delivered: the ring of the search
\* grows until it reaches the destination, and the replies of searches that
\* cross each other find their way back.
Delivery == \A p \in Packet : p \in sent ~> p \in delivered

\* Whatever is lost, a packet does not stay in the network for ever: it is
\* delivered, dropped or given back to its sender.
PacketSettled == \A p \in Packet : p \in sent ~> Copies(p) = 0

\* A search ends, with a route or without one (when the rate limit holds no
\* request back; see AttemptsBounded).
SearchSettled ==
    \A n \in Node, d \in Addr :
        LET searched == d \in DOMAIN Table(n) /\ Table(n)[d].flag = "IN_SEARCH"
        IN  searched ~> ~searched

-----------------------------------------------------------------------------
(* What comments of the code say, and the code does not do *)

\* RouteRequestTimerExpire: a discovery is given up once it "has been attempted
\* RreqRetries times at the maximum TTL".
AttemptsBounded ==
    \A n \in Node : \A d \in DOMAIN Table(n) : Table(n)[d].reqCount <= RreqRetries

\* RecvReply: it is "Impossible!" that a relay has no route back to the
\* originator, or is searching it.
ReplyFindsReversePath ==
    \A f \in net :
        LET m == f.ip.body
            t == ForwardRoute(RecvMadaodv(node[f.to], f.ip).table, f.ip.src, Hop(m))
        IN  ForMe(f.to, f) /\ m.type = "RREP" /\ ~IsHello(m) /\ m.origin # f.to
            => HasReversePath(t, m)
=============================================================================
