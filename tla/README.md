# A verification project for the MADAODV routing protocol

The repository is an ns-3 module: an implementation of the AODV routing protocol
(RFC 3561) for ad hoc networks. This directory models it in TLA+, checks the
models with TLC on small instances and proves most of the safety results with
TLAPS for every value of the constants. `PROJECT.json` maps every definition to the lines
of `src/` it stands for.

## 1. Inventory

| Component | State | Operations | Hard part |
|---|---|---|---|
| Routing table (`madaodv-rtable`) | map destination -> entry: sequence number and its valid bit, next hop, interface, hops, lifetime, flag VALID / INVALID / IN_SEARCH, precursors, request counter, blacklist bit | lookups (which purge), AddRoute, Update, DeleteRoute, SetEntryState, InvalidateRoutesWithDst, DeleteAllRoutesFromInterface, MarkLinkAsUnidirectional, Clear, Purge | one lifetime field with two meanings, purging inside every lookup, handlers that write back copies |
| Id cache, duplicate detection (`madaodv-id-cache`, `madaodv-dpd`) | list of (address, id, expiry) | IsDuplicate, Purge, GetSize, SetLifetime | lazy purging, lifetimes changed while records live |
| Request queue (`madaodv-rqueue`) | packets waiting for a route, with expiry and callbacks | Enqueue, Dequeue, DropPacketWithDst, GetSize, SetMaxQueueLen, SetQueueTimeout, purge | a packet must leave exactly once; limits tested for equality |
| Neighbour list (`madaodv-neighbor`) | neighbours with expiry, MAC address and close bit; a purge timer | Update, IsNeighbor, GetExpireTime, Purge, ProcessTxError, Clear, ScheduleTimer | a timer that stops itself, restarts by every purge, layer-2 feedback |
| Routing protocol (`madaodv-routing-protocol`) | the four above, own sequence number and request id, RREQ and RERR rate counters, retry timers, requests rescheduled by the rate limit | RouteOutput, DeferredRouteOutput, RouteInput, Forwarding, RecvRequest, RecvReply, RecvReplyAck, RecvError, ProcessHello, SendHello, timer callbacks, link-failure callback | messages lost, duplicated and reordered between nodes; timers racing answers; a packet's detour through the loopback device |
| Hello timer (same file) | `m_htimer`, `m_lastBcastTime` | HelloTimerExpire, SendHello | skips and shifts hellos after other broadcasts; its period and that of the listener's purge timer need not agree; data renews neighbours that were not heard |
| Interface notifications (same file) | two socket maps, broadcast and loopback routes | NotifyInterfaceUp/Down, NotifyAddAddress, NotifyRemoveAddress; device tests in RouteOutput and SendPacketFromQueue; broadcast data in RouteInput | what survives an interface; sockets found by address in maps that keep closed ones |
| Message headers (`madaodv-packet`) | members of the type header and of the four messages, flag octets, the destinations of a RERR | constructors, setters, AddUnDestination, RemoveUnDestination, Clear, Serialize, Deserialize | headers edited by relays; bits shared in one octet; a count of one octet; lifetimes in milliseconds |
| Attributes, lifecycle | - | constructor, SetIpv4, Start, DoInitialize, DoDispose | attributes that do not reach the members built from them |
| Helper, example, tests, printing | - | - | configuration and output |

Interactions. The protocol owns one table, one queue, two id caches and one
neighbour list. A packet without a route is sent to the loopback device, comes
back through RouteInput, is queued, and SendRequest broadcasts a RREQ and starts a
retry timer. The destination, or a node that knows a fresh route, answers with a
RREP that travels the reverse route; at the originator it empties the queue. The
neighbour list calls SendRerrWhenBreaksLinkToNextHop when a neighbour is lost,
and RERRs travel to precursors. All of it is driven by events of the simulator,
which run one at a time; the concurrency is that of the nodes, the frames in flight and
the timers.

What makes each component correct:

* table: a broken route is remembered for DeletePeriod; a request count belongs to
  a search; a lookup does not change what the next lookup sees;
* id cache: it is a duplicate filter with the lifetime in force when an id was new;
* queue: no packet lost, none duplicated, oldest first, bounded;
* neighbour list: the timer never misses, a dead neighbour goes in time and is
  reported, a live one stays;
* hello timer: a node is never silent for longer than an interval, a neighbour
  that is heard is not given up, one that has gone is, once no traffic uses it;
* interfaces: the protocol listens on every interface that is up, routes name
  interfaces that have a socket, packets respect the device they are bound to,
  broadcast data is delivered once while it is remembered;
* headers: what a receiver reads is what the setters were told;
* protocol: nothing waits without somebody that will wake it, tables can be used
  as the assertions of the code demand, sequence numbers are those of the
  destination, a packet is in one place, and in a good network it arrives.

The hazards behind these properties are listed, each at its line, in
`PROJECT.json`.

## 2. Modules

* `RoutingTable` - the table as operators on a function value; `RoutingTableSpec` -
  every operation of the class as an action, called in any order, with time
  passing between the calls and a history variable `retention` for what a broken
  route is owed; `RoutingTableProofs`; `MCRoutingTable`.
* `IdCache` - the cache as operators; `IdCacheSpec` - as a state machine with its
  last answer; `DuplicateFilter` - the abstract specification; `IdCacheSpec`
  instantiates it under the refinement mapping `promise`; `IdCacheProofs`;
  `MCIdCache`.
* `Selections` - the entries of a list at some of its positions, which is what
  `std::remove_if` and a loop of erase leave of a vector; written with
  cardinalities instead of recursion so that it can be proved about.
  `SelectionProofs` has its lemmas.
* `RequestQueue`, `RequestQueueSpec`, `MCRequestQueue` - operators and state
  machine, with the histories `outcome` of each packet and `arrived`, the order
  in which the waiting ones came; `RequestQueueProofs`.
* `Neighbors` - the list, the purge timer, the MAC feedback, and the history
  `credit` of promised lifetimes; `NeighborsProofs`; `MCNeighbors`.
* `Handlers` - what each protocol handler does to a table, and the messages it
  builds: pure operators over `RoutingTable`.
* `RoutingProtocol` - a network of nodes: composes `Handlers`, `IdCache` and
  `RequestQueue` (the very operators that the component modules check). One action
  is one event of the simulator. `node[n]` is the protocol object of `n`:

  | field | code |
  |---|---|
  | `table`, `queue`, `rreqIdCache`, `seqNo`, `requestId`, `rreqCount`, `rerrCount` | the members of those names |
  | `retry` | destinations whose `m_addressReqTimer` runs |
  | `deferred[d]` | calls `SendRequest(d)` rescheduled at 1055 |
  | `nb` | members of `m_nb` |
  | `lo` | packets in the loopback device, in order |
  | `scheduled` | unicast RERRs waiting for their random delay (2220) |
  | `up`, `htimer` | the interface takes part (`m_socketAddresses` is not empty); `m_htimer` was not cancelled |
  | `out`, `errors` | what the running event sends and reports; empty between events |

  A handler is an operator from object to object that includes every call the code makes, and
  `Commit` ends the event. `net` is the set of frames in flight: any of them may
  arrive next, be overtaken or, within the budget, be lost. `RoutingProtocolProofs`.
* `HelloProtocol`, `MCHelloProtocol` - the hello timer of one node composed with the
  neighbour list of a listener, which is an INSTANCE of `Neighbors`; `flying` are the
  broadcasts delayed by jitter, each of which may count as a sign of life or not.
  The list also changes without a hello: `UseRoute` is data forwarded to, or delivered
  from, the next hop Peer (618, 684, 685), which renews it for ActiveRouteTimeout,
  `NotifyTxError` the feedback of the MAC layer, `InterfaceLost` the loss of the last
  interface. `route` says that the listener's table has an entry with next hop Peer,
  which any message of Peer brings about. `HelloProofs`.
* `MessageHeaders`, `MCMessageHeaders` - a header object and the octets that travel:
  any setters, then Serialize, Deserialize at the receiver, more setters, and so
  on; the history `meant` holds what the setters were told.
* `Interfaces`, `MCInterfaces` - one node with several devices, over the operators of
  `RoutingTable`: the notifications, the two socket maps (`socketAddresses`,
  `broadcastAddresses`), packets bound to a device on their way through the loopback
  device and the queue, and broadcast data, for a subnet or for all hosts, with its
  duplicate detection and the expiry of its records; `InterfacesProofs`.
* `MCRoutingProtocol` - lines of one to four nodes and the packets of each run.

### Abstractions

* Lifetimes and expiry times are the time left (what the getters return) and stop
  at -1 (in `Neighbors` at the lower floor `LongPast`): the code keeps absolute times,
  and only asks whether what is left is negative or takes a maximum.
* In the network a node has one interface, whose address is the node; the
  broadcast entry of the table is not represented, and broadcasts find it while
  the interface is up. `Interfaces` has several devices and the broadcast entries,
  and reduces discovery to the flag of an entry and its retry timer.
* The socket maps of `Interfaces` are bags of an address and whether the socket is
  bound to it. The code orders them by the addresses of socket objects, so a search
  by address may return any match. An address belongs to one device, and devices
  have subnets of their own (`SubnetAssumption`).
* The retry timer may fire at any time while it runs; its exponential delay is
  abstracted. `PatientTimers` is the assumption that the delay exceeds the flight
  of messages, used only where said below.
* A time unit (`Tick`) is long against the flight of a message: it passes when nothing
  is in flight. A hello may be sent at any time within the budget.
* Link failures in the network are the neighbour list's callback at any time for
  any member of the list: `Neighbors` says when they are called.
* Equal control messages between the same two nodes at the same time are one.
  Duplicate detection of broadcasts (`m_dpd`) is therefore not in the network
  model; `IdCacheSpec` covers the cache.
* Sequence numbers are circular, modulo `SeqNoMod` for 2^32. The signed difference
  the code takes overflows when two numbers lie on both sides of the middle; that
  is undefined, and `FoldedComparison` chooses between the two outcomes of a
  compiler: a subtraction that wraps, or a comparison without subtraction.
* In `HelloProtocol` the entries of the listener's table are one flag, `route`: valid or
  not is left open, because the next hop of the origin counts at 685 even if its
  entry is invalid, and an entry may be deleted at any time. Data may be forwarded at
  any moment while there is one. MAC errors may come at any time.
* In `Interfaces` the record of a datagram may expire at any time; `deliveries` and
  `forwards` count while it is kept. After that a late copy is delivered again.
* Octets of `MessageHeaders` have 128 values and a RERR's count 4 (the code: 256 each), so that
  the limits are met with small values; the flags keep their bit numbers.
* The RREP-ACK timer is configured on a copy and never scheduled (1592), so
  `MarkLinkAsUnidirectional` is an operation of the table and never of the network.
* `HelloProtocol` starts later than time zero: `m_lastBcastTime` = 0 stands for "no
  broadcast" in the code, which a broadcast at time zero would be mistaken for.

## 3. Runs

| run | checks | instance and why it is enough |
|---|---|---|
| `table` | TypeOK, BrokenRouteRetained, RreqCntOnlyInSearch, PurgeIdempotent | two destinations, lifetimes 0 and 1, DeletePeriod 1, counter modulo 3: an entry expires, is invalidated, deleted and re-created, the counter wraps; 167 000 states |
| `ids` | FilterSpec (refinement) | three ids, lifetimes 0 and 2: one record expires while another lives |
| `queue` | TypeOK, NoPacketLost, OldestFirst, QueueBounded | four packets to two destinations, limit 3, one uid used with both, a timeout that moves between 1 and 2: eviction, refusal, expiry from the front and from the middle |
| `neighbors` | TypeOK, TimerCoversList, FailureDetectedInTime, CreditHonoured, NoClosedLinkKept, LossReported | two neighbours, two MAC addresses, lifetimes below and above the interval 2 |
| `crossing` | RoutesUsable, NoRouteToSelf, PacketConserved, SeqNoSound, Delivery | line A-B-C, A and C send to each other at once, expanding ring of 1 then 2, one hello at any time, no loss, patient timers, sequence numbers that start at the signed overflow, which wraps; 150 000 states |
| `races` | TypeOK, SearchHasWakeup, NoStrandedPacket, PacketSettled, SearchSettled | same line, one packet, impatient timers, rate limit 1, one loss, one link failure or lost interface (which may come back), one time unit, folded comparison at the overflow; the bound of six requests per node is never reached; 218 000 states |
| `hello` | TypeOK, NeverSilent, LinkKeptWhileHeard, VanishedDetected | interval 3, purge period 2, two hellos may be lost, ActiveRouteTimeout 1 (shorter than the 6 of hellos), jitter 0 or 1, a RREQ in any unit of time, data, MAC errors and loss of the interface at any time: every phase of the three timers; 68 000 states |
| `headers` | ReadsWhatWasSet, SizeIsRight | two to four values per field, some with high octets, a lifetime that is no whole milliseconds and one that does not fit into the word, three destinations in a count of 4; 25 000 states |
| `interfaces` | TypeOK, ListensEverywhere, RoutesHaveSocket, BroadcastRelayed, DeviceRespected, StrandedOnlyByDevice | two devices, one with two addresses of a subnet, a packet bound to a device and one that is not, a datagram for the subnet with two addresses and one for all hosts, which both devices receive, up to four broadcast sockets: a closed socket is met by every kind of lookup; 1.3 million states |
| `attempts` | AttemptsBounded is violated | one node, rate limit 1, RreqRetries 1, three packets |
| `reverse_path` | ReplyFindsReversePath is violated | line of four, C searches A while A searches D |
| `stale_socket` | OpenSocketHasInterface is violated | the devices of `interfaces` without packets |

Bounds: `MaxRequestId` (route requests per node), `MaxLoss` (frames lost), `MaxFault`
(links given up and interfaces lost, together), `MaxHello`, `MaxTick`, and in
`Interfaces` `MaxSocket` (broadcast sockets in their map). The network runs switch
deadlock checking off: a network without packets, or with its budgets used up,
rests. `interfaces` does so because of the bound on sockets. Larger instances
(crossing packets with impatient timers, two packets under the rate limit with a
link failure, hello with loss and failure; 1.4 to 2.4 million states) were checked with
the safety properties as well and showed nothing else.

Every property has a mutant in `PROJECT.json`: a plausible bug in a mapped
definition under which TLC reports the property violated.

### Fairness

`FairSpec` says that the simulator goes on as long as an event of the protocol is
pending: a behaviour takes real steps for ever or comes again and again to a state
without pending events. `Simulator::Run` guarantees just that. It is no fairness
between events; that every pending event is eventually run follows in the model
because each event uses up something bounded, and in the simulator because
events have finite times. The liveness results are therefore for behaviours within the bounds.
`Delivery` also needs `PatientTimers` and a network that loses nothing.

`HelloProtocol` has weak fairness of the two timers, of the arrival (or loss) of what
is due and of time itself. An event that is due stays due until it is run, because
`Tick` waits for it, and the simulator runs all events of an instant before time
goes on. Lost frames are within it: `Arrival` is a hearing or a loss. There is no
fairness of data, of MAC errors or of the loss of interfaces, which may never come.
VanishedDetected is therefore conditional: it holds if UseRoute is not taken for ever.

### What the violated runs show

1. `attempts` - every SendRequest over the rate limit is rescheduled on its own.
   When two packets for one destination wait for the same second, two requests run
   back to back, the attempt counter jumps over RreqRetries, and the equality at
   line 1937 never ends that search.
2. `reverse_path` - the branch "Impossible! drop." (1758) is reachable: a relay may
   be searching the originator, because RecvRequest leaves IN_SEARCH alone.
3. `stale_socket` - NotifyRemoveAddress erases the closed broadcast socket from the
   wrong map (926). When the address comes back and is removed again, the search
   may find the closed socket, and the open one outlives its address;
   RecvMadaodv then passes on an address for which no interface is found. What does
   hold is ListensEverywhere: no interface that is up goes deaf.

Further disagreements noticed while modelling, not the subject of a run:

* SendRerrWhenNoRouteToForward (2136) and the broadcast path of SendRerrMessage
  test the RERR counter of "RERR_RATELIMIT RERR messages per second" (2135) and
  never increment it;
* after MaxQueueLen is lowered below the length of the queue, the equality at
  `madaodv-rqueue.cc:63` is never met and the queue grows without limit;
* a searching originator accepts a reply older than its entry (1743), against the
  circumstances listed in the comment at 1699;
* AllowedHelloLoss is the "Number of hello messages which may be loss for valid link"
  (306), but a node's forwarded RREQ replaces its hello, and a listener that has seen the
  RREQ ignores it (1358): a link can be given up although every frame arrived.
  LinkKeptWhileHeard therefore counts such RREQs as missed;
* a neighbour that has vanished stays in the list as long as data is forwarded
  through it and the MAC layer reports no error: 684 renews the entry at every packet
  (VanishedDetected without its proviso is violated). A neighbour that only data has
  put on the list (618, 685) stays for ActiveRouteTimeout, however many hellos it may
  miss by AllowedHelloLoss; LinkKeptWhileHeard is about neighbours that were heard;
* with EnableBroadcast a datagram for a subnet is passed on, one for 255.255.255.255
  never, since the table has no entry for that address (596-599);
* a lifetime of 2^32 milliseconds or more is sent modulo 2^32 (`madaodv-packet.cc:383`);
* the unicast socket of NotifyAddAddress lacks SetIpRecvTtl (876-878), so that RREPs
  received on it are not relayed;
* two interfaces in one subnet share the broadcast entry (779), which goes with the
  first of them;
* the hello timer is cancelled with the last interface (843) and never restarted;
* attributes HelloInterval, PathDiscoveryTime and DeletePeriod set after construction
  do not reach the neighbour list, the caches and the table (169-175);
* UpdateRouteToNeighbor sets the lifetime of a known neighbour (1314) in a copy that is never written
  back; Forwarding with an unknown source (685) puts the default address into the
  neighbour list, whose link failure later changes nothing;
* RouteOutput without a packet (428) asks LoopbackRoute for a source address before it
  tests for interfaces, and LoopbackRoute finds none if there is no socket;
* AddUnDestination never "return[s] false if we already added maximum possible
  number" (`madaodv-packet.h:624`): it asserts, and the code that splits a RERR is dead;
* InvalidateRoutesWithDst does not increment sequence numbers as
  `madaodv-rtable.h:503` says; GetListOfDestinationWithNextHop also lists entries
  without precursors (`madaodv-rtable.h:495`); a RREQ heard from its originator
  leaves the reverse route with an invalid sequence number (1373 against 1436).

That routes are free of loops is promised nowhere in the repository and does not hold
for every order of delayed hellos and losses in a triangle of nodes.

## 4. Proofs

All theorems hold for every value of the constants that satisfies the named
assumptions (ASSUME, evaluated by TLC in every run): sets of nodes, addresses,
devices and packets of any size, any topology, any limit and timeout. The provers
are SMT (Z3), Zenon and, for the temporal steps, LS4. Each module states one
inductive invariant, proves a lemma per action, and draws its theorems from
`Spec => []IInv`.

* `RoutingTableProofs`: TypeCorrect, BrokenRoutesRetained, CountsOnlyInSearch,
  PurgesIdempotent. The inductive invariant joins TypeOK, BrokenRouteRetained and
  RreqCntOnlyInSearch: the retention argument needs typed lifetimes, and must
  know that an entry is INVALID, since only such an entry is deleted when it
  expires. Lemmas say what each operator preserves (PurgeEntry, ResetCnt,
  EntryOps). PurgesIdempotent rests on the fact that Invalidate restarts the
  lifetime at DeletePeriod >= 0.
* `IdCacheProofs`: CacheKeepsPromise, a step simulation: a call of GetSize, which drops
  expired records, is a stuttering step of the filter.
* `NeighborsProofs`: TypeCorrect, TimerNeverMissing, DeadNeighborDropped,
  LiveNeighborKept, ClosedLinksPurged and the action property EveryLossReported.
  TimerCoversList and FailureDetectedInTime are not inductive
  apart: the expiry bound is relative to the timer, and a stopped timer must mean
  an empty list. PurgeStep and PurgeInv isolate what Purge guarantees, since every
  operation but Clear and Tick ends in it.
* `SelectionProofs`: the position of the k-th selected entry is well defined and
  increasing, a selection of a selection is one selection, and Tail and RemoveAt
  are selections. All rest on `BeforeOrdered`: counting the chosen positions before
  a position orders them.
* `RequestQueueProofs`: TypeCorrect, NothingLost, InOrder, LimitKept, Bounded. The
  invariant is the relation `Agrees` between the queue and the histories: the packets
  of the queue, in its order, are `arrived`, all different, and are those whose
  outcome is "waiting". Enqueue purges, looks for a duplicate, purges again and
  evicts; its lemma composes those of the parts. Bounded assumes a limit that
  never changes, as the run `queue` does (section 3 says what happens otherwise);
  LimitKept needs no such assumption.
* `HelloProofs`: TypeCorrect, HellosRegular, LinkKept, for any intervals. `TimerInTime`
  relates the timer to the silence (their sum never exceeds HelloInterval, although
  HelloTimerExpire shifts the phase after other broadcasts), and `CreditCoversLoss`
  says that a peer that was heard is on the list for long enough to cover all the
  hellos that may still go unheard. UpdateStep shows that data, which renews the entry
  for any ActiveRouteTimeout, never shortens it, and `LinkOpen` that no entry is left
  closed: without it a purge could end a link that is still heard.
* `RoutingProtocolProofs`, for any network: TypeCorrect, RoutesAlwaysUsable,
  SearchesLookedAfter, PacketsLookedAfter, PacketsConserved. The invariant types every object, every
  frame in flight (a frame travels between neighbours and a broadcast comes from
  its author: without this a handler could make a node its own next hop) and every
  entry (one that is not searched has an interface, a next hop in range and a hop
  count), and says that searches and queued packets are looked after. The last part
  is not preserved by the calls inside an event: DeferredRouteOutput queues a packet
  before it asks for a route, and SendRequest sets the flag of the entry before it
  starts the timer. `Settled(s, X)`
  therefore excepts the destinations X that the running event still has to deal
  with, and each handler's lemma says how X shrinks. Handlers that search nothing
  and leave timers and queue alone are `Mild`, and one lemma covers all of them.

  PacketsConserved, that a packet is never doubled, needs `Placed`: a packet is in
  one place at most, one position of one loopback device or queue or one frame in
  flight, and in none once it was delivered or given back (`Alone`). PacketConserved
  alone is not inductive: it counts a node whose queue holds the packet once, so two
  entries of one queue would pass, and SendPacketFromQueue or the error callbacks
  would then send one and give the other back. Inside an event frames and errors are
  collected as well, so the handlers' lemmas speak of all four places of an object
  (`Single`): control messages and table changes add no application packet
  (`NoMore`), while Enqueue, SendPacketFromQueue and StopSearch move packets between
  the places without doubling one (`Conserves`). RouteOutput and Forwarding bring a
  packet in, which no other place holds because it is new or its frame is the one
  consumed (`Free`); CommitAlone puts the event into the network.
* `InterfacesProofs`: TypeCorrect, ListensAlways, RoutesKeepSocket, BroadcastsRelayed,
  DevicesRespected, OnlyDeviceStrands. `Listening`, `Routes`, `Waits`, `Watched` and
  `Counted` are relations between pieces of state and the set P of addresses that
  take part, so that the lemmas Joins, Leaves, RoutesJoin and RoutesLeave serve
  every notification, also NotifyRemoveAddress, which leaves with one address and
  joins with the next in one event. Leaves holds whichever of several broadcast
  sockets the search returns: sockets that serve another subnet are never found.
  This uses `SubnetAssumption`. RoutesHaveSocket is inductive only with `GoodRoute`,
  which knows that an entry without an interface is searched and that the remaining
  entries are local routes, so that none is for all hosts; without the former a valid route without a device could
  reach SendPacketFromQueue.

Only model-checked:

* NoRouteToSelf: a node would learn a route to itself from a reply relayed to the
  very destination it is about, which a loop of reverse routes brings about.
  RecvRequest replaces the next hop of a reverse route whatever the sequence
  numbers say, and loops are not excluded in every topology (section 3), so this is
  shown for the line of the run only;
* SeqNoSound: circular sequence numbers can be compared only while no more than
  half of them have been issued, which the bounds of a run ensure and the
  assumptions on the constants do not;
* the headers: octets are folds, whose result for every input needs induction;
* liveness (Delivery, PacketSettled, SearchSettled, VanishedDetected): fairness is beyond
  the prover;
* the violated runs, which are counterexamples.

## 5. Not modelled

* DoDispose, GetTypeId, AssignStreams, printing and logging: release of memory,
  configuration and output. The attributes are constants of the models.
* AckTimerExpire and the blacklist timeout: the timer is never scheduled (1592) and
  the timeout never read.
* LoopbackRoute's choice of a source address, and RouteOutput without a packet.
* Two interfaces in one subnet, and the missing SetIpRecvTtl (see section 3).
* Splitting a RERR over 255 destinations: dead code.
* The helper, the example and the tests, which have no behaviour of the protocol's
  own; the chain of the regression test is the topology of the network runs.

## 6. Plan

The modules planned are all written. Every invariant is proved for all values of the
constants except those section 4 lists as only model-checked, for the reasons given
there. The next result worth trying is NoRouteToSelf for topologies without cycles,
from an invariant about the reverse routes along a path.
