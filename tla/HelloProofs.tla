---------------------------- MODULE HelloProofs -----------------------------
(***************************************************************************)
(* Proofs about the hello timer and the list that listens to it, for every *)
(* HelloInterval, AllowedHelloLoss, delay and jitter.                      *)
(***************************************************************************)
EXTENDS HelloProtocol, TLAPS

\* The timer fires before a HelloInterval of silence is over, and the broadcast
\* that lets it skip a hello is the last one made.
TimerInTime ==
    /\ quiet + htimer <= HelloInterval
    /\ lastBcast # None => lastBcast = quiet

\* What is left of the time Peer's entry has to live covers the broadcasts that
\* are still to come before AllowedHelloLoss of them have gone unheard.
CreditCoversLoss ==
    (heard /\ ~gone /\ unheard < AllowedHelloLoss) =>
        /\ Peer \in DOMAIN nb
        /\ nb[Peer].expire + quiet >= (AllowedHelloLoss - unheard) * HelloInterval

\* A purge follows at once where a link is closed.
LinkOpen == Peer \in DOMAIN nb => ~nb[Peer].close

\* The inductive invariant.
IInv == TypeOK /\ TimerInTime /\ LinkOpen /\ CreditCoversLoss

\* A hello interval is positive, and so is what a sign of life is worth.
LEMMA Intervals ==
    /\ HelloInterval \in Nat /\ HelloInterval >= 1
    /\ AllowedHelloLoss \in Nat /\ AllowedHelloLoss >= 1
    /\ Lifetime \in Nat /\ Lifetime = (AllowedHelloLoss - 0) * HelloInterval
    /\ \A k \in Int : /\ (k - 1) * HelloInterval = k * HelloInterval - HelloInterval
                      /\ k * HelloInterval \in Int
                      /\ k >= 1 => k * HelloInterval >= HelloInterval
    /\ PurgeDelay \in Nat /\ PurgeDelay >= 1 /\ ActiveRouteTimeout \in Nat
    /\ StartDelay \in Nat /\ StartDelay <= HelloInterval /\ MaxJitter \in Nat
<1>1. /\ HelloInterval \in Nat /\ HelloInterval >= 1
      /\ AllowedHelloLoss \in Nat /\ AllowedHelloLoss >= 1
      /\ PurgeDelay \in Nat /\ PurgeDelay >= 1 /\ ActiveRouteTimeout \in Nat
      /\ StartDelay \in Nat /\ StartDelay <= HelloInterval /\ MaxJitter \in Nat
  BY HelloAssumption
<1>2. \A h \in Nat : h >= 1 => \A k \in Int : /\ (k - 1) * h = k * h - h
                                              /\ k * h \in Int
                                              /\ k >= 1 => k * h >= h
  OBVIOUS
<1>3. \A a, h \in Nat : a * h \in Nat /\ a * h = (a - 0) * h
  OBVIOUS
<1> QED
  BY <1>1, <1>2, <1>3 DEF Lifetime

\* What a purge of list leaves of it: an entry that has not expired and is
\* not closed stays as it is.
LEMMA PurgeStep ==
    ASSUME NEW list, DOMAIN list \subseteq {Peer}, list \in [DOMAIN list -> N!Neighbor],
           NEW left \in N!Stopped .. PurgeDelay, N!Purge(list, left)
    PROVE  /\ DOMAIN nb' \subseteq {Peer} /\ nb' \in [DOMAIN nb' -> N!Neighbor]
           /\ timer' \in N!Stopped .. PurgeDelay /\ reported' \subseteq {Peer}
           /\ Peer \in DOMAIN nb' => Peer \in DOMAIN list /\ nb'[Peer] = list[Peer]
           /\ LinkOpen'
           /\ (Peer \in DOMAIN list /\ ~(list[Peer].expire < 0) /\ ~list[Peer].close)
                => Peer \in DOMAIN nb'
<1> DEFINE closed == { a \in DOMAIN list : N!CloseNeighbor(list[a]) }
<1>1. /\ nb' = [ a \in DOMAIN list \ closed |-> list[a] ] /\ reported' = closed
      /\ timer' = IF DOMAIN list = {} THEN left ELSE PurgeDelay
  BY DEF N!Purge, N!Restrict
<1>2. timer' \in N!Stopped .. PurgeDelay
  BY <1>1, HelloAssumption DEF N!Stopped
<1>3. \A a \in DOMAIN list : (a \notin closed) <=> ~(list[a].expire < 0 \/ list[a].close)
  BY DEF N!CloseNeighbor
<1>4. closed \subseteq DOMAIN list
  OBVIOUS
<1> HIDE DEF closed
<1>5. DOMAIN nb' = DOMAIN list \ closed
  BY <1>1
<1>6. /\ DOMAIN nb' \subseteq {Peer} /\ nb' \in [DOMAIN nb' -> N!Neighbor]
      /\ Peer \in DOMAIN nb' => Peer \in DOMAIN list /\ nb'[Peer] = list[Peer]
  BY <1>1, <1>4, <1>5
<1>7. LinkOpen'
  BY <1>1, <1>3, <1>5 DEF LinkOpen
<1>8. (Peer \in DOMAIN list /\ ~(list[Peer].expire < 0) /\ ~list[Peer].close)
        => Peer \in DOMAIN nb'
  BY <1>3, <1>5
<1> QED
  BY <1>1, <1>2, <1>4, <1>6, <1>7, <1>8

\* While broadcasts that count are still to come Peer's entry has not expired.
LEMMA NotExpired ==
    ASSUME IInv, heard, ~gone, unheard < AllowedHelloLoss
    PROVE  Peer \in DOMAIN nb /\ ~(nb[Peer].expire < 0)
<1> DEFINE k == AllowedHelloLoss - unheard
           h == HelloInterval
<1>1. Peer \in DOMAIN nb /\ nb[Peer].expire + quiet >= k * h
  BY DEF IInv, CreditCoversLoss
<1>2. nb[Peer].expire \in Int /\ quiet \in Nat /\ htimer \in Nat /\ unheard \in Nat
  BY <1>1, HelloAssumption DEF IInv, TypeOK, N!TypeOK, N!Neighbor, MaxCount
<1>3. k \in Int /\ k >= 1
  BY <1>2, HelloAssumption
<1>4. k * h \in Int /\ k * h >= h
  BY <1>3, Intervals
<1>5. quiet <= h /\ h \in Nat
  BY <1>2, HelloAssumption DEF IInv, TimerInTime
<1> HIDE DEF k, h
<1> QED
  BY <1>1, <1>2, <1>4, <1>5

LEMMA InitIInv == Init => IInv
<1> SUFFICES ASSUME Init PROVE IInv
  OBVIOUS
<1>1. DOMAIN nb = {} /\ nb = [ a \in {} |-> nb[a] ]
  BY DEF Init, N!Init, N!NoNeighbors
<1>2. N!TypeOK
  BY <1>1, HelloAssumption DEF Init, N!Init, N!TypeOK, N!Stopped, N!NoCredit
<1>3. TypeOK
  <2>1. htimer \in 0 .. HelloInterval /\ lastBcast \in None .. HelloInterval
        /\ quiet \in Nat /\ unheard \in 0 .. MaxCount
    BY HelloAssumption DEF Init, None, MaxCount
  <2> QED
    BY <1>2, <2>1 DEF Init, TypeOK
<1>4. TimerInTime
  BY HelloAssumption DEF Init, TimerInTime
<1> QED
  BY <1>1, <1>3, <1>4 DEF Init, IInv, CreditCoversLoss, LinkOpen

\* The list does not change and nothing is reported.
ListUnchanged == reported' = {} /\ UNCHANGED << nb, timer, arp, credit >>

LEMMA ListType ==
    ASSUME IInv, ListUnchanged
    PROVE  N!TypeOK' /\ LinkOpen'
BY DEF IInv, TypeOK, N!TypeOK, ListUnchanged, LinkOpen

\* What Peer does is not disturbed.
PeerUnchanged == UNCHANGED << htimer, lastBcast, gone, quiet >> /\ flying' \subseteq flying

LEMMA PeerType ==
    ASSUME IInv, PeerUnchanged, N!TypeOK', LinkOpen', CreditCoversLoss',
           unheard' \in 0 .. MaxCount, route' \in BOOLEAN, heard' \in BOOLEAN
    PROVE  IInv'
<1>1. TypeOK'
  BY DEF IInv, TypeOK, PeerUnchanged
<1>2. TimerInTime'
  BY DEF IInv, TimerInTime, PeerUnchanged
<1> QED
  BY <1>1, <1>2 DEF IInv

\* Peer broadcasts: a unit of credit is used up, and a HelloInterval begins.
LEMMA SendStep ==
    ASSUME IInv, NEW counts \in BOOLEAN, SendTo(counts), ListUnchanged, gone' = gone, ~gone,
           heard' = heard
    PROVE  /\ flying' \subseteq Broadcast /\ quiet' = 0 /\ unheard' \in 0 .. MaxCount
           /\ CreditCoversLoss'
<1>1. flying' \subseteq Broadcast
  BY DEF IInv, TypeOK, SendTo, Broadcast
<1>2. quiet' = 0 /\ unheard' = Count(unheard) /\ nb' = nb
  BY DEF SendTo, ListUnchanged
<1>3. unheard \in 0 .. MaxCount /\ MaxCount \in Nat /\ MaxCount = AllowedHelloLoss + 1
  BY HelloAssumption DEF IInv, TypeOK, MaxCount
<1>4. unheard' \in 0 .. MaxCount /\ (unheard < AllowedHelloLoss => unheard' = unheard + 1)
      /\ unheard' >= unheard
  BY <1>2, <1>3, HelloAssumption DEF Count
<1>5. ASSUME heard, unheard' < AllowedHelloLoss
      PROVE  Peer \in DOMAIN nb /\ nb[Peer].expire + quiet' >= (AllowedHelloLoss - unheard') * HelloInterval
  <2> DEFINE k == AllowedHelloLoss - unheard
             h == HelloInterval
  <2>1. unheard' = unheard + 1 /\ unheard < AllowedHelloLoss /\ k \in Int
        /\ AllowedHelloLoss - unheard' = k - 1
    <3>1. unheard \in Int /\ unheard' \in Int /\ AllowedHelloLoss \in Int
      BY <1>3, <1>4, HelloAssumption
    <3>2. unheard < AllowedHelloLoss
      BY <1>4, <1>5, <3>1
    <3>3. unheard' = unheard + 1
      BY <1>4, <3>2
    <3> QED
      BY <3>1, <3>2, <3>3
  <2>2. Peer \in DOMAIN nb /\ nb[Peer].expire + quiet >= k * h
    BY <1>5, <2>1 DEF IInv, CreditCoversLoss
  <2>3. nb[Peer].expire \in Int /\ quiet \in Nat /\ htimer \in Nat
    BY <2>2, HelloAssumption DEF IInv, TypeOK, N!TypeOK, N!Neighbor
  <2>4. quiet <= h /\ h \in Nat
    BY <2>3, HelloAssumption DEF IInv, TimerInTime
  <2>5. (k - 1) * h = k * h - h /\ k * h \in Int
    BY <2>1, Intervals
  <2> HIDE DEF k, h
  <2>6. nb[Peer].expire >= k * h - h
    BY <2>2, <2>3, <2>4, <2>5
  <2> QED
    BY <1>2, <2>1, <2>2, <2>3, <2>5, <2>6 DEF h
<1>6. CreditCoversLoss'
  BY <1>2, <1>5 DEF CreditCoversLoss
<1> QED
  BY <1>1, <1>2, <1>4, <1>6

LEMMA HelloTimerStep ==
    ASSUME IInv, HelloTimerExpire
    PROVE  IInv'
<1>1. /\ htimer = 0 /\ ~gone /\ gone' = gone /\ ListUnchanged
      /\ htimer' = NextHello /\ lastBcast' = None /\ route' = route /\ heard' = heard
  BY DEF HelloTimerExpire, ListUnchanged, listVars
<1>2. /\ lastBcast \in None .. HelloInterval /\ quiet \in Nat /\ HelloInterval \in Nat
      /\ quiet <= HelloInterval /\ (lastBcast # None => lastBcast = quiet)
  BY <1>1, HelloAssumption DEF IInv, TypeOK, TimerInTime
<1>3. htimer' \in 0 .. HelloInterval
  BY <1>1, <1>2 DEF NextHello, None
<1>4. CASE lastBcast # None /\ UNCHANGED << flying, quiet, unheard >>
  <2>1. quiet' + htimer' <= HelloInterval
    BY <1>1, <1>2, <1>4 DEF NextHello, None
  <2>2. CreditCoversLoss'
    BY <1>1, <1>4 DEF IInv, CreditCoversLoss, ListUnchanged
  <2> QED
    BY <1>1, <1>2, <1>3, <1>4, <2>1, <2>2, ListType DEF IInv, TypeOK, TimerInTime, None
<1>5. CASE lastBcast = None /\ SendTo(TRUE)
  <2>1. /\ flying' \subseteq Broadcast /\ quiet' = 0 /\ unheard' \in 0 .. MaxCount
        /\ CreditCoversLoss'
    BY <1>1, <1>5, SendStep
  <2>2. quiet' + htimer' <= HelloInterval
    <3>1. \A x \in 0 .. HelloInterval : 0 + x <= HelloInterval
      BY <1>2
    <3> QED
      BY <1>3, <2>1, <3>1
  <2> QED
    BY <1>1, <1>2, <1>3, <2>1, <2>2, ListType DEF IInv, TypeOK, TimerInTime, None
<1> QED
  BY <1>4, <1>5 DEF HelloTimerExpire

LEMMA BroadcastStep ==
    ASSUME IInv, NEW known \in BOOLEAN, BroadcastRequest(known)
    PROVE  IInv'
<1>1. /\ ~gone /\ gone' = gone /\ ListUnchanged /\ htimer' = htimer /\ lastBcast' = 0
      /\ SendTo(~known) /\ route' = route /\ heard' = heard
  BY DEF BroadcastRequest, ListUnchanged, listVars
<1>2. /\ flying' \subseteq Broadcast /\ quiet' = 0 /\ unheard' \in 0 .. MaxCount
      /\ CreditCoversLoss'
  BY <1>1, SendStep
<1>3. htimer \in 0 .. HelloInterval /\ HelloInterval \in Nat /\ 0 \in None .. HelloInterval
  BY HelloAssumption DEF IInv, TypeOK, None
<1>4. TimerInTime'
  BY <1>1, <1>2, <1>3 DEF TimerInTime
<1> QED
  BY <1>1, <1>2, <1>3, <1>4, ListType DEF IInv, TypeOK

\* An update puts Peer on the list, for at least its lifetime and for no less
\* than it had.
LEMMA UpdateStep ==
    ASSUME IInv, NEW lifetime \in Nat, N!Update(Peer, lifetime)
    PROVE  /\ N!TypeOK' /\ LinkOpen' /\ Peer \in DOMAIN nb'
           /\ nb'[Peer].expire \in Int /\ nb'[Peer].expire >= lifetime
           /\ Peer \in DOMAIN nb => nb'[Peer].expire >= nb[Peer].expire
<1>1. /\ DOMAIN nb \subseteq {Peer} /\ nb \in [DOMAIN nb -> N!Neighbor]
      /\ timer \in N!Stopped .. PurgeDelay /\ arp \in [{Peer} -> {PeerMac} \cup {NoMac}]
      /\ credit \in [{Peer} -> Int]
  BY DEF IInv, TypeOK, N!TypeOK
<1>2. arp' = arp /\ credit' \in [{Peer} -> Int]
  BY <1>1 DEF N!Update
<1>3. N!LookupMacAddress(Peer) \in {PeerMac} \cup {NoMac}
  BY <1>1 DEF N!LookupMacAddress
<1>4. CASE Peer \in DOMAIN nb
  <2> DEFINE n == N!Refreshed(nb[Peer], Peer, lifetime)
  <2>1. nb' = [nb EXCEPT ![Peer] = n] /\ reported' = {} /\ timer' = timer
    BY <1>4 DEF N!Update
  <2>2. nb[Peer] \in N!Neighbor /\ ~nb[Peer].close
    BY <1>1, <1>4 DEF IInv, LinkOpen
  <2>3. /\ n \in N!Neighbor /\ n.expire \in Int /\ n.expire >= lifetime
        /\ n.expire >= nb[Peer].expire /\ ~n.close
    <3> DEFINE x == IF lifetime > nb[Peer].expire THEN lifetime ELSE nb[Peer].expire
               m == IF nb[Peer].mac = NoMac THEN N!LookupMacAddress(Peer) ELSE nb[Peer].mac
    <3>1. n = [nb[Peer] EXCEPT !.expire = x, !.mac = m]
      BY DEF N!Refreshed
    <3>2. x \in Int /\ x >= lifetime /\ x >= nb[Peer].expire /\ m \in {PeerMac} \cup {NoMac}
      BY <1>3, <2>2 DEF N!Neighbor
    <3> HIDE DEF x, m, n
    <3>3. n \in N!Neighbor
      BY <2>2, <3>1, <3>2 DEF N!Neighbor
    <3>4. n.expire = x /\ n.close = nb[Peer].close
      BY <2>2, <3>1, <3>2 DEF N!Neighbor
    <3> QED
      BY <2>2, <3>2, <3>3, <3>4
  <2> HIDE DEF n
  <2>4. DOMAIN nb' = DOMAIN nb /\ nb'[Peer] = n /\ nb' \in [DOMAIN nb' -> N!Neighbor]
    BY <1>1, <1>4, <2>1, <2>3
  <2>5. N!TypeOK'
    BY <1>1, <1>2, <2>1, <2>4 DEF N!TypeOK
  <2> QED
    BY <1>4, <2>3, <2>4, <2>5 DEF LinkOpen
<1>5. CASE Peer \notin DOMAIN nb
  <2> DEFINE new == [expire |-> lifetime, mac |-> N!LookupMacAddress(Peer), close |-> FALSE]
             list == [ x \in DOMAIN nb \cup {Peer} |-> IF x = Peer THEN new ELSE nb[x] ]
  <2>1. N!Purge(list, timer)
    BY <1>5 DEF N!Update
  <2>2. new \in N!Neighbor /\ new.expire = lifetime /\ ~new.close /\ ~(new.expire < 0)
    BY <1>3 DEF N!Neighbor
  <2> HIDE DEF new
  <2>3. DOMAIN list = {Peer} /\ list \in [DOMAIN list -> N!Neighbor] /\ list[Peer] = new
    BY <1>1, <2>2
  <2> HIDE DEF list
  <2>4. /\ DOMAIN nb' \subseteq {Peer} /\ nb' \in [DOMAIN nb' -> N!Neighbor]
        /\ timer' \in N!Stopped .. PurgeDelay /\ reported' \subseteq {Peer}
        /\ Peer \in DOMAIN nb' => nb'[Peer] = new
        /\ LinkOpen'
        /\ Peer \in DOMAIN nb'
    BY <1>1, <2>1, <2>2, <2>3, PurgeStep
  <2>5. N!TypeOK'
    BY <1>1, <1>2, <2>4 DEF N!TypeOK
  <2> QED
    BY <1>5, <2>2, <2>4, <2>5
<1> QED
  BY <1>4, <1>5

LEMMA HearStep ==
    ASSUME IInv, NEW m, Hear(m)
    PROVE  IInv'
<1>1. PeerUnchanged /\ ~gone /\ route' = TRUE
  BY DEF Hear, PeerUnchanged
<1>2. CASE m.counts
  <2>1. N!Update(Peer, Lifetime) /\ unheard' = 0 /\ heard' = TRUE
    BY <1>2 DEF Hear
  <2>2. Lifetime \in Nat /\ Lifetime = (AllowedHelloLoss - 0) * HelloInterval
    BY Intervals
  <2> HIDE DEF Lifetime
  <2>3. /\ N!TypeOK' /\ LinkOpen' /\ Peer \in DOMAIN nb'
        /\ nb'[Peer].expire \in Int /\ nb'[Peer].expire >= Lifetime
    BY <2>1, <2>2, UpdateStep
  <2>4. nb'[Peer].expire + quiet' >= (AllowedHelloLoss - unheard') * HelloInterval
    <3>1. quiet' \in Nat
      BY <1>1 DEF IInv, TypeOK, PeerUnchanged
    <3>2. nb'[Peer].expire + quiet' >= Lifetime
      BY <2>2, <2>3, <3>1
    <3> QED
      BY <2>1, <2>2, <3>2
  <2>5. CreditCoversLoss'
    BY <2>3, <2>4 DEF CreditCoversLoss
  <2>6. 0 \in 0 .. MaxCount
    BY HelloAssumption DEF MaxCount
  <2> QED
    BY <1>1, <2>1, <2>3, <2>5, <2>6, PeerType
<1>3. CASE ~m.counts
  <2>1. ListUnchanged /\ unheard' = unheard /\ heard' = heard
    BY <1>3 DEF Hear, ListUnchanged, listVars
  <2>2. CreditCoversLoss'
    BY <1>1, <2>1 DEF IInv, CreditCoversLoss, ListUnchanged, PeerUnchanged
  <2>3. unheard' \in 0 .. MaxCount /\ heard' \in BOOLEAN
    BY <2>1 DEF IInv, TypeOK
  <2> QED
    BY <1>1, <2>1, <2>2, <2>3, ListType, PeerType
<1> QED
  BY <1>2, <1>3

\* Data renews the entry and never shortens it.
LEMMA UseRouteStep ==
    ASSUME IInv, UseRoute
    PROVE  IInv'
<1>1. /\ PeerUnchanged /\ N!Update(Peer, ActiveRouteTimeout)
      /\ route' = route /\ unheard' = unheard /\ heard' = heard
  BY DEF UseRoute, PeerUnchanged, peerVars
<1>2. /\ N!TypeOK' /\ LinkOpen' /\ Peer \in DOMAIN nb' /\ nb'[Peer].expire \in Int
      /\ Peer \in DOMAIN nb => nb'[Peer].expire >= nb[Peer].expire
  BY <1>1, Intervals, UpdateStep
<1>3. ASSUME heard, ~gone, unheard < AllowedHelloLoss
      PROVE  nb'[Peer].expire + quiet >= (AllowedHelloLoss - unheard) * HelloInterval
  <2> DEFINE p == (AllowedHelloLoss - unheard) * HelloInterval
  <2>1. Peer \in DOMAIN nb /\ nb[Peer].expire + quiet >= p
    BY <1>3 DEF IInv, CreditCoversLoss
  <2>2. nb[Peer].expire \in Int /\ quiet \in Nat
    BY <2>1 DEF IInv, TypeOK, N!TypeOK, N!Neighbor
  <2>3. p \in Int
    <3>1. AllowedHelloLoss - unheard \in Int /\ HelloInterval \in Nat
      BY HelloAssumption DEF IInv, TypeOK, MaxCount
    <3> QED
      BY <3>1
  <2> HIDE DEF p
  <2>4. nb'[Peer].expire + quiet >= p
    BY <1>2, <2>1, <2>2, <2>3
  <2> QED
    BY <2>4 DEF p
<1>4. CreditCoversLoss'
  BY <1>1, <1>2, <1>3 DEF CreditCoversLoss, PeerUnchanged
<1>5. unheard' \in 0 .. MaxCount /\ route' \in BOOLEAN /\ heard' \in BOOLEAN
  BY <1>1 DEF IInv, TypeOK
<1> QED
  BY <1>1, <1>2, <1>4, <1>5, PeerType

\* A purge leaves Peer on the list while broadcasts that count are to come, and
\* a transmission error that closes the link ends what was promised.
LEMMA PurgeTimerStep ==
    ASSUME IInv, PurgeTimerExpire
    PROVE  IInv'
<1>1. /\ N!Purge(nb, N!Stopped) /\ UNCHANGED << arp, credit, route, unheard, heard >>
      /\ PeerUnchanged
  BY DEF PurgeTimerExpire, N!TimerExpire, peerVars, PeerUnchanged
<1>2. /\ DOMAIN nb \subseteq {Peer} /\ nb \in [DOMAIN nb -> N!Neighbor]
      /\ N!Stopped \in N!Stopped .. PurgeDelay
  BY HelloAssumption DEF IInv, TypeOK, N!TypeOK, N!Stopped
<1>3. /\ DOMAIN nb' \subseteq {Peer} /\ nb' \in [DOMAIN nb' -> N!Neighbor]
      /\ timer' \in N!Stopped .. PurgeDelay /\ reported' \subseteq {Peer}
      /\ Peer \in DOMAIN nb' => Peer \in DOMAIN nb /\ nb'[Peer] = nb[Peer]
      /\ LinkOpen'
      /\ (Peer \in DOMAIN nb /\ ~(nb[Peer].expire < 0) /\ ~nb[Peer].close)
           => Peer \in DOMAIN nb'
  BY <1>1, <1>2, PurgeStep
<1>4. N!TypeOK'
  BY <1>1, <1>3 DEF IInv, TypeOK, N!TypeOK
<1>5. ASSUME heard, ~gone, unheard < AllowedHelloLoss
      PROVE  Peer \in DOMAIN nb' /\ nb'[Peer] = nb[Peer]
  BY <1>3, <1>5, NotExpired DEF IInv, LinkOpen
<1>6. CreditCoversLoss'
  BY <1>1, <1>5 DEF IInv, CreditCoversLoss, PeerUnchanged
<1>7. unheard' \in 0 .. MaxCount /\ route' \in BOOLEAN /\ heard' \in BOOLEAN
  BY <1>1 DEF IInv, TypeOK
<1> QED
  BY <1>1, <1>3, <1>4, <1>6, <1>7, PeerType

LEMMA TxErrorStep ==
    ASSUME IInv, NotifyTxError
    PROVE  IInv'
<1> DEFINE hit(a) == nb[a].mac = PeerMac
           marked(a) == [nb[a] EXCEPT !.close = nb[a].close \/ hit(a)]
           list == [a \in DOMAIN nb |-> marked(a)]
<1>1. /\ N!Purge(list, timer) /\ PeerUnchanged
      /\ UNCHANGED << arp, route, unheard >>
      /\ heard' = (heard /\ ~(Peer \in DOMAIN nb /\ hit(Peer)))
      /\ credit' = [a \in {Peer} |-> IF a \in DOMAIN nb /\ nb[a].mac = PeerMac
                                     THEN N!NoCredit ELSE credit[a]]
  BY DEF NotifyTxError, N!ProcessTxError, peerVars, PeerUnchanged
<1>2. /\ DOMAIN nb \subseteq {Peer} /\ nb \in [DOMAIN nb -> N!Neighbor]
      /\ timer \in N!Stopped .. PurgeDelay /\ credit \in [{Peer} -> Int]
  BY DEF IInv, TypeOK, N!TypeOK
<1>3. ASSUME NEW a \in DOMAIN nb
      PROVE  /\ marked(a) \in N!Neighbor /\ marked(a).expire = nb[a].expire
             /\ marked(a).close = (nb[a].close \/ hit(a))
  <2>1. nb[a] \in N!Neighbor /\ nb[a].close \in BOOLEAN /\ hit(a) \in BOOLEAN
    BY <1>2 DEF N!Neighbor
  <2> HIDE DEF hit
  <2> QED
    BY <2>1 DEF N!Neighbor
<1>4. credit' \in [{Peer} -> Int]
  BY <1>1, <1>2 DEF N!NoCredit
<1> HIDE DEF marked, hit
<1>5. /\ DOMAIN list = DOMAIN nb /\ list \in [DOMAIN list -> N!Neighbor]
      /\ \A a \in DOMAIN nb : list[a].expire = nb[a].expire /\ list[a].close = (nb[a].close \/ hit(a))
  BY <1>3
<1> HIDE DEF list
<1>6. /\ DOMAIN nb' \subseteq {Peer} /\ nb' \in [DOMAIN nb' -> N!Neighbor]
      /\ timer' \in N!Stopped .. PurgeDelay /\ reported' \subseteq {Peer}
      /\ Peer \in DOMAIN nb' => Peer \in DOMAIN list /\ nb'[Peer] = list[Peer]
      /\ LinkOpen'
      /\ (Peer \in DOMAIN list /\ ~(list[Peer].expire < 0) /\ ~list[Peer].close)
           => Peer \in DOMAIN nb'
  BY <1>1, <1>2, <1>5, PurgeStep
<1>7. N!TypeOK'
  BY <1>1, <1>4, <1>6 DEF IInv, TypeOK, N!TypeOK
<1>8. ASSUME heard', ~gone, unheard < AllowedHelloLoss
      PROVE  heard /\ Peer \in DOMAIN nb' /\ nb'[Peer].expire = nb[Peer].expire
  <2>1. heard /\ ~(Peer \in DOMAIN nb /\ hit(Peer))
    BY <1>1, <1>8
  <2>2. Peer \in DOMAIN nb /\ ~(nb[Peer].expire < 0) /\ ~nb[Peer].close
    BY <1>8, <2>1, NotExpired DEF IInv, LinkOpen
  <2> QED
    BY <1>5, <1>6, <2>1, <2>2
<1>9. CreditCoversLoss'
  BY <1>1, <1>8 DEF IInv, CreditCoversLoss, PeerUnchanged
<1>10. unheard' \in 0 .. MaxCount /\ route' \in BOOLEAN /\ heard' \in BOOLEAN
  <2>1. unheard' \in 0 .. MaxCount /\ route' \in BOOLEAN
    BY <1>1 DEF IInv, TypeOK
  <2>2. heard' \in BOOLEAN
    BY <1>1
  <2> QED
    BY <2>1, <2>2
<1> QED
  BY <1>1, <1>6, <1>7, <1>9, <1>10, PeerType

LEMMA InterfaceLostStep ==
    ASSUME IInv, InterfaceLost
    PROVE  IInv'
<1>1. /\ PeerUnchanged /\ route' = FALSE /\ heard' = FALSE /\ unheard' = unheard
      /\ nb' = N!NoNeighbors /\ reported' = {} /\ timer' = timer /\ arp' = arp
      /\ credit' = [a \in {Peer} |-> N!NoCredit]
  BY DEF InterfaceLost, N!Clear, peerVars, PeerUnchanged
<1>2. DOMAIN nb' = {} /\ nb' \in [DOMAIN nb' -> N!Neighbor]
  BY <1>1 DEF N!NoNeighbors
<1>3. N!TypeOK'
  BY <1>1, <1>2 DEF IInv, TypeOK, N!TypeOK, N!NoCredit
<1>4. LinkOpen' /\ CreditCoversLoss'
  BY <1>1, <1>2 DEF LinkOpen, CreditCoversLoss
<1>5. unheard' \in 0 .. MaxCount
  BY <1>1 DEF IInv, TypeOK
<1> QED
  BY <1>1, <1>3, <1>4, <1>5, PeerType

LEMMA TickStep ==
    ASSUME IInv, Tick
    PROVE  IInv'
<1>1. /\ DOMAIN nb \subseteq {Peer} /\ nb \in [DOMAIN nb -> N!Neighbor]
      /\ timer \in N!Stopped .. PurgeDelay /\ credit \in [{Peer} -> Int]
      /\ quiet \in Nat /\ htimer \in 0 .. HelloInterval /\ lastBcast \in None .. HelloInterval
      /\ flying \subseteq Broadcast /\ HelloInterval \in Nat /\ PurgeDelay \in Nat
  BY HelloAssumption DEF IInv, TypeOK, N!TypeOK
<1>2. /\ gone' = gone /\ unheard' = unheard /\ reported' = {} /\ arp' = arp
      /\ route' = route /\ heard' = heard
      /\ htimer' = (IF gone THEN htimer ELSE htimer - 1)
      /\ lastBcast' = (IF lastBcast = None \/ gone THEN lastBcast ELSE lastBcast + 1)
      /\ quiet' = (IF gone THEN quiet ELSE quiet + 1)
      /\ htimer > 0 \/ gone
  BY DEF Tick, N!Tick
<1> DEFINE past == N!LongPast
           left(a) == IF nb[a].expire > past THEN nb[a].expire - 1 ELSE nb[a].expire
           aged(a) == [nb[a] EXCEPT !.expire = left(a)]
<1>3. ASSUME NEW a \in DOMAIN nb
      PROVE  /\ aged(a) \in N!Neighbor /\ aged(a).close = nb[a].close
             /\ aged(a).expire \in Int /\ aged(a).expire >= nb[a].expire - 1
  <2>1. nb[a] \in N!Neighbor /\ past \in Int
    BY <1>1 DEF N!LongPast
  <2>2. left(a) \in Int /\ left(a) >= nb[a].expire - 1
    BY <2>1 DEF N!Neighbor
  <2> HIDE DEF left
  <2> QED
    BY <2>1, <2>2 DEF N!Neighbor
<1>4. nb' = [ a \in DOMAIN nb |-> aged(a) ]
  BY DEF Tick, N!Tick
<1> HIDE DEF aged
<1>5. /\ DOMAIN nb' = DOMAIN nb /\ nb' \in [DOMAIN nb' -> N!Neighbor]
      /\ \A a \in DOMAIN nb : /\ nb'[a].close = nb[a].close /\ nb'[a].expire \in Int
                              /\ nb'[a].expire >= nb[a].expire - 1
  BY <1>3, <1>4
<1>6. timer' \in N!Stopped .. PurgeDelay
  BY <1>1 DEF Tick, N!Tick, N!Stopped
<1>7. credit' \in [{Peer} -> Int]
  BY <1>1 DEF Tick, N!Tick, N!NoCredit
<1>8. N!TypeOK'
  BY <1>1, <1>2, <1>5, <1>6, <1>7 DEF IInv, TypeOK, N!TypeOK
<1>9. flying' \subseteq Broadcast
  <2>1. ASSUME NEW m \in flying PROVE [m EXCEPT !.delay = @ - 1] \in Broadcast
    <3>1. m \in Broadcast /\ m.delay > 0
      BY <1>1 DEF Tick
    <3>2. m.delay \in 0 .. MaxJitter /\ MaxJitter \in Nat
      BY <3>1, HelloAssumption DEF Broadcast
    <3>3. m.delay - 1 \in 0 .. MaxJitter
      BY <3>1, <3>2
    <3> QED
      BY <3>1, <3>3 DEF Broadcast
  <2> QED
    BY <2>1 DEF Tick
<1>10. quiet' + htimer' <= HelloInterval /\ (lastBcast' # None => lastBcast' = quiet')
  BY <1>1, <1>2 DEF IInv, TimerInTime, None
<1>11. htimer' \in 0 .. HelloInterval /\ quiet' \in Nat
  BY <1>1, <1>2
<1>12. lastBcast' \in None .. HelloInterval
  BY <1>1, <1>2, <1>10, <1>11 DEF None
<1>13. ASSUME heard, ~gone, unheard < AllowedHelloLoss
       PROVE  Peer \in DOMAIN nb' /\ nb'[Peer].expire + quiet' >= (AllowedHelloLoss - unheard) * HelloInterval
  <2> DEFINE p == (AllowedHelloLoss - unheard) * HelloInterval
  <2>1. Peer \in DOMAIN nb /\ nb[Peer].expire + quiet >= p
    BY <1>13 DEF IInv, CreditCoversLoss
  <2>2. nb[Peer].expire \in Int /\ nb'[Peer].expire \in Int /\ nb'[Peer].expire >= nb[Peer].expire - 1
    BY <1>1, <1>5, <2>1 DEF N!Neighbor
  <2>3. p \in Int
    <3>1. AllowedHelloLoss - unheard \in Int
      BY HelloAssumption DEF IInv, TypeOK, MaxCount
    <3> QED
      BY <3>1, <1>1
  <2> HIDE DEF p
  <2>4. nb'[Peer].expire + quiet' >= p
    BY <1>1, <1>2, <1>13, <2>1, <2>2, <2>3
  <2> QED
    BY <1>5, <2>1, <2>4 DEF p
<1>14. CreditCoversLoss'
  BY <1>2, <1>13 DEF CreditCoversLoss
<1>15. LinkOpen'
  BY <1>5 DEF IInv, LinkOpen
<1> QED
  BY <1>2, <1>8, <1>9, <1>10, <1>11, <1>12, <1>14, <1>15
     DEF IInv, TypeOK, TimerInTime

\* Neither the list nor Peer nor what was heard of it changes.
LEMMA Frame ==
    ASSUME IInv, ListUnchanged, PeerUnchanged, route' \in BOOLEAN, UNCHANGED << unheard, heard >>
    PROVE  IInv'
<1>1. CreditCoversLoss'
  BY DEF IInv, CreditCoversLoss, ListUnchanged, PeerUnchanged
<1>2. unheard' \in 0 .. MaxCount /\ heard' \in BOOLEAN
  BY DEF IInv, TypeOK
<1> QED
  BY <1>1, <1>2, ListType, PeerType

LEMMA NextIInv == IInv /\ [Next]_vars => IInv'
<1> SUFFICES ASSUME IInv, [Next]_vars PROVE IInv'
  OBVIOUS
<1>1. ASSUME NEW m, Lose(m) PROVE IInv'
  <2>1. ListUnchanged /\ PeerUnchanged /\ route' \in BOOLEAN /\ UNCHANGED << unheard, heard >>
    BY <1>1 DEF Lose, ListUnchanged, PeerUnchanged, listVars, IInv, TypeOK
  <2> QED
    BY <2>1, Frame
<1>2. CASE Vanish
  <2>1. /\ ListUnchanged /\ gone' = TRUE
        /\ UNCHANGED << htimer, lastBcast, flying, route, quiet, unheard, heard >>
    BY <1>2 DEF Vanish, ListUnchanged, listVars
  <2>2. CreditCoversLoss'
    BY <2>1 DEF CreditCoversLoss
  <2> QED
    BY <2>1, <2>2, ListType DEF IInv, TypeOK, TimerInTime
<1>3. ASSUME HearUnicast \/ RouteDeleted PROVE IInv'
  <2>1. ListUnchanged /\ PeerUnchanged /\ route' \in BOOLEAN /\ UNCHANGED << unheard, heard >>
    BY <1>3 DEF HearUnicast, RouteDeleted, ListUnchanged, PeerUnchanged, peerVars, listVars
  <2> QED
    BY <2>1, Frame
<1>4. CASE ArpChange
  <2>1. PICK mac \in {PeerMac, NoMac} : N!ArpChange(Peer, mac)
    BY <1>4 DEF ArpChange
  <2>2. /\ PeerUnchanged /\ UNCHANGED << nb, timer, credit, route, unheard, heard >>
        /\ reported' = {} /\ arp' = [arp EXCEPT ![Peer] = mac]
    BY <1>4, <2>1 DEF ArpChange, N!ArpChange, PeerUnchanged, peerVars
  <2>3. N!TypeOK' /\ LinkOpen' /\ CreditCoversLoss'
    <3>1. N!TypeOK'
      BY <2>2 DEF IInv, TypeOK, N!TypeOK
    <3> QED
      BY <2>2, <3>1 DEF IInv, LinkOpen, CreditCoversLoss, PeerUnchanged
  <2>4. unheard' \in 0 .. MaxCount /\ route' \in BOOLEAN /\ heard' \in BOOLEAN
    BY <2>2 DEF IInv, TypeOK
  <2> QED
    BY <2>2, <2>3, <2>4, PeerType
<1>5. CASE UNCHANGED vars
  BY <1>5 DEF vars, peerVars, listVars, IInv, TypeOK, N!TypeOK, TimerInTime, CreditCoversLoss,
              LinkOpen
<1> QED
  BY <1>1, <1>2, <1>3, <1>4, <1>5, HelloTimerStep, BroadcastStep, HearStep, UseRouteStep,
     TxErrorStep, InterfaceLostStep, PurgeTimerStep, TickStep
     DEF Next, Arrival

LEMMA SpecIInv == Spec => []IInv
  BY InitIInv, NextIInv, PTL DEF Spec

\* The timers stay within an interval and the list is a list of neighbours,
\* for every choice of the intervals.
THEOREM TypeCorrect == Spec => []TypeOK
<1>1. IInv => TypeOK
  BY DEF IInv
<1> QED
  BY <1>1, SpecIInv, PTL

\* A node in range is never silent for longer than a HelloInterval.
THEOREM HellosRegular == Spec => []NeverSilent
<1>1. ASSUME IInv PROVE NeverSilent
  <2>1. quiet \in Nat /\ htimer \in 0 .. HelloInterval /\ HelloInterval \in Nat
        /\ quiet + htimer <= HelloInterval
    BY <1>1, HelloAssumption DEF IInv, TypeOK, TimerInTime
  <2> QED
    BY <2>1 DEF NeverSilent
<1> QED
  BY <1>1, SpecIInv, PTL

\* A peer that was heard is on the list until AllowedHelloLoss of its
\* broadcasts in a row went unheard, whatever the intervals, and however data
\* renews its entry in between.
THEOREM LinkKept == Spec => []LinkKeptWhileHeard
<1>1. IInv => LinkKeptWhileHeard
  BY DEF IInv, CreditCoversLoss, LinkKeptWhileHeard
<1> QED
  BY <1>1, SpecIInv, PTL
=============================================================================
