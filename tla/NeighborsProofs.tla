-------------------------- MODULE NeighborsProofs ---------------------------
(***************************************************************************)
(* Proofs about the neighbour list, for every set of addresses, MAC        *)
(* addresses and lifetimes and every HelloInterval.                        *)
(***************************************************************************)
EXTENDS Neighbors, TLAPS

\* list is a neighbour list.
IsList(list) == DOMAIN list \subseteq Addr /\ list \in [DOMAIN list -> Neighbor]

\* The five invariants together are inductive: the timer rule bounds how far
\* an entry can be past its time, and an entry that is owed credit must be
\* neither closed nor expired for a purge to keep it.
IInv ==
    /\ TypeOK
    /\ TimerCoversList
    /\ FailureDetectedInTime
    /\ CreditHonoured
    /\ NoClosedLinkKept

\* What a purge of list leaves behind.
LEMMA PurgeStep ==
    ASSUME NEW list, IsList(list), NEW left, Purge(list, left)
    PROVE  /\ IsList(nb') /\ reported' \subseteq Addr
           /\ DOMAIN nb' \subseteq DOMAIN list
           /\ \A a \in DOMAIN nb' : /\ nb'[a] = list[a]
                                    /\ nb'[a].expire >= 0
                                    /\ ~nb'[a].close
           /\ \A a \in DOMAIN list : list[a].expire >= 0 /\ ~list[a].close
                                       => a \in DOMAIN nb'
           /\ timer' = IF DOMAIN list = {} THEN left ELSE HelloInterval
<1> DEFINE kept == DOMAIN list \ { a \in DOMAIN list : CloseNeighbor(list[a]) }
<1>1. nb' = [a \in kept |-> list[a]]
  BY DEF Purge, Restrict
<1>2. \A a \in DOMAIN list : list[a] \in Neighbor
  BY DEF IsList
<1>3. \A a \in DOMAIN list :
        a \in kept <=> list[a].expire >= 0 /\ ~list[a].close
  BY <1>2 DEF CloseNeighbor, Neighbor
<1>4. IsList(nb') /\ DOMAIN nb' = kept
  BY <1>1, <1>2 DEF IsList
<1>5. reported' \subseteq Addr
  BY DEF Purge, IsList
<1> HIDE DEF kept
<1>6. kept \subseteq DOMAIN list
  BY DEF kept
<1>7. timer' = IF DOMAIN list = {} THEN left ELSE HelloInterval
  BY DEF Purge
<1> QED
  BY <1>1, <1>3, <1>4, <1>5, <1>6, <1>7

\* A purge establishes everything but the credit rule.
LEMMA PurgeInv ==
    ASSUME NEW list, IsList(list), NEW left \in Stopped .. HelloInterval,
           Purge(list, left)
    PROVE  /\ IsList(nb') /\ reported' \subseteq Addr
           /\ timer' \in Stopped .. HelloInterval
           /\ TimerCoversList' /\ FailureDetectedInTime' /\ NoClosedLinkKept'
<1>1. HelloInterval \in Stopped .. HelloInterval /\ HelloInterval # Stopped
  BY HelloIntervalAssumption DEF Stopped
<1>2. timer' \in Stopped .. HelloInterval
  BY <1>1, PurgeStep
<1>3. TimerCoversList'
  BY <1>1, PurgeStep DEF TimerCoversList
<1>4. FailureDetectedInTime'
  <2> SUFFICES ASSUME NEW a \in DOMAIN nb'
               PROVE  nb'[a].expire >= timer' - HelloInterval
    BY DEF FailureDetectedInTime
  <2>1. nb'[a].expire \in Int /\ nb'[a].expire >= 0
    BY PurgeStep DEF IsList, Neighbor
  <2> QED
    BY <1>2, <2>1, HelloIntervalAssumption DEF Stopped
<1>5. NoClosedLinkKept'
  BY PurgeStep DEF NoClosedLinkKept
<1> QED
  BY <1>2, <1>3, <1>4, <1>5, PurgeStep

LEMMA InitIInv == Init => IInv
<1> SUFFICES ASSUME Init PROVE IInv
  OBVIOUS
<1>1. DOMAIN nb = {} /\ nb = [a \in {} |-> nb[a]]
  BY DEF Init, NoNeighbors
<1>2. TypeOK
  BY <1>1, HelloIntervalAssumption DEF Init, TypeOK, Stopped, NoCredit
<1> QED
  BY <1>1, <1>2 DEF IInv, TimerCoversList, FailureDetectedInTime,
                    CreditHonoured, NoClosedLinkKept, Init, NoCredit

LEMMA LookupIInv == IInv /\ Purge(nb, timer) /\ UNCHANGED << arp, credit >> => IInv'
<1> SUFFICES ASSUME IInv, Purge(nb, timer), UNCHANGED << arp, credit >> PROVE IInv'
  OBVIOUS
<1>1. IsList(nb) /\ timer \in Stopped .. HelloInterval
  BY DEF IInv, TypeOK, IsList
<1>2. TypeOK'
  BY <1>1, PurgeInv DEF IInv, TypeOK, IsList
<1>3. CreditHonoured'
  <2> SUFFICES ASSUME NEW a \in Addr, credit[a] >= 0
               PROVE  a \in DOMAIN nb' /\ ~nb'[a].close /\ nb'[a].expire >= credit[a]
    BY DEF CreditHonoured
  <2>1. a \in DOMAIN nb /\ ~nb[a].close /\ nb[a].expire >= credit[a]
    BY DEF IInv, CreditHonoured
  <2>2. credit[a] \in Int /\ nb[a].expire \in Int
    BY <2>1, <1>1 DEF IInv, TypeOK, IsList, Neighbor
  <2>3. nb[a].expire >= 0
    BY <2>1, <2>2
  <2> QED
    BY <1>1, <2>1, <2>3, PurgeStep
<1> QED
  BY <1>1, <1>2, <1>3, PurgeInv DEF IInv

LEMMA TimerIInv == IInv /\ TimerExpire => IInv'
<1> SUFFICES ASSUME IInv, TimerExpire PROVE IInv'
  OBVIOUS
<1>1. IsList(nb) /\ Stopped \in Stopped .. HelloInterval /\ Purge(nb, Stopped)
  BY HelloIntervalAssumption DEF IInv, TypeOK, IsList, TimerExpire, Stopped
<1>2. TypeOK'
  BY <1>1, PurgeInv DEF IInv, TypeOK, IsList, TimerExpire
<1>3. CreditHonoured'
  <2> SUFFICES ASSUME NEW a \in Addr, credit[a] >= 0
               PROVE  a \in DOMAIN nb' /\ ~nb'[a].close /\ nb'[a].expire >= credit[a]
    BY DEF CreditHonoured, TimerExpire
  <2>1. a \in DOMAIN nb /\ ~nb[a].close /\ nb[a].expire >= credit[a]
    BY DEF IInv, CreditHonoured
  <2>2. credit[a] \in Int /\ nb[a].expire \in Int
    BY <2>1, <1>1 DEF IInv, TypeOK, IsList, Neighbor
  <2>3. nb[a].expire >= 0
    BY <2>1, <2>2
  <2> QED
    BY <1>1, <2>1, <2>3, PurgeStep
<1> QED
  BY <1>1, <1>2, <1>3, PurgeInv DEF IInv

LEMMA UpdateIInv ==
    ASSUME IInv, NEW a \in Addr, NEW lifetime \in Lifetimes, Update(a, lifetime)
    PROVE  IInv'
<1>1. lifetime \in Nat /\ IsList(nb) /\ timer \in Stopped .. HelloInterval
      /\ arp[a] \in Mac \cup {NoMac}
  BY NbLifetimesAssumption DEF IInv, TypeOK, IsList
<1>2. /\ credit' \in [Addr -> Int] /\ arp' = arp
      /\ \A b \in Addr : credit[b] \in Int
      /\ \A b \in Addr \ {a} : credit'[b] = credit[b]
      /\ credit'[a] = IF lifetime > credit[a] THEN lifetime ELSE credit[a]
  BY <1>1 DEF Update, IInv, TypeOK
<1>3. \A b \in DOMAIN nb : nb[b] \in Neighbor /\ nb[b].expire \in Int /\ b \in Addr
  BY <1>1 DEF IsList, Neighbor
<1>4. CASE a \in DOMAIN nb
  <2> DEFINE n == Refreshed(nb[a], a, lifetime)
  <2>1. /\ nb' = [nb EXCEPT ![a] = n]
        /\ reported' = {} /\ timer' = timer
    BY <1>4 DEF Update
  <2>2. /\ n \in Neighbor /\ n.close = nb[a].close
        /\ n.expire = IF lifetime > nb[a].expire THEN lifetime ELSE nb[a].expire
    <3> DEFINE x == IF lifetime > nb[a].expire THEN lifetime ELSE nb[a].expire
               m == IF nb[a].mac = NoMac THEN arp[a] ELSE nb[a].mac
    <3>1. n = [nb[a] EXCEPT !.expire = x, !.mac = m]
      BY DEF Refreshed, LookupMacAddress
    <3>2. x \in Int /\ m \in Mac \cup {NoMac} /\ nb[a] \in Neighbor
      BY <1>1, <1>3, <1>4 DEF Neighbor
    <3> HIDE DEF x, m, n
    <3>3. n \in Neighbor
      BY <3>1, <3>2 DEF Neighbor
    <3>4. n.expire = x /\ n.close = nb[a].close
      BY <3>1, <3>2 DEF Neighbor
    <3> QED
      BY <3>3, <3>4 DEF x
  <2> HIDE DEF n
  <2>3. /\ DOMAIN nb' = DOMAIN nb /\ nb'[a] = n
        /\ \A b \in DOMAIN nb \ {a} : nb'[b] = nb[b]
    BY <1>1, <1>4, <2>1 DEF IsList
  <2>4. TypeOK'
    BY <1>1, <1>2, <2>1, <2>2 DEF TypeOK, IsList, IInv
  <2>5. TimerCoversList'
    BY <2>1, <2>3 DEF IInv, TimerCoversList
  <2>6. FailureDetectedInTime'
    BY <1>1, <1>3, <1>4, <2>1, <2>2, <2>3, HelloIntervalAssumption
    DEF IInv, FailureDetectedInTime, Stopped
  <2>7. NoClosedLinkKept'
    BY <1>4, <2>2, <2>3 DEF IInv, NoClosedLinkKept
  <2>8. CreditHonoured'
    <3> SUFFICES ASSUME NEW b \in Addr, credit'[b] >= 0
                 PROVE  b \in DOMAIN nb' /\ ~nb'[b].close /\ nb'[b].expire >= credit'[b]
      BY DEF CreditHonoured
    <3>1. CASE b = a
      BY <1>1, <1>2, <1>3, <1>4, <2>2, <2>3, <3>1
      DEF IInv, CreditHonoured, NoClosedLinkKept
    <3>2. CASE b # a
      BY <1>2, <2>3, <3>2 DEF IInv, CreditHonoured
    <3> QED
      BY <3>1, <3>2
  <2> QED
    BY <2>4, <2>5, <2>6, <2>7, <2>8 DEF IInv
<1>5. CASE a \notin DOMAIN nb
  <2> DEFINE new == [expire |-> lifetime, mac |-> arp[a], close |-> FALSE]
             list == [x \in DOMAIN nb \cup {a} |-> IF x = a THEN new ELSE nb[x]]
  <2>1. Purge(list, timer)
    BY <1>5 DEF Update, LookupMacAddress
  <2>2. IsList(list)
    BY <1>1, <1>3 DEF IsList, Neighbor
  <2>3. /\ list[a].expire = lifetime /\ ~list[a].close /\ a \in DOMAIN list
        /\ \A b \in DOMAIN nb : list[b] = nb[b] /\ b \in DOMAIN list
    BY <1>5
  <2> HIDE DEF list
  <2>4. TypeOK'
    BY <1>1, <1>2, <2>1, <2>2, PurgeInv DEF TypeOK, IInv, IsList
  <2>5. CreditHonoured'
    <3> SUFFICES ASSUME NEW b \in Addr, credit'[b] >= 0
                 PROVE  b \in DOMAIN nb' /\ ~nb'[b].close /\ nb'[b].expire >= credit'[b]
      BY DEF CreditHonoured
    <3>1. /\ b \in DOMAIN list /\ ~list[b].close /\ list[b].expire \in Int
          /\ list[b].expire >= credit'[b]
      <4>1. CASE b = a
        <5>1. ~(credit[a] >= 0)
          BY <1>5 DEF IInv, CreditHonoured
        <5> QED
          BY <1>1, <1>2, <2>3, <4>1, <5>1
      <4>2. CASE b # a
        BY <1>2, <1>3, <2>3, <4>2 DEF IInv, CreditHonoured
      <4> QED
        BY <4>1, <4>2
    <3>2. credit'[b] \in Int
      BY <1>2
    <3>3. list[b].expire >= 0
      BY <3>1, <3>2
    <3> QED
      BY <2>1, <2>2, <3>1, <3>3, PurgeStep
  <2> QED
    BY <1>1, <2>1, <2>2, <2>4, <2>5, PurgeInv DEF IInv
<1> QED
  BY <1>4, <1>5

LEMMA TxErrorIInv ==
    ASSUME IInv, NEW mac \in Mac, ProcessTxError(mac)
    PROVE  IInv'
<1> DEFINE list == [b \in DOMAIN nb |-> [nb[b] EXCEPT !.close = @ \/ nb[b].mac = mac]]
<1>1. IsList(nb) /\ timer \in Stopped .. HelloInterval
  BY DEF IInv, TypeOK, IsList
<1>2. \A b \in DOMAIN nb : nb[b] \in Neighbor /\ b \in Addr
  BY <1>1 DEF IsList
<1>3. ASSUME NEW b \in DOMAIN nb
      PROVE  /\ list[b] \in Neighbor
             /\ list[b].expire = nb[b].expire
             /\ list[b].close = (nb[b].close \/ nb[b].mac = mac)
  <2>1. nb[b] \in Neighbor
    BY <1>2, <1>3
  <2> DEFINE c == nb[b].close \/ nb[b].mac = mac
  <2>2. list[b] = [nb[b] EXCEPT !.close = c] /\ c \in BOOLEAN
    BY <1>3
  <2> HIDE DEF c
  <2>3. list[b] \in Neighbor /\ list[b].expire = nb[b].expire /\ list[b].close = c
    BY <2>1, <2>2 DEF Neighbor
  <2> QED
    BY <2>3 DEF c
<1>4. DOMAIN list = DOMAIN nb /\ list = [b \in DOMAIN nb |-> list[b]]
  OBVIOUS
<1> HIDE DEF list
<1>5. IsList(list)
  BY <1>1, <1>3, <1>4 DEF IsList
<1>6. Purge(list, timer) /\ arp' = arp
  BY DEF ProcessTxError, list
<1>7. \A b \in Addr : credit'[b] = IF b \in DOMAIN nb /\ nb[b].mac = mac
                                   THEN NoCredit ELSE credit[b]
  BY DEF ProcessTxError
<1>8. TypeOK'
  BY <1>1, <1>5, <1>6, PurgeInv DEF ProcessTxError, TypeOK, IInv, IsList, NoCredit
<1>9. CreditHonoured'
  <2> SUFFICES ASSUME NEW b \in Addr, credit'[b] >= 0
               PROVE  b \in DOMAIN nb' /\ ~nb'[b].close /\ nb'[b].expire >= credit'[b]
    BY DEF CreditHonoured
  <2>1. credit'[b] = credit[b] /\ ~(b \in DOMAIN nb /\ nb[b].mac = mac)
    BY <1>7 DEF NoCredit
  <2>2. b \in DOMAIN nb /\ ~nb[b].close /\ nb[b].expire >= credit[b]
    BY <2>1 DEF IInv, CreditHonoured
  <2>3. credit[b] \in Int /\ nb[b].expire \in Int
    BY <1>2, <2>2 DEF IInv, TypeOK, Neighbor
  <2>4. ~list[b].close /\ list[b].expire >= 0
    <3>1. list[b].expire = nb[b].expire
      BY <1>3, <2>2
    <3>2. list[b].expire >= 0
      BY <2>1, <2>2, <2>3, <3>1
    <3>3. ~list[b].close
      BY <1>3, <2>1, <2>2, Zenon
    <3> QED
      BY <3>2, <3>3
  <2>5. b \in DOMAIN nb' /\ nb'[b] = list[b] /\ ~nb'[b].close
    BY <1>4, <1>5, <1>6, <2>2, <2>4, PurgeStep
  <2> QED
    BY <1>3, <2>1, <2>2, <2>5
<1> QED
  BY <1>1, <1>5, <1>6, <1>8, <1>9, PurgeInv DEF IInv

LEMMA TickIInv == IInv /\ Tick => IInv'
<1> SUFFICES ASSUME IInv, Tick PROVE IInv'
  OBVIOUS
<1>1. timer \in Stopped .. HelloInterval /\ timer # 0
      /\ timer' = IF timer = Stopped THEN Stopped ELSE timer - 1
  BY DEF IInv, TypeOK, Tick
<1>2. \A a \in DOMAIN nb : nb[a] \in Neighbor /\ nb[a].expire \in Int /\ a \in Addr
  BY DEF IInv, TypeOK, Neighbor
<1>3. DOMAIN nb' = DOMAIN nb /\ nb' = [a \in DOMAIN nb |-> nb'[a]]
  BY DEF Tick
<1>4. \A a \in DOMAIN nb : /\ nb'[a] \in Neighbor
                           /\ nb'[a].expire \in Int
                           /\ nb'[a].expire >= nb[a].expire - 1
                           /\ nb'[a].close = nb[a].close
  BY <1>2, HelloIntervalAssumption DEF Tick, Neighbor, LongPast
<1>5. \A a \in Addr : /\ credit[a] \in Int
                      /\ credit'[a] = IF credit[a] < 0 THEN NoCredit ELSE credit[a] - 1
  BY DEF IInv, TypeOK, Tick
<1>6. TypeOK'
  <2>1. timer' \in Stopped .. HelloInterval
    BY <1>1, HelloIntervalAssumption DEF Stopped
  <2>2. nb' \in [DOMAIN nb' -> Neighbor] /\ DOMAIN nb' \subseteq Addr
    BY <1>2, <1>3, <1>4
  <2>3. credit' \in [Addr -> Int]
    BY <1>5 DEF Tick, NoCredit
  <2> QED
    BY <2>1, <2>2, <2>3 DEF IInv, TypeOK, Tick
<1>7. TimerCoversList'
  BY <1>1, <1>3, HelloIntervalAssumption DEF IInv, TimerCoversList, Stopped
<1>8. FailureDetectedInTime'
  BY <1>1, <1>2, <1>3, <1>4, HelloIntervalAssumption
  DEF IInv, FailureDetectedInTime, Stopped
<1>9. CreditHonoured'
  BY <1>2, <1>3, <1>4, <1>5 DEF IInv, CreditHonoured, NoCredit
<1>10. NoClosedLinkKept'
  BY <1>3, <1>4 DEF IInv, NoClosedLinkKept
<1> QED
  BY <1>6, <1>7, <1>8, <1>9, <1>10 DEF IInv

LEMMA NextIInv == IInv /\ [Next]_vars => IInv'
<1> SUFFICES ASSUME IInv, [Next]_vars PROVE IInv'
  OBVIOUS
<1>1. CASE Lookup
  BY <1>1, LookupIInv DEF Lookup
<1>2. CASE \E a \in Addr, lifetime \in Lifetimes : Update(a, lifetime)
  BY <1>2, UpdateIInv
<1>3. CASE \E mac \in Mac : ProcessTxError(mac)
  BY <1>3, TxErrorIInv
<1>4. CASE TimerExpire
  BY <1>4, TimerIInv
<1>5. CASE Clear
  <2>1. DOMAIN nb' = {} /\ nb' = [a \in {} |-> nb'[a]]
    BY <1>5 DEF Clear, NoNeighbors
  <2>2. TypeOK'
    BY <1>5, <2>1 DEF IInv, TypeOK, Clear, NoCredit
  <2>3. \A a \in Addr : ~(credit'[a] >= 0)
    BY <1>5 DEF Clear, NoCredit
  <2> QED
    BY <2>1, <2>2, <2>3 DEF IInv, TimerCoversList, FailureDetectedInTime,
                            CreditHonoured, NoClosedLinkKept
<1>6. CASE \E a \in Addr, mac \in Mac \cup {NoMac} : ArpChange(a, mac)
  BY <1>6 DEF ArpChange, IInv, TypeOK, TimerCoversList, FailureDetectedInTime,
              CreditHonoured, NoClosedLinkKept
<1>7. CASE Tick
  BY <1>7, TickIInv
<1>8. CASE UNCHANGED vars
  BY <1>8 DEF vars, IInv, TypeOK, TimerCoversList, FailureDetectedInTime,
              CreditHonoured, NoClosedLinkKept
<1> QED
  BY <1>1, <1>2, <1>3, <1>4, <1>5, <1>6, <1>7, <1>8 DEF Next

LEMMA SpecIInv == Spec => []IInv
  BY InitIInv, NextIInv, PTL DEF Spec

\* Whatever the calls, the list maps addresses to neighbours and the purge
\* timer is set for at most a HelloInterval.
THEOREM TypeCorrect == Spec => []TypeOK
<1>1. IInv => TypeOK
  BY DEF IInv
<1> QED
  BY <1>1, SpecIInv, PTL

\* ProcessTxError leaves no closed link in the list, and no other call
\* brings one in.
THEOREM ClosedLinksPurged == Spec => []NoClosedLinkKept
<1>1. IInv => NoClosedLinkKept
  BY DEF IInv
<1> QED
  BY <1>1, SpecIInv, PTL

\* The purge timer runs whenever there is a neighbour to watch.
THEOREM TimerNeverMissing == Spec => []TimerCoversList
<1>1. IInv => TimerCoversList
  BY DEF IInv
<1> QED
  BY <1>1, SpecIInv, PTL

\* A neighbour is dropped at the latest one HelloInterval after its time.
THEOREM DeadNeighborDropped == Spec => []FailureDetectedInTime
<1>1. IInv => FailureDetectedInTime
  BY DEF IInv
<1> QED
  BY <1>1, SpecIInv, PTL

\* A neighbour is never dropped before its time, except on a transmission
\* error for its MAC address or by Clear.
THEOREM LiveNeighborKept == Spec => []CreditHonoured
<1>1. IInv => CreditHonoured
  BY DEF IInv
<1> QED
  BY <1>1, SpecIInv, PTL

\* No neighbour disappears without the link-failure callback, except by Clear.
THEOREM EveryLossReported == Spec => LossReported
<1>1. ASSUME IInv, [Next]_vars
      PROVE  [Clear \/ DOMAIN nb \ DOMAIN nb' \subseteq reported']_vars
  <2> SUFFICES ASSUME Next, ~Clear
               PROVE  DOMAIN nb \ DOMAIN nb' \subseteq reported'
    BY <1>1
  <2>1. ASSUME NEW list, NEW left, Purge(list, left), DOMAIN nb \subseteq DOMAIN list
        PROVE  DOMAIN nb \ DOMAIN nb' \subseteq reported'
    BY <2>1 DEF Purge, Restrict
  <2>2. CASE Lookup
    BY <2>1, <2>2 DEF Lookup
  <2>3. ASSUME NEW a \in Addr, NEW lifetime \in Lifetimes, Update(a, lifetime)
        PROVE  DOMAIN nb \ DOMAIN nb' \subseteq reported'
    <3>1. CASE a \in DOMAIN nb
      BY <1>1, <2>3, <3>1 DEF Update, IInv, TypeOK
    <3>2. CASE a \notin DOMAIN nb
      <4> DEFINE new == [expire |-> lifetime, mac |-> LookupMacAddress(a), close |-> FALSE]
                 list == [x \in DOMAIN nb \cup {a} |-> IF x = a THEN new ELSE nb[x]]
      <4>1. Purge(list, timer) /\ DOMAIN nb \subseteq DOMAIN list
        BY <2>3, <3>2 DEF Update
      <4> QED
        BY <2>1, <4>1
    <3> QED
      BY <3>1, <3>2
  <2>4. ASSUME NEW mac \in Mac, ProcessTxError(mac)
        PROVE  DOMAIN nb \ DOMAIN nb' \subseteq reported'
    <3> DEFINE list == [a \in DOMAIN nb |-> [nb[a] EXCEPT !.close = @ \/ nb[a].mac = mac]]
    <3>1. Purge(list, timer) /\ DOMAIN nb \subseteq DOMAIN list
      BY <2>4 DEF ProcessTxError
    <3> QED
      BY <2>1, <3>1
  <2>5. CASE TimerExpire
    BY <2>1, <2>5 DEF TimerExpire
  <2>6. CASE \E a \in Addr, mac \in Mac \cup {NoMac} : ArpChange(a, mac)
    BY <2>6 DEF ArpChange
  <2>7. CASE Tick
    BY <2>7 DEF Tick
  <2> QED
    BY <2>2, <2>3, <2>4, <2>5, <2>6, <2>7 DEF Next
<1> QED
  BY <1>1, SpecIInv, PTL DEF Spec, LossReported
=============================================================================
