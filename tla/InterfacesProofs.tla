--------------------------- MODULE InterfacesProofs ---------------------------
(***************************************************************************)
(* Proofs about a node whose interfaces and addresses come and go, for any *)
(* devices, addresses, subnets and packets.                                *)
(***************************************************************************)
EXTENDS Interfaces, SelectionProofs, TLAPS

-----------------------------------------------------------------------------
(* Sockets *)

\* Membership in a bag to which s is added, or from which it is taken.
LEMMA BagAdd ==
    ASSUME NEW b, IsABag(b), NEW s
    PROVE  LET c == b (+) SetToBag({s})
           IN  IsABag(c) /\ DOMAIN c = DOMAIN b \cup {s}
<1> DEFINE c == b (+) SetToBag({s})
           v == [ e \in DOMAIN b \cup {s} |->
                    (IF e \in DOMAIN b THEN b[e] ELSE 0) + (IF e \in {s} THEN 1 ELSE 0) ]
<1>1. c = v
  BY DEF (+), SetToBag
<1>2. \A e \in DOMAIN b : b[e] \in Nat /\ b[e] > 0
  BY DEF IsABag
<1>3. \A e \in DOMAIN v : v[e] \in { n \in Nat : n > 0 }
  BY <1>2
<1>4. v \in [DOMAIN v -> { n \in Nat : n > 0 }]
  BY <1>3
<1> QED
  BY <1>1, <1>4 DEF IsABag

LEMMA BagRemove ==
    ASSUME NEW b, IsABag(b), NEW s
    PROVE  LET c == b (-) SetToBag({s})
           IN  IsABag(c) /\ DOMAIN b \ {s} \subseteq DOMAIN c /\ DOMAIN c \subseteq DOMAIN b
<1> DEFINE c == b (-) SetToBag({s})
           v == [ e \in DOMAIN b |-> IF e \in {s} THEN b[e] - 1 ELSE b[e] ]
           D == { d \in DOMAIN v : v[d] > 0 }
           w == [ e \in D |-> v[e] ]
<1>1. c = w
  BY DEF (-), SetToBag
<1>2. \A e \in DOMAIN b : b[e] \in Nat /\ b[e] > 0
  BY DEF IsABag
<1>3. \A e \in D : w[e] \in { n \in Nat : n > 0 }
  BY <1>2
<1>4. w \in [DOMAIN w -> { n \in Nat : n > 0 }]
  BY <1>3
<1>5. DOMAIN b \ {s} \subseteq D /\ D \subseteq DOMAIN b /\ DOMAIN w = D
  BY <1>2
<1> QED
  BY <1>1, <1>4, <1>5 DEF IsABag

LEMMA SetAdd ==
    ASSUME NEW X, NEW s, s \notin X
    PROVE  SetToBag(X) (+) SetToBag({s}) = SetToBag(X \cup {s})
  BY DEF (+), SetToBag

LEMMA SetRemove ==
    ASSUME NEW X, NEW s, s \in X
    PROVE  SetToBag(X) (-) SetToBag({s}) = SetToBag(X \ {s})
<1> DEFINE v == [ e \in X |-> IF e \in {s} THEN 0 ELSE 1 ]
           D == { d \in X : v[d] > 0 }
<1>1. SetToBag(X) (-) SetToBag({s}) = [ e \in D |-> v[e] ]
  BY DEF (-), SetToBag
<1>2. D = X \ {s}
  OBVIOUS
<1> QED
  BY <1>1, <1>2 DEF SetToBag

LEMMA EmptySet ==
    ASSUME NEW X
    PROVE  SetToBag(X) = EmptyBag <=> X = {}
<1>1. DOMAIN SetToBag(X) = X /\ DOMAIN EmptyBag = {}
  BY DEF SetToBag, EmptyBag
<1> QED
  BY <1>1 DEF EmptyBag

\* P are the addresses that take part, at most one of a device.
Apart(P) ==
    P \subseteq OwnAddress /\ \A a, b \in P : DeviceOf[a] = DeviceOf[b] => a = b

Bound(P) == { Socket(a, TRUE) : a \in P }

\* The socket maps u and b serve the addresses P.
Listening(P, u, b) ==
    /\ u = SetToBag(Bound(P)) /\ IsSocketMap(b)
    /\ \A a \in P : /\ \E s \in BagToSet(b) : s.bound /\ BroadcastOf[s.addr] = BroadcastOf[a]
                    /\ \E s \in BagToSet(b) : s.addr = a

LEMMA Sockets ==
    ASSUME NEW P
    PROVE  /\ BagToSet(SetToBag(Bound(P))) = Bound(P)
           /\ \A a : Socket(a, TRUE) \in Bound(P) <=> a \in P
           /\ \A s \in Bound(P) : s = Socket(s.addr, TRUE) /\ s.addr \in P /\ s.bound
<1>1. BagToSet(SetToBag(Bound(P))) = Bound(P)
  BY DEF BagToSet, SetToBag
<1>2. \A a : Socket(a, TRUE).addr = a /\ Socket(a, TRUE).bound
  BY DEF Socket
<1>3. ASSUME NEW s \in Bound(P) PROVE s = Socket(s.addr, TRUE) /\ s.addr \in P /\ s.bound
  <2>1. PICK a \in P : s = Socket(a, TRUE)
    BY DEF Bound
  <2> QED
    BY <1>2, <2>1
<1>4. ASSUME NEW a PROVE Socket(a, TRUE) \in Bound(P) <=> a \in P
  <2>1. a \in P => Socket(a, TRUE) \in Bound(P)
    BY DEF Bound
  <2> QED
    BY <1>2, <1>3, <2>1
<1> QED
  BY <1>1, <1>3, <1>4

LEMMA BoundChanges ==
    ASSUME NEW P, NEW a
    PROVE  /\ Bound(P \cup {a}) = Bound(P) \cup {Socket(a, TRUE)}
           /\ Bound(P \ {a}) = Bound(P) \ {Socket(a, TRUE)}
<1>1. Bound(P \cup {a}) = Bound(P) \cup {Socket(a, TRUE)}
  BY DEF Bound
<1>2. ASSUME NEW s PROVE s \in Bound(P \ {a}) <=> s \in Bound(P) /\ s # Socket(a, TRUE)
  <2>1. Socket(a, TRUE).addr = a
    BY DEF Socket
  <2> DEFINE Q == P \ {a}
  <2>2. s.addr \in Q <=> s.addr \in P /\ s.addr # a
    OBVIOUS
  <2> HIDE DEF Q
  <2>3. s \in Bound(Q) <=> s = Socket(s.addr, TRUE) /\ s.addr \in Q
    BY Sockets
  <2>4. s \in Bound(P) <=> s = Socket(s.addr, TRUE) /\ s.addr \in P
    BY Sockets
  <2> QED
    BY <2>1, <2>2, <2>3, <2>4 DEF Q
<1> QED
  BY <1>1, <1>2

\* The socket of a is the only one found for it, and it is found.
LEMMA SocketFound ==
    ASSUME NEW P, NEW a
    PROVE  SocketsWith(SetToBag(Bound(P)), a) = IF a \in P THEN {Socket(a, TRUE)} ELSE {}
<1>1. Socket(a, TRUE).addr = a
  BY DEF Socket
<1>2. SocketsWith(SetToBag(Bound(P)), a) = { s \in Bound(P) : s.addr = a }
  BY Sockets DEF SocketsWith
<1>3. \A s : s \in Bound(P) /\ s.addr = a <=> a \in P /\ s = Socket(a, TRUE)
  BY <1>1, Sockets
<1> QED
  BY <1>2, <1>3

LEMMA InsertKeeps ==
    ASSUME NEW b, IsSocketMap(b), NEW a \in OwnAddress
    PROVE  LET c == Insert(b, a, BroadcastOf)
           IN  /\ IsSocketMap(c) /\ BagToSet(b) \subseteq BagToSet(c)
               /\ \E s \in BagToSet(c) : s.addr = a
               /\ \E s \in BagToSet(c) : s.bound /\ BroadcastOf[s.addr] = BroadcastOf[a]
<1> DEFINE taken == \E s \in BagToSet(b) : /\ s.bound /\ DeviceOf[s.addr] = DeviceOf[a]
                                           /\ BroadcastOf[s.addr] = BroadcastOf[a]
           new == Socket(a, ~taken)
           c == Insert(b, a, BroadcastOf)
<1>1. c = b (+) SetToBag({new})
  BY DEF Insert
<1>2. new \in [addr : OwnAddress, bound : BOOLEAN] /\ new.addr = a /\ new.bound = ~taken
  BY DEF Socket
<1> HIDE DEF new, c
<1>3. IsABag(c) /\ BagToSet(c) = BagToSet(b) \cup {new}
  BY <1>1, BagAdd DEF IsSocketMap, BagToSet
<1>4. IsSocketMap(c)
  BY <1>2, <1>3 DEF IsSocketMap
<1>5. CASE taken
  BY <1>2, <1>3, <1>4, <1>5 DEF c
<1>6. CASE ~taken
  BY <1>2, <1>3, <1>4, <1>6 DEF c
<1> QED
  BY <1>5, <1>6

\* An interface joins with address a.
LEMMA Joins ==
    ASSUME NEW P, Apart(P), NEW u, NEW b, Listening(P, u, b),
           NEW a \in OwnAddress, \A x \in P : DeviceOf[x] # DeviceOf[a]
    PROVE  /\ Apart(P \cup {a})
           /\ Listening(P \cup {a}, Insert(u, a, [ x \in OwnAddress |-> x ]),
                        Insert(b, a, BroadcastOf))
<1> DEFINE id == [ x \in OwnAddress |-> x ]
           c == Insert(b, a, BroadcastOf)
           v == Insert(u, a, id)
<1>1. Apart(P \cup {a}) /\ a \notin P
  BY DEF Apart
<1>2. v = SetToBag(Bound(P \cup {a}))
  <2>1. ~\E s \in BagToSet(u) : s.bound /\ DeviceOf[s.addr] = DeviceOf[a] /\ id[s.addr] = id[a]
    BY Sockets DEF Listening
  <2>2. v = u (+) SetToBag({Socket(a, TRUE)})
    BY <2>1, Zenon DEF Insert
  <2>3. Bound(P \cup {a}) = Bound(P) \cup {Socket(a, TRUE)} /\ Socket(a, TRUE) \notin Bound(P)
    BY <1>1, Sockets, BoundChanges
  <2>4. SetToBag(Bound(P)) (+) SetToBag({Socket(a, TRUE)}) = SetToBag(Bound(P \cup {a}))
    BY <2>3, SetAdd
  <2> QED
    BY <2>2, <2>4 DEF Listening
<1> HIDE DEF id, v
<1>3. /\ IsSocketMap(c) /\ BagToSet(b) \subseteq BagToSet(c)
      /\ \E s \in BagToSet(c) : s.addr = a
      /\ \E s \in BagToSet(c) : s.bound /\ BroadcastOf[s.addr] = BroadcastOf[a]
  BY InsertKeeps DEF Listening
<1> HIDE DEF c
<1>4. Listening(P \cup {a}, v, c)
  BY <1>2, <1>3 DEF Listening
<1> QED
  BY <1>1, <1>4 DEF v, c, id

\* The broadcast sockets that serve the others are not among those of a.
LEMMA OtherSubnet ==
    ASSUME NEW P, Apart(P), NEW a \in P, NEW x \in P \ {a},
           NEW s \in [addr : OwnAddress, bound : BOOLEAN],
           BroadcastOf[s.addr] = BroadcastOf[x] \/ s.addr = x
    PROVE  s.addr # a
  BY SubnetAssumption DEF Apart

\* The interface with address a leaves: its broadcast socket is erased, or closed.
LEMMA Leaves ==
    ASSUME NEW P, Apart(P), NEW u, NEW b, Listening(P, u, b), NEW a \in P,
           NEW s \in SocketsWith(u, a), NEW r \in SocketsWith(b, a)
    PROVE  /\ Apart(P \ {a})
           /\ Listening(P \ {a}, Erase(u, s), Erase(b, r))
           /\ Listening(P \ {a}, Erase(u, s), Close(b, r))
<1> DEFINE v == Erase(u, s)
           c == Erase(b, r)
           z == Socket(r.addr, FALSE)
           d == Close(b, r)
<1>1. Apart(P \ {a}) /\ a \in OwnAddress
  BY DEF Apart
<1>2. v = SetToBag(Bound(P \ {a}))
  <2>1. s = Socket(a, TRUE)
    <3>1. u = SetToBag(Bound(P))
      BY DEF Listening
    <3>2. SocketsWith(SetToBag(Bound(P)), a) = {Socket(a, TRUE)}
      BY SocketFound
    <3> QED
      BY <3>1, <3>2
  <2>2. Bound(P \ {a}) = Bound(P) \ {s} /\ s \in Bound(P)
    BY <2>1, Sockets, BoundChanges
  <2>3. SetToBag(Bound(P)) (-) SetToBag({s}) = SetToBag(Bound(P \ {a}))
    BY <2>2, SetRemove
  <2> QED
    BY <2>3 DEF Listening, Erase
<1>3. r \in BagToSet(b) /\ r.addr = a /\ IsSocketMap(b)
  BY DEF SocketsWith, Listening
<1>4. IsABag(c) /\ BagToSet(b) \ {r} \subseteq BagToSet(c) /\ BagToSet(c) \subseteq BagToSet(b)
  BY <1>3, BagRemove DEF Erase, BagToSet, IsSocketMap
<1>5. z \in [addr : OwnAddress, bound : BOOLEAN]
  BY <1>1, <1>3 DEF Socket
<1>6. d = c (+) SetToBag({z})
  BY DEF Close
<1> HIDE DEF v, c, z, d
<1>7. IsABag(d) /\ BagToSet(d) = BagToSet(c) \cup {z}
  BY <1>4, <1>6, BagAdd DEF BagToSet
<1>8. IsSocketMap(c) /\ IsSocketMap(d) /\ BagToSet(c) \subseteq BagToSet(d)
  BY <1>3, <1>4, <1>5, <1>7 DEF IsSocketMap
<1>9. ASSUME NEW x \in P \ {a}
      PROVE  /\ \E y \in BagToSet(c) : y.bound /\ BroadcastOf[y.addr] = BroadcastOf[x]
             /\ \E y \in BagToSet(c) : y.addr = x
  <2>1. PICK y \in BagToSet(b) : y.bound /\ BroadcastOf[y.addr] = BroadcastOf[x]
    BY DEF Listening
  <2>2. PICK w \in BagToSet(b) : w.addr = x
    BY DEF Listening
  <2>3. y.addr # a /\ w.addr # a
    BY <1>3, <2>1, <2>2, OtherSubnet DEF IsSocketMap
  <2> QED
    BY <1>3, <1>4, <2>1, <2>2, <2>3
<1>10. Listening(P \ {a}, v, c) /\ Listening(P \ {a}, v, d)
  BY <1>2, <1>8, <1>9 DEF Listening
<1> QED
  BY <1>1, <1>10 DEF v, c, d

-----------------------------------------------------------------------------
(* Routes *)

\* The entry e of d while the addresses P take part: a neighbour is reached over
\* one of them, or is searched; the others are local routes.
GoodRoute(P, d, e) ==
    /\ e \in Entry /\ e.lifeTime >= 0
    /\ \/ d \in Neighbor /\ e.iface \in P
       \/ d \in Neighbor /\ e.iface = NoIface /\ e.flag = "IN_SEARCH"
       \/ d = Loopback /\ e.iface = LoIface
       \/ e.iface \in P /\ d = BroadcastOf[e.iface]

Routes(P, t) ==
    /\ DOMAIN t \subseteq Addr /\ t = [ d \in DOMAIN t |-> t[d] ]
    /\ \A d \in DOMAIN t : GoodRoute(P, d, t[d])
    /\ \A a \in P : BroadcastOf[a] \in DOMAIN t

Searched(t) == { d \in DOMAIN t : t[d].flag = "IN_SEARCH" }

LEMMA PurgeNothing ==
    ASSUME NEW P, NEW t, Routes(P, t)
    PROVE  Purge(t) = t
<1>1. \A d \in DOMAIN t : ~Expired(t[d])
  BY DEF Routes, GoodRoute, Entry, Expired
<1>2. Purge(t) = [ d \in DOMAIN t |-> t[d] ]
  BY <1>1 DEF Purge
<1> QED
  BY <1>2 DEF Routes

LEMMA ResetOK ==
    ASSUME NEW P, NEW d, NEW e, GoodRoute(P, d, e)
    PROVE  GoodRoute(P, d, ResetRreqCnt(e)) /\ ResetRreqCnt(e).flag = e.flag
<1>1. 0 \in 0 .. RreqCntMod - 1
  BY RreqCntModAssumption
<1> DEFINE r == [e EXCEPT !.reqCount = 0]
<1>2. r \in Entry
  BY <1>1 DEF GoodRoute, Entry
<1>3. r.flag = e.flag /\ r.iface = e.iface /\ r.lifeTime = e.lifeTime
  BY DEF GoodRoute, Entry
<1> HIDE DEF r
<1>4. ResetRreqCnt(e) \in {e, r}
  BY DEF ResetRreqCnt, r
<1> QED
  BY <1>2, <1>3, <1>4 DEF GoodRoute

\* The entry of d is written.
LEMMA WriteOK ==
    ASSUME NEW P, NEW t, Routes(P, t), NEW d \in Addr, NEW e, GoodRoute(P, d, e)
    PROVE  /\ Routes(P, Update(t, d, e)) /\ Routes(P, AddRoute(t, d, e))
           /\ d \in DOMAIN AddRoute(t, d, e)
           /\ Searched(Update(t, d, e)) \subseteq Searched(t) \cup {d}
           /\ Searched(AddRoute(t, d, e)) \subseteq Searched(t) \cup {d}
           /\ e.flag # "IN_SEARCH" =>
                /\ Searched(Update(t, d, e)) \subseteq Searched(t)
                /\ Searched(AddRoute(t, d, e)) \subseteq Searched(t)
<1> DEFINE r == ResetRreqCnt(e)
           D == DOMAIN t \cup {d}
           u == Update(t, d, e)
           v == AddRoute(t, d, e)
<1>1. GoodRoute(P, d, r) /\ r.flag = e.flag
  BY ResetOK
<1>2. u = IF d \in DOMAIN t THEN [t EXCEPT ![d] = r] ELSE t
  BY DEF Update
<1>3. v = IF d \in DOMAIN t THEN t ELSE [ x \in D |-> IF x = d THEN r ELSE t[x] ]
  BY PurgeNothing DEF AddRoute
<1> HIDE DEF r, u, v
<1>4. /\ DOMAIN u = DOMAIN t /\ u = [ x \in DOMAIN u |-> u[x] ]
      /\ \A x \in DOMAIN u : u[x] = t[x] \/ (x = d /\ u[x] = r)
  BY <1>2 DEF Routes
<1>5. /\ DOMAIN v = D /\ v = [ x \in DOMAIN v |-> v[x] ]
      /\ \A x \in DOMAIN v : (x \in DOMAIN t /\ v[x] = t[x]) \/ (x = d /\ v[x] = r)
  BY <1>3 DEF Routes
<1>6. Routes(P, u)
  BY <1>1, <1>4 DEF Routes
<1>7. Routes(P, v) /\ d \in DOMAIN v
  BY <1>1, <1>5 DEF Routes
<1>8. /\ Searched(u) \subseteq Searched(t) \cup {d}
      /\ e.flag # "IN_SEARCH" => Searched(u) \subseteq Searched(t)
  BY <1>1, <1>4 DEF Searched
<1>9. /\ Searched(v) \subseteq Searched(t) \cup {d}
      /\ e.flag # "IN_SEARCH" => Searched(v) \subseteq Searched(t)
  BY <1>1, <1>5 DEF Searched
<1> QED
  BY <1>6, <1>7, <1>8, <1>9 DEF u, v

\* The addresses Q remain, and those entries D that are good for them.
LEMMA RestrictOK ==
    ASSUME NEW P, NEW Q, NEW t, Routes(P, t), NEW D, D \subseteq DOMAIN t,
           \A d \in D : GoodRoute(Q, d, t[d]), \A a \in Q : BroadcastOf[a] \in D
    PROVE  /\ Routes(Q, Restrict(t, D)) /\ Searched(Restrict(t, D)) \subseteq Searched(t)
           /\ Searched(Restrict(t, D)) \subseteq D
<1> DEFINE u == Restrict(t, D)
<1>1. DOMAIN u = D /\ u = [ d \in DOMAIN u |-> u[d] ] /\ \A d \in D : u[d] = t[d]
  BY DEF Restrict
<1> HIDE DEF u
<1>2. Routes(Q, u) /\ Searched(u) \subseteq Searched(t) /\ Searched(u) \subseteq D
  BY <1>1 DEF Routes, Searched
<1> QED
  BY <1>2 DEF u

\* Local routes belong to no neighbour.
LEMMA LocalRoutes ==
    ASSUME NEW P, P \subseteq OwnAddress
    PROVE  /\ Loopback \notin Neighbor /\ LoIface \notin P /\ NoIface \notin P
           /\ \A a \in P : /\ BroadcastOf[a] \in Addr /\ BroadcastOf[a] \notin Neighbor
                           /\ BroadcastOf[a] # Loopback /\ a \in Iface
  BY InterfaceAssumption, NoAddrAssumption DEF OwnAddress

LEMMA RoutesJoin ==
    ASSUME NEW P, Apart(P), NEW t, Routes(P, t),
           NEW a \in OwnAddress, \A x \in P : DeviceOf[x] # DeviceOf[a]
    PROVE  /\ Routes(P \cup {a}, BroadcastRoute(t, a))
           /\ Searched(BroadcastRoute(t, a)) \subseteq Searched(t)
<1> DEFINE Q == P \cup {a}
           d == BroadcastOf[a]
           e == RoutingTableEntry(TRUE, 0, a, 1, d, Lifetime)
           r == ResetRreqCnt(e)
           D == DOMAIN t \cup {d}
           u == BroadcastRoute(t, a)
<1>1. d \in Addr /\ d \notin Neighbor /\ d # Loopback /\ a \in Iface
  BY LocalRoutes
<1>2. GoodRoute(Q, d, e) /\ e.flag # "IN_SEARCH"
  <2>1. Lifetime \in Int /\ Lifetime >= 0 /\ 0 \in 0 .. RreqCntMod - 1
    BY InterfaceAssumption, RreqCntModAssumption
  <2>2. e \in Entry /\ e.iface = a /\ e.lifeTime = Lifetime /\ e.flag = "VALID"
    BY <1>1, <2>1 DEF RoutingTableEntry, Entry, RouteFlags
  <2> HIDE DEF e
  <2> QED
    BY <2>1, <2>2 DEF GoodRoute
<1>3. d \notin DOMAIN t
  <2> SUFFICES ASSUME d \in DOMAIN t PROVE FALSE
    OBVIOUS
  <2>1. t[d].iface \in P /\ d = BroadcastOf[t[d].iface]
    BY <1>1 DEF Routes, GoodRoute
  <2> QED
    BY <2>1, SubnetAssumption DEF Apart
<1>4. u = [ x \in D |-> IF x = d THEN r ELSE t[x] ]
  BY <1>3, PurgeNothing DEF BroadcastRoute, AddRoute
<1> HIDE DEF e
<1>5. GoodRoute(Q, d, r) /\ r.flag # "IN_SEARCH"
  BY <1>2, ResetOK
<1> HIDE DEF r
<1>6. /\ DOMAIN u = D /\ u = [ x \in DOMAIN u |-> u[x] ] /\ u[d] = r
      /\ \A x \in DOMAIN t : u[x] = t[x]
  BY <1>3, <1>4
<1> HIDE DEF u
<1>7. \A x \in DOMAIN t : GoodRoute(Q, x, t[x])
  BY DEF Routes, GoodRoute
<1>8. \A x \in DOMAIN u : GoodRoute(Q, x, u[x])
  BY <1>5, <1>6, <1>7
<1>9. Routes(Q, u)
  BY <1>1, <1>6, <1>8 DEF Routes
<1>10. Searched(u) \subseteq Searched(t)
  BY <1>5, <1>6 DEF Searched
<1> QED
  BY <1>9, <1>10 DEF u

LEMMA RoutesLeave ==
    ASSUME NEW P, Apart(P), NEW t, Routes(P, t), NEW a \in P
    PROVE  LET u == DeleteAllRoutesFromInterface(t, a)
           IN  Routes(P \ {a}, u) /\ Searched(u) \subseteq Searched(t)
<1> DEFINE Q == P \ {a}
           D == { d \in DOMAIN t : t[d].iface # a }
<1>1. ASSUME NEW d \in D PROVE GoodRoute(Q, d, t[d])
  BY DEF Routes, GoodRoute
<1>2. ASSUME NEW x \in Q PROVE BroadcastOf[x] \in D
  <2> DEFINE d == BroadcastOf[x]
  <2>1. d \in DOMAIN t /\ d \notin Neighbor /\ d # Loopback
    BY LocalRoutes DEF Routes, Apart
  <2>2. t[d].iface \in P /\ d = BroadcastOf[t[d].iface]
    BY <2>1 DEF Routes, GoodRoute
  <2>3. t[d].iface = x
    BY <2>2, SubnetAssumption DEF Apart
  <2> QED
    BY <2>1, <2>3
<1>3. D \subseteq DOMAIN t /\ DeleteAllRoutesFromInterface(t, a) = Restrict(t, D)
  BY DEF DeleteAllRoutesFromInterface
<1> HIDE DEF D, Q
<1>4. Routes(Q, Restrict(t, D)) /\ Searched(Restrict(t, D)) \subseteq Searched(t)
  BY <1>1, <1>2, <1>3, RestrictOK
<1> QED
  BY <1>3, <1>4 DEF Q

LEMMA NoRoutes == Routes({}, EmptyTable) /\ Searched(EmptyTable) = {}
<1>1. DOMAIN EmptyTable = {} /\ EmptyTable = [ d \in {} |-> EmptyTable[d] ]
  BY DEF EmptyTable
<1> QED
  BY <1>1 DEF Routes, Searched

LEMMA DeleteOK ==
    ASSUME NEW P, P \subseteq OwnAddress, NEW t, Routes(P, t), NEW d \in Neighbor
    PROVE  /\ Routes(P, DeleteRoute(t, d))
           /\ Searched(DeleteRoute(t, d)) \subseteq Searched(t) \ {d}
<1> DEFINE D == DOMAIN t \ {d}
<1>1. DeleteRoute(t, d) = Restrict(t, D)
  BY PurgeNothing DEF DeleteRoute
<1>2. \A a \in P : BroadcastOf[a] \in D
  BY LocalRoutes DEF Routes
<1>3. \A x \in D : GoodRoute(P, x, t[x])
  BY DEF Routes
<1>4. d \notin D /\ D \subseteq DOMAIN t
  OBVIOUS
<1> HIDE DEF D
<1> QED
  BY <1>1, <1>2, <1>3, <1>4, RestrictOK

LEMMA BreakOK ==
    ASSUME NEW P, NEW t, Routes(P, t), NEW a
    PROVE  LET u == InvalidateRoutesWithDst(t, {a})
           IN  Routes(P, u) /\ Searched(u) \subseteq Searched(t)
<1> DEFINE u == InvalidateRoutesWithDst(t, {a})
<1>1. u = [ d \in DOMAIN t |-> IF d \in {a} /\ t[d].flag = "VALID"
                               THEN Invalidate(t[d]) ELSE t[d] ]
  BY PurgeNothing DEF InvalidateRoutesWithDst
<1>2. DOMAIN u = DOMAIN t /\ u = [ d \in DOMAIN u |-> u[d] ]
  BY <1>1
<1> HIDE DEF u
<1>3. ASSUME NEW d \in DOMAIN t
      PROVE  GoodRoute(P, d, u[d]) /\ (u[d].flag = "IN_SEARCH" => t[d].flag = "IN_SEARCH")
  <2> DEFINE e == t[d]
             r == [e EXCEPT !.flag = "INVALID", !.reqCount = 0, !.lifeTime = BadLinkLifetime]
  <2>1. GoodRoute(P, d, e) /\ e \in Entry
    BY DEF Routes, GoodRoute
  <2> HIDE DEF r
  <2>2. u[d] = e \/ (u[d] = r /\ e.flag = "VALID")
    <3>1. u[d] = IF d \in {a} /\ e.flag = "VALID" THEN Invalidate(e) ELSE e
      BY <1>1
    <3>2. e.flag = "VALID" => Invalidate(e) = r
      BY DEF Invalidate, r
    <3> QED
      BY <3>1, <3>2
  <2>3. 0 \in 0 .. RreqCntMod - 1 /\ BadLinkLifetime \in Int /\ BadLinkLifetime >= 0
    BY RreqCntModAssumption, BadLinkLifetimeAssumption
  <2> HIDE DEF e
  <2> USE DEF r
  <2>4. r \in Entry
    BY <2>1, <2>3 DEF Entry, RouteFlags
  <2>5. r.flag = "INVALID" /\ r.iface = e.iface /\ r.lifeTime = BadLinkLifetime
    BY <2>1 DEF Entry
  <2> HIDE DEF r
  <2>6. e.flag = "VALID" => GoodRoute(P, d, r)
    BY <2>1, <2>3, <2>4, <2>5 DEF GoodRoute
  <2> QED
    BY <2>1, <2>2, <2>5, <2>6 DEF e
<1>4. Routes(P, u) /\ Searched(u) \subseteq Searched(t)
  BY <1>2, <1>3 DEF Routes, Searched
<1> QED
  BY <1>4 DEF u

-----------------------------------------------------------------------------
(* The addresses that take part *)

Addressed ==
    /\ up \in [Dev -> BOOLEAN] /\ addrs \in [Dev -> Seq(OwnAddress)]
    /\ \A d \in Dev : \A a \in ToSet(addrs[d]) : DeviceOf[a] = d

\* The address device d takes part with, if it does.
Mine(d) == IF up[d] /\ addrs[d] # << >> THEN {Head(addrs[d])} ELSE {}

LEMMA HeadIn ==
    ASSUME NEW X, NEW q \in Seq(X), q # << >>
    PROVE  Head(q) \in X /\ Head(q) \in ToSet(q)
<1>1. 1 \in DOMAIN q /\ Head(q) = q[1]
  OBVIOUS
<1> QED
  BY <1>1 DEF ToSet

LEMMA MineOnly ==
    ASSUME Addressed, NEW d \in Dev, NEW a \in Mine(d)
    PROVE  a \in OwnAddress /\ DeviceOf[a] = d /\ a = Head(addrs[d]) /\ up[d] /\ addrs[d] # << >>
<1>1. addrs[d] \in Seq(OwnAddress) /\ addrs[d] # << >> /\ up[d] /\ a = Head(addrs[d])
  BY DEF Mine, Addressed
<1>2. a \in OwnAddress /\ a \in ToSet(addrs[d])
  BY <1>1, HeadIn
<1> QED
  BY <1>1, <1>2 DEF Addressed

LEMMA PrimariesMine == Primaries = UNION { Mine(d) : d \in Dev }
<1>1. ASSUME NEW a PROVE a \in Primaries <=> \E d \in Dev : a \in Mine(d)
  BY DEF Primaries, Mine
<1> QED
  BY <1>1

LEMMA PrimaryDevice ==
    ASSUME Addressed, NEW a \in Primaries
    PROVE  a \in OwnAddress /\ DeviceOf[a] \in Dev /\ a \in Mine(DeviceOf[a])
<1>1. PICK d \in Dev : a \in Mine(d)
  BY PrimariesMine
<1> QED
  BY <1>1, MineOnly

LEMMA PrimariesApart ==
    ASSUME Addressed
    PROVE  Apart(Primaries) /\ Primaries \subseteq OwnAddress
<1>1. ASSUME NEW a \in Primaries, NEW b \in Primaries, DeviceOf[a] = DeviceOf[b] PROVE a = b
  <2>1. a \in Mine(DeviceOf[a]) /\ b \in Mine(DeviceOf[a]) /\ DeviceOf[a] \in Dev
    BY <1>1, PrimaryDevice
  <2> QED
    BY <2>1, MineOnly
<1> QED
  BY <1>1, PrimaryDevice DEF Apart

\* A notification about device d changes nothing for the others.
LEMMA PrimariesChange ==
    ASSUME Addressed, Addressed', NEW d \in Dev,
           \A x \in Dev \ {d} : up'[x] = up[x] /\ addrs'[x] = addrs[x]
    PROVE  /\ Primaries' = (Primaries \ Mine(d)) \cup Mine(d)'
           /\ Mine(d) \subseteq Primaries
           /\ \A x \in Primaries \ Mine(d) : DeviceOf[x] # d
<1>1. ASSUME NEW a
      PROVE  /\ a \in Primaries <=> \E x \in Dev : a \in Mine(x)
             /\ a \in Primaries' <=> \E x \in Dev : a \in Mine(x)'
  BY DEF Primaries, Mine
<1>2. \A x \in Dev \ {d} : Mine(x)' = Mine(x)
  BY DEF Mine
<1>3. \A x \in Primaries \ Mine(d) : DeviceOf[x] # d
  BY PrimaryDevice
<1>4. ASSUME NEW a PROVE a \in Primaries' <=> a \in (Primaries \ Mine(d)) \cup Mine(d)'
  <2>1. ASSUME a \in Primaries', a \notin Mine(d)' PROVE a \in Primaries \ Mine(d)
    <3>1. PICK x \in Dev : a \in Mine(x)'
      BY <1>1, <2>1
    <3>2. x # d /\ a \in Mine(x)
      BY <1>2, <2>1, <3>1
    <3>3. DeviceOf[a] = x
      BY <3>2, MineOnly
    <3>4. a \notin Mine(d)
      BY <3>2, <3>3, MineOnly
    <3> QED
      BY <1>1, <3>2, <3>4
  <2>2. ASSUME a \in Primaries, a \notin Mine(d) PROVE a \in Primaries'
    <3>1. PICK x \in Dev : a \in Mine(x)
      BY <1>1, <2>2
    <3>2. x # d
      BY <2>2, <3>1
    <3> QED
      BY <1>1, <1>2, <3>1, <3>2
  <2>3. Mine(d)' \subseteq Primaries'
    BY <1>1
  <2> QED
    BY <2>1, <2>2, <2>3
<1> QED
  BY <1>1, <1>3, <1>4

-----------------------------------------------------------------------------
(* The inductive invariant *)

Outcomes == Dev \cup {"none", "waiting", "refused", "dropped"}

\* A packet waits in one place only, and leaves over a device that suits it.
Waits(q, l, o) ==
    /\ q \in Seq(Packet) /\ l \subseteq Packet /\ o \in [Packet -> Outcomes]
    /\ \A i, j \in DOMAIN q : q[i] = q[j] => i = j
    /\ l \cap ToSet(q) = {}
    /\ \A p \in Packet : o[p] = "waiting" <=> p \in l \cup ToSet(q)
    /\ \A p \in Packet : o[p] \in Dev => Suits(p, o[p])

\* A packet bound to a device ended a delivery for d.
Blocked(o, d) == \E x \in Packet : x.dst = d /\ x.oif # NoDev /\ o[x] = "dropped"

Watched(q, o, R) == \A p \in ToSet(q) : p.dst \in R \/ Blocked(o, p.dst)

\* A datagram that is to be passed on.
Travels(m) == EnableBroadcast /\ m.ttl > 1 /\ m.dst # AllHosts

\* A datagram was handed on once if it is known, and not at all if it is not.
Counted(k, f, g) ==
    /\ k \subseteq Datagram /\ f \in [Datagram -> Nat] /\ g \in [Datagram -> Nat]
    /\ \A m \in Datagram : /\ f[m] = IF m \in k THEN 1 ELSE 0
                           /\ g[m] = IF m \in k /\ Travels(m) THEN 1 ELSE 0

IInv ==
    /\ Addressed
    /\ Listening(Primaries, socketAddresses, broadcastAddresses)
    /\ Routes(Primaries, table) /\ Searched(table) \subseteq retry
    /\ nb \subseteq Neighbor /\ retry \subseteq Neighbor /\ htimer \in BOOLEAN
    /\ Waits(queue, lo, outcome) /\ Watched(queue, outcome, retry)
    /\ Counted(dpd, deliveries, forwards)

LEMMA InitOK == Init => IInv
<1> SUFFICES ASSUME Init PROVE IInv
  OBVIOUS
<1>1. Primaries = {} /\ Addressed
  <2>1. << >> \in Seq(OwnAddress) /\ ToSet(<< >>) = {}
    BY DEF ToSet
  <2> QED
    BY <2>1 DEF Init, Primaries, Addressed
<1>2. Listening({}, EmptyBag, EmptyBag)
  <2>1. Bound({}) = {} /\ EmptyBag = SetToBag({}) /\ BagToSet(EmptyBag) = {}
    BY DEF Bound, EmptyBag, SetToBag, BagToSet
  <2>2. IsABag(EmptyBag)
    BY DEF IsABag, EmptyBag, SetToBag
  <2> QED
    BY <2>1, <2>2 DEF Listening, IsSocketMap
<1>3. Routes({}, table) /\ Searched(table) = {}
  <2> DEFINE e == RoutingTableEntry(TRUE, 0, LoIface, 1, Loopback, Lifetime)
  <2>1. GoodRoute({}, Loopback, e) /\ e.flag # "IN_SEARCH"
    <3>1. /\ Lifetime \in Int /\ Lifetime >= 0 /\ 0 \in 0 .. RreqCntMod - 1
          /\ LoIface \in Iface /\ Loopback \in Addr
      BY InterfaceAssumption, RreqCntModAssumption
    <3>2. e \in Entry /\ e.iface = LoIface /\ e.lifeTime = Lifetime /\ e.flag = "VALID"
      BY <3>1 DEF RoutingTableEntry, Entry, RouteFlags
    <3> HIDE DEF e
    <3> QED
      BY <3>1, <3>2 DEF GoodRoute
  <2>2. table = AddRoute(EmptyTable, Loopback, e) /\ Loopback \in Addr
    BY InterfaceAssumption DEF Init
  <2> HIDE DEF e
  <2> QED
    BY <2>1, <2>2, NoRoutes, WriteOK
<1>4. Waits(<< >>, {}, outcome) /\ Watched(<< >>, outcome, {})
  <2>1. << >> \in Seq(Packet) /\ ToSet(<< >>) = {} /\ DOMAIN << >> = {}
    BY DEF ToSet
  <2>2. outcome \in [Packet -> Outcomes] /\ \A p \in Packet : outcome[p] = "none"
    BY DEF Init, Outcomes
  <2>3. "none" \notin Dev
    BY InterfaceAssumption
  <2> QED
    BY <2>1, <2>2, <2>3 DEF Waits, Watched
<1>5. Counted(dpd, deliveries, forwards)
  BY DEF Init, Counted
<1> QED
  BY <1>1, <1>2, <1>3, <1>4, <1>5 DEF IInv, Init

-----------------------------------------------------------------------------
(* Notifications *)

LEMMA NetEvent ==
    ASSUME IInv, Addressed', Listening(Primaries', socketAddresses', broadcastAddresses'),
           Routes(Primaries', table'), Searched(table') \subseteq Searched(table),
           nb' \subseteq Neighbor, htimer' \in BOOLEAN, UNCHANGED << packetVars, broadcastVars >>
    PROVE  IInv'
<1>1. /\ retry' = retry /\ lo' = lo /\ queue' = queue /\ outcome' = outcome
      /\ dpd' = dpd /\ deliveries' = deliveries /\ forwards' = forwards
  BY DEF packetVars, broadcastVars
<1>2. Searched(table') \subseteq retry' /\ retry' \subseteq Neighbor
  BY <1>1 DEF IInv
<1>3. Waits(queue, lo, outcome)' /\ Watched(queue, outcome, retry)'
  BY <1>1 DEF IInv
<1>4. Counted(dpd, deliveries, forwards)'
  BY <1>1 DEF IInv
<1> QED
  BY <1>2, <1>3, <1>4 DEF IInv

\* The interface of d joins with address a.
LEMMA ParticipateOK ==
    ASSUME NEW P, Apart(P), NEW u, NEW b, Listening(P, u, b), NEW t, Routes(P, t),
           NEW a \in OwnAddress, \A x \in P : DeviceOf[x] # DeviceOf[a], Participate(u, b, t, a)
    PROVE  /\ Listening(P \cup {a}, socketAddresses', broadcastAddresses')
           /\ Routes(P \cup {a}, table') /\ Searched(table') \subseteq Searched(t)
<1>1. /\ socketAddresses' = Insert(u, a, [ x \in OwnAddress |-> x ])
      /\ broadcastAddresses' = Insert(b, a, BroadcastOf)
      /\ table' = BroadcastRoute(t, a)
  BY DEF Participate
<1> QED
  BY <1>1, Joins, RoutesJoin

LEMMA UpOK ==
    ASSUME IInv, NEW d \in Dev, NotifyInterfaceUp(d)
    PROVE  IInv'
<1> DEFINE a == Head(addrs[d])
<1>1. /\ up' = [up EXCEPT ![d] = TRUE] /\ addrs' = addrs /\ ~up[d] /\ addrs[d] # << >>
      /\ Participate(socketAddresses, broadcastAddresses, table, a)
      /\ nb' = nb /\ htimer' = htimer /\ UNCHANGED << packetVars, broadcastVars >>
  BY DEF NotifyInterfaceUp
<1>2. Addressed' /\ \A x \in Dev \ {d} : up'[x] = up[x] /\ addrs'[x] = addrs[x]
  BY <1>1 DEF IInv, Addressed
<1>3. Mine(d) = {} /\ Mine(d)' = {a}
  BY <1>1 DEF Mine, IInv, Addressed
<1>4. Primaries' = Primaries \cup {a} /\ \A x \in Primaries : DeviceOf[x] # d
  BY <1>2, <1>3, PrimariesChange DEF IInv
<1>5. a \in OwnAddress /\ DeviceOf[a] = d
  BY <1>1, HeadIn DEF IInv, Addressed
<1> HIDE DEF a
<1>6. /\ Listening(Primaries', socketAddresses', broadcastAddresses')
      /\ Routes(Primaries', table') /\ Searched(table') \subseteq Searched(table)
  BY <1>1, <1>4, <1>5, ParticipateOK, PrimariesApart DEF IInv
<1> QED
  BY <1>1, <1>2, <1>6, NetEvent DEF IInv

LEMMA ShutdownOK ==
    ASSUME Shutdown
    PROVE  /\ Routes({}, table') /\ Searched(table') = {}
           /\ nb' \subseteq Neighbor /\ htimer' \in BOOLEAN
  BY NoRoutes DEF Shutdown

LEMMA NoSockets ==
    ASSUME NEW P, NEW u, NEW b, Listening(P, u, b), u = EmptyBag
    PROVE  P = {}
<1>1. Bound(P) = {}
  BY EmptySet DEF Listening
<1> QED
  BY <1>1, Sockets

LEMMA DownOK ==
    ASSUME IInv, NEW d \in Dev, NotifyInterfaceDown(d)
    PROVE  IInv'
<1> DEFINE a == Head(addrs[d])
           Q == Primaries \ {a}
<1>1. /\ up[d] /\ addrs[d] # << >> /\ up' = [up EXCEPT ![d] = FALSE] /\ addrs' = addrs
      /\ UNCHANGED << packetVars, broadcastVars >>
      /\ \/ socketAddresses' = EmptyBag /\ Shutdown
         \/ /\ table' = DeleteAllRoutesFromInterface(table, a)
            /\ nb' = nb /\ htimer' = htimer
  BY DEF NotifyInterfaceDown
<1>2. PICK s \in SocketsWith(socketAddresses, a), r \in SocketsWith(broadcastAddresses, a) :
        /\ socketAddresses' = Erase(socketAddresses, s)
        /\ broadcastAddresses' = Erase(broadcastAddresses, r)
  BY DEF NotifyInterfaceDown
<1>3. Addressed' /\ \A x \in Dev \ {d} : up'[x] = up[x] /\ addrs'[x] = addrs[x]
  BY <1>1 DEF IInv, Addressed
<1>4. Mine(d) = {a} /\ Mine(d)' = {}
  BY <1>1 DEF Mine, IInv, Addressed
<1>5. Primaries' = Q /\ a \in Primaries
  BY <1>3, <1>4, PrimariesChange DEF IInv
<1> HIDE DEF a
<1>6. Listening(Q, socketAddresses', broadcastAddresses')
  BY <1>2, <1>5, Leaves, PrimariesApart DEF IInv
<1>7. CASE socketAddresses' = EmptyBag /\ Shutdown
  <2>1. Q = {}
    BY <1>6, <1>7, NoSockets
  <2> QED
    BY <1>1, <1>3, <1>5, <1>6, <1>7, <2>1, ShutdownOK, NetEvent
<1>8. CASE table' = DeleteAllRoutesFromInterface(table, a) /\ nb' = nb /\ htimer' = htimer
  <2>1. Routes(Q, table') /\ Searched(table') \subseteq Searched(table)
    BY <1>5, <1>8, RoutesLeave, PrimariesApart DEF IInv
  <2> QED
    BY <1>1, <1>3, <1>5, <1>6, <1>8, <2>1, NetEvent DEF IInv
<1> QED
  BY <1>1, <1>7, <1>8

LEMMA AppendSet ==
    ASSUME NEW X, NEW q \in Seq(X), NEW a \in X
    PROVE  Append(q, a) \in Seq(X) /\ ToSet(Append(q, a)) = ToSet(q) \cup {a}
<1> DEFINE r == Append(q, a)
<1>1. /\ r \in Seq(X) /\ DOMAIN r = DOMAIN q \cup {Len(q) + 1} /\ r[Len(q) + 1] = a
      /\ \A i \in DOMAIN q : r[i] = q[i]
  OBVIOUS
<1> HIDE DEF r
<1>2. ToSet(r) = ToSet(q) \cup {a}
  BY <1>1 DEF ToSet
<1> QED
  BY <1>1, <1>2 DEF r

LEMMA HeadAppended ==
    ASSUME NEW X, NEW q \in Seq(X), NEW a \in X
    PROVE  Append(q, a) # << >> /\ Head(Append(q, a)) = IF q = << >> THEN a ELSE Head(q)
<1> DEFINE r == Append(q, a)
<1>1. r \in Seq(X) /\ Len(r) = Len(q) + 1 /\ Len(q) \in Nat /\ r[Len(q) + 1] = a
  OBVIOUS
<1>2. q # << >> => r[1] = q[1] /\ Len(q) # 0
  OBVIOUS
<1>3. q = << >> => r[1] = a
  BY <1>1
<1> HIDE DEF r
<1>4. r # << >> /\ Head(r) = r[1]
  BY <1>1
<1> QED
  BY <1>2, <1>3, <1>4 DEF r

LEMMA AddAddressOK ==
    ASSUME IInv, NEW d \in Dev, NEW a \in OwnAddress, NotifyAddAddress(d, a)
    PROVE  IInv'
<1> DEFINE q == addrs[d]
           joins == up[d] /\ q = << >> /\ SocketsWith(socketAddresses, a) = {}
<1>1. /\ DeviceOf[a] = d /\ addrs' = [addrs EXCEPT ![d] = Append(q, a)] /\ up' = up
      /\ nb' = nb /\ htimer' = htimer /\ UNCHANGED << packetVars, broadcastVars >>
      /\ joins => Participate(socketAddresses, broadcastAddresses, table, a)
      /\ ~joins => /\ socketAddresses' = socketAddresses /\ table' = table
                   /\ broadcastAddresses' = broadcastAddresses
  BY DEF NotifyAddAddress
<1>2. q \in Seq(OwnAddress) /\ \A x \in ToSet(q) : DeviceOf[x] = d
  BY DEF IInv, Addressed
<1>3. Append(q, a) \in Seq(OwnAddress) /\ \A x \in ToSet(Append(q, a)) : DeviceOf[x] = d
  BY <1>1, <1>2, AppendSet
<1>4. Append(q, a) # << >> /\ Head(Append(q, a)) = IF q = << >> THEN a ELSE Head(q)
  BY <1>2, HeadAppended
<1>5. addrs'[d] = Append(q, a) /\ \A x \in Dev \ {d} : up'[x] = up[x] /\ addrs'[x] = addrs[x]
  BY <1>1 DEF IInv, Addressed
<1> HIDE DEF joins
<1>6. Addressed'
  BY <1>1, <1>3, <1>5 DEF IInv, Addressed
<1>7. /\ Mine(d) = (IF up[d] /\ q # << >> THEN {Head(q)} ELSE {})
      /\ Mine(d)' = (IF up[d] THEN {Head(Append(q, a))} ELSE {})
  BY <1>1, <1>4, <1>5 DEF Mine
<1>8. /\ Primaries' = (Primaries \ Mine(d)) \cup Mine(d)' /\ Mine(d) \subseteq Primaries
      /\ \A x \in Primaries \ Mine(d) : DeviceOf[x] # d
  BY <1>5, <1>6, PrimariesChange DEF IInv
<1>9. CASE joins
  <2>1. Primaries' = Primaries \cup {a} /\ \A x \in Primaries : DeviceOf[x] # d
    BY <1>4, <1>7, <1>8, <1>9 DEF joins
  <2>2. /\ Listening(Primaries', socketAddresses', broadcastAddresses')
        /\ Routes(Primaries', table') /\ Searched(table') \subseteq Searched(table)
    BY <1>1, <1>9, <2>1, ParticipateOK, PrimariesApart DEF IInv
  <2> QED
    BY <1>1, <1>6, <2>2, NetEvent DEF IInv
<1>10. CASE ~joins
  <2>1. up[d] => q # << >>
    <3> SUFFICES ASSUME up[d], q = << >> PROVE FALSE
      OBVIOUS
    <3>1. a \in Primaries
      BY <1>10, SocketFound DEF joins, IInv, Listening
    <3>2. a \in Mine(d)
      BY <1>1, <3>1, PrimaryDevice DEF IInv
    <3> QED
      BY <1>7, <3>2
  <2>2. Primaries' = Primaries
    BY <1>4, <1>7, <1>8, <2>1
  <2> QED
    BY <1>1, <1>6, <1>10, <2>2, NetEvent DEF IInv
<1> QED
  BY <1>9, <1>10

LEMMA WithoutOK ==
    ASSUME NEW X, NEW q \in Seq(X), NEW a
    PROVE  /\ Without(q, a) \in Seq(X) /\ ToSet(Without(q, a)) = ToSet(q) \ {a}
           /\ q # << >> /\ Head(q) # a => Without(q, a) # << >> /\ Head(Without(q, a)) = Head(q)
<1> DEFINE I == { i \in DOMAIN q : q[i] # a }
           w == Without(q, a)
<1>1. w = At(q, I) /\ I \in SUBSET DOMAIN q /\ DOMAIN q = 1 .. Len(q) /\ Len(q) \in Nat
  BY DEF Without
<1>2. w \in Seq(X) /\ ToSet(w) = { q[i] : i \in I } /\ Len(w) = Cardinality(I)
  BY <1>1, AtType
<1>3. ToSet(w) = ToSet(q) \ {a}
  BY <1>2 DEF ToSet
<1>4. ASSUME q # << >>, Head(q) # a PROVE w # << >> /\ Head(w) = Head(q)
  <2>1. 1 \in I /\ Head(q) = q[1]
    BY <1>1, <1>4
  <2> HIDE DEF I
  <2>2. I \in SUBSET (1 .. Len(q)) /\ Cardinality(I) \in Nat
    BY <1>1, BeforeOrdered
  <2>3. Before(I, 1) = 0
    <3>0. \A j \in I : j \in Int /\ j >= 1
      BY <2>2
    <3>1. { j \in I : j < 1 } = {}
      BY <3>0
    <3> QED
      BY <3>1, FS_EmptySet DEF Before
  <2>4. Position(I, Before(I, 1) + 1) = 1 /\ Before(I, 1) \in 0 .. Cardinality(I) - 1
    BY <1>1, <2>1, <2>2, PositionRight, BeforeOrdered
  <2>5. Position(I, 1) = 1 /\ 1 \in 1 .. Cardinality(I)
    BY <2>2, <2>3, <2>4
  <2>6. w[1] = q[1]
    BY <1>1, <2>5 DEF At
  <2>7. Len(w) >= 1
    BY <1>2, <2>2, <2>5
  <2> HIDE DEF w
  <2> QED
    BY <1>2, <2>1, <2>6, <2>7
<1> HIDE DEF w
<1> QED
  BY <1>2, <1>3, <1>4 DEF w

LEMMA RemoveAddressOK ==
    ASSUME IInv, NEW d \in Dev, NEW a \in OwnAddress, NotifyRemoveAddress(d, a)
    PROVE  IInv'
<1> DEFINE q == addrs[d]
           w == Without(q, a)
           t == DeleteAllRoutesFromInterface(table, a)
           Q == Primaries \ {a}
<1>1. a \in ToSet(q) /\ addrs' = [addrs EXCEPT ![d] = w] /\ up' = up
      /\ UNCHANGED << packetVars, broadcastVars >>
  BY DEF NotifyRemoveAddress
<1>2. q \in Seq(OwnAddress) /\ \A x \in ToSet(q) : DeviceOf[x] = d
  BY DEF IInv, Addressed
<1>3. /\ w \in Seq(OwnAddress) /\ ToSet(w) = ToSet(q) \ {a}
      /\ q # << >> /\ Head(q) # a => w # << >> /\ Head(w) = Head(q)
  BY <1>2, WithoutOK
<1>4. q # << >> /\ DeviceOf[a] = d
  BY <1>1, <1>2 DEF ToSet
<1>5. addrs'[d] = w /\ \A x \in Dev \ {d} : up'[x] = up[x] /\ addrs'[x] = addrs[x]
  BY <1>1 DEF IInv, Addressed
<1> HIDE DEF w
<1>6. Addressed'
  BY <1>1, <1>2, <1>3, <1>5 DEF IInv, Addressed
<1>7. /\ Mine(d) = (IF up[d] THEN {Head(q)} ELSE {})
      /\ Mine(d)' = (IF up[d] /\ w # << >> THEN {Head(w)} ELSE {})
  BY <1>1, <1>4, <1>5 DEF Mine
<1>8. /\ Primaries' = (Primaries \ Mine(d)) \cup Mine(d)' /\ Mine(d) \subseteq Primaries
      /\ \A x \in Primaries \ Mine(d) : DeviceOf[x] # d
  BY <1>5, <1>6, PrimariesChange DEF IInv
<1>9. ASSUME SocketsWith(socketAddresses, a) = {}, UNCHANGED netVars PROVE IInv'
  <2>1. a \notin Primaries
    <3> SUFFICES ASSUME a \in Primaries PROVE FALSE
      OBVIOUS
    <3>1. SocketsWith(socketAddresses, a) = {Socket(a, TRUE)}
      BY SocketFound DEF IInv, Listening
    <3> QED
      BY <1>9, <3>1
  <2>2. up[d] => Head(q) # a
    BY <1>7, <1>8, <2>1
  <2>3. Primaries' = Primaries
    BY <1>3, <1>4, <1>7, <1>8, <2>2
  <2>4. /\ socketAddresses' = socketAddresses /\ broadcastAddresses' = broadcastAddresses
        /\ table' = table /\ nb' = nb /\ htimer' = htimer
    BY <1>9 DEF netVars
  <2> QED
    BY <1>1, <1>6, <2>3, <2>4, NetEvent DEF IInv
<1>10. ASSUME NEW s \in SocketsWith(socketAddresses, a),
              NEW r \in SocketsWith(broadcastAddresses, a)
       PROVE  /\ Primaries' = Q \cup Mine(d)' /\ a \in Primaries /\ Apart(Q)
              /\ \A x \in Q : DeviceOf[x] # d
              /\ Listening(Q, Erase(socketAddresses, s), Close(broadcastAddresses, r))
              /\ Routes(Q, t) /\ Searched(t) \subseteq Searched(table)
              /\ w = << >> => Mine(d)' = {}
              /\ w # << >> => /\ Mine(d)' = {Head(w)} /\ Head(w) \in OwnAddress
                              /\ DeviceOf[Head(w)] = d
  <2>1. a \in Primaries
    BY SocketFound DEF IInv, Listening
  <2>2. a \in Mine(d)
    BY <1>4, <2>1, PrimaryDevice DEF IInv
  <2>3. Mine(d) = {a} /\ up[d]
    BY <1>7, <2>2
  <2>4. w # << >> => Head(w) \in OwnAddress /\ DeviceOf[Head(w)] = d
    BY <1>2, <1>3, HeadIn
  <2>5. Apart(Q) /\ Listening(Q, Erase(socketAddresses, s), Close(broadcastAddresses, r))
    BY <2>1, Leaves, PrimariesApart DEF IInv
  <2>6. Routes(Q, t) /\ Searched(t) \subseteq Searched(table)
    BY <2>1, RoutesLeave, PrimariesApart DEF IInv
  <2> QED
    BY <1>7, <1>8, <2>1, <2>3, <2>4, <2>5, <2>6
<1>11. ASSUME NEW s \in SocketsWith(socketAddresses, a),
              NEW r \in SocketsWith(broadcastAddresses, a),
              w # << >>, nb' = nb, htimer' = htimer,
              Participate(Erase(socketAddresses, s), Close(broadcastAddresses, r), t, Head(w))
       PROVE  IInv'
  <2> DEFINE u == Erase(socketAddresses, s)
             c == Close(broadcastAddresses, r)
             h == Head(w)
  <2>1. /\ Primaries' = Q \cup {h} /\ h \in OwnAddress /\ DeviceOf[h] = d /\ Apart(Q)
        /\ Listening(Q, u, c) /\ Routes(Q, t) /\ Searched(t) \subseteq Searched(table)
        /\ \A x \in Q : DeviceOf[x] # d
    BY <1>10, <1>11
  <2>2. Participate(u, c, t, h)
    BY <1>11
  <2> HIDE DEF u, c, h, t, Q
  <2>3. /\ Listening(Primaries', socketAddresses', broadcastAddresses')
        /\ Routes(Primaries', table') /\ Searched(table') \subseteq Searched(t)
    BY <2>1, <2>2, ParticipateOK
  <2> QED
    BY <1>1, <1>6, <1>11, <2>1, <2>3, NetEvent DEF IInv
<1>12. ASSUME NEW s \in SocketsWith(socketAddresses, a),
              NEW r \in SocketsWith(broadcastAddresses, a),
              w = << >>, socketAddresses' = Erase(socketAddresses, s),
              broadcastAddresses' = Close(broadcastAddresses, r),
              \/ socketAddresses' = EmptyBag /\ Shutdown
              \/ table' = t /\ nb' = nb /\ htimer' = htimer
       PROVE  IInv'
  <2>1. /\ Primaries' = Q /\ Listening(Q, socketAddresses', broadcastAddresses')
        /\ Routes(Q, t) /\ Searched(t) \subseteq Searched(table)
    BY <1>10, <1>12
  <2> HIDE DEF Q, t
  <2>2. CASE socketAddresses' = EmptyBag /\ Shutdown
    <3>1. Q = {}
      BY <2>1, <2>2, NoSockets
    <3> QED
      BY <1>1, <1>6, <2>1, <2>2, <3>1, ShutdownOK, NetEvent
  <2>3. CASE table' = t /\ nb' = nb /\ htimer' = htimer
    BY <1>1, <1>6, <2>1, <2>3, NetEvent DEF IInv
  <2> QED
    BY <1>12, <2>2, <2>3
<1>13. \/ SocketsWith(socketAddresses, a) = {} /\ UNCHANGED netVars
       \/ \E s \in SocketsWith(socketAddresses, a), r \in SocketsWith(broadcastAddresses, a) :
            \/ /\ w # << >> /\ nb' = nb /\ htimer' = htimer
               /\ Participate(Erase(socketAddresses, s), Close(broadcastAddresses, r), t, Head(w))
            \/ /\ w = << >> /\ socketAddresses' = Erase(socketAddresses, s)
               /\ broadcastAddresses' = Close(broadcastAddresses, r)
               /\ \/ socketAddresses' = EmptyBag /\ Shutdown
                  \/ table' = t /\ nb' = nb /\ htimer' = htimer
  BY <1>5 DEF NotifyRemoveAddress
<1> QED
  BY <1>9, <1>11, <1>12, <1>13

-----------------------------------------------------------------------------
(* Neighbours *)

LEMMA HelloOK ==
    ASSUME IInv, NEW s \in BagToSet(broadcastAddresses), NEW n \in Neighbor, ProcessHello(s, n)
    PROVE  IInv'
<1> DEFINE d == DeviceOf[s.addr]
           a == Head(addrs[d])
           e == RoutingTableEntry(TRUE, 0, a, 1, n, Lifetime)
<1>1. /\ up[d] /\ s.addr \in ToSet(addrs[d]) /\ nb' = nb \cup {n} /\ htimer' = htimer
      /\ table' \in {Update(table, n, e), AddRoute(table, n, e)}
      /\ up' = up /\ addrs' = addrs /\ socketAddresses' = socketAddresses
      /\ broadcastAddresses' = broadcastAddresses /\ UNCHANGED << packetVars, broadcastVars >>
  BY DEF ProcessHello, ipVars
<1>2. d \in Dev
  BY InterfaceAssumption DEF IInv, Listening, IsSocketMap
<1>3. addrs[d] # << >>
  BY <1>1 DEF ToSet
<1>4. a \in Mine(d) /\ a \in Primaries
  BY <1>1, <1>2, <1>3, PrimariesMine DEF Mine
<1>5. n \in Addr /\ a \in Iface
  BY <1>2, <1>4, InterfaceAssumption, MineOnly DEF IInv, OwnAddress
<1>6. GoodRoute(Primaries, n, e) /\ e.flag # "IN_SEARCH"
  <2>1. Lifetime \in Int /\ Lifetime >= 0 /\ 0 \in 0 .. RreqCntMod - 1
    BY InterfaceAssumption, RreqCntModAssumption
  <2> HIDE DEF a
  <2>2. e \in Entry /\ e.iface = a /\ e.lifeTime = Lifetime /\ e.flag = "VALID"
    BY <1>5, <2>1 DEF RoutingTableEntry, Entry, RouteFlags
  <2> HIDE DEF e
  <2> QED
    BY <1>4, <2>1, <2>2 DEF GoodRoute
<1> HIDE DEF e
<1>7. Routes(Primaries, table') /\ Searched(table') \subseteq Searched(table)
  BY <1>1, <1>5, <1>6, WriteOK DEF IInv
<1>8. Primaries' = Primaries /\ Addressed'
  BY <1>1 DEF IInv, Primaries, Addressed
<1> QED
  BY <1>1, <1>7, <1>8, NetEvent DEF IInv

LEMMA LinkFailureOK ==
    ASSUME IInv, NEW a, LinkFailure(a)
    PROVE  IInv'
<1>1. /\ nb' = nb \ {a} /\ htimer' = htimer /\ table' = InvalidateRoutesWithDst(table, {a})
      /\ up' = up /\ addrs' = addrs /\ socketAddresses' = socketAddresses
      /\ broadcastAddresses' = broadcastAddresses /\ UNCHANGED << packetVars, broadcastVars >>
  BY DEF LinkFailure, ipVars
<1>2. Routes(Primaries, table') /\ Searched(table') \subseteq Searched(table)
  BY <1>1, BreakOK DEF IInv
<1>3. Primaries' = Primaries /\ Addressed'
  BY <1>1 DEF IInv, Primaries, Addressed
<1> QED
  BY <1>1, <1>2, <1>3, NetEvent DEF IInv

-----------------------------------------------------------------------------
(* Packets *)

LEMMA PacketEvent ==
    ASSUME IInv, UNCHANGED << ipVars, socketAddresses, broadcastAddresses, nb, htimer,
                              broadcastVars >>,
           Routes(Primaries, table'), Searched(table') \subseteq retry',
           retry' \subseteq Neighbor, Waits(queue', lo', outcome'), Watched(queue', outcome', retry')
    PROVE  IInv'
<1>1. /\ up' = up /\ addrs' = addrs /\ socketAddresses' = socketAddresses /\ nb' = nb
      /\ broadcastAddresses' = broadcastAddresses /\ htimer' = htimer
      /\ dpd' = dpd /\ deliveries' = deliveries /\ forwards' = forwards
  BY DEF ipVars, broadcastVars
<1>2. Primaries' = Primaries /\ Addressed'
  BY <1>1 DEF IInv, Primaries, Addressed
<1>3. Counted(dpd, deliveries, forwards)'
  BY <1>1 DEF IInv
<1> QED
  BY <1>1, <1>2, <1>3 DEF IInv

\* A dropped packet stays dropped, while only others get another outcome.
LEMMA StillWatched ==
    ASSUME NEW q, NEW r, NEW o, NEW v, NEW R, NEW S, Watched(q, o, R),
           ToSet(r) \subseteq ToSet(q),
           R \subseteq S, \A x \in Packet : o[x] = "dropped" => v[x] = "dropped"
    PROVE  Watched(r, v, S)
  BY DEF Watched, Blocked

\* The packet p, which does not wait any longer, ends with k.
LEMMA Settles ==
    ASSUME NEW q, NEW l, NEW o, Waits(q, l, o), NEW p \in Packet, p \notin ToSet(q),
           NEW k \in Outcomes, k # "waiting", k \in Dev => Suits(p, k)
    PROVE  Waits(q, l \ {p}, [o EXCEPT ![p] = k])
<1> DEFINE v == [o EXCEPT ![p] = k]
<1>1. v \in [Packet -> Outcomes] /\ v[p] = k /\ \A x \in Packet \ {p} : v[x] = o[x]
  BY DEF Waits
<1> HIDE DEF v
<1>2. \A x \in Packet : v[x] = "waiting" <=> x \in (l \ {p}) \cup ToSet(q)
  BY <1>1 DEF Waits
<1>3. \A x \in Packet : v[x] \in Dev => Suits(x, v[x])
  BY <1>1 DEF Waits
<1>4. Waits(q, l \ {p}, v)
  BY <1>1, <1>2, <1>3 DEF Waits
<1> QED
  BY <1>4 DEF v

\* Only the packets at the positions I stay in the queue; those that leave it end
\* with the outcomes of v.
LEMMA Leave ==
    ASSUME NEW q, NEW l, NEW o, Waits(q, l, o), NEW I, I \subseteq DOMAIN q,
           NEW v, v \in [Packet -> Outcomes],
           \A p \in Packet : \/ v[p] = o[p] /\ ~\E i \in DOMAIN q \ I : p = q[i]
                             \/ /\ \E i \in DOMAIN q \ I : p = q[i]
                                /\ v[p] # "waiting" /\ (v[p] \in Dev => Suits(p, v[p]))
    PROVE  /\ Waits(At(q, I), l, v)
           /\ \A p : p \in ToSet(At(q, I)) <=> \E i \in I : p = q[i]
           /\ \A x \in Packet : o[x] = "dropped" => v[x] = "dropped"
<1> DEFINE r == At(q, I)
<1>1. /\ q \in Seq(Packet) /\ l \subseteq Packet /\ l \cap ToSet(q) = {}
      /\ \A i, j \in DOMAIN q : q[i] = q[j] => i = j
      /\ \A p \in Packet : o[p] = "waiting" <=> p \in l \cup ToSet(q)
  BY DEF Waits
<1>2. I \in SUBSET DOMAIN q /\ DOMAIN q = 1 .. Len(q) /\ Len(q) \in Nat
  BY <1>1
<1>3. r \in Seq(Packet) /\ DOMAIN r = 1 .. Cardinality(I) /\ ToSet(r) = { q[i] : i \in I }
  BY <1>1, <1>2, AtType
<1>4. ASSUME NEW j \in DOMAIN r, NEW k \in DOMAIN r, j < k PROVE r[j] # r[k]
  <2>1. Position(I, j) \in I /\ Position(I, k) \in I /\ Position(I, j) < Position(I, k)
    BY <1>2, <1>3, <1>4, PositionRight, PositionOrdered
  <2>2. Position(I, j) \in Int /\ Position(I, k) \in Int
    BY <1>2, <2>1
  <2>3. r[j] = q[Position(I, j)] /\ r[k] = q[Position(I, k)]
    BY <1>3 DEF At
  <2> QED
    BY <1>1, <1>2, <2>1, <2>2, <2>3
<1> HIDE DEF r
<1>5. \A j, k \in DOMAIN r : r[j] = r[k] => j = k
  <2>1. \A j \in DOMAIN r : j \in Int
    BY <1>3
  <2> QED
    BY <1>4, <2>1
<1>6. \A p : p \in ToSet(r) <=> \E i \in I : p = q[i]
  BY <1>3
<1>7. \A p : p \in ToSet(q) <=> \E i \in DOMAIN q : p = q[i]
  BY DEF ToSet
<1>8. ToSet(r) \subseteq ToSet(q)
  BY <1>6, <1>7
<1>9. \A p \in Packet : v[p] = "waiting" <=> p \in l \cup ToSet(r)
  BY <1>1, <1>6, <1>7
<1>10. \A p \in Packet : v[p] \in Dev => Suits(p, v[p])
  BY DEF Waits
<1>11. Waits(r, l, v)
  BY <1>1, <1>3, <1>5, <1>8, <1>9, <1>10 DEF Waits
<1>12. \A x \in Packet : o[x] = "dropped" => v[x] = "dropped"
  BY <1>1, <1>7
<1> QED
  BY <1>6, <1>11, <1>12 DEF r

\* The route to a neighbour that is not searched leads over a device.
LEMMA DeviceOfRoute ==
    ASSUME IInv, NEW d \in Neighbor, HasValidRoute(table, d)
    PROVE  d \in DOMAIN table /\ table[d].flag = "VALID" /\ RouteDevice(d) \in Dev
<1>1. d \in DOMAIN table /\ table[d].flag = "VALID"
  BY PurgeNothing DEF IInv, HasValidRoute, HasRoute
<1>2. table[d].iface \in Primaries
  BY <1>1, InterfaceAssumption DEF IInv, Routes, GoodRoute
<1>3. table[d].iface \in OwnAddress
  BY <1>2, PrimariesApart DEF IInv
<1> QED
  BY <1>1, <1>3, InterfaceAssumption DEF RouteDevice

LEMMA RouteOutputOK ==
    ASSUME IInv, NEW p \in Packet, RouteOutput(p)
    PROVE  IInv'
<1>1. /\ outcome[p] = "none" /\ retry' = retry /\ queue' = queue /\ table' = table
      /\ UNCHANGED << ipVars, socketAddresses, broadcastAddresses, nb, htimer, broadcastVars >>
  BY DEF RouteOutput, netVars
<1>2. /\ p \notin lo /\ p \notin ToSet(queue) /\ outcome \in [Packet -> Outcomes]
      /\ p.dst \in Neighbor
  BY <1>1, InterfaceAssumption DEF IInv, Waits
<1>3. Routes(Primaries, table') /\ Searched(table') \subseteq retry' /\ retry' \subseteq Neighbor
  BY <1>1 DEF IInv
<1>4. ASSUME NEW k \in Outcomes, k # "waiting", k \in Dev => Suits(p, k), lo' = lo,
             outcome' = [outcome EXCEPT ![p] = k]
      PROVE  IInv'
  <2>1. Waits(queue, lo \ {p}, outcome')
    BY <1>2, <1>4, Settles DEF IInv
  <2>2. \A x \in Packet : outcome[x] = "dropped" => outcome'[x] = "dropped"
    BY <1>1, <1>2, <1>4
  <2>3. Watched(queue, outcome', retry)
    BY <2>2, StillWatched DEF IInv
  <2>4. lo \ {p} = lo
    BY <1>2
  <2> QED
    BY <1>1, <1>3, <1>4, <2>1, <2>3, <2>4, PacketEvent
<1>5. ASSUME lo' = lo \cup {p}, outcome' = [outcome EXCEPT ![p] = "waiting"]
      PROVE  IInv'
  <2>1. /\ outcome'[p] = "waiting" /\ \A x \in Packet \ {p} : outcome'[x] = outcome[x]
        /\ outcome' \in [Packet -> Outcomes]
    BY <1>2, <1>5 DEF Outcomes
  <2>2. "waiting" \notin Dev
    BY InterfaceAssumption
  <2>3. Waits(queue, lo', outcome')
    BY <1>2, <1>5, <2>1, <2>2 DEF IInv, Waits
  <2>4. \A x \in Packet : outcome[x] = "dropped" => outcome'[x] = "dropped"
    BY <1>1, <2>1
  <2>5. Watched(queue, outcome', retry)
    BY <2>4, StillWatched DEF IInv
  <2> QED
    BY <1>1, <1>3, <2>3, <2>5, PacketEvent
<1>6. "refused" \in Outcomes /\ "refused" \notin Dev
  BY InterfaceAssumption DEF Outcomes
<1>7. CASE outcome' = [outcome EXCEPT ![p] = "refused"] /\ lo' = lo
  BY <1>4, <1>6, <1>7
<1>8. CASE /\ HasValidRoute(table, p.dst) /\ Suits(p, RouteDevice(p.dst))
           /\ outcome' = [outcome EXCEPT ![p] = RouteDevice(p.dst)] /\ lo' = lo
  <2> DEFINE k == RouteDevice(p.dst)
  <2>1. k \in Dev
    BY <1>2, <1>8, DeviceOfRoute
  <2>2. k \in Outcomes /\ k # "waiting"
    BY <2>1, InterfaceAssumption DEF Outcomes
  <2>3. Suits(p, k) /\ outcome' = [outcome EXCEPT ![p] = k]
    BY <1>8
  <2> HIDE DEF k
  <2> QED
    BY <1>4, <1>8, <2>2, <2>3
<1>9. CASE lo' = lo \cup {p} /\ outcome' = [outcome EXCEPT ![p] = "waiting"]
  BY <1>5, <1>9
<1> QED
  BY <1>7, <1>8, <1>9 DEF RouteOutput

\* A request for d leaves the entry searched and its timer running.
LEMMA SendRequestOK ==
    ASSUME IInv, NEW d \in Neighbor, SendRequest(d)
    PROVE  /\ Routes(Primaries, table') /\ Searched(table') \subseteq retry'
           /\ retry' = retry \cup {d} /\ retry' \subseteq Neighbor
<1> DEFINE fresh == RoutingTableEntry(FALSE, 0, NoIface, 1, NoAddr, Lifetime)
           old == IF d \in DOMAIN table THEN table[d] ELSE fresh
           new == [old EXCEPT !.flag = "IN_SEARCH"]
<1>1. /\ table' \in {Update(table, d, new), AddRoute(table, d, new)}
      /\ retry' = retry \cup {d}
  BY DEF SendRequest
<1>2. d \in Addr /\ d # Loopback /\ \A a \in OwnAddress : d # BroadcastOf[a]
  BY InterfaceAssumption
<1>3. old \in Entry /\ old.lifeTime >= 0 /\ old.iface \in Primaries \cup {NoIface}
  <2>1. Lifetime \in Int /\ Lifetime >= 0 /\ 0 \in 0 .. RreqCntMod - 1
    BY InterfaceAssumption, RreqCntModAssumption
  <2>2. fresh \in Entry /\ fresh.iface = NoIface /\ fresh.lifeTime = Lifetime
    BY <2>1 DEF RoutingTableEntry, Entry, RouteFlags
  <2> HIDE DEF fresh
  <2>3. Primaries \subseteq OwnAddress
    BY PrimariesApart DEF IInv
  <2>4. CASE d \in DOMAIN table
    BY <1>2, <2>3, <2>4 DEF IInv, Routes, GoodRoute
  <2>5. CASE d \notin DOMAIN table
    BY <2>1, <2>2, <2>5
  <2> QED
    BY <2>4, <2>5
<1> HIDE DEF old
<1>4. new \in Entry
  BY <1>3 DEF Entry, RouteFlags
<1>5. new.flag = "IN_SEARCH" /\ new.iface = old.iface /\ new.lifeTime = old.lifeTime
  BY <1>3 DEF Entry
<1> HIDE DEF new
<1>6. GoodRoute(Primaries, d, new)
  BY <1>3, <1>4, <1>5 DEF GoodRoute
<1>7. Routes(Primaries, table') /\ Searched(table') \subseteq Searched(table) \cup {d}
  BY <1>1, <1>2, <1>6, WriteOK DEF IInv
<1> QED
  BY <1>1, <1>7 DEF IInv

LEMMA DeferredOK ==
    ASSUME IInv, NEW p \in Packet, DeferredRouteOutput(p)
    PROVE  IInv'
<1>1. /\ p \in lo /\ lo' = lo \ {p}
      /\ UNCHANGED << ipVars, socketAddresses, broadcastAddresses, nb, htimer, broadcastVars >>
  BY DEF DeferredRouteOutput
<1>2. /\ p \notin ToSet(queue) /\ outcome \in [Packet -> Outcomes] /\ outcome[p] = "waiting"
      /\ p.dst \in Neighbor /\ queue \in Seq(Packet)
  BY <1>1, InterfaceAssumption DEF IInv, Waits
<1>3. CASE /\ outcome' = [outcome EXCEPT ![p] = "dropped"]
           /\ queue' = queue /\ table' = table /\ retry' = retry
  <2>1. "dropped" \in Outcomes /\ "dropped" \notin Dev
    BY InterfaceAssumption DEF Outcomes
  <2>2. Waits(queue, lo \ {p}, outcome')
    BY <1>2, <1>3, <2>1, Settles DEF IInv
  <2>3. \A x \in Packet : outcome[x] = "dropped" => outcome'[x] = "dropped"
    BY <1>2, <1>3
  <2>4. Watched(queue, outcome', retry)
    BY <2>3, StillWatched DEF IInv
  <2> QED
    BY <1>1, <1>3, <2>2, <2>4, PacketEvent DEF IInv
<1>4. CASE /\ queue' = Append(queue, p) /\ outcome' = outcome
           /\ \/ InSearch(table, p.dst) /\ table' = table /\ retry' = retry
              \/ SendRequest(p.dst)
  <2> DEFINE r == Append(queue, p)
  <2>1. /\ Routes(Primaries, table') /\ Searched(table') \subseteq retry'
        /\ retry \subseteq retry' /\ retry' \subseteq Neighbor /\ p.dst \in retry'
    <3>1. CASE InSearch(table, p.dst) /\ table' = table /\ retry' = retry
      BY <3>1 DEF IInv, InSearch, Searched
    <3>2. CASE SendRequest(p.dst)
      BY <1>2, <3>2, SendRequestOK
    <3> QED
      BY <1>4, <3>1, <3>2
  <2>2. r \in Seq(Packet) /\ ToSet(r) = ToSet(queue) \cup {p}
    BY <1>2, AppendSet
  <2>3. \A i, j \in DOMAIN r : r[i] = r[j] => i = j
    <3>1. /\ Len(queue) \in Nat /\ DOMAIN queue = 1 .. Len(queue)
          /\ DOMAIN r = 1 .. Len(queue) + 1 /\ r[Len(queue) + 1] = p
          /\ \A i \in DOMAIN queue : r[i] = queue[i] /\ queue[i] # p
      BY <1>2 DEF ToSet
    <3>2. \A i, j \in DOMAIN queue : queue[i] = queue[j] => i = j
      BY DEF IInv, Waits
    <3> HIDE DEF r
    <3>3. \A i \in DOMAIN r : i \in DOMAIN queue \/ i = Len(queue) + 1
      BY <3>1
    <3> QED
      BY <3>1, <3>2, <3>3
  <2> HIDE DEF r
  <2>4. Waits(r, lo \ {p}, outcome)
    BY <1>1, <1>2, <2>2, <2>3 DEF IInv, Waits
  <2>5. Watched(r, outcome, retry')
    BY <2>1, <2>2 DEF IInv, Watched
  <2>6. queue' = r
    BY <1>4 DEF r
  <2> QED
    BY <1>1, <1>4, <2>1, <2>4, <2>5, <2>6, PacketEvent
<1> QED
  BY <1>3, <1>4 DEF DeferredRouteOutput

\* The packets for d leave; those that stay are behind one that is dropped.
LEMMA SentOK ==
    ASSUME IInv, NEW d \in Neighbor, NEW dev \in Dev, SendPacketFromQueue(d, dev)
    PROVE  Waits(queue', lo, outcome') /\ Watched(queue', outcome', retry \ {d})
<1> DEFINE forD == { i \in DOMAIN queue : queue[i].dst = d }
           bad == { i \in forD : ~Suits(queue[i], dev) }
           left == { i \in forD : \A j \in bad : i <= j }
           taken == { queue[i] : i \in left }
           v == [ p \in Packet |-> IF p \notin taken THEN outcome[p]
                                   ELSE IF Suits(p, dev) THEN dev ELSE "dropped" ]
<1>1. queue' = At(queue, DOMAIN queue \ left) /\ outcome' = v
  BY DEF SendPacketFromQueue
<1>2. /\ queue \in Seq(Packet) /\ outcome \in [Packet -> Outcomes] /\ Waits(queue, lo, outcome)
      /\ Watched(queue, outcome, retry) /\ DOMAIN queue = 1 .. Len(queue) /\ Len(queue) \in Nat
  BY DEF IInv, Waits
<1>3. \A p \in Packet : v[p] = IF p \notin taken THEN outcome[p]
                               ELSE IF Suits(p, dev) THEN dev ELSE "dropped"
  OBVIOUS
<1>4. dev \in Outcomes /\ "dropped" \in Outcomes /\ dev # "waiting" /\ "dropped" \notin Dev
  BY InterfaceAssumption DEF Outcomes
<1>5. v \in [Packet -> Outcomes]
  BY <1>2, <1>4
<1> HIDE DEF v
<1>6. left \subseteq forD /\ bad \subseteq forD /\ forD \subseteq DOMAIN queue
  OBVIOUS
<1>7. \A i : i \in left <=> i \in forD /\ \A j \in bad : i <= j
  OBVIOUS
<1>8. \A i \in bad : queue[i] \in Packet /\ queue[i].dst = d /\ ~Suits(queue[i], dev)
  BY <1>2
<1>9. \A i \in DOMAIN queue : i \in forD <=> queue[i].dst = d
  OBVIOUS
<1> HIDE DEF left, bad, forD
<1>10. \A p : p \in taken <=> \E i \in left : p = queue[i]
  OBVIOUS
<1> DEFINE I == DOMAIN queue \ left
<1>11. I \subseteq DOMAIN queue /\ \A i \in DOMAIN queue : i \in I <=> i \notin left
  OBVIOUS
<1> HIDE DEF I, taken
<1>12. \A p : p \in taken <=> \E i \in DOMAIN queue \ I : p = queue[i]
  BY <1>6, <1>10, <1>11
<1>13. /\ Waits(queue', lo, v)
       /\ \A p : p \in ToSet(queue') <=> \E i \in I : p = queue[i]
       /\ \A x \in Packet : outcome[x] = "dropped" => v[x] = "dropped"
  <2>1. \A p \in Packet : \/ v[p] = outcome[p] /\ ~\E i \in DOMAIN queue \ I : p = queue[i]
                          \/ /\ \E i \in DOMAIN queue \ I : p = queue[i]
                             /\ v[p] # "waiting" /\ (v[p] \in Dev => Suits(p, v[p]))
    BY <1>3, <1>4, <1>12
  <2>2. queue' = At(queue, I)
    BY <1>1 DEF I
  <2> QED
    BY <1>2, <1>5, <1>11, <2>1, <2>2, Leave
<1>14. ASSUME NEW p \in ToSet(queue') PROVE p.dst \in retry \ {d} \/ Blocked(v, p.dst)
  <2>1. PICK i \in I : p = queue[i]
    BY <1>13
  <2>2. i \in DOMAIN queue /\ i \notin left /\ p \in ToSet(queue)
    BY <1>11, <2>1 DEF ToSet
  <2>3. CASE p.dst # d
    BY <1>2, <1>13, <2>2, <2>3 DEF Watched, Blocked
  <2>4. CASE p.dst = d
    <3>1. bad # {} /\ bad \in SUBSET (1 .. Len(queue))
      BY <1>2, <1>6, <1>7, <1>9, <2>1, <2>2, <2>4
    <3> DEFINE m == Min(bad)
               x == queue[m]
    <3>2. m \in bad /\ \A j \in bad : m <= j
      BY <1>2, <3>1, SmallestPosition
    <3> HIDE DEF m
    <3>3. x \in taken /\ x \in Packet /\ x.dst = d /\ ~Suits(x, dev)
      BY <1>6, <1>7, <1>8, <1>10, <3>2
    <3> HIDE DEF x
    <3>4. v[x] = "dropped" /\ x.oif # NoDev
      BY <1>3, <3>3 DEF Suits
    <3> QED
      BY <2>4, <3>3, <3>4 DEF Blocked
  <2> QED
    BY <2>3, <2>4
<1> QED
  BY <1>1, <1>13, <1>14 DEF Watched

LEMMA TimerExpireOK ==
    ASSUME IInv, NEW d \in Neighbor, RouteRequestTimerExpire(d)
    PROVE  IInv'
<1>1. /\ lo' = lo
      /\ UNCHANGED << ipVars, socketAddresses, broadcastAddresses, nb, htimer, broadcastVars >>
  BY DEF RouteRequestTimerExpire
<1>2. CASE /\ HasValidRoute(table, d) /\ SendPacketFromQueue(d, RouteDevice(d))
           /\ retry' = retry \ {d} /\ table' = table
  <2>1. d \in DOMAIN table /\ table[d].flag = "VALID" /\ RouteDevice(d) \in Dev
    BY <1>2, DeviceOfRoute
  <2>2. Waits(queue', lo, outcome') /\ Watched(queue', outcome', retry \ {d})
    BY <1>2, <2>1, SentOK
  <2>3. Searched(table) \subseteq retry \ {d}
    BY <2>1 DEF IInv, Searched
  <2>4. Routes(Primaries, table) /\ retry \ {d} \subseteq Neighbor
    BY DEF IInv
  <2> QED
    BY <1>1, <1>2, <2>2, <2>3, <2>4, PacketEvent
<1>3. CASE SendRequest(d) /\ queue' = queue /\ outcome' = outcome
  <2>1. /\ Routes(Primaries, table') /\ Searched(table') \subseteq retry'
        /\ retry \subseteq retry' /\ retry' \subseteq Neighbor
    BY <1>3, SendRequestOK
  <2>2. Waits(queue', lo', outcome') /\ Watched(queue', outcome', retry')
    BY <1>1, <1>3, <2>1 DEF IInv, Watched
  <2> QED
    BY <1>1, <2>1, <2>2, PacketEvent
<1>4. CASE /\ table' = DeleteRoute(table, d) /\ retry' = retry \ {d}
           /\ queue' = At(queue, { i \in DOMAIN queue : queue[i].dst # d })
           /\ outcome' = [ p \in Packet |-> IF p \in ToSet(queue) /\ p.dst = d
                                            THEN "refused" ELSE outcome[p] ]
  <2> DEFINE I == { i \in DOMAIN queue : queue[i].dst # d }
  <2>1. /\ Routes(Primaries, table') /\ Searched(table') \subseteq retry'
        /\ retry' \subseteq Neighbor
    <3>1. Primaries \subseteq OwnAddress
      BY PrimariesApart DEF IInv
    <3>2. Routes(Primaries, table') /\ Searched(table') \subseteq Searched(table) \ {d}
      BY <1>4, <3>1, DeleteOK DEF IInv
    <3> QED
      BY <1>4, <3>2 DEF IInv
  <2>2. /\ I \subseteq DOMAIN queue /\ queue' = At(queue, I)
        /\ \A i \in DOMAIN queue : i \in I <=> queue[i].dst # d
    BY <1>4
  <2>3. \A p : p \in ToSet(queue) <=> \E i \in DOMAIN queue : p = queue[i]
    BY DEF ToSet
  <2>4. "refused" \in Outcomes /\ "refused" \notin Dev
    BY InterfaceAssumption DEF Outcomes
  <2>5. /\ Waits(queue, lo, outcome) /\ outcome \in [Packet -> Outcomes]
        /\ Watched(queue, outcome, retry)
    BY DEF IInv, Waits
  <2> DEFINE v == [ p \in Packet |-> IF p \in ToSet(queue) /\ p.dst = d
                                     THEN "refused" ELSE outcome[p] ]
  <2>6. v \in [Packet -> Outcomes] /\ outcome' = v
    BY <1>4, <2>4, <2>5
  <2>7. \A p \in Packet : v[p] = IF p \in ToSet(queue) /\ p.dst = d THEN "refused" ELSE outcome[p]
    OBVIOUS
  <2> HIDE DEF I, v
  <2>8. \A p \in Packet : \/ v[p] = outcome[p] /\ ~\E i \in DOMAIN queue \ I : p = queue[i]
                          \/ /\ \E i \in DOMAIN queue \ I : p = queue[i]
                             /\ v[p] # "waiting" /\ (v[p] \in Dev => Suits(p, v[p]))
    BY <2>2, <2>3, <2>4, <2>7
  <2>9. /\ Waits(queue', lo, v)
        /\ \A p : p \in ToSet(queue') <=> \E i \in I : p = queue[i]
        /\ \A x \in Packet : outcome[x] = "dropped" => v[x] = "dropped"
    BY <2>2, <2>5, <2>6, <2>8, Leave
  <2>10. Watched(queue', v, retry')
    BY <1>4, <2>2, <2>3, <2>5, <2>9 DEF Watched, Blocked
  <2> QED
    BY <1>1, <2>1, <2>6, <2>9, <2>10, PacketEvent
<1> QED
  BY <1>2, <1>3, <1>4 DEF RouteRequestTimerExpire

-----------------------------------------------------------------------------
(* Broadcast data *)

LEMMA DatagramEvent ==
    ASSUME IInv, UNCHANGED << ipVars, netVars, packetVars >>, Counted(dpd', deliveries', forwards')
    PROVE  IInv'
<1>1. /\ up' = up /\ addrs' = addrs /\ socketAddresses' = socketAddresses /\ nb' = nb
      /\ broadcastAddresses' = broadcastAddresses /\ table' = table /\ htimer' = htimer
      /\ retry' = retry /\ lo' = lo /\ queue' = queue /\ outcome' = outcome
  BY DEF ipVars, netVars, packetVars
<1>2. Primaries' = Primaries /\ Addressed'
  BY <1>1 DEF IInv, Primaries, Addressed
<1> QED
  BY <1>1, <1>2 DEF IInv

\* The table has a route for every subnet, and none for all hosts.
LEMMA RouteOfDatagram ==
    ASSUME IInv, NEW m, NEW s \in BagToSet(socketAddresses),
           m.dst \in {BroadcastOf[s.addr], AllHosts}
    PROVE  HasRoute(table, m.dst) <=> m.dst # AllHosts
<1>1. s.addr \in Primaries
  BY Sockets DEF IInv, Listening
<1>2. Routes(Primaries, table) /\ Purge(table) = table
  BY PurgeNothing DEF IInv
<1>3. m.dst # AllHosts => m.dst \in DOMAIN table
  BY <1>1, <1>2 DEF Routes
<1>4. AllHosts \notin DOMAIN table
  <2> SUFFICES ASSUME AllHosts \in DOMAIN table PROVE FALSE
    OBVIOUS
  <2>1. GoodRoute(Primaries, AllHosts, table[AllHosts])
    BY <1>2 DEF Routes
  <2>2. Primaries \subseteq OwnAddress
    BY PrimariesApart DEF IInv
  <2> QED
    BY <2>1, <2>2, InterfaceAssumption DEF GoodRoute
<1> QED
  BY <1>2, <1>3, <1>4 DEF HasRoute

LEMMA RecvBroadcastOK ==
    ASSUME IInv, NEW d \in Dev, NEW m \in Datagram, RecvBroadcast(d, m)
    PROVE  IInv'
<1>1. /\ m \notin dpd /\ dpd' = dpd \cup {m}
      /\ deliveries' = [deliveries EXCEPT ![m] = @ + 1]
      /\ forwards' = IF EnableBroadcast /\ m.ttl > 1 /\ HasRoute(table, m.dst)
                     THEN [forwards EXCEPT ![m] = @ + 1] ELSE forwards
      /\ UNCHANGED << ipVars, netVars, packetVars >>
  BY DEF RecvBroadcast, IsKnown
<1>2. HasRoute(table, m.dst) <=> m.dst # AllHosts
  <2>1. PICK s \in BagToSet(socketAddresses) : m.dst \in {BroadcastOf[s.addr], AllHosts}
    BY DEF RecvBroadcast
  <2> QED
    BY <2>1, RouteOfDatagram
<1>3. forwards' = IF Travels(m) THEN [forwards EXCEPT ![m] = @ + 1] ELSE forwards
  BY <1>1, <1>2 DEF Travels
<1>4. /\ dpd \subseteq Datagram /\ deliveries \in [Datagram -> Nat]
      /\ forwards \in [Datagram -> Nat] /\ deliveries[m] = 0 /\ forwards[m] = 0
      /\ \A x \in Datagram \ {m} : /\ deliveries[x] = IF x \in dpd THEN 1 ELSE 0
                                   /\ forwards[x] = IF x \in dpd /\ Travels(x) THEN 1 ELSE 0
  BY <1>1 DEF IInv, Counted
<1>5. /\ dpd' \subseteq Datagram /\ deliveries' \in [Datagram -> Nat]
      /\ deliveries'[m] = 1 /\ \A x \in Datagram \ {m} : deliveries'[x] = deliveries[x]
  BY <1>1, <1>4
<1>6. /\ forwards' \in [Datagram -> Nat]
      /\ forwards'[m] = IF Travels(m) THEN 1 ELSE 0
      /\ \A x \in Datagram \ {m} : forwards'[x] = forwards[x]
  BY <1>3, <1>4
<1>7. \A x \in Datagram : /\ deliveries'[x] = IF x \in dpd' THEN 1 ELSE 0
                          /\ forwards'[x] = IF x \in dpd' /\ Travels(x) THEN 1 ELSE 0
  BY <1>1, <1>4, <1>5, <1>6
<1>8. Counted(dpd', deliveries', forwards')
  BY <1>5, <1>6, <1>7 DEF Counted
<1> QED
  BY <1>1, <1>8, DatagramEvent

LEMMA RecordExpiresOK ==
    ASSUME IInv, NEW m \in Datagram, RecordExpires(m)
    PROVE  IInv'
<1>1. /\ dpd' = dpd \ {m} /\ deliveries' = [deliveries EXCEPT ![m] = 0]
      /\ forwards' = [forwards EXCEPT ![m] = 0] /\ UNCHANGED << ipVars, netVars, packetVars >>
  BY DEF RecordExpires
<1>2. Counted(dpd', deliveries', forwards')
  BY <1>1 DEF IInv, Counted
<1> QED
  BY <1>1, <1>2, DatagramEvent

-----------------------------------------------------------------------------
(* Invariance *)

LEMMA NextOK == IInv /\ [Next]_vars => IInv'
<1> SUFFICES ASSUME IInv, [Next]_vars PROVE IInv'
  OBVIOUS
<1>1. ASSUME NEW d \in Dev, NotifyInterfaceUp(d) \/ NotifyInterfaceDown(d) PROVE IInv'
  BY <1>1, UpOK, DownOK
<1>2. ASSUME NEW d \in Dev, NEW a \in OwnAddress,
             NotifyAddAddress(d, a) \/ NotifyRemoveAddress(d, a)
      PROVE  IInv'
  BY <1>2, AddAddressOK, RemoveAddressOK
<1>3. ASSUME NEW s \in BagToSet(broadcastAddresses), NEW n \in Neighbor, ProcessHello(s, n)
      PROVE  IInv'
  BY <1>3, HelloOK
<1>4. ASSUME NEW a \in Neighbor, LinkFailure(a) \/ RouteRequestTimerExpire(a) PROVE IInv'
  BY <1>4, LinkFailureOK, TimerExpireOK
<1>5. ASSUME NEW p \in Packet, RouteOutput(p) \/ DeferredRouteOutput(p) PROVE IInv'
  BY <1>5, RouteOutputOK, DeferredOK
<1>6. ASSUME NEW d \in Dev, NEW m \in Datagram, RecvBroadcast(d, m) PROVE IInv'
  BY <1>6, RecvBroadcastOK
<1>7. ASSUME NEW m \in Datagram, RecordExpires(m) PROVE IInv'
  BY <1>7, RecordExpiresOK
<1>8. CASE UNCHANGED vars
  <2>1. /\ up' = up /\ addrs' = addrs /\ UNCHANGED << packetVars, broadcastVars >>
        /\ socketAddresses' = socketAddresses /\ broadcastAddresses' = broadcastAddresses
        /\ table' = table /\ nb' = nb /\ htimer' = htimer
    BY <1>8 DEF vars, ipVars, netVars
  <2>2. Primaries' = Primaries /\ Addressed'
    BY <2>1 DEF IInv, Primaries, Addressed
  <2> QED
    BY <2>1, <2>2, NetEvent DEF IInv
<1> QED
  BY <1>1, <1>2, <1>3, <1>4, <1>5, <1>6, <1>7, <1>8 DEF Next

\* IInv holds in every state that can be reached.
LEMMA Invariance == Spec => []IInv
  BY InitOK, NextOK, PTL DEF Spec

\* Every variable has its type, and a packet waits exactly while it is in the
\* loopback device or in the queue.
THEOREM TypeCorrect == Spec => []TypeOK
<1>1. IInv => TypeOK
  <2> SUFFICES ASSUME IInv PROVE TypeOK
    OBVIOUS
  <2>1. IsTable(table)
    BY DEF IInv, Routes, GoodRoute, IsTable
  <2>2. IsSocketMap(socketAddresses)
    <3>1. Primaries \subseteq OwnAddress
      BY PrimariesApart DEF IInv
    <3>2. BagToSet(socketAddresses) \subseteq [addr : OwnAddress, bound : BOOLEAN]
      <4> SUFFICES ASSUME NEW s \in BagToSet(socketAddresses)
                   PROVE  s \in [addr : OwnAddress, bound : BOOLEAN]
        OBVIOUS
      <4>0. BagToSet(socketAddresses) = Bound(Primaries)
        BY Sockets DEF IInv, Listening
      <4>1. s = Socket(s.addr, TRUE) /\ s.addr \in Primaries
        BY <4>0, Sockets
      <4>2. Socket(s.addr, TRUE) \in [addr : OwnAddress, bound : BOOLEAN]
        BY <3>1, <4>1 DEF Socket
      <4> QED
        BY <4>1, <4>2
    <3>3. IsABag(socketAddresses)
      BY DEF IInv, Listening, SetToBag, IsABag
    <3> QED
      BY <3>2, <3>3 DEF IsSocketMap
  <2> QED
    BY <2>1, <2>2 DEF IInv, TypeOK, Addressed, Listening, Waits, Outcomes, Counted
<1> QED
  BY <1>1, Invariance, PTL

\* Whatever order interfaces and addresses come and go in, the node listens on
\* every interface that is up: NotifyInterfaceUp, NotifyInterfaceDown,
\* NotifyAddAddress and NotifyRemoveAddress keep exactly one unicast socket for
\* it, bound to its first address, and a bound socket for its broadcasts.
THEOREM ListensAlways == Spec => []ListensEverywhere
<1>1. IInv => ListensEverywhere
  <2> SUFFICES ASSUME IInv PROVE ListensEverywhere
    OBVIOUS
  <2>1. socketAddresses = SetToBag({ Socket(a, TRUE) : a \in Primaries })
    BY DEF IInv, Listening, Bound
  <2> QED
    BY <2>1 DEF IInv, Listening, ListensEverywhere, SocketsWith
<1> QED
  BY <1>1, Invariance, PTL

\* No route outlives the interface it names: the socket that SendReply,
\* SendReplyAck, RecvReply and SendRerrMessage look up for it is there.
THEOREM RoutesKeepSocket == Spec => []RoutesHaveSocket
<1>1. IInv => RoutesHaveSocket
  BY DEF IInv, Routes, GoodRoute, RoutesHaveSocket
<1> QED
  BY <1>1, Invariance, PTL

\* While m_dpd keeps its record RouteInput delivers a broadcast datagram once, on
\* whichever interfaces its copies arrive and however these change.  It finds the
\* route of the subnet and passes on, once, one that may travel further; one for
\* all hosts finds no route and is never passed on.
THEOREM BroadcastsRelayed == Spec => []BroadcastRelayed
<1>1. IInv => BroadcastRelayed
  <2> SUFFICES ASSUME IInv PROVE BroadcastRelayed
    OBVIOUS
  <2>1. \A a \in Primaries : HasRoute(table, BroadcastOf[a])
    BY PurgeNothing DEF IInv, Routes, HasRoute
  <2>2. \A m \in Datagram :
          /\ deliveries[m] <= 1
          /\ forwards[m] = IF EnableBroadcast /\ m.ttl > 1 /\ m.dst # AllHosts
                           THEN deliveries[m] ELSE 0
    BY DEF IInv, Counted, Travels
  <2> QED
    BY <2>1, <2>2 DEF BroadcastRelayed
<1> QED
  BY <1>1, Invariance, PTL

\* A packet bound to a device leaves over no other, from RouteOutput or from the
\* queue (SendPacketFromQueue).
THEOREM DevicesRespected == Spec => []DeviceRespected
<1>1. IInv => DeviceRespected
  BY DEF IInv, Waits, DeviceRespected
<1> QED
  BY <1>1, Invariance, PTL

\* A packet in the queue whose destination has no retry timer is there because
\* SendPacketFromQueue ended at a packet bound to another device.
THEOREM OnlyDeviceStrands == Spec => []StrandedOnlyByDevice
<1>1. IInv => StrandedOnlyByDevice
  BY DEF IInv, Watched, Blocked, StrandedOnlyByDevice
<1> QED
  BY <1>1, Invariance, PTL
=============================================================================
