--------------------------- MODULE MessageHeaders ---------------------------
(***************************************************************************)
(* The headers of the four messages (src/model/madaodv-packet.{h,cc}): the *)
(* objects the handlers fill in, and the octets that travel.               *)
(*                                                                         *)
(* A message is built with the setters, serialised behind a TypeHeader,    *)
(* deserialised by the receiver, edited there and sent on.  meant records  *)
(* what the callers of the setters meant, whatever the header makes of it. *)
(*                                                                         *)
(* OctetMod is 256 and CountMod, the values of a RERR's count octet, too;  *)
(* the model leaves them open.  Words are of four octets.                  *)
(***************************************************************************)
EXTENDS Integers, Functions, SequencesExt

CONSTANTS
    OctetMod, CountMod,
    TimePerMs,       \* units of Time in a millisecond
    Hops,            \* values used for single octets,
    Words,           \* for identifiers and sequence numbers,
    Addresses,       \* for IP addresses, ordered as numbers,
    Times            \* and for lifetimes

WordMod == OctetMod ^ 4

ASSUME OctetAssumption ==
    /\ OctetMod \in Nat /\ OctetMod >= 128 /\ CountMod \in 2 .. OctetMod
    /\ TimePerMs \in Nat \ {0}
    /\ Hops \subseteq 0 .. OctetMod - 1
    /\ Words \cup Addresses \subseteq 0 .. WordMod - 1
    /\ Times \subseteq Nat

VARIABLES
    type,       \* the message at hand, None if there is none
    header,     \* the members of its header object
    wire,       \* octets on their way
    meant       \* history: what the setters were called with

vars == << type, header, wire, meant >>

None == "none"
MessageType == << "RREQ", "RREP", "RERR", "RREP_ACK" >>

-----------------------------------------------------------------------------
(* Octets *)

\* WriteU8, WriteHtonU32, WriteTo: the octets of v, the highest first.
Octets(v, width) == [ i \in 1 .. width |-> (v \div OctetMod ^ (width - i)) % OctetMod ]

\* ReadU8, ReadNtohU32, ReadFrom.
Number(octets) == FoldLeft(LAMBDA v, o : v * OctetMod + o, 0, octets)

-----------------------------------------------------------------------------
(* Flags *)

\* Mutant of Bit: two flags of a RREQ share a bit.
BitShared(flag) == [ gratuitous |-> 5, destinationOnly |-> 5, unknownSeqno |-> 3,
                     ackRequired |-> 6, noDelete |-> 0 ][flag]

Bit(flag) == [ gratuitous |-> 5, destinationOnly |-> 4, unknownSeqno |-> 3,
               ackRequired |-> 6, noDelete |-> 0 ][flag]

GetFlag(flags, flag) == (flags \div 2 ^ Bit(flag)) % 2 = 1

SetFlag(flags, flag, f) ==
    CASE f /\ ~GetFlag(flags, flag) -> flags + 2 ^ Bit(flag)
      [] ~f /\ GetFlag(flags, flag) -> flags - 2 ^ Bit(flag)
      [] OTHER -> flags

FlagsOf(t) == CASE t = "RREQ" -> {"gratuitous", "destinationOnly", "unknownSeqno"}
                [] t = "RREP" -> {"ackRequired"}
                [] t = "RERR" -> {"noDelete"}
                [] OTHER -> {}

-----------------------------------------------------------------------------
(* The header objects: all members as the constructors set them.           *)

\* Members of one octet and of one word, which have plain setters and getters.
OctetFields(t) == CASE t = "RREQ" -> {"hopCount"}
                    [] t = "RREP" -> {"hopCount", "prefixSize"}
                    [] OTHER -> {}
WordFields(t) == CASE t = "RREQ" -> {"requestID", "dstSeqNo", "originSeqNo"}
                   [] t = "RREP" -> {"dstSeqNo"}
                   [] OTHER -> {}
AddressFields(t) == IF t \in {"RREQ", "RREP"} THEN {"dst", "origin"} ELSE {}

PlainFields(t) == OctetFields(t) \cup WordFields(t) \cup AddressFields(t)

NoDestinations == [ a \in {} |-> 0 ]

Constructed(t) ==
    CASE t = "RREQ" -> [ f \in PlainFields(t) \cup {"flags", "reserved"} |-> 0 ]
      [] t = "RREP" -> [ f \in PlainFields(t) \cup {"flags", "lifeTime"} |-> 0 ]
      [] t = "RERR" -> [ flags |-> 0, reserved |-> 0, unreachable |-> NoDestinations ]
      [] OTHER -> [ reserved |-> 0 ]

GetDestCount(h) == Cardinality(DOMAIN h.unreachable) % CountMod

GetSerializedSize(t, h) == CASE t = "RREQ" -> 23
                             [] t = "RREP" -> 19
                             [] t = "RERR" -> 3 + 8 * GetDestCount(h)
                             [] OTHER -> 1

\* The order in which Serialize writes the members, with their widths.
Written(t) ==
    CASE t = "RREQ" -> << <<"flags", 1>>, <<"reserved", 1>>, <<"hopCount", 1>>,
                          <<"requestID", 4>>, <<"dst", 4>>, <<"dstSeqNo", 4>>,
                          <<"origin", 4>>, <<"originSeqNo", 4>> >>
      [] t = "RREP" -> << <<"flags", 1>>, <<"prefixSize", 1>>, <<"hopCount", 1>>,
                          <<"dst", 4>>, <<"dstSeqNo", 4>>, <<"origin", 4>>,
                          <<"lifeTime", 4>> >>
      [] t = "RERR" -> << <<"flags", 1>>, <<"reserved", 1>> >>
      [] OTHER -> << <<"reserved", 1>> >>

\* The order in which Deserialize reads them.
Read(t) ==
    CASE t = "RREQ" -> << <<"flags", 1>>, <<"reserved", 1>>, <<"hopCount", 1>>,
                          <<"requestID", 4>>, <<"dst", 4>>, <<"dstSeqNo", 4>>,
                          <<"origin", 4>>, <<"originSeqNo", 4>> >>
      [] t = "RREP" -> << <<"flags", 1>>, <<"prefixSize", 1>>, <<"hopCount", 1>>,
                          <<"dst", 4>>, <<"dstSeqNo", 4>>, <<"origin", 4>>,
                          <<"lifeTime", 4>> >>
      [] t = "RERR" -> << <<"flags", 1>>, <<"reserved", 1>> >>
      [] OTHER -> << <<"reserved", 1>> >>

\* The list of a RERR, in the order of the addresses, behind its length.
SerializeUnreachable(un) ==
    LET order == SetToSortSeq(DOMAIN un, <)
    IN  <<Cardinality(DOMAIN un) % CountMod>>
        \o FlattenSeq([ k \in DOMAIN order |-> Octets(order[k], 4) \o Octets(un[order[k]], 4) ])

Serialize(t, h) ==
    FlattenSeq([ k \in DOMAIN Written(t) |-> Octets(h[Written(t)[k][1]], Written(t)[k][2]) ])
    \o (IF t = "RERR" THEN SerializeUnreachable(h.unreachable) ELSE << >>)

\* Where the k-th member of a layout starts.
Offset(layout, k) == FoldLeft(LAMBDA n, m : n + m[2], 0, SubSeq(layout, 1, k - 1))

DeserializeUnreachable(octets) ==
    LET word(i) == Number(SubSeq(octets, i, i + 3))
        entries == 1 .. octets[1]
    IN  [ a \in { word(8 * k - 6) : k \in entries } |->
            word(8 * (CHOOSE k \in entries : word(8 * k - 6) = a) - 2) ]

Deserialize(t, octets) ==
    LET layout == Read(t)
        value(k) == Number(SubSeq(octets, Offset(layout, k) + 1,
                                  Offset(layout, k) + layout[k][2]))
        of(f) == CHOOSE k \in DOMAIN layout : layout[k][1] = f
        fixed == [ f \in { layout[k][1] : k \in DOMAIN layout } |-> value(of(f)) ]
    IN  IF t = "RERR"
        THEN fixed @@ [ unreachable |->
                          DeserializeUnreachable(SubSeq(octets, 3, Len(octets))) ]
        ELSE fixed

-----------------------------------------------------------------------------
(* What the getters return *)

GetLifeTime(h) == h.lifeTime * TimePerMs

View(t, h) ==
    [ f \in PlainFields(t) |-> h[f] ]
    @@ [ f \in FlagsOf(t) |-> GetFlag(h.flags, f) ]
    @@ (IF t = "RERR" THEN [ unreachable |-> h.unreachable ] ELSE << >>)

-----------------------------------------------------------------------------
Init == type = None /\ header = << >> /\ wire = << >> /\ meant = << >>

\* A handler creates a message.
Create(t) ==
    /\ type = None /\ wire = << >>
    /\ type' = t
    /\ header' = Constructed(t)
    /\ meant' = View(t, Constructed(t)) @@ (IF t = "RREP" THEN [lifeTime |-> 0] ELSE << >>)
    /\ UNCHANGED wire

Edit(newHeader, newMeant) ==
    /\ header' = newHeader /\ meant' = newMeant
    /\ UNCHANGED << type, wire >>

\* SetHopCount, SetPrefixSize, SetId, SetDstSeqno, SetOriginSeqno, SetDst, SetOrigin.
SetField(f, v) ==
    /\ \/ f \in OctetFields(type) /\ v \in Hops
       \/ f \in WordFields(type) /\ v \in Words
       \/ f \in AddressFields(type) /\ v \in Addresses
    /\ Edit([header EXCEPT ![f] = v], [meant EXCEPT ![f] = v])

\* SetGratuitousRrep, SetDestinationOnly, SetUnknownSeqno, SetAckRequired, SetNoDelete.
SetFlagOf(f, on) ==
    /\ f \in FlagsOf(type)
    /\ Edit([header EXCEPT !.flags = SetFlag(@, f, on)], [meant EXCEPT ![f] = on])

\* A Time as the uint32_t of the header.
Milliseconds(t) == (t \div TimePerMs) % WordMod

SetLifeTime(t) ==
    /\ type = "RREP"
    /\ Edit([header EXCEPT !.lifeTime = Milliseconds(t)], [meant EXCEPT !.lifeTime = t])

SetHello(a, seqNo, t) ==
    /\ type = "RREP"
    /\ Edit([ flags |-> 0, prefixSize |-> 0, hopCount |-> 0, dst |-> a, dstSeqNo |-> seqNo,
              origin |-> a, lifeTime |-> Milliseconds(t) ],
            [ ackRequired |-> FALSE, prefixSize |-> 0, hopCount |-> 0, dst |-> a,
              dstSeqNo |-> seqNo, origin |-> a, lifeTime |-> t ])

\* Mutant of CanAdd: no assertion guards the count.
CanAddAny(h) == TRUE

\* The assertion of AddUnDestination.
CanAdd(h) == GetDestCount(h) < CountMod - 1

AddUnDestination(a, seqNo) ==
    LET added(un) == IF a \in DOMAIN un THEN un ELSE un @@ (a :> seqNo)
    IN  /\ type = "RERR"
        /\ a \in DOMAIN header.unreachable \/ CanAdd(header)
        /\ Edit([header EXCEPT !.unreachable = added(@)],
                [meant EXCEPT !.unreachable = added(@)])

RemoveUnDestination ==
    /\ type = "RERR" /\ DOMAIN header.unreachable # {}
    /\ LET first == Min(DOMAIN header.unreachable)
           rest(un) == Restrict(un, DOMAIN un \ {first})
       IN  Edit([header EXCEPT !.unreachable = rest(@)],
                [meant EXCEPT !.unreachable = rest(@)])

Clear ==
    /\ type = "RERR"
    /\ Edit(Constructed("RERR"), View("RERR", Constructed("RERR")))

\* The message is put behind a TypeHeader and sent.
Send ==
    /\ type # None
    /\ \E code \in DOMAIN MessageType :
         /\ MessageType[code] = type
         /\ wire' = <<code>> \o Serialize(type, header)
    /\ type' = None /\ header' = << >>
    /\ UNCHANGED meant

\* Something else arrives on the port.
Foreign(octet) ==
    /\ type = None /\ wire = << >>
    /\ wire' = <<octet>>
    /\ UNCHANGED << type, header, meant >>

\* RecvMadaodv: an unknown type is dropped.
Receive ==
    /\ wire # << >>
    /\ \/ /\ wire[1] \in DOMAIN MessageType
          /\ type' = MessageType[wire[1]]
          /\ header' = Deserialize(type', Tail(wire))
          /\ UNCHANGED meant
       \/ /\ wire[1] \notin DOMAIN MessageType
          /\ meant' = << >>
          /\ UNCHANGED << type, header >>
    /\ wire' = << >>

Drop ==
    /\ type # None
    /\ type' = None /\ header' = << >> /\ meant' = << >>
    /\ UNCHANGED wire

Next ==
    \/ \E t \in Range(MessageType) : Create(t)
    \/ \E f \in PlainFields(type), v \in Hops \cup Words \cup Addresses : SetField(f, v)
    \/ \E f \in FlagsOf(type), on \in BOOLEAN : SetFlagOf(f, on)
    \/ \E t \in Times : SetLifeTime(t)
    \/ \E a \in Addresses, seqNo \in Words, t \in Times : SetHello(a, seqNo, t)
    \/ \E a \in Addresses, seqNo \in Words : AddUnDestination(a, seqNo)
    \/ RemoveUnDestination \/ Clear
    \/ Send \/ Receive \/ Drop
    \/ \E octet \in {0, OctetMod - 1} : Foreign(octet)

Spec == Init /\ [][Next]_vars

-----------------------------------------------------------------------------
\* Whatever setters were called, in whatever order, before and after however
\* many hops over the wire, the getters return what was set last: flags do not
\* disturb each other, words survive their octets, and the destinations of a
\* RERR are those that were added.  A lifetime never grows.  One whose
\* milliseconds fit into the word is cut to whole milliseconds once, when it is
\* set, and relays do not shorten it further; a longer one loses whole multiples
\* of what the word can count.
ReadsWhatWasSet ==
    /\ type # None => \A f \in DOMAIN View(type, header) : View(type, header)[f] = meant[f]
    /\ type = "RREP" =>
         LET lost == meant.lifeTime - GetLifeTime(header)
         IN  lost >= 0 /\ lost % (WordMod * TimePerMs) < TimePerMs

\* What is written is as long as GetSerializedSize says, as Deserialize asserts,
\* and the count of a RERR tells how many destinations follow.
SizeIsRight ==
    type # None => Len(Serialize(type, header)) = GetSerializedSize(type, header)
=============================================================================
