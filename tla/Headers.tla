------------------------------- MODULE Headers -------------------------------
(***************************************************************************)
(* The protocol headers of c65of/packet but ICMP: ethernet, vlan, arp,     *)
(* ipv4, ipv6 with its extension headers, lldp and slow.                   *)
(*                                                                         *)
(* A header, or a structure in one, is a node: its name, the bytes of its  *)
(* struct, the structures in it and the bytes behind them. Attributes are  *)
(* not taken out of the struct: text addresses, and bits that share a byte *)
(* (flags, VLAN tag, version), are in it as they are on the wire.          *)
(***************************************************************************)
EXTENDS Bytes, Checksum

Node(name, body, kids, data) ==
    [name |-> name, body |-> body, kids |-> kids, data |-> data]

Raw(data) == Node("raw", <<>>, <<>>, data)

RECURSIVE Wire(_)
Wire(node) ==
    node.body \o FlattenSeq([i \in DOMAIN node.kids |-> Wire(node.kids[i])]) \o node.data

None == "none"

\* What a parser does: it returns, or struct.unpack_from raises struct.error, or
\* it raises another exception.
Header(node, next, rest) ==
    [end |-> "header", hdr |-> <<node>>, next |-> next, rest |-> rest]
NoHeader(buf) == [end |-> "header", hdr |-> <<>>, next |-> None, rest |-> buf]
Short == [end |-> "struct.error"]
Raised == [end |-> "raised"]

\* A list that was read, up to an offset.
Kids(kids, at) == [end |-> "header", kids |-> kids, at |-> at]
Then(node, more) ==
    IF more.end = "header" THEN [more EXCEPT !.kids = <<node>> \o @] ELSE more

\* The class registered for a selector, or None.
get_packet_type(types, type) == IF type \in DOMAIN types THEN types[type] ELSE None

ETHERTYPES == (2048 :> "ipv4") @@ (2054 :> "arp") @@ (33024 :> "vlan")
                @@ (34984 :> "svlan") @@ (34525 :> "ipv6") @@ (35020 :> "lldp")
                @@ (34825 :> "slow")
IP_PROTOS == (1 :> "icmp") @@ (58 :> "icmpv6")

-----------------------------------------------------------------------------
(* Headers that are their struct.                                          *)

fixed_parser(name, size, next, buf) ==
    IF Len(buf) < size THEN Short
    ELSE Header(Node(name, At(buf, 0, size), <<>>, <<>>), next, Slice(buf, size, Len(buf)))

\* A Length/Type of 1500 or less is a length.
EthernetNext(buf) ==
    LET type == Word(buf, 12)
    IN  get_packet_type(ETHERTYPES, IF type < 1500 THEN 1500 ELSE type)
VlanNext(buf) == get_packet_type(ETHERTYPES, Word(buf, 2))

\* The payload padded to the minimum of 46 bytes.
EthernetPayload(payload) ==
    IF Len(payload) < 46 THEN payload \o Zeros(46 - Len(payload)) ELSE payload

-----------------------------------------------------------------------------
(* ipv4: data is the options area. *)

(* Slip: the rest is all that is left of the frame. *)
Ipv4RestIsAll(buf) ==
    IF Len(buf) < 20 THEN Short
    ELSE LET length == 4 * (buf[1] % 16)
         IN  Header(Node("ipv4", At(buf, 0, 20), <<>>, Slice(buf, 20, length)),
                    get_packet_type(IP_PROTOS, buf[10]), Slice(buf, length, Len(buf)))

ipv4_parser(buf) ==
    IF Len(buf) < 20 THEN Short
    ELSE LET length == 4 * (buf[1] % 16)
         IN  Header(Node("ipv4", At(buf, 0, 20), <<>>, Slice(buf, 20, length)),
                    get_packet_type(IP_PROTOS, buf[10]), Slice(buf, length, Word(buf, 2)))

\* A short option is padded to the header length; the checksum is always computed.
ipv4_serialize(h, payload) ==
    LET length == 4 * (h.body[1] % 16)
        option == h.data \o Zeros(length - 20 - Len(h.data))
        sized == IF Word(h.body, 2) = 0 THEN Put16(h.body, 2, length + Len(payload))
                 ELSE h.body
        cleared == Put16(sized, 10, 0)
    IN  Node("ipv4", Put16(cleared, 10, checksum(cleared \o option)), <<>>, option)

-----------------------------------------------------------------------------
(* ipv6: kids are the extension headers. *)

EXT_HEADERS == (0 :> "hop_opts") @@ (60 :> "dst_opts") @@ (43 :> "routing")
                 @@ (44 :> "fragment") @@ (51 :> "auth")

ext_len(e) ==
    CASE e.name \in {"hop_opts", "dst_opts"} -> 8 + e.body[2]
      [] e.name = "routing_type3" -> 8 * (e.body[2] + 1)
      [] e.name = "fragment" -> 8
      [] e.name = "auth" -> 4 * (e.body[2] + 2)

\* The options of an opt_header up to an offset; Pad1 is one byte.
RECURSIVE options(_, _, _)
options(buf, at, end) ==
    IF at >= end THEN Kids(<<>>, at)
    ELSE IF at >= Len(buf) THEN Short
    ELSE IF buf[at + 1] = 0 THEN Then(Node("Pad1", <<0>>, <<>>, <<>>), options(buf, at + 1, end))
    ELSE IF at + 1 >= Len(buf) THEN Short
    ELSE LET size == 2 + buf[at + 2]
         IN  IF at + size > Len(buf) THEN Short
             ELSE Then(Node("option", At(buf, at, 2), <<>>, Slice(buf, at + 2, at + size)),
                       options(buf, at + size, end))

opt_header_parser(name, buf) ==
    IF Len(buf) < 2 THEN Short
    ELSE LET read == options(buf, 2, 8 + buf[2])
         IN  IF read.end # "header" THEN read
             ELSE Header(Node(name, At(buf, 0, 2), read.kids, <<>>), None, <<>>)

PadN == Node("option", <<1, 4>>, <<>>, Zeros(4))

\* An application that names no options leaves data at None; an empty list is
\* one of its choice.
NoOptions == <<Node("None", <<>>, <<>>, <<>>)>>

\* struct cuts the data to the length the application gave, or fills it up.
option_serialize(o) ==
    IF o.name = "Pad1" THEN o
    ELSE [o EXCEPT !.data = At(@ \o Zeros(o.body[2]), 0, o.body[2])]

opt_header_serialize(e) ==
    [e EXCEPT !.kids = IF @ = NoOptions THEN <<PadN>>
                       ELSE [i \in DOMAIN @ |-> option_serialize(@[i])]]

\* Bytes of the first addresses and of the last, and the padding said to follow.
SizeI(body) == 16 - (body[5] \div 16)
SizeE(body) == 16 - (body[5] % 16)
RoutingPad(body, n) == (8 - ((n - 1) * SizeI(body) + (SizeE(body) % 8))) % 8

\* Consecutive parts of a size.
Parts(name, buf, at, size, n) ==
    [i \in 1 .. n |-> Node(name, At(buf, at + (i - 1) * size, size), <<>>, <<>>)]

\* The padding is not kept: the constructor computes it from the addresses.
routing_type3_parser(buf) ==
    IF Len(buf) < 8 THEN Short
    ELSE LET body == At(buf, 0, 8)
             room == 8 * body[2] - (SizeE(body) + (body[6] \div 16))
             n == IF room > 0 THEN (room + SizeI(body) - 1) \div SizeI(body) ELSE 0
             last == 8 + n * SizeI(body)
             adrs == IF body[2] = 0 THEN <<>>
                     ELSE Parts("adr", buf, 8, SizeI(body), n)
                            \o Parts("adr", buf, last, SizeE(body), 1)
         IN  IF body[2] > 0 /\ Len(buf) < last + SizeE(body) THEN Short
             ELSE Header(Node("routing_type3",
                              Put8(body, 5, 16 * RoutingPad(body, Len(adrs))), adrs, <<>>),
                         None, <<>>)

\* A routing header of another type decodes as None, whose len() the walk asks for.
routing_parser(buf) ==
    IF Len(buf) < 3 THEN Short
    ELSE IF buf[3] = 3 THEN routing_type3_parser(buf)
    ELSE Raised

auth_parser(buf) ==
    IF Len(buf) < 12 \/ buf[2] = 0 \/ Len(buf) < 4 * (buf[2] + 2) THEN Short
    ELSE Header(Node("auth", At(buf, 0, 12), <<>>, Slice(buf, 12, 4 * (buf[2] + 2))), None, <<>>)

ext_parser(name, buf) ==
    CASE name \in {"hop_opts", "dst_opts"} -> opt_header_parser(name, buf)
      [] name = "routing" -> routing_parser(buf)
      [] name = "fragment" -> fixed_parser(name, 8, None, buf)
      [] name = "auth" -> auth_parser(buf)

ext_serialize(e) ==
    CASE e.name \in {"hop_opts", "dst_opts"} -> opt_header_serialize(e)
      [] e.name = "routing_type3" ->
            LET n == Len(e.kids)
                pad == RoutingPad(e.body, n)
                size == ((n - 1) * SizeI(e.body) + SizeE(e.body) + pad) \div 8
            IN  [e EXCEPT !.body = Put8(IF @[2] = 0 THEN Put8(@, 1, size) ELSE @, 5, 16 * pad)]
      [] OTHER -> e

\* The chain of extension headers from an offset on; last is the protocol that
\* ends it.
RECURSIVE ext_hdrs(_, _, _)
ext_hdrs(buf, at, last) ==
    IF last \notin DOMAIN EXT_HEADERS THEN Kids(<<>>, at)
    ELSE LET read == ext_parser(EXT_HEADERS[last], Slice(buf, at, Len(buf)))
         IN  IF read.end # "header" THEN read
             ELSE Then(read.hdr[1], ext_hdrs(buf, at + ext_len(read.hdr[1]), read.hdr[1].body[1]))

\* The protocol that ends the chain of a header.
LastNext(h) == IF h.kids = <<>> THEN h.body[7] ELSE h.kids[Len(h.kids)].body[1]

ipv6_parser(buf) ==
    IF Len(buf) < 40 THEN Short
    ELSE LET chain == ext_hdrs(buf, 40, buf[7])
             h == Node("ipv6", At(buf, 0, 40), chain.kids, <<>>)
         IN  IF chain.end # "header" THEN chain
             ELSE Header(h, get_packet_type(IP_PROTOS, LastNext(h)),
                         Slice(buf, chain.at, chain.at + Word(buf, 4)))

SumLen(exts) == FoldLeft(LAMBDA sum, e : sum + ext_len(e), 0, exts)

(* Slip: the extension headers are not part of the payload. *)
Ipv6BarePayload(h, payload) ==
    LET exts == [i \in DOMAIN h.kids |-> ext_serialize(h.kids[i])]
        body == IF Word(h.body, 4) = 0 THEN Put16(h.body, 4, Len(payload)) ELSE h.body
    IN  Node("ipv6", body, exts, <<>>)

ipv6_serialize(h, payload) ==
    LET exts == [i \in DOMAIN h.kids |-> ext_serialize(h.kids[i])]
        body == IF Word(h.body, 4) = 0
                THEN Put16(h.body, 4, Len(payload) + SumLen(exts)) ELSE h.body
    IN  Node("ipv6", body, exts, <<>>)

-----------------------------------------------------------------------------
(* lldp: kids are the TLVs, a type of 7 bits and a length of 9 each. *)

Tlv(type, info) == Node("tlv", U16(512 * type + Len(info)), <<>>, info)
TlvType(tlv) == tlv.body[1] \div 2

\* The address counts its subtype, the object id counts itself.
ManagementAddress(subtype, addr, intf, oid) ==
    Tlv(8, <<Len(addr) + 1, subtype>> \o addr \o intf \o <<Len(oid)>> \o oid)

\* _parse of the TLV classes: what must be there, and what the attributes keep.
TlvFits(type, info) ==
    CASE type \in {1, 2} -> Len(info) >= 1
      [] type = 3 -> Len(info) >= 2
      [] type \in {7, 127} -> Len(info) >= 4
      [] type = 8 -> /\ Len(info) >= 2
                     /\ Len(info) >= info[1] + 7
                     /\ info[info[1] + 7] <= 128
      [] type \in {0, 4, 5, 6} -> TRUE
      [] OTHER -> FALSE
TlvKeeps(type, info) ==
    CASE type = 0 -> <<>>
      [] type = 3 -> SubSeq(info, 1, 2)
      [] type = 7 -> SubSeq(info, 1, 4)
      [] OTHER -> info

\* The TLVs from an offset on. Every failure has one outcome, that of Short.
RECURSIVE tlvs(_, _)
tlvs(buf, at) ==
    IF at + 2 > Len(buf) THEN Short
    ELSE LET type == buf[at + 1] \div 2
             size == Word(buf, at) % 512
             info == At(buf, at + 2, size)
             tlv == Node("tlv", At(buf, at, 2), <<>>, TlvKeeps(type, info))
         IN  IF at + 2 + size > Len(buf) \/ ~TlvFits(type, info) THEN Short
             ELSE IF type = 0 THEN Kids(<<tlv>>, at + 2 + size)
             ELSE Then(tlv, tlvs(buf, at + 2 + size))

(* Slip: a failure is not caught. *)
LldpUncaught(buf) ==
    LET read == tlvs(buf, 0)
        types == [i \in DOMAIN read.kids |-> TlvType(read.kids[i])]
    IN  IF \/ read.end # "header"
           \/ Len(read.kids) < 4
           \/ SubSeq(types, 1, 3) # <<1, 2, 3>>
        THEN Raised
        ELSE Header(Node("lldp", <<>>, read.kids, <<>>), None, Slice(buf, read.at, Len(buf)))

\* At least chassis id, port id, TTL, in this order, and End.
lldp_parser(buf) ==
    LET read == tlvs(buf, 0)
        types == [i \in DOMAIN read.kids |-> TlvType(read.kids[i])]
    IN  IF \/ read.end # "header"
           \/ Len(read.kids) < 4
           \/ SubSeq(types, 1, 3) # <<1, 2, 3>>
        THEN NoHeader(buf)
        ELSE Header(Node("lldp", <<>>, read.kids, <<>>), None, Slice(buf, read.at, Len(buf)))

-----------------------------------------------------------------------------
(* slow hands LACP on and has no other parser. *)

\* Actor and partner information of 20 bytes, collector of 16, terminator of 52.
lacp(actor, partner, delay) ==
    Node("lacp", <<1, 1, 1, 20>> \o actor \o Zeros(3) \o <<2, 20>> \o partner \o Zeros(3)
                   \o <<3, 16>> \o delay \o Zeros(12) \o <<0, 0>> \o Zeros(50), <<>>, <<>>)

lacp_parser(buf) ==
    IF /\ Len(buf) = 110
       /\ SubSeq(buf, 1, 4) = <<1, 1, 1, 20>>
       /\ At(buf, 22, 2) = <<2, 20>>
       /\ At(buf, 42, 2) = <<3, 16>>
       /\ At(buf, 58, 2) = <<0, 0>>
    THEN Header(Node("lacp", buf, <<>>, <<>>), None, <<>>)
    ELSE Raised

slow_parser(buf) ==
    IF buf = <<>> THEN Short ELSE IF buf[1] = 1 THEN lacp_parser(buf) ELSE NoHeader(buf)

=============================================================================
