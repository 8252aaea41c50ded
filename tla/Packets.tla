------------------------------- MODULE Packets -------------------------------
(***************************************************************************)
(* Packet of c65of/packet/packet.py: serialize(), one header a step, and   *)
(* the walk of _parse, one parser a step, over what arrives of the frame:  *)
(* all of it, as much as was captured, or with bytes of no header behind.  *)
(***************************************************************************)
EXTENDS Icmp

CONSTANTS PACKETS,   \* the packets an application may build, outermost header first
          TRAILERS,  \* what may be behind a frame
          CUT        \* whether a frame may be cut short

ASSUME CutAssumption == CUT \in BOOLEAN

VARIABLES phase, left, packed, data, buf, rest, cls, protocols

vars == <<phase, left, packed, data, buf, rest, cls, protocols>>

walk == <<buf, rest, cls, protocols>>

Init ==
    /\ phase = "pack"
    /\ left \in PACKETS
    /\ packed = <<>> /\ data = <<>>
    /\ buf = <<>> /\ rest = <<>> /\ cls = "ethernet" /\ protocols = <<>>

-----------------------------------------------------------------------------
serialize(h, payload, prev) ==
    CASE h.name = "ipv4" -> ipv4_serialize(h, payload)
      [] h.name = "ipv6" -> ipv6_serialize(h, payload)
      [] h.name = "icmp" -> icmp_serialize(h)
      [] h.name = "icmpv6" -> icmpv6_serialize(h, payload, prev)
      [] OTHER -> h

\* One turn of the loop of serialize(), innermost header first.
Pack ==
    /\ phase = "pack" /\ left # <<>>
    /\ LET h == Last(left)
           prev == IF Len(left) > 1 THEN left[Len(left) - 1] ELSE None
           full == serialize(h, data, prev)
       IN  /\ packed' = <<full>> \o packed
           /\ data' = Wire(full) \o (IF h.name = "ethernet" THEN EthernetPayload(data) ELSE data)
    /\ left' = Front(left)
    /\ UNCHANGED <<phase, walk>>

\* What arrives is given to Packet(), which does not parse nothing at all.
Send ==
    /\ phase = "pack" /\ left = <<>>
    /\ \/ buf' = data
       \/ CUT /\ \E n \in 1 .. Len(data) - 1 : buf' = Slice(data, 0, n)
       \/ \E trailer \in TRAILERS : buf' = data \o trailer
    /\ phase' = "parse"
    /\ rest' = buf'
    /\ UNCHANGED <<left, packed, data, cls, protocols>>

-----------------------------------------------------------------------------
parser(class, bytes) ==
    CASE class = "ethernet" -> fixed_parser(class, 14, EthernetNext(bytes), bytes)
      [] class \in {"vlan", "svlan"} -> fixed_parser(class, 4, VlanNext(bytes), bytes)
      [] class = "arp" -> fixed_parser(class, 28, None, bytes)
      [] class = "ipv4" -> ipv4_parser(bytes)
      [] class = "ipv6" -> ipv6_parser(bytes)
      [] class = "icmp" -> icmp_parser(bytes)
      [] class = "icmpv6" -> icmpv6_parser(bytes)
      [] class = "lldp" -> lldp_parser(bytes)
      [] class = "slow" -> slow_parser(bytes)

\* bytes(rest).strip(b"\x00") leaves nothing.
Blank(bytes) == \A i \in DOMAIN bytes : bytes[i] = 0

\* A buffer of nothing but padding ends the walk.
Padding ==
    /\ phase = "parse" /\ cls # None /\ Blank(rest)
    /\ phase' = "done"
    /\ UNCHANGED <<left, packed, data, walk>>

\* The exception comes out of Packet().
Raises ==
    /\ phase = "parse" /\ cls # None /\ ~Blank(rest)
    /\ parser(cls, rest).end = "raised"
    /\ phase' = "raised"
    /\ UNCHANGED <<left, packed, data, walk>>

\* struct.error: what cannot be parsed is the rest.
Breaks ==
    /\ phase = "parse" /\ cls # None /\ ~Blank(rest)
    /\ parser(cls, rest).end = "struct.error"
    /\ cls' = None
    /\ UNCHANGED <<phase, left, packed, data, buf, rest, protocols>>

Parses ==
    /\ phase = "parse" /\ cls # None /\ ~Blank(rest)
    /\ LET read == parser(cls, rest)
       IN  /\ read.end = "header"
           /\ protocols' = protocols \o read.hdr
           /\ cls' = read.next
           /\ rest' = read.rest
    /\ UNCHANGED <<phase, left, packed, data, buf>>

(* Slip: only what no parser has failed on is kept. *)
RestDropped ==
    /\ phase = "parse" /\ cls = None
    /\ phase' = "done"
    /\ UNCHANGED <<protocols, left, packed, data, buf, rest, cls>>

\* The rest becomes the payload unless it is padding.
Rest ==
    /\ phase = "parse" /\ cls = None
    /\ phase' = "done"
    /\ protocols' = IF Blank(rest) THEN protocols ELSE Append(protocols, Raw(rest))
    /\ UNCHANGED <<left, packed, data, buf, rest, cls>>

Next == Pack \/ Send \/ Padding \/ Raises \/ Breaks \/ Parses \/ Rest

Spec == Init /\ [][Next]_vars

-----------------------------------------------------------------------------
IsHeader(p) == p.name # "raw"
HeadersOf(ps) == SelectSeq(ps, IsHeader)
Payload(ps) == IF ps # <<>> /\ ~IsHeader(Last(ps)) THEN Last(ps).data ELSE <<>>
WireOf(ps) == FlattenSeq([i \in DOMAIN ps |-> Wire(ps[i])])
HasIp(ps) == \E i \in DOMAIN ps : ps[i].name \in {"ipv4", "ipv6"}

\* Decoding has found the headers the frame was built from, with every length,
\* count and checksum as it was filled in, and its payload. The padding of a
\* short frame may be behind the payload, unless an IP length excludes it, and
\* a payload of zeros is taken for padding (packet.py _parse).
SameHeaders ==
    /\ HeadersOf(protocols) = HeadersOf(packed)
    /\ LET sent == Payload(packed)
           got == Payload(protocols)
       IN  \/ got = sent
           \/ Blank(sent) /\ got = <<>>
           \/ ~HasIp(packed) /\ got = sent \o Zeros(Len(got) - Len(sent))

\* An IPv6 header with extension headers does not end the packet: ipv6.parser
\* takes payload_length, which counts them, from behind them.
EndsPacket(h) == h.name \in {"ipv4", "ipv6"} /\ h.kids = <<>>

(* A frame that arrives as it was sent is decoded into the headers and the
   payload it was built from; and so is one with bytes behind it, if it has an
   IP length: they are decoded neither as payload nor as part of a message. *)
RoundTrip ==
    phase = "done" =>
        /\ buf = data => SameHeaders
        /\ Len(buf) > Len(data) /\ (\E i \in DOMAIN packed : EndsPacket(packed[i]))
           => SameHeaders

(* However short a frame was captured, each header before the cut is decoded
   as it was sent, the header at the cut is decoded with its struct intact or
   not at all, and no byte is lost, moved or read twice: headers and payload
   are the bytes that arrived, but for padding. *)
CutIsPrefix ==
    phase = "done" /\ Len(buf) <= Len(data) =>
        LET hs == HeadersOf(protocols)
            n == Len(hs)
        IN  /\ n <= Len(packed)
            /\ \A i \in 1 .. n - 1 : hs[i] = packed[i]
            /\ n > 0 => hs[n].name = packed[n].name /\ hs[n].body = packed[n].body
            /\ LET bytes == WireOf(protocols)
               IN  IsPrefix(bytes, buf) /\ Blank(Slice(buf, Len(bytes), Len(buf)))

(* No frame this library writes, however little of it arrives, makes
   Packet() raise, except a LACPDU of the wrong length, which the tests ask
   for (test_packet_lldp_slow.py test_lacp_rejects_wrong_length). *)
NeverRaises == phase = "raised" => \E i \in DOMAIN packed : packed[i].name = "lacp"

(* What is sent has checksums the receiver accepts: that of an IPv4 header
   covers its options, that of an ICMPv6 message the pseudo header of RFC
   2460 8.1, whose next header is that of ICMPv6. *)
ChecksumsVerify ==
    phase = "parse" =>
        \A i \in DOMAIN packed :
            /\ packed[i].name \in {"ipv4", "icmp"} => Verifies(Wire(packed[i]))
            /\ packed[i].name = "icmpv6" =>
                   Verifies(PseudoHeader(packed[i - 1], Len(Wire(packed[i])), 58)
                                \o Wire(packed[i]))

\* An option of an extension header counts what is behind its own two bytes; the
\* header counts all its bytes.
ExtLengthAgrees(e) ==
    /\ ext_len(e) = Len(Wire(e))
    /\ e.name \in {"hop_opts", "dst_opts"} =>
           \A o \in Range(e.kids) : o.name = "option" => o.body[2] = Len(o.data)

\* A TLV has a length of nine bits; in a management address the lengths of the
\* address and of the object id fill the TLV.
TlvLengthAgrees(t) ==
    /\ Word(t.body, 0) % 512 = Len(t.data)
    /\ TlvType(t) = 8 => t.data[1] + 7 + t.data[t.data[1] + 7] = Len(t.data)

OptionLengthAgrees(o) == o.name # "raw" => 8 * o.body[2] = Len(Wire(o))

BodyLengthsAgree(b) ==
    CASE b.name \in DOMAIN ND_OPTION_TYPES -> \A o \in Range(b.kids) : OptionLengthAgrees(o)
      [] b.name = "mldv2_query" -> Word(b.body, 22) = Len(b.kids)
      [] b.name = "mldv2_report" ->
            /\ Word(b.body, 2) = Len(b.kids)
            /\ \A r \in Range(b.kids) :
                   Word(r.body, 2) = Len(r.kids) /\ 4 * r.body[2] = Len(r.data)
      [] OTHER -> TRUE

(* Each length and count that the library writes is that of the bytes it is
   about: IPv4 header and total length; IPv6 payload length, which counts the
   extension headers, each of them and each option in it; the TLVs of LLDP and
   the lengths in a management address; options of neighbour discovery, and
   sources, records and auxiliary data of MLDv2. The other headers have none,
   or constants (ARP, LACP), or one the application gives (data_len of ICMP). *)
LengthsAgree ==
    phase = "parse" =>
        \A i \in DOMAIN packed :
            LET h == packed[i]
                behind == Len(WireOf(SubSeq(packed, i + 1, Len(packed))))
            IN  CASE h.name = "ipv4" -> /\ Len(Wire(h)) = 4 * (h.body[1] % 16)
                                        /\ Word(h.body, 2) = Len(Wire(h)) + behind
                  [] h.name = "ipv6" -> /\ Word(h.body, 4) = Len(Wire(h)) - 40 + behind
                                        /\ \A e \in Range(h.kids) : ExtLengthAgrees(e)
                  [] h.name = "lldp" -> \A t \in Range(h.kids) : TlvLengthAgrees(t)
                  [] h.name = "icmpv6" -> \A b \in Range(h.kids) : BodyLengthsAgree(b)
                  [] OTHER -> TRUE

=============================================================================
