------------------------------ MODULE MCPackets ------------------------------
(***************************************************************************)
(* Packets an application may build: every header, with each shape of body *)
(* and of list it may have, lengths and checksums left to the library.     *)
(***************************************************************************)
EXTENDS Packets

Plain(name, body) == Node(name, body, <<>>, <<>>)
Bytes(n, byte) == [i \in 1 .. n |-> byte]
Mac(n) == Bytes(6, n)

Eth(type) == Plain("ethernet", Mac(1) \o Mac(2) \o U16(type))
Tag(name, type) == Plain(name, U16(8197) \o U16(type))
Arp == Plain("arp", U16(1) \o U16(2048) \o <<6, 4>> \o U16(1) \o Mac(1) \o Bytes(4, 10)
                        \o Mac(0) \o Bytes(4, 11))

\* Words of ones let the carries of the checksum repeat.
Ip(proto, option) ==
    Node("ipv4", <<64 + 5 + Len(option) \div 4>> \o Zeros(7) \o <<255, proto, 0, 0>>
                     \o Bytes(4, 255) \o Bytes(4, 254), <<>>, option)
Ip6(nxt, exts) ==
    Node("ipv6", <<96>> \o Zeros(5) \o <<nxt, 255>> \o Bytes(16, 253) \o Bytes(16, 255), exts, <<>>)

Message(name, type, body, bytes) == Node(name, <<type, 0, 0, 0>>, body, bytes)
Icmp4(type, body) == Message("icmp", type, body, <<>>)
Icmp6(type, body) == Message("icmpv6", type, body, <<>>)
Echo(bytes) == Node("echo", <<0, 7, 0, 9>>, <<>>, bytes)

Payloads == {<<>>, <<0, 0>>, <<255, 255, 255>>, <<1, 2, 3, 0>>}
Body(bytes) == IF bytes = <<>> THEN <<>> ELSE <<Raw(bytes)>>

LinkPackets ==
    {<<Eth(2054), Arp>>, <<Eth(33024), Tag("vlan", 2054), Arp>>}
        \cup {<<Eth(type)>> \o Body(bytes) : type \in {1000, 34997}, bytes \in Payloads}
        \cup {<<Eth(34984), Tag("svlan", 33024), Tag("vlan", 2048), Ip(17, <<>>), Raw(<<9, 0>>)>>}

Ipv4Packets ==
    {<<Eth(2048), Ip(17, option)>> \o Body(bytes) :
        option \in {<<>>, <<1, 1, 1, 0>>, Bytes(8, 255)}, bytes \in Payloads}
    \cup {<<Eth(2048), Ip(1, <<>>), Icmp4(type, <<Echo(bytes)>>)>> :
            type \in {0, 8}, bytes \in Payloads}
    \cup {<<Eth(2048), Ip(1, <<>>), Icmp4(3, <<Node("dest_unreach", <<0, 1, 5, 220>>, <<>>, Bytes(5, 255))>>)>>,
          <<Eth(2048), Ip(1, <<>>), Icmp4(11, <<Node("TimeExceeded", <<0, 1, 0, 0>>, <<>>, <<8>>)>>)>>,
          <<Eth(2048), Ip(1, <<>>), Icmp4(8, <<>>)>>,
          <<Eth(2048), Ip(1, <<1, 1, 1, 1>>), Message("icmp", 13, <<>>, <<1, 2, 3>>)>>}

-----------------------------------------------------------------------------
Options(name, nxt, size, opts) == Node(name, <<nxt, size>>, opts, <<>>)
Option(type, bytes) == Node("option", <<type, Len(bytes)>>, <<>>, bytes)
\* Data shorter, or longer, than the length given with it.
Misfit(type, len, bytes) == Node("option", <<type, len>>, <<>>, bytes)
Pad1 == Plain("Pad1", <<0>>)
Fragment(nxt) == Plain("fragment", <<nxt, 0, 0, 1, 0, 0, 0, 5>>)
Auth(nxt, bytes) == Node("auth", <<nxt, 1 + Len(bytes) \div 4, 0, 0>> \o Bytes(8, 3), <<>>, bytes)
Route(nxt, cmpi, cmpe, n) ==
    Node("routing_type3", <<nxt, 0, 3, n, 16 * cmpi + cmpe, 0, 0, 0>>,
         [i \in 1 .. n |-> Plain("adr", Bytes(16 - (IF i = n THEN cmpe ELSE cmpi), i))], <<>>)

ExtPackets ==
    {<<Eth(34525), Ip6(0, <<Options("hop_opts", 17, 0, NoOptions)>>), Raw(<<7, 7>>)>>,
     <<Eth(34525), Ip6(0, <<Options("hop_opts", 17, 2, <<Option(5, <<1, 1>>), Pad1, Pad1, Option(1, <<>>)>>)>>),
       Raw(<<7>>)>>,
     <<Eth(34525), Ip6(0, <<Options("hop_opts", 60, 0, NoOptions),
                            Options("dst_opts", 44, 1, <<Option(200, Bytes(5, 9))>>), Fragment(17)>>),
       Raw(<<7, 8>>)>>,
     <<Eth(34525), Ip6(60, <<Options("dst_opts", 17, 8, <<Misfit(5, 6, <<1, 1>>), Misfit(201, 4, Bytes(7, 2))>>)>>),
       Raw(<<7>>)>>,
     <<Eth(34525), Ip6(51, <<Auth(17, Bytes(4, 9))>>), Raw(<<7>>)>>,
     <<Eth(34525), Ip6(51, <<Auth(17, <<>>)>>), Raw(<<7>>)>>,
     <<Eth(34525), Ip6(43, <<Route(17, 0, 0, 2)>>), Raw(<<7>>)>>,
     <<Eth(34525), Ip6(43, <<Route(44, 8, 8, 2), Fragment(17)>>), Raw(<<7>>)>>,
     <<Eth(34525), Ip6(43, <<Route(17, 0, 0, 0)>>), Raw(<<7>>)>>}

-----------------------------------------------------------------------------
La(type, length, bytes) == Node("nd_option_la", <<type, length>> \o Mac(6), <<>>, bytes)
Prefix == Plain("nd_option_pi", <<3, 0, 64, 192>> \o Zeros(12) \o Bytes(16, 32))
MtuOption == Plain("nd_option_mtu", <<5, 0, 0, 0, 0, 0, 5, 220>>)
Unknown == Raw(<<25, 2>> \o Bytes(14, 4))
Advert(opts) == Node("nd_router_advert", <<64, 128, 7, 8>> \o Bytes(8, 1), opts, <<>>)
Neighbor(opts) == Node("nd_neighbor", <<64, 0, 0, 0>> \o Bytes(16, 9), opts, <<>>)
Solicit(opts) == Node("nd_router_solicit", Zeros(4), opts, <<>>)
Query(n) == Node("mldv2_query", <<3, 232, 0, 0>> \o Bytes(16, 255) \o <<2, 5, 0, 0>>,
                 [i \in 1 .. n |-> Plain("src", Bytes(16, i))], <<>>)
Group(n, aux) == Node("mldv2_report_group", <<4, 0, 0, 0>> \o Bytes(16, 255),
                      [i \in 1 .. n |-> Plain("src", Bytes(16, i))], aux)
Report(groups) == Node("mldv2_report", Zeros(4), groups, <<>>)

Messages6 ==
    {Icmp6(type, <<Echo(bytes)>>) : type \in {128, 129}, bytes \in Payloads}
    \cup {Icmp6(type, <<Plain("mld", <<3, 232, 0, 0>> \o Bytes(16, 255))>>) : type \in 130 .. 132}
    \cup {Icmp6(130, <<Query(n)>>) : n \in 0 .. 2}
    \cup {Icmp6(143, <<Report(groups)>>) :
            groups \in {<<>>, <<Group(0, <<>>)>>, <<Group(1, <<5>>), Group(0, <<>>)>>}}
    \cup {Icmp6(133, <<Solicit(opts)>>) : opts \in {<<>>, <<La(1, 0, <<>>)>>}}
    \cup {Icmp6(type, <<Neighbor(opts)>>) :
            type \in {135, 136}, opts \in {<<>>, <<La(2, 0, <<3, 3>>)>>, <<La(1, 1, <<>>)>>, <<Unknown>>}}
    \cup {Icmp6(134, <<Advert(opts)>>) :
            opts \in {<<>>, <<Prefix, MtuOption>>, <<MtuOption, Unknown, Prefix, La(1, 0, <<>>)>>}}
    \cup {Message("icmpv6", 2, <<>>, <<1, 2, 3>>), Message("icmpv6", 1, <<>>, <<>>)}

Packets6 == {<<Eth(34525), Ip6(58, <<>>), message>> : message \in Messages6}

-----------------------------------------------------------------------------
ChassisId == Tlv(1, <<4, 1, 1, 1, 1, 1, 1>>)
PortId == Tlv(2, <<7, 49>>)
Ttl == Tlv(3, <<0, 120>>)
End == Tlv(0, <<>>)
Mgmt(oid) == ManagementAddress(1, <<10, 0, 0, 1>>, <<2, 0, 0, 0, 3>>, oid)

Lldp(tlvs_between) ==
    <<Eth(35020), Node("lldp", <<>>, <<ChassisId, PortId, Ttl>> \o tlvs_between \o <<End>>, <<>>)>>

LldpPackets ==
    {Lldp(<<>>), Lldp(<<Tlv(4, <<101>>), Tlv(5, <<>>), Tlv(6, <<102, 103>>)>>),
     Lldp(<<Tlv(7, <<0, 4, 0, 4>>), Mgmt(<<9>>), Tlv(127, <<0, 18, 15, 1, 0>>)>>),
     Lldp(<<Mgmt(<<>>)>>),
     \* a length of which all nine bits are set
     Lldp(<<Tlv(127, Bytes(511, 1))>>)}

Role(n) == U16(n) \o Mac(n) \o U16(1) \o U16(255) \o U16(n) \o <<61>>
LacpPackets == {<<Eth(34825), lacp(Role(1), Role(2), <<0, 5>>)>>,
                <<Eth(34825), Raw(<<2, 1, 1>>)>>}

-----------------------------------------------------------------------------
All == LinkPackets \cup Ipv4Packets \cup ExtPackets \cup Packets6 \cup LldpPackets \cup LacpPackets

(* Not in All: what the library writes or reads wrong. With one of these   *)
(* for PACKETS the property named does not hold.                           *)

\* RoundTrip: a router advertisement as hosts get it, the router's address and
\* then the MTU; nd_option_la.parser takes all that is left for itself.
AddressThenMtu == {<<Eth(34525), Ip6(58, <<>>), Icmp6(134, <<Advert(<<La(1, 0, <<>>), MtuOption>>)>>)>>}

\* NeverRaises: the routing header of Mobile IPv6; ipv6.parser takes len(None).
RoutingType2 ==
    {<<Eth(34525), Ip6(43, <<>>), Raw(<<17, 2, 2, 1>> \o Zeros(4) \o Bytes(16, 9) \o <<7>>)>>}

\* ChecksumsVerify: a multicast listener report with the router alert it has to
\* have; checksum_ip takes the next header of the IPv6 header, not of the message.
ReportWithAlert ==
    {<<Eth(34525), Ip6(0, <<Options("hop_opts", 58, 0, <<Option(5, <<0, 0>>), Option(1, <<>>)>>)>>),
       Icmp6(131, <<Plain("mld", Zeros(4) \o Bytes(16, 255))>>)>>}

\* LengthsAgree: a source route whose addresses do not fill the last 8 bytes;
\* the padding is counted and not written.
CompressedRoute == {<<Eth(34525), Ip6(43, <<Route(17, 8, 15, 2)>>), Raw(<<7>>)>>}

-----------------------------------------------------------------------------
Trailers == {<<222, 173>>, <<0, 0, 1>>}

=============================================================================
