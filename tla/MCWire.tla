------------------------------- MODULE MCWire -------------------------------
(* Messages for Wire: every message type, and every kind of structure in    *)
(* each of the lists it may be in, with the bytes of a struct telling their *)
(* places apart.                                                            *)
EXTENDS Wire

Pay(n) == [i \in 1 .. n |-> ((7 * i) % 250) + 1]

\* Fields and matches, named in an order that is not that of their types.
Value(name) == Oxm(name, FALSE, Pay(Fields[name].size))
Wild(name) ==
    LET size == Fields[name].size
    IN  oxm_normalize_user(name, Pay(size), [i \in 1 .. size |-> 255 * (i % 2)])
Wildcard == OFPMatch(<<>>)
MatchOf == {
    Wildcard, OFPMatch(<<Value("eth_type")>>), OFPMatch(<<Value("eth_dst"), Value("in_port")>>),
    OFPMatch(<<Value("ipv6_src"), Value("ip_proto"), Wild("eth_dst"), Value("eth_type")>>),
    OFPMatch(<<Value("tcp_flags"), Value("ip_proto"), Wild("eth_type")>>),
    OFPMatch(<<Value("nsh_spi"), Value("pbb_uca"), Value("eth_type"), Wild("actset_output")>>),
    OFPMatch(<<Wild("ct_mark"), Oxm("field_4194350", FALSE, Pay(3)), Value("in_port")>>)}
SomeMatch == OFPMatch(<<Value("ip_proto"), Value("eth_type")>>)

\* Actions.
Action(name) == Node("action", name, Pay(Actions[name].size), <<>>)
SetFieldOf(o) == Node("action", "set_field", <<>>, <<o>>)
NatOf(present) == Node("nx_action", "nat",
                     Zeros(2) \o <<0, 1, 0, present>> \o Pay(NatSize(present) - 6), <<>>)
CtClear == Node("nx_action", "ct_clear", Zeros(6), <<>>)
OtherNx == Node("nx_action", "unknown", Pay(6), <<>>)
CtFrom(zone, kids) ==
    Node("nx_action", "ct", msg_pack_into(zone, Pay(14), 2), kids)
Ct(kids) == CtFrom(Zeros(4), kids)
CtFromFields == {CtFrom(oxm_serialize_header(Fields[n]), <<>>) : n \in ZoneFields}
UnknownAction == Node("action", "unknown", Pay(4), <<>>)
FixedActions == DOMAIN Actions \ {"set_field"}
MCSettable == DOMAIN BasicFields \cup {"ct_mark"}
SetFields == {SetFieldOf(Value(n)) : n \in MCSettable}
                \cup {SetFieldOf(Wild("eth_dst"))}
Single == {Action(n) : n \in FixedActions} \cup SetFields
            \cup {Ct(<<>>), CtClear, OtherNx, NatOf(0), NatOf(21), NatOf(10)}
            \cup CtFromFields
            \cup {Ct(<<NatOf(1), SetFieldOf(Value("ct_mark"))>>), UnknownAction}
ActionLists == {<<>>} \cup {<<a, Action("output")>> : a \in Single}
SomeActions == <<SetFieldOf(Value("eth_dst")), Action("output")>>

\* Instructions, buckets, bands, queues.
Instruction(name, actions) ==
    Node("instruction", name,
         IF name \in OFPInstructionActions THEN Zeros(4)
         ELSE Pay(Instructions[name].size), actions)
Apply(actions) == Instruction("apply_actions", actions)
Instructed == {
    <<>>, <<Instruction("goto_table", <<>>)>>,
    <<Instruction("clear_actions", <<>>), Instruction("write_actions", SomeActions)>>,
    <<Instruction("meter", <<>>), Instruction("write_metadata", <<>>),
      Apply(<<Ct(<<NatOf(3)>>), Action("pop_vlan")>>), Instruction("goto_table", <<>>)>>,
    <<Node("instruction", "unknown", Pay(4), <<>>)>>,
    <<Apply(<<UnknownAction>>)>>}

Bucket(actions) == Node("bucket", "bucket", Pay(14), actions)
Band(name) == Node("band", name, Pay(12), <<>>)
Bands == {<<>>, <<Band("drop"), Band("dscp_remark"), Band("experimenter")>>,
          <<Band("unknown")>>}
Prop(name, size) == Node("queue_prop", name, Pay(size), <<>>)
Queue(props) == Node("queue", "queue", Pay(14), props)
Queues == {<<>>, <<Queue(<<>>), Queue(<<Prop("min_rate", 12), Prop("max_rate", 12)>>)>>,
           <<Queue(<<Prop("unknown", 4), Prop("experimenter", 20)>>), Queue(<<>>)>>}

\* Table features.
TableProperty(name, body, kids) == Node("table_prop", name, body, kids)
Id(n) == Node("id", "id", U16(n), <<>>)
OxmId(o) == Node("oxm_id", "oxm_id", At(oxm_serialize(o), 0, 4), <<>>)
ExpOxmId(o) == Node("oxm_id", "oxm_id", At(oxm_serialize(o), 0, 8), <<>>)
TableProperties == <<
    TableProperty("instructions", <<>>, <<Id(1), Id(4), Id(65535)>>),
    TableProperty("next_tables", Pay(3), <<>>),
    TableProperty("write_actions", <<>>, <<Id(0)>>),
    TableProperty("match", <<>>, <<OxmId(Value("in_port")), ExpOxmId(Value("tcp_flags"))>>),
    TableProperty("unknown", Pay(5), <<>>),
    TableProperty("experimenter", Pay(12), <<>>)>>

\* Multipart replies: a kind, and what each entry of it holds.
SizedOf(kind, kids) == Node(kind, kind, Pay(SizedKinds[kind].head - 2), kids)
FixedOf(kind) == Node(kind, kind, Pay(FixedKinds[kind]), <<>>)
Reply(type, kids) ==
    Msg("multipart", U16(StatsTypes[type]) \o Pay(6), kids, <<>>)
Replies ==
    {Reply(k, <<FixedOf(k), FixedOf(k)>>) :
        k \in (DOMAIN StatsTypes \cap DOMAIN FixedKinds) \ SingleStruct}
    \cup {Reply(k, <<FixedOf(k)>>) : k \in SingleStruct \cap DOMAIN FixedKinds}
    \cup {Reply(k, <<>>) : k \in SingleStruct}
    \cup {Reply("flow_stats", <<SizedOf("flow_stats", <<f>> \o i),
                                SizedOf("flow_stats", <<Wildcard>>)>>) :
            f \in MatchOf, i \in {<<>>, <<Apply(SomeActions)>>}}
    \cup {Reply("group_stats", <<SizedOf("group_stats", <<>>), SizedOf("group_stats",
                      <<FixedOf("bucket_counter"), FixedOf("bucket_counter")>>)>>),
          Reply("group_desc", <<SizedOf("group_desc", <<Bucket(SomeActions), Bucket(<<>>)>>),
                                SizedOf("group_desc", <<>>)>>),
          Reply("meter_stats", <<SizedOf("meter_stats", <<FixedOf("band_stats")>>),
                                 SizedOf("meter_stats", <<>>)>>),
          Reply("table_features", <<SizedOf("table_features", TableProperties),
                                    SizedOf("table_features", <<>>)>>)}
    \cup {Reply("meter_config", <<SizedOf("meter_config", b), SizedOf("meter_config", <<>>)>>) :
            b \in Bands}
    \cup {Reply("experimenter_stats", <<Node("experimenter_stats", "experimenter_stats",
                                             Pay(8 + n), <<>>)>>) : n \in {0, 8, 10, 16, 23}}

\* The other messages.
HeadOf(type) == Pay(Messages[type].head - 8)
Of(type, kids) == Msg(type, HeadOf(type), kids, <<>>)
PacketIn(m, total_len, data) ==
    Msg("packet_in", Pay(4) \o U16(total_len) \o Pay(10), <<m>>, data)
Element(name, body) == Node("hello_element", name, body, <<>>)
Others ==
    {Of(t, <<>>) : t \in DOMAIN FixedMessages}
    \cup {Msg(t, HeadOf(t), <<>>, Pay(n)) : t \in DOMAIN DataMessages, n \in {0, 5}}
    \cup {Msg("error", U16(65535) \o Pay(6), <<>>, Pay(3))}
    \cup {Of("hello", k) : k \in {<<>>, <<Element("unknown", Pay(4)),
                                          Element("version_bitmap", Pay(8))>>}}
    \cup {PacketIn(m, n, Pay(3)) : m \in MatchOf, n \in {3, 300}}
    \cup {Of("flow_removed", <<m>>) : m \in MatchOf}
    \cup {Of("port_status", <<FixedOf("port")>>)}
    \cup {Msg("packet_out", Pay(8), k, d) : k \in ActionLists, d \in {<<>>, Pay(3)}}
    \cup {Of("flow_mod", <<m>> \o i) : m \in {Wildcard, SomeMatch}, i \in Instructed}
    \cup {Of("flow_mod", <<m>> \o <<Apply(SomeActions)>>) : m \in MatchOf}
    \cup {Of("group_mod", k) : k \in {<<>>, <<Bucket(SomeActions), Bucket(<<>>),
                                             Bucket(<<Action("group")>>)>>}}
    \cup {Of("meter_mod", b) : b \in Bands}
    \cup {Of("queue_config", q) : q \in Queues}

MCMessage == Replies \cup Others

\* Not in MCMessage: setting a field of an experimenter, for which RoundTrip
\* does not hold; the padding is written over its value. For a configuration
\* with Message <- MCSetField and Settable <- MCSettableAll.
MCSettableAll == MCSettable \cup {"actset_output"}
MCSetField ==
    {Msg("packet_out", Pay(8), <<SetFieldOf(Value("actset_output"))>>, <<>>)}
=============================================================================
