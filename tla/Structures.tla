----------------------------- MODULE Structures -----------------------------
(***************************************************************************)
(* OpenFlow messages on the wire: what c65of/ofproto/base.py, messages.py, *)
(* multipart.py and nx.py know of each structure, and how they serialize   *)
(* it. What the library only parses is serialized as a switch does it.     *)
(*                                                                         *)
(* A structure is a tree: a kind, a type, the bytes of its fixed part      *)
(* (struct packs and unpacks them) and the structures inside it.           *)
(***************************************************************************)
EXTENDS Oxm

Node(kind, type, body, kids) ==
    [kind |-> kind, type |-> type, body |-> body, kids |-> kids]

Msg(type, body, kids, data) ==
    [type |-> type, body |-> body, kids |-> kids, data |-> data]

-----------------------------------------------------------------------------
(* The registries: structures of a type, a length and a body of fixed size *)
(* or, with size 0, one as long as the length says.                        *)

Tlv(number, size) == [number |-> number, size |-> size]

Actions == [
    output |-> Tlv(0, 12),         copy_ttl_out |-> Tlv(11, 4),
    copy_ttl_in |-> Tlv(12, 4),    set_mpls_ttl |-> Tlv(15, 4),
    dec_mpls_ttl |-> Tlv(16, 4),   push_vlan |-> Tlv(17, 4),
    pop_vlan |-> Tlv(18, 4),       push_mpls |-> Tlv(19, 4),
    pop_mpls |-> Tlv(20, 4),       set_queue |-> Tlv(21, 4),
    group |-> Tlv(22, 4),          set_nw_ttl |-> Tlv(23, 4),
    dec_nw_ttl |-> Tlv(24, 4),     push_pbb |-> Tlv(26, 4),
    pop_pbb |-> Tlv(27, 4),        set_field |-> Tlv(25, 0),
    experimenter |-> Tlv(65535, 4)]

\* The three that hold actions have four bytes of padding before them.
Instructions == [
    goto_table |-> Tlv(1, 4),      write_metadata |-> Tlv(2, 20),
    write_actions |-> Tlv(3, 4),   apply_actions |-> Tlv(4, 4),
    clear_actions |-> Tlv(5, 4),   meter |-> Tlv(6, 4)]

OFPInstructionActions == {"write_actions", "apply_actions", "clear_actions"}

MeterBands == [
    drop |-> Tlv(1, 12), dscp_remark |-> Tlv(2, 12),
    experimenter |-> Tlv(65535, 12)]

QueueProps == [
    min_rate |-> Tlv(1, 12), max_rate |-> Tlv(2, 12),
    experimenter |-> Tlv(65535, 0)]

HelloElements == [version_bitmap |-> Tlv(1, 0)]

\* Nicira actions, by subtype; the body of a translation is as long as the
\* bitmap of its ranges says.
NxActions == [
    ct |-> Tlv(35, 14), nat |-> Tlv(36, 0), ct_clear |-> Tlv(43, 6)]

NX == <<0, 0, 35, 32>>
NX_ACTION_HEADER_SIZE == 10

Bit(n, i) == (n \div 2 ^ i) % 2
NatSize(present) ==
    6 + 4 * (Bit(present, 0) + Bit(present, 1))
      + 16 * (Bit(present, 2) + Bit(present, 3))
      + 2 * (Bit(present, 4) + Bit(present, 5))

\* TLVRegistry.lookup
Lookup(registry, number) ==
    IF \E n \in DOMAIN registry : registry[n].number = number
    THEN CHOOSE n \in DOMAIN registry : registry[n].number = number
    ELSE "unknown"

-----------------------------------------------------------------------------
(* Structures with a length somewhere in a head of fixed size, and a list. *)

Sized(head, length_at, list) ==
    [head |-> head, length_at |-> length_at, list |-> list]

OFPBucket == Sized(16, 0, "action")
OFPPacketQueue == Sized(16, 8, "queue_prop")
OFPFlowStats == Sized(48, 0, "flow")
OFPGroupStats == Sized(40, 0, "bucket_counter")
OFPGroupDescStats == Sized(8, 0, "bucket")
OFPMeterStats == Sized(40, 4, "band_stats")
OFPMeterConfigStats == Sized(8, 0, "band")
OFPTableFeaturesStats == Sized(64, 0, "table_prop")

SizedKinds == [
    bucket |-> OFPBucket,             queue |-> OFPPacketQueue,
    flow_stats |-> OFPFlowStats,      group_stats |-> OFPGroupStats,
    group_desc |-> OFPGroupDescStats, meter_stats |-> OFPMeterStats,
    meter_config |-> OFPMeterConfigStats,
    table_features |-> OFPTableFeaturesStats]

(* Structures of a fixed size. *)

OFPPort == 64
OFPDescStats == 1056
OFPAggregateStats == 24
OFPTableStats == 24
OFPPortStats == 112
OFPQueueStats == 40
OFPBucketCounter == 16
OFPGroupFeaturesStats == 40
OFPMeterBandStats == 16
OFPMeterFeaturesStats == 16

FixedKinds == [
    port |-> OFPPort,                 desc |-> OFPDescStats,
    aggregate |-> OFPAggregateStats,  table_stats |-> OFPTableStats,
    port_stats |-> OFPPortStats,      queue_stats |-> OFPQueueStats,
    bucket_counter |-> OFPBucketCounter,
    group_features |-> OFPGroupFeaturesStats,
    band_stats |-> OFPMeterBandStats,
    meter_features |-> OFPMeterFeaturesStats]

\* Table feature properties, by the list inside.
TableProps == [
    instructions |-> [number |-> 0, list |-> "id"],
    next_tables  |-> [number |-> 2, list |-> "none"],
    write_actions |-> [number |-> 4, list |-> "id"],
    match        |-> [number |-> 8, list |-> "oxm_id"],
    experimenter |-> [number |-> 65534, list |-> "none"]]

-----------------------------------------------------------------------------
(* Messages: the number, the bytes before the list, the list.              *)

Body(number, head, list) == [number |-> number, head |-> head, list |-> list]

\* Messages that are a header and a struct, with the size of both.
FeaturesAndConfig == [
    features_request |-> Body(5, 8, "none"), features |-> Body(6, 32, "none"),
    get_config |-> Body(7, 8, "none"),  config_reply |-> Body(8, 12, "none"),
    set_config |-> Body(9, 12, "none")]
PortAndTableMod == [
    port_mod |-> Body(16, 40, "none"),  table_mod |-> Body(17, 16, "none")]
Barriers == [
    barrier |-> Body(20, 8, "none"),    barrier_reply |-> Body(21, 8, "none")]
OFPQueueGetConfigRequest == Body(22, 16, "none")
RoleAndAsync == [
    role |-> Body(24, 24, "none"),      role_reply |-> Body(25, 24, "none"),
    get_async |-> Body(26, 8, "none"),  async_reply |-> Body(27, 32, "none"),
    set_async |-> Body(28, 32, "none")]
FixedMessages ==
    Tables(Tables(FeaturesAndConfig, PortAndTableMod),
           Tables(Tables(Barriers, RoleAndAsync),
                  [queue_get |-> OFPQueueGetConfigRequest]))

\* Messages whose end is opaque.
OFPErrorMsg == Body(1, 12, "data")
DataMessages == [
    error |-> OFPErrorMsg, echo_request |-> Body(2, 8, "data"),
    echo_reply |-> Body(3, 8, "data"), experimenter |-> Body(4, 16, "data")]

\* Messages that hold structures.
OFPHello == Body(0, 8, "hello_element")
OFPPacketIn == Body(10, 24, "match")
OFPFlowRemoved == Body(11, 48, "match")
OFPPortStatus == Body(12, 16, "port")
OFPPacketOut == Body(13, 24, "action")
OFPFlowMod == Body(14, 48, "flow")
OFPGroupMod == Body(15, 16, "bucket")
OFPMultipartReply == Body(19, 16, "reply")
OFPQueueGetConfigReply == Body(23, 16, "queue")
OFPMeterMod == Body(29, 16, "band")
ListMessages == [
    hello |-> OFPHello,               packet_in |-> OFPPacketIn,
    flow_removed |-> OFPFlowRemoved,  port_status |-> OFPPortStatus,
    packet_out |-> OFPPacketOut,      flow_mod |-> OFPFlowMod,
    group_mod |-> OFPGroupMod,        multipart |-> OFPMultipartReply,
    queue_config |-> OFPQueueGetConfigReply, meter_mod |-> OFPMeterMod]

Messages == Tables(FixedMessages, Tables(DataMessages, ListMessages))

\* OFPMultipartReply._STATS_MSG_TYPES: what the body of each reply lists.
StatsTypes == [
    desc |-> 0, flow_stats |-> 1, aggregate |-> 2, table_stats |-> 3,
    port_stats |-> 4, queue_stats |-> 5, group_stats |-> 6, group_desc |-> 7,
    group_features |-> 8, meter_stats |-> 9, meter_config |-> 10,
    meter_features |-> 11, table_features |-> 12, port |-> 13,
    experimenter_stats |-> 65535]

\* Replies whose body is one structure.
SingleStruct == {"desc", "aggregate", "group_features", "experimenter_stats"}

-----------------------------------------------------------------------------
(* The structures: what is inside which, and how long the fixed part is.   *)

CONSTANTS
    MaxDepth,   \* how deep structures are nested
    Settable    \* the names of fields a set-field action sets

ASSUME StructuresAssumption == MaxDepth \in Nat /\ Settable \subseteq Names

\* The registry of the kinds that are a type, a length and a body.
Registries == [
    action |-> Actions, instruction |-> Instructions, band |-> MeterBands,
    queue_prop |-> QueueProps, hello_element |-> HelloElements]

\* The list that follows the fixed part.
ListIn(o) ==
    CASE o.kind = "match" -> "oxm"
      [] o.kind = "nx_action" /\ o.type = "ct" -> "action"
      [] o.kind = "instruction" /\ o.type \in OFPInstructionActions -> "action"
      [] o.kind = "table_prop" /\ o.type \in DOMAIN TableProps ->
             TableProps[o.type].list
      [] o.kind \in DOMAIN SizedKinds -> SizedKinds[o.kind].list
      [] OTHER -> "none"

\* What each list may have; a flow is a match and then instructions.
Fits(list, kids) ==
    CASE list \in {"none", "data"} -> kids = <<>>
      [] list = "match" -> Len(kids) = 1 /\ kids[1].kind = "match"
      [] list = "flow" ->
             /\ kids # <<>> /\ kids[1].kind = "match"
             /\ \A i \in 2 .. Len(kids) : kids[i].kind = "instruction"
      [] list = "oxm" -> \A i \in DOMAIN kids : kids[i].kind \in {"oxm", "oxm_w"}
      [] list = "action" -> \A i \in DOMAIN kids : kids[i].kind \in {"action", "nx_action"}
      [] OTHER -> \A i \in DOMAIN kids : kids[i].kind = list

\* A field has a value of its size, if its type has one, and maybe a mask; the
\* length of a TLV is a byte.
OxmFits(o) ==
    LET copies == IF o.kind = "oxm_w" THEN 2 ELSE 1
        size == Len(o.body) \div copies
    IN  /\ o.type \in Names
        /\ size > 0 /\ Len(o.body) = copies * size
        /\ Fields[o.type].size \in {0, size}
        /\ Len(exp_header(Fields[o.type])) + Len(o.body) < 256

\* Bodies have the size of their type, those of a variable size the padding
\* that aligns the next structure. An experimenter action is not Nicira's.
TlvFits(o) ==
    LET registry == Registries[o.kind]
    IN  /\ o.type \in DOMAIN registry => registry[o.type].size \in {0, Len(o.body)}
        /\ o.type \in DOMAIN registry \cup {"unknown"}
        /\ o.kind # "hello_element" => Len(o.body) % 8 = 4
        /\ o.kind = "action" /\ o.type = "experimenter" => o.body # NX
        /\ o.kind = "queue_prop" /\ o.type = "experimenter" => Len(o.body) >= 12

SetFieldFits(o) ==
    /\ o.body = <<>>
    /\ Len(o.kids) = 1 /\ o.kids[1].kind \in {"oxm", "oxm_w"}
    /\ o.kids[1].type \in Settable

\* The zone of a ct action is an immediate, with four zeros for a source, or
\* comes from a field, of class and number alone, with a type of its own.
ZoneFields == {n \in Names : Fields[n].exp = NoExp /\ Fields[n].size > 0}
ZoneFits(zone) ==
    zone = Zeros(4) \/ \E n \in ZoneFields : zone = oxm_serialize_header(Fields[n])

NxFits(o) ==
    CASE o.type = "unknown" -> (NX_ACTION_HEADER_SIZE + Len(o.body)) % 8 = 0
      [] o.type = "ct" -> Len(o.body) = NxActions.ct.size /\ ZoneFits(At(o.body, 2, 4))
      [] o.type = "nat" -> Len(o.body) >= 6 /\ Len(o.body) = NatSize(o.body[6])
      [] OTHER -> o.type \in DOMAIN NxActions /\ Len(o.body) = NxActions[o.type].size

\* An experimenter property is two numbers and then words of four bytes.
TablePropFits(o) ==
    /\ o.type \in DOMAIN TableProps \cup {"unknown"}
    /\ ListIn(o) # "none" => o.body = <<>>
    /\ o.type = "experimenter" => Len(o.body) >= 8 /\ Len(o.body) % 4 = 0

\* The type of the structures that have one type is their kind.
OtherFits(o) ==
    /\ o.type = o.kind
    /\ \/ o.kind = "id" /\ Len(o.body) = 2
       \/ /\ o.kind = "oxm_id" /\ Len(o.body) >= 4
          /\ Len(o.body) = IF Word(o.body, 0) = EXPERIMENTER THEN 8 ELSE 4
       \/ o.kind = "experimenter_stats" /\ Len(o.body) >= 8
       \/ o.kind \in DOMAIN FixedKinds /\ Len(o.body) = FixedKinds[o.kind]
       \/ o.kind \in DOMAIN SizedKinds /\ Len(o.body) = SizedKinds[o.kind].head - 2

WellMade(o) ==
    IF o.kind = "action" /\ o.type = "set_field" THEN SetFieldFits(o)
    ELSE /\ Fits(ListIn(o), o.kids)
         /\ CASE o.kind \in {"oxm", "oxm_w"} -> OxmFits(o)
              [] o.kind = "match" -> o = OFPMatch(o.kids)
              [] o.kind \in DOMAIN Registries -> TlvFits(o)
              [] o.kind = "nx_action" -> NxFits(o)
              [] o.kind = "table_prop" -> TablePropFits(o)
              [] OTHER -> OtherFits(o)

\* Structures nested at most n deep.
Nested[n \in 0 .. MaxDepth] ==
    IF n = 0 THEN {}
    ELSE {o \in [kind : STRING, type : STRING, body : Seq(Byte),
                 kids : Seq(Nested[n - 1])] : WellMade(o)}

Structure == Nested[MaxDepth]

-----------------------------------------------------------------------------
(* Serializing *)

Tagged(number, body) == U16(number) \o U16(4 + Len(body)) \o body

\* OFPActionSetField.serialize: the padding is written behind what the code
\* takes for the end of the field, a header of four bytes and the value.
SetField(o) ==
    LET payload == 4 + Len(o.body)
        len == round_up(4 + payload, 8)
        header == U16(Actions.set_field.number) \o U16(len)
        field == msg_pack_into(oxm_serialize(o), header, 4)
    IN  msg_pack_into(Zeros(len - 4 - payload), field, 4 + payload)

\* NXAction.serialize
NxAction(subtype, data) ==
    LET len == round_up(NX_ACTION_HEADER_SIZE + Len(data), 8)
    IN  U16(Actions.experimenter.number) \o U16(len) \o NX \o U16(subtype)
          \o data \o Zeros(len - NX_ACTION_HEADER_SIZE - Len(data))

\* OFPMatch.serialize
Match(fields) ==
    LET length == 4 + Len(fields)
    IN  U16(1) \o U16(length) \o fields \o Zeros(round_up(length, 8) - length)

\* A length between the bytes of the head.
WithLength(k, head, length) ==
    At(head, 0, k.length_at) \o U16(length)
      \o At(head, k.length_at, Len(head) - k.length_at)

\* Slip: the length of a bucket is that of its actions.
BucketOfActions(head, actions) ==
    WithLength(OFPBucket, head, round_up(Len(actions), 8)) \o actions

\* OFPBucket.serialize: the length is rounded up; nothing is written there.
OFPBucketBytes(head, actions) ==
    WithLength(OFPBucket, head, round_up(OFPBucket.head + Len(actions), 8)) \o actions

\* OFPTableFeatureProp.serialize: the padding is not counted.
TableProp(number, body) ==
    Tagged(number, body) \o Zeros(round_up(4 + Len(body), 8) - 4 - Len(body))

\* The number an unknown type has on the wire here.
Unassigned == 99
Number(registry, type) ==
    IF type \in DOMAIN registry THEN registry[type].number ELSE Unassigned

\* A structure from the bytes of those inside, one after the other.
Encode(o, inner) ==
    CASE o.kind \in {"oxm", "oxm_w"} -> oxm_serialize(o)
      [] o.kind = "match" -> Match(inner)
      [] o.type = "set_field" -> SetField(o.kids[1])
      [] o.kind = "nx_action" ->
           NxAction(Number(NxActions, o.type), o.body \o inner)
      [] o.kind = "table_prop" ->
           TableProp(Number(TableProps, o.type), o.body \o inner)
      [] o.kind \in DOMAIN Registries /\ o.type # "set_field" ->
           Tagged(Number(Registries[o.kind], o.type), o.body \o inner)
      [] o.kind = "id" -> o.body \o U16(4)
      [] o.kind = "bucket" -> OFPBucketBytes(o.body, inner)
      [] o.kind \in DOMAIN SizedKinds \ {"bucket"} ->
           WithLength(SizedKinds[o.kind], o.body,
                      SizedKinds[o.kind].head + Len(inner)) \o inner
      [] OTHER -> o.body

\* What bytes makes of each structure of a list.
Inner(kids, bytes) == FlattenSeq([i \in DOMAIN kids |-> bytes[kids[i]]])

Bytes[o \in Structure] == Encode(o, Inner(o.kids, Bytes))

\* MsgBase.serialize; OFPPacketOut also writes how long its actions are, and
\* two bytes come before the data of a packet in.
MessageBytes(m) ==
    LET inner == Inner(m.kids, Bytes)
        body == CASE m.type = "packet_out" ->
                       m.body \o U16(Len(inner)) \o Zeros(6) \o inner \o m.data
                  [] m.type = "packet_in" -> m.body \o inner \o Zeros(2) \o m.data
                  [] OTHER -> m.body \o inner \o m.data
    IN  <<4, Messages[m.type].number>> \o U16(8 + Len(body)) \o Zeros(4) \o body

-----------------------------------------------------------------------------
(* Messages callers and switches build. *)

\* An experimenter error has four bytes more before its data.
OFPET_EXPERIMENTER == 65535
Extra(m) ==
    IF m.type = "error" /\ Word(m.body, 0) = OFPET_EXPERIMENTER THEN 4 ELSE 0

\* The fixed part; struct writes the length of the actions of a packet out.
FixedSize(m) ==
    IF m.type = "packet_out" THEN 8 ELSE Messages[m.type].head - 8 + Extra(m)

\* What is behind the list; total_len is that of the packet, or of more.
DataFits(m) ==
    \/ m.data = <<>>
    \/ Messages[m.type].list = "data" \/ m.type = "packet_out"
    \/ m.type = "packet_in" /\ Len(m.data) <= Word(m.body, 4)

\* A port status is about one port.
KidsFit(m) ==
    IF m.type # "multipart"
    THEN Fits(Messages[m.type].list, m.kids) /\ (m.type = "port_status" => Len(m.kids) = 1)
    ELSE \A l \in DOMAIN StatsTypes : StatsTypes[l] = Word(m.body, 0) =>
             Fits(l, m.kids) /\ (l \in SingleStruct => Len(m.kids) <= 1)

\* The length of a message has two bytes.
WellFormed ==
    {m \in [type : DOMAIN Messages, body : Seq(Byte),
            kids : Seq(Structure), data : Seq(Byte)] :
        /\ Len(m.body) = FixedSize(m) /\ DataFits(m) /\ KidsFit(m)
        /\ Len(MessageBytes(m)) < 65536}

=============================================================================
