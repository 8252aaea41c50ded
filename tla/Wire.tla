-------------------------------- MODULE Wire --------------------------------
(***************************************************************************)
(* A message is serialized and parsed. The parsers of c65of/ofproto are    *)
(* loops over lists of structures, each of which says how long it is and   *)
(* may hold lists itself; a loop is a frame of the stack here, a turn of   *)
(* the innermost loop an action. base.msg turns an exception anywhere into *)
(* "refused".                                                              *)
(***************************************************************************)
EXTENDS Structures

CONSTANT Message    \* the messages that travel

ASSUME WireAssumption == Message \subseteq WellFormed

VARIABLES
    msg,        \* the message sent
    buf,        \* its bytes
    stack,      \* the loops the parser is in, the innermost last
    result,     \* what the parser returns
    pc          \* "serialize", "header", "parse", "done" or "refused"

vars == <<msg, buf, stack, result, pc>>

-----------------------------------------------------------------------------
(* What the structure at an offset is: an outcome says how far the loop    *)
(* advances and which list, from where to where, has to be read first.     *)

Outcome(verdict, node, len, list, from, to) ==
    [verdict |-> verdict, node |-> node, len |-> len,
     list |-> list, from |-> from, to |-> to]

Nothing == Node("none", "none", <<>>, <<>>)

Leaf(node, len) == Outcome("leaf", node, len, "none", 0, 0)
Holds(node, len, list, from, to) == Outcome("holds", node, len, list, from, to)
Skip(len) == Outcome("skip", Nothing, len, "none", 0, 0)
Error == Outcome("error", Nothing, 0, "none", 0, 0)

\* _TLV_HDR
Type(at) == Word(buf, at)
Length(at) == Word(buf, at + 2)

\* A type and a body: of the size the type has, or of what the length leaves.
BodyAt(registry, at) ==
    LET size == registry[Lookup(registry, Type(at))].size
    IN  At(buf, at + 4, IF size = 0 THEN Length(at) - 4 ELSE size)

Tlvs(kind, at) ==
    LET name == Lookup(Registries[kind], Type(at))
    IN  Leaf(Node(kind, name, BodyAt(Registries[kind], at), <<>>), Length(at))

\* _ZoneSrc: four bytes that are not zero have to be the header of a field with
\* a value, and an experimenter's header is longer than that. What is kept is the
\* name of the field, which has no mask and the length its type has.
ZoneReads(zone) ==
    \/ zone = Zeros(4)
    \/ Word(zone, 0) # EXPERIMENTER /\ zone[4] \div (1 + (zone[3] % 2)) > 0
ZoneSrc(zone) ==
    LET name == FieldAt(zone, 0)
    IN  IF zone = Zeros(4) THEN zone
        ELSE <<zone[1], zone[2], zone[3] - (zone[3] % 2),
               IF name = "unknown" THEN 0 ELSE Fields[name].size>>

\* NXActionCT.parser: the zone source is the one field struct does not convert.
CtBody(body) == At(body, 0, 2) \o ZoneSrc(At(body, 2, 4)) \o At(body, 6, 8)

\* NXAction.parse_body for a Nicira action; one of an unknown subtype stays opaque.
ReadNxAction(at) ==
    LET name == Lookup(NxActions, Word(buf, at + 8))
        body == at + NX_ACTION_HEADER_SIZE
        size == CASE name = "nat" -> NatSize(buf[body + 6])
                  [] name = "unknown" -> Length(at) - NX_ACTION_HEADER_SIZE
                  [] OTHER -> NxActions[name].size
        fixed == At(buf, body, size)
        Nx(data) == Node("nx_action", name, data, <<>>)
    IN  CASE name = "ct" /\ ZoneReads(At(fixed, 2, 4)) ->
               Holds(Nx(CtBody(fixed)), Length(at), "action", body + size, at + Length(at))
          [] name = "ct" /\ ~ZoneReads(At(fixed, 2, 4)) -> Error
          [] OTHER -> Leaf(Nx(fixed), Length(at))

\* OFPAction.parser
ReadAction(at) ==
    LET name == Lookup(Actions, Type(at))
        field == oxm_parse(buf, at + 4)
    IN  CASE name = "unknown" -> Error
          [] name = "set_field" ->
               IF field.ok
               THEN Leaf(Node("action", name, <<>>, <<field.item>>), Length(at))
               ELSE Error
          [] name = "experimenter" /\ At(buf, at + 4, 4) = NX -> ReadNxAction(at)
          [] OTHER -> Tlvs("action", at)

\* OFPInstruction.parser
ReadInstruction(at) ==
    LET name == Lookup(Instructions, Type(at))
    IN  CASE name = "unknown" -> Error
          [] name \in OFPInstructionActions ->
               Holds(Node("instruction", name, At(buf, at + 4, 4), <<>>),
                     Length(at), "action", at + 8, at + Length(at))
          [] OTHER -> Tlvs("instruction", at)

\* OFPMatch.parser, and what its callers advance by
ReadMatch(at) ==
    Holds(Node("match", "oxm", <<>>, <<>>), round_up(Length(at), 8),
          "oxm", at + 4, at + Length(at))

ReadOxm(at) ==
    LET field == oxm_parse(buf, at)
    IN  IF field.ok THEN Leaf(field.item, field.len) ELSE Error

\* OFPMeterBandHeader.parser
ReadBand(at) ==
    IF Lookup(MeterBands, Type(at)) = "unknown" THEN Error ELSE Tlvs("band", at)

\* Unknown elements and properties are passed over by the length they give.
ReadHelloElement(at) ==
    IF Lookup(HelloElements, Type(at)) = "unknown" THEN Skip(Length(at))
    ELSE Tlvs("hello_element", at)

\* Slip: an unknown property is ignored, and so is its length.
StallingQueueProp(at) ==
    IF Lookup(QueueProps, Type(at)) = "unknown" THEN Skip(0)
    ELSE Tlvs("queue_prop", at)

\* The fixed part has twelve bytes whatever the length says; an experimenter's
\* has data behind it.
ReadQueueProp(at) ==
    LET name == Lookup(QueueProps, Type(at))
        size == IF name = "experimenter" /\ Length(at) > 16 THEN Length(at) - 4 ELSE 12
    IN  CASE name = "unknown" -> Skip(Length(at))
          [] name # "unknown" /\ at + 16 > Len(buf) -> Error
          [] OTHER -> Leaf(Node("queue_prop", name, At(buf, at + 4, size), <<>>), Length(at))

\* OFPTableFeaturePropExperimenter.parser: two numbers are there, and words of
\* four bytes follow.
ExperimenterPropReads(at) ==
    /\ at + 12 <= Len(buf)
    /\ Len(Slice(buf, at + 12, at + Length(at))) % 4 = 0

\* OFPTableFeatureProp.parse; a property of an unknown type stays opaque.
ReadTableProp(at) ==
    LET name == Lookup(TableProps, Type(at))
        list == IF name = "unknown" THEN "none" ELSE TableProps[name].list
        size == IF name = "experimenter" /\ Length(at) < 12 THEN 8 ELSE Length(at) - 4
        body == IF list = "none" THEN At(buf, at + 4, size) ELSE <<>>
        node == Node("table_prop", name, body, <<>>)
        len == round_up(Length(at), 8)
    IN  CASE Length(at) = 0 -> Error
          [] name = "experimenter" /\ ~ExperimenterPropReads(at) -> Error
          [] list = "none" -> Leaf(node, len)
          [] OTHER -> Holds(node, len, list, at + 4, at + Length(at))

\* _Id.parse
ReadId(at) ==
    IF Length(at) = 0 THEN Error
    ELSE Leaf(Node("id", "id", At(buf, at, 2), <<>>), Length(at))

\* OFPOxmId.parse; the experimenter id follows the header of four bytes.
ReadOxmId(at) ==
    LET len == IF Type(at) = EXPERIMENTER THEN 8 ELSE 4
    IN  Leaf(Node("oxm_id", "oxm_id", At(buf, at, len), <<>>), len)

ReadSized(kind, at) ==
    LET k == SizedKinds[kind]
        length == Word(buf, at + k.length_at)
        rest == k.length_at + 2
        body == At(buf, at, k.length_at) \o At(buf, at + rest, k.head - rest)
    IN  Holds(Node(kind, kind, body, <<>>), length,
              k.list, at + k.head, at + length)

ReadFixed(kind, at) ==
    Leaf(Node(kind, kind, At(buf, at, FixedKinds[kind]), <<>>), FixedKinds[kind])

\* OFPExperimenterMultipart.parser: all that is left is its data, but the loop
\* advances by the size of something else.
OFP_METER_FEATURES_SIZE == 16
ReadExperimenterStats(at) ==
    IF at + 8 > Len(buf) THEN Error
    ELSE Leaf(Node("experimenter_stats", "experimenter_stats",
                   At(buf, at, Len(buf) - at), <<>>), OFP_METER_FEATURES_SIZE)

\* A flow is a match and then instructions. Every structure has at least four
\* bytes for struct to unpack.
Read(list, at, items) ==
    IF at + 4 > Len(buf) THEN Error ELSE
    CASE list = "action" -> ReadAction(at)
      [] list = "flow" /\ items # <<>> -> ReadInstruction(at)
      [] list = "match" \/ (list = "flow" /\ items = <<>>) -> ReadMatch(at)
      [] list = "oxm" -> ReadOxm(at)
      [] list = "band" -> ReadBand(at)
      [] list = "hello_element" -> ReadHelloElement(at)
      [] list = "queue_prop" -> ReadQueueProp(at)
      [] list = "table_prop" -> ReadTableProp(at)
      [] list = "id" -> ReadId(at)
      [] list = "oxm_id" -> ReadOxmId(at)
      [] list = "experimenter_stats" -> ReadExperimenterStats(at)
      [] list \in DOMAIN SizedKinds -> ReadSized(list, at)
      [] list \in DOMAIN FixedKinds -> ReadFixed(list, at)

-----------------------------------------------------------------------------
(* The loops. *)

Frame(list, at, to) == [list |-> list, at |-> at, to |-> to, items |-> <<>>]
Top == stack[Len(stack)]

Init ==
    /\ msg \in Message
    /\ buf = <<>> /\ stack = <<>> /\ result = msg /\ pc = "serialize"

Serialize ==
    /\ pc = "serialize"
    /\ buf' = MessageBytes(msg)
    /\ pc' = "header"
    /\ UNCHANGED <<msg, stack, result>>

\* base.msg: the class of the message, and its fixed part.
MessageType == CHOOSE t \in DOMAIN Messages : Messages[t].number = buf[2]

HeadSize(type) ==
    Messages[type].head +
        (IF type = "error" /\ Word(buf, 8) = OFPET_EXPERIMENTER THEN 4 ELSE 0)

\* The fixed part; a packet out keeps no length of its actions.
Fixed(type) ==
    At(buf, 8, (IF type = "packet_out" THEN 16 ELSE HeadSize(type)) - 8)

\* The list a message is, or "unknown" for a multipart reply of no known type.
ListAt(type) ==
    IF type # "multipart" THEN Messages[type].list
    ELSE IF \E l \in DOMAIN StatsTypes : StatsTypes[l] = Word(buf, 8)
    THEN CHOOSE l \in DOMAIN StatsTypes : StatsTypes[l] = Word(buf, 8)
    ELSE "unknown"

\* Where the list ends: the message does, but for what data follows; a port
\* status is parsed for one port.
ListEnd(type) ==
    CASE type = "packet_out" -> Messages[type].head + Word(buf, 16)
      [] type = "packet_in" ->
           Messages[type].head + round_up(Length(Messages[type].head), 8)
      [] type = "port_status" -> Messages[type].head + OFPPort
      [] OTHER -> Length(0)

Header ==
    /\ pc = "header"
    /\ LET type == MessageType
           head == HeadSize(type)
           list == ListAt(type)
       IN  /\ result' = Msg(type, Fixed(type), <<>>,
                            IF list = "data" THEN At(buf, head, Len(buf) - head)
                            ELSE <<>>)
           /\ pc' = CASE list \in {"none", "data"} -> "done"
                      [] list = "unknown" -> "refused"
                      [] OTHER -> "parse"
           /\ stack' = IF pc' = "parse"
                       THEN <<Frame(list, head, ListEnd(type))>> ELSE <<>>
    /\ UNCHANGED <<msg, buf>>

\* A turn of the innermost loop is over: it has the structure and goes on
\* behind it.
Advance(frame, r) ==
    [frame EXCEPT !.at = @ + r.len,
                  !.items = IF r.verdict = "skip" THEN @ ELSE Append(@, r.node)]

Turning == pc = "parse" /\ Top.at < Top.to
Here == Read(Top.list, Top.at, Top.items)

Step ==
    /\ Turning /\ Here.verdict \in {"leaf", "skip"}
    /\ stack' = Front(stack) \o <<Advance(Top, Here)>>
    /\ UNCHANGED <<msg, buf, result, pc>>

Enter ==
    /\ Turning /\ Here.verdict = "holds"
    /\ stack' = Front(stack) \o
                  <<Advance(Top, Here), Frame(Here.list, Here.from, Here.to)>>
    /\ UNCHANGED <<msg, buf, result, pc>>

Raise ==
    /\ Turning /\ Here.verdict = "error"
    /\ pc' = "refused"
    /\ UNCHANGED <<msg, buf, stack, result>>

\* An inner loop is done: its structures belong to the last of the outer one.
Leave ==
    /\ pc = "parse" /\ Top.at >= Top.to /\ Len(stack) > 1
    /\ LET outer == stack[Len(stack) - 1]
       IN  stack' = SubSeq(stack, 1, Len(stack) - 2)
                      \o <<[outer EXCEPT !.items[Len(outer.items)].kids = Top.items]>>
    /\ UNCHANGED <<msg, buf, result, pc>>

\* Slip: the two bytes of padding before the packet are taken for its first.
PaddedData(type, end) ==
    LET data == At(buf, end, Len(buf) - end)
        total_len == Word(buf, 12)
    IN  CASE type = "packet_out" -> data
          [] type = "packet_in" ->
               IF total_len < Len(data) THEN At(data, 0, total_len) ELSE data
          [] OTHER -> <<>>

\* The data behind the actions, or behind match and padding, the latter cut to
\* total_len.
TrailingData(type, end) ==
    LET data == At(buf, end + 2, Len(buf) - end - 2)
        total_len == Word(buf, 12)
    IN  CASE type = "packet_out" -> At(buf, end, Len(buf) - end)
          [] type = "packet_in" ->
               IF total_len < Len(data) THEN At(data, 0, total_len) ELSE data
          [] OTHER -> <<>>

\* A reply whose body is one structure has the first one, and must have one.
Finish ==
    /\ pc = "parse" /\ Top.at >= Top.to /\ Len(stack) = 1
    /\ LET single == result.type = "multipart" /\ Top.list \in SingleStruct
       IN  /\ pc' = IF single /\ Top.items = <<>> THEN "refused" ELSE "done"
           /\ result' = [result EXCEPT
                  !.kids = IF single /\ Top.items # <<>> THEN <<Head(Top.items)>>
                           ELSE Top.items,
                  !.data = TrailingData(result.type, Top.to)]
    /\ UNCHANGED <<msg, buf, stack>>

Next == Serialize \/ Header \/ Step \/ Enter \/ Raise \/ Leave \/ Finish

\* The thread that parses goes on.
Spec == Init /\ [][Next]_vars /\ WF_vars(Next)

-----------------------------------------------------------------------------
(* Properties. *)

\* The unknown types a parser has to give up at.
Unparsable[o \in Structure] ==
    \/ o.kind \in {"action", "instruction", "band"} /\ o.type = "unknown"
    \/ \E i \in DOMAIN o.kids : Unparsable[o.kids[i]]

\* An experimenter reply is read once more at every sixteenth byte, where less
\* than a header may be left.
HeaderCut(o) ==
    o.kind = "experimenter_stats"
        /\ Len(o.body) % OFP_METER_FEATURES_SIZE \in 1 .. 7

\* A single structure that is not there, or not known.
NoBody(m) ==
    m.type = "multipart" /\ \A l \in DOMAIN StatsTypes :
        StatsTypes[l] = Word(m.body, 0) => l \in SingleStruct /\ m.kids = <<>>

\* Elements that are passed over are not in what the parser returns.
PassedOver(o) == o.kind \in {"hello_element", "queue_prop"} /\ o.type = "unknown"
Without(kids, known) ==
    FlattenSeq([i \in DOMAIN kids |->
                   IF PassedOver(kids[i]) THEN <<>> ELSE <<known[kids[i]]>>])
Known[o \in Structure] == [o EXCEPT !.kids = Without(@, Known)]

\* What the parser makes of a message is the message that was serialized, but
\* for the elements passed over; it refuses only what has a type it has to know
\* (base.py 343, multipart.py 166) or no body (multipart.py 154).
RoundTrip ==
    /\ pc = "done" => result = [msg EXCEPT !.kids = Without(@, Known)]
    /\ pc = "refused" =>
           \/ NoBody(msg)
           \/ \E i \in DOMAIN msg.kids :
                  Unparsable[msg.kids[i]] \/ HeaderCut(msg.kids[i])

\* No structure ends behind the one it is in, no loop goes on behind the end of
\* its list, and every structure the protocol aligns begins at a multiple of
\* eight bytes from the start of the message: the lengths and the padding
\* written agree at every level of nesting (base.py 577, nx.py 122,
\* multipart.py 331).
AlignedLists == {"action", "instruction", "flow", "match", "bucket",
                 "band", "queue", "queue_prop", "table_prop"}
LengthsNest ==
    \A i \in DOMAIN stack :
        /\ stack[i].list # "experimenter_stats" => stack[i].at <= stack[i].to
        /\ stack[i].to <= IF i = 1 THEN Len(buf) ELSE stack[i - 1].at
        /\ stack[i].list \in AlignedLists => stack[i].at % 8 = 0

\* The fields of a match that say what packet it is come before the fields that
\* exist only in such packets, whatever order the caller named them in
\* (base.py 224: which is what the prerequisite rules require).
Prerequisite == [
    ip_proto |-> "eth_type", ipv6_src |-> "eth_type",
    tcp_flags |-> "ip_proto", pbb_uca |-> "eth_type"]
PrerequisiteFirst ==
    \A i \in DOMAIN stack :
        LET items == stack[i].items IN
        stack[i].list = "oxm" => \A j, k \in DOMAIN items :
            /\ items[j].type \in DOMAIN Prerequisite
            /\ items[k].type = Prerequisite[items[j].type]
            => k < j

\* The parser comes to an end, passing over what it does not know
\* (messages.py 796: rather than stalling the loop).
WalkEnds == <>(pc \in {"done", "refused"})

=============================================================================
