--------------------------------- MODULE Oxm ---------------------------------
(***************************************************************************)
(* Match fields on the wire: the field table, OXM TLVs and OFPMatch of     *)
(* c65of/ofproto/oxm.py, nx.py and base.py, on the buffers of Bytes.       *)
(***************************************************************************)
EXTENDS Bytes

\* struct.pack_into on a buffer that grows to fit; it writes over what is there.
msg_pack_into(data, buf, offset) ==
    LET needed == offset + Len(data)
        size == IF needed > Len(buf) THEN needed ELSE Len(buf)
    IN  [i \in 1 .. size |->
            IF i > offset /\ i <= needed THEN data[i - offset]
            ELSE IF i <= Len(buf) THEN buf[i] ELSE 0]

-----------------------------------------------------------------------------
(* The field table: one field for each shape of header and size of value.  *)

NXM_1 == 1
BASIC == 32768
EXPERIMENTER == 65535

\* Experimenter ids, as the bytes of the header.
NoExp == <<>>
ONF == <<79, 78, 70, 0>>
NSH == <<0, 90, 214, 80>>

\* The exp_type of the superseded encoding.
EXT256 == 2560

Field(class, num, exp, size) ==
    [class |-> class, num |-> num, exp |-> exp, size |-> size]

BasicFields == [
    in_port    |-> Field(BASIC, 0, NoExp, 4),
    eth_dst    |-> Field(BASIC, 3, NoExp, 6),
    eth_type   |-> Field(BASIC, 5, NoExp, 2),
    ip_proto   |-> Field(BASIC, 10, NoExp, 1),
    ipv6_src   |-> Field(BASIC, 26, NoExp, 16)]

\* pbb_uca has number 0: its exp_type follows the experimenter id.
ExpFields == [
    pbb_uca       |-> Field(EXPERIMENTER, 0, ONF, 1),
    tcp_flags     |-> Field(EXPERIMENTER, 42, ONF, 2),
    actset_output |-> Field(EXPERIMENTER, 43, ONF, 4)]

NxFields == [
    ct_mark |-> Field(NXM_1, 107, NoExp, 4),
    nsh_spi |-> Field(EXPERIMENTER, 4, NSH, 4)]

\* A number no table has names its field; the value is opaque, of any size (0).
OtherFields == [field_4194350 |-> Field(BASIC, 46, NoExp, 0)]

Fields == Tables(Tables(BasicFields, ExpFields), Tables(NxFields, OtherFields))
Names == DOMAIN Fields

-----------------------------------------------------------------------------
(* One TLV. A masked field has the value and then the mask as its value.   *)

Oxm(name, masked, value) ==
    [kind |-> IF masked THEN "oxm_w" ELSE "oxm",
     type |-> name, body |-> value, kids |-> <<>>]

exp_header(f) ==
    IF f.exp = NoExp THEN <<>>
    ELSE IF f.num = 0 THEN f.exp \o U16(EXT256) ELSE f.exp

oxm_serialize(o) ==
    LET f == Fields[o.type]
        payload == exp_header(f) \o o.body
        hasmask == IF o.kind = "oxm_w" THEN 1 ELSE 0
    IN  U16(f.class) \o <<2 * f.num + hasmask, Len(payload)>> \o payload

\* The four bytes of a header for a field of class and number alone.
oxm_serialize_header(f) ==
    <<f.class \div 256, f.class % 256, 2 * f.num, f.size>>

\* The field a header names, or "unknown"; the code looks its number up.
FieldAt(buf, at) ==
    LET exp == IF Word(buf, at) = EXPERIMENTER THEN At(buf, at + 4, 4) ELSE NoExp
        Named(n) == Fields[n] =
            [Fields[n] EXCEPT !.class = Word(buf, at),
                              !.num = buf[at + 3] \div 2, !.exp = exp]
    IN  IF \E n \in Names : Named(n) THEN CHOOSE n \in Names : Named(n)
        ELSE "unknown"

\* The TLV at an offset and its length; no field has an empty value, and
\* oxm_to_user refuses one that is not as long as its type.
oxm_parse(buf, at) ==
    LET name == FieldAt(buf, at)
        masked == buf[at + 3] % 2 = 1
        exp_hdr_len == Len(exp_header(Fields[name]))
        oxm_length == buf[at + 4]
        value == At(buf, at + 4 + exp_hdr_len, oxm_length - exp_hdr_len)
        value_len == Len(value) \div (IF masked THEN 2 ELSE 1)
    IN  IF name = "unknown" THEN [ok |-> FALSE]
        ELSE [ok |-> value_len > 0 /\ Fields[name].size \in {0, value_len},
              item |-> Oxm(name, masked, value), len |-> 4 + oxm_length]

-----------------------------------------------------------------------------
(* OFPMatch of keyword arguments. *)

\* A mask byte is all or nothing here.
Masked(value, mask) ==
    [i \in DOMAIN value |-> IF mask[i] = 0 THEN 0 ELSE value[i]]

oxm_normalize_user(name, value, mask) ==
    IF mask = <<>> THEN Oxm(name, FALSE, value)
    ELSE Oxm(name, TRUE, Masked(value, mask) \o mask)

\* What match fields are sorted by: the number, and of the number of an
\* experimenter field only the experimenter id.
SortKey(o) ==
    LET f == Fields[o.type] IN
    IF f.exp = NoExp THEN 128 * f.class + f.num
    ELSE 65536 * Word(f.exp, 0) + Word(f.exp, 2)

\* Slip: the fields stay in the order of the keyword arguments.
UnsortedMatch(fields) ==
    [kind |-> "match", type |-> "oxm", body |-> <<>>, kids |-> fields]

\* Python's sort is stable: before a field come those of smaller keys, and of
\* the same key those named before it.
OFPMatch(fields) ==
    LET Before(i) == {j \in DOMAIN fields :
            \/ SortKey(fields[j]) < SortKey(fields[i])
            \/ SortKey(fields[j]) = SortKey(fields[i]) /\ j < i}
        Place(k) == CHOOSE i \in DOMAIN fields : Cardinality(Before(i)) = k - 1
    IN  [kind |-> "match", type |-> "oxm", body |-> <<>>,
         kids |-> [k \in DOMAIN fields |-> fields[Place(k)]]]

=============================================================================
