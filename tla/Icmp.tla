-------------------------------- MODULE Icmp --------------------------------
(***************************************************************************)
(* icmp and icmpv6 of c65of/packet, with the message bodies, the neighbour *)
(* discovery options and the MLDv2 records. A body is the one kid of its   *)
(* header; a type without a class has its bytes as data of the header.     *)
(***************************************************************************)
EXTENDS Headers

\* A body that is a struct and then data, or nothing.
body_parser(name, size, buf) ==
    IF Len(buf) < 4 + size THEN Short
    ELSE Kids(<<Node(name, At(buf, 4, size), <<>>, Slice(buf, 4 + size, Len(buf)))>>, Len(buf))

\* What both parsers make of a body, and of none: there is never a rest.
WithBody(name, buf, body) ==
    IF Len(buf) < 4 THEN Short
    ELSE IF Len(buf) = 4 THEN Header(Node(name, buf, <<>>, <<>>), None, <<>>)
    ELSE IF body.end # "header" THEN body
    ELSE Header(Node(name, At(buf, 0, 4), body.kids,
                     IF body.kids = <<>> THEN Slice(buf, 4, Len(buf)) ELSE <<>>),
                None, <<>>)

-----------------------------------------------------------------------------
ICMP_TYPES == (0 :> "echo") @@ (8 :> "echo") @@ (3 :> "dest_unreach") @@ (11 :> "TimeExceeded")

icmp_parser(buf) ==
    WithBody("icmp", buf,
             IF buf[1] \in DOMAIN ICMP_TYPES THEN body_parser(ICMP_TYPES[buf[1]], 4, buf)
             ELSE Kids(<<>>, 4))

\* A message without a body gets an echo; the checksum is of the whole message.
icmp_serialize(h) ==
    LET full == IF h.kids = <<>> /\ h.data = <<>>
                THEN [h EXCEPT !.kids = <<Node("echo", Zeros(4), <<>>, <<>>)>>] ELSE h
    IN  IF Word(h.body, 2) # 0 THEN full
        ELSE [full EXCEPT !.body = Put16(@, 2, checksum(Wire(full)))]

-----------------------------------------------------------------------------
(* Neighbour discovery. *)

\* Option types each message has a class for.
SLA == 1
TLA == 2
PI == 3
MTU == 5
ND_OPTION_TYPES ==
    [nd_neighbor |-> {SLA, TLA}, nd_router_solicit |-> {SLA}, nd_router_advert |-> {SLA, PI, MTU}]

\* A struct of a size, behind which the next option starts.
nd_fixed(name, size, buf, at) ==
    IF at + size > Len(buf) THEN Short
    ELSE Kids(<<Node(name, At(buf, at, size), <<>>, <<>>)>>, at + size)

\* A link-layer address option takes all that is left of the buffer.
nd_la_parser(buf, at) ==
    IF at + 8 > Len(buf) THEN Short
    ELSE Kids(<<Node("nd_option_la", At(buf, at, 8), <<>>, Slice(buf, at + 8, Len(buf)))>>,
              Len(buf))

\* One option; of an unregistered type it stays raw, as far as it says or to the end.
parse_option(message, buf, at, bounded) ==
    LET type == buf[at + 1]
        known == type \in ND_OPTION_TYPES[message]
        raw == At(buf, at, IF bounded THEN 8 * buf[at + 2] ELSE Len(buf))
    IN  CASE at + 2 > Len(buf) -> Short
          [] at + 2 <= Len(buf) /\ buf[at + 2] = 0 -> Short
          [] OTHER ->
                CASE known /\ type \in {SLA, TLA} -> nd_la_parser(buf, at)
                  [] known /\ type = PI -> nd_fixed("nd_option_pi", 32, buf, at)
                  [] known /\ type = MTU -> nd_fixed("nd_option_mtu", 8, buf, at)
                  [] ~known -> Kids(<<Raw(raw)>>, at + Len(raw))

\* Every option from an offset on.
RECURSIVE nd_options(_, _)
nd_options(buf, at) ==
    IF at >= Len(buf) THEN Kids(<<>>, at)
    ELSE LET read == parse_option("nd_router_advert", buf, at, TRUE)
         IN  IF read.end # "header" THEN read
             ELSE Then(read.kids[1], nd_options(buf, read.at))

\* A body of a size and its options: all of them, or the one there is.
nd_parser(name, size, buf) ==
    LET options_read == IF name = "nd_router_advert" THEN nd_options(buf, 4 + size)
                        ELSE IF Len(buf) > 4 + size
                        THEN parse_option(name, buf, 4 + size, FALSE)
                        ELSE Kids(<<>>, 4 + size)
    IN  IF Len(buf) < 4 + size THEN Short
        ELSE IF options_read.end # "header" THEN options_read
        ELSE Kids(<<Node(name, At(buf, 4, size), options_read.kids, <<>>)>>, options_read.at)

\* Padded to 8 bytes, and sized when length is 0.
nd_option_serialize(o) ==
    LET padded == o.data \o Zeros(round_up(Len(o.data), 8) - Len(o.data))
    IN  CASE o.name = "nd_option_la" ->
                [o EXCEPT !.data = padded,
                          !.body = IF @[2] = 0 THEN Put8(@, 1, 1 + Len(padded) \div 8) ELSE @]
          [] o.name = "nd_option_pi" ->
                [o EXCEPT !.body = IF @[2] = 0 THEN Put8(@, 1, 4) ELSE @]
          [] o.name = "nd_option_mtu" -> [o EXCEPT !.body = Put8(@, 1, 1)]
          [] OTHER -> o

-----------------------------------------------------------------------------
(* Multicast listener discovery. *)

\* Up to num addresses, or those up to the end of the buffer.
srcs(buf, at, num) ==
    LET there == Len(buf) - at
        n == IF 16 * num <= there THEN num ELSE there \div 16
    IN  IF n < num /\ there % 16 # 0 THEN Short
        ELSE Kids(Parts("src", buf, at, 16, n), at + 16 * n)

mldv2_query_parser(buf) ==
    IF Len(buf) < 28 THEN Short
    ELSE LET read == srcs(buf, 28, Word(buf, 26))
         IN  IF read.end # "header" THEN read
             ELSE Kids(<<Node("mldv2_query", At(buf, 4, 24), read.kids, <<>>)>>, read.at)

\* A body longer than an MLD message is an MLDv2 query.
mld_parser(buf) ==
    IF Len(buf) > 24 THEN mldv2_query_parser(buf) ELSE body_parser("mld", 20, buf)

group_parser(buf, at) ==
    IF at + 20 > Len(buf) THEN Short
    ELSE LET read == srcs(buf, at + 20, Word(buf, at + 2))
             aux == 4 * buf[at + 2]
         IN  IF read.end # "header" THEN read
             ELSE IF read.at + aux > Len(buf) THEN Short
             ELSE Kids(<<Node("mldv2_report_group", At(buf, at, 20), read.kids,
                              At(buf, read.at, aux))>>,
                       at + 20 + 16 * Len(read.kids) + aux)

RECURSIVE records(_, _, _)
records(buf, at, num) ==
    IF at >= Len(buf) \/ num = 0 THEN Kids(<<>>, at)
    ELSE LET read == group_parser(buf, at)
         IN  IF read.end # "header" THEN read
             ELSE Then(read.kids[1], records(buf, read.at, num - 1))

mldv2_report_parser(buf) ==
    IF Len(buf) < 8 THEN Short
    ELSE LET read == records(buf, 8, Word(buf, 6))
         IN  IF read.end # "header" THEN read
             ELSE Kids(<<Node("mldv2_report", At(buf, 4, 4), read.kids, <<>>)>>, read.at)

\* A count of 0 is counted.
Counted(body, at, kids) == IF Word(body, at) = 0 THEN Put16(body, at, Len(kids)) ELSE body

group_serialize(r) ==
    LET aux == r.data \o Zeros(round_up(Len(r.data), 4) - Len(r.data))
        body == Counted(r.body, 2, r.kids)
    IN  [r EXCEPT !.data = aux,
                  !.body = IF body[2] = 0 THEN Put8(body, 1, Len(aux) \div 4) ELSE body]

-----------------------------------------------------------------------------
icmpv6_body(buf) ==
    LET type == buf[1]
    IN  CASE type \in {128, 129} -> body_parser("echo", 4, buf)
          [] type \in 130 .. 132 -> mld_parser(buf)
          [] type = 133 -> nd_parser("nd_router_solicit", 4, buf)
          [] type = 134 -> nd_parser("nd_router_advert", 12, buf)
          [] type \in {135, 136} -> nd_parser("nd_neighbor", 20, buf)
          [] type = 143 -> mldv2_report_parser(buf)
          [] OTHER -> Kids(<<>>, 4)

icmpv6_parser(buf) == WithBody("icmpv6", buf, icmpv6_body(buf))

\* What the serializers of the bodies fill in.
icmpv6_body_serialize(b) ==
    CASE b.name \in DOMAIN ND_OPTION_TYPES ->
            [b EXCEPT !.kids = [i \in DOMAIN b.kids |-> nd_option_serialize(b.kids[i])]]
      [] b.name = "mldv2_query" -> [b EXCEPT !.body = Counted(@, 22, b.kids)]
      [] b.name = "mldv2_report" ->
            [b EXCEPT !.kids = [i \in DOMAIN b.kids |-> group_serialize(b.kids[i])],
                      !.body = Counted(@, 2, b.kids)]
      [] OTHER -> b

\* The pseudo header of an IPv6 header: addresses, length and next header.
PseudoHeader(ip, length, nxt) ==
    Slice(ip.body, 8, 40) \o <<0, 0>> \o U16(length) \o <<0, 0, 0, nxt>>

(* Slip: the checksum is of the message alone, as it is in icmp. *)
Icmpv6NoPseudoHeader(h, payload, prev) ==
    LET full == [h EXCEPT !.kids = [i \in DOMAIN h.kids |-> icmpv6_body_serialize(h.kids[i])]]
    IN  IF Word(h.body, 2) # 0 THEN full
        ELSE [full EXCEPT !.body = Put16(@, 2, checksum(Wire(full) \o payload))]

\* The pseudo header takes the next header of prev, the header around.
icmpv6_serialize(h, payload, prev) ==
    LET full == [h EXCEPT !.kids = [i \in DOMAIN h.kids |-> icmpv6_body_serialize(h.kids[i])]]
        wire == Wire(full)
    IN  IF Word(h.body, 2) # 0 THEN full
        ELSE [full EXCEPT !.body =
                 Put16(@, 2, checksum(PseudoHeader(prev, Len(wire), prev.body[7])
                                          \o wire \o payload))]

=============================================================================
