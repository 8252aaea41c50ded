---------------------------- MODULE StreamFraming ----------------------------
(***************************************************************************)
(* How messages are cut out of the byte stream of a switch: StreamParser   *)
(* of c65of/packet/stream_parser.py, OFPStreamParser and the receive loop  *)
(* of c65of/controller.py.                                                 *)
(*                                                                         *)
(* A byte is a number. Of the header only what framing looks at is left:   *)
(* its first byte is what base.msg makes of the message, its second the    *)
(* length the message declares, which may be less than the header or more  *)
(* than what has arrived.                                                  *)
(***************************************************************************)
EXTENDS Naturals, Sequences, SequencesExt

CONSTANTS
    Byte,       \* values of a byte
    HDR,        \* OFP_HEADER_SIZE
    MaxRead,    \* bound: bytes recv() returns
    MaxBytes    \* bound: bytes the switch sends

ASSUME FramingAssumption ==
    /\ Byte \subseteq Nat
    /\ HDR \in Nat /\ HDR >= 2
    /\ MaxRead \in Nat /\ MaxBytes \in Nat

\* What base.msg does with a whole message.
Unknown == 0        \* raises OFPUnknownVersion
Undecodable == 1    \* returns None; any other byte is a message
None == <<>>

VARIABLES
    received,   \* everything recv() has returned
    taken,      \* how many bytes of it parse has taken off its buffer
    q,          \* StreamParser._q
    msgs,       \* the local list of parse
    dispatched, \* the messages handed to _dispatch
    pc          \* "recv", "parse", "dispatch", "raised"

vars == <<received, taken, q, msgs, dispatched, pc>>

Bytes == Seq(Byte)

\* The types; what is dispatched is a message, never the None that parse
\* returns for what it could not build.
TypeOK ==
    /\ received \in Bytes /\ taken \in Nat /\ q \in Bytes
    /\ msgs \in Seq(Bytes) /\ dispatched \in Seq(Bytes \ {None})
    /\ pc \in {"recv", "parse", "dispatch", "raised"}

Init ==
    /\ received = <<>> /\ taken = 0 /\ q = <<>>
    /\ msgs = <<>> /\ dispatched = <<>> /\ pc = "recv"

\* The first n elements, and the others.
First(s, n) == SubSeq(s, 1, n)
Behind(s, n) == SubSeq(s, n + 1, Len(s))

\* What the header of a buffer says.
Header(s) == Len(s) >= HDR
Length(s) == s[2]
Whole(s) == Header(s) /\ Length(s) >= HDR /\ Length(s) <= Len(s)

-----------------------------------------------------------------------------
\* recv() returns data; parse is called and extends its buffer.
Receive(data) ==
    /\ pc = "recv" /\ pc' = "parse"
    /\ received' = received \o data
    /\ q' = q \o data
    /\ UNCHANGED <<taken, msgs, dispatched>>

\* try_parse takes n bytes off the buffer and returns m.
Take(m, n) ==
    /\ msgs' = Append(msgs, m)
    /\ q' = Behind(q, n) /\ taken' = taken + n
    /\ UNCHANGED <<received, dispatched, pc>>

\* Slip: the bad header stays where it is.
ResyncStuck ==
    /\ pc = "parse" /\ Header(q) /\ Length(q) < HDR
    /\ UNCHANGED vars

\* A length shorter than the header: step over the header.
Resync ==
    /\ pc = "parse" /\ Header(q) /\ Length(q) < HDR
    /\ Take(None, HDR)

\* A whole message of the version spoken.
Frame ==
    /\ pc = "parse" /\ Whole(q) /\ q[1] # Unknown
    /\ Take(IF q[1] = Undecodable THEN None ELSE First(q, Length(q)), Length(q))

\* Slip: a partial message is thrown away.
TooSmallDrops ==
    /\ pc = "parse" /\ ~Whole(q) /\ ~(Header(q) /\ Length(q) < HDR)
    /\ q' = <<>> /\ pc' = "dispatch"
    /\ UNCHANGED <<received, taken, msgs, dispatched>>

\* TooSmallException: parse returns.
TooSmall ==
    /\ pc = "parse" /\ ~Whole(q) /\ ~(Header(q) /\ Length(q) < HDR)
    /\ pc' = "dispatch"
    /\ UNCHANGED <<received, taken, q, msgs, dispatched>>

\* Slip: the None of a message not built is dispatched too.
DispatchNone ==
    /\ pc = "dispatch" /\ msgs # <<>>
    /\ msgs' = Tail(msgs) /\ dispatched' = Append(dispatched, Head(msgs))
    /\ UNCHANGED <<received, taken, q, pc>>

\* The loop over what parse returned.
Dispatch ==
    /\ pc = "dispatch" /\ msgs # <<>>
    /\ msgs' = Tail(msgs)
    /\ dispatched' = IF Head(msgs) = None THEN dispatched
                                          ELSE Append(dispatched, Head(msgs))
    /\ UNCHANGED <<received, taken, q, pc>>

\* All are dispatched: the next recv().
ReadOn ==
    /\ pc = "dispatch" /\ msgs = <<>> /\ pc' = "recv"
    /\ UNCHANGED <<received, taken, q, msgs, dispatched>>

\* OFPUnknownVersion leaves parse and ends the receive loop.
Raises ==
    /\ pc = "parse" /\ Whole(q) /\ q[1] = Unknown
    /\ pc' = "raised"
    /\ UNCHANGED <<received, taken, q, msgs, dispatched>>

Parse == Resync \/ Frame \/ TooSmall \/ Raises

Next ==
    \/ Parse \/ Dispatch \/ ReadOn
    \/ \E n \in 1 .. MaxRead : \E data \in [1 .. n -> Byte] :
         Len(received) + n <= MaxBytes /\ Receive(data)

\* The receive thread runs.
Spec == Init /\ [][Next]_vars /\ WF_vars(Parse)

-----------------------------------------------------------------------------
(* Properties *)

\* The messages of a whole stream from an offset on, given those from the later
\* ones; nothing from a partial message or one of an unknown version on.
Onward(s, i, From) ==
    LET rest == Behind(s, i) IN
    CASE Header(rest) /\ Length(rest) < HDR -> From[i + HDR]
      [] Whole(rest) /\ rest[1] = Undecodable -> From[i + Length(rest)]
      [] Whole(rest) /\ rest[1] > Undecodable ->
           <<First(rest, Length(rest))>> \o From[i + Length(rest)]
      [] OTHER -> <<>>

\* The messages of a whole stream, the reference for what parse does with it
\* read by read.
MessagesFrom(s) == LET From[i \in 0 .. Len(s)] == Onward(s, i, From) IN From
MessagesOf(s) == MessagesFrom(s)[0]

\* What is dispatched depends on the bytes, not on how recv() cut them up; and
\* when an unknown version ends the connection, the messages dispatched before
\* are those the stream begins with: none is skipped, none is behind it.
SameMessages ==
    /\ pc = "recv" => dispatched = MessagesOf(received)
    /\ IsPrefix(dispatched, MessagesOf(received))

\* The buffer is what was received and not taken: no byte is lost, repeated or
\* moved, also where a message ends inside what a read returned.
BufferIsRest ==
    taken <= Len(received) /\ q = Behind(received, taken)

\* parse returns: each turn of its loop takes bytes off the buffer.
ParseReturns == pc = "parse" ~> pc # "parse"

=============================================================================
