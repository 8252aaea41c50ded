-------------------------------- MODULE Bytes --------------------------------
(***************************************************************************)
(* What the codecs of c65of use of struct and of slices. A byte is a       *)
(* number below 256, a buffer a sequence of bytes, an offset counts from 0 *)
(* as in the code.                                                         *)
(***************************************************************************)
EXTENDS Naturals, Sequences, SequencesExt, TLC

Byte == 0 .. 255

U16(n) == <<n \div 256, n % 256>>
Word(buf, at) == 256 * buf[at + 1] + buf[at + 2]

\* buf[from:to]; an end behind the buffer is the end of the buffer.
Slice(buf, from, to) ==
    SubSeq(buf, from + 1, IF to < Len(buf) THEN to ELSE Len(buf))

\* n bytes from an offset, or those that are there.
At(buf, at, n) == Slice(buf, at, at + n)

Zeros(n) == [i \in 1 .. n |-> 0]

\* struct.pack_into("!H") and ("!B") into bytes that are there.
Put16(buf, at, n) == [buf EXCEPT ![at + 1] = n \div 256, ![at + 2] = n % 256]
Put8(buf, at, n) == [buf EXCEPT ![at + 1] = n]

\* Smallest multiple of align that is at least length.
round_up(length, align) == ((length + align - 1) \div align) * align

\* Tables that name different things, as one.
Tables(f, g) ==
    [x \in DOMAIN f \cup DOMAIN g |-> IF x \in DOMAIN f THEN f[x] ELSE g[x]]

=============================================================================
