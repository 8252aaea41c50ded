------------------------------- MODULE Checksum -------------------------------
(***************************************************************************)
(* The internet checksum of c65of/packet/packet_utils.py. No operator here *)
(* is RECURSIVE, so that WireProofs can use the module.                    *)
(***************************************************************************)
EXTENDS Integers, Sequences

\* total & 0xFFFF and total >> 16
Low(total) == total % 65536
High(total) == total \div 65536

\* Ones-complement addition of two 16 bit values.
carry_around_add(a, b) == Low(a + b) + High(a + b)

\* An octet of the data, which checksum() pads to whole words.
Octet(data, i) == IF i <= Len(data) THEN data[i] ELSE 0

WordAt(data, n) == 256 * Octet(data, 2 * n - 1) + Octet(data, 2 * n)
Words(data) == (Len(data) + 1) \div 2

\* sum(struct.unpack_from("!%dH"))
WordSum(data) ==
    LET sum[n \in 0 .. Words(data)] ==
            IF n = 0 THEN 0 ELSE sum[n - 1] + WordAt(data, n)
    IN  sum[Words(data)]

\* Both folds of checksum(): the carries, and the carry of adding the carries.
Fold(total) ==
    LET once == Low(total) + High(total)
    IN  Low(once + High(once))

checksum(data) == 65535 - Fold(WordSum(data))

\* A sum with its checksum in it, as a receiver takes it.
Verifies(bytes) == WordSum(bytes) > 0 /\ WordSum(bytes) % 65535 = 0

=============================================================================
