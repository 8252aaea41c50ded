---------------------------- MODULE FramingProofs ----------------------------
(***************************************************************************)
(* Theorems about module StreamFraming, for every stream, header size and  *)
(* bound: type correctness, that framing loses nothing of the stream, and  *)
(* that the messages it returns depend on the bytes alone.                 *)
(***************************************************************************)
EXTENDS StreamFraming, SequenceTheorems, WellFoundedInduction, TLAPS

(***************************************************************************)
(* Lemmas about slices.                                                    *)
(***************************************************************************)

\* The first n elements of a sequence, for any n it has.
LEMMA FirstType ==
  ASSUME NEW S, NEW s \in Seq(S), NEW n \in 0 .. Len(s)
  PROVE  First(s, n) \in Seq(S) /\ Len(First(s, n)) = n
  BY SubSeqProperties DEF First

\* What is behind the first n elements.
LEMMA BehindType ==
  ASSUME NEW S, NEW s \in Seq(S), NEW n \in 0 .. Len(s)
  PROVE  /\ Behind(s, n) \in Seq(S)
         /\ Len(Behind(s, n)) = Len(s) - n
         /\ \A i \in 1 .. Len(s) - n : Behind(s, n)[i] = s[n + i]
<1>1. \A i \in n + 1 .. Len(s) : s[i] \in S
  OBVIOUS
<1>2. /\ SubSeq(s, n + 1, Len(s)) \in Seq(S)
      /\ Len(SubSeq(s, n + 1, Len(s))) = IF n + 1 <= Len(s) THEN Len(s) - n ELSE 0
      /\ \A i \in 1 .. Len(s) - (n + 1) + 1 :
            SubSeq(s, n + 1, Len(s))[i] = s[n + 1 + i - 1]
  BY <1>1, SubSeqProperties
<1> QED
  BY <1>2 DEF Behind

\* Taking n elements, then m more, is taking n + m.
LEMMA BehindBehind ==
  ASSUME NEW S, NEW s \in Seq(S), NEW n \in 0 .. Len(s), NEW m \in 0 .. Len(s) - n
  PROVE  Behind(Behind(s, n), m) = Behind(s, n + m)
<1> DEFINE u == Behind(s, n)
<1>1. /\ u \in Seq(S) /\ Len(u) = Len(s) - n
      /\ \A i \in 1 .. Len(s) - n : u[i] = s[n + i]
  BY BehindType
<1>2. n + m \in 0 .. Len(s)
  OBVIOUS
<1> HIDE DEF u
<1>3. /\ Behind(u, m) \in Seq(S) /\ Len(Behind(u, m)) = Len(u) - m
      /\ \A i \in 1 .. Len(u) - m : Behind(u, m)[i] = u[m + i]
  <2>1. m \in 0 .. Len(u)
    BY <1>1
  <2>2. u \in Seq(S)
    BY <1>1
  <2> QED
    BY ONLY <2>1, <2>2, BehindType, Zenon
<1>4. /\ Behind(s, n + m) \in Seq(S) /\ Len(Behind(s, n + m)) = Len(s) - (n + m)
      /\ \A i \in 1 .. Len(s) - (n + m) : Behind(s, n + m)[i] = s[n + m + i]
  BY <1>2, BehindType
<1>5. ASSUME NEW i \in 1 .. Len(s) - (n + m)
      PROVE  Behind(u, m)[i] = Behind(s, n + m)[i]
  <2>1. m + i \in 1 .. Len(s) - n
    OBVIOUS
  <2>2. u[m + i] = s[n + (m + i)]
    BY <1>1, <2>1
  <2>3. i \in 1 .. Len(u) - m
    BY <1>1
  <2> QED
    BY <1>3, <1>4, <2>2, <2>3
<1>6. Len(Behind(u, m)) = Len(Behind(s, n + m))
  BY <1>1, <1>3, <1>4
<1>7. Behind(u, m) = Behind(s, n + m)
  BY <1>3, <1>4, <1>5, <1>6, SeqEqual
<1> QED
  BY <1>7 DEF u

\* More may arrive before or after the first n elements are taken.
LEMMA BehindConcat ==
  ASSUME NEW S, NEW s \in Seq(S), NEW t \in Seq(S), NEW n \in 0 .. Len(s)
  PROVE  Behind(s \o t, n) = Behind(s, n) \o t
<1> DEFINE u == s \o t
           v == Behind(s, n)
<1>1. /\ u \in Seq(S) /\ Len(u) = Len(s) + Len(t)
      /\ \A i \in 1 .. Len(s) + Len(t) :
            u[i] = IF i <= Len(s) THEN s[i] ELSE t[i - Len(s)]
  BY ConcatProperties
<1>2. /\ v \in Seq(S) /\ Len(v) = Len(s) - n
      /\ \A i \in 1 .. Len(s) - n : v[i] = s[n + i]
  BY BehindType
<1> HIDE DEF u, v
<1>3. n \in 0 .. Len(u)
  BY <1>1
<1>4. /\ Behind(u, n) \in Seq(S) /\ Len(Behind(u, n)) = Len(u) - n
      /\ \A i \in 1 .. Len(u) - n : Behind(u, n)[i] = u[n + i]
  <2>1. u \in Seq(S)
    BY <1>1
  <2> QED
    BY ONLY <1>3, <2>1, BehindType, Zenon
<1>5. /\ v \o t \in Seq(S) /\ Len(v \o t) = Len(v) + Len(t)
      /\ \A i \in 1 .. Len(v) + Len(t) :
            (v \o t)[i] = IF i <= Len(v) THEN v[i] ELSE t[i - Len(v)]
  BY <1>2, ConcatProperties
<1>6. Len(Behind(u, n)) = Len(v \o t)
  BY <1>1, <1>2, <1>4, <1>5
<1>7. ASSUME NEW i \in 1 .. Len(Behind(u, n))
      PROVE  Behind(u, n)[i] = (v \o t)[i]
  <2>1. Len(Behind(u, n)) = Len(s) + Len(t) - n
    BY <1>1, <1>4
  <2>2. n + i \in 1 .. Len(s) + Len(t)
    BY <2>1
  <2>3. Behind(u, n)[i] = IF n + i <= Len(s) THEN s[n + i] ELSE t[n + i - Len(s)]
    BY <1>1, <1>4, <2>2
  <2>4. i \in 1 .. Len(v) + Len(t)
    BY <1>2, <2>1
  <2>5. (v \o t)[i] = IF i <= Len(v) THEN v[i] ELSE t[i - Len(v)]
    BY <1>5, <2>4
  <2>6. i - Len(v) = n + i - Len(s) /\ (i <= Len(v) <=> n + i <= Len(s))
    BY <1>2
  <2>7. i <= Len(v) => v[i] = s[n + i]
    BY <1>2
  <2> QED
    BY <2>3, <2>5, <2>6, <2>7
<1>8. Behind(u, n) = v \o t
  BY <1>4, <1>5, <1>6, <1>7, SeqEqual
<1> QED
  BY <1>8 DEF u, v

(***************************************************************************)
(* Types.                                                                  *)
(***************************************************************************)

\* What recv() returns is a sequence of bytes.
LEMMA DataType ==
  ASSUME NEW n \in Nat, NEW data \in [1 .. n -> Byte]
  PROVE  data \in Bytes
  BY DEF Bytes

\* Every turn of parse takes at least a header, and no more than there is.
LEMMA Turn ==
  ASSUME TypeOK, Header(q)
  PROVE  /\ HDR \in 0 .. Len(q)
         /\ Length(q) \in Nat
         /\ Whole(q) => Length(q) \in 0 .. Len(q)
<1>1. Len(q) \in Nat /\ Len(q) >= HDR /\ HDR \in Nat /\ HDR >= 2
  BY FramingAssumption DEF TypeOK, Bytes, Header
<1>2. q[2] \in Byte
  BY <1>1 DEF TypeOK, Bytes
<1>3. Length(q) \in Nat
  BY <1>2, FramingAssumption DEF Length
<1> QED
  BY <1>1, <1>3 DEF Whole

\* The empty sequence is one of bytes.
LEMMA NoneType == None \in Bytes
  BY DEF None, Bytes

\* Taking n of the bytes there are off the buffer keeps the types.
LEMMA TakeTypes ==
  ASSUME TypeOK, NEW m \in Bytes, NEW n \in 0 .. Len(q), Take(m, n)
  PROVE  TypeOK'
<1>1. Behind(q, n) \in Bytes
  BY BehindType DEF TypeOK, Bytes
<1>2. msgs' \in Seq(Bytes)
  <2>1. msgs \in Seq(Bytes) /\ msgs' = Append(msgs, m)
    BY DEF TypeOK, Take
  <2> QED
    BY <2>1, AppendProperties
<1>3. taken' \in Nat
  BY DEF TypeOK, Take, Bytes
<1> QED
  BY <1>1, <1>2, <1>3 DEF TypeOK, Take

\* Each step keeps the types.
LEMMA TypeStep == TypeOK /\ [Next]_vars => TypeOK'
<1> SUFFICES ASSUME TypeOK, [Next]_vars PROVE TypeOK'
  OBVIOUS
<1>1. CASE Resync
  <2>1. HDR \in 0 .. Len(q) /\ Take(None, HDR)
    BY <1>1, Turn DEF Resync
  <2> QED
    BY <2>1, NoneType, TakeTypes
<1>2. CASE Frame
  <2> DEFINE m == IF q[1] = Undecodable THEN None ELSE First(q, Length(q))
  <2>1. Length(q) \in 0 .. Len(q) /\ Take(m, Length(q))
    BY <1>2, Turn DEF Frame, Whole
  <2>2. m \in Bytes
    BY <2>1, NoneType, FirstType DEF TypeOK, Bytes
  <2> HIDE DEF m
  <2> QED
    BY <2>1, <2>2, TakeTypes
<1>3. CASE TooSmall
  BY <1>3 DEF TypeOK, TooSmall
<1>4. CASE Raises
  BY <1>4 DEF TypeOK, Raises
<1>5. CASE Dispatch
  <2>1. Head(msgs) \in Bytes /\ Tail(msgs) \in Seq(Bytes)
    BY <1>5, HeadTailProperties DEF TypeOK, Dispatch
  <2>2. dispatched' \in Seq(Bytes \ {None})
    <3>1. CASE Head(msgs) = None
      BY <1>5, <3>1 DEF TypeOK, Dispatch
    <3>2. CASE Head(msgs) # None
      <4>1. Head(msgs) \in Bytes \ {None} /\ dispatched \in Seq(Bytes \ {None})
        BY <2>1, <3>2 DEF TypeOK
      <4>2. dispatched' = Append(dispatched, Head(msgs))
        BY <1>5, <3>2 DEF Dispatch
      <4> QED
        BY <4>1, <4>2, AppendProperties
    <3> QED
      BY <3>1, <3>2
  <2> QED
    BY <1>5, <2>1, <2>2 DEF TypeOK, Dispatch
<1>6. CASE ReadOn
  BY <1>6 DEF TypeOK, ReadOn
<1>7. ASSUME NEW n \in 1 .. MaxRead, NEW data \in [1 .. n -> Byte], Receive(data)
      PROVE  TypeOK'
  <2>1. data \in Bytes
    BY DataType
  <2>2. received \o data \in Bytes /\ q \o data \in Bytes
    BY <2>1, ConcatProperties DEF TypeOK, Bytes
  <2> QED
    BY <1>7, <2>2 DEF TypeOK, Receive
<1>8. CASE UNCHANGED vars
  BY <1>8 DEF TypeOK, vars
<1> QED
  BY <1>1, <1>2, <1>3, <1>4, <1>5, <1>6, <1>7, <1>8 DEF Next, Parse

\* The empty buffers of the start have their types.
LEMMA TypeInit == Init => TypeOK
  BY DEF Init, TypeOK, Bytes

\* Framing keeps its types, and never dispatches the None of a message that
\* could not be built: _recv_loop and StreamParser.parse.
THEOREM TypeCorrect == Spec => []TypeOK
<1> QED
  BY TypeInit, TypeStep, PTL DEF Spec

(***************************************************************************)
(* The buffer is what was received and not yet taken.                      *)
(***************************************************************************)

\* A turn of parse that takes n bytes moves the border by n.
LEMMA TakeKeeps ==
  ASSUME TypeOK, BufferIsRest, NEW m, NEW n \in 0 .. Len(q), Take(m, n)
  PROVE  BufferIsRest'
<1>1. /\ taken \in 0 .. Len(received) /\ q = Behind(received, taken)
      /\ received \in Bytes
  BY DEF TypeOK, BufferIsRest, Bytes
<1>2. Len(q) = Len(received) - taken
  BY <1>1, BehindType DEF Bytes
<1>3. n \in 0 .. Len(received) - taken
  BY <1>2
<1>4. Behind(q, n) = Behind(received, taken + n)
  BY <1>1, <1>3, BehindBehind DEF Bytes
<1>5. taken + n <= Len(received)
  BY <1>1, <1>3 DEF Bytes
<1> QED
  BY <1>4, <1>5 DEF Take, BufferIsRest

\* Each step keeps the buffer the rest of what was received.
LEMMA RestStep == TypeOK /\ BufferIsRest /\ [Next]_vars => BufferIsRest'
<1> SUFFICES ASSUME TypeOK, BufferIsRest, [Next]_vars PROVE BufferIsRest'
  OBVIOUS
<1>1. CASE Resync
  <2>1. HDR \in 0 .. Len(q) /\ Take(None, HDR)
    BY <1>1, Turn DEF Resync
  <2> QED
    BY <2>1, TakeKeeps
<1>2. CASE Frame
  <2> DEFINE m == IF q[1] = Undecodable THEN None ELSE First(q, Length(q))
  <2>1. Length(q) \in 0 .. Len(q) /\ Take(m, Length(q))
    BY <1>2, Turn DEF Frame, Whole
  <2> HIDE DEF m
  <2> QED
    BY <2>1, TakeKeeps
<1>3. CASE TooSmall \/ Raises \/ Dispatch \/ ReadOn \/ UNCHANGED vars
  <2>1. UNCHANGED <<received, taken, q>>
    BY <1>3 DEF TooSmall, Raises, Dispatch, ReadOn, vars
  <2> QED
    BY <2>1 DEF BufferIsRest
<1>4. ASSUME NEW n \in 1 .. MaxRead, NEW data \in [1 .. n -> Byte], Receive(data)
      PROVE  BufferIsRest'
  <2>1. data \in Bytes
    BY DataType
  <2>2. received \in Bytes /\ taken \in 0 .. Len(received)
    BY DEF TypeOK, BufferIsRest, Bytes
  <2>3. Behind(received \o data, taken) = Behind(received, taken) \o data
    BY <2>1, <2>2, BehindConcat DEF Bytes
  <2>4. Len(received \o data) = Len(received) + Len(data) /\ Len(data) \in Nat
    BY <2>1, <2>2, ConcatProperties DEF Bytes
  <2>5. taken <= Len(received \o data)
    BY <2>2, <2>4 DEF Bytes
  <2> QED
    BY <1>4, <2>3, <2>5 DEF Receive, BufferIsRest
<1> QED
  BY <1>1, <1>2, <1>3, <1>4 DEF Next, Parse

\* Nothing is received and taken at the start.
LEMMA RestInit == Init => BufferIsRest
<1> SUFFICES ASSUME Init PROVE BufferIsRest
  OBVIOUS
<1>1. SubSeq(<<>>, 1, 0) = <<>>
  BY SubSeqEmpty
<1> QED
  BY <1>1 DEF Init, BufferIsRest, Behind

\* For every stream and every way recv() cuts it, the buffer of StreamParser is
\* what was received and not yet taken off: no byte is lost, repeated or moved.
THEOREM NothingLost == Spec => []BufferIsRest
<1>1. TypeOK /\ BufferIsRest /\ [Next]_vars => (TypeOK /\ BufferIsRest)'
  BY TypeStep, RestStep
<1> QED
  BY <1>1, TypeInit, RestInit, PTL DEF Spec

(***************************************************************************)
(* The messages of a stream.                                               *)
(***************************************************************************)

\* What holds of an offset if it holds of all later ones holds of all.
LEMMA Backwards ==
  ASSUME NEW L \in Nat, NEW S,
         \A n \in 0 .. L : (\A m \in n + 1 .. L : m \in S) => n \in S
  PROVE  0 .. L \subseteq S
<1> SUFFICES ASSUME ~(0 .. L \subseteq S) PROVE FALSE
  OBVIOUS
<1> DEFINE Bad == { k \in 0 .. L : L - k \notin S }
<1>1. Bad \in SUBSET Nat /\ Bad # {}
  <2>1. PICK n \in 0 .. L : n \notin S
    OBVIOUS
  <2>2. L - n \in 0 .. L /\ L - (L - n) = n
    OBVIOUS
  <2> QED
    BY <2>1, <2>2
<1>2. \E k \in Bad : \A j \in Bad : ~(j < k)
  <2> HIDE DEF Bad
  <2>1. \E x \in Bad : \A y \in Bad : ~(<<y, x>> \in OpToRel(<, Nat))
    BY <1>1, NatLessThanWellFounded, WFMin, Zenon
  <2>2. \A x, y \in Nat : <<y, x>> \in OpToRel(<, Nat) <=> y < x
    BY DEF OpToRel
  <2> QED
    BY <1>1, <2>1, <2>2, Zenon
<1>3. PICK k \in Bad : \A j \in Bad : ~(j < k)
  BY <1>2
<1>4. k \in 0 .. L /\ L - k \notin S /\ L - k \in 0 .. L
  BY <1>3
<1>5. ASSUME NEW m \in (L - k) + 1 .. L PROVE m \in S
  <2>1. L - m \in 0 .. L /\ L - m < k /\ L - (L - m) = m
    BY <1>4
  <2> QED
    BY <1>3, <2>1
<1> QED
  BY <1>4, <1>5

\* What is left of a stream at an offset: a partial message, one that declares
\* less than a header, or a whole one, which ends in the stream.
LEMMA Rest ==
  ASSUME NEW s \in Bytes, NEW i \in 0 .. Len(s)
  PROVE  /\ Behind(s, i) \in Bytes /\ Len(Behind(s, i)) = Len(s) - i
         /\ Header(Behind(s, i)) => i + HDR \in i + 1 .. Len(s)
         /\ Whole(Behind(s, i)) =>
              /\ Length(Behind(s, i)) \in 1 .. Len(Behind(s, i))
              /\ i + Length(Behind(s, i)) \in i + 1 .. Len(s)
              /\ First(Behind(s, i), Length(Behind(s, i))) \in Bytes \ {None}
<1> DEFINE u == Behind(s, i)
<1>1. u \in Bytes /\ Len(u) = Len(s) - i /\ Len(s) \in Nat
  BY BehindType DEF Bytes
<1> HIDE DEF u
<1>2. Header(u) => i + HDR \in i + 1 .. Len(s)
  BY <1>1, FramingAssumption DEF Header
<1>3. ASSUME Whole(u)
      PROVE  /\ Length(u) \in 1 .. Len(u) /\ i + Length(u) \in i + 1 .. Len(s)
             /\ First(u, Length(u)) \in Bytes \ {None}
  <2>1. Len(u) >= 2 /\ Length(u) >= 2 /\ Length(u) <= Len(u)
    <3>1. Len(u) >= 2 /\ Length(u) >= HDR /\ Length(u) <= Len(u)
      BY <1>1, <1>3, FramingAssumption DEF Whole, Header
    <3>2. Length(u) \in Nat
      <4>1. u[2] \in Byte
        BY <1>1, <3>1 DEF Bytes
      <4> QED
        BY <4>1, FramingAssumption DEF Length
    <3> QED
      BY <3>1, <3>2, FramingAssumption
  <2>2. Length(u) \in Nat
    <3>1. u[2] \in Byte
      BY <1>1, <2>1 DEF Bytes
    <3> QED
      BY <3>1, FramingAssumption DEF Length
  <2>3. Length(u) \in 1 .. Len(u) /\ i + Length(u) \in i + 1 .. Len(s)
    BY <1>1, <2>1, <2>2
  <2>4. First(u, Length(u)) \in Seq(Byte) /\ Len(First(u, Length(u))) = Length(u)
    BY <1>1, <2>3, FirstType DEF Bytes
  <2>5. First(u, Length(u)) # None
    BY <2>3, <2>4 DEF None
  <2> QED
    BY <2>3, <2>4, <2>5 DEF Bytes
<1> QED
  BY <1>1, <1>2, <1>3 DEF u

\* The messages from an offset on depend on those from the later ones.
LEMMA OnwardLater ==
  ASSUME NEW s \in Bytes, NEW i \in 0 .. Len(s), NEW f, NEW g,
         \A j \in i + 1 .. Len(s) : f[j] = g[j]
  PROVE  Onward(s, i, f) = Onward(s, i, g)
<1> DEFINE u == Behind(s, i)
<1>1. Header(u) => f[i + HDR] = g[i + HDR]
  BY Rest
<1>2. Whole(u) => f[i + Length(u)] = g[i + Length(u)]
  BY Rest
<1>3. Onward(s, i, f) = CASE Header(u) /\ Length(u) < HDR -> f[i + HDR]
      [] Whole(u) /\ u[1] = Undecodable -> f[i + Length(u)]
      [] Whole(u) /\ u[1] > Undecodable -> <<First(u, Length(u))>> \o f[i + Length(u)]
      [] OTHER -> <<>>
  BY DEF Onward
<1>4. Onward(s, i, g) = CASE Header(u) /\ Length(u) < HDR -> g[i + HDR]
      [] Whole(u) /\ u[1] = Undecodable -> g[i + Length(u)]
      [] Whole(u) /\ u[1] > Undecodable -> <<First(u, Length(u))>> \o g[i + Length(u)]
      [] OTHER -> <<>>
  BY DEF Onward
<1> HIDE DEF u
<1> QED
  BY <1>1, <1>2, <1>3, <1>4

\* What the messages from an offset on are, by what is there.
LEMMA OnwardForms ==
  ASSUME NEW s \in Bytes, NEW i \in 0 .. Len(s), NEW f, NEW u, u = Behind(s, i)
  PROVE  /\ Header(u) /\ Length(u) < HDR => Onward(s, i, f) = f[i + HDR]
         /\ Whole(u) /\ u[1] = Undecodable => Onward(s, i, f) = f[i + Length(u)]
         /\ Whole(u) /\ u[1] # Unknown /\ u[1] # Undecodable =>
              Onward(s, i, f) = <<First(u, Length(u))>> \o f[i + Length(u)]
         /\ ~(Header(u) /\ Length(u) < HDR) /\ ~(Whole(u) /\ u[1] # Unknown) =>
              Onward(s, i, f) = <<>>
<1>1. Onward(s, i, f) = CASE Header(u) /\ Length(u) < HDR -> f[i + HDR]
      [] Whole(u) /\ u[1] = Undecodable -> f[i + Length(u)]
      [] Whole(u) /\ u[1] > Undecodable -> <<First(u, Length(u))>> \o f[i + Length(u)]
      [] OTHER -> <<>>
  BY DEF Onward
<1>2. ASSUME Header(u)
      PROVE  u[1] \in Nat /\ u[2] \in Nat
  <2>1. u \in Seq(Byte) /\ Len(u) \in Nat
    BY Rest DEF Bytes
  <2>2. 1 \in 1 .. Len(u) /\ 2 \in 1 .. Len(u)
    BY <1>2, <2>1, FramingAssumption DEF Header
  <2>3. u[1] \in Byte /\ u[2] \in Byte
    BY <2>1, <2>2
  <2> QED
    BY <2>3, FramingAssumption
<1>3. Whole(u) => /\ Header(u) /\ ~(Length(u) < HDR) /\ u[1] \in Nat
  BY <1>2, FramingAssumption DEF Whole, Length
<1>4. \A n \in Nat : n > Undecodable <=> n # Unknown /\ n # Undecodable
  BY DEF Undecodable, Unknown
<1>5. Undecodable # Unknown
  BY DEF Undecodable, Unknown
<1>6. Whole(u) => (u[1] > Undecodable <=> u[1] # Unknown /\ u[1] # Undecodable)
  BY <1>3, <1>4
<1> QED
  BY <1>1, <1>3, <1>5, <1>6

\* The messages from every offset of a stream on, up to its end.
Reads(s, n, g) == g = [i \in n .. Len(s) |-> Onward(s, i, g)]

\* There is one who reads them.
LEMMA Readable ==
  ASSUME NEW s \in Bytes
  PROVE  \E g : Reads(s, 0, g)
<1> DEFINE S == { n \in 0 .. Len(s) : \E g : Reads(s, n, g) }
<1>1. Len(s) \in Nat
  BY DEF Bytes
<1>2. ASSUME NEW n \in 0 .. Len(s), \A m \in n + 1 .. Len(s) : m \in S
      PROVE  n \in S
  <2>1. \E g : \A i \in n + 1 .. Len(s) : g[i] = Onward(s, i, g)
    <3>1. CASE n = Len(s)
      BY <1>1, <3>1
    <3>2. CASE n # Len(s)
      <4>1. n + 1 \in n + 1 .. Len(s)
        BY <1>1, <3>2
      <4>2. PICK g : Reads(s, n + 1, g)
        BY <1>2, <4>1
      <4> QED
        BY <4>2 DEF Reads
    <3> QED
      BY <3>1, <3>2
  <2>2. PICK g : \A i \in n + 1 .. Len(s) : g[i] = Onward(s, i, g)
    BY <2>1
  <2> DEFINE h == [i \in n .. Len(s) |-> IF i = n THEN Onward(s, n, g) ELSE g[i]]
  <2>3. \A j \in n + 1 .. Len(s) : h[j] = g[j]
    BY <1>1
  <2>4. h[n] = Onward(s, n, g)
    BY <1>1
  <2>5. h = [i \in n .. Len(s) |-> h[i]]
    OBVIOUS
  <2> HIDE DEF h
  <2>6. ASSUME NEW i \in n .. Len(s) PROVE h[i] = Onward(s, i, h)
    <3>1. i \in 0 .. Len(s) /\ \A j \in i + 1 .. Len(s) : h[j] = g[j]
      BY <1>1, <2>3
    <3>2. Onward(s, i, h) = Onward(s, i, g)
      BY <3>1, OnwardLater
    <3>3. CASE i = n
      BY <2>4, <3>2, <3>3
    <3>4. CASE i # n
      <4>1. i \in n + 1 .. Len(s)
        BY <1>1, <3>4
      <4> QED
        BY <2>2, <2>3, <3>2, <4>1
    <3> QED
      BY <3>3, <3>4
  <2>7. Reads(s, n, h)
    BY <2>5, <2>6 DEF Reads
  <2> QED
    BY <2>7
<1> HIDE DEF S
<1>3. 0 .. Len(s) \subseteq S
  BY <1>1, <1>2, Backwards
<1>4. 0 \in S
  BY <1>1, <1>3
<1> QED
  BY <1>4 DEF S

\* The reference follows its rule.
LEMMA MessagesRule ==
  ASSUME NEW s \in Bytes
  PROVE  \A i \in 0 .. Len(s) : MessagesFrom(s)[i] = Onward(s, i, MessagesFrom(s))
<1>1. MessagesFrom(s) = CHOOSE g : Reads(s, 0, g)
  BY DEF MessagesFrom, Reads
<1>2. Reads(s, 0, MessagesFrom(s))
  BY <1>1, Readable
<1> QED
  BY <1>2 DEF Reads

\* They are messages.
LEMMA MessagesType ==
  ASSUME NEW s \in Bytes
  PROVE  \A i \in 0 .. Len(s) : MessagesFrom(s)[i] \in Seq(Bytes \ {None})
<1> DEFINE f == MessagesFrom(s)
           S == { n \in 0 .. Len(s) : f[n] \in Seq(Bytes \ {None}) }
<1>1. Len(s) \in Nat
  BY DEF Bytes
<1>2. ASSUME NEW n \in 0 .. Len(s), \A m \in n + 1 .. Len(s) : m \in S
      PROVE  n \in S
  <2> DEFINE u == Behind(s, n)
  <2>1. f[n] = Onward(s, n, f)
    BY MessagesRule
  <2> HIDE DEF f
  <2>2. \A m \in n + 1 .. Len(s) : f[m] \in Seq(Bytes \ {None})
    BY <1>2
  <2>3. /\ Header(u) => n + HDR \in n + 1 .. Len(s)
        /\ Whole(u) => n + Length(u) \in n + 1 .. Len(s)
        /\ Whole(u) => First(u, Length(u)) \in Bytes \ {None}
    BY Rest
  <2>4. /\ Header(u) /\ Length(u) < HDR => Onward(s, n, f) = f[n + HDR]
        /\ Whole(u) /\ u[1] = Undecodable => Onward(s, n, f) = f[n + Length(u)]
        /\ Whole(u) /\ u[1] # Unknown /\ u[1] # Undecodable =>
             Onward(s, n, f) = <<First(u, Length(u))>> \o f[n + Length(u)]
        /\ ~(Header(u) /\ Length(u) < HDR) /\ ~(Whole(u) /\ u[1] # Unknown) =>
             Onward(s, n, f) = <<>>
    BY OnwardForms
  <2> HIDE DEF u
  <2>5. ASSUME Whole(u)
        PROVE  <<First(u, Length(u))>> \o f[n + Length(u)] \in Seq(Bytes \ {None})
    <3>1. f[n + Length(u)] \in Seq(Bytes \ {None})
      BY <2>2, <2>5, <2>3
    <3>2. <<First(u, Length(u))>> \in Seq(Bytes \ {None})
      BY <2>5, <2>3
    <3> QED
      BY <3>1, <3>2, ConcatProperties
  <2>6. f[n] \in Seq(Bytes \ {None})
    <3>1. <<>> \in Seq(Bytes \ {None})
      OBVIOUS
    <3>2. CASE Header(u) /\ Length(u) < HDR
      BY <2>1, <2>2, <2>4, <2>3, <3>2
    <3>3. CASE Whole(u) /\ u[1] # Unknown
      BY <2>1, <2>2, <2>4, <2>5, <2>3, <3>3
    <3>4. CASE ~(Header(u) /\ Length(u) < HDR) /\ ~(Whole(u) /\ u[1] # Unknown)
      BY <2>1, <2>4, <3>1, <3>4
    <3> QED
      BY <3>2, <3>3, <3>4
  <2> QED
    BY <2>6
<1>3. 0 .. Len(s) \subseteq S
  <2> HIDE DEF S
  <2> QED
    BY <1>1, <1>2, Backwards
<1> QED
  BY <1>3

(***************************************************************************)
(* What is dispatched depends on the bytes alone.                          *)
(***************************************************************************)

\* The messages d were dispatched of a stream, the list m is in hand, and parse
\* is at offset k: r is what is still to come before each entry of m.
Todo(r, d, m, s, k) ==
    /\ r \in [0 .. Len(m) -> Seq(Bytes \ {None})]
    /\ d \o r[0] = MessagesOf(s)
    /\ r[Len(m)] = MessagesFrom(s)[k]
    /\ \A j \in 1 .. Len(m) :
         r[j - 1] = IF m[j] = None THEN r[j] ELSE <<m[j]>> \o r[j]

\* Whatever arrives later, what was dispatched, what is in hand and what is to
\* come are the messages of the whole stream; parse has returned only when the
\* buffer begins with no whole message, and all is dispatched before recv().
OnTrack ==
    /\ \A t \in Bytes : \E r : Todo(r, dispatched, msgs, received \o t, taken)
    /\ pc \in {"recv", "dispatch"} =>
         ~Whole(q) /\ ~(Header(q) /\ Length(q) < HDR)
    /\ pc = "recv" => msgs = <<>>
    /\ pc = "raised" => Whole(q) /\ q[1] = Unknown

\* parse returns one more entry.
LEMMA TodoTake ==
  ASSUME NEW s \in Bytes, NEW k, NEW l \in 0 .. Len(s), NEW r, NEW d,
         NEW m \in Seq(Bytes), NEW e \in Bytes, Todo(r, d, m, s, k),
         MessagesFrom(s)[k] = IF e = None THEN MessagesFrom(s)[l]
                                          ELSE <<e>> \o MessagesFrom(s)[l]
  PROVE  \E n : Todo(n, d, Append(m, e), s, l)
<1> DEFINE L == Len(m)
           f == MessagesFrom(s)
           o == Append(m, e)
           n == [j \in 0 .. L + 1 |-> IF j = L + 1 THEN f[l] ELSE r[j]]
<1>1. /\ L \in Nat /\ Len(o) = L + 1 /\ o[L + 1] = e
      /\ \A j \in 1 .. L : o[j] = m[j]
  BY AppendProperties
<1>2. f[l] \in Seq(Bytes \ {None})
  BY MessagesType
<1>3. /\ r \in [0 .. L -> Seq(Bytes \ {None})]
      /\ d \o r[0] = MessagesOf(s) /\ r[L] = f[k]
      /\ \A j \in 1 .. L : r[j - 1] = IF m[j] = None THEN r[j] ELSE <<m[j]>> \o r[j]
  BY DEF Todo
<1>4. f[k] = IF e = None THEN f[l] ELSE <<e>> \o f[l]
  OBVIOUS
<1> HIDE DEF L, f, o
<1>5. n \in [0 .. L + 1 -> Seq(Bytes \ {None})]
  BY <1>1, <1>2, <1>3
<1>6. n[L + 1] = f[l] /\ \A j \in 0 .. L : n[j] = r[j]
  BY <1>1
<1> HIDE DEF n
<1>7. ASSUME NEW j \in 1 .. L + 1
      PROVE  n[j - 1] = IF o[j] = None THEN n[j] ELSE <<o[j]>> \o n[j]
  <2>1. CASE j = L + 1
    <3>1. n[j - 1] = f[k] /\ n[j] = f[l] /\ o[j] = e
      BY <1>1, <1>3, <1>6, <2>1
    <3> QED
      BY <1>4, <3>1
  <2>2. CASE j # L + 1
    <3>1. j \in 1 .. L /\ j \in 0 .. L /\ j - 1 \in 0 .. L
      BY <1>1, <2>2
    <3>2. n[j - 1] = r[j - 1] /\ n[j] = r[j] /\ o[j] = m[j]
      BY <1>1, <1>6, <3>1
    <3> QED
      BY <1>3, <3>1, <3>2
  <2> QED
    BY <2>1, <2>2
<1>8. n[0] = r[0]
  BY <1>1, <1>6
<1>9. Todo(n, d, o, s, l)
  BY <1>1, <1>3, <1>5, <1>6, <1>7, <1>8 DEF Todo, f
<1> QED
  BY <1>9 DEF o

\* Putting e behind d, with t to come, or keeping it before t.
LEMMA Regroup ==
  ASSUME NEW S, NEW d \in Seq(S), NEW e \in S, NEW t \in Seq(S)
  PROVE  Append(d, e) \o t = d \o (<<e>> \o t)
<1>1. Append(d, e) = d \o <<e>>
  BY AppendIsConcat
<1>2. <<e>> \in Seq(S)
  OBVIOUS
<1> DEFINE x == <<e>>
<1> HIDE DEF x
<1>3. (d \o x) \o t = d \o (x \o t)
  <2>1. x \in Seq(S)
    BY <1>2 DEF x
  <2> QED
    BY <2>1, ConcatAssociative
<1> QED
  BY <1>1, <1>3 DEF x

\* The first entry in hand is dispatched, or skipped.
LEMMA TodoDispatch ==
  ASSUME NEW s, NEW k, NEW r, NEW d \in Seq(Bytes \ {None}), NEW m \in Seq(Bytes),
         m # <<>>, Todo(r, d, m, s, k)
  PROVE  \E n : Todo(n, IF Head(m) = None THEN d ELSE Append(d, Head(m)),
                     Tail(m), s, k)
<1> DEFINE L == Len(m)
           o == Tail(m)
           n == [j \in 0 .. L - 1 |-> r[j + 1]]
           c == IF Head(m) = None THEN d ELSE Append(d, Head(m))
<1>1. /\ L \in Nat \ {0} /\ Len(o) = L - 1 /\ Head(m) = m[1] /\ m[1] \in Bytes
      /\ \A j \in 1 .. L - 1 : o[j] = m[j + 1]
  BY HeadTailProperties
<1>2. /\ r \in [0 .. L -> Seq(Bytes \ {None})]
      /\ d \o r[0] = MessagesOf(s) /\ r[L] = MessagesFrom(s)[k]
      /\ \A j \in 1 .. L : r[j - 1] = IF m[j] = None THEN r[j] ELSE <<m[j]>> \o r[j]
  BY DEF Todo
<1> HIDE DEF L, o
<1>3. n \in [0 .. L - 1 -> Seq(Bytes \ {None})]
  BY <1>1, <1>2
<1>4. \A j \in 0 .. L - 1 : n[j] = r[j + 1]
  BY <1>1
<1> HIDE DEF n
<1>5. c \o n[0] = MessagesOf(s)
  <2>1. /\ n[0] = r[1] /\ r[1] \in Seq(Bytes \ {None})
        /\ r[0] = IF m[1] = None THEN r[1] ELSE <<m[1]>> \o r[1]
    <3>1. 1 \in 1 .. L /\ 0 \in 0 .. L - 1 /\ 1 \in 0 .. L
      BY <1>1
    <3>2. n[0] = r[0 + 1] /\ r[1 - 1] = IF m[1] = None THEN r[1] ELSE <<m[1]>> \o r[1]
      BY <1>2, <1>4, <3>1
    <3>3. r[1] \in Seq(Bytes \ {None})
      BY <1>2, <3>1
    <3> QED
      BY <3>2, <3>3
  <2>2. CASE m[1] = None
    BY <1>1, <1>2, <2>1, <2>2
  <2>3. CASE m[1] # None
    <3>1. m[1] \in Bytes \ {None} /\ c = Append(d, m[1])
      BY <1>1, <2>3
    <3>2. Append(d, m[1]) \o r[1] = d \o (<<m[1]>> \o r[1])
      <4>1. PICK S, e, y : S = Bytes \ {None} /\ e = m[1] /\ y = r[1]
        OBVIOUS
      <4>2. d \in Seq(S) /\ e \in S /\ y \in Seq(S)
        BY <2>1, <3>1, <4>1
      <4>3. Append(d, e) \o y = d \o (<<e>> \o y)
        BY ONLY <4>2, Regroup
      <4> QED
        BY <4>1, <4>3
    <3> QED
      BY <1>2, <2>1, <2>3, <3>1, <3>2
  <2> QED
    BY <2>2, <2>3
<1>6. ASSUME NEW j \in 1 .. L - 1
      PROVE  n[j - 1] = IF o[j] = None THEN n[j] ELSE <<o[j]>> \o n[j]
  <2>1. j + 1 \in 1 .. L /\ j \in 0 .. L - 1 /\ j - 1 \in 0 .. L - 1
    BY <1>1
  <2>2. n[j - 1] = r[(j + 1) - 1] /\ n[j] = r[j + 1] /\ o[j] = m[j + 1]
    BY <1>1, <1>4, <2>1
  <2> QED
    BY <1>2, <2>1, <2>2
<1>7. n[L - 1] = MessagesFrom(s)[k]
  BY <1>1, <1>2, <1>4
<1> HIDE DEF c
<1>8. Todo(n, c, o, s, k)
  BY <1>1, <1>3, <1>5, <1>6, <1>7 DEF Todo
<1> QED
  BY <1>8 DEF c, o

\* A buffer that begins with a header, or with a whole message, still does when
\* more arrives.
LEMMA MoreArrives ==
  ASSUME NEW u \in Bytes, NEW t \in Bytes, Header(u)
  PROVE  /\ Header(u \o t) /\ Length(u \o t) = Length(u) /\ (u \o t)[1] = u[1]
         /\ Whole(u) => /\ Whole(u \o t)
                        /\ First(u \o t, Length(u)) = First(u, Length(u))
<1>1. /\ Len(u) \in Nat /\ Len(t) \in Nat /\ Len(u \o t) = Len(u) + Len(t)
      /\ \A i \in 1 .. Len(u) : (u \o t)[i] = u[i]
  BY ConcatProperties DEF Bytes
<1>2. 1 \in 1 .. Len(u) /\ 2 \in 1 .. Len(u)
  BY <1>1, FramingAssumption DEF Header
<1>3. Header(u \o t) /\ Length(u \o t) = Length(u) /\ (u \o t)[1] = u[1]
  BY <1>1, <1>2, FramingAssumption DEF Header, Length
<1>4. ASSUME Whole(u)
      PROVE  Whole(u \o t) /\ First(u \o t, Length(u)) = First(u, Length(u))
  <2>1. Length(u) \in 1 .. Len(u)
    <3>1. u[2] \in Byte
      BY <1>2 DEF Bytes
    <3>2. Length(u) \in Nat
      BY <3>1, FramingAssumption DEF Length
    <3> QED
      BY <1>1, <1>4, <3>2, FramingAssumption DEF Whole
  <2>2. Whole(u \o t)
    BY <1>1, <1>3, <1>4, <2>1 DEF Whole
  <2>3. First(u \o t, Length(u)) = First(u, Length(u))
    BY <1>2, <2>1, SubSeqOfConcat1 DEF First, Bytes
  <2> QED
    BY <2>2, <2>3
<1> QED
  BY <1>3, <1>4

\* A turn of parse takes what the whole stream has at this offset, whatever
\* arrives behind what is in the buffer.
LEMMA TurnOnTrack ==
  ASSUME TypeOK, BufferIsRest, OnTrack, NEW t \in Bytes, NEW e, NEW n,
         Header(q),
         \/ Length(q) < HDR /\ e = None /\ n = HDR
         \/ /\ Whole(q) /\ q[1] # Unknown /\ n = Length(q)
            /\ e = IF q[1] = Undecodable THEN None ELSE First(q, Length(q))
  PROVE  \E r : Todo(r, dispatched, Append(msgs, e), received \o t, taken + n)
<1> DEFINE s == received \o t
           f == MessagesFrom(s)
           u == Behind(s, taken)
<1>1. /\ received \in Bytes /\ q \in Bytes /\ msgs \in Seq(Bytes)
      /\ taken \in 0 .. Len(received) /\ q = Behind(received, taken)
  BY DEF TypeOK, BufferIsRest, Bytes
<1>2. s \in Bytes /\ taken \in 0 .. Len(s) /\ Len(s) \in Nat
  <2>1. s \in Bytes /\ Len(s) = Len(received) + Len(t)
    BY <1>1, ConcatProperties DEF Bytes
  <2>2. Len(received) \in Nat /\ Len(t) \in Nat
    BY <1>1 DEF Bytes
  <2> QED
    BY <1>1, <2>1, <2>2
<1>3. u = q \o t
  BY <1>1, BehindConcat DEF Bytes
<1>4. /\ Header(u) /\ Length(u) = Length(q) /\ u[1] = q[1]
      /\ Whole(q) => Whole(u) /\ First(u, Length(q)) = First(q, Length(q))
  BY <1>1, <1>3, MoreArrives
<1>5. PICK r : Todo(r, dispatched, msgs, s, taken)
  BY DEF OnTrack
<1> HIDE DEF s
<1>6. f[taken] = Onward(s, taken, f)
  BY <1>2, MessagesRule
<1>7. /\ Header(u) /\ Length(u) < HDR => Onward(s, taken, f) = f[taken + HDR]
      /\ Whole(u) /\ u[1] = Undecodable => Onward(s, taken, f) = f[taken + Length(u)]
      /\ Whole(u) /\ u[1] # Unknown /\ u[1] # Undecodable =>
           Onward(s, taken, f) = <<First(u, Length(u))>> \o f[taken + Length(u)]
  BY <1>2, OnwardForms
<1>8. /\ taken + HDR \in taken + 1 .. Len(s)
      /\ Whole(u) => /\ taken + Length(u) \in taken + 1 .. Len(s)
                     /\ First(u, Length(u)) \in Bytes \ {None}
  BY <1>2, <1>4, Rest
<1> HIDE DEF f, u
<1>9. /\ taken + n \in 0 .. Len(s) /\ e \in Bytes
      /\ f[taken] = IF e = None THEN f[taken + n] ELSE <<e>> \o f[taken + n]
  <2>1. CASE Length(q) < HDR /\ e = None /\ n = HDR
    BY <1>2, <1>4, <1>6, <1>7, <1>8, <2>1, NoneType
  <2>2. CASE Whole(q) /\ q[1] = Undecodable /\ n = Length(q) /\ e = None
    BY <1>2, <1>4, <1>6, <1>7, <1>8, <2>2, NoneType
  <2>3. CASE /\ Whole(q) /\ q[1] # Unknown /\ q[1] # Undecodable
             /\ n = Length(q) /\ e = First(q, Length(q))
    <3>1. e = First(u, Length(u)) /\ e \in Bytes \ {None}
      BY <1>4, <1>8, <2>3
    <3> QED
      BY <1>2, <1>4, <1>6, <1>7, <1>8, <2>3, <3>1
  <2> QED
    BY <2>1, <2>2, <2>3
<1>10. f[taken] = IF e = None THEN f[taken + n] ELSE <<e>> \o f[taken + n]
  BY <1>9
<1>11. \E m : Todo(m, dispatched, Append(msgs, e), s, taken + n)
  BY <1>1, <1>2, <1>5, <1>9, <1>10, TodoTake DEF f
<1> QED
  BY <1>11 DEF s

\* Every step stays on track.
LEMMA OnTrackStep ==
  TypeOK /\ BufferIsRest /\ OnTrack /\ [Next]_vars => OnTrack'
<1> SUFFICES ASSUME TypeOK, BufferIsRest, OnTrack, [Next]_vars PROVE OnTrack'
  OBVIOUS
<1>1. CASE Resync
  <2>1. /\ pc' = "parse" /\ received' = received /\ dispatched' = dispatched
        /\ msgs' = Append(msgs, None) /\ taken' = taken + HDR
    BY <1>1 DEF Resync, Take
  <2>2. ASSUME NEW t \in Bytes
        PROVE  \E r : Todo(r, dispatched, Append(msgs, None), received \o t, taken + HDR)
    BY <1>1, TurnOnTrack DEF Resync
  <2> QED
    BY <2>1, <2>2 DEF OnTrack
<1>2. CASE Frame
  <2>1. PICK e, n : /\ n = Length(q)
                    /\ e = IF q[1] = Undecodable THEN None ELSE First(q, Length(q))
    OBVIOUS
  <2>2. /\ pc' = "parse" /\ received' = received /\ dispatched' = dispatched
        /\ msgs' = Append(msgs, e) /\ taken' = taken + n
    BY <1>2, <2>1 DEF Frame, Take
  <2>3. ASSUME NEW t \in Bytes
        PROVE  \E r : Todo(r, dispatched, Append(msgs, e), received \o t, taken + n)
    BY <1>2, <2>1, TurnOnTrack DEF Frame, Whole
  <2> QED
    BY <2>2, <2>3 DEF OnTrack
<1>3. CASE TooSmall \/ Raises
  <2>1. UNCHANGED <<received, dispatched, msgs, taken, q>>
    BY <1>3 DEF TooSmall, Raises
  <2>2. /\ pc' \in {"recv", "dispatch"} => ~Whole(q) /\ ~(Header(q) /\ Length(q) < HDR)
        /\ pc' # "recv" /\ (pc' = "raised" => Whole(q) /\ q[1] = Unknown)
    BY <1>3 DEF TooSmall, Raises
  <2> QED
    BY <2>1, <2>2 DEF OnTrack
<1>4. CASE Dispatch
  <2>1. /\ msgs # <<>> /\ pc = "dispatch" /\ UNCHANGED <<received, taken, q, pc>>
        /\ msgs' = Tail(msgs)
        /\ dispatched' = IF Head(msgs) = None THEN dispatched
                                              ELSE Append(dispatched, Head(msgs))
    BY <1>4 DEF Dispatch
  <2>2. ASSUME NEW t \in Bytes
        PROVE  \E r : Todo(r, dispatched', msgs', received \o t, taken)
    <3>1. PICK r : Todo(r, dispatched, msgs, received \o t, taken)
      BY DEF OnTrack
    <3>2. msgs \in Seq(Bytes) /\ dispatched \in Seq(Bytes \ {None})
      BY DEF TypeOK
    <3> QED
      BY <2>1, <3>1, <3>2, TodoDispatch
  <2> QED
    BY <2>1, <2>2 DEF OnTrack
<1>5. CASE ReadOn
  BY <1>5 DEF ReadOn, OnTrack
<1>6. ASSUME NEW n \in 1 .. MaxRead, NEW data \in [1 .. n -> Byte], Receive(data)
      PROVE  OnTrack'
  <2>1. /\ pc' = "parse" /\ received' = received \o data
        /\ UNCHANGED <<taken, msgs, dispatched>>
    BY <1>6 DEF Receive
  <2>2. ASSUME NEW t \in Bytes
        PROVE  \E r : Todo(r, dispatched, msgs, (received \o data) \o t, taken)
    <3>1. data \in Bytes /\ received \in Bytes
      BY DataType DEF TypeOK
    <3>2. data \o t \in Bytes /\ (received \o data) \o t = received \o (data \o t)
      BY <3>1, ConcatProperties, ConcatAssociative DEF Bytes
    <3> QED
      BY <3>2 DEF OnTrack
  <2> QED
    BY <2>1, <2>2 DEF OnTrack
<1>7. CASE UNCHANGED vars
  BY <1>7 DEF OnTrack, vars
<1> QED
  BY <1>1, <1>2, <1>3, <1>4, <1>5, <1>6, <1>7 DEF Next, Parse

\* Nothing is done at the start, and all is to come.
LEMMA OnTrackInit == Init => OnTrack
<1> SUFFICES ASSUME Init PROVE OnTrack
  OBVIOUS
<1>1. /\ received = <<>> /\ taken = 0 /\ q = <<>> /\ msgs = <<>>
      /\ dispatched = <<>> /\ pc = "recv"
  BY DEF Init
<1>2. ASSUME NEW t \in Bytes
      PROVE  \E r : Todo(r, <<>>, <<>>, <<>> \o t, 0)
  <2>1. <<>> \o t = t
    BY ConcatEmptySeq DEF Bytes
  <2>2. MessagesFrom(t)[0] \in Seq(Bytes \ {None})
    <3>1. 0 \in 0 .. Len(t)
      BY DEF Bytes
    <3> QED
      BY <3>1, MessagesType
  <2> DEFINE r == [j \in 0 .. 0 |-> MessagesFrom(t)[0]]
  <2>3. /\ r \in [0 .. 0 -> Seq(Bytes \ {None})] /\ r[0] = MessagesFrom(t)[0]
        /\ Len(<<>>) = 0
    BY <2>2
  <2> HIDE DEF r
  <2>4. <<>> \o r[0] = MessagesOf(t)
    <3>1. <<>> \o r[0] = r[0]
      BY <2>2, <2>3, ConcatEmptySeq
    <3> QED
      BY <2>3, <3>1 DEF MessagesOf
  <2>5. Todo(r, <<>>, <<>>, t, 0)
    BY <2>3, <2>4 DEF Todo
  <2> QED
    BY <2>1, <2>5
<1>3. ~Header(q)
  BY <1>1, FramingAssumption DEF Header
<1> QED
  BY <1>1, <1>2, <1>3 DEF OnTrack, Whole

\* What is dispatched depends on the bytes of the stream, not on how recv()
\* cuts them up: between reads it is the messages of all that was received, and
\* always what the stream begins with, also when an unknown version ends it
\* (StreamParser.parse, try_parse, Datapath._recv_loop).
THEOREM CutsDoNotMatter == Spec => []SameMessages
<1>1. TypeOK /\ BufferIsRest /\ OnTrack => SameMessages
  <2> SUFFICES ASSUME TypeOK, BufferIsRest, OnTrack PROVE SameMessages
    OBVIOUS
  <2>1. /\ received \in Bytes /\ msgs \in Seq(Bytes)
        /\ dispatched \in Seq(Bytes \ {None})
        /\ taken \in 0 .. Len(received) /\ q = Behind(received, taken)
    BY DEF TypeOK, BufferIsRest, Bytes
  <2>2. PICK r : Todo(r, dispatched, msgs, received, taken)
    <3>1. <<>> \in Bytes /\ received \o <<>> = received
      BY <2>1, ConcatEmptySeq DEF Bytes
    <3>2. \E r : Todo(r, dispatched, msgs, received \o <<>>, taken)
      BY <3>1 DEF OnTrack
    <3> QED
      BY <3>1, <3>2
  <2>3. /\ r \in [0 .. Len(msgs) -> Seq(Bytes \ {None})]
        /\ dispatched \o r[0] = MessagesOf(received)
        /\ r[Len(msgs)] = MessagesFrom(received)[taken]
    BY <2>2 DEF Todo
  <2>4. pc = "recv" => dispatched = MessagesOf(received)
    <3> SUFFICES ASSUME pc = "recv" PROVE dispatched = MessagesOf(received)
      OBVIOUS
    <3>1. Len(msgs) = 0 /\ ~Whole(q) /\ ~(Header(q) /\ Length(q) < HDR)
      BY DEF OnTrack
    <3>2. MessagesFrom(received)[taken] = <<>>
      BY <2>1, <3>1, MessagesRule, OnwardForms
    <3>3. dispatched \o <<>> = dispatched
      BY <2>1, ConcatEmptySeq
    <3> QED
      BY <2>3, <3>1, <3>2, <3>3
  <2>5. IsPrefix(dispatched, MessagesOf(received))
    <3>1. r[0] \in Seq(Bytes \ {None})
      <4>1. 0 \in 0 .. Len(msgs)
        BY <2>1
      <4> QED
        BY <2>3, <4>1
    <3>2. PICK S, d, y : S = Bytes \ {None} /\ d = dispatched /\ y = r[0]
      OBVIOUS
    <3>3. d \in Seq(S) /\ y \in Seq(S)
      BY <2>1, <3>1, <3>2
    <3>4. IsPrefix(d, d \o y)
      <4>1. /\ Len(d) \in Nat /\ Len(d \o y) = Len(d) + Len(y) /\ Len(y) \in Nat
            /\ d \o y \in Seq(S)
        BY <3>3, ConcatProperties
      <4>2. SubSeq(d, 1, Len(d)) = SubSeq(d \o y, 1, Len(d))
        <5>1. CASE Len(d) = 0
          BY <5>1, SubSeqEmpty
        <5>2. CASE Len(d) # 0
          <6>1. 1 \in 1 .. Len(d) /\ Len(d) \in 1 .. Len(d)
            BY <4>1, <5>2
          <6> QED
            BY <3>3, <6>1, SubSeqOfConcat1
        <5> QED
          BY <5>1, <5>2
      <4> QED
        BY <4>1, <4>2 DEF IsPrefix
    <3> QED
      BY <2>3, <3>2, <3>4
  <2> QED
    BY <2>4, <2>5 DEF SameMessages
<1>2. /\ Init => TypeOK /\ BufferIsRest /\ OnTrack
      /\ TypeOK /\ BufferIsRest /\ OnTrack /\ [Next]_vars
           => (TypeOK /\ BufferIsRest /\ OnTrack)'
  BY TypeInit, RestInit, OnTrackInit, TypeStep, RestStep, OnTrackStep
<1> QED
  BY <1>1, <1>2, PTL DEF Spec

=============================================================================
