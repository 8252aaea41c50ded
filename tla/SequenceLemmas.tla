---------------------------- MODULE SequenceLemmas ----------------------------
(***************************************************************************)
(* What happens to the entries of a queue when one is put at its end or    *)
(* taken from its head. The queues of the program (events of applications, *)
(* send_q, the data of a connection) are used in no other way.             *)
(***************************************************************************)
EXTENDS Naturals, Sequences, WellFoundedInduction, TLAPS

\* m is in the queue s.
In(m, s) == \E i \in DOMAIN s : s[i] = m

\* m is in it at most once.
Once(m, s) == \A i, j \in DOMAIN s : s[i] = m /\ s[j] = m => i = j

\* Behind every m there is an n.
Behind(m, n, s) ==
    \A i \in DOMAIN s : s[i] = m => \E j \in DOMAIN s : i < j /\ s[j] = n

\* An entry of s is of the kind C.
Has(s, C) == \E i \in DOMAIN s : s[i] \in C

\* The last entry of s that is of the kind C, if there is one, is in R.
LastIn(s, C, R) ==
    \A i \in DOMAIN s :
        s[i] \in C /\ (\A j \in DOMAIN s : i < j => s[j] \notin C) => s[i] \in R

\* The head and the tail of a queue that is not empty.
LEMMA HeadAndTail ==
  ASSUME NEW S, NEW s \in Seq(S), s # <<>>
  PROVE  /\ Len(s) \in Nat \ {0} /\ Head(s) = s[1] /\ Head(s) \in S
         /\ Tail(s) \in Seq(S) /\ Len(Tail(s)) = Len(s) - 1
         /\ DOMAIN Tail(s) = 1 .. Len(s) - 1
         /\ \A i \in 1 .. Len(s) - 1 : Tail(s)[i] = s[i + 1]
  OBVIOUS

\* The entries of a queue something was put into.
LEMMA AppendEntries ==
  ASSUME NEW S, NEW s \in Seq(S), NEW e
  PROVE  /\ Len(s) \in Nat /\ Len(Append(s, e)) = Len(s) + 1
         /\ DOMAIN s = 1 .. Len(s) /\ DOMAIN Append(s, e) = 1 .. Len(s) + 1
         /\ \A i \in 1 .. Len(s) : Append(s, e)[i] = s[i]
         /\ Append(s, e)[Len(s) + 1] = e
         /\ e \in S => Append(s, e) \in Seq(S)
  OBVIOUS

\* The empty queue.
LEMMA EmptyQueue ==
  \A m, n : ~In(m, <<>>) /\ Once(m, <<>>) /\ Behind(m, n, <<>>)
  BY DEF In, Once, Behind

\* What is in a queue after a put.
LEMMA InAppend ==
  ASSUME NEW S, NEW s \in Seq(S), NEW e
  PROVE  \A m : In(m, Append(s, e)) <=> In(m, s) \/ m = e
  BY AppendEntries DEF In

\* What is in a queue before a take.
LEMMA InTail ==
  ASSUME NEW S, NEW s \in Seq(S), s # <<>>
  PROVE  \A m : In(m, s) <=> m = Head(s) \/ In(m, Tail(s))
  <1> SUFFICES ASSUME NEW m PROVE In(m, s) <=> m = Head(s) \/ In(m, Tail(s))
    OBVIOUS
  <1>1. DOMAIN s = 1 .. Len(s)
    OBVIOUS
  <1>2. ASSUME In(m, s), m # Head(s) PROVE In(m, Tail(s))
    <2>1. PICK i \in 1 .. Len(s) : s[i] = m
      BY <1>1, <1>2 DEF In
    <2>2. i - 1 \in 1 .. Len(s) - 1 /\ Tail(s)[i - 1] = m
      BY <1>2, <2>1, HeadAndTail
    <2> QED
      BY <2>2, HeadAndTail DEF In
  <1>3. m = Head(s) \/ In(m, Tail(s)) => In(m, s)
    BY <1>1, HeadAndTail DEF In
  <1> QED
    BY <1>2, <1>3

\* A put leaves single what it does not repeat.
LEMMA OnceAppend ==
  ASSUME NEW S, NEW s \in Seq(S), NEW e, NEW m, Once(m, s), e # m \/ ~In(m, s)
  PROVE  Once(m, Append(s, e))
  BY AppendEntries DEF Once, In

\* A take leaves single what is single, and takes it away if it is the head.
LEMMA OnceTail ==
  ASSUME NEW S, NEW s \in Seq(S), s # <<>>, NEW m, Once(m, s)
  PROVE  Once(m, Tail(s)) /\ (Head(s) = m => ~In(m, Tail(s)))
  <1>1. \A i \in DOMAIN Tail(s) : i + 1 \in DOMAIN s /\ Tail(s)[i] = s[i + 1]
    BY HeadAndTail
  <1>2. DOMAIN Tail(s) \subseteq Nat \ {0} /\ 1 \in DOMAIN s /\ Head(s) = s[1]
    BY HeadAndTail
  <1> QED
    BY <1>1, <1>2 DEF Once, In

\* A put of n puts it behind everything; one of another entry than m changes
\* nothing that is behind m.
LEMMA BehindAppend ==
  ASSUME NEW S, NEW s \in Seq(S), NEW e, NEW m, NEW n, e # m,
         Behind(m, n, s) \/ e = n
  PROVE  Behind(m, n, Append(s, e))
  BY AppendEntries DEF Behind

\* What is behind m is still there once m has been taken.
LEMMA BehindTail ==
  ASSUME NEW S, NEW s \in Seq(S), s # <<>>, NEW m, NEW n, Behind(m, n, s)
  PROVE  Behind(m, n, Tail(s)) /\ (Head(s) = m => In(n, Tail(s)))
  <1>1. /\ DOMAIN s = 1 .. Len(s) /\ DOMAIN Tail(s) = 1 .. Len(s) - 1
        /\ Len(s) \in Nat \ {0} /\ Head(s) = s[1]
        /\ \A i \in 1 .. Len(s) - 1 : Tail(s)[i] = s[i + 1]
    BY HeadAndTail
  <1>2. ASSUME NEW i \in DOMAIN s, NEW j \in DOMAIN s, i < j
        PROVE  j - 1 \in DOMAIN Tail(s) /\ Tail(s)[j - 1] = s[j] /\ i - 1 < j - 1
    BY <1>1, <1>2
  <1>3. Behind(m, n, Tail(s))
    <2> SUFFICES ASSUME NEW i \in DOMAIN Tail(s), Tail(s)[i] = m
                 PROVE  \E j \in DOMAIN Tail(s) : i < j /\ Tail(s)[j] = n
      BY DEF Behind
    <2>1. i + 1 \in DOMAIN s /\ s[i + 1] = m /\ i \in Nat
      BY <1>1
    <2>2. PICK j \in DOMAIN s : i + 1 < j /\ s[j] = n
      BY <2>1 DEF Behind
    <2> QED
      BY <1>1, <1>2, <2>1, <2>2
  <1>4. Head(s) = m => In(n, Tail(s))
    <2> SUFFICES ASSUME Head(s) = m PROVE In(n, Tail(s))
      OBVIOUS
    <2>1. 1 \in DOMAIN s
      BY <1>1
    <2>2. PICK j \in DOMAIN s : 1 < j /\ s[j] = n
      BY <1>1, <2>1 DEF Behind
    <2> QED
      BY <1>2, <2>1, <2>2 DEF In
  <1> QED
    BY <1>3, <1>4

\* A set of numbers that is not empty has a least member.
LEMMA Least ==
  ASSUME NEW S \in SUBSET Nat, S # {}
  PROVE  \E n \in S : \A m \in S : n <= m
  <1>1. \E x \in S : \A y \in S : ~(<<y, x>> \in OpToRel(<, Nat))
    BY NatLessThanWellFounded, WFMin, Zenon
  <1>2. \A x, y \in Nat : <<y, x>> \in OpToRel(<, Nat) <=> y < x
    BY DEF OpToRel
  <1>3. \E x \in S : \A y \in S : ~(y < x)
    BY <1>1, <1>2, Zenon
  <1> QED
    BY <1>3

\* What kinds a queue has after a put.
LEMMA HasAppend ==
  ASSUME NEW S, NEW s \in Seq(S), NEW e, NEW C
  PROVE  Has(Append(s, e), C) <=> Has(s, C) \/ e \in C
  <1>1. /\ Len(s) \in Nat /\ DOMAIN s = 1 .. Len(s)
        /\ DOMAIN Append(s, e) = 1 .. Len(s) + 1
        /\ \A i \in 1 .. Len(s) : Append(s, e)[i] = s[i]
        /\ Append(s, e)[Len(s) + 1] = e
    BY AppendEntries
  <1>2. Has(s, C) => Has(Append(s, e), C)
    BY <1>1 DEF Has
  <1>3. e \in C => Has(Append(s, e), C)
    BY <1>1 DEF Has
  <1>4. Has(Append(s, e), C) => Has(s, C) \/ e \in C
    BY <1>1 DEF Has
  <1> QED
    BY <1>2, <1>3, <1>4

\* What kinds a queue has before a take.
LEMMA HasTail ==
  ASSUME NEW S, NEW s \in Seq(S), s # <<>>, NEW C
  PROVE  Has(s, C) <=> Head(s) \in C \/ Has(Tail(s), C)
  <1>1. /\ Len(s) \in Nat \ {0} /\ Head(s) = s[1] /\ DOMAIN s = 1 .. Len(s)
        /\ DOMAIN Tail(s) = 1 .. Len(s) - 1
        /\ \A i \in 1 .. Len(s) - 1 : Tail(s)[i] = s[i + 1]
    BY HeadAndTail
  <1>2. Head(s) \in C => Has(s, C)
    BY <1>1 DEF Has
  <1>3. Has(Tail(s), C) => Has(s, C)
    BY <1>1 DEF Has
  <1>4. ASSUME Has(s, C), Head(s) \notin C PROVE Has(Tail(s), C)
    <2>1. PICK i \in DOMAIN s : s[i] \in C
      BY <1>4 DEF Has
    <2>2. i - 1 \in DOMAIN Tail(s) /\ Tail(s)[i - 1] = s[i]
      BY <1>1, <1>4, <2>1
    <2> QED
      BY <2>1, <2>2 DEF Has
  <1> QED
    BY <1>2, <1>3, <1>4

\* A put of an entry of the kind C makes it the last one; one of another kind
\* leaves the last one.
LEMMA LastAppend ==
  ASSUME NEW S, NEW s \in Seq(S), NEW e, NEW C, NEW R,
         IF e \in C THEN e \in R ELSE LastIn(s, C, R)
  PROVE  LastIn(Append(s, e), C, R)
  <1>1. /\ Len(s) \in Nat /\ DOMAIN s = 1 .. Len(s)
        /\ DOMAIN Append(s, e) = 1 .. Len(s) + 1
        /\ \A i \in 1 .. Len(s) : Append(s, e)[i] = s[i]
        /\ Append(s, e)[Len(s) + 1] = e
    BY AppendEntries
  <1> SUFFICES ASSUME NEW i \in DOMAIN Append(s, e), Append(s, e)[i] \in C,
                      \A j \in DOMAIN Append(s, e) : i < j => Append(s, e)[j] \notin C
               PROVE  Append(s, e)[i] \in R
    BY DEF LastIn
  <1>2. CASE i = Len(s) + 1
    BY <1>1, <1>2
  <1>3. CASE i \in DOMAIN s
    <2>1. e \notin C
      BY <1>1, <1>3
    <2>2. s[i] \in C /\ \A j \in DOMAIN s : i < j => s[j] \notin C
      BY <1>1, <1>3
    <2> QED
      BY <1>1, <1>3, <2>1, <2>2 DEF LastIn
  <1> QED
    BY <1>1, <1>2, <1>3

\* A take leaves the last one, unless it is the one taken.
LEMMA LastTail ==
  ASSUME NEW S, NEW s \in Seq(S), s # <<>>, NEW C, NEW R, LastIn(s, C, R)
  PROVE  /\ LastIn(Tail(s), C, R)
         /\ ~Has(Tail(s), C) /\ Head(s) \in C => Head(s) \in R
  <1>1. /\ Len(s) \in Nat \ {0} /\ Head(s) = s[1] /\ DOMAIN s = 1 .. Len(s)
        /\ DOMAIN Tail(s) = 1 .. Len(s) - 1
        /\ \A i \in 1 .. Len(s) - 1 : Tail(s)[i] = s[i + 1]
    BY HeadAndTail
  <1>2. \A j \in DOMAIN s : 1 < j => j - 1 \in DOMAIN Tail(s) /\ Tail(s)[j - 1] = s[j]
    BY <1>1
  <1>3. ASSUME NEW i \in DOMAIN Tail(s), Tail(s)[i] \in C,
               \A j \in DOMAIN Tail(s) : i < j => Tail(s)[j] \notin C
        PROVE  Tail(s)[i] \in R
    <2>1. i + 1 \in DOMAIN s /\ s[i + 1] = Tail(s)[i]
      BY <1>1
    <2>2. ASSUME NEW j \in DOMAIN s, i + 1 < j PROVE s[j] \notin C
      <3>1. j - 1 \in DOMAIN Tail(s) /\ Tail(s)[j - 1] = s[j] /\ i < j - 1
        BY <1>1, <1>2, <2>2
      <3> QED
        BY <1>3, <3>1
    <2> QED
      BY <1>3, <2>1, <2>2 DEF LastIn
  <1>4. ASSUME ~Has(Tail(s), C), Head(s) \in C PROVE Head(s) \in R
    <2>1. 1 \in DOMAIN s /\ \A j \in DOMAIN s : 1 < j => s[j] \notin C
      BY <1>1, <1>2, <1>4 DEF Has
    <2> QED
      BY <1>1, <1>4, <2>1 DEF LastIn
  <1> QED
    BY <1>3, <1>4 DEF LastIn

\* Every m is before every entry of the kind C.
Before(m, C, s) == \A i, j \in DOMAIN s : s[i] = m /\ s[j] \in C => i < j

\* The head and the tail after a put into a queue that is not empty.
LEMMA AppendHead ==
  ASSUME NEW S, NEW s \in Seq(S), s # <<>>, NEW e
  PROVE  /\ Append(s, e) # <<>> /\ Head(Append(s, e)) = Head(s)
         /\ Tail(Append(s, e)) = Append(Tail(s), e)
  OBVIOUS

\* Something is put behind m.
LEMMA BeforeAppend ==
  ASSUME NEW S, NEW s \in Seq(S), NEW e, NEW m, NEW C, Before(m, C, s),
         e = m => ~Has(s, C) /\ m \notin C
  PROVE  Before(m, C, Append(s, e))
  <1>1. /\ Len(s) \in Nat /\ DOMAIN s = 1 .. Len(s)
        /\ DOMAIN Append(s, e) = 1 .. Len(s) + 1
        /\ \A i \in 1 .. Len(s) : Append(s, e)[i] = s[i]
        /\ Append(s, e)[Len(s) + 1] = e
    BY AppendEntries
  <1> SUFFICES ASSUME NEW i \in 1 .. Len(s) + 1, NEW j \in 1 .. Len(s) + 1,
                      Append(s, e)[i] = m, Append(s, e)[j] \in C
               PROVE  i < j
    BY <1>1 DEF Before
  <1>2. CASE i \in 1 .. Len(s) /\ j \in 1 .. Len(s)
    BY <1>1, <1>2 DEF Before
  <1>3. CASE i = Len(s) + 1
    BY <1>1, <1>3 DEF Has
  <1>4. CASE i \in 1 .. Len(s) /\ j = Len(s) + 1
    BY <1>1, <1>4
  <1> QED
    BY <1>1, <1>2, <1>3, <1>4

\* Nothing of the kind is taken before m.
LEMMA BeforeTail ==
  ASSUME NEW S, NEW s \in Seq(S), s # <<>>, NEW m, NEW C, Before(m, C, s)
  PROVE  Before(m, C, Tail(s)) /\ (Head(s) \in C => ~In(m, s))
  <1>1. /\ Len(s) \in Nat \ {0} /\ Head(s) = s[1] /\ DOMAIN s = 1 .. Len(s)
        /\ DOMAIN Tail(s) = 1 .. Len(s) - 1
        /\ \A i \in 1 .. Len(s) - 1 : Tail(s)[i] = s[i + 1]
    BY HeadAndTail
  <1>2. Before(m, C, Tail(s))
    <2> SUFFICES ASSUME NEW i \in 1 .. Len(s) - 1, NEW j \in 1 .. Len(s) - 1,
                        Tail(s)[i] = m, Tail(s)[j] \in C
                 PROVE  i < j
      BY <1>1 DEF Before
    <2>1. i + 1 \in DOMAIN s /\ j + 1 \in DOMAIN s /\ s[i + 1] = m /\ s[j + 1] \in C
      BY <1>1
    <2> QED
      BY <2>1 DEF Before
  <1>3. Head(s) \in C => ~In(m, s)
    BY <1>1 DEF Before, In
  <1> QED
    BY <1>2, <1>3

=============================================================================
