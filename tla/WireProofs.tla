------------------------------ MODULE WireProofs ------------------------------
(***************************************************************************)
(* Theorems about module Wire, for every well-formed message: what is sent *)
(* is what is received, lengths nest, prerequisites come first.            *)
(***************************************************************************)
EXTENDS Wire, Checksum, SequenceLemmas, SequenceTheorems, FiniteSetTheorems

(***************************************************************************)
(* Structures.                                                             *)
(***************************************************************************)

\* Induction up to a number.
LEMMA Upwards ==
  ASSUME NEW L \in Nat, NEW S, 0 \in S,
         \A n \in 0 .. L : n < L /\ n \in S => n + 1 \in S
  PROVE  0 .. L \subseteq S
<1> DEFINE Bad == { n \in 0 .. L : n \notin S }
<1> SUFFICES ASSUME Bad # {} PROVE FALSE
  OBVIOUS
<1>1. Bad \in SUBSET Nat
  OBVIOUS
<1>2. PICK n \in Bad : \A m \in Bad : n <= m
  <2> HIDE DEF Bad
  <2> QED
    BY <1>1, Least
<1>3. n # 0 /\ n - 1 \in 0 .. L /\ n - 1 < L /\ n - 1 + 1 = n
  BY <1>2
<1>4. n - 1 \notin Bad
  BY <1>2, <1>3
<1> QED
  BY <1>2, <1>3, <1>4

\* The structures of a depth, from those of one less.
Made(S) ==
    {o \in [kind : STRING, type : STRING, body : Seq(Byte), kids : Seq(S)] :
        WellMade(o)}

\* The recursive definition of Nested has a solution.
LEMMA NestedRule ==
  /\ Nested[0] = {}
  /\ \A n \in 0 .. MaxDepth : n < MaxDepth => Nested[n + 1] = Made(Nested[n])
<1> DEFINE Rule(m, g) ==
      g = [n \in 0 .. m |-> IF n = 0 THEN {} ELSE Made(g[n - 1])]
<1> DEFINE S == { m \in 0 .. MaxDepth : \E g : Rule(m, g) }
<1>0. MaxDepth \in Nat
  BY StructuresAssumption
<1>1. 0 \in S
  <2> DEFINE g == [n \in 0 .. 0 |-> {}]
  <2>1. g = [n \in 0 .. 0 |-> IF n = 0 THEN {} ELSE Made(g[n - 1])]
    OBVIOUS
  <2> HIDE DEF g
  <2> QED
    BY <1>0, <2>1
<1>2. ASSUME NEW m \in 0 .. MaxDepth, m < MaxDepth, m \in S PROVE m + 1 \in S
  <2>1. PICK g : Rule(m, g)
    BY <1>2
  <2> DEFINE h == [n \in 0 .. m + 1 |-> IF n = 0 THEN {} ELSE Made(g[n - 1])]
  <2>2. \A n \in 0 .. m : h[n] = g[n]
    <3>1. \A n \in 0 .. m : g[n] = IF n = 0 THEN {} ELSE Made(g[n - 1])
      BY <2>1
    <3>2. \A n \in 0 .. m : h[n] = IF n = 0 THEN {} ELSE Made(g[n - 1])
      BY <1>0
    <3> QED
      BY <3>1, <3>2, Zenon
  <2>3. \A n \in 0 .. m + 1 : n # 0 => h[n - 1] = g[n - 1]
    BY <1>0, <2>2
  <2>4. h = [n \in 0 .. m + 1 |-> IF n = 0 THEN {} ELSE Made(h[n - 1])]
    BY <2>3
  <2>5. Rule(m + 1, h)
    BY <2>4, Zenon
  <2> HIDE DEF h, Rule
  <2> QED
    BY <1>0, <1>2, <2>5
<1>3. MaxDepth \in S
  <2> HIDE DEF S
  <2> QED
    BY <1>0, <1>1, <1>2, Upwards
<1>4. \E g : Rule(MaxDepth, g)
  BY <1>3
<1>5. Nested = CHOOSE g : Rule(MaxDepth, g)
  BY DEF Nested, Made
<1>6. Rule(MaxDepth, Nested)
  <2> HIDE DEF Rule
  <2> QED
    BY <1>4, <1>5
<1>7. \A n \in 0 .. MaxDepth : Nested[n] = IF n = 0 THEN {} ELSE Made(Nested[n - 1])
  BY <1>6
<1>8. \A n \in 0 .. MaxDepth :
        n < MaxDepth => n + 1 \in 0 .. MaxDepth /\ n + 1 # 0 /\ n + 1 - 1 = n
  BY <1>0
<1> QED
  BY <1>0, <1>7, <1>8

\* What is nested less deep is nested at most as deep.
LEMMA NestedGrows ==
  \A n \in 0 .. MaxDepth : n < MaxDepth => Nested[n] \subseteq Nested[n + 1]
<1> DEFINE S == { n \in 0 .. MaxDepth :
                    n < MaxDepth => Nested[n] \subseteq Nested[n + 1] }
<1>0. MaxDepth \in Nat
  BY StructuresAssumption
<1>1. 0 \in S
  BY <1>0, NestedRule
<1>2. ASSUME NEW n \in 0 .. MaxDepth, n < MaxDepth, n \in S PROVE n + 1 \in S
  <2> SUFFICES ASSUME n + 1 < MaxDepth PROVE Nested[n + 1] \subseteq Nested[n + 2]
    BY <1>0, <1>2
  <2>1. Nested[n] \subseteq Nested[n + 1]
    BY <1>2
  <2>2. Nested[n + 1] = Made(Nested[n]) /\ Nested[n + 2] = Made(Nested[n + 1])
    <3>1. n + 1 \in 0 .. MaxDepth /\ n + 1 + 1 = n + 2
      BY <1>0
    <3> QED
      BY <1>2, <3>1, NestedRule
  <2>3. Seq(Nested[n]) \subseteq Seq(Nested[n + 1])
    BY <2>1
  <2>4. Made(Nested[n]) \subseteq Made(Nested[n + 1])
    BY <2>3 DEF Made
  <2> QED
    BY <2>2, <2>4
<1> HIDE DEF S
<1>3. 0 .. MaxDepth \subseteq S
  BY <1>0, <1>1, <1>2, Upwards
<1> QED
  BY <1>3 DEF S

\* What is nested to any depth is a structure.
LEMMA NestedWithin == \A n \in 0 .. MaxDepth : Nested[n] \subseteq Structure
<1> DEFINE S == { k \in 0 .. MaxDepth : Nested[MaxDepth - k] \subseteq Structure }
<1>0. MaxDepth \in Nat
  BY StructuresAssumption
<1>1. 0 \in S
  BY <1>0 DEF Structure
<1>2. ASSUME NEW k \in 0 .. MaxDepth, k < MaxDepth, k \in S PROVE k + 1 \in S
  <2>1. /\ MaxDepth - (k + 1) \in 0 .. MaxDepth /\ MaxDepth - (k + 1) < MaxDepth
        /\ MaxDepth - (k + 1) + 1 = MaxDepth - k
    BY <1>0, <1>2
  <2>2. Nested[MaxDepth - (k + 1)] \subseteq Nested[MaxDepth - (k + 1) + 1]
    BY <2>1, NestedGrows
  <2>3. Nested[MaxDepth - (k + 1)] \subseteq Structure
    BY <1>2, <2>1, <2>2
  <2> QED
    BY <1>0, <1>2, <2>3
<1> HIDE DEF S
<1>3. 0 .. MaxDepth \subseteq S
  BY <1>0, <1>1, <1>2, Upwards
<1> SUFFICES ASSUME NEW n \in 0 .. MaxDepth PROVE Nested[n] \subseteq Structure
  OBVIOUS
<1>4. MaxDepth - n \in 0 .. MaxDepth /\ MaxDepth - (MaxDepth - n) = n
  BY <1>0
<1>5. Nested[MaxDepth - (MaxDepth - n)] \subseteq Structure
  BY <1>3, <1>4 DEF S
<1> QED
  BY <1>4, <1>5

\* What a structure is: well made, of structures.
LEMMA StructureForm ==
  ASSUME NEW o \in Structure
  PROVE  /\ o \in [kind : STRING, type : STRING, body : Seq(Byte), kids : Seq(Structure)]
         /\ WellMade(o)
<1>0. MaxDepth \in Nat /\ MaxDepth # 0
  BY StructuresAssumption, NestedRule DEF Structure
<1>1. PICK n \in 0 .. MaxDepth : n + 1 = MaxDepth
  <2>1. MaxDepth - 1 \in 0 .. MaxDepth /\ MaxDepth - 1 + 1 = MaxDepth
    BY <1>0
  <2> QED
    BY <2>1
<1>2. n < MaxDepth
  BY <1>0, <1>1
<1>3. Structure = Made(Nested[n]) /\ Nested[n] \subseteq Structure
  BY <1>1, <1>2, NestedRule, NestedGrows DEF Structure
<1>4. Seq(Nested[n]) \subseteq Seq(Structure)
  BY <1>3
<1> QED
  BY <1>3, <1>4 DEF Made

\* Inner looks at the bytes of the structures of the list only.
LEMMA InnerSame ==
  ASSUME NEW S, NEW kids \in Seq(S), NEW g, NEW h, \A x \in S : h[x] = g[x]
  PROVE  Inner(kids, g) = Inner(kids, h)
<1>1. \A i \in DOMAIN kids : g[kids[i]] = h[kids[i]]
  OBVIOUS
<1>2. [i \in DOMAIN kids |-> g[kids[i]]] = [i \in DOMAIN kids |-> h[kids[i]]]
  BY <1>1
<1> QED
  BY <1>2, Zenon DEF Inner

\* Bytes has its defining equation.
LEMMA BytesRule == \A o \in Structure : Bytes[o] = Encode(o, Inner(o.kids, Bytes))
<1> DEFINE Rule(m, g) == g = [o \in Nested[m] |-> Encode(o, Inner(o.kids, g))]
<1> DEFINE S == { m \in 0 .. MaxDepth : \E g : Rule(m, g) }
<1>0. MaxDepth \in Nat
  BY StructuresAssumption
<1>1. 0 \in S
  <2> DEFINE g == [o \in {} |-> 0]
  <2>1. Rule(0, g)
    BY NestedRule
  <2> HIDE DEF g, Rule
  <2> QED
    BY <1>0, <2>1
<1>2. ASSUME NEW m \in 0 .. MaxDepth, m < MaxDepth, m \in S PROVE m + 1 \in S
  <2>1. PICK g : Rule(m, g)
    BY <1>2
  <2>2. \A o \in Nested[m] : g[o] = Encode(o, Inner(o.kids, g))
    BY <2>1
  <2> DEFINE h == [o \in Nested[m + 1] |-> Encode(o, Inner(o.kids, g))]
  <2>3. \A o \in Nested[m] : h[o] = g[o]
    <3>1. \A o \in Nested[m] : h[o] = Encode(o, Inner(o.kids, g))
      BY <1>2, NestedGrows
    <3> QED
      BY <2>2, <3>1, Zenon
  <2>4. \A o \in Nested[m + 1] : Encode(o, Inner(o.kids, g)) = Encode(o, Inner(o.kids, h))
    <3> SUFFICES ASSUME NEW o \in Nested[m + 1] PROVE Encode(o, Inner(o.kids, g)) = Encode(o, Inner(o.kids, h))
      OBVIOUS
    <3>1. o.kids \in Seq(Nested[m])
      BY <1>2, NestedRule DEF Made
    <3> HIDE DEF h
    <3> QED
      BY <2>3, <3>1, InnerSame
  <2>5. Rule(m + 1, h)
    BY <2>4, Zenon
  <2> HIDE DEF h, Rule
  <2> QED
    BY <1>0, <1>2, <2>5
<1>3. MaxDepth \in S
  <2> HIDE DEF S
  <2> QED
    BY <1>0, <1>1, <1>2, Upwards
<1>4. \E g : Rule(MaxDepth, g)
  BY <1>3
<1>5. Bytes = CHOOSE g : Rule(MaxDepth, g)
  BY DEF Bytes, Structure
<1>6. Rule(MaxDepth, Bytes)
  <2> HIDE DEF Rule
  <2> QED
    BY <1>4, <1>5
<1> QED
  BY <1>6 DEF Structure

\* Without looks at the structures of the list only.
LEMMA WithoutSame ==
  ASSUME NEW S, NEW kids \in Seq(S), NEW g, NEW h, \A x \in S : h[x] = g[x]
  PROVE  Without(kids, g) = Without(kids, h)
<1> DEFINE part(i, f) == IF PassedOver(kids[i]) THEN <<>> ELSE <<f[kids[i]]>>
<1>1. \A i \in DOMAIN kids : part(i, g) = part(i, h)
  OBVIOUS
<1>2. [i \in DOMAIN kids |-> part(i, g)] = [i \in DOMAIN kids |-> part(i, h)]
  BY <1>1
<1> QED
  BY <1>2, Zenon DEF Without

\* Known has its defining equation.
LEMMA KnownRule == \A o \in Structure : Known[o] = [o EXCEPT !.kids = Without(@, Known)]
<1> DEFINE Rule(m, g) == g = [o \in Nested[m] |-> [o EXCEPT !.kids = Without(@, g)]]
<1> DEFINE S == { m \in 0 .. MaxDepth : \E g : Rule(m, g) }
<1>0. MaxDepth \in Nat
  BY StructuresAssumption
<1>1. 0 \in S
  <2> DEFINE g == [o \in {} |-> 0]
  <2>1. Rule(0, g)
    BY NestedRule
  <2> HIDE DEF g, Rule
  <2> QED
    BY <1>0, <2>1
<1>2. ASSUME NEW m \in 0 .. MaxDepth, m < MaxDepth, m \in S PROVE m + 1 \in S
  <2>1. PICK g : Rule(m, g)
    BY <1>2
  <2>2. \A o \in Nested[m] : g[o] = [o EXCEPT !.kids = Without(@, g)]
    BY <2>1
  <2> DEFINE h == [o \in Nested[m + 1] |-> [o EXCEPT !.kids = Without(@, g)]]
  <2>3. \A o \in Nested[m] : h[o] = g[o]
    <3>1. \A o \in Nested[m] : h[o] = [o EXCEPT !.kids = Without(@, g)]
      BY <1>2, NestedGrows
    <3> QED
      BY <2>2, <3>1, Zenon
  <2>4. \A o \in Nested[m + 1] : [o EXCEPT !.kids = Without(@, g)] = [o EXCEPT !.kids = Without(@, h)]
    <3> SUFFICES ASSUME NEW o \in Nested[m + 1] PROVE [o EXCEPT !.kids = Without(@, g)] = [o EXCEPT !.kids = Without(@, h)]
      OBVIOUS
    <3>1. o.kids \in Seq(Nested[m])
      BY <1>2, NestedRule DEF Made
    <3> HIDE DEF h
    <3> QED
      BY <2>3, <3>1, WithoutSame
  <2>5. Rule(m + 1, h)
    BY <2>4, Zenon
  <2> HIDE DEF h, Rule
  <2> QED
    BY <1>0, <1>2, <2>5
<1>3. MaxDepth \in S
  <2> HIDE DEF S
  <2> QED
    BY <1>0, <1>1, <1>2, Upwards
<1>4. \E g : Rule(MaxDepth, g)
  BY <1>3
<1>5. Known = CHOOSE g : Rule(MaxDepth, g)
  BY DEF Known, Structure
<1>6. Rule(MaxDepth, Known)
  <2> HIDE DEF Rule
  <2> QED
    BY <1>4, <1>5
<1> QED
  BY <1>6 DEF Structure

\* Types a parser has to give up at.
Fatal(o) == o.kind \in {"action", "instruction", "band"} /\ o.type = "unknown"
Some(kids, g) == \E i \in DOMAIN kids : g[kids[i]]

\* Rules that agree on every element agree on a sequence of them.
LEMMA SomeSame ==
  ASSUME NEW S, NEW kids \in Seq(S), NEW g, NEW h, \A x \in S : h[x] = g[x]
  PROVE  Some(kids, g) = Some(kids, h)
<1>1. \A i \in DOMAIN kids : g[kids[i]] = h[kids[i]]
  OBVIOUS
<1> QED
  BY <1>1 DEF Some

\* Unparsable has its defining equation.
LEMMA UnparsableRule == \A o \in Structure : Unparsable[o] = (Fatal(o) \/ Some(o.kids, Unparsable))
<1> DEFINE Rule(m, g) == g = [o \in Nested[m] |-> (Fatal(o) \/ Some(o.kids, g))]
<1> DEFINE S == { m \in 0 .. MaxDepth : \E g : Rule(m, g) }
<1>0. MaxDepth \in Nat
  BY StructuresAssumption
<1>1. 0 \in S
  <2> DEFINE g == [o \in {} |-> 0]
  <2>1. Rule(0, g)
    BY NestedRule
  <2> HIDE DEF g, Rule
  <2> QED
    BY <1>0, <2>1
<1>2. ASSUME NEW m \in 0 .. MaxDepth, m < MaxDepth, m \in S PROVE m + 1 \in S
  <2>1. PICK g : Rule(m, g)
    BY <1>2
  <2>2. \A o \in Nested[m] : g[o] = (Fatal(o) \/ Some(o.kids, g))
    BY <2>1
  <2> DEFINE h == [o \in Nested[m + 1] |-> (Fatal(o) \/ Some(o.kids, g))]
  <2>3. \A o \in Nested[m] : h[o] = g[o]
    <3>1. \A o \in Nested[m] : h[o] = (Fatal(o) \/ Some(o.kids, g))
      BY <1>2, NestedGrows
    <3> QED
      BY <2>2, <3>1
  <2>4. \A o \in Nested[m + 1] : (Fatal(o) \/ Some(o.kids, g)) = (Fatal(o) \/ Some(o.kids, h))
    <3> SUFFICES ASSUME NEW o \in Nested[m + 1] PROVE (Fatal(o) \/ Some(o.kids, g)) = (Fatal(o) \/ Some(o.kids, h))
      OBVIOUS
    <3>1. o.kids \in Seq(Nested[m])
      BY <1>2, NestedRule DEF Made
    <3> HIDE DEF h
    <3> QED
      BY <2>3, <3>1, SomeSame
  <2>5. Rule(m + 1, h)
    BY <2>4, Zenon
  <2> HIDE DEF h, Rule
  <2> QED
    BY <1>0, <1>2, <2>5
<1>3. MaxDepth \in S
  <2> HIDE DEF S
  <2> QED
    BY <1>0, <1>1, <1>2, Upwards
<1>4. \E g : Rule(MaxDepth, g)
  BY <1>3
<1>5. Unparsable = CHOOSE g : Rule(MaxDepth, g)
  BY DEF Unparsable, Structure, Fatal, Some
<1>6. Rule(MaxDepth, Unparsable)
  <2> HIDE DEF Rule
  <2> QED
    BY <1>4, <1>5
<1> QED
  BY <1>6 DEF Structure

(***************************************************************************)
(* Structures one after the other.                                         *)
(***************************************************************************)

\* f joins the first elements of ss, for every number of them.
Joins(f, ss) ==
    f = [i \in 1 .. Len(ss) |-> IF i = 1 THEN ss[i] ELSE f[i - 1] \o ss[i]]

\* The partial results of joining a sequence of sequences exist.
LEMMA JoinsExists ==
  ASSUME NEW T, NEW ss \in Seq(Seq(T)), ss # <<>>
  PROVE  \E f : Joins(f, ss) /\ f \in [1 .. Len(ss) -> Seq(T)]
<1> DEFINE L == Len(ss)
<1> DEFINE Rule(m, g) ==
      /\ g \in [1 .. m -> Seq(T)]
      /\ \A i \in 1 .. m : g[i] = IF i = 1 THEN ss[i] ELSE g[i - 1] \o ss[i]
<1> DEFINE S == { m \in 0 .. L : \E g : Rule(m, g) }
<1>0. L \in Nat /\ L # 0 /\ \A i \in 1 .. L : ss[i] \in Seq(T)
  OBVIOUS
<1> HIDE DEF L
<1>1. 0 \in S
  <2> DEFINE g == [i \in 1 .. 0 |-> <<>>]
  <2>1. Rule(0, g)
    OBVIOUS
  <2> HIDE DEF g, Rule
  <2> QED
    BY <1>0, <2>1
<1>2. ASSUME NEW m \in 0 .. L, m < L, m \in S PROVE m + 1 \in S
  <2>1. PICK g : Rule(m, g)
    BY <1>2
  <2>0. m + 1 \in 1 .. L /\ ss[m + 1] \in Seq(T)
    BY <1>0, <1>2
  <2> DEFINE e == IF m = 0 THEN ss[1] ELSE g[m] \o ss[m + 1]
  <2> DEFINE h == [i \in 1 .. m + 1 |-> IF i = m + 1 THEN e ELSE g[i]]
  <2>2. e \in Seq(T)
    <3>1. CASE m = 0
      BY <2>0, <3>1
    <3>2. CASE m # 0
      <4>1. g[m] \in Seq(T)
        BY <1>0, <2>1, <3>2
      <4> QED
        BY <2>0, <3>2, <4>1, ConcatProperties
    <3> QED
      BY <3>1, <3>2
  <2> HIDE DEF e
  <2>3. h \in [1 .. m + 1 -> Seq(T)]
    BY <1>0, <2>1, <2>2
  <2>4. ASSUME NEW i \in 1 .. m + 1
        PROVE  h[i] = IF i = 1 THEN ss[i] ELSE h[i - 1] \o ss[i]
    <3>1. CASE i = m + 1
      <4>1. h[i] = e /\ (i # 1 => h[i - 1] = g[m])
        BY <1>0, <3>1
      <4> QED
        BY <3>1, <4>1 DEF e
    <3>2. CASE i # m + 1
      <4>1. i \in 1 .. m /\ h[i] = g[i] /\ (i # 1 => h[i - 1] = g[i - 1])
        BY <1>0, <3>2
      <4>2. g[i] = IF i = 1 THEN ss[i] ELSE g[i - 1] \o ss[i]
        BY <2>1, <4>1
      <4> QED
        BY <4>1, <4>2
    <3> QED
      BY <3>1, <3>2
  <2>5. Rule(m + 1, h)
    <3> HIDE DEF h
    <3> QED
      BY <2>3, <2>4
  <2> HIDE DEF h, Rule
  <2> QED
    BY <1>0, <1>2, <2>5
<1>3. L \in S
  <2> HIDE DEF S
  <2>1. 0 .. L \subseteq S
    BY <1>0, <1>1, <1>2, Upwards
  <2> QED
    BY <1>0, <2>1
<1>4. PICK g : Rule(L, g)
  BY <1>3
<1>5. g = [i \in 1 .. L |-> IF i = 1 THEN ss[i] ELSE g[i - 1] \o ss[i]]
  BY <1>4
<1> QED
  BY <1>4, <1>5 DEF L, Joins

\* tt begins with ss.
Begins(ss, tt) ==
    /\ Len(ss) \in Nat /\ Len(tt) \in Nat /\ Len(ss) <= Len(tt)
    /\ \A i \in 1 .. Len(ss) : tt[i] = ss[i]

\* There is one way to join, also what is the beginning of something longer.
LEMMA JoinsSame ==
  ASSUME NEW ss, NEW tt, NEW f, NEW g, Joins(f, ss), Joins(g, tt),
         Begins(ss, tt)
  PROVE  \A i \in 1 .. Len(ss) : g[i] = f[i]
<1> DEFINE S == { n \in 0 .. Len(ss) : n # 0 => g[n] = f[n] }
<1>0. /\ Len(ss) \in Nat /\ Len(tt) \in Nat /\ Len(ss) <= Len(tt)
      /\ \A i \in 1 .. Len(ss) : tt[i] = ss[i]
  BY DEF Begins
<1>1. 0 \in S
  BY <1>0
<1>2. /\ \A i \in 1 .. Len(ss) : f[i] = IF i = 1 THEN ss[i] ELSE f[i - 1] \o ss[i]
      /\ \A i \in 1 .. Len(tt) : g[i] = IF i = 1 THEN tt[i] ELSE g[i - 1] \o tt[i]
  BY DEF Joins
<1>3. ASSUME NEW n \in 0 .. Len(ss), n < Len(ss), n \in S PROVE n + 1 \in S
  <2>1. n + 1 \in 1 .. Len(ss) /\ n + 1 \in 1 .. Len(tt) /\ n + 1 - 1 = n
    BY <1>0, <1>3
  <2>2. g[n + 1] = f[n + 1]
    <3>1. CASE n = 0
      BY <1>0, <1>2, <2>1, <3>1
    <3>2. CASE n # 0
      BY <1>0, <1>2, <1>3, <2>1, <3>2
    <3> QED
      BY <3>1, <3>2
  <2> QED
    BY <2>1, <2>2
<1> HIDE DEF S
<1>4. 0 .. Len(ss) \subseteq S
  BY <1>0, <1>1, <1>3, Upwards
<1> QED
  BY <1>4 DEF S

\* FlattenSeq is the last of these partial results.
LEMMA FlattenForm ==
  ASSUME NEW ss, ss # <<>>, Len(ss) \in Nat, Len(ss) # 0, \E f : Joins(f, ss)
  PROVE  \E f : Joins(f, ss) /\ FlattenSeq(ss) = f[Len(ss)]
<1> DEFINE F == CHOOSE f : Joins(f, ss)
<1>1. Joins(F, ss)
  OBVIOUS
<1>2. FlattenSeq(ss) = F[Len(ss)]
  BY DEF FlattenSeq, Joins
<1> QED
  BY <1>1, <1>2

\* FlattenSeq, from the front to the back.
LEMMA Flattens ==
  ASSUME NEW T
  PROVE  /\ FlattenSeq(<<>>) = <<>>
         /\ \A ss \in Seq(Seq(T)) : FlattenSeq(ss) \in Seq(T)
         /\ \A ss \in Seq(Seq(T)), e \in Seq(T) :
               FlattenSeq(Append(ss, e)) = FlattenSeq(ss) \o e
<1>1. FlattenSeq(<<>>) = <<>>
  BY DEF FlattenSeq
<1>2. ASSUME NEW ss \in Seq(Seq(T)), ss # <<>>
      PROVE  \E f : /\ Joins(f, ss) /\ f \in [1 .. Len(ss) -> Seq(T)]
                    /\ Len(ss) \in 1 .. Len(ss) /\ FlattenSeq(ss) = f[Len(ss)]
  <2>1. PICK f : Joins(f, ss) /\ f \in [1 .. Len(ss) -> Seq(T)]
    BY <1>2, JoinsExists
  <2>2. Len(ss) \in Nat /\ Len(ss) # 0 /\ Len(ss) \in 1 .. Len(ss)
    BY <1>2, EmptySeq
  <2>3. PICK g : Joins(g, ss) /\ FlattenSeq(ss) = g[Len(ss)]
    BY <1>2, <2>1, <2>2, FlattenForm
  <2>4. g[Len(ss)] = f[Len(ss)]
    <3>1. Begins(ss, ss)
      BY <2>2 DEF Begins
    <3>2. \A i \in 1 .. Len(ss) : g[i] = f[i]
      BY <2>1, <2>3, <3>1, JoinsSame
    <3> QED
      BY <2>2, <3>2
  <2> QED
    BY <2>1, <2>2, <2>3, <2>4
<1>3. ASSUME NEW ss \in Seq(Seq(T)) PROVE FlattenSeq(ss) \in Seq(T)
  <2>1. CASE ss = <<>>
    <3>1. <<>> \in Seq(T)
      BY EmptySeq
    <3> QED
      BY <1>1, <2>1, <3>1
  <2>2. CASE ss # <<>>
    BY <1>2, <2>2
  <2> QED
    BY <2>1, <2>2
<1>4. ASSUME NEW ss \in Seq(Seq(T)), NEW e \in Seq(T)
      PROVE  FlattenSeq(Append(ss, e)) = FlattenSeq(ss) \o e
  <2> DEFINE tt == Append(ss, e)
  <2>0. /\ tt \in Seq(Seq(T)) /\ tt # <<>> /\ Len(tt) = Len(ss) + 1 /\ Len(ss) \in Nat
        /\ tt[Len(ss) + 1] = e /\ \A i \in 1 .. Len(ss) : tt[i] = ss[i]
    BY AppendProperties, LenProperties
  <2> HIDE DEF tt
  <2>1. PICK g : Joins(g, tt) /\ FlattenSeq(tt) = g[Len(tt)]
    BY <1>2, <2>0
  <2>2. g[Len(tt)] = IF Len(tt) = 1 THEN e ELSE g[Len(ss)] \o e
    <3>1. Len(tt) \in 1 .. Len(tt) /\ Len(tt) - 1 = Len(ss) /\ tt[Len(tt)] = e
      BY <2>0
    <3> QED
      BY <2>0, <2>1, <3>1 DEF Joins
  <2>3. CASE ss = <<>>
    <3>1. Len(tt) = 1 /\ FlattenSeq(tt) = e
      BY <2>0, <2>1, <2>2, <2>3, EmptySeq
    <3>2. FlattenSeq(ss) \o e = e
      BY <1>1, <2>3, ConcatEmptySeq
    <3> QED
      BY <3>1, <3>2 DEF tt
  <2>4. CASE ss # <<>>
    <3>1. PICK f : /\ Joins(f, ss) /\ Len(ss) \in 1 .. Len(ss)
                   /\ FlattenSeq(ss) = f[Len(ss)]
      BY <1>2, <2>4
    <3>2. g[Len(ss)] = f[Len(ss)]
      <4>1. Begins(ss, tt)
        BY <2>0 DEF Begins
      <4>2. \A i \in 1 .. Len(ss) : g[i] = f[i]
        BY <2>1, <3>1, <4>1, JoinsSame
      <4> QED
        BY <3>1, <4>2
    <3>3. Len(tt) # 1
      BY <2>0, <3>1
    <3> QED
      BY <2>1, <2>2, <3>1, <3>2, <3>3 DEF tt
  <2> QED
    BY <2>3, <2>4
<1> QED
  BY <1>1, <1>3, <1>4

\* A function on 1 .. n is a sequence.
LEMMA FunSeq ==
  ASSUME NEW T, NEW n \in Nat, NEW f \in [1 .. n -> T]
  PROVE  f \in Seq(T) /\ Len(f) = n /\ DOMAIN f = 1 .. n
<1>1. f \in Seq(T)
  BY SeqDef
<1> QED
  BY <1>1, LenProperties

\* One sequence more.
LEMMA FlattenNext ==
  ASSUME NEW T, NEW n \in Nat, NEW f, \A i \in 1 .. n + 1 : f[i] \in Seq(T)
  PROVE  /\ FlattenSeq([i \in 1 .. n |-> f[i]]) \in Seq(T)
         /\ FlattenSeq([i \in 1 .. n + 1 |-> f[i]])
              = FlattenSeq([i \in 1 .. n |-> f[i]]) \o f[n + 1]
<1> DEFINE g == [i \in 1 .. n |-> f[i]]
<1> DEFINE h == [i \in 1 .. n + 1 |-> f[i]]
<1>1. /\ g \in Seq(Seq(T)) /\ Len(g) = n /\ \A i \in 1 .. n : g[i] = f[i]
      /\ h \in Seq(Seq(T)) /\ Len(h) = n + 1 /\ \A i \in 1 .. n + 1 : h[i] = f[i]
  <2>1. g \in [1 .. n -> Seq(T)] /\ h \in [1 .. n + 1 -> Seq(T)]
    OBVIOUS
  <2> HIDE DEF g, h
  <2>2. n + 1 \in Nat
    OBVIOUS
  <2>3. g \in Seq(Seq(T)) /\ Len(g) = n
    BY <2>1, FunSeq
  <2>4. h \in Seq(Seq(T)) /\ Len(h) = n + 1
    BY <2>1, <2>2, FunSeq
  <2> QED
    BY <2>3, <2>4 DEF g, h
<1>2. f[n + 1] \in Seq(T)
  OBVIOUS
<1> HIDE DEF g, h
<1>3. h = Append(g, f[n + 1])
  <2>1. /\ Append(g, f[n + 1]) \in Seq(Seq(T)) /\ Len(Append(g, f[n + 1])) = n + 1
        /\ \A i \in 1 .. n : Append(g, f[n + 1])[i] = g[i]
        /\ Append(g, f[n + 1])[n + 1] = f[n + 1]
    BY <1>1, <1>2, AppendProperties
  <2>2. \A i \in 1 .. n + 1 : h[i] = Append(g, f[n + 1])[i]
    BY <1>1, <2>1
  <2>3. Len(h) = Len(Append(g, f[n + 1])) /\ \A i \in 1 .. Len(h) : h[i] = Append(g, f[n + 1])[i]
    BY <1>1, <2>1, <2>2
  <2> QED
    BY <1>1, <2>1, <2>3, SeqEqual
<1>4. FlattenSeq(g) \in Seq(T) /\ FlattenSeq(h) = FlattenSeq(g) \o f[n + 1]
  BY <1>1, <1>2, <1>3, Flattens
<1> QED
  BY <1>4 DEF g, h

(***************************************************************************)
(* Bytes.                                                                  *)
(***************************************************************************)

\* Sequences of numbers; what a byte holds is left aside here.
Octets == Seq(Nat)

\* Length and concatenation as operators of their own, of which the provers
\* know what the lemmas below say and no more.
Size(s) == Len(s)
Then(s, t) == s \o t

\* The bytes of two sequences, one behind the other.
LEMMA Joined ==
  ASSUME NEW s \in Octets, NEW t \in Octets
  PROVE  /\ Then(s, t) \in Octets /\ Size(Then(s, t)) = Size(s) + Size(t)
         /\ Size(s) \in Nat /\ Size(t) \in Nat
         /\ \A i \in 1 .. Size(s) + Size(t) :
               Then(s, t)[i] = IF i <= Size(s) THEN s[i] ELSE t[i - Size(s)]
BY ConcatProperties, LenProperties DEF Octets, Size, Then

\* The length and the elements of a sequence of bytes.
LEMMA Sized1 ==
  ASSUME NEW s \in Octets
  PROVE  Size(s) \in Nat /\ DOMAIN s = 1 .. Size(s) /\ \A i \in 1 .. Size(s) : s[i] \in Nat
BY LenProperties, ElementOfSeq DEF Octets, Size

\* Nothing is a sequence of bytes, of length 0.
LEMMA NoOctets == <<>> \in Octets /\ Size(<<>>) = 0
BY EmptySeq DEF Octets, Size

\* Nothing before or behind changes nothing.
LEMMA ThenNothing ==
  ASSUME NEW s \in Octets
  PROVE  Then(s, <<>>) = s /\ Then(<<>>, s) = s
BY ConcatEmptySeq DEF Octets, Then

\* Joining is associative.
LEMMA ThenThen ==
  ASSUME NEW s \in Octets, NEW t \in Octets, NEW u \in Octets
  PROVE  Then(Then(s, t), u) = Then(s, Then(t, u))
BY ConcatAssociative DEF Octets, Then

\* The bytes s are in the buffer at an offset.
Lies(s, b, at) ==
    /\ at + Size(s) <= Size(b)
    /\ \A i \in 1 .. Size(s) : b[at + i] = s[i]

\* Sequences one after the other lie one after the other.
LEMMA LiesThen ==
  ASSUME NEW s \in Octets, NEW t \in Octets, NEW b \in Octets, NEW at \in Nat,
         Lies(Then(s, t), b, at)
  PROVE  Lies(s, b, at) /\ Lies(t, b, at + Size(s))
<1>1. Size(s) \in Nat /\ Size(t) \in Nat /\ Size(b) \in Nat
  BY Sized1
<1>2. /\ at + (Size(s) + Size(t)) <= Size(b)
      /\ \A i \in 1 .. Size(s) + Size(t) :
            b[at + i] = IF i <= Size(s) THEN s[i] ELSE t[i - Size(s)]
  BY Joined DEF Lies
<1>3. ASSUME NEW i \in 1 .. Size(s) PROVE b[at + i] = s[i]
  <2>1. i \in 1 .. Size(s) + Size(t) /\ i <= Size(s)
    BY <1>1
  <2> QED
    BY <1>2, <2>1
<1>4. ASSUME NEW i \in 1 .. Size(t) PROVE b[at + Size(s) + i] = t[i]
  <2>1. PICK k \in 1 .. Size(s) + Size(t) :
           ~(k <= Size(s)) /\ k - Size(s) = i /\ at + k = at + Size(s) + i
    <3>1. i + Size(s) \in 1 .. Size(s) + Size(t)
      BY <1>1
    <3> QED
      BY <1>1, <3>1
  <2>2. b[at + k] = t[k - Size(s)]
    BY <1>2, <2>1
  <2> QED
    BY <2>1, <2>2
<1>5. at + Size(s) <= Size(b) /\ at + Size(s) + Size(t) <= Size(b)
  BY <1>1, <1>2
<1> QED
  BY <1>3, <1>4, <1>5 DEF Lies

\* A buffer lies in itself.
LEMMA LiesSelf == \A b \in Octets : Lies(b, b, 0)
  BY Sized1 DEF Lies

\* Two bytes are a number below 2^16 on the wire; the model reads them back
\* whatever the number.
LEMMA Halves ==
  ASSUME NEW n \in Nat
  PROVE  /\ U16(n) \in Octets /\ Size(U16(n)) = 2
         /\ U16(n)[1] = n \div 256 /\ U16(n)[2] = n % 256
         /\ n \div 256 \in Nat /\ n % 256 \in Nat /\ 256 * (n \div 256) + (n % 256) = n
<1>1. n \div 256 \in Nat /\ n % 256 \in Nat /\ 256 * (n \div 256) + (n % 256) = n
  OBVIOUS
<1> QED
  BY <1>1 DEF U16, Octets, Size

\* Two numbers as a sequence of bytes.
LEMMA TwoBytes ==
  ASSUME NEW m \in Nat, NEW n \in Nat
  PROVE  /\ <<m, n>> \in Octets /\ Size(<<m, n>>) = 2
         /\ <<m, n>>[1] = m /\ <<m, n>>[2] = n
BY DEF Octets, Size

\* A number that lies somewhere is what Word reads there.
LEMMA LiesWord ==
  ASSUME NEW n \in Nat, NEW b \in Octets, NEW at \in Nat, Lies(U16(n), b, at)
  PROVE  Word(b, at) = n /\ at + 2 <= Size(b)
<1>0. Size(U16(n)) = 2 /\ 1 \in 1 .. 2 /\ 2 \in 1 .. 2
  BY Halves
<1>1. b[at + 1] = U16(n)[1] /\ b[at + 2] = U16(n)[2] /\ at + 2 <= Size(b)
  BY <1>0 DEF Lies
<1>2. U16(n)[1] = n \div 256 /\ U16(n)[2] = n % 256 /\ 256 * (n \div 256) + (n % 256) = n
  BY Halves
<1> QED
  BY <1>1, <1>2 DEF Word

\* What is read where a sequence lies, as long as it is.
LEMMA LiesAt ==
  ASSUME NEW s \in Octets, NEW b \in Octets, NEW at \in Nat, Lies(s, b, at)
  PROVE  At(b, at, Size(s)) = s
<1>0. Len(s) \in Nat /\ Len(b) \in Nat
  BY LenProperties DEF Octets
<1>5. /\ at + Len(s) <= Len(b)
       /\ \A i \in 1 .. Len(s) : b[at + i] = s[i]
  BY DEF Lies, Size
<1>1. At(b, at, Len(s)) = SubSeq(b, at + 1, at + Len(s))
  <2>1. at + Len(s) <= Len(b)
    BY <1>5
  <2>2. CASE at + Len(s) < Len(b)
    BY <2>2 DEF At, Slice
  <2>3. CASE ~(at + Len(s) < Len(b))
    <3>1. at + Len(s) = Len(b)
      BY <1>0, <2>1, <2>3
    <3> QED
      BY <2>3, <3>1 DEF At, Slice
  <2> QED
    BY <2>2, <2>3
<1> DEFINE t == SubSeq(b, at + 1, at + Len(s))
<1>2. /\ t \in Octets /\ Len(t) = Len(s)
      /\ \A i \in 1 .. Len(s) : t[i] = b[at + i]
  <2>1. \A i \in at + 1 .. at + Len(s) : b[i] \in Nat
    <3>1. \A i \in 1 .. Len(b) : b[i] \in Nat
      BY ElementOfSeq DEF Octets
    <3> QED
      BY <1>0, <1>5, <3>1
  <2>2. /\ t \in Seq(Nat)
        /\ Len(t) = IF at + 1 <= at + Len(s) THEN at + Len(s) - (at + 1) + 1 ELSE 0
        /\ \A i \in 1 .. at + Len(s) - (at + 1) + 1 : t[i] = b[at + 1 + i - 1]
    <3> HIDE DEF t
    <3>1. at + 1 \in Int /\ at + Len(s) \in Int
      BY <1>0
    <3> QED
      BY <2>1, <3>1, SubSeqProperties DEF t
  <2>3. at + Len(s) - (at + 1) + 1 = Len(s) /\ \A i \in 1 .. Len(s) : at + 1 + i - 1 = at + i
    BY <1>0
  <2> HIDE DEF t
  <2> QED
    BY <1>0, <2>2, <2>3 DEF Octets
<1>3. \A i \in 1 .. Len(s) : t[i] = s[i]
  BY <1>5, <1>2
<1> HIDE DEF t
<1>4. t = s
  BY <1>2, <1>3, SeqEqual DEF Octets
<1> QED
  BY <1>1, <1>4 DEF t, Size

\* Zeros.
LEMMA ZerosForm ==
  ASSUME NEW n \in Nat
  PROVE  Zeros(n) \in Octets /\ Size(Zeros(n)) = n
<1>1. Zeros(n) \in [1 .. n -> Nat]
  BY DEF Zeros
<1> QED
  BY <1>1, FunSeq DEF Octets, Size

\* Rounding up to eight.
LEMMA RoundUp ==
  ASSUME NEW n \in Nat
  PROVE  /\ round_up(n, 8) \in Nat /\ round_up(n, 8) % 8 = 0
         /\ n <= round_up(n, 8) /\ round_up(n, 8) < n + 8
         /\ n % 8 = 0 => round_up(n, 8) = n
<1>1. round_up(n, 8) = ((n + 7) \div 8) * 8
  BY DEF round_up
<1> QED
  BY <1>1

(***************************************************************************)
(* Match fields.                                                           *)
(***************************************************************************)

\* The name of a field, from its class, number and experimenter.
FieldName(class, num, exp) ==
    CASE class = BASIC ->
           (CASE num = 0 -> "in_port" [] num = 3 -> "eth_dst" [] num = 5 -> "eth_type"
              [] num = 10 -> "ip_proto" [] num = 26 -> "ipv6_src"
              [] num = 46 -> "field_4194350")
      [] class = NXM_1 -> "ct_mark"
      [] class = EXPERIMENTER ->
           (CASE exp = NSH -> "nsh_spi"
              [] exp = ONF -> (CASE num = 0 -> "pbb_uca" [] num = 42 -> "tcp_flags"
                                 [] num = 43 -> "actset_output"))

\* Experimenter ids have four bytes.
LEMMA ExpIds ==
  /\ NoExp \in Octets /\ ONF \in Octets /\ NSH \in Octets
  /\ Size(NoExp) = 0 /\ Size(ONF) = 4 /\ Size(NSH) = 4 /\ ONF # NSH
  /\ ONF # NoExp /\ NSH # NoExp
  BY DEF NoExp, ONF, NSH, Octets, Size

\* The field table, row by row.
LEMMA FieldTable ==
  /\ Names = {"in_port", "eth_dst", "eth_type", "ip_proto", "ipv6_src", "pbb_uca",
              "tcp_flags", "actset_output", "ct_mark", "nsh_spi", "field_4194350"}
  /\ Fields["in_port"] = Field(BASIC, 0, NoExp, 4)
  /\ Fields["eth_dst"] = Field(BASIC, 3, NoExp, 6)
  /\ Fields["eth_type"] = Field(BASIC, 5, NoExp, 2)
  /\ Fields["ip_proto"] = Field(BASIC, 10, NoExp, 1)
  /\ Fields["ipv6_src"] = Field(BASIC, 26, NoExp, 16)
  /\ Fields["pbb_uca"] = Field(EXPERIMENTER, 0, ONF, 1)
  /\ Fields["tcp_flags"] = Field(EXPERIMENTER, 42, ONF, 2)
  /\ Fields["actset_output"] = Field(EXPERIMENTER, 43, ONF, 4)
  /\ Fields["ct_mark"] = Field(NXM_1, 107, NoExp, 4)
  /\ Fields["nsh_spi"] = Field(EXPERIMENTER, 4, NSH, 4)
  /\ Fields["field_4194350"] = Field(BASIC, 46, NoExp, 0)
<1>1. DOMAIN BasicFields = {"in_port", "eth_dst", "eth_type", "ip_proto", "ipv6_src"}
  BY DEF BasicFields
<1>2. DOMAIN ExpFields = {"pbb_uca", "tcp_flags", "actset_output"}
  BY DEF ExpFields
<1>3. DOMAIN NxFields = {"ct_mark", "nsh_spi"} /\ DOMAIN OtherFields = {"field_4194350"}
  BY DEF NxFields, OtherFields
<1> DEFINE A == Tables(BasicFields, ExpFields)
<1> DEFINE B == Tables(NxFields, OtherFields)
<1>4. /\ DOMAIN A = {"in_port", "eth_dst", "eth_type", "ip_proto", "ipv6_src",
                     "pbb_uca", "tcp_flags", "actset_output"}
      /\ \A n \in DOMAIN A :
            A[n] = IF n \in DOMAIN BasicFields THEN BasicFields[n] ELSE ExpFields[n]
  BY <1>1, <1>2 DEF Tables
<1>5. /\ DOMAIN B = {"ct_mark", "nsh_spi", "field_4194350"}
      /\ \A n \in DOMAIN B :
            B[n] = IF n \in DOMAIN NxFields THEN NxFields[n] ELSE OtherFields[n]
  BY <1>3 DEF Tables
<1>6. Fields = Tables(A, B)
  BY DEF Fields
<1> HIDE DEF A, B
<1>7. /\ Names = DOMAIN A \cup DOMAIN B
      /\ \A n \in DOMAIN A : Fields[n] = A[n]
      /\ \A n \in DOMAIN B : n \notin DOMAIN A => Fields[n] = B[n]
  BY <1>6 DEF Tables, Names
<1>8. \A n \in DOMAIN BasicFields : Fields[n] = BasicFields[n]
  BY <1>1, <1>4, <1>7
<1>9. \A n \in DOMAIN ExpFields : Fields[n] = ExpFields[n]
  BY <1>1, <1>2, <1>4, <1>7
<1>10. \A n \in DOMAIN NxFields : Fields[n] = NxFields[n]
  BY <1>3, <1>4, <1>5, <1>7
<1>11. Fields["field_4194350"] = OtherFields["field_4194350"]
  BY <1>3, <1>4, <1>5, <1>7
<1>12. /\ Fields["in_port"] = BasicFields["in_port"]
       /\ Fields["eth_dst"] = BasicFields["eth_dst"]
       /\ Fields["eth_type"] = BasicFields["eth_type"]
       /\ Fields["ip_proto"] = BasicFields["ip_proto"]
       /\ Fields["ipv6_src"] = BasicFields["ipv6_src"]
  BY <1>1, <1>8
<1>13. /\ Fields["pbb_uca"] = ExpFields["pbb_uca"]
       /\ Fields["tcp_flags"] = ExpFields["tcp_flags"]
       /\ Fields["actset_output"] = ExpFields["actset_output"]
       /\ Fields["ct_mark"] = NxFields["ct_mark"]
       /\ Fields["nsh_spi"] = NxFields["nsh_spi"]
  BY <1>2, <1>3, <1>9, <1>10
<1>14. Names = {"in_port", "eth_dst", "eth_type", "ip_proto", "ipv6_src", "pbb_uca",
                "tcp_flags", "actset_output", "ct_mark", "nsh_spi", "field_4194350"}
  BY <1>4, <1>5, <1>7
<1> QED
  BY <1>11, <1>12, <1>13, <1>14 DEF BasicFields, ExpFields, NxFields, OtherFields

\* No two fields have one header, and experimenter ids are of the class of
\* experimenters.
LEMMA FieldHeaders ==
  \A n \in Names :
      /\ FieldName(Fields[n].class, Fields[n].num, Fields[n].exp) = n
      /\ Fields[n] = Field(Fields[n].class, Fields[n].num, Fields[n].exp, Fields[n].size)
      /\ Fields[n].class \in Nat /\ Fields[n].num \in Nat /\ Fields[n].size \in Nat
      /\ Fields[n].exp \in {NoExp, ONF, NSH}
      /\ Fields[n].class = EXPERIMENTER <=> Fields[n].exp # NoExp
<1> SUFFICES ASSUME NEW n \in Names
             PROVE  /\ FieldName(Fields[n].class, Fields[n].num, Fields[n].exp) = n
                    /\ Fields[n] = Field(Fields[n].class, Fields[n].num, Fields[n].exp, Fields[n].size)
                    /\ Fields[n].class \in Nat /\ Fields[n].num \in Nat /\ Fields[n].size \in Nat
                    /\ Fields[n].exp \in {NoExp, ONF, NSH}
                    /\ Fields[n].class = EXPERIMENTER <=> Fields[n].exp # NoExp
  OBVIOUS
<1>0. \/ n \in {"in_port", "eth_dst", "eth_type", "ip_proto", "ipv6_src", "field_4194350"}
      \/ n \in {"pbb_uca", "tcp_flags", "actset_output"}
      \/ n \in {"ct_mark", "nsh_spi"}
  BY FieldTable
<1>1. CASE n \in {"in_port", "eth_dst", "eth_type", "ip_proto", "ipv6_src", "field_4194350"}
  BY <1>1, FieldTable, ExpIds DEF Field, FieldName, BASIC, NXM_1, EXPERIMENTER
<1>2. CASE n \in {"pbb_uca", "tcp_flags", "actset_output"}
  BY <1>2, FieldTable, ExpIds DEF Field, FieldName, BASIC, NXM_1, EXPERIMENTER
<1>3. CASE n \in {"ct_mark", "nsh_spi"}
  BY <1>3, FieldTable, ExpIds DEF Field, FieldName, BASIC, NXM_1, EXPERIMENTER
<1> QED
  BY <1>0, <1>1, <1>2, <1>3, Zenon

\* What exp_header returns.
LEMMA ExpHeader ==
  ASSUME NEW n \in Names
  PROVE  /\ exp_header(Fields[n]) \in Octets
         /\ Fields[n].exp = NoExp => exp_header(Fields[n]) = <<>>
         /\ Fields[n].exp # NoExp =>
              \/ exp_header(Fields[n]) = Fields[n].exp
              \/ exp_header(Fields[n]) = Then(Fields[n].exp, U16(EXT256))
<1>1. <<>> \in Octets /\ Fields[n].exp \in Octets
  BY FieldHeaders, ExpIds, NoOctets
<1>2. Then(Fields[n].exp, U16(EXT256)) \in Octets
  <2>1. EXT256 \in Nat
    BY DEF EXT256
  <2> QED
    BY <1>1, <2>1, Halves, Joined
<1> QED
  BY <1>1, <1>2 DEF exp_header, Then

\* A TLV as the library builds it.
OxmForm(o) ==
    /\ o = Node(o.kind, o.type, o.body, <<>>)
    /\ o.kind \in {"oxm", "oxm_w"} /\ o.body \in Octets /\ OxmFits(o)

\* Its bytes: the class, number and length, and the payload.
Payload(o) == Then(exp_header(Fields[o.type]), o.body)
Second(o) ==
    <<2 * Fields[o.type].num + (IF o.kind = "oxm_w" THEN 1 ELSE 0), Size(Payload(o))>>

\* The parts of an OXM TLV as oxm_serialize writes them, with their lengths.
LEMMA OxmParts ==
  ASSUME NEW o, OxmForm(o)
  PROVE  /\ oxm_serialize(o) = Then(Then(U16(Fields[o.type].class), Second(o)), Payload(o))
         /\ o.type \in Names /\ o.body \in Octets
         /\ exp_header(Fields[o.type]) \in Octets /\ Payload(o) \in Octets
         /\ Size(Payload(o)) \in Nat
         /\ Size(Payload(o)) = Size(exp_header(Fields[o.type])) + Size(o.body)
         /\ Second(o) \in Octets /\ Size(Second(o)) = 2
         /\ Second(o)[1] = 2 * Fields[o.type].num + (IF o.kind = "oxm_w" THEN 1 ELSE 0)
         /\ Second(o)[2] = Size(Payload(o))
         /\ Fields[o.type].class \in Nat
         /\ Then(U16(Fields[o.type].class), Second(o)) \in Octets
         /\ Size(Then(U16(Fields[o.type].class), Second(o))) = 4
<1>1. o.type \in Names /\ o.body \in Octets
  BY DEF OxmForm, OxmFits
<1>2. /\ exp_header(Fields[o.type]) \in Octets /\ Payload(o) \in Octets
      /\ Size(Payload(o)) \in Nat
      /\ Size(Payload(o)) = Size(exp_header(Fields[o.type])) + Size(o.body)
  BY <1>1, ExpHeader, Joined, Sized1 DEF Payload
<1>3. /\ Fields[o.type].class \in Nat
      /\ 2 * Fields[o.type].num + (IF o.kind = "oxm_w" THEN 1 ELSE 0) \in Nat
  BY <1>1, FieldHeaders
<1>4. /\ Second(o) \in Octets /\ Size(Second(o)) = 2
      /\ Second(o)[1] = 2 * Fields[o.type].num + (IF o.kind = "oxm_w" THEN 1 ELSE 0)
      /\ Second(o)[2] = Size(Payload(o))
  BY <1>2, <1>3, TwoBytes DEF Second
<1>5. U16(Fields[o.type].class) \in Octets /\ Size(U16(Fields[o.type].class)) = 2
  BY <1>3, Halves
<1>6. /\ Then(U16(Fields[o.type].class), Second(o)) \in Octets
      /\ Size(Then(U16(Fields[o.type].class), Second(o))) = 4
  BY <1>4, <1>5, Joined
<1>7. oxm_serialize(o) = Then(Then(U16(Fields[o.type].class), Second(o)), Payload(o))
  BY DEF oxm_serialize, Then, Size, Second, Payload
<1> QED
  BY <1>1, <1>2, <1>3, <1>4, <1>6, <1>7

\* How long an OXM TLV is.
LEMMA OxmBytes ==
  ASSUME NEW o, OxmForm(o)
  PROVE  /\ oxm_serialize(o) \in Octets
         /\ Size(oxm_serialize(o)) = 4 + Size(exp_header(Fields[o.type])) + Size(o.body)
<1>1. /\ oxm_serialize(o) \in Octets
      /\ Size(oxm_serialize(o)) = 4 + Size(Payload(o))
  BY OxmParts, Joined
<1>2. Size(exp_header(Fields[o.type])) \in Nat /\ Size(o.body) \in Nat
  BY OxmParts, Sized1
<1> QED
  BY <1>1, <1>2, OxmParts

\* The header of a TLV that lies in a buffer, and its payload.
LEMMA OxmHeader ==
  ASSUME NEW o, OxmForm(o), NEW b \in Octets, NEW at \in Nat, Lies(oxm_serialize(o), b, at)
  PROVE  /\ Word(b, at) = Fields[o.type].class
         /\ b[at + 3] = 2 * Fields[o.type].num + (IF o.kind = "oxm_w" THEN 1 ELSE 0)
         /\ b[at + 4] = Size(Payload(o))
         /\ Lies(exp_header(Fields[o.type]), b, at + 4)
         /\ Lies(o.body, b, at + 4 + Size(exp_header(Fields[o.type])))
<1>1. /\ Lies(Then(U16(Fields[o.type].class), Second(o)), b, at)
      /\ Lies(Payload(o), b, at + 4)
  BY OxmParts, LiesThen
<1>2. U16(Fields[o.type].class) \in Octets /\ Size(U16(Fields[o.type].class)) = 2
  BY OxmParts, Halves
<1>3. Lies(U16(Fields[o.type].class), b, at) /\ Lies(Second(o), b, at + 2)
  BY <1>1, <1>2, OxmParts, LiesThen
<1>4. Word(b, at) = Fields[o.type].class
  BY <1>3, OxmParts, LiesWord
<1>5. b[at + 3] = Second(o)[1] /\ b[at + 4] = Second(o)[2]
  <2>1. Size(Second(o)) = 2 /\ 1 \in 1 .. 2 /\ 2 \in 1 .. 2
    BY OxmParts
  <2>2. b[at + 2 + 1] = Second(o)[1] /\ b[at + 2 + 2] = Second(o)[2]
    BY <1>3, <2>1 DEF Lies
  <2>3. at + 2 + 1 = at + 3 /\ at + 2 + 2 = at + 4
    OBVIOUS
  <2> QED
    BY <2>2, <2>3
<1>6. /\ Lies(exp_header(Fields[o.type]), b, at + 4)
      /\ Lies(o.body, b, at + 4 + Size(exp_header(Fields[o.type])))
  <2>1. at + 4 \in Nat
    OBVIOUS
  <2> QED
    BY <1>1, <2>1, OxmParts, LiesThen DEF Payload
<1> QED
  BY <1>4, <1>5, <1>6, OxmParts

\* A class, a number and an experimenter name one field.
LEMMA FieldNamed ==
  ASSUME NEW name \in Names, NEW b, NEW at, Word(b, at) = Fields[name].class,
         b[at + 3] \div 2 = Fields[name].num,
         (IF Word(b, at) = EXPERIMENTER THEN At(b, at + 4, 4) ELSE NoExp) = Fields[name].exp
  PROVE  FieldAt(b, at) = name
<1> DEFINE f == Fields[name]
<1> DEFINE exp == IF Word(b, at) = EXPERIMENTER THEN At(b, at + 4, 4) ELSE NoExp
<1> DEFINE Named(n) == Fields[n] =
            [Fields[n] EXCEPT !.class = Word(b, at),
                              !.num = b[at + 3] \div 2, !.exp = exp]
<1>1. ASSUME NEW n \in Names PROVE Named(n) <=> n = name
  <2>1. Named(n) <=> Fields[n].class = f.class /\ Fields[n].num = f.num /\ Fields[n].exp = f.exp
    <3>1. Named(n) <=> Fields[n] = [Fields[n] EXCEPT !.class = f.class, !.num = f.num, !.exp = f.exp]
      OBVIOUS
    <3>2. Fields[n] = Field(Fields[n].class, Fields[n].num, Fields[n].exp, Fields[n].size)
      BY FieldHeaders
    <3> HIDE DEF f, Named
    <3> QED
      BY <3>1, <3>2 DEF Field
  <2>2. CASE n = name
    BY <2>1, <2>2
  <2>3. CASE n # name
    <3>1. /\ FieldName(Fields[n].class, Fields[n].num, Fields[n].exp) = n
          /\ FieldName(f.class, f.num, f.exp) = name
      BY FieldHeaders
    <3> QED
      BY <2>1, <2>3, <3>1, Zenon
  <2> QED
    BY <2>2, <2>3
<1>2. FieldAt(b, at) = IF \E n \in Names : Named(n) THEN CHOOSE n \in Names : Named(n) ELSE "unknown"
  BY DEF FieldAt
<1> HIDE DEF Named
<1>3. (CHOOSE n \in Names : Named(n)) = name
  BY <1>1
<1> QED
  BY <1>1, <1>2, <1>3

\* The field is found by its header.
LEMMA FieldFound ==
  ASSUME NEW o, OxmForm(o), NEW b \in Octets, NEW at \in Nat, Lies(oxm_serialize(o), b, at)
  PROVE  FieldAt(b, at) = o.type
<1> DEFINE f == Fields[o.type]
<1> DEFINE exp == IF Word(b, at) = EXPERIMENTER THEN At(b, at + 4, 4) ELSE NoExp
<1>1. o.type \in Names
  BY DEF OxmForm, OxmFits
<1>2. Word(b, at) = f.class /\ Lies(exp_header(f), b, at + 4)
  BY OxmHeader
<1>3. b[at + 3] \div 2 = f.num
  <2>1. f.num \in Nat
    BY <1>1, FieldHeaders
  <2>2. \A k \in Nat : (2 * k + 1) \div 2 = k /\ (2 * k + 0) \div 2 = k
    OBVIOUS
  <2>3. b[at + 3] = 2 * f.num + 1 \/ b[at + 3] = 2 * f.num + 0
    BY OxmHeader
  <2> HIDE DEF f
  <2> QED
    BY <2>1, <2>2, <2>3
<1>4. exp = f.exp
  <2>1. CASE f.exp = NoExp
    BY <1>1, <1>2, <2>1, FieldHeaders
  <2>2. CASE f.exp # NoExp
    <3>1. f.class = EXPERIMENTER /\ f.exp \in Octets /\ Size(f.exp) = 4
      BY <1>1, <2>2, FieldHeaders, ExpIds
    <3>2. Lies(f.exp, b, at + 4)
      <4>1. CASE exp_header(f) = f.exp
        BY <1>2, <4>1
      <4>2. CASE exp_header(f) = Then(f.exp, U16(EXT256))
        <5>1. U16(EXT256) \in Octets /\ at + 4 \in Nat
          BY Halves DEF EXT256
        <5> QED
          BY <1>2, <3>1, <4>2, <5>1, LiesThen
      <4> QED
        BY <1>1, <2>2, <4>1, <4>2, ExpHeader
    <3>3. At(b, at + 4, 4) = f.exp
      <4>1. at + 4 \in Nat
        OBVIOUS
      <4> QED
        BY <3>1, <3>2, <4>1, LiesAt
    <3> QED
      BY <1>2, <3>1, <3>3
  <2> QED
    BY <2>1, <2>2
<1> QED
  BY <1>1, <1>2, <1>3, <1>4, FieldNamed

(* A field of a match, of any class, with or without a mask and a header of
   an experimenter, is read as it was written, wherever in the message it is
   and whatever is behind it: oxm_parse undoes oxm_serialize. *)
THEOREM OxmTlvRoundTrip ==
  ASSUME NEW o, OxmForm(o), NEW b \in Octets, NEW at \in Nat, Lies(oxm_serialize(o), b, at)
  PROVE  oxm_parse(b, at) = [ok |-> TRUE, item |-> o, len |-> Size(oxm_serialize(o))]
<1> DEFINE hdr == exp_header(Fields[o.type])
<1> DEFINE copies == IF o.kind = "oxm_w" THEN 2 ELSE 1
<1>1. FieldAt(b, at) = o.type
  BY FieldFound
<1>2. o.type \in Names /\ o.type # "unknown" /\ Fields[o.type].num \in Nat
  <2>1. o.type \in Names
    BY OxmParts
  <2> QED
    BY <2>1, FieldTable, FieldHeaders
<1>3. b[at + 3] % 2 = 1 <=> o.kind = "oxm_w"
  <2>1. \A k \in Nat : (2 * k + 1) % 2 = 1 /\ (2 * k + 0) % 2 = 0
    OBVIOUS
  <2>2. b[at + 3] = 2 * Fields[o.type].num + (IF o.kind = "oxm_w" THEN 1 ELSE 0)
    BY OxmHeader
  <2>3. CASE o.kind = "oxm_w"
    <3>1. b[at + 3] = 2 * Fields[o.type].num + 1
      BY <2>2, <2>3
    <3> QED
      BY <1>2, <2>1, <2>3, <3>1
  <2>4. CASE o.kind # "oxm_w"
    <3>1. b[at + 3] = 2 * Fields[o.type].num + 0
      BY <2>2, <2>4
    <3> QED
      BY <1>2, <2>1, <2>4, <3>1
  <2> QED
    BY <2>3, <2>4
<1>4. At(b, at + 4 + Size(hdr), b[at + 4] - Size(hdr)) = o.body
  <2>1. /\ Lies(o.body, b, at + 4 + Size(hdr)) /\ b[at + 4] = Size(Payload(o))
        /\ Size(Payload(o)) = Size(hdr) + Size(o.body) /\ o.body \in Octets /\ hdr \in Octets
    BY OxmHeader, OxmParts
  <2> HIDE DEF hdr
  <2>2. Size(hdr) \in Nat /\ Size(o.body) \in Nat
    BY <2>1, Sized1
  <2>3. b[at + 4] - Size(hdr) = Size(o.body) /\ at + 4 + Size(hdr) \in Nat
    BY <2>1, <2>2
  <2>4. At(b, at + 4 + Size(hdr), Size(o.body)) = o.body
    BY <2>1, <2>3, LiesAt
  <2> QED
    BY <2>3, <2>4
<1>5. 4 + b[at + 4] = Size(oxm_serialize(o))
  <2>1. /\ b[at + 4] = Size(Payload(o)) /\ Size(Payload(o)) = Size(hdr) + Size(o.body)
        /\ Size(oxm_serialize(o)) = 4 + Size(hdr) + Size(o.body)
        /\ Size(hdr) \in Nat /\ Size(o.body) \in Nat
    BY OxmHeader, OxmParts, OxmBytes, Sized1
  <2> HIDE DEF hdr
  <2> QED
    BY <2>1
<1>6. Len(o.body) \div copies > 0 /\ Fields[o.type].size \in {0, Len(o.body) \div copies}
  BY DEF OxmForm, OxmFits
<1>7. Oxm(o.type, o.kind = "oxm_w", o.body) = o
  BY DEF OxmForm, Oxm, Node
<1> DEFINE name == FieldAt(b, at)
<1> DEFINE masked == b[at + 3] % 2 = 1
<1> DEFINE value == At(b, at + 4 + Len(exp_header(Fields[name])),
                       b[at + 4] - Len(exp_header(Fields[name])))
<1> DEFINE value_len == Len(value) \div (IF masked THEN 2 ELSE 1)
<1>8. oxm_parse(b, at) =
        IF name = "unknown" THEN [ok |-> FALSE]
        ELSE [ok |-> value_len > 0 /\ Fields[name].size \in {0, value_len},
              item |-> Oxm(name, masked, value), len |-> 4 + b[at + 4]]
  BY DEF oxm_parse
<1>9. name = o.type
  BY <1>1
<1>10. masked <=> o.kind = "oxm_w"
  BY <1>3
<1>11. value = o.body
  BY <1>4, <1>9 DEF Size
<1>12. value_len = Len(o.body) \div copies
  BY <1>10, <1>11
<1>13. Oxm(name, masked, value) = o
  <2>1. Oxm(name, masked, value) = Oxm(o.type, o.kind = "oxm_w", o.body)
    <3> HIDE DEF name, masked, value
    <3> QED
      BY <1>9, <1>10, <1>11 DEF Oxm
  <2> QED
    BY <2>1, <1>7
<1> HIDE DEF name, masked, value, value_len, copies
<1>14. (value_len > 0 /\ Fields[name].size \in {0, value_len}) = TRUE
  BY <1>6, <1>9, <1>12
<1> QED
  BY <1>2, <1>5, <1>8, <1>9, <1>13, <1>14

(***************************************************************************)
(* The shapes structures are serialized in: how long, and what is found    *)
(* where one lies in a buffer.                                             *)
(***************************************************************************)

\* A type, a length and a body: _Tagged.serialize in parts.
LEMMA TaggedParts ==
  ASSUME NEW number \in Nat, NEW body \in Octets
  PROVE  /\ Tagged(number, body) = Then(Then(U16(number), U16(4 + Size(body))), body)
         /\ Tagged(number, body) \in Octets /\ Size(Tagged(number, body)) = 4 + Size(body)
         /\ Then(U16(number), U16(4 + Size(body))) \in Octets
         /\ Size(Then(U16(number), U16(4 + Size(body)))) = 4
         /\ 4 + Size(body) \in Nat
<1>1. Tagged(number, body) = Then(Then(U16(number), U16(4 + Size(body))), body)
  BY DEF Tagged, Then, Size
<1>2. 4 + Size(body) \in Nat
  BY Sized1
<1>3. /\ U16(number) \in Octets /\ Size(U16(number)) = 2
      /\ U16(4 + Size(body)) \in Octets /\ Size(U16(4 + Size(body))) = 2
  BY <1>2, Halves
<1>4. /\ Then(U16(number), U16(4 + Size(body))) \in Octets
      /\ Size(Then(U16(number), U16(4 + Size(body)))) = 4
  BY <1>3, Joined
<1> QED
  BY <1>1, <1>2, <1>4, Joined

\* Where such a structure lies, its type, length and body are read.
LEMMA TaggedRead ==
  ASSUME NEW number \in Nat, NEW body \in Octets, NEW b \in Octets, NEW at \in Nat,
         Lies(Tagged(number, body), b, at)
  PROVE  /\ Word(b, at) = number /\ Word(b, at + 2) = 4 + Size(body)
         /\ Lies(body, b, at + 4)
<1>1. Lies(Then(U16(number), U16(4 + Size(body))), b, at) /\ Lies(body, b, at + 4)
  <2> DEFINE head == Then(U16(number), U16(4 + Size(body)))
  <2>1. head \in Octets /\ Size(head) = 4 /\ Tagged(number, body) = Then(head, body)
    BY TaggedParts
  <2> HIDE DEF head
  <2>2. Lies(head, b, at) /\ Lies(body, b, at + Size(head))
    BY <2>1, LiesThen
  <2> QED
    BY <2>1, <2>2 DEF head
<1>2. /\ U16(number) \in Octets /\ Size(U16(number)) = 2
      /\ U16(4 + Size(body)) \in Octets
  BY TaggedParts, Halves
<1>3. Lies(U16(number), b, at) /\ Lies(U16(4 + Size(body)), b, at + 2)
  BY <1>1, <1>2, LiesThen
<1>4. at + 2 \in Nat
  OBVIOUS
<1> QED
  BY <1>1, <1>3, <1>4, TaggedParts, LiesWord

\* With zeros behind it to a multiple of eight bytes.
Padding(n) == Zeros(round_up(n, 8) - n)

\* Padding fills up to the next multiple of 8.
LEMMA PaddingForm ==
  ASSUME NEW n \in Nat
  PROVE  Padding(n) \in Octets /\ n + Size(Padding(n)) = round_up(n, 8)
<1>1. round_up(n, 8) - n \in Nat /\ round_up(n, 8) \in Nat
  BY RoundUp
<1> QED
  BY <1>1, ZerosForm DEF Padding

\* A tagged structure with padding behind it has the length rounded up.
LEMMA PaddedParts ==
  ASSUME NEW number \in Nat, NEW body \in Octets
  PROVE  LET s == Then(Tagged(number, body), Padding(4 + Size(body))) IN
         /\ s \in Octets /\ Size(s) = round_up(4 + Size(body), 8)
<1>1. 4 + Size(body) \in Nat
  BY TaggedParts
<1>2. /\ Padding(4 + Size(body)) \in Octets
      /\ 4 + Size(body) + Size(Padding(4 + Size(body))) = round_up(4 + Size(body), 8)
  BY <1>1, PaddingForm
<1>3. Tagged(number, body) \in Octets /\ Size(Tagged(number, body)) = 4 + Size(body)
  BY TaggedParts
<1> QED
  BY <1>2, <1>3, Joined

\* Padding is behind what is read of a tagged structure.
LEMMA PaddedRead ==
  ASSUME NEW number \in Nat, NEW body \in Octets, NEW b \in Octets, NEW at \in Nat,
         Lies(Then(Tagged(number, body), Padding(4 + Size(body))), b, at)
  PROVE  /\ Word(b, at) = number /\ Word(b, at + 2) = 4 + Size(body)
         /\ Lies(body, b, at + 4)
<1>1. Padding(4 + Size(body)) \in Octets
  BY TaggedParts, PaddingForm
<1>2. Lies(Tagged(number, body), b, at)
  BY <1>1, TaggedParts, LiesThen
<1> QED
  BY <1>2, TaggedRead

\* OFPMatch.serialize is a tagged structure with padding.
LEMMA MatchParts ==
  ASSUME NEW fields \in Octets
  PROVE  Match(fields) = Then(Tagged(1, fields), Padding(4 + Size(fields)))
BY DEF Match, Tagged, Then, Padding, Size

\* So is OFPTableFeatureProp.serialize.
LEMMA TablePropParts ==
  ASSUME NEW number \in Nat, NEW body \in Octets
  PROVE  TableProp(number, body) = Then(Tagged(number, body), Padding(4 + Size(body)))
<1>1. Size(body) \in Nat /\ round_up(4 + Size(body), 8) \in Nat
  BY Sized1, RoundUp, TaggedParts
<1>2. round_up(4 + Size(body), 8) - 4 - Size(body) = round_up(4 + Size(body), 8) - (4 + Size(body))
  BY <1>1
<1>3. Zeros(round_up(4 + Size(body), 8) - 4 - Size(body)) = Padding(4 + Size(body))
  BY <1>2 DEF Padding
<1> QED
  BY <1>3 DEF TableProp, Then, Size

\* Packing behind the end is concatenation.
LEMMA PackBehind ==
  ASSUME NEW data \in Octets, NEW b \in Octets
  PROVE  msg_pack_into(data, b, Size(b)) = Then(b, data)
<1> DEFINE m == msg_pack_into(data, b, Size(b))
<1>1. /\ Size(b) \in Nat /\ Size(data) \in Nat
      /\ \A i \in 1 .. Size(b) : b[i] \in Nat
      /\ \A i \in 1 .. Size(data) : data[i] \in Nat
  BY Sized1
<1>2. m = [i \in 1 .. (IF Size(b) + Size(data) > Size(b) THEN Size(b) + Size(data) ELSE Size(b)) |->
             IF i > Size(b) /\ i <= Size(b) + Size(data) THEN data[i - Size(b)]
             ELSE IF i <= Size(b) THEN b[i] ELSE 0]
  BY DEF msg_pack_into, Size
<1>3. (IF Size(b) + Size(data) > Size(b) THEN Size(b) + Size(data) ELSE Size(b)) = Size(b) + Size(data)
  BY <1>1
<1>4. m = [i \in 1 .. Size(b) + Size(data) |->
             IF i > Size(b) /\ i <= Size(b) + Size(data) THEN data[i - Size(b)]
             ELSE IF i <= Size(b) THEN b[i] ELSE 0]
  BY <1>2, <1>3
<1> HIDE DEF m
<1>5. \A i \in 1 .. Size(b) + Size(data) : m[i] = IF i <= Size(b) THEN b[i] ELSE data[i - Size(b)]
  BY <1>1, <1>4
<1>6. m \in [1 .. Size(b) + Size(data) -> Nat]
  <2>1. ASSUME NEW i \in 1 .. Size(b) + Size(data) PROVE m[i] \in Nat
    <3>1. CASE i <= Size(b)
      <4>1. i \in 1 .. Size(b)
        BY <1>1, <3>1
      <4> QED
        BY <1>1, <1>5, <3>1, <4>1
    <3>2. CASE ~(i <= Size(b))
      <4>1. i - Size(b) \in 1 .. Size(data)
        BY <1>1, <3>2
      <4> QED
        BY <1>1, <1>5, <3>2, <4>1
    <3> QED
      BY <3>1, <3>2
  <2> QED
    BY <1>4, <2>1
<1>7. m \in Seq(Nat) /\ Len(m) = Size(b) + Size(data)
  <2>1. Size(b) + Size(data) \in Nat
    BY <1>1
  <2> QED
    BY <1>6, <2>1, FunSeq
<1>8. Then(b, data) \in Seq(Nat) /\ Len(Then(b, data)) = Size(b) + Size(data)
  BY Joined DEF Octets, Size
<1>9. \A i \in 1 .. Len(m) : m[i] = Then(b, data)[i]
  BY <1>5, <1>7, Joined
<1>10. m = Then(b, data)
  BY <1>7, <1>8, <1>9, SeqEqual
<1> QED
  BY <1>10 DEF m

\* A set-field action is its header, the field and padding, if the field has no
\* experimenter id.
SetHeader(o) == Then(U16(25), U16(round_up(4 + Size(oxm_serialize(o)), 8)))

\* A set-field action of a plain field: header, field, padding, in its parts.
LEMMA SetFieldParts ==
  ASSUME NEW o, OxmForm(o), Fields[o.type].exp = NoExp
  PROVE  /\ SetField(o) = Then(Then(SetHeader(o), oxm_serialize(o)),
                               Padding(4 + Size(oxm_serialize(o))))
         /\ SetHeader(o) \in Octets /\ Size(SetHeader(o)) = 4
         /\ Then(SetHeader(o), oxm_serialize(o)) \in Octets
         /\ Padding(4 + Size(oxm_serialize(o))) \in Octets
         /\ SetField(o) \in Octets
         /\ Size(SetField(o)) = round_up(4 + Size(oxm_serialize(o)), 8)
         /\ 4 + Size(oxm_serialize(o)) \in Nat
         /\ round_up(4 + Size(oxm_serialize(o)), 8) \in Nat
<1> DEFINE p == 4 + Size(oxm_serialize(o))
<1>1. /\ oxm_serialize(o) \in Octets /\ Size(oxm_serialize(o)) \in Nat
      /\ Size(oxm_serialize(o)) = 4 + Size(o.body) /\ Size(o.body) \in Nat
  <2>1. o.type \in Names /\ o.body \in Octets
    BY OxmParts
  <2>2. exp_header(Fields[o.type]) = <<>>
    BY <2>1, ExpHeader
  <2>3. Size(exp_header(Fields[o.type])) = 0 /\ Size(o.body) \in Nat
    BY <2>1, <2>2, NoOctets, Sized1
  <2> QED
    BY <2>3, OxmBytes, Sized1
<1>2. p \in Nat /\ round_up(p, 8) \in Nat
  BY <1>1, RoundUp
<1>3. SetHeader(o) \in Octets /\ Size(SetHeader(o)) = 4
  <2>1. /\ U16(25) \in Octets /\ Size(U16(25)) = 2
        /\ U16(round_up(p, 8)) \in Octets /\ Size(U16(round_up(p, 8))) = 2
    BY <1>2, Halves
  <2> HIDE DEF p
  <2> QED
    BY <2>1, Joined DEF SetHeader, p
<1>4. /\ Then(SetHeader(o), oxm_serialize(o)) \in Octets
      /\ Size(Then(SetHeader(o), oxm_serialize(o))) = p
  BY <1>1, <1>3, Joined
<1>5. Padding(p) \in Octets /\ p + Size(Padding(p)) = round_up(p, 8)
  BY <1>2, PaddingForm
<1>6. /\ msg_pack_into(oxm_serialize(o), SetHeader(o), 4) = Then(SetHeader(o), oxm_serialize(o))
      /\ msg_pack_into(Padding(p), Then(SetHeader(o), oxm_serialize(o)), p)
           = Then(Then(SetHeader(o), oxm_serialize(o)), Padding(p))
  <2> HIDE DEF p
  <2> QED
    BY <1>1, <1>3, <1>4, <1>5, PackBehind
<1>7. SetField(o) = msg_pack_into(Padding(p), msg_pack_into(oxm_serialize(o), SetHeader(o), 4), p)
  <2>1. 4 + (4 + Len(o.body)) = p /\ 4 + Len(o.body) = Size(oxm_serialize(o))
    BY <1>1 DEF Size
  <2>2. round_up(p, 8) - 4 - (4 + Len(o.body)) = round_up(p, 8) - p
    BY <1>1, <1>2 DEF Size
  <2>3. Actions.set_field.number = 25
    BY DEF Actions, Tlv
  <2>4. SetField(o) =
          msg_pack_into(Zeros(round_up(4 + (4 + Len(o.body)), 8) - 4 - (4 + Len(o.body))),
              msg_pack_into(oxm_serialize(o),
                  U16(Actions.set_field.number) \o U16(round_up(4 + (4 + Len(o.body)), 8)), 4),
              4 + (4 + Len(o.body)))
    BY DEF SetField
  <2>5. U16(25) \o U16(round_up(p, 8)) = SetHeader(o)
    BY DEF SetHeader, Then
  <2> HIDE DEF p
  <2> QED
    BY <2>1, <2>2, <2>3, <2>4, <2>5 DEF Padding
<1>8. SetField(o) = Then(Then(SetHeader(o), oxm_serialize(o)), Padding(p))
  BY <1>6, <1>7, Zenon
<1>9. SetField(o) \in Octets /\ Size(SetField(o)) = round_up(p, 8)
  <2> HIDE DEF p
  <2> QED
    BY <1>2, <1>4, <1>5, <1>8, Joined
<1> QED
  BY <1>2, <1>3, <1>4, <1>5, <1>8, <1>9

\* Where a set-field action lies, its type, length and field are read.
LEMMA SetFieldRead ==
  ASSUME NEW o, OxmForm(o), Fields[o.type].exp = NoExp, NEW b \in Octets, NEW at \in Nat,
         Lies(SetField(o), b, at)
  PROVE  /\ Word(b, at) = 25 /\ Word(b, at + 2) = Size(SetField(o))
         /\ Lies(oxm_serialize(o), b, at + 4)
<1> DEFINE len == round_up(4 + Size(oxm_serialize(o)), 8)
<1>1. Lies(Then(SetHeader(o), oxm_serialize(o)), b, at)
  <2>1. /\ Lies(Then(Then(SetHeader(o), oxm_serialize(o)),
                     Padding(4 + Size(oxm_serialize(o)))), b, at)
        /\ Then(SetHeader(o), oxm_serialize(o)) \in Octets
        /\ Padding(4 + Size(oxm_serialize(o))) \in Octets
    BY SetFieldParts
  <2> QED
    BY <2>1, LiesThen
<1>2. Lies(SetHeader(o), b, at) /\ Lies(oxm_serialize(o), b, at + 4)
  <2>1. SetHeader(o) \in Octets /\ Size(SetHeader(o)) = 4 /\ oxm_serialize(o) \in Octets
    BY SetFieldParts, OxmBytes
  <2> QED
    BY <1>1, <2>1, LiesThen
<1>3. len \in Nat /\ Size(SetField(o)) = len
  BY SetFieldParts
<1>4. Lies(U16(25), b, at) /\ Lies(U16(len), b, at + 2)
  <2>1. SetHeader(o) = Then(U16(25), U16(len))
    BY DEF SetHeader
  <2>2. U16(25) \in Octets /\ U16(len) \in Octets /\ Size(U16(25)) = 2
    BY <1>3, Halves
  <2> HIDE DEF len
  <2> QED
    BY <1>2, <2>1, <2>2, LiesThen
<1>5. at + 2 \in Nat /\ 25 \in Nat
  OBVIOUS
<1> HIDE DEF len
<1> QED
  BY <1>2, <1>3, <1>4, <1>5, LiesWord

\* A Nicira action is ten bytes of header, its data and padding.
NxHeader(subtype, len) == Then(Then(Then(U16(65535), U16(len)), NX), U16(subtype))

\* The header of a Nicira action, in its parts.
LEMMA NxHeaderParts ==
  ASSUME NEW subtype \in Nat, NEW len \in Nat
  PROVE  /\ NxHeader(subtype, len) \in Octets /\ Size(NxHeader(subtype, len)) = 10
         /\ Then(Then(U16(65535), U16(len)), NX) \in Octets
         /\ Size(Then(Then(U16(65535), U16(len)), NX)) = 8
         /\ Then(U16(65535), U16(len)) \in Octets
         /\ Size(Then(U16(65535), U16(len))) = 4
         /\ NX \in Octets /\ Size(NX) = 4
<1>1. NX \in Octets /\ Size(NX) = 4
  BY DEF NX, Octets, Size
<1>2. /\ U16(65535) \in Octets /\ Size(U16(65535)) = 2
      /\ U16(len) \in Octets /\ Size(U16(len)) = 2
      /\ U16(subtype) \in Octets /\ Size(U16(subtype)) = 2
  BY Halves
<1>3. Then(U16(65535), U16(len)) \in Octets /\ Size(Then(U16(65535), U16(len))) = 4
  BY <1>2, Joined
<1>4. /\ Then(Then(U16(65535), U16(len)), NX) \in Octets
      /\ Size(Then(Then(U16(65535), U16(len)), NX)) = 8
  BY <1>1, <1>3, Joined
<1>5. NxHeader(subtype, len) \in Octets /\ Size(NxHeader(subtype, len)) = 10
  BY <1>2, <1>4, Joined DEF NxHeader
<1> QED
  BY <1>1, <1>3, <1>4, <1>5

\* A Nicira action is header, data and padding.
LEMMA NxParts ==
  ASSUME NEW subtype \in Nat, NEW data \in Octets
  PROVE  LET len == round_up(10 + Size(data), 8) IN
         /\ NxAction(subtype, data)
              = Then(Then(NxHeader(subtype, len), data), Padding(10 + Size(data)))
         /\ NxAction(subtype, data) \in Octets /\ Size(NxAction(subtype, data)) = len
         /\ len \in Nat /\ Padding(10 + Size(data)) \in Octets
         /\ Then(NxHeader(subtype, len), data) \in Octets
<1> DEFINE len == round_up(10 + Size(data), 8)
<1>1. Size(data) \in Nat /\ 10 + Size(data) \in Nat /\ len \in Nat
  <2>1. Size(data) \in Nat
    BY Sized1
  <2>2. 10 + Size(data) \in Nat
    BY <2>1
  <2> QED
    BY <2>1, <2>2, RoundUp
<1>2. /\ Padding(10 + Size(data)) \in Octets
      /\ 10 + Size(data) + Size(Padding(10 + Size(data))) = len
  BY <1>1, PaddingForm
<1>3. NxAction(subtype, data) = Then(Then(NxHeader(subtype, len), data), Padding(10 + Size(data)))
  <2>1. Zeros(len - 10 - Size(data)) = Padding(10 + Size(data))
    <3>1. len - 10 - Size(data) = len - (10 + Size(data))
      BY <1>1
    <3> QED
      BY <3>1 DEF Padding
  <2>2. Actions.experimenter.number = 65535
    BY DEF Actions, Tlv
  <2>3. NxAction(subtype, data) =
          Then(Then(Then(Then(Then(U16(Actions.experimenter.number), U16(len)), NX), U16(subtype)),
               data), Zeros(len - 10 - Size(data)))
    BY DEF NxAction, Then, Size, NX_ACTION_HEADER_SIZE
  <2> HIDE DEF len
  <2> QED
    BY <2>1, <2>2, <2>3 DEF NxHeader
<1> HIDE DEF len
<1>4. NxHeader(subtype, len) \in Octets /\ Size(NxHeader(subtype, len)) = 10
  BY <1>1, NxHeaderParts
<1>5. /\ Then(NxHeader(subtype, len), data) \in Octets
      /\ Size(Then(NxHeader(subtype, len), data)) = 10 + Size(data)
  BY <1>4, Joined
<1>6. NxAction(subtype, data) \in Octets /\ Size(NxAction(subtype, data)) = len
  BY <1>2, <1>3, <1>5, Joined
<1> QED
  BY <1>1, <1>2, <1>3, <1>5, <1>6 DEF len

\* Where a Nicira action lies, its header and data are read.
LEMMA NxRead ==
  ASSUME NEW subtype \in Nat, NEW data \in Octets, NEW b \in Octets, NEW at \in Nat,
         Lies(NxAction(subtype, data), b, at)
  PROVE  /\ Word(b, at) = 65535 /\ Word(b, at + 2) = Size(NxAction(subtype, data))
         /\ At(b, at + 4, 4) = NX /\ Word(b, at + 8) = subtype
         /\ Lies(data, b, at + 10)
<1> DEFINE len == round_up(10 + Size(data), 8)
<1>1. /\ NxAction(subtype, data)
           = Then(Then(NxHeader(subtype, len), data), Padding(10 + Size(data)))
      /\ Size(NxAction(subtype, data)) = len
      /\ len \in Nat /\ Padding(10 + Size(data)) \in Octets
      /\ Then(NxHeader(subtype, len), data) \in Octets
  BY NxParts
<1> HIDE DEF len
<1>2. Lies(Then(NxHeader(subtype, len), data), b, at)
  BY <1>1, LiesThen
<1>3. Lies(NxHeader(subtype, len), b, at) /\ Lies(data, b, at + 10)
  <2>1. NxHeader(subtype, len) \in Octets /\ Size(NxHeader(subtype, len)) = 10
    BY <1>1, NxHeaderParts
  <2>2. Lies(NxHeader(subtype, len), b, at) /\ Lies(data, b, at + Size(NxHeader(subtype, len)))
    BY <1>2, <2>1, LiesThen
  <2> QED
    BY <2>1, <2>2
<1> DEFINE four == Then(U16(65535), U16(len))
<1> DEFINE eight == Then(four, NX)
<1>4. /\ four \in Octets /\ Size(four) = 4 /\ eight \in Octets /\ Size(eight) = 8
      /\ NX \in Octets /\ Size(NX) = 4
  BY <1>1, NxHeaderParts
<1>5. /\ U16(65535) \in Octets /\ Size(U16(65535)) = 2 /\ U16(len) \in Octets
      /\ U16(subtype) \in Octets
  BY <1>1, Halves
<1>6. NxHeader(subtype, len) = Then(eight, U16(subtype))
  BY DEF NxHeader
<1>7. Lies(eight, b, at) /\ Lies(U16(subtype), b, at + 8)
  <2> HIDE DEF eight
  <2> QED
    BY <1>3, <1>4, <1>5, <1>6, LiesThen
<1>8. Lies(four, b, at) /\ Lies(NX, b, at + 4)
  <2> HIDE DEF four
  <2> QED
    BY <1>4, <1>7, LiesThen
<1>9. Lies(U16(65535), b, at) /\ Lies(U16(len), b, at + 2)
  BY <1>5, <1>8, LiesThen
<1>10. at + 2 \in Nat /\ at + 4 \in Nat /\ at + 8 \in Nat /\ 65535 \in Nat
  OBVIOUS
<1>11. Word(b, at) = 65535 /\ Word(b, at + 2) = len /\ Word(b, at + 8) = subtype
  BY <1>1, <1>7, <1>9, <1>10, LiesWord
<1>12. At(b, at + 4, 4) = NX
  BY <1>4, <1>8, <1>10, LiesAt
<1> QED
  BY <1>1, <1>3, <1>11, <1>12

\* A head with a length in it.
LEMMA Halved ==
  ASSUME NEW head \in Octets, NEW n \in Nat, n <= Size(head)
  PROVE  /\ At(head, 0, n) \in Octets /\ Size(At(head, 0, n)) = n
         /\ At(head, n, Size(head) - n) \in Octets
         /\ Size(At(head, n, Size(head) - n)) = Size(head) - n
         /\ Then(At(head, 0, n), At(head, n, Size(head) - n)) = head
<1>1. Size(head) \in Nat /\ Len(head) = Size(head) /\ \A i \in 1 .. Size(head) : head[i] \in Nat
  BY Sized1 DEF Size
<1>2. At(head, 0, n) = SubSeq(head, 1, n)
  <2>1. CASE n < Size(head)
    BY <1>1, <2>1 DEF At, Slice
  <2>2. CASE ~(n < Size(head))
    <3>1. n = Size(head)
      BY <1>1, <2>2
    <3> QED
      BY <1>1, <3>1 DEF At, Slice
  <2> QED
    BY <2>1, <2>2
<1>3. At(head, n, Size(head) - n) = SubSeq(head, n + 1, Size(head))
  <2>1. n + (Size(head) - n) = Size(head) /\ ~(Size(head) < Size(head))
    BY <1>1
  <2> QED
    BY <1>1, <2>1 DEF At, Slice
<1>4. /\ SubSeq(head, 1, n) \in Octets /\ Size(SubSeq(head, 1, n)) = n
  <2>1. \A i \in 1 .. n : head[i] \in Nat
    BY <1>1
  <2>2. /\ SubSeq(head, 1, n) \in Seq(Nat)
        /\ Len(SubSeq(head, 1, n)) = IF 1 <= n THEN n - 1 + 1 ELSE 0
    BY <2>1, SubSeqProperties
  <2> QED
    BY <2>2 DEF Octets, Size
<1>5. /\ SubSeq(head, n + 1, Size(head)) \in Octets
      /\ Size(SubSeq(head, n + 1, Size(head))) = Size(head) - n
  <2>1. \A i \in n + 1 .. Size(head) : head[i] \in Nat
    BY <1>1
  <2>2. /\ SubSeq(head, n + 1, Size(head)) \in Seq(Nat)
        /\ Len(SubSeq(head, n + 1, Size(head))) = IF n + 1 <= Size(head) THEN Size(head) - (n + 1) + 1 ELSE 0
    <3>1. n + 1 \in Int /\ Size(head) \in Int
      BY <1>1
    <3> QED
      BY <2>1, <3>1, SubSeqProperties
  <2>3. (IF n + 1 <= Size(head) THEN Size(head) - (n + 1) + 1 ELSE 0) = Size(head) - n
    BY <1>1
  <2> QED
    BY <2>2, <2>3 DEF Octets, Size
<1>6. SubSeq(head, 1, n) \o SubSeq(head, n + 1, Size(head)) = head
  <2>1. 1 \in 1 .. Size(head) + 1 /\ n \in 1 - 1 .. Size(head) /\ Size(head) \in n .. Size(head)
    BY <1>1
  <2>2. SubSeq(head, 1, n) \o SubSeq(head, n + 1, Size(head)) = SubSeq(head, 1, Size(head))
    BY <1>1, <2>1, ConcatAdjacentSubSeq DEF Octets
  <2>3. SubSeq(head, 1, Size(head)) = head
    BY <1>1, SubSeqFull DEF Octets
  <2> QED
    BY <2>2, <2>3
<1> QED
  BY <1>2, <1>3, <1>4, <1>5, <1>6 DEF Then

\* A head with a length inside it, in its parts.
LEMMA WithLengthParts ==
  ASSUME NEW k, NEW head \in Octets, k.length_at \in Nat, k.length_at <= Size(head),
         NEW length \in Nat
  PROVE  /\ WithLength(k, head, length)
              = Then(Then(At(head, 0, k.length_at), U16(length)),
                     At(head, k.length_at, Size(head) - k.length_at))
         /\ Then(At(head, 0, k.length_at), U16(length)) \in Octets
         /\ Size(Then(At(head, 0, k.length_at), U16(length))) = k.length_at + 2
         /\ WithLength(k, head, length) \in Octets
         /\ Size(WithLength(k, head, length)) = Size(head) + 2
<1> DEFINE front == At(head, 0, k.length_at)
<1> DEFINE rest == At(head, k.length_at, Size(head) - k.length_at)
<1>1. /\ front \in Octets /\ Size(front) = k.length_at
      /\ rest \in Octets /\ Size(rest) = Size(head) - k.length_at
  BY Halved
<1>2. U16(length) \in Octets /\ Size(U16(length)) = 2
  BY Halves
<1>3. WithLength(k, head, length) = Then(Then(front, U16(length)), rest)
  BY DEF WithLength, Then, Size
<1>4. Size(head) \in Nat
  BY Sized1
<1> HIDE DEF front, rest
<1>5. Then(front, U16(length)) \in Octets /\ Size(Then(front, U16(length))) = k.length_at + 2
  <2>1. /\ Then(front, U16(length)) \in Octets
        /\ Size(Then(front, U16(length))) = Size(front) + Size(U16(length))
    BY <1>1, <1>2, Joined
  <2> QED
    BY <1>1, <1>2, <2>1
<1>6. /\ WithLength(k, head, length) \in Octets
      /\ Size(WithLength(k, head, length)) = Size(head) + 2
  <2>1. /\ WithLength(k, head, length) \in Octets
        /\ Size(WithLength(k, head, length)) = k.length_at + 2 + (Size(head) - k.length_at)
    <3>1. /\ WithLength(k, head, length) \in Octets
          /\ Size(WithLength(k, head, length)) = Size(Then(front, U16(length))) + Size(rest)
      <4> DEFINE both == Then(front, U16(length))
      <4>1. both \in Octets /\ WithLength(k, head, length) = Then(both, rest)
        BY <1>3, <1>5
      <4> HIDE DEF both
      <4>2. Then(both, rest) \in Octets /\ Size(Then(both, rest)) = Size(both) + Size(rest)
        BY <1>1, <4>1, Joined
      <4> QED
        BY <4>1, <4>2 DEF both
    <3> QED
      BY <1>1, <1>5, <3>1
  <2> QED
    BY <1>4, <2>1
<1> QED
  BY <1>3, <1>5, <1>6 DEF front, rest

\* Where such a head lies, its length and the rest of it are read.
LEMMA WithLengthRead ==
  ASSUME NEW k, NEW head \in Octets, k.length_at \in Nat, k.length_at <= Size(head),
         NEW length \in Nat, NEW b \in Octets, NEW at \in Nat,
         Lies(WithLength(k, head, length), b, at)
  PROVE  /\ Word(b, at + k.length_at) = length
         /\ Then(At(b, at, k.length_at),
                 At(b, at + (k.length_at + 2), Size(head) - k.length_at)) = head
<1> DEFINE front == At(head, 0, k.length_at)
<1> DEFINE rest == At(head, k.length_at, Size(head) - k.length_at)
<1>1. /\ front \in Octets /\ Size(front) = k.length_at
      /\ rest \in Octets /\ Size(rest) = Size(head) - k.length_at
      /\ Then(front, rest) = head
  BY Halved
<1>2. U16(length) \in Octets
  BY Halves
<1>3. /\ WithLength(k, head, length) = Then(Then(front, U16(length)), rest)
      /\ Then(front, U16(length)) \in Octets
      /\ Size(Then(front, U16(length))) = k.length_at + 2
  BY WithLengthParts
<1> HIDE DEF front, rest
<1>4. Lies(Then(front, U16(length)), b, at) /\ Lies(rest, b, at + (k.length_at + 2))
  BY <1>1, <1>3, LiesThen
<1>5. Lies(front, b, at) /\ Lies(U16(length), b, at + k.length_at)
  BY <1>1, <1>2, <1>4, LiesThen
<1>6. at + k.length_at \in Nat /\ at + (k.length_at + 2) \in Nat
  OBVIOUS
<1>7. Word(b, at + k.length_at) = length
  BY <1>5, <1>6, LiesWord
<1>8. /\ At(b, at, k.length_at) = front
      /\ At(b, at + (k.length_at + 2), Size(head) - k.length_at) = rest
  BY <1>1, <1>4, <1>5, <1>6, LiesAt
<1> QED
  BY <1>1, <1>7, <1>8

(***************************************************************************)
(* The registries: each number names one type, and none names what is not  *)
(* registered.                                                             *)
(***************************************************************************)

Registers(R) ==
    /\ \A m, n \in DOMAIN R : R[m].number = R[n].number => m = n
    /\ \A n \in DOMAIN R : R[n].number \in Nat /\ R[n].number # Unassigned
    /\ "unknown" \notin DOMAIN R

\* A type is found by the number it is serialized with.
LEMMA LookupNumber ==
  ASSUME NEW R, Registers(R), NEW type \in DOMAIN R \cup {"unknown"}
  PROVE  Number(R, type) \in Nat /\ Lookup(R, Number(R, type)) = type
<1>1. CASE type \in DOMAIN R
  <2>1. Number(R, type) = R[type].number /\ R[type].number \in Nat
    BY <1>1 DEF Number, Registers
  <2>2. \A n \in DOMAIN R : R[n].number = R[type].number <=> n = type
    BY <1>1 DEF Registers
  <2>3. Lookup(R, R[type].number) = type
    BY <1>1, <2>2 DEF Lookup
  <2> QED
    BY <2>1, <2>3
<1>2. CASE type \notin DOMAIN R
  <2>1. Number(R, type) = Unassigned /\ type = "unknown"
    BY <1>2 DEF Number
  <2>2. Lookup(R, Unassigned) = "unknown"
    BY DEF Lookup, Registers
  <2> QED
    BY <2>1, <2>2 DEF Unassigned
<1> QED
  BY <1>1, <1>2

ActionName(k) ==
    CASE k = 0 -> "output" [] k = 11 -> "copy_ttl_out" [] k = 12 -> "copy_ttl_in"
      [] k = 15 -> "set_mpls_ttl" [] k = 16 -> "dec_mpls_ttl" [] k = 17 -> "push_vlan"
      [] k = 18 -> "pop_vlan" [] k = 19 -> "push_mpls" [] k = 20 -> "pop_mpls"
      [] k = 21 -> "set_queue" [] k = 22 -> "group" [] k = 23 -> "set_nw_ttl"
      [] k = 24 -> "dec_nw_ttl" [] k = 26 -> "push_pbb" [] k = 27 -> "pop_pbb"
      [] k = 25 -> "set_field" [] k = 65535 -> "experimenter"

InstructionName(k) ==
    CASE k = 1 -> "goto_table" [] k = 2 -> "write_metadata" [] k = 3 -> "write_actions"
      [] k = 4 -> "apply_actions" [] k = 5 -> "clear_actions" [] k = 6 -> "meter"

\* No two actions have one number.
LEMMA ActionNumbers ==
  /\ Registers(Actions)
  /\ Actions["experimenter"].number = 65535 /\ Actions["experimenter"].size = 4
  /\ Actions["set_field"].number = 25
  /\ {"experimenter", "set_field"} \subseteq DOMAIN Actions
<1>1. \A n \in DOMAIN Actions : ActionName(Actions[n].number) = n
  BY SMT DEF ActionName, Actions, Tlv
<1>2. \A n \in DOMAIN Actions : Actions[n].number \in Nat /\ Actions[n].number # Unassigned
  BY SMT DEF Actions, Tlv, Unassigned
<1>3. "unknown" \notin DOMAIN Actions /\ {"experimenter", "set_field"} \subseteq DOMAIN Actions
  BY DEF Actions
<1>4. /\ Actions["experimenter"].number = 65535 /\ Actions["experimenter"].size = 4
      /\ Actions["set_field"].number = 25
  BY DEF Actions, Tlv
<1>5. \A m, n \in DOMAIN Actions : Actions[m].number = Actions[n].number => m = n
  BY <1>1, Zenon
<1> QED
  BY <1>2, <1>3, <1>4, <1>5 DEF Registers

\* No two instructions have one number.
LEMMA InstructionNumbers ==
  /\ Registers(Instructions) /\ OFPInstructionActions \subseteq DOMAIN Instructions
  /\ \A n \in OFPInstructionActions : Instructions[n].size = 4
<1>1. \A n \in DOMAIN Instructions : InstructionName(Instructions[n].number) = n
  BY SMT DEF InstructionName, Instructions, Tlv
<1>2. \A m, n \in DOMAIN Instructions : Instructions[m].number = Instructions[n].number => m = n
  BY <1>1, Zenon
<1>3. /\ \A n \in DOMAIN Instructions :
            Instructions[n].number \in Nat /\ Instructions[n].number # Unassigned
      /\ "unknown" \notin DOMAIN Instructions
  BY SMT DEF Instructions, Tlv, Unassigned
<1>4. /\ OFPInstructionActions \subseteq DOMAIN Instructions
      /\ \A n \in OFPInstructionActions : Instructions[n].size = 4
  BY DEF OFPInstructionActions, Instructions, Tlv
<1> QED
  BY <1>2, <1>3, <1>4 DEF Registers

\* The same of the other registries.
LEMMA OtherNumbers ==
  /\ Registers(MeterBands) /\ Registers(QueueProps) /\ Registers(HelloElements)
  /\ Registers(NxActions) /\ Registers(TableProps)
<1>1. Registers(MeterBands)
  BY DEF Registers, MeterBands, Tlv, Unassigned
<1>2. Registers(QueueProps)
  BY DEF Registers, QueueProps, Tlv, Unassigned
<1>3. Registers(HelloElements)
  BY DEF Registers, HelloElements, Tlv, Unassigned
<1>4. Registers(NxActions)
  BY DEF Registers, NxActions, Tlv, Unassigned
<1>5. Registers(TableProps)
  BY DEF Registers, TableProps, Unassigned
<1> QED
  BY <1>1, <1>2, <1>3, <1>4, <1>5

\* The registry of each kind.
LEMMA RegistryOf ==
  /\ DOMAIN Registries = {"action", "instruction", "band", "queue_prop", "hello_element"}
  /\ Registries["action"] = Actions /\ Registries["instruction"] = Instructions
  /\ Registries["band"] = MeterBands /\ Registries["queue_prop"] = QueueProps
  /\ Registries["hello_element"] = HelloElements
  /\ \A k \in DOMAIN Registries : Registers(Registries[k])
<1>1. DOMAIN Registries = {"action", "instruction", "band", "queue_prop", "hello_element"}
  BY DEF Registries
<1>2. /\ Registries["action"] = Actions /\ Registries["instruction"] = Instructions
      /\ Registries["band"] = MeterBands /\ Registries["queue_prop"] = QueueProps
      /\ Registries["hello_element"] = HelloElements
  BY DEF Registries
<1> QED
  BY <1>1, <1>2, ActionNumbers, InstructionNumbers, OtherNumbers

\* Structures of a size, and those that hold others.
LEMMA SizesOf ==
  /\ DOMAIN SizedKinds = {"bucket", "queue", "flow_stats", "group_stats", "group_desc",
                          "meter_stats", "meter_config", "table_features"}
  /\ DOMAIN FixedKinds = {"port", "desc", "aggregate", "table_stats", "port_stats",
                          "queue_stats", "bucket_counter", "group_features",
                          "band_stats", "meter_features"}
  /\ \A k \in DOMAIN FixedKinds :
        FixedKinds[k] \in Nat /\ FixedKinds[k] >= 4 /\ FixedKinds[k] % 8 = 0
  /\ \A k \in DOMAIN SizedKinds :
        /\ SizedKinds[k].head \in Nat /\ SizedKinds[k].head >= 8 /\ SizedKinds[k].head % 8 = 0
        /\ SizedKinds[k].length_at \in Nat
        /\ SizedKinds[k].length_at <= SizedKinds[k].head - 2
        /\ SizedKinds[k].list \in {"action", "queue_prop", "flow", "bucket_counter",
                                   "bucket", "band_stats", "band", "table_prop"}
  /\ SizedKinds["bucket"] = OFPBucket /\ OFPBucket = [head |-> 16, length_at |-> 0, list |-> "action"]
<1>1. /\ DOMAIN SizedKinds = {"bucket", "queue", "flow_stats", "group_stats", "group_desc",
                          "meter_stats", "meter_config", "table_features"}
      /\ DOMAIN FixedKinds = {"port", "desc", "aggregate", "table_stats", "port_stats",
                          "queue_stats", "bucket_counter", "group_features",
                          "band_stats", "meter_features"}
  BY DEF SizedKinds, FixedKinds
<1>2. \A k \in DOMAIN FixedKinds : FixedKinds[k] \in {64, 1056, 24, 112, 40, 16}
  BY DEF FixedKinds, OFPPort, OFPDescStats, OFPAggregateStats, OFPTableStats, OFPPortStats,
         OFPQueueStats, OFPBucketCounter, OFPGroupFeaturesStats, OFPMeterBandStats,
         OFPMeterFeaturesStats
<1>3. \A n \in {64, 1056, 24, 112, 40, 16} : n \in Nat /\ n >= 4 /\ n % 8 = 0
  OBVIOUS
<1>4. \A k \in DOMAIN SizedKinds :
        /\ SizedKinds[k].head \in {16, 48, 40, 8, 64}
        /\ SizedKinds[k].length_at \in {0, 8, 4}
        /\ SizedKinds[k].length_at <= SizedKinds[k].head - 2
        /\ SizedKinds[k].list \in {"action", "queue_prop", "flow", "bucket_counter",
                                   "bucket", "band_stats", "band", "table_prop"}
  BY DEF SizedKinds, Sized, OFPBucket, OFPPacketQueue, OFPFlowStats, OFPGroupStats,
         OFPGroupDescStats, OFPMeterStats, OFPMeterConfigStats, OFPTableFeaturesStats
<1>5. \A n \in {16, 48, 40, 8, 64} : n \in Nat /\ n >= 8 /\ n % 8 = 0
  OBVIOUS
<1>6. \A n \in {0, 8, 4} : n \in Nat
  OBVIOUS
<1>7. SizedKinds["bucket"] = OFPBucket /\ OFPBucket = [head |-> 16, length_at |-> 0, list |-> "action"]
  BY DEF SizedKinds, Sized, OFPBucket
<1>8. \A k \in DOMAIN FixedKinds :
        FixedKinds[k] \in Nat /\ FixedKinds[k] >= 4 /\ FixedKinds[k] % 8 = 0
  BY <1>2, <1>3
<1>9. \A k \in DOMAIN SizedKinds :
        /\ SizedKinds[k].head \in Nat /\ SizedKinds[k].head >= 8 /\ SizedKinds[k].head % 8 = 0
        /\ SizedKinds[k].length_at \in Nat
  BY <1>4, <1>5, <1>6, Zenon
<1> QED
  BY <1>1, <1>4, <1>7, <1>8, <1>9, Zenon

(***************************************************************************)
(* Lists of structures.                                                    *)
(***************************************************************************)

\* The bytes of the first n structures of a list, and what a parser has of
\* them.
Flat(kids, n) == FlattenSeq([i \in 1 .. n |-> Bytes[kids[i]]])
Heard(kids, n) ==
    FlattenSeq([i \in 1 .. n |->
                   IF PassedOver(kids[i]) THEN <<>> ELSE <<Known[kids[i]]>>])

\* The bytes of the first structures of a list, one structure at a time.
LEMMA FlatNext ==
  ASSUME NEW kids \in Seq(Structure),
         \A i \in 1 .. Len(kids) : Bytes[kids[i]] \in Octets
  PROVE  /\ Flat(kids, 0) = <<>>
         /\ Inner(kids, Bytes) = Flat(kids, Len(kids))
         /\ \A n \in 0 .. Len(kids) : Flat(kids, n) \in Octets
         /\ \A n \in 0 .. Len(kids) :
               n < Len(kids) => Flat(kids, n + 1) = Then(Flat(kids, n), Bytes[kids[n + 1]])
<1>0. Len(kids) \in Nat /\ DOMAIN kids = 1 .. Len(kids)
  BY LenProperties
<1> DEFINE f == [i \in 1 .. Len(kids) |-> Bytes[kids[i]]]
<1>1. \A n \in 0 .. Len(kids) : Flat(kids, n) = FlattenSeq([i \in 1 .. n |-> f[i]])
  <2> SUFFICES ASSUME NEW n \in 0 .. Len(kids)
               PROVE  Flat(kids, n) = FlattenSeq([i \in 1 .. n |-> f[i]])
    OBVIOUS
  <2>1. \A i \in 1 .. n : f[i] = Bytes[kids[i]]
    BY <1>0
  <2> HIDE DEF f
  <2>2. [i \in 1 .. n |-> f[i]] = [i \in 1 .. n |-> Bytes[kids[i]]]
    BY <2>1
  <2> QED
    BY <2>2 DEF Flat
<1>2. Flat(kids, 0) = <<>>
  <2>1. [i \in 1 .. 0 |-> Bytes[kids[i]]] = <<>>
    OBVIOUS
  <2> QED
    BY <2>1, Flattens DEF Flat
<1>3. ASSUME NEW n \in 0 .. Len(kids), n < Len(kids)
      PROVE  /\ Flat(kids, n) \in Octets
             /\ Flat(kids, n + 1) = Then(Flat(kids, n), Bytes[kids[n + 1]])
             /\ Flat(kids, n + 1) \in Octets
  <2>1. n \in Nat /\ n + 1 \in 0 .. Len(kids) /\ n + 1 \in 1 .. Len(kids)
    BY <1>0, <1>3
  <2>2. \A i \in 1 .. n + 1 : f[i] \in Seq(Nat)
    BY <1>0, <1>3 DEF Octets
  <2>3. f[n + 1] = Bytes[kids[n + 1]] /\ Bytes[kids[n + 1]] \in Octets
    BY <2>1
  <2> HIDE DEF f
  <2>4. /\ FlattenSeq([i \in 1 .. n |-> f[i]]) \in Seq(Nat)
        /\ FlattenSeq([i \in 1 .. n + 1 |-> f[i]])
             = FlattenSeq([i \in 1 .. n |-> f[i]]) \o f[n + 1]
    BY <2>1, <2>2, FlattenNext
  <2>5. /\ Flat(kids, n) \in Octets
        /\ Flat(kids, n + 1) = Then(Flat(kids, n), Bytes[kids[n + 1]])
    BY <1>1, <2>1, <2>3, <2>4 DEF Octets, Then
  <2> QED
    BY <2>3, <2>5, Joined
<1>4. \A n \in 0 .. Len(kids) : Flat(kids, n) \in Octets
  <2> SUFFICES ASSUME NEW n \in 0 .. Len(kids) PROVE Flat(kids, n) \in Octets
    OBVIOUS
  <2>1. CASE n = 0
    BY <1>2, <2>1, NoOctets
  <2>2. CASE n # 0
    <3>1. n - 1 \in 0 .. Len(kids) /\ n - 1 < Len(kids) /\ n - 1 + 1 = n
      BY <1>0, <2>2
    <3> QED
      BY <1>3, <3>1
  <2> QED
    BY <2>1, <2>2
<1>5. Inner(kids, Bytes) = Flat(kids, Len(kids))
  BY <1>0 DEF Inner, Flat
<1> QED
  BY <1>2, <1>3, <1>4, <1>5

\* A list of structures that are each a multiple of eight bytes long is.
LEMMA FlatAligned ==
  ASSUME NEW kids \in Seq(Structure),
         \A i \in 1 .. Len(kids) : Bytes[kids[i]] \in Octets /\ Size(Bytes[kids[i]]) % 8 = 0
  PROVE  \A n \in 0 .. Len(kids) : Size(Flat(kids, n)) % 8 = 0
<1> DEFINE S == { n \in 0 .. Len(kids) : Size(Flat(kids, n)) % 8 = 0 }
<1>0. Len(kids) \in Nat
  BY LenProperties
<1>1. 0 \in S
  <2>1. Size(Flat(kids, 0)) = 0
    BY FlatNext, NoOctets
  <2> QED
    BY <1>0, <2>1
<1>2. ASSUME NEW n \in 0 .. Len(kids), n < Len(kids), n \in S PROVE n + 1 \in S
  <2>1. n + 1 \in 1 .. Len(kids) /\ n + 1 \in 0 .. Len(kids)
    BY <1>0, <1>2
  <2>2. /\ Flat(kids, n + 1) = Then(Flat(kids, n), Bytes[kids[n + 1]])
        /\ Flat(kids, n) \in Octets /\ Bytes[kids[n + 1]] \in Octets
    BY <1>2, <2>1, FlatNext
  <2>3. /\ Size(Flat(kids, n + 1)) = Size(Flat(kids, n)) + Size(Bytes[kids[n + 1]])
        /\ Size(Flat(kids, n)) \in Nat /\ Size(Bytes[kids[n + 1]]) \in Nat
    BY <2>2, Joined
  <2>4. Size(Flat(kids, n)) % 8 = 0 /\ Size(Bytes[kids[n + 1]]) % 8 = 0
    BY <1>2, <2>1
  <2>5. \A x, y \in Nat : x % 8 = 0 /\ y % 8 = 0 => (x + y) % 8 = 0
    OBVIOUS
  <2>6. Size(Flat(kids, n + 1)) % 8 = 0
    BY <2>3, <2>4, <2>5
  <2> QED
    BY <2>1, <2>6
<1> HIDE DEF S
<1>3. 0 .. Len(kids) \subseteq S
  BY <1>0, <1>1, <1>2, Upwards
<1> QED
  BY <1>3 DEF S

\* Where a list lies, each structure lies behind those before it.
LEMMA LiesFlat ==
  ASSUME NEW kids \in Seq(Structure),
         \A i \in 1 .. Len(kids) : Bytes[kids[i]] \in Octets,
         NEW b \in Octets, NEW at \in Nat, Lies(Flat(kids, Len(kids)), b, at)
  PROVE  \A n \in 0 .. Len(kids) :
            /\ Lies(Flat(kids, n), b, at)
            /\ Size(Flat(kids, n)) \in Nat
            /\ Size(Flat(kids, n)) <= Size(Flat(kids, Len(kids)))
            /\ n < Len(kids) =>
                 /\ Lies(Bytes[kids[n + 1]], b, at + Size(Flat(kids, n)))
                 /\ Size(Flat(kids, n + 1)) = Size(Flat(kids, n)) + Size(Bytes[kids[n + 1]])
                 /\ Size(Bytes[kids[n + 1]]) \in Nat
<1> DEFINE L == Len(kids)
<1> DEFINE Fine(n) == /\ Lies(Flat(kids, n), b, at)
                      /\ Size(Flat(kids, n)) <= Size(Flat(kids, L))
<1> DEFINE S == { k \in 0 .. L : Fine(L - k) }
<1>0. L \in Nat
  BY LenProperties
<1>1. ASSUME NEW n \in 0 .. L, n < L
      PROVE  /\ Flat(kids, n + 1) = Then(Flat(kids, n), Bytes[kids[n + 1]])
             /\ Flat(kids, n) \in Octets /\ Bytes[kids[n + 1]] \in Octets
             /\ Size(Flat(kids, n + 1)) = Size(Flat(kids, n)) + Size(Bytes[kids[n + 1]])
             /\ Size(Flat(kids, n)) \in Nat /\ Size(Bytes[kids[n + 1]]) \in Nat
  <2>1. n + 1 \in 1 .. L
    BY <1>0, <1>1
  <2>2. /\ Flat(kids, n + 1) = Then(Flat(kids, n), Bytes[kids[n + 1]])
        /\ Flat(kids, n) \in Octets /\ Bytes[kids[n + 1]] \in Octets
    BY <1>1, <2>1, FlatNext
  <2> QED
    BY <2>2, Joined
<1>2. \A n \in 0 .. L : Size(Flat(kids, n)) \in Nat
  BY FlatNext, Sized1
<1>3. 0 \in S
  BY <1>0, <1>2
<1>4. ASSUME NEW n \in 0 .. L, n < L, Fine(n + 1) PROVE Fine(n) /\ Lies(Bytes[kids[n + 1]], b, at + Size(Flat(kids, n)))
  <2>1. Lies(Flat(kids, n), b, at) /\ Lies(Bytes[kids[n + 1]], b, at + Size(Flat(kids, n)))
    BY <1>1, <1>4, LiesThen
  <2>2. n + 1 \in 0 .. L
    BY <1>0, <1>4
  <2>3. Size(Flat(kids, n)) <= Size(Flat(kids, L))
    <3>1. /\ Size(Flat(kids, n + 1)) = Size(Flat(kids, n)) + Size(Bytes[kids[n + 1]])
          /\ Size(Flat(kids, n)) \in Nat /\ Size(Bytes[kids[n + 1]]) \in Nat
          /\ Size(Flat(kids, n + 1)) <= Size(Flat(kids, L)) /\ Size(Flat(kids, L)) \in Nat
      BY <1>0, <1>1, <1>2, <1>4
    <3> HIDE DEF L
    <3> QED
      BY <3>1
  <2> QED
    BY <2>1, <2>3
<1>5. ASSUME NEW k \in 0 .. L, k < L, k \in S PROVE k + 1 \in S
  <2>1. L - (k + 1) \in 0 .. L /\ L - (k + 1) < L /\ L - (k + 1) + 1 = L - k
    BY <1>0, <1>5
  <2>2. Fine(L - (k + 1) + 1)
    BY <1>5, <2>1
  <2>3. Fine(L - (k + 1))
    BY <1>4, <2>1, <2>2
  <2> HIDE DEF Fine
  <2> QED
    BY <1>0, <1>5, <2>3
<1>6. 0 .. L \subseteq S
  <2> HIDE DEF S, L
  <2> QED
    BY <1>0, <1>3, <1>5, Upwards
<1>7. \A n \in 0 .. L : Fine(n)
  <2> SUFFICES ASSUME NEW n \in 0 .. L PROVE Fine(n)
    OBVIOUS
  <2>1. L - n \in S /\ L - (L - n) = n
    <3>1. L - n \in 0 .. L /\ L - (L - n) = n
      BY <1>0
    <3> HIDE DEF S
    <3> QED
      BY <1>6, <3>1
  <2>2. Fine(L - (L - n))
    BY <2>1
  <2> HIDE DEF Fine
  <2> QED
    BY <2>1, <2>2
<1>8. \A n \in 0 .. L : n < L => n + 1 \in 0 .. L
  BY <1>0
<1> QED
  BY <1>1, <1>2, <1>4, <1>7, <1>8

\* What is heard of a list, one structure after the other.
LEMMA HeardNext ==
  ASSUME NEW kids \in Seq(Structure)
  PROVE  /\ Heard(kids, 0) = <<>>
         /\ Without(kids, Known) = Heard(kids, Len(kids))
         /\ \A n \in 0 .. Len(kids) : Heard(kids, n) \in Seq({Known[o] : o \in Structure})
         /\ \A n \in 0 .. Len(kids) : n < Len(kids) =>
               Heard(kids, n + 1) = IF PassedOver(kids[n + 1]) THEN Heard(kids, n)
                                    ELSE Append(Heard(kids, n), Known[kids[n + 1]])
<1> DEFINE T == {Known[o] : o \in Structure}
<1>0. Len(kids) \in Nat /\ DOMAIN kids = 1 .. Len(kids) /\ \A i \in 1 .. Len(kids) : kids[i] \in Structure
  BY LenProperties, ElementOfSeq
<1> DEFINE part(i) == IF PassedOver(kids[i]) THEN <<>> ELSE <<Known[kids[i]]>>
<1> DEFINE f == [i \in 1 .. Len(kids) |-> part(i)]
<1>1. \A n \in 0 .. Len(kids) : Heard(kids, n) = FlattenSeq([i \in 1 .. n |-> f[i]])
  <2> SUFFICES ASSUME NEW n \in 0 .. Len(kids)
               PROVE  Heard(kids, n) = FlattenSeq([i \in 1 .. n |-> f[i]])
    OBVIOUS
  <2>1. \A i \in 1 .. n : f[i] = part(i)
    BY <1>0
  <2> HIDE DEF f
  <2>2. [i \in 1 .. n |-> f[i]] = [i \in 1 .. n |-> part(i)]
    BY <2>1
  <2> QED
    BY <2>2 DEF Heard
<1>2. Heard(kids, 0) = <<>>
  <2>1. [i \in 1 .. 0 |-> part(i)] = <<>>
    OBVIOUS
  <2> QED
    BY <2>1, Flattens DEF Heard
<1>3. \A i \in 1 .. Len(kids) : f[i] \in Seq(T)
  <2> SUFFICES ASSUME NEW i \in 1 .. Len(kids) PROVE part(i) \in Seq(T)
    OBVIOUS
  <2>1. Known[kids[i]] \in T
    BY <1>0
  <2> HIDE DEF T
  <2>2. <<Known[kids[i]]>> \in Seq(T) /\ <<>> \in Seq(T)
    BY <2>1
  <2> QED
    BY <2>2
<1> HIDE DEF T
<1>4. ASSUME NEW n \in 0 .. Len(kids), n < Len(kids)
      PROVE  /\ Heard(kids, n) \in Seq(T)
             /\ Heard(kids, n + 1) = Heard(kids, n) \o part(n + 1)
             /\ Heard(kids, n + 1) \in Seq(T)
  <2>1. n \in Nat /\ n + 1 \in 0 .. Len(kids) /\ n + 1 \in 1 .. Len(kids)
    BY <1>0, <1>4
  <2>2. \A i \in 1 .. n + 1 : f[i] \in Seq(T)
    <3>1. \A i \in 1 .. n + 1 : i \in 1 .. Len(kids)
      BY <1>0, <1>4
    <3> HIDE DEF f
    <3> QED
      BY <1>3, <3>1
  <2>3. f[n + 1] = part(n + 1) /\ f[n + 1] \in Seq(T)
    BY <1>3, <2>1
  <2> HIDE DEF f, part
  <2>4. /\ FlattenSeq([i \in 1 .. n |-> f[i]]) \in Seq(T)
        /\ FlattenSeq([i \in 1 .. n + 1 |-> f[i]])
             = FlattenSeq([i \in 1 .. n |-> f[i]]) \o f[n + 1]
    BY <2>1, <2>2, FlattenNext
  <2>5. /\ Heard(kids, n) \in Seq(T)
        /\ Heard(kids, n + 1) = Heard(kids, n) \o part(n + 1)
    BY <1>1, <2>1, <2>3, <2>4
  <2>6. Heard(kids, n) \o part(n + 1) \in Seq(T)
    BY <2>3, <2>5, ConcatProperties
  <2> QED
    BY <2>5, <2>6
<1>5. \A n \in 0 .. Len(kids) : Heard(kids, n) \in Seq(T)
  <2> SUFFICES ASSUME NEW n \in 0 .. Len(kids) PROVE Heard(kids, n) \in Seq(T)
    OBVIOUS
  <2>1. CASE n = 0
    BY <1>2, <2>1, EmptySeq
  <2>2. CASE n # 0
    <3>1. n - 1 \in 0 .. Len(kids) /\ n - 1 < Len(kids) /\ n - 1 + 1 = n
      BY <1>0, <2>2
    <3> QED
      BY <1>4, <3>1
  <2> QED
    BY <2>1, <2>2
<1>6. ASSUME NEW n \in 0 .. Len(kids), n < Len(kids)
      PROVE  Heard(kids, n + 1) = IF PassedOver(kids[n + 1]) THEN Heard(kids, n)
                                  ELSE Append(Heard(kids, n), Known[kids[n + 1]])
  <2>1. Heard(kids, n + 1) = Heard(kids, n) \o part(n + 1) /\ Heard(kids, n) \in Seq(T)
    BY <1>4, <1>6
  <2>2. CASE PassedOver(kids[n + 1])
    <3>1. part(n + 1) = <<>>
      BY <2>2
    <3> HIDE DEF part
    <3> QED
      BY <2>1, <2>2, <3>1, ConcatEmptySeq
  <2>3. CASE ~PassedOver(kids[n + 1])
    <3>1. part(n + 1) = <<Known[kids[n + 1]]>>
      BY <2>3
    <3>2. Known[kids[n + 1]] \in T
      <4>1. n + 1 \in 1 .. Len(kids)
        BY <1>0, <1>6
      <4> QED
        BY <1>0, <4>1 DEF T
    <3> HIDE DEF part
    <3>3. Append(Heard(kids, n), Known[kids[n + 1]]) = Heard(kids, n) \o <<Known[kids[n + 1]]>>
      BY <2>1, <3>2, AppendIsConcat
    <3> QED
      BY <2>1, <2>3, <3>1, <3>3
  <2> QED
    BY <2>2, <2>3
<1>7. Without(kids, Known) = Heard(kids, Len(kids))
  BY <1>0 DEF Without, Heard
<1> QED
  BY <1>2, <1>5, <1>6, <1>7 DEF T

(***************************************************************************)
(* What each kind of structure is serialized as.                           *)
(***************************************************************************)

IsSetField(o) == o.kind = "action" /\ o.type = "set_field"

\* What every structure is: four parts, made well, its bytes from those inside.
LEMMA StructureParts ==
  ASSUME NEW o \in Structure
  PROVE  /\ o = Node(o.kind, o.type, o.body, o.kids)
         /\ o.kind \in STRING /\ o.type \in STRING
         /\ o.body \in Octets /\ o.kids \in Seq(Structure)
         /\ Len(o.kids) \in Nat /\ DOMAIN o.kids = 1 .. Len(o.kids)
         /\ \A i \in 1 .. Len(o.kids) : o.kids[i] \in Structure
         /\ WellMade(o) /\ Bytes[o] = Encode(o, Inner(o.kids, Bytes))
<1>1. /\ o \in [kind : STRING, type : STRING, body : Seq(Byte), kids : Seq(Structure)]
      /\ WellMade(o)
  BY StructureForm
<1>2. o = Node(o.kind, o.type, o.body, o.kids)
  BY <1>1 DEF Node
<1>3. o.body \in Octets
  <2>1. o.body \in Seq(Byte) /\ Byte \subseteq Nat
    BY <1>1 DEF Byte
  <2> QED
    BY <2>1, SeqMonotonic DEF Octets
<1>4. o.kids \in Seq(Structure)
  BY <1>1
<1>5. /\ Len(o.kids) \in Nat /\ DOMAIN o.kids = 1 .. Len(o.kids)
      /\ \A i \in 1 .. Len(o.kids) : o.kids[i] \in Structure
  BY <1>4, LenProperties, ElementOfSeq
<1> QED
  BY <1>1, <1>2, <1>3, <1>4, <1>5, BytesRule

\* The kinds there are.
LEMMA Kinds ==
  ASSUME NEW o, WellMade(o)
  PROVE  /\ IsSetField(o) => SetFieldFits(o)
         /\ ~IsSetField(o) => Fits(ListIn(o), o.kids)
         /\ o.kind \in {"oxm", "oxm_w"} => OxmFits(o)
         /\ o.kind = "match" => o = OFPMatch(o.kids)
         /\ ~IsSetField(o) /\ o.kind \in DOMAIN Registries => TlvFits(o)
         /\ o.kind = "nx_action" => NxFits(o)
         /\ o.kind = "table_prop" => TablePropFits(o)
         /\ o.kind \notin {"oxm", "oxm_w", "match", "nx_action", "table_prop"} \cup DOMAIN Registries
              => OtherFits(o)
<1> USE RegistryOf
<1>1. CASE IsSetField(o)
  BY <1>1 DEF IsSetField, WellMade
<1>2. CASE ~IsSetField(o)
  <2>1. /\ Fits(ListIn(o), o.kids)
        /\ CASE o.kind \in {"oxm", "oxm_w"} -> OxmFits(o)
             [] o.kind = "match" -> o = OFPMatch(o.kids)
             [] o.kind \in DOMAIN Registries -> TlvFits(o)
             [] o.kind = "nx_action" -> NxFits(o)
             [] o.kind = "table_prop" -> TablePropFits(o)
             [] OTHER -> OtherFits(o)
    BY <1>2 DEF IsSetField, WellMade
  <2> QED
    BY <1>2, <2>1
<1> QED
  BY <1>1, <1>2

\* The bytes of a match field.
LEMMA EncodeOxm ==
  ASSUME NEW o \in Structure, o.kind \in {"oxm", "oxm_w"}
  PROVE  OxmForm(o) /\ Bytes[o] = oxm_serialize(o) /\ o.kids = <<>>
<1>1. ~IsSetField(o)
  BY DEF IsSetField
<1>2. OxmFits(o) /\ Fits(ListIn(o), o.kids)
  BY <1>1, StructureParts, Kinds
<1>3. ListIn(o) = "none"
  BY SizesOf DEF ListIn
<1>4. o.kids = <<>>
  BY <1>2, <1>3 DEF Fits
<1>5. Encode(o, Inner(o.kids, Bytes)) = oxm_serialize(o)
  <2>1. o.type # "set_field"
    BY <1>2, FieldTable DEF OxmFits
  <2> QED
    BY <2>1, RegistryOf, SizesOf DEF Encode
<1> QED
  BY <1>2, <1>4, <1>5, StructureParts DEF OxmForm

\* Callers set fields whose header has no experimenter in it. The length that
\* OFPActionSetField.serialize counts leaves out the experimenter, so that the
\* padding overwrites the value of any other field (base.py 577).
PlainSettable == \A n \in Settable : Fields[n].exp = NoExp

\* The bytes of a set-field action of a plain field.
LEMMA EncodeSetField ==
  ASSUME PlainSettable, NEW o \in Structure, IsSetField(o)
  PROVE  /\ o.body = <<>> /\ Len(o.kids) = 1
         /\ o.kids[1] \in Structure /\ o.kids[1].kind \in {"oxm", "oxm_w"}
         /\ OxmForm(o.kids[1]) /\ Fields[o.kids[1].type].exp = NoExp
         /\ Bytes[o] = SetField(o.kids[1])
<1>1. SetFieldFits(o)
  BY StructureParts, Kinds
<1>2. o.kids[1] \in Structure
  BY <1>1, StructureParts DEF SetFieldFits
<1>3. OxmForm(o.kids[1])
  BY <1>1, <1>2, EncodeOxm DEF SetFieldFits
<1>4. Encode(o, Inner(o.kids, Bytes)) = SetField(o.kids[1])
  BY RegistryOf, SizesOf DEF Encode, IsSetField
<1> QED
  BY <1>1, <1>2, <1>3, <1>4, StructureParts DEF SetFieldFits, PlainSettable

\* The bytes of a match.
LEMMA EncodeMatch ==
  ASSUME NEW o \in Structure, o.kind = "match"
  PROVE  /\ Bytes[o] = Match(Inner(o.kids, Bytes))
         /\ o.body = <<>> /\ o.type = "oxm" /\ ListIn(o) = "oxm" /\ Fits("oxm", o.kids)
         /\ o = OFPMatch(o.kids)
<1>1. ~IsSetField(o)
  BY DEF IsSetField
<1>2. o = OFPMatch(o.kids) /\ Fits(ListIn(o), o.kids)
  BY <1>1, StructureParts, Kinds
<1>3. ListIn(o) = "oxm"
  BY SizesOf DEF ListIn
<1>4. Encode(o, Inner(o.kids, Bytes)) = Match(Inner(o.kids, Bytes))
  <2>1. o.type # "set_field"
    <3>1. OFPMatch(o.kids).type = "oxm"
      BY DEF OFPMatch
    <3> QED
      BY <1>2, <3>1
  <2> QED
    BY <2>1, RegistryOf, SizesOf DEF Encode
<1>5. o.body = <<>> /\ o.type = "oxm"
  <2>1. OFPMatch(o.kids).body = <<>> /\ OFPMatch(o.kids).type = "oxm"
    BY DEF OFPMatch
  <2> QED
    BY <1>2, <2>1, Zenon
<1> QED
  BY <1>2, <1>3, <1>4, <1>5, StructureParts

\* The bytes of a structure of a registry.
LEMMA EncodeTlv ==
  ASSUME NEW o \in Structure, o.kind \in DOMAIN Registries, ~IsSetField(o)
  PROVE  /\ Bytes[o] = Tagged(Number(Registries[o.kind], o.type),
                              Then(o.body, Inner(o.kids, Bytes)))
         /\ TlvFits(o) /\ Fits(ListIn(o), o.kids)
         /\ ListIn(o) = IF o.kind = "instruction" /\ o.type \in OFPInstructionActions
                        THEN "action" ELSE "none"
<1>1. TlvFits(o) /\ Fits(ListIn(o), o.kids)
  BY StructureParts, Kinds
<1>2. o.type # "set_field"
  <2>1. o.type \in DOMAIN Registries[o.kind] \cup {"unknown"}
    BY <1>1 DEF TlvFits
  <2>2. "set_field" \notin DOMAIN Instructions /\ "set_field" \notin DOMAIN MeterBands
        /\ "set_field" \notin DOMAIN QueueProps /\ "set_field" \notin DOMAIN HelloElements
    BY DEF Instructions, MeterBands, QueueProps, HelloElements
  <2> QED
    BY <2>1, <2>2, RegistryOf DEF IsSetField
<1>3. o.kind \notin {"oxm", "oxm_w", "match", "nx_action", "table_prop"}
  BY RegistryOf
<1>4. Encode(o, Inner(o.kids, Bytes))
        = Tagged(Number(Registries[o.kind], o.type), o.body \o Inner(o.kids, Bytes))
  BY <1>2, <1>3, RegistryOf, SizesOf DEF Encode
<1>5. ListIn(o) = IF o.kind = "instruction" /\ o.type \in OFPInstructionActions
                  THEN "action" ELSE "none"
  BY <1>3, RegistryOf, SizesOf DEF ListIn
<1> QED
  BY <1>1, <1>4, <1>5, StructureParts DEF Then

\* The bytes of a Nicira action.
LEMMA EncodeNx ==
  ASSUME NEW o \in Structure, o.kind = "nx_action"
  PROVE  /\ Bytes[o] = NxAction(Number(NxActions, o.type), Then(o.body, Inner(o.kids, Bytes)))
         /\ NxFits(o) /\ Fits(ListIn(o), o.kids)
         /\ o.type \in DOMAIN NxActions \cup {"unknown"}
         /\ ListIn(o) = IF o.type = "ct" THEN "action" ELSE "none"
<1>1. ~IsSetField(o)
  BY DEF IsSetField
<1>2. NxFits(o) /\ Fits(ListIn(o), o.kids)
  BY <1>1, StructureParts, Kinds
<1>3. o.type \in DOMAIN NxActions \cup {"unknown"} /\ o.type # "set_field"
  <2>1. "nat" \in DOMAIN NxActions /\ "ct" \in DOMAIN NxActions
        /\ "set_field" \notin DOMAIN NxActions
    BY DEF NxActions
  <2> QED
    BY <1>2, <2>1 DEF NxFits
<1>4. Encode(o, Inner(o.kids, Bytes))
        = NxAction(Number(NxActions, o.type), o.body \o Inner(o.kids, Bytes))
  BY <1>3, RegistryOf, SizesOf DEF Encode
<1>5. ListIn(o) = IF o.type = "ct" THEN "action" ELSE "none"
  BY SizesOf DEF ListIn
<1> QED
  BY <1>2, <1>3, <1>4, <1>5, StructureParts DEF Then

\* The bytes of a table feature property.
LEMMA EncodeTableProp ==
  ASSUME NEW o \in Structure, o.kind = "table_prop"
  PROVE  /\ Bytes[o] = TableProp(Number(TableProps, o.type), Then(o.body, Inner(o.kids, Bytes)))
         /\ o.type \in DOMAIN TableProps \cup {"unknown"}
         /\ ListIn(o) # "none" => o.body = <<>>
         /\ Fits(ListIn(o), o.kids)
         /\ ListIn(o) = IF o.type = "unknown" THEN "none" ELSE TableProps[o.type].list
         /\ ListIn(o) \in {"none", "id", "oxm_id"}
         /\ o.type = "experimenter" => Size(o.body) >= 8 /\ Size(o.body) % 4 = 0
<1>1. ~IsSetField(o)
  BY DEF IsSetField
<1>2. /\ o.type \in DOMAIN TableProps \cup {"unknown"}
      /\ ListIn(o) # "none" => o.body = <<>>
      /\ Fits(ListIn(o), o.kids)
      /\ o.type = "experimenter" => Size(o.body) >= 8 /\ Size(o.body) % 4 = 0
  BY <1>1, StructureParts, Kinds DEF TablePropFits, Size
<1>3. o.type # "set_field" /\ "unknown" \notin DOMAIN TableProps
  BY <1>2 DEF TableProps
<1>4. Encode(o, Inner(o.kids, Bytes))
        = TableProp(Number(TableProps, o.type), o.body \o Inner(o.kids, Bytes))
  BY <1>3, RegistryOf, SizesOf DEF Encode
<1>5. ListIn(o) = IF o.type = "unknown" THEN "none" ELSE TableProps[o.type].list
  BY <1>2, <1>3, SizesOf DEF ListIn
<1>6. \A n \in DOMAIN TableProps : TableProps[n].list \in {"none", "id", "oxm_id"}
  BY DEF TableProps
<1> QED
  BY <1>2, <1>4, <1>5, <1>6, StructureParts DEF Then

\* All the others have the name of their kind as their type.
LEMMA EncodeOther ==
  ASSUME NEW o \in Structure,
         o.kind \notin {"oxm", "oxm_w", "match", "nx_action", "table_prop"} \cup DOMAIN Registries
  PROVE  /\ OtherFits(o) /\ Fits(ListIn(o), o.kids)
         /\ ListIn(o) = IF o.kind \in DOMAIN SizedKinds THEN SizedKinds[o.kind].list ELSE "none"
         /\ Bytes[o] =
              CASE o.kind = "id" -> Then(o.body, U16(4))
                [] o.kind = "bucket" ->
                     Then(WithLength(OFPBucket, o.body,
                                     round_up(16 + Size(Inner(o.kids, Bytes)), 8)),
                          Inner(o.kids, Bytes))
                [] o.kind \in DOMAIN SizedKinds \ {"bucket"} ->
                     Then(WithLength(SizedKinds[o.kind], o.body,
                                     SizedKinds[o.kind].head + Size(Inner(o.kids, Bytes))),
                          Inner(o.kids, Bytes))
                [] OTHER -> o.body
<1>1. ~IsSetField(o)
  BY RegistryOf DEF IsSetField
<1>2. OtherFits(o) /\ Fits(ListIn(o), o.kids)
  BY <1>1, StructureParts, Kinds
<1>3. o.type # "set_field" /\ o.kind \notin {"oxm", "oxm_w", "match", "nx_action", "table_prop"}
  BY <1>2, SizesOf DEF OtherFits
<1>4. OFPBucket.head = 16
  BY SizesOf
<1>5. Encode(o, Inner(o.kids, Bytes)) =
        CASE o.kind = "id" -> o.body \o U16(4)
          [] o.kind = "bucket" -> OFPBucketBytes(o.body, Inner(o.kids, Bytes))
          [] o.kind \in DOMAIN SizedKinds \ {"bucket"} ->
               WithLength(SizedKinds[o.kind], o.body,
                          SizedKinds[o.kind].head + Len(Inner(o.kids, Bytes)))
                 \o Inner(o.kids, Bytes)
          [] OTHER -> o.body
  BY <1>3 DEF Encode
<1>6. ListIn(o) = IF o.kind \in DOMAIN SizedKinds THEN SizedKinds[o.kind].list ELSE "none"
  BY <1>3, RegistryOf DEF ListIn
<1>7. OFPBucketBytes(o.body, Inner(o.kids, Bytes)) =
        Then(WithLength(OFPBucket, o.body, round_up(16 + Size(Inner(o.kids, Bytes)), 8)),
             Inner(o.kids, Bytes))
  BY <1>4 DEF OFPBucketBytes, Then, Size
<1> QED
  BY <1>2, <1>5, <1>6, <1>7, StructureParts DEF Then, Size

(***************************************************************************)
(* How long structures are: at least a header, and all but a few a         *)
(* multiple of eight bytes.                                                *)
(***************************************************************************)

Loose == {"oxm", "oxm_w", "hello_element", "id", "oxm_id", "experimenter_stats"}

\* Long enough to be read, and aligned, but for the kinds that are packed.
Good(o) ==
    /\ Bytes[o] \in Octets /\ 4 <= Size(Bytes[o])
    /\ o.kind \notin Loose => Size(Bytes[o]) % 8 = 0

\* Only loose lists hold loose structures.
LEMMA FitKinds ==
  ASSUME NEW list, list \notin Loose, NEW kids \in Seq(Structure), Fits(list, kids)
  PROVE  \A i \in 1 .. Len(kids) : kids[i].kind \notin Loose
<1>0. Len(kids) \in Nat /\ DOMAIN kids = 1 .. Len(kids)
  BY LenProperties
<1> SUFFICES ASSUME NEW i \in 1 .. Len(kids) PROVE kids[i].kind \notin Loose
  OBVIOUS
<1>1. CASE list \in {"none", "data"}
  BY <1>0, <1>1, EmptySeq DEF Fits
<1>2. CASE list = "match"
  <2>1. i = 1
    BY <1>0, <1>2 DEF Fits
  <2> QED
    BY <1>2, <2>1 DEF Fits, Loose
<1>3. CASE list = "flow"
  <2>1. kids[1].kind = "match" /\ \A j \in 2 .. Len(kids) : kids[j].kind = "instruction"
    BY <1>3 DEF Fits
  <2>2. i = 1 \/ i \in 2 .. Len(kids)
    BY <1>0
  <2> QED
    BY <2>1, <2>2 DEF Loose
<1>4. CASE list = "action"
  BY <1>0, <1>4 DEF Fits, Loose
<1>5. CASE list \notin {"none", "data", "match", "flow", "action"}
  BY <1>0, <1>5 DEF Fits, Loose
<1> QED
  BY <1>1, <1>2, <1>3, <1>4, <1>5

\* Where there is no list, nothing is inside.
LEMMA NoKids ==
  ASSUME NEW list \in {"none", "data"}, NEW kids, Fits(list, kids)
  PROVE  kids = <<>>
BY DEF Fits

\* Good structures in a list make it as long as it should be.
LEMMA InnerGood ==
  ASSUME NEW o \in Structure, \A i \in 1 .. Len(o.kids) : Good(o.kids[i])
  PROVE  /\ Inner(o.kids, Bytes) \in Octets /\ Size(Inner(o.kids, Bytes)) \in Nat
         /\ Inner(o.kids, Bytes) = Flat(o.kids, Len(o.kids))
         /\ o.kids = <<>> => Inner(o.kids, Bytes) = <<>>
         /\ (\A i \in 1 .. Len(o.kids) : o.kids[i].kind \notin Loose)
               => Size(Inner(o.kids, Bytes)) % 8 = 0
<1>0. o.kids \in Seq(Structure) /\ Len(o.kids) \in Nat /\ Len(o.kids) \in 0 .. Len(o.kids)
  BY StructureParts
<1>1. \A i \in 1 .. Len(o.kids) : Bytes[o.kids[i]] \in Octets
  BY DEF Good
<1>2. /\ Inner(o.kids, Bytes) \in Octets
      /\ Inner(o.kids, Bytes) = Flat(o.kids, Len(o.kids))
      /\ Flat(o.kids, 0) = <<>>
  BY <1>0, <1>1, FlatNext
<1>3. o.kids = <<>> => Inner(o.kids, Bytes) = <<>>
  <2>1. o.kids = <<>> => Len(o.kids) = 0
    BY EmptySeq
  <2> QED
    BY <1>2, <2>1
<1>4. ASSUME \A i \in 1 .. Len(o.kids) : o.kids[i].kind \notin Loose
      PROVE  Size(Inner(o.kids, Bytes)) % 8 = 0
  <2>1. \A i \in 1 .. Len(o.kids) : Bytes[o.kids[i]] \in Octets /\ Size(Bytes[o.kids[i]]) % 8 = 0
    BY <1>4 DEF Good
  <2>2. Size(Flat(o.kids, Len(o.kids))) % 8 = 0
    BY <1>0, <2>1, FlatAligned
  <2> QED
    BY <1>2, <2>2
<1> QED
  BY <1>2, <1>3, <1>4, Sized1

\* Sums of multiples of 8, with and without a header of four bytes.
LEMMA Multiples ==
  /\ \A x, y \in Nat : x % 8 = 0 /\ y % 8 = 0 => (x + y) % 8 = 0
  /\ \A x, y \in Nat : x % 8 = 4 /\ y % 8 = 0 => (4 + (x + y)) % 8 = 0
OBVIOUS

\* A structure of a registry is good if those inside are.
LEMMA TlvGood ==
  ASSUME NEW o \in Structure, o.kind \in DOMAIN Registries, ~IsSetField(o),
         \A i \in 1 .. Len(o.kids) : Good(o.kids[i])
  PROVE  /\ Good(o) /\ Number(Registries[o.kind], o.type) \in Nat
         /\ Then(o.body, Inner(o.kids, Bytes)) \in Octets
         /\ Size(Then(o.body, Inner(o.kids, Bytes))) = Size(o.body) + Size(Inner(o.kids, Bytes))
         /\ Size(Bytes[o]) = 4 + (Size(o.body) + Size(Inner(o.kids, Bytes)))
         /\ Size(o.body) \in Nat /\ Size(Inner(o.kids, Bytes)) \in Nat
<1> DEFINE inner == Inner(o.kids, Bytes)
<1>1. inner \in Octets /\ o.body \in Octets /\ Size(inner) \in Nat /\ Size(o.body) \in Nat
  BY InnerGood, StructureParts, Sized1
<1>2. Number(Registries[o.kind], o.type) \in Nat
  <2>1. Registers(Registries[o.kind])
    BY RegistryOf
  <2>2. o.type \in DOMAIN Registries[o.kind] \cup {"unknown"}
    BY EncodeTlv DEF TlvFits
  <2> QED
    BY <2>1, <2>2, LookupNumber
<1>3. Bytes[o] = Tagged(Number(Registries[o.kind], o.type), Then(o.body, inner))
  BY EncodeTlv
<1>4. ListIn(o) \in {"none", "action"} /\ Fits(ListIn(o), o.kids)
  BY EncodeTlv
<1>5. Size(inner) % 8 = 0
  <2>1. ListIn(o) \notin Loose /\ o.kids \in Seq(Structure)
    BY <1>4, StructureParts DEF Loose
  <2>2. \A i \in 1 .. Len(o.kids) : o.kids[i].kind \notin Loose
    BY <1>4, <2>1, FitKinds
  <2> QED
    BY <2>2, InnerGood
<1> HIDE DEF inner
<1>6. Then(o.body, inner) \in Octets /\ Size(Then(o.body, inner)) = Size(o.body) + Size(inner)
  BY <1>1, Joined
<1>7. Bytes[o] \in Octets /\ Size(Bytes[o]) = 4 + (Size(o.body) + Size(inner))
  BY <1>2, <1>3, <1>6, TaggedParts
<1>8. o.kind # "hello_element" => Size(o.body) % 8 = 4
  BY EncodeTlv DEF TlvFits, Size
<1>9. o.kind \notin Loose => Size(Bytes[o]) % 8 = 0
  BY <1>1, <1>5, <1>7, <1>8, Multiples DEF Loose
<1>10. 4 <= Size(Bytes[o])
  BY <1>1, <1>7
<1> QED
  BY <1>1, <1>2, <1>6, <1>7, <1>9, <1>10 DEF Good, inner

\* A Nicira action is good if those inside are.
LEMMA NxGood ==
  ASSUME NEW o \in Structure, o.kind = "nx_action",
         \A i \in 1 .. Len(o.kids) : Good(o.kids[i])
  PROVE  /\ Good(o) /\ Number(NxActions, o.type) \in Nat
         /\ Then(o.body, Inner(o.kids, Bytes)) \in Octets
         /\ Size(Then(o.body, Inner(o.kids, Bytes))) = Size(o.body) + Size(Inner(o.kids, Bytes))
         /\ Size(Bytes[o]) = round_up(10 + (Size(o.body) + Size(Inner(o.kids, Bytes))), 8)
         /\ Size(o.body) \in Nat /\ Size(Inner(o.kids, Bytes)) \in Nat
         /\ Size(Inner(o.kids, Bytes)) % 8 = 0
<1> DEFINE inner == Inner(o.kids, Bytes)
<1> DEFINE data == Then(o.body, inner)
<1>1. inner \in Octets /\ o.body \in Octets /\ Size(inner) \in Nat /\ Size(o.body) \in Nat
  BY InnerGood, StructureParts, Sized1
<1>2. Number(NxActions, o.type) \in Nat
  BY EncodeNx, OtherNumbers, LookupNumber
<1>3. Bytes[o] = NxAction(Number(NxActions, o.type), data)
  BY EncodeNx
<1>4. Size(inner) % 8 = 0
  <2>1. ListIn(o) \notin Loose /\ o.kids \in Seq(Structure) /\ Fits(ListIn(o), o.kids)
    BY EncodeNx, StructureParts DEF Loose
  <2>2. \A i \in 1 .. Len(o.kids) : o.kids[i].kind \notin Loose
    BY <2>1, FitKinds
  <2> QED
    BY <2>2, InnerGood
<1>5. data \in Octets /\ Size(data) = Size(o.body) + Size(inner)
  <2> HIDE DEF inner
  <2> QED
    BY <1>1, Joined
<1> HIDE DEF inner, data
<1>6. Bytes[o] \in Octets /\ Size(Bytes[o]) = round_up(10 + Size(data), 8)
  BY <1>2, <1>3, <1>5, NxParts
<1>7. 10 + Size(data) \in Nat
  BY <1>1, <1>5
<1>8. Size(Bytes[o]) % 8 = 0 /\ 10 + Size(data) <= Size(Bytes[o]) /\ Size(Bytes[o]) \in Nat
  BY <1>6, <1>7, RoundUp
<1>9. 4 <= Size(Bytes[o])
  BY <1>1, <1>5, <1>8
<1> QED
  BY <1>1, <1>2, <1>4, <1>5, <1>6, <1>8, <1>9 DEF Good, inner, data

\* A tagged structure with padding is good.
LEMMA PaddedGood ==
  ASSUME NEW number \in Nat, NEW body \in Octets,
         NEW s, s = Then(Tagged(number, body), Padding(4 + Size(body)))
  PROVE  s \in Octets /\ 4 <= Size(s) /\ Size(s) % 8 = 0 /\ Size(s) = round_up(4 + Size(body), 8)
<1>1. s \in Octets /\ Size(s) = round_up(4 + Size(body), 8)
  BY PaddedParts
<1>2. Size(body) \in Nat
  BY Sized1
<1>3. 4 + Size(body) \in Nat
  BY <1>2
<1>4. Size(s) % 8 = 0 /\ 4 + Size(body) <= Size(s) /\ Size(s) \in Nat
  BY <1>1, <1>3, RoundUp
<1> QED
  BY <1>1, <1>2, <1>4

\* A structure with a length in its head is good if those inside are.
LEMMA SizedGood ==
  ASSUME NEW o \in Structure, o.kind \in DOMAIN SizedKinds,
         \A i \in 1 .. Len(o.kids) : Good(o.kids[i])
  PROVE  LET k == SizedKinds[o.kind] IN
         /\ Good(o) /\ k.length_at <= Size(o.body) /\ Size(o.body) = k.head - 2
         /\ Size(Bytes[o]) = k.head + Size(Inner(o.kids, Bytes))
         /\ Size(Inner(o.kids, Bytes)) \in Nat
         /\ Bytes[o] = Then(WithLength(k, o.body, k.head + Size(Inner(o.kids, Bytes))),
                            Inner(o.kids, Bytes))
<1> DEFINE k == SizedKinds[o.kind]
<1> DEFINE inner == Inner(o.kids, Bytes)
<1>1. inner \in Octets /\ o.body \in Octets /\ Size(inner) \in Nat /\ Size(o.body) \in Nat
  BY InnerGood, StructureParts, Sized1
<1>2. /\ k.head \in Nat /\ k.head >= 8 /\ k.head % 8 = 0
      /\ k.length_at \in Nat /\ k.length_at <= k.head - 2
      /\ k.list \notin Loose
  BY SizesOf DEF Loose
<1>3. o.kind \notin {"oxm", "oxm_w", "match", "nx_action", "table_prop"} \cup DOMAIN Registries
  BY SizesOf, RegistryOf
<1>4. OtherFits(o) /\ Fits(ListIn(o), o.kids) /\ ListIn(o) = k.list
  BY <1>3, EncodeOther
<1>5. Size(o.body) = k.head - 2
  BY <1>4, SizesOf DEF OtherFits, Size
<1>6. Size(inner) % 8 = 0
  <2>1. \A i \in 1 .. Len(o.kids) : o.kids[i].kind \notin Loose
    BY <1>2, <1>4, StructureParts, FitKinds
  <2> QED
    BY <2>1, InnerGood
<1>7. Bytes[o] = Then(WithLength(k, o.body, k.head + Size(inner)), inner)
  <2>1. CASE o.kind = "bucket"
    <3>1. Bytes[o] = Then(WithLength(OFPBucket, o.body, round_up(16 + Size(inner), 8)), inner)
      BY <1>3, <2>1, EncodeOther
    <3>2. k = OFPBucket /\ k.head = 16
      BY <2>1, SizesOf
    <3>3. 16 + Size(inner) \in Nat /\ (16 + Size(inner)) % 8 = 0
      <4>1. 16 % 8 = 0 /\ 16 \in Nat
        OBVIOUS
      <4> HIDE DEF inner
      <4> QED
        BY <1>1, <1>6, <4>1, Multiples
    <3>4. round_up(16 + Size(inner), 8) = 16 + Size(inner)
      BY <3>3, RoundUp
    <3> HIDE DEF inner, k
    <3> QED
      BY <3>1, <3>2, <3>4
  <2>2. CASE o.kind # "bucket"
    BY <1>3, <2>2, EncodeOther, SizesOf
  <2> QED
    BY <2>1, <2>2
<1> HIDE DEF k, inner
<1>8. k.length_at <= Size(o.body)
  BY <1>1, <1>2, <1>5
<1>9. k.head + Size(inner) \in Nat /\ (k.head + Size(inner)) % 8 = 0
  BY <1>1, <1>2, <1>6, Multiples
<1>10. /\ WithLength(k, o.body, k.head + Size(inner)) \in Octets
       /\ Size(WithLength(k, o.body, k.head + Size(inner))) = Size(o.body) + 2
  BY <1>1, <1>2, <1>8, <1>9, WithLengthParts
<1>11. Bytes[o] \in Octets /\ Size(Bytes[o]) = Size(o.body) + 2 + Size(inner)
  BY <1>1, <1>7, <1>10, Joined
<1>12. Size(Bytes[o]) = k.head + Size(inner)
  BY <1>1, <1>2, <1>5, <1>11
<1>13. 4 <= Size(Bytes[o])
  BY <1>1, <1>2, <1>12
<1> QED
  BY <1>1, <1>5, <1>7, <1>8, <1>9, <1>11, <1>12, <1>13 DEF Good, k, inner

\* A structure without a list is good.
LEMMA PlainGood ==
  ASSUME NEW o \in Structure,
         o.kind \notin {"oxm", "oxm_w", "match", "nx_action", "table_prop"} \cup DOMAIN Registries,
         o.kind \notin DOMAIN SizedKinds
  PROVE  /\ Good(o) /\ o.kids = <<>> /\ OtherFits(o)
         /\ Bytes[o] = IF o.kind = "id" THEN Then(o.body, U16(4)) ELSE o.body
<1>1. OtherFits(o) /\ Fits("none", o.kids)
  BY EncodeOther
<1>2. o.kids = <<>>
  BY <1>1, NoKids
<1>3. Bytes[o] = IF o.kind = "id" THEN Then(o.body, U16(4)) ELSE o.body
  <2>1. o.kind # "bucket" /\ o.kind \notin DOMAIN SizedKinds \ {"bucket"}
    BY SizesOf
  <2> QED
    BY <2>1, EncodeOther
<1>4. o.body \in Octets /\ Size(o.body) \in Nat
  BY StructureParts, Sized1
<1>5. CASE o.kind = "id"
  <2>1. Size(o.body) = 2
    BY <1>1, <1>5, SizesOf DEF OtherFits, Size
  <2>2. U16(4) \in Octets /\ Size(U16(4)) = 2
    BY Halves
  <2>3. /\ Then(o.body, U16(4)) \in Octets
        /\ Size(Then(o.body, U16(4))) = Size(o.body) + Size(U16(4))
    BY <1>4, <2>2, Joined
  <2>4. Bytes[o] = Then(o.body, U16(4))
    BY <1>3, <1>5
  <2>5. Bytes[o] \in Octets /\ Size(Bytes[o]) = 4
    BY <2>1, <2>2, <2>3, <2>4
  <2> QED
    BY <1>1, <1>2, <1>3, <1>5, <2>5 DEF Good, Loose
<1>6. CASE o.kind # "id"
  <2>1. \/ o.kind \in {"oxm_id", "experimenter_stats"} /\ Size(o.body) >= 4
        \/ o.kind \in DOMAIN FixedKinds /\ Size(o.body) = FixedKinds[o.kind]
    <3>1. o.kind \notin DOMAIN SizedKinds
      OBVIOUS
    <3>2. \/ o.kind = "oxm_id" /\ Size(o.body) >= 4
          \/ o.kind = "experimenter_stats" /\ Size(o.body) >= 8
          \/ o.kind \in DOMAIN FixedKinds /\ Size(o.body) = FixedKinds[o.kind]
      BY <1>1, <1>6, <3>1 DEF OtherFits, Size
    <3> QED
      BY <1>4, <3>2
  <2>2. 4 <= Size(o.body) /\ (o.kind \notin Loose => Size(o.body) % 8 = 0)
    BY <1>4, <2>1, SizesOf DEF Loose
  <2> QED
    BY <1>1, <1>2, <1>3, <1>4, <1>6, <2>2 DEF Good
<1> QED
  BY <1>5, <1>6

\* Any structure is good if those inside are.
LEMMA MakeGood ==
  ASSUME PlainSettable, NEW o \in Structure, \A i \in 1 .. Len(o.kids) : Good(o.kids[i])
  PROVE  Good(o)
<1>0. /\ Inner(o.kids, Bytes) \in Octets /\ o.body \in Octets
      /\ Then(o.body, Inner(o.kids, Bytes)) \in Octets
  BY InnerGood, StructureParts, Joined
<1>1. CASE o.kind \in {"oxm", "oxm_w"}
  <2>1. OxmForm(o) /\ Bytes[o] = oxm_serialize(o)
    BY <1>1, EncodeOxm
  <2>2. /\ Bytes[o] \in Octets /\ Size(exp_header(Fields[o.type])) \in Nat /\ Size(o.body) \in Nat
        /\ Size(Bytes[o]) = 4 + Size(exp_header(Fields[o.type])) + Size(o.body)
    BY <2>1, OxmBytes, OxmParts, Sized1
  <2>3. 4 <= Size(Bytes[o])
    BY <2>2
  <2> QED
    BY <1>1, <2>2, <2>3 DEF Good, Loose
<1>2. CASE IsSetField(o)
  <2> DEFINE p == Size(oxm_serialize(o.kids[1]))
  <2>1. /\ OxmForm(o.kids[1]) /\ Fields[o.kids[1].type].exp = NoExp
        /\ Bytes[o] = SetField(o.kids[1])
    BY <1>2, EncodeSetField
  <2>2. Bytes[o] \in Octets /\ Size(Bytes[o]) = round_up(4 + p, 8) /\ p \in Nat
    BY <2>1, SetFieldParts, OxmBytes, Sized1
  <2> HIDE DEF p
  <2>3. 4 + p \in Nat
    BY <2>2
  <2>4. Size(Bytes[o]) \in Nat /\ Size(Bytes[o]) % 8 = 0 /\ 4 + p <= Size(Bytes[o])
    BY <2>2, <2>3, RoundUp
  <2>5. 4 <= Size(Bytes[o])
    BY <2>2, <2>4
  <2> QED
    BY <2>2, <2>4, <2>5 DEF Good
<1>3. CASE o.kind = "match"
  <2>1. Bytes[o] = Then(Tagged(1, Inner(o.kids, Bytes)), Padding(4 + Size(Inner(o.kids, Bytes))))
    BY <1>0, <1>3, EncodeMatch, MatchParts
  <2>2. 1 \in Nat
    OBVIOUS
  <2> QED
    BY <1>0, <2>1, <2>2, PaddedGood DEF Good
<1>4. CASE o.kind \in DOMAIN Registries /\ ~IsSetField(o)
  BY <1>4, TlvGood
<1>5. CASE o.kind = "nx_action"
  BY <1>5, NxGood
<1>6. CASE o.kind = "table_prop"
  <2> DEFINE data == Then(o.body, Inner(o.kids, Bytes))
  <2>1. Number(TableProps, o.type) \in Nat
    BY <1>6, EncodeTableProp, OtherNumbers, LookupNumber
  <2>2. Bytes[o] = TableProp(Number(TableProps, o.type), data)
    BY <1>6, EncodeTableProp
  <2>3. data \in Octets
    BY <1>0
  <2> HIDE DEF data
  <2>4. Bytes[o] = Then(Tagged(Number(TableProps, o.type), data), Padding(4 + Size(data)))
    BY <2>1, <2>2, <2>3, TablePropParts
  <2> QED
    BY <2>1, <2>3, <2>4, PaddedGood DEF Good
<1>7. CASE o.kind \in DOMAIN SizedKinds
  BY <1>7, SizedGood
<1>8. CASE /\ o.kind \notin {"oxm", "oxm_w", "match", "nx_action", "table_prop"} \cup DOMAIN Registries
           /\ o.kind \notin DOMAIN SizedKinds
  BY <1>8, PlainGood
<1> QED
  BY <1>1, <1>2, <1>3, <1>4, <1>5, <1>6, <1>7, <1>8

(* Every structure that can be built, however deep the structures are in each
   other, has at least the four bytes the parsers read of it, and a size that
   is a multiple of eight, but for the few kinds the protocol packs. *)
THEOREM AllGood ==
  ASSUME PlainSettable
  PROVE  \A o \in Structure : Good(o)
<1> DEFINE S == { n \in 0 .. MaxDepth : \A o \in Nested[n] : Good(o) }
<1>0. MaxDepth \in Nat
  BY StructuresAssumption
<1>1. 0 \in S
  BY <1>0, NestedRule
<1>2. ASSUME NEW n \in 0 .. MaxDepth, n < MaxDepth, n \in S PROVE n + 1 \in S
  <2> SUFFICES ASSUME NEW o \in Nested[n + 1] PROVE Good(o)
    BY <1>0, <1>2
  <2>1. o.kids \in Seq(Nested[n])
    BY <1>2, NestedRule DEF Made
  <2>2. o \in Structure
    <3>1. n + 1 \in 0 .. MaxDepth
      BY <1>0, <1>2
    <3> QED
      BY <3>1, NestedWithin
  <2>3. \A i \in 1 .. Len(o.kids) : Good(o.kids[i])
    BY <1>2, <2>1, ElementOfSeq
  <2> QED
    BY <2>2, <2>3, MakeGood
<1> HIDE DEF S
<1>3. 0 .. MaxDepth \subseteq S
  BY <1>0, <1>1, <1>2, Upwards
<1>4. MaxDepth \in S
  BY <1>0, <1>3
<1> QED
  BY <1>4 DEF S, Structure

(***************************************************************************)
(* Reading one structure where its bytes lie.                              *)
(***************************************************************************)

Lists == {"action", "flow", "match", "oxm", "band", "hello_element", "queue_prop",
          "table_prop", "id", "oxm_id", "experimenter_stats"}
            \cup DOMAIN SizedKinds \cup DOMAIN FixedKinds

Bare(o) == [o EXCEPT !.kids = <<>>]

\* The parser goes into the list of a structure, where its list lies.
Opened(o, r, at) == \E from \in Nat :
    /\ r = Holds(Bare(o), Size(Bytes[o]), ListIn(o), from, from + Size(Inner(o.kids, Bytes)))
    /\ ListIn(o) \in Lists /\ Fits(ListIn(o), o.kids)
    /\ Lies(Inner(o.kids, Bytes), buf, from)
    /\ from + Size(Inner(o.kids, Bytes)) <= at + Size(Bytes[o])
    /\ at % 8 = 0 /\ ListIn(o) \notin Loose => from % 8 = 0
    /\ o.kind \notin Loose /\ ~PassedOver(o)

\* What the parser may make of a structure.
Reads(o, r, at) ==
    \/ r = Error /\ Unparsable[o]
    \/ r = Skip(Size(Bytes[o])) /\ PassedOver(o)
    \/ r = Leaf(Known[o], Size(Bytes[o])) /\ ~PassedOver(o)
    \/ Opened(o, r, at)

\* Of a structure without a list nothing is passed over.
LEMMA KnownAlone ==
  ASSUME NEW o \in Structure, o.kids = <<>>
  PROVE  Known[o] = o
<1>1. <<>> \in Seq(Structure) /\ Len(<<>>) = 0
  BY EmptySeq
<1>2. Without(<<>>, Known) = <<>>
  BY <1>1, HeardNext
<1>3. Known[o] = [o EXCEPT !.kids = <<>>]
  BY <1>2, KnownRule
<1>4. o = Node(o.kind, o.type, o.body, <<>>)
  BY StructureParts
<1> QED
  BY <1>3, <1>4 DEF Node

\* Nor is a match field in a set-field action.
LEMMA KnownOxm ==
  ASSUME NEW o \in Structure, Len(o.kids) = 1, o.kids[1].kind \in {"oxm", "oxm_w"}
  PROVE  Known[o] = o
<1>1. o.kids \in Seq(Structure) /\ o.kids[1] \in Structure
  BY StructureParts
<1>2. Known[o.kids[1]] = o.kids[1]
  BY <1>1, EncodeOxm, KnownAlone
<1>3. ~PassedOver(o.kids[1])
  BY DEF PassedOver
<1>4. Heard(o.kids, 0) = <<>> /\ Heard(o.kids, 0 + 1) = Append(Heard(o.kids, 0), Known[o.kids[0 + 1]])
  <2>1. 0 \in 0 .. Len(o.kids) /\ 0 < Len(o.kids) /\ ~PassedOver(o.kids[0 + 1])
    BY <1>3
  <2> QED
    BY <1>1, <2>1, HeardNext
<1>5. Without(o.kids, Known) = Append(<<>>, o.kids[1])
  <2>1. Without(o.kids, Known) = Heard(o.kids, Len(o.kids))
    BY <1>1, HeardNext
  <2>2. 0 + 1 = 1
    OBVIOUS
  <2> QED
    BY <1>2, <1>4, <2>1, <2>2
<1>6. Append(<<>>, o.kids[1]) = o.kids
  BY <1>1
<1>7. Known[o] = [o EXCEPT !.kids = o.kids]
  BY <1>5, <1>6, KnownRule
<1>8. o = Node(o.kind, o.type, o.body, o.kids)
  BY StructureParts
<1> QED
  BY <1>7, <1>8 DEF Node

\* A match field is read where it lies.
LEMMA ReadOxmHere ==
  ASSUME NEW o \in Structure, o.kind \in {"oxm", "oxm_w"}, buf \in Octets,
         NEW at \in Nat, Lies(Bytes[o], buf, at)
  PROVE  Reads(o, ReadOxm(at), at)
<1>1. OxmForm(o) /\ Bytes[o] = oxm_serialize(o) /\ Known[o] = o
  BY EncodeOxm, KnownAlone
<1>2. oxm_parse(buf, at) = [ok |-> TRUE, item |-> o, len |-> Size(oxm_serialize(o))]
  BY <1>1, OxmTlvRoundTrip
<1>3. ReadOxm(at) = Leaf(o, Size(oxm_serialize(o)))
  BY <1>2 DEF ReadOxm
<1>4. ~PassedOver(o)
  BY DEF PassedOver
<1> QED
  BY <1>1, <1>3, <1>4 DEF Reads

\* Without structures inside, the bytes are those of the body.
LEMMA NoInner ==
  ASSUME NEW o \in Structure, o.kids = <<>>
  PROVE  Inner(o.kids, Bytes) = <<>> /\ Then(o.body, Inner(o.kids, Bytes)) = o.body
<1>1. Len(<<>>) = 0 /\ \A i \in 1 .. Len(o.kids) : Good(o.kids[i])
  BY EmptySeq
<1>2. Inner(o.kids, Bytes) = <<>>
  BY <1>1, InnerGood
<1>3. o.body \in Octets
  BY StructureParts
<1> QED
  BY <1>2, <1>3, ThenNothing

\* Where a structure of a registry lies, its class, length and body are found.
LEMMA TlvHere ==
  ASSUME PlainSettable, NEW o \in Structure, o.kind \in DOMAIN Registries, ~IsSetField(o),
         buf \in Octets, NEW at \in Nat, Lies(Bytes[o], buf, at)
  PROVE  /\ Lookup(Registries[o.kind], Type(at)) = o.type
         /\ Length(at) = Size(Bytes[o])
         /\ Lies(Then(o.body, Inner(o.kids, Bytes)), buf, at + 4)
         /\ o.type \in DOMAIN Registries[o.kind] \cup {"unknown"}
<1>1. \A i \in 1 .. Len(o.kids) : Good(o.kids[i])
  BY AllGood, StructureParts
<1> DEFINE number == Number(Registries[o.kind], o.type)
<1> DEFINE data == Then(o.body, Inner(o.kids, Bytes))
<1>2. /\ number \in Nat /\ data \in Octets /\ Size(Bytes[o]) = 4 + Size(data)
  BY <1>1, TlvGood
<1>3. Bytes[o] = Tagged(number, data)
  BY EncodeTlv
<1>4. o.type \in DOMAIN Registries[o.kind] \cup {"unknown"} /\ Registers(Registries[o.kind])
  BY EncodeTlv, RegistryOf DEF TlvFits
<1>5. Lookup(Registries[o.kind], number) = o.type
  BY <1>4, LookupNumber
<1> HIDE DEF number, data
<1>6. Word(buf, at) = number /\ Word(buf, at + 2) = 4 + Size(data) /\ Lies(data, buf, at + 4)
  BY <1>2, <1>3, TaggedRead
<1> QED
  BY <1>2, <1>4, <1>5, <1>6 DEF Type, Length, data

\* One without a list is read as it was.
LEMMA TlvsHere ==
  ASSUME PlainSettable, NEW o \in Structure, o.kind \in DOMAIN Registries, ~IsSetField(o),
         ListIn(o) = "none", o.type # "unknown",
         buf \in Octets, NEW at \in Nat, Lies(Bytes[o], buf, at)
  PROVE  Tlvs(o.kind, at) = Leaf(Known[o], Size(Bytes[o])) /\ ~PassedOver(o)
         /\ At(buf, at + 4, Size(o.body)) = o.body
<1>1. /\ Lookup(Registries[o.kind], Type(at)) = o.type
      /\ Length(at) = Size(Bytes[o])
      /\ Lies(Then(o.body, Inner(o.kids, Bytes)), buf, at + 4)
      /\ o.type \in DOMAIN Registries[o.kind]
  BY TlvHere
<1>2. o.kids = <<>>
  BY EncodeTlv, NoKids
<1>3. Lies(o.body, buf, at + 4) /\ o.body \in Octets /\ Size(o.body) \in Nat
  BY <1>1, <1>2, NoInner, StructureParts, Sized1
<1>4. at + 4 \in Nat
  OBVIOUS
<1>5. At(buf, at + 4, Size(o.body)) = o.body
  BY <1>3, <1>4, LiesAt
<1>6. Registries[o.kind][o.type].size \in {0, Size(o.body)}
  BY <1>1, EncodeTlv DEF TlvFits, Size
<1>7. Size(Bytes[o]) - 4 = Size(o.body)
  <2>1. /\ Size(Bytes[o]) = 4 + (Size(o.body) + Size(Inner(o.kids, Bytes)))
    BY AllGood, StructureParts, TlvGood
  <2>2. Size(Inner(o.kids, Bytes)) = 0
    BY <1>2, NoInner, NoOctets
  <2> QED
    BY <1>3, <2>1, <2>2
<1>8. BodyAt(Registries[o.kind], at) = o.body
  BY <1>1, <1>5, <1>6, <1>7 DEF BodyAt
<1>9. o = Node(o.kind, o.type, o.body, <<>>) /\ Known[o] = o
  BY <1>2, StructureParts, KnownAlone
<1>10. Tlvs(o.kind, at) = Leaf(o, Size(Bytes[o]))
  BY <1>1, <1>8, <1>9 DEF Tlvs
<1> QED
  BY <1>5, <1>9, <1>10 DEF PassedOver

\* An unknown type that stops the parser makes a message unparsable.
LEMMA UnknownType ==
  ASSUME NEW o \in Structure, Fatal(o)
  PROVE  Unparsable[o]
BY UnparsableRule

\* A set-field action is read where it lies.
LEMMA SetFieldHere ==
  ASSUME PlainSettable, NEW o \in Structure, IsSetField(o),
         buf \in Octets, NEW at \in Nat, Lies(Bytes[o], buf, at)
  PROVE  Reads(o, ReadAction(at), at)
<1> DEFINE x == o.kids[1]
<1>1. /\ OxmForm(x) /\ Fields[x.type].exp = NoExp /\ Bytes[o] = SetField(x)
      /\ o.body = <<>> /\ Len(o.kids) = 1 /\ x.kind \in {"oxm", "oxm_w"}
  BY EncodeSetField
<1>2. Known[o] = o
  BY <1>1, KnownOxm
<1>3. o = Node("action", "set_field", <<>>, <<x>>)
  <2>1. o = Node(o.kind, o.type, o.body, o.kids) /\ o.kids \in Seq(Structure)
    BY StructureParts
  <2>2. o.kids = <<o.kids[1]>>
    BY <1>1, <2>1
  <2> QED
    BY <1>1, <2>1, <2>2 DEF IsSetField
<1> HIDE DEF x
<1>4. /\ Word(buf, at) = 25 /\ Word(buf, at + 2) = Size(SetField(x))
      /\ Lies(oxm_serialize(x), buf, at + 4)
  BY <1>1, SetFieldRead
<1>5. Lookup(Actions, Type(at)) = "set_field"
  <2>1. Number(Actions, "set_field") = 25
    BY ActionNumbers DEF Number
  <2> QED
    BY <1>4, <2>1, ActionNumbers, LookupNumber DEF Type
<1>6. at + 4 \in Nat
  OBVIOUS
<1>7. oxm_parse(buf, at + 4) = [ok |-> TRUE, item |-> x, len |-> Size(oxm_serialize(x))]
  BY <1>1, <1>4, <1>6, OxmTlvRoundTrip
<1>8. ReadAction(at) = Leaf(o, Size(Bytes[o]))
  BY <1>1, <1>3, <1>4, <1>5, <1>7 DEF ReadAction, Length
<1>9. ~PassedOver(o)
  BY DEF PassedOver, IsSetField
<1> QED
  BY <1>2, <1>8, <1>9 DEF Reads

\* So is any other action of the registry, or refused if unknown.
LEMMA PlainActionHere ==
  ASSUME PlainSettable, NEW o \in Structure, o.kind = "action", ~IsSetField(o),
         buf \in Octets, NEW at \in Nat, Lies(Bytes[o], buf, at)
  PROVE  Reads(o, ReadAction(at), at)
<1>1. o.kind \in DOMAIN Registries /\ Registries[o.kind] = Actions
  BY RegistryOf
<1>2. Lookup(Actions, Type(at)) = o.type
  BY <1>1, TlvHere
<1>3. CASE o.type = "unknown"
  <2>1. ReadAction(at) = Error
    BY <1>2, <1>3 DEF ReadAction
  <2>2. Unparsable[o]
    BY <1>3, UnknownType DEF Fatal
  <2> QED
    BY <2>1, <2>2 DEF Reads
<1>4. CASE o.type # "unknown"
  <2>1. ListIn(o) = "none"
    BY <1>1, EncodeTlv
  <2>2. /\ Tlvs("action", at) = Leaf(Known[o], Size(Bytes[o])) /\ ~PassedOver(o)
        /\ At(buf, at + 4, Size(o.body)) = o.body
    BY <1>1, <1>4, <2>1, TlvsHere
  <2>3. o.type = "experimenter" => At(buf, at + 4, 4) # NX
    <3>1. SUFFICES ASSUME o.type = "experimenter" PROVE At(buf, at + 4, 4) # NX
      OBVIOUS
    <3>2. Actions[o.type].size = 4 /\ o.type \in DOMAIN Actions
      BY <3>1, ActionNumbers
    <3>3. TlvFits(o)
      BY <1>1, EncodeTlv
    <3>4. Actions[o.type].size \in {0, Size(o.body)}
      BY <1>1, <3>2, <3>3 DEF TlvFits, Size
    <3>5. o.body # NX
      BY <3>1, <3>3 DEF TlvFits
    <3>6. Size(o.body) = 4
      BY <3>2, <3>4
    <3> QED
      BY <2>2, <3>5, <3>6
  <2>4. o.type # "set_field"
    BY DEF IsSetField
  <2>5. ReadAction(at) = Tlvs("action", at)
    BY <1>2, <1>4, <2>3, <2>4 DEF ReadAction
  <2> QED
    BY <2>2, <2>5 DEF Reads
<1> QED
  BY <1>3, <1>4

\* A structure before its list has been read.
LEMMA BareNode ==
  ASSUME NEW o \in Structure
  PROVE  Bare(o) = Node(o.kind, o.type, o.body, <<>>)
BY StructureParts DEF Bare, Node

\* The bytes of a structure and of those inside it.
LEMMA InnerParts ==
  ASSUME PlainSettable, NEW o \in Structure
  PROVE  /\ Inner(o.kids, Bytes) \in Octets /\ o.body \in Octets
         /\ Size(Inner(o.kids, Bytes)) \in Nat /\ Size(o.body) \in Nat
         /\ Bytes[o] \in Octets /\ Size(Bytes[o]) \in Nat /\ 4 <= Size(Bytes[o])
         /\ \A i \in 1 .. Len(o.kids) : Good(o.kids[i])
<1>1. Good(o) /\ \A i \in 1 .. Len(o.kids) : Good(o.kids[i])
  BY AllGood, StructureParts
<1>2. Inner(o.kids, Bytes) \in Octets /\ o.body \in Octets
  BY <1>1, InnerGood, StructureParts
<1> QED
  BY <1>1, <1>2, Sized1 DEF Good

\* The source of a zone is converted to a name and back.
LEMMA ZoneKept ==
  ASSUME NEW zone, ZoneFits(zone)
  PROVE  ZoneReads(zone) /\ ZoneSrc(zone) = zone
<1>1. CASE zone = Zeros(4)
  BY <1>1 DEF ZoneReads, ZoneSrc
<1>2. CASE zone # Zeros(4)
  <2>1. PICK n \in ZoneFields : zone = oxm_serialize_header(Fields[n])
    BY <1>2 DEF ZoneFits
  <2>2. PICK c, num, size \in Nat :
           /\ c = Fields[n].class /\ num = Fields[n].num /\ size = Fields[n].size
           /\ size > 0 /\ Fields[n].exp = NoExp /\ c # EXPERIMENTER /\ n \in Names
    BY <2>1, FieldHeaders DEF ZoneFields
  <2>3. zone = <<c \div 256, c % 256, 2 * num, size>>
    BY <2>1, <2>2 DEF oxm_serialize_header
  <2>5. /\ zone[1] = c \div 256 /\ zone[2] = c % 256
        /\ zone[3] = 2 * num /\ zone[4] = size
    BY <2>3
  <2>6. 256 * (c \div 256) + (c % 256) = c
    OBVIOUS
  <2>7. Word(zone, 0) = c
    BY <2>5, <2>6 DEF Word
  <2>8. (2 * num) % 2 = 0 /\ (2 * num) \div 2 = num /\ size \div 1 = size
    OBVIOUS
  <2>9. ZoneReads(zone)
    <3>1. zone[4] \div (1 + (zone[3] % 2)) = size
      BY <2>5, <2>8
    <3> QED
      BY <2>2, <2>7, <3>1 DEF ZoneReads
  <2>10. FieldAt(zone, 0) = n
    <3>1. zone[0 + 3] \div 2 = num
      BY <2>5, <2>8
    <3> QED
      BY <2>2, <2>7, <3>1, FieldNamed
  <2>11. n # "unknown"
    BY <2>2, FieldTable
  <2>12. zone[3] - (zone[3] % 2) = 2 * num
    BY <2>5, <2>8
  <2>13. ZoneSrc(zone) = <<c \div 256, c % 256, 2 * num, size>>
    BY <1>2, <2>2, <2>5, <2>10, <2>11, <2>12 DEF ZoneSrc
  <2> QED
    BY <2>3, <2>9, <2>13
<1> QED
  BY <1>1, <1>2

\* So the fixed part of a ct action is read as it was.
LEMMA CtKept ==
  ASSUME NEW body \in Octets, Size(body) = 14, ZoneFits(At(body, 2, 4))
  PROVE  ZoneReads(At(body, 2, 4)) /\ CtBody(body) = body
<1>1. ZoneReads(At(body, 2, 4)) /\ ZoneSrc(At(body, 2, 4)) = At(body, 2, 4)
  BY ZoneKept
<1>2. Len(body) = 14 /\ body \in Seq(Nat)
  BY DEF Size, Octets
<1>3. At(body, 0, 2) = SubSeq(body, 1, 2)
  BY <1>2 DEF At, Slice
<1>4. At(body, 2, 4) = SubSeq(body, 2 + 1, 6)
  BY <1>2 DEF At, Slice
<1>5. At(body, 6, 8) = SubSeq(body, 6 + 1, 14)
  BY <1>2 DEF At, Slice
<1>6. SubSeq(body, 1, 2) \o SubSeq(body, 2 + 1, 6) = SubSeq(body, 1, 6)
  BY <1>2, ConcatAdjacentSubSeq
<1>7. SubSeq(body, 1, 6) \o SubSeq(body, 6 + 1, 14) = SubSeq(body, 1, 14)
  BY <1>2, ConcatAdjacentSubSeq
<1>8. SubSeq(body, 1, 14) = body
  BY <1>2, SubSeqFull
<1> QED
  BY <1>1, <1>3, <1>4, <1>5, <1>6, <1>7, <1>8 DEF CtBody

\* A Nicira action is read where it lies, or its list is entered.
LEMMA NxHere ==
  ASSUME PlainSettable, NEW o \in Structure, o.kind = "nx_action",
         buf \in Octets, NEW at \in Nat, Lies(Bytes[o], buf, at)
  PROVE  Reads(o, ReadAction(at), at)
<1> DEFINE number == Number(NxActions, o.type)
<1> DEFINE inner == Inner(o.kids, Bytes)
<1> DEFINE data == Then(o.body, inner)
<1> DEFINE size == Size(o.body)
<1>1. /\ number \in Nat /\ data \in Octets /\ Size(data) = size + Size(inner)
      /\ Size(Bytes[o]) = round_up(10 + (size + Size(inner)), 8)
      /\ size \in Nat /\ Size(inner) \in Nat
  BY InnerParts, NxGood
<1>2. Bytes[o] = NxAction(number, data) /\ NxFits(o) /\ Fits(ListIn(o), o.kids)
      /\ o.type \in DOMAIN NxActions \cup {"unknown"}
      /\ ListIn(o) = IF o.type = "ct" THEN "action" ELSE "none"
  BY EncodeNx
<1>3. Lookup(NxActions, number) = o.type
  BY <1>2, OtherNumbers, LookupNumber
<1>4. inner \in Octets /\ o.body \in Octets
  BY InnerParts
<1>5. Known[o] = o \/ ListIn(o) # "none"
  BY <1>2, NoKids, KnownAlone
<1>6. ListIn(o) = "none" => o.kids = <<>> /\ Size(inner) = 0
  BY <1>2, NoKids, NoInner, NoOctets
<1>7. Bare(o) = Node("nx_action", o.type, o.body, <<>>)
  BY BareNode
<1>8. ~PassedOver(o) /\ o.kind \notin Loose /\ (o.kids = <<>> => Bare(o) = o)
  BY <1>7, StructureParts DEF PassedOver, Loose
<1> HIDE DEF number, inner
<1>9. /\ Word(buf, at) = 65535 /\ Word(buf, at + 2) = Size(Bytes[o])
      /\ At(buf, at + 4, 4) = NX /\ Word(buf, at + 8) = number
      /\ Lies(data, buf, at + 10)
  <2> HIDE DEF data
  <2> QED
    BY <1>1, <1>2, NxRead
<1>10. at + 10 \in Nat
  OBVIOUS
<1>11. Lies(o.body, buf, at + 10) /\ Lies(inner, buf, (at + 10) + size)
  BY <1>4, <1>9, <1>10, LiesThen
<1>12. At(buf, at + 10, size) = o.body
  BY <1>4, <1>10, <1>11, LiesAt
<1> HIDE DEF data
<1>13. Lookup(Actions, Type(at)) = "experimenter"
  <2>1. Number(Actions, "experimenter") = 65535
    BY ActionNumbers DEF Number
  <2> QED
    BY <1>9, <2>1, ActionNumbers, LookupNumber DEF Type
<1>14. ReadAction(at) = ReadNxAction(at)
  BY <1>9, <1>13 DEF ReadAction
<1> DEFINE head == at + NX_ACTION_HEADER_SIZE
<1>15. head = at + 10 /\ At(buf, head, size) = o.body
  BY <1>12 DEF NX_ACTION_HEADER_SIZE
<1>16. size = CASE o.type = "nat" -> NatSize(buf[head + 6])
                [] o.type = "unknown" -> Length(at) - NX_ACTION_HEADER_SIZE
                [] OTHER -> NxActions[o.type].size
  <2>1. CASE o.type = "nat"
    <3>1. size >= 6 /\ size = NatSize(o.body[6])
      BY <1>2, <2>1 DEF NxFits, Size
    <3>2. 6 \in 1 .. size
      BY <1>1, <3>1
    <3>3. buf[(at + 10) + 6] = o.body[6]
      BY <1>11, <3>2 DEF Lies
    <3> QED
      BY <1>15, <2>1, <3>1, <3>3
  <2>2. CASE o.type = "unknown"
    <3>1. (10 + size) % 8 = 0
      BY <1>2, <2>2 DEF NxFits, Size, NX_ACTION_HEADER_SIZE
    <3>2. Size(inner) = 0
      BY <1>2, <1>6, <2>2
    <3>3. 10 + (size + 0) = 10 + size /\ 10 + size \in Nat
      BY <1>1
    <3>4. Size(Bytes[o]) = 10 + size
      BY <1>1, <3>1, <3>2, <3>3, RoundUp
    <3> HIDE DEF size
    <3> QED
      BY <1>1, <1>9, <2>2, <3>4 DEF Length, NX_ACTION_HEADER_SIZE
  <2>3. CASE o.type \notin {"nat", "unknown", "ct"}
    BY <1>2, <2>3 DEF NxFits, Size
  <2>4. CASE o.type = "ct"
    BY <1>2, <2>4 DEF NxFits, Size
  <2> QED
    BY <2>1, <2>2, <2>3, <2>4
<1>17. Lookup(NxActions, Word(buf, at + 8)) = o.type
  BY <1>3, <1>9
<1> HIDE DEF size
<1>18. CASE o.type = "ct"
  <2>2. size = 14
    <3>1. NxActions.ct.size = 14
      BY DEF NxActions, Tlv
    <3>2. size = NxActions[o.type].size
      BY <1>2, <1>18 DEF NxFits, Size, size
    <3> QED
      BY <1>18, <3>1, <3>2
  <2>1. ReadNxAction(at) = Holds(Bare(o), Length(at), "action", head + size, at + Length(at))
    <3>1. ZoneFits(At(o.body, 2, 4))
      BY <1>2, <1>18 DEF NxFits
    <3>2. ZoneReads(At(o.body, 2, 4)) /\ CtBody(o.body) = o.body
      BY <1>4, <2>2, <3>1, CtKept DEF size
    <3> QED
      BY <1>7, <1>15, <1>16, <1>17, <1>18, <3>2 DEF ReadNxAction
  <2>3. ListIn(o) = "action" /\ "action" \in Lists
    BY <1>2, <1>18 DEF Lists
  <2>4. Size(inner) % 8 = 0
    BY InnerParts, NxGood DEF inner
  <2>5. 10 + (size + Size(inner)) \in Nat /\ (10 + (size + Size(inner))) % 8 = 0
    BY <1>1, <2>2, <2>4
  <2>6. Size(Bytes[o]) = 10 + (size + Size(inner))
    BY <1>1, <2>5, RoundUp
  <2>7. PICK from \in Nat : from = head + size
    BY <1>1, <1>15
  <2>8. at + Length(at) = from + Size(inner)
    BY <1>1, <1>9, <1>15, <2>6, <2>7 DEF Length
  <2>9. Length(at) = Size(Bytes[o])
    BY <1>9 DEF Length
  <2>10. ReadAction(at) = Holds(Bare(o), Size(Bytes[o]), ListIn(o), from, from + Size(inner))
    BY <1>14, <2>1, <2>3, <2>7, <2>8, <2>9
  <2>11. from + Size(inner) <= at + Size(Bytes[o])
    BY <1>1, <1>15, <2>6, <2>7
  <2>12. at % 8 = 0 => from % 8 = 0
    BY <1>15, <2>2, <2>7
  <2>13. Lies(inner, buf, from)
    BY <1>11, <1>15, <2>7 DEF size
  <2>14. Opened(o, ReadAction(at), at)
    BY <1>2, <1>8, <2>3, <2>10, <2>11, <2>12, <2>13 DEF Opened, inner
  <2> QED
    BY <2>14 DEF Reads
<1>19. CASE o.type # "ct"
  <2>1. ReadNxAction(at) = Leaf(Bare(o), Length(at))
    BY <1>7, <1>15, <1>16, <1>17, <1>19 DEF ReadNxAction
  <2>2. ListIn(o) = "none"
    BY <1>2, <1>19
  <2>3. ReadAction(at) = Leaf(Known[o], Size(Bytes[o]))
    BY <1>5, <1>6, <1>8, <1>9, <1>14, <2>1, <2>2 DEF Length
  <2> QED
    BY <1>8, <2>3 DEF Reads
<1> QED
  BY <1>18, <1>19

\* An instruction is read where it lies, or its list is entered.
LEMMA InstructionHere ==
  ASSUME PlainSettable, NEW o \in Structure, o.kind = "instruction",
         buf \in Octets, NEW at \in Nat, Lies(Bytes[o], buf, at)
  PROVE  Reads(o, ReadInstruction(at), at)
<1>0. o.kind \in DOMAIN Registries /\ ~IsSetField(o) /\ Registries[o.kind] = Instructions
  BY RegistryOf DEF IsSetField
<1>1. /\ Lookup(Instructions, Type(at)) = o.type /\ Length(at) = Size(Bytes[o])
      /\ Lies(Then(o.body, Inner(o.kids, Bytes)), buf, at + 4)
  BY <1>0, TlvHere
<1>2. /\ ListIn(o) = IF o.type \in OFPInstructionActions THEN "action" ELSE "none"
      /\ Fits(ListIn(o), o.kids) /\ TlvFits(o)
  BY <1>0, EncodeTlv
<1>3. CASE o.type = "unknown"
  <2>1. ReadInstruction(at) = Error
    BY <1>1, <1>3 DEF ReadInstruction, OFPInstructionActions
  <2>2. Unparsable[o]
    BY <1>3, UnknownType DEF Fatal
  <2> QED
    BY <2>1, <2>2 DEF Reads
<1>4. CASE o.type \in OFPInstructionActions
  <2> DEFINE inner == Inner(o.kids, Bytes)
  <2>1. /\ inner \in Octets /\ o.body \in Octets /\ Size(inner) \in Nat
        /\ Size(Bytes[o]) = 4 + (Size(o.body) + Size(inner))
    BY <1>0, InnerParts, TlvGood
  <2>2. Size(o.body) = 4
    <3>1. o.type \in DOMAIN Instructions /\ Instructions[o.type].size = 4
      BY <1>4, InstructionNumbers
    <3>2. Instructions[o.type].size \in {0, Size(o.body)}
      BY <1>0, <1>2, <3>1 DEF TlvFits, Size
    <3> QED
      BY <3>1, <3>2
  <2> HIDE DEF inner
  <2>3. at + 4 \in Nat
    OBVIOUS
  <2>4. Lies(o.body, buf, at + 4) /\ Lies(inner, buf, (at + 4) + Size(o.body))
    BY <1>1, <2>1, <2>3, LiesThen DEF inner
  <2>5. At(buf, at + 4, 4) = o.body
    BY <2>1, <2>2, <2>3, <2>4, LiesAt
  <2>6. PICK from \in Nat : from = at + 8
    OBVIOUS
  <2>7. Bare(o) = Node("instruction", o.type, o.body, <<>>)
    BY BareNode
  <2>8. at + Length(at) = from + Size(inner)
    BY <1>1, <2>1, <2>2, <2>6
  <2>9. o.type # "unknown"
    BY <1>4 DEF OFPInstructionActions
  <2>10. ReadInstruction(at) = Holds(Bare(o), Length(at), "action", from, from + Size(inner))
    BY <1>1, <1>4, <2>5, <2>6, <2>7, <2>8, <2>9 DEF ReadInstruction
  <2>11. Lies(inner, buf, from)
    <3>1. (at + 4) + Size(o.body) = from
      BY <2>2, <2>6
    <3> QED
      BY <2>4, <3>1
  <2>12. from + Size(inner) <= at + Size(Bytes[o]) /\ (at % 8 = 0 => from % 8 = 0)
    BY <2>1, <2>2, <2>6
  <2>13. "action" \in Lists /\ o.kind \notin Loose /\ ~PassedOver(o)
    BY DEF Lists, Loose, PassedOver
  <2>14. Opened(o, ReadInstruction(at), at)
    BY <1>1, <1>2, <1>4, <2>10, <2>11, <2>12, <2>13 DEF Opened, inner
  <2> QED
    BY <2>14 DEF Reads
<1>5. CASE o.type \notin OFPInstructionActions \cup {"unknown"}
  <2>1. /\ Tlvs("instruction", at) = Leaf(Known[o], Size(Bytes[o])) /\ ~PassedOver(o)
    BY <1>0, <1>2, <1>5, TlvsHere
  <2>2. ReadInstruction(at) = Tlvs("instruction", at)
    BY <1>1, <1>5 DEF ReadInstruction
  <2> QED
    BY <2>1, <2>2 DEF Reads
<1> QED
  BY <1>3, <1>4, <1>5

\* A meter band is read where it lies.
LEMMA BandHere ==
  ASSUME PlainSettable, NEW o \in Structure, o.kind = "band",
         buf \in Octets, NEW at \in Nat, Lies(Bytes[o], buf, at)
  PROVE  Reads(o, ReadBand(at), at)
<1>0. o.kind \in DOMAIN Registries /\ ~IsSetField(o) /\ Registries[o.kind] = MeterBands
  BY RegistryOf DEF IsSetField
<1>1. Lookup(MeterBands, Type(at)) = o.type
  BY <1>0, TlvHere
<1>2. ListIn(o) = "none"
  BY <1>0, EncodeTlv
<1>3. CASE o.type = "unknown"
  <2>1. ReadBand(at) = Error
    BY <1>1, <1>3 DEF ReadBand
  <2>2. Unparsable[o]
    BY <1>3, UnknownType DEF Fatal
  <2> QED
    BY <2>1, <2>2 DEF Reads
<1>4. CASE o.type # "unknown"
  <2>1. /\ Tlvs("band", at) = Leaf(Known[o], Size(Bytes[o])) /\ ~PassedOver(o)
    BY <1>0, <1>2, <1>4, TlvsHere
  <2>2. ReadBand(at) = Tlvs("band", at)
    BY <1>1, <1>4 DEF ReadBand
  <2> QED
    BY <2>1, <2>2 DEF Reads
<1> QED
  BY <1>3, <1>4

\* A hello element is read where it lies, or passed over.
LEMMA HelloElementHere ==
  ASSUME PlainSettable, NEW o \in Structure, o.kind = "hello_element",
         buf \in Octets, NEW at \in Nat, Lies(Bytes[o], buf, at)
  PROVE  Reads(o, ReadHelloElement(at), at)
<1>0. o.kind \in DOMAIN Registries /\ ~IsSetField(o) /\ Registries[o.kind] = HelloElements
  BY RegistryOf DEF IsSetField
<1>1. Lookup(HelloElements, Type(at)) = o.type /\ Length(at) = Size(Bytes[o])
  BY <1>0, TlvHere
<1>2. ListIn(o) = "none"
  BY <1>0, EncodeTlv
<1>3. CASE o.type = "unknown"
  BY <1>1, <1>3 DEF ReadHelloElement, PassedOver, Reads
<1>4. CASE o.type # "unknown"
  <2>1. /\ Tlvs("hello_element", at) = Leaf(Known[o], Size(Bytes[o])) /\ ~PassedOver(o)
    BY <1>0, <1>2, <1>4, TlvsHere
  <2>2. ReadHelloElement(at) = Tlvs("hello_element", at)
    BY <1>1, <1>4 DEF ReadHelloElement
  <2> QED
    BY <2>1, <2>2 DEF Reads
<1> QED
  BY <1>3, <1>4

\* A property of a queue that is not known is passed over by its length, which
\* is never zero.
LEMMA QueuePropHere ==
  ASSUME PlainSettable, NEW o \in Structure, o.kind = "queue_prop",
         buf \in Octets, NEW at \in Nat, Lies(Bytes[o], buf, at)
  PROVE  Reads(o, ReadQueueProp(at), at)
<1>0. o.kind \in DOMAIN Registries /\ ~IsSetField(o) /\ Registries[o.kind] = QueueProps
  BY RegistryOf DEF IsSetField
<1>1. Lookup(QueueProps, Type(at)) = o.type /\ Length(at) = Size(Bytes[o])
  BY <1>0, TlvHere
<1>2. ListIn(o) = "none"
  BY <1>0, EncodeTlv
<1>3. CASE o.type = "unknown"
  BY <1>1, <1>3 DEF ReadQueueProp, PassedOver, Reads
<1>4. CASE o.type # "unknown"
  <2>1. /\ Tlvs("queue_prop", at) = Leaf(Known[o], Size(Bytes[o])) /\ ~PassedOver(o)
        /\ At(buf, at + 4, Size(o.body)) = o.body
    BY <1>0, <1>2, <1>4, TlvsHere
  <2>2. TlvFits(o) /\ o.kids = <<>> /\ o.type \in DOMAIN QueueProps
    BY <1>0, <1>2, <1>4, EncodeTlv, NoKids DEF TlvFits
  <2>3. /\ o.type = "experimenter" => Size(o.body) >= 12
        /\ o.type # "experimenter" => Size(o.body) = 12
    <3>1. o.type # "experimenter" => QueueProps[o.type].size = 12
      BY <2>2 DEF QueueProps, Tlv
    <3>2. QueueProps[o.type].size \in {0, Size(o.body)}
      BY <1>0, <2>2 DEF TlvFits, Size
    <3>3. o.type = "experimenter" => Size(o.body) >= 12
      BY <2>2 DEF TlvFits, Size
    <3> QED
      BY <3>1, <3>2, <3>3
  <2>4. /\ Size(Bytes[o]) = 4 + Size(o.body) /\ Size(o.body) \in Nat
        /\ Lies(o.body, buf, at + 4)
    <3>1. /\ Size(Bytes[o]) = 4 + (Size(o.body) + Size(Inner(o.kids, Bytes)))
          /\ Size(o.body) \in Nat
      BY <1>0, AllGood, StructureParts, TlvGood
    <3>2. Size(Inner(o.kids, Bytes)) = 0
      BY <2>2, NoInner, NoOctets
    <3>3. Lies(o.body, buf, at + 4)
      BY <1>0, <2>2, TlvHere, NoInner
    <3> QED
      BY <3>1, <3>2, <3>3
  <2>5. at + 16 <= Len(buf)
    <3>1. at + 4 + Size(o.body) <= Len(buf) /\ Len(buf) \in Nat
      BY <2>4, LenProperties DEF Lies, Size, Octets
    <3> QED
      BY <2>3, <2>4, <3>1
  <2>6. (IF o.type = "experimenter" /\ Length(at) > 16 THEN Length(at) - 4 ELSE 12) = Size(o.body)
    BY <1>1, <2>3, <2>4
  <2>7. Known[o] = Node("queue_prop", o.type, o.body, <<>>)
    BY <2>2, StructureParts, KnownAlone
  <2>8. ReadQueueProp(at) = Leaf(Known[o], Size(Bytes[o]))
    BY <1>1, <1>4, <2>1, <2>5, <2>6, <2>7 DEF ReadQueueProp
  <2> QED
    BY <2>1, <2>8 DEF Reads
<1> QED
  BY <1>3, <1>4

\* The list of a match is entered where the match lies.
LEMMA MatchHere ==
  ASSUME PlainSettable, NEW o \in Structure, o.kind = "match",
         buf \in Octets, NEW at \in Nat, Lies(Bytes[o], buf, at)
  PROVE  /\ Reads(o, ReadMatch(at), at)
         /\ Size(Bytes[o]) = round_up(Length(at), 8)
<1> DEFINE inner == Inner(o.kids, Bytes)
<1>1. inner \in Octets /\ Size(inner) \in Nat
  BY InnerParts
<1>2. /\ Bytes[o] = Match(inner) /\ o.body = <<>> /\ o.type = "oxm"
      /\ ListIn(o) = "oxm" /\ Fits("oxm", o.kids)
  BY EncodeMatch
<1> HIDE DEF inner
<1>3. Bytes[o] = Then(Tagged(1, inner), Padding(4 + Size(inner)))
  BY <1>1, <1>2, MatchParts
<1>4. 1 \in Nat
  OBVIOUS
<1>5. Word(buf, at + 2) = 4 + Size(inner) /\ Lies(inner, buf, at + 4)
  BY <1>1, <1>3, <1>4, PaddedRead
<1>6. Size(Bytes[o]) = round_up(4 + Size(inner), 8)
  BY <1>1, <1>3, <1>4, PaddedParts
<1>7. Length(at) = 4 + Size(inner)
  BY <1>5 DEF Length
<1>8. Bare(o) = Node("match", "oxm", <<>>, <<>>)
  BY <1>2, BareNode
<1>9. PICK from \in Nat : from = at + 4
  OBVIOUS
<1>10. at + Length(at) = from + Size(inner) /\ round_up(Length(at), 8) = Size(Bytes[o])
  BY <1>1, <1>6, <1>7, <1>9
<1>11. ReadMatch(at) = Holds(Bare(o), Size(Bytes[o]), "oxm", from, from + Size(inner))
  BY <1>8, <1>9, <1>10 DEF ReadMatch
<1>12. from + Size(inner) <= at + Size(Bytes[o])
  <2>1. 4 + Size(inner) \in Nat
    BY <1>1
  <2>2. 4 + Size(inner) <= Size(Bytes[o]) /\ Size(Bytes[o]) \in Nat
    BY <1>6, <2>1, RoundUp
  <2> QED
    BY <1>1, <1>9, <2>2
<1>13. "oxm" \in Lists /\ "oxm" \in Loose /\ o.kind \notin Loose /\ ~PassedOver(o)
  BY DEF Lists, Loose, PassedOver
<1>14. Lies(inner, buf, from)
  BY <1>5, <1>9
<1>15. Opened(o, ReadMatch(at), at)
  BY <1>2, <1>11, <1>12, <1>13, <1>14 DEF Opened, inner
<1> QED
  BY <1>10, <1>15 DEF Reads

\* A table feature property is read where it lies, or its list is entered.
LEMMA TablePropHere ==
  ASSUME PlainSettable, NEW o \in Structure, o.kind = "table_prop",
         buf \in Octets, NEW at \in Nat, Lies(Bytes[o], buf, at)
  PROVE  Reads(o, ReadTableProp(at), at)
<1> DEFINE inner == Inner(o.kids, Bytes)
<1> DEFINE data == Then(o.body, inner)
<1> DEFINE number == Number(TableProps, o.type)
<1>1. /\ inner \in Octets /\ o.body \in Octets /\ Size(inner) \in Nat /\ Size(o.body) \in Nat
  BY InnerParts
<1>2. /\ Bytes[o] = TableProp(number, data) /\ o.type \in DOMAIN TableProps \cup {"unknown"}
      /\ (ListIn(o) # "none" => o.body = <<>>) /\ Fits(ListIn(o), o.kids)
      /\ ListIn(o) = (IF o.type = "unknown" THEN "none" ELSE TableProps[o.type].list)
      /\ ListIn(o) \in {"none", "id", "oxm_id"}
      /\ o.type = "experimenter" => Size(o.body) >= 8 /\ Size(o.body) % 4 = 0
  BY EncodeTableProp
<1>3. number \in Nat /\ Lookup(TableProps, number) = o.type
  BY <1>2, OtherNumbers, LookupNumber
<1>4. ListIn(o) = "none" => o.kids = <<>> /\ data = o.body /\ Known[o] = o
  BY <1>2, NoKids, NoInner, KnownAlone
<1>5. ListIn(o) # "none" => data = inner
  BY <1>1, <1>2, ThenNothing
<1>6. Bare(o) = Node("table_prop", o.type, o.body, <<>>)
  BY BareNode
<1>7. o.kids = <<>> => Bare(o) = o
  BY <1>6, StructureParts
<1> HIDE DEF inner
<1>8. data \in Octets /\ Size(data) \in Nat
  BY <1>1, Joined
<1> HIDE DEF number, data
<1>9. Bytes[o] = Then(Tagged(number, data), Padding(4 + Size(data)))
  BY <1>2, <1>3, <1>8, TablePropParts
<1>10. Word(buf, at) = number /\ Word(buf, at + 2) = 4 + Size(data) /\ Lies(data, buf, at + 4)
  BY <1>3, <1>8, <1>9, PaddedRead
<1>11. Size(Bytes[o]) = round_up(4 + Size(data), 8)
  BY <1>3, <1>8, <1>9, PaddedParts
<1>12. Type(at) = number /\ Length(at) = 4 + Size(data) /\ Length(at) # 0 /\ Length(at) - 4 = Size(data)
  BY <1>8, <1>10 DEF Type, Length
<1>13. round_up(Length(at), 8) = Size(Bytes[o])
  BY <1>11, <1>12
<1>14. ~PassedOver(o) /\ o.kind \notin Loose
  BY DEF PassedOver, Loose
<1>15. PICK from \in Nat : from = at + 4
  OBVIOUS
<1>16. Lies(data, buf, from) /\ At(buf, from, Size(data)) = data
  BY <1>8, <1>10, <1>15, LiesAt
<1>17. CASE ListIn(o) = "none"
  <2>1. At(buf, at + 4, Length(at) - 4) = o.body
    BY <1>4, <1>12, <1>15, <1>16, <1>17
  <2>3. o.type = "experimenter" => ExperimenterPropReads(at) /\ ~(Length(at) < 12)
    <3>1. SUFFICES ASSUME o.type = "experimenter"
                   PROVE  ExperimenterPropReads(at) /\ ~(Length(at) < 12)
      OBVIOUS
    <3>2. PICK n \in Nat : n = Size(o.body) /\ n >= 8 /\ n % 4 = 0
      BY <1>1, <1>2, <3>1
    <3>3. Length(at) = 4 + n /\ from + n <= Len(buf) /\ Len(buf) \in Nat
      BY <1>4, <1>12, <1>16, <1>17, <3>2, LenProperties DEF Lies, Size, Octets
    <3>4. at + 12 <= Len(buf) /\ at + Length(at) <= Len(buf)
      BY <1>15, <3>2, <3>3
    <3>5. Slice(buf, at + 12, at + Length(at)) = SubSeq(buf, at + 13, at + (4 + n))
      <4>1. at + Length(at) = at + (4 + n) /\ at + 12 + 1 = at + 13
        BY <3>3
      <4>2. (IF at + Length(at) < Len(buf) THEN at + Length(at) ELSE Len(buf)) = at + (4 + n)
        BY <3>3, <3>4, <4>1
      <4> QED
        BY <4>1, <4>2 DEF Slice
    <3>6. Len(SubSeq(buf, at + 13, at + (4 + n))) = n - 8
      <4>1. \A i \in at + 13 .. at + (4 + n) : buf[i] \in Nat
        BY <3>2, <3>3, <3>4, Sized1 DEF Size
      <4>2. at + 13 \in Int /\ at + (4 + n) \in Int
        OBVIOUS
      <4>3. Len(SubSeq(buf, at + 13, at + (4 + n)))
              = IF at + 13 <= at + (4 + n) THEN at + (4 + n) - (at + 13) + 1 ELSE 0
        BY <4>1, <4>2, SubSeqProperties
      <4> QED
        BY <3>2, <4>3
    <3>7. (n - 8) % 4 = 0
      BY <3>2
    <3>8. Len(Slice(buf, at + 12, at + Length(at))) % 4 = 0
      BY <3>5, <3>6, <3>7
    <3>9. ~(Length(at) < 12)
      BY <3>2, <3>3
    <3> QED
      BY <3>4, <3>8, <3>9 DEF ExperimenterPropReads
  <2>2. ReadTableProp(at) = Leaf(Bare(o), Size(Bytes[o]))
    BY <1>2, <1>3, <1>6, <1>12, <1>13, <1>17, <2>1, <2>3 DEF ReadTableProp
  <2> QED
    BY <1>4, <1>7, <1>14, <1>17, <2>2 DEF Reads
<1>18. CASE ListIn(o) # "none"
  <2>1. at + Length(at) = from + Size(inner)
    BY <1>1, <1>5, <1>12, <1>15, <1>18
  <2>2. o.body = <<>>
    BY <1>2, <1>18
  <2>3. ReadTableProp(at) = Holds(Bare(o), Size(Bytes[o]), ListIn(o), from, from + Size(inner))
    <3>1. o.type # "experimenter"
      <4>1. TableProps["experimenter"].list = "none"
        BY DEF TableProps
      <4> QED
        BY <1>2, <1>18, <4>1
    <3> QED
      BY <1>2, <1>3, <1>6, <1>12, <1>13, <1>15, <1>18, <2>1, <2>2, <3>1 DEF ReadTableProp
  <2>4. from + Size(inner) <= at + Size(Bytes[o])
    <3>1. 4 + Size(data) \in Nat
      BY <1>8
    <3>2. 4 + Size(data) <= Size(Bytes[o]) /\ Size(Bytes[o]) \in Nat
      BY <1>11, <3>1, RoundUp
    <3> QED
      BY <1>5, <1>8, <1>15, <1>18, <3>2
  <2>5. ListIn(o) \in Loose /\ ListIn(o) \in Lists
    BY <1>2, <1>18 DEF Loose, Lists
  <2>6. Lies(inner, buf, from)
    BY <1>5, <1>16, <1>18
  <2>7. Opened(o, ReadTableProp(at), at)
    BY <1>2, <1>14, <2>3, <2>4, <2>5, <2>6 DEF Opened, inner
  <2> QED
    BY <2>7 DEF Reads
<1> QED
  BY <1>17, <1>18

\* The list of a structure with a length in its head is entered where it lies.
LEMMA SizedHere ==
  ASSUME PlainSettable, NEW o \in Structure, o.kind \in DOMAIN SizedKinds,
         buf \in Octets, NEW at \in Nat, Lies(Bytes[o], buf, at)
  PROVE  Reads(o, ReadSized(o.kind, at), at)
<1> DEFINE k == SizedKinds[o.kind]
<1> DEFINE inner == Inner(o.kids, Bytes)
<1>0. \A i \in 1 .. Len(o.kids) : Good(o.kids[i])
  BY InnerParts
<1>1. /\ k.head \in Nat /\ k.head >= 8 /\ k.head % 8 = 0
      /\ k.length_at \in Nat /\ k.length_at <= k.head - 2
      /\ k.list \in {"action", "queue_prop", "flow", "bucket_counter",
                     "bucket", "band_stats", "band", "table_prop"}
  BY SizesOf
<1>2. inner \in Octets /\ o.body \in Octets /\ Size(inner) \in Nat /\ Size(o.body) \in Nat
  BY InnerParts
<1>3. /\ k.length_at <= Size(o.body) /\ Size(o.body) = k.head - 2
      /\ Size(Bytes[o]) = k.head + Size(inner)
      /\ Bytes[o] = Then(WithLength(k, o.body, k.head + Size(inner)), inner)
  BY <1>0, SizedGood
<1>4. o.kind \notin {"oxm", "oxm_w", "match", "nx_action", "table_prop"} \cup DOMAIN Registries
  BY SizesOf, RegistryOf
<1>5. OtherFits(o) /\ Fits(ListIn(o), o.kids) /\ ListIn(o) = k.list
  BY <1>4, EncodeOther
<1>6. Bare(o) = Node(o.kind, o.kind, o.body, <<>>)
  BY <1>5, BareNode DEF OtherFits
<1>7. o.kind \notin Loose /\ ~PassedOver(o) /\ ListIn(o) \in Lists
  BY <1>1, <1>5, SizesOf DEF Loose, PassedOver, Lists
<1> HIDE DEF k, inner
<1> DEFINE head == WithLength(k, o.body, k.head + Size(inner))
<1>8. k.head + Size(inner) \in Nat
  BY <1>1, <1>2
<1>9. head \in Octets /\ Size(head) = k.head
  <2>1. head \in Octets /\ Size(head) = Size(o.body) + 2
    BY <1>1, <1>2, <1>3, <1>8, WithLengthParts
  <2> QED
    BY <1>1, <1>3, <2>1
<1>10. Lies(head, buf, at) /\ Lies(inner, buf, at + k.head)
  <2> HIDE DEF head
  <2>1. Lies(head, buf, at) /\ Lies(inner, buf, at + Size(head))
    BY <1>2, <1>3, <1>9, LiesThen DEF head
  <2> QED
    BY <1>9, <2>1
<1>11. /\ Word(buf, at + k.length_at) = k.head + Size(inner)
       /\ Then(At(buf, at, k.length_at),
               At(buf, at + (k.length_at + 2), Size(o.body) - k.length_at)) = o.body
  <2>1. PICK n \in Nat : n = k.head + Size(inner)
    BY <1>8
  <2>2. Lies(WithLength(k, o.body, n), buf, at)
    BY <1>10, <2>1
  <2>3. /\ Word(buf, at + k.length_at) = n
        /\ Then(At(buf, at, k.length_at),
                At(buf, at + (k.length_at + 2), Size(o.body) - k.length_at)) = o.body
    <3>1. k.length_at \in Nat /\ o.body \in Octets /\ k.length_at <= Size(o.body)
      BY <1>1, <1>2, <1>3
    <3> QED
      BY <2>2, <3>1, WithLengthRead
  <2> QED
    BY <2>1, <2>3
<1>12. Size(o.body) - k.length_at = k.head - (k.length_at + 2)
  BY <1>1, <1>2, <1>3
<1>13. PICK from \in Nat : from = at + k.head
  BY <1>1
<1>14. at + (k.head + Size(inner)) = from + Size(inner)
  BY <1>1, <1>2, <1>13
<1>15. ReadSized(o.kind, at) = Holds(Bare(o), Size(Bytes[o]), ListIn(o), from, from + Size(inner))
  BY <1>3, <1>5, <1>6, <1>11, <1>12, <1>13, <1>14 DEF ReadSized, Then, k
<1>16. from + Size(inner) <= at + Size(Bytes[o]) /\ (at % 8 = 0 => from % 8 = 0)
  BY <1>1, <1>2, <1>3, <1>13, <1>14, Multiples
<1>17. Lies(inner, buf, from)
  BY <1>10, <1>13
<1>18. Opened(o, ReadSized(o.kind, at), at)
  BY <1>5, <1>7, <1>15, <1>16, <1>17 DEF Opened, inner
<1> QED
  BY <1>18 DEF Reads

\* A structure of fixed size is read where it lies.
LEMMA FixedHere ==
  ASSUME PlainSettable, NEW o \in Structure, o.kind \in DOMAIN FixedKinds,
         buf \in Octets, NEW at \in Nat, Lies(Bytes[o], buf, at)
  PROVE  Reads(o, ReadFixed(o.kind, at), at)
<1>1. /\ o.kind \notin {"oxm", "oxm_w", "match", "nx_action", "table_prop"} \cup DOMAIN Registries
      /\ o.kind \notin DOMAIN SizedKinds
      /\ o.kind \notin {"id", "oxm_id", "experimenter_stats", "hello_element", "queue_prop"}
  BY SizesOf, RegistryOf
<1>2. o.kids = <<>> /\ OtherFits(o) /\ Bytes[o] = o.body
  BY <1>1, PlainGood
<1>3. Size(o.body) = FixedKinds[o.kind] /\ o.type = o.kind
  BY <1>1, <1>2 DEF OtherFits, Size
<1>4. o = Node(o.kind, o.kind, o.body, <<>>) /\ Known[o] = o
  BY <1>2, <1>3, StructureParts, KnownAlone
<1>5. At(buf, at, FixedKinds[o.kind]) = o.body
  BY <1>2, <1>3, StructureParts, LiesAt
<1>6. ReadFixed(o.kind, at) = Leaf(o, Size(Bytes[o]))
  BY <1>2, <1>3, <1>4, <1>5 DEF ReadFixed
<1> QED
  BY <1>1, <1>4, <1>6 DEF Reads, PassedOver

\* An id is read where it lies.
LEMMA IdHere ==
  ASSUME PlainSettable, NEW o \in Structure, o.kind = "id",
         buf \in Octets, NEW at \in Nat, Lies(Bytes[o], buf, at)
  PROVE  Reads(o, ReadId(at), at)
<1>1. /\ o.kind \notin {"oxm", "oxm_w", "match", "nx_action", "table_prop"} \cup DOMAIN Registries
      /\ o.kind \notin DOMAIN SizedKinds /\ o.kind \notin DOMAIN FixedKinds
  BY SizesOf, RegistryOf
<1>2. o.kids = <<>> /\ OtherFits(o) /\ Bytes[o] = Then(o.body, U16(4))
  BY <1>1, PlainGood
<1>3. Size(o.body) = 2 /\ o.type = "id"
  BY <1>1, <1>2 DEF OtherFits, Size
<1>4. o = Node("id", "id", o.body, <<>>) /\ Known[o] = o /\ o.body \in Octets
  BY <1>2, <1>3, StructureParts, KnownAlone
<1>5. 4 \in Nat /\ at + 2 \in Nat
  OBVIOUS
<1>6. U16(4) \in Octets /\ Size(U16(4)) = 2
  BY <1>5, Halves
<1>7. Lies(o.body, buf, at) /\ Lies(U16(4), buf, at + 2)
  BY <1>2, <1>3, <1>4, <1>6, LiesThen
<1>8. At(buf, at, 2) = o.body
  BY <1>3, <1>4, <1>7, LiesAt
<1>9. Length(at) = 4
  BY <1>5, <1>7, LiesWord DEF Length
<1>10. Size(Bytes[o]) = 4
  <2>1. Size(Then(o.body, U16(4))) = Size(o.body) + Size(U16(4))
    BY <1>4, <1>6, Joined
  <2> QED
    BY <1>2, <1>3, <1>6, <2>1
<1>11. ReadId(at) = Leaf(o, Size(Bytes[o]))
  BY <1>4, <1>8, <1>9, <1>10 DEF ReadId
<1> QED
  BY <1>4, <1>11 DEF Reads, PassedOver

\* The header of a field is read where it lies.
LEMMA OxmIdHere ==
  ASSUME PlainSettable, NEW o \in Structure, o.kind = "oxm_id",
         buf \in Octets, NEW at \in Nat, Lies(Bytes[o], buf, at)
  PROVE  Reads(o, ReadOxmId(at), at)
<1>1. /\ o.kind \notin {"oxm", "oxm_w", "match", "nx_action", "table_prop"} \cup DOMAIN Registries
      /\ o.kind \notin DOMAIN SizedKinds /\ o.kind \notin DOMAIN FixedKinds
  BY SizesOf, RegistryOf
<1>2. o.kids = <<>> /\ OtherFits(o) /\ Bytes[o] = o.body
  BY <1>1, PlainGood
<1>3. /\ Size(o.body) = (IF Word(o.body, 0) = EXPERIMENTER THEN 8 ELSE 4)
      /\ Size(o.body) >= 4 /\ o.type = "oxm_id"
  BY <1>1, <1>2 DEF OtherFits, Size
<1>4. o = Node("oxm_id", "oxm_id", o.body, <<>>) /\ Known[o] = o
  BY <1>2, <1>3, StructureParts, KnownAlone
<1>5. Word(buf, at) = Word(o.body, 0)
  <2>1. 1 \in 1 .. Size(o.body) /\ 2 \in 1 .. Size(o.body)
    BY <1>3
  <2>2. buf[at + 1] = o.body[1] /\ buf[at + 2] = o.body[2]
    BY <1>2, <2>1 DEF Lies
  <2>3. 0 + 1 = 1 /\ 0 + 2 = 2
    OBVIOUS
  <2> QED
    BY <2>2, <2>3 DEF Word
<1>6. At(buf, at, Size(o.body)) = o.body
  BY <1>2, StructureParts, LiesAt
<1>7. ReadOxmId(at) = Leaf(o, Size(Bytes[o]))
  BY <1>2, <1>3, <1>4, <1>5, <1>6 DEF ReadOxmId, Type
<1> QED
  BY <1>4, <1>7 DEF Reads, PassedOver

\* What is left of an experimenter reply, which ends with the message.
LEMMA ExperimenterHere ==
  ASSUME PlainSettable, NEW o \in Structure, o.kind = "experimenter_stats",
         buf \in Octets, NEW at \in Nat, Lies(Bytes[o], buf, at),
         at + Size(Bytes[o]) = Size(buf)
  PROVE  /\ ReadExperimenterStats(at) = Leaf(o, 16) /\ Known[o] = o
         /\ Bytes[o] = o.body /\ Size(o.body) >= 8 /\ ~PassedOver(o)
<1>1. /\ o.kind \notin {"oxm", "oxm_w", "match", "nx_action", "table_prop"} \cup DOMAIN Registries
      /\ o.kind \notin DOMAIN SizedKinds /\ o.kind \notin DOMAIN FixedKinds
  BY SizesOf, RegistryOf
<1>2. o.kids = <<>> /\ OtherFits(o) /\ Bytes[o] = o.body
  BY <1>1, PlainGood
<1>3. Size(o.body) >= 8 /\ o.type = "experimenter_stats"
  BY <1>1, <1>2 DEF OtherFits, Size
<1>4. o = Node("experimenter_stats", "experimenter_stats", o.body, <<>>) /\ Known[o] = o
  BY <1>2, <1>3, StructureParts, KnownAlone
<1>5. Size(buf) \in Nat /\ Size(o.body) \in Nat
  BY StructureParts, Sized1
<1>6. At(buf, at, Size(o.body)) = o.body
  BY <1>2, StructureParts, LiesAt
<1>7. at + 8 <= Size(buf) /\ Size(buf) - at = Size(o.body)
  BY <1>2, <1>3, <1>5
<1>8. ReadExperimenterStats(at) = Leaf(o, 16)
  BY <1>4, <1>5, <1>6, <1>7 DEF ReadExperimenterStats, OFP_METER_FEATURES_SIZE, Size
<1> QED
  BY <1>2, <1>3, <1>4, <1>8 DEF PassedOver

\* A first structure that is not passed over is heard of.
LEMMA HeardSome ==
  ASSUME NEW kids \in Seq(Structure), kids # <<>>, ~PassedOver(kids[1])
  PROVE  /\ Heard(kids, 0) = <<>>
         /\ \A n \in 1 .. Len(kids) : Heard(kids, n) # <<>>
<1> DEFINE S == { n \in 0 .. Len(kids) : n > 0 => Heard(kids, n) # <<>> }
<1> DEFINE Items == {Known[o] : o \in Structure}
<1>0. Len(kids) \in Nat /\ Len(kids) > 0
  BY EmptySeq, LenProperties
<1>1. 0 \in S
  BY <1>0
<1>2. ASSUME NEW n \in 0 .. Len(kids), n < Len(kids), n \in S PROVE n + 1 \in S
  <2>1. Heard(kids, n + 1) = IF PassedOver(kids[n + 1]) THEN Heard(kids, n)
                             ELSE Append(Heard(kids, n), Known[kids[n + 1]])
    BY <1>2, HeardNext
  <2>2. Heard(kids, n) \in Seq(Items)
    BY <1>2, HeardNext
  <2>3. Append(Heard(kids, n), Known[kids[n + 1]]) # <<>>
    <3>1. kids[n + 1] \in Structure
      BY <1>0, <1>2, ElementOfSeq
    <3>2. Known[kids[n + 1]] \in Items
      BY <3>1
    <3>3. ASSUME NEW s \in Seq(Items), NEW e \in Items PROVE Append(s, e) # <<>>
      BY <3>3, AppendProperties, EmptySeq
    <3> HIDE DEF Items
    <3> QED
      BY <2>2, <3>2, <3>3
  <2>4. CASE n = 0
    <3>1. kids[n + 1] = kids[1]
      BY <2>4
    <3> QED
      BY <1>0, <2>1, <2>3, <2>4, <3>1
  <2>5. CASE n > 0
    <3>1. Heard(kids, n) # <<>>
      BY <1>2, <2>5
    <3>2. Heard(kids, n + 1) # <<>>
      BY <2>1, <2>3, <3>1
    <3>3. n + 1 \in 0 .. Len(kids)
      BY <1>0, <1>2
    <3> QED
      BY <3>2, <3>3
  <2> QED
    BY <1>2, <2>4, <2>5
<1> HIDE DEF S
<1>3. 0 .. Len(kids) \subseteq S
  BY <1>0, <1>1, <1>2, Upwards
<1>4. \A n \in 1 .. Len(kids) : n \in S /\ n > 0
  BY <1>0, <1>3
<1> QED
  BY <1>4, HeardNext DEF S

\* Which parser each list has; a flow begins with a match.
LEMMA ReadBy ==
  ASSUME NEW list, NEW at, NEW items, ~(at + 4 > Len(buf))
  PROVE  /\ list = "flow" =>
               Read(list, at, items) = IF items = <<>> THEN ReadMatch(at) ELSE ReadInstruction(at)
         /\ list = "action" => Read(list, at, items) = ReadAction(at)
         /\ list = "match" => Read(list, at, items) = ReadMatch(at)
         /\ list = "oxm" => Read(list, at, items) = ReadOxm(at)
         /\ list = "band" => Read(list, at, items) = ReadBand(at)
         /\ list = "hello_element" => Read(list, at, items) = ReadHelloElement(at)
         /\ list = "queue_prop" => Read(list, at, items) = ReadQueueProp(at)
         /\ list = "table_prop" => Read(list, at, items) = ReadTableProp(at)
         /\ list = "id" => Read(list, at, items) = ReadId(at)
         /\ list = "oxm_id" => Read(list, at, items) = ReadOxmId(at)
         /\ list = "experimenter_stats" => Read(list, at, items) = ReadExperimenterStats(at)
<1>1. list \in {"flow", "action", "match", "oxm", "band", "hello_element", "queue_prop",
               "table_prop", "id", "oxm_id", "experimenter_stats"}
        => list \notin DOMAIN SizedKinds /\ list \notin DOMAIN FixedKinds
  BY SizesOf
<1>2. list = "flow" =>
        Read(list, at, items) = IF items = <<>> THEN ReadMatch(at) ELSE ReadInstruction(at)
  <2>1. CASE items = <<>>
    BY <1>1, <2>1 DEF Read
  <2>2. CASE items # <<>>
    BY <1>1, <2>2 DEF Read
  <2> QED
    BY <2>1, <2>2
<1>3. list = "action" => Read(list, at, items) = ReadAction(at)
  BY <1>1 DEF Read
<1>4. list = "match" => Read(list, at, items) = ReadMatch(at)
  BY <1>1 DEF Read
<1>5. list = "oxm" => Read(list, at, items) = ReadOxm(at)
  BY <1>1 DEF Read
<1>6. list = "band" => Read(list, at, items) = ReadBand(at)
  BY <1>1 DEF Read
<1>7. list = "hello_element" => Read(list, at, items) = ReadHelloElement(at)
  BY <1>1 DEF Read
<1>8. list = "queue_prop" => Read(list, at, items) = ReadQueueProp(at)
  BY <1>1 DEF Read
<1>9. list = "table_prop" => Read(list, at, items) = ReadTableProp(at)
  BY <1>1 DEF Read
<1>10. list = "id" => Read(list, at, items) = ReadId(at)
  BY <1>1 DEF Read
<1>11. list = "oxm_id" => Read(list, at, items) = ReadOxmId(at)
  BY <1>1 DEF Read
<1>12. list = "experimenter_stats" => Read(list, at, items) = ReadExperimenterStats(at)
  BY <1>1 DEF Read
<1> QED
  BY <1>2, <1>3, <1>4, <1>5, <1>6, <1>7, <1>8, <1>9, <1>10, <1>11, <1>12

\* A structure that a list may have is read from its bytes, wherever they lie.
LEMMA ReadHere ==
  ASSUME PlainSettable, NEW list \in Lists, list # "experimenter_stats",
         NEW kids \in Seq(Structure), Fits(list, kids), NEW n \in Nat, n < Len(kids),
         buf \in Octets, NEW at \in Nat, Lies(Bytes[kids[n + 1]], buf, at)
  PROVE  Reads(kids[n + 1], Read(list, at, Heard(kids, n)), at)
<1> DEFINE o == kids[n + 1]
<1> DEFINE items == Heard(kids, n)
<1>0. Len(kids) \in Nat /\ n + 1 \in 1 .. Len(kids) /\ DOMAIN kids = 1 .. Len(kids)
  BY LenProperties
<1>1. o \in Structure
  BY <1>0, ElementOfSeq
<1> HIDE DEF o
<1>2. ~(at + 4 > Len(buf))
  <2>1. 4 <= Size(Bytes[o]) /\ Size(Bytes[o]) \in Nat /\ Size(buf) \in Nat
    BY <1>1, InnerParts, Sized1
  <2>2. at + Size(Bytes[o]) <= Size(buf)
    BY DEF Lies, o
  <2> QED
    BY <2>1, <2>2 DEF Size
<1>3. CASE list = "action"
  <2>1. o.kind \in {"action", "nx_action"}
    BY <1>0, <1>3 DEF Fits, o
  <2>2. Reads(o, ReadAction(at), at)
    BY <1>1, <2>1, NxHere, PlainActionHere, SetFieldHere DEF o
  <2> QED
    BY <1>2, <1>3, <2>2, ReadBy DEF o
<1>4. CASE list = "match"
  <2>1. o.kind = "match"
    <3>1. n = 0
      BY <1>0, <1>4 DEF Fits
    <3> QED
      BY <1>4, <3>1 DEF Fits, o
  <2>2. Reads(o, ReadMatch(at), at)
    BY <1>1, <2>1, MatchHere DEF o
  <2> QED
    BY <1>2, <1>4, <2>2, ReadBy DEF o
<1>5. CASE list = "flow"
  <2>0. /\ kids # <<>> /\ kids[1].kind = "match"
        /\ \A i \in 2 .. Len(kids) : kids[i].kind = "instruction"
    BY <1>5 DEF Fits
  <2>1. Heard(kids, 0) = <<>> /\ \A i \in 1 .. Len(kids) : Heard(kids, i) # <<>>
    <3>1. ~PassedOver(kids[1])
      BY <2>0 DEF PassedOver
    <3> QED
      BY <2>0, <3>1, HeardSome
  <2>2. CASE n = 0
    <3>1. o.kind = "match" /\ items = <<>>
      BY <2>0, <2>1, <2>2 DEF o
    <3>2. Reads(o, ReadMatch(at), at)
      BY <1>1, <3>1, MatchHere DEF o
    <3>3. Read(list, at, items) = ReadMatch(at)
      BY <1>2, <1>5, <3>1, ReadBy
    <3> QED
      BY <3>2, <3>3 DEF o
  <2>3. CASE n > 0
    <3>1. o.kind = "instruction" /\ items # <<>>
      BY <1>0, <2>0, <2>1, <2>3 DEF o
    <3>2. Reads(o, ReadInstruction(at), at)
      BY <1>1, <3>1, InstructionHere DEF o
    <3>3. Read(list, at, items) = ReadInstruction(at)
      BY <1>2, <1>5, <3>1, ReadBy
    <3> QED
      BY <3>2, <3>3 DEF o
  <2> QED
    BY <2>2, <2>3
<1>6. CASE list = "oxm"
  <2>1. o.kind \in {"oxm", "oxm_w"}
    BY <1>0, <1>6 DEF Fits, o
  <2>2. Reads(o, ReadOxm(at), at)
    BY <1>1, <2>1, ReadOxmHere DEF o
  <2> QED
    BY <1>2, <1>6, <2>2, ReadBy DEF o
<1>7. CASE list \notin {"action", "match", "flow", "oxm"}
  <2>1. o.kind = list
    <3>1. list \notin {"none", "data"}
      BY SizesOf DEF Lists
    <3> QED
      BY <1>0, <1>7, <3>1 DEF Fits, o
  <2>2. CASE list = "band"
    BY <1>1, <1>2, <2>1, <2>2, ReadBy, BandHere DEF o
  <2>3. CASE list = "hello_element"
    BY <1>1, <1>2, <2>1, <2>3, ReadBy, HelloElementHere DEF o
  <2>4. CASE list = "queue_prop"
    BY <1>1, <1>2, <2>1, <2>4, ReadBy, QueuePropHere DEF o
  <2>5. CASE list = "table_prop"
    BY <1>1, <1>2, <2>1, <2>5, ReadBy, TablePropHere DEF o
  <2>6. CASE list = "id"
    BY <1>1, <1>2, <2>1, <2>6, ReadBy, IdHere DEF o
  <2>7. CASE list = "oxm_id"
    BY <1>1, <1>2, <2>1, <2>7, ReadBy, OxmIdHere DEF o
  <2>8. CASE list \in DOMAIN SizedKinds
    <3>1. Reads(o, ReadSized(list, at), at)
      BY <1>1, <2>1, <2>8, SizedHere DEF o
    <3>2. /\ list \notin {"band", "hello_element", "queue_prop", "table_prop", "id",
                          "oxm_id", "experimenter_stats"}
          /\ list \notin DOMAIN FixedKinds
      BY <2>8, SizesOf
    <3>3. Read(list, at, items) = ReadSized(list, at)
      BY <1>2, <1>7, <2>8, <3>2 DEF Read
    <3> QED
      BY <3>1, <3>3 DEF o
  <2>9. CASE list \in DOMAIN FixedKinds
    <3>1. Reads(o, ReadFixed(list, at), at)
      BY <1>1, <2>1, <2>9, FixedHere DEF o
    <3>2. /\ list \notin {"band", "hello_element", "queue_prop", "table_prop", "id",
                          "oxm_id", "experimenter_stats"}
          /\ list \notin DOMAIN SizedKinds
      BY <2>9, SizesOf
    <3>3. Read(list, at, items) = ReadFixed(list, at)
      BY <1>2, <1>7, <2>9, <3>2 DEF Read
    <3> QED
      BY <3>1, <3>3 DEF o
  <2> QED
    BY <1>7, <2>2, <2>3, <2>4, <2>5, <2>6, <2>7, <2>8, <2>9 DEF Lists
<1> QED
  BY <1>3, <1>4, <1>5, <1>6, <1>7

(***************************************************************************)
(* The header of a message.                                                *)
(***************************************************************************)

MessageName(k) ==
    CASE k = 0 -> "hello" [] k = 1 -> "error" [] k = 2 -> "echo_request"
      [] k = 3 -> "echo_reply" [] k = 4 -> "experimenter" [] k = 5 -> "features_request"
      [] k = 6 -> "features" [] k = 7 -> "get_config" [] k = 8 -> "config_reply"
      [] k = 9 -> "set_config" [] k = 10 -> "packet_in" [] k = 11 -> "flow_removed"
      [] k = 12 -> "port_status" [] k = 13 -> "packet_out" [] k = 14 -> "flow_mod"
      [] k = 15 -> "group_mod" [] k = 16 -> "port_mod" [] k = 17 -> "table_mod"
      [] k = 19 -> "multipart" [] k = 20 -> "barrier" [] k = 21 -> "barrier_reply"
      [] k = 22 -> "queue_get" [] k = 23 -> "queue_config" [] k = 24 -> "role"
      [] k = 25 -> "role_reply" [] k = 26 -> "get_async" [] k = 27 -> "async_reply"
      [] k = 28 -> "set_async" [] k = 29 -> "meter_mod"

\* What is known of each row of the table of messages.
MessageRow(t, b) ==
    /\ MessageName(b.number) = t
    /\ b.number \in Nat /\ b.head \in Nat /\ b.head >= 8
    /\ b.list \in {"none", "data", "hello_element", "match", "port", "action", "flow",
                   "bucket", "queue", "band", "reply"}
    /\ b.list \notin {"none", "data"} => b.head % 8 = 0
    /\ t = "packet_out" => b.head = 24 /\ b.list = "action"
    /\ t = "packet_in" => b.head = 24 /\ b.list = "match"
    /\ t = "port_status" => b.head = 16 /\ b.list = "port"
    /\ t = "error" => b.head = 12 /\ b.list = "data"
    /\ t = "multipart" => b.head = 16
    /\ t = "multipart" <=> b.list = "reply"

\* An entry of two tables is of one of them.
LEMMA TablesOr ==
  ASSUME NEW f, NEW g
  PROVE  \A x \in DOMAIN Tables(f, g) :
            \/ x \in DOMAIN f /\ Tables(f, g)[x] = f[x]
            \/ x \in DOMAIN g /\ Tables(f, g)[x] = g[x]
BY DEF Tables

\* The table of messages, row by row.
LEMMA MessageTable == \A t \in DOMAIN Messages : MessageRow(t, Messages[t])
<1> USE DEF MessageRow, MessageName, Body
<1>1. \A t \in DOMAIN FeaturesAndConfig : MessageRow(t, FeaturesAndConfig[t])
  BY DEF FeaturesAndConfig
<1>2. \A t \in DOMAIN PortAndTableMod : MessageRow(t, PortAndTableMod[t])
  BY DEF PortAndTableMod
<1>3. \A t \in DOMAIN Barriers : MessageRow(t, Barriers[t])
  BY DEF Barriers
<1>4. \A t \in DOMAIN RoleAndAsync : MessageRow(t, RoleAndAsync[t])
  BY DEF RoleAndAsync
<1> DEFINE Q == [queue_get |-> OFPQueueGetConfigRequest]
<1>5. \A t \in DOMAIN Q : MessageRow(t, Q[t])
  BY DEF OFPQueueGetConfigRequest
<1>6. \A t \in DOMAIN DataMessages : MessageRow(t, DataMessages[t])
  BY DEF DataMessages, OFPErrorMsg
<1>7. \A t \in DOMAIN ListMessages : MessageRow(t, ListMessages[t])
  <2> SUFFICES ASSUME NEW t \in DOMAIN ListMessages PROVE MessageRow(t, ListMessages[t])
    OBVIOUS
  <2>1. \/ t \in {"hello", "packet_in", "flow_removed"}
        \/ t \in {"port_status", "packet_out", "flow_mod"}
        \/ t \in {"group_mod", "multipart", "queue_config", "meter_mod"}
    BY DEF ListMessages
  <2>2. CASE t \in {"hello", "packet_in", "flow_removed"}
    <3>1. /\ ListMessages["hello"] = OFPHello /\ ListMessages["packet_in"] = OFPPacketIn
          /\ ListMessages["flow_removed"] = OFPFlowRemoved
      BY DEF ListMessages
    <3> QED
      BY <2>2, <3>1 DEF OFPHello, OFPPacketIn, OFPFlowRemoved
  <2>3. CASE t \in {"port_status", "packet_out", "flow_mod"}
    <3>1. /\ ListMessages["port_status"] = OFPPortStatus
          /\ ListMessages["packet_out"] = OFPPacketOut /\ ListMessages["flow_mod"] = OFPFlowMod
      BY DEF ListMessages
    <3> QED
      BY <2>3, <3>1 DEF OFPPortStatus, OFPPacketOut, OFPFlowMod
  <2>4. CASE t \in {"group_mod", "multipart", "queue_config", "meter_mod"}
    <3>1. /\ ListMessages["group_mod"] = OFPGroupMod
          /\ ListMessages["multipart"] = OFPMultipartReply
          /\ ListMessages["queue_config"] = OFPQueueGetConfigReply
          /\ ListMessages["meter_mod"] = OFPMeterMod
      BY DEF ListMessages
    <3> QED
      BY <2>4, <3>1 DEF OFPGroupMod, OFPMultipartReply, OFPQueueGetConfigReply, OFPMeterMod
  <2> QED
    BY <2>1, <2>2, <2>3, <2>4
<1> HIDE DEF MessageRow, MessageName, Body, Q
<1> DEFINE Good2(f) == \A t \in DOMAIN f : MessageRow(t, f[t])
<1>8. ASSUME NEW f, NEW g, Good2(f), Good2(g) PROVE Good2(Tables(f, g))
  BY <1>8, TablesOr
<1>9. /\ Good2(FeaturesAndConfig) /\ Good2(PortAndTableMod) /\ Good2(Barriers)
      /\ Good2(RoleAndAsync) /\ Good2(Q) /\ Good2(DataMessages) /\ Good2(ListMessages)
  BY <1>1, <1>2, <1>3, <1>4, <1>5, <1>6, <1>7
<1>10. Messages = Tables(Tables(Tables(FeaturesAndConfig, PortAndTableMod),
                                Tables(Tables(Barriers, RoleAndAsync), Q)),
                         Tables(DataMessages, ListMessages))
  BY DEF Messages, FixedMessages, Q
<1> HIDE DEF Good2
<1>11. /\ Good2(Tables(FeaturesAndConfig, PortAndTableMod))
       /\ Good2(Tables(Barriers, RoleAndAsync))
       /\ Good2(Tables(DataMessages, ListMessages))
  BY <1>8, <1>9
<1>12. Good2(Tables(Tables(Barriers, RoleAndAsync), Q))
  BY <1>8, <1>9, <1>11
<1>13. Good2(Tables(Tables(FeaturesAndConfig, PortAndTableMod),
                    Tables(Tables(Barriers, RoleAndAsync), Q)))
  BY <1>8, <1>11, <1>12
<1>14. Good2(Messages)
  BY <1>8, <1>10, <1>11, <1>13
<1> QED
  BY <1>14 DEF Good2

\* Every reply lists structures some parser reads.
LEMMA StatsLists == DOMAIN StatsTypes \subseteq Lists
<1>1. DOMAIN StatsTypes = {"desc", "flow_stats", "aggregate", "table_stats", "port_stats",
                           "queue_stats", "group_stats", "group_desc", "group_features",
                           "meter_stats", "meter_config", "meter_features", "table_features",
                           "port", "experimenter_stats"}
  BY DEF StatsTypes
<1> QED
  BY <1>1, SizesOf DEF Lists

\* A number inside what lies somewhere is read there.
LEMMA LiesWordIn ==
  ASSUME NEW s \in Octets, NEW b \in Octets, NEW at \in Nat, Lies(s, b, at),
         NEW j \in Nat, j + 2 <= Size(s)
  PROVE  Word(b, at + j) = Word(s, j)
<1>1. Size(s) \in Nat
  BY Sized1
<1>2. j + 1 \in 1 .. Size(s) /\ j + 2 \in 1 .. Size(s)
  BY <1>1
<1>3. b[at + (j + 1)] = s[j + 1] /\ b[at + (j + 2)] = s[j + 2]
  BY <1>2 DEF Lies
<1>4. at + j + 1 = at + (j + 1) /\ at + j + 2 = at + (j + 2)
  OBVIOUS
<1> QED
  BY <1>3, <1>4 DEF Word

\* A message in three parts: what is before its list, the list, what is behind.
InnerOf(m) == Inner(m.kids, Bytes)
Start(m, len) == Then(Then(<<4, Messages[m.type].number>>, U16(len)), Zeros(4))
FrontOf(m) ==
    IF m.type = "packet_out" THEN Then(Then(m.body, U16(Size(InnerOf(m)))), Zeros(6))
    ELSE m.body
BackOf(m) == IF m.type = "packet_in" THEN Then(Zeros(2), m.data) ELSE m.data
BodyOf(m) == Then(Then(FrontOf(m), InnerOf(m)), BackOf(m))

\* What every message is.
LEMMA MessageForm ==
  ASSUME NEW m \in WellFormed
  PROVE  /\ m = Msg(m.type, m.body, m.kids, m.data)
         /\ m.type \in DOMAIN Messages /\ MessageRow(m.type, Messages[m.type])
         /\ m.body \in Octets /\ m.data \in Octets /\ m.kids \in Seq(Structure)
         /\ Size(m.body) = FixedSize(m) /\ DataFits(m) /\ KidsFit(m)
<1>1. /\ m \in [type : DOMAIN Messages, body : Seq(Byte), kids : Seq(Structure), data : Seq(Byte)]
      /\ Size(m.body) = FixedSize(m) /\ DataFits(m) /\ KidsFit(m)
  BY DEF WellFormed, Size
<1>2. m.body \in Octets /\ m.data \in Octets
  <2>1. m.body \in Seq(Byte) /\ m.data \in Seq(Byte) /\ Byte \subseteq Nat
    BY <1>1 DEF Byte
  <2> HIDE DEF Byte
  <2> QED
    BY <2>1, SeqMonotonic DEF Octets
<1>3. m = Msg(m.type, m.body, m.kids, m.data)
  BY <1>1 DEF Msg
<1> QED
  BY <1>1, <1>2, <1>3, MessageTable

\* The bytes of the structures of a message.
LEMMA MessageInner ==
  ASSUME PlainSettable, NEW m \in WellFormed
  PROVE  /\ InnerOf(m) \in Octets /\ Size(InnerOf(m)) \in Nat
         /\ InnerOf(m) = Flat(m.kids, Len(m.kids))
         /\ m.kids = <<>> => InnerOf(m) = <<>>
<1>1. m.kids \in Seq(Structure) /\ Len(m.kids) \in Nat /\ Len(m.kids) \in 0 .. Len(m.kids)
  BY MessageForm, LenProperties
<1>2. \A i \in 1 .. Len(m.kids) : Bytes[m.kids[i]] \in Octets
  BY <1>1, AllGood, ElementOfSeq DEF Good
<1>3. InnerOf(m) = Flat(m.kids, Len(m.kids)) /\ InnerOf(m) \in Octets /\ Flat(m.kids, 0) = <<>>
  BY <1>1, <1>2, FlatNext DEF InnerOf
<1>4. m.kids = <<>> => InnerOf(m) = <<>>
  <2>1. m.kids = <<>> => Len(m.kids) = 0
    BY EmptySeq
  <2> QED
    BY <1>3, <2>1
<1> QED
  BY <1>3, <1>4, Sized1

\* The bytes of a message: header, front, structures, back.
LEMMA MessageParts ==
  ASSUME PlainSettable, NEW m \in WellFormed
  PROVE  /\ MessageBytes(m) = Then(Start(m, 8 + Size(BodyOf(m))), BodyOf(m))
         /\ FrontOf(m) \in Octets /\ BackOf(m) \in Octets /\ BodyOf(m) \in Octets
         /\ Then(FrontOf(m), InnerOf(m)) \in Octets
         /\ Size(FrontOf(m)) = IF m.type = "packet_out" THEN 16 ELSE FixedSize(m)
         /\ Size(BodyOf(m)) = (Size(FrontOf(m)) + Size(InnerOf(m))) + Size(BackOf(m))
         /\ Size(FrontOf(m)) \in Nat /\ Size(BackOf(m)) \in Nat /\ Size(BodyOf(m)) \in Nat
<1> DEFINE inner == InnerOf(m)
<1>1. inner \in Octets /\ m.body \in Octets /\ m.data \in Octets /\ Size(inner) \in Nat
  BY MessageForm, MessageInner
<1>2. 6 \in Nat /\ 2 \in Nat
  OBVIOUS
<1>3. /\ Zeros(6) \in Octets /\ Size(Zeros(6)) = 6
      /\ Zeros(2) \in Octets /\ Size(Zeros(2)) = 2
  BY <1>2, ZerosForm
<1> DEFINE u == U16(Size(inner))
<1>4. u \in Octets /\ Size(u) = 2
  BY <1>1, Halves
<1> HIDE DEF inner, u
<1> DEFINE both == Then(m.body, u)
<1>5. both \in Octets /\ Size(both) = Size(m.body) + Size(u)
  BY <1>1, <1>4, Joined
<1> HIDE DEF both
<1>6. Then(both, Zeros(6)) \in Octets /\ Size(Then(both, Zeros(6))) = Size(both) + Size(Zeros(6))
  BY <1>3, <1>5, Joined
<1>7. Size(m.body) = FixedSize(m) /\ Size(m.body) \in Nat
  BY MessageForm, Sized1
<1>8. /\ FrontOf(m) \in Octets
      /\ Size(FrontOf(m)) = IF m.type = "packet_out" THEN 16 ELSE FixedSize(m)
  <2>1. CASE m.type = "packet_out"
    <3>1. FrontOf(m) = Then(both, Zeros(6))
      BY <2>1 DEF FrontOf, both, u, inner
    <3>2. Size(m.body) = 8
      BY <1>7, <2>1 DEF FixedSize
    <3>3. Size(Then(both, Zeros(6))) = 16
      BY <1>3, <1>4, <1>5, <1>6, <3>2
    <3> QED
      BY <1>6, <2>1, <3>1, <3>3
  <2>2. CASE m.type # "packet_out"
    BY <1>1, <1>7, <2>2 DEF FrontOf
  <2> QED
    BY <2>1, <2>2
<1>9. BackOf(m) \in Octets
  BY <1>1, <1>3, Joined DEF BackOf
<1>10. Then(FrontOf(m), inner) \in Octets /\ Size(Then(FrontOf(m), inner)) = Size(FrontOf(m)) + Size(inner)
  BY <1>1, <1>8, Joined
<1>11. /\ BodyOf(m) \in Octets
       /\ Size(BodyOf(m)) = (Size(FrontOf(m)) + Size(inner)) + Size(BackOf(m))
  <2>1. BodyOf(m) = Then(Then(FrontOf(m), inner), BackOf(m))
    BY DEF BodyOf, inner
  <2> DEFINE most == Then(FrontOf(m), inner)
  <2>2. most \in Octets /\ Size(most) = Size(FrontOf(m)) + Size(inner)
    BY <1>10
  <2>3. BodyOf(m) = Then(most, BackOf(m))
    BY <2>1
  <2> HIDE DEF most
  <2>4. Then(most, BackOf(m)) \in Octets /\ Size(Then(most, BackOf(m))) = Size(most) + Size(BackOf(m))
    BY <1>9, <2>2, Joined
  <2> QED
    BY <2>2, <2>3, <2>4
<1>12. MessageBytes(m) = Then(Start(m, 8 + Size(BodyOf(m))), BodyOf(m))
  <2>1. BodyOf(m) = CASE m.type = "packet_out" ->
                           m.body \o U16(Len(inner)) \o Zeros(6) \o inner \o m.data
                      [] m.type = "packet_in" -> m.body \o inner \o Zeros(2) \o m.data
                      [] OTHER -> m.body \o inner \o m.data
    <3>1. CASE m.type = "packet_out"
      BY <3>1 DEF BodyOf, FrontOf, BackOf, Then, Size, inner
    <3>2. CASE m.type = "packet_in"
      <4>1. BodyOf(m) = Then(Then(m.body, inner), Then(Zeros(2), m.data))
        BY <3>2 DEF BodyOf, FrontOf, BackOf, inner
      <4>2. Then(m.body, inner) \in Octets
        BY <1>1, Joined
      <4>3. BodyOf(m) = Then(Then(Then(m.body, inner), Zeros(2)), m.data)
        BY <1>1, <1>3, <4>1, <4>2, ThenThen
      <4> QED
        BY <3>2, <4>3 DEF Then
    <3>3. CASE m.type \notin {"packet_out", "packet_in"}
      BY <3>3 DEF BodyOf, FrontOf, BackOf, Then, inner
    <3> QED
      BY <3>1, <3>2, <3>3
  <2> DEFINE body == CASE m.type = "packet_out" ->
                           m.body \o U16(Len(inner)) \o Zeros(6) \o inner \o m.data
                      [] m.type = "packet_in" -> m.body \o inner \o Zeros(2) \o m.data
                      [] OTHER -> m.body \o inner \o m.data
  <2>2. MessageBytes(m)
          = <<4, Messages[m.type].number>> \o U16(8 + Len(body)) \o Zeros(4) \o body
    BY DEF MessageBytes, inner, InnerOf
  <2>3. body = BodyOf(m)
    BY <2>1
  <2> HIDE DEF body
  <2> QED
    BY <2>2, <2>3 DEF Start, Then, Size
<1> QED
  BY <1>8, <1>9, <1>10, <1>11, <1>12, Sized1 DEF inner

\* Where each part lies in them, and what the header says.
LEMMA MessageLies ==
  ASSUME PlainSettable, NEW m \in WellFormed, NEW b, b = MessageBytes(m)
  PROVE  /\ b \in Octets /\ b[2] = Messages[m.type].number /\ Word(b, 2) = Size(b)
         /\ Size(b) \in Nat /\ Size(b) = 8 + Size(BodyOf(m))
         /\ Lies(m.body, b, 8)
         /\ Lies(InnerOf(m), b, 8 + Size(FrontOf(m)))
         /\ Lies(BackOf(m), b, (8 + Size(FrontOf(m))) + Size(InnerOf(m)))
         /\ m.type = "packet_out" => Word(b, 16) = Size(InnerOf(m))
<1> DEFINE number == Messages[m.type].number
<1> DEFINE len == 8 + Size(BodyOf(m))
<1> DEFINE front == FrontOf(m)
<1> DEFINE inner == InnerOf(m)
<1> DEFINE back == BackOf(m)
<1> DEFINE body == BodyOf(m)
<1>1. /\ b = Then(Start(m, len), body) /\ body = Then(Then(front, inner), back)
      /\ front \in Octets /\ back \in Octets /\ body \in Octets /\ inner \in Octets
      /\ Then(front, inner) \in Octets /\ Size(inner) \in Nat
      /\ Size(front) \in Nat /\ Size(back) \in Nat /\ Size(body) \in Nat
      /\ Size(body) = (Size(front) + Size(inner)) + Size(back)
  BY MessageParts, MessageInner DEF BodyOf
<1>2. number \in Nat /\ len \in Nat /\ 4 \in Nat /\ m.body \in Octets /\ len = 8 + Size(body)
  BY <1>1, MessageForm DEF MessageRow
<1> HIDE DEF number, len, front, inner, back, body
<1> DEFINE first == <<4, number>>
<1>3. first \in Octets /\ Size(first) = 2 /\ first[2] = number
  BY <1>2, TwoBytes
<1>4. U16(len) \in Octets /\ Size(U16(len)) = 2 /\ Zeros(4) \in Octets /\ Size(Zeros(4)) = 4
  BY <1>2, Halves, ZerosForm
<1> HIDE DEF first
<1>5. Then(first, U16(len)) \in Octets /\ Size(Then(first, U16(len))) = 4
  <2>1. /\ Then(first, U16(len)) \in Octets
        /\ Size(Then(first, U16(len))) = Size(first) + Size(U16(len))
    BY <1>3, <1>4, Joined
  <2> QED
    BY <1>3, <1>4, <2>1
<1> DEFINE four == Then(first, U16(len))
<1> DEFINE start == Start(m, len)
<1>6. start = Then(four, Zeros(4))
  BY DEF Start, first, number
<1>7. four \in Octets /\ Size(four) = 4
  BY <1>5
<1> HIDE DEF four, start
<1>8. start \in Octets /\ Size(start) = 8
  <2>1. Then(four, Zeros(4)) \in Octets /\ Size(Then(four, Zeros(4))) = Size(four) + Size(Zeros(4))
    BY <1>4, <1>7, Joined
  <2> QED
    BY <1>4, <1>6, <1>7, <2>1
<1>9. b = Then(start, body)
  BY <1>1 DEF start
<1>10. b \in Octets /\ Size(b) = len /\ Size(b) \in Nat
  <2>1. Then(start, body) \in Octets /\ Size(Then(start, body)) = Size(start) + Size(body)
    BY <1>1, <1>8, Joined
  <2> QED
    BY <1>2, <1>8, <1>9, <2>1
<1>11. 0 \in Nat /\ 2 \in Nat /\ 8 \in Nat /\ 0 + 8 = 8 /\ 0 + 4 = 4 /\ 0 + 2 = 2
  OBVIOUS
<1>12. Lies(Then(start, body), b, 0)
  BY <1>9, <1>10, LiesSelf
<1>13. Lies(start, b, 0) /\ Lies(body, b, 8)
  BY <1>1, <1>8, <1>10, <1>11, <1>12, LiesThen
<1>14. Lies(four, b, 0)
  BY <1>4, <1>6, <1>7, <1>10, <1>11, <1>13, LiesThen
<1>15. Lies(first, b, 0) /\ Lies(U16(len), b, 2)
  BY <1>3, <1>4, <1>10, <1>11, <1>14, LiesThen DEF four
<1>16. b[2] = number
  <2>1. 2 \in 1 .. Size(first) /\ b[0 + 2] = first[2]
    BY <1>3, <1>15 DEF Lies
  <2> QED
    BY <1>3, <1>11, <2>1
<1>17. Word(b, 2) = len
  BY <1>2, <1>10, <1>11, <1>15, LiesWord
<1>18. Lies(Then(front, inner), b, 8) /\ Lies(back, b, 8 + Size(Then(front, inner)))
  BY <1>1, <1>10, <1>11, <1>13, LiesThen
<1>19. Lies(front, b, 8) /\ Lies(inner, b, 8 + Size(front))
  BY <1>1, <1>10, <1>11, <1>18, LiesThen
<1>20. 8 + Size(Then(front, inner)) = (8 + Size(front)) + Size(inner)
  <2>1. Size(Then(front, inner)) = Size(front) + Size(inner)
    BY <1>1, Joined
  <2> QED
    BY <1>1, <2>1
<1>21. Lies(m.body, b, 8) /\ (m.type = "packet_out" => Word(b, 16) = Size(inner))
  <2>1. CASE m.type = "packet_out"
    <3> DEFINE u == U16(Size(inner))
    <3>1. front = Then(Then(m.body, u), Zeros(6))
      BY <2>1 DEF front, FrontOf, inner
    <3>2. u \in Octets /\ Then(m.body, u) \in Octets
      <4>1. u \in Octets
        BY <1>1, Halves
      <4> HIDE DEF u
      <4> QED
        BY <1>2, <4>1, Joined
    <3> HIDE DEF u
    <3>3. Zeros(6) \in Octets
      BY ZerosForm
    <3>4. Lies(Then(m.body, u), b, 8)
      BY <1>10, <1>11, <1>19, <3>1, <3>2, <3>3, LiesThen
    <3>5. Lies(m.body, b, 8) /\ Lies(u, b, 8 + Size(m.body))
      BY <1>2, <1>10, <1>11, <3>2, <3>4, LiesThen
    <3>6. Size(m.body) = 8
      BY <2>1, MessageForm DEF FixedSize
    <3>7. 8 + Size(m.body) = 16 /\ 16 \in Nat
      BY <3>6
    <3>8. Word(b, 16) = Size(inner)
      BY <1>1, <1>10, <3>5, <3>7, LiesWord DEF u
    <3> QED
      BY <3>5, <3>8
  <2>2. CASE m.type # "packet_out"
    BY <1>19, <2>2 DEF front, FrontOf
  <2> QED
    BY <2>1, <2>2
<1>22. Lies(inner, b, 8 + Size(front)) /\ Lies(back, b, (8 + Size(front)) + Size(inner))
  BY <1>18, <1>19, <1>20
<1> QED
  BY <1>10, <1>16, <1>17, <1>21, <1>22 DEF number, len, front, inner, back, body

\* Where the list of a message begins, and where what is behind it does.
ListFrom(m) == 8 + Size(FrontOf(m))
ListTo(m) == ListFrom(m) + Size(InnerOf(m))

\* The message is known by its number, and its fixed part and its list are
\* found where they were written.
LEMMA HeaderRead ==
  ASSUME PlainSettable, NEW m \in WellFormed, buf = MessageBytes(m)
  PROVE  /\ MessageType = m.type
         /\ HeadSize(m.type) = ListFrom(m)
         /\ Fixed(m.type) = m.body
         /\ m.type = "multipart" => Word(buf, 8) = Word(m.body, 0)
<1>1. /\ m.type \in DOMAIN Messages /\ \A t \in DOMAIN Messages : MessageRow(t, Messages[t])
      /\ m.body \in Octets /\ Size(m.body) = FixedSize(m)
  BY MessageForm, MessageTable
<1>2. /\ buf \in Octets /\ buf[2] = Messages[m.type].number /\ Lies(m.body, buf, 8)
  BY MessageLies
<1>3. MessageType = m.type
  <2>1. \A t \in DOMAIN Messages : Messages[t].number = buf[2] => t = m.type
    <3> SUFFICES ASSUME NEW t \in DOMAIN Messages, Messages[t].number = buf[2] PROVE t = m.type
      OBVIOUS
    <3>1. MessageName(Messages[t].number) = t /\ MessageName(Messages[m.type].number) = m.type
      BY <1>1 DEF MessageRow
    <3> QED
      BY <1>2, <3>1
  <2> QED
    BY <1>1, <1>2, <2>1 DEF MessageType
<1>4. Size(FrontOf(m)) = IF m.type = "packet_out" THEN 16 ELSE FixedSize(m)
  BY MessageParts
<1> DEFINE head == Messages[m.type].head
<1>5. head \in Nat /\ head >= 8
  BY <1>1 DEF MessageRow
<1>6. \A j \in Nat : j + 2 <= Size(m.body) => Word(buf, 8 + j) = Word(m.body, j)
  <2>1. 8 \in Nat
    OBVIOUS
  <2> QED
    BY <1>1, <1>2, <2>1, LiesWordIn
<1>7. 0 \in Nat /\ 8 + 0 = 8 /\ 0 + 2 = 2
  OBVIOUS
<1>8. m.type \in {"error", "multipart"} => Word(buf, 8) = Word(m.body, 0)
  <2>1. m.type \in {"error", "multipart"} => Size(m.body) >= 2
    BY <1>1, <1>5 DEF FixedSize, Extra, MessageRow
  <2> QED
    BY <1>6, <1>7, <2>1
<1>9. HeadSize(m.type) = ListFrom(m)
  <2>1. CASE m.type = "packet_out"
    BY <1>1, <1>4, <2>1 DEF HeadSize, ListFrom, MessageRow
  <2>2. CASE m.type # "packet_out"
    <3>1. HeadSize(m.type) = head + Extra(m) /\ Extra(m) \in Nat
      BY <1>8, <2>2 DEF HeadSize, Extra
    <3>2. FixedSize(m) = head - 8 + Extra(m)
      BY <2>2 DEF FixedSize
    <3> QED
      BY <1>4, <1>5, <2>2, <3>1, <3>2 DEF ListFrom
  <2> QED
    BY <2>1, <2>2
<1>10. (IF m.type = "packet_out" THEN 16 ELSE HeadSize(m.type)) - 8 = Size(m.body)
  <2>1. CASE m.type = "packet_out"
    BY <1>1, <2>1 DEF FixedSize
  <2>2. CASE m.type # "packet_out"
    BY <1>1, <1>4, <1>5, <1>9, <2>2, Sized1 DEF ListFrom
  <2> QED
    BY <2>1, <2>2
<1>11. Fixed(m.type) = m.body
  <2>1. At(buf, 8, Size(m.body)) = m.body
    BY <1>1, <1>2, LiesAt
  <2> QED
    BY <1>10, <2>1 DEF Fixed
<1> QED
  BY <1>3, <1>8, <1>9, <1>11
StatsName(k) ==
    CASE k = 0 -> "desc" [] k = 1 -> "flow_stats" [] k = 2 -> "aggregate"
      [] k = 3 -> "table_stats" [] k = 4 -> "port_stats" [] k = 5 -> "queue_stats"
      [] k = 6 -> "group_stats" [] k = 7 -> "group_desc" [] k = 8 -> "group_features"
      [] k = 9 -> "meter_stats" [] k = 10 -> "meter_config" [] k = 11 -> "meter_features"
      [] k = 12 -> "table_features" [] k = 13 -> "port" [] k = 65535 -> "experimenter_stats"

\* No two replies have one number.
LEMMA StatsNumbers ==
  \A k, l \in DOMAIN StatsTypes : StatsTypes[k] = StatsTypes[l] => k = l
<1>1. \A l \in DOMAIN StatsTypes : StatsName(StatsTypes[l]) = l
  BY DEF StatsTypes, StatsName
<1> QED
  BY <1>1

\* One structure, and what it takes.
LEMMA OneKid ==
  ASSUME PlainSettable, NEW kids \in Seq(Structure), Len(kids) = 1
  PROVE  Flat(kids, 1) = Bytes[kids[1]] /\ kids[1] \in Structure
<1>1. kids[1] \in Structure /\ \A i \in 1 .. Len(kids) : Bytes[kids[i]] \in Octets
  BY AllGood, ElementOfSeq DEF Good
<1>2. Flat(kids, 0) = <<>> /\ Flat(kids, 0 + 1) = Then(Flat(kids, 0), Bytes[kids[0 + 1]])
  <2>1. 0 \in 0 .. Len(kids) /\ 0 < Len(kids)
    OBVIOUS
  <2> QED
    BY <1>1, <2>1, FlatNext
<1>3. 0 + 1 = 1 /\ Bytes[kids[1]] \in Octets
  BY <1>1
<1> QED
  BY <1>1, <1>2, <1>3, ThenNothing

\* The list the parser starts with is the one the message has.
LEMMA ListOf ==
  ASSUME PlainSettable, NEW m \in WellFormed, buf = MessageBytes(m)
  PROVE  LET list == ListAt(m.type) IN
         /\ list \in Lists \cup {"none", "data", "unknown"}
         /\ list = "unknown" => NoBody(m)
         /\ list # "unknown" => Fits(list, m.kids)
         /\ list \in Lists => ListFrom(m) \in Nat /\ ListFrom(m) % 8 = 0
         /\ list \in Lists /\ m.type \notin {"packet_in", "packet_out"} => m.data = <<>>
         /\ list = "none" => m.data = <<>> /\ m.type \notin {"packet_in", "packet_out"}
         /\ list = "data" => m.type \notin {"packet_in", "packet_out"}
         /\ m.type = "multipart" /\ list \in SingleStruct =>
               Len(m.kids) <= 1 /\ (m.kids = <<>> => NoBody(m))
         /\ list = "experimenter_stats" => m.type = "multipart"
<1> DEFINE list == ListAt(m.type)
<1>1. /\ MessageRow(m.type, Messages[m.type]) /\ DataFits(m) /\ KidsFit(m)
      /\ Size(m.body) = FixedSize(m)
  BY MessageForm
<1>2. m.type = "multipart" => Word(buf, 8) = Word(m.body, 0)
  BY HeaderRead
<1>3. ListFrom(m) = 8 + (IF m.type = "packet_out" THEN 16 ELSE FixedSize(m))
  BY MessageParts DEF ListFrom
<1>4. "experimenter_stats" \notin DOMAIN SizedKinds \cup DOMAIN FixedKinds
  BY SizesOf
<1>5. CASE m.type # "multipart"
  <2>1. list = Messages[m.type].list
    BY <1>5 DEF ListAt
  <2>2. list \in {"none", "data", "hello_element", "match", "port", "action", "flow",
                  "bucket", "queue", "band"}
    BY <1>1, <1>5, <2>1 DEF MessageRow
  <2>3. list \in Lists \cup {"none", "data"} /\ list # "experimenter_stats"
    BY <2>2, SizesOf DEF Lists
  <2>4. Fits(list, m.kids)
    BY <1>1, <1>5, <2>1 DEF KidsFit
  <2>5. \A l \in Lists : l \notin {"none", "data", "unknown"}
    BY SizesOf DEF Lists
  <2>6. list \in Lists => ListFrom(m) \in Nat /\ ListFrom(m) % 8 = 0
    <3>1. SUFFICES ASSUME list \in Lists PROVE ListFrom(m) \in Nat /\ ListFrom(m) % 8 = 0
      OBVIOUS
    <3>2. /\ Messages[m.type].head \in Nat /\ Messages[m.type].head % 8 = 0
          /\ Messages[m.type].head >= 8 /\ m.type # "error"
      BY <1>1, <2>1, <2>5, <3>1 DEF MessageRow
    <3>3. FixedSize(m) = IF m.type = "packet_out" THEN 8 ELSE Messages[m.type].head - 8
      BY <3>2 DEF FixedSize, Extra
    <3> QED
      BY <1>3, <3>2, <3>3
  <2>7. list # "data" /\ m.type \notin {"packet_in", "packet_out"} => m.data = <<>>
    BY <1>1, <2>1 DEF DataFits
  <2>8. list \in {"none", "data"} => m.type \notin {"packet_in", "packet_out"}
    BY <1>1, <2>1 DEF MessageRow
  <2> QED
    BY <1>5, <2>3, <2>4, <2>5, <2>6, <2>7, <2>8
<1>6. CASE m.type = "multipart"
  <2>1. ListFrom(m) = 16 /\ m.data = <<>>
    <3>1. Messages[m.type].head = 16 /\ Messages[m.type].list = "reply"
      BY <1>1, <1>6 DEF MessageRow
    <3>2. FixedSize(m) = 8
      BY <1>6, <3>1 DEF FixedSize, Extra
    <3>3. m.data = <<>>
      BY <1>1, <1>6, <3>1 DEF DataFits
    <3> QED
      BY <1>3, <1>6, <3>2, <3>3
  <2>2. CASE \E l \in DOMAIN StatsTypes : StatsTypes[l] = Word(buf, 8)
    <3>1. list = CHOOSE l \in DOMAIN StatsTypes : StatsTypes[l] = Word(buf, 8)
      BY <1>6, <2>2 DEF ListAt
    <3>2. list \in DOMAIN StatsTypes /\ StatsTypes[list] = Word(m.body, 0)
      BY <1>2, <1>6, <2>2, <3>1
    <3>3. list \in Lists /\ list \notin {"unknown", "none", "data"}
      BY <3>2, StatsLists, SizesOf DEF Lists
    <3>4. Fits(list, m.kids) /\ (list \in SingleStruct => Len(m.kids) <= 1)
      BY <1>1, <1>6, <3>2 DEF KidsFit
    <3>5. list \in SingleStruct /\ m.kids = <<>> => NoBody(m)
      BY <1>6, <3>2, StatsNumbers DEF NoBody
    <3>6. 16 \in Nat /\ 16 % 8 = 0
      OBVIOUS
    <3> QED
      BY <1>6, <2>1, <3>3, <3>4, <3>5, <3>6
  <2>3. CASE ~ \E l \in DOMAIN StatsTypes : StatsTypes[l] = Word(buf, 8)
    <3>1. list = "unknown"
      BY <1>6, <2>3 DEF ListAt
    <3>2. NoBody(m)
      BY <1>2, <1>6, <2>3 DEF NoBody
    <3>3. "unknown" \notin Lists /\ "unknown" \notin SingleStruct
      BY SizesOf DEF Lists, SingleStruct
    <3> QED
      BY <3>1, <3>2, <3>3
  <2> QED
    BY <2>2, <2>3
<1> QED
  BY <1>5, <1>6

\* A port has 64 bytes.
LEMMA PortSize ==
  ASSUME PlainSettable, NEW o \in Structure, o.kind = "port"
  PROVE  Size(Bytes[o]) = 64
<1>1. o.kind \in DOMAIN FixedKinds /\ FixedKinds[o.kind] = 64
  BY DEF FixedKinds, OFPPort
<1>2. /\ o.kind \notin {"oxm", "oxm_w", "match", "nx_action", "table_prop"} \cup DOMAIN Registries
      /\ o.kind \notin DOMAIN SizedKinds
      /\ o.kind \notin {"id", "oxm_id", "experimenter_stats", "hello_element", "queue_prop"}
  BY <1>1, SizesOf, RegistryOf
<1>3. OtherFits(o) /\ Bytes[o] = o.body
  BY <1>2, PlainGood
<1> QED
  BY <1>1, <1>2, <1>3 DEF OtherFits, Size

\* The list ends where the structures do, and what is behind is the data.
LEMMA ListEnds ==
  ASSUME PlainSettable, NEW m \in WellFormed, buf = MessageBytes(m), ListAt(m.type) \in Lists
  PROVE  /\ ListEnd(m.type) = ListTo(m) /\ TrailingData(m.type, ListTo(m)) = m.data
         /\ ListTo(m) \in Nat /\ ListTo(m) <= Size(buf)
         /\ m.type \notin {"packet_in", "packet_out"} => ListTo(m) = Size(buf)
<1>1. /\ buf \in Octets /\ Word(buf, 2) = Size(buf) /\ Size(buf) \in Nat
      /\ Size(buf) = 8 + Size(BodyOf(m))
      /\ Lies(m.body, buf, 8) /\ Lies(InnerOf(m), buf, ListFrom(m))
      /\ Lies(BackOf(m), buf, ListTo(m))
      /\ m.type = "packet_out" => Word(buf, 16) = Size(InnerOf(m))
  BY MessageLies DEF ListFrom, ListTo
<1>2. /\ Size(BodyOf(m)) = (Size(FrontOf(m)) + Size(InnerOf(m))) + Size(BackOf(m))
      /\ Size(FrontOf(m)) \in Nat /\ Size(InnerOf(m)) \in Nat /\ Size(BackOf(m)) \in Nat
      /\ Size(FrontOf(m)) = IF m.type = "packet_out" THEN 16 ELSE FixedSize(m)
      /\ BackOf(m) \in Octets
  BY MessageParts, MessageInner
<1>3. ListTo(m) \in Nat /\ ListFrom(m) \in Nat /\ Size(buf) = ListTo(m) + Size(BackOf(m))
  BY <1>1, <1>2 DEF ListTo, ListFrom
<1>4. ListTo(m) <= Size(buf)
  BY <1>2, <1>3
<1>5. m.body \in Octets /\ m.data \in Octets /\ m.kids \in Seq(Structure)
      /\ Size(m.body) = FixedSize(m) /\ MessageRow(m.type, Messages[m.type]) /\ DataFits(m)
  BY MessageForm
<1>6. CASE m.type = "packet_out"
  <2>1. Messages[m.type].head = 24
    BY <1>5, <1>6 DEF MessageRow
  <2>2. ListEnd(m.type) = ListTo(m)
    BY <1>1, <1>2, <1>6, <2>1 DEF ListEnd, ListTo, ListFrom
  <2>3. BackOf(m) = m.data
    BY <1>6 DEF BackOf
  <2>4. Size(buf) - ListTo(m) = Size(m.data)
    BY <1>2, <1>3, <2>3
  <2>5. At(buf, ListTo(m), Size(m.data)) = m.data
    BY <1>1, <1>3, <1>5, <2>3, LiesAt
  <2>6. TrailingData(m.type, ListTo(m)) = At(buf, ListTo(m), Size(buf) - ListTo(m))
    BY <1>6 DEF TrailingData, Size
  <2> QED
    BY <1>3, <1>4, <1>6, <2>2, <2>4, <2>5, <2>6
<1>7. CASE m.type = "packet_in"
  <2>1. Messages[m.type].head = 24 /\ ListFrom(m) = 24 /\ Size(m.body) = 16
    BY <1>2, <1>5, <1>7 DEF MessageRow, FixedSize, Extra, ListFrom
  <2>2. ListAt(m.type) = "match" /\ Fits("match", m.kids)
    BY <1>5, <1>7, ListOf DEF ListAt, MessageRow
  <2>3. Len(m.kids) = 1 /\ m.kids[1].kind = "match" /\ m.kids[1] \in Structure
        /\ InnerOf(m) = Bytes[m.kids[1]]
    <3>1. Len(m.kids) = 1 /\ m.kids[1].kind = "match"
      BY <2>2 DEF Fits
    <3> QED
      BY <1>5, <3>1, OneKid, MessageInner
  <2>4. Size(InnerOf(m)) = round_up(Length(ListFrom(m)), 8)
    BY <1>1, <1>3, <2>3, MatchHere
  <2>5. ListEnd(m.type) = ListTo(m)
    BY <1>7, <2>1, <2>4 DEF ListEnd, ListTo
  <2>6. BackOf(m) = Then(Zeros(2), m.data)
    BY <1>7 DEF BackOf
  <2>7. Zeros(2) \in Octets /\ Size(Zeros(2)) = 2
    BY ZerosForm
  <2>8. Size(BackOf(m)) = 2 + Size(m.data) /\ Size(m.data) \in Nat
    BY <1>5, <2>6, <2>7, Joined
  <2>9. Lies(m.data, buf, ListTo(m) + 2)
    BY <1>1, <1>3, <1>5, <2>6, <2>7, LiesThen
  <2>10. PICK from \in Nat : from = ListTo(m) + 2
    BY <1>3
  <2>11. At(buf, from, Size(m.data)) = m.data
    BY <1>1, <1>5, <2>9, <2>10, LiesAt
  <2>12. Size(buf) - ListTo(m) - 2 = Size(m.data)
    BY <1>3, <2>8
  <2>13. At(buf, ListTo(m) + 2, Size(buf) - ListTo(m) - 2) = m.data
    BY <2>10, <2>11, <2>12
  <2>14. Word(buf, 12) = Word(m.body, 4)
    <3>1. 8 \in Nat /\ 4 \in Nat /\ 4 + 2 <= Size(m.body) /\ 8 + 4 = 12
      BY <2>1
    <3> QED
      BY <1>1, <1>5, <3>1, LiesWordIn
  <2>15. ~(Word(buf, 12) < Size(m.data))
    <3>1. m.data = <<>> \/ Size(m.data) <= Word(m.body, 4)
      BY <1>5, <1>7 DEF DataFits, MessageRow, Size
    <3>2. Word(m.body, 4) \in Nat
      <4>1. 5 \in 1 .. Size(m.body) /\ 6 \in 1 .. Size(m.body) /\ 4 + 1 = 5 /\ 4 + 2 = 6
        BY <2>1
      <4>2. m.body[5] \in Nat /\ m.body[6] \in Nat
        BY <1>5, <4>1, Sized1
      <4> QED
        BY <4>1, <4>2 DEF Word
    <3>3. m.data = <<>> => Size(m.data) = 0
      BY NoOctets
    <3> QED
      BY <2>8, <2>14, <3>1, <3>2, <3>3
  <2>16. TrailingData(m.type, ListTo(m)) = m.data
    BY <1>7, <2>13, <2>15 DEF TrailingData, Size
  <2> QED
    BY <1>3, <1>4, <1>7, <2>5, <2>16
<1>8. CASE m.type \notin {"packet_in", "packet_out"}
  <2>1. m.data = <<>> /\ BackOf(m) = m.data
    BY <1>8, ListOf DEF BackOf
  <2>2. Size(BackOf(m)) = 0
    BY <2>1, NoOctets
  <2>3. ListTo(m) = Size(buf)
    BY <1>3, <2>2
  <2>4. Length(0) = Size(buf)
    BY <1>1 DEF Length
  <2>5. m.type = "port_status" => Messages[m.type].head + OFPPort = Size(buf)
    <3>1. SUFFICES ASSUME m.type = "port_status"
                   PROVE  Messages[m.type].head + OFPPort = Size(buf)
      OBVIOUS
    <3>2. Messages[m.type].head = 16 /\ Messages[m.type].list = "port"
      BY <1>5, <3>1 DEF MessageRow
    <3>3. Len(m.kids) = 1 /\ Fits("port", m.kids)
      BY <3>1, <3>2, MessageForm DEF KidsFit
    <3>4. m.kids[1].kind = "port" /\ m.kids[1] \in Structure
      <4>1. 1 \in DOMAIN m.kids
        BY <3>3
      <4> QED
        BY <1>5, <3>3, <4>1, OneKid DEF Fits
    <3>5. InnerOf(m) = Bytes[m.kids[1]]
      BY <1>5, <3>3, OneKid, MessageInner
    <3>6. Size(Bytes[m.kids[1]]) = 64
      BY <3>4, PortSize
    <3>7. Size(FrontOf(m)) = 8
      BY <1>2, <3>1, <3>2 DEF FixedSize, Extra
    <3> QED
      BY <1>1, <1>2, <2>2, <3>2, <3>5, <3>6, <3>7 DEF OFPPort
  <2> QED
    BY <1>3, <1>4, <1>8, <2>1, <2>3, <2>4, <2>5 DEF ListEnd, TrailingData
<1> QED
  BY <1>6, <1>7, <1>8

\* The opaque end of a message, for those that have no list.
LEMMA OpaqueEnd ==
  ASSUME PlainSettable, NEW m \in WellFormed, buf = MessageBytes(m),
         ListAt(m.type) \in {"none", "data"}
  PROVE  /\ m.kids = <<>>
         /\ m.data = IF ListAt(m.type) = "data"
                     THEN At(buf, ListFrom(m), Len(buf) - ListFrom(m)) ELSE <<>>
<1>1. m.kids = <<>>
  BY ListOf, NoKids
<1>2. CASE ListAt(m.type) = "none"
  BY <1>1, <1>2, ListOf
<1>3. CASE ListAt(m.type) = "data"
  <2>1. m.type \notin {"packet_in", "packet_out"}
    BY <1>3, ListOf
  <2>2. BackOf(m) = m.data /\ m.data \in Octets
    BY <2>1, MessageForm DEF BackOf
  <2>3. Size(InnerOf(m)) = 0
    BY <1>1, MessageInner, NoOctets
  <2>4. /\ buf \in Octets /\ Size(buf) = 8 + Size(BodyOf(m))
        /\ Lies(m.data, buf, ListFrom(m) + Size(InnerOf(m)))
    BY <2>2, MessageLies DEF ListFrom
  <2>5. /\ Size(BodyOf(m)) = (Size(FrontOf(m)) + Size(InnerOf(m))) + Size(m.data)
        /\ Size(FrontOf(m)) \in Nat /\ Size(m.data) \in Nat
    BY <2>2, MessageParts
  <2>6. ListFrom(m) \in Nat /\ Size(buf) - ListFrom(m) = Size(m.data)
    BY <2>3, <2>4, <2>5 DEF ListFrom
  <2>7. ListFrom(m) + Size(InnerOf(m)) = ListFrom(m)
    BY <2>3, <2>6
  <2>8. At(buf, ListFrom(m), Size(m.data)) = m.data
    BY <2>2, <2>4, <2>6, <2>7, LiesAt
  <2> QED
    BY <1>1, <1>3, <2>6, <2>8 DEF Size
<1> QED
  BY <1>2, <1>3

(***************************************************************************)
(* The loops of the parser. Each frame of the stack is at one of the       *)
(* structures of a list: kids is that list, n how many of it are read and  *)
(* from where its bytes begin.                                             *)
(***************************************************************************)

\* What a loop may have collected: structures, those whose list is still being
\* read, and what an experimenter reply is taken for at later places.
Items == {Known[o] : o \in Structure} \cup {Bare(o) : o \in Structure}
           \cup {Node("experimenter_stats", "experimenter_stats", b, <<>>) : b \in Octets}
Frames == [list : Lists, at : Nat, to : Nat, items : Seq(Items)]
Shadows == [kids : Seq(Structure), n : Nat, from : Nat]
Shadow(kids, n, from) == [kids |-> kids, n |-> n, from |-> from]

\* Fields sorted as OFPMatch sorts them.
Ranked(fields) ==
    \A j, k \in 1 .. Len(fields) : j < k => SortKey(fields[j]) <= SortKey(fields[k])

\* The bytes of the list lie in the buffer, and the loop is behind those read.
Level(f, s, b) ==
    /\ f \in Frames /\ f.list # "experimenter_stats"
    /\ s \in Shadows /\ s.n <= Len(s.kids) /\ Fits(f.list, s.kids)
    /\ Lies(Flat(s.kids, Len(s.kids)), b, s.from)
    /\ f.at = s.from + Size(Flat(s.kids, s.n))
    /\ f.to = s.from + Size(Flat(s.kids, Len(s.kids)))
    /\ f.list \notin Loose => s.from % 8 = 0
    /\ f.list = "oxm" => Ranked(s.kids)

\* The last structure of the outer loop is the one the inner loop is in.
Linked(f, s, g, t) ==
    /\ s.n > 0 /\ ~PassedOver(s.kids[s.n]) /\ s.kids[s.n].kind \notin Loose
    /\ f.items = Append(Heard(s.kids, s.n - 1), Bare(s.kids[s.n]))
    /\ t.kids = s.kids[s.n].kids
    /\ g.list = ListIn(s.kids[s.n]) /\ g.to <= f.at

\* The innermost loop has everything it has read.
Turned(f, s) == f.items = Heard(s.kids, s.n)

\* sp is the shadow of the stack: one list that was serialized for each frame.
Deep(sp, stk, b) ==
    /\ sp \in [1 .. Len(stk) -> Shadows]
    /\ \A i \in 1 .. Len(stk) : Level(stk[i], sp[i], b)
    /\ \A i \in 1 .. Len(stk) : i < Len(stk) => Linked(stk[i], sp[i], stk[i + 1], sp[i + 1])
    /\ Turned(stk[Len(stk)], sp[Len(stk)])

\* What a level of the walk says of the next structure.
LEMMA LevelFacts ==
  ASSUME PlainSettable, NEW b \in Octets, NEW f, NEW s, Level(f, s, b)
  PROVE  /\ f.at \in Nat /\ f.to \in Nat /\ f.at <= f.to /\ f.to <= Size(b)
         /\ s.kids \in Seq(Structure) /\ Len(s.kids) \in Nat /\ s.n \in 0 .. Len(s.kids)
         /\ f.at < f.to => s.n < Len(s.kids)
         /\ f.at >= f.to => s.n = Len(s.kids)
         /\ f.list \notin Loose => f.at % 8 = 0
         /\ s.n < Len(s.kids) =>
              /\ s.kids[s.n + 1] \in Structure /\ Bytes[s.kids[s.n + 1]] \in Octets
              /\ Lies(Bytes[s.kids[s.n + 1]], b, f.at)
              /\ f.at + Size(Bytes[s.kids[s.n + 1]]) = s.from + Size(Flat(s.kids, s.n + 1))
<1> DEFINE kids == s.kids
<1> DEFINE n == s.n
<1> DEFINE L == Len(s.kids)
<1> DEFINE from == s.from
<1>1. /\ kids \in Seq(Structure) /\ n \in Nat /\ from \in Nat /\ n <= L
      /\ f.at = from + Size(Flat(kids, n)) /\ f.to = from + Size(Flat(kids, L))
      /\ Lies(Flat(kids, L), b, from) /\ Fits(f.list, kids)
      /\ f.list \notin Loose => from % 8 = 0
  BY DEF Level, Shadows
<1>2. L \in Nat /\ n \in 0 .. L
  BY <1>1, LenProperties
<1>3. \A i \in 1 .. Len(kids) : kids[i] \in Structure /\ Good(kids[i])
  BY <1>1, AllGood, ElementOfSeq
<1>4. \A i \in 1 .. Len(kids) : Bytes[kids[i]] \in Octets
  BY <1>3 DEF Good
<1>5. \A k \in 0 .. L :
            /\ Size(Flat(kids, k)) \in Nat
            /\ Size(Flat(kids, k)) <= Size(Flat(kids, L))
            /\ k < L =>
                 /\ Lies(Bytes[kids[k + 1]], b, from + Size(Flat(kids, k)))
                 /\ Size(Flat(kids, k + 1)) = Size(Flat(kids, k)) + Size(Bytes[kids[k + 1]])
                 /\ Size(Bytes[kids[k + 1]]) \in Nat
  BY <1>1, <1>4, LiesFlat
<1>6. f.list \notin Loose => f.at % 8 = 0
  <2>1. SUFFICES ASSUME f.list \notin Loose PROVE f.at % 8 = 0
    OBVIOUS
  <2>2. \A i \in 1 .. Len(kids) : kids[i].kind \notin Loose
    BY <1>1, <2>1, FitKinds
  <2>3. \A i \in 1 .. Len(kids) : Bytes[kids[i]] \in Octets /\ Size(Bytes[kids[i]]) % 8 = 0
    BY <1>3, <2>2 DEF Good
  <2>4. Size(Flat(kids, n)) % 8 = 0
    BY <1>1, <1>2, <2>3, FlatAligned
  <2>5. from % 8 = 0
    BY <1>1, <2>1
  <2>6. Size(Flat(kids, n)) \in Nat /\ from \in Nat /\ f.at = from + Size(Flat(kids, n))
    BY <1>1, <1>2, <1>5
  <2> HIDE DEF n, from, kids
  <2>7. (from + Size(Flat(kids, n))) % 8 = 0
    BY <2>4, <2>5, <2>6, Multiples
  <2> QED
    BY <2>6, <2>7
<1>7. f.to <= Size(b)
  BY <1>1 DEF Lies
<1> HIDE DEF kids, n, L, from
<1>8. L \in 0 .. L
  BY <1>2
<1>9. f.at \in Nat /\ f.to \in Nat /\ f.at <= f.to
  BY <1>1, <1>2, <1>5, <1>8
<1>10. n < L => n + 1 \in 1 .. Len(kids) /\ n + 1 \in 0 .. L
  BY <1>2 DEF L, kids
<1>11. n < L =>
         /\ Lies(Bytes[kids[n + 1]], b, f.at)
         /\ Size(Flat(kids, n + 1)) = Size(Flat(kids, n)) + Size(Bytes[kids[n + 1]])
         /\ Size(Flat(kids, n)) \in Nat /\ Size(Bytes[kids[n + 1]]) \in Nat
         /\ 4 <= Size(Bytes[kids[n + 1]]) /\ kids[n + 1] \in Structure
         /\ Bytes[kids[n + 1]] \in Octets
  BY <1>1, <1>2, <1>3, <1>5, <1>10 DEF Good
<1>12. n < L => f.at + Size(Bytes[kids[n + 1]]) = from + Size(Flat(kids, n + 1))
  BY <1>1, <1>11
<1>13. n < L => f.at < f.to
  <2>1. SUFFICES ASSUME n < L PROVE f.at < f.to
    OBVIOUS
  <2>2. Size(Flat(kids, n + 1)) <= Size(Flat(kids, L)) /\ Size(Flat(kids, L)) \in Nat
    BY <1>5, <1>8, <1>10, <2>1
  <2> QED
    BY <1>1, <1>11, <2>1, <2>2
<1>14. f.at < f.to => n < L
  <2>1. n = L => f.at = f.to
    BY <1>1
  <2> QED
    BY <1>2, <1>9, <2>1
<1>15. f.at >= f.to => n = L
  BY <1>2, <1>9, <1>13
<1> QED
  BY <1>1, <1>2, <1>6, <1>7, <1>9, <1>11, <1>12, <1>14, <1>15 DEF kids, n, L, from

\* A turn of a loop reads the structure that was serialized at its place.
LEMMA Reading ==
  ASSUME PlainSettable, buf \in Octets, NEW f, NEW s, Level(f, s, buf), Turned(f, s), f.at < f.to
  PROVE  /\ s.n + 1 \in 1 .. Len(s.kids) /\ s.kids[s.n + 1] \in Structure
         /\ Reads(s.kids[s.n + 1], Read(f.list, f.at, f.items), f.at)
         /\ s.kids[s.n + 1].kind \notin Loose => f.list \notin Loose
<1>1. /\ f.at \in Nat /\ s.kids \in Seq(Structure) /\ Len(s.kids) \in Nat
      /\ s.n \in 0 .. Len(s.kids) /\ s.n < Len(s.kids) /\ s.n \in Nat
      /\ s.kids[s.n + 1] \in Structure /\ Lies(Bytes[s.kids[s.n + 1]], buf, f.at)
  BY LevelFacts
<1>2. f.list \in Lists /\ f.list # "experimenter_stats" /\ Fits(f.list, s.kids)
  BY DEF Level, Frames
<1>3. Reads(s.kids[s.n + 1], Read(f.list, f.at, Heard(s.kids, s.n)), f.at)
  BY <1>1, <1>2, ReadHere
<1>4. s.n + 1 \in 1 .. Len(s.kids) /\ DOMAIN s.kids = 1 .. Len(s.kids)
  BY <1>1, LenProperties
<1>5. s.kids[s.n + 1].kind \notin Loose => f.list \notin Loose
  <2>1. SUFFICES ASSUME f.list \in Loose PROVE s.kids[s.n + 1].kind \in Loose
    OBVIOUS
  <2>2. f.list \notin {"none", "data", "match", "flow", "action"}
    BY <2>1 DEF Loose
  <2>3. s.kids[s.n + 1].kind \in {"oxm", "oxm_w"} \/ s.kids[s.n + 1].kind = f.list
    BY <1>2, <1>4, <2>2 DEF Fits
  <2> QED
    BY <2>1, <2>3 DEF Loose
<1> QED
  BY <1>1, <1>3, <1>4, <1>5 DEF Turned

\* A turn of the loop.
LEMMA Moves ==
  ASSUME PlainSettable, NEW b \in Octets, NEW f, NEW s, Level(f, s, b), s.n < Len(s.kids),
         NEW items \in Seq(Items), NEW g, NEW t, t = [s EXCEPT !.n = s.n + 1],
         g = [f EXCEPT !.at = f.at + Size(Bytes[s.kids[s.n + 1]]), !.items = items]
  PROVE  Level(g, t, b)
<1> DEFINE at == f.at + Size(Bytes[s.kids[s.n + 1]])
<1>1. /\ s.n \in 0 .. Len(s.kids) /\ Len(s.kids) \in Nat /\ f.at \in Nat
      /\ at = s.from + Size(Flat(s.kids, s.n + 1)) /\ Bytes[s.kids[s.n + 1]] \in Octets
  BY LevelFacts
<1>2. at \in Nat
  BY <1>1, Sized1
<1>3. f \in Frames /\ s \in Shadows /\ g = [f EXCEPT !.at = at, !.items = items]
  BY DEF Level
<1> HIDE DEF at
<1>4. g \in Frames /\ g.list = f.list /\ g.at = at /\ g.to = f.to
  BY <1>2, <1>3 DEF Frames
<1>5. t \in Shadows /\ t.kids = s.kids /\ t.n = s.n + 1 /\ t.from = s.from
  BY <1>1, <1>3 DEF Shadows
<1>6. s.n + 1 <= Len(s.kids)
  BY <1>1
<1> QED
  BY <1>1, <1>4, <1>5, <1>6 DEF Level

\* Fields are in a match only; the experimenter reply is in no structure.
LEMMA ListsInside ==
  ASSUME NEW o \in Structure
  PROVE  ListIn(o) # "experimenter_stats" /\ (ListIn(o) = "oxm" => o.kind = "match")
<1>1. \A t \in DOMAIN TableProps : TableProps[t].list \in {"id", "none", "oxm_id"}
  BY DEF TableProps
<1>2. \A k \in DOMAIN SizedKinds :
         SizedKinds[k].list \in {"action", "queue_prop", "flow", "bucket_counter",
                                 "bucket", "band_stats", "band", "table_prop"}
  BY SizesOf
<1>3. CASE o.kind = "match"
  <2>1. ListIn(o) = "oxm"
    BY <1>3, EncodeMatch
  <2> QED
    BY <1>3, <2>1
<1>4. CASE o.kind # "match"
  <2>1. \/ ListIn(o) \in {"action", "none"}
        \/ o.type \in DOMAIN TableProps /\ ListIn(o) = TableProps[o.type].list
        \/ o.kind \in DOMAIN SizedKinds /\ ListIn(o) = SizedKinds[o.kind].list
    BY <1>4 DEF ListIn
  <2> QED
    BY <1>1, <1>2, <2>1
<1> QED
  BY <1>3, <1>4

\* The loop that begins in a structure.
LEMMA Goes ==
  ASSUME PlainSettable, NEW o \in Structure, o.kind = "match" => Ranked(o.kids),
         NEW b \in Octets, NEW f \in Frames, f.items = <<>>, NEW from \in Nat,
         f.list = ListIn(o), f.at = from, f.to = from + Size(Inner(o.kids, Bytes)),
         Fits(ListIn(o), o.kids), Lies(Inner(o.kids, Bytes), b, from),
         ListIn(o) \notin Loose => from % 8 = 0
  PROVE  Level(f, Shadow(o.kids, 0, from), b) /\ Turned(f, Shadow(o.kids, 0, from))
<1>1. /\ Inner(o.kids, Bytes) = Flat(o.kids, Len(o.kids)) /\ o.kids \in Seq(Structure)
      /\ Len(o.kids) \in Nat /\ Size(Inner(o.kids, Bytes)) \in Nat
  BY InnerParts, InnerGood, StructureParts
<1>2. Flat(o.kids, 0) = <<>>
  BY <1>1, InnerParts, FlatNext DEF Good
<1>3. Size(Flat(o.kids, 0)) = 0 /\ from + 0 = from /\ 0 <= Len(o.kids)
  BY <1>1, <1>2, NoOctets
<1>4. Heard(o.kids, 0) = <<>>
  BY <1>1, HeardNext
<1> DEFINE s == Shadow(o.kids, 0, from)
<1>5. s \in Shadows /\ s.kids = o.kids /\ s.n = 0 /\ s.from = from
  BY <1>1 DEF Shadows, Shadow
<1>6. f.list # "experimenter_stats" /\ (f.list = "oxm" => Ranked(o.kids))
  BY ListsInside
<1> HIDE DEF s
<1>7. Level(f, s, b)
  BY <1>1, <1>3, <1>5, <1>6 DEF Level
<1>8. Turned(f, s)
  BY <1>4, <1>5 DEF Turned
<1> QED
  BY <1>7, <1>8 DEF s

\* What a loop has is made of structures.
LEMMA HeardItems ==
  ASSUME NEW kids \in Seq(Structure), NEW n \in 0 .. Len(kids)
  PROVE  Heard(kids, n) \in Seq(Items)
<1>1. Heard(kids, n) \in Seq({Known[o] : o \in Structure})
  BY HeardNext
<1>2. {Known[o] : o \in Structure} \subseteq Items
  BY DEF Items
<1> QED
  BY <1>1, <1>2, SeqMonotonic

(***************************************************************************)
(* OFPMatch sorts.                                                         *)
(***************************************************************************)

Earlier(fields, i) ==
    {j \in DOMAIN fields : \/ SortKey(fields[j]) < SortKey(fields[i])
                           \/ SortKey(fields[j]) = SortKey(fields[i]) /\ j < i}
Rank(fields, i) == Cardinality(Earlier(fields, i))

Sortable(fields) == \A i \in DOMAIN fields : SortKey(fields[i]) \in Nat

\* Where each field goes is a permutation that keeps the order of the keys and,
\* of the same key, that of the caller.
Sorts(p, fields) ==
    /\ p \in Bijection(DOMAIN fields, DOMAIN fields)
    /\ \A j, k \in DOMAIN fields : j < k =>
          \/ SortKey(fields[p[j]]) < SortKey(fields[p[k]])
          \/ SortKey(fields[p[j]]) = SortKey(fields[p[k]]) /\ p[j] < p[k]

\* The rank of a field counts those that sort before it.
LEMMA RankForm ==
  ASSUME NEW S, NEW fields \in Seq(S), Sortable(fields)
  PROVE  /\ \A i \in DOMAIN fields : Rank(fields, i) \in 0 .. Len(fields) - 1
         /\ \A i, j \in DOMAIN fields : i \in Earlier(fields, j) =>
               Rank(fields, i) < Rank(fields, j)
         /\ \A i, j \in DOMAIN fields : i # j =>
               i \in Earlier(fields, j) \/ j \in Earlier(fields, i)
<1> DEFINE D == 1 .. Len(fields)
<1>1. DOMAIN fields = D /\ Len(fields) \in Nat
  BY LenProperties
<1>2. IsFiniteSet(D) /\ Cardinality(D) = Len(fields)
  BY <1>1, FS_Interval
<1>3. \A i \in D : i \in Nat /\ SortKey(fields[i]) \in Nat
  BY <1>1 DEF Sortable
<1>4. ASSUME NEW i \in D, NEW T \in SUBSET D, i \notin T, NEW R \in SUBSET T
      PROVE  /\ IsFiniteSet(T) /\ Cardinality(T) \in Nat /\ Cardinality(T) < Len(fields)
             /\ IsFiniteSet(R) /\ Cardinality(R) \in Nat
             /\ Cardinality(R) <= Cardinality(T)
             /\ R # T => Cardinality(R) < Cardinality(T)
  <2>1. IsFiniteSet(T) /\ Cardinality(T) \in Nat /\ Cardinality(T) <= Cardinality(D)
        /\ Cardinality(D) # Cardinality(T)
    BY <1>2, <1>4, FS_Subset, FS_CardinalityType
  <2>2. IsFiniteSet(R) /\ Cardinality(R) \in Nat /\ Cardinality(R) <= Cardinality(T)
        /\ (R # T => Cardinality(T) # Cardinality(R))
    BY <1>4, <2>1, FS_Subset, FS_CardinalityType
  <2> QED
    BY <1>1, <1>2, <2>1, <2>2
<1>5. \A i \in D : Earlier(fields, i) \in SUBSET D /\ i \notin Earlier(fields, i)
  BY <1>1, <1>3 DEF Earlier
<1>6. \A i \in D : Rank(fields, i) \in 0 .. Len(fields) - 1
  <2>1. TAKE i \in D
  <2>2. Rank(fields, i) \in Nat /\ Rank(fields, i) < Len(fields)
    BY <1>4, <1>5 DEF Rank
  <2> QED
    BY <1>1, <2>2
<1>7. ASSUME NEW i \in D, NEW j \in D, i \in Earlier(fields, j)
      PROVE  Rank(fields, i) < Rank(fields, j)
  <2>1. Earlier(fields, i) \subseteq Earlier(fields, j)
    BY <1>1, <1>3, <1>7 DEF Earlier
  <2>2. Earlier(fields, i) # Earlier(fields, j)
    BY <1>5, <1>7
  <2> QED
    BY <1>4, <1>5, <2>1, <2>2 DEF Rank
<1>8. \A i, j \in D : i # j => i \in Earlier(fields, j) \/ j \in Earlier(fields, i)
  BY <1>1, <1>3 DEF Earlier
<1> QED
  BY <1>1, <1>6, <1>7, <1>8

(* Whatever fields a match is made of, and in whatever order, OFPMatch keeps
   each of them once, in the order of their types, and those of one type in
   the order they were given. *)
THEOREM MatchSorts ==
  ASSUME NEW S, NEW fields \in Seq(S), Sortable(fields)
  PROVE  \E p : Sorts(p, fields)
                /\ OFPMatch(fields).kids = [k \in DOMAIN fields |-> fields[p[k]]]
<1> DEFINE L == Len(fields)
<1> DEFINE D == 1 .. L
<1> DEFINE r == [i \in D |-> Rank(fields, i)]
<1> DEFINE Place(k) == CHOOSE i \in D : Rank(fields, i) = k - 1
<1> DEFINE p == [k \in D |-> Place(k)]
<1>1. DOMAIN fields = D /\ L \in Nat
  BY LenProperties
<1>2. /\ \A i \in D : Rank(fields, i) \in 0 .. L - 1
      /\ \A i, j \in D : i \in Earlier(fields, j) => Rank(fields, i) < Rank(fields, j)
      /\ \A i, j \in D : i # j => i \in Earlier(fields, j) \/ j \in Earlier(fields, i)
  BY <1>1, RankForm
<1>3. \A i, j \in D : Rank(fields, i) = Rank(fields, j) => i = j
  BY <1>1, <1>2
<1>4. r \in Injection(D, 0 .. L - 1)
  BY <1>2, <1>3 DEF Injection, IsInjective
<1>5. /\ IsFiniteSet(D) /\ Cardinality(D) = L
      /\ IsFiniteSet(0 .. L - 1) /\ Cardinality(0 .. L - 1) = L
  <2>1. L - 1 \in Int
    BY <1>1
  <2>2. Cardinality(0 .. L - 1) = IF 0 > L - 1 THEN 0 ELSE (L - 1) - 0 + 1
    BY <2>1, FS_Interval
  <2>3. Cardinality(D) = IF 1 > L THEN 0 ELSE L - 1 + 1
    BY <1>1, FS_Interval
  <2>4. IsFiniteSet(D) /\ IsFiniteSet(0 .. L - 1)
    BY <1>1, <2>1, FS_Interval
  <2> QED
    BY <1>1, <2>2, <2>3, <2>4
<1>6. r \in Surjection(D, 0 .. L - 1)
  BY <1>4, <1>5, FS_Injection
<1>7. \A k \in D : Place(k) \in D /\ Rank(fields, Place(k)) = k - 1
  <2>1. TAKE k \in D
  <2>2. k - 1 \in 0 .. L - 1
    BY <1>1
  <2>3. \E i \in D : r[i] = k - 1
    BY <1>6, <2>2 DEF Surjection
  <2>4. \E i \in D : Rank(fields, i) = k - 1
    BY <2>3
  <2> QED
    BY <2>4
<1> HIDE DEF Place
<1>8. p \in [D -> D] /\ \A k \in D : p[k] \in D /\ Rank(fields, p[k]) = k - 1
  BY <1>7
<1> HIDE DEF p, r
<1>9. p \in Injection(D, D)
  <2>1. \A j, k \in D : p[j] = p[k] => j = k
    <3>1. \A j, k \in D : j - 1 = k - 1 => j = k
      BY <1>1
    <3> QED
      BY <1>8, <3>1
  <2> QED
    BY <1>8, <2>1 DEF Injection, IsInjective
<1>10. p \in Surjection(D, D)
  BY <1>5, <1>9, FS_Injection
<1>11. ASSUME NEW j \in D, NEW k \in D, j < k
       PROVE  \/ SortKey(fields[p[j]]) < SortKey(fields[p[k]])
              \/ SortKey(fields[p[j]]) = SortKey(fields[p[k]]) /\ p[j] < p[k]
  <2>1. j - 1 < k - 1 /\ j - 1 \in Int /\ k - 1 \in Int
    BY <1>1, <1>11
  <2>2. ~(Rank(fields, p[k]) < Rank(fields, p[j])) /\ p[j] # p[k]
    <3>1. Rank(fields, p[j]) = j - 1 /\ Rank(fields, p[k]) = k - 1
      BY <1>8, Zenon
    <3>2. ~(k - 1 < j - 1) /\ j - 1 # k - 1
      BY <2>1
    <3> QED
      BY <3>1, <3>2, Zenon
  <2>3. p[j] \in Earlier(fields, p[k])
    BY <1>2, <1>8, <2>2
  <2> QED
    BY <2>3 DEF Earlier
<1>12. Sorts(p, fields)
  BY <1>1, <1>9, <1>10, <1>11 DEF Sorts, Bijection
<1>13. OFPMatch(fields).kids = [k \in D |-> fields[Place(k)]]
  BY <1>1 DEF OFPMatch, Place, Rank, Earlier
<1>14. OFPMatch(fields).kids = [k \in D |-> fields[p[k]]]
  BY <1>13 DEF p
<1> QED
  BY <1>1, <1>12, <1>14

\* A field that says what packet it is has a smaller key than those that exist
\* only in such packets.
LEMMA KeysOf ==
  /\ \A o : o.type \in Names => SortKey(o) \in Nat
  /\ \A o, p : o.type \in DOMAIN Prerequisite /\ p.type = Prerequisite[o.type] =>
                  SortKey(p) < SortKey(o)
<1>1. ASSUME NEW o, o.type \in Names
      PROVE  SortKey(o) \in Nat
  <2>1. /\ Fields[o.type].class \in Nat /\ Fields[o.type].num \in Nat
        /\ Fields[o.type].exp \in {NoExp, ONF, NSH}
    BY <1>1, FieldHeaders
  <2>2. /\ Word(ONF, 0) \in Nat /\ Word(ONF, 2) \in Nat
        /\ Word(NSH, 0) \in Nat /\ Word(NSH, 2) \in Nat
    BY DEF Word, ONF, NSH
  <2> QED
    BY <2>1, <2>2 DEF SortKey
<1>2. \A p : p.type = "eth_type" => SortKey(p) = 4194309
  BY FieldTable DEF SortKey, Field, BASIC, NoExp
<1>3. \A p : p.type = "ip_proto" => SortKey(p) = 4194314
  BY FieldTable DEF SortKey, Field, BASIC, NoExp
<1>4. \A p : p.type = "ipv6_src" => SortKey(p) = 4194330
  BY FieldTable DEF SortKey, Field, BASIC, NoExp
<1>5. \A p : p.type \in {"tcp_flags", "pbb_uca"} => SortKey(p) = 1330529792
  <2>1. 65536 * Word(ONF, 0) + Word(ONF, 2) = 1330529792
    BY DEF Word, ONF
  <2>2. \A p : p.type \in {"tcp_flags", "pbb_uca"} => Fields[p.type].exp = ONF
    BY FieldTable DEF Field
  <2> QED
    BY <2>1, <2>2, ExpIds DEF SortKey
<1>6. ASSUME NEW o, NEW p, o.type \in DOMAIN Prerequisite, p.type = Prerequisite[o.type]
      PROVE  SortKey(p) < SortKey(o)
  <2>1. \/ o.type = "ip_proto" /\ p.type = "eth_type"
        \/ o.type = "ipv6_src" /\ p.type = "eth_type"
        \/ o.type = "tcp_flags" /\ p.type = "ip_proto"
        \/ o.type = "pbb_uca" /\ p.type = "eth_type"
    BY <1>6 DEF Prerequisite
  <2> QED
    BY <1>2, <1>3, <1>4, <1>5, <2>1
<1> QED
  BY <1>1, <1>6

\* The fields of a match are in the order of their keys.
LEMMA MatchRanked ==
  ASSUME NEW o \in Structure, o.kind = "match"
  PROVE  Ranked(o.kids) /\ \A i \in 1 .. Len(o.kids) : o.kids[i].kind \in {"oxm", "oxm_w"}
<1>1. o.kids \in Seq(Structure) /\ o = OFPMatch(o.kids) /\ Fits("oxm", o.kids)
  BY EncodeMatch, StructureForm
<1>2. DOMAIN o.kids = 1 .. Len(o.kids) /\ Len(o.kids) \in Nat
      /\ \A i \in 1 .. Len(o.kids) : o.kids[i] \in Structure
  BY <1>1, LenProperties, ElementOfSeq
<1>3. \A i \in 1 .. Len(o.kids) : o.kids[i].kind \in {"oxm", "oxm_w"}
  BY <1>1, <1>2 DEF Fits
<1>4. \A i \in 1 .. Len(o.kids) : SortKey(o.kids[i]) \in Nat
  <2>1. TAKE i \in 1 .. Len(o.kids)
  <2>2. OxmForm(o.kids[i])
    BY <1>2, <1>3, EncodeOxm
  <2> QED
    BY <2>2, KeysOf DEF OxmForm, OxmFits
<1>5. Sortable(o.kids)
  BY <1>2, <1>4 DEF Sortable
<1>6. PICK p : Sorts(p, o.kids)
               /\ OFPMatch(o.kids).kids = [k \in DOMAIN o.kids |-> o.kids[p[k]]]
  BY <1>1, <1>5, MatchSorts
<1>7. \A k \in 1 .. Len(o.kids) : o.kids[k] = o.kids[p[k]]
  <2>1. OFPMatch(o.kids).kids = o.kids
    BY <1>1
  <2> QED
    BY <1>2, <1>6, <2>1
<1>8. \A j, k \in 1 .. Len(o.kids) : j < k =>
         \/ SortKey(o.kids[p[j]]) < SortKey(o.kids[p[k]])
         \/ SortKey(o.kids[p[j]]) = SortKey(o.kids[p[k]])
  BY <1>2, <1>6 DEF Sorts
<1>9. \A j, k \in 1 .. Len(o.kids) : j < k => SortKey(o.kids[j]) <= SortKey(o.kids[k])
  <2>1. TAKE j, k \in 1 .. Len(o.kids)
  <2>2. HAVE j < k
  <2>3. \/ SortKey(o.kids[j]) < SortKey(o.kids[k])
        \/ SortKey(o.kids[j]) = SortKey(o.kids[k])
    BY <1>7, <1>8, <2>2
  <2> QED
    BY <1>4, <2>3
<1> QED
  BY <1>3, <1>9 DEF Ranked

\* What a loop over the fields of a match has are those fields.
LEMMA HeardOxm ==
  ASSUME NEW kids \in Seq(Structure), NEW n \in 0 .. Len(kids),
         \A i \in 1 .. Len(kids) : kids[i].kind \in {"oxm", "oxm_w"}
  PROVE  Len(Heard(kids, n)) = n /\ \A i \in 1 .. n : Heard(kids, n)[i] = kids[i]
<1> DEFINE T == {Known[o] : o \in Structure}
<1> DEFINE S == { k \in 0 .. Len(kids) :
                    Len(Heard(kids, k)) = k /\ \A i \in 1 .. k : Heard(kids, k)[i] = kids[i] }
<1>0. Len(kids) \in Nat
  BY LenProperties
<1>1. 0 \in S
  BY <1>0, HeardNext
<1>2. ASSUME NEW k \in 0 .. Len(kids), k < Len(kids), k \in S PROVE k + 1 \in S
  <2>1. k \in Nat /\ k + 1 \in 0 .. Len(kids) /\ k + 1 \in 1 .. Len(kids)
    BY <1>0, <1>2
  <2>2. kids[k + 1] \in Structure /\ kids[k + 1].kind \in {"oxm", "oxm_w"}
    BY <2>1, ElementOfSeq
  <2>3. Known[kids[k + 1]] = kids[k + 1] /\ ~PassedOver(kids[k + 1])
    BY <2>2, EncodeOxm, KnownAlone DEF PassedOver
  <2>4. Heard(kids, k) \in Seq(T) /\ kids[k + 1] \in T
    <3>1. Heard(kids, k) \in Seq({Known[o] : o \in Structure})
      BY <1>2, HeardNext
    <3> QED
      BY <2>2, <2>3, <3>1
  <2>5. Heard(kids, k + 1) = Append(Heard(kids, k), kids[k + 1])
    BY <1>2, <2>3, HeardNext
  <2>6. Len(Heard(kids, k)) = k /\ \A i \in 1 .. k : Heard(kids, k)[i] = kids[i]
    BY <1>2
  <2> HIDE DEF T, S
  <2>7. /\ Len(Heard(kids, k + 1)) = k + 1
        /\ \A i \in 1 .. k : Heard(kids, k + 1)[i] = Heard(kids, k)[i]
        /\ Heard(kids, k + 1)[k + 1] = kids[k + 1]
    BY <2>1, <2>4, <2>5, <2>6, AppendProperties
  <2>8. \A i \in 1 .. k + 1 : Heard(kids, k + 1)[i] = kids[i]
    <3>1. \A i \in 1 .. k + 1 : i \in 1 .. k \/ i = k + 1
      BY <2>1
    <3> QED
      BY <2>6, <2>7, <3>1
  <2> QED
    BY <2>1, <2>7, <2>8 DEF S
<1>3. 0 .. Len(kids) \subseteq S
  <2> HIDE DEF S
  <2> QED
    BY <1>0, <1>1, <1>2, Upwards
<1>4. n \in S
  BY <1>3
<1> QED
  BY <1>4

\* A frame for one of the stack, of the same list; the stack up to the n-th
\* frame, which others replace.
Within(n, stk) == n \in 1 .. Len(stk)
SameList(g, t, n, stk, sp) ==
    t.kids = sp[n].kids /\ g.list = stk[n].list /\ g.to = stk[n].to
Kept(stk, n, u) == SubSeq(stk, 1, n - 1) \o u
Grown(new, n, stk, sp, b) ==
    /\ new \in Seq(Frames) /\ Len(new) = n
    /\ new[1].list = stk[1].list /\ new[1].to = stk[1].to
    /\ \E sq : Deep(sq, new, b) /\ sq[1].kids = sp[1].kids

Continues(new, stk, n, u) ==
    /\ Len(new) = (n - 1) + Len(u) /\ Len(u) \in Nat
    /\ \A i \in 1 .. n - 1 : new[i] = stk[i]
    /\ \A i \in 1 .. Len(u) : new[(n - 1) + i] = u[i]

\* A stack cut off at one frame and continued.
LEMMA StackOn ==
  ASSUME NEW S, NEW stk, stk \in Seq(S), NEW n, Within(n, stk), NEW u, u \in Seq(S)
  PROVE  Kept(stk, n, u) \in Seq(S) /\ Continues(Kept(stk, n, u), stk, n, u)
<1> DEFINE k == n - 1
<1> DEFINE r == Kept(stk, n, u)
<1>0. Len(stk) \in Nat /\ n \in 1 .. Len(stk) /\ k \in 0 .. Len(stk) /\ k \in Nat
  BY LenProperties DEF Within
<1>1. r = SubSeq(stk, 1, k) \o u
  BY DEF Kept
<1> HIDE DEF r, k
<1> DEFINE t == SubSeq(stk, 1, k)
<1>2. t \in Seq(S) /\ Len(t) = k /\ \A i \in 1 .. k : t[i] = stk[i]
  BY <1>0
<1>3. Len(u) \in Nat /\ r = t \o u
  BY <1>1, LenProperties
<1> HIDE DEF t
<1>4. r \in Seq(S) /\ Len(r) = Len(t) + Len(u)
  BY <1>2, <1>3, ConcatProperties
<1>5. \A i \in 1 .. Len(t) + Len(u) : r[i] = IF i <= Len(t) THEN t[i] ELSE u[i - Len(t)]
  BY <1>2, <1>3, ConcatProperties
<1>6. ASSUME NEW i \in 1 .. k PROVE r[i] = stk[i]
  <2>1. i \in 1 .. Len(t) + Len(u) /\ i <= Len(t)
    BY <1>0, <1>2, <1>3
  <2> QED
    BY <1>2, <1>5, <2>1
<1>7. ASSUME NEW i \in 1 .. Len(u) PROVE r[k + i] = u[i]
  <2>1. k + i \in 1 .. Len(t) + Len(u) /\ ~(k + i <= Len(t)) /\ (k + i) - Len(t) = i
    BY <1>0, <1>2, <1>3
  <2> QED
    BY <1>5, <2>1
<1> QED
  BY <1>2, <1>3, <1>4, <1>6, <1>7 DEF k, r, Continues

\* One frame put for another of the same list keeps the walk.
LEMMA Replaced ==
  ASSUME NEW b, NEW stk, stk \in Seq(Frames), NEW n, Within(n, stk), NEW sp, Deep(sp, stk, b),
         NEW g, NEW t, Level(g, t, b), Turned(g, t), SameList(g, t, n, stk, sp)
  PROVE  Grown(Kept(stk, n, <<g>>), n, stk, sp, b)
<1> DEFINE new == Kept(stk, n, <<g>>)
<1>0. /\ n \in 1 .. Len(stk)
      /\ t.kids = sp[n].kids /\ g.list = stk[n].list /\ g.to = stk[n].to
  BY DEF Within, SameList
<1> HIDE DEF new
<1> DEFINE sq == [i \in 1 .. n |-> IF i = n THEN t ELSE sp[i]]
<1>1. Len(stk) \in Nat /\ n \in Nat /\ n - 1 \in 0 .. Len(stk) /\ (n - 1) + 1 = n
  BY <1>0, LenProperties
<1>2. g \in Frames /\ t \in Shadows
  BY DEF Level
<1>3. <<g>> \in Seq(Frames) /\ Len(<<g>>) = 1 /\ <<g>>[1] = g
  BY <1>2
<1>4. /\ new \in Seq(Frames) /\ Len(new) = (n - 1) + 1
      /\ \A i \in 1 .. n - 1 : new[i] = stk[i]
      /\ new[(n - 1) + 1] = g
  <2> DEFINE v == <<g>>
  <2>1. v \in Seq(Frames) /\ Len(v) = 1 /\ v[1] = g /\ 1 \in 1 .. Len(v)
    BY <1>3
  <2>2. new = Kept(stk, n, v)
    BY DEF new
  <2> HIDE DEF v
  <2>3. new \in Seq(Frames) /\ Continues(new, stk, n, v)
    BY <2>1, <2>2, StackOn
  <2> QED
    BY <2>1, <2>3 DEF Continues
<1>5. Len(new) = n /\ new[n] = g
  BY <1>1, <1>4
<1>6. \A i \in 1 .. n : i = n \/ i \in 1 .. n - 1
  BY <1>1
<1>7. \A i \in 1 .. n : i \in 1 .. Len(stk) /\ (i < n => i < Len(stk))
  BY <1>0, <1>1
<1>8. \A i \in 1 .. n : sq[i] = IF i = n THEN t ELSE sp[i]
  OBVIOUS
<1>9. sq[n] = t /\ \A i \in 1 .. n : sq[i].kids = sp[i].kids
  BY <1>0, <1>1, <1>8
<1>10. sq \in [1 .. n -> Shadows]
  BY <1>2, <1>7, <1>8 DEF Deep
<1> HIDE DEF sq
<1>11. \A i \in 1 .. n : new[i].list = stk[i].list /\ new[i].to = stk[i].to
  BY <1>0, <1>4, <1>5, <1>6
<1>12. \A i \in 1 .. n : Level(new[i], sq[i], b)
  BY <1>4, <1>5, <1>6, <1>7, <1>8 DEF Deep
<1>13. ASSUME NEW i \in 1 .. n, i < n PROVE Linked(new[i], sq[i], new[i + 1], sq[i + 1])
  <2>1. i \in 1 .. n - 1 /\ i # n /\ i + 1 \in 1 .. n /\ i \in 1 .. Len(stk) /\ i < Len(stk)
    BY <1>1, <1>7, <1>13
  <2>2. new[i] = stk[i] /\ sq[i] = sp[i]
    BY <1>4, <1>8, <2>1
  <2>3. Linked(stk[i], sp[i], stk[i + 1], sp[i + 1])
    BY <2>1 DEF Deep
  <2>4. /\ new[i + 1].list = stk[i + 1].list /\ new[i + 1].to = stk[i + 1].to
        /\ sq[i + 1].kids = sp[i + 1].kids
    BY <1>9, <1>11, <2>1
  <2> QED
    BY <2>2, <2>3, <2>4 DEF Linked
<1>14. Deep(sq, new, b)
  BY <1>5, <1>9, <1>10, <1>12, <1>13 DEF Deep
<1>15. 1 \in 1 .. n
  BY <1>1
<1> QED
  BY <1>4, <1>5, <1>9, <1>11, <1>14, <1>15 DEF Grown, new

\* The innermost frame goes on, and another begins inside.
LEMMA Deeper ==
  ASSUME NEW b, NEW stk, stk \in Seq(Frames), NEW n, n = Len(stk), stk # <<>>,
         NEW sp, Deep(sp, stk, b), NEW g, NEW t, Level(g, t, b),
         NEW h, NEW u, Level(h, u, b), Turned(h, u), Linked(g, t, h, u),
         SameList(g, t, n, stk, sp)
  PROVE  Grown(Kept(stk, n, <<g, h>>), n + 1, stk, sp, b)
<1> DEFINE new == Kept(stk, n, <<g, h>>)
<1> DEFINE sq == [i \in 1 .. n + 1 |-> IF i = n + 1 THEN u ELSE IF i = n THEN t ELSE sp[i]]
<1>0. /\ n \in Nat /\ n # 0 /\ n = Len(stk)
      /\ t.kids = sp[n].kids /\ g.list = stk[n].list /\ g.to = stk[n].to
  BY EmptySeq, LenProperties DEF SameList
<1> HIDE DEF new
<1>1. n \in Nat /\ n >= 1 /\ n - 1 \in 0 .. n
      /\ (n - 1) + 1 = n /\ (n - 1) + 2 = n + 1
  BY <1>0
<1>2. g \in Frames /\ t \in Shadows /\ h \in Frames /\ u \in Shadows
  BY DEF Level
<1>3. <<g, h>> \in Seq(Frames) /\ Len(<<g, h>>) = 2 /\ <<g, h>>[1] = g /\ <<g, h>>[2] = h
  BY <1>2
<1>4. /\ new \in Seq(Frames) /\ Len(new) = (n - 1) + 2
      /\ \A i \in 1 .. n - 1 : new[i] = stk[i]
      /\ new[(n - 1) + 1] = g /\ new[(n - 1) + 2] = h
  <2> DEFINE v == <<g, h>>
  <2>1. v \in Seq(Frames) /\ Len(v) = 2 /\ v[1] = g /\ v[2] = h
        /\ 1 \in 1 .. Len(v) /\ 2 \in 1 .. Len(v)
    BY <1>3
  <2>2. new = Kept(stk, n, v) /\ Within(n, stk)
    BY <1>0, <1>1 DEF new, Within
  <2> HIDE DEF v
  <2>3. new \in Seq(Frames) /\ Continues(new, stk, n, v)
    BY <2>1, <2>2, StackOn
  <2> QED
    BY <2>1, <2>3 DEF Continues
<1>5. Len(new) = n + 1 /\ new[n] = g /\ new[n + 1] = h
  BY <1>1, <1>4
<1>6. \A i \in 1 .. n + 1 : i = n + 1 \/ i = n \/ i \in 1 .. n - 1
  BY <1>1
<1>7. \A i \in 1 .. n + 1 : sq[i] = IF i = n + 1 THEN u ELSE IF i = n THEN t ELSE sp[i]
  OBVIOUS
<1>8. /\ n \in 1 .. n + 1 /\ n + 1 \in 1 .. n + 1 /\ n # n + 1 /\ 1 \in 1 .. n
      /\ \A i \in 1 .. n - 1 : i \in 1 .. n /\ i \in 1 .. n + 1 /\ i # n /\ i # n + 1
                               /\ i + 1 \in 1 .. n /\ i < n
      /\ \A i \in 1 .. n : i \in 1 .. n + 1 /\ i # n + 1 /\ (i < n => i \in 1 .. n - 1)
      /\ \A i \in 1 .. n + 1 : i < n + 1 => i \in 1 .. n
  BY <1>1
<1>9. /\ sq[n] = t /\ sq[n + 1] = u /\ \A i \in 1 .. n - 1 : sq[i] = sp[i]
      /\ \A i \in 1 .. n : sq[i].kids = sp[i].kids
  BY <1>0, <1>7, <1>8
<1>10. sq \in [1 .. n + 1 -> Shadows]
  BY <1>0, <1>2, <1>6, <1>7, <1>8 DEF Deep
<1> HIDE DEF sq
<1>11. \A i \in 1 .. n : new[i].list = stk[i].list /\ new[i].to = stk[i].to
  BY <1>0, <1>4, <1>5, <1>6, <1>8
<1>12. \A i \in 1 .. n + 1 : Level(new[i], sq[i], b)
  BY <1>0, <1>4, <1>5, <1>6, <1>8, <1>9 DEF Deep
<1>13. ASSUME NEW i \in 1 .. n + 1, i < n + 1
       PROVE  Linked(new[i], sq[i], new[i + 1], sq[i + 1])
  <2>1. CASE i = n
    BY <1>5, <1>9, <2>1
  <2>2. CASE i # n
    <3>1. i \in 1 .. n - 1 /\ i + 1 \in 1 .. n /\ i < n /\ i \in 1 .. n
      BY <1>6, <1>8, <1>13, <2>2
    <3>2. new[i] = stk[i] /\ sq[i] = sp[i]
      BY <1>4, <1>9, <3>1
    <3>3. Linked(stk[i], sp[i], stk[i + 1], sp[i + 1])
      BY <1>0, <3>1 DEF Deep
    <3>4. /\ new[i + 1].list = stk[i + 1].list /\ new[i + 1].to = stk[i + 1].to
          /\ sq[i + 1].kids = sp[i + 1].kids
      BY <1>9, <1>11, <3>1
    <3> QED
      BY <3>2, <3>3, <3>4 DEF Linked
  <2> QED
    BY <2>1, <2>2
<1>14. Deep(sq, new, b)
  BY <1>5, <1>9, <1>10, <1>12, <1>13 DEF Deep
<1> QED
  BY <1>0, <1>4, <1>5, <1>8, <1>9, <1>11, <1>14 DEF Grown, new

\* What cannot be parsed somewhere inside cannot be parsed at all.
LEMMA Outwards ==
  ASSUME NEW b, NEW stk \in Seq(Frames), stk # <<>>, NEW sp, Deep(sp, stk, b),
         Some(sp[Len(stk)].kids, Unparsable)
  PROVE  Some(sp[1].kids, Unparsable)
<1> DEFINE n == Len(stk)
<1>0. n \in Nat /\ n # 0 /\ n = Len(stk)
  BY EmptySeq, LenProperties
<1> HIDE DEF n
<1> DEFINE S == {j \in 0 .. n - 1 : Some(sp[n - j].kids, Unparsable)}
<1>1. n - 1 \in Nat /\ n - 0 = n /\ n - (n - 1) = 1
  BY <1>0
<1>2. 0 \in S
  BY <1>0, <1>1
<1>3. ASSUME NEW j \in 0 .. n - 1, j < n - 1, j \in S PROVE j + 1 \in S
  <2>0. n - (j + 1) \in Nat
    <3>1. j \in Int /\ j < n - 1
      BY <1>0, <1>3
    <3> QED
      BY <1>0, <3>1
  <2>1. PICK k \in Nat : k = n - (j + 1)
    BY <2>0
  <2>2. k \in 1 .. n /\ k < n /\ k + 1 = n - j /\ k + 1 \in 1 .. n /\ j + 1 \in 0 .. n - 1
    BY <1>0, <1>3, <2>1
  <2>3. Linked(stk[k], sp[k], stk[k + 1], sp[k + 1]) /\ Level(stk[k], sp[k], b)
    BY <1>0, <2>2 DEF Deep
  <2>4. /\ sp[k].n > 0 /\ sp[k + 1].kids = sp[k].kids[sp[k].n].kids
        /\ sp[k].n \in Nat /\ sp[k].kids \in Seq(Structure) /\ sp[k].n <= Len(sp[k].kids)
    BY <2>3 DEF Linked, Level, Shadows
  <2>5. sp[k].n \in 1 .. Len(sp[k].kids) /\ DOMAIN sp[k].kids = 1 .. Len(sp[k].kids)
    BY <2>4, LenProperties
  <2>6. sp[k].kids[sp[k].n] \in Structure
    BY <2>4, <2>5, ElementOfSeq
  <2>7. Some(sp[k + 1].kids, Unparsable)
    BY <1>3, <2>2
  <2>8. Unparsable[sp[k].kids[sp[k].n]]
    BY <2>4, <2>6, <2>7, UnparsableRule
  <2>9. Some(sp[k].kids, Unparsable)
    BY <2>5, <2>8 DEF Some
  <2> QED
    BY <2>1, <2>2, <2>9
<1> HIDE DEF S
<1>4. 0 .. n - 1 \subseteq S
  BY <1>1, <1>2, <1>3, Upwards
<1>5. n - 1 \in S
  BY <1>1, <1>4
<1> QED
  BY <1>1, <1>5 DEF S

\* The loop over the structures of a message begins.
LEMMA StartsHere ==
  ASSUME PlainSettable, NEW m \in WellFormed, buf = MessageBytes(m),
         ListAt(m.type) \in Lists, ListAt(m.type) # "experimenter_stats",
         NEW f, f = Frame(ListAt(m.type), ListFrom(m), ListTo(m))
  PROVE  LET s == Shadow(m.kids, 0, ListFrom(m)) IN
         Level(f, s, buf) /\ Turned(f, s)
<1> DEFINE s == Shadow(m.kids, 0, ListFrom(m))
<1>1. m.kids \in Seq(Structure) /\ Len(m.kids) \in Nat /\ 0 <= Len(m.kids)
  BY MessageForm, LenProperties
<1>2. /\ InnerOf(m) = Flat(m.kids, Len(m.kids)) /\ Size(InnerOf(m)) \in Nat
      /\ Lies(InnerOf(m), buf, ListFrom(m))
  BY MessageInner, MessageLies DEF ListFrom
<1>3. /\ ListFrom(m) \in Nat /\ ListFrom(m) % 8 = 0 /\ Fits(ListAt(m.type), m.kids)
      /\ ListTo(m) \in Nat
  <2>1. ListAt(m.type) \notin {"unknown", "none", "data"}
    BY DEF Lists, SizedKinds, FixedKinds
  <2> QED
    BY <2>1, ListOf, ListEnds
<1>4. \A i \in 1 .. Len(m.kids) : Bytes[m.kids[i]] \in Octets
  BY <1>1, AllGood, ElementOfSeq DEF Good
<1>5. Flat(m.kids, 0) = <<>> /\ Heard(m.kids, 0) = <<>>
  BY <1>1, <1>4, FlatNext, HeardNext
<1>6. Size(Flat(m.kids, 0)) = 0 /\ ListFrom(m) + 0 = ListFrom(m)
  BY <1>3, <1>5, NoOctets
<1>7. /\ f \in Frames /\ f.list = ListAt(m.type) /\ f.at = ListFrom(m)
      /\ f.to = ListTo(m) /\ f.items = <<>>
  <2>1. <<>> \in Seq(Items)
    BY EmptySeq
  <2> QED
    BY <1>3, <2>1 DEF Frame, Frames
<1>8. s \in Shadows /\ s.kids = m.kids /\ s.n = 0 /\ s.from = ListFrom(m)
  BY <1>1, <1>3 DEF Shadow, Shadows
<1>9. f.list # "oxm"
  <2>1. \A t \in DOMAIN Messages : Messages[t].list # "oxm"
    BY MessageTable DEF MessageRow
  <2>2. \A l \in DOMAIN StatsTypes : l # "oxm"
    BY DEF StatsTypes
  <2>3. m.type \in DOMAIN Messages
    BY MessageForm
  <2> QED
    BY <1>7, <2>1, <2>2, <2>3 DEF ListAt
<1> HIDE DEF s
<1>10. Level(f, s, buf)
  BY <1>1, <1>2, <1>3, <1>6, <1>7, <1>8, <1>9 DEF Level, ListTo
<1>11. Turned(f, s)
  BY <1>5, <1>7, <1>8 DEF Turned
<1> QED
  BY <1>10, <1>11 DEF s

(***************************************************************************)
(* The inductive invariant.                                                *)
(***************************************************************************)

\* The one loop over an experimenter reply: what it has first is the reply, and
\* it is behind as many times the size of something else as it has read.
Alone(m, stk) ==
    /\ Len(stk) = 1 /\ stk[1].to = ListTo(m)
    /\ stk[1].at = ListFrom(m) + 16 * Len(stk[1].items)
    /\ stk[1].items # <<>> => m.kids # <<>> /\ Head(stk[1].items) = m.kids[1]

\* The parser is somewhere in the structures of the message.
Walk(m, stk, b) ==
    IF stk[1].list = "experimenter_stats" THEN Alone(m, stk)
    ELSE \E sp : Deep(sp, stk, b) /\ sp[1].kids = m.kids /\ stk[1].to = ListTo(m)

\* The inductive invariant: the walk, and what is true where it ends.
IInv ==
    /\ msg \in Message
    /\ pc \in {"serialize", "header", "parse", "done", "refused"}
    /\ pc # "serialize" => buf = MessageBytes(msg)
    /\ stack \in Seq(Frames)
    /\ stack # <<>> => /\ pc \notin {"serialize", "header"}
                       /\ stack[1].list = ListAt(msg.type) /\ Walk(msg, stack, buf)
    /\ pc = "parse" => stack # <<>> /\ result = Msg(msg.type, msg.body, <<>>, <<>>)
    /\ RoundTrip

\* What the invariant says while the parser runs.
LEMMA ParseForm ==
  ASSUME PlainSettable, IInv, stack # <<>>
  PROVE  /\ msg \in WellFormed /\ buf = MessageBytes(msg) /\ buf \in Octets
         /\ stack \in Seq(Frames) /\ Len(stack) \in Nat /\ Len(stack) >= 1
         /\ \A i \in 1 .. Len(stack) : stack[i] \in Frames
         /\ Top = stack[Len(stack)] /\ Top \in Frames
         /\ stack[1].list = ListAt(msg.type) /\ ListAt(msg.type) \in Lists
         /\ Walk(msg, stack, buf)
         /\ msg = Msg(msg.type, msg.body, msg.kids, msg.data)
<1>1. /\ msg \in WellFormed /\ buf = MessageBytes(msg) /\ stack \in Seq(Frames)
      /\ stack[1].list = ListAt(msg.type) /\ Walk(msg, stack, buf)
  BY WireAssumption DEF IInv
<1>2. buf \in Octets
  BY <1>1, MessageLies
<1>3. Len(stack) \in Nat /\ Len(stack) # 0 /\ \A i \in 1 .. Len(stack) : stack[i] \in Frames
  BY <1>1, EmptySeq, LenProperties, ElementOfSeq
<1>4. Len(stack) >= 1 /\ 1 \in 1 .. Len(stack) /\ Len(stack) \in 1 .. Len(stack)
  BY <1>3
<1>5. Top = stack[Len(stack)] /\ Top \in Frames
  BY <1>3, <1>4 DEF Top
<1>6. stack[1].list \in Lists
  BY <1>3, <1>4 DEF Frames
<1>7. msg = Msg(msg.type, msg.body, msg.kids, msg.data)
  BY <1>1, MessageForm
<1> QED
  BY <1>1, <1>2, <1>3, <1>4, <1>5, <1>6, <1>7

\* An action that changes only the stack.
LEMMA StackTurns ==
  ASSUME IInv, pc = "parse", UNCHANGED <<msg, buf, result, pc>>,
         stack' \in Seq(Frames), stack' # <<>>, stack'[1].list = stack[1].list,
         Walk(msg, stack', buf)
  PROVE  IInv'
<1>1. msg' = msg /\ buf' = buf /\ result' = result /\ pc' = pc
  OBVIOUS
<1>2. ListAt(msg.type)' = ListAt(msg.type)
  BY <1>1 DEF ListAt
<1>3. Walk(msg, stack, buf)'
  BY <1>1
<1>4. RoundTrip'
  BY <1>1 DEF RoundTrip
<1>5. stack # <<>>
  BY DEF IInv
<1> QED
  BY <1>1, <1>2, <1>3, <1>4, <1>5 DEF IInv

\* The experimenter reply: one structure, read from its start.
LEMMA AloneFacts ==
  ASSUME PlainSettable, NEW m \in WellFormed, buf = MessageBytes(m),
         ListAt(m.type) = "experimenter_stats"
  PROVE  /\ buf \in Octets /\ Size(buf) \in Nat /\ ListFrom(m) \in Nat /\ ListTo(m) = Size(buf)
         /\ m.type = "multipart" /\ Without(m.kids, Known) = m.kids
         /\ m.kids = <<>> => ListTo(m) = ListFrom(m) /\ NoBody(m)
         /\ m.kids # <<>> =>
              /\ m.kids = <<m.kids[1]>> /\ m.kids[1] \in Structure
              /\ m.kids[1].kind = "experimenter_stats" /\ DOMAIN m.kids = {1}
              /\ Size(m.kids[1].body) \in Nat /\ Size(m.kids[1].body) >= 8
              /\ ListTo(m) = ListFrom(m) + Size(m.kids[1].body)
              /\ ReadExperimenterStats(ListFrom(m)) = Leaf(m.kids[1], 16)
              /\ m.kids[1] \in Items
<1>1. /\ Fits("experimenter_stats", m.kids) /\ ListFrom(m) \in Nat /\ m.type = "multipart"
      /\ Len(m.kids) <= 1 /\ (m.kids = <<>> => NoBody(m))
  <2>1. "experimenter_stats" \in Lists /\ "experimenter_stats" \in SingleStruct
    BY DEF Lists, SingleStruct
  <2> QED
    BY <2>1, ListOf
<1>2. /\ ListTo(m) = Size(buf) /\ ListTo(m) \in Nat
  <2>1. "experimenter_stats" \in Lists
    BY DEF Lists
  <2> QED
    BY <1>1, <2>1, ListEnds
<1>3. buf \in Octets /\ Size(buf) \in Nat
  BY MessageLies
<1>4. m.kids \in Seq(Structure) /\ Len(m.kids) \in Nat /\ DOMAIN m.kids = 1 .. Len(m.kids)
  BY MessageForm, LenProperties
<1>5. Without(m.kids, Known) = Heard(m.kids, Len(m.kids)) /\ Heard(m.kids, 0) = <<>>
  BY <1>4, HeardNext
<1>6. CASE m.kids = <<>>
  <2>1. InnerOf(m) = <<>>
    BY <1>6, MessageInner
  <2>2. ListTo(m) = ListFrom(m) + 0
    BY <2>1, NoOctets DEF ListTo
  <2>3. Without(m.kids, Known) = m.kids
    BY <1>5, <1>6, EmptySeq
  <2> QED
    BY <1>1, <1>2, <1>3, <1>6, <2>2, <2>3
<1>7. CASE m.kids # <<>>
  <2>1. Len(m.kids) = 1
    <3>1. Len(m.kids) # 0
      BY <1>4, <1>7, EmptySeq
    <3>2. PICK k \in Nat : k = Len(m.kids)
      BY <1>4
    <3>3. k # 0 /\ k <= 1
      BY <1>1, <3>1, <3>2
    <3>4. k = 1
      BY <3>3
    <3> QED
      BY <3>2, <3>4, Zenon
  <2> DEFINE o == m.kids[1]
  <2>2. DOMAIN m.kids = {1} /\ m.kids = <<o>>
    BY <1>4, <2>1
  <2>3. o \in Structure /\ Flat(m.kids, 1) = Bytes[o]
    BY <1>4, <2>1, OneKid
  <2>4. o.kind = "experimenter_stats"
    BY <1>1, <2>2 DEF Fits
  <2>5. InnerOf(m) = Bytes[o] /\ ListTo(m) = ListFrom(m) + Size(Bytes[o])
    BY <2>1, <2>3, MessageInner DEF ListTo
  <2>6. Lies(Bytes[o], buf, ListFrom(m))
    BY <2>5, MessageLies DEF ListFrom
  <2> HIDE DEF o
  <2>7. /\ ReadExperimenterStats(ListFrom(m)) = Leaf(o, 16) /\ Known[o] = o
        /\ Bytes[o] = o.body /\ Size(o.body) >= 8 /\ ~PassedOver(o)
    BY <1>1, <1>2, <1>3, <2>3, <2>4, <2>5, <2>6, ExperimenterHere
  <2>8. Size(o.body) \in Nat
    BY <2>3, InnerParts
  <2>9. Heard(m.kids, 1) = Append(<<>>, o)
    <3>1. 0 \in 0 .. Len(m.kids) /\ 0 < Len(m.kids) /\ 0 + 1 = 1
      BY <2>1
    <3>2. m.kids[1] = o
      BY DEF o
    <3> QED
      BY <1>4, <1>5, <2>7, <3>1, <3>2, HeardNext
  <2>10. Without(m.kids, Known) = m.kids
    BY <1>5, <2>1, <2>2, <2>9
  <2>11. o \in Items
    BY <2>3, <2>7 DEF Items
  <2> QED
    BY <1>1, <1>2, <1>3, <1>7, <2>2, <2>3, <2>4, <2>5, <2>7, <2>8, <2>10, <2>11 DEF o
<1> QED
  BY <1>6, <1>7

\* A turn of the loop over an experimenter reply.
LEMMA AloneTurns ==
  ASSUME PlainSettable, IInv, Turning, stack[1].list = "experimenter_stats"
  PROVE  \/ Here = Error /\ Some(msg.kids, [o \in Structure |-> HeaderCut(o)])
         \/ /\ Here.verdict = "leaf"
            /\ LET new == Front(stack) \o <<Advance(Top, Here)>> IN
                 /\ new \in Seq(Frames) /\ new # <<>>
                 /\ new[1].list = stack[1].list /\ Walk(msg, new, buf)
<1> DEFINE f == stack[1]
<1>0. pc = "parse" /\ stack # <<>> /\ Top.at < Top.to
  BY DEF Turning, IInv
<1>1. /\ msg \in WellFormed /\ buf = MessageBytes(msg) /\ buf \in Octets
      /\ stack \in Seq(Frames) /\ Top = stack[Len(stack)] /\ Top \in Frames
      /\ ListAt(msg.type) = "experimenter_stats" /\ Alone(msg, stack)
  BY <1>0, ParseForm DEF Walk
<1>2. Len(stack) = 1 /\ Top = f
  BY <1>1 DEF Alone
<1>3. /\ f.to = ListTo(msg) /\ f.at = ListFrom(msg) + 16 * Len(f.items)
      /\ f.items # <<>> => msg.kids # <<>> /\ Head(f.items) = msg.kids[1]
      /\ f.list = "experimenter_stats"
  BY <1>1 DEF Alone
<1>4. /\ Size(buf) \in Nat /\ ListFrom(msg) \in Nat /\ ListTo(msg) = Size(buf)
      /\ msg.kids = <<>> => ListTo(msg) = ListFrom(msg)
      /\ msg.kids # <<>> =>
           /\ msg.kids[1] \in Structure /\ msg.kids[1].kind = "experimenter_stats"
           /\ DOMAIN msg.kids = {1} /\ msg.kids[1] \in Items
           /\ Size(msg.kids[1].body) \in Nat /\ Size(msg.kids[1].body) >= 8
           /\ ListTo(msg) = ListFrom(msg) + Size(msg.kids[1].body)
           /\ ReadExperimenterStats(ListFrom(msg)) = Leaf(msg.kids[1], 16)
  BY <1>1, AloneFacts
<1>5. f.items \in Seq(Items) /\ f.at \in Nat /\ f.to \in Nat
  BY <1>1, <1>2 DEF Frames
<1>6. Len(f.items) \in Nat /\ (f.items = <<>> => Len(f.items) = 0)
      /\ (f.items # <<>> => Len(f.items) # 0)
  BY <1>5, EmptySeq, LenProperties
<1> HIDE DEF f
<1>7. msg.kids # <<>>
  <2>1. SUFFICES ASSUME msg.kids = <<>> PROVE FALSE
    OBVIOUS
  <2>2. f.at = ListFrom(msg) + 16 * 0
    BY <1>3, <1>6, <2>1
  <2>3. f.at = f.to
    BY <1>3, <1>4, <2>1, <2>2
  <2> QED
    BY <1>0, <1>2, <1>5, <2>3
<1> DEFINE o == msg.kids[1]
<1>8. /\ o \in Structure /\ o.kind = "experimenter_stats" /\ o \in Items
      /\ Size(o.body) \in Nat /\ Size(o.body) >= 8
      /\ Size(buf) = ListFrom(msg) + Size(o.body)
      /\ ReadExperimenterStats(ListFrom(msg)) = Leaf(o, 16)
      /\ DOMAIN msg.kids = {1}
  BY <1>4, <1>7
<1> HIDE DEF o
<1>9. Here = IF f.at + 4 > Size(buf) THEN Error ELSE ReadExperimenterStats(f.at)
  <2>1. f.at + 4 > Len(buf) => Read(f.list, f.at, f.items) = Error
    BY DEF Read
  <2>2. ~(f.at + 4 > Len(buf)) => Read(f.list, f.at, f.items) = ReadExperimenterStats(f.at)
    BY <1>3, ReadBy
  <2> QED
    BY <1>2, <2>1, <2>2 DEF Here, Size
<1>10. ASSUME NEW x \in Items, Here = Leaf(x, 16), f.items = <<>> => x = o
       PROVE  LET new == Front(stack) \o <<Advance(Top, Here)>> IN
                /\ new \in Seq(Frames) /\ new # <<>>
                /\ new[1].list = stack[1].list /\ Walk(msg, new, buf)
  <2> DEFINE g == Advance(Top, Here)
  <2>1. g = [f EXCEPT !.at = f.at + 16, !.items = Append(f.items, x)]
    BY <1>2, <1>10 DEF Advance, Leaf, Outcome
  <2>2. Append(f.items, x) \in Seq(Items) /\ Len(Append(f.items, x)) = Len(f.items) + 1
        /\ Append(f.items, x) # <<>>
    BY <1>5, <1>6, AppendProperties
  <2>3. Head(Append(f.items, x)) = IF f.items = <<>> THEN x ELSE Head(f.items)
    <3>1. Head(Append(f.items, x)) = Append(f.items, x)[1]
      BY <2>2
    <3>2. f.items # <<>> => Append(f.items, x)[1] = f.items[1] /\ Head(f.items) = f.items[1]
      <4>1. f.items # <<>> => 1 \in 1 .. Len(f.items)
        BY <1>6
      <4> QED
        BY <1>5, <1>6, <4>1, AppendProperties
    <3>3. f.items = <<>> => Append(f.items, x)[1] = x
      BY <1>5, <1>6
    <3> QED
      BY <3>1, <3>2, <3>3
  <2>4. f \in Frames
    BY <1>1, <1>2
  <2>5. f.at + 16 \in Nat
    BY <1>5
  <2>6. /\ g \in Frames /\ g.list = f.list /\ g.to = f.to /\ g.at = f.at + 16
        /\ g.items = Append(f.items, x)
    BY <2>1, <2>2, <2>4, <2>5 DEF Frames
  <2> HIDE DEF g
  <2>7. Front(stack) \o <<g>> = <<g>>
    <3>1. Front(stack) = <<>>
      BY <1>1, <1>2 DEF Front
    <3>2. g \in Frames /\ <<g>> \in Seq(Frames)
      BY <2>6
    <3>3. \A u \in Seq(Frames) : <<>> \o u = u
      OBVIOUS
    <3> HIDE DEF g
    <3> QED
      BY <3>1, <3>2, <3>3
  <2>8. <<g>> \in Seq(Frames) /\ <<g>> # <<>> /\ Len(<<g>>) = 1 /\ <<g>>[1] = g
    BY <2>6
  <2>9. g.at = ListFrom(msg) + 16 * Len(g.items)
    <3>1. ListFrom(msg) + 16 * Len(f.items) + 16 = ListFrom(msg) + 16 * (Len(f.items) + 1)
      BY <1>4, <1>6
    <3> QED
      BY <1>3, <2>2, <2>6, <3>1
  <2>10. Head(g.items) = msg.kids[1]
    <3>1. f.items = <<>> => x = msg.kids[1]
      BY <1>10 DEF o
    <3> QED
      BY <1>3, <2>3, <2>6, <3>1
  <2>11. Alone(msg, <<g>>)
    BY <1>3, <1>7, <2>6, <2>8, <2>9, <2>10 DEF Alone
  <2>12. Walk(msg, <<g>>, buf)
    BY <1>3, <2>6, <2>8, <2>11 DEF Walk
  <2>13. <<g>>[1].list = stack[1].list
    BY <2>6, <2>8 DEF f
  <2> QED
    BY <2>7, <2>8, <2>12, <2>13 DEF g
<1>11. CASE f.items = <<>>
  <2>1. f.at = ListFrom(msg)
    <3>1. f.at = ListFrom(msg) + 16 * 0
      BY <1>3, <1>6, <1>11
    <3> QED
      BY <1>4, <3>1
  <2>2. ~(f.at + 4 > Size(buf))
    BY <1>4, <1>8, <2>1
  <2>3. Here = Leaf(o, 16)
    BY <1>8, <1>9, <2>1, <2>2
  <2> QED
    BY <1>8, <1>10, <2>3 DEF Leaf, Outcome
<1>12. CASE f.items # <<>> /\ f.at + 8 <= Size(buf)
  <2> DEFINE x == Node("experimenter_stats", "experimenter_stats",
                       At(buf, f.at, Size(buf) - f.at), <<>>)
  <2>1. ~(f.at + 4 > Size(buf)) /\ ~(f.at + 8 > Size(buf))
    BY <1>4, <1>5, <1>12
  <2>2. Here = Leaf(x, 16)
    BY <1>9, <2>1 DEF ReadExperimenterStats, OFP_METER_FEATURES_SIZE, Size
  <2>3. At(buf, f.at, Size(buf) - f.at) \in Octets
    <3>1. f.at <= Size(buf)
      BY <1>4, <1>5, <1>12
    <3> QED
      BY <1>1, <1>5, <3>1, Halved
  <2>4. x \in Items
    BY <2>3 DEF Items
  <2> HIDE DEF x
  <2> QED
    BY <1>10, <1>12, <2>2, <2>4 DEF Leaf, Outcome
<1>13. CASE f.items # <<>> /\ ~(f.at + 8 <= Size(buf))
  <2>1. Here = Error
    <3>1. f.at + 8 > Size(buf)
      BY <1>4, <1>5, <1>13
    <3> QED
      BY <1>9, <3>1 DEF ReadExperimenterStats, Size
  <2>2. PICK k \in Nat : k = Len(f.items)
    BY <1>6
  <2>3. PICK z \in Nat : z = Size(o.body)
    BY <1>8
  <2>4. 16 * k < z /\ z < 16 * k + 8
    <3>1. f.at < f.to /\ f.to = Size(buf) /\ f.at + 8 > Size(buf)
      BY <1>0, <1>2, <1>3, <1>4, <1>5, <1>13
    <3>2. f.at = ListFrom(msg) + 16 * k /\ Size(buf) = ListFrom(msg) + z
      BY <1>3, <1>8, <2>2, <2>3
    <3> QED
      BY <1>4, <3>1, <3>2
  <2>5. z % 16 \in 1 .. 7
    BY <2>4
  <2>6. HeaderCut(o)
    BY <1>8, <2>3, <2>5 DEF HeaderCut, OFP_METER_FEATURES_SIZE, Size
  <2>7. Some(msg.kids, [q \in Structure |-> HeaderCut(q)])
    BY <1>8, <2>6 DEF Some, o
  <2> QED
    BY <2>1, <2>7
<1> QED
  BY <1>11, <1>12, <1>13

\* Where the innermost loop is.
LEMMA DeepHere ==
  ASSUME PlainSettable, IInv, Turning, NEW sp, Deep(sp, stack, buf)
  PROVE  LET s == sp[Len(stack)]
             o == s.kids[s.n + 1]
         IN  /\ Level(Top, s, buf) /\ Turned(Top, s) /\ Top \in Frames
             /\ s.n \in Nat /\ s.n < Len(s.kids) /\ s.n \in 0 .. Len(s.kids)
             /\ s.n + 1 \in 1 .. Len(s.kids) /\ s.kids \in Seq(Structure)
             /\ DOMAIN s.kids = 1 .. Len(s.kids)
             /\ o \in Structure /\ Reads(o, Here, Top.at)
             /\ o.kind \notin Loose => Top.list \notin Loose
             /\ s.n + 1 \in 0 .. Len(s.kids)
             /\ Heard(s.kids, s.n + 1) = IF PassedOver(o) THEN Top.items
                                         ELSE Append(Top.items, Known[o])
<1> DEFINE s == sp[Len(stack)]
<1>0. pc = "parse" /\ stack # <<>> /\ Top.at < Top.to
  BY DEF Turning, IInv
<1>1. /\ buf \in Octets /\ Len(stack) \in 1 .. Len(stack)
      /\ Top = stack[Len(stack)] /\ Top \in Frames
  BY <1>0, ParseForm
<1>2. Level(Top, s, buf) /\ Turned(Top, s)
  BY <1>1 DEF Deep
<1> HIDE DEF s
<1>3. /\ s.n + 1 \in 1 .. Len(s.kids) /\ s.kids[s.n + 1] \in Structure
      /\ Reads(s.kids[s.n + 1], Here, Top.at)
      /\ s.kids[s.n + 1].kind \notin Loose => Top.list \notin Loose
  BY <1>0, <1>1, <1>2, Reading DEF Here
<1>4. /\ s.kids \in Seq(Structure) /\ Len(s.kids) \in Nat /\ s.n \in 0 .. Len(s.kids)
      /\ s.n < Len(s.kids)
  BY <1>0, <1>1, <1>2, LevelFacts
<1>5. s.n \in Nat /\ s.n + 1 \in 0 .. Len(s.kids) /\ DOMAIN s.kids = 1 .. Len(s.kids)
  BY <1>4, LenProperties
<1>6. Heard(s.kids, s.n + 1) = IF PassedOver(s.kids[s.n + 1]) THEN Top.items
                               ELSE Append(Top.items, Known[s.kids[s.n + 1]])
  BY <1>2, <1>4, HeardNext DEF Turned
<1> QED
  BY <1>1, <1>2, <1>3, <1>4, <1>5, <1>6 DEF s

\* A turn that reads a structure keeps the invariant.
LEMMA StepKeeps ==
  ASSUME PlainSettable, IInv, Step
  PROVE  IInv'
<1>1. /\ Turning /\ Here.verdict \in {"leaf", "skip"}
      /\ stack' = Front(stack) \o <<Advance(Top, Here)>>
      /\ pc = "parse" /\ UNCHANGED <<msg, buf, result, pc>>
  BY DEF Step, Turning
<1>2. /\ stack # <<>> /\ stack \in Seq(Frames) /\ Walk(msg, stack, buf)
      /\ Top = stack[Len(stack)] /\ Len(stack) \in 1 .. Len(stack) /\ Len(stack) \in Nat
      /\ buf \in Octets
  <2>1. stack # <<>>
    BY <1>1 DEF IInv
  <2> QED
    BY <2>1, ParseForm
<1>3. CASE stack[1].list = "experimenter_stats"
  <2>1. Here # Error
    BY <1>1 DEF Error, Outcome
  <2> QED
    BY <1>1, <1>3, <2>1, AloneTurns, StackTurns
<1>4. CASE stack[1].list # "experimenter_stats"
  <2>1. PICK sp : Deep(sp, stack, buf) /\ sp[1].kids = msg.kids /\ stack[1].to = ListTo(msg)
    BY <1>2, <1>4 DEF Walk
  <2> DEFINE s == sp[Len(stack)]
  <2> DEFINE o == s.kids[s.n + 1]
  <2>2. /\ Level(Top, s, buf) /\ Top \in Frames /\ s.n < Len(s.kids)
        /\ s.kids \in Seq(Structure) /\ s.n + 1 \in 0 .. Len(s.kids)
        /\ o \in Structure /\ Reads(o, Here, Top.at)
        /\ Heard(s.kids, s.n + 1) = IF PassedOver(o) THEN Top.items
                                    ELSE Append(Top.items, Known[o])
    BY <1>1, <2>1, DeepHere
  <2> HIDE DEF s, o
  <2>3. \/ Here = Skip(Size(Bytes[o])) /\ PassedOver(o)
        \/ Here = Leaf(Known[o], Size(Bytes[o])) /\ ~PassedOver(o)
    BY <1>1, <2>2 DEF Reads, Opened, Error, Holds, Outcome
  <2> DEFINE g == [Top EXCEPT !.at = Top.at + Size(Bytes[o]), !.items = Heard(s.kids, s.n + 1)]
  <2> DEFINE t == [s EXCEPT !.n = s.n + 1]
  <2>4. Advance(Top, Here) = g
    <3>1. Here.len = Size(Bytes[o])
      BY <2>3 DEF Skip, Leaf, Outcome
    <3>2. (IF Here.verdict = "skip" THEN Top.items ELSE Append(Top.items, Here.node))
             = Heard(s.kids, s.n + 1)
      BY <2>2, <2>3 DEF Skip, Leaf, Outcome
    <3> QED
      BY <3>1, <3>2 DEF Advance
  <2>5. Heard(s.kids, s.n + 1) \in Seq(Items)
    BY <2>2, HeardItems
  <2>6. Level(g, t, buf)
    <3>1. g = [Top EXCEPT !.at = Top.at + Size(Bytes[s.kids[s.n + 1]]),
                          !.items = Heard(s.kids, s.n + 1)]
      BY DEF o
    <3> HIDE DEF g
    <3>2. t = [s EXCEPT !.n = s.n + 1]
      OBVIOUS
    <3> HIDE DEF t
    <3> QED
      BY <1>2, <2>2, <2>5, <3>1, <3>2, Moves
  <2>7. /\ g.list = Top.list /\ g.to = Top.to /\ g.items = Heard(s.kids, s.n + 1)
    BY <2>2 DEF Frames
  <2>8. t.kids = s.kids /\ t.n = s.n + 1
    BY <2>2 DEF Level, Shadows
  <2> HIDE DEF g, t
  <2>9. Turned(g, t)
    BY <2>7, <2>8 DEF Turned
  <2>10. SameList(g, t, Len(stack), stack, sp) /\ Within(Len(stack), stack)
    BY <1>2, <2>7, <2>8 DEF s, SameList, Within
  <2> DEFINE new == Kept(stack, Len(stack), <<g>>)
  <2>11. /\ new \in Seq(Frames) /\ Len(new) = Len(stack)
         /\ new[1].list = stack[1].list /\ new[1].to = stack[1].to
         /\ \E sq : Deep(sq, new, buf) /\ sq[1].kids = sp[1].kids
    <3>1. Grown(new, Len(stack), stack, sp, buf)
      BY <1>2, <2>1, <2>6, <2>9, <2>10, Replaced
    <3> HIDE DEF new
    <3> QED
      BY <3>1 DEF Grown
  <2>12. stack' = new
    BY <1>1, <2>4 DEF Front, Kept
  <2> HIDE DEF new
  <2>13. new # <<>>
    BY <1>2, <2>11
  <2>14. Walk(msg, new, buf)
    BY <1>4, <2>1, <2>11 DEF Walk
  <2> QED
    BY <1>1, <2>11, <2>12, <2>13, <2>14, StackTurns
<1> QED
  BY <1>3, <1>4

\* So does one that goes into a list.
LEMMA EnterKeeps ==
  ASSUME PlainSettable, IInv, Enter
  PROVE  IInv'
<1>1. /\ Turning /\ Here.verdict = "holds"
      /\ stack' = Front(stack) \o
                    <<Advance(Top, Here), Frame(Here.list, Here.from, Here.to)>>
      /\ pc = "parse" /\ UNCHANGED <<msg, buf, result, pc>>
  BY DEF Enter, Turning
<1>2. /\ stack # <<>> /\ stack \in Seq(Frames) /\ Walk(msg, stack, buf)
      /\ Top = stack[Len(stack)] /\ Len(stack) \in 1 .. Len(stack) /\ Len(stack) \in Nat
      /\ buf \in Octets
  <2>1. stack # <<>>
    BY <1>1 DEF IInv
  <2> QED
    BY <2>1, ParseForm
<1>3. stack[1].list # "experimenter_stats"
  <2>1. SUFFICES ASSUME stack[1].list = "experimenter_stats" PROVE FALSE
    OBVIOUS
  <2>2. Here.verdict \in {"leaf", "error"}
    BY <1>1, <2>1, AloneTurns DEF Error, Outcome
  <2> QED
    BY <1>1, <2>2
<1>4. PICK sp : Deep(sp, stack, buf) /\ sp[1].kids = msg.kids /\ stack[1].to = ListTo(msg)
  BY <1>2, <1>3 DEF Walk
<1> DEFINE s == sp[Len(stack)]
<1> DEFINE o == s.kids[s.n + 1]
<1>5. /\ Level(Top, s, buf) /\ Turned(Top, s) /\ Top \in Frames /\ s.n < Len(s.kids)
      /\ s.n \in Nat /\ s.n \in 0 .. Len(s.kids)
      /\ s.kids \in Seq(Structure) /\ s.n + 1 \in 0 .. Len(s.kids)
      /\ o \in Structure /\ Reads(o, Here, Top.at)
      /\ o.kind \notin Loose => Top.list \notin Loose
  BY <1>1, <1>4, DeepHere
<1> HIDE DEF s, o
<1>6. Opened(o, Here, Top.at)
  BY <1>1, <1>5 DEF Reads, Error, Skip, Leaf, Outcome
<1>7. PICK from \in Nat :
         /\ Here = Holds(Bare(o), Size(Bytes[o]), ListIn(o), from,
                         from + Size(Inner(o.kids, Bytes)))
         /\ ListIn(o) \in Lists /\ Fits(ListIn(o), o.kids)
         /\ Lies(Inner(o.kids, Bytes), buf, from)
         /\ from + Size(Inner(o.kids, Bytes)) <= Top.at + Size(Bytes[o])
         /\ Top.at % 8 = 0 /\ ListIn(o) \notin Loose => from % 8 = 0
         /\ o.kind \notin Loose /\ ~PassedOver(o)
  BY <1>6 DEF Opened
<1>8. Size(Inner(o.kids, Bytes)) \in Nat
  BY <1>5, InnerParts
<1> DEFINE to == from + Size(Inner(o.kids, Bytes))
<1>9. to \in Nat
  BY <1>7, <1>8
<1>10. Here.node = Bare(o) /\ Here.len = Size(Bytes[o]) /\ Here.list = ListIn(o)
       /\ Here.from = from /\ Here.to = to /\ Here.verdict # "skip"
  BY <1>7 DEF Holds, Outcome
<1> DEFINE items == Append(Top.items, Bare(o))
<1> DEFINE g == [Top EXCEPT !.at = Top.at + Size(Bytes[o]), !.items = items]
<1> DEFINE t == [s EXCEPT !.n = s.n + 1]
<1> DEFINE h == Frame(ListIn(o), from, to)
<1> DEFINE u == Shadow(o.kids, 0, from)
<1>11. Advance(Top, Here) = g /\ Frame(Here.list, Here.from, Here.to) = h
  BY <1>10 DEF Advance
<1>12. items \in Seq(Items)
  <2>1. Bare(o) \in Items
    BY <1>5 DEF Items
  <2>2. Top.items \in Seq(Items)
    BY <1>5 DEF Frames
  <2> QED
    BY <2>1, <2>2
<1>13. items = Append(Heard(s.kids, s.n), Bare(o))
  BY <1>5 DEF Turned
<1> HIDE DEF items
<1>14. Level(g, t, buf)
  <2>1. g = [Top EXCEPT !.at = Top.at + Size(Bytes[s.kids[s.n + 1]]), !.items = items]
    BY DEF o
  <2>2. t = [s EXCEPT !.n = s.n + 1]
    OBVIOUS
  <2> HIDE DEF g, t
  <2> QED
    BY <1>2, <1>5, <1>12, <2>1, <2>2, Moves
<1>15. g.list = Top.list /\ g.to = Top.to /\ g.items = items
       /\ g.at = Top.at + Size(Bytes[o])
  BY <1>5 DEF Frames
<1>16. t.kids = s.kids /\ t.n = s.n + 1
  BY <1>5 DEF Level, Shadows
<1>17. h \in Frames /\ h.items = <<>> /\ h.list = ListIn(o) /\ h.at = from /\ h.to = to
  <2>1. <<>> \in Seq(Items)
    BY EmptySeq
  <2> QED
    BY <1>7, <1>9, <2>1 DEF Frame, Frames
<1>18. u.kids = o.kids
  BY DEF Shadow
<1>19. o.kind = "match" => Ranked(o.kids)
  BY <1>5, MatchRanked
<1> HIDE DEF g, t, h
<1>20. Level(h, u, buf) /\ Turned(h, u)
  <2>1. Top.at % 8 = 0
    BY <1>2, <1>5, <1>7, LevelFacts
  <2> QED
    BY <1>2, <1>5, <1>7, <2>1, <1>17, <1>19, Goes
<1> HIDE DEF u
<1>21. Linked(g, t, h, u)
  <2>1. t.kids[t.n] = o /\ t.n > 0 /\ t.n - 1 = s.n
    <3>1. s.n + 1 > 0 /\ (s.n + 1) - 1 = s.n
      BY <1>5
    <3> QED
      BY <1>16, <3>1 DEF o
  <2>2. h.to <= g.at
    BY <1>7, <1>15, <1>17
  <2> QED
    BY <1>7, <1>13, <1>15, <1>16, <1>17, <1>18, <2>1, <2>2 DEF Linked
<1>22. SameList(g, t, Len(stack), stack, sp)
  BY <1>2, <1>15, <1>16 DEF s, SameList
<1> DEFINE new == Kept(stack, Len(stack), <<g, h>>)
<1>23. /\ new \in Seq(Frames) /\ Len(new) = Len(stack) + 1
       /\ new[1].list = stack[1].list /\ new[1].to = stack[1].to
       /\ \E sq : Deep(sq, new, buf) /\ sq[1].kids = sp[1].kids
  <2>1. Grown(new, Len(stack) + 1, stack, sp, buf)
    BY <1>2, <1>4, <1>14, <1>20, <1>21, <1>22, Deeper
  <2> HIDE DEF new
  <2> QED
    BY <2>1 DEF Grown
<1>24. stack' = new
  BY <1>1, <1>11 DEF Front, Kept
<1> HIDE DEF new
<1>25. new # <<>>
  BY <1>2, <1>23
<1>26. Walk(msg, new, buf)
  BY <1>3, <1>4, <1>23 DEF Walk
<1> QED
  BY <1>1, <1>23, <1>24, <1>25, <1>26, StackTurns

\* An inner loop that is done belongs to the last of the outer one.
Holding(e, x) == [e EXCEPT !.kids = x]
Fill(items, x) == [items EXCEPT ![Len(items)].kids = x]

\* The list of the last structure is filled in.
LEMMA Filled ==
  ASSUME NEW S, NEW s \in Seq(S), NEW e \in S, NEW x
  PROVE  Fill(Append(s, e), x) = Append(s, Holding(e, x))
<1> DEFINE items == Append(s, e)
<1> DEFINE n == Len(s)
<1> DEFINE d == [e EXCEPT !.kids = x]
<1>1. n \in Nat /\ Len(items) = n + 1 /\ items \in Seq(S) /\ DOMAIN items = 1 .. n + 1
      /\ items[n + 1] = e /\ \A i \in 1 .. n : items[i] = s[i]
  BY AppendProperties, LenProperties
<1> HIDE DEF items
<1>2. s \in Seq(S \cup {d}) /\ d \in S \cup {d}
  BY SeqMonotonic
<1>3. Append(s, d) \in Seq(S \cup {d}) /\ Len(Append(s, d)) = n + 1
      /\ Append(s, d)[n + 1] = d /\ \A i \in 1 .. n : Append(s, d)[i] = s[i]
  BY <1>2, AppendProperties
<1>4. Append(s, d) = [i \in 1 .. n + 1 |-> Append(s, d)[i]]
  BY <1>3
<1> DEFINE r == [items EXCEPT ![n + 1] = d]
<1>5. r = [i \in 1 .. n + 1 |-> IF i = n + 1 THEN d ELSE items[i]]
  BY <1>1
<1>6. \A i \in 1 .. n + 1 : i = n + 1 \/ i \in 1 .. n
  BY <1>1
<1> DEFINE a == Append(s, d)
<1>7. \A i \in 1 .. n + 1 : (IF i = n + 1 THEN d ELSE items[i]) = a[i]
  BY <1>1, <1>3, <1>6
<1> HIDE DEF a
<1>8. r = [i \in 1 .. n + 1 |-> a[i]]
  BY <1>5, <1>7
<1>9. r = a
  BY <1>4, <1>8 DEF a
<1>10. [items EXCEPT ![Len(items)].kids = x] = r
  BY <1>1
<1> QED
  BY <1>9, <1>10 DEF a, items, Fill, Holding

\* Leaving a list keeps the invariant.
LEMMA LeaveKeeps ==
  ASSUME PlainSettable, IInv, Leave
  PROVE  IInv'
<1> DEFINE n == Len(stack) - 1
<1> DEFINE f == stack[n]
<1> DEFINE items == Fill(f.items, Top.items)
<1> DEFINE g == [f EXCEPT !.items = items]
<1>1. /\ pc = "parse" /\ Top.at >= Top.to /\ Len(stack) > 1
      /\ UNCHANGED <<msg, buf, result, pc>>
      /\ stack' = SubSeq(stack, 1, n - 1) \o <<g>>
  <2>1. stack # <<>> /\ pc = "parse"
    BY DEF IInv, Leave
  <2>2. Len(stack) \in Nat
    BY <2>1, ParseForm
  <2>3. Len(stack) - 2 = n - 1
    BY <2>2
  <2> QED
    BY <2>1, <2>3 DEF Leave, Fill
<1>2. /\ stack # <<>> /\ stack \in Seq(Frames) /\ Walk(msg, stack, buf)
      /\ Top = stack[Len(stack)] /\ Len(stack) \in 1 .. Len(stack) /\ Len(stack) \in Nat
      /\ buf \in Octets
  <2>1. stack # <<>>
    BY <1>1 DEF IInv
  <2> QED
    BY <2>1, ParseForm
<1>3. n \in 1 .. Len(stack) /\ n < Len(stack) /\ n + 1 = Len(stack)
  BY <1>1, <1>2
<1>4. stack[1].list # "experimenter_stats"
  BY <1>1, <1>2 DEF Walk, Alone
<1>5. PICK sp : Deep(sp, stack, buf) /\ sp[1].kids = msg.kids /\ stack[1].to = ListTo(msg)
  BY <1>2, <1>4 DEF Walk
<1> DEFINE s == sp[n]
<1> DEFINE u == sp[Len(stack)]
<1> DEFINE o == s.kids[s.n]
<1>6. /\ Level(f, s, buf) /\ Level(Top, u, buf) /\ Turned(Top, u)
      /\ Linked(f, s, Top, u)
  BY <1>2, <1>3, <1>5 DEF Deep
<1> HIDE DEF n, items, g
<1>7. /\ s.n > 0 /\ ~PassedOver(o) /\ f.items = Append(Heard(s.kids, s.n - 1), Bare(o))
      /\ u.kids = o.kids
  BY <1>6 DEF Linked
<1>8. /\ s.kids \in Seq(Structure) /\ Len(s.kids) \in Nat /\ s.n \in 0 .. Len(s.kids)
      /\ f \in Frames
  BY <1>2, <1>6, LevelFacts DEF Level
<1>9. u.kids \in Seq(Structure) /\ u.n = Len(u.kids)
  BY <1>1, <1>2, <1>6, LevelFacts
<1>10. Top.items = Without(o.kids, Known)
  BY <1>6, <1>7, <1>9, HeardNext DEF Turned
<1> HIDE DEF f, s, u, o
<1>11. /\ s.n \in 1 .. Len(s.kids) /\ s.n - 1 \in 0 .. Len(s.kids)
       /\ s.n - 1 < Len(s.kids) /\ (s.n - 1) + 1 = s.n
  BY <1>7, <1>8
<1>12. o \in Structure
  BY <1>8, <1>11, ElementOfSeq DEF o
<1>13. /\ Heard(s.kids, s.n - 1) \in Seq(Items) /\ Heard(s.kids, s.n) \in Seq(Items)
       /\ Heard(s.kids, s.n) = Append(Heard(s.kids, s.n - 1), Known[o])
  <2>1. s.kids[s.n] = o
    BY DEF o
  <2>2. PICK k \in 0 .. Len(s.kids) : k = s.n - 1 /\ k + 1 = s.n /\ k < Len(s.kids)
    BY <1>11
  <2>3. Heard(s.kids, k + 1) = IF PassedOver(s.kids[k + 1]) THEN Heard(s.kids, k)
                               ELSE Append(Heard(s.kids, k), Known[s.kids[k + 1]])
    BY <1>8, <2>2, HeardNext
  <2>4. Heard(s.kids, k) \in Seq(Items) /\ Heard(s.kids, s.n) \in Seq(Items)
    BY <1>8, <2>2, HeardItems
  <2> QED
    BY <1>7, <2>1, <2>2, <2>3, <2>4
<1>14. Bare(o) \in Items
  BY <1>12 DEF Items
<1>15. [Bare(o) EXCEPT !.kids = Top.items] = Known[o]
  <2>1. Known[o] = [o EXCEPT !.kids = Without(o.kids, Known)]
    BY <1>12, KnownRule
  <2>2. o = [kind |-> o.kind, type |-> o.type, body |-> o.body, kids |-> o.kids]
    BY <1>12, StructureForm
  <2>3. \A x, y : [[o EXCEPT !.kids = x] EXCEPT !.kids = y] = [o EXCEPT !.kids = y]
    BY <2>2
  <2> QED
    BY <1>10, <2>1, <2>3 DEF Bare
<1>16. items = Heard(s.kids, s.n)
  <2>1. items = Append(Heard(s.kids, s.n - 1), [Bare(o) EXCEPT !.kids = Top.items])
    <3>1. Fill(f.items, Top.items)
             = Append(Heard(s.kids, s.n - 1), Holding(Bare(o), Top.items))
      <4> DEFINE q == Heard(s.kids, s.n - 1)
      <4> DEFINE e == Bare(o)
      <4>1. q \in Seq(Items) /\ e \in Items /\ f.items = Append(q, e)
        BY <1>7, <1>13, <1>14
      <4> HIDE DEF q, e
      <4>2. \A x : Fill(Append(q, e), x) = Append(q, Holding(e, x))
        BY <4>1, Filled, Zenon
      <4> QED
        BY <4>1, <4>2, Zenon DEF q, e
    <3> QED
      BY <3>1 DEF items, Holding
  <2> QED
    BY <1>13, <1>15, <2>1
<1>17. /\ g \in Frames /\ g.list = f.list /\ g.at = f.at /\ g.to = f.to /\ g.items = items
  BY <1>8, <1>13, <1>16 DEF g, Frames
<1>18. Level(g, s, buf) /\ Turned(g, s)
  BY <1>6, <1>16, <1>17 DEF Level, Turned
<1>19. SameList(g, s, n, stack, sp) /\ Within(n, stack)
  BY <1>3, <1>17 DEF SameList, Within, s, f
<1> DEFINE new == Kept(stack, n, <<g>>)
<1>20. Grown(new, n, stack, sp, buf)
  BY <1>2, <1>5, <1>18, <1>19, Replaced
<1>21. stack' = new
  BY <1>1 DEF Kept, n, g, items, f
<1> HIDE DEF new
<1>22. /\ new \in Seq(Frames) /\ Len(new) = n
       /\ new[1].list = stack[1].list /\ new[1].to = stack[1].to
       /\ \E sq : Deep(sq, new, buf) /\ sq[1].kids = sp[1].kids
  BY <1>20 DEF Grown
<1>23. new # <<>>
  BY <1>3, <1>22
<1>24. Walk(msg, new, buf)
  BY <1>4, <1>5, <1>22 DEF Walk
<1> QED
  BY <1>1, <1>21, <1>22, <1>23, <1>24, StackTurns

\* An exception keeps it: there was a reason to refuse.
LEMMA RaiseKeeps ==
  ASSUME PlainSettable, IInv, Raise
  PROVE  IInv'
<1>1. /\ Turning /\ Here.verdict = "error" /\ pc = "parse" /\ pc' = "refused"
      /\ msg' = msg /\ buf' = buf /\ stack' = stack /\ result' = result
  BY DEF Raise, Turning
<1>2. /\ stack # <<>> /\ stack \in Seq(Frames) /\ Walk(msg, stack, buf)
      /\ msg \in WellFormed
  <2>1. stack # <<>>
    BY <1>1 DEF IInv
  <2> QED
    BY <2>1, ParseForm
<1>3. \E i \in DOMAIN msg.kids : Unparsable[msg.kids[i]] \/ HeaderCut(msg.kids[i])
  <2>1. CASE stack[1].list = "experimenter_stats"
    <3>1. Some(msg.kids, [o \in Structure |-> HeaderCut(o)])
      BY <1>1, <2>1, AloneTurns
    <3>2. \A i \in DOMAIN msg.kids : msg.kids[i] \in Structure
      BY <1>2, MessageForm, ElementOfSeq, LenProperties
    <3> QED
      BY <3>1, <3>2 DEF Some
  <2>2. CASE stack[1].list # "experimenter_stats"
    <3>1. PICK sp : Deep(sp, stack, buf) /\ sp[1].kids = msg.kids /\ stack[1].to = ListTo(msg)
      BY <1>2, <2>2 DEF Walk
    <3> DEFINE s == sp[Len(stack)]
    <3>2. /\ s.n + 1 \in 1 .. Len(s.kids) /\ DOMAIN s.kids = 1 .. Len(s.kids)
          /\ Reads(s.kids[s.n + 1], Here, Top.at)
      BY <1>1, <3>1, DeepHere
    <3> HIDE DEF s
    <3>3. Unparsable[s.kids[s.n + 1]]
      BY <1>1, <3>2 DEF Reads, Opened, Skip, Leaf, Holds, Outcome
    <3>4. Some(s.kids, Unparsable)
      BY <3>2, <3>3 DEF Some
    <3>5. Some(sp[1].kids, Unparsable)
      BY <1>2, <3>1, <3>4, Outwards DEF s
    <3> QED
      BY <3>1, <3>5 DEF Some
  <2> QED
    BY <2>1, <2>2
<1>4. RoundTrip'
  BY <1>1, <1>3 DEF RoundTrip
<1>5. ListAt(msg.type)' = ListAt(msg.type)
  BY <1>1 DEF ListAt
<1>6. Walk(msg, stack, buf)'
  BY <1>1, <1>2
<1> QED
  BY <1>1, <1>2, <1>4, <1>5, <1>6 DEF IInv

\* What a message is made of is what the parser returns.
LEMMA FinishAlone ==
  ASSUME PlainSettable, IInv, Finish, stack[1].list = "experimenter_stats"
  PROVE  RoundTrip'
<1>1. /\ pc = "parse" /\ Top.at >= Top.to /\ Len(stack) = 1 /\ stack # <<>>
      /\ result = Msg(msg.type, msg.body, <<>>, <<>>)
      /\ msg' = msg /\ buf' = buf /\ stack' = stack
  BY DEF Finish, IInv
<1>2. /\ msg \in WellFormed /\ buf = MessageBytes(msg) /\ buf \in Octets
      /\ Top = stack[1] /\ Top \in Frames /\ ListAt(msg.type) = "experimenter_stats"
      /\ Alone(msg, stack) /\ msg = Msg(msg.type, msg.body, msg.kids, msg.data)
  BY <1>1, ParseForm DEF Walk
<1>3. /\ Size(buf) \in Nat /\ ListFrom(msg) \in Nat /\ ListTo(msg) = Size(buf)
      /\ msg.type = "multipart" /\ Without(msg.kids, Known) = msg.kids
      /\ msg.kids = <<>> => NoBody(msg)
      /\ msg.kids # <<>> => /\ msg.kids = <<msg.kids[1]>>
                            /\ Size(msg.kids[1].body) \in Nat /\ Size(msg.kids[1].body) >= 8
                            /\ ListTo(msg) = ListFrom(msg) + Size(msg.kids[1].body)
  BY <1>2, AloneFacts
<1>4. TrailingData(msg.type, ListTo(msg)) = msg.data
  BY <1>2, <1>3, ListEnds DEF Frames
<1>5. /\ Top.to = ListTo(msg) /\ Top.at = ListFrom(msg) + 16 * Len(Top.items)
      /\ Top.items # <<>> => msg.kids # <<>> /\ Head(Top.items) = msg.kids[1]
      /\ Top.list = "experimenter_stats"
  BY <1>2 DEF Alone
<1>6. Top.items \in Seq(Items) /\ Top.at \in Nat /\ Top.to \in Nat
  BY <1>2 DEF Frames
<1>7. Top.items = <<>> => msg.kids = <<>>
  <2>1. SUFFICES ASSUME Top.items = <<>>, msg.kids # <<>> PROVE FALSE
    OBVIOUS
  <2>2. Top.at = ListFrom(msg) + 16 * 0
    BY <1>5, <2>1, EmptySeq
  <2>3. Top.at = ListFrom(msg)
    BY <1>3, <2>2
  <2>4. Top.to = ListFrom(msg) + Size(msg.kids[1].body) /\ Size(msg.kids[1].body) \in Nat
        /\ Size(msg.kids[1].body) >= 8
    BY <1>3, <1>5, <2>1
  <2> QED
    BY <1>1, <1>3, <2>3, <2>4
<1>8. result.type = "multipart" /\ Top.list \in SingleStruct
  BY <1>1, <1>3, <1>5 DEF Msg, SingleStruct
<1>9. /\ pc' = IF Top.items = <<>> THEN "refused" ELSE "done"
      /\ result' = [result EXCEPT
             !.kids = IF Top.items # <<>> THEN <<Head(Top.items)>> ELSE Top.items,
             !.data = TrailingData(result.type, Top.to)]
  BY <1>8 DEF Finish
<1>10. CASE Top.items = <<>>
  BY <1>1, <1>3, <1>7, <1>9, <1>10 DEF RoundTrip
<1>11. CASE Top.items # <<>>
  <2>1. <<Head(Top.items)>> = msg.kids
    BY <1>3, <1>5, <1>11
  <2>2. result' = Msg(msg.type, msg.body, msg.kids, msg.data)
    <3>1. TrailingData(result.type, Top.to) = msg.data
      BY <1>1, <1>4, <1>5 DEF Msg
    <3>2. result' = [result EXCEPT !.kids = msg.kids, !.data = msg.data]
      BY <1>9, <1>11, <2>1, <3>1
    <3> QED
      BY <1>1, <3>2 DEF Msg
  <2>3. [msg EXCEPT !.kids = Without(@, Known)] = msg
    BY <1>2, <1>3 DEF Msg
  <2> QED
    BY <1>1, <1>2, <1>9, <1>11, <2>2, <2>3 DEF RoundTrip
<1> QED
  BY <1>10, <1>11

\* At the end, the message is what was sent.
LEMMA FinishDeep ==
  ASSUME PlainSettable, IInv, Finish, stack[1].list # "experimenter_stats"
  PROVE  RoundTrip'
<1>1. /\ pc = "parse" /\ Top.at >= Top.to /\ Len(stack) = 1 /\ stack # <<>>
      /\ result = Msg(msg.type, msg.body, <<>>, <<>>)
      /\ msg' = msg /\ buf' = buf /\ stack' = stack
  BY DEF Finish, IInv
<1>2. /\ msg \in WellFormed /\ buf = MessageBytes(msg) /\ buf \in Octets
      /\ Top = stack[1] /\ Top \in Frames /\ Top.list = ListAt(msg.type)
      /\ ListAt(msg.type) \in Lists
      /\ Walk(msg, stack, buf) /\ msg = Msg(msg.type, msg.body, msg.kids, msg.data)
  BY <1>1, ParseForm
<1>3. PICK sp : Deep(sp, stack, buf) /\ sp[1].kids = msg.kids /\ stack[1].to = ListTo(msg)
  BY <1>2 DEF Walk
<1> DEFINE s == sp[1]
<1>4. Level(Top, s, buf) /\ Turned(Top, s) /\ s.kids = msg.kids /\ Top.to = ListTo(msg)
  BY <1>1, <1>2, <1>3 DEF Deep
<1> HIDE DEF s
<1>5. /\ msg.kids \in Seq(Structure) /\ Len(msg.kids) \in Nat /\ s.n = Len(msg.kids)
      /\ Fits(Top.list, msg.kids)
  BY <1>1, <1>2, <1>4, LevelFacts DEF Level
<1>6. Top.items = Heard(msg.kids, Len(msg.kids)) /\ Top.items = Without(msg.kids, Known)
  BY <1>4, <1>5, HeardNext DEF Turned
<1>7. TrailingData(msg.type, ListTo(msg)) = msg.data
  BY <1>2, ListEnds
<1>8. /\ pc' = IF (msg.type = "multipart" /\ Top.list \in SingleStruct) /\ Top.items = <<>>
               THEN "refused" ELSE "done"
      /\ result' = [result EXCEPT
             !.kids = IF (msg.type = "multipart" /\ Top.list \in SingleStruct)
                           /\ Top.items # <<>>
                      THEN <<Head(Top.items)>> ELSE Top.items,
             !.data = TrailingData(msg.type, Top.to)]
  <2>1. result.type = msg.type
    BY <1>1 DEF Msg
  <2> QED
    BY <2>1 DEF Finish
<1>9. msg.type = "multipart" /\ Top.list \in SingleStruct =>
         /\ Top.items = msg.kids \/ Len(Top.items) = 1
         /\ Top.items = <<>> => NoBody(msg)
         /\ Top.items # <<>> => <<Head(Top.items)>> = Top.items
  <2>1. SUFFICES ASSUME msg.type = "multipart", Top.list \in SingleStruct
                 PROVE  /\ Top.items = <<>> => NoBody(msg)
                        /\ Top.items # <<>> => <<Head(Top.items)>> = Top.items
                        /\ Top.items = msg.kids \/ Len(Top.items) = 1
    OBVIOUS
  <2>2. Len(msg.kids) <= 1 /\ (msg.kids = <<>> => NoBody(msg))
    BY <1>2, <2>1, ListOf
  <2>3. CASE msg.kids = <<>>
    <3>1. Heard(msg.kids, 0) = <<>> /\ Len(msg.kids) = 0
      BY <1>5, <2>3, HeardNext
    <3> QED
      BY <1>6, <2>2, <2>3, <3>1
  <2>4. CASE msg.kids # <<>>
    <3>1. Len(msg.kids) = 1
      <4>1. Len(msg.kids) # 0
        BY <1>5, <2>4, EmptySeq
      <4>2. PICK k \in Nat : k = Len(msg.kids)
        BY <1>5
      <4>3. k # 0 /\ k <= 1
        BY <2>2, <4>1, <4>2
      <4>4. k = 1
        BY <4>3
      <4> QED
        BY <4>2, <4>4, Zenon
    <3>2. DOMAIN msg.kids = {1} /\ msg.kids[1] \in Structure
      BY <1>5, <3>1, ElementOfSeq
    <3>3. msg.kids[1].kind = Top.list
      BY <1>5, <2>1, <1>3, <1>2, <3>2 DEF Fits, SingleStruct
    <3>4. ~PassedOver(msg.kids[1])
      BY <2>1, <3>3 DEF PassedOver, SingleStruct
    <3>5. Heard(msg.kids, 1) = Append(<<>>, Known[msg.kids[1]])
      <4>1. 0 \in 0 .. Len(msg.kids) /\ 0 < Len(msg.kids) /\ 0 + 1 = 1
        BY <3>1
      <4> QED
        BY <1>5, <3>4, <4>1, HeardNext
    <3>6. Top.items = <<Known[msg.kids[1]]>>
      <4>1. \A x : Append(<<>>, x) = <<x>>
        OBVIOUS
      <4>2. Top.items = Append(<<>>, Known[msg.kids[1]])
        BY <1>6, <3>1, <3>5
      <4> QED
        BY <4>1, <4>2, Zenon
    <3> QED
      BY <3>6
  <2> QED
    BY <2>3, <2>4
<1>10. CASE pc' = "refused"
  BY <1>1, <1>8, <1>9, <1>10 DEF RoundTrip
<1>11. CASE pc' = "done"
  <2>1. result' = [result EXCEPT !.kids = Top.items, !.data = msg.data]
    <3>1. (IF (msg.type = "multipart" /\ Top.list \in SingleStruct) /\ Top.items # <<>>
           THEN <<Head(Top.items)>> ELSE Top.items) = Top.items
      BY <1>9
    <3> QED
      BY <1>4, <1>7, <1>8, <3>1
  <2>2. result' = Msg(msg.type, msg.body, Without(msg.kids, Known), msg.data)
    BY <1>1, <1>6, <2>1 DEF Msg
  <2>3. [msg EXCEPT !.kids = Without(@, Known)]
          = Msg(msg.type, msg.body, Without(msg.kids, Known), msg.data)
    BY <1>2 DEF Msg
  <2> QED
    BY <1>1, <1>11, <2>2, <2>3 DEF RoundTrip
<1> QED
  BY <1>8, <1>10, <1>11

\* The end of the parse keeps the invariant.
LEMMA FinishKeeps ==
  ASSUME PlainSettable, IInv, Finish
  PROVE  IInv'
<1>1. /\ pc = "parse" /\ pc' \in {"refused", "done"} /\ stack # <<>>
      /\ msg' = msg /\ buf' = buf /\ stack' = stack
  BY DEF Finish, IInv
<1>2. RoundTrip'
  BY FinishAlone, FinishDeep
<1>3. ListAt(msg.type)' = ListAt(msg.type)
  BY <1>1 DEF ListAt
<1>4. Walk(msg, stack, buf)'
  BY <1>1 DEF IInv
<1> QED
  BY <1>1, <1>2, <1>3, <1>4 DEF IInv

\* Serializing keeps it.
LEMMA SerializeKeeps ==
  ASSUME IInv, Serialize
  PROVE  IInv'
<1>1. /\ pc' = "header" /\ msg' = msg /\ stack' = stack /\ buf' = MessageBytes(msg)
      /\ stack = <<>>
  BY DEF Serialize, IInv
<1>2. RoundTrip'
  BY <1>1 DEF RoundTrip
<1> QED
  BY <1>1, <1>2 DEF IInv

\* Reading the header establishes the walk.
LEMMA HeaderKeeps ==
  ASSUME PlainSettable, IInv, Header
  PROVE  IInv'
<1> DEFINE list == ListAt(msg.type)
<1>1. /\ pc = "header" /\ stack = <<>> /\ buf = MessageBytes(msg)
      /\ msg \in Message /\ msg \in WellFormed /\ msg' = msg /\ buf' = buf
  BY WireAssumption DEF Header, IInv
<1>2. /\ MessageType = msg.type /\ HeadSize(msg.type) = ListFrom(msg)
      /\ Fixed(msg.type) = msg.body
  BY <1>1, HeaderRead
<1>3. /\ result' = Msg(msg.type, msg.body, <<>>,
                       IF list = "data" THEN At(buf, ListFrom(msg), Len(buf) - ListFrom(msg))
                       ELSE <<>>)
      /\ pc' = IF list \in {"none", "data"} THEN "done"
               ELSE IF list = "unknown" THEN "refused" ELSE "parse"
      /\ stack' = IF pc' = "parse"
                  THEN <<Frame(list, ListFrom(msg), ListEnd(msg.type))>> ELSE <<>>
  BY <1>2 DEF Header
<1>4. /\ list \in Lists \cup {"none", "data", "unknown"}
      /\ list = "unknown" => NoBody(msg)
      /\ msg = Msg(msg.type, msg.body, msg.kids, msg.data)
  BY <1>1, ListOf, MessageForm
<1>5. list' = list
  BY <1>1 DEF ListAt
<1> HIDE DEF list
<1>6. Lists \cap {"none", "data", "unknown"} = {}
  BY DEF Lists, SizedKinds, FixedKinds
<1>7. CASE list \in {"none", "data"}
  <2>1. /\ msg.kids = <<>>
        /\ msg.data = IF list = "data" THEN At(buf, ListFrom(msg), Len(buf) - ListFrom(msg))
                      ELSE <<>>
    BY <1>1, <1>7, OpaqueEnd DEF list
  <2>2. pc' = "done" /\ stack' = <<>> /\ result' = Msg(msg.type, msg.body, <<>>, msg.data)
    BY <1>3, <1>7, <2>1
  <2>3. Without(msg.kids, Known) = <<>>
    <3>1. msg.kids \in Seq(Structure) /\ Len(msg.kids) = 0
      BY <1>1, <2>1, MessageForm, EmptySeq
    <3> QED
      BY <3>1, HeardNext
  <2>4. [msg EXCEPT !.kids = Without(@, Known)] = Msg(msg.type, msg.body, <<>>, msg.data)
    BY <1>4, <2>3 DEF Msg
  <2>5. RoundTrip'
    BY <1>1, <2>2, <2>4 DEF RoundTrip
  <2>6. <<>> \in Seq(Frames)
    BY EmptySeq
  <2> QED
    BY <1>1, <2>2, <2>5, <2>6 DEF IInv
<1>8. CASE list = "unknown"
  <2>1. pc' = "refused" /\ stack' = <<>>
    BY <1>3, <1>8
  <2>2. RoundTrip'
    BY <1>1, <1>4, <1>8, <2>1 DEF RoundTrip
  <2>3. <<>> \in Seq(Frames)
    BY EmptySeq
  <2> QED
    BY <1>1, <2>1, <2>2, <2>3 DEF IInv
<1>9. CASE list \in Lists
  <2>1. list \notin {"none", "data", "unknown"}
    BY <1>6, <1>9
  <2>2. /\ ListEnd(msg.type) = ListTo(msg) /\ ListTo(msg) \in Nat
        /\ ListFrom(msg) \in Nat
    BY <1>1, <1>9, ListOf, ListEnds DEF list
  <2> DEFINE f == Frame(list, ListFrom(msg), ListTo(msg))
  <2>3. /\ pc' = "parse" /\ stack' = <<f>> /\ result' = Msg(msg.type, msg.body, <<>>, <<>>)
    BY <1>3, <2>1, <2>2
  <2>4. f \in Frames /\ f.list = list /\ f.at = ListFrom(msg) /\ f.to = ListTo(msg)
        /\ f.items = <<>>
    <3>1. <<>> \in Seq(Items)
      BY EmptySeq
    <3> QED
      BY <1>9, <2>2, <3>1 DEF Frame, Frames
  <2> HIDE DEF f
  <2> DEFINE new == <<f>>
  <2>5. new \in Seq(Frames) /\ new # <<>> /\ new[1] = f /\ Len(new) = 1
    BY <2>4
  <2> HIDE DEF new
  <2>6. Walk(msg, new, buf)
    <3>1. CASE list = "experimenter_stats"
      <4>1. ListFrom(msg) = ListFrom(msg) + 16 * Len(f.items)
        <5>1. Len(f.items) = 0
          BY <2>4
        <5> QED
          BY <2>2, <5>1
      <4> QED
        BY <2>4, <2>5, <3>1, <4>1 DEF Walk, Alone
    <3>2. CASE list # "experimenter_stats"
      <4> DEFINE s == Shadow(msg.kids, 0, ListFrom(msg))
      <4>1. Level(f, s, buf) /\ Turned(f, s)
        BY <1>1, <1>9, <3>2, StartsHere DEF f, list
      <4>2. s.kids = msg.kids
        BY DEF Shadow
      <4> HIDE DEF s
      <4> DEFINE sp == [i \in 1 .. 1 |-> s]
      <4>3. s \in Shadows
        BY <4>1 DEF Level
      <4>4. Deep(sp, new, buf) /\ sp[1] = s
        BY <2>5, <4>1, <4>3 DEF Deep
      <4> HIDE DEF sp
      <4> QED
        BY <2>4, <2>5, <3>2, <4>2, <4>4 DEF Walk
    <3> QED
      BY <3>1, <3>2
  <2>7. stack' = new
    BY <2>3 DEF new
  <2>8. RoundTrip'
    BY <2>3 DEF RoundTrip
  <2>9. stack'[1].list = ListAt(msg.type)'
    BY <1>5, <2>4, <2>5, <2>7 DEF list
  <2>10. Walk(msg, stack, buf)'
    BY <1>1, <2>6, <2>7
  <2> QED
    BY <1>1, <2>3, <2>5, <2>7, <2>8, <2>9, <2>10 DEF IInv
<1> QED
  BY <1>4, <1>7, <1>8, <1>9

\* The invariant holds at the start.
LEMMA InvStart ==
  ASSUME Init
  PROVE  IInv
<1>1. <<>> \in Seq(Frames)
  BY EmptySeq
<1> QED
  BY <1>1 DEF Init, IInv, RoundTrip

\* Every step keeps it.
LEMMA InvNext ==
  ASSUME PlainSettable, IInv, [Next]_vars
  PROVE  IInv'
<1>1. CASE UNCHANGED vars
  <2>1. msg' = msg /\ buf' = buf /\ stack' = stack /\ result' = result /\ pc' = pc
    BY <1>1 DEF vars
  <2>2. ListAt(msg.type)' = ListAt(msg.type)
    BY <2>1 DEF ListAt
  <2>3. RoundTrip'
    BY <2>1 DEF IInv, RoundTrip
  <2>4. stack # <<>> => Walk(msg, stack, buf)'
    BY <2>1 DEF IInv
  <2> QED
    BY <2>1, <2>2, <2>3, <2>4 DEF IInv
<1> QED
  BY <1>1, SerializeKeeps, HeaderKeeps, StepKeeps, EnterKeeps, RaiseKeeps, LeaveKeeps,
     FinishKeeps DEF Next

\* So it always holds.
LEMMA InvHolds ==
  ASSUME PlainSettable
  PROVE  Spec => []IInv
<1>1. Init => IInv
  BY InvStart
<1>2. IInv /\ [Next]_vars => IInv'
  BY InvNext
<1> QED
  BY <1>1, <1>2, PTL DEF Spec

-----------------------------------------------------------------------------
(* The theorems. *)

\* Where the loops are: in the whole message, and inside each other.
LEMMA NestedLoops ==
  ASSUME PlainSettable, IInv
  PROVE  LengthsNest
<1> SUFFICES ASSUME NEW i \in DOMAIN stack
             PROVE  /\ stack[i].list # "experimenter_stats" => stack[i].at <= stack[i].to
                    /\ stack[i].to <= IF i = 1 THEN Len(buf) ELSE stack[i - 1].at
                    /\ stack[i].list \in AlignedLists => stack[i].at % 8 = 0
  BY DEF LengthsNest
<1>0. stack \in Seq(Frames)
  BY DEF IInv
<1>1. DOMAIN stack = 1 .. Len(stack) /\ Len(stack) \in Nat
  BY <1>0, LenProperties
<1>2. stack # <<>>
  BY <1>1, EmptySeq
<1>3. /\ msg \in WellFormed /\ buf = MessageBytes(msg) /\ buf \in Octets
      /\ stack[1].list = ListAt(msg.type) /\ Walk(msg, stack, buf)
  BY <1>2, ParseForm
<1>4. "experimenter_stats" \notin AlignedLists
  BY DEF AlignedLists
<1>5. Len(buf) = Size(buf)
  BY DEF Size
<1>6. CASE stack[1].list = "experimenter_stats"
  <2>1. Len(stack) = 1 /\ stack[1].to = ListTo(msg)
    BY <1>3, <1>6 DEF Walk, Alone
  <2>2. ListTo(msg) = Size(buf) /\ Size(buf) \in Nat
    BY <1>3, <1>6, AloneFacts
  <2>3. i = 1
    BY <1>1, <2>1
  <2> QED
    BY <1>4, <1>5, <1>6, <2>1, <2>2, <2>3
<1>7. CASE stack[1].list # "experimenter_stats"
  <2>1. PICK sp : Deep(sp, stack, buf)
    BY <1>3, <1>7 DEF Walk
  <2>2. Level(stack[i], sp[i], buf)
    BY <1>1, <2>1 DEF Deep
  <2>3. /\ stack[i].at <= stack[i].to /\ stack[i].to <= Size(buf)
        /\ stack[i].list \notin Loose => stack[i].at % 8 = 0
    BY <1>3, <2>2, LevelFacts
  <2>4. stack[i].list \in AlignedLists => stack[i].list \notin Loose
    BY DEF AlignedLists, Loose
  <2>5. ASSUME i # 1 PROVE stack[i].to <= stack[i - 1].at
    <3>1. PICK j \in Nat : j = i - 1
      BY <1>1, <2>5
    <3>2. j \in 1 .. Len(stack) /\ j < Len(stack) /\ j + 1 = i
      BY <1>1, <2>5, <3>1
    <3>3. Linked(stack[j], sp[j], stack[j + 1], sp[j + 1])
      BY <2>1, <3>2 DEF Deep
    <3>4. stack[i].to <= stack[j].at
      BY <3>2, <3>3 DEF Linked
    <3> QED
      BY <3>1, <3>4
  <2> QED
    BY <1>5, <2>3, <2>4, <2>5
<1> QED
  BY <1>6, <1>7

\* A loop over fields is the innermost one, and has fields in their order.
LEMMA RankedFields ==
  ASSUME PlainSettable, IInv
  PROVE  PrerequisiteFirst
<1> SUFFICES ASSUME NEW i \in DOMAIN stack, stack[i].list = "oxm",
                    NEW j \in DOMAIN stack[i].items, NEW k \in DOMAIN stack[i].items,
                    stack[i].items[j].type \in DOMAIN Prerequisite,
                    stack[i].items[k].type = Prerequisite[stack[i].items[j].type]
             PROVE  k < j
  BY DEF PrerequisiteFirst
<1>0. stack \in Seq(Frames)
  BY DEF IInv
<1>1. DOMAIN stack = 1 .. Len(stack) /\ Len(stack) \in Nat
  BY <1>0, LenProperties
<1>2. stack # <<>>
  BY <1>1, EmptySeq
<1>3. /\ msg \in WellFormed /\ buf = MessageBytes(msg) /\ buf \in Octets
      /\ stack[1].list = ListAt(msg.type) /\ Walk(msg, stack, buf)
  BY <1>2, ParseForm
<1>4. stack[1].list # "experimenter_stats"
  <2>1. SUFFICES ASSUME stack[1].list = "experimenter_stats" PROVE FALSE
    OBVIOUS
  <2>2. Len(stack) = 1
    BY <1>3, <2>1 DEF Walk, Alone
  <2>3. i = 1
    BY <1>1, <2>2
  <2> QED
    BY <2>1, <2>3
<1>5. PICK sp : Deep(sp, stack, buf)
  BY <1>3, <1>4 DEF Walk
<1>6. Level(stack[i], sp[i], buf)
  BY <1>1, <1>5 DEF Deep
<1> DEFINE kids == sp[i].kids
<1> DEFINE n == sp[i].n
<1>7. /\ kids \in Seq(Structure) /\ Len(kids) \in Nat /\ n \in 0 .. Len(kids)
  BY <1>3, <1>6, LevelFacts
<1>8. Ranked(kids) /\ Fits("oxm", kids)
  BY <1>6 DEF Level
<1>9. DOMAIN kids = 1 .. Len(kids)
  BY <1>7, LenProperties
<1>10. \A m \in 1 .. Len(kids) : kids[m].kind \in {"oxm", "oxm_w"} /\ kids[m] \in Structure
  <2>1. \A m \in DOMAIN kids : kids[m].kind \in {"oxm", "oxm_w"}
    BY <1>8 DEF Fits
  <2> QED
    BY <1>7, <1>9, <2>1, ElementOfSeq
<1>11. i = Len(stack)
  <2>1. SUFFICES ASSUME i # Len(stack) PROVE FALSE
    OBVIOUS
  <2>2. i \in 1 .. Len(stack) /\ i < Len(stack)
    BY <1>1, <2>1
  <2>3. Linked(stack[i], sp[i], stack[i + 1], sp[i + 1])
    BY <1>5, <2>2 DEF Deep
  <2>4. n > 0 /\ kids[n].kind \notin Loose
    BY <2>3 DEF Linked
  <2>5. n \in 1 .. Len(kids)
    BY <1>7, <2>4
  <2> QED
    BY <1>10, <2>4, <2>5 DEF Loose
<1>12. stack[i].items = Heard(kids, n)
  BY <1>5, <1>11 DEF Deep, Turned
<1> HIDE DEF kids, n
<1>13. Len(Heard(kids, n)) = n /\ \A m \in 1 .. n : Heard(kids, n)[m] = kids[m]
  BY <1>7, <1>10, HeardOxm
<1>14. stack[i].items \in Seq(Items)
  BY <1>6 DEF Level, Frames
<1>15. DOMAIN stack[i].items = 1 .. n
  BY <1>12, <1>13, <1>14, LenProperties
<1>16. j \in 1 .. n /\ k \in 1 .. n
  BY <1>15
<1>17. stack[i].items[j] = kids[j] /\ stack[i].items[k] = kids[k]
  BY <1>12, <1>13, <1>16
<1>18. j \in 1 .. Len(kids) /\ k \in 1 .. Len(kids)
  BY <1>7, <1>16
<1>19. SortKey(kids[k]) < SortKey(kids[j])
  BY <1>17, KeysOf
<1>20. SortKey(kids[j]) \in Nat /\ SortKey(kids[k]) \in Nat
  <2>1. \A m \in 1 .. Len(kids) : OxmForm(kids[m])
    BY <1>10, EncodeOxm
  <2>2. kids[j].type \in Names /\ kids[k].type \in Names
    BY <1>18, <2>1 DEF OxmForm, OxmFits
  <2> QED
    BY <2>2, KeysOf
<1>21. ASSUME ~(k < j) PROVE FALSE
  <2>1. j = k \/ j < k
    BY <1>18, <1>21
  <2>2. SortKey(kids[j]) <= SortKey(kids[k])
    BY <1>8, <1>18, <1>20, <2>1 DEF Ranked
  <2> QED
    BY <1>19, <1>20, <2>2
<1> QED
  BY <1>21

(* Whatever message is sent, if its structures are well formed and it sets
   no field with the header of an experimenter, the parsers of
   c65of/ofproto make the same message of its bytes, but for the hello
   elements and queue properties of types they pass over; they refuse it only
   for a type they have to know, or for a reply without a body. *)
THEOREM MessagesRoundTrip ==
  ASSUME PlainSettable
  PROVE  Spec => []RoundTrip
<1>1. IInv => RoundTrip
  BY DEF IInv
<1> QED
  BY <1>1, InvHolds, PTL

(* While any such message is parsed, no structure ends behind the one it is
   in and no loop goes on behind the end of its list, whatever is nested in
   what; and each structure the protocol aligns begins at a multiple of eight
   bytes. *)
THEOREM LengthsDoNest ==
  ASSUME PlainSettable
  PROVE  Spec => []LengthsNest
<1>1. IInv => LengthsNest
  BY NestedLoops
<1> QED
  BY <1>1, InvHolds, PTL

(* In any match a peer parses, a field others depend on comes before them,
   in whatever order the caller named them: ip_proto behind eth_type, the
   fields of an experimenter last. *)
THEOREM PrerequisitesComeFirst ==
  ASSUME PlainSettable
  PROVE  Spec => []PrerequisiteFirst
<1>1. IInv => PrerequisiteFirst
  BY RankedFields
<1> QED
  BY <1>1, InvHolds, PTL

-----------------------------------------------------------------------------
(***************************************************************************)
(* The checksum of packets. checksum() of packet_utils.py adds the words   *)
(* of the data as one number, of up to 32 bits, and folds it twice; that   *)
(* this is the sum of RFC 1071 is proved here for all data.                *)
(***************************************************************************)

M32 == 65536 * 65536

\* The low half of a sum has 16 bits.
LEMMA LowType == ASSUME NEW t \in Nat PROVE Low(t) \in Nat /\ Low(t) <= 65535
  BY SMT DEF Low

\* The high half of a sum is a number.
LEMMA HighType == ASSUME NEW t \in Nat PROVE High(t) \in Nat
  BY SMT DEF High

\* A number is its low word and, 65536 times, what is above it.
LEMMA Division == ASSUME NEW t \in Nat PROVE t = 65536 * High(t) + Low(t)
  BY SMT DEF Low, High

\* A total of 32 bits has two words.
LEMMA HighFits == ASSUME NEW t \in Nat, t < M32 PROVE High(t) \in Nat /\ High(t) <= 65535
<1>1. High(t) \in Nat /\ Low(t) \in Nat /\ Low(t) <= 65535 /\ t = 65536 * High(t) + Low(t)
  BY LowType, HighType, Division, SMT
<1> QED
  BY <1>1, SMT DEF M32

\* What the two folds make of the words: their sum, less 65535 if it carries.
LEMMA FoldOfHalves ==
    ASSUME NEW t \in Nat, t < M32
    PROVE  Fold(t) = IF Low(t) + High(t) < 65536 THEN Low(t) + High(t)
                     ELSE Low(t) + High(t) - 65535
<1> DEFINE once == Low(t) + High(t)
           twice == once + High(once)
<1>0. Fold(t) = Low(twice)
  BY SMT DEF Fold
<1>1. once \in Nat /\ once <= 131070
  BY LowType, HighFits, SMT
<1> HIDE DEF once
<1>2. /\ Low(once) \in Nat /\ Low(once) <= 65535
      /\ High(once) \in Nat
      /\ once = 65536 * High(once) + Low(once)
  <2>1. once \in Nat
    BY <1>1, SMT
  <2>2. Low(once) \in Nat /\ Low(once) <= 65535
    BY <2>1, LowType, SMT
  <2>3. High(once) \in Nat
    BY <2>1, HighType, SMT
  <2>4. once = 65536 * High(once) + Low(once)
    BY <2>1, Division, SMT
  <2> QED
    BY <2>2, <2>3, <2>4, SMT
<1>3. twice \in Nat
  BY <1>1, <1>2, SMT
<1> HIDE DEF twice
<1>4. /\ Low(twice) \in Nat /\ Low(twice) <= 65535
      /\ High(twice) \in Nat
      /\ twice = 65536 * High(twice) + Low(twice)
  <2>1. twice \in Nat
    BY <1>3, SMT
  <2>2. Low(twice) \in Nat /\ Low(twice) <= 65535
    BY <2>1, LowType, SMT
  <2>3. High(twice) \in Nat
    BY <2>1, HighType, SMT
  <2>4. twice = 65536 * High(twice) + Low(twice)
    BY <2>1, Division, SMT
  <2> QED
    BY <2>2, <2>3, <2>4, SMT
<1>5. CASE once < 65536
  <2>1. High(once) = 0
    BY <1>1, <1>2, <1>5, SMT
  <2>2. twice = once
    BY <1>1, <2>1, SMT DEF twice
  <2>3. Low(twice) = once
    BY <1>1, <1>4, <1>5, <2>2, SMT
  <2> QED
    BY <1>0, <1>5, <2>3, SMT DEF once
<1>6. CASE once >= 65536
  <2>1. High(once) = 1
    BY <1>1, <1>2, <1>6, SMT
  <2>2. twice = once + 1
    BY <2>1, SMT DEF twice
  <2>3. Low(twice) = once - 65535
    BY <1>1, <1>4, <1>6, <2>2, SMT
  <2>4. Fold(t) = once - 65535 /\ ~(once < 65536)
    BY <1>0, <1>1, <1>6, <2>3, SMT
  <2> QED
    BY <2>4, LowType, HighType, SMT DEF once
<1> QED
  BY <1>1, <1>5, <1>6, SMT

(* For every total of 32 bits, what is left after the second fold fits in
   16 bits: `~total & 0xFFFF` in checksum() loses no carry. *)
THEOREM FoldFits ==
    ASSUME NEW t \in Nat, t < M32
    PROVE  Fold(t) \in Nat /\ Fold(t) <= 65535
<1>1. Low(t) \in Nat /\ Low(t) <= 65535 /\ High(t) \in Nat /\ High(t) <= 65535
  BY LowType, HighFits, SMT
<1> QED
  BY <1>1, FoldOfHalves, SMT

(* Folding keeps the sum modulo 65535, which is the arithmetic of the
   Internet checksum, and it gives zero for a sum of zero only. *)
THEOREM FoldKeepsSum ==
    ASSUME NEW t \in Nat, t < M32
    PROVE  /\ \E k \in Nat : t = 65535 * k + Fold(t)
           /\ Fold(t) = 0 <=> t = 0
<1> DEFINE lo == Low(t)
           hi == High(t)
<1>1. lo \in Nat /\ lo <= 65535 /\ hi \in Nat /\ hi <= 65535 /\ t = 65536 * hi + lo
  BY LowType, HighFits, Division, SMT
<1>2. Fold(t) = IF lo + hi < 65536 THEN lo + hi ELSE lo + hi - 65535
  BY FoldOfHalves, SMT
<1> HIDE DEF lo, hi
<1>3. CASE lo + hi < 65536
  <2>1. t = 65535 * hi + Fold(t) /\ hi \in Nat
    BY <1>1, <1>2, <1>3, SMT
  <2>2. Fold(t) = 0 <=> t = 0
    BY <1>1, <1>2, <1>3, SMT
  <2> QED
    BY <2>1, <2>2, SMT
<1>4. CASE lo + hi >= 65536
  <2>1. t = 65535 * (hi + 1) + Fold(t) /\ hi + 1 \in Nat
    BY <1>1, <1>2, <1>4, SMT
  <2>2. Fold(t) # 0 /\ t # 0
    BY <1>1, <1>2, <1>4, SMT
  <2> QED
    BY <2>1, <2>2, SMT
<1> QED
  BY <1>1, <1>3, <1>4, SMT

(* Whoever adds the checksum to the words it was computed over gets all
   ones: the header checksum checksum() writes is the one that is verified,
   for every header and every payload whose words add up to a number of 32
   bits (less the checksum itself), which 128 KiB of data cannot exceed. *)
THEOREM SumWithChecksum ==
    ASSUME NEW t \in Nat, t + 65535 < M32
    PROVE  /\ Fold(t + (65535 - Fold(t))) = 65535
           /\ (t + (65535 - Fold(t))) % 65535 = 0
<1> DEFINE u == t + (65535 - Fold(t))
<1>0. t < M32
  BY SMT DEF M32
<1>1. Fold(t) \in Nat /\ Fold(t) <= 65535
  BY <1>0, FoldFits, SMT
<1>2. PICK k \in Nat : t = 65535 * k + Fold(t)
  BY <1>0, FoldKeepsSum, SMT
<1>3. u \in Nat /\ u < M32 /\ u = 65535 * (k + 1)
  BY <1>1, <1>2, SMT DEF M32
<1>4. u # 0
  BY <1>2, <1>3, SMT
<1> HIDE DEF u
<1>5. Fold(u) \in Nat /\ Fold(u) <= 65535 /\ Fold(u) # 0
  BY <1>3, <1>4, FoldFits, FoldKeepsSum, SMT
<1>6. PICK j \in Nat : u = 65535 * j + Fold(u)
  BY <1>3, FoldKeepsSum, SMT
<1>7. 65535 * (k + 1 - j) = Fold(u)
  BY <1>3, <1>5, <1>6, SMT
<1>8. k + 1 - j = 1
  BY <1>5, <1>7, SMT
<1>9. Fold(u) = 65535
  BY <1>5, <1>7, <1>8, SMT
<1>10. u % 65535 = 0
  BY <1>3, SMT
<1> QED
  BY <1>9, <1>10, SMT DEF u

\* A word has 16 bits.
LEMMA WordBits ==
  ASSUME NEW data \in Seq(Byte)
  PROVE  /\ Words(data) \in Nat
         /\ \A n \in 1 .. Words(data) : WordAt(data, n) \in Nat /\ WordAt(data, n) <= 65535
<1> DEFINE W == Words(data)
<1>1. W \in Nat
  <2>1. Len(data) \in Nat
    BY LenProperties
  <2> QED
    BY <2>1 DEF Words
<1>2. \A n \in 1 .. W : WordAt(data, n) \in Nat /\ WordAt(data, n) <= 65535
  <2>0. \A x \in Byte : x \in Nat /\ x <= 255
    BY DEF Byte
  <2>1. Len(data) \in Nat
    BY LenProperties
  <2>2. \A k \in Nat \ {0} : Octet(data, k) \in Nat /\ Octet(data, k) <= 255
    <3>1. TAKE k \in Nat \ {0}
    <3>2. CASE k <= Len(data)
      <4>1. k \in 1 .. Len(data)
        BY <2>1, <3>2
      <4>2. data[k] \in Byte
        BY <4>1, ElementOfSeq
      <4>3. Octet(data, k) = data[k]
        BY <3>2 DEF Octet
      <4>4. data[k] \in Nat /\ data[k] <= 255
        BY <2>0, <4>2
      <4> QED
        BY <4>3, <4>4
    <3>3. CASE ~(k <= Len(data))
      BY <3>3 DEF Octet
    <3> QED
      BY <3>2, <3>3
  <2>3. TAKE n \in 1 .. W
  <2>4. 2 * n - 1 \in Nat \ {0} /\ 2 * n \in Nat \ {0}
    BY <1>1
  <2>5. PICK a \in Nat : a = Octet(data, 2 * n - 1) /\ a <= 255
    BY <2>2, <2>4
  <2>6. PICK c \in Nat : c = Octet(data, 2 * n) /\ c <= 255
    BY <2>2, <2>4
  <2>7. WordAt(data, n) = 256 * a + c
    BY <2>5, <2>6 DEF WordAt
  <2> QED
    BY <2>5, <2>6, <2>7
<1> QED
  BY <1>1, <1>2

\* The sums of the first words.
Sums(data, sum) ==
    \A n \in 0 .. Words(data) :
        sum[n] = IF n = 0 THEN 0 ELSE sum[n - 1] + WordAt(data, n)

\* The recursive definition in WordSum has a solution.
LEMMA SumRule ==
  ASSUME NEW data \in Seq(Byte)
  PROVE  \E sum : Sums(data, sum) /\ WordSum(data) = sum[Words(data)]
<1> DEFINE W == Words(data)
<1> DEFINE Rule(m, g) ==
      g = [n \in 0 .. m |-> IF n = 0 THEN 0 ELSE g[n - 1] + WordAt(data, n)]
<1> DEFINE S == { m \in 0 .. W : \E g : Rule(m, g) }
<1>0. W \in Nat
  BY WordBits
<1> HIDE DEF W
<1>2. 0 \in S
  <2> DEFINE g == [n \in 0 .. 0 |-> 0]
  <2>1. g = [n \in 0 .. 0 |-> IF n = 0 THEN 0 ELSE g[n - 1] + WordAt(data, n)]
    OBVIOUS
  <2> HIDE DEF g
  <2> QED
    BY <1>0, <2>1
<1>3. ASSUME NEW m \in 0 .. W, m < W, m \in S PROVE m + 1 \in S
  <2>1. PICK g : Rule(m, g)
    BY <1>3
  <2> DEFINE h == [n \in 0 .. m + 1 |-> IF n = 0 THEN 0 ELSE g[n - 1] + WordAt(data, n)]
  <2>2. \A n \in 0 .. m : h[n] = g[n]
    <3>1. \A n \in 0 .. m : g[n] = IF n = 0 THEN 0 ELSE g[n - 1] + WordAt(data, n)
      BY <2>1
    <3>2. \A n \in 0 .. m : h[n] = IF n = 0 THEN 0 ELSE g[n - 1] + WordAt(data, n)
      BY <1>0
    <3> QED
      BY <3>1, <3>2, Zenon
  <2>3. \A n \in 0 .. m + 1 : n # 0 => h[n - 1] = g[n - 1]
    <3> HIDE DEF h
    <3>1. \A n \in 0 .. m + 1 : n # 0 => n - 1 \in 0 .. m
      BY <1>0
    <3> QED
      BY <2>2, <3>1
  <2>4. h = [n \in 0 .. m + 1 |-> IF n = 0 THEN 0 ELSE h[n - 1] + WordAt(data, n)]
    BY <2>3
  <2>5. Rule(m + 1, h)
    BY <2>4, Zenon
  <2> HIDE DEF h, Rule
  <2> QED
    BY <1>0, <1>3, <2>5
<1>4. W \in S
  <2> HIDE DEF S
  <2>1. \A m \in 0 .. W : m < W /\ m \in S => m + 1 \in S
    BY <1>3
  <2>2. 0 .. W \subseteq S
    BY <1>0, <1>2, <2>1, Upwards
  <2> QED
    BY <1>0, <2>2
<1>5. \E g : Rule(W, g)
  BY <1>4
<1> DEFINE sum == CHOOSE g : Rule(W, g)
<1>6. Rule(W, sum)
  BY <1>5, Zenon
<1>7. WordSum(data) = sum[W]
  BY DEF WordSum, W
<1> HIDE DEF sum
<1>8. \A n \in 0 .. W : sum[n] = IF n = 0 THEN 0 ELSE sum[n - 1] + WordAt(data, n)
  BY <1>6
<1> QED
  BY <1>7, <1>8 DEF W, Sums

\* The words of the data add up to what 16 bits each can hold.
LEMMA SumOfWords ==
  ASSUME NEW data \in Seq(Byte)
  PROVE  WordSum(data) \in Nat /\ WordSum(data) <= 65535 * Words(data)
<1> DEFINE W == Words(data)
<1>0. /\ W \in Nat
      /\ \A n \in 1 .. W : WordAt(data, n) \in Nat /\ WordAt(data, n) <= 65535
  BY WordBits
<1>1. PICK sum : Sums(data, sum) /\ WordSum(data) = sum[W]
  BY SumRule
<1>2. \A n \in 0 .. W : sum[n] = IF n = 0 THEN 0 ELSE sum[n - 1] + WordAt(data, n)
  BY <1>1 DEF Sums
<1> HIDE DEF W
<1> DEFINE T == { n \in 0 .. W : sum[n] \in Nat /\ sum[n] <= 65535 * n }
<1>3. 0 \in T
  BY <1>0, <1>2
<1>4. ASSUME NEW n \in 0 .. W, n < W, n \in T PROVE n + 1 \in T
  <2>1. n + 1 \in 1 .. W /\ n + 1 \in 0 .. W /\ n + 1 # 0 /\ (n + 1) - 1 = n
    BY <1>0, <1>4
  <2>2. sum[n + 1] = sum[n] + WordAt(data, n + 1)
    BY <1>2, <2>1
  <2>3. sum[n] \in Nat /\ sum[n] <= 65535 * n
    BY <1>4
  <2>4. WordAt(data, n + 1) \in Nat /\ WordAt(data, n + 1) <= 65535
    BY <1>0, <2>1
  <2>5. sum[n + 1] \in Nat /\ sum[n + 1] <= 65535 * (n + 1)
    BY <2>2, <2>3, <2>4
  <2> QED
    BY <2>1, <2>5
<1>5. W \in T
  <2> HIDE DEF T
  <2>0. W \in Nat
    BY <1>0
  <2>1. \A n \in 0 .. W : n < W /\ n \in T => n + 1 \in T
    BY <1>4
  <2>2. 0 .. W \subseteq T
    BY <2>0, <1>3, <2>1, Upwards
  <2> QED
    BY <1>0, <2>2
<1> QED
  BY <1>1, <1>5 DEF W

\* Two bytes that are there, and others written over them.
PairAt(b, i) == i \in DOMAIN b /\ i + 1 \in DOMAIN b
PutPair(b, i, hi, lo) == [b EXCEPT ![i] = hi, ![i + 1] = lo]

\* Only those two are others.
LEMMA PutBytes ==
  ASSUME NEW data \in Seq(Byte), NEW i \in Nat, PairAt(data, i), NEW hi \in Byte, NEW lo \in Byte
  PROVE  LET new == PutPair(data, i, hi, lo) IN
         /\ new \in Seq(Byte) /\ Size(new) = Size(data)
         /\ new[i] = hi /\ new[i + 1] = lo
         /\ \A j \in 1 .. Size(data) : j # i /\ j # i + 1 => new[j] = data[j]
<1> DEFINE new == PutPair(data, i, hi, lo)
<1>1. PICK n \in Nat : n = Size(data) /\ DOMAIN data = 1 .. n
  BY LenProperties DEF Size
<1>2. \A j \in 1 .. n : data[j] \in Byte
  BY <1>1, ElementOfSeq DEF Size
<1>3. PICK k \in Nat : k = i + 1 /\ i # k /\ i \in 1 .. n /\ k \in 1 .. n
  BY <1>1 DEF PairAt
<1>4. data \in [1 .. n -> Byte]
  BY <1>1, <1>2
<1>5. new = [data EXCEPT ![i] = hi, ![k] = lo]
  BY <1>3, Zenon DEF PutPair
<1> HIDE DEF new
<1>6. /\ new \in [1 .. n -> Byte] /\ new[i] = hi /\ new[k] = lo
      /\ \A j \in 1 .. n : j # i /\ j # k => new[j] = data[j]
  <2>1. \A d \in [1 .. n -> Byte] :
           LET e == [d EXCEPT ![i] = hi, ![k] = lo] IN
           /\ e \in [1 .. n -> Byte] /\ e[i] = hi /\ e[k] = lo
           /\ \A j \in 1 .. n : j # i /\ j # k => e[j] = d[j]
    BY <1>3
  <2> QED
    BY <1>4, <1>5, <2>1, Zenon
<1>7. new \in Seq(Byte) /\ Len(new) = n
  BY <1>6, FunSeq
<1> QED
  BY <1>1, <1>3, <1>6, <1>7, Zenon DEF Size, new

\* Of all the words only that one is another.
LEMMA PutWord ==
  ASSUME NEW data \in Seq(Byte), NEW k \in Nat, NEW i \in Nat, i = 2 * k + 1,
         PairAt(data, i), NEW hi \in Byte, NEW lo \in Byte
  PROVE  LET new == PutPair(data, i, hi, lo) IN
         /\ new \in Seq(Byte) /\ Words(new) = Words(data)
         /\ WordAt(new, k + 1) = 256 * hi + lo
         /\ \A n \in 1 .. Words(data) : n # k + 1 => WordAt(new, n) = WordAt(data, n)
<1> DEFINE new == PutPair(data, i, hi, lo)
<1>1. /\ new \in Seq(Byte) /\ Size(new) = Size(data) /\ new[i] = hi /\ new[i + 1] = lo
      /\ \A j \in 1 .. Size(data) : j # i /\ j # i + 1 => new[j] = data[j]
  BY PutBytes
<1> HIDE DEF new
<1>2. PICK m \in Nat : m = Size(data) /\ DOMAIN data = 1 .. m
  BY LenProperties DEF Size
<1>3. i \in 1 .. m /\ i + 1 \in 1 .. m
  BY <1>2 DEF PairAt
<1>4. Words(new) = Words(data)
  BY <1>1, Zenon DEF Words, Size
<1>5. \A j \in Nat : Octet(new, j) = IF j <= m THEN new[j] ELSE 0
  BY <1>1, <1>2 DEF Octet, Size
<1>6. \A j \in Nat : Octet(data, j) = IF j <= m THEN data[j] ELSE 0
  BY <1>2 DEF Octet, Size
<1>7. Octet(new, i) = hi /\ Octet(new, i + 1) = lo
  BY <1>1, <1>3, <1>5
<1>8. \A j \in Nat : j >= 1 /\ j # i /\ j # i + 1 => Octet(new, j) = Octet(data, j)
  <2>1. TAKE j \in Nat
  <2>2. HAVE j >= 1 /\ j # i /\ j # i + 1
  <2>3. CASE j <= m
    <3>1. j \in 1 .. m
      BY <2>2, <2>3
    <3>2. new[j] = data[j]
      BY <1>1, <1>2, <2>2, <3>1
    <3> QED
      BY <1>5, <1>6, <2>3, <3>2
  <2>4. CASE ~(j <= m)
    BY <1>5, <1>6, <2>4
  <2> QED
    BY <2>3, <2>4
<1>9. WordAt(new, k + 1) = 256 * hi + lo
  <2>1. 2 * (k + 1) - 1 = i /\ 2 * (k + 1) = i + 1
    OBVIOUS
  <2> QED
    BY <1>7, <2>1 DEF WordAt
<1>10. ASSUME NEW n \in 1 .. Words(data), n # k + 1 PROVE WordAt(new, n) = WordAt(data, n)
  <2>1. n \in Nat /\ n >= 1
    BY WordBits
  <2>2. PICK p \in Nat : p = 2 * n - 1 /\ p >= 1 /\ p + 1 = 2 * n
    BY <2>1
  <2>3. p # i /\ p # i + 1 /\ p + 1 # i /\ p + 1 # i + 1
    BY <1>10, <2>1, <2>2
  <2>4. Octet(new, p) = Octet(data, p) /\ Octet(new, p + 1) = Octet(data, p + 1)
    BY <1>8, <2>2, <2>3
  <2>5. WordAt(new, n) = 256 * Octet(new, p) + Octet(new, p + 1)
    BY <2>2, Zenon DEF WordAt
  <2>6. WordAt(data, n) = 256 * Octet(data, p) + Octet(data, p + 1)
    BY <2>2, Zenon DEF WordAt
  <2> QED
    BY <2>4, <2>5, <2>6, Zenon
<1> QED
  BY <1>1, <1>4, <1>9, <1>10, Zenon DEF new

\* Sums of words that differ in one, which was zero.
LEMMA SumsDiffer ==
  ASSUME NEW data \in Seq(Byte), NEW new \in Seq(Byte), Words(new) = Words(data),
         NEW k \in Nat, k + 1 \in 1 .. Words(data), NEW c \in Nat,
         WordAt(data, k + 1) = 0, WordAt(new, k + 1) = c,
         \A n \in 1 .. Words(data) : n # k + 1 => WordAt(new, n) = WordAt(data, n)
  PROVE  WordSum(new) = WordSum(data) + c
<1>1. PICK W \in Nat : W = Words(data)
  BY WordBits
<1>2. \A n \in 1 .. W : WordAt(data, n) \in Nat
  BY <1>1, WordBits
<1>3. PICK old : Sums(data, old) /\ WordSum(data) = old[W]
  BY <1>1, SumRule
<1>4. PICK sum : Sums(new, sum) /\ WordSum(new) = sum[W]
  BY <1>1, SumRule
<1>5. old[0] = 0 /\ sum[0] = 0
  BY <1>1, <1>3, <1>4 DEF Sums
<1>6. ASSUME NEW n \in 0 .. W, n < W
      PROVE  /\ old[n + 1] = old[n] + WordAt(data, n + 1)
             /\ sum[n + 1] = sum[n] + WordAt(new, n + 1)
  <2>1. n + 1 \in 0 .. W /\ n + 1 # 0 /\ (n + 1) - 1 = n
    BY <1>1, <1>6
  <2> QED
    BY <1>1, <1>3, <1>4, <2>1 DEF Sums
<1> DEFINE Carry(n) == IF n > k THEN c ELSE 0
<1> DEFINE T == { n \in 0 .. W : old[n] \in Nat /\ sum[n] = old[n] + Carry(n) }
<1>7. 0 \in T
  BY <1>1, <1>5
<1>8. ASSUME NEW n \in 0 .. W, n < W, n \in T PROVE n + 1 \in T
  <2>1. n + 1 \in 1 .. W /\ n + 1 \in 0 .. W /\ n \in Nat
    BY <1>1, <1>8
  <2>2. PICK a \in Nat : a = old[n] /\ sum[n] = a + Carry(n)
    BY <1>8
  <2>3. PICK d \in Nat : d = WordAt(data, n + 1)
    BY <1>2, <2>1
  <2>4. old[n + 1] = a + d /\ sum[n + 1] = (a + Carry(n)) + WordAt(new, n + 1)
    BY <1>6, <1>8, <2>2, <2>3
  <2>5. CASE n = k
    <3>1. d = 0 /\ WordAt(new, n + 1) = c
      BY <2>3, <2>5
    <3>2. Carry(n) = 0 /\ Carry(n + 1) = c
      BY <2>1, <2>5
    <3> QED
      BY <2>1, <2>4, <3>1, <3>2
  <2>6. CASE n # k
    <3>1. WordAt(new, n + 1) = d
      <4>1. n + 1 # k + 1
        BY <2>1, <2>6
      <4> QED
        BY <1>1, <2>1, <2>3, <4>1
    <3>2. Carry(n + 1) = Carry(n) /\ Carry(n) \in Nat
      BY <2>1, <2>6
    <3> HIDE DEF Carry
    <3> QED
      BY <2>1, <2>4, <3>1, <3>2
  <2> QED
    BY <2>5, <2>6
<1>9. 0 .. W \subseteq T
  <2> HIDE DEF T
  <2>1. \A n \in 0 .. W : n < W /\ n \in T => n + 1 \in T
    BY <1>8
  <2> QED
    BY <1>1, <1>7, <2>1, Upwards
<1>10. W \in T /\ W > k
  BY <1>1, <1>9
<1> QED
  BY <1>3, <1>4, <1>10

\* At most 128 KiB, more than any packet has.
OfPacket(data) == Len(data) <= 131072

(* The words of the data of any packet and its checksum() add up to a
   multiple of 65535 that is not zero, as a verifier expects: for every data
   of bytes of at most 128 KiB, of an odd or an even number of them. *)
THEOREM ChecksumIsVerified ==
    ASSUME NEW data \in Seq(Byte), OfPacket(data)
    PROVE  /\ checksum(data) \in Nat /\ checksum(data) <= 65535
           /\ WordSum(data) + checksum(data) > 0
           /\ (WordSum(data) + checksum(data)) % 65535 = 0
<1> DEFINE t == WordSum(data)
<1>0. t \in Nat /\ t + 65535 < M32
  <2>1. Len(data) \in Nat
    BY LenProperties
  <2>2. Words(data) \in Nat /\ Words(data) <= 65536
    BY <2>1 DEF Words, OfPacket
  <2>3. t \in Nat /\ t <= 65535 * Words(data)
    BY SumOfWords
  <2> HIDE DEF t
  <2> QED
    BY <2>2, <2>3 DEF M32
<1>1. Fold(t) \in Nat /\ Fold(t) <= 65535
  BY <1>0, FoldFits, SMT DEF M32
<1>2. (t + (65535 - Fold(t))) % 65535 = 0
  BY <1>0, SumWithChecksum, SMT
<1>3. t = 0 => Fold(t) = 0
  BY <1>0, FoldKeepsSum, SMT DEF M32
<1>4. checksum(data) = 65535 - Fold(t)
  BY SMT DEF checksum
<1> HIDE DEF t
<1> QED
  BY <1>0, <1>1, <1>2, <1>3, <1>4, SMT DEF t

\* Where the checksum goes, at an even place, there are two zeros.
Cleared(data, k) ==
    2 * k + 1 \in DOMAIN data /\ 2 * k + 2 \in DOMAIN data /\ Word(data, 2 * k) = 0

(* What ipv4, icmp and icmpv6 send verifies: checksum() over bytes that have
   zero where the checksum goes, and written there, leaves a sum a receiver
   accepts, whatever the bytes are and at whatever even place it goes. *)
THEOREM ChecksumFilledIn ==
    ASSUME NEW data \in Seq(Byte), OfPacket(data),
           NEW k \in Nat, Cleared(data, k)
    PROVE  Verifies(Put16(data, 2 * k, checksum(data)))
<1> DEFINE new == Put16(data, 2 * k, checksum(data))
<1>1. /\ checksum(data) \in Nat /\ checksum(data) <= 65535
      /\ WordSum(data) + checksum(data) > 0
      /\ (WordSum(data) + checksum(data)) % 65535 = 0
  BY ChecksumIsVerified
<1>2. PICK c \in Nat : c = checksum(data)
  BY <1>1
<1>0. c <= 65535
  BY <1>1, <1>2
<1>3. PICK hi \in Byte, lo \in Byte :
          hi = c \div 256 /\ lo = c % 256 /\ c = 256 * hi + lo
  <2>1. PICK h \in Nat, l \in Nat :
            h = c \div 256 /\ l = c % 256 /\ c = 256 * h + l /\ h <= 255 /\ l <= 255
    BY <1>0
  <2>2. h \in Byte /\ l \in Byte
    BY <2>1 DEF Byte
  <2> QED
    BY <2>1, <2>2
<1>4. PICK i \in Nat : i = 2 * k + 1 /\ i + 1 = 2 * k + 2
  OBVIOUS
<1>5. PairAt(data, i)
  <2>1. 2 * k + 1 \in DOMAIN data /\ 2 * k + 2 \in DOMAIN data
    BY Zenon DEF Cleared
  <2> QED
    BY <1>4, <2>1, Zenon DEF PairAt
<1>6. new = PutPair(data, i, hi, lo)
  BY <1>2, <1>3, <1>4, Zenon DEF Put16, PutPair
<1> HIDE DEF new
<1>7. /\ new \in Seq(Byte) /\ Words(new) = Words(data) /\ WordAt(new, k + 1) = c
      /\ \A n \in 1 .. Words(data) : n # k + 1 => WordAt(new, n) = WordAt(data, n)
  <2>1. /\ new \in Seq(Byte) /\ Words(new) = Words(data)
        /\ WordAt(new, k + 1) = 256 * hi + lo
        /\ \A n \in 1 .. Words(data) : n # k + 1 => WordAt(new, n) = WordAt(data, n)
    BY <1>4, <1>5, <1>6, PutWord
  <2> QED
    BY <1>3, <2>1, Zenon
<1>8. PICK m \in Nat : m = Len(data) /\ DOMAIN data = 1 .. m
  BY LenProperties
<1>9. k + 1 \in 1 .. Words(data)
  <2>1. i + 1 <= m
    BY <1>5, <1>8 DEF PairAt
  <2>2. k + 1 <= (m + 1) \div 2
    BY <1>4, <2>1
  <2>3. Words(data) = (m + 1) \div 2
    BY <1>8, Zenon DEF Words
  <2> QED
    BY <2>2, <2>3, WordBits
<1>10. WordAt(data, k + 1) = 0
  <2>1. Octet(data, i) = data[i] /\ Octet(data, i + 1) = data[i + 1]
    <3>1. i <= m /\ i + 1 <= m
      BY <1>5, <1>8 DEF PairAt
    <3> QED
      BY <1>8, <3>1, Zenon DEF Octet
  <2>2. 2 * (k + 1) - 1 = i /\ 2 * (k + 1) = i + 1
    BY <1>4
  <2>3. WordAt(data, k + 1) = 256 * data[i] + data[i + 1]
    BY <2>1, <2>2, Zenon DEF WordAt
  <2>4. Word(data, 2 * k) = 256 * data[i] + data[i + 1]
    BY <1>4, Zenon DEF Word
  <2>5. Word(data, 2 * k) = 0
    BY Zenon DEF Cleared
  <2> QED
    BY <2>3, <2>4, <2>5, Zenon
<1>11. WordSum(new) = WordSum(data) + c
  <2> QED
    BY <1>7, <1>9, <1>10, SumsDiffer
<1>12. Verifies(new)
  BY <1>1, <1>2, <1>11 DEF Verifies
<1> QED
  BY <1>12 DEF new

=============================================================================
