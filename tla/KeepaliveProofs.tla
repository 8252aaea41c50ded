--------------------------- MODULE KeepaliveProofs ---------------------------
(***************************************************************************)
(* Theorems about module Keepalive, for every number of senders and every  *)
(* limit: type correctness, what the list of unreplied requests holds, and *)
(* when the echo thread closes the datapath.                               *)
(***************************************************************************)
EXTENDS Keepalive, SequenceLemmas, SequenceTheorems

\* A thread between the read of self.xid and the return of set_xid.
Within(t) == pc[t] \in {"store", "mark", "return"}

\* As long as no two threads were in set_xid at once there is at most one,
\* self.xid is what it marked its message with, and returned what it marked.
Alone ==
    ~raced =>
        /\ \A t, u \in Caller : Within(t) /\ Within(u) => t = u
        /\ \A t \in Caller : pc[t] = "return" => xid = msgXid[t]
        /\ \A t \in Caller : pc[t] \in {"append", "queue"} => returned[t] = msgXid[t]

\* The list, while the channel is open.
Listed ==
    ~raced /\ open =>
        unreplied = IF pc["echo"] = "queue" THEN Append(flight, msgXid["echo"])
                                            ELSE flight

\* An interval that ended with too many in flight was noted, and the loop is
\* left only then.
Counted ==
    ~raced /\ open /\ ~late =>
        /\ pc["echo"] = "check" => Len(flight) <= MaxUnreplied
        /\ pc["echo"] # "close"

\* The inductive invariant.
KInv == TypeOK /\ Alone /\ Listed /\ Counted

-----------------------------------------------------------------------------
(* Removing from the list *)

\* The first place of an entry that is in a sequence.
LEMMA FirstPlace ==
  ASSUME NEW S, NEW s \in Seq(S), NEW e, NEW k \in 1 .. Len(s), s[k] = e
  PROVE  \E n \in 1 .. k : s[n] = e /\ RemoveFirst(s, e) = RemoveAt(s, n)
  <1> DEFINE I == { i \in 1 .. Len(s) : s[i] = e }
  <1>1. I # {} /\ I \in SUBSET Nat /\ k \in I
    OBVIOUS
  <1>2. \E n \in I : \A m \in I : n <= m
    BY <1>1, Least
  <1>3. RemoveFirst(s, e) = RemoveAt(s, Min(I))
    BY <1>1 DEF RemoveFirst, SelectInSeq
  <1>4. Min(I) \in I /\ \A m \in I : Min(I) <= m
    BY <1>2 DEF Min
  <1>5. PICK n : n = Min(I)
    OBVIOUS
  <1>6. n \in I /\ n <= k
    BY <1>1, <1>4, <1>5
  <1>7. n \in 1 .. k /\ s[n] = e
    BY <1>6
  <1> QED
    BY <1>3, <1>5, <1>7

\* Removing the first of an entry leaves a list of the same kind ...
LEMMA RemoveFirstType ==
  ASSUME NEW S, NEW s \in Seq(S), NEW e
  PROVE  RemoveFirst(s, e) \in Seq(S)
  <1>1. CASE \E i \in 1 .. Len(s) : s[i] = e
    <2>1. PICK n \in 1 .. Len(s) : RemoveFirst(s, e) = RemoveAt(s, n)
      BY <1>1, FirstPlace
    <2>2. SubSeq(s, 1, n - 1) \in Seq(S) /\ SubSeq(s, n + 1, Len(s)) \in Seq(S)
      BY SubSeqProperties
    <2> QED
      BY <2>1, <2>2, ConcatProperties DEF RemoveAt
  <1>2. CASE ~\E i \in 1 .. Len(s) : s[i] = e
    BY <1>2 DEF RemoveFirst
  <1> QED
    BY <1>1, <1>2

\* ... and removing the head leaves the tail.
LEMMA RemoveHead ==
  ASSUME NEW S, NEW s \in Seq(S), s # <<>>
  PROVE  RemoveFirst(s, Head(s)) = Tail(s)
  <1>1. Len(s) \in Nat \ {0} /\ Head(s) = s[1]
    BY HeadAndTail
  <1>2. RemoveFirst(s, Head(s)) = RemoveAt(s, 1)
    BY <1>1, FirstPlace
  <1>3. SubSeq(s, 1, 0) = <<>> /\ SubSeq(s, 2, Len(s)) = Tail(s)
    BY <1>1, SubSeqEmpty, TailIsSubSeq
  <1> QED
    BY <1>2, <1>3, ConcatEmptySeq, HeadAndTail DEF RemoveAt

-----------------------------------------------------------------------------
(* Every step keeps the parts of the invariant                              *)

\* What is in flight is acknowledged from its head, in both lists.
LEMMA AcknowledgeForm ==
  ASSUME TypeOK, Acknowledge
  PROVE  /\ unreplied' \in Seq(Xid) /\ flight' \in Seq(Xid)
         /\ Len(flight') <= Len(flight)
         /\ unreplied = flight => unreplied' = flight'
         /\ \A x \in Xid : unreplied = Append(flight, x) => unreplied' = Append(flight', x)
         /\ UNCHANGED <<xid, open, stopped, locals, sends, env>>
  <1>1. /\ unreplied \in Seq(Xid) /\ flight \in Seq(Xid) /\ flight # <<>>
        /\ unreplied' = RemoveFirst(unreplied, Head(flight))
        /\ flight' = Tail(flight)
        /\ UNCHANGED <<xid, open, stopped, locals, sends, env>>
    BY DEF TypeOK, Acknowledge
  <1>2. unreplied' \in Seq(Xid) /\ flight' \in Seq(Xid) /\ Len(flight') <= Len(flight)
    BY <1>1, RemoveFirstType, HeadAndTail
  <1>3. unreplied = flight => unreplied' = flight'
    BY <1>1, RemoveHead
  <1>4. ASSUME NEW x \in Xid, unreplied = Append(flight, x)
        PROVE  unreplied' = Append(flight', x)
    <2>1. /\ Append(flight, x) \in Seq(Xid) /\ Append(flight, x) # <<>>
          /\ Head(Append(flight, x)) = Head(flight)
          /\ Tail(Append(flight, x)) = Append(Tail(flight), x)
      BY <1>1
    <2> QED
      BY <1>1, <1>4, <2>1, RemoveHead
  <1> QED
    BY <1>1, <1>2, <1>3, <1>4

\* Every step keeps the types.
LEMMA TypesStep ==
  ASSUME TypeOK, Next PROVE TypeOK'
  <1>1. ASSUME NEW t \in Caller, SetXid(t) PROVE TypeOK'
    <2>1. xid' \in Xid
      <3>1. CASE StoreXid(t)
        <4>1. reg[t] \in 0 .. MaxXid /\ MaxXid \in Nat
          BY KeepaliveAssumption DEF TypeOK, Xid
        <4>2. (reg[t] + 1) % (MaxXid + 1) \in 0 .. MaxXid
          BY <4>1
        <4> QED
          BY <3>1, <4>2 DEF StoreXid, Xid
      <3>2. CASE ~StoreXid(t)
        BY <1>1, <3>2 DEF SetXid, ReadXid, MarkMsg, ReturnXid, TypeOK
      <3> QED
        BY <3>1, <3>2
    <2>2. raced' \in BOOLEAN
      BY <1>1 DEF SetXid, ReadXid, StoreXid, MarkMsg, ReturnXid, TypeOK, env
    <2> QED
      BY <1>1, <2>1, <2>2 DEF SetXid, ReadXid, StoreXid, MarkMsg, ReturnXid, Step,
         TypeOK, env
  <1>2. ASSUME NEW s \in Sender, SendMsg(s) PROVE TypeOK'
    BY <1>2 DEF SendMsg, Step, TypeOK, Caller, env
  <1>3. CASE EchoCheck \/ EchoClose
    BY <1>3 DEF EchoCheck, EchoClose, Step, TypeOK, env
  <1>4. CASE EchoAppend
    <2>1. Append(unreplied, returned["echo"]) \in Seq(Xid)
      BY AppendEntries DEF TypeOK, Caller
    <2> QED
      BY <1>4, <2>1 DEF EchoAppend, Step, TypeOK, env
  <1>5. CASE EchoQueue
    <2>1. Append(flight, msgXid["echo"]) \in Seq(Xid)
      BY AppendEntries DEF TypeOK, Caller
    <2> QED
      BY <1>5, <2>1 DEF EchoQueue, Step, TypeOK, env
  <1>6. CASE EchoWait
    <2>1. late' \in BOOLEAN
      BY <1>6 DEF EchoWait, TypeOK
    <2> QED
      BY <1>6, <2>1 DEF EchoWait, Step, TypeOK
  <1>7. CASE Acknowledge
    BY <1>7, AcknowledgeForm DEF TypeOK, locals, env
  <1>8. CASE GoSilent \/ Close \/ WriterExit
    BY <1>8 DEF GoSilent, Close, WriterExit, TypeOK, locals, env
  <1> QED
    BY <1>1, <1>2, <1>3, <1>4, <1>5, <1>6, <1>7, <1>8 DEF Next, Echo, Caller

\* A step of set_xid, of any thread.
LEMMA SetXidForm ==
  ASSUME TypeOK, NEW t \in Caller, SetXid(t)
  PROVE  /\ UNCHANGED <<unreplied, open, stopped, flight, sends, silent, late>>
         /\ pc[t] \in {"read", "store", "mark", "return"}
         /\ pc'[t] \in {"store", "mark", "return", "append", "queue"}
         /\ pc'[t] = "queue" => t # "echo"
         /\ \A u \in Caller \ {t} : pc'[u] = pc[u]
         /\ raced => raced'
  BY DEF SetXid, ReadXid, StoreXid, MarkMsg, ReturnXid, Step, TypeOK, env

\* Every step keeps Alone.
LEMMA AloneStep ==
  ASSUME KInv, Next PROVE Alone'
  <1>1. TypeOK /\ Alone
    BY DEF KInv
  <1>2. CASE /\ UNCHANGED <<xid, msgXid, returned, raced>>
             /\ \A t \in Caller : /\ Within(t)' => Within(t)
                                  /\ pc'[t] = "return" => pc[t] = "return"
                                  /\ pc'[t] \in {"append", "queue"}
                                       => pc[t] \in {"append", "queue"}
    BY <1>1, <1>2 DEF Alone
  <1>3. ASSUME NEW t \in Caller, SetXid(t) PROVE Alone'
    <2>1. CASE ReadXid(t)
      BY <1>1, <2>1 DEF ReadXid, Step, Alone, Within, TypeOK
    <2>2. CASE StoreXid(t)
      BY <1>1, <2>2 DEF StoreXid, Step, Alone, Within, TypeOK, env
    <2>3. CASE MarkMsg(t)
      BY <1>1, <2>3 DEF MarkMsg, Step, Alone, Within, TypeOK, env
    <2>4. CASE ReturnXid(t)
      BY <1>1, <2>4 DEF ReturnXid, Step, Alone, Within, TypeOK, env
    <2> QED
      BY <1>3, <2>1, <2>2, <2>3, <2>4 DEF SetXid
  <1>4. ASSUME NEW s \in Sender, SendMsg(s) PROVE Alone'
    BY <1>1, <1>2, <1>4 DEF SendMsg, Step, Within, TypeOK, Caller, env
  <1>5. CASE EchoCheck \/ EchoAppend \/ EchoQueue \/ EchoWait \/ EchoClose
    BY <1>1, <1>2, <1>5 DEF EchoCheck, EchoAppend, EchoQueue, EchoWait, EchoClose,
       Step, Within, TypeOK, Caller, env
  <1>6. CASE Acknowledge \/ GoSilent \/ Close \/ WriterExit
    BY <1>1, <1>2, <1>6 DEF Acknowledge, GoSilent, Close, WriterExit, Within, locals, env
  <1> QED
    BY <1>3, <1>4, <1>5, <1>6 DEF Next, Echo, Caller

\* Every step keeps Listed.
LEMMA ListedStep ==
  ASSUME KInv, Next PROVE Listed' /\ Counted'
  <1>1. /\ TypeOK /\ Alone /\ Listed /\ Counted /\ "echo" \in Caller
        /\ "echo" \notin Sender /\ msgXid["echo"] \in Xid
    BY KeepaliveAssumption DEF KInv, TypeOK, Caller
  <1>2. ASSUME NEW t \in Caller, SetXid(t) PROVE Listed' /\ Counted'
    <2>1. \/ pc'["echo"] \notin {"queue", "check", "close"}
          \/ pc'["echo"] = pc["echo"] /\ t # "echo"
      BY <1>1, <1>2, SetXidForm
    <2>2. t # "echo" => msgXid'["echo"] = msgXid["echo"]
      BY <1>1, <1>2 DEF SetXid, ReadXid, StoreXid, MarkMsg, ReturnXid, TypeOK
    <2>3. pc["echo"] = "queue" => t # "echo"
      BY <1>1, <1>2, SetXidForm
    <2> QED
      BY <1>1, <1>2, <2>1, <2>2, <2>3, SetXidForm DEF Listed, Counted
  <1>3. ASSUME NEW s \in Sender, SendMsg(s) PROVE Listed' /\ Counted'
    <2>1. pc'["echo"] = pc["echo"]
      BY <1>1, <1>3 DEF SendMsg, Step, TypeOK, Caller
    <2> QED
      BY <1>1, <1>3, <2>1 DEF SendMsg, Listed, Counted, env
  <1>4. CASE EchoCheck
    <2>1. /\ UNCHANGED <<unreplied, open, flight, msgXid, late, raced>>
          /\ pc["echo"] = "check"
          /\ pc'["echo"] = IF open /\ Len(unreplied) <= MaxUnreplied
                             THEN "read" ELSE "close"
      BY <1>1, <1>4 DEF EchoCheck, Step, TypeOK, env
    <2> QED
      BY <1>1, <2>1 DEF Listed, Counted
  <1>5. CASE EchoAppend
    <2>1. /\ UNCHANGED <<open, flight, msgXid, late, raced>>
          /\ pc["echo"] = "append" /\ pc'["echo"] = "queue"
          /\ unreplied' = Append(unreplied, returned["echo"])
      BY <1>1, <1>5 DEF EchoAppend, Step, TypeOK, env
    <2> QED
      BY <1>1, <2>1 DEF Listed, Counted, Alone
  <1>6. CASE EchoQueue
    <2>1. /\ UNCHANGED <<open, unreplied, msgXid, late, raced>>
          /\ pc["echo"] = "queue" /\ pc'["echo"] = "wait"
          /\ flight' = IF open THEN Append(flight, msgXid["echo"]) ELSE flight
      BY <1>1, <1>6 DEF EchoQueue, Step, TypeOK, env
    <2> QED
      BY <1>1, <2>1 DEF Listed, Counted
  <1>7. CASE EchoWait
    <2>1. /\ UNCHANGED <<open, unreplied, flight, msgXid, raced>>
          /\ pc["echo"] = "wait"
          /\ \/ /\ pc'["echo"] = "check"
                /\ Len(flight) > MaxUnreplied => late'
             \/ pc'["echo"] = "done"
      BY <1>1, <1>7 DEF EchoWait, Step, TypeOK
    <2>2. ASSUME pc'["echo"] = "check", ~late' PROVE Len(flight) <= MaxUnreplied
      <3>1. Len(flight) \in Nat /\ MaxUnreplied \in Nat
        BY KeepaliveAssumption, <1>1 DEF TypeOK
      <3>2. ~(Len(flight) > MaxUnreplied)
        BY <2>1, <2>2
      <3> QED
        BY <3>1, <3>2
    <2> QED
      BY <1>1, <2>1, <2>2 DEF Listed, Counted
  <1>8. CASE EchoClose
    <2>1. /\ UNCHANGED <<open, unreplied, flight, msgXid, raced, late>>
          /\ pc["echo"] = "close" /\ pc'["echo"] = "done"
      BY <1>1, <1>8 DEF EchoClose, Step, TypeOK, env
    <2> QED
      BY <1>1, <2>1 DEF Listed, Counted
  <1>9. CASE Acknowledge
    <2>1. /\ Len(flight') <= Len(flight) /\ flight' \in Seq(Xid) /\ flight \in Seq(Xid)
          /\ unreplied = flight => unreplied' = flight'
          /\ unreplied = Append(flight, msgXid["echo"])
               => unreplied' = Append(flight', msgXid["echo"])
          /\ UNCHANGED <<open, pc, msgXid, late, raced>>
      BY <1>1, <1>9, AcknowledgeForm DEF locals, env, TypeOK
    <2>2. Len(flight') \in Nat /\ Len(flight) \in Nat /\ MaxUnreplied \in Nat
      BY <2>1, KeepaliveAssumption
    <2> QED
      BY <1>1, <2>1, <2>2 DEF Listed, Counted
  <1>10. CASE GoSilent \/ Close \/ WriterExit
    BY <1>1, <1>10 DEF GoSilent, Close, WriterExit, Listed, Counted, locals, env
  <1> QED
    BY <1>1, <1>2, <1>3, <1>4, <1>5, <1>6, <1>7, <1>8, <1>9, <1>10 DEF Next, Echo, Caller

\* The invariant holds initially, and every step preserves it.
LEMMA KInvInit == Init => KInv
  <1> SUFFICES ASSUME Init PROVE KInv
    OBVIOUS
  <1>1. MaxXid \in Nat /\ MaxUnreplied \in Nat /\ 0 \in Xid /\ "echo" \in Caller
    BY KeepaliveAssumption DEF Xid, Caller
  <1>2. TypeOK
    <2>1. /\ stopped \in BOOLEAN /\ open \in BOOLEAN
          /\ silent \in BOOLEAN /\ late \in BOOLEAN /\ raced \in BOOLEAN
      BY DEF Init
    <2>2. /\ xid \in Xid /\ unreplied \in Seq(Xid) /\ flight \in Seq(Xid)
          /\ reg \in [Caller -> Xid] /\ msgXid \in [Caller -> Xid]
          /\ returned \in [Caller -> Xid] /\ sends \in [Sender -> Nat]
          /\ pc \in [Caller -> {"idle", "check", "read", "store", "mark", "return",
                                "append", "queue", "wait", "close", "done"}]
      BY <1>1 DEF Init
    <2> QED
      BY <2>1, <2>2 DEF TypeOK
  <1>3. \A t \in Caller : pc[t] \in {"check", "idle"}
    BY DEF Init
  <1>4. Alone
    BY <1>3 DEF Alone, Within
  <1>5. Listed /\ Counted
    BY <1>1, <1>3 DEF Init, Listed, Counted
  <1> QED
    BY <1>2, <1>4, <1>5 DEF KInv

\* Every step keeps the invariant.
LEMMA KInvStep == KInv /\ [Next]_vars => KInv'
  <1> SUFFICES ASSUME KInv, [Next]_vars PROVE KInv'
    OBVIOUS
  <1>1. CASE Next
    BY <1>1, TypesStep, AloneStep, ListedStep DEF KInv
  <1>2. CASE UNCHANGED vars
    BY <1>2 DEF KInv, TypeOK, Alone, Within, Listed, Counted, vars, locals, env
  <1> QED
    BY <1>1, <1>2

\* Every variable has its type in every reachable state; an xid stays below
\* the modulus.
THEOREM TypeCorrect == Spec => []TypeOK
  <1>1. KInv => TypeOK
    BY DEF KInv
  <1> QED
    BY <1>1, KInvInit, KInvStep, PTL DEF Spec

\* As long as no two threads were in set_xid at once it returns the id it put
\* on the message, and the list of unreplied requests holds those in flight
\* (set_xid, _echo_request_loop, acknowledge_echo_reply).
THEOREM ListHoldsFlight == Spec => []ListIsFlight
  <1>1. KInv => ListIsFlight
    BY DEF KInv, Alone, Listed, ListIsFlight
  <1> QED
    BY <1>1, KInvInit, KInvStep, PTL DEF Spec

\* The echo thread closes no datapath whose switch answers in time, unless
\* the writer has gone or two threads were in set_xid at once.
THEOREM PromptSwitchIsKept == Spec => []KeepsPromptSwitch
  <1>1. KInv => KeepsPromptSwitch
    BY DEF KInv, Counted, KeepsPromptSwitch
  <1> QED
    BY <1>1, KInvInit, KInvStep, PTL DEF Spec

=============================================================================
