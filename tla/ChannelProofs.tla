---------------------------- MODULE ChannelProofs ----------------------------
(***************************************************************************)
(* Theorems about module Channel, for every value of its constants: type   *)
(* correctness, the order in which serve shuts a connection down, the      *)
(* first message on the wire, what applications are told and in which      *)
(* order, the phases answers are stamped with, and the port list.          *)
(***************************************************************************)
EXTENDS Channel, SequenceLemmas, TLAPS

\* The labels of a thread inside set_state, and inside close.
InSetState == {"test", "assign", "tell"}
InClose == InSetState \cup {"stop", "sentinel"}

\* The labels each thread can be at.
LabelOf(t) ==
    CASE t = "recv" -> InClose \cup
            {"start", "loop", "read", "stamp", "absorb", "publish", "notify",
             "fail", "final", "join", "done"}
      [] t = "handler" -> InClose \cup {"idle", "send", "fail"}
      [] t = "echo" -> InClose \cup {"off", "loop", "wait", "done"}
      [] OTHER -> InClose \cup {"idle", "done"}

\* The phases each thread can be setting.
TargetOf(t) ==
    CASE t = "recv" -> {"MAIN", "DEAD"}
      [] t = "handler" -> {"CONFIG", "DEAD"}
      [] OTHER -> {"DEAD"}

\* Where each thread can go on after close().
BackOf(t) ==
    CASE t = "recv" -> {"final", "join", "done"}
      [] t = "handler" -> {"idle"}
      [] OTHER -> {"done"}

\* Where the threads are.
Control ==
    \A t \in Thread :
        /\ pc[t] \in LabelOf(t) /\ back[t] \in BackOf(t)
        /\ pc[t] \in InSetState => target[t] \in TargetOf(t)

\* What a thread takes the head of is not empty.
Loaded ==
    /\ (\/ pc["recv"] \in {"absorb", "publish", "notify"}
        \/ pc["recv"] \in InSetState /\ target["recv"] = "MAIN")
       => batch # <<>>
    /\ (\/ pc["handler"] = "send"
        \/ pc["handler"] \in InSetState /\ target["handler"] = "CONFIG")
       => out # <<>>

\* The inductive invariant behind TypeOK.
TInv == TypeOK /\ Control /\ Loaded

(***************************************************************************)
(* Lemmas about what the actions share.                                    *)
(***************************************************************************)

\* The head and the tail of a non-empty sequence.
LEMMA HeadTail ==
  ASSUME NEW S, NEW s \in Seq(S), s # <<>>
  PROVE  Head(s) \in S /\ Tail(s) \in Seq(S)
  OBVIOUS

\* The tail of a longer sequence is not empty.
LEMMA TailNonEmpty ==
  ASSUME NEW S, NEW s \in Seq(S), s # <<>>, Len(s) # 1
  PROVE  Tail(s) # <<>>
  <1>1. Len(s) \in Nat /\ Len(s) > 0
    OBVIOUS
  <1>2. Len(Tail(s)) = Len(s) - 1
    OBVIOUS
  <1>3. Len(Tail(s)) # 0 /\ Len(<<>>) = 0
    BY <1>1, <1>2
  <1> QED
    BY <1>3, Zenon

\* Append keeps the type of a sequence.
LEMMA AppendTyped ==
  ASSUME NEW S, NEW s \in Seq(S), NEW e \in S
  PROVE  Append(s, e) \in Seq(S)
  OBVIOUS

\* What is queued is an entry: send puts a message, close a sentinel.
LEMMA EntryForms ==
  /\ Sentinel \in Entry
  /\ \A m \in CtlMsg, b \in BOOLEAN : [buf |-> m, close |-> b] \in Entry
  /\ \A e \in Entry : e # Sentinel => e.buf \in CtlMsg /\ e.close \in BOOLEAN
  BY DEF Entry, Sentinel, CtlMsg

\* send() keeps the queue a sequence of entries.
LEMMA SendKeepsQueue ==
  ASSUME queue \in Seq(Entry), NEW m \in CtlMsg, NEW b \in BOOLEAN, Send(m, b)
  PROVE  queue' \in Seq(Entry) /\ open' = open
  <1>1. [buf |-> m, close |-> b] \in Entry
    BY EntryForms
  <1> QED
    BY <1>1 DEF Send

\* The fields of the messages _absorb and port_status_handler read.
LEMMA MsgFields ==
  \A m \in SwitchMsg :
    /\ m.type \in SwitchType
    /\ m.type = "Features" => m.id \in DpId
    /\ m.type = "PortDesc" => m.body \subseteq Port /\ m.more \in BOOLEAN
    /\ m.type = "PortStatus" => m.port \in Port
  BY DEF SwitchMsg, SwitchType

-----------------------------------------------------------------------------
(* Type correctness. TypeOK alone is not inductive: the head of batch is   *)
(* taken while the receive thread is inside _dispatch, the head of out     *)
(* while a handler sends, so which labels each thread can be at matters.   *)

\* The strengthened invariant holds initially.
THEOREM TInvInit == Init => TInv
  <1> SUFFICES ASSUME Init PROVE TInv
    OBVIOUS
  <1> USE DEF Init, Thread
  <1>1. TypeOK
    <2>1. told \in Seq(Event)
      BY DEF Event, Phase
    <2>2. /\ pc \in [Thread -> Label] /\ back \in [Thread -> Label]
          /\ target \in [Thread -> Phase]
      BY DEF Phase, Label
    <2>3. /\ queue \in Seq(Entry) /\ wire \in Seq(CtlMsg)
          /\ batch \in Seq(SwitchMsg) /\ out \in Seq(CtlMsg)
          /\ inbox \in Seq([msg : SwitchMsg, stamp : Phase])
      OBVIOUS
    <2>4. /\ state \in Phase /\ stamp \in Phase /\ id \in DpId \cup {NoId}
          /\ ports \subseteq Port /\ swPorts \subseteq Port
          /\ undescribed \subseteq Port
      BY DEF Phase
    <2> QED
      BY <2>1, <2>2, <2>3, <2>4 DEF TypeOK
  <1>2. Control
    BY DEF Control, LabelOf, BackOf, TargetOf, InClose, InSetState
  <1>3. Loaded
    BY DEF Loaded, InSetState
  <1> QED
    BY <1>1, <1>2, <1>3 DEF TInv

\* The steps of the writer.
LEMMA TInvWriter == TInv /\ Writer => TInv'
  <1> SUFFICES ASSUME TInv, Writer PROVE TInv'
    OBVIOUS
  <1>1. queue # <<>> /\ queue' = Tail(queue) /\ queue \in Seq(Entry)
    BY DEF TInv, TypeOK, Writer, Write, WriteFails, WriterStops
  <1>2. Head(queue) \in Entry /\ queue' \in Seq(Entry)
    BY <1>1, HeadTail
  <1>3. wire' \in Seq(CtlMsg)
    <2>1. CASE Write
      <3>1. Head(queue).buf \in CtlMsg
        BY <2>1, <1>2, EntryForms DEF Write
      <3> QED
        BY <2>1, <3>1 DEF Write, TInv, TypeOK
    <2>2. CASE WriteFails \/ WriterStops
      BY <2>2 DEF WriteFails, WriterStops, TInv, TypeOK
    <2> QED
      BY <2>1, <2>2 DEF Writer
  <1>4. TypeOK'
    BY <1>2, <1>3 DEF TInv, TypeOK, Writer, Write, WriteFails, WriterStops,
       WriterExit, dpVars, threadVars, recvVars, appVars, switchVars
  <1>5. Control' /\ Loaded'
    BY DEF TInv, Control, Loaded, Writer, Write, WriteFails, WriterStops,
       threadVars, recvVars, appVars
  <1> QED
    BY <1>4, <1>5 DEF TInv

\* The steps of set_state and close, whichever thread runs them.
LEMMA TInvSetStateOrClose ==
  ASSUME NEW t \in Thread, TInv, SetStateOrClose(t) PROVE TInv'
  <1> USE DEF TInv, TypeOK, Control, Loaded, LabelOf, BackOf, TargetOf,
      InClose, InSetState, Phase, Thread, Label, dpVars, sendVars, sockVars,
      threadVars, recvVars, appVars, switchVars, rest, Goto
  <1>1. CASE Test(t)
    BY <1>1 DEF Test, Jump, AfterSetState
  <1>2. CASE Assign(t)
    BY <1>2 DEF Assign
  <1>3. CASE Tell(t)
    BY <1>3 DEF Tell, AfterSetState, Event
  <1>4. CASE Stop(t)
    BY <1>4 DEF Stop, CallSetState
  <1>5. CASE PutSentinel(t)
    <2>1. queue' \in Seq(Entry)
      BY <1>5, EntryForms DEF PutSentinel
    <2> QED
      BY <1>5, <2>1 DEF PutSentinel
  <1> QED
    BY <1>1, <1>2, <1>3, <1>4, <1>5 DEF SetStateOrClose

\* The steps of serve and of the receive loop.
LEMMA TInvReceiver == TInv /\ Receiver => TInv'
  <1> SUFFICES ASSUME TInv, Receiver PROVE TInv'
    OBVIOUS
  <1> USE DEF TInv, TypeOK, Control, Loaded, LabelOf, BackOf, TargetOf,
      InClose, InSetState, Phase, Thread, Label, dpVars, sendVars, sockVars,
      threadVars, recvVars, appVars, switchVars, rest, Goto
  <1>1. CASE Serve
    <2>1. queue' \in Seq(Entry) /\ open' = open
      BY <1>1, SendKeepsQueue DEF Serve, CtlMsg
    <2> HIDE DEF TypeOK
    <2>2. TypeOK'
      BY <1>1, <2>1 DEF TypeOK, Serve
    <2>3. Control'
      BY <1>1 DEF TypeOK, Serve
    <2>4. Loaded'
      BY <1>1 DEF TypeOK, Serve
    <2> QED
      BY <2>2, <2>3, <2>4
  <1>2. CASE LoopTest \/ Timeout \/ BatchDone
    <2>1. PICK l \in {"final", "read", "loop"} : Jump("recv", l)
      BY <1>2 DEF LoopTest, Timeout, BatchDone
    <2> HIDE DEF TypeOK
    <2>2. TypeOK'
      BY <2>1 DEF TypeOK, Jump
    <2>3. Control' /\ Loaded'
      BY <2>1 DEF TypeOK, Jump
    <2> QED
      BY <2>2, <2>3
  <1>3. CASE Parse
    <2>1. CASE \E i \in DOMAIN batch : batch[i].type = "BadVersion"
      <3>1. batch' = <<>> /\ pc' = [pc EXCEPT !["recv"] = "fail"]
        BY <1>3, <2>1 DEF Parse
      <3> QED
        BY <1>3, <3>1 DEF Parse
    <2>2. CASE ~\E i \in DOMAIN batch : batch[i].type = "BadVersion"
      <3>1. batch' = batch /\ pc' = [pc EXCEPT !["recv"] = "stamp"]
        BY <1>3, <2>2 DEF Parse
      <3> QED
        BY <1>3, <3>1 DEF Parse
    <2> QED
      BY <2>1, <2>2
  <1>4. CASE Stamp
    BY <1>4 DEF Stamp
  <1>5. CASE Absorb
    <2>1. Head(batch) \in SwitchMsg
      BY <1>5, HeadTail DEF Absorb
    <2>2. id' \in DpId \cup {NoId} /\ ports' \subseteq Port
      BY <1>5, <2>1, MsgFields DEF Absorb
    <2>3. batch # <<>>
      BY <1>5 DEF Absorb
    <2> HIDE DEF TypeOK
    <2>4. TypeOK'
      BY <1>5, <2>2 DEF TypeOK, Absorb, CallSetState
    <2>5. Control'
      BY <1>5 DEF TypeOK, Absorb, CallSetState
    <2>6. Loaded'
      BY <1>5, <2>3 DEF TypeOK, Absorb, CallSetState
    <2> QED
      BY <2>4, <2>5, <2>6
  <1>6. CASE Publish
    <2>1. Head(batch) \in SwitchMsg /\ batch # <<>>
      BY <1>6, HeadTail DEF Publish
    <2>2. inbox' \in Seq([msg : SwitchMsg, stamp : Phase])
      <3>1. [msg |-> Head(batch), stamp |-> stamp]
              \in [msg : SwitchMsg, stamp : Phase]
        BY <2>1
      <3>2. Append(inbox, [msg |-> Head(batch), stamp |-> stamp])
              \in Seq([msg : SwitchMsg, stamp : Phase])
        BY <3>1, AppendTyped
      <3> QED
        BY <1>6, <3>2 DEF Publish
    <2> QED
      BY <1>6, <2>1, <2>2 DEF Publish
  <1>7. CASE Notify
    <2>1. Head(batch) \in SwitchMsg /\ batch' \in Seq(SwitchMsg)
      BY <1>7, HeadTail DEF Notify
    <2>2. told' \in Seq(Event)
      BY <1>7, <2>1 DEF Notify, Event
    <2> QED
      BY <1>7, <2>1, <2>2 DEF Notify
  <1>8. CASE HelloFailed("recv", "final")
    <2>1. queue' \in Seq(Entry) /\ open' = open
      BY <1>8, SendKeepsQueue DEF HelloFailed, CtlMsg
    <2> QED
      BY <1>8, <2>1 DEF HelloFailed, CallClose
  <1>9. CASE Final
    BY <1>9 DEF Final, CallClose
  <1>10. CASE Join
    BY <1>10 DEF Join, CallClose
  <1>11. CASE SetStateOrClose("recv")
    BY <1>11, TInvSetStateOrClose
  <1> QED
    BY <1>1, <1>2, <1>3, <1>4, <1>5, <1>6, <1>7, <1>8, <1>9, <1>10, <1>11
       DEF Receiver

\* The steps of the echo thread and of another closer.
LEMMA TInvEchoCloser == TInv /\ (Echo \/ Closer) => TInv'
  <1> SUFFICES ASSUME TInv, Echo \/ Closer PROVE TInv'
    OBVIOUS
  <1> USE DEF TInv, TypeOK, Control, Loaded, LabelOf, BackOf, TargetOf,
      InClose, InSetState, Phase, Thread, Label, dpVars, sendVars, sockVars,
      threadVars, recvVars, appVars, switchVars, rest, Goto
  <1>1. CASE EchoDisabled \/ EchoWait
    BY <1>1 DEF EchoDisabled, EchoWait, Jump
  <1>2. CASE EchoSend
    <2>1. queue' \in Seq(Entry) /\ open' = open
      BY <1>2, SendKeepsQueue DEF EchoSend, CtlMsg
    <2> QED
      BY <1>2, <2>1 DEF EchoSend
  <1>3. CASE EchoGivesUp \/ ClosedByOther
    BY <1>3 DEF EchoGivesUp, ClosedByOther, CallClose
  <1>4. CASE SetStateOrClose("echo") \/ SetStateOrClose("closer")
    BY <1>4, TInvSetStateOrClose
  <1> QED
    BY <1>1, <1>2, <1>3, <1>4 DEF Echo, Closer

\* The steps of OFPHandler's dispatch thread.
LEMMA TInvHandler == TInv /\ Handler => TInv'
  <1> SUFFICES ASSUME TInv, Handler PROVE TInv'
    OBVIOUS
  <1> USE DEF TInv, TypeOK, Control, Loaded, LabelOf, BackOf, TargetOf,
      InClose, InSetState, Phase, Thread, Label, dpVars, sendVars, sockVars,
      threadVars, recvVars, appVars, switchVars, rest, Goto
  <1>1. CASE HelloHandler
    BY <1>1 DEF HelloHandler, Arrives, CallSetState, CtlMsg
  <1>2. CASE BadHelloHandler
    BY <1>2 DEF BadHelloHandler, Arrives
  <1>3. CASE DropEvent
    BY <1>3 DEF DropEvent, Arrives
  <1>8. CASE SwitchFeaturesHandler
    BY <1>8 DEF SwitchFeaturesHandler, Arrives, CtlMsg
  <1>9. CASE EchoRequestHandler
    BY <1>9 DEF EchoRequestHandler, Arrives, CtlMsg
  <1>4. CASE PortStatusHandler
    <2>1. /\ inbox # <<>> /\ inbox' = Tail(inbox)
          /\ Head(inbox).msg.type = "PortStatus"
      BY <1>4 DEF PortStatusHandler, Arrives
    <2>2. /\ Head(inbox) \in [msg : SwitchMsg, stamp : Phase]
          /\ inbox' \in Seq([msg : SwitchMsg, stamp : Phase])
      BY <2>1, HeadTail
    <2>3. Head(inbox).msg.port \in Port
      BY <2>1, <2>2, MsgFields
    <2>4. ports' \subseteq Port /\ told' \in Seq(Event)
      <3>1. [portChange |-> Head(inbox).msg.port, stamp |-> state] \in Event
        BY <2>3 DEF Event
      <3>2. told' \in Seq(Event)
        <4>1. Append(told, [portChange |-> Head(inbox).msg.port,
                            stamp |-> state]) \in Seq(Event)
          BY <3>1, AppendTyped
        <4> QED
          BY <1>4, <4>1 DEF PortStatusHandler
      <3>3. ports' \subseteq Port
        BY <1>4, <2>3 DEF PortStatusHandler
      <3> QED
        BY <3>2, <3>3
    <2> QED
      BY <1>4, <2>2, <2>4 DEF PortStatusHandler
  <1>5. CASE HandlerSends
    <2>1. Head(out) \in CtlMsg /\ out' \in Seq(CtlMsg)
      BY <1>5, HeadTail DEF HandlerSends
    <2>2. queue' \in Seq(Entry) /\ open' = open
      BY <1>5, <2>1, SendKeepsQueue DEF HandlerSends
    <2>3. Len(out) # 1 /\ out # <<>> => Tail(out) # <<>>
      BY TailNonEmpty
    <2> HIDE DEF TypeOK
    <2>4. TypeOK'
      BY <1>5, <2>1, <2>2 DEF TypeOK, HandlerSends
    <2>5. Control'
      BY <1>5 DEF TypeOK, HandlerSends
    <2>6. Loaded'
      BY <1>5, <2>3 DEF TypeOK, HandlerSends
    <2> QED
      BY <2>4, <2>5, <2>6
  <1>6. CASE HelloFailed("handler", "idle")
    <2>1. queue' \in Seq(Entry) /\ open' = open
      BY <1>6, SendKeepsQueue DEF HelloFailed, CtlMsg
    <2> QED
      BY <1>6, <2>1 DEF HelloFailed, CallClose
  <1>7. CASE SetStateOrClose("handler")
    BY <1>7, TInvSetStateOrClose
  <1> QED
    BY <1>1, <1>2, <1>3, <1>4, <1>5, <1>6, <1>7, <1>8, <1>9 DEF Handler

\* What the switch does.
LEMMA TInvSwitch == TInv /\ Switch => TInv'
  <1> SUFFICES ASSUME TInv, Switch PROVE TInv'
    OBVIOUS
  <1> USE DEF TInv, TypeOK, Control, Loaded, LabelOf, BackOf, TargetOf,
      InClose, InSetState, Phase, Thread, Label, dpVars, sendVars, sockVars,
      threadVars, recvVars, appVars, switchVars, rest, Goto
  <1>1. CASE Disconnect
    BY <1>1 DEF Disconnect, Jump
  <1>2. ASSUME NEW m \in SwitchMsg, Arrive(m) PROVE TInv'
    <2>1. /\ swPorts' \subseteq Port /\ undescribed' \subseteq Port
          /\ sent' \subseteq SwitchType \cup {"PortDescPart"}
      BY <1>2, MsgFields DEF Arrive, ToDescribe
    <2> HIDE DEF TypeOK
    <2>2. TypeOK'
      BY <1>2, <2>1 DEF TypeOK, Arrive
    <2>3. Control'
      BY <1>2 DEF TypeOK, Arrive
    <2>4. Loaded'
      <3>1. batch' # <<>>
        BY <1>2 DEF TypeOK, Arrive
      <3> QED
        BY <1>2, <3>1 DEF TypeOK, Arrive
    <2> QED
      BY <2>2, <2>3, <2>4
  <1> QED
    BY <1>1, <1>2 DEF Switch

\* Every step preserves it.
THEOREM TInvStep == TInv /\ [Next]_vars => TInv'
  <1> SUFFICES ASSUME TInv, [Next]_vars PROVE TInv'
    OBVIOUS
  <1>1. CASE UNCHANGED vars
    BY <1>1 DEF TInv, TypeOK, Control, Loaded, vars, dpVars, sendVars,
       sockVars, threadVars, recvVars, appVars, switchVars
  <1>2. CASE Next
    BY <1>2, TInvWriter, TInvReceiver, TInvEchoCloser, TInvHandler,
       TInvSwitch DEF Next
  <1> QED
    BY <1>1, <1>2

\* Every variable has its type in every reachable state, for any number of
\* messages, ports and echo requests.
THEOREM TypeCorrect == Spec => []TypeOK
  <1>1. TInv => TypeOK
    BY DEF TInv
  <1> QED
    BY <1>1, TInvInit, TInvStep, PTL DEF Spec

-----------------------------------------------------------------------------
(* The life of the writer. The socket is closed after Join, which waits    *)
(* for the writer and for the echo thread, and neither comes back.         *)

\* The writer starts with serve and drops the queue when it ends.
WriterState ==
    /\ writer = "done" <=> ~open
    /\ pc["recv"] = "start" <=> writer = "off"
    /\ writer = "off" => pc["echo"] = "off"
    /\ closed => writer = "done" /\ pc["echo"] = "done"

\* Every step preserves it.
LEMMA WriterStateStep == TInv /\ WriterState /\ [Next]_vars => WriterState'
  <1> SUFFICES ASSUME TInv, WriterState, [Next]_vars PROVE WriterState'
    OBVIOUS
  <1> USE DEF WriterState, dpVars, sendVars, sockVars, threadVars, recvVars,
      appVars, switchVars, rest, Goto
  <1>1. /\ \A t \in Thread : pc[t] \in LabelOf(t) /\ back[t] \in BackOf(t)
        /\ pc \in [Thread -> Label] /\ writer \in {"off", "run", "done"}
    BY DEF TInv, TypeOK, Control
  <1> USE DEF LabelOf, BackOf, InClose, InSetState, Thread
  <1>2. CASE Writer
    BY <1>1, <1>2 DEF Writer, Write, WriteFails, WriterStops, WriterExit
  <1>3. ASSUME NEW t \in Thread, SetStateOrClose(t) PROVE WriterState'
    <2>1. CASE Test(t)
      BY <1>1, <2>1 DEF Test, Jump, AfterSetState
    <2>2. CASE Assign(t) \/ Tell(t)
      BY <1>1, <2>2 DEF Assign, Tell, AfterSetState
    <2>3. CASE Stop(t)
      BY <1>1, <2>3 DEF Stop, CallSetState
    <2>4. CASE PutSentinel(t)
      BY <1>1, <2>4 DEF PutSentinel
    <2> QED
      BY <1>3, <2>1, <2>2, <2>3, <2>4 DEF SetStateOrClose
  <1>4. CASE Receiver
    <2>1. CASE Serve
      BY <1>1, <2>1 DEF Serve, Send
    <2>2. CASE LoopTest \/ Timeout \/ Parse \/ BatchDone
      BY <1>1, <2>2 DEF LoopTest, Timeout, Parse, BatchDone, Jump
    <2>3. CASE Stamp \/ Publish \/ Notify
      BY <1>1, <2>3 DEF Stamp, Publish, Notify
    <2>4. CASE Absorb
      BY <1>1, <2>4 DEF Absorb, CallSetState
    <2>5. CASE HelloFailed("recv", "final")
      BY <1>1, <2>5 DEF HelloFailed, Send, CallClose
    <2>6. CASE Final \/ Join
      BY <1>1, <2>6 DEF Final, Join, CallClose
    <2> QED
      BY <1>3, <1>4, <2>1, <2>2, <2>3, <2>4, <2>5, <2>6 DEF Receiver
  <1>5. CASE Echo
    <2>1. CASE EchoDisabled \/ EchoWait
      BY <1>1, <2>1 DEF EchoDisabled, EchoWait, Jump
    <2>2. CASE EchoSend \/ EchoGivesUp
      BY <1>1, <2>2 DEF EchoSend, EchoGivesUp, Send, CallClose
    <2> QED
      BY <1>3, <1>5, <2>1, <2>2 DEF Echo
  <1>6. CASE Handler
    <2>1. CASE HelloHandler \/ BadHelloHandler \/ SwitchFeaturesHandler
      BY <1>1, <2>1 DEF HelloHandler, BadHelloHandler, SwitchFeaturesHandler,
         Arrives, CallSetState
    <2>2. CASE EchoRequestHandler \/ PortStatusHandler \/ DropEvent
      BY <1>1, <2>2 DEF EchoRequestHandler, PortStatusHandler, DropEvent,
         Arrives
    <2>3. CASE HandlerSends \/ HelloFailed("handler", "idle")
      BY <1>1, <2>3 DEF HandlerSends, HelloFailed, Send, CallClose
    <2> QED
      BY <1>3, <1>6, <2>1, <2>2, <2>3 DEF Handler
  <1>7. CASE Closer
    <2>1. CASE ClosedByOther
      BY <1>1, <2>1 DEF ClosedByOther, CallClose
    <2> QED
      BY <1>3, <1>7, <2>1 DEF Closer
  <1>8. CASE Switch
    BY <1>1, <1>8 DEF Switch, Disconnect, Arrive, Jump
  <1>9. CASE UNCHANGED vars
    BY <1>9 DEF vars
  <1> QED
    BY <1>2, <1>4, <1>5, <1>6, <1>7, <1>8, <1>9 DEF Next

\* The socket is closed only when the writer and the echo thread are gone
\* (serve joins both before socket.close()).
THEOREM SocketClosedLast == Spec => []ClosedAfterWriter
  <1>1. Init => WriterState
    BY DEF Init, WriterState, Thread
  <1>2. WriterState => ClosedAfterWriter
    BY DEF WriterState, ClosedAfterWriter
  <1> QED
    BY <1>1, <1>2, TInvInit, TInvStep, WriterStateStep, PTL DEF Spec

-----------------------------------------------------------------------------
(* The hello. Until the writer has written it, it is the head of the       *)
(* queue: before serve queues it no other thread can act at all.           *)

\* Where the hello is.
HelloState ==
    /\ writer = "off" =>
         /\ queue = <<>> /\ wire = <<>> /\ inbox = <<>>
         /\ pc["handler"] = "idle" /\ pc["closer"] = "idle"
         /\ told = <<[phase |-> "HANDSHAKE"]>>
    /\ writer = "run" /\ wire = <<>> =>
         queue # <<>> /\ Head(queue) = [buf |-> "Hello", close |-> FALSE]
    /\ wire # <<>> => wire[1] = "Hello"

\* What is put behind the head of a queue leaves the head alone.
LEMMA HeadStays ==
  ASSUME NEW S, NEW s \in Seq(S), NEW e, s # <<>>
  PROVE  Append(s, e) # <<>> /\ Head(Append(s, e)) = Head(s)
  OBVIOUS

\* How a step may treat queue, wire and writer, once the writer runs.
LEMMA OnlyAppends ==
  ASSUME queue \in Seq(Entry), HelloState, writer # "off", UNCHANGED <<wire, writer>>,
         queue' = queue \/ \E e : queue' = Append(queue, e)
  PROVE  HelloState'
  BY HeadStays DEF HelloState

\* Every step preserves it: no other thread acts before Serve, and after it
\* nobody but the writer takes from the queue.
LEMMA HelloStateStep ==
  TInv /\ WriterState /\ HelloState /\ [Next]_vars => HelloState'
  <1> SUFFICES ASSUME TInv, WriterState, HelloState, [Next]_vars
               PROVE  HelloState'
    OBVIOUS
  <1> USE DEF dpVars, sendVars, sockVars, threadVars, recvVars, appVars,
      switchVars, rest, Goto
  <1>1. queue \in Seq(Entry) /\ wire \in Seq(CtlMsg)
    BY DEF TInv, TypeOK
  <1>2. CASE Writer
    <2>1. queue # <<>> /\ writer = "run"
      BY <1>2 DEF Writer, Write, WriteFails, WriterStops
    <2>2. CASE Write
      <3>1. wire' = Append(wire, Head(queue).buf)
        BY <2>2 DEF Write
      <3>2. wire = <<>> => Head(queue).buf = "Hello"
        BY <2>1 DEF HelloState
      <3>3. wire' # <<>> /\ wire'[1] = "Hello"
        BY <1>1, <3>1, <3>2 DEF HelloState
      <3>4. writer' # "off"
        BY <2>1, <2>2 DEF Write, WriterExit
      <3> QED
        BY <3>3, <3>4 DEF HelloState
    <2>3. CASE WriteFails \/ WriterStops
      <3>1. writer' = "done" /\ wire' = wire
        BY <2>3 DEF WriteFails, WriterStops, WriterExit
      <3> QED
        BY <3>1 DEF HelloState
    <2> QED
      BY <1>2, <2>2, <2>3 DEF Writer
  <1>3. CASE Serve
    <2>1. writer = "off" /\ open
      BY <1>3 DEF Serve, WriterState
    <2>2. queue' = Append(<<>>, [buf |-> "Hello", close |-> FALSE])
      BY <1>3, <2>1 DEF Serve, Send, HelloState
    <2>3. writer' = "run" /\ wire' = <<>>
      BY <1>3, <2>1 DEF Serve, HelloState
    <2> QED
      BY <2>2, <2>3 DEF HelloState
  <1>4. CASE Next /\ ~Writer /\ ~Serve
    <2>1. UNCHANGED <<wire, writer>>
      BY <1>4 DEF Next, Receiver, Echo, Handler, Closer, Switch,
         SetStateOrClose, Test, Assign, Tell, Stop, PutSentinel, LoopTest,
         Timeout, Parse, Stamp, BatchDone, Absorb, Publish, Notify,
         HelloFailed, Final, Join, EchoDisabled, EchoSend, EchoGivesUp,
         EchoWait, HelloHandler, BadHelloHandler, SwitchFeaturesHandler,
         EchoRequestHandler, PortStatusHandler, DropEvent, HandlerSends,
         ClosedByOther, Disconnect, Arrive, Jump
    <2>2. queue' = queue \/ \E e : queue' = Append(queue, e)
      BY <1>4 DEF Next, Receiver, Echo, Handler, Closer, Switch,
         SetStateOrClose, Test, Assign, Tell, Stop, PutSentinel, LoopTest,
         Timeout, Parse, Stamp, BatchDone, Absorb, Publish, Notify,
         HelloFailed, Final, Join, EchoDisabled, EchoSend, EchoGivesUp,
         EchoWait, HelloHandler, BadHelloHandler, SwitchFeaturesHandler,
         EchoRequestHandler, PortStatusHandler, DropEvent, HandlerSends,
         ClosedByOther, Disconnect, Arrive, Jump, Send
    <2>3. writer # "off"
      <3> SUFFICES ASSUME writer = "off" PROVE FALSE
        OBVIOUS
      <3>1. /\ pc["recv"] = "start" /\ pc["echo"] = "off"
            /\ pc["handler"] = "idle" /\ pc["closer"] = "idle"
            /\ inbox = <<>> /\ told = <<[phase |-> "HANDSHAKE"]>>
        BY DEF WriterState, HelloState
      <3>2. ~\E i \in DOMAIN told : told[i] = [phase |-> "MAIN"]
        BY <3>1
      <3> QED
        BY <1>4, <3>1, <3>2 DEF Next, Receiver, Echo, Handler, Closer, Switch,
         SetStateOrClose, Test, Assign, Tell, Stop, PutSentinel, LoopTest,
         Timeout, Parse, Stamp, BatchDone, Absorb, Publish, Notify,
         HelloFailed, Final, Join, EchoDisabled, EchoSend, EchoGivesUp,
         EchoWait, HelloHandler, BadHelloHandler, SwitchFeaturesHandler,
         EchoRequestHandler, PortStatusHandler, DropEvent, HandlerSends,
         ClosedByOther, Disconnect, Arrive, Arrives
    <2> QED
      BY <1>1, <2>1, <2>2, <2>3, OnlyAppends
  <1>5. CASE UNCHANGED vars
    BY <1>5 DEF vars, HelloState
  <1> QED
    BY <1>2, <1>3, <1>4, <1>5

\* Whatever the threads queue and however they interleave, the first message
\* on the wire is the hello.
THEOREM HelloGoesFirst == Spec => []HelloFirst
  <1>1. Init => WriterState /\ HelloState
    BY DEF Init, WriterState, HelloState, Thread
  <1>2. HelloState => HelloFirst
    BY DEF HelloState, HelloFirst
  <1> QED
    BY <1>1, <1>2, TInvInit, TInvStep, WriterStateStep, HelloStateStep, PTL
       DEF Spec

-----------------------------------------------------------------------------
(* The handshake with a switch that follows the protocol                    *)

FR == "FeaturesRequest"
PD == "PortDescStatsRequest"

\* A message to the switch is queued or written.
Sent(m) == OnWire(m) \/ Queued(m)

\* A running handler has still to send it.
Due(m) == \E i \in DOMAIN out : out[i] = m

\* The handler has a message of this type in its queue.
Inboxed(type) == \E i \in DOMAIN inbox : inbox[i].msg.type = type

\* The receive thread is at the head of the data it dispatches.
Entering == pc["recv"] \in InSetState /\ target["recv"] = "MAIN"
Dispatching == pc["recv"] \in {"absorb", "publish", "notify"} \/ Entering

ToldMain == \E i \in DOMAIN told : told[i] = [phase |-> "MAIN"]

\* Data is framed only while it is dispatched.
Framed == batch # <<>> => pc["recv"] \in {"read", "stamp"} \/ Dispatching

\* MAIN is entered by the receive thread, which tells of it before anything
\* can be stamped with it.
MainFirst ==
    /\ state = "MAIN" => ToldMain \/ (pc["recv"] = "tell" /\ Entering)
    /\ stamp = "MAIN" => ToldMain
    /\ \A i \in DOMAIN inbox : inbox[i].stamp = "MAIN" => ToldMain
    /\ \A i \in DOMAIN told :
          told[i] \notin [phase : Phase] /\ told[i].stamp = "MAIN"
          => \E j \in 1 .. i - 1 : told[j] = [phase |-> "MAIN"]

\* Features are asked for behind CONFIG, and come once.
FeaturesOnce ==
    /\ Sent(FR) => state # "HANDSHAKE"
    /\ Due(FR) => \/ state # "HANDSHAKE"
                  \/ pc["handler"] \in {"test", "assign"} /\ target["handler"] = "CONFIG"
    /\ "Features" \in sent => OnWire(FR)
    /\ \A i \in DOMAIN batch : batch[i].type = "Features" => "Features" \in sent
    /\ \A i, j \in DOMAIN batch :
          batch[i].type = "Features" /\ batch[j].type = "Features" => i = j

\* Ports are asked for once the features were published, so the id is known.
PortsAfterFeatures ==
    /\ Due(PD) \/ Sent(PD) \/ Inboxed("Features") =>
          /\ "Features" \in sent /\ id # NoId
          /\ \A i \in DOMAIN batch :
                batch[i].type = "Features" => i = 1 /\ pc["recv"] = "notify"
    /\ pc["recv"] \in {"publish", "notify"} /\ Head(batch).type = "Features" => id # NoId

\* The last part of the description comes last, and enters MAIN once.
DescribedOnce ==
    /\ sent \cap {"PortDesc", "PortDescPart"} # {} => OnWire(PD)
    /\ \A i \in DOMAIN batch : batch[i].type = "PortDesc" =>
          /\ sent \cap {"PortDesc", "PortDescPart"} # {}
          /\ ~batch[i].more => "PortDesc" \in sent
          /\ \A j \in DOMAIN batch : batch[j].type = "PortDesc" /\ i < j => batch[i].more
    /\ Entering \/ ToldMain =>
          /\ "PortDesc" \in sent
          /\ \A i \in DOMAIN batch : batch[i].type = "PortDesc" =>
                i = 1 /\ Dispatching /\ pc["recv"] # "absorb"

\* What is being dispatched was stamped with the phase that asked for it.
Stamped ==
    Dispatching /\ Head(batch).type \in {"Features", "PortDesc"}
    => stamp \in {"CONFIG", "DEAD"}

\* The inductive invariant of the handshake.
HInv == /\ TInv /\ Framed /\ MainFirst
        /\ FeaturesOnce /\ PortsAfterFeatures /\ DescribedOnce /\ Stamped

(***************************************************************************)
(* The steps that matter to the handshake. In all others nothing is        *)
(* dispatched, framed, told, stamped or asked for.                         *)
(***************************************************************************)
Quiet ==
    /\ UNCHANGED <<state, id, ports, stamp, told, sent, swPorts, wire, batch>>
    /\ \/ inbox' = inbox
       \/ /\ inbox # <<>> /\ inbox' = Tail(inbox)
          /\ Head(inbox).msg.type = "PortStatus" => Head(inbox).stamp # "MAIN"
    /\ out' = out \/ out' = <<"EchoReply">>
    /\ \/ queue' = queue
       \/ \E e \in Entry : e.buf \notin {FR, PD} /\ queue' = Append(queue, e)
    /\ \/ pc'["recv"] = pc["recv"] /\ target'["recv"] = target["recv"]
       \/ /\ pc["recv"] \notin InSetState \cup {"absorb", "publish", "notify"}
          /\ pc["recv"] \in {"read", "stamp"} => batch = <<>>
          /\ pc'["recv"] \notin {"absorb", "publish", "notify"}
          /\ pc'["recv"] \in InSetState => target'["recv"] = "DEAD"
          /\ pc'["recv"] \in {"start", "loop", "read", "stamp"} =>
                pc["recv"] \in {"start", "loop", "read", "stamp"}
    /\ \/ pc'["handler"] = pc["handler"] /\ target'["handler"] = target["handler"]
       \/ pc["handler"] \notin {"test", "assign"}

\* Every step is quiet or one of the named ones.
LEMMA StepKinds ==
  ASSUME TInv, [Next]_vars
  PROVE  \/ Quiet \/ Writer \/ Parse \/ Stamp \/ Absorb \/ Publish \/ Notify
         \/ \E t \in Thread : Test(t) \/ Assign(t) \/ Tell(t)
         \/ HelloHandler \/ SwitchFeaturesHandler \/ PortStatusHandler
         \/ HandlerSends \/ \E m \in SwitchMsg : Arrive(m)
  <1> USE DEF dpVars, sendVars, sockVars, threadVars, recvVars, appVars,
      switchVars, rest, Goto, Thread, FR, PD, InSetState
  <1>1. /\ pc \in [Thread -> Label] /\ target \in [Thread -> Phase]
        /\ \A t \in Thread : back[t] \in BackOf(t)
        /\ Sentinel \in Entry /\ Sentinel.buf \notin {FR, PD}
        /\ \A m \in CtlMsg, b \in BOOLEAN : [buf |-> m, close |-> b] \in Entry
    BY EntryForms DEF TInv, TypeOK, Control, Sentinel
  <1>2. ASSUME NEW m \in {"Hello", "Error", "EchoRequest"}, NEW b \in BOOLEAN,
               Send(m, b)
        PROVE  \/ queue' = queue
               \/ \E e \in Entry : e.buf \notin {FR, PD} /\ queue' = Append(queue, e)
    <2>1. [buf |-> m, close |-> b] \in Entry
      BY <1>1 DEF CtlMsg
    <2>2. [buf |-> m, close |-> b].buf \notin {FR, PD}
      OBVIOUS
    <2> QED
      BY <1>2, <2>1, <2>2 DEF Send
  <1>3. ASSUME NEW t \in Thread, Stop(t) \/ PutSentinel(t) PROVE Quiet
    <2>1. CASE Stop(t)
      BY <1>1, <2>1 DEF Stop, CallSetState, Quiet
    <2>2. CASE PutSentinel(t)
      BY <1>1, <2>2 DEF PutSentinel, Quiet, BackOf
    <2> QED
      BY <1>3, <2>1, <2>2
  <1>4. CASE Serve \/ LoopTest \/ Timeout \/ BatchDone \/ Final \/ Join \/ Disconnect
    <2>1. CASE Serve
      BY <1>1, <1>2, <2>1 DEF Serve, Quiet
    <2>2. CASE LoopTest \/ Timeout \/ BatchDone \/ Disconnect
      BY <1>1, <2>2 DEF LoopTest, Timeout, BatchDone, Disconnect, Jump, Quiet
    <2>3. CASE Final \/ Join
      BY <1>1, <2>3 DEF Final, Join, CallClose, Quiet
    <2> QED
      BY <1>4, <2>1, <2>2, <2>3
  <1>5. ASSUME NEW t \in Thread, NEW l, HelloFailed(t, l) PROVE Quiet
    BY <1>1, <1>2, <1>5 DEF HelloFailed, CallClose, Quiet
  <1>6. CASE EchoDisabled \/ EchoSend \/ EchoGivesUp \/ EchoWait \/ ClosedByOther
    <2>1. CASE EchoDisabled \/ EchoWait
      BY <1>1, <2>1 DEF EchoDisabled, EchoWait, Jump, Quiet
    <2>2. CASE EchoSend
      BY <1>1, <1>2, <2>2 DEF EchoSend, Quiet
    <2>3. CASE EchoGivesUp \/ ClosedByOther
      BY <1>1, <2>3 DEF EchoGivesUp, ClosedByOther, CallClose, Quiet
    <2> QED
      BY <1>6, <2>1, <2>2, <2>3
  <1>7. CASE BadHelloHandler \/ EchoRequestHandler \/ DropEvent
    <2>1. CASE BadHelloHandler \/ EchoRequestHandler
      BY <1>1, <2>1 DEF BadHelloHandler, EchoRequestHandler, Arrives, Quiet
    <2>2. CASE DropEvent
      BY <1>1, <2>2 DEF DropEvent, Arrives, HandlerPhases, Quiet
    <2> QED
      BY <1>7, <2>1, <2>2
  <1>8. CASE UNCHANGED vars
    BY <1>8 DEF vars, Quiet
  <1> QED
    BY <1>3, <1>4, <1>5, <1>6, <1>7, <1>8 DEF Next, Receiver, Echo, Handler, Closer,
       Switch, SetStateOrClose

\* What is on the wire stays there, and what was told was told.
LEMMA Grows ==
  ASSUME TInv, [Next]_vars
  PROVE  /\ \A m : OnWire(m) => OnWire(m)'
         /\ ToldMain => ToldMain'
         /\ sent \subseteq sent'
  <1> USE DEF dpVars, sendVars, sockVars, threadVars, recvVars, appVars,
      switchVars, rest
  <1>1. /\ wire \in Seq(CtlMsg) /\ told \in Seq(Event)
    BY DEF TInv, TypeOK
  <1>2. wire' = wire \/ \E e : wire' = Append(wire, e)
    BY StepKinds DEF Quiet, Writer, Write, WriteFails, WriterStops, Parse,
       Stamp, Absorb, Publish, Notify, Test, Jump, Assign, Tell, HelloHandler,
       SwitchFeaturesHandler, PortStatusHandler, HandlerSends, Arrive
  <1>3. told' = told \/ \E e : told' = Append(told, e)
    BY StepKinds DEF Quiet, Writer, Write, WriteFails, WriterStops, Parse,
       Stamp, Absorb, Publish, Notify, Test, Jump, Assign, Tell, HelloHandler,
       SwitchFeaturesHandler, PortStatusHandler, HandlerSends, Arrive
  <1>4. sent \subseteq sent'
    BY StepKinds DEF Quiet, Writer, Write, WriteFails, WriterStops, Parse,
       Stamp, Absorb, Publish, Notify, Test, Jump, Assign, Tell, HelloHandler,
       SwitchFeaturesHandler, PortStatusHandler, HandlerSends, Arrive
  <1>5. ASSUME NEW i \in DOMAIN wire
        PROVE  i \in DOMAIN wire' /\ wire'[i] = wire[i]
    <2>1. ASSUME NEW e, wire' = Append(wire, e)
          PROVE  i \in DOMAIN wire' /\ wire'[i] = wire[i]
      BY <1>1, <2>1, AppendEntries
    <2> QED
      BY <1>2, <2>1
  <1>6. ASSUME NEW i \in DOMAIN told
        PROVE  i \in DOMAIN told' /\ told'[i] = told[i]
    <2>1. ASSUME NEW e, told' = Append(told, e)
          PROVE  i \in DOMAIN told' /\ told'[i] = told[i]
      BY <1>1, <2>1, AppendEntries
    <2> QED
      BY <1>3, <2>1
  <1> QED
    BY <1>4, <1>5, <1>6 DEF OnWire, ToldMain

\* Requests are sent by the handlers that owe them, nobody else.
LEMMA SentBy ==
  ASSUME TInv, [Next]_vars, NEW m \in {FR, PD}, Sent(m)'
  PROVE  Sent(m) \/ (HandlerSends /\ Head(out) = m)
  <1> USE DEF dpVars, sendVars, sockVars, threadVars, recvVars, appVars,
      switchVars, rest
  <1>1. queue \in Seq(Entry) /\ wire \in Seq(CtlMsg)
    BY DEF TInv, TypeOK
  <1>2. CASE Writer
    <2>1. queue # <<>> /\ queue' = Tail(queue)
      BY <1>2 DEF Writer, Write, WriteFails, WriterStops
    <2>2. Queued(m)' => Queued(m)
      BY <1>1, <2>1, HeadAndTail DEF Queued
    <2>3. CASE OnWire(m)'
      <3>1. wire' = wire \/ wire' = Append(wire, Head(queue).buf)
        BY <1>2 DEF Writer, Write, WriteFails, WriterStops
      <3>2. PICK i \in DOMAIN wire' : wire'[i] = m
        BY <2>3 DEF OnWire
      <3>3. (i \in DOMAIN wire /\ wire[i] = m) \/ Head(queue).buf = m
        BY <1>1, <3>1, <3>2, AppendEntries
      <3>4. Head(queue) = queue[1] /\ 1 \in DOMAIN queue
        BY <1>1, <2>1
      <3> QED
        BY <3>3, <3>4 DEF Sent, OnWire, Queued
    <2> QED
      BY <2>2, <2>3 DEF Sent
  <1>3. ASSUME NEW e \in Entry, queue' = Append(queue, e), wire' = wire
        PROVE  Sent(m) \/ e.buf = m
    <2>1. Queued(m)' => Queued(m) \/ e.buf = m
      BY <1>1, <1>3, AppendEntries DEF Queued
    <2> QED
      BY <1>3, <2>1 DEF Sent, OnWire
  <1>4. CASE queue' = queue /\ wire' = wire
    BY <1>4 DEF Sent, OnWire, Queued
  <1>5. CASE Quiet
    BY <1>3, <1>4, <1>5 DEF Quiet
  <1>6. CASE HandlerSends
    <2>1. Head(out) \in CtlMsg /\ wire' = wire
      BY <1>6, HeadTail DEF HandlerSends, TInv, TypeOK, Loaded
    <2>2. [buf |-> Head(out), close |-> FALSE] \in Entry
      BY <2>1, EntryForms
    <2>3. \/ queue' = queue
          \/ queue' = Append(queue, [buf |-> Head(out), close |-> FALSE])
      BY <1>6 DEF HandlerSends, Send
    <2> QED
      BY <1>3, <1>4, <1>6, <2>1, <2>2, <2>3
  <1>7. CASE ~Quiet /\ ~Writer /\ ~HandlerSends
    <2>1. queue' = queue /\ wire' = wire
      BY <1>7, StepKinds DEF Parse, Stamp, Absorb, Publish, Notify, Test,
         Jump, Assign, Tell, HelloHandler, SwitchFeaturesHandler,
         PortStatusHandler, Arrive
    <2> QED
      BY <1>4, <2>1
  <1> QED
    BY <1>2, <1>5, <1>6, <1>7

\* The steps of set_state leave what is queued, framed and asked for alone.
LEMMA SetStateFrame ==
  ASSUME NEW t \in Thread, TInv, Test(t) \/ Assign(t) \/ Tell(t)
  PROVE  /\ UNCHANGED <<target, batch, stamp, inbox, out, id, sent, wire, queue>>
         /\ pc[t] \in InSetState /\ \A u \in Thread \ {t} : pc'[u] = pc[u]
         /\ pc'[t] = IF pc[t] = "test" /\ state # target[t] THEN "assign"
                     ELSE IF pc[t] = "assign" THEN "tell"
                     ELSE AfterSetState(t)
         /\ state' = IF pc[t] = "assign" THEN target[t] ELSE state
         /\ told' = IF pc[t] = "tell" THEN Append(told, [phase |-> target[t]])
                    ELSE told
         /\ target[t] \in TargetOf(t)
  BY DEF TInv, TypeOK, Control, Test, Assign, Tell, Jump, Goto, InSetState,
     rest, dpVars, sendVars, sockVars, threadVars, recvVars, appVars,
     switchVars, Thread

\* Framed is preserved.
LEMMA FramedStep == TInv /\ Framed /\ [Next]_vars => Framed'
  <1> SUFFICES ASSUME TInv, Framed, [Next]_vars PROVE Framed'
    OBVIOUS
  <1> USE DEF Framed, Dispatching, Entering, dpVars, sendVars, sockVars,
      threadVars, recvVars, appVars, switchVars, rest, Goto, Thread
  <1>1. /\ pc \in [Thread -> Label] /\ target \in [Thread -> Phase]
    BY DEF TInv, TypeOK
  <1>2. CASE Quiet \/ Writer
    BY <1>2 DEF Quiet, Writer, Write, WriteFails, WriterStops, InSetState
  <1>3. ASSUME NEW t \in Thread, Test(t) \/ Assign(t) \/ Tell(t) PROVE Framed'
    BY <1>3, SetStateFrame DEF InSetState, AfterSetState, TargetOf
  <1>4. CASE Parse \/ Stamp \/ Absorb \/ Publish \/ Notify
    BY <1>1, <1>4 DEF Parse, Stamp, Absorb, Publish, Notify, CallSetState,
       InSetState
  <1>5. CASE HelloHandler \/ SwitchFeaturesHandler \/ PortStatusHandler \/ HandlerSends
    BY <1>1, <1>5 DEF HelloHandler, SwitchFeaturesHandler, PortStatusHandler,
       HandlerSends, CallSetState
  <1>6. ASSUME NEW m \in SwitchMsg, Arrive(m) PROVE Framed'
    BY <1>6 DEF Arrive
  <1> QED
    BY <1>2, <1>3, <1>4, <1>5, <1>6, StepKinds

\* Every member of a queue's tail is a member of the queue.
LEMMA TailMembers ==
  ASSUME NEW S, NEW s \in Seq(S), s # <<>>, NEW i \in DOMAIN Tail(s)
  PROVE  i + 1 \in DOMAIN s /\ Tail(s)[i] = s[i + 1] /\ i \in Nat \ {0}
  BY HeadAndTail

\* The members of a queue something was put into.
LEMMA AppendMembers ==
  ASSUME NEW S, NEW s \in Seq(S), NEW e, NEW i \in DOMAIN Append(s, e)
  PROVE  (i \in DOMAIN s /\ Append(s, e)[i] = s[i]) \/ Append(s, e)[i] = e
  BY AppendEntries

\* MainFirst is preserved.
LEMMA MainFirstStep == TInv /\ MainFirst /\ [Next]_vars => MainFirst'
  <1> SUFFICES ASSUME TInv, MainFirst, [Next]_vars PROVE MainFirst'
    OBVIOUS
  <1> USE DEF dpVars, sendVars, sockVars, threadVars, recvVars, appVars,
      switchVars, rest, Goto, Thread
  <1>1. /\ pc \in [Thread -> Label] /\ target \in [Thread -> Phase]
        /\ told \in Seq(Event) /\ inbox \in Seq([msg : SwitchMsg, stamp : Phase])
    BY DEF TInv, TypeOK
  <1>2. ToldMain => ToldMain'
    BY Grows
  <1>3. state' = "MAIN" => ToldMain' \/ (pc'["recv"] = "tell" /\ Entering')
    <2>1. CASE Quiet \/ Writer
      BY <1>2, <2>1 DEF MainFirst, Quiet, Writer, Write, WriteFails, WriterStops,
         Entering, InSetState
    <2>2. ASSUME NEW t \in Thread, Test(t) \/ Assign(t) \/ Tell(t), state' = "MAIN"
          PROVE  ToldMain' \/ (pc'["recv"] = "tell" /\ Entering')
      <3>1. CASE pc[t] = "assign"
        <4>1. target[t] = "MAIN" /\ t = "recv" /\ target' = target
          BY <2>2, <3>1, SetStateFrame DEF TargetOf
        <4> QED
          BY <2>2, <3>1, <4>1, SetStateFrame DEF Entering, InSetState
      <3>2. CASE pc[t] # "assign" /\ ~ToldMain
        <4>1. pc["recv"] = "tell" /\ target["recv"] = "MAIN" /\ target' = target
          BY <2>2, <3>2, SetStateFrame DEF MainFirst, Entering
        <4>2. CASE t = "recv"
          <5>1. told' = Append(told, [phase |-> "MAIN"])
            BY <2>2, <4>1, <4>2, SetStateFrame
          <5>2. Len(told) + 1 \in DOMAIN told' /\ told'[Len(told) + 1] = [phase |-> "MAIN"]
            BY <1>1, <5>1, AppendEntries
          <5> QED
            BY <5>2 DEF ToldMain
        <4>3. CASE t # "recv"
          BY <2>2, <4>1, <4>3, SetStateFrame DEF Entering, InSetState
        <4> QED
          BY <4>2, <4>3
      <3> QED
        BY <1>2, <3>1, <3>2
    <2>3. CASE Parse \/ Stamp \/ Absorb \/ Publish \/ Notify
      BY <1>2, <2>3 DEF Parse, Stamp, Absorb, Publish, Notify, MainFirst
    <2>4. CASE HelloHandler \/ SwitchFeaturesHandler \/ PortStatusHandler \/ HandlerSends
      BY <1>1, <1>2, <2>4 DEF HelloHandler, SwitchFeaturesHandler, PortStatusHandler,
         HandlerSends, CallSetState, MainFirst, Entering, InSetState
    <2>5. ASSUME NEW m \in SwitchMsg, Arrive(m), state' = "MAIN"
          PROVE  ToldMain' \/ (pc'["recv"] = "tell" /\ Entering')
      BY <1>2, <2>5 DEF Arrive, MainFirst, Entering
    <2> QED
      BY <2>1, <2>2, <2>3, <2>4, <2>5, StepKinds
  <1>4. stamp' = "MAIN" => ToldMain'
    <2>1. CASE Stamp
      BY <1>2, <2>1 DEF Stamp, MainFirst
    <2>2. CASE ~Stamp
      <3>1. stamp' = stamp
        BY <2>2, StepKinds, SetStateFrame DEF Quiet, Writer, Write, WriteFails, WriterStops,
           Parse, Absorb, Publish, Notify, HelloHandler, SwitchFeaturesHandler,
           PortStatusHandler, HandlerSends, Arrive
      <3> QED
        BY <1>2, <3>1 DEF MainFirst
    <2> QED
      BY <2>1, <2>2
  <1>5. \A i \in DOMAIN inbox' : inbox'[i].stamp = "MAIN" => ToldMain'
    <2> SUFFICES ASSUME NEW i \in DOMAIN inbox', inbox'[i].stamp = "MAIN"
                 PROVE  ToldMain'
      OBVIOUS
    <2>1. CASE Publish
      <3>1. CASE inbox' = inbox
        BY <1>2, <3>1 DEF MainFirst
      <3>2. CASE inbox' = Append(inbox, [msg |-> Head(batch), stamp |-> stamp])
        <4>1. (i \in DOMAIN inbox /\ inbox[i].stamp = "MAIN") \/ stamp = "MAIN"
          BY <1>1, <3>2, AppendEntries
        <4> QED
          BY <1>2, <4>1 DEF MainFirst
      <3> QED
        BY <2>1, <3>1, <3>2 DEF Publish
    <2>2. CASE ~Publish
      <3>1. inbox' = inbox \/ (inbox # <<>> /\ inbox' = Tail(inbox))
        BY <2>2, StepKinds, SetStateFrame DEF Quiet, Writer, Write, WriteFails, WriterStops,
           Parse, Stamp, Absorb, Notify, HelloHandler, SwitchFeaturesHandler,
           PortStatusHandler, HandlerSends, Arrive, Arrives
      <3>2. \E j \in DOMAIN inbox : inbox[j].stamp = "MAIN"
        BY <1>1, <3>1, TailMembers
      <3> QED
        BY <1>2, <3>2 DEF MainFirst
    <2> QED
      BY <2>1, <2>2
  <1>6. \A i \in DOMAIN told' :
           told'[i] \notin [phase : Phase] /\ told'[i].stamp = "MAIN"
           => \E j \in 1 .. i - 1 : told'[j] = [phase |-> "MAIN"]
    <2>1. CASE told' = told
      BY <2>1 DEF MainFirst
    <2>2. ASSUME NEW e, told' = Append(told, e),
                 e \in [phase : Phase] \/ (e.stamp = "MAIN" => ToldMain)
          PROVE  \A i \in DOMAIN told' :
                    told'[i] \notin [phase : Phase] /\ told'[i].stamp = "MAIN"
                    => \E j \in 1 .. i - 1 : told'[j] = [phase |-> "MAIN"]
      <3> SUFFICES ASSUME NEW i \in DOMAIN told', told'[i] \notin [phase : Phase],
                          told'[i].stamp = "MAIN"
                   PROVE  \E j \in 1 .. i - 1 : told'[j] = [phase |-> "MAIN"]
        OBVIOUS
      <3>1. /\ Len(told) \in Nat /\ DOMAIN told = 1 .. Len(told)
            /\ DOMAIN told' = 1 .. Len(told) + 1 /\ told'[Len(told) + 1] = e
            /\ \A k \in 1 .. Len(told) : told'[k] = told[k]
        BY <1>1, <2>2, AppendEntries
      <3>2. CASE i \in DOMAIN told
        <4>1. PICK j \in 1 .. i - 1 : told[j] = [phase |-> "MAIN"]
          BY <3>1, <3>2 DEF MainFirst
        <4> QED
          BY <3>1, <3>2, <4>1
      <3>3. CASE i = Len(told) + 1
        <4>1. PICK j \in DOMAIN told : told[j] = [phase |-> "MAIN"]
          BY <2>2, <3>1, <3>3 DEF ToldMain
        <4>2. j \in 1 .. i - 1 /\ told'[j] = [phase |-> "MAIN"]
          BY <3>1, <3>3, <4>1
        <4> QED
          BY <4>2
      <3> QED
        BY <3>1, <3>2, <3>3
    <2>3. CASE Notify
      <3>1. told' = told \/ told' = Append(told, [msg |-> Head(batch), stamp |-> stamp])
        BY <2>3 DEF Notify
      <3> QED
        BY <2>1, <2>2, <3>1 DEF MainFirst
    <2>4. CASE PortStatusHandler
      <3>1. ToldMain
        <4>1. inbox # <<>> /\ Head(inbox).stamp = "MAIN"
          BY <2>4 DEF PortStatusHandler, Arrives
        <4>2. 1 \in DOMAIN inbox /\ Head(inbox) = inbox[1]
          BY <1>1, <4>1
        <4> QED
          BY <4>1, <4>2 DEF MainFirst
      <3>2. told' = told \/ told' = Append(told, [portChange |-> Head(inbox).msg.port, stamp |-> state])
        BY <2>4 DEF PortStatusHandler
      <3> QED
        BY <2>1, <2>2, <3>1, <3>2
    <2>5. ASSUME NEW t \in Thread, Test(t) \/ Assign(t) \/ Tell(t)
          PROVE  told' = told \/ \E e \in [phase : Phase] : told' = Append(told, e)
      <3>1. [phase |-> target[t]] \in [phase : Phase]
        BY <1>1
      <3> QED
        BY <2>5, <3>1, SetStateFrame
    <2>6. CASE ~Notify /\ ~PortStatusHandler /\ ~\E t \in Thread : Test(t) \/ Assign(t) \/ Tell(t)
      <3>1. told' = told
        BY <2>6, StepKinds DEF Quiet, Writer, Write, WriteFails, WriterStops,
           Parse, Stamp, Absorb, Publish, HelloHandler, SwitchFeaturesHandler,
           HandlerSends, Arrive
      <3> QED
        BY <2>1, <3>1
    <2> QED
      BY <2>1, <2>2, <2>3, <2>4, <2>5, <2>6
  <1> QED
    BY <1>3, <1>4, <1>5, <1>6 DEF MainFirst

\* What becomes of the framed messages.
LEMMA BatchSteps ==
  ASSUME TInv, [Next]_vars
  PROVE  \/ batch' = batch
         \/ Parse /\ batch' = <<>>
         \/ Notify /\ batch # <<>> /\ batch' = Tail(batch)
         \/ \E m \in SwitchMsg : Arrive(m) /\ batch' = Append(batch, m)
  <1> USE DEF dpVars, sendVars, sockVars, threadVars, recvVars, appVars,
      switchVars, rest
  <1>1. Notify => batch # <<>> /\ batch' = Tail(batch)
    BY DEF TInv, Loaded, Notify
  <1>2. Parse => batch' = batch \/ batch' = <<>>
    BY DEF Parse
  <1>3. \A m \in SwitchMsg : Arrive(m) => batch' = Append(batch, m)
    BY DEF Arrive
  <1>4. ~Parse /\ ~Notify /\ ~(\E m \in SwitchMsg : Arrive(m)) => batch' = batch
    BY StepKinds, SetStateFrame DEF Quiet, Writer, Write, WriteFails, WriterStops,
       Stamp, Absorb, Publish, HelloHandler, SwitchFeaturesHandler,
       PortStatusHandler, HandlerSends
  <1> QED
    BY <1>1, <1>2, <1>3, <1>4

\* What the switch is known to have sent.
LEMMA SentSteps ==
  ASSUME TInv, [Next]_vars, NEW type \in sent' \ sent
  PROVE  \E m \in SwitchMsg : /\ Arrive(m)
                              /\ type = IF m.type = "PortDesc" /\ m.more
                                          THEN "PortDescPart" ELSE m.type
  <1> USE DEF dpVars, sendVars, sockVars, threadVars, recvVars, appVars,
      switchVars, rest
  <1>1. PICK m \in SwitchMsg : Arrive(m)
    BY StepKinds, SetStateFrame DEF Quiet, Writer, Write, WriteFails, WriterStops,
       Parse, Notify, Stamp, Absorb, Publish, HelloHandler, SwitchFeaturesHandler,
       PortStatusHandler, HandlerSends
  <1> QED
    BY <1>1 DEF Arrive

\* FeaturesOnce is preserved.
LEMMA FeaturesOnceStep ==
  ~Rogue /\ TInv /\ FeaturesOnce /\ [Next]_vars => FeaturesOnce'
  <1> SUFFICES ASSUME ~Rogue, TInv, FeaturesOnce, [Next]_vars PROVE FeaturesOnce'
    OBVIOUS
  <1> USE DEF dpVars, sendVars, sockVars, threadVars, recvVars, appVars,
      switchVars, rest, Goto, Thread
  <1>1. /\ pc \in [Thread -> Label] /\ target \in [Thread -> Phase]
        /\ batch \in Seq(SwitchMsg) /\ out \in Seq(CtlMsg)
    BY DEF TInv, TypeOK
  <1>2. state # "HANDSHAKE" => state' # "HANDSHAKE"
    <2>1. \A t \in Thread : pc[t] = "assign" => target[t] # "HANDSHAKE"
      BY DEF TInv, Control, InSetState, TargetOf
    <2> QED
      BY <2>1, StepKinds, SetStateFrame DEF Quiet, Writer, Write, WriteFails,
         WriterStops, Parse, Notify, Stamp, Absorb, Publish, HelloHandler,
         SwitchFeaturesHandler, PortStatusHandler, HandlerSends, Arrive
  <1>3. Sent(FR)' => state' # "HANDSHAKE"
    <2>1. ASSUME HandlerSends, Head(out) = FR PROVE state # "HANDSHAKE"
      <3>1. pc["handler"] = "send" /\ out # <<>>
        BY <2>1 DEF HandlerSends, TInv, Loaded
      <3>2. Due(FR)
        BY <1>1, <2>1, <3>1 DEF Due
      <3> QED
        BY <3>1, <3>2 DEF FeaturesOnce
    <2> QED
      BY <1>2, <2>1, SentBy DEF FeaturesOnce
  <1>4. Due(FR)' => \/ state' # "HANDSHAKE"
                    \/ pc'["handler"] \in {"test", "assign"} /\ target'["handler"] = "CONFIG"
    <2> SUFFICES ASSUME Due(FR)', state' = "HANDSHAKE"
                 PROVE  pc'["handler"] \in {"test", "assign"} /\ target'["handler"] = "CONFIG"
      OBVIOUS
    <2>0. state = "HANDSHAKE"
      BY <1>2
    <2>1. CASE HelloHandler
      BY <1>1, <2>1 DEF HelloHandler, CallSetState
    <2>2. CASE SwitchFeaturesHandler
      BY <2>2 DEF SwitchFeaturesHandler, Due, FR
    <2>3. CASE HandlerSends
      <3>1. Due(FR)
        <4>1. out # <<>> /\ out' = Tail(out)
          BY <2>3 DEF HandlerSends, TInv, Loaded
        <4> QED
          BY <1>1, <4>1, TailMembers DEF Due
      <3>2. pc["handler"] = "send"
        BY <2>3 DEF HandlerSends
      <3> QED
        BY <2>0, <3>1, <3>2 DEF FeaturesOnce
    <2>4. CASE Quiet
      <3>1. out' # <<"EchoReply">>
        BY DEF Due, FR
      <3>2. Due(FR)
        BY <2>4, <3>1 DEF Quiet, Due
      <3> QED
        BY <2>0, <2>4, <3>2 DEF Quiet, FeaturesOnce
    <2>5. ASSUME NEW t \in Thread, Test(t) \/ Assign(t) \/ Tell(t)
          PROVE  pc'["handler"] \in {"test", "assign"} /\ target'["handler"] = "CONFIG"
      <3>1. Due(FR)
        BY <2>5, SetStateFrame DEF Due
      <3>2. pc["handler"] \in {"test", "assign"} /\ target["handler"] = "CONFIG"
        BY <2>0, <3>1 DEF FeaturesOnce
      <3> QED
        BY <2>0, <2>5, <3>2, SetStateFrame
    <2>6. CASE /\ ~HelloHandler /\ ~SwitchFeaturesHandler /\ ~HandlerSends /\ ~Quiet
               /\ ~\E t \in Thread : Test(t) \/ Assign(t) \/ Tell(t)
      <3>1. out' = out /\ pc'["handler"] = pc["handler"] /\ target'["handler"] = target["handler"]
        BY <1>1, <2>6, StepKinds DEF Writer, Write, WriteFails,
           WriterStops, Parse, Notify, Stamp, Absorb, Publish,
           PortStatusHandler, Arrive, CallSetState
      <3> QED
        BY <2>0, <3>1 DEF FeaturesOnce, Due
    <2> QED
      BY <2>1, <2>2, <2>3, <2>4, <2>5, <2>6
  <1>5. "Features" \in sent' => OnWire(FR)'
    <2>1. \A m \in SwitchMsg : Arrive(m) /\ m.type = "Features" => OnWire(FR)
      BY DEF Arrive, FollowsProtocol, FR
    <2>2. "Features" \in sent' => "Features" \in sent \/ OnWire(FR)
      BY <2>1, SentSteps
    <2> QED
      BY <2>2, Grows DEF FeaturesOnce
  <1>6. ASSUME NEW i \in DOMAIN batch', batch'[i].type = "Features"
        PROVE  /\ "Features" \in sent'
               /\ \A j \in DOMAIN batch' : batch'[j].type = "Features" => i = j
    <2>1. CASE batch' = batch
      BY <1>6, <2>1, Grows DEF FeaturesOnce
    <2>2. CASE batch' = <<>>
      BY <1>6, <2>2
    <2>3. CASE batch # <<>> /\ batch' = Tail(batch)
      <3>1. /\ i \in Nat /\ i + 1 \in DOMAIN batch /\ batch'[i] = batch[i + 1]
        BY <1>1, <1>6, <2>3, TailMembers
      <3>2. ASSUME NEW j \in DOMAIN batch', batch'[j].type = "Features"
            PROVE  i = j
        <4>1. j \in Nat /\ j + 1 \in DOMAIN batch /\ batch'[j] = batch[j + 1]
          BY <1>1, <2>3, <3>2, TailMembers
        <4>2. i + 1 = j + 1
          BY <1>6, <3>1, <3>2, <4>1 DEF FeaturesOnce
        <4> QED
          BY <3>1, <4>1, <4>2
      <3> QED
        BY <1>6, <3>1, <3>2, Grows DEF FeaturesOnce
    <2>4. ASSUME NEW m \in SwitchMsg, Arrive(m), batch' = Append(batch, m)
          PROVE  /\ "Features" \in sent'
                 /\ \A j \in DOMAIN batch' : batch'[j].type = "Features" => i = j
      <3>1. /\ Len(batch) \in Nat /\ DOMAIN batch = 1 .. Len(batch)
            /\ DOMAIN batch' = 1 .. Len(batch) + 1 /\ batch'[Len(batch) + 1] = m
            /\ \A k \in 1 .. Len(batch) : batch'[k] = batch[k]
        BY <1>1, <2>4, AppendEntries
      <3>2. CASE m.type = "Features"
        <4>1. "Features" \notin sent /\ "Features" \in sent'
          BY <2>4, <3>2 DEF Arrive, FollowsProtocol
        <4>2. \A k \in DOMAIN batch : batch[k].type # "Features"
          BY <4>1 DEF FeaturesOnce
        <4> QED
          BY <1>6, <3>1, <4>1, <4>2
      <3>3. CASE m.type # "Features"
        <4>1. i \in DOMAIN batch /\ batch[i].type = "Features"
          BY <1>6, <3>1, <3>3
        <4>2. ASSUME NEW j \in DOMAIN batch', batch'[j].type = "Features"
              PROVE  j \in DOMAIN batch /\ batch[j].type = "Features"
          BY <3>1, <3>3, <4>2
        <4> QED
          BY <4>1, <4>2, Grows DEF FeaturesOnce
      <3> QED
        BY <3>2, <3>3
    <2> QED
      BY <2>1, <2>2, <2>3, <2>4, BatchSteps
  <1> QED
    BY <1>3, <1>4, <1>5, <1>6 DEF FeaturesOnce

\* Once the id is known and no features reply is still to be absorbed, that
\* stays so.
Known ==
    /\ "Features" \in sent /\ id # NoId
    /\ \A i \in DOMAIN batch :
          batch[i].type = "Features" => i = 1 /\ pc["recv"] = "notify"

\* Known is preserved.
LEMMA KnownStep ==
  ASSUME ~Rogue, TInv, Known, [Next]_vars PROVE Known'
  <1> USE DEF dpVars, sendVars, sockVars, threadVars, recvVars, appVars,
      switchVars, rest, Goto, Thread
  <1>1. /\ pc \in [Thread -> Label] /\ batch \in Seq(SwitchMsg)
    BY DEF TInv, TypeOK
  <1>2. id' # NoId
    <2>1. CASE Absorb
      <3>1. Head(batch) \in SwitchMsg
        BY <1>1, <2>1, HeadTail DEF TInv, Loaded, Absorb
      <3> QED
        BY <2>1, <3>1, MsgFields, ChannelAssumption DEF Absorb, Known
    <2>2. CASE ~Absorb
      <3>1. id' = id
        BY <2>2, StepKinds, SetStateFrame DEF Quiet, Writer, Write, WriteFails,
           WriterStops, Parse, Notify, Stamp, Publish, HelloHandler,
           SwitchFeaturesHandler, PortStatusHandler, HandlerSends, Arrive
      <3> QED
        BY <3>1 DEF Known
    <2> QED
      BY <2>1, <2>2
  <1>3. ASSUME NEW i \in DOMAIN batch', batch'[i].type = "Features"
        PROVE  i = 1 /\ pc'["recv"] = "notify"
    <2>1. CASE batch' = batch
      <3>1. i = 1 /\ pc["recv"] = "notify" /\ batch # <<>>
        BY <1>1, <1>3, <2>1 DEF Known
      <3>2. ~Notify
        BY <1>1, <2>1, <3>1 DEF Notify
      <3>3. pc'["recv"] = "notify"
        BY <1>1, <3>1, <3>2, StepKinds, SetStateFrame
           DEF Quiet, Writer, Write, WriteFails, WriterStops, Parse, Stamp, Absorb,
           Publish, HelloHandler, SwitchFeaturesHandler, PortStatusHandler,
           HandlerSends, Arrive, CallSetState, InSetState
      <3> QED
        BY <3>1, <3>3
    <2>2. CASE batch' = <<>>
      BY <1>3, <2>2
    <2>3. CASE batch # <<>> /\ batch' = Tail(batch)
      <3>1. i \in Nat \ {0} /\ i + 1 \in DOMAIN batch /\ batch'[i] = batch[i + 1]
        BY <1>1, <1>3, <2>3, TailMembers
      <3>2. i + 1 = 1
        BY <1>3, <3>1 DEF Known
      <3> QED
        BY <3>1, <3>2
    <2>4. ASSUME NEW m \in SwitchMsg, Arrive(m), batch' = Append(batch, m)
          PROVE  FALSE
      <3>1. m.type # "Features" /\ pc["recv"] = "read"
        BY <2>4 DEF Arrive, FollowsProtocol, Known
      <3>2. i \in DOMAIN batch /\ batch[i].type = "Features"
        BY <1>1, <1>3, <2>4, <3>1, AppendEntries
      <3> QED
        BY <3>1, <3>2 DEF Known
    <2> QED
      BY <2>1, <2>2, <2>3, <2>4, BatchSteps
  <1> QED
    BY <1>2, <1>3, Grows DEF Known

\* PortsAfterFeatures is preserved.
LEMMA PortsAfterFeaturesStep ==
  /\ ~Rogue /\ TInv /\ FeaturesOnce /\ PortsAfterFeatures /\ DescribedOnce
  /\ [Next]_vars
  => PortsAfterFeatures'
  <1> SUFFICES ASSUME ~Rogue, TInv, FeaturesOnce, PortsAfterFeatures,
                      DescribedOnce, [Next]_vars
               PROVE  PortsAfterFeatures'
    OBVIOUS
  <1> USE DEF dpVars, sendVars, sockVars, threadVars, recvVars, appVars,
      switchVars, rest, Goto, Thread
  <1>1. /\ pc \in [Thread -> Label] /\ target \in [Thread -> Phase]
        /\ batch \in Seq(SwitchMsg) /\ out \in Seq(CtlMsg)
        /\ inbox \in Seq([msg : SwitchMsg, stamp : Phase])
    BY DEF TInv, TypeOK
  <1>2. Due(PD) \/ Sent(PD) \/ Inboxed("Features") => Known
    BY DEF PortsAfterFeatures, Known
  <1>3. ASSUME Publish, Head(batch).type = "Features" PROVE Known'
    <2>1. /\ batch # <<>> /\ pc["recv"] = "publish" /\ pc'["recv"] = "notify"
          /\ UNCHANGED <<batch, id, sent>>
      BY <1>1, <1>3 DEF Publish, TInv, Loaded
    <2>2. 1 \in DOMAIN batch /\ Head(batch) = batch[1]
      BY <1>1, <2>1
    <2>3. id # NoId
      BY <1>3, <2>1 DEF PortsAfterFeatures
    <2>4. "Features" \in sent /\ \A i \in DOMAIN batch : batch[i].type = "Features" => i = 1
      BY <1>3, <2>2 DEF FeaturesOnce
    <2> QED
      BY <2>1, <2>3, <2>4 DEF Known
  <1>4. Inboxed("Features")' => Inboxed("Features") \/ (Publish /\ Head(batch).type = "Features")
    <2>1. CASE Publish
      <3>1. \/ inbox' = inbox
            \/ inbox' = Append(inbox, [msg |-> Head(batch), stamp |-> stamp])
        BY <2>1 DEF Publish
      <3>2. ASSUME NEW i \in DOMAIN inbox'
            PROVE  \/ i \in DOMAIN inbox /\ inbox'[i] = inbox[i]
                   \/ inbox'[i] = [msg |-> Head(batch), stamp |-> stamp]
        <4> DEFINE e == [msg |-> Head(batch), stamp |-> stamp]
        <4>1. CASE inbox' = inbox
          BY <4>1
        <4>2. CASE inbox' = Append(inbox, e)
          <5>1. (i \in DOMAIN inbox /\ Append(inbox, e)[i] = inbox[i]) \/ Append(inbox, e)[i] = e
            <6> HIDE DEF e
            <6> QED
              BY <1>1, <4>2, AppendMembers
          <5> QED
            BY <4>2, <5>1
        <4> QED
          BY <3>1, <4>1, <4>2
      <3>3. ASSUME NEW i \in DOMAIN inbox', inbox'[i].msg.type = "Features"
            PROVE  Inboxed("Features") \/ Head(batch).type = "Features"
        BY <3>2, <3>3 DEF Inboxed
      <3> QED
        BY <2>1, <3>3 DEF Inboxed
    <2>2. CASE ~Publish
      <3>1. inbox' = inbox \/ (inbox # <<>> /\ inbox' = Tail(inbox))
        BY <2>2, StepKinds, SetStateFrame DEF Quiet, Writer, Write, WriteFails, WriterStops,
           Parse, Stamp, Absorb, Notify, HelloHandler, SwitchFeaturesHandler,
           PortStatusHandler, HandlerSends, Arrive, Arrives
      <3>2. ASSUME NEW i \in DOMAIN inbox'
            PROVE  \E j \in DOMAIN inbox : inbox'[i] = inbox[j]
        BY <1>1, <3>1, TailMembers
      <3>3. ASSUME NEW i \in DOMAIN inbox', inbox'[i].msg.type = "Features"
            PROVE  Inboxed("Features")
        BY <3>2, <3>3 DEF Inboxed
      <3> QED
        BY <3>3 DEF Inboxed
    <2> QED
      BY <2>1, <2>2
  <1>5. Due(PD)' => Due(PD) \/ Inboxed("Features")
    <2>1. CASE SwitchFeaturesHandler
      <3>1. inbox # <<>> /\ Head(inbox).msg.type = "Features"
        BY <2>1 DEF SwitchFeaturesHandler, Arrives
      <3>2. 1 \in DOMAIN inbox /\ Head(inbox) = inbox[1]
        BY <1>1, <3>1
      <3> QED
        BY <3>1, <3>2 DEF Inboxed
    <2>2. CASE HandlerSends
      <3>1. out # <<>> /\ out' = Tail(out)
        BY <2>2 DEF HandlerSends, TInv, Loaded
      <3> QED
        BY <1>1, <3>1, TailMembers DEF Due
    <2>3. CASE ~SwitchFeaturesHandler /\ ~HandlerSends
      <3>1. out' = out \/ out' = <<"EchoReply">> \/ out' = <<FR>>
        BY <2>3, StepKinds, SetStateFrame DEF Quiet, Writer, Write, WriteFails, WriterStops,
           Parse, Stamp, Absorb, Notify, Publish, HelloHandler,
           PortStatusHandler, Arrive, Arrives, FR
      <3> QED
        BY <3>1 DEF Due, PD, FR
    <2> QED
      BY <2>1, <2>2, <2>3
  <1>6. Sent(PD)' => Sent(PD) \/ Due(PD)
    <2>1. ASSUME HandlerSends, Head(out) = PD PROVE Due(PD)
      <3>1. out # <<>>
        BY <2>1 DEF HandlerSends, TInv, Loaded
      <3> QED
        BY <1>1, <2>1, <3>1 DEF Due
    <2> QED
      BY <2>1, SentBy
  <1>7. Due(PD)' \/ Sent(PD)' \/ Inboxed("Features")' => Known'
    BY <1>2, <1>3, <1>4, <1>5, <1>6, KnownStep
  <1>8. ASSUME pc'["recv"] \in {"publish", "notify"}, Head(batch').type = "Features"
        PROVE  id' # NoId
    <2>1. CASE Absorb
      <3>1. batch' = batch /\ batch # <<>>
        BY <2>1 DEF Absorb, TInv, Loaded
      <3>2. Head(batch) \in SwitchMsg
        BY <1>1, <3>1, HeadTail
      <3>3. id' = Head(batch).id
        BY <1>8, <2>1, <3>1 DEF Absorb
      <3> QED
        BY <1>8, <3>1, <3>2, <3>3, MsgFields, ChannelAssumption
    <2>2. CASE ~Absorb
      <3>1. id' = id
        BY <2>2, StepKinds, SetStateFrame DEF Quiet, Writer, Write, WriteFails,
           WriterStops, Parse, Notify, Stamp, Publish, HelloHandler,
           SwitchFeaturesHandler, PortStatusHandler, HandlerSends, Arrive
      <3>2. CASE Entering
        <4>1. OnWire(PD)
          BY <3>2 DEF DescribedOnce
        <4> QED
          BY <1>2, <3>1, <4>1 DEF Known, Sent
      <3>3. CASE ~Entering
        <4>1. pc["recv"] \in {"publish", "notify"} /\ batch' = batch
          <5>1. ASSUME NEW t \in Thread, Test(t) \/ Assign(t) \/ Tell(t)
                PROVE  pc["recv"] \in {"publish", "notify"} /\ batch' = batch
            BY <1>8, <3>3, <5>1, SetStateFrame DEF Entering, AfterSetState,
               TargetOf, InSetState
          <5>2. CASE Notify \/ Stamp \/ Publish \/ Parse
            BY <1>1, <1>8, <5>2 DEF Notify, Stamp, Publish, Parse
          <5>3. ASSUME NEW m \in SwitchMsg, Arrive(m) PROVE FALSE
            BY <1>8, <5>3 DEF Arrive
          <5>4. CASE HelloHandler \/ SwitchFeaturesHandler \/ PortStatusHandler \/ HandlerSends
            BY <1>1, <1>8, <5>4 DEF HelloHandler, SwitchFeaturesHandler,
               PortStatusHandler, HandlerSends, CallSetState
          <5>5. CASE Quiet \/ Writer
            BY <1>8, <5>5 DEF Quiet, Writer, Write, WriteFails, WriterStops
          <5> QED
            BY <2>2, <5>1, <5>2, <5>3, <5>4, <5>5, StepKinds
        <4> QED
          BY <1>8, <3>1, <4>1 DEF PortsAfterFeatures
      <3> QED
        BY <3>2, <3>3
    <2> QED
      BY <2>1, <2>2
  <1> QED
    BY <1>7, <1>8 DEF PortsAfterFeatures, Known

\* While a message is dispatched, and nothing is absorbed or taken, it stays
\* dispatched.
LEMMA DispatchSteps ==
  ASSUME TInv, Dispatching, pc["recv"] # "absorb", batch' = batch, ~Notify, [Next]_vars
  PROVE  Dispatching' /\ pc'["recv"] # "absorb"
  <1> USE DEF dpVars, sendVars, sockVars, threadVars, recvVars, appVars,
      switchVars, rest, Goto, Thread, Dispatching, Entering
  <1>1. /\ pc \in [Thread -> Label] /\ target \in [Thread -> Phase]
    BY DEF TInv, TypeOK
  <1>2. CASE Quiet \/ Writer
    BY <1>2 DEF Quiet, Writer, Write, WriteFails, WriterStops, InSetState
  <1>3. ASSUME NEW t \in Thread, Test(t) \/ Assign(t) \/ Tell(t)
        PROVE  Dispatching' /\ pc'["recv"] # "absorb"
    BY <1>3, SetStateFrame DEF InSetState, AfterSetState, TargetOf
  <1>4. CASE Parse \/ Stamp \/ Absorb \/ Publish
    BY <1>1, <1>4 DEF Parse, Stamp, Absorb, Publish, InSetState
  <1>5. CASE HelloHandler \/ SwitchFeaturesHandler \/ PortStatusHandler \/ HandlerSends
    BY <1>1, <1>5 DEF HelloHandler, SwitchFeaturesHandler, PortStatusHandler,
       HandlerSends, CallSetState
  <1>6. ASSUME NEW m \in SwitchMsg, Arrive(m) PROVE FALSE
    BY <1>6 DEF Arrive, InSetState
  <1> QED
    BY <1>2, <1>3, <1>4, <1>5, <1>6, StepKinds

\* The switch has described a port.
Described == sent \cap {"PortDesc", "PortDescPart"} # {}

\* What the switch describes, it was asked for.
LEMMA DescribeArrives ==
  ASSUME ~Rogue, TInv, NEW m \in SwitchMsg, Arrive(m)
  PROVE  /\ m.type = "PortDesc" =>
               /\ OnWire(PD) /\ "PortDesc" \notin sent
               /\ Described' /\ (~m.more => "PortDesc" \in sent')
         /\ m.type # "PortDesc" => (Described' <=> Described)
         /\ pc["recv"] = "read" /\ UNCHANGED <<pc, target, told>>
  <1>1. m.type \in SwitchType
    BY MsgFields
  <1>2. m.type = "PortDesc" => OnWire(PD) /\ "PortDesc" \notin sent
    BY DEF Arrive, FollowsProtocol, PD
  <1>3. sent' = sent \cup {IF m.type = "PortDesc" /\ m.more THEN "PortDescPart" ELSE m.type}
    BY DEF Arrive
  <1>4. pc["recv"] = "read" /\ UNCHANGED <<pc, target, told>>
    BY DEF Arrive, threadVars, appVars
  <1>5. m.type = "PortDesc" => Described' /\ (~m.more => "PortDesc" \in sent')
    BY <1>3 DEF Described
  <1>6. m.type # "PortDesc" => (Described' <=> Described)
    BY <1>1, <1>3 DEF Described, SwitchType
  <1> QED
    BY <1>2, <1>4, <1>5, <1>6

\* The description's last part enters MAIN, in CONFIG.
LEMMA EnteringBy ==
  ASSUME TInv, [Next]_vars, Entering'
  PROVE  \/ Entering
         \/ /\ Absorb /\ Head(batch).type = "PortDesc" /\ ~Head(batch).more
            /\ state = "CONFIG" /\ UNCHANGED <<state, told>>
  <1> USE DEF dpVars, sendVars, sockVars, threadVars, recvVars, appVars,
      switchVars, rest, Goto, Thread
  <1>1. /\ pc \in [Thread -> Label] /\ target \in [Thread -> Phase]
    BY DEF TInv, TypeOK
  <1>2. ASSUME NEW t \in Thread, Test(t) \/ Assign(t) \/ Tell(t) PROVE Entering
    BY <1>2, SetStateFrame DEF Entering, InSetState, AfterSetState
  <1>3. ASSUME Parse \/ Stamp \/ Publish \/ Notify PROVE FALSE
    BY <1>1, <1>3 DEF Parse, Stamp, Publish, Notify, Entering, InSetState
  <1>4. ASSUME HelloHandler \/ SwitchFeaturesHandler \/ PortStatusHandler \/ HandlerSends
        PROVE  Entering
    BY <1>1, <1>4 DEF HelloHandler, SwitchFeaturesHandler, PortStatusHandler,
       HandlerSends, CallSetState, Entering
  <1>5. ASSUME Quiet \/ Writer \/ \E m \in SwitchMsg : Arrive(m) PROVE Entering
    BY <1>5 DEF Quiet, Writer, Write, WriteFails, WriterStops, Arrive, Entering
  <1>6. ASSUME Absorb
        PROVE  /\ Head(batch).type = "PortDesc" /\ ~Head(batch).more
               /\ state = "CONFIG" /\ UNCHANGED <<state, told>>
    BY <1>1, <1>6 DEF Absorb, CallSetState, Entering, InSetState
  <1> QED
    BY <1>2, <1>3, <1>4, <1>5, <1>6, StepKinds

\* Who is told what: of MAIN by the receive thread that enters it.
LEMMA ToldSteps ==
  ASSUME TInv, [Next]_vars
  PROVE  \/ Tell("recv") /\ Entering
         \/ told' = told
         \/ \E e : e # [phase |-> "MAIN"] /\ told' = Append(told, e)
  <1> USE DEF dpVars, sendVars, sockVars, threadVars, recvVars, appVars,
      switchVars, rest
  <1> DEFINE Other == \/ told' = told
                      \/ \E e : e # [phase |-> "MAIN"] /\ told' = Append(told, e)
  <1>1. ASSUME NEW t \in Thread, Test(t) \/ Assign(t) \/ Tell(t)
        PROVE  (Tell("recv") /\ Entering) \/ Other
    <2>1. CASE pc[t] = "tell" /\ target[t] = "MAIN"
      <3>1. t = "recv" /\ Entering
        BY <1>1, <2>1, SetStateFrame DEF Entering, InSetState, TargetOf
      <3>2. Tell("recv")
        BY <1>1, <2>1, <3>1 DEF Test, Assign
      <3> QED
        BY <3>1, <3>2
    <2>2. CASE pc[t] = "tell" /\ target[t] # "MAIN"
      <3>1. [phase |-> target[t]] # [phase |-> "MAIN"]
        BY <2>2
      <3> QED
        BY <1>1, <2>2, <3>1, SetStateFrame
    <2>3. CASE pc[t] # "tell"
      BY <1>1, <2>3, SetStateFrame
    <2> QED
      BY <2>1, <2>2, <2>3
  <1>2. Notify => Other
    <2>1. [msg |-> Head(batch), stamp |-> stamp] # [phase |-> "MAIN"]
      OBVIOUS
    <2> QED
      BY <2>1 DEF Notify
  <1>3. PortStatusHandler => Other
    <2>1. [portChange |-> Head(inbox).msg.port, stamp |-> state] # [phase |-> "MAIN"]
      OBVIOUS
    <2> QED
      BY <2>1 DEF PortStatusHandler
  <1>4. ASSUME ~Notify, ~PortStatusHandler,
               ~\E t \in Thread : Test(t) \/ Assign(t) \/ Tell(t)
        PROVE  told' = told
    BY <1>4, StepKinds DEF Quiet, Writer, Write, WriteFails, WriterStops,
       Parse, Stamp, Absorb, Publish, HelloHandler, SwitchFeaturesHandler,
       HandlerSends, Arrive
  <1> QED
    BY <1>1, <1>2, <1>3, <1>4

\* MAIN is told by the receive thread that enters it.
LEMMA ToldMainBy ==
  ASSUME TInv, [Next]_vars, ToldMain'
  PROVE  ToldMain \/ (Tell("recv") /\ Entering)
  <1>1. told \in Seq(Event)
    BY DEF TInv, TypeOK
  <1>2. ASSUME NEW e, e # [phase |-> "MAIN"], told' = Append(told, e) PROVE ToldMain
    BY <1>1, <1>2, AppendMembers DEF ToldMain
  <1> QED
    BY <1>2, ToldSteps DEF ToldMain

\* DescribedOnce is preserved.
LEMMA DescribedOnceStep ==
  ~Rogue /\ TInv /\ DescribedOnce /\ [Next]_vars => DescribedOnce'
  <1> SUFFICES ASSUME ~Rogue, TInv, DescribedOnce, [Next]_vars
               PROVE  DescribedOnce'
    OBVIOUS
  <1> USE DEF dpVars, sendVars, sockVars, threadVars, recvVars, appVars,
      switchVars, rest, Goto, Thread
  <1>1. /\ pc \in [Thread -> Label] /\ target \in [Thread -> Phase]
        /\ batch \in Seq(SwitchMsg) /\ told \in Seq(Event)
    BY DEF TInv, TypeOK
  <1>2. Described => Described'
    BY Grows DEF Described
  <1>3. Described' => OnWire(PD)'
    <2>1. ASSUME Described', ~Described PROVE OnWire(PD)
      <3>1. PICK type \in {"PortDesc", "PortDescPart"} : type \in sent' \ sent
        BY <2>1 DEF Described
      <3>2. PICK m \in SwitchMsg : Arrive(m)
        BY <3>1, SentSteps
      <3> QED
        BY <2>1, <3>2, DescribeArrives
    <2> QED
      BY <2>1, Grows DEF DescribedOnce, Described
  <1>4. ASSUME NEW i \in DOMAIN batch', batch'[i].type = "PortDesc"
        PROVE  /\ Described' /\ (~batch'[i].more => "PortDesc" \in sent')
               /\ \A j \in DOMAIN batch' : batch'[j].type = "PortDesc" /\ i < j => batch'[i].more
    <2>1. CASE batch' = batch
      BY <1>2, <1>4, <2>1, Grows DEF DescribedOnce, Described
    <2>2. CASE batch' = <<>>
      BY <1>4, <2>2
    <2>3. CASE batch # <<>> /\ batch' = Tail(batch)
      <3>1. i \in Nat \ {0} /\ i + 1 \in DOMAIN batch /\ batch'[i] = batch[i + 1]
        BY <1>1, <1>4, <2>3, TailMembers
      <3>2. Described' /\ (~batch'[i].more => "PortDesc" \in sent')
        BY <1>2, <1>4, <3>1, Grows DEF DescribedOnce, Described
      <3>3. ASSUME NEW j \in DOMAIN batch', batch'[j].type = "PortDesc", i < j
            PROVE  batch'[i].more
        <4>1. j \in Nat \ {0} /\ j + 1 \in DOMAIN batch /\ batch'[j] = batch[j + 1]
          BY <1>1, <2>3, <3>3, TailMembers
        <4>2. i + 1 < j + 1
          BY <3>1, <3>3, <4>1
        <4> QED
          BY <1>4, <3>1, <3>3, <4>1, <4>2 DEF DescribedOnce
      <3> QED
        BY <3>2, <3>3
    <2>4. ASSUME NEW m \in SwitchMsg, Arrive(m), batch' = Append(batch, m)
          PROVE  /\ Described' /\ (~batch'[i].more => "PortDesc" \in sent')
                 /\ \A j \in DOMAIN batch' : batch'[j].type = "PortDesc" /\ i < j => batch'[i].more
      <3>1. /\ Len(batch) \in Nat /\ DOMAIN batch = 1 .. Len(batch)
            /\ DOMAIN batch' = 1 .. Len(batch) + 1 /\ batch'[Len(batch) + 1] = m
            /\ \A k \in 1 .. Len(batch) : batch'[k] = batch[k]
        BY <1>1, <2>4, AppendEntries
      <3>2. CASE i = Len(batch) + 1
        <4>1. ~\E j \in DOMAIN batch' : i < j
          BY <3>1, <3>2
        <4> QED
          BY <1>4, <2>4, <3>1, <3>2, <4>1, DescribeArrives
      <3>3. CASE i \in DOMAIN batch
        <4>1. batch[i].type = "PortDesc" /\ batch'[i] = batch[i]
          BY <1>4, <3>1, <3>3
        <4>2. Described' /\ (~batch'[i].more => "PortDesc" \in sent')
          BY <1>2, <3>3, <4>1, Grows DEF DescribedOnce, Described
        <4>3. ASSUME NEW j \in DOMAIN batch', batch'[j].type = "PortDesc", i < j
              PROVE  batch'[i].more
          <5>1. CASE j \in DOMAIN batch
            BY <3>1, <3>3, <4>1, <4>3, <5>1 DEF DescribedOnce
          <5>2. CASE j = Len(batch) + 1
            <6>1. m.type = "PortDesc"
              BY <3>1, <4>3, <5>2
            <6>2. "PortDesc" \notin sent
              BY <2>4, <6>1, DescribeArrives
            <6>3. batch[i].more
              BY <3>3, <4>1, <6>2 DEF DescribedOnce
            <6> QED
              BY <4>1, <6>3
          <5> QED
            BY <3>1, <4>3, <5>1, <5>2
        <4> QED
          BY <4>2, <4>3
      <3> QED
        BY <3>1, <3>2, <3>3
    <2> QED
      BY <2>1, <2>2, <2>3, <2>4, BatchSteps
  <1>5. ASSUME Entering' \/ ToldMain'
        PROVE  /\ "PortDesc" \in sent'
               /\ \A i \in DOMAIN batch' : batch'[i].type = "PortDesc" =>
                     i = 1 /\ Dispatching' /\ pc'["recv"] # "absorb"
    <2>1. CASE Entering \/ ToldMain
      <3>1. "PortDesc" \in sent'
        BY <2>1, Grows DEF DescribedOnce
      <3>2. ASSUME NEW i \in DOMAIN batch', batch'[i].type = "PortDesc"
            PROVE  i = 1 /\ Dispatching' /\ pc'["recv"] # "absorb"
        <4>1. CASE batch' = batch
          <5>1. i = 1 /\ Dispatching /\ pc["recv"] # "absorb" /\ batch # <<>>
            BY <1>1, <2>1, <3>2, <4>1 DEF DescribedOnce
          <5>2. ~Notify
            BY <1>1, <4>1, <5>1 DEF Notify
          <5> QED
            BY <4>1, <5>1, <5>2, DispatchSteps
        <4>2. CASE batch' = <<>>
          BY <3>2, <4>2
        <4>3. CASE batch # <<>> /\ batch' = Tail(batch)
          <5>1. i \in Nat \ {0} /\ i + 1 \in DOMAIN batch /\ batch'[i] = batch[i + 1]
            BY <1>1, <3>2, <4>3, TailMembers
          <5>2. i + 1 = 1
            BY <2>1, <3>2, <5>1 DEF DescribedOnce
          <5> QED
            BY <5>1, <5>2
        <4>4. ASSUME NEW m \in SwitchMsg, Arrive(m), batch' = Append(batch, m)
              PROVE  FALSE
          <5>1. m.type # "PortDesc" /\ pc["recv"] = "read"
            BY <2>1, <4>4, DescribeArrives DEF DescribedOnce
          <5>2. i \in DOMAIN batch /\ batch[i].type = "PortDesc"
            BY <1>1, <3>2, <4>4, <5>1, AppendEntries
          <5> QED
            BY <2>1, <5>1, <5>2 DEF DescribedOnce, Dispatching, Entering, InSetState
        <4> QED
          BY <4>1, <4>2, <4>3, <4>4, BatchSteps
      <3> QED
        BY <3>1, <3>2
    <2>2. CASE ~Entering /\ ~ToldMain
      <3>1. ~ToldMain'
        BY <2>2, ToldMainBy
      <3>2. Absorb /\ Head(batch).type = "PortDesc" /\ ~Head(batch).more
        BY <1>5, <2>2, <3>1, EnteringBy
      <3>3. /\ batch # <<>> /\ pc["recv"] = "absorb" /\ UNCHANGED <<batch, sent>>
            /\ Head(batch).type = "PortDesc" /\ ~Head(batch).more
            /\ pc'["recv"] = "test" /\ Dispatching'
        <4>1. batch # <<>> /\ pc["recv"] = "absorb" /\ UNCHANGED <<batch, sent>>
          BY <3>2 DEF Absorb, TInv, Loaded
        <4>2. Entering'
          BY <1>5, <3>1
        <4>3. pc'["recv"] = "test"
          BY <1>1, <3>2, <4>2 DEF Absorb, CallSetState, Entering, InSetState
        <4> QED
          BY <3>2, <4>1, <4>2, <4>3 DEF Dispatching
      <3>4. 1 \in DOMAIN batch /\ Head(batch) = batch[1] /\ \A i \in DOMAIN batch : i = 1 \/ 1 < i
        BY <1>1, <3>3
      <3>5. "PortDesc" \in sent
        BY <3>3, <3>4 DEF DescribedOnce
      <3>6. \A i \in DOMAIN batch : batch[i].type = "PortDesc" => i = 1
        BY <3>3, <3>4 DEF DescribedOnce
      <3> QED
        BY <3>3, <3>5, <3>6
    <2> QED
      BY <2>1, <2>2
  <1> QED
    BY <1>3, <1>4, <1>5 DEF DescribedOnce, Described

\* Stamped is preserved: the request was sent behind CONFIG, and MAIN is
\* entered when both answers have been absorbed.
LEMMA StampedStep ==
  HInv /\ [Next]_vars => Stamped'
  <1> SUFFICES ASSUME HInv, [Next]_vars, Dispatching',
                      Head(batch').type \in {"Features", "PortDesc"}
               PROVE  stamp' \in {"CONFIG", "DEAD"}
    BY DEF Stamped
  <1> USE DEF dpVars, sendVars, sockVars, threadVars, recvVars, appVars,
      switchVars, rest, Goto, Thread
  <1>1. /\ pc \in [Thread -> Label] /\ target \in [Thread -> Phase]
        /\ batch \in Seq(SwitchMsg) /\ state \in Phase /\ TInv
    BY DEF TInv, TypeOK, HInv
  <1>2. CASE Stamp
    <2>1. /\ batch' = batch /\ batch # <<>> /\ pc["recv"] = "stamp" /\ stamp' = state
      BY <1>2 DEF Stamp
    <2>2. 1 \in DOMAIN batch /\ Head(batch) = batch[1]
      BY <1>1, <2>1
    <2>3. ~Dispatching
      BY <2>1 DEF Dispatching, Entering, InSetState
    <2>4. OnWire(PD) => "Features" \in sent
      BY DEF HInv, PortsAfterFeatures, Sent
    <2>5. "Features" \in sent
      BY <2>1, <2>2, <2>4 DEF HInv, FeaturesOnce, DescribedOnce
    <2>6. state # "HANDSHAKE"
      BY <2>5 DEF HInv, FeaturesOnce, Sent
    <2>7. ~ToldMain
      <3> SUFFICES ASSUME ToldMain PROVE FALSE
        OBVIOUS
      <3>1. batch[1].type = "Features"
        BY <2>1, <2>2, <2>3 DEF HInv, DescribedOnce
      <3>2. OnWire(PD)
        BY DEF HInv, DescribedOnce
      <3> QED
        BY <2>1, <2>2, <3>1, <3>2 DEF HInv, PortsAfterFeatures, Sent
    <2>8. state # "MAIN"
      BY <2>1, <2>7 DEF HInv, MainFirst
    <2> QED
      BY <1>1, <2>1, <2>6, <2>8 DEF Phase
  <1>3. CASE ~Stamp
    <2>1. /\ stamp' = stamp /\ batch' = batch /\ Dispatching
      <3> USE DEF Dispatching, Entering, InSetState
      <3>1. CASE Quiet \/ Writer
        BY <3>1 DEF Quiet, Writer, Write, WriteFails, WriterStops
      <3>2. ASSUME NEW t \in Thread, Test(t) \/ Assign(t) \/ Tell(t)
            PROVE  /\ stamp' = stamp /\ batch' = batch /\ Dispatching
        BY <1>1, <3>2, SetStateFrame DEF AfterSetState, TargetOf
      <3>3. CASE Absorb \/ Publish
        BY <1>1, <3>3 DEF Absorb, Publish
      <3>4. ASSUME Parse \/ Notify PROVE FALSE
        BY <1>1, <3>4 DEF Parse, Notify
      <3>5. CASE HelloHandler \/ SwitchFeaturesHandler \/ PortStatusHandler \/ HandlerSends
        BY <1>1, <3>5 DEF HelloHandler, SwitchFeaturesHandler, PortStatusHandler,
           HandlerSends, CallSetState
      <3>6. ASSUME NEW m \in SwitchMsg, Arrive(m) PROVE FALSE
        BY <3>6 DEF Arrive
      <3> QED
        BY <1>1, <1>3, <3>1, <3>2, <3>3, <3>4, <3>5, <3>6, StepKinds
    <2> QED
      BY <2>1 DEF HInv, Stamped
  <1> QED
    BY <1>2, <1>3

\* The invariant of the handshake holds initially.
THEOREM HInvInit == Init => HInv
  <1> SUFFICES ASSUME Init PROVE HInv
    OBVIOUS
  <1>1. /\ state = "HANDSHAKE" /\ stamp = "HANDSHAKE" /\ sent = {}
        /\ queue = <<>> /\ wire = <<>> /\ batch = <<>> /\ inbox = <<>> /\ out = <<>>
        /\ told = <<[phase |-> "HANDSHAKE"]>> /\ pc["recv"] = "start"
    BY DEF Init, Thread
  <1>2. ~Sent(FR) /\ ~Sent(PD) /\ ~Due(FR) /\ ~Due(PD) /\ ~Inboxed("Features")
    BY <1>1 DEF Sent, OnWire, Queued, Due, Inboxed
  <1>3. ~Dispatching /\ ~Entering /\ ~ToldMain
    BY <1>1 DEF Dispatching, Entering, InSetState, ToldMain
  <1>4. MainFirst
    <2>1. [phase |-> "HANDSHAKE"] \in [phase : Phase]
      BY DEF Phase
    <2> QED
      BY <1>1, <2>1 DEF MainFirst
  <1>5. Framed /\ FeaturesOnce /\ DescribedOnce /\ Stamped
    BY <1>1, <1>2, <1>3 DEF Framed, FeaturesOnce, DescribedOnce, Stamped
  <1>6. PortsAfterFeatures
    BY <1>1, <1>2 DEF PortsAfterFeatures
  <1> QED
    BY <1>4, <1>5, <1>6, TInvInit DEF HInv

\* With a switch that follows the protocol, every step preserves it.
THEOREM HInvStep == ~Rogue /\ HInv /\ [Next]_vars => HInv'
  <1> SUFFICES ASSUME ~Rogue, HInv, [Next]_vars PROVE HInv'
    OBVIOUS
  <1>1. TInv' /\ Framed' /\ MainFirst'
    BY TInvStep, FramedStep, MainFirstStep DEF HInv
  <1>2. FeaturesOnce' /\ PortsAfterFeatures' /\ DescribedOnce' /\ Stamped'
    BY FeaturesOnceStep, PortsAfterFeaturesStep, DescribedOnceStep, StampedStep DEF HInv
  <1> QED
    BY <1>1, <1>2 DEF HInv

\* With a switch that follows the protocol, applications learn of MAIN only
\* once the id is known, and of a port's status in MAIN only behind it,
\* however the receive thread, the handlers and a closer interleave.
THEOREM NewsComesInOrder == ~Rogue => (Spec => []NewsInOrder)
  <1> SUFFICES ASSUME ~Rogue PROVE Spec => []NewsInOrder
    OBVIOUS
  <1>1. HInv => NewsInOrder
    <2> SUFFICES ASSUME HInv PROVE NewsInOrder
      OBVIOUS
    <2>1. ToldMain => id # NoId
      BY DEF HInv, DescribedOnce, PortsAfterFeatures, Sent
    <2> QED
      BY <2>1 DEF HInv, MainFirst, ToldMain, NewsInOrder
  <1>2. HInv /\ [Next]_vars => HInv'
    BY HInvStep
  <1> QED
    BY <1>1, <1>2, HInvInit, PTL DEF Spec

\* With a switch that follows the protocol, no answer is lost to the phase
\* filter: it is stamped with the phase that asked for it, or the connection
\* was closed meanwhile.
THEOREM AnswersFitTheirPhase == ~Rogue => (Spec => []StampFitsReply)
  <1> SUFFICES ASSUME ~Rogue PROVE Spec => []StampFitsReply
    OBVIOUS
  <1>1. HInv => StampFitsReply
    BY DEF HInv, Stamped, Dispatching, StampFitsReply
  <1>2. HInv /\ [Next]_vars => HInv'
    BY HInvStep
  <1> QED
    BY <1>1, <1>2, HInvInit, PTL DEF Spec

-----------------------------------------------------------------------------
(* The end of the connection, with keepalive off. Whoever closes while     *)
(* MAIN is being entered may tell DEAD before the receive thread tells     *)
(* MAIN; with keepalive off nobody does: a handler closes only behind a    *)
(* hello no answer followed, another application only once told of MAIN.   *)

\* The handler is on its way out of hello_failed.
HandlerCloses ==
    \/ pc["handler"] \in {"fail", "stop", "sentinel"}
    \/ pc["handler"] \in InSetState /\ target["handler"] = "DEAD"

\* A hello is accepted or refused, not both.
Greetings ==
    /\ ~("Hello" \in sent /\ "BadHello" \in sent)
    /\ \A i \in DOMAIN batch :
          batch[i].type \in {"Hello", "BadHello"} => batch[i].type \in sent
    /\ \A i \in DOMAIN inbox :
          inbox[i].msg.type \in {"Hello", "BadHello"} => inbox[i].msg.type \in sent
    /\ HandlerCloses => "BadHello" \in sent
    /\ Due(FR) \/ Sent(FR) => "Hello" \in sent

\* Nobody closes while MAIN is entered.
EntersAlone ==
    /\ Entering => state # "DEAD" /\ ~ToldMain
    /\ pc["closer"] # "idle" => ToldMain
    /\ pc["echo"] \notin InClose

\* DEAD was told, and MAIN not since.
ToldDead ==
    \E i \in DOMAIN told :
        /\ told[i] = [phase |-> "DEAD"]
        /\ \A j \in DOMAIN told : told[j] = [phase |-> "MAIN"] => j < i

\* Some thread is about to tell DEAD.
TellsDead == \E t \in Thread : pc[t] = "tell" /\ target[t] = "DEAD"

\* Who finds the datapath DEAD may rely on the news.
DeadIsNews ==
    state = "DEAD" \/ pc["recv"] \in {"sentinel", "done"} => ToldDead \/ TellsDead

\* The inductive invariant of the end.
EInv == HInv /\ WriterState /\ Greetings /\ EntersAlone /\ DeadIsNews

\* Where the threads that close come from, and that a thread about to tell
\* does so.
LEMMA CloseSteps ==
  ASSUME TInv, WriterState, [Next]_vars
  PROVE  /\ HandlerCloses' => HandlerCloses \/ BadHelloHandler
         /\ pc'["closer"] # "idle" => pc["closer"] # "idle" \/ ToldMain
         /\ MaxUnreplied = 0 /\ pc["echo"] \notin InClose => pc'["echo"] \notin InClose
         /\ pc'["recv"] \in {"sentinel", "done"} =>
              \/ pc["recv"] \in {"sentinel", "done"}
              \/ Test("recv") /\ state = "DEAD"
              \/ Tell("recv") /\ target["recv"] = "DEAD"
         /\ \A t \in Thread :
              pc[t] = "tell" => Tell(t) \/ (pc'[t] = "tell" /\ target'[t] = target[t])
  <1> DEFINE Goal ==
         /\ HandlerCloses' => HandlerCloses \/ BadHelloHandler
         /\ pc'["closer"] # "idle" => pc["closer"] # "idle" \/ ToldMain
         /\ MaxUnreplied = 0 /\ pc["echo"] \notin InClose => pc'["echo"] \notin InClose
         /\ pc'["recv"] \in {"sentinel", "done"} =>
              \/ pc["recv"] \in {"sentinel", "done"}
              \/ Test("recv") /\ state = "DEAD"
              \/ Tell("recv") /\ target["recv"] = "DEAD"
         /\ \A t \in Thread :
              pc[t] = "tell" => Tell(t) \/ (pc'[t] = "tell" /\ target'[t] = target[t])
  <1> USE DEF dpVars, sendVars, sockVars, threadVars, recvVars, appVars,
      switchVars, rest, Goto, Thread, HandlerCloses, InClose, InSetState
  <1>1. /\ pc \in [Thread -> Label] /\ target \in [Thread -> Phase]
        /\ \A t \in Thread : /\ pc[t] \in LabelOf(t) /\ back[t] \in BackOf(t)
                             /\ pc[t] \in InSetState => target[t] \in TargetOf(t)
    BY DEF TInv, TypeOK, Control
  <1>2. ASSUME NEW t \in Thread, Test(t) \/ Assign(t) \/ Tell(t) PROVE Goal
    <2>1. /\ pc[t] \in InSetState /\ \A u \in Thread \ {t} : pc'[u] = pc[u]
          /\ target' = target /\ target[t] \in TargetOf(t)
          /\ pc'[t] = IF pc[t] = "test" /\ state # target[t] THEN "assign"
                      ELSE IF pc[t] = "assign" THEN "tell"
                      ELSE AfterSetState(t)
      BY <1>2, SetStateFrame
    <2>2. pc[t] = "tell" => Tell(t)
      BY <1>2 DEF Test, Assign
    <2>3. pc[t] = "test" => Test(t)
      BY <1>2 DEF Tell, Assign
    <2>4. HandlerCloses' => HandlerCloses
      BY <2>1 DEF AfterSetState, TargetOf
    <2>5. pc'["closer"] # "idle" => pc["closer"] # "idle"
      BY <2>1
    <2>6. pc["echo"] \notin InClose => pc'["echo"] \notin InClose
      BY <2>1
    <2>7. pc'["recv"] \in {"sentinel", "done"} =>
              \/ pc["recv"] \in {"sentinel", "done"}
              \/ Test("recv") /\ state = "DEAD"
              \/ Tell("recv") /\ target["recv"] = "DEAD"
      BY <2>1, <2>2, <2>3 DEF AfterSetState, TargetOf
    <2>8. \A u \in Thread :
              pc[u] = "tell" => Tell(u) \/ (pc'[u] = "tell" /\ target'[u] = target[u])
      BY <2>1, <2>2
    <2> QED
      BY <2>4, <2>5, <2>6, <2>7, <2>8
  <1>3. ASSUME NEW t \in Thread, Stop(t) \/ PutSentinel(t) PROVE Goal
    <2>1. CASE Stop(t)
      BY <1>1, <2>1 DEF Stop, CallSetState
    <2>2. CASE PutSentinel(t)
      BY <1>1, <2>2 DEF PutSentinel, BackOf
    <2> QED
      BY <1>3, <2>1, <2>2
  <1>4. CASE Receiver /\ ~SetStateOrClose("recv")
    <2>1. CASE LoopTest \/ Timeout \/ BatchDone
      BY <1>1, <2>1 DEF LoopTest, Timeout, BatchDone, Jump
    <2>5. CASE Serve
      <3>1. pc["recv"] = "start" /\ pc["echo"] = "off"
        BY <2>5 DEF Serve, WriterState
      <3> QED
        BY <1>1, <2>5, <3>1 DEF Serve
    <2>7. CASE Stamp
      BY <1>1, <2>7 DEF Stamp
    <2>6. CASE Parse
      BY <1>1, <2>6 DEF Parse
    <2>2. CASE Absorb
      BY <1>1, <2>2 DEF Absorb, CallSetState
    <2>3. CASE Publish \/ Notify
      BY <1>1, <2>3 DEF Publish, Notify
    <2>4. CASE HelloFailed("recv", "final") \/ Final \/ Join
      BY <1>1, <2>4 DEF HelloFailed, Final, Join, CallClose
    <2> QED
      BY <1>4, <2>1, <2>2, <2>3, <2>4, <2>5, <2>6, <2>7 DEF Receiver
  <1>5. CASE EchoDisabled \/ EchoSend \/ EchoGivesUp \/ EchoWait
    <2>1. CASE EchoDisabled \/ EchoWait
      BY <1>1, <2>1 DEF EchoDisabled, EchoWait, Jump
    <2>2. CASE EchoSend
      BY <1>1, <2>2 DEF EchoSend
    <2>3. CASE EchoGivesUp
      BY <1>1, <2>3 DEF EchoGivesUp, CallClose
    <2> QED
      BY <1>5, <2>1, <2>2, <2>3
  <1>6. CASE Handler /\ ~SetStateOrClose("handler")
    <2>1. CASE HelloHandler \/ BadHelloHandler
      BY <1>1, <2>1 DEF HelloHandler, BadHelloHandler, Arrives, CallSetState
    <2>2. CASE SwitchFeaturesHandler \/ EchoRequestHandler \/ PortStatusHandler \/ DropEvent
      BY <1>1, <2>2 DEF SwitchFeaturesHandler, EchoRequestHandler,
         PortStatusHandler, DropEvent, Arrives
    <2>3. CASE HandlerSends
      BY <1>1, <2>3 DEF HandlerSends
    <2>4. CASE HelloFailed("handler", "idle")
      BY <1>1, <2>4 DEF HelloFailed, CallClose
    <2> QED
      BY <1>6, <2>1, <2>2, <2>3, <2>4 DEF Handler
  <1>7. CASE ClosedByOther
    BY <1>1, <1>7 DEF ClosedByOther, CallClose, ToldMain
  <1>8. CASE Writer \/ Switch
    BY <1>1, <1>8 DEF Writer, Write, WriteFails, WriterStops, Switch, Disconnect,
       Jump, Arrive
  <1>9. CASE UNCHANGED vars
    BY <1>9 DEF vars
  <1> QED
    BY <1>2, <1>3, <1>4, <1>5, <1>6, <1>7, <1>8, <1>9 DEF Next, Receiver, Echo,
       Handler, Closer, SetStateOrClose

\* The news of DEAD lasts until MAIN is told, and is told if promised.
LEMMA DeadSteps ==
  ASSUME TInv, WriterState, [Next]_vars, ToldDead \/ TellsDead, ~(Tell("recv") /\ Entering)
  PROVE  ToldDead' \/ TellsDead'
  <1>1. told \in Seq(Event)
    BY DEF TInv, TypeOK
  <1>2. ASSUME ToldDead PROVE ToldDead'
    <2>1. ASSUME NEW e, e # [phase |-> "MAIN"], told' = Append(told, e) PROVE ToldDead'
      <3>1. PICK i \in DOMAIN told :
               /\ told[i] = [phase |-> "DEAD"]
               /\ \A j \in DOMAIN told : told[j] = [phase |-> "MAIN"] => j < i
        BY <1>2 DEF ToldDead
      <3>2. i \in DOMAIN told' /\ told'[i] = told[i]
        BY <1>1, <2>1, AppendEntries
      <3>3. \A j \in DOMAIN told' : told'[j] = [phase |-> "MAIN"] => j < i
        BY <1>1, <2>1, <3>1, AppendMembers
      <3> QED
        BY <3>1, <3>2, <3>3 DEF ToldDead
    <2>2. told' = told => ToldDead'
      BY <1>2 DEF ToldDead
    <2> QED
      BY <2>1, <2>2, ToldSteps
  <1>3. ASSUME TellsDead PROVE ToldDead' \/ TellsDead'
    <2>1. PICK t \in Thread : pc[t] = "tell" /\ target[t] = "DEAD"
      BY <1>3 DEF TellsDead
    <2>2. CASE Tell(t)
      <3>1. told' = Append(told, [phase |-> "DEAD"])
        BY <2>1, <2>2 DEF Tell
      <3>2. /\ Len(told) \in Nat /\ DOMAIN told' = 1 .. Len(told) + 1
            /\ DOMAIN told = 1 .. Len(told)
            /\ told'[Len(told) + 1] = [phase |-> "DEAD"]
        BY <1>1, <3>1, AppendEntries
      <3>3. \A j \in DOMAIN told' : told'[j] = [phase |-> "MAIN"] => j < Len(told) + 1
        <4>1. [phase |-> "MAIN"] # [phase |-> "DEAD"]
          OBVIOUS
        <4> QED
          BY <3>2, <4>1
      <3> QED
        BY <3>2, <3>3 DEF ToldDead
    <2>3. CASE ~Tell(t)
      BY <2>1, <2>3, CloseSteps DEF TellsDead
    <2> QED
      BY <2>2, <2>3
  <1> QED
    BY <1>2, <1>3

\* Greetings is preserved.
LEMMA GreetingsStep ==
  ~Rogue /\ TInv /\ WriterState /\ Greetings /\ [Next]_vars => Greetings'
  <1> SUFFICES ASSUME ~Rogue, TInv, WriterState, Greetings, [Next]_vars
               PROVE  Greetings'
    OBVIOUS
  <1> USE DEF dpVars, sendVars, sockVars, threadVars, recvVars, appVars,
      switchVars, rest, Goto, Thread
  <1>1. /\ pc \in [Thread -> Label] /\ target \in [Thread -> Phase]
        /\ batch \in Seq(SwitchMsg) /\ out \in Seq(CtlMsg)
        /\ inbox \in Seq([msg : SwitchMsg, stamp : Phase])
    BY DEF TInv, TypeOK
  <1>2. sent \subseteq sent'
    BY Grows
  <1>3. ~("Hello" \in sent' /\ "BadHello" \in sent')
    <2>1. ASSUME NEW m \in SwitchMsg, Arrive(m)
          PROVE  ~("Hello" \in sent' /\ "BadHello" \in sent')
      <3>1. sent' = sent \cup {IF m.type = "PortDesc" /\ m.more THEN "PortDescPart" ELSE m.type}
        BY <2>1 DEF Arrive
      <3>2. m.type \in {"Hello", "BadHello"} => "Hello" \notin sent /\ "BadHello" \notin sent
        BY <2>1 DEF Arrive, FollowsProtocol, Greeted
      <3> QED
        BY <3>1, <3>2 DEF Greetings
    <2>2. CASE ~\E m \in SwitchMsg : Arrive(m)
      BY <2>2, SentSteps DEF Greetings
    <2> QED
      BY <2>1, <2>2
  <1>4. ASSUME NEW i \in DOMAIN batch', batch'[i].type \in {"Hello", "BadHello"}
        PROVE  batch'[i].type \in sent'
    <2>1. CASE batch' = batch
      BY <1>2, <1>4, <2>1 DEF Greetings
    <2>2. CASE batch' = <<>>
      BY <1>4, <2>2
    <2>3. CASE batch # <<>> /\ batch' = Tail(batch)
      <3>1. i + 1 \in DOMAIN batch /\ batch'[i] = batch[i + 1]
        BY <1>1, <2>3, TailMembers
      <3> QED
        BY <1>2, <1>4, <3>1 DEF Greetings
    <2>4. ASSUME NEW m \in SwitchMsg, Arrive(m), batch' = Append(batch, m)
          PROVE  batch'[i].type \in sent'
      <3>1. m.type \in {"Hello", "BadHello"} => m.type \in sent'
        BY <2>4 DEF Arrive
      <3>2. (i \in DOMAIN batch /\ batch'[i] = batch[i]) \/ batch'[i] = m
        BY <1>1, <2>4, AppendMembers
      <3> QED
        BY <1>2, <1>4, <3>1, <3>2 DEF Greetings
    <2> QED
      BY <2>1, <2>2, <2>3, <2>4, BatchSteps
  <1>5. ASSUME NEW i \in DOMAIN inbox', inbox'[i].msg.type \in {"Hello", "BadHello"}
        PROVE  inbox'[i].msg.type \in sent'
    <2>1. CASE Publish
      <3>1. batch # <<>>
        BY <2>1 DEF Publish, TInv, Loaded
      <3>2. 1 \in DOMAIN batch /\ Head(batch) = batch[1]
        BY <1>1, <3>1
      <3> DEFINE e == [msg |-> Head(batch), stamp |-> stamp]
      <3>3. e.msg.type \in {"Hello", "BadHello"} => e.msg.type \in sent
        BY <3>2 DEF Greetings
      <3>4. inbox' = inbox \/ inbox' = Append(inbox, e)
        BY <2>1 DEF Publish
      <3> HIDE DEF e
      <3>5. (i \in DOMAIN inbox /\ inbox'[i] = inbox[i]) \/ inbox'[i] = e
        <4>1. CASE inbox' = inbox
          BY <4>1
        <4>2. CASE inbox' = Append(inbox, e)
          BY <1>1, <4>2, AppendMembers
        <4> QED
          BY <3>4, <4>1, <4>2
      <3> QED
        BY <1>2, <1>5, <3>3, <3>5 DEF Greetings
    <2>2. CASE ~Publish
      <3>1. inbox' = inbox \/ (inbox # <<>> /\ inbox' = Tail(inbox))
        BY <2>2, StepKinds, SetStateFrame DEF Quiet, Writer, Write, WriteFails, WriterStops,
           Parse, Stamp, Absorb, Notify, HelloHandler, SwitchFeaturesHandler,
           PortStatusHandler, HandlerSends, Arrive, Arrives
      <3>2. \E j \in DOMAIN inbox : inbox'[i] = inbox[j]
        BY <1>1, <3>1, TailMembers
      <3> QED
        BY <1>2, <1>5, <3>2 DEF Greetings
    <2> QED
      BY <2>1, <2>2
  <1>6. HandlerCloses' => "BadHello" \in sent'
    <2>1. ASSUME BadHelloHandler PROVE "BadHello" \in sent
      <3>1. inbox # <<>> /\ Head(inbox).msg.type = "BadHello"
        BY <2>1 DEF BadHelloHandler, Arrives
      <3>2. 1 \in DOMAIN inbox /\ Head(inbox) = inbox[1]
        BY <1>1, <3>1
      <3> QED
        BY <3>1, <3>2 DEF Greetings
    <2> QED
      BY <1>2, <2>1, CloseSteps DEF Greetings
  <1>7. Due(FR)' => Due(FR) \/ "Hello" \in sent
    <2>1. ASSUME HelloHandler PROVE "Hello" \in sent
      <3>1. inbox # <<>> /\ Head(inbox).msg.type = "Hello"
        BY <2>1 DEF HelloHandler, Arrives
      <3>2. 1 \in DOMAIN inbox /\ Head(inbox) = inbox[1]
        BY <1>1, <3>1
      <3> QED
        BY <3>1, <3>2 DEF Greetings
    <2>2. CASE HandlerSends
      <3>1. out # <<>> /\ out' = Tail(out)
        BY <2>2 DEF HandlerSends, TInv, Loaded
      <3> QED
        BY <1>1, <3>1, TailMembers DEF Due
    <2>3. CASE ~HelloHandler /\ ~HandlerSends
      <3>1. out' = out \/ out' = <<"EchoReply">> \/ out' = <<"SetConfig", PD>>
        BY <2>3, StepKinds, SetStateFrame DEF Quiet, Writer, Write, WriteFails, WriterStops,
           Parse, Stamp, Absorb, Notify, Publish, SwitchFeaturesHandler,
           PortStatusHandler, Arrive, PD
      <3> QED
        BY <3>1 DEF Due, PD, FR
    <2> QED
      BY <2>1, <2>2, <2>3
  <1>8. Sent(FR)' => Sent(FR) \/ Due(FR)
    <2>1. ASSUME HandlerSends, Head(out) = FR PROVE Due(FR)
      <3>1. out # <<>>
        BY <2>1 DEF HandlerSends, TInv, Loaded
      <3> QED
        BY <1>1, <2>1, <3>1 DEF Due
    <2> QED
      BY <2>1, SentBy
  <1> QED
    BY <1>2, <1>3, <1>4, <1>5, <1>6, <1>7, <1>8 DEF Greetings

\* EntersAlone is preserved.
LEMMA EntersAloneStep ==
  ~Rogue /\ MaxUnreplied = 0 /\ EInv /\ [Next]_vars => EntersAlone'
  <1> SUFFICES ASSUME ~Rogue, MaxUnreplied = 0, EInv, [Next]_vars PROVE EntersAlone'
    OBVIOUS
  <1> USE DEF EInv
  <1>1. TInv /\ pc \in [Thread -> Label] /\ target \in [Thread -> Phase]
    BY DEF HInv, TInv, TypeOK
  <1>2. pc'["closer"] # "idle" => ToldMain'
    BY <1>1, CloseSteps, Grows DEF EntersAlone
  <1>3. pc'["echo"] \notin InClose
    BY <1>1, CloseSteps DEF EntersAlone
  <1>4. ASSUME Entering' PROVE state' # "DEAD" /\ ~ToldMain'
    <2>1. CASE Entering
      <3>1. ~(Tell("recv") /\ Entering)
        <4> SUFFICES ASSUME Tell("recv") PROVE FALSE
          OBVIOUS
        <4>1. pc'["recv"] = AfterSetState("recv")
          BY <1>1 DEF Tell, Goto, Thread
        <4> QED
          BY <1>4, <4>1 DEF Entering, InSetState, AfterSetState
      <3>2. ~ToldMain'
        BY <1>1, <2>1, <3>1, ToldMainBy DEF EntersAlone
      <3>3. "Hello" \in sent
        BY <2>1 DEF HInv, DescribedOnce, PortsAfterFeatures, FeaturesOnce, Sent, Greetings
      <3>4. ASSUME NEW t \in Thread, pc[t] = "assign", target[t] = "DEAD" PROVE FALSE
        <4>1. t # "recv" /\ t # "handler"
          BY <2>1, <3>3, <3>4 DEF Entering, Greetings, HandlerCloses, InSetState
        <4>2. t # "closer" /\ t # "echo"
          BY <2>1, <3>4 DEF EntersAlone, InClose, InSetState
        <4> QED
          BY <4>1, <4>2 DEF Thread
      <3>5. state' = "DEAD" => state = "DEAD"
        <4>1. ASSUME NEW t \in Thread, Test(t) \/ Assign(t) \/ Tell(t), state' = "DEAD"
              PROVE  state = "DEAD"
          BY <1>1, <3>4, <4>1, SetStateFrame
        <4>2. CASE ~\E t \in Thread : Test(t) \/ Assign(t) \/ Tell(t)
          BY <1>1, <4>2, StepKinds DEF Quiet, Writer, Write, WriteFails,
             WriterStops, Parse, Notify, Stamp, Absorb, Publish, HelloHandler,
             SwitchFeaturesHandler, PortStatusHandler, HandlerSends, Arrive,
             dpVars
        <4> QED
          BY <4>1, <4>2
      <3> QED
        BY <2>1, <3>2, <3>5 DEF EntersAlone
    <2>2. CASE ~Entering
      <3>1. /\ Absorb /\ Head(batch).type = "PortDesc" /\ state = "CONFIG"
            /\ UNCHANGED <<state, told>>
        BY <1>1, <1>4, <2>2, EnteringBy
      <3>2. batch # <<>> /\ pc["recv"] = "absorb" /\ batch \in Seq(SwitchMsg)
        BY <1>1, <3>1 DEF Absorb, TInv, TypeOK, Loaded
      <3>3. 1 \in DOMAIN batch /\ Head(batch) = batch[1]
        BY <3>2
      <3>4. ~ToldMain
        BY <3>1, <3>2, <3>3 DEF HInv, DescribedOnce
      <3>5. ~ToldMain'
        BY <3>1, <3>4 DEF ToldMain
      <3> QED
        BY <3>1, <3>5
    <2> QED
      BY <2>1, <2>2
  <1> QED
    BY <1>2, <1>3, <1>4 DEF EntersAlone

\* DeadIsNews is preserved: no MAIN is told on top of DEAD.
LEMMA DeadIsNewsStep == EInv /\ [Next]_vars => DeadIsNews'
  <1> SUFFICES ASSUME EInv, [Next]_vars,
                      state' = "DEAD" \/ pc'["recv"] \in {"sentinel", "done"}
               PROVE  ToldDead' \/ TellsDead'
    BY DEF DeadIsNews
  <1> USE DEF EInv
  <1>1. /\ TInv /\ pc \in [Thread -> Label] /\ target \in [Thread -> Phase]
        /\ told \in Seq(Event)
    BY DEF HInv, TInv, TypeOK
  <1>2. state = "DEAD" \/ pc["recv"] \in {"sentinel", "done"} => ~Entering
    BY DEF EntersAlone, Entering, InSetState
  <1>3. state = "DEAD" \/ pc["recv"] \in {"sentinel", "done"} => ToldDead' \/ TellsDead'
    BY <1>1, <1>2, DeadSteps DEF DeadIsNews
  <1>4. ASSUME state' = "DEAD", state # "DEAD" PROVE TellsDead'
    <2>1. PICK t \in Thread : Test(t) \/ Assign(t) \/ Tell(t)
      BY <1>1, <1>4, StepKinds DEF Quiet, Writer, Write, WriteFails,
         WriterStops, Parse, Notify, Stamp, Absorb, Publish, HelloHandler,
         SwitchFeaturesHandler, PortStatusHandler, HandlerSends, Arrive,
         dpVars
    <2>2. pc[t] = "assign" /\ target[t] = "DEAD" /\ target' = target /\ pc'[t] = "tell"
      BY <1>1, <1>4, <2>1, SetStateFrame
    <2> QED
      BY <2>2 DEF TellsDead
  <1>5. ASSUME Tell("recv"), target["recv"] = "DEAD" PROVE ToldDead' \/ TellsDead'
    <2>1. TellsDead
      BY <1>5 DEF Tell, TellsDead, Thread
    <2>2. ~Entering
      BY <1>5 DEF Entering
    <2> QED
      BY <1>1, <2>1, <2>2, DeadSteps
  <1> QED
    BY <1>1, <1>3, <1>4, <1>5, CloseSteps

\* The invariant of the end holds initially.
THEOREM EInvInit == Init => EInv
  <1> SUFFICES ASSUME Init PROVE EInv
    OBVIOUS
  <1>1. /\ state = "HANDSHAKE" /\ sent = {} /\ batch = <<>> /\ inbox = <<>>
        /\ out = <<>> /\ queue = <<>> /\ wire = <<>>
        /\ pc["recv"] = "start" /\ pc["handler"] = "idle" /\ pc["closer"] = "idle"
        /\ pc["echo"] = "off"
    BY DEF Init, Thread
  <1>2. ~Entering /\ ~HandlerCloses /\ ~Due(FR) /\ ~Sent(FR)
    BY <1>1 DEF Entering, HandlerCloses, InSetState, Due, Sent, OnWire, Queued
  <1>3. WriterState /\ Greetings /\ EntersAlone /\ DeadIsNews
    BY <1>1, <1>2 DEF Init, WriterState, Greetings, EntersAlone, DeadIsNews, InClose, InSetState
  <1> QED
    BY <1>3, HInvInit DEF EInv

\* With keepalive off and a switch that follows the protocol, every
\* connection ends with DEAD for whoever was told of MAIN, whoever closes it
\* and however often: no application keeps it registered.
THEOREM EndsWithDead == ~Rogue /\ MaxUnreplied = 0 => (Spec => []EndsDead)
  <1> SUFFICES ASSUME ~Rogue, MaxUnreplied = 0 PROVE Spec => []EndsDead
    OBVIOUS
  <1>1. EInv => EndsDead
    <2>1. (\A t \in Thread : pc[t] \in {"idle", "done"}) => ~TellsDead
      BY DEF TellsDead
    <2> QED
      BY <2>1 DEF EInv, DeadIsNews, ToldDead, EndsDead
  <1>2. EInv /\ [Next]_vars => EInv'
    BY HInvStep, WriterStateStep, GreetingsStep, EntersAloneStep, DeadIsNewsStep
       DEF EInv, HInv
  <1> QED
    BY <1>1, <1>2, EInvInit, PTL DEF Spec

-----------------------------------------------------------------------------
(* The ports. The receive thread lists the ports once, with the whole      *)
(* description; every later change is on its way through the data being    *)
(* dispatched and the handler's queue, and the last one on its way says    *)
(* whether the switch has the port.                                        *)

\* The messages that change port p, the description, and those of them that
\* are right when the switch has the ports sw.
ChangeOf(p) ==
    {m \in SwitchMsg : m.type = "PortStatus" /\ m.port = p /\ m.reason # "?"}
Says(p, sw) == {m \in ChangeOf(p) : m.reason = "DELETE" <=> p \notin sw}
Descriptions == {m \in SwitchMsg : m.type = "PortDesc"}
Lists(p, sw) == {m \in Descriptions : p \in m.body <=> p \in sw}

\* The events port_status_handler gets, and the right ones among them.
EventOf(p) == {e \in [msg : SwitchMsg, stamp : Phase] :
                  e.msg \in ChangeOf(p) /\ e.stamp = "MAIN"}
EventSays(p, sw) == {e \in EventOf(p) : e.msg \in Says(p, sw)}

\* The last change of p on its way is right, or, if none is, the datapath's
\* list dp is: first the messages not published yet, then the events.
Decided(p, sw, dp, framed, queued) ==
    /\ LastIn(framed, ChangeOf(p), Says(p, sw))
    /\ ~Has(framed, ChangeOf(p)) => LastIn(queued, EventOf(p), EventSays(p, sw))
    /\ ~Has(framed, ChangeOf(p)) /\ ~Has(queued, EventOf(p)) =>
          (p \in dp <=> p \in sw)

\* The receive thread will dispatch what it framed.
Dispatches ==
    pc["recv"] \in {"start", "loop", "read", "stamp", "absorb", "publish", "notify"}
      \/ Entering

Unpublished == IF pc["recv"] = "notify" THEN Tail(batch) ELSE batch

\* The description comes in one piece and the datapath lists nothing before.
OnePiece ==
    /\ "PortDescPart" \notin sent
    /\ \A i \in DOMAIN batch : batch[i].type = "PortDesc" => ~batch[i].more
    /\ ~Entering /\ ~ToldMain => ports = {}
    /\ Entering => Head(batch).type = "PortDesc" /\ ~ToldMain
    /\ state = "MAIN" /\ pc["recv"] \in {"absorb", "publish"} =>
          stamp = "MAIN" \/ Head(batch).type = "PortDesc"

\* Before the description is absorbed, and from then on in MAIN.
PortsDecided ==
    \A p \in Port, sw, dp \in SUBSET Port, framed \in Seq(SwitchMsg),
       queued \in Seq([msg : SwitchMsg, stamp : Phase]) :
       sw = swPorts =>
         /\ framed = batch /\ Has(framed, Descriptions)
            => LastIn(framed, ChangeOf(p) \cup Descriptions,
                      Says(p, sw) \cup Lists(p, sw))
         /\ /\ Dispatches /\ (Entering \/ state = "MAIN")
            /\ dp = ports /\ framed = Unpublished /\ queued = inbox
            => Decided(p, sw, dp, framed, queued)

\* The inductive invariant of the ports.
PInv == HInv /\ OnePiece /\ PortsDecided

\* A message put behind the others: it decides if it changes p, and leaves
\* the switch's p as it was if not.
LEMMA ArriveDecides ==
  ASSUME NEW p, NEW sw, NEW sw2, NEW dp, NEW framed \in Seq(SwitchMsg), NEW queued,
         NEW m, Decided(p, sw, dp, framed, queued),
         IF m \in ChangeOf(p) THEN m \in Says(p, sw2) ELSE p \in sw2 <=> p \in sw
  PROVE  Decided(p, sw2, dp, Append(framed, m), queued)
  <1>1. CASE m \in ChangeOf(p)
    <2>1. LastIn(Append(framed, m), ChangeOf(p), Says(p, sw2))
      BY <1>1, LastAppend
    <2>2. Has(Append(framed, m), ChangeOf(p))
      BY <1>1, HasAppend
    <2> QED
      BY <2>1, <2>2 DEF Decided
  <1>2. CASE m \notin ChangeOf(p)
    <2>1. Says(p, sw2) = Says(p, sw) /\ EventSays(p, sw2) = EventSays(p, sw)
      BY <1>2 DEF Says, EventSays
    <2>2. LastIn(Append(framed, m), ChangeOf(p), Says(p, sw2))
      BY <1>2, <2>1, LastAppend DEF Decided
    <2>3. Has(Append(framed, m), ChangeOf(p)) <=> Has(framed, ChangeOf(p))
      BY <1>2, HasAppend
    <2> QED
      BY <1>2, <2>1, <2>2, <2>3 DEF Decided
  <1> QED
    BY <1>1, <1>2

\* The head of the data published: its event decides behind the others.
LEMMA PublishDecides ==
  ASSUME NEW p, NEW sw, NEW dp, NEW framed \in Seq(SwitchMsg), framed # <<>>,
         NEW queued \in Seq([msg : SwitchMsg, stamp : Phase]),
         Decided(p, sw, dp, framed, queued)
  PROVE  /\ Head(framed) \notin ChangeOf(p) => Decided(p, sw, dp, Tail(framed), queued)
         /\ \A e \in [msg : SwitchMsg, stamp : Phase] :
               e.msg = Head(framed) /\ (e.msg \in ChangeOf(p) => e.stamp = "MAIN")
               => Decided(p, sw, dp, Tail(framed), Append(queued, e))
  <1>1. /\ LastIn(Tail(framed), ChangeOf(p), Says(p, sw))
        /\ ~Has(Tail(framed), ChangeOf(p)) /\ Head(framed) \in ChangeOf(p)
           => Head(framed) \in Says(p, sw)
    BY LastTail DEF Decided
  <1>2. Has(framed, ChangeOf(p)) <=>
          Head(framed) \in ChangeOf(p) \/ Has(Tail(framed), ChangeOf(p))
    BY HasTail
  <1>3. Head(framed) \notin ChangeOf(p) => Decided(p, sw, dp, Tail(framed), queued)
    BY <1>1, <1>2 DEF Decided
  <1>4. ASSUME NEW e \in [msg : SwitchMsg, stamp : Phase], e.msg = Head(framed),
               e.msg \in ChangeOf(p) => e.stamp = "MAIN"
        PROVE  Decided(p, sw, dp, Tail(framed), Append(queued, e))
    <2>1. e \in EventOf(p) <=> Head(framed) \in ChangeOf(p)
      BY <1>4 DEF EventOf
    <2>2. e \in EventOf(p) /\ Head(framed) \in Says(p, sw) => e \in EventSays(p, sw)
      BY <1>4 DEF EventSays
    <2>3. Has(Append(queued, e), EventOf(p)) <=> Has(queued, EventOf(p)) \/ e \in EventOf(p)
      BY HasAppend
    <2>4. ASSUME ~Has(Tail(framed), ChangeOf(p))
          PROVE  LastIn(Append(queued, e), EventOf(p), EventSays(p, sw))
      <3>1. IF e \in EventOf(p) THEN e \in EventSays(p, sw)
                                ELSE LastIn(queued, EventOf(p), EventSays(p, sw))
        BY <1>1, <1>2, <2>1, <2>2, <2>4 DEF Decided
      <3> QED
        BY <3>1, LastAppend
    <2>5. /\ ~Has(Tail(framed), ChangeOf(p)) /\ ~Has(Append(queued, e), EventOf(p))
          => (p \in dp <=> p \in sw)
      BY <1>2, <2>1, <2>3 DEF Decided
    <2> QED
      BY <1>1, <2>4, <2>5 DEF Decided
  <1> QED
    BY <1>3, <1>4

\* The head of the handler's queue handled: it decided if nothing is behind it.
LEMMA HandleDecides ==
  ASSUME NEW p, NEW sw, NEW dp, NEW dp2, NEW framed,
         NEW queued \in Seq([msg : SwitchMsg, stamp : Phase]), queued # <<>>,
         Decided(p, sw, dp, framed, queued),
         IF Head(queued) \in EventOf(p)
           THEN p \in dp2 <=> Head(queued).msg.reason # "DELETE"
           ELSE p \in dp2 <=> p \in dp
  PROVE  Decided(p, sw, dp2, framed, Tail(queued))
  <1>1. LastIn(queued, EventOf(p), EventSays(p, sw)) =>
          /\ LastIn(Tail(queued), EventOf(p), EventSays(p, sw))
          /\ ~Has(Tail(queued), EventOf(p)) /\ Head(queued) \in EventOf(p)
             => Head(queued) \in EventSays(p, sw)
    BY LastTail
  <1>2. Has(queued, EventOf(p)) <=> Head(queued) \in EventOf(p) \/ Has(Tail(queued), EventOf(p))
    BY HasTail
  <1>3. Head(queued) \in EventSays(p, sw) =>
          (Head(queued).msg.reason = "DELETE" <=> p \notin sw)
    BY DEF EventSays, Says
  <1> QED
    BY <1>1, <1>2, <1>3 DEF Decided

\* MAIN is entered by the receive thread.
LEMMA StateMainBy ==
  ASSUME TInv, [Next]_vars, state' = "MAIN"
  PROVE  \/ state = "MAIN"
         \/ Entering /\ pc["recv"] = "assign" /\ pc'["recv"] = "tell"
  <1> USE DEF dpVars, sendVars, sockVars, threadVars, recvVars, appVars,
      switchVars, rest, Thread
  <1>1. ASSUME NEW t \in Thread, Test(t) \/ Assign(t) \/ Tell(t), state # "MAIN"
        PROVE  Entering /\ pc["recv"] = "assign" /\ pc'["recv"] = "tell"
    <2>1. pc[t] = "assign" /\ target[t] = "MAIN" /\ t = "recv"
      BY <1>1, SetStateFrame DEF TargetOf
    <2> QED
      BY <1>1, <2>1, SetStateFrame DEF Entering, InSetState
  <1>2. CASE ~\E t \in Thread : Test(t) \/ Assign(t) \/ Tell(t)
    BY <1>2, StepKinds DEF Quiet, Writer, Write, WriteFails, WriterStops, Parse,
       Notify, Stamp, Absorb, Publish, HelloHandler, SwitchFeaturesHandler,
       PortStatusHandler, HandlerSends, Arrive
  <1> QED
    BY <1>1, <1>2

\* The receive thread does not come back to dispatching.
LEMMA DispatchesBy ==
  ASSUME TInv, [Next]_vars, Dispatches' PROVE Dispatches
  <1> USE DEF dpVars, sendVars, sockVars, threadVars, recvVars, appVars,
      switchVars, rest, Goto, Thread, Dispatches, Entering
  <1>1. /\ pc \in [Thread -> Label] /\ target \in [Thread -> Phase]
    BY DEF TInv, TypeOK
  <1>2. CASE Quiet \/ Writer
    BY <1>2 DEF Quiet, Writer, Write, WriteFails, WriterStops, InSetState
  <1>3. ASSUME NEW t \in Thread, Test(t) \/ Assign(t) \/ Tell(t) PROVE Dispatches
    BY <1>3, SetStateFrame DEF InSetState, AfterSetState, TargetOf
  <1>4. CASE Parse \/ Stamp \/ Absorb \/ Publish \/ Notify
    BY <1>4 DEF Parse, Stamp, Absorb, Publish, Notify
  <1>5. CASE HelloHandler \/ SwitchFeaturesHandler \/ PortStatusHandler \/ HandlerSends
    BY <1>1, <1>5 DEF HelloHandler, SwitchFeaturesHandler, PortStatusHandler,
       HandlerSends, CallSetState
  <1>6. ASSUME NEW m \in SwitchMsg, Arrive(m) PROVE Dispatches
    BY <1>6 DEF Arrive
  <1> QED
    BY <1>2, <1>3, <1>4, <1>5, <1>6, StepKinds

\* While MAIN is entered, the data stays as it is.
LEMMA EnteringFrame ==
  ASSUME TInv, [Next]_vars, Entering
  PROVE  /\ batch' = batch
         /\ pc'["recv"] \in InSetState \/ pc'["recv"] = "publish"
         /\ ~Tell("recv") => UNCHANGED told \/ \E e : e # [phase |-> "MAIN"] /\ told' = Append(told, e)
  <1>1. batch' = batch
    BY BatchSteps DEF Parse, Notify, Arrive, Entering, InSetState
  <1>2. Dispatching' /\ pc'["recv"] # "absorb"
    <2>1. Dispatching /\ pc["recv"] # "absorb" /\ ~Notify
      BY DEF Dispatching, Entering, InSetState, Notify
    <2> QED
      BY <1>1, <2>1, DispatchSteps
  <1>3. pc'["recv"] # "notify"
    <2> USE DEF threadVars, Goto, Thread, Entering, InSetState
    <2>1. pc \in [Thread -> Label]
      BY DEF TInv, TypeOK
    <2>2. ASSUME NEW t \in Thread, Test(t) \/ Assign(t) \/ Tell(t) PROVE pc'["recv"] # "notify"
      BY <2>2, SetStateFrame DEF AfterSetState
    <2>3. CASE Quiet \/ Writer
      BY <2>3 DEF Quiet, Writer, Write, WriteFails, WriterStops
    <2>4. CASE Parse \/ Stamp \/ Absorb \/ Publish \/ Notify
      BY <2>4 DEF Parse, Stamp, Absorb, Publish, Notify
    <2>5. CASE HelloHandler \/ SwitchFeaturesHandler \/ PortStatusHandler \/ HandlerSends
      BY <2>1, <2>5 DEF HelloHandler, SwitchFeaturesHandler, PortStatusHandler,
         HandlerSends, CallSetState
    <2>6. ASSUME NEW m \in SwitchMsg, Arrive(m) PROVE pc'["recv"] # "notify"
      BY <2>6 DEF Arrive
    <2> QED
      BY <2>2, <2>3, <2>4, <2>5, <2>6, StepKinds
  <1> QED
    BY <1>1, <1>2, <1>3, ToldSteps DEF Dispatching, Entering

\* Who writes the list of ports.
LEMMA PortsBy ==
  ASSUME TInv, [Next]_vars
  PROVE  /\ ports' = ports \/ Absorb \/ PortStatusHandler
         /\ swPorts' = swPorts \/ \E m \in SwitchMsg : Arrive(m)
  <1> USE DEF dpVars, sendVars, sockVars, threadVars, recvVars, appVars,
      switchVars, rest
  <1>1. ASSUME NEW t \in Thread, Test(t) \/ Assign(t) \/ Tell(t)
        PROVE  UNCHANGED <<ports, swPorts>>
    BY <1>1 DEF Test, Jump, Assign, Tell
  <1> QED
    BY <1>1, StepKinds DEF Quiet, Writer, Write, WriteFails, WriterStops, Parse,
       Notify, Stamp, Absorb, Publish, HelloHandler, SwitchFeaturesHandler,
       PortStatusHandler, HandlerSends, Arrive

\* OnePiece is preserved.
LEMMA OnePieceStep ==
  ~Rogue /\ ~MultiPart /\ HInv /\ OnePiece /\ [Next]_vars => OnePiece'
  <1> SUFFICES ASSUME ~Rogue, ~MultiPart, HInv, OnePiece, [Next]_vars PROVE OnePiece'
    OBVIOUS
  <1> USE DEF dpVars, sendVars, sockVars, threadVars, recvVars, appVars,
      switchVars, rest, Goto, Thread
  <1>1. /\ TInv /\ pc \in [Thread -> Label] /\ target \in [Thread -> Phase]
        /\ batch \in Seq(SwitchMsg)
        /\ inbox \in Seq([msg : SwitchMsg, stamp : Phase])
    BY DEF TInv, TypeOK, HInv
  <1>2. \A m \in SwitchMsg : Arrive(m) /\ m.type = "PortDesc" => m.more = FALSE
    BY MsgFields DEF Arrive, FollowsProtocol
  <1>3. "PortDescPart" \notin sent'
    <2>1. \A m \in SwitchMsg : m.type # "PortDescPart"
      BY MsgFields DEF SwitchType
    <2> QED
      BY <1>1, <1>2, <2>1, SentSteps DEF OnePiece
  <1>4. ASSUME NEW i \in DOMAIN batch', batch'[i].type = "PortDesc" PROVE ~batch'[i].more
    <2>1. CASE batch' = batch
      BY <1>4, <2>1 DEF OnePiece
    <2>2. CASE batch' = <<>>
      BY <1>4, <2>2
    <2>3. CASE batch # <<>> /\ batch' = Tail(batch)
      BY <1>1, <1>4, <2>3, TailMembers DEF OnePiece
    <2>4. ASSUME NEW m \in SwitchMsg, Arrive(m), batch' = Append(batch, m)
          PROVE  ~batch'[i].more
      <3>1. (i \in DOMAIN batch /\ batch'[i] = batch[i]) \/ batch'[i] = m
        BY <1>1, <2>4, AppendMembers
      <3> QED
        BY <1>2, <1>4, <2>4, <3>1 DEF OnePiece
    <2> QED
      BY <1>1, <2>1, <2>2, <2>3, <2>4, BatchSteps
  <1>5. ASSUME Absorb
        PROVE  /\ batch # <<>> /\ 1 \in DOMAIN batch /\ Head(batch) = batch[1]
               /\ pc["recv"] = "absorb" /\ ~Entering /\ UNCHANGED <<batch, state, stamp, told>>
    <2>1. /\ batch # <<>> /\ pc["recv"] = "absorb" /\ UNCHANGED <<batch, state, stamp, told>>
      BY <1>1, <1>5 DEF Absorb, TInv, Loaded
    <2> QED
      BY <1>1, <2>1 DEF Entering, InSetState
  <1>6. ASSUME Entering' PROVE Head(batch').type = "PortDesc" /\ ~ToldMain'
    <2>1. CASE Entering
      <3>1. ~Tell("recv")
        <4> SUFFICES ASSUME Tell("recv") PROVE FALSE
          OBVIOUS
        <4>1. pc'["recv"] = AfterSetState("recv")
          BY <1>1 DEF Tell
        <4> QED
          BY <1>6, <4>1 DEF Entering, InSetState, AfterSetState
      <3> QED
        BY <1>1, <2>1, <3>1, EnteringFrame, ToldMainBy DEF OnePiece
    <2>2. CASE ~Entering
      <3>1. Absorb /\ Head(batch).type = "PortDesc" /\ told' = told
        BY <1>1, <1>6, <2>2, EnteringBy
      <3>2. ~ToldMain
        BY <1>5, <3>1 DEF HInv, DescribedOnce
      <3>3. ~ToldMain'
        BY <3>1, <3>2 DEF ToldMain
      <3> QED
        BY <1>5, <3>1, <3>3
    <2> QED
      BY <2>1, <2>2
  <1>7. ASSUME ~Entering', ~ToldMain' PROVE ports' = {}
    <2>1. ~ToldMain
      BY <1>1, <1>7, Grows
    <2>2. ~Entering
      <3> SUFFICES ASSUME Entering PROVE FALSE
        OBVIOUS
      <3>1. state = "MAIN" => pc["recv"] = "tell"
        BY <2>1 DEF HInv, MainFirst
      <3>2. pc'["recv"] = "publish"
        <4>1. pc'["recv"] \in InSetState => target'["recv"] # "MAIN"
          BY <1>7 DEF Entering
        <4>2. target'["recv"] = target["recv"]
          <5>1. ASSUME NEW t \in Thread, Test(t) \/ Assign(t) \/ Tell(t) PROVE target' = target
            BY <1>1, <5>1, SetStateFrame
          <5>2. CASE Quiet \/ Writer
            BY <5>2 DEF Quiet, Writer, Write, WriteFails, WriterStops, Entering
          <5>3. CASE Parse \/ Stamp \/ Absorb \/ Publish \/ Notify
            BY <5>3 DEF Parse, Stamp, Absorb, Publish, Notify, Entering, InSetState
          <5>4. CASE HelloHandler \/ SwitchFeaturesHandler \/ PortStatusHandler \/ HandlerSends
            BY <1>1, <5>4 DEF HelloHandler, SwitchFeaturesHandler,
               PortStatusHandler, HandlerSends, CallSetState
          <5>5. CASE \E m \in SwitchMsg : Arrive(m)
            BY <5>5 DEF Arrive
          <5> QED
            BY <1>1, <5>1, <5>2, <5>3, <5>4, <5>5, StepKinds
        <4> QED
          BY <1>1, <4>1, <4>2, EnteringFrame DEF Entering
      <3>3. PICK t \in Thread : Test(t) \/ Assign(t) \/ Tell(t)
        <4>1. pc["recv"] \in InSetState
          BY DEF Entering
        <4>2. CASE Quiet \/ Writer
          BY <3>2, <4>1, <4>2 DEF Quiet, Writer, Write, WriteFails, WriterStops, InSetState
        <4>3. CASE Parse \/ Stamp \/ Absorb \/ Publish \/ Notify
          BY <4>1, <4>3 DEF Parse, Stamp, Absorb, Publish, Notify, InSetState
        <4>4. CASE HelloHandler \/ SwitchFeaturesHandler \/ PortStatusHandler \/ HandlerSends
          BY <1>1, <3>2, <4>1, <4>4 DEF HelloHandler, SwitchFeaturesHandler,
             PortStatusHandler, HandlerSends, CallSetState, InSetState
        <4>5. CASE \E m \in SwitchMsg : Arrive(m)
          BY <4>1, <4>5 DEF Arrive, InSetState
        <4> QED
          BY <1>1, <4>2, <4>3, <4>4, <4>5, StepKinds
      <3>4. t = "recv" /\ pc["recv"] \in InSetState /\ target["recv"] = "MAIN"
        BY <1>1, <3>2, <3>3, SetStateFrame DEF Entering, InSetState
      <3>5. pc["recv"] = "tell"
        BY <1>1, <3>1, <3>2, <3>3, <3>4, SetStateFrame DEF InSetState
      <3>6. told' = Append(told, [phase |-> "MAIN"]) /\ told \in Seq(Event)
        BY <1>1, <3>3, <3>4, <3>5, SetStateFrame DEF TInv, TypeOK
      <3>7. ToldMain'
        BY <3>6, AppendEntries DEF ToldMain
      <3> QED
        BY <1>7, <3>7
    <2>3. ~PortStatusHandler
      <3> SUFFICES ASSUME PortStatusHandler PROVE FALSE
        OBVIOUS
      <3>1. inbox # <<>> /\ Head(inbox).stamp = "MAIN"
        BY DEF PortStatusHandler, Arrives
      <3>2. 1 \in DOMAIN inbox /\ Head(inbox) = inbox[1]
        BY <1>1, <3>1
      <3> QED
        BY <2>1, <3>1, <3>2 DEF HInv, MainFirst
    <2>4. CASE Absorb
      <3>1. pc'["recv"] # "test"
        <4>1. pc'["recv"] = "test" => target'["recv"] = "MAIN"
          BY <1>1, <2>4 DEF Absorb, CallSetState
        <4> QED
          BY <1>7, <4>1 DEF Entering, InSetState
      <3>2. ~(Head(batch).type = "PortDesc" /\ state = "CONFIG")
        <4> SUFFICES ASSUME Head(batch).type = "PortDesc", state = "CONFIG" PROVE FALSE
          OBVIOUS
        <4>1. ~Head(batch).more
          BY <1>5, <2>4 DEF OnePiece
        <4> QED
          BY <1>1, <2>4, <3>1, <4>1 DEF Absorb, CallSetState
      <3> QED
        BY <2>1, <2>2, <2>4, <3>2 DEF Absorb, OnePiece
    <2> QED
      BY <1>1, <2>1, <2>2, <2>3, <2>4, PortsBy DEF OnePiece
  <1>8. ASSUME state' = "MAIN", pc'["recv"] \in {"absorb", "publish"}
        PROVE  stamp' = "MAIN" \/ Head(batch').type = "PortDesc"
    <2>1. state = "MAIN"
      BY <1>1, <1>8, StateMainBy
    <2>2. CASE Entering
      BY <1>1, <2>2, EnteringFrame DEF OnePiece
    <2>3. CASE ~Entering /\ Stamp
      BY <2>1, <2>3 DEF Stamp
    <2>4. CASE ~Entering /\ ~Stamp
      <3>1. pc["recv"] \in {"absorb", "publish"} /\ stamp' = stamp /\ batch' = batch
        <4>1. ASSUME NEW t \in Thread, Test(t) \/ Assign(t) \/ Tell(t)
              PROVE  pc["recv"] \in {"absorb", "publish"} /\ stamp' = stamp /\ batch' = batch
          BY <1>1, <1>8, <2>4, <4>1, SetStateFrame DEF Entering, InSetState,
             AfterSetState, TargetOf
        <4>2. CASE Quiet \/ Writer
          BY <1>8, <4>2 DEF Quiet, Writer, Write, WriteFails, WriterStops
        <4>3. CASE Absorb
          BY <1>5, <4>3
        <4>4. ASSUME Parse \/ Publish \/ Notify PROVE FALSE
          BY <1>1, <1>8, <4>4 DEF Parse, Publish, Notify
        <4>5. CASE HelloHandler \/ SwitchFeaturesHandler \/ PortStatusHandler \/ HandlerSends
          BY <1>1, <1>8, <4>5 DEF HelloHandler, SwitchFeaturesHandler,
             PortStatusHandler, HandlerSends, CallSetState
        <4>6. ASSUME NEW m \in SwitchMsg, Arrive(m) PROVE FALSE
          BY <1>8, <4>6 DEF Arrive
        <4> QED
          BY <1>1, <2>4, <4>1, <4>2, <4>3, <4>4, <4>5, <4>6, StepKinds
      <3> QED
        BY <2>1, <3>1 DEF OnePiece
    <2> QED
      BY <2>2, <2>3, <2>4
  <1> QED
    BY <1>3, <1>4, <1>6, <1>7, <1>8 DEF OnePiece

\* What a message from the switch says about port p.
LEMMA ArriveSays ==
  ASSUME ~Rogue, ~MultiPart, OnePiece, NEW p \in Port, NEW m \in SwitchMsg, Arrive(m)
  PROVE  /\ m \in ChangeOf(p) => m \in Says(p, swPorts')
         /\ m \notin ChangeOf(p) => (p \in swPorts' <=> p \in swPorts)
         /\ m \in Descriptions => m \in Lists(p, swPorts')
  <1>1. swPorts' = IF m.type # "PortStatus" THEN swPorts
                   ELSE IF m.reason = "DELETE" THEN swPorts \ {m.port}
                   ELSE swPorts \cup {m.port}
    BY DEF Arrive
  <1>2. m \in ChangeOf(p) => m \in Says(p, swPorts')
    BY <1>1 DEF ChangeOf, Says
  <1>3. ASSUME m \notin ChangeOf(p) PROVE p \in swPorts' <=> p \in swPorts
    <2>1. CASE m.type # "PortStatus"
      BY <1>1, <2>1
    <2>2. CASE m.type = "PortStatus" /\ m.port # p
      BY <1>1, <2>2
    <2>3. CASE m.type = "PortStatus" /\ m.reason = "?"
      <3>1. m.port \in swPorts
        BY <2>3 DEF Arrive, FollowsProtocol
      <3> QED
        BY <1>1, <2>3, <3>1
    <2> QED
      BY <1>3, <2>1, <2>2, <2>3 DEF ChangeOf
  <1>4. ASSUME m \in Descriptions PROVE m \in Lists(p, swPorts')
    <2>1. m.type = "PortDesc" /\ m.more \in BOOLEAN
      BY <1>4, MsgFields DEF Descriptions
    <2>2. m.more = FALSE /\ m.more = (m.body # ToDescribe)
      BY <2>1 DEF Arrive, FollowsProtocol
    <2>3. m.body = ToDescribe
      BY <2>2
    <2>4. m.body = swPorts
      BY <2>3 DEF ToDescribe, OnePiece
    <2>5. swPorts' = swPorts
      BY <1>1, <2>1
    <2> QED
      BY <1>4, <2>4, <2>5 DEF Lists
  <1> QED
    BY <1>2, <1>3, <1>4

\* The data that holds the description, from one state to the next.
LEMMA DescriptionStep ==
  ASSUME ~Rogue, ~MultiPart, PInv, [Next]_vars, NEW p \in Port, Has(batch', Descriptions)
  PROVE  LastIn(batch', ChangeOf(p) \cup Descriptions,
                Says(p, swPorts') \cup Lists(p, swPorts'))
  <1> DEFINE C == ChangeOf(p) \cup Descriptions
             R(sw) == Says(p, sw) \cup Lists(p, sw)
  <1>1. TInv /\ batch \in Seq(SwitchMsg) /\ inbox \in Seq([msg : SwitchMsg, stamp : Phase])
        /\ swPorts \in SUBSET Port /\ ports \in SUBSET Port
    BY DEF PInv, HInv, TInv, TypeOK
  <1>2. Has(batch, Descriptions) => LastIn(batch, C, R(swPorts))
    BY <1>1 DEF PInv, PortsDecided
  <1>3. CASE ~\E m \in SwitchMsg : Arrive(m)
    <2>1. swPorts' = swPorts
      BY <1>1, <1>3, PortsBy
    <2>2. CASE batch' = batch
      BY <1>2, <2>1, <2>2
    <2>3. CASE batch' = <<>>
      BY <2>3 DEF LastIn
    <2>4. CASE batch # <<>> /\ batch' = Tail(batch)
      <3>1. Has(batch, Descriptions)
        BY <1>1, <2>4, HasTail
      <3> HIDE DEF C, R
      <3>2. LastIn(Tail(batch), C, R(swPorts))
        BY <1>1, <1>2, <2>4, <3>1, LastTail
      <3> QED
        BY <2>1, <2>4, <3>2 DEF C, R
    <2> QED
      BY <1>1, <1>3, <2>2, <2>3, <2>4, BatchSteps
  <1>4. ASSUME NEW m \in SwitchMsg, Arrive(m) PROVE LastIn(batch', C, R(swPorts'))
    <2>1. batch' = Append(batch, m)
      BY <1>4 DEF Arrive
    <2>2. m \in C => m \in R(swPorts')
      BY <1>4, ArriveSays DEF PInv
    <2>3. ASSUME m \notin C PROVE LastIn(batch, C, R(swPorts'))
      <3>1. p \in swPorts' <=> p \in swPorts
        BY <1>4, <2>3, ArriveSays DEF PInv
      <3>2. R(swPorts') = R(swPorts)
        BY <3>1 DEF Says, Lists
      <3>3. Has(batch, Descriptions)
        BY <1>1, <2>1, <2>3, HasAppend
      <3> QED
        BY <1>2, <3>2, <3>3
    <2> HIDE DEF C, R
    <2>4. LastIn(Append(batch, m), C, R(swPorts'))
      BY <1>1, <2>2, <2>3, LastAppend
    <2> QED
      BY <2>1, <2>4
  <1> QED
    BY <1>3, <1>4

\* The description absorbed: the changes behind it decide, or its list.
LEMMA AbsorbDecides ==
  ASSUME PInv, Absorb, NEW p \in Port, Head(batch).type = "PortDesc", state = "CONFIG"
  PROVE  Decided(p, swPorts, ports', batch, inbox)
  <1>1. /\ batch # <<>> /\ pc["recv"] = "absorb" /\ batch \in Seq(SwitchMsg)
        /\ swPorts \in SUBSET Port /\ ports \in SUBSET Port
        /\ inbox \in Seq([msg : SwitchMsg, stamp : Phase])
    BY DEF Absorb, PInv, HInv, TInv, TypeOK, Loaded
  <1>2. 1 \in DOMAIN batch /\ Head(batch) = batch[1] /\ Head(batch) \in SwitchMsg
        /\ \A i \in DOMAIN batch : i = 1 \/ 1 < i
    BY <1>1
  <1>3. ~ToldMain /\ ~Entering
    BY <1>1, <1>2 DEF PInv, HInv, DescribedOnce, Entering, InSetState
  <1>4. ports' = Head(batch).body
    BY <1>3 DEF Absorb, PInv, OnePiece
  <1>5. \A i \in DOMAIN batch : batch[i].type = "PortDesc" => i = 1
    BY <1>2 DEF PInv, HInv, DescribedOnce, OnePiece
  <1>6. batch[1] \in Descriptions /\ Has(batch, Descriptions)
    BY <1>2 DEF Descriptions, Has
  <1>7. LastIn(batch, ChangeOf(p) \cup Descriptions, Says(p, swPorts) \cup Lists(p, swPorts))
    BY <1>1, <1>6 DEF PInv, PortsDecided
  <1>8. \A m \in ChangeOf(p) : m \notin Descriptions /\ m \notin Lists(p, swPorts)
    BY DEF ChangeOf, Descriptions, Lists
  <1>9. \A m \in Descriptions : m.type = "PortDesc" /\ m \notin Says(p, swPorts)
    BY DEF ChangeOf, Descriptions, Says
  <1>10. LastIn(batch, ChangeOf(p), Says(p, swPorts))
    <2> SUFFICES ASSUME NEW i \in DOMAIN batch, batch[i] \in ChangeOf(p),
                        \A j \in DOMAIN batch : i < j => batch[j] \notin ChangeOf(p)
                 PROVE  batch[i] \in Says(p, swPorts)
      BY DEF LastIn
    <2>1. i # 1
      BY <1>6, <1>8
    <2>2. \A j \in DOMAIN batch : i < j => batch[j] \notin Descriptions
      <3> SUFFICES ASSUME NEW j \in DOMAIN batch, i < j, batch[j] \in Descriptions PROVE FALSE
        OBVIOUS
      <3>1. j = 1
        BY <1>5, <1>9
      <3> QED
        BY <1>1, <1>2, <2>1, <3>1
    <2>3. batch[i] \in Says(p, swPorts) \cup Lists(p, swPorts)
      BY <1>7, <2>2 DEF LastIn
    <2> QED
      BY <1>8, <2>3
  <1>11. LastIn(inbox, EventOf(p), EventSays(p, swPorts))
    <2>1. \A i \in DOMAIN inbox : inbox[i].stamp # "MAIN"
      BY <1>3 DEF PInv, HInv, MainFirst
    <2> QED
      BY <2>1 DEF LastIn, EventOf
  <1>12. ASSUME ~Has(batch, ChangeOf(p)) PROVE p \in ports' <=> p \in swPorts
    <2>1. \A j \in DOMAIN batch : 1 < j => batch[j] \notin ChangeOf(p) \cup Descriptions
      <3> SUFFICES ASSUME NEW j \in DOMAIN batch, 1 < j, batch[j] \in Descriptions PROVE FALSE
        BY <1>12 DEF Has
      <3>1. j = 1
        BY <1>5, <1>9
      <3> QED
        BY <3>1
    <2>2. batch[1] \in Says(p, swPorts) \cup Lists(p, swPorts)
      BY <1>2, <1>6, <1>7, <2>1 DEF LastIn
    <2>3. batch[1] \in Lists(p, swPorts)
      BY <1>6, <1>9, <2>2
    <2> QED
      BY <1>2, <1>4, <2>3 DEF Lists
  <1> QED
    BY <1>10, <1>11, <1>12 DEF Decided

\* What is on its way once the datapath lists the ports.
LEMMA DecidedStep ==
  ASSUME ~Rogue, ~MultiPart, PInv, [Next]_vars, NEW p \in Port,
         Dispatches', Entering' \/ state' = "MAIN"
  PROVE  Decided(p, swPorts', ports', Unpublished', inbox')
  <1> USE DEF dpVars, sendVars, sockVars, threadVars, recvVars, appVars,
      switchVars, rest, Goto, Thread
  <1>1. /\ TInv /\ pc \in [Thread -> Label] /\ target \in [Thread -> Phase]
        /\ batch \in Seq(SwitchMsg) /\ inbox \in Seq([msg : SwitchMsg, stamp : Phase])
        /\ swPorts \in SUBSET Port /\ ports \in SUBSET Port /\ stamp \in Phase
    BY DEF PInv, HInv, TInv, TypeOK
  <1>2. Notify \/ Publish \/ Absorb => batch # <<>>
    BY <1>1 DEF TInv, Loaded, Notify, Publish, Absorb
  <1>3. CASE ~Entering /\ state # "MAIN"
    <2>1. /\ Absorb /\ Head(batch).type = "PortDesc" /\ state = "CONFIG"
      BY <1>1, <1>3, StateMainBy, EnteringBy
    <2>2. swPorts' = swPorts /\ inbox' = inbox /\ Unpublished' = batch
      BY <1>1, <2>1 DEF Absorb, Unpublished, CallSetState
    <2> QED
      BY <2>1, <2>2, AbsorbDecides
  <1>4. CASE Entering \/ state = "MAIN"
    <2>1. Decided(p, swPorts, ports, Unpublished, inbox)
      <3>1. Dispatches
        BY <1>1, DispatchesBy
      <3>2. Unpublished \in Seq(SwitchMsg)
        <4>1. pc["recv"] = "notify" => batch # <<>>
          BY <1>1 DEF TInv, Loaded
        <4> QED
          BY <1>1, <4>1, HeadTail DEF Unpublished
      <3> QED
        BY <1>1, <1>4, <3>1, <3>2 DEF PInv, PortsDecided
    <2>2. ASSUME NEW m \in SwitchMsg, Arrive(m)
          PROVE  Decided(p, swPorts', ports', Unpublished', inbox')
      <3>1. /\ Unpublished = batch /\ Unpublished' = Append(batch, m)
            /\ ports' = ports /\ inbox' = inbox
        BY <2>2 DEF Arrive, Unpublished
      <3>2. IF m \in ChangeOf(p) THEN m \in Says(p, swPorts')
                                 ELSE p \in swPorts' <=> p \in swPorts
        BY <2>2, ArriveSays DEF PInv
      <3>3. Decided(p, swPorts', ports, Append(batch, m), inbox)
        BY <1>1, <2>1, <3>1, <3>2, ArriveDecides
      <3> QED
        BY <3>1, <3>3
    <2>3. CASE Publish
      <3>1. /\ batch # <<>> /\ pc["recv"] = "publish" /\ Unpublished = batch
            /\ Unpublished' = Tail(batch) /\ ports' = ports /\ swPorts' = swPorts
            /\ inbox' = IF Head(batch).type = "PortDesc" THEN inbox
                        ELSE Append(inbox, [msg |-> Head(batch), stamp |-> stamp])
        BY <1>1, <1>2, <2>3 DEF Publish, Unpublished
      <3>2. Head(batch) \in SwitchMsg
        BY <1>1, <3>1, HeadTail
      <3>3. CASE Head(batch).type = "PortDesc"
        <4>1. Head(batch) \notin ChangeOf(p)
          BY <3>3 DEF ChangeOf
        <4>2. Decided(p, swPorts, ports, Tail(batch), inbox)
          BY <1>1, <2>1, <3>1, <4>1, PublishDecides
        <4> QED
          BY <3>1, <3>3, <4>2
      <3>4. CASE Head(batch).type # "PortDesc"
        <4>1. ~Entering
          BY <3>1 DEF Entering, InSetState
        <4>2. stamp = "MAIN"
          BY <1>4, <3>1, <3>4, <4>1 DEF PInv, OnePiece
        <4> DEFINE e == [msg |-> Head(batch), stamp |-> stamp]
        <4>3. e \in [msg : SwitchMsg, stamp : Phase] /\ e.msg = Head(batch) /\ e.stamp = "MAIN"
          BY <1>1, <3>2, <4>2
        <4>4. inbox' = Append(inbox, e)
          BY <3>1, <3>4
        <4> HIDE DEF e
        <4>5. Decided(p, swPorts, ports, Tail(batch), Append(inbox, e))
          BY <1>1, <2>1, <3>1, <4>3, PublishDecides
        <4> QED
          BY <3>1, <4>4, <4>5
      <3> QED
        BY <3>3, <3>4
    <2>4. CASE PortStatusHandler
      <3>1. /\ inbox # <<>> /\ inbox' = Tail(inbox) /\ swPorts' = swPorts
            /\ Unpublished' = Unpublished
            /\ Head(inbox).msg.type = "PortStatus" /\ Head(inbox).stamp = "MAIN"
        BY <2>4 DEF PortStatusHandler, Arrives, Unpublished
      <3>2. Head(inbox) \in [msg : SwitchMsg, stamp : Phase]
        BY <1>1, <3>1, HeadTail
      <3>3. IF Head(inbox) \in EventOf(p)
              THEN p \in ports' <=> Head(inbox).msg.reason # "DELETE"
              ELSE p \in ports' <=> p \in ports
        <4>1. Head(inbox) \in EventOf(p) <=>
                Head(inbox).msg.port = p /\ Head(inbox).msg.reason # "?"
          BY <3>1, <3>2 DEF EventOf, ChangeOf
        <4>2. \/ /\ Head(inbox).msg.reason \in {"ADD", "MODIFY"}
                 /\ ports' = ports \cup {Head(inbox).msg.port}
              \/ /\ Head(inbox).msg.reason = "DELETE"
                 /\ ports' = ports \ {Head(inbox).msg.port}
              \/ Head(inbox).msg.reason = "?" /\ ports' = ports
          BY <2>4 DEF PortStatusHandler
        <4> QED
          BY <4>1, <4>2
      <3>4. Decided(p, swPorts, ports', Unpublished, Tail(inbox))
        BY <1>1, <2>1, <3>1, <3>3, HandleDecides
      <3> QED
        BY <3>1, <3>4
    <2>5. ASSUME UNCHANGED <<ports, swPorts>>, Unpublished' = Unpublished,
                 \/ inbox' = inbox
                 \/ /\ inbox # <<>> /\ inbox' = Tail(inbox)
                    /\ Head(inbox).msg.type = "PortStatus" => Head(inbox).stamp # "MAIN"
          PROVE  Decided(p, swPorts', ports', Unpublished', inbox')
      <3>1. CASE inbox' = inbox
        BY <2>1, <2>5, <3>1
      <3>2. CASE /\ inbox # <<>> /\ inbox' = Tail(inbox)
                 /\ Head(inbox).msg.type = "PortStatus" => Head(inbox).stamp # "MAIN"
        <4>1. Head(inbox) \notin EventOf(p)
          BY <3>2 DEF EventOf, ChangeOf
        <4>2. Decided(p, swPorts, ports, Unpublished, Tail(inbox))
          BY <1>1, <2>1, <3>2, <4>1, HandleDecides
        <4> QED
          BY <2>5, <3>2, <4>2
      <3> QED
        BY <2>5, <3>1, <3>2
    <2>6. CASE Absorb
      <3>1. pc["recv"] = "absorb" /\ ~Entering /\ state = "MAIN" /\ 1 \in DOMAIN batch
            /\ Head(batch) = batch[1]
        BY <1>1, <1>2, <1>4, <2>6 DEF Absorb, Entering, InSetState
      <3>2. ToldMain
        BY <3>1 DEF PInv, HInv, MainFirst
      <3>3. OnWire(PD)
        BY <3>2 DEF PInv, HInv, DescribedOnce
      <3>4. Head(batch).type # "Features"
        BY <3>1, <3>3 DEF PInv, HInv, PortsAfterFeatures, Sent
      <3>5. UNCHANGED <<ports, swPorts, inbox, batch>> /\ pc'["recv"] # "notify"
        BY <1>1, <2>6, <3>1, <3>4 DEF Absorb
      <3> QED
        BY <2>5, <3>1, <3>5 DEF Unpublished
    <2>7. CASE Quiet
      <3>1. Unpublished' = Unpublished
        BY <2>7 DEF Quiet, Unpublished
      <3> QED
        BY <2>5, <2>7, <3>1 DEF Quiet
    <2>8. CASE Writer
      BY <2>5, <2>8 DEF Writer, Write, WriteFails, WriterStops, Unpublished
    <2>9. ASSUME NEW t \in Thread, Test(t) \/ Assign(t) \/ Tell(t)
          PROVE  Decided(p, swPorts', ports', Unpublished', inbox')
      <3>1. UNCHANGED <<ports, swPorts, inbox, batch>>
        BY <2>9 DEF Test, Jump, Assign, Tell
      <3>2. pc'["recv"] = "notify" <=> pc["recv"] = "notify"
        BY <1>1, <2>9, SetStateFrame DEF InSetState, AfterSetState
      <3> QED
        BY <2>5, <3>1, <3>2 DEF Unpublished
    <2>10. CASE Parse
      <3>1. CASE batch' = batch /\ pc' = [pc EXCEPT !["recv"] = "stamp"]
        <4>1. Unpublished' = Unpublished
          BY <1>1, <2>10, <3>1 DEF Parse, Unpublished
        <4> QED
          BY <2>5, <2>10, <4>1 DEF Parse
      <3>2. CASE pc' = [pc EXCEPT !["recv"] = "fail"]
        BY <1>1, <3>2 DEF Dispatches, Entering, InSetState
      <3> QED
        BY <2>10, <3>1, <3>2 DEF Parse
    <2>11. CASE Stamp
      <3>1. Unpublished' = Unpublished
        BY <1>1, <2>11 DEF Stamp, Unpublished
      <3> QED
        BY <2>5, <2>11, <3>1 DEF Stamp
    <2>12. CASE Notify
      <3>1. Unpublished' = Unpublished
        BY <1>1, <2>12 DEF Notify, Unpublished
      <3> QED
        BY <2>5, <2>12, <3>1 DEF Notify
    <2>13. CASE HelloHandler \/ SwitchFeaturesHandler
      <3>1. Unpublished' = Unpublished
        BY <1>1, <2>13 DEF HelloHandler, SwitchFeaturesHandler, CallSetState, Unpublished
      <3>2. /\ UNCHANGED <<ports, swPorts>> /\ inbox # <<>> /\ inbox' = Tail(inbox)
            /\ Head(inbox).msg.type # "PortStatus"
        BY <2>13 DEF HelloHandler, SwitchFeaturesHandler, Arrives
      <3> QED
        BY <2>5, <3>1, <3>2
    <2>14. CASE HandlerSends
      <3>1. Unpublished' = Unpublished
        BY <1>1, <2>14 DEF HandlerSends, Unpublished
      <3> QED
        BY <2>5, <2>14, <3>1 DEF HandlerSends
    <2> QED
      BY <1>1, <2>2, <2>3, <2>4, <2>6, <2>7, <2>8, <2>9, <2>10, <2>11, <2>12,
         <2>13, <2>14, StepKinds
  <1> QED
    BY <1>3, <1>4

\* The invariant of the ports holds initially.
THEOREM PInvInit == Init => PInv
  <1> SUFFICES ASSUME Init PROVE PInv
    OBVIOUS
  <1>1. /\ state = "HANDSHAKE" /\ sent = {} /\ batch = <<>> /\ ports = {}
        /\ pc["recv"] = "start"
    BY DEF Init, Thread
  <1>2. ~Entering
    BY <1>1 DEF Entering, InSetState
  <1>3. OnePiece
    BY <1>1, <1>2 DEF OnePiece
  <1>4. PortsDecided
    BY <1>1, <1>2 DEF PortsDecided, Has
  <1> QED
    BY <1>3, <1>4, HInvInit DEF PInv

\* Every step preserves it.
THEOREM PInvStep == ~Rogue /\ ~MultiPart /\ PInv /\ [Next]_vars => PInv'
  <1> SUFFICES ASSUME ~Rogue, ~MultiPart, PInv, [Next]_vars PROVE PInv'
    OBVIOUS
  <1>1. PortsDecided'
    BY DescriptionStep, DecidedStep DEF PortsDecided
  <1>2. HInv' /\ OnePiece'
    BY HInvStep, OnePieceStep DEF PInv
  <1> QED
    BY <1>1, <1>2 DEF PInv

\* With a switch that follows the protocol and describes its ports in one
\* message, the datapath lists exactly the switch's ports in MAIN whenever
\* all that was received has been handled, although two threads write the
\* list and the changes travel through a queue behind the description.
THEOREM PortsAreMirrored == ~Rogue /\ ~MultiPart => (Spec => []PortsMirror)
  <1> SUFFICES ASSUME ~Rogue, ~MultiPart PROVE Spec => []PortsMirror
    OBVIOUS
  <1>1. PInv => PortsMirror
    <2> SUFFICES ASSUME PInv, state = "MAIN", pc["recv"] \in {"loop", "read"},
                        batch = <<>>, inbox = <<>>
                 PROVE  ports = swPorts
      BY DEF PortsMirror
    <2>1. /\ swPorts \in SUBSET Port /\ ports \in SUBSET Port
          /\ batch \in Seq(SwitchMsg) /\ inbox \in Seq([msg : SwitchMsg, stamp : Phase])
      BY DEF PInv, HInv, TInv, TypeOK
    <2>2. Dispatches /\ Unpublished = batch
      BY DEF Dispatches, Unpublished
    <2>3. ASSUME NEW p \in Port PROVE p \in ports <=> p \in swPorts
      <3>1. Decided(p, swPorts, ports, batch, inbox)
        BY <2>1, <2>2 DEF PInv, PortsDecided
      <3>2. ~Has(batch, ChangeOf(p)) /\ ~Has(inbox, EventOf(p))
        BY DEF Has
      <3> QED
        BY <3>1, <3>2 DEF Decided
    <2> QED
      BY <2>1, <2>3
  <1>2. PInv /\ [Next]_vars => PInv'
    BY PInvStep
  <1> QED
    BY <1>1, <1>2, PInvInit, PTL DEF Spec

=============================================================================
