------------------------------- MODULE Channel -------------------------------
(***************************************************************************)
(* One switch connection: class Datapath of c65of/controller.py together   *)
(* with the handlers of OFPHandler that act on it.                         *)
(*                                                                         *)
(* Threads of the program and the parts of the state they run:             *)
(*   "recv"    OpenFlowController.serve_connection -> Datapath.serve ->    *)
(*             _recv_loop, which also closes the socket;                   *)
(*   "writer"  _send_loop, the only thread that writes to the socket;      *)
(*   "echo"    _echo_request_loop;                                         *)
(*   "handler" the dispatch thread of OFPHandler, which runs the handlers; *)
(*   "closer"  any other thread that calls close(): DPSet does when the    *)
(*             switch connects again.                                      *)
(* No lock is held anywhere, so set_state and close are modelled one       *)
(* read, write or queue operation at a time; a thread's label in pc says   *)
(* which one is next.                                                      *)
(*                                                                         *)
(* Received data is chosen when recv() returns it: the time a message      *)
(* spends in the network is time the receive thread has not run yet.       *)
(***************************************************************************)
EXTENDS Naturals, Sequences

CONSTANTS
    Port,           \* port numbers
    DpId,           \* datapath ids
    MaxUnreplied,   \* max_unreplied_echo_requests; 0 turns keepalive off
    ExternalClose,  \* may another thread call close() on a MAIN datapath?
    Rogue,          \* may the switch send anything at any time?
    MultiPart,      \* may the switch split its port description?
    Sends,          \* the message types the switch uses
    Observed,       \* the message types another application has a handler for
    MaxIn,          \* bound: messages the switch sends
    MaxBatch,       \* bound: messages in what one recv() returns
    MaxEcho         \* bound: echo requests the controller sends

SwitchType == {"Hello", "BadHello", "BadVersion", "EchoRequest", "Features",
               "PortDesc", "PortStatus"}

NoId == "NoId"

ASSUME ChannelAssumption ==
    /\ NoId \notin DpId
    /\ MaxUnreplied \in Nat /\ MaxIn \in Nat /\ MaxBatch \in Nat
    /\ MaxEcho \in Nat
    /\ ExternalClose \in BOOLEAN /\ Rogue \in BOOLEAN /\ MultiPart \in BOOLEAN
    /\ Sends \subseteq SwitchType /\ Observed \subseteq SwitchType

Phase == {"HANDSHAKE", "CONFIG", "MAIN", "DEAD"}
Thread == {"recv", "echo", "handler", "closer"}

\* What the switch sends, as the stream parser frames it. "BadHello" is a
\* hello offering no version the controller speaks, "BadVersion" another
\* message of a version base.msg refuses.
SwitchMsg ==
    [type : {"Hello", "BadHello", "BadVersion", "EchoRequest"}]
      \cup [type : {"Features"}, id : DpId]
      \cup [type : {"PortDesc"}, body : SUBSET Port, more : BOOLEAN]
      \cup [type : {"PortStatus"}, reason : {"ADD", "MODIFY", "DELETE", "?"},
            port : Port]

\* What the controller sends, and the entries of send_q: (buf, close_socket).
CtlMsg == {"Hello", "Error", "FeaturesRequest", "SetConfig",
           "PortDescStatsRequest", "EchoReply", "EchoRequest"}
Sentinel == [buf |-> "None", close |-> FALSE]
Entry == [buf : CtlMsg, close : BOOLEAN] \cup {Sentinel}

\* What applications are told: message events and port state changes with
\* the phase they are stamped with, and changes of the phase itself.
Event == [msg : SwitchMsg, stamp : Phase]
           \cup [phase : Phase]
           \cup [portChange : Port, stamp : Phase]

VARIABLES
    state, id, ports,   \* the Datapath fields of the same names
    stopped,            \* the event _stopped is set
    open,               \* send_q is not None
    queue,              \* the queue object send_q names or named
    writer,             \* "off", "run", "done": _send_loop
    broken,             \* a sendall() failed
    wire,               \* what the switch has been sent
    closed,             \* the socket is closed
    pc,                 \* the label of each thread
    target,             \* the argument of the set_state each thread is in
    back,               \* where each thread goes on after close()
    batch,              \* messages framed and not dispatched yet
    stamp,              \* local `state` of _dispatch
    inbox,              \* OFPHandler.events, message events only
    out,                \* messages the running handler has still to send
    echoes,             \* echo requests sent so far
    told,               \* what other applications were told, in order
    \* the switch
    received, sent, swPorts, undescribed

switchVars == <<received, sent, swPorts, undescribed>>
sockVars == <<writer, broken, wire, closed>>
sendVars == <<open, queue>>
threadVars == <<pc, target, back>>
recvVars == <<batch, stamp>>
dpVars == <<state, id, ports, stopped>>
appVars == <<inbox, out, told>>
\* What few actions change.
rest == <<sockVars, echoes, switchVars>>
vars == <<dpVars, sendVars, sockVars, threadVars, recvVars, appVars, echoes,
          switchVars>>

Label == {"start", "loop", "read", "stamp", "absorb", "publish", "notify",
          "fail", "stop", "test", "assign", "tell", "sentinel", "final",
          "join", "off", "wait", "idle", "send", "done"}

TypeOK ==
    /\ state \in Phase /\ id \in DpId \cup {NoId} /\ ports \subseteq Port
    /\ stopped \in BOOLEAN /\ open \in BOOLEAN
    /\ queue \in Seq(Entry)
    /\ writer \in {"off", "run", "done"} /\ broken \in BOOLEAN
    /\ wire \in Seq(CtlMsg) /\ closed \in BOOLEAN
    /\ pc \in [Thread -> Label] /\ target \in [Thread -> Phase]
    /\ back \in [Thread -> Label]
    /\ batch \in Seq(SwitchMsg) /\ stamp \in Phase
    /\ inbox \in Seq([msg : SwitchMsg, stamp : Phase])
    /\ out \in Seq(CtlMsg) /\ told \in Seq(Event)
    /\ echoes \in Nat /\ received \in Nat
    /\ sent \subseteq SwitchType \cup {"PortDescPart"}
    /\ swPorts \subseteq Port /\ undescribed \subseteq Port

\* Datapath.__init__, which ends by entering HANDSHAKE.
Init ==
    /\ state = "HANDSHAKE" /\ told = <<[phase |-> "HANDSHAKE"]>>
    /\ id = NoId /\ ports = {} /\ stopped = FALSE
    /\ open = TRUE /\ queue = <<>>
    /\ writer = "off" /\ broken = FALSE /\ wire = <<>> /\ closed = FALSE
    /\ pc = [t \in Thread |-> CASE t = "recv" -> "start"
                                [] t = "echo" -> "off"
                                [] OTHER -> "idle"]
    /\ target = [t \in Thread |-> "HANDSHAKE"]
    /\ back = [t \in Thread |-> CASE t = "recv" -> "final"
                                  [] t = "handler" -> "idle"
                                  [] OTHER -> "done"]
    /\ batch = <<>> /\ stamp = "HANDSHAKE" /\ inbox = <<>> /\ out = <<>>
    /\ echoes = 0 /\ received = 0 /\ sent = {}
    /\ swPorts \in SUBSET Port /\ undescribed = {}

Goto(t, l) == pc' = [pc EXCEPT ![t] = l]

\* A step of thread t that only moves its label.
Jump(t, l) ==
    /\ Goto(t, l)
    /\ UNCHANGED <<target, back, dpVars, sendVars, recvVars, appVars, rest>>

-----------------------------------------------------------------------------
(* Sending. Reading send_q and the put are one step: a put into a queue    *)
(* whose writer left in between is never read, and is the same as a put    *)
(* just before it left.                                                    *)

\* Datapath.send, called by any thread.
Send(m, close) ==
    /\ queue' = IF open THEN Append(queue, [buf |-> m, close |-> close])
                        ELSE queue
    /\ UNCHANGED open

\* The end of _send_loop: leave the loop, drop the queue, half close.
WriterExit == writer' = "done" /\ open' = FALSE

\* One turn of _send_loop: sendall succeeds.
Write ==
    /\ writer = "run" /\ queue # <<>> /\ Head(queue) # Sentinel
    /\ wire' = Append(wire, Head(queue).buf)
    /\ queue' = Tail(queue)
    /\ IF Head(queue).close THEN WriterExit ELSE UNCHANGED <<writer, open>>
    /\ UNCHANGED <<broken, closed, dpVars, threadVars, recvVars, appVars,
                   echoes, switchVars>>

\* sendall raises OSError: the connection is gone or the peer stopped reading.
WriteFails ==
    /\ writer = "run" /\ queue # <<>> /\ Head(queue) # Sentinel
    /\ queue' = Tail(queue) /\ broken' = TRUE /\ WriterExit
    /\ UNCHANGED <<wire, closed, dpVars, threadVars, recvVars, appVars,
                   echoes, switchVars>>

\* Slip: the loop tests the state instead of the queue.
WriterTestsState ==
    /\ writer = "run" /\ state = "DEAD"
    /\ WriterExit
    /\ UNCHANGED <<queue, broken, wire, closed, dpVars, threadVars, recvVars,
                   appVars, echoes, switchVars>>

\* The sentinel of close() ends the loop.
WriterStops ==
    /\ writer = "run" /\ queue # <<>> /\ Head(queue) = Sentinel
    /\ queue' = Tail(queue) /\ WriterExit
    /\ UNCHANGED <<broken, wire, closed, dpVars, threadVars, recvVars,
                   appVars, echoes, switchVars>>

Writer == Write \/ WriteFails \/ WriterStops

-----------------------------------------------------------------------------
(* set_state, close and hello_failed, run by any thread t.                 *)

\* Call set_state(s): the thread's next steps are Test, Assign and Tell.
CallSetState(t, s) ==
    /\ Goto(t, "test") /\ target' = [target EXCEPT ![t] = s]

\* Where a thread continues when its set_state returns.
AfterSetState(t) ==
    CASE target[t] = "DEAD" -> "sentinel"
      [] target[t] = "CONFIG" -> "send"
      [] OTHER -> "publish"

\* Slip: a stopped datapath changes its state no more.
TestStopped(t) ==
    /\ pc[t] = "test"
    /\ Jump(t, IF stopped \/ state = target[t] THEN AfterSetState(t)
                                               ELSE "assign")

\* `if self.state == state: return`
Test(t) ==
    /\ pc[t] = "test"
    /\ Jump(t, IF state = target[t] THEN AfterSetState(t) ELSE "assign")

\* `self.state = state`
Assign(t) ==
    /\ pc[t] = "assign"
    /\ state' = target[t] /\ Goto(t, "tell")
    /\ UNCHANGED <<id, ports, stopped, sendVars, target, back, recvVars,
                   appVars, rest>>

\* send_event_to_observers(EventOFPStateChange)
Tell(t) ==
    /\ pc[t] = "tell"
    /\ told' = Append(told, [phase |-> target[t]])
    /\ Goto(t, AfterSetState(t))
    /\ UNCHANGED <<dpVars, sendVars, target, back, recvVars, inbox, out,
                   rest>>

\* close() begins: _stopped.set(), then set_state(DEAD).
Stop(t) ==
    /\ pc[t] = "stop"
    /\ stopped' = TRUE /\ CallSetState(t, "DEAD")
    /\ UNCHANGED <<state, id, ports, sendVars, back, recvVars, appVars,
                   rest>>

\* Slip: close() leaves the writer parked on its queue.
NoSentinel(t) == pc[t] = "sentinel" /\ Jump(t, back[t])

\* close() ends: queue the sentinel that wakes the writer.
PutSentinel(t) ==
    /\ pc[t] = "sentinel"
    /\ queue' = IF open THEN Append(queue, Sentinel) ELSE queue
    /\ Goto(t, back[t])
    /\ UNCHANGED <<open, dpVars, target, back, recvVars, appVars, rest>>

\* Call close() and go on at label l afterwards.
CallClose(t, l) == Goto(t, "stop") /\ back' = [back EXCEPT ![t] = l]

\* hello_failed: queue the error, flagged to end the writer, then close().
HelloFailed(t, l) ==
    /\ pc[t] = "fail"
    /\ Send("Error", TRUE)
    /\ CallClose(t, l)
    /\ UNCHANGED <<dpVars, target, recvVars, appVars, rest>>

SetStateOrClose(t) ==
    Test(t) \/ Assign(t) \/ Tell(t) \/ Stop(t) \/ PutSentinel(t)

-----------------------------------------------------------------------------
(* The receive thread: serve and _recv_loop.                               *)

\* Slip: serve starts the echo thread before it queues the hello.
ServeEchoFirst ==
    /\ pc["recv"] = "start"
    /\ \/ /\ writer = "off" /\ writer' = "run" /\ Goto("echo", "loop")
          /\ UNCHANGED sendVars
       \/ /\ writer # "off" /\ UNCHANGED writer
          /\ Send("Hello", FALSE) /\ Goto("recv", "loop")
    /\ UNCHANGED <<dpVars, broken, wire, closed, target, back, recvVars,
                   appVars, echoes, switchVars>>

\* serve: start the writer, queue the hello, start the echo thread.
Serve ==
    /\ pc["recv"] = "start"
    /\ Send("Hello", FALSE) /\ writer' = "run"
    /\ pc' = [pc EXCEPT !["recv"] = "loop", !["echo"] = "loop"]
    /\ UNCHANGED <<dpVars, broken, wire, closed, target, back, recvVars,
                   appVars, echoes, switchVars>>

\* `while self.state != DEAD_DISPATCHER`
LoopTest ==
    /\ pc["recv"] = "loop"
    /\ Jump("recv", IF state = "DEAD" THEN "final" ELSE "read")

\* recv() times out.
Timeout ==
    /\ pc["recv"] = "read" /\ batch = <<>>
    /\ Jump("recv", "loop")

\* recv() returns no data or raises: the switch closed, or the socket failed.
Disconnect ==
    /\ pc["recv"] = "read" /\ batch = <<>>
    /\ Jump("recv", "final")

\* stream.parse frames every message; one of an unknown version raises, and
\* whatever was framed before it in the same data is not dispatched. (What
\* base.msg cannot decode it logs and skips, so it is not in a batch.)
Parse ==
    /\ pc["recv"] = "read" /\ batch # <<>>
    /\ IF \E i \in DOMAIN batch : batch[i].type = "BadVersion"
         THEN batch' = <<>> /\ Goto("recv", "fail")
         ELSE Goto("recv", "stamp") /\ UNCHANGED batch
    /\ UNCHANGED <<dpVars, sendVars, target, back, stamp, appVars, rest>>

\* _dispatch reads the phase the message arrived in.
Stamp ==
    /\ pc["recv"] = "stamp" /\ batch # <<>>
    /\ stamp' = state /\ Goto("recv", "absorb")
    /\ UNCHANGED <<dpVars, sendVars, target, back, batch, appVars, rest>>

\* Every message of the data was dispatched.
BatchDone ==
    /\ pc["recv"] = "stamp" /\ batch = <<>>
    /\ Jump("recv", "loop")

\* Slip: a port is entered under its place in the description.
AbsorbIndexed ==
    /\ pc["recv"] = "absorb" /\ Goto("recv", "publish")
    /\ ports' = IF Head(batch).type = "PortDesc" /\ Head(batch).body # {}
                THEN ports \cup {0} ELSE ports
    /\ UNCHANGED <<state, id, stopped, target, sendVars, back, recvVars,
                   appVars, rest>>

\* Slip: MAIN is entered without telling anyone.
AbsorbQuietly ==
    /\ pc["recv"] = "absorb" /\ Goto("recv", "publish")
    /\ state' = IF Head(batch).type = "PortDesc" /\ state = "CONFIG"
                THEN "MAIN" ELSE state
    /\ UNCHANGED <<id, ports, stopped, target, sendVars, back, recvVars,
                   appVars, rest>>

\* _absorb: the id of a features reply; in CONFIG, the ports of a port
\* description, whose last part completes the handshake.
Absorb ==
    /\ pc["recv"] = "absorb"
    /\ LET m == Head(batch) IN
       \/ /\ m.type = "Features"
          /\ id' = m.id /\ ports' = {}
          /\ Goto("recv", "publish") /\ UNCHANGED target
       \/ /\ m.type = "PortDesc" /\ state = "CONFIG"
          /\ ports' = ports \cup m.body
          /\ IF m.more THEN Goto("recv", "publish") /\ UNCHANGED target
                       ELSE CallSetState("recv", "MAIN")
          /\ UNCHANGED id
       \/ /\ m.type # "Features"
          /\ ~(m.type = "PortDesc" /\ state = "CONFIG")
          /\ Goto("recv", "publish")
          /\ UNCHANGED <<id, ports, target>>
    /\ UNCHANGED <<state, stopped, sendVars, back, recvVars, appVars, rest>>

\* send_event_to_observers hands the event to OFPHandler, if it handles it ...
\* (OFPHandler comes first in APPS here; with an application in front of it,
\* that one is told what it is told here, no later.)
Publish ==
    /\ pc["recv"] = "publish"
    /\ inbox' = IF Head(batch).type = "PortDesc" THEN inbox
                ELSE Append(inbox, [msg |-> Head(batch), stamp |-> stamp])
    /\ Goto("recv", "notify")
    /\ UNCHANGED <<dpVars, sendVars, target, back, recvVars, out, told,
                   rest>>

\* ... and to every other application that handles it.
Notify ==
    /\ pc["recv"] = "notify"
    /\ told' = IF Head(batch).type \in Observed
               THEN Append(told, [msg |-> Head(batch), stamp |-> stamp])
               ELSE told
    /\ batch' = Tail(batch)
    /\ Goto("recv", "stamp")
    /\ UNCHANGED <<dpVars, sendVars, target, back, stamp, inbox, out, rest>>

\* Slip: serve waits for its threads without closing first.
FinalNoClose == pc["recv"] = "final" /\ Jump("recv", "join")

\* serve's finally clause begins with close().
Final ==
    /\ pc["recv"] = "final"
    /\ CallClose("recv", "join")
    /\ UNCHANGED <<dpVars, sendVars, target, recvVars, appVars, rest>>

\* Slip: the socket is closed without waiting for the writer.
JoinEchoOnly ==
    /\ pc["recv"] = "join" /\ pc["echo"] = "done"
    /\ closed' = TRUE /\ CallClose("recv", "done")
    /\ UNCHANGED <<dpVars, sendVars, writer, broken, wire, target, recvVars,
                   appVars, echoes, switchVars>>

\* joinall and socket.close(); then serve_connection calls close() once more.
Join ==
    /\ pc["recv"] = "join"
    /\ writer = "done" /\ pc["echo"] = "done"
    /\ closed' = TRUE /\ CallClose("recv", "done")
    /\ UNCHANGED <<dpVars, sendVars, writer, broken, wire, target,
                  recvVars, appVars, echoes, switchVars>>

Receiver ==
    \/ Serve \/ LoopTest \/ Timeout \/ Parse \/ Stamp \/ BatchDone \/ Absorb
    \/ Publish \/ Notify \/ HelloFailed("recv", "final") \/ Final \/ Join
    \/ SetStateOrClose("recv")

-----------------------------------------------------------------------------
(* _echo_request_loop. The list of unanswered xids is the business of      *)
(* module Keepalive; here it may hold any number of the requests sent.     *)

EchoDisabled ==
    /\ pc["echo"] = "loop" /\ MaxUnreplied = 0
    /\ Jump("echo", "done")

EchoSend ==
    /\ pc["echo"] = "loop" /\ MaxUnreplied > 0 /\ open /\ echoes < MaxEcho
    /\ Send("EchoRequest", FALSE) /\ echoes' = echoes + 1
    /\ Goto("echo", "wait")
    /\ UNCHANGED <<dpVars, sockVars, target, back, recvVars, appVars,
                  switchVars>>

\* The writer is gone, or too many requests are unanswered: close().
EchoGivesUp ==
    /\ pc["echo"] = "loop" /\ MaxUnreplied > 0
    /\ ~open \/ echoes > MaxUnreplied
    /\ CallClose("echo", "done")
    /\ UNCHANGED <<dpVars, sendVars, target, recvVars, appVars, rest>>

\* _stopped.wait(): set, or timed out.
EchoWait ==
    /\ pc["echo"] = "wait"
    /\ \/ stopped /\ Jump("echo", "done")
       \/ ~stopped /\ Jump("echo", "loop")

Echo == \/ EchoDisabled \/ EchoSend \/ EchoGivesUp \/ EchoWait
        \/ SetStateOrClose("echo")

\* What it does whether or not the switch answers: with a prompt one, requests
\* go on, beyond MaxEcho too, until the connection ends.
EchoGoesOn ==
    \/ EchoDisabled \/ EchoSend \/ EchoWait \/ SetStateOrClose("echo")
    \/ ~open /\ EchoGivesUp

-----------------------------------------------------------------------------
(* OFPHandler's dispatch thread. A handler runs if the event carries a     *)
(* phase it is registered for; otherwise the event is dropped.             *)

Arrives(type, phases) ==
    /\ pc["handler"] = "idle" /\ inbox # <<>>
    /\ Head(inbox).msg.type = type /\ Head(inbox).stamp \in phases
    /\ inbox' = Tail(inbox)

\* Slip: the request is sent before CONFIG is entered.
HelloAsksFirst ==
    /\ Arrives("Hello", {"HANDSHAKE"})
    /\ Send("FeaturesRequest", FALSE)
    /\ CallSetState("handler", "CONFIG") /\ out' = <<"SetConfig">>
    /\ UNCHANGED <<dpVars, back, recvVars, told, rest>>

\* hello_handler, usable version: set_state(CONFIG), then ask for features.
HelloHandler ==
    /\ Arrives("Hello", {"HANDSHAKE"})
    /\ CallSetState("handler", "CONFIG") /\ out' = <<"FeaturesRequest">>
    /\ UNCHANGED <<dpVars, sendVars, back, recvVars, told, rest>>

\* hello_handler, no usable version: hello_failed.
BadHelloHandler ==
    /\ Arrives("BadHello", {"HANDSHAKE"})
    /\ Goto("handler", "fail")
    /\ UNCHANGED <<dpVars, sendVars, target, back, recvVars, out, told,
                   rest>>

\* switch_features_handler: configure the switch, ask for its ports.
SwitchFeaturesHandler ==
    /\ Arrives("Features", {"CONFIG"})
    /\ Goto("handler", "send")
    /\ out' = <<"SetConfig", "PortDescStatsRequest">>
    /\ UNCHANGED <<dpVars, sendVars, target, back, recvVars, told, rest>>

\* echo_request_handler
EchoRequestHandler ==
    /\ Arrives("EchoRequest", {"HANDSHAKE", "CONFIG", "MAIN"})
    /\ Goto("handler", "send") /\ out' = <<"EchoReply">>
    /\ UNCHANGED <<dpVars, sendVars, target, back, recvVars, told, rest>>

\* Slip: a deleted port is kept.
PortStatusKeeps ==
    /\ Arrives("PortStatus", {"MAIN"})
    /\ ports' = ports \cup {Head(inbox).msg.port}
    /\ UNCHANGED <<state, id, stopped, sendVars, threadVars, recvVars, out,
                  told, rest>>

\* port_status_handler: track the port, republish the change stamped with
\* the phase the datapath is in now.
PortStatusHandler ==
    /\ Arrives("PortStatus", {"MAIN"})
    /\ LET m == Head(inbox).msg
           change == [portChange |-> m.port, stamp |-> state] IN
       \/ /\ m.reason \in {"ADD", "MODIFY"}
          /\ ports' = ports \cup {m.port} /\ told' = Append(told, change)
       \/ /\ m.reason = "DELETE"
          /\ ports' = ports \ {m.port} /\ told' = Append(told, change)
       \/ /\ m.reason = "?"
          /\ UNCHANGED <<ports, told>>
    /\ UNCHANGED <<state, id, stopped, sendVars, threadVars, recvVars, out,
                   rest>>

\* The phases the handler of each message type is registered for.
HandlerPhases(type) ==
    CASE type \in {"Hello", "BadHello"} -> {"HANDSHAKE"}
      [] type = "Features" -> {"CONFIG"}
      [] type = "EchoRequest" -> {"HANDSHAKE", "CONFIG", "MAIN"}
      [] type = "PortStatus" -> {"MAIN"}
      [] OTHER -> {}

\* get_handlers finds no handler for the event in its phase.
DropEvent ==
    /\ inbox # <<>>
    /\ Arrives(Head(inbox).msg.type,
               Phase \ HandlerPhases(Head(inbox).msg.type))
    /\ UNCHANGED <<dpVars, sendVars, threadVars, recvVars, out, told, rest>>

\* The send_msg calls of the running handler, in order.
HandlerSends ==
    /\ pc["handler"] = "send"
    /\ Send(Head(out), FALSE)
    /\ out' = Tail(out)
    /\ Goto("handler", IF Len(out) = 1 THEN "idle" ELSE "send")
    /\ UNCHANGED <<dpVars, target, back, recvVars, inbox, told, rest>>

Handler ==
    \/ HelloHandler \/ BadHelloHandler \/ SwitchFeaturesHandler
    \/ EchoRequestHandler \/ PortStatusHandler \/ DropEvent \/ HandlerSends
    \/ HelloFailed("handler", "idle") \/ SetStateOrClose("handler")

-----------------------------------------------------------------------------
\* DPSet._register closes the connection an earlier MAIN told it about.
ClosedByOther ==
    /\ ExternalClose /\ pc["closer"] = "idle"
    /\ \E i \in DOMAIN told : told[i] = [phase |-> "MAIN"]
    /\ CallClose("closer", "done")
    /\ UNCHANGED <<dpVars, sendVars, target, recvVars, appVars, rest>>

Closer == ClosedByOther \/ SetStateOrClose("closer")

-----------------------------------------------------------------------------
(* The switch. One that follows the protocol greets once, answers the      *)
(* requests it got, and reports the changes of its ports.                  *)

OnWire(m) == \E i \in DOMAIN wire : wire[i] = m
Greeted == sent \cap {"Hello", "BadHello"} # {}

\* The ports the next part of the port description has still to list.
ToDescribe == IF "PortDescPart" \in sent THEN undescribed ELSE swPorts

FollowsProtocol(m) ==
    CASE m.type \in {"Hello", "BadHello"} -> ~Greeted
      [] m.type = "Features" -> OnWire("FeaturesRequest") /\ "Features" \notin sent
      [] m.type = "PortDesc" ->
            /\ OnWire("PortDescStatsRequest") /\ "PortDesc" \notin sent
            /\ m.body \subseteq ToDescribe
            /\ m.more = (m.body # ToDescribe)
            /\ m.more => MultiPart
      [] m.type = "PortStatus" ->
            /\ Greeted
            /\ (m.reason = "ADD") = (m.port \notin swPorts)
      [] m.type = "EchoRequest" -> Greeted
      [] OTHER -> TRUE

\* recv() returns data ending with this message.
Arrive(m) ==
    /\ pc["recv"] = "read" /\ Len(batch) < MaxBatch /\ received < MaxIn
    /\ m.type \in Sends
    /\ Rogue \/ FollowsProtocol(m)
    /\ batch' = Append(batch, m) /\ received' = received + 1
    /\ sent' = sent \cup {IF m.type = "PortDesc" /\ m.more
                            THEN "PortDescPart" ELSE m.type}
    /\ undescribed' = IF m.type = "PortDesc" THEN ToDescribe \ m.body
                                             ELSE undescribed
    /\ swPorts' = IF m.type # "PortStatus" THEN swPorts
                  ELSE IF m.reason = "DELETE" THEN swPorts \ {m.port}
                  ELSE swPorts \cup {m.port}
    /\ UNCHANGED <<dpVars, sendVars, sockVars, threadVars, stamp, appVars,
                  echoes>>

Switch == Disconnect \/ \E m \in SwitchMsg : Arrive(m)

Next == Writer \/ Receiver \/ Echo \/ Handler \/ Closer \/ Switch

\* Every thread runs: sockets have a timeout, so no call blocks for ever
\* except on an empty queue, where the thread's action is disabled. That the
\* switch leaves requests unanswered is not the echo thread's doing.
Fairness == /\ WF_vars(Writer) /\ WF_vars(Receiver) /\ WF_vars(EchoGoesOn)
            /\ WF_vars(Handler) /\ WF_vars(Closer)

Spec == Init /\ [][Next]_vars /\ Fairness

-----------------------------------------------------------------------------
(* Properties *)

\* The first message on the wire is the controller's hello, whatever the
\* echo thread and the handlers queue (serve starts them in that order).
HelloFirst == wire # <<>> => wire[1] = "Hello"

\* The switch's answers are never lost to the phase filter: a features reply
\* or a port description is stamped with the phase that asked for it, unless
\* the connection was closed meanwhile (hello_handler enters CONFIG before it
\* sends the request; _dispatch stamps).
StampFitsReply ==
    pc["recv"] \in {"absorb", "publish", "notify"}
      /\ Head(batch).type \in {"Features", "PortDesc"}
      => stamp \in {"CONFIG", "DEAD"}

\* Applications are told things in an order they can use: of MAIN only once
\* the datapath has an id to look it up by (DPSet asserts it), and of MAIN
\* before any port status stamped MAIN, although the one is announced by the
\* receive thread and the other by OFPHandler's.
NewsInOrder ==
    \A i \in DOMAIN told :
        /\ told[i] = [phase |-> "MAIN"] => id # NoId
        /\ /\ told[i] \notin [phase : Phase]
           /\ told[i].stamp = "MAIN"
           => \E j \in 1 .. i - 1 : told[j] = [phase |-> "MAIN"]

\* Datapath.ports tracks the switch: once everything received was handled,
\* it lists the ports the switch has (_absorb on the receive thread and
\* port_status_handler on the application's thread both write it).
PortsMirror ==
    /\ state = "MAIN" /\ pc["recv"] \in {"loop", "read"} /\ batch = <<>>
    /\ inbox = <<>> /\ pc["handler"] = "idle"
    => ports = swPorts

\* When a connection is over, the last MAIN or DEAD the applications were
\* told is DEAD, so none of them keeps it registered.
EndsDead ==
    pc["recv"] = "done" /\ (\A t \in Thread : pc[t] \in {"idle", "done"})
    => \E i \in DOMAIN told :
         /\ told[i] = [phase |-> "DEAD"]
         /\ \A j \in DOMAIN told : told[j] = [phase |-> "MAIN"] => j < i

\* The socket is closed only after the writer has left: nothing is written
\* to a closed socket, and no thread of serve outlives it.
ClosedAfterWriter == closed => writer = "done" /\ ~open /\ pc["echo"] = "done"

Queued(m) == \E i \in DOMAIN queue : queue[i].buf = m

\* What was queued before close() is sent, the error of hello_failed
\* included: only a failing socket or that error itself ends the writer
\* earlier (_send_loop loops on the queue, not on the state).
QueuedIsSent ==
    \A m \in CtlMsg :
        Queued(m) /\ ~stopped ~> OnWire(m) \/ broken \/ OnWire("Error")

\* Once the datapath is DEAD, whoever closed it, the connection is torn down
\* and its socket closed, even if the switch says and does nothing; unless a
\* handler or the receive thread takes it out of DEAD again.
Teardown == state = "DEAD" ~> closed \/ state # "DEAD"

\* Once the receive thread has seen the connection end, both threads of
\* serve end and the socket is closed.
EndOfServe == pc["recv"] = "final" ~> closed

=============================================================================
