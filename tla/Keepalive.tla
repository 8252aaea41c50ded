------------------------------ MODULE Keepalive ------------------------------
(***************************************************************************)
(* Transaction ids and keepalive of one Datapath of c65of/controller.py:   *)
(* set_xid, which every thread that sends calls without a lock, and        *)
(* _echo_request_loop with acknowledge_echo_reply.                         *)
(*                                                                         *)
(* "echo" is the echo thread; Sender are the other threads that call       *)
(* send_msg (OFPHandler's dispatch thread and the applications). set_xid   *)
(* reads self.xid three times: to increment it, to put it on the message   *)
(* and to return it, and the thread may lose the processor at the call in  *)
(* between, so each read is a step.                                        *)
(***************************************************************************)
EXTENDS Naturals, Sequences, SequencesExt

CONSTANTS
    Sender,         \* threads other than "echo" that send requests
    MaxUnreplied,   \* max_unreplied_echo_requests
    MaxXid,         \* MAX_XID
    MaxSends        \* bound: requests each Sender sends

ASSUME KeepaliveAssumption ==
    /\ "echo" \notin Sender
    /\ MaxUnreplied \in Nat \ {0} /\ MaxXid \in Nat /\ MaxSends \in Nat

Caller == Sender \cup {"echo"}
Xid == 0 .. MaxXid

VARIABLES
    xid,        \* self.xid
    unreplied,  \* self.unreplied_echo_requests
    open,       \* send_q is not None
    stopped,    \* _stopped is set
    pc,
    reg,        \* the value of self.xid each thread is incrementing
    msgXid,     \* the xid on the message each thread is sending
    returned,   \* what each thread's set_xid returned
    flight,     \* echo requests queued and not yet acknowledged, in order
    sends,      \* requests each Sender has started
    silent,     \* the switch has stopped answering
    late,       \* an interval ended with more than MaxUnreplied in flight
    raced       \* two threads have been in set_xid at once

locals == <<pc, reg, msgXid, returned>>
env == <<silent, late, raced>>
vars == <<xid, unreplied, open, stopped, locals, flight, sends, env>>

TypeOK ==
    /\ xid \in Xid /\ unreplied \in Seq(Xid) /\ flight \in Seq(Xid)
    /\ open \in BOOLEAN /\ stopped \in BOOLEAN
    /\ silent \in BOOLEAN /\ late \in BOOLEAN /\ raced \in BOOLEAN
    /\ pc \in [Caller -> {"idle", "check", "read", "store", "mark", "return",
                          "append", "queue", "wait", "close", "done"}]
    /\ reg \in [Caller -> Xid] /\ msgXid \in [Caller -> Xid]
    /\ returned \in [Caller -> Xid]
    /\ sends \in [Sender -> Nat]

\* The first xid is random; the echo thread has been started.
Init ==
    /\ xid \in Xid /\ unreplied = <<>> /\ flight = <<>>
    /\ open = TRUE /\ stopped = FALSE
    /\ silent = FALSE /\ late = FALSE /\ raced = FALSE
    /\ pc = [t \in Caller |-> IF t = "echo" THEN "check" ELSE "idle"]
    /\ reg = [t \in Caller |-> 0] /\ msgXid = [t \in Caller |-> 0]
    /\ returned = [t \in Caller |-> 0]
    /\ sends = [s \in Sender |-> 0]

Step(t, from, to) == pc[t] = from /\ pc' = [pc EXCEPT ![t] = to]

-----------------------------------------------------------------------------
(* set_xid                                                                 *)

\* self.xid = (self.xid + 1) & MAX_XID: the read ...
ReadXid(t) ==
    /\ Step(t, "read", "store")
    /\ reg' = [reg EXCEPT ![t] = xid]
    /\ raced' = (raced \/ \E u \in Caller : pc[u] \in {"store", "mark", "return"})
    /\ UNCHANGED <<xid, unreplied, open, stopped, msgXid, returned, flight,
                   sends, silent, late>>

\* ... and the assignment.
StoreXid(t) ==
    /\ Step(t, "store", "mark")
    /\ xid' = (reg[t] + 1) % (MaxXid + 1)
    /\ UNCHANGED <<unreplied, open, stopped, reg, msgXid, returned, flight,
                   sends, env>>

\* msg.set_xid(self.xid)
MarkMsg(t) ==
    /\ Step(t, "mark", "return")
    /\ msgXid' = [msgXid EXCEPT ![t] = xid]
    /\ UNCHANGED <<xid, unreplied, open, stopped, reg, returned, flight,
                   sends, env>>

\* return self.xid
ReturnXid(t) ==
    /\ Step(t, "return", IF t = "echo" THEN "append" ELSE "queue")
    /\ returned' = [returned EXCEPT ![t] = xid]
    /\ UNCHANGED <<xid, unreplied, open, stopped, reg, msgXid, flight, sends,
                   env>>

SetXid(t) == ReadXid(t) \/ StoreXid(t) \/ MarkMsg(t) \/ ReturnXid(t)

\* send_msg of a message without an xid, by an application.
SendMsg(s) ==
    \/ /\ Step(s, "idle", "read") /\ sends[s] < MaxSends
       /\ sends' = [sends EXCEPT ![s] = @ + 1]
       /\ UNCHANGED <<xid, unreplied, open, stopped, reg, msgXid, returned,
                      flight, env>>
    \/ /\ Step(s, "queue", "idle")
       /\ UNCHANGED <<xid, unreplied, open, stopped, reg, msgXid, returned,
                      flight, sends, env>>

-----------------------------------------------------------------------------
(* _echo_request_loop                                                      *)

\* Slip: < for <=.
EchoCheckStrict ==
    /\ Step("echo", "check",
            IF open /\ Len(unreplied) < MaxUnreplied THEN "read" ELSE "close")
    /\ UNCHANGED <<xid, unreplied, open, stopped, reg, msgXid, returned,
                   flight, sends, env>>

\* The loop condition; when it fails the loop ends in close().
EchoCheck ==
    /\ Step("echo", "check",
            IF open /\ Len(unreplied) <= MaxUnreplied THEN "read" ELSE "close")
    /\ UNCHANGED <<xid, unreplied, open, stopped, reg, msgXid, returned,
                   flight, sends, env>>

\* unreplied_echo_requests.append(...), before the request is queued.
EchoAppend ==
    /\ Step("echo", "append", "queue")
    /\ unreplied' = Append(unreplied, returned["echo"])
    /\ UNCHANGED <<xid, open, stopped, reg, msgXid, returned, flight, sends,
                   env>>

\* send_msg(echo_req), which keeps the xid the message has.
EchoQueue ==
    /\ Step("echo", "queue", "wait")
    /\ flight' = IF open THEN Append(flight, msgXid["echo"]) ELSE flight
    /\ UNCHANGED <<xid, unreplied, open, stopped, reg, msgXid, returned,
                   sends, env>>

\* Slip: the thread sleeps instead of waiting for _stopped.
EchoSleeps ==
    /\ Step("echo", "wait", "check")
    /\ late' = (late \/ Len(flight) > MaxUnreplied)
    /\ UNCHANGED <<xid, unreplied, open, stopped, reg, msgXid, returned,
                   flight, sends, silent, raced>>

\* _stopped.wait(interval): the interval passes, or _stopped is set.
EchoWait ==
    /\ \/ /\ ~stopped /\ Step("echo", "wait", "check")
          /\ late' = (late \/ Len(flight) > MaxUnreplied)
       \/ /\ stopped /\ Step("echo", "wait", "done") /\ UNCHANGED late
    /\ UNCHANGED <<xid, unreplied, open, stopped, reg, msgXid, returned,
                   flight, sends, silent, raced>>

\* Slip: the loop ends without closing the datapath.
EchoReturns ==
    /\ Step("echo", "close", "done")
    /\ UNCHANGED <<xid, unreplied, open, stopped, reg, msgXid, returned,
                   flight, sends, env>>

\* close(), of which only _stopped matters here.
EchoClose ==
    /\ Step("echo", "close", "done")
    /\ stopped' = TRUE
    /\ UNCHANGED <<xid, unreplied, open, reg, msgXid, returned, flight,
                   sends, env>>

Echo == EchoCheck \/ SetXid("echo") \/ EchoAppend \/ EchoQueue \/ EchoWait
          \/ EchoClose

-----------------------------------------------------------------------------
(* The other end and the other threads of the datapath.                    *)

\* Slip: any answer clears the list.
AcknowledgeAll ==
    /\ ~silent /\ flight # <<>>
    /\ unreplied' = <<>> /\ flight' = Tail(flight)
    /\ UNCHANGED <<xid, open, stopped, locals, sends, env>>

\* The switch answers the oldest request, with its xid, and OFPHandler's
\* echo_reply_handler calls acknowledge_echo_reply.
Acknowledge ==
    /\ ~silent /\ flight # <<>>
    /\ unreplied' = RemoveFirst(unreplied, Head(flight))
    /\ flight' = Tail(flight)
    /\ UNCHANGED <<xid, open, stopped, locals, sends, env>>

GoSilent ==
    /\ ~silent /\ silent' = TRUE
    /\ UNCHANGED <<xid, unreplied, open, stopped, locals, flight, sends, late,
                   raced>>

\* Another thread closes the datapath.
Close ==
    /\ ~stopped /\ stopped' = TRUE
    /\ UNCHANGED <<xid, unreplied, open, locals, flight, sends, env>>

\* The writer leaves: it read the sentinel of close(), or sendall failed.
WriterExit ==
    /\ open /\ open' = FALSE
    /\ UNCHANGED <<xid, unreplied, stopped, locals, flight, sends, env>>

Next ==
    \/ Echo
    \/ \E s \in Sender : SetXid(s) \/ SendMsg(s)
    \/ Acknowledge \/ GoSilent \/ Close \/ WriterExit

\* The echo thread runs; the switch and the other threads owe nothing.
Spec == Init /\ [][Next]_vars /\ WF_vars(Echo)

-----------------------------------------------------------------------------
(* Properties *)

\* As long as no two threads were in set_xid at once, it returns the id it
\* put on the message; and while the channel is open the list then holds
\* exactly the requests in flight and the one about to be queued: an answer is
\* never handled before its request was appended, nor left on the list.
ListIsFlight ==
    ~raced =>
        /\ \A t \in Caller :
               pc[t] \in {"append", "queue"} => returned[t] = msgXid[t]
        /\ open => unreplied = IF pc["echo"] = "queue"
                               THEN Append(flight, msgXid["echo"])
                               ELSE flight

\* A switch that is never more than MaxUnreplied answers behind at the end of
\* an interval is not disconnected, unless the writer has gone or two threads
\* were in set_xid at once.
KeepsPromptSwitch == pc["echo"] = "close" => late \/ ~open \/ raced

\* A switch that stops answering is disconnected.
SilentSwitchIsClosed == silent ~> stopped

\* The echo thread ends once the datapath is closed: serve joins it.
EchoThreadEnds == stopped ~> pc["echo"] = "done"

=============================================================================
