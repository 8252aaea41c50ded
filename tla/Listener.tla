------------------------------ MODULE Listener ------------------------------
(***************************************************************************)
(* OpenFlowController of c65of/controller.py: start binds the listeners    *)
(* and gives each an accept thread, stop closes them and waits for the     *)
(* threads, __call__ waits for them too. A connection is a client's from   *)
(* the backlog of a listener to the end of serve_connection; what happens  *)
(* in between is module Channel. start and stop are called by one thread   *)
(* each, stop once start has returned or raised.                           *)
(*                                                                         *)
(* The environment: clients connect, complete or fail the TLS handshake    *)
(* and leave; those in Silent connect and say nothing. Fault is what may   *)
(* go wrong in a system call.                                              *)
(***************************************************************************)
EXTENDS Naturals, FiniteSets

CONSTANTS
    Client,
    Silent,     \* clients that never start the handshake
    Fault,      \* of "bind", "cert" and "accept", those that may happen
    UseSsl,     \* use_ssl: a certificate and a key are configured
    MaxStarts   \* bound: calls of start

ASSUME ListenerAssumption ==
    /\ Silent \subseteq Client
    /\ Fault \subseteq {"bind", "cert", "accept"}
    /\ UseSsl \in BOOLEAN /\ MaxStarts \in Nat

Port == {"tcp", "ssl"}

\* A listening socket, and the accept thread on it: its port and the call of
\* start that made it.
Listening == [port : Port, run : 1 .. MaxStarts]

NoClient == "none"
Nowhere == [port |-> "none", run |-> 0]
ASSUME NoClientAssumption == NoClient \notin Client

VARIABLES
    active,     \* is_active
    run,        \* calls of start so far
    spc,        \* the thread in start, then in __call__
    tpc,        \* the thread in stop
    listeners,  \* self.listeners
    threads,    \* self.threads
    open,       \* the sockets that listen
    apc,        \* the label of each accept thread; "failed" is "ended", by accept
    hand,       \* the connection each accept thread has in hand
    conn,       \* where the connection of each client is
    at,         \* the socket it came to
    shaken      \* what the client made of the TLS handshake

control == <<active, run, spc, tpc, listeners, threads>>
sockets == <<open, apc, hand>>
clients == <<conn, at, shaken>>
vars == <<control, sockets, clients>>

TypeOK ==
    /\ active \in BOOLEAN /\ run \in 0 .. MaxStarts
    /\ spc \in {"idle", "listen", "accept", "listen_ssl", "context",
                "accept_ssl", "join", "failed"}
    /\ tpc \in {"idle", "close", "join", "clear"}
    /\ listeners \subseteq Listening /\ threads \subseteq Listening
    /\ open \subseteq Listening
    /\ apc \in [Listening -> {"off", "check", "call", "accept", "wrap", "spawn",
                          "ended", "failed"}]
    /\ hand \in [Listening -> Client \cup {NoClient}]
    /\ conn \in [Client -> {"none", "backlog", "accepted", "serving", "closed"}]
    /\ at \in [Client -> Listening \cup {Nowhere}]
    /\ shaken \in [Client -> {"none", "done", "failed"}]

Init ==
    /\ active = FALSE /\ run = 0 /\ spc = "idle" /\ tpc = "idle"
    /\ listeners = {} /\ threads = {} /\ open = {}
    /\ apc = [l \in Listening |-> "off"]
    /\ hand = [l \in Listening |-> NoClient]
    /\ conn = [c \in Client |-> "none"] /\ at = [c \in Client |-> Nowhere]
    /\ shaken = [c \in Client |-> "none"]

\* The listener, and the thread on it, that this run has on a port.
The(port) == [port |-> port, run |-> run]

\* A port another socket listens on cannot be bound.
InUse(port) == \E l \in open : l.port = port

-----------------------------------------------------------------------------
(* start *)

CallStart ==
    /\ spc = "idle" /\ tpc = "idle" /\ ~active /\ run < MaxStarts
    /\ spc' = "listen" /\ active' = TRUE /\ run' = run + 1
    /\ UNCHANGED <<tpc, listeners, threads, sockets, clients>>

\* _listen; a socket that fails to bind is on no list.
Listen(port, from, to) ==
    /\ spc = from
    /\ \/ /\ ~InUse(port) /\ spc' = to
          /\ listeners' = listeners \cup {The(port)}
          /\ open' = open \cup {The(port)}
       \/ /\ InUse(port) \/ "bind" \in Fault
          /\ spc' = "failed" /\ UNCHANGED <<listeners, open>>
    /\ UNCHANGED <<active, run, tpc, threads, apc, hand, clients>>

\* ssl_context, which reads the certificates.
SslContext ==
    /\ spc = "context"
    /\ spc' \in {"accept_ssl"} \cup (IF "cert" \in Fault THEN {"failed"} ELSE {})
    /\ UNCHANGED <<active, run, tpc, listeners, threads, sockets, clients>>

\* _accept_on
AcceptOn(port, from, to) ==
    /\ spc = from /\ spc' = to
    /\ threads' = threads \cup {The(port)}
    /\ apc' = [apc EXCEPT ![The(port)] = "check"]
    /\ UNCHANGED <<active, run, tpc, listeners, open, hand, clients>>

\* __call__ returns once the accept threads have ended.
CallReturn ==
    /\ spc = "join" /\ spc' = "idle"
    /\ \A p \in Port : apc[The(p)] \in {"off", "ended", "failed"}
    /\ UNCHANGED <<active, run, tpc, listeners, threads, sockets, clients>>

Start ==
    \/ Listen("tcp", "listen", "accept")
    \/ AcceptOn("tcp", "accept", IF UseSsl THEN "listen_ssl" ELSE "join")
    \/ Listen("ssl", "listen_ssl", "context")
    \/ SslContext
    \/ AcceptOn("ssl", "accept_ssl", "join")
    \/ CallReturn

-----------------------------------------------------------------------------
(* stop *)

\* is_active = False; a start that raised is cleaned up as well.
CallStop ==
    /\ active /\ spc \in {"idle", "join", "failed"} /\ tpc = "idle"
    /\ tpc' = "close" /\ active' = FALSE
    /\ spc' = IF spc = "failed" THEN "idle" ELSE spc
    /\ UNCHANGED <<run, listeners, threads, sockets, clients>>

\* The loop over the listeners; the system resets what is in their backlogs.
CloseListeners ==
    /\ tpc = "close"
    /\ IF listeners \cap open = {}
       THEN tpc' = "join" /\ UNCHANGED <<open, conn>>
       ELSE \E l \in listeners \cap open :
              /\ open' = open \ {l}
              /\ conn' = [c \in Client |->
                            IF conn[c] = "backlog" /\ at[c] = l
                            THEN "closed" ELSE conn[c]]
              /\ UNCHANGED tpc
    /\ UNCHANGED <<active, run, spc, listeners, threads, apc, hand, at, shaken>>

\* Slip: stop does not wait.
JoinNothing ==
    /\ tpc = "join" /\ tpc' = "clear"
    /\ UNCHANGED <<active, run, spc, listeners, threads, sockets, clients>>

\* hub.joinall(self.threads)
JoinThreads ==
    /\ tpc = "join" /\ tpc' = "clear"
    /\ \A l \in threads : apc[l] \in {"ended", "failed"}
    /\ UNCHANGED <<active, run, spc, listeners, threads, sockets, clients>>

ClearLists ==
    /\ tpc = "clear" /\ tpc' = "idle"
    /\ listeners' = {} /\ threads' = {}
    /\ UNCHANGED <<active, run, spc, sockets, clients>>

Stop == CloseListeners \/ JoinThreads \/ ClearLists

-----------------------------------------------------------------------------
(* _accept_loop *)

LoopTest(l) ==
    /\ apc[l] = "check"
    /\ apc' = [apc EXCEPT ![l] = IF active THEN "call" ELSE "ended"]
    /\ UNCHANGED <<control, open, hand, clients>>

\* accept() is called, which raises if the socket has been closed.
CallAccept(l) ==
    /\ apc[l] = "call"
    /\ apc' = [apc EXCEPT ![l] = IF l \in open THEN "accept" ELSE "ended"]
    /\ UNCHANGED <<control, open, hand, clients>>

Pending(l) == {c \in Client : conn[c] = "backlog" /\ at[c] = l}

\* accept() returns a connection, which on the TLS port is to be wrapped.
Accept(l) ==
    /\ apc[l] = "accept" /\ l \in open
    /\ \E c \in Pending(l) :
         /\ hand' = [hand EXCEPT ![l] = c]
         /\ conn' = [conn EXCEPT ![c] = "accepted"]
    /\ apc' = [apc EXCEPT ![l] = IF l.port = "ssl" THEN "wrap" ELSE "spawn"]
    /\ UNCHANGED <<control, open, at, shaken>>

\* Slip: the listener has no timeout; closing it does not wake the thread.
AcceptBlocks(l) ==
    /\ apc[l] = "accept" /\ Pending(l) = {} /\ l \in open
    /\ apc' = [apc EXCEPT ![l] = "check"]
    /\ UNCHANGED <<control, open, hand, clients>>

\* socket.timeout: nothing came, or the socket was closed meanwhile.
AcceptTimeout(l) ==
    /\ apc[l] = "accept" /\ Pending(l) = {}
    /\ apc' = [apc EXCEPT ![l] = "check"]
    /\ UNCHANGED <<control, open, hand, clients>>

\* OSError: a connection is there, but the process has no file descriptor left
\* for it. The loop ends.
AcceptFails(l) ==
    /\ apc[l] = "accept" /\ "accept" \in Fault
    /\ l \in open /\ Pending(l) # {}
    /\ apc' = [apc EXCEPT ![l] = "failed"]
    /\ UNCHANGED <<control, open, hand, clients>>

\* wrap_socket shakes hands with the client ...
WrapSocket(l) ==
    /\ apc[l] = "wrap" /\ shaken[hand[l]] = "done"
    /\ apc' = [apc EXCEPT ![l] = "spawn"]
    /\ UNCHANGED <<control, open, hand, clients>>

WrapRaises(l, next) ==
    /\ apc[l] = "wrap" /\ shaken[hand[l]] = "failed"
    /\ apc' = [apc EXCEPT ![l] = next]
    /\ UNCHANGED <<control, open, at, shaken>>

\* Slip: a failed handshake ends the loop.
WrapBreaks(l) ==
    /\ WrapRaises(l, "ended")
    /\ hand' = [hand EXCEPT ![l] = NoClient]
    /\ conn' = [conn EXCEPT ![hand[l]] = "closed"]

\* Slip: a connection whose handshake failed is not closed.
WrapLeaks(l) ==
    /\ WrapRaises(l, "check")
    /\ hand' = [hand EXCEPT ![l] = NoClient] /\ UNCHANGED conn

\* ... or raises; the socket is closed and the loop goes on.
WrapFails(l) ==
    /\ WrapRaises(l, "check")
    /\ hand' = [hand EXCEPT ![l] = NoClient]
    /\ conn' = [conn EXCEPT ![hand[l]] = "closed"]

\* hub.spawn(self.serve_connection, ...)
SpawnServe(l) ==
    /\ apc[l] = "spawn"
    /\ conn' = [conn EXCEPT ![hand[l]] = "serving"]
    /\ hand' = [hand EXCEPT ![l] = NoClient]
    /\ apc' = [apc EXCEPT ![l] = "check"]
    /\ UNCHANGED <<control, open, at, shaken>>

AcceptLoop(l) ==
    \/ LoopTest(l) \/ CallAccept(l) \/ Accept(l) \/ AcceptTimeout(l)
    \/ AcceptFails(l) \/ WrapSocket(l) \/ WrapFails(l) \/ SpawnServe(l)

-----------------------------------------------------------------------------
(* The clients *)

Connect(c) ==
    /\ conn[c] = "none"
    /\ \E l \in open :
         /\ at' = [at EXCEPT ![c] = l] /\ conn' = [conn EXCEPT ![c] = "backlog"]
    /\ UNCHANGED <<control, sockets, shaken>>

\* The client completes the handshake, or does something else.
Shake(c) ==
    /\ conn[c] \in {"backlog", "accepted"} /\ shaken[c] = "none"
    /\ at[c].port = "ssl" /\ c \notin Silent
    /\ \E how \in {"done", "failed"} : shaken' = [shaken EXCEPT ![c] = how]
    /\ UNCHANGED <<control, sockets, conn, at>>

\* serve_connection ends.
ServeReturns(c) ==
    /\ conn[c] = "serving" /\ conn' = [conn EXCEPT ![c] = "closed"]
    /\ UNCHANGED <<control, sockets, at, shaken>>

Next ==
    \/ CallStart \/ Start \/ CallStop \/ Stop
    \/ \E l \in Listening : AcceptLoop(l)
    \/ \E c \in Client : Connect(c) \/ Shake(c) \/ ServeReturns(c)

\* Every thread runs once it is called or started, a client that is not silent
\* does its part of the handshake; nobody has to connect, leave, start or stop.
Spec ==
    /\ Init /\ [][Next]_vars
    /\ WF_vars(Start) /\ WF_vars(Stop)
    /\ \A l \in Listening : WF_vars(AcceptLoop(l))
    /\ \A c \in Client : WF_vars(Shake(c))

-----------------------------------------------------------------------------
(* Properties *)

\* Once stop has returned, no socket listens, no thread accepts and none has a
\* connection in hand, however far start had come (385: close the listeners
\* and wait for the accept threads to finish); so the next start finds its
\* ports free.
StoppedIsQuiet ==
    /\ ~active /\ tpc = "idle" =>
          /\ open = {}
          /\ \A l \in Listening : apc[l] \in {"off", "ended", "failed"} /\ hand[l] = NoClient
    /\ spc = "listen" => ~InUse("tcp")
    /\ spc = "listen_ssl" => ~InUse("ssl")

\* A connection that was accepted is in the hand of the one thread that
\* accepted it until it is served or closed: none is dropped unclosed; and none
\* that came to the TLS port is served without the handshake.
AcceptedIsInHand ==
    \A c \in Client :
        /\ conn[c] = "accepted" <=> Cardinality({l \in Listening : hand[l] = c}) = 1
        /\ conn[c] = "serving" /\ at[c].port = "ssl" => shaken[c] = "done"

\* stop returns, and __call__ once the controller is stopped: the accept threads
\* notice that they are to end, although closing a socket does not wake a
\* thread blocked in accept (409).
StopReturns ==
    /\ tpc = "close" ~> tpc = "idle"
    /\ spc = "join" /\ ~active ~> spc = "idle"

\* Every connection that comes to a listener with an accept thread is served,
\* or closed because its handshake failed or the controller stopped (325: gives
\* each one a Datapath), whatever the other connections do. It is left waiting
\* only if accept() raised on its listener, which ends the loop (426).
EachServed ==
    \A c \in Client :
        (conn[c] = "backlog" /\ apc[at[c]] # "off")
            ~> \/ conn[c] \in {"serving", "closed"}
               \/ conn[c] = "backlog" /\ apc[at[c]] = "failed"

=============================================================================
