-------------------------------- MODULE DPSet --------------------------------
(***************************************************************************)
(* The set of connected switches: class DPSet of c65of/dpset.py, which     *)
(* handles the events of every connection on its own dispatch thread.      *)
(*                                                                         *)
(* Around it, in outline: the switches, which may connect a second time    *)
(* before the first connection is found dead; the receive threads, which   *)
(* publish each connection's events (module Channel); and OFPHandler's     *)
(* dispatch thread, whose port_status_handler writes Datapath.ports while  *)
(* DPSet._register reads it. Each connection tells MAIN before DEAD, as it  *)
(* does while keepalive is off, the default (module Channel: EndsDead).    *)
(***************************************************************************)
EXTENDS Naturals, Sequences, FiniteSets

CONSTANTS
    Conn,           \* connections, each with its Datapath object
    DpId, Port, None,
    dpid,           \* the datapath id of each connection
    MaxChanges      \* bound: changes of the ports of the switches

\* The events about connections and ports, and a _register call under way.
Status == [ev : {"STATUS"}, conn : Conn, reason : {"ADD", "DELETE", "MODIFY"},
           port : Port]
Change == [ev : {"MAIN", "DEAD"}, conn : Conn]
Call == [conn : Conn, copied : SUBSET Port, size : 0 .. Cardinality(Port)]

ASSUME DPSetAssumption ==
    /\ dpid \in [Conn -> DpId] /\ IsFiniteSet(Port) /\ MaxChanges \in Nat
    /\ None \notin Conn
    /\ \A ps \in SUBSET Port : ps # None
    /\ \A m \in Status : m # None
    /\ \A r \in Call : r # None

VARIABLES
    \* the switches and the network
    sw,         \* the ports each switch has
    newest,     \* the connection each switch uses
    net,        \* what each connection has still to deliver, in order
    changes,
    \* the datapaths and OFPHandler
    phase,      \* "new"; "MAIN" and "DEAD" as told to DPSet; "failed" if
                \* DEAD was told without MAIN
    ports,      \* Datapath.ports
    hand,       \* the message each receive thread has stamped with MAIN
    inbox,      \* OFPHandler.events
    \* DPSet
    events,     \* DPSet.events
    dps, portState,
    registering,    \* the _register call that is copying ports, or None
    news,       \* the events published about datapaths and their ports
    raised      \* ids for which _register has ever raised

swVars == <<sw, newest, net, changes>>
dpVars == <<phase, ports, hand, inbox>>
setVars == <<dps, portState, registering, news, raised>>
vars == <<swVars, dpVars, events, setVars>>

TypeOK ==
    /\ sw \in [DpId -> SUBSET Port] /\ newest \in [DpId -> Conn \cup {None}]
    /\ net \in [Conn -> Seq(Status \cup [ev : {"PORTS"}, body : SUBSET Port])]
    /\ changes \in Nat
    /\ phase \in [Conn -> {"new", "MAIN", "DEAD", "failed"}]
    /\ ports \in [Conn -> SUBSET Port]
    /\ hand \in [Conn -> Status \cup {None}] /\ inbox \in Seq(Status)
    /\ events \in Seq(Status \cup Change)
    /\ dps \in [DpId -> Conn \cup {None}]
    /\ portState \in [DpId -> (SUBSET Port) \cup {None}]
    /\ registering \in Call \cup {None}
    /\ news \in Seq([id : DpId, ports : SUBSET Port,
                     what : {"enter", "leave", "reconnected", "ADD", "DELETE",
                             "MODIFY"}])
    /\ raised \subseteq DpId

Init ==
    /\ sw \in [DpId -> SUBSET Port]
    /\ newest = [d \in DpId |-> None] /\ net = [c \in Conn |-> <<>>]
    /\ changes = 0
    /\ phase = [c \in Conn |-> "new"] /\ ports = [c \in Conn |-> {}]
    /\ hand = [c \in Conn |-> None] /\ inbox = <<>> /\ events = <<>>
    /\ dps = [d \in DpId |-> None] /\ portState = [d \in DpId |-> None]
    /\ registering = None /\ news = <<>> /\ raised = {}

-----------------------------------------------------------------------------
(* The switches *)

\* The switch completes a handshake: its port description is on the way.
Connect(c) ==
    /\ phase[c] = "new" /\ \A d \in DpId : newest[d] # c
    /\ newest' = [newest EXCEPT ![dpid[c]] = c]
    /\ net' = [net EXCEPT ![c] = <<[ev |-> "PORTS", body |-> sw[dpid[c]]]>>]
    /\ UNCHANGED <<sw, changes, dpVars, events, setVars>>

Alive(c) == c # None /\ phase[c] \in {"new", "MAIN"}

\* A port changes; the switch reports it on the connection it uses.
PortChange(d, reason, p) ==
    /\ changes < MaxChanges /\ changes' = changes + 1
    /\ (reason = "ADD") = (p \notin sw[d])
    /\ sw' = [sw EXCEPT ![d] = IF reason = "DELETE" THEN @ \ {p} ELSE @ \cup {p}]
    /\ net' = IF Alive(newest[d])
              THEN [net EXCEPT ![newest[d]] =
                      Append(@, [ev |-> "STATUS", conn |-> newest[d],
                                 reason |-> reason, port |-> p])]
              ELSE net
    /\ UNCHANGED <<newest, dpVars, events, setVars>>

-----------------------------------------------------------------------------
(* The receive threads and OFPHandler *)

\* The port description completes the handshake: MAIN is announced.
ReceivePorts(c) ==
    /\ net[c] # <<>> /\ Head(net[c]).ev = "PORTS" /\ phase[c] = "new"
    /\ net' = [net EXCEPT ![c] = Tail(@)]
    /\ phase' = [phase EXCEPT ![c] = "MAIN"]
    /\ ports' = [ports EXCEPT ![c] = Head(net[c]).body]
    /\ events' = Append(events, [ev |-> "MAIN", conn |-> c])
    /\ UNCHANGED <<sw, newest, changes, hand, inbox, setVars>>

\* A port status arrives and is stamped with the phase MAIN ...
ReceiveStatus(c) ==
    /\ net[c] # <<>> /\ Head(net[c]).ev = "STATUS"
    /\ phase[c] = "MAIN" /\ hand[c] = None
    /\ net' = [net EXCEPT ![c] = Tail(@)]
    /\ hand' = [hand EXCEPT ![c] = Head(net[c])]
    /\ UNCHANGED <<sw, newest, changes, phase, ports, inbox, events, setVars>>

\* ... and is published to DPSet and to OFPHandler, even if DPSet has closed
\* the connection in between.
PublishStatus(c) ==
    /\ hand[c] # None /\ hand' = [hand EXCEPT ![c] = None]
    /\ events' = Append(events, hand[c])
    /\ inbox' = Append(inbox, hand[c])
    /\ UNCHANGED <<swVars, phase, ports, setVars>>

\* The connection ends; nothing more is read from it.
Lost(c) ==
    /\ phase[c] = "MAIN" \/ (phase[c] = "new" /\ newest[dpid[c]] = c)
    /\ hand[c] = None
    /\ phase' = [phase EXCEPT ![c] = IF @ = "MAIN" THEN "DEAD" ELSE "failed"]
    /\ net' = [net EXCEPT ![c] = <<>>]
    /\ events' = Append(events, [ev |-> "DEAD", conn |-> c])
    /\ UNCHANGED <<sw, newest, changes, ports, hand, inbox, setVars>>

\* OFPHandler.port_status_handler
TrackPort ==
    /\ inbox # <<>> /\ inbox' = Tail(inbox)
    /\ LET m == Head(inbox) IN
       ports' = [ports EXCEPT ![m.conn] = IF m.reason = "DELETE"
                                          THEN @ \ {m.port} ELSE @ \cup {m.port}]
    /\ UNCHANGED <<swVars, phase, hand, events, setVars>>

-----------------------------------------------------------------------------
(* DPSet's dispatch thread *)

\* DPSet takes the next event, if it is of this kind and no handler runs.
Take(kind) ==
    /\ registering = None
    /\ events # <<>> /\ Head(events).ev = kind

\* Publish an event about a datapath, or about one of its ports.
News(c, what, ps) ==
    news' = Append(news, [id |-> dpid[c], what |-> what, ports |-> ps])

\* _register of an id that is not registered: it is in dps from here on, and
\* the ports of the datapath are copied one by one.
RegisterNew ==
    /\ Take("MAIN")
    /\ LET c == Head(events).conn IN
       /\ dps[dpid[c]] = None
       /\ dps' = [dps EXCEPT ![dpid[c]] = c]
       /\ portState' = [portState EXCEPT ![dpid[c]] = {}]
       /\ registering' = [conn |-> c, copied |-> {},
                          size |-> Cardinality(ports[c])]
    /\ events' = Tail(events)
    /\ UNCHANGED <<swVars, dpVars, news, raised>>

\* One turn of `for port in dp.ports.values()`.
CopyPort ==
    /\ registering # None
    /\ LET c == registering.conn IN
       /\ Cardinality(ports[c]) = registering.size
       /\ \E p \in ports[c] \ registering.copied :
            /\ portState' = [portState EXCEPT ![dpid[c]] = @ \cup {p}]
            /\ registering' = [registering EXCEPT !.copied = @ \cup {p}]
    /\ UNCHANGED <<swVars, dpVars, events, dps, news, raised>>

\* Slip: the enter event carries no ports.
RegisterDoneBare ==
    /\ registering # None
    /\ ports[registering.conn] \subseteq registering.copied
    /\ News(registering.conn, "enter", {})
    /\ registering' = None
    /\ UNCHANGED <<swVars, dpVars, events, dps, portState, raised>>

\* The loop is over: the switch has entered.
RegisterDone ==
    /\ registering # None
    /\ LET c == registering.conn IN
       /\ Cardinality(ports[c]) = registering.size
       /\ ports[c] \subseteq registering.copied
       /\ News(c, "enter", registering.copied)
    /\ registering' = None
    /\ UNCHANGED <<swVars, dpVars, events, dps, portState, raised>>

\* The dictionary changed size during the iteration: RuntimeError ends the
\* handler, and the dispatch thread logs it.
RegisterFails ==
    /\ registering # None
    /\ Cardinality(ports[registering.conn]) # registering.size
    /\ registering' = None
    /\ raised' = raised \cup {dpid[registering.conn]}
    /\ UNCHANGED <<swVars, dpVars, events, dps, portState, news>>

\* Slip: the earlier connection is not closed.
RegisterAgainOpen ==
    /\ Take("MAIN")
    /\ LET c == Head(events).conn IN
       /\ dps[dpid[c]] # None
       /\ dps' = [dps EXCEPT ![dpid[c]] = c]
       /\ News(c, "reconnected", portState[dpid[c]])
    /\ events' = Tail(events)
    /\ UNCHANGED <<swVars, dpVars, portState, registering, raised>>

\* _register of an id that is registered: close the earlier connection, whose
\* DEAD is then announced, and keep the port state.
RegisterAgain ==
    /\ Take("MAIN")
    /\ LET c == Head(events).conn
           old == dps[dpid[c]] IN
       /\ old # None
       /\ IF phase[old] = "DEAD"
            THEN events' = Tail(events) /\ UNCHANGED phase
            ELSE /\ events' = Append(Tail(events), [ev |-> "DEAD", conn |-> old])
                 /\ phase' = [phase EXCEPT ![old] = "DEAD"]
       /\ dps' = [dps EXCEPT ![dpid[c]] = c]
       /\ News(c, "reconnected", portState[dpid[c]])
    /\ UNCHANGED <<swVars, ports, hand, inbox, portState, registering, raised>>

\* Slip: _unregister asks whether the id is registered, not the connection.
UnregisterById ==
    /\ Take("DEAD")
    /\ LET d == dpid[Head(events).conn] IN
       /\ dps' = [dps EXCEPT ![d] = None]
       /\ portState' = [portState EXCEPT ![d] = None]
    /\ events' = Tail(events)
    /\ UNCHANGED <<swVars, dpVars, registering, news, raised>>

\* Slip: a leave is published for a connection that never entered.
UnregisterAny ==
    /\ Take("DEAD")
    /\ LET c == Head(events).conn
           d == dpid[c] IN
       /\ dps' = [dps EXCEPT ![d] = None]
       /\ portState' = [portState EXCEPT ![d] = None]
       /\ News(c, "leave", {})
    /\ events' = Tail(events)
    /\ UNCHANGED <<swVars, dpVars, registering, raised>>

\* Slip: the ports are dropped and the datapath is kept.
UnregisterPorts ==
    /\ Take("DEAD")
    /\ portState' = [portState EXCEPT ![dpid[Head(events).conn]] = None]
    /\ events' = Tail(events)
    /\ UNCHANGED <<swVars, dpVars, dps, registering, news, raised>>

\* _unregister, which ignores a connection that is not registered.
Unregister ==
    /\ Take("DEAD")
    /\ LET c == Head(events).conn
           d == dpid[c] IN
       IF \A e \in DpId : dps[e] # c
         THEN UNCHANGED <<dps, portState, news>>
         ELSE /\ dps' = [dps EXCEPT ![d] = None]
              /\ portState' = [portState EXCEPT ![d] = None]
              /\ News(c, "leave", portState[d])
    /\ events' = Tail(events)
    /\ UNCHANGED <<swVars, dpVars, registering, raised>>

\* Slip: a deleted port is replaced instead of removed.
TrackStatusKeeps ==
    /\ Take("STATUS")
    /\ LET m == Head(events)
           d == dpid[m.conn] IN
       portState' = IF portState[d] = None THEN portState
                    ELSE [portState EXCEPT ![d] = @ \cup {m.port}]
    /\ events' = Tail(events)
    /\ UNCHANGED <<swVars, dpVars, dps, registering, news, raised>>

\* port_status_handler; an id without port state, or the removal of a port it
\* does not hold, raises KeyError and changes nothing.
TrackStatus ==
    /\ Take("STATUS")
    /\ LET m == Head(events)
           d == dpid[m.conn] IN
       IF portState[d] = None
            \/ (m.reason = "DELETE" /\ m.port \notin portState[d])
         THEN UNCHANGED <<portState, news>>
         ELSE /\ portState' = [portState EXCEPT ![d] =
                                 IF m.reason = "DELETE" THEN @ \ {m.port}
                                                        ELSE @ \cup {m.port}]
              /\ News(m.conn, m.reason, {m.port})
    /\ events' = Tail(events)
    /\ UNCHANGED <<swVars, dpVars, dps, registering, raised>>

Dispatch == \/ RegisterNew \/ CopyPort \/ RegisterDone \/ RegisterFails
            \/ RegisterAgain \/ Unregister \/ TrackStatus

Next ==
    \/ Dispatch \/ TrackPort
    \/ \E c \in Conn :
         \/ Connect(c) \/ ReceivePorts(c) \/ ReceiveStatus(c)
         \/ PublishStatus(c) \/ Lost(c)
    \/ \E d \in DpId, p \in Port, r \in {"ADD", "DELETE", "MODIFY"} :
         PortChange(d, r, p)

\* The dispatch threads run.
Spec == Init /\ [][Next]_vars /\ WF_vars(Dispatch) /\ WF_vars(TrackPort)

-----------------------------------------------------------------------------
(* Properties *)

Quiet == events = <<>> /\ inbox = <<>> /\ registering = None

\* A connection counts as used once DPSet has taken its MAIN.
Registered == { c \in Conn : /\ phase[c] \in {"MAIN", "DEAD"}
                             /\ \A i \in DOMAIN events :
                                  events[i] # [ev |-> "MAIN", conn |-> c] }

\* Whatever order connects, reconnects and disconnects arrive in, and
\* whatever a handler raises, dps holds for each id the connection that came
\* last, until that connection itself is closed; the one it took the id from
\* is closed in the same step.
R == INSTANCE Registry WITH
        holder <- dps, used <- Registered,
        dead <- { c \in Conn : phase[c] \in {"DEAD", "failed"} }
ImplementsRegistry == R!Spec

\* With every event handled, the connections in MAIN are exactly those
\* registered: a replaced one was closed, a dead one forgotten.
RegistryCurrent ==
    Quiet => \A d \in DpId :
        { c \in Conn : phase[c] = "MAIN" /\ dpid[c] = d } = {dps[d]} \ {None}

\* The enter and leave events about one datapath id.
Switching(d) ==
    { i \in DOMAIN news : news[i].id = d /\ news[i].what \in {"enter", "leave"} }

\* Of those before place n, the last is an enter.
Inside(d, n) ==
    \E i \in Switching(d) :
        /\ i < n /\ news[i].what = "enter"
        /\ \A j \in Switching(d) : ~(i < j /\ j < n)

Alternates(d) ==
    \A i \in Switching(d) :
        news[i].what = IF Inside(d, i) THEN "leave" ELSE "enter"

\* Applications see each switch enter before it leaves, and leave before it
\* enters again.
EnterThenLeave == \A d \in DpId : Alternates(d)

\* They do, and so it stays whatever connects, reconnects or disconnects,
\* unless _register raised.
EntersAndLeaves == \A d \in DpId \ raised : Alternates(d)

\* An event about a datapath adds a port to what an application that follows
\* the events holds, or removes it.
Gives(n, d, p) == n.id = d /\ p \in n.ports /\ n.what \notin {"leave", "DELETE"}
Takes(n, d, p) ==
    /\ n.id = d
    /\ \/ n.what = "leave"
       \/ n.what = "DELETE" /\ p \in n.ports
       \/ n.what \in {"enter", "reconnected"} /\ p \notin n.ports

\* What it holds: the ports it was given and that no later event took.
View(d) ==
    { p \in Port : \E i \in DOMAIN news :
                     /\ Gives(news[i], d, p)
                     /\ \A j \in DOMAIN news : i < j => ~Takes(news[j], d, p) }

\* An application that follows the published events holds the ports that
\* get_ports would return, also over reconnects, unless _register raised.
ViewMatches ==
    registering = None =>
        \A d \in DpId \ raised :
            View(d) = IF portState[d] = None THEN {} ELSE portState[d]

\* With everything received and handled, the port state of a switch that
\* connected once is the port list of its datapath, and both are the switch's,
\* whenever its ports changed, unless _register raised.
PortsConverge ==
    Quiet => \A d \in DpId \ raised :
        LET c == dps[d] IN
        /\ c # None /\ c = newest[d] /\ net[c] = <<>> /\ hand[c] = None
        /\ \A b \in Registered : dpid[b] = d => b = c
        => portState[d] = ports[c] /\ portState[d] = sw[d]

\* A connection announced dead does not stay registered.
DeadIsForgotten ==
    \A c \in Conn : phase[c] \in {"DEAD", "failed"} ~> dps[dpid[c]] # c

=============================================================================
