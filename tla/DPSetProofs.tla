----------------------------- MODULE DPSetProofs -----------------------------
(***************************************************************************)
(* Theorems about module DPSet, for every number of switches, connections, *)
(* ports and changes: type correctness, which connection an id is          *)
(* registered for, that DPSet implements Registry, the order of the enter  *)
(* and leave events, what applications that follow the events hold, and    *)
(* that port state and port lists become those of the switches.            *)
(***************************************************************************)
EXTENDS DPSet, SequenceLemmas, FiniteSetTheorems

MainOf(c) == [ev |-> "MAIN", conn |-> c]
DeadOf(c) == [ev |-> "DEAD", conn |-> c]

\* Each connection announces MAIN at most once, once it has ports, and DEAD
\* once it is closed; DEAD comes behind MAIN.
Announced ==
    \A c \in Conn :
        /\ In(MainOf(c), events) => phase[c] \in {"MAIN", "DEAD"}
        /\ Once(MainOf(c), events)
        /\ In(DeadOf(c), events) => phase[c] \in {"DEAD", "failed"}
        /\ phase[c] = "DEAD" => Behind(MainOf(c), DeadOf(c), events)

\* DPSet has handled the MAIN of c.
Known(c) == phase[c] \in {"MAIN", "DEAD"} /\ ~In(MainOf(c), events)

\* Who holds an id: a known connection of that id, every known one that is
\* not closed, and one that is closed only while its DEAD is on the way.
Held ==
    /\ \A d \in DpId, c \in Conn : dps[d] = c => Known(c) /\ dpid[c] = d
    /\ \A c \in Conn : Known(c) /\ phase[c] = "MAIN" => dps[dpid[c]] = c
    /\ \A c \in Conn :
           dps[dpid[c]] = c /\ phase[c] = "DEAD" => In(DeadOf(c), events)

\* An id has port state while it is registered, and _register runs for the
\* connection that holds the id.
Copying ==
    /\ \A d \in DpId : portState[d] = None <=> dps[d] = None
    /\ registering # None => dps[dpid[registering.conn]] = registering.conn

\* The inductive invariant.
SInv == TypeOK /\ Announced /\ Held /\ Copying

-----------------------------------------------------------------------------
(* Types *)

\* What a port change, a connection and a _register put into the queues.
LEMMA EventForms ==
  /\ \A c \in Conn : MainOf(c) \in Change /\ DeadOf(c) \in Change
  /\ \A m \in Status : m.ev = "STATUS" /\ m.conn \in Conn /\ m.port \in Port
                       /\ m.reason \in {"ADD", "DELETE", "MODIFY"}
  /\ \A m \in Change : m.ev \in {"MAIN", "DEAD"} /\ m.conn \in Conn
                       /\ (m.ev = "MAIN" => m = MainOf(m.conn))
                       /\ (m.ev = "DEAD" => m = DeadOf(m.conn))
  BY DEF Status, Change, MainOf, DeadOf

\* A set of ports can be counted.
LEMMA PortsFinite ==
  ASSUME NEW P \in SUBSET Port
  PROVE  Cardinality(P) \in 0 .. Cardinality(Port)
  <1>1. IsFiniteSet(Port)
    BY DPSetAssumption
  <1>2. /\ IsFiniteSet(P) /\ Cardinality(P) <= Cardinality(Port)
    BY <1>1, FS_Subset
  <1>3. Cardinality(P) \in Nat /\ Cardinality(Port) \in Nat
    BY <1>1, <1>2, FS_CardinalityType
  <1> QED
    BY <1>2, <1>3

\* The news of a typed connection.
LEMMA NewsTyped ==
  ASSUME TypeOK, NEW c \in Conn, NEW ps \in SUBSET Port,
         NEW what \in {"enter", "leave", "reconnected", "ADD", "DELETE", "MODIFY"},
         News(c, what, ps)
  PROVE  news' \in Seq([id : DpId, ports : SUBSET Port,
                        what : {"enter", "leave", "reconnected", "ADD",
                                "DELETE", "MODIFY"}])
  <1>1. dpid[c] \in DpId
    BY DPSetAssumption
  <1>2. [id |-> dpid[c], what |-> what, ports |-> ps]
          \in [id : DpId, ports : SUBSET Port,
               what : {"enter", "leave", "reconnected", "ADD", "DELETE", "MODIFY"}]
    BY <1>1
  <1> QED
    BY <1>2, AppendEntries DEF News, TypeOK

\* The head of events, when DPSet takes an event of a kind.
LEMMA Taken ==
  ASSUME TypeOK, NEW kind \in {"MAIN", "DEAD", "STATUS"}, Take(kind)
  PROVE  /\ registering = None /\ events # <<>>
         /\ Tail(events) \in Seq(Status \cup Change)
         /\ Head(events).conn \in Conn
         /\ kind = "MAIN" => Head(events) = MainOf(Head(events).conn)
         /\ kind = "DEAD" => Head(events) = DeadOf(Head(events).conn)
         /\ kind = "STATUS" => Head(events) \in Status
  <1>1. /\ registering = None /\ events # <<>> /\ Head(events).ev = kind
        /\ events \in Seq(Status \cup Change)
    BY DEF Take, TypeOK
  <1>2. Head(events) \in Status \cup Change /\ Tail(events) \in Seq(Status \cup Change)
    BY <1>1, HeadAndTail
  <1> QED
    BY <1>1, <1>2, EventForms

\* The switches keep the types.
LEMMA TypesOfSwitches ==
  ASSUME TypeOK,
         \/ \E c \in Conn : Connect(c)
         \/ \E d \in DpId, p \in Port, r \in {"ADD", "DELETE", "MODIFY"} :
              PortChange(d, r, p)
  PROVE  TypeOK'
  <1> USE DEF TypeOK, dpVars, setVars
  <1>1. ASSUME NEW c \in Conn, Connect(c) PROVE TypeOK'
    <2>1. sw[dpid[c]] \in SUBSET Port
      BY DPSetAssumption
    <2>2. <<[ev |-> "PORTS", body |-> sw[dpid[c]]]>>
            \in Seq(Status \cup [ev : {"PORTS"}, body : SUBSET Port])
      BY <2>1
    <2> QED
      BY <1>1, <2>2 DEF Connect
  <1>2. ASSUME NEW d \in DpId, NEW p \in Port, NEW r \in {"ADD", "DELETE", "MODIFY"},
               PortChange(d, r, p)
        PROVE  TypeOK'
    <2>1. sw' \in [DpId -> SUBSET Port]
      BY <1>2 DEF PortChange
    <2>2. net' \in [Conn -> Seq(Status \cup [ev : {"PORTS"}, body : SUBSET Port])]
      <3>1. CASE Alive(newest[d])
        <4>1. newest[d] \in Conn
          BY <3>1 DEF Alive
        <4>2. [ev |-> "STATUS", conn |-> newest[d], reason |-> r, port |-> p] \in Status
          BY <4>1 DEF Status
        <4>3. Append(net[newest[d]], [ev |-> "STATUS", conn |-> newest[d],
                                      reason |-> r, port |-> p])
                \in Seq(Status \cup [ev : {"PORTS"}, body : SUBSET Port])
          BY <4>1, <4>2, AppendEntries
        <4> QED
          BY <1>2, <3>1, <4>1, <4>3 DEF PortChange
      <3>2. CASE ~Alive(newest[d])
        BY <1>2, <3>2 DEF PortChange
      <3> QED
        BY <3>1, <3>2
    <2>3. changes' \in Nat
      BY <1>2 DEF PortChange
    <2> QED
      BY <1>2, <2>1, <2>2, <2>3 DEF PortChange
  <1> HIDE DEF TypeOK, dpVars, setVars
  <1> QED
    BY <1>1, <1>2

\* The receive threads and OFPHandler keep the types.
LEMMA TypesOfThreads ==
  ASSUME TypeOK,
         \/ TrackPort
         \/ \E c \in Conn : \/ ReceivePorts(c) \/ ReceiveStatus(c)
                            \/ PublishStatus(c) \/ Lost(c)
  PROVE  TypeOK'
  <1> DEFINE Msg == Status \cup [ev : {"PORTS"}, body : SUBSET Port]
  <1>1. ASSUME NEW c \in Conn, net[c] # <<>>
        PROVE  /\ Head(net[c]) \in Msg /\ Tail(net[c]) \in Seq(Msg)
               /\ [net EXCEPT ![c] = Tail(@)] \in [Conn -> Seq(Msg)]
    <2>1. net[c] \in Seq(Msg)
      BY DEF TypeOK
    <2>2. Head(net[c]) \in Msg /\ Tail(net[c]) \in Seq(Msg)
      BY <1>1, <2>1, HeadAndTail
    <2> QED
      BY <2>2 DEF TypeOK
  <1>2. ASSUME NEW e \in Status \cup Change
        PROVE  Append(events, e) \in Seq(Status \cup Change)
    BY AppendEntries DEF TypeOK
  <1>3. ASSUME NEW c \in Conn, ReceivePorts(c) PROVE TypeOK'
    <2>1. net' \in [Conn -> Seq(Msg)] /\ Head(net[c]).body \in SUBSET Port
      BY <1>1, <1>3, EventForms DEF ReceivePorts
    <2>2. events' \in Seq(Status \cup Change)
      BY <1>2, <1>3, EventForms DEF ReceivePorts, MainOf
    <2> QED
      BY <1>3, <2>1, <2>2 DEF ReceivePorts, TypeOK, setVars
  <1>4. ASSUME NEW c \in Conn, ReceiveStatus(c) PROVE TypeOK'
    <2>1. net' \in [Conn -> Seq(Msg)] /\ Head(net[c]) \in Status
      BY <1>1, <1>4 DEF ReceiveStatus
    <2> QED
      BY <1>4, <2>1 DEF ReceiveStatus, TypeOK, setVars
  <1>5. ASSUME NEW c \in Conn, PublishStatus(c) PROVE TypeOK'
    <2>1. hand[c] \in Status
      BY <1>5 DEF PublishStatus, TypeOK
    <2>2. events' \in Seq(Status \cup Change) /\ inbox' \in Seq(Status)
      BY <1>2, <1>5, <2>1, AppendEntries DEF PublishStatus, TypeOK
    <2> QED
      BY <1>5, <2>2 DEF PublishStatus, TypeOK, swVars, setVars
  <1>6. ASSUME NEW c \in Conn, Lost(c) PROVE TypeOK'
    <2>1. events' \in Seq(Status \cup Change)
      BY <1>2, <1>6, EventForms DEF Lost, DeadOf
    <2>2. net' \in [Conn -> Seq(Msg)] /\ phase' \in [Conn -> {"new", "MAIN", "DEAD", "failed"}]
      BY <1>6 DEF Lost, TypeOK
    <2> QED
      BY <1>6, <2>1, <2>2 DEF Lost, TypeOK, setVars
  <1>7. CASE TrackPort
    <2>1. inbox # <<>> /\ inbox' = Tail(inbox) /\ inbox \in Seq(Status)
      BY <1>7 DEF TrackPort, TypeOK
    <2>2. Head(inbox) \in Status /\ inbox' \in Seq(Status)
      BY <2>1, HeadAndTail
    <2>3. Head(inbox).port \in Port
      BY <2>2, EventForms
    <2>4. ports' \in [Conn -> SUBSET Port]
      BY <1>7, <2>3 DEF TrackPort, TypeOK
    <2> QED
      BY <1>7, <2>2, <2>4 DEF TrackPort, TypeOK, swVars, setVars
  <1> QED
    BY <1>3, <1>4, <1>5, <1>6, <1>7

\* DPSet keeps the types: what it publishes as the ports of an id that is
\* registered is a set of ports.
LEMMA TypesOfDPSet ==
  ASSUME SInv, Dispatch PROVE TypeOK'
  <1> USE DEF SInv
  <1>1. ASSUME NEW d \in DpId, dps[d] # None
        PROVE  portState[d] \in SUBSET Port
    BY <1>1 DEF Copying, TypeOK
  <1>2. ASSUME registering # None
        PROVE  /\ registering \in Call /\ registering.conn \in Conn
               /\ portState[dpid[registering.conn]] \in SUBSET Port
    <2>1. registering \in Call /\ registering.conn \in Conn
      BY <1>2 DEF TypeOK, Call
    <2>2. /\ dpid[registering.conn] \in DpId
          /\ dps[dpid[registering.conn]] # None
      BY <1>2, <2>1, DPSetAssumption DEF Copying
    <2> QED
      BY <1>1, <2>1, <2>2
  <1>3. CASE RegisterNew
    <2> DEFINE c == Head(events).conn
    <2>1. c \in Conn /\ Tail(events) \in Seq(Status \cup Change)
      BY <1>3, Taken DEF RegisterNew
    <2>2. [conn |-> c, copied |-> {}, size |-> Cardinality(ports[c])] \in Call
      BY <2>1, PortsFinite DEF TypeOK, Call
    <2> QED
      BY <1>3, <2>1, <2>2 DEF RegisterNew, TypeOK, swVars, dpVars
  <1>4. CASE CopyPort
    <2>1. PICK p \in ports[registering.conn] :
             /\ portState' = [portState EXCEPT ![dpid[registering.conn]] = @ \cup {p}]
             /\ registering' = [registering EXCEPT !.copied = @ \cup {p}]
      BY <1>4 DEF CopyPort
    <2>2. registering # None
      BY <1>4 DEF CopyPort
    <2>3. p \in Port
      BY <1>2, <2>1, <2>2 DEF TypeOK
    <2>4. portState' \in [DpId -> (SUBSET Port) \cup {None}]
      BY <1>2, <2>1, <2>2, <2>3 DEF TypeOK
    <2>5. registering' \in Call
      BY <1>2, <2>1, <2>2, <2>3 DEF Call
    <2> QED
      BY <1>4, <2>4, <2>5 DEF CopyPort, TypeOK, swVars, dpVars
  <1>5. CASE RegisterDone
    <2>1. registering.conn \in Conn /\ registering.copied \in SUBSET Port
      BY <1>2, <1>5 DEF RegisterDone, Call
    <2>2. news' \in Seq([id : DpId, ports : SUBSET Port,
                         what : {"enter", "leave", "reconnected", "ADD",
                                 "DELETE", "MODIFY"}])
      BY <1>5, <2>1, NewsTyped DEF RegisterDone
    <2> QED
      BY <1>5, <2>2 DEF RegisterDone, TypeOK, swVars, dpVars
  <1>6. CASE RegisterFails
    <2>1. dpid[registering.conn] \in DpId
      BY <1>2, <1>6, DPSetAssumption DEF RegisterFails
    <2> QED
      BY <1>6, <2>1 DEF RegisterFails, TypeOK, swVars, dpVars
  <1>7. CASE RegisterAgain
    <2> DEFINE c == Head(events).conn
               old == dps[dpid[c]]
    <2>1. c \in Conn /\ Tail(events) \in Seq(Status \cup Change)
      BY <1>7, Taken DEF RegisterAgain
    <2>2. dpid[c] \in DpId /\ old # None /\ old \in Conn
      BY <1>7, <2>1, DPSetAssumption DEF RegisterAgain, TypeOK
    <2>3. /\ events' \in Seq(Status \cup Change)
          /\ phase' \in [Conn -> {"new", "MAIN", "DEAD", "failed"}]
      <3>1. Append(Tail(events), [ev |-> "DEAD", conn |-> old])
              \in Seq(Status \cup Change)
        BY <2>1, <2>2, EventForms, AppendEntries DEF DeadOf
      <3> QED
        BY <1>7, <2>1, <3>1 DEF RegisterAgain, TypeOK
    <2>4. news' \in Seq([id : DpId, ports : SUBSET Port,
                         what : {"enter", "leave", "reconnected", "ADD",
                                 "DELETE", "MODIFY"}])
      BY <1>1, <1>7, <2>1, <2>2, NewsTyped DEF RegisterAgain
    <2> QED
      BY <1>7, <2>1, <2>2, <2>3, <2>4 DEF RegisterAgain, TypeOK, swVars
  <1>8. CASE Unregister
    <2> DEFINE c == Head(events).conn
    <2>1. c \in Conn /\ Tail(events) \in Seq(Status \cup Change)
      BY <1>8, Taken DEF Unregister
    <2>2. ASSUME NEW e \in DpId, dps[e] = c PROVE portState[dpid[c]] \in SUBSET Port
      <3>1. dps[e] # None
        BY <2>1, <2>2, DPSetAssumption
      <3> QED
        BY <1>1, <2>1, <2>2, <3>1 DEF Held
    <2>3. news' \in Seq([id : DpId, ports : SUBSET Port,
                         what : {"enter", "leave", "reconnected", "ADD",
                                 "DELETE", "MODIFY"}])
      <3>1. CASE \A e \in DpId : dps[e] # c
        BY <1>8, <3>1 DEF Unregister, TypeOK
      <3>2. CASE ~\A e \in DpId : dps[e] # c
        BY <1>8, <2>1, <2>2, <3>2, NewsTyped DEF Unregister
      <3> QED
        BY <3>1, <3>2
    <2>4. /\ dps' \in [DpId -> Conn \cup {None}]
          /\ portState' \in [DpId -> (SUBSET Port) \cup {None}]
      BY <1>8 DEF Unregister, TypeOK
    <2> QED
      BY <1>8, <2>1, <2>3, <2>4 DEF Unregister, TypeOK, swVars, dpVars
  <1>9. CASE TrackStatus
    <2> DEFINE m == Head(events)
               d == dpid[m.conn]
    <2>1. m \in Status /\ Tail(events) \in Seq(Status \cup Change)
      BY <1>9, Taken DEF TrackStatus
    <2>2. /\ m.conn \in Conn /\ m.port \in Port /\ d \in DpId
          /\ m.reason \in {"ADD", "DELETE", "MODIFY"}
      BY <2>1, EventForms, DPSetAssumption
    <2>3. CASE portState[d] = None \/ (m.reason = "DELETE" /\ m.port \notin portState[d])
      <3>1. UNCHANGED <<portState, news>> /\ events' = Tail(events)
        BY <1>9, <2>3 DEF TrackStatus
      <3> QED
        BY <1>9, <2>1, <3>1 DEF TrackStatus, TypeOK, swVars, dpVars
    <2>4. CASE ~(portState[d] = None \/ (m.reason = "DELETE" /\ m.port \notin portState[d]))
      <3>1. /\ portState' = [portState EXCEPT ![d] =
                               IF m.reason = "DELETE" THEN @ \ {m.port}
                                                      ELSE @ \cup {m.port}]
            /\ News(m.conn, m.reason, {m.port}) /\ events' = Tail(events)
        BY <1>9, <2>4 DEF TrackStatus
      <3>2. portState' \in [DpId -> (SUBSET Port) \cup {None}]
        BY <2>2, <2>4, <3>1 DEF TypeOK
      <3>3. news' \in Seq([id : DpId, ports : SUBSET Port,
                           what : {"enter", "leave", "reconnected", "ADD",
                                   "DELETE", "MODIFY"}])
        BY <2>2, <3>1, NewsTyped
      <3> QED
        BY <1>9, <2>1, <3>1, <3>2, <3>3 DEF TrackStatus, TypeOK, swVars, dpVars
    <2> QED
      BY <2>3, <2>4
  <1> QED
    BY <1>3, <1>4, <1>5, <1>6, <1>7, <1>8, <1>9 DEF Dispatch

-----------------------------------------------------------------------------
(* The queue of DPSet and the registry                                      *)

\* Announcements of different connections, or of different changes, differ,
\* and from a port status.
LEMMA EventsDiffer ==
  /\ \A b, c : MainOf(b) # DeadOf(c)
  /\ \A b, c : MainOf(b) = MainOf(c) => b = c
  /\ \A b, c : DeadOf(b) = DeadOf(c) => b = c
  /\ \A c : \A m \in Status : m # MainOf(c) /\ m # DeadOf(c)
  <1>1. \A c : MainOf(c).ev = "MAIN" /\ MainOf(c).conn = c
    BY DEF MainOf
  <1>2. \A c : DeadOf(c).ev = "DEAD" /\ DeadOf(c).conn = c
    BY DEF DeadOf
  <1>3. \A m \in Status : m.ev = "STATUS"
    BY DEF Status
  <1> QED
    BY <1>1, <1>2, <1>3

\* What a put does to the announcements.
LEMMA AfterPut ==
  ASSUME events \in Seq(Status \cup Change), NEW e, events' = Append(events, e)
  PROVE  /\ \A m : In(m, events') <=> In(m, events) \/ m = e
         /\ \A m : Once(m, events) /\ (e # m \/ ~In(m, events)) => Once(m, events')
         /\ \A m, n : e # m /\ (Behind(m, n, events) \/ e = n)
                     => Behind(m, n, events')
  BY InAppend, OnceAppend, BehindAppend

\* What a take does to them.
LEMMA AfterTake ==
  ASSUME events \in Seq(Status \cup Change), events # <<>>, events' = Tail(events)
  PROVE  /\ \A m : In(m, events) <=> m = Head(events) \/ In(m, events')
         /\ \A m : Once(m, events) =>
                Once(m, events') /\ (Head(events) = m => ~In(m, events'))
         /\ \A m, n : Behind(m, n, events) =>
                Behind(m, n, events') /\ (Head(events) = m => In(n, events'))
  BY InTail, OnceTail, BehindTail

\* What a take and a put of another entry than m do to them.
LEMMA AfterTakeAndPut ==
  ASSUME events \in Seq(Status \cup Change), events # <<>>, NEW e,
         events' = Append(Tail(events), e)
  PROVE  /\ \A m : e # m => (In(m, events) <=> m = Head(events) \/ In(m, events'))
         /\ In(e, events')
         /\ \A m : e # m /\ Once(m, events) =>
                Once(m, events') /\ (Head(events) = m => ~In(m, events'))
         /\ \A m, n : e # m /\ Behind(m, n, events) =>
                Behind(m, n, events') /\ (Head(events) = m => In(n, events'))
         /\ \A m : e # m => Behind(m, e, events')
  <1>1. Tail(events) \in Seq(Status \cup Change)
    BY HeadAndTail
  <1>2. \A m : In(m, events') <=> In(m, Tail(events)) \/ m = e
    BY <1>1, InAppend
  <1>3. \A m : In(m, events) <=> m = Head(events) \/ In(m, Tail(events))
    BY InTail
  <1>4. ASSUME NEW m, e # m, Once(m, events)
        PROVE  Once(m, events') /\ (Head(events) = m => ~In(m, events'))
    BY <1>1, <1>2, <1>4, OnceTail, OnceAppend
  <1>5. ASSUME NEW m, NEW n, e # m, Behind(m, n, events)
        PROVE  Behind(m, n, events') /\ (Head(events) = m => In(n, events'))
    BY <1>1, <1>2, <1>5, BehindTail, BehindAppend
  <1>6. ASSUME NEW m, e # m PROVE Behind(m, e, events')
    BY <1>1, <1>6, BehindAppend
  <1> QED
    BY <1>2, <1>3, <1>4, <1>5, <1>6

\* Every step keeps the order of the announcements.
LEMMA AnnouncedStep ==
  ASSUME SInv, Next PROVE Announced'
  <1>1. /\ phase \in [Conn -> {"new", "MAIN", "DEAD", "failed"}]
        /\ events \in Seq(Status \cup Change) /\ TypeOK /\ Announced
    BY DEF SInv, TypeOK
  <1>2. CASE UNCHANGED <<phase, events>>
    BY <1>1, <1>2 DEF Announced
  <1>3. ASSUME NEW c \in Conn, ReceivePorts(c) PROVE Announced'
    <2>1. /\ phase[c] = "new" /\ phase' = [phase EXCEPT ![c] = "MAIN"]
          /\ events' = Append(events, MainOf(c))
      BY <1>3 DEF ReceivePorts, MainOf
    <2>2. ~In(MainOf(c), events) /\ ~In(DeadOf(c), events)
      BY <1>1, <2>1 DEF Announced
    <2> QED
      BY <1>1, <2>1, <2>2, AfterPut, EventsDiffer DEF Announced
  <1>4. ASSUME NEW c \in Conn, PublishStatus(c) PROVE Announced'
    <2>1. /\ hand[c] \in Status /\ events' = Append(events, hand[c])
          /\ phase' = phase
      BY <1>1, <1>4 DEF PublishStatus, TypeOK
    <2> QED
      BY <1>1, <2>1, AfterPut, EventsDiffer DEF Announced
  <1>5. ASSUME NEW c \in Conn, Lost(c) PROVE Announced'
    <2>1. /\ phase[c] \in {"MAIN", "new"} /\ events' = Append(events, DeadOf(c))
          /\ phase' = [phase EXCEPT ![c] = IF @ = "MAIN" THEN "DEAD" ELSE "failed"]
      BY <1>5 DEF Lost, DeadOf
    <2>2. phase[c] = "new" => ~In(MainOf(c), events)
      BY <1>1 DEF Announced
    <2> QED
      BY <1>1, <2>1, <2>2, AfterPut, EventsDiffer DEF Announced
  <1>6. CASE events # <<>> /\ events' = Tail(events) /\ UNCHANGED phase
    BY <1>1, <1>6, AfterTake DEF Announced
  <1>7. CASE RegisterAgain
    <2> DEFINE old == dps[dpid[Head(events).conn]]
    <2>1. events # <<>> /\ Head(events).conn \in Conn
      BY <1>1, <1>7, Taken DEF RegisterAgain
    <2>2. old # None /\ old \in Conn /\ phase[old] \in {"MAIN", "DEAD"}
      <3>1. dpid[Head(events).conn] \in DpId /\ old # None
        BY <1>7, <2>1, DPSetAssumption DEF RegisterAgain
      <3> QED
        BY <1>1, <3>1 DEF TypeOK, SInv, Held, Known
    <2>3. CASE phase[old] = "DEAD"
      BY <1>6, <1>7, <2>1, <2>3 DEF RegisterAgain
    <2>4. CASE phase[old] # "DEAD"
      <3>1. /\ events' = Append(Tail(events), DeadOf(old))
            /\ phase' = [phase EXCEPT ![old] = "DEAD"]
        BY <1>7, <2>4 DEF RegisterAgain, DeadOf
      <3>2. \A c \in Conn : phase'[c] = "DEAD" <=> phase[c] = "DEAD" \/ c = old
        BY <1>1, <2>2, <3>1
      <3>3. \A c \in Conn :
              /\ In(MainOf(c), events') => In(MainOf(c), events)
              /\ In(DeadOf(c), events') => In(DeadOf(c), events) \/ c = old
              /\ Once(MainOf(c), events')
        BY <1>1, <2>1, <3>1, AfterTakeAndPut, EventsDiffer DEF Announced
      <3>4. ASSUME NEW c \in Conn, phase'[c] = "DEAD"
            PROVE  Behind(MainOf(c), DeadOf(c), events')
        BY <1>1, <2>1, <3>1, <3>2, <3>4, AfterTakeAndPut, EventsDiffer DEF Announced
      <3> QED
        BY <1>1, <2>2, <3>1, <3>2, <3>3, <3>4 DEF Announced
    <2> QED
      BY <2>3, <2>4
  <1>8. CASE Dispatch
    BY <1>2, <1>6, <1>7, <1>8 DEF Dispatch, RegisterNew, CopyPort, RegisterDone,
       RegisterFails, Unregister, TrackStatus, Take, dpVars
  <1>9. CASE \/ TrackPort \/ \E c \in Conn : Connect(c) \/ ReceiveStatus(c)
             \/ \E d \in DpId, p \in Port, r \in {"ADD", "DELETE", "MODIFY"} :
                  PortChange(d, r, p)
    BY <1>2, <1>9 DEF TrackPort, Connect, ReceiveStatus, PortChange, dpVars
  <1> QED
    BY <1>3, <1>4, <1>5, <1>8, <1>9 DEF Next

\* The steps that handle no MAIN.
NoMain ==
    \/ CopyPort \/ RegisterDone \/ RegisterFails \/ Unregister \/ TrackStatus
    \/ TrackPort
    \/ \E c \in Conn : \/ Connect(c) \/ ReceivePorts(c) \/ ReceiveStatus(c)
                       \/ PublishStatus(c) \/ Lost(c)
    \/ \E d \in DpId, p \in Port, r \in {"ADD", "DELETE", "MODIFY"} :
         PortChange(d, r, p)

\* A step registers a connection, new or in the place of an earlier one, or takes no MAIN.
LEMMA StepForms == Next <=> NoMain \/ RegisterNew \/ RegisterAgain
  BY DEF Next, NoMain, Dispatch

\* What each step does to the connections DPSet knows: nothing, unless it
\* handles a MAIN ...
LEMMA KnownStays ==
  ASSUME SInv, NoMain
  PROVE  \A b \in Conn : Known(b)' <=> Known(b)
  <1>1. /\ phase \in [Conn -> {"new", "MAIN", "DEAD", "failed"}]
        /\ events \in Seq(Status \cup Change) /\ TypeOK /\ Announced
    BY DEF SInv, TypeOK
  <1>2. CASE UNCHANGED <<phase, events>>
    BY <1>2 DEF Known
  <1>3. ASSUME NEW c \in Conn, ReceivePorts(c)
        PROVE  \A b \in Conn : Known(b)' <=> Known(b)
    <2>1. /\ phase[c] = "new" /\ phase' = [phase EXCEPT ![c] = "MAIN"]
          /\ events' = Append(events, MainOf(c))
      BY <1>3 DEF ReceivePorts, MainOf
    <2> QED
      BY <1>1, <2>1, AfterPut, EventsDiffer DEF Known
  <1>4. ASSUME NEW c \in Conn, PublishStatus(c)
        PROVE  \A b \in Conn : Known(b)' <=> Known(b)
    <2>1. /\ hand[c] \in Status /\ events' = Append(events, hand[c])
          /\ phase' = phase
      BY <1>1, <1>4 DEF PublishStatus, TypeOK
    <2> QED
      BY <1>1, <2>1, AfterPut, EventsDiffer DEF Known
  <1>5. ASSUME NEW c \in Conn, Lost(c)
        PROVE  \A b \in Conn : Known(b)' <=> Known(b)
    <2>1. /\ phase[c] \in {"MAIN", "new"} /\ events' = Append(events, DeadOf(c))
          /\ phase' = [phase EXCEPT ![c] = IF @ = "MAIN" THEN "DEAD" ELSE "failed"]
      BY <1>5 DEF Lost, DeadOf
    <2> QED
      BY <1>1, <2>1, AfterPut, EventsDiffer DEF Known
  <1>6. CASE Unregister \/ TrackStatus
    <2>1. /\ events # <<>> /\ events' = Tail(events) /\ phase' = phase
          /\ \A b \in Conn : Head(events) # MainOf(b)
      BY <1>1, <1>6, Taken, EventsDiffer DEF Unregister, TrackStatus, dpVars
    <2> QED
      BY <1>1, <2>1, AfterTake DEF Known
  <1>7. CASE CopyPort \/ RegisterDone \/ RegisterFails \/ TrackPort
    BY <1>2, <1>7 DEF CopyPort, RegisterDone, RegisterFails, TrackPort, dpVars
  <1>8. CASE \/ \E c \in Conn : Connect(c) \/ ReceiveStatus(c)
             \/ \E d \in DpId, p \in Port, r \in {"ADD", "DELETE", "MODIFY"} :
                  PortChange(d, r, p)
    BY <1>2, <1>8 DEF Connect, ReceiveStatus, PortChange, dpVars
  <1> QED
    BY <1>3, <1>4, <1>5, <1>6, <1>7, <1>8 DEF NoMain

\* ... of an id nobody holds ...
LEMMA KnownByNew ==
  ASSUME SInv, RegisterNew
  PROVE  \E c \in Conn :
           /\ ~Known(c) /\ Known(c)'
           /\ \A b \in Conn \ {c} : Known(b)' <=> Known(b)
           /\ phase' = phase
           /\ dps[dpid[c]] = None /\ dps' = [dps EXCEPT ![dpid[c]] = c]
           /\ \A b \in Conn : In(DeadOf(b), events') <=> In(DeadOf(b), events)
           /\ phase[c] = "DEAD" => In(DeadOf(c), events)
  <1>1. /\ phase \in [Conn -> {"new", "MAIN", "DEAD", "failed"}]
        /\ events \in Seq(Status \cup Change) /\ TypeOK /\ Announced
    BY DEF SInv, TypeOK
  <1>2. PICK c \in Conn :
          /\ events # <<>> /\ Head(events) = MainOf(c)
          /\ events' = Tail(events) /\ phase' = phase
          /\ dps[dpid[c]] = None /\ dps' = [dps EXCEPT ![dpid[c]] = c]
    BY <1>1, Taken DEF RegisterNew, dpVars
  <1>3. In(MainOf(c), events)
    BY <1>1, <1>2, AfterTake
  <1>4. /\ ~Known(c) /\ Known(c)'
        /\ \A b \in Conn \ {c} : Known(b)' <=> Known(b)
        /\ \A b \in Conn : In(DeadOf(b), events') <=> In(DeadOf(b), events)
        /\ phase[c] = "DEAD" => In(DeadOf(c), events)
    BY <1>1, <1>2, <1>3, AfterTake, EventsDiffer DEF Known, Announced
  <1> QED
    BY <1>2, <1>4

\* ... or of one that an earlier connection holds, which is closed.
LEMMA KnownByAgain ==
  ASSUME SInv, RegisterAgain
  PROVE  \E c, old \in Conn :
           /\ ~Known(c) /\ Known(c)'
           /\ \A b \in Conn \ {c} : Known(b)' <=> Known(b)
           /\ old = dps[dpid[c]] /\ dps' = [dps EXCEPT ![dpid[c]] = c]
           /\ Known(old) /\ old # c /\ phase' = [phase EXCEPT ![old] = "DEAD"]
           /\ \A b \in Conn : In(DeadOf(b), events) => In(DeadOf(b), events')
           /\ phase[c] = "DEAD" => In(DeadOf(c), events')
  <1>1. /\ phase \in [Conn -> {"new", "MAIN", "DEAD", "failed"}]
        /\ events \in Seq(Status \cup Change) /\ TypeOK /\ Announced /\ Held
        /\ dps \in [DpId -> Conn \cup {None}]
        /\ dpid \in [Conn -> DpId] /\ None \notin Conn
    BY DPSetAssumption DEF SInv, TypeOK
  <1>2. PICK c \in Conn, old \in Conn :
          /\ events # <<>> /\ Head(events) = MainOf(c)
          /\ old = dps[dpid[c]] /\ dps' = [dps EXCEPT ![dpid[c]] = c]
          /\ \/ phase[old] = "DEAD" /\ events' = Tail(events) /\ phase' = phase
             \/ /\ phase[old] # "DEAD"
                /\ events' = Append(Tail(events), DeadOf(old))
                /\ phase' = [phase EXCEPT ![old] = "DEAD"]
    <2>1. /\ Head(events).conn \in Conn /\ events # <<>>
          /\ Head(events) = MainOf(Head(events).conn)
      BY <1>1, Taken DEF RegisterAgain
    <2>2. dps[dpid[Head(events).conn]] \in Conn
      BY <1>1, <2>1 DEF RegisterAgain
    <2> QED
      BY <2>1, <2>2 DEF RegisterAgain, DeadOf
  <1>3. In(MainOf(c), events)
    BY <1>1, <1>2, InTail
  <1>4. Known(old) /\ ~Known(c) /\ old # c
    BY <1>1, <1>2, <1>3 DEF Held, Known
  <1>5. phase' = [phase EXCEPT ![old] = "DEAD"]
    BY <1>1, <1>2
  <1>6. /\ \A b \in Conn : In(MainOf(b), events') <=> In(MainOf(b), events) /\ b # c
        /\ \A b \in Conn : In(DeadOf(b), events) => In(DeadOf(b), events')
        /\ phase[c] = "DEAD" => In(DeadOf(c), events')
    <2>1. CASE events' = Tail(events)
      BY <1>1, <1>2, <1>3, <2>1, AfterTake, EventsDiffer DEF Announced
    <2>2. CASE events' = Append(Tail(events), DeadOf(old))
      <3>1. DeadOf(old) # MainOf(c) /\ \A b \in Conn : DeadOf(old) # MainOf(b)
        BY EventsDiffer
      <3>2. \A b \in Conn : In(MainOf(b), events') <=> In(MainOf(b), events) /\ b # c
        BY <1>1, <1>2, <1>3, <2>2, <3>1, AfterTakeAndPut, EventsDiffer DEF Announced
      <3>3. \A b \in Conn : In(DeadOf(b), events) => In(DeadOf(b), events')
        BY <1>1, <1>2, <2>2, AfterTakeAndPut, EventsDiffer
      <3>4. phase[c] = "DEAD" => In(DeadOf(c), events')
        BY <1>1, <1>2, <2>2, <3>1, AfterTakeAndPut DEF Announced
      <3> QED
        BY <3>2, <3>3, <3>4
    <2> QED
      BY <1>2, <2>1, <2>2
  <1>7. Known(c)' /\ \A b \in Conn \ {c} : Known(b)' <=> Known(b)
    BY <1>1, <1>3, <1>4, <1>5, <1>6 DEF Known, Announced
  <1> QED
    BY <1>2, <1>4, <1>5, <1>6, <1>7

\* An id is given up by the connection that holds it, when it is closed.
LEMMA GivenUp ==
  ASSUME SInv, Unregister
  PROVE  \E c \in Conn :
           /\ phase[c] \in {"DEAD", "failed"} /\ phase' = phase
           /\ \/ (\A d \in DpId : dps[d] # c) /\ dps' = dps
              \/ dps[dpid[c]] = c /\ dps' = [dps EXCEPT ![dpid[c]] = None]
           /\ \A b \in Conn \ {c} : In(DeadOf(b), events) => In(DeadOf(b), events')
  <1>1. events \in Seq(Status \cup Change) /\ TypeOK /\ Announced /\ Held
    BY DEF SInv, TypeOK
  <1>2. PICK c \in Conn :
          /\ events # <<>> /\ Head(events) = DeadOf(c)
          /\ events' = Tail(events) /\ phase' = phase
          /\ IF \A e \in DpId : dps[e] # c
               THEN dps' = dps ELSE dps' = [dps EXCEPT ![dpid[c]] = None]
    BY <1>1, Taken DEF Unregister, dpVars
  <1>3. /\ phase[c] \in {"DEAD", "failed"}
        /\ \A b \in Conn \ {c} : In(DeadOf(b), events) => In(DeadOf(b), events')
    BY <1>1, <1>2, AfterTake, EventsDiffer DEF Announced
  <1> QED
    BY <1>1, <1>2, <1>3 DEF Held

\* Every step keeps the registry in agreement with the connections.
LEMMA HeldStep ==
  ASSUME SInv, Next PROVE Held'
  <1>1. /\ phase \in [Conn -> {"new", "MAIN", "DEAD", "failed"}]
        /\ events \in Seq(Status \cup Change) /\ TypeOK /\ Held
        /\ dps \in [DpId -> Conn \cup {None}]
        /\ dpid \in [Conn -> DpId] /\ None \notin Conn
    BY DPSetAssumption DEF SInv, TypeOK
  <1>2. ASSUME dps' = dps, \A b \in Conn : Known(b)' <=> Known(b),
               \A b \in Conn : In(DeadOf(b), events) => In(DeadOf(b), events'),
               \A b \in Conn : phase'[b] = phase[b]
                               \/ ~Known(b) \/ (phase'[b] = "DEAD" /\ In(DeadOf(b), events'))
        PROVE  Held'
    <2>1. ASSUME NEW b \in Conn, dps[dpid[b]] = b PROVE Known(b)
      BY <1>1, <2>1 DEF Held
    <2> QED
      BY <1>1, <1>2, <2>1 DEF Held
  <1>3. ASSUME NEW c \in Conn, ReceivePorts(c) \/ PublishStatus(c) \/ Lost(c)
        PROVE  Held'
    <2>1. NoMain
      BY <1>3 DEF NoMain
    <2>2. \A b \in Conn : Known(b)' <=> Known(b)
      BY <2>1, KnownStays
    <2>3. dps' = dps /\ \E e : events' = Append(events, e)
      BY <1>3 DEF ReceivePorts, PublishStatus, Lost, setVars
    <2>4. \A b \in Conn : In(DeadOf(b), events) => In(DeadOf(b), events')
      BY <1>1, <2>3, AfterPut
    <2>5. \A b \in Conn : phase'[b] = phase[b]
             \/ ~Known(b) \/ (phase'[b] = "DEAD" /\ In(DeadOf(b), events'))
      <3>1. CASE ReceivePorts(c)
        BY <1>1, <3>1 DEF ReceivePorts, Known
      <3>2. CASE PublishStatus(c)
        BY <3>2 DEF PublishStatus
      <3>3. CASE Lost(c)
        <4>1. In(DeadOf(c), events')
          BY <1>1, <3>3, AfterPut DEF Lost, DeadOf
        <4> QED
          BY <1>1, <3>3, <4>1 DEF Lost, Known
      <3> QED
        BY <1>3, <3>1, <3>2, <3>3
    <2> QED
      BY <1>2, <2>2, <2>3, <2>4, <2>5
  <1>4. CASE TrackStatus
    <2>1. \A b \in Conn : Known(b)' <=> Known(b)
      BY <1>4, KnownStays DEF NoMain
    <2>2. /\ events # <<>> /\ Head(events) \in Status
          /\ events' = Tail(events) /\ phase' = phase /\ dps' = dps
      BY <1>1, <1>4, Taken DEF TrackStatus, dpVars
    <2>3. \A b \in Conn : In(DeadOf(b), events) => In(DeadOf(b), events')
      BY <1>1, <2>2, AfterTake, EventsDiffer
    <2> QED
      BY <1>2, <2>1, <2>2, <2>3
  <1>5. CASE UNCHANGED <<phase, dps, events>>
    BY <1>1, <1>5 DEF Held, Known
  <1>6. CASE RegisterNew
    <2>1. PICK c \in Conn :
            /\ ~Known(c) /\ Known(c)'
            /\ \A b \in Conn \ {c} : Known(b)' <=> Known(b)
            /\ phase' = phase
            /\ dps[dpid[c]] = None /\ dps' = [dps EXCEPT ![dpid[c]] = c]
            /\ \A b \in Conn : In(DeadOf(b), events') <=> In(DeadOf(b), events)
            /\ phase[c] = "DEAD" => In(DeadOf(c), events)
      BY <1>6, KnownByNew
    <2>2. \A d \in DpId : dps'[d] = IF d = dpid[c] THEN c ELSE dps[d]
      BY <1>1, <2>1
    <2>3. ASSUME NEW d \in DpId, NEW b \in Conn, dps'[d] = b
          PROVE  Known(b)' /\ dpid[b] = d
      BY <1>1, <2>1, <2>2, <2>3 DEF Held
    <2>4. ASSUME NEW b \in Conn, Known(b)', phase'[b] = "MAIN"
          PROVE  dps'[dpid[b]] = b
      BY <1>1, <2>1, <2>2, <2>4 DEF Held
    <2>5. ASSUME NEW b \in Conn, dps'[dpid[b]] = b, phase'[b] = "DEAD"
          PROVE  In(DeadOf(b), events')
      BY <1>1, <2>1, <2>2, <2>5 DEF Held
    <2> QED
      BY <2>3, <2>4, <2>5 DEF Held
  <1>7. CASE RegisterAgain
    <2>1. PICK c \in Conn, old \in Conn :
            /\ ~Known(c) /\ Known(c)'
            /\ \A b \in Conn \ {c} : Known(b)' <=> Known(b)
            /\ old = dps[dpid[c]] /\ dps' = [dps EXCEPT ![dpid[c]] = c]
            /\ Known(old) /\ old # c /\ phase' = [phase EXCEPT ![old] = "DEAD"]
            /\ \A b \in Conn : In(DeadOf(b), events) => In(DeadOf(b), events')
            /\ phase[c] = "DEAD" => In(DeadOf(c), events')
      BY <1>7, KnownByAgain
    <2>2. /\ \A d \in DpId : dps'[d] = IF d = dpid[c] THEN c ELSE dps[d]
          /\ \A b \in Conn \ {old} : phase'[b] = phase[b]
          /\ phase'[old] = "DEAD" /\ dpid[old] = dpid[c]
      BY <1>1, <2>1 DEF Held
    <2>3. ASSUME NEW d \in DpId, NEW b \in Conn, dps'[d] = b
          PROVE  Known(b)' /\ dpid[b] = d
      BY <1>1, <2>1, <2>2, <2>3 DEF Held
    <2>4. ASSUME NEW b \in Conn, Known(b)', phase'[b] = "MAIN"
          PROVE  dps'[dpid[b]] = b
      <3>1. b # old /\ phase[b] = "MAIN"
        BY <2>2, <2>4
      <3>2. b # c => dps[dpid[b]] = b /\ dpid[b] # dpid[c]
        BY <1>1, <2>1, <2>4, <3>1 DEF Held
      <3> QED
        BY <1>1, <2>2, <3>2
    <2>5. ASSUME NEW b \in Conn, dps'[dpid[b]] = b, phase'[b] = "DEAD"
          PROVE  In(DeadOf(b), events')
      <3>1. CASE b = c
        BY <2>1, <2>2, <2>5, <3>1
      <3>2. CASE b # c
        <4>1. dpid[b] # dpid[c] /\ dps[dpid[b]] = b
          BY <1>1, <2>2, <2>5, <3>2
        <4> QED
          BY <1>1, <2>1, <2>2, <2>5, <4>1 DEF Held
      <3> QED
        BY <3>1, <3>2
    <2> QED
      BY <2>3, <2>4, <2>5 DEF Held
  <1>8. CASE Unregister
    <2>1. PICK c \in Conn :
            /\ phase[c] \in {"DEAD", "failed"} /\ phase' = phase
            /\ \/ (\A d \in DpId : dps[d] # c) /\ dps' = dps
               \/ dps[dpid[c]] = c /\ dps' = [dps EXCEPT ![dpid[c]] = None]
            /\ \A b \in Conn \ {c} : In(DeadOf(b), events) => In(DeadOf(b), events')
      BY <1>8, GivenUp
    <2>2. \A b \in Conn : Known(b)' <=> Known(b)
      BY <1>8, KnownStays DEF NoMain
    <2>3. CASE (\A d \in DpId : dps[d] # c) /\ dps' = dps
      BY <1>1, <2>1, <2>2, <2>3 DEF Held
    <2>4. CASE dps[dpid[c]] = c /\ dps' = [dps EXCEPT ![dpid[c]] = None]
      <3>1. \A d \in DpId : dps'[d] = IF d = dpid[c] THEN None ELSE dps[d]
        BY <1>1, <2>4
      <3> QED
        BY <1>1, <2>1, <2>2, <2>4, <3>1 DEF Held
    <2> QED
      BY <2>1, <2>3, <2>4
  <1>9. CASE CopyPort \/ RegisterDone \/ RegisterFails \/ TrackPort
    BY <1>5, <1>9 DEF CopyPort, RegisterDone, RegisterFails, TrackPort, dpVars, setVars
  <1>10. CASE \/ \E c \in Conn : Connect(c) \/ ReceiveStatus(c)
              \/ \E d \in DpId, p \in Port, r \in {"ADD", "DELETE", "MODIFY"} :
                   PortChange(d, r, p)
    BY <1>5, <1>10 DEF Connect, ReceiveStatus, PortChange, dpVars, setVars
  <1> QED
    BY <1>3, <1>4, <1>6, <1>7, <1>8, <1>9, <1>10, StepForms DEF NoMain

\* Every step keeps the port state in agreement with the registry.
LEMMA CopyingStep ==
  ASSUME SInv, Next PROVE Copying'
  <1>1. /\ TypeOK /\ Copying /\ dpid \in [Conn -> DpId] /\ None \notin Conn
        /\ dps \in [DpId -> Conn \cup {None}]
        /\ portState \in [DpId -> (SUBSET Port) \cup {None}]
        /\ \A ps \in SUBSET Port : ps # None
    BY DPSetAssumption DEF SInv, TypeOK
  <1>2. CASE UNCHANGED <<dps, portState, registering>>
    BY <1>2, <1>1 DEF Copying
  <1>3. CASE RegisterNew
    BY <1>1, <1>3, Taken DEF RegisterNew, Copying
  <1>4. CASE CopyPort
    <2>1. registering \in Call /\ registering.conn \in Conn
      BY <1>1, <1>4 DEF CopyPort, TypeOK, Call
    <2>2. PICK p \in ports[registering.conn] :
             /\ portState' = [portState EXCEPT ![dpid[registering.conn]] = @ \cup {p}]
             /\ registering' = [registering EXCEPT !.copied = @ \cup {p}]
             /\ registering # None /\ dps' = dps
      BY <1>4 DEF CopyPort
    <2>3. dps[dpid[registering.conn]] # None /\ p \in Port
      BY <1>1, <2>1, <2>2 DEF Copying, TypeOK
    <2>4. portState[dpid[registering.conn]] \in SUBSET Port
      BY <1>1, <2>1, <2>3 DEF Copying
    <2>5. registering'.conn = registering.conn
      BY <2>1, <2>2 DEF Call
    <2>6. \A d \in DpId : portState'[d] = None <=> portState[d] = None
      BY <1>1, <2>1, <2>2, <2>3, <2>4
    <2> QED
      BY <1>1, <2>2, <2>5, <2>6 DEF Copying
  <1>5. CASE RegisterDone \/ RegisterFails
    BY <1>1, <1>5 DEF RegisterDone, RegisterFails, Copying
  <1>6. CASE RegisterAgain
    BY <1>1, <1>6, Taken DEF RegisterAgain, Copying
  <1>7. CASE Unregister
    BY <1>1, <1>7, Taken DEF Unregister, Copying
  <1>8. CASE TrackStatus
    <2>1. /\ registering = None /\ registering' = None /\ dps' = dps
          /\ Head(events) \in Status
      BY <1>1, <1>8, Taken DEF TrackStatus
    <2>2. Head(events).port \in Port
      BY <2>1, EventForms
    <2>3. \A d \in DpId : portState'[d] = None <=> portState[d] = None
      BY <1>1, <1>8, <2>1, <2>2 DEF TrackStatus
    <2> QED
      BY <1>1, <2>1, <2>3 DEF Copying
  <1>9. CASE \/ TrackPort
             \/ \E c \in Conn : \/ Connect(c) \/ ReceivePorts(c) \/ ReceiveStatus(c)
                                \/ PublishStatus(c) \/ Lost(c)
             \/ \E d \in DpId, p \in Port, r \in {"ADD", "DELETE", "MODIFY"} :
                  PortChange(d, r, p)
    BY <1>2, <1>9 DEF TrackPort, Connect, ReceivePorts, ReceiveStatus,
       PublishStatus, Lost, PortChange, setVars
  <1> QED
    BY <1>3, <1>4, <1>5, <1>6, <1>7, <1>8, <1>9 DEF Next, Dispatch

\* The invariant holds initially ...
LEMMA SInvInit == Init => SInv
  <1> SUFFICES ASSUME Init PROVE SInv
    OBVIOUS
  <1>1. TypeOK
    BY DPSetAssumption DEF Init, TypeOK
  <1>2. Announced
    BY EmptyQueue DEF Init, Announced
  <1>3. Held
    BY DPSetAssumption DEF Init, Held, Known
  <1>4. Copying
    BY DEF Init, Copying
  <1> QED
    BY <1>1, <1>2, <1>3, <1>4 DEF SInv

\* ... and every step preserves it.
LEMMA SInvStep == SInv /\ [Next]_vars => SInv'
  <1> SUFFICES ASSUME SInv, [Next]_vars PROVE SInv'
    OBVIOUS
  <1>1. CASE Next
    <2>1. TypeOK'
      BY <1>1, TypesOfSwitches, TypesOfThreads, TypesOfDPSet DEF Next, SInv
    <2> QED
      BY <1>1, <2>1, AnnouncedStep, HeldStep, CopyingStep DEF SInv
  <1>2. CASE UNCHANGED vars
    BY <1>2 DEF SInv, TypeOK, Announced, Held, Known, Copying, vars, swVars,
       dpVars, setVars
  <1> QED
    BY <1>1, <1>2

\* Every variable has its type in every reachable state.
THEOREM TypeCorrect == Spec => []TypeOK
  <1>1. SInv => TypeOK
    BY DEF SInv
  <1> QED
    BY <1>1, SInvInit, SInvStep, PTL DEF Spec

\* With every event handled, the connections in MAIN are exactly those that
\* are registered (DPSet._register, _unregister).
THEOREM RegistryIsCurrent == Spec => []RegistryCurrent
  <1>1. SInv => RegistryCurrent
    <2> SUFFICES ASSUME SInv, Quiet, NEW d \in DpId
                 PROVE  { c \in Conn : phase[c] = "MAIN" /\ dpid[c] = d }
                          = {dps[d]} \ {None}
      BY DEF RegistryCurrent
    <2>1. \A m : ~In(m, events)
      BY EmptyQueue DEF Quiet
    <2>2. /\ dps \in [DpId -> Conn \cup {None}] /\ None \notin Conn
          /\ phase \in [Conn -> {"new", "MAIN", "DEAD", "failed"}]
      BY DPSetAssumption DEF SInv, TypeOK
    <2>3. ASSUME NEW c \in Conn, phase[c] = "MAIN", dpid[c] = d PROVE dps[d] = c
      BY <2>1, <2>3 DEF SInv, Held, Known
    <2>4. ASSUME NEW c \in Conn, dps[d] = c PROVE phase[c] = "MAIN" /\ dpid[c] = d
      <3>1. Known(c) /\ dpid[c] = d
        BY <2>4 DEF SInv, Held
      <3>2. phase[c] # "DEAD"
        BY <2>1, <2>4, <3>1 DEF SInv, Held
      <3> QED
        BY <3>1, <3>2 DEF Known
    <2> QED
      BY <2>2, <2>3, <2>4
  <1> QED
    BY <1>1, SInvInit, SInvStep, PTL DEF Spec

-----------------------------------------------------------------------------
(* DPSet implements Registry                                                *)

\* What Registry sees of a step: which connections DPSet knows, and which are
\* closed.
Closed == { c \in Conn : phase[c] \in {"DEAD", "failed"} }

\* What the abstract registry sees of the state, and its steps.
LEMMA Seen ==
  /\ Registered = { c \in Conn : Known(c) }
  /\ R!vars = <<dps, Registered, Closed>>
  /\ R!Next <=> \E c \in Conn : R!Enter(c) \/ R!Die(c) \/ R!Leave(c)
  BY DEF Registered, Known, In, MainOf, Closed, R!vars, R!Next

\* A step that handles no MAIN closes a connection, gives an id up after its
\* connection was closed, or is not seen.
LEMMA SeenWithoutMain ==
  ASSUME SInv, NoMain
  PROVE  [R!Next]_R!vars
  <1>1. /\ phase \in [Conn -> {"new", "MAIN", "DEAD", "failed"}]
        /\ dps \in [DpId -> Conn \cup {None}]
    BY DEF SInv, TypeOK
  <1>2. Registered' = Registered
    <2>1. \A b \in Conn : Known(b)' <=> Known(b)
      BY KnownStays
    <2>2. Registered' = { c \in Conn : Known(c)' }
      BY DEF Registered, Known, In, MainOf
    <2> QED
      BY <2>1, <2>2, Seen
  <1>3. ASSUME NEW c \in Conn, Lost(c) PROVE R!Die(c)
    <2>1. Closed' = Closed \cup {c}
      BY <1>1, <1>3 DEF Lost, Closed
    <2>2. dps' = dps
      BY <1>3 DEF Lost, setVars
    <2> QED
      BY <1>2, <2>1, <2>2 DEF R!Die, Closed
  <1>4. CASE Unregister
    <2>1. PICK c \in Conn :
            /\ phase[c] \in {"DEAD", "failed"} /\ phase' = phase
            /\ \/ dps' = dps
               \/ dps[dpid[c]] = c /\ dps' = [dps EXCEPT ![dpid[c]] = None]
      BY <1>4, GivenUp
    <2>2. Closed' = Closed /\ c \in Closed
      BY <2>1 DEF Closed
    <2>3. dps' = dps => UNCHANGED R!vars
      BY <1>2, <2>2 DEF R!vars, Closed
    <2>4. dps[dpid[c]] = c /\ dps' = [dps EXCEPT ![dpid[c]] = None] => R!Leave(c)
      BY <1>2, <2>2 DEF R!Leave, Closed
    <2> QED
      BY <2>1, <2>3, <2>4, Seen
  <1>5. CASE dps' = dps /\ Closed' = Closed
    BY <1>2, <1>5 DEF R!vars, Closed
  <1>6. ASSUME NEW c \in Conn, ReceivePorts(c) PROVE dps' = dps /\ Closed' = Closed
    BY <1>1, <1>6 DEF ReceivePorts, Closed, setVars
  <1>7. CASE phase' = phase /\ dps' = dps
    BY <1>5, <1>7 DEF Closed
  <1>8. CASE \/ CopyPort \/ RegisterDone \/ RegisterFails \/ TrackStatus \/ TrackPort
             \/ \E c \in Conn : Connect(c) \/ ReceiveStatus(c) \/ PublishStatus(c)
             \/ \E d \in DpId, p \in Port, r \in {"ADD", "DELETE", "MODIFY"} :
                  PortChange(d, r, p)
    BY <1>7, <1>8 DEF CopyPort, RegisterDone, RegisterFails, TrackStatus, TrackPort,
       Connect, ReceiveStatus, PublishStatus, PortChange, dpVars, setVars
  <1> QED
    BY <1>3, <1>4, <1>5, <1>6, <1>8, Seen DEF NoMain

\* A step that handles a MAIN is seen as its connection taking the id, and
\* closes the one it takes the id from.
LEMMA SeenWithMain ==
  ASSUME SInv, RegisterNew \/ RegisterAgain
  PROVE  \E c \in Conn : R!Enter(c)
  <1>1. /\ phase \in [Conn -> {"new", "MAIN", "DEAD", "failed"}]
        /\ None \notin Conn
    BY DPSetAssumption DEF SInv, TypeOK
  <1>2. ASSUME NEW c \in Conn, ~Known(c), Known(c)',
               \A b \in Conn \ {c} : Known(b)' <=> Known(b)
        PROVE  c \notin Registered /\ Registered' = Registered \cup {c}
    <2>1. Registered' = { b \in Conn : Known(b)' }
      BY DEF Registered, Known, In, MainOf
    <2> QED
      BY <1>2, <2>1, Seen
  <1>3. CASE RegisterNew
    <2>1. PICK c \in Conn :
            /\ ~Known(c) /\ Known(c)' /\ \A b \in Conn \ {c} : Known(b)' <=> Known(b)
            /\ phase' = phase
            /\ dps[dpid[c]] = None /\ dps' = [dps EXCEPT ![dpid[c]] = c]
      BY <1>3, KnownByNew
    <2>2. c \notin Registered /\ Registered' = Registered \cup {c}
      BY <1>2, <2>1
    <2>3. Closed' = Closed \cup ({dps[dpid[c]]} \ {None})
      BY <2>1 DEF Closed
    <2> QED
      BY <2>1, <2>2, <2>3 DEF R!Enter, Closed
  <1>4. CASE RegisterAgain
    <2>1. PICK c \in Conn, old \in Conn :
            /\ ~Known(c) /\ Known(c)' /\ \A b \in Conn \ {c} : Known(b)' <=> Known(b)
            /\ old = dps[dpid[c]] /\ dps' = [dps EXCEPT ![dpid[c]] = c]
            /\ phase' = [phase EXCEPT ![old] = "DEAD"]
      BY <1>4, KnownByAgain
    <2>2. c \notin Registered /\ Registered' = Registered \cup {c}
      BY <1>2, <2>1
    <2>3. Closed' = Closed \cup {old}
      BY <1>1, <2>1 DEF Closed
    <2>4. {dps[dpid[c]]} \ {None} = {old}
      BY <1>1, <2>1
    <2> QED
      BY <2>1, <2>2, <2>3, <2>4 DEF R!Enter, Closed
  <1> QED
    BY <1>3, <1>4

\* DPSet implements Registry: a connection is registered once, in place of
\* the one that holds its id, which is closed in the same step, and an id is
\* given up only by a connection that was closed.
THEOREM Refinement == Spec => ImplementsRegistry
  <1>1. Init => R!Init
    BY DEF Init, R!Init, Registered
  <1>2. SInv /\ [Next]_vars => [R!Next]_R!vars
    <2>1. ASSUME SInv, Next PROVE [R!Next]_R!vars
      BY <2>1, SeenWithoutMain, SeenWithMain, StepForms, Seen
    <2>2. UNCHANGED vars => UNCHANGED R!vars
      BY DEF vars, setVars, dpVars, R!vars, Registered
    <2> QED
      BY <2>1, <2>2
  <1> QED
    BY <1>1, <1>2, SInvInit, SInvStep, PTL DEF Spec, ImplementsRegistry, R!Spec

-----------------------------------------------------------------------------
(* Enter and leave                                                          *)

\* A _register of the id is copying ports, and publishes the enter at its end.
Entering(d) == registering # None /\ dpid[registering.conn] = d

\* The last switching of the id was an enter.
Within(d) ==
    \E i \in Switching(d) :
        news[i].what = "enter" /\ \A j \in Switching(d) : ~(i < j)

\* An id for which _register never raised is held exactly between its enter
\* and its leave, or while the enter is due.
Entered ==
    \A d \in DpId \ raised :
        Alternates(d) /\ (Within(d) <=> dps[d] # None /\ ~Entering(d))

\* What one more event does to the switchings of an id.
LEMMA AfterNews ==
  ASSUME TypeOK, NEW n, news' = Append(news, n), NEW d
  PROVE  /\ n.id # d \/ n.what \notin {"enter", "leave"} =>
              (Alternates(d)' <=> Alternates(d)) /\ (Within(d)' <=> Within(d))
         /\ n.id = d /\ n.what = "enter" =>
              (Alternates(d)' <=> Alternates(d) /\ ~Within(d)) /\ Within(d)'
         /\ n.id = d /\ n.what = "leave" =>
              (Alternates(d)' <=> Alternates(d) /\ Within(d)) /\ ~Within(d)'
  <1> DEFINE L == Len(news)
  <1>1. /\ L \in Nat /\ DOMAIN news = 1 .. L /\ DOMAIN news' = 1 .. L + 1
        /\ \A i \in 1 .. L : news'[i] = news[i] /\ news'[L + 1] = n
    BY AppendEntries DEF TypeOK
  <1>2. PICK k : k = L + 1
    OBVIOUS
  <1>3. PICK S : S = Switching(d)
    OBVIOUS
  <1>4. /\ S \subseteq 1 .. L /\ S \subseteq Nat /\ k \in Nat /\ k \notin S
        /\ \A i \in S : i < k /\ ~(k < i) /\ news'[i] = news[i]
        /\ news'[k] = n
    BY <1>1, <1>2, <1>3, AppendEntries DEF Switching, TypeOK
  <1>5. Switching(d)' = IF n.id = d /\ n.what \in {"enter", "leave"}
                          THEN S \cup {k} ELSE S
    BY <1>1, <1>2, <1>3, <1>4 DEF Switching
  <1>6. \A i \in S : Inside(d, i)' <=> Inside(d, i)
    BY <1>3, <1>4, <1>5 DEF Inside
  <1>7. Inside(d, k)' <=> Within(d)
    BY <1>3, <1>4, <1>5 DEF Inside, Within
  <1> HIDE DEF L
  <1>8. ASSUME n.id # d \/ n.what \notin {"enter", "leave"}
        PROVE  (Alternates(d)' <=> Alternates(d)) /\ (Within(d)' <=> Within(d))
    BY <1>3, <1>4, <1>5, <1>6, <1>8 DEF Alternates, Within
  <1>9. ASSUME n.id = d, n.what \in {"enter", "leave"}
        PROVE  /\ Alternates(d)' <=>
                    /\ Alternates(d)
                    /\ n.what = IF Within(d) THEN "leave" ELSE "enter"
               /\ Within(d)' <=> n.what = "enter"
    <2>1. Switching(d)' = S \cup {k}
      BY <1>5, <1>9
    <2>2. Alternates(d)' <=>
             /\ \A i \in S : news'[i].what = IF Inside(d, i)' THEN "leave" ELSE "enter"
             /\ news'[k].what = IF Inside(d, k)' THEN "leave" ELSE "enter"
      BY <2>1 DEF Alternates
    <2>3. Alternates(d) <=>
             \A i \in S : news[i].what = IF Inside(d, i) THEN "leave" ELSE "enter"
      BY <1>3 DEF Alternates
    <2>4. \A i \in S \cup {k} : (\A j \in S \cup {k} : ~(i < j)) <=> i = k
      BY <1>4
    <2>5. Within(d)' <=> \E i \in S \cup {k} :
             news'[i].what = "enter" /\ \A j \in S \cup {k} : ~(i < j)
      BY <2>1 DEF Within
    <2>6. Within(d)' <=> n.what = "enter"
      BY <1>4, <2>4, <2>5
    <2> QED
      BY <1>4, <1>6, <1>7, <2>2, <2>3, <2>6
  <1> QED
    BY <1>8, <1>9

\* Every step keeps enters and leaves in turn.
LEMMA EnteredStep ==
  ASSUME SInv, Entered, Next PROVE Entered'
  <1>1. /\ TypeOK /\ Held /\ Copying /\ dpid \in [Conn -> DpId] /\ None \notin Conn
        /\ dps \in [DpId -> Conn \cup {None}]
    BY DPSetAssumption DEF SInv, TypeOK
  <1>2. CASE UNCHANGED <<dps, registering, news, raised>>
    <2>1. \A d : /\ Alternates(d)' <=> Alternates(d)
                 /\ Within(d)' <=> Within(d)
                 /\ Entering(d)' <=> Entering(d)
      BY <1>2 DEF Alternates, Inside, Within, Switching, Entering
    <2> QED
      BY <1>2, <2>1 DEF Entered
  <1>3. ASSUME NEW d \in DpId, news' = news
        PROVE  (Alternates(d)' <=> Alternates(d)) /\ (Within(d)' <=> Within(d))
    BY <1>3 DEF Alternates, Inside, Within, Switching
  <1>4. ASSUME NEW c \in Conn, NEW what, NEW ps, News(c, what, ps), NEW d \in DpId
        PROVE  /\ dpid[c] # d \/ what \notin {"enter", "leave"} =>
                    (Alternates(d)' <=> Alternates(d)) /\ (Within(d)' <=> Within(d))
               /\ dpid[c] = d /\ what = "enter" =>
                    (Alternates(d)' <=> Alternates(d) /\ ~Within(d)) /\ Within(d)'
               /\ dpid[c] = d /\ what = "leave" =>
                    (Alternates(d)' <=> Alternates(d) /\ Within(d)) /\ ~Within(d)'
    <2>1. PICK n : n = [id |-> dpid[c], what |-> what, ports |-> ps]
      OBVIOUS
    <2>2. n.id = dpid[c] /\ n.what = what /\ news' = Append(news, n)
      BY <1>4, <2>1 DEF News
    <2> QED
      BY <1>1, <2>2, AfterNews
  <1>5. CASE RegisterNew
    <2>1. /\ registering = None /\ registering'.conn = Head(events).conn
          /\ Head(events).conn \in Conn /\ news' = news /\ raised' = raised
          /\ dps[dpid[Head(events).conn]] = None
          /\ dps' = [dps EXCEPT ![dpid[Head(events).conn]] = Head(events).conn]
      BY <1>1, <1>5, Taken DEF RegisterNew
    <2>2. registering' # None
      <3>1. Cardinality(ports[Head(events).conn]) \in 0 .. Cardinality(Port)
        BY <1>1, <2>1, PortsFinite DEF TypeOK
      <3>2. registering' \in Call
        BY <1>5, <2>1, <3>1 DEF RegisterNew, Call
      <3> QED
        BY <3>2, DPSetAssumption
    <2>3. ASSUME NEW d \in DpId
          PROVE  dps'[d] # None /\ ~Entering(d)' <=> dps[d] # None /\ ~Entering(d)
      BY <1>1, <2>1, <2>2 DEF Entering
    <2> QED
      BY <1>3, <2>1, <2>3 DEF Entered
  <1>6. CASE CopyPort
    <2>1. PICK p \in ports[registering.conn] :
             /\ registering' = [registering EXCEPT !.copied = @ \cup {p}]
             /\ registering # None
             /\ news' = news /\ raised' = raised /\ dps' = dps
      BY <1>6 DEF CopyPort
    <2>2. registering \in Call /\ p \in Port
      BY <1>1, <2>1 DEF TypeOK, Call
    <2>3. registering' # None /\ registering'.conn = registering.conn
      BY <2>1, <2>2, DPSetAssumption DEF Call
    <2>4. \A d \in DpId : Entering(d)' <=> Entering(d)
      BY <2>1, <2>3 DEF Entering
    <2> QED
      BY <1>3, <2>1, <2>4 DEF Entered
  <1>7. CASE RegisterDone
    <2>1. PICK c : c = registering.conn
      OBVIOUS
    <2>2. /\ registering # None /\ registering' = None
          /\ News(c, "enter", registering.copied) /\ c \in Conn
          /\ dps' = dps /\ raised' = raised
      BY <1>1, <1>7, <2>1 DEF RegisterDone, TypeOK, Call
    <2>3. dps[dpid[c]] # None /\ \A d : Entering(d) <=> dpid[c] = d
      BY <1>1, <2>1, <2>2 DEF Copying, Entering
    <2>4. \A d : ~Entering(d)'
      BY <2>2 DEF Entering
    <2>5. ASSUME NEW d \in DpId
          PROVE  /\ dpid[c] # d =>
                      (Alternates(d)' <=> Alternates(d)) /\ (Within(d)' <=> Within(d))
                 /\ dpid[c] = d =>
                      (Alternates(d)' <=> Alternates(d) /\ ~Within(d)) /\ Within(d)'
      BY <1>4, <2>2
    <2> QED
      BY <2>2, <2>3, <2>4, <2>5 DEF Entered
  <1>8. CASE RegisterFails
    <2>1. /\ registering # None /\ registering' = None /\ news' = news
          /\ raised' = raised \cup {dpid[registering.conn]} /\ dps' = dps
      BY <1>8 DEF RegisterFails
    <2>2. \A d \in DpId \ raised' : ~Entering(d) /\ ~Entering(d)'
      BY <2>1 DEF Entering
    <2> QED
      BY <1>3, <2>1, <2>2 DEF Entered
  <1>9. CASE RegisterAgain
    <2>1. PICK c : c = Head(events).conn
      OBVIOUS
    <2>2. /\ c \in Conn /\ dps[dpid[c]] # None /\ dps' = [dps EXCEPT ![dpid[c]] = c]
          /\ News(c, "reconnected", portState[dpid[c]])
          /\ registering = None /\ registering' = registering /\ raised' = raised
      BY <1>1, <1>9, <2>1, Taken DEF RegisterAgain
    <2>3. \A d \in DpId : /\ Alternates(d)' <=> Alternates(d)
                          /\ Within(d)' <=> Within(d)
      BY <1>4, <2>2
    <2>4. \A d \in DpId : /\ Entering(d)' <=> Entering(d)
                          /\ dps'[d] # None <=> dps[d] # None
      BY <1>1, <2>2 DEF Entering
    <2> QED
      BY <2>2, <2>3, <2>4 DEF Entered
  <1>10. CASE Unregister
    <2>1. PICK c : c = Head(events).conn
      OBVIOUS
    <2>2. /\ c \in Conn /\ registering = None /\ registering' = registering
          /\ raised' = raised
          /\ IF \A e \in DpId : dps[e] # c
               THEN UNCHANGED <<dps, portState, news>>
               ELSE /\ dps' = [dps EXCEPT ![dpid[c]] = None]
                    /\ News(c, "leave", portState[dpid[c]])
      BY <1>1, <1>10, <2>1, Taken DEF Unregister
    <2>3. CASE \A e \in DpId : dps[e] # c
      BY <1>2, <2>2, <2>3
    <2>4. CASE ~\A e \in DpId : dps[e] # c
      <3>1. /\ dps[dpid[c]] = c /\ c # None
            /\ dps' = [dps EXCEPT ![dpid[c]] = None]
            /\ News(c, "leave", portState[dpid[c]])
        BY <1>1, <2>2, <2>4 DEF Held
      <3>2. ASSUME NEW d \in DpId
            PROVE  /\ dpid[c] # d =>
                        (Alternates(d)' <=> Alternates(d)) /\ (Within(d)' <=> Within(d))
                   /\ dpid[c] = d =>
                        (Alternates(d)' <=> Alternates(d) /\ Within(d)) /\ ~Within(d)'
        BY <1>4, <2>2, <3>1
      <3>3. \A d : ~Entering(d) /\ ~Entering(d)'
        BY <2>2 DEF Entering
      <3>4. \A d \in DpId : dps'[d] = IF d = dpid[c] THEN None ELSE dps[d]
        BY <1>1, <2>2, <3>1
      <3> QED
        BY <2>2, <3>1, <3>2, <3>3, <3>4 DEF Entered
    <2> QED
      BY <2>3, <2>4
  <1>11. CASE TrackStatus
    <2>1. PICK m : m = Head(events)
      OBVIOUS
    <2>2. /\ m \in Status /\ registering' = registering /\ dps' = dps
          /\ raised' = raised
          /\ news' = news \/ News(m.conn, m.reason, {m.port})
      BY <1>1, <1>11, <2>1, Taken DEF TrackStatus
    <2>3. CASE news' = news
      BY <1>2, <2>2, <2>3
    <2>4. CASE News(m.conn, m.reason, {m.port})
      <3>1. m.conn \in Conn /\ m.reason \notin {"enter", "leave"}
        BY <2>2, EventForms
      <3>2. \A d \in DpId : /\ Alternates(d)' <=> Alternates(d)
                            /\ Within(d)' <=> Within(d)
        BY <1>4, <2>4, <3>1
      <3>3. \A d : Entering(d)' <=> Entering(d)
        BY <2>2 DEF Entering
      <3> QED
        BY <2>2, <3>2, <3>3 DEF Entered
    <2> QED
      BY <2>2, <2>3, <2>4
  <1>12. CASE \/ TrackPort
              \/ \E c \in Conn : \/ Connect(c) \/ ReceivePorts(c) \/ ReceiveStatus(c)
                                 \/ PublishStatus(c) \/ Lost(c)
              \/ \E d \in DpId, p \in Port, r \in {"ADD", "DELETE", "MODIFY"} :
                   PortChange(d, r, p)
    BY <1>2, <1>12 DEF TrackPort, Connect, ReceivePorts, ReceiveStatus,
       PublishStatus, Lost, PortChange, setVars
  <1> QED
    BY <1>5, <1>6, <1>7, <1>8, <1>9, <1>10, <1>11, <1>12 DEF Next, Dispatch

\* Unless _register raised for it, an id enters before it leaves, and leaves
\* before it enters again (DPSet._register, _unregister).
THEOREM EnterLeaveInTurn == Spec => []EntersAndLeaves
  <1>1. Init => SInv /\ Entered
    <2> SUFFICES ASSUME Init PROVE Entered
      BY SInvInit
    <2>1. \A d : Switching(d) = {}
      BY DEF Init, Switching
    <2> QED
      BY <2>1 DEF Init, Entered, Alternates, Within
  <1>2. SInv /\ Entered /\ [Next]_vars => SInv' /\ Entered'
    <2> SUFFICES ASSUME SInv, Entered, [Next]_vars PROVE Entered'
      BY SInvStep
    <2>1. CASE UNCHANGED vars
      BY <2>1 DEF Entered, Alternates, Inside, Within, Switching, Entering, vars, setVars
    <2> QED
      BY <2>1, EnteredStep
  <1>3. Entered => EntersAndLeaves
    BY DEF Entered, EntersAndLeaves
  <1> QED
    BY <1>1, <1>2, <1>3, PTL DEF Spec

-----------------------------------------------------------------------------
(* What applications that follow the events hold                            *)

\* What a running _register has copied is the port state of its id.
CopiedIsState ==
    registering # None =>
        portState[dpid[registering.conn]] = registering.copied

\* Applications hold the port state of an id once they were told it entered.
Followed ==
    \A d \in DpId \ raised :
        View(d) = IF portState[d] = None \/ Entering(d) THEN {} ELSE portState[d]

\* What one more event does to what an application holds.
LEMMA ViewAppend ==
  ASSUME TypeOK, NEW n, news' = Append(news, n), NEW d
  PROVE  View(d)' = { p \in Port : Gives(n, d, p) \/ (p \in View(d) /\ ~Takes(n, d, p)) }
  <1> DEFINE L == Len(news)
  <1>1. /\ L \in Nat /\ DOMAIN news = 1 .. L /\ DOMAIN news' = 1 .. L + 1
        /\ \A i \in 1 .. L : news'[i] = news[i]
        /\ news'[L + 1] = n
    BY AppendEntries DEF TypeOK
  <1> HIDE DEF L
  <1>2. ASSUME NEW p \in Port
        PROVE  p \in View(d)' <=> Gives(n, d, p) \/ (p \in View(d) /\ ~Takes(n, d, p))
    <2> DEFINE G(m) == Gives(m, d, p)
               T(m) == Takes(m, d, p)
    <2>1. p \in View(d) <=> \E i \in 1 .. L :
             G(news[i]) /\ \A j \in 1 .. L : i < j => ~T(news[j])
      BY <1>1 DEF View
    <2>2. p \in View(d)' <=> \E i \in 1 .. L + 1 :
             G(news'[i]) /\ \A j \in 1 .. L + 1 : i < j => ~T(news'[j])
      BY <1>1 DEF View
    <2> HIDE DEF G, T
    <2>3. G(n) => p \in View(d)'
      BY <1>1, <2>2
    <2>4. p \in View(d) /\ ~T(n) => p \in View(d)'
      <3> SUFFICES ASSUME p \in View(d), ~T(n) PROVE p \in View(d)'
        OBVIOUS
      <3>1. PICK i \in 1 .. L : G(news[i]) /\ \A j \in 1 .. L : i < j => ~T(news[j])
        BY <2>1
      <3>2. i \in 1 .. L + 1 /\ G(news'[i])
        BY <1>1, <3>1
      <3>3. \A j \in 1 .. L + 1 : i < j => ~T(news'[j])
        BY <1>1, <3>1
      <3> QED
        BY <2>2, <3>2, <3>3
    <2>5. p \in View(d)' => G(n) \/ (p \in View(d) /\ ~T(n))
      <3> SUFFICES ASSUME p \in View(d)', ~G(n) PROVE p \in View(d) /\ ~T(n)
        OBVIOUS
      <3>1. PICK i \in 1 .. L + 1 :
               G(news'[i]) /\ \A j \in 1 .. L + 1 : i < j => ~T(news'[j])
        BY <2>2
      <3>2. i \in 1 .. L /\ G(news[i]) /\ i < L + 1
        BY <1>1, <3>1
      <3>3. \A j \in 1 .. L : i < j => ~T(news[j])
        BY <1>1, <3>1
      <3>4. ~T(n)
        BY <1>1, <3>1, <3>2
      <3> QED
        BY <2>1, <3>2, <3>3, <3>4
    <2> QED
      BY <2>3, <2>4, <2>5 DEF G, T
  <1> QED
    BY <1>2 DEF View

\* What the events DPSet publishes do to it.
LEMMA AfterShown ==
  ASSUME TypeOK, NEW c \in Conn, NEW what, NEW ps \in SUBSET Port,
         News(c, what, ps), NEW d
  PROVE  /\ dpid[c] # d => View(d)' = View(d)
         /\ dpid[c] = d /\ what \in {"enter", "reconnected"} => View(d)' = ps
         /\ dpid[c] = d /\ what = "leave" => View(d)' = {}
         /\ dpid[c] = d /\ what = "DELETE" => View(d)' = View(d) \ ps
         /\ dpid[c] = d /\ what \in {"ADD", "MODIFY"} => View(d)' = View(d) \cup ps
  <1>1. PICK n : n = [id |-> dpid[c], what |-> what, ports |-> ps]
    OBVIOUS
  <1>2. n.id = dpid[c] /\ n.what = what /\ n.ports = ps /\ news' = Append(news, n)
    BY <1>1 DEF News
  <1>3. View(d)' = { p \in Port : Gives(n, d, p) \/ (p \in View(d) /\ ~Takes(n, d, p)) }
    BY <1>2, ViewAppend
  <1>4. View(d) \subseteq Port
    BY DEF View
  <1>5. \A p : Gives(n, d, p) <=> dpid[c] = d /\ p \in ps /\ what \notin {"leave", "DELETE"}
    BY <1>2 DEF Gives
  <1>6. \A p : Takes(n, d, p) <=>
           /\ dpid[c] = d
           /\ \/ what = "leave"
              \/ what = "DELETE" /\ p \in ps
              \/ what \in {"enter", "reconnected"} /\ p \notin ps
    BY <1>2 DEF Takes
  <1> QED
    BY <1>3, <1>4, <1>5, <1>6

\* Every step keeps the copied ports the port state.
LEMMA CopiedStep ==
  ASSUME SInv, CopiedIsState, Next PROVE CopiedIsState'
  <1>1. /\ TypeOK /\ dpid \in [Conn -> DpId]
        /\ portState \in [DpId -> (SUBSET Port) \cup {None}]
    BY DPSetAssumption DEF SInv, TypeOK
  <1>2. CASE UNCHANGED <<portState, registering>>
    BY <1>2 DEF CopiedIsState
  <1>3. CASE RegisterNew
    BY <1>1, <1>3, Taken DEF RegisterNew, CopiedIsState
  <1>4. CASE CopyPort
    <2>1. registering \in Call /\ registering.conn \in Conn
      BY <1>1, <1>4 DEF CopyPort, TypeOK, Call
    <2>2. PICK p \in ports[registering.conn] :
             /\ portState' = [portState EXCEPT ![dpid[registering.conn]] = @ \cup {p}]
             /\ registering' = [registering EXCEPT !.copied = @ \cup {p}]
             /\ registering # None
      BY <1>4 DEF CopyPort
    <2>3. /\ registering'.conn = registering.conn
          /\ registering'.copied = registering.copied \cup {p}
      BY <2>1, <2>2 DEF Call
    <2>4. portState'[dpid[registering.conn]]
             = portState[dpid[registering.conn]] \cup {p}
      BY <1>1, <2>1, <2>2
    <2> QED
      BY <2>2, <2>3, <2>4 DEF CopiedIsState
  <1>5. CASE RegisterDone \/ RegisterFails
    BY <1>5 DEF RegisterDone, RegisterFails, CopiedIsState
  <1>6. CASE RegisterAgain \/ Unregister \/ TrackStatus
    <2>1. registering = None /\ registering' = registering
      BY <1>6 DEF RegisterAgain, Unregister, TrackStatus, Take
    <2> QED
      BY <2>1 DEF CopiedIsState
  <1>7. CASE \/ TrackPort
             \/ \E c \in Conn : \/ Connect(c) \/ ReceivePorts(c) \/ ReceiveStatus(c)
                                \/ PublishStatus(c) \/ Lost(c)
             \/ \E d \in DpId, p \in Port, r \in {"ADD", "DELETE", "MODIFY"} :
                  PortChange(d, r, p)
    BY <1>2, <1>7 DEF TrackPort, Connect, ReceivePorts, ReceiveStatus,
       PublishStatus, Lost, PortChange, setVars
  <1> QED
    BY <1>3, <1>4, <1>5, <1>6, <1>7 DEF Next, Dispatch

\* Every step keeps applications in agreement with the port state.
LEMMA FollowedStep ==
  ASSUME SInv, CopiedIsState, Followed, Next PROVE Followed'
  <1>1. /\ TypeOK /\ Held /\ Copying /\ dpid \in [Conn -> DpId] /\ None \notin Conn
        /\ dps \in [DpId -> Conn \cup {None}]
        /\ portState \in [DpId -> (SUBSET Port) \cup {None}]
        /\ \A ps \in SUBSET Port : ps # None
    BY DPSetAssumption DEF SInv, TypeOK
  <1>2. ASSUME NEW d, news' = news PROVE View(d)' = View(d)
    BY <1>2 DEF View
  <1>3. CASE UNCHANGED <<portState, registering, news, raised>>
    BY <1>2, <1>3 DEF Followed, Entering
  <1>4. CASE RegisterNew
    <2>1. PICK c : c = Head(events).conn
      OBVIOUS
    <2>2. /\ c \in Conn /\ registering = None /\ news' = news /\ raised' = raised
          /\ portState[dpid[c]] = None
          /\ portState' = [portState EXCEPT ![dpid[c]] = {}]
          /\ registering'.conn = c
      BY <1>1, <1>4, <2>1, Taken DEF RegisterNew, Copying
    <2>3. \A d \in DpId \ {dpid[c]} :
             ~Entering(d) /\ ~Entering(d)' /\ portState'[d] = portState[d]
      BY <1>1, <2>2 DEF Entering
    <2>4. portState'[dpid[c]] = {}
      BY <1>1, <2>2
    <2> QED
      BY <1>2, <2>2, <2>3, <2>4 DEF Followed
  <1>5. CASE CopyPort
    <2>1. registering \in Call
      BY <1>1, <1>5 DEF CopyPort, TypeOK
    <2>2. PICK p \in ports[registering.conn] :
             /\ portState' = [portState EXCEPT ![dpid[registering.conn]] = @ \cup {p}]
             /\ registering' = [registering EXCEPT !.copied = @ \cup {p}]
             /\ registering # None /\ news' = news /\ raised' = raised
      BY <1>5 DEF CopyPort
    <2>3. registering.conn \in Conn /\ p \in Port
      BY <1>1, <2>1, <2>2 DEF TypeOK, Call
    <2>4. registering' # None /\ registering'.conn = registering.conn
      BY <2>1, <2>2, <2>3, DPSetAssumption DEF Call
    <2>5. \A d : Entering(d)' <=> Entering(d)
      BY <2>2, <2>4 DEF Entering
    <2>6. \A d \in DpId : ~Entering(d) => portState'[d] = portState[d]
      BY <1>1, <2>2, <2>3 DEF Entering
    <2> QED
      BY <1>2, <2>2, <2>5, <2>6 DEF Followed
  <1>6. CASE RegisterDone
    <2>1. PICK c : c = registering.conn
      OBVIOUS
    <2>2. /\ registering # None /\ registering' = None /\ c \in Conn
          /\ registering.copied \in SUBSET Port
          /\ News(c, "enter", registering.copied)
          /\ portState' = portState /\ raised' = raised
      BY <1>1, <1>6, <2>1 DEF RegisterDone, TypeOK, Call
    <2>3. portState[dpid[c]] = registering.copied
      BY <2>1, <2>2 DEF CopiedIsState
    <2>4. \A d : (Entering(d) <=> dpid[c] = d) /\ ~Entering(d)'
      BY <2>1, <2>2 DEF Entering
    <2>5. ASSUME NEW d
          PROVE  /\ dpid[c] # d => View(d)' = View(d)
                 /\ dpid[c] = d => View(d)' = registering.copied
      BY <1>1, <2>2, AfterShown
    <2>6. registering.copied # None
      BY <1>1, <2>2
    <2> QED
      BY <2>2, <2>3, <2>4, <2>5, <2>6 DEF Followed
  <1>7. CASE RegisterFails
    <2>1. /\ registering # None /\ registering' = None /\ news' = news
          /\ raised' = raised \cup {dpid[registering.conn]} /\ portState' = portState
      BY <1>7 DEF RegisterFails
    <2>2. \A d \in DpId \ raised' : ~Entering(d) /\ ~Entering(d)'
      BY <2>1 DEF Entering
    <2> QED
      BY <1>2, <2>1, <2>2 DEF Followed
  <1>8. CASE RegisterAgain
    <2>1. PICK c : c = Head(events).conn
      OBVIOUS
    <2>2. /\ c \in Conn /\ dps[dpid[c]] # None
          /\ News(c, "reconnected", portState[dpid[c]])
          /\ registering = None /\ registering' = registering /\ raised' = raised
          /\ portState' = portState
      BY <1>1, <1>8, <2>1, Taken DEF RegisterAgain
    <2>3. portState[dpid[c]] # None /\ portState[dpid[c]] \in SUBSET Port
      BY <1>1, <2>2 DEF Copying
    <2>4. ASSUME NEW d
          PROVE  /\ dpid[c] # d => View(d)' = View(d)
                 /\ dpid[c] = d => View(d)' = portState[dpid[c]]
      BY <1>1, <2>2, <2>3, AfterShown
    <2>5. \A d : ~Entering(d) /\ ~Entering(d)'
      BY <2>2 DEF Entering
    <2> QED
      BY <2>2, <2>3, <2>4, <2>5 DEF Followed
  <1>9. CASE Unregister
    <2>1. PICK c : c = Head(events).conn
      OBVIOUS
    <2>2. /\ c \in Conn /\ registering = None /\ registering' = registering
          /\ raised' = raised
          /\ IF \A e \in DpId : dps[e] # c
               THEN UNCHANGED <<dps, portState, news>>
               ELSE /\ portState' = [portState EXCEPT ![dpid[c]] = None]
                    /\ News(c, "leave", portState[dpid[c]])
      BY <1>1, <1>9, <2>1, Taken DEF Unregister
    <2>3. CASE \A e \in DpId : dps[e] # c
      BY <1>3, <2>2, <2>3
    <2>4. CASE ~\A e \in DpId : dps[e] # c
      <3>1. /\ dps[dpid[c]] = c /\ c # None
            /\ portState' = [portState EXCEPT ![dpid[c]] = None]
            /\ News(c, "leave", portState[dpid[c]])
        BY <1>1, <2>2, <2>4 DEF Held
      <3>2. portState[dpid[c]] \in SUBSET Port
        BY <1>1, <2>2, <3>1 DEF Copying
      <3>3. ASSUME NEW d
            PROVE  /\ dpid[c] # d => View(d)' = View(d)
                   /\ dpid[c] = d => View(d)' = {}
        BY <1>1, <2>2, <3>1, <3>2, AfterShown
      <3>4. \A d : ~Entering(d) /\ ~Entering(d)'
        BY <2>2 DEF Entering
      <3>5. \A d \in DpId : portState'[d] = IF d = dpid[c] THEN None ELSE portState[d]
        BY <1>1, <2>2, <3>1
      <3> QED
        BY <2>2, <3>3, <3>4, <3>5 DEF Followed
    <2> QED
      BY <2>3, <2>4
  <1>10. CASE TrackStatus
    <2>1. PICK m : m = Head(events)
      OBVIOUS
    <2>2. /\ m \in Status /\ registering = None /\ registering' = registering
          /\ raised' = raised
          /\ IF portState[dpid[m.conn]] = None
                  \/ (m.reason = "DELETE" /\ m.port \notin portState[dpid[m.conn]])
               THEN UNCHANGED <<portState, news>>
               ELSE /\ portState' = [portState EXCEPT ![dpid[m.conn]] =
                                       IF m.reason = "DELETE" THEN @ \ {m.port}
                                                              ELSE @ \cup {m.port}]
                    /\ News(m.conn, m.reason, {m.port})
      BY <1>1, <1>10, <2>1, Taken DEF TrackStatus
    <2>3. /\ m.conn \in Conn /\ m.port \in Port
          /\ m.reason \in {"ADD", "DELETE", "MODIFY"} /\ dpid[m.conn] \in DpId
      BY <1>1, <2>2, EventForms
    <2>4. CASE UNCHANGED <<portState, news>>
      BY <1>3, <2>2, <2>4
    <2>5. ASSUME /\ portState[dpid[m.conn]] # None
                 /\ portState' = [portState EXCEPT ![dpid[m.conn]] =
                                    IF m.reason = "DELETE" THEN @ \ {m.port}
                                                           ELSE @ \cup {m.port}]
                 /\ News(m.conn, m.reason, {m.port})
          PROVE  Followed'
      <3>1. ASSUME NEW d
            PROVE  /\ dpid[m.conn] # d => View(d)' = View(d)
                   /\ dpid[m.conn] = d => View(d)' = IF m.reason = "DELETE"
                                                       THEN View(d) \ {m.port}
                                                       ELSE View(d) \cup {m.port}
        BY <1>1, <2>3, <2>5, AfterShown
      <3>2. \A d : ~Entering(d) /\ ~Entering(d)'
        BY <2>2 DEF Entering
      <3>3. portState[dpid[m.conn]] \in SUBSET Port
        BY <1>1, <2>3, <2>5
      <3>4. \A d \in DpId : portState'[d] =
               IF d # dpid[m.conn] THEN portState[d]
               ELSE IF m.reason = "DELETE" THEN portState[d] \ {m.port}
                                           ELSE portState[d] \cup {m.port}
        BY <1>1, <2>5
      <3>5. portState'[dpid[m.conn]] # None
        BY <1>1, <2>3, <3>3, <3>4
      <3> QED
        BY <2>2, <2>5, <3>1, <3>2, <3>4, <3>5 DEF Followed
    <2> QED
      BY <2>2, <2>4, <2>5
  <1>11. CASE \/ TrackPort
              \/ \E c \in Conn : \/ Connect(c) \/ ReceivePorts(c) \/ ReceiveStatus(c)
                                 \/ PublishStatus(c) \/ Lost(c)
              \/ \E d \in DpId, p \in Port, r \in {"ADD", "DELETE", "MODIFY"} :
                   PortChange(d, r, p)
    BY <1>3, <1>11 DEF TrackPort, Connect, ReceivePorts, ReceiveStatus,
       PublishStatus, Lost, PortChange, setVars
  <1> QED
    BY <1>4, <1>5, <1>6, <1>7, <1>8, <1>9, <1>10, <1>11 DEF Next, Dispatch

\* Unless _register raised for it, an application that follows the events
\* about an id holds the ports get_ports returns, over any reconnects
\* (DPSet._register, _unregister, port_status_handler).
THEOREM ViewsMatch == Spec => []ViewMatches
  <1>1. Init => SInv /\ CopiedIsState /\ Followed
    <2> SUFFICES ASSUME Init PROVE CopiedIsState /\ Followed
      BY SInvInit
    <2>1. \A d : View(d) = {}
      BY DEF Init, View
    <2> QED
      BY <2>1 DEF Init, CopiedIsState, Followed
  <1>2. SInv /\ CopiedIsState /\ Followed /\ [Next]_vars
          => SInv' /\ CopiedIsState' /\ Followed'
    <2> SUFFICES ASSUME SInv, CopiedIsState, Followed, [Next]_vars
                 PROVE  CopiedIsState' /\ Followed'
      BY SInvStep
    <2>1. CASE UNCHANGED vars
      BY <2>1 DEF CopiedIsState, Followed, View, Entering, vars, setVars
    <2> QED
      BY <2>1, CopiedStep, FollowedStep
  <1>3. Followed => ViewMatches
    BY DEF Followed, ViewMatches, Entering
  <1> QED
    BY <1>1, <1>2, <1>3, PTL DEF Spec

-----------------------------------------------------------------------------
(* The ports                                                                *)

\* The port statuses on a connection, those about one port, and of these the
\* ones that leave the port as a set of ports has it.
From(c) == { m \in Status : m.conn = c }
About(c, p) == { m \in From(c) : m.port = p }
Right(c, p, real) == { m \in About(c, p) : m.reason = "DELETE" <=> p \notin real }

\* A list that is queued, held and wire behind what the switch has: the last
\* status about p on the way says what is real, or, if none is, the list does.
Leads(c, p, wire, held, queued, list, real) ==
    /\ LastIn(wire, About(c, p), Right(c, p, real))
    /\ ~Has(wire, About(c, p)) =>
         /\ held \in About(c, p) => held \in Right(c, p, real)
         /\ held \notin About(c, p) =>
              /\ LastIn(queued, About(c, p), Right(c, p, real))
              /\ ~Has(queued, About(c, p)) => (p \in list <=> p \in real)

\* A connection delivers its port description first, then statuses.
Delivering ==
    \A c \in Conn :
        /\ \A d \in DpId : newest[d] = c => dpid[c] = d
        /\ phase[c] = "new" /\ net[c] # <<>> =>
             /\ Head(net[c]) \in [ev : {"PORTS"}, body : SUBSET Port]
             /\ Tail(net[c]) \in Seq(From(c))
        /\ phase[c] = "new" /\ newest[dpid[c]] = c => net[c] # <<>>
        /\ phase[c] # "new" => net[c] \in Seq(From(c))
        /\ hand[c] # None => hand[c] \in From(c) /\ phase[c] \in {"MAIN", "DEAD"}

\* The ports of c are still to be copied by _register.
Fresh(c) == In(MainOf(c), events) \/ (registering # None /\ registering.conn = c)

\* Statuses are published in MAIN, behind the MAIN of their connection, and
\* before it is handled DPSet has every one OFPHandler has.
Published ==
    /\ \A m \in Status : In(m, events) \/ In(m, inbox) => phase[m.conn] \in {"MAIN", "DEAD"}
    /\ \A c \in Conn : Before(MainOf(c), From(c), events)
    /\ \A c \in Conn, p \in Port :
         Fresh(c) /\ Has(inbox, About(c, p)) => Has(events, About(c, p))

\* What was copied of the ports is still there, if no status is on its way.
CopiedIsThere ==
    registering # None =>
        \A p \in registering.copied :
            ~Has(events, About(registering.conn, p)) => p \in ports[registering.conn]

\* No other connection of the switch was ever in MAIN.
Sole(c) ==
    \A b \in Conn : dpid[b] = dpid[c] /\ phase[b] \in {"MAIN", "DEAD"} => b = c

\* Where DPSet has the ports of c, or will copy them from.
Listed(c) == IF Fresh(c) THEN ports[c] ELSE portState[dpid[c]]

\* The port description, Datapath.ports and the port state follow the switch.
Described ==
    \A c \in Conn, p \in Port : \A wire, list, real :
        /\ newest[dpid[c]] = c /\ phase[c] = "new"
        /\ wire = Tail(net[c]) /\ list = Head(net[c]).body /\ real = sw[dpid[c]]
        => Leads(c, p, wire, None, <<>>, list, real)
Mirrored ==
    \A c \in Conn, p \in Port : \A wire, held, queued, list, real :
        /\ newest[dpid[c]] = c /\ phase[c] = "MAIN"
        /\ wire = net[c] /\ held = hand[c] /\ queued = inbox
        /\ list = ports[c] /\ real = sw[dpid[c]]
        => Leads(c, p, wire, held, queued, list, real)
Kept ==
    \A c \in Conn, p \in Port : \A wire, held, queued, list, real :
        /\ newest[dpid[c]] = c /\ phase[c] = "MAIN"
        /\ Sole(c) /\ dpid[c] \notin raised
        /\ wire = net[c] /\ held = hand[c] /\ queued = events
        /\ list = Listed(c) /\ real = sw[dpid[c]]
        => Leads(c, p, wire, held, queued, list, real)

\* The inductive invariant of the ports.
PInv ==
    /\ SInv /\ CopiedIsState /\ CopiedIsThere /\ Delivering /\ Published
    /\ Described /\ Mirrored /\ Kept

\* A port of the switch changes, and the status is put on the wire.
LEMMA LeadsSend ==
  ASSUME NEW S, NEW wire \in Seq(S), NEW c, NEW m \in From(c), NEW p,
         NEW held, NEW queued, NEW list, NEW real,
         Leads(c, p, wire, held, queued, list, real)
  PROVE  Leads(c, p, Append(wire, m), held, queued, list,
               IF m.reason = "DELETE" THEN real \ {m.port} ELSE real \cup {m.port})
  <1> DEFINE now == IF m.reason = "DELETE" THEN real \ {m.port} ELSE real \cup {m.port}
  <1>1. CASE m \in About(c, p)
    <2>1. m \in Right(c, p, now)
      BY <1>1 DEF Right, About
    <2> HIDE DEF now
    <2>2. LastIn(Append(wire, m), About(c, p), Right(c, p, now))
      BY <1>1, <2>1, LastAppend
    <2>3. Has(Append(wire, m), About(c, p))
      BY <1>1, HasAppend
    <2> QED
      BY <2>2, <2>3 DEF Leads, now
  <1>2. CASE m \notin About(c, p)
    <2>1. p \in now <=> p \in real
      BY <1>2 DEF About
    <2> HIDE DEF now
    <2>2. Right(c, p, now) = Right(c, p, real)
      BY <2>1 DEF Right
    <2>3. LastIn(Append(wire, m), About(c, p), Right(c, p, now))
      BY <1>2, <2>2, LastAppend DEF Leads
    <2>4. Has(Append(wire, m), About(c, p)) <=> Has(wire, About(c, p))
      BY <1>2, HasAppend
    <2> QED
      BY <2>1, <2>2, <2>3, <2>4 DEF Leads, now
  <1> QED
    BY <1>1, <1>2

\* The first status on the wire is taken into the hand.
LEMMA LeadsReceive ==
  ASSUME NEW S, NEW wire \in Seq(S), wire # <<>>, NEW c, NEW p, NEW held,
         NEW queued, NEW list, NEW real, held \notin About(c, p),
         Leads(c, p, wire, held, queued, list, real)
  PROVE  Leads(c, p, Tail(wire), Head(wire), queued, list, real)
  BY LastTail, HasTail DEF Leads

\* What is in the hand is queued, or what is of another connection or port.
LEMMA LeadsPut ==
  ASSUME NEW S, NEW queued \in Seq(S), NEW c, NEW p, NEW wire, NEW held, NEW e,
         NEW list, NEW real, Leads(c, p, wire, held, queued, list, real)
  PROVE  /\ e \notin About(c, p) =>
              Leads(c, p, wire, held, Append(queued, e), list, real)
         /\ e \notin About(c, p) =>
              Leads(c, p, wire, e, Append(queued, held), list, real)
  <1>1. ASSUME NEW x
        PROVE  Has(Append(queued, x), About(c, p))
                 <=> Has(queued, About(c, p)) \/ x \in About(c, p)
    BY HasAppend
  <1>2. ASSUME NEW x,
               IF x \in About(c, p) THEN x \in Right(c, p, real)
               ELSE LastIn(queued, About(c, p), Right(c, p, real))
        PROVE  LastIn(Append(queued, x), About(c, p), Right(c, p, real))
    BY <1>2, LastAppend
  <1> QED
    BY <1>1, <1>2 DEF Leads

\* The head of the queue is handled.
LEMMA LeadsTake ==
  ASSUME NEW S, NEW queued \in Seq(S), queued # <<>>, NEW c, NEW p, NEW wire,
         NEW held, NEW list, NEW next, NEW real,
         Leads(c, p, wire, held, queued, list, real),
         Head(queued) \in About(c, p) =>
           (p \in next <=> Head(queued).reason # "DELETE"),
         Head(queued) \notin About(c, p) => (p \in next <=> p \in list)
  PROVE  Leads(c, p, wire, held, Tail(queued), next, real)
  <1>1. /\ LastIn(queued, About(c, p), Right(c, p, real)) =>
             /\ LastIn(Tail(queued), About(c, p), Right(c, p, real))
             /\ ~Has(Tail(queued), About(c, p)) /\ Head(queued) \in About(c, p)
                  => Head(queued) \in Right(c, p, real)
        /\ Has(queued, About(c, p))
             <=> Head(queued) \in About(c, p) \/ Has(Tail(queued), About(c, p))
    BY LastTail, HasTail
  <1>2. Head(queued) \in Right(c, p, real) =>
           (Head(queued).reason = "DELETE" <=> p \notin real)
    BY DEF Right
  <1> QED
    BY <1>1, <1>2 DEF Leads

\* Another list, that has p too or is behind a status about it.
LEMMA LeadsList ==
  ASSUME NEW c, NEW p, NEW wire, NEW held, NEW queued, NEW list, NEW next,
         NEW real, Leads(c, p, wire, held, queued, list, real),
         Has(queued, About(c, p)) \/ (p \in next <=> p \in list)
  PROVE  Leads(c, p, wire, held, queued, next, real)
  BY DEF Leads

\* Another queue, that has nothing about the port.
LEMMA LeadsQueue ==
  ASSUME NEW c, NEW p, NEW wire, NEW held, NEW other, NEW queued, NEW list,
         NEW real, Leads(c, p, wire, held, <<>>, list, real),
         held \notin About(c, p), other \notin About(c, p),
         ~Has(queued, About(c, p))
  PROVE  Leads(c, p, wire, other, queued, list, real)
  <1>1. LastIn(queued, About(c, p), Right(c, p, real))
    BY DEF LastIn, Has
  <1>2. ~Has(<<>>, About(c, p))
    BY DEF Has
  <1> QED
    BY <1>1, <1>2 DEF Leads

\* A connection is new, then in MAIN, then closed.
LEMMA PhaseForward ==
  ASSUME SInv, Next
  PROVE  \A b \in Conn :
           /\ phase[b] \in {"MAIN", "DEAD"} => phase'[b] \in {"MAIN", "DEAD"}
           /\ phase'[b] = "MAIN" => phase[b] \in {"new", "MAIN"}
           /\ phase'[b] = "new" => phase[b] = "new"
  <1>1. phase \in [Conn -> {"new", "MAIN", "DEAD", "failed"}]
    BY DEF SInv, TypeOK
  <1>2. CASE phase' = phase
    BY <1>1, <1>2
  <1>3. ASSUME NEW c \in Conn, phase' = [phase EXCEPT ![c] = "DEAD"],
               phase[c] \in {"MAIN", "DEAD"}
        PROVE  \A b \in Conn :
                 /\ phase[b] \in {"MAIN", "DEAD"} => phase'[b] \in {"MAIN", "DEAD"}
                 /\ phase'[b] = "MAIN" => phase[b] \in {"new", "MAIN"}
                 /\ phase'[b] = "new" => phase[b] = "new"
    BY <1>1, <1>3
  <1>4. CASE RegisterAgain
    <2>1. PICK old \in Conn : Known(old) /\ phase' = [phase EXCEPT ![old] = "DEAD"]
      BY <1>4, KnownByAgain
    <2> QED
      BY <1>3, <2>1 DEF Known
  <1>5. CASE \E c \in Conn : ReceivePorts(c) \/ Lost(c)
    BY <1>1, <1>5 DEF ReceivePorts, Lost
  <1>6. CASE \/ RegisterNew \/ CopyPort \/ RegisterDone \/ RegisterFails
             \/ Unregister \/ TrackStatus \/ TrackPort
             \/ \E c \in Conn : Connect(c) \/ ReceiveStatus(c) \/ PublishStatus(c)
             \/ \E d \in DpId, p \in Port, r \in {"ADD", "DELETE", "MODIFY"} :
                  PortChange(d, r, p)
    <2>1. phase' = phase
      <3>1. RegisterNew \/ CopyPort \/ RegisterDone \/ RegisterFails => phase' = phase
        BY DEF RegisterNew, CopyPort, RegisterDone, RegisterFails, dpVars
      <3>2. Unregister \/ TrackStatus \/ TrackPort => phase' = phase
        BY DEF Unregister, TrackStatus, TrackPort, dpVars
      <3>3. \A c \in Conn : Connect(c) \/ ReceiveStatus(c) \/ PublishStatus(c)
                               => phase' = phase
        BY DEF Connect, ReceiveStatus, PublishStatus, dpVars
      <3>4. \A d \in DpId, p \in Port, r \in {"ADD", "DELETE", "MODIFY"} :
               PortChange(d, r, p) => phase' = phase
        BY DEF PortChange, dpVars
      <3> QED
        BY <1>6, <3>1, <3>2, <3>3, <3>4
    <2> QED
      BY <1>2, <2>1
  <1> QED
    BY <1>4, <1>5, <1>6 DEF Next, Dispatch

\* A port of the switch changes: the switch reports it on the connection it
\* uses, unless that is closed.
Reports(c, m) ==
    /\ net'[c] = Append(net[c], m)
    /\ sw'[dpid[c]] = IF m.reason = "DELETE" THEN sw[dpid[c]] \ {m.port}
                                             ELSE sw[dpid[c]] \cup {m.port}

\* What a status about a port changes for each connection.
LEMMA Reported ==
  ASSUME SInv, Delivering, NEW d \in DpId, NEW p \in Port,
         NEW r \in {"ADD", "DELETE", "MODIFY"}, PortChange(d, r, p), NEW c \in Conn
  PROVE  /\ dpid[c] # d \/ newest[d] # c \/ phase[c] \notin {"new", "MAIN"} =>
              net'[c] = net[c]
         /\ dpid[c] # d => sw'[dpid[c]] = sw[dpid[c]]
         /\ dpid[c] = d /\ newest[d] = c /\ phase[c] \in {"new", "MAIN"} =>
              \E m \in From(c) : Reports(c, m)
  <1>1. /\ net \in [Conn -> Seq(Status \cup [ev : {"PORTS"}, body : SUBSET Port])]
        /\ sw \in [DpId -> SUBSET Port] /\ dpid \in [Conn -> DpId] /\ None \notin Conn
    BY DPSetAssumption DEF SInv, TypeOK
  <1>2. newest[d] = c => dpid[c] = d
    BY DEF Delivering
  <1>3. dpid[c] # d => sw'[dpid[c]] = sw[dpid[c]]
    BY <1>1 DEF PortChange
  <1>4. newest[d] # c \/ phase[c] \notin {"new", "MAIN"} => net'[c] = net[c]
    BY <1>1 DEF PortChange, Alive
  <1>5. ASSUME newest[d] = c, phase[c] \in {"new", "MAIN"}
        PROVE  \E m \in From(c) : Reports(c, m)
    <2>1. PICK m : m = [ev |-> "STATUS", conn |-> c, reason |-> r, port |-> p]
      OBVIOUS
    <2>2. m \in From(c) /\ m.reason = r /\ m.port = p
      BY <2>1 DEF From, Status
    <2>3. net' = [net EXCEPT ![c] = Append(@, m)]
      BY <1>1, <1>5, <2>1 DEF PortChange, Alive
    <2>4. sw'[d] = IF r = "DELETE" THEN sw[d] \ {p} ELSE sw[d] \cup {p}
      BY <1>1 DEF PortChange
    <2> QED
      BY <1>1, <1>2, <1>5, <2>2, <2>3, <2>4 DEF Reports
  <1> QED
    BY <1>2, <1>3, <1>4, <1>5

\* Every step keeps what the connections deliver in order.
LEMMA DeliveringStep ==
  ASSUME SInv, Delivering, Next PROVE Delivering'
  <1>1. /\ phase \in [Conn -> {"new", "MAIN", "DEAD", "failed"}]
        /\ net \in [Conn -> Seq(Status \cup [ev : {"PORTS"}, body : SUBSET Port])]
        /\ hand \in [Conn -> Status \cup {None}]
        /\ newest \in [DpId -> Conn \cup {None}] /\ sw \in [DpId -> SUBSET Port]
        /\ dpid \in [Conn -> DpId] /\ None \notin Conn
    BY DPSetAssumption DEF SInv, TypeOK
  <1>2. CASE UNCHANGED <<newest, phase, net, hand>>
    BY <1>2 DEF Delivering
  <1>3. ASSUME NEW c \in Conn, Connect(c) PROVE Delivering'
    <2>1. PICK m : m = [ev |-> "PORTS", body |-> sw[dpid[c]]]
      OBVIOUS
    <2>2. m \in [ev : {"PORTS"}, body : SUBSET Port]
      BY <1>1, <2>1
    <2>3. <<m>> # <<>> /\ Head(<<m>>) = m /\ Tail(<<m>>) = <<>> /\ <<>> \in Seq(From(c))
      OBVIOUS
    <2>4. /\ net' = [net EXCEPT ![c] = <<m>>] /\ phase' = phase /\ hand' = hand
          /\ newest' = [newest EXCEPT ![dpid[c]] = c] /\ phase[c] = "new"
      BY <1>3, <2>1 DEF Connect, dpVars
    <2> QED
      BY <1>1, <2>2, <2>3, <2>4 DEF Delivering
  <1>4. ASSUME NEW d \in DpId, NEW p \in Port, NEW r \in {"ADD", "DELETE", "MODIFY"},
               PortChange(d, r, p)
        PROVE  Delivering'
    <2>1. newest' = newest /\ phase' = phase /\ hand' = hand
      BY <1>4 DEF PortChange, dpVars
    <2>2. ASSUME NEW c \in Conn
          PROVE  /\ phase[c] = "new" /\ net'[c] # <<>> =>
                      /\ Head(net'[c]) \in [ev : {"PORTS"}, body : SUBSET Port]
                      /\ Tail(net'[c]) \in Seq(From(c))
                 /\ phase[c] = "new" /\ newest[dpid[c]] = c => net'[c] # <<>>
                 /\ phase[c] # "new" => net'[c] \in Seq(From(c))
      <3>1. CASE net'[c] = net[c]
        BY <3>1 DEF Delivering
      <3>2. ASSUME NEW m \in From(c), net'[c] = Append(net[c], m),
                   newest[dpid[c]] = c
            PROVE  /\ phase[c] = "new" /\ net'[c] # <<>> =>
                        /\ Head(net'[c]) \in [ev : {"PORTS"}, body : SUBSET Port]
                        /\ Tail(net'[c]) \in Seq(From(c))
                   /\ phase[c] = "new" => net'[c] # <<>>
                   /\ phase[c] # "new" => net'[c] \in Seq(From(c))
        <4>1. phase[c] # "new" => net'[c] \in Seq(From(c))
          BY <3>2, AppendEntries DEF Delivering
        <4>2. ASSUME phase[c] = "new"
              PROVE  /\ net'[c] # <<>>
                     /\ Head(net'[c]) \in [ev : {"PORTS"}, body : SUBSET Port]
                     /\ Tail(net'[c]) \in Seq(From(c))
          <5>1. /\ net[c] # <<>> /\ Tail(net[c]) \in Seq(From(c))
                /\ Head(net[c]) \in [ev : {"PORTS"}, body : SUBSET Port]
            BY <3>2, <4>2 DEF Delivering
          <5>2. /\ net'[c] # <<>> /\ Head(net'[c]) = Head(net[c])
                /\ Tail(net'[c]) = Append(Tail(net[c]), m)
            BY <1>1, <3>2, <5>1, AppendHead
          <5>3. Append(Tail(net[c]), m) \in Seq(From(c))
            BY <5>1, AppendEntries
          <5> QED
            BY <5>1, <5>2, <5>3
        <4> QED
          BY <4>1, <4>2
      <3>3. /\ dpid[c] # d \/ newest[d] # c \/ phase[c] \notin {"new", "MAIN"} =>
                  net'[c] = net[c]
            /\ dpid[c] = d /\ newest[d] = c /\ phase[c] \in {"new", "MAIN"} =>
                  \E m \in From(c) : Reports(c, m)
        BY <1>4, Reported
      <3> QED
        BY <3>1, <3>2, <3>3 DEF Reports
    <2> QED
      BY <2>1, <2>2 DEF Delivering
  <1>5. ASSUME NEW c \in Conn, ReceivePorts(c) PROVE Delivering'
    BY <1>1, <1>5 DEF ReceivePorts, Delivering
  <1>6. ASSUME NEW c \in Conn, ReceiveStatus(c) PROVE Delivering'
    <2>1. /\ net[c] # <<>> /\ phase[c] = "MAIN" /\ newest' = newest /\ phase' = phase
          /\ net' = [net EXCEPT ![c] = Tail(@)]
          /\ hand' = [hand EXCEPT ![c] = Head(net[c])]
      BY <1>6 DEF ReceiveStatus
    <2>2. Head(net[c]) \in From(c) /\ Tail(net[c]) \in Seq(From(c))
      BY <2>1, HeadAndTail DEF Delivering
    <2> QED
      BY <1>1, <2>1, <2>2 DEF Delivering
  <1>7. ASSUME NEW c \in Conn, PublishStatus(c) PROVE Delivering'
    BY <1>1, <1>7 DEF PublishStatus, swVars, Delivering
  <1>8. ASSUME NEW c \in Conn, Lost(c) PROVE Delivering'
    <2>1. <<>> \in Seq(From(c))
      OBVIOUS
    <2> QED
      BY <1>1, <1>8, <2>1 DEF Lost, Delivering
  <1>9. CASE RegisterAgain
    <2>1. PICK old \in Conn : Known(old) /\ phase' = [phase EXCEPT ![old] = "DEAD"]
      BY <1>9, KnownByAgain
    <2>2. UNCHANGED <<newest, net, hand>>
      BY <1>9 DEF RegisterAgain, swVars
    <2> QED
      BY <1>1, <2>1, <2>2 DEF Delivering, Known
  <1>10. CASE \/ RegisterNew \/ CopyPort \/ RegisterDone \/ RegisterFails
              \/ Unregister \/ TrackStatus \/ TrackPort
    BY <1>2, <1>10 DEF RegisterNew, CopyPort, RegisterDone, RegisterFails, Unregister,
       TrackStatus, TrackPort, dpVars, swVars
  <1> QED
    BY <1>3, <1>4, <1>5, <1>6, <1>7, <1>8, <1>9, <1>10 DEF Next, Dispatch

\* A change of MAIN or DEAD is no status, and a status of one connection is
\* none of another.
LEMMA FromForms ==
  /\ \A b, c \in Conn : MainOf(b) \notin From(c) /\ DeadOf(b) \notin From(c)
  /\ \A c \in Conn, p \in Port : About(c, p) \subseteq From(c) /\ None \notin About(c, p)
  /\ \A b, c \in Conn : \A m \in From(b) : m \in From(c) => b = c
  /\ \A m \in Status : m \in From(m.conn) /\ m \in About(m.conn, m.port)
  <1>1. \A c : From(c) \subseteq Status /\ \A m \in From(c) : m.conn = c
    BY DEF From
  <1>2. None \notin Status
    BY DPSetAssumption
  <1> QED
    BY <1>1, <1>2, EventsDiffer DEF From, About

\* Every step keeps the order in which statuses are published.
LEMMA PublishedStep ==
  ASSUME SInv, Delivering, Published, Next PROVE Published'
  <1>1. /\ phase \in [Conn -> {"new", "MAIN", "DEAD", "failed"}]
        /\ hand \in [Conn -> Status \cup {None}] /\ inbox \in Seq(Status)
        /\ events \in Seq(Status \cup Change) /\ None \notin Status /\ TypeOK
    BY DPSetAssumption DEF SInv, TypeOK
  <1>2. \A b \in Conn : phase[b] \in {"MAIN", "DEAD"} => phase'[b] \in {"MAIN", "DEAD"}
    BY PhaseForward
  <1>3. \A m \in Status : m.conn \in Conn
    BY EventForms
  <1>4. ASSUME UNCHANGED <<events, inbox>>,
               \A c \in Conn : registering' # None /\ registering'.conn = c =>
                                 registering # None /\ registering.conn = c
        PROVE  Published'
    BY <1>2, <1>3, <1>4 DEF Published, Fresh
  <1>5. ASSUME NEW e, events' = Append(events, e), inbox' = inbox,
               registering' = registering, e \notin Status,
               \A c \in Conn : e = MainOf(c) => phase[c] = "new"
        PROVE  Published'
    <2>1. \A m : In(m, events') <=> In(m, events) \/ m = e
      BY <1>1, <1>5, AfterPut
    <2>2. ASSUME NEW c \in Conn, phase[c] = "new"
          PROVE  ~Has(events, From(c)) /\ \A p \in Port : ~Has(inbox, About(c, p))
      <3>1. \A m \in From(c) : m \in Status /\ m.conn = c
        BY DEF From
      <3>2. \A m \in From(c) : ~In(m, events) /\ ~In(m, inbox)
        BY <2>2, <3>1 DEF Published
      <3> QED
        BY <3>2, FromForms DEF In, Has
    <2>3. ASSUME NEW c \in Conn PROVE Before(MainOf(c), From(c), events')
      BY <1>1, <1>5, <2>2, BeforeAppend, FromForms DEF Published
    <2>4. ASSUME NEW c \in Conn, NEW p \in Port, Fresh(c)', Has(inbox, About(c, p))
          PROVE  Has(events', About(c, p))
      <3>1. e # MainOf(c)
        BY <1>5, <2>2, <2>4
      <3>2. Fresh(c)
        BY <1>5, <2>1, <2>4, <3>1 DEF Fresh
      <3> QED
        BY <1>1, <1>5, <2>4, <3>2, HasAppend DEF Published
    <2> QED
      BY <1>2, <1>3, <1>5, <2>1, <2>3, <2>4 DEF Published
  <1>6. ASSUME NEW c \in Conn, PublishStatus(c) PROVE Published'
    <2>1. PICK h : h = hand[c]
      OBVIOUS
    <2>2. /\ h \in From(c) /\ h \in Status /\ phase[c] \in {"MAIN", "DEAD"} /\ h.conn = c
          /\ events' = Append(events, h) /\ inbox' = Append(inbox, h)
          /\ phase' = phase /\ registering' = registering
      BY <1>1, <1>6, <2>1 DEF PublishStatus, setVars, Delivering, From
    <2>3. \A m : /\ In(m, events') <=> In(m, events) \/ m = h
                 /\ In(m, inbox') <=> In(m, inbox) \/ m = h
      BY <1>1, <2>2, InAppend
    <2>4. \A b \in Conn : Before(MainOf(b), From(b), events')
      BY <1>1, <2>2, BeforeAppend, FromForms DEF Published
    <2>5. \A C : /\ Has(events', C) <=> Has(events, C) \/ h \in C
                 /\ Has(inbox', C) <=> Has(inbox, C) \/ h \in C
      BY <1>1, <2>2, HasAppend
    <2>6. \A b \in Conn : Fresh(b)' => Fresh(b)
      BY <2>2, <2>3, EventsDiffer DEF Fresh
    <2> QED
      BY <2>2, <2>3, <2>4, <2>5, <2>6 DEF Published
  <1>7. ASSUME events # <<>>, inbox' = inbox,
               \/ events' = Tail(events)
               \/ \E e : e \notin Status /\ (\A c \in Conn : e # MainOf(c))
                         /\ events' = Append(Tail(events), e),
               \A c \in Conn : Fresh(c)' => Fresh(c) /\ Head(events) \notin From(c)
        PROVE  Published'
    <2> DEFINE t == Tail(events)
    <2>1. t \in Seq(Status \cup Change)
      BY <1>1, <1>7, HeadAndTail
    <2>2. /\ \A m : In(m, t) => In(m, events)
          /\ \A c \in Conn : Before(MainOf(c), From(c), t)
      BY <1>1, <1>7, InTail, BeforeTail DEF Published
    <2>3. \A C : Has(events, C) /\ Head(events) \notin C => Has(t, C)
      BY <1>1, <1>7, HasTail
    <2> HIDE DEF t
    <2>4. /\ \A m \in Status : In(m, events') => In(m, events)
          /\ \A c \in Conn : Before(MainOf(c), From(c), events')
          /\ \A C : Has(t, C) => Has(events', C)
      <3>1. CASE events' = t
        BY <2>2, <3>1
      <3>2. ASSUME NEW e, e \notin Status, \A c \in Conn : e # MainOf(c),
                   events' = Append(t, e)
            PROVE  /\ \A m \in Status : In(m, events') => In(m, events)
                   /\ \A c \in Conn : Before(MainOf(c), From(c), events')
                   /\ \A C : Has(t, C) => Has(events', C)
        BY <2>1, <2>2, <3>2, InAppend, BeforeAppend, HasAppend
      <3> QED
        BY <1>7, <3>1, <3>2 DEF t
    <2>5. ASSUME NEW c \in Conn, NEW p \in Port, Fresh(c)', Has(inbox, About(c, p))
          PROVE  Has(events', About(c, p))
      BY <1>7, <2>3, <2>4, <2>5, FromForms DEF Published
    <2> QED
      BY <1>2, <1>3, <1>7, <2>4, <2>5 DEF Published
  <1>8. ASSUME NEW c \in Conn, ReceivePorts(c) \/ Lost(c) PROVE Published'
    <2>1. PICK e : e = IF ReceivePorts(c) THEN MainOf(c) ELSE DeadOf(c)
      OBVIOUS
    <2>2. /\ events' = Append(events, e) /\ inbox' = inbox /\ registering' = registering
          /\ e = MainOf(c) => phase[c] = "new"
      BY <1>8, <2>1, EventsDiffer DEF ReceivePorts, Lost, MainOf, DeadOf, setVars
    <2>3. e \notin Status /\ \A b \in Conn : e = MainOf(b) => b = c
      BY <2>1, EventsDiffer
    <2> QED
      BY <1>5, <2>2, <2>3
  <1>9. CASE RegisterNew
    <2>1. PICK c \in Conn : /\ events # <<>> /\ Head(events) = MainOf(c)
                            /\ events' = Tail(events) /\ inbox' = inbox
                            /\ registering'.conn = c
      BY <1>1, <1>9, Taken DEF RegisterNew, dpVars
    <2>2. \A m : In(m, events) <=> m = Head(events) \/ In(m, events')
      BY <1>1, <2>1, AfterTake
    <2>3. \A b \in Conn : Fresh(b)' => Fresh(b) /\ Head(events) \notin From(b)
      BY <2>1, <2>2, FromForms DEF Fresh
    <2> QED
      BY <1>7, <2>1, <2>3
  <1>10. CASE RegisterAgain
    <2>1. PICK c, old \in Conn :
             /\ events # <<>> /\ Head(events) = MainOf(c) /\ inbox' = inbox
             /\ registering' = registering
             /\ events' = Tail(events) \/ events' = Append(Tail(events), DeadOf(old))
      <3>1. /\ Head(events).conn \in Conn /\ events # <<>>
            /\ Head(events) = MainOf(Head(events).conn)
            /\ dps[dpid[Head(events).conn]] # None
        BY <1>1, <1>10, Taken DEF RegisterAgain
      <3>2. dps[dpid[Head(events).conn]] \in Conn
        BY <3>1, DPSetAssumption DEF SInv, TypeOK
      <3>3. /\ inbox' = inbox /\ registering' = registering
            /\ \/ events' = Tail(events)
               \/ events' = Append(Tail(events), DeadOf(dps[dpid[Head(events).conn]]))
        BY <1>10 DEF RegisterAgain, DeadOf
      <3> QED
        BY <3>1, <3>2, <3>3
    <2>2. DeadOf(old) \notin Status /\ \A b \in Conn : DeadOf(old) # MainOf(b)
      BY EventsDiffer
    <2>3. \A b \in Conn : In(MainOf(b), events') => In(MainOf(b), events)
      <3>1. /\ Tail(events) \in Seq(Status \cup Change)
            /\ \A m : In(m, Tail(events)) => In(m, events)
        BY <1>1, <2>1, InTail, HeadAndTail
      <3>2. \A m : In(m, Append(Tail(events), DeadOf(old))) =>
                    In(m, Tail(events)) \/ m = DeadOf(old)
        BY <3>1, InAppend
      <3> QED
        BY <2>1, <2>2, <3>1, <3>2
    <2>4. \A b \in Conn : Fresh(b)' => Fresh(b) /\ Head(events) \notin From(b)
      BY <2>1, <2>3, FromForms DEF Fresh
    <2> QED
      BY <1>7, <2>1, <2>2, <2>4
  <1>11. CASE Unregister
    <2>1. PICK c \in Conn : /\ events # <<>> /\ Head(events) = DeadOf(c)
                            /\ events' = Tail(events) /\ inbox' = inbox
                            /\ registering' = registering
      BY <1>1, <1>11, Taken DEF Unregister, dpVars
    <2>2. \A m : In(m, events') => In(m, events)
      BY <1>1, <2>1, AfterTake
    <2>3. \A b \in Conn : Fresh(b)' => Fresh(b) /\ Head(events) \notin From(b)
      BY <2>1, <2>2, FromForms DEF Fresh
    <2> QED
      BY <1>7, <2>1, <2>3
  <1>12. CASE TrackStatus
    <2>1. /\ events # <<>> /\ events' = Tail(events) /\ inbox' = inbox
          /\ registering = None /\ registering' = registering
      BY <1>1, <1>12, Taken DEF TrackStatus, dpVars
    <2>2. \A m : In(m, events') => In(m, events)
      BY <1>1, <2>1, AfterTake
    <2>3. \A b \in Conn : Head(events) \in From(b) => ~In(MainOf(b), events)
      BY <1>1, <2>1, BeforeTail DEF Published
    <2>4. \A b \in Conn : Fresh(b)' => Fresh(b) /\ Head(events) \notin From(b)
      BY <2>1, <2>2, <2>3 DEF Fresh
    <2> QED
      BY <1>7, <2>1, <2>4
  <1>13. CASE TrackPort
    <2>1. /\ inbox # <<>> /\ inbox' = Tail(inbox) /\ events' = events
          /\ registering' = registering
      BY <1>13 DEF TrackPort, setVars
    <2>2. /\ \A m : In(m, inbox') => In(m, inbox)
          /\ \A C : Has(inbox', C) => Has(inbox, C)
      BY <1>1, <2>1, InTail, HasTail
    <2> QED
      BY <1>2, <1>3, <2>1, <2>2 DEF Published, Fresh
  <1>14. CASE CopyPort
    <2>1. /\ registering # None /\ registering \in Call
          /\ \E ps : registering' = [registering EXCEPT !.copied = ps]
          /\ events' = events /\ inbox' = inbox
      BY <1>1, <1>14 DEF CopyPort, TypeOK, dpVars
    <2>2. registering'.conn = registering.conn
      BY <2>1 DEF Call
    <2> QED
      BY <1>4, <2>1, <2>2
  <1>15. CASE RegisterDone \/ RegisterFails
    BY <1>4, <1>15 DEF RegisterDone, RegisterFails, dpVars
  <1>16. CASE \/ \E c \in Conn : Connect(c) \/ ReceiveStatus(c)
              \/ \E d \in DpId, p \in Port, r \in {"ADD", "DELETE", "MODIFY"} :
                   PortChange(d, r, p)
    <2>1. UNCHANGED <<events, inbox, registering>>
      BY <1>16 DEF Connect, ReceiveStatus, PortChange, dpVars, setVars
    <2> QED
      BY <1>4, <2>1
  <1> QED
    BY <1>6, <1>8, <1>9, <1>10, <1>11, <1>12, <1>13, <1>14, <1>15, <1>16
    DEF Next, Dispatch

\* Every step keeps what was copied there, or has a status about it on the way.
LEMMA CopiedIsThereStep ==
  ASSUME SInv, Delivering, Published, CopiedIsThere, Next PROVE CopiedIsThere'
  <1>1. /\ phase \in [Conn -> {"new", "MAIN", "DEAD", "failed"}]
        /\ hand \in [Conn -> Status \cup {None}] /\ inbox \in Seq(Status)
        /\ events \in Seq(Status \cup Change) /\ TypeOK
        /\ ports \in [Conn -> SUBSET Port] /\ registering \in Call \cup {None}
    BY DEF SInv, TypeOK
  <1>2. ASSUME registering # None, registering' = registering,
               \A p \in Port : Has(events, About(registering.conn, p)) =>
                                 Has(events', About(registering.conn, p)),
               \A p \in Port : \/ p \in ports[registering.conn] => p \in ports'[registering.conn]
                               \/ Has(events, About(registering.conn, p))
        PROVE  CopiedIsThere'
    <2>1. registering.copied \subseteq Port
      BY <1>1, <1>2 DEF Call
    <2> QED
      BY <1>2, <2>1 DEF CopiedIsThere
  <1>3. CASE registering = None /\ registering' = registering
    BY <1>3 DEF CopiedIsThere
  <1>4. ASSUME NEW e, events' = Append(events, e), registering' = registering,
               registering # None => ports'[registering.conn] = ports[registering.conn]
        PROVE  CopiedIsThere'
    <2>1. \A C : Has(events, C) => Has(events', C)
      BY <1>1, <1>4, HasAppend
    <2> QED
      BY <1>2, <1>3, <1>4, <2>1
  <1>5. ASSUME NEW c \in Conn, ReceivePorts(c) \/ PublishStatus(c) \/ Lost(c)
        PROVE  CopiedIsThere'
    <2>1. ASSUME registering # None
          PROVE  registering.conn \in Conn /\ phase[registering.conn] \in {"MAIN", "DEAD"}
      <3>1. registering.conn \in Conn /\ dps[dpid[registering.conn]] = registering.conn
        BY <1>1, <2>1 DEF SInv, Copying, Call
      <3>2. dpid[registering.conn] \in DpId
        BY <3>1, DPSetAssumption
      <3> QED
        BY <3>1, <3>2 DEF SInv, Held, Known
    <2>2. registering # None => ports'[registering.conn] = ports[registering.conn]
      BY <1>1, <1>5, <2>1 DEF ReceivePorts, PublishStatus, Lost
    <2>3. registering' = registering /\ \E e : events' = Append(events, e)
      BY <1>5 DEF ReceivePorts, PublishStatus, Lost, setVars
    <2> QED
      BY <1>4, <2>2, <2>3
  <1>6. CASE TrackPort
    <2>1. PICK m : m = Head(inbox)
      OBVIOUS
    <2>2. /\ inbox # <<>> /\ events' = events /\ registering' = registering
          /\ ports' = [ports EXCEPT ![m.conn] = IF m.reason = "DELETE"
                                          THEN @ \ {m.port} ELSE @ \cup {m.port}]
      BY <1>6, <2>1 DEF TrackPort, setVars
    <2>3. m \in Status /\ m.conn \in Conn /\ m.port \in Port /\ m \in About(m.conn, m.port)
      BY <1>1, <2>1, <2>2, HeadAndTail, EventForms, FromForms
    <2>4. Has(inbox, About(m.conn, m.port))
      BY <1>1, <2>1, <2>2, <2>3, HasTail
    <2>5. ASSUME registering # None
          PROVE  /\ registering.conn \in Conn
                 /\ \A p \in Port :
                      \/ p \in ports[registering.conn] => p \in ports'[registering.conn]
                      \/ Has(events, About(registering.conn, p))
      <3>1. registering.conn \in Conn
        BY <1>1, <2>5 DEF Call
      <3>2. m.conn = registering.conn => Has(events, About(registering.conn, m.port))
        BY <2>3, <2>4, <2>5 DEF Published, Fresh
      <3>3. ASSUME NEW p \in Port, p # m.port \/ m.conn # registering.conn,
                   p \in ports[registering.conn]
            PROVE  p \in ports'[registering.conn]
        BY <1>1, <2>2, <2>3, <3>1, <3>3
      <3> QED
        BY <3>1, <3>2, <3>3
    <2> QED
      BY <1>2, <1>3, <2>2, <2>5
  <1>7. CASE RegisterNew
    BY <1>7 DEF RegisterNew, CopiedIsThere
  <1>8. CASE CopyPort
    <2>1. registering \in Call /\ registering # None
      BY <1>1, <1>8 DEF CopyPort
    <2>2. PICK p \in ports[registering.conn] :
             /\ registering' = [registering EXCEPT !.copied = @ \cup {p}]
             /\ events' = events /\ ports' = ports
      BY <1>8 DEF CopyPort, dpVars
    <2>3. /\ registering'.conn = registering.conn
          /\ registering'.copied = registering.copied \cup {p}
      BY <2>1, <2>2 DEF Call
    <2> QED
      BY <2>1, <2>2, <2>3 DEF CopiedIsThere
  <1>9. CASE RegisterDone \/ RegisterFails
    BY <1>9 DEF RegisterDone, RegisterFails, CopiedIsThere
  <1>10. CASE RegisterAgain \/ Unregister \/ TrackStatus
    BY <1>3, <1>10 DEF RegisterAgain, Unregister, TrackStatus, Take
  <1>11. CASE \/ \E c \in Conn : Connect(c) \/ ReceiveStatus(c)
              \/ \E d \in DpId, p \in Port, r \in {"ADD", "DELETE", "MODIFY"} :
                   PortChange(d, r, p)
    <2>1. UNCHANGED <<events, ports, registering>>
      BY <1>11 DEF Connect, ReceiveStatus, PortChange, dpVars, setVars
    <2> QED
      BY <1>2, <1>3, <2>1
  <1> QED
    BY <1>5, <1>6, <1>7, <1>8, <1>9, <1>10, <1>11 DEF Next, Dispatch

\* Every step keeps what is behind a port description on its way.
LEMMA DescribedStep ==
  ASSUME SInv, Delivering, Described, Next PROVE Described'
  <1>1. /\ phase \in [Conn -> {"new", "MAIN", "DEAD", "failed"}]
        /\ net \in [Conn -> Seq(Status \cup [ev : {"PORTS"}, body : SUBSET Port])]
        /\ newest \in [DpId -> Conn \cup {None}] /\ sw \in [DpId -> SUBSET Port]
        /\ dpid \in [Conn -> DpId] /\ None \notin Conn
    BY DPSetAssumption DEF SInv, TypeOK
  <1> SUFFICES ASSUME NEW c \in Conn, NEW p \in Port,
                      newest'[dpid[c]] = c, phase'[c] = "new"
               PROVE  Leads(c, p, Tail(net'[c]), None, <<>>, Head(net'[c]).body,
                            sw'[dpid[c]])
    BY DEF Described
  <1>2. phase[c] = "new"
    BY PhaseForward
  <1>3. newest[dpid[c]] = c =>
          /\ Leads(c, p, Tail(net[c]), None, <<>>, Head(net[c]).body, sw[dpid[c]])
          /\ net[c] # <<>> /\ Tail(net[c]) \in Seq(From(c))
    BY <1>2 DEF Described, Delivering
  <1>4. CASE newest' = newest /\ net'[c] = net[c] /\ sw' = sw
    BY <1>3, <1>4
  <1>5. ASSUME NEW b \in Conn, Connect(b)
        PROVE  Leads(c, p, Tail(net'[c]), None, <<>>, Head(net'[c]).body, sw'[dpid[c]])
    <2>1. /\ newest' = [newest EXCEPT ![dpid[b]] = b] /\ sw' = sw
          /\ net' = [net EXCEPT ![b] = <<[ev |-> "PORTS", body |-> sw[dpid[b]]]>>]
      BY <1>5 DEF Connect
    <2>2. CASE b = c
      <3>1. Tail(net'[c]) = <<>> /\ Head(net'[c]).body = sw'[dpid[c]]
        BY <1>1, <2>1, <2>2
      <3>2. \A C, D : ~Has(<<>>, C) /\ LastIn(<<>>, C, D)
        BY DEF Has, LastIn
      <3>3. None \notin About(c, p)
        BY FromForms
      <3>4. ASSUME NEW real PROVE Leads(c, p, <<>>, None, <<>>, real, real)
        BY <3>2, <3>3 DEF Leads
      <3> QED
        BY <3>1, <3>4
    <2>3. CASE b # c
      BY <1>1, <1>3, <2>1, <2>3
    <2> QED
      BY <2>2, <2>3
  <1>6. ASSUME NEW d \in DpId, NEW q \in Port, NEW r \in {"ADD", "DELETE", "MODIFY"},
               PortChange(d, r, q)
        PROVE  Leads(c, p, Tail(net'[c]), None, <<>>, Head(net'[c]).body, sw'[dpid[c]])
    <2>1. newest[dpid[c]] = c
      BY <1>6 DEF PortChange
    <2>2. CASE dpid[c] = d
      <3>1. PICK m \in From(c) : Reports(c, m)
        BY <1>2, <1>6, <2>1, <2>2, Reported
      <3>2. /\ Tail(net'[c]) = Append(Tail(net[c]), m)
            /\ Head(net'[c]) = Head(net[c])
        BY <1>1, <1>3, <2>1, <3>1, AppendHead DEF Reports
      <3>3. Leads(c, p, Append(Tail(net[c]), m), None, <<>>, Head(net[c]).body,
                  IF m.reason = "DELETE" THEN sw[dpid[c]] \ {m.port}
                                         ELSE sw[dpid[c]] \cup {m.port})
        BY <1>3, <2>1, LeadsSend
      <3> QED
        BY <3>1, <3>2, <3>3 DEF Reports
    <2>3. CASE dpid[c] # d
      <3>1. net'[c] = net[c] /\ sw'[dpid[c]] = sw[dpid[c]]
        BY <1>6, <2>3, Reported
      <3> QED
        BY <1>3, <2>1, <3>1
    <2> QED
      BY <2>2, <2>3
  <1>7. ASSUME NEW b \in Conn, ReceivePorts(b) \/ ReceiveStatus(b) \/ Lost(b)
        PROVE  newest' = newest /\ net'[c] = net[c] /\ sw' = sw
    <2>1. b # c
      BY <1>1, <1>2, <1>7 DEF ReceivePorts, ReceiveStatus, Lost
    <2> QED
      BY <1>1, <1>7, <2>1 DEF ReceivePorts, ReceiveStatus, Lost
  <1>8. CASE Dispatch \/ TrackPort \/ \E b \in Conn : PublishStatus(b)
    <2>1. UNCHANGED swVars
      BY <1>8 DEF Dispatch, RegisterNew, CopyPort, RegisterDone, RegisterFails,
         RegisterAgain, Unregister, TrackStatus, TrackPort, PublishStatus
    <2> QED
      BY <1>4, <2>1 DEF swVars
  <1> QED
    BY <1>4, <1>5, <1>6, <1>7, <1>8 DEF Next

\* Every step keeps what is behind Datapath.ports on its way.
LEMMA MirroredStep ==
  ASSUME SInv, Delivering, Published, Described, Mirrored, Next PROVE Mirrored'
  <1>1. /\ phase \in [Conn -> {"new", "MAIN", "DEAD", "failed"}]
        /\ net \in [Conn -> Seq(Status \cup [ev : {"PORTS"}, body : SUBSET Port])]
        /\ newest \in [DpId -> Conn \cup {None}] /\ sw \in [DpId -> SUBSET Port]
        /\ hand \in [Conn -> Status \cup {None}] /\ inbox \in Seq(Status)
        /\ ports \in [Conn -> SUBSET Port]
        /\ dpid \in [Conn -> DpId] /\ None \notin Conn
    BY DPSetAssumption DEF SInv, TypeOK
  <1> SUFFICES ASSUME NEW c \in Conn, NEW p \in Port,
                      newest'[dpid[c]] = c, phase'[c] = "MAIN"
               PROVE  Leads(c, p, net'[c], hand'[c], inbox', ports'[c], sw'[dpid[c]])
    BY DEF Mirrored
  <1>2. phase[c] \in {"new", "MAIN"}
    BY PhaseForward
  <1>3. newest[dpid[c]] = c /\ phase[c] = "MAIN" =>
          Leads(c, p, net[c], hand[c], inbox, ports[c], sw[dpid[c]])
    BY DEF Mirrored
  <1>4. ASSUME NEW b \in Conn, Connect(b)
        PROVE  Leads(c, p, net'[c], hand'[c], inbox', ports'[c], sw'[dpid[c]])
    <2>1. /\ newest' = [newest EXCEPT ![dpid[b]] = b] /\ sw' = sw
          /\ phase[b] = "new" /\ UNCHANGED <<phase, ports, hand, inbox>>
          /\ net' = [net EXCEPT ![b] = <<[ev |-> "PORTS", body |-> sw[dpid[b]]]>>]
      BY <1>4 DEF Connect, dpVars
    <2>2. b # c
      BY <2>1
    <2> QED
      BY <1>1, <1>3, <2>1, <2>2
  <1>5. ASSUME NEW d \in DpId, NEW q \in Port, NEW r \in {"ADD", "DELETE", "MODIFY"},
               PortChange(d, r, q)
        PROVE  Leads(c, p, net'[c], hand'[c], inbox', ports'[c], sw'[dpid[c]])
    <2>1. newest[dpid[c]] = c /\ UNCHANGED <<phase, ports, hand, inbox>>
      BY <1>5 DEF PortChange, dpVars
    <2>2. CASE dpid[c] = d
      <3>1. PICK m \in From(c) : Reports(c, m)
        BY <1>2, <1>5, <2>1, <2>2, Reported
      <3>2. Leads(c, p, Append(net[c], m), hand[c], inbox, ports[c],
                  IF m.reason = "DELETE" THEN sw[dpid[c]] \ {m.port}
                                         ELSE sw[dpid[c]] \cup {m.port})
        BY <1>1, <1>3, <2>1, LeadsSend
      <3> QED
        BY <2>1, <3>1, <3>2 DEF Reports
    <2>3. CASE dpid[c] # d
      <3>1. net'[c] = net[c] /\ sw'[dpid[c]] = sw[dpid[c]]
        BY <1>5, <2>3, Reported
      <3> QED
        BY <1>3, <2>1, <3>1
    <2> QED
      BY <2>2, <2>3
  <1>6. ASSUME NEW b \in Conn, ReceivePorts(b)
        PROVE  Leads(c, p, net'[c], hand'[c], inbox', ports'[c], sw'[dpid[c]])
    <2>1. /\ net[b] # <<>> /\ phase[b] = "new" /\ UNCHANGED <<newest, sw, hand, inbox>>
          /\ net' = [net EXCEPT ![b] = Tail(@)]
          /\ phase' = [phase EXCEPT ![b] = "MAIN"]
          /\ ports' = [ports EXCEPT ![b] = Head(net[b]).body]
      BY <1>6 DEF ReceivePorts
    <2>2. CASE b = c
      <3>1. Leads(c, p, Tail(net[c]), None, <<>>, Head(net[c]).body, sw[dpid[c]])
        BY <2>1, <2>2 DEF Described
      <3>2. hand[c] = None /\ None \notin About(c, p)
        BY <2>1, <2>2, FromForms DEF Delivering
      <3>3. ~Has(inbox, About(c, p))
        <4>1. \A m \in About(c, p) : m \in Status /\ m.conn = c
          BY DEF About, From
        <4>2. \A m \in About(c, p) : ~In(m, inbox)
          BY <2>1, <2>2, <4>1 DEF Published
        <4> QED
          BY <4>2 DEF Has, In
      <3>4. Leads(c, p, Tail(net[c]), None, inbox, Head(net[c]).body, sw[dpid[c]])
        BY <3>1, <3>2, <3>3, LeadsQueue
      <3> QED
        BY <1>1, <2>1, <2>2, <3>2, <3>4
    <2>3. CASE b # c
      BY <1>1, <1>3, <2>1, <2>3
    <2> QED
      BY <2>2, <2>3
  <1>7. ASSUME NEW b \in Conn, ReceiveStatus(b)
        PROVE  Leads(c, p, net'[c], hand'[c], inbox', ports'[c], sw'[dpid[c]])
    <2>1. /\ net[b] # <<>> /\ hand[b] = None /\ UNCHANGED <<newest, sw, phase, inbox, ports>>
          /\ net' = [net EXCEPT ![b] = Tail(@)]
          /\ hand' = [hand EXCEPT ![b] = Head(net[b])]
      BY <1>7 DEF ReceiveStatus
    <2>2. CASE b = c
      <3>1. None \notin About(c, p)
        BY FromForms
      <3>2. Leads(c, p, Tail(net[c]), Head(net[c]), inbox, ports[c], sw[dpid[c]])
        BY <1>1, <1>3, <2>1, <2>2, <3>1, LeadsReceive
      <3> QED
        BY <1>1, <2>1, <2>2, <3>2
    <2>3. CASE b # c
      BY <1>1, <1>3, <2>1, <2>3
    <2> QED
      BY <2>2, <2>3
  <1>8. ASSUME NEW b \in Conn, PublishStatus(b)
        PROVE  Leads(c, p, net'[c], hand'[c], inbox', ports'[c], sw'[dpid[c]])
    <2>1. /\ hand[b] # None /\ hand' = [hand EXCEPT ![b] = None]
          /\ inbox' = Append(inbox, hand[b])
          /\ UNCHANGED <<newest, sw, net, phase, ports>>
      BY <1>8 DEF PublishStatus, swVars
    <2>2. CASE b = c
      <3>1. None \notin About(c, p)
        BY FromForms
      <3>2. Leads(c, p, net[c], None, Append(inbox, hand[c]), ports[c], sw[dpid[c]])
        BY <1>1, <1>3, <2>1, <3>1, LeadsPut
      <3> QED
        BY <1>1, <2>1, <2>2, <3>2
    <2>3. CASE b # c
      <3>1. hand[b] \notin About(c, p)
        BY <2>1, <2>3, FromForms DEF Delivering
      <3>2. Leads(c, p, net[c], hand[c], Append(inbox, hand[b]), ports[c], sw[dpid[c]])
        BY <1>1, <1>3, <2>1, <3>1, LeadsPut
      <3> QED
        BY <1>1, <2>1, <2>3, <3>2
    <2> QED
      BY <2>2, <2>3
  <1>9. ASSUME NEW b \in Conn, Lost(b)
        PROVE  Leads(c, p, net'[c], hand'[c], inbox', ports'[c], sw'[dpid[c]])
    <2>1. /\ UNCHANGED <<newest, sw, hand, ports, inbox>>
          /\ net' = [net EXCEPT ![b] = <<>>]
          /\ phase' = [phase EXCEPT ![b] = IF @ = "MAIN" THEN "DEAD" ELSE "failed"]
      BY <1>9 DEF Lost
    <2>2. b # c
      BY <1>1, <2>1
    <2> QED
      BY <1>1, <1>3, <2>1, <2>2
  <1>10. CASE TrackPort
    <2>1. PICK m : m = Head(inbox)
      OBVIOUS
    <2>2. /\ inbox # <<>> /\ inbox' = Tail(inbox) /\ UNCHANGED <<newest, sw, net, phase, hand>>
          /\ ports' = [ports EXCEPT ![m.conn] = IF m.reason = "DELETE"
                                          THEN @ \ {m.port} ELSE @ \cup {m.port}]
      BY <1>10, <2>1 DEF TrackPort, swVars
    <2>3. m \in Status /\ m.conn \in Conn /\ m \in About(m.conn, m.port)
      BY <1>1, <2>1, <2>2, HeadAndTail, EventForms, FromForms
    <2>4. m \in About(c, p) => (p \in ports'[c] <=> m.reason # "DELETE")
      BY <1>1, <2>2, <2>3 DEF About, From
    <2>5. m \notin About(c, p) => (p \in ports'[c] <=> p \in ports[c])
      BY <1>1, <2>2, <2>3
    <2>6. Leads(c, p, net[c], hand[c], Tail(inbox), ports'[c], sw[dpid[c]])
      BY <1>1, <1>3, <2>1, <2>2, <2>4, <2>5, LeadsTake
    <2> QED
      BY <2>2, <2>6
  <1>11. CASE RegisterAgain
    <2>1. PICK old \in Conn : Known(old) /\ phase' = [phase EXCEPT ![old] = "DEAD"]
      BY <1>11, KnownByAgain
    <2>2. old # c
      BY <1>1, <2>1
    <2>3. UNCHANGED <<newest, sw, net, hand, inbox, ports>>
      BY <1>11 DEF RegisterAgain, swVars
    <2> QED
      BY <1>1, <1>3, <2>1, <2>2, <2>3
  <1>12. CASE RegisterNew \/ CopyPort \/ RegisterDone \/ RegisterFails \/ Unregister
              \/ TrackStatus
    <2>1. UNCHANGED <<newest, sw, net, hand, inbox, ports, phase>>
      BY <1>12 DEF RegisterNew, CopyPort, RegisterDone, RegisterFails, Unregister,
         TrackStatus, swVars, dpVars
    <2> QED
      BY <1>3, <2>1
  <1> QED
    BY <1>4, <1>5, <1>6, <1>7, <1>8, <1>9, <1>10, <1>11, <1>12 DEF Next, Dispatch

\* What Kept says of a port, if the connection is the only one.
Follows(c, p) == Leads(c, p, net[c], hand[c], events, Listed(c), sw[dpid[c]])

\* It said so before the step, too.
LEMMA KeptBefore ==
  ASSUME SInv, Kept, Next, NEW c \in Conn, NEW p \in Port, phase'[c] = "MAIN",
         Sole(c)', dpid[c] \notin raised'
  PROVE  /\ phase[c] \in {"new", "MAIN"} /\ Sole(c)
         /\ newest[dpid[c]] = c /\ phase[c] = "MAIN" => Follows(c, p)
  <1>1. phase[c] \in {"new", "MAIN"} /\ Sole(c)
    BY PhaseForward DEF Sole
  <1>2. raised \subseteq raised'
    <2>1. RegisterNew \/ CopyPort \/ RegisterDone \/ RegisterFails
            => raised \subseteq raised'
      BY DEF RegisterNew, CopyPort, RegisterDone, RegisterFails
    <2>2. RegisterAgain \/ Unregister \/ TrackStatus \/ TrackPort
            => raised \subseteq raised'
      BY DEF RegisterAgain, Unregister, TrackStatus, TrackPort, setVars
    <2>3. \A b \in Conn : Connect(b) \/ ReceivePorts(b) \/ ReceiveStatus(b)
            => raised \subseteq raised'
      BY DEF Connect, ReceivePorts, ReceiveStatus, setVars
    <2>4. \A b \in Conn : PublishStatus(b) \/ Lost(b) => raised \subseteq raised'
      BY DEF PublishStatus, Lost, setVars
    <2>5. \A d \in DpId, q \in Port, r \in {"ADD", "DELETE", "MODIFY"} :
            PortChange(d, r, q) => raised \subseteq raised'
      BY DEF PortChange, setVars
    <2> QED
      BY <2>1, <2>2, <2>3, <2>4, <2>5 DEF Next, Dispatch
  <1>3. newest[dpid[c]] = c /\ phase[c] = "MAIN" => Follows(c, p)
    BY <1>1, <1>2 DEF Kept, Follows
  <1> QED
    BY <1>1, <1>3

\* The switches, the receive threads and OFPHandler keep what is behind the
\* port state on its way.
LEMMA KeptByThreads ==
  ASSUME SInv, Delivering, Published, Described, Kept, Next, ~Dispatch,
         NEW c \in Conn, NEW p \in Port,
         newest'[dpid[c]] = c, phase'[c] = "MAIN", Sole(c)', dpid[c] \notin raised'
  PROVE  Follows(c, p)'
  <1>1. /\ phase \in [Conn -> {"new", "MAIN", "DEAD", "failed"}]
        /\ net \in [Conn -> Seq(Status \cup [ev : {"PORTS"}, body : SUBSET Port])]
        /\ newest \in [DpId -> Conn \cup {None}] /\ sw \in [DpId -> SUBSET Port]
        /\ hand \in [Conn -> Status \cup {None}] /\ inbox \in Seq(Status)
        /\ events \in Seq(Status \cup Change)
        /\ ports \in [Conn -> SUBSET Port]
        /\ dpid \in [Conn -> DpId] /\ None \notin Conn
    BY DPSetAssumption DEF SInv, TypeOK
  <1>2. /\ phase[c] \in {"new", "MAIN"}
        /\ newest[dpid[c]] = c /\ phase[c] = "MAIN" =>
             Leads(c, p, net[c], hand[c], events, Listed(c), sw[dpid[c]])
    BY KeptBefore DEF Follows
  <1>3. None \notin About(c, p)
    BY FromForms
  <1>4. ASSUME events' = events, UNCHANGED setVars, ports' = ports
        PROVE  Listed(c)' = Listed(c)
    BY <1>4 DEF Listed, Fresh, setVars
  <1>5. ASSUME NEW e, events' = Append(events, e), UNCHANGED setVars,
               ports'[c] = ports[c], e # MainOf(c), e \notin About(c, p)
        PROVE  /\ Listed(c)' = Listed(c)
               /\ newest[dpid[c]] = c /\ phase[c] = "MAIN" =>
                    Leads(c, p, net[c], hand[c], events', Listed(c)', sw[dpid[c]])
    <2>1. Listed(c)' = Listed(c)
      BY <1>1, <1>5, AfterPut DEF Listed, Fresh, setVars
    <2> QED
      BY <1>1, <1>2, <1>5, <2>1, LeadsPut
  <1>6. ASSUME NEW b \in Conn, Connect(b) PROVE Follows(c, p)'
    <2>1. /\ newest' = [newest EXCEPT ![dpid[b]] = b] /\ sw' = sw
          /\ phase[b] = "new" /\ UNCHANGED <<phase, ports, hand, events, setVars>>
          /\ net' = [net EXCEPT ![b] = <<[ev |-> "PORTS", body |-> sw[dpid[b]]]>>]
      BY <1>6 DEF Connect, dpVars
    <2>2. b # c
      BY <2>1
    <2> QED
      BY <1>1, <1>2, <1>4, <2>1, <2>2 DEF Follows
  <1>7. ASSUME NEW d \in DpId, NEW q \in Port, NEW r \in {"ADD", "DELETE", "MODIFY"},
               PortChange(d, r, q)
        PROVE  Follows(c, p)'
    <2>1. newest[dpid[c]] = c /\ UNCHANGED <<phase, ports, hand, events, setVars>>
      BY <1>7 DEF PortChange, dpVars
    <2>2. Listed(c)' = Listed(c)
      BY <1>4, <2>1
    <2>3. CASE dpid[c] = d
      <3>1. PICK m \in From(c) : Reports(c, m)
        BY <1>2, <1>7, <2>1, <2>3, Reported
      <3>2. Leads(c, p, Append(net[c], m), hand[c], events, Listed(c),
                  IF m.reason = "DELETE" THEN sw[dpid[c]] \ {m.port}
                                         ELSE sw[dpid[c]] \cup {m.port})
        BY <1>1, <1>2, <2>1, LeadsSend
      <3> QED
        BY <2>1, <2>2, <3>1, <3>2 DEF Reports, Follows
    <2>4. CASE dpid[c] # d
      <3>1. net'[c] = net[c] /\ sw'[dpid[c]] = sw[dpid[c]]
        BY <1>7, <2>4, Reported
      <3> QED
        BY <1>2, <2>1, <2>2, <3>1 DEF Follows
    <2> QED
      BY <2>3, <2>4
  <1>8. ASSUME NEW b \in Conn, ReceivePorts(b) PROVE Follows(c, p)'
    <2>1. /\ net[b] # <<>> /\ phase[b] = "new" /\ UNCHANGED <<newest, sw, hand, setVars>>
          /\ net' = [net EXCEPT ![b] = Tail(@)]
          /\ phase' = [phase EXCEPT ![b] = "MAIN"]
          /\ ports' = [ports EXCEPT ![b] = Head(net[b]).body]
          /\ events' = Append(events, MainOf(b))
      BY <1>8 DEF ReceivePorts, MainOf
    <2>2. CASE b = c
      <3>1. Leads(c, p, Tail(net[c]), None, <<>>, Head(net[c]).body, sw[dpid[c]])
        BY <2>1, <2>2 DEF Described
      <3>2. hand[c] = None
        BY <2>1, <2>2 DEF Delivering
      <3>3. ~Has(events', About(c, p))
        <4>1. \A m \in About(c, p) : m \in Status /\ m.conn = c
          BY DEF About, From
        <4>2. \A m \in About(c, p) : ~In(m, events)
          BY <2>1, <2>2, <4>1 DEF Published
        <4>3. ~Has(events, About(c, p))
          BY <4>2 DEF Has, In
        <4>4. MainOf(b) \notin About(c, p)
          BY FromForms
        <4> QED
          BY <1>1, <2>1, <4>3, <4>4, HasAppend
      <3>4. Leads(c, p, Tail(net[c]), None, events', Head(net[c]).body, sw[dpid[c]])
        BY <1>3, <3>1, <3>3, LeadsQueue
      <3>5. Listed(c)' = ports'[c]
        BY <1>1, <2>1, <2>2, AfterPut DEF Listed, Fresh
      <3> QED
        BY <1>1, <2>1, <2>2, <3>2, <3>4, <3>5 DEF Follows
    <2>3. CASE b # c
      <3>1. MainOf(b) # MainOf(c) /\ MainOf(b) \notin About(c, p)
        BY <2>3, EventsDiffer, FromForms
      <3>2. /\ UNCHANGED <<newest, sw, hand>> /\ net'[c] = net[c]
            /\ phase[c] = "MAIN" /\ ports'[c] = ports[c]
        BY <1>1, <2>1, <2>3
      <3>3. Leads(c, p, net[c], hand[c], events', Listed(c)', sw[dpid[c]])
        BY <1>5, <2>1, <3>1, <3>2
      <3> QED
        BY <3>2, <3>3 DEF Follows
    <2> QED
      BY <2>2, <2>3
  <1>9. ASSUME NEW b \in Conn, ReceiveStatus(b) PROVE Follows(c, p)'
    <2>1. /\ net[b] # <<>> /\ hand[b] = None
          /\ UNCHANGED <<newest, sw, phase, ports, events, setVars>>
          /\ net' = [net EXCEPT ![b] = Tail(@)]
          /\ hand' = [hand EXCEPT ![b] = Head(net[b])]
      BY <1>9 DEF ReceiveStatus
    <2>2. Listed(c)' = Listed(c)
      BY <1>4, <2>1
    <2>3. CASE b = c
      <3>1. Leads(c, p, Tail(net[c]), Head(net[c]), events, Listed(c), sw[dpid[c]])
        BY <1>1, <1>2, <1>3, <2>1, <2>3, LeadsReceive
      <3> QED
        BY <1>1, <2>1, <2>2, <2>3, <3>1 DEF Follows
    <2>4. CASE b # c
      BY <1>1, <1>2, <2>1, <2>2, <2>4 DEF Follows
    <2> QED
      BY <2>3, <2>4
  <1>10. ASSUME NEW b \in Conn, PublishStatus(b) PROVE Follows(c, p)'
    <2>1. /\ hand[b] # None /\ hand' = [hand EXCEPT ![b] = None]
          /\ events' = Append(events, hand[b])
          /\ UNCHANGED <<newest, sw, net, phase, ports, setVars>>
      BY <1>10 DEF PublishStatus, swVars
    <2>2. CASE b = c
      <3>1. Leads(c, p, net[c], None, Append(events, hand[c]), Listed(c), sw[dpid[c]])
        BY <1>1, <1>2, <1>3, <2>1, LeadsPut
      <3>2. hand[c] # MainOf(c)
        BY <1>1, <2>1, <2>2, EventsDiffer
      <3>3. Listed(c)' = Listed(c)
        BY <1>1, <2>1, <2>2, <3>2, AfterPut DEF Listed, Fresh, setVars
      <3> QED
        BY <1>1, <2>1, <2>2, <3>1, <3>3 DEF Follows
    <2>3. CASE b # c
      <3>1. hand[b] \notin About(c, p) /\ hand[b] # MainOf(c)
        BY <1>1, <2>1, <2>3, FromForms, EventsDiffer DEF Delivering
      <3>2. Leads(c, p, net[c], hand[c], events', Listed(c)', sw[dpid[c]])
        BY <1>5, <2>1, <3>1
      <3> QED
        BY <1>1, <2>1, <2>3, <3>2 DEF Follows
    <2> QED
      BY <2>2, <2>3
  <1>11. ASSUME NEW b \in Conn, Lost(b) PROVE Follows(c, p)'
    <2>1. /\ UNCHANGED <<newest, sw, hand, ports, setVars>>
          /\ net' = [net EXCEPT ![b] = <<>>]
          /\ phase' = [phase EXCEPT ![b] = IF @ = "MAIN" THEN "DEAD" ELSE "failed"]
          /\ events' = Append(events, DeadOf(b))
      BY <1>11 DEF Lost, DeadOf
    <2>2. b # c /\ DeadOf(b) # MainOf(c) /\ DeadOf(b) \notin About(c, p)
      BY <1>1, <2>1, EventsDiffer, FromForms
    <2>3. net'[c] = net[c] /\ phase[c] = "MAIN"
      BY <1>1, <2>1, <2>2
    <2>4. Leads(c, p, net[c], hand[c], events', Listed(c)', sw[dpid[c]])
      BY <1>5, <2>1, <2>2, <2>3
    <2> QED
      BY <2>1, <2>3, <2>4 DEF Follows
  <1>12. CASE TrackPort
    <2>1. PICK m : m = Head(inbox)
      OBVIOUS
    <2>2. /\ inbox # <<>>
          /\ UNCHANGED <<newest, sw, net, phase, hand, events, setVars>>
          /\ ports' = [ports EXCEPT ![m.conn] = IF m.reason = "DELETE"
                                          THEN @ \ {m.port} ELSE @ \cup {m.port}]
      BY <1>12, <2>1 DEF TrackPort, swVars
    <2>3. m \in Status /\ m.conn \in Conn /\ m \in About(m.conn, m.port)
      BY <1>1, <2>1, <2>2, HeadAndTail, EventForms, FromForms
    <2>4. Leads(c, p, net[c], hand[c], events, Listed(c), sw[dpid[c]])
      BY <1>2, <2>2
    <2>5. Has(events, About(c, p)) \/ (p \in Listed(c)' <=> p \in Listed(c))
      <3>1. Fresh(c)' <=> Fresh(c)
        BY <2>2 DEF Fresh, setVars
      <3>2. CASE ~Fresh(c)
        BY <2>2, <3>1, <3>2 DEF Listed, setVars
      <3>3. CASE Fresh(c) /\ m.conn = c /\ m.port = p
        <4>1. Has(inbox, About(c, p))
          BY <1>1, <2>1, <2>2, <2>3, <3>3, HasTail
        <4> QED
          BY <3>3, <4>1 DEF Published
      <3>4. CASE Fresh(c) /\ ~(m.conn = c /\ m.port = p)
        <4>1. p \in ports'[c] <=> p \in ports[c]
          BY <1>1, <2>2, <2>3, <3>4
        <4> QED
          BY <3>1, <3>4, <4>1 DEF Listed
      <3> QED
        BY <3>2, <3>3, <3>4
    <2>6. Leads(c, p, net[c], hand[c], events, Listed(c)', sw[dpid[c]])
      BY <2>4, <2>5, LeadsList
    <2> QED
      BY <2>2, <2>6 DEF Follows
  <1> QED
    BY <1>6, <1>7, <1>8, <1>9, <1>10, <1>11, <1>12 DEF Next

\* And so does DPSet.
LEMMA KeptByDPSet ==
  ASSUME SInv, CopiedIsState, CopiedIsThere, Published, Kept, Dispatch,
         NEW c \in Conn, NEW p \in Port,
         newest'[dpid[c]] = c, phase'[c] = "MAIN", Sole(c)', dpid[c] \notin raised'
  PROVE  Follows(c, p)'
  <1>1. /\ phase \in [Conn -> {"new", "MAIN", "DEAD", "failed"}]
        /\ events \in Seq(Status \cup Change)
        /\ ports \in [Conn -> SUBSET Port]
        /\ registering \in Call \cup {None}
        /\ dps \in [DpId -> Conn \cup {None}]
        /\ portState \in [DpId -> (SUBSET Port) \cup {None}]
        /\ dpid \in [Conn -> DpId] /\ None \notin Conn
        /\ TypeOK /\ Announced /\ Held /\ Copying
    BY DPSetAssumption DEF SInv, TypeOK
  <1>2. UNCHANGED <<newest, sw, net, hand, ports, inbox>>
    <2>1. RegisterNew \/ CopyPort \/ RegisterDone \/ RegisterFails
            => UNCHANGED <<newest, sw, net, hand, ports, inbox>>
      BY DEF RegisterNew, CopyPort, RegisterDone, RegisterFails, swVars, dpVars
    <2>2. RegisterAgain \/ Unregister \/ TrackStatus
            => UNCHANGED <<newest, sw, net, hand, ports, inbox>>
      BY DEF RegisterAgain, Unregister, TrackStatus, swVars, dpVars
    <2> QED
      BY <2>1, <2>2 DEF Dispatch
  <1>3. phase[c] = "MAIN"
    <2>1. CASE RegisterAgain
      <3>1. PICK old \in Conn : phase' = [phase EXCEPT ![old] = "DEAD"]
        BY <2>1, KnownByAgain
      <3> QED
        BY <1>1, <3>1
    <2>2. CASE \/ RegisterNew \/ CopyPort \/ RegisterDone \/ RegisterFails
               \/ Unregister \/ TrackStatus
      BY <2>2 DEF RegisterNew, CopyPort, RegisterDone, RegisterFails, Unregister,
         TrackStatus, dpVars
    <2> QED
      BY <2>1, <2>2 DEF Dispatch
  <1>4. /\ Leads(c, p, net[c], hand[c], events, Listed(c), sw[dpid[c]])
        /\ \A b \in Conn : dpid[b] = dpid[c] /\ phase[b] \in {"MAIN", "DEAD"} => b = c
    BY <1>2, <1>3, KeptBefore DEF Next, Follows, Sole
  <1>5. /\ MainOf(c) \notin About(c, p)
        /\ \A b \in Conn : MainOf(b) \notin About(c, p) /\ DeadOf(b) \notin About(c, p)
    BY FromForms
  <1>6. ASSUME events # <<>>, events' = Tail(events), Head(events) \notin About(c, p),
               p \in Listed(c)' <=> p \in Listed(c)
        PROVE  Follows(c, p)'
    BY <1>1, <1>2, <1>4, <1>6, LeadsTake DEF Follows
  <1>7. registering # None =>
          /\ registering.conn \in Conn /\ Known(registering.conn)
          /\ dpid[registering.conn] = dpid[c] => registering.conn = c
    <2> SUFFICES ASSUME registering # None
                 PROVE  registering.conn \in Conn /\ Known(registering.conn)
      BY <1>4 DEF Known
    <2>1. registering.conn \in Conn /\ dps[dpid[registering.conn]] = registering.conn
      BY <1>1 DEF Copying, Call
    <2> QED
      BY <1>1, <2>1 DEF Held
  <1>8. CASE RegisterNew
    <2>1. PICK b \in Conn :
            /\ events # <<>> /\ Head(events) = MainOf(b) /\ events' = Tail(events)
            /\ registering = None /\ registering' # None /\ registering'.conn = b
            /\ portState' = [portState EXCEPT ![dpid[b]] = {}]
      <3>1. registering' # None
        <4>1. [conn |-> Head(events).conn, copied |-> {},
               size |-> Cardinality(ports[Head(events).conn])] \in Call
          BY <1>1, <1>8, Taken, PortsFinite DEF RegisterNew, Call
        <4> QED
          BY <1>8, <4>1, DPSetAssumption DEF RegisterNew
      <3> QED
        BY <1>1, <1>8, <3>1, Taken DEF RegisterNew
    <2>2. /\ \A m : In(m, events) <=> m = Head(events) \/ In(m, events')
          /\ phase[b] \in {"MAIN", "DEAD"}
      BY <1>1, <2>1, AfterTake DEF Announced
    <2>3. CASE b = c
      <3>1. Listed(c) = ports[c] /\ Listed(c)' = ports'[c]
        BY <2>1, <2>2, <2>3 DEF Listed, Fresh
      <3> QED
        BY <1>2, <1>5, <1>6, <2>1, <3>1
    <2>4. CASE b # c
      <3>1. dpid[b] # dpid[c] /\ (Fresh(c)' <=> Fresh(c))
        BY <1>4, <2>1, <2>2, <2>4, EventsDiffer DEF Fresh
      <3>2. Listed(c)' = Listed(c)
        BY <1>1, <1>2, <2>1, <3>1 DEF Listed
      <3> QED
        BY <1>5, <1>6, <2>1, <3>2
    <2> QED
      BY <2>3, <2>4
  <1>9. CASE CopyPort
    <2>1. PICK q \in ports[registering.conn] :
             /\ portState' = [portState EXCEPT ![dpid[registering.conn]] = @ \cup {q}]
             /\ registering' = [registering EXCEPT !.copied = @ \cup {q}]
             /\ registering # None /\ events' = events
      BY <1>9 DEF CopyPort
    <2>2. registering' \in Call /\ registering'.conn = registering.conn
      <3>1. registering \in Call /\ q \in Port
        BY <1>1, <1>7, <2>1
      <3> QED
        BY <2>1, <3>1 DEF Call
    <2>3. registering' # None
      BY <2>2, DPSetAssumption
    <2>4. Fresh(c)' <=> Fresh(c)
      BY <2>1, <2>2, <2>3 DEF Fresh
    <2>5. Listed(c)' = Listed(c)
      <3>1. CASE registering.conn = c
        BY <1>2, <2>1, <2>4, <3>1 DEF Listed, Fresh
      <3>2. CASE registering.conn # c
        BY <1>1, <1>2, <1>7, <2>1, <2>4, <3>2 DEF Listed
      <3> QED
        BY <3>1, <3>2
    <2> QED
      BY <1>2, <1>4, <2>1, <2>5 DEF Follows
  <1>10. CASE RegisterDone
    <2>1. /\ registering # None /\ registering' = None
          /\ ports[registering.conn] \subseteq registering.copied
          /\ events' = events /\ portState' = portState
      BY <1>10 DEF RegisterDone
    <2>2. CASE registering.conn = c
      <3>1. Listed(c) = ports[c]
        BY <2>1, <2>2 DEF Listed, Fresh
      <3>2. Listed(c)' = registering.copied
        BY <1>7, <2>1, <2>2 DEF Listed, Fresh, Known, CopiedIsState
      <3>3. Has(events, About(c, p)) \/ (p \in Listed(c)' <=> p \in Listed(c))
        BY <2>1, <2>2, <3>1, <3>2 DEF CopiedIsThere
      <3> QED
        BY <1>2, <1>4, <2>1, <3>3, LeadsList DEF Follows
    <2>3. CASE registering.conn # c
      <3>1. Listed(c)' = Listed(c)
        BY <1>2, <2>1, <2>3 DEF Listed, Fresh
      <3> QED
        BY <1>2, <1>4, <2>1, <3>1 DEF Follows
    <2> QED
      BY <2>2, <2>3
  <1>11. CASE RegisterFails
    <2>1. /\ registering # None /\ registering' = None
          /\ dpid[registering.conn] \in raised'
          /\ events' = events /\ portState' = portState
      BY <1>11 DEF RegisterFails
    <2>2. Listed(c)' = Listed(c)
      BY <1>2, <2>1 DEF Listed, Fresh
    <2> QED
      BY <1>2, <1>4, <2>1, <2>2 DEF Follows
  <1>12. CASE RegisterAgain
    <2>1. PICK b \in Conn, old \in Conn :
            /\ events # <<>> /\ Head(events) = MainOf(b) /\ old = dps[dpid[b]]
            /\ \/ events' = Tail(events)
               \/ events' = Append(Tail(events), DeadOf(old))
            /\ registering' = registering /\ portState' = portState
      <3>1. /\ Head(events).conn \in Conn /\ events # <<>>
            /\ Head(events) = MainOf(Head(events).conn)
        BY <1>1, <1>12, Taken DEF RegisterAgain
      <3>2. dps[dpid[Head(events).conn]] \in Conn
        BY <1>1, <1>12, <3>1 DEF RegisterAgain
      <3> QED
        BY <1>12, <3>1, <3>2 DEF RegisterAgain, DeadOf
    <2>2. In(MainOf(b), events)
      BY <1>1, <2>1, InTail
    <2>3. Known(old) /\ dpid[old] = dpid[b] /\ phase[b] \in {"MAIN", "DEAD"} /\ old # b
      BY <1>1, <2>1, <2>2 DEF Held, Known, Announced
    <2>4. dpid[b] # dpid[c] /\ b # c
      BY <1>4, <2>3 DEF Known
    <2>5. Tail(events) \in Seq(Status \cup Change)
      BY <1>1, <2>1, HeadAndTail
    <2>6. In(MainOf(c), events') <=> In(MainOf(c), events)
      <3>1. \A m : In(m, events) <=> m = Head(events) \/ In(m, Tail(events))
        BY <1>1, <2>1, InTail
      <3>2. \A m : In(m, Append(Tail(events), DeadOf(old)))
                     <=> In(m, Tail(events)) \/ m = DeadOf(old)
        BY <2>5, InAppend
      <3>3. MainOf(c) # DeadOf(old) /\ MainOf(c) # MainOf(b)
        BY <2>4, EventsDiffer
      <3> QED
        BY <2>1, <3>1, <3>2, <3>3
    <2>7. Listed(c)' = Listed(c)
      BY <1>2, <2>1, <2>6 DEF Listed, Fresh
    <2>8. Leads(c, p, net[c], hand[c], Tail(events), Listed(c), sw[dpid[c]])
      BY <1>1, <1>4, <1>5, <2>1, LeadsTake
    <2>9. Leads(c, p, net[c], hand[c], events', Listed(c), sw[dpid[c]])
      BY <1>5, <2>1, <2>5, <2>8, LeadsPut
    <2> QED
      BY <1>2, <2>7, <2>9 DEF Follows
  <1>13. CASE Unregister
    <2>1. PICK b \in Conn :
            /\ events # <<>> /\ Head(events) = DeadOf(b) /\ events' = Tail(events)
            /\ registering' = registering
            /\ IF \A e \in DpId : dps[e] # b THEN portState' = portState
               ELSE portState' = [portState EXCEPT ![dpid[b]] = None]
      BY <1>1, <1>13, Taken DEF Unregister
    <2>2. \A m : In(m, events) <=> m = Head(events) \/ In(m, events')
      BY <1>1, <2>1, AfterTake
    <2>3. Fresh(c)' <=> Fresh(c)
      BY <2>1, <2>2, EventsDiffer DEF Fresh
    <2>4. portState'[dpid[c]] = portState[dpid[c]]
      <3>1. CASE \A e \in DpId : dps[e] # b
        BY <2>1, <3>1
      <3>2. CASE ~\A e \in DpId : dps[e] # b
        <4>1. Known(b) /\ phase[b] \in {"DEAD", "failed"}
          BY <1>1, <2>1, <2>2, <3>2 DEF Held, Announced
        <4>2. dpid[b] # dpid[c]
          BY <1>3, <1>4, <4>1 DEF Known
        <4> QED
          BY <1>1, <2>1, <4>2
      <3> QED
        BY <3>1, <3>2
    <2>5. Listed(c)' = Listed(c)
      BY <1>2, <2>3, <2>4 DEF Listed
    <2> QED
      BY <1>5, <1>6, <2>1, <2>5
  <1>14. CASE TrackStatus
    <2>1. PICK m : m = Head(events)
      OBVIOUS
    <2>2. /\ m \in Status /\ m.conn \in Conn /\ m \in About(m.conn, m.port)
          /\ events # <<>> /\ events' = Tail(events)
          /\ registering = None /\ registering' = registering
      BY <1>1, <1>14, <2>1, Taken, EventForms, FromForms DEF TrackStatus
    <2>3. IF portState[dpid[m.conn]] = None
                \/ (m.reason = "DELETE" /\ m.port \notin portState[dpid[m.conn]])
          THEN portState' = portState
          ELSE portState' = [portState EXCEPT ![dpid[m.conn]] =
                                IF m.reason = "DELETE" THEN @ \ {m.port}
                                                       ELSE @ \cup {m.port}]
      BY <1>14, <2>1 DEF TrackStatus
    <2>4. /\ \A n : In(n, events) <=> n = m \/ In(n, events')
          /\ m \in From(c) => ~In(MainOf(c), events)
      BY <1>1, <2>1, <2>2, AfterTake, BeforeTail DEF Published
    <2>5. Fresh(c)' <=> Fresh(c)
      BY <2>2, <2>4, EventsDiffer DEF Fresh
    <2>6. CASE Fresh(c)
      <3>1. m \notin About(c, p)
        BY <2>2, <2>4, <2>6, FromForms DEF Fresh
      <3>2. Listed(c)' = Listed(c)
        BY <1>2, <2>5, <2>6 DEF Listed
      <3> QED
        BY <1>6, <2>1, <2>2, <3>1, <3>2
    <2>7. CASE ~Fresh(c)
      <3>1. /\ Listed(c) = portState[dpid[c]]
            /\ Listed(c)' = portState'[dpid[c]]
        BY <2>5, <2>7 DEF Listed
      <3>2. CASE dpid[m.conn] # dpid[c]
        <4>1. m \notin About(c, p) /\ portState'[dpid[c]] = portState[dpid[c]]
          BY <1>1, <2>2, <2>3, <3>2 DEF About, From
        <4> QED
          BY <1>6, <2>1, <2>2, <3>1, <4>1
      <3>3. CASE dpid[m.conn] = dpid[c]
        <4>1. m.conn = c
          BY <1>4, <2>2, <2>4, <3>3 DEF Published
        <4>2. portState[dpid[c]] # None
          <5>1. Known(c)
            BY <1>3, <2>7 DEF Known, Fresh
          <5> QED
            BY <1>1, <1>3, <5>1 DEF Held, Copying
        <4>3. m \in About(c, p) => (p \in portState'[dpid[c]] <=> m.reason # "DELETE")
          BY <1>1, <2>3, <4>1, <4>2 DEF About, From
        <4>4. m \notin About(c, p) => (p \in portState'[dpid[c]] <=> p \in portState[dpid[c]])
          BY <1>1, <2>2, <2>3, <4>1, <4>2
        <4> QED
          BY <1>1, <1>2, <1>4, <2>1, <2>2, <3>1, <4>3, <4>4, LeadsTake DEF Follows
      <3> QED
        BY <3>2, <3>3
    <2> QED
      BY <2>6, <2>7
  <1> QED
    BY <1>8, <1>9, <1>10, <1>11, <1>12, <1>13, <1>14 DEF Dispatch

\* Every step keeps what is behind the port state on its way.
LEMMA KeptStep ==
  ASSUME SInv, CopiedIsState, CopiedIsThere, Delivering, Published, Described,
         Kept, Next
  PROVE  Kept'
  <1> SUFFICES ASSUME NEW c \in Conn, NEW p \in Port,
                      newest'[dpid[c]] = c, phase'[c] = "MAIN",
                      Sole(c)', dpid[c] \notin raised'
               PROVE  Follows(c, p)'
    BY DEF Kept, Follows
  <1> QED
    BY KeptByThreads, KeptByDPSet

\* The invariant holds at the start.
LEMMA PInvInit == Init => PInv
  <1> SUFFICES ASSUME Init PROVE PInv
    OBVIOUS
  <1>1. SInv
    BY SInvInit
  <1>2. /\ \A c \in Conn : phase[c] = "new" /\ net[c] = <<>> /\ hand[c] = None
        /\ \A d \in DpId : newest[d] = None
        /\ events = <<>> /\ inbox = <<>> /\ registering = None
        /\ dpid \in [Conn -> DpId] /\ None \notin Conn
    BY DPSetAssumption DEF Init
  <1>3. CopiedIsState /\ CopiedIsThere
    BY <1>2 DEF CopiedIsState, CopiedIsThere
  <1>4. Delivering
    BY <1>2 DEF Delivering
  <1>5. Published
    BY <1>2 DEF Published, Fresh, In, Has, Before
  <1>6. Described
    BY <1>2 DEF Described
  <1>7. Mirrored /\ Kept
    BY <1>2 DEF Mirrored, Kept
  <1> QED
    BY <1>1, <1>3, <1>4, <1>5, <1>6, <1>7 DEF PInv

\* Every step keeps it.
LEMMA PInvStep == PInv /\ [Next]_vars => PInv'
  <1> SUFFICES ASSUME PInv, [Next]_vars PROVE PInv'
    OBVIOUS
  <1>1. SInv'
    BY SInvStep DEF PInv
  <1>2. CASE Next
    <2>1. CopiedIsState' /\ CopiedIsThere' /\ Delivering' /\ Published'
      BY <1>2, CopiedStep, CopiedIsThereStep, DeliveringStep, PublishedStep DEF PInv
    <2>2. Described' /\ Mirrored' /\ Kept'
      BY <1>2, DescribedStep, MirroredStep, KeptStep DEF PInv
    <2> QED
      BY <1>1, <2>1, <2>2 DEF PInv
  <1>3. CASE UNCHANGED vars
    <2>1. /\ UNCHANGED <<sw, newest, net, phase, ports, hand, inbox, events>>
          /\ UNCHANGED <<dps, portState, registering, raised>>
      BY <1>3 DEF vars, swVars, dpVars, setVars
    <2>2. CopiedIsState' /\ CopiedIsThere' /\ Delivering'
      BY <2>1 DEF PInv, CopiedIsState, CopiedIsThere, Delivering
    <2>3. Published'
      BY <2>1 DEF PInv, Published, Fresh
    <2>4. Described' /\ Mirrored'
      <3>1. Described'
        BY <2>1 DEF PInv, Described
      <3>2. Mirrored'
        BY <2>1 DEF PInv, Mirrored
      <3> QED
        BY <3>1, <3>2
    <2>5. Kept'
      BY <2>1 DEF PInv, Kept, Listed, Fresh, Sole
    <2> QED
      BY <1>1, <2>2, <2>3, <2>4, <2>5 DEF PInv
  <1> QED
    BY <1>2, <1>3

\* With everything received and handled, the port state of a switch that
\* connected once is the port list of its datapath, and both are the switch's:
\* whatever the order in which DPSet and OFPHandler handle the port statuses,
\* and whichever of them come while _register copies the ports.
THEOREM PortsDoConverge == Spec => []PortsConverge
  <1>1. PInv => PortsConverge
    <2> SUFFICES ASSUME PInv, Quiet, NEW d \in DpId \ raised, NEW c, c = dps[d],
                        c # None, c = newest[d], net[c] = <<>>, hand[c] = None,
                        \A b \in Registered : dpid[b] = d => b = c
                 PROVE  portState[d] = ports[c] /\ portState[d] = sw[d]
      BY DEF PortsConverge
    <2>1. /\ events = <<>> /\ inbox = <<>> /\ registering = None
          /\ phase \in [Conn -> {"new", "MAIN", "DEAD", "failed"}]
          /\ ports \in [Conn -> SUBSET Port] /\ sw \in [DpId -> SUBSET Port]
          /\ portState \in [DpId -> (SUBSET Port) \cup {None}]
          /\ dps \in [DpId -> Conn \cup {None}]
      BY DEF PInv, SInv, TypeOK, Quiet
    <2>2. /\ \A m : ~In(m, events)
          /\ \A C : ~Has(<<>>, C)
      BY <2>1, EmptyQueue DEF Has
    <2>3. c \in Conn /\ dpid[c] = d /\ phase[c] = "MAIN"
      <3>1. c \in Conn /\ Known(c) /\ dpid[c] = d
        <4>1. Held
          BY DEF PInv, SInv
        <4>2. c \in Conn /\ d \in DpId
          BY <2>1
        <4> QED
          BY <4>1, <4>2 DEF Held
      <3>2. phase[c] # "DEAD"
        BY <2>2, <3>1 DEF PInv, SInv, Held
      <3> QED
        BY <3>1, <3>2 DEF Known
    <2>4. Sole(c) /\ Listed(c) = portState[d]
      <3>1. Registered = { b \in Conn : phase[b] \in {"MAIN", "DEAD"} }
        BY <2>1 DEF Registered
      <3>2. ~Fresh(c)
        BY <2>1, <2>2 DEF Fresh
      <3> QED
        BY <2>3, <3>1, <3>2 DEF Sole, Listed
    <2>5. portState[d] \in SUBSET Port
      BY <2>1, <2>3 DEF PInv, SInv, Copying
    <2>6. ASSUME NEW p \in Port
          PROVE  (p \in ports[c] <=> p \in sw[d]) /\ (p \in portState[d] <=> p \in sw[d])
      <3>1. Leads(c, p, <<>>, None, <<>>, ports[c], sw[d])
        BY <2>1, <2>3 DEF PInv, Mirrored
      <3>2. Leads(c, p, <<>>, None, <<>>, portState[d], sw[d])
        BY <2>1, <2>3, <2>4 DEF PInv, Kept
      <3>3. None \notin About(c, p)
        BY <2>3, FromForms
      <3> QED
        BY <2>2, <3>1, <3>2, <3>3 DEF Leads
    <2> QED
      BY <2>1, <2>3, <2>5, <2>6
  <1> QED
    BY <1>1, PInvInit, PInvStep, PTL DEF Spec

=============================================================================
