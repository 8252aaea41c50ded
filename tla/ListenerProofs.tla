---------------------------- MODULE ListenerProofs ----------------------------
(***************************************************************************)
(* Theorems about module Listener, for every number of clients and of      *)
(* calls of start, and for every fault: type correctness, what stop leaves *)
(* behind, and where an accepted connection is.                            *)
(***************************************************************************)
EXTENDS Listener, SequenceLemmas, FiniteSetTheorems

\* The accept thread has not begun or has ended.
Over(l) == apc[l] \in {"off", "ended", "failed"}

\* start runs while the controller is active and nobody stops it, and has
\* made in this run what it says.
Starting ==
    /\ spc # "idle" => run \in 1 .. MaxStarts
    /\ tpc # "idle" => ~active
    /\ spc \notin {"idle", "join"} => active /\ tpc = "idle"
    /\ \A l \in Listening : apc[l] # "off" => l.run <= run
    /\ spc = "listen" => open = {}
    /\ spc \in {"listen", "accept"} => apc[The("tcp")] = "off"
    /\ spc \in {"accept", "listen_ssl"} => \A l \in open : l.port = "tcp"
    /\ spc \in {"listen", "accept", "listen_ssl", "context", "accept_ssl"}
          => apc[The("ssl")] = "off"

\* Every socket that listens and every thread that runs is on its list, and
\* stop gets on when they are closed and over.
Stopping ==
    /\ open \subseteq listeners
    /\ \A l \in Listening : ~Over(l) => l \in threads
    /\ tpc \in {"join", "clear"} => open = {}
    /\ tpc = "clear" => \A l \in Listening : Over(l)
    /\ ~active /\ tpc = "idle" => listeners = {} /\ threads = {}

\* A thread has in hand the one connection it accepted, from its own socket;
\* on the TLS port it goes on to serve it after the handshake.
Handing ==
    /\ \A l \in Listening :
          /\ hand[l] # NoClient <=> apc[l] \in {"wrap", "spawn"}
          /\ apc[l] = "spawn" /\ l.port = "ssl" => shaken[hand[l]] = "done"
    /\ \A c \in Client :
          /\ conn[c] \in {"backlog", "accepted"} => at[c] \in Listening
          /\ conn[c] = "accepted" => hand[at[c]] = c
          /\ \A l \in Listening : hand[l] = c => conn[c] = "accepted" /\ at[c] = l
          /\ conn[c] = "serving" /\ at[c].port = "ssl" => shaken[c] = "done"

\* The inductive invariant.
LInv == TypeOK /\ Starting /\ Stopping /\ Handing

-----------------------------------------------------------------------------
(* Every step keeps the parts of the invariant                              *)

\* The listeners of a run; start's calls of _listen and _accept_on.
LEMMA StartForms ==
  /\ \A p \in Port : run \in 1 .. MaxStarts => The(p) \in Listening
  /\ \A l \in Listening : l.port \in Port /\ l.run \in 1 .. MaxStarts
  /\ \A l \in Listening : l = [port |-> l.port, run |-> l.run]
  /\ "tcp" \in Port /\ "ssl" \in Port
  BY DEF The, Listening, Port

\* Every step keeps the types.
LEMMA TypesStep ==
  ASSUME LInv, Next PROVE TypeOK'
  <1>1. /\ TypeOK /\ Starting /\ Handing /\ MaxStarts \in Nat
    BY ListenerAssumption DEF LInv
  <1>2. CASE CallStart
    BY <1>1, <1>2 DEF CallStart, TypeOK, sockets, clients
  <1>3. CASE Start
    <2>1. ASSUME NEW port \in Port, NEW from \in {"listen", "listen_ssl"},
                 NEW to \in {"accept", "context"}, Listen(port, from, to)
          PROVE  TypeOK'
      <3>1. The(port) \in Listening
        BY <1>1, <2>1, StartForms DEF Listen, Starting
      <3> QED
        BY <1>1, <2>1, <3>1 DEF Listen, TypeOK, clients
    <2>2. ASSUME NEW port \in Port, NEW from \in {"accept", "accept_ssl"},
                 NEW to \in {"listen_ssl", "join"}, AcceptOn(port, from, to)
          PROVE  TypeOK'
      <3>1. The(port) \in Listening
        BY <1>1, <2>2, StartForms DEF AcceptOn, Starting
      <3> QED
        BY <1>1, <2>2, <3>1 DEF AcceptOn, TypeOK, clients
    <2>3. CASE SslContext
      BY <1>1, <2>3 DEF SslContext, TypeOK, sockets, clients
    <2>4. CASE CallReturn
      BY <1>1, <2>4 DEF CallReturn, TypeOK, sockets, clients
    <2> QED
      BY <1>3, <2>1, <2>2, <2>3, <2>4, StartForms DEF Start
  <1>4. CASE CallStop \/ Stop
    <2>1. CASE CloseListeners
      BY <1>1, <2>1 DEF CloseListeners, TypeOK
    <2> QED
      BY <1>1, <1>4, <2>1 DEF CallStop, Stop, JoinThreads, ClearLists, TypeOK,
         sockets, clients
  <1>5. ASSUME NEW l \in Listening, AcceptLoop(l) PROVE TypeOK'
    BY <1>1, <1>5 DEF AcceptLoop, LoopTest, CallAccept, Accept, Pending, AcceptTimeout,
       AcceptFails, WrapSocket, WrapFails, WrapRaises, SpawnServe, TypeOK, control, clients
  <1>6. ASSUME NEW c \in Client, Connect(c) \/ Shake(c) \/ ServeReturns(c) PROVE TypeOK'
    BY <1>1, <1>6 DEF Connect, Shake, ServeReturns, TypeOK, control, sockets
  <1> QED
    BY <1>2, <1>3, <1>4, <1>5, <1>6 DEF Next

\* What an accept thread leaves alone, and what it becomes.
LEMMA LoopForms ==
  ASSUME TypeOK, NEW l \in Listening, AcceptLoop(l)
  PROVE  /\ UNCHANGED <<control, open>>
         /\ \E a \in {"check", "call", "accept", "wrap", "spawn", "ended", "failed"} :
              apc' = [apc EXCEPT ![l] = a]
         /\ ~Over(l)
  BY DEF AcceptLoop, LoopTest, CallAccept, Accept, AcceptTimeout, AcceptFails,
     WrapSocket, WrapFails, WrapRaises, SpawnServe, Over, TypeOK

\* Every step keeps Starting.
LEMMA StartingStep ==
  ASSUME LInv, Next PROVE Starting'
  <1>1. /\ TypeOK /\ Starting /\ Stopping /\ MaxStarts \in Nat /\ run \in 0 .. MaxStarts
        /\ open \subseteq Listening
        /\ apc \in [Listening -> {"off", "check", "call", "accept", "wrap", "spawn",
                                  "ended", "failed"}]
    BY ListenerAssumption DEF LInv, TypeOK
  <1>2. CASE CallStart
    <2>1. /\ spc' = "listen" /\ active' = TRUE /\ run' = run + 1 /\ tpc' = "idle"
          /\ open = {} /\ open' = {} /\ apc' = apc /\ run' \in 1 .. MaxStarts
      BY <1>1, <1>2 DEF CallStart, Stopping, sockets
    <2>2. \A p \in Port : apc[[port |-> p, run |-> run + 1]] = "off"
      BY <1>1, <2>1, StartForms DEF Starting, Listening
    <2> QED
      BY <1>1, <2>1, <2>2, StartForms DEF Starting, The
  <1>3. CASE Start
    <2>1. CASE Listen("tcp", "listen", "accept")
      <3>1. The("tcp").port = "tcp"
        BY DEF The
      <3> QED
        BY <1>1, <2>1, <3>1 DEF Listen, Starting, The
    <2>2. CASE Listen("ssl", "listen_ssl", "context")
      BY <1>1, <2>2 DEF Listen, Starting, The
    <2>3. CASE AcceptOn("tcp", "accept", IF UseSsl THEN "listen_ssl" ELSE "join")
      <3>1. /\ The("tcp") \in Listening /\ The("ssl") \in Listening
            /\ The("tcp") # The("ssl") /\ The("tcp").run = run
        BY <1>1, <2>3, StartForms DEF AcceptOn, Starting, The
      <3> QED
        BY <1>1, <2>3, <3>1 DEF AcceptOn, Starting, The
    <2>4. CASE AcceptOn("ssl", "accept_ssl", "join")
      <3>1. The("ssl") \in Listening /\ The("ssl").run = run
        BY <1>1, <2>4, StartForms DEF AcceptOn, Starting, The
      <3> QED
        BY <1>1, <2>4, <3>1 DEF AcceptOn, Starting, The
    <2>5. CASE SslContext \/ CallReturn
      BY <1>1, <2>5 DEF SslContext, CallReturn, Starting, The, sockets
    <2> QED
      BY <1>3, <2>1, <2>2, <2>3, <2>4, <2>5 DEF Start
  <1>4. CASE CallStop \/ Stop
    <2>1. CASE CloseListeners
      BY <1>1, <2>1 DEF CloseListeners, Starting, The
    <2> QED
      BY <1>1, <1>4, <2>1 DEF CallStop, Stop, JoinThreads, ClearLists, Starting,
         The, sockets
  <1>5. ASSUME NEW l \in Listening, AcceptLoop(l) PROVE Starting'
    <2>1. \A k \in Listening : apc'[k] # "off" <=> apc[k] # "off"
      BY <1>1, <1>5, LoopForms DEF Over
    <2> QED
      BY <1>1, <1>5, <2>1, LoopForms, StartForms DEF Starting, The, control
  <1>6. ASSUME NEW c \in Client, Connect(c) \/ Shake(c) \/ ServeReturns(c) PROVE Starting'
    BY <1>1, <1>6 DEF Connect, Shake, ServeReturns, Starting, The, control, sockets
  <1> QED
    BY <1>2, <1>3, <1>4, <1>5, <1>6 DEF Next

\* Every step keeps Stopping.
LEMMA StoppingStep ==
  ASSUME LInv, Next PROVE Stopping'
  <1>1. /\ TypeOK /\ Starting /\ Stopping /\ open \subseteq Listening
        /\ apc \in [Listening -> {"off", "check", "call", "accept", "wrap", "spawn",
                                  "ended", "failed"}]
    BY DEF LInv, TypeOK
  <1>2. CASE CallStart
    BY <1>1, <1>2 DEF CallStart, Starting, Stopping, Over, sockets
  <1>3. CASE Start
    <2>1. ASSUME NEW port, NEW from \in {"listen", "listen_ssl"}, NEW to,
                 Listen(port, from, to)
          PROVE  Stopping'
      BY <1>1, <2>1 DEF Listen, Starting, Stopping, Over
    <2>2. ASSUME NEW port, NEW from \in {"accept", "accept_ssl"}, NEW to,
                 AcceptOn(port, from, to)
          PROVE  Stopping'
      BY <1>1, <2>2 DEF AcceptOn, Starting, Stopping, Over
    <2>3. CASE SslContext \/ CallReturn
      BY <1>1, <2>3 DEF SslContext, CallReturn, Starting, Stopping, Over, sockets
    <2> QED
      BY <1>3, <2>1, <2>2, <2>3 DEF Start
  <1>4. CASE CallStop
    BY <1>1, <1>4 DEF CallStop, Starting, Stopping, Over, sockets
  <1>5. CASE Stop
    <2>1. CASE CloseListeners
      <3>1. /\ tpc = "close" /\ UNCHANGED <<active, listeners, threads, apc>>
            /\ \/ listeners \cap open = {} /\ open' = open
               \/ open' \subseteq open /\ tpc' = tpc
        BY <2>1 DEF CloseListeners
      <3> QED
        BY <1>1, <2>1, <3>1 DEF CloseListeners, Stopping, Over
    <2>2. CASE JoinThreads
      BY <1>1, <2>2 DEF JoinThreads, Stopping, Over, sockets
    <2>3. CASE ClearLists
      BY <1>1, <2>3 DEF ClearLists, Stopping, Over, sockets
    <2> QED
      BY <1>5, <2>1, <2>2, <2>3 DEF Stop
  <1>6. ASSUME NEW l \in Listening, AcceptLoop(l) PROVE Stopping'
    <2>1. \A k \in Listening : ~Over(k)' => ~Over(k)
      BY <1>1, <1>6, LoopForms DEF Over
    <2> QED
      BY <1>1, <1>6, <2>1, LoopForms DEF Stopping, control
  <1>7. ASSUME NEW c \in Client, Connect(c) \/ Shake(c) \/ ServeReturns(c) PROVE Stopping'
    BY <1>1, <1>7 DEF Connect, Shake, ServeReturns, Stopping, Over, control, sockets
  <1> QED
    BY <1>2, <1>3, <1>4, <1>5, <1>6, <1>7 DEF Next

\* Every step keeps Handing.
LEMMA HandingStep ==
  ASSUME LInv, Next PROVE Handing'
  <1>1. /\ TypeOK /\ Starting /\ Handing /\ NoClient \notin Client
        /\ hand \in [Listening -> Client \cup {NoClient}]
        /\ conn \in [Client -> {"none", "backlog", "accepted", "serving", "closed"}]
        /\ at \in [Client -> Listening \cup {Nowhere}]
        /\ shaken \in [Client -> {"none", "done", "failed"}]
        /\ apc \in [Listening -> {"off", "check", "call", "accept", "wrap", "spawn",
                                  "ended", "failed"}]
        /\ open \subseteq Listening
    BY NoClientAssumption DEF LInv, TypeOK
  <1>2. CASE UNCHANGED <<apc, hand, clients>>
    BY <1>1, <1>2 DEF Handing, clients
  <1>3. ASSUME NEW port \in Port, NEW from \in {"accept", "accept_ssl"}, NEW to,
               apc[The(port)] = "off", AcceptOn(port, from, to)
        PROVE  Handing'
    <2>1. The(port) \in Listening
      BY <1>1, <1>3, StartForms DEF AcceptOn, Starting
    <2> QED
      BY <1>1, <1>3, <2>1 DEF AcceptOn, Handing, clients
  <1>4. CASE CallStart \/ Start
    <2>1. CASE AcceptOn("tcp", "accept", IF UseSsl THEN "listen_ssl" ELSE "join")
      BY <1>1, <1>3, <2>1, StartForms DEF AcceptOn, Starting
    <2>2. CASE AcceptOn("ssl", "accept_ssl", "join")
      BY <1>1, <1>3, <2>2, StartForms DEF AcceptOn, Starting
    <2> QED
      BY <1>2, <1>4, <2>1, <2>2 DEF CallStart, Start, Listen, SslContext, CallReturn,
         sockets
  <1>5. CASE CallStop \/ JoinThreads \/ ClearLists
    BY <1>2, <1>5 DEF CallStop, JoinThreads, ClearLists, sockets
  <1>6. CASE CloseListeners
    <2>1. /\ UNCHANGED <<apc, hand, at, shaken>>
          /\ \A c \in Client : \/ conn'[c] = conn[c]
                               \/ conn[c] = "backlog" /\ conn'[c] = "closed"
      BY <1>1, <1>6 DEF CloseListeners
    <2> QED
      BY <1>1, <2>1 DEF Handing
  <1>7. ASSUME NEW l \in Listening, AcceptLoop(l) PROVE Handing'
    <2>1. CASE LoopTest(l) \/ CallAccept(l) \/ AcceptTimeout(l) \/ AcceptFails(l)
      <3>1. /\ UNCHANGED <<hand, clients>> /\ apc[l] \notin {"wrap", "spawn"}
            /\ \E a \in {"check", "call", "accept", "ended", "failed"} :
                 apc' = [apc EXCEPT ![l] = a]
        BY <2>1 DEF LoopTest, CallAccept, AcceptTimeout, AcceptFails
      <3> QED
        BY <1>1, <3>1 DEF Handing, clients
    <2>2. CASE Accept(l)
      <3>1. PICK c \in Client :
              /\ conn[c] = "backlog" /\ at[c] = l /\ apc[l] = "accept"
              /\ hand' = [hand EXCEPT ![l] = c]
              /\ conn' = [conn EXCEPT ![c] = "accepted"]
              /\ apc' = [apc EXCEPT ![l] = IF l.port = "ssl" THEN "wrap" ELSE "spawn"]
              /\ UNCHANGED <<at, shaken>>
        BY <2>2 DEF Accept, Pending
      <3>2. hand[l] = NoClient
        BY <1>1, <3>1 DEF Handing
      <3>3. ASSUME NEW k \in Listening
            PROVE  /\ hand'[k] # NoClient <=> apc'[k] \in {"wrap", "spawn"}
                   /\ apc'[k] = "spawn" /\ k.port = "ssl" => shaken'[hand'[k]] = "done"
        BY <1>1, <3>1 DEF Handing
      <3>4. ASSUME NEW b \in Client
            PROVE  /\ conn'[b] \in {"backlog", "accepted"} => at'[b] \in Listening
                   /\ conn'[b] = "accepted" => hand'[at'[b]] = b
                   /\ \A k \in Listening : hand'[k] = b => conn'[b] = "accepted" /\ at'[b] = k
                   /\ conn'[b] = "serving" /\ at'[b].port = "ssl" => shaken'[b] = "done"
        BY <1>1, <3>1, <3>2 DEF Handing
      <3> QED
        BY <3>3, <3>4 DEF Handing
    <2>3. CASE WrapSocket(l)
      BY <1>1, <2>3 DEF WrapSocket, Handing, clients
    <2>4. CASE WrapFails(l) \/ SpawnServe(l)
      <3>1. PICK c \in Client : c = hand[l]
        BY <1>1, <2>4 DEF WrapFails, WrapRaises, SpawnServe, Handing
      <3>2. /\ hand' = [hand EXCEPT ![l] = NoClient]
            /\ apc' = [apc EXCEPT ![l] = "check"]
            /\ UNCHANGED <<at, shaken>>
            /\ \/ conn' = [conn EXCEPT ![c] = "closed"]
               \/ apc[l] = "spawn" /\ conn' = [conn EXCEPT ![c] = "serving"]
        BY <2>4, <3>1 DEF WrapFails, WrapRaises, SpawnServe
      <3>3. /\ conn[c] = "accepted" /\ at[c] = l /\ conn'[c] # "accepted"
            /\ conn'[c] = "serving" /\ l.port = "ssl" => shaken[c] = "done"
        BY <1>1, <3>1, <3>2 DEF Handing
      <3>4. ASSUME NEW k \in Listening
            PROVE  /\ hand'[k] # NoClient <=> apc'[k] \in {"wrap", "spawn"}
                   /\ apc'[k] = "spawn" /\ k.port = "ssl" => shaken'[hand'[k]] = "done"
        BY <1>1, <3>2 DEF Handing
      <3>5. ASSUME NEW b \in Client
            PROVE  /\ conn'[b] \in {"backlog", "accepted"} => at'[b] \in Listening
                   /\ conn'[b] = "accepted" => hand'[at'[b]] = b
                   /\ \A k \in Listening : hand'[k] = b => conn'[b] = "accepted" /\ at'[b] = k
                   /\ conn'[b] = "serving" /\ at'[b].port = "ssl" => shaken'[b] = "done"
        BY <1>1, <3>1, <3>2, <3>3 DEF Handing
      <3> QED
        BY <3>4, <3>5 DEF Handing
    <2> QED
      BY <1>7, <2>1, <2>2, <2>3, <2>4 DEF AcceptLoop
  <1>8. ASSUME NEW c \in Client, Connect(c) PROVE Handing'
    BY <1>1, <1>8 DEF Connect, Handing, sockets
  <1>9. ASSUME NEW c \in Client, Shake(c) PROVE Handing'
    <2>1. /\ UNCHANGED <<apc, hand, conn, at>> /\ shaken[c] # "done"
          /\ \A b \in Client \ {c} : shaken'[b] = shaken[b]
      BY <1>1, <1>9 DEF Shake, sockets
    <2> QED
      BY <1>1, <2>1 DEF Handing
  <1>10. ASSUME NEW c \in Client, ServeReturns(c) PROVE Handing'
    BY <1>1, <1>10 DEF ServeReturns, Handing, sockets
  <1> QED
    BY <1>4, <1>5, <1>6, <1>7, <1>8, <1>9, <1>10 DEF Next, Stop

\* The invariant holds initially, and every step preserves it.
LEMMA LInvInit == Init => LInv
  <1> SUFFICES ASSUME Init PROVE LInv
    OBVIOUS
  <1>1. TypeOK
    <2>1. MaxStarts \in Nat
      BY ListenerAssumption
    <2>2. /\ hand \in [Listening -> Client \cup {NoClient}]
          /\ at \in [Client -> Listening \cup {Nowhere}]
      BY DEF Init
    <2>3. active \in BOOLEAN
      BY DEF Init
    <2>4. run \in 0 .. MaxStarts
      BY <2>1 DEF Init
    <2>5. /\ listeners \subseteq Listening /\ threads \subseteq Listening
          /\ open \subseteq Listening
      BY DEF Init
    <2>6. /\ apc \in [Listening -> {"off", "check", "call", "accept", "wrap", "spawn",
                                    "ended", "failed"}]
          /\ conn \in [Client -> {"none", "backlog", "accepted", "serving", "closed"}]
          /\ shaken \in [Client -> {"none", "done", "failed"}]
      BY DEF Init
    <2> QED
      BY <2>2, <2>3, <2>4, <2>5, <2>6 DEF Init, TypeOK
  <1>2. Starting /\ Stopping /\ Handing
    BY NoClientAssumption DEF Init, Starting, Stopping, Handing, Over
  <1> QED
    BY <1>1, <1>2 DEF LInv

\* Every step keeps the invariant.
LEMMA LInvStep == LInv /\ [Next]_vars => LInv'
  <1> SUFFICES ASSUME LInv, [Next]_vars PROVE LInv'
    OBVIOUS
  <1>1. CASE Next
    BY <1>1, TypesStep, StartingStep, StoppingStep, HandingStep DEF LInv
  <1>2. CASE UNCHANGED vars
    BY <1>2 DEF LInv, TypeOK, Starting, Stopping, Handing, Over, The, vars,
       control, sockets, clients
  <1> QED
    BY <1>1, <1>2

\* Every variable has its type in every reachable state.
THEOREM TypeCorrect == Spec => []TypeOK
  <1>1. LInv => TypeOK
    BY DEF LInv
  <1> QED
    BY <1>1, LInvInit, LInvStep, PTL DEF Spec

\* Once stop has returned no socket listens, and no thread accepts or has a
\* connection in hand; the next start finds its ports free (start, stop).
THEOREM StopLeavesNothing == Spec => []StoppedIsQuiet
  <1>1. LInv => StoppedIsQuiet
    <2> SUFFICES ASSUME LInv PROVE StoppedIsQuiet
      OBVIOUS
    <2>1. spc = "listen" => ~InUse("tcp")
      BY DEF LInv, Starting, InUse
    <2>2. spc = "listen_ssl" => ~InUse("ssl")
      BY DEF LInv, Starting, InUse
    <2>3. ASSUME ~active, tpc = "idle"
          PROVE  /\ open = {}
                 /\ \A l \in Listening : Over(l) /\ hand[l] = NoClient
      BY <2>3 DEF LInv, Stopping, Handing, Over
    <2> QED
      BY <2>1, <2>2, <2>3 DEF StoppedIsQuiet, Over
  <1> QED
    BY <1>1, LInvInit, LInvStep, PTL DEF Spec

\* An accepted connection is in the hand of one thread until it is served or
\* closed, and on the TLS port served after its handshake (_accept_loop).
THEOREM NoConnectionIsDropped == Spec => []AcceptedIsInHand
  <1>1. LInv => AcceptedIsInHand
    <2> SUFFICES ASSUME LInv, NEW c \in Client
                 PROVE  /\ conn[c] = "accepted"
                             <=> Cardinality({l \in Listening : hand[l] = c}) = 1
                        /\ conn[c] = "serving" /\ at[c].port = "ssl" => shaken[c] = "done"
      BY DEF AcceptedIsInHand
    <2>1. CASE conn[c] = "accepted"
      <3>1. {l \in Listening : hand[l] = c} = {at[c]}
        BY <2>1 DEF LInv, Handing
      <3> QED
        BY <2>1, <3>1, FS_Singleton
    <2>2. CASE conn[c] # "accepted"
      <3>1. {l \in Listening : hand[l] = c} = {}
        BY <2>2 DEF LInv, Handing
      <3>2. Cardinality({l \in Listening : hand[l] = c}) = 0
        BY <3>1, FS_EmptySet
      <3>3. conn[c] = "serving" /\ at[c].port = "ssl" => shaken[c] = "done"
        BY DEF LInv, Handing
      <3> QED
        BY <2>2, <3>2, <3>3
    <2> QED
      BY <2>1, <2>2
  <1> QED
    BY <1>1, LInvInit, LInvStep, PTL DEF Spec

===============================================================================
