----------------------------- MODULE AppsProofs -----------------------------
(***************************************************************************)
(* Theorems about module Apps, for every number of applications, classes,  *)
(* publishers and events: type correctness, and that no publication misses *)
(* an application or raises before APPS is cleared.                        *)
(***************************************************************************)
EXTENDS Apps, SequenceLemmas

\* The application that a dispatch thread handles an event for took one.
Handling == \A a \in App : loop[a] = "handle" => current[a] \in Event

\* While applications are registered nothing runs; afterwards all are
\* registered, in order, and those the manager has still to start are off.
Starting ==
    /\ mpc = "register" =>
          /\ Len(registry) = mi - 1
          /\ \A i \in 1 .. mi - 1 : registry[i] = AppOrder[i]
          /\ \A a \in App : loop[a] = "off"
    /\ mpc \notin {"register", "done"} =>
          /\ Len(registry) = Len(AppOrder)
          /\ \A i \in DOMAIN AppOrder : registry[i] = AppOrder[i]
    /\ mpc = "start" =>
          \A i \in mi .. Len(AppOrder) : loop[AppOrder[i]] = "off"

\* The application was given the event the publisher sends, or does not
\* handle its class.
Given(p, a) == sending[p].cls \in Handles[a] => sending[p] \in Got(a)

\* A publisher that walks APPS walks all applications, and has served those
\* behind it; one that is done has served all.
Walking(p) ==
    /\ mpc = "register" => ppc[p] = "idle" /\ count[p] = 0
    /\ pi[p] >= 1
    /\ ppc[p] # "idle" \/ count[p] > 0 => sending[p] \in Event
    /\ mpc # "done" =>
          /\ ppc[p] # "raised"
          /\ ppc[p] = "put" =>
                /\ size[p] = Len(AppOrder) /\ pi[p] <= size[p] + 1
                /\ \A i \in 1 .. pi[p] - 1 : Given(p, AppOrder[i])
          /\ ppc[p] = "idle" /\ count[p] > 0 => \A a \in App : Given(p, a)

\* The inductive invariant.
AInv == TypeOK /\ Handling /\ Starting /\ \A p \in Publisher : Walking(p)

-----------------------------------------------------------------------------
(* Types *)

\* The applications in the order the manager goes through them.
LEMMA Order ==
  /\ Len(AppOrder) \in Nat \ {0} /\ DOMAIN AppOrder = 1 .. Len(AppOrder)
  /\ \A i \in 1 .. Len(AppOrder) : AppOrder[i] \in App
  /\ \A a \in App : \E i \in 1 .. Len(AppOrder) : AppOrder[i] = a
  /\ \A i, j \in 1 .. Len(AppOrder) : AppOrder[i] = AppOrder[j] => i = j
  BY AppsAssumption

\* The sentinel that ends a dispatch thread is no event.
LEMMA SentinelIsNoEvent == Sentinel \notin Event
  <1>1. \A e \in Event : "cls" \in DOMAIN e
    BY DEF Event
  <1>2. "cls" \notin DOMAIN Sentinel
    BY DEF Sentinel
  <1> QED
    BY <1>1, <1>2

\* Every step keeps the types.
LEMMA TypesStep ==
  ASSUME AInv, Next PROVE TypeOK' /\ Handling'
  <1>1. /\ TypeOK /\ Handling /\ \A p \in Publisher : Walking(p)
        /\ mi \in 1 .. Len(AppOrder) /\ AppOrder[mi] \in App
    BY Order DEF AInv, TypeOK
  <1>2. ASSUME NEW again \in {"register", "start", "flag"},
               NEW next \in {"start", "join", "clear"}, Advance(again, next)
        PROVE  /\ mi' \in 1 .. Len(AppOrder)
               /\ mpc' \in {"register", "start", "join", "flag", "wake", "wait",
                            "close", "stuck", "clear", "done"}
    BY <1>1, <1>2, Order DEF Advance
  <1>3. CASE RegisterApp
    <2>1. registry' \in Seq(App)
      BY <1>1, <1>3, AppendEntries DEF RegisterApp, TypeOK
    <2> QED
      BY <1>1, <1>2, <1>3, <2>1 DEF RegisterApp, TypeOK, Handling, loopVars, pubVars
  <1>4. CASE StartApp
    BY <1>1, <1>2, <1>4 DEF StartApp, TypeOK, Handling, pubVars
  <1>5. CASE Interrupt \/ StopFlag \/ StopWake \/ StopWait \/ CloseApp \/ CloseHangs \/ Clear
    <2>1. CASE StopWake
      <3>1. Append(queue[AppOrder[mi]], Sentinel) \in Seq(Event \cup {Sentinel})
        BY <1>1, AppendEntries DEF TypeOK
      <3> QED
        BY <1>1, <2>1, <3>1 DEF StopWake, TypeOK, Handling, loopVars, pubVars
    <2>2. CASE CloseApp
      BY <1>1, <1>2, <2>2 DEF CloseApp, TypeOK, Handling, loopVars, pubVars
    <2>3. CASE Clear
      <3>1. <<>> \in Seq(App)
        OBVIOUS
      <3> QED
        BY <1>1, <2>3, <3>1 DEF Clear, TypeOK, Handling, loopVars, pubVars
    <2>4. CASE Interrupt \/ StopFlag \/ StopWait \/ CloseHangs
      BY <1>1, <2>4 DEF Interrupt, StopFlag, StopWait, CloseHangs, TypeOK, Handling, loopVars, pubVars
    <2> QED
      BY <1>5, <2>1, <2>2, <2>3, <2>4
  <1>6. ASSUME NEW a \in App, EventLoop(a) PROVE TypeOK' /\ Handling'
    <2>1. CASE LoopCheck(a)
      BY <1>1, <2>1 DEF LoopCheck, TypeOK, Handling, manVars, pubVars
    <2>2. CASE LoopGet(a)
      <3>1. queue[a] \in Seq(Event \cup {Sentinel}) /\ queue[a] # <<>>
        BY <1>1, <2>2 DEF LoopGet, TypeOK
      <3>2. /\ Head(queue[a]) \in Event \cup {Sentinel}
            /\ Tail(queue[a]) \in Seq(Event \cup {Sentinel})
        BY <3>1, HeadAndTail
      <3> QED
        BY <1>1, <2>2, <3>2 DEF LoopGet, TypeOK, Handling, manVars, pubVars
    <2>3. CASE LoopHandle(a)
      BY <1>1, <2>3 DEF LoopHandle, TypeOK, Handling, manVars, pubVars
    <2> QED
      BY <1>6, <2>1, <2>2, <2>3 DEF EventLoop
  <1>7. ASSUME NEW p \in Publisher, NEW cls \in Class, Publish(p, cls)
        PROVE  TypeOK' /\ Handling'
    <2>1. count[p] \in 0 .. MaxEvents /\ count[p] + 1 \in 0 .. MaxEvents
      BY <1>1, <1>7, AppsAssumption DEF Publish, TypeOK
    <2>2. [cls |-> cls, pub |-> p, n |-> count[p] + 1] \in Event
      BY <2>1 DEF Event
    <2>3. Len(registry) \in Nat
      BY <1>1 DEF TypeOK
    <2> QED
      BY <1>1, <1>7, <2>1, <2>2, <2>3 DEF Publish, TypeOK, Handling, manVars, loopVars
  <1>8. ASSUME NEW p \in Publisher, Put(p) PROVE TypeOK' /\ Handling'
    <2>1. pi[p] \in 1 .. Len(registry) /\ registry[pi[p]] \in App
      BY <1>1, <1>8 DEF Put, TypeOK, Walking
    <2>2. sending[p] \in Event \cup {Sentinel}
      BY <1>1 DEF TypeOK
    <2>3. Append(queue[registry[pi[p]]], sending[p]) \in Seq(Event \cup {Sentinel})
      BY <1>1, <2>1, <2>2, AppendEntries DEF TypeOK
    <2>4. queue' \in [App -> Seq(Event \cup {Sentinel})]
      BY <1>1, <1>8, <2>1, <2>3 DEF Put, TypeOK
    <2>5. pi' \in [Publisher -> Nat]
      BY <1>1, <1>8 DEF Put, TypeOK
    <2> QED
      BY <1>1, <1>8, <2>4, <2>5 DEF Put, TypeOK, Handling, manVars, loopVars
  <1>9. ASSUME NEW p \in Publisher, Published(p) \/ Raise(p) PROVE TypeOK' /\ Handling'
    BY <1>1, <1>9 DEF Published, Raise, TypeOK, Handling, manVars, loopVars
  <1> QED
    BY <1>3, <1>4, <1>5, <1>6, <1>7, <1>8, <1>9 DEF Next, Manager

-----------------------------------------------------------------------------
(* Registration and delivery *)

\* Every step keeps registration before start.
LEMMA StartingStep ==
  ASSUME AInv, Next PROVE Starting'
  <1>1. /\ TypeOK /\ Starting /\ registry \in Seq(App)
        /\ loop \in [App -> {"off", "check", "get", "handle", "exit"}]
        /\ mi \in 1 .. Len(AppOrder)
    BY DEF AInv, TypeOK
  <1>2. CASE RegisterApp
    <2>1. /\ Len(registry) = mi - 1 /\ Len(registry') = mi
          /\ \A i \in 1 .. mi : registry'[i] = AppOrder[i]
          /\ \A a \in App : loop'[a] = "off"
      BY <1>1, <1>2, AppendEntries DEF RegisterApp, Starting, loopVars
    <2>2. CASE mi < Len(AppOrder)
      <3>1. mpc' = "register" /\ mi' = mi + 1
        BY <1>2, <2>2 DEF RegisterApp, Advance
      <3> QED
        BY <1>1, <2>1, <3>1 DEF Starting
    <2>3. CASE ~(mi < Len(AppOrder))
      <3>1. mpc' = "start" /\ mi' = 1 /\ mi = Len(AppOrder)
        <4>1. mpc' = "start" /\ mi' = 1
          BY <1>2, <2>3 DEF RegisterApp, Advance
        <4>2. Len(AppOrder) \in Nat
          BY Order
        <4>3. mi = Len(AppOrder)
          BY <1>1, <2>3, <4>2
        <4> QED
          BY <4>1, <4>3
      <3> QED
        BY <1>1, <2>1, <3>1, Order DEF Starting
    <2> QED
      BY <2>2, <2>3
  <1>3. CASE StartApp
    BY <1>1, <1>3, Order DEF StartApp, Advance, Starting
  <1>4. CASE Interrupt \/ StopFlag \/ StopWake \/ StopWait \/ CloseApp \/ CloseHangs \/ Clear
    BY <1>1, <1>4 DEF Interrupt, StopFlag, StopWake, StopWait,
       CloseApp, CloseHangs, Clear, Advance, Starting
  <1>5. ASSUME NEW a \in App, EventLoop(a) PROVE Starting'
    <2>1. loop[a] # "off"
      BY <1>5 DEF EventLoop, LoopCheck, LoopGet, LoopHandle
    <2>2. \A b \in App : b # a => loop'[b] = loop[b]
      BY <1>1, <1>5 DEF EventLoop, LoopCheck, LoopGet, LoopHandle
    <2>3. UNCHANGED manVars
      BY <1>5 DEF EventLoop, LoopCheck, LoopGet, LoopHandle
    <2> QED
      BY <1>1, <2>1, <2>2, <2>3, Order DEF Starting, manVars
  <1>6. ASSUME NEW p \in Publisher,
               (\E cls \in Class : Publish(p, cls)) \/ Put(p) \/ Published(p) \/ Raise(p)
        PROVE  Starting'
    BY <1>1, <1>6 DEF Publish, Put, Published, Raise, Starting, manVars, loopVars
  <1> QED
    BY <1>2, <1>3, <1>4, <1>5, <1>6 DEF Next, Manager

\* What an application was given it keeps: queued, in hand or handled.
LEMMA GotGrows ==
  ASSUME AInv, Next
  PROVE  \A a \in App, e \in Event : e \in Got(a) => e \in Got(a)'
  <1> SUFFICES ASSUME NEW a \in App, NEW e \in Event, e \in Got(a) PROVE e \in Got(a)'
    OBVIOUS
  <1>1. /\ TypeOK /\ Starting /\ mi \in 1 .. Len(AppOrder) /\ AppOrder[mi] \in App
        /\ loop \in [App -> {"off", "check", "get", "handle", "exit"}]
        /\ queue \in [App -> Seq(Event \cup {Sentinel})]
    BY Order DEF AInv, TypeOK
  <1>2. \/ e \in handled[a] \/ In(e, queue[a])
        \/ loop[a] = "handle" /\ e = current[a]
    BY DEF Got, In
  <1>3. \/ e \in handled'[a] \/ In(e, queue'[a])
        \/ loop'[a] = "handle" /\ e = current'[a]
        => e \in Got(a)'
    BY DEF Got, In
  <1>4. CASE handled' = handled /\ current' = current /\ loop'[a] = loop[a]
             /\ \E b \in App : \E m :
                  queue' = queue \/ queue' = [queue EXCEPT ![b] = Append(@, m)]
    <2>1. PICK b \in App :
             \E m : queue' = queue \/ queue' = [queue EXCEPT ![b] = Append(@, m)]
      BY <1>4
    <2>2. PICK m : queue'[a] = queue[a] \/ queue'[a] = Append(queue[a], m)
      BY <1>1, <2>1
    <2>3. queue[a] \in Seq(Event \cup {Sentinel})
      BY <1>1
    <2>4. In(e, queue[a]) => In(e, Append(queue[a], m))
      BY <2>3, InAppend
    <2>5. In(e, queue[a]) => In(e, queue'[a])
      BY <2>2, <2>4
    <2> QED
      BY <1>2, <1>3, <1>4, <2>5
  <1>5. CASE RegisterApp \/ Interrupt \/ StopFlag \/ StopWake \/ StopWait \/ CloseApp \/ CloseHangs \/ Clear
    BY <1>1, <1>4, <1>5 DEF RegisterApp, Interrupt, StopFlag, StopWake, StopWait,
       CloseApp, CloseHangs, Clear, loopVars
  <1>6. CASE StartApp
    <2>1. loop[AppOrder[mi]] = "off"
      BY <1>1, <1>6 DEF StartApp, Starting
    <2> QED
      BY <1>1, <1>2, <1>3, <1>6, <2>1 DEF StartApp
  <1>7. ASSUME NEW b \in App, EventLoop(b) PROVE e \in Got(a)'
    <2>1. CASE LoopCheck(b)
      BY <1>1, <1>2, <1>3, <2>1 DEF LoopCheck
    <2>2. CASE LoopGet(b)
      <3>1. CASE a = b
        <4>1. /\ queue[a] \in Seq(Event \cup {Sentinel}) /\ queue[a] # <<>>
              /\ queue'[a] = Tail(queue[a]) /\ current'[a] = Head(queue[a])
              /\ loop[a] = "get" /\ handled' = handled
              /\ loop'[a] = IF Head(queue[a]) = Sentinel THEN "check" ELSE "handle"
          BY <1>1, <2>2, <3>1 DEF LoopGet, TypeOK
        <4>2. In(e, queue[a]) => e = Head(queue[a]) \/ In(e, queue'[a])
          BY <4>1, InTail
        <4> QED
          BY <1>2, <1>3, <4>1, <4>2, SentinelIsNoEvent
      <3>2. CASE a # b
        BY <1>1, <1>2, <1>3, <2>2, <3>2 DEF LoopGet
      <3> QED
        BY <3>1, <3>2
    <2>3. CASE LoopHandle(b)
      BY <1>1, <1>2, <1>3, <2>3 DEF LoopHandle, TypeOK
    <2> QED
      BY <1>7, <2>1, <2>2, <2>3 DEF EventLoop
  <1>8. ASSUME NEW p \in Publisher, Put(p) PROVE e \in Got(a)'
    <2>1. registry[pi[p]] \in App
      BY <1>1, <1>8 DEF Put, TypeOK, AInv, Walking
    <2> QED
      BY <1>4, <1>8, <2>1 DEF Put, loopVars
  <1>9. ASSUME NEW p \in Publisher,
               (\E cls \in Class : Publish(p, cls)) \/ Published(p) \/ Raise(p)
        PROVE  e \in Got(a)'
    BY <1>1, <1>4, <1>9 DEF Publish, Published, Raise, loopVars
  <1> QED
    BY <1>5, <1>6, <1>7, <1>8, <1>9 DEF Next, Manager

\* Every step keeps publications complete.
LEMMA WalkingStep ==
  ASSUME AInv, Next, NEW p \in Publisher PROVE Walking(p)'
  <1>1. /\ TypeOK /\ Starting /\ Walking(p)
        /\ ppc \in [Publisher -> {"idle", "put", "raised"}]
        /\ pi \in [Publisher -> Nat] /\ size \in [Publisher -> Nat]
        /\ count \in [Publisher -> 0 .. MaxEvents]
    BY DEF AInv, TypeOK
  <1>2. ASSUME sending'[p] = sending[p], sending[p] \in Event, NEW a \in App, Given(p, a)
        PROVE  Given(p, a)'
    BY <1>2, GotGrows DEF Given
  <1>3. CASE /\ ppc'[p] = ppc[p] /\ pi'[p] = pi[p] /\ size'[p] = size[p]
             /\ count'[p] = count[p] /\ sending'[p] = sending[p]
             /\ mpc = "done" => mpc' = "done"
             /\ mpc' = "register" => mpc = "register"
    <2>1. ASSUME mpc' # "done", ppc[p] = "put", NEW i \in 1 .. pi[p] - 1
          PROVE  Given(p, AppOrder[i])'
      <3>1. i \in 1 .. Len(AppOrder) /\ Given(p, AppOrder[i]) /\ sending[p] \in Event
        BY <1>1, <1>3, <2>1, Order DEF Walking
      <3> QED
        BY <1>2, <1>3, <3>1, Order
    <2>2. ASSUME mpc' # "done", ppc[p] = "idle", count[p] > 0, NEW a \in App
          PROVE  Given(p, a)'
      BY <1>1, <1>2, <1>3, <2>2 DEF Walking
    <2> QED
      BY <1>1, <1>3, <2>1, <2>2 DEF Walking
  <1>4. CASE Manager \/ Interrupt \/ CloseHangs
    BY <1>3, <1>4 DEF Manager, Interrupt, CloseHangs, RegisterApp, StartApp,
       StopFlag, StopWake, StopWait, CloseApp, Clear, Advance, pubVars
  <1>5. ASSUME NEW a \in App, EventLoop(a) PROVE Walking(p)'
    BY <1>3, <1>5 DEF EventLoop, LoopCheck, LoopGet, LoopHandle, manVars, pubVars
  <1>6. ASSUME NEW q \in Publisher, q # p,
               (\E cls \in Class : Publish(q, cls)) \/ Put(q) \/ Published(q) \/ Raise(q)
        PROVE  Walking(p)'
    <2>1. /\ ppc'[p] = ppc[p] /\ pi'[p] = pi[p] /\ size'[p] = size[p]
          /\ count'[p] = count[p] /\ sending'[p] = sending[p] /\ mpc' = mpc
      BY <1>1, <1>6 DEF Publish, Put, Published, Raise, TypeOK, manVars
    <2> QED
      BY <1>3, <2>1
  <1>7. ASSUME NEW cls \in Class, Publish(p, cls) PROVE Walking(p)'
    <2>1. mpc # "register"
      BY <1>1, <1>7, AppsAssumption DEF Publish, Starting
    <2>2. mpc # "done" => Len(registry) = Len(AppOrder)
      BY <1>1, <2>1 DEF Starting
    <2>3. [cls |-> cls, pub |-> p, n |-> count[p] + 1] \in Event
      BY <1>1 DEF Event
    <2>4. /\ ppc'[p] = "put" /\ pi'[p] = 1 /\ size'[p] = Len(registry)
          /\ sending'[p] \in Event /\ mpc' = mpc
      BY <1>1, <1>7, <2>3 DEF Publish, TypeOK, manVars
    <2> QED
      BY <2>1, <2>2, <2>4, Order DEF Walking
  <1>8. CASE Put(p)
    <2>1. /\ mpc' = mpc /\ ppc'[p] = "put" /\ ppc[p] = "put" /\ pi'[p] = pi[p] + 1
          /\ size'[p] = size[p] /\ sending'[p] = sending[p] /\ count'[p] = count[p]
          /\ pi[p] \in 1 .. size[p] /\ Len(registry) = size[p]
          /\ sending[p] \in Event /\ mpc # "register"
      BY <1>1, <1>8 DEF Put, TypeOK, Walking, manVars
    <2>2. ASSUME mpc # "done"
          PROVE  /\ size[p] = Len(AppOrder) /\ registry[pi[p]] = AppOrder[pi[p]]
                 /\ AppOrder[pi[p]] \in App
      BY <1>1, <2>1, <2>2, Order DEF Starting
    <2>3. ASSUME mpc # "done", NEW i \in 1 .. pi[p] PROVE Given(p, AppOrder[i])'
      <3>1. CASE i = pi[p]
        <4>1. PICK a \in App :
                /\ a = AppOrder[i]
                /\ queue' = IF sending[p].cls \in Handles[a]
                              THEN [queue EXCEPT ![a] = Append(@, sending[p])]
                              ELSE queue
          BY <1>8, <2>2, <2>3, <3>1 DEF Put
        <4>2. ASSUME sending[p].cls \in Handles[a] PROVE In(sending[p], queue'[a])
          <5>1. queue[a] \in Seq(Event \cup {Sentinel})
            BY <1>1, <4>1 DEF TypeOK
          <5>2. queue'[a] = Append(queue[a], sending[p])
            BY <1>1, <4>1, <4>2 DEF TypeOK
          <5> QED
            BY <5>1, <5>2, InAppend
        <4>3. \A m : In(m, queue'[a]) => m \in Got(a)'
          BY DEF In, Got
        <4> QED
          BY <2>1, <4>1, <4>2, <4>3 DEF Given
      <3>2. CASE i # pi[p]
        <4>1. i \in 1 .. pi[p] - 1 /\ i \in 1 .. Len(AppOrder)
          BY <1>1, <2>1, <2>2, <2>3, <3>2
        <4>2. Given(p, AppOrder[i])
          BY <1>1, <2>1, <2>3, <4>1 DEF Walking
        <4> QED
          BY <1>2, <2>1, <4>1, <4>2, Order
      <3> QED
        BY <3>1, <3>2
    <2> QED
      BY <2>1, <2>2, <2>3 DEF Walking
  <1>9. CASE Published(p)
    <2>1. /\ mpc' = mpc /\ ppc'[p] = "idle" /\ ppc[p] = "put" /\ pi'[p] = pi[p]
          /\ sending'[p] = sending[p] /\ count'[p] = count[p]
          /\ pi[p] > size[p] /\ sending[p] \in Event /\ mpc # "register"
      BY <1>1, <1>9 DEF Published, TypeOK, Walking, manVars
    <2>2. ASSUME mpc # "done", NEW a \in App PROVE Given(p, a)'
      <3>1. PICK i \in 1 .. Len(AppOrder) : AppOrder[i] = a
        BY Order
      <3>2. i \in 1 .. pi[p] - 1
        BY <1>1, <2>1, <2>2, <3>1, Order DEF Walking
      <3>3. Given(p, a)
        BY <1>1, <2>1, <2>2, <3>1, <3>2 DEF Walking
      <3> QED
        BY <1>2, <2>1, <3>3
    <2> QED
      BY <1>1, <2>1, <2>2 DEF Walking
  <1>10. CASE Raise(p)
    <2>1. mpc = "done"
      BY <1>1, <1>10 DEF Raise, Walking, Starting
    <2>2. /\ mpc' = mpc /\ ppc'[p] = "raised" /\ ppc[p] = "put" /\ pi'[p] = pi[p]
          /\ sending'[p] = sending[p]
      BY <1>1, <1>10 DEF Raise, manVars
    <2> QED
      BY <1>1, <2>1, <2>2 DEF Walking
  <1> QED
    BY <1>4, <1>5, <1>6, <1>7, <1>8, <1>9, <1>10 DEF Next

\* The invariant holds initially, and every step preserves it.
LEMMA AInvInit == Init => AInv
  <1> SUFFICES ASSUME Init PROVE AInv
    OBVIOUS
  <1>1. TypeOK
    BY Order, AppsAssumption DEF Init, TypeOK
  <1>2. Handling /\ Starting /\ \A p \in Publisher : Walking(p)
    BY DEF Init, Handling, Starting, Walking
  <1> QED
    BY <1>1, <1>2 DEF AInv

\* Every step keeps the invariant.
LEMMA AInvStep == AInv /\ [Next]_vars => AInv'
  <1> SUFFICES ASSUME AInv, [Next]_vars PROVE AInv'
    OBVIOUS
  <1>1. CASE Next
    BY <1>1, TypesStep, StartingStep, WalkingStep DEF AInv
  <1>2. CASE UNCHANGED vars
    BY <1>2 DEF AInv, TypeOK, Handling, Starting, Walking, Given, Got, vars,
       manVars, loopVars, pubVars
  <1> QED
    BY <1>1, <1>2

\* Every variable has its type in every reachable state.
THEOREM TypeCorrect == Spec => []TypeOK
  <1>1. AInv => TypeOK
    BY DEF AInv
  <1> QED
    BY <1>1, AInvInit, AInvStep, PTL DEF Spec

\* No publication misses an application that handles its event, nor raises,
\* before APPS is cleared (instantiate_apps, send_event_to_observers).
THEOREM PublicationsAreComplete == Spec => []DeliveredToAll
  <1>1. AInv => DeliveredToAll
    BY DEF AInv, Walking, Given, DeliveredToAll
  <1> QED
    BY <1>1, AInvInit, AInvStep, PTL DEF Spec

=============================================================================
