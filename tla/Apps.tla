-------------------------------- MODULE Apps --------------------------------
(***************************************************************************)
(* The application framework: c65of/app.py. Every OFApp has a queue of     *)
(* events and a dispatch thread; AppManager.run_apps registers the         *)
(* applications in APPS, starts them, waits, and on an interrupt stops     *)
(* them one after the other and clears APPS. Meanwhile other threads       *)
(* (Publisher: the receive threads, the dispatch threads themselves) call  *)
(* send_event_to_observers, which walks APPS without a lock.               *)
(***************************************************************************)
EXTENDS Naturals, Sequences, FiniteSets

CONSTANTS
    App,
    AppOrder,       \* the order in which the applications are created
    Source,         \* the application whose start() makes publishers run
    Class,          \* event classes
    Handles,        \* the classes each application has handlers for
    Publisher,
    Blocks,         \* the applications whose close() may never return
    MaxEvents       \* bound: events each publisher sends

ASSUME AppsAssumption ==
    /\ AppOrder \in Seq(App) /\ Len(AppOrder) \in Nat
    /\ \A a \in App : \E i \in DOMAIN AppOrder : AppOrder[i] = a
    /\ \A i, j \in DOMAIN AppOrder : AppOrder[i] = AppOrder[j] => i = j
    /\ Source \in App
    /\ Handles \in [App -> SUBSET Class]
    /\ Blocks \subseteq App
    /\ MaxEvents \in Nat

Event == [cls : Class, pub : Publisher, n : Nat]
Sentinel == [stop |-> TRUE]

VARIABLES
    registry,   \* APPS, in insertion order
    mpc, mi,    \* the manager's label, and the application it is at
    active,     \* OFApp.is_active
    loop,       \* the label of each dispatch thread
    queue,      \* OFApp.events
    current,    \* the event each dispatch thread took
    handled,    \* events whose handlers have run
    ppc,        \* the label of each publisher
    sending, pi, \* the event it sends and the application it is at
    size,       \* the size of APPS when it began to iterate
    count       \* events it has begun to send

manVars == <<registry, mpc, mi, active>>
loopVars == <<loop, current, handled>>
pubVars == <<ppc, sending, pi, size, count>>
vars == <<manVars, loopVars, queue, pubVars>>

TypeOK ==
    /\ registry \in Seq(App)
    /\ mpc \in {"register", "start", "join", "flag", "wake", "wait", "close",
                "stuck", "clear", "done"}
    /\ mi \in 1 .. Len(AppOrder)
    /\ active \in [App -> BOOLEAN]
    /\ loop \in [App -> {"off", "check", "get", "handle", "exit"}]
    /\ queue \in [App -> Seq(Event \cup {Sentinel})]
    /\ current \in [App -> Event \cup {Sentinel}]
    /\ handled \in [App -> SUBSET Event]
    /\ ppc \in [Publisher -> {"idle", "put", "raised"}]
    /\ sending \in [Publisher -> Event \cup {Sentinel}]
    /\ pi \in [Publisher -> Nat] /\ size \in [Publisher -> Nat]
    /\ count \in [Publisher -> 0 .. MaxEvents]

Init ==
    /\ registry = <<>> /\ mpc = "register" /\ mi = 1
    /\ active = [a \in App |-> TRUE]
    /\ loop = [a \in App |-> "off"] /\ queue = [a \in App |-> <<>>]
    /\ current = [a \in App |-> Sentinel] /\ handled = [a \in App |-> {}]
    /\ ppc = [p \in Publisher |-> "idle"]
    /\ sending = [p \in Publisher |-> Sentinel]
    /\ pi = [p \in Publisher |-> 1] /\ size = [p \in Publisher |-> 0]
    /\ count = [p \in Publisher |-> 0]

-----------------------------------------------------------------------------
(* The manager *)

\* The next application, or the next phase if this was the last.
Advance(again, next) ==
    IF mi < Len(AppOrder) THEN mpc' = again /\ mi' = mi + 1
                          ELSE mpc' = next /\ mi' = 1

\* Slip: each application is started as soon as it is created.
RegisterAndStart ==
    /\ mpc = "register"
    /\ registry' = Append(registry, AppOrder[mi])
    /\ loop' = [loop EXCEPT ![AppOrder[mi]] = "check"]
    /\ Advance("register", "join")
    /\ UNCHANGED <<active, current, handled, queue, pubVars>>

\* create_contexts and the first loop of instantiate_apps.
RegisterApp ==
    /\ mpc = "register"
    /\ registry' = Append(registry, AppOrder[mi])
    /\ Advance("register", "start")
    /\ UNCHANGED <<active, loopVars, queue, pubVars>>

\* The second loop of instantiate_apps: OFApp.start.
StartApp ==
    /\ mpc = "start"
    /\ active' = [active EXCEPT ![AppOrder[mi]] = TRUE]
    /\ loop' = [loop EXCEPT ![AppOrder[mi]] = "check"]
    /\ Advance("start", "join")
    /\ UNCHANGED <<registry, current, handled, queue, pubVars>>

\* A keyboard interrupt ends joinall; close() begins.
Interrupt ==
    /\ mpc = "join" /\ mpc' = "flag"
    /\ UNCHANGED <<registry, mi, active, loopVars, queue, pubVars>>

\* OFApp.stop: clear the flag ...
StopFlag ==
    /\ mpc = "flag" /\ mpc' = "wake"
    /\ active' = [active EXCEPT ![AppOrder[mi]] = FALSE]
    /\ UNCHANGED <<registry, mi, loopVars, queue, pubVars>>

\* Slip: nothing wakes the thread.
StopQuietly ==
    /\ mpc = "wake" /\ mpc' = "wait"
    /\ UNCHANGED <<registry, mi, active, loopVars, queue, pubVars>>

\* ... queue the sentinel ...
StopWake ==
    /\ mpc = "wake" /\ mpc' = "wait"
    /\ queue' = [queue EXCEPT ![AppOrder[mi]] = Append(@, Sentinel)]
    /\ UNCHANGED <<registry, mi, active, loopVars, pubVars>>

\* ... and wait for the thread.
StopWait ==
    /\ mpc = "wait" /\ loop[AppOrder[mi]] = "exit"
    /\ mpc' = "close"
    /\ UNCHANGED <<registry, mi, active, loopVars, queue, pubVars>>

\* app.close() returns, or raises, which is suppressed.
CloseApp ==
    /\ mpc = "close"
    /\ Advance("flag", "clear")
    /\ UNCHANGED <<registry, active, loopVars, queue, pubVars>>

\* app.close() does not return: that of OFPHandler is OpenFlowController.stop,
\* which waits for its accept threads (module Listener).
CloseHangs ==
    /\ mpc = "close" /\ AppOrder[mi] \in Blocks
    /\ mpc' = "stuck"
    /\ UNCHANGED <<registry, mi, active, loopVars, queue, pubVars>>

\* APPS.clear()
Clear ==
    /\ mpc = "clear" /\ mpc' = "done"
    /\ registry' = <<>>
    /\ UNCHANGED <<mi, active, loopVars, queue, pubVars>>

Manager ==
    \/ RegisterApp \/ StartApp
    \/ StopFlag \/ StopWake \/ StopWait \/ CloseApp \/ Clear

-----------------------------------------------------------------------------
(* OFApp._event_loop *)

\* Slip: the loop tests the flag alone.
LoopCheckFlag(a) ==
    /\ loop[a] = "check"
    /\ loop' = [loop EXCEPT ![a] = IF active[a] THEN "get" ELSE "exit"]
    /\ UNCHANGED <<manVars, current, handled, queue, pubVars>>

\* while self.is_active or not self.events.empty()
LoopCheck(a) ==
    /\ loop[a] = "check"
    /\ loop' = [loop EXCEPT ![a] = IF active[a] \/ queue[a] # <<>>
                                   THEN "get" ELSE "exit"]
    /\ UNCHANGED <<manVars, current, handled, queue, pubVars>>

\* self.events.get(), which blocks while the queue is empty.
LoopGet(a) ==
    /\ loop[a] = "get" /\ queue[a] # <<>>
    /\ current' = [current EXCEPT ![a] = Head(queue[a])]
    /\ queue' = [queue EXCEPT ![a] = Tail(@)]
    /\ loop' = [loop EXCEPT ![a] = IF Head(queue[a]) = Sentinel
                                   THEN "check" ELSE "handle"]
    /\ UNCHANGED <<manVars, handled, pubVars>>

\* The handlers run; what one raises is logged.
LoopHandle(a) ==
    /\ loop[a] = "handle"
    /\ handled' = [handled EXCEPT ![a] = @ \cup {current[a]}]
    /\ loop' = [loop EXCEPT ![a] = "check"]
    /\ UNCHANGED <<manVars, current, queue, pubVars>>

EventLoop(a) == LoopCheck(a) \/ LoopGet(a) \/ LoopHandle(a)

-----------------------------------------------------------------------------
(* send_event_to_observers *)

\* A publisher exists once its source has started; it begins to walk APPS.
Publish(p, cls) ==
    /\ ppc[p] = "idle" /\ count[p] < MaxEvents
    /\ loop[Source] # "off"
    /\ ppc' = [ppc EXCEPT ![p] = "put"] /\ pi' = [pi EXCEPT ![p] = 1]
    /\ size' = [size EXCEPT ![p] = Len(registry)]
    /\ count' = [count EXCEPT ![p] = @ + 1]
    /\ sending' = [sending EXCEPT ![p] =
                     [cls |-> cls, pub |-> p, n |-> count[p] + 1]]
    /\ UNCHANGED <<manVars, loopVars, queue>>

\* The next application: it gets the event if it handles the class.
Put(p) ==
    /\ ppc[p] = "put" /\ Len(registry) = size[p] /\ pi[p] <= size[p]
    /\ LET a == registry[pi[p]] IN
       queue' = IF sending[p].cls \in Handles[a]
                THEN [queue EXCEPT ![a] = Append(@, sending[p])] ELSE queue
    /\ pi' = [pi EXCEPT ![p] = @ + 1]
    /\ UNCHANGED <<manVars, loopVars, ppc, sending, size, count>>

Published(p) ==
    /\ ppc[p] = "put" /\ Len(registry) = size[p] /\ pi[p] > size[p]
    /\ ppc' = [ppc EXCEPT ![p] = "idle"]
    /\ UNCHANGED <<manVars, loopVars, queue, sending, pi, size, count>>

\* APPS changed size during the iteration: RuntimeError in the publisher.
Raise(p) ==
    /\ ppc[p] = "put" /\ Len(registry) # size[p]
    /\ ppc' = [ppc EXCEPT ![p] = "raised"]
    /\ UNCHANGED <<manVars, loopVars, queue, sending, pi, size, count>>

Next ==
    \/ Manager \/ Interrupt \/ CloseHangs
    \/ \E a \in App : EventLoop(a)
    \/ \E p \in Publisher :
         (\E cls \in Class : Publish(p, cls)) \/ Put(p) \/ Published(p) \/ Raise(p)

\* Every thread runs; nobody has to interrupt or to publish, no close() to hang.
Spec ==
    /\ Init /\ [][Next]_vars
    /\ WF_vars(Manager)
    /\ \A a \in App : WF_vars(EventLoop(a))

-----------------------------------------------------------------------------
(* Properties *)

\* The events an application has been given.
Got(a) == handled[a] \cup { queue[a][i] : i \in DOMAIN queue[a] }
            \cup (IF loop[a] = "handle" THEN {current[a]} ELSE {})

\* As long as the manager has not cleared APPS, an event whose publication is
\* over was given to every application that handles its class, also to one
\* that had not been started yet, and send_event_to_observers did not raise:
\* all are registered before the first one starts (instantiate_apps), so APPS
\* does not grow under its iterator.
DeliveredToAll ==
    mpc # "done" =>
        \A p \in Publisher :
            /\ ppc[p] # "raised"
            /\ ppc[p] = "idle" /\ count[p] > 0
               => \A a \in App : sending[p].cls \in Handles[a] => sending[p] \in Got(a)

\* An event queued while the application runs is handled, even if the
\* application is stopped meanwhile: the dispatch thread drains its queue.
QueuedIsHandled ==
    \A a \in App, e \in [cls : Class, pub : Publisher, n : 1 .. MaxEvents] :
        active[a] /\ (\E i \in DOMAIN queue[a] : queue[a][i] = e)
        ~> e \in handled[a]

\* A stop wakes every dispatch thread and waits for it: no thread is left
\* blocked on its empty queue, and AppManager.close returns, if no more than
\* finitely many events are queued behind the stop (MaxEvents for each
\* publisher), unless the close() of an application in Blocks does not: that of
\* OFPHandler may wait for ever (StopReturns of module Listener).
ShutdownEnds == mpc = "flag" ~> mpc = "done" \/ (mpc = "stuck" /\ AppOrder[mi] \in Blocks)

=============================================================================
