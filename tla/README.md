# Verification of c65of

c65of is an OpenFlow 1.3 library and controller framework. This directory holds
TLA+ models of its concurrent core, the TLC runs that check them on small
instances, and proofs, checked by TLAPS, of what holds for every instance.

    tlc -config ChannelHandshake.cfg MCChannel.tla     # one run of PROJECT.json
    tlapm ChannelProofs.tla                            # the proofs

`PROJECT.json` lists every run with its configuration, maps each definition to
the source lines it models, lists for each property a plausible slip in the code
that breaks it (the definitions commented "Slip:"), and names the hazards the
properties are for.

## 1. Inventory

| Part | Source | State | Operations |
|---|---|---|---|
| Datapath | controller.py 87-321 | `state`, `id`, `ports`, `send_q`, `xid`, `unreplied_echo_requests`, `_stopped`, the socket | `set_state`, `close`, `set_xid`, `send`, `send_msg`, `hello_failed`, `serve`, and the loops of its threads |
| OFPHandler | controller.py 458-586 | none of its own; it writes that of datapaths | one handler for each of hello, features, echo request and reply, port status, error |
| OpenFlowController | controller.py 324-455 | listeners, accept threads, `is_active` | `start`, `stop`, accept loop, `serve_connection` |
| DPSet | dpset.py | `dps`, `port_state` | `_register`, `_unregister`, port events, getters |
| OFApp, AppManager | app.py | queue, `is_active`, thread of each application; `APPS` | `start`, `stop`, event loop, `send_event_to_observers`, `run_apps`, `close` |
| StreamParser, OFPStreamParser | packet/stream_parser.py, controller.py 61-84 | bytes not yet framed | `parse`, `try_parse` |
| hub | hub.py | - | `spawn`, `joinall`, `StreamServer` |
| Codec, messages, OXM, Nicira | codec.py, ofproto/ | registries filled at import | parse, serialize, JSON forms |
| Packet library | packet/ | - | parse, serialize, checksums |
| ofctl, ofp_event, lib | ofctl.py, ofp_event.py, lib/ | - | conversions |

How they interact. Every connection has three threads: the receive thread (the
thread `serve_connection` was spawned on), the writer and the echo thread. Every
application has one dispatch thread and a queue. The receive thread frames and
decodes messages, records what they say about the channel (`_absorb`), and puts
an event on the queue of every application that handles its class, stamped with
the phase of the channel when the message arrived; an application's thread drops
an event none of its handlers of that phase want. Answers go through `send_q` to
the writer, the only thread that writes to the socket. Threads share the fields
of the datapath, and nothing but the queues is synchronised: `set_state`,
`close`, `set_xid`, `Datapath.ports`, `APPS` and `DPSet.dps` are read and
written without a lock. DPSet learns of phases and port changes by events and
calls back into a datapath to close it.

What is hard: the order of a phase change and the request that follows it,
against the answer that arrives on another thread; `close()` called by up to
four threads, twice by one of them, while others are in `set_state`; a writer
that must be woken, must drain what was queued and must be gone before the
socket is closed; a switch that connects again before its old connection is
found dead; dictionaries iterated over on one thread and written on another;
stopping applications whose threads block on empty queues.

What makes each part correct:

- Datapath: hello first; no answer lost to the phase filter; ids known and ports
  complete when MAIN is announced; what was queued is sent; every connection
  ends, announced DEAD, its socket closed after its threads are done.
- Keepalive: silent switches go, prompt ones stay, across the wrap of the id.
- DPSet: for each id the newest live connection; enter and leave alternate; what
  the events say, what the getters return and what the switch has agree.
- Applications: an event reaches everyone who handles it; stopping drains and
  ends.
- Framing: the messages depend on the bytes, not on how they were cut up.
- Listeners: stopping leaves no socket, thread or connection behind and returns,
  however far starting had come; every connection is served or closed, whatever
  the others do.
- Wire formats: decoding gives what was encoded; lengths agree at every level of
  nesting; prerequisites go first; every walk over structures ends.
- Packets: what is sent has lengths and checksums a receiver accepts; what arrives,
  whole, cut short or with bytes behind it, is decoded as far as it goes and never
  raises.

## 2. Modules

| Module | What it is |
|---|---|
| `Channel` | one connection: Datapath and the handlers of OFPHandler, five threads, the switch |
| `Keepalive` | `set_xid` read by read, the echo loop and its list |
| `Registry` | the abstract registry: what DPSet promises |
| `DPSet` | DPSet's thread, the datapaths' port lists, reconnecting switches; implements `Registry` |
| `Apps` | applications, their threads, the manager, publishers |
| `StreamFraming` | `StreamParser.parse` turn by turn, over every way to cut a stream |
| `Listener` | `OpenFlowController`: start, stop, the accept loops on a plain and a TLS port |
| `Bytes` | big endian numbers and slices of bytes, for both wire formats |
| `Oxm` | match fields: one TLV, the field table, `OFPMatch` |
| `Structures` | registries, sizes and lists of OpenFlow structures; serializing |
| `Wire` | a message is serialized and parsed, turn by turn of the parsers' loops |
| `Checksum` | the internet checksum |
| `Headers` | headers and their parsers: Ethernet, VLAN, ARP, IPv4, IPv6 with its extension headers, LLDP, LACP |
| `Icmp` | ICMP and ICMPv6: bodies, options, records, checksums |
| `Packets` | `Packet`: serialize, the frame as it arrives, the walk over its headers |
| `SequenceLemmas` | lemmas about queues: what putting and taking does to their entries |
| `ChannelProofs` | theorems about `Channel` |
| `KeepaliveProofs` | theorems about `Keepalive` |
| `DPSetProofs` | theorems about `DPSet`, and that it implements `Registry` |
| `ListenerProofs` | theorems about `Listener` |
| `AppsProofs` | theorems about `Apps` |
| `FramingProofs` | theorems about `StreamFraming` |
| `WireProofs` | theorems about `Wire`, the structures it is built from, and `Checksum` |
| `MC...` | the values of constants for TLC |

**Channel.** A thread is a label in `pc`; an action is the code between two
points at which another thread can be noticed. `set_state` is three steps
(`Test`, `Assign`, `Tell`), `close` is two around it (`Stop`, `PutSentinel`), and
any thread may be in them: `target` is the argument, `back` where it goes on.
`send` reads `send_q` and puts in one step; a put after the writer left is never
read, as if it had been made just before. `queue` is the queue object, `open`
says that `send_q` still names it. The receive thread frames a whole read into
`batch` (a frame of an unknown version discards it), then for each message
`Stamp`, `Absorb`, `Publish`, `Notify`. `inbox` is OFPHandler's event queue;
`told` is the history of what other applications were sent. A handler's
`set_state` and `send_msg` calls are steps in their order (`out`). The closer
thread stands for DPSet, which closes a datapath it was told is in MAIN.

The switch is part of the model: with `Rogue` it may send any message at any
time; otherwise it greets once, answers what it was asked, and reports port
changes once it has greeted. With `MultiPart` it may split its port
description. Messages have no contents but what `_absorb` and the handlers
look at. Data is chosen when `recv` returns it: being in the network is the
receive thread not having run.

**Keepalive.** The three reads of `self.xid` in `set_xid` are three steps of any
thread, as a thread may lose the processor at the call between them. `flight` is
what the switch has still to answer. `raced` records that two threads were in
`set_xid` at once, `late` that at the end of some interval too many answers were
missing: the properties say what holds without either.

**Registry, DPSet.** The abstract registry says only: a connection takes its id
once, from nobody or from an earlier one, which is then closed, and a holder gives
its id up only after it was closed. DPSet
adds queues, threads and failures: `_register` copies the ports turn by turn of
its loop while OFPHandler's thread (`TrackPort`) changes the dictionary, in which
case the iterator raises; `raised` records for which ids. The refinement maps
`holder` to `dps`, `used` to the connections whose MAIN DPSet has taken, and `dead` to
those announced DEAD. The
connections follow what the receive threads do with keepalive off (the default):
MAIN is told before DEAD. A status is stamped and published in two steps, so one
stamped before a close is published after it.

**Apps.** `AppManager.run_apps` from the creation of applications to `close`,
with one event loop for each and publishers that iterate over `APPS`. `close` stops an
application (`StopFlag`, `StopWake`, `StopWait`) and calls its `close()` (`CloseApp`) before
it goes to the next. What that call does is the application's: that of OFPHandler is
`OpenFlowController.stop`, which is in `Listener` and may never return (run listener_silent), so
here it may hang (`CloseHangs`), for the applications in `Blocks`. What it raises is suppressed,
as if it had returned.

**StreamFraming.** `StreamParser.parse` on bytes, one action for each turn of its
loop: `Resync` (a length below the header), `Frame`, `TooSmall`, `Raises` (a
version not spoken, which also discards the messages framed in the same read), and
`Dispatch` for the loop of `_recv_loop`. The first byte of a message stands for
what `base.msg` makes of it, the second for its length. `MessagesOf` is the
reference: the messages of a stream in one piece, read from the front (`MessagesFrom`),
where `Onward` is what the bytes at one place give and where the next message begins.
`Channel` starts where this
module ends, with whole messages in batches.

**Listener.** A listening socket and the accept thread on it are identified by their
port and the call of `start` that made them, as `_listen` and `_accept_on` come in
pairs. `spc` is the thread in `start` and then `__call__`, `tpc` the one in `stop`,
which may be called once `start` has returned or raised; `apc` are the accept threads.
A connection goes from the backlog of a socket (`Connect`) to the hand of a thread
(`Accept`), on the TLS port through `wrap_socket`, and on to `serving`, where `Channel`
begins. `accept` returns a connection, times out, or raises: at once on a closed socket
(`CallAccept`), by running out of file descriptors on an open one (`AcceptFails`). Closing
a socket resets what is in its backlog and does not wake a thread in `accept`.

**Oxm, Structures, Wire.** A structure is a node of a tree: kind, type, the bytes
of its fixed part, the structures inside. A `struct` format packs and unpacks bytes
in place, so values are bytes here, and what is modelled is where they are: types, lengths,
padding, lists, and which class a type finds. The parsers are loops that call each
other; a running loop is a frame of `stack` (list, offset, end, structures read),
a turn is `Step`, a turn that reads an inner list is `Enter` and `Leave`, an
exception anywhere is `Raise`, which `base.msg` turns into no message. Fields of a match
are those of one name for each shape of header and size of value. Messages are those a
caller or a switch builds from structures, with types the registries know or not.
Messages only a switch sends are serialized here as the protocol has them, by the sizes their
parsers use. `Structure` is the set of all well-made structures nested up to `MaxDepth`, `WellFormed`
that of the messages built from them: a body has the size of its class, a list holds what its
parser reads (a port status one port), a connection tracking action takes its zone from a field whose header has four bytes, a set-field action sets a field of `Settable`, and the message fits the 16 bits of
its length. `Bytes` serializes a structure by recursion on that set.

**Bytes, Checksum, Headers, Icmp, Packets.** A header is a node as well: name, the bytes
of its struct, the nodes in its list (extension headers, options, records, TLVs), trailing
bytes. Each class has its parser, which gives a header, the class of what follows and
the rest of the buffer, or fails as the code does: `Short` is the `struct.error` the
walk ends at, `Raised` any other exception, which comes out of `Packet()`. A serializer
fills in what the caller left zero, lengths, counts, checksums. `Pack` is a turn of
`Packet.serialize`, innermost header first; `Send` chooses what arrives, the frame, the
first n bytes of it, or the frame with bytes behind it; `Parses`, `Breaks`, `Raises`,
`Padding` and `Rest` are the turns of `Packet._parse`. Every frame of the run `packets`,
whole, cut and with bytes behind (6,480 buffers), was also given to the library, and the
model and the library agree on all of them.

## 3. Runs

| Run | Shows | Bounds |
|---|---|---|
| channel_handshake | safety of a connection with a conforming switch, closed by another thread at will | 1 port, 5 messages, 2 in a read |
| channel_teardown | hello first, nothing queued is lost, serve ends, whatever mixture of good and bad greetings arrives and however the echo thread ends it | 1 message, 2 echo requests, 1 tolerated |
| keepalive | the list of unanswered requests, prompt and silent switches | ids 0..3, 1 tolerated, 1 request of another thread |
| dpset | the registry refines `Registry`; events, port state and switch agree | 2 connections of a switch, 2 ports, 2 changes |
| stream_framing | what `parse` returns depends on the bytes alone; no byte is lost; `parse` returns | 6 bytes of 4 values, header of 2, reads of up to 3 |
| wire | every message comes back from its bytes, lengths agree, parsers end | all message types; each structure in the lists it may be in; up to 6 structures in a list, match and instructions in a flow, actions in an instruction, in a connection tracking action; nested up to 6 deep (`MaxDepth`) |
| apps | delivery, draining; shutdown ends, unless the `close()` of an application hangs | 3 applications, the `close()` of one may hang, 1 publisher, 2 events |
| listener | stop leaves nothing behind and returns; every connection is served or closed | 2 clients, both ports, 2 starts, binding, certificates and accepting may fail |
| packets | packets come back from their frames, also cut short or with bytes behind; lengths and checksums are right; nothing raises | 83 packets: every header, each type of body, lists of up to 5; payloads of even and odd length, of zeros and none; every cut; 2 trailers |

Five messages are what a handshake with one port change and one more message
takes (hello, features, port description, two port statuses). Two messages in a
read are the smallest read in which a phase changes between two messages of it. A
message of an unknown version, which ends the connection the way the end of the
stream does, comes only in
channel_teardown; that it discards what was framed before it is in stream_framing. Two echo requests with
one tolerated let the loop go on once, and give up once. Ids are taken modulo 4
from every start value, so the wrap is met with requests in flight. Two
connections of one switch are what a reconnect takes; two ports make the copying
loop take a turn in between; two changes let one come before and one after
registration. Six bytes are three headers, or a longer message and a
header; reads of one to three bytes end inside a header, inside a body, and behind
a message. Three applications put one before and one behind the source of
events.

In `wire` every registered type of action, instruction, band, queue property and
multipart reply occurs, next to another structure, so that a wrong length shows in what
follows, and unknown ones; values of a match differ in length by 1, 2, 3, 4, 6 and 16 bytes, so that
every remainder modulo 8 is met, masked or not, with experimenter headers of four and six bytes.

Runs expected to find a violation, each of a statement of the repository:

| Run | Statement | What happens |
|---|---|---|
| channel_echo | dpset.py 177: a datapath going DEAD is unregistered | the receive thread assigns MAIN (controller.py 144); before it announces it (148), the echo thread, which has found too many requests unanswered, closes the datapath: it assigns DEAD and announces it. Applications are told DEAD, then MAIN, and the final `close()` of `serve` finds the state DEAD and tells nothing |
| dpset_lost_enter | dpset.py 3: EventDP for connects and disconnects | a port changes while `_register` iterates: RuntimeError, no enter event, later a leave |
| listener_silent | controller.py 385: close the listeners and wait for the accept threads; 409: the listener times out and rechecks `is_active` | a client that connects to the TLS port and says nothing blocks the accept thread in `wrap_socket`, which has no timeout: no other switch is accepted there, and `stop` never returns |

Departures of the code from its statements that the passing runs leave out, by a
named condition or a value of a constant, and the change that makes TLC show them:

| Statement | What happens | To see it |
|---|---|---|
| controller.py 543: track the port and republish the change | a port status between two parts of the port description is stamped CONFIG and dropped; the port list keeps what the switch deleted | `MultiPart = TRUE` in ChannelHandshake.cfg: `PortsMirror` |
| dpset.py 137: asserts that the datapath has an id | a switch that describes its ports unasked, after `hello_handler` has assigned CONFIG and before any features reply, takes the datapath to MAIN with id None | `Rogue = TRUE` in ChannelHandshake.cfg: `NewsInOrder` |
| controller.py 160: assign the next id and return it | two threads in `set_xid`: one returns the id of the other; in the echo loop it then stays on the list for good, and prompt switches are dropped | drop `~raced` from `ListIsFlight` |
| controller.py 325: gives each switch connection a Datapath | any OSError of `accept` other than the timeout ends the accept loop, also one that passes, with the listener open and `is_active` true | drop the last line of `EachServed` |
| base.py 577: the OXM TLV is padded out to 8 bytes | the length is taken without the experimenter id of the field's header, so the padding is written over the value: setting `actset_output` to a port sets 0 | `Message <- MCSetField`, `Settable <- MCSettableAll` in Wire.cfg: `RoundTrip` |
| icmpv6.py 248: decode every option that follows | `nd_option_la.parser` takes all that is left as its data, so options behind a link-layer address are lost | `PACKETS <- AddressThenMtu` in Packets.cfg: `RoundTrip` |
| ipv6.py 242: a routing type other than 3 decodes as None | the loop of `ipv6.parser` takes `len(None)`: TypeError out of `Packet()` | `PACKETS <- RoutingType2`: `NeverRaises` |
| packet_utils.py 47: RFC 2460 8.1 | the pseudo header has the next header of the IPv6 header, which behind an extension header is not that of the message | `PACKETS <- ReportWithAlert`: `ChecksumsVerify` |
| ipv6.py 321: sizes the header from the address list | the padding of compressed addresses is counted and never written | `PACKETS <- CompressedRoute`: `LengthsAgree` |

The last five were confirmed by running the library.

Other things the models show that contradict no statement: `hello_handler` may
take a datapath from DEAD back to CONFIG (the qualification in `Teardown`); a
features reply in MAIN, which an application gets by asking again, empties the port
list, and nothing fills it again; a message queued behind the sentinel of `close()` is
accepted and never written; after a reconnect the kept port state stays as it was even
if ports changed in between (`PortsConverge` is about a switch that connected once);
`APPS.clear()` makes a publisher that iterates raise (`DeliveredToAll` ends
there).

Of the wire formats: `PrerequisiteFirst` is about OpenFlow and experimenter fields,
as Nicira's classes 0 and 1 sort before `eth_type` whatever they require; experimenter
fields of one experimenter stay in the order they were named in; the entry of an experimenter
reply counts as 16 bytes however long it is, so a longer one is read again, and one whose
last 16 bytes hold less than a header is refused (`RoundTrip` allows that);
`OFPExperimenterOxmId.serialize` cannot succeed, as the assertion it inherits excludes
its class; a connection tracking action whose `zone_src` is a field of an experimenter, or one
the table does not have, is written with a header that its parser refuses (`ZoneFits` leaves it out).

Of the packets: the length of a hop-by-hop or destination options header is kept in
bytes behind the first 8, where the protocol counts units of 8 (`ext_len` is as
in the code, which reads back what it writes); `ipv6.parser` takes `payload_length`, which counts
the extension headers, from behind them, so bytes behind such a frame are taken for payload
(`EndsPacket`); a payload of zeros is taken for padding.

### Fairness

Weak fairness for each thread: they are operating system threads, sockets have
timeouts so `recv`, `sendall` and `accept` return, and `get()` on an empty queue
and `join` are disabled actions, not fair ones. The echo thread need
not give up while the channel is open: that takes a switch that does not answer, and nothing
is assumed of the switch, the network, an interrupt, another closer or a publisher. `recv` may
time out for ever. In `Apps`, `ShutdownEnds` assumes finitely many events behind
the stop; a publisher that never pauses could keep a loop draining. The manager goes on, but
nothing makes a `close()` of `Blocks` return or hang; where it hangs is where `ShutdownEnds` stops. In `Listener` the
threads in `start` and `stop` and each accept thread run, and a client that is not in
`Silent` completes or fails its handshake; nobody has to connect, leave, start or stop.
`Packets` has no liveness property and no fairness: every turn of both loops takes a header
from a list or bytes from a buffer.

Deadlock checking is off in every run: connections end, applications stop, and
the bounded environments run out of input.

## 4. Proofs

Every safety invariant that a run checks is proved here for every value of the
constants, except those of `Packets`. A theorem about a module
needs the `ASSUME` of that module, which says of what kind the constants are, and
nothing else but the hypotheses it names. Each inductive invariant was checked by
TLC on the instance of its run before it was proved (where it quantifies over all
sequences or sets to name the value of a variable, with the variable itself; the
first part of `OnTrack`, over all that may arrive, was not, and of the invariant of `Wire`, which
has a sequence of structures for a witness, only what follows from it, the three properties). A lemma
for each part says that a step keeps it, with one step of the proof for each action.

`SequenceLemmas` has the facts about queues the others share: whether an entry is in
a queue, once, behind or before another, and what the last entry of some kind is,
after a put at the end or a take from the head. `LastIn` is how a later message
overrides an earlier one. `Least`, that a set of naturals has a smallest member,
stands for induction.

`ChannelProofs`. Thread labels and queues for any ports, ids and bounds:

- `TypeCorrect`: `Spec => []TypeOK`. `TypeOK` is not inductive: `Absorb` takes the
  head of `batch`, `HandlerSends` that of `out`. `TInv` adds `Control` (the labels,
  targets and return labels each thread can have) and `Loaded` (what is not empty
  at which label).
- `SocketClosedLast`: `Spec => []ClosedAfterWriter`. With `WriterState`: the writer
  has not started before `Serve`, is done exactly when `send_q` is gone, and the
  echo thread starts after it; `Join` waits for both, and neither comes back.
- `HelloGoesFirst`: `Spec => []HelloFirst`. With `HelloState`: before `Serve` no
  other thread can act at all, as OFPHandler has no event and DPSet was told of
  no MAIN; after it, until the writer has written, the hello is the head of the
  queue, since all others only append.
- `NewsComesInOrder`, `AnswersFitTheirPhase`: `NewsInOrder` and `StampFitsReply`, when
  the switch keeps to the protocol (`~Rogue`, without which neither holds). `HInv`
  follows an answer back to its cause. `FeaturesOnce`: the request is made on the way
  to CONFIG, the reply only once the request is on the wire, and framed at most once;
  `PortsAfterFeatures`: ports are asked for when no features reply is left and the id is
  known; `DescribedOnce`: the last part of the description comes last, and MAIN is
  entered for it; `MainFirst`: nothing is stamped MAIN
  before MAIN was told; `Stamped`: what is
  being dispatched was stamped CONFIG, or DEAD.
- `EndsWithDead`: `EndsDead`, with `~Rogue` and the keepalive off
  (`MaxUnreplied = 0`, the default; with it on the run channel_echo refutes the
  statement). `EInv` adds that only one of hello and its refusal is taken
  (`Greetings`), that while the receive thread enters MAIN nobody can close the
  datapath (`EntersAlone`: DPSet closes what it was told of, the handler what greeted
  badly), and that the phase DEAD is told or about to be (`DeadIsNews`).
- `PortsAreMirrored`: `PortsMirror`, with `~Rogue` and a port description in one piece
  (`~MultiPart`; with parts it fails, section 3). `PInv` says for each port what decides it:
  the last status or description about it that is framed, else the last one queued for
  OFPHandler, else the list of the datapath.

`KeepaliveProofs`, for any range of ids, tolerance and number of senders:
`TypeCorrect`; `ListHoldsFlight` (`ListIsFlight`) and `PromptSwitchIsKept`
(`KeepsPromptSwitch`) by `KInv`: unless two threads were in `set_xid` at once, one thread
at most is, and returns what it put on its message (`Alone`); the list is `flight`, with
the id of the request the loop is about to queue (`Listed`); and, unless
too many answers were missing at the end of some interval, no more are on the wire than
are tolerated when the loop checks (`Counted`). That taking the first id that is equal takes the
right one, also when ids have wrapped, needs no more: the answers come in order.

`DPSetProofs`, for any switches, reconnects, ports (finitely many) and changes:

- `TypeCorrect` and `RegistryIsCurrent` (`RegistryCurrent`) by `SInv`: MAIN and DEAD of a
  connection are announced once and in this order (`Announced`), an id is held
  only by a connection whose MAIN was handled and whose DEAD was not, and by every one in
  MAIN (`Held`), and what is being registered is registered already (`Copying`).
- `Refinement`: `Spec => ImplementsRegistry`. With `SInv`, each action of `DPSet` is an
  `Enter`, `Die` or `Leave` of `Registry` under the mapping, or changes nothing it sees.
- `EnterLeaveInTurn` (`EntersAndLeaves`) by `Entered`: the last event of an id is its
  enter exactly when it is registered and not still being registered, unless `_register`
  raised for it.
- `ViewsMatch` (`ViewMatches`): the ports that the events give an application are
  those of `port_state`. `View` says so for each port by the last event about it,
  `Followed` keeps it through the copying loop, in which the ports copied so far are
  already state and not yet event (`CopiedIsState`).
- `PortsDoConverge` (`PortsConverge`): `Leads` says that, of what is on the wire, in the
  hand of the receive thread, in the queue and in the list, the first that speaks about a port
  tells whether the switch has it. It is kept for the description of the switch
  (`Described`), for `Datapath.ports` by the queue of OFPHandler (`Mirrored`), and for
  the port state by the queue of DPSet (`Kept`). The two threads handle the same
  statuses in any order, and while MAIN is still queued the port state will be copied from
  a list that OFPHandler changes: `Published` says that any status OFPHandler
  still has, DPSet still has too, and `CopiedIsThere` that a port already copied can
  be gone from the list only if its deletion is still to come.

`ListenerProofs`, for any clients, number of starts and faults: `TypeCorrect`,
`StopLeavesNothing` (`StoppedIsQuiet`), `NoConnectionIsDropped` (`AcceptedIsInHand`).
`LInv` says how far `start` has come at each of its lines and that nothing of an earlier
run is left (`Starting`), what `stop` has still to close and join (`Stopping`: every socket that
listens and every thread that runs is on its list), and which thread has which
connection (`Handing`).

`AppsProofs`, for any applications, classes, publishers and events: `TypeCorrect` and
`PublicationsAreComplete` (`DeliveredToAll`). `Walking`: a publisher has given its
event to all that handle it in the part of `APPS` it has walked, and `Starting`: `APPS` is
complete before the first application runs.

`FramingProofs`, for every stream, header size and bound; bytes are numbers, a header has
at least the two bytes framing looks at:

- `TypeCorrect`: `Spec => []TypeOK`, which is inductive once it is known that a
  turn of `parse` takes no more than the buffer holds (`Turn`).
- `NothingLost`: `Spec => []BufferIsRest`, inductive with `TypeOK`. It rests on two
  lemmas about slices: taking n and then m bytes is taking n + m
  (`BehindBehind`), and bytes may arrive before or after some are taken
  (`BehindConcat`).
- `CutsDoNotMatter`: `Spec => []SameMessages`. That the recursive reference exists is
  proved by induction from the end of the stream (`Backwards`, `Readable`), which gives the rule
  it obeys (`MessagesRule`). `OnTrack`: whatever arrives later, what was
  dispatched, the messages in hand and what the reference reads from the place reached
  are together the messages of the whole stream. As it speaks about every continuation,
  a read of more bytes keeps it without more ado; turns of `parse` and of the
  dispatch loop each follow one use of the rule. An entry None, of bytes `base.msg`
  makes nothing of, disappears when it is dispatched (`Todo`).

`WireProofs`, for every message of `WellFormed`, however long its lists and however deep (any
`MaxDepth`) its structures are:

- `MessagesRoundTrip`: `Spec => []RoundTrip`; `LengthsDoNest`: `Spec => []LengthsNest`;
  `PrerequisitesComeFirst`: `Spec => []PrerequisiteFirst`. All three assume `PlainSettable`: a set-field
  action sets a field without an experimenter header. With one, the first does not hold (section 3).
- They rest on one invariant, `IInv`. Beside the stack of the parser it follows a shadow of
  it (`Walk`): to each frame belongs the list that was serialized there and how many of its
  structures are read, the bytes of that list lie in the buffer from the offset of the frame
  to its end (`Level`), what the frame has collected is what was read, less what
  is passed over (`Turned`), and each list is inside the structure the frame below it is
  at (`Linked`). The entry of an experimenter reply, which is read more than once, is
  treated apart (`Alone`). Without the shadow a frame is two numbers, and nothing says that the bytes
  between them are a structure. One lemma for each action (`StepKeeps`, `EnterKeeps`, `LeaveKeeps`,
  `RaiseKeeps` and so on), below it one for each kind of structure: its parser, at a place where its bytes lie, finds
  its class, takes its length and either makes the same structure or goes into the
  same list.
- `OxmTlvRoundTrip`: `oxm_parse` undoes `oxm_serialize` wherever in a buffer the field is. For it,
  no two fields of the table share a header.
- `MatchSorts`: `OFPMatch` is a stable sort: each field once, by key, those of one key in the order
  given. `PrerequisitesComeFirst` follows from it and the keys of the table.
- `AllGood`: every structure has at least the four bytes its parser reads before it knows what
  it is, and is a multiple of 8 long, but for the kinds the protocol packs.
- What recursion computes is proved by induction over how deep a structure is nested: `Nested`,
  `Bytes`, `Known` and `Unparsable` are recursive functions on sets that end at `MaxDepth`, so their rules
  (`NestedRule`, `BytesRule`, `KnownRule`, `UnparsableRule`) are shown for depths `0 .. n` one after the
  other (`Upwards`).
- `FoldFits`: two folds of `checksum` give 16 bits for every sum of up to 65,536 words, so a
  third one is never needed; `FoldKeepsSum`: they keep the sum modulo 65,535, and
  give 0 for 0 alone; `SumWithChecksum`: sum and checksum add up to a multiple of 65,535 other than 0.
- `ChecksumIsVerified`: for every buffer of up to 128 KiB, of even or odd length, that holds of the
  sum of its words. `ChecksumFilledIn`: writing `checksum(data)` into a field at an even place of the buffer that is
  zero makes the buffer verify (`Verifies`), which is what `ChecksumsVerify` asks of the checksums in a frame;
  the theorem covers the carries no bounded set of packets can.

Proving changed the models in these places: a `CASE` of `Channel` had two branches for one
message; `EndsDead` and `View` are said without the operators of the
community modules; `MessagesOf` is a recursive function; structures, their bytes and
their rules are functions on a set of bounded depth instead of recursive operators, and what a
message may hold, which only `MCWire` said, became the assumption of `Wire`; the sort of
`OFPMatch` is by the rank of each field; the words of a checksum are added by a function.

Only model-checked:

- Liveness, which needs fairness and ENABLED: `QueuedIsSent`, `Teardown`, `EndOfServe`,
  `EchoThreadEnds`, `SilentSwitchIsClosed`, `DeadIsForgotten`, `QueuedIsHandled`,
  `ShutdownEnds`, `EachServed`, `StopReturns`, `ParseReturns`, `WalkEnds`.
- The invariants of `Packets`: they are about what recursive operators (`Headers`, `Icmp`)
  compute from trees, which the prover cannot take. Of `ChecksumsVerify` the arithmetic is proved.

## 5. Not modelled

- The bodies of multipart requests, which only a switch reads; values of fields and structures
  as the API shows them (addresses, names, the version bitmap), JSON and printed forms:
  conversions no property is about.
- A set-field of an experimenter's field, with or without a mask, is not in `MCMessage`, and the theorems
  of `WireProofs` exclude it (`PlainSettable`): its length is wrong (above). The same holds of a zone from
  such a field. Messages that are not serialized by the library or as the protocol has them are not parsed
  in `Wire`: no hello element or property of length zero, no padding behind the elements of a hello.
- `hub.StreamServer`, which only its tests use, and `fletcher_checksum`,
  which no header uses. `spawn` and `joinall` appear as threads and waits.
- `ofctl`: a stateless translation of dictionaries.
- Importing applications, decorators, generation of event classes, address and constant
  tables: no state after import.
- A `start` of an application that raises: `run_apps` passes the exception on and stops
  nothing; what is to become of the others is not said anywhere. Of `OpenFlowController.start`
  every failure is in `Listener`.
- What `close()` of an application does inside `Apps`; `stop()` of one application outside `AppManager.close`.
- TLS: a handshake that succeeds, fails or never comes. Memory and queue limits: `send_q` is
  unbounded on purpose. The getters of DPSet between the two assignments of `_register`:
  called by applications only.

## 6. Plan

Done, most important behaviour first: `Channel` and its proofs, `Keepalive`,
`Registry` and `DPSet`, `Apps`, `StreamFraming` and its proofs, `Oxm`, `Structures`,
`Wire`, `Listener`, `Checksum`, `Headers`, `Icmp`, `Packets`; then the proofs of every safety invariant of
`Channel`, `Keepalive`, `DPSet`, `Apps`, `Listener`, `StreamFraming` and `Wire`, of the refinement of
`Registry`, and of `Checksum`. What could come next:

1. The recursive operators of `Headers` and `Icmp` as functions on sets of bounded depth, as
   in `Structures`; then `LengthsAgree`, `ChecksumsVerify` and `RoundTrip` of `Packets` can be proved in the
   way of `WireProofs`.
2. `WalkEnds` and `ParseReturns` rest on a measure that falls with each turn: that it falls
   is a safety property and can be proved; `AllGood` gives it for messages that were serialized.
