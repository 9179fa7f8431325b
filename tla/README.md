# P2P livestreaming: verification project

TLA+ modules, TLC configurations and TLAPS proofs for the P2P livestreaming
system: an OpenFlow controller that watches the RTMP dialogue of a livestream
pass through a switch and, when broadcaster and viewer are both behind that
switch, tells them of each other by rewriting the heartbeats of a notification
channel, so that the stream can go from one to the other directly instead of
through the CDN.

Contents: 1 inventory; 2 modules and how they correspond to the code; 3 runs,
bounds and fairness; 4 proofs; 5 findings and observations; 6 what is not
modelled; 7 what remains; 8 how to run.

Abbreviations for sources: `bypass.py`, `direct.py` are under
`src/src/pox/pox/livestreaming/`; `of_01.py` under `src/src/pox/pox/openflow/`;
`recoco.py` under `src/src/pox/pox/lib/recoco/`; `cdn-server.py`, `viewer.py`,
`broadcaster.py`, `common.py` under `src/src/hosts/`; `live.py`, `topo.py` under
`src/src/`.

## 1. Inventory

| part | source | state | operations | interacts with |
|---|---|---|---|---|
| bypass controller | `bypass.py` | MAC table, three role records, five status flags, `p2p_enabled`, `p2p_set_off`, `prepend_buf` | PacketIn handlers: normal, RTMP, notification | the switch, over one OpenFlow connection |
| RTMP parser | `bypass.py` 51-170, 351-373 | `prepend_buf`, one for all connections | parse a chunk, look for keywords, loop over a segment | called by the RTMP handler |
| direct controller | `direct.py` | MAC table; the switch's flow table with its timeouts | PacketIn: flood, drop, install; ConnectionUp | the same switch; baseline of the experiment |
| CDN notification service | `cdn-server.py` | a process per channel, a shared lock, a list of processes | accept, heartbeat, exit | hosts, over TCP port 42857 |
| viewer | `viewer.py` | two player processes, a socket | receive loop, switch-over, exit | service, peer's encoder, mplayer |
| broadcaster | `broadcaster.py` | encoder processes, list of peers told of | receive loop, start peer stream, exit | service, viewer's player, ffmpeg |
| notice format | `common.py`, `bypass.py` 604-611 | none | pad, recognise, parse | written by the controller, read by both hosts |
| experiment driver | `live.py`, `src/run.sh` | processes launched | launch and kill, in order, with sleeps | all hosts |
| POX OpenFlow core | `of_01.py`, `openflow/__init__.py` | connections, their handshake, the connection table, the deferred sender's queues | accept, read, send, disconnect, in two threads | both controllers; every switch |
| POX scheduler | `recoco.py` | ready queue, select hub, timers, calls of other threads | schedule, select, sleep, callLater, quit, in several threads | runs the OpenFlow task and everything in it |
| prototype | `src/prototype/` | stored frames, sockets | a frame protocol over TCP | none of the above; an earlier design |

What is hard in each part, and what makes it correct:

| part | hard behaviour | correct if |
|---|---|---|
| bypass controller | order, interleaving and cutting of RTMP segments; assertions in the middle of a handler; two-message switch updates; reconnection | flags imply the roles they are used with; the decision is taken, once, and is final; only the right host is told, of the right peer; nobody is muted untold; no flow entry bypasses a watching controller; video stops passing through it afterwards |
| RTMP parser | headers of 1 to 14 bytes, boundaries at one byte too many or too few, bytes kept from one segment to the next | what was sent is recognised, and nothing else is |
| direct controller | two places remember where a host is, neither is told when it moves | wrong entries end in time, a host that speaks is found, all are reached again and again |
| notification service | a process that ends or blocks with the lock held; a signal between `start()` and `append()` | the lock excludes and is lost only to a break; heartbeats go on; hosts are accepted; clean-up leaves nothing |
| viewer, broadcaster | what one `recv` returns, end of file, players found by name only, a peer that is not ready | one stream at a time; left only when told; the encoder goes to the viewer alone, once; the viewer is never left without a stream |
| notice format | addresses of full length, messages run together | the address read is the one written |
| driver | hosts that outlive the service | the hosts' promises hold during the kill sequence too |
| OpenFlow core | two threads write to one socket and close it; a switch connects twice | bytes are taken once and in order; ConnectionDown is final, once from each thread at most; every ConnectionUp gets its ConnectionDown; the table holds the live connection |
| scheduler | flags cleared and queues read in an order other threads do not wait for | no task is in two places; no wake-up is lost; calls are made once and in order; timers fire; quitting ends both threads |
| prototype | what one `recv` returns; control bytes inside pictures | frames arrive whole and in order; a broadcast gets through |

`PROJECT.json` lists every component with its status and every hazard at the
line where it bites.

## 2. Modules

    OrderedChannel  <--implements--  OpenFlowChannel   (POX's end of an OpenFlow connection)
        : justifies the FIFO channels of
    Steering  <--implements--  BypassSwitch            (controller and switch)
        ^                         : takes Parses from RtmpParser's rules
        | used by
    P2PSession  --implements-->  Switchover            (what the viewer is promised)
      EXTENDS ViewerHost, BroadcasterHost, which EXTEND NotifyChannel
    CdnServer                                          (the service the session takes as working)
    LaterCalls  <--implements--  Recoco                (POX's scheduler)
    DirectSwitch                                       (the baseline's controller and switch)
    FrameStream                                        (the prototype)

`MCx` instantiates module x for TLC, `x_proofs` holds the theorems about it.
Definitions marked "Mutant" (or described as an altered variant) stand next to
the definition they alter and are used by nothing; each is a plausible bug
that some property must notice.

### BypassSwitch

The controller of `bypass.py` with the one switch it drives. POX runs handlers
one at a time, so each handler is one action; the controller and the switch are
joined by two FIFO channels, `toCtl` and `toSw`, and everything between two of
their messages may interleave.

* `HandlePacketIn` takes the oldest packet-in and is one of `HandleNormal`
  (252-286), `RtmpPass`, `RtmpBuffer`, `RtmpUnparsed`, `RtmpObserve` (289-484),
  `NotifyForward`, `NotifyTell`, `NotifyFail` (564-626). Every handler first
  updates the MAC table.
* An exception raised in a handler is swallowed by POX
  (`raiseEventNoErrors`): what the handler had assigned stays assigned, and the
  packet is forgotten. `RtmpObserve` therefore handles messages up to the first
  failing assertion; `NotifyFail` is the failing notification handler.
* A role is one variable, a host: the port, MAC and IP fields of a role are
  always assigned together from one packet, and a host has one of each. The
  TCP port fields are used only in code that is commented out.
* Payloads are sequences of pieces. The lengths the handler tests are
  abstracted to what they single out: 12 bytes are a message's head, 88 and 89 a
  handshake. `Parses` is what the parser does with whole messages, heads and
  rests; a head followed by anything but its own rest never parses.
* `assert srcport != dstport` holds by `TrafficAssumption`: no client socket
  uses a well-known port.
* Flow entries are exact matches and permanent: the controller leaves the
  OpenFlow timeouts at 0. `Arrive` and `Apply` are the data plane; a loss, a
  retransmission or a reordering by the network is the absence, repetition or
  order of arrivals. `Prompted` keeps the hosts' side honest: the service
  answers only what has reached it.
* `Reconnect` is the switch connecting again: POX deletes its flows and
  `BypassLivestreaming` makes a new `LearningSwitch` (654-663).

**Steering** is what this promises: watch, decide once, tell only in the P2P
stage, mute only who was told. The refinement mapping reads `mode` off the two
flags, `told` off the notices on the wire, `muted` off the drop entries.

### CdnServer

`run` and `_exit_on_kill` of `cdn-server.py`: the main process (`Listen`,
`Accept`, `Enlist`, `CleanUp`, `Exit`), one heartbeat process per channel
(`Acquire`, `Send`, `SendFails`, `Release`, `Wake`, `Die`), and the hosts
(`Connect`, `Deliver`, `GoDeaf`, `TimeOut`, `Close`). The lock is a semaphore
that nothing gives back when its holder dies. Forked processes inherit the
signal handlers, and with them the `kill` of everything on the port; they also
keep the parent's descriptors open, so that the end of one process is not the
end of its connection. `exit(0)` joins the children. Heartbeats are sent whole;
a partial write that then blocks is the same as one that blocks.

### NotifyChannel, ViewerHost, BroadcasterHost, P2PSession

One run of `live.py` with its viewer and its broadcaster. `NotifyChannel` is
`common.py` and `recv`: what it returns is everything that has arrived, several
messages run together included, and the empty text at end of file. The limit of
1024 bytes is not modelled: it takes 68 unread messages to reach it. A message
is recognised (`notify_is_heartbeat`) and parsed (`parse_notify_ip`) by what the
code's string operations do to it: an address of 15 characters, like the empty
text, loses what `find()` returning -1 cuts off.

`ViewerHost` and `BroadcasterHost` follow `watch()` and `broadcast()` step by
step. `killall mplayer` reaches a player that is up, not one about to start; mplayer
is external, and the one it reaches is taken to end with the signal.
`P2PSession` adds the driver's order of launching and killing, the service
(in its working state, without the lock, which is `CdnServer`'s subject), and
the switch. The controller in it is `Steering` without `Reconnect`. `Forward`,
`Tell`, `Drop`, `Fin` and `SynAck` say what happens to a segment of the
notification channel: forwarded before the decision, rewritten after it (the
opening SYN-ACK and the closing FIN too), dropped once muted. TCP's share is
that a rewritten segment stands for the first heartbeat it carried, so that the
rest is sent again; a lost notice meets the drop entry when it is repeated
(`Lossy`).

**Switchover** is the promise to the viewer: the service's stream, then, only if
told or the service is gone, the broadcaster's own, and never both.

### RtmpParser

`RTMPControlPacket` of `bypass.py` (86-134, 137-170), the loop that calls it
(357-373) and `prepend_buf` (351-363). Bytes are numbers; a keyword is one
symbol above 255, since the code looks for it as a substring. `Chunk`, `Written`
and `Says` are the sender's side, written from the layout the parser's own
comments give; `RTMPControlPacket` follows the code's byte positions. The senders
end a segment with a chunk, behind a 12-byte header or, at worst, one byte into
a chunk. Two connections take turns in any order: `Handshake` (88 or 89 bytes are
not read), `Prepend` (12 bytes are kept) and `Parse`. `owner` and `mixed` are
history: whose bytes are in the buffer, and whether a segment has been parsed
where no reader could understand it; `First` is the chunk that the next parse
of a connection starts with, the buffer included.

`BypassSwitch` uses the outcome: `Parses` there says which sequences of whole
messages, heads and rests yield their messages.

### OpenFlowChannel, OrderedChannel

`of_01.py`: the task (`Accept`, the handshake handlers, `Serve`, `Close`),
`Connection.send` (861-886), `disconnect` (815-847) and `close` (797-802), and the
thread of `DeferredSender` (401-500). The data sent are numbered units, of which a
socket takes any number. Neither `send` nor `disconnect` holds a lock, and both
threads run through `disconnect`: `at` and `on` say where each thread is and with
which connection, and a step ends wherever the other thread may change what the
next one reads:

* `send`: up to the look at `sending` (869), which holds no lock; the write (874);
  `DeferredSender.send`, with the lock;
* `disconnect`: up to the look at `disconnection_raised` (`Disconnect`, 815-834); its
  assignment and the events (`Raises`, 835-837); the `shutdown` (`TaskShuts`,
  `SenderShuts`, 845); then, in the task's `con.close()`, the socket's own `close`
  (`Closes`, 800). So either thread may write to a connection the other is
  disconnecting, both may have found `disconnection_raised` unset, and either may
  then be the second to raise;
* the sender: the keys it reads under the lock, its `select`, each write, and the
  steps of `disconnect`, during which it keeps its lock.

Three things are one step because nobody can tell. 828-834 in the sender: all the
task reads of it is `disconnected`, for a `send` that it then refuses; a refused
`send` changes nothing once the connection has a dpid, so the step can be taken at
834, and before that 830 and 834 do nothing, so it can be taken at 828. The dpid
does not change meanwhile, as the reply that sets it answers data of which some
would still be waiting. 828-834 in the task: the sender reads neither `disconnected` nor the table.
The failing `send` in the task (`SendFails`, 879-886): it wrote because `sending` was
down, so no data wait (`WaitingMeansSending`) and the sender is in nobody's
`disconnect`. What `handle_FEATURES_REPLY` sends is one `send` of two units.

A connection may end at either side. Once it was shut down here every write fails.
When only the switch's end is gone, a write may fail or the kernel may still take
the bytes, which nobody gets (`Transmit`): `wire` is what was taken while the
switch was there, and the order of what waits is promised while neither end has
gone (`Ended`). Left out: SSL, port status messages put off until the handshake is
done, a connection refused for want of a nexus, errors of the listening socket,
unpacking of messages. The pinger that wakes the sender's `select` is covered by
the select's timeout of five seconds, which the code has too.

**OrderedChannel** is what a controller takes for granted, and what `toSw` is in
`BypassSwitch` and `DirectSwitch`: each unit once, in order, perhaps not to the
last.

### Recoco, LaterCalls

`recoco.py`: `Scheduler.run`/`cycle` (the scheduler's thread), `SelectHub` (the
hub's thread), `Timer`, `CallLaterTask`, and the threads that start a timer, hand
over a call or quit. A step is what a thread does between two accesses to shared
data, so that every order of "put", "set", "ping", "clear", "pong" and "take"
occurs. The tasks are the ones the system has: the OpenFlow task, which selects
with a timeout, `CallLaterTask`, one-shot timers. **LaterCalls** says that calls
are made once each and in the order they were handed over.

### DirectSwitch

`direct.py` with its switch and hosts that move. Entries carry `age` and `quiet`
for the hard and idle timeouts (154-155: 10 and 30 s; `drop(10)`, 108-121: both 10 s,
for every port of the flow). `right`, `settled` and `spoke` are history: since
when the controller is right about a host, since when the host has stayed, and
whether it has spoken since. A tick passes only when both channels are empty:
messages take far less time than the shortest timeout.

### FrameStream

The three programs of `src/prototype/hosts/` on both of their routes: frames of
a control byte, a header and a picture, over TCP that cuts the stream anywhere.
`recv(n)` returns a non-empty part of what has arrived, at most `n` bytes, and
nothing at the end of the stream. `RecvBegin`, `RecvControl`, `RecvHeader` and
`RecvFrame` are the calls of the two receiving programs; the header is what one
call returns, the picture is collected, and unpacking a short header raises.

## 3. Runs

Passing runs:

| run | module | what it shows | states |
|---|---|---|---|
| `bypass_safety` | MCBypassScenarios | the inductive invariant, five properties and `Steering`, over four kinds of traffic: cut and merged segments, a second viewer behind the first one's port, hosts that talk among themselves, and a reconnection at any point | 377,000 |
| `bypass_live` | MCBypass | the decision is taken, both roles are told, video leaves the controller | 36,000 |
| `cdn_service` | MCCdnServer | the lock, acceptance, clean-up and, for sound channels, heartbeats, under every fault | 32,000 |
| `session` | MCSession | safety of the whole session and `Switchover`, however late, merged or lost messages are | 532,000 |
| `session_heard` | MCSession | with sufficient delays and no loss, a P2P decision ends with the viewer on the broadcaster's stream | 108,000 |
| `openflow` | MCOpenFlow | sockets take what is sent, in order, from two threads; the table, ConnectionUp and ConnectionDown; what waits is written | 135,000 |
| `recoco` | MCRecoco | no task twice, no wake-up lost, calls in order, timers, quitting | 320,000 |
| `direct` | MCDirect | wrong entries end, hosts are found, everybody is reached again and again | 836,000 |
| `rtmp` | MCRtmp | what a clear segment says is recognised, and nothing is made up | 199,000 |
| `frames` | MCFrames | frames arrive whole and in order, and get through unless a header is cut | 31,000 |

The other two runs, `cdn_stalls` and `session_merged`, each check one sentence
of a comment or docstring that the code does not keep (section 5).

**Bounds.** All are named constants, or constraints of an MC module.

* `bypass_*`: three hosts are all the roles; the fourth, `h2`, is a second viewer
  behind the first one's port, as behind a further switch: `topo.py` gives each
  viewer a port of its own, but the same-port branch (272-278) exists for this
  case. `MaxQueue = 1` lets every arrival interleave with every handler and every
  switch message. (A handler that starts may write two messages, so `toSw`
  reaches `MaxQueue + 1`, which is where a notice and its drop entry meet.) One
  reconnection suffices because it starts over. `OnePlay` keeps each behaviour to
  one kind of traffic. `bypass_live` sends the viewer's two answers in one
  segment to keep the liveness graph small; their orders are in `bypass_safety`.
* `cdn_*`: two channels are one that breaks and one that suffers; `SockCap = 2`
  makes a full buffer differ from one heartbeat in flight.
* `session*`: `Merge = 2`, `MaxInbox = 2` is the smallest case of a notice read
  with a heartbeat; `MaxWire = 2` lets an old segment be behind a new one.
* `openflow`: two connections of one switch, the case in which the table can go
  wrong. `MaxUnits = 6`: a complete handshake takes four units, so that two more
  meet a full socket, a queue and a failure. The constraint `Reconnects` lets the
  switch connect a second time once the first connection has a dpid (before that
  the two share nothing but the sender thread), and gives the second one its
  handshake's four units. The steps it cuts off, an `Accept` and a `Serve`, have no
  fairness, so that no liveness property holds on its account. The other orders,
  more units and more switches are in the proofs, for the safety properties.
* `recoco`: a timer and two callers, of which one quits; the constraint
  `OneStays` lets the timer's thread or the other caller begin, not both.
* `direct`: `Idle = 2 < Hard = 3`, `Drop = 2` keep the order of the code's 10, 30
  and 10 seconds; two moves are there and back, or on to a third port;
  `MaxReconnects = 1`. `Small` lets one host move and only the mover send to a
  group or a filtered address: packets to those teach the controller a port and
  nothing else.
* `rtmp`: streams of one to three chunks, chosen from twelve that differ for the
  parser: all four chunk types, stream ids of one, two and three bytes, messages
  of no byte up to 76 (a chunk of 88 bytes), the twelve-byte header, and a whole
  chunk of twelve bytes that has no length.
* `frames`: `FRAME_SIZE = 4` and `TIMESTAMP_LEN = 3` stand for 17280 and 8: a `recv`
  can return any part of either. The pictures and the time stamp consist of control
  bytes. `Buffer = 6` holds less than a frame with its header.

**Deadlock** is checked in the `bypass_*` runs. In all others the system may
stop: the service exits, the session ends, connections close, POX quits,
streams run out, the baseline's hosts have sent what they send in a tick, a
program of the prototype ends.

**Fairness.** A weak condition is written for what a thread or process does as
soon as it can.

* `Served`: POX and the switch serve their connection for ever (`OpenFlowChannel`
  shows that waiting data are written while the sender thread lives).
  `DialogueFair`: TCP repeats a segment of the RTMP dialogue until it gets
  through (strong, since the queue may be full now and then). `HeartbeatsFair`:
  the service never stops sending (`cdn-server.py` 61-65).
* `CdnServer`: every process runs on (weak); `Acquire` and `Accept` are strong,
  because a holder sleeps a second after each release and the accept queue is in
  order; hosts, faults and the signal have none, and clean-up starts only when
  the signal comes.
* `P2PSession`: hosts, switch and service run on; neither the driver nor the
  decision is taken for granted. `Sleeps` lists the delays that are taken as long
  enough, as conditions on the step that follows the sleep: `startup` (live.py
  31), `viewer_first` (live.py 58), `peer_ready` (broadcaster.py 144) and
  `dialogue` (an RTMP dialogue outlasts a `connect()`). Run `session` takes none
  of them; `session_heard` needs all four, and that is part of what it shows.
* `OpenFlowChannel`: both threads go on with what they have begun (`TaskGoesOn`,
  `SenderGoesOn`, the sender's loop), and the task closes a connection that has
  ended. `Defer` is strong: the lock the task waits for is free whenever the sender
  is in `select`, again and again. So are `select`'s returning a given connection
  and the writes to it: a switch that is there reads, its socket becomes writable,
  and the kernel takes or refuses what is meant for one that is gone.
* `Recoco`: both threads, and every other thread once it has begun, run on; time
  passes. No thread has to begin.
* `DirectSwitch`: controller, switch and clock go on, and every host goes on
  sending to every other; moves and reconnections have none.
* `FrameStream`: the timer rings, TCP delivers, hosts go on.

## 4. Proofs

Eight modules, each for any value of the constants that meets the named
assumptions of the module it extends. Each inductive invariant is called `IInv`
(`CdnInv`, `ParserInv` and `StreamInv` in the proofs of `CdnServer`, `RtmpParser`
and `FrameStream`) and has one lemma or step per action.

**BypassSwitch_proofs** (`HostsAssumption`, `TrafficAssumption`,
`BoundsAssumption`): type correctness, `RolesKnown`, `ModesExclusive`,
`WatchedUntilDecided`, `MutedOnlyAfterTold`, `EntriesLeadToDst`,
`DecisionIsFinal`, `ToldTheOtherRole`, and that `Spec` implements `Steering`. The
properties are not inductive by themselves, for three reasons:

* `RolesKnown` speaks of the roles at the moment of a decision, but a handler
  may stop at any assertion and keep what it had assigned. `FlagsImplyRoles`
  says, flag by flag, which roles and earlier flags each implies, including
  `s_addr \in {Nobody, Service}`, which follows from `TrafficAssumption`.
* `MutedOnlyAfterTold` speaks of the flow table, but the drop entry was sent
  long before. `GoodChannel` says of every message under way what may be in it,
  and of a drop entry that its notice is on the wire or ahead of it in the
  channel; that the channel is FIFO is what makes this last.
* A notice must name the role holder when it leaves, not when it was written.
  `GoodNotice` is stated in terms of the current roles; it survives because
  roles are only assigned while `Watching`, and notices only written after.

The refinement proof maps each step to `Decide`, `Tell`, `Mute`, `Reconnect` or
a stutter.

**OpenFlowChannel_proofs** (`ConnsAssumption`): type correctness, that the sender
is never bypassed while anything waits in it, `MissingOnlyToATwin`, `DownIsFinal`,
and that `Spec` implements `OrderedChannel`. `InOrder` is the heart: what a socket
has taken, what waits in the queue and what the task holds in its hands are
consecutive, as long as neither end has gone; that `sending` is set whenever
anything waits (`WaitingMeansSending`) is why a direct write never overtakes.
`Ends` says what a thread's place in `disconnect` tells: the connection is
disconnected, stays so, and this thread has not raised for it yet. `Listed` adds
that the connection the task is about to close is not in the table, although it
is unlisted (830) steps before it is closed (800).

**Recoco_proofs** (`RecocoAssumption`): type correctness, `OnePlace`,
`NoLostWakeUp`, and that `Spec` implements `LaterCalls`. `Places` and `Apart` say
where a task is (ready, running, on its way to the hub, in it, on its way back)
and that it is there once; `StartedFirst` and `Registered` tie the start of
`CallLaterTask` to the lock of `callLater`; `WakeUps` says of every flag which
queue it speaks for.

**DirectSwitch_proofs** (`TimeoutsAssumption` and the others): type correctness,
`StaleEndsInTime`, `HomeFound`. A wrong entry must be shown to be older than the
knowledge that contradicts it, in the table and on the wire (`WrongIsOld`,
`HiddenIsOld`), and a packet from a former port to be of this tick
(`OldHomesAreFresh`): then the hard timeout ends the entry first.

**CdnServer_proofs** (`CdnAssumption`): type correctness, that whoever is between
`acquire` and `release` holds the lock, `LostOnlyToABreak`, and that a lost lock
stays lost. `CdnInv` adds that nobody is signalled before termination and that a
channel has no process before it is accepted; without the first, a process could
be killed with the lock while the service runs, without the second, `Accept`
could start over a process in its critical section.

**P2PSession_proofs**: type correctness, `OneSource`, that the viewer leaves the
service's stream only when told or when the service is gone, `StreamsToTheViewer`
(if the viewer's address is not of full length, `Viewer \notin FullLength`), that
an encoder is started once for an address, and that `Spec` implements
`Switchover`; from `Switchover` alone it follows that the viewer plays the
broadcaster's stream only when both were told, or the service is gone.
`NoticesAreTrue` and `ToldInP2P` follow a notice from the switch to what the
host has read; `ClosedWhenGone` says when an end of file can be read;
`PlayersInOrder` and `EncodersInOrder` give the order of a host's steps.

`MutedHasHeard` is about delays as well, and is proved for the sessions that
`EachSegmentInTime` describes: a host reads each segment before the next comes,
the link loses nothing, and no dialogue ends before its host's channel is there
(`dialogue` is among the `Sleeps`). `session_merged` shows the property violated
when hosts are slower. `ToldIsHeard` is the strengthening, in `P2PSession` beside
`IInv`: of every host told, still reading, the notice waits unread, alone, and a
host is muted only once told.

**RtmpParser_proofs** (`StreamsAssumption`): type correctness; `ReadsBack`, that for
every chunk type below 2, stream id, message and rest the parser returns the
message written and leaves what follows, unless that is a single byte, which it
swallows; `RemainIsShorter`, that the parsing loop ends on any bytes; and, for any
streams in segments that end as `EndsAt` allows (with a chunk, behind a 12-byte
header or one byte into a chunk), `NothingMadeUp` and `NothingMissed`. The argument
for these two:

* `Loops` says what the packets from each byte on are, given those further on;
  `PacketsLoop` shows that `Packets` is such a table, from its last entry to its
  first. `ChunkRound` says what one round does at the start of a chunk: its packet
  says what the chunk says, and the loop goes on at the next chunk or, when the
  chunk has no length or one byte follows, takes all the rest for its message.
* `Rest(ks, j, k, e)` are the bytes from the end of the j-th chunk to e bytes
  behind the k-th. `RecognisesWhatIsSaid` and `RecognisesAllThatIsSaid` go from its
  last chunk to its first: what is read there says no more than those chunks, and
  just as much if only the last may lack a length.
* `ParserInv` ties the state to the bytes: each connection is at a place where a
  segment may end (`PlaceHolds`), and what is in the buffer leads, if it was kept
  where a chunk starts, from there to the place on record (`OwnerHolds`). So what a
  segment in place is parsed with is a `Rest` (`ParsedInPlace`).

**FrameStream_proofs** (`SizesAssumption`): type correctness, which holds what the
receivers' arithmetic must get right: a picture under way is shorter than a
frame, and every frame stored or viewed has exactly its size; `FramesInOrder` and
`DoneMeansWhole`, for frames of any size. `StreamInv` says of every two hosts that are
connected what the bytes between them are (`Link`): the receiver has the first of the
sender's frames, and what is in the sender's buffer, the wire and the receiver's
completes them, from the very byte the receiver's program expects. `Later` is
what follows the n-th frame in a stream, given by its recurrence: each table that
satisfies it is one stream's tails. A receiver that took a part of a time stamp for
the whole is owed nothing: it is in `frame` with a short header, and can only raise.

Induction: the induction theorems of the library take an operator as a parameter,
which the installed provers cannot instantiate. `Upwards`, `UpTo` and `DownFrom` of
`RtmpParser_proofs` state it for sets of numbers, from the least element of a set
(`Least`), and this is what the statements about all chunks of a segment rest on.

With this every safety invariant and action property that a run checks is proved.
The strengthenings (`IInv` and the like) were checked by TLC before they were
proved. Only model-checked: the liveness properties, since fairness and ENABLED are
out of the proof system's reach: `EventuallyDecided`, `BothTold`, `VideoOffloaded`,
`Drained`, `UpsHaveDowns`, `CallsMade`, `TimersFire`, `QuitEnds`, `Reachable`,
`GetsThrough`, `EveryoneAccepted`, `CleanUpCompletes`, `SoundMeansHeartbeats` and
`PeerStreams`.

## 5. Findings and observations

Checked by a run that TLC finds violated:

* `cdn_stalls`: one channel that breaks, or that nobody reads, takes the shared
  lock with it and silences all others (`cdn-server.py` 58-64).
* `session_merged`: a notice read in one `recv` with a heartbeat passes for a
  heartbeat, and the controller has muted the channel by then (`common.py` 22).

Seen while modelling, without a run of their own. In the bypass controller:

* An RTMP answer that overtakes its predecessor fails an assertion and is never
  sent on, against the comment at `bypass.py` 456.
* `prepend_buf` is one for all connections (297-298, 361): a segment of another
  connection between a head and its rest uses the head up, and neither message
  is recognised. It can also make one up: the head of a Stream Begin with the
  first bytes of another connection's message. A handshake-sized segment (88, 89)
  leaves the buffer to the one after it, and any segment of 12 bytes, whole or
  not, is taken for a head.
* A chunk without a length (types 2 and 3) swallows what follows it in its
  segment; a single byte behind a message counts as its last (123). A whole chunk
  of twelve bytes without a length is kept in `prepend_buf` like a head, and then
  swallows the next segment: a Stream Begin there is not seen. `NothingMissed`
  excepts it (`Clear`); the attempt to prove the property without that failed
  here.
* Stream Begin before Publish.Start sets P2P off for good, though the
  broadcaster's publish request is on record at this very switch; the comment
  at 459-461 speaks of an unseen broadcaster. `live.py` avoids it by its
  launching order. `EventuallyDecided` and `DecisionIsFinal` count it as a
  decision like any other.
* A lost notice is never repeated: its retransmissions meet the drop entry
  (619-622). `MutedHasHeard` fails with `Lossy = TRUE`.
* In the P2P stage a heartbeat for a third host is given a `None` payload,
  which the packet library refuses: the channel carries nothing any more.

In the hosts:

* End of file reads as a notice (`viewer.py` 135), and the viewer leaves for a
  peer nobody told; the broadcaster starts an encoder for the empty address.
* An address of 15 characters loses its last one (`common.py` 25).
* `broadcaster.py` 143-144 waits three seconds for the viewer to be ready. If
  that is too short the encoder's connection is refused and never retried,
  because the address is already in `p2p_viewers`. `PeerStreams` fails without
  `peer_ready` among the `Sleeps`.

In POX:

* A connection closed with data still queued makes the sender's `select` raise
  outside every `try` (`of_01.py` 459); `deferredSender.kill`, which would take it
  out, is commented out (840). No connection's queued data are written from then
  on. `Drained` says so by its "unless the thread has died".
* ConnectionDown may be raised twice for a connection: both threads find
  `disconnection_raised` unset (834) before either sets it (835). `DownIsFinal` says
  that it is not worse than that. In between, and until the `shutdown` at 845, the
  other thread still writes what waits.
* The table of connections goes by switch: the end of a switch's old connection
  takes its new one out of it (828-832).

In the baseline and the prototype:

* `macToPort` never ages: a host that moves and stays silent is never found, and
  packets for it go to its former port. `HomeFound` and `Reachable` speak of hosts
  that send.
* A dropping entry matches at every port and may coexist with a forwarding one
  for the same flow; with equal priorities either may be used.
* The prototype's `recv` of the header is not repeated: a short header ends the
  program by `struct.error`, after the whole picture has been read. At end of
  file all receiving loops spin. A comment speaks of a time stamp of 4 bytes;
  the code uses 8.

## 6. Not modelled

* `topo.py` declares topologies; `run.sh` and `plot.py` keep no state;
  `_parse_delay` of `live.py` is never called. Mininet, nginx, ffmpeg and mplayer
  are external, reduced to starting, running, listening, being refused and ending.
* The multi-switch topologies: every switch has its own `LearningSwitch` and
  state, so each is an instance of `BypassSwitch`; a broadcaster behind another
  one is `RemoteStream`. The composition of several is not modelled.
* Encodings of OpenFlow messages, logging, video.
* Of POX, which is vendored and makes up all but a small part of the repository:
  the packet library, the unit tests, the launcher and tools, and the components
  that `run.sh` does not load (software switch, Nicira extensions, web, telnet and
  messaging services, samples). Nothing of the running system depends on their
  state. Of `recoco.py`, `Lock`, `Send`, `CallBlocking` and `Synchronizer`, which no
  task of the system uses.

The modules therefore stand for the system's own programs nearly line by line,
and for a small share of all the lines in the repository.

## 7. What remains

* The composition of several `BypassSwitch`es: the decision of each rests on what
  passes through it, and in `LivestreamingMultiTopo` the CDN host forwards nothing
  between the two.
* `DirectSwitch` with entries' priorities and a bounded flow table.

## 8. How to run

In this directory: `tlasany M.tla` parses a module, `tlc -workers 2 -config
X.cfg M` runs a configuration with the module `PROJECT.json` names for it,
`tlapm M_proofs.tla` checks the proofs.
