---------------------------- MODULE BypassSwitch ----------------------------
(***************************************************************************)
(* The P2P controller of pox/livestreaming/bypass.py together with the one *)
(* OpenFlow switch it drives.                                              *)
(*                                                                         *)
(*   hosts --Arrive--> switch --toCtl--> LearningSwitch --toSw--> switch   *)
(*                       |  flow table hit                 |  Apply        *)
(*                       +----------> delivered <----------+               *)
(*                                                                         *)
(* The controller is POX's single cooperative thread, so each handler is   *)
(* one action; it and the switch are only joined by two FIFO channels.     *)
(* An exception raised in a handler is caught by revent, so the packet is  *)
(* forgotten while what the handler had already assigned stays assigned.   *)
(***************************************************************************)
EXTENDS Integers, Sequences

CONSTANTS
    Hosts,          \* hosts with a MAC and an IP address (one each: live.py sets autoSetMacs)
    Service,        \* the CDN host
    Nobody,         \* Python's None for an address
    Port,           \* switch port each host is behind
    Ephemeral,      \* TCP ports the clients use
    Traffic,        \* the packets hosts may send; any of them any number of times
    RemoteStream,   \* TRUE iff a broadcaster behind another switch feeds the service
    MaxQueue,       \* bound on either OpenFlow channel
    MaxReconnects   \* bound on how often the switch reconnects to the controller

RTMP_PORT   == 1935
NOTIFY_PORT == 42857
NO_TCP      == 0            \* transport port of a packet that is not TCP
OFPP_FLOOD  == 65531
NO_ACTION   == 0            \* "output port" of a flow entry with an empty action list

TpPorts  == {RTMP_PORT, NOTIFY_PORT, NO_TCP} \cup Ephemeral
Ports    == {Port[h] : h \in Hosts}
OutPorts == Ports \cup {OFPP_FLOOD, NO_ACTION}

\* The RTMP messages RTMPControlPacket.is_* tells apart; "other" is any message
\* that parses and matches none of them.
Messages == {"play_req", "play_start", "publish_req", "publish_start", "stream_begin", "other"}

(***************************************************************************)
(* A segment's payload is a sequence of pieces.  An RTMP message travels   *)
(* "whole", or cut into its 12-byte "head" and the "rest"; a "handshake"   *)
(* fills a segment of 88 or 89 bytes.  On the notification channel the     *)
(* service sends heartbeats and the controller writes a "notice" that      *)
(* names a peer.                                                           *)
(***************************************************************************)
Piece == [part : {"whole", "head", "rest", "handshake", "heartbeat"}, what : Messages]
           \cup [part : {"notice"}, what : Hosts]

Whole(m)      == [part |-> "whole", what |-> m]
Head12(m)     == [part |-> "head",  what |-> m]
Rest(m)       == [part |-> "rest",  what |-> m]
Handshake     == [part |-> "handshake", what |-> "other"]
Heartbeat     == [part |-> "heartbeat", what |-> "other"]
Notice(h)     == [part |-> "notice", what |-> h]

Packet == [src : Hosts, dst : Hosts, sp : TpPorts, dp : TpPorts, data : Seq(Piece)]

IsRtmp(p)   == RTMP_PORT \in {p.sp, p.dp}
IsNotify(p) == NOTIFY_PORT \in {p.sp, p.dp}
IsNotice(p) == \E h \in Hosts : p.data = <<Notice(h)>>

\* What ofp_match.from_packet keeps of a packet (the ingress port is Port[src]).
FlowOf(p) == [src |-> p.src, dst |-> p.dst, sp |-> p.sp, dp |-> p.dp]

ASSUME HostsAssumption ==
    /\ Service \in Hosts
    /\ Nobody \notin Hosts
    /\ Messages \cap Hosts = {}
    /\ Ephemeral \subseteq Nat \ {RTMP_PORT, NOTIFY_PORT, NO_TCP}
    /\ Port \in [Hosts -> Nat \ {OFPP_FLOOD, NO_ACTION}]
    /\ \A h \in Hosts \ {Service} : Port[h] # Port[Service]

\* Only the service listens on the two well-known ports, and only the
\* controller writes notices.
ASSUME TrafficAssumption ==
    /\ Traffic \subseteq Packet
    /\ \A p \in Traffic :
          /\ p.src # p.dst
          /\ ~IsNotice(p)
          /\ p.sp \in {RTMP_PORT, NOTIFY_PORT} => p.src = Service
          /\ p.dp \in {RTMP_PORT, NOTIFY_PORT} => p.dst = Service
          /\ p.sp = p.dp => p.sp = NO_TCP

ASSUME BoundsAssumption ==
    /\ RemoteStream \in BOOLEAN
    /\ MaxQueue \in Nat \ {0}
    /\ MaxReconnects \in Nat

VARIABLES
    macToPort,      \* MAC to port table, a dict of the hosts heard of
    v_addr,         \* viewer, broadcaster, service: the *port, *_dl_addr and
    b_addr,         \*   *_nw_addr fields of a role are always assigned together
    s_addr,         \*   from one packet, so the host stands for all of them
    status,         \* the messages whose status_* flag is set
    p2p_enabled,
    p2p_set_off,
    prepend_buf,    \* the message whose 12-byte head is buffered, or "none"
    toCtl,          \* packet-in messages on their way to the controller
    toSw,           \* packet-out and flow-mod messages on their way to the switch
    flowTable,      \* [flow, out]: exact-match entries, none of which times out
    delivered,      \* packets the switch has put on their destination's link
    told,           \* the notices among them since the connection came up
    reconnects      \* how often the switch has reconnected

roles   == <<v_addr, b_addr, s_addr>>
mode    == <<p2p_enabled, p2p_set_off>>
ctlVars == <<macToPort, roles, status, mode, prepend_buf>>
vars    == <<ctlVars, toCtl, toSw, flowTable, delivered, told, reconnects>>

status_vplay        == "play_req" \in status
status_vready       == "play_start" \in status
status_bpublish     == "publish_req" \in status
status_bready       == "publish_start" \in status
status_stream_begin == "stream_begin" \in status

Flow      == [src : Hosts, dst : Hosts, sp : TpPorts, dp : TpPorts]
FlowEntry == [flow : Flow, out : OutPorts]
\* A message to the switch: install an entry for pkt's flow, send pkt out, or both.
SwMsg     == [pkt : Packet, out : OutPorts, install : BOOLEAN, send : BOOLEAN]

TypeOK ==
    /\ macToPort \in UNION {[D -> Ports] : D \in SUBSET Hosts}
    /\ {v_addr, b_addr, s_addr} \subseteq Hosts \cup {Nobody}
    /\ status \subseteq Messages \ {"other"}
    /\ p2p_enabled \in BOOLEAN
    /\ p2p_set_off \in BOOLEAN
    /\ prepend_buf \in Messages \cup {"none"}
    /\ toCtl \in Seq(Packet)
    /\ toSw \in Seq(SwMsg)
    /\ flowTable \subseteq FlowEntry
    /\ delivered \subseteq Packet
    /\ told \subseteq Packet
    /\ reconnects \in 0..MaxReconnects

FreshController ==
    /\ macToPort = [h \in {} |-> 0]
    /\ v_addr = Nobody /\ b_addr = Nobody /\ s_addr = Nobody
    /\ status = {}
    /\ p2p_enabled = FALSE
    /\ p2p_set_off = FALSE
    /\ prepend_buf = "none"

Init ==
    /\ FreshController
    /\ toCtl = << >>
    /\ toSw = << >>
    /\ flowTable = {}
    /\ delivered = {}
    /\ told = {}
    /\ reconnects = 0

-----------------------------------------------------------------------------
(* The hosts and the data plane of the switch *)

\* An output action reaches a packet's destination: its port is the one named,
\* or any port of a flood, but never the port the packet came in on.
Reaches(out, p) == out \in {Port[p.dst], OFPP_FLOOD} /\ Port[p.dst] # Port[p.src]

\* Host h sent message m and the service has all of it.
ServiceGot(h, m) ==
    \E q \in delivered :
        /\ q.src = h /\ q.dst = Service /\ q.dp = RTMP_PORT
        /\ \E i \in DOMAIN q.data :
              \/ q.data[i] = Whole(m)
              \/ /\ q.data[i] = Rest(m)
                 /\ \E r \in delivered : r.src = h /\ r.dst = Service /\ r.data = <<Head12(m)>>

\* The service only speaks on connections a client has opened, and its RTMP
\* server only answers requests that have reached it.
Prompted(p) ==
    /\ p.sp \in {RTMP_PORT, NOTIFY_PORT} =>
          \E q \in delivered : FlowOf(q) = [src |-> p.dst, dst |-> p.src, sp |-> p.dp, dp |-> p.sp]
    /\ \A i \in DOMAIN p.data :
          /\ p.data[i].what \in {"play_start", "stream_begin"} => ServiceGot(p.dst, "play_req")
          /\ p.data[i].what = "publish_start" => ServiceGot(p.dst, "publish_req")
          /\ p.data[i].what = "stream_begin" =>
                RemoteStream \/ \E h \in Hosts : ServiceGot(h, "publish_req")

\* A packet reaches the switch: the matching entry applies to it, or, with no
\* match, it goes to the controller.  Retransmissions are further arrivals, a
\* loss before the switch is no arrival, and a drop entry changes nothing.
Arrive(p) ==
    /\ Prompted(p)
    /\ \/ /\ \A e \in flowTable : e.flow # FlowOf(p)
          /\ Len(toCtl) < MaxQueue
          /\ toCtl' = Append(toCtl, p)
          /\ UNCHANGED delivered
       \/ /\ \E e \in flowTable : e.flow = FlowOf(p) /\ Reaches(e.out, p)
          /\ delivered' = delivered \cup {p}
          /\ UNCHANGED toCtl
    /\ UNCHANGED <<ctlVars, toSw, flowTable, told, reconnects>>

\* What carrying out message m puts on the destination's link.
OnWire(m) == IF m.send /\ Reaches(m.out, m.pkt) THEN {m.pkt} ELSE {}

\* The switch carries out the controller's oldest message.
Apply ==
    /\ toSw # << >>
    /\ LET m == Head(toSw) IN
          /\ flowTable' = IF m.install
                            THEN {e \in flowTable : e.flow # FlowOf(m.pkt)}
                                   \cup {[flow |-> FlowOf(m.pkt), out |-> m.out]}
                            ELSE flowTable
          /\ delivered' = delivered \cup OnWire(m)
          /\ told' = told \cup {p \in OnWire(m) : IsNotice(p)}
    /\ toSw' = Tail(toSw)
    /\ UNCHANGED <<ctlVars, toCtl, reconnects>>

-----------------------------------------------------------------------------
(* The controller: every handler first learns the sender's port *)

\* Mutant: the port is filed under the destination, unless that has one.
LearnDst(p) == [h \in DOMAIN macToPort \cup {p.dst} |->
                IF h \in DOMAIN macToPort THEN macToPort[h] ELSE Port[p.src]]

Learn(p) == [h \in DOMAIN macToPort \cup {p.src} |->
                IF h = p.src THEN Port[h] ELSE macToPort[h]]

OutPort(p) == IF p.dst \in DOMAIN Learn(p) THEN Learn(p)[p.dst] ELSE OFPP_FLOOD

PacketOut(p, out) == [pkt |-> p, out |-> out, install |-> FALSE, send |-> TRUE]
\* Mutant: the packet is sent out and no entry installed.
FlowModNoInstall(p, out) == [pkt |-> p, out |-> out, install |-> FALSE, send |-> TRUE]

FlowMod(p, out)   == [pkt |-> p, out |-> out, install |-> TRUE, send |-> TRUE]
DropMod(p)        == [pkt |-> p, out |-> NO_ACTION, install |-> TRUE, send |-> FALSE]

normal_send(p) == PacketOut(p, OutPort(p))

\* Take packet-in p, the oldest, off the connection.
TakePacketIn(p) ==
    /\ Len(toSw) < MaxQueue
    /\ toCtl' = Tail(toCtl)
    /\ macToPort' = Learn(p)
    /\ UNCHANGED <<flowTable, delivered, told, reconnects>>

Watching == ~p2p_enabled /\ ~p2p_set_off

\* Mutant: only a controller that set P2P off stops watching RTMP packets.
ForRtmpInP2P(p) == ~p2p_set_off /\ IsRtmp(p)

ForRtmp(p)   == Watching /\ IsRtmp(p)
ForNotify(p) == ~ForRtmp(p) /\ IsNotify(p)
ForNormal(p) == ~ForRtmp(p) /\ ~IsNotify(p)

(* _handle_PacketIn_normal *)

UnknownDst(p) == OutPort(p) = OFPP_FLOOD
SamePort(p)   == OutPort(p) = Port[p.src]

HandleNormal(p) ==
    /\ TakePacketIn(p)
    /\ ForNormal(p)
    /\ \/ /\ UnknownDst(p)
          /\ toSw' = Append(toSw, PacketOut(p, OFPP_FLOOD))
       \/ /\ SamePort(p)
          /\ UNCHANGED toSw
       \/ /\ ~UnknownDst(p) /\ ~SamePort(p)
          /\ toSw' = Append(toSw, FlowMod(p, OutPort(p)))
    /\ UNCHANGED <<roles, status, mode, prepend_buf>>

(* _handle_PacketIn_rtmp: its assertion that the two TCP ports differ holds of
   all traffic *)

\* The payload to parse, behind the 12 bytes buffered from an earlier segment,
\* whichever connection that segment belonged to.
Content(p) ==
    CASE prepend_buf = "none" -> p.data
      [] prepend_buf # "none" /\ p.data[1] = Rest(prepend_buf) ->
            <<Whole(prepend_buf)>> \o Tail(p.data)
      [] OTHER -> <<Head12(prepend_buf)>> \o p.data

\* Every message of c parses: a head without its own rest claims another
\* length, a rest without its head has no header.
Parses(c) == \A i \in DOMAIN c : c[i].part = "whole"

Unobserved(p) == p.data \in {<< >>, <<Handshake>>}
HeadOnly(p)   == \E m \in Messages : p.data = <<Head12(m)>>
HasMessages(p) == ~Unobserved(p) /\ ~HeadOnly(p)

\* No payload, or a handshake.
RtmpPass(p) ==
    /\ TakePacketIn(p)
    /\ ForRtmp(p)
    /\ Unobserved(p)
    /\ toSw' = Append(toSw, normal_send(p))
    /\ UNCHANGED <<roles, status, mode, prepend_buf>>

\* A 12-byte segment is buffered for the next one.
RtmpBuffer(p) ==
    /\ TakePacketIn(p)
    /\ ForRtmp(p)
    /\ HeadOnly(p)
    /\ prepend_buf' = p.data[1].what
    /\ toSw' = Append(toSw, normal_send(p))
    /\ UNCHANGED <<roles, status, mode>>

\* Some message does not parse: those before it are forgotten with it.
RtmpUnparsed(p) ==
    /\ TakePacketIn(p)
    /\ ForRtmp(p)
    /\ HasMessages(p)
    /\ ~Parses(Content(p))
    /\ prepend_buf' = "none"
    /\ toSw' = Append(toSw, normal_send(p))
    /\ UNCHANGED <<roles, status, mode>>

Before(c, i) == {c[k].what : k \in 1..(i - 1)}

\* The assertions on the i-th message of a segment that precede recording the
\* service, and those that precede setting the message's status flag.
Identifies(p, c, i) ==
    LET client(addr, req) == addr # Nobody \/ req \in Before(c, i)
        sameService == s_addr \in {Nobody, p.src}
    IN  CASE c[i].what \in {"play_req", "publish_req"} -> p.dp = RTMP_PORT
          [] c[i].what = "play_start" ->
                p.sp = RTMP_PORT /\ client(v_addr, "play_req") /\ sameService
          [] c[i].what = "publish_start" ->
                p.sp = RTMP_PORT /\ client(b_addr, "publish_req") /\ sameService
          [] c[i].what = "stream_begin" -> p.sp = RTMP_PORT
          [] OTHER -> TRUE

Prerequisite(m) == CASE m = "play_start"    -> "play_req"
                     [] m = "publish_start" -> "publish_req"
                     [] m = "stream_begin"  -> "play_start"
                     [] OTHER               -> "none"

Asserts(p, c, i) ==
    /\ Identifies(p, c, i)
    /\ Prerequisite(c[i].what) \in {"none"} \cup status \cup Before(c, i)

\* The loop handles messages in order up to the first failing assertion.
Reached(p, c) == {i \in DOMAIN c : \A j \in 1..(i - 1) : Asserts(p, c, j)}
Handled(p, c) == {i \in Reached(p, c) : Asserts(p, c, i)}
Seen(p, c)    == {c[i].what : i \in Handled(p, c)}

\* Mutant: only Publish.Start records the service.
NamesServicePublish(p, c) ==
    \E i \in Reached(p, c) : c[i].what = "publish_start" /\ Identifies(p, c, i)

NamesService(p, c) ==
    \E i \in Reached(p, c) :
        c[i].what \in {"play_start", "publish_start"} /\ Identifies(p, c, i)

\* Mutant: each segment's flags replace the earlier ones.
ObserveForgetting(p, c) ==
    /\ v_addr' = IF "play_req" \in Seen(p, c) THEN p.src ELSE v_addr
    /\ b_addr' = IF "publish_req" \in Seen(p, c) THEN p.src ELSE b_addr
    /\ s_addr' = IF NamesService(p, c) THEN p.src ELSE s_addr
    /\ status' = Seen(p, c) \ {"other"}

Observe(p, c) ==
    /\ v_addr' = IF "play_req" \in Seen(p, c) THEN p.src ELSE v_addr
    /\ b_addr' = IF "publish_req" \in Seen(p, c) THEN p.src ELSE b_addr
    /\ s_addr' = IF NamesService(p, c) THEN p.src ELSE s_addr
    /\ status' = status \cup (Seen(p, c) \ {"other"})

\* All messages handled: the packet is sent on and the mode decided.  The
\* assertions on the roles here hold in every state (RolesKnown).
Decide ==
    /\ p2p_set_off' = (p2p_set_off \/ (status_stream_begin' /\ ~status_bready'))
    /\ p2p_enabled' = (p2p_enabled \/ (status_vready' /\ status_bready'))

RtmpObserve(p) ==
    /\ TakePacketIn(p)
    /\ ForRtmp(p)
    /\ HasMessages(p)
    /\ Parses(Content(p))
    /\ prepend_buf' = "none"
    /\ Observe(p, Content(p))
    /\ \/ /\ Handled(p, Content(p)) = DOMAIN Content(p)
          /\ toSw' = Append(toSw, normal_send(p))
          /\ Decide
       \/ /\ Handled(p, Content(p)) # DOMAIN Content(p)   \* AssertionError
          /\ UNCHANGED <<toSw, mode>>

(* _handle_PacketIn_notify *)

\* Mutant: heartbeats are rewritten whether or not P2P is enabled.
ForPeerAlways(p) == p.sp = NOTIFY_PORT

ForPeer(p) == p2p_enabled /\ p.sp = NOTIFY_PORT

NotifyForward(p) ==
    /\ TakePacketIn(p)
    /\ ForNotify(p)
    /\ ~ForPeer(p)
    /\ toSw' = Append(toSw, normal_send(p))
    /\ UNCHANGED <<roles, status, mode, prepend_buf>>

\* Mutant: each host is told its own address.
PeerOfSelf(h) == CASE h = b_addr -> b_addr
                   [] h = v_addr -> v_addr
                   [] OTHER      -> Nobody

\* Mutant: the viewer's channel is not recognised.
PeerOfBroadcaster(h) == IF h = b_addr THEN v_addr ELSE Nobody

\* Whom the host at the far end of a notification channel is told of.
PeerOf(h) == CASE h = b_addr -> v_addr
               [] h = v_addr -> b_addr
               [] OTHER      -> Nobody

Rewritten(p) == [p EXCEPT !.data = <<Notice(PeerOf(p.dst))>>]

\* Mutant: the drop entry goes out ahead of the notice.
NotifyDropFirst(p) ==
    /\ TakePacketIn(p)
    /\ ForNotify(p)
    /\ ForPeer(p)
    /\ p.src = s_addr
    /\ PeerOf(p.dst) # Nobody
    /\ toSw' = toSw \o <<DropMod(Rewritten(p)), PacketOut(Rewritten(p), OutPort(p))>>
    /\ UNCHANGED <<roles, status, mode, prepend_buf>>

\* Rewrite the payload, send the packet on, and drop the flow from now on.
NotifyTell(p) ==
    /\ TakePacketIn(p)
    /\ ForNotify(p)
    /\ ForPeer(p)
    /\ p.src = s_addr
    /\ PeerOf(p.dst) # Nobody
    /\ toSw' = toSw \o <<PacketOut(Rewritten(p), OutPort(p)), DropMod(Rewritten(p))>>
    /\ UNCHANGED <<roles, status, mode, prepend_buf>>

\* A server that is not the recorded one fails an assertion, a destination that
\* is neither role leaves a None payload set_payload refuses: no packet leaves.
NotifyFail(p) ==
    /\ TakePacketIn(p)
    /\ ForNotify(p)
    /\ ForPeer(p)
    /\ p.src # s_addr \/ PeerOf(p.dst) = Nobody
    /\ UNCHANGED <<toSw, roles, status, mode, prepend_buf>>

HandlePacketIn ==
    /\ toCtl # << >>
    /\ LET p == Head(toCtl) IN
        \/ HandleNormal(p)
        \/ RtmpPass(p) \/ RtmpBuffer(p) \/ RtmpUnparsed(p) \/ RtmpObserve(p)
        \/ NotifyForward(p) \/ NotifyTell(p) \/ NotifyFail(p)

-----------------------------------------------------------------------------
\* Mutant: the switch's flows survive the reconnection.
ReconnectKeepsFlows ==
    /\ reconnects < MaxReconnects
    /\ reconnects' = reconnects + 1
    /\ macToPort' = [h \in {} |-> 0]
    /\ v_addr' = Nobody /\ b_addr' = Nobody /\ s_addr' = Nobody
    /\ status' = {}
    /\ p2p_enabled' = FALSE
    /\ p2p_set_off' = FALSE
    /\ prepend_buf' = "none"
    /\ toCtl' = << >>
    /\ toSw' = << >>
    /\ told' = {}
    /\ UNCHANGED <<flowTable, delivered>>

\* The OpenFlow connection is lost and made again: POX clears the switch's
\* flows and BypassLivestreaming gives it a new LearningSwitch.
Reconnect ==
    /\ reconnects < MaxReconnects
    /\ reconnects' = reconnects + 1
    /\ macToPort' = [h \in {} |-> 0]
    /\ v_addr' = Nobody /\ b_addr' = Nobody /\ s_addr' = Nobody
    /\ status' = {}
    /\ p2p_enabled' = FALSE
    /\ p2p_set_off' = FALSE
    /\ prepend_buf' = "none"
    /\ toCtl' = << >>
    /\ toSw' = << >>
    /\ flowTable' = {}
    /\ told' = {}
    /\ UNCHANGED delivered

Next ==
    \/ \E p \in Traffic : Arrive(p)
    \/ HandlePacketIn
    \/ Apply
    \/ Reconnect

Spec == Init /\ [][Next]_vars

-----------------------------------------------------------------------------
(* Properties *)

\* The assertions on the roles that follow a decision (bypass.py 464, 473, 594)
\* never fire: whatever order the RTMP messages were seen in, and whichever
\* handler an earlier assertion cut short, the flags that lead there imply that
\* every role they need is on record, and the service recorded is the CDN.
RolesKnown ==
    /\ status_stream_begin /\ ~status_bready => v_addr # Nobody /\ s_addr # Nobody
    /\ status_vready /\ status_bready => Nobody \notin {v_addr, b_addr, s_addr}
    /\ p2p_enabled => Nobody \notin {v_addr, b_addr, s_addr}
    /\ s_addr \in {Nobody, Service}

\* The controller never both gives up on P2P and enters it.
ModesExclusive == ~(p2p_enabled /\ p2p_set_off)

\* While the controller is still watching for the RTMP dialogue no RTMP flow has
\* an entry, installed or under way: no packet of the dialogue bypasses it.
WatchedUntilDecided ==
    Watching => /\ \A e \in flowTable : RTMP_PORT \notin {e.flow.sp, e.flow.dp}
                /\ \A i \in DOMAIN toSw : toSw[i].install => ~IsRtmp(toSw[i].pkt)

\* The switch drops a notification channel only after the notice that replaces
\* its heartbeats has gone out on that very connection.
MutedOnlyAfterTold ==
    \A e \in flowTable : e.out = NO_ACTION => \E q \in told : FlowOf(q) = e.flow

\* A forwarding entry leads to its destination.
EntriesLeadToDst ==
    \A e \in flowTable : e.out # NO_ACTION => e.out = Port[e.flow.dst]

\* A notice goes out only in the P2P stage and names, to one of the two roles,
\* the host that holds the other one when it goes out, not only when the
\* controller wrote it.
ToldTheOtherRole ==
    [][\A q \in told' \ told :
          /\ p2p_enabled
          /\ \/ q.dst = v_addr /\ q.data = <<Notice(b_addr)>>
             \/ q.dst = b_addr /\ q.data = <<Notice(v_addr)>>]_vars

\* Once decided, neither the mode nor the roles change while the connection
\* stays up, whatever RTMP traffic further viewers and broadcasters cause.
DecisionIsFinal ==
    [][~Watching /\ reconnects' = reconnects => UNCHANGED <<mode, roles, status>>]_vars

\* Seen through mode, notices on the wire and drop entries, the controller and
\* its switch do what Steering promises.
modeOf == IF p2p_enabled THEN "p2p" ELSE IF p2p_set_off THEN "off" ELSE "watching"

SteeringAbs == INSTANCE Steering WITH
    Channels <- Flow,
    mode     <- modeOf,
    told     <- {FlowOf(q) : q \in told},
    muted    <- {e.flow : e \in {d \in flowTable : d.out = NO_ACTION}}

ImplementsSteering == SteeringAbs!Spec

\* POX and the switch serve their connection for ever.
Served == WF_vars(HandlePacketIn) /\ WF_vars(Apply)

\* TCP sends a segment of the RTMP dialogue again until it gets through, and the
\* service sends heartbeats for ever (cdn-server.py 61-65).
DialogueFair ==
    \A p \in Traffic : IsRtmp(p) => SF_vars(p \notin delivered /\ Arrive(p))
HeartbeatsFair ==
    \A p \in Traffic : p.data = <<Heartbeat>> => SF_vars(Arrive(p))

FairSpec == Spec /\ Served /\ DialogueFair /\ HeartbeatsFair

\* When the whole RTMP dialogue of a viewer and a broadcaster gets through and
\* the connection to the controller stays up, the controller decides.
EventuallyDecided == <>~Watching

\* Once in the P2P stage, whoever of the two has opened a notification channel
\* is told of the other.
ChannelOpen(h) ==
    \E q \in delivered : q.src = h /\ q.dp = NOTIFY_PORT
BothTold ==
    \A h \in Hosts :
        (p2p_enabled /\ h \in {v_addr, b_addr} /\ ChannelOpen(h))
            ~> (\E q \in told : q.dst = h)

\* Once the mode is decided the RTMP packets stop going through the controller
\* (the comment at bypass.py 637-639).
VideoOffloaded ==
    ~Watching ~> [](\A i \in DOMAIN toCtl : ~IsRtmp(toCtl[i]))

-----------------------------------------------------------------------------
(* The inductive invariant behind these properties (proved in
   BypassSwitch_proofs) *)

PacketInsFromTraffic == \A i \in DOMAIN toCtl : toCtl[i] \in Traffic

LearnedPorts == \A h \in DOMAIN macToPort : macToPort[h] = Port[h]

\* A flag implies the roles its handler needed, and each mode the flags it was
\* decided on.
FlagsImplyRoles ==
    /\ status_vplay => v_addr # Nobody
    /\ status_bpublish => b_addr # Nobody
    /\ status_vready => status_vplay /\ s_addr # Nobody
    /\ status_bready => status_bpublish /\ s_addr # Nobody
    /\ status_stream_begin => status_vready
    /\ s_addr \in {Nobody, Service}
    /\ p2p_enabled => status_vready /\ status_bready
    /\ p2p_set_off => status_stream_begin /\ ~status_bready

\* A packet the controller has rewritten, as it should be rewritten.
GoodNotice(q) ==
    /\ p2p_enabled
    /\ q.src = Service /\ q.sp = NOTIFY_PORT
    /\ \/ q.dst = v_addr /\ q.data = <<Notice(b_addr)>>
       \/ q.dst = b_addr /\ q.data = <<Notice(v_addr)>>

\* What a message to the switch may be: only a good notice's flow is dropped,
\* and its notice is out already or ahead in the channel.
GoodMessage(i) ==
    LET m == toSw[i] IN
    /\ m.send => m.out # NO_ACTION
    /\ m.send /\ IsNotice(m.pkt) => GoodNotice(m.pkt)
    /\ m.install /\ m.out # NO_ACTION => m.out = Port[m.pkt.dst] /\ ~IsNotify(m.pkt)
    /\ m.install /\ m.out = NO_ACTION =>
          /\ GoodNotice(m.pkt)
          /\ \/ m.pkt \in told
             \/ \E j \in 1..(i - 1) :
                   toSw[j].pkt = m.pkt /\ toSw[j].send /\ Reaches(toSw[j].out, m.pkt)

GoodChannel == \A i \in DOMAIN toSw : GoodMessage(i)

GoodTable ==
    \A e \in flowTable :
        IF e.out = NO_ACTION THEN p2p_enabled /\ e.flow.sp = NOTIFY_PORT
                             ELSE NOTIFY_PORT \notin {e.flow.sp, e.flow.dp}

IInv ==
    /\ TypeOK
    /\ PacketInsFromTraffic
    /\ LearnedPorts
    /\ FlagsImplyRoles
    /\ WatchedUntilDecided
    /\ GoodChannel
    /\ GoodTable
    /\ EntriesLeadToDst
    /\ MutedOnlyAfterTold
=============================================================================
