------------------------ MODULE BypassSwitch_proofs ------------------------
(***************************************************************************)
(* Proofs about BypassSwitch, for any set of hosts, any traffic and any    *)
(* bounds: IInv is an inductive invariant, the safety properties follow    *)
(* from it, and the controller with its switch implements Steering.        *)
(***************************************************************************)
EXTENDS BypassSwitch, TLAPS

\* What TrafficAssumption and HostsAssumption say of one packet and its ports.
LEMMA TrafficFacts ==
    ASSUME NEW p \in Traffic
    PROVE  /\ p \in Packet
           /\ p.src \in Hosts /\ p.dst \in Hosts /\ p.src # p.dst
           /\ ~IsNotice(p)
           /\ p.sp = NOTIFY_PORT => p.src = Service
           /\ p.sp = RTMP_PORT => p.src = Service
           /\ FlowOf(p) \in Flow
BY TrafficAssumption DEF Packet, FlowOf, Flow

LEMMA PortFacts ==
    /\ \A h \in Hosts : Port[h] \in Ports /\ Port[h] \notin {OFPP_FLOOD, NO_ACTION}
    /\ \A h \in Hosts \ {Service} : Port[h] # Port[Service]
    /\ Ports \subseteq OutPorts
    /\ OFPP_FLOOD \in OutPorts /\ NO_ACTION \in OutPorts
    /\ OFPP_FLOOD # NO_ACTION
BY HostsAssumption DEF Ports, OutPorts, OFPP_FLOOD, NO_ACTION

LEMMA InitIInv == Init => IInv
<1> SUFFICES ASSUME Init PROVE IInv
  OBVIOUS
<1>1. TypeOK
  <2>1. macToPort \in [{} -> Ports]
    BY DEF Init, FreshController
  <2>2. macToPort \in UNION {[D -> Ports] : D \in SUBSET Hosts}
    BY <2>1
  <2>3. toCtl \in Seq(Packet) /\ toSw \in Seq(SwMsg)
    BY DEF Init
  <2>4. reconnects \in 0..MaxReconnects
    BY BoundsAssumption DEF Init
  <2> QED BY <2>2, <2>3, <2>4 DEF Init, FreshController, TypeOK
<1>2. PacketInsFromTraffic /\ LearnedPorts /\ FlagsImplyRoles
  BY DEF Init, FreshController, PacketInsFromTraffic, LearnedPorts, FlagsImplyRoles,
         status_vplay, status_vready, status_bpublish, status_bready, status_stream_begin
<1>3. WatchedUntilDecided /\ GoodChannel /\ GoodTable /\ EntriesLeadToDst /\ MutedOnlyAfterTold
  BY DEF Init, FreshController, WatchedUntilDecided, GoodChannel, GoodTable,
         EntriesLeadToDst, MutedOnlyAfterTold
<1> QED BY <1>1, <1>2, <1>3 DEF IInv

-----------------------------------------------------------------------------
(* Facts shared by the handlers *)

\* Taking a packet-in learns a right port and leaves a right queue.
LEMMA TakeFacts ==
    ASSUME IInv, toCtl # << >>, NEW p, p = Head(toCtl), TakePacketIn(p)
    PROVE  /\ p \in Traffic
           /\ toCtl' \in Seq(Packet)
           /\ PacketInsFromTraffic'
           /\ macToPort' \in UNION {[D -> Ports] : D \in SUBSET Hosts}
           /\ LearnedPorts'
           /\ OutPort(p) \in {Port[p.dst], OFPP_FLOOD}
<1>1. p \in Traffic
  BY DEF IInv, TypeOK, PacketInsFromTraffic
<1>2. toCtl' \in Seq(Packet) /\ PacketInsFromTraffic'
  BY DEF IInv, TypeOK, PacketInsFromTraffic, TakePacketIn
<1>3. PICK D \in SUBSET Hosts : macToPort \in [D -> Ports]
  BY DEF IInv, TypeOK
<1>4. /\ macToPort' \in [D \cup {p.src} -> Ports]
      /\ D \cup {p.src} \in SUBSET Hosts
      /\ \A h \in D \cup {p.src} : macToPort'[h] = Port[h]
  BY <1>1, <1>3, TrafficFacts, PortFacts DEF IInv, LearnedPorts, TakePacketIn, Learn
<1>5. LearnedPorts'
  BY <1>4 DEF LearnedPorts
<1>6. macToPort' \in UNION {[E -> Ports] : E \in SUBSET Hosts}
  BY <1>4
<1>7. OutPort(p) \in {Port[p.dst], OFPP_FLOOD}
  BY <1>4 DEF OutPort, TakePacketIn
<1> QED BY <1>1, <1>2, <1>5, <1>6, <1>7

\* Appending an ordinary message, one that carries no notice and drops nothing,
\* keeps the channel good as long as notices stay good.
LEMMA AppendGood ==
    ASSUME toSw \in Seq(SwMsg), GoodChannel, NEW m \in SwMsg,
           toSw' = Append(toSw, m), told' = told,
           \A q : GoodNotice(q) => GoodNotice(q)',
           ~IsNotice(m.pkt), m.out # NO_ACTION,
           m.install => m.out = Port[m.pkt.dst] /\ ~IsNotify(m.pkt)
    PROVE  toSw' \in Seq(SwMsg) /\ GoodChannel'
<1>1. toSw' \in Seq(SwMsg)
  OBVIOUS
<1>2. ASSUME NEW i \in DOMAIN toSw' PROVE GoodMessage(i)'
  <2>1. CASE i = Len(toSw) + 1
    <3>1. toSw'[i] = m
      BY <2>1
    <3> QED BY <3>1 DEF GoodMessage, IsNotice, IsNotify
  <2>2. CASE i # Len(toSw) + 1
    <3>1. i \in DOMAIN toSw /\ toSw'[i] = toSw[i]
      BY <2>2
    <3>2. \A j \in 1..(i - 1) : toSw'[j] = toSw[j]
      BY <2>2, <3>1
    <3>3. GoodMessage(i)
      BY <3>1 DEF GoodChannel
    <3> QED BY <3>1, <3>2, <3>3 DEF GoodMessage, IsNotice, IsNotify, Reaches
  <2> QED BY <2>1, <2>2
<1> QED BY <1>1, <1>2 DEF GoodChannel

\* A handler that keeps roles, flags and mode keeps what only depends on them.
LEMMA UnchangedRoles ==
    ASSUME IInv, UNCHANGED <<roles, status, mode, flowTable, told>>
    PROVE  /\ FlagsImplyRoles' /\ GoodTable' /\ EntriesLeadToDst' /\ MutedOnlyAfterTold'
           /\ \A q : GoodNotice(q) => GoodNotice(q)'
           /\ v_addr' \in Hosts \cup {Nobody} /\ b_addr' \in Hosts \cup {Nobody}
           /\ s_addr' \in Hosts \cup {Nobody}
           /\ status' \subseteq Messages \ {"other"}
           /\ p2p_enabled' \in BOOLEAN /\ p2p_set_off' \in BOOLEAN
           /\ flowTable' \subseteq FlowEntry /\ told' \subseteq Packet
BY DEF IInv, TypeOK, FlagsImplyRoles, GoodTable, EntriesLeadToDst, MutedOnlyAfterTold,
       GoodNotice, roles, mode, status_vplay, status_vready, status_bpublish,
       status_bready, status_stream_begin

\* An L2 or notification handler, which keeps roles, flags and mode, restores
\* the invariant once its messages to the switch are good.
LEMMA KeepRolesInv ==
    ASSUME IInv, toCtl # << >>, TakePacketIn(Head(toCtl)),
           UNCHANGED <<roles, status, mode>>, prepend_buf' \in Messages \cup {"none"},
           toSw' \in Seq(SwMsg), GoodChannel',
           Watching => \A i \in DOMAIN toSw' : toSw'[i].install => ~IsRtmp(toSw'[i].pkt)
    PROVE  IInv'
<1> DEFINE p == Head(toCtl)
<1>1. UNCHANGED <<flowTable, delivered, told, reconnects>>
  BY DEF TakePacketIn
<1>2. TypeOK'
  BY <1>1, TakeFacts, UnchangedRoles DEF TypeOK, IInv
<1>3. PacketInsFromTraffic' /\ LearnedPorts'
  BY TakeFacts
<1>4. FlagsImplyRoles' /\ GoodTable' /\ EntriesLeadToDst' /\ MutedOnlyAfterTold'
  BY <1>1, UnchangedRoles
<1>5. WatchedUntilDecided'
  BY <1>1 DEF IInv, WatchedUntilDecided, Watching, mode, IsRtmp
<1> QED BY <1>2, <1>3, <1>4, <1>5 DEF IInv

LEMMA PacketOutFacts ==
    ASSUME IInv, toCtl # << >>, TakePacketIn(Head(toCtl))
    PROVE  /\ normal_send(Head(toCtl)) \in SwMsg
           /\ PacketOut(Head(toCtl), OFPP_FLOOD) \in SwMsg
           /\ FlowMod(Head(toCtl), OutPort(Head(toCtl))) \in SwMsg
           /\ OutPort(Head(toCtl)) # NO_ACTION
           /\ ~IsNotice(Head(toCtl))
<1> DEFINE p == Head(toCtl)
<1>1. p \in Traffic /\ OutPort(p) \in {Port[p.dst], OFPP_FLOOD}
  BY TakeFacts
<1>2. p \in Packet /\ p.dst \in Hosts /\ ~IsNotice(p)
  BY <1>1, TrafficFacts
<1>3. OutPort(p) \in OutPorts /\ OutPort(p) # NO_ACTION
  BY <1>1, <1>2, PortFacts
<1> QED BY <1>2, <1>3, PortFacts DEF normal_send, PacketOut, FlowMod, SwMsg

\* A handler that only sends its packet on restores the invariant.
LEMMA NormalSendInv ==
    ASSUME IInv, toCtl # << >>, TakePacketIn(Head(toCtl)),
           UNCHANGED <<roles, status, mode>>, prepend_buf' \in Messages \cup {"none"},
           toSw' = Append(toSw, normal_send(Head(toCtl)))
    PROVE  IInv'
<1> DEFINE p == Head(toCtl)
<1>1. UNCHANGED <<flowTable, told>>
  BY DEF TakePacketIn
<1>2. \A q : GoodNotice(q) => GoodNotice(q)'
  BY <1>1, UnchangedRoles
<1>3. toSw' \in Seq(SwMsg) /\ GoodChannel'
  BY <1>1, <1>2, PacketOutFacts, AppendGood DEF IInv, TypeOK, normal_send, PacketOut
<1>4. Watching => \A i \in DOMAIN toSw' : toSw'[i].install => ~IsRtmp(toSw'[i].pkt)
  <2> SUFFICES ASSUME Watching, NEW i \in DOMAIN toSw', toSw'[i].install
               PROVE  ~IsRtmp(toSw'[i].pkt)
    OBVIOUS
  <2>1. i \in DOMAIN toSw /\ toSw'[i] = toSw[i]
    BY DEF IInv, TypeOK, normal_send, PacketOut
  <2> QED BY <2>1 DEF IInv, WatchedUntilDecided
<1> QED BY <1>3, <1>4, KeepRolesInv

-----------------------------------------------------------------------------
(* One lemma per action *)

LEMMA ArriveInv ==
    ASSUME IInv, NEW p \in Traffic, Arrive(p)
    PROVE  IInv'
<1>1. UNCHANGED <<ctlVars, toSw, flowTable, told, reconnects>>
  BY DEF Arrive
<1>2. UNCHANGED <<macToPort, v_addr, b_addr, s_addr, status, p2p_enabled, p2p_set_off, prepend_buf>>
  BY <1>1 DEF ctlVars, roles, mode
<1>3. toCtl' \in Seq(Packet) /\ PacketInsFromTraffic'
  <2>1. CASE toCtl' = Append(toCtl, p)
    BY <2>1, TrafficFacts DEF IInv, TypeOK, PacketInsFromTraffic
  <2>2. CASE UNCHANGED toCtl
    BY <2>2 DEF IInv, TypeOK, PacketInsFromTraffic
  <2> QED BY <2>1, <2>2 DEF Arrive
<1>4. delivered' \subseteq Packet
  BY TrafficFacts DEF Arrive, IInv, TypeOK
<1>5. TypeOK'
  BY <1>1, <1>2, <1>3, <1>4 DEF IInv, TypeOK
<1>6. LearnedPorts' /\ FlagsImplyRoles' /\ WatchedUntilDecided' /\ EntriesLeadToDst'
  BY <1>1, <1>2 DEF IInv, LearnedPorts, FlagsImplyRoles, WatchedUntilDecided, Watching,
         EntriesLeadToDst, IsRtmp, status_vplay, status_vready, status_bpublish,
         status_bready, status_stream_begin
<1>7. GoodChannel' /\ GoodTable' /\ MutedOnlyAfterTold'
  BY <1>1, <1>2 DEF IInv, GoodChannel, GoodMessage, GoodNotice, GoodTable,
         MutedOnlyAfterTold, IsNotice, IsNotify, Reaches
<1> QED BY <1>3, <1>5, <1>6, <1>7 DEF IInv

LEMMA HandleNormalInv ==
    ASSUME IInv, toCtl # << >>, HandleNormal(Head(toCtl))
    PROVE  IInv'
<1> DEFINE p == Head(toCtl)
<1>1. TakePacketIn(p) /\ UNCHANGED <<roles, status, mode, prepend_buf>>
  BY DEF HandleNormal
<1>2. UNCHANGED <<flowTable, told>>
  BY <1>1 DEF TakePacketIn
<1>3. \A q : GoodNotice(q) => GoodNotice(q)'
  BY <1>1, <1>2, UnchangedRoles
<1>4. p \in Traffic /\ OutPort(p) \in {Port[p.dst], OFPP_FLOOD}
  BY <1>1, TakeFacts
<1>5. toSw' \in Seq(SwMsg) /\ GoodChannel'
  <2>1. CASE UNCHANGED toSw
    BY <2>1, <1>2, <1>3 DEF IInv, TypeOK, GoodChannel, GoodMessage, IsNotice, IsNotify, Reaches
  <2>2. CASE toSw' = Append(toSw, PacketOut(p, OFPP_FLOOD))
    BY <2>2, <1>1, <1>2, <1>3, PacketOutFacts, PortFacts, AppendGood
       DEF IInv, TypeOK, PacketOut
  <2>3. CASE toSw' = Append(toSw, FlowMod(p, OutPort(p))) /\ ~UnknownDst(p)
    BY <2>3, <1>1, <1>2, <1>3, <1>4, PacketOutFacts, AppendGood
       DEF IInv, TypeOK, FlowMod, UnknownDst, HandleNormal, ForNormal
  <2> QED BY <2>1, <2>2, <2>3 DEF HandleNormal
<1>6. Watching => \A i \in DOMAIN toSw' : toSw'[i].install => ~IsRtmp(toSw'[i].pkt)
  <2> SUFFICES ASSUME Watching, NEW i \in DOMAIN toSw', toSw'[i].install
               PROVE  ~IsRtmp(toSw'[i].pkt)
    OBVIOUS
  <2>1. ~IsRtmp(p)
    BY DEF HandleNormal, ForNormal, ForRtmp
  <2>2. CASE i \in DOMAIN toSw /\ toSw'[i] = toSw[i]
    BY <2>2 DEF IInv, WatchedUntilDecided
  <2>3. CASE i \notin DOMAIN toSw \/ toSw'[i] # toSw[i]
    <3>1. toSw'[i].pkt = p
      BY <2>3 DEF HandleNormal, IInv, TypeOK, PacketOut, FlowMod
    <3> QED BY <3>1, <2>1
  <2> QED BY <2>2, <2>3
<1>7. prepend_buf' \in Messages \cup {"none"}
  BY <1>1 DEF IInv, TypeOK
<1> QED BY <1>1, <1>5, <1>6, <1>7, KeepRolesInv

LEMMA RtmpKeepInv ==
    ASSUME IInv, toCtl # << >>,
           RtmpPass(Head(toCtl)) \/ RtmpBuffer(Head(toCtl)) \/ RtmpUnparsed(Head(toCtl))
    PROVE  IInv'
<1>1. CASE RtmpPass(Head(toCtl))
  BY <1>1, NormalSendInv DEF RtmpPass, IInv, TypeOK
<1>2. CASE RtmpBuffer(Head(toCtl))
  <2>1. prepend_buf' \in Messages
    BY <1>2 DEF RtmpBuffer, HeadOnly, Head12
  <2> QED BY <1>2, <2>1, NormalSendInv DEF RtmpBuffer
<1>3. CASE RtmpUnparsed(Head(toCtl))
  BY <1>3, NormalSendInv DEF RtmpUnparsed
<1> QED BY <1>1, <1>2, <1>3

\* The messages of a segment that parses are among those the parser knows.
LEMMA ContentFacts ==
    ASSUME IInv, NEW p \in Traffic, HasMessages(p), Parses(Content(p))
    PROVE  /\ Content(p) \in Seq(Piece)
           /\ \A i \in DOMAIN Content(p) : Content(p)[i].what \in Messages
<1>1. p.data \in Seq(Piece) /\ p.data # << >>
  BY TrafficFacts DEF Packet, HasMessages, Unobserved
<1>2. Content(p) \in Seq(Piece)
  <2>1. CASE prepend_buf = "none"
    <3>1. Content(p) = p.data
      BY <2>1 DEF Content
    <3> QED BY <1>1, <3>1
  <2>2. CASE prepend_buf # "none"
    <3>1. Whole(prepend_buf) \in Piece /\ Head12(prepend_buf) \in Piece
      BY <2>2 DEF IInv, TypeOK, Whole, Head12, Piece
    <3>2. Tail(p.data) \in Seq(Piece)
      BY <1>1
    <3>3. /\ <<Whole(prepend_buf)>> \o Tail(p.data) \in Seq(Piece)
          /\ <<Head12(prepend_buf)>> \o p.data \in Seq(Piece)
      BY <1>1, <3>1, <3>2
    <3>4. \/ Content(p) = <<Whole(prepend_buf)>> \o Tail(p.data)
          \/ Content(p) = <<Head12(prepend_buf)>> \o p.data
      BY <2>2 DEF Content
    <3> QED BY <3>3, <3>4
  <2> QED BY <2>1, <2>2
<1>3. ASSUME NEW i \in DOMAIN Content(p) PROVE Content(p)[i].what \in Messages
  <2>1. Content(p)[i] \in Piece /\ Content(p)[i].part = "whole"
    BY <1>2 DEF Parses
  <2> QED BY <2>1 DEF Piece
<1> QED BY <1>2, <1>3

\* What the loop over a segment's messages does to roles and flags.
LEMMA ObserveFacts ==
    ASSUME IInv, NEW p \in Traffic, NEW c \in Seq(Piece),
           \A i \in DOMAIN c : c[i].what \in Messages,
           Observe(p, c)
    PROVE  /\ v_addr' \in Hosts \cup {Nobody} /\ b_addr' \in Hosts \cup {Nobody}
           /\ s_addr' \in {Nobody, Service}
           /\ status' \subseteq Messages \ {"other"}
           /\ status_vplay' => v_addr' # Nobody
           /\ status_bpublish' => b_addr' # Nobody
           /\ status_vready' => status_vplay' /\ s_addr' # Nobody
           /\ status_bready' => status_bpublish' /\ s_addr' # Nobody
           /\ status_stream_begin' => status_vready'
<1> USE DEF status_vplay, status_vready, status_bpublish, status_bready, status_stream_begin
<1>1. Seen(p, c) \subseteq Messages
  BY DEF Seen, Handled, Reached
<1>2. p.src \in Hosts /\ p.src # Nobody /\ Service # Nobody
  BY TrafficFacts, HostsAssumption
<1>3. NamesService(p, c) => p.src = Service
  BY TrafficFacts DEF NamesService, Identifies
<1>4. ASSUME NEW m \in Seen(p, c)
      PROVE  /\ Prerequisite(m) \in {"none"} \cup status \cup Seen(p, c)
             /\ m \in {"play_start", "publish_start"} => NamesService(p, c)
  <2>1. PICK i \in Handled(p, c) : m = c[i].what
    BY DEF Seen
  <2>2. i \in Reached(p, c) /\ i \in DOMAIN c /\ Asserts(p, c, i)
    BY <2>1 DEF Handled, Reached
  <2>3. ASSUME NEW j \in 1..(i - 1) PROVE j \in Handled(p, c)
    <3>1. j \in DOMAIN c
      BY <2>2
    <3>2. \A k \in 1..(j - 1) : k \in 1..(i - 1)
      BY <2>2
    <3> QED BY <2>2, <3>1, <3>2 DEF Handled, Reached
  <2>4. Before(c, i) \subseteq Seen(p, c)
    BY <2>3 DEF Before, Seen
  <2> QED BY <2>1, <2>2, <2>4 DEF Asserts, NamesService
<1>5. /\ status' = status \cup (Seen(p, c) \ {"other"})
      /\ v_addr' = IF "play_req" \in Seen(p, c) THEN p.src ELSE v_addr
      /\ b_addr' = IF "publish_req" \in Seen(p, c) THEN p.src ELSE b_addr
      /\ s_addr' = IF NamesService(p, c) THEN p.src ELSE s_addr
  BY DEF Observe
<1>6. "play_start" \in status' => "play_req" \in status' /\ s_addr' # Nobody
  BY <1>2, <1>4, <1>5 DEF IInv, FlagsImplyRoles, Prerequisite
<1>7. "publish_start" \in status' => "publish_req" \in status' /\ s_addr' # Nobody
  BY <1>2, <1>4, <1>5 DEF IInv, FlagsImplyRoles, Prerequisite
<1>8. "stream_begin" \in status' => "play_start" \in status'
  BY <1>4, <1>5 DEF IInv, FlagsImplyRoles, Prerequisite
<1>9. /\ "play_req" \in status' => v_addr' # Nobody
      /\ "publish_req" \in status' => b_addr' # Nobody
      /\ s_addr' \in {Nobody, Service}
  BY <1>2, <1>3, <1>5 DEF IInv, FlagsImplyRoles
<1>10. /\ v_addr' \in Hosts \cup {Nobody} /\ b_addr' \in Hosts \cup {Nobody}
       /\ status' \subseteq Messages \ {"other"}
  BY <1>1, <1>2, <1>5 DEF IInv, TypeOK
<1> QED BY <1>6, <1>7, <1>8, <1>9, <1>10

LEMMA RtmpObserveInv ==
    ASSUME IInv, toCtl # << >>, RtmpObserve(Head(toCtl))
    PROVE  IInv'
<1> DEFINE p == Head(toCtl)
           c == Content(p)
<1>1. /\ TakePacketIn(p) /\ Watching
      /\ HasMessages(p) /\ Parses(c) /\ prepend_buf' = "none" /\ Observe(p, c)
      /\ UNCHANGED <<flowTable, delivered, told, reconnects>>
  BY DEF RtmpObserve, ForRtmp, TakePacketIn
<1>2. p \in Traffic
  BY <1>1, TakeFacts
<1>3. c \in Seq(Piece) /\ \A i \in DOMAIN c : c[i].what \in Messages
  BY <1>1, <1>2, ContentFacts
<1> HIDE DEF c
<1>4. /\ v_addr' \in Hosts \cup {Nobody} /\ b_addr' \in Hosts \cup {Nobody}
      /\ s_addr' \in {Nobody, Service}
      /\ status' \subseteq Messages \ {"other"}
      /\ status_vplay' => v_addr' # Nobody
      /\ status_bpublish' => b_addr' # Nobody
      /\ status_vready' => status_vplay' /\ s_addr' # Nobody
      /\ status_bready' => status_bpublish' /\ s_addr' # Nobody
      /\ status_stream_begin' => status_vready'
  BY <1>1, <1>2, <1>3, ObserveFacts
<1>5. ~p2p_enabled /\ ~p2p_set_off
  BY <1>1 DEF Watching
<1>6. \/ toSw' = Append(toSw, normal_send(p)) /\ Decide
      \/ UNCHANGED <<toSw, mode>>
  BY DEF RtmpObserve
<1>7. /\ p2p_enabled' \in BOOLEAN /\ p2p_set_off' \in BOOLEAN
      /\ p2p_enabled' => status_vready' /\ status_bready'
      /\ p2p_set_off' => status_stream_begin' /\ ~status_bready'
  <2>1. CASE UNCHANGED mode
    BY <2>1, <1>5 DEF mode, IInv, TypeOK
  <2>2. CASE Decide
    <3>1. p2p_set_off' = (status_stream_begin' /\ ~status_bready')
      BY <2>2, <1>5 DEF Decide
    <3>2. p2p_enabled' = (status_vready' /\ status_bready')
      BY <2>2, <1>5 DEF Decide
    <3> QED BY <3>1, <3>2 DEF status_vready, status_bready, status_stream_begin
  <2> QED BY <1>6, <2>1, <2>2
<1>8. FlagsImplyRoles'
  BY <1>4, <1>7 DEF FlagsImplyRoles
<1>9. toSw' \in Seq(SwMsg) /\ GoodChannel'
  <2>1. \A q : GoodNotice(q) => GoodNotice(q)'
    BY <1>5 DEF GoodNotice
  <2>2. CASE toSw' = Append(toSw, normal_send(p))
    BY <2>1, <2>2, <1>1, PacketOutFacts, AppendGood DEF IInv, TypeOK, normal_send, PacketOut
  <2>3. CASE UNCHANGED toSw
    BY <2>1, <2>3, <1>1 DEF IInv, TypeOK, GoodChannel, GoodMessage, IsNotice, IsNotify, Reaches
  <2> QED BY <1>6, <2>2, <2>3
<1>10. TypeOK'
  BY <1>1, <1>4, <1>7, <1>9, TakeFacts, HostsAssumption DEF TypeOK, IInv
<1>11. PacketInsFromTraffic' /\ LearnedPorts'
  BY <1>1, TakeFacts
<1>12. WatchedUntilDecided'
  <2>1. ASSUME NEW i \in DOMAIN toSw', toSw'[i].install
        PROVE  i \in DOMAIN toSw /\ toSw'[i] = toSw[i]
    BY <2>1, <1>6 DEF IInv, TypeOK, normal_send, PacketOut
  <2> QED BY <2>1, <1>1 DEF IInv, WatchedUntilDecided, IsRtmp
<1>13. GoodTable' /\ EntriesLeadToDst' /\ MutedOnlyAfterTold'
  BY <1>1, <1>5 DEF IInv, GoodTable, EntriesLeadToDst, MutedOnlyAfterTold
<1> QED BY <1>8, <1>9, <1>10, <1>11, <1>12, <1>13 DEF IInv

LEMMA NotifyTellInv ==
    ASSUME IInv, toCtl # << >>, NotifyTell(Head(toCtl))
    PROVE  IInv'
<1> DEFINE p == Head(toCtl)
<1>0. PICK n : n = Rewritten(p)
  OBVIOUS
<1> DEFINE out == PacketOut(n, OutPort(p))
           drop == DropMod(n)
<1>1. /\ TakePacketIn(p) /\ UNCHANGED <<roles, status, mode, prepend_buf, flowTable, told>>
      /\ p2p_enabled /\ p.sp = NOTIFY_PORT /\ PeerOf(p.dst) # Nobody
      /\ toSw' = toSw \o <<out, drop>>
  BY <1>0 DEF NotifyTell, ForPeer, TakePacketIn
<1>2. p \in Traffic /\ OutPort(p) \in {Port[p.dst], OFPP_FLOOD}
  BY <1>1, TakeFacts
<1>3. p \in Packet /\ p.src = Service /\ p.dst \in Hosts \ {Service}
  BY <1>1, <1>2, TrafficFacts
<1>4. v_addr \in Hosts /\ b_addr \in Hosts /\ ~Watching
  BY <1>1 DEF IInv, TypeOK, FlagsImplyRoles, Watching
<1>5. \/ p.dst = v_addr /\ PeerOf(p.dst) = b_addr
      \/ p.dst = b_addr /\ PeerOf(p.dst) = v_addr
  BY <1>1 DEF PeerOf
<1>6. /\ n \in Packet /\ n.src = p.src /\ n.dst = p.dst /\ n.sp = p.sp /\ n.dp = p.dp
      /\ n.data = <<Notice(PeerOf(p.dst))>>
  <2>1. Notice(PeerOf(p.dst)) \in Piece
    BY <1>4, <1>5 DEF Notice, Piece
  <2>2. <<Notice(PeerOf(p.dst))>> \in Seq(Piece)
    BY <2>1
  <2> QED BY <1>0, <1>3, <2>2 DEF Rewritten, Packet
<1>7. GoodNotice(n) /\ GoodNotice(n)'
  BY <1>1, <1>3, <1>5, <1>6 DEF GoodNotice, roles, mode
<1>8. OutPort(p) \in OutPorts /\ OutPort(p) # NO_ACTION /\ Reaches(OutPort(p), n)
  BY <1>2, <1>3, <1>6, PortFacts DEF Reaches
<1>9. out \in SwMsg /\ drop \in SwMsg
  BY <1>6, <1>8, PortFacts DEF PacketOut, DropMod, SwMsg
<1>10. /\ toSw' \in Seq(SwMsg) /\ Len(toSw') = Len(toSw) + 2
       /\ \A i \in 1..Len(toSw) : toSw'[i] = toSw[i]
       /\ toSw'[Len(toSw) + 1] = out /\ toSw'[Len(toSw) + 2] = drop
  BY <1>1, <1>9 DEF IInv, TypeOK
<1>11. GoodChannel'
  <2> SUFFICES ASSUME NEW i \in 1..(Len(toSw) + 2) PROVE GoodMessage(i)'
    BY <1>10 DEF GoodChannel
  <2>1. CASE i \in 1..Len(toSw)
    <3>1. GoodMessage(i) /\ toSw'[i] = toSw[i] /\ \A j \in 1..(i - 1) : toSw'[j] = toSw[j]
      BY <2>1, <1>10 DEF IInv, TypeOK, GoodChannel
    <3>2. \A q : GoodNotice(q) => GoodNotice(q)'
      BY <1>1 DEF GoodNotice, roles, mode
    <3> QED BY <3>1, <3>2, <1>1 DEF GoodMessage, IsNotice, IsNotify, Reaches
  <2>2. CASE i = Len(toSw) + 1
    BY <2>2, <1>7, <1>8, <1>10 DEF GoodMessage, PacketOut
  <2>3. CASE i = Len(toSw) + 2
    <3>1. toSw'[i] = drop /\ toSw'[i - 1] = out /\ i - 1 \in 1..(i - 1)
      BY <2>3, <1>10 DEF IInv, TypeOK
    <3> QED BY <3>1, <1>7, <1>8 DEF GoodMessage, PacketOut, DropMod, Reaches
  <2> QED BY <2>1, <2>2, <2>3 DEF IInv, TypeOK
<1> QED BY <1>1, <1>4, <1>10, <1>11, KeepRolesInv DEF IInv, TypeOK

LEMMA NotifyKeepInv ==
    ASSUME IInv, toCtl # << >>, NotifyForward(Head(toCtl)) \/ NotifyFail(Head(toCtl))
    PROVE  IInv'
<1>1. CASE NotifyForward(Head(toCtl))
  BY <1>1, NormalSendInv DEF NotifyForward, IInv, TypeOK
<1>2. CASE NotifyFail(Head(toCtl))
  <2>1. /\ TakePacketIn(Head(toCtl))
        /\ UNCHANGED <<toSw, roles, status, mode, prepend_buf, flowTable, told>>
    BY <1>2 DEF NotifyFail, TakePacketIn
  <2>2. \A q : GoodNotice(q) => GoodNotice(q)'
    BY <2>1, UnchangedRoles
  <2>3. toSw' \in Seq(SwMsg) /\ GoodChannel'
    BY <2>1, <2>2 DEF IInv, TypeOK, GoodChannel, GoodMessage, IsNotice, IsNotify, Reaches
  <2> QED BY <2>1, <2>3, KeepRolesInv DEF IInv, TypeOK, WatchedUntilDecided, IsRtmp
<1> QED BY <1>1, <1>2

\* A good notice is one the switch recognises as a notice.
LEMMA GoodNoticeIsNotice ==
    ASSUME IInv, NEW q, GoodNotice(q)
    PROVE  IsNotice(q)
BY DEF GoodNotice, IsNotice, IInv, TypeOK, FlagsImplyRoles

LEMMA ApplyInv ==
    ASSUME IInv, Apply
    PROVE  IInv'
<1>0. PICK m : m = Head(toSw)
  OBVIOUS
<1>1. /\ toSw # << >> /\ toSw' = Tail(toSw)
      /\ UNCHANGED <<macToPort, roles, status, mode, prepend_buf, toCtl, reconnects>>
      /\ delivered' = delivered \cup OnWire(m)
      /\ told' = told \cup {p \in OnWire(m) : IsNotice(p)}
      /\ flowTable' = IF m.install
                        THEN {e \in flowTable : e.flow # FlowOf(m.pkt)}
                               \cup {[flow |-> FlowOf(m.pkt), out |-> m.out]}
                        ELSE flowTable
  BY <1>0 DEF Apply, ctlVars
<1>2. UNCHANGED <<v_addr, b_addr, s_addr, p2p_enabled, p2p_set_off>>
  BY <1>1 DEF roles, mode
<1>3. m = toSw[1] /\ m \in SwMsg /\ 1 \in DOMAIN toSw /\ GoodMessage(1)
  BY <1>0, <1>1 DEF IInv, TypeOK, GoodChannel
<1>4. m.pkt \in Packet /\ OnWire(m) \subseteq {m.pkt} /\ FlowOf(m.pkt) \in Flow
  BY <1>3 DEF SwMsg, OnWire, Packet, FlowOf, Flow
<1>5. flowTable' \subseteq FlowEntry
  BY <1>1, <1>3, <1>4 DEF IInv, TypeOK, FlowEntry, SwMsg
<1>6. TypeOK'
  <2>1. toSw' \in Seq(SwMsg)
    BY <1>1 DEF IInv, TypeOK
  <2>2. delivered' \subseteq Packet /\ told' \subseteq Packet
    BY <1>1, <1>4 DEF IInv, TypeOK
  <2> QED BY <1>1, <1>2, <1>5, <2>1, <2>2 DEF IInv, TypeOK
<1>7. PacketInsFromTraffic' /\ LearnedPorts' /\ FlagsImplyRoles'
  BY <1>1, <1>2 DEF IInv, PacketInsFromTraffic, LearnedPorts, FlagsImplyRoles,
         status_vplay, status_vready, status_bpublish, status_bready, status_stream_begin
<1>8. WatchedUntilDecided'
  <2>1. \A i \in DOMAIN toSw' : i + 1 \in DOMAIN toSw /\ toSw'[i] = toSw[i + 1]
    BY <1>1 DEF IInv, TypeOK
  <2>2. Watching' => Watching
    BY <1>2 DEF Watching
  <2>3. ASSUME Watching, NEW e \in flowTable' PROVE RTMP_PORT \notin {e.flow.sp, e.flow.dp}
    <3>1. CASE e \in flowTable
      BY <2>3, <3>1 DEF IInv, WatchedUntilDecided
    <3>2. CASE e = [flow |-> FlowOf(m.pkt), out |-> m.out] /\ m.install
      BY <2>3, <3>2, <1>3 DEF IInv, WatchedUntilDecided, IsRtmp, FlowOf
    <3> QED BY <1>1, <3>1, <3>2
  <2>4. Watching => \A i \in DOMAIN toSw' : toSw'[i].install => ~IsRtmp(toSw'[i].pkt)
    BY <2>1 DEF IInv, WatchedUntilDecided
  <2> QED BY <2>2, <2>3, <2>4 DEF WatchedUntilDecided, IsRtmp
<1>9. ASSUME NEW i \in DOMAIN toSw' PROVE GoodMessage(i)'
  <2>1. /\ i + 1 \in DOMAIN toSw /\ toSw'[i] = toSw[i + 1]
        /\ i \in Nat /\ (i + 1) - 1 = i
    BY <1>1 DEF IInv, TypeOK
  <2>2. \A j \in 1..(i - 1) : j + 1 \in 2..i /\ toSw'[j] = toSw[j + 1]
    BY <1>1, <2>1 DEF IInv, TypeOK
  <2>3. GoodMessage(i + 1)
    BY <2>1 DEF IInv, GoodChannel
  <2>4. \A q : GoodNotice(q) => GoodNotice(q)'
    BY <1>2 DEF GoodNotice
  <2>5. ASSUME toSw[i + 1].install, toSw[i + 1].out = NO_ACTION,
               toSw[i + 1].pkt \notin told'
        PROVE  \E j \in 1..(i - 1) :
                  toSw'[j].pkt = toSw[i + 1].pkt /\ toSw'[j].send
                     /\ Reaches(toSw'[j].out, toSw[i + 1].pkt)
    <3>1. GoodNotice(toSw[i + 1].pkt) /\ toSw[i + 1].pkt \notin told
      BY <2>3, <2>5, <1>1 DEF GoodMessage
    <3>2. PICK k \in 1..i : /\ toSw[k].pkt = toSw[i + 1].pkt /\ toSw[k].send
                            /\ Reaches(toSw[k].out, toSw[i + 1].pkt)
      BY <2>1, <2>3, <2>5, <3>1 DEF GoodMessage
    <3>3. k # 1
      <4> SUFFICES ASSUME k = 1 PROVE FALSE
        OBVIOUS
      <4>1. m.pkt \in OnWire(m) /\ m.pkt = toSw[i + 1].pkt
        BY <1>3, <3>2 DEF OnWire
      <4>2. IsNotice(m.pkt)
        BY <3>1, <4>1, GoodNoticeIsNotice
      <4> QED BY <1>1, <2>5, <4>1, <4>2
    <3>4. k - 1 \in 1..(i - 1) /\ toSw'[k - 1] = toSw[k]
      BY <2>1, <2>2, <3>2, <3>3
    <3> QED BY <3>2, <3>4
  <2> QED BY <2>1, <2>3, <2>4, <2>5 DEF GoodMessage, IsNotice, IsNotify, Reaches
<1>10. GoodTable'
  <2>1. ASSUME NEW e \in flowTable'
        PROVE  IF e.out = NO_ACTION THEN p2p_enabled /\ e.flow.sp = NOTIFY_PORT
                                    ELSE NOTIFY_PORT \notin {e.flow.sp, e.flow.dp}
    <3>1. CASE e \in flowTable
      BY <3>1 DEF IInv, GoodTable
    <3>2. CASE e = [flow |-> FlowOf(m.pkt), out |-> m.out] /\ m.install
      BY <3>2, <1>3 DEF GoodMessage, GoodNotice, IsNotify, FlowOf
    <3> QED BY <1>1, <3>1, <3>2
  <2> QED BY <2>1, <1>2 DEF GoodTable
<1>11. EntriesLeadToDst'
  <2>1. ASSUME NEW e \in flowTable', e.out # NO_ACTION PROVE e.out = Port[e.flow.dst]
    <3>1. CASE e \in flowTable
      BY <2>1, <3>1 DEF IInv, EntriesLeadToDst
    <3>2. CASE e = [flow |-> FlowOf(m.pkt), out |-> m.out] /\ m.install
      BY <2>1, <3>2, <1>3 DEF GoodMessage, FlowOf
    <3> QED BY <1>1, <3>1, <3>2
  <2> QED BY <2>1 DEF EntriesLeadToDst
<1>12. MutedOnlyAfterTold'
  <2>1. ASSUME NEW e \in flowTable', e.out = NO_ACTION
        PROVE  \E q \in told' : FlowOf(q) = e.flow
    <3>1. CASE e \in flowTable
      BY <2>1, <3>1, <1>1 DEF IInv, MutedOnlyAfterTold
    <3>2. CASE e = [flow |-> FlowOf(m.pkt), out |-> m.out] /\ m.install
      <4>1. m.pkt \in told
        BY <2>1, <3>2, <1>3 DEF GoodMessage
      <4> QED BY <3>2, <4>1, <1>1
    <3> QED BY <1>1, <3>1, <3>2
  <2> QED BY <2>1 DEF MutedOnlyAfterTold, FlowOf
<1> QED BY <1>6, <1>7, <1>8, <1>9, <1>10, <1>11, <1>12 DEF IInv, GoodChannel

LEMMA ReconnectInv ==
    ASSUME IInv, Reconnect
    PROVE  IInv'
<1>1. TypeOK'
  <2>1. macToPort' \in [{} -> Ports]
    BY DEF Reconnect
  <2>2. macToPort' \in UNION {[D -> Ports] : D \in SUBSET Hosts}
    BY <2>1
  <2>3. toCtl' \in Seq(Packet) /\ toSw' \in Seq(SwMsg)
    BY DEF Reconnect
  <2>4. reconnects' \in 0..MaxReconnects
    BY BoundsAssumption DEF Reconnect, IInv, TypeOK
  <2>5. delivered' \subseteq Packet /\ told' \subseteq Packet /\ flowTable' \subseteq FlowEntry
    BY DEF Reconnect, IInv, TypeOK
  <2> QED BY <2>2, <2>3, <2>4, <2>5 DEF Reconnect, TypeOK
<1>2. PacketInsFromTraffic' /\ LearnedPorts' /\ FlagsImplyRoles'
  BY DEF Reconnect, PacketInsFromTraffic, LearnedPorts, FlagsImplyRoles,
         status_vplay, status_vready, status_bpublish, status_bready, status_stream_begin
<1>3. WatchedUntilDecided' /\ GoodChannel' /\ GoodTable' /\ EntriesLeadToDst' /\ MutedOnlyAfterTold'
  BY DEF Reconnect, WatchedUntilDecided, GoodChannel, GoodTable, EntriesLeadToDst,
         MutedOnlyAfterTold
<1> QED BY <1>1, <1>2, <1>3 DEF IInv

-----------------------------------------------------------------------------
(* The invariant, and what follows from it *)

LEMMA StepIInv == IInv /\ [Next]_vars => IInv'
<1> SUFFICES ASSUME IInv, [Next]_vars PROVE IInv'
  OBVIOUS
<1>1. ASSUME NEW p \in Traffic, Arrive(p) PROVE IInv'
  BY <1>1, ArriveInv
<1>2. CASE HandlePacketIn
  BY <1>2, HandleNormalInv, RtmpKeepInv, RtmpObserveInv, NotifyKeepInv, NotifyTellInv
     DEF HandlePacketIn
<1>3. CASE Apply
  BY <1>3, ApplyInv
<1>4. CASE Reconnect
  BY <1>4, ReconnectInv
<1>5. CASE UNCHANGED vars
  BY <1>5 DEF vars, ctlVars, roles, mode, IInv, TypeOK, PacketInsFromTraffic, LearnedPorts,
         FlagsImplyRoles, WatchedUntilDecided, Watching, GoodChannel, GoodMessage, GoodNotice,
         GoodTable, EntriesLeadToDst, MutedOnlyAfterTold, IsNotice, IsNotify, IsRtmp, Reaches,
         status_vplay, status_vready, status_bpublish, status_bready, status_stream_begin
<1> QED BY <1>1, <1>2, <1>3, <1>4, <1>5 DEF Next

THEOREM Invariance == Spec => []IInv
<1>1. Init => IInv
  BY InitIInv
<1>2. IInv /\ [Next]_vars => IInv'
  BY StepIInv
<1> QED BY <1>1, <1>2, PTL DEF Spec

\* Every variable of the controller, its channels and the switch keeps its type.
THEOREM TypeCorrect == Spec => []TypeOK
<1>1. IInv => TypeOK
  BY DEF IInv
<1> QED BY <1>1, Invariance, PTL

\* The assertions on the roles that follow a decision never fire: the flags a
\* decision is taken on imply the roles its later handlers rely on.
THEOREM RolesAlwaysKnown == Spec => []RolesKnown
<1>1. IInv => RolesKnown
  BY DEF IInv, FlagsImplyRoles, RolesKnown
<1> QED BY <1>1, Invariance, PTL

\* The controller never both enters the P2P stage and gives it up.
THEOREM ModesAlwaysExclusive == Spec => []ModesExclusive
<1>1. IInv => ModesExclusive
  BY DEF IInv, FlagsImplyRoles, ModesExclusive
<1> QED BY <1>1, Invariance, PTL

\* No RTMP flow bypasses a controller that still watches the dialogue.
THEOREM AlwaysWatchedUntilDecided == Spec => []WatchedUntilDecided
<1>1. IInv => WatchedUntilDecided
  BY DEF IInv
<1> QED BY <1>1, Invariance, PTL

\* A notification channel is dropped only after its notice went out on it,
\* however many messages are in either OpenFlow channel.
THEOREM AlwaysMutedOnlyAfterTold == Spec => []MutedOnlyAfterTold
<1>1. IInv => MutedOnlyAfterTold
  BY DEF IInv
<1> QED BY <1>1, Invariance, PTL

\* Every forwarding entry leads to its destination.
THEOREM EntriesAlwaysLeadToDst == Spec => []EntriesLeadToDst
<1>1. IInv => EntriesLeadToDst
  BY DEF IInv
<1> QED BY <1>1, Invariance, PTL

\* Only RtmpObserve changes roles, flags or mode while the connection is up,
\* and only a watching controller takes it.
LEMMA DecisionStep ==
    ASSUME IInv, [Next]_vars, ~Watching, reconnects' = reconnects
    PROVE  UNCHANGED <<mode, roles, status>>
<1>1. ~Reconnect
  BY DEF Reconnect, IInv, TypeOK
<1>2. ASSUME NEW p \in Traffic, Arrive(p) PROVE UNCHANGED <<mode, roles, status>>
  BY <1>2 DEF Arrive, ctlVars
<1>3. CASE HandlePacketIn
  BY <1>3 DEF HandlePacketIn, HandleNormal, RtmpPass, RtmpBuffer, RtmpUnparsed, RtmpObserve,
         NotifyForward, NotifyTell, NotifyFail, ForRtmp
<1>4. CASE Apply
  BY <1>4 DEF Apply, ctlVars
<1>5. CASE UNCHANGED vars
  BY <1>5 DEF vars, ctlVars
<1> QED BY <1>1, <1>2, <1>3, <1>4, <1>5 DEF Next

\* Mode and roles are final once decided, until the switch reconnects.
THEOREM DecisionAlwaysFinal == Spec => DecisionIsFinal
<1>1. IInv /\ [Next]_vars
        => [~Watching /\ reconnects' = reconnects => UNCHANGED <<mode, roles, status>>]_vars
  BY DecisionStep
<1> QED BY <1>1, Invariance, PTL DEF Spec, DecisionIsFinal

\* Notices reach a wire only when the switch carries out the controller's
\* messages, and those carry good notices only.
LEMMA ToldStep ==
    ASSUME IInv, [Next]_vars, NEW q \in told' \ told
    PROVE  GoodNotice(q)
<1>1. CASE Apply
  <2>1. PICK m : m = Head(toSw)
    OBVIOUS
  <2>2. q \in OnWire(m) /\ IsNotice(q)
    BY <1>1, <2>1 DEF Apply
  <2>3. q = m.pkt /\ m.send
    BY <2>2 DEF OnWire
  <2>4. GoodMessage(1) /\ m = toSw[1]
    BY <1>1, <2>1 DEF Apply, IInv, TypeOK, GoodChannel
  <2> QED BY <2>2, <2>3, <2>4 DEF GoodMessage
<1>2. CASE HandlePacketIn
  BY <1>2 DEF HandlePacketIn, HandleNormal, RtmpPass, RtmpBuffer, RtmpUnparsed, RtmpObserve,
         NotifyForward, NotifyTell, NotifyFail, TakePacketIn
<1>3. ASSUME NEW p \in Traffic, Arrive(p) PROVE FALSE
  BY <1>3 DEF Arrive
<1> QED BY <1>1, <1>2, <1>3 DEF Next, Reconnect, vars

\* A notice names, to one role, the host that holds the other role as it leaves.
THEOREM AlwaysToldTheOtherRole == Spec => ToldTheOtherRole
<1>1. IInv /\ [Next]_vars
        => [\A q \in told' \ told :
              /\ p2p_enabled
              /\ \/ q.dst = v_addr /\ q.data = <<Notice(b_addr)>>
                 \/ q.dst = b_addr /\ q.data = <<Notice(v_addr)>>]_vars
  BY ToldStep DEF GoodNotice
<1> QED BY <1>1, Invariance, PTL DEF Spec, ToldTheOtherRole

-----------------------------------------------------------------------------
(* BypassSwitch implements Steering *)

toldAbs  == {FlowOf(q) : q \in told}
mutedAbs == {e.flow : e \in {d \in flowTable : d.out = NO_ACTION}}

\* A handler changes the mode only to decide, and nothing else Steering sees.
LEMMA HandlerRefines ==
    ASSUME IInv, IInv', HandlePacketIn
    PROVE  /\ UNCHANGED <<toldAbs, mutedAbs>>
           /\ \/ UNCHANGED modeOf
              \/ modeOf = "watching" /\ modeOf' \in {"p2p", "off"}
<1>1. UNCHANGED <<told, flowTable>>
  BY DEF HandlePacketIn, HandleNormal, RtmpPass, RtmpBuffer, RtmpUnparsed, RtmpObserve,
         NotifyForward, NotifyTell, NotifyFail, TakePacketIn
<1>2. UNCHANGED mode \/ Watching
  BY DEF HandlePacketIn, HandleNormal, RtmpPass, RtmpBuffer, RtmpUnparsed, RtmpObserve,
         NotifyForward, NotifyTell, NotifyFail, ForRtmp
<1>3. UNCHANGED modeOf \/ (modeOf = "watching" /\ modeOf' \in {"p2p", "off"})
  BY <1>2 DEF modeOf, mode, Watching
<1> QED BY <1>1, <1>3 DEF toldAbs, mutedAbs

\* Carrying out a message tells one channel, mutes one that has been told, or
\* changes nothing Steering sees.
LEMMA ApplyRefines ==
    ASSUME IInv, Apply
    PROVE  /\ UNCHANGED modeOf
           /\ \/ UNCHANGED <<toldAbs, mutedAbs>>
              \/ \E c \in Flow :
                    /\ modeOf = "p2p"
                    /\ \/ toldAbs' = toldAbs \cup {c} /\ UNCHANGED mutedAbs
                       \/ /\ c \in toldAbs
                          /\ mutedAbs' = mutedAbs \cup {c} /\ UNCHANGED toldAbs
<1>0. PICK m : m = Head(toSw)
  OBVIOUS
<1> DEFINE f == FlowOf(m.pkt)
<1>1. /\ toSw # << >>
      /\ UNCHANGED <<p2p_enabled, p2p_set_off>>
      /\ told' = told \cup {p \in OnWire(m) : IsNotice(p)}
      /\ flowTable' = IF m.install
                        THEN {e \in flowTable : e.flow # f} \cup {[flow |-> f, out |-> m.out]}
                        ELSE flowTable
  BY <1>0 DEF Apply, ctlVars, mode
<1>2. UNCHANGED modeOf
  BY <1>1 DEF modeOf
<1>3. m \in SwMsg /\ GoodMessage(1) /\ m = toSw[1]
  BY <1>0, <1>1 DEF IInv, TypeOK, GoodChannel
<1>4. f \in Flow /\ OnWire(m) \subseteq {m.pkt}
  BY <1>3 DEF SwMsg, OnWire, Packet, FlowOf, Flow
<1>5. CASE m.install /\ m.out = NO_ACTION
  <2>1. m.pkt \in told /\ p2p_enabled
    BY <1>3, <1>5 DEF GoodMessage, GoodNotice
  <2>2. told' = told
    BY <1>1, <1>3, <1>5 DEF GoodMessage, OnWire
  <2>3. f \in toldAbs /\ toldAbs' = toldAbs
    BY <2>1, <2>2 DEF toldAbs
  <2> DEFINE new == [flow |-> f, out |-> NO_ACTION]
  <2>4. flowTable' = {e \in flowTable : e.flow # f} \cup {new}
    BY <1>1, <1>5
  <2>5. ASSUME NEW x \in mutedAbs' PROVE x \in mutedAbs \cup {f}
    BY <2>4 DEF mutedAbs
  <2>6. ASSUME NEW x \in mutedAbs \cup {f} PROVE x \in mutedAbs'
    <3>1. CASE x = f
      <4>1. new \in flowTable' /\ new.out = NO_ACTION /\ new.flow = f
        BY <2>4
      <4> HIDE DEF new
      <4> QED BY <3>1, <4>1 DEF mutedAbs
    <3>2. CASE x # f
      BY <2>4, <2>6, <3>2 DEF mutedAbs
    <3> QED BY <3>1, <3>2
  <2>7. mutedAbs' = mutedAbs \cup {f}
    BY <2>5, <2>6
  <2> QED BY <1>2, <1>4, <2>1, <2>3, <2>7 DEF modeOf
<1>6. CASE m.install /\ m.out # NO_ACTION
  <2>1. ~IsNotify(m.pkt)
    BY <1>3, <1>6 DEF GoodMessage
  <2>2. m.send => ~IsNotice(m.pkt)
    BY <2>1, <1>3 DEF GoodMessage, GoodNotice, IsNotify
  <2>3. toldAbs' = toldAbs
    BY <2>2, <1>1, <1>4 DEF toldAbs, OnWire
  <2>4. \A e \in flowTable : e.out = NO_ACTION => e.flow # f
    BY <2>1 DEF IInv, GoodTable, IsNotify, FlowOf
  <2>5. mutedAbs' = mutedAbs
    BY <2>4, <1>1, <1>6 DEF mutedAbs
  <2> QED BY <1>2, <2>3, <2>5
<1>7. CASE ~m.install
  <2>1. mutedAbs' = mutedAbs
    BY <1>1, <1>7 DEF mutedAbs
  <2>2. CASE told' = told
    BY <1>2, <2>1, <2>2 DEF toldAbs
  <2>3. CASE told' # told
    <3>1. m.send /\ IsNotice(m.pkt) /\ told' = told \cup {m.pkt}
      BY <2>3, <1>1 DEF OnWire
    <3>2. p2p_enabled
      BY <3>1, <1>3 DEF GoodMessage, GoodNotice
    <3>3. toldAbs' = toldAbs \cup {f}
      BY <3>1 DEF toldAbs
    <3> QED BY <1>2, <1>4, <2>1, <3>2, <3>3 DEF modeOf
  <2> QED BY <2>2, <2>3
<1> QED BY <1>5, <1>6, <1>7

\* Whatever the traffic and the bounds, the controller and its switch do what
\* Steering promises: decide once, tell only in the P2P stage, mute only what
\* has been told.
THEOREM BypassImplementsSteering == Spec => ImplementsSteering
<1> USE DEF toldAbs, mutedAbs
<1>1. Init => SteeringAbs!Init
  BY DEF Init, FreshController, modeOf, SteeringAbs!Init
<1>2. ASSUME IInv, IInv', [Next]_vars
      PROVE  [SteeringAbs!Next]_(SteeringAbs!vars)
  <2>1. CASE HandlePacketIn
    BY <1>2, <2>1, HandlerRefines DEF SteeringAbs!Next, SteeringAbs!Decide, SteeringAbs!vars
  <2>2. CASE Apply
    BY <1>2, <2>2, ApplyRefines
       DEF SteeringAbs!Next, SteeringAbs!Tell, SteeringAbs!Mute, SteeringAbs!vars
  <2>3. CASE Reconnect
    BY <2>3 DEF Reconnect, modeOf, SteeringAbs!Next, SteeringAbs!Reconnect
  <2>4. ASSUME NEW p \in Traffic, Arrive(p) PROVE UNCHANGED SteeringAbs!vars
    BY <2>4 DEF Arrive, ctlVars, mode, modeOf, SteeringAbs!vars
  <2>5. CASE UNCHANGED vars
    BY <2>5 DEF vars, ctlVars, mode, modeOf, SteeringAbs!vars
  <2> QED BY <1>2, <2>1, <2>2, <2>3, <2>4, <2>5 DEF Next
<1> QED BY <1>1, <1>2, Invariance, PTL DEF Spec, ImplementsSteering, SteeringAbs!Spec
=============================================================================
