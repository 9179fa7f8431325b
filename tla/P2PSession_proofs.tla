-------------------------- MODULE P2PSession_proofs --------------------------
(***************************************************************************)
(* For any addresses, sleeps, bounds and losses: the viewer never plays    *)
(* two streams and leaves the service's only when told or when it is gone, *)
(* the broadcaster streams once and to the viewer alone, and the session   *)
(* implements Switchover.                                                  *)
(***************************************************************************)
EXTENDS P2PSession, SequenceTheorems, TLAPS

LEMMA InitIInv == Init => IInv
  BY EndsAssumption, SessionAssumption
  DEF Init, IInv, TypeOK, ChannelTypeOK, ViewerTypeOK, BroadcasterTypeOK, ChannelInit,
      ViewerInit, BroadcasterInit, Controller!Init, NoticesAreTrue, ToldInP2P, ClosedWhenGone,
      LeavesWhenToldOrGone, LeavesWhenTold, PlayersInOrder, EncodersInOrder,
      StreamsToTheViewer, Phases, Addresses, Ends, Message

\* The peer of an end is the other end.
LEMMA PeerFacts == \A h \in Ends : Peer(h) \in Ends /\ Peer(h) # HEARTBEAT /\ Peer(h) \in Message
  BY EndsAssumption DEF Ends, Peer, Message

\* Heartbeats passed on change neither the type nor the truth of an inbox.
LEMMA ForwardedFacts ==
  ASSUME NEW s \in Seq(Message), NEW w \in Seq({HEARTBEAT}), NEW n \in 1..Len(w)
  PROVE  /\ s \o SubSeq(w, 1, n) \in Seq(Message)
         /\ SubSeq(w, n + 1, Len(w)) \in Seq({HEARTBEAT})
         /\ \A i \in DOMAIN (s \o SubSeq(w, 1, n)) :
               \/ i \in DOMAIN s /\ (s \o SubSeq(w, 1, n))[i] = s[i]
               \/ (s \o SubSeq(w, 1, n))[i] = HEARTBEAT
<1> DEFINE u == SubSeq(w, 1, n)
<1>1. u \in Seq({HEARTBEAT}) /\ Len(u) = n /\ \A i \in 1..n : u[i] = w[i]
  BY SubSeqProperties
<1>2. SubSeq(w, n + 1, Len(w)) \in Seq({HEARTBEAT})
  BY SubSeqProperties
<1>3. \A i \in 1..n : u[i] = HEARTBEAT
  BY <1>1
<1>4. u \in Seq(Message)
  BY <1>1 DEF Message
<1> HIDE DEF u
<1>5. /\ s \o u \in Seq(Message)
      /\ Len(s \o u) = Len(s) + Len(u)
      /\ \A i \in 1..(Len(s) + Len(u)) :
            (s \o u)[i] = IF i <= Len(s) THEN s[i] ELSE u[i - Len(s)]
  BY <1>4, ConcatProperties
<1>6. ASSUME NEW i \in DOMAIN (s \o u)
      PROVE  (i \in DOMAIN s /\ (s \o u)[i] = s[i]) \/ (s \o u)[i] = HEARTBEAT
  BY <1>1, <1>3, <1>5
<1> QED BY <1>2, <1>5, <1>6 DEF u

\* A message appended to an inbox that holds true notices.
LEMMA AppendFacts ==
  ASSUME NEW s \in Seq(Message), NEW m \in Message
  PROVE  /\ Append(s, m) \in Seq(Message)
         /\ \A i \in DOMAIN Append(s, m) :
               (i \in DOMAIN s /\ Append(s, m)[i] = s[i]) \/ Append(s, m)[i] = m
  OBVIOUS

-----------------------------------------------------------------------------
(* Preservation, by the part of the session that moves. *)

LEMMA DriverInv == ASSUME IInv, Driver \/ ServiceListens \/ ServiceExits PROVE IInv'
<1> USE EndsAssumption
    DEF IInv, TypeOK, ChannelTypeOK, ViewerTypeOK, BroadcasterTypeOK, NoticesAreTrue,
        ToldInP2P, ClosedWhenGone, LeavesWhenToldOrGone, LeavesWhenTold, PlayersInOrder,
        EncodersInOrder, StreamsToTheViewer, Phases, channelVars, viewerVars, broadcasterVars,
        switchVars, hostVars
<1>1. CASE LaunchService BY <1>1 DEF LaunchService
<1>2. CASE LaunchViewer BY <1>2 DEF LaunchViewer, v_start
<1>3. CASE LaunchBroadcaster BY <1>3 DEF LaunchBroadcaster, b_start
<1>4. CASE Kill BY <1>4 DEF Kill, NextKill
<1>5. CASE ViewerKilled BY <1>5 DEF ViewerKilled, v_exit_on_kill
<1>6. CASE BroadcasterKilled BY <1>6 DEF BroadcasterKilled, b_exit_on_kill
<1>7. CASE ServiceListens BY <1>7 DEF ServiceListens
<1>8. CASE ServiceExits BY <1>8 DEF ServiceExits
<1> QED BY <1>1, <1>2, <1>3, <1>4, <1>5, <1>6, <1>7, <1>8 DEF Driver

\* Heartbeats that are passed on leave every notice as it is.
LEMMA ForwardStep ==
  ASSUME ChannelTypeOK, wire \in [Ends -> Seq({HEARTBEAT})],
         NEW h \in Ends, NEW n \in 1..Merge, Forward(h, n)
  PROVE  /\ inbox' \in [Ends -> Seq(Message)] /\ wire' \in [Ends -> Seq({HEARTBEAT})]
         /\ \A g \in Ends : \A i \in DOMAIN inbox'[g] :
               \/ i \in DOMAIN inbox[g] /\ inbox'[g][i] = inbox[g][i]
               \/ inbox'[g][i] = HEARTBEAT
<1> DEFINE s == inbox[h]
           w == wire[h]
<1>1. s \in Seq(Message) /\ w \in Seq({HEARTBEAT}) /\ n \in 1..Len(w)
  BY SessionAssumption DEF Forward, ChannelTypeOK
<1>2. /\ inbox' = [inbox EXCEPT ![h] = s \o SubSeq(w, 1, n)]
      /\ wire' = [wire EXCEPT ![h] = SubSeq(w, n + 1, Len(w))]
  BY DEF Forward
<1>3. /\ s \o SubSeq(w, 1, n) \in Seq(Message)
      /\ SubSeq(w, n + 1, Len(w)) \in Seq({HEARTBEAT})
      /\ \A i \in DOMAIN (s \o SubSeq(w, 1, n)) :
            \/ i \in DOMAIN s /\ (s \o SubSeq(w, 1, n))[i] = s[i]
            \/ (s \o SubSeq(w, 1, n))[i] = HEARTBEAT
  BY <1>1, ForwardedFacts
<1> QED BY <1>2, <1>3 DEF ChannelTypeOK

LEMMA SwitchInv == ASSUME IInv, Decide \/ \E h \in Ends : Beat(h) \/ Switch(h) PROVE IInv'
<1> USE EndsAssumption, PeerFacts
    DEF IInv, TypeOK, ChannelTypeOK, ViewerTypeOK, BroadcasterTypeOK, NoticesAreTrue,
        ToldInP2P, ClosedWhenGone, LeavesWhenToldOrGone, LeavesWhenTold, PlayersInOrder,
        EncodersInOrder, StreamsToTheViewer, channelVars, viewerVars, broadcasterVars,
        switchVars, hostVars
<1>1. CASE Decide BY <1>1 DEF Decide, Controller!Decide
<1>2. ASSUME NEW h \in Ends, Beat(h) PROVE IInv' BY <1>2 DEF Beat
<1>3. ASSUME NEW h \in Ends, Dialogue(h) PROVE IInv' BY <1>3 DEF Dialogue
<1>4. ASSUME NEW h \in Ends, Mute(h) PROVE IInv' BY <1>4 DEF Mute, Controller!Mute
<1>5. ASSUME NEW h \in Ends, Fin(h) PROVE IInv'
  <2>1. CASE mode # "p2p" BY <1>5, <2>1 DEF Fin
  <2>2. CASE mode = "p2p"
    <3> DEFINE s == inbox[h]
    <3>1. s \in Seq(Message) /\ Peer(h) \in Message
      OBVIOUS
    <3>2. /\ Append(s, Peer(h)) \in Seq(Message)
          /\ \A i \in DOMAIN Append(s, Peer(h)) :
                (i \in DOMAIN s /\ Append(s, Peer(h))[i] = s[i]) \/ Append(s, Peer(h))[i] = Peer(h)
      BY <3>1, AppendFacts
    <3>3. /\ inbox' = [inbox EXCEPT ![h] = Append(s, Peer(h))]
          /\ told' = told \cup {h}
          /\ closed' = closed \cup {h} /\ h \in channel /\ service = "gone"
          /\ UNCHANGED <<service, channel, mode, muted, hostVars, dialogue, wire, phase>>
      BY <1>5, <2>2 DEF Fin, Controller!Tell, Notice
    <3>4. NoticesAreTrue'
      BY <3>1, <3>2, <3>3
    <3>5. inbox' \in [Ends -> Seq(Message)]
      BY <3>2, <3>3
    <3> HIDE DEF s, NoticesAreTrue
    <3> QED BY <2>2, <3>3, <3>4, <3>5
  <2> QED BY <2>1, <2>2
<1>6. ASSUME NEW h \in Ends, ToSwitch(h) PROVE IInv'
  <2>0. UNCHANGED <<hostVars, dialogue, phase>>
    BY <1>6 DEF ToSwitch
  <2>1. CASE Drop(h)
    <3>1. Tail(wire[h]) \in Seq({HEARTBEAT})
      BY <2>1 DEF Drop
    <3> QED BY <2>0, <2>1, <3>1 DEF Drop
  <2>2. CASE Tell(h)
    <3> DEFINE s == inbox[h]
    <3>1. told' = told \cup {h} /\ mode = "p2p" /\ UNCHANGED <<mode, muted, service, channel, closed>>
      BY <2>2 DEF Tell, Controller!Tell
    <3>2. CASE UNCHANGED <<inbox, wire>>
      BY <2>0, <3>1, <3>2
    <3>3. CASE /\ inbox' = [inbox EXCEPT ![h] = Append(@, Notice(h))]
               /\ wire' = [wire EXCEPT ![h] = Tail(@)]
      <4>1. Tail(wire[h]) \in Seq({HEARTBEAT})
        BY <2>2 DEF Tell
      <4>2. s \in Seq(Message) /\ Peer(h) \in Message
        OBVIOUS
      <4>3. /\ Append(s, Peer(h)) \in Seq(Message)
            /\ \A i \in DOMAIN Append(s, Peer(h)) :
                  (i \in DOMAIN s /\ Append(s, Peer(h))[i] = s[i]) \/ Append(s, Peer(h))[i] = Peer(h)
        BY <4>2, AppendFacts
      <4>4. inbox' = [inbox EXCEPT ![h] = Append(s, Peer(h))]
        BY <3>3 DEF Notice
      <4>5. NoticesAreTrue'
        BY <3>1, <4>2, <4>3, <4>4
      <4>6. inbox' \in [Ends -> Seq(Message)] /\ wire' \in [Ends -> Seq({HEARTBEAT})]
        BY <3>3, <4>1, <4>3, <4>4
      <4> HIDE DEF s, NoticesAreTrue
      <4> QED BY <2>0, <3>1, <4>5, <4>6
    <3> QED BY <2>2, <3>2, <3>3 DEF Tell
  <2>3. ASSUME NEW n \in 1..Merge, Forward(h, n) PROVE IInv'
    <3>1. UNCHANGED <<service, channel, closed, mode, told, muted>>
      BY <2>3 DEF Forward
    <3> HIDE DEF NoticesAreTrue
    <3>2. inbox' \in [Ends -> Seq(Message)] /\ wire' \in [Ends -> Seq({HEARTBEAT})]
      BY <2>3, ForwardStep
    <3>3. \A g \in Ends : \A i \in DOMAIN inbox'[g] :
             \/ i \in DOMAIN inbox[g] /\ inbox'[g][i] = inbox[g][i]
             \/ inbox'[g][i] = HEARTBEAT
      BY <2>3, ForwardStep
    <3>4. NoticesAreTrue'
      BY <3>1, <3>3 DEF NoticesAreTrue
    <3> QED BY <2>0, <3>1, <3>2, <3>4
  <2> QED BY <1>6, <2>1, <2>2, <2>3 DEF ToSwitch
<1> QED BY <1>1, <1>2, <1>3, <1>4, <1>5, <1>6 DEF Switch

LEMMA WatchInv == ASSUME IInv, Watch \/ Play PROVE IInv'
<1> USE EndsAssumption
    DEF IInv, TypeOK, ChannelTypeOK, ViewerTypeOK, BroadcasterTypeOK, NoticesAreTrue,
        ToldInP2P, ClosedWhenGone, LeavesWhenToldOrGone, LeavesWhenTold, PlayersInOrder,
        EncodersInOrder, StreamsToTheViewer, channelVars, viewerVars, broadcasterVars,
        switchVars, Watch, SynAck, Controller!Tell, Ends
<1>1. CASE Watch /\ v_connect BY <1>1 DEF v_connect
<1>2. CASE Watch /\ v_recv
  BY <1>2 DEF v_recv, Recv, Readable, notify_is_heartbeat
<1>3. CASE Watch /\ v_stop_original BY <1>3 DEF v_stop_original
<1>4. CASE Watch /\ v_start_peer BY <1>4 DEF v_start_peer
<1>5. CASE Watch /\ v_join BY <1>5 DEF v_join
<1>6. CASE Play BY <1>6 DEF Play, Players, VfsPlays, VfsEnds, VfpListens
<1> QED BY <1>1, <1>2, <1>3, <1>4, <1>5, <1>6 DEF watch

LEMMA BroadcastInv == ASSUME IInv, Broadcast \/ Encode PROVE IInv'
<1> USE EndsAssumption
    DEF IInv, TypeOK, ChannelTypeOK, ViewerTypeOK, BroadcasterTypeOK, NoticesAreTrue,
        ToldInP2P, ClosedWhenGone, LeavesWhenToldOrGone, LeavesWhenTold, PlayersInOrder,
        EncodersInOrder, StreamsToTheViewer, channelVars, viewerVars, broadcasterVars,
        switchVars, Broadcast, SynAck, Controller!Tell, Ends, Addresses
<1>1. CASE Broadcast /\ b_connect BY <1>1 DEF b_connect
<1>2. CASE Broadcast /\ b_recv
  <2> DEFINE text == inbox[Broadcaster]
  <2>1. text \in Seq(Message) /\ inbox' = [inbox EXCEPT ![Broadcaster] = << >>]
    BY <1>2 DEF b_recv, Recv
  <2>2. CASE notify_is_heartbeat(text)
    BY <1>2, <2>1, <2>2 DEF b_recv
  <2>3. CASE text = << >>
    <3>1. viewer_ip' = Nowhere /\ Broadcaster \in closed
      BY <1>2, <2>3 DEF b_recv, Recv, Readable, notify_is_heartbeat, parse_notify_ip
    <3>2. b_pc' = "wait" => viewer_ip' \notin p2p_viewers
      BY <1>2, <2>3, <3>1 DEF b_recv, notify_is_heartbeat, parse_notify_ip
    <3>3. Nowhere # Viewer
      BY DEF Message
    <3>4. /\ b_pc' \in {"wait", "recv"}
          /\ UNCHANGED <<viewerVars, dialogue, wire, phase, b2s, p2p_viewers, b2v, service,
                         channel, closed, mode, told, muted>>
      BY <1>2 DEF b_recv
    <3> HIDE DEF text
    <3> QED BY <2>1, <3>1, <3>2, <3>3, <3>4
  <2>4. CASE text # << >> /\ ~notify_is_heartbeat(text)
    <3>1. 1 \in DOMAIN text /\ Head(text) = text[1] /\ text[1] # HEARTBEAT
      BY <2>1, <2>4 DEF notify_is_heartbeat
    <3>2. Head(text) = Viewer /\ Broadcaster \in told
      BY <3>1 DEF Peer
    <3>3. viewer_ip' = IF Viewer \in FullLength THEN Nowhere ELSE Viewer
      BY <1>2, <2>4, <3>2 DEF b_recv, parse_notify_ip
    <3>4. b_pc' = "wait" => viewer_ip' \notin p2p_viewers
      BY <1>2, <2>4, <3>3, <3>2 DEF b_recv, parse_notify_ip
    <3>5. /\ b_pc' \in {"wait", "recv"}
          /\ UNCHANGED <<viewerVars, dialogue, wire, phase, b2s, p2p_viewers, b2v, service,
                         channel, closed, mode, told, muted>>
      BY <1>2 DEF b_recv
    <3> HIDE DEF text
    <3> QED BY <2>1, <3>2, <3>3, <3>4, <3>5
  <2> QED BY <2>2, <2>3, <2>4
<1>3. CASE Broadcast /\ b_start_peer BY <1>3 DEF b_start_peer
<1>4. CASE Encode BY <1>4 DEF Encode, Encoders, B2sStreams, B2sEnds
<1> QED BY <1>1, <1>2, <1>3, <1>4 DEF broadcast

LEMMA StreamsInv == ASSUME IInv, Streams PROVE IInv'
<1> USE EndsAssumption
    DEF IInv, TypeOK, ChannelTypeOK, ViewerTypeOK, BroadcasterTypeOK, NoticesAreTrue,
        ToldInP2P, ClosedWhenGone, LeavesWhenToldOrGone, LeavesWhenTold, PlayersInOrder,
        EncodersInOrder, StreamsToTheViewer, channelVars, viewerVars, broadcasterVars, switchVars
<1>1. ASSUME NEW a \in Addresses, PeerConnects(a) PROVE IInv' BY <1>1 DEF PeerConnects
<1>2. CASE PeerEnds BY <1>2 DEF PeerEnds, Addresses, Ends
<1>3. CASE VideoOver BY <1>3 DEF VideoOver, Addresses, Ends
<1> QED BY <1>1, <1>2, <1>3 DEF Streams

LEMMA StepIInv == IInv /\ [Next]_vars => IInv'
<1>1. CASE UNCHANGED vars
  BY <1>1 DEF vars, channelVars, viewerVars, broadcasterVars, switchVars, IInv, TypeOK,
      ChannelTypeOK, ViewerTypeOK, BroadcasterTypeOK, NoticesAreTrue, ToldInP2P, ClosedWhenGone,
      LeavesWhenToldOrGone, LeavesWhenTold, PlayersInOrder, EncodersInOrder, StreamsToTheViewer
<1> QED BY <1>1, DriverInv, SwitchInv, WatchInv, BroadcastInv, StreamsInv DEF Next
\* The inductive invariant of the session.
THEOREM Invariance == Spec => []IInv
<1> QED BY InitIInv, StepIInv, PTL DEF Spec

\* Every variable keeps its type.
THEOREM SessionTypeCorrect == Spec => []TypeOK
<1>1. IInv => TypeOK
  BY DEF IInv
<1> QED BY <1>1, Invariance, PTL

\* The viewer never plays the service's stream next to the peer's.
THEOREM AlwaysOneSource == Spec => []OneSource
<1>1. IInv => OneSource
  BY DEF IInv, PlayersInOrder, OneSource
<1> QED BY <1>1, Invariance, PTL

\* The viewer leaves the service's stream only when told, or when it is gone.
THEOREM LeavesForAReason == Spec => []LeavesWhenToldOrGone
<1>1. IInv => LeavesWhenToldOrGone
  BY DEF IInv
<1> QED BY <1>1, Invariance, PTL

\* Unless the viewer's address leaves no padding, the broadcaster streams to it alone.
THEOREM StreamsToTheViewerAlone ==
  ASSUME Viewer \notin FullLength
  PROVE  Spec => []StreamsToTheViewer
<1>1. IInv => StreamsToTheViewer
  BY DEF IInv
<1> QED BY <1>1, Invariance, PTL

LEMMA StartStep ==
  ASSUME IInv, [Next]_vars, NEW a \in Addresses, b2v[a] # "none"
  PROVE  b2v'[a] # "starting" \/ b2v[a] = "starting"
<1> USE DEF IInv, TypeOK, BroadcasterTypeOK, EncodersInOrder
<1>1. CASE Broadcast BY <1>1 DEF Broadcast, broadcast, b_connect, b_recv, b_start_peer
<1>2. CASE BroadcasterKilled BY <1>2 DEF BroadcasterKilled, b_exit_on_kill
<1>3. CASE Streams
  BY <1>3 DEF Streams, VideoOver, PeerEnds, PeerConnects, Addresses, Ends
<1>4. CASE UNCHANGED b2v BY <1>4
<1>5. CASE Driver /\ ~BroadcasterKilled
  BY <1>4, <1>5 DEF Driver, LaunchService, LaunchViewer, LaunchBroadcaster, Kill, ViewerKilled,
     b_start, hostVars, broadcasterVars
<1>6. CASE ServiceListens \/ ServiceExits \/ Decide \/ Watch \/ Play \/ Encode
  BY <1>4, <1>6 DEF ServiceListens, ServiceExits, Decide, Watch, Play, Encode, Encoders,
     B2sStreams, B2sEnds, hostVars, broadcasterVars
<1>7. CASE \E h \in Ends : Beat(h) \/ Switch(h)
  BY <1>4, <1>7 DEF Beat, Switch, Dialogue, ToSwitch, Mute, Fin, hostVars, broadcasterVars
<1>8. CASE UNCHANGED vars BY <1>4, <1>8 DEF vars, broadcasterVars
<1> QED BY <1>1, <1>2, <1>3, <1>5, <1>6, <1>7, <1>8 DEF Next

\* However often a notice is repeated, an encoder is started once for an address.
THEOREM EncodersStartOnce == Spec => StartedOnce
<1>1. ASSUME IInv, [Next]_vars
      PROVE  [\A a \in Addresses : b2v[a] # "none" => b2v'[a] # "starting" \/ b2v[a] = "starting"]_vars
  BY <1>1, StartStep
<1> QED BY <1>1, Invariance, PTL DEF Spec, StartedOnce
-----------------------------------------------------------------------------
(* A host whose channel is muted has heard. *)

\* What the session must not do for a notice to be missed: a host falls behind
\* its segments, the link loses a notice, a dialogue ends before its host's channel
\* is there.
EachSegmentInTime == MaxInbox = 1 /\ ~Lossy /\ "dialogue" \in Sleeps

\* What a step must leave alone, or do, for the notices told to stay heard.
HeardVars == <<mode, told, muted, channel, service, inbox, v_pc, b_pc, p2p_viewers>>

LEMMA InitHeard == Init => ToldIsHeard
  BY DEF Init, ToldIsHeard, ChannelInit, ViewerInit, BroadcasterInit, Controller!Init

LEMMA QuietHeard == ASSUME ToldIsHeard, UNCHANGED HeardVars PROVE ToldIsHeard'
  BY DEF ToldIsHeard, HeardVars, NoticeWaits, notify_is_heartbeat

LEMMA DriverHeard ==
  ASSUME IInv, ToldIsHeard, Driver \/ ServiceListens \/ ServiceExits
  PROVE  ToldIsHeard'
<1> USE DEF ToldIsHeard, NoticeWaits, notify_is_heartbeat, channelVars, viewerVars,
        broadcasterVars, switchVars, hostVars
<1>1. CASE LaunchService BY <1>1 DEF LaunchService
<1>2. CASE LaunchViewer BY <1>2 DEF LaunchViewer, v_start
<1>3. CASE LaunchBroadcaster BY <1>3 DEF LaunchBroadcaster, b_start
<1>4. CASE Kill BY <1>4 DEF Kill
<1>5. CASE ViewerKilled BY <1>5 DEF ViewerKilled, v_exit_on_kill
<1>6. CASE BroadcasterKilled BY <1>6 DEF BroadcasterKilled, b_exit_on_kill
<1>7. CASE ServiceListens
  <2>1. told = {}
    BY <1>7, EndsAssumption DEF ServiceListens, IInv, ToldInP2P, Ends
  <2> QED BY <1>7, <2>1 DEF ServiceListens
<1>8. CASE ServiceExits BY <1>8 DEF ServiceExits
<1> QED BY <1>1, <1>2, <1>3, <1>4, <1>5, <1>6, <1>7, <1>8 DEF Driver

\* The notice that a host is told is all that waits there.
LEMMA TellHeard ==
  ASSUME IInv, ToldIsHeard, EachSegmentInTime, NEW h \in Ends, Tell(h),
         UNCHANGED <<hostVars, dialogue, phase>>
  PROVE  ToldIsHeard'
<1>1. /\ mode = "p2p" /\ mode' = mode /\ told' = told \cup {h} /\ UNCHANGED muted
      /\ UNCHANGED <<service, channel, closed, v_pc, b_pc, p2p_viewers>>
  BY DEF Tell, Controller!Tell, hostVars, viewerVars, broadcasterVars
<1>2. inbox[h] \in Seq(Message) /\ Len(inbox[h]) < 1
      /\ inbox' = [inbox EXCEPT ![h] = Append(@, Peer(h))]
  BY DEF Tell, EachSegmentInTime, Notice, IInv, TypeOK, ChannelTypeOK
<1>3. inbox[h] = << >>
  BY <1>2
<1>4. inbox'[h] = <<Peer(h)>> /\ \A g \in Ends \ {h} : inbox'[g] = inbox[g]
  BY <1>2, <1>3 DEF IInv, TypeOK, ChannelTypeOK
<1>5. Peer(h) # HEARTBEAT
  BY PeerFacts
<1>6. NoticeWaits(h)'
  <2>1. DOMAIN <<Peer(h)>> = 1..1 /\ <<Peer(h)>>[1] = Peer(h) /\ <<Peer(h)>> # << >>
    OBVIOUS
  <2> QED BY <1>4, <1>5, <2>1 DEF NoticeWaits, notify_is_heartbeat
<1>7. \A g \in Ends \ {h} : NoticeWaits(g) => NoticeWaits(g)'
  BY <1>4 DEF NoticeWaits, notify_is_heartbeat
<1>8. Ends = {Viewer, Broadcaster}
  BY DEF Ends
<1> QED BY <1>1, <1>6, <1>7, <1>8 DEF ToldIsHeard

LEMMA SwitchHeard ==
  ASSUME IInv, ToldIsHeard, EachSegmentInTime, Decide \/ \E h \in Ends : Beat(h) \/ Switch(h)
  PROVE  ToldIsHeard'
<1> USE DEF channelVars, viewerVars, broadcasterVars, hostVars
<1>1. CASE Decide
  <2>1. told = {} /\ UNCHANGED <<told, muted, channelVars, hostVars>>
    BY <1>1 DEF Decide, Controller!Decide, IInv, ToldInP2P
  <2>2. mode' = "p2p" => channel = Ends
    BY <1>1 DEF Decide, InTime, EachSegmentInTime
  <2> QED BY <2>1, <2>2 DEF ToldIsHeard
<1>2. ASSUME NEW h \in Ends, Beat(h) \/ Dialogue(h) PROVE ToldIsHeard'
  BY <1>2, QuietHeard DEF Beat, Dialogue, HeardVars
<1>3. ASSUME NEW h \in Ends, Mute(h) PROVE ToldIsHeard'
  BY <1>3 DEF Mute, Controller!Mute, ToldIsHeard, NoticeWaits, notify_is_heartbeat
<1>4. ASSUME NEW h \in Ends, Fin(h) PROVE ToldIsHeard'
  <2>1. service' # "up" /\ UNCHANGED <<service, channel, hostVars, mode, muted>> /\ told \subseteq told'
    BY <1>4 DEF Fin, Controller!Tell
  <2> QED BY <2>1 DEF ToldIsHeard
<1>5. ASSUME NEW h \in Ends, ToSwitch(h) PROVE ToldIsHeard'
  <2>1. UNCHANGED <<hostVars, dialogue, phase>>
    BY <1>5 DEF ToSwitch
  <2>2. CASE Tell(h)
    BY <2>1, <2>2, TellHeard
  <2>3. CASE Drop(h)
    BY <2>1, <2>3, QuietHeard DEF Drop, HeardVars
  <2>4. ASSUME NEW n \in 1..Merge, Forward(h, n) PROVE ToldIsHeard'
    <3>1. mode # "p2p" /\ UNCHANGED <<service, channel, mode, told, muted>>
      BY <2>4 DEF Forward
    <3>2. told = {}
      BY <3>1 DEF IInv, ToldInP2P
    <3> QED BY <2>1, <3>1, <3>2 DEF ToldIsHeard
  <2> QED BY <1>5, <2>2, <2>3, <2>4 DEF ToSwitch
<1> QED BY <1>1, <1>2, <1>3, <1>4, <1>5 DEF Switch

LEMMA WatchHeard ==
  ASSUME IInv, ToldIsHeard, EachSegmentInTime, Watch \/ Play
  PROVE  ToldIsHeard'
<1> USE DEF channelVars, viewerVars, broadcasterVars, switchVars
<1>1. CASE Watch /\ v_connect
  <2>1. mode # "p2p"
    BY <1>1 DEF v_connect, ToldIsHeard, Ends
  <2>2. told = {} /\ UNCHANGED <<mode, told, muted, service, b_pc, p2p_viewers>>
    BY <1>1, <2>1 DEF Watch, SynAck, IInv, ToldInP2P, v_connect
  <2>3. \/ service = "up" /\ v_pc' = "recv" /\ channel' = channel \cup {Viewer}
        \/ v_pc' = "crashed" /\ channel' = channel
    BY <1>1 DEF v_connect
  <2> QED BY <2>1, <2>2, <2>3, EndsAssumption DEF ToldIsHeard, Ends
<1>2. CASE Watch /\ ~v_connect
  <2>1. UNCHANGED <<channel, service, b_pc, p2p_viewers>>
    BY <1>2 DEF Watch, watch, v_recv, v_stop_original, v_start_peer, v_join
  <2>2. UNCHANGED <<mode, told, muted>>
    BY <1>2, <2>1 DEF Watch, SynAck
  <2>3. CASE v_recv
    <3>1. inbox'[Broadcaster] = inbox[Broadcaster] /\ v_pc = "recv" /\ v_pc' \in {"recv", "told"}
      BY <2>3, EndsAssumption DEF v_recv, Recv, IInv, TypeOK, ChannelTypeOK
    <3>2. NoticeWaits(Viewer) => v_pc' = "told"
      BY <2>3 DEF v_recv, NoticeWaits
    <3>3. NoticeWaits(Broadcaster) => NoticeWaits(Broadcaster)'
      BY <3>1 DEF NoticeWaits, notify_is_heartbeat
    <3> QED BY <2>1, <2>2, <3>1, <3>2, <3>3 DEF ToldIsHeard
  <2>4. CASE v_stop_original \/ v_start_peer \/ v_join
    <3>1. v_pc' \notin {"off", "connect", "recv"} /\ UNCHANGED inbox
      BY <2>4 DEF v_stop_original, v_start_peer, v_join
    <3> QED BY <2>1, <2>2, <3>1 DEF ToldIsHeard, NoticeWaits, notify_is_heartbeat
  <2> QED BY <1>2, <2>3, <2>4 DEF Watch, watch
<1>3. CASE Play
  BY <1>3, QuietHeard DEF Play, Players, VfsPlays, VfsEnds, VfpListens, HeardVars
<1> QED BY <1>1, <1>2, <1>3

LEMMA BroadcastHeard ==
  ASSUME IInv, ToldIsHeard, EachSegmentInTime, Broadcast \/ Encode
  PROVE  ToldIsHeard'
<1> USE DEF channelVars, viewerVars, broadcasterVars, switchVars
<1>1. CASE Broadcast /\ b_connect
  <2>1. mode # "p2p"
    BY <1>1 DEF b_connect, ToldIsHeard, Ends
  <2>2. told = {} /\ UNCHANGED <<mode, told, muted, service, v_pc>>
    BY <1>1, <2>1 DEF Broadcast, SynAck, IInv, ToldInP2P, b_connect
  <2>3. \/ service = "up" /\ b_pc' = "recv" /\ channel' = channel \cup {Broadcaster}
        \/ b_pc' = "crashed" /\ channel' = channel
    BY <1>1 DEF b_connect
  <2> QED BY <2>1, <2>2, <2>3, EndsAssumption DEF ToldIsHeard, Ends
<1>2. CASE Broadcast /\ ~b_connect
  <2>1. UNCHANGED <<channel, service, v_pc>>
    BY <1>2 DEF Broadcast, broadcast, b_recv, b_start_peer
  <2>2. UNCHANGED <<mode, told, muted>>
    BY <1>2, <2>1 DEF Broadcast, SynAck
  <2>3. CASE b_recv
    <3>1. inbox'[Viewer] = inbox[Viewer] /\ UNCHANGED p2p_viewers
          /\ b_pc = "recv" /\ b_pc' \in {"recv", "wait"}
      BY <2>3, EndsAssumption DEF b_recv, Recv, IInv, TypeOK, ChannelTypeOK
    <3>2. NoticeWaits(Broadcaster) => p2p_viewers # {} \/ b_pc' = "wait"
      BY <2>3 DEF b_recv, NoticeWaits
    <3>3. NoticeWaits(Viewer) => NoticeWaits(Viewer)'
      BY <3>1 DEF NoticeWaits, notify_is_heartbeat
    <3> QED BY <2>1, <2>2, <3>1, <3>2, <3>3 DEF ToldIsHeard
  <2>4. CASE b_start_peer
    <3>1. p2p_viewers' # {} /\ b_pc' = "recv" /\ UNCHANGED inbox
      BY <2>4 DEF b_start_peer
    <3>2. b_pc = "wait"
      BY <2>4 DEF b_start_peer
    <3> QED BY <2>1, <2>2, <3>1, <3>2 DEF ToldIsHeard, NoticeWaits, notify_is_heartbeat
  <2> QED BY <1>2, <2>3, <2>4 DEF Broadcast, broadcast
<1>3. CASE Encode
  BY <1>3, QuietHeard DEF Encode, Encoders, B2sStreams, B2sEnds, HeardVars
<1> QED BY <1>1, <1>2, <1>3

LEMMA StreamsHeard == ASSUME ToldIsHeard, Streams PROVE ToldIsHeard'
  BY QuietHeard DEF Streams, VideoOver, PeerEnds, PeerConnects, channelVars, viewerVars,
     broadcasterVars, switchVars, HeardVars

\* Each segment read in time, no notice lost, no dialogue before the channel: a
\* notice is never spent unheard, so a host is never muted that has not heard.
THEOREM MutedHostsHaveHeard ==
  ASSUME EachSegmentInTime
  PROVE  Spec => []MutedHasHeard
<1>1. ASSUME IInv, ToldIsHeard, [Next]_vars PROVE ToldIsHeard'
  <2>1. CASE UNCHANGED vars
    BY <1>1, <2>1, QuietHeard
    DEF vars, channelVars, viewerVars, broadcasterVars, switchVars, HeardVars
  <2> QED
    BY <1>1, <2>1, DriverHeard, SwitchHeard, WatchHeard, BroadcastHeard, StreamsHeard DEF Next
<1>2. ToldIsHeard => MutedHasHeard
  BY DEF ToldIsHeard, MutedHasHeard, NoticeWaits
<1> QED BY <1>1, <1>2, InitHeard, Invariance, PTL DEF Spec

-----------------------------------------------------------------------------
(* The session implements Switchover. *)

\* What the viewer's own steps do to its picture.
LEMMA WatchRefines == ASSUME IInv, Watch PROVE [Promise!Next]_(Promise!vars)
<1> USE DEF IInv, TypeOK, ViewerTypeOK, Watch, Promise!Next, Promise!vars, Source
<1>1. CASE v_connect
  <2>1. UNCHANGED <<Source, service>>
    BY <1>1 DEF v_connect
  <2>2. UNCHANGED told \/ told' = told \cup {Viewer}
    BY DEF SynAck, Controller!Tell
  <2> HIDE DEF Source
  <2> QED BY <2>1, <2>2 DEF Promise!Tell
<1>2. CASE ~v_connect
  <2>1. UNCHANGED <<channel, service>>
    BY <1>2 DEF watch, v_recv, v_stop_original, v_start_peer, v_join, channelVars
  <2>2. UNCHANGED told
    BY <2>1 DEF SynAck
  <2>3. CASE v_recv
    <3>1. \/ UNCHANGED Source
          \/ Source \in {"none", "service"} /\ Source' = "gap" /\ v_pc' = "told"
      BY <2>3 DEF v_recv, PlayersInOrder
    <3>2. v_pc' = "told" => Viewer \in told \/ service = "gone"
      BY <2>1, <2>2, WatchInv DEF LeavesWhenToldOrGone, LeavesWhenTold
    <3> HIDE DEF Source
    <3> QED BY <2>1, <2>2, <3>1, <3>2 DEF Promise!Leave
  <2>4. CASE v_stop_original \/ v_start_peer
    <3>1. UNCHANGED Source
      BY <2>4 DEF v_stop_original, v_start_peer, PlayersInOrder
    <3> HIDE DEF Source
    <3> QED BY <2>1, <2>2, <3>1
  <2>5. CASE v_join
    <3>1. Source' = "over"
      BY <2>5 DEF v_join
    <3> HIDE DEF Source
    <3> QED BY <2>1, <2>2, <3>1 DEF Promise!End
  <2> QED BY <1>2, <2>3, <2>4, <2>5 DEF watch
<1> QED BY <1>1, <1>2

LEMMA PlayRefines == ASSUME IInv, Play PROVE [Promise!Next]_(Promise!vars)
<1>1. UNCHANGED <<service, told>>
  BY DEF Play, Players, VfsPlays, VfsEnds, VfpListens, channelVars, switchVars
<1>2. UNCHANGED Source \/ (Source = "none" /\ Source' = "service")
  BY DEF Play, Players, VfsPlays, VfsEnds, VfpListens, IInv, TypeOK, ViewerTypeOK, PlayersInOrder,
     Source
<1> QED BY <1>1, <1>2 DEF Promise!Next, Promise!vars, Promise!WatchService

LEMMA StreamsRefine == ASSUME IInv, Streams PROVE [Promise!Next]_(Promise!vars)
<1>1. UNCHANGED <<service, told, v_pc, vfs>>
  BY DEF Streams, VideoOver, PeerEnds, PeerConnects, channelVars, viewerVars, switchVars
<1>2. CASE UNCHANGED vfp
  BY <1>1, <1>2 DEF Promise!Next, Promise!vars, Source
<1>3. CASE vfp = "running" /\ vfp' = "ended"
  <2>1. Source' = "over"
    BY <1>1, <1>3 DEF Source, IInv, PlayersInOrder
  <2> QED BY <1>1, <2>1 DEF Promise!Next, Promise!End
<1>4. CASE vfp = "listening" /\ vfp' = "running" /\ b2v[Viewer] = "starting"
  <2>1. Source = "gap" /\ Source' = "peer"
    BY <1>1, <1>4 DEF Source, IInv, PlayersInOrder
  <2>2. Broadcaster \in told
    BY <1>4 DEF IInv, EncodersInOrder, Addresses, Ends
  <2> QED BY <1>1, <2>1, <2>2 DEF Promise!Next, Promise!WatchPeer
<1> QED
  BY <1>2, <1>3, <1>4 DEF Streams, VideoOver, PeerEnds, PeerConnects, viewerVars

LEMMA SwitchRefines ==
  ASSUME Decide \/ \E h \in Ends : Beat(h) \/ Switch(h)
  PROVE  [Promise!Next]_(Promise!vars)
<1>1. UNCHANGED <<service, viewerVars>>
  BY DEF Decide, Beat, Switch, Dialogue, ToSwitch, Drop, Tell, Forward, Mute, Fin, channelVars,
     hostVars
<1>2. UNCHANGED <<service, Source>>
  BY <1>1 DEF Source, viewerVars
<1>3. UNCHANGED told \/ \E h \in Ends : told' = told \cup {h}
  BY DEF Decide, Controller!Decide, Beat, Switch, Dialogue, ToSwitch, Drop, Tell, Forward, Mute,
     Controller!Mute, Fin, Controller!Tell
<1> QED BY <1>2, <1>3 DEF Promise!Next, Promise!vars, Promise!Tell, Ends

LEMMA DriverRefines ==
  ASSUME IInv, Driver \/ ServiceListens \/ ServiceExits
  PROVE  [Promise!Next]_(Promise!vars)
<1> USE DEF hostVars, viewerVars, broadcasterVars, channelVars, switchVars
<1>1. CASE ServiceExits
  <2>1. service' = "gone" /\ UNCHANGED <<told, Source>>
    BY <1>1 DEF ServiceExits, Source
  <2> QED BY <2>1 DEF Promise!Next, Promise!ServiceGoes
<1>2. CASE ServiceListens
  <2>1. service = "down" /\ service' = "up" /\ UNCHANGED <<told, Source>>
    BY <1>2 DEF ServiceListens, Source
  <2> QED BY <2>1 DEF Promise!vars
<1>3. CASE ViewerKilled
  <2>1. Source' = "over" /\ UNCHANGED <<told, service>>
    BY <1>3 DEF ViewerKilled, v_exit_on_kill, Source, IInv, TypeOK, ViewerTypeOK
  <2> QED BY <2>1 DEF Promise!Next, Promise!End
<1>4. CASE Driver /\ ~ViewerKilled
  <2>1. UNCHANGED <<told, service>>
    BY <1>4 DEF Driver, LaunchService, LaunchViewer, LaunchBroadcaster, Kill, BroadcasterKilled,
       v_start, b_start, b_exit_on_kill
  <2>2. UNCHANGED Source
    BY <1>4 DEF Driver, LaunchService, LaunchViewer, LaunchBroadcaster, Kill, BroadcasterKilled,
       v_start, b_start, b_exit_on_kill, Source, IInv, PlayersInOrder
  <2> QED BY <2>1, <2>2 DEF Promise!vars
<1> QED BY <1>1, <1>2, <1>3, <1>4

\* The viewer's picture comes from the service, then from nowhere, then from the
\* broadcaster, each for a reason, and never goes back.
THEOREM SessionImplementsSwitchover == Spec => ImplementsSwitchover
<1>1. Init => Promise!Init
  BY DEF Init, ViewerInit, ChannelInit, Controller!Init, Promise!Init, Source
<1>2. ASSUME IInv, [Next]_vars PROVE [Promise!Next]_(Promise!vars)
  <2>1. CASE Broadcast
    <3>1. UNCHANGED <<service, viewerVars>> /\ (UNCHANGED told \/ told' = told \cup {Broadcaster})
      BY <2>1 DEF Broadcast, broadcast, b_connect, b_recv, b_start_peer, SynAck,
         Controller!Tell, channelVars
    <3>2. UNCHANGED Source
      BY <3>1 DEF Source, viewerVars
    <3> QED BY <3>1, <3>2 DEF Promise!Next, Promise!vars, Promise!Tell
  <2>2. CASE Encode
    <3>1. UNCHANGED <<service, viewerVars, told>>
      BY <2>2 DEF Encode, Encoders, B2sStreams, B2sEnds, channelVars, switchVars
    <3> QED BY <3>1 DEF Promise!vars, Source, viewerVars
  <2>3. CASE UNCHANGED vars
    BY <2>3 DEF vars, channelVars, viewerVars, switchVars, Promise!vars, Source
  <2> QED
    BY <1>2, <2>1, <2>2, <2>3, WatchRefines, PlayRefines, StreamsRefine, SwitchRefines,
       DriverRefines DEF Next
<1> QED BY <1>1, <1>2, Invariance, PTL DEF Spec, ImplementsSwitchover, Promise!Spec

(***************************************************************************)
(* What follows for the viewer's picture from Switchover alone.            *)
(***************************************************************************)
SourceHasReason ==
    /\ Source = "peer" => Broadcaster \in told
    /\ Source \in {"gap", "peer"} => Viewer \in told \/ service = "gone"

PeerPicture ==
    vfp = "running" => Broadcaster \in told /\ (Viewer \in told \/ service = "gone")

\* The viewer plays the broadcaster's own stream only when the broadcaster has been told of
\* the viewer, and the viewer of the broadcaster or the service is gone: no encoder reaches
\* a viewer's player by a notice of another time (viewer.py 130-153, broadcaster.py 130-147).
THEOREM PeerPictureHasReason == Spec => []PeerPicture
<1>1. Promise!Init => SourceHasReason
  BY DEF Promise!Init, SourceHasReason
<1>2. ASSUME SourceHasReason, [Promise!Next]_(Promise!vars) PROVE SourceHasReason'
  BY <1>2 DEF SourceHasReason, Promise!Next, Promise!vars, Promise!Tell, Promise!WatchService,
     Promise!Leave, Promise!WatchPeer, Promise!ServiceGoes, Promise!End
<1>3. IInv /\ SourceHasReason => PeerPicture
  BY DEF SourceHasReason, PeerPicture, Source, IInv, PlayersInOrder
<1> QED
  BY <1>1, <1>2, <1>3, Invariance, SessionImplementsSwitchover, PTL DEF ImplementsSwitchover, Promise!Spec
=============================================================================
