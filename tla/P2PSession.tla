------------------------------ MODULE P2PSession ------------------------------
(***************************************************************************)
(* One run of live.py: the driver launches service, viewer and broadcaster *)
(* in this order and kills them in another, the service's heartbeats go to *)
(* both hosts through the switch, and the controller, taken as its         *)
(* abstract specification Steering, turns them into notices.               *)
(***************************************************************************)
EXTENDS ViewerHost, BroadcasterHost

CONSTANTS
    Sleeps,     \* the delays that are long enough: subset of Delays
    Merge,      \* the most heartbeats TCP sends in one segment
    MaxInbox,   \* bound on what waits at a host; 1 if it reads each segment in time
    MaxWire,    \* bound on the heartbeats on their way to the switch
    Lossy       \* TRUE iff a notice may be lost on the host's link

\* live.py:31, live.py:58, broadcaster.py:144, and the round trips by which an
\* RTMP dialogue takes longer than connect().
Delays == {"startup", "viewer_first", "peer_ready", "dialogue"}

ASSUME SessionAssumption ==
    /\ Sleeps \subseteq Delays
    /\ {Merge, MaxInbox, MaxWire} \subseteq Nat \ {0}
    /\ Lossy \in BOOLEAN

VARIABLES
    mode, told, muted,  \* of Steering
    dialogue,           \* the hosts whose RTMP dialogue the switch has seen
    wire,               \* heartbeats the service has sent each end
    phase               \* where the driver is

switchVars == <<mode, told, muted, dialogue, wire>>
vars == <<channelVars, viewerVars, broadcasterVars, switchVars, phase>>

Controller == INSTANCE Steering WITH Channels <- Ends

Phases == {"init", "service", "viewer", "streaming", "kill_hs", "kill_hb", "kill_hv"}

TypeOK ==
    /\ ChannelTypeOK /\ ViewerTypeOK /\ BroadcasterTypeOK
    /\ mode \in {"watching", "p2p", "off"}
    /\ told \subseteq Ends /\ muted \subseteq Ends /\ dialogue \subseteq Ends
    /\ wire \in [Ends -> Seq({HEARTBEAT})]
    /\ phase \in Phases

Init ==
    /\ ChannelInit /\ ViewerInit /\ BroadcasterInit
    /\ Controller!Init
    /\ dialogue = {}
    /\ wire = [h \in Ends |-> << >>]
    /\ phase = "init"

hostVars == <<viewerVars, broadcasterVars>>

-----------------------------------------------------------------------------
(* live.py *)

InTime(delay, cond) == delay \in Sleeps => cond

LaunchService ==
    /\ phase = "init" /\ phase' = "service"
    /\ UNCHANGED <<channelVars, hostVars, switchVars>>

LaunchViewer ==
    /\ phase = "service" /\ InTime("startup", service = "up")
    /\ phase' = "viewer"
    /\ v_start
    /\ UNCHANGED <<broadcasterVars, switchVars>>

LaunchBroadcaster ==
    /\ phase = "viewer" /\ InTime("viewer_first", Viewer \in dialogue \cap channel)
    /\ phase' = "streaming"
    /\ b_start
    /\ UNCHANGED <<viewerVars, switchVars>>

NextKill == [streaming |-> "kill_hs", kill_hs |-> "kill_hb", kill_hb |-> "kill_hv"]

\* _clean_all; each kill is only a signal, so what it ends ends some time later.
Kill ==
    /\ phase \in DOMAIN NextKill
    /\ phase' = NextKill[phase]
    /\ UNCHANGED <<channelVars, hostVars, switchVars>>

ViewerKilled ==
    /\ phase = "kill_hv" /\ v_exit_on_kill
    /\ UNCHANGED <<broadcasterVars, switchVars, phase>>

BroadcasterKilled ==
    /\ phase \in {"kill_hb", "kill_hv"} /\ b_exit_on_kill
    /\ UNCHANGED <<viewerVars, switchVars, phase>>

-----------------------------------------------------------------------------
(* The service, as CdnServer has it for channels in order. *)

ServiceListens ==
    /\ phase # "init" /\ service = "down"
    /\ service' = "up"
    /\ UNCHANGED <<channel, inbox, closed, hostVars, switchVars, phase>>

Beat(h) ==
    /\ service = "up" /\ h \in channel
    /\ Len(wire[h]) < MaxWire
    /\ wire' = [wire EXCEPT ![h] = Append(@, HEARTBEAT)]
    /\ UNCHANGED <<channelVars, hostVars, mode, told, muted, dialogue, phase>>

ServiceExits ==
    /\ phase \in {"kill_hs", "kill_hb", "kill_hv"} /\ service # "gone"
    /\ service' = "gone"
    /\ UNCHANGED <<channel, inbox, closed, hostVars, switchVars, phase>>

-----------------------------------------------------------------------------
(* The switch and its controller. *)

\* The host's player has had its whole dialogue with the service.
Dialogue(h) ==
    /\ IF h = Viewer THEN vfs = "running" ELSE b2s = "running"
    /\ dialogue' = dialogue \cup {h}
    /\ UNCHANGED <<channelVars, hostVars, mode, told, muted, wire, phase>>

\* Mutant: on the broadcaster's dialogue alone.
DecideEarly ==
    /\ Controller!Decide
    /\ mode' = "p2p" => Broadcaster \in dialogue
    /\ UNCHANGED <<channelVars, hostVars, dialogue, wire, phase>>

\* P2P needs both dialogues; the stream may be left to the service at any time.
Decide ==
    /\ Controller!Decide
    /\ mode' = "p2p" => dialogue = Ends /\ InTime("dialogue", channel = Ends)
    /\ UNCHANGED <<channelVars, hostVars, dialogue, wire, phase>>

\* The next n heartbeats in one segment, as they come.
Forward(h, n) ==
    /\ mode # "p2p" /\ h \notin muted
    /\ n <= Len(wire[h])
    /\ Len(inbox[h]) + n <= MaxInbox
    /\ inbox' = [inbox EXCEPT ![h] = @ \o SubSeq(wire[h], 1, n)]
    /\ wire' = [wire EXCEPT ![h] = SubSeq(@, n + 1, Len(@))]
    /\ UNCHANGED <<service, channel, closed, mode, told, muted>>

\* Rewritten: one notice whatever the segment held.  It stands for the first
\* heartbeat, so TCP sends the others again, and this one, too, if it is lost.
\* Mutants: the host is told of itself; the payload is left as it is.
NoticeToItself(h)   == h
NoticeNotWritten(h) == HEARTBEAT
Notice(h) == Peer(h)

Tell(h) ==
    /\ wire[h] # << >> /\ h \notin muted
    /\ Controller!Tell(h)
    /\ \/ /\ Len(inbox[h]) < MaxInbox
          /\ inbox' = [inbox EXCEPT ![h] = Append(@, Notice(h))]
          /\ wire' = [wire EXCEPT ![h] = Tail(@)]
       \/ Lossy /\ UNCHANGED <<inbox, wire>>
    /\ UNCHANGED <<service, channel, closed>>

\* The switch drops what TCP sends, and sends again, on a muted channel.
Drop(h) ==
    /\ wire[h] # << >> /\ h \in muted
    /\ wire' = [wire EXCEPT ![h] = Tail(@)]
    /\ UNCHANGED <<channelVars, mode, told, muted>>

ToSwitch(h) ==
    /\ Tell(h) \/ Drop(h) \/ \E n \in 1..Merge : Forward(h, n)
    /\ UNCHANGED <<hostVars, dialogue, phase>>

\* The drop entry that follows a notice.
Mute(h) ==
    /\ Controller!Mute(h)
    /\ UNCHANGED <<channelVars, hostVars, dialogue, wire, phase>>

\* The service's FIN, behind what it has sent.  In the P2P stage it, too, is
\* given a notice as its payload; a muted channel does not even carry this.
Fin(h) ==
    /\ service = "gone" /\ h \in channel \ (closed \cup muted) /\ wire[h] = << >>
    /\ closed' = closed \cup {h}
    /\ IF mode = "p2p"
       THEN /\ Controller!Tell(h)
            /\ inbox' = [inbox EXCEPT ![h] = Append(@, Notice(h))]
       ELSE UNCHANGED <<mode, told, muted, inbox>>
    /\ UNCHANGED <<service, channel, hostVars, dialogue, wire, phase>>

\* So is the SYN-ACK of a host that connects in the P2P stage, where TCP ignores
\* a payload: the notice is spent.
SynAck(h) ==
    IF mode = "p2p" /\ h \in channel' \ channel THEN Controller!Tell(h)
                                                ELSE UNCHANGED <<mode, told, muted>>

Switch(h) == Dialogue(h) \/ ToSwitch(h) \/ Mute(h) \/ Fin(h)

-----------------------------------------------------------------------------
(* The hosts. *)

Watch ==
    /\ watch /\ SynAck(Viewer)
    /\ UNCHANGED <<broadcasterVars, dialogue, wire, phase>>

Play == Players /\ UNCHANGED <<broadcasterVars, switchVars, phase>>

\* With the three seconds before the peer stream long enough, or not.
Broadcast ==
    /\ broadcast /\ SynAck(Broadcaster)
    /\ b_pc = "wait" /\ viewer_ip = Viewer =>
          InTime("peer_ready", vfp \notin {"none", "starting"} \/ v_pc = "done")
    /\ UNCHANGED <<viewerVars, dialogue, wire, phase>>

Encode == Encoders /\ UNCHANGED <<viewerVars, switchVars, phase>>

\* ffmpeg connects to tcp://viewer_ip:2000.
PeerConnects(a) ==
    /\ b2v[a] = "starting"
    /\ \/ /\ a = Viewer /\ vfp = "listening"
          /\ b2v' = [b2v EXCEPT ![a] = "running"]
          /\ vfp' = "running"
       \/ /\ ~(a = Viewer /\ vfp = "listening")
          /\ b2v' = [b2v EXCEPT ![a] = "refused"]
          /\ UNCHANGED vfp
    /\ UNCHANGED <<v_pc, vfs, b_pc, viewer_ip, b2s, p2p_viewers, channelVars, switchVars, phase>>

\* Either side of the peer stream ends, the video being over or its process killed.
PeerEnds ==
    /\ vfp = "running" \/ b2v[Viewer] = "running"
    /\ vfp # "running" \/ b2v[Viewer] # "running"
    /\ vfp' = IF vfp = "running" THEN "ended" ELSE vfp
    /\ b2v' = [b2v EXCEPT ![Viewer] = IF @ = "running" THEN "ended" ELSE @]
    /\ UNCHANGED <<v_pc, vfs, b_pc, viewer_ip, b2s, p2p_viewers, channelVars, switchVars, phase>>

VideoOver ==
    /\ b2v[Viewer] = "running"
    /\ b2v' = [b2v EXCEPT ![Viewer] = "ended"]
    /\ UNCHANGED <<viewerVars, b_pc, viewer_ip, b2s, p2p_viewers, channelVars, switchVars, phase>>

Driver == LaunchService \/ LaunchViewer \/ LaunchBroadcaster \/ Kill \/ ViewerKilled \/ BroadcasterKilled
Streams == VideoOver \/ PeerEnds \/ \E a \in Addresses : PeerConnects(a)

Next ==
    \/ Driver \/ ServiceListens \/ ServiceExits \/ Decide
    \/ Watch \/ Play \/ Broadcast \/ Encode \/ Streams
    \/ \E h \in Ends : Beat(h) \/ Switch(h)

Spec == Init /\ [][Next]_vars

\* Scheduling: every process runs on, the network delivers, the switch obeys.
\* Neither the driver nor the decision is taken for granted.
Fairness ==
    /\ WF_vars(Watch) /\ WF_vars(Play) /\ WF_vars(Broadcast) /\ WF_vars(Encode)
    /\ \A h \in Ends : WF_vars(Beat(h)) /\ WF_vars(ToSwitch(h)) /\ WF_vars(Mute(h))
    /\ \A a \in Addresses : WF_vars(PeerConnects(a))

FairSpec == Spec /\ Fairness

-----------------------------------------------------------------------------
(* Properties. *)

Killing == phase \in {"kill_hs", "kill_hb", "kill_hv"}

\* viewer.py:138-143, "Stop the original stream": once the peer's player is
\* under way the service's is not, although killall misses a player that has
\* yet to come up.
OneSource == vfp \in {"starting", "listening", "running"} => vfs # "running"

\* viewer.py:130-132, broadcaster.py:130-131: while the service is there, a host
\* whose channel is muted has made out its notice, or has it yet to read.
MutedHasHeard ==
    service = "up" =>
        /\ Viewer \in muted /\ inbox[Viewer] = << >> => v_pc # "recv"
        /\ Broadcaster \in muted /\ inbox[Broadcaster] = << >> /\ b_pc = "recv" =>
              p2p_viewers # {}

\* viewer.py:130-132: the viewer leaves the service's stream because it was told
\* of a broadcaster nearby.
LeavesWhenTold == v_pc \in {"told", "stopped", "join"} => Viewer \in told

\* The same, unless the service is gone.
LeavesWhenToldOrGone == LeavesWhenTold \/ service = "gone"

\* broadcaster.py:136-149: the broadcaster streams to the viewer and to nobody
\* else, unless the service has closed the channel.
StreamsToTheViewer == p2p_viewers \subseteq {Viewer} \/ Broadcaster \in closed

\* broadcaster.py:137: however often a notice is repeated, a viewer's stream is
\* started once.
StartedOnce ==
    [][\A a \in Addresses : b2v[a] # "none" => b2v'[a] # "starting" \/ b2v[a] = "starting"]_vars

\* In the P2P stage the viewer comes to watch the broadcaster's own stream.
PeerStreams == mode = "p2p" ~> vfp \in {"running", "ended"} \/ Killing

\* Where the viewer has its picture from, or waits for it.
Source ==
    CASE vfp = "running" -> "peer"
      [] v_pc \in {"told", "stopped", "join"} /\ vfp \notin {"running", "ended"} -> "gap"
      [] v_pc \in {"off", "connect", "recv", "crashed"} /\ vfs \in {"none", "starting"} -> "none"
      [] v_pc \in {"connect", "recv", "crashed"} /\ vfs \in {"running", "ended"} -> "service"
      [] OTHER -> "over"

\* The session implements what the system promises the viewer.
Promise == INSTANCE Switchover WITH source <- Source, up <- (service # "gone")
ImplementsSwitchover == Promise!Spec

-----------------------------------------------------------------------------
(* The strengthening that makes the safety properties inductive. *)

\* A notice is the other end's address, and whoever may read it has been told.
NoticesAreTrue ==
    \A h \in Ends : \A i \in DOMAIN inbox[h] :
        inbox[h][i] # HEARTBEAT => inbox[h][i] = Peer(h) /\ h \in told

\* Told and muted only in the P2P stage, which needs both dialogues, the
\* viewer's only with its player up.
ToldInP2P ==
    /\ told \cup muted # {} => mode = "p2p"
    /\ mode = "p2p" => dialogue = Ends
    /\ Viewer \in dialogue => vfs \in {"running", "ended"}

\* The service ends a channel by going, and never comes back.
ClosedWhenGone == closed # {} => service = "gone"

\* The players follow watch(): past the killall the service's can no longer come up.
PlayersInOrder ==
    /\ v_pc = "off" => vfs = "none"
    /\ vfp # "none" => v_pc \in {"join", "done"}
    /\ vfp \in {"starting", "listening", "running"} => v_pc = "join"
    /\ v_pc \in {"stopped", "join", "done"} =>
          vfs # "running" /\ (vfs = "starting" => service = "gone")

\* The broadcaster streams to the viewer because it was told, and to nobody twice.
EncodersInOrder ==
    /\ b_pc = "wait" => viewer_ip \notin p2p_viewers
    /\ b_pc = "wait" /\ Viewer \notin FullLength => viewer_ip = Viewer \/ Broadcaster \in closed
    /\ Viewer \in p2p_viewers \/ (b_pc = "wait" /\ viewer_ip = Viewer) => Broadcaster \in told
    /\ \A a \in Addresses : b2v[a] # "none" => a \in p2p_viewers

IInv ==
    /\ TypeOK /\ NoticesAreTrue /\ ToldInP2P /\ ClosedWhenGone
    /\ LeavesWhenToldOrGone /\ PlayersInOrder /\ EncodersInOrder
    /\ Viewer \notin FullLength => StreamsToTheViewer

\* Where each segment is read in time, no notice is lost and no dialogue outlasts
\* connect(): a notice told is still to be read, alone, or has been made out.
NoticeWaits(h) == inbox[h] # << >> /\ ~notify_is_heartbeat(inbox[h])

ToldIsHeard ==
    /\ mode = "p2p" => channel = Ends
    /\ channel # {} => service # "down"
    /\ Viewer \in channel => v_pc \notin {"off", "connect"}
    /\ Broadcaster \in channel => b_pc \notin {"off", "connect"}
    /\ muted \subseteq told
    /\ service = "up" =>
          /\ Viewer \in told /\ v_pc = "recv" => NoticeWaits(Viewer)
          /\ Broadcaster \in told /\ b_pc = "recv" =>
                p2p_viewers # {} \/ NoticeWaits(Broadcaster)
=============================================================================
