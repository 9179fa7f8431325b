--------------------------- MODULE BroadcasterHost ---------------------------
(***************************************************************************)
(* hosts/broadcaster.py: the main process, the encoder that feeds the      *)
(* service and one encoder for each peer it is told of.                    *)
(***************************************************************************)
EXTENDS NotifyChannel

VARIABLES
    b_pc,           \* where broadcast() is
    viewer_ip,      \* the address parsed last
    b2s,            \* the encoder that feeds the service
    p2p_viewers,    \* addresses it has started to stream to
    b2v             \* the encoder for each of them

broadcasterVars == <<b_pc, viewer_ip, b2s, p2p_viewers, b2v>>

Addresses == Ends \cup {Nowhere}

BroadcasterTypeOK ==
    /\ b_pc \in {"off", "connect", "recv", "wait", "crashed", "done"}
    /\ viewer_ip \in Addresses
    /\ b2s \in {"none", "starting", "running", "ended"}
    /\ p2p_viewers \subseteq Addresses
    /\ b2v \in [Addresses -> {"none", "starting", "running", "refused", "ended"}]

BroadcasterInit ==
    /\ b_pc = "off" /\ b2s = "none"
    /\ viewer_ip = Nowhere
    /\ p2p_viewers = {}
    /\ b2v = [a \in Addresses |-> "none"]

b_start ==
    /\ b_pc = "off"
    /\ b_pc' = "connect"
    /\ b2s' = "starting"
    /\ UNCHANGED <<viewer_ip, p2p_viewers, b2v, channelVars>>

b_connect ==
    /\ b_pc = "connect"
    /\ \/ /\ service = "up"
          /\ b_pc' = "recv"
          /\ channel' = channel \cup {Broadcaster}
       \/ /\ service # "up"
          /\ b_pc' = "crashed"
          /\ UNCHANGED channel
    /\ UNCHANGED <<viewer_ip, b2s, p2p_viewers, b2v, service, inbox, closed>>

\* A notice of somebody new leads to the sleep; anything else back to recv().
b_recv ==
    /\ b_pc = "recv"
    /\ Recv(Broadcaster)
    /\ LET text  == inbox[Broadcaster]
           fresh == ~notify_is_heartbeat(text) /\ parse_notify_ip(text) \notin p2p_viewers
       IN  /\ b_pc' = IF fresh THEN "wait" ELSE "recv"
           /\ viewer_ip' = IF notify_is_heartbeat(text) THEN viewer_ip
                                                         ELSE parse_notify_ip(text)
    /\ UNCHANGED <<b2s, p2p_viewers, b2v, service, channel, closed>>

\* After time.sleep(3): b2v_proc.start() and the two appends.
b_start_peer ==
    /\ b_pc = "wait"
    /\ b_pc' = "recv"
    /\ p2p_viewers' = p2p_viewers \cup {viewer_ip}
    /\ b2v' = [b2v EXCEPT ![viewer_ip] = "starting"]
    /\ UNCHANGED <<viewer_ip, b2s, channelVars>>

b_exit_on_kill ==
    /\ b_pc \notin {"off", "done"}
    /\ b_pc' = "done"
    /\ b2s' = IF b2s = "none" THEN "none" ELSE "ended"
    /\ b2v' = [a \in Addresses |-> IF b2v[a] = "none" THEN "none" ELSE "ended"]
    /\ UNCHANGED <<viewer_ip, p2p_viewers, channelVars>>

\* ffmpeg opens rtmp://service/live/key, or finds the service gone.
B2sStreams ==
    /\ b2s = "starting"
    /\ b2s' = IF service = "up" THEN "running" ELSE "ended"
    /\ UNCHANGED <<b_pc, viewer_ip, p2p_viewers, b2v, channelVars>>

B2sEnds ==
    /\ b2s = "running" /\ service = "gone"
    /\ b2s' = "ended"
    /\ UNCHANGED <<b_pc, viewer_ip, p2p_viewers, b2v, channelVars>>

broadcast == b_connect \/ b_recv \/ b_start_peer
Encoders  == B2sStreams \/ B2sEnds
=============================================================================
