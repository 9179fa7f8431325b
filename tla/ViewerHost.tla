------------------------------ MODULE ViewerHost ------------------------------
(***************************************************************************)
(* hosts/viewer.py: the main process, the process that plays from the      *)
(* service and the one that plays from the peer.  The mplayer each of the  *)
(* two runs is a process of its own, found by name only.                   *)
(***************************************************************************)
EXTENDS NotifyChannel

VARIABLES
    v_pc,       \* where watch() is
    vfs,        \* the player of the service's stream
    vfp         \* the player of the peer's stream

viewerVars == <<v_pc, vfs, vfp>>

ViewerTypeOK ==
    /\ v_pc \in {"off", "connect", "recv", "told", "stopped", "join", "crashed", "done"}
    /\ vfs \in {"none", "starting", "running", "ended"}
    /\ vfp \in {"none", "starting", "listening", "running", "ended"}

ViewerInit == v_pc = "off" /\ vfs = "none" /\ vfp = "none"

\* vfs_proc.start(); mplayer itself is up some time later.
v_start ==
    /\ v_pc = "off"
    /\ v_pc' = "connect"
    /\ vfs' = "starting"
    /\ UNCHANGED <<vfp, channelVars>>

\* connect(), which raises when nobody listens.
v_connect ==
    /\ v_pc = "connect"
    /\ \/ /\ service = "up"
          /\ v_pc' = "recv"
          /\ channel' = channel \cup {Viewer}
       \/ /\ service # "up"
          /\ v_pc' = "crashed"
          /\ UNCHANGED channel
    /\ UNCHANGED <<vfs, vfp, service, inbox, closed>>

v_recv ==
    /\ v_pc = "recv"
    /\ Recv(Viewer)
    /\ v_pc' = IF notify_is_heartbeat(inbox[Viewer]) THEN "recv" ELSE "told"
    /\ UNCHANGED <<vfs, vfp, service, channel, closed>>

\* "killall mplayer" reaches a player that is up, not one about to be.
v_stop_original ==
    /\ v_pc = "told"
    /\ v_pc' = "stopped"
    /\ vfs' = IF vfs = "running" THEN "ended" ELSE vfs
    /\ UNCHANGED <<vfp, channelVars>>

\* The address in the notice is only printed: the viewer listens for whoever comes.
v_start_peer ==
    /\ v_pc = "stopped"
    /\ v_pc' = "join"
    /\ vfp' = "starting"
    /\ UNCHANGED <<vfs, channelVars>>

v_join ==
    /\ v_pc = "join" /\ vfp = "ended"
    /\ v_pc' = "done"
    /\ UNCHANGED <<vfs, vfp, channelVars>>

\* _exit_on_kill: both processes and every mplayer end.
v_exit_on_kill ==
    /\ v_pc \notin {"off", "done"}
    /\ v_pc' = "done"
    /\ vfs' = IF vfs = "none" THEN "none" ELSE "ended"
    /\ vfp' = IF vfp = "none" THEN "none" ELSE "ended"
    /\ UNCHANGED channelVars

\* mplayer opens rtmp://service/live/key; it fails if the service is not there.
VfsPlays ==
    /\ vfs = "starting"
    /\ vfs' = IF service = "up" THEN "running" ELSE "ended"
    /\ UNCHANGED <<v_pc, vfp, channelVars>>

VfsEnds ==
    /\ vfs = "running" /\ service = "gone"
    /\ vfs' = "ended"
    /\ UNCHANGED <<v_pc, vfp, channelVars>>

\* mplayer listens on PEER_PORT.
VfpListens ==
    /\ vfp = "starting"
    /\ vfp' = "listening"
    /\ UNCHANGED <<v_pc, vfs, channelVars>>

watch == v_connect \/ v_recv \/ v_stop_original \/ v_start_peer \/ v_join
Players == VfsPlays \/ VfsEnds \/ VfpListens
=============================================================================
