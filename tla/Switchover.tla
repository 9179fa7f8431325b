------------------------------ MODULE Switchover ------------------------------
(***************************************************************************)
(* What the whole system promises the viewer: it watches the service's     *)
(* stream, leaves it only after it was told of the broadcaster or when the *)
(* service is gone, and then watches the broadcaster's own stream, which   *)
(* comes only from a broadcaster that was told of the viewer.  It never    *)
(* watches both, and never goes back.                                      *)
(***************************************************************************)
CONSTANTS Viewer, Broadcaster

VARIABLES
    source,     \* where the viewer's picture comes from
    told,       \* the hosts that were told of each other
    up          \* the service has not gone

vars == <<source, told, up>>

Init == source = "none" /\ told = {} /\ up = TRUE

Tell(h) == told' = told \cup {h} /\ UNCHANGED <<source, up>>

WatchService == source = "none" /\ source' = "service" /\ UNCHANGED <<told, up>>

\* Left for the peer, whose stream has yet to begin.
Leave ==
    /\ source \in {"none", "service"}
    /\ Viewer \in told \/ ~up
    /\ source' = "gap"
    /\ UNCHANGED <<told, up>>

WatchPeer ==
    /\ source = "gap"
    /\ Broadcaster \in told
    /\ source' = "peer"
    /\ UNCHANGED <<told, up>>

ServiceGoes == up' = FALSE /\ UNCHANGED <<source, told>>

End == source' = "over" /\ UNCHANGED <<told, up>>

Next ==
    \/ \E h \in {Viewer, Broadcaster} : Tell(h)
    \/ WatchService \/ Leave \/ WatchPeer \/ ServiceGoes \/ End

Spec == Init /\ [][Next]_vars
=============================================================================
