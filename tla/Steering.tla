------------------------------ MODULE Steering ------------------------------
(***************************************************************************)
(* What the bypass controller promises, seen from the outside.  A switch   *)
(* that has connected watches the RTMP dialogue until it decides, once, to *)
(* enter the P2P stage or to leave the stream to the service.  Only in the *)
(* P2P stage is anyone told of a peer, and only a notification channel     *)
(* whose host has been told is muted.  A reconnection starts over.         *)
(***************************************************************************)
CONSTANT Channels       \* service-to-host notification connections

VARIABLES
    mode,               \* "watching", "p2p" or "off"
    told,               \* channels that have carried a notice
    muted               \* channels the switch drops

vars == <<mode, told, muted>>

Init == mode = "watching" /\ told = {} /\ muted = {}

Decide ==
    /\ mode = "watching"
    /\ mode' \in {"p2p", "off"}
    /\ UNCHANGED <<told, muted>>

Tell(c) ==
    /\ mode = "p2p"
    /\ told' = told \cup {c}
    /\ UNCHANGED <<mode, muted>>

Mute(c) ==
    /\ mode = "p2p"
    /\ c \in told
    /\ muted' = muted \cup {c}
    /\ UNCHANGED <<mode, told>>

Reconnect == mode' = "watching" /\ told' = {} /\ muted' = {}

\* No channel is looked at outside the P2P stage, which spares TLC most of them.
Next ==
    \/ Decide
    \/ mode = "p2p" /\ \E c \in Channels : Tell(c)
    \/ mode = "p2p" /\ \E c \in told : Mute(c)
    \/ Reconnect

Spec == Init /\ [][Next]_vars
=============================================================================
