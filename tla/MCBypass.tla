------------------------------ MODULE MCBypass ------------------------------
(***************************************************************************)
(* Traffic for model checking BypassSwitch: broadcaster hb, viewer hv and  *)
(* CDN hs on ports 1, 2 and 3 as topo.py adds them, and a second viewer h2 *)
(* behind hv's port, which only the runs that name it among the Hosts use. *)
(***************************************************************************)
EXTENDS BypassSwitch, TLC

CONSTANTS hb, hv, hs, h2

MCPort == [h \in Hosts |-> CASE h = hb -> 1 [] h = hs -> 3 [] OTHER -> 2]
MCEphemeral == {5000}

ToService(h, port, data) ==
    [src |-> h, dst |-> hs, sp |-> 5000, dp |-> port, data |-> data]
FromService(h, port, data) ==
    [src |-> hs, dst |-> h, sp |-> port, dp |-> 5000, data |-> data]
NotTcp(g, h) ==
    [src |-> g, dst |-> h, sp |-> NO_TCP, dp |-> NO_TCP, data |-> << >>]

Requests == {
    ToService(hv, RTMP_PORT, <<Whole("play_req")>>),
    ToService(hb, RTMP_PORT, <<Whole("publish_req")>>)}

\* The dialogue bypass.py waits for, one message a segment.
Dialogue == Requests \cup {
    FromService(hv, RTMP_PORT, <<Whole("play_start")>>),
    FromService(hb, RTMP_PORT, <<Whole("publish_start")>>),
    FromService(hv, RTMP_PORT, <<Whole("stream_begin")>>)}

\* Opening segments and heartbeats of h's notification channel.
Channel(h) == {
    ToService(h, NOTIFY_PORT, << >>),
    FromService(h, NOTIFY_PORT, <<Heartbeat>>)}

\* The dialogue as TCP may cut it: answers split after 12 bytes, two messages in
\* a segment, a message with a piece of the next, a handshake.
CutDialogue == Requests \cup {
    ToService(hv, RTMP_PORT, <<Handshake>>),
    ToService(hb, RTMP_PORT, <<Whole("other")>>),
    FromService(hv, RTMP_PORT, <<Head12("play_start")>>),
    FromService(hv, RTMP_PORT, <<Rest("play_start"), Whole("stream_begin")>>),
    FromService(hb, RTMP_PORT, <<Head12("publish_start")>>),
    FromService(hb, RTMP_PORT, <<Rest("publish_start")>>),
    FromService(hb, RTMP_PORT, <<Whole("publish_start"), Rest("other")>>)}

\* Both channels, the viewer's two answers in one segment.
BriefDialogueAndChannels == Requests \cup Channel(hb) \cup Channel(hv) \cup {
    FromService(hv, RTMP_PORT, <<Whole("play_start"), Whole("stream_begin")>>),
    FromService(hb, RTMP_PORT, <<Whole("publish_start")>>)}

\* A second viewer joins in, on the notification channel.
SecondViewer ==
    (Dialogue \ {FromService(hv, RTMP_PORT, <<Whole("stream_begin")>>)})
    \cup Channel(h2)
    \cup {ToService(h2, RTMP_PORT, <<Whole("play_req")>>)}

\* The stream starts, between hosts that talk to each other as well.
Neighbours ==
    Requests \cup Channel(hv) \cup {
    FromService(hv, RTMP_PORT, <<Whole("play_start"), Whole("stream_begin")>>),
    NotTcp(hb, hv), NotTcp(hv, hb), NotTcp(h2, hv)}
=============================================================================
