---------------------------- MODULE NotifyChannel ----------------------------
(***************************************************************************)
(* The notification channel as the two host programs see it (common.py and *)
(* the socket calls of viewer.py and broadcaster.py).  TCP carries bytes,  *)
(* not messages: recv() returns whatever has arrived, so what it returns   *)
(* is a sequence of messages run together, and the empty string once the   *)
(* service has gone.                                                       *)
(***************************************************************************)
EXTENDS Naturals, Sequences

CONSTANTS
    Viewer, Broadcaster,    \* the two host programs, named by their hosts
    FullLength,             \* those whose dotted address has 15 characters
    Nowhere                 \* any text that is neither host's address

Ends    == {Viewer, Broadcaster}
Peer(h) == IF h = Viewer THEN Broadcaster ELSE Viewer

\* A message is a heartbeat, or a notice, which is the address of a host.
HEARTBEAT == "heartbeat"
Message   == {HEARTBEAT} \cup Ends

ASSUME EndsAssumption ==
    /\ Viewer # Broadcaster
    /\ HEARTBEAT \notin Ends
    /\ Nowhere \notin Message
    /\ FullLength \subseteq Ends

VARIABLES
    service,    \* the CDN server: "down", "up" once it listens, "gone"
    channel,    \* the ends that are connected
    inbox,      \* what has arrived at each end and is not read yet
    closed      \* the ends that have received the service's FIN

channelVars == <<service, channel, inbox, closed>>

\* Mutant: by comparison with one heartbeat.
equals_heartbeat(text) == text = <<HEARTBEAT>>

\* HEARTBEAT_CLUE in notify_data.
notify_is_heartbeat(text) == \E i \in DOMAIN text : text[i] = HEARTBEAT

\* Mutant: the last character always cut off.
parse_cut(text) == Nowhere

\* notify_data[:find('|')].  An address of full length leaves no padding to find:
\* find() is -1 and the last character is cut off, as from the empty string.
parse_notify_ip(text) ==
    IF text = << >> \/ Head(text) \in FullLength THEN Nowhere ELSE Head(text)

\* recv() has something to return: data, or the end of the stream.
Readable(h) == inbox[h] # << >> \/ h \in closed

\* recv(1024) takes all there is: a host would have to fall 68 messages behind
\* for the limit to matter.
Recv(h) ==
    /\ Readable(h)
    /\ inbox' = [inbox EXCEPT ![h] = << >>]

ChannelTypeOK ==
    /\ service \in {"down", "up", "gone"}
    /\ channel \subseteq Ends
    /\ inbox \in [Ends -> Seq(Message)]
    /\ closed \subseteq channel

ChannelInit ==
    /\ service = "down"
    /\ channel = {}
    /\ inbox = [h \in Ends |-> << >>]
    /\ closed = {}
=============================================================================
