----------------------------- MODULE FrameStream -----------------------------
(***************************************************************************)
(* The proof-of-concept hosts of src/prototype/hosts: a broadcaster that   *)
(* frames a video into a TCP stream, a CDN server that takes the frames    *)
(* out and frames them again, and the viewer; live.py runs them with the   *)
(* CDN server and without.                                                 *)
(*                                                                         *)
(*   broadcaster --wire--> cdn --wire--> viewer                            *)
(*                                                                         *)
(* A stream is BCAST_BEG, for each frame FRAME_BEG, time stamp, picture,   *)
(* FRAME_END, and at last BCAST_END; nothing is escaped, so any byte of a  *)
(* time stamp or a picture may look like a control byte.  TCP keeps the    *)
(* order of bytes and nothing else: recv(n) returns between one byte and n.*)
(***************************************************************************)
EXTENDS Integers, Sequences, SequencesExt

CONSTANTS
    Video,          \* the frames of video.data, at least as many as are sent
    Stamp,          \* the bytes of a time stamp
    FRAME_SIZE,
    TIMESTAMP_LEN,
    MaxFrames,      \* bound on the frames sent before the timer rings
    Buffer          \* bytes a connection holds before sendall blocks

Bytes == 0 .. 255

ASSUME SizesAssumption ==
    /\ Video \in Seq(Seq(Bytes)) /\ Stamp \in Seq(Bytes) /\ MaxFrames \in Nat
    /\ FRAME_SIZE \in Nat \ {0} /\ TIMESTAMP_LEN \in Nat \ {0} /\ Buffer \in Nat \ {0}
    /\ MaxFrames <= Len(Video) /\ Len(Stamp) = TIMESTAMP_LEN
    /\ \A i \in DOMAIN Video : Len(Video[i]) = FRAME_SIZE

FRAME_BEG == 1
FRAME_END == 2
BCAST_BEG == 3
BCAST_END == 4

Hosts     == {"broadcaster", "cdn", "viewer"}
Receivers == {"cdn", "viewer"}
Routes    == {<<"broadcaster", "cdn", "viewer">>, <<"broadcaster", "viewer">>}

VARIABLES
    route,          \* who takes part: the original test or the bypassed one
    pc,             \* where each host is in its program
    unsent,         \* what its sendall calls have still to send
    wire,           \* what it has sent and the next host has not received
    header, frame,  \* what _recv_frame has of the current frame
    frames,         \* frames broadcast, stored, viewed
    ticker          \* has the broadcast's timer set the event?

vars == <<route, pc, unsent, wire, header, frame, frames, ticker>>

TypeOK ==
    /\ route \in Routes
    /\ pc \in [Hosts -> {"begin", "frames", "scan", "header", "frame", "done", "dead"}]
    /\ unsent \in [Hosts -> Seq(Bytes)]
    /\ wire \in [Hosts -> Seq(Bytes)]
    /\ \A h \in Hosts : Len(wire[h]) <= Buffer
    /\ header \in [Receivers -> Seq(Bytes)] /\ frame \in [Receivers -> Seq(Bytes)]
    /\ \A r \in Receivers : Len(header[r]) <= TIMESTAMP_LEN /\ Len(frame[r]) < FRAME_SIZE
    /\ frames \in [Hosts -> Seq({f \in Seq(Bytes) : Len(f) = FRAME_SIZE})]
    /\ ticker \in BOOLEAN

Init ==
    /\ route \in Routes
    /\ pc = [h \in Hosts |-> "begin"]
    /\ unsent = [h \in Hosts |-> <<>>]
    /\ wire = [h \in Hosts |-> <<>>]
    /\ header = [r \in Receivers |-> <<>>]
    /\ frame = [r \in Receivers |-> <<>>]
    /\ frames = [h \in Hosts |-> <<>>]
    /\ ticker = FALSE

TakesPart(h) == h \in Range(route)
To(h)        == route[1 + CHOOSE i \in DOMAIN route : route[i] = h]
From(r)      == route[(CHOOSE i \in DOMAIN route : route[i] = r) - 1]

\* A program that has ended, normally or by an exception, has closed its sockets.
Closed(h) == pc[h] \in {"done", "dead"} /\ unsent[h] = <<>>

\* What is sent for one frame.
FrameOf(f) == <<FRAME_BEG>> \o Stamp \o f \o <<FRAME_END>>

-----------------------------------------------------------------------------
(* TCP.                                                                      *)

\* The next byte of h's sendall goes into the connection; once the other side is
\* closed it may be lost, or the call raises and h ends.
Transmit(h) ==
    /\ unsent[h] # <<>>
    /\ \/ /\ ~Closed(To(h)) /\ Len(wire[h]) < Buffer
          /\ wire' = [wire EXCEPT ![h] = Append(@, Head(unsent[h]))]
          /\ unsent' = [unsent EXCEPT ![h] = Tail(@)]
          /\ UNCHANGED pc
       \/ /\ Closed(To(h))
          /\ \/ unsent' = [unsent EXCEPT ![h] = Tail(@)] /\ UNCHANGED pc
             \/ unsent' = [unsent EXCEPT ![h] = <<>>] /\ pc' = [pc EXCEPT ![h] = "dead"]
          /\ UNCHANGED wire
    /\ UNCHANGED <<route, header, frame, frames, ticker>>

\* recv(n) returns bs: some of what is there, and nothing only at the end of the stream.
Recv(r, n, bs) ==
    LET w == wire[From(r)]
    IN  /\ \/ Len(bs) \in 1 .. n /\ Len(bs) <= Len(w)
           \/ w = <<>> /\ bs = <<>> /\ Closed(From(r))
        /\ bs = SubSeq(w, 1, Len(bs))
        /\ wire' = [wire EXCEPT ![From(r)] = SubSeq(w, Len(bs) + 1, Len(w))]

-----------------------------------------------------------------------------
(* Broadcaster.broadcast.                                                    *)

\* The timer's thread sets the event.
TimesUp ==
    /\ ~ticker /\ pc["broadcaster"] = "frames"
    /\ ticker' = TRUE
    /\ UNCHANGED <<route, pc, unsent, wire, header, frame, frames>>

BeginBroadcast ==
    /\ pc["broadcaster"] = "begin"
    /\ pc' = [pc EXCEPT !["broadcaster"] = "frames"]
    /\ unsent' = [unsent EXCEPT !["broadcaster"] = <<BCAST_BEG>>]
    /\ UNCHANGED <<route, wire, header, frame, frames, ticker>>

\* ticker.wait returns without the event, when everything before is sent.
SendFrame ==
    /\ pc["broadcaster"] = "frames" /\ unsent["broadcaster"] = <<>> /\ ~ticker
    /\ Len(frames["broadcaster"]) < MaxFrames
    /\ LET f == Video[Len(frames["broadcaster"]) + 1] IN
         /\ unsent' = [unsent EXCEPT !["broadcaster"] = FrameOf(f)]
         /\ frames' = [frames EXCEPT !["broadcaster"] = Append(@, f)]
    /\ UNCHANGED <<route, pc, wire, header, frame, ticker>>

EndBroadcast ==
    /\ pc["broadcaster"] = "frames" /\ unsent["broadcaster"] = <<>> /\ ticker
    /\ pc' = [pc EXCEPT !["broadcaster"] = "done"]
    /\ unsent' = [unsent EXCEPT !["broadcaster"] = <<BCAST_END>>]
    /\ UNCHANGED <<route, wire, header, frame, frames, ticker>>

-----------------------------------------------------------------------------
(* CDN_Server.run and Viewer.view, which receive in the same way.            *)

At(r, where) == TakesPart(r) /\ pc[r] = where /\ unsent[r] = <<>>

Goto(r, where) == pc' = [pc EXCEPT ![r] = where]

\* Mutant: the CDN server does not tell the viewer about the end.
PassOnNoEnd(r, bs) ==
    unsent' = IF r = Last(route) \/ bs = <<BCAST_END>> THEN unsent ELSE [unsent EXCEPT ![r] = bs]

\* The CDN server passes on what the viewer keeps for itself.
PassOn(r, bs) == unsent' = IF r = Last(route) THEN unsent ELSE [unsent EXCEPT ![r] = bs]

\* assert bsock.recv(CTRL_MSG_LEN) == BCAST_BEG
RecvBegin(r) ==
    /\ At(r, "begin")
    /\ \E bs \in Prefixes(wire[From(r)]) :
         /\ Recv(r, 1, bs)
         /\ \/ bs = <<BCAST_BEG>> /\ Goto(r, "scan") /\ PassOn(r, <<BCAST_BEG>>)
            \/ bs # <<BCAST_BEG>> /\ Goto(r, "dead") /\ UNCHANGED unsent
    /\ UNCHANGED <<route, header, frame, frames, ticker>>

\* Until a frame begins or the broadcast ends.  At the end of the stream the loop goes on
\* with empty results, for ever.
RecvControl(r) ==
    /\ At(r, "scan")
    /\ \E bs \in Prefixes(wire[From(r)]) :
         /\ Recv(r, 1, bs)
         /\ \/ bs = <<FRAME_BEG>> /\ Goto(r, "header") /\ UNCHANGED unsent
            \/ bs = <<BCAST_END>> /\ Goto(r, "done") /\ PassOn(r, <<BCAST_END>>)
            \/ bs \notin {<<FRAME_BEG>>, <<BCAST_END>>} /\ UNCHANGED <<pc, unsent>>
    /\ UNCHANGED <<route, header, frame, frames, ticker>>

\* The header is what one call returns.
RecvHeader(r) ==
    /\ At(r, "header")
    /\ \E bs \in Prefixes(wire[From(r)]) :
         /\ Recv(r, TIMESTAMP_LEN, bs)
         /\ header' = [header EXCEPT ![r] = bs]
    /\ Goto(r, "frame")
    /\ UNCHANGED <<route, unsent, frame, frames, ticker>>

\* Mutant: as much again as in the first call.
AnotherFrame(r) == FRAME_SIZE

\* How much of the picture is still asked for.
Missing(r) == FRAME_SIZE - Len(frame[r])

\* Mutant: a time stamp that does not unpack costs the frame and nothing else.
ForgetFrame(r) == Goto(r, "scan")

\* struct.error ends the program.
Raise(r) == Goto(r, "dead")

\* The picture is collected, at the end of the stream for ever; when it is complete the
\* header is unpacked, which raises unless it has its eight bytes, and the CDN
\* server stores the frame and pushes it on.
RecvFrame(r) ==
    /\ At(r, "frame")
    /\ \E bs \in Prefixes(wire[From(r)]) :
         LET f == frame[r] \o bs IN
         /\ Recv(r, Missing(r), bs)
         /\ \/ /\ Len(f) < FRAME_SIZE
               /\ frame' = [frame EXCEPT ![r] = f]
               /\ UNCHANGED <<pc, unsent, header, frames>>
            \/ /\ Len(f) >= FRAME_SIZE
               /\ frame' = [frame EXCEPT ![r] = <<>>]
               /\ header' = [header EXCEPT ![r] = <<>>]
               /\ \/ /\ Len(header[r]) = TIMESTAMP_LEN
                     /\ frames' = [frames EXCEPT ![r] = Append(@, f)]
                     /\ Goto(r, "scan") /\ PassOn(r, FrameOf(f))
                  \/ /\ Len(header[r]) # TIMESTAMP_LEN
                     /\ Raise(r)
                     /\ UNCHANGED <<unsent, frames>>
    /\ UNCHANGED <<route, ticker>>

Next ==
    \/ \E h \in Hosts : Transmit(h)
    \/ TimesUp
    \/ BeginBroadcast
    \/ SendFrame
    \/ EndBroadcast
    \/ \E r \in Receivers : RecvBegin(r) \/ RecvControl(r) \/ RecvHeader(r) \/ RecvFrame(r)

Spec == Init /\ [][Next]_vars

\* The timer rings, TCP delivers, and every host goes on.
Fairness ==
    /\ WF_vars(TimesUp) /\ WF_vars(BeginBroadcast) /\ WF_vars(EndBroadcast)
    /\ \A h \in Hosts : WF_vars(Transmit(h))
    /\ \A r \in Receivers :
          WF_vars(RecvBegin(r)) /\ WF_vars(RecvControl(r)) /\ WF_vars(RecvHeader(r)) /\ WF_vars(RecvFrame(r))

FairSpec == Spec /\ Fairness

-----------------------------------------------------------------------------
\* Frames arrive whole and in order: what is stored is what was broadcast so far and what
\* is viewed is what was stored so far, byte for byte, however the stream was cut
\* and whatever control bytes the pictures contain (cdn-server.py:43-61, viewer.py:38-56).
FramesInOrder ==
    \A r \in Receivers : TakesPart(r) => IsPrefix(frames[r], frames[From(r)])

\* No broadcast is taken for complete that is not: a receiver that has seen the end has
\* every frame of the broadcaster, and the broadcaster has stopped (viewer.py:27-31, 43).
DoneMeansWhole ==
    \A r \in Receivers :
        pc[r] = "done" => pc["broadcaster"] = "done" /\ frames[r] = frames["broadcaster"]

\* A receiver whose header came in two parts.
CutShort(r) == pc[r] = "frame" /\ Len(header[r]) < TIMESTAMP_LEN

\* A broadcast gets through: the viewer sees its end, unless a recv returned part of a
\* header somewhere; that is the one thing that stops it (viewer.py:46, cdn-server.py:51).
GetsThrough == <>(pc["viewer"] = "done") \/ <>(\E r \in Receivers : CutShort(r))
=============================================================================
