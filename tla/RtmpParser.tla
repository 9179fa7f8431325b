----------------------------- MODULE RtmpParser -----------------------------
(***************************************************************************)
(* How the P2P controller reads RTMP out of TCP segments: the parser       *)
(* RTMPControlPacket of pox/livestreaming/bypass.py, the loop that calls   *)
(* it and the one buffer, prepend_buf, that all connections share.         *)
(*                                                                         *)
(* Every connection carries a stream of chunks, written by TCP senders     *)
(* that end a segment at the end of a chunk, after its 12-byte header or,  *)
(* at worst, one byte into a chunk.  Bytes are numbers; a keyword of a     *)
(* message is one "byte" above 255.                                        *)
(***************************************************************************)
EXTENDS Integers, Sequences, SequencesExt

CONSTANTS
    Conns,      \* TCP connections through port 1935
    Streams     \* the chunk sequences each may carry: a function of Conns

PLAY  == 256    \* "play" with the stream key in one message
START == 257    \* "onStatus" with "NetStream.Play.Start"
Kinds == {"play_req", "play_start", "stream_begin"}

(***************************************************************************)
(* What a sender writes: a basic header of one to three bytes (chunk type  *)
(* in two bits, stream id in six, or 0 or 1 and the id in the next one or  *)
(* two), a message header of 11, 7, 3 or 0 bytes, and the message.         *)
(***************************************************************************)
Chunk(type, id, msg) == [type |-> type, id |-> id, msg |-> msg]
LongerThanAny == 256 * 256 * 256     \* a length has three bytes
Chunks == {k \in [type : 0 .. 3, id : Nat, msg : Seq(Nat)] :
              2 <= k.id /\ k.id < 65600 /\ Len(k.msg) < LongerThanAny}

ASSUME StreamsAssumption ==
    /\ "none" \notin Conns
    /\ \A c \in Conns : Streams[c] \subseteq Seq(Chunks)

Zeros(n) == [i \in 1 .. n |-> 0]

BasicHeader(k) ==
    CASE k.id < 64  -> <<64 * k.type + k.id>>
      [] k.id >= 64 /\ k.id < 320 -> <<64 * k.type, k.id - 64>>
      [] OTHER -> <<64 * k.type + 1, (k.id - 64) \div 256, (k.id - 64) % 256>>

\* A number in three bytes, written and read.
ThreeBytes(n) == <<n \div 65536, (n \div 256) % 256, n % 256>>
FromThree(x, y, z) == 65536 * x + 256 * y + z

\* Timestamp, length, type and message stream id; each type leaves out more of them.
MessageHeader(k) ==
    LET length == ThreeBytes(Len(k.msg))
    IN  CASE k.type = 0 -> Zeros(3) \o length \o Zeros(1) \o Zeros(4)
          [] k.type = 1 -> Zeros(3) \o length \o Zeros(1)
          [] k.type = 2 -> Zeros(3)
          [] OTHER      -> <<>>

Header(k)  == BasicHeader(k) \o MessageHeader(k)
Written(k) == Header(k) \o k.msg

\* What a message says to the controller; Stream Begin is event 0 of six bytes.
Says(k) ==
    {m \in Kinds :
        \/ m = "play_req" /\ PLAY \in Range(k.msg)
        \/ m = "play_start" /\ START \in Range(k.msg)
        \/ m = "stream_begin" /\ k.type < 2 /\ Len(k.msg) = 6 /\ k.msg[1] = 0 /\ k.msg[2] = 0}

-----------------------------------------------------------------------------
(* RTMPControlPacket.__init__.                                               *)

Failed == [parsed |-> FALSE, msg_length |-> -1, payload |-> <<>>, remain |-> <<>>]

\* Mutant: every longer stream id is taken to be one byte longer.
BasicAtMostTwo(content) == IF content[1] % 64 <= 1 THEN 2 ELSE 1

\* How many bytes the basic header and the message header take.
BasicLength(content) ==
    CASE content[1] % 64 = 0 -> 2 [] content[1] % 64 = 1 -> 3 [] OTHER -> 1
HeaderLength(type) == CASE type = 0 -> 11 [] type = 1 -> 7 [] type = 2 -> 3 [] OTHER -> 0
CurrPos(content) == BasicLength(content) + HeaderLength(content[1] \div 64)

\* The three bytes after the timestamp; None (-1) for the types without.
MsgLength(content) ==
    LET at == BasicLength(content) + 3
    IN  IF content[1] \div 64 >= 2 THEN -1
        ELSE FromThree(content[at + 1], content[at + 2], content[at + 3])

\* Mutant: another chunk is looked for in a single byte, too.
SplitsOff(len, msg_length) == len > msg_length

\* "payload is longer than msg_length + 1" is the code's test for another chunk.
Splits(len, msg_length) == len > msg_length + 1

RTMPControlPacket(content) ==
    LET payload == SubSeq(content, CurrPos(content) + 1, Len(content))
        n       == MsgLength(content)
        parsed(p, r) == [parsed |-> TRUE, msg_length |-> n, payload |-> p, remain |-> r]
    IN  CASE Len(content) < CurrPos(content) -> Failed      \* StopIteration
          [] Len(content) >= CurrPos(content) /\ n = -1 -> parsed(payload, <<>>)
          [] Len(content) >= CurrPos(content) /\ n # -1 /\ Splits(Len(payload), n) ->
                parsed(SubSeq(payload, 1, n), SubSeq(payload, n + 1, Len(payload)))
          [] Len(content) >= CurrPos(content) /\ n # -1 /\ Len(payload) < n -> Failed
          [] OTHER -> parsed(payload, <<>>)

\* Mutant: event 0 is not asked for its length.
IsOfAnyLength(r) ==
    {m \in Kinds :
        \/ m = "play_req" /\ PLAY \in Range(r.payload)
        \/ m = "play_start" /\ START \in Range(r.payload)
        \/ m = "stream_begin" /\ Len(r.payload) >= 2 /\ r.payload[1] = 0 /\ r.payload[2] = 0}

\* is_play_req, is_play_start and is_stream_begin of a packet.
Is(r) ==
    {m \in Kinds :
        \/ m = "play_req" /\ PLAY \in Range(r.payload)
        \/ m = "play_start" /\ START \in Range(r.payload)
        \/ m = "stream_begin" /\ r.msg_length = 6 /\ r.payload[1] = 0 /\ r.payload[2] = 0}

\* The loop: the packets of content, or one that failed at the end.
Packets(content) ==
    LET from[i \in 1 .. Len(content) + 1] ==
          IF i > Len(content) THEN <<>>
          ELSE LET r == RTMPControlPacket(SubSeq(content, i, Len(content)))
               IN  <<r>> \o (IF r.parsed THEN from[Len(content) + 1 - Len(r.remain)] ELSE <<>>)
    IN  from[1]

\* What a segment's packets say; nothing at all if one of them does not parse.
Recognised(content) ==
    LET rs == Packets(content)
    IN  IF \E i \in DOMAIN rs : ~rs[i].parsed THEN {} ELSE UNION {Is(rs[i]) : i \in DOMAIN rs}

-----------------------------------------------------------------------------
(* The connections and the handler.                                          *)

VARIABLES
    stream,         \* the chunks of each connection
    chunk,          \* how many of them have been sent
    extra,          \* how many bytes of the next one have been sent
    prepend_buf,    \* LearningSwitch.prepend_buf, <<>> for None
    owner,          \* whose segment is in it, from where to where, and what it said
    seen,           \* what was recognised in each connection's segments
    mixed           \* has a segment been parsed out of place?

vars == <<stream, chunk, extra, prepend_buf, owner, seen, mixed>>

NoOwner == [conn |-> "none", from |-> 0, upto |-> <<0, 0>>, says |-> {}]

TypeOK ==
    /\ chunk \in [Conns -> Nat]
    /\ \A c \in Conns : stream[c] \in Streams[c] /\ chunk[c] <= Len(stream[c])
    /\ extra \in [Conns -> {0, 1, 12}]
    /\ Len(prepend_buf) \in {0, 12}
    /\ owner.conn \in Conns \cup {"none"} /\ (owner.conn = "none" <=> prepend_buf = <<>>)
    /\ seen \in [Conns -> SUBSET Kinds]
    /\ mixed \in BOOLEAN

Init ==
    /\ stream \in [Conns -> UNION {Streams[c] : c \in Conns}]
    /\ \A c \in Conns : stream[c] \in Streams[c]
    /\ chunk = [c \in Conns |-> 0]
    /\ extra = [c \in Conns |-> 0]
    /\ prepend_buf = <<>> /\ owner = NoOwner /\ mixed = FALSE
    /\ seen = [c \in Conns |-> {}]

\* The bytes of c's stream from where it is, up to e bytes into the chunk after the k-th.
Bytes(c, k, e) ==
    LET whole == FlattenSeq([i \in 1 .. k - chunk[c] |-> Written(stream[c][chunk[c] + i])])
        start == IF e = 0 THEN <<>> ELSE SubSeq(Written(stream[c][k + 1]), 1, e)
    IN  SubSeq(whole \o start, extra[c] + 1, Len(whole) + e)

\* A segment may end there: after a whole chunk, a 12-byte header or a single byte.
EndsAt(c, k, e) ==
    /\ <<k, e>> # <<chunk[c], extra[c]>>
    /\ k = chunk[c] => e > extra[c]
    /\ e # 0 => k < Len(stream[c]) /\ e < Len(Written(stream[c][k + 1]))
    /\ e = 12 => Len(Header(stream[c][k + 1])) = 12

Said(c, k) == UNION {Says(stream[c][i]) : i \in chunk[c] + 1 .. k}

Advance(c, k, e) ==
    /\ chunk' = [chunk EXCEPT ![c] = k]
    /\ extra' = [extra EXCEPT ![c] = e]
    /\ UNCHANGED stream

\* Handshakes have 88 or 89 bytes, and whatever has is taken for one.
Handshake(c, k, e) ==
    /\ Len(Bytes(c, k, e)) \in {88, 89}
    /\ Advance(c, k, e)
    /\ UNCHANGED <<prepend_buf, owner, seen, mixed>>

\* Twelve bytes are kept for the next segment, of whatever connection.
Prepend(c, k, e) ==
    /\ Len(Bytes(c, k, e)) = 12
    /\ prepend_buf' = Bytes(c, k, e)
    /\ owner' = [conn |-> c, from |-> chunk[c],
                  upto |-> IF extra[c] = 0 THEN <<k, e>> ELSE <<k, -1>>, says |-> Said(c, k)]
    /\ Advance(c, k, e)
    /\ UNCHANGED <<seen, mixed>>

\* prepend_buf once its bytes are used.
UsedUp == <<>>

\* From where a chunk starts, or behind the bytes from there that came right before.
InPlace(c) ==
    \/ extra[c] = 0 /\ owner.conn = "none"
    \/ owner.conn = c /\ owner.upto = <<chunk[c], extra[c]>>

\* Anything else is parsed, behind what was kept.
Parse(c, k, e) ==
    /\ Len(Bytes(c, k, e)) \notin {12, 88, 89}
    /\ seen' = [seen EXCEPT ![c] = @ \cup Recognised(prepend_buf \o Bytes(c, k, e))]
    /\ prepend_buf' = UsedUp /\ owner' = NoOwner
    /\ mixed' = (mixed \/ ~InPlace(c))
    /\ Advance(c, k, e)

Next ==
    \E c \in Conns : \E k \in chunk[c] .. Len(stream[c]), e \in {0, 1, 12} :
        /\ EndsAt(c, k, e)
        /\ \/ Handshake(c, k, e)
           \/ Prepend(c, k, e)
           \/ Parse(c, k, e)

Spec == Init /\ [][Next]_vars

-----------------------------------------------------------------------------
\* The chunks of what is parsed with c's segment are those after this one.
First(c) == IF owner.conn = c THEN owner.from ELSE chunk[c]

\* A segment a reader can understand: it starts with a chunk, or behind the connection's
\* own twelve bytes in the buffer, only its last chunk may lack a length (so none in the
\* buffer), and it ends with a chunk or with the first byte of another.
Clear(c, k, e) ==
    /\ k > chunk[c]
    /\ InPlace(c)
    /\ \A i \in First(c) + 1 .. k - 1 : stream[c][i].type < 2
    /\ e = 0 \/ (e = 1 /\ stream[c][k].type < 2)

\* Nothing is missed: the messages of a segment that is no handshake's length are all
\* recognised, however many it holds, whatever their chunk stream ids, whether or not the
\* first one's header came ahead, and even when a byte of the next chunk follows
\* (bypass.py:86-134, 357-373; 123 is what a lone byte depends on).
NothingMissed ==
    [][\A c \in Conns, e \in {0, 1} :
          /\ chunk'[c] > chunk[c] /\ extra'[c] = e
          /\ Clear(c, chunk'[c], e)
          /\ Len(Bytes(c, chunk'[c], e)) \notin {12, 88, 89}
          => seen'[c] = seen[c] \cup Said(c, chunk'[c])
                          \cup (IF owner.conn = c THEN owner.says ELSE {})]_vars

\* Nothing is made up: what is recognised in a connection's segments, that connection has
\* sent, until a segment is read behind another connection's 12 bytes or after a lone
\* byte: the buffer is never used twice (bypass.py:357-363).
NothingMadeUp ==
    ~mixed => \A c \in Conns : seen[c] \subseteq UNION {Says(stream[c][i]) : i \in 1 .. chunk[c]}
=============================================================================
