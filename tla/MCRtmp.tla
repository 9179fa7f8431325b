------------------------------- MODULE MCRtmp -------------------------------
(* RtmpParser for TLC: two connections, and the kinds of chunks that differ   *)
(* for the parser: short and long headers, stream ids of one to three bytes,  *)
(* chunks of one byte, of twelve and of 88.                                   *)
EXTENDS RtmpParser

CONSTANTS c1, c2

Play    == Chunk(0, 3, <<2, PLAY, 5>>)
Start   == Chunk(0, 5, <<2, START, 5>>)
Begin   == Chunk(0, 2, <<0, 0, 0, 0, 0, 1>>)
SetSize == Chunk(0, 2, <<0, 0, 16, 0>>)
Ack     == Chunk(1, 2, <<0, 0, 9, 9>>)
Far     == Chunk(0, 70, <<2, PLAY, 5>>)
Farther == Chunk(1, 400, <<2, START, 5, 5>>)
Audio   == Chunk(3, 4, <<7, 7>>)
Bare    == Chunk(3, 4, <<>>)
Ticked  == Chunk(2, 4, <<8>>)
Twelve  == Chunk(2, 4, Zeros(8))
Long    == Chunk(0, 3, <<PLAY>> \o Zeros(75))

Short == {Play, Start, Begin, SetSize, Ack}
All   == Short \cup {Far, Farther, Audio, Bare, Ticked, Twelve, Long}

Carried == c1 :> ({<<x, y>> : x, y \in All} \cup {<<x, Begin, y>> : x, y \in Short})
             @@ c2 :> ({<<x>> : x \in All} \cup {<<SetSize, Play>>, <<Start, Begin>>})
=============================================================================
