-------------------------- MODULE RtmpParser_proofs --------------------------
(* What TLAPS proves of the parser, for every chunk and every rest, and of    *)
(* the handler's state, for any connections and streams.                      *)
EXTENDS RtmpParser, SequenceTheorems, WellFoundedInduction, TLAPS

(***************************************************************************)
(* The state: each connection's place in its stream, and the one buffer    *)
(* with its owner.                                                         *)
(***************************************************************************)
LEMMA Recognises == ASSUME NEW content PROVE Recognised(content) \in SUBSET Kinds
<1>1. \A r : Is(r) \subseteq Kinds
  BY DEF Is
<1> QED
  BY <1>1 DEF Recognised

LEMMA EndsInside ==
  ASSUME TypeOK, NEW c \in Conns, NEW k \in chunk[c] .. Len(stream[c]), NEW e \in {0, 1, 12}
  PROVE  k \in Nat /\ k <= Len(stream[c]) /\ Advance(c, k, e) =>
             /\ chunk' \in [Conns -> Nat]
             /\ \A d \in Conns : stream'[d] \in Streams[d] /\ chunk'[d] <= Len(stream'[d])
             /\ extra' \in [Conns -> {0, 1, 12}]
  BY DEF TypeOK, Advance

\* The type invariant is inductive by itself.
LEMMA TypeHolds == Spec => []TypeOK
<1>1. Init => TypeOK
  <2> SUFFICES ASSUME Init PROVE TypeOK
    OBVIOUS
  <2>1. \A c \in Conns : stream[c] \in Streams[c] /\ Len(stream[c]) \in Nat
    BY StreamsAssumption DEF Init
  <2>2. Len(prepend_buf) = 0
    BY DEF Init
  <2>3. owner.conn = "none" /\ prepend_buf = <<>>
    BY DEF Init, NoOwner
  <2>4. chunk \in [Conns -> Nat] /\ \A c \in Conns : chunk[c] <= Len(stream[c])
    BY <2>1 DEF Init
  <2>5. extra \in [Conns -> {0, 1, 12}] /\ seen \in [Conns -> SUBSET Kinds] /\ mixed \in BOOLEAN
    BY DEF Init
  <2> QED
    BY <2>1, <2>2, <2>3, <2>4, <2>5 DEF TypeOK
<1>2. TypeOK /\ [Next]_vars => TypeOK'
  <2> SUFFICES ASSUME TypeOK, [Next]_vars PROVE TypeOK'
    OBVIOUS
  <2>1. CASE UNCHANGED vars
    BY <2>1 DEF TypeOK, vars
  <2>2. ASSUME NEW c \in Conns, NEW k \in chunk[c] .. Len(stream[c]), NEW e \in {0, 1, 12},
               Handshake(c, k, e) \/ Prepend(c, k, e) \/ Parse(c, k, e)
        PROVE  TypeOK'
    <3>1. k \in Nat /\ k <= Len(stream[c])
      BY StreamsAssumption DEF TypeOK
    <3>2. /\ chunk' \in [Conns -> Nat]
          /\ \A d \in Conns : stream'[d] \in Streams[d] /\ chunk'[d] <= Len(stream'[d])
          /\ extra' \in [Conns -> {0, 1, 12}]
      BY <2>2, <3>1, EndsInside DEF Handshake, Prepend, Parse
    <3>3. CASE Handshake(c, k, e)
      BY <3>2, <3>3 DEF TypeOK, Handshake
    <3>4. CASE Prepend(c, k, e)
      <4>1. Len(prepend_buf') = 12 /\ owner'.conn = c
        BY <3>4 DEF Prepend
      <4>2. owner'.conn # "none"
        BY <4>1, StreamsAssumption
      <4>3. prepend_buf' # <<>>
        <5>1. prepend_buf' = <<>> => Len(prepend_buf') = 0
          OBVIOUS
        <5> QED
          BY <4>1, <5>1
      <4> QED
        BY <3>2, <3>4, <4>1, <4>2, <4>3 DEF TypeOK, Prepend
    <3>5. CASE Parse(c, k, e)
      <4>1. prepend_buf' = <<>> /\ Len(prepend_buf') = 0 /\ owner'.conn = "none"
        BY <3>5 DEF Parse, UsedUp, NoOwner
      <4>2. seen' \in [Conns -> SUBSET Kinds]
        BY <3>5, Recognises DEF Parse, TypeOK
      <4>3. mixed' \in BOOLEAN
        BY <3>5 DEF Parse
      <4> QED
        BY <3>2, <4>1, <4>2, <4>3 DEF TypeOK
    <3> QED
      BY <2>2, <3>3, <3>4, <3>5
  <2> QED
    BY <2>1, <2>2 DEF Next
<1> QED
  BY <1>1, <1>2, PTL DEF Spec

\* In every state each connection is somewhere in its stream, and the buffer holds either
\* nothing or the twelve bytes of one connection (bypass.py:355-363).
THEOREM ParserTypeCorrect == Spec => []TypeOK
  BY TypeHolds

(***************************************************************************)
(* The parser reads back what a sender wrote.                              *)
(***************************************************************************)
LEMMA TakeHead ==
  ASSUME NEW S, NEW s \in Seq(S), NEW t \in Seq(S)
  PROVE  SubSeq(s \o t, 1, Len(s)) = s
<1>1. s \o t \in Seq(S) /\ Len(s \o t) = Len(s) + Len(t) /\ \A i \in 1 .. Len(s) : (s \o t)[i] = s[i]
  BY ConcatProperties
<1>2. SubSeq(s \o t, 1, Len(s)) \in Seq(S) /\ Len(SubSeq(s \o t, 1, Len(s))) = Len(s)
  BY <1>1, SubSeqProperties
<1>3. \A i \in 1 .. Len(s) : SubSeq(s \o t, 1, Len(s))[i] = s[i]
  BY <1>1, SubSeqProperties
<1> QED
  BY <1>2, <1>3, SeqEqual

LEMMA DropHead ==
  ASSUME NEW S, NEW s \in Seq(S), NEW t \in Seq(S)
  PROVE  SubSeq(s \o t, Len(s) + 1, Len(s \o t)) = t
<1> DEFINE u == SubSeq(s \o t, Len(s) + 1, Len(s \o t))
<1>1. /\ s \o t \in Seq(S) /\ Len(s \o t) = Len(s) + Len(t)
      /\ \A i \in 1 .. Len(s \o t) : (s \o t)[i] = IF i <= Len(s) THEN s[i] ELSE t[i - Len(s)]
  BY ConcatProperties
<1>2. u \in Seq(S) /\ Len(u) = Len(t) /\ \A i \in 1 .. Len(t) : u[i] = (s \o t)[Len(s) + i]
  BY <1>1, SubSeqProperties
<1>3. \A i \in 1 .. Len(t) : u[i] = t[i]
  BY <1>1, <1>2
<1> HIDE DEF u
<1>4. u = t
  BY <1>2, <1>3, SeqEqual
<1> QED
  BY <1>4 DEF u

\* What the parser finds in the first bytes of a chunk.
LEMMA TypeAndId ==
  ASSUME NEW t \in 0 .. 3, NEW i \in 0 .. 63
  PROVE  (64 * t + i) \div 64 = t /\ (64 * t + i) % 64 = i
  OBVIOUS

LEMMA BasicHeaderForm ==
  ASSUME NEW k \in Chunks
  PROVE  /\ BasicHeader(k) \in Seq(Nat) /\ Len(BasicHeader(k)) \in 1 .. 3
         /\ BasicHeader(k)[1] \div 64 = k.type
         /\ BasicLength(BasicHeader(k)) = Len(BasicHeader(k))
<1>1. k.type \in 0 .. 3 /\ k.id \in Nat /\ k.id >= 2
  BY DEF Chunks
<1>2. CASE k.id < 64
  <2>1. BasicHeader(k) = <<64 * k.type + k.id>>
    BY <1>1, <1>2 DEF BasicHeader
  <2>2. (64 * k.type + k.id) \div 64 = k.type /\ (64 * k.type + k.id) % 64 = k.id
    <3>1. k.id \in 0 .. 63
      BY <1>1, <1>2
    <3> QED
      BY <1>1, <3>1, TypeAndId
  <2>3. /\ BasicHeader(k) \in Seq(Nat) /\ Len(BasicHeader(k)) = 1
        /\ BasicHeader(k)[1] = 64 * k.type + k.id
    BY <1>1, <2>1
  <2>4. BasicLength(BasicHeader(k)) = 1
    <3>1. BasicHeader(k)[1] % 64 = k.id
      BY <2>2, <2>3, Zenon
    <3>2. k.id # 0 /\ k.id # 1
      BY <1>1
    <3> QED
      BY <3>1, <3>2, Zenon DEF BasicLength
  <2> QED
    BY <2>2, <2>3, <2>4
<1>3. CASE k.id >= 64 /\ k.id < 320
  <2>1. BasicHeader(k) = <<64 * k.type, k.id - 64>>
    BY <1>1, <1>3 DEF BasicHeader
  <2>2. (64 * k.type) \div 64 = k.type /\ (64 * k.type) % 64 = 0
    BY <1>1
  <2>3. BasicHeader(k) \in Seq(Nat) /\ Len(BasicHeader(k)) = 2 /\ BasicHeader(k)[1] = 64 * k.type
    BY <1>1, <1>3, <2>1
  <2>4. BasicLength(BasicHeader(k)) = 2
    BY <2>2, <2>3 DEF BasicLength
  <2> QED
    BY <2>2, <2>3, <2>4
<1>4. CASE k.id >= 320
  <2>1. BasicHeader(k) = <<64 * k.type + 1, (k.id - 64) \div 256, (k.id - 64) % 256>>
    BY <1>1, <1>4 DEF BasicHeader
  <2>2. (64 * k.type + 1) \div 64 = k.type /\ (64 * k.type + 1) % 64 = 1
    BY <1>1
  <2>3. (k.id - 64) \div 256 \in Nat /\ (k.id - 64) % 256 \in Nat
    BY <1>1, <1>4
  <2>4. BasicHeader(k) \in Seq(Nat) /\ Len(BasicHeader(k)) = 3 /\ BasicHeader(k)[1] = 64 * k.type + 1
    BY <1>1, <2>1, <2>3
  <2>5. BasicLength(BasicHeader(k)) = 3
    BY <2>2, <2>4 DEF BasicLength
  <2> QED
    BY <2>2, <2>4, <2>5
<1> QED
  BY <1>1, <1>2, <1>3, <1>4

LEMMA ZerosForm == \A n \in Nat : Zeros(n) \in Seq(Nat) /\ Len(Zeros(n)) = n
<1> SUFFICES ASSUME NEW n \in Nat PROVE Zeros(n) \in Seq(Nat) /\ Len(Zeros(n)) = n
  OBVIOUS
<1>1. Zeros(n) \in [1 .. n -> Nat]
  BY DEF Zeros
<1> QED
  BY <1>1

LEMMA LengthBytes ==
  ASSUME NEW n \in Nat
  PROVE  /\ n \div 65536 \in Nat /\ (n \div 256) % 256 \in Nat /\ n % 256 \in Nat
         /\ 65536 * (n \div 65536) + 256 * ((n \div 256) % 256) + (n % 256) = n
<1>1. n = 256 * (n \div 256) + (n % 256) /\ n \div 256 \in Nat /\ n % 256 \in Nat
  OBVIOUS
<1>2. n \div 256 = 256 * ((n \div 256) \div 256) + ((n \div 256) % 256)
      /\ (n \div 256) % 256 \in Nat
  BY <1>1
<1>3. (n \div 256) \div 256 = n \div 65536 /\ n \div 65536 \in Nat
  OBVIOUS
<1> QED
  BY <1>1, <1>2, <1>3

\* Where the bytes of two sequences are in their concatenation.
LEMMA ConcatType == \A s, t \in Seq(Nat) : s \o t \in Seq(Nat)
  OBVIOUS

LEMMA ConcatLen == \A s, t \in Seq(Nat) : Len(s \o t) = Len(s) + Len(t)
  OBVIOUS

LEMMA Associative == \A s, t, u \in Seq(Nat) : (s \o t) \o u = s \o (t \o u)
  BY ConcatAssociative

LEMMA InFirst ==
  ASSUME NEW s \in Seq(Nat), NEW t \in Seq(Nat), NEW i \in 1 .. Len(s)
  PROVE  (s \o t)[i] = s[i]
  BY ConcatProperties

LEMMA InSecond ==
  ASSUME NEW s \in Seq(Nat), NEW t \in Seq(Nat), NEW i \in 1 .. Len(t), NEW n \in Nat, n = Len(s) + i
  PROVE  (s \o t)[n] = t[i]
  BY ConcatProperties

LEMMA AfterFirst ==
  ASSUME NEW s \in Seq(Nat), NEW t \in Seq(Nat), NEW i \in 1 .. Len(t)
  PROVE  (s \o t)[Len(s) + i] = t[i]
<1>1. Len(s) + i \in Nat /\ Len(s) + i = Len(s) + i
  OBVIOUS
<1> QED
  BY <1>1, InSecond, Zenon

\* Bytes four to six of a message header, from either side.
LEMMA FourToSixSecond ==
  ASSUME NEW s \in Seq(Nat), NEW t \in Seq(Nat), Len(s) = 3, Len(t) = 3
  PROVE  (s \o t)[4] = t[1] /\ (s \o t)[5] = t[2] /\ (s \o t)[6] = t[3]
<1>1. /\ 4 = Len(s) + 1 /\ 1 \in 1 .. Len(t) /\ 4 \in Nat
      /\ 5 = Len(s) + 2 /\ 2 \in 1 .. Len(t) /\ 5 \in Nat
      /\ 6 = Len(s) + 3 /\ 3 \in 1 .. Len(t) /\ 6 \in Nat
  OBVIOUS
<1> QED
  BY <1>1, InSecond, Zenon

LEMMA FourToSixFirst ==
  ASSUME NEW s \in Seq(Nat), NEW t \in Seq(Nat), Len(s) >= 6
  PROVE  (s \o t)[4] = s[4] /\ (s \o t)[5] = s[5] /\ (s \o t)[6] = s[6]
<1>1. 4 \in 1 .. Len(s) /\ 5 \in 1 .. Len(s) /\ 6 \in 1 .. Len(s)
  OBVIOUS
<1> QED
  BY <1>1, InFirst, Zenon

\* The shapes that hold a length: s is the time stamp, l the length, t and u the rest.
LEMMA ShortShape ==
  ASSUME NEW s \in Seq(Nat), NEW l \in Seq(Nat), NEW t \in Seq(Nat), Len(s) = 3, Len(l) = 3
  PROVE  /\ (s \o l) \o t \in Seq(Nat) /\ Len((s \o l) \o t) = 6 + Len(t)
         /\ ((s \o l) \o t)[4] = l[1] /\ ((s \o l) \o t)[5] = l[2] /\ ((s \o l) \o t)[6] = l[3]
<1>1. s \o l \in Seq(Nat) /\ (s \o l) \o t \in Seq(Nat)
  BY ConcatType, Zenon
<1>2. Len(s \o l) = Len(s) + Len(l) /\ Len((s \o l) \o t) = Len(s \o l) + Len(t)
  BY <1>1, ConcatLen, Zenon
<1>3. Len(s \o l) >= 6 /\ Len((s \o l) \o t) = 6 + Len(t)
  BY <1>2
<1>4. (s \o l)[4] = l[1] /\ (s \o l)[5] = l[2] /\ (s \o l)[6] = l[3]
  BY FourToSixSecond, Zenon
<1>5. /\ ((s \o l) \o t)[4] = (s \o l)[4] /\ ((s \o l) \o t)[5] = (s \o l)[5]
      /\ ((s \o l) \o t)[6] = (s \o l)[6]
  BY <1>1, <1>3, FourToSixFirst, Zenon
<1> QED
  BY <1>1, <1>3, <1>4, <1>5, Zenon

LEMMA FullShape ==
  ASSUME NEW y \in Seq(Nat), NEW u \in Seq(Nat), Len(y) >= 6
  PROVE  /\ y \o u \in Seq(Nat) /\ Len(y \o u) = Len(y) + Len(u)
         /\ (y \o u)[4] = y[4] /\ (y \o u)[5] = y[5] /\ (y \o u)[6] = y[6]
  BY ConcatType, ConcatLen, FourToSixFirst, Zenon

LEMMA ReadsThree ==
  ASSUME NEW n \in Nat
  PROVE  /\ ThreeBytes(n) \in Seq(Nat) /\ Len(ThreeBytes(n)) = 3
         /\ FromThree(ThreeBytes(n)[1], ThreeBytes(n)[2], ThreeBytes(n)[3]) = n
<1>1. /\ n \div 65536 \in Nat /\ (n \div 256) % 256 \in Nat /\ n % 256 \in Nat
      /\ 65536 * (n \div 65536) + 256 * ((n \div 256) % 256) + (n % 256) = n
  BY LengthBytes
<1>2. /\ ThreeBytes(n) \in Seq(Nat) /\ Len(ThreeBytes(n)) = 3
      /\ ThreeBytes(n)[1] = n \div 65536 /\ ThreeBytes(n)[2] = (n \div 256) % 256
      /\ ThreeBytes(n)[3] = n % 256
  BY <1>1 DEF ThreeBytes
<1>3. FromThree(ThreeBytes(n)[1], ThreeBytes(n)[2], ThreeBytes(n)[3]) = n
  BY <1>1, <1>2 DEF FromThree
<1> QED
  BY <1>2, <1>3

LEMMA MessageHeaderForm ==
  ASSUME NEW k \in Chunks
  PROVE  /\ MessageHeader(k) \in Seq(Nat)
         /\ Len(MessageHeader(k)) = HeaderLength(k.type)
         /\ k.type < 2 =>
              FromThree(MessageHeader(k)[4], MessageHeader(k)[5], MessageHeader(k)[6]) = Len(k.msg)
<1>1. k.type \in 0 .. 3 /\ Len(k.msg) \in Nat
  BY DEF Chunks
<1>2. PICK l : l = ThreeBytes(Len(k.msg))
  OBVIOUS
<1>3. PICK y : y = (Zeros(3) \o l) \o Zeros(1)
  OBVIOUS
<1>4. /\ k.type = 0 => MessageHeader(k) = y \o Zeros(4)
      /\ k.type = 1 => MessageHeader(k) = y
      /\ k.type = 2 => MessageHeader(k) = Zeros(3)
      /\ k.type = 3 => MessageHeader(k) = <<>>
  BY <1>2, <1>3 DEF MessageHeader
<1>5. l \in Seq(Nat) /\ Len(l) = 3 /\ FromThree(l[1], l[2], l[3]) = Len(k.msg)
  BY <1>1, <1>2, ReadsThree, Zenon
<1>6. /\ Zeros(1) \in Seq(Nat) /\ Len(Zeros(1)) = 1 /\ Zeros(3) \in Seq(Nat)
      /\ Len(Zeros(3)) = 3 /\ Zeros(4) \in Seq(Nat) /\ Len(Zeros(4)) = 4
  BY ZerosForm
<1>7. /\ y \in Seq(Nat) /\ Len(y) = 6 + Len(Zeros(1))
      /\ y[4] = l[1] /\ y[5] = l[2] /\ y[6] = l[3]
  BY <1>3, <1>5, <1>6, ShortShape, Zenon
<1>8. Len(y) = 7 /\ Len(y) >= 6
  <2>1. Len(y) = 6 + 1
    BY <1>6, <1>7, Zenon
  <2> QED
    BY <2>1
<1>9. /\ y \o Zeros(4) \in Seq(Nat) /\ Len(y \o Zeros(4)) = Len(y) + Len(Zeros(4))
      /\ (y \o Zeros(4))[4] = y[4] /\ (y \o Zeros(4))[5] = y[5] /\ (y \o Zeros(4))[6] = y[6]
  BY <1>6, <1>7, <1>8, FullShape, Zenon
<1>10. Len(y \o Zeros(4)) = 11
  <2>1. Len(y \o Zeros(4)) = 7 + 4
    BY <1>6, <1>8, <1>9, Zenon
  <2> QED
    BY <2>1
<1>11. /\ k.type = 0 => HeaderLength(k.type) = 11
       /\ k.type = 1 => HeaderLength(k.type) = 7
       /\ k.type = 2 => HeaderLength(k.type) = 3 /\ ~(k.type < 2)
       /\ k.type = 3 => HeaderLength(k.type) = 0 /\ ~(k.type < 2)
  BY DEF HeaderLength
<1>12. <<>> \in Seq(Nat) /\ Len(<<>>) = 0
  OBVIOUS
<1>13. CASE k.type = 0
  BY <1>4, <1>5, <1>7, <1>9, <1>10, <1>11, <1>13, Zenon
<1>14. CASE k.type = 1
  BY <1>4, <1>5, <1>7, <1>8, <1>11, <1>14, Zenon
<1>15. CASE k.type = 2
  BY <1>4, <1>6, <1>11, <1>15, Zenon
<1>16. CASE k.type = 3
  BY <1>4, <1>11, <1>12, <1>16, Zenon
<1> QED
  BY <1>1, <1>13, <1>14, <1>15, <1>16

LEMMA HeaderForm ==
  ASSUME NEW k \in Chunks
  PROVE  /\ Header(k) \in Seq(Nat) /\ Len(Header(k)) >= 1
         /\ Header(k)[1] = BasicHeader(k)[1]
         /\ Len(Header(k)) = Len(BasicHeader(k)) + HeaderLength(k.type)
         /\ k.type < 2 =>
              /\ Len(BasicHeader(k)) + 6 <= Len(Header(k))
              /\ FromThree(Header(k)[Len(BasicHeader(k)) + 4], Header(k)[Len(BasicHeader(k)) + 5],
                           Header(k)[Len(BasicHeader(k)) + 6]) = Len(k.msg)
<1>1. PICK b \in Seq(Nat) : b = BasicHeader(k) /\ Len(b) \in 1 .. 3
  BY BasicHeaderForm
<1>2. PICK m \in Seq(Nat) : m = MessageHeader(k) /\ Len(m) = HeaderLength(k.type)
  BY MessageHeaderForm
<1>3. k.type < 2 => FromThree(m[4], m[5], m[6]) = Len(k.msg)
  BY <1>2, MessageHeaderForm, Zenon
<1>4. Header(k) = b \o m
  BY <1>1, <1>2 DEF Header
<1>5. b \o m \in Seq(Nat)
  BY ConcatType, Zenon
<1>6. Len(b \o m) = Len(b) + Len(m)
  BY ConcatLen, Zenon
<1>7. Len(b) \in Nat /\ Len(m) \in Nat /\ Len(b) >= 1
  BY <1>1
<1>8. (b \o m)[1] = b[1] /\ Len(b \o m) >= 1
  <2>1. 1 \in 1 .. Len(b) /\ Len(b) + Len(m) >= 1
    BY <1>7
  <2> QED
    BY <1>6, <2>1, InFirst, Zenon
<1>9. ASSUME k.type < 2
      PROVE  /\ Len(b) + 6 <= Len(b \o m)
             /\ (b \o m)[Len(b) + 4] = m[4] /\ (b \o m)[Len(b) + 5] = m[5]
             /\ (b \o m)[Len(b) + 6] = m[6]
  <2>1. k.type = 0 \/ k.type = 1
    BY <1>9 DEF Chunks
  <2>2. Len(m) >= 6
    <3>1. HeaderLength(k.type) = 11 \/ HeaderLength(k.type) = 7
      BY <2>1 DEF HeaderLength
    <3>2. Len(m) = 11 \/ Len(m) = 7
      BY <1>2, <3>1, Zenon
    <3>3. 11 >= 6 /\ 7 >= 6
      OBVIOUS
    <3> QED
      BY <3>2, <3>3, Zenon
  <2>3. 4 \in 1 .. Len(m) /\ 5 \in 1 .. Len(m) /\ 6 \in 1 .. Len(m)
    BY <1>7, <2>2
  <2>4. Len(b) + 6 <= Len(b) + Len(m)
    BY <1>7, <2>2
  <2>5. /\ (b \o m)[Len(b) + 4] = m[4] /\ (b \o m)[Len(b) + 5] = m[5]
        /\ (b \o m)[Len(b) + 6] = m[6]
    BY <2>3, AfterFirst, Zenon
  <2> QED
    BY <1>6, <2>4, <2>5, Zenon
<1> QED
  BY <1>1, <1>2, <1>3, <1>4, <1>5, <1>6, <1>8, <1>9, Zenon

\* Whatever follows it: a chunk's header says where its message starts and how long it is.
LEMMA ReadsHeader ==
  ASSUME NEW k \in Chunks, NEW rest \in Seq(Nat)
  PROVE  /\ CurrPos(Header(k) \o rest) = Len(Header(k))
         /\ (Header(k) \o rest)[1] \div 64 = k.type
         /\ MsgLength(Header(k) \o rest) = IF k.type < 2 THEN Len(k.msg) ELSE -1
<1>1. PICK h \in Seq(Nat) : h = Header(k)
  BY HeaderForm
<1>2. PICK b \in Seq(Nat) : b = BasicHeader(k) /\ Len(b) \in 1 .. 3
  BY BasicHeaderForm
<1>3. PICK c : c = h \o rest
  OBVIOUS
<1>4. b[1] \div 64 = k.type /\ BasicLength(b) = Len(b)
  BY <1>2, BasicHeaderForm, Zenon
<1>5. /\ Len(h) >= 1 /\ h[1] = b[1] /\ Len(h) = Len(b) + HeaderLength(k.type)
      /\ k.type < 2 => /\ Len(b) + 6 <= Len(h)
                       /\ FromThree(h[Len(b) + 4], h[Len(b) + 5], h[Len(b) + 6]) = Len(k.msg)
  BY <1>1, <1>2, HeaderForm, Zenon
<1>6. c[1] = b[1]
  <2>1. 1 \in 1 .. Len(h)
    BY <1>5
  <2> QED
    BY <1>3, <1>5, <2>1, InFirst, Zenon
<1>7. BasicLength(c) = Len(b)
  <2>1. BasicLength(c) = BasicLength(b)
    BY <1>6 DEF BasicLength
  <2> QED
    BY <1>4, <2>1, Zenon
<1>8. c[1] \div 64 = k.type
  BY <1>4, <1>6, Zenon
<1>9. CurrPos(c) = Len(h)
  BY <1>5, <1>7, <1>8, Zenon DEF CurrPos
<1>10. CASE k.type < 2
  <2>1. (Len(b) + 3) + 1 = Len(b) + 4 /\ (Len(b) + 3) + 2 = Len(b) + 5 /\ (Len(b) + 3) + 3 = Len(b) + 6
    BY <1>2
  <2>2. Len(b) + 4 \in 1 .. Len(h) /\ Len(b) + 5 \in 1 .. Len(h) /\ Len(b) + 6 \in 1 .. Len(h)
    BY <1>2, <1>5, <1>10
  <2>3. c[Len(b) + 4] = h[Len(b) + 4] /\ c[Len(b) + 5] = h[Len(b) + 5] /\ c[Len(b) + 6] = h[Len(b) + 6]
    BY <1>3, <2>2, InFirst, Zenon
  <2>4. ~(k.type >= 2)
    <3>1. k.type \in 0 .. 3
      BY DEF Chunks
    <3> QED
      BY <1>10, <3>1
  <2>5. MsgLength(c) = FromThree(c[Len(b) + 4], c[Len(b) + 5], c[Len(b) + 6])
    <3>1. MsgLength(c) = FromThree(c[(Len(b) + 3) + 1], c[(Len(b) + 3) + 2], c[(Len(b) + 3) + 3])
      BY <1>7, <1>8, <2>4, Zenon DEF MsgLength
    <3> QED
      BY <2>1, <3>1, Zenon
  <2>6. MsgLength(c) = Len(k.msg)
    BY <1>5, <1>10, <2>3, <2>5, Zenon
  <2> QED
    BY <1>1, <1>3, <1>8, <1>9, <1>10, <2>6, Zenon
<1>11. CASE ~(k.type < 2)
  <2>1. k.type >= 2
    <3>1. k.type \in 0 .. 3
      BY DEF Chunks
    <3> QED
      BY <1>11, <3>1
  <2>2. MsgLength(c) = -1
    BY <1>8, <2>1, Zenon DEF MsgLength
  <2> QED
    BY <1>1, <1>3, <1>8, <1>9, <1>11, <2>2, Zenon
<1> QED
  BY <1>10, <1>11

\* What a sender wrote is read back, for every message and every chunk stream id: a chunk
\* with a length gives its own message and leaves exactly what follows, unless a single
\* byte follows, which is swallowed; one without takes all that follows for its
\* own (bypass.py:86-134; 123 is the single byte).
THEOREM ReadsBack ==
  ASSUME NEW k \in Chunks, NEW rest \in Seq(Nat)
  PROVE  LET r == RTMPControlPacket(Written(k) \o rest) IN
         /\ r.parsed
         /\ k.type < 2 /\ Len(rest) # 1 => r.payload = k.msg /\ r.remain = rest
         /\ k.type < 2 /\ Len(rest) = 1 => r.payload = k.msg \o rest /\ r.remain = <<>>
         /\ k.type >= 2 => r.payload = k.msg \o rest /\ r.remain = <<>>
<1>1. PICK h \in Seq(Nat) : h = Header(k)
  BY HeaderForm
<1>2. PICK m \in Seq(Nat) : m = k.msg
  BY DEF Chunks
<1>3. PICK p \in Seq(Nat) : p = m \o rest
  BY ConcatType
<1>4. PICK c \in Seq(Nat) : c = h \o p
  BY ConcatType
<1>5. CurrPos(c) = Len(h) /\ MsgLength(c) = IF k.type < 2 THEN Len(m) ELSE -1
  BY <1>1, <1>2, <1>4, ReadsHeader, Zenon
<1>6. Len(c) = Len(h) + Len(p) /\ Len(p) = Len(m) + Len(rest)
  BY <1>3, <1>4, ConcatLen, Zenon
<1>7. /\ Len(h) \in Nat /\ Len(p) \in Nat /\ Len(m) \in Nat /\ Len(rest) \in Nat
      /\ k.type \in 0 .. 3
  BY DEF Chunks
<1>8. SubSeq(c, CurrPos(c) + 1, Len(c)) = p
  BY <1>4, <1>5, DropHead, Zenon
<1>9. ~(Len(c) < CurrPos(c)) /\ Len(c) >= CurrPos(c)
  BY <1>5, <1>6, <1>7
<1>10. PICK r : r = RTMPControlPacket(c)
  OBVIOUS
<1>11. ASSUME k.type < 2, Len(rest) > 1
       PROVE  r.parsed /\ r.payload = m /\ r.remain = rest
  <2>1. MsgLength(c) = Len(m) /\ MsgLength(c) # -1
    BY <1>5, <1>7, <1>11
  <2>2. Splits(Len(p), MsgLength(c)) /\ ~(Len(p) < MsgLength(c))
    <3>1. \A x, y, z \in Nat : x = y + z /\ z > 1 => x > y + 1 /\ ~(x < y)
      OBVIOUS
    <3> QED
      BY <1>6, <1>7, <1>11, <2>1, <3>1, Zenon DEF Splits
  <2>3. SubSeq(p, 1, Len(m)) = m
    BY <1>3, TakeHead, Zenon
  <2>4. SubSeq(p, Len(m) + 1, Len(p)) = rest
    BY <1>3, DropHead, Zenon
  <2>5. r = [parsed |-> TRUE, msg_length |-> MsgLength(c), payload |-> SubSeq(p, 1, MsgLength(c)),
             remain |-> SubSeq(p, MsgLength(c) + 1, Len(p))]
    BY <1>8, <1>9, <1>10, <2>1, <2>2, Zenon DEF RTMPControlPacket
  <2>6. r = [parsed |-> TRUE, msg_length |-> Len(m), payload |-> m, remain |-> rest]
    BY <2>1, <2>3, <2>4, <2>5, Zenon
  <2> QED
    BY <2>6
<1>12. ASSUME k.type < 2, Len(rest) <= 1
       PROVE  r.parsed /\ r.payload = p /\ r.remain = <<>>
  <2>1. MsgLength(c) = Len(m) /\ MsgLength(c) # -1
    BY <1>5, <1>7, <1>12
  <2>2. ~Splits(Len(p), MsgLength(c)) /\ ~(Len(p) < MsgLength(c))
    BY <1>6, <1>7, <1>12, <2>1 DEF Splits
  <2>3. r = [parsed |-> TRUE, msg_length |-> Len(m), payload |-> p, remain |-> <<>>]
    BY <1>8, <1>9, <1>10, <2>1, <2>2 DEF RTMPControlPacket
  <2> QED
    BY <2>3
<1>13. ASSUME k.type >= 2
       PROVE  r.parsed /\ r.payload = p /\ r.remain = <<>>
  <2>1. MsgLength(c) = -1
    BY <1>5, <1>7, <1>13
  <2>2. r = [parsed |-> TRUE, msg_length |-> -1, payload |-> p, remain |-> <<>>]
    BY <1>8, <1>9, <1>10, <2>1 DEF RTMPControlPacket
  <2> QED
    BY <2>2
<1>14. Len(rest) = 0 => p = m /\ rest = <<>>
  BY <1>3, ConcatEmptySeq
<1>15. r = RTMPControlPacket(Written(k) \o rest)
  <2>1. (h \o m) \o rest = h \o (m \o rest)
    BY Associative, Zenon
  <2> QED
    BY <1>1, <1>2, <1>3, <1>4, <1>10, <2>1, Zenon DEF Written
<1>16. /\ k.type < 2 /\ Len(rest) > 1 => ~(Len(rest) = 1) /\ ~(k.type >= 2)
       /\ k.type < 2 => ~(k.type >= 2)
       /\ k.type < 2 \/ k.type >= 2
       /\ Len(rest) > 1 \/ Len(rest) <= 1
  <2>1. \A n \in Nat : (n > 1 => ~(n = 1)) /\ (n > 1 \/ n <= 1)
    OBVIOUS
  <2>2. \A t \in 0 .. 3 : (t < 2 => ~(t >= 2)) /\ (t < 2 \/ t >= 2)
    OBVIOUS
  <2> QED
    BY <1>7, <2>1, <2>2, Zenon
<1>17. Len(rest) <= 1 => Len(rest) = 0 \/ Len(rest) = 1
  <2>1. \A n \in Nat : n <= 1 => n = 0 \/ n = 1
    OBVIOUS
  <2> QED
    BY <1>7, <2>1, Zenon
<1>18. CASE k.type < 2 /\ Len(rest) > 1
  BY <1>2, <1>11, <1>15, <1>16, <1>18, Zenon
<1>19. CASE k.type < 2 /\ Len(rest) <= 1
  BY <1>2, <1>3, <1>12, <1>14, <1>15, <1>16, <1>17, <1>19, Zenon
<1>20. CASE k.type >= 2
  BY <1>2, <1>3, <1>13, <1>15, <1>16, <1>20, Zenon
<1> QED
  BY <1>16, <1>18, <1>19, <1>20, Zenon

LEMMA FromThreeIsNat == \A x, y, z \in Nat : FromThree(x, y, z) \in Nat
  BY DEF FromThree

\* A length that is there, and whose header is, is a number.
LEMMA MsgLengthIsNat ==
  ASSUME NEW content \in Seq(Nat), Len(content) >= 1,
         Len(content) >= CurrPos(content), MsgLength(content) # -1
  PROVE  MsgLength(content) \in Nat
<1>1. Len(content) \in Nat /\ content[1] \in Nat /\ \A i \in 1 .. Len(content) : content[i] \in Nat
  OBVIOUS
<1>2. BasicLength(content) \in {1, 2, 3}
  BY DEF BasicLength
<1>3. content[1] \div 64 \in Nat /\ ~(content[1] \div 64 >= 2)
  BY <1>1 DEF MsgLength
<1>4. content[1] \div 64 = 0 \/ content[1] \div 64 = 1
  <2>1. \A t \in Nat : ~(t >= 2) => t = 0 \/ t = 1
    OBVIOUS
  <2> QED
    BY <1>3, <2>1, Zenon
<1>5. HeaderLength(content[1] \div 64) = 11 \/ HeaderLength(content[1] \div 64) = 7
  BY <1>4 DEF HeaderLength
<1>6. \A b \in {1, 2, 3}, h, len \in Nat :
          (h = 11 \/ h = 7) /\ len >= b + h =>
              (b + 3) + 1 \in 1 .. len /\ (b + 3) + 2 \in 1 .. len /\ (b + 3) + 3 \in 1 .. len
  OBVIOUS
<1>7. HeaderLength(content[1] \div 64) \in Nat
  BY <1>5
<1>8. Len(content) >= BasicLength(content) + HeaderLength(content[1] \div 64)
  BY Zenon DEF CurrPos
<1>9. /\ (BasicLength(content) + 3) + 1 \in 1 .. Len(content)
      /\ (BasicLength(content) + 3) + 2 \in 1 .. Len(content)
      /\ (BasicLength(content) + 3) + 3 \in 1 .. Len(content)
  BY <1>1, <1>2, <1>5, <1>6, <1>7, <1>8, Zenon
<1>10. MsgLength(content) = FromThree(content[(BasicLength(content) + 3) + 1],
                                      content[(BasicLength(content) + 3) + 2],
                                      content[(BasicLength(content) + 3) + 3])
  BY <1>3, Zenon DEF MsgLength
<1>11. /\ content[(BasicLength(content) + 3) + 1] \in Nat
       /\ content[(BasicLength(content) + 3) + 2] \in Nat
       /\ content[(BasicLength(content) + 3) + 3] \in Nat
  BY <1>1, <1>9, Zenon
<1>12. PICK x, y, z : MsgLength(content) = FromThree(x, y, z) /\ x \in Nat /\ y \in Nat /\ z \in Nat
  BY <1>10, <1>11, Zenon
<1> QED
  BY <1>12, FromThreeIsNat, Zenon

\* What a packet leaves is a sequence of bytes.
LEMMA RemainIsBytes ==
  ASSUME NEW content \in Seq(Nat), Len(content) >= 1
  PROVE  RTMPControlPacket(content).remain \in Seq(Nat)
<1>1. PICK n : n = MsgLength(content)
  OBVIOUS
<1>2. PICK at : at = CurrPos(content)
  OBVIOUS
<1>3. PICK p : p = SubSeq(content, at + 1, Len(content))
  OBVIOUS
<1>4. at \in Nat
  BY <1>2 DEF CurrPos, BasicLength, HeaderLength
<1>5. p \in Seq(Nat) /\ Len(p) \in Nat
  <2>1. Len(content) \in Nat
    OBVIOUS
  <2> QED
    BY <1>3, <1>4, <2>1, SubSeqProperties
<1>6. PICK r : r = RTMPControlPacket(content)
  OBVIOUS
<1>7. <<>> \in Seq(Nat) /\ (Len(content) < at \/ Len(content) >= at)
  BY <1>4
<1>8. CASE Len(content) >= at /\ n # -1 /\ Splits(Len(p), n)
  <2>1. n \in Nat
    BY <1>1, <1>2, <1>8, MsgLengthIsNat, Zenon
  <2>2. ~(Len(content) < at) /\ ~(Len(p) < n)
    BY <1>4, <1>5, <1>8, <2>1 DEF Splits
  <2>3. r = [parsed |-> TRUE, msg_length |-> n, payload |-> SubSeq(p, 1, n),
             remain |-> SubSeq(p, n + 1, Len(p))]
    BY <1>1, <1>2, <1>3, <1>6, <1>8, <2>2, Zenon DEF RTMPControlPacket
  <2>4. r.remain = SubSeq(p, n + 1, Len(p))
    BY <2>3
  <2>5. SubSeq(p, n + 1, Len(p)) \in Seq(Nat)
    BY <1>5, <2>1, SubSeqProperties
  <2> QED
    BY <1>6, <2>4, <2>5, Zenon
<1>9. CASE Len(content) < at \/ n = -1 \/ ~Splits(Len(p), n)
  <2>1. Len(content) < at => ~(Len(content) >= at)
    BY <1>4
  <2>2. r = Failed \/ r = [parsed |-> TRUE, msg_length |-> n, payload |-> p, remain |-> <<>>]
    BY <1>1, <1>2, <1>3, <1>6, <1>7, <1>9, <2>1, Zenon DEF RTMPControlPacket
  <2>3. r.remain = <<>>
    BY <2>2 DEF Failed
  <2> QED
    BY <1>6, <1>7, <2>3, Zenon
<1> QED
  BY <1>7, <1>8, <1>9, Zenon

\* The parsing loop ends: what a packet leaves for the next round is always shorter than
\* what it was parsed from, whatever the bytes are (bypass.py:365-373).
THEOREM RemainIsShorter ==
  ASSUME NEW content \in Seq(Nat), Len(content) >= 1
  PROVE  Len(RTMPControlPacket(content).remain) < Len(content)
<1>1. PICK r : r = RTMPControlPacket(content)
  OBVIOUS
<1>2. PICK n : n = MsgLength(content)
  OBVIOUS
<1>3. PICK at : at = CurrPos(content)
  OBVIOUS
<1>4. PICK p : p = SubSeq(content, at + 1, Len(content))
  OBVIOUS
<1>5. Len(content) \in Nat /\ content[1] \in Nat /\ \A i \in 1 .. Len(content) : content[i] \in Nat
  OBVIOUS
<1>6. BasicLength(content) \in {1, 2, 3} /\ HeaderLength(content[1] \div 64) \in {0, 3, 7, 11}
  BY DEF BasicLength, HeaderLength
<1>7. at \in Nat /\ at >= 1
  BY <1>3, <1>6 DEF CurrPos
<1>8. Len(<<>>) = 0 /\ 0 < Len(content)
  BY <1>5
<1>9. p \in Seq(Nat) /\ Len(p) \in Nat /\ Len(p) < Len(content)
  <2>1. p \in Seq(Nat) /\ Len(p) = IF at + 1 <= Len(content) THEN Len(content) - (at + 1) + 1 ELSE 0
    BY <1>4, <1>5, <1>7, SubSeqProperties
  <2> QED
    BY <1>5, <1>7, <2>1
<1>10. Failed.remain = <<>>
  BY DEF Failed
<1>11. Len(content) < at \/ Len(content) >= at
  BY <1>5, <1>7
<1>12. CASE Len(content) < at
  <2>1. ~(Len(content) >= at)
    BY <1>5, <1>7, <1>12
  <2>2. r = Failed
    BY <1>1, <1>3, <1>12, <2>1, Zenon DEF RTMPControlPacket
  <2> QED
    BY <1>1, <1>8, <1>10, <2>2, Zenon
<1>13. ASSUME Len(content) >= at, n # -1
       PROVE  n \in Nat
  BY <1>2, <1>3, <1>13, MsgLengthIsNat, Zenon
<1>14. CASE Len(content) >= at /\ n # -1 /\ Splits(Len(p), n)
  <2>1. n \in Nat
    BY <1>13, <1>14
  <2>2. Len(p) > n + 1
    BY <1>14, Zenon DEF Splits
  <2>3. ~(Len(content) < at) /\ ~(Len(p) < n)
    BY <1>5, <1>7, <1>9, <1>14, <2>1, <2>2
  <2>4. r = [parsed |-> TRUE, msg_length |-> n, payload |-> SubSeq(p, 1, n),
             remain |-> SubSeq(p, n + 1, Len(p))]
    BY <1>1, <1>2, <1>3, <1>4, <1>14, <2>3, Zenon DEF RTMPControlPacket
  <2>5. r.remain = SubSeq(p, n + 1, Len(p))
    BY <2>4
  <2>6. Len(SubSeq(p, n + 1, Len(p))) = IF n + 1 <= Len(p) THEN Len(p) - (n + 1) + 1 ELSE 0
    BY <1>9, <2>1, SubSeqProperties
  <2>7. Len(SubSeq(p, n + 1, Len(p))) < Len(content)
    BY <1>5, <1>9, <2>1, <2>6
  <2> QED
    BY <1>1, <2>5, <2>7, Zenon
<1>15. CASE Len(content) >= at /\ (n = -1 \/ (n # -1 /\ ~Splits(Len(p), n)))
  <2>1. ~(Len(content) < at)
    BY <1>5, <1>7, <1>15
  <2>2. r = Failed \/ r = [parsed |-> TRUE, msg_length |-> n, payload |-> p, remain |-> <<>>]
    BY <1>1, <1>2, <1>3, <1>4, <1>15, <2>1, Zenon DEF RTMPControlPacket
  <2>3. r.remain = <<>>
    BY <1>10, <2>2
  <2> QED
    BY <1>1, <1>8, <2>3, Zenon
<1> QED
  BY <1>11, <1>12, <1>14, <1>15, Zenon

(***************************************************************************)
(* Induction, on sets of numbers.                                          *)
(***************************************************************************)
LEMMA Least ==
  ASSUME NEW T \in SUBSET Nat, T # {}
  PROVE  \E n \in T : \A m \in T : n <= m
<1>1. IsWellFoundedOn({ss \in Nat \X Nat : ss[1] < ss[2]}, Nat)
  BY NatLessThanWellFounded DEF OpToRel
<1>2. PICK n \in T : \A m \in T : ~ (<<m, n>> \in {ss \in Nat \X Nat : ss[1] < ss[2]})
  BY <1>1, WFMin
<1>3. ASSUME NEW m \in T PROVE n <= m
  <2>1. m \in Nat /\ n \in Nat
    OBVIOUS
  <2>2. ~ (<<m, n>> \in {ss \in Nat \X Nat : ss[1] < ss[2]})
    BY <1>2
  <2>3. ~ (m < n)
    BY <2>1, <2>2
  <2> QED
    BY <2>1, <2>3
<1> QED
  BY <1>3

LEMMA Upwards ==
  ASSUME NEW P \in SUBSET Nat, 0 \in P, \A n \in P : n + 1 \in P
  PROVE  P = Nat
<1> SUFFICES ASSUME Nat \ P # {} PROVE FALSE
  OBVIOUS
<1>1. PICK n \in Nat \ P : \A m \in Nat \ P : n <= m
  BY Least
<1>2. n # 0 /\ n - 1 \in Nat
  BY <1>1
<1>3. n - 1 \in P
  BY <1>1, <1>2
<1>4. (n - 1) + 1 = n
  BY <1>2
<1> QED
  BY <1>3, <1>4

\* From the first to the last of finitely many numbers, and from the last to the first.
LEMMA UpTo ==
  ASSUME NEW k \in Nat, NEW P, 0 \in P, \A n \in 0 .. k - 1 : n \in P => n + 1 \in P
  PROVE  \A n \in 0 .. k : n \in P
<1> DEFINE Q == {n \in Nat : n <= k => n \in P}
<1>1. 0 \in Q
  OBVIOUS
<1>2. \A n \in Q : n + 1 \in Q
  OBVIOUS
<1> HIDE DEF Q
<1>3. Q \in SUBSET Nat
  BY DEF Q
<1>4. Q = Nat
  BY <1>1, <1>2, <1>3, Upwards
<1> QED
  BY <1>4 DEF Q

LEMMA DownFrom ==
  ASSUME NEW k \in Nat, NEW P, k \in P, \A n \in 0 .. k - 1 : n + 1 \in P => n \in P
  PROVE  \A n \in 0 .. k : n \in P
<1> DEFINE Q == {n \in Nat : n <= k => k - n \in P}
<1>1. 0 \in Q
  OBVIOUS
<1>2. ASSUME NEW n \in Q PROVE n + 1 \in Q
  <2>1. CASE n + 1 <= k
    <3>1. k - (n + 1) \in 0 .. k - 1 /\ (k - (n + 1)) + 1 = k - n
      BY <2>1
    <3> QED
      BY <2>1, <3>1
  <2> QED
    BY <2>1
<1> HIDE DEF Q
<1>3. Q \in SUBSET Nat
  BY DEF Q
<1>4. Q = Nat
  BY <1>1, <1>2, <1>3, Upwards
<1>5. ASSUME NEW n \in 0 .. k PROVE n \in P
  <2>1. k - n \in Nat /\ k - n <= k /\ k - (k - n) = n
    OBVIOUS
  <2> QED
    BY <1>4, <2>1 DEF Q
<1> QED
  BY <1>5

(***************************************************************************)
(* Concatenation, by name: the provers then take it as it is.              *)
(***************************************************************************)
Cat(s, t) == s \o t

LEMMA CatType == \A s, t \in Seq(Nat) : Cat(s, t) \in Seq(Nat)
  BY DEF Cat

LEMMA CatLen == \A s, t \in Seq(Nat) : Len(Cat(s, t)) = Len(s) + Len(t)
  BY DEF Cat

LEMMA CatEmpty == \A s \in Seq(Nat) : Cat(s, <<>>) = s /\ Cat(<<>>, s) = s
  BY ConcatEmptySeq DEF Cat

LEMMA CatAssoc == \A s, t, u \in Seq(Nat) : Cat(Cat(s, t), u) = Cat(s, Cat(t, u))
  BY Associative, Zenon DEF Cat

LEMMA CatHead == \A s, t \in Seq(Nat) : SubSeq(Cat(s, t), 1, Len(s)) = s
  BY TakeHead, Zenon DEF Cat

LEMMA CatTail == \A s, t \in Seq(Nat) : SubSeq(Cat(s, t), Len(s) + 1, Len(Cat(s, t))) = t
  BY DropHead, Zenon DEF Cat

LEMMA CatCancel ==
  ASSUME NEW s \in Seq(Nat), NEW t \in Seq(Nat), NEW u \in Seq(Nat), Cat(s, t) = Cat(s, u)
  PROVE  t = u
  BY CatTail, Zenon

LEMMA CatFirst == \A s, t \in Seq(Nat) : \A i \in 1 .. Len(s) : Cat(s, t)[i] = s[i]
  BY InFirst, Zenon DEF Cat

\* Every sequence is what it starts with and the rest.
LEMMA CatSplit ==
  ASSUME NEW s \in Seq(Nat), NEW n \in 0 .. Len(s)
  PROVE  /\ SubSeq(s, 1, n) \in Seq(Nat) /\ Len(SubSeq(s, 1, n)) = n
         /\ SubSeq(s, n + 1, Len(s)) \in Seq(Nat)
         /\ s = Cat(SubSeq(s, 1, n), SubSeq(s, n + 1, Len(s)))
<1> DEFINE a == SubSeq(s, 1, n)
           b == SubSeq(s, n + 1, Len(s))
<1>1. a \in Seq(Nat) /\ Len(a) = n /\ \A i \in 1 .. n : a[i] = s[i]
  BY SubSeqProperties
<1>2. b \in Seq(Nat) /\ Len(b) = Len(s) - n /\ \A i \in 1 .. Len(s) - n : b[i] = s[n + i]
  BY SubSeqProperties
<1> HIDE DEF a, b
<1>3. /\ a \o b \in Seq(Nat) /\ Len(a \o b) = Len(a) + Len(b)
      /\ \A i \in 1 .. Len(a) + Len(b) : (a \o b)[i] = IF i <= Len(a) THEN a[i] ELSE b[i - Len(a)]
  BY <1>1, <1>2, ConcatProperties
<1>4. ASSUME NEW i \in 1 .. Len(s) PROVE (a \o b)[i] = s[i]
  <2>1. i \in 1 .. Len(a) + Len(b) /\ Len(a) = n
    BY <1>1, <1>2
  <2>2. CASE i <= n
    <3>1. i \in 1 .. n /\ (a \o b)[i] = a[i]
      BY <1>3, <2>1, <2>2
    <3> QED
      BY <1>1, <3>1
  <2>3. CASE ~(i <= n)
    <3>1. PICK m : m = i - n
      OBVIOUS
    <3>2. m \in 1 .. Len(s) - n /\ n + m = i /\ (a \o b)[i] = b[m]
      BY <1>3, <2>1, <2>3, <3>1
    <3> QED
      BY <1>2, <3>2
  <2> QED
    BY <2>2, <2>3
<1>5. PICK c : c = a \o b
  OBVIOUS
<1>6. c \in Seq(Nat) /\ Len(c) = Len(a) + Len(b) /\ \A i \in 1 .. Len(s) : c[i] = s[i]
  BY <1>3, <1>4, <1>5, Zenon
<1>7. s = c
  <2>1. Len(c) = Len(s)
    BY <1>1, <1>2, <1>6
  <2> QED
    BY <1>6, <2>1, SeqEqual
<1> QED
  BY <1>1, <1>2, <1>5, <1>7 DEF a, b, Cat

LEMMA StartOfCat ==
  ASSUME NEW s \in Seq(Nat), NEW t \in Seq(Nat), NEW n \in 0 .. Len(s)
  PROVE  SubSeq(Cat(s, t), 1, n) = SubSeq(s, 1, n)
<1>1. PICK a : a = SubSeq(s, 1, n)
  OBVIOUS
<1>2. PICK b : b = SubSeq(s, n + 1, Len(s))
  OBVIOUS
<1>3. a \in Seq(Nat) /\ Len(a) = n /\ b \in Seq(Nat) /\ s = Cat(a, b)
  BY <1>1, <1>2, CatSplit
<1>4. Cat(s, t) = Cat(a, Cat(b, t)) /\ Cat(b, t) \in Seq(Nat)
  <2>1. Cat(Cat(a, b), t) = Cat(a, Cat(b, t)) /\ Cat(b, t) \in Seq(Nat)
    BY <1>3, CatAssoc, CatType
  <2> QED
    BY <1>3, <2>1, Zenon
<1>5. SubSeq(Cat(s, t), 1, Len(a)) = a
  BY <1>3, <1>4, CatHead, Zenon
<1> QED
  BY <1>1, <1>3, <1>5, Zenon

LEMMA RangeOfCat ==
  ASSUME NEW S, NEW s \in Seq(S), NEW t \in Seq(S)
  PROVE  Range(s \o t) = Range(s) \cup Range(t)
<1>1. /\ s \o t \in Seq(S) /\ Len(s \o t) = Len(s) + Len(t)
      /\ \A i \in 1 .. Len(s) + Len(t) : (s \o t)[i] = IF i <= Len(s) THEN s[i] ELSE t[i - Len(s)]
  BY ConcatProperties
<1>2. /\ DOMAIN s = 1 .. Len(s) /\ DOMAIN t = 1 .. Len(t) /\ DOMAIN (s \o t) = 1 .. Len(s) + Len(t)
      /\ Len(s) \in Nat /\ Len(t) \in Nat
  BY <1>1
<1> DEFINE u == s \o t
<1> HIDE DEF u
<1>3. ASSUME NEW i \in DOMAIN u PROVE u[i] \in Range(s) \cup Range(t)
  <2>1. CASE i <= Len(s)
    <3>1. u[i] = s[i] /\ i \in DOMAIN s
      BY <1>1, <1>2, <2>1 DEF u
    <3> QED
      BY <3>1 DEF Range
  <2>2. CASE i > Len(s)
    <3>1. u[i] = t[i - Len(s)] /\ i - Len(s) \in DOMAIN t
      BY <1>1, <1>2, <2>2 DEF u
    <3> QED
      BY <3>1 DEF Range
  <2> QED
    BY <1>2, <2>1, <2>2 DEF u
<1>4. ASSUME NEW i \in DOMAIN s PROVE s[i] \in Range(u)
  <2>1. i \in DOMAIN u /\ u[i] = s[i]
    BY <1>1, <1>2 DEF u
  <2> QED
    BY <2>1 DEF Range
<1>5. ASSUME NEW i \in DOMAIN t PROVE t[i] \in Range(u)
  <2>1. i + Len(s) \in DOMAIN u /\ u[i + Len(s)] = t[i]
    BY <1>1, <1>2 DEF u
  <2> QED
    BY <2>1 DEF Range
<1> QED
  BY <1>3, <1>4, <1>5 DEF Range, u

LEMMA CatRange == \A s, t \in Seq(Nat) : Range(Cat(s, t)) = Range(s) \cup Range(t)
  BY RangeOfCat, Zenon DEF Cat

(***************************************************************************)
(* The loop: what it reads from each place on, whatever the bytes are.     *)
(***************************************************************************)
Suffix(content, i) == SubSeq(content, i, Len(content))

\* The packet read at i, and those read behind it.
Round(content, i, f) ==
    IF i > Len(content) THEN <<>>
    ELSE LET r == RTMPControlPacket(Suffix(content, i))
         IN  <<r>> \o (IF r.parsed THEN f[Len(content) + 1 - Len(r.remain)] ELSE <<>>)

Read(content) == {RTMPControlPacket(Suffix(content, i)) : i \in 1 .. Len(content)}

\* f is what is read from each place on.
Loops(content, f) ==
    \A i \in 1 .. Len(content) + 1 :
        f[i] \in Seq(Read(content)) /\ f[i] = Round(content, i, f)

LEMMA PacketsIsALoop ==
  ASSUME NEW content
  PROVE  Packets(content) = (CHOOSE f : f = [i \in 1 .. Len(content) + 1 |-> Round(content, i, f)])[1]
  BY Zenon DEF Packets, Round, Suffix

LEMMA SuffixForm ==
  ASSUME NEW content \in Seq(Nat), NEW i \in 1 .. Len(content)
  PROVE  Suffix(content, i) \in Seq(Nat) /\ Len(Suffix(content, i)) = Len(content) + 1 - i
  BY SubSeqProperties DEF Suffix

\* The next round starts further on.
LEMMA NextRound ==
  ASSUME NEW content \in Seq(Nat), NEW i \in 1 .. Len(content)
  PROVE  Len(content) + 1 - Len(RTMPControlPacket(Suffix(content, i)).remain)
             \in i + 1 .. Len(content) + 1
<1>1. PICK s \in Seq(Nat) : s = Suffix(content, i) /\ Len(s) = Len(content) + 1 - i
  BY SuffixForm
<1>2. Len(content) \in Nat /\ Len(s) >= 1
  BY <1>1
<1>3. PICK q : q = RTMPControlPacket(s).remain
  OBVIOUS
<1>4. q \in Seq(Nat) /\ Len(q) < Len(s)
  BY <1>2, <1>3, RemainIsBytes, RemainIsShorter, Zenon
<1>5. Len(q) \in Nat
  BY <1>4
<1>6. Len(content) + 1 - Len(q) \in i + 1 .. Len(content) + 1
  BY <1>1, <1>2, <1>4, <1>5
<1> QED
  BY <1>1, <1>3, <1>6, Zenon

LEMMA RoundLooksAhead ==
  ASSUME NEW content \in Seq(Nat), NEW i \in 1 .. Len(content) + 1, NEW f, NEW g,
         \A m \in i + 1 .. Len(content) + 1 : f[m] = g[m]
  PROVE  Round(content, i, f) = Round(content, i, g)
<1>1. CASE i > Len(content)
  BY <1>1 DEF Round
<1>2. CASE ~(i > Len(content))
  <2>1. i \in 1 .. Len(content)
    BY <1>2
  <2>2. PICK n : n = Len(content) + 1 - Len(RTMPControlPacket(Suffix(content, i)).remain)
    OBVIOUS
  <2>3. f[n] = g[n]
    BY <2>1, <2>2, NextRound, Zenon
  <2> QED
    BY <2>2, <2>3, Zenon DEF Round
<1> QED
  BY <1>1, <1>2

\* The loop has a meaning: from the end backwards, each round is given by later ones.
LEMMA LoopExists ==
  ASSUME NEW content \in Seq(Nat)
  PROVE  \E f : f = [i \in 1 .. Len(content) + 1 |-> Round(content, i, f)]
<1> DEFINE L == Len(content)
           P == {n \in 1 .. L + 1 : \E g : \A i \in n .. L + 1 : g[i] = Round(content, i, g)}
           Q == {n \in 0 .. L : n + 1 \in P}
<1>1. L \in Nat
  OBVIOUS
<1>2. L \in Q
  <2>1. Round(content, L + 1, [i \in {L + 1} |-> <<>>]) = <<>>
    BY <1>1 DEF Round
  <2>2. \A i \in L + 1 .. L + 1 : [m \in {L + 1} |-> <<>>][i] = Round(content, i, [m \in {L + 1} |-> <<>>])
    BY <1>1, <2>1
  <2> QED
    BY <1>1, <2>2
<1>3. ASSUME NEW n \in 0 .. L - 1, n + 1 \in Q PROVE n \in Q
  <2>1. n + 1 \in 1 .. L /\ n + 2 \in 1 .. L + 1
    BY <1>1
  <2>2. PICK g : \A i \in n + 2 .. L + 1 : g[i] = Round(content, i, g)
    BY <1>1, <1>3
  <2> DEFINE h == [i \in 1 .. L + 1 |-> IF i = n + 1 THEN Round(content, n + 1, g) ELSE g[i]]
  <2>3. \A i \in n + 2 .. L + 1 : h[i] = g[i]
    BY <1>1, <2>1
  <2>4. h[n + 1] = Round(content, n + 1, g)
    BY <1>1, <2>1
  <2> HIDE DEF h
  <2>5. ASSUME NEW i \in n + 1 .. L + 1 PROVE Round(content, i, g) = Round(content, i, h)
    <3>1. i \in 1 .. L + 1 /\ \A m \in i + 1 .. L + 1 : m \in n + 2 .. L + 1
      BY <1>1, <2>1
    <3>2. \A m \in i + 1 .. L + 1 : g[m] = h[m]
      BY <2>3, <3>1
    <3> QED
      BY <3>1, <3>2, RoundLooksAhead
  <2>6. ASSUME NEW i \in n + 1 .. L + 1 PROVE h[i] = Round(content, i, h)
    <3>1. CASE i = n + 1
      BY <2>4, <2>5, <3>1
    <3>2. CASE i \in n + 2 .. L + 1
      BY <2>2, <2>3, <2>5, <3>2
    <3>3. i = n + 1 \/ i \in n + 2 .. L + 1
      BY <1>1, <2>1
    <3> QED
      BY <3>1, <3>2, <3>3
  <2> QED
    BY <1>1, <2>1, <2>6
<1> HIDE DEF Q
<1>4. 0 \in Q
  BY <1>1, <1>2, <1>3, DownFrom
<1>5. PICK g : \A i \in 1 .. L + 1 : g[i] = Round(content, i, g)
  BY <1>1, <1>4 DEF Q
<1> DEFINE f == [i \in 1 .. L + 1 |-> g[i]]
<1>6. \A i \in 1 .. L + 1 : f[i] = g[i]
  OBVIOUS
<1> HIDE DEF f
<1>7. ASSUME NEW i \in 1 .. L + 1 PROVE g[i] = Round(content, i, f)
  <2>1. \A m \in i + 1 .. L + 1 : f[m] = g[m]
    BY <1>1, <1>6
  <2>2. Round(content, i, f) = Round(content, i, g)
    BY <2>1, RoundLooksAhead
  <2> QED
    BY <1>5, <2>2
<1>8. f = [i \in 1 .. L + 1 |-> Round(content, i, f)]
  BY <1>7 DEF f
<1> QED
  BY <1>8

LEMMA RoundIsRead ==
  ASSUME NEW content \in Seq(Nat), NEW i \in 1 .. Len(content) + 1, NEW f,
         \A m \in i + 1 .. Len(content) + 1 : f[m] \in Seq(Read(content))
  PROVE  Round(content, i, f) \in Seq(Read(content))
<1>1. CASE i > Len(content)
  BY <1>1 DEF Round
<1>2. CASE ~(i > Len(content))
  <2>1. i \in 1 .. Len(content)
    BY <1>2
  <2>2. PICK r : r = RTMPControlPacket(Suffix(content, i))
    OBVIOUS
  <2>3. r \in Read(content)
    BY <2>1, <2>2 DEF Read
  <2>4. PICK q : q = IF r.parsed THEN f[Len(content) + 1 - Len(r.remain)] ELSE <<>>
    OBVIOUS
  <2>5. f[Len(content) + 1 - Len(r.remain)] \in Seq(Read(content))
    BY <2>1, <2>2, NextRound, Zenon
  <2>6. q \in Seq(Read(content))
    <3>1. <<>> \in Seq(Read(content))
      OBVIOUS
    <3> QED
      BY <2>4, <2>5, <3>1, Zenon
  <2>7. <<r>> \o q \in Seq(Read(content))
    BY <2>3, <2>6
  <2>8. Round(content, i, f) = <<r>> \o q
    BY <1>2, <2>2, <2>4, Zenon DEF Round
  <2> QED
    BY <2>7, <2>8
<1> QED
  BY <1>1, <1>2

LEMMA PacketsLoop ==
  ASSUME NEW content \in Seq(Nat)
  PROVE  \E f : Loops(content, f) /\ Packets(content) = f[1]
<1> DEFINE L == Len(content)
           f == CHOOSE f : f = [i \in 1 .. L + 1 |-> Round(content, i, f)]
           P == {n \in 0 .. L : \A i \in n + 1 .. L + 1 : f[i] \in Seq(Read(content))}
<1>1. L \in Nat
  OBVIOUS
<1>2. f = [i \in 1 .. L + 1 |-> Round(content, i, f)]
  BY LoopExists, Zenon
<1>3. Packets(content) = f[1]
  BY PacketsIsALoop, Zenon
<1> HIDE DEF f
<1>4. \A i \in 1 .. L + 1 : f[i] = Round(content, i, f)
  BY <1>2
<1>5. L \in P
  <2>1. \A m \in (L + 1) + 1 .. L + 1 : f[m] \in Seq(Read(content))
    BY <1>1
  <2>2. L + 1 \in 1 .. L + 1
    BY <1>1
  <2>3. f[L + 1] \in Seq(Read(content))
    BY <1>4, <2>1, <2>2, RoundIsRead
  <2> QED
    BY <1>1, <2>3
<1>6. ASSUME NEW n \in 0 .. L - 1, n + 1 \in P PROVE n \in P
  <2>1. n + 1 \in 1 .. L + 1 /\ \A m \in (n + 1) + 1 .. L + 1 : f[m] \in Seq(Read(content))
    BY <1>1, <1>6
  <2>2. f[n + 1] \in Seq(Read(content))
    BY <1>4, <2>1, RoundIsRead
  <2> QED
    BY <1>1, <2>1, <2>2
<1> HIDE DEF P
<1>7. 0 \in P
  BY <1>1, <1>5, <1>6, DownFrom
<1>8. \A i \in 1 .. L + 1 : f[i] \in Seq(Read(content))
  BY <1>7 DEF P
<1> QED
  BY <1>3, <1>4, <1>8 DEF Loops

LEMMA LoopEnds ==
  ASSUME NEW content \in Seq(Nat), NEW f, Loops(content, f)
  PROVE  Range(f[Len(content) + 1]) = {}
<1>1. Len(content) + 1 \in 1 .. Len(content) + 1 /\ Len(content) + 1 > Len(content)
  OBVIOUS
<1>2. f[Len(content) + 1] = <<>>
  BY <1>1 DEF Loops, Round
<1>3. DOMAIN <<>> = {}
  OBVIOUS
<1> QED
  BY <1>2, <1>3 DEF Range

\* The packets from some place on: the one there, and those after what it leaves.
Behind(content, f, r) == IF r.parsed THEN Range(f[Len(content) + 1 - Len(r.remain)]) ELSE {}

ReadFrom(f, head) == Range(f[Len(head) + 1])

LEMMA LoopRound ==
  ASSUME NEW content \in Seq(Nat), NEW f, NEW head \in Seq(Nat), NEW tail \in Seq(Nat), NEW r,
         Loops(content, f), content = Cat(head, tail), tail # <<>>, r = RTMPControlPacket(tail)
  PROVE  ReadFrom(f, head) = {r} \cup Behind(content, f, r)
<1>0. Len(tail) >= 1
  OBVIOUS
<1>1. Len(content) = Len(head) + Len(tail) /\ Len(head) \in Nat /\ Len(tail) \in Nat
  BY CatLen
<1>2. PICK i : i = Len(head) + 1
  OBVIOUS
<1>3. i \in 1 .. Len(content) /\ i \in 1 .. Len(content) + 1 /\ ~(i > Len(content))
  BY <1>1, <1>2
<1>4. Suffix(content, i) = tail
  BY <1>2, CatTail, Zenon DEF Suffix
<1>5. PICK q : q = IF r.parsed THEN f[Len(content) + 1 - Len(r.remain)] ELSE <<>>
  OBVIOUS
<1>6. f[i] = <<r>> \o q
  <2>1. f[i] = Round(content, i, f)
    BY <1>3 DEF Loops
  <2> QED
    BY <1>3, <1>4, <1>5, <2>1, Zenon DEF Round
<1>7. r \in Read(content)
  BY <1>3, <1>4 DEF Read
<1>8. q \in Seq(Read(content))
  <2>1. PICK n : n = Len(content) + 1 - Len(r.remain)
    OBVIOUS
  <2>2. n \in i + 1 .. Len(content) + 1
    BY <1>3, <1>4, <2>1, NextRound, Zenon
  <2>3. n \in 1 .. Len(content) + 1
    BY <1>1, <1>3, <2>2
  <2>4. f[n] \in Seq(Read(content)) /\ <<>> \in Seq(Read(content))
    BY <2>3 DEF Loops
  <2> QED
    BY <1>5, <2>1, <2>4, Zenon
<1>9. Range(<<r>>) = {r} /\ <<r>> \in Seq(Read(content))
  <2>1. DOMAIN <<r>> = {1} /\ <<r>>[1] = r
    OBVIOUS
  <2> QED
    BY <1>7, <2>1 DEF Range
<1>10. Range(<<r>> \o q) = {r} \cup Range(q)
  <2>1. PICK o : o = <<r>>
    OBVIOUS
  <2>2. o \in Seq(Read(content)) /\ q \in Seq(Read(content))
    BY <1>8, <1>9, <2>1
  <2>3. Range(o \o q) = Range(o) \cup Range(q)
    <3>1. PICK S : S = Read(content)
      OBVIOUS
    <3>2. o \in Seq(S) /\ q \in Seq(S)
      BY <2>2, <3>1
    <3> QED
      BY <3>2, RangeOfCat
  <2> QED
    BY <1>9, <2>1, <2>3, Zenon
<1>11. ~r.parsed => Range(q) = {}
  <2>1. ~r.parsed => q = <<>>
    BY <1>5
  <2>2. DOMAIN <<>> = {}
    OBVIOUS
  <2> QED
    BY <2>1, <2>2 DEF Range
<1> QED
  BY <1>2, <1>5, <1>6, <1>10, <1>11, Zenon DEF Behind, ReadFrom

\* The same of the content that is made of the two.
RoundAt(f, head, tail) ==
    \A r : r = RTMPControlPacket(tail) =>
        ReadFrom(f, head) = {r} \cup Behind(Cat(head, tail), f, r)

LEMMA RoundOf ==
  ASSUME NEW f, NEW head \in Seq(Nat), NEW tail \in Seq(Nat),
         Loops(Cat(head, tail), f), tail # <<>>
  PROVE  RoundAt(f, head, tail)
<1>1. PICK content : content = Cat(head, tail)
  OBVIOUS
<1>2. content \in Seq(Nat) /\ Loops(content, f)
  BY <1>1, CatType, Zenon
<1>3. ASSUME NEW r, r = RTMPControlPacket(tail)
      PROVE  ReadFrom(f, head) = {r} \cup Behind(content, f, r)
  BY <1>1, <1>2, <1>3, LoopRound
<1> QED
  BY <1>1, <1>3, Zenon DEF RoundAt

(***************************************************************************)
(* What a packet says.                                                     *)
(***************************************************************************)
\* The keywords among some bytes.
Words(b) ==
    {m \in Kinds : (m = "play_req" /\ PLAY \in Range(b)) \/ (m = "play_start" /\ START \in Range(b))}

LEMMA WordsOfCat == \A s, t \in Seq(Nat) : Words(Cat(s, t)) = Words(s) \cup Words(t)
  BY CatRange DEF Words

LEMMA WordsOfNone == Words(<<>>) = {}
<1>1. Range(<<>>) = {}
  <2>1. DOMAIN <<>> = {}
    OBVIOUS
  <2> QED
    BY <2>1 DEF Range
<1> QED
  BY <1>1 DEF Words

LEMMA LengthOfPacket ==
  ASSUME NEW content \in Seq(Nat), RTMPControlPacket(content).parsed
  PROVE  RTMPControlPacket(content).msg_length = MsgLength(content)
<1>1. PICK n : n = MsgLength(content)
  OBVIOUS
<1>2. PICK r : r = RTMPControlPacket(content)
  OBVIOUS
<1>3. \/ r = Failed
      \/ \E p, q : r = [parsed |-> TRUE, msg_length |-> n, payload |-> p, remain |-> q]
  <2>1. PICK at : at = CurrPos(content)
    OBVIOUS
  <2>2. PICK p : p = SubSeq(content, at + 1, Len(content))
    OBVIOUS
  <2>3. \/ r = Failed
        \/ r = [parsed |-> TRUE, msg_length |-> n, payload |-> p, remain |-> <<>>]
        \/ r = [parsed |-> TRUE, msg_length |-> n, payload |-> SubSeq(p, 1, n),
                remain |-> SubSeq(p, n + 1, Len(p))]
    <3>1. at \in Nat /\ Len(content) \in Nat
      BY <2>1 DEF CurrPos, BasicLength, HeaderLength
    <3>2. \/ Len(content) < at /\ ~(Len(content) >= at)
          \/ Len(content) >= at /\ ~(Len(content) < at)
      BY <3>1
    <3>3. CASE Len(content) < at
      BY <1>1, <1>2, <2>1, <2>2, <3>2, <3>3, Zenon DEF RTMPControlPacket
    <3>4. CASE Len(content) >= at /\ n # -1 /\ Splits(Len(p), n) /\ ~(Len(p) < n)
      BY <1>1, <1>2, <2>1, <2>2, <3>2, <3>4, Zenon DEF RTMPControlPacket
    <3>5. CASE Len(content) >= at /\ (n = -1 \/ ~Splits(Len(p), n))
      BY <1>1, <1>2, <2>1, <2>2, <3>2, <3>5, Zenon DEF RTMPControlPacket
    <3>6. CASE Len(content) >= at /\ n # -1 /\ Splits(Len(p), n) /\ Len(p) < n
      <4>1. Len(content) >= 1
        BY <2>1, <3>1, <3>6 DEF CurrPos, BasicLength, HeaderLength
      <4>2. n \in Nat
        BY <1>1, <2>1, <3>6, <4>1, MsgLengthIsNat, Zenon
      <4>3. Len(p) \in Nat
        BY <2>2, <3>1, SubSeqProperties
      <4> QED
        BY <3>6, <4>2, <4>3 DEF Splits
    <3> QED
      BY <3>2, <3>3, <3>4, <3>5, <3>6, Zenon
  <2> QED
    BY <2>3, Zenon
<1>4. ~Failed.parsed
  BY DEF Failed
<1>5. r.msg_length = n
  BY <1>2, <1>3, <1>4
<1> QED
  BY <1>1, <1>2, <1>5

\* The packet of a chunk says what the chunk says and, where it takes what follows
\* for its own, the keywords of that.
LEMMA PacketSays ==
  ASSUME NEW k \in Chunks, NEW rest \in Seq(Nat), NEW r, r = RTMPControlPacket(Cat(Written(k), rest))
  PROVE  /\ r.parsed
         /\ k.type < 2 /\ Len(rest) # 1 => Is(r) = Says(k) /\ r.remain = rest
         /\ k.type >= 2 \/ Len(rest) = 1 => Is(r) = Says(k) \cup Words(rest) /\ r.remain = <<>>
<1>1. PICK m \in Seq(Nat) : m = k.msg
  BY DEF Chunks
<1>2. k.type \in 0 .. 3 /\ Len(m) \in Nat
  BY DEF Chunks
<1>3. /\ r.parsed
      /\ k.type < 2 /\ Len(rest) # 1 => r.payload = m /\ r.remain = rest
      /\ k.type < 2 /\ Len(rest) = 1 => r.payload = Cat(m, rest) /\ r.remain = <<>>
      /\ k.type >= 2 => r.payload = Cat(m, rest) /\ r.remain = <<>>
  BY <1>1, ReadsBack, Zenon DEF Cat
<1>4. r.msg_length = IF k.type < 2 THEN Len(m) ELSE -1
  <2>2. Header(k) \in Seq(Nat)
    BY HeaderForm
  <2>5. Cat(Written(k), rest) \in Seq(Nat)
    <3>1. Written(k) \in Seq(Nat)
      BY <1>1, <2>2, ConcatType, Zenon DEF Written
    <3> QED
      BY <3>1, CatType, Zenon
  <2>1. r.msg_length = MsgLength(Cat(Written(k), rest))
    BY <1>3, <2>5, LengthOfPacket, Zenon
  <2>3. Cat(Written(k), rest) = Header(k) \o (m \o rest)
    BY <1>1, <2>2, Associative, Zenon DEF Cat, Written
  <2>4. m \o rest \in Seq(Nat)
    BY ConcatType, Zenon
  <2> QED
    BY <1>1, <2>1, <2>3, <2>4, ReadsHeader, Zenon
<1>5. Range(Cat(m, rest)) = Range(m) \cup Range(rest)
  BY CatRange, Zenon
<1>6. Len(m) = 6 => Cat(m, rest)[1] = m[1] /\ Cat(m, rest)[2] = m[2]
  <2>1. Len(m) = 6 => 1 \in 1 .. Len(m) /\ 2 \in 1 .. Len(m)
    OBVIOUS
  <2> QED
    BY <2>1, CatFirst, Zenon
<1>7. CASE k.type < 2 /\ Len(rest) # 1
  <2>1. ~(k.type >= 2)
    BY <1>2, <1>7
  <2>2. r.payload = m /\ r.msg_length = Len(m)
    BY <1>3, <1>4, <1>7
  <2>3. Is(r) = Says(k)
    BY <1>1, <1>7, <2>2, Zenon DEF Is, Says
  <2> QED
    BY <1>3, <1>7, <2>1, <2>3, Zenon
<1>8. CASE k.type < 2 /\ Len(rest) = 1
  <2>1. ~(k.type >= 2)
    BY <1>2, <1>8
  <2>2. r.payload = Cat(m, rest) /\ r.msg_length = Len(m)
    BY <1>3, <1>4, <1>8
  <2> HIDE DEF Cat
  <2>3. Is(r) = Says(k) \cup Words(rest)
    BY <1>1, <1>5, <1>6, <1>8, <2>2, Zenon DEF Is, Says, Words
  <2> QED
    BY <1>3, <1>8, <2>3, Zenon
<1>9. CASE k.type >= 2
  <2>1. ~(k.type < 2)
    BY <1>2, <1>9
  <2>2. r.payload = Cat(m, rest) /\ r.msg_length # 6
    BY <1>3, <1>4, <1>9, <2>1
  <2>3. Is(r) = Says(k) \cup Words(rest)
    BY <1>1, <1>5, <2>1, <2>2, Zenon DEF Is, Says, Words
  <2> QED
    BY <1>3, <1>9, <2>1, <2>3, Zenon
<1>10. k.type < 2 \/ k.type >= 2
  BY <1>2
<1> QED
  BY <1>7, <1>8, <1>9, <1>10, Zenon

(***************************************************************************)
(* The bytes of a stream.                                                  *)
(***************************************************************************)
LEMMA WrittenForm ==
  ASSUME NEW k \in Chunks
  PROVE  /\ Written(k) \in Seq(Nat) /\ Written(k) = Cat(Header(k), k.msg)
         /\ Header(k) \in Seq(Nat) /\ k.msg \in Seq(Nat)
         /\ Len(Header(k)) >= 1 /\ Len(Written(k)) = Len(Header(k)) + Len(k.msg)
         /\ Len(k.msg) \in Nat
<1>1. Header(k) \in Seq(Nat) /\ Len(Header(k)) >= 1
  BY HeaderForm
<1>2. k.msg \in Seq(Nat) /\ Len(k.msg) \in Nat
  BY DEF Chunks
<1>3. Written(k) = Cat(Header(k), k.msg)
  BY Zenon DEF Written, Cat
<1> QED
  BY <1>1, <1>2, <1>3, CatType, CatLen, Zenon

\* No byte of a header is a keyword.
LEMMA BasicHeaderBytes == ASSUME NEW k \in Chunks PROVE Range(BasicHeader(k)) \subseteq 0 .. 255
<1>1. k.type \in 0 .. 3 /\ k.id \in Nat /\ k.id < 65600
  BY DEF Chunks
<1>2. CASE k.id < 64
  <2>1. BasicHeader(k) = <<64 * k.type + k.id>>
    BY <1>1, <1>2 DEF BasicHeader
  <2>2. 64 * k.type + k.id \in 0 .. 255
    BY <1>1, <1>2
  <2>3. DOMAIN <<64 * k.type + k.id>> = {1}
    OBVIOUS
  <2> QED
    BY <2>1, <2>2, <2>3 DEF Range
<1>3. CASE k.id >= 64 /\ k.id < 320
  <2>1. BasicHeader(k) = <<64 * k.type, k.id - 64>>
    BY <1>1, <1>3 DEF BasicHeader
  <2>2. 64 * k.type \in 0 .. 255 /\ k.id - 64 \in 0 .. 255
    BY <1>1, <1>3
  <2>3. DOMAIN <<64 * k.type, k.id - 64>> = {1, 2}
    OBVIOUS
  <2> QED
    BY <2>1, <2>2, <2>3 DEF Range
<1>4. CASE k.id >= 320
  <2>1. BasicHeader(k) = <<64 * k.type + 1, (k.id - 64) \div 256, (k.id - 64) % 256>>
    BY <1>1, <1>4 DEF BasicHeader
  <2>2. PICK x \in Nat : x = k.id - 64 /\ x < 65536
    BY <1>1, <1>4
  <2>3. 64 * k.type + 1 \in 0 .. 255 /\ x \div 256 \in 0 .. 255 /\ x % 256 \in 0 .. 255
    BY <1>1, <2>2
  <2>4. DOMAIN <<64 * k.type + 1, x \div 256, x % 256>> = {1, 2, 3}
    OBVIOUS
  <2> QED
    BY <2>1, <2>2, <2>3, <2>4 DEF Range
<1> QED
  BY <1>1, <1>2, <1>3, <1>4

LEMMA MessageHeaderBytes == ASSUME NEW k \in Chunks PROVE Range(MessageHeader(k)) \subseteq 0 .. 255
<1>1. k.type \in 0 .. 3 /\ Len(k.msg) \in Nat /\ Len(k.msg) < LongerThanAny
  BY DEF Chunks
<1>2. PICK n \in Nat : n = Len(k.msg) /\ n < 256 * 256 * 256
  BY <1>1, SMT DEF LongerThanAny
<1>3. PICK l : l = ThreeBytes(n)
  OBVIOUS
<1>4. l \in Seq(Nat) /\ Range(l) \subseteq 0 .. 255
  <2>1. l \in Seq(Nat)
    BY <1>3, ReadsThree, Zenon
  <2>2. n \div 65536 \in 0 .. 255 /\ (n \div 256) % 256 \in 0 .. 255 /\ n % 256 \in 0 .. 255
    <3>1. n \div 65536 \in 0 .. 255
      <4>1. n < 65536 * 256
        BY <1>2, SMT
      <4> QED
        BY <4>1, SMT
    <3>2. n \div 256 \in Nat
      OBVIOUS
    <3>3. (n \div 256) % 256 \in 0 .. 255
      BY <3>2
    <3> QED
      BY <3>1, <3>3
  <2>3. DOMAIN <<n \div 65536, (n \div 256) % 256, n % 256>> = {1, 2, 3}
    OBVIOUS
  <2>4. Range(l) \subseteq 0 .. 255
    BY <1>3, <2>2, <2>3 DEF Range, ThreeBytes
  <2> QED
    BY <2>1, <2>4
<1>5. \A m \in Nat : Zeros(m) \in Seq(Nat) /\ Range(Zeros(m)) \subseteq 0 .. 255
  <2>1. \A m \in Nat : Range(Zeros(m)) \subseteq 0 .. 255
    BY DEF Range, Zeros
  <2> QED
    BY <2>1, ZerosForm
<1>6. \A s, t \in Seq(Nat) :
        Range(s) \subseteq 0 .. 255 /\ Range(t) \subseteq 0 .. 255 => Range(Cat(s, t)) \subseteq 0 .. 255
  BY CatRange
<1>7. PICK y : y = Cat(Cat(Zeros(3), l), Zeros(1))
  OBVIOUS
<1>8. /\ k.type = 0 => MessageHeader(k) = Cat(y, Zeros(4))
      /\ k.type = 1 => MessageHeader(k) = y
      /\ k.type = 2 => MessageHeader(k) = Zeros(3)
      /\ k.type = 3 => MessageHeader(k) = <<>>
  BY <1>2, <1>3, <1>7 DEF MessageHeader, Cat
<1>9. y \in Seq(Nat) /\ Range(y) \subseteq 0 .. 255
  <2>1. Cat(Zeros(3), l) \in Seq(Nat) /\ Range(Cat(Zeros(3), l)) \subseteq 0 .. 255
    BY <1>4, <1>5, <1>6, CatType
  <2> QED
    BY <1>5, <1>6, <1>7, <2>1, CatType
<1>10. Range(Cat(y, Zeros(4))) \subseteq 0 .. 255
  BY <1>5, <1>6, <1>9
<1>11. Range(<<>>) \subseteq 0 .. 255
  <2>1. DOMAIN <<>> = {}
    OBVIOUS
  <2> QED
    BY <2>1 DEF Range
<1>12. k.type \in {0, 1, 2, 3} /\ 3 \in Nat
  BY <1>1
<1>13. Range(Zeros(3)) \subseteq 0 .. 255
  BY <1>5
<1> QED
  BY <1>8, <1>9, <1>10, <1>11, <1>12, <1>13, Zenon

LEMMA WordsOfHeader == ASSUME NEW k \in Chunks PROVE Words(Header(k)) = {}
<1>1. BasicHeader(k) \in Seq(Nat) /\ MessageHeader(k) \in Seq(Nat)
  BY BasicHeaderForm, MessageHeaderForm
<1>2. Header(k) = Cat(BasicHeader(k), MessageHeader(k))
  BY Zenon DEF Header, Cat
<1>3. Range(Header(k)) \subseteq 0 .. 255
  BY <1>1, <1>2, CatRange, BasicHeaderBytes, MessageHeaderBytes
<1>4. PLAY \notin 0 .. 255 /\ START \notin 0 .. 255
  BY DEF PLAY, START
<1> QED
  BY <1>3, <1>4 DEF Words

LEMMA WordsOfWritten == ASSUME NEW k \in Chunks PROVE Words(Written(k)) \subseteq Says(k)
<1>1. Words(Written(k)) = Words(Header(k)) \cup Words(k.msg)
  BY WrittenForm, WordsOfCat, Zenon
<1>2. Words(k.msg) \subseteq Says(k)
  BY DEF Words, Says
<1> QED
  BY <1>1, <1>2, WordsOfHeader

\* Fewer bytes have fewer words.
LEMMA WordsOfStart ==
  ASSUME NEW s \in Seq(Nat), NEW n \in 0 .. Len(s)
  PROVE  Words(SubSeq(s, 1, n)) \subseteq Words(s)
<1>1. /\ SubSeq(s, 1, n) \in Seq(Nat) /\ SubSeq(s, n + 1, Len(s)) \in Seq(Nat)
      /\ s = Cat(SubSeq(s, 1, n), SubSeq(s, n + 1, Len(s)))
  BY CatSplit
<1>2. Words(s) = Words(SubSeq(s, 1, n)) \cup Words(SubSeq(s, n + 1, Len(s)))
  BY <1>1, WordsOfCat, Zenon
<1> QED
  BY <1>2

\* The bytes of the first n chunks, for every n.
IsSent(ks, F) ==
    /\ F[0] = <<>>
    /\ \A n \in 0 .. Len(ks) : F[n] \in Seq(Nat)
    /\ \A n \in 1 .. Len(ks) : F[n] = Cat(F[n - 1], Written(ks[n]))
Sent(ks) == CHOOSE F : IsSent(ks, F)

LEMMA SentForm == ASSUME NEW ks \in Seq(Chunks) PROVE IsSent(ks, Sent(ks))
<1> DEFINE L == Len(ks)
           Until(F, n) == /\ F[0] = <<>>
                          /\ \A m \in 0 .. n : F[m] \in Seq(Nat)
                          /\ \A m \in 1 .. n : F[m] = Cat(F[m - 1], Written(ks[m]))
           P == {n \in 0 .. L : \E F : Until(F, n)}
<1>1. L \in Nat /\ \A n \in 1 .. L : ks[n] \in Chunks
  OBVIOUS
<1>2. 0 \in P
  <2>1. PICK F : F = [m \in {0} |-> <<>>]
    OBVIOUS
  <2>2. F[0] = <<>> /\ <<>> \in Seq(Nat) /\ (\A m \in 0 .. 0 : m = 0) /\ 1 .. 0 = {}
    BY <2>1
  <2>3. Until(F, 0)
    BY <2>2
  <2>4. 0 \in 0 .. L
    BY <1>1
  <2> HIDE DEF Until
  <2> QED
    BY <2>3, <2>4
<1>3. ASSUME NEW n \in 0 .. L - 1, n \in P PROVE n + 1 \in P
  <2>1. PICK F : Until(F, n)
    BY <1>3
  <2> DEFINE w == Cat(F[n], Written(ks[n + 1]))
             G == [m \in 0 .. L |-> IF m = n + 1 THEN w ELSE F[m]]
  <2>2. n \in 0 .. n /\ n + 1 \in 1 .. L /\ n + 1 \in 0 .. L /\ 0 # n + 1 /\ 0 \in 0 .. L
    BY <1>1
  <2>3. F[n] \in Seq(Nat) /\ Written(ks[n + 1]) \in Seq(Nat)
    BY <1>1, <2>1, <2>2, WrittenForm
  <2>4. w \in Seq(Nat)
    BY <2>3, CatType
  <2> HIDE DEF w
  <2>5. G[n + 1] = w /\ G[0] = F[0] /\ \A m \in 0 .. n : G[m] = F[m]
    BY <1>1, <2>2
  <2> HIDE DEF G
  <2>6. \A m \in 0 .. n + 1 : G[m] \in Seq(Nat)
    <3>1. \A m \in 0 .. n + 1 : m \in 0 .. n \/ m = n + 1
      BY <2>2
    <3> QED
      BY <2>1, <2>4, <2>5, <3>1
  <2>7. ASSUME NEW m \in 1 .. n + 1 PROVE G[m] = Cat(G[m - 1], Written(ks[m]))
    <3>1. CASE m = n + 1
      <4>1. m - 1 = n /\ n \in 0 .. n
        BY <2>2, <3>1
      <4> QED
        BY <2>5, <3>1, <4>1 DEF w
    <3>2. CASE m # n + 1
      <4>1. m \in 0 .. n /\ m \in 1 .. n /\ m - 1 \in 0 .. n
        BY <2>2, <3>2
      <4> QED
        BY <2>1, <2>5, <4>1
    <3> QED
      BY <3>1, <3>2
  <2>8. Until(G, n + 1)
    BY <2>1, <2>5, <2>6, <2>7
  <2> HIDE DEF Until
  <2> QED
    BY <2>2, <2>8
<1> HIDE DEF P
<1>4. L \in P
  <2>1. \A n \in 0 .. L : n \in P
    BY <1>1, <1>2, <1>3, UpTo
  <2> QED
    BY <1>1, <2>1
<1>5. \E F : IsSent(ks, F)
  BY <1>4 DEF P, IsSent
<1> QED
  BY <1>5, Zenon DEF Sent

LEMMA SentTypes ==
  ASSUME NEW ks \in Seq(Chunks)
  PROVE  /\ Len(ks) \in Nat /\ Sent(ks)[0] = <<>>
         /\ \A n \in 0 .. Len(ks) : Sent(ks)[n] \in Seq(Nat)
         /\ \A n \in 1 .. Len(ks) : ks[n] \in Chunks
         /\ \A n \in 0 .. Len(ks) - 1 : Sent(ks)[n + 1] = Cat(Sent(ks)[n], Written(ks[n + 1]))
<1>1. Len(ks) \in Nat /\ \A n \in 1 .. Len(ks) : ks[n] \in Chunks
  OBVIOUS
<1>2. IsSent(ks, Sent(ks))
  BY SentForm
<1>3. ASSUME NEW n \in 0 .. Len(ks) - 1
      PROVE  Sent(ks)[n + 1] = Cat(Sent(ks)[n], Written(ks[n + 1]))
  <2>1. n + 1 \in 1 .. Len(ks) /\ (n + 1) - 1 = n
    BY <1>1
  <2>2. Sent(ks)[n + 1] = Cat(Sent(ks)[(n + 1) - 1], Written(ks[n + 1]))
    BY <1>2, <2>1, Zenon DEF IsSent
  <2> QED
    BY <2>1, <2>2, Zenon
<1> QED
  BY <1>1, <1>2, <1>3 DEF IsSent

LEMMA Onward ==
  ASSUME NEW ks \in Seq(Chunks), NEW j \in 0 .. Len(ks), NEW k \in j .. Len(ks)
  PROVE  \E w \in Seq(Nat) : Sent(ks)[k] = Cat(Sent(ks)[j], w)
<1> DEFINE D == Len(ks) - j
           P == {n \in 0 .. D : \E w \in Seq(Nat) : Sent(ks)[j + n] = Cat(Sent(ks)[j], w)}
<1>1. Len(ks) \in Nat /\ D \in Nat /\ \A n \in 0 .. Len(ks) : Sent(ks)[n] \in Seq(Nat)
  BY SentTypes
<1>2. 0 \in P
  <2>1. PICK s \in Seq(Nat) : s = Sent(ks)[j]
    BY <1>1
  <2>2. PICK e : e = <<>>
    OBVIOUS
  <2>3. s = Cat(s, e) /\ e \in Seq(Nat)
    BY <2>2, CatEmpty
  <2>4. j + 0 = j /\ 0 \in 0 .. D
    BY <1>1
  <2>5. \E w \in Seq(Nat) : Sent(ks)[j + 0] = Cat(Sent(ks)[j], w)
    BY <2>1, <2>3, <2>4
  <2> QED
    BY <2>4, <2>5
<1>3. ASSUME NEW n \in 0 .. D - 1, n \in P PROVE n + 1 \in P
  <2>1. PICK w \in Seq(Nat) : Sent(ks)[j + n] = Cat(Sent(ks)[j], w)
    BY <1>3
  <2>2. PICK m : m = j + n
    OBVIOUS
  <2>3. m \in 0 .. Len(ks) - 1 /\ m + 1 \in 1 .. Len(ks) /\ j + (n + 1) = m + 1 /\ n + 1 \in 0 .. D
    BY <1>1, <2>2
  <2>4. PICK v : v = Written(ks[m + 1])
    OBVIOUS
  <2>5. v \in Seq(Nat)
    BY <2>3, <2>4, SentTypes, WrittenForm
  <2>6. Sent(ks)[m + 1] = Cat(Cat(Sent(ks)[j], w), v)
    BY <2>1, <2>2, <2>3, <2>4, SentTypes
  <2>7. Sent(ks)[m + 1] = Cat(Sent(ks)[j], Cat(w, v)) /\ Cat(w, v) \in Seq(Nat)
    <3>1. Sent(ks)[j] \in Seq(Nat)
      BY <1>1
    <3> QED
      BY <2>5, <2>6, <3>1, CatAssoc, CatType, Zenon
  <2> QED
    BY <2>3, <2>7
<1> HIDE DEF P
<1>4. \A n \in 0 .. D : n \in P
  BY <1>1, <1>2, <1>3, UpTo
<1>5. k - j \in 0 .. D /\ j + (k - j) = k
  BY <1>1
<1> QED
  BY <1>4, <1>5 DEF P

\* The bytes of the chunks from the j-th, which is not one of them, to the k-th.
Between(ks, j, k) == CHOOSE w \in Seq(Nat) : Sent(ks)[k] = Cat(Sent(ks)[j], w)

LEMMA BetweenForm ==
  ASSUME NEW ks \in Seq(Chunks), NEW j \in 0 .. Len(ks), NEW k \in j .. Len(ks)
  PROVE  /\ Between(ks, j, k) \in Seq(Nat)
         /\ Sent(ks)[k] = Cat(Sent(ks)[j], Between(ks, j, k))
         /\ \A w \in Seq(Nat) : Sent(ks)[k] = Cat(Sent(ks)[j], w) => w = Between(ks, j, k)
<1>1. Between(ks, j, k) \in Seq(Nat) /\ Sent(ks)[k] = Cat(Sent(ks)[j], Between(ks, j, k))
  BY Onward, Zenon DEF Between
<1>2. Sent(ks)[j] \in Seq(Nat)
  BY SentTypes
<1> QED
  BY <1>1, <1>2, CatCancel, Zenon

LEMMA BetweenNone ==
  ASSUME NEW ks \in Seq(Chunks), NEW j \in 0 .. Len(ks)
  PROVE  Between(ks, j, j) = <<>>
<1>1. Sent(ks)[j] = Cat(Sent(ks)[j], <<>>) /\ <<>> \in Seq(Nat) /\ j \in j .. Len(ks)
  BY SentTypes, CatEmpty
<1> QED
  BY <1>1, BetweenForm, Zenon

LEMMA BetweenFirst ==
  ASSUME NEW ks \in Seq(Chunks), NEW k \in 0 .. Len(ks), NEW j \in 0 .. k - 1
  PROVE  Between(ks, j, k) = Cat(Written(ks[j + 1]), Between(ks, j + 1, k))
<1>1. /\ j \in 0 .. Len(ks) /\ j \in 0 .. Len(ks) - 1 /\ k \in j .. Len(ks)
      /\ j + 1 \in 0 .. Len(ks) /\ j + 1 \in 1 .. Len(ks) /\ k \in j + 1 .. Len(ks)
  BY SentTypes
<1>2. PICK v : v = Written(ks[j + 1])
  OBVIOUS
<1>3. v \in Seq(Nat) /\ Sent(ks)[j] \in Seq(Nat) /\ Sent(ks)[j + 1] = Cat(Sent(ks)[j], v)
  BY <1>1, <1>2, SentTypes, WrittenForm
<1>4. PICK w \in Seq(Nat) : w = Between(ks, j + 1, k) /\ Sent(ks)[k] = Cat(Sent(ks)[j + 1], w)
  BY <1>1, BetweenForm
<1>5. Sent(ks)[k] = Cat(Sent(ks)[j], Cat(v, w)) /\ Cat(v, w) \in Seq(Nat)
  <2>1. Sent(ks)[k] = Cat(Cat(Sent(ks)[j], v), w)
    BY <1>3, <1>4
  <2> QED
    BY <1>3, <1>4, <2>1, CatAssoc, CatType, Zenon
<1> QED
  BY <1>1, <1>2, <1>4, <1>5, BetweenForm, Zenon

LEMMA BetweenLast ==
  ASSUME NEW ks \in Seq(Chunks), NEW j \in 0 .. Len(ks), NEW k \in j .. Len(ks) - 1
  PROVE  Between(ks, j, k + 1) = Cat(Between(ks, j, k), Written(ks[k + 1]))
<1>1. /\ k \in j .. Len(ks) /\ k \in 0 .. Len(ks) - 1
      /\ k + 1 \in j .. Len(ks) /\ k + 1 \in 1 .. Len(ks)
  BY SentTypes
<1>2. PICK v : v = Written(ks[k + 1])
  OBVIOUS
<1>3. v \in Seq(Nat) /\ Sent(ks)[j] \in Seq(Nat) /\ Sent(ks)[k + 1] = Cat(Sent(ks)[k], v)
  BY <1>1, <1>2, SentTypes, WrittenForm
<1>4. PICK w \in Seq(Nat) : w = Between(ks, j, k) /\ Sent(ks)[k] = Cat(Sent(ks)[j], w)
  BY <1>1, BetweenForm
<1>5. Sent(ks)[k + 1] = Cat(Sent(ks)[j], Cat(w, v)) /\ Cat(w, v) \in Seq(Nat)
  <2>1. Sent(ks)[k + 1] = Cat(Cat(Sent(ks)[j], w), v)
    BY <1>3, <1>4
  <2> QED
    BY <1>3, <1>4, <2>1, CatAssoc, CatType, Zenon
<1> QED
  BY <1>1, <1>2, <1>4, <1>5, BetweenForm, Zenon

\* They are what the sequence of the chunks' bytes flattens to.
LEMMA FlattenIsAChoice ==
  ASSUME NEW q, Len(q) # 0
  PROVE  FlattenSeq(q) = (CHOOSE f : f = [i \in 1 .. Len(q) |->
                                            IF i = 1 THEN q[i] ELSE f[i - 1] \o q[i]])[Len(q)]
  BY Zenon DEF FlattenSeq

LEMMA WholeIsBetween ==
  ASSUME NEW ks \in Seq(Chunks), NEW j \in 0 .. Len(ks), NEW k \in j .. Len(ks)
  PROVE  FlattenSeq([i \in 1 .. k - j |-> Written(ks[j + i])]) = Between(ks, j, k)
<1> DEFINE n == k - j
           q == [i \in 1 .. n |-> Written(ks[j + i])]
           More(f, i) == IF i = 1 THEN q[i] ELSE Cat(f[i - 1], q[i])
           f == CHOOSE f : f = [i \in 1 .. n |-> More(f, i)]
           g == [i \in 1 .. n |-> Between(ks, j, j + i)]
<1>1. Len(ks) \in Nat /\ n \in Nat /\ j + n = k
  BY SentTypes
<1>2. Len(q) = n /\ \A i \in 1 .. n : q[i] = Written(ks[j + i])
  BY <1>1
<1>3. CASE n = 0
  <2>1. q = <<>>
    BY <1>3
  <2>2. FlattenSeq(q) = q
    BY <1>2, <1>3, Zenon DEF FlattenSeq
  <2>3. Between(ks, j, k) = <<>>
    BY <1>1, <1>3, BetweenNone
  <2> QED
    BY <2>1, <2>2, <2>3
<1>4. CASE n # 0
  <2>1. FlattenSeq(q) = f[n]
    <3>1. Len(q) # 0
      BY <1>2, <1>4
    <3> HIDE DEF q, n
    <3> QED
      BY <1>2, <3>1, FlattenIsAChoice, Zenon DEF Cat
  <2> HIDE DEF q
  <2>2. ASSUME NEW i \in 1 .. n - 1
        PROVE  Between(ks, j, j + (i + 1)) = Cat(Between(ks, j, j + i), q[i + 1])
    <3>1. PICK m : m = j + i
      OBVIOUS
    <3>2. m \in j .. Len(ks) - 1 /\ m + 1 = j + (i + 1) /\ i + 1 \in 1 .. n
      BY <1>1, <3>1
    <3>3. q[i + 1] = Written(ks[m + 1])
      BY <1>2, <3>2
    <3> QED
      BY <3>1, <3>2, <3>3, BetweenLast
  <2>3. Between(ks, j, j + 1) = q[1]
    <3>1. j \in j .. Len(ks) - 1 /\ 1 \in 1 .. n /\ j + 1 \in 1 .. Len(ks)
      BY <1>1, <1>4
    <3>2. Between(ks, j, j + 1) = Cat(<<>>, Written(ks[j + 1])) /\ Written(ks[j + 1]) \in Seq(Nat)
      BY <3>1, BetweenLast, BetweenNone, SentTypes, WrittenForm
    <3> QED
      BY <1>2, <3>1, <3>2, CatEmpty
  <2>4. \A i \in 1 .. n : g[i] = Between(ks, j, j + i)
    OBVIOUS
  <2> HIDE DEF g
  <2>5. ASSUME NEW i \in 1 .. n PROVE Between(ks, j, j + i) = More(g, i)
    <3>1. CASE i = 1
      BY <2>3, <3>1
    <3>2. CASE i # 1
      <4>1. i - 1 \in 1 .. n - 1 /\ i - 1 \in 1 .. n /\ (i - 1) + 1 = i
        BY <1>1, <3>2
      <4>2. Between(ks, j, j + i) = Cat(Between(ks, j, j + (i - 1)), q[i])
        BY <2>2, <4>1
      <4> QED
        BY <2>4, <3>2, <4>1, <4>2
    <3> QED
      BY <3>1, <3>2
  <2>6. g = [i \in 1 .. n |-> More(g, i)]
    BY <2>5 DEF g
  <2>7. f = [i \in 1 .. n |-> More(f, i)]
    BY <2>6, Zenon
  <2> HIDE DEF f
  <2> DEFINE P == {m \in 0 .. n - 1 : f[m + 1] = Between(ks, j, j + (m + 1))}
  <2>8. 0 \in P
    <3>1. f[1] = q[1]
      BY <1>1, <1>4, <2>7
    <3> QED
      BY <1>1, <1>4, <2>3, <3>1
  <2>9. ASSUME NEW m \in 0 .. (n - 1) - 1, m \in P PROVE m + 1 \in P
    <3>1. PICK i : i = m + 1
      OBVIOUS
    <3>2. i \in 1 .. n - 1 /\ i + 1 \in 1 .. n /\ i + 1 # 1 /\ (i + 1) - 1 = i /\ i \in 0 .. n - 1
      BY <1>1, <3>1
    <3>3. f[i + 1] = More(f, i + 1)
      BY <2>7, <3>2
    <3>4. f[i + 1] = Cat(f[i], q[i + 1])
      BY <3>2, <3>3
    <3>5. f[i] = Between(ks, j, j + i)
      BY <2>9, <3>1
    <3>6. f[i + 1] = Between(ks, j, j + (i + 1))
      BY <2>2, <3>2, <3>4, <3>5
    <3> QED
      BY <3>1, <3>2, <3>6
  <2> HIDE DEF P
  <2>10. n - 1 \in Nat /\ n - 1 \in 0 .. n - 1 /\ (n - 1) + 1 = n
    BY <1>1, <1>4
  <2>11. \A m \in 0 .. n - 1 : m \in P
    BY <2>8, <2>9, <2>10, UpTo
  <2>12. f[n] = Between(ks, j, j + n)
    BY <2>10, <2>11 DEF P
  <2> QED
    BY <1>1, <2>1, <2>12 DEF q
<1> QED
  BY <1>3, <1>4

\* A place where a segment may end: e bytes into the chunk after the k-th.
Stops(ks, k, e) ==
    /\ k \in 0 .. Len(ks) /\ e \in {0, 1, 12}
    /\ e # 0 => k < Len(ks) /\ e < Len(Written(ks[k + 1]))
    /\ e = 12 => Len(Header(ks[k + 1])) = 12

Begun(ks, k, e) == IF e = 0 THEN <<>> ELSE SubSeq(Written(ks[k + 1]), 1, e)

\* The bytes from the end of the j-th chunk to there, and all the bytes to there.
Rest(ks, j, k, e) == Cat(Between(ks, j, k), Begun(ks, k, e))
Place(ks, k, e)   == Cat(Sent(ks)[k], Begun(ks, k, e))

SaidOf(ks, j, k) == UNION {Says(ks[i]) : i \in j + 1 .. k}

LEMMA SaidOfNone == \A ks, j : j \in Nat => SaidOf(ks, j, j) = {}
<1>1. \A j \in Nat : j + 1 .. j = {}
  OBVIOUS
<1> QED
  BY <1>1 DEF SaidOf

LEMMA SaidOfBoth ==
  ASSUME NEW ks, NEW j \in Nat, NEW m \in Nat, NEW k \in Nat, j <= m, m <= k
  PROVE  SaidOf(ks, j, k) = SaidOf(ks, j, m) \cup SaidOf(ks, m, k)
<1>1. j + 1 .. k = (j + 1 .. m) \cup (m + 1 .. k)
  OBVIOUS
<1> QED
  BY <1>1 DEF SaidOf

LEMMA SaidOfOne ==
  ASSUME NEW ks, NEW j \in Nat
  PROVE  SaidOf(ks, j, j + 1) = Says(ks[j + 1])
<1>1. j + 1 .. j + 1 = {j + 1}
  OBVIOUS
<1> QED
  BY <1>1 DEF SaidOf

LEMMA SaidOfFirst ==
  ASSUME NEW ks, NEW k \in Nat, NEW j \in 0 .. k - 1
  PROVE  SaidOf(ks, j, k) = Says(ks[j + 1]) \cup SaidOf(ks, j + 1, k)
<1>1. j \in Nat /\ j + 1 \in Nat /\ j <= j + 1 /\ j + 1 <= k
  OBVIOUS
<1>2. SaidOf(ks, j, k) = SaidOf(ks, j, j + 1) \cup SaidOf(ks, j + 1, k)
  <2>1. PICK m : m = j + 1
    OBVIOUS
  <2>2. m \in Nat /\ j \in Nat /\ j <= m /\ m <= k
    BY <1>1, <2>1
  <2>3. SaidOf(ks, j, k) = SaidOf(ks, j, m) \cup SaidOf(ks, m, k)
    BY <2>2, SaidOfBoth
  <2> QED
    BY <2>1, <2>3
<1>3. SaidOf(ks, j, j + 1) = Says(ks[j + 1])
  BY <1>1, SaidOfOne, Zenon
<1> QED
  BY <1>2, <1>3, Zenon

\* As long as it reaches no further than the header, a start of a chunk is one of it.
LEMMA StartOfWritten ==
  ASSUME NEW k \in Chunks, NEW n \in 0 .. Len(Header(k))
  PROVE  SubSeq(Written(k), 1, n) = SubSeq(Header(k), 1, n)
<1>1. PICK h \in Seq(Nat) : h = Header(k)
  BY WrittenForm
<1>2. PICK m \in Seq(Nat) : m = k.msg
  BY WrittenForm
<1>3. Written(k) = Cat(h, m)
  BY <1>1, <1>2, WrittenForm, Zenon
<1> QED
  BY <1>1, <1>3, StartOfCat

LEMMA BegunForm ==
  ASSUME NEW ks \in Seq(Chunks), NEW k, NEW e, Stops(ks, k, e)
  PROVE  /\ Begun(ks, k, e) \in Seq(Nat) /\ Len(Begun(ks, k, e)) = e
         /\ Words(Begun(ks, k, e)) = {}
         /\ e = 0 => Begun(ks, k, e) = <<>>
         /\ e = 12 => Begun(ks, k, e) = Header(ks[k + 1])
<1>1. CASE e = 0
  <2>1. <<>> \in Seq(Nat) /\ Len(<<>>) = 0
    OBVIOUS
  <2> QED
    BY <1>1, <2>1, WordsOfNone DEF Begun
<1>2. CASE e # 0
  <2>1. e \in {1, 12} /\ k + 1 \in 1 .. Len(ks) /\ Len(ks) \in Nat
    BY <1>2 DEF Stops
  <2>2. PICK c \in Chunks : c = ks[k + 1]
    BY <2>1
  <2>3. PICK h \in Seq(Nat) : h = Header(c) /\ Len(h) >= 1
    BY WrittenForm
  <2>4. e = 12 => Len(h) = 12
    BY <2>2, <2>3 DEF Stops
  <2>5. e \in 0 .. Len(h)
    <3>1. Len(h) \in Nat
      OBVIOUS
    <3>2. \A n \in Nat : n >= 1 /\ (e = 12 => n = 12) => e \in 0 .. n
      BY <2>1
    <3> QED
      BY <2>3, <2>4, <3>1, <3>2, Zenon
  <2>6. PICK a : a = SubSeq(h, 1, e)
    OBVIOUS
  <2>7. Begun(ks, k, e) = a
    BY <1>2, <2>2, <2>3, <2>5, <2>6, StartOfWritten, Zenon DEF Begun
  <2>8. a \in Seq(Nat) /\ Len(a) = e
    BY <2>5, <2>6, CatSplit
  <2>9. Words(a) \subseteq Words(h)
    BY <2>5, <2>6, WordsOfStart
  <2>10. Words(a) = {}
    BY <2>3, <2>9, WordsOfHeader
  <2>11. e = 12 => a = h
    <3>1. SubSeq(h, 1, Len(h)) = h
      BY SubSeqProperties, SeqEqual
    <3> QED
      BY <2>4, <2>6, <3>1
  <2> QED
    BY <1>2, <2>2, <2>3, <2>7, <2>8, <2>10, <2>11, Zenon
<1> QED
  BY <1>1, <1>2

LEMMA SilentPacket ==
  ASSUME NEW r, r.payload = <<>>, r.msg_length = -1
  PROVE  Is(r) = {}
<1>1. Range(<<>>) = {}
  <2>1. DOMAIN <<>> = {}
    OBVIOUS
  <2> QED
    BY <2>1 DEF Range
<1> QED
  BY <1>1 DEF Is

\* The first byte of a chunk, or its twelve-byte header alone, says nothing.
LEMMA BegunSays ==
  ASSUME NEW ks \in Seq(Chunks), NEW k, NEW e, Stops(ks, k, e), e # 0,
         NEW r, r = RTMPControlPacket(Begun(ks, k, e))
  PROVE  Is(r) = {} /\ r.remain = <<>>
<1>1. PICK b \in Seq(Nat) : b = Begun(ks, k, e) /\ Len(b) = e
  BY BegunForm
<1>2. e \in {1, 12} /\ k + 1 \in 1 .. Len(ks) /\ Len(ks) \in Nat
  BY DEF Stops
<1>3. PICK c \in Chunks : c = ks[k + 1]
  BY <1>2
<1>4. Is(Failed) = {} /\ Failed.remain = <<>>
  BY SilentPacket DEF Failed
<1>5. PICK at : at = CurrPos(b)
  OBVIOUS
<1>6. PICK n : n = MsgLength(b)
  OBVIOUS
<1>7. PICK p : p = SubSeq(b, at + 1, Len(b))
  OBVIOUS
<1>8. at \in Nat /\ at >= 1
  BY <1>5 DEF CurrPos, BasicLength, HeaderLength
<1>9. CASE Len(b) < at
  <2>1. ~(Len(b) >= at)
    BY <1>8, <1>9
  <2>2. r = Failed
    BY <1>1, <1>5, <1>9, <2>1, Zenon DEF RTMPControlPacket
  <2> QED
    BY <1>4, <2>2
<1>10. CASE Len(b) >= at /\ e = 1
  <2>1. at = 1 /\ Len(b) = 1 /\ ~(Len(b) < at)
    BY <1>1, <1>8, <1>10
  <2>2. b[1] \in Nat /\ b[1] \div 64 \in Nat
    <3>1. b[1] \in Nat
      BY <2>1
    <3>2. \A x \in Nat : x \div 64 \in Nat
      OBVIOUS
    <3> QED
      BY <3>1, <3>2, Zenon
  <2>3. b[1] \div 64 >= 2
    <3>1. BasicLength(b) >= 1 /\ BasicLength(b) \in Nat
      BY DEF BasicLength
    <3>2. HeaderLength(b[1] \div 64) = 0
      BY <1>5, <2>1, <3>1 DEF CurrPos, HeaderLength
    <3>3. b[1] \div 64 # 0 /\ b[1] \div 64 # 1
      BY <3>2 DEF HeaderLength
    <3> QED
      BY <2>2, <3>3
  <2>4. n = -1
    BY <1>6, <2>3, Zenon DEF MsgLength
  <2>5. p = <<>>
    BY <1>7, <2>1
  <2>6. r = [parsed |-> TRUE, msg_length |-> -1, payload |-> <<>>, remain |-> <<>>]
    BY <1>1, <1>5, <1>6, <1>7, <1>10, <2>1, <2>4, <2>5, Zenon DEF RTMPControlPacket
  <2>7. r.payload = <<>> /\ r.msg_length = -1 /\ r.remain = <<>>
    BY <2>6
  <2> QED
    BY <2>7, SilentPacket
<1>11. CASE Len(b) >= at /\ e = 12
  <2>1. PICK h \in Seq(Nat) : h = Header(c)
    BY WrittenForm
  <2>2. b = h /\ Len(h) = 12
    BY <1>1, <1>3, <1>11, <2>1, BegunForm
  <2>3. Cat(h, <<>>) = h /\ <<>> \in Seq(Nat)
    BY CatEmpty
  <2>4. at = Len(h) /\ n = IF c.type < 2 THEN Len(c.msg) ELSE -1
    BY <1>5, <1>6, <2>1, <2>2, <2>3, ReadsHeader, Zenon DEF Cat
  <2>5. p = <<>> /\ Len(p) = 0 /\ at = 12 /\ ~(Len(b) < at)
    BY <1>7, <2>2, <2>4
  <2>6. Len(c.msg) \in Nat /\ Len(c.msg) > 0
    <3>1. 12 < Len(Written(c))
      BY <1>3, <1>11 DEF Stops
    <3>2. Len(Written(c)) = 12 + Len(c.msg) /\ Len(c.msg) \in Nat
      BY <2>1, <2>2, WrittenForm
    <3> QED
      BY <3>1, <3>2
  <2>7. CASE c.type < 2
    <3>1. n \in Nat /\ n > 0 /\ n # -1 /\ ~Splits(0, n) /\ 0 < n
      BY <2>4, <2>6, <2>7 DEF Splits
    <3>2. r = Failed
      BY <1>1, <1>5, <1>6, <1>7, <1>11, <2>5, <3>1, Zenon DEF RTMPControlPacket
    <3> QED
      BY <1>4, <3>2
  <2>8. CASE ~(c.type < 2)
    <3>1. n = -1
      BY <2>4, <2>8
    <3>2. r = [parsed |-> TRUE, msg_length |-> -1, payload |-> <<>>, remain |-> <<>>]
      BY <1>1, <1>5, <1>6, <1>7, <1>11, <2>5, <3>1, Zenon DEF RTMPControlPacket
    <3>3. r.payload = <<>> /\ r.msg_length = -1 /\ r.remain = <<>>
      BY <3>2
    <3> QED
      BY <3>3, SilentPacket
  <2> QED
    BY <2>7, <2>8
<1>12. Len(b) < at \/ Len(b) >= at
  BY <1>1, <1>2, <1>8
<1> QED
  BY <1>2, <1>9, <1>10, <1>11, <1>12

LEMMA RestForm ==
  ASSUME NEW ks \in Seq(Chunks), NEW k, NEW e, Stops(ks, k, e), NEW j \in 0 .. k
  PROVE  Rest(ks, j, k, e) \in Seq(Nat) /\ k \in Nat
<1>1. j \in 0 .. Len(ks) /\ k \in j .. Len(ks) /\ k \in Nat
  BY SentTypes DEF Stops
<1> QED
  BY <1>1, BetweenForm, BegunForm, CatType DEF Rest

LEMMA RestLast ==
  ASSUME NEW ks \in Seq(Chunks), NEW k, NEW e, Stops(ks, k, e)
  PROVE  Rest(ks, k, k, e) = Begun(ks, k, e)
<1>1. k \in 0 .. Len(ks)
  BY DEF Stops
<1>2. Between(ks, k, k) = <<>>
  BY <1>1, BetweenNone, Zenon
<1>3. PICK b \in Seq(Nat) : b = Begun(ks, k, e)
  BY BegunForm
<1> QED
  BY <1>2, <1>3, CatEmpty, Zenon DEF Rest

LEMMA RestFirst ==
  ASSUME NEW ks \in Seq(Chunks), NEW k, NEW e, Stops(ks, k, e), NEW j \in 0 .. k - 1
  PROVE  /\ ks[j + 1] \in Chunks
         /\ Rest(ks, j, k, e) = Cat(Written(ks[j + 1]), Rest(ks, j + 1, k, e))
<1>1. /\ k \in 0 .. Len(ks) /\ j + 1 \in 0 .. Len(ks) /\ k \in j + 1 .. Len(ks)
      /\ j + 1 \in 1 .. Len(ks)
  BY SentTypes DEF Stops
<1>2. ks[j + 1] \in Chunks
  BY <1>1, SentTypes
<1>3. PICK v \in Seq(Nat) : v = Written(ks[j + 1])
  BY <1>2, WrittenForm
<1>4. PICK w \in Seq(Nat) : w = Between(ks, j + 1, k)
  BY <1>1, BetweenForm
<1>5. PICK b \in Seq(Nat) : b = Begun(ks, k, e)
  BY BegunForm
<1>6. Between(ks, j, k) = Cat(v, w)
  BY <1>1, <1>3, <1>4, BetweenFirst, Zenon
<1>7. Cat(Cat(v, w), b) = Cat(v, Cat(w, b))
  BY CatAssoc
<1> QED
  BY <1>2, <1>3, <1>4, <1>5, <1>6, <1>7, Zenon DEF Rest

\* The keywords in the bytes of a stream are those of its messages.
LEMMA RestWords ==
  ASSUME NEW ks \in Seq(Chunks), NEW k, NEW e, Stops(ks, k, e)
  PROVE  \A j \in 0 .. k : Words(Rest(ks, j, k, e)) \subseteq SaidOf(ks, j, k)
<1> DEFINE P == {j \in 0 .. k : Words(Rest(ks, j, k, e)) \subseteq SaidOf(ks, j, k)}
<1>1. k \in Nat
  BY SentTypes DEF Stops
<1>2. k \in P
  <2>1. Words(Rest(ks, k, k, e)) = {}
    <3>1. Rest(ks, k, k, e) = Begun(ks, k, e)
      BY RestLast
    <3>2. Words(Begun(ks, k, e)) = {}
      BY BegunForm
    <3> QED
      BY <3>1, <3>2
  <2> QED
    BY <1>1, <2>1
<1>3. ASSUME NEW j \in 0 .. k - 1, j + 1 \in P PROVE j \in P
  <2>1. PICK c \in Chunks : c = ks[j + 1]
    BY RestFirst
  <2>2. PICK t : t = Rest(ks, j + 1, k, e)
    OBVIOUS
  <2>3. j \in 0 .. k /\ j + 1 \in 0 .. k
    BY <1>1
  <2>4. t \in Seq(Nat) /\ Written(c) \in Seq(Nat)
    BY <2>2, <2>3, RestForm, WrittenForm
  <2>5. Words(Rest(ks, j, k, e)) = Words(Written(c)) \cup Words(t)
    <3>1. Rest(ks, j, k, e) = Cat(Written(c), t)
      BY <2>1, <2>2, RestFirst
    <3> QED
      BY <2>4, <3>1, WordsOfCat, Zenon
  <2>6. Words(Written(c)) \subseteq Says(c)
    BY WordsOfWritten
  <2>7. Words(t) \subseteq SaidOf(ks, j + 1, k)
    BY <1>3, <2>2
  <2>8. SaidOf(ks, j, k) = Says(c) \cup SaidOf(ks, j + 1, k)
    BY <1>1, <2>1, SaidOfFirst
  <2> QED
    BY <2>3, <2>5, <2>6, <2>7, <2>8
<1> HIDE DEF P
<1>4. \A j \in 0 .. k : j \in P
  BY <1>1, <1>2, <1>3, DownFrom
<1> QED
  BY <1>4 DEF P

LEMMA RestNotEmpty ==
  ASSUME NEW ks \in Seq(Chunks), NEW k, NEW e, Stops(ks, k, e), NEW j \in 0 .. k - 1
  PROVE  Len(Rest(ks, j, k, e)) >= 1
<1>1. PICK c \in Chunks : c = ks[j + 1]
  BY RestFirst
<1>2. j + 1 \in 0 .. k /\ k \in Nat
  BY SentTypes DEF Stops
<1>3. PICK t \in Seq(Nat) : t = Rest(ks, j + 1, k, e)
  BY <1>2, RestForm
<1>4. /\ Written(c) \in Seq(Nat) /\ Len(Header(c)) >= 1 /\ Header(c) \in Seq(Nat)
      /\ Len(Written(c)) = Len(Header(c)) + Len(c.msg) /\ Len(c.msg) \in Nat
  BY WrittenForm
<1>5. Len(Rest(ks, j, k, e)) = Len(Written(c)) + Len(t)
  <2>1. Rest(ks, j, k, e) = Cat(Written(c), t)
    BY <1>1, <1>3, RestFirst
  <2> QED
    BY <1>4, <2>1, CatLen, Zenon
<1>6. Len(t) \in Nat /\ Len(Header(c)) \in Nat
  BY <1>4
<1> QED
  BY <1>4, <1>5, <1>6

\* A lone byte that is a whole chunk says nothing.
LEMMA LoneByte ==
  ASSUME NEW ks \in Seq(Chunks), NEW k, NEW e, Stops(ks, k, e), NEW j \in 0 .. k - 1,
         Len(Rest(ks, j, k, e)) = 1
  PROVE  SaidOf(ks, j, k) = {}
<1>1. PICK c \in Chunks : c = ks[j + 1]
  BY RestFirst
<1>2. j + 1 \in 0 .. k /\ k \in Nat
  BY SentTypes DEF Stops
<1>3. PICK t \in Seq(Nat) : t = Rest(ks, j + 1, k, e)
  BY <1>2, RestForm
<1>4. /\ Written(c) \in Seq(Nat) /\ Len(Header(c)) >= 1 /\ Header(c) \in Seq(Nat)
      /\ Len(Written(c)) = Len(Header(c)) + Len(c.msg) /\ Len(c.msg) \in Nat
  BY WrittenForm
<1>5. Len(Rest(ks, j, k, e)) = Len(Written(c)) + Len(t)
  <2>1. Rest(ks, j, k, e) = Cat(Written(c), t)
    BY <1>1, <1>3, RestFirst
  <2> QED
    BY <1>4, <2>1, CatLen, Zenon
<1>6. Len(t) \in Nat /\ Len(Header(c)) \in Nat
  BY <1>4
<1>7. Len(c.msg) = 0 /\ Len(t) = 0
  <2>1. \A x, y, z \in Nat : x >= 1 /\ (x + y) + z = 1 => y = 0 /\ z = 0
    OBVIOUS
  <2>2. (Len(Header(c)) + Len(c.msg)) + Len(t) = 1
    BY <1>4, <1>5
  <2> QED
    BY <1>4, <1>6, <2>1, <2>2
<1>8. j + 1 = k
  <2>1. CASE j + 1 \in 0 .. k - 1
    <3>1. Len(t) >= 1
      BY <1>3, <2>1, RestNotEmpty
    <3> QED
      BY <1>7, <3>1
  <2> QED
    BY <1>2, <2>1
<1>9. Says(c) = {}
  <2>1. c.msg = <<>>
    BY <1>7, WrittenForm
  <2>2. Range(c.msg) = {}
    <3>1. DOMAIN <<>> = {}
      OBVIOUS
    <3> QED
      BY <2>1, <3>1 DEF Range
  <2> QED
    BY <1>7, <2>2 DEF Says
<1> QED
  BY <1>1, <1>2, <1>8, <1>9, SaidOfOne

\* The packets read from the end of a chunk on: its packet, and those of the chunks
\* after it unless it has taken them for its own.
LEMMA ChunkRound ==
  ASSUME NEW content \in Seq(Nat), NEW f, Loops(content, f),
         NEW head \in Seq(Nat), NEW c \in Chunks, NEW t \in Seq(Nat),
         content = Cat(head, Cat(Written(c), t)),
         NEW r, r = RTMPControlPacket(Cat(Written(c), t))
  PROVE  /\ Cat(head, Written(c)) \in Seq(Nat) /\ content = Cat(Cat(head, Written(c)), t)
         /\ r.parsed
         /\ c.type < 2 /\ Len(t) # 1 =>
              /\ Is(r) = Says(c)
              /\ ReadFrom(f, head) = {r} \cup ReadFrom(f, Cat(head, Written(c)))
         /\ c.type >= 2 \/ Len(t) = 1 =>
              /\ Is(r) = Says(c) \cup Words(t)
              /\ ReadFrom(f, head) = {r}
<1>1. PICK w : w = Written(c)
  OBVIOUS
<1>2. w \in Seq(Nat) /\ Len(w) >= 1
  <2>1. /\ Written(c) \in Seq(Nat) /\ Len(Header(c)) >= 1 /\ Header(c) \in Seq(Nat)
        /\ Len(Written(c)) = Len(Header(c)) + Len(c.msg) /\ Len(c.msg) \in Nat
    BY WrittenForm
  <2>2. Len(Header(c)) \in Nat
    BY <2>1
  <2> QED
    BY <1>1, <2>1, <2>2
<1>3. PICK h : h = Cat(head, w)
  OBVIOUS
<1>4. PICK tail : tail = Cat(w, t)
  OBVIOUS
<1>5. h \in Seq(Nat) /\ tail \in Seq(Nat) /\ content = Cat(h, t) /\ content = Cat(head, tail)
  BY <1>1, <1>2, <1>3, <1>4, CatType, CatAssoc, Zenon
<1>6. Len(tail) = Len(w) + Len(t) /\ Len(content) = Len(h) + Len(t)
  BY <1>2, <1>4, <1>5, CatLen, Zenon
<1>7. Len(w) \in Nat /\ Len(t) \in Nat /\ Len(h) \in Nat
  BY <1>2, <1>5
<1>8. Len(tail) >= 1
  BY <1>2, <1>6, <1>7
<1>9. r = RTMPControlPacket(tail)
  BY <1>1, <1>4
<1>10. ReadFrom(f, head) = {r} \cup Behind(content, f, r)
  <2>1. tail # <<>>
    BY <1>8
  <2> QED
    <3>1. RoundAt(f, head, tail)
      BY <1>5, <2>1, RoundOf, Zenon
    <3> QED
      BY <1>5, <1>9, <3>1, Zenon DEF RoundAt
<1>11. /\ r.parsed
       /\ c.type < 2 /\ Len(t) # 1 => Is(r) = Says(c) /\ r.remain = t
       /\ c.type >= 2 \/ Len(t) = 1 => Is(r) = Says(c) \cup Words(t) /\ r.remain = <<>>
  BY PacketSays, Zenon
<1>12. ReadFrom(f, head) = {r} \cup Range(f[Len(content) + 1 - Len(r.remain)])
  BY <1>10, <1>11, Zenon DEF Behind
<1>13. r.remain = t => Len(content) + 1 - Len(r.remain) = Len(h) + 1
  <2>1. Len(content) + 1 - Len(t) = Len(h) + 1
    BY <1>6, <1>7
  <2> QED
    BY <2>1
<1>14. r.remain = <<>> => Range(f[Len(content) + 1 - Len(r.remain)]) = {}
  <2>1. Len(<<>>) = 0 /\ Len(content) + 1 - 0 = Len(content) + 1
    OBVIOUS
  <2>2. Range(f[Len(content) + 1]) = {}
    BY LoopEnds, Zenon
  <2> QED
    BY <2>1, <2>2, Zenon
<1>15. {r} \cup {} = {r}
  OBVIOUS
<1>16. r.remain = t => ReadFrom(f, head) = {r} \cup ReadFrom(f, h)
  BY <1>12, <1>13, Zenon DEF ReadFrom
<1>17. r.remain = <<>> => ReadFrom(f, head) = {r}
  BY <1>12, <1>14, <1>15, Zenon
<1> QED
  BY <1>1, <1>3, <1>5, <1>11, <1>16, <1>17, Zenon

\* The packets read at the end of the last whole chunk: none, or one that says nothing.
LEMMA LastRound ==
  ASSUME NEW ks \in Seq(Chunks), NEW k, NEW e, Stops(ks, k, e),
         NEW content \in Seq(Nat), NEW f, Loops(content, f), NEW head \in Seq(Nat),
         content = Cat(head, Begun(ks, k, e))
  PROVE  /\ \A p \in ReadFrom(f, head) : Is(p) = {}
         /\ e = 0 => ReadFrom(f, head) = {}
<1>1. PICK b \in Seq(Nat) : b = Begun(ks, k, e) /\ Len(b) = e /\ (e = 0 => b = <<>>)
  BY BegunForm
<1>2. CASE e = 0
  <2>1. content = head
    BY <1>1, <1>2, CatEmpty, Zenon
  <2>2. ReadFrom(f, head) = {}
    BY <2>1, LoopEnds, Zenon DEF ReadFrom
  <2> QED
    BY <2>2
<1>3. CASE e # 0
  <2>1. e >= 1
    BY <1>3 DEF Stops
  <2>2. PICK r : r = RTMPControlPacket(b)
    OBVIOUS
  <2>3. ReadFrom(f, head) = {r} \cup Behind(content, f, r)
    <3>1. b # <<>> /\ content = Cat(head, b)
      BY <1>1, <2>1
    <3> QED
      <4>1. RoundAt(f, head, b)
        BY <3>1, RoundOf, Zenon
      <4> QED
        BY <2>2, <3>1, <4>1, Zenon DEF RoundAt
  <2>4. Is(r) = {} /\ r.remain = <<>>
    BY <1>1, <1>3, <2>2, BegunSays, Zenon
  <2>5. Range(f[Len(content) + 1 - Len(r.remain)]) = {}
    <3>1. Len(<<>>) = 0 /\ Len(content) + 1 - 0 = Len(content) + 1
      OBVIOUS
    <3>2. Range(f[Len(content) + 1]) = {}
      BY LoopEnds, Zenon
    <3> QED
      BY <2>4, <3>1, <3>2, Zenon
  <2>6. ReadFrom(f, head) = {r}
    BY <2>3, <2>5 DEF Behind
  <2> QED
    BY <1>3, <2>4, <2>6
<1> QED
  BY <1>2, <1>3

\* What is read from the end of a chunk on says no more than the chunks from there on.
LEMMA ReadsWhatIsSaid ==
  ASSUME NEW ks \in Seq(Chunks), NEW k, NEW e, Stops(ks, k, e),
         NEW content \in Seq(Nat), NEW f, Loops(content, f)
  PROVE  \A j \in 0 .. k : \A head \in Seq(Nat) :
            content = Cat(head, Rest(ks, j, k, e)) =>
               \A p \in ReadFrom(f, head) : Is(p) \subseteq SaidOf(ks, j, k)
<1> DEFINE P == {j \in 0 .. k : \A head \in Seq(Nat) :
                    content = Cat(head, Rest(ks, j, k, e)) =>
                       \A p \in ReadFrom(f, head) : Is(p) \subseteq SaidOf(ks, j, k)}
<1>1. k \in Nat
  BY SentTypes DEF Stops
<1>2. k \in P
  <2>1. ASSUME NEW head \in Seq(Nat), content = Cat(head, Rest(ks, k, k, e)),
               NEW p \in ReadFrom(f, head)
        PROVE  Is(p) = {}
    <3>1. content = Cat(head, Begun(ks, k, e))
      BY <2>1, RestLast
    <3> QED
      BY <2>1, <3>1, LastRound, Zenon
  <2> QED
    BY <1>1, <2>1
<1>3. ASSUME NEW j \in 0 .. k - 1, j + 1 \in P PROVE j \in P
  <2>1. PICK c \in Chunks : c = ks[j + 1]
    BY RestFirst
  <2>2. PICK t : t = Rest(ks, j + 1, k, e)
    OBVIOUS
  <2>3. j \in 0 .. k /\ j + 1 \in 0 .. k
    BY <1>1
  <2>4. t \in Seq(Nat) /\ Written(c) \in Seq(Nat)
    BY <2>2, <2>3, RestForm, WrittenForm
  <2>5. Rest(ks, j, k, e) = Cat(Written(c), t)
    BY <2>1, <2>2, RestFirst
  <2>6. SaidOf(ks, j, k) = Says(c) \cup SaidOf(ks, j + 1, k)
    BY <1>1, <2>1, SaidOfFirst
  <2>7. Words(t) \subseteq SaidOf(ks, j + 1, k)
    BY <2>2, <2>3, RestWords
  <2>8. ASSUME NEW head \in Seq(Nat), content = Cat(head, Rest(ks, j, k, e)),
               NEW p \in ReadFrom(f, head)
        PROVE  Is(p) \subseteq SaidOf(ks, j, k)
    <3>1. content = Cat(head, Cat(Written(c), t))
      BY <2>5, <2>8
    <3>2. PICK r : r = RTMPControlPacket(Cat(Written(c), t))
      OBVIOUS
    <3>3. PICK h : h = Cat(head, Written(c))
      OBVIOUS
    <3>10. /\ Cat(head, Written(c)) \in Seq(Nat) /\ content = Cat(Cat(head, Written(c)), t)
           /\ r.parsed
           /\ c.type < 2 /\ Len(t) # 1 =>
                /\ Is(r) = Says(c)
                /\ ReadFrom(f, head) = {r} \cup ReadFrom(f, Cat(head, Written(c)))
           /\ c.type >= 2 \/ Len(t) = 1 =>
                /\ Is(r) = Says(c) \cup Words(t)
                /\ ReadFrom(f, head) = {r}
      BY <2>4, <3>1, <3>2, ChunkRound
    <3>4. /\ h \in Seq(Nat) /\ content = Cat(h, t)
          /\ c.type < 2 /\ Len(t) # 1 =>
               Is(r) = Says(c) /\ ReadFrom(f, head) = {r} \cup ReadFrom(f, h)
          /\ c.type >= 2 \/ Len(t) = 1 =>
               Is(r) = Says(c) \cup Words(t) /\ ReadFrom(f, head) = {r}
      BY <3>3, <3>10, Zenon
    <3>5. \A q \in ReadFrom(f, h) : Is(q) \subseteq SaidOf(ks, j + 1, k)
      BY <1>3, <2>2, <3>4
    <3>6. (c.type < 2 /\ Len(t) # 1) \/ (c.type >= 2 \/ Len(t) = 1)
      BY DEF Chunks
    <3>7. CASE c.type < 2 /\ Len(t) # 1
      <4>1. p = r \/ p \in ReadFrom(f, h)
        BY <2>8, <3>4, <3>7
      <4> QED
        BY <2>6, <3>4, <3>5, <3>7, <4>1
    <3>8. CASE c.type >= 2 \/ Len(t) = 1
      <4>1. p = r
        BY <2>8, <3>4, <3>8
      <4> QED
        BY <2>6, <2>7, <3>4, <3>8, <4>1
    <3> QED
      BY <3>6, <3>7, <3>8, Zenon
  <2> QED
    BY <2>3, <2>8
<1> HIDE DEF P
<1>4. \A j \in 0 .. k : j \in P
  BY <1>1, <1>2, <1>3, DownFrom
<1> QED
  BY <1>4 DEF P

\* The packets of some bytes are those that the loop reads from the first of them on.
LEMMA ReadFromStart ==
  ASSUME NEW content \in Seq(Nat)
  PROVE  \E f : Loops(content, f) /\ Range(Packets(content)) = ReadFrom(f, <<>>)
                /\ <<>> \in Seq(Nat) /\ Cat(<<>>, content) = content
<1>1. PICK f : Loops(content, f) /\ Packets(content) = f[1]
  BY PacketsLoop
<1>2. Len(<<>>) + 1 = 1 /\ <<>> \in Seq(Nat)
  OBVIOUS
<1>3. ReadFrom(f, <<>>) = Range(Packets(content))
  BY <1>1, <1>2, Zenon DEF ReadFrom
<1> QED
  BY <1>1, <1>2, <1>3, CatEmpty, Zenon

LEMMA RecognisedForm ==
  ASSUME NEW content
  PROVE  Recognised(content) =
            IF \E p \in Range(Packets(content)) : ~p.parsed THEN {}
            ELSE UNION {Is(p) : p \in Range(Packets(content))}
<1>1. PICK rs : rs = Packets(content)
  OBVIOUS
<1>2. Recognised(content) =
         IF \E i \in DOMAIN rs : ~rs[i].parsed THEN {} ELSE UNION {Is(rs[i]) : i \in DOMAIN rs}
  BY <1>1, Zenon DEF Recognised
<1>3. (\E i \in DOMAIN rs : ~rs[i].parsed) <=> \E p \in Range(rs) : ~p.parsed
  BY DEF Range
<1>4. {Is(rs[i]) : i \in DOMAIN rs} = {Is(p) : p \in Range(rs)}
  BY DEF Range
<1> QED
  BY <1>1, <1>2, <1>3, <1>4, Zenon

\* Nothing is recognised that was not said.
LEMMA RecognisesWhatIsSaid ==
  ASSUME NEW ks \in Seq(Chunks), NEW k, NEW e, Stops(ks, k, e), NEW j \in 0 .. k
  PROVE  Recognised(Rest(ks, j, k, e)) \subseteq SaidOf(ks, j, k)
<1>1. PICK content \in Seq(Nat) : content = Rest(ks, j, k, e)
  BY RestForm
<1>2. PICK f : Loops(content, f) /\ Range(Packets(content)) = ReadFrom(f, <<>>)
               /\ <<>> \in Seq(Nat) /\ Cat(<<>>, content) = content
  BY ReadFromStart
<1>3. \A p \in Range(Packets(content)) : Is(p) \subseteq SaidOf(ks, j, k)
  <2>1. \A i \in 0 .. k : \A head \in Seq(Nat) :
            content = Cat(head, Rest(ks, i, k, e)) =>
               \A p \in ReadFrom(f, head) : Is(p) \subseteq SaidOf(ks, i, k)
    BY <1>2, ReadsWhatIsSaid
  <2>2. content = Cat(<<>>, Rest(ks, j, k, e)) /\ <<>> \in Seq(Nat)
    BY <1>1, <1>2, Zenon
  <2>3. \A p \in ReadFrom(f, <<>>) : Is(p) \subseteq SaidOf(ks, j, k)
    BY <2>1, <2>2, Zenon
  <2> QED
    BY <1>2, <2>3, Zenon
<1>4. Recognised(content) \subseteq SaidOf(ks, j, k)
  BY <1>3, RecognisedForm
<1> QED
  BY <1>1, <1>4

\* All the packets that are read from the end of the j-th chunk on parse, and they say
\* just what is said from there to the end of the k-th.
Tells(ks, f, head, j, k) ==
    /\ \A p \in ReadFrom(f, head) : p.parsed
    /\ UNION {Is(p) : p \in ReadFrom(f, head)} = SaidOf(ks, j, k)

\* A segment ends there: with a chunk, or with the first byte behind one with a length.
EndsWell(ks, k, e) == Stops(ks, k, e) /\ k >= 1 /\ (e = 0 \/ (e = 1 /\ ks[k].type < 2))

\* What is read from the end of a chunk on, if that chunk's packet says what it should.
LEMMA RestTells ==
  ASSUME NEW ks \in Seq(Chunks), NEW k, NEW e, Stops(ks, k, e),
         NEW content \in Seq(Nat), NEW f, Loops(content, f),
         NEW j \in 0 .. k - 1, NEW head \in Seq(Nat), content = Cat(head, Rest(ks, j, k, e)),
         NEW t, t = Rest(ks, j + 1, k, e),
         ks[j + 1].type >= 2 \/ Len(t) = 1 =>
            Words(t) = {} /\ SaidOf(ks, j + 1, k) = {},
         NEW h, h = Cat(head, Written(ks[j + 1])),
         ks[j + 1].type < 2 /\ Len(t) # 1 /\ h \in Seq(Nat) /\ content = Cat(h, t) =>
            Tells(ks, f, h, j + 1, k)
  PROVE  Tells(ks, f, head, j, k)
<1>1. PICK c \in Chunks : c = ks[j + 1]
  BY RestFirst
<1>2. k \in Nat /\ j + 1 \in 0 .. k
  BY SentTypes DEF Stops
<1>3. t \in Seq(Nat) /\ Written(c) \in Seq(Nat)
  BY <1>2, RestForm, WrittenForm
<1>4. content = Cat(head, Cat(Written(c), t))
  BY <1>1, RestFirst
<1>5. SaidOf(ks, j, k) = Says(c) \cup SaidOf(ks, j + 1, k)
  BY <1>1, <1>2, SaidOfFirst
<1>6. PICK r : r = RTMPControlPacket(Cat(Written(c), t))
  OBVIOUS
<1>7. /\ Cat(head, Written(c)) \in Seq(Nat) /\ content = Cat(Cat(head, Written(c)), t)
      /\ r.parsed
      /\ c.type < 2 /\ Len(t) # 1 =>
           /\ Is(r) = Says(c)
           /\ ReadFrom(f, head) = {r} \cup ReadFrom(f, Cat(head, Written(c)))
      /\ c.type >= 2 \/ Len(t) = 1 =>
           /\ Is(r) = Says(c) \cup Words(t)
           /\ ReadFrom(f, head) = {r}
  BY <1>3, <1>4, <1>6, ChunkRound
<1>8. /\ h \in Seq(Nat) /\ content = Cat(h, t)
      /\ c.type < 2 /\ Len(t) # 1 =>
           Is(r) = Says(c) /\ ReadFrom(f, head) = {r} \cup ReadFrom(f, h)
  BY <1>1, <1>7, Zenon
<1>9. (c.type < 2 /\ Len(t) # 1) \/ (c.type >= 2 \/ Len(t) = 1)
  BY DEF Chunks
<1>10. CASE c.type < 2 /\ Len(t) # 1
  <2>1. Tells(ks, f, h, j + 1, k)
    BY <1>1, <1>8, <1>10, Zenon
  <2>2. UNION {Is(p) : p \in {r} \cup ReadFrom(f, h)}
           = Is(r) \cup UNION {Is(p) : p \in ReadFrom(f, h)}
    OBVIOUS
  <2> QED
    BY <1>5, <1>7, <1>8, <1>10, <2>1, <2>2 DEF Tells
<1>11. CASE c.type >= 2 \/ Len(t) = 1
  <2>1. UNION {Is(p) : p \in {r}} = Is(r)
    OBVIOUS
  <2> QED
    BY <1>1, <1>5, <1>7, <1>11, <2>1 DEF Tells
<1> QED
  BY <1>9, <1>10, <1>11, Zenon

LEMMA ReadsAllThatIsSaid ==
  ASSUME NEW ks \in Seq(Chunks), NEW k, NEW e, EndsWell(ks, k, e),
         NEW content \in Seq(Nat), NEW f, Loops(content, f)
  PROVE  \A j \in 0 .. k - 1 : (\A i \in j + 1 .. k - 1 : ks[i].type < 2) =>
            \A head \in Seq(Nat) :
               content = Cat(head, Rest(ks, j, k, e)) => Tells(ks, f, head, j, k)
<1> DEFINE P == {j \in 0 .. k - 1 : (\A i \in j + 1 .. k - 1 : ks[i].type < 2) =>
                    \A head \in Seq(Nat) :
                       content = Cat(head, Rest(ks, j, k, e)) => Tells(ks, f, head, j, k)}
<1>1. k \in Nat /\ k >= 1 /\ k - 1 \in Nat /\ k - 1 \in 0 .. k - 1 /\ (k - 1) + 1 = k
  BY SentTypes DEF Stops, EndsWell
<1>2. Stops(ks, k, e) /\ e \in {0, 1} /\ (e # 0 => ks[k].type < 2)
  BY DEF EndsWell
<1>3. PICK b \in Seq(Nat) : b = Begun(ks, k, e) /\ Len(b) = e /\ Words(b) = {}
  BY <1>2, BegunForm
<1>4. k - 1 \in P
  <2>1. Rest(ks, k, k, e) = b
    BY <1>2, <1>3, RestLast
  <2>2. SaidOf(ks, k, k) = {}
    BY <1>1, SaidOfNone
  <2>3. ASSUME NEW head \in Seq(Nat), content = Cat(head, Rest(ks, k - 1, k, e))
        PROVE  Tells(ks, f, head, k - 1, k)
    <3>1. PICK j \in 0 .. k - 1 : j = k - 1 /\ j + 1 = k
      BY <1>1
    <3>2. PICK h : h = Cat(head, Written(ks[j + 1]))
      OBVIOUS
    <3>3. b = Rest(ks, j + 1, k, e)
      BY <2>1, <3>1
    <3>4. Words(b) = {} /\ SaidOf(ks, j + 1, k) = {}
      BY <1>3, <2>2, <3>1
    <3>5. ASSUME ks[j + 1].type < 2, Len(b) # 1, h \in Seq(Nat), content = Cat(h, b)
          PROVE  Tells(ks, f, h, j + 1, k)
      <4>1. e = 0
        BY <1>2, <1>3, <3>5
      <4>2. ReadFrom(f, h) = {}
        BY <1>2, <1>3, <3>5, <4>1, LastRound
      <4> QED
        BY <3>4, <4>2 DEF Tells
    <3>6. content = Cat(head, Rest(ks, j, k, e))
      BY <2>3, <3>1
    <3>7. Tells(ks, f, head, j, k)
      <4>1. PICK t : t = Rest(ks, j + 1, k, e)
        OBVIOUS
      <4>2. ks[j + 1].type >= 2 \/ Len(t) = 1 => Words(t) = {} /\ SaidOf(ks, j + 1, k) = {}
        BY <3>3, <3>4, <4>1
      <4>3. ks[j + 1].type < 2 /\ Len(t) # 1 /\ h \in Seq(Nat) /\ content = Cat(h, t) =>
               Tells(ks, f, h, j + 1, k)
        BY <3>3, <3>5, <4>1
      <4>4. Stops(ks, k, e)
        BY <1>2
      <4> HIDE DEF P
      <4> QED
        BY <3>2, <3>6, <4>1, <4>2, <4>3, <4>4, RestTells, SMTT(30)
    <3> QED
      BY <3>1, <3>7
  <2> QED
    BY <1>1, <2>3
<1>5. ASSUME NEW j \in 0 .. (k - 1) - 1, j + 1 \in P PROVE j \in P
  <2>1. j \in 0 .. k - 1 /\ j + 1 \in 0 .. k - 1 /\ j + 1 \in 0 .. k /\ j + 1 \in j + 1 .. k - 1
    BY <1>1
  <2>2. ASSUME \A i \in j + 1 .. k - 1 : ks[i].type < 2,
               NEW head \in Seq(Nat), content = Cat(head, Rest(ks, j, k, e))
        PROVE  Tells(ks, f, head, j, k)
    <3>1. PICK t : t = Rest(ks, j + 1, k, e)
      OBVIOUS
    <3>2. PICK h : h = Cat(head, Written(ks[j + 1]))
      OBVIOUS
    <3>3. ks[j + 1].type < 2 /\ ~(ks[j + 1].type >= 2)
      <4>1. ks[j + 1].type < 2
        BY <2>1, <2>2
      <4>2. ks[j + 1] \in Chunks
        BY <1>2, <2>1, RestFirst
      <4> QED
        BY <4>1, <4>2 DEF Chunks
    <3>4. Len(t) = 1 => Words(t) = {} /\ SaidOf(ks, j + 1, k) = {}
      <4>1. ASSUME Len(t) = 1 PROVE SaidOf(ks, j + 1, k) = {}
        BY <1>2, <2>1, <3>1, <4>1, LoneByte
      <4>2. Words(t) \subseteq SaidOf(ks, j + 1, k)
        BY <1>2, <2>1, <3>1, RestWords
      <4> QED
        BY <4>1, <4>2
    <3>5. ASSUME h \in Seq(Nat), content = Cat(h, t) PROVE Tells(ks, f, h, j + 1, k)
      <4>1. \A i \in (j + 1) + 1 .. k - 1 : ks[i].type < 2
        BY <1>1, <2>1, <2>2
      <4> QED
        BY <1>5, <3>1, <3>5, <4>1
    <3> QED
      BY <1>2, <2>1, <2>2, <3>1, <3>2, <3>3, <3>4, <3>5, RestTells
  <2> QED
    BY <2>1, <2>2
<1> HIDE DEF P
<1>6. \A j \in 0 .. k - 1 : j \in P
  BY <1>1, <1>4, <1>5, DownFrom
<1> QED
  BY <1>6 DEF P

\* All that is said is recognised, if only the last chunk may have no length.
LEMMA RecognisesAllThatIsSaid ==
  ASSUME NEW ks \in Seq(Chunks), NEW k, NEW e, EndsWell(ks, k, e), NEW j \in 0 .. k - 1,
         \A i \in j + 1 .. k - 1 : ks[i].type < 2
  PROVE  Recognised(Rest(ks, j, k, e)) = SaidOf(ks, j, k)
<1>1. PICK content \in Seq(Nat) : content = Rest(ks, j, k, e)
  <2>1. Stops(ks, k, e) /\ j \in 0 .. k
    BY SentTypes DEF EndsWell, Stops
  <2> QED
    BY <2>1, RestForm
<1>2. PICK f : Loops(content, f) /\ Range(Packets(content)) = ReadFrom(f, <<>>)
               /\ <<>> \in Seq(Nat) /\ Cat(<<>>, content) = content
  BY ReadFromStart
<1>3. \A i \in 0 .. k - 1 : (\A n \in i + 1 .. k - 1 : ks[n].type < 2) =>
            \A head \in Seq(Nat) :
               content = Cat(head, Rest(ks, i, k, e)) => Tells(ks, f, head, i, k)
  BY <1>2, ReadsAllThatIsSaid
<1>4. content = Cat(<<>>, Rest(ks, j, k, e))
  BY <1>1, <1>2, Zenon
<1>5. Tells(ks, f, <<>>, j, k)
  BY <1>2, <1>3, <1>4, Zenon
<1>6. Recognised(content) = SaidOf(ks, j, k)
  BY <1>2, <1>5, RecognisedForm DEF Tells
<1> QED
  BY <1>1, <1>6

\* The bytes from the end of a chunk on start with those already sent of the next one.
LEMMA RestStarts ==
  ASSUME NEW ks \in Seq(Chunks), NEW j, NEW x, Stops(ks, j, x), NEW k, NEW e, Stops(ks, k, e),
         j <= k, j = k => x <= e
  PROVE  /\ x \in 0 .. Len(Rest(ks, j, k, e))
         /\ SubSeq(Rest(ks, j, k, e), 1, x) = Begun(ks, j, x)
<1>1. j \in 0 .. k /\ j \in Nat /\ k \in Nat /\ x \in {0, 1, 12} /\ e \in {0, 1, 12} /\ Len(ks) \in Nat
  BY SentTypes DEF Stops
<1>2. PICK all \in Seq(Nat) : all = Rest(ks, j, k, e)
  BY <1>1, RestForm
<1>3. CASE x = 0
  <2>1. SubSeq(all, 1, 0) = <<>> /\ Len(all) \in Nat
    OBVIOUS
  <2> QED
    BY <1>2, <1>3, <2>1 DEF Begun
<1>4. CASE x # 0
  <2>1. j + 1 \in 1 .. Len(ks) /\ ks[j + 1] \in Chunks /\ x < Len(Written(ks[j + 1]))
    BY <1>1, <1>4, SentTypes DEF Stops
  <2>2. PICK v \in Seq(Nat) : v = Written(ks[j + 1])
    BY <2>1, WrittenForm
  <2>3. x \in 0 .. Len(v) /\ Len(v) \in Nat
    BY <1>1, <2>1, <2>2
  <2>4. Begun(ks, j, x) = SubSeq(v, 1, x)
    BY <1>4, <2>2 DEF Begun
  <2>5. CASE j < k
    <3>1. j \in 0 .. k - 1 /\ j + 1 \in 0 .. k
      BY <1>1, <2>5
    <3>2. PICK t \in Seq(Nat) : t = Rest(ks, j + 1, k, e)
      BY <3>1, RestForm
    <3>3. all = Cat(v, t)
      BY <1>2, <2>2, <3>1, <3>2, RestFirst
    <3>4. SubSeq(all, 1, x) = SubSeq(v, 1, x)
      BY <2>3, <3>3, StartOfCat
    <3>5. Len(all) = Len(v) + Len(t) /\ Len(t) \in Nat
      BY <3>3, CatLen
    <3>6. x \in 0 .. Len(all)
      BY <2>3, <3>5
    <3> QED
      BY <1>2, <2>4, <3>4, <3>6
  <2>6. CASE j = k
    <3>1. e # 0 /\ x <= e
      BY <1>1, <1>4, <2>6
    <3>2. PICK b : b = SubSeq(v, 1, e)
      OBVIOUS
    <3>3. e \in 0 .. Len(v)
      <4>1. e < Len(Written(ks[k + 1]))
        BY <3>1 DEF Stops
      <4> QED
        BY <1>1, <2>2, <2>3, <2>6, <4>1
    <3>4. all = b
      <4>1. all = Begun(ks, k, e)
        BY <1>2, <2>6, RestLast
      <4> QED
        BY <2>2, <2>6, <3>1, <3>2, <4>1 DEF Begun
    <3>5. PICK d : d = SubSeq(v, e + 1, Len(v))
      OBVIOUS
    <3>6. b \in Seq(Nat) /\ Len(b) = e /\ d \in Seq(Nat) /\ v = Cat(b, d)
      BY <3>2, <3>3, <3>5, CatSplit
    <3>7. x \in 0 .. Len(b)
      BY <1>1, <3>1, <3>6
    <3>8. SubSeq(v, 1, x) = SubSeq(b, 1, x)
      BY <3>6, <3>7, StartOfCat
    <3> QED
      BY <1>2, <2>4, <3>4, <3>7, <3>8
  <2> QED
    BY <1>1, <2>5, <2>6
<1> QED
  BY <1>3, <1>4

\* The bytes between two places lead from the one to the other.
Whole(ks, j, k) == FlattenSeq([i \in 1 .. k - j |-> Written(ks[j + i])])
Segment(ks, j, x, k, e) ==
    SubSeq(Cat(Whole(ks, j, k), Begun(ks, k, e)), x + 1, Len(Whole(ks, j, k)) + e)

LEMMA SegmentForm ==
  ASSUME NEW ks \in Seq(Chunks), NEW j, NEW x, Stops(ks, j, x), NEW k, NEW e, Stops(ks, k, e),
         j <= k, j = k => x <= e
  PROVE  /\ Segment(ks, j, x, k, e) \in Seq(Nat)
         /\ Cat(Place(ks, j, x), Segment(ks, j, x, k, e)) = Place(ks, k, e)
<1> DEFINE whole == Whole(ks, j, k)
           bytes == Segment(ks, j, x, k, e)
<1>0. bytes = SubSeq(Cat(whole, Begun(ks, k, e)), x + 1, Len(whole) + e)
  BY Zenon DEF Segment
<1>1. j \in 0 .. k /\ j \in 0 .. Len(ks) /\ k \in j .. Len(ks) /\ k \in 0 .. Len(ks)
  BY SentTypes DEF Stops
<1>2. PICK w \in Seq(Nat) : w = Between(ks, j, k) /\ Sent(ks)[k] = Cat(Sent(ks)[j], w)
  BY <1>1, BetweenForm
<1>3. whole = w
  BY <1>1, <1>2, WholeIsBetween DEF Whole
<1> HIDE DEF whole, bytes
<1>4. PICK b \in Seq(Nat) : b = Begun(ks, k, e) /\ Len(b) = e
  BY BegunForm
<1>5. PICK a \in Seq(Nat) : a = Begun(ks, j, x) /\ Len(a) = x
  BY BegunForm
<1>6. PICK all \in Seq(Nat) : all = Cat(w, b)
  BY CatType
<1>7. all = Rest(ks, j, k, e)
  BY <1>2, <1>4, <1>6, Zenon DEF Rest
<1>8. x \in 0 .. Len(all) /\ SubSeq(all, 1, x) = a
  BY <1>5, <1>7, RestStarts
<1>9. Len(all) = Len(whole) + e
  BY <1>3, <1>4, <1>6, CatLen
<1>10. bytes = SubSeq(all, x + 1, Len(all))
  BY <1>0, <1>3, <1>4, <1>6, <1>9, Zenon
<1>11. bytes \in Seq(Nat) /\ all = Cat(a, bytes)
  <2>1. SubSeq(all, x + 1, Len(all)) \in Seq(Nat)
        /\ all = Cat(SubSeq(all, 1, x), SubSeq(all, x + 1, Len(all)))
    BY <1>8, CatSplit
  <2> QED
    BY <1>8, <1>10, <2>1, Zenon
<1>12. PICK s \in Seq(Nat) : s = Sent(ks)[j]
  BY <1>1, SentTypes
<1>13. Place(ks, k, e) = Cat(Cat(s, w), b) /\ Place(ks, j, x) = Cat(s, a)
  BY <1>2, <1>4, <1>5, <1>12, Zenon DEF Place
<1>14. Cat(Cat(s, w), b) = Cat(s, all)
  BY <1>6, CatAssoc
<1>15. Cat(Cat(s, a), bytes) = Cat(s, Cat(a, bytes))
  <2>1. PICK q \in Seq(Nat) : q = bytes
    BY <1>11
  <2>2. Cat(Cat(s, a), q) = Cat(s, Cat(a, q))
    BY CatAssoc
  <2> QED
    BY <2>1, <2>2, Zenon
<1> QED
  BY <1>11, <1>13, <1>14, <1>15, Zenon DEF bytes

\* Behind the end of a chunk, they lead to what is behind it.
LEMMA PlaceIsRest ==
  ASSUME NEW ks \in Seq(Chunks), NEW k, NEW e, Stops(ks, k, e), NEW j \in 0 .. k
  PROVE  /\ Place(ks, j, 0) = Sent(ks)[j] /\ Place(ks, j, 0) \in Seq(Nat)
         /\ Place(ks, k, e) = Cat(Place(ks, j, 0), Rest(ks, j, k, e))
<1>1. j \in 0 .. Len(ks) /\ k \in j .. Len(ks)
  BY SentTypes DEF Stops
<1>2. PICK s \in Seq(Nat) : s = Sent(ks)[j]
  BY <1>1, SentTypes
<1>3. PICK w \in Seq(Nat) : w = Between(ks, j, k) /\ Sent(ks)[k] = Cat(s, w)
  BY <1>1, <1>2, BetweenForm
<1>4. PICK b \in Seq(Nat) : b = Begun(ks, k, e)
  BY BegunForm
<1>5. Place(ks, j, 0) = s
  BY <1>2, CatEmpty, Zenon DEF Place, Begun
<1>6. Place(ks, k, e) = Cat(Cat(s, w), b) /\ Rest(ks, j, k, e) = Cat(w, b)
  BY <1>3, <1>4, Zenon DEF Place, Rest
<1>7. Cat(Cat(s, w), b) = Cat(s, Cat(w, b))
  BY CatAssoc
<1> QED
  BY <1>2, <1>5, <1>6, <1>7, Zenon

(***************************************************************************)
(* Where each connection and the buffer are in what was sent, and that     *)
(* nothing is missed nor made up.                                          *)
(***************************************************************************)
PlaceHolds == \A c \in Conns : Stops(stream[c], chunk[c], extra[c])

\* Twelve bytes that were kept right where a chunk starts are what that connection sent
\* from there to the place that the owner has on record.
OwnerHolds ==
    /\ prepend_buf \in Seq(Nat)
    /\ \A c \in Conns : owner.conn = c /\ owner.upto[2] # -1 =>
          /\ Stops(stream[c], owner.upto[1], owner.upto[2])
          /\ owner.from \in 0 .. owner.upto[1]
          /\ Cat(Place(stream[c], owner.from, 0), prepend_buf)
                = Place(stream[c], owner.upto[1], owner.upto[2])
          /\ owner.says = SaidOf(stream[c], owner.from, owner.upto[1])

ParserInv == TypeOK /\ PlaceHolds /\ OwnerHolds

LEMMA StreamForm ==
  ASSUME TypeOK, NEW c \in Conns
  PROVE  /\ stream[c] \in Seq(Chunks) /\ Len(stream[c]) \in Nat
         /\ chunk[c] \in Nat /\ extra[c] \in {0, 1, 12} /\ c # "none"
<1>1. stream[c] \in Seq(Chunks)
  BY StreamsAssumption DEF TypeOK
<1> QED
  BY <1>1, StreamsAssumption DEF TypeOK

LEMMA EndStops ==
  ASSUME TypeOK, NEW c \in Conns, NEW k \in chunk[c] .. Len(stream[c]), NEW e \in {0, 1, 12},
         EndsAt(c, k, e)
  PROVE  /\ Stops(stream[c], k, e) /\ k \in Nat
         /\ chunk[c] <= k /\ (chunk[c] = k => extra[c] <= e)
<1>1. stream[c] \in Seq(Chunks) /\ Len(stream[c]) \in Nat /\ chunk[c] \in Nat
      /\ extra[c] \in {0, 1, 12}
  BY StreamForm
<1>2. k \in Nat /\ k \in 0 .. Len(stream[c]) /\ chunk[c] <= k
  BY <1>1
<1>3. chunk[c] = k => extra[c] <= e
  BY <1>1 DEF EndsAt
<1>4. Stops(stream[c], k, e)
  BY <1>2 DEF EndsAt, Stops
<1> QED
  BY <1>2, <1>3, <1>4

\* The bytes of a segment lead from the connection's place to where the segment ends.
LEMMA BytesForm ==
  ASSUME TypeOK, PlaceHolds,
         NEW c \in Conns, NEW k \in chunk[c] .. Len(stream[c]), NEW e \in {0, 1, 12},
         EndsAt(c, k, e)
  PROVE  /\ Bytes(c, k, e) \in Seq(Nat)
         /\ Cat(Place(stream[c], chunk[c], extra[c]), Bytes(c, k, e)) = Place(stream[c], k, e)
<1>1. PICK ks \in Seq(Chunks) : ks = stream[c]
  BY StreamForm
<1>2. PICK j : j = chunk[c]
  OBVIOUS
<1>3. PICK x : x = extra[c]
  OBVIOUS
<1>4. Stops(ks, j, x) /\ Stops(ks, k, e) /\ j <= k /\ (j = k => x <= e)
  BY <1>1, <1>2, <1>3, EndStops DEF PlaceHolds
<1>5. /\ Segment(ks, j, x, k, e) \in Seq(Nat)
      /\ Cat(Place(ks, j, x), Segment(ks, j, x, k, e)) = Place(ks, k, e)
  BY <1>4, SegmentForm
<1>6. Bytes(c, k, e) = Segment(ks, j, x, k, e)
  BY <1>1, <1>2, <1>3, Zenon DEF Bytes, Segment, Whole, Cat, Begun
<1> QED
  BY <1>1, <1>2, <1>3, <1>5, <1>6, Zenon

LEMMA InvInitially == Init => PlaceHolds /\ OwnerHolds
<1> SUFFICES ASSUME Init PROVE PlaceHolds /\ OwnerHolds
  OBVIOUS
<1>1. ASSUME NEW c \in Conns PROVE Stops(stream[c], chunk[c], extra[c])
  <2>1. chunk[c] = 0 /\ extra[c] = 0 /\ stream[c] \in Seq(Chunks)
    BY StreamsAssumption DEF Init
  <2> QED
    BY <2>1 DEF Stops
<1>2. owner.conn = "none" /\ prepend_buf = <<>> /\ "none" \notin Conns
  BY StreamsAssumption DEF Init, NoOwner
<1>3. prepend_buf \in Seq(Nat)
  BY <1>2
<1> QED
  BY <1>1, <1>2, <1>3 DEF PlaceHolds, OwnerHolds

LEMMA PlaceKept ==
  ASSUME TypeOK, PlaceHolds,
         NEW c \in Conns, NEW k \in chunk[c] .. Len(stream[c]), NEW e \in {0, 1, 12},
         EndsAt(c, k, e), Advance(c, k, e)
  PROVE  PlaceHolds'
<1>1. Stops(stream[c], k, e)
  BY EndStops
<1>2. stream' = stream /\ chunk' = [chunk EXCEPT ![c] = k] /\ extra' = [extra EXCEPT ![c] = e]
  BY DEF Advance
<1>3. chunk \in [Conns -> Nat] /\ extra \in [Conns -> {0, 1, 12}]
  BY DEF TypeOK
<1>4. ASSUME NEW d \in Conns PROVE Stops(stream'[d], chunk'[d], extra'[d])
  <2>1. CASE d = c
    <3>1. chunk'[d] = k /\ extra'[d] = e /\ stream'[d] = stream[c]
      BY <1>2, <1>3, <2>1
    <3> QED
      BY <1>1, <3>1
  <2>2. CASE d # c
    <3>1. chunk'[d] = chunk[d] /\ extra'[d] = extra[d] /\ stream'[d] = stream[d]
      BY <1>2, <1>3, <2>2
    <3>2. Stops(stream[d], chunk[d], extra[d])
      BY DEF PlaceHolds
    <3> QED
      BY <3>1, <3>2
  <2> QED
    BY <2>1, <2>2
<1> QED
  BY <1>4 DEF PlaceHolds, Stops

LEMMA OwnerKept ==
  ASSUME TypeOK, PlaceHolds, OwnerHolds,
         NEW c \in Conns, NEW k \in chunk[c] .. Len(stream[c]), NEW e \in {0, 1, 12},
         EndsAt(c, k, e), Handshake(c, k, e) \/ Prepend(c, k, e) \/ Parse(c, k, e)
  PROVE  OwnerHolds'
<1>1. stream' = stream
  BY DEF Handshake, Prepend, Parse, Advance
<1>2. CASE Handshake(c, k, e)
  <2>1. prepend_buf' = prepend_buf /\ owner' = owner
    BY <1>2 DEF Handshake
  <2> QED
    BY <1>1, <2>1, Zenon DEF OwnerHolds
<1>3. CASE Prepend(c, k, e)
  <2>1. /\ prepend_buf' = Bytes(c, k, e) /\ owner'.conn = c /\ owner'.from = chunk[c]
        /\ owner'.says = Said(c, k)
        /\ owner'.upto = IF extra[c] = 0 THEN <<k, e>> ELSE <<k, -1>>
    BY <1>3 DEF Prepend
  <2>2. PICK b \in Seq(Nat) : b = Bytes(c, k, e)
                              /\ Cat(Place(stream[c], chunk[c], extra[c]), b) = Place(stream[c], k, e)
    BY BytesForm
  <2>3. prepend_buf' \in Seq(Nat)
    BY <2>1, <2>2
  <2>4. ASSUME owner'.upto[2] # -1
        PROVE  /\ Stops(stream[c], owner'.upto[1], owner'.upto[2])
               /\ owner'.from \in 0 .. owner'.upto[1]
               /\ Cat(Place(stream[c], owner'.from, 0), prepend_buf')
                     = Place(stream[c], owner'.upto[1], owner'.upto[2])
               /\ owner'.says = SaidOf(stream[c], owner'.from, owner'.upto[1])
    <3>1. extra[c] = 0 /\ owner'.upto[1] = k /\ owner'.upto[2] = e
      BY <2>1, <2>4
    <3>2. Stops(stream[c], k, e) /\ chunk[c] \in 0 .. k
      BY EndStops, StreamForm
    <3>3. Said(c, k) = SaidOf(stream[c], chunk[c], k)
      BY DEF Said, SaidOf
    <3> QED
      BY <2>1, <2>2, <3>1, <3>2, <3>3, Zenon
  <2>5. \A d \in Conns : owner'.conn = d => d = c
    BY <2>1
  <2> QED
    BY <1>1, <2>3, <2>4, <2>5, Zenon DEF OwnerHolds
<1>4. CASE Parse(c, k, e)
  <2>1. prepend_buf' = <<>> /\ owner'.conn = "none"
    BY <1>4 DEF Parse, UsedUp, NoOwner
  <2>2. <<>> \in Seq(Nat)
    OBVIOUS
  <2> QED
    BY <2>1, <2>2, StreamsAssumption DEF OwnerHolds
<1> QED
  BY <1>2, <1>3, <1>4

LEMMA PlacesHold == Spec => []ParserInv
<1>1. Init => PlaceHolds /\ OwnerHolds
  BY InvInitially
<1>2. TypeOK /\ PlaceHolds /\ OwnerHolds /\ [Next]_vars => PlaceHolds' /\ OwnerHolds'
  <2> SUFFICES ASSUME TypeOK, PlaceHolds, OwnerHolds, [Next]_vars PROVE PlaceHolds' /\ OwnerHolds'
    OBVIOUS
  <2>1. CASE UNCHANGED vars
    BY <2>1, Zenon DEF PlaceHolds, OwnerHolds, vars
  <2>2. ASSUME NEW c \in Conns, NEW k \in chunk[c] .. Len(stream[c]), NEW e \in {0, 1, 12},
               EndsAt(c, k, e), Handshake(c, k, e) \/ Prepend(c, k, e) \/ Parse(c, k, e)
        PROVE  PlaceHolds' /\ OwnerHolds'
    <3>1. Advance(c, k, e)
      BY <2>2 DEF Handshake, Prepend, Parse
    <3> QED
      BY <2>2, <3>1, PlaceKept, OwnerKept
  <2> QED
    BY <2>1, <2>2 DEF Next
<1> QED
  BY <1>1, <1>2, TypeHolds, PTL DEF Spec, ParserInv

\* What a segment in place is parsed with, the buffer, is the start of its first chunk.
LEMMA ParsedInPlace ==
  ASSUME TypeOK, PlaceHolds, OwnerHolds,
         NEW c \in Conns, NEW k \in chunk[c] .. Len(stream[c]), NEW e \in {0, 1, 12},
         EndsAt(c, k, e), InPlace(c)
  PROVE  /\ First(c) \in 0 .. chunk[c]
         /\ prepend_buf \o Bytes(c, k, e) = Rest(stream[c], First(c), k, e)
         /\ (IF owner.conn = c THEN owner.says ELSE {}) = SaidOf(stream[c], First(c), chunk[c])
<1>1. PICK ks \in Seq(Chunks) : ks = stream[c]
  BY StreamForm
<1>2. /\ chunk[c] \in Nat /\ chunk[c] \in 0 .. chunk[c] /\ extra[c] \in {0, 1, 12} /\ c # "none"
      /\ Stops(ks, k, e) /\ k \in Nat /\ chunk[c] <= k
  BY <1>1, StreamForm, EndStops
<1>3. PICK b \in Seq(Nat) : b = Bytes(c, k, e)
                            /\ Cat(Place(ks, chunk[c], extra[c]), b) = Place(ks, k, e)
  BY <1>1, BytesForm
<1>4. PICK p \in Seq(Nat) : p = prepend_buf
  BY DEF OwnerHolds
<1>5. CASE owner.conn # c
  <2>1. First(c) = chunk[c] /\ extra[c] = 0 /\ owner.conn = "none"
    BY <1>5 DEF InPlace, First
  <2>2. p = <<>>
    BY <1>4, <2>1 DEF TypeOK
  <2>3. chunk[c] \in 0 .. k
    BY <1>2
  <2>4. PICK a \in Seq(Nat) : a = Place(ks, chunk[c], 0)
    BY <1>2, <2>3, PlaceIsRest
  <2>5. PICK r \in Seq(Nat) : r = Rest(ks, chunk[c], k, e)
    BY <1>2, <2>3, RestForm
  <2>6. Place(ks, k, e) = Cat(a, r)
    BY <1>2, <2>3, <2>4, <2>5, PlaceIsRest
  <2>7. Cat(a, b) = Cat(a, r)
    BY <1>3, <2>1, <2>4, <2>6, Zenon
  <2>8. b = r
    BY <2>7, CatCancel
  <2>9. Cat(p, b) = b
    BY <2>2, CatEmpty, Zenon
  <2>10. SaidOf(ks, chunk[c], chunk[c]) = {}
    BY <1>2, SaidOfNone
  <2>11. prepend_buf \o Bytes(c, k, e) = Rest(ks, chunk[c], k, e)
    BY <1>3, <1>4, <2>5, <2>8, <2>9, Zenon DEF Cat
  <2> QED
    BY <1>1, <1>2, <1>5, <2>1, <2>10, <2>11, Zenon
<1>6. CASE owner.conn = c
  <2>1. owner.upto = <<chunk[c], extra[c]>>
    BY <1>2, <1>6 DEF InPlace
  <2>2. owner.upto[1] = chunk[c] /\ owner.upto[2] = extra[c] /\ owner.upto[2] # -1
    BY <1>2, <2>1
  <2>3. PICK i : i = owner.from
    OBVIOUS
  <2>4. /\ i \in 0 .. chunk[c]
        /\ Cat(Place(ks, i, 0), p) = Place(ks, chunk[c], extra[c])
        /\ owner.says = SaidOf(ks, i, chunk[c])
    BY <1>1, <1>4, <1>6, <2>2, <2>3, Zenon DEF OwnerHolds
  <2>5. i \in 0 .. k
    BY <1>2, <2>4
  <2>6. PICK a \in Seq(Nat) : a = Place(ks, i, 0)
    BY <1>2, <2>5, PlaceIsRest
  <2>7. PICK r \in Seq(Nat) : r = Rest(ks, i, k, e)
    BY <1>2, <2>5, RestForm
  <2>8. Place(ks, k, e) = Cat(a, r)
    BY <1>2, <2>5, <2>6, <2>7, PlaceIsRest
  <2>9. Cat(Cat(a, p), b) = Cat(a, r)
    BY <1>3, <2>4, <2>6, <2>8, Zenon
  <2>10. PICK q \in Seq(Nat) : q = Cat(p, b)
    BY CatType
  <2>11. Cat(a, q) = Cat(a, r)
    <3>1. Cat(Cat(a, p), b) = Cat(a, Cat(p, b))
      BY CatAssoc
    <3> QED
      BY <2>9, <2>10, <3>1, Zenon
  <2>12. q = r
    BY <2>11, CatCancel
  <2>13. First(c) = i
    BY <1>6, <2>3 DEF First
  <2>14. prepend_buf \o Bytes(c, k, e) = Rest(ks, i, k, e)
    BY <1>3, <1>4, <2>7, <2>10, <2>12, Zenon DEF Cat
  <2> QED
    BY <1>1, <1>6, <2>4, <2>13, <2>14, Zenon
<1> QED
  BY <1>5, <1>6

LEMMA SaidUpTo == \A ks, k : UNION {Says(ks[i]) : i \in 1 .. k} = SaidOf(ks, 0, k)
<1>1. 0 + 1 = 1
  OBVIOUS
<1> QED
  BY <1>1, Zenon DEF SaidOf

LEMMA StaysTrue ==
  ASSUME ParserInv, NothingMadeUp,
         NEW c \in Conns, NEW k \in chunk[c] .. Len(stream[c]), NEW e \in {0, 1, 12},
         EndsAt(c, k, e), Handshake(c, k, e) \/ Prepend(c, k, e) \/ Parse(c, k, e),
         ~mixed', NEW d \in Conns
  PROVE  seen'[d] \subseteq SaidOf(stream'[d], 0, chunk'[d])
<1>1. stream' = stream /\ chunk' = [chunk EXCEPT ![c] = k]
  BY DEF Handshake, Prepend, Parse, Advance
<1>2. chunk \in [Conns -> Nat] /\ seen \in [Conns -> SUBSET Kinds] /\ k \in Nat /\ chunk[c] <= k
  BY EndStops DEF TypeOK, ParserInv
<1>3. ~mixed /\ (Parse(c, k, e) => InPlace(c))
  <2>1. Parse(c, k, e) => ~mixed /\ InPlace(c)
    <3>1. Parse(c, k, e) => mixed' = (mixed \/ ~InPlace(c))
      BY DEF Parse
    <3> QED
      BY <3>1, Zenon
  <2>2. ~Parse(c, k, e) => mixed' = mixed
    BY DEF Handshake, Prepend
  <2>3. Parse(c, k, e) \/ ~Parse(c, k, e)
    OBVIOUS
  <2>4. ~Parse(c, k, e) => ~mixed
    BY <2>2, Zenon
  <2> QED
    BY <2>1, <2>3, <2>4, Zenon
<1>4. \A x \in Conns : seen[x] \subseteq SaidOf(stream[x], 0, chunk[x])
  BY <1>3, SaidUpTo DEF NothingMadeUp
<1>5. CASE d # c
  <2>1. seen'[d] = seen[d] /\ chunk'[d] = chunk[d]
    BY <1>1, <1>2, <1>5 DEF Handshake, Prepend, Parse
  <2> QED
    BY <1>1, <1>4, <2>1
<1>6. CASE d = c
  <2>1. chunk'[c] = k
    BY <1>1, <1>2
  <2>2. PICK i : i = chunk[c]
    OBVIOUS
  <2>3. i \in Nat /\ i <= k /\ 0 <= i
    BY <1>2, <2>2
  <2>4. SaidOf(stream[c], 0, k) = SaidOf(stream[c], 0, i) \cup SaidOf(stream[c], i, k)
    BY <1>2, <2>3, SaidOfBoth
  <2>5. seen[c] \subseteq SaidOf(stream[c], 0, k)
    BY <1>4, <2>2, <2>4
  <2>6. CASE ~Parse(c, k, e)
    <3>1. seen' = seen
      BY <2>6 DEF Handshake, Prepend
    <3> QED
      BY <1>1, <1>6, <2>1, <2>5, <3>1
  <2>7. CASE Parse(c, k, e)
    <3>1. PICK n : n = First(c)
      OBVIOUS
    <3>2. n \in 0 .. i /\ prepend_buf \o Bytes(c, k, e) = Rest(stream[c], n, k, e)
      BY <1>3, <2>2, <2>7, <3>1, ParsedInPlace DEF ParserInv
    <3>3. n \in Nat /\ n \in 0 .. k /\ 0 <= n /\ n <= k
      BY <1>2, <2>3, <3>2
    <3>4. Recognised(Rest(stream[c], n, k, e)) \subseteq SaidOf(stream[c], n, k)
      BY <3>3, StreamForm, EndStops, RecognisesWhatIsSaid DEF ParserInv
    <3>5. SaidOf(stream[c], n, k) \subseteq SaidOf(stream[c], 0, k)
      <4>1. SaidOf(stream[c], 0, k) = SaidOf(stream[c], 0, n) \cup SaidOf(stream[c], n, k)
        BY <1>2, <3>3, SaidOfBoth
      <4> QED
        BY <4>1
    <3>6. seen'[c] = seen[c] \cup Recognised(prepend_buf \o Bytes(c, k, e))
      BY <1>2, <2>7 DEF Parse
    <3> QED
      BY <1>1, <1>6, <2>1, <2>5, <3>2, <3>4, <3>5, <3>6
  <2> QED
    BY <2>6, <2>7
<1> QED
  BY <1>5, <1>6

\* What is recognised in a connection's segments, that connection has sent, until a
\* segment is read behind another one's twelve bytes or after a lone byte, for any
\* connections and streams: the buffer is cleared when it is used (bypass.py:357-363).
THEOREM NothingIsMadeUp == Spec => []NothingMadeUp
<1>1. Init => NothingMadeUp
  BY DEF Init, NothingMadeUp
<1>2. ParserInv /\ NothingMadeUp /\ [Next]_vars => NothingMadeUp'
  <2> SUFFICES ASSUME ParserInv, NothingMadeUp, [Next]_vars PROVE NothingMadeUp'
    OBVIOUS
  <2>1. CASE UNCHANGED vars
    BY <2>1 DEF NothingMadeUp, vars
  <2>2. ASSUME NEW c \in Conns, NEW k \in chunk[c] .. Len(stream[c]), NEW e \in {0, 1, 12},
               EndsAt(c, k, e), Handshake(c, k, e) \/ Prepend(c, k, e) \/ Parse(c, k, e)
        PROVE  NothingMadeUp'
    <3>1. ASSUME ~mixed', NEW d \in Conns
          PROVE  seen'[d] \subseteq SaidOf(stream'[d], 0, chunk'[d])
      BY <2>2, <3>1, StaysTrue
    <3> QED
      BY <3>1, SaidUpTo DEF NothingMadeUp
  <2> QED
    BY <2>1, <2>2 DEF Next
<1> QED
  BY <1>1, <1>2, PlacesHold, PTL DEF Spec

LEMMA MissesNothing ==
  ASSUME ParserInv,
         NEW c \in Conns, NEW k \in chunk[c] .. Len(stream[c]), NEW e \in {0, 1},
         EndsAt(c, k, e), Parse(c, k, e), Clear(c, k, e)
  PROVE  seen'[c] = seen[c] \cup Said(c, k) \cup (IF owner.conn = c THEN owner.says ELSE {})
<1>1. PICK ks \in Seq(Chunks) : ks = stream[c]
  BY StreamForm DEF ParserInv
<1>2. PICK n : n = First(c)
  OBVIOUS
<1>3. PICK i : i = chunk[c]
  OBVIOUS
<1>4. e \in {0, 1, 12} /\ InPlace(c) /\ k > i
  BY <1>3 DEF Clear
<1>5. Stops(ks, k, e) /\ k \in Nat /\ i \in Nat
  BY <1>1, <1>3, <1>4, EndStops, StreamForm DEF ParserInv
<1>6. /\ n \in 0 .. i /\ prepend_buf \o Bytes(c, k, e) = Rest(ks, n, k, e)
      /\ (IF owner.conn = c THEN owner.says ELSE {}) = SaidOf(ks, n, i)
  BY <1>1, <1>2, <1>3, <1>4, ParsedInPlace DEF ParserInv
<1>7. n \in 0 .. k - 1 /\ n \in Nat /\ n <= i /\ i <= k /\ k >= 1
  BY <1>4, <1>5, <1>6
<1>8. EndsWell(ks, k, e) /\ \A m \in n + 1 .. k - 1 : ks[m].type < 2
  BY <1>1, <1>2, <1>5, <1>7 DEF EndsWell, Clear
<1>9. Recognised(Rest(ks, n, k, e)) = SaidOf(ks, n, k)
  BY <1>7, <1>8, RecognisesAllThatIsSaid
<1>10. SaidOf(ks, n, k) = SaidOf(ks, n, i) \cup SaidOf(ks, i, k)
  BY <1>5, <1>7, SaidOfBoth
<1>11. Said(c, k) = SaidOf(ks, i, k)
  BY <1>1, <1>3, Zenon DEF Said, SaidOf
<1>12. seen'[c] = seen[c] \cup Recognised(prepend_buf \o Bytes(c, k, e))
  BY DEF Parse, ParserInv, TypeOK
<1> QED
  BY <1>6, <1>9, <1>10, <1>11, <1>12

\* Every message of a segment is recognised, however many it holds, for any connections
\* and streams: one that starts with a chunk or behind its connection's own twelve bytes,
\* whose last chunk alone may lack a length, and that ends with a chunk or with the first
\* byte of the next (bypass.py:86-134, 357-373).
THEOREM NothingIsMissed == Spec => NothingMissed
<1>1. ASSUME ParserInv, [Next]_vars, NEW c \in Conns, NEW e \in {0, 1},
             chunk'[c] > chunk[c], extra'[c] = e, Clear(c, chunk'[c], e),
             Len(Bytes(c, chunk'[c], e)) \notin {12, 88, 89}
      PROVE  seen'[c] = seen[c] \cup Said(c, chunk'[c])
                          \cup (IF owner.conn = c THEN owner.says ELSE {})
  <2>1. chunk \in [Conns -> Nat] /\ extra \in [Conns -> {0, 1, 12}] /\ chunk[c] \in Nat
    BY <1>1 DEF ParserInv, TypeOK
  <2>2. CASE UNCHANGED vars
    BY <1>1, <2>1, <2>2 DEF vars
  <2>3. ASSUME NEW d \in Conns, NEW k \in chunk[d] .. Len(stream[d]), NEW x \in {0, 1, 12},
               EndsAt(d, k, x), Handshake(d, k, x) \/ Prepend(d, k, x) \/ Parse(d, k, x)
        PROVE  seen'[c] = seen[c] \cup Said(c, chunk'[c])
                            \cup (IF owner.conn = c THEN owner.says ELSE {})
    <3>1. chunk' = [chunk EXCEPT ![d] = k] /\ extra' = [extra EXCEPT ![d] = x]
      BY <2>3 DEF Handshake, Prepend, Parse, Advance
    <3>2. d = c
      BY <1>1, <2>1, <3>1
    <3>3. chunk'[c] = k /\ x = e
      BY <1>1, <2>1, <3>1, <3>2
    <3>4. Parse(c, k, e)
      BY <1>1, <2>3, <3>2, <3>3 DEF Handshake, Prepend
    <3> QED
      BY <1>1, <2>3, <3>2, <3>3, <3>4, MissesNothing
  <2> QED
    BY <1>1, <2>2, <2>3 DEF Next
<1>2. ParserInv /\ [Next]_vars =>
        [\A c \in Conns, e \in {0, 1} :
            /\ chunk'[c] > chunk[c] /\ extra'[c] = e
            /\ Clear(c, chunk'[c], e)
            /\ Len(Bytes(c, chunk'[c], e)) \notin {12, 88, 89}
            => seen'[c] = seen[c] \cup Said(c, chunk'[c])
                            \cup (IF owner.conn = c THEN owner.says ELSE {})]_vars
  BY <1>1
<1> QED
  BY <1>2, PlacesHold, PTL DEF Spec, NothingMissed

=============================================================================
