-------------------------- MODULE FrameStream_proofs --------------------------
(* What TLAPS proves of the prototype's hosts for any video, any sizes of     *)
(* frame and time stamp, and any buffering.                                   *)
EXTENDS FrameStream, SequenceTheorems, TLAPS

Whole == {f \in Seq(Bytes) : Len(f) = FRAME_SIZE}

LEMMA SenderIsHost ==
  ASSUME route \in Routes, NEW r \in Receivers, TakesPart(r)
  PROVE  From(r) \in Hosts
<1> DEFINE i == CHOOSE j \in DOMAIN route : route[j] = r
<1>1. i \in DOMAIN route /\ route[i] = r
  <2>1. \E j \in DOMAIN route : route[j] = r
    BY DEF TakesPart, Range
  <2> QED
    BY <2>1
<1> HIDE DEF i
<1>2. r # "broadcaster"
  BY DEF Receivers
<1>3. CASE route = <<"broadcaster", "cdn", "viewer">>
  <2>1. /\ DOMAIN route = 1 .. 3 /\ route[1] = "broadcaster" /\ route[2] = "cdn"
    BY <1>3
  <2>2. i = 2 \/ i = 3
    BY <1>1, <1>2, <2>1
  <2>3. route[i - 1] \in Hosts
    BY <2>1, <2>2 DEF Hosts
  <2> QED
    BY <2>3 DEF From, i
<1>4. CASE route = <<"broadcaster", "viewer">>
  <2>1. /\ DOMAIN route = 1 .. 2 /\ route[1] = "broadcaster"
    BY <1>4
  <2>2. i = 2
    BY <1>1, <1>2, <2>1
  <2>3. route[i - 1] \in Hosts
    BY <2>1, <2>2 DEF Hosts
  <2> QED
    BY <2>3 DEF From, i
<1> QED
  BY <1>3, <1>4 DEF Routes

LEMMA Sizes ==
  /\ FRAME_SIZE \in Nat /\ FRAME_SIZE > 0 /\ TIMESTAMP_LEN \in Nat /\ TIMESTAMP_LEN > 0
  /\ Buffer \in Nat /\ Stamp \in Seq(Bytes)
  /\ \A i \in 1 .. MaxFrames : Video[i] \in Whole
<1>1. /\ Video \in Seq(Seq(Bytes)) /\ MaxFrames \in Nat /\ MaxFrames <= Len(Video)
      /\ \A i \in DOMAIN Video : Len(Video[i]) = FRAME_SIZE
  BY SizesAssumption
<1>2. DOMAIN Video = 1 .. Len(Video) /\ \A i \in 1 .. Len(Video) : Video[i] \in Seq(Bytes)
  BY <1>1
<1>3. ASSUME NEW i \in 1 .. MaxFrames PROVE Video[i] \in Whole
  <2>1. i \in 1 .. Len(Video)
    BY <1>1
  <2> QED
    BY <1>1, <1>2, <2>1 DEF Whole
<1> QED
  BY <1>3, SizesAssumption

\* What a recv returns is some of the bytes sent, at most as many as asked for.
LEMMA Received ==
  ASSUME TypeOK, NEW r \in Receivers, TakesPart(r), NEW n \in Nat,
         NEW bs \in Prefixes(wire[From(r)]), Recv(r, n, bs)
  PROVE  /\ bs \in Seq(Bytes) /\ Len(bs) <= n
         /\ wire' \in [Hosts -> Seq(Bytes)]
         /\ \A h \in Hosts : Len(wire'[h]) <= Buffer
<1>1. PICK w \in Seq(Bytes) : w = wire[From(r)] /\ Len(w) <= Buffer
  BY SenderIsHost DEF TypeOK
<1>2. From(r) \in Hosts
  BY SenderIsHost DEF TypeOK
<1>3. PICK l \in 0 .. Len(w) : bs = SubSeq(w, 1, l)
  BY <1>1 DEF Prefixes
<1>4. bs \in Seq(Bytes) /\ Len(bs) = l /\ l \in Nat
  BY <1>3, SubSeqProperties
<1>5. Len(bs) <= n
  <2>1. CASE bs = <<>>
    BY <2>1
  <2>2. CASE Len(bs) \in 1 .. n
    BY <2>2
  <2> QED
    BY <2>1, <2>2 DEF Recv
<1>6. PICK v : v = SubSeq(w, Len(bs) + 1, Len(w))
  OBVIOUS
<1>7. v \in Seq(Bytes) /\ Len(v) <= Buffer
  <2>1. \A i \in Len(bs) + 1 .. Len(w) : w[i] \in Bytes
    BY <1>4
  <2>2. v \in Seq(Bytes) /\ Len(v) = IF Len(bs) + 1 <= Len(w) THEN Len(w) - (Len(bs) + 1) + 1 ELSE 0
    BY <1>4, <1>6, <2>1, SubSeqProperties
  <2> QED
    BY <1>1, <1>4, <2>2, Sizes
<1>8. wire' = [wire EXCEPT ![From(r)] = v]
  BY <1>1, <1>6 DEF Recv
<1>9. wire' \in [Hosts -> Seq(Bytes)] /\ \A h \in Hosts : Len(wire'[h]) <= Buffer
  BY <1>2, <1>7, <1>8 DEF TypeOK
<1> QED
  BY <1>4, <1>5, <1>9

LEMMA FrameOfType == ASSUME NEW f \in Seq(Bytes) PROVE FrameOf(f) \in Seq(Bytes)
<1>1. <<FRAME_BEG>> \in Seq(Bytes) /\ <<FRAME_END>> \in Seq(Bytes)
  BY DEF FRAME_BEG, FRAME_END, Bytes
<1>2. <<FRAME_BEG>> \o Stamp \in Seq(Bytes)
  BY <1>1, Sizes, ConcatProperties
<1>3. (<<FRAME_BEG>> \o Stamp) \o f \in Seq(Bytes)
  BY <1>2, ConcatProperties
<1>4. ((<<FRAME_BEG>> \o Stamp) \o f) \o <<FRAME_END>> \in Seq(Bytes)
  BY <1>1, <1>3, ConcatProperties
<1> QED
  BY <1>4 DEF FrameOf

LEMMA Control ==
  /\ <<BCAST_BEG>> \in Seq(Bytes) /\ <<BCAST_END>> \in Seq(Bytes) /\ <<>> \in Seq(Bytes)
  BY DEF BCAST_BEG, BCAST_END, Bytes

LEMMA PassedOn ==
  ASSUME TypeOK, NEW r \in Receivers, NEW bs \in Seq(Bytes), PassOn(r, bs)
  PROVE  unsent' \in [Hosts -> Seq(Bytes)]
  BY DEF TypeOK, PassOn

Where == {"begin", "frames", "scan", "header", "frame", "done", "dead"}

LEMMA Went ==
  ASSUME TypeOK, NEW r \in Receivers, NEW where \in Where, Goto(r, where)
  PROVE  pc' \in [Hosts -> Where]
  BY DEF TypeOK, Goto, Where

LEMMA TransmitTypes ==
  ASSUME TypeOK, NEW h \in Hosts, Transmit(h) PROVE TypeOK'
<1>1. unsent[h] \in Seq(Bytes) /\ unsent[h] # <<>> /\ wire[h] \in Seq(Bytes)
  BY DEF TypeOK, Transmit
<1>2. Tail(unsent[h]) \in Seq(Bytes) /\ Head(unsent[h]) \in Bytes
  BY <1>1
<1>3. unsent' \in [Hosts -> Seq(Bytes)]
  BY <1>2, Control DEF TypeOK, Transmit
<1>4. pc' \in [Hosts -> Where]
  BY DEF TypeOK, Transmit, Where
<1>5. wire' \in [Hosts -> Seq(Bytes)] /\ \A g \in Hosts : Len(wire'[g]) <= Buffer
  <2>1. CASE wire' = wire
    BY <2>1 DEF TypeOK
  <2>2. CASE Len(wire[h]) < Buffer /\ wire' = [wire EXCEPT ![h] = Append(@, Head(unsent[h]))]
    <3>1. PICK a : a = Append(wire[h], Head(unsent[h]))
      OBVIOUS
    <3>2. a \in Seq(Bytes) /\ Len(a) = Len(wire[h]) + 1
      BY <1>1, <1>2, <3>1
    <3>3. Len(a) <= Buffer
      BY <1>1, <2>2, <3>2, Sizes
    <3>4. wire' = [wire EXCEPT ![h] = a]
      BY <2>2, <3>1
    <3> QED
      BY <3>2, <3>3, <3>4 DEF TypeOK
  <2> QED
    BY <2>1, <2>2 DEF Transmit
<1> QED
  BY <1>3, <1>4, <1>5 DEF TypeOK, Transmit, Where

LEMMA BroadcasterTypes ==
  ASSUME TypeOK, TimesUp \/ BeginBroadcast \/ SendFrame \/ EndBroadcast PROVE TypeOK'
<1>1. CASE TimesUp
  BY <1>1 DEF TypeOK, TimesUp
<1>2. CASE BeginBroadcast
  BY <1>2, Control DEF TypeOK, BeginBroadcast
<1>3. CASE EndBroadcast
  BY <1>3, Control DEF TypeOK, EndBroadcast
<1>4. CASE SendFrame
  <2>1. frames["broadcaster"] \in Seq(Whole) /\ "broadcaster" \in Hosts
    BY DEF TypeOK, Whole, Hosts
  <2>2. PICK f : f = Video[Len(frames["broadcaster"]) + 1]
    OBVIOUS
  <2>3. f \in Whole
    <3>1. Len(frames["broadcaster"]) + 1 \in 1 .. MaxFrames
      BY <1>4, <2>1, SizesAssumption DEF SendFrame
    <3> QED
      BY <2>2, <3>1, Sizes
  <2>4. f \in Seq(Bytes) /\ FrameOf(f) \in Seq(Bytes)
    BY <2>3, FrameOfType DEF Whole
  <2>5. Append(frames["broadcaster"], f) \in Seq(Whole)
    BY <2>1, <2>3
  <2>6. frames' \in [Hosts -> Seq(Whole)]
    BY <1>4, <2>2, <2>5 DEF TypeOK, SendFrame, Whole
  <2>7. unsent' \in [Hosts -> Seq(Bytes)]
    BY <1>4, <2>2, <2>4 DEF TypeOK, SendFrame
  <2> QED
    BY <1>4, <2>6, <2>7 DEF TypeOK, SendFrame, Whole
<1> QED
  BY <1>1, <1>2, <1>3, <1>4

LEMMA ControlTypes ==
  ASSUME TypeOK, NEW r \in Receivers, RecvBegin(r) \/ RecvControl(r) PROVE TypeOK'
<1>1. PICK bs \in Prefixes(wire[From(r)]) : Recv(r, 1, bs)
  BY DEF RecvBegin, RecvControl
<1>2. TakesPart(r)
  BY DEF RecvBegin, RecvControl, At
<1>3. wire' \in [Hosts -> Seq(Bytes)] /\ \A h \in Hosts : Len(wire'[h]) <= Buffer
  BY <1>1, <1>2, Received
<1>4. pc' \in [Hosts -> Where]
  BY Went DEF RecvBegin, RecvControl, TypeOK, Where
<1>5. unsent' \in [Hosts -> Seq(Bytes)]
  BY PassedOn, Control DEF RecvBegin, RecvControl, TypeOK
<1> QED
  BY <1>3, <1>4, <1>5 DEF TypeOK, RecvBegin, RecvControl, Where

LEMMA HeaderTypes ==
  ASSUME TypeOK, NEW r \in Receivers, RecvHeader(r) PROVE TypeOK'
<1>1. PICK bs \in Prefixes(wire[From(r)]) :
         Recv(r, TIMESTAMP_LEN, bs) /\ header' = [header EXCEPT ![r] = bs]
  BY DEF RecvHeader
<1>2. TakesPart(r)
  BY DEF RecvHeader, At
<1>3. /\ bs \in Seq(Bytes) /\ Len(bs) <= TIMESTAMP_LEN
      /\ wire' \in [Hosts -> Seq(Bytes)] /\ \A h \in Hosts : Len(wire'[h]) <= Buffer
  BY <1>1, <1>2, Received, Sizes
<1>4. header' \in [Receivers -> Seq(Bytes)] /\ \A q \in Receivers : Len(header'[q]) <= TIMESTAMP_LEN
  BY <1>1, <1>3 DEF TypeOK
<1>5. pc' \in [Hosts -> Where]
  BY Went DEF RecvHeader, Where
<1> QED
  BY <1>3, <1>4, <1>5 DEF TypeOK, RecvHeader, Where

\* The picture never grows past its size, since no more is asked for than is missing.
LEMMA FrameTypes ==
  ASSUME TypeOK, NEW r \in Receivers, RecvFrame(r) PROVE TypeOK'
<1>1. PICK bs \in Prefixes(wire[From(r)]) :
        /\ Recv(r, Missing(r), bs)
        /\ \/ /\ Len(frame[r] \o bs) < FRAME_SIZE
              /\ frame' = [frame EXCEPT ![r] = frame[r] \o bs]
              /\ UNCHANGED <<pc, unsent, header, frames>>
           \/ /\ Len(frame[r] \o bs) >= FRAME_SIZE
              /\ frame' = [frame EXCEPT ![r] = <<>>]
              /\ header' = [header EXCEPT ![r] = <<>>]
              /\ \/ /\ frames' = [frames EXCEPT ![r] = Append(@, frame[r] \o bs)]
                    /\ Goto(r, "scan") /\ PassOn(r, FrameOf(frame[r] \o bs))
                 \/ Raise(r) /\ UNCHANGED <<unsent, frames>>
  BY DEF RecvFrame
<1>2. TakesPart(r)
  BY DEF RecvFrame, At
<1>3. frame[r] \in Seq(Bytes) /\ Len(frame[r]) \in Nat /\ Len(frame[r]) < FRAME_SIZE
  BY DEF TypeOK
<1>4. Missing(r) \in Nat /\ Missing(r) = FRAME_SIZE - Len(frame[r])
  BY <1>3, Sizes DEF Missing
<1>5. /\ bs \in Seq(Bytes) /\ Len(bs) <= Missing(r)
      /\ wire' \in [Hosts -> Seq(Bytes)] /\ \A h \in Hosts : Len(wire'[h]) <= Buffer
  BY <1>1, <1>2, <1>4, Received
<1>6. PICK f : f = frame[r] \o bs
  OBVIOUS
<1>7. f \in Seq(Bytes) /\ Len(f) = Len(frame[r]) + Len(bs) /\ Len(bs) \in Nat
  BY <1>3, <1>5, <1>6, ConcatProperties
<1>8. Len(f) \in Nat /\ Len(f) <= FRAME_SIZE
  BY <1>3, <1>4, <1>5, <1>7, Sizes
<1>9. CASE /\ Len(f) < FRAME_SIZE /\ frame' = [frame EXCEPT ![r] = f]
           /\ UNCHANGED <<pc, unsent, header, frames>>
  <2>1. frame' \in [Receivers -> Seq(Bytes)] /\ \A q \in Receivers : Len(frame'[q]) < FRAME_SIZE
    BY <1>7, <1>9 DEF TypeOK
  <2> QED
    BY <1>5, <1>9, <2>1 DEF TypeOK, RecvFrame
<1>10. CASE /\ Len(f) >= FRAME_SIZE
            /\ frame' = [frame EXCEPT ![r] = <<>>] /\ header' = [header EXCEPT ![r] = <<>>]
            /\ \/ /\ frames' = [frames EXCEPT ![r] = Append(@, f)]
                  /\ Goto(r, "scan") /\ PassOn(r, FrameOf(f))
               \/ Raise(r) /\ UNCHANGED <<unsent, frames>>
  <2>1. <<>> \in Seq(Bytes) /\ Len(<<>>) = 0 /\ 0 < FRAME_SIZE /\ 0 <= TIMESTAMP_LEN
    BY Sizes
  <2>2. /\ frame' \in [Receivers -> Seq(Bytes)] /\ \A q \in Receivers : Len(frame'[q]) < FRAME_SIZE
        /\ header' \in [Receivers -> Seq(Bytes)] /\ \A q \in Receivers : Len(header'[q]) <= TIMESTAMP_LEN
    BY <1>10, <2>1 DEF TypeOK
  <2>3. f \in Whole
    <3>1. Len(f) = FRAME_SIZE
      BY <1>8, <1>10, Sizes
    <3> QED
      BY <1>7, <3>1 DEF Whole
  <2>4. frames' \in [Hosts -> Seq(Whole)]
    <3>1. r \in Hosts /\ frames[r] \in Seq(Whole) /\ frames \in [Hosts -> Seq(Whole)]
      BY DEF TypeOK, Whole, Hosts, Receivers
    <3>2. Append(frames[r], f) \in Seq(Whole)
      BY <2>3, <3>1
    <3> QED
      BY <1>10, <3>1, <3>2
  <2>5. unsent' \in [Hosts -> Seq(Bytes)]
    BY <1>7, <1>10, PassedOn, FrameOfType DEF TypeOK
  <2>6. pc' \in [Hosts -> Where]
    BY <1>10, Went DEF Raise, Where
  <2>7. route' = route /\ ticker' = ticker
    BY DEF RecvFrame
  <2> QED
    BY <1>5, <2>2, <2>4, <2>5, <2>6, <2>7 DEF TypeOK, Where, Whole
<1> QED
  BY <1>1, <1>6, <1>9, <1>10

LEMMA InitTypes == Init => TypeOK
<1> SUFFICES ASSUME Init PROVE TypeOK
  OBVIOUS
<1>1. <<>> \in Seq(Bytes) /\ Len(<<>>) = 0 /\ <<>> \in Seq(Whole)
  OBVIOUS
<1>2. 0 <= Buffer /\ 0 < FRAME_SIZE /\ 0 <= TIMESTAMP_LEN
  BY Sizes
<1>3. /\ unsent \in [Hosts -> Seq(Bytes)] /\ wire \in [Hosts -> Seq(Bytes)]
      /\ \A h \in Hosts : Len(wire[h]) <= Buffer
  BY <1>1, <1>2 DEF Init
<1>4. /\ header \in [Receivers -> Seq(Bytes)] /\ frame \in [Receivers -> Seq(Bytes)]
      /\ \A r \in Receivers : Len(header[r]) <= TIMESTAMP_LEN /\ Len(frame[r]) < FRAME_SIZE
  BY <1>1, <1>2 DEF Init
<1>5. frames \in [Hosts -> Seq(Whole)]
  BY <1>1 DEF Init
<1> QED
  BY <1>3, <1>4, <1>5 DEF Init, TypeOK, Whole

LEMMA TypesStep == TypeOK /\ [Next]_vars => TypeOK'
<1> SUFFICES ASSUME TypeOK, [Next]_vars PROVE TypeOK'
  OBVIOUS
<1>1. CASE UNCHANGED vars
  BY <1>1 DEF TypeOK, vars
<1>2. CASE \E h \in Hosts : Transmit(h)
  BY <1>2, TransmitTypes
<1>3. CASE TimesUp \/ BeginBroadcast \/ SendFrame \/ EndBroadcast
  BY <1>3, BroadcasterTypes
<1>4. ASSUME NEW r \in Receivers, RecvBegin(r) \/ RecvControl(r) \/ RecvHeader(r) \/ RecvFrame(r)
      PROVE  TypeOK'
  BY <1>4, ControlTypes, HeaderTypes, FrameTypes
<1> QED
  BY <1>1, <1>2, <1>3, <1>4 DEF Next

\* Every host keeps to its program, no connection holds more than its buffer, a picture
\* under way is always shorter than a frame and every frame stored or viewed has
\* exactly its size, however recv cuts the stream (cdn-server.py:43-61, viewer.py:38-56).
THEOREM StreamTypeCorrect == Spec => []TypeOK
<1>1. Init => TypeOK
  BY InitTypes
<1>2. TypeOK /\ [Next]_vars => TypeOK'
  BY TypesStep
<1> QED
  BY <1>1, <1>2, PTL DEF Spec

-----------------------------------------------------------------------------
(* What is under way between two hosts.                                       *)

\* Concatenation under a name of its own, so that the provers take it as it is.
Cat(s, t) == s \o t

LEMMA CatType ==
  ASSUME NEW s \in Seq(Bytes), NEW t \in Seq(Bytes)
  PROVE  Cat(s, t) \in Seq(Bytes) /\ Len(Cat(s, t)) = Len(s) + Len(t)
  BY ConcatProperties DEF Cat

LEMMA CatEmpty ==
  ASSUME NEW s \in Seq(Bytes)
  PROVE  Cat(s, <<>>) = s /\ Cat(<<>>, s) = s
  BY ConcatEmptySeq DEF Cat

LEMMA CatAssoc ==
  ASSUME NEW s \in Seq(Bytes), NEW t \in Seq(Bytes), NEW u \in Seq(Bytes)
  PROVE  Cat(Cat(s, t), u) = Cat(s, Cat(t, u))
  BY ConcatAssociative DEF Cat

\* The stream after n frames of fs and up to its end: d[i] is what follows the i-th frame.
Later(fs, n, end) ==
  { d[n] : d \in {e \in [n .. Len(fs) -> Seq(Bytes)] :
                    /\ e[Len(fs)] = end
                    /\ \A i \in n .. Len(fs) - 1 : e[i] = Cat(FrameOf(fs[i + 1]), e[i + 1])} }

LEMMA LaterEnd ==
  ASSUME NEW fs \in Seq(Whole), NEW end \in Seq(Bytes)
  PROVE  /\ end \in Later(fs, Len(fs), end)
         /\ \A t \in Later(fs, Len(fs), end) : t = end
<1>1. Len(fs) \in Nat
  OBVIOUS
<1>2. PICK e : e = [i \in Len(fs) .. Len(fs) |-> end]
  OBVIOUS
<1>3. Len(fs) \in Len(fs) .. Len(fs) /\ Len(fs) .. Len(fs) - 1 = {}
  BY <1>1
<1>4. e \in [Len(fs) .. Len(fs) -> Seq(Bytes)] /\ e[Len(fs)] = end
  BY <1>2, <1>3
<1>5. end \in Later(fs, Len(fs), end)
  BY <1>3, <1>4 DEF Later
<1>6. \A t \in Later(fs, Len(fs), end) : t = end
  BY DEF Later
<1> QED
  BY <1>5, <1>6

LEMMA LaterNext ==
  ASSUME NEW fs \in Seq(Whole), NEW end, NEW n \in Nat, n < Len(fs), NEW t \in Later(fs, n, end)
  PROVE  \E u \in Later(fs, n + 1, end) : t = Cat(FrameOf(fs[n + 1]), u)
<1>1. PICK d \in [n .. Len(fs) -> Seq(Bytes)] :
        /\ t = d[n] /\ d[Len(fs)] = end
        /\ \A i \in n .. Len(fs) - 1 : d[i] = Cat(FrameOf(fs[i + 1]), d[i + 1])
  BY DEF Later
<1>2. Len(fs) \in Nat /\ n \in n .. Len(fs) - 1
  OBVIOUS
<1>3. PICK e : e = [i \in n + 1 .. Len(fs) |-> d[i]]
  OBVIOUS
<1>4. e \in [n + 1 .. Len(fs) -> Seq(Bytes)]
  BY <1>2, <1>3
<1>5. e[Len(fs)] = end /\ e[n + 1] = d[n + 1]
  BY <1>1, <1>2, <1>3
<1>6. \A i \in n + 1 .. Len(fs) - 1 : e[i] = Cat(FrameOf(fs[i + 1]), e[i + 1])
  <2> SUFFICES ASSUME NEW i \in n + 1 .. Len(fs) - 1 PROVE e[i] = Cat(FrameOf(fs[i + 1]), e[i + 1])
    OBVIOUS
  <2>1. i \in n + 1 .. Len(fs) /\ i + 1 \in n + 1 .. Len(fs) /\ i \in n .. Len(fs) - 1
    BY <1>2
  <2> QED
    BY <1>1, <1>3, <2>1
<1>7. e[n + 1] \in Later(fs, n + 1, end)
  BY <1>4, <1>5, <1>6 DEF Later
<1>8. t = Cat(FrameOf(fs[n + 1]), e[n + 1])
  BY <1>1, <1>2, <1>5
<1> QED
  BY <1>7, <1>8

LEMMA LaterType ==
  ASSUME NEW fs \in Seq(Whole), NEW end, NEW n \in Nat, n <= Len(fs), NEW t \in Later(fs, n, end)
  PROVE  t \in Seq(Bytes)
<1>1. n \in n .. Len(fs)
  OBVIOUS
<1> QED
  BY <1>1 DEF Later

\* A sender that goes on makes its stream longer at the end.
LEMMA LaterEnded ==
  ASSUME NEW fs \in Seq(Whole), NEW n \in Nat, n <= Len(fs), NEW t \in Later(fs, n, <<>>),
         NEW end \in Seq(Bytes)
  PROVE  Cat(t, end) \in Later(fs, n, end)
<1>1. PICK d \in [n .. Len(fs) -> Seq(Bytes)] :
        /\ t = d[n] /\ d[Len(fs)] = <<>>
        /\ \A i \in n .. Len(fs) - 1 : d[i] = Cat(FrameOf(fs[i + 1]), d[i + 1])
  BY DEF Later
<1>2. Len(fs) \in Nat
  OBVIOUS
<1>3. PICK e : e = [i \in n .. Len(fs) |-> Cat(d[i], end)]
  OBVIOUS
<1>4. e \in [n .. Len(fs) -> Seq(Bytes)]
  BY <1>3, CatType
<1>5. e[Len(fs)] = end /\ e[n] = Cat(t, end)
  BY <1>1, <1>2, <1>3, CatEmpty
<1>6. \A i \in n .. Len(fs) - 1 : e[i] = Cat(FrameOf(fs[i + 1]), e[i + 1])
  <2> SUFFICES ASSUME NEW i \in n .. Len(fs) - 1 PROVE e[i] = Cat(FrameOf(fs[i + 1]), e[i + 1])
    OBVIOUS
  <2>1. i \in n .. Len(fs) /\ i + 1 \in n .. Len(fs) /\ i + 1 \in 1 .. Len(fs)
    BY <1>2
  <2>2. fs[i + 1] \in Whole
    BY <2>1
  <2>3. PICK g \in Seq(Bytes) : g = FrameOf(fs[i + 1])
    BY <2>2, FrameOfType DEF Whole
  <2>4. PICK c \in Seq(Bytes) : c = d[i + 1]
    BY <2>1
  <2>5. Cat(Cat(g, c), end) = Cat(g, Cat(c, end))
    BY CatAssoc
  <2>6. e[i] = Cat(d[i], end) /\ e[i + 1] = Cat(d[i + 1], end)
    BY <1>3, <2>1
  <2> QED
    BY <1>1, <2>3, <2>4, <2>5, <2>6
<1> QED
  BY <1>4, <1>5, <1>6 DEF Later

LEMMA LaterSent ==
  ASSUME NEW fs \in Seq(Whole), NEW n \in Nat, n <= Len(fs), NEW t \in Later(fs, n, <<>>),
         NEW f \in Whole
  PROVE  Cat(t, FrameOf(f)) \in Later(Append(fs, f), n, <<>>)
<1>1. PICK d \in [n .. Len(fs) -> Seq(Bytes)] :
        /\ Cat(t, FrameOf(f)) = d[n] /\ d[Len(fs)] = FrameOf(f)
        /\ \A i \in n .. Len(fs) - 1 : d[i] = Cat(FrameOf(fs[i + 1]), d[i + 1])
  BY LaterEnded, FrameOfType DEF Later, Whole
<1>2. PICK gs : gs = Append(fs, f)
  OBVIOUS
<1>3. /\ Len(fs) \in Nat /\ Len(gs) = Len(fs) + 1 /\ gs[Len(fs) + 1] = f
      /\ \A i \in 1 .. Len(fs) : gs[i] = fs[i]
  BY <1>2, AppendProperties
<1>4. PICK e : e = [i \in n .. Len(gs) |-> IF i = Len(gs) THEN <<>> ELSE d[i]]
  OBVIOUS
<1>5. e \in [n .. Len(gs) -> Seq(Bytes)]
  BY <1>3, <1>4, Control
<1>6. e[Len(gs)] = <<>> /\ e[n] = d[n] /\ e[Len(fs)] = FrameOf(f)
  BY <1>1, <1>3, <1>4
<1>7. \A i \in n .. Len(gs) - 1 : e[i] = Cat(FrameOf(gs[i + 1]), e[i + 1])
  <2> SUFFICES ASSUME NEW i \in n .. Len(gs) - 1 PROVE e[i] = Cat(FrameOf(gs[i + 1]), e[i + 1])
    OBVIOUS
  <2>1. CASE i = Len(fs)
    <3>1. gs[i + 1] = f /\ e[i + 1] = <<>> /\ e[i] = FrameOf(f)
      BY <1>3, <1>6, <2>1
    <3>2. Cat(FrameOf(f), <<>>) = FrameOf(f)
      BY FrameOfType, CatEmpty DEF Whole
    <3> QED
      BY <3>1, <3>2
  <2>2. CASE i # Len(fs)
    <3>1. i \in n .. Len(fs) - 1 /\ i + 1 \in 1 .. Len(fs)
      BY <1>3, <2>2
    <3>2. gs[i + 1] = fs[i + 1]
      BY <1>3, <3>1
    <3>3. e[i] = d[i] /\ e[i + 1] = d[i + 1]
      BY <1>3, <1>4, <3>1
    <3> QED
      BY <1>1, <3>1, <3>2, <3>3
  <2> QED
    BY <2>1, <2>2
<1> QED
  BY <1>1, <1>2, <1>5, <1>6, <1>7 DEF Later

\* What a recv takes, when it does not take more than x, is the beginning of x.
After(bs, x) == SubSeq(x, Len(bs) + 1, Len(x))

LEMMA BeginsWith ==
  ASSUME NEW bs \in Seq(Bytes), NEW y \in Seq(Bytes), NEW x \in Seq(Bytes), NEW z \in Seq(Bytes),
         Cat(bs, y) = Cat(x, z), Len(bs) <= Len(x)
  PROVE  After(bs, x) \in Seq(Bytes) /\ x = Cat(bs, After(bs, x)) /\ y = Cat(After(bs, x), z)
<1>1. PICK a : a = Cat(bs, y)
  OBVIOUS
<1>2. /\ Len(a) = Len(bs) + Len(y) /\ Len(a) = Len(x) + Len(z)
      /\ Len(bs) \in Nat /\ Len(y) \in Nat /\ Len(x) \in Nat /\ Len(z) \in Nat
      /\ \A i \in 1 .. Len(a) : a[i] = IF i <= Len(bs) THEN bs[i] ELSE y[i - Len(bs)]
      /\ \A i \in 1 .. Len(a) : a[i] = IF i <= Len(x) THEN x[i] ELSE z[i - Len(x)]
  BY <1>1, ConcatProperties DEF Cat
<1>3. PICK w : w = After(bs, x)
  OBVIOUS
<1>4. /\ w \in Seq(Bytes) /\ Len(w) = Len(x) - Len(bs)
      /\ \A i \in 1 .. Len(w) : w[i] = x[Len(bs) + i]
  <2>1. \A i \in Len(bs) + 1 .. Len(x) : x[i] \in Bytes
    BY <1>2
  <2>2. /\ w \in Seq(Bytes)
        /\ Len(w) = IF Len(bs) + 1 <= Len(x) THEN Len(x) - (Len(bs) + 1) + 1 ELSE 0
        /\ \A i \in 1 .. Len(x) - (Len(bs) + 1) + 1 : w[i] = x[Len(bs) + 1 + i - 1]
    BY <1>2, <1>3, <2>1, SubSeqProperties DEF After
  <2>3. Len(w) = Len(x) - Len(bs)
    BY <1>2, <2>2
  <2>4. \A i \in 1 .. Len(w) : Len(bs) + 1 + i - 1 = Len(bs) + i /\ Len(x) - (Len(bs) + 1) + 1 = Len(w)
    BY <1>2, <2>3
  <2> QED
    BY <2>2, <2>3, <2>4
<1>5. x = Cat(bs, w)
  <2>1. /\ Cat(bs, w) \in Seq(Bytes) /\ Len(Cat(bs, w)) = Len(bs) + Len(w)
        /\ \A i \in 1 .. Len(bs) + Len(w) : Cat(bs, w)[i] = IF i <= Len(bs) THEN bs[i] ELSE w[i - Len(bs)]
    BY <1>4, ConcatProperties DEF Cat
  <2>2. Len(x) = Len(Cat(bs, w))
    BY <1>2, <1>4, <2>1
  <2>3. ASSUME NEW i \in 1 .. Len(x) PROVE x[i] = Cat(bs, w)[i]
    <3>1. i \in 1 .. Len(a) /\ i \in 1 .. Len(bs) + Len(w) /\ i <= Len(x)
      BY <1>2, <1>4
    <3>2. x[i] = IF i <= Len(bs) THEN bs[i] ELSE y[i - Len(bs)]
      BY <1>2, <3>1
    <3>3. CASE i <= Len(bs)
      BY <2>1, <3>1, <3>2, <3>3
    <3>4. CASE ~ (i <= Len(bs))
      <4>1. i - Len(bs) \in 1 .. Len(w) /\ Len(bs) + (i - Len(bs)) = i
        BY <1>2, <1>4, <3>1, <3>4
      <4>2. w[i - Len(bs)] = x[i]
        BY <1>4, <4>1
      <4> QED
        BY <2>1, <3>1, <3>4, <4>2
    <3> QED
      BY <3>3, <3>4
  <2> QED
    BY <2>1, <2>2, <2>3, SeqEqual
<1>6. y = Cat(w, z)
  <2>1. /\ Cat(w, z) \in Seq(Bytes) /\ Len(Cat(w, z)) = Len(w) + Len(z)
        /\ \A i \in 1 .. Len(w) + Len(z) : Cat(w, z)[i] = IF i <= Len(w) THEN w[i] ELSE z[i - Len(w)]
    BY <1>4, ConcatProperties DEF Cat
  <2>2. Len(y) = Len(Cat(w, z))
    BY <1>2, <1>4, <2>1
  <2>3. ASSUME NEW i \in 1 .. Len(y) PROVE y[i] = Cat(w, z)[i]
    <3>1. PICK j \in Nat : j = Len(bs) + i
      BY <1>2
    <3>2. j \in 1 .. Len(a) /\ ~ (j <= Len(bs)) /\ j - Len(bs) = i /\ i \in 1 .. Len(w) + Len(z)
      BY <1>2, <2>1, <2>2, <3>1
    <3>3. a[j] = y[i]
      BY <1>2, <3>2
    <3>4. CASE i <= Len(w)
      <4>1. j <= Len(x) /\ i \in 1 .. Len(w)
        BY <1>2, <1>4, <3>1, <3>4
      <4>2. a[j] = x[j] /\ w[i] = x[j]
        BY <1>2, <1>4, <3>1, <3>2, <4>1
      <4> QED
        BY <2>1, <3>2, <3>3, <3>4, <4>2
    <3>5. CASE ~ (i <= Len(w))
      <4>1. ~ (j <= Len(x)) /\ j - Len(x) = i - Len(w)
        BY <1>2, <1>4, <3>1, <3>5
      <4>2. a[j] = z[i - Len(w)]
        BY <1>2, <3>2, <4>1
      <4> QED
        BY <2>1, <3>2, <3>3, <3>5, <4>2
    <3> QED
      BY <3>4, <3>5
  <2> QED
    BY <2>1, <2>2, <2>3, SeqEqual
<1> QED
  BY <1>3, <1>4, <1>5, <1>6

LEMMA WholeTaken ==
  ASSUME NEW bs \in Seq(Bytes), NEW y \in Seq(Bytes), NEW x \in Seq(Bytes), NEW z \in Seq(Bytes),
         Cat(bs, y) = Cat(x, z), Len(bs) = Len(x)
  PROVE  bs = x /\ y = z
<1>1. Len(bs) <= Len(x)
  OBVIOUS
<1>2. PICK w \in Seq(Bytes) : x = Cat(bs, w) /\ y = Cat(w, z)
  BY <1>1, BeginsWith
<1>3. Len(Cat(bs, w)) = Len(bs) + Len(w)
  BY CatType
<1>4. Len(w) = 0
  BY <1>2, <1>3
<1>5. w = <<>>
  BY <1>4, EmptySeq
<1> QED
  BY <1>2, <1>5, CatEmpty

-----------------------------------------------------------------------------
(* One connection.                                                            *)

LEMMA PrefixByIndex ==
  ASSUME NEW gs \in Seq(Whole), NEW fs \in Seq(Whole)
  PROVE  IsPrefix(gs, fs) <=> Len(gs) <= Len(fs) /\ \A i \in 1 .. Len(gs) : gs[i] = fs[i]
<1>1. Len(gs) \in Nat /\ Len(fs) \in Nat
  OBVIOUS
<1>2. SubSeq(gs, 1, Len(gs)) = gs
  BY SubSeqFull
<1> SUFFICES ASSUME Len(gs) <= Len(fs)
             PROVE  gs = SubSeq(fs, 1, Len(gs)) <=> \A i \in 1 .. Len(gs) : gs[i] = fs[i]
  BY <1>2 DEF IsPrefix
<1>3. PICK hs : hs = SubSeq(fs, 1, Len(gs))
  OBVIOUS
<1>4. /\ hs \in Seq(Whole) /\ Len(hs) = Len(gs)
      /\ \A i \in 1 .. Len(gs) : hs[i] = fs[i]
  <2>1. \A i \in 1 .. Len(gs) : fs[i] \in Whole
    BY <1>1
  <2>2. /\ hs \in Seq(Whole) /\ Len(hs) = IF 1 <= Len(gs) THEN Len(gs) - 1 + 1 ELSE 0
        /\ \A i \in 1 .. Len(gs) - 1 + 1 : hs[i] = fs[1 + i - 1]
    BY <1>1, <1>3, <2>1, SubSeqProperties
  <2> QED
    BY <1>1, <2>2
<1>5. ASSUME \A i \in 1 .. Len(gs) : gs[i] = fs[i] PROVE gs = hs
  BY <1>4, <1>5, SeqEqual
<1> QED
  BY <1>3, <1>4, <1>5

LEMMA PrefixLonger ==
  ASSUME NEW gs \in Seq(Whole), NEW fs \in Seq(Whole), NEW f \in Whole, IsPrefix(gs, fs)
  PROVE  IsPrefix(gs, Append(fs, f))
<1>1. PICK hs : hs = Append(fs, f)
  OBVIOUS
<1>2. hs \in Seq(Whole) /\ Len(hs) = Len(fs) + 1 /\ \A i \in 1 .. Len(fs) : hs[i] = fs[i]
  BY <1>1, AppendProperties
<1>3. Len(gs) <= Len(fs) /\ \A i \in 1 .. Len(gs) : gs[i] = fs[i]
  BY PrefixByIndex
<1>4. Len(gs) <= Len(hs) /\ \A i \in 1 .. Len(gs) : gs[i] = hs[i]
  BY <1>2, <1>3
<1> QED
  BY <1>1, <1>2, <1>4, PrefixByIndex

LEMMA PrefixNext ==
  ASSUME NEW gs \in Seq(Whole), NEW fs \in Seq(Whole), IsPrefix(gs, fs), Len(gs) < Len(fs)
  PROVE  IsPrefix(Append(gs, fs[Len(gs) + 1]), fs)
<1>1. Len(gs) <= Len(fs) /\ \A i \in 1 .. Len(gs) : gs[i] = fs[i]
  BY PrefixByIndex
<1>2. fs[Len(gs) + 1] \in Whole
  OBVIOUS
<1>3. PICK hs : hs = Append(gs, fs[Len(gs) + 1])
  OBVIOUS
<1>4. /\ hs \in Seq(Whole) /\ Len(hs) = Len(gs) + 1 /\ hs[Len(gs) + 1] = fs[Len(gs) + 1]
      /\ \A i \in 1 .. Len(gs) : hs[i] = gs[i]
  BY <1>2, <1>3, AppendProperties
<1>5. Len(hs) <= Len(fs)
  BY <1>4
<1>6. \A i \in 1 .. Len(hs) : hs[i] = fs[i]
  <2> SUFFICES ASSUME NEW i \in 1 .. Len(hs) PROVE hs[i] = fs[i]
    OBVIOUS
  <2>1. i = Len(gs) + 1 \/ i \in 1 .. Len(gs)
    BY <1>4
  <2> QED
    BY <1>1, <1>4, <2>1
<1> QED
  BY <1>3, <1>4, <1>5, <1>6, PrefixByIndex

LEMMA PrefixWhole ==
  ASSUME NEW gs \in Seq(Whole), NEW fs \in Seq(Whole), IsPrefix(gs, fs), Len(gs) = Len(fs)
  PROVE  gs = fs
  BY PrefixByIndex, SeqEqual

FrameBegins == <<FRAME_BEG>>
FrameEnds   == <<FRAME_END>>
BcastBegins == <<BCAST_BEG>>
BcastEnds   == <<BCAST_END>>

\* The bytes of a frame in the order they are received.
LEMMA Framed ==
  ASSUME NEW f \in Seq(Bytes), NEW t \in Seq(Bytes)
  PROVE  Cat(FrameOf(f), t) = Cat(FrameBegins, Cat(Stamp, Cat(f, Cat(FrameEnds, t))))
<1>1. PICK a, z : a = FrameBegins /\ z = FrameEnds
  OBVIOUS
<1>2. a \in Seq(Bytes) /\ z \in Seq(Bytes) /\ Stamp \in Seq(Bytes)
  BY <1>1, Sizes DEF FrameBegins, FrameEnds, FRAME_BEG, FRAME_END, Bytes
<1>3. FrameOf(f) = Cat(Cat(Cat(a, Stamp), f), z)
  BY <1>1 DEF FrameOf, Cat, FrameBegins, FrameEnds
<1>4. /\ Cat(a, Stamp) \in Seq(Bytes) /\ Cat(Cat(a, Stamp), f) \in Seq(Bytes)
      /\ Cat(z, t) \in Seq(Bytes) /\ Cat(f, Cat(z, t)) \in Seq(Bytes)
  BY <1>2, CatType
<1>5. Cat(FrameOf(f), t) = Cat(Cat(Cat(a, Stamp), f), Cat(z, t))
  BY <1>2, <1>3, <1>4, CatAssoc
<1>6. Cat(Cat(Cat(a, Stamp), f), Cat(z, t)) = Cat(Cat(a, Stamp), Cat(f, Cat(z, t)))
  BY <1>2, <1>4, CatAssoc
<1>7. Cat(Cat(a, Stamp), Cat(f, Cat(z, t))) = Cat(a, Cat(Stamp, Cat(f, Cat(z, t))))
  BY <1>2, <1>4, CatAssoc
<1> QED
  BY <1>1, <1>5, <1>6, <1>7

LEMMA ControlBytes ==
  /\ FrameBegins \in Seq(Bytes) /\ Len(FrameBegins) = 1
  /\ FrameEnds \in Seq(Bytes) /\ Len(FrameEnds) = 1
  /\ BcastBegins \in Seq(Bytes) /\ Len(BcastBegins) = 1
  /\ BcastEnds \in Seq(Bytes) /\ Len(BcastEnds) = 1
  /\ FrameEnds # FrameBegins /\ FrameEnds # BcastEnds /\ BcastEnds # FrameBegins
  /\ <<>> \in Seq(Bytes) /\ Len(<<>>) = 0
  BY DEF FrameBegins, FrameEnds, BcastBegins, BcastEnds, FRAME_BEG, FRAME_END, BCAST_BEG, BCAST_END, Bytes

End(p) == IF p = "done" THEN BcastEnds ELSE <<>>

\* What holds of a sender at p with the frames fs, a receiver at q with header h, picture f and
\* the frames gs, and the bytes R sent and not received: the receiver has the first of the
\* sender's frames, and R is what completes them, from the very byte at which the
\* receiver's program expects it.  A receiver that has taken a part of a time stamp for
\* the whole, or that has ended by an exception, is owed nothing.
Link(R, p, fs, q, h, f, gs) ==
  /\ IsPrefix(gs, fs)
  /\ p = "begin" => q \in {"begin", "dead"} /\ fs = <<>>
  /\ q = "begin" =>
       /\ gs = <<>> /\ f = <<>>
       /\ \/ p \in {"begin", "dead"} /\ fs = <<>> /\ R = <<>>
          \/ p # "begin" /\ \E t \in Later(fs, 0, End(p)) : R = Cat(BcastBegins, t)
  /\ q = "scan" =>
       f = <<>> /\ \E t \in Later(fs, Len(gs), End(p)) : R = t \/ R = Cat(FrameEnds, t)
  /\ q = "header" =>
       /\ f = <<>> /\ Len(gs) < Len(fs)
       /\ \E t \in Later(fs, Len(gs) + 1, End(p)) :
            R = Cat(Stamp, Cat(fs[Len(gs) + 1], Cat(FrameEnds, t)))
  /\ q = "frame" /\ Len(h) = TIMESTAMP_LEN =>
       /\ Len(gs) < Len(fs)
       /\ \E t \in Later(fs, Len(gs) + 1, End(p)), rest \in Seq(Bytes) :
            fs[Len(gs) + 1] = Cat(f, rest) /\ R = Cat(rest, Cat(FrameEnds, t))
  /\ q = "done" => p = "done" /\ R = <<>> /\ gs = fs

LEMMA LinkDead ==
  ASSUME NEW R, NEW p, NEW fs, NEW q, NEW h, NEW f, NEW gs, Link(R, p, fs, q, h, f, gs),
         NEW S, NEW o, p = "begin" => o = "begin" \/ o = "dead", o = "begin" => p = "begin",
         NEW i, NEW g
  PROVE  Link(S, o, fs, "dead", i, g, gs)
  BY DEF Link

\* A sender that moves on without sending.
LEMMA LinkQuiet ==
  ASSUME NEW R, NEW p, NEW fs, NEW q, NEW h, NEW f, NEW gs, Link(R, p, fs, q, h, f, gs),
         NEW o, \/ p \notin {"begin", "done", "dead"} /\ o \notin {"begin", "done"}
                \/ p = "begin" /\ o = "dead"
  PROVE  Link(R, o, fs, q, h, f, gs)
<1>1. CASE p \notin {"begin", "done", "dead"} /\ o \notin {"begin", "done"}
  <2>1. End(p) = End(o)
    BY <1>1 DEF End
  <2> QED
    BY <1>1, <2>1 DEF Link
<1>2. CASE p = "begin" /\ o = "dead"
  <2>1. /\ IsPrefix(gs, fs) /\ q \in {"begin", "dead"} /\ fs = <<>>
        /\ q = "begin" => gs = <<>> /\ f = <<>> /\ R = <<>>
    BY <1>2 DEF Link
  <2> QED
    BY <1>2, <2>1 DEF Link
<1> QED
  BY <1>1, <1>2

\* The stream begins.
LEMMA LinkBegun ==
  ASSUME NEW R \in Seq(Bytes), NEW fs, NEW q, NEW h, NEW f, NEW gs, Link(R, "begin", fs, q, h, f, gs),
         NEW o \in {"frames", "scan"}
  PROVE  Link(Cat(R, BcastBegins), o, fs, q, h, f, gs)
<1>1. /\ IsPrefix(gs, fs) /\ q \in {"begin", "dead"} /\ fs = <<>>
      /\ q = "begin" => gs = <<>> /\ f = <<>> /\ R = <<>>
  BY DEF Link
<1>2. End(o) = <<>> /\ o \notin {"begin", "done", "dead"}
  BY DEF End
<1>3. CASE q = "dead"
  BY <1>1, <1>2, <1>3 DEF Link
<1>4. CASE q = "begin"
  <2>1. fs \in Seq(Whole) /\ Len(fs) = 0
    BY <1>1
  <2>2. <<>> \in Later(fs, 0, End(o))
    BY <1>2, <2>1, LaterEnd, ControlBytes
  <2>3. Cat(R, BcastBegins) = Cat(BcastBegins, <<>>)
    BY <1>1, <1>4, CatEmpty, ControlBytes
  <2> QED
    BY <1>1, <1>2, <1>4, <2>2, <2>3 DEF Link
<1> QED
  BY <1>1, <1>3, <1>4

\* More is sent: another frame, or the end.
LEMMA LinkMore ==
  ASSUME NEW R \in Seq(Bytes), NEW p \in {"frames", "scan", "frame"}, NEW fs \in Seq(Whole), NEW q,
         NEW h \in Seq(Bytes), NEW f \in Seq(Bytes), NEW gs \in Seq(Whole),
         Link(R, p, fs, q, h, f, gs),
         NEW more \in Seq(Bytes), NEW o, o # "begin", NEW fs2 \in Seq(Whole),
         IsPrefix(gs, fs2), IsPrefix(fs, fs2),
         \A n \in 0 .. Len(fs) : \A t \in Later(fs, n, <<>>) : Cat(t, more) \in Later(fs2, n, End(o))
  PROVE  Link(Cat(R, more), o, fs2, q, h, f, gs)
<1>1. End(p) = <<>>
  BY DEF End
<1>2. /\ Len(gs) \in Nat /\ Len(fs) \in Nat /\ Len(gs) <= Len(fs) /\ Len(fs) <= Len(fs2)
      /\ \A i \in 1 .. Len(fs) : fs2[i] = fs[i]
  <2>1. IsPrefix(gs, fs)
    BY DEF Link
  <2> QED
    BY <2>1, PrefixByIndex
<1>3. ASSUME NEW x \in Seq(Bytes), NEW n \in 0 .. Len(fs), NEW t \in Later(fs, n, <<>>), R = Cat(x, t)
      PROVE  /\ Cat(t, more) \in Later(fs2, n, End(o))
             /\ Cat(R, more) = Cat(x, Cat(t, more))
  <2>1. t \in Seq(Bytes)
    BY LaterType
  <2> QED
    BY <1>3, <2>1, CatAssoc
<1>4. CASE q = "begin"
  <2>1. /\ gs = <<>> /\ f = <<>>
        /\ \E t \in Later(fs, 0, <<>>) : R = Cat(BcastBegins, t)
    BY <1>1, <1>4 DEF Link
  <2>2. PICK t \in Later(fs, 0, <<>>) : R = Cat(BcastBegins, t)
    BY <2>1
  <2>3. 0 \in 0 .. Len(fs)
    BY <1>2
  <2>4. Cat(t, more) \in Later(fs2, 0, End(o)) /\ Cat(R, more) = Cat(BcastBegins, Cat(t, more))
    BY <1>3, <2>2, <2>3, ControlBytes
  <2> QED
    BY <1>4, <2>1, <2>4 DEF Link
<1>5. CASE q = "scan"
  <2>1. PICK t \in Later(fs, Len(gs), <<>>) : R = t \/ R = Cat(FrameEnds, t)
    BY <1>1, <1>5 DEF Link
  <2>2. f = <<>> /\ Len(gs) \in 0 .. Len(fs)
    BY <1>2, <1>5 DEF Link
  <2>3. Cat(t, more) \in Later(fs2, Len(gs), End(o))
    BY <2>2
  <2>4. Cat(R, more) = Cat(t, more) \/ Cat(R, more) = Cat(FrameEnds, Cat(t, more))
    BY <1>3, <2>1, <2>2, ControlBytes
  <2> QED
    BY <1>5, <2>2, <2>3, <2>4 DEF Link
<1>6. CASE q = "header"
  <2>1. PICK t \in Later(fs, Len(gs) + 1, <<>>) :
          R = Cat(Stamp, Cat(fs[Len(gs) + 1], Cat(FrameEnds, t)))
    BY <1>1, <1>6 DEF Link
  <2>2. f = <<>> /\ Len(gs) < Len(fs)
    BY <1>6 DEF Link
  <2>3. Len(gs) + 1 \in 0 .. Len(fs) /\ Len(gs) + 1 \in 1 .. Len(fs) /\ Len(gs) < Len(fs2)
    BY <1>2, <2>2
  <2>4. PICK g \in Seq(Bytes) : g = fs[Len(gs) + 1] /\ g = fs2[Len(gs) + 1]
    BY <1>2, <2>3 DEF Whole
  <2>5. t \in Seq(Bytes) /\ Cat(t, more) \in Later(fs2, Len(gs) + 1, End(o))
    BY <2>3, LaterType
  <2>6. Cat(R, more) = Cat(Stamp, Cat(g, Cat(FrameEnds, Cat(t, more))))
    <3>1. /\ Stamp \in Seq(Bytes) /\ FrameEnds \in Seq(Bytes)
          /\ Cat(FrameEnds, t) \in Seq(Bytes) /\ Cat(g, Cat(FrameEnds, t)) \in Seq(Bytes)
      BY <2>4, <2>5, Sizes, ControlBytes, CatType
    <3>2. Cat(Cat(FrameEnds, t), more) = Cat(FrameEnds, Cat(t, more))
      BY <2>5, <3>1, CatAssoc
    <3>3. Cat(Cat(g, Cat(FrameEnds, t)), more) = Cat(g, Cat(Cat(FrameEnds, t), more))
      BY <3>1, CatAssoc
    <3>4. Cat(R, more) = Cat(Stamp, Cat(Cat(g, Cat(FrameEnds, t)), more))
      BY <2>1, <2>4, <3>1, CatAssoc
    <3> QED
      BY <3>2, <3>3, <3>4
  <2> QED
    BY <1>6, <2>2, <2>3, <2>4, <2>5, <2>6 DEF Link
<1>7. CASE q = "frame" /\ Len(h) = TIMESTAMP_LEN
  <2>1. PICK t \in Later(fs, Len(gs) + 1, <<>>), rest \in Seq(Bytes) :
          fs[Len(gs) + 1] = Cat(f, rest) /\ R = Cat(rest, Cat(FrameEnds, t))
    BY <1>1, <1>7 DEF Link
  <2>2. Len(gs) < Len(fs)
    BY <1>7 DEF Link
  <2>3. Len(gs) + 1 \in 0 .. Len(fs) /\ Len(gs) + 1 \in 1 .. Len(fs) /\ Len(gs) < Len(fs2)
    BY <1>2, <2>2
  <2>4. fs2[Len(gs) + 1] = Cat(f, rest)
    BY <1>2, <2>1, <2>3
  <2>5. t \in Seq(Bytes) /\ Cat(t, more) \in Later(fs2, Len(gs) + 1, End(o))
    BY <2>3, LaterType
  <2>6. Cat(R, more) = Cat(rest, Cat(FrameEnds, Cat(t, more)))
    <3>1. FrameEnds \in Seq(Bytes) /\ Cat(FrameEnds, t) \in Seq(Bytes)
      BY <2>5, ControlBytes, CatType
    <3>2. Cat(Cat(FrameEnds, t), more) = Cat(FrameEnds, Cat(t, more))
      BY <2>5, <3>1, CatAssoc
    <3>3. Cat(R, more) = Cat(rest, Cat(Cat(FrameEnds, t), more))
      BY <2>1, <3>1, CatAssoc
    <3> QED
      BY <3>2, <3>3
  <2> QED
    BY <1>7, <2>3, <2>4, <2>5, <2>6 DEF Link
<1>8. CASE q \notin {"begin", "scan", "header", "done"} /\ ~ (q = "frame" /\ Len(h) = TIMESTAMP_LEN)
  BY <1>8 DEF Link
<1>9. q # "done"
  BY DEF Link
<1> QED
  BY <1>4, <1>5, <1>6, <1>7, <1>8, <1>9

LEMMA LinkSent ==
  ASSUME NEW R \in Seq(Bytes), NEW p \in {"frames", "frame"}, NEW fs \in Seq(Whole), NEW q,
         NEW h \in Seq(Bytes), NEW f \in Seq(Bytes), NEW gs \in Seq(Whole),
         Link(R, p, fs, q, h, f, gs),
         NEW o \in {"frames", "scan"}, NEW g \in Whole
  PROVE  Link(Cat(R, FrameOf(g)), o, Append(fs, g), q, h, f, gs)
<1>1. PICK more \in Seq(Bytes) : more = FrameOf(g)
  BY FrameOfType DEF Whole
<1>2. PICK fs2 \in Seq(Whole) : fs2 = Append(fs, g)
  BY AppendProperties
<1>3. IsPrefix(gs, fs) /\ IsPrefix(fs, fs)
  BY PrefixByIndex DEF Link
<1>4. IsPrefix(gs, fs2) /\ IsPrefix(fs, fs2)
  BY <1>2, <1>3, PrefixLonger
<1>5. End(o) = <<>> /\ o # "begin"
  BY DEF End
<1>6. \A n \in 0 .. Len(fs) : \A t \in Later(fs, n, <<>>) : Cat(t, more) \in Later(fs2, n, End(o))
  BY <1>1, <1>2, <1>5, LaterSent
<1> QED
  BY <1>1, <1>2, <1>4, <1>5, <1>6, LinkMore

LEMMA LinkEnded ==
  ASSUME NEW R \in Seq(Bytes), NEW p \in {"frames", "scan"}, NEW fs \in Seq(Whole), NEW q,
         NEW h \in Seq(Bytes), NEW f \in Seq(Bytes), NEW gs \in Seq(Whole),
         Link(R, p, fs, q, h, f, gs)
  PROVE  Link(Cat(R, BcastEnds), "done", fs, q, h, f, gs)
<1>1. PICK more \in Seq(Bytes) : more = BcastEnds
  BY ControlBytes
<1>2. IsPrefix(gs, fs) /\ IsPrefix(fs, fs)
  BY PrefixByIndex DEF Link
<1>3. End("done") = more
  BY <1>1 DEF End
<1>4. ASSUME NEW n \in 0 .. Len(fs), NEW t \in Later(fs, n, <<>>)
      PROVE  Cat(t, more) \in Later(fs, n, End("done"))
  <2>1. n \in Nat /\ n <= Len(fs)
    OBVIOUS
  <2>2. Cat(t, more) \in Later(fs, n, more)
    BY <2>1, LaterEnded
  <2> QED
    BY <1>3, <2>2
<1> QED
  BY <1>1, <1>2, <1>4, LinkMore

LEMMA NotEmpty ==
  ASSUME NEW bs \in Seq(Bytes), NEW y \in Seq(Bytes), Len(bs) = 1
  PROVE  Cat(bs, y) # <<>>
<1>1. Len(Cat(bs, y)) = Len(bs) + Len(y)
  BY CatType
<1>2. Len(y) \in Nat
  OBVIOUS
<1>3. Len(Cat(bs, y)) # 0
  BY <1>1, <1>2
<1> QED
  BY <1>3

LEMMA One ==
  ASSUME NEW bs \in Seq(Bytes), Len(bs) <= 1, bs # <<>>
  PROVE  Len(bs) = 1
<1>1. Len(bs) \in Nat /\ Len(bs) # 0
  BY EmptySeq
<1> QED
  BY <1>1

\* What a receiver takes is the beginning of what it is owed.
LEMMA LinkBeginReceived ==
  ASSUME NEW p, NEW fs \in Seq(Whole), NEW h, NEW f \in Seq(Bytes), NEW gs \in Seq(Whole),
         NEW bs \in Seq(Bytes), NEW S \in Seq(Bytes),
         Link(Cat(bs, S), p, fs, "begin", h, f, gs), bs = BcastBegins
  PROVE  Link(S, p, fs, "scan", h, f, gs)
<1>1. Cat(bs, S) # <<>>
  BY NotEmpty, ControlBytes
<1>2. /\ IsPrefix(gs, fs) /\ gs = <<>> /\ f = <<>> /\ p # "begin"
      /\ \E t \in Later(fs, 0, End(p)) : Cat(bs, S) = Cat(BcastBegins, t)
  BY <1>1 DEF Link
<1>3. PICK t \in Later(fs, 0, End(p)) : Cat(bs, S) = Cat(BcastBegins, t)
  BY <1>2
<1>4. t \in Seq(Bytes)
  BY LaterType
<1>5. S = t
  BY <1>3, <1>4, WholeTaken, ControlBytes
<1>6. Len(gs) = 0
  BY <1>2
<1> QED
  BY <1>2, <1>5, <1>6 DEF Link

\* Between frames the next byte is the one after the last frame, or begins a frame, or ends
\* the broadcast.
LEMMA LinkControlReceived ==
  ASSUME NEW p, NEW fs \in Seq(Whole), NEW h, NEW f \in Seq(Bytes), NEW gs \in Seq(Whole),
         NEW bs \in Seq(Bytes), NEW S \in Seq(Bytes),
         Link(Cat(bs, S), p, fs, "scan", h, f, gs),
         Len(bs) <= 1, bs # <<>>
  PROVE  \/ bs = FrameBegins /\ Link(S, p, fs, "header", h, f, gs)
         \/ bs = BcastEnds /\ Link(S, p, fs, "done", h, f, gs)
         \/ bs = FrameEnds /\ Link(S, p, fs, "scan", h, f, gs)
<1>1. /\ IsPrefix(gs, fs) /\ p # "begin" /\ f = <<>>
      /\ \E t \in Later(fs, Len(gs), End(p)) : Cat(bs, S) = t \/ Cat(bs, S) = Cat(FrameEnds, t)
  BY DEF Link
<1>2. PICK t \in Later(fs, Len(gs), End(p)) : Cat(bs, S) = t \/ Cat(bs, S) = Cat(FrameEnds, t)
  BY <1>1
<1>4. Len(bs) = 1
  BY One
<1>5. Len(gs) \in Nat /\ Len(fs) \in Nat /\ Len(gs) <= Len(fs)
  BY <1>1, PrefixByIndex
<1>6. t \in Seq(Bytes)
  BY <1>5, LaterType
<1>7. CASE Cat(bs, S) = Cat(FrameEnds, t)
  <2>1. bs = FrameEnds /\ S = t
    BY <1>4, <1>6, <1>7, WholeTaken, ControlBytes
  <2> QED
    BY <1>1, <2>1 DEF Link
<1>8. CASE Cat(bs, S) = t /\ Len(gs) < Len(fs)
  <2>1. PICK u \in Later(fs, Len(gs) + 1, End(p)) : t = Cat(FrameOf(fs[Len(gs) + 1]), u)
    BY <1>5, <1>8, LaterNext
  <2>2. PICK g \in Seq(Bytes) : g = fs[Len(gs) + 1]
    BY <1>5, <1>8 DEF Whole
  <2>3. u \in Seq(Bytes)
    BY <1>5, <1>8, LaterType
  <2>4. PICK v \in Seq(Bytes) : v = Cat(Stamp, Cat(g, Cat(FrameEnds, u)))
    BY <2>3, Sizes, ControlBytes, CatType
  <2>5. Cat(bs, S) = Cat(FrameBegins, v)
    BY <1>8, <2>1, <2>2, <2>3, <2>4, Framed
  <2>6. bs = FrameBegins /\ S = v
    BY <1>4, <2>5, WholeTaken, ControlBytes
  <2> QED
    BY <1>1, <1>8, <2>2, <2>4, <2>6 DEF Link
<1>9. CASE Cat(bs, S) = t /\ Len(gs) = Len(fs)
  <2>1. PICK end \in Seq(Bytes) : end = End(p)
    BY ControlBytes DEF End
  <2>2. t = end
    BY <1>9, <2>1, LaterEnd
  <2>3. Cat(bs, S) # <<>>
    BY <1>4, NotEmpty
  <2>4. p = "done" /\ t = BcastEnds
    BY <1>9, <2>1, <2>2, <2>3 DEF End
  <2>5. Cat(bs, S) = Cat(BcastEnds, <<>>)
    BY <1>9, <2>4, CatEmpty, ControlBytes
  <2>6. bs = BcastEnds /\ S = <<>>
    BY <1>4, <2>5, WholeTaken, ControlBytes
  <2>7. gs = fs
    BY <1>1, <1>9, PrefixWhole
  <2> QED
    BY <1>1, <2>4, <2>6, <2>7 DEF Link
<1> QED
  BY <1>2, <1>5, <1>7, <1>8, <1>9

\* The header is the time stamp, or shorter than it.
LEMMA LinkHeaderReceived ==
  ASSUME NEW p, NEW fs \in Seq(Whole), NEW h, NEW f \in Seq(Bytes), NEW gs \in Seq(Whole),
         NEW bs \in Seq(Bytes), NEW S \in Seq(Bytes),
         Link(Cat(bs, S), p, fs, "header", h, f, gs),
         Len(bs) <= TIMESTAMP_LEN
  PROVE  Link(S, p, fs, "frame", bs, f, gs)
<1>1. /\ IsPrefix(gs, fs) /\ p # "begin" /\ f = <<>> /\ Len(gs) < Len(fs)
      /\ \E t \in Later(fs, Len(gs) + 1, End(p)) :
            Cat(bs, S) = Cat(Stamp, Cat(fs[Len(gs) + 1], Cat(FrameEnds, t)))
  BY DEF Link
<1>2. CASE Len(bs) = TIMESTAMP_LEN
  <2>1. PICK t \in Later(fs, Len(gs) + 1, End(p)) :
          Cat(bs, S) = Cat(Stamp, Cat(fs[Len(gs) + 1], Cat(FrameEnds, t)))
    BY <1>1
  <2>2. t \in Seq(Bytes)
    <3>1. Len(gs) + 1 \in Nat /\ Len(gs) + 1 <= Len(fs)
      BY <1>1
    <3> QED
      BY <3>1, LaterType
  <2>3. PICK g \in Seq(Bytes) : g = fs[Len(gs) + 1]
    BY <1>1 DEF Whole
  <2>4. PICK v \in Seq(Bytes) : v = Cat(g, Cat(FrameEnds, t))
    BY <2>2, ControlBytes, CatType
  <2>5. Stamp \in Seq(Bytes) /\ Len(Stamp) = TIMESTAMP_LEN
    BY SizesAssumption
  <2>6. S = v
    BY <1>2, <2>1, <2>3, <2>4, <2>5, WholeTaken
  <2>7. fs[Len(gs) + 1] = Cat(f, g)
    BY <1>1, <2>3, CatEmpty
  <2> QED
    BY <1>1, <2>4, <2>6, <2>7 DEF Link
<1>3. CASE Len(bs) # TIMESTAMP_LEN
  BY <1>1, <1>3 DEF Link
<1> QED
  BY <1>2, <1>3

\* The picture goes on with what is received; when it is complete it is the next frame.
LEMMA LinkFrameReceived ==
  ASSUME NEW p, NEW fs \in Seq(Whole), NEW h, NEW f \in Seq(Bytes), NEW gs \in Seq(Whole),
         NEW bs \in Seq(Bytes), NEW S \in Seq(Bytes),
         Link(Cat(bs, S), p, fs, "frame", h, f, gs),
         Len(f) < FRAME_SIZE, Len(bs) <= FRAME_SIZE - Len(f)
  PROVE  /\ Link(S, p, fs, "frame", h, Cat(f, bs), gs)
         /\ Len(h) = TIMESTAMP_LEN /\ Len(Cat(f, bs)) >= FRAME_SIZE =>
              \A i : Link(S, p, fs, "scan", i, <<>>, Append(gs, Cat(f, bs)))
<1>1. IsPrefix(gs, fs) /\ p # "begin"
  BY DEF Link
<1>2. CASE Len(h) # TIMESTAMP_LEN
  BY <1>1, <1>2 DEF Link
<1>3. CASE Len(h) = TIMESTAMP_LEN
  <2>1. PICK t \in Later(fs, Len(gs) + 1, End(p)), rest \in Seq(Bytes) :
          fs[Len(gs) + 1] = Cat(f, rest) /\ Cat(bs, S) = Cat(rest, Cat(FrameEnds, t))
    BY <1>3 DEF Link
  <2>2. Len(gs) < Len(fs)
    BY <1>3 DEF Link
  <2>3. t \in Seq(Bytes)
    <3>1. Len(gs) + 1 \in Nat /\ Len(gs) + 1 <= Len(fs)
      BY <2>2
    <3> QED
      BY <3>1, LaterType
  <2>4. PICK v \in Seq(Bytes) : v = Cat(FrameEnds, t)
    BY <2>3, ControlBytes, CatType
  <2>5. fs[Len(gs) + 1] \in Whole
    BY <2>2
  <2>6. Len(f) + Len(rest) = FRAME_SIZE /\ Len(f) \in Nat /\ Len(rest) \in Nat
    <3>1. Len(fs[Len(gs) + 1]) = FRAME_SIZE
      BY <2>5 DEF Whole
    <3>2. Len(Cat(f, rest)) = Len(f) + Len(rest)
      BY CatType
    <3>3. Len(f) + Len(rest) = FRAME_SIZE
      BY <2>1, <3>1, <3>2
    <3> QED
      BY <3>3
  <2>7. Len(bs) <= Len(rest)
    BY <2>6, Sizes
  <2>8. PICK w \in Seq(Bytes) : rest = Cat(bs, w) /\ S = Cat(w, v)
    BY <2>1, <2>4, <2>7, BeginsWith
  <2>9. fs[Len(gs) + 1] = Cat(Cat(f, bs), w)
    BY <2>1, <2>8, CatAssoc
  <2>10. Link(S, p, fs, "frame", h, Cat(f, bs), gs)
    BY <1>1, <2>2, <2>4, <2>8, <2>9 DEF Link
  <2>11. ASSUME Len(Cat(f, bs)) >= FRAME_SIZE, NEW i
         PROVE  Link(S, p, fs, "scan", i, <<>>, Append(gs, Cat(f, bs)))
    <3>1. PICK g \in Seq(Bytes) : g = Cat(f, bs)
      BY CatType
    <3>2. Len(fs[Len(gs) + 1]) = Len(g) + Len(w) /\ Len(g) \in Nat /\ Len(w) \in Nat
      <4>1. Len(Cat(g, w)) = Len(g) + Len(w)
        BY CatType
      <4> QED
        BY <2>9, <3>1, <4>1
    <3>3. Len(w) = 0
      BY <2>5, <2>11, <3>1, <3>2, Sizes DEF Whole
    <3>4. w = <<>>
      BY <3>3, EmptySeq
    <3>5. fs[Len(gs) + 1] = g /\ S = v
      BY <2>8, <2>9, <3>1, <3>4, CatEmpty
    <3>6. PICK hs : hs = Append(gs, g)
      OBVIOUS
    <3>7. g \in Whole
      BY <2>5, <3>5
    <3>8. hs \in Seq(Whole) /\ Len(hs) = Len(gs) + 1
      BY <3>6, <3>7, AppendProperties
    <3>9. IsPrefix(hs, fs)
      BY <1>1, <2>2, <3>5, <3>6, PrefixNext
    <3>10. Link(S, p, fs, "scan", i, <<>>, hs)
      BY <1>1, <2>4, <3>5, <3>8, <3>9 DEF Link
    <3> QED
      BY <3>1, <3>6, <3>10
  <2> QED
    BY <2>10, <2>11
<1> QED
  BY <1>2, <1>3

-----------------------------------------------------------------------------
(* The connections of a route.                                                *)

LEMMA RouteFacts ==
  ASSUME route \in Routes
  PROVE  /\ TakesPart("viewer") /\ Last(route) = "viewer"
         /\ TakesPart("cdn") =>
              /\ From("cdn") = "broadcaster" /\ From("viewer") = "cdn"
              /\ To("broadcaster") = "cdn" /\ To("cdn") = "viewer"
         /\ ~TakesPart("cdn") => From("viewer") = "broadcaster" /\ To("broadcaster") = "viewer"
<1>1. CASE route = <<"broadcaster", "cdn", "viewer">>
  <2>1. /\ Len(route) = 3 /\ DOMAIN route = 1 .. 3
        /\ route[1] = "broadcaster" /\ route[2] = "cdn" /\ route[3] = "viewer"
    BY <1>1
  <2>2. \A i \in DOMAIN route : i = 1 \/ i = 2 \/ i = 3
    BY <2>1
  <2>3. (CHOOSE i \in DOMAIN route : route[i] = "broadcaster") = 1
    BY <2>1, <2>2
  <2>4. (CHOOSE i \in DOMAIN route : route[i] = "cdn") = 2
    BY <2>1, <2>2
  <2>5. (CHOOSE i \in DOMAIN route : route[i] = "viewer") = 3
    BY <2>1, <2>2
  <2>6. From("cdn") = "broadcaster" /\ From("viewer") = "cdn"
    BY <2>1, <2>4, <2>5 DEF From
  <2>7. To("broadcaster") = "cdn" /\ To("cdn") = "viewer"
    BY <2>1, <2>3, <2>4 DEF To
  <2>8. TakesPart("viewer") /\ TakesPart("cdn") /\ Last(route) = "viewer"
    BY <2>1 DEF TakesPart, Range, Last
  <2> QED
    BY <2>6, <2>7, <2>8
<1>2. CASE route = <<"broadcaster", "viewer">>
  <2>1. /\ Len(route) = 2 /\ DOMAIN route = 1 .. 2
        /\ route[1] = "broadcaster" /\ route[2] = "viewer"
    BY <1>2
  <2>2. \A i \in DOMAIN route : i = 1 \/ i = 2
    BY <2>1
  <2>3. (CHOOSE i \in DOMAIN route : route[i] = "broadcaster") = 1
    BY <2>1, <2>2
  <2>4. (CHOOSE i \in DOMAIN route : route[i] = "viewer") = 2
    BY <2>1, <2>2
  <2>5. From("viewer") = "broadcaster" /\ To("broadcaster") = "viewer"
    BY <2>1, <2>3, <2>4 DEF From, To
  <2>6. TakesPart("viewer") /\ ~TakesPart("cdn") /\ Last(route) = "viewer"
    BY <2>1, <2>2 DEF TakesPart, Range, Last
  <2> QED
    BY <2>5, <2>6
<1> QED
  BY <1>1, <1>2 DEF Routes

Connected(s, r) ==
  Link(Cat(wire[s], unsent[s]), pc[s], frames[s], pc[r], header[r], frame[r], frames[r])

\* A step that changes nothing of a connection.
LEMMA Untouched ==
  ASSUME NEW s, NEW r, Connected(s, r),
         wire'[s] = wire[s], unsent'[s] = unsent[s], pc'[s] = pc[s], frames'[s] = frames[s],
         pc'[r] = pc[r], header'[r] = header[r], frame'[r] = frame[r], frames'[r] = frames[r]
  PROVE  Connected(s, r)'
  BY DEF Connected

LEMMA StateTypes ==
  ASSUME TypeOK, NEW s \in Hosts, NEW r \in Receivers
  PROVE  /\ wire[s] \in Seq(Bytes) /\ unsent[s] \in Seq(Bytes)
         /\ Cat(wire[s], unsent[s]) \in Seq(Bytes)
         /\ frames[s] \in Seq(Whole) /\ frames[r] \in Seq(Whole)
         /\ header[r] \in Seq(Bytes) /\ frame[r] \in Seq(Bytes) /\ Len(frame[r]) < FRAME_SIZE
         /\ Receivers \subseteq Hosts
<1>1. Receivers \subseteq Hosts
  BY DEF Receivers, Hosts
<1>2. wire[s] \in Seq(Bytes) /\ unsent[s] \in Seq(Bytes)
  BY DEF TypeOK
<1>3. frames[s] \in Seq(Whole) /\ frames[r] \in Seq(Whole)
  BY <1>1 DEF TypeOK, Whole
<1>4. header[r] \in Seq(Bytes) /\ frame[r] \in Seq(Bytes) /\ Len(frame[r]) < FRAME_SIZE
  BY DEF TypeOK
<1> QED
  BY <1>1, <1>2, <1>3, <1>4, CatType

\* TCP moves a byte along, loses it when nobody reads any more, or ends the sender.
LEMMA TransmitConnected ==
  ASSUME TypeOK, NEW s \in Hosts, NEW r \in Receivers, s # r, To(s) = r, Connected(s, r),
         NEW h \in Hosts, Transmit(h)
  PROVE  Connected(s, r)'
<1>1. /\ wire \in [Hosts -> Seq(Bytes)] /\ unsent \in [Hosts -> Seq(Bytes)] /\ r \in Hosts
      /\ pc \in [Hosts -> Where] /\ UNCHANGED <<header, frame, frames>> /\ unsent[h] # <<>>
  BY DEF TypeOK, Transmit, Receivers, Hosts, Where
<1>2. CASE h # s /\ h # r
  BY <1>1, <1>2, Untouched DEF Transmit
<1>3. CASE h = r
  <2>1. wire'[s] = wire[s] /\ unsent'[s] = unsent[s] /\ pc'[s] = pc[s]
    BY <1>1, <1>3 DEF Transmit
  <2>2. pc'[r] = pc[r] \/ pc'[r] = "dead"
    BY <1>1, <1>3 DEF Transmit
  <2>3. CASE pc'[r] = pc[r]
    BY <1>1, <2>1, <2>3, Untouched
  <2>4. CASE pc'[r] = "dead"
    <3>1. Link(Cat(wire[s], unsent[s]), pc[s], frames[s], "dead", header[r], frame[r], frames[r])
      BY LinkDead DEF Connected
    <3> QED
      BY <1>1, <2>1, <2>4, <3>1 DEF Connected
  <2> QED
    BY <2>2, <2>3, <2>4
<1>4. CASE h = s /\ ~Closed(r)
  <2>1. /\ wire'[s] = Append(wire[s], Head(unsent[s])) /\ unsent'[s] = Tail(unsent[s])
        /\ pc' = pc
    BY <1>1, <1>4 DEF Transmit
  <2>2. ASSUME NEW w \in Seq(Bytes), NEW u \in Seq(Bytes), u # <<>>
        PROVE  Cat(Append(w, Head(u)), Tail(u)) = Cat(w, u)
    <3>1. PICK b \in Bytes : b = Head(u)
      BY <2>2, HeadTailProperties
    <3>2. PICK v \in Seq(Bytes) : v = Tail(u)
      BY <2>2, HeadTailProperties
    <3>3. PICK x \in Seq(Bytes) : x = <<b>>
      <4>1. PICK y : y = <<b>>
        OBVIOUS
      <4>2. y \in Seq(Bytes)
        BY <3>1, <4>1
      <4> QED
        BY <4>1, <4>2
    <3>4. u = Cat(x, v)
      BY <2>2, <3>1, <3>2, <3>3 DEF Cat
    <3>5. Append(w, b) = Cat(w, x)
      BY <3>3, AppendIsConcat DEF Cat
    <3>6. Cat(Cat(w, x), v) = Cat(w, Cat(x, v))
      BY CatAssoc
    <3> QED
      BY <3>1, <3>2, <3>4, <3>5, <3>6
  <2>3. Cat(wire'[s], unsent'[s]) = Cat(wire[s], unsent[s])
    BY <1>1, <1>4, <2>1, <2>2
  <2> QED
    BY <1>1, <2>1, <2>3 DEF Connected
<1>5. CASE h = s /\ Closed(r)
  <2>1. pc[r] \in {"done", "dead"}
    BY <1>5 DEF Closed
  <2>2. Cat(wire[s], unsent[s]) # <<>>
    <3>1. wire[s] \in Seq(Bytes) /\ unsent[s] \in Seq(Bytes) /\ unsent[s] # <<>>
      BY <1>1, <1>5
    <3> QED
      BY <3>1, ConcatEqualIffEmpty DEF Cat
  <2>3. pc[r] = "dead"
    BY <2>1, <2>2 DEF Connected, Link
  <2>4. pc'[r] = pc[r] /\ (pc'[s] = pc[s] \/ pc'[s] = "dead")
    BY <1>1, <1>5 DEF Transmit
  <2>5. Link(Cat(wire'[s], unsent'[s]), pc'[s], frames[s], "dead", header[r], frame[r], frames[r])
    BY <2>4, LinkDead DEF Connected
  <2> QED
    BY <1>1, <2>3, <2>4, <2>5 DEF Connected
<1> QED
  BY <1>2, <1>3, <1>4, <1>5

LEMMA BroadcasterConnected ==
  ASSUME TypeOK, NEW s \in Hosts, NEW r \in Receivers, s # r, Connected(s, r),
         pc["broadcaster"] = "begin" => unsent["broadcaster"] = <<>>,
         TimesUp \/ BeginBroadcast \/ SendFrame \/ EndBroadcast
  PROVE  Connected(s, r)'
<1>1. /\ wire' = wire /\ UNCHANGED <<header, frame>> /\ r # "broadcaster" /\ r \in Hosts
      /\ unsent \in [Hosts -> Seq(Bytes)] /\ pc \in [Hosts -> Where] /\ frames \in [Hosts -> Seq(Whole)]
      /\ "broadcaster" \in Hosts
  BY DEF TimesUp, BeginBroadcast, SendFrame, EndBroadcast, Receivers, Hosts, TypeOK, Where, Whole
<1>2. pc'[r] = pc[r] /\ frames'[r] = frames[r]
  BY <1>1 DEF TimesUp, BeginBroadcast, SendFrame, EndBroadcast
<1>3. CASE TimesUp \/ s # "broadcaster"
  BY <1>1, <1>2, <1>3, Untouched DEF TimesUp, BeginBroadcast, SendFrame, EndBroadcast
<1>4. CASE s = "broadcaster" /\ ~TimesUp
  <2>1. unsent[s] = <<>>
    BY <1>4 DEF BeginBroadcast, SendFrame, EndBroadcast
  <2>2. PICK R \in Seq(Bytes) : R = wire[s] /\ R = Cat(wire[s], unsent[s])
    BY <2>1, StateTypes, CatEmpty
  <2>3. Link(R, pc[s], frames[s], pc[r], header[r], frame[r], frames[r])
    BY <2>2 DEF Connected
  <2>4. CASE BeginBroadcast
    <3>1. pc[s] = "begin" /\ pc'[s] = "frames" /\ unsent'[s] = BcastBegins /\ frames' = frames
      BY <1>1, <1>4, <2>4 DEF BeginBroadcast, BcastBegins
    <3>2. Link(Cat(R, BcastBegins), "frames", frames[s], pc[r], header[r], frame[r], frames[r])
      BY <2>3, <3>1, LinkBegun
    <3> QED
      BY <1>1, <1>2, <2>2, <3>1, <3>2 DEF Connected
  <2>5. CASE EndBroadcast
    <3>1. pc[s] = "frames" /\ pc'[s] = "done" /\ unsent'[s] = BcastEnds /\ frames' = frames
      BY <1>1, <1>4, <2>5 DEF EndBroadcast, BcastEnds
    <3>2. Link(Cat(R, BcastEnds), "done", frames[s], pc[r], header[r], frame[r], frames[r])
      BY <2>3, <3>1, LinkEnded, StateTypes
    <3> QED
      BY <1>1, <1>2, <2>2, <3>1, <3>2 DEF Connected
  <2>6. CASE SendFrame
    <3>1. PICK g : g = Video[Len(frames["broadcaster"]) + 1]
      OBVIOUS
    <3>2. g \in Whole
      <4>1. Len(frames[s]) \in Nat
        BY StateTypes
      <4>2. Len(frames["broadcaster"]) + 1 \in 1 .. MaxFrames
        BY <1>4, <2>6, <4>1, SizesAssumption DEF SendFrame
      <4> QED
        BY <3>1, <4>2, Sizes
    <3>3. /\ pc[s] = "frames" /\ pc'[s] = "frames" /\ unsent'[s] = FrameOf(g)
          /\ frames'[s] = Append(frames[s], g)
      BY <1>1, <1>4, <2>6, <3>1 DEF SendFrame
    <3>4. Link(Cat(R, FrameOf(g)), "frames", Append(frames[s], g), pc[r], header[r], frame[r], frames[r])
      BY <2>3, <3>2, <3>3, LinkSent, StateTypes
    <3> QED
      BY <1>1, <1>2, <2>2, <3>3, <3>4 DEF Connected
  <2> QED
    BY <1>4, <2>4, <2>5, <2>6
<1> QED
  BY <1>3, <1>4

Receives(r) == RecvBegin(r) \/ RecvControl(r) \/ RecvHeader(r) \/ RecvFrame(r)

\* What a recv takes off the connection.
LEMMA Taken ==
  ASSUME TypeOK, NEW r \in Receivers, TakesPart(r), NEW s \in Hosts, s = From(r), NEW n \in Nat,
         NEW bs \in Prefixes(wire[From(r)]), Recv(r, n, bs)
  PROVE  /\ bs \in Seq(Bytes) /\ Len(bs) <= n
         /\ wire'[s] \in Seq(Bytes) /\ Cat(wire'[s], unsent[s]) \in Seq(Bytes)
         /\ Cat(wire[s], unsent[s]) = Cat(bs, Cat(wire'[s], unsent[s]))
         /\ \A h \in Hosts : h # s => wire'[h] = wire[h]
<1>1. wire \in [Hosts -> Seq(Bytes)] /\ unsent \in [Hosts -> Seq(Bytes)]
  BY DEF TypeOK
<1>2. PICK w \in Seq(Bytes) : w = wire[s]
  BY <1>1
<1>3. bs \in Seq(Bytes) /\ Len(bs) <= n /\ wire' \in [Hosts -> Seq(Bytes)]
  BY Received
<1>4. PICK l \in 0 .. Len(w) : bs = SubSeq(w, 1, l)
  BY <1>2 DEF Prefixes
<1>5. Len(bs) = l /\ Len(w) \in Nat
  BY <1>4, SubSeqProperties
<1>6. PICK v : v = SubSeq(w, l + 1, Len(w))
  OBVIOUS
<1>7. wire' = [wire EXCEPT ![s] = v]
  BY <1>2, <1>5, <1>6 DEF Recv
<1>8. wire'[s] = v /\ v \in Seq(Bytes)
  BY <1>1, <1>3, <1>7
<1>9. w = Cat(bs, v)
  <2>1. 1 \in 1 .. Len(w) + 1 /\ l \in 1 - 1 .. Len(w) /\ Len(w) \in l .. Len(w)
    BY <1>5
  <2>2. SubSeq(w, 1, l) \o SubSeq(w, l + 1, Len(w)) = SubSeq(w, 1, Len(w))
    BY <2>1, ConcatAdjacentSubSeq
  <2> QED
    BY <1>4, <1>6, <2>2, SubSeqFull DEF Cat
<1>10. PICK u \in Seq(Bytes) : u = unsent[s]
  BY <1>1
<1>11. Cat(Cat(bs, v), u) = Cat(bs, Cat(v, u)) /\ Cat(v, u) \in Seq(Bytes)
  BY <1>3, <1>8, CatAssoc, CatType
<1>12. \A h \in Hosts : h # s => wire'[h] = wire[h]
  BY <1>1, <1>7
<1> QED
  BY <1>2, <1>3, <1>8, <1>9, <1>10, <1>11, <1>12

\* The connection a host receives from.
LEMMA ReceiverConnected ==
  ASSUME TypeOK, NEW r \in Receivers, NEW s \in Hosts, s # r, s = From(r), Connected(s, r), Receives(r)
  PROVE  Connected(s, r)'
<1>1. /\ TakesPart(r) /\ r \in Hosts /\ unsent[r] = <<>>
      /\ wire \in [Hosts -> Seq(Bytes)] /\ unsent \in [Hosts -> Seq(Bytes)]
      /\ pc \in [Hosts -> Where] /\ frames \in [Hosts -> Seq(Whole)]
      /\ header \in [Receivers -> Seq(Bytes)] /\ frame \in [Receivers -> Seq(Bytes)]
  BY DEF Receives, RecvBegin, RecvControl, RecvHeader, RecvFrame, At, Receivers, Hosts, TypeOK, Where, Whole
<1>2. PICK u \in Seq(Bytes) : u = unsent[s] /\ u = unsent'[s]
  BY <1>1 DEF Receives, RecvBegin, RecvControl, RecvHeader, RecvFrame, PassOn
<1>3. pc'[s] = pc[s] /\ frames'[s] = frames[s]
  BY <1>1 DEF Receives, RecvBegin, RecvControl, RecvHeader, RecvFrame, Goto, Raise
<1> DEFINE S == Cat(wire'[s], u)
<1>4. ASSUME NEW n \in Nat, NEW bs \in Prefixes(wire[From(r)]), Recv(r, n, bs)
      PROVE  /\ bs \in Seq(Bytes) /\ Len(bs) <= n /\ S \in Seq(Bytes)
             /\ Link(Cat(bs, S), pc[s], frames[s], pc[r], header[r], frame[r], frames[r])
  BY <1>1, <1>2, <1>4, Taken DEF Connected
<1>5. /\ frames[s] \in Seq(Whole) /\ frames[r] \in Seq(Whole)
      /\ header[r] \in Seq(Bytes) /\ frame[r] \in Seq(Bytes) /\ Len(frame[r]) < FRAME_SIZE
  BY StateTypes
<1> SUFFICES Link(S, pc[s], frames[s], pc'[r], header'[r], frame'[r], frames'[r])
  BY <1>2, <1>3 DEF Connected
<1> HIDE DEF S
<1>6. CASE RecvBegin(r)
  <2>1. PICK bs \in Prefixes(wire[From(r)]) :
          /\ Recv(r, 1, bs)
          /\ \/ bs = BcastBegins /\ Goto(r, "scan")
             \/ Goto(r, "dead")
    BY <1>6 DEF RecvBegin, BcastBegins
  <2>2. /\ bs \in Seq(Bytes) /\ S \in Seq(Bytes)
        /\ Link(Cat(bs, S), pc[s], frames[s], "begin", header[r], frame[r], frames[r])
    BY <1>4, <1>6, <2>1 DEF RecvBegin, At
  <2>3. header'[r] = header[r] /\ frame'[r] = frame[r] /\ frames'[r] = frames[r]
    BY <1>6 DEF RecvBegin
  <2>4. CASE bs = BcastBegins /\ Goto(r, "scan")
    <3>1. Link(S, pc[s], frames[s], "scan", header[r], frame[r], frames[r])
      BY <1>5, <2>2, <2>4, LinkBeginReceived
    <3> QED
      BY <1>1, <2>3, <2>4, <3>1 DEF Goto
  <2>5. CASE Goto(r, "dead")
    <3>1. Link(S, pc[s], frames[s], "dead", header[r], frame[r], frames[r])
      BY <2>2, LinkDead
    <3> QED
      BY <1>1, <2>3, <2>5, <3>1 DEF Goto
  <2> QED
    BY <2>1, <2>4, <2>5
<1>7. CASE RecvControl(r)
  <2>1. PICK bs \in Prefixes(wire[From(r)]) :
          /\ Recv(r, 1, bs)
          /\ \/ bs = FrameBegins /\ Goto(r, "header")
             \/ bs = BcastEnds /\ Goto(r, "done")
             \/ bs \notin {FrameBegins, BcastEnds} /\ UNCHANGED pc
    BY <1>7 DEF RecvControl, FrameBegins, BcastEnds
  <2>2. /\ bs \in Seq(Bytes) /\ S \in Seq(Bytes) /\ Len(bs) <= 1
        /\ Link(Cat(bs, S), pc[s], frames[s], "scan", header[r], frame[r], frames[r])
        /\ pc[r] = "scan"
    BY <1>4, <1>7, <2>1 DEF RecvControl, At
  <2>3. header'[r] = header[r] /\ frame'[r] = frame[r] /\ frames'[r] = frames[r]
    BY <1>7 DEF RecvControl
  <2>4. CASE bs = <<>>
    <3>1. Link(S, pc[s], frames[s], "scan", header[r], frame[r], frames[r])
      BY <2>2, <2>4, CatEmpty
    <3>2. pc'[r] = "scan"
      BY <2>1, <2>2, <2>4, ControlBytes
    <3> QED
      BY <2>3, <3>1, <3>2
  <2>5. CASE bs # <<>>
    <3>1. \/ bs = FrameBegins /\ Link(S, pc[s], frames[s], "header", header[r], frame[r], frames[r])
          \/ bs = BcastEnds /\ Link(S, pc[s], frames[s], "done", header[r], frame[r], frames[r])
          \/ bs = FrameEnds /\ Link(S, pc[s], frames[s], "scan", header[r], frame[r], frames[r])
      BY <1>5, <2>2, <2>5, LinkControlReceived
    <3>2. /\ bs = FrameBegins => pc'[r] = "header"
          /\ bs = BcastEnds => pc'[r] = "done"
          /\ bs = FrameEnds => pc'[r] = "scan"
      BY <1>1, <2>1, <2>2, ControlBytes DEF Goto
    <3> QED
      BY <2>3, <3>1, <3>2
  <2> QED
    BY <2>4, <2>5
<1>8. CASE RecvHeader(r)
  <2>1. PICK bs \in Prefixes(wire[From(r)]) :
          Recv(r, TIMESTAMP_LEN, bs) /\ header' = [header EXCEPT ![r] = bs]
    BY <1>8 DEF RecvHeader
  <2>2. /\ bs \in Seq(Bytes) /\ S \in Seq(Bytes) /\ Len(bs) <= TIMESTAMP_LEN
        /\ Link(Cat(bs, S), pc[s], frames[s], "header", header[r], frame[r], frames[r])
    BY <1>4, <1>8, <2>1, Sizes DEF RecvHeader, At
  <2>3. header'[r] = bs /\ frame'[r] = frame[r] /\ frames'[r] = frames[r] /\ pc'[r] = "frame"
    BY <1>1, <1>8, <2>1 DEF RecvHeader, Goto
  <2>4. Link(S, pc[s], frames[s], "frame", bs, frame[r], frames[r])
    BY <1>5, <2>2, LinkHeaderReceived
  <2> QED
    BY <2>3, <2>4
<1>9. CASE RecvFrame(r)
  <2>1. PICK bs \in Prefixes(wire[From(r)]) :
          /\ Recv(r, Missing(r), bs)
          /\ \/ /\ frame' = [frame EXCEPT ![r] = Cat(frame[r], bs)]
                /\ UNCHANGED <<pc, header, frames>>
             \/ /\ Len(Cat(frame[r], bs)) >= FRAME_SIZE
                /\ frame' = [frame EXCEPT ![r] = <<>>] /\ header' = [header EXCEPT ![r] = <<>>]
                /\ \/ /\ Len(header[r]) = TIMESTAMP_LEN /\ Goto(r, "scan")
                      /\ frames' = [frames EXCEPT ![r] = Append(frames[r], Cat(frame[r], bs))]
                   \/ Goto(r, "dead") /\ UNCHANGED frames
    BY <1>9 DEF RecvFrame, Cat, Raise
  <2>2. Missing(r) \in Nat /\ Missing(r) = FRAME_SIZE - Len(frame[r])
    <3>1. Len(frame[r]) \in Nat
      BY <1>5
    <3> QED
      BY <1>5, <3>1, Sizes DEF Missing
  <2>3. /\ bs \in Seq(Bytes) /\ S \in Seq(Bytes) /\ Len(bs) <= FRAME_SIZE - Len(frame[r])
        /\ Link(Cat(bs, S), pc[s], frames[s], "frame", header[r], frame[r], frames[r])
        /\ pc[r] = "frame"
    BY <1>4, <1>9, <2>1, <2>2 DEF RecvFrame, At
  <2>4. PICK f : f = Cat(frame[r], bs)
    OBVIOUS
  <2>5. /\ Link(S, pc[s], frames[s], "frame", header[r], f, frames[r])
        /\ Len(header[r]) = TIMESTAMP_LEN /\ Len(f) >= FRAME_SIZE =>
             \A i : Link(S, pc[s], frames[s], "scan", i, <<>>, Append(frames[r], f))
    BY <1>5, <2>3, <2>4, LinkFrameReceived
  <2>6. CASE frame' = [frame EXCEPT ![r] = f] /\ UNCHANGED <<pc, header, frames>>
    BY <1>1, <2>3, <2>5, <2>6
  <2>7. CASE /\ Len(f) >= FRAME_SIZE /\ Len(header[r]) = TIMESTAMP_LEN /\ Goto(r, "scan")
             /\ frame' = [frame EXCEPT ![r] = <<>>] /\ header' = [header EXCEPT ![r] = <<>>]
             /\ frames' = [frames EXCEPT ![r] = Append(frames[r], f)]
    BY <1>1, <2>5, <2>7 DEF Goto
  <2>8. CASE Goto(r, "dead") /\ UNCHANGED frames
    <3>1. Link(S, pc[s], frames[s], "dead", header'[r], frame'[r], frames[r])
      BY <2>3, LinkDead
    <3> QED
      BY <1>1, <2>8, <3>1 DEF Goto
  <2> QED
    BY <2>1, <2>4, <2>6, <2>7, <2>8
<1> QED
  BY <1>6, <1>7, <1>8, <1>9 DEF Receives

\* The connection the CDN server passes on what it receives by.
LEMMA PassingConnected ==
  ASSUME TypeOK, NEW s \in Receivers, NEW r \in Receivers, s # r, s # Last(route), From(s) \in Hosts,
         s # From(s), Connected(s, r), Receives(s)
  PROVE  Connected(s, r)'
<1>1. /\ TakesPart(s) /\ s \in Hosts /\ r \in Hosts /\ unsent[s] = <<>>
      /\ wire \in [Hosts -> Seq(Bytes)] /\ unsent \in [Hosts -> Seq(Bytes)]
      /\ pc \in [Hosts -> Where] /\ frames \in [Hosts -> Seq(Whole)]
      /\ header \in [Receivers -> Seq(Bytes)] /\ frame \in [Receivers -> Seq(Bytes)]
  BY DEF Receives, RecvBegin, RecvControl, RecvHeader, RecvFrame, At, Receivers, Hosts, TypeOK, Where, Whole
<1>2. wire'[s] = wire[s]
  BY <1>1 DEF Receives, RecvBegin, RecvControl, RecvHeader, RecvFrame, Recv
<1>3. pc'[r] = pc[r] /\ frames'[r] = frames[r] /\ header'[r] = header[r] /\ frame'[r] = frame[r]
  BY <1>1 DEF Receives, RecvBegin, RecvControl, RecvHeader, RecvFrame, Goto, Raise
<1>4. PICK R \in Seq(Bytes) : R = wire[s] /\ R = Cat(wire[s], unsent[s])
  BY <1>1, CatEmpty
<1>5. Link(R, pc[s], frames[s], pc[r], header[r], frame[r], frames[r])
  BY <1>4 DEF Connected
<1>6. /\ frames[s] \in Seq(Whole) /\ frames[r] \in Seq(Whole)
      /\ header[r] \in Seq(Bytes) /\ frame[r] \in Seq(Bytes)
  BY <1>1
<1>7. ASSUME NEW o, pc'[s] = o, frames' = frames, unsent' = unsent,
             Link(R, o, frames[s], pc[r], header[r], frame[r], frames[r])
      PROVE  Connected(s, r)'
  BY <1>2, <1>3, <1>4, <1>7 DEF Connected
<1>8. CASE RecvBegin(s)
  <2>1. /\ pc[s] = "begin" /\ frames' = frames
        /\ \/ pc'[s] = "scan" /\ unsent'[s] = BcastBegins
           \/ pc'[s] = "dead" /\ unsent' = unsent
    BY <1>1, <1>8 DEF RecvBegin, At, Goto, PassOn, BcastBegins
  <2>2. CASE pc'[s] = "scan" /\ unsent'[s] = BcastBegins
    <3>1. Link(Cat(R, BcastBegins), "scan", frames[s], pc[r], header[r], frame[r], frames[r])
      BY <1>5, <2>1, LinkBegun
    <3> QED
      BY <1>2, <1>3, <1>4, <2>1, <2>2, <3>1 DEF Connected
  <2>3. CASE pc'[s] = "dead" /\ unsent' = unsent
    <3>1. Link(R, "dead", frames[s], pc[r], header[r], frame[r], frames[r])
      BY <1>5, <2>1, LinkQuiet
    <3> QED
      BY <1>7, <2>1, <2>3, <3>1
  <2> QED
    BY <2>1, <2>2, <2>3
<1>9. CASE RecvControl(s)
  <2>1. /\ pc[s] = "scan" /\ frames' = frames
        /\ \/ pc'[s] \in {"header", "scan"} /\ unsent' = unsent
           \/ pc'[s] = "done" /\ unsent'[s] = BcastEnds
    BY <1>1, <1>9 DEF RecvControl, At, Goto, PassOn, BcastEnds
  <2>2. CASE pc'[s] = "done" /\ unsent'[s] = BcastEnds
    <3>1. Link(Cat(R, BcastEnds), "done", frames[s], pc[r], header[r], frame[r], frames[r])
      BY <1>5, <1>6, <2>1, LinkEnded
    <3> QED
      BY <1>2, <1>3, <1>4, <2>1, <2>2, <3>1 DEF Connected
  <2>3. CASE pc'[s] \in {"header", "scan"} /\ unsent' = unsent
    <3>1. PICK o \in {"header", "scan"} : o = pc'[s]
      BY <2>3
    <3>2. Link(R, o, frames[s], pc[r], header[r], frame[r], frames[r])
      BY <1>5, <2>1, LinkQuiet
    <3> QED
      BY <1>7, <2>1, <2>3, <3>1, <3>2
  <2> QED
    BY <2>1, <2>2, <2>3
<1>10. CASE RecvHeader(s)
  <2>1. pc[s] = "header" /\ pc'[s] = "frame" /\ frames' = frames /\ unsent' = unsent
    BY <1>1, <1>10 DEF RecvHeader, At, Goto
  <2>2. Link(R, "frame", frames[s], pc[r], header[r], frame[r], frames[r])
    BY <1>5, <2>1, LinkQuiet
  <2> QED
    BY <1>7, <2>1, <2>2
<1>11. CASE RecvFrame(s)
  <2>1. PICK bs \in Prefixes(wire[From(s)]) :
          /\ Recv(s, Missing(s), bs)
          /\ \/ UNCHANGED <<pc, unsent, frames>>
             \/ /\ Len(frame[s] \o bs) >= FRAME_SIZE
                /\ frames' = [frames EXCEPT ![s] = Append(@, frame[s] \o bs)]
                /\ Goto(s, "scan") /\ PassOn(s, FrameOf(frame[s] \o bs))
             \/ Goto(s, "dead") /\ UNCHANGED <<unsent, frames>>
    BY <1>11 DEF RecvFrame, Raise
  <2>2. pc[s] = "frame"
    BY <1>11 DEF RecvFrame, At
  <2>3. CASE UNCHANGED <<pc, unsent, frames>>
    BY <1>2, <1>3, <2>3 DEF Connected
  <2>4. CASE Goto(s, "dead") /\ UNCHANGED <<unsent, frames>>
    <3>1. Link(R, "dead", frames[s], pc[r], header[r], frame[r], frames[r])
      BY <1>5, <2>2, LinkQuiet
    <3>2. pc'[s] = "dead"
      BY <1>1, <2>4 DEF Goto
    <3> QED
      BY <1>7, <2>4, <3>1, <3>2
  <2>5. CASE /\ Len(frame[s] \o bs) >= FRAME_SIZE
             /\ frames' = [frames EXCEPT ![s] = Append(@, frame[s] \o bs)]
             /\ Goto(s, "scan") /\ PassOn(s, FrameOf(frame[s] \o bs))
    <3>1. PICK g : g = frame[s] \o bs
      OBVIOUS
    <3>2. g \in Whole
      <4>1. frame[s] \in Seq(Bytes) /\ Len(frame[s]) \in Nat /\ Len(frame[s]) < FRAME_SIZE
        BY DEF TypeOK
      <4>2. Missing(s) \in Nat /\ Missing(s) = FRAME_SIZE - Len(frame[s])
        BY <4>1, Sizes DEF Missing
      <4>3. bs \in Seq(Bytes) /\ Len(bs) <= Missing(s)
        BY <1>1, <2>1, <4>2, Received
      <4>4. g \in Seq(Bytes) /\ Len(g) = Len(frame[s]) + Len(bs)
        BY <3>1, <4>1, <4>3, ConcatProperties
      <4>5. Len(bs) \in Nat
        BY <4>3
      <4>6. Len(g) = FRAME_SIZE
        BY <2>5, <3>1, <4>1, <4>2, <4>3, <4>4, <4>5, Sizes
      <4> QED
        BY <4>4, <4>6 DEF Whole
    <3>3. /\ pc'[s] = "scan" /\ unsent'[s] = FrameOf(g) /\ frames'[s] = Append(frames[s], g)
      BY <1>1, <2>5, <3>1 DEF Goto, PassOn
    <3>4. Link(Cat(R, FrameOf(g)), "scan", Append(frames[s], g), pc[r], header[r], frame[r], frames[r])
      BY <1>5, <1>6, <2>2, <3>2, LinkSent
    <3> QED
      BY <1>2, <1>3, <1>4, <3>3, <3>4 DEF Connected
  <2> QED
    BY <2>1, <2>3, <2>4, <2>5
<1> QED
  BY <1>8, <1>9, <1>10, <1>11 DEF Receives

\* A host that nobody receives from has nothing to send, and the connections are as they should be.
StreamInv ==
  /\ TypeOK
  /\ unsent["viewer"] = <<>>
  /\ pc["broadcaster"] = "begin" => unsent["broadcaster"] = <<>>
  /\ TakesPart("cdn") => Connected("broadcaster", "cdn") /\ Connected("cdn", "viewer")
  /\ ~TakesPart("cdn") =>
       unsent["cdn"] = <<>> /\ pc["cdn"] = "begin" /\ Connected("broadcaster", "viewer")

LEMMA StreamInvInit == Init => StreamInv
<1> SUFFICES ASSUME Init PROVE StreamInv
  OBVIOUS
<1>1. TypeOK
  BY InitTypes
<1>2. ASSUME NEW s \in Hosts, NEW r \in Receivers PROVE Connected(s, r)
  <2>1. /\ wire[s] = <<>> /\ unsent[s] = <<>> /\ pc[s] = "begin" /\ frames[s] = <<>>
        /\ pc[r] = "begin" /\ frame[r] = <<>> /\ frames[r] = <<>>
    BY DEF Init, Receivers, Hosts
  <2>2. Cat(wire[s], unsent[s]) = <<>>
    BY <2>1, CatEmpty, ControlBytes
  <2>3. IsPrefix(frames[r], frames[s])
    BY <2>1 DEF IsPrefix
  <2> QED
    BY <2>1, <2>2, <2>3 DEF Connected, Link
<1>3. "broadcaster" \in Hosts /\ "cdn" \in Hosts /\ "cdn" \in Receivers /\ "viewer" \in Receivers
  BY DEF Hosts, Receivers
<1>4. unsent["viewer"] = <<>> /\ unsent["broadcaster"] = <<>> /\ unsent["cdn"] = <<>> /\ pc["cdn"] = "begin"
  BY DEF Init, Hosts
<1> QED
  BY <1>1, <1>2, <1>3, <1>4 DEF StreamInv

LEMMA StreamInvStep == StreamInv /\ [Next]_vars => StreamInv'
<1> SUFFICES ASSUME StreamInv, [Next]_vars PROVE StreamInv'
  OBVIOUS
<1>1. TypeOK /\ TypeOK'
  BY TypesStep DEF StreamInv
<1>2. route' = route /\ route \in Routes /\ (TakesPart("cdn")' <=> TakesPart("cdn"))
  <2>1. route' = route
    BY DEF Next, vars, Transmit, TimesUp, BeginBroadcast, SendFrame, EndBroadcast,
           RecvBegin, RecvControl, RecvHeader, RecvFrame
  <2> QED
    BY <1>1, <2>1 DEF TypeOK, TakesPart
<1>3. /\ "broadcaster" \in Hosts /\ "cdn" \in Hosts /\ "viewer" \in Hosts
      /\ "cdn" \in Receivers /\ "viewer" \in Receivers /\ Receivers = {"cdn", "viewer"}
      /\ Hosts = {"broadcaster", "cdn", "viewer"}
      /\ unsent \in [Hosts -> Seq(Bytes)] /\ pc \in [Hosts -> Where]
  BY <1>1 DEF Hosts, Receivers, TypeOK, Where
<1> DEFINE Others ==
      /\ unsent["viewer"] = <<>>
      /\ pc["broadcaster"] = "begin" => unsent["broadcaster"] = <<>>
      /\ ~TakesPart("cdn") => unsent["cdn"] = <<>> /\ pc["cdn"] = "begin"
<1>4. CASE UNCHANGED vars
  <2>1. \A s, r : Connected(s, r) => Connected(s, r)'
    BY <1>4 DEF Connected, vars
  <2> QED
    BY <1>1, <1>2, <1>4, <2>1 DEF StreamInv, vars
<1>5. CASE \E h \in Hosts : Transmit(h)
  <2>1. PICK h \in Hosts : Transmit(h)
    BY <1>5
  <2>2. unsent[h] # <<>> /\ h # "viewer" /\ (h = "cdn" => TakesPart("cdn"))
    BY <2>1 DEF Transmit, StreamInv
  <2>3. Others'
    BY <1>2, <1>3, <2>1, <2>2 DEF Transmit, StreamInv
  <2>4. TakesPart("cdn") => Connected("broadcaster", "cdn")' /\ Connected("cdn", "viewer")'
    BY <1>1, <1>2, <1>3, <2>1, RouteFacts, TransmitConnected DEF StreamInv
  <2>5. ~TakesPart("cdn") => Connected("broadcaster", "viewer")'
    BY <1>1, <1>2, <1>3, <2>1, RouteFacts, TransmitConnected DEF StreamInv
  <2> QED
    BY <1>1, <1>2, <2>3, <2>4, <2>5 DEF StreamInv
<1>6. CASE TimesUp \/ BeginBroadcast \/ SendFrame \/ EndBroadcast
  <2>1. Others'
    BY <1>2, <1>3, <1>6 DEF TimesUp, BeginBroadcast, SendFrame, EndBroadcast, StreamInv
  <2>2. TakesPart("cdn") => Connected("broadcaster", "cdn")' /\ Connected("cdn", "viewer")'
    BY <1>1, <1>3, <1>6, BroadcasterConnected DEF StreamInv
  <2>3. ~TakesPart("cdn") => Connected("broadcaster", "viewer")'
    BY <1>1, <1>3, <1>6, BroadcasterConnected DEF StreamInv
  <2> QED
    BY <1>1, <1>2, <2>1, <2>2, <2>3 DEF StreamInv
<1>7. ASSUME NEW r \in Receivers, Receives(r) PROVE StreamInv'
  <2>1. TakesPart(r) /\ (r = "cdn" \/ r = "viewer")
    BY <1>3, <1>7 DEF Receives, RecvBegin, RecvControl, RecvHeader, RecvFrame, At
  <2>2. unsent'["broadcaster"] = unsent["broadcaster"] /\ pc'["broadcaster"] = pc["broadcaster"]
    BY <1>3, <1>7, <2>1
       DEF Receives, RecvBegin, RecvControl, RecvHeader, RecvFrame, PassOn, Goto, Raise
  <2>3. /\ r = "viewer" => unsent' = unsent /\ pc'["cdn"] = pc["cdn"]
        /\ r = "cdn" => unsent'["viewer"] = unsent["viewer"]
    BY <1>2, <1>3, <1>7, <2>1, RouteFacts
       DEF Receives, RecvBegin, RecvControl, RecvHeader, RecvFrame, PassOn, Goto, Raise
  <2>4. Others'
    BY <1>2, <2>1, <2>2, <2>3 DEF StreamInv
  <2>5. CASE r = "cdn"
    <3>1. TakesPart("cdn") /\ From("cdn") = "broadcaster" /\ "cdn" # Last(route)
      BY <1>2, <2>1, <2>5, RouteFacts
    <3>2. Connected("broadcaster", "cdn") /\ Connected("cdn", "viewer")
      BY <3>1 DEF StreamInv
    <3>3. Connected("broadcaster", "cdn")'
      BY <1>1, <1>3, <1>7, <2>5, <3>1, <3>2, ReceiverConnected
    <3>4. Connected("cdn", "viewer")'
      BY <1>1, <1>3, <1>7, <2>5, <3>1, <3>2, PassingConnected
    <3> QED
      BY <1>1, <1>2, <2>4, <3>1, <3>3, <3>4 DEF StreamInv
  <2>6. CASE r = "viewer" /\ ~TakesPart("cdn")
    <3>1. From("viewer") = "broadcaster" /\ Connected("broadcaster", "viewer")
      BY <1>2, <2>6, RouteFacts DEF StreamInv
    <3>2. Connected("broadcaster", "viewer")'
      BY <1>1, <1>3, <1>7, <2>6, <3>1, ReceiverConnected
    <3> QED
      BY <1>1, <1>2, <2>4, <2>6, <3>2 DEF StreamInv
  <2>7. CASE r = "viewer" /\ TakesPart("cdn")
    <3>1. From("viewer") = "cdn" /\ Connected("broadcaster", "cdn") /\ Connected("cdn", "viewer")
      BY <1>2, <2>7, RouteFacts DEF StreamInv
    <3>2. Connected("cdn", "viewer")'
      BY <1>1, <1>3, <1>7, <2>7, <3>1, ReceiverConnected
    <3>3. /\ wire'["broadcaster"] = wire["broadcaster"] /\ unsent'["broadcaster"] = unsent["broadcaster"]
          /\ pc'["broadcaster"] = pc["broadcaster"] /\ frames'["broadcaster"] = frames["broadcaster"]
          /\ pc'["cdn"] = pc["cdn"] /\ header'["cdn"] = header["cdn"]
          /\ frame'["cdn"] = frame["cdn"] /\ frames'["cdn"] = frames["cdn"]
      <4>1. /\ wire \in [Hosts -> Seq(Bytes)] /\ frames \in [Hosts -> Seq(Whole)]
            /\ header \in [Receivers -> Seq(Bytes)] /\ frame \in [Receivers -> Seq(Bytes)]
        BY <1>1 DEF TypeOK, Whole
      <4> QED
        BY <1>3, <1>7, <2>2, <2>3, <2>7, <3>1, <4>1
           DEF Receives, RecvBegin, RecvControl, RecvHeader, RecvFrame, Recv
    <3>4. Connected("broadcaster", "cdn")'
      BY <3>1, <3>3, Untouched
    <3> QED
      BY <1>1, <1>2, <2>4, <2>7, <3>2, <3>4 DEF StreamInv
  <2> QED
    BY <2>1, <2>5, <2>6, <2>7
<1> QED
  BY <1>4, <1>5, <1>6, <1>7 DEF Next, Receives

LEMMA StreamInvariant == Spec => []StreamInv
  BY StreamInvInit, StreamInvStep, PTL DEF Spec

\* Frames arrive whole and in order, for any pictures, any sizes and any buffering: what is
\* stored is what was broadcast so far and what is viewed is what was stored so far,
\* although nothing in a stream is escaped and recv cuts it anywhere
\* (cdn-server.py:43-61, viewer.py:38-56).
THEOREM FramesArriveInOrder == Spec => []FramesInOrder
<1>1. StreamInv => FramesInOrder
  <2> SUFFICES ASSUME StreamInv, NEW r \in Receivers, TakesPart(r)
               PROVE  IsPrefix(frames[r], frames[From(r)])
    BY DEF FramesInOrder
  <2>1. route \in Routes /\ (r = "cdn" \/ r = "viewer")
    BY DEF StreamInv, TypeOK, Receivers
  <2>2. Connected(From(r), r)
    BY <2>1, RouteFacts DEF StreamInv
  <2> QED
    BY <2>2 DEF Connected, Link
<1> QED
  BY <1>1, StreamInvariant, PTL

\* A receiver that takes a broadcast for complete has all of it (viewer.py:27-31, 43): the end
\* cannot be a byte of a picture, nor can it overtake a frame.
THEOREM DoneIsWhole == Spec => []DoneMeansWhole
<1>1. StreamInv => DoneMeansWhole
  <2> SUFFICES ASSUME StreamInv, NEW r \in Receivers, pc[r] = "done"
               PROVE  pc["broadcaster"] = "done" /\ frames[r] = frames["broadcaster"]
    BY DEF DoneMeansWhole
  <2>1. r = "cdn" \/ r = "viewer"
    BY DEF Receivers
  <2>2. ASSUME NEW s, NEW q, Connected(s, q), pc[q] = "done" PROVE pc[s] = "done" /\ frames[q] = frames[s]
    BY <2>2 DEF Connected, Link
  <2>3. CASE ~TakesPart("cdn")
    BY <2>1, <2>2, <2>3 DEF StreamInv
  <2>4. CASE TakesPart("cdn")
    <3>1. pc["cdn"] = "done" => pc["broadcaster"] = "done" /\ frames["cdn"] = frames["broadcaster"]
      BY <2>2, <2>4 DEF StreamInv
    <3>2. pc["viewer"] = "done" => pc["cdn"] = "done" /\ frames["viewer"] = frames["cdn"]
      BY <2>2, <2>4 DEF StreamInv
    <3> QED
      BY <2>1, <3>1, <3>2
  <2> QED
    BY <2>3, <2>4
<1> QED
  BY <1>1, StreamInvariant, PTL
=============================================================================
