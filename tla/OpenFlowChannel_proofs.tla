------------------------ MODULE OpenFlowChannel_proofs ------------------------
(***************************************************************************)
(* Proofs about OpenFlowChannel, for any number of connections and         *)
(* switches and any bound: data is taken in order (OrderedChannel is       *)
(* implemented), ConnectionDown is final although two threads may raise    *)
(* it, and a connected switch is missing from the table only to a twin.    *)
(***************************************************************************)
EXTENDS OpenFlowChannel, SequenceTheorems, TLAPS

(* Units *)

LEMMA UnitsType ==
    ASSUME NEW i \in Nat, NEW n \in Nat, i + n <= MaxUnits
    PROVE  Units(i, n) \in Seq(1..MaxUnits) /\ Len(Units(i, n)) = n
<1> USE ConnsAssumption
<1>1. Units(i, n) \in [1..n -> 1..MaxUnits]
  BY DEF Units
<1> QED BY <1>1, SMT DEF Units

LEMMA UnitsCat ==
    ASSUME NEW i \in Nat, NEW n \in Nat, NEW m \in Nat
    PROVE  Units(i, n) \o Units(i + n, m) = Units(i, n + m)
<1>1. Units(i, n) \in Seq(Nat) /\ Len(Units(i, n)) = n
  BY SMT DEF Units
<1>2. Units(i + n, m) \in Seq(Nat) /\ Len(Units(i + n, m)) = m
  BY SMT DEF Units
<1>3. Units(i, n + m) \in Seq(Nat) /\ Len(Units(i, n + m)) = n + m
  BY SMT DEF Units
<1> DEFINE s == Units(i, n) \o Units(i + n, m)
<1>4. s \in Seq(Nat) /\ Len(s) = n + m
  BY <1>1, <1>2
<1>5. ASSUME NEW k \in 1..(n + m) PROVE s[k] = Units(i, n + m)[k]
  <2>1. CASE k <= n
    BY <1>1, <1>2, <2>1 DEF Units
  <2>2. CASE k > n
    <3>1. s[k] = Units(i + n, m)[k - n]
      BY <1>1, <1>2, <2>2
    <3>2. k - n \in 1..m
      BY <2>2
    <3> QED BY <3>1, <3>2 DEF Units
  <2>3. k <= n \/ k > n
    OBVIOUS
  <2> QED BY <2>1, <2>2, <2>3, Zenon
<1> HIDE DEF s
<1>6. s = Units(i, n + m)
  BY <1>3, <1>4, <1>5, SeqEqual
<1> QED BY <1>6 DEF s

LEMMA UnitsSub ==
    ASSUME NEW i \in Nat, NEW n \in Nat, NEW k \in 0..n
    PROVE  /\ SubSeq(Units(i, n), 1, k) = Units(i, k)
           /\ SubSeq(Units(i, n), k + 1, n) = Units(i + k, n - k)
<1>1. Units(i, n) \in Seq(Nat) /\ Len(Units(i, n)) = n
  BY SMT DEF Units
<1>2. SubSeq(Units(i, n), 1, k) = Units(i, k)
  BY <1>1, SMT DEF Units
<1>3. SubSeq(Units(i, n), k + 1, n) = Units(i + k, n - k)
  BY <1>1, SMT DEF Units
<1> QED BY <1>2, <1>3

-----------------------------------------------------------------------------
(* Types *)

LEMMA ConstantTypes ==
    MaxUnits \in Nat /\ NoCon \notin Conns /\ \A c \in Conns : Dpid[c] \in Dpids
BY ConnsAssumption DEF Dpids

LEMMA EmptyUnits == << >> \in Seq(1..MaxUnits)
OBVIOUS

\* Where a thread's step takes it.
LEMMA TaskGoes ==
    ASSUME TypeOK, NEW place \in Places, NEW c \in Conns \cup {NoCon}, Go("task", place, c)
    PROVE  /\ at' \in [Threads -> Places] /\ on' \in [Threads -> Conns \cup {NoCon}]
           /\ at'["task"] = place /\ on'["task"] = c
           /\ at'["sender"] = at["sender"] /\ on'["sender"] = on["sender"]
BY DEF Go, TypeOK, Threads

LEMMA SenderGoes ==
    ASSUME TypeOK, NEW place \in Places, NEW c \in Conns \cup {NoCon}, Go("sender", place, c)
    PROVE  /\ at' \in [Threads -> Places] /\ on' \in [Threads -> Conns \cup {NoCon}]
           /\ at'["sender"] = place /\ on'["sender"] = c
           /\ at'["task"] = at["task"] /\ on'["task"] = on["task"]
BY DEF Go, TypeOK, Threads

LEMMA AllPlaces ==
    /\ Places = {"out", "send", "defer", "raise", "shut", "close", "drop"}
    /\ "task" \in Threads /\ "sender" \in Threads /\ \A t \in Threads : t = "task" \/ t = "sender"
BY DEF Places, Threads

LEMMA SendType ==
    ASSUME TypeOK, NEW c \in Conns, NEW n \in Nat, Send(c, n)
    PROVE  /\ given' \in [Conns -> 0..MaxUnits]
           /\ m_send' \in Seq(1..MaxUnits)
           /\ at' \in [Threads -> Places] /\ on' \in [Threads -> Conns \cup {NoCon}]
<1>1. CASE disconnected[c] /\ UNCHANGED <<given, m_send, placeVars>>
  BY <1>1 DEF TypeOK, placeVars
<1>2. CASE /\ given[c] + n <= MaxUnits
           /\ given' = [given EXCEPT ![c] = @ + n]
           /\ m_send' = Units(given[c], n)
           /\ Go("task", "send", c)
  <2>1. given[c] \in Nat /\ given[c] + n \in 0..MaxUnits
    BY <1>2, ConstantTypes DEF TypeOK
  <2>2. m_send' \in Seq(1..MaxUnits)
    BY <1>2, <2>1, UnitsType
  <2>3. given' \in [Conns -> 0..MaxUnits]
    BY <1>2, <2>1 DEF TypeOK
  <2> QED BY <1>2, <2>2, <2>3, TaskGoes, AllPlaces
<1> QED BY <1>1, <1>2 DEF Send

LEMMA SockType ==
    ASSUME TypeOK, NEW c \in Conns, Shutdown(c)
    PROVE  /\ sock' \in [Conns -> {"none", "open", "shut", "closed"}]
           /\ \A x \in Conns \ {c} : sock'[x] = sock[x]
           /\ sock'[c] = IF sock[c] = "open" THEN "shut" ELSE sock[c]
BY DEF Shutdown, TypeOK

LEMMA UnlistType ==
    ASSUME TypeOK, NEW c \in Conns, Unlist(c), Mark(c)
    PROVE  /\ nexus' \in [Dpids -> Conns \cup {NoCon}]
           /\ disconnected' \in [Conns -> BOOLEAN]
           /\ disconnected'[c]
           /\ \A x \in Conns : disconnected[x] => disconnected'[x]
BY ConstantTypes DEF Unlist, Mark, TypeOK

LEMMA TransmitType ==
    ASSUME TypeOK, NEW c \in Conns, NEW units \in Seq(1..MaxUnits), Transmit(c, units)
    PROVE  /\ wire' \in [Conns -> Seq(1..MaxUnits)]
           /\ wire'[c] = IF peer[c] THEN wire[c] \o units ELSE wire[c]
           /\ \A x \in Conns \ {c} : wire'[x] = wire[x]
<1>1. wire[c] \o units \in Seq(1..MaxUnits)
  BY DEF TypeOK
<1> QED BY <1>1 DEF Transmit, TypeOK

LEMMA TypeInit == Init => TypeOK
<1> SUFFICES ASSUME Init PROVE TypeOK
  OBVIOUS
<1>1. 0 \in 0..MaxUnits
  BY ConstantTypes
<1>2. given \in [Conns -> 0..MaxUnits]
  BY <1>1 DEF Init
<1>3. /\ wire \in [Conns -> Seq(1..MaxUnits)] /\ queue \in [Conns -> Seq(1..MaxUnits)]
      /\ m_send \in Seq(1..MaxUnits)
  BY EmptyUnits DEF Init
<1>4. at \in [Threads -> Places] /\ on \in [Threads -> Conns \cup {NoCon}]
  BY DEF Init, Places
<1> QED BY <1>2, <1>3, <1>4 DEF Init, TypeOK

LEMMA TypeStep == ASSUME TypeOK, [Next]_vars PROVE TypeOK'
<1> USE DEF conVars, endVars, dataVars, placeVars, loopVars
<1>1. CASE UNCHANGED vars
  BY <1>1 DEF TypeOK, vars
<1>2. ASSUME NEW c \in Conns, Defer(c) PROVE TypeOK'
  <2>1. queue[c] \o m_send \in Seq(1..MaxUnits)
    BY DEF TypeOK
  <2>2. queue' \in [Conns -> Seq(1..MaxUnits)]
    BY <1>2, <2>1 DEF Defer, TypeOK
  <2>3. at' \in [Threads -> Places] /\ on' \in [Threads -> Conns \cup {NoCon}]
    BY <1>2, TaskGoes, AllPlaces DEF Defer, Leave
  <2> QED BY <1>2, <2>2, <2>3, EmptyUnits DEF Defer, TypeOK
<1>3. ASSUME NEW c \in Conns, Accept(c) PROVE TypeOK'
  <2>1. Send(c, 1)
    BY <1>3 DEF Accept
  <2> QED BY <1>3, <2>1, SendType DEF Accept, TypeOK
<1>4. ASSUME NEW c \in Conns, Hello(c) \/ FeaturesReply(c) \/ Serve(c) PROVE TypeOK'
  <2>1. PICK n \in Nat, from \in {"hello", "features", "up"}, to \in {"features", "barrier", "up"} :
          Answers(c, from, to, n)
    BY <1>4 DEF Hello, FeaturesReply, Serve
  <2>2. Send(c, n)
    BY <2>1 DEF Answers
  <2> QED BY <2>1, <2>2, SendType DEF Answers, TypeOK
<1>5. ASSUME NEW c \in Conns, FinishConnecting(c) PROVE TypeOK'
  BY <1>5 DEF FinishConnecting, TypeOK
<1>6. ASSUME NEW c \in Conns, FailConnecting(c) PROVE TypeOK'
  <2>1. at' \in [Threads -> Places] /\ on' \in [Threads -> Conns \cup {NoCon}]
    BY <1>6, TaskGoes, AllPlaces DEF FailConnecting
  <2> QED BY <1>6, <2>1 DEF FailConnecting, Mark, TypeOK
<1>7. ASSUME NEW c \in Conns, Close(c) PROVE TypeOK'
  <2>1. PICK place \in Places : Go("task", place, c)
    BY <1>7, AllPlaces DEF Close, Disconnect
  <2>2. at' \in [Threads -> Places] /\ on' \in [Threads -> Conns \cup {NoCon}]
    BY <2>1, TaskGoes
  <2> QED BY <1>7, <2>2, UnlistType DEF Close, Disconnect, TypeOK
<1>8. ASSUME NEW c \in Conns, Closes(c) PROVE TypeOK'
  <2>1. at' \in [Threads -> Places] /\ on' \in [Threads -> Conns \cup {NoCon}]
    BY <1>8, TaskGoes, AllPlaces DEF Closes, Leave
  <2> QED BY <1>8, <2>1 DEF Closes, TypeOK
<1>9. ASSUME NEW c \in Conns, PeerGone(c) PROVE TypeOK'
  BY <1>9 DEF PeerGone, TypeOK
<1>10. ASSUME NEW c \in Conns, Drops(c) \/ TaskShuts(c) PROVE TypeOK'
  <2>1. at' \in [Threads -> Places] /\ on' \in [Threads -> Conns \cup {NoCon}]
    BY <1>10, TaskGoes, AllPlaces DEF Drops, TaskShuts, Leave
  <2> QED BY <1>10, <2>1, SockType DEF Drops, TaskShuts, TypeOK
<1>11. ASSUME NEW c \in Conns, SenderShuts(c) PROVE TypeOK'
  <2>1. at' \in [Threads -> Places] /\ on' \in [Threads -> Conns \cup {NoCon}]
    BY <1>11, SenderGoes, AllPlaces DEF SenderShuts, Leave
  <2>2. queue' \in [Conns -> Seq(1..MaxUnits)]
    BY <1>11, EmptyUnits DEF SenderShuts, Forget, TypeOK
  <2> QED BY <1>11, <2>1, <2>2, SockType DEF SenderShuts, TypeOK
<1>12. ASSUME NEW c \in Conns, NEW t \in Threads, Raises(t, c) PROVE TypeOK'
  <2>1. at' \in [Threads -> Places] /\ on' \in [Threads -> Conns \cup {NoCon}]
    BY <1>12, TaskGoes, SenderGoes, AllPlaces DEF Raises
  <2>2. raised' \in [Conns -> BOOLEAN] /\ downs' \in [Conns -> SUBSET {"task", "sender"}]
    BY <1>12, AllPlaces DEF Raises, TypeOK
  <2> QED BY <1>12, <2>1, <2>2 DEF Raises, TypeOK
<1>13. ASSUME NEW c \in Conns, SendDefers(c) PROVE TypeOK'
  <2>1. at' \in [Threads -> Places] /\ on' \in [Threads -> Conns \cup {NoCon}]
    BY <1>13, TaskGoes, AllPlaces DEF SendDefers
  <2> QED BY <1>13, <2>1 DEF SendDefers, TypeOK
<1>14. ASSUME NEW c \in Conns, SendFails(c) PROVE TypeOK'
  <2>1. at' \in [Threads -> Places] /\ on' \in [Threads -> Conns \cup {NoCon}]
    BY <1>14, TaskGoes, AllPlaces DEF SendFails, Leave
  <2> QED BY <1>14, <2>1, SockType, UnlistType, EmptyUnits DEF SendFails, TypeOK
<1>15. ASSUME NEW c \in Conns, NEW k \in 0..MaxUnits, SendWrites(c, k) PROVE TypeOK'
  <2>1. m_send \in Seq(1..MaxUnits) /\ k \in Nat /\ k <= Len(m_send)
    BY <1>15, ConstantTypes DEF SendWrites, TypeOK
  <2>2. /\ SubSeq(m_send, 1, k) \in Seq(1..MaxUnits)
        /\ SubSeq(m_send, k + 1, Len(m_send)) \in Seq(1..MaxUnits)
    BY <2>1, SubSeqProperties, ConnsAssumption
  <2>3. wire' \in [Conns -> Seq(1..MaxUnits)]
    BY <1>15, <2>2, TransmitType DEF SendWrites
  <2>4. at' \in [Threads -> Places] /\ on' \in [Threads -> Conns \cup {NoCon}]
    BY <1>15, TaskGoes, AllPlaces DEF SendWrites, Leave
  <2> QED BY <1>15, <2>2, <2>3, <2>4 DEF SendWrites, TypeOK
<1>16. CASE SenderKeys \/ SenderSelects \/ SenderLoops
  BY <1>16 DEF SenderKeys, SenderSelects, SenderLoops, Waiting, TypeOK
<1>17. ASSUME NEW ready \in SUBSET s_cons, SenderWakes(ready) PROVE TypeOK'
  BY <1>17 DEF SenderWakes, TypeOK
<1>18. ASSUME NEW c \in s_cons, SenderFails(c) PROVE TypeOK'
  <2>1. c \in Conns
    BY <1>18 DEF TypeOK
  <2>2. PICK place \in Places : Go("sender", place, c)
    BY <1>18, AllPlaces DEF SenderFails, Disconnect
  <2>3. at' \in [Threads -> Places] /\ on' \in [Threads -> Conns \cup {NoCon}]
    BY <2>1, <2>2, SenderGoes
  <2> QED BY <1>18, <2>1, <2>3, UnlistType DEF SenderFails, Disconnect, TypeOK
<1>19. ASSUME NEW c \in s_cons, NEW k \in 0..MaxUnits, SenderWrites(c, k) PROVE TypeOK'
  <2>1. /\ c \in Conns /\ queue[c] \in Seq(1..MaxUnits) /\ k <= Len(queue[c])
    BY <1>19 DEF SenderWrites, TypeOK
  <2>2. /\ SubSeq(queue[c], 1, k) \in Seq(1..MaxUnits)
        /\ SubSeq(queue[c], k + 1, Len(queue[c])) \in Seq(1..MaxUnits)
    BY <2>1, SubSeqProperties, ConnsAssumption
  <2>3. wire' \in [Conns -> Seq(1..MaxUnits)]
    BY <1>19, <2>1, <2>2, TransmitType DEF SenderWrites
  <2>4. queue' \in [Conns -> Seq(1..MaxUnits)] /\ sending' \in BOOLEAN /\ s_cons' \subseteq Conns
    <3>1. CASE k = Len(queue[c])
      <4>1. /\ queue' = [queue EXCEPT ![c] = << >>]
            /\ sending' = (Waiting # {c})
            /\ s_cons' = IF Waiting = {c} THEN {} ELSE s_cons \ {c}
        BY <1>19, <3>1 DEF SenderWrites, Without
      <4>2. sending' \in BOOLEAN /\ s_cons' \subseteq Conns
        BY <4>1 DEF TypeOK
      <4> QED BY <4>1, <4>2, EmptyUnits DEF TypeOK
    <3>2. CASE k # Len(queue[c])
      <4>1. /\ queue' = [queue EXCEPT ![c] = SubSeq(queue[c], k + 1, Len(queue[c]))]
            /\ s_cons' = s_cons \ {c} /\ sending' = sending
        BY <1>19, <3>2 DEF SenderWrites
      <4> QED BY <2>2, <4>1 DEF TypeOK
    <3> QED BY <3>1, <3>2
  <2> QED BY <1>19, <2>3, <2>4 DEF SenderWrites, TypeOK
<1> QED
  BY <1>1, <1>2, <1>3, <1>4, <1>5, <1>6, <1>7, <1>8, <1>9, <1>10, <1>11, <1>12, <1>13,
     <1>14, <1>15, <1>16, <1>17, <1>18, <1>19, AllPlaces
     DEF Next, Handle, TaskGoesOn, SenderGoesOn, SenderSteps

-----------------------------------------------------------------------------
(* WaitingMeansSending and InOrder *)

LEMMA WaitingStep ==
    ASSUME TypeOK, WaitingMeansSending, [Next]_vars
    PROVE  WaitingMeansSending'
<1> USE DEF conVars, endVars, dataVars, placeVars, loopVars, WaitingMeansSending, Waiting
<1>1. CASE UNCHANGED <<queue, sending>>
  BY <1>1
<1>2. ASSUME NEW c \in Conns, Defer(c) PROVE WaitingMeansSending'
  BY <1>2 DEF Defer
<1>3. ASSUME NEW c \in Conns, Handle(c) \/ Accept(c) \/ Close(c) \/ PeerGone(c)
      PROVE  UNCHANGED <<queue, sending>>
  BY <1>3 DEF Handle, Hello, FeaturesReply, Serve, Answers, FinishConnecting,
              FailConnecting, Accept, Close, PeerGone
<1>4. ASSUME NEW c \in Conns, TaskGoesOn(c) PROVE UNCHANGED <<queue, sending>>
  BY <1>4 DEF TaskGoesOn, SendDefers, SendFails, SendWrites, Raises, TaskShuts, Closes, Drops
<1>5. ASSUME NEW c \in Conns, SenderGoesOn(c) PROVE WaitingMeansSending'
  <2>1. CASE Raises("sender", c)
    BY <1>1, <2>1 DEF Raises
  <2>2. CASE SenderShuts(c)
    BY <2>2 DEF SenderShuts, Forget, TypeOK
  <2> QED BY <1>5, <2>1, <2>2 DEF SenderGoesOn
<1>6. CASE \/ SenderKeys \/ SenderSelects \/ SenderLoops
           \/ \E ready \in SUBSET s_cons : SenderWakes(ready)
           \/ \E c \in s_cons : SenderFails(c)
  BY <1>6, <1>1 DEF SenderKeys, SenderSelects, SenderLoops, SenderWakes, SenderFails
<1>8. ASSUME NEW c \in s_cons, NEW k \in 0..MaxUnits, SenderWrites(c, k)
      PROVE  WaitingMeansSending'
  <2>1. c \in Waiting
    BY <1>8 DEF SenderWrites, Serves
  <2>2. CASE k = Len(queue[c])
    <3>1. sending' = (Waiting # {c}) /\ queue' = [queue EXCEPT ![c] = << >>]
      BY <1>8, <2>2 DEF SenderWrites, Without
    <3>2. ASSUME NEW d \in Waiting' PROVE d \in Waiting /\ d # c
      BY <3>1 DEF TypeOK
    <3> QED BY <2>1, <3>1, <3>2
  <2>3. CASE k # Len(queue[c])
    <3>1. sending' = sending
      BY <1>8, <2>3 DEF SenderWrites
    <3> QED BY <2>1, <3>1
  <2> QED BY <2>2, <2>3
<1> QED
  BY <1>1, <1>2, <1>3, <1>4, <1>5, <1>6, <1>8 DEF Next, SenderSteps, vars

\* InOrder, connection by connection.
Chain(c) ==
    /\ wire[c] = Units(0, Len(wire[c])) /\ Len(wire[c]) <= given[c]
    /\ ~Ended(c) =>
          /\ queue[c] = Units(Len(wire[c]), Len(queue[c]))
          /\ Pending(c) = Units(Len(wire[c]) + Len(queue[c]), Len(Pending(c)))
          /\ Len(wire[c]) + Len(queue[c]) + Len(Pending(c)) = given[c]
    /\ sock[c] = "none" =>
          /\ given[c] = 0 /\ stage[c] = "none"
          /\ queue[c] = << >> /\ on["task"] # c /\ c \notin sockets

LEMMA UnitsLen ==
    ASSUME NEW i \in Nat, NEW n \in Nat
    PROVE  Len(Units(i, n)) = n /\ Units(i, 0) = << >>
BY SMT DEF Units

LEMMA TypesAt ==
    ASSUME TypeOK, NEW c \in Conns
    PROVE  /\ wire[c] \in Seq(1..MaxUnits) /\ queue[c] \in Seq(1..MaxUnits)
           /\ Pending(c) \in Seq(1..MaxUnits)
           /\ Len(wire[c]) \in Nat /\ Len(queue[c]) \in Nat /\ Len(Pending(c)) \in Nat
           /\ given[c] \in Nat
<1>1. /\ wire[c] \in Seq(1..MaxUnits) /\ queue[c] \in Seq(1..MaxUnits)
      /\ m_send \in Seq(1..MaxUnits) /\ given[c] \in Nat
  BY ConstantTypes DEF TypeOK
<1>2. Pending(c) \in Seq(1..MaxUnits)
  BY <1>1, EmptyUnits DEF Pending
<1> QED BY <1>1, <1>2, LenProperties

\* A connection that nothing of the chain changes for, and one that has ended.
LEMMA ChainKept ==
    ASSUME NEW x \in Conns, Chain(x),
           UNCHANGED <<wire[x], given[x], queue[x], sock[x], Pending(x)>>,
           Ended(x) => Ended(x)',
           sock[x] = "none" => stage'[x] = "none" /\ on'["task"] # x /\ x \notin sockets'
    PROVE  Chain(x)'
BY DEF Chain

LEMMA ChainEnded ==
    ASSUME TypeOK, NEW x \in Conns, Chain(x), wire'[x] = wire[x], given'[x] \in Nat,
           given[x] <= given'[x], Ended(x)', sock'[x] # "none"
    PROVE  Chain(x)'
<1>1. Len(wire[x]) \in Nat /\ given[x] \in Nat
  BY TypesAt
<1>2. Len(wire[x]) <= given[x]
  BY DEF Chain
<1>3. Len(wire[x]) <= given'[x]
  BY <1>1, <1>2
<1>4. wire'[x] = Units(0, Len(wire'[x])) /\ Len(wire'[x]) <= given'[x]
  BY <1>3 DEF Chain
<1> QED BY <1>4 DEF Chain

\* The chain of a connection that has not ended, with the three lengths named.
LEMMA ChainParts ==
    ASSUME TypeOK, NEW c \in Conns, Chain(c), ~Ended(c)
    PROVE  \E w, q, p \in Nat :
              /\ wire[c] = Units(0, w) /\ queue[c] = Units(w, q)
              /\ Pending(c) = Units(w + q, p) /\ w + q + p = given[c]
BY TypesAt DEF Chain

LEMMA ChainMade ==
    ASSUME NEW c \in Conns, NEW w \in Nat, NEW q \in Nat, NEW p \in Nat,
           wire'[c] = Units(0, w), queue'[c] = Units(w, q),
           Pending(c)' = Units(w + q, p), w + q + p = given'[c], sock'[c] # "none"
    PROVE  Chain(c)'
<1>1. Len(wire'[c]) = w /\ Len(queue'[c]) = q
  BY UnitsLen
<1>2. Len(Pending(c)') = p
  <2>1. w + q \in Nat
    OBVIOUS
  <2> QED BY <2>1, UnitsLen
<1>3. w <= w + q + p
  OBVIOUS
<1> QED BY <1>1, <1>2, <1>3 DEF Chain

\* Steps that move no data: every connection keeps its chain, or has ended.
LEMMA NothingMoved ==
    ASSUME TypeOK, InOrder, UNCHANGED <<wire, given>>,
           \A x \in Conns :
              /\ \/ UNCHANGED <<queue[x], sock[x], Pending(x)>> /\ (Ended(x) => Ended(x)')
                 \/ Ended(x)' /\ sock'[x] # "none"
              /\ sock[x] = "none" => stage'[x] = "none" /\ on'["task"] # x /\ x \notin sockets'
    PROVE  InOrder'
<1>1. \A x \in Conns : Chain(x)
  BY DEF InOrder, Chain
<1>2. ASSUME NEW x \in Conns PROVE Chain(x)'
  <2>1. CASE UNCHANGED <<queue[x], sock[x], Pending(x)>> /\ (Ended(x) => Ended(x)')
    BY <1>1, <2>1, ChainKept
  <2>2. CASE Ended(x)' /\ sock'[x] # "none"
    <3>1. given[x] \in Nat /\ given'[x] = given[x] /\ given[x] <= given'[x]
      BY TypesAt
    <3> QED BY <1>1, <2>2, <3>1, ChainEnded
  <2> QED BY <2>1, <2>2
<1> QED BY <1>2 DEF InOrder, Chain

LEMMA SendInOrder ==
    ASSUME TypeOK, InOrder, Ends, at["task"] = "out",
           NEW c \in Conns, NEW n \in Nat, Send(c, n), UNCHANGED <<wire, queue, peer>>,
           \A x \in Conns \ {c} : stage'[x] = stage[x] /\ sock'[x] = sock[x],
           sockets' \ {c} \subseteq sockets,
           sock'[c] = sock[c] \/ sock[c] = "none", sock'[c] # "none"
    PROVE  InOrder'
<1>1. /\ \A x \in Conns : Chain(x) /\ Pending(x) = << >>
      /\ on["task"] = NoCon /\ \A x \in Conns : on["task"] # x
  <2>1. on["task"] = NoCon
    BY AllPlaces DEF Ends
  <2> QED BY <2>1, ConstantTypes DEF InOrder, Chain, Pending
<1>2. \/ disconnected[c] /\ given' = given /\ m_send' = m_send /\ on' = on
      \/ /\ given' = [given EXCEPT ![c] = @ + n] /\ m_send' = Units(given[c], n)
         /\ on'["task"] = c
  <2>1. CASE disconnected[c] /\ UNCHANGED <<given, m_send, placeVars>>
    BY <2>1 DEF placeVars
  <2>2. CASE ~disconnected[c]
    <3>1. Go("task", "send", c)
      BY <2>2 DEF Send
    <3> QED BY <2>2, <3>1, TaskGoes, AllPlaces DEF Send
  <2> QED BY <2>1, <2>2 DEF Send
<1>3. \A x \in Conns \ {c} : on'["task"] # x /\ Pending(x)' = << >>
  BY <1>1, <1>2 DEF Pending
<1>4. ASSUME NEW x \in Conns, x # c PROVE Chain(x)'
  <2>1. UNCHANGED <<wire[x], given[x], queue[x], sock[x], Pending(x)>> /\ (Ended(x) => Ended(x)')
    BY <1>1, <1>2, <1>3, <1>4 DEF Ended, Writable, TypeOK
  <2>2. sock[x] = "none" => stage'[x] = "none" /\ on'["task"] # x /\ x \notin sockets'
    BY <1>1, <1>3, <1>4 DEF Chain
  <2> QED BY <1>1, <2>1, <2>2, ChainKept
<1>5. Chain(c)'
  <2>1. PICK g \in Nat, p \in Nat : /\ g = given[c] /\ given'[c] = g + p /\ Pending(c)' = Units(g, p)
    <3>1. given[c] \in Nat /\ given[c] + 0 = given[c]
      BY TypesAt
    <3>2. CASE given' = given /\ m_send' = m_send /\ on' = on
      <4>1. Pending(c)' = << >>
        BY <1>1, <3>2 DEF Pending
      <4>2. Units(given[c], 0) = << >>
        BY <3>1, UnitsLen
      <4> QED BY <3>1, <3>2, <4>1, <4>2
    <3>3. CASE /\ given' = [given EXCEPT ![c] = @ + n] /\ m_send' = Units(given[c], n)
               /\ on'["task"] = c
      BY <3>1, <3>3 DEF Pending, TypeOK
    <3> QED BY <1>2, <3>2, <3>3
  <2>2. CASE Ended(c)'
    <3>1. given'[c] \in Nat /\ given[c] <= given'[c]
      BY <2>1
    <3> QED BY <1>1, <2>2, <3>1, ChainEnded
  <2>3. CASE ~Ended(c)'
    <3>1. PICK w \in Nat, q \in Nat :
            /\ wire[c] = Units(0, w) /\ queue[c] = Units(w, q) /\ w + q = g
      <4>1. CASE sock[c] = "none"
        <5>1. given[c] = 0 /\ queue[c] = << >> /\ Len(wire[c]) = 0 /\ wire[c] = Units(0, Len(wire[c]))
          <6>1. given[c] = 0 /\ queue[c] = << >> /\ Len(wire[c]) <= given[c]
                /\ wire[c] = Units(0, Len(wire[c]))
            BY <1>1, <4>1 DEF Chain
          <6> QED BY <6>1, TypesAt
        <5>2. queue[c] = Units(0, 0) /\ wire[c] = Units(0, 0)
          BY <5>1, UnitsLen
        <5> QED BY <2>1, <5>1, <5>2
      <4>2. CASE sock[c] # "none"
        <5>1. ~Ended(c)
          BY <2>3, <4>2 DEF Ended, Writable
        <5>2. PICK w, q, r \in Nat :
                /\ wire[c] = Units(0, w) /\ queue[c] = Units(w, q)
                /\ Pending(c) = Units(w + q, r) /\ w + q + r = given[c]
          BY <1>1, <5>1, ChainParts
        <5>3. r = 0
          <6>1. w + q \in Nat /\ Len(<< >>) = 0
            OBVIOUS
          <6>2. Len(Units(w + q, r)) = r
            BY <6>1, UnitsLen
          <6> QED BY <1>1, <5>2, <6>1, <6>2
        <5> QED BY <2>1, <5>2, <5>3
      <4> QED BY <4>1, <4>2
    <3>2. Pending(c)' = Units(w + q, p) /\ w + q + p = given'[c]
      BY <2>1, <3>1
    <3>3. wire'[c] = Units(0, w) /\ queue'[c] = Units(w, q)
      BY <3>1
    <3> QED BY <3>2, <3>3, ChainMade
  <2> QED BY <2>2, <2>3
<1> QED BY <1>4, <1>5 DEF InOrder, Chain

LEMMA SendWritesInOrder ==
    ASSUME TypeOK, WaitingMeansSending, InOrder, Ends,
           NEW c \in Conns, NEW k \in 0..MaxUnits, SendWrites(c, k)
    PROVE  InOrder'
<1> USE DEF conVars, endVars
<1>1. /\ at["task"] = "send" /\ on["task"] = c /\ sock[c] = "open" /\ ~sending
      /\ k <= Len(m_send) /\ k \in Nat /\ Len(m_send) \in Nat
      /\ UNCHANGED <<given, sock, stage, peer, sockets, queue>>
  BY ConstantTypes DEF SendWrites, At, Writable, Deferring, TypeOK
<1>2. queue[c] = << >> /\ Pending(c) = m_send /\ \A x \in Conns : Chain(x)
  BY <1>1 DEF WaitingMeansSending, Waiting, Pending, InOrder, Chain
<1>3. /\ on'["task"] \in {c, NoCon}
      /\ k # Len(m_send) => on'["task"] = c
  <2>1. \/ k = Len(m_send) /\ Go("task", "out", NoCon)
        \/ k # Len(m_send) /\ Go("task", "defer", c)
    BY DEF SendWrites, Leave
  <2> QED BY <2>1, TaskGoes, AllPlaces
<1>4. /\ SubSeq(m_send, 1, k) \in Seq(1..MaxUnits)
      /\ m_send' = SubSeq(m_send, k + 1, Len(m_send))
      /\ Transmit(c, SubSeq(m_send, 1, k))
  <2>1. m_send \in Seq(1..MaxUnits)
    BY DEF TypeOK
  <2>2. SubSeq(m_send, 1, k) \in Seq(1..MaxUnits)
    BY <1>1, <2>1, SubSeqProperties, ConnsAssumption
  <2> QED BY <2>2 DEF SendWrites
<1>5. ASSUME NEW x \in Conns, x # c PROVE Chain(x)'
  <2>1. Pending(x) = << >> /\ Pending(x)' = << >> /\ on'["task"] # x
    BY <1>1, <1>3, <1>5, ConstantTypes DEF Pending
  <2>2. wire'[x] = wire[x]
    BY <1>4, <1>5, TransmitType
  <2>3. Ended(x) => Ended(x)'
    BY <1>1 DEF Ended, Writable
  <2>4. sock[x] = "none" => stage'[x] = "none" /\ on'["task"] # x /\ x \notin sockets'
    BY <1>1, <1>2, <2>1 DEF Chain
  <2> QED BY <1>1, <1>2, <2>1, <2>2, <2>3, <2>4, ChainKept
<1>6. Chain(c)'
  <2>1. CASE peer[c]
    <3>1. ~Ended(c)
      BY <1>1, <2>1 DEF Ended, Writable
    <3>2. PICK w, q, p \in Nat :
            /\ wire[c] = Units(0, w) /\ queue[c] = Units(w, q)
            /\ Pending(c) = Units(w + q, p) /\ w + q + p = given[c]
      BY <1>2, <3>1, ChainParts
    <3>3. q = 0
      <4>1. Len(Units(w, q)) = q /\ Len(<< >>) = 0
        BY UnitsLen
      <4> QED BY <1>2, <3>2, <4>1
    <3>4. m_send = Units(w, p) /\ Len(m_send) = p
      <4>1. m_send = Units(w, p)
        BY <1>2, <3>2, <3>3, w + 0 = w
      <4> QED BY <4>1, UnitsLen
    <3>5. k \in 0..p
      BY <1>1, <3>4
    <3>6. /\ SubSeq(m_send, 1, k) = Units(w, k)
          /\ m_send' = Units(w + k, p - k)
      <4>1. /\ SubSeq(Units(w, p), 1, k) = Units(w, k)
            /\ SubSeq(Units(w, p), k + 1, p) = Units(w + k, p - k)
        BY <3>5, UnitsSub
      <4> QED BY <1>4, <3>4, <4>1
    <3>7. wire'[c] = Units(0, w + k)
      <4>1. wire'[c] = wire[c] \o SubSeq(m_send, 1, k)
        BY <1>4, <2>1, TransmitType
      <4>2. wire'[c] = Units(0, w) \o Units(0 + w, k)
        BY <3>2, <3>6, <4>1, 0 + w = w
      <4> QED BY <1>1, <3>2, <4>2, UnitsCat, 0 \in Nat
    <3>8. queue'[c] = Units(w + k, 0)
      BY <1>1, <1>2, UnitsLen, w + k \in Nat
    <3>9. Pending(c)' = Units(w + k, p - k)
      <4>1. CASE k # Len(m_send)
        BY <1>3, <3>6, <4>1 DEF Pending
      <4>2. CASE k = Len(m_send)
        <5>1. p - k = 0 /\ w + k \in Nat
          BY <3>4, <4>2
        <5>2. Units(w + k, p - k) = << >>
          BY <5>1, UnitsLen
        <5>3. m_send' = << >>
          BY <3>6, <5>2
        <5> QED BY <5>2, <5>3 DEF Pending
      <4> QED BY <4>1, <4>2
    <3>10. /\ w + k \in Nat /\ p - k \in Nat /\ (w + k) + 0 = w + k
           /\ (w + k) + 0 + (p - k) = w + q + p
      <4>1. \A x, z \in Nat : \A i \in 0..z :
               /\ x + i \in Nat /\ z - i \in Nat /\ (x + i) + 0 = x + i
               /\ (x + i) + 0 + (z - i) = x + 0 + z
        OBVIOUS
      <4> QED BY <3>3, <3>5, <4>1
    <3>11. /\ Pending(c)' = Units((w + k) + 0, p - k)
           /\ (w + k) + 0 + (p - k) = given'[c]
      BY <1>1, <3>2, <3>9, <3>10
    <3> QED BY <1>1, <3>7, <3>8, <3>10, <3>11, ChainMade, 0 \in Nat
  <2>2. CASE ~peer[c]
    <3>1. wire'[c] = wire[c] /\ Ended(c)' /\ given'[c] = given[c]
      BY <1>1, <1>4, <2>2, TransmitType DEF Ended
    <3>2. given[c] \in Nat /\ given[c] <= given'[c] /\ given'[c] \in Nat
      BY <3>1, TypesAt
    <3> QED BY <1>1, <1>2, <3>1, <3>2, ChainEnded
  <2> QED BY <2>1, <2>2
<1> QED BY <1>5, <1>6 DEF InOrder, Chain

LEMMA DeferInOrder == ASSUME TypeOK, InOrder, NEW c \in Conns, Defer(c) PROVE InOrder'
<1> USE DEF conVars, endVars
<1>1. /\ on["task"] = c /\ \A x \in Conns : Chain(x)
      /\ UNCHANGED <<wire, given, sock, peer, stage, sockets>>
  BY DEF Defer, At, InOrder, Chain
<1>2. \A x \in Conns : Pending(x)' = << >> /\ on'["task"] # x
  <2>1. on'["task"] = NoCon
    BY TaskGoes, AllPlaces DEF Defer, Leave
  <2> QED BY <2>1, ConstantTypes DEF Pending
<1>3. ASSUME NEW x \in Conns, x # c PROVE Chain(x)'
  <2>1. queue'[x] = queue[x] /\ Pending(x) = << >> /\ (Ended(x) => Ended(x)')
    BY <1>1, <1>3 DEF Defer, Pending, Ended, Writable, TypeOK
  <2>2. sock[x] = "none" => stage'[x] = "none" /\ x \notin sockets'
    BY <1>1 DEF Chain
  <2> QED BY <1>1, <1>2, <2>1, <2>2, ChainKept
<1>4. Chain(c)'
  <2>1. queue'[c] = queue[c] \o Pending(c)
    BY <1>1 DEF Defer, TypeOK, Pending
  <2>2. sock'[c] # "none" /\ (Ended(c) <=> Ended(c)')
    BY <1>1 DEF Chain, Ended, Writable
  <2>3. CASE ~Ended(c)
    <3>1. PICK w, q, p \in Nat :
            /\ wire[c] = Units(0, w) /\ queue[c] = Units(w, q)
            /\ Pending(c) = Units(w + q, p) /\ w + q + p = given[c]
      BY <1>1, <2>3, ChainParts
    <3>2. queue'[c] = Units(w, q + p)
      BY <2>1, <3>1, UnitsCat
    <3>3. q + p \in Nat /\ w + (q + p) \in Nat /\ w + (q + p) + 0 = w + q + p
      OBVIOUS
    <3>4. Pending(c)' = Units(w + (q + p), 0)
      BY <1>2, <3>3, UnitsLen
    <3> QED BY <1>1, <2>2, <3>1, <3>2, <3>3, <3>4, ChainMade
  <2>4. CASE Ended(c)
    <3>1. given[c] \in Nat /\ given[c] <= given'[c] /\ given'[c] \in Nat
      BY <1>1, TypesAt
    <3> QED BY <1>1, <2>2, <2>4, <3>1, ChainEnded
  <2> QED BY <2>3, <2>4
<1> QED BY <1>3, <1>4 DEF InOrder, Chain

LEMMA WriteInOrder ==
    ASSUME TypeOK, InOrder, NEW c \in s_cons, NEW k \in 0..MaxUnits, SenderWrites(c, k)
    PROVE  InOrder'
<1> USE DEF conVars, endVars, placeVars
<1>1. /\ c \in Conns /\ sock[c] = "open" /\ k <= Len(queue[c]) /\ k \in Nat
      /\ UNCHANGED <<given, sock, stage, peer, sockets, m_send, on>>
  BY ConstantTypes DEF SenderWrites, Writable, TypeOK
<1>2. \A x \in Conns : Chain(x) /\ Pending(x)' = Pending(x) /\ (Ended(x) <=> Ended(x)')
  BY <1>1 DEF InOrder, Chain, Pending, Ended, Writable
<1>3. /\ SubSeq(queue[c], 1, k) \in Seq(1..MaxUnits)
      /\ Transmit(c, SubSeq(queue[c], 1, k))
      /\ queue' = [queue EXCEPT ![c] = IF k = Len(queue[c]) THEN << >>
                                       ELSE SubSeq(queue[c], k + 1, Len(queue[c]))]
  <2>1. queue[c] \in Seq(1..MaxUnits)
    BY <1>1 DEF TypeOK
  <2>2. SubSeq(queue[c], 1, k) \in Seq(1..MaxUnits)
    BY <1>1, <2>1, SubSeqProperties, ConnsAssumption
  <2> QED BY <2>2 DEF SenderWrites, Without
<1>4. ASSUME NEW x \in Conns, x # c PROVE Chain(x)'
  <2>1. UNCHANGED <<wire[x], queue[x]>>
    BY <1>1, <1>3, <1>4, TransmitType DEF TypeOK
  <2>2. sock[x] = "none" => stage'[x] = "none" /\ on'["task"] # x /\ x \notin sockets'
    BY <1>1, <1>2 DEF Chain
  <2> QED BY <1>1, <1>2, <2>1, <2>2, ChainKept
<1>5. Chain(c)'
  <2>1. CASE peer[c]
    <3>0. ~Ended(c)
      BY <1>1, <2>1 DEF Ended, Writable
    <3>1. PICK w, q, p \in Nat :
            /\ wire[c] = Units(0, w) /\ queue[c] = Units(w, q)
            /\ Pending(c) = Units(w + q, p) /\ w + q + p = given[c]
      BY <1>1, <1>2, <3>0, ChainParts
    <3>2. Len(queue[c]) = q /\ k \in 0..q
      <4>1. Len(queue[c]) = q
        BY <3>1, UnitsLen
      <4> QED BY <1>1, <4>1
    <3>3. /\ SubSeq(queue[c], 1, k) = Units(w, k)
          /\ SubSeq(queue[c], k + 1, q) = Units(w + k, q - k)
      <4>1. /\ SubSeq(Units(w, q), 1, k) = Units(w, k)
            /\ SubSeq(Units(w, q), k + 1, q) = Units(w + k, q - k)
        BY <3>2, UnitsSub
      <4> QED BY <3>1, <4>1
    <3>4. wire'[c] = Units(0, w + k)
      <4>1. wire'[c] = wire[c] \o SubSeq(queue[c], 1, k)
        BY <1>1, <1>3, <2>1, TransmitType
      <4>2. wire'[c] = Units(0, w) \o Units(0 + w, k)
        BY <3>1, <3>3, <4>1, 0 + w = w
      <4> QED BY <1>1, <3>1, <4>2, UnitsCat, 0 \in Nat
    <3>5. queue'[c] = Units(w + k, q - k)
      <4>1. queue'[c] = IF k = q THEN << >> ELSE SubSeq(queue[c], k + 1, q)
        BY <1>1, <1>3, <3>2 DEF TypeOK
      <4>2. CASE k = q
        BY <1>1, <4>1, <4>2, UnitsLen, q - q = 0, w + q \in Nat
      <4>3. CASE k # q
        BY <3>3, <4>1, <4>3
      <4> QED BY <4>2, <4>3
    <3>6. /\ w + k \in Nat /\ q - k \in Nat /\ (w + k) + (q - k) = w + q
          /\ (w + k) + (q - k) + p = w + q + p
      <4>1. \A x, y, z \in Nat : \A i \in 0..y :
               /\ x + i \in Nat /\ y - i \in Nat /\ (x + i) + (y - i) = x + y
               /\ (x + i) + (y - i) + z = x + y + z
        OBVIOUS
      <4> QED BY <3>2, <4>1
    <3> QED BY <1>1, <1>2, <3>1, <3>4, <3>5, <3>6, ChainMade
  <2>2. CASE ~peer[c]
    <3>1. wire'[c] = wire[c] /\ Ended(c)'
      BY <1>1, <1>3, <2>2, TransmitType DEF Ended
    <3>2. given[c] \in Nat /\ given[c] <= given'[c] /\ given'[c] \in Nat
      BY <1>1, TypesAt
    <3> QED BY <1>1, <1>2, <3>1, <3>2, ChainEnded
  <2> QED BY <2>1, <2>2
<1> QED BY <1>4, <1>5 DEF InOrder, Chain

LEMMA InOrderStep ==
    ASSUME TypeOK, WaitingMeansSending, InOrder, Ends, [Next]_vars
    PROVE  InOrder'
<1> USE DEF conVars, endVars, dataVars, placeVars, loopVars
<1>0. \A x \in Conns :
         /\ sock[x] = "none" => stage[x] = "none" /\ on["task"] # x /\ x \notin sockets
         /\ sock[x] = "none" => queue[x] = << >>
  BY DEF InOrder
<1>1. ASSUME UNCHANGED <<sock, peer, given, wire, queue, m_send, stage, sockets>>,
             on'["task"] = on["task"]
      PROVE  InOrder'
  BY <1>0, <1>1, NothingMoved DEF Pending, Ended, Writable
<1>2. CASE UNCHANGED vars
  BY <1>1, <1>2 DEF vars
<1>3. ASSUME NEW c \in Conns, Defer(c) PROVE InOrder'
  BY <1>3, DeferInOrder
<1>4. ASSUME NEW c \in Conns, Accept(c) PROVE InOrder'
  <2>1. /\ at["task"] = "out" /\ Send(c, 1) /\ sock[c] = "none"
        /\ \A x \in Conns \ {c} : stage'[x] = stage[x] /\ sock'[x] = sock[x]
        /\ sock'[c] = "open" /\ sockets' = sockets \cup {c} /\ UNCHANGED <<wire, queue, peer>>
    BY <1>4 DEF Accept, Ends, TypeOK
  <2> QED BY <2>1, SendInOrder
<1>5. ASSUME NEW c \in Conns, Hello(c) \/ FeaturesReply(c) \/ Serve(c) PROVE InOrder'
  <2>1. PICK n \in Nat, from \in {"hello", "features", "up"}, to \in {"features", "barrier", "up"} :
          Answers(c, from, to, n)
    BY <1>5 DEF Hello, FeaturesReply, Serve
  <2>2. /\ at["task"] = "out" /\ Send(c, n) /\ sock'[c] # "none" /\ sock' = sock
        /\ \A x \in Conns \ {c} : stage'[x] = stage[x]
        /\ UNCHANGED <<wire, queue, peer, sockets>>
    BY <1>0, <2>1 DEF Answers, Reads, TypeOK
  <2> QED BY <2>2, SendInOrder
<1>6. ASSUME NEW c \in Conns, FinishConnecting(c) PROVE InOrder'
  <2>1. c \in sockets /\ UNCHANGED <<sock, peer, sockets, dataVars, on>>
        /\ \A x \in Conns \ {c} : stage'[x] = stage[x]
    BY <1>6 DEF FinishConnecting, Reads, TypeOK
  <2> QED BY <1>0, <2>1, NothingMoved DEF Pending, Ended, Writable
<1>7. ASSUME NEW c \in Conns, FailConnecting(c) PROVE InOrder'
  <2>1. /\ c \in sockets /\ at["task"] = "out" /\ UNCHANGED <<sock, peer, sockets, dataVars>>
        /\ \A x \in Conns \ {c} : stage'[x] = stage[x]
    BY <1>7 DEF FailConnecting, Reads, TypeOK
  <2>2. on'["task"] = c /\ m_send = << >> /\ m_send' = << >>
    BY <1>7, <2>1, TaskGoes, AllPlaces DEF FailConnecting, Ends
  <2> QED BY <1>0, <2>1, <2>2, NothingMoved DEF Pending, Ended, Writable
<1>8. ASSUME NEW c \in Conns, Close(c) PROVE InOrder'
  <2>1. /\ c \in sockets /\ at["task"] = "out"
        /\ UNCHANGED <<sock, peer, sockets, dataVars, stage>>
    BY <1>8 DEF Close, Disconnect, Reads
  <2>2. m_send = << >> /\ m_send' = << >> /\ on'["task"] = c
    <3>1. PICK place \in Places : Go("task", place, c)
      BY <1>8, AllPlaces DEF Close, Disconnect
    <3> QED BY <2>1, <3>1, TaskGoes DEF Ends
  <2> QED BY <1>0, <2>1, <2>2, NothingMoved DEF Pending, Ended, Writable
<1>9. ASSUME NEW c \in Conns, PeerGone(c) PROVE InOrder'
  <2>1. /\ UNCHANGED <<sock, sockets, dataVars, on, stage>>
        /\ \A x \in Conns : ~peer[x] => ~peer'[x]
    BY <1>9 DEF PeerGone, TypeOK
  <2> QED BY <1>0, <2>1, NothingMoved DEF Pending, Ended, Writable
<1>10. ASSUME NEW c \in Conns, sock[c] # "none", UNCHANGED <<wire, given, stage, peer>>,
              sockets' \subseteq sockets, sock'[c] \notin {"open", "none"},
              \A x \in Conns \ {c} : sock'[x] = sock[x] /\ queue'[x] = queue[x],
              \A x \in Conns \ {c} : Pending(x)' = Pending(x),
              on'["task"] \in {on["task"], NoCon, c}
       PROVE  InOrder'
  <2>1. Ended(c)' /\ sock'[c] # "none"
    BY <1>10 DEF Ended, Writable
  <2>2. \A x \in Conns \ {c} :
           UNCHANGED <<queue[x], sock[x], Pending(x)>> /\ (Ended(x) => Ended(x)')
    BY <1>10 DEF Ended, Writable
  <2>3. \A x \in Conns :
           sock[x] = "none" => stage'[x] = "none" /\ on'["task"] # x /\ x \notin sockets'
    BY <1>0, <1>10, ConstantTypes
  <2> QED BY <1>10, <2>1, <2>2, <2>3, NothingMoved
<1>11. ASSUME NEW c \in Conns, Drops(c) \/ TaskShuts(c) \/ Closes(c) PROVE InOrder'
  <2>1. /\ at["task"] \in {"drop", "shut", "close"} /\ on["task"] = c
        /\ UNCHANGED <<stage, peer, dataVars>> /\ sockets' \subseteq sockets
    BY <1>11 DEF Drops, TaskShuts, Closes, At
  <2>2. sock[c] # "none" /\ m_send = << >> /\ m_send' = << >>
    BY <1>0, <2>1 DEF Ends
  <2>3. on'["task"] \in {NoCon, c}
    BY <1>11, TaskGoes, AllPlaces DEF Drops, TaskShuts, Closes, Leave
  <2>4. sock'[c] \notin {"open", "none"} /\ \A x \in Conns \ {c} : sock'[x] = sock[x]
    <3>1. CASE Shutdown(c)
      BY <2>2, <3>1, SockType
    <3>2. CASE Closes(c)
      BY <3>2 DEF Closes, TypeOK
    <3> QED BY <1>11, <3>1, <3>2 DEF Drops, TaskShuts
  <2>5. \A x \in Conns \ {c} : Pending(x)' = Pending(x) /\ queue'[x] = queue[x]
    BY <2>1, <2>2 DEF Pending
  <2> QED BY <1>10, <2>1, <2>2, <2>3, <2>4, <2>5
<1>12. ASSUME NEW c \in Conns, SenderShuts(c) PROVE InOrder'
  <2>1. /\ at["sender"] = "shut" /\ on["sender"] = c
        /\ UNCHANGED <<stage, peer, sockets, wire, given, m_send>>
        /\ \A x \in Conns \ {c} : queue'[x] = queue[x]
    BY <1>12 DEF SenderShuts, At, Forget, TypeOK
  <2>2. sock[c] # "none"
    BY <1>0, <2>1 DEF Ends, Waiting
  <2>3. on'["task"] = on["task"]
    BY <1>12, SenderGoes, AllPlaces DEF SenderShuts, Leave
  <2>4. sock'[c] \notin {"open", "none"} /\ \A x \in Conns \ {c} : sock'[x] = sock[x]
    <3>1. Shutdown(c)
      BY <1>12 DEF SenderShuts
    <3> QED BY <2>2, <3>1, SockType
  <2>5. \A x \in Conns \ {c} : Pending(x)' = Pending(x)
    BY <2>1, <2>3 DEF Pending
  <2> QED BY <1>10, <2>1, <2>2, <2>3, <2>4, <2>5
<1>13. ASSUME NEW c \in Conns, SendFails(c) PROVE InOrder'
  <2>1. /\ at["task"] = "send" /\ on["task"] = c
        /\ UNCHANGED <<stage, peer, sockets, wire, given, queue>>
    BY <1>13 DEF SendFails, At
  <2>2. sock[c] # "none"
    BY <1>0, <2>1
  <2>3. on'["task"] = NoCon
    BY <1>13, TaskGoes, AllPlaces DEF SendFails, Leave
  <2>4. sock'[c] \notin {"open", "none"} /\ \A x \in Conns \ {c} : sock'[x] = sock[x]
    <3>1. Shutdown(c)
      BY <1>13 DEF SendFails
    <3> QED BY <2>2, <3>1, SockType
  <2>5. \A x \in Conns \ {c} : Pending(x)' = Pending(x)
    BY <2>1, <2>3, ConstantTypes DEF Pending
  <2> QED BY <1>10, <2>1, <2>2, <2>3, <2>4, <2>5
<1>14. ASSUME NEW c \in Conns, NEW t \in Threads, Raises(t, c) PROVE InOrder'
  <2>1. on'["task"] = on["task"]
    <3>1. At(t, "raise", c) /\ Go(t, "shut", c)
      BY <1>14 DEF Raises
    <3> QED BY <3>1, TaskGoes, SenderGoes, AllPlaces DEF At
  <2> QED BY <1>1, <1>14, <2>1 DEF Raises
<1>15. ASSUME NEW c \in Conns, SendDefers(c) PROVE InOrder'
  <2>1. on'["task"] = on["task"]
    BY <1>15, TaskGoes, AllPlaces DEF SendDefers, At
  <2> QED BY <1>1, <1>15, <2>1 DEF SendDefers
<1>16. ASSUME NEW c \in Conns, NEW k \in 0..MaxUnits, SendWrites(c, k) PROVE InOrder'
  BY <1>16, SendWritesInOrder
<1>17. CASE \/ SenderKeys \/ SenderSelects \/ SenderLoops
            \/ \E ready \in SUBSET s_cons : SenderWakes(ready)
  BY <1>1, <1>17 DEF SenderKeys, SenderSelects, SenderLoops, SenderWakes
<1>18. ASSUME NEW c \in s_cons, SenderFails(c) PROVE InOrder'
  <2>1. c \in Conns
    BY DEF TypeOK
  <2>2. on'["task"] = on["task"]
    <3>1. PICK place \in Places : Go("sender", place, c)
      BY <1>18, AllPlaces DEF SenderFails, Disconnect
    <3> QED BY <2>1, <3>1, SenderGoes
  <2> QED BY <1>1, <1>18, <2>2 DEF SenderFails
<1>19. ASSUME NEW c \in s_cons, NEW k \in 0..MaxUnits, SenderWrites(c, k) PROVE InOrder'
  BY <1>19, WriteInOrder
<1> QED
  BY <1>2, <1>3, <1>4, <1>5, <1>6, <1>7, <1>8, <1>9, <1>11, <1>12, <1>13, <1>14, <1>15,
     <1>16, <1>17, <1>18, <1>19, AllPlaces
     DEF Next, Handle, TaskGoesOn, SenderGoesOn, SenderSteps


-----------------------------------------------------------------------------
(* Ends and Listed *)

\* Ends, thread by thread and connection by connection.
Place(t) ==
    /\ at[t] = "out" <=> on[t] = NoCon
    /\ at[t] \in {"raise", "shut", "close", "drop"} => disconnected[on[t]]
    /\ at[t] = "raise" => t \notin downs[on[t]]

TaskEnd ==
    /\ at["task"] # "out" => on["task"] \in sockets
    /\ at["task"] \notin {"send", "defer"} => m_send = << >>

SenderEnd ==
    at["sender"] # "out" =>
        /\ at["sender"] \in {"raise", "shut"}
        /\ s_pc = "serve" /\ on["sender"] \in Conns /\ queue[on["sender"]] # << >>

End(c) ==
    /\ downs[c] # {} => raised[c] /\ disconnected[c]
    /\ stage[c] = "none" <=> sock[c] = "none"
    /\ sock[c] = "closed" => c \notin sockets

LEMMA EndsParts ==
    Ends <=> /\ Place("task") /\ Place("sender") /\ TaskEnd /\ SenderEnd
             /\ \A c \in Conns : End(c)
BY AllPlaces DEF Ends, Place, TaskEnd, SenderEnd, End, Waiting, Locked

LEMMA EndsPartsAfter ==
    ASSUME Place("task")', Place("sender")', TaskEnd', SenderEnd', \A c \in Conns : End(c)'
    PROVE  Ends'
BY AllPlaces DEF Ends, Place, TaskEnd, SenderEnd, End, Waiting, Locked

LEMMA PlaceKept ==
    ASSUME TypeOK, NEW t \in Threads, Place(t), at'[t] = at[t], on'[t] = on[t],
           \A x \in Conns : disconnected[x] => disconnected'[x],
           \A x \in Conns : t \in downs'[x] => t \in downs[x]
    PROVE  Place(t)'
<1>1. at[t] # "out" => on[t] \in Conns
  BY DEF Place, TypeOK
<1> QED BY <1>1 DEF Place

LEMMA PlaceMade ==
    ASSUME NEW t \in Threads, NEW c \in Conns, NEW place \in Places \ {"out"},
           at'[t] = place, on'[t] = c,
           place \in {"raise", "shut", "close", "drop"} => disconnected'[c],
           place = "raise" => t \notin downs'[c]
    PROVE  Place(t)'
BY ConstantTypes DEF Place

LEMMA PlaceLeft ==
    ASSUME NEW t \in Threads, at'[t] = "out", on'[t] = NoCon
    PROVE  Place(t)'
BY DEF Place

LEMMA SenderKept ==
    ASSUME TypeOK, SenderEnd, at'["sender"] = at["sender"], on'["sender"] = on["sender"],
           s_pc' = s_pc,
           \A x \in Conns : queue[x] # << >> /\ on["sender"] = x => queue'[x] # << >>
    PROVE  SenderEnd'
BY DEF SenderEnd

\* The steps of the task: whatever it does, the sender stays where it is.
LEMMA TaskStep ==
    ASSUME TypeOK, Ends, UNCHANGED s_pc,
           at'["sender"] = at["sender"], on'["sender"] = on["sender"],
           \A x \in Conns : queue[x] # << >> => queue'[x] # << >>,
           \A x \in Conns : disconnected[x] => disconnected'[x],
           \A x \in Conns : "sender" \in downs'[x] => "sender" \in downs[x],
           Place("task")', TaskEnd', \A x \in Conns : End(x)'
    PROVE  Ends'
<1>1. Place("sender")' /\ SenderEnd'
  BY EndsParts, PlaceKept, SenderKept, AllPlaces
<1> QED BY <1>1, EndsPartsAfter

\* The steps of the sender.
LEMMA SenderStep ==
    ASSUME TypeOK, Ends, UNCHANGED <<sockets, m_send>>,
           at'["task"] = at["task"], on'["task"] = on["task"],
           \A x \in Conns : disconnected[x] => disconnected'[x],
           \A x \in Conns : "task" \in downs'[x] => "task" \in downs[x],
           Place("sender")', SenderEnd', \A x \in Conns : End(x)'
    PROVE  Ends'
<1>1. Place("task")' /\ TaskEnd'
  BY EndsParts, PlaceKept, AllPlaces DEF TaskEnd
<1> QED BY <1>1, EndsPartsAfter

LEMMA EndsStep ==
    ASSUME TypeOK, WaitingMeansSending, InOrder, Ends, [Next]_vars
    PROVE  Ends'
<1> USE DEF conVars, endVars, dataVars, placeVars, loopVars
<1>0. /\ Place("task") /\ Place("sender") /\ TaskEnd /\ SenderEnd
      /\ \A x \in Conns : End(x) /\ (x \in sockets => sock[x] # "none" /\ stage[x] # "none")
  BY EndsParts DEF InOrder, End
<1>1. CASE UNCHANGED vars
  BY <1>1 DEF vars, Ends, Waiting, Locked
<1>2. ASSUME NEW c \in Conns, Defer(c) PROVE Ends'
  <2>1. /\ at'["task"] = "out" /\ on'["task"] = NoCon
        /\ at'["sender"] = at["sender"] /\ on'["sender"] = on["sender"]
    BY <1>2, TaskGoes, AllPlaces DEF Defer, Leave
  <2>2. at["sender"] = "out"
    BY <1>0, <1>2 DEF SenderEnd, Defer, Locked
  <2>3. Place("task")' /\ Place("sender")'
    BY <1>0, <1>2, <2>1, PlaceLeft, PlaceKept, AllPlaces DEF Defer
  <2>4. TaskEnd' /\ SenderEnd' /\ \A x \in Conns : End(x)'
    BY <1>0, <1>2, <2>1, <2>2 DEF Defer, TaskEnd, SenderEnd, End
  <2> QED BY <2>3, <2>4, EndsPartsAfter
<1>3. ASSUME NEW c \in Conns, NEW n \in Nat, Send(c, n), at["task"] = "out",
             UNCHANGED <<disconnected, raised, downs, queue, s_pc>>,
             sockets' \in {sockets, sockets \cup {c}}, c \in sockets',
             \A x \in Conns : End(x)'
      PROVE  Ends'
  <2>1. CASE UNCHANGED <<given, m_send, at, on>>
    <3>1. Place("task")' /\ TaskEnd'
      BY <1>0, <1>3, <2>1, PlaceKept, AllPlaces DEF TaskEnd
    <3> QED BY <1>3, <2>1, <3>1, TaskStep
  <2>2. CASE Go("task", "send", c)
    <3>1. /\ at'["task"] = "send" /\ on'["task"] = c
          /\ at'["sender"] = at["sender"] /\ on'["sender"] = on["sender"]
      BY <2>2, TaskGoes, AllPlaces
    <3>2. Place("task")'
      BY <3>1, PlaceMade, AllPlaces
    <3>3. TaskEnd'
      BY <1>3, <3>1 DEF TaskEnd
    <3> QED BY <1>3, <3>1, <3>2, <3>3, TaskStep
  <2> QED BY <1>3, <2>1, <2>2 DEF Send
<1>4. ASSUME NEW c \in Conns, Accept(c) PROVE Ends'
  <2>1. ASSUME NEW x \in Conns PROVE End(x)'
    BY <1>0, <1>4 DEF Accept, End, TypeOK
  <2> QED BY <1>3, <1>4, <2>1 DEF Accept
<1>5. ASSUME NEW c \in Conns, Hello(c) \/ FeaturesReply(c) \/ Serve(c) PROVE Ends'
  <2>1. PICK n \in Nat, from \in {"hello", "features", "up"}, to \in {"features", "barrier", "up"} :
          Answers(c, from, to, n)
    BY <1>5 DEF Hello, FeaturesReply, Serve
  <2>2. ASSUME NEW x \in Conns PROVE End(x)'
    BY <1>0, <2>1 DEF Answers, Reads, End, TypeOK
  <2> QED BY <1>3, <2>1, <2>2 DEF Answers, Reads
<1>6. ASSUME NEW c \in Conns, FinishConnecting(c) PROVE Ends'
  <2>1. ASSUME NEW x \in Conns PROVE End(x)'
    BY <1>0, <1>6 DEF FinishConnecting, Reads, End, TypeOK
  <2>2. Place("task")' /\ TaskEnd'
    BY <1>0, <1>6, PlaceKept, AllPlaces DEF FinishConnecting, TaskEnd
  <2> QED BY <1>6, <2>1, <2>2, TaskStep DEF FinishConnecting
<1>7. ASSUME NEW c \in Conns, NEW place \in Places, Go("task", place, c), c \in sockets,
             m_send' = m_send, UNCHANGED <<sockets, queue, s_pc>>,
             place \in {"send", "defer"} \/ m_send = << >>,
             place \in {"raise", "shut", "close", "drop"} => disconnected'[c],
             place = "raise" => "task" \notin downs'[c],
             place # "out",
             \A x \in Conns : disconnected[x] => disconnected'[x],
             \A x \in Conns : "sender" \in downs'[x] => "sender" \in downs[x],
             \A x \in Conns : End(x)'
      PROVE  Ends'
  <2>1. /\ at'["task"] = place /\ on'["task"] = c
        /\ at'["sender"] = at["sender"] /\ on'["sender"] = on["sender"]
    BY <1>7, TaskGoes
  <2>2. Place("task")'
    BY <1>7, <2>1, PlaceMade, AllPlaces
  <2>3. TaskEnd'
    BY <1>7, <2>1 DEF TaskEnd
  <2> QED BY <1>7, <2>1, <2>2, <2>3, TaskStep
<1>8. ASSUME Leave("task"), UNCHANGED <<queue, s_pc, downs>>, m_send' = << >>,
             \A x \in Conns : disconnected[x] => disconnected'[x],
             \A x \in Conns : End(x)'
      PROVE  Ends'
  <2>1. /\ at'["task"] = "out" /\ on'["task"] = NoCon
        /\ at'["sender"] = at["sender"] /\ on'["sender"] = on["sender"]
    BY <1>8, TaskGoes, AllPlaces DEF Leave
  <2>2. Place("task")' /\ TaskEnd'
    BY <1>8, <2>1, PlaceLeft, AllPlaces DEF TaskEnd
  <2> QED BY <1>8, <2>1, <2>2, TaskStep
<1>9. ASSUME NEW c \in Conns, FailConnecting(c) PROVE Ends'
  <2>1. /\ Go("task", "drop", c) /\ c \in sockets /\ m_send = << >> /\ disconnected'[c]
        /\ \A x \in Conns : disconnected[x] => disconnected'[x]
    BY <1>0, <1>9 DEF FailConnecting, Reads, TaskEnd, Mark, TypeOK
  <2>2. ASSUME NEW x \in Conns PROVE End(x)'
    BY <1>0, <1>9, <2>1 DEF FailConnecting, Reads, End, TypeOK
  <2> QED BY <1>7, <1>9, <2>1, <2>2, AllPlaces DEF FailConnecting
<1>10. ASSUME NEW c \in Conns, Close(c) PROVE Ends'
  <2>1. /\ c \in sockets /\ m_send = << >> /\ disconnected'[c]
        /\ \A x \in Conns : disconnected[x] => disconnected'[x]
    BY <1>0, <1>10, UnlistType DEF Close, Disconnect, Reads, TaskEnd
  <2>2. ASSUME NEW x \in Conns PROVE End(x)'
    BY <1>0, <1>10, <2>1 DEF Close, End
  <2>3. PICK place \in {"raise", "shut"} : Go("task", place, c) /\ (place = "raise" => MustRaise(c))
    BY <1>10 DEF Close, Disconnect
  <2>4. place = "raise" => "task" \notin downs'[c]
    BY <1>0, <1>10, <2>3 DEF Close, MustRaise, End
  <2> QED BY <1>7, <1>10, <2>1, <2>2, <2>3, <2>4, AllPlaces DEF Close
<1>11. ASSUME NEW c \in Conns, PeerGone(c) PROVE Ends'
  BY <1>11 DEF PeerGone, Ends, Waiting, Locked
<1>12. ASSUME NEW c \in Conns, NEW t \in Threads, Raises(t, c)
       PROVE  /\ \A x \in Conns : End(x)' /\ (x # c => downs'[x] = downs[x])
              /\ disconnected[c] /\ downs'[c] = downs[c] \cup {t}
  <2>1. disconnected[c]
    BY <1>0, <1>12, AllPlaces DEF Raises, At, Place
  <2>2. raised'[c] /\ \A x \in Conns : raised[x] => raised'[x]
    BY <1>12 DEF Raises, TypeOK
  <2>3. /\ downs'[c] = downs[c] \cup {t}
        /\ \A x \in Conns : x # c => downs'[x] = downs[x]
    BY <1>12 DEF Raises, TypeOK
  <2>4. \A x \in Conns : End(x)'
    BY <1>0, <1>12, <2>1, <2>2, <2>3 DEF Raises, End
  <2> QED BY <2>1, <2>3, <2>4
<1>13. ASSUME NEW c \in Conns, Shutdown(c), UNCHANGED <<stage, downs, raised, sockets>>,
              \A x \in Conns : disconnected[x] => disconnected'[x],
              NEW x \in Conns
       PROVE  End(x)'
  BY <1>0, <1>13, SockType DEF End
<1>14. ASSUME NEW c \in Conns, TaskGoesOn(c) PROVE Ends'
  <2>0. on["task"] = c /\ at["task"] # "out" /\ c \in sockets
    BY <1>0, <1>14 DEF TaskGoesOn, SendDefers, SendFails, SendWrites, Raises, TaskShuts,
                       Closes, Drops, At, TaskEnd
  <2>1. CASE SendDefers(c)
    <3>1. \A x \in Conns : End(x)'
      BY <1>0, <2>1 DEF SendDefers, End
    <3> QED BY <1>7, <2>0, <2>1, <3>1, AllPlaces DEF SendDefers
  <2>2. CASE SendFails(c)
    <3>1. \A x \in Conns : disconnected[x] => disconnected'[x]
      BY <2>2, UnlistType DEF SendFails
    <3>2. \A x \in Conns : End(x)'
      BY <1>13, <2>2, <3>1 DEF SendFails
    <3> QED BY <1>8, <2>2, <3>1, <3>2 DEF SendFails
  <2>3. ASSUME NEW k \in 0..MaxUnits, SendWrites(c, k) PROVE Ends'
    <3>1. \A x \in Conns : End(x)'
      BY <1>0, <2>3 DEF SendWrites, End
    <3>2. CASE Leave("task") /\ k = Len(m_send)
      <4>1. m_send \in Seq(1..MaxUnits) /\ Len(m_send) \in Nat
        BY LenProperties DEF TypeOK
      <4>2. m_send' = << >>
        BY <2>3, <3>2, <4>1, SubSeqProperties DEF SendWrites
      <4> QED BY <1>8, <2>3, <3>1, <3>2, <4>2 DEF SendWrites
    <3>3. CASE Go("task", "defer", c)
      <4>1. /\ at'["task"] = "defer" /\ on'["task"] = c
            /\ at'["sender"] = at["sender"] /\ on'["sender"] = on["sender"]
        BY <3>3, TaskGoes, AllPlaces
      <4>2. Place("task")' /\ TaskEnd'
        BY <2>0, <2>3, <4>1, PlaceMade, AllPlaces DEF SendWrites, TaskEnd
      <4> QED BY <2>3, <3>1, <4>1, <4>2, TaskStep DEF SendWrites
    <3> QED BY <2>3, <3>2, <3>3 DEF SendWrites
  <2>4. CASE Raises("task", c)
    <3>1. /\ at["task"] = "raise" /\ m_send = << >>
          /\ \A x \in Conns : "sender" \in downs'[x] => "sender" \in downs[x]
      BY <1>0, <1>12, <2>4, AllPlaces DEF Raises, At, TaskEnd
    <3>2. disconnected'[c] /\ \A x \in Conns : End(x)'
      BY <1>12, <2>4, AllPlaces DEF Raises
    <3> QED BY <1>7, <2>0, <2>4, <3>1, <3>2, AllPlaces DEF Raises
  <2>5. CASE TaskShuts(c)
    <3>1. disconnected[c] /\ m_send = << >>
      BY <1>0, <2>5 DEF TaskShuts, At, Place, TaskEnd
    <3>2. \A x \in Conns : End(x)'
      BY <1>13, <2>5 DEF TaskShuts
    <3> QED BY <1>7, <2>0, <2>5, <3>1, <3>2, AllPlaces DEF TaskShuts
  <2>6. CASE Closes(c)
    <3>1. m_send = << >>
      BY <1>0, <2>6 DEF Closes, At, TaskEnd
    <3>2. ASSUME NEW x \in Conns PROVE End(x)'
      BY <1>0, <2>0, <2>6 DEF Closes, End, TypeOK
    <3> QED BY <1>8, <2>6, <3>1, <3>2 DEF Closes
  <2>7. CASE Drops(c)
    <3>1. m_send = << >>
      BY <1>0, <2>7 DEF Drops, At, TaskEnd
    <3>2. \A x \in Conns : End(x)'
      BY <1>13, <2>7 DEF Drops
    <3> QED BY <1>8, <2>7, <3>1, <3>2 DEF Drops
  <2> QED BY <1>14, <2>1, <2>2, <2>3, <2>4, <2>5, <2>6, <2>7 DEF TaskGoesOn
<1>15. ASSUME NEW c \in Conns, Raises("sender", c) PROVE Ends'
  <2>1. /\ at'["sender"] = "shut" /\ on'["sender"] = c
        /\ at'["task"] = at["task"] /\ on'["task"] = on["task"]
    BY <1>15, SenderGoes, AllPlaces DEF Raises
  <2>2. /\ disconnected'[c] /\ \A x \in Conns : End(x)'
        /\ \A x \in Conns : "task" \in downs'[x] => "task" \in downs[x]
    BY <1>12, <1>15, AllPlaces DEF Raises
  <2>3. Place("sender")'
    BY <2>1, <2>2, PlaceMade, AllPlaces
  <2>4. SenderEnd'
    BY <1>0, <1>15, <2>1 DEF Raises, At, SenderEnd
  <2> QED BY <1>15, <2>1, <2>2, <2>3, <2>4, SenderStep DEF Raises
<1>16. ASSUME NEW c \in Conns, SenderShuts(c) PROVE Ends'
  <2>1. /\ at'["sender"] = "out" /\ on'["sender"] = NoCon
        /\ at'["task"] = at["task"] /\ on'["task"] = on["task"]
    BY <1>16, SenderGoes, AllPlaces DEF SenderShuts, Leave
  <2>2. \A x \in Conns : End(x)'
    BY <1>13, <1>16 DEF SenderShuts
  <2>3. Place("sender")' /\ SenderEnd'
    BY <2>1, PlaceLeft, AllPlaces DEF SenderEnd
  <2> QED BY <1>16, <2>1, <2>2, <2>3, SenderStep DEF SenderShuts
<1>17. CASE \/ SenderKeys \/ SenderSelects \/ SenderLoops
            \/ \E ready \in SUBSET s_cons : SenderWakes(ready)
  <2>1. at["sender"] = "out"
    BY <1>0, <1>17 DEF SenderKeys, SenderSelects, SenderLoops, SenderWakes, SenderEnd
  <2>2. UNCHANGED <<conVars, endVars, dataVars, placeVars>>
    BY <1>17 DEF SenderKeys, SenderSelects, SenderLoops, SenderWakes
  <2>3. Place("sender")' /\ SenderEnd' /\ \A x \in Conns : End(x)'
    BY <1>0, <2>1, <2>2 DEF Place, SenderEnd, End
  <2> QED BY <2>2, <2>3, SenderStep
<1>18. ASSUME NEW c \in s_cons, SenderFails(c) PROVE Ends'
  <2>1. c \in Conns /\ queue[c] # << >> /\ s_pc = "serve"
    BY <1>18 DEF SenderFails, Serves, Waiting, TypeOK
  <2>2. PICK place \in {"raise", "shut"} : Go("sender", place, c) /\ (place = "raise" => MustRaise(c))
    BY <1>18 DEF SenderFails, Disconnect
  <2>3. /\ at'["sender"] = place /\ on'["sender"] = c
        /\ at'["task"] = at["task"] /\ on'["task"] = on["task"]
    BY <2>1, <2>2, SenderGoes, AllPlaces
  <2>4. disconnected'[c] /\ \A x \in Conns : disconnected[x] => disconnected'[x]
    BY <1>18, <2>1, UnlistType DEF SenderFails, Disconnect
  <2>5. place = "raise" => "sender" \notin downs'[c]
    BY <1>0, <1>18, <2>1, <2>2 DEF SenderFails, MustRaise, End
  <2>6. Place("sender")'
    BY <2>1, <2>3, <2>4, <2>5, PlaceMade, AllPlaces
  <2>7. SenderEnd'
    BY <1>18, <2>1, <2>3 DEF SenderFails, SenderEnd
  <2>8. \A x \in Conns : End(x)'
    BY <1>0, <1>18, <2>4 DEF SenderFails, End
  <2> QED BY <1>18, <2>3, <2>4, <2>6, <2>7, <2>8, SenderStep DEF SenderFails
<1>19. ASSUME NEW c \in s_cons, NEW k \in 0..MaxUnits, SenderWrites(c, k) PROVE Ends'
  <2>1. at["sender"] = "out"
    BY <1>19 DEF SenderWrites, Serves
  <2>2. /\ Place("sender")' /\ SenderEnd' /\ \A x \in Conns : End(x)'
    BY <1>0, <1>19, <2>1 DEF SenderWrites, Place, SenderEnd, End
  <2> QED BY <1>19, <2>2, SenderStep DEF SenderWrites
<1> QED
  BY <1>1, <1>2, <1>4, <1>5, <1>6, <1>9, <1>10, <1>11, <1>14, <1>15, <1>16, <1>17, <1>18,
     <1>19 DEF Next, Handle, SenderGoesOn, SenderSteps

\* Listed: the table as such, and the connection the task is about to close.
Table ==
    /\ \A d \in Dpids : nexus[d] # NoCon =>
          nexus[d] \in ups /\ Dpid[nexus[d]] = d /\ sock[nexus[d]] # "closed"
    /\ \A c \in ups : stage[c] = "up"
    /\ MissingOnlyToATwin

Closing == at["task"] \in {"raise", "shut", "close"}

Free == Closing => \A d \in Dpids : nexus[d] # NoCon => nexus[d] # on["task"]

LEMMA ListedParts == Listed <=> Table /\ Free
BY DEF Listed, Table, Free, Closing

LEMMA ListedPartsAfter == ASSUME Table', Free' PROVE Listed'
BY DEF Listed, Table, Free, Closing

\* The steps that leave the table alone or take an entry out of it.
LEMMA TableKept ==
    ASSUME TypeOK, Listed, UNCHANGED ups,
           \A x \in ups : stage'[x] = "up",
           \A x \in Conns : Identified(x) => stage'[x] \in {"barrier", "up", "failed"},
           \A x \in Conns : disconnected[x] => disconnected'[x],
           \/ nexus' = nexus
           \/ \E c \in Conns :
                 /\ nexus' = [nexus EXCEPT ![Dpid[c]] = NoCon]
                 /\ stage'[c] \in {"barrier", "up", "failed"} /\ disconnected'[c],
           \A x \in Conns : sock'[x] = "closed" => sock[x] = "closed" \/ nexus'[Dpid[x]] # x
    PROVE  Table' /\ \A d \in Dpids : nexus'[d] = nexus[d] \/ nexus'[d] = NoCon
<1>1. \A d \in Dpids : nexus'[d] = nexus[d] \/ nexus'[d] = NoCon
  BY DEF TypeOK
<1>2. ASSUME NEW d \in Dpids, nexus'[d] # NoCon
      PROVE  nexus'[d] \in ups' /\ Dpid[nexus'[d]] = d /\ sock'[nexus'[d]] # "closed"
  <2>1. nexus'[d] = nexus[d] /\ nexus[d] \in ups /\ Dpid[nexus[d]] = d /\ sock[nexus[d]] # "closed"
    BY <1>1, <1>2 DEF Listed
  <2>2. nexus[d] \in Conns
    BY <2>1 DEF TypeOK
  <2> QED BY <2>1, <2>2
<1>3. ASSUME NEW x \in ups, nexus'[Dpid[x]] # x, ~disconnected'[x]
      PROVE  \E d \in Conns \ {x} : Dpid[d] = Dpid[x] /\ stage'[d] \in {"barrier", "up", "failed"}
  <2>1. x \in Conns /\ Dpid[x] \in Dpids /\ ~disconnected[x]
    BY <1>3, ConstantTypes DEF TypeOK
  <2>2. CASE nexus[Dpid[x]] # x
    <3>1. \E d \in Conns \ {x} : Dpid[d] = Dpid[x] /\ Identified(d)
      BY <2>1, <2>2 DEF Listed, MissingOnlyToATwin
    <3> QED BY <3>1
  <2>3. CASE nexus[Dpid[x]] = x
    <3>1. PICK c \in Conns :
            /\ nexus' = [nexus EXCEPT ![Dpid[c]] = NoCon]
            /\ stage'[c] \in {"barrier", "up", "failed"} /\ disconnected'[c]
      BY <1>3, <2>3
    <3>2. Dpid[x] = Dpid[c]
      BY <1>3, <2>1, <2>3, <3>1 DEF TypeOK
    <3> QED BY <1>3, <3>1, <3>2
  <2> QED BY <2>2, <2>3
<1>4. ASSUME NEW x \in ups, sock'[x] = "closed" PROVE nexus'[Dpid[x]] # x
  <2>1. x \in Conns /\ Dpid[x] \in Dpids
    BY ConstantTypes DEF TypeOK
  <2>2. x # NoCon
    BY <2>1, ConstantTypes
  <2>3. nexus'[Dpid[x]] = x => sock'[x] # "closed"
    BY <1>2, <2>1, <2>2
  <2> QED BY <1>4, <2>3
<1>5. \A x \in ups' : stage'[x] = "up"
  OBVIOUS
<1> QED BY <1>1, <1>2, <1>3, <1>4, <1>5 DEF Table, MissingOnlyToATwin, Identified

\* Steps that touch neither the table nor what it depends on.
LEMMA TableUntouched ==
    ASSUME TypeOK, Listed, UNCHANGED <<ups, nexus>>,
           \A x \in ups : stage'[x] = "up",
           \A x \in Conns : Identified(x) => stage'[x] \in {"barrier", "up", "failed"},
           \A x \in Conns : disconnected[x] => disconnected'[x],
           \A x \in Conns : sock'[x] = "closed" => sock[x] = "closed",
           Closing' => Closing /\ on'["task"] = on["task"]
    PROVE  Listed'
<1>1. Table'
  BY TableKept
<1>2. Free'
  BY DEF Listed, Free, Closing
<1> QED BY <1>1, <1>2, ListedPartsAfter

\* Those of disconnect, which take the connection out.
LEMMA Unlisted ==
    ASSUME TypeOK, Listed, NEW c \in Conns, UNCHANGED <<stage, ups>>, Mark(c), Unlist(c),
           \A x \in Conns : sock'[x] = "closed" => sock[x] = "closed"
    PROVE  /\ Table' /\ \A d \in Dpids : nexus'[d] # NoCon => nexus'[d] # c
           /\ \A d \in Dpids : nexus'[d] = nexus[d] \/ nexus'[d] = NoCon
<1>1. disconnected'[c] /\ \A x \in Conns : disconnected[x] => disconnected'[x]
  BY UnlistType
<1>2. \/ nexus' = nexus /\ ~Known(c)
      \/ /\ nexus' = [nexus EXCEPT ![Dpid[c]] = NoCon]
         /\ stage'[c] \in {"barrier", "up", "failed"} /\ disconnected'[c]
  BY <1>1 DEF Unlist, Known
<1>3. /\ \A x \in ups : stage'[x] = "up"
      /\ \A x \in Conns : Identified(x) => stage'[x] \in {"barrier", "up", "failed"}
  BY DEF Identified, Listed
<1>4. Table' /\ \A d \in Dpids : nexus'[d] = nexus[d] \/ nexus'[d] = NoCon
  BY <1>1, <1>2, <1>3, TableKept
<1>5. ASSUME NEW d \in Dpids, nexus'[d] = c PROVE FALSE
  <2>1. nexus[d] = c /\ c # NoCon
    BY <1>4, <1>5, ConstantTypes
  <2>2. c \in ups /\ Dpid[c] = d
    BY <2>1 DEF Listed
  <2>3. stage[c] = "up"
    BY <2>2 DEF Listed
  <2> QED BY <1>2, <1>5, <2>1, <2>2, <2>3 DEF Known, TypeOK
<1> QED BY <1>4, <1>5

LEMMA ListedStep ==
    ASSUME TypeOK, InOrder, Ends, Listed, [Next]_vars
    PROVE  Listed'
<1> USE DEF conVars, endVars, dataVars, placeVars, loopVars
<1>0. /\ \A x \in ups : stage[x] = "up" /\ x \in Conns
      /\ \A x \in Conns : sock[x] = "none" <=> stage[x] = "none"
  BY DEF Ends, Listed, TypeOK
<1>1. ASSUME UNCHANGED <<stage, ups, nexus>>,
             \A x \in Conns : disconnected[x] => disconnected'[x],
             \A x \in Conns : sock'[x] = "closed" => sock[x] = "closed",
             Closing' => Closing /\ on'["task"] = on["task"]
      PROVE  Listed'
  BY <1>0, <1>1, TableUntouched DEF Identified
<1>2. CASE UNCHANGED vars
  BY <1>1, <1>2 DEF vars, Closing
<1>3. ASSUME Leave("task") PROVE ~Closing'
  BY <1>3, TaskGoes, AllPlaces DEF Leave, Closing
<1>4. ASSUME NEW c \in Conns, Defer(c) PROVE Listed'
  BY <1>1, <1>3, <1>4 DEF Defer
<1>5. ASSUME NEW c \in Conns, NEW n \in Nat, Send(c, n), at["task"] = "out" PROVE ~Closing'
  BY <1>5, TaskGoes, AllPlaces DEF Send, Closing
<1>6. ASSUME NEW c \in Conns, Accept(c) PROVE Listed'
  <2>1. /\ stage[c] = "none" /\ UNCHANGED <<ups, nexus, disconnected>>
        /\ \A x \in Conns \ {c} : stage'[x] = stage[x] /\ sock'[x] = sock[x]
        /\ sock'[c] = "open" /\ ~Closing'
    BY <1>5, <1>6 DEF Accept, TypeOK
  <2>2. c \notin ups /\ ~Identified(c)
    BY <1>0, <2>1 DEF Identified
  <2>3. /\ \A x \in ups : stage'[x] = "up"
        /\ \A x \in Conns : Identified(x) => stage'[x] \in {"barrier", "up", "failed"}
    BY <1>0, <2>1, <2>2 DEF Identified
  <2> QED BY <2>1, <2>3, TableUntouched
<1>7. ASSUME NEW c \in Conns, Hello(c) \/ FeaturesReply(c) \/ Serve(c) PROVE Listed'
  <2>1. ~Closing'
    BY <1>5, <1>7 DEF Hello, FeaturesReply, Serve, Answers, Reads
  <2>2. /\ UNCHANGED <<ups, nexus, disconnected, sock>>
        /\ \A x \in ups : stage'[x] = "up"
        /\ \A x \in Conns : Identified(x) => stage'[x] \in {"barrier", "up", "failed"}
    BY <1>0, <1>7 DEF Hello, FeaturesReply, Serve, Answers, Identified, TypeOK
  <2> QED BY <2>1, <2>2, TableUntouched
<1>8. ASSUME NEW c \in Conns, FinishConnecting(c) PROVE Listed'
  <2>1. /\ stage'[c] = "up" /\ ups' = ups \cup {c} /\ Dpid[c] \in Dpids
        /\ \A x \in Conns \ {c} : stage'[x] = stage[x]
        /\ nexus' = [nexus EXCEPT ![Dpid[c]] = c]
        /\ UNCHANGED <<sock, disconnected>> /\ sock[c] # "closed"
    BY <1>0, <1>8, ConstantTypes DEF FinishConnecting, Reads, Ends, TypeOK
  <2>2. /\ nexus'[Dpid[c]] = c
        /\ \A d \in Dpids \ {Dpid[c]} : nexus'[d] = nexus[d]
    BY <2>1 DEF TypeOK
  <2>3. ASSUME NEW d \in Dpids, nexus'[d] # NoCon
        PROVE  nexus'[d] \in ups' /\ Dpid[nexus'[d]] = d /\ sock'[nexus'[d]] # "closed"
    BY <2>1, <2>2, <2>3 DEF Listed
  <2>4. \A x \in ups' : stage'[x] = "up"
    BY <1>0, <2>1
  <2>5. ASSUME NEW x \in ups', nexus'[Dpid[x]] # x, ~disconnected'[x]
        PROVE  \E d \in Conns \ {x} : Dpid[d] = Dpid[x] /\ stage'[d] \in {"barrier", "up", "failed"}
    <3>1. x # c /\ x \in ups /\ x \in Conns /\ Dpid[x] \in Dpids
      BY <1>0, <2>1, <2>2, <2>5, ConstantTypes
    <3>2. CASE Dpid[x] = Dpid[c]
      BY <2>1, <3>1, <3>2
    <3>3. CASE Dpid[x] # Dpid[c]
      <4>1. \E d \in Conns \ {x} : Dpid[d] = Dpid[x] /\ Identified(d)
        BY <2>1, <2>2, <2>5, <3>1, <3>3 DEF Listed, MissingOnlyToATwin
      <4> QED BY <2>1, <3>3, <4>1 DEF Identified
    <3> QED BY <3>2, <3>3
  <2>6. ASSUME NEW x \in ups', sock'[x] = "closed" PROVE nexus'[Dpid[x]] # x
    <3>1. Dpid[x] \in Dpids /\ x # NoCon
      BY <1>0, <2>1, ConstantTypes
    <3> QED BY <2>3, <2>6, <3>1
  <2>7. Table'
    BY <2>3, <2>4, <2>5, <2>6 DEF Table, MissingOnlyToATwin, Identified
  <2>8. Free'
    BY <1>8 DEF FinishConnecting, Reads, Free, Closing
  <2> QED BY <2>7, <2>8, ListedPartsAfter
<1>9. ASSUME NEW c \in Conns, FailConnecting(c) PROVE Listed'
  <2>1. /\ stage[c] = "barrier" /\ stage'[c] = "failed" /\ UNCHANGED <<ups, nexus, sock>>
        /\ \A x \in Conns \ {c} : stage'[x] = stage[x]
        /\ \A x \in Conns : disconnected[x] => disconnected'[x]
        /\ ~Closing'
    BY <1>9, TaskGoes, AllPlaces DEF FailConnecting, Mark, Closing, TypeOK
  <2>2. c \notin ups
    BY <1>0, <2>1
  <2>3. /\ \A x \in ups : stage'[x] = "up"
        /\ \A x \in Conns : Identified(x) => stage'[x] \in {"barrier", "up", "failed"}
    BY <1>0, <2>1, <2>2 DEF Identified
  <2> QED BY <2>1, <2>3, TableUntouched
<1>10. ASSUME NEW c \in Conns, Close(c) PROVE Listed'
  <2>1. /\ Table' /\ \A d \in Dpids : nexus'[d] # NoCon => nexus'[d] # c
    BY <1>10, Unlisted DEF Close, Disconnect
  <2>2. on'["task"] = c
    <3>1. PICK place \in Places : Go("task", place, c)
      BY <1>10, AllPlaces DEF Close, Disconnect
    <3> QED BY <3>1, TaskGoes
  <2> QED BY <2>1, <2>2, ListedPartsAfter DEF Free
<1>11. ASSUME NEW c \in Conns, PeerGone(c) PROVE Listed'
  BY <1>1, <1>11 DEF PeerGone, Closing
<1>12. ASSUME NEW c \in Conns, TaskGoesOn(c) PROVE Listed'
  <2>1. CASE SendDefers(c)
    <3>1. ~Closing'
      BY <2>1, TaskGoes, AllPlaces DEF SendDefers, Closing
    <3> QED BY <1>1, <2>1, <3>1 DEF SendDefers
  <2>2. ASSUME NEW k \in 0..MaxUnits, SendWrites(c, k) PROVE Listed'
    <3>1. ~Closing'
      BY <1>3, <2>2, TaskGoes, AllPlaces DEF SendWrites, Closing
    <3> QED BY <1>1, <2>2, <3>1 DEF SendWrites
  <2>3. CASE SendFails(c)
    <3>1. \A x \in Conns : sock'[x] = "closed" => sock[x] = "closed"
      BY <2>3, SockType DEF SendFails
    <3>2. Table' /\ ~Closing'
      BY <1>3, <2>3, <3>1, Unlisted DEF SendFails
    <3> QED BY <3>2, ListedPartsAfter DEF Free
  <2>4. CASE Raises("task", c)
    <3>1. Closing /\ on["task"] = c /\ on'["task"] = c
      BY <2>4, TaskGoes, AllPlaces DEF Raises, At, Closing
    <3> QED BY <1>1, <2>4, <3>1 DEF Raises
  <2>5. CASE TaskShuts(c)
    <3>1. Closing /\ on["task"] = c /\ on'["task"] = c
      BY <2>5, TaskGoes, AllPlaces DEF TaskShuts, At, Closing
    <3>2. \A x \in Conns : sock'[x] = "closed" => sock[x] = "closed"
      BY <2>5, SockType DEF TaskShuts
    <3> QED BY <1>1, <2>5, <3>1, <3>2 DEF TaskShuts
  <2>6. CASE Closes(c)
    <3>1. \A d \in Dpids : nexus[d] # NoCon => nexus[d] # c
      BY <2>6, ListedParts DEF Closes, At, Free, Closing
    <3>2. \A x \in Conns : sock'[x] = "closed" => sock[x] = "closed" \/ nexus'[Dpid[x]] # x
      BY <2>6, <3>1, ConstantTypes DEF Closes, TypeOK
    <3>3. /\ \A x \in ups : stage'[x] = "up"
          /\ \A x \in Conns : Identified(x) => stage'[x] \in {"barrier", "up", "failed"}
      BY <1>0, <2>6 DEF Closes, Identified
    <3>4. UNCHANGED <<ups, nexus, disconnected>>
      BY <2>6 DEF Closes
    <3>5. Table' /\ ~Closing'
      BY <1>3, <2>6, <3>2, <3>3, <3>4, TableKept DEF Closes
    <3> QED BY <3>5, ListedPartsAfter DEF Free
  <2>7. CASE Drops(c)
    <3>1. \A x \in Conns : sock'[x] = "closed" => sock[x] = "closed"
      BY <2>7, SockType DEF Drops
    <3> QED BY <1>1, <1>3, <2>7, <3>1 DEF Drops
  <2> QED BY <1>12, <2>1, <2>2, <2>3, <2>4, <2>5, <2>6, <2>7 DEF TaskGoesOn
<1>13. ASSUME NEW c \in Conns, SenderGoesOn(c) PROVE Listed'
  <2>1. CASE Raises("sender", c)
    <3>1. UNCHANGED <<at["task"], on["task"]>>
      BY <2>1, SenderGoes, AllPlaces DEF Raises
    <3> QED BY <1>1, <2>1, <3>1 DEF Raises, Closing
  <2>2. CASE SenderShuts(c)
    <3>1. UNCHANGED <<at["task"], on["task"]>>
      BY <2>2, SenderGoes, AllPlaces DEF SenderShuts, Leave
    <3>2. \A x \in Conns : sock'[x] = "closed" => sock[x] = "closed"
      BY <2>2, SockType DEF SenderShuts
    <3> QED BY <1>1, <2>2, <3>1, <3>2 DEF SenderShuts, Closing
  <2> QED BY <1>13, <2>1, <2>2 DEF SenderGoesOn
<1>14. CASE \/ SenderKeys \/ SenderSelects \/ SenderLoops
            \/ \E ready \in SUBSET s_cons : SenderWakes(ready)
  <2>1. UNCHANGED <<conVars, endVars, placeVars>>
    BY <1>14 DEF SenderKeys, SenderSelects, SenderLoops, SenderWakes
  <2> QED BY <1>1, <2>1 DEF Closing
<1>15. ASSUME NEW c \in s_cons, SenderFails(c) PROVE Listed'
  <2>1. c \in Conns
    BY <1>15 DEF TypeOK
  <2>2. UNCHANGED <<stage, ups, sock>> /\ Mark(c) /\ Unlist(c)
    BY <1>15 DEF SenderFails, Disconnect
  <2>3. Table' /\ \A d \in Dpids : nexus'[d] = nexus[d] \/ nexus'[d] = NoCon
    BY <2>1, <2>2, Unlisted
  <2>4. UNCHANGED <<at["task"], on["task"]>>
    <3>1. PICK place \in Places : Go("sender", place, c)
      BY <1>15, AllPlaces DEF SenderFails, Disconnect
    <3> QED BY <2>1, <3>1, SenderGoes
  <2>5. Free'
    BY <2>3, <2>4, ListedParts DEF Free, Closing
  <2> QED BY <2>3, <2>5, ListedPartsAfter
<1>16. ASSUME NEW c \in s_cons, NEW k \in 0..MaxUnits, SenderWrites(c, k) PROVE Listed'
  BY <1>1, <1>16 DEF SenderWrites, Closing
<1> QED
  BY <1>2, <1>4, <1>6, <1>7, <1>8, <1>9, <1>10, <1>11, <1>12, <1>13, <1>14, <1>15, <1>16
     DEF Next, Handle, SenderSteps


-----------------------------------------------------------------------------
(* Theorems *)

\* IInv is inductive: what the socket took, what waits and what is about to wait
\* make up what was given (InOrder), where the threads are tells how far the
\* connections have ended (Ends), and the table lists connections that finished
\* (Listed).
THEOREM Invariance == Spec => []IInv
<1>1. Init => IInv
  <2> SUFFICES ASSUME Init PROVE IInv
    OBVIOUS
  <2>1. TypeOK
    BY TypeInit
  <2>2. Len(<< >>) = 0 /\ << >> = Units(0, 0)
    BY UnitsLen
  <2>3. InOrder
    <3>1. ASSUME NEW c \in Conns PROVE Chain(c)
      <4>1. wire[c] = << >> /\ given[c] = 0 /\ sock[c] = "none" /\ stage[c] = "none"
            /\ queue[c] = << >> /\ c \notin sockets
        BY DEF Init
      <4>2. on["task"] # c
        BY ConstantTypes, AllPlaces DEF Init
      <4>3. Len(wire[c]) <= given[c]
        BY <2>2, <4>1
      <4>4. Ended(c)
        BY <4>1 DEF Ended, Writable
      <4> QED BY <2>2, <4>1, <4>2, <4>3, <4>4 DEF Chain
    <3> QED BY <3>1 DEF InOrder, Chain
  <2>4. Ends
    <3>1. /\ \A t \in Threads : at[t] = "out" /\ on[t] = NoCon
          /\ \A c \in Conns : downs[c] = {} /\ sock[c] = "none" /\ stage[c] = "none"
          /\ m_send = << >>
      BY DEF Init
    <3> QED BY <3>1, AllPlaces DEF Ends
  <2>5. Listed
    BY DEF Init, Listed, MissingOnlyToATwin
  <2>6. WaitingMeansSending
    BY DEF Init, WaitingMeansSending, Waiting
  <2> QED BY <2>1, <2>3, <2>4, <2>5, <2>6 DEF IInv
<1>2. IInv /\ [Next]_vars => IInv'
  BY TypeStep, WaitingStep, InOrderStep, EndsStep, ListedStep DEF IInv
<1> QED BY <1>1, <1>2, PTL DEF Spec

\* Every variable keeps its type, whatever the switches and the threads do.
THEOREM ChannelTypeCorrect == Spec => []TypeOK
<1>1. IInv => TypeOK
  BY DEF IInv
<1> QED BY <1>1, Invariance, PTL

\* The task never bypasses data that waits in the deferred sender.
THEOREM NoBypassing == Spec => []WaitingMeansSending
<1>1. IInv => WaitingMeansSending
  BY DEF IInv
<1> QED BY <1>1, Invariance, PTL

\* A connected switch is in the table unless a twin has taken its place.
THEOREM TableIsRight == Spec => []MissingOnlyToATwin
<1>1. IInv => MissingOnlyToATwin
  BY DEF IInv, Listed
<1> QED BY <1>1, Invariance, PTL

\* The steps that send, and those that leave what was given alone.
LEMMA GivenStep ==
    ASSUME [Next]_vars
    PROVE  UNCHANGED given \/ \E c \in Conns, n \in Nat : Send(c, n)
<1> USE DEF conVars, endVars, dataVars, placeVars, loopVars
<1>1. ASSUME NEW c \in Conns, Accept(c) PROVE Send(c, 1)
  BY <1>1 DEF Accept
<1>2. ASSUME NEW c \in Conns, Handle(c) PROVE UNCHANGED given \/ \E n \in Nat : Send(c, n)
  BY <1>2 DEF Handle, Hello, FeaturesReply, Serve, Answers, FinishConnecting, FailConnecting
<1>3. ASSUME NEW c \in Conns, \/ TaskGoesOn(c) \/ Defer(c) \/ SenderGoesOn(c)
                              \/ Close(c) \/ PeerGone(c)
      PROVE  UNCHANGED given
  BY <1>3 DEF TaskGoesOn, SendDefers, SendFails, SendWrites, Raises, TaskShuts, Closes,
              Drops, Defer, SenderGoesOn, SenderShuts, Close, PeerGone
<1>4. SenderSteps \/ UNCHANGED vars => UNCHANGED given
  BY DEF SenderSteps, SenderKeys, SenderSelects, SenderLoops, SenderWakes, SenderFails,
         SenderWrites, vars
<1> QED BY <1>1, <1>2, <1>3, <1>4 DEF Next

\* Once a ConnectionDown has been raised con.send refuses the connection, and the
\* thread that raised it does not raise it again, wherever the other one is.
THEOREM DownsAreFinal == Spec => DownIsFinal
<1>1. ASSUME IInv, [Next]_vars
      PROVE  \A c \in Conns : downs[c] # {} =>
                /\ UNCHANGED given[c]
                /\ \A t \in downs[c] : ~Raises(t, c)
  <2> SUFFICES ASSUME NEW c \in Conns, downs[c] # {}
               PROVE  UNCHANGED given[c] /\ \A t \in downs[c] : ~Raises(t, c)
    OBVIOUS
  <2>1. TypeOK /\ Ends /\ disconnected[c]
    BY <1>1 DEF IInv, Ends
  <2>2. ASSUME NEW x \in Conns, NEW n \in Nat, Send(x, n) PROVE UNCHANGED given[c]
    <3>1. x = c => given' = given
      BY <2>1, <2>2 DEF Send
    <3>2. x # c => given'[c] = given[c]
      BY <2>1, <2>2 DEF Send, TypeOK
    <3> QED BY <3>1, <3>2
  <2>3. UNCHANGED given[c]
    BY <1>1, <2>2, GivenStep
  <2>4. ASSUME NEW t \in downs[c], Raises(t, c) PROVE FALSE
    <3>1. t \in Threads
      BY <2>1 DEF TypeOK, Threads
    <3>2. at[t] = "raise" /\ on[t] = c
      BY <2>4 DEF Raises, At
    <3> QED BY <2>1, <3>1, <3>2 DEF Ends
  <2> QED BY <2>3, <2>4
<1> QED BY <1>1, Invariance, PTL DEF Spec, DownIsFinal

LEMMA LongerCat ==
    ASSUME NEW S, NEW s \in Seq(S), NEW t \in Seq(S)
    PROVE  Len(s) <= Len(s \o t)
<1>1. Len(s) \in Nat /\ Len(t) \in Nat /\ Len(s \o t) = Len(s) + Len(t)
  BY LenProperties, ConcatProperties
<1> QED BY <1>1

\* What one step of Next may do to what a connection was given and has sent.
LEMMA DataStep ==
    ASSUME IInv, [Next]_vars
    PROVE  \/ UNCHANGED <<given, wire>>
           \/ \E c \in Conns :
                 /\ \A x \in Conns \ {c} : UNCHANGED <<given[x], wire[x]>>
                 /\ given[c] <= given'[c] /\ Len(wire[c]) <= Len(wire'[c])
<1> USE DEF conVars, endVars, dataVars, placeVars, loopVars
<1> DEFINE Moves(c) == /\ \A x \in Conns \ {c} : UNCHANGED <<given[x], wire[x]>>
                       /\ given[c] <= given'[c] /\ Len(wire[c]) <= Len(wire'[c])
<1>0. TypeOK
  BY DEF IInv
<1>1. ASSUME NEW c \in Conns, NEW n \in Nat, Send(c, n), wire' = wire PROVE Moves(c)
  <2>1. given[c] \in Nat /\ Len(wire[c]) \in Nat
    BY <1>0, TypesAt
  <2>2. given' = given \/ given' = [given EXCEPT ![c] = @ + n]
    BY <1>1 DEF Send
  <2>3. \A x \in Conns \ {c} : UNCHANGED <<given[x], wire[x]>>
    BY <1>0, <1>1, <2>2 DEF TypeOK
  <2>4. given'[c] = given[c] \/ given'[c] = given[c] + n
    BY <1>0, <2>2 DEF TypeOK
  <2> QED BY <1>1, <2>1, <2>3, <2>4
<1>2. ASSUME NEW c \in Conns, NEW s \in Seq(1..MaxUnits), Transmit(c, s), given' = given
      PROVE  Moves(c)
  <2>1. given[c] \in Nat /\ Len(wire[c]) \in Nat /\ wire[c] \in Seq(1..MaxUnits)
    BY <1>0, TypesAt
  <2>2. /\ wire'[c] = wire[c] \/ wire'[c] = wire[c] \o s
        /\ \A x \in Conns \ {c} : wire'[x] = wire[x]
    BY <1>0, <1>2, TransmitType
  <2>3. Len(wire[c]) <= Len(wire'[c])
    <3>1. Len(wire[c]) <= Len(wire[c] \o s)
      BY <2>1, LongerCat
    <3> QED BY <2>1, <2>2, <3>1
  <2> QED BY <1>2, <2>1, <2>2, <2>3
<1> HIDE DEF Moves
<1>3. ASSUME NEW c \in Conns, Accept(c) PROVE Moves(c)
  BY <1>1, <1>3 DEF Accept
<1>4. ASSUME NEW c \in Conns, Handle(c) PROVE UNCHANGED <<given, wire>> \/ Moves(c)
  BY <1>1, <1>4 DEF Handle, Hello, FeaturesReply, Serve, Answers, FinishConnecting, FailConnecting
<1>5. ASSUME NEW c \in Conns, NEW k \in 0..MaxUnits, SendWrites(c, k) PROVE Moves(c)
  <2>1. m_send \in Seq(1..MaxUnits) /\ k \in Nat /\ k <= Len(m_send)
    BY <1>0, <1>5, ConstantTypes DEF SendWrites, TypeOK
  <2>2. SubSeq(m_send, 1, k) \in Seq(1..MaxUnits)
    BY <2>1, SubSeqProperties, ConstantTypes
  <2> QED BY <1>2, <1>5, <2>2 DEF SendWrites
<1>6. ASSUME NEW c \in s_cons, NEW k \in 0..MaxUnits, SenderWrites(c, k)
      PROVE  c \in Conns /\ Moves(c)
  <2>1. c \in Conns /\ queue[c] \in Seq(1..MaxUnits) /\ k \in Nat /\ k <= Len(queue[c])
    BY <1>0, <1>6, ConstantTypes DEF SenderWrites, TypeOK
  <2>2. SubSeq(queue[c], 1, k) \in Seq(1..MaxUnits)
    BY <2>1, SubSeqProperties, ConstantTypes
  <2> QED BY <1>2, <1>6, <2>1, <2>2 DEF SenderWrites
<1>7. ASSUME NEW c \in Conns, \/ SendDefers(c) \/ SendFails(c)
                              \/ Raises("task", c) \/ TaskShuts(c) \/ Closes(c) \/ Drops(c)
                              \/ Defer(c) \/ SenderGoesOn(c) \/ Close(c) \/ PeerGone(c)
      PROVE  UNCHANGED <<given, wire>>
  BY <1>7 DEF SendDefers, SendFails, Raises, TaskShuts, Closes, Drops, Defer, SenderGoesOn,
              SenderShuts, Close, PeerGone
<1>8. ASSUME \/ SenderKeys \/ SenderSelects \/ SenderLoops \/ UNCHANGED vars
             \/ \E ready \in SUBSET s_cons : SenderWakes(ready)
             \/ \E c \in s_cons : SenderFails(c)
      PROVE  UNCHANGED <<given, wire>>
  BY <1>8 DEF SenderKeys, SenderSelects, SenderLoops, SenderWakes, SenderFails, vars
<1>9. UNCHANGED <<given, wire>> \/ \E c \in Conns : Moves(c)
  BY <1>3, <1>4, <1>5, <1>6, <1>7, <1>8 DEF Next, TaskGoesOn, SenderSteps
<1> QED BY <1>9 DEF Moves

\* Every step gives one connection data, or puts some of it on the wire, in
\* order, or neither: the sender thread and the task together are a FIFO.
THEOREM ChannelIsOrdered == Spec => ImplementsOrderedChannel
<1> USE DEF Ordered!vars
<1>1. Init => Ordered!Init
  BY DEF Init, Ordered!Init
<1>2. ASSUME IInv, IInv', [Next]_vars PROVE [Ordered!Next]_(Ordered!vars)
  <2>1. CASE UNCHANGED <<given, wire>>
    BY <2>1
  <2>2. ASSUME NEW c \in Conns,
               \A x \in Conns \ {c} : UNCHANGED <<given[x], wire[x]>>,
               given[c] <= given'[c], Len(wire[c]) <= Len(wire'[c])
        PROVE  Ordered!Next
    <3>1. TypeOK /\ TypeOK' /\ InOrder'
      BY <1>2 DEF IInv
    <3>2. given' = [given EXCEPT ![c] = given'[c]]
      BY <2>2, <3>1 DEF TypeOK
    <3>3. wire'[c] = Units(0, Len(wire'[c])) /\ Len(wire'[c]) <= given'[c]
      BY <3>1 DEF InOrder
    <3>4. Units(0, Len(wire'[c])) = Ordered!FirstUnits(Len(wire'[c]))
      <4>1. wire'[c] \in Seq(1..MaxUnits)
        BY <3>1 DEF TypeOK
      <4> QED BY <4>1, SMT DEF Units, Ordered!FirstUnits
    <3>5. wire' = [wire EXCEPT ![c] = Ordered!FirstUnits(Len(wire'[c]))]
      BY <2>2, <3>1, <3>3, <3>4 DEF TypeOK
    <3>6. Ordered!Move(c, given'[c], Len(wire'[c]))
      BY <2>2, <3>2, <3>3, <3>5 DEF Ordered!Move
    <3> QED BY <3>6 DEF Ordered!Next
  <2> QED BY <1>2, <2>1, <2>2, DataStep
<1> QED BY <1>1, <1>2, Invariance, PTL DEF Spec, ImplementsOrderedChannel, Ordered!Spec
=============================================================================
