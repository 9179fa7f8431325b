------------------------ MODULE DirectSwitch_proofs ------------------------
(***************************************************************************)
(* Proofs about DirectSwitch, for any hosts, ports, timeouts and bounds:   *)
(* IInv is inductive, and the bounds on how long what was learnt may be    *)
(* wrong follow from it.                                                   *)
(***************************************************************************)
EXTENDS DirectSwitch, TLAPS

\* What the handler may send for a packet, given ports that are known.
LEMMA AnswerFacts ==
    ASSUME NEW p \in PacketIns, NEW known \in [Hosts -> OutPort]
    PROVE  /\ Answer(p, known) \in Floods \cup Discards \cup FlowMods
           /\ Answer(p, known).src = p.src
           /\ Answer(p, known).do = "add" =>
                /\ Answer(p, known).dst \in Hosts
                /\ Answer(p, known).out \in {Nowhere, known[Answer(p, known).dst]}
<1> DEFINE a == Answer(p, known)
<1>1. a = Discard(p) \/ a = Flood(p)
        \/ (p.dst \in Hosts /\ a = DropFor(p))
        \/ (p.dst \in Hosts /\ known[p.dst] # Unknown /\ known[p.dst] # p.port
              /\ a = ForwardTo(p, known[p.dst]))
  BY AddressAssumption DEF Answer, LinkLocal, PacketIns, Dests
<1>2. CASE a = Discard(p)
  BY <1>2 DEF Discard, Discards, PacketIns
<1>3. CASE a = Flood(p)
  BY <1>3 DEF Flood, Floods, PacketIns
<1>4. CASE p.dst \in Hosts /\ a = DropFor(p)
  BY <1>4 DEF DropFor, FlowMods, PacketIns, Ways, OutPort, Nowhere, AnyPort
<1>5. CASE p.dst \in Hosts /\ known[p.dst] # Unknown /\ known[p.dst] # p.port
             /\ a = ForwardTo(p, known[p.dst])
  BY <1>5 DEF ForwardTo, FlowMods, PacketIns, Ways, OutPort, Nowhere
<1> QED BY <1>1, <1>2, <1>3, <1>4, <1>5

\* Types of what the switch works on.
LEMMA EntryFacts ==
    ASSUME TypeOK, NEW e \in table
    PROVE  /\ e \in [src : Hosts, dst : Hosts, inp : OutPort, out : OutPort, age : 0 .. Hard - 1, quiet : Nat]
           /\ e.src \in Hosts /\ e.dst \in Hosts /\ e.age \in 0 .. Hard - 1 /\ e.quiet \in Nat
           /\ <<e.inp, e.out>> \in Ways
BY DEF TypeOK, Entries

LEMMA AgeFacts ==
    ASSUME TypeOK, NEW e \in table
    PROVE  e.src \in Hosts /\ e.dst \in Hosts /\ e.age \in Nat /\ e.age \in Int /\ e.age < Hard
<1>1. e.src \in Hosts /\ e.dst \in Hosts /\ e.age \in 0 .. Hard - 1
  BY EntryFacts
<1> QED BY <1>1, TimeoutsAssumption

LEMMA ModFacts ==
    ASSUME TypeOK, NEW i \in DOMAIN toSw, toSw[i].do = "add"
    PROVE  toSw[i] \in FlowMods /\ toSw[i].src \in Hosts /\ toSw[i].dst \in Hosts
<1>1. toSw[i] \in Floods \cup Discards \cup FlowMods
  BY DEF TypeOK
<1> QED BY <1>1 DEF Floods, Discards, FlowMods

\* The ghosts are numbers of ticks.
LEMMA GhostFacts ==
    ASSUME TypeOK, NEW h \in Hosts
    PROVE  /\ right[h] \in 0 .. Hard /\ settled[h] \in 0 .. Hard
           /\ right[h] \in Int /\ settled[h] \in Int /\ Hard \in Nat /\ Hard > 0
BY TimeoutsAssumption DEF TypeOK

LEMMA PacketFacts ==
    ASSUME TypeOK, NEW i \in DOMAIN toCtl
    PROVE  toCtl[i] \in PacketIns /\ toCtl[i].src \in Hosts /\ toCtl[i].port \in Ports
<1>1. toCtl[i] \in PacketIns
  BY DEF TypeOK
<1> QED BY <1>1 DEF PacketIns

\* An entry that is installed is the new one or was there.
LEMMA InstalledFacts ==
    ASSUME TypeOK, NEW m \in FlowMods, NEW e \in Installed(m)
    PROVE  \/ e \in table
           \/ /\ e.src = m.src /\ e.dst = m.dst /\ e.out = m.out /\ e.age = 0
              /\ e \in Entries
BY TimeoutsAssumption DEF Installed, FlowMods, Entries, OutPort

\* An entry a tick later was there before, one tick younger.
LEMMA AgedFacts ==
    ASSUME TypeOK, NEW e \in Aged
    PROVE  /\ e \in Entries
           /\ \E x \in table : e.src = x.src /\ e.dst = x.dst /\ e.out = x.out /\ e.age = x.age + 1
<1>1. PICK x \in table : e = [x EXCEPT !.age = @ + 1, !.quiet = @ + 1]
  BY DEF Aged, Older
<1>2. /\ e.src = x.src /\ e.dst = x.dst /\ e.out = x.out /\ e.age = x.age + 1
      /\ e.inp = x.inp /\ e.quiet = x.quiet + 1
  BY <1>1, EntryFacts
<1>3. e.age < Hard
  <2>1. e.age < HardLimit(e)
    BY DEF Aged
  <2>2. x.age \in Nat
    BY AgeFacts
  <2> QED BY <2>1, <2>2, <1>2, TimeoutsAssumption DEF HardLimit
<1>a. x.age \in 0 .. Hard - 1 /\ x.quiet \in Nat
  BY EntryFacts
<1>b. x.age + 1 \in 0 .. Hard - 1 /\ x.quiet + 1 \in Nat
  BY <1>a, <1>2, <1>3, TimeoutsAssumption
<1>4. e \in [src : Hosts, dst : Hosts, inp : OutPort, out : OutPort, age : 0 .. Hard - 1, quiet : Nat]
  BY <1>1, <1>b, EntryFacts
<1> QED BY <1>2, <1>4, EntryFacts DEF Entries

LEMMA InitIInv == Init => IInv
<1> SUFFICES ASSUME Init PROVE IInv
  OBVIOUS
<1>1. TypeOK
  <2>1. macToPort \in [Hosts -> OutPort]
    BY DEF Init, OutPort, Nowhere
  <2>2. toCtl \in Seq(PacketIns) /\ toSw \in Seq(Floods \cup Discards \cup FlowMods)
    BY DEF Init
  <2>3. right \in [Hosts -> 0 .. Hard] /\ settled \in [Hosts -> 0 .. Hard]
    BY TimeoutsAssumption DEF Init
  <2> QED BY <2>1, <2>2, <2>3, BoundsAssumption DEF Init, TypeOK
<1>2. RightIsRight /\ WrongIsOld /\ OldHomesAreFresh /\ HiddenIsOld /\ SpokenIsHeard
  BY DEF Init, RightIsRight, WrongIsOld, OldHomesAreFresh, HiddenIsOld, SpokenIsHeard
<1> QED BY <1>1, <1>2 DEF IInv

-----------------------------------------------------------------------------
(* One lemma per action. *)

LEMMA SendStep ==
    ASSUME IInv, NEW h \in Hosts, NEW d \in Dests, Send(h, d)
    PROVE  IInv'
<1> USE DEF net, ctl
<1>1. CASE \E e \in table :
             /\ Matches(e, h, d, at[h])
             /\ table' = (table \ {e}) \cup {[e EXCEPT !.quiet = 0]}
             /\ got' = got \cup Reaches(h, d, {at[h]} \cup ({e.out} \ {Nowhere}))
             /\ UNCHANGED toCtl
  <2>1. PICK e \in table :
             /\ Matches(e, h, d, at[h])
             /\ table' = (table \ {e}) \cup {[e EXCEPT !.quiet = 0]}
             /\ got' = got \cup Reaches(h, d, {at[h]} \cup ({e.out} \ {Nowhere}))
             /\ UNCHANGED toCtl
    BY <1>1
  <2> DEFINE q == [e EXCEPT !.quiet = 0]
  <2>2. q \in Entries /\ q.src = e.src /\ q.dst = e.dst /\ q.out = e.out /\ q.age = e.age
    BY EntryFacts DEF IInv, Entries
  <2>3. got' \subseteq Hosts \X Hosts
    BY <2>1 DEF IInv, TypeOK, Reaches
  <2>4. TypeOK'
    <3>1. table' \subseteq Entries
      BY <2>1, <2>2 DEF IInv, TypeOK
    <3>2. sent' \subseteq Hosts \X Dests /\ spoke' \subseteq Hosts
      BY DEF IInv, TypeOK, Send
    <3> QED BY <2>1, <2>3, <3>1, <3>2 DEF IInv, TypeOK, Send
  <2>5. RightIsRight' /\ OldHomesAreFresh'
    BY <2>1 DEF IInv, RightIsRight, OldHomesAreFresh, Send
  <2>6. WrongIsOld' /\ HiddenIsOld'
    <3>1. /\ UNCHANGED <<at, macToPort, right, settled, toSw>>
          /\ table' = (table \ {e}) \cup {q}
      BY <2>1 DEF Send
    <3>2. \A x \in table' : \E y \in table :
             x.src = y.src /\ x.dst = y.dst /\ x.out = y.out /\ x.age = y.age
      BY <2>2, <3>1
    <3>3. WrongIsOld'
      BY <3>1, <3>2 DEF IInv, WrongIsOld
    <3>4. HiddenIsOld'
      BY <3>1, <3>2 DEF IInv, HiddenIsOld
    <3> QED BY <3>3, <3>4
  <2>7. settled[h] = Hard => macToPort[h] = at[h]
    <3>1. e.src = h /\ e.age \in 0 .. Hard - 1 /\ Hard \in Nat
      BY <2>1, EntryFacts, TimeoutsAssumption DEF IInv, Matches
    <3>2. macToPort[h] = at[h] \/ settled[h] <= e.age
      BY <3>1 DEF IInv, HiddenIsOld
    <3> QED BY <3>1, <3>2
  <2>8. SpokenIsHeard'
    BY <2>1, <2>7 DEF IInv, SpokenIsHeard, Send
  <2> QED BY <2>4, <2>5, <2>6, <2>8 DEF IInv
<1>2. CASE /\ toCtl' = Append(toCtl, [src |-> h, dst |-> d, port |-> at[h]])
           /\ got' = got \cup Reaches(h, d, {at[h]})
           /\ UNCHANGED table
  <2> DEFINE p == [src |-> h, dst |-> d, port |-> at[h]]
  <2>1. p \in PacketIns
    BY DEF PacketIns, IInv, TypeOK
  <2>2. got' \subseteq Hosts \X Hosts
    BY <1>2 DEF IInv, TypeOK, Reaches
  <2>3. TypeOK'
    <3>1. toCtl' \in Seq(PacketIns)
      BY <1>2, <2>1 DEF IInv, TypeOK
    <3>2. sent' \subseteq Hosts \X Dests /\ spoke' \subseteq Hosts
      BY DEF IInv, TypeOK, Send
    <3> QED BY <1>2, <2>2, <3>1, <3>2 DEF IInv, TypeOK, Send
  <2>4. RightIsRight' /\ WrongIsOld' /\ HiddenIsOld'
    BY <1>2 DEF IInv, RightIsRight, WrongIsOld, HiddenIsOld, Send
  <2>5. /\ toCtl \in Seq(PacketIns)
        /\ DOMAIN toCtl' = 1 .. Len(toCtl) + 1
        /\ \A i \in DOMAIN toCtl : i \in DOMAIN toCtl' /\ toCtl'[i] = toCtl[i]
        /\ toCtl'[Len(toCtl) + 1] = p
        /\ \A i \in DOMAIN toCtl' : i \in DOMAIN toCtl \/ i = Len(toCtl) + 1
    BY <1>2, <2>1 DEF IInv, TypeOK
  <2>6. OldHomesAreFresh'
    BY <2>5 DEF IInv, OldHomesAreFresh, Send
  <2>7. SpokenIsHeard'
    <3> SUFFICES ASSUME NEW g \in spoke'
                 PROVE  /\ settled'[g] = Hard
                        /\ macToPort'[g] = at'[g] \/ \E i \in DOMAIN toCtl' : toCtl'[i].src = g
      BY DEF SpokenIsHeard
    <3>1. CASE g = h
      <4>1. Len(toCtl) + 1 \in DOMAIN toCtl' /\ toCtl'[Len(toCtl) + 1].src = h
        BY <2>5
      <4>2. settled[h] = Hard
        BY <3>1 DEF Send, IInv, SpokenIsHeard
      <4> QED BY <3>1, <4>1, <4>2 DEF Send
    <3>2. CASE g # h
      <4>1. g \in spoke
        BY <3>2 DEF Send
      <4> QED BY <4>1, <2>5 DEF IInv, SpokenIsHeard, Send
    <3> QED BY <3>1, <3>2
  <2> QED BY <2>3, <2>4, <2>6, <2>7 DEF IInv
<1> QED BY <1>1, <1>2 DEF Send

LEMMA MoveStep ==
    ASSUME IInv, NEW h \in Hosts, NEW p \in Ports, Move(h, p)
    PROVE  IInv'
<1> USE DEF net, ctl
<1>1. TypeOK'
  BY BoundsAssumption, TimeoutsAssumption DEF IInv, TypeOK, Move
<1>2. /\ right' \in [Hosts -> 0 .. Hard] /\ right'[h] = 0 /\ settled'[h] = 0 /\ at'[h] = p
      /\ \A g \in Hosts \ {h} : right'[g] = right[g] /\ settled'[g] = settled[g] /\ at'[g] = at[g]
  BY <1>1 DEF IInv, TypeOK, Move
<1>3. RightIsRight'
  BY <1>2 DEF IInv, RightIsRight, Move
<1>4. WrongIsOld'
  <2>1. \A e \in table : e.out \notin {Nowhere, at'[e.dst]} => right'[e.dst] <= e.age
    <3> SUFFICES ASSUME NEW e \in table, e.out \notin {Nowhere, at'[e.dst]} PROVE right'[e.dst] <= e.age
      OBVIOUS
    <3>1. e.dst \in Hosts /\ e.age \in Nat
      BY AgeFacts DEF IInv
    <3>2. CASE e.dst = h
      BY <1>2, <3>1, <3>2
    <3>3. CASE e.dst # h
      BY <1>2, <3>1, <3>3 DEF IInv, WrongIsOld
    <3> QED BY <3>2, <3>3
  <2>2. \A i \in DOMAIN toSw :
          toSw[i].do = "add" /\ toSw[i].out \notin {Nowhere, at'[toSw[i].dst]} => right'[toSw[i].dst] = 0
    BY <1>2, ModFacts DEF IInv, WrongIsOld
  <2> QED BY <2>1, <2>2 DEF WrongIsOld, Move
<1>5. OldHomesAreFresh'
  BY <1>2, PacketFacts DEF IInv, OldHomesAreFresh, Move
<1>6. HiddenIsOld'
  <2>1. \A e \in table : macToPort[e.src] = at'[e.src] \/ settled'[e.src] <= e.age
    <3> SUFFICES ASSUME NEW e \in table PROVE macToPort[e.src] = at'[e.src] \/ settled'[e.src] <= e.age
      OBVIOUS
    <3>1. e.src \in Hosts /\ e.age \in Nat
      BY AgeFacts DEF IInv
    <3>2. CASE e.src = h
      BY <1>2, <3>1, <3>2
    <3>3. CASE e.src # h
      BY <1>2, <3>1, <3>3 DEF IInv, HiddenIsOld
    <3> QED BY <3>2, <3>3
  <2>2. \A i \in DOMAIN toSw :
          toSw[i].do = "add" => macToPort[toSw[i].src] = at'[toSw[i].src] \/ settled'[toSw[i].src] = 0
    BY <1>2, ModFacts DEF IInv, HiddenIsOld
  <2> QED BY <2>1, <2>2 DEF HiddenIsOld, Move
<1>7. SpokenIsHeard'
  BY <1>2 DEF IInv, TypeOK, SpokenIsHeard, Move
<1> QED BY <1>1, <1>3, <1>4, <1>5, <1>6, <1>7 DEF IInv

LEMMA ApplyStep == ASSUME IInv, Apply PROVE IInv'
<1> USE DEF net, ctl
<1> DEFINE m == Head(toSw)
<1>1. /\ toSw \in Seq(Floods \cup Discards \cup FlowMods) /\ toSw # <<>>
      /\ m = toSw[1] /\ 1 \in DOMAIN toSw
      /\ toSw' = Tail(toSw)
  BY DEF IInv, TypeOK, Apply
<1>2. /\ toSw' \in Seq(Floods \cup Discards \cup FlowMods)
      /\ \A i \in DOMAIN toSw' : i + 1 \in DOMAIN toSw /\ toSw'[i] = toSw[i + 1]
  BY <1>1
<1>3. \/ table' = table
      \/ m.do = "add" /\ table' = Installed(m)
  BY DEF Apply
<1>4. m.do = "add" => m \in FlowMods /\ m.src \in Hosts /\ m.dst \in Hosts
  BY <1>1, ModFacts DEF IInv
<1>5. m.src \in Hosts
  <2>1. m \in Floods \cup Discards \cup FlowMods
    BY <1>1
  <2> QED BY <2>1 DEF Floods, Discards, FlowMods
<1>6. got' \subseteq Hosts \X Hosts
  <2>1. \A outs : Reaches(m.src, m.dst, outs) \subseteq Hosts \X Hosts
    BY <1>5 DEF Reaches
  <2>2. got' = got \/ \E outs : got' = got \cup Reaches(m.src, m.dst, outs)
    BY DEF Apply
  <2> QED BY <2>1, <2>2 DEF IInv, TypeOK
<1>7. \A e \in table' :
         \/ e \in table
         \/ /\ m.do = "add" /\ e.src = m.src /\ e.dst = m.dst /\ e.out = m.out /\ e.age = 0
            /\ e \in Entries
  BY <1>3, <1>4, InstalledFacts DEF IInv
<1>8. TypeOK'
  BY <1>2, <1>6, <1>7 DEF IInv, TypeOK, Apply
<1>9. RightIsRight' /\ OldHomesAreFresh' /\ SpokenIsHeard'
  BY DEF IInv, RightIsRight, OldHomesAreFresh, SpokenIsHeard, Apply
<1>10. WrongIsOld'
  <2>1. \A e \in table' : e.out \notin {Nowhere, at[e.dst]} => right[e.dst] <= e.age
    BY <1>1, <1>4, <1>7 DEF IInv, WrongIsOld
  <2> QED BY <1>2, <2>1 DEF IInv, WrongIsOld, Apply
<1>11. HiddenIsOld'
  <2>1. \A e \in table' : macToPort[e.src] = at[e.src] \/ settled[e.src] <= e.age
    BY <1>1, <1>4, <1>7 DEF IInv, HiddenIsOld
  <2> QED BY <1>2, <2>1 DEF IInv, HiddenIsOld, Apply
<1> QED BY <1>8, <1>9, <1>10, <1>11 DEF IInv

LEMMA TickStep == ASSUME IInv, Tick PROVE IInv'
<1> USE DEF net, ctl
<1>1. \A n \in 0 .. Hard : UpTo(n) \in 0 .. Hard /\ UpTo(n) <= n + 1 /\ UpTo(Hard) = Hard
  BY TimeoutsAssumption DEF UpTo
<1>2. /\ \A h \in Hosts : settled[h] \in 0 .. Hard /\ right[h] \in 0 .. Hard
      /\ \A h \in Hosts : settled'[h] = UpTo(settled[h])
      /\ \A h \in Hosts : right'[h] <= right[h] + 1 /\ right'[h] \in 0 .. Hard
      /\ \A h \in Hosts : macToPort[h] # at[h] => right'[h] = 0
  <2>1. \A h \in Hosts : settled[h] \in 0 .. Hard /\ right[h] \in 0 .. Hard
    BY GhostFacts DEF IInv
  <2>2. \A h \in Hosts : right'[h] = IF macToPort[h] = at[h] THEN UpTo(right[h]) ELSE 0
    BY DEF Tick
  <2>3. \A h \in Hosts : settled'[h] = UpTo(settled[h])
    BY DEF Tick
  <2> QED BY <1>1, <2>1, <2>2, <2>3, TimeoutsAssumption
<1>3. table' \subseteq Entries
  BY AgedFacts DEF IInv, Tick
<1>4. TypeOK'
  <2>1. settled' \in [Hosts -> 0 .. Hard] /\ right' \in [Hosts -> 0 .. Hard]
    BY <1>1, <1>2 DEF Tick
  <2> QED BY <1>3, <2>1 DEF IInv, TypeOK, Tick
<1>5. RightIsRight'
  BY <1>2 DEF RightIsRight, Tick
<1>6. toCtl' = <<>> /\ toSw' = <<>> /\ DOMAIN toCtl' = {} /\ DOMAIN toSw' = {}
  BY DEF Tick
<1>7. WrongIsOld'
  <2>1. ASSUME NEW e \in table', e.out \notin {Nowhere, at[e.dst]} PROVE right'[e.dst] <= e.age
    <3>1. PICK x \in table : e.src = x.src /\ e.dst = x.dst /\ e.out = x.out /\ e.age = x.age + 1
      BY AgedFacts DEF IInv, Tick
    <3>2. right[x.dst] <= x.age
      BY <2>1, <3>1 DEF IInv, WrongIsOld
    <3>3. x.dst \in Hosts /\ x.age \in Int
      BY AgeFacts DEF IInv
    <3> QED BY <1>2, <3>1, <3>2, <3>3
  <2> QED BY <1>6, <2>1 DEF WrongIsOld, Tick
<1>8. HiddenIsOld'
  <2>1. ASSUME NEW e \in table' PROVE macToPort[e.src] = at[e.src] \/ settled'[e.src] <= e.age
    <3>1. PICK x \in table : e.src = x.src /\ e.dst = x.dst /\ e.out = x.out /\ e.age = x.age + 1
      BY AgedFacts DEF IInv, Tick
    <3>2. macToPort[x.src] = at[x.src] \/ settled[x.src] <= x.age
      BY DEF IInv, HiddenIsOld
    <3>3. x.src \in Hosts /\ x.age \in Int
      BY AgeFacts DEF IInv
    <3> QED BY <1>1, <1>2, <3>1, <3>2, <3>3
  <2> QED BY <1>6, <2>1 DEF HiddenIsOld, Tick
<1>9. OldHomesAreFresh'
  BY <1>6 DEF OldHomesAreFresh
<1>10. SpokenIsHeard'
  <2>1. \A h \in spoke : settled'[h] = Hard /\ macToPort[h] = at[h]
    BY <1>1, <1>2, TimeoutsAssumption DEF IInv, TypeOK, SpokenIsHeard, Tick
  <2> QED BY <2>1 DEF SpokenIsHeard, Tick
<1> QED BY <1>4, <1>5, <1>7, <1>8, <1>9, <1>10 DEF IInv

LEMMA PacketInStep == ASSUME IInv, PacketIn PROVE IInv'
<1> USE DEF net, ctl
<1> DEFINE p == Head(toCtl)
           a == Answer(p, Learnt(p))
<1>1. /\ toCtl \in Seq(PacketIns) /\ toCtl # <<>> /\ p = toCtl[1] /\ 1 \in DOMAIN toCtl
      /\ p \in PacketIns /\ p.src \in Hosts /\ p.port \in Ports
  <2>1. toCtl \in Seq(PacketIns) /\ toCtl # <<>>
    BY DEF IInv, TypeOK, PacketIn
  <2>2. p = toCtl[1] /\ 1 \in DOMAIN toCtl /\ p \in PacketIns
    BY <2>1
  <2> QED BY <2>1, <2>2 DEF PacketIns
<1>2. /\ toCtl' \in Seq(PacketIns)
      /\ \A i \in DOMAIN toCtl' : i + 1 \in DOMAIN toCtl /\ toCtl'[i] = toCtl[i + 1]
      /\ \A i \in DOMAIN toCtl : i = 1 \/ (i - 1 \in DOMAIN toCtl' /\ toCtl'[i - 1] = toCtl[i])
  BY <1>1 DEF PacketIn
<1>3. /\ Learnt(p) \in [Hosts -> OutPort] /\ macToPort' = Learnt(p)
      /\ macToPort'[p.src] = p.port
      /\ \A h \in Hosts \ {p.src} : macToPort'[h] = macToPort[h]
  BY <1>1 DEF IInv, TypeOK, Learnt, OutPort, PacketIn
<1>4. /\ a \in Floods \cup Discards \cup FlowMods
      /\ a.src = p.src
      /\ a.do = "add" => a.dst \in Hosts /\ a.out \in {Nowhere, macToPort'[a.dst]}
  BY <1>1, <1>3, AnswerFacts
<1>5. /\ toSw \in Seq(Floods \cup Discards \cup FlowMods)
      /\ toSw' = Append(toSw, a)
  BY DEF IInv, TypeOK, PacketIn
<1>6. /\ toSw' \in Seq(Floods \cup Discards \cup FlowMods)
      /\ \A i \in DOMAIN toSw' : toSw'[i] = a \/ (i \in DOMAIN toSw /\ toSw'[i] = toSw[i])
  BY <1>4, <1>5
<1>7. /\ right' \in [Hosts -> 0 .. Hard]
      /\ \A h \in Hosts : right'[h] = IF macToPort'[h] = at[h] THEN right[h] ELSE 0
  BY TimeoutsAssumption DEF IInv, TypeOK, PacketIn
<1>8. macToPort'[p.src] = at[p.src] \/ settled[p.src] = 0
  BY <1>1, <1>3 DEF IInv, OldHomesAreFresh
<1>9. TypeOK'
  BY <1>2, <1>3, <1>6, <1>7 DEF IInv, TypeOK, PacketIn
<1>10. RightIsRight'
  BY <1>7 DEF RightIsRight, PacketIn
<1>11. WrongIsOld'
  <2>0. \A h \in Hosts : right'[h] = right[h] \/ right'[h] = 0
    BY <1>7
  <2>1. \A e \in table : e.out \notin {Nowhere, at[e.dst]} => right'[e.dst] <= e.age
    <3> SUFFICES ASSUME NEW e \in table, e.out \notin {Nowhere, at[e.dst]} PROVE right'[e.dst] <= e.age
      OBVIOUS
    <3>1. e.dst \in Hosts /\ e.age \in Nat
      BY AgeFacts DEF IInv
    <3>2. right[e.dst] <= e.age
      BY DEF IInv, WrongIsOld
    <3> QED BY <2>0, <3>1, <3>2
  <2>2. ASSUME NEW i \in DOMAIN toSw', toSw'[i].do = "add",
               toSw'[i].out \notin {Nowhere, at[toSw'[i].dst]}
        PROVE  right'[toSw'[i].dst] = 0
    <3>1. CASE toSw'[i] = a
      BY <2>2, <3>1, <1>4, <1>7
    <3>2. CASE i \in DOMAIN toSw /\ toSw'[i] = toSw[i]
      BY <2>0, <2>2, <3>2, ModFacts DEF IInv, WrongIsOld
    <3> QED BY <3>1, <3>2, <1>6
  <2> QED BY <2>1, <2>2 DEF WrongIsOld, PacketIn
<1>12. OldHomesAreFresh'
  BY <1>2 DEF IInv, OldHomesAreFresh, PacketIn
<1>13. HiddenIsOld'
  <2>1. ASSUME NEW e \in table PROVE macToPort'[e.src] = at[e.src] \/ settled[e.src] <= e.age
    <3>1. e.src \in Hosts /\ e.age \in Nat
      BY AgeFacts DEF IInv
    <3>2. macToPort[e.src] = at[e.src] \/ settled[e.src] <= e.age
      BY DEF IInv, HiddenIsOld
    <3> QED BY <1>3, <1>8, <3>1, <3>2
  <2>2. ASSUME NEW i \in DOMAIN toSw', toSw'[i].do = "add"
        PROVE  macToPort'[toSw'[i].src] = at[toSw'[i].src] \/ settled[toSw'[i].src] = 0
    <3>1. CASE toSw'[i] = a
      BY <3>1, <1>4, <1>8
    <3>2. CASE i \in DOMAIN toSw /\ toSw'[i] = toSw[i]
      BY <2>2, <3>2, <1>3, <1>8, ModFacts DEF IInv, HiddenIsOld
    <3> QED BY <3>1, <3>2, <1>6
  <2> QED BY <2>1, <2>2 DEF HiddenIsOld, PacketIn
<1>14. SpokenIsHeard'
  <2> SUFFICES ASSUME NEW h \in spoke
               PROVE  /\ settled[h] = Hard
                      /\ macToPort'[h] = at[h] \/ \E i \in DOMAIN toCtl' : toCtl'[i].src = h
    BY DEF SpokenIsHeard, PacketIn
  <2>1. settled[h] = Hard /\ h \in Hosts
    BY DEF IInv, TypeOK, SpokenIsHeard
  <2>2. CASE h = p.src
    BY <2>1, <2>2, <1>8, TimeoutsAssumption
  <2>3. CASE h # p.src
    <3>1. CASE macToPort[h] = at[h]
      BY <2>1, <2>3, <3>1, <1>3
    <3>2. CASE \E i \in DOMAIN toCtl : toCtl[i].src = h
      BY <2>1, <2>3, <3>2, <1>1, <1>2
    <3> QED BY <3>1, <3>2 DEF IInv, SpokenIsHeard
  <2> QED BY <2>1, <2>2, <2>3
<1> QED BY <1>9, <1>10, <1>11, <1>12, <1>13, <1>14 DEF IInv

LEMMA ConnectionUpStep == ASSUME IInv, ConnectionUp PROVE IInv'
<1> USE DEF net, ctl
<1>1. TypeOK'
  <2>1. macToPort' \in [Hosts -> OutPort] /\ right' \in [Hosts -> 0 .. Hard]
    BY TimeoutsAssumption DEF ConnectionUp, OutPort, Nowhere
  <2>2. toCtl' \in Seq(PacketIns) /\ toSw' \in Seq(Floods \cup Discards \cup FlowMods)
    BY DEF ConnectionUp
  <2>3. reconnects' \in 0 .. MaxReconnects
    BY BoundsAssumption DEF IInv, TypeOK, ConnectionUp
  <2> QED BY <2>1, <2>2, <2>3 DEF IInv, TypeOK, ConnectionUp
<1>2. RightIsRight' /\ WrongIsOld' /\ OldHomesAreFresh' /\ HiddenIsOld' /\ SpokenIsHeard'
  BY DEF RightIsRight, WrongIsOld, OldHomesAreFresh, HiddenIsOld, SpokenIsHeard, ConnectionUp
<1> QED BY <1>1, <1>2 DEF IInv

-----------------------------------------------------------------------------
\* IInv holds throughout, whatever the hosts send and wherever they move.
THEOREM Invariance == Spec => []IInv
<1>1. ASSUME IInv, [Next]_vars PROVE IInv'
  <2>1. CASE UNCHANGED vars
    BY <1>1, <2>1 DEF vars, net, ctl, IInv, TypeOK, RightIsRight, WrongIsOld, OldHomesAreFresh,
                      HiddenIsOld, SpokenIsHeard
  <2>2. ASSUME NEW h \in Hosts, NEW d \in Dests, Send(h, d) PROVE IInv'
    BY <1>1, <2>2, SendStep
  <2>3. ASSUME NEW h \in Hosts, NEW p \in Ports, Move(h, p) PROVE IInv'
    BY <1>1, <2>3, MoveStep
  <2> QED BY <1>1, <2>1, <2>2, <2>3, ApplyStep, TickStep, PacketInStep, ConnectionUpStep DEF Next
<1> QED BY <1>1, InitIInv, PTL DEF Spec

\* The controller only ever installs entries that take a flow from one port to another
\* or drop it at all ports, and what both channels carry is well formed.
THEOREM DirectTypeCorrect == Spec => []TypeOK
<1>1. IInv => TypeOK
  BY DEF IInv
<1> QED BY <1>1, Invariance, PTL

\* For any timeouts: when macToPort has been right about a host for as long as a
\* forwarding entry may live, every forwarding entry to that host is right.
THEOREM StaleEntriesEnd == Spec => []StaleEndsInTime
<1>1. IInv => StaleEndsInTime
  <2> SUFFICES ASSUME IInv, NEW e \in table, e.out # Nowhere, right[e.dst] = Hard
               PROVE  e.out = at[e.dst]
    BY DEF StaleEndsInTime
  <2>1. e.age \in 0 .. Hard - 1 /\ Hard \in Nat
    BY EntryFacts, TimeoutsAssumption DEF IInv
  <2>2. e.out = at[e.dst] \/ right[e.dst] <= e.age
    BY DEF IInv, WrongIsOld
  <2> QED BY <2>1, <2>2
<1> QED BY <1>1, Invariance, PTL

\* For any timeouts: no entry hides a host that has not moved for the lifetime of one.
THEOREM HomesAreFound == Spec => []HomeFound
<1>1. IInv => HomeFound
  BY DEF IInv, TypeOK, HomeFound, SpokenIsHeard
<1> QED BY <1>1, Invariance, PTL
=============================================================================
