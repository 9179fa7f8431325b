---------------------------- MODULE DirectSwitch ----------------------------
(***************************************************************************)
(* The controller of the experiment's baseline, pox/livestreaming/         *)
(* direct.py: an L2 learning switch, with the OpenFlow switch it drives    *)
(* and hosts that move from port to port.  What it has learnt lives in two *)
(* places, macToPort and the switch's flow table, and neither is told when *)
(* a host moves: only timeouts and new packets correct them.               *)
(*                                                                         *)
(* Time passes in ticks, when both OpenFlow channels are empty: a packet   *)
(* and the answer to it take far less than the shortest timeout.  A sender *)
(* sends at most one packet to a destination in a tick.                    *)
(***************************************************************************)
EXTENDS Integers, Sequences, FiniteSets, Functions

CONSTANTS
    Hosts,          \* hosts, by their MAC address
    Ports,          \* ports of the switch; several hosts may be behind one
    Groups,         \* multicast and broadcast destinations
    Filtered,       \* bridge filtered destinations, and LLDP
    Transparent,    \* the component's option: LLDP and the like are ordinary packets
    Unknown,        \* no port, no host: macToPort has no such key
    Idle, Hard,     \* timeouts of a forwarding entry, in ticks: 10 s and 30 s
    Drop,           \* both timeouts of a dropping entry, in ticks: 10 s
    MaxMoves,       \* bound on how often hosts move
    MaxReconnects   \* bound on how often the switch reconnects

ASSUME TimeoutsAssumption ==
    /\ Idle \in Nat \ {0} /\ Hard \in Nat \ {0} /\ Drop \in Nat \ {0}
    /\ Drop <= Hard
ASSUME UnknownAssumption == Unknown \notin Ports
ASSUME BoundsAssumption  == MaxMoves \in Nat /\ MaxReconnects \in Nat
ASSUME AddressAssumption ==
    /\ Transparent \in BOOLEAN
    /\ Hosts \cap Groups = {} /\ Hosts \cap Filtered = {}

VARIABLES
    at,             \* the port each host is behind
    macToPort,      \* LearningSwitch.macToPort
    table,          \* the switch's flow table
    toCtl,          \* packet_in messages on their way to the controller
    toSw,           \* packet_out and flow_mod messages on their way to the switch
    sent,           \* who has sent to whom in this tick
    got,            \* who was reached by whom in this tick
    right,          \* for how many ticks macToPort has had the host's port (up to Hard)
    settled,        \* for how many ticks the host has not moved (up to Hard)
    spoke,          \* hosts that have sent something after settling for Hard ticks
    moves, reconnects

net  == <<at, moves>>
ctl  == <<macToPort, right>>
vars == <<at, macToPort, table, toCtl, toSw, sent, got, right, settled, spoke, moves, reconnects>>

Dests     == Hosts \cup Groups \cup Filtered
Nowhere   == Unknown            \* "output" of an entry with an empty action list
AnyPort   == Unknown            \* in_port of a match that has none
OutPort   == Ports \cup {Nowhere}
PacketIns == [src : Hosts, dst : Dests, port : Ports]

\* An entry matches one flow, of a source and a destination.  age counts the ticks
\* since it was installed, quiet those since it last matched a packet.
\* It either takes packets from one port to another port or drops them at any port.
Ways      == {w \in Ports \X Ports : w[1] # w[2]} \cup {<<AnyPort, Nowhere>>}
Entries   == {e \in [src : Hosts, dst : Hosts, inp : OutPort, out : OutPort, age : 0 .. Hard - 1, quiet : Nat] :
                <<e.inp, e.out>> \in Ways}

\* The three messages the handler sends.
Floods    == [do : {"flood"}, src : Hosts, dst : Dests, port : Ports]
Discards  == [do : {"discard"}, src : Hosts, dst : Dests, port : Ports]
FlowMods  == {m \in [do : {"add"}, src : Hosts, dst : Hosts, port : Ports, inp : OutPort, out : OutPort] :
                <<m.inp, m.out>> \in Ways}

TypeOK ==
    /\ at \in [Hosts -> Ports]
    /\ macToPort \in [Hosts -> OutPort]
    /\ table \subseteq Entries
    /\ toCtl \in Seq(PacketIns)
    /\ toSw \in Seq(Floods \cup Discards \cup FlowMods)
    /\ sent \subseteq Hosts \X Dests
    /\ got \subseteq Hosts \X Hosts
    /\ right \in [Hosts -> 0 .. Hard]
    /\ settled \in [Hosts -> 0 .. Hard]
    /\ spoke \subseteq Hosts
    /\ moves \in 0 .. MaxMoves
    /\ reconnects \in 0 .. MaxReconnects

Init ==
    /\ at \in [Hosts -> Ports]
    /\ macToPort = [h \in Hosts |-> Unknown]
    /\ table = {} /\ toCtl = <<>> /\ toSw = <<>>
    /\ sent = {} /\ got = {} /\ spoke = {}
    /\ right = [h \in Hosts |-> 0]
    /\ settled = [h \in Hosts |-> 0]
    /\ moves = 0 /\ reconnects = 0

-----------------------------------------------------------------------------
(* The switch and its hosts.                                                 *)

\* The hosts a packet for d from h is brought to by sending it out of the ports outs.
Reaches(h, d, outs) == IF d \in Hosts /\ at[d] \in outs THEN {<<h, d>>} ELSE {}

\* The ports a packet that came in at inp leaves by when it is flooded.
OthersThan(inp) == Ports \ {inp}

Matches(e, h, d, inp) == e.src = h /\ e.dst = d /\ e.inp \in {inp, AnyPort}

\* Host h sends a packet to d.  The hosts behind its own port see it as well as the
\* switch.  Entries with and without in_port have one priority, so either may match.
Send(h, d) ==
    /\ <<h, d>> \notin sent
    /\ sent' = sent \cup {<<h, d>>}
    /\ spoke' = IF settled[h] = Hard THEN spoke \cup {h} ELSE spoke
    /\ \/ \E e \in table :
            /\ Matches(e, h, d, at[h])
            /\ table' = (table \ {e}) \cup {[e EXCEPT !.quiet = 0]}
            /\ got' = got \cup Reaches(h, d, {at[h]} \cup ({e.out} \ {Nowhere}))
            /\ UNCHANGED toCtl
       \/ /\ \A e \in table : ~Matches(e, h, d, at[h])
          /\ toCtl' = Append(toCtl, [src |-> h, dst |-> d, port |-> at[h]])
          /\ got' = got \cup Reaches(h, d, {at[h]})
          /\ UNCHANGED table
    /\ UNCHANGED <<net, ctl, toSw, settled, reconnects>>

\* Host h moves to port p.  Nobody is told.
Move(h, p) ==
    /\ moves < MaxMoves /\ p # at[h]
    /\ moves' = moves + 1
    /\ at' = [at EXCEPT ![h] = p]
    /\ right' = [right EXCEPT ![h] = 0]
    /\ settled' = [settled EXCEPT ![h] = 0]
    /\ spoke' = spoke \ {h}
    /\ UNCHANGED <<macToPort, table, toCtl, toSw, sent, got, reconnects>>

\* A new entry replaces the one with the same match.
Installed(m) ==
    {e \in table : ~(e.src = m.src /\ e.dst = m.dst /\ e.inp = m.inp)}
        \cup {[src |-> m.src, dst |-> m.dst, inp |-> m.inp, out |-> m.out, age |-> 0, quiet |-> 0]}

\* The switch carries out the controller's next message.
Apply ==
    /\ toSw # <<>>
    /\ toSw' = Tail(toSw)
    /\ LET m == Head(toSw) IN
         \/ /\ m.do = "flood"
            /\ got' = got \cup Reaches(m.src, m.dst, OthersThan(m.port))
            /\ UNCHANGED table
         \/ /\ m.do = "discard"
            /\ UNCHANGED <<table, got>>
         \/ /\ m.do = "add"
            /\ table' = Installed(m)
            /\ got' = got \cup Reaches(m.src, m.dst, {m.out} \ {Nowhere, m.port})
    /\ UNCHANGED <<net, ctl, toCtl, sent, settled, spoke, reconnects>>

\* The timeouts of an entry.
IdleLimit(e) == IF e.out = Nowhere THEN Drop ELSE Idle
\* Mutant: a forwarding entry has its idle timeout only.
NoHardLimit(e) == IF e.out = Nowhere THEN Drop ELSE e.age + 1

HardLimit(e) == IF e.out = Nowhere THEN Drop ELSE Hard

\* The entries one tick later, and those of them that have not timed out.
Older(es) == {[e EXCEPT !.age = @ + 1, !.quiet = @ + 1] : e \in es}

Aged ==
    {e \in Older(table) : e.age < HardLimit(e) /\ e.quiet < IdleLimit(e)}

UpTo(n) == IF n < Hard THEN n + 1 ELSE n

Tick ==
    /\ toCtl = <<>> /\ toSw = <<>>
    /\ table' = Aged
    /\ sent' = {} /\ got' = {}
    /\ settled' = [h \in Hosts |-> UpTo(settled[h])]
    /\ right' = [h \in Hosts |-> IF macToPort[h] = at[h] THEN UpTo(right[h]) ELSE 0]
    /\ UNCHANGED <<net, macToPort, toCtl, toSw, spoke, reconnects>>

-----------------------------------------------------------------------------
(* The controller.                                                           *)

Flood(p)   == [do |-> "flood", src |-> p.src, dst |-> p.dst, port |-> p.port]
Discard(p) == [do |-> "discard", src |-> p.src, dst |-> p.dst, port |-> p.port]

\* drop(10): an entry without actions, whose match is taken without the packet's port.
DropFor(p) ==
    [do |-> "add", src |-> p.src, dst |-> p.dst, port |-> p.port, inp |-> AnyPort, out |-> Nowhere]

\* The entry for the flow of p, as it arrives at p's port.
ForwardTo(p, port) ==
    [do |-> "add", src |-> p.src, dst |-> p.dst, port |-> p.port, inp |-> p.port, out |-> port]

\* LLDP and bridge filtered addresses, group addresses all, are flooded only by the option.
LinkLocal(p) == ~Transparent /\ p.dst \in Filtered

\* Mutant: nobody asks whether the destination is known.
AnswerUnchecked(p, known) ==
    CASE LinkLocal(p) -> Discard(p)
      [] p.dst \in Groups -> Flood(p)
      [] OTHER -> ForwardTo(p, known[p.dst])

\* What the handler sends for packet p, with what it knows after learning p's port.
Answer(p, known) ==
    CASE LinkLocal(p) -> Discard(p)
      [] ~LinkLocal(p) /\ p.dst \notin Hosts -> Flood(p)
      [] p.dst \in Hosts /\ known[p.dst] = Unknown -> Flood(p)
      [] p.dst \in Hosts /\ known[p.dst] = p.port -> DropFor(p)
      [] OTHER -> ForwardTo(p, known[p.dst])

\* Mutant: what is known is not corrected.
LearntOnce(p) ==
    IF macToPort[p.src] = Unknown THEN [macToPort EXCEPT ![p.src] = p.port] ELSE macToPort

\* macToPort with the port of p.
Learnt(p) == [macToPort EXCEPT ![p.src] = p.port]

\* LearningSwitch._handle_PacketIn.
PacketIn ==
    /\ toCtl # <<>>
    /\ LET p == Head(toCtl) IN
         /\ macToPort' = Learnt(p)
         /\ toSw' = Append(toSw, Answer(p, Learnt(p)))
    /\ toCtl' = Tail(toCtl)
    /\ right' = [h \in Hosts |-> IF macToPort'[h] = at[h] THEN right[h] ELSE 0]
    /\ UNCHANGED <<net, table, sent, got, settled, spoke, reconnects>>

\* DirectLivestreaming._handle_ConnectionUp: the flow table was cleared in the handshake,
\* and a LearningSwitch that knows nothing listens to the new connection.
ConnectionUp ==
    /\ reconnects < MaxReconnects
    /\ reconnects' = reconnects + 1
    /\ macToPort' = [h \in Hosts |-> Unknown]
    /\ table' = {} /\ toCtl' = <<>> /\ toSw' = <<>>
    /\ right' = [h \in Hosts |-> 0]
    /\ spoke' = {}
    /\ UNCHANGED <<net, sent, got, settled>>

Next ==
    \/ \E h \in Hosts, d \in Dests : h # d /\ Send(h, d)
    \/ \E h \in Hosts, p \in Ports : Move(h, p)
    \/ Apply
    \/ Tick
    \/ PacketIn
    \/ ConnectionUp

Spec == Init /\ [][Next]_vars

\* Time passes, controller and switch go on, and every host goes on sending to every other.
Fairness ==
    /\ WF_vars(Apply) /\ WF_vars(Tick) /\ WF_vars(PacketIn)
    /\ \A h, d \in Hosts : WF_vars(h # d /\ Send(h, d))

FairSpec == Spec /\ Fairness

-----------------------------------------------------------------------------
\* Stale entries end in time: when the controller has had the port of d right for as long
\* as a forwarding entry may live, no entry of the table leads to another port, however
\* often the flows that use it kept it from idling out (direct.py:128, 154-155).
StaleEndsInTime ==
    \A e \in table : e.out # Nowhere /\ right[e.dst] = Hard => e.out = at[e.dst]

\* A new home is found in time: a host that has not moved for Hard ticks and then sends
\* anything is where macToPort says, once the packets under way are handled.  Neither an
\* entry of its earlier stay at this port nor one that drops its packets, which matches at
\* every port, hides it any longer (direct.py:108-121, 128, 153-155).
HomeFound ==
    toCtl = <<>> => \A h \in spoke : macToPort[h] = at[h]

\* Nobody is out of reach for ever: while every host goes on sending, each is reached by
\* each other again and again, whatever moves and reconnects came before (direct.py:55-70).
Reachable == \A h, d \in Hosts : h # d => []<>(<<h, d>> \in got)

(* The strengthening that is inductive. *)

\* Only what macToPort has right has been right for some time.
RightIsRight == \A h \in Hosts : macToPort[h] # at[h] => right[h] = 0

\* A wrong entry is no younger than the knowledge that makes it wrong, and a wrong
\* entry on its way was made in this tick.
WrongIsOld ==
    /\ \A e \in table : e.out \notin {Nowhere, at[e.dst]} => right[e.dst] <= e.age
    /\ \A i \in DOMAIN toSw :
           toSw[i].do = "add" /\ toSw[i].out \notin {Nowhere, at[toSw[i].dst]} => right[toSw[i].dst] = 0

\* A packet from a port its source has left was sent in this tick.
OldHomesAreFresh ==
    \A i \in DOMAIN toCtl : toCtl[i].port # at[toCtl[i].src] => settled[toCtl[i].src] = 0

\* While macToPort is wrong about a host, the entries for its packets are as old as its move.
HiddenIsOld ==
    /\ \A e \in table : macToPort[e.src] = at[e.src] \/ settled[e.src] <= e.age
    /\ \A i \in DOMAIN toSw :
           toSw[i].do = "add" =>
               macToPort[toSw[i].src] = at[toSw[i].src] \/ settled[toSw[i].src] = 0

\* Who has spoken after settling is known or has a packet under way.
SpokenIsHeard ==
    \A h \in spoke :
        /\ settled[h] = Hard
        /\ macToPort[h] = at[h] \/ \E i \in DOMAIN toCtl : toCtl[i].src = h

IInv ==
    /\ TypeOK
    /\ RightIsRight
    /\ WrongIsOld
    /\ OldHomesAreFresh
    /\ HiddenIsOld
    /\ SpokenIsHeard
=============================================================================
