--------------------------- MODULE OpenFlowChannel ---------------------------
(***************************************************************************)
(* POX's end of its OpenFlow connections (openflow/of_01.py): the task     *)
(* that reads all of them and runs the handshake, Connection.send, and the *)
(* DeferredSender thread that writes what a socket would not take at once. *)
(*                                                                         *)
(*   task --Connection.send--> socket --> switch                           *)
(*            \--m_send, queue--> DeferredSender --^                       *)
(*                                                                         *)
(* A thread's step ends where the other may change what the next one       *)
(* reads.  Connection.send and Connection.disconnect hold no lock: at and  *)
(* on say where a thread is in them, and on which connection.  What a      *)
(* connection is given to send is counted in units a socket takes or not.  *)
(***************************************************************************)
EXTENDS Integers, Sequences

CONSTANTS
    Conns,          \* Connection objects, one per TCP connection ever accepted
    Dpid,           \* the switch at the far end of each
    NoCon,          \* no connection
    MaxUnits        \* bound on what each connection is given to send

Dpids == {Dpid[c] : c \in Conns}

ASSUME ConnsAssumption ==
    /\ NoCon \notin Conns
    /\ Dpid \in [Conns -> Dpids]
    /\ MaxUnits \in Nat

VARIABLES
    stage,          \* how far the handshake is: which handlers con.handlers holds
    sock,           \* the controller's socket: "none", "open", "shut" or "closed"
    peer,           \* FALSE once the switch's end is gone
    disconnected,   \* con.disconnected
    raised,         \* con.disconnection_raised
    ups, downs,     \* connections ConnectionUp was raised for; by whom ConnectionDown was
    sockets,        \* the task's list
    nexus,          \* core.openflow._connections
    given,          \* how many units con.send did not refuse at once
    wire,           \* the units the socket took while the switch was there, in order
    queue,          \* _dataForConnection, which has no empty entries
    sending,        \* deferredSender.sending
    m_send,         \* the data the task is in con.send with
    at, on,         \* where each thread is in send or disconnect, and of which connection
    s_pc,           \* where the sender thread is in its loop
    s_cons          \* the connections it will select on, or has yet to serve

conVars    == <<stage, peer, ups, sockets>>
endVars    == <<sock, disconnected, raised, downs, nexus>>
dataVars   == <<given, wire, queue, sending, m_send>>
placeVars  == <<at, on>>
loopVars   == <<s_pc, s_cons>>
vars       == <<conVars, endVars, dataVars, placeVars, loopVars>>

Threads == {"task", "sender"}

\* "send" and "defer" are con.send's, with the lock to come; then those of
\* disconnect, con.close's "close", and "drop", the disconnect that raises nothing.
Places == {"out", "send", "defer", "raise", "shut", "close", "drop"}

\* The keys of _dataForConnection.
Waiting == {c \in Conns : queue[c] # << >>}

\* The n units that follow the first i.
Units(i, n) == [k \in 1..n |-> i + k]

TypeOK ==
    /\ stage \in [Conns -> {"none", "hello", "features", "barrier", "up", "failed"}]
    /\ sock \in [Conns -> {"none", "open", "shut", "closed"}]
    /\ peer \in [Conns -> BOOLEAN]
    /\ disconnected \in [Conns -> BOOLEAN]
    /\ raised \in [Conns -> BOOLEAN]
    /\ ups \subseteq Conns
    /\ downs \in [Conns -> SUBSET {"task", "sender"}]
    /\ sockets \subseteq Conns
    /\ nexus \in [Dpids -> Conns \cup {NoCon}]
    /\ given \in [Conns -> 0..MaxUnits]
    /\ wire \in [Conns -> Seq(1..MaxUnits)]
    /\ queue \in [Conns -> Seq(1..MaxUnits)]
    /\ sending \in BOOLEAN
    /\ m_send \in Seq(1..MaxUnits)
    /\ at \in [Threads -> Places]
    /\ on \in [Threads -> Conns \cup {NoCon}]
    /\ s_pc \in {"keys", "select", "waiting", "serve", "dead"}
    /\ s_cons \subseteq Conns

Init ==
    /\ stage = [c \in Conns |-> "none"]
    /\ sock = [c \in Conns |-> "none"]
    /\ peer = [c \in Conns |-> TRUE]
    /\ disconnected = [c \in Conns |-> FALSE]
    /\ raised = [c \in Conns |-> FALSE]
    /\ ups = {}
    /\ downs = [c \in Conns |-> {}]
    /\ sockets = {}
    /\ nexus = [d \in Dpids |-> NoCon]
    /\ given = [c \in Conns |-> 0]
    /\ wire = [c \in Conns |-> << >>]
    /\ queue = [c \in Conns |-> << >>]
    /\ sending = FALSE
    /\ m_send = << >>
    /\ at = [t \in Threads |-> "out"]
    /\ on = [t \in Threads |-> NoCon]
    /\ s_pc = "keys"
    /\ s_cons = {}

-----------------------------------------------------------------------------
(* Connection *)

At(t, place, c) == at[t] = place /\ on[t] = c

Go(t, place, c) == at' = [at EXCEPT ![t] = place] /\ on' = [on EXCEPT ![t] = c]

Leave(t) == Go(t, "out", NoCon)

\* con.dpid and con.ofnexus are set by the features reply.
Known(c) == stage[c] \in {"barrier", "up"}

\* Mutant: the table is left alone.
UnlistNothing(c) == UNCHANGED nexus

\* What every disconnect does to the connection table: it goes by the switch.
Unlist(c) ==
    nexus' = IF Known(c) THEN [nexus EXCEPT ![Dpid[c]] = NoCon] ELSE nexus

Mark(c) == disconnected' = [disconnected EXCEPT ![c] = TRUE]

\* Mutant: whether it was raised before is not asked.
MustRaiseAgain(c) == Known(c)

\* ConnectionDown is raised for connections with a dpid, unless it was before.
MustRaise(c) == Known(c) /\ ~raised[c]

Shutdown(c) == sock' = [sock EXCEPT ![c] = IF @ = "open" THEN "shut" ELSE @]

\* Once a connection has ended, recv says so.  A write fails for certain on a
\* socket shut here; with the switch's end gone it may fail, or, as long as no
\* reset has arrived, the kernel still takes the bytes, which nobody gets.
Writable(c) == sock[c] = "open"
Ended(c)    == ~Writable(c) \/ ~peer[c]

Transmit(c, units) ==
    wire' = IF peer[c] THEN [wire EXCEPT ![c] = @ \o units] ELSE wire

\* disconnect in thread t, to its look at disconnection_raised: what it does before
\* can wait for that look,
Disconnect(t, c) ==
    /\ Mark(c) /\ Unlist(c)
    /\ Go(t, IF MustRaise(c) THEN "raise" ELSE "shut", c)

\* its assignment and the events,
Raises(t, c) ==
    /\ At(t, "raise", c)
    /\ raised' = [raised EXCEPT ![c] = TRUE]
    /\ downs' = [downs EXCEPT ![c] = @ \cup {t}]
    /\ Go(t, "shut", c)
    /\ UNCHANGED <<conVars, sock, disconnected, nexus, dataVars, loopVars>>

\* and the shutdown: the task goes on to close the socket,
TaskShuts(c) ==
    /\ At("task", "shut", c)
    /\ Shutdown(c)
    /\ Go("task", "close", c)
    /\ UNCHANGED <<conVars, disconnected, raised, downs, nexus, dataVars, loopVars>>

\* Nobody's data any more: the flag stays as it is.
Forget(c) == queue' = [queue EXCEPT ![c] = << >>]

\* the sender, which has held its lock all the time, forgets the data.
SenderShuts(c) ==
    /\ At("sender", "shut", c)
    /\ Shutdown(c) /\ Forget(c)
    /\ Leave("sender")
    /\ UNCHANGED <<conVars, disconnected, raised, downs, nexus, given, wire, sending, m_send, loopVars>>

\* con.send of n units, up to its look at deferredSender.sending.
Send(c, n) ==
    \/ /\ disconnected[c]
       /\ UNCHANGED <<given, m_send, placeVars>>
    \/ /\ ~disconnected[c]
       /\ given[c] + n <= MaxUnits
       /\ given' = [given EXCEPT ![c] = @ + n]
       /\ m_send' = Units(given[c], n)
       /\ Go("task", "send", c)

\* Mutant: the socket is always tried first.
NeverDeferring == FALSE

Deferring == sending

SendDefers(c) ==
    /\ At("task", "send", c) /\ Deferring
    /\ Go("task", "defer", c)
    /\ UNCHANGED <<conVars, endVars, dataVars, loopVars>>

\* The socket takes k units: fewer than all are a short count, none is EAGAIN.
\* The flag is still down: only the task raises it.
SendWrites(c, k) ==
    /\ At("task", "send", c) /\ ~Deferring
    /\ Writable(c) /\ k <= Len(m_send)
    /\ Transmit(c, SubSeq(m_send, 1, k))
    /\ m_send' = SubSeq(m_send, k + 1, Len(m_send))
    /\ IF k = Len(m_send) THEN Leave("task") ELSE Go("task", "defer", c)
    /\ UNCHANGED <<conVars, endVars, given, queue, sending, loopVars>>

\* disconnect(defer_event=True).  With the flag down no data wait, so that the
\* sender is not concerned with any connection and this is one step.
SendFails(c) ==
    /\ At("task", "send", c) /\ ~Deferring
    /\ Ended(c)
    /\ Mark(c) /\ Unlist(c) /\ Shutdown(c)
    /\ m_send' = << >>
    /\ Leave("task")
    /\ UNCHANGED <<conVars, raised, downs, given, wire, queue, sending, loopVars>>

Locked == s_pc = "serve"

\* deferredSender.send has the lock.
Defer(c) ==
    /\ At("task", "defer", c) /\ ~Locked
    /\ sending' = TRUE
    /\ queue' = [queue EXCEPT ![c] = @ \o m_send]
    /\ m_send' = << >>
    /\ Leave("task")
    /\ UNCHANGED <<conVars, endVars, given, wire, loopVars>>

-----------------------------------------------------------------------------
(* OpenFlow_01_Task and the handshake handlers.  A switch answers what has   *)
(* reached it; a message it sent before either end went is still read.       *)

\* The task is at its select and c is in it.
Reads(c) == at["task"] = "out" /\ c \in sockets

\* Only the task looks at its list, after the HELLO has been sent.
Accept(c) ==
    /\ at["task"] = "out" /\ stage[c] = "none"
    /\ stage' = [stage EXCEPT ![c] = "hello"]
    /\ sock' = [sock EXCEPT ![c] = "open"]
    /\ sockets' = sockets \cup {c}
    /\ Send(c, 1)
    /\ UNCHANGED <<peer, ups, disconnected, raised, downs, nexus, wire, queue, sending, loopVars>>

\* A handler moves the handshake from one stage to another and sends n units.
Answers(c, from, to, n) ==
    /\ Reads(c) /\ stage[c] = from
    /\ stage' = [stage EXCEPT ![c] = to]
    /\ Send(c, n)
    /\ UNCHANGED <<peer, ups, sockets, endVars, wire, queue, sending, loopVars>>

\* HELLO: ask for the features and the description.
Hello(c) == Answers(c, "hello", "features", 1)

\* FEATURES_REPLY: the connection is its switch's; set up the switch and clear its
\* flows, the first unit, and ask for a barrier, the second.
FeaturesReply(c) == Len(wire[c]) >= 2 /\ Answers(c, "features", "barrier", 2)

\* The barrier's reply, or an error that says the switch knows no barriers:
\* _finish_connecting, whether or not the connection is still connected.
FinishConnecting(c) ==
    /\ Reads(c) /\ stage[c] = "barrier" /\ Len(wire[c]) >= 4
    /\ stage' = [stage EXCEPT ![c] = "up"]
    /\ nexus' = [nexus EXCEPT ![Dpid[c]] = c]
    /\ ups' = ups \cup {c}
    /\ UNCHANGED <<peer, sockets, sock, disconnected, raised, downs, dataVars, placeVars, loopVars>>

\* The reply to another barrier: the connection has no dpid any more and is
\* disconnected, which touches no table and raises nothing.
FailConnecting(c) ==
    /\ Reads(c) /\ stage[c] = "barrier" /\ Len(wire[c]) >= 4
    /\ stage' = [stage EXCEPT ![c] = "failed"]
    /\ Mark(c)
    /\ Go("task", "drop", c)
    /\ UNCHANGED <<peer, ups, sockets, sock, raised, downs, nexus, dataVars, loopVars>>

Drops(c) ==
    /\ At("task", "drop", c)
    /\ Shutdown(c)
    /\ Leave("task")
    /\ UNCHANGED <<conVars, disconnected, raised, downs, nexus, dataVars, loopVars>>

\* A handler of the connected switch's messages sends one.
Serve(c) == Answers(c, "up", "up", 1)

\* Mutant: a connection that has been disconnected before is only closed.
CloseQuietly(c) ==
    /\ Reads(c) /\ Ended(c)
    /\ Mark(c) /\ Unlist(c)
    /\ Go("task", IF MustRaise(c) /\ ~disconnected[c] THEN "raise" ELSE "shut", c)
    /\ UNCHANGED <<conVars, sock, raised, downs, dataVars, loopVars>>

\* read() returns False, or fails: con.close() begins to disconnect.
Close(c) ==
    /\ Reads(c) /\ Ended(c)
    /\ Disconnect("task", c)
    /\ UNCHANGED <<conVars, sock, raised, downs, dataVars, loopVars>>

\* It closes the socket, which goes off the list.
Closes(c) ==
    /\ At("task", "close", c)
    /\ sock' = [sock EXCEPT ![c] = "closed"]
    /\ sockets' = sockets \ {c}
    /\ Leave("task")
    /\ UNCHANGED <<stage, peer, ups, disconnected, raised, downs, nexus, dataVars, loopVars>>

\* The switch's end goes, in whatever state: it restarts, or connects anew.
PeerGone(c) ==
    /\ sock[c] # "none" /\ peer[c]
    /\ peer' = [peer EXCEPT ![c] = FALSE]
    /\ UNCHANGED <<stage, ups, sockets, endVars, dataVars, placeVars, loopVars>>

-----------------------------------------------------------------------------
(* DeferredSender.run *)

\* Mutant: the keys of an empty dict.
SenderKeysNone ==
    /\ s_pc = "keys"
    /\ s_pc' = "select"
    /\ s_cons' = {}
    /\ UNCHANGED <<conVars, endVars, dataVars, placeVars>>

SenderKeys ==
    /\ s_pc = "keys"
    /\ s_pc' = "select"
    /\ s_cons' = Waiting
    /\ UNCHANGED <<conVars, endVars, dataVars, placeVars>>

\* select() asks every connection for its descriptor, which a closed socket
\* refuses: nothing catches the exception and the thread ends.
SenderSelects ==
    /\ s_pc = "select"
    /\ s_pc' = IF \E c \in s_cons : sock[c] = "closed" THEN "dead" ELSE "waiting"
    /\ UNCHANGED <<conVars, endVars, dataVars, placeVars, s_cons>>

\* It returns with some of the sockets that can be written to or have failed,
\* or with none: woken by the pinger, or after five seconds.
SenderWakes(ready) ==
    /\ s_pc = "waiting"
    /\ s_pc' = "serve"
    /\ s_cons' = ready
    /\ UNCHANGED <<conVars, endVars, dataVars, placeVars>>

\* Between two connections it is in nobody's disconnect.
Serves(c) == s_pc = "serve" /\ at["sender"] = "out" /\ c \in s_cons \cap Waiting

\* Mutant: whoever is served last ends the deferred sending.
WithoutAny(c) ==
    /\ queue' = [queue EXCEPT ![c] = << >>]
    /\ sending' = FALSE
    /\ s_cons' = s_cons \ {c}

\* c has nothing more to send: once nobody has, the rest need no serving.
Without(c) ==
    /\ queue' = [queue EXCEPT ![c] = << >>]
    /\ sending' = (Waiting # {c})
    /\ s_cons' = IF Waiting = {c} THEN {} ELSE s_cons \ {c}

\* The socket takes k units of c's.
SenderWrites(c, k) ==
    /\ Serves(c) /\ Writable(c)
    /\ k <= Len(queue[c])
    /\ Transmit(c, SubSeq(queue[c], 1, k))
    /\ IF k = Len(queue[c])
       THEN Without(c)
       ELSE /\ queue' = [queue EXCEPT ![c] = SubSeq(@, k + 1, Len(@))]
            /\ s_cons' = s_cons \ {c}
            /\ UNCHANGED sending
    /\ UNCHANGED <<conVars, endVars, given, m_send, placeVars, s_pc>>

\* Writing to c fails: con.disconnect() begins in this thread.
SenderFails(c) ==
    /\ Serves(c) /\ Ended(c)
    /\ Disconnect("sender", c)
    /\ s_cons' = s_cons \ {c}
    /\ UNCHANGED <<conVars, sock, raised, downs, dataVars, s_pc>>

\* All served but those whose data is gone.
SenderLoops ==
    /\ s_pc = "serve" /\ at["sender"] = "out" /\ s_cons \cap Waiting = {}
    /\ s_pc' = "keys"
    /\ s_cons' = {}
    /\ UNCHANGED <<conVars, endVars, dataVars, placeVars>>

Handle(c) ==
    Hello(c) \/ FeaturesReply(c) \/ FinishConnecting(c) \/ FailConnecting(c) \/ Serve(c)

\* The rest of what the task has begun on c, and of the sender's disconnect.
TaskGoesOn(c) ==
    \/ SendDefers(c) \/ SendFails(c) \/ \E k \in 0..MaxUnits : SendWrites(c, k)
    \/ Raises("task", c) \/ TaskShuts(c) \/ Closes(c) \/ Drops(c)

SenderGoesOn(c) == Raises("sender", c) \/ SenderShuts(c)

SenderSteps ==
    \/ SenderKeys \/ SenderSelects \/ SenderLoops
    \/ \E ready \in SUBSET s_cons : SenderWakes(ready)
    \/ \E c \in s_cons : SenderFails(c) \/ \E k \in 0..MaxUnits : SenderWrites(c, k)

Next ==
    \/ \E c \in Conns : Accept(c) \/ Handle(c) \/ Close(c) \/ PeerGone(c)
    \/ \E c \in Conns : TaskGoesOn(c) \/ Defer(c) \/ SenderGoesOn(c)
    \/ SenderSteps

Spec == Init /\ [][Next]_vars

\* Both threads run on; a connection that has ended is read from; the kernel takes
\* all a switch has room for, and of a switch that is gone, or gives up.
Fairness ==
    /\ SF_vars(\E c \in Conns : Defer(c))
    /\ WF_vars(\E c \in Conns : TaskGoesOn(c)) /\ WF_vars(\E c \in Conns : SenderGoesOn(c))
    /\ WF_vars(SenderKeys) /\ WF_vars(SenderSelects) /\ WF_vars(SenderLoops)
    /\ WF_vars(\E ready \in SUBSET s_cons : SenderWakes(ready))
    /\ \A c \in Conns :
          /\ WF_vars(Close(c))
          /\ SF_vars(\E ready \in SUBSET s_cons : c \in ready /\ SenderWakes(ready))
          /\ SF_vars(SenderFails(c) \/ SenderWrites(c, Len(queue[c])))

FairSpec == Spec /\ Fairness

-----------------------------------------------------------------------------
(* Properties *)

\* of_01.py 869-883: whatever goes past the deferred sender and whatever goes
\* through it, a connection's socket takes what was sent on it, each byte once
\* and in order.  This is the channel BypassSwitch takes for granted.
Ordered == INSTANCE OrderedChannel WITH taken <- wire
ImplementsOrderedChannel == Ordered!Spec

\* 869: the task bypasses the deferred sender only when no connection has data
\* waiting there.
WaitingMeansSending == Waiting # {} => sending

\* 828-837, 863: once a connection's ConnectionDown has been raised, con.send takes
\* no more for it, although the task goes on handling what it had received; and
\* whoever has raised it does not do so again.  The other thread may, once, having
\* looked at disconnection_raised before it was set.
DownIsFinal ==
    [][\A c \in Conns : downs[c] # {} =>
          /\ UNCHANGED given[c]
          /\ \A t \in downs[c] : ~Raises(t, c)]_vars

\* __init__.py 400-406, of_01.py 828-832: a connection that is up and connected
\* is missing from core.openflow only if its switch has connected a second
\* time, and no closed connection is in there.
Identified(c) == stage[c] \in {"barrier", "up", "failed"}

MissingOnlyToATwin ==
    \A c \in ups :
        /\ nexus[Dpid[c]] # c /\ ~disconnected[c] =>
              \E d \in Conns \ {c} : Dpid[d] = Dpid[c] /\ Identified(d)
        /\ sock[c] = "closed" => nexus[Dpid[c]] # c

\* 472-498: unless the thread has died, what waits in the deferred sender is
\* written or its connection is given up.
Drained ==
    \A c \in Conns :
        c \in Waiting ~> c \notin Waiting \/ s_pc = "dead"

\* 834-837, 886, 1132-1133: for a switch that was announced and is gone ConnectionDown
\* is raised, also when the failing send put it off.
UpsHaveDowns ==
    \A c \in Conns : c \in ups /\ ~peer[c] ~> downs[c] # {}

-----------------------------------------------------------------------------
(* The inductive invariant (proved in OpenFlowChannel_proofs) *)

Pending(c) == IF on["task"] = c THEN m_send ELSE << >>

\* The socket's units are the first ones; until the connection ends those in the
\* queue follow them, and those the task is about to queue come last.
InOrder ==
    \A c \in Conns :
        /\ wire[c] = Units(0, Len(wire[c])) /\ Len(wire[c]) <= given[c]
        /\ ~Ended(c) =>
              /\ queue[c] = Units(Len(wire[c]), Len(queue[c]))
              /\ Pending(c) = Units(Len(wire[c]) + Len(queue[c]), Len(Pending(c)))
              /\ Len(wire[c]) + Len(queue[c]) + Len(Pending(c)) = given[c]
        /\ sock[c] = "none" =>
              /\ given[c] = 0 /\ stage[c] = "none"
              /\ queue[c] = << >> /\ on["task"] # c /\ c \notin sockets

\* Where a thread is tells how far the connection has ended.  A sender in a
\* disconnect holds its lock, and data of that connection.
Ends ==
    /\ \A t \in Threads :
          /\ at[t] = "out" <=> on[t] = NoCon
          /\ at[t] \in {"raise", "shut", "close", "drop"} => disconnected[on[t]]
          /\ at[t] = "raise" => t \notin downs[on[t]]
    /\ at["task"] # "out" => on["task"] \in sockets
    /\ at["task"] \notin {"send", "defer"} => m_send = << >>
    /\ at["sender"] # "out" =>
          /\ at["sender"] \in {"raise", "shut"}
          /\ Locked /\ on["sender"] \in Waiting
    /\ \A c \in Conns :
          /\ downs[c] # {} => raised[c] /\ disconnected[c]
          /\ stage[c] = "none" <=> sock[c] = "none"
          /\ sock[c] = "closed" => c \notin sockets

\* The table's entries are connections that finished and are not closed, nor about
\* to be.
Listed ==
    /\ \A d \in Dpids : nexus[d] # NoCon =>
          /\ nexus[d] \in ups /\ Dpid[nexus[d]] = d /\ sock[nexus[d]] # "closed"
          /\ at["task"] \in {"raise", "shut", "close"} => nexus[d] # on["task"]
    /\ \A c \in ups : stage[c] = "up"
    /\ MissingOnlyToATwin

IInv == TypeOK /\ WaitingMeansSending /\ InOrder /\ Ends /\ Listed
=============================================================================
