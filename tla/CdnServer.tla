------------------------------ MODULE CdnServer ------------------------------
(***************************************************************************)
(* The notification service of hosts/cdn-server.py: a main process that    *)
(* accepts channels and forks one heartbeat process for each, the          *)
(* multiprocessing.Lock those processes share, and the clean-up on         *)
(* SIGTERM.  The lock is a POSIX semaphore: nothing gives it back when the *)
(* process that holds it dies.                                             *)
(***************************************************************************)
EXTENDS Naturals

CONSTANTS
    Clients,        \* hosts that open a notification channel
    Free,           \* the lock when nobody holds it
    SockCap,        \* heartbeats a socket's send buffer takes before sendall blocks
    Faults          \* what may go wrong: subset of FaultKinds

FaultKinds == {"close", "deaf", "timeout", "sigterm"}

ASSUME CdnAssumption ==
    /\ Free \notin Clients
    /\ SockCap \in Nat \ {0}
    /\ Faults \subseteq FaultKinds

VARIABLES
    main,           \* the main process
    proc,           \* the heartbeat process of each channel
    notify_procs,   \* the processes the main process has on its list
    notify_lock,    \* the holder of the lock, or Free
    conn,           \* each client's TCP connection, as the service's kernel sees it
    unsent,         \* heartbeats in each socket's send buffer
    sig             \* heartbeat processes with a SIGTERM pending

vars == <<main, proc, notify_procs, notify_lock, conn, unsent, sig>>

Alive == {c \in Clients : proc[c] \notin {"none", "dead"}}

TypeOK ==
    /\ main \in {"starting", "accepting", "forked", "cleaning", "exiting", "exited"}
    /\ proc \in [Clients -> {"none", "acquire", "send", "release", "sleep", "dead"}]
    /\ notify_procs \subseteq Clients
    /\ notify_lock \in Clients \cup {Free}
    /\ conn \in [Clients -> {"none", "queued", "open", "deaf", "closed", "broken"}]
    /\ unsent \in [Clients -> 0..SockCap]
    /\ sig \subseteq Clients

\* __init__ has bound the port and registered the handlers.
Init ==
    /\ main = "starting"
    /\ proc = [c \in Clients |-> "none"]
    /\ notify_procs = {}
    /\ notify_lock = Free
    /\ conn = [c \in Clients |-> "none"]
    /\ unsent = [c \in Clients |-> 0]
    /\ sig = {}

-----------------------------------------------------------------------------
(* The main process. *)

\* nginx is up; the first listen(5).  Until then a connection is refused.
Listen ==
    /\ main = "starting"
    /\ main' = "accepting"
    /\ UNCHANGED <<proc, notify_procs, notify_lock, conn, unsent, sig>>

\* accept() and notify_proc.start().
AcceptUnderLock(c) ==
    /\ main = "accepting" /\ conn[c] = "queued" /\ notify_lock = Free
    /\ main' = "forked"
    /\ conn' = [conn EXCEPT ![c] = "open"]
    /\ proc' = [proc EXCEPT ![c] = "acquire"]
    /\ UNCHANGED <<notify_procs, notify_lock, unsent, sig>>

Accept(c) ==
    /\ main = "accepting" /\ conn[c] = "queued"
    /\ main' = "forked"
    /\ conn' = [conn EXCEPT ![c] = "open"]
    /\ proc' = [proc EXCEPT ![c] = "acquire"]
    /\ UNCHANGED <<notify_procs, notify_lock, unsent, sig>>

\* notify_procs.append(): the one process started but not on the list yet.
Enlist ==
    /\ main = "forked"
    /\ main' = "accepting"
    /\ notify_procs' = {c \in Clients : proc[c] # "none"}
    /\ UNCHANGED <<proc, notify_lock, conn, unsent, sig>>

\* The driver's kill.  Its "pgrep -f" may or may not list the forked processes.
Terminate ==
    /\ "sigterm" \in Faults
    /\ main \in {"starting", "accepting", "forked"}
    /\ main' = "cleaning"
    /\ sig' \in {{}, Alive}
    /\ UNCHANGED <<proc, notify_procs, notify_lock, conn, unsent>>

\* What "kill $(lsof -t -i:42857)" finds: every process with a socket on the port.
NoPortOwners == {}
PortOwners == Alive

\* The handler in the main process; exit(0) then joins the children.
CleanUp ==
    /\ main = "cleaning"
    /\ main' = "exiting"
    /\ sig' = sig \cup (notify_procs \cap Alive) \cup PortOwners
    /\ UNCHANGED <<proc, notify_procs, notify_lock, conn, unsent>>

Exit ==
    /\ main = "exiting" /\ Alive = {}
    /\ main' = "exited"
    /\ conn' = [c \in Clients |-> IF conn[c] = "none" THEN "none" ELSE "broken"]
    /\ UNCHANGED <<proc, notify_procs, notify_lock, unsent, sig>>

-----------------------------------------------------------------------------
(* _notify_heartbeat, one process per channel. *)

Acquire(c) ==
    /\ proc[c] = "acquire" /\ notify_lock = Free
    /\ notify_lock' = c
    /\ proc' = [proc EXCEPT ![c] = "send"]
    /\ UNCHANGED <<main, notify_procs, conn, unsent, sig>>

\* sendall() returns once the heartbeat is in the send buffer, and blocks, with
\* the lock held, while there is no room.  The first write to a closed peer is
\* taken, and answered with a reset.
Send(c) ==
    /\ proc[c] = "send" /\ conn[c] \in {"open", "deaf", "closed"}
    /\ unsent[c] < SockCap
    /\ unsent' = [unsent EXCEPT ![c] = @ + 1]
    /\ conn' = [conn EXCEPT ![c] = IF @ = "closed" THEN "broken" ELSE @]
    /\ proc' = [proc EXCEPT ![c] = "release"]
    /\ UNCHANGED <<main, notify_procs, notify_lock, sig>>

\* With a time limit on sendall().
SendFailsWhenFull(c) ==
    /\ proc[c] = "send"
    /\ conn[c] = "broken" \/ unsent[c] = SockCap
    /\ proc' = [proc EXCEPT ![c] = "dead"]
    /\ UNCHANGED <<main, notify_procs, notify_lock, conn, unsent, sig>>

\* socket.error is not caught: the process ends between acquire and release.
SendFails(c) ==
    /\ proc[c] = "send" /\ conn[c] = "broken"
    /\ proc' = [proc EXCEPT ![c] = "dead"]
    /\ UNCHANGED <<main, notify_procs, notify_lock, conn, unsent, sig>>

ReleaseNot(c) ==
    /\ proc[c] = "release"
    /\ proc' = [proc EXCEPT ![c] = "sleep"]
    /\ UNCHANGED <<main, notify_procs, notify_lock, conn, unsent, sig>>

Release(c) ==
    /\ proc[c] = "release"
    /\ notify_lock' = Free
    /\ proc' = [proc EXCEPT ![c] = "sleep"]
    /\ UNCHANGED <<main, notify_procs, conn, unsent, sig>>

Wake(c) ==
    /\ proc[c] = "sleep"
    /\ proc' = [proc EXCEPT ![c] = "acquire"]
    /\ UNCHANGED <<main, notify_procs, notify_lock, conn, unsent, sig>>

\* The forked processes inherit the handler, so each one that is signalled
\* signals the others in turn.  It ends wherever it is, the lock in hand or not.
Die(c) ==
    /\ c \in sig /\ c \in Alive
    /\ proc' = [proc EXCEPT ![c] = "dead"]
    /\ sig' = sig \cup PortOwners
    /\ UNCHANGED <<main, notify_procs, notify_lock, conn, unsent>>

-----------------------------------------------------------------------------
(* The hosts and the network between. *)

Connect(c) ==
    /\ main \in {"accepting", "forked"} /\ conn[c] = "none"
    /\ conn' = [conn EXCEPT ![c] = "queued"]
    /\ UNCHANGED <<main, proc, notify_procs, notify_lock, unsent, sig>>

\* The host's kernel acknowledges a heartbeat.
Deliver(c) ==
    /\ conn[c] = "open" /\ unsent[c] > 0
    /\ unsent' = [unsent EXCEPT ![c] = @ - 1]
    /\ UNCHANGED <<main, proc, notify_procs, notify_lock, conn, sig>>

\* The host no longer reads (viewer.py leaves its loop once it is told), or
\* the switch drops the channel.
GoDeaf(c) ==
    /\ "deaf" \in Faults /\ conn[c] = "open"
    /\ conn' = [conn EXCEPT ![c] = "deaf"]
    /\ UNCHANGED <<main, proc, notify_procs, notify_lock, unsent, sig>>

\* TCP gives up retransmitting what nobody acknowledges.
TimeOut(c) ==
    /\ "timeout" \in Faults /\ conn[c] = "deaf" /\ unsent[c] > 0
    /\ conn' = [conn EXCEPT ![c] = "broken"]
    /\ UNCHANGED <<main, proc, notify_procs, notify_lock, unsent, sig>>

\* The host ends.
Close(c) ==
    /\ "close" \in Faults /\ conn[c] \in {"open", "deaf"}
    /\ conn' = [conn EXCEPT ![c] = "closed"]
    /\ UNCHANGED <<main, proc, notify_procs, notify_lock, unsent, sig>>

Heartbeat(c) == Acquire(c) \/ Send(c) \/ SendFails(c) \/ Release(c) \/ Wake(c) \/ Die(c)
Network(c)   == Connect(c) \/ Deliver(c) \/ GoDeaf(c) \/ TimeOut(c) \/ Close(c)

Next ==
    \/ Listen \/ Enlist \/ Terminate \/ CleanUp \/ Exit
    \/ \E c \in Clients : Accept(c) \/ Heartbeat(c) \/ Network(c)

Spec == Init /\ [][Next]_vars

\* Scheduling: every process runs on.  The accept queue is in order and a holder
\* sleeps for a second after each release, so nobody is passed over for ever.
Fairness ==
    /\ WF_vars(Listen) /\ WF_vars(Enlist) /\ WF_vars(CleanUp) /\ WF_vars(Exit)
    /\ \A c \in Clients :
          /\ SF_vars(Accept(c)) /\ SF_vars(Acquire(c))
          /\ WF_vars(Send(c)) /\ WF_vars(SendFails(c)) /\ WF_vars(Release(c))
          /\ WF_vars(Wake(c)) /\ WF_vars(Die(c)) /\ WF_vars(Deliver(c))

FairSpec == Spec /\ Fairness

-----------------------------------------------------------------------------
(* Properties. *)

InCritical(c) == proc[c] \in {"send", "release"}

\* cdn-server.py:62-64: whoever is between acquire and release holds the lock,
\* so no two heartbeat processes are there at once.
HolderOnly == \A c \in Clients : InCritical(c) => notify_lock = c

\* The lock is lost, held by a process that has ended, only if that process's
\* own connection broke or the service is being terminated.
LostOnlyToABreak ==
    \A c \in Clients :
        notify_lock = c /\ ~InCritical(c) =>
            conn[c] = "broken" \/ main \in {"cleaning", "exiting", "exited"}

\* A lock that a dead process holds stays lost: nobody revives the channel
\* service short of restarting it.
LostForGood ==
    [][notify_lock # Free /\ proc[notify_lock] = "dead" => UNCHANGED notify_lock]_vars

\* cdn-server.py:58-60: "Maintains a notification channel's heartbeat": a
\* process that is due to send does so while its own channel is in order and
\* the service runs.
HeartbeatsGoOn ==
    \A c \in Clients :
        proc[c] = "acquire" ~>
            \/ proc[c] = "sleep"
            \/ conn[c] # "open"
            \/ main \notin {"accepting", "forked"}

\* With every channel in order that is so of all the processes that share the
\* lock: it takes a lost channel to stop them.
ChannelsSound == \A c \in Clients : conn[c] \in {"none", "queued", "open"}
SoundMeansHeartbeats == []ChannelsSound => HeartbeatsGoOn

\* cdn-server.py:73-77: the accept loop depends on no channel, so a host that
\* connects gets its heartbeat process whatever happened to the others.
EveryoneAccepted ==
    \A c \in Clients :
        conn[c] = "queued" ~>
            proc[c] # "none" \/ main \notin {"accepting", "forked"}

\* cdn-server.py:36-48: whenever the signal arrives, also between start() and
\* append(), the clean-up leaves no heartbeat process and the service ends.
CleanUpCompletes == main = "cleaning" ~> main = "exited"

\* Nobody is signalled before the service is being terminated.
SignalledOnlyAtExit == sig # {} => main \in {"cleaning", "exiting", "exited"}

\* A channel has no process before it is accepted.
ForkedOnAccept == \A c \in Clients : conn[c] \in {"none", "queued"} => proc[c] = "none"

\* The strengthening that makes the two lock invariants inductive.
CdnInv ==
    /\ TypeOK /\ HolderOnly /\ LostOnlyToABreak
    /\ SignalledOnlyAtExit /\ ForkedOnAccept
=============================================================================
