-------------------------------- MODULE Recoco --------------------------------
(***************************************************************************)
(* POX's cooperative scheduler (lib/recoco/recoco.py) as the controller    *)
(* runs it: the scheduler's thread runs one ready task at a time, the      *)
(* select hub's thread waits for the sockets and times of the others, and  *)
(* any further thread may start a task or hand over a call.                *)
(*                                                                         *)
(*    other threads --ready, event--> scheduler --incoming, ping--> hub    *)
(*          \--calls, callPing--> (hub's select)  <--ready, event--/       *)
(*                                                                         *)
(* A step is what a thread does between two accesses to shared data.       *)
(***************************************************************************)
EXTENDS Integers, Sequences, FiniteSets

CONSTANTS
    Timers,         \* one-shot Timer tasks, each started by a thread of its own
    Io,             \* the OpenFlow task, which selects with a timeout
    CallLater,      \* CallLaterTask
    Callers,        \* threads that call callLater once
    Quitter,        \* the one of them that quits POX
    NoTask

Tasks   == Timers \cup {Io, CallLater}
Timed   == Timers \cup {Io}
Others  == Timers \cup Callers

ASSUME RecocoAssumption ==
    /\ Io # CallLater /\ Timers \cap {Io, CallLater} = {}
    /\ Tasks \cap Callers = {}
    /\ NoTask \notin Tasks

VARIABLES
    ready,          \* Scheduler._ready: tasks, and ScheduleTasks that will start one
    event,          \* SelectHub._event
    hasQuit,
    incoming,       \* SelectHub._incoming
    ping,           \* its pinger is readable
    tasks,          \* SelectHub._tasks
    created,        \* Scheduler._callLaterTask is not None
    calls,          \* CallLaterTask._calls
    callPing,       \* its pinger is readable
    s_pc, s_task,   \* the scheduler's thread and the task it registers
    h_pc,           \* the hub's thread
    h_sel,          \* whose sockets and times it selects on
    h_todo,         \* whom it has yet to return to the scheduler
    h_owes,         \* it has put a task into ready and not yet set the event
    x_pc,           \* the other threads
    data,           \* the OpenFlow task's sockets are readable
    due,            \* tasks whose time has come
    got,            \* tasks resumed because their sockets are readable
    slept,          \* tasks that have been resumed or wait to be
    asked, done,    \* calls handed over, and calls made, in order
    fired           \* timers whose callback was called

readyVars == <<ready, event>>
hubVars   == <<incoming, ping, tasks, h_pc, h_sel, h_todo, h_owes, got>>
callVars  == <<created, calls, callPing, asked, done>>
schedVars == <<s_pc, s_task, slept, fired, hasQuit>>
vars == <<readyVars, hubVars, callVars, schedVars, x_pc, data, due>>

Task(t)  == [start |-> FALSE, task |-> t]
Start(t) == [start |-> TRUE, task |-> t]

TypeOK ==
    /\ ready \in Seq([start : BOOLEAN, task : Tasks])
    /\ incoming \in Seq(Tasks) /\ tasks \subseteq Tasks
    /\ calls \in Seq(Callers) /\ asked \in Seq(Callers) /\ done \in Seq(Callers)
    /\ event \in BOOLEAN /\ hasQuit \in BOOLEAN /\ ping \in BOOLEAN /\ created \in BOOLEAN
    /\ callPing \in BOOLEAN /\ h_owes \in BOOLEAN /\ data \in BOOLEAN
    /\ s_pc \in {"loop", "wait", "clear", "drain", "put", "ping", "done"}
    /\ s_task \in Tasks \cup {NoTask}
    /\ h_pc \in {"top", "expire", "select", "pong", "take", "return", "done", "dead"}
    /\ h_sel \subseteq Tasks /\ h_todo \subseteq Tasks
    /\ x_pc \in [Others -> {"lock", "sched", "wake", "append", "ping", "done"}]
    /\ due \subseteq Timed /\ got \subseteq Tasks /\ slept \subseteq Tasks
    /\ fired \subseteq Timers

\* The OpenFlow task has been scheduled by of_01's start.
Init ==
    /\ ready = <<Start(Io)>> /\ event = TRUE /\ hasQuit = FALSE
    /\ incoming = << >> /\ ping = FALSE /\ tasks = {}
    /\ created = FALSE /\ calls = << >> /\ callPing = FALSE
    /\ s_pc = "loop" /\ s_task = NoTask
    /\ h_pc = "top" /\ h_sel = {} /\ h_todo = {} /\ h_owes = FALSE
    /\ x_pc = [x \in Others |-> IF x \in Callers THEN "lock" ELSE "sched"]
    /\ data = FALSE /\ due = {} /\ got = {} /\ slept = {}
    /\ asked = << >> /\ done = << >> /\ fired = {}

-----------------------------------------------------------------------------
(* Scheduler.run and cycle *)

Idle ==
    /\ s_pc = "loop" /\ ~hasQuit /\ ready = << >>
    /\ s_pc' = "wait"
    /\ UNCHANGED <<readyVars, hubVars, callVars, s_task, slept, fired, hasQuit, x_pc, data, due>>

\* SelectHub.idle: the event is set, or CYCLE_MAXIMUM seconds have passed.
Wakes ==
    /\ s_pc = "wait" /\ event
    /\ s_pc' = "clear"
    /\ UNCHANGED <<readyVars, hubVars, callVars, s_task, slept, fired, hasQuit, x_pc, data, due>>

TimesOut ==
    /\ s_pc = "wait" /\ ~event
    /\ s_pc' = "clear"
    /\ UNCHANGED <<readyVars, hubVars, callVars, s_task, slept, fired, hasQuit, x_pc, data, due>>

Clear ==
    /\ s_pc = "clear"
    /\ event' = FALSE
    /\ s_pc' = "loop"
    /\ UNCHANGED <<ready, hubVars, callVars, s_task, slept, fired, hasQuit, x_pc, data, due>>

\* cycle: r is the first in ready, and it yields something or a Select.
Runs(r)     == s_pc = "loop" /\ ~hasQuit /\ ready # << >> /\ Head(ready) = r
Selects(t)  == s_task' = t /\ s_pc' = "put" /\ ready' = Tail(ready) /\ UNCHANGED event
RunsOn(seq) == ready' = seq /\ event' = TRUE /\ UNCHANGED <<s_pc, s_task>>

\* A ScheduleTask: the task goes first, unless it is in ready already.
RunStart(t) ==
    /\ Runs(Start(t))
    /\ IF \E i \in DOMAIN ready : ready[i] = Task(t)
       THEN ready' = Tail(ready) /\ UNCHANGED <<event, s_pc, s_task>>
       ELSE RunsOn(<<Task(t)>> \o Tail(ready))
    /\ UNCHANGED <<hubVars, callVars, slept, fired, hasQuit, x_pc, data, due>>

\* The OpenFlow task reads what select found, and selects again.
RunIo ==
    /\ Runs(Task(Io))
    /\ Selects(Io)
    /\ data' = (data /\ Io \notin got)
    /\ got' = got \ {Io}
    /\ due' = due \ {Io}
    /\ slept' = slept \cup {Io}
    /\ UNCHANGED <<incoming, ping, tasks, h_pc, h_sel, h_todo, h_owes, callVars, fired, hasQuit, x_pc>>

\* A Timer sleeps until its time, or not at all when that has come.
RunTimer(t) ==
    /\ Runs(Task(t)) /\ t \notin slept
    /\ slept' = slept \cup {t}
    /\ IF t \in due THEN RunsOn(Append(Tail(ready), Task(t))) ELSE Selects(t)
    /\ UNCHANGED <<hubVars, callVars, fired, hasQuit, x_pc, data, due>>

FireTimer(t) ==
    /\ Runs(Task(t)) /\ t \in slept
    /\ fired' = fired \cup {t}
    /\ ready' = Tail(ready)
    /\ UNCHANGED <<event, hubVars, callVars, s_pc, s_task, slept, hasQuit, x_pc, data, due>>

\* CallLaterTask empties its pinger, then makes the calls.
RunCallLater ==
    /\ Runs(Task(CallLater))
    /\ slept' = slept \cup {CallLater}
    /\ got' = got \ {CallLater}
    /\ IF CallLater \notin slept
       THEN Selects(CallLater) /\ UNCHANGED callPing
       ELSE /\ s_pc' = "drain" /\ callPing' = FALSE
            /\ ready' = Tail(ready) /\ UNCHANGED <<event, s_task>>
    /\ UNCHANGED <<incoming, ping, tasks, h_pc, h_sel, h_todo, h_owes, created, calls, asked, done,
                   fired, hasQuit, x_pc, data, due>>

\* Mutant: pop() takes the last.
DrainLast ==
    /\ s_pc = "drain"
    /\ IF calls = << >>
       THEN s_pc' = "put" /\ s_task' = CallLater /\ UNCHANGED <<calls, done, hasQuit>>
       ELSE /\ calls' = SubSeq(calls, 1, Len(calls) - 1)
            /\ done' = Append(done, calls[Len(calls)])
            /\ hasQuit' = (hasQuit \/ calls[Len(calls)] = Quitter)
            /\ UNCHANGED <<s_pc, s_task>>
    /\ UNCHANGED <<readyVars, hubVars, created, callPing, asked, slept, fired, x_pc, data, due>>

\* Mutant: one call each time.
DrainOne ==
    /\ s_pc = "drain"
    /\ s_pc' = "put" /\ s_task' = CallLater
    /\ IF calls = << >>
       THEN UNCHANGED <<calls, done, hasQuit>>
       ELSE /\ calls' = Tail(calls)
            /\ done' = Append(done, Head(calls))
            /\ hasQuit' = (hasQuit \/ Head(calls) = Quitter)
    /\ UNCHANGED <<readyVars, hubVars, created, callPing, asked, slept, fired, x_pc, data, due>>

Drain ==
    /\ s_pc = "drain"
    /\ IF calls = << >>
       THEN s_pc' = "put" /\ s_task' = CallLater /\ UNCHANGED <<calls, done, hasQuit>>
       ELSE /\ calls' = Tail(calls)
            /\ done' = Append(done, Head(calls))
            /\ hasQuit' = (hasQuit \/ Head(calls) = Quitter)
            /\ UNCHANGED <<s_pc, s_task>>
    /\ UNCHANGED <<readyVars, hubVars, created, callPing, asked, slept, fired, x_pc, data, due>>

\* registerSelect
Put ==
    /\ s_pc = "put"
    /\ incoming' = Append(incoming, s_task)
    /\ s_pc' = "ping" /\ s_task' = NoTask
    /\ UNCHANGED <<readyVars, ping, tasks, h_pc, h_sel, h_todo, h_owes, got, callVars, slept,
                    fired, hasQuit, x_pc, data, due>>

Ping ==
    /\ s_pc = "ping"
    /\ ping' = TRUE
    /\ s_pc' = "loop"
    /\ UNCHANGED <<readyVars, incoming, tasks, h_pc, h_sel, h_todo, h_owes, got, callVars, s_task,
                   slept, fired, hasQuit, x_pc, data, due>>

\* The end of run: the hub is woken so that it sees that it should end too.
Quit ==
    /\ s_pc = "loop" /\ hasQuit
    /\ ping' = TRUE
    /\ s_pc' = "done"
    /\ UNCHANGED <<readyVars, incoming, tasks, h_pc, h_sel, h_todo, h_owes, got, callVars, s_task,
                   slept, fired, hasQuit, x_pc, data, due>>

SchedulerStep ==
    \/ Idle \/ Wakes \/ TimesOut \/ Clear \/ RunIo \/ RunCallLater \/ Drain \/ Put \/ Ping \/ Quit
    \/ \E t \in Tasks : RunStart(t)
    \/ \E t \in Timers : RunTimer(t) \/ FireTimer(t)

-----------------------------------------------------------------------------
(* SelectHub._threadProc and _select *)

\* Mutant: times are looked at only when select finds nothing.
HubScanAll ==
    /\ h_pc = "top"
    /\ IF hasQuit
       THEN h_pc' = "done" /\ UNCHANGED h_sel
       ELSE h_sel' = tasks /\ h_pc' = "select"
    /\ UNCHANGED <<readyVars, incoming, ping, tasks, h_todo, h_owes, got, callVars, schedVars, x_pc, data, due>>

\* Mutant: the hub's thread does not end.
HubScanForever ==
    /\ h_pc = "top"
    /\ h_sel' = tasks \ due
    /\ h_todo' = tasks \cap due
    /\ h_pc' = IF h_todo' = {} THEN "select" ELSE "expire"
    /\ UNCHANGED <<readyVars, incoming, ping, tasks, h_owes, got, callVars, schedVars, x_pc, data, due>>

\* Sort out whose time has come.
HubScan ==
    /\ h_pc = "top"
    /\ IF hasQuit
       THEN h_pc' = "done" /\ UNCHANGED <<h_sel, h_todo>>
       ELSE /\ h_sel' = tasks \ due
            /\ h_todo' = tasks \cap due
            /\ h_pc' = IF h_todo' = {} THEN "select" ELSE "expire"
    /\ UNCHANGED <<readyVars, incoming, ping, tasks, h_owes, got, callVars, schedVars, x_pc, data, due>>

Readable == {t \in h_sel : (t = Io /\ data) \/ (t = CallLater /\ callPing)}

HubSelects ==
    /\ h_pc = "select" /\ (ping \/ Readable # {})
    /\ h_todo' = Readable
    /\ got' = got \cup Readable
    /\ h_sel' = {}
    /\ h_pc' = IF ping THEN "pong" ELSE "return"
    /\ UNCHANGED <<readyVars, incoming, ping, tasks, h_owes, callVars, schedVars, x_pc, data, due>>

\* Nothing is readable when the first timeout ends, or after CYCLE_MAXIMUM.
HubTimesOut ==
    /\ h_pc = "select" /\ ~ping /\ Readable = {}
    /\ IF h_sel \cap Timed = {}
       THEN h_pc' = "top" /\ UNCHANGED h_todo
       ELSE /\ \E t \in h_sel \cap due : h_todo' = {t}
            /\ h_pc' = "return"
    /\ h_sel' = {}
    /\ UNCHANGED <<readyVars, incoming, ping, tasks, h_owes, got, callVars, schedVars, x_pc, data, due>>

HubPongs ==
    /\ h_pc = "pong"
    /\ ping' = FALSE
    /\ h_pc' = "take"
    /\ UNCHANGED <<readyVars, incoming, tasks, h_sel, h_todo, h_owes, got, callVars, schedVars, x_pc, data, due>>

\* A task that is in there already fails the assertion, and the thread ends.
HubTakes ==
    /\ h_pc = "take"
    /\ IF incoming = << >>
       THEN /\ h_pc' = IF h_todo = {} THEN "top" ELSE "return"
            /\ UNCHANGED <<incoming, tasks>>
       ELSE /\ incoming' = Tail(incoming)
            /\ tasks' = tasks \cup {Head(incoming)}
            /\ h_pc' = IF Head(incoming) \in tasks THEN "dead" ELSE "take"
    /\ UNCHANGED <<readyVars, ping, h_sel, h_todo, h_owes, got, callVars, schedVars, x_pc, data, due>>

\* _return: fast_schedule, in two steps.
HubReturns ==
    /\ h_pc \in {"expire", "return"} /\ ~h_owes
    /\ \E t \in h_todo :
          /\ tasks' = tasks \ {t}
          /\ ready' = Append(ready, Task(t))
          /\ h_todo' = h_todo \ {t}
    /\ h_owes' = TRUE
    /\ UNCHANGED <<event, incoming, ping, h_pc, h_sel, got, callVars, schedVars, x_pc, data, due>>

HubSets ==
    /\ h_owes
    /\ event' = TRUE
    /\ h_owes' = FALSE
    /\ h_pc' = CASE h_todo # {}      -> h_pc
                 [] h_pc = "expire"  -> "select"
                 [] OTHER            -> "top"
    /\ UNCHANGED <<ready, incoming, ping, tasks, h_sel, h_todo, got, callVars, schedVars, x_pc, data, due>>

HubStep ==
    HubScan \/ HubSelects \/ HubTimesOut \/ HubPongs \/ HubTakes \/ HubReturns \/ HubSets

-----------------------------------------------------------------------------
(* The other threads *)

Goes(x, from, to) == x_pc[x] = from /\ x_pc' = [x_pc EXCEPT ![x] = to]

\* Mutant: nobody waits for the lock.
LockAny(c) ==
    /\ c \in Callers
    /\ Goes(c, "lock", IF created THEN "append" ELSE "sched")
    /\ UNCHANGED <<readyVars, hubVars, callVars, schedVars, data, due>>

\* callLater's lock: the first caller makes and starts the CallLaterTask.
Lock(c) ==
    /\ c \in Callers
    /\ \A d \in Callers : x_pc[d] \notin {"sched", "wake"}
    /\ Goes(c, "lock", IF created THEN "append" ELSE "sched")
    /\ UNCHANGED <<readyVars, hubVars, callVars, schedVars, data, due>>

\* schedule() from another thread: a ScheduleTask, which fast_schedule starts.
Schedule(x) ==
    /\ Goes(x, "sched", "wake")
    /\ ready' = Append(ready, Start(IF x \in Callers THEN CallLater ELSE x))
    /\ created' = (created \/ x \in Callers)
    /\ UNCHANGED <<event, hubVars, calls, callPing, asked, done, schedVars, data, due>>

Wake(x) ==
    /\ Goes(x, "wake", IF x \in Callers THEN "append" ELSE "done")
    /\ event' = TRUE
    /\ UNCHANGED <<ready, hubVars, callVars, schedVars, data, due>>

\* Mutant: the call is made known before it is there.
PingFirst(c) ==
    \/ /\ Goes(c, "append", "ping")
       /\ callPing' = TRUE
       /\ UNCHANGED <<readyVars, hubVars, created, calls, asked, done, schedVars, data, due>>
    \/ /\ Goes(c, "ping", "done")
       /\ calls' = Append(calls, c)
       /\ asked' = Append(asked, c)
       /\ UNCHANGED <<readyVars, hubVars, created, callPing, done, schedVars, data, due>>

AppendCall(c) ==
    /\ Goes(c, "append", "ping")
    /\ calls' = Append(calls, c)
    /\ asked' = Append(asked, c)
    /\ UNCHANGED <<readyVars, hubVars, created, callPing, done, schedVars, data, due>>

PingCalls(c) ==
    /\ Goes(c, "ping", "done")
    /\ callPing' = TRUE
    /\ UNCHANGED <<readyVars, hubVars, created, calls, asked, done, schedVars, data, due>>

\* Time passes, and the switches send.
Elapse(t) ==
    /\ t \notin due
    /\ IF t = Io THEN Io \in tasks ELSE x_pc[t] # "sched" /\ t \notin fired
    /\ due' = due \cup {t}
    /\ UNCHANGED <<readyVars, hubVars, callVars, schedVars, x_pc, data>>

Arrive ==
    /\ ~data
    /\ data' = TRUE
    /\ UNCHANGED <<readyVars, hubVars, callVars, schedVars, x_pc, due>>

OtherStep(x) == Lock(x) \/ Schedule(x) \/ Wake(x) \/ AppendCall(x) \/ PingCalls(x)

Next ==
    \/ SchedulerStep \/ HubStep
    \/ \E x \in Others : OtherStep(x)
    \/ \E t \in Timed : Elapse(t)
    \/ Arrive

Spec == Init /\ [][Next]_vars

\* A thread runs on once it has begun, and time passes; no thread has to come and
\* no switch has to send.
Begun(x) == x_pc[x] # IF x \in Callers THEN "lock" ELSE "sched"

Fairness ==
    /\ WF_vars(SchedulerStep) /\ WF_vars(HubStep)
    /\ \A x \in Others : WF_vars(Begun(x) /\ OtherStep(x))
    /\ \A t \in Timed : WF_vars(Elapse(t))

FairSpec == Spec /\ Fairness

-----------------------------------------------------------------------------
(* Properties *)

\* 733 (assert task not in tasks), 177-180, 192-217: a task is in one place at a time, so
\* that it never runs twice at once and the hub's assertion holds, although three
\* threads move tasks and only the first caller starts the CallLaterTask.
InReady(t)    == {i \in DOMAIN ready : ready[i].task = t}
InIncoming(t) == {i \in DOMAIN incoming : incoming[i] = t}
Running(t)    == s_task = t \/ (s_pc = "drain" /\ t = CallLater)

OnePlace ==
    /\ \A t \in Tasks :
          Cardinality(InReady(t)) + Cardinality(InIncoming(t))
              + (IF t \in tasks THEN 1 ELSE 0) + (IF Running(t) THEN 1 ELSE 0) <= 1
    /\ h_pc # "dead"

\* 647-648, 658, 728-735, 918-926: nothing is left where the thread it is for will
\* not look: what is ready while the scheduler waits, handed to the hub while that
\* selects, or to the CallLaterTask while the hub selects for it, has its
\* wake-up pending, or about to be.
NoLostWakeUp ==
    /\ s_pc = "wait" /\ ready # << >> =>
          event \/ h_owes \/ \E x \in Others : x_pc[x] = "wake"
    /\ h_pc = "select" /\ incoming # << >> => ping \/ s_pc = "ping"
    /\ CallLater \in tasks /\ calls # << >> =>
          callPing \/ CallLater \in got \/ \E c \in Callers : x_pc[c] = "ping"

\* 918-936: each call is made once, in the order of the threads' appends.
Later == INSTANCE LaterCalls
ImplementsLaterCalls == Later!Spec

\* core.py 232-249: a call handed over is made, whatever the switches send,
\* unless POX quits.
CallsMade == \A c \in Callers : x_pc[c] = "append" ~>
    hasQuit \/ \E i \in DOMAIN done : done[i] = c

\* 692-703, 712-725: a timer that was started fires, also when the sockets are never quiet.
TimersFire == \A t \in Timers : x_pc[t] = "wake" ~> t \in fired \/ hasQuit

\* 253-264, 668, core.py 297: quitting ends both threads.
QuitEnds == hasQuit ~> s_pc = "done" /\ h_pc = "done"
-----------------------------------------------------------------------------
(* The strengthening that makes OnePlace and NoLostWakeUp inductive. *)

\* Each thread has what its place calls for.
Places ==
    /\ s_pc = "put" <=> s_task # NoTask
    /\ h_pc # "dead"
    /\ h_sel \subseteq tasks /\ h_todo \subseteq tasks
    /\ h_sel # {} => h_pc \in {"expire", "select"}
    /\ h_pc = "expire" => h_sel \cap h_todo = {}
    /\ h_owes => h_pc \in {"expire", "return"}
    /\ \A t \in Timers : x_pc[t] \in {"sched", "wake", "done"}

\* A task is at most once in a queue, and in one of them, or with a thread.
Apart ==
    /\ \A i, j \in DOMAIN ready : ready[i].task = ready[j].task => i = j
    /\ \A i, j \in DOMAIN incoming : incoming[i] = incoming[j] => i = j
    /\ \A i \in DOMAIN ready :
          /\ ready[i].task \notin tasks /\ ~Running(ready[i].task)
          /\ \A j \in DOMAIN incoming : incoming[j] # ready[i].task
    /\ \A j \in DOMAIN incoming : incoming[j] \notin tasks /\ ~Running(incoming[j])
    /\ \A t \in tasks : ~Running(t)

Absent(t) ==
    /\ t \notin tasks /\ ~Running(t)
    /\ \A i \in DOMAIN ready : ready[i].task # t
    /\ \A j \in DOMAIN incoming : incoming[j] # t

\* A task is nowhere before it is started, and the lock lets one caller start
\* the CallLaterTask.
StartedFirst ==
    /\ ~created => Absent(CallLater)
    /\ \A t \in Timers : x_pc[t] = "sched" => Absent(t)
    /\ \A c \in Callers : x_pc[c] = "sched" => ~created
    /\ \A c, d \in Callers : {x_pc[c], x_pc[d]} \subseteq {"sched", "wake"} => c = d

\* Whoever waits, or has waited, has been resumed before.
Registered ==
    /\ tasks \cup got \subseteq slept
    /\ \A j \in DOMAIN incoming : incoming[j] \in slept
    /\ s_task # NoTask => s_task \in slept
    /\ s_pc = "drain" => CallLater \in slept

\* NoLostWakeUp at the other places of the hub and of the CallLaterTask.
WakeUps ==
    /\ s_pc = "wait" /\ ready # << >> =>
          event \/ h_owes \/ \E x \in Others : x_pc[x] = "wake"
    /\ h_pc \in {"top", "expire", "select", "return"} /\ incoming # << >> => ping \/ s_pc = "ping"
    /\ calls # << >> =>
          callPing \/ CallLater \in got \/ s_pc = "drain" \/ \E c \in Callers : x_pc[c] = "ping"

\* The calls still to be made are those handed over last.
CallsInOrder == asked = done \o calls

IInv ==
    /\ TypeOK /\ Places /\ Apart /\ StartedFirst
    /\ Registered /\ WakeUps /\ CallsInOrder
=============================================================================
