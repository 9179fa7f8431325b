----------------------------- MODULE Recoco_proofs -----------------------------
(***************************************************************************)
(* For any timers, callers and order of the three kinds of threads: a task *)
(* is in one place at a time, no wake-up is lost, and the calls handed     *)
(* over are made once and in order.                                        *)
(***************************************************************************)
EXTENDS Recoco, SequenceTheorems, FiniteSetTheorems, TLAPS

Item == [start : BOOLEAN, task : Tasks]

\* Queues, by their indices.
LEMMA AppendFacts ==
  ASSUME NEW S, NEW s \in Seq(S), NEW e \in S
  PROVE  /\ Append(s, e) \in Seq(S) /\ Append(s, e) # << >>
         /\ \A i \in DOMAIN Append(s, e) :
               \/ i \in DOMAIN s /\ Append(s, e)[i] = s[i]
               \/ i = Len(s) + 1 /\ i \notin DOMAIN s /\ Append(s, e)[i] = e
  OBVIOUS

LEMMA TailFacts ==
  ASSUME NEW S, NEW s \in Seq(S), s # << >>
  PROVE  /\ Tail(s) \in Seq(S) /\ Head(s) \in S
         /\ 1 \in DOMAIN s /\ Head(s) = s[1]
         /\ \A i \in DOMAIN Tail(s) :
               i \in Nat /\ i + 1 \in DOMAIN s /\ i + 1 # 1 /\ Tail(s)[i] = s[i + 1]
  OBVIOUS

LEMMA PushFacts ==
  ASSUME NEW S, NEW s \in Seq(S), s # << >>, NEW e \in S
  PROVE  /\ <<e>> \o Tail(s) \in Seq(S)
         /\ \A i \in DOMAIN (<<e>> \o Tail(s)) :
               \/ i = 1 /\ (<<e>> \o Tail(s))[i] = e
               \/ i \in DOMAIN s /\ i # 1 /\ (<<e>> \o Tail(s))[i] = s[i]
<1> DEFINE t == Tail(s)
<1>1. t \in Seq(S) /\ Len(t) = Len(s) - 1 /\ \A i \in 1..Len(t) : t[i] = s[i + 1]
  OBVIOUS
<1>2. <<e>> \in Seq(S) /\ Len(<<e>>) = 1 /\ <<e>>[1] = e
  OBVIOUS
<1> HIDE DEF t
<1>3. /\ <<e>> \o t \in Seq(S)
      /\ Len(<<e>> \o t) = 1 + Len(t)
      /\ \A i \in 1..(1 + Len(t)) : (<<e>> \o t)[i] = IF i <= 1 THEN <<e>>[i] ELSE t[i - 1]
  BY <1>1, <1>2, ConcatProperties
<1>4. ASSUME NEW i \in DOMAIN (<<e>> \o t)
      PROVE  \/ i = 1 /\ (<<e>> \o t)[i] = e
             \/ i \in DOMAIN s /\ i # 1 /\ (<<e>> \o t)[i] = s[i]
  BY <1>1, <1>2, <1>3
<1> QED BY <1>3, <1>4 DEF t

LEMMA InitIInv == Init => IInv
<1> SUFFICES ASSUME Init PROVE IInv
  OBVIOUS
<1> USE RecocoAssumption DEF Init
<1>1. TypeOK
  <2>1. ready \in Seq([start : BOOLEAN, task : Tasks])
    BY DEF Start, Tasks
  <2>2. x_pc \in [Others -> {"lock", "sched", "wake", "append", "ping", "done"}]
    OBVIOUS
  <2>3. incoming \in Seq(Tasks) /\ calls \in Seq(Callers) /\ asked \in Seq(Callers)
        /\ done \in Seq(Callers)
    OBVIOUS
  <2>4. /\ tasks \subseteq Tasks /\ s_task \in Tasks \cup {NoTask}
        /\ h_sel \subseteq Tasks /\ h_todo \subseteq Tasks
        /\ due \subseteq Timed /\ got \subseteq Tasks /\ slept \subseteq Tasks
        /\ fired \subseteq Timers /\ s_pc = "loop" /\ h_pc = "top"
    OBVIOUS
  <2>5. /\ event \in BOOLEAN /\ hasQuit \in BOOLEAN /\ ping \in BOOLEAN /\ created \in BOOLEAN
        /\ callPing \in BOOLEAN /\ h_owes \in BOOLEAN /\ data \in BOOLEAN
    OBVIOUS
  <2> HIDE DEF Init
  <2> QED BY <2>1, <2>2, <2>3, <2>4, <2>5 DEF TypeOK
<1>2. Len(ready) = 1 /\ ready[1].task = Io /\ DOMAIN incoming = {}
  BY DEF Start
<1>3. Apart /\ StartedFirst
  BY <1>2 DEF Apart, StartedFirst, Absent, Running, Tasks, Others
<1>4. Places /\ Registered /\ WakeUps /\ CallsInOrder
  BY <1>2 DEF Places, Registered, WakeUps, CallsInOrder, Others, Tasks
<1> QED BY <1>1, <1>3, <1>4 DEF IInv

-----------------------------------------------------------------------------
(* Steps that leave the queues alone. *)

LEMMA KeepsApart ==
  ASSUME IInv, UNCHANGED <<ready, incoming, tasks, s_task, x_pc, created>>,
         s_pc' = "drain" <=> s_pc = "drain"
  PROVE  Apart' /\ StartedFirst'
  BY DEF IInv, Apart, StartedFirst, Absent, Running

LEMMA QuietInv ==
  ASSUME IInv, \/ Idle \/ Wakes \/ TimesOut \/ Clear \/ Ping \/ Quit
               \/ HubScan \/ HubSelects \/ HubTimesOut \/ HubPongs \/ HubSets \/ Arrive
               \/ \E t \in Timed : Elapse(t)
  PROVE  IInv'
<1> USE RecocoAssumption
    DEF IInv, TypeOK, Places, Apart, Absent, Running, StartedFirst, Registered, WakeUps,
        CallsInOrder, readyVars, hubVars, callVars, schedVars
<1>1. CASE Idle BY <1>1 DEF Idle
<1>2. CASE Wakes BY <1>2 DEF Wakes
<1>3. CASE TimesOut BY <1>3 DEF TimesOut
<1>4. CASE Clear
  <2>1. Apart' /\ StartedFirst'
    BY <1>4, KeepsApart DEF Clear
  <2> HIDE DEF Apart, StartedFirst
  <2> QED BY <1>4, <2>1 DEF Clear
<1>5. CASE Ping BY <1>5 DEF Ping
<1>6. CASE Quit BY <1>6 DEF Quit
<1>7. CASE HubScan BY <1>7 DEF HubScan
<1>8. CASE HubSelects BY <1>8 DEF HubSelects, Readable
<1>9. CASE HubTimesOut BY <1>9 DEF HubTimesOut, Readable
<1>10. CASE HubPongs
  <2>1. Apart' /\ StartedFirst'
    BY <1>10, KeepsApart DEF HubPongs
  <2> HIDE DEF Apart, StartedFirst
  <2> QED BY <1>10, <2>1 DEF HubPongs
<1>11. CASE HubSets
  <2>1. Apart' /\ StartedFirst'
    BY <1>11, KeepsApart DEF HubSets
  <2> HIDE DEF Apart, StartedFirst
  <2>2. h_pc' \in {h_pc, "select", "top"} /\ h_pc \in {"expire", "return"}
    BY <1>11 DEF HubSets
  <2>3. h_pc' = "select" => h_pc = "expire"
    BY <1>11, <2>2 DEF HubSets
  <2>4. h_pc' = "top" => h_pc = "return"
    BY <1>11, <2>2 DEF HubSets
  <2>5. /\ event' = TRUE /\ h_owes' = FALSE
        /\ UNCHANGED <<ready, incoming, ping, tasks, h_sel, h_todo, got, callVars, schedVars, x_pc,
                       data, due>>
    BY <1>11 DEF HubSets
  <2>6. TypeOK'
    BY <2>2, <2>5
  <2>7. Places'
    BY <2>2, <2>3, <2>4, <2>5
  <2>8. Registered' /\ CallsInOrder'
    BY <2>5
  <2>9. WakeUps'
    BY <2>2, <2>3, <2>4, <2>5
  <2> QED BY <2>1, <2>6, <2>7, <2>8, <2>9
<1>12. CASE Arrive BY <1>12 DEF Arrive
<1>13. CASE \E t \in Timed : Elapse(t) BY <1>13 DEF Elapse
<1> QED BY <1>1, <1>2, <1>3, <1>4, <1>5, <1>6, <1>7, <1>8, <1>9, <1>10, <1>11, <1>12, <1>13

-----------------------------------------------------------------------------
(* Steps that move a task. *)

\* The first task in ready goes, or becomes the one that runs.
LEMMA TailApart ==
  ASSUME IInv, ready # << >>, ready' = Tail(ready),
         UNCHANGED <<incoming, tasks, x_pc, created>>,
         \/ UNCHANGED s_task /\ s_pc' # "drain" /\ s_pc # "drain"
         \/ s_task' = Head(ready).task /\ s_task = NoTask /\ s_pc' # "drain" /\ s_pc # "drain"
         \/ s_task' = NoTask /\ s_task = NoTask /\ s_pc' = "drain" /\ s_pc # "drain"
               /\ Head(ready).task = CallLater
  PROVE  /\ Apart' /\ StartedFirst' /\ ready' \in Seq(Item)
<1>1. ready \in Seq(Item)
  BY DEF IInv, TypeOK, Item
<1>2. /\ ready' \in Seq(Item) /\ Head(ready) \in Item
      /\ 1 \in DOMAIN ready /\ Head(ready) = ready[1]
      /\ \A i \in DOMAIN ready' :
            i \in Nat /\ i + 1 \in DOMAIN ready /\ i + 1 # 1 /\ ready'[i] = ready[i + 1]
  BY <1>1, TailFacts
<1> DEFINE r == Head(ready).task
<1>3. r \in Tasks /\ r # NoTask
  BY <1>2, RecocoAssumption DEF Item
<1>4. \A t \in Tasks : Running(t)' => Running(t) \/ t = r
  BY <1>3, RecocoAssumption DEF Running
<1>5. \A i \in DOMAIN ready' : ready'[i].task \in Tasks /\ ready'[i].task # r
  <2> SUFFICES ASSUME NEW i \in DOMAIN ready' PROVE ready'[i].task \in Tasks /\ ready'[i].task # r
    OBVIOUS
  <2>1. i + 1 \in DOMAIN ready /\ i + 1 # 1 /\ ready'[i] = ready[i + 1]
    BY <1>2
  <2>2. ready[i + 1].task # ready[1].task
    BY <1>2, <2>1 DEF IInv, Apart
  <2>3. ready[i + 1].task \in Tasks
    <3>1. ready[i + 1] \in Item
      BY <1>1, <2>1
    <3> QED BY <3>1 DEF Item
  <2> QED BY <1>2, <2>1, <2>2, <2>3
<1>6. r \notin tasks /\ \A j \in DOMAIN incoming : incoming[j] # r
  BY <1>2 DEF IInv, Apart
<1>7. \A j \in DOMAIN incoming : incoming[j] \in Tasks
  BY DEF IInv, TypeOK
<1>8. tasks \subseteq Tasks
  BY DEF IInv, TypeOK
<1> HIDE DEF r
<1>9. Apart'
  BY <1>2, <1>4, <1>5, <1>6, <1>7, <1>8 DEF IInv, Apart
<1>10. ASSUME NEW t \in Tasks, Absent(t) PROVE Absent(t)'
  BY <1>2, <1>4, <1>10 DEF Absent, r
<1>11. StartedFirst'
  BY <1>10 DEF IInv, StartedFirst, Tasks
<1> QED BY <1>2, <1>9, <1>11

\* The tasks in ready are among those that were, in whatever order.
LEMMA ReorderedApart ==
  ASSUME IInv, UNCHANGED <<incoming, tasks, x_pc, created, s_task, s_pc>>,
         NEW g \in [DOMAIN ready' -> DOMAIN ready],
         \A i, j \in DOMAIN ready' : g[i] = g[j] => i = j,
         \A i \in DOMAIN ready' : ready'[i].task = ready[g[i]].task
  PROVE  Apart' /\ StartedFirst'
<1>1. \A t : Running(t)' <=> Running(t)
  BY DEF Running
<1>2. Apart'
  BY <1>1 DEF IInv, Apart
<1>3. \A t : Absent(t) => Absent(t)'
  BY <1>1 DEF Absent
<1>4. StartedFirst'
  BY <1>3 DEF IInv, StartedFirst
<1> QED BY <1>2, <1>4

\* A ScheduleTask gives way to its task.
LEMMA PushApart ==
  ASSUME IInv, ready # << >>, NEW t \in Tasks, Head(ready).task = t,
         ready' = <<Task(t)>> \o Tail(ready),
         UNCHANGED <<incoming, tasks, x_pc, created, s_task, s_pc>>
  PROVE  Apart' /\ StartedFirst' /\ ready' \in Seq(Item)
<1>1. ready \in Seq(Item) /\ Task(t) \in Item /\ Task(t).task = t
  BY DEF IInv, TypeOK, Item, Task
<1>2. /\ ready' \in Seq(Item)
      /\ \A i \in DOMAIN ready' :
            \/ i = 1 /\ ready'[i] = Task(t)
            \/ i \in DOMAIN ready /\ i # 1 /\ ready'[i] = ready[i]
  BY <1>1, PushFacts
<1>3. 1 \in DOMAIN ready /\ Head(ready) = ready[1]
  BY <1>1
<1> DEFINE g == [i \in DOMAIN ready' |-> i]
<1>4. g \in [DOMAIN ready' -> DOMAIN ready]
  BY <1>2, <1>3
<1>5. \A i \in DOMAIN ready' : ready'[i].task = ready[g[i]].task
  BY <1>1, <1>2, <1>3
<1>6. \A i, j \in DOMAIN ready' : g[i] = g[j] => i = j
  OBVIOUS
<1> HIDE DEF g
<1> QED BY <1>2, <1>4, <1>5, <1>6, ReorderedApart

\* The first goes to the end.
LEMMA RotateApart ==
  ASSUME IInv, ready # << >>, NEW t \in Tasks, Head(ready).task = t,
         ready' = Append(Tail(ready), Task(t)),
         UNCHANGED <<incoming, tasks, x_pc, created, s_task, s_pc>>
  PROVE  Apart' /\ StartedFirst' /\ ready' \in Seq(Item)
<1>1. ready \in Seq(Item) /\ Task(t) \in Item /\ Task(t).task = t
  BY DEF IInv, TypeOK, Item, Task
<1> DEFINE w == Tail(ready)
<1>2. /\ w \in Seq(Item)
      /\ 1 \in DOMAIN ready /\ Head(ready) = ready[1]
      /\ \A i \in DOMAIN w : i \in Nat /\ i + 1 \in DOMAIN ready /\ i + 1 # 1 /\ w[i] = ready[i + 1]
  BY <1>1, TailFacts
<1> HIDE DEF w
<1>3. ready' = Append(w, Task(t))
  BY DEF w
<1>4. /\ ready' \in Seq(Item)
      /\ \A i \in DOMAIN ready' :
            \/ i \in DOMAIN w /\ ready'[i] = w[i]
            \/ i = Len(w) + 1 /\ i \notin DOMAIN w /\ ready'[i] = Task(t)
  BY <1>1, <1>2, <1>3, AppendFacts
<1> DEFINE g == [i \in DOMAIN ready' |-> IF i \in DOMAIN w THEN i + 1 ELSE 1]
<1>5. g \in [DOMAIN ready' -> DOMAIN ready]
  BY <1>2, <1>4
<1>6. \A i \in DOMAIN ready' : ready'[i].task = ready[g[i]].task
  BY <1>1, <1>2, <1>4
<1>7. \A i, j \in DOMAIN ready' : g[i] = g[j] => i = j
  BY <1>2, <1>4
<1> HIDE DEF g
<1> QED BY <1>4, <1>5, <1>6, <1>7, ReorderedApart

\* A task that is in no queue and with no thread enters ready.
LEMMA EnterApart ==
  ASSUME IInv, NEW e \in Item, ready' = Append(ready, e), tasks' = tasks \ {e.task},
         UNCHANGED <<incoming, s_task, s_pc>>,
         \A i \in DOMAIN ready : ready[i].task # e.task,
         \A j \in DOMAIN incoming : incoming[j] # e.task,
         ~Running(e.task)
  PROVE  /\ Apart' /\ ready' \in Seq(Item)
         /\ \A t : Absent(t) /\ t # e.task => Absent(t)'
<1>1. ready \in Seq(Item)
  BY DEF IInv, TypeOK, Item
<1>2. /\ ready' \in Seq(Item)
      /\ \A i \in DOMAIN ready' :
            \/ i \in DOMAIN ready /\ ready'[i] = ready[i]
            \/ i = Len(ready) + 1 /\ i \notin DOMAIN ready /\ ready'[i] = e
  BY <1>1, AppendFacts
<1>3. \A t : Running(t)' <=> Running(t)
  BY DEF Running
<1>4. Apart'
  BY <1>2, <1>3 DEF IInv, Apart
<1>5. \A t : Absent(t) /\ t # e.task => Absent(t)'
  BY <1>2, <1>3 DEF Absent
<1> QED BY <1>2, <1>4, <1>5

\* What ready holds are tasks.
LEMMA ReadyFacts ==
  ASSUME IInv
  PROVE  ready \in Seq(Item) /\ \A i \in DOMAIN ready : ready[i].task \in Tasks
<1>1. ready \in Seq(Item)
  BY DEF IInv, TypeOK, Item
<1>2. \A i \in DOMAIN ready : ready[i] \in Item
  BY <1>1
<1> QED BY <1>1, <1>2 DEF Item

\* Whom the scheduler's thread has resumed, it registers.
LEMMA PutApart ==
  ASSUME IInv, Put
  PROVE  Apart' /\ StartedFirst' /\ incoming' \in Seq(Tasks)
<1>1. /\ s_task \in Tasks /\ s_task # NoTask /\ s_task' = NoTask /\ s_pc = "put" /\ s_pc' = "ping"
      /\ incoming' = Append(incoming, s_task)
      /\ UNCHANGED <<ready, tasks, x_pc, created>>
  BY DEF Put, IInv, TypeOK, Places, readyVars, callVars
<1>2. /\ incoming' \in Seq(Tasks)
      /\ \A i \in DOMAIN incoming' :
            \/ i \in DOMAIN incoming /\ incoming'[i] = incoming[i]
            \/ i = Len(incoming) + 1 /\ i \notin DOMAIN incoming /\ incoming'[i] = s_task
  BY <1>1, AppendFacts DEF IInv, TypeOK
<1>3. \A t \in Tasks : ~Running(t)'
  BY <1>1, RecocoAssumption DEF Running
<1>4. Running(s_task)
  BY DEF Running
<1>5. \A i \in DOMAIN ready : ready[i].task \in Tasks
  BY ReadyFacts
<1>6. \A j \in DOMAIN incoming : incoming[j] \in Tasks
  BY DEF IInv, TypeOK
<1>7. Apart'
  BY <1>1, <1>2, <1>3, <1>4, <1>5, <1>6 DEF IInv, TypeOK, Apart
<1>8. ASSUME NEW t \in Tasks, Absent(t) PROVE Absent(t)'
  BY <1>1, <1>2, <1>3, <1>4, <1>8 DEF Absent
<1>9. StartedFirst'
  BY <1>1, <1>8 DEF IInv, StartedFirst, Tasks
<1> QED BY <1>2, <1>7, <1>9

\* The hub takes whom it is handed, and finds it nowhere else.
LEMMA HubTakesInv == ASSUME IInv, HubTakes PROVE IInv'
<1>1. CASE incoming = << >>
  BY <1>1 DEF HubTakes, IInv, TypeOK, Places, Apart, Absent, Running, StartedFirst, Registered,
     WakeUps, CallsInOrder, readyVars, callVars, schedVars
<1>2. CASE incoming # << >>
  <2> DEFINE t == Head(incoming)
  <2>1. /\ h_pc = "take" /\ incoming' = Tail(incoming) /\ tasks' = tasks \cup {t}
        /\ h_pc' = IF t \in tasks THEN "dead" ELSE "take"
        /\ UNCHANGED <<readyVars, ping, h_sel, h_todo, h_owes, got, callVars, schedVars, x_pc,
                       data, due>>
    BY <1>2 DEF HubTakes
  <2>2. /\ incoming' \in Seq(Tasks) /\ t \in Tasks
        /\ 1 \in DOMAIN incoming /\ t = incoming[1]
        /\ \A i \in DOMAIN incoming' :
              i \in Nat /\ i + 1 \in DOMAIN incoming /\ i + 1 # 1 /\ incoming'[i] = incoming[i + 1]
    BY <1>2, <2>1, TailFacts DEF IInv, TypeOK
  <2> HIDE DEF t
  <2>3. t \notin tasks /\ ~Running(t) /\ \A i \in DOMAIN ready : ready[i].task # t
    BY <2>2 DEF IInv, Apart
  <2>4. \A u : Running(u)' <=> Running(u)
    BY <2>1 DEF Running, schedVars
  <2>5. \A i \in DOMAIN incoming' : incoming'[i] # t
    BY <2>2 DEF IInv, Apart
  <2>6. Apart'
    BY <2>1, <2>2, <2>3, <2>4, <2>5 DEF IInv, Apart, readyVars
  <2>7. \A u : Absent(u) => Absent(u)'
    BY <2>1, <2>2, <2>4 DEF Absent, readyVars
  <2>8. StartedFirst'
    BY <2>1, <2>7 DEF IInv, StartedFirst, callVars
  <2>9. Registered'
    BY <2>1, <2>2 DEF IInv, Registered, schedVars
  <2>10. TypeOK' /\ Places' /\ WakeUps' /\ CallsInOrder'
    BY <2>1, <2>2, <2>3 DEF IInv, TypeOK, Places, WakeUps, CallsInOrder, readyVars, callVars,
       schedVars
  <2> QED BY <2>6, <2>8, <2>9, <2>10 DEF IInv
<1> QED BY <1>1, <1>2

LEMMA HubReturnsInv == ASSUME IInv, HubReturns PROVE IInv'
<1>1. PICK t \in h_todo :
         /\ tasks' = tasks \ {t}
         /\ ready' = Append(ready, Task(t))
         /\ h_todo' = h_todo \ {t}
  BY DEF HubReturns
<1>2. /\ h_pc \in {"expire", "return"} /\ h_owes' = TRUE
      /\ UNCHANGED <<event, incoming, ping, h_pc, h_sel, got, callVars, schedVars, x_pc, data, due>>
  BY DEF HubReturns
<1>3. t \in tasks /\ t \in Tasks /\ Task(t) \in Item /\ Task(t).task = t
  BY DEF IInv, TypeOK, Places, Item, Task
<1>4. /\ ~Running(t)
      /\ \A i \in DOMAIN ready : ready[i].task # t
      /\ \A j \in DOMAIN incoming : incoming[j] # t
  BY <1>3 DEF IInv, Apart
<1>5. /\ Apart' /\ ready' \in Seq(Item)
      /\ \A u : Absent(u) /\ u # t => Absent(u)'
  BY <1>1, <1>2, <1>3, <1>4, EnterApart DEF schedVars
<1>6. ~Absent(t)
  BY <1>3 DEF Absent
<1>7. StartedFirst'
  BY <1>2, <1>5, <1>6 DEF IInv, StartedFirst, callVars
<1>8. h_sel \subseteq tasks'
  BY <1>1, <1>2 DEF IInv, Places
<1>9. TypeOK' /\ Places' /\ Registered' /\ WakeUps' /\ CallsInOrder'
  BY <1>1, <1>2, <1>5, <1>8 DEF IInv, TypeOK, Places, Registered, WakeUps, CallsInOrder, callVars,
     schedVars, Item
<1> QED BY <1>5, <1>7, <1>9 DEF IInv

-----------------------------------------------------------------------------
(* The scheduler's thread. *)

LEMMA RunStartInv == ASSUME IInv, NEW t \in Tasks, RunStart(t) PROVE IInv'
<1>1. /\ s_pc = "loop" /\ ready # << >> /\ Head(ready).task = t
      /\ UNCHANGED <<hubVars, callVars, slept, fired, hasQuit, x_pc, data, due>>
  BY DEF RunStart, Runs, Start
<1>2. UNCHANGED <<s_pc, s_task>> /\ (UNCHANGED event \/ event' = TRUE)
  BY DEF RunStart, RunsOn
<1>3. Apart' /\ StartedFirst' /\ ready' \in Seq(Item)
  <2>1. CASE ready' = Tail(ready)
    BY <1>1, <1>2, <2>1, TailApart DEF hubVars, callVars
  <2>2. CASE ready' = <<Task(t)>> \o Tail(ready)
    BY <1>1, <1>2, <2>2, PushApart DEF hubVars, callVars
  <2> QED BY <2>1, <2>2 DEF RunStart, RunsOn
<1>4. TypeOK' /\ Places'
  BY <1>1, <1>2, <1>3 DEF IInv, TypeOK, Places, hubVars, callVars, Item
<1>5. Registered' /\ WakeUps' /\ CallsInOrder'
  BY <1>1, <1>2 DEF IInv, Registered, WakeUps, CallsInOrder, hubVars, callVars
<1> QED BY <1>3, <1>4, <1>5 DEF IInv

LEMMA RunIoInv == ASSUME IInv, RunIo PROVE IInv'
<1>1. /\ s_pc = "loop" /\ s_task = NoTask /\ ready # << >> /\ Head(ready).task = Io
      /\ s_task' = Io /\ s_pc' = "put" /\ ready' = Tail(ready) /\ UNCHANGED event
      /\ got' = got \ {Io} /\ due' = due \ {Io} /\ slept' = slept \cup {Io}
      /\ data' \in BOOLEAN
      /\ UNCHANGED <<incoming, ping, tasks, h_pc, h_sel, h_todo, h_owes, callVars, fired, hasQuit,
                     x_pc>>
  BY DEF RunIo, Runs, Selects, Task, IInv, Places
<1>2. Apart' /\ StartedFirst' /\ ready' \in Seq(Item)
  BY <1>1, TailApart DEF callVars
<1> QED
  BY <1>1, <1>2, RecocoAssumption DEF IInv, TypeOK, Places, Registered, WakeUps, CallsInOrder,
     callVars, Item, Tasks

LEMMA TimerInv ==
  ASSUME IInv, NEW t \in Timers, RunTimer(t) \/ FireTimer(t)
  PROVE  IInv'
<1>1. /\ s_pc = "loop" /\ s_task = NoTask /\ ready # << >> /\ Head(ready).task = t
      /\ UNCHANGED <<hubVars, callVars, hasQuit, x_pc, data, due>>
      /\ slept' \in {slept, slept \cup {t}} /\ fired' \in {fired, fired \cup {t}}
  BY DEF RunTimer, FireTimer, Runs, Task, IInv, Places
<1>2. t \in Tasks /\ t # NoTask
  BY RecocoAssumption DEF Tasks
<1>3. CASE /\ ready' = Append(Tail(ready), Task(t)) /\ event' = TRUE /\ UNCHANGED <<s_pc, s_task>>
  <2>1. Apart' /\ StartedFirst' /\ ready' \in Seq(Item)
    BY <1>1, <1>2, <1>3, RotateApart DEF hubVars, callVars
  <2> QED
    BY <1>1, <1>2, <1>3, <2>1 DEF IInv, TypeOK, Places, Registered, WakeUps, CallsInOrder,
       callVars, hubVars, Item
<1>4. CASE /\ ready' = Tail(ready) /\ UNCHANGED event
           /\ \/ UNCHANGED <<s_pc, s_task>>
              \/ s_pc' = "put" /\ s_task' = t /\ slept' = slept \cup {t}
  <2>1. Apart' /\ StartedFirst' /\ ready' \in Seq(Item)
    BY <1>1, <1>4, TailApart DEF hubVars, callVars
  <2>2. TypeOK' /\ Places'
    BY <1>1, <1>2, <1>4, <2>1 DEF IInv, TypeOK, Places, hubVars, callVars, Item
  <2>3. Registered' /\ WakeUps' /\ CallsInOrder'
    BY <1>1, <1>2, <1>4 DEF IInv, Registered, WakeUps, CallsInOrder, hubVars, callVars
  <2> QED BY <2>1, <2>2, <2>3 DEF IInv
<1> QED BY <1>3, <1>4 DEF RunTimer, FireTimer, RunsOn, Selects

LEMMA RunCallLaterInv == ASSUME IInv, RunCallLater PROVE IInv'
<1>1. /\ s_pc = "loop" /\ s_task = NoTask /\ ready # << >> /\ Head(ready).task = CallLater
      /\ slept' = slept \cup {CallLater} /\ got' = got \ {CallLater}
      /\ ready' = Tail(ready) /\ UNCHANGED event
      /\ UNCHANGED <<incoming, ping, tasks, h_pc, h_sel, h_todo, h_owes, created, calls, asked,
                     done, fired, hasQuit, x_pc, data, due>>
  BY DEF RunCallLater, Runs, Task, IInv, Places, Selects
<1>2. \/ CallLater \notin slept /\ s_task' = CallLater /\ s_pc' = "put" /\ UNCHANGED callPing
      \/ s_pc' = "drain" /\ callPing' = FALSE /\ UNCHANGED s_task
  BY DEF RunCallLater, Selects
<1>3. CallLater \in Tasks /\ CallLater # NoTask
  BY RecocoAssumption DEF Tasks
<1>4. Apart' /\ StartedFirst' /\ ready' \in Seq(Item)
  BY <1>1, <1>2, TailApart
<1>5. WakeUps'
  BY <1>1, <1>2 DEF IInv, WakeUps, Registered
<1>6. TypeOK'
  BY <1>1, <1>2, <1>3, <1>4 DEF IInv, TypeOK, Item
<1>7. Places'
  BY <1>1, <1>2, <1>3 DEF IInv, Places
<1>8. Registered' /\ CallsInOrder'
  BY <1>1, <1>2 DEF IInv, Registered, CallsInOrder
<1> QED BY <1>4, <1>5, <1>6, <1>7, <1>8 DEF IInv

\* A call taken from the front of those handed over.
LEMMA CallFacts ==
  ASSUME NEW S, NEW d \in Seq(S), NEW c \in Seq(S), c # << >>
  PROVE  d \o c = Append(d, Head(c)) \o Tail(c)
  OBVIOUS

LEMMA AskFacts ==
  ASSUME NEW d \in Seq(Callers), NEW c \in Seq(Callers), NEW e \in Callers
  PROVE  Append(d \o c, e) = d \o Append(c, e)
  OBVIOUS

LEMMA DrainInv == ASSUME IInv, Drain PROVE IInv'
<1>1. /\ s_pc = "drain" /\ s_task = NoTask
      /\ UNCHANGED <<readyVars, hubVars, created, callPing, asked, slept, fired, x_pc, data, due>>
  BY DEF Drain, IInv, Places
<1>2. \A t \in Tasks : Running(t)' <=> Running(t)
  BY <1>1, RecocoAssumption DEF Drain, Running
<1>3. Apart'
  BY <1>1, <1>2, ReadyFacts DEF IInv, TypeOK, Apart, readyVars, hubVars
<1>4. \A t \in Tasks : Absent(t)' <=> Absent(t)
  BY <1>1, <1>2 DEF Absent, readyVars, hubVars
<1>5. StartedFirst'
  BY <1>1, <1>4 DEF IInv, StartedFirst, Tasks
<1>6. CASE calls = << >>
  <2>1. s_pc' = "put" /\ s_task' = CallLater /\ UNCHANGED <<calls, done, hasQuit>>
    BY <1>6 DEF Drain
  <2>2. CallLater \in slept /\ CallLater \in Tasks
    BY <1>1 DEF IInv, Registered, Tasks
  <2> QED
    BY <1>1, <1>3, <1>5, <1>6, <2>1, <2>2, RecocoAssumption DEF IInv, TypeOK, Places, Registered,
       WakeUps, CallsInOrder, readyVars, hubVars
<1>7. CASE calls # << >>
  <2>1. /\ calls' = Tail(calls) /\ done' = Append(done, Head(calls)) /\ UNCHANGED <<s_pc, s_task>>
        /\ hasQuit' \in BOOLEAN
    BY <1>7 DEF Drain, IInv, TypeOK
  <2>2. /\ done \o calls = done' \o calls'
        /\ calls' \in Seq(Callers) /\ done' \in Seq(Callers)
    BY <1>7, <2>1, CallFacts DEF IInv, TypeOK
  <2> QED
    BY <1>1, <1>3, <1>5, <2>1, <2>2 DEF IInv, TypeOK, Places, Registered, WakeUps, CallsInOrder,
       readyVars, hubVars
<1> QED BY <1>6, <1>7

-----------------------------------------------------------------------------
(* The other threads. *)

LEMMA OthersInv == ASSUME IInv, NEW x \in Others, OtherStep(x) PROVE IInv'
<1> USE DEF Goes, hubVars, callVars, schedVars, readyVars
<1>0. x \in Callers \/ (x \in Timers /\ x \notin Callers)
  BY RecocoAssumption DEF Others, Tasks
<1>1. CASE Lock(x)
  <2>1. /\ x \in Callers /\ x_pc[x] = "lock"
        /\ \A d \in Callers : x_pc[d] \notin {"sched", "wake"}
        /\ x_pc' = [x_pc EXCEPT ![x] = IF created THEN "append" ELSE "sched"]
        /\ UNCHANGED <<readyVars, hubVars, callVars, schedVars, data, due>>
    BY <1>1 DEF Lock
  <2>2. x \notin Timers
    BY <2>1, RecocoAssumption DEF Tasks
  <2>3. \A y \in Others : y # x => x_pc'[y] = x_pc[y]
    BY <2>1 DEF IInv, TypeOK
  <2>4. x_pc'[x] = IF created THEN "append" ELSE "sched"
    BY <2>1 DEF IInv, TypeOK
  <2>5. StartedFirst'
    BY <2>1, <2>2, <2>3, <2>4 DEF IInv, StartedFirst, Absent, Running, Others
  <2>6. Apart' /\ Registered' /\ CallsInOrder'
    BY <2>1 DEF IInv, Apart, Running, Registered, CallsInOrder
  <2>7. TypeOK' /\ Places' /\ WakeUps'
    BY <2>1, <2>2, <2>3, <2>4 DEF IInv, TypeOK, Places, WakeUps, Others
  <2> QED BY <2>5, <2>6, <2>7 DEF IInv
<1>2. CASE Schedule(x)
  <2> DEFINE t == IF x \in Callers THEN CallLater ELSE x
             e == Start(t)
  <2>1. /\ x_pc[x] = "sched" /\ x_pc' = [x_pc EXCEPT ![x] = "wake"]
        /\ ready' = Append(ready, e)
        /\ created' = (created \/ x \in Callers)
        /\ UNCHANGED <<event, hubVars, calls, callPing, asked, done, schedVars, data, due>>
    BY <1>2 DEF Schedule
  <2>2. e \in Item /\ e.task = t /\ t \in Tasks
    BY <1>0 DEF Item, Start, Tasks
  <2>3. Absent(t)
    BY <1>0, <2>1 DEF IInv, StartedFirst
  <2>4. t \notin tasks /\ tasks' = tasks \ {t}
    BY <2>1, <2>3 DEF Absent
  <2> HIDE DEF e
  <2>5. /\ Apart' /\ ready' \in Seq(Item)
        /\ \A u : Absent(u) /\ u # t => Absent(u)'
    BY <2>1, <2>2, <2>3, <2>4, EnterApart DEF Absent
  <2>6. \A y \in Others : x_pc'[y] = IF y = x THEN "wake" ELSE x_pc[y]
    BY <2>1 DEF IInv, TypeOK
  <2>7. StartedFirst'
    <3>1. ASSUME ~created' PROVE Absent(CallLater)'
      BY <1>0, <2>1, <2>5, <3>1, RecocoAssumption DEF IInv, StartedFirst
    <3>2. ASSUME NEW u \in Timers, x_pc'[u] = "sched" PROVE Absent(u)'
      BY <1>0, <2>5, <2>6, <3>2, RecocoAssumption DEF IInv, StartedFirst, Others, Tasks
    <3>3. ASSUME NEW c \in Callers, x_pc'[c] = "sched" PROVE ~created'
      <4>1. c # x /\ x_pc[c] = "sched" /\ x_pc[x] = "sched"
        BY <2>1, <2>6, <3>3 DEF Others
      <4>2. ~created /\ x \notin Callers
        BY <4>1 DEF IInv, StartedFirst
      <4> QED BY <2>1, <4>2
    <3>4. ASSUME NEW c \in Callers, NEW d \in Callers, {x_pc'[c], x_pc'[d]} \subseteq {"sched", "wake"}
          PROVE  c = d
      BY <2>1, <2>6, <3>4 DEF IInv, StartedFirst, Others
    <3> QED BY <3>1, <3>2, <3>3, <3>4 DEF StartedFirst
  <2>8. TypeOK'
    BY <2>1, <2>5 DEF IInv, TypeOK, Item
  <2>9. WakeUps' /\ Places'
    BY <2>1, <2>6 DEF IInv, WakeUps, Places, Others
  <2>10. Registered' /\ CallsInOrder'
    BY <2>1 DEF IInv, Registered, CallsInOrder
  <2> QED BY <2>5, <2>7, <2>8, <2>9, <2>10 DEF IInv
<1>3. CASE Wake(x) \/ AppendCall(x) \/ PingCalls(x)
  <2>1. /\ x_pc[x] \in {"wake", "append", "ping"}
        /\ x_pc' = [x_pc EXCEPT ![x] = x_pc'[x]]
        /\ x_pc'[x] \in {"append", "ping", "done"}
        /\ UNCHANGED <<ready, hubVars, created, done, schedVars, data, due>>
    BY <1>3 DEF Wake, AppendCall, PingCalls, IInv, TypeOK
  <2>2. x \in Timers => x_pc'[x] = "done"
    BY <1>3, RecocoAssumption DEF Wake, AppendCall, PingCalls, IInv, TypeOK, Places, Tasks
  <2>3. \A y \in Others : y # x => x_pc'[y] = x_pc[y]
    BY <2>1 DEF IInv, TypeOK
  <2>4. Apart'
    BY <2>1 DEF IInv, Apart, Running
  <2>5. StartedFirst'
    BY <2>1, <2>3 DEF IInv, StartedFirst, Absent, Running, Others
  <2>6. Places' /\ Registered'
    BY <2>1, <2>2, <2>3 DEF IInv, Places, Registered, Others
  <2>7. TypeOK' /\ CallsInOrder' /\ WakeUps'
    <3>1. CASE Wake(x)
      BY <2>1, <2>3, <3>1 DEF Wake, IInv, TypeOK, CallsInOrder, WakeUps, Others
    <3>2. CASE PingCalls(x)
      BY <2>1, <2>3, <3>2 DEF PingCalls, IInv, TypeOK, CallsInOrder, WakeUps, Others
    <3>3. CASE AppendCall(x)
      <4>1. x \in Callers
        BY <1>0, <3>3 DEF AppendCall, IInv, Places
      <4>2. /\ calls' = Append(calls, x) /\ asked' = Append(asked, x)
            /\ UNCHANGED <<event, callPing>> /\ x_pc'[x] = "ping"
        BY <3>3 DEF AppendCall, IInv, TypeOK
      <4>3. CallsInOrder'
        <5>1. done \in Seq(Callers) /\ calls \in Seq(Callers) /\ asked = done \o calls
          BY DEF IInv, TypeOK, CallsInOrder
        <5>2. Append(done \o calls, x) = done \o Append(calls, x)
          BY <4>1, <5>1, AskFacts
        <5>3. asked' = done' \o calls'
          BY <2>1, <4>2, <5>1, <5>2
        <5> QED BY <5>3 DEF CallsInOrder
      <4>4. TypeOK'
        <5>1. calls' \in Seq(Callers) /\ asked' \in Seq(Callers)
          BY <4>1, <4>2 DEF IInv, TypeOK
        <5>2. x_pc' \in [Others -> {"lock", "sched", "wake", "append", "ping", "done"}]
          BY <2>1, <4>2 DEF IInv, TypeOK
        <5> QED BY <2>1, <4>2, <5>1, <5>2 DEF IInv, TypeOK
      <4>5. WakeUps'
        <5>1. \E c \in Callers : x_pc'[c] = "ping"
          BY <4>1, <4>2
        <5>2. \A y \in Others : x_pc[y] = "wake" => x_pc'[y] = "wake"
          BY <2>3, <3>3 DEF AppendCall
        <5> QED BY <2>1, <4>2, <5>1, <5>2 DEF IInv, WakeUps
      <4> QED BY <4>3, <4>4, <4>5
    <3> QED BY <1>3, <3>1, <3>2, <3>3
  <2> QED BY <2>4, <2>5, <2>6, <2>7 DEF IInv
<1> QED BY <1>1, <1>2, <1>3 DEF OtherStep

LEMMA StepIInv == IInv /\ [Next]_vars => IInv'
<1> SUFFICES ASSUME IInv, [Next]_vars PROVE IInv'
  OBVIOUS
<1>1. CASE Put
  <2>1. Apart' /\ StartedFirst' /\ incoming' \in Seq(Tasks)
    BY <1>1, PutApart
  <2>2. /\ s_task \in Tasks /\ s_task # NoTask /\ s_task' = NoTask /\ s_pc = "put" /\ s_pc' = "ping"
        /\ incoming' = Append(incoming, s_task)
        /\ UNCHANGED <<readyVars, ping, tasks, h_pc, h_sel, h_todo, h_owes, got, callVars, slept,
                       fired, hasQuit, x_pc, data, due>>
    BY <1>1 DEF Put, IInv, TypeOK, Places
  <2>3. \A i \in DOMAIN incoming' : incoming'[i] \in slept
    BY <2>2 DEF IInv, TypeOK, Registered
  <2> QED
    BY <2>1, <2>2, <2>3 DEF IInv, TypeOK, Places, Registered, WakeUps, CallsInOrder, readyVars,
       callVars
<1>2. CASE UNCHANGED vars
  BY <1>2 DEF vars, readyVars, hubVars, callVars, schedVars, IInv, TypeOK, Places, Apart, Absent,
     Running, StartedFirst, Registered, WakeUps, CallsInOrder
<1>3. CASE SchedulerStep
  BY <1>1, <1>3, QuietInv, RunStartInv, RunIoInv, TimerInv, RunCallLaterInv, DrainInv
     DEF SchedulerStep
<1>4. CASE HubStep
  BY <1>4, QuietInv, HubTakesInv, HubReturnsInv DEF HubStep
<1> QED BY <1>2, <1>3, <1>4, OthersInv, QuietInv DEF Next

-----------------------------------------------------------------------------

\* The inductive invariant of the scheduler, the hub and the other threads.
THEOREM Invariance == Spec => []IInv
<1> QED BY InitIInv, StepIInv, PTL DEF Spec

\* Every variable keeps its type.
THEOREM RecocoTypeCorrect == Spec => []TypeOK
<1>1. IInv => TypeOK
  BY DEF IInv
<1> QED BY <1>1, Invariance, PTL

\* No task is in two places, and the hub's assertion never fails.
THEOREM AlwaysOnePlace == Spec => []OnePlace
<1>1. ASSUME IInv PROVE OnePlace
  <2>1. h_pc # "dead"
    BY <1>1 DEF IInv, Places
  <2> SUFFICES ASSUME NEW t \in Tasks
               PROVE  Cardinality(InReady(t)) + Cardinality(InIncoming(t))
                          + (IF t \in tasks THEN 1 ELSE 0) + (IF Running(t) THEN 1 ELSE 0) <= 1
    BY <2>1 DEF OnePlace
  <2>2. InReady(t) = {} \/ \E i : InReady(t) = {i}
    BY <1>1 DEF IInv, Apart, InReady
  <2>3. InIncoming(t) = {} \/ \E j : InIncoming(t) = {j}
    BY <1>1 DEF IInv, Apart, InIncoming
  <2>4. /\ InReady(t) # {} => InIncoming(t) = {} /\ t \notin tasks /\ ~Running(t)
        /\ InIncoming(t) # {} => t \notin tasks /\ ~Running(t)
        /\ t \in tasks => ~Running(t)
    BY <1>1 DEF IInv, Apart, InReady, InIncoming
  <2>5. /\ Cardinality(InReady(t)) = IF InReady(t) = {} THEN 0 ELSE 1
        /\ Cardinality(InIncoming(t)) = IF InIncoming(t) = {} THEN 0 ELSE 1
    BY <2>2, <2>3, FS_EmptySet, FS_Singleton
  <2> QED BY <2>4, <2>5
<1> QED BY <1>1, Invariance, PTL

\* What a thread has left for another is never overlooked.
THEOREM NoWakeUpIsLost == Spec => []NoLostWakeUp
<1>1. ASSUME IInv PROVE NoLostWakeUp
  <2>1. CallLater \in tasks => s_pc # "drain"
    BY <1>1 DEF IInv, Apart, Running
  <2> QED BY <1>1, <2>1 DEF IInv, WakeUps, NoLostWakeUp
<1> QED BY <1>1, Invariance, PTL

\* The calls are made once and in the order they were handed over.
THEOREM CallsAreMadeInOrder == Spec => ImplementsLaterCalls
<1>1. Init => Later!Init
  BY DEF Init, Later!Init
<1>2. ASSUME IInv, [Next]_vars PROVE [Later!Next]_(Later!vars)
  <2>1. CASE Drain /\ calls # << >>
    <3>1. /\ done' = Append(done, Head(calls)) /\ UNCHANGED asked
          /\ asked = done \o calls /\ done \in Seq(Callers) /\ calls \in Seq(Callers)
      BY <1>2, <2>1 DEF Drain, IInv, CallsInOrder, TypeOK
    <3>2. Len(done) < Len(asked) /\ asked[Len(done) + 1] = Head(calls)
      BY <2>1, <3>1, ConcatProperties
    <3> QED BY <3>1, <3>2 DEF Later!Next, Later!Call
  <2>2. ASSUME NEW x \in Others, AppendCall(x) PROVE Later!Next
    <3>1. x \in Callers
      BY <1>2, <2>2, RecocoAssumption DEF AppendCall, Goes, IInv, Places, Others, Tasks
    <3> QED BY <2>2, <3>1 DEF AppendCall, Later!Next, Later!Ask
  <2>3. CASE UNCHANGED <<asked, done>>
    BY <2>3 DEF Later!vars
  <2>4. CASE SchedulerStep /\ ~(Drain /\ calls # << >>)
    BY <2>3, <2>4 DEF SchedulerStep, Idle, Wakes, TimesOut, Clear, RunIo, RunCallLater, Drain, Put,
       Ping, Quit, RunStart, RunTimer, FireTimer, callVars
  <2>5. CASE HubStep \/ Arrive \/ \E t \in Timed : Elapse(t)
    BY <2>3, <2>5 DEF HubStep, HubScan, HubSelects, HubTimesOut, HubPongs, HubTakes, HubReturns,
       HubSets, Arrive, Elapse, callVars
  <2>6. ASSUME NEW x \in Others, OtherStep(x), ~AppendCall(x) PROVE UNCHANGED <<asked, done>>
    BY <2>6 DEF OtherStep, Lock, Schedule, Wake, PingCalls, callVars
  <2>7. CASE UNCHANGED vars
    BY <2>3, <2>7 DEF vars, callVars
  <2> QED BY <1>2, <2>1, <2>2, <2>3, <2>4, <2>5, <2>6, <2>7 DEF Next
<1> QED BY <1>1, <1>2, Invariance, PTL DEF Spec, ImplementsLaterCalls, Later!Spec
=============================================================================
