--------------------------- MODULE ChannelProofs ---------------------------
(***************************************************************************)
(* Proofs about Channel, for any messages, deliveries, pods and limits:    *)
(* its types, that a message is stored once, that the debouncer lets one   *)
(* turn of the chat run on a pod, and the limit of the bot.                *)
(***************************************************************************)
EXTENDS Channel, FiniteSetTheorems, SequenceTheorems, TLAPS

TaskPlaces == Unstarted \cup Started \cup {"ended"}
Tasks == [msg : Msgs, pod : Pods, at : TaskPlaces, cur : Nat, late : BOOLEAN]
Debs == [timer : Nat, typing : BOOLEAN, pending : Msgs \cup {None}]
Active == Started \ {"again"}

USE DEF limitVars

\* The debouncer of pod p agrees with the tasks of p: its timer is the one task
\* that has not started, typing says that a turn is active, and never both.
Agrees(d, ts, p) ==
    /\ d \in Debs
    /\ d.timer # 0 => /\ d.timer \in DOMAIN ts
                      /\ ts[d.timer].pod = p /\ ts[d.timer].at \in Unstarted
    /\ \A t \in DOMAIN ts : ts[t].pod = p =>
          /\ ts[t].at \in Unstarted => d.timer = t /\ ~d.typing
          /\ ts[t].at \in Active => d.typing
    /\ \A t, u \in DOMAIN ts :
          ts[t].pod = p /\ ts[u].pod = p /\ ts[t].at \in Active /\ ts[u].at \in Active => t = u

DebInv == IF app THEN \A p \in Pods : deb[p] = Idle
          ELSE \A p \in Pods : Agrees(deb[p], task, p)

\* A call that is handled is handled by a pod.
CallInv == \A c \in Calls : call[c].at \notin {"none", "lost"} => call[c].pod \in Pods

-----------------------------------------------------------------------------
(* Tasks                                                                   *)

\* us is ts with e as its task t.
Puts(ts, us, t, e) ==
    /\ us \in Seq(Tasks) /\ t \in DOMAIN ts /\ DOMAIN us = DOMAIN ts
    /\ us[t] = e /\ \A u \in DOMAIN ts \ {t} : us[u] = ts[u]

\* us is ts with e as a new task.
Adds(ts, us, e) ==
    /\ us \in Seq(Tasks) /\ Len(ts) + 1 \notin DOMAIN ts /\ Len(ts) + 1 # 0
    /\ DOMAIN us = DOMAIN ts \cup {Len(ts) + 1}
    /\ us[Len(ts) + 1] = e /\ \A u \in DOMAIN ts : us[u] = ts[u]

LEMMA PutTask ==
    ASSUME NEW ts \in Seq(Tasks), NEW t \in DOMAIN ts, NEW e \in Tasks
    PROVE  Puts(ts, [ts EXCEPT ![t] = e], t, e)
<1>1. t \in 1..Len(ts) /\ DOMAIN ts = 1..Len(ts)
  BY LenProperties
<1>2. [ts EXCEPT ![t] = e] \in Seq(Tasks)
  BY <1>1, ExceptSeq
<1>3. QED BY <1>1, <1>2 DEF Puts

LEMMA PutAt ==
    ASSUME NEW ts \in Seq(Tasks), NEW t \in DOMAIN ts, NEW a \in TaskPlaces
    PROVE  /\ [ts EXCEPT ![t].at = a] = [ts EXCEPT ![t] = [ts[t] EXCEPT !.at = a]]
           /\ [ts[t] EXCEPT !.at = a] \in Tasks
           /\ Puts(ts, [ts EXCEPT ![t].at = a], t, [ts[t] EXCEPT !.at = a])
           /\ ts[t] \in Tasks
<1>1. ts[t] \in Tasks
  BY LenProperties, ElementOfSeq
<1>2. [ts[t] EXCEPT !.at = a] \in Tasks
  BY <1>1 DEF Tasks
<1>3. [ts EXCEPT ![t].at = a] = [ts EXCEPT ![t] = [ts[t] EXCEPT !.at = a]]
  OBVIOUS
<1>4. QED BY <1>1, <1>2, <1>3, PutTask

LEMMA AddTask ==
    ASSUME NEW ts \in Seq(Tasks), NEW e \in Tasks
    PROVE  Adds(ts, Append(ts, e), e)
<1>1. Len(ts) \in Nat /\ DOMAIN ts = 1..Len(ts)
  BY LenProperties
<1>2. Append(ts, e) \in Seq(Tasks) /\ Len(Append(ts, e)) = Len(ts) + 1
  BY <1>1
<1>3. DOMAIN Append(ts, e) = 1..(Len(ts) + 1)
  BY <1>2, LenProperties
<1>4. Append(ts, e)[Len(ts) + 1] = e /\ \A u \in DOMAIN ts : Append(ts, e)[u] = ts[u]
  BY <1>1
<1>5. 1..(Len(ts) + 1) = (1..Len(ts)) \cup {Len(ts) + 1}
  BY <1>1
<1>6. QED BY <1>1, <1>2, <1>3, <1>4, <1>5 DEF Adds

LEMMA NewTask ==
    ASSUME NEW m \in Msgs, NEW p \in Pods, NEW a \in {"timer", "woken"}
    PROVE  Job(m, p, a) \in Tasks /\ Job(m, p, a).pod = p /\ Job(m, p, a).at = a
BY DEF Job, Tasks, TaskPlaces, Unstarted

-----------------------------------------------------------------------------
(* The debouncer                                                           *)

\* A task of another pod, or one that stays in its part of its life or ends.
LEMMA MoveAgrees ==
    ASSUME NEW d, NEW ts, NEW us, NEW t, NEW e, NEW p, Agrees(d, ts, p), Puts(ts, us, t, e),
           e.pod = ts[t].pod,
           \/ ts[t].pod # p
           \/ ts[t].at \in Unstarted /\ e.at \in Unstarted
           \/ ts[t].at \in Active /\ e.at \in Active
           \/ ts[t].at \notin Unstarted /\ e.at \notin Unstarted \cup Active
    PROVE  Agrees(d, us, p)
<1>1. Active \cap Unstarted = {}
  BY DEF Active, Started, Holding, Unstarted
<1>2. d.timer # 0 => d.timer \in DOMAIN us /\ us[d.timer].pod = p /\ us[d.timer].at \in Unstarted
  BY <1>1 DEF Agrees, Puts
<1>3. \A s \in DOMAIN us : us[s].pod = p =>
         /\ us[s].at \in Unstarted => d.timer = s /\ ~d.typing
         /\ us[s].at \in Active => d.typing
  BY <1>1 DEF Agrees, Puts
<1>4. \A s, u \in DOMAIN us :
         us[s].pod = p /\ us[u].pod = p /\ us[s].at \in Active /\ us[u].at \in Active => s = u
  BY <1>1 DEF Agrees, Puts
<1>5. QED BY <1>2, <1>3, <1>4 DEF Agrees

LEMMA AddAgrees ==
    ASSUME NEW d, NEW ts, NEW us, NEW e, NEW p, Agrees(d, ts, p), Adds(ts, us, e), e.pod # p
    PROVE  Agrees(d, us, p)
BY DEF Agrees, Adds

\* schedule
LEMMA ScheduleAgrees ==
    ASSUME NEW ts \in Seq(Tasks), NEW p \in Pods, NEW m \in Msgs, NEW d, Agrees(d, ts, p)
    PROVE  LET new == Schedule(d, ts, m, p)
           IN  /\ new.task \in Seq(Tasks)
               /\ Agrees(new.deb, new.task, p)
               /\ \A q \in Pods \ {p}, c \in Debs : Agrees(c, ts, q) => Agrees(c, new.task, q)
<1> DEFINE new == Schedule(d, ts, m, p)
           ended == Abort(ts, d.timer)
           e == Job(m, p, "timer")
<1>0. d \in Debs /\ Unstarted \cap Active = {} /\ "timer" \in Unstarted /\ "ended" \notin Unstarted \cup Active
      /\ "ended" \in TaskPlaces
  BY DEF Agrees, Active, Started, Holding, Unstarted, TaskPlaces
<1>1. CASE d.typing
  <2>1. new.task = ts /\ new.deb = [d EXCEPT !.pending = m]
    BY <1>1 DEF Schedule
  <2>2. new.deb \in Debs /\ new.deb.timer = d.timer /\ new.deb.typing = d.typing
    BY <1>0, <2>1 DEF Debs
  <2>3. QED BY <2>1, <2>2 DEF Agrees
<1>2. CASE ~d.typing
  <2>1. new.task = Append(ended, e) /\ new.deb = [d EXCEPT !.timer = Len(ts) + 1]
    BY <1>2 DEF Schedule
  <2>2. /\ ended \in Seq(Tasks) /\ DOMAIN ended = DOMAIN ts
        /\ \A t \in DOMAIN ts : ended[t].pod = ts[t].pod
        /\ \A t \in DOMAIN ts : t # d.timer => ended[t] = ts[t]
        /\ d.timer # 0 => ended[d.timer].at = "ended"
    <3>1. CASE d.timer = 0
      BY <3>1 DEF Abort
    <3>2. CASE d.timer # 0
      <4>1. d.timer \in DOMAIN ts /\ ended = [ts EXCEPT ![d.timer].at = "ended"]
        BY <3>2 DEF Abort, Agrees
      <4>2. Puts(ts, ended, d.timer, [ts[d.timer] EXCEPT !.at = "ended"]) /\ ts[d.timer] \in Tasks
        BY <1>0, <4>1, PutAt
      <4>3. QED BY <4>2 DEF Puts, Tasks
    <3>3. QED BY <3>1, <3>2
  <2>3. Len(ended) = Len(ts) /\ Len(ts) \in Nat /\ DOMAIN ts = 1..Len(ts)
    BY <2>2, LenProperties
  <2>4. Adds(ended, new.task, e) /\ e \in Tasks /\ e.pod = p /\ e.at = "timer"
    BY <2>1, <2>2, AddTask, NewTask
  <2>5. new.deb \in Debs /\ new.deb.timer = Len(ts) + 1 /\ ~new.deb.typing
    BY <1>0, <1>2, <2>1, <2>3 DEF Debs
  <2>6. \A t \in DOMAIN ts : ended[t].pod = p => ended[t].at \notin Unstarted \cup Active
    BY <1>0, <1>2, <2>2 DEF Agrees
  <2>7. Agrees(new.deb, new.task, p)
    BY <1>0, <2>2, <2>3, <2>4, <2>5, <2>6 DEF Agrees, Adds
  <2>8. ASSUME NEW q \in Pods \ {p}, NEW c \in Debs, Agrees(c, ts, q) PROVE Agrees(c, new.task, q)
    <3>1. d.timer \in DOMAIN ts => ts[d.timer].pod # q
      BY <2>3 DEF Agrees
    <3>2. \A t \in DOMAIN ts : ended[t].pod = q => ended[t] = ts[t]
      BY <2>2, <3>1
    <3>3. Agrees(c, ended, q)
      BY <2>2, <2>8, <3>2 DEF Agrees
    <3>4. QED BY <2>4, <3>3, AddAgrees
  <2>9. QED BY <2>4, <2>7, <2>8 DEF Adds
<1>3. QED BY <1>1, <1>2

\* turn_finished, after an active turn has left.
LEMMA FinishedAgrees ==
    ASSUME NEW ts \in Seq(Tasks), NEW p \in Pods, NEW d, NEW t \in DOMAIN ts, Agrees(d, ts, p),
           ts[t].pod = p, ts[t].at \in Active, NEW a \in {"ended", "again"}
    PROVE  LET new == TurnFinished(d, [ts EXCEPT ![t].at = a], p)
           IN  /\ new.task \in Seq(Tasks)
               /\ Agrees(new.deb, new.task, p)
               /\ \A q \in Pods \ {p}, c \in Debs : Agrees(c, ts, q) => Agrees(c, new.task, q)
<1> DEFINE us == [ts EXCEPT ![t].at = a]
           new == TurnFinished(d, us, p)
           free == [d EXCEPT !.typing = FALSE, !.pending = None]
<1>0. d \in Debs /\ a \in TaskPlaces /\ Unstarted \cap Active = {} /\ a \notin Unstarted \cup Active
  BY DEF Agrees, TaskPlaces, Active, Started, Holding, Unstarted
<1>1. Puts(ts, us, t, [ts[t] EXCEPT !.at = a]) /\ ts[t] \in Tasks
  BY <1>0, PutAt
<1>2. us \in Seq(Tasks) /\ us[t].pod = p /\ us[t].at = a /\ DOMAIN us = DOMAIN ts
      /\ \A u \in DOMAIN ts \ {t} : us[u] = ts[u]
  BY <1>1 DEF Puts, Tasks
<1>3. free \in Debs /\ free.timer = d.timer /\ ~free.typing
  BY <1>0 DEF Debs
<1>4. d.typing /\ d.timer = 0
  BY <1>0 DEF Agrees
<1>5. \A u \in DOMAIN us : us[u].pod = p => us[u].at \notin Unstarted \cup Active
  BY <1>0, <1>2, <1>4 DEF Agrees
<1>6. Agrees(free, us, p)
  BY <1>3, <1>4, <1>5 DEF Agrees
<1>7. \A q \in Pods \ {p}, c \in Debs : Agrees(c, ts, q) => Agrees(c, us, q)
  BY <1>2 DEF Agrees
<1>8. CASE d.pending = None
  <2>1. new.deb = free /\ new.task = us
    BY <1>8 DEF TurnFinished
  <2> HIDE DEF new, us, free
  <2>2. new.task \in Seq(Tasks) /\ Agrees(new.deb, new.task, p)
    BY <1>2, <1>6, <2>1
  <2>3. \A q \in Pods \ {p}, c \in Debs : Agrees(c, ts, q) => Agrees(c, new.task, q)
    BY <1>7, <2>1
  <2>4. QED BY <2>2, <2>3 DEF new, us
<1>9. CASE d.pending # None
  <2>1. d.pending \in Msgs
    BY <1>0, <1>9 DEF Debs
  <2>2. new = Schedule(free, us, d.pending, p)
    BY <1>9 DEF TurnFinished
  <2> HIDE DEF new, us, free
  <2>3. /\ new.task \in Seq(Tasks) /\ Agrees(new.deb, new.task, p)
        /\ \A q \in Pods \ {p}, c \in Debs : Agrees(c, us, q) => Agrees(c, new.task, q)
    BY <1>2, <1>6, <2>1, <2>2, ScheduleAgrees
  <2>4. \A q \in Pods \ {p}, c \in Debs : Agrees(c, ts, q) => Agrees(c, new.task, q)
    BY <1>7, <2>3
  <2>5. QED BY <2>3, <2>4 DEF new, us
<1>10. QED BY <1>8, <1>9

\* In the chats of the app only the tasks of the new state matter.
LEMMA ScheduleTasks ==
    ASSUME NEW ts \in Seq(Tasks), NEW p \in Pods, NEW m \in Msgs
    PROVE  Schedule(Idle, ts, m, p).task \in Seq(Tasks)
<1>1. Schedule(Idle, ts, m, p).task = Append(ts, Job(m, p, "timer"))
  BY DEF Schedule, Idle, Abort
<1>2. QED BY <1>1, AddTask, NewTask DEF Adds

-----------------------------------------------------------------------------
(* What a step does to the tasks                                           *)

\* A task goes from one place to another, without its debouncer.
Moves(t, e) ==
    /\ Puts(task, task', t, e) /\ e \in Tasks /\ e.pod = Pod(t)
    /\ deb' = deb /\ app' = app
    /\ \/ task[t].at \in Unstarted /\ e.at \in Unstarted
       \/ task[t].at \in Active /\ e.at \in Active \cup {"ended"}
Scheduled(p, ts, m) == Debounced(p, Schedule(deb[p], ts, m, p)) /\ app' = app
Finishes(t, a) ==
    /\ task[t].at \in Active
    /\ Debounced(Pod(t), TurnFinished(deb[Pod(t)], [task EXCEPT ![t].at = a], Pod(t))) /\ app' = app

Effect ==
    \/ UNCHANGED <<app, deb, task>>
    \/ \E m \in Msgs, p \in Pods : app /\ task' = Append(task, Job(m, p, "woken")) /\ UNCHANGED <<app, deb>>
    \/ \E p \in Pods, m \in Msgs : Scheduled(p, task, m)
    \/ \E t \in DOMAIN task :
          \/ \E e \in Tasks : Moves(t, e)
          \/ TurnStart(t)
          \/ \E a \in {"ended", "again"} : Finishes(t, a)
          \/ task[t].at = "again" /\ Scheduled(Pod(t), [task EXCEPT ![t].at = "ended"], task[t].msg)
    \/ \E p \in Pods : Crash(p)

LEMMA TypedTasks ==
    ASSUME TypeOK
    PROVE  /\ task \in Seq(Tasks) /\ DOMAIN task = 1..Len(task) /\ Len(task) \in Nat
           /\ \A t \in DOMAIN task : task[t] \in Tasks
           /\ \A p \in Pods : deb[p] \in Debs
<1>1. task \in Seq(Tasks)
  BY DEF TypeOK, Tasks, TaskPlaces
<1>2. QED BY <1>1, LenProperties, ElementOfSeq DEF TypeOK, Debs

LEMMA PermitsType ==
    ASSUME TypeOK, NEW p \in Pods
    PROVE  Permits(p) \in Nat
<1>1. IsFiniteSet(DOMAIN task)
  BY TypedTasks, FS_Interval
<1>2. Cardinality({t \in DOMAIN task : Pod(t) = p /\ task[t].at \in Holding}) \in Nat
  BY <1>1, FS_Subset, FS_CardinalityType
<1>3. others[p] \in Nat
  BY ChannelAssumption DEF TypeOK
<1>4. QED BY <1>2, <1>3 DEF Permits

\* A turn that counts, takes its permit or is late stays where it was or goes
\* on; only its own task changes.
LEMMA WaitTask ==
    ASSUME TypeOK, NEW t \in DOMAIN task, TurnCount(t) \/ TurnAcquire(t) \/ TurnLate(t)
    PROVE  \E e \in Tasks :
              /\ Puts(task, task', t, e) /\ e.pod = Pod(t)
              /\ task[t].at \in {"try", "swap"} /\ e.at \in {"try", "swap", "insert"}
              /\ e.at = "insert" => TurnAcquire(t) /\ Unchanged(t)
              /\ e.at = "swap" => \/ TurnCount(t) /\ e.cur = Permits(Pod(t))
                                  \/ task[t].at = "swap" /\ e.cur = task[t].cur
<1>1. task[t] \in Tasks /\ Pod(t) \in Pods /\ {"try", "swap", "insert"} \subseteq TaskPlaces
  BY TypedTasks DEF Tasks, Pod, TaskPlaces, Started, Holding
<1>2. CASE TurnCount(t)
  <2> DEFINE e == [task[t] EXCEPT !.at = "swap", !.cur = Permits(Pod(t))]
  <2>1. Permits(Pod(t)) \in Nat
    BY <1>1, PermitsType
  <2>2. e \in Tasks /\ e.pod = Pod(t) /\ e.at = "swap" /\ e.cur = Permits(Pod(t))
    BY <1>1, <2>1 DEF Tasks, Pod
  <2>3. task' = [task EXCEPT ![t] = e] /\ task[t].at = "try"
    BY <1>2 DEF TurnCount, At
  <2> HIDE DEF e
  <2>4. Puts(task, task', t, e)
    BY <2>2, <2>3, TypedTasks, PutTask
  <2>5. QED BY <1>2, <2>2, <2>3, <2>4
<1>3. CASE TurnAcquire(t)
  <2> DEFINE a == IF Unchanged(t) THEN "insert" ELSE "try"
             e == [task[t] EXCEPT !.at = a, !.cur = 0, !.late = FALSE]
  <2>1. e \in Tasks /\ e.pod = Pod(t) /\ e.at = a
    BY <1>1 DEF Tasks, Pod
  <2>2. task' = [task EXCEPT ![t] = e] /\ task[t].at = "swap"
    BY <1>3 DEF TurnAcquire, At
  <2> HIDE DEF e
  <2>3. Puts(task, task', t, e)
    BY <2>1, <2>2, TypedTasks, PutTask
  <2>4. QED BY <1>3, <2>1, <2>2, <2>3
<1>4. CASE TurnLate(t)
  <2> DEFINE e == [task[t] EXCEPT !.late = TRUE]
  <2>1. e \in Tasks /\ e.pod = Pod(t) /\ e.at = task[t].at /\ e.cur = task[t].cur
    BY <1>1 DEF Tasks, Pod
  <2>2. task' = [task EXCEPT ![t] = e] /\ task[t].at \in {"try", "swap"}
    BY <1>4 DEF TurnLate
  <2> HIDE DEF e
  <2>3. Puts(task, task', t, e)
    BY <2>1, <2>2, TypedTasks, PutTask
  <2>4. QED BY <2>1, <2>2, <2>3
<1>5. QED BY <1>2, <1>3, <1>4

LEMMA WaitEffect ==
    ASSUME TypeOK, NEW t \in DOMAIN task, TurnCount(t) \/ TurnAcquire(t) \/ TurnLate(t)
    PROVE  Effect
<1>1. deb' = deb /\ app' = app
  BY DEF TurnCount, TurnAcquire, TurnLate, inboundVars
<1>2. PICK e \in Tasks : /\ Puts(task, task', t, e) /\ e.pod = Pod(t)
                         /\ task[t].at \in {"try", "swap"} /\ e.at \in {"try", "swap", "insert"}
  BY WaitTask
<1>3. {"try", "swap", "insert"} \subseteq Active
  BY DEF Active, Started, Holding
<1>4. Moves(t, e)
  BY <1>1, <1>2, <1>3 DEF Moves
<1>5. QED BY <1>4 DEF Effect

LEMMA MoveTo ==
    ASSUME TypeOK, NEW t \in DOMAIN task, NEW a, Goto(t, a), deb' = deb, app' = app,
           \/ task[t].at \in Unstarted /\ a \in Unstarted
           \/ task[t].at \in Active /\ a \in Active \cup {"ended"}
    PROVE  \E e \in Tasks : Moves(t, e)
<1>1. a \in TaskPlaces
  BY DEF TaskPlaces, Active
<1>2. Puts(task, task', t, [task[t] EXCEPT !.at = a]) /\ task[t] \in Tasks
      /\ [task[t] EXCEPT !.at = a] \in Tasks
  BY <1>1, TypedTasks, PutAt DEF Goto
<1>3. [task[t] EXCEPT !.at = a].pod = Pod(t) /\ [task[t] EXCEPT !.at = a].at = a
  BY <1>2 DEF Tasks, Pod
<1>4. QED BY <1>2, <1>3 DEF Moves

LEMMA TurnEffects ==
    ASSUME TypeOK, NEW t \in DOMAIN task, TurnStep(t)
    PROVE  Effect
<1>1. CASE Wake(t)
  BY <1>1, MoveTo DEF Wake, At, inboundVars, Unstarted, Effect
<1>2. CASE TurnStart(t)
  BY <1>2 DEF Effect
<1>3. CASE \/ TurnLimit(t) \/ TurnInsert(t) \/ TurnRead(t) \/ TurnDrain(t) \/ TurnAnswer(t)
           \/ TurnReply(t) \/ TurnSave(t) \/ TurnFinish(t)
  <2>1. \E a \in Active \cup {"ended"} : task[t].at \in Active /\ Goto(t, a)
    BY <1>3 DEF TurnLimit, TurnInsert, TurnRead, TurnDrain, TurnAnswer, TurnReply, TurnSave,
       TurnFinish, TurnFail, At, Active, Started, Holding
  <2>2. deb' = deb /\ app' = app
    BY <1>3 DEF TurnLimit, TurnInsert, TurnRead, TurnDrain, TurnAnswer, TurnReply, TurnSave,
       TurnFinish, TurnFail, inboundVars
  <2>3. QED BY <2>1, <2>2, MoveTo DEF Effect
<1>4. CASE TurnBusy(t)
  <2>1. task[t].at \in Active /\ app' = app
    BY <1>4 DEF TurnBusy, At, inboundVars, Active, Started, Holding
  <2>2. CASE TurnFail(t)
    BY <2>1, <2>2, MoveTo DEF TurnFail, Effect
  <2>3. CASE Debounced(Pod(t), TurnFinished(deb[Pod(t)], [task EXCEPT ![t].at = "ended"], Pod(t)))
    BY <2>1, <2>3 DEF Effect, Finishes
  <2>4. QED BY <1>4, <2>2, <2>3 DEF TurnBusy
<1>5. CASE TurnNext(t)
  <2>1. {"next", "follow"} \subseteq Active /\ task[t].at = "next" /\ app' = app
    BY <1>5 DEF TurnNext, At, inboundVars, Active, Started, Holding
  <2>2. CASE TurnFail(t)
    BY <2>1, <2>2, MoveTo DEF TurnFail, Effect
  <2>3. CASE Debounced(Pod(t), TurnFinished(deb[Pod(t)], [task EXCEPT ![t].at = "ended"], Pod(t)))
    BY <2>1, <2>3 DEF Effect, Finishes
  <2>4. ASSUME NEW c \in Calls, task' = [task EXCEPT ![t].at = "follow", ![t].msg = c[1]],
               deb' = deb
        PROVE  Effect
    <3> DEFINE e == [task[t] EXCEPT !.at = "follow", !.msg = c[1]]
    <3>1. task[t] \in Tasks /\ c[1] \in Msgs /\ "follow" \in TaskPlaces
      BY TypedTasks DEF Calls, TaskPlaces, Started, Holding
    <3>2. e \in Tasks /\ e.pod = Pod(t) /\ e.at = "follow"
      BY <3>1 DEF Tasks, Pod
    <3>3. task' = [task EXCEPT ![t] = e]
      BY <2>4
    <3> HIDE DEF e
    <3>4. Puts(task, task', t, e)
      BY <3>2, <3>3, TypedTasks, PutTask
    <3>5. Moves(t, e)
      BY <2>1, <2>4, <3>2, <3>4 DEF Moves
    <3>6. QED BY <3>2, <3>5 DEF Effect
  <2>5. QED BY <1>5, <2>2, <2>3, <2>4 DEF TurnNext, Pending, Rows
<1>6. CASE TurnFollow(t)
  <2>1. "follow" \in Active /\ task[t].at = "follow" /\ app' = app
    BY <1>6 DEF TurnFollow, At, inboundVars, Active, Started, Holding
  <2>2. QED BY <1>6, <2>1 DEF TurnFollow, Effect, Finishes
<1>7. CASE TurnAgain(t)
  BY <1>7 DEF TurnAgain, At, inboundVars, Effect, Scheduled
<1>8. CASE TurnCount(t) \/ TurnAcquire(t)
  BY <1>8, WaitEffect
<1>9. QED BY <1>1, <1>2, <1>3, <1>4, <1>5, <1>6, <1>7, <1>8 DEF TurnStep

LEMMA Effects ==
    ASSUME TypeOK, CallInv, [Next]_vars
    PROVE  Effect
<1>1. ASSUME NEW c \in Calls, InboundStep(c) PROVE Effect
  <2>1. c[1] \in Msgs
    BY DEF Calls
  <2>2. CASE InboundMark(c) \/ InboundStore(c) \/ InboundFollow(c)
    BY <2>2 DEF InboundMark, InboundStore, InboundFollow, Effect
  <2>3. CASE InboundRoute(c)
    BY <2>1, <2>3 DEF InboundRoute, CallAt, CallInv, Effect
  <2>4. CASE InboundSchedule(c)
    BY <2>1, <2>4 DEF InboundSchedule, CallAt, CallInv, Effect, Scheduled
  <2>5. QED BY <1>1, <2>2, <2>3, <2>4 DEF InboundStep
<1>2. ASSUME NEW c \in Calls, NEW p \in Pods, Deliver(c, p) PROVE Effect
  BY <1>2 DEF Deliver, Effect
<1>3. ASSUME NEW p \in Pods, OtherTurn(p) \/ Crash(p) PROVE Effect
  BY <1>3 DEF OtherTurn, inboundVars, Effect
<1>4. CASE Stop \/ UNCHANGED vars
  BY <1>4 DEF Stop, inboundVars, vars, Effect
<1>5. ASSUME NEW t \in DOMAIN task, TurnLate(t) PROVE Effect
  BY <1>5, WaitEffect
<1>6. QED BY <1>1, <1>2, <1>3, <1>4, <1>5, TurnEffects DEF Next

-----------------------------------------------------------------------------
(* One turn on a pod                                                       *)

LEMMA CrashTasks ==
    ASSUME TypeOK, NEW p \in Pods, Crash(p)
    PROVE  /\ task' \in Seq(Tasks) /\ DOMAIN task' = DOMAIN task
           /\ \A t \in DOMAIN task : /\ task'[t].pod = task[t].pod
                                     /\ task[t].pod = p => task'[t].at = "ended"
                                     /\ task[t].pod # p => task'[t] = task[t]
<1>1. task \in Seq(Tasks) /\ DOMAIN task = 1..Len(task) /\ Len(task) \in Nat
      /\ \A t \in DOMAIN task : task[t] \in Tasks
  BY TypedTasks
<1>2. task' = [t \in DOMAIN task |-> IF task[t].pod = p THEN [task[t] EXCEPT !.at = "ended"] ELSE task[t]]
  BY DEF Crash, Pod
<1>3. \A t \in DOMAIN task : [task[t] EXCEPT !.at = "ended"] \in Tasks
                               /\ [task[t] EXCEPT !.at = "ended"].pod = task[t].pod
                               /\ [task[t] EXCEPT !.at = "ended"].at = "ended"
  BY <1>1 DEF Tasks, TaskPlaces
<1>4. task' \in [1..Len(task) -> Tasks]
  BY <1>1, <1>2, <1>3
<1>5. task' \in Seq(Tasks)
  BY <1>1, <1>4
<1>6. QED BY <1>2, <1>3, <1>5

\* The chats of the app: the debouncer is never used.
LEMMA AppStep ==
    ASSUME TypeOK, DebInv, app, Effect
    PROVE  DebInv' /\ task' \in Seq(Tasks) /\ deb' \in [Pods -> Debs]
<1>0. (\A p \in Pods : deb[p] = Idle) /\ deb \in [Pods -> Debs] /\ Idle \in Debs /\ task \in Seq(Tasks)
      /\ "ended" \in TaskPlaces /\ "again" \in TaskPlaces /\ "wait" \in TaskPlaces
  BY TypedTasks DEF TypeOK, DebInv, Idle, Debs, TaskPlaces, Started, Holding
<1>1. app' = app
  BY DEF Effect, Moves, Scheduled, Finishes, TurnStart, Crash, inboundVars
<1>2. CASE deb' = deb /\ task' \in Seq(Tasks)
  BY <1>0, <1>1, <1>2 DEF DebInv
<1>3. ASSUME NEW m \in Msgs, NEW p \in Pods, task' = Append(task, Job(m, p, "woken"))
      PROVE  task' \in Seq(Tasks)
  BY <1>0, <1>3, AddTask, NewTask DEF Adds
<1>4. ASSUME NEW ts \in Seq(Tasks), NEW m \in Msgs, NEW p \in Pods, Scheduled(p, ts, m)
      PROVE  deb' = deb /\ task' \in Seq(Tasks)
  BY <1>0, <1>4, ScheduleTasks DEF Scheduled, Debounced
<1>5. ASSUME NEW t \in DOMAIN task, NEW a \in {"ended", "again"}, Finishes(t, a)
      PROVE  deb' = deb /\ task' \in Seq(Tasks)
  <2>1. Pod(t) \in Pods /\ [task EXCEPT ![t].at = a] \in Seq(Tasks)
    BY <1>0, TypedTasks, PutAt DEF Pod, Tasks, Puts
  <2>2. task' = [task EXCEPT ![t].at = a] /\ deb' = deb
    BY <1>0, <1>5, <2>1 DEF Finishes, Debounced, TurnFinished, Idle
  <2>3. QED BY <2>1, <2>2
<1>6. ASSUME NEW t \in DOMAIN task, TurnStart(t) PROVE deb' = deb /\ task' \in Seq(Tasks)
  BY <1>0, <1>6, PutAt DEF TurnStart, Debounced, Puts
<1>7. ASSUME NEW t \in DOMAIN task, Scheduled(Pod(t), [task EXCEPT ![t].at = "ended"], task[t].msg)
      PROVE  deb' = deb /\ task' \in Seq(Tasks)
  <2>1. Pod(t) \in Pods /\ task[t].msg \in Msgs /\ [task EXCEPT ![t].at = "ended"] \in Seq(Tasks)
    BY <1>0, TypedTasks, PutAt DEF Pod, Tasks, Puts
  <2>2. QED BY <1>4, <1>7, <2>1
<1>8. ASSUME NEW p \in Pods, Crash(p)
      PROVE  DebInv' /\ task' \in Seq(Tasks) /\ deb' \in [Pods -> Debs]
  <2>1. deb' = [deb EXCEPT ![p] = Idle]
    BY <1>8 DEF Crash
  <2>2. QED BY <1>0, <1>1, <1>8, <2>1, CrashTasks DEF DebInv
<1>9. QED BY <1>0, <1>2, <1>3, <1>4, <1>5, <1>6, <1>7, <1>8 DEF Effect, Moves, Puts

\* The chats of a provider.
LEMMA PodStep ==
    ASSUME TypeOK, DebInv, ~app, Effect
    PROVE  DebInv' /\ task' \in Seq(Tasks) /\ deb' \in [Pods -> Debs]
<1>0. (\A p \in Pods : Agrees(deb[p], task, p)) /\ deb \in [Pods -> Debs] /\ task \in Seq(Tasks)
      /\ \A p \in Pods : deb[p] \in Debs
  BY TypedTasks DEF TypeOK, DebInv, Debs
<1>1. app' = app
  BY DEF Effect, Moves, Scheduled, Finishes, TurnStart, Crash, inboundVars
<1>u. Unstarted \cap Active = {} /\ "ended" \notin Unstarted \cup Active /\ "again" \notin Unstarted \cup Active
      /\ "wait" \in Active /\ "woken" \in Unstarted
      /\ "ended" \in TaskPlaces /\ "again" \in TaskPlaces /\ "wait" \in TaskPlaces
  BY DEF Active, Started, Holding, Unstarted, TaskPlaces
<1>2. CASE UNCHANGED <<app, deb, task>>
  BY <1>0, <1>1, <1>2 DEF DebInv
<1>3. ASSUME NEW p \in Pods, NEW d \in Debs, deb' = [deb EXCEPT ![p] = d],
             task' \in Seq(Tasks), Agrees(d, task', p),
             \A q \in Pods \ {p} : Agrees(deb[q], task', q)
      PROVE  DebInv' /\ task' \in Seq(Tasks) /\ deb' \in [Pods -> Debs]
  <2>1. \A q \in Pods : deb'[q] = IF q = p THEN d ELSE deb[q]
    BY <1>0, <1>3
  <2>2. \A q \in Pods : Agrees(deb'[q], task', q)
    BY <1>3, <2>1
  <2>3. deb' \in [Pods -> Debs]
    BY <1>0, <1>3
  <2>4. QED BY <1>1, <1>3, <2>2, <2>3 DEF DebInv, Agrees
<1>4. ASSUME NEW ts \in Seq(Tasks), NEW m \in Msgs, NEW p \in Pods, Scheduled(p, ts, m),
             \A q \in Pods : Agrees(deb[q], ts, q)
      PROVE  DebInv' /\ task' \in Seq(Tasks) /\ deb' \in [Pods -> Debs]
  <2> DEFINE new == Schedule(deb[p], ts, m, p)
  <2>1. /\ new.task \in Seq(Tasks) /\ Agrees(new.deb, new.task, p)
        /\ \A q \in Pods \ {p}, c \in Debs : Agrees(c, ts, q) => Agrees(c, new.task, q)
    BY <1>0, <1>4, ScheduleAgrees
  <2>2. deb' = [deb EXCEPT ![p] = new.deb] /\ task' = new.task
    BY <1>4 DEF Scheduled, Debounced
  <2>3. new.deb \in Debs
    BY <2>1 DEF Agrees
  <2> HIDE DEF new
  <2>4. \A q \in Pods \ {p} : Agrees(deb[q], task', q)
    BY <1>0, <1>4, <2>1, <2>2
  <2>5. QED BY <1>3, <2>1, <2>2, <2>3, <2>4
<1>5. ASSUME NEW t \in DOMAIN task, NEW a \in {"ended", "again"}, Finishes(t, a)
      PROVE  DebInv' /\ task' \in Seq(Tasks) /\ deb' \in [Pods -> Debs]
  <2> DEFINE p == Pod(t)
             new == TurnFinished(deb[p], [task EXCEPT ![t].at = a], p)
  <2>1. p \in Pods /\ task[t].pod = p
    BY TypedTasks DEF Pod, Tasks
  <2>2. /\ new.task \in Seq(Tasks) /\ Agrees(new.deb, new.task, p)
        /\ \A q \in Pods \ {p}, c \in Debs : Agrees(c, task, q) => Agrees(c, new.task, q)
    BY <1>0, <1>5, <2>1, FinishedAgrees DEF Finishes
  <2>3. deb' = [deb EXCEPT ![p] = new.deb] /\ task' = new.task
    BY <1>5 DEF Finishes, Debounced
  <2>4. new.deb \in Debs
    BY <2>2 DEF Agrees
  <2> HIDE DEF new, p
  <2>5. \A q \in Pods \ {p} : Agrees(deb[q], task', q)
    BY <1>0, <2>2, <2>3
  <2>6. QED BY <1>3, <2>1, <2>2, <2>3, <2>4, <2>5
<1>6. ASSUME NEW t \in DOMAIN task, NEW e \in Tasks, Moves(t, e)
      PROVE  DebInv' /\ task' \in Seq(Tasks) /\ deb' \in [Pods -> Debs]
  <2>1. \A p \in Pods : Agrees(deb[p], task', p)
    BY <1>0, <1>6, <1>u, MoveAgrees DEF Moves, Pod
  <2>2. QED BY <1>0, <1>1, <1>6, <2>1 DEF Moves, Puts, DebInv
<1>7. ASSUME NEW t \in DOMAIN task, TurnStart(t)
      PROVE  DebInv' /\ task' \in Seq(Tasks) /\ deb' \in [Pods -> Debs]
  <2> DEFINE p == Pod(t)
             d == [deb[p] EXCEPT !.timer = 0, !.typing = TRUE]
             e == [task[t] EXCEPT !.at = "wait"]
  <2>1. p \in Pods /\ task[t].pod = p /\ task[t] \in Tasks /\ task[t].at = "woken"
    BY <1>7, TypedTasks DEF Pod, Tasks, TurnStart, At
  <2>2. deb' = [deb EXCEPT ![p] = d] /\ task' = [task EXCEPT ![t].at = "wait"]
    BY <1>7 DEF TurnStart, Debounced
  <2>3. Puts(task, task', t, e) /\ e.pod = p /\ e.at = "wait"
    BY <1>0, <1>u, <2>1, <2>2, PutAt DEF Tasks
  <2>4. d \in Debs /\ d.timer = 0 /\ d.typing
    BY <1>0, <2>1 DEF Debs
  <2> HIDE DEF d, e
  <2>5. Agrees(deb[p], task, p) /\ deb[p].timer = t /\ ~deb[p].typing
    BY <1>0, <1>u, <2>1 DEF Agrees
  <2>6. \A u \in DOMAIN task \ {t} : task[u].pod = p => task[u].at \notin Unstarted \cup Active
    BY <1>0, <2>1, <2>5 DEF Agrees
  <2>7. Agrees(d, task', p)
    BY <1>u, <2>3, <2>4, <2>6 DEF Agrees, Puts
  <2>8. \A q \in Pods \ {p} : Agrees(deb[q], task', q)
    BY <1>0, <2>1, <2>3, MoveAgrees
  <2>9. QED BY <1>3, <2>1, <2>2, <2>3, <2>4, <2>7, <2>8 DEF Puts
<1>8. ASSUME NEW t \in DOMAIN task, task[t].at = "again",
             Scheduled(Pod(t), [task EXCEPT ![t].at = "ended"], task[t].msg)
      PROVE  DebInv' /\ task' \in Seq(Tasks) /\ deb' \in [Pods -> Debs]
  <2> DEFINE us == [task EXCEPT ![t].at = "ended"]
             e == [task[t] EXCEPT !.at = "ended"]
  <2>1. Pod(t) \in Pods /\ task[t].msg \in Msgs /\ Puts(task, us, t, e) /\ us \in Seq(Tasks)
        /\ e.pod = task[t].pod /\ e.at = "ended"
    BY <1>0, <1>u, TypedTasks, PutAt DEF Pod, Tasks, Puts
  <2> HIDE DEF us, e
  <2>2. \A q \in Pods : Agrees(deb[q], us, q)
    BY <1>0, <1>8, <1>u, <2>1, MoveAgrees
  <2>3. QED BY <1>4, <1>8, <2>1, <2>2 DEF us
<1>9. ASSUME NEW p \in Pods, Crash(p)
      PROVE  DebInv' /\ task' \in Seq(Tasks) /\ deb' \in [Pods -> Debs]
  <2>1. deb' = [deb EXCEPT ![p] = Idle] /\ Idle \in Debs /\ Idle.timer = 0
    BY <1>9 DEF Crash, Idle, Debs
  <2>2. Agrees(Idle, task', p)
    BY <1>9, <1>u, <2>1, CrashTasks DEF Agrees
  <2>3. \A q \in Pods \ {p} : Agrees(deb[q], task', q)
    BY <1>0, <1>9, CrashTasks DEF Agrees
  <2>4. QED BY <1>3, <1>9, <2>1, <2>2, <2>3, CrashTasks
<1>10. QED BY <1>0, <1>2, <1>4, <1>5, <1>6, <1>7, <1>8, <1>9 DEF Effect

-----------------------------------------------------------------------------
(* The other variables                                                     *)

LEMMA Counts ==
    ASSUME TypeOK
    PROVE  /\ IsFiniteSet(DOMAIN task)
           /\ \A S \in SUBSET DOMAIN task : IsFiniteSet(S) /\ Cardinality(S) \in Nat
           /\ \A S \in SUBSET Calls : IsFiniteSet(S) /\ Cardinality(S) \in Nat
<1>1. IsFiniteSet(DOMAIN task)
  BY TypedTasks, FS_Interval
<1>2. QED BY <1>1, ChannelAssumption, FS_Subset, FS_CardinalityType

\* A call stays with its pod, and a spent event was allowed.
LEMMA CallStep ==
    ASSUME TypeOK, CallInv, [Next]_vars
    PROVE  CallInv' /\ call' \in [Calls -> [at : Places, pod : Pods \cup {None}, run : Nat]]
<1>1. ASSUME NEW c \in Calls, InboundStep(c)
      PROVE  \/ UNCHANGED call
             \/ /\ call[c].pod \in Pods
                /\ \E a \in Places : call' = [call EXCEPT ![c].at = a]
             \/ /\ call[c].pod \in Pods
                /\ \E a \in Places, r \in Nat : call' = [call EXCEPT ![c].at = a, ![c].run = r]
  <2>1. CASE InboundMark(c)
    BY <2>1 DEF InboundMark, CallAt, CallGoto, CallInv, Places
  <2>2. CASE InboundStore(c)
    BY <2>2 DEF InboundStore, CallAt, CallGoto, CallInv, Places
  <2>3. CASE InboundRoute(c)
    <3>1. \A r \in ActiveRuns : r \in Nat
      BY LenProperties DEF TypeOK, ActiveRuns
    <3>2. QED BY <2>3, <3>1 DEF InboundRoute, CallAt, CallGoto, CallInv, Places
  <2>4. CASE InboundFollow(c)
    BY <2>4 DEF InboundFollow, CallAt, CallGoto, CallInv, Places
  <2>5. CASE InboundSchedule(c)
    BY <2>5 DEF InboundSchedule, CallAt, CallGoto, CallInv, Places
  <2>6. QED BY <1>1, <2>1, <2>2, <2>3, <2>4, <2>5 DEF InboundStep
<1>2. ASSUME NEW c \in Calls, InboundStep(c)
      PROVE  CallInv' /\ call' \in [Calls -> [at : Places, pod : Pods \cup {None}, run : Nat]]
  <2> DEFINE Call == [at : Places, pod : Pods \cup {None}, run : Nat]
  <2>0. call \in [Calls -> Call]
    BY DEF TypeOK
  <2>1. CASE UNCHANGED call
    BY <2>1 DEF TypeOK, CallInv
  <2>2. ASSUME NEW x \in Call, x.pod \in Pods, call' = [call EXCEPT ![c] = x]
        PROVE  CallInv' /\ call' \in [Calls -> Call]
    <3> HIDE DEF Call
    <3>1. QED BY <2>0, <2>2 DEF CallInv
  <2>3. ASSUME NEW a \in Places, call[c].pod \in Pods, call' = [call EXCEPT ![c].at = a]
        PROVE  CallInv' /\ call' \in [Calls -> Call]
    <3>1. [call[c] EXCEPT !.at = a] \in Call /\ [call[c] EXCEPT !.at = a].pod \in Pods
      BY <2>0, <2>3
    <3>2. QED BY <2>2, <2>3, <3>1
  <2>4. ASSUME NEW a \in Places, NEW r \in Nat, call[c].pod \in Pods,
               call' = [call EXCEPT ![c].at = a, ![c].run = r]
        PROVE  CallInv' /\ call' \in [Calls -> Call]
    <3>1. /\ [call[c] EXCEPT !.at = a, !.run = r] \in Call
          /\ [call[c] EXCEPT !.at = a, !.run = r].pod \in Pods
      BY <2>0, <2>4
    <3>2. call' = [call EXCEPT ![c] = [call[c] EXCEPT !.at = a, !.run = r]]
      BY <2>4
    <3>3. QED BY <2>2, <3>1, <3>2
  <2>5. QED BY <1>1, <1>2, <2>1, <2>3, <2>4
<1>3. ASSUME NEW c \in Calls, NEW p \in Pods, Deliver(c, p)
      PROVE  CallInv' /\ call' \in [Calls -> [at : Places, pod : Pods \cup {None}, run : Nat]]
  BY <1>3 DEF Deliver, TypeOK, CallInv, Places
<1>4. ASSUME NEW p \in Pods, Crash(p)
      PROVE  CallInv' /\ call' \in [Calls -> [at : Places, pod : Pods \cup {None}, run : Nat]]
  <2> DEFINE Call == [at : Places, pod : Pods \cup {None}, run : Nat]
  <2>0. call \in [Calls -> Call]
    BY DEF TypeOK
  <2>1. \A c \in Calls : /\ [call[c] EXCEPT !.at = "lost"] \in Call
                         /\ [call[c] EXCEPT !.at = "lost"].at = "lost"
    BY <2>0 DEF Places
  <2>2. call' \in [Calls -> Call]
    BY <1>4, <2>0, <2>1 DEF Crash
  <2>3. CallInv'
    BY <1>4, <2>1 DEF Crash, CallInv
  <2>4. QED BY <2>2, <2>3
<1>5. CASE UNCHANGED call
  BY <1>5 DEF TypeOK, CallInv
<1>6. ASSUME NEW t \in DOMAIN task, TurnStep(t) PROVE UNCHANGED call
  BY <1>6 DEF TurnStep, Wake, TurnStart, TurnLimit, StoreLimit, TurnCount, TurnAcquire,
     TurnBusy, TurnInsert, TurnRead, TurnDrain,
     TurnAnswer, TurnReply, TurnSave, TurnFinish, TurnNext, TurnFollow, TurnAgain, inboundVars
<1>7. CASE (\E p \in Pods : OtherTurn(p)) \/ Stop \/ UNCHANGED vars
  BY <1>5, <1>7 DEF OtherTurn, Stop, inboundVars, vars
<1>8. ASSUME NEW t \in DOMAIN task, TurnLate(t) PROVE UNCHANGED call
  BY <1>8 DEF TurnLate, inboundVars
<1>9. QED BY <1>2, <1>3, <1>4, <1>5, <1>6, <1>7, <1>8 DEF Next

LEMMA SpendType ==
    ASSUME TypeOK, NEW e \in Events, Spend(e)
    PROVE  spent' \in [Events -> Nat]
BY DEF TypeOK, Spend

Runs == [task : Nat, status : {"running", "done"}]
Followups == [run : Nat, kind : {"steer", "queue"}, status : {"none", "pending", "delivered"}]

\* The types of what has neither tasks nor calls in it.
DataType ==
    /\ app \in BOOLEAN
    /\ marked \subseteq Msgs
    /\ stored \in [Msgs -> Nat] /\ steered \in [Msgs -> Nat]
    /\ enabled \in [reply : BOOLEAN, bot : BOOLEAN]
    /\ run \in Seq(Runs) /\ row \in [Calls -> Followups]
    /\ others \in [Pods -> 0..Limit] /\ max \in [Pods -> 1..Limit]
    /\ due \subseteq Msgs /\ answered \subseteq Msgs
    /\ spent \in [Events -> Nat]

LEMMA DataStep ==
    ASSUME TypeOK, [Next]_vars
    PROVE  DataType'
<1>a. DataType
  BY DEF TypeOK, DataType, Runs, Followups
<1>b. (\A c \in Calls : c[1] \in Msgs) /\ InChat \subseteq Msgs
  BY DEF Calls, InChat
<1>c. \A t \in DOMAIN task : task[t].msg \in Msgs
  BY TypedTasks DEF Tasks
<1>d. call \in [Calls -> [at : Places, pod : Pods \cup {None}, run : Nat]]
  BY DEF TypeOK
<1>0. /\ DataType /\ \A c \in Calls : c[1] \in Msgs
      /\ \A t \in DOMAIN task : task[t].msg \in Msgs
      /\ {"dedup", "error", "crash", "stop", "plan", "other"} = Events
      /\ \A c \in Calls : call[c].run \in Nat
      /\ InChat \subseteq Msgs
  BY <1>a, <1>b, <1>c, <1>d DEF Events
<1>e. ASSUME NEW p \in Pods, StoreLimit(p)
      PROVE  max' \in [Pods -> 1..Limit] /\ spent' \in [Events -> Nat]
  BY <1>0, <1>e, SpendType DEF StoreLimit, DataType
<1>1. ASSUME NEW c \in Calls, InboundStep(c) PROVE DataType'
  <2>1. CASE InboundMark(c)
    BY <1>0, <2>1, SpendType DEF InboundMark, DataType
  <2>2. CASE InboundStore(c)
    <3>1. stored' \in [Msgs -> Nat]
      <4>1. stored \in [Msgs -> Nat] /\ c[1] \in Msgs /\ stored[c[1]] + 1 \in Nat
        BY <1>0 DEF DataType
      <4>2. stored' = stored \/ stored' = [stored EXCEPT ![c[1]] = stored[c[1]] + 1]
        BY <2>2 DEF InboundStore
      <4>3. QED BY <4>1, <4>2
    <3>2. enabled' \in [reply : BOOLEAN, bot : BOOLEAN]
      BY <1>0, <2>2 DEF InboundStore, DataType
    <3>3. QED BY <1>0, <2>2, <3>1, <3>2, SpendType DEF InboundStore, DataType
  <2>3. CASE InboundRoute(c)
    BY <1>0, <2>3, SpendType DEF InboundRoute, DataType
  <2>4. CASE InboundFollow(c)
    <3>1. \A k \in {"steer", "queue"} :
             [run |-> call[c].run, kind |-> k, status |-> "pending"] \in Followups
      BY <1>0 DEF Followups
    <3>2. row' \in [Calls -> Followups]
      BY <1>0, <2>4, <3>1 DEF InboundFollow, DataType
    <3>3. QED BY <1>0, <2>4, <3>2, SpendType DEF InboundFollow, DataType
  <2>5. CASE InboundSchedule(c)
    BY <1>0, <2>5 DEF InboundSchedule, DataType
  <2>6. QED BY <1>1, <2>1, <2>2, <2>3, <2>4, <2>5 DEF InboundStep
<1>2. ASSUME NEW c \in Calls, NEW p \in Pods, Deliver(c, p) PROVE DataType'
  BY <1>0, <1>2 DEF Deliver, DataType
<1>3. ASSUME NEW t \in DOMAIN task, TurnStep(t) PROVE DataType'
  <2>1. CASE \/ Wake(t) \/ TurnStart(t) \/ TurnCount(t) \/ TurnAcquire(t) \/ TurnAnswer(t)
             \/ TurnFollow(t) \/ TurnAgain(t)
    BY <1>0, <2>1 DEF Wake, TurnStart, TurnCount, TurnAcquire, TurnAnswer, TurnFollow, TurnAgain,
       inboundVars, DataType
  <2>a. CASE TurnRead(t)
    BY <1>0, <2>a, SpendType DEF TurnRead, inboundVars, DataType
  <2>b. CASE TurnLimit(t)
    <3>1. Pod(t) \in Pods
      BY TypedTasks DEF Tasks, Pod
    <3>2. max' \in [Pods -> 1..Limit] /\ spent' \in [Events -> Nat]
      BY <1>e, <2>b, <3>1 DEF TurnLimit
    <3>3. QED BY <1>0, <2>b, <3>2 DEF TurnLimit, inboundVars, DataType
  <2>2. CASE TurnBusy(t)
    BY <1>0, <2>2, SpendType DEF TurnBusy, TurnFail, inboundVars, DataType
  <2>3. CASE TurnInsert(t)
    <3>1. t \in Nat /\ [task |-> t, status |-> "running"] \in Runs
      BY TypedTasks DEF Runs
    <3>2. run' \in Seq(Runs)
      <4>1. run \in Seq(Runs)
        BY <1>0 DEF DataType
      <4>2. run' = run \/ run' = Append(run, [task |-> t, status |-> "running"])
        BY <2>3 DEF TurnInsert
      <4>3. QED BY <3>1, <4>1, <4>2, AppendProperties
    <3>3. QED BY <1>0, <2>3, <3>2, SpendType DEF TurnInsert, inboundVars, DataType
  <2>4. CASE TurnDrain(t)
    <3> DEFINE rows == Pending(RunOf(t), "steer")
    <3>1. rows \subseteq Calls
      BY DEF Pending, Rows
    <3>2. row' = [c \in Calls |-> IF c \in rows THEN [row[c] EXCEPT !.status = "delivered"] ELSE row[c]]
          /\ steered' = [m \in Msgs |-> steered[m] + Cardinality({c \in rows : c[1] = m})]
          /\ answered' = answered \cup {c[1] : c \in rows}
          /\ UNCHANGED <<app, marked, stored, enabled, run, others, max, due, spent>>
      BY <2>4 DEF TurnDrain, inboundVars
    <3> HIDE DEF rows
    <3>3. \A m \in Msgs : Cardinality({c \in rows : c[1] = m}) \in Nat
      BY <3>1, Counts
    <3>4. steered' \in [Msgs -> Nat]
      <4>1. steered \in [Msgs -> Nat]
        BY <1>0 DEF DataType
      <4>2. \A m \in Msgs : steered[m] + Cardinality({c \in rows : c[1] = m}) \in Nat
        BY <3>3, <4>1
      <4>3. QED BY <3>2, <4>2
    <3>5. row' \in [Calls -> Followups]
      <4>1. row \in [Calls -> Followups]
        BY <1>0 DEF DataType
      <4>2. \A c \in Calls : [row[c] EXCEPT !.status = "delivered"] \in Followups
        BY <4>1 DEF Followups
      <4>3. QED BY <3>2, <4>1, <4>2
    <3>6. answered' \subseteq Msgs
      BY <1>0, <3>1, <3>2 DEF DataType
    <3>7. QED BY <1>0, <3>2, <3>4, <3>5, <3>6 DEF DataType
  <2>5. CASE TurnReply(t)
    BY <1>0, <2>5, SpendType DEF TurnReply, TurnFail, inboundVars, DataType
  <2>6. CASE TurnSave(t)
    BY <1>0, <2>6, SpendType DEF TurnSave, TurnFail, inboundVars, DataType
  <2>7. CASE TurnFinish(t)
    <3>1. DOMAIN run = 1..Len(run) /\ Len(run) \in Nat /\ \A r \in DOMAIN run : run[r] \in Runs
      BY <1>0, LenProperties, ElementOfSeq DEF DataType
    <3>2. ASSUME run' = [r \in DOMAIN run |-> IF r \in RunOf(t) THEN [run[r] EXCEPT !.status = "done"]
                                              ELSE run[r]]
          PROVE  run' \in Seq(Runs)
      <4>1. run' \in [1..Len(run) -> Runs]
        BY <3>1, <3>2 DEF Runs
      <4>2. QED BY <3>1, <4>1
    <3>3. run' \in Seq(Runs)
      BY <1>0, <2>7, <3>2 DEF TurnFinish, DataType
    <3>4. QED BY <1>0, <2>7, <3>3, SpendType DEF TurnFinish, inboundVars, DataType
  <2>8. CASE TurnNext(t)
    <3>1. row' \in [Calls -> Followups]
      <4>1. row \in [Calls -> Followups]
        BY <1>0 DEF DataType
      <4>2. \A c \in Calls : [row[c] EXCEPT !.status = "delivered"] \in Followups
        BY <4>1 DEF Followups
      <4>3. row' = row \/ \E c \in Calls : row' = [row EXCEPT ![c].status = "delivered"]
        BY <2>8 DEF TurnNext, TurnFail, Pending, Rows
      <4>4. QED BY <4>1, <4>2, <4>3
    <3>2. QED BY <1>0, <2>8, <3>1, SpendType DEF TurnNext, TurnFail, inboundVars, DataType
  <2>9. QED BY <1>3, <2>1, <2>a, <2>b, <2>2, <2>3, <2>4, <2>5, <2>6, <2>7, <2>8 DEF TurnStep
<1>4. ASSUME NEW p \in Pods, OtherTurn(p) PROVE DataType'
  <2>1. others' \in [Pods -> 0..Limit]
    <3> DEFINE held == Cardinality({t \in DOMAIN task : Pod(t) = p /\ task[t].at \in Holding})
    <3>1. held \in Nat /\ Limit \in Nat
      BY Counts, ChannelAssumption
    <3>2. Permits(p) = others[p] + held
      BY DEF Permits
    <3> HIDE DEF held
    <3>3. others \in [Pods -> 0..Limit] /\ others[p] \in 0..Limit
      BY <1>0 DEF DataType
    <3>4. CASE Permits(p) < max[p] /\ others' = [others EXCEPT ![p] = @ + 1]
      <4>0. max[p] \in 1..Limit
        BY <1>0 DEF DataType
      <4>1. others[p] + 1 \in 0..Limit
        BY <3>1, <3>2, <3>3, <3>4, <4>0
      <4>2. QED BY <3>3, <3>4, <4>1
    <3>5. CASE others[p] > 0 /\ others' = [others EXCEPT ![p] = @ - 1]
      <4>1. others[p] - 1 \in 0..Limit
        BY <3>1, <3>3, <3>5
      <4>2. QED BY <3>3, <3>5, <4>1
    <3>6. QED BY <1>4, <3>3, <3>4, <3>5 DEF OtherTurn
  <2>2. max' \in [Pods -> 1..Limit] /\ spent' \in [Events -> Nat]
    BY <1>0, <1>4, <1>e, SpendType DEF OtherTurn, DataType
  <2>3. QED BY <1>0, <1>4, <2>1, <2>2 DEF OtherTurn, inboundVars, DataType
<1>5. ASSUME NEW p \in Pods, Crash(p) PROVE DataType'
  BY <1>0, <1>5, SpendType, ChannelAssumption DEF Crash, DataType
<1>6. CASE Stop
  BY <1>0, <1>6, SpendType DEF Stop, inboundVars, DataType
<1>7. CASE UNCHANGED vars
  BY <1>0, <1>7 DEF vars, DataType
<1>8. ASSUME NEW t \in DOMAIN task, TurnLate(t) PROVE DataType'
  BY <1>0, <1>8 DEF TurnLate, inboundVars, DataType
<1>9. QED BY <1>1, <1>2, <1>3, <1>4, <1>5, <1>6, <1>7, <1>8 DEF Next

-----------------------------------------------------------------------------
(* Theorems                                                                *)

IInv == TypeOK /\ CallInv /\ DebInv

LEMMA TypedParts ==
    ASSUME DataType, DebInv, task \in Seq(Tasks), deb \in [Pods -> Debs],
           call \in [Calls -> [at : Places, pod : Pods \cup {None}, run : Nat]]
    PROVE  TypeOK
<1>1. \A p \in Pods : deb[p].timer # 0 => /\ deb[p].timer \in DOMAIN task
                                          /\ task[deb[p].timer].at \in Unstarted
  BY DEF DebInv, Agrees, Idle
<1>2. QED BY <1>1 DEF TypeOK, DataType, Tasks, TaskPlaces, Debs, Runs, Followups

LEMMA InitInv ==
    ASSUME Init
    PROVE  IInv
<1>1. DataType
  BY ChannelAssumption DEF Init, DataType, Followups, NoRow
<1>2. call \in [Calls -> [at : Places, pod : Pods \cup {None}, run : Nat]] /\ CallInv
  BY DEF Init, Places, CallInv
<1>3. task \in Seq(Tasks) /\ DOMAIN task = {} /\ deb \in [Pods -> Debs]
      /\ (\A p \in Pods : deb[p] = Idle) /\ Idle \in Debs /\ Idle.timer = 0
  BY DEF Init, Debs, Idle
<1>4. DebInv
  BY <1>3 DEF DebInv, Agrees
<1>5. QED BY <1>1, <1>2, <1>3, <1>4, TypedParts DEF IInv

LEMMA StepInv ==
    ASSUME IInv, [Next]_vars
    PROVE  IInv'
<1>1. TypeOK /\ CallInv /\ DebInv /\ app \in BOOLEAN
  BY DEF IInv, TypeOK
<1>2. DebInv' /\ task' \in Seq(Tasks) /\ deb' \in [Pods -> Debs]
  BY <1>1, Effects, AppStep, PodStep
<1>3. DataType' /\ CallInv' /\ call' \in [Calls -> [at : Places, pod : Pods \cup {None}, run : Nat]]
  BY <1>1, DataStep, CallStep
<1>4. TypeOK'
  <2>1. \A p \in Pods : deb'[p].timer # 0 => /\ deb'[p].timer \in DOMAIN task'
                                             /\ task'[deb'[p].timer].at \in Unstarted
    BY <1>2 DEF DebInv, Agrees, Idle
  <2>2. QED BY <1>2, <1>3, <2>1 DEF TypeOK, DataType, Tasks, TaskPlaces, Debs, Runs, Followups
<1>5. QED BY <1>2, <1>3, <1>4 DEF IInv

LEMMA Invariance == Spec => []IInv
<1>1. Init => IInv
  BY InitInv
<1>2. IInv /\ [Next]_vars => IInv'
  BY StepInv
<1>3. QED BY <1>1, <1>2, PTL DEF Spec

\* The variables of the channels keep their types, and a timer that the
\* debouncer of a pod would abort is the timer of a task that has not started.
THEOREM TypeCorrect == Spec => []TypeOK
<1>1. IInv => TypeOK
  BY DEF IInv
<1>2. QED BY <1>1, Invariance, PTL

\* schedule, turn_started and turn_finished let one turn of a chat run on a pod
\* at a time, for any messages, deliveries, errors and crashes.
THEOREM OneTurnCorrect == Spec => []OneTurnOnPod
<1>1. ASSUME IInv PROVE OneTurnOnPod
  <2>1. ASSUME ~app, NEW t \in DOMAIN task, NEW u \in DOMAIN task, Turning(t), Turning(u),
               Pod(t) = Pod(u)
        PROVE  t = u
    <3>1. Pod(t) \in Pods
      BY <1>1, TypedTasks DEF IInv, Tasks, Pod
    <3>2. Agrees(deb[Pod(t)], task, Pod(t))
      BY <1>1, <2>1, <3>1 DEF IInv, DebInv
    <3>3. QED BY <2>1, <3>2 DEF Agrees, Turning, Pod, Active
  <2>2. QED BY <2>1 DEF OneTurnOnPod
<1>2. QED BY <1>1, Invariance, PTL

-----------------------------------------------------------------------------
(* The limit of the bot                                                    *)

\* Who holds a permit in us has held it in ts, on the same pod, and who has
\* counted the permits has counted as many.
Kept(ts, us) ==
    \A u \in DOMAIN us :
       /\ us[u].at \in Holding =>
             u \in DOMAIN ts /\ ts[u].at \in Holding /\ us[u].pod = ts[u].pod
       /\ us[u].at = "swap" =>
             u \in DOMAIN ts /\ ts[u].at = "swap" /\ us[u].cur = ts[u].cur

\* compare_exchange adds one to a count that was below the limit.
Counted == \A t \in DOMAIN task : task[t].at = "swap" => task[t].cur < Limit
LimitInv == WithinLimit /\ Counted

LEMMA KeptTwice ==
    ASSUME NEW ts, NEW us, NEW ws, Kept(ts, us), Kept(us, ws)
    PROVE  Kept(ts, ws)
BY DEF Kept

LEMMA KeptMove ==
    ASSUME NEW ts \in Seq(Tasks), NEW t \in DOMAIN ts, NEW a \in TaskPlaces \ {"swap"},
           a \in Holding => ts[t].at \in Holding
    PROVE  Kept(ts, [ts EXCEPT ![t].at = a]) /\ [ts EXCEPT ![t].at = a] \in Seq(Tasks)
           /\ DOMAIN [ts EXCEPT ![t].at = a] = DOMAIN ts
<1>1. Puts(ts, [ts EXCEPT ![t].at = a], t, [ts[t] EXCEPT !.at = a]) /\ ts[t] \in Tasks
  BY PutAt
<1>2. [ts[t] EXCEPT !.at = a].at = a /\ [ts[t] EXCEPT !.at = a].pod = ts[t].pod
  BY <1>1 DEF Tasks
<1>3. QED BY <1>1, <1>2 DEF Kept, Puts

LEMMA KeptSchedule ==
    ASSUME NEW ts \in Seq(Tasks), NEW p \in Pods, NEW m \in Msgs, NEW d,
           d.timer # 0 => d.timer \in DOMAIN ts
    PROVE  Kept(ts, Schedule(d, ts, m, p).task)
<1> DEFINE us == Abort(ts, d.timer)
           e == Job(m, p, "timer")
<1>0. /\ "ended" \in TaskPlaces \ {"swap"} /\ "ended" \notin Holding /\ "timer" \notin Holding
      /\ "timer" # "swap"
  BY DEF TaskPlaces, Holding
<1>1. us \in Seq(Tasks) /\ Kept(ts, us)
  BY <1>0, KeptMove DEF Abort, Kept
<1>2. Adds(us, Append(us, e), e) /\ e.at = "timer"
  BY <1>1, AddTask, NewTask
<1>3. Kept(ts, Append(us, e))
  BY <1>0, <1>1, <1>2 DEF Kept, Adds
<1>4. Schedule(d, ts, m, p).task = ts \/ Schedule(d, ts, m, p).task = Append(us, e)
  BY DEF Schedule
<1>5. QED BY <1>3, <1>4 DEF Kept

LEMMA KeptFinished ==
    ASSUME NEW ts \in Seq(Tasks), NEW p \in Pods, NEW d \in Debs,
           d.timer # 0 => d.timer \in DOMAIN ts
    PROVE  Kept(ts, TurnFinished(d, ts, p).task)
<1> DEFINE free == [d EXCEPT !.typing = FALSE, !.pending = None]
<1>1. free.timer = d.timer
  BY DEF Debs
<1>2. CASE d.pending = None
  BY <1>2 DEF TurnFinished, Kept
<1>3. CASE d.pending # None
  <2>1. d.pending \in Msgs
    BY <1>3 DEF Debs
  <2>2. TurnFinished(d, ts, p).task = Schedule(free, ts, d.pending, p).task
    BY <1>3 DEF TurnFinished
  <2> HIDE DEF free
  <2>3. QED BY <1>1, <2>1, <2>2, KeptSchedule
<1>4. QED BY <1>2, <1>3

\* A turn that neither counts permits nor takes one keeps what it has.
LEMMA KeptTurn ==
    ASSUME TypeOK, NEW t \in DOMAIN task, TurnStep(t), ~TurnCount(t), ~TurnAcquire(t)
    PROVE  Kept(task, task') /\ others' = others
<1>0. /\ task \in Seq(Tasks) /\ task[t] \in Tasks /\ Pod(t) \in Pods /\ task[t].msg \in Msgs
      /\ \A p \in Pods : deb[p] \in Debs /\ (deb[p].timer # 0 => deb[p].timer \in DOMAIN task)
      /\ Holding \subseteq TaskPlaces \ {"swap"}
      /\ {"ended", "woken", "wait", "try"} \subseteq (TaskPlaces \ {"swap"}) \ Holding
  BY TypedTasks DEF TypeOK, Tasks, Pod, TaskPlaces, Unstarted, Started, Holding
<1>1. others' = others
  BY DEF TurnStep, Wake, TurnStart, TurnLimit, TurnBusy, TurnInsert, TurnRead, TurnDrain,
     TurnAnswer, TurnReply, TurnSave, TurnFinish, TurnNext, TurnFollow, TurnAgain
<1>2. ASSUME NEW a \in TaskPlaces \ {"swap"}, a \in Holding => task[t].at \in Holding, Goto(t, a)
      PROVE  Kept(task, task')
  BY <1>0, <1>2, KeptMove DEF Goto
<1>3. ASSUME TurnFail(t) PROVE Kept(task, task')
  BY <1>0, <1>2, <1>3 DEF TurnFail
<1>4. ASSUME NEW a \in {"ended", "again"}, a \in Holding => task[t].at \in Holding,
             Debounced(Pod(t), TurnFinished(deb[Pod(t)], [task EXCEPT ![t].at = a], Pod(t)))
      PROVE  Kept(task, task')
  <2> DEFINE us == [task EXCEPT ![t].at = a]
  <2>1. a \in TaskPlaces \ {"swap"}
    BY DEF TaskPlaces, Started, Holding
  <2>2. Kept(task, us) /\ us \in Seq(Tasks) /\ DOMAIN us = DOMAIN task
    BY <1>0, <1>4, <2>1, KeptMove
  <2>3. task' = TurnFinished(deb[Pod(t)], us, Pod(t)).task
    BY <1>4 DEF Debounced
  <2> HIDE DEF us
  <2>4. Kept(us, task')
    BY <1>0, <2>2, <2>3, KeptFinished
  <2>5. QED BY <2>2, <2>4, KeptTwice
<1>5. CASE Wake(t) \/ TurnLimit(t)
  BY <1>0, <1>2, <1>5 DEF Wake, TurnLimit
<1>6. CASE TurnStart(t)
  BY <1>0, <1>6, KeptMove DEF TurnStart, Debounced
<1>7. CASE \/ TurnInsert(t) \/ TurnRead(t) \/ TurnDrain(t) \/ TurnAnswer(t)
           \/ TurnReply(t) \/ TurnSave(t) \/ TurnFinish(t)
  <2>1. task[t].at \in Holding /\ \E a \in TaskPlaces \ {"swap"} : Goto(t, a)
    BY <1>0, <1>7 DEF TurnInsert, TurnRead, TurnDrain, TurnAnswer, TurnReply, TurnSave, TurnFinish,
       TurnFail, At, Holding
  <2>2. QED BY <1>1, <1>2, <2>1
<1>8. CASE TurnBusy(t)
  BY <1>0, <1>3, <1>4, <1>8 DEF TurnBusy
<1>9. CASE TurnNext(t)
  <2>1. ASSUME NEW c, task' = [task EXCEPT ![t].at = "follow", ![t].msg = c]
        PROVE  Kept(task, task')
    <3>1. task[t].at \in Holding
      BY <1>9 DEF TurnNext, At, Holding
    <3>2. /\ DOMAIN task' = DOMAIN task /\ task'[t].pod = task[t].pod /\ task'[t].at # "swap"
          /\ \A u \in DOMAIN task : u # t => task'[u] = task[u]
      BY <1>0, <2>1 DEF Tasks
    <3>3. QED BY <3>1, <3>2 DEF Kept
  <2>2. QED BY <1>0, <1>3, <1>4, <1>9, <2>1 DEF TurnNext
<1>10. CASE TurnFollow(t)
  <2>1. task[t].at \in Holding
    BY <1>10 DEF TurnFollow, At, Holding
  <2>2. QED BY <1>4, <1>10, <2>1 DEF TurnFollow
<1>11. CASE TurnAgain(t)
  <2> DEFINE us == [task EXCEPT ![t].at = "ended"]
  <2>1. Kept(task, us) /\ us \in Seq(Tasks) /\ DOMAIN us = DOMAIN task
    BY <1>0, KeptMove
  <2>2. task' = Schedule(deb[Pod(t)], us, task[t].msg, Pod(t)).task
    BY <1>11 DEF TurnAgain, Debounced
  <2> HIDE DEF us
  <2>3. Kept(us, task')
    BY <1>0, <2>1, <2>2, KeptSchedule
  <2>4. QED BY <1>1, <2>1, <2>3, KeptTwice
<1>12. QED BY <1>1, <1>5, <1>6, <1>7, <1>8, <1>9, <1>10, <1>11 DEF TurnStep

Holders(p) == {t \in DOMAIN task : Pod(t) = p /\ task[t].at \in Holding}

LEMMA LimitStep ==
    ASSUME IInv, LimitInv, [Next]_vars
    PROVE  LimitInv'
<1>0. /\ TypeOK /\ TypeOK' /\ CallInv
      /\ task \in Seq(Tasks) /\ Limit \in Nat
      /\ \A p \in Pods : others[p] \in Nat /\ others'[p] \in Nat /\ max[p] \in 1..Limit
      /\ \A p \in Pods : deb[p].timer # 0 => deb[p].timer \in DOMAIN task
  <2>1. TypeOK /\ TypeOK' /\ CallInv
    BY StepInv DEF IInv
  <2>2. /\ others \in [Pods -> 0..Limit] /\ others' \in [Pods -> 0..Limit] /\ Limit \in Nat
        /\ max \in [Pods -> 1..Limit]
    BY <2>1, ChannelAssumption DEF TypeOK
  <2>3. \A p \in Pods : others[p] \in Nat /\ others'[p] \in Nat /\ max[p] \in 1..Limit
    BY <2>2
  <2>4. \A p \in Pods : deb[p].timer # 0 => deb[p].timer \in DOMAIN task
    BY <2>1 DEF TypeOK
  <2>5. QED BY <2>1, <2>2, <2>3, <2>4, TypedTasks
<1>1. \A p \in Pods : /\ IsFiniteSet(Holders(p)) /\ Cardinality(Holders(p)) \in Nat
                      /\ Permits(p) = others[p] + Cardinality(Holders(p))
  BY <1>0, Counts DEF Holders, Permits
<1>2. \A p \in Pods : Permits(p)' = others'[p] + Cardinality(Holders(p)')
  BY DEF Holders, Permits
<1>3. ASSUME Kept(task, task'), NEW p \in Pods
      PROVE  Cardinality(Holders(p)') \in Nat /\ Cardinality(Holders(p)') <= Cardinality(Holders(p))
  <2>1. Holders(p)' \subseteq Holders(p)
    BY <1>3 DEF Kept, Holders, Pod
  <2>2. QED BY <1>1, <2>1, FS_Subset, FS_CardinalityType
<1>k. ASSUME Kept(task, task') PROVE Counted'
  BY <1>k DEF LimitInv, Counted, Kept
<1>4. CASE Kept(task, task') /\ \A p \in Pods : others'[p] <= others[p]
  <2>1. ASSUME NEW p \in Pods PROVE Permits(p)' <= Limit
    <3>1. Permits(p) <= Limit
      BY DEF LimitInv, WithinLimit
    <3>2. Permits(p)' = others'[p] + Cardinality(Holders(p)')
      BY <1>2
    <3>3. QED BY <1>0, <1>1, <1>3, <1>4, <3>1, <3>2
  <2>2. QED BY <1>4, <1>k, <2>1 DEF LimitInv, WithinLimit
<1>5. ASSUME NEW c \in Calls, InboundStep(c) PROVE Kept(task, task') /\ others' = others
  <2>1. c[1] \in Msgs
    BY DEF Calls
  <2>2. CASE InboundMark(c) \/ InboundStore(c) \/ InboundFollow(c)
    BY <2>2 DEF InboundMark, InboundStore, InboundFollow, Kept
  <2>3. CASE InboundRoute(c)
    <3>1. CASE task' = task
      BY <2>3, <3>1 DEF InboundRoute, Kept
    <3>2. CASE task' = Append(task, Job(c[1], call[c].pod, "woken"))
      <4>1. call[c].pod \in Pods /\ "woken" \notin Holding
        BY <1>0, <2>3 DEF InboundRoute, CallAt, CallInv, Holding
      <4>2. Adds(task, task', Job(c[1], call[c].pod, "woken")) /\ Job(c[1], call[c].pod, "woken").at = "woken"
        BY <1>0, <2>1, <3>2, <4>1, AddTask, NewTask
      <4>3. QED BY <2>3, <4>1, <4>2 DEF Adds, Kept, InboundRoute
    <3>3. QED BY <2>3, <3>1, <3>2 DEF InboundRoute
  <2>4. CASE InboundSchedule(c)
    <3>1. call[c].pod \in Pods
      BY <1>0, <2>4 DEF InboundSchedule, CallAt, CallInv
    <3>2. task' = Schedule(deb[call[c].pod], task, c[1], call[c].pod).task /\ others' = others
      BY <2>4 DEF InboundSchedule, Debounced
    <3>3. QED BY <1>0, <2>1, <3>1, <3>2, KeptSchedule
  <2>5. QED BY <1>5, <2>2, <2>3, <2>4 DEF InboundStep
<1>6. ASSUME NEW t \in DOMAIN task, TurnCount(t) \/ TurnAcquire(t) \/ TurnLate(t) PROVE LimitInv'
  <2>0. others' = others
    BY <1>6 DEF TurnCount, TurnAcquire, TurnLate
  <2>a. PICK e \in Tasks :
           /\ Puts(task, task', t, e) /\ e.pod = Pod(t)
           /\ task[t].at \in {"try", "swap"} /\ e.at \in {"try", "swap", "insert"}
           /\ e.at = "insert" => TurnAcquire(t) /\ Unchanged(t)
           /\ e.at = "swap" => \/ TurnCount(t) /\ e.cur = Permits(Pod(t))
                               \/ task[t].at = "swap" /\ e.cur = task[t].cur
    BY <1>0, <1>6, WaitTask
  <2>b. /\ DOMAIN task' = DOMAIN task /\ task'[t] = e /\ task'[t].pod = Pod(t) /\ Pod(t) \in Pods
        /\ \A u \in DOMAIN task \ {t} : task'[u] = task[u]
        /\ task[t] \in Tasks
    BY <1>0, <2>a, TypedTasks DEF Puts, Tasks, Pod
  <2>c. Counted'
    <3>1. TurnCount(t) => Permits(Pod(t)) < max[Pod(t)]
      BY DEF TurnCount
    <3>2. Permits(Pod(t)) \in Nat /\ max[Pod(t)] \in 1..Limit
      BY <1>0, <2>b, PermitsType
    <3>3. e.at = "swap" => e.cur < Limit
      BY <1>0, <2>a, <3>1, <3>2 DEF LimitInv, Counted
    <3>4. QED BY <2>b, <3>3 DEF LimitInv, Counted
  <2>d. e.at = "insert" => Permits(Pod(t)) < Limit
    <3>1. e.at = "insert" => task[t].at = "swap" /\ Permits(Pod(t)) = task[t].cur
      BY <2>a DEF TurnAcquire, Unchanged, At
    <3>2. QED BY <3>1 DEF LimitInv, Counted
  <2>1. ASSUME NEW p \in Pods PROVE Permits(p)' <= Limit
    <3>0. /\ Permits(p) <= Limit
          /\ e.at \notin Holding \/ Permits(Pod(t)) < Limit
      BY <2>a, <2>d DEF LimitInv, WithinLimit, Holding
    <3>2. e.at \notin Holding => Holders(p)' \subseteq Holders(p)
      BY <2>b DEF Holders, Pod
    <3>3. Holders(p)' \subseteq Holders(p) \cup (IF p = Pod(t) THEN {t} ELSE {})
      BY <2>b DEF Holders, Pod
    <3>4. CASE p = Pod(t) /\ e.at \in Holding
      <4>1. IsFiniteSet(Holders(p) \cup {t})
            /\ Cardinality(Holders(p) \cup {t}) <= Cardinality(Holders(p)) + 1
            /\ Cardinality(Holders(p) \cup {t}) \in Nat
        <5>1. IsFiniteSet(Holders(p)) /\ Cardinality(Holders(p)) \in Nat
          BY <1>1
        <5>2. /\ IsFiniteSet(Holders(p) \cup {t})
              /\ \/ Cardinality(Holders(p) \cup {t}) = Cardinality(Holders(p))
                 \/ Cardinality(Holders(p) \cup {t}) = Cardinality(Holders(p)) + 1
          BY <5>1, FS_AddElement
        <5>3. QED BY <5>1, <5>2
      <4>2. Cardinality(Holders(p)') <= Cardinality(Holders(p) \cup {t})
            /\ Cardinality(Holders(p)') \in Nat
        BY <3>3, <3>4, <4>1, FS_Subset, FS_CardinalityType
      <4>3. Permits(p)' = others'[p] + Cardinality(Holders(p)')
        BY <1>2
      <4>4. QED BY <1>0, <1>1, <2>0, <3>0, <3>4, <4>1, <4>2, <4>3
    <3>5. CASE p # Pod(t) \/ e.at \notin Holding
      <4>1. Holders(p)' \subseteq Holders(p)
        BY <3>2, <3>3, <3>5
      <4>2. Cardinality(Holders(p)') <= Cardinality(Holders(p)) /\ Cardinality(Holders(p)') \in Nat
        BY <1>1, <4>1, FS_Subset, FS_CardinalityType
      <4>3. Permits(p)' = others'[p] + Cardinality(Holders(p)')
        BY <1>2
      <4>4. QED BY <1>0, <1>1, <2>0, <3>0, <4>2, <4>3
    <3>6. QED BY <3>4, <3>5
  <2>2. QED BY <2>1, <2>c DEF LimitInv, WithinLimit
<1>7. ASSUME NEW p \in Pods, OtherTurn(p) PROVE LimitInv'
  <2>1. task' = task /\ Kept(task, task')
    BY <1>7 DEF OtherTurn, Kept
  <2>2. CASE Permits(p) < max[p] /\ others' = [others EXCEPT ![p] = @ + 1]
    <3>1. ASSUME NEW q \in Pods PROVE Permits(q)' <= Limit
      <4>1. Permits(q) <= Limit /\ Permits(q)' = others'[q] + Cardinality(Holders(q)')
            /\ Cardinality(Holders(q)') \in Nat /\ Cardinality(Holders(q)') <= Cardinality(Holders(q))
        BY <1>2, <1>3, <2>1 DEF LimitInv, WithinLimit
      <4>2. others'[q] = IF q = p THEN others[q] + 1 ELSE others[q]
        BY <1>0, <2>2 DEF TypeOK
      <4>3. QED BY <1>0, <1>1, <2>2, <4>1, <4>2
    <3>2. QED BY <1>k, <2>1, <3>1 DEF LimitInv, WithinLimit
  <2>3. CASE others[p] > 0 /\ others' = [others EXCEPT ![p] = @ - 1]
    <3>1. \A q \in Pods : others'[q] <= others[q]
      BY <1>0, <2>3 DEF TypeOK
    <3>2. QED BY <1>4, <2>1, <3>1
  <2>4. CASE others' = others
    BY <1>0, <1>4, <2>1, <2>4
  <2>5. QED BY <1>7, <2>2, <2>3, <2>4 DEF OtherTurn
<1>8. ASSUME NEW p \in Pods, Crash(p) PROVE LimitInv'
  <2>1. Kept(task, task')
    BY <1>0, <1>8, CrashTasks DEF Kept, Holding
  <2>2. \A q \in Pods : others'[q] <= others[q]
    BY <1>0, <1>8 DEF Crash, TypeOK
  <2>3. QED BY <1>4, <2>1, <2>2
<1>9. CASE Stop \/ UNCHANGED vars \/ \E c \in Calls, p \in Pods : Deliver(c, p)
  <2>1. task' = task /\ others' = others
    BY <1>9 DEF Stop, vars, Deliver
  <2>2. Kept(task, task')
    BY <2>1 DEF Kept
  <2>3. QED BY <1>0, <1>4, <2>1, <2>2
<1>10. ASSUME NEW t \in DOMAIN task, TurnStep(t), ~TurnCount(t), ~TurnAcquire(t)
      PROVE  LimitInv'
  BY <1>0, <1>4, <1>10, KeptTurn
<1>11. ASSUME NEW c \in Calls, InboundStep(c) PROVE LimitInv'
  BY <1>0, <1>4, <1>5, <1>11
<1>12. QED BY <1>6, <1>7, <1>8, <1>9, <1>10, <1>11 DEF Next

\* acquire_turn keeps the turns of a bot on a pod within the largest limit of
\* its plans: the exchange succeeds only on the count that was compared with
\* the limit, whoever came or went and whatever limit was stored in between.
THEOREM LimitCorrect == Spec => []WithinLimit
<1>1. Init => LimitInv
  <2>1. ASSUME Init, NEW p \in Pods PROVE Permits(p) <= Limit
    <3>1. {t \in DOMAIN task : Pod(t) = p /\ task[t].at \in Holding} = {} /\ others[p] = 0
      BY <2>1 DEF Init
    <3>2. Permits(p) = 0 + Cardinality({})
      BY <3>1 DEF Permits
    <3>3. QED BY <3>2, FS_EmptySet, ChannelAssumption
  <2>2. QED BY <2>1 DEF LimitInv, WithinLimit, Counted, Init
<1>2. IInv /\ LimitInv /\ [Next]_vars => LimitInv'
  BY LimitStep
<1>3. LimitInv => WithinLimit
  BY DEF LimitInv
<1>4. QED BY <1>1, <1>2, <1>3, Invariance, PTL DEF Spec

-----------------------------------------------------------------------------
(* A message is stored once                                                *)

\* The calls that have passed channel_dedup_try_mark and have not stored yet.
Storing(m) == {c \in Calls : c[1] = m /\ call[c].at = "chat"}
Passed(m) == (IF m \in marked THEN 1 ELSE 0) + spent["dedup"]

\* Every row and every call that will insert one has its mark, or its failed
\* insert of a mark.
StoredInv == \A m \in Msgs : stored[m] + Cardinality(Storing(m)) <= Passed(m)

LEMMA StoredStep ==
    ASSUME IInv, StoredInv, [Next]_vars
    PROVE  StoredInv'
<1>0. /\ TypeOK /\ TypeOK'
      /\ stored \in [Msgs -> Nat] /\ stored' \in [Msgs -> Nat]
      /\ spent["dedup"] \in Nat /\ spent'["dedup"] \in Nat
      /\ \A m \in Msgs : stored[m] \in Nat /\ stored'[m] \in Nat
  <2>1. TypeOK /\ TypeOK'
    BY StepInv DEF IInv
  <2>2. QED BY <2>1 DEF TypeOK, Events
<1>1. \A m \in Msgs : IsFiniteSet(Storing(m)) /\ Cardinality(Storing(m)) \in Nat
  BY <1>0, Counts DEF Storing
<1>2. \A m \in Msgs : IsFiniteSet(Storing(m)') /\ Cardinality(Storing(m)') \in Nat
  <2>1. \A m \in Msgs : Storing(m)' \in SUBSET Calls
    BY DEF Storing
  <2>2. QED BY <1>0, <2>1, Counts
<1>3. \A e \in Events : Spend(e) => spent'["dedup"] >= spent["dedup"]
  BY <1>0 DEF Spend, TypeOK, Events
<1>4. CASE /\ stored' = stored /\ marked' = marked /\ spent'["dedup"] >= spent["dedup"]
           /\ \A m \in Msgs : Storing(m)' \subseteq Storing(m)
  <2>1. ASSUME NEW m \in Msgs PROVE stored'[m] + Cardinality(Storing(m)') <= Passed(m)'
    <3>1. Cardinality(Storing(m)') <= Cardinality(Storing(m))
      BY <1>1, <1>4, FS_Subset
    <3>2. stored[m] + Cardinality(Storing(m)) <= Passed(m) /\ Passed(m) \in Nat
      BY <1>0 DEF StoredInv, Passed
    <3>3. Passed(m)' \in Nat /\ Passed(m)' >= Passed(m)
      BY <1>0, <1>4 DEF Passed
    <3>4. QED BY <1>0, <1>1, <1>2, <1>4, <3>1, <3>2, <3>3
  <2>2. QED BY <2>1 DEF StoredInv
<1>5. ASSUME NEW c \in Calls, InboundMark(c) PROVE StoredInv'
  <2> DEFINE k == c[1]
  <2>0. k \in Msgs /\ call \in [Calls -> [at : Places, pod : Pods \cup {None}, run : Nat]]
        /\ stored' = stored
    BY <1>0, <1>5 DEF Calls, TypeOK, InboundMark
  <2>1. \A m \in Msgs \ {k} : Storing(m)' = Storing(m) /\ Passed(m)' >= Passed(m)
                              /\ Passed(m) \in Nat /\ Passed(m)' \in Nat
    <3>1. \A d \in Calls \ {c} : call'[d] = call[d]
      BY <1>5, <2>0 DEF InboundMark, CallGoto
    <3>2. \A m \in Msgs \ {k} : m \in marked' <=> m \in marked
      BY <1>5 DEF InboundMark
    <3>3. spent'["dedup"] >= spent["dedup"]
      BY <1>0, <1>3, <1>5 DEF InboundMark, Events
    <3>4. QED BY <1>0, <3>1, <3>2, <3>3 DEF Storing, Passed
  <2>2. Storing(k)' \subseteq Storing(k) \cup {c} /\ c \notin Storing(k)
    BY <1>5, <2>0 DEF InboundMark, CallAt, CallGoto, Storing
  <2>3. Cardinality(Storing(k) \cup {c}) = Cardinality(Storing(k)) + 1 /\ IsFiniteSet(Storing(k) \cup {c})
    BY <1>1, <2>0, <2>2, FS_AddElement
  <2>4. Cardinality(Storing(k)') <= Cardinality(Storing(k)) + 1
    BY <2>2, <2>3, FS_Subset
  <2>5. CASE k \in marked /\ marked' = marked /\ spent' = spent /\ CallGoto(c, "ok")
    <3>1. Storing(k)' \subseteq Storing(k)
      BY <2>0, <2>5 DEF CallGoto, Storing
    <3>2. \A m \in Msgs : Storing(m)' \subseteq Storing(m)
      BY <2>1, <3>1
    <3>3. QED BY <1>0, <1>4, <2>0, <2>5, <3>2
  <2>6. CASE Passed(k)' = Passed(k) + 1
    <3>1. ASSUME NEW m \in Msgs PROVE stored'[m] + Cardinality(Storing(m)') <= Passed(m)'
      <4>1. stored[m] + Cardinality(Storing(m)) <= Passed(m) /\ Passed(m) \in Nat
        BY <1>0 DEF StoredInv, Passed
      <4>2. CASE m = k
        BY <1>0, <1>1, <1>2, <2>0, <2>4, <2>6, <4>1, <4>2
      <4>3. CASE m # k
        BY <1>0, <1>1, <2>0, <2>1, <4>1, <4>3
      <4>4. QED BY <4>2, <4>3
    <3>2. QED BY <3>1 DEF StoredInv
  <2>7. CASE k \notin marked /\ marked' = marked \cup {k} /\ spent' = spent
    BY <1>0, <2>6, <2>7 DEF Passed
  <2>8. CASE Spend("dedup") /\ marked' = marked
    <3>1. spent'["dedup"] = spent["dedup"] + 1
      BY <1>0, <2>8 DEF Spend, TypeOK, Events
    <3>2. QED BY <1>0, <2>6, <2>8, <3>1 DEF Passed
  <2>9. QED
    BY <1>5, <2>5, <2>7, <2>8 DEF InboundMark
<1>6. ASSUME NEW c \in Calls, InboundStore(c) PROVE StoredInv'
  <2> DEFINE k == c[1]
  <2>0. k \in Msgs /\ call \in [Calls -> [at : Places, pod : Pods \cup {None}, run : Nat]]
        /\ marked' = marked /\ c \in Storing(k)
    BY <1>0, <1>6 DEF Calls, TypeOK, InboundStore, Storing, CallAt
  <2>1. \E a \in {"route", "error"} : call' = [call EXCEPT ![c].at = a]
    BY <1>6 DEF InboundStore, CallGoto
  <2>2. \A m \in Msgs : Storing(m)' = Storing(m) \ {c}
    BY <2>0, <2>1 DEF Storing
  <2>3. CASE Spend("error") /\ stored' = stored
    BY <1>3, <1>4, <2>0, <2>2, <2>3 DEF Events
  <2>4. CASE stored' = [stored EXCEPT ![k] = @ + 1] /\ spent' = spent
    <3>1. ASSUME NEW m \in Msgs PROVE stored'[m] + Cardinality(Storing(m)') <= Passed(m)'
      <4>1. stored[m] + Cardinality(Storing(m)) <= Passed(m) /\ Passed(m) \in Nat /\ Passed(m)' = Passed(m)
        BY <1>0, <2>0, <2>4 DEF StoredInv, Passed
      <4>2. CASE m = k
        <5>1. Cardinality(Storing(m)') = Cardinality(Storing(m)) - 1
          BY <1>1, <2>0, <2>2, <4>2, FS_RemoveElement
        <5>2. QED BY <1>0, <1>1, <2>4, <4>1, <4>2, <5>1
      <4>3. CASE m # k
        <5>1. Storing(m)' \subseteq Storing(m) /\ stored'[m] = stored[m]
          BY <1>0, <2>2, <2>4, <4>3
        <5>2. Cardinality(Storing(m)') <= Cardinality(Storing(m))
          BY <1>1, <5>1, FS_Subset
        <5>3. QED BY <1>0, <1>1, <1>2, <4>1, <5>1, <5>2
      <4>4. QED BY <4>2, <4>3
    <3>2. QED BY <3>1 DEF StoredInv
  <2>5. QED BY <1>6, <2>3, <2>4 DEF InboundStore
<1>7. ASSUME NEW c \in Calls, InboundRoute(c) \/ InboundFollow(c) \/ InboundSchedule(c)
      PROVE  StoredInv'
  <2>0. call \in [Calls -> [at : Places, pod : Pods \cup {None}, run : Nat]]
    BY <1>0 DEF TypeOK
  <2>1. stored' = stored /\ marked' = marked /\ spent'["dedup"] >= spent["dedup"]
    BY <1>0, <1>3, <1>7 DEF InboundRoute, InboundFollow, InboundSchedule, Events
  <2>2. \A m \in Msgs : Storing(m)' \subseteq Storing(m)
    <3>1. /\ \A d \in Calls \ {c} : call'[d] = call[d]
          /\ call'[c].at # "chat"
      BY <1>7, <2>0 DEF InboundRoute, InboundFollow, InboundSchedule, CallGoto
    <3>2. QED BY <3>1 DEF Storing
  <2>3. QED BY <1>4, <2>1, <2>2
<1>8. ASSUME NEW c \in Calls, NEW p \in Pods, Deliver(c, p) PROVE StoredInv'
  <2>1. \A m \in Msgs : Storing(m)' \subseteq Storing(m)
    BY <1>0, <1>8 DEF Deliver, Storing, TypeOK
  <2>2. QED BY <1>0, <1>4, <1>8, <2>1 DEF Deliver
<1>9. ASSUME NEW t \in DOMAIN task, TurnStep(t) PROVE StoredInv'
  <2>1. UNCHANGED <<stored, marked, call>>
    BY <1>9 DEF TurnStep, Wake, TurnStart, TurnLimit, StoreLimit, TurnCount, TurnAcquire,
     TurnBusy, TurnInsert, TurnRead, TurnDrain,
       TurnAnswer, TurnReply, TurnSave, TurnFinish, TurnNext, TurnFollow, TurnAgain, inboundVars
  <2>2. spent'["dedup"] >= spent["dedup"]
    <3>1. spent' = spent \/ \E e \in Events : Spend(e)
      BY <1>9 DEF TurnStep, Wake, TurnStart, TurnLimit, StoreLimit, TurnCount, TurnAcquire,
     TurnBusy, TurnInsert, TurnRead, TurnDrain,
         TurnAnswer, TurnReply, TurnSave, TurnFinish, TurnNext, TurnFollow, TurnAgain, TurnFail, Events
    <3>2. QED BY <1>0, <1>3, <3>1
  <2>3. QED BY <1>4, <2>1, <2>2 DEF Storing
<1>10. ASSUME NEW p \in Pods, Crash(p) PROVE StoredInv'
  <2>1. \A c \in Calls : call'[c] = call[c] \/ call'[c].at = "lost"
    BY <1>0, <1>10 DEF Crash, TypeOK
  <2>2. \A m \in Msgs : Storing(m)' \subseteq Storing(m)
    BY <2>1 DEF Storing
  <2>3. QED BY <1>3, <1>4, <1>10, <2>2 DEF Crash, Events
<1>11. CASE \/ \E p \in Pods : OtherTurn(p)
            \/ \E t \in DOMAIN task : TurnLate(t)
            \/ Stop \/ UNCHANGED vars
  <2>1. UNCHANGED <<stored, marked, call>> /\ spent'["dedup"] >= spent["dedup"]
    BY <1>0, <1>3, <1>11 DEF OtherTurn, StoreLimit, TurnLate, Stop, inboundVars, vars, Events
  <2>2. QED BY <1>4, <2>1 DEF Storing
<1>12. QED BY <1>5, <1>6, <1>7, <1>8, <1>9, <1>10, <1>11 DEF Next, InboundStep

\* A message is in the chat once, for any number of deliveries to any pods,
\* unless the table of the marks could not be reached.
THEOREM StoredCorrect == Spec => []StoredOnce
<1>1. Init => StoredInv
  <2>1. ASSUME Init, NEW m \in Msgs PROVE stored[m] + Cardinality(Storing(m)) <= Passed(m)
    <3>1. Storing(m) = {} /\ stored[m] = 0 /\ Passed(m) = 0
      BY <2>1 DEF Init, Storing, Passed, Events
    <3>2. QED BY <3>1, FS_EmptySet
  <2>2. QED BY <2>1 DEF StoredInv
<1>2. IInv /\ StoredInv /\ [Next]_vars => StoredInv'
  BY StoredStep
<1>3. ASSUME IInv, StoredInv PROVE StoredOnce
  <2>1. ASSUME NEW m \in Msgs PROVE stored[m] <= 1 + spent["dedup"]
    <3>1. stored[m] \in Nat /\ spent["dedup"] \in Nat /\ Cardinality(Storing(m)) \in Nat
      BY <1>3, Counts DEF IInv, TypeOK, Events, Storing
    <3>2. stored[m] + Cardinality(Storing(m)) <= Passed(m) /\ Passed(m) <= 1 + spent["dedup"]
          /\ Passed(m) \in Nat
      BY <1>3, <3>1 DEF StoredInv, Passed
    <3>3. QED BY <3>1, <3>2
  <2>2. QED BY <2>1 DEF StoredOnce
<1>4. QED BY <1>1, <1>2, <1>3, Invariance, PTL DEF Spec
=============================================================================
