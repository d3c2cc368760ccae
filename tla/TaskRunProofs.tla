--------------------------- MODULE TaskRunProofs ---------------------------
(***************************************************************************)
(* What TaskRun guarantees for any runs, chunks, pods and budgets.         *)
(* TypeCorrect types the state; DoneCorrect proves that an orchestrator    *)
(* recorded as done has only done chunks, as long as its chunks are the    *)
(* server's alone, ParallelCorrect that until the first cancel request no  *)
(* more of them are active than there are permits, and HoldCorrect that a  *)
(* worker past the billing leaves no reservation held.                     *)
(***************************************************************************)
EXTENDS TaskRun, FiniteSetTheorems, TLAPS

\* Every step keeps the types.
LEMMA TypeStep == ASSUME TypeOK, [Next]_vars PROVE TypeOK'
<1> USE ReqAssumption DEF TypeOK, PC, Starting, Working, CancelPC, ActiveStatus, Terminal
<1>0. {"crash", "fail", "cancel", "report", "lost"} \subseteq Events
  BY DEF Events
<1>1. ASSUME NEW r \in Runs, Start(r) PROVE TypeOK'
  BY <1>1, <1>0 DEF Start, Go, At, rowVars, memVars, cancelVars, agentVars,
    fanVars
<1>2. ASSUME NEW r \in Runs, StartHold(r) PROVE TypeOK'
  BY <1>2, <1>0 DEF StartHold, Go, At, memVars, cancelVars, agentVars, fanVars
<1>3. ASSUME NEW r \in Runs, StartRefused(r) PROVE TypeOK'
  BY <1>3, <1>0 DEF StartRefused, Go, At, rowVars, memVars, cancelVars,
    agentVars, fanVars
<1>4. ASSUME NEW r \in Runs, StartInsert(r) PROVE TypeOK'
  BY <1>4, <1>0 DEF StartInsert, Go, At, Put, memVars, cancelVars, agentVars,
    fanVars
<1>5. ASSUME NEW r \in Runs, StartFail(r) PROVE TypeOK'
  BY <1>5, <1>0 DEF StartFail, Go, At, rowVars, memVars, cancelVars,
    agentVars, fanVars
<1>6. ASSUME NEW r \in Runs, StartNotify(r) PROVE TypeOK'
  BY <1>6, <1>0 DEF StartNotify, Go, At, rowVars, memVars, cancelVars, fanVars
<1>7. ASSUME NEW r \in Runs, StartSpawn(r) PROVE TypeOK'
  BY <1>7, <1>0 DEF StartSpawn, Go, At, Put, Write, Lost, Spend, cancelVars, agentVars, fanVars
<1>8. ASSUME NEW r \in Runs, SetRunning(r) PROVE TypeOK'
  BY <1>8, <1>0 DEF SetRunning, Go, At, Put, Write, Lost, Spend, memVars, cancelVars, agentVars,
    fanVars
<1>9. ASSUME NEW r \in Runs, Work(r) PROVE TypeOK'
  BY <1>9, <1>0 DEF Work, Go, At, rowVars, memVars, cancelVars, agentVars,
    fanVars
<1>10. ASSUME NEW r \in Runs, FanStop(r) PROVE TypeOK'
  BY <1>10, <1>0 DEF FanStop, Go, At, FanReturn, Unstarted, Chunks, rowVars,
    memVars, cancelVars, agentVars
<1>11. ASSUME NEW r \in Runs, FanCheck(r) PROVE TypeOK'
  BY <1>11, <1>0 DEF FanCheck, Go, At, Unstarted, Chunks, rowVars, memVars,
    cancelVars, agentVars, fanVars
<1>12. ASSUME NEW r \in Runs, FanAcquire(r) PROVE TypeOK'
  BY <1>12, <1>0 DEF FanAcquire, At, Unstarted, Chunks, rowVars, memVars,
    cancelVars, agentVars
<1>13. ASSUME NEW r \in Runs, FanSpawn(r) PROVE TypeOK'
  BY <1>13, <1>0 DEF FanSpawn, Go, At, Chunks, rowVars, memVars, cancelVars,
    agentVars, fanVars
<1>14. ASSUME NEW r \in Runs, FanError(r) PROVE TypeOK'
  BY <1>14, <1>0 DEF FanError, Go, At, FanReturn, Chunks, rowVars, memVars,
    cancelVars, agentVars
<1>15. ASSUME NEW r \in Runs, FanJoin(r) PROVE TypeOK'
  BY <1>15, <1>0 DEF FanJoin, Go, At, FanReturn, Chunks, rowVars, memVars,
    cancelVars, agentVars
<1>16. ASSUME NEW r \in Runs, SettleNothing(r) PROVE TypeOK'
  BY <1>16, <1>0 DEF SettleNothing, Go, At, Close, memVars, cancelVars,
    agentVars, fanVars
<1>17. ASSUME NEW r \in Runs, Deduct(r) PROVE TypeOK'
  BY <1>17, <1>0 DEF Deduct, Go, At, memVars, cancelVars, agentVars, fanVars
<1>18. ASSUME NEW r \in Runs, SettleHold(r) PROVE TypeOK'
  BY <1>18, <1>0 DEF SettleHold, Go, At, Close, memVars, cancelVars,
    agentVars, fanVars
<1>19. ASSUME NEW r \in Runs, Finish(r) PROVE TypeOK'
  BY <1>19, <1>0 DEF Finish, Go, At, Put, Write, Lost, Spend, memVars, cancelVars, agentVars,
    fanVars
<1>20. ASSUME NEW r \in Runs, CancelClear(r) PROVE TypeOK'
  BY <1>20, <1>0 DEF CancelClear, Go, At, rowVars, cancelVars, agentVars,
    fanVars
<1>21. ASSUME NEW r \in Runs, WaitDone(r) PROVE TypeOK'
  BY <1>21, <1>0 DEF WaitDone, rowVars, memVars, cancelVars, agentVars
<1>22. ASSUME NEW r \in Runs, FanWall(r) PROVE TypeOK'
  BY <1>22, <1>0 DEF FanWall, Go, At, Spend, Unstarted, Chunks, rowVars,
    memVars, cancelVars, agentVars
<1>23. ASSUME NEW r \in Runs, DeductFail(r) PROVE TypeOK'
  BY <1>23, <1>0 DEF DeductFail, Go, Spend, rowVars, memVars, cancelVars,
    agentVars, fanVars
<1>24. ASSUME NEW r \in Runs, AgentDone(r) PROVE TypeOK'
  BY <1>24, <1>0 DEF AgentDone, Put, Spend, memVars, cancelVars, fanVars
<1>25. ASSUME NEW r \in Runs, AgentRefund(r) PROVE TypeOK'
  BY <1>25, <1>0 DEF AgentRefund, Close, memVars, cancelVars, fanVars
<1>26. ASSUME NEW r \in Runs, CancelList(r) PROVE TypeOK'
  BY <1>26, <1>0 DEF CancelList, Chunks, rowVars, memVars, agentVars, fanVars
<1>27. ASSUME NEW r \in Runs, CancelKid(r) PROVE TypeOK'
  BY <1>27, <1>0 DEF CancelKid, Mark, Write, Lost, Put, Spend, Signalled, agentVars, fanVars
<1>28. ASSUME NEW r \in Runs, CancelMark(r) PROVE TypeOK'
  BY <1>28, <1>0 DEF CancelMark, Mark, Write, Lost, Put, Spend, memVars, agentVars, fanVars
<1>29. ASSUME NEW r \in Runs, NEW p \in Pods, CancelSignal(r, p) PROVE TypeOK'
  BY <1>29, <1>0 DEF CancelSignal, Spend, Signalled, rowVars, agentVars,
    fanVars
<1>30. ASSUME TurnEnd PROVE TypeOK'
  BY <1>30, <1>0 DEF TurnEnd, Close, memVars, cancelVars, agentVars, fanVars
<1>31. ASSUME NEW p \in Pods, Crash(p) PROVE TypeOK'
  BY <1>31, <1>0 DEF Crash, Spend, rowVars, agentVars
<1>32. CASE UNCHANGED vars
  BY <1>32, <1>0 DEF vars, rowVars, memVars, cancelVars, agentVars, fanVars
<1>33. ASSUME NEW r \in Runs, WaitTimeout(r) PROVE TypeOK'
  BY <1>33, <1>0 DEF WaitTimeout, rowVars, memVars, cancelVars, agentVars
<1> QED
  BY <1>1, <1>2, <1>3, <1>4, <1>5, <1>6, <1>7, <1>8, <1>9, <1>10, <1>11,
    <1>12, <1>13, <1>14, <1>15, <1>16, <1>17, <1>18, <1>19, <1>20, <1>21,
    <1>22, <1>23, <1>24, <1>25, <1>26, <1>27, <1>28, <1>29, <1>30, <1>31,
    <1>32, <1>33 DEF Next, Advance

\* Every state of every behaviour is typed.
THEOREM TypeCorrect == Spec => []TypeOK
<1>1. Init => TypeOK
  BY BudgetAssumption DEF Init, TypeOK, PC, CancelPC, ActiveStatus, Terminal
<1> QED
  BY <1>1, TypeStep, PTL DEF Spec

\* The chunks of an orchestrator are shell chunks, which only the server
\* executes.  A browser chunk is also sent to the device, whose report can
\* end it a second time.
ShellChunks == \A r \in Runs : Parent[r] # NoRun => ~Notifies(r)

\* Program points after the recipe has returned.
Ended == {"metrics", "settle", "finish", "clear", "gone", "dead"}

\* Why a done orchestrator has done chunks: a chunk lives on the pod of its
\* orchestrator; the device ends only runs it was sent; the worker of a run
\* writes done as its last write and only from the outcome done; a chunk is
\* started by the loop alone, and is then waited for, counted as bad, or done;
\* the loop is left only when every chunk was started.
SamePod == \A c \in Runs : Parent[c] # NoRun => home[c] = home[Parent[c]]
SentRuns == \A r \in agent : Notifies(r)
DoneIsLast == \A r \in Runs : ~Notifies(r) =>
    /\ status[r] = "done" => pc[r] \in {"clear", "gone", "dead"} /\ out[r] = "done"
    /\ out[r] = "done" => pc[r] \in Ended
Accounted == \A c \in Runs : Parent[c] # NoRun =>
    /\ pc[Parent[c]] \in {"none", "spawned"} \cup Starting => pc[c] = "none"
    /\ pc[Parent[c]] \in {"fan", "permit", "child", "join"} /\ pc[c] # "none"
          => c \in wait \/ c \in bad \/ status[c] = "done"
    /\ pc[Parent[c]] = "join" => pc[c] # "none"
    /\ Kind[Parent[c]] = "fanout" /\ out[Parent[c]] = "done" => status[c] = "done"
FanPoints == \A r \in Runs : pc[r] \in {"fan", "permit", "child", "join"} => Kind[r] = "fanout"
WorkPoint == \A r \in Runs : pc[r] = "work" => Kind[r] # "fanout"
DoneInv == SamePod /\ SentRuns /\ DoneIsLast /\ Accounted /\ FanPoints /\ WorkPoint

\* Every step keeps the chunks of a done orchestrator done.
LEMMA DoneStep ==
    ASSUME TypeOK, TypeOK', ShellChunks, DoneInv, [Next]_vars
    PROVE  DoneInv'
<1> USE ParentAssumption, RunsAssumption, KindAssumption
    DEF DoneInv, SamePod, SentRuns, DoneIsLast, Accounted, FanPoints, WorkPoint, ShellChunks, Notifies, RunKinds
<1>1. ASSUME NEW r \in Runs, Start(r) PROVE DoneInv'
  BY <1>1 DEF Start, Go, At, rowVars, memVars, cancelVars, agentVars, fanVars,
    TypeOK, Ended, ActiveStatus, Terminal, Starting, Working, HasWorker
<1>2. ASSUME NEW r \in Runs, StartHold(r) PROVE DoneInv'
  BY <1>2 DEF StartHold, Go, At, memVars, cancelVars, agentVars, fanVars,
    TypeOK, Ended, ActiveStatus, Terminal, Starting, Working, HasWorker
<1>3. ASSUME NEW r \in Runs, StartRefused(r) PROVE DoneInv'
  BY <1>3 DEF StartRefused, Go, At, rowVars, memVars, cancelVars, agentVars,
    fanVars, TypeOK, Ended, ActiveStatus, Terminal, Starting, Working,
    HasWorker
<1>4. ASSUME NEW r \in Runs, StartInsert(r) PROVE DoneInv'
  BY <1>4 DEF StartInsert, Go, At, Put, memVars, cancelVars, agentVars,
    fanVars, TypeOK, Ended, ActiveStatus, Terminal, Starting, Working,
    HasWorker
<1>5. ASSUME NEW r \in Runs, StartFail(r) PROVE DoneInv'
  BY <1>5 DEF StartFail, Go, At, rowVars, memVars, cancelVars, agentVars,
    fanVars, TypeOK, Ended, ActiveStatus, Terminal, Starting, Working,
    HasWorker
<1>6. ASSUME NEW r \in Runs, StartNotify(r) PROVE DoneInv'
  BY <1>6 DEF StartNotify, Go, At, rowVars, memVars, cancelVars, fanVars,
    TypeOK, Ended, ActiveStatus, Terminal, Starting, Working, HasWorker
<1>7. ASSUME NEW r \in Runs, StartSpawn(r) PROVE DoneInv'
  BY <1>7 DEF StartSpawn, Go, At, Put, Write, Lost, Spend, cancelVars, agentVars, fanVars, TypeOK,
    Ended, ActiveStatus, Terminal, Starting, Working, HasWorker
<1>8. ASSUME NEW r \in Runs, SetRunning(r) PROVE DoneInv'
  BY <1>8 DEF SetRunning, Go, At, Put, Write, Lost, Spend, memVars, cancelVars, agentVars,
    fanVars, TypeOK, Ended, ActiveStatus, Terminal, Starting, Working,
    HasWorker
<1>9. ASSUME NEW r \in Runs, Work(r) PROVE DoneInv'
  BY <1>9 DEF Work, Go, At, rowVars, memVars, cancelVars, agentVars, fanVars,
    TypeOK, Ended, ActiveStatus, Terminal, Starting, Working, HasWorker
<1>10. ASSUME NEW r \in Runs, FanStop(r) PROVE DoneInv'
  BY <1>10 DEF FanStop, Go, At, FanReturn, Unstarted, Chunks, rowVars,
    memVars, cancelVars, agentVars, TypeOK, Ended, ActiveStatus, Terminal,
    Starting, Working, HasWorker
<1>11. ASSUME NEW r \in Runs, FanCheck(r) PROVE DoneInv'
  BY <1>11 DEF FanCheck, Go, At, Unstarted, Chunks, rowVars, memVars,
    cancelVars, agentVars, fanVars, TypeOK, Ended, ActiveStatus, Terminal,
    Starting, Working, HasWorker
<1>12. ASSUME NEW r \in Runs, FanAcquire(r) PROVE DoneInv'
  BY <1>12 DEF FanAcquire, At, Unstarted, Chunks, rowVars, memVars,
    cancelVars, agentVars, TypeOK, Ended, ActiveStatus, Terminal, Starting,
    Working, HasWorker
<1>13. ASSUME NEW r \in Runs, FanSpawn(r) PROVE DoneInv'
  BY <1>13 DEF FanSpawn, Go, At, Chunks, rowVars, memVars, cancelVars,
    agentVars, fanVars, TypeOK, Ended, ActiveStatus, Terminal, Starting,
    Working, HasWorker
<1>14. ASSUME NEW r \in Runs, FanError(r) PROVE DoneInv'
  BY <1>14 DEF FanError, Go, At, FanReturn, Chunks, rowVars, memVars,
    cancelVars, agentVars, TypeOK, Ended, ActiveStatus, Terminal, Starting,
    Working, HasWorker
<1>15. ASSUME NEW r \in Runs, FanJoin(r) PROVE DoneInv'
  BY <1>15 DEF FanJoin, Go, At, FanReturn, Chunks, rowVars, memVars,
    cancelVars, agentVars, TypeOK, Ended, ActiveStatus, Terminal, Starting,
    Working, HasWorker
<1>16. ASSUME NEW r \in Runs, SettleNothing(r) PROVE DoneInv'
  BY <1>16 DEF SettleNothing, Go, At, Close, memVars, cancelVars, agentVars,
    fanVars, TypeOK, Ended, ActiveStatus, Terminal, Starting, Working,
    HasWorker
<1>17. ASSUME NEW r \in Runs, Deduct(r) PROVE DoneInv'
  BY <1>17 DEF Deduct, Go, At, memVars, cancelVars, agentVars, fanVars,
    TypeOK, Ended, ActiveStatus, Terminal, Starting, Working, HasWorker
<1>18. ASSUME NEW r \in Runs, SettleHold(r) PROVE DoneInv'
  BY <1>18 DEF SettleHold, Go, At, Close, memVars, cancelVars, agentVars,
    fanVars, TypeOK, Ended, ActiveStatus, Terminal, Starting, Working,
    HasWorker
<1>19. ASSUME NEW r \in Runs, Finish(r) PROVE DoneInv'
  BY <1>19 DEF Finish, Go, At, Put, Write, Lost, Spend, memVars, cancelVars, agentVars, fanVars,
    TypeOK, Ended, ActiveStatus, Terminal, Starting, Working, HasWorker
<1>20. ASSUME NEW r \in Runs, CancelClear(r) PROVE DoneInv'
  BY <1>20 DEF CancelClear, Go, At, rowVars, cancelVars, agentVars, fanVars,
    TypeOK, Ended, ActiveStatus, Terminal, Starting, Working, HasWorker
<1>21. ASSUME NEW r \in Runs, WaitDone(r) PROVE DoneInv'
  BY <1>21 DEF WaitDone, rowVars, memVars, cancelVars, agentVars, TypeOK,
    Ended, ActiveStatus, Terminal, Starting, Working, HasWorker
<1>22. ASSUME NEW r \in Runs, FanWall(r) PROVE DoneInv'
  BY <1>22 DEF FanWall, Go, At, Spend, Unstarted, Chunks, rowVars, memVars,
    cancelVars, agentVars, TypeOK, Ended, ActiveStatus, Terminal, Starting,
    Working, HasWorker
<1>23. ASSUME NEW r \in Runs, DeductFail(r) PROVE DoneInv'
  BY <1>23 DEF DeductFail, Go, Spend, rowVars, memVars, cancelVars, agentVars,
    fanVars, TypeOK, Ended, ActiveStatus, Terminal, Starting, Working,
    HasWorker
<1>24. ASSUME NEW r \in Runs, AgentDone(r) PROVE DoneInv'
  BY <1>24 DEF AgentDone, Put, Spend, memVars, cancelVars, fanVars, TypeOK,
    Ended, ActiveStatus, Terminal, Starting, Working, HasWorker
<1>25. ASSUME NEW r \in Runs, AgentRefund(r) PROVE DoneInv'
  BY <1>25 DEF AgentRefund, Close, memVars, cancelVars, fanVars, TypeOK,
    Ended, ActiveStatus, Terminal, Starting, Working, HasWorker
<1>26. ASSUME NEW r \in Runs, CancelList(r) PROVE DoneInv'
  BY <1>26 DEF CancelList, Chunks, rowVars, memVars, agentVars, fanVars,
    TypeOK, Ended, ActiveStatus, Terminal, Starting, Working, HasWorker
<1>27. ASSUME NEW r \in Runs, CancelKid(r) PROVE DoneInv'
  BY <1>27 DEF CancelKid, Mark, Write, Lost, Put, Spend, Signalled, agentVars, fanVars, TypeOK,
    Ended, ActiveStatus, Terminal, Starting, Working, HasWorker
<1>28. ASSUME NEW r \in Runs, CancelMark(r) PROVE DoneInv'
  BY <1>28 DEF CancelMark, Mark, Write, Lost, Put, Spend, memVars, agentVars, fanVars, TypeOK, Ended,
    ActiveStatus, Terminal, Starting, Working, HasWorker
<1>29. ASSUME NEW r \in Runs, NEW p \in Pods, CancelSignal(r, p) PROVE DoneInv'
  BY <1>29 DEF CancelSignal, Spend, Signalled, rowVars, agentVars, fanVars,
    TypeOK, Ended, ActiveStatus, Terminal, Starting, Working, HasWorker
<1>30. ASSUME TurnEnd PROVE DoneInv'
  BY <1>30 DEF TurnEnd, Close, memVars, cancelVars, agentVars, fanVars,
    TypeOK, Ended, ActiveStatus, Terminal, Starting, Working, HasWorker
<1>31. ASSUME NEW p \in Pods, Crash(p) PROVE DoneInv'
  BY <1>31 DEF Crash, Spend, rowVars, agentVars, TypeOK, Ended, ActiveStatus,
    Terminal, Starting, Working, HasWorker
<1>32. CASE UNCHANGED vars
  BY <1>32 DEF vars, rowVars, memVars, cancelVars, agentVars, fanVars, TypeOK,
    Ended, ActiveStatus, Terminal, Starting, Working, HasWorker
<1>33. ASSUME NEW r \in Runs, WaitTimeout(r) PROVE DoneInv'
  BY <1>33 DEF WaitTimeout, rowVars, memVars, cancelVars, agentVars, TypeOK,
    Ended, ActiveStatus, Terminal, Starting, Working, HasWorker
<1> QED
  BY <1>1, <1>2, <1>3, <1>4, <1>5, <1>6, <1>7, <1>8, <1>9, <1>10, <1>11,
    <1>12, <1>13, <1>14, <1>15, <1>16, <1>17, <1>18, <1>19, <1>20, <1>21,
    <1>22, <1>23, <1>24, <1>25, <1>26, <1>27, <1>28, <1>29, <1>30, <1>31,
    <1>32, <1>33 DEF Next, Advance

\* DoneInv holds in every state, for shell chunks.
LEMMA DoneInvCorrect == ShellChunks /\ Spec => []DoneInv
<1> SUFFICES ASSUME ShellChunks PROVE Spec => []DoneInv
  OBVIOUS
<1>1. Init => DoneInv
  BY ParentAssumption, RunsAssumption
  DEF Init, DoneInv, SamePod, SentRuns, DoneIsLast, Accounted, FanPoints, WorkPoint
<1> QED
  BY <1>1, TypeCorrect, DoneStep, PTL DEF Spec

\* An orchestrator of shell chunks that is recorded as done has only done
\* chunks, however its chunks fail, are cancelled or die.
THEOREM DoneCorrect == ShellChunks /\ Spec => []DoneMeansAllDone
<1>1. DoneInv => DoneMeansAllDone
  BY RunsAssumption, ParentAssumption
  DEF DoneInv, DoneIsLast, Accounted, DoneMeansAllDone, Chunks, Notifies
<1> QED
  BY <1>1, DoneInvCorrect, PTL

-----------------------------------------------------------------------------
(* The permits of an orchestrator bound its chunks until the first cancel. *)

\* Nobody has asked to cancel a run.
Uncancelled == left["cancel"] = Budget["cancel"]

\* A chunk that is being started or is active with a worker: it needs a permit.
Busy(c) ==
    pc[c] \in Starting \/ (status[c] \in ActiveStatus /\ pc[c] \notin {"gone", "dead"})

\* The program points of an orchestrator's loop.
Loop == {"fan", "permit", "child", "join"}

\* The row of a chunk follows its worker: nobody else writes it.
RowFollows == \A c \in Runs : Parent[c] # NoRun =>
    /\ pc[c] # "agent"
    /\ pc[c] \in {"none", "begin", "insert", "error"} => status[c] = "none"
    /\ pc[c] \in {"notify", "spawn", "spawned"} => status[c] \in ActiveStatus
    /\ pc[c] \in {"metrics", "settle", "finish"} => out[c] # "none"
    /\ status[c] \in Terminal => pc[c] \in {"clear", "gone", "dead"}

\* While the orchestrator is in its loop, a busy chunk holds a permit.
BusyHolds == \A c \in Runs :
    Parent[c] # NoRun /\ Busy(c) /\ pc[Parent[c]] \in Loop => c \in wait

\* Nobody is cancelling a run.
NoRequest == \A r \in Runs : cpc[r] = "none"

\* What the bound rests on, until somebody cancels.
PermitInv == Uncancelled => RowFollows /\ BusyHolds /\ NoRequest

\* No chunk becomes busy and no permit is taken.
Shrinks ==
    /\ wait' \subseteq wait
    /\ \A c \in Runs : Parent[c] # NoRun /\ Busy(c)' => Busy(c)

\* A budget is only ever spent.
LEMMA BudgetSpent == ASSUME TypeOK, [Next]_vars PROVE left'["cancel"] <= left["cancel"]
<1>1. UNCHANGED left \/ \E e \in Events : Spend(e)
  BY DEF Next, Advance, vars, Start, StartHold, StartRefused, StartInsert, StartFail,
    StartNotify,
    StartSpawn, SetRunning, Work, FanReturn, FanStop, FanCheck, FanAcquire, FanSpawn, FanError,
    FanJoin, SettleNothing, Deduct, SettleHold, Finish, CancelClear, WaitDone, WaitTimeout, FanWall, DeductFail,
    AgentDone, AgentRefund, CancelList, CancelKid, CancelMark, CancelSignal, TurnEnd, Crash, Write, Lost, Mark,
    Events
<1> QED
  BY <1>1 DEF Spend, Events, TypeOK

\* Every step but the acquisition of a permit keeps the rows, the permits and
\* the requests in order, and neither takes a permit nor makes a chunk busy.
LEMMA PermitStep ==
    ASSUME TypeOK, TypeOK', ShellChunks, DoneInv, Uncancelled, Uncancelled',
           RowFollows, BusyHolds, NoRequest, [Next]_vars,
           \A r \in Runs : ~FanAcquire(r)
    PROVE  RowFollows' /\ BusyHolds' /\ NoRequest' /\ Shrinks
<1> DEFINE Goal == RowFollows' /\ BusyHolds' /\ NoRequest' /\ Shrinks
<1> USE ParentAssumption, RunsAssumption, KindAssumption
    DEF DoneInv, SamePod, SentRuns, Accounted, RowFollows, BusyHolds, NoRequest, Shrinks, Busy, Loop,
        ShellChunks, Notifies, HasWorker, RunKinds
<1>1. ASSUME NEW r \in Runs, Start(r) PROVE Goal
  BY <1>1 DEF Start, Go, At, rowVars, memVars, cancelVars, agentVars, fanVars, TypeOK,
    ActiveStatus, Terminal, Starting, Working
<1>2. ASSUME NEW r \in Runs, StartHold(r) PROVE Goal
  BY <1>2 DEF StartHold, Go, At, memVars, cancelVars, agentVars, fanVars, TypeOK,
    ActiveStatus, Terminal, Starting, Working
<1>3. ASSUME NEW r \in Runs, StartRefused(r) PROVE Goal
  BY <1>3 DEF StartRefused, Go, At, rowVars, memVars, cancelVars, agentVars, fanVars,
    TypeOK, ActiveStatus, Terminal, Starting, Working
<1>4. ASSUME NEW r \in Runs, StartInsert(r) PROVE Goal
  BY <1>4 DEF StartInsert, Go, At, Put, memVars, cancelVars, agentVars, fanVars, TypeOK,
    ActiveStatus, Terminal, Starting, Working
<1>5. ASSUME NEW r \in Runs, StartFail(r) PROVE Goal
  BY <1>5 DEF StartFail, Go, At, rowVars, memVars, cancelVars, agentVars, fanVars, TypeOK,
    ActiveStatus, Terminal, Starting, Working
<1>6. ASSUME NEW r \in Runs, StartNotify(r) PROVE Goal
  BY <1>6 DEF StartNotify, Go, At, rowVars, memVars, cancelVars, fanVars, TypeOK,
    ActiveStatus, Terminal, Starting, Working
<1>7. ASSUME NEW r \in Runs, StartSpawn(r) PROVE Goal
  BY <1>7 DEF StartSpawn, Go, At, Put, Write, Lost, Spend, cancelVars, agentVars, fanVars, TypeOK,
    ActiveStatus, Terminal, Starting, Working
<1>8. ASSUME NEW r \in Runs, SetRunning(r) PROVE Goal
  BY <1>8 DEF SetRunning, Go, At, Put, Write, Lost, Spend, memVars, cancelVars, agentVars, fanVars, TypeOK,
    ActiveStatus, Terminal, Starting, Working
<1>9. ASSUME NEW r \in Runs, Work(r) PROVE Goal
  BY <1>9 DEF Work, Go, At, rowVars, memVars, cancelVars, agentVars, fanVars, TypeOK,
    ActiveStatus, Terminal, Starting, Working
<1>10. ASSUME NEW r \in Runs, FanStop(r) PROVE Goal
  BY <1>10 DEF FanStop, Go, At, FanReturn, Unstarted, Chunks, rowVars, memVars,
    cancelVars, agentVars, TypeOK, ActiveStatus, Terminal, Starting, Working
<1>11. ASSUME NEW r \in Runs, FanCheck(r) PROVE Goal
  BY <1>11 DEF FanCheck, Go, At, Unstarted, rowVars, memVars, cancelVars, agentVars,
    fanVars, TypeOK, ActiveStatus, Terminal, Starting, Working
<1>12. ASSUME NEW r \in Runs, FanSpawn(r) PROVE Goal
  BY <1>12 DEF FanSpawn, Go, At, Chunks, rowVars, memVars, cancelVars, agentVars, fanVars,
    TypeOK, ActiveStatus, Terminal, Starting, Working
<1>13. ASSUME NEW r \in Runs, FanError(r) PROVE Goal
  BY <1>13 DEF FanError, Go, At, FanReturn, Chunks, rowVars, memVars, cancelVars,
    agentVars, TypeOK, ActiveStatus, Terminal, Starting, Working
<1>14. ASSUME NEW r \in Runs, FanJoin(r) PROVE Goal
  BY <1>14 DEF FanJoin, Go, At, FanReturn, Chunks, rowVars, memVars, cancelVars,
    agentVars, TypeOK, ActiveStatus, Terminal, Starting, Working
<1>15. ASSUME NEW r \in Runs, SettleNothing(r) PROVE Goal
  BY <1>15 DEF SettleNothing, Go, At, Close, memVars, cancelVars, agentVars, fanVars,
    TypeOK, ActiveStatus, Terminal, Starting, Working
<1>16. ASSUME NEW r \in Runs, Deduct(r) PROVE Goal
  BY <1>16 DEF Deduct, Go, At, memVars, cancelVars, agentVars, fanVars, TypeOK,
    ActiveStatus, Terminal, Starting, Working
<1>17. ASSUME NEW r \in Runs, SettleHold(r) PROVE Goal
  BY <1>17 DEF SettleHold, Go, At, Close, memVars, cancelVars, agentVars, fanVars, TypeOK,
    ActiveStatus, Terminal, Starting, Working
<1>18. ASSUME NEW r \in Runs, Finish(r) PROVE Goal
  BY <1>18 DEF Finish, Go, At, Put, Write, Lost, Spend, memVars, cancelVars, agentVars, fanVars, TypeOK,
    ActiveStatus, Terminal, Starting, Working
<1>19. ASSUME NEW r \in Runs, CancelClear(r) PROVE Goal
  BY <1>19 DEF CancelClear, Go, At, rowVars, cancelVars, agentVars, fanVars, TypeOK,
    ActiveStatus, Terminal, Starting, Working
<1>20. ASSUME NEW r \in Runs, WaitDone(r) PROVE Goal
  BY <1>20 DEF WaitDone, rowVars, memVars, cancelVars, agentVars, TypeOK, ActiveStatus,
    Terminal, Starting, Working
<1>21. ASSUME NEW r \in Runs, FanWall(r) PROVE Goal
  BY <1>21 DEF FanWall, Go, At, Spend, Unstarted, Chunks, rowVars, memVars, cancelVars,
    agentVars, TypeOK, ActiveStatus, Terminal, Starting, Working
<1>22. ASSUME NEW r \in Runs, DeductFail(r) PROVE Goal
  BY <1>22 DEF DeductFail, Go, Spend, rowVars, memVars, cancelVars, agentVars, fanVars,
    TypeOK, ActiveStatus, Terminal, Starting, Working
<1>23. ASSUME NEW r \in Runs, AgentDone(r) PROVE Goal
  BY <1>23 DEF AgentDone, Put, Spend, memVars, cancelVars, fanVars, TypeOK, ActiveStatus,
    Terminal, Starting, Working
<1>24. ASSUME NEW r \in Runs, AgentRefund(r) PROVE Goal
  BY <1>24 DEF AgentRefund, Close, memVars, cancelVars, fanVars, TypeOK, ActiveStatus,
    Terminal, Starting, Working
<1>25. ASSUME NEW r \in Runs, CancelList(r) PROVE Goal
  BY <1>25 DEF CancelList, Chunks, rowVars, memVars, agentVars, fanVars, TypeOK,
    ActiveStatus, Terminal, Starting, Working
<1>26. ASSUME NEW r \in Runs, CancelKid(r) PROVE Goal
  BY <1>26 DEF CancelKid, Mark, Write, Lost, Put, Spend, Signalled, agentVars, fanVars, TypeOK, ActiveStatus,
    Terminal, Starting, Working
<1>27. ASSUME NEW r \in Runs, CancelMark(r) PROVE Goal
  BY <1>27 DEF CancelMark, Mark, Write, Lost, Put, Spend, memVars, agentVars, fanVars, TypeOK, ActiveStatus,
    Terminal, Starting, Working
<1>28. ASSUME NEW r \in Runs, NEW p \in Pods, CancelSignal(r, p) PROVE Goal
  BY <1>28 DEF CancelSignal, Spend, Signalled, rowVars, agentVars, fanVars, Uncancelled,
    TypeOK, ActiveStatus, Terminal, Starting, Working
<1>29. ASSUME TurnEnd PROVE Goal
  BY <1>29 DEF TurnEnd, Close, memVars, cancelVars, agentVars, fanVars, TypeOK,
    ActiveStatus, Terminal, Starting, Working
<1>30. ASSUME NEW p \in Pods, Crash(p) PROVE Goal
  BY <1>30 DEF Crash, Spend, rowVars, agentVars, TypeOK, ActiveStatus, Terminal, Starting,
    Working
<1>31. CASE UNCHANGED vars
  BY <1>31 DEF vars, rowVars, memVars, cancelVars, agentVars, fanVars
<1>32. ASSUME NEW r \in Runs, WaitTimeout(r) PROVE Goal
  BY <1>32 DEF WaitTimeout, rowVars, memVars, cancelVars, agentVars, TypeOK, ActiveStatus,
    Terminal, Starting, Working
<1> QED
  BY <1>1, <1>2, <1>3, <1>4, <1>5, <1>6, <1>7, <1>8, <1>9, <1>10, <1>11, <1>12, <1>13,
    <1>14, <1>15, <1>16, <1>17, <1>18, <1>19, <1>20, <1>21, <1>22, <1>23, <1>24, <1>25,
    <1>26, <1>27, <1>28, <1>29, <1>30, <1>31, <1>32 DEF Next, Advance

\* A chunk whose start begins takes a permit; nothing else changes.
LEMMA AcquireStep ==
    ASSUME TypeOK, DoneInv, RowFollows, BusyHolds, NoRequest, NEW r \in Runs, FanAcquire(r)
    PROVE  /\ RowFollows' /\ BusyHolds' /\ NoRequest'
           /\ pc[r] = "permit" /\ Cardinality(wait \cap Chunks(r)) < Parallel
           /\ \E c \in Chunks(r) :
                 /\ wait' = wait \cup {c}
                 /\ \A d \in Runs : Busy(d)' => Busy(d) \/ d = c
<1> USE ParentAssumption, RunsAssumption
<1>1. PICK c \in Unstarted(r) :
        /\ pc[r] = "permit" /\ Cardinality(wait \cap Chunks(r)) < Parallel
        /\ wait' = wait \cup {c}
        /\ pc' = [pc EXCEPT ![r] = "child", ![c] = "begin"]
        /\ UNCHANGED <<rowVars, out, memVars, agentVars, cancelVars, bad, turn, left>>
  BY DEF FanAcquire, At
<1>2. c \in Chunks(r) /\ c \in Runs /\ c # r /\ Parent[c] = r /\ pc[c] = "none"
  BY <1>1 DEF Unstarted, Chunks, At
<1>3. /\ UNCHANGED <<status, out, cpc>> /\ pc'[r] = "child" /\ pc'[c] = "begin"
      /\ \A d \in Runs : d # r /\ d # c => pc'[d] = pc[d]
  BY <1>1, <1>2 DEF rowVars, cancelVars, TypeOK
<1>4. RowFollows' /\ NoRequest'
  <2>1. Parent[r] # NoRun => status[r] \notin Terminal
    BY <1>1 DEF RowFollows
  <2>2. status[c] = "none" /\ Parent[c] # NoRun
    BY <1>2 DEF RowFollows
  <2>3. RowFollows'
    BY <1>2, <1>3, <2>1, <2>2 DEF RowFollows, Terminal
  <2> QED
    BY <1>3, <2>3 DEF NoRequest
<1>5. \A d \in Runs : Busy(d)' => Busy(d) \/ d = c
  BY <1>1, <1>2, <1>3 DEF Busy, Starting
<1>6. \A d \in Runs : pc'[d] \in Loop => pc[d] \in Loop
  BY <1>1, <1>2, <1>3 DEF Loop
<1>7. BusyHolds'
  BY <1>1, <1>2, <1>5, <1>6 DEF BusyHolds
<1> QED
  BY <1>1, <1>2, <1>4, <1>5, <1>7

\* The chunks of an orchestrator that are being started or are active.
BusyChunks(r) == {c \in Chunks(r) : Busy(c)}

\* At most Parallel permits are held and at most Parallel chunks busy.
BoundInv ==
    /\ left["cancel"] <= Budget["cancel"]
    /\ PermitInv
    /\ Uncancelled => \A r \in Runs :
          /\ Cardinality(wait \cap Chunks(r)) <= Parallel
          /\ Cardinality(BusyChunks(r)) <= Parallel

\* Every step keeps the bound.
LEMMA BoundStep ==
    ASSUME TypeOK, TypeOK', ShellChunks, DoneInv, BoundInv, [Next]_vars
    PROVE  BoundInv'
<1>1. /\ left'["cancel"] <= left["cancel"] /\ left["cancel"] <= Budget["cancel"]
      /\ left'["cancel"] \in Nat /\ left["cancel"] \in Nat /\ Budget["cancel"] \in Nat
  BY BudgetSpent, BudgetAssumption DEF BoundInv, TypeOK, Events
<1> SUFFICES ASSUME Uncancelled'
             PROVE  /\ PermitInv'
                    /\ \A r \in Runs : /\ Cardinality(wait' \cap Chunks(r)) <= Parallel
                                       /\ Cardinality(BusyChunks(r)') <= Parallel
  BY <1>1 DEF BoundInv, PermitInv, Chunks
<1>2. Uncancelled /\ RowFollows /\ BusyHolds /\ NoRequest
  BY <1>1 DEF Uncancelled, BoundInv, PermitInv
<1>3. \A r \in Runs : /\ Cardinality(wait \cap Chunks(r)) <= Parallel
                      /\ Cardinality(BusyChunks(r)) <= Parallel
  BY <1>2 DEF BoundInv
<1>4. \A r \in Runs : /\ IsFiniteSet(wait \cap Chunks(r)) /\ IsFiniteSet(BusyChunks(r))
                      /\ Cardinality(wait \cap Chunks(r)) \in Nat
                      /\ Cardinality(BusyChunks(r)) \in Nat
  <2> SUFFICES ASSUME NEW r \in Runs
               PROVE  /\ IsFiniteSet(wait \cap Chunks(r)) /\ IsFiniteSet(BusyChunks(r))
                      /\ Cardinality(wait \cap Chunks(r)) \in Nat
                      /\ Cardinality(BusyChunks(r)) \in Nat
    OBVIOUS
  <2>1. wait \cap Chunks(r) \subseteq Runs /\ BusyChunks(r) \subseteq Runs
    BY DEF Chunks, BusyChunks
  <2>2. IsFiniteSet(wait \cap Chunks(r)) /\ IsFiniteSet(BusyChunks(r))
    BY <2>1, RunsAssumption, FS_Subset
  <2> QED
    BY <2>2, FS_CardinalityType
<1>5. CASE \A r \in Runs : ~FanAcquire(r)
  <2>1. RowFollows' /\ BusyHolds' /\ NoRequest' /\ Shrinks
    BY <1>2, <1>5, PermitStep
  <2>2. ASSUME NEW r \in Runs
        PROVE  /\ Cardinality(wait' \cap Chunks(r)) <= Parallel
               /\ Cardinality(BusyChunks(r)') <= Parallel
    <3>1. wait' \cap Chunks(r) \subseteq wait \cap Chunks(r) /\ BusyChunks(r)' \subseteq BusyChunks(r)
      BY <2>1, RunsAssumption DEF Shrinks, BusyChunks, Chunks
    <3>2. /\ Cardinality(wait' \cap Chunks(r)) <= Cardinality(wait \cap Chunks(r))
          /\ Cardinality(wait' \cap Chunks(r)) \in Nat
      BY <1>4, <3>1, FS_Subset, FS_CardinalityType
    <3>3. /\ Cardinality(BusyChunks(r)') <= Cardinality(BusyChunks(r))
          /\ Cardinality(BusyChunks(r)') \in Nat
      BY <1>4, <3>1, FS_Subset, FS_CardinalityType
    <3> QED
      BY <1>3, <1>4, <3>2, <3>3, ParallelAssumption
  <2> QED
    BY <2>1, <2>2 DEF PermitInv
<1>6. ASSUME NEW q \in Runs, FanAcquire(q)
      PROVE  /\ PermitInv'
             /\ \A r \in Runs : /\ Cardinality(wait' \cap Chunks(r)) <= Parallel
                                /\ Cardinality(BusyChunks(r)') <= Parallel
  <2>1. /\ RowFollows' /\ BusyHolds' /\ NoRequest'
        /\ pc[q] = "permit" /\ Cardinality(wait \cap Chunks(q)) < Parallel
    BY <1>2, <1>6, AcquireStep
  <2>2. PICK c \in Chunks(q) : /\ wait' = wait \cup {c}
                               /\ \A d \in Runs : Busy(d)' => Busy(d) \/ d = c
    BY <1>2, <1>6, AcquireStep
  <2>3. c \in Runs /\ Parent[c] = q
    BY DEF Chunks
  <2>4. ASSUME NEW r \in Runs, r # q
        PROVE  /\ Cardinality(wait' \cap Chunks(r)) <= Parallel
               /\ Cardinality(BusyChunks(r)') <= Parallel
    <3>1. wait' \cap Chunks(r) = wait \cap Chunks(r) /\ BusyChunks(r)' \subseteq BusyChunks(r)
      BY <2>2, <2>3, <2>4 DEF BusyChunks, Chunks
    <3>2. /\ Cardinality(BusyChunks(r)') <= Cardinality(BusyChunks(r))
          /\ Cardinality(BusyChunks(r)') \in Nat
      BY <1>4, <3>1, FS_Subset, FS_CardinalityType
    <3> QED
      BY <1>3, <1>4, <3>1, <3>2, ParallelAssumption
  <2>5. /\ Cardinality(wait' \cap Chunks(q)) <= Parallel
        /\ Cardinality(BusyChunks(q)') <= Parallel
    <3> DEFINE W == wait \cap Chunks(q)
    <3>1. wait' \cap Chunks(q) = W \cup {c}
      BY <2>2
    <3>2. BusyChunks(q)' \subseteq W \cup {c}
      BY <1>2, <2>1, <2>2, RunsAssumption DEF BusyChunks, Chunks, BusyHolds, Loop
    <3>3. IsFiniteSet(W) /\ Cardinality(W) \in Nat /\ Cardinality(W) < Parallel
      BY <1>4, <2>1
    <3> HIDE DEF W
    <3>4. IsFiniteSet(W \cup {c}) /\ Cardinality(W \cup {c}) \in {Cardinality(W), Cardinality(W) + 1}
      BY <3>3, FS_AddElement
    <3>5. /\ Cardinality(BusyChunks(q)') <= Cardinality(W \cup {c})
          /\ Cardinality(BusyChunks(q)') \in Nat
      BY <3>2, <3>4, FS_Subset, FS_CardinalityType
    <3> QED
      BY <3>1, <3>3, <3>4, <3>5, ParallelAssumption
  <2> QED
    BY <2>1, <2>4, <2>5 DEF PermitInv
<1> QED
  BY <1>5, <1>6

\* The bound holds in every state, for shell chunks.
LEMMA BoundCorrect == ShellChunks /\ Spec => []BoundInv
<1> SUFFICES ASSUME ShellChunks PROVE Spec => []BoundInv
  OBVIOUS
<1>1. Init => BoundInv
  <2> SUFFICES ASSUME Init PROVE BoundInv
    OBVIOUS
  <2>1. left["cancel"] <= Budget["cancel"]
    BY BudgetAssumption DEF Init, Events
  <2>2. \A c \in Runs : pc[c] = "none" /\ status[c] = "none" /\ cpc[c] = "none" /\ ~Busy(c)
    BY DEF Init, Busy, Starting, ActiveStatus
  <2>3. PermitInv
    BY <2>2 DEF PermitInv, RowFollows, BusyHolds, NoRequest, Terminal
  <2>4. \A r \in Runs : wait \cap Chunks(r) = {} /\ BusyChunks(r) = {}
    BY <2>2 DEF Init, BusyChunks, Chunks
  <2> QED
    BY <2>1, <2>3, <2>4, FS_EmptySet, ParallelAssumption DEF BoundInv
<1> QED
  BY <1>1, TypeCorrect, DoneInvCorrect, BoundStep, PTL DEF Spec

\* Until somebody asks to cancel a run, an orchestrator of shell chunks never
\* has more than Parallel of them being started or active: wait_child_terminal
\* releases a permit only when the row or the worker has ended, whatever fails,
\* dies or is lost.
THEOREM ParallelCorrect == ShellChunks /\ Spec => [](Uncancelled => ParallelBound)
<1>1. BoundInv => (Uncancelled => ParallelBound)
  BY DEF BoundInv, ParallelBound, BusyChunks, Busy
<1> QED
  BY <1>1, BoundCorrect, PTL

\* A system in which nobody cancels keeps the bound.
THEOREM ParallelUncancelled ==
    ASSUME Budget["cancel"] = 0 PROVE ShellChunks /\ Spec => []ParallelBound
<1>1. TypeOK /\ BoundInv => Uncancelled
  BY BudgetAssumption DEF BoundInv, TypeOK, Uncancelled, Events
<1> QED
  BY <1>1, ParallelCorrect, BoundCorrect, TypeCorrect, PTL

-----------------------------------------------------------------------------
(* A worker that is past the billing has closed the reservation of its run. *)

\* A reservation belongs to one run or to the chat turn that started the run.
OwnReqs == \A r, s \in Runs : ReqOf[r] = ReqOf[s] => r = s \/ ReqOf[r] = ChatReq

\* A closed reservation stays closed, and the one of the turn exists already.
HoldInv ==
    /\ left["fail"] <= Budget["fail"]
    /\ ChatReq \in Reqs => hold[ChatReq] # "none"
    /\ EndedHoldsNothing

\* Every step keeps the reservations of ended runs closed.
LEMMA HoldStep == ASSUME TypeOK, TypeOK', OwnReqs, HoldInv, [Next]_vars PROVE HoldInv'
<1> USE ReqAssumption, BudgetAssumption
    DEF HoldInv, EndedHoldsNothing, OwnReqs, PC, Starting, Working, Events
<1>1. ASSUME NEW r \in Runs, Start(r) PROVE HoldInv'
  BY <1>1 DEF Start, Go, At, rowVars, memVars, cancelVars, agentVars, fanVars,
    TypeOK
<1>2. ASSUME NEW r \in Runs, StartHold(r) PROVE HoldInv'
  BY <1>2 DEF StartHold, Go, At, memVars, cancelVars, agentVars, fanVars, TypeOK
<1>3. ASSUME NEW r \in Runs, StartRefused(r) PROVE HoldInv'
  BY <1>3 DEF StartRefused, Go, At, rowVars, memVars, cancelVars, agentVars,
    fanVars, TypeOK
<1>4. ASSUME NEW r \in Runs, StartInsert(r) PROVE HoldInv'
  BY <1>4 DEF StartInsert, Go, At, Put, memVars, cancelVars, agentVars, fanVars,
    TypeOK
<1>5. ASSUME NEW r \in Runs, StartFail(r) PROVE HoldInv'
  BY <1>5 DEF StartFail, Go, At, rowVars, memVars, cancelVars, agentVars, fanVars,
    TypeOK
<1>6. ASSUME NEW r \in Runs, StartNotify(r) PROVE HoldInv'
  BY <1>6 DEF StartNotify, Go, At, rowVars, memVars, cancelVars, fanVars, TypeOK
<1>7. ASSUME NEW r \in Runs, StartSpawn(r) PROVE HoldInv'
  BY <1>7 DEF StartSpawn, Go, At, Put, Write, Lost, Spend, cancelVars, agentVars,
    fanVars, TypeOK
<1>8. ASSUME NEW r \in Runs, SetRunning(r) PROVE HoldInv'
  BY <1>8 DEF SetRunning, Go, At, Put, Write, Lost, Spend, memVars, cancelVars,
    agentVars, fanVars, TypeOK
<1>9. ASSUME NEW r \in Runs, Work(r) PROVE HoldInv'
  BY <1>9 DEF Work, Go, At, rowVars, memVars, cancelVars, agentVars, fanVars, TypeOK
<1>10. ASSUME NEW r \in Runs, FanStop(r) PROVE HoldInv'
  BY <1>10 DEF FanStop, Go, At, FanReturn, Unstarted, Chunks, rowVars, memVars,
    cancelVars, agentVars, TypeOK
<1>11. ASSUME NEW r \in Runs, FanCheck(r) PROVE HoldInv'
  BY <1>11 DEF FanCheck, Go, At, Unstarted, Chunks, rowVars, memVars, cancelVars,
    agentVars, fanVars, TypeOK
<1>12. ASSUME NEW r \in Runs, FanAcquire(r) PROVE HoldInv'
  BY <1>12 DEF FanAcquire, At, Unstarted, Chunks, rowVars, memVars, cancelVars,
    agentVars, TypeOK
<1>13. ASSUME NEW r \in Runs, FanSpawn(r) PROVE HoldInv'
  BY <1>13 DEF FanSpawn, Go, At, Chunks, rowVars, memVars, cancelVars, agentVars,
    fanVars, TypeOK
<1>14. ASSUME NEW r \in Runs, FanError(r) PROVE HoldInv'
  BY <1>14 DEF FanError, Go, At, FanReturn, Chunks, rowVars, memVars, cancelVars,
    agentVars, TypeOK
<1>15. ASSUME NEW r \in Runs, FanJoin(r) PROVE HoldInv'
  BY <1>15 DEF FanJoin, Go, At, FanReturn, Chunks, rowVars, memVars, cancelVars,
    agentVars, TypeOK
<1>16. ASSUME NEW r \in Runs, SettleNothing(r) PROVE HoldInv'
  BY <1>16 DEF SettleNothing, Go, At, Close, memVars, cancelVars, agentVars,
    fanVars, TypeOK
<1>17. ASSUME NEW r \in Runs, Deduct(r) PROVE HoldInv'
  BY <1>17 DEF Deduct, Go, At, memVars, cancelVars, agentVars, fanVars, TypeOK
<1>18. ASSUME NEW r \in Runs, SettleHold(r) PROVE HoldInv'
  BY <1>18 DEF SettleHold, Go, At, Close, memVars, cancelVars, agentVars, fanVars,
    TypeOK
<1>19. ASSUME NEW r \in Runs, Finish(r) PROVE HoldInv'
  BY <1>19 DEF Finish, Go, At, Put, Write, Lost, Spend, memVars, cancelVars,
    agentVars, fanVars, TypeOK
<1>20. ASSUME NEW r \in Runs, CancelClear(r) PROVE HoldInv'
  BY <1>20 DEF CancelClear, Go, At, rowVars, cancelVars, agentVars, fanVars, TypeOK
<1>21. ASSUME NEW r \in Runs, WaitDone(r) PROVE HoldInv'
  BY <1>21 DEF WaitDone, rowVars, memVars, cancelVars, agentVars, TypeOK
<1>22. ASSUME NEW r \in Runs, FanWall(r) PROVE HoldInv'
  BY <1>22 DEF FanWall, Go, At, Spend, Unstarted, Chunks, rowVars, memVars,
    cancelVars, agentVars, TypeOK
<1>23. ASSUME NEW r \in Runs, DeductFail(r) PROVE HoldInv'
  BY <1>23 DEF DeductFail, Go, Spend, rowVars, memVars, cancelVars, agentVars,
    fanVars, TypeOK
<1>24. ASSUME NEW r \in Runs, AgentDone(r) PROVE HoldInv'
  BY <1>24 DEF AgentDone, Put, Spend, memVars, cancelVars, fanVars, TypeOK
<1>25. ASSUME NEW r \in Runs, AgentRefund(r) PROVE HoldInv'
  BY <1>25 DEF AgentRefund, Close, memVars, cancelVars, fanVars, TypeOK
<1>26. ASSUME NEW r \in Runs, CancelList(r) PROVE HoldInv'
  BY <1>26 DEF CancelList, Chunks, rowVars, memVars, agentVars, fanVars, TypeOK
<1>27. ASSUME NEW r \in Runs, CancelKid(r) PROVE HoldInv'
  BY <1>27 DEF CancelKid, Mark, Write, Lost, Put, Spend, Signalled, agentVars,
    fanVars, TypeOK
<1>28. ASSUME NEW r \in Runs, CancelMark(r) PROVE HoldInv'
  BY <1>28 DEF CancelMark, Mark, Write, Lost, Put, Spend, memVars, agentVars,
    fanVars, TypeOK
<1>29. ASSUME NEW r \in Runs, NEW p \in Pods, CancelSignal(r, p) PROVE HoldInv'
  BY <1>29 DEF CancelSignal, Spend, Signalled, rowVars, agentVars, fanVars, TypeOK
<1>30. ASSUME TurnEnd PROVE HoldInv'
  BY <1>30 DEF TurnEnd, Close, memVars, cancelVars, agentVars, fanVars, TypeOK
<1>31. ASSUME NEW p \in Pods, Crash(p) PROVE HoldInv'
  BY <1>31 DEF Crash, Spend, rowVars, agentVars, TypeOK
<1>32. CASE UNCHANGED vars
  BY <1>32 DEF vars, rowVars, memVars, cancelVars, agentVars, fanVars, TypeOK
<1>33. ASSUME NEW r \in Runs, WaitTimeout(r) PROVE HoldInv'
  BY <1>33 DEF WaitTimeout, rowVars, memVars, cancelVars, agentVars, TypeOK
<1> QED
  BY <1>1, <1>2, <1>3, <1>4, <1>5, <1>6, <1>7, <1>8, <1>9, <1>10, <1>11, <1>12,
    <1>13, <1>14, <1>15, <1>16, <1>17, <1>18, <1>19, <1>20, <1>21, <1>22, <1>23,
    <1>24, <1>25, <1>26, <1>27, <1>28, <1>29, <1>30, <1>31, <1>32, <1>33 DEF Next,
    Advance

\* When no two runs share a req_id other than that of the chat turn
\* (run_start.rs:27, chunk_fanout.rs:100), the reservation of a run is not
\* held any more once its worker is past the billing, however the run was
\* stopped, reported or crashed around, unless a statement failed.
THEOREM HoldCorrect == OwnReqs /\ Spec => []EndedHoldsNothing
<1> SUFFICES ASSUME OwnReqs PROVE Spec => []EndedHoldsNothing
  OBVIOUS
<1>1. Init => HoldInv
  BY BudgetAssumption DEF Init, HoldInv, EndedHoldsNothing, Events
<1>2. HoldInv => EndedHoldsNothing
  BY DEF HoldInv
<1> QED
  BY <1>1, <1>2, TypeCorrect, HoldStep, PTL DEF Spec
=============================================================================
