------------------------------ MODULE TaskRun ------------------------------
(***************************************************************************)
(* Task runs (mod_task): how a run is started, held and billed, how its    *)
(* recipe worker executes it on a server pod, how a chunk orchestrator     *)
(* starts and awaits child runs, how the device agent reports, and how     *)
(* runs are cancelled.  The rows are in ai.task_run; the cancel flags are  *)
(* in the memory of the pod that executes the run.                         *)
(*                                                                         *)
(* A run has one thread of control on the server: task_run_start_core and  *)
(* then its worker, so one program counter per run describes both.         *)
(***************************************************************************)
EXTENDS Integers, FiniteSets

CONSTANTS
    Runs,       \* task runs
    Kind,       \* what each run executes
    Parent,     \* the orchestrator a chunk belongs to, NoRun for the others
    Reqs,       \* req_ids, the keys of billing reservations
    ReqOf,      \* the req_id of each run
    ChatReq,    \* the req_id of a chat turn in flight that starts runs by tool
    Pods,       \* server pods
    Parallel,   \* parallel_children of an orchestrator
    Budget,     \* bound: how often each kind of event may happen
    NoRun

\* An agent run is executed by the device alone, a browser recipe by the
\* server although the device is notified too, a shell chunk and an
\* orchestrator by the server alone.
RunKinds == {"agent", "browser", "shell", "fanout"}
Events == {"crash", "fail", "cancel", "report", "lost"}

ASSUME RunsAssumption == IsFiniteSet(Runs) /\ NoRun \notin Runs
ASSUME KindAssumption == Kind \in [Runs -> RunKinds]
ASSUME ParentAssumption == Parent \in [Runs -> Runs \cup {NoRun}]
ASSUME ReqAssumption == ReqOf \in [Runs -> Reqs]
ASSUME ParallelAssumption == Parallel \in Nat \ {0}
ASSUME BudgetAssumption == Budget \in [Events -> Nat]

ActiveStatus == {"queued", "running"}
Terminal == {"done", "failed", "cancelled"}

\* Program points of a run: task_run_start_core, then the worker, in which
\* "fan" to "join" are the loop of an orchestrator.
Starting == {"begin", "insert", "notify", "spawn"}
Working == {"spawned", "work", "fan", "permit", "child", "join",
            "metrics", "settle", "finish", "clear"}
PC == {"none", "error", "agent", "gone", "dead"} \cup Starting \cup Working
CancelPC == {"none", "list", "kids", "done", "lost"}

VARIABLES
    status,     \* ai.task_run.status; "none" before the insert
    hold,       \* ai.billing_reservation.status of each req_id
    pc,         \* program point of each run
    out,        \* outcome of each run's recipe
    home,       \* pod of each run
    reg,        \* runs with an entry in RUN_CANCEL
    flag,       \* runs whose entry is set
    agent,      \* runs the device has been notified of
    refunding,  \* runs whose report has written the status, not the refund
    cpc,        \* program point of each run's cancel request
    cpod,       \* pod of each run's cancel request
    kids,       \* children a cancel request has listed and not yet marked
    wait,       \* chunks that hold a permit of their orchestrator
    bad,        \* chunks whose waiter saw another end than done
    turn,       \* whether the chat turn is in flight
    left        \* remaining budget of each kind of event

rowVars == <<status, hold>>
memVars == <<home, reg, flag>>
cancelVars == <<cpc, cpod, kids>>
agentVars == <<agent, refunding>>
fanVars == <<wait, bad>>
vars == <<rowVars, pc, out, memVars, agentVars, cancelVars, fanVars, turn, left>>

Chunks(r) == {c \in Runs : Parent[c] = r}
HasWorker(r) == Kind[r] # "agent"
Notifies(r) == Kind[r] \in {"agent", "browser"}
Spend(e) == left[e] > 0 /\ left' = [left EXCEPT ![e] = @ - 1]
At(r, p) == pc[r] = p
Go(r, p) == pc' = [pc EXCEPT ![r] = p]
Put(r, s) == status' = [status EXCEPT ![r] = s]

\* A write whose result is dropped (`let _ =`): a failure goes unnoticed.
Lost == Spend("lost") /\ UNCHANGED status
Write(r, s) == (Put(r, s) /\ UNCHANGED left) \/ Lost

\* UPDATE ... WHERE status = 'held'.
Close(q, s) == hold' = [hold EXCEPT ![q] = IF @ = "held" THEN s ELSE @]

Init ==
    /\ status = [r \in Runs |-> "none"]
    /\ hold = [q \in Reqs |-> IF q = ChatReq THEN "held" ELSE "none"]
    /\ pc = [r \in Runs |-> "none"]
    /\ out = [r \in Runs |-> "none"]
    /\ home \in [Runs -> Pods] /\ \A c \in Runs : Parent[c] # NoRun => home[c] = home[Parent[c]]
    /\ reg = {} /\ flag = {}
    /\ agent = {} /\ refunding = {}
    /\ cpc = [r \in Runs |-> "none"] /\ cpod = home
    /\ kids = [r \in Runs |-> {}]
    /\ wait = {} /\ bad = {}
    /\ turn = (ChatReq \in Reqs)
    /\ left = Budget

(***************************************************************************)
(* task_run_start_core.                                                    *)
(***************************************************************************)

\* A client, a tool of the chat turn or the scheduler starts a run.
Start(r) ==
    /\ At(r, "none") /\ Parent[r] = NoRun
    /\ ReqOf[r] = ChatReq => turn
    /\ Go(r, "begin")
    /\ UNCHANGED <<rowVars, out, memVars, agentVars, cancelVars, fanVars, turn, left>>

\* billing_gate_with_hold_custom: a reservation of the req_id is kept as it
\* is, otherwise one is inserted unless the allowance makes it unnecessary.
StartHold(r) == \E h \in {"none", "held"} :
    /\ At(r, "begin") /\ Go(r, "insert")
    /\ hold' = [hold EXCEPT ![ReqOf[r]] = IF @ = "none" THEN h ELSE @]
    /\ UNCHANGED <<status, out, memVars, agentVars, cancelVars, fanVars, turn, left>>

StartRefused(r) ==
    /\ At(r, "begin") /\ Go(r, "error")
    /\ UNCHANGED <<rowVars, out, memVars, agentVars, cancelVars, fanVars, turn, left>>

StartInsert(r) ==
    /\ At(r, "insert") /\ Go(r, "notify")
    /\ Put(r, "queued")
    /\ UNCHANGED <<hold, out, memVars, agentVars, cancelVars, fanVars, turn, left>>

\* The task is gone, the prompt is missing or the insert fails.
StartFail(r) ==
    /\ At(r, "insert") /\ Go(r, "error")
    /\ UNCHANGED <<rowVars, out, memVars, agentVars, cancelVars, fanVars, turn, left>>

\* ActDeviceTaskRun; a device that is offline does not get it.
StartNotify(r) == \E sent \in BOOLEAN :
    /\ At(r, "notify") /\ Go(r, "spawn")
    /\ agent' = IF sent /\ Notifies(r) THEN agent \cup {r} ELSE agent
    /\ UNCHANGED <<rowVars, out, memVars, refunding, cancelVars, fanVars, turn, left>>

StartSpawn(r) ==
    /\ At(r, "spawn")
    /\ IF HasWorker(r)
       THEN Go(r, "spawned") /\ reg' = reg \cup {r} /\ UNCHANGED <<status, left>>
       ELSE Go(r, "agent") /\ Write(r, "running") /\ UNCHANGED reg
    /\ UNCHANGED <<hold, out, home, flag, agentVars, cancelVars, fanVars, turn>>

(***************************************************************************)
(* task_worker_spawn.                                                      *)
(***************************************************************************)

SetRunning(r) ==
    /\ At(r, "spawned") /\ Go(r, IF Kind[r] = "fanout" THEN "fan" ELSE "work")
    /\ Write(r, "running")
    /\ UNCHANGED <<hold, out, memVars, agentVars, cancelVars, fanVars, turn>>

\* Mutant of Work: a recipe that was stopped returns before the billing.
WorkSkipsSettle(r) == \E o \in Terminal :
    /\ At(r, "work") /\ Go(r, IF o = "cancelled" THEN "finish" ELSE "metrics")
    /\ o = "cancelled" => r \in flag
    /\ out' = [out EXCEPT ![r] = o]
    /\ UNCHANGED <<rowVars, memVars, agentVars, cancelVars, fanVars, turn, left>>

\* A recipe ends; it looks at its flag between rows, not after the last one.
Work(r) == \E o \in Terminal :
    /\ At(r, "work") /\ Go(r, "metrics")
    /\ o = "cancelled" => r \in flag
    /\ out' = [out EXCEPT ![r] = o]
    /\ UNCHANGED <<rowVars, memVars, agentVars, cancelVars, fanVars, turn, left>>

Unstarted(r) == {c \in Chunks(r) : At(c, "none")}

\* The orchestrator returns: its JoinSet and its waiters are dropped.
FanReturn(r, o) ==
    /\ Go(r, "metrics")
    /\ out' = [out EXCEPT ![r] = o]
    /\ wait' = wait \ Chunks(r)
    /\ UNCHANGED <<rowVars, memVars, agentVars, cancelVars, bad, turn, left>>

FanStop(r) ==
    /\ At(r, "fan") /\ Unstarted(r) # {} /\ r \in flag
    /\ FanReturn(r, "cancelled")

FanCheck(r) ==
    /\ At(r, "fan") /\ (Unstarted(r) = {} \/ r \notin flag)
    /\ Go(r, IF Unstarted(r) = {} THEN "join" ELSE "permit")
    /\ UNCHANGED <<rowVars, out, memVars, agentVars, cancelVars, fanVars, turn, left>>

\* The wall clock cap.
FanWall(r) ==
    /\ At(r, "fan") /\ Unstarted(r) # {} /\ r \notin flag /\ Spend("fail")
    /\ Go(r, "metrics")
    /\ out' = [out EXCEPT ![r] = "failed"]
    /\ wait' = wait \ Chunks(r)
    /\ UNCHANGED <<rowVars, memVars, agentVars, cancelVars, bad, turn>>

\* A permit of the semaphore, then task_run_start_core of the next chunk.
FanAcquire(r) == \E c \in Unstarted(r) :
    /\ At(r, "permit") /\ Cardinality(wait \cap Chunks(r)) < Parallel
    /\ wait' = wait \cup {c}
    /\ pc' = [pc EXCEPT ![r] = "child", ![c] = "begin"]
    /\ UNCHANGED <<rowVars, out, memVars, agentVars, cancelVars, bad, turn, left>>

InStart(r) == \E c \in Chunks(r) : pc[c] \in Starting

\* The start of the chunk has returned: its waiter is spawned.
FanSpawn(r) ==
    /\ At(r, "child") /\ ~InStart(r) /\ \A c \in wait \cap Chunks(r) : ~At(c, "error")
    /\ Go(r, "fan")
    /\ UNCHANGED <<rowVars, out, memVars, agentVars, cancelVars, fanVars, turn, left>>

FanError(r) ==
    /\ At(r, "child") /\ \E c \in wait \cap Chunks(r) : At(c, "error")
    /\ FanReturn(r, "failed")

\* Mutant of WaitDone: the permit is kept.
WaitDoneLeaks(c) ==
    /\ c \in wait /\ status[c] \in Terminal /\ pc[c] \notin Starting
    /\ bad' = IF status[c] = "done" THEN bad ELSE bad \cup {c}
    /\ UNCHANGED <<rowVars, pc, out, memVars, agentVars, cancelVars, wait, turn, left>>

\* Mutant of WaitDone: the permit is released once the chunk is running.
WaitDoneEarly(c) ==
    /\ c \in wait /\ status[c] \in Terminal \cup {"running"} /\ pc[c] \notin Starting
    /\ wait' = wait \ {c}
    /\ bad' = IF status[c] \in {"failed", "cancelled"} THEN bad \cup {c} ELSE bad
    /\ UNCHANGED <<rowVars, pc, out, memVars, agentVars, cancelVars, turn, left>>

\* wait_child_terminal sees the end of a chunk and releases its permit.
WaitDone(c) ==
    /\ c \in wait /\ status[c] \in Terminal /\ pc[c] \notin Starting
    /\ wait' = wait \ {c}
    /\ bad' = IF status[c] = "done" THEN bad ELSE bad \cup {c}
    /\ UNCHANGED <<rowVars, pc, out, memVars, agentVars, cancelVars, turn, left>>

\* wait_child_terminal gives up after two hours.  The recipes give up after
\* half an hour, so the worker of the chunk is gone and has lost its finishing
\* write, or the chunk was left to the device.
WaitTimeout(c) ==
    /\ c \in wait /\ status[c] \notin Terminal /\ pc[c] \in {"agent", "gone"}
    /\ wait' = wait \ {c}
    /\ bad' = bad \cup {c}
    /\ UNCHANGED <<rowVars, pc, out, memVars, agentVars, cancelVars, turn, left>>

\* Mutant of FanJoin: failed chunks are not counted.
FanJoinBlind(r) ==
    /\ At(r, "join") /\ wait \cap Chunks(r) = {}
    /\ FanReturn(r, "done")

FanJoin(r) ==
    /\ At(r, "join") /\ wait \cap Chunks(r) = {}
    /\ FanReturn(r, IF bad \cap Chunks(r) = {} THEN "done" ELSE "failed")

\* task_run_billing_settle: nothing was spent.
SettleNothing(r) ==
    /\ At(r, "metrics") /\ Go(r, "finish")
    /\ Close(ReqOf[r], "refunded")
    /\ UNCHANGED <<status, out, memVars, agentVars, cancelVars, fanVars, turn, left>>

\* billing_deduct_personal_profile; what it charges is in BillingTurn.
Deduct(r) ==
    /\ At(r, "metrics") /\ Go(r, "settle")
    /\ UNCHANGED <<status, hold, out, memVars, agentVars, cancelVars, fanVars, turn, left>>

DeductFail(r) ==
    /\ pc[r] \in {"metrics", "settle"} /\ Spend("fail")
    /\ Go(r, "finish")
    /\ UNCHANGED <<rowVars, out, memVars, agentVars, cancelVars, fanVars, turn>>

SettleHold(r) ==
    /\ At(r, "settle") /\ Go(r, "finish")
    /\ Close(ReqOf[r], "settled")
    /\ UNCHANGED <<status, out, memVars, agentVars, cancelVars, fanVars, turn, left>>

Finish(r) ==
    /\ At(r, "finish") /\ Go(r, "clear")
    /\ Write(r, out[r])
    /\ UNCHANGED <<hold, out, memVars, agentVars, cancelVars, fanVars, turn>>

CancelClear(r) ==
    /\ At(r, "clear") /\ Go(r, "gone")
    /\ reg' = reg \ {r} /\ flag' = flag \ {r}
    /\ UNCHANGED <<rowVars, out, home, agentVars, cancelVars, fanVars, turn, left>>

(***************************************************************************)
(* The device, the cancel requests, the chat turn and the pods.            *)
(***************************************************************************)

\* task_run_finish_rpc: the device reports an end, possibly more than once;
\* the write of the status may fail, the refund follows all the same.
AgentDone(r) == \E s \in Terminal :
    /\ r \in agent /\ Spend("report")
    /\ Put(r, s) \/ UNCHANGED status
    /\ refunding' = refunding \cup {r}
    /\ UNCHANGED <<hold, pc, out, memVars, agent, cancelVars, fanVars, turn>>

AgentRefund(r) ==
    /\ r \in refunding
    /\ refunding' = refunding \ {r}
    /\ Close(ReqOf[r], "refunded")
    /\ UNCHANGED <<status, pc, out, memVars, agent, cancelVars, fanVars, turn, left>>

\* The flag exists only on the pod that executes the run.
Signalled(r, p) == IF r \in reg /\ home[r] = p THEN flag \cup {r} ELSE flag

\* task_run_mark_cancelled, a write whose result is dropped too.
Mark(r) == Write(r, IF status[r] \in ActiveStatus THEN "cancelled" ELSE status[r])

CancelSignal(r, p) ==
    /\ cpc[r] = "none" /\ status[r] # "none" /\ Spend("cancel")
    /\ flag' = Signalled(r, p)
    /\ cpc' = [cpc EXCEPT ![r] = "list"]
    /\ cpod' = [cpod EXCEPT ![r] = p]
    /\ UNCHANGED <<rowVars, pc, out, home, reg, agentVars, kids, fanVars, turn>>

CancelList(r) ==
    /\ cpc[r] = "list"
    /\ kids' = [kids EXCEPT ![r] = {c \in Chunks(r) : status[c] \in ActiveStatus}]
    /\ cpc' = [cpc EXCEPT ![r] = "kids"]
    /\ UNCHANGED <<rowVars, pc, out, memVars, agentVars, cpod, fanVars, turn, left>>

CancelKid(r) == \E c \in kids[r] :
    /\ cpc[r] = "kids"
    /\ flag' = Signalled(c, cpod[r])
    /\ Mark(c)
    /\ kids' = [kids EXCEPT ![r] = @ \ {c}]
    /\ UNCHANGED <<hold, pc, out, home, reg, agentVars, cpc, cpod, fanVars, turn>>

CancelMark(r) ==
    /\ cpc[r] = "kids" /\ kids[r] = {}
    /\ Mark(r)
    /\ cpc' = [cpc EXCEPT ![r] = "done"]
    /\ UNCHANGED <<hold, pc, out, memVars, agentVars, cpod, kids, fanVars, turn>>

\* The chat turn ends and its usage report settles its hold.
TurnEnd ==
    /\ turn /\ turn' = FALSE
    /\ Close(ChatReq, "settled")
    /\ UNCHANGED <<status, pc, out, memVars, agentVars, cancelVars, fanVars, left>>

\* A pod dies with its workers, flags and requests; nothing resumes them.
Crash(p) ==
    /\ Spend("crash")
    /\ pc' = [r \in Runs |->
                IF home[r] = p /\ pc[r] \in Starting \cup Working THEN "dead" ELSE pc[r]]
    /\ reg' = {r \in reg : home[r] # p} /\ flag' = {r \in flag : home[r] # p}
    /\ wait' = {c \in wait : home[c] # p}
    /\ cpc' = [r \in Runs |->
                 IF cpod[r] = p /\ cpc[r] \in {"list", "kids"} THEN "lost" ELSE cpc[r]]
    /\ UNCHANGED <<rowVars, out, home, agentVars, cpod, kids, bad, turn>>

Advance(r) ==
    \/ StartHold(r) \/ StartRefused(r) \/ StartInsert(r) \/ StartFail(r)
    \/ StartNotify(r) \/ StartSpawn(r) \/ SetRunning(r) \/ Work(r)
    \/ FanStop(r) \/ FanCheck(r) \/ FanAcquire(r) \/ FanSpawn(r) \/ FanError(r) \/ FanJoin(r)
    \/ SettleNothing(r) \/ Deduct(r) \/ SettleHold(r) \/ Finish(r) \/ CancelClear(r)

Next ==
    \/ \E r \in Runs :
         \/ Start(r) \/ Advance(r) \/ WaitDone(r) \/ WaitTimeout(r) \/ FanWall(r)
         \/ DeductFail(r) \/ AgentDone(r) \/ AgentRefund(r)
         \/ CancelList(r) \/ CancelKid(r) \/ CancelMark(r)
    \/ \E r \in Runs, p \in Pods : CancelSignal(r, p)
    \/ TurnEnd
    \/ \E p \in Pods : Crash(p)

\* The tasks of a pod that is alive are scheduled, the waiters poll and give
\* up, and the requests of the recipes have timeouts.
Fairness == \A r \in Runs :
    WF_vars(Advance(r)) /\ WF_vars(WaitDone(r)) /\ WF_vars(WaitTimeout(r))

Spec == Init /\ [][Next]_vars
FairSpec == Spec /\ Fairness

(***************************************************************************)
(* Properties.                                                             *)
(***************************************************************************)

\* Every variable has its type; a cancel flag is set only in an entry of
\* RUN_CANCEL, and a refund is pending only for a run the device knows.
TypeOK ==
    /\ status \in [Runs -> {"none"} \cup ActiveStatus \cup Terminal]
    /\ hold \in [Reqs -> {"none", "held", "settled", "refunded"}]
    /\ pc \in [Runs -> PC]
    /\ out \in [Runs -> {"none"} \cup Terminal]
    /\ home \in [Runs -> Pods]
    /\ reg \subseteq Runs /\ flag \subseteq reg
    /\ agent \subseteq Runs /\ refunding \subseteq agent
    /\ cpc \in [Runs -> CancelPC] /\ cpod \in [Runs -> Pods]
    /\ kids \in [Runs -> SUBSET Runs]
    /\ wait \subseteq Runs /\ bad \subseteq Runs
    /\ turn \in BOOLEAN
    /\ left \in [Events -> Nat]

\* An orchestrator that is recorded as done has only chunks that are done,
\* whatever was cancelled, failed or crashed in between.
DoneMeansAllDone == \A r \in Runs :
    Kind[r] = "fanout" /\ status[r] = "done" => \A c \in Chunks(r) : status[c] = "done"

\* No more than Parallel chunks of an orchestrator are being started or are
\* active with a worker at once.
ParallelBound == \A r \in Runs :
    Cardinality({c \in Chunks(r) :
        pc[c] \in Starting \/ (status[c] \in ActiveStatus /\ pc[c] \notin {"gone", "dead"})})
      <= Parallel

\* A server-side run that was started ends, and so does its orchestrator,
\* unless its pod dies: the permits and the waits cannot block it for ever,
\* not even when a row stays active because its finishing write was lost.
StartedRunsEnd == \A r \in Runs :
    (HasWorker(r) /\ status[r] \in ActiveStatus)
        ~> \/ status[r] \in Terminal
           \/ At(r, "dead")
           \/ At(r, "gone") /\ left["lost"] < Budget["lost"]

\* Once the worker of a run is past the billing, its reservation is not held,
\* whether the recipe ended, failed or was stopped and whatever the device
\* reports, unless a statement failed.
EndedHoldsNothing == \A r \in Runs :
    pc[r] \in {"finish", "clear", "gone"} /\ left["fail"] = Budget["fail"]
        => hold[ReqOf[r]] # "held"

\* A run that was stopped stays stopped.
StopIsFinal ==
    [][\A r \in Runs : status[r] = "cancelled" => status'[r] = "cancelled"]_vars

\* When the cancel request of an orchestrator has returned, no chunk of it
\* is active.
StopReachesChunks == \A r \in Runs :
    cpc[r] = "done" => \A c \in Chunks(r) : status[c] \notin ActiveStatus

\* A start that failed leaves no hold behind, unless the turn that asked for
\* the run has one.
FailedStartHoldsNothing == \A r \in Runs :
    At(r, "error") /\ ReqOf[r] # ChatReq => hold[ReqOf[r]] # "held"

\* The hold of a chat turn stays in place while the turn is in flight.
TurnKeepsHold == turn => hold[ChatReq] = "held"

=============================================================================
