----------------------------- MODULE PromptRun -----------------------------
(***************************************************************************)
(* Durable execution of prompt runs: the ai.prompt_run row, the JetStream  *)
(* work queue C35_CHAT_PROMPT that dispatches it, the jobs of              *)
(* prompt_run/worker.rs that execute it on the server pods, the submitting *)
(* WebSocket task with its inline fallback, the hydrate replay, and the    *)
(* billing reservation and usage report that belong to one req_id.         *)
(*                                                                         *)
(* A job is one delivery of one message and runs once, so it is named by   *)
(* the triple <<req_id, copy, delivery>>: copy 0 is the original publish,  *)
(* copy k the k-th replay by hydrate, and delivery 0 of copy 0 the task    *)
(* that submits the run and, when the publish fails, runs it inline.       *)
(* Every await between two writes of the code is a boundary between two    *)
(* actions here; what happens in one SQL statement is one action.          *)
(***************************************************************************)
EXTENDS Integers, FiniteSets

CONSTANTS
    Runs,           \* req_ids of prompt runs
    Pods,           \* server pods, each with one worker loop
    MaxDeliver,     \* PROMPT_RUN_MAX_DELIVER: deliveries JetStream makes
    MaxReplay,      \* bound: replays of one run by hydrate that are modelled
    MaxConcurrent,  \* prompt_run_max_concurrent(): permits of one pod
    Budget          \* bound: how often each kind of fault may happen

Faults == {"crash", "stall", "write", "reconnect", "stop"}

ASSUME DeliverAssumption == MaxDeliver \in Nat \ {0}
ASSUME ReplayAssumption == MaxReplay \in Nat
ASSUME ConcurrentAssumption == MaxConcurrent \in Nat \ {0}
ASSUME BudgetAssumption == Budget \in [Faults -> Nat]

Msgs == Runs \X (0..MaxReplay)
Jobs == Runs \X (0..MaxReplay) \X (0..MaxDeliver)

Req(j) == j[1]
MsgOf(j) == <<j[1], j[2]>>
JobOf(m, n) == <<m[1], m[2], n>>
Submitter(r) == <<r, 0, 0>>
Inline(j) == j[3] = 0

Terminal == {"done", "failed", "cancelled"}
Status == {"none", "queued", "running"} \cup Terminal

\* Program points of a job, in the order process_prompt_job reaches them.
PC == {"none", "publish", "wait", "count", "load", "reject", "refund",
       "lease", "start", "gate", "turn", "finish", "ack", "gone"}

VARIABLES
    status,   \* ai.prompt_run.status; "none" before the insert
    count,    \* ai.prompt_run.delivery_count
    cancel,   \* runs with ai.prompt_run.cancel_requested
    fatal,    \* runs whose saved checkpoint has a fatal class
    mstate,   \* JetStream: state of each message
    mcount,   \* JetStream: deliveries made of each message
    pc,       \* program point of each job
    pod,      \* pod each job runs on
    tok,      \* jobs whose CancellationToken is cancelled
    beat,     \* jobs whose heartbeat task extends the ack wait
    out,      \* result of each job's turn: what prompt_run_finish will record
    save,     \* checkpoint_save spawned by on_hop and not yet executed
    report,   \* background billing_usage_report of each job
    resv,     \* ai.billing_reservation.status of each req_id
    dedupe,   \* req_ids with a row in ai.billing_usage_dedupe
    charged,  \* history: jobs whose report deducted rings or wallet
    ended,    \* history: runs whose row has had a terminal status
    drain,    \* pods whose worker was told to drain
    stopped,  \* pods whose worker loop has ended by an error
    boot,     \* pods whose nats_post_connect is due (boot or NATS reconnect)
    lock,     \* the hydrate advisory lock and how far its holder has come
    hydrator, \* pod that holds, or last held, the lock
    listed,   \* queued runs the hydrator has read and not yet replayed
    spent     \* faults that have happened

rowVars == <<status, count, cancel, fatal, ended>>
msgVars == <<mstate, mcount>>
jobVars == <<pc, pod, tok, beat, out, save>>
billVars == <<report, resv, dedupe, charged>>
hydVars == <<boot, lock, hydrator, listed>>
podVars == <<drain, stopped, boot, lock, hydrator, listed>>
vars == <<status, count, cancel, fatal, ended, mstate, mcount, pc, pod, tok,
          beat, out, save, report, resv, dedupe, charged, drain, stopped,
          boot, lock, hydrator, listed, spent>>

\* Every variable has its type; JetStream makes at most MaxDeliver deliveries
\* of a message, each of them a job of its own.
TypeOK ==
    /\ status \in [Runs -> Status]
    /\ count \in [Runs -> Nat]
    /\ cancel \subseteq Runs
    /\ fatal \subseteq Runs
    /\ mstate \in [Msgs -> {"absent", "pending", "inflight", "acked"}]
    /\ mcount \in [Msgs -> 0..MaxDeliver]
    /\ pc \in [Jobs -> PC]
    /\ pod \in [Jobs -> Pods]
    /\ tok \subseteq Jobs
    /\ beat \subseteq Jobs
    /\ out \in [Jobs -> {"none", "ok", "err", "fail"}]
    /\ save \in [Jobs -> {"none", "clean", "fatal"}]
    /\ report \in [Jobs -> {"none", "gate", "won", "deducted"}]
    /\ resv \in [Runs -> {"none", "held", "settled", "refunded"}]
    /\ dedupe \subseteq Runs
    /\ charged \subseteq Jobs
    /\ ended \subseteq Runs
    /\ drain \subseteq Pods
    /\ stopped \subseteq Pods
    /\ boot \subseteq Pods
    /\ lock \in {"free", "taken", "read"}
    /\ hydrator \in Pods
    /\ listed \subseteq Runs
    /\ spent \in [Faults -> Nat]

Init ==
    /\ status = [r \in Runs |-> "none"]
    /\ count = [r \in Runs |-> 0]
    /\ cancel = {}
    /\ fatal = {}
    /\ mstate = [m \in Msgs |-> "absent"]
    /\ mcount = [m \in Msgs |-> 0]
    /\ pc = [j \in Jobs |-> "none"]
    /\ \E p \in Pods : pod = [j \in Jobs |-> p] /\ hydrator = p
    /\ tok = {}
    /\ beat = {}
    /\ out = [j \in Jobs |-> "none"]
    /\ save = [j \in Jobs |-> "none"]
    /\ report = [j \in Jobs |-> "none"]
    /\ resv = [r \in Runs |-> "none"]
    /\ dedupe = {}
    /\ charged = {}
    /\ ended = {}
    /\ drain = {}
    /\ stopped = {}
    /\ boot = Pods
    /\ lock = "free"
    /\ listed = {}
    /\ spent = [f \in Faults |-> 0]

-----------------------------------------------------------------------------
(* Helpers                                                                 *)

Spend(f) ==
    /\ spent[f] < Budget[f]
    /\ spent' = [spent EXCEPT ![f] = @ + 1]

Live(j) == pc[j] \notin {"none", "gone"}
\* Mutant of HasPermit: a job that returns never gives its permit back.
HasPermitLeaked(j) == pc[j] \notin {"none", "publish", "wait"}

HasPermit(j) == pc[j] \in {"count", "load", "reject", "refund", "lease",
                           "start", "gate", "turn", "finish", "ack"}
Permits(p) == Cardinality({j \in Jobs : HasPermit(j) /\ pod[j] = p})

Goto(j, p) == pc' = [pc EXCEPT ![j] = p]

\* The job returns: its permit is released, its token and result are dropped.
Return(j) ==
    /\ Goto(j, "gone")
    /\ tok' = tok \ {j}
    /\ out' = [out EXCEPT ![j] = "none"]

\* UPDATE ai.prompt_run SET status = s, without a condition on the old status.
StatusSet(r, s) ==
    /\ status' = [status EXCEPT ![r] = s]
    /\ ended' = IF s \in Terminal THEN ended \cup {r} ELSE ended
    /\ UNCHANGED <<count, cancel, fatal>>

\* UPDATE ai.billing_reservation SET status = 'refunded' WHERE status = 'held'.
Refund(r) == resv' = [resv EXCEPT ![r] = IF @ = "held" THEN "refunded" ELSE @]

\* A write whose error the caller drops with `let _ =`: nothing is written.
WriteLost == Spend("write")

-----------------------------------------------------------------------------
(* The submitting task: prompt_req_put in wire_ws/src/session.rs           *)

\* chat_ensure and prompt_run_insert; the row is 'queued', nothing published.
Submit(r, p) ==
    /\ status[r] = "none"
    /\ status' = [status EXCEPT ![r] = "queued"]
    /\ pc' = [pc EXCEPT ![Submitter(r)] = "publish"]
    /\ pod' = [pod EXCEPT ![Submitter(r)] = p]
    /\ UNCHANGED <<count, cancel, fatal, ended, msgVars, tok, beat, out, save, billVars, podVars, spent>>

\* Mutant of Publish: the return after a successful enqueue is missing.
PublishAndRun(j) ==
    /\ Inline(j) /\ pc[j] = "publish"
    /\ mstate' = [mstate EXCEPT ![MsgOf(j)] = "pending"]
    /\ Goto(j, "wait")
    /\ UNCHANGED <<rowVars, mcount, pod, tok, beat, out, save, billVars, podVars, spent>>

\* prompt_run_enqueue returns Ok and the task with it. js.publish is awaited
\* but the ack future it returns is dropped, so the stream may not have it.
Publish(j) ==
    /\ Inline(j) /\ pc[j] = "publish"
    /\ \/ mstate' = [mstate EXCEPT ![MsgOf(j)] = "pending"] /\ UNCHANGED spent
       \/ WriteLost /\ UNCHANGED mstate
    /\ Return(j)
    /\ UNCHANGED <<rowVars, mcount, pod, beat, save, billVars, podVars>>

\* prompt_run_enqueue fails before anything is sent; the task falls back to an
\* inline turn and waits for a permit.
PublishFail(j) ==
    /\ Inline(j) /\ pc[j] = "publish"
    /\ Spend("write")
    /\ Goto(j, "wait")
    /\ UNCHANGED <<rowVars, msgVars, pod, tok, beat, out, save, billVars, podVars>>

\* PromptAbort cancels the token of the connection's own flight at once...
AbortFlight(r) ==
    /\ Live(Submitter(r)) /\ Submitter(r) \notin tok
    /\ tok' = tok \cup {Submitter(r)}
    /\ UNCHANGED <<rowVars, msgVars, pc, pod, beat, out, save, billVars, podVars, spent>>

\* ... and, with a req_id, spawns prompt_run_cancel_request, which marks the
\* row if it is still active when the statement executes.
Abort(r) ==
    /\ status[r] \in {"queued", "running"}
    /\ r \notin cancel
    /\ cancel' = cancel \cup {r}
    /\ UNCHANGED <<status, count, fatal, ended, msgVars, jobVars, billVars, podVars, spent>>

-----------------------------------------------------------------------------
(* JetStream, modelled from how the code configures and uses it            *)

\* Mutant of Deliver: the consumer is created without max_deliver.
DeliverForever(m, p) ==
    /\ mstate[m] = "pending"
    /\ p \notin drain \cup stopped
    /\ mstate' = [mstate EXCEPT ![m] = "inflight"]
    /\ mcount' = [mcount EXCEPT ![m] = @ + 1]
    /\ pc' = [pc EXCEPT ![JobOf(m, mcount[m] + 1)] = "wait"]
    /\ pod' = [pod EXCEPT ![JobOf(m, mcount[m] + 1)] = p]
    /\ UNCHANGED <<rowVars, tok, beat, out, save, billVars, podVars, spent>>

\* A pull consumer hands a message to a pod whose loop still accepts jobs.
Deliver(m, p) ==
    /\ mstate[m] = "pending" /\ mcount[m] < MaxDeliver
    /\ p \notin drain \cup stopped
    /\ mstate' = [mstate EXCEPT ![m] = "inflight"]
    /\ mcount' = [mcount EXCEPT ![m] = @ + 1]
    /\ pc' = [pc EXCEPT ![JobOf(m, mcount[m] + 1)] = "wait"]
    /\ pod' = [pod EXCEPT ![JobOf(m, mcount[m] + 1)] = p]
    /\ UNCHANGED <<rowVars, tok, beat, out, save, billVars, podVars, spent>>

Holders(m) == {j \in Jobs : MsgOf(j) = m /\ ~Inline(j) /\ Live(j)}

\* ack_wait passes without an ack after every job of the message is gone.
AckWaitExpire(m) ==
    /\ mstate[m] = "inflight"
    /\ Holders(m) = {}
    /\ mstate' = [mstate EXCEPT ![m] = "pending"]
    /\ UNCHANGED <<rowVars, mcount, jobVars, billVars, podVars, spent>>

\* ack_wait passes while a job still lives but sends no heartbeat: before the
\* turn (waiting for a permit, slow SQL) or after it.
AckWaitStall(m) ==
    /\ mstate[m] = "inflight"
    /\ Holders(m) # {} /\ Holders(m) \cap beat = {}
    /\ Spend("stall")
    /\ mstate' = [mstate EXCEPT ![m] = "pending"]
    /\ UNCHANGED <<rowVars, mcount, jobVars, billVars, podVars>>

-----------------------------------------------------------------------------
(* The worker loop and process_prompt_job, prompt_run/worker.rs            *)

\* prompt_run_concurrency_acquire: the loop, or the inline task, gets a permit.
Acquire(j) ==
    /\ pc[j] = "wait"
    /\ Permits(pod[j]) < MaxConcurrent
    /\ Goto(j, IF Inline(j) THEN "start" ELSE "count")
    /\ UNCHANGED <<rowVars, msgVars, pod, tok, beat, out, save, billVars, podVars, spent>>

\* The loop has ended; a message it had buffered is dropped without ack.
DropBuffered(j) ==
    /\ ~Inline(j) /\ pc[j] = "wait" /\ pod[j] \in drain \cup stopped
    /\ Return(j)
    /\ UNCHANGED <<rowVars, msgVars, pod, beat, save, billVars, podVars, spent>>

\* prompt_run_delivery_inc.
DeliveryInc(j) ==
    /\ pc[j] = "count"
    /\ count' = [count EXCEPT ![Req(j)] = @ + 1]
    /\ Goto(j, "load")
    /\ UNCHANGED <<status, cancel, fatal, ended, msgVars, pod, tok, beat, out, save, billVars, podVars, spent>>

\* prompt_run_should_stop as the worker uses it: cancel_requested is reported
\* before a fatal checkpoint, and the worker goes on for "cancel".
ShouldStop(r) == r \in fatal /\ r \notin cancel

OverMaxDeliver(r) == count[r] > MaxDeliver

\* Mutant of LoadRow: a redelivery does not look at the status of the row.
LoadRowNoTerminal(j) ==
    /\ pc[j] = "load"
    /\ Goto(j, IF OverMaxDeliver(Req(j)) \/ ShouldStop(Req(j)) THEN "reject"
               ELSE "lease")
    /\ UNCHANGED <<rowVars, msgVars, pod, tok, beat, out, save, billVars, podVars, spent>>

\* Mutant of LoadRow: a stopped run is acked without being failed first.
LoadRowAckStopped(j) ==
    /\ pc[j] = "load"
    /\ Goto(j, IF status[Req(j)] \in Terminal \/ OverMaxDeliver(Req(j))
                   \/ ShouldStop(Req(j)) THEN "ack" ELSE "lease")
    /\ UNCHANGED <<rowVars, msgVars, pod, tok, beat, out, save, billVars, podVars, spent>>

\* prompt_run_get, the terminal test, the max_deliver test and should_stop.
LoadRow(j) ==
    /\ pc[j] = "load"
    /\ Goto(j, IF status[Req(j)] \in Terminal THEN "ack"
               ELSE IF OverMaxDeliver(Req(j)) \/ ShouldStop(Req(j)) THEN "reject"
               ELSE "lease")
    /\ UNCHANGED <<rowVars, msgVars, pod, tok, beat, out, save, billVars, podVars, spent>>

\* prompt_run_status_set(failed) of a run that must not be tried again.
Reject(j) ==
    /\ pc[j] = "reject"
    /\ \/ StatusSet(Req(j), "failed") /\ UNCHANGED spent
       \/ WriteLost /\ UNCHANGED rowVars
    /\ Goto(j, "refund")
    /\ UNCHANGED <<msgVars, pod, tok, beat, out, save, billVars, podVars>>

\* billing_reservation_refund of a rejected run, then the fanouts.
RejectRefund(j) ==
    /\ pc[j] = "refund"
    /\ \/ Refund(Req(j)) /\ UNCHANGED spent
       \/ WriteLost /\ UNCHANGED resv
    /\ Goto(j, "ack")
    /\ UNCHANGED <<rowVars, msgVars, pod, tok, beat, out, save, report, dedupe,
                   charged, podVars>>

\* prompt_run_lease_touch: takes the lease whoever holds it; queued -> running.
LeaseTouch(j) ==
    /\ pc[j] = "lease"
    /\ status' = [status EXCEPT ![Req(j)] = IF @ = "queued" THEN "running" ELSE @]
    /\ Goto(j, "start")
    /\ UNCHANGED <<count, cancel, fatal, ended, msgVars, pod, tok, beat, out, save, billVars, podVars, spent>>

\* prompt_run_status_set(running), on the strength of the row loaded before.
StartRun(j) ==
    /\ pc[j] = "start"
    /\ \/ StatusSet(Req(j), "running") /\ UNCHANGED spent
       \/ Inline(j) /\ WriteLost /\ UNCHANGED rowVars
    /\ Goto(j, "gate")
    /\ UNCHANGED <<msgVars, pod, tok, beat, out, save, billVars, podVars>>

\* A query before the turn fails: process_prompt_job returns without ack.
JobError(j) ==
    /\ pc[j] \in {"count", "load", "lease", "start"} /\ ~Inline(j)
    /\ Spend("write")
    /\ Return(j)
    /\ UNCHANGED <<rowVars, msgVars, pod, beat, save, billVars, podVars>>

\* billing_gate_with_hold admits the turn. A hold is inserted when allowance
\* does not cover it; ON CONFLICT (req_id) DO NOTHING keeps any older row.
\* The heartbeat and the cancel watch start here; an inline turn has neither.
GateOk(j) ==
    /\ pc[j] = "gate"
    /\ \/ resv' = [resv EXCEPT ![Req(j)] = IF @ = "none" THEN "held" ELSE @]
       \/ UNCHANGED resv
    /\ beat' = IF Inline(j) THEN beat ELSE beat \cup {j}
    /\ Goto(j, "turn")
    /\ UNCHANGED <<rowVars, msgVars, pod, tok, out, save, report, dedupe, charged,
                   podVars, spent>>

\* billing_resolve, billing_gate_scoped or billing_gate_with_hold refuses.
GateRefuse(j) ==
    /\ pc[j] = "gate"
    /\ out' = [out EXCEPT ![j] = IF Inline(j) THEN "err" ELSE "fail"]
    /\ Goto(j, "finish")
    /\ UNCHANGED <<rowVars, msgVars, pod, tok, beat, save, billVars, podVars, spent>>

\* The cancel watch polls cancel_requested every 150 ms.
CancelWatch(j) ==
    /\ pc[j] = "turn" /\ ~Inline(j)
    /\ Req(j) \in cancel /\ j \notin tok
    /\ tok' = tok \cup {j}
    /\ UNCHANGED <<rowVars, msgVars, pc, pod, beat, out, save, billVars, podVars, spent>>

\* on_hop: a fatal class cancels the token; checkpoint_save is only spawned.
Hop(j, class) ==
    /\ pc[j] = "turn" /\ ~Inline(j) /\ j \notin tok
    /\ save[j] = "none"
    /\ save' = [save EXCEPT ![j] = class]
    /\ tok' = IF class = "fatal" THEN tok \cup {j} ELSE tok
    /\ UNCHANGED <<rowVars, msgVars, pc, pod, beat, out, billVars, podVars, spent>>

\* The spawned prompt_run_checkpoint_save executes, maybe after the run ended.
CheckpointSave(j) ==
    /\ save[j] # "none"
    /\ fatal' = IF save[j] = "fatal" THEN fatal \cup {Req(j)} ELSE fatal \ {Req(j)}
    /\ save' = [save EXCEPT ![j] = "none"]
    /\ UNCHANGED <<status, count, cancel, ended, msgVars, pc, pod, tok, beat, out, billVars, podVars, spent>>

\* The heartbeat task ends on the first progress ack that fails.
HeartbeatFail(j) ==
    /\ j \in beat
    /\ Spend("stall")
    /\ beat' = beat \ {j}
    /\ UNCHANGED <<rowVars, msgVars, pc, pod, tok, out, save, billVars, podVars>>

\* prompt_turn returns Ok: the usage report is spawned, the reply persisted.
\* If persisting the reply fails, the report stays spawned and Err is returned.
\* A reply with an error text counts as failed when the turn is inline.
TurnOk(j) ==
    /\ pc[j] = "turn"
    /\ report' = [report EXCEPT ![j] = "gate"]
    /\ \/ out' = [out EXCEPT ![j] = "ok"] /\ UNCHANGED spent
       \/ Inline(j) /\ out' = [out EXCEPT ![j] = "fail"] /\ UNCHANGED spent
       \/ out' = [out EXCEPT ![j] = "err"] /\ Spend("write")
    /\ beat' = beat \ {j}
    /\ Goto(j, "finish")
    /\ UNCHANGED <<rowVars, msgVars, pod, tok, save, resv, dedupe, charged, podVars>>

\* prompt_turn returns Err: abort or failure of the cluster turn refunds the
\* hold; a query that fails earlier in prompt_turn returns without the refund.
TurnErr(j) ==
    /\ pc[j] = "turn"
    /\ \/ Refund(Req(j)) /\ UNCHANGED spent
       \/ WriteLost /\ UNCHANGED resv
    /\ out' = [out EXCEPT ![j] = "err"]
    /\ beat' = beat \ {j}
    /\ Goto(j, "finish")
    /\ UNCHANGED <<rowVars, msgVars, pod, tok, save, report, dedupe, charged, podVars>>

\* Mutant of DrainReturn: the draining job acks what it did not finish.
DrainAck(j) ==
    /\ pc[j] = "finish" /\ ~Inline(j) /\ out[j] # "fail"
    /\ pod[j] \in drain
    /\ mstate' = [mstate EXCEPT ![MsgOf(j)] = "acked"]
    /\ Return(j)
    /\ UNCHANGED <<rowVars, mcount, pod, beat, save, billVars, podVars, spent>>

\* The pod drains: the job returns with neither finish nor ack.
DrainReturn(j) ==
    /\ pc[j] = "finish" /\ ~Inline(j) /\ out[j] # "fail"
    /\ pod[j] \in drain
    /\ Return(j)
    /\ UNCHANGED <<rowVars, msgVars, pod, beat, save, billVars, podVars, spent>>

\* The status the worker derives from the turn's result, the token and, for a
\* cancelled token, the checkpoint it reads back.
FinalStatus(j) ==
    CASE out[j] = "ok" -> "done"
      [] out[j] = "err" /\ j \in tok /\ (Inline(j) \/ Req(j) \notin fatal) -> "cancelled"
      [] OTHER -> "failed"

\* prompt_run_finish, then the fanouts.
Finish(j) ==
    /\ pc[j] = "finish"
    /\ Inline(j) \/ out[j] = "fail" \/ pod[j] \notin drain
    /\ \/ StatusSet(Req(j), FinalStatus(j)) /\ UNCHANGED spent
       \/ WriteLost /\ UNCHANGED rowVars
    /\ IF Inline(j) THEN Return(j) ELSE Goto(j, "ack") /\ UNCHANGED <<tok, out>>
    /\ UNCHANGED <<msgVars, pod, beat, save, billVars, podVars>>

\* msg.ack: removes the message from the work queue, whichever delivery acks.
Ack(j) ==
    /\ pc[j] = "ack"
    /\ \/ mstate' = [mstate EXCEPT ![MsgOf(j)] = "acked"] /\ UNCHANGED spent
       \/ WriteLost /\ UNCHANGED mstate
    /\ Return(j)
    /\ UNCHANGED <<rowVars, mcount, pod, beat, save, billVars, podVars>>

-----------------------------------------------------------------------------
(* The background usage report of a finished turn, mod_billing             *)

\* Mutant of ReportDedupe: rows_affected of the dedupe insert is not looked at.
ReportAlways(j) ==
    /\ report[j] = "gate"
    /\ report' = [report EXCEPT ![j] = "won"]
    /\ dedupe' = dedupe \cup {Req(j)}
    /\ UNCHANGED <<rowVars, msgVars, jobVars, resv, charged, podVars, spent>>

\* The report gates once more, logs and inserts the dedupe row; the first
\* report of a req_id wins, a later one returns before the settle.
ReportDedupe(j) ==
    /\ report[j] = "gate"
    /\ report' = [report EXCEPT ![j] = IF Req(j) \in dedupe THEN "none" ELSE "won"]
    /\ dedupe' = dedupe \cup {Req(j)}
    /\ UNCHANGED <<rowVars, msgVars, jobVars, resv, charged, podVars, spent>>

\* The gate refuses, or the cost is zero: the report ends without a settle.
ReportNothing(j) ==
    /\ report[j] = "gate"
    /\ report' = [report EXCEPT ![j] = "none"]
    /\ UNCHANGED <<rowVars, msgVars, jobVars, resv, dedupe, charged, podVars, spent>>

\* Rings and wallet are debited.
ReportDeduct(j) ==
    /\ report[j] = "won"
    /\ report' = [report EXCEPT ![j] = "deducted"]
    /\ charged' = charged \cup {j}
    /\ UNCHANGED <<rowVars, msgVars, jobVars, resv, dedupe, podVars, spent>>

\* Mutant of ReportFreemium: a turn that was not debited settles its hold.
ReportFreemiumSettles(j) ==
    /\ report[j] = "won"
    /\ report' = [report EXCEPT ![j] = "none"]
    /\ resv' = [resv EXCEPT ![Req(j)] = IF @ = "held" THEN "settled" ELSE @]
    /\ UNCHANGED <<rowVars, msgVars, jobVars, dedupe, charged, podVars, spent>>

\* A freemium owner is not debited; billing_reservation_settle(0) refunds.
ReportFreemium(j) ==
    /\ report[j] = "won"
    /\ report' = [report EXCEPT ![j] = "none"]
    /\ Refund(Req(j))
    /\ UNCHANGED <<rowVars, msgVars, jobVars, dedupe, charged, podVars, spent>>

\* billing_reservation_settle: held -> settled, any other status is kept.
ReportSettle(j) ==
    /\ report[j] = "deducted"
    /\ report' = [report EXCEPT ![j] = "none"]
    /\ resv' = [resv EXCEPT ![Req(j)] = IF @ = "held" THEN "settled" ELSE @]
    /\ UNCHANGED <<rowVars, msgVars, jobVars, dedupe, charged, podVars, spent>>

-----------------------------------------------------------------------------
(* Pods: drain, exit, crash, hydrate                                       *)

\* PromptRunWorker::drain on SIGTERM.
Drain(p) ==
    /\ p \notin drain
    /\ Spend("crash")
    /\ drain' = drain \cup {p}
    /\ UNCHANGED <<rowVars, msgVars, jobVars, billVars, stopped, hydVars>>

\* The message stream ends or yields an error: the loop returns, the server
\* goes on without it and so do the jobs already spawned.
WorkerStop(p) ==
    /\ p \notin drain \cup stopped
    /\ Spend("stop")
    /\ stopped' = stopped \cup {p}
    /\ UNCHANGED <<rowVars, msgVars, jobVars, billVars, drain, hydVars>>

\* The process dies with its tasks; the pod that replaces it hydrates on boot.
Die(p) ==
    /\ pc' = [j \in Jobs |-> IF pod[j] = p /\ Live(j) THEN "gone" ELSE pc[j]]
    /\ beat' = {j \in beat : pod[j] # p}
    /\ save' = [j \in Jobs |-> IF pod[j] = p THEN "none" ELSE save[j]]
    /\ report' = [j \in Jobs |-> IF pod[j] = p THEN "none" ELSE report[j]]
    /\ tok' = {j \in tok : pod[j] # p}
    /\ out' = [j \in Jobs |-> IF pod[j] = p THEN "none" ELSE out[j]]
    /\ drain' = drain \ {p}
    /\ stopped' = stopped \ {p}
    /\ boot' = boot \cup {p}
    /\ lock' = IF hydrator = p THEN "free" ELSE lock
    /\ listed' = IF hydrator = p THEN {} ELSE listed
    /\ UNCHANGED <<rowVars, msgVars, pod, resv, dedupe, charged, hydrator>>

Crash(p) == p \notin drain /\ Spend("crash") /\ Die(p)

\* The end of a drained process.
Exit(p) == p \in drain /\ Die(p) /\ UNCHANGED spent

\* nats_supervise_reconnect calls nats_post_connect again.
Reconnect(p) ==
    /\ p \notin boot
    /\ Spend("reconnect")
    /\ boot' = boot \cup {p}
    /\ UNCHANGED <<rowVars, msgVars, jobVars, billVars, drain, stopped, lock,
                   hydrator, listed>>

\* pg_try_advisory_lock: a pod that does not get the lock skips its hydrate.
HydrateLock(p) ==
    /\ p \in boot
    /\ boot' = boot \ {p}
    /\ IF lock = "free" THEN lock' = "taken" /\ hydrator' = p
                        ELSE UNCHANGED <<lock, hydrator>>
    /\ UNCHANGED <<rowVars, msgVars, jobVars, billVars, drain, stopped, listed, spent>>

\* prompt_run_list_queued, after the schedules have been hydrated.
HydrateList ==
    /\ lock = "taken"
    /\ lock' = "read"
    /\ listed' = {r \in Runs : status[r] = "queued"}
    /\ UNCHANGED <<rowVars, msgVars, jobVars, billVars, drain, stopped, boot,
                   hydrator, spent>>

\* One publish of prompt_run_hydrate_replay, with Nats-Msg-Id = req_id. The
\* stream drops it when it holds an earlier replay in its duplicate window;
\* the original publish has no id and is never matched.
HydratePublish(r) ==
    /\ r \in listed
    /\ listed' = listed \ {r}
    /\ \/ \E c \in 1..MaxReplay :
             /\ mstate[<<r, c>>] = "absent"
             /\ \A b \in 1..(c - 1) : mstate[<<r, b>>] # "absent"
             /\ mstate' = [mstate EXCEPT ![<<r, c>>] = "pending"]
       \/ /\ MaxReplay > 0 => mstate[<<r, 1>>] # "absent"
          /\ UNCHANGED mstate
    /\ UNCHANGED <<rowVars, mcount, jobVars, billVars, drain, stopped, boot, lock,
                   hydrator, spent>>

\* The replay ends, or its first failing publish ends it, and the lock is
\* released.
HydrateEnd ==
    /\ lock = "read"
    /\ \/ listed = {} /\ UNCHANGED spent
       \/ listed # {} /\ WriteLost
    /\ lock' = "free"
    /\ listed' = {}
    /\ UNCHANGED <<rowVars, msgVars, jobVars, billVars, drain, stopped, boot, hydrator>>

-----------------------------------------------------------------------------
JobStep(j) ==
    \/ Publish(j) \/ Acquire(j) \/ DropBuffered(j) \/ DeliveryInc(j)
    \/ LoadRow(j) \/ Reject(j) \/ RejectRefund(j) \/ LeaseTouch(j)
    \/ StartRun(j) \/ GateOk(j) \/ GateRefuse(j) \/ TurnOk(j) \/ TurnErr(j)
    \/ DrainReturn(j) \/ Finish(j) \/ Ack(j)

ReportStep(j) ==
    \/ ReportDedupe(j) \/ ReportNothing(j) \/ ReportDeduct(j)
    \/ ReportFreemium(j) \/ ReportSettle(j)

Next ==
    \/ \E r \in Runs : \/ AbortFlight(r) \/ Abort(r) \/ HydratePublish(r)
                       \/ \E p \in Pods : Submit(r, p)
    \/ \E m \in Msgs : \/ AckWaitExpire(m) \/ AckWaitStall(m)
                       \/ \E p \in Pods : Deliver(m, p)
    \/ \E j \in Jobs : \/ JobStep(j) \/ ReportStep(j) \/ PublishFail(j)
                       \/ JobError(j) \/ CancelWatch(j) \/ CheckpointSave(j)
                       \/ HeartbeatFail(j)
                       \/ \E class \in {"clean", "fatal"} : Hop(j, class)
    \/ \E p \in Pods : \/ Drain(p) \/ WorkerStop(p) \/ Crash(p) \/ Exit(p)
                       \/ Reconnect(p) \/ HydrateLock(p)
    \/ HydrateList
    \/ HydrateEnd

Spec == Init /\ [][Next]_vars

\* Tasks are scheduled by tokio, messages redelivered by JetStream, spawned
\* saves and reports executed and drained processes ended: each of these
\* happens eventually. Faults, submissions, aborts and hops need not.
Fairness ==
    /\ \A j \in Jobs : /\ WF_vars(JobStep(j)) /\ WF_vars(ReportStep(j))
                       /\ WF_vars(CheckpointSave(j))
    /\ \A m \in Msgs : /\ WF_vars(AckWaitExpire(m))
                       /\ WF_vars(\E p \in Pods : Deliver(m, p))
    /\ \A p \in Pods : WF_vars(Exit(p)) /\ WF_vars(HydrateLock(p))
    /\ WF_vars(HydrateList) /\ WF_vars(HydrateEnd)
    /\ \A r \in Runs : WF_vars(HydratePublish(r))

FairSpec == Spec /\ Fairness

-----------------------------------------------------------------------------
(* Properties                                                              *)

Active(r) == status[r] \in {"queued", "running"}

\* However often a run is redelivered, replayed and executed, by jobs that may
\* overlap, its owner's rings and wallet are debited by at most one of them:
\* the dedupe row of billing_usage_report decides before any debit.
ChargedAtMostOnce ==
    \A i, j \in charged : Req(i) = Req(j) => i = j

\* A reservation is 'settled' only for a run that was debited: no refund by a
\* failing duplicate, freemium settle or lost report turns a hold into income.
SettledIsPaid ==
    \A r \in Runs : resv[r] = "settled" => \E j \in charged : Req(j) = r

\* A message leaves the work queue only after its run has been recorded as
\* ended, unless a finishing write was lost: whatever combination of jobs,
\* drains and crashes, the worker never acks work nobody completed.
AckedRunEnded ==
    \A m \in Msgs : mstate[m] = "acked" => m[1] \in ended \/ spent["write"] > 0

\* Two jobs never execute the turn of one run at the same time.
OneTurnAtATime ==
    \A i, j \in Jobs : pc[i] = "turn" /\ pc[j] = "turn" /\ Req(i) = Req(j) => i = j

\* A run recorded as ended is never set back to running or given another end.
TerminalIsFinal ==
    [][\A r \in Runs : status[r] \in Terminal
                          => status'[r] = status[r]]_vars

\* The same run as its owner sees it: whether the row is open is all that is
\* left of the status, of a job whether it is in its turn, of its report whether
\* it may still debit.
Phase == [r \in Runs |-> IF status[r] \in {"queued", "running"} THEN "open" ELSE status[r]]
Turns == {j \in Jobs : pc[j] = "turn"}
Reports == {j \in Jobs : report[j] # "none"}

Abstract == INSTANCE RunSpec WITH
    Of <- [j \in Jobs |-> Req(j)],
    phase <- Phase,
    hold <- resv,
    work <- Turns,
    owing <- Reports,
    paid <- charged

\* A run is executed only while it is open and by one job at a time, ends once,
\* is charged once and by a job that has answered, and is held only when a turn
\* begins: every step of pods, worker, JetStream and reports is one of RunSpec.
ImplementsRun == Abstract!RSpec

\* Crash recovery: an active run always has somebody left to finish it: a job,
\* a message JetStream will still deliver, or, while queued, a due hydrate.
NothingForgotten ==
    \A r \in Runs : Active(r) =>
        \/ \E j \in Jobs : Req(j) = r /\ Live(j)
        \/ \E m \in Msgs : /\ m[1] = r /\ mcount[m] < MaxDeliver
                            /\ mstate[m] \in {"pending", "inflight"}
        \/ status[r] = "queued" /\ (boot # {} \/ lock = "taken" \/ r \in listed)

\* The same for a run that is already 'running', which no hydrate replays.
RunningIsRecovered ==
    \A r \in Runs : status[r] = "running" =>
        \/ \E j \in Jobs : Req(j) = r /\ Live(j)
        \/ \E m \in Msgs : /\ m[1] = r /\ mcount[m] < MaxDeliver
                            /\ mstate[m] \in {"pending", "inflight"}

\* Once a run has ended and nothing of it is left to execute, its hold has
\* been settled or refunded.
HoldReleased ==
    \A r \in Runs :
        /\ status[r] \in Terminal
        /\ \A j \in Jobs : Req(j) = r => ~Live(j) /\ report[j] = "none"
        => resv[r] # "held"

\* A run that was admitted with a hold keeps it (or has been paid) for as long
\* as a turn of it executes.
HoldCoversTurn ==
    \A j \in Jobs : pc[j] = "turn" => resv[Req(j)] # "refunded"

\* Every submitted run ends, and stays ended.
EveryRunEnds ==
    \A r \in Runs : status[r] # "none" ~> [](status[r] \in Terminal)
=============================================================================
