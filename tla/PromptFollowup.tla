--------------------------- MODULE PromptFollowup ---------------------------
(***************************************************************************)
(* Follow-ups of one chat: messages the user, or a channel, sends while a  *)
(* run is active.  A steer is drained into the running turn between two    *)
(* rounds of the tool loop, a queued message becomes a run of its own      *)
(* after the turn.  The rows are in ai.prompt_followup.                    *)
(*                                                                         *)
(* The statements of prompt_followup_put, of prompt_followup_drain_steers  *)
(* and of prompt_followup_start_next_queued run outside any transaction,   *)
(* so each of them is an action.  A run has one executor at a time; how    *)
(* that executor is dispatched, retried and billed is in PromptRun.        *)
(***************************************************************************)
EXTENDS Integers, Sequences, FiniteSets

CONSTANTS
    Followups,  \* messages that may be sent as follow-ups
    Ask,        \* how each is sent: as a steer, to the queue, or by a channel
    QueueMax,   \* FollowupCaps.queue_max of the owner's plan
    SteerMax,   \* FollowupCaps.steer_max of the owner's plan
    MaxPuts,    \* bound: requests the client keeps in flight at once
    MaxRuns,    \* bound: runs of the chat
    Budget,     \* bound: how often each kind of event may happen, and any
    NoFollowup

Events == {"crash", "write", "abort", "submit", "lost", "any"}
Kinds == {"steer", "queue"}

ASSUME FollowupsAssumption == IsFiniteSet(Followups) /\ NoFollowup \notin Followups
ASSUME AskAssumption == Ask \in [Followups -> Kinds \cup {"channel"}]
ASSUME CapAssumption == QueueMax \in Nat /\ SteerMax \in Nat
ASSUME BoundAssumption == MaxPuts \in Nat \ {0} /\ MaxRuns \in Nat \ {0}
ASSUME BudgetAssumption == Budget \in [Events -> Nat]

Runs == 1..MaxRuns
Active == {"queued", "running"}
RunStatus == {"none", "done", "failed", "cancelled"} \cup Active

\* Program points of a put, in the order prompt_followup_put reaches them.
PutPC == {"none", "check", "seq", "insert", "accepted", "rejected"}

\* Program points of a run's executor: the tool loop with its drain, then
\* prompt_followup_start_next_queued.
ExecPC == {"idle", "round", "steer", "mark", "count", "llm",
           "next", "deliver", "msg", "run", "over"}

VARIABLES
    run,     \* ai.prompt_run.status of each run; "none" before the insert
    used,    \* ai.prompt_run.steer_delivered_count
    row,     \* ai.prompt_followup.status; "none" before the insert
    req,     \* req_id of each follow-up, 0 before its put resolves one
    kind,    \* kind of each follow-up
    seq,     \* seq of each follow-up
    chat,    \* follow-ups inserted into ai.chat_msg, in order
    put,     \* program point of each put
    earlier, \* history: follow-ups of the run that were in before a put began
    ex,      \* program point of each run's executor
    todo,    \* rows an executor's drain has read and not yet handled
    cur,     \* the row an executor is handling
    aborts,  \* runs whose abort has not yet reached its follow-ups
    left     \* remaining budget of each kind of event

vars == <<run, used, row, req, kind, seq, chat, put, earlier, ex, todo, cur,
          aborts, left>>
putVars == <<req, kind, put, earlier>>
execVars == <<ex, todo, cur>>

Pending(r, k) == {f \in Followups : row[f] = "pending" /\ req[f] = r /\ kind[f] = k}
InFlight == {f \in Followups : put[f] \in {"check", "seq", "insert"}}
\* Mutant of IsFirst: ORDER BY seq DESC.
IsLast(f, S) == f \in S /\ \A g \in S : seq[f] >= seq[g]

\* ORDER BY seq ASC: the row of S that is read first.
IsFirst(f, S) == f \in S /\ \A g \in S : seq[f] <= seq[g]
InChat(f) == \E i \in DOMAIN chat : chat[i] = f
Unborn == {r \in Runs : run[r] = "none"}
ActiveRuns == {r \in Runs : run[r] \in Active}
Spend(e) ==
    /\ left[e] > 0 /\ left["any"] > 0
    /\ left' = [left EXCEPT ![e] = @ - 1, !["any"] = @ - 1]

Init ==
    /\ run = [r \in Runs |-> IF r = 1 THEN "queued" ELSE "none"]
    /\ used = [r \in Runs |-> 0]
    /\ aborts = {}
    /\ row = [f \in Followups |-> "none"]
    /\ req = [f \in Followups |-> 0]
    /\ kind = [f \in Followups |-> IF Ask[f] = "queue" THEN "queue" ELSE "steer"]
    /\ seq = [f \in Followups |-> 0]
    /\ chat = <<>>
    /\ put = [f \in Followups |-> "none"]
    /\ earlier = [f \in Followups |-> {}]
    /\ ex = [r \in Runs |-> "idle"]
    /\ todo = [r \in Runs |-> {}]
    /\ cur = [r \in Runs |-> NoFollowup]
    /\ left = Budget

(***************************************************************************)
(* Putting and cancelling follow-ups.                                      *)
(***************************************************************************)

\* A run is inserted with the next snowflake, so the newest has the largest
\* number.
InsertRun == \E n \in Unborn :
    /\ \A m \in Unborn : n <= m
    /\ run' = [run EXCEPT ![n] = "queued"]

\* The app names the run it believes to be active, which may have ended;
\* a channel, or an app that names none, gets the newest active run.
PutReq(f) == \E r \in Runs \ Unborn :
    /\ put[f] = "none" /\ Cardinality(InFlight) < MaxPuts
    /\ Ask[f] = "channel" => r \in ActiveRuns /\ \A s \in ActiveRuns : s <= r
    /\ req' = [req EXCEPT ![f] = r]
    /\ put' = [put EXCEPT ![f] = "check"]
    /\ earlier' = [earlier EXCEPT ![f] =
                     {g \in Followups : put[g] = "accepted" /\ req[g] = r}]
    /\ UNCHANGED <<run, used, row, kind, seq, chat, execVars, aborts, left>>

\* Mutant of PutAdmits: one row too many.
PutAdmitsOneMore(f) ==
    LET n == Cardinality(Pending(req[f], kind[f]))
    IN  IF kind[f] = "queue" THEN n <= QueueMax ELSE used[req[f]] + n < SteerMax

PutAdmits(f) ==
    LET n == Cardinality(Pending(req[f], kind[f]))
    IN  IF kind[f] = "queue" THEN n < QueueMax ELSE used[req[f]] + n < SteerMax

\* A steer of a channel that is rejected, or that errs, is put once more, as
\* a message of the queue.
PutRefused(f) ==
    IF Ask[f] = "channel" /\ kind[f] = "steer"
    THEN kind' = [kind EXCEPT ![f] = "queue"] /\ put' = [put EXCEPT ![f] = "check"]
    ELSE put' = [put EXCEPT ![f] = "rejected"] /\ UNCHANGED kind

PutCheck(f) ==
    /\ put[f] = "check"
    /\ IF PutAdmits(f)
       THEN put' = [put EXCEPT ![f] = "seq"] /\ UNCHANGED kind
       ELSE PutRefused(f)
    /\ UNCHANGED <<run, used, row, req, seq, chat, earlier, execVars, aborts, left>>

\* MAX(seq) + 1 over the rows of the run, whatever their status.
IsNextSeq(n, S) ==
    /\ \A g \in S : seq[g] < n
    /\ n = 1 \/ \E g \in S : seq[g] = n - 1

PutSeq(f) == \E n \in 1..(Cardinality(Followups) + 1) :
    /\ put[f] = "seq"
    /\ IsNextSeq(n, {g \in Followups : row[g] # "none" /\ req[g] = req[f]})
    /\ seq' = [seq EXCEPT ![f] = n]
    /\ put' = [put EXCEPT ![f] = "insert"]
    /\ UNCHANGED <<run, used, row, req, kind, chat, earlier, execVars, aborts, left>>

PutInsert(f) ==
    /\ put[f] = "insert"
    /\ row' = [row EXCEPT ![f] = "pending"]
    /\ put' = [put EXCEPT ![f] = "accepted"]
    /\ UNCHANGED <<run, used, req, kind, seq, chat, earlier, execVars, aborts, left>>

\* A statement of prompt_followup_put fails: the put ends with an error.
PutFail(f) ==
    /\ f \in InFlight /\ Spend("write")
    /\ PutRefused(f)
    /\ UNCHANGED <<run, used, row, req, seq, chat, earlier, execVars, aborts>>

\* prompt_followup_cancel: only a pending row of the queue.
Cancel(f) ==
    /\ row[f] = "pending" /\ kind[f] = "queue"
    /\ row' = [row EXCEPT ![f] = "cancelled"]
    /\ UNCHANGED <<run, used, seq, chat, putVars, execVars, aborts, left>>

\* ReqPromptAbort: first cancel_requested of the run, which a turn notices at
\* a time of its own (TurnErr), in a later statement its follow-ups.
AbortRun(r) ==
    /\ run[r] # "none" /\ Spend("abort")
    /\ aborts' = aborts \cup {r}
    /\ UNCHANGED <<run, used, row, seq, chat, putVars, execVars>>

AbortFollowups(r) ==
    /\ r \in aborts
    /\ aborts' = aborts \ {r}
    /\ row' = [f \in Followups |->
                 IF req[f] = r /\ row[f] = "pending" THEN "cancelled" ELSE row[f]]
    /\ UNCHANGED <<run, used, seq, chat, putVars, execVars, left>>

\* ReqPrompt: the client sends one when it sees no active run; the server
\* inserts it without a look at the other runs of the chat.
Submit ==
    /\ ActiveRuns = {} /\ Spend("submit")
    /\ InsertRun
    /\ UNCHANGED <<used, row, seq, chat, putVars, execVars, aborts>>

(***************************************************************************)
(* The executor of a run.                                                  *)
(***************************************************************************)
At(r, p) == ex[r] = p
Go(r, p) == ex' = [ex EXCEPT ![r] = p]

\* A run that is not terminal is executed, cancel_requested or not.
Take(r) ==
    /\ At(r, "idle") /\ run[r] \in Active
    /\ run' = [run EXCEPT ![r] = "running"] /\ Go(r, "round")
    /\ UNCHANGED <<used, row, seq, chat, putVars, todo, cur, aborts, left>>

\* Mutant of DrainRead: the rows are marked delivered as they are read.
DrainReadMarks(r) ==
    /\ At(r, "round")
    /\ todo' = [todo EXCEPT ![r] = Pending(r, "steer")]
    /\ row' = [f \in Followups |-> IF f \in Pending(r, "steer") THEN "delivered" ELSE row[f]]
    /\ Go(r, IF Pending(r, "steer") = {} THEN "llm" ELSE "steer")
    /\ UNCHANGED <<run, used, seq, chat, putVars, cur, aborts, left>>

\* SELECT ... FOR UPDATE outside a transaction: the locks end with the read.
DrainRead(r) ==
    /\ At(r, "round")
    /\ todo' = [todo EXCEPT ![r] = Pending(r, "steer")]
    /\ Go(r, IF Pending(r, "steer") = {} THEN "llm" ELSE "steer")
    /\ UNCHANGED <<run, used, row, seq, chat, putVars, cur, aborts, left>>

DrainInsert(r) == \E f \in todo[r] :
    /\ At(r, "steer") /\ IsFirst(f, todo[r])
    /\ chat' = Append(chat, f)
    /\ cur' = [cur EXCEPT ![r] = f]
    /\ Go(r, "mark")
    /\ UNCHANGED <<run, used, row, seq, putVars, todo, aborts, left>>

DrainMark(r) ==
    /\ At(r, "mark")
    /\ row' = [row EXCEPT ![cur[r]] = "delivered"]
    /\ Go(r, "count")
    /\ UNCHANGED <<run, used, seq, chat, putVars, todo, cur, aborts, left>>

DrainCount(r) ==
    /\ At(r, "count")
    /\ used' = [used EXCEPT ![r] = @ + 1]
    /\ todo' = [todo EXCEPT ![r] = @ \ {cur[r]}]
    /\ cur' = [cur EXCEPT ![r] = NoFollowup]
    /\ Go(r, IF todo[r] = {cur[r]} THEN "llm" ELSE "steer")
    /\ UNCHANGED <<run, row, seq, chat, putVars, aborts, left>>

\* A statement of the drain fails: the rest is skipped, the turn goes on.
DrainFail(r) ==
    /\ ex[r] \in {"round", "steer", "mark", "count"} /\ Spend("write")
    /\ todo' = [todo EXCEPT ![r] = {}]
    /\ cur' = [cur EXCEPT ![r] = NoFollowup]
    /\ Go(r, "llm")
    /\ UNCHANGED <<run, used, row, seq, chat, putVars, aborts>>

\* The model has called tools: another round.
NextRound(r) ==
    /\ At(r, "llm") /\ Go(r, "round")
    /\ UNCHANGED <<run, used, row, seq, chat, putVars, todo, cur, aborts, left>>

\* prompt_run_finish: its result is dropped, so the write may be lost.
Finish(r, s) ==
    \/ run' = [run EXCEPT ![r] = s] /\ UNCHANGED left
    \/ Spend("lost") /\ UNCHANGED run

\* Mutant of TurnOk: the queue is served before the run is finished.
TurnOkUnfinished(r) == \E s \in {"done", "failed"} :
    /\ At(r, "llm") /\ Go(r, "next")
    /\ UNCHANGED <<run, used, row, seq, chat, putVars, todo, cur, aborts, left>>

\* A turn that returned Ok; an inline turn that carries an error text is
\* recorded as failed, and its queue is served all the same.
TurnOk(r) == \E s \in {"done", "failed"} :
    /\ At(r, "llm") /\ Go(r, "next")
    /\ Finish(r, s)
    /\ UNCHANGED <<used, row, seq, chat, putVars, todo, cur, aborts>>

\* A turn that returned Err, or was aborted by the user or by its automation:
\* no follow-up is started.
TurnErr(r) == \E s \in {"failed", "cancelled"} :
    /\ ex[r] \in {"round", "llm"} /\ Go(r, "over")
    /\ Finish(r, s)
    /\ UNCHANGED <<used, row, seq, chat, putVars, todo, cur, aborts>>

\* Mutant of NextRead: an empty queue is not noticed.
NextReadUnchecked(r) ==
    /\ At(r, "next")
    /\ \/ \E f \in Pending(r, "queue") : cur' = [cur EXCEPT ![r] = f]
       \/ Pending(r, "queue") = {} /\ UNCHANGED cur
    /\ Go(r, "deliver")
    /\ UNCHANGED <<run, used, row, seq, chat, putVars, todo, aborts, left>>

\* prompt_followup_next_queued of the finished run.
NextRead(r) ==
    /\ At(r, "next")
    /\ IF Pending(r, "queue") = {}
       THEN Go(r, "over") /\ UNCHANGED cur
       ELSE \E f \in Pending(r, "queue") :
              /\ IsFirst(f, Pending(r, "queue"))
              /\ cur' = [cur EXCEPT ![r] = f]
              /\ Go(r, "deliver")
    /\ UNCHANGED <<run, used, row, seq, chat, putVars, todo, aborts, left>>

NextMark(r) ==
    /\ At(r, "deliver")
    /\ row' = [row EXCEPT ![cur[r]] = "delivered"]
    /\ Go(r, "msg")
    /\ UNCHANGED <<run, used, seq, chat, putVars, todo, cur, aborts, left>>

NextMsg(r) ==
    /\ At(r, "msg")
    /\ chat' = Append(chat, cur[r])
    /\ Go(r, "run")
    /\ UNCHANGED <<run, used, row, seq, putVars, todo, cur, aborts, left>>

NextRun(r) ==
    /\ At(r, "run")
    /\ InsertRun
    /\ cur' = [cur EXCEPT ![r] = NoFollowup]
    /\ Go(r, "over")
    /\ UNCHANGED <<used, row, seq, chat, putVars, todo, aborts, left>>

\* A statement of prompt_followup_start_next_queued fails: it is logged.
NextFail(r) ==
    /\ ex[r] \in {"next", "deliver", "msg", "run"} /\ Spend("write")
    /\ cur' = [cur EXCEPT ![r] = NoFollowup]
    /\ Go(r, "over")
    /\ UNCHANGED <<run, used, row, seq, chat, putVars, todo, aborts>>

\* The pod dies.  A run that is not terminal is delivered again, or replayed
\* when its message was acked already (Take); the message of one that is, is
\* acked and nothing else is done for it.
Crash(r) ==
    /\ ex[r] # "idle" /\ Spend("crash")
    /\ At(r, "over") => run[r] \in Active
    /\ todo' = [todo EXCEPT ![r] = {}]
    /\ cur' = [cur EXCEPT ![r] = NoFollowup]
    /\ Go(r, "idle")
    /\ UNCHANGED <<run, used, row, seq, chat, putVars, aborts>>

Exec(r) ==
    \/ Take(r) \/ DrainRead(r) \/ DrainInsert(r) \/ DrainMark(r) \/ DrainCount(r)
    \/ TurnOk(r) \/ TurnErr(r)
    \/ NextRead(r) \/ NextMark(r) \/ NextMsg(r) \/ NextRun(r)

Next ==
    \/ \E f \in Followups :
         \/ PutReq(f) \/ PutCheck(f) \/ PutSeq(f) \/ PutInsert(f) \/ PutFail(f)
         \/ Cancel(f)
    \/ Submit
    \/ \E r \in Runs :
         \/ AbortRun(r) \/ AbortFollowups(r)
         \/ Exec(r) \/ NextRound(r) \/ DrainFail(r) \/ NextFail(r) \/ Crash(r)

\* A turn has at most rounds_max rounds, and an executor that is alive, or
\* replaced by redelivery, takes its next step.
Fairness == \A r \in Runs : WF_vars(Exec(r)) /\ SF_vars(TurnOk(r) \/ TurnErr(r))

Spec == Init /\ [][Next]_vars
FairSpec == Spec /\ Fairness

(***************************************************************************)
(* Properties.                                                             *)
(***************************************************************************)

\* Every variable has its type; a drain marks only a row it has read, and a
\* run is started only for a row.
TypeOK ==
    /\ run \in [Runs -> RunStatus]
    /\ used \in [Runs -> Nat]
    /\ aborts \subseteq Runs
    /\ row \in [Followups -> {"none", "pending", "delivered", "cancelled"}]
    /\ req \in [Followups -> Runs \cup {0}]
    /\ kind \in [Followups -> Kinds]
    /\ seq \in [Followups -> Nat]
    /\ chat \in Seq(Followups)
    /\ put \in [Followups -> PutPC]
    /\ earlier \in [Followups -> SUBSET Followups]
    /\ ex \in [Runs -> ExecPC]
    /\ todo \in [Runs -> SUBSET Followups]
    /\ cur \in [Runs -> Followups \cup {NoFollowup}]
    /\ left \in [Events -> Nat]
    /\ \A r \in Runs :
         /\ ex[r] \in {"mark", "count"} => cur[r] \in todo[r]
         /\ ex[r] \in {"deliver", "msg", "run"} => cur[r] \in Followups

\* The pending queue of a run exceeds queue_max by no more than the puts
\* that overlap: the count is read three statements before the insert.  A
\* client that waits for each answer never exceeds it.
QueueWithinCap == \A r \in Runs :
    Cardinality(Pending(r, "queue")) <= QueueMax + MaxPuts - 1

\* A steer that is marked delivered is in the transcript, wherever the drain
\* died: drain_steers inserts the message before it marks the row.
SteerReachesChat == \A f \in Followups :
    row[f] = "delivered" /\ kind[f] = "steer" => InChat(f)

\* Follow-ups of one kind reach the transcript in the order they were sent: one
\* that was in before the put of another began comes first, although seq is
\* read before the insert, across rounds and across executions that repeat a
\* drain.
TranscriptInOrder == \A i, j \in DOMAIN chat :
    i < j /\ req[chat[i]] = req[chat[j]] /\ kind[chat[i]] = kind[chat[j]]
        => chat[j] \notin earlier[chat[i]]

\* There is at most one active turn of the chat.
OneActiveTurn == Cardinality(ActiveRuns) <= 1

\* The queue is served only after the turn before it has ended: as long as no
\* prompt is sent past the queue and no finishing write is lost, the chat has
\* one active turn, whatever dies, fails or is aborted.
ServedInTurn ==
    left["submit"] = Budget["submit"] /\ left["lost"] = Budget["lost"] => OneActiveTurn

\* A run receives no more steers than the plan allows.
SteersWithinCap == \A r \in Runs :
    Cardinality({f \in Followups :
        req[f] = r /\ kind[f] = "steer" /\ row[f] \in {"pending", "delivered"}}) <= SteerMax

\* A follow-up that was cancelled, by the user or with its run, stays so.
CancelledIsFinal ==
    [][\A f \in Followups : row[f] = "cancelled" => row'[f] = "cancelled"]_vars

\* A queued message marked delivered is in the transcript, or an executor
\* is about to put it there.
QueuedReachesChat == \A f \in Followups :
    row[f] = "delivered" /\ kind[f] = "queue"
        => InChat(f) \/ \E r \in Runs : At(r, "msg") /\ cur[r] = f

\* When a turn is done, every row of its queue is started as a run of its
\* own, or cancelled.
QueueIsServed == \A f \in Followups, r \in Runs :
    (f \in Pending(r, "queue") /\ run[r] = "done" /\ At(r, "next")) ~> row[f] # "pending"

\* A steer that its run accepted is drained into it, or cancelled with it.
SteerIsSettled == \A f \in Followups, r \in Runs :
    (f \in Pending(r, "steer") /\ run[r] = "running") ~> row[f] # "pending"

=============================================================================
