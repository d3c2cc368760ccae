------------------------------ MODULE Channel ------------------------------
(***************************************************************************)
(* One chat of a bot with a peer on Telegram, WhatsApp or in the app: how  *)
(* an inbound message is stored, how it reaches a turn through the         *)
(* debouncer of a pod or as a follow-up of the running turn, and what a    *)
(* turn does until the next one may start.                                 *)
(*                                                                         *)
(* The provider delivers a message at least once, to any pod. The          *)
(* debouncer and the limiter of the bot are in the memory of a pod, the    *)
(* rest is in the database. A turn has a task of its own, which the        *)
(* debouncer may abort as long as the turn has not started; an abort takes *)
(* effect at once. Messages are texts a turn would answer: other media are *)
(* answered with a fixed text, and no turn. How a follow-up is put and     *)
(* drained statement by statement is in PromptFollowup.                    *)
(***************************************************************************)
EXTENDS Integers, Sequences, FiniteSets

CONSTANTS
    Msgs,       \* messages of the peer
    Deliveries, \* bound: how often the provider delivers each
    Pods,       \* replicas of the server
    Limit,      \* the largest concurrent_limit of a plan: turns of the bot on a pod
    SteerMax,   \* FollowupCaps.steer_max
    QueueMax,   \* FollowupCaps.queue_max
    None,
    Budget,     \* bound: how often each kind of event happens
    MaxKinds    \* bound: how many kinds of them happen

Events == {"dedup", "error", "crash", "stop", "plan", "other"}
Calls == UNION {{m} \X (1..Deliveries[m]) : m \in Msgs}

ASSUME ChannelAssumption ==
    /\ IsFiniteSet(Calls) /\ None \notin Msgs
    /\ Deliveries \in [Msgs -> Nat]
    /\ Limit \in Nat \ {0} /\ SteerMax \in Nat /\ QueueMax \in Nat
    /\ Budget \in [Events -> Nat] /\ MaxKinds \in Nat

VARIABLES
    app,      \* the peer writes in the app, not through a provider
    call,     \* channel_inbound_handle for each delivery: place, pod, run to follow
    marked,   \* ai.channel_msg_dedup
    stored,   \* rows of each message in ai.chat_msg with source 'external'
    steered,  \* rows of each message in ai.chat_msg that a drain has inserted
    enabled,  \* ai_reply_enabled of the chat, bot_active of the bot
    deb,      \* ChatState of the chat on each pod
    task,     \* spawned turns, in order: message, pod, place, permits it has counted,
              \* whether BOT_QUEUE_WAIT is over
    run,      \* ai.prompt_run of the chat in order of created_ts: turn, status
    row,      \* ai.prompt_followup, by the call that inserted it
    others,   \* permits that turns of other chats of the bot hold
    max,      \* max_concurrent of the limiter of the bot on each pod
    due,      \* history: messages handed to the debouncer or to a task
    answered, \* history: messages a turn has read or a busy or stub reply has followed
    spent     \* events that have happened

limitVars == <<others, max>>
vars == <<app, call, marked, stored, steered, enabled, deb, task, run, row, limitVars, due,
          answered, spent>>

\* Program points of channel_inbound_handle; then the answer to the provider.
Places == {"none", "mark", "chat", "route", "follow", "schedule", "ok", "error", "lost"}
\* Program points of a spawned turn. Before "wait" it has not started.
Unstarted == {"timer", "woken"}
Holding == {"insert", "read", "drain", "llm", "reply", "save", "finish", "next", "follow", "again"}
Started == {"wait", "try", "swap"} \cup Holding
Idle == [timer |-> 0, typing |-> FALSE, pending |-> None]
NoRow == [run |-> 0, kind |-> "steer", status |-> "none"]

\* Every variable has its type, and a timer is the timer of a task that waits.
TypeOK ==
    /\ app \in BOOLEAN
    /\ call \in [Calls -> [at : Places, pod : Pods \cup {None}, run : Nat]]
    /\ marked \subseteq Msgs
    /\ stored \in [Msgs -> Nat] /\ steered \in [Msgs -> Nat]
    /\ enabled \in [reply : BOOLEAN, bot : BOOLEAN]
    /\ deb \in [Pods -> [timer : Nat, typing : BOOLEAN, pending : Msgs \cup {None}]]
    /\ task \in Seq([msg : Msgs, pod : Pods, at : Unstarted \cup Started \cup {"ended"},
                   cur : Nat, late : BOOLEAN])
    /\ run \in Seq([task : Nat, status : {"running", "done"}])
    /\ row \in [Calls -> [run : Nat, kind : {"steer", "queue"},
                          status : {"none", "pending", "delivered"}]]
    /\ others \in [Pods -> 0..Limit] /\ max \in [Pods -> 1..Limit]
    /\ due \subseteq Msgs /\ answered \subseteq Msgs
    /\ spent \in [Events -> Nat]
    /\ \A p \in Pods : deb[p].timer # 0 => /\ deb[p].timer \in DOMAIN task
                                           /\ task[deb[p].timer].at \in Unstarted

Init ==
    /\ app \in BOOLEAN
    /\ call = [c \in Calls |-> [at |-> "none", pod |-> None, run |-> 0]]
    /\ marked = {}
    /\ stored = [m \in Msgs |-> 0] /\ steered = [m \in Msgs |-> 0]
    /\ enabled = [reply |-> TRUE, bot |-> TRUE]
    /\ deb = [p \in Pods |-> Idle]
    /\ task = <<>> /\ run = <<>>
    /\ row = [c \in Calls |-> NoRow]
    /\ others = [p \in Pods |-> 0] /\ max = [p \in Pods |-> Limit]
    /\ due = {} /\ answered = {}
    /\ spent = [e \in Events |-> 0]

Spend(e) ==
    /\ spent[e] < Budget[e]
    /\ Cardinality({e} \cup {f \in Events : spent[f] > 0}) <= MaxKinds
    /\ spent' = [spent EXCEPT ![e] = @ + 1]

InChat == {m \in Msgs : stored[m] > 0}
RunOf(t) == {r \in DOMAIN run : run[r].task = t}
Rows(R, k) == {c \in Calls : row[c].run \in R /\ row[c].kind = k}
Pending(R, k) == {c \in Rows(R, k) : row[c].status = "pending"}

-----------------------------------------------------------------------------
(* ChatDebouncer. Its methods run under the lock of the hub; the operators  *)
(* are the state of the chat and the tasks after them.                     *)

Job(m, p, at) == [msg |-> m, pod |-> p, at |-> at, cur |-> 0, late |-> FALSE]
Abort(ts, t) == IF t = 0 THEN ts ELSE [ts EXCEPT ![t].at = "ended"]

\* Mutant of Schedule: a timer is started although a turn is running.
ScheduleAlways(d, ts, m, p) ==
    [deb |-> [d EXCEPT !.timer = Len(ts) + 1],
     task |-> Append(Abort(ts, d.timer), Job(m, p, "timer"))]

\* schedule
Schedule(d, ts, m, p) ==
    IF d.typing
    THEN [deb |-> [d EXCEPT !.pending = m], task |-> ts]
    ELSE [deb |-> [d EXCEPT !.timer = Len(ts) + 1],
          task |-> Append(Abort(ts, d.timer), Job(m, p, "timer"))]

\* Mutant of TurnFinished: what came while the turn was running is forgotten.
TurnFinishedForget(d, ts, p) ==
    [deb |-> [d EXCEPT !.typing = FALSE, !.pending = None], task |-> ts]

\* turn_finished
TurnFinished(d, ts, p) ==
    LET free == [d EXCEPT !.typing = FALSE, !.pending = None]
    IN  IF d.pending = None THEN [deb |-> free, task |-> ts]
        ELSE Schedule(free, ts, d.pending, p)

\* A chat that nothing was ever scheduled for has no ChatState: the chats of
\* the app, whose turns are spawned directly.
Debounced(p, new) ==
    /\ deb' = IF app THEN deb ELSE [deb EXCEPT ![p] = new.deb]
    /\ task' = new.task

-----------------------------------------------------------------------------
(* channel_inbound_handle                                                  *)

CallAt(c, place) == call[c].at = place
CallGoto(c, place) == call' = [call EXCEPT ![c].at = place]

\* A webhook, an event of the WhatsApp bridge or a message of the app, whose
\* id is new each time. A provider delivers again what it believes to be lost.
Deliver(c, p) ==
    /\ CallAt(c, "none")
    /\ c[2] > 1 => ~app /\ ~CallAt(<<c[1], c[2] - 1>>, "none")
    /\ call' = [call EXCEPT ![c] = [at |-> "mark", pod |-> p, run |-> 0]]
    /\ UNCHANGED <<app, marked, stored, steered, enabled, deb, task, run, row, limitVars, due, answered,
                   spent>>

\* Mutant of InboundMark: nothing is marked before it is stored.
InboundMarkLater(c) ==
    /\ CallAt(c, "mark")
    /\ CallGoto(c, IF stored[c[1]] > 0 THEN "ok" ELSE "chat")
    /\ UNCHANGED <<app, marked, stored, steered, enabled, deb, task, run, row, limitVars, due, answered,
                   spent>>

\* channel_dedup_try_mark; when the insert fails the message is processed.
InboundMark(c) ==
    /\ CallAt(c, "mark")
    /\ \/ /\ marked' = marked \cup {c[1]}
          /\ CallGoto(c, IF c[1] \in marked THEN "ok" ELSE "chat")
          /\ UNCHANGED spent
       \/ Spend("dedup") /\ CallGoto(c, "chat") /\ UNCHANGED marked
    /\ UNCHANGED <<app, stored, steered, enabled, deb, task, run, row, limitVars, due, answered>>

\* The owner, the peer and the chat are resolved, the media fetched and the
\* message is inserted. The app turns the replies of the chat on.
InboundStore(c) ==
    /\ CallAt(c, "chat")
    /\ \/ /\ stored' = [stored EXCEPT ![c[1]] = @ + 1]
          /\ enabled' = [enabled EXCEPT !.reply = @ \/ app]
          /\ CallGoto(c, "route")
          /\ UNCHANGED spent
       \/ Spend("error") /\ CallGoto(c, "error") /\ UNCHANGED <<stored, enabled>>
    /\ UNCHANGED <<app, marked, steered, deb, task, run, row, limitVars, due, answered>>

\* prompt_followup_active_req: the newest run of the chat that has not ended.
ActiveRuns == {r \in DOMAIN run : run[r].status = "running"}

\* Whether the message is for nobody, for the running turn or for a new one,
\* which it is too when the query for the run fails.
InboundRoute(c) ==
    /\ CallAt(c, "route")
    /\ IF ~enabled.bot \/ (~enabled.reply /\ ~app)
       THEN CallGoto(c, "ok") /\ UNCHANGED <<task, due, spent>>
       ELSE IF app
       THEN /\ task' = Append(task, Job(c[1], call[c].pod, "woken"))
            /\ due' = due \cup {c[1]}
            /\ CallGoto(c, "ok")
            /\ UNCHANGED spent
       ELSE /\ \/ ActiveRuns = {} /\ CallGoto(c, "schedule") /\ UNCHANGED spent
               \/ ActiveRuns # {} /\ Spend("error") /\ CallGoto(c, "schedule")
               \/ \E r \in ActiveRuns :
                     /\ \A s \in ActiveRuns : s <= r
                     /\ call' = [call EXCEPT ![c].at = "follow", ![c].run = r]
                     /\ UNCHANGED spent
            /\ UNCHANGED <<task, due>>
    /\ UNCHANGED <<app, marked, stored, steered, enabled, deb, run, row, limitVars, answered>>

\* prompt_followup_put as a steer, and as a queued message when that was
\* refused or has failed; what becomes of the second one is not looked at.
InboundFollow(c) ==
    LET r == {call[c].run}
        new == \A d \in Calls : d[1] = c[1] => row[d].status # "pending"
        steer == new /\ Cardinality(Rows(r, "steer")) < SteerMax
        queue == new /\ Cardinality(Pending(r, "queue")) < QueueMax
        Put(kind) == row' = [row EXCEPT ![c] = [run |-> call[c].run, kind |-> kind,
                                                status |-> "pending"]]
    IN
    /\ CallAt(c, "follow")
    /\ \/ steer /\ Put("steer") /\ UNCHANGED spent
       \/ /\ (~steer /\ UNCHANGED spent) \/ Spend("error")
          /\ IF queue THEN Put("queue") ELSE UNCHANGED row
       \/ Spend("error") /\ UNCHANGED row
    /\ CallGoto(c, "ok")
    /\ UNCHANGED <<app, marked, stored, steered, enabled, deb, task, run, limitVars, due, answered>>

InboundSchedule(c) ==
    LET p == call[c].pod
    IN
    /\ CallAt(c, "schedule")
    /\ Debounced(p, Schedule(deb[p], task, c[1], p))
    /\ due' = due \cup {c[1]}
    /\ CallGoto(c, "ok")
    /\ UNCHANGED <<app, marked, stored, steered, enabled, run, row, limitVars, answered, spent>>

-----------------------------------------------------------------------------
(* execute_channel_turn                                                    *)

At(t, place) == task[t].at = place
Goto(t, place) == task' = [task EXCEPT ![t].at = place]
Pod(t) == task[t].pod
Permits(p) == others[p] + Cardinality({t \in DOMAIN task : Pod(t) = p /\ task[t].at \in Holding})
inboundVars == <<app, call, marked, stored>>

\* The silence of CHANNEL_DEBOUNCE_MS is over.
Wake(t) ==
    /\ At(t, "timer")
    /\ Goto(t, "woken")
    /\ UNCHANGED <<inboundVars, steered, enabled, deb, run, row, limitVars, due, answered, spent>>

\* Mutant of TurnStart: the handle of the timer is kept.
TurnStartTimer(t) ==
    /\ At(t, "woken")
    /\ Debounced(Pod(t), [deb |-> [deb[Pod(t)] EXCEPT !.typing = TRUE],
                          task |-> [task EXCEPT ![t].at = "wait"]])
    /\ UNCHANGED <<inboundVars, steered, enabled, run, row, limitVars, due, answered, spent>>

\* turn_started
TurnStart(t) ==
    /\ At(t, "woken")
    /\ Debounced(Pod(t), [deb |-> [deb[Pod(t)] EXCEPT !.timer = 0, !.typing = TRUE],
                          task |-> [task EXCEPT ![t].at = "wait"]])
    /\ UNCHANGED <<inboundVars, steered, enabled, run, row, limitVars, due, answered, spent>>

\* acquire_turn: the limit of the bot's plan is loaded and stored; it is the
\* one that is stored already unless the plan has changed or the query fails.
StoreLimit(p) ==
    \/ UNCHANGED <<max, spent>>
    \/ Spend("plan") /\ \E n \in (1..Limit) \ {max[p]} : max' = [max EXCEPT ![p] = n]

TurnLimit(t) ==
    /\ At(t, "wait") /\ Goto(t, "try")
    /\ StoreLimit(Pod(t))
    /\ UNCHANGED <<inboundVars, steered, enabled, deb, run, row, others, due, answered>>

\* BOT_QUEUE_WAIT has passed.
TurnLate(t) ==
    /\ task[t].at \in {"try", "swap"} /\ ~task[t].late
    /\ task' = [task EXCEPT ![t].late = TRUE]
    /\ UNCHANGED <<inboundVars, steered, enabled, deb, run, row, limitVars, due, answered, spent>>

\* The permits and the limit are loaded.
TurnCount(t) ==
    /\ At(t, "try") /\ Permits(Pod(t)) < max[Pod(t)]
    /\ task' = [task EXCEPT ![t].at = "swap", ![t].cur = Permits(Pod(t))]
    /\ UNCHANGED <<inboundVars, steered, enabled, deb, run, row, limitVars, due, answered, spent>>

\* Mutant of TurnAcquire: the permit is added to whatever is held by now.
TurnAcquireAdds(t) ==
    /\ At(t, "swap") /\ Goto(t, "insert")
    /\ UNCHANGED <<inboundVars, steered, enabled, deb, run, row, limitVars, due, answered, spent>>

\* compare_exchange: when others have come or gone the turn counts again.
Unchanged(t) == Permits(Pod(t)) = task[t].cur

TurnAcquire(t) ==
    /\ At(t, "swap") /\ (Unchanged(t) \/ ~task[t].late)
    /\ task' = [task EXCEPT ![t].at = IF Unchanged(t) THEN "insert" ELSE "try",
                            ![t].cur = 0, ![t].late = FALSE]
    /\ UNCHANGED <<inboundVars, steered, enabled, deb, run, row, limitVars, due, answered, spent>>

\* The turn fails: its guards are dropped, the debouncer is not told and the
\* run is not ended.
TurnFail(t) ==
    /\ Spend("error")
    /\ Goto(t, "ended")
    /\ UNCHANGED <<deb, run, row>>

\* A turn that is late and has no permit: the peer is told to come back.
TurnBusy(t) ==
    /\ task[t].late
    /\ \/ At(t, "try") /\ Permits(Pod(t)) >= max[Pod(t)]
       \/ At(t, "swap") /\ ~Unchanged(t)
    /\ \/ /\ Debounced(Pod(t), TurnFinished(deb[Pod(t)], [task EXCEPT ![t].at = "ended"], Pod(t)))
          /\ answered' = answered \cup InChat
          /\ UNCHANGED <<run, row, spent>>
       \/ TurnFail(t) /\ UNCHANGED answered
    /\ UNCHANGED <<inboundVars, steered, enabled, limitVars, due>>

\* prompt_run_insert; the turn goes on when it fails.
TurnInsert(t) ==
    /\ At(t, "insert")
    /\ \/ run' = Append(run, [task |-> t, status |-> "running"]) /\ UNCHANGED spent
       \/ Spend("error") /\ UNCHANGED run
    /\ Goto(t, "read")
    /\ UNCHANGED <<inboundVars, steered, enabled, deb, row, limitVars, due, answered>>

\* channel_prompt_turn reads the chat, which is empty when the query fails. When
\* the turn fails before, the peer gets the stub reply.
TurnRead(t) ==
    /\ At(t, "read")
    /\ \/ /\ \E place \in {"drain", "reply"} : Goto(t, place)
          /\ answered' = answered \cup InChat
          /\ UNCHANGED spent
       \/ Spend("error") /\ Goto(t, "drain") /\ UNCHANGED answered
    /\ UNCHANGED <<inboundVars, steered, enabled, deb, run, row, limitVars, due>>

\* prompt_followup_drain_steers before a round of the tool loop.
TurnDrain(t) ==
    LET rows == Pending(RunOf(t), "steer")
    IN
    /\ At(t, "drain") \/ (At(t, "llm") /\ rows # {})
    /\ row' = [c \in Calls |-> IF c \in rows THEN [row[c] EXCEPT !.status = "delivered"]
                               ELSE row[c]]
    /\ steered' = [m \in Msgs |-> steered[m] + Cardinality({c \in rows : c[1] = m})]
    /\ answered' = answered \cup {c[1] : c \in rows}
    /\ Goto(t, "llm")
    /\ UNCHANGED <<inboundVars, enabled, deb, run, limitVars, due, spent>>

\* The last round is over, whatever has come in since it began.
TurnAnswer(t) ==
    /\ At(t, "llm")
    /\ Goto(t, "reply")
    /\ UNCHANGED <<inboundVars, steered, enabled, deb, run, row, limitVars, due, answered, spent>>

\* chat_strict_oos_apply may stop the replies of the chat; channel_reply_nats.
TurnReply(t) ==
    /\ At(t, "reply")
    /\ \/ Goto(t, "save") /\ UNCHANGED <<deb, run, row, enabled, spent>>
       \/ Spend("stop") /\ Goto(t, "save") /\ UNCHANGED <<deb, run, row>>
          /\ enabled' = [enabled EXCEPT !.reply = FALSE]
       \/ TurnFail(t) /\ UNCHANGED enabled
    /\ UNCHANGED <<inboundVars, steered, limitVars, due, answered>>

\* chat_msg_assistant_put_usage
TurnSave(t) ==
    /\ At(t, "save")
    /\ \/ Goto(t, "finish") /\ UNCHANGED <<deb, run, row, spent>>
       \/ TurnFail(t)
    /\ UNCHANGED <<inboundVars, steered, enabled, limitVars, due, answered>>

\* prompt_run_finish; an error is not looked at.
TurnFinish(t) ==
    /\ At(t, "finish")
    /\ \/ /\ run' = [r \in DOMAIN run |-> IF r \in RunOf(t) THEN [run[r] EXCEPT !.status = "done"]
                                          ELSE run[r]]
          /\ UNCHANGED spent
       \/ Spend("error") /\ UNCHANGED run
    /\ Goto(t, "next")
    /\ UNCHANGED <<inboundVars, steered, enabled, deb, row, limitVars, due, answered>>

\* prompt_followup_next_queued; an error of the mark that it is delivered is
\* not looked at. Without a queued message the turn is over.
TurnNext(t) ==
    LET queued == Pending(RunOf(t), "queue")
    IN
    /\ At(t, "next")
    /\ \/ /\ queued = {}
          /\ Debounced(Pod(t), TurnFinished(deb[Pod(t)], [task EXCEPT ![t].at = "ended"], Pod(t)))
          /\ UNCHANGED <<row, run, spent>>
       \/ \E c \in queued :
          /\ \/ row' = [row EXCEPT ![c].status = "delivered"] /\ UNCHANGED spent
             \/ Spend("error") /\ UNCHANGED row
          /\ task' = [task EXCEPT ![t].at = "follow", ![t].msg = c[1]]
          /\ UNCHANGED <<deb, run>>
       \/ TurnFail(t)
    /\ UNCHANGED <<inboundVars, steered, enabled, limitVars, due, answered>>

\* turn_finished, and then the job of the queued message is scheduled: it takes
\* the place of what turn_finished has scheduled.
TurnFollow(t) ==
    /\ At(t, "follow")
    /\ Debounced(Pod(t), TurnFinished(deb[Pod(t)], [task EXCEPT ![t].at = "again"], Pod(t)))
    /\ UNCHANGED <<inboundVars, steered, enabled, run, row, limitVars, due, answered, spent>>

TurnAgain(t) ==
    /\ At(t, "again")
    /\ Debounced(Pod(t), Schedule(deb[Pod(t)], [task EXCEPT ![t].at = "ended"], task[t].msg, Pod(t)))
    /\ due' = due \cup {task[t].msg}
    /\ UNCHANGED <<inboundVars, steered, enabled, run, row, limitVars, answered, spent>>

-----------------------------------------------------------------------------
(* The other chats of the bot, the staff, crashes                          *)

\* A turn of another chat takes a permit, returns one or stores the limit.
OtherTurn(p) ==
    /\ \/ /\ Permits(p) < max[p] /\ Spend("other")
          /\ others' = [others EXCEPT ![p] = @ + 1] /\ UNCHANGED max
       \/ others[p] > 0 /\ others' = [others EXCEPT ![p] = @ - 1] /\ UNCHANGED <<max, spent>>
       \/ StoreLimit(p) /\ UNCHANGED others
    /\ UNCHANGED <<inboundVars, steered, enabled, deb, task, run, row, due, answered>>

\* The owner stops the replies of the chat, or the bot.
Stop ==
    /\ Spend("stop")
    /\ \E what \in {"reply", "bot"} : enabled' = [enabled EXCEPT ![what] = FALSE]
    /\ UNCHANGED <<inboundVars, steered, deb, task, run, row, limitVars, due, answered>>

\* A pod restarts: its calls, its tasks and its debouncer are gone.
Crash(p) ==
    /\ Spend("crash")
    /\ call' = [c \in Calls |-> IF call[c].pod = p /\ ~(call[c].at \in {"ok", "error"})
                                THEN [call[c] EXCEPT !.at = "lost"] ELSE call[c]]
    /\ deb' = [deb EXCEPT ![p] = Idle]
    /\ task' = [t \in DOMAIN task |-> IF Pod(t) = p THEN [task[t] EXCEPT !.at = "ended"]
                                      ELSE task[t]]
    /\ others' = [others EXCEPT ![p] = 0] /\ max' = [max EXCEPT ![p] = Limit]
    /\ UNCHANGED <<app, marked, stored, steered, enabled, run, row, due, answered>>

-----------------------------------------------------------------------------
InboundStep(c) ==
    InboundMark(c) \/ InboundStore(c) \/ InboundRoute(c) \/ InboundFollow(c) \/ InboundSchedule(c)

TurnStep(t) ==
    \/ Wake(t) \/ TurnStart(t) \/ TurnLimit(t) \/ TurnCount(t) \/ TurnAcquire(t) \/ TurnBusy(t)
    \/ TurnInsert(t) \/ TurnRead(t) \/ TurnDrain(t) \/ TurnAnswer(t) \/ TurnReply(t) \/ TurnSave(t) \/ TurnFinish(t)
    \/ TurnNext(t) \/ TurnFollow(t) \/ TurnAgain(t)

Next ==
    \/ \E c \in Calls : InboundStep(c) \/ \E p \in Pods : Deliver(c, p)
    \/ \E t \in DOMAIN task : TurnStep(t) \/ TurnLate(t)
    \/ \E p \in Pods : OtherTurn(p) \/ Crash(p)
    \/ Stop

Spec == Init /\ [][Next]_vars

\* Handlers and tasks run, and time passes. A call and a task that is late take
\* finitely many steps, so none is left behind when some step is always taken.
Fairness ==
    /\ WF_vars(\E c \in Calls : InboundStep(c))
    /\ WF_vars(\E t \in DOMAIN task : TurnStep(t))
    /\ WF_vars(\E t \in DOMAIN task : TurnLate(t))
FairSpec == Spec /\ Fairness

-----------------------------------------------------------------------------
(* Properties                                                              *)

\* A message is in the chat once, however often it is delivered and wherever
\* it is handled, as long as the table of the marks can be reached.
StoredOnce == \A m \in Msgs : stored[m] <= 1 + spent["dedup"]

\* On a pod the debouncer lets one turn of the chat run at a time, from
\* turn_started to turn_finished, whatever arrives in between.
Turning(t) == task[t].at \in Started \ {"again"}
OneTurnOnPod ==
    ~app => \A t, u \in DOMAIN task : Turning(t) /\ Turning(u) /\ Pod(t) = Pod(u) => t = u

\* The turns of a bot on a pod stay within the largest limit of its plans,
\* although each counts them and loads the limit before it takes its permit.
WithinLimit == \A p \in Pods : Permits(p) <= Limit

\* What the debouncer has taken is read by a turn that starts later, or is
\* followed by the busy reply: no timer that is aborted and no pending job
\* that is replaced takes a message with it.
DueIsAnswered ==
    \A m \in Msgs : m \in due ~> (m \in answered \/ spent["error"] > 0 \/ spent["crash"] > 0)

\* There is one active turn of the chat.
OneTurnPerChat ==
    \A t, u \in DOMAIN task :
       task[t].at \in {"drain", "llm"} /\ task[u].at \in {"drain", "llm"} => t = u

\* What the provider was told is received is in the chat.
ReceivedIsStored == \A c \in Calls : CallAt(c, "ok") => stored[c[1]] > 0

\* A message is in the transcript of the chat once.
TranscriptOnce == \A m \in Msgs : stored[m] + steered[m] <= 1 + spent["dedup"]

\* A message that the chat has while replies are on is answered.
StoredIsAnswered ==
    \A m \in Msgs : stored[m] > 0 ~> (m \in answered \/ spent["stop"] > 0 \/ spent["crash"] > 0)
=============================================================================
