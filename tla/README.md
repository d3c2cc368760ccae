# A TLA+ model of the c35 server

c35 is an assistant platform: a Flutter app, messaging channels and device
agents talk to stateless Rust server pods (`src/servers`), which share a
PostgreSQL database and a NATS/JetStream cluster. This directory models the
part of the server in which several pods, tasks and messages work on the same
rows: how a prompt becomes a run that survives the death of a pod, how a turn is
held and billed, what happens to messages sent while a turn is running, how
task runs are started, fanned out and stopped, how money enters an account and
leaves it again as commission, how plans are bought and lapse, and how a message
of a messaging channel reaches a turn.

- [Inventory](#inventory): the system and its components
- [Modules](#modules): what is modelled and how it corresponds to the code
- [Runs](#runs): what TLC checks, the bounds, the fairness
- [Proofs](#proofs): what TLAPS proves and along which argument
- [Not modelled](#not-modelled), [Plan](#plan)

To check a run: `tlc -config X.cfg MCModule`; to check proofs: `tlapm MProofs.tla`.

## Inventory

All paths are below `src/servers/crates` unless they start with `src/`.

| Component | State | Operations | Talks to | Hard behaviour |
|---|---|---|---|---|
| Prompt runs, `mod_chat/prompt_run`, `wire_ws/session.rs`, `src/servers/server_ai/nats_boot.rs` | `ai.prompt_run` rows, JetStream work queue `C35_CHAT_PROMPT`, permits per pod, cancel tokens | submit, publish, inline fallback, deliver, lease, gate, turn, hop checkpoints, cancel watch, finish, ack, drain, hydrate | billing, follow-ups, fan-out | crash between any two writes, redelivery of a job that still lives, replay of a message that is still queued, writes dropped with `let _ =`, spawned tasks that outlive the run |
| Turn billing, `mod_billing` | `ai.billing_account`, `billing_profile` (two rings, two windows each), `billing_wallet`, `billing_reservation`, `billing_usage_dedupe` | gate, hold, refund, usage report (dedupe, rings, wallet, mirror, settle), top-up, window roll | called by prompt and task runs | five statements without a transaction, reads that are stale when used, redelivered turns, windows that end in between |
| Prompt follow-ups, `mod_chat/prompt_followup` | `ai.prompt_followup`, `prompt_run.steer_delivered_count`, transcript | put, cancel, abort, drain, start of the next queued message | tool loop, worker, channels | counts read before an insert, three statements per drained row, delivery marked before it happens |
| Task runs, `mod_task` | `ai.task_run`, `RUN_CANCEL` (in memory of one pod), permits of an orchestrator | start, worker, chunk fan-out, settle, finish, device report, cancel | billing, device agents, chat tools | cancel on another pod, queued against running, orchestrator against chunks, one reservation for two owners |
| Task schedules, `mod_task/scheduler.rs` | triggers, NATS schedules | arm, fire, disarm, hydrate | task runs | ack before processing |
| Delegated runs, `mod_chat/tools/builtin/delegate.rs` | child rows, `waiting_child` | spawn, await, cancel | prompt runs | parents hold permits that children need |
| Payments and commissions, `mod_billing` (Midtrans, manual top-ups, finance), `mod_referral` | `ai.billing_topup_request`, balance and wallet rows, commission columns, `ai.commission_ledger`, withdraw requests, shares | order, `payment_create`, notification, settle, review, accrue, withdraw, share | Midtrans, finance, account | duplicated and reordered notifications, a decision read before its transaction, errors dropped inside a transaction |
| Plans and freemium days, `billing_plan_change.rs`, `billing_freemium.rs` | account row, profile row (plan, expiry, pending plan, counters per day) | quote, subscribe, upgrade, downgrade, cancel, lapse, renew, reserve, count tokens | gate, pool of connections | quotes read outside of the transaction, two rows locked in opposite orders, a second connection inside a transaction |
| Channels, `mod_channel` | `ai.channel_msg_dedup`, `ai.chat_msg`, debouncer and limiter in the memory of a pod | inbound, mark, store, route, follow-up, debounce, turn, reply | follow-ups, providers | repeated delivery to another pod, timers aborted while they fire, turns that fail |
| Devices, `mod_device` | presence, signalling, egress | connect, lease, relay | task runs | presence against work in flight |
| Tool loop and LLM clients | none that lasts | rounds, tools | everything | content only; retries against providers |
| Sessions and fan-out, `wire_ws` | connections | push | clients | best effort |
| Domain modules (`mod_tx`, `mod_referral`, `mod_consumption`, `mod_expense`, `mod_identity`, `mod_notify`, `mod_drive`, `mod_site`, ...) | their tables | CRUD | - | mostly one statement per request |
| Remote agents (`src/remotes`), clients (`src/clients`) | on the device | - | HTTP, WebSocket | inputs of the models |

What makes each modelled component correct:

- *Prompt runs.* A run that was accepted ends, whatever pods die; it has one
  executor at a time; an ended run stays ended; no message is acked whose run
  nobody has ended; the owner pays once however often the run is executed.
- *Turn billing.* The rings and the balance are charged exactly the one bill of
  a `req_id`; a hold is settled only when the bill is paid and closed
  reservations stay closed; rings stay within limits; holds are covered.
- *Follow-ups.* Accepted messages reach the transcript, in the order of their
  puts, or are cancelled; caps hold; one active turn per chat.
- *Task runs.* Stopped runs stay stopped, with their chunks; an orchestrator is
  done only with all its chunks; at most `parallel_children` at once; permits
  and waits cannot block each other.
- *Payments.* However notifications and reviews repeat and overlap, an order is
  credited at most once and the balance is what settled orders and commission
  put there; commission stays within 35 percent of the order and leaves once.
- *Plans.* No concurrent credit or charge is lost, a purchase leaves what is
  held, both rows name one tier, no day is oversold, no request hangs.
- *Channels.* A message is stored once, a chat has one turn at a time, a bot no
  more turns than its limit, and what the debouncer has taken is answered.

`PROJECT.json` lists the hazards with their lines and the properties against them.

## Modules

Each component has a module with its state and actions, an `MC` module with the
small instances for TLC, and a `Proofs` module; `SumTheorems` holds the facts on
sums over finite sets that the proofs about money use. A definition commented "Mutant
of X" is a plausible bug in X; the property that names it in `PROJECT.json` must
fail when X is replaced by it. Bounds are constants: `MaxReplay`, `MaxAttempt`,
`MaxPuts`, `MaxRuns`, `Deliveries`, `Hooks`, `Draws`, `Horizon`, the `Budget` of
each kind of fault or event (in PromptFollowup also of all kinds together) and, in
Channel, `MaxKinds`, the number of kinds that occur in one behaviour. Everywhere
one SQL statement is one action and what happens between two awaits belongs to
one step. The writes of a run's status whose result is dropped with `let _ =` may
be lost: `WriteLost` in PromptRun, `Finish` in PromptFollowup, `Lost` in TaskRun,
`TurnFinish` in Channel.

### PromptRun

State: the row (`status`, `count`, `cancel`, `fatal`), the stream (`mstate`,
`mcount`), one program counter per job (`pc`, `pod`, `tok`, `beat`, `out`,
`save`), the background usage report and the reservation (`report`, `resv`,
`dedupe`, `charged`), and per pod `drain`, `stopped`, `boot` and the hydrate
lock. A job is a delivery: `<<req_id, copy, delivery>>`; delivery 0 of copy 0 is
the WebSocket task that submits the run.

| Code | Actions |
|---|---|
| `prompt_req_put` (`wire_ws/session.rs`) | `Submit`, `Publish`, `PublishFail`, then the inline turn through `Acquire`, `StartRun`, ... |
| `prompt_abort`, `prompt_run_cancel_request` | `AbortFlight`, `Abort` |
| JetStream (external) | `Deliver`, `AckWaitExpire`, `AckWaitStall` |
| `process_prompt_job` | `Acquire`, `DropBuffered`, `DeliveryInc`, `LoadRow`, `Reject`, `RejectRefund`, `LeaseTouch`, `StartRun`, `JobError`, `GateOk`, `GateRefuse`, `TurnOk`, `TurnErr`, `DrainReturn`, `Finish`, `Ack` |
| tasks spawned beside the turn | `CancelWatch`, `Hop`, `CheckpointSave`, `HeartbeatFail` |
| `billing_usage_report` | `ReportDedupe`, `ReportNothing`, `ReportDeduct`, `ReportFreemium`, `ReportSettle` |
| pods | `Drain`, `WorkerStop`, `Crash`, `Exit`, `Reconnect`, `HydrateLock`, `HydrateList`, `HydratePublish`, `HydrateEnd` |

What is abstracted: the content of a turn is its outcome; fan-outs change no
durable state; `OverMaxDeliver` looks at the counter of the row, which is the one
that `prompt_run_delivery_inc` has returned or a later one; of the reasons of
`prompt_run_should_stop` only those that the worker acts on are there (the turn
cap and the budget do not stop it, `worker.rs:171`, so a fatal checkpoint behind
one of them is passed over as behind a cancel request); a checkpoint is only fatal or not. A job whose row is missing
(`AckKind::Term`), a client that sends the same `req_id` twice and
`waiting_child` are left out. `MaxDeliver` is 3 in the code and 1 or 2 in the
configurations: the worker compares it with a counter of deliveries and nothing
depends on its value otherwise.

`RunSpec` is the promise to the owner of a run, without pods and messages: a run
is accepted, executed only while it is open and by one execution at a time, ends
once, may be charged by an execution that has answered, and by one only; a hold
is inserted when a turn begins and settled only after the charge. The mapping
(`Abstract == INSTANCE RunSpec WITH ...`) shows of the row whether it is open or how
it ended, of a job whether it is in its turn, and of its report whether it may
still debit.

### BillingTurn

State: the account (`balance`, `wallet`), the meters (`used`, `expired`), the
reservation (`resv`, `held`), the dedupe row (`dedupe`, `bill`), what each turn
has really been charged (`ring`, `debit`), and per execution the program counter
and everything it has read and will act on later (`seen`, `rem`, `roll`, `want`,
`cost`, `over`). `Start` to `GateDecide` are `billing_gate_model`, `HoldBypass`,
`HoldRead` and `HoldInsert` are `billing_gate_with_hold_model_opt`, `TurnErr` is
the refund, `TurnOk` to `ReportSettle` are `billing_usage_report`, which passes
the gate a second time. `Topup`, `LegacySpend`, `Expire` and `Crash` are the
environment.

What is abstracted: amounts are whole cents and one exchange rate; the queries
that the hold gate joins with `tokio::join!` are one read; the roll of the
account row is one step with its read (the profile's is not, see `roll`). Only a
personal paid account: no freemium days, no bot or device scope, no NATS KV fast
path. `InitUsed` is what earlier turns have left on the meters.

### PromptFollowup

State: the runs of one chat (`run`, `used`, `cancel`), the rows (`row`, `req`,
`kind`, `seq`), the transcript (`chat`), and a program counter per put and per
executor (`put`, `ex`, `todo`, `cur`). `PutReq`, `PutCheck`, `PutSeq`,
`PutInsert` are the statements of `prompt_followup_put`, `PutFail` an error of one
of them, `PutRefused` the channel's second try as a queued message; puts overlap
(`MaxPuts`), and `earlier` remembers what had been accepted when a put began; `DrainRead` to `DrainCount` those of
`prompt_followup_drain_steers` in the tool loop; `NextRead`, `NextMark`,
`NextMsg`, `NextRun` those of `prompt_followup_start_next_queued`, `DrainFail`
and `NextFail` their error paths. `Cancel`, `AbortRun`, `AbortFollowups` and
`Submit` are the user, `Take` and `Crash` the dispatch.

`Finish` is `prompt_run_finish`, which may be lost; the queue is then served
behind a run that is still active.

What is abstracted: the three counts of a put are one read, so an overlapping
step falls before or after all of them; a run has one executor at a time (the
business of PromptRun); `waiting_child` is active. The test for a duplicate
(`prompt_followup/mod.rs:82`) is left out: the messages here have different keys,
what the channel drops before it gets here is in Channel, and when only the last
count of a put fails, after its insert, the channel's second try would meet its
own row and be refused (in the model `PutFail` comes before the insert). The guard
of `Submit` is what the client looks at; the server does not test it.

### TaskRun

State: the rows (`status`, `hold`), one program counter per run (`pc`, `out`),
the cancel flags of a pod (`home`, `reg`, `flag`), the device (`agent`,
`refunding`), cancel requests (`cpc`, `cpod`, `kids`), the permits and the
failures of an orchestrator (`wait`, `bad`) and the chat turn (`turn`).
`Write` is a statement of `store.rs` whose result is dropped.
`Start` to `StartSpawn` are `task_run_start_core`; `SetRunning`, `Work`,
`SettleNothing` to `CancelClear` are `task_worker_spawn`; `Fan*` and `WaitDone`
are `chunk_fanout::run`; `AgentDone` and `AgentRefund` the report of the device;
`Cancel*` the cancel request and `TurnEnd` the end of the chat turn that started
a run through a tool.

What is abstracted: rows and steps inside a recipe are one `Work`; the cost of a
run is whether there is one (`SettleNothing` or `Deduct`); signal and mark of one
child are one step. `WaitTimeout` is the end of the two hours of
`wait_child_terminal`: the recipes give up after half an hour, so by then the
worker of the chunk has left, without the write of its end, or the chunk is left
to its device. Task and trigger CRUD and the scheduler are not in it.

### Ledger and Payments

`Ledger` is the promise: an order is `open`, then `credited` or `closed`; a
credit adds exactly the amount to its payer and may owe commission to others;
what is owed is paid to the bank or to the owner's balance, and nothing else
touches a balance. `Payments` is how the code does it. The mapping
(`Abstract == INSTANCE Ledger WITH ...`) takes `status` to the phase of an order
and `available + pending` to what is owed.

State: the order rows (`status`), the put request that is still in
`payment_create` (`creating`), Midtrans (`linked`, `pay`, `notes`, `answered`),
each webhook request with the plan it has decided on (`hook`), balance and
wallet, the commission columns (`available`, `pending`, `earned`), the ledger
rows (`accrual`, `payout`), withdraw requests and shares.

| Code | Actions |
|---|---|
| `billing_manual_topup_put`, `billing_midtrans_topup_put` | `PutManual`, `PutMidtrans`, `CreateOk`, `CreateFail`, `CreateCrash` |
| Midtrans (external) | `ProviderOpen`, `ProviderPaid`, `ProviderAttempt`, `ProviderExpire` |
| `webhook_midtrans`, `billing_topup_settle` | `HookRead` (with `SettlePlan`), `HookNothing`, `HookClose`, `HookCredit`, `HookError`, `HookRollback`, `HookCrash` |
| finance (`billing_finance.rs`) | `TopupReject`, `TopupApprove`, `WithdrawDecline`, `WithdrawApprove` |
| `commission.rs`, `commission_withdraw.rs` | `CreditAndAccrue` with `Commission`, `WithdrawWallet`, `WithdrawBank`, `ShareSet` |

`HookRead` and the transaction are two actions because the code reads and
decides before it opens the transaction; a transaction that locks its row first
is one. What is abstracted: rupiah is the only currency, chains have up to three
uplines (the code has no limit) and every upline has an account (the code skips
one that has none, `commission.rs:178`, and pays the others the same), signatures
are valid. `WithdrawBank` compares without the tolerance of 0.0001, which is below
the scale of the column. A payment needs the page that a returned
`payment_create` gives, so `CreateFail` can meet an order that was opened or has
expired, never a paid one. Google Play orders,
refunds by an admin and vouchers are left out.

### Plan

State: `balance`, `tier` (account row), `profile` (plan, day of expiry or 0 for
none, pending plan), `quota` (freemium counters), `held`, the two row locks (`lock`), each
request with its place and what it has read (`req`), the day (`now`), and as
history what was moved, charged and admitted.

`ChangeStart` to `ChangeApply` are `billing_plan_change` and its quote: the
quote and the day of expiry are read first, then the account row is locked, the
price is read on a second connection, the holds are read, and both rows are
written. `LapseRead` to `LapseCommit` are `billing_plan_lapse_if_expired`, with
the renewal of a pending plan (`LapseRenew`). `FreemiumApplies`,
`FreemiumReserve` and `FreemiumTokens` are the daily quota. `Fail` is a failing
statement, and what Postgres does to a deadlock and the pool to a request that
gets no connection (`TimedOut`). `Topup`, `TurnHold`, `TurnEnd` and `Tick` are
the environment, in the form in which the other modules write the same row.

What is abstracted: one currency and days instead of timestamps; what a purchase
earns the uplines goes to accounts of others. Signup trials and the plan change
of an admin are left out.

### Channel

State: for every delivery the place of `channel_inbound_handle` (`call`), the
marks, the transcript (`stored`, `steered`), the switches (`enabled`), per pod
the `ChatState` of the debouncer (`deb`), the permits of other chats (`others`)
and the limit that was stored last (`max`), the spawned turns with the number of
permits each has counted (`task`), runs and follow-up rows (`run`, `row`).

| Code | Actions |
|---|---|
| provider (external) | `Deliver` |
| `channel_inbound_handle` | `InboundMark`, `InboundStore`, `InboundRoute`, `InboundFollow`, `InboundSchedule` |
| `debounce.rs` | `Schedule`, `TurnFinished` inside the actions; `Wake`, `TurnStart` |
| `limit.rs` | `TurnLimit` with `StoreLimit`, `TurnCount`, `TurnAcquire` (the `compare_exchange`), `TurnLate` (the end of `BOT_QUEUE_WAIT`) |
| `turn.rs` | `TurnBusy`, `TurnInsert`, `TurnRead`, `TurnDrain`, `TurnAnswer`, `TurnReply`, `TurnSave`, `TurnFinish`, `TurnNext`, `TurnFollow`, `TurnAgain`, `TurnFail` |
| others | `OtherTurn`, `Stop`, `Crash` |

The chat is a chat of the app or of a provider (`app`, chosen in `Init`): the
app spawns a turn for every message and does not use the debouncer. What is
abstracted: messages are texts a turn would answer (welcome texts, static
replies and media do not start one), the silence is a timer that fires at any
time, a turn of the model is one step per call that it makes, and putting and
draining a follow-up are one step each (PromptFollowup has their statements). The
two loads of `acquire_turn` are one step (`TurnCount`), as are those and the
exchange of a turn of another chat (`OtherTurn`). `answered` says that a turn has
read the message or that a busy or stub reply has followed it; a turn whose query
for the history fails has read nothing.

The modules do not share variables. PromptRun takes the outcome of a gate and of
a report as a choice, BillingTurn takes the executions of a turn as `MaxAttempt`
jobs that start and die at will, PromptFollowup takes a run's executor as
something that may be repeated and whose finishing write may be lost, Plan takes
top-ups and turns as steps that may come at any time. One freedom that PromptRun
shows is not given: in PromptFollowup and Channel a run never has two executors at
the same time, as PromptRun has only with missed heartbeats or replays.

## Runs

`CHECK_DEADLOCK FALSE` is set throughout: the bounded systems stop when every
run, turn and budget is used up.

| Run | Instance | Shows |
|---|---|---|
| `replay` | 1 run, 1 pod, 2 permits, 1 delivery per message, 1 replay; one stall, one lost write, one reconnect, one worker stop | `ChargedAtMostOnce`, `SettledIsPaid`, `AckedRunEnded`: the original job, its replay and the inline fallback overlap in every way, and one of them pays |
| `crash` | 1 run, 2 pods, 2 deliveries, two crashes or drains | `TypeOK`, `OneTurnAtATime`, `ImplementsRun`: with timely heartbeats and no replay, redelivery hands a run over without overlap, never reopens it and never charges it again |
| `live` | 1 run, 1 pod, 2 deliveries, 1 replay, one crash or drain | `NothingForgotten`, `EveryRunEnds`: wherever the pod dies from the insert to the ack, somebody is left to finish the run, and does |
| `redeliver` | 1 turn, 2 executions that may die anywhere, IDR, costs 0 and 4, rings partly used; one top-up, window end, legacy charge, lost debit | `NeverOvercharged`, `SettledInFull`, `TypeOK`, `RingsWithinLimits`, `ReservationIsFinal` |
| `followups` | a queued message and 2 channel messages, 2 puts at a time, 2 runs; two events: crash, failing statements, abort, prompt, lost finishing write | `TypeOK`, `SteerReachesChat`, `TranscriptInOrder`, `QueueWithinCap`, `ServedInTurn` |
| `fanout` | orchestrator, 2 chunks, 1 permit; one failure or expired wall clock, one crash, one lost write | `ParallelBound`, `DoneMeansAllDone`, `StartedRunsEnd` |
| `stops` | orchestrator with a chunk, device run, 2 pods; one cancel request, one report | `DoneMeansAllDone`, `EndedHoldsNothing` |
| `payments` | one manual and one Midtrans order of 100, three uplines with shares that promise more than the pool, 2 webhook requests, 2 withdrawals of one upline; one fault, repeat and change of a share | `TypeOK`, `BalanceExplained`, `CommissionConserved`, `WithinPool`, `ImplementsLedger`, `PaidIsDecided` |
| `plans` | 2 requests at once, 3 in all, 2 plans, with or without a day of expiry, 2 days, 2 connections; one top-up, one turn, one freemium message a day | `TypeOK`, `MoneyExplained`, `TiersAgree`, `DailyCap`, `PurchaseCovered`, `RequestsEnd` |
| `channels` | 2 messages, one delivered twice, 2 pods, limits of 1 and 2, caps of 1; one failing mark, failing statement, crash, stop or change of the limit, or two turns of other chats | `TypeOK`, `StoredOnce`, `OneTurnOnPod`, `WithinLimit`, `DueIsAnswered` |
| `lapse` (violation) | 2 requests | `OnlyExpiredLapse` fails |
| `parallel` (violation) | 2 messages, 2 pods, no fault | `OneTurnPerChat` fails |

**Why the bounds are enough.** The properties relate at most two executions of
one run, two turns of one account, two follow-ups, an orchestrator and its
chunks, two notifications of one order, two requests for one account or two
messages of one chat, so two of each produce every conflict; three deliveries
differ from two only by one more of the same step. One fault of each kind is
placed by TLC at every point, and a crash budget of two covers a crash during
recovery. Three uplines are needed for shares that rise and fall along a chain;
two connections are the smallest pool in which transactions can starve each
other. Two withdrawals of one upline meet, those of two uplines touch different
rows. With a limit of two, two turns of other chats and one of the chat compete for
the last permit. The largest runs are `replay` with 3.5 million states,
`followups` with 2.7, `stops` with 2.4 and `crash` with 2.3 million; each finishes
within about two minutes. What has no bound at all is proved (below) for any number of runs, pods,
deliveries, replays, turns, chunks, orders, requests, messages and faults.

**Assumptions under which passing properties hold.** `OneTurnAtATime` and
`ImplementsRun` need timely heartbeats and no replay (no `stall`, `reconnect`
or `MaxReplay`); with either they fail, see below. `NothingForgotten` needs
writes that are not lost and fewer crashes than deliveries. `ParallelBound` is
checked without cancel requests: a chunk that is cancelled while queued gives its
permit back and is then set to running all the same (`TaskRunStop` below).
`ServedInTurn` is the one-turn rule for chats in which no prompt is sent past the
queue and no finishing write is lost; with either two turns are active
(`PromptFollowupSecond`). `QueueWithinCap` allows for the puts that overlap. `StoredOnce` allows one more row for each mark that could not be inserted,
since the code then goes on. `PaidIsDecided` excepts a credit that was rolled
back and yet answered with 200 (`HookRollback`), and `DueIsAnswered` behaviours
in which a statement failed or a pod died.
`DoneMeansAllDone` needs chunks that the server executes alone; a browser recipe
as a chunk could be reported by the device as well. `StartedRunsEnd` excepts runs
whose pod has died, which nothing resumes (the plan
`_/specs/plans/2026-09-30-task-multitask-browser-worker.md:85` leaves this out of
its first version), and those whose worker has left and lost its finishing write,
which stay `running`; an orchestrator that waits for such a chunk still ends.
`EndedHoldsNothing` excepts a failing statement of the billing. `WithinLimit` is
about the largest limit: a plan that is lowered does not take a permit back.

**Fairness.** `FairSpec` of PromptRun: weak fairness of every step of a job, of
spawned saves and reports (tokio runs the tasks of a live process; a turn is
limited by its hop and wall-clock budgets), of redelivery and delivery
(JetStream), of the exit of a drained process and of hydrate. Nothing is assumed
of faults, submissions, aborts and hops. TaskRun: weak fairness of the steps of a
run and of the polling waiters, for the same reason, and of their giving up after
two hours, a deadline in the code. PromptFollowup: weak
fairness of an executor's steps and strong fairness of the end of a turn, since the rounds of
the tool loop are bounded by the code. Payments: a webhook request that has read
its order ends, and Midtrans delivers a notification again until it has been
answered with 200. Plan: weak fairness of the steps of a request, and of the
abort of a deadlocked transaction (Postgres) or of one that gets no connection
(the pool's `acquire_timeout`); nothing is assumed of failing statements.
Channel: weak fairness of some step of a handler, of some step of a turn and of
the end of `BOT_QUEUE_WAIT`: a handler and a turn that is late take finitely many
steps, so none is passed over for ever. Nothing is assumed of deliveries, stops,
crashes, or of other chats returning their permits.

**Findings.** Two runs show the code doing other than its comments or a
document of the repository say; `PROJECT.json` quotes the lines.

- `lapse`: `billing_plan_lapse_if_expired` reads the expiry before its
  transaction and then resets the rows whatever they hold; a plan bought in
  between is wiped.
- `parallel`: the debouncer that serialises the turns of a chat is in the memory
  of one of two replicas, and the app does not use it.

### Further configurations

These are kept for whoever changes the code in question. Each takes seconds to
minutes and, unless the last column says that it holds, ends with a violation of
the property named. "X with P" is the configuration X with P as its property.

| Configuration | Property | What TLC shows |
|---|---|---|
| `PromptRunExhausted` | `RunningIsRecovered` | a run whose every delivery dies stays `running`: the test `delivery_count > MAX_DELIVER` would need one delivery more than the consumer's `max_deliver` makes, and hydrate replays `queued` runs only. `_/specs/chat.md:70` "If a server pod restarts or crashes during a turn, JetStream redelivers unacknowledged prompt jobs to another surviving pod." |
| `PromptRunRevived` | `RunningIsRecovered` | a job that read the row before another ended it reopens the run and dies |
| `PromptRunReplayTwice` | `OneTurnAtATime` | the first publish has no `Nats-Msg-Id`, so its replay is not dropped and both execute |
| `PromptRunHydrateSkip` | `NothingForgotten` | a pod that loses the hydrate lock to one that has already read the list skips a run |
| `PromptRunHydrateSkip` with `HoldReleased` | `HoldReleased` | a report that ends at its gate or with a zero cost leaves the hold |
| `PromptRunHydrateSkip` with `HoldCoversTurn` | `HoldCoversTurn` | a refunded hold stays refunded when the run is executed again |
| `BillingTurnRace` | `HoldsAreCovered` | held totals are read in one statement and the hold inserted in another. `_/specs/billing-implementation.md:81` "hold / settle / refund with `FOR UPDATE`" |
| `BillingTurnRegate` | `AnsweredIsReported` | the turn's own hold makes the gate refuse its usage report |
| `BillingTurnBypass` | `BypassHasAllowance` | the bypass of the hold reads the legacy columns, not the rings |
| `BillingTurnLateRoll` | `MeterKeepsCharges` | a late roll erases a charge to the new window |
| `BillingTurnDrift` | `WalletAgrees` | a death between the two debits leaves wallet and account apart |
| `PromptFollowupStranded` | `QueueIsServed` | the next queued message is looked up under the finished `req_id`; those behind it are never looked for again. `_/specs/plans/2026-09-26-prompt-followup-queue.md:194` "each **queue** row starts a **new** `req_id` / `prompt_run` after previous finishes" |
| `PromptFollowupSteerCap` | `SteersWithinCap` | a put between mark and count sees neither |
| `PromptFollowupCancelled` | `CancelledIsFinal` | a cancelled row is delivered, the mark does not look at the status |
| `PromptFollowupLost` | `QueuedReachesChat` | a message is marked delivered and then lost |
| `PromptFollowupSecond` | `OneActiveTurn` | a prompt between the finish and the queue makes a second turn |
| `PromptFollowupSecond` with `BudgetLost` | `OneActiveTurn` | the finishing write is lost and the next queued message is started all the same (`worker.rs:504`, `549`) |
| `PromptFollowupLateSteer` | `SteerIsSettled` | a steer put during the last round stays pending |
| `TaskRunStop` | `StopIsFinal` | `task_run_set_running` does not look at the status, so a run cancelled while queued is executed. `_/specs/plans/2026-09-30-task-multitask-browser-worker.md:72` "Sets in-memory cancel flag; marks `ai.task_run` cancelled if queued/leased/running; worker checks between rows" |
| `TaskRunChunks` | `StopReachesChunks` | a chunk inserted after the list of children was read goes on |
| `TaskRunLeak` | `FailedStartHoldsNothing` | a start that fails after its hold leaves it |
| `TaskRunShared` | `TurnKeepsHold` | a task run closes the reservation of the chat turn it shares |
| `PaymentsIgnored` | `PaidIsCredited` | a settlement that arrives after another notification has closed the order is ignored |
| `PaymentsIgnored` with `WalletMatches` | `WalletMatches` | the approval of a manual order credits the account row and not the wallet row |
| `PlanLapse` with `NeverChargedTwice` | `NeverChargedTwice` | two requests for one plan are both quoted as a first purchase |
| `ChannelReceived` | `ReceivedIsStored` | the message is marked before it is stored; when the store fails the next delivery is answered with success |
| `ChannelParallel` with `TranscriptOnce` | `TranscriptOnce` | a message is stored and then put as a steer, whose drain stores it again |
| `ChannelSilent` | `StoredIsAnswered` | a message put as a steer behind the last drain of a turn is never read |

Hazards that no configuration reaches: a redelivered turn inserts a second
assistant message (`mod_chat/prompt_turn.rs:1514`) and reserves a second
freemium message (`billing_freemium.rs:368`); the gate and the hold use
different exchange rates (`billing_reservation.rs:416`); a schedule is acked
before it is processed (`mod_task/scheduler.rs:57`); a cycle of referrals would
keep `earn_chain` going (`mod_referral/commission.rs:63`); NATS loses its disk.

## Proofs

Every invariant and every action property of the passing runs is also a theorem
(and the types of TaskRun, which no run lists),
for every value of the constants that satisfies the named assumptions (`ASSUME`
in each module: types, finite sets, positive bounds) and the hypotheses in the
last column.

| Theorem | States | Under |
|---|---|---|
| `PromptRunProofs!TypeCorrect` | `TypeOK` | |
| `PromptRunProofs!ChargeCorrect`, `SettledCorrect` | `ChargedAtMostOnce`, `SettledIsPaid` | |
| `PromptRunProofs!AckCorrect` | `AckedRunEnded` | |
| `PromptRunProofs!OneTurnWhileQuiet`, `FinalWhileQuiet` | `OneTurnAtATime`, and that the row of an ended run is not written | as long as `Quiet`: no ack wait ran out under a live job, no replay was sent |
| `PromptRunProofs!OneTurnCorrect`, `FinalCorrect` | `OneTurnAtATime`, `TerminalIsFinal` | no stalls, no replays |
| `PromptRunProofs!RefinesWhileQuiet` | every step is one of RunSpec or none | as long as `Quiet` |
| `PromptRunProofs!RunRefines` | `ImplementsRun` | no stalls, no replays |
| `PromptRunProofs!RunningCorrect` | `RunningIsRecovered` | as long as `FewFaults`: no ack wait ran out under a live job, no write lost, fewer outages than `MaxDeliver` |
| `PromptRunProofs!NothingForgottenOnOnePod` | `NothingForgotten` | one pod, hydrate may replay, as long as `FewFaults` |
| `PromptRunProofs!NothingForgottenCorrect` | `NothingForgotten` | the same, from the budgets |
| `BillingTurnProofs!TypeCorrect` | `TypeOK`: no amount becomes negative | |
| `BillingTurnProofs!ChargeCorrect`, `SettleCorrect` | `NeverOvercharged`, `SettledInFull` | |
| `BillingTurnProofs!RingsCorrect` | `RingsWithinLimits` | |
| `BillingTurnProofs!FinalCorrect` | `ReservationIsFinal` | |
| `PromptFollowupProofs!TypeCorrect`, `SteerCorrect`, `CapCorrect` | `TypeOK`, `SteerReachesChat`, `QueueWithinCap` | |
| `PromptFollowupProofs!TurnCorrect` | `ServedInTurn`: one active turn until the first prompt past the queue or lost finishing write | |
| `PromptFollowupProofs!TranscriptCorrect` | `TranscriptInOrder` | |
| `TaskRunProofs!TypeCorrect` | `TypeOK` | |
| `TaskRunProofs!DoneCorrect` | `DoneMeansAllDone` | `ShellChunks` |
| `TaskRunProofs!ParallelCorrect`, `ParallelUncancelled` | `ParallelBound` | `ShellChunks`, until the first cancel request; or without any |
| `TaskRunProofs!HoldCorrect` | `EndedHoldsNothing` | `OwnReqs`: a reservation belongs to one run or to the chat turn |
| `PaymentsProofs!TypeCorrect` | `TypeOK`: no balance or commission column becomes negative | |
| `PaymentsProofs!SettledFinal` | `SettledIsFinal` | |
| `PaymentsProofs!Refines` | `ImplementsLedger` | |
| `PaymentsProofs!BalanceCorrect`, `CommissionCorrect`, `PoolCorrect` | `BalanceExplained`, `CommissionConserved`, `WithinPool` | |
| `PlanProofs!TypeCorrect`, `MoneyCorrect` | `TypeOK`, `MoneyExplained` | |
| `PlanProofs!TiersCorrect`, `CapCorrect`, `PurchaseCorrect` | `TiersAgree`, `DailyCap`, `PurchaseCovered` | |
| `ChannelProofs!TypeCorrect`, `OneTurnCorrect` | `TypeOK`, `OneTurnOnPod` | |
| `ChannelProofs!LimitCorrect`, `StoredCorrect` | `WithinLimit`, `StoredOnce` | |

Configurations show the failure without a hypothesis: replays (`PromptRunReplayTwice`), a job that acts on a row read
earlier (`PromptRunRevived`), used-up deliveries (`PromptRunExhausted`), several
pods that hydrate (`PromptRunHydrateSkip`), cancel requests (`TaskRunStop`: the
cancelled chunk returns its permit and runs on). A run started from a chat
has the `req_id` of the turn, a chunk one made of its parent's and its number, any
other run a new one (`run_start.rs:27`, `chunk_fanout.rs:100`); `OwnReqs` leaves out
two fan-outs started by one turn, whose chunks would share theirs. Two puts that overlap may read the same `MAX(seq)`; their order
is open, and `TranscriptInOrder` says nothing of it. A
`running` row whose finishing write is lost has no message left and nobody who
looks for it, hence "no write lost".

The arguments:

- *PromptRun, charge.* `ChargedAtMostOnce` is not inductive: it must say who may
  still debit. A job has a *claim* on a run while its report is past the dedupe
  row or has debited. `ChargeInv`: a claim implies the dedupe row, claims of one
  run belong to one job, and a report that settles has debited. `ReportDedupe` is
  the only step that makes a claim, and only where no dedupe row was.
- *PromptRun, ack.* A run is *closed* when it has ended or a write was lost.
  `AckInv`: a row with a terminal status has ended, and a job at its refund or
  ack belongs to a closed run. `StatusSet` may reopen the row, but not the history.
- *PromptRun, dispatch.* `DispatchInv` says who may work on a run: the submitting
  task works on it only while no message was sent, a delivery that lives is one of
  a message that was sent, and as long as no ack wait has run out under a live job
  (`OnTime`) it holds a message in flight and holds it alone. Without replays a run
  has one message, so all live jobs of a run are one job (`QuietAlone`). `OpenInv`:
  while `Quiet`, the row of a job that may still write it is open, so no write falls
  on an ended run, although `prompt_run_status_set` and `prompt_run_finish` test
  nothing.
- *PromptRun, refinement.* The steps of a job map by where it stands: `GateOk` is
  `Begin`, which needs the row to be open (`OpenInv`) and nobody else at work
  (`QuietAlone`); `Reject` and `Finish` are `End`, for the same reasons; `Deliver`
  and `Submit` overwrite the program point of a job that is not alive
  (`DispatchInv`); `ReportDeduct` is `Charge`, unique by `ChargeInv`; the death of a
  pod is `Lose`. Everything else is a stutter: hydrate, leases, checkpoints,
  deliveries and acks are invisible to the owner of a run.
- *PromptRun, recovery.* `RecoverInv`: deliveries are used up by outages only
  (`CountInv`: the count of an open message is at most the number of outages, and
  one more while a healthy pod holds it); the publish succeeds, so no turn runs
  inline (`InlineInv`; a failed publish counts as a lost write); only runs that have
  begun are acked (`BegunInv`); a running run has a message in the stream that
  nobody is about to ack (`RunInv`). `QueueInv` does the queued runs: such a run is
  being published, has its message in the stream, or there is a hydrate, due or at
  work, that has it in its list or is yet to read one. That last part is where more
  than one pod fails.
- *BillingTurn, charge.* The execution that won the dedupe row *owns* the turn
  until it has debited. `ChargeInv`: owners are billed and unique, an unbilled
  turn is uncharged, and while the owner is at work what it has still to debit is
  exactly the part of the bill not yet charged; hence both the bound and the
  equality at the settle.
- *BillingTurn, rings.* Inductive by itself, given that `ring_deduct_pair` takes
  no more than remains at the moment of the update and that rolls only reset.
- *PromptFollowup, steers.* `SteerInv`: a row exists only after its put is through,
  and a drain that is about to mark a row has already written its message.
- *PromptFollowup, cap.* `CapInv` counts, with the pending rows of a run, the puts
  that have passed the check and not inserted: together at most
  `QueueMax + MaxPuts - 1`. The bound needs `MaxPuts >= InFlight`, its other half.
- *PromptFollowup, turns.* `TurnInv`: before the first prompt past the queue and
  the first lost finishing write at most one run is active, an executor in its turn has an active run, and the queue
  is served by one executor while no run is active. The run that `NextRun` inserts
  is thus alone.
- *PromptFollowup, order.* `OrderInv`, for any overlapping puts: what was accepted
  before a put began has its row (`AcceptedRows`) and a smaller number than the put
  reads, although several may read the same (`EarlierRows`); an executor works on
  rows of its own run and serves the queue of an ended one (`ExecRows`), a queued
  message is written by the last execution of its run (`ChatRows`), and neither in
  the transcript nor in the hands of a drain is a message whose earlier one is still
  to be drained (`ChatFirst`, `HandFirst`).
- *TaskRun, done.* `DoneInv`: a chunk whose start has begun either still holds a
  permit, or has been seen done, or is counted as bad, or its orchestrator has
  already left the loop; and once a shell chunk is done no step writes its row.
- *TaskRun, permits.* `BoundInv`: until the first cancel request the row of a chunk
  follows its worker (`RowFollows`: nobody else writes it), every chunk that is being
  started or active holds a permit while its orchestrator is in its loop
  (`BusyHolds`), and at most `Parallel` permits are held. `WaitDone` gives a permit
  back only when the row has ended, `WaitTimeout` only when no worker is left.
- *TaskRun, reservations.* `HoldInv`: a worker past the billing of its run has closed
  the reservation or had none, and the reservation of the chat turn exists from the
  start. A start inserts a reservation only where there is none, under `OwnReqs` only
  that of its own run, and every other step can only close one.
- *Payments, settled.* `CreateFail` sets an order to `failed` without looking at
  it, so that a settled order stays settled needs `LinkInv`: a notification of a
  payment exists only for a page the customer was given, which happens when the
  put has returned and can no longer fail the order.
- *Payments, refinement.* `StepCases`: every step credits one order, closes one,
  pays one owner or leaves what the mapping shows alone. A declined withdrawal
  moves `pending` back to `available`, an approved one takes it away; both need
  `DrawInv`: an owner has at most one pending request and `pending` is its amount.
- *Payments, sums.* The three properties are sums (`SumFunctionOnSet`) over finite
  sets of orders, owners or withdrawals. `SumTheorems` proves what is needed of
  such sums without an induction scheme: among the finite subsets for which a fact
  fails there is a minimal one, and taking an element out of it is a
  contradiction. `BalanceInv`, `EarnedInv` and `PoolInv` then follow one changed
  term at a time: a step settles one order or decides one withdrawal. `PoolInv`
  needs that only settled orders have accrual rows, that the uplines of a payer
  differ, and that flooring each of at most three parts keeps their sum below the
  pool (`ScaleBound`).
- *Plan.* `LockInv`: a row is locked exactly by the request between its lock and
  its commit, and while the account is locked its balance is the one that was
  read, and no hold is inserted that the check has not seen. The absolute write
  of the balance and the check of the purchase follow. `TiersAgree` follows since
  each transaction writes both rows when it commits. `QuotaInv` ties the counter
  of today to the turns admitted today, and later days are still empty.
- *Channel, turns.* `Agrees`: the timer of the debouncer is the one task of the
  pod that has not started, typing says that a turn is active, and never both.
  Aborting a timer and starting a turn are therefore exclusive, and a new timer
  is only set when no turn is active.
- *Channel, limit.* `WithinLimit` is not inductive: a turn takes its permit on the
  strength of what it has loaded before. `Counted`: what a turn at its exchange has
  counted was below the limit that was stored then, hence below the largest one;
  the exchange succeeds only if that is still the number of permits. `Kept`: every
  other step adds nothing to the tasks that hold or have counted permits.
- *Channel, stored.* `StoredInv`: the rows of a message and the calls that are
  about to store it are together no more than its mark and the marks that failed.

Only model-checked: liveness (`EveryRunEnds`, `StartedRunsEnd`, `PaidIsDecided`,
`RequestsEnd`, `DueIsAnswered`), which is beyond the prover, and everything in
[Further configurations](#further-configurations), where a counterexample is
what is shown.

## Not modelled

`PROJECT.json` gives a reason for every component left out. In short: prompt
text, LLM content, rendering, notifications and pushes (no durable state that a
property could be about); CRUD modules (one statement per request); device
programs and clients (their messages are inputs here); loss of the JetStream disk
and of database commits.

## Plan

Done: RunSpec and PromptRun, BillingTurn, PromptFollowup, TaskRun, Ledger and Payments, Plan,
Channel, their runs and proofs.

1. `TaskSchedule`: arm, fire, ack before processing, once-triggers, hydrate of
   schedules; every due trigger starts a run at most once.
2. `Delegate`: parents that hold permits while children need them; deadlock.
3. The scoped accounts in BillingTurn, trials and the admin's change in Plan,
   Google Play and refunds in Payments.
4. Proofs: a weaker promise of a run that survives stalls and replays (charged
   once, ended at least once); the chain of uplines without its limit of three; a
   bound on what runs at once that survives cancel requests in TaskRun.
