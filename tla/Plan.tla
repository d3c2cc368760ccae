-------------------------------- MODULE Plan --------------------------------
(***************************************************************************)
(* The subscription of one owner: plan changes and their quotes, the lapse *)
(* of an expired plan with its renewal, and the daily freemium quota that  *)
(* applies when there is no paid plan.                                     *)
(*                                                                         *)
(* Requests overlap. A quote is read outside of the transaction that       *)
(* charges it; the transaction of a change locks the account row first and *)
(* the profile row last, the one of a lapse locks them in the other order. *)
(* What a transaction writes is seen when it commits. A transaction holds  *)
(* a connection of the pool, and a change needs a second one inside of it. *)
(* Amounts are rupiah; time is counted in days. No signup trial is modelled.*)
(***************************************************************************)
EXTENDS Integers, FiniteSets

CONSTANTS
    Requests,     \* requests that may be handled at the same time
    Plans,        \* paid plans: a slug with a billing period
    Free,         \* the tier without a plan
    None,         \* nobody, nothing
    Slug,         \* slug of a plan
    Rank,         \* tier_rank of a slug
    Price,        \* price of a plan
    Days,         \* days of its billing period
    Start,        \* balance at the start
    TopupAmount,  \* what a top-up credits
    PoolSize,     \* connections of the pool
    MsgsPerDay,   \* FREEMIUM_MSGS_PER_DAY
    TokensPerDay, \* FREEMIUM_TOKENS_PER_DAY
    Estimate,     \* FREEMIUM_TURN_TOKEN_ESTIMATE
    TurnTokens,   \* bound: tokens a turn may report
    Horizon,      \* bound: the last day
    Budget        \* bound: how many requests, top-ups and holds there are

Events == {"request", "topup", "hold"}
Jobs == {"change", "lapse", "reserve", "tokens"}

ASSUME PlanAssumption ==
    /\ Free \notin Plans /\ None \notin Plans /\ Free # None
    /\ Rank \in [{Slug[p] : p \in Plans} -> Nat \ {0}]
    /\ \A p, q \in Plans : Rank[Slug[p]] = Rank[Slug[q]] => Slug[p] = Slug[q]
    /\ Price \in [Plans -> Nat] /\ Days \in [Plans -> Nat \ {0}]
ASSUME RequestAssumption == None \notin Requests
ASSUME MoneyAssumption == Start \in Nat /\ TopupAmount \in Nat
ASSUME QuotaAssumption ==
    /\ MsgsPerDay \in Nat /\ TokensPerDay \in Nat /\ Estimate \in Nat
    /\ TurnTokens \subseteq Nat /\ Horizon \in Nat
ASSUME PoolAssumption == PoolSize \in Nat /\ Budget \in [Events -> Nat]

VARIABLES
    balance,  \* ai.billing_account.balance_idr
    tier,     \* ai.billing_account.plan_tier
    profile,  \* ai.billing_profile: plan, the day it expires or 0, the pending plan
    quota,    \* freemium columns of ai.billing_profile
    held,     \* money held for running turns, billing_held_totals
    lock,     \* which request has locked the account row, the profile row
    req,      \* each request: job, place and what it has read
    now,      \* today
    moved,    \* history: top-ups less usage
    charged,  \* history: what plan changes charged
    admitted, \* history: freemium turns admitted on each day
    spent     \* events that have happened

vars == <<balance, tier, profile, quota, held, lock, req, now, moved, charged, admitted, spent>>
bookVars == <<moved, charged, admitted>>

Kinds == {"none", "subscribe", "upgrade", "downgrade", "cancel"}
Places == {"idle", "lapse_read", "lapse_pending", "renew", "quote", "keep", "begin", "lock",
           "check", "apply", "lapse_begin", "lapse_account", "applies", "freemium"}
Quiet == [job |-> "lapse", at |-> "idle", target |-> None, kind |-> "none", charge |-> 0,
          keep |-> 0, seen |-> 0]

\* Every variable has its type; no balance is ever negative.
TypeOK ==
    /\ balance \in Nat
    /\ tier \in {Slug[p] : p \in Plans} \cup {Free}
    /\ profile \in [plan : Plans \cup {Free}, until : Nat, pending : Plans \cup {Free, None}]
    /\ quota \in [day : Nat, msgs : Nat, tokens : Nat]
    /\ held \in Nat
    /\ lock \in [account : Requests \cup {None}, profile : Requests \cup {None}]
    /\ req \in [Requests -> [job : Jobs, at : Places, target : Plans \cup {Free, None},
                             kind : Kinds, charge : Nat, keep : Nat, seen : Nat]]
    /\ now \in 0..Horizon
    /\ moved \in Int
    /\ charged \in Nat
    /\ admitted \in [0..Horizon -> Nat]
    /\ spent \in [Events -> Nat]

Paid(p) == p # Free
TierOf(p) == IF Paid(p) THEN Slug[p] ELSE Free
\* A plan without a day of expiry, plan_expires_ts NULL, does not expire.
Expired == profile.until # 0 /\ profile.until <= now

\* The rows as earlier requests have left them: no plan, or one with a day of
\* expiry or none and possibly a downgrade or a cancellation to come.
Init ==
    /\ balance = Start
    /\ profile \in {[plan |-> Free, until |-> 0, pending |-> None]} \cup
                   UNION {[plan : {p}, until : 0..Days[p], pending : (Plans \ {p}) \cup {Free, None}]
                             : p \in Plans}
    /\ Paid(profile.plan) /\ profile.pending \in Plans =>
          Rank[Slug[profile.pending]] <= Rank[Slug[profile.plan]]
    /\ tier = TierOf(profile.plan)
    /\ quota = [day |-> 0, msgs |-> 0, tokens |-> 0]
    /\ held = 0
    /\ lock = [account |-> None, profile |-> None]
    /\ req = [r \in Requests |-> Quiet]
    /\ now = 0
    /\ moved = 0 /\ charged = 0
    /\ admitted = [d \in 0..Horizon |-> 0]
    /\ spent = [e \in Events |-> 0]

Spend(e) ==
    /\ spent[e] < Budget[e]
    /\ spent' = [spent EXCEPT ![e] = @ + 1]

At(r, place) == req[r].at = place
Goto(r, place) == req' = [req EXCEPT ![r].at = place]

\* Where the request goes when billing_plan_lapse_if_expired has returned.
Lapsed(r) == IF req[r].job \in {"reserve", "tokens"} THEN [req[r] EXCEPT !.at = "applies"]
             ELSE Quiet
\* Where it goes when billing_plan_change or billing_plan_pending_apply has
\* failed: a renewal that fails is followed by the lapse.
Failed(r) == IF req[r].job = "change" \/ (req[r].target = None /\ req[r].at # "renew") THEN Quiet
             ELSE [req[r] EXCEPT !.at = "lapse_begin", !.target = None, !.kind = "none",
                              !.charge = 0, !.keep = 0, !.seen = 0]
Renewed(r) == IF req[r].job = "lapse" THEN Quiet
              ELSE [Quiet EXCEPT !.job = req[r].job, !.at = "applies"]
Finish(r, next) == req' = [req EXCEPT ![r] = next]

Unlocked(r) == [row \in DOMAIN lock |-> IF lock[row] = r THEN None ELSE lock[row]]
Release(r) == lock' = Unlocked(r)

InTransaction == {r \in Requests : req[r].at \in {"lock", "check", "apply", "lapse_account"}}
ConnectionFree == Cardinality(InTransaction) < PoolSize

-----------------------------------------------------------------------------
(* billing_plan_change: quote_calc, then the transaction                   *)

\* classify_change
Classify(target) ==
    LET p == profile.plan
    IN  CASE target = Free -> "cancel"
          [] target # Free /\ (~Paid(p) \/ Expired) -> "subscribe"
          [] target # Free /\ Paid(p) /\ ~Expired /\ target = p -> "same"
          [] target # Free /\ Paid(p) /\ ~Expired /\ target # p ->
                IF Rank[Slug[target]] > Rank[Slug[p]] THEN "upgrade" ELSE "downgrade"

\* prorate_credit_idr: what is left of the running plan.
Credit == IF profile.until = 0 THEN 0
          ELSE (Price[profile.plan] * (profile.until - now)) \div Days[profile.plan]

Charge(target, kind) ==
    LET due == IF kind = "upgrade" THEN Price[target] - Credit ELSE Price[target]
    IN  IF kind \in {"cancel", "downgrade"} \/ due < 0 THEN 0 ELSE due

\* The customer asks for a plan, or for none.
ChangeStart(r, target) ==
    /\ At(r, "idle")
    /\ Spend("request")
    /\ Finish(r, [Quiet EXCEPT !.job = "change", !.at = "quote", !.target = target])
    /\ UNCHANGED <<balance, tier, profile, quota, held, lock, now, bookVars>>

\* quote_calc reads the profile. The second read of the profile is for the day
\* of expiry that an upgrade keeps.
ChangeQuote(r) ==
    LET target == req[r].target
        kind == Classify(target)
        refused == kind = "same" \/ (kind = "cancel" /\ ~Paid(profile.plan))
    IN
    /\ At(r, "quote")
    /\ Finish(r, IF refused THEN Failed(r)
                 ELSE [req[r] EXCEPT !.kind = kind, !.charge = Charge(target, kind),
                                     !.at = IF kind = "upgrade" THEN "keep" ELSE "begin"])
    /\ UNCHANGED <<balance, tier, profile, quota, held, lock, now, bookVars, spent>>

ChangeKeep(r) ==
    /\ At(r, "keep")
    /\ Finish(r, [req[r] EXCEPT !.keep = profile.until, !.at = "begin"])
    /\ UNCHANGED <<balance, tier, profile, quota, held, lock, now, bookVars, spent>>

ChangeBegin(r) ==
    /\ At(r, "begin")
    /\ ConnectionFree
    /\ Goto(r, "lock")
    /\ UNCHANGED <<balance, tier, profile, quota, held, lock, now, bookVars, spent>>

\* Mutant of ChangeLock: the account is read without FOR UPDATE.
ChangeLockNot(r) ==
    /\ At(r, "lock")
    /\ Finish(r, [req[r] EXCEPT !.seen = balance, !.at = "check"])
    /\ UNCHANGED <<balance, tier, profile, quota, held, lock, now, bookVars, spent>>

\* SELECT ... FROM ai.billing_account FOR UPDATE. A cancellation or downgrade
\* needs a paid tier in the account row.
ChangeLock(r) ==
    /\ At(r, "lock") /\ lock.account = None
    /\ IF req[r].kind \in {"cancel", "downgrade"} /\ tier = Free
       THEN Finish(r, Failed(r)) /\ UNCHANGED lock
       ELSE /\ Finish(r, [req[r] EXCEPT !.seen = balance, !.at = "check"])
            /\ lock' = [lock EXCEPT !.account = r]
    /\ UNCHANGED <<balance, tier, profile, quota, held, now, bookVars, spent>>

\* Mutant of ChangeCheck: the money held for running turns is not looked at.
ChangeCheckAll(r) ==
    /\ At(r, "check") /\ ConnectionFree
    /\ IF req[r].seen < req[r].charge
       THEN Finish(r, Failed(r)) /\ Release(r)
       ELSE Goto(r, "apply") /\ UNCHANGED lock
    /\ UNCHANGED <<balance, tier, profile, quota, held, now, bookVars, spent>>

\* Mutant of ChangeCheck: the transaction is left open when it is refused.
ChangeCheckOpen(r) ==
    /\ At(r, "check") /\ ConnectionFree
    /\ IF req[r].charge > 0 /\ req[r].seen - held < req[r].charge
       THEN Finish(r, Failed(r)) ELSE Goto(r, "apply")
    /\ UNCHANGED <<balance, tier, profile, quota, held, lock, now, bookVars, spent>>

\* Another connection of the pool reads the price and the limits, or ensures
\* the profile of a cancellation or downgrade; the holds are read inside the
\* transaction, and the balance must cover the charge.
ChangeCheck(r) ==
    /\ At(r, "check") /\ ConnectionFree
    /\ IF req[r].charge > 0 /\ req[r].seen - held < req[r].charge
       THEN Finish(r, Failed(r)) /\ Release(r)
       ELSE Goto(r, "apply") /\ UNCHANGED lock
    /\ UNCHANGED <<balance, tier, profile, quota, held, now, bookVars, spent>>

\* apply_immediate_plan, which writes the balance it has computed, or the
\* pending plan of a cancellation or downgrade; and the commit. The UPDATE of
\* the profile waits for its row. An upgrade keeps the day of expiry, unless
\* the plan had lapsed by the second read. What the purchase earns the uplines
\* of the owner is credited to their accounts.
ChangeApply(r) ==
    LET q == req[r]
    IN
    /\ At(r, "apply") /\ lock.profile = None
    /\ IF q.kind \in {"cancel", "downgrade"}
       THEN /\ profile' = [profile EXCEPT !.pending = q.target]
            /\ UNCHANGED <<balance, tier, charged>>
       ELSE /\ balance' = q.seen - q.charge
            /\ charged' = charged + q.charge
            /\ tier' = Slug[q.target]
            /\ profile' = [plan |-> q.target, pending |-> None,
                           until |-> IF q.kind = "upgrade" /\ q.keep > 0 THEN q.keep
                                     ELSE now + Days[q.target]]
    /\ Release(r)
    /\ Finish(r, IF q.job = "change" THEN Quiet ELSE Renewed(r))
    /\ UNCHANGED <<quota, held, now, moved, admitted, spent>>

-----------------------------------------------------------------------------
(* billing_plan_lapse_if_expired                                           *)

\* A page of the account, a gate or a report of a turn starts with it.
LapseStart(r, job) ==
    /\ At(r, "idle")
    /\ Spend("request")
    /\ Finish(r, [Quiet EXCEPT !.job = job, !.at = "lapse_read"])
    /\ UNCHANGED <<balance, tier, profile, quota, held, lock, now, bookVars>>

LapseRead(r) ==
    /\ At(r, "lapse_read")
    /\ Finish(r, IF Paid(profile.plan) /\ Expired THEN [req[r] EXCEPT !.at = "lapse_pending"]
                 ELSE Lapsed(r))
    /\ UNCHANGED <<balance, tier, profile, quota, held, lock, now, bookVars, spent>>

LapsePending(r) ==
    /\ At(r, "lapse_pending")
    /\ Goto(r, IF profile.pending \in Plans THEN "renew" ELSE "lapse_begin")
    /\ UNCHANGED <<balance, tier, profile, quota, held, lock, now, bookVars, spent>>

\* billing_plan_pending_apply: the pending plan is read again; when it is gone
\* the renewal has succeeded without doing anything.
LapseRenew(r) ==
    /\ At(r, "renew")
    /\ Finish(r, IF profile.pending \in Plans
                 THEN [req[r] EXCEPT !.at = "quote", !.target = profile.pending]
                 ELSE Lapsed(r))
    /\ UNCHANGED <<balance, tier, profile, quota, held, lock, now, bookVars, spent>>

\* UPDATE ai.billing_profile: it locks the row, and what it writes does not
\* depend on what is there by now.
LapseBegin(r) ==
    /\ At(r, "lapse_begin")
    /\ ConnectionFree /\ lock.profile = None
    /\ lock' = [lock EXCEPT !.profile = r]
    /\ Goto(r, "lapse_account")
    /\ UNCHANGED <<balance, tier, profile, quota, held, now, bookVars, spent>>

\* Mutant of LapseCommit: the account row keeps its tier.
LapseCommitProfile(r) ==
    /\ At(r, "lapse_account") /\ lock.account = None
    /\ profile' = [plan |-> Free, until |-> 0, pending |-> None]
    /\ Release(r)
    /\ Finish(r, Lapsed(r))
    /\ UNCHANGED <<balance, tier, quota, held, now, bookVars, spent>>

\* UPDATE ai.billing_account and the commit.
LapseCommit(r) ==
    /\ At(r, "lapse_account") /\ lock.account = None
    /\ profile' = [plan |-> Free, until |-> 0, pending |-> None]
    /\ tier' = Free
    /\ Release(r)
    /\ Finish(r, Lapsed(r))
    /\ UNCHANGED <<balance, quota, held, now, bookVars, spent>>

-----------------------------------------------------------------------------
(* billing_freemium_reserve_turn, billing_freemium_add_tokens              *)

\* billing_freemium_applies, after the lapse: nothing to count on a paid plan.
FreemiumApplies(r) ==
    /\ At(r, "applies")
    /\ Finish(r, IF Paid(profile.plan) THEN Quiet ELSE [req[r] EXCEPT !.at = "freemium"])
    /\ UNCHANGED <<balance, tier, profile, quota, held, lock, now, bookVars, spent>>

Today == IF quota.day = now THEN quota ELSE [day |-> now, msgs |-> 0, tokens |-> 0]

\* One transaction with the profile row locked.
FreemiumReserve(r) ==
    /\ At(r, "freemium") /\ req[r].job = "reserve" /\ lock.profile = None
    /\ IF Today.msgs >= MsgsPerDay \/ Today.tokens + Estimate > TokensPerDay
       THEN UNCHANGED <<quota, admitted>>
       ELSE /\ quota' = [Today EXCEPT !.msgs = @ + 1]
            /\ admitted' = [admitted EXCEPT ![now] = @ + 1]
    /\ Finish(r, Quiet)
    /\ UNCHANGED <<balance, tier, profile, held, lock, now, moved, charged, spent>>

\* Mutant of FreemiumTokens: the counters start again at every report.
FreemiumTokensReset(r, n) ==
    /\ At(r, "freemium") /\ req[r].job = "tokens" /\ lock.profile = None
    /\ quota' = [day |-> now, msgs |-> 0, tokens |-> n]
    /\ Finish(r, Quiet)
    /\ UNCHANGED <<balance, tier, profile, held, lock, now, bookVars, spent>>

FreemiumTokens(r, n) ==
    /\ At(r, "freemium") /\ req[r].job = "tokens" /\ lock.profile = None
    /\ quota' = [Today EXCEPT !.tokens = @ + n]
    /\ Finish(r, Quiet)
    /\ UNCHANGED <<balance, tier, profile, held, lock, now, bookVars, spent>>

-----------------------------------------------------------------------------
(* Failures, and everything else that touches the rows                     *)

\* A statement fails, the connection does not come in time or Postgres breaks
\* a deadlock: the transaction is rolled back.
Fail(r) ==
    /\ ~At(r, "idle")
    /\ Release(r)
    /\ Finish(r, Failed(r))
    /\ UNCHANGED <<balance, tier, profile, quota, held, now, bookVars, spent>>

\* Two transactions that wait for each other's row.
Deadlocked(r) ==
    \E q \in Requests : /\ {q, r} = {lock.account, lock.profile} /\ q # r
                        /\ req[lock.account].at = "apply"
                        /\ req[lock.profile].at = "lapse_account"
\* Postgres aborts a deadlocked transaction, the pool gives up after its
\* acquire_timeout.
TimedOut(r) == \/ Deadlocked(r)
               \/ req[r].at \in {"begin", "check", "lapse_begin"} /\ ~ConnectionFree

\* topup_credit_and_accrue: UPDATE ... SET balance_idr = balance_idr + $1.
Topup ==
    /\ Spend("topup")
    /\ lock.account = None
    /\ balance' = balance + TopupAmount
    /\ moved' = moved + TopupAmount
    /\ UNCHANGED <<tier, profile, quota, held, lock, req, now, charged, admitted>>

\* A turn starts: the insert of its hold references the account, so it waits
\* while the row is locked FOR UPDATE.
TurnHold ==
    /\ Spend("hold")
    /\ lock.account = None
    /\ held' = held + 1
    /\ UNCHANGED <<balance, tier, profile, quota, lock, req, now, bookVars>>

\* Mutant of TurnEnd: the balance is not kept above zero.
TurnEndAny ==
    /\ held > 0 /\ lock.account = None
    /\ held' = held - 1
    /\ balance' = balance - 1
    /\ moved' = moved - 1
    /\ UNCHANGED <<tier, profile, quota, lock, req, now, charged, admitted, spent>>

\* A turn ends: GREATEST(balance_idr - $2, 0), and the hold is settled.
TurnEnd ==
    /\ held > 0 /\ lock.account = None
    /\ held' = held - 1
    /\ balance' = IF balance > 0 THEN balance - 1 ELSE 0
    /\ moved' = moved + (balance' - balance)
    /\ UNCHANGED <<tier, profile, quota, lock, req, now, charged, admitted, spent>>

Tick ==
    /\ now < Horizon
    /\ now' = now + 1
    /\ UNCHANGED <<balance, tier, profile, quota, held, lock, req, bookVars, spent>>

-----------------------------------------------------------------------------
Step(r) ==
    \/ ChangeQuote(r) \/ ChangeKeep(r) \/ ChangeBegin(r) \/ ChangeLock(r)
    \/ ChangeCheck(r) \/ ChangeApply(r)
    \/ LapseRead(r) \/ LapsePending(r) \/ LapseRenew(r) \/ LapseBegin(r) \/ LapseCommit(r)
    \/ FreemiumApplies(r) \/ FreemiumReserve(r)
    \/ \E n \in TurnTokens : FreemiumTokens(r, n)

Next ==
    \/ \E r \in Requests :
          \/ Step(r) \/ Fail(r)
          \/ \E target \in Plans \cup {Free} : ChangeStart(r, target)
          \/ \E job \in Jobs \ {"change"} : LapseStart(r, job)
    \/ Topup \/ TurnHold \/ TurnEnd \/ Tick

Spec == Init /\ [][Next]_vars

\* Requests run, and what waits too long is given up.
Fairness == \A r \in Requests : WF_vars(Step(r)) /\ WF_vars(TimedOut(r) /\ Fail(r))
FairSpec == Spec /\ Fairness

-----------------------------------------------------------------------------
(* Properties                                                              *)

\* A change writes the balance it has computed, others add to it and take from
\* it at the same time: no credit, usage or charge is lost.
MoneyExplained == balance = Start + moved - charged

\* A purchase leaves the money that is held for running turns.
PurchaseCovered == [][charged' > charged => balance' >= held]_vars

\* The account row and the profile row name the same tier, whichever of the
\* changes and lapses that touch both came last.
TiersAgree == tier = TierOf(profile.plan)

\* No day admits more freemium turns than its limit, however many turns start
\* at the same time and whenever the day ends.
DailyCap == \A d \in 0..Horizon : admitted[d] <= MsgsPerDay

\* No request waits for ever, for a row or for a connection.
RequestsEnd == \A r \in Requests : ~At(r, "idle") ~> At(r, "idle")

\* Only a plan that has expired lapses.
OnlyExpiredLapse ==
    [][Paid(profile.plan) /\ ~Paid(profile'.plan) => Expired]_vars

\* Nobody is charged for the plan that is already running.
NeverChargedTwice ==
    [][charged' > charged => ~(profile.plan = profile'.plan /\ ~Expired)]_vars
=============================================================================
