---------------------------- MODULE BillingTurn ----------------------------
(***************************************************************************)
(* The money of one paid account while prompt turns run: the gate that     *)
(* admits a turn, the escrow hold, and the usage report that charges it.   *)
(* mod_billing keeps it in four rows of the database: billing_account      *)
(* (balance, legacy allowance), billing_profile (the alien and frontier    *)
(* rings), billing_wallet (a second copy of the balance) and one           *)
(* billing_reservation and one billing_usage_dedupe row per req_id.        *)
(*                                                                         *)
(* A job is one execution of a turn.  A redelivered turn is executed       *)
(* again, also while its earlier execution still runs, so the jobs of one  *)
(* req_id are <<req_id, 1>>, <<req_id, 2>>, ...  Amounts are whole cents   *)
(* of USD, except balance, wallet, held and want, which are in the         *)
(* currency of the account.  Each SQL statement or transaction is one      *)
(* action.                                                                 *)
(***************************************************************************)
EXTENDS Integers, FiniteSets, FiniteSetsExt

CONSTANTS
    Turns,          \* req_ids
    MaxAttempt,     \* bound: executions of one turn
    Hold,           \* hold_usd the caller asks for, by turn
    DefaultHold,    \* DEFAULT_HOLD_USD
    Asked,          \* pool of the model given to the hold gate, "none" if none
    Pool,           \* pool of the model that answers the turn
    Limit,          \* limit of each window of each allowance
    Currency,       \* billing_currency of the account
    Fx,             \* native units of one cent of USD when Currency = "IDR"
    InitBalance,    \* balance of the account before the first turn
    InitUsed,       \* what earlier turns have used of each window
    Costs,          \* possible costs of a turn
    TopupAmount,    \* what one top-up credits
    Budget          \* bound: how often the environment may act

Rings == {"alien", "frontier"}
Allowances == Rings \cup {"legacy"}
Windows == {"h5", "week"}
Rows == {"profile", "account"}
RowOf(p) == IF p \in Rings THEN "profile" ELSE "account"
Events == {"topup", "expire", "legacy", "mirror"}
Jobs == Turns \X (1..MaxAttempt)
Req(j) == j[1]

ASSUME TurnsAssumption == IsFiniteSet(Turns)
ASSUME AttemptAssumption == MaxAttempt \in Nat \ {0}
ASSUME HoldAssumption == Hold \in [Turns -> Nat \ {0}] /\ DefaultHold \in Nat \ {0}
ASSUME AskedAssumption == Asked \in [Turns -> Rings \cup {"none"}]
ASSUME PoolAssumption == Pool \in [Turns -> Rings]
ASSUME LimitAssumption == Limit \in [Allowances -> [Windows -> Nat]]
ASSUME UsedAssumption ==
    /\ InitUsed \in [Allowances -> [Windows -> Nat]]
    /\ \A p \in Allowances, w \in Windows : InitUsed[p][w] <= Limit[p][w]
ASSUME CurrencyAssumption == Currency \in {"USD", "IDR"} /\ Fx \in Nat \ {0}
ASSUME AmountAssumption ==
    InitBalance \in Nat /\ Costs \subseteq Nat /\ TopupAmount \in Nat
ASSUME BudgetAssumption == Budget \in [Events -> Nat]

Running == {"account", "profile", "decide", "hold", "insert", "turn", "log",
            "rings", "wallet", "mirror", "settle"}
PC == Running \cup {"idle", "refused", "unpaid", "done", "dead"}

VARIABLES
    balance,  \* billing_account.balance_usd or balance_idr
    wallet,   \* billing_wallet.balance in the same currency
    used,     \* the used columns of every allowance and window
    expired,  \* windows whose time is over and that nobody has rolled yet
    resv,     \* billing_reservation.status of each req_id
    held,     \* billing_reservation.held_usd or held_idr of each req_id
    dedupe,   \* req_ids with a row in billing_usage_dedupe
    bill,     \* cost_usd of that row
    ring,     \* history: cents a turn has taken from a ring
    debit,    \* history: cents a turn has been charged to the balance
    pc,       \* program point of each job
    phase,    \* whether a job has yet to run its turn or reports it
    seen,     \* account balance and legacy allowance a job has read
    rem,      \* ring allowance a job has read
    roll,     \* windows a job has found expired and will reset
    want,     \* hold a job is about to insert
    cost,     \* cost of a job's turn
    over,     \* cents a job's rings did not cover
    spent     \* events of the environment so far

rowVars == <<balance, wallet, used, expired>>
resvVars == <<resv, held>>
billVars == <<dedupe, bill, ring, debit>>
readVars == <<seen, rem, roll>>
jobVars == <<phase, seen, rem, roll, want, cost, over>>
vars == <<balance, wallet, used, expired, resv, held, dedupe, bill, ring, debit,
          pc, phase, seen, rem, roll, want, cost, over, spent>>

\* Every variable has its type; in particular no amount is ever negative,
\* although every debit is a subtraction on a row read earlier.
TypeOK ==
    /\ balance \in Nat
    /\ wallet \in Nat
    /\ used \in [Allowances -> [Windows -> Nat]]
    /\ expired \subseteq Rows \X Windows
    /\ resv \in [Turns -> {"none", "held", "settled", "refunded"}]
    /\ held \in [Turns -> Nat]
    /\ dedupe \subseteq Turns
    /\ bill \in [Turns -> Nat]
    /\ ring \in [Turns -> Nat]
    /\ debit \in [Turns -> Nat]
    /\ pc \in [Jobs -> PC]
    /\ phase \in [Jobs -> {"start", "report"}]
    /\ seen \in [Jobs -> [balance : Nat, legacy : Nat]]
    /\ rem \in [Jobs -> Nat]
    /\ roll \in [Jobs -> SUBSET (Rows \X Windows)]
    /\ want \in [Jobs -> Nat]
    /\ cost \in [Jobs -> Nat]
    /\ over \in [Jobs -> Nat]
    /\ spent \in [Events -> Nat]

Init ==
    /\ balance = InitBalance
    /\ wallet = InitBalance
    /\ used = InitUsed
    /\ expired = {}
    /\ resv = [t \in Turns |-> "none"]
    /\ held = [t \in Turns |-> 0]
    /\ dedupe = {}
    /\ bill = [t \in Turns |-> 0]
    /\ ring = [t \in Turns |-> 0]
    /\ debit = [t \in Turns |-> 0]
    /\ pc = [j \in Jobs |-> "idle"]
    /\ phase = [j \in Jobs |-> "start"]
    /\ seen = [j \in Jobs |-> [balance |-> 0, legacy |-> 0]]
    /\ rem = [j \in Jobs |-> 0]
    /\ roll = [j \in Jobs |-> {}]
    /\ want = [j \in Jobs |-> 0]
    /\ cost = [j \in Jobs |-> 0]
    /\ over = [j \in Jobs |-> 0]
    /\ spent = [e \in Events |-> 0]

-----------------------------------------------------------------------------
(* The arithmetic of billing_on_demand.rs and billing_profile.rs           *)

\* Mutant of Less: the difference may be negative.
LessUnclamped(a, b) == a - b
\* a - b, but never below zero: f64::max(0.0) and SQL's GREATEST(.., 0).
Less(a, b) == IF a > b THEN a - b ELSE 0
Least(a, b) == IF a < b THEN a ELSE b

\* usd_to_native: cents of USD in the currency of the account.
Native(usd) == IF Currency = "IDR" THEN usd * Fx ELSE usd

\* allowance_remaining of allowance p when u are the used columns.
Remaining(u, p) == Least(Less(Limit[p]["h5"], u[p]["h5"]),
                         Less(Limit[p]["week"], u[p]["week"]))

\* The rings the gates count: one pool's when they know the model, else both.
RingRemaining(u, asked) ==
    IF asked = "none" THEN Remaining(u, "alien") + Remaining(u, "frontier")
                      ELSE Remaining(u, asked)

\* hold_amounts: the part of a hold that the allowance does not cover.
HoldAmount(hold, allowance) == Native(Less(hold, allowance))

\* gate_can_start
CanStart(allowance, bal, heldTotal, hold) ==
    IF hold = 0 THEN allowance > 0 \/ Less(bal, heldTotal) > 0
                ELSE Less(bal, heldTotal) >= hold

\* The used columns after the windows ws have been reset.
Rolled(u, ws) == [p \in Allowances |->
                     [w \in Windows |-> IF <<RowOf(p), w>> \in ws THEN 0 ELSE u[p][w]]]

Expired(row) == {e \in expired : e[1] = row}

Held == {t \in Turns : resv[t] = "held"}
\* billing_held_totals
HeldTotal == MapThenSumSet(LAMBDA t : held[t], Held)

\* Mutant of RingTake: only the 5-hour window bounds what the ring pays.
RingTakeShort(u, p, c) == Least(c, Less(Limit[p]["h5"], u[p]["h5"]))
\* ring_deduct_pair: what pool p pays of a cost, and its columns afterwards.
RingTake(u, p, c) == Least(c, Remaining(u, p))
RingDeducted(u, p, take) == [u EXCEPT ![p] = [w \in Windows |-> u[p][w] + take]]

Spend(e) ==
    /\ spent[e] < Budget[e]
    /\ spent' = [spent EXCEPT ![e] = @ + 1]

Goto(j, to) == pc' = [pc EXCEPT ![j] = to]

-----------------------------------------------------------------------------
(* The gate: billing_gate_scoped -> billing_gate_model(.., None)           *)

\* A turn is executed, for the first time or again after a redelivery.
Start(j) ==
    /\ pc[j] = "idle"
    /\ Goto(j, "account")
    /\ UNCHANGED <<rowVars, resvVars, billVars, jobVars, spent>>

\* billing_account_ensure: the account row, its expired windows reset.
GateAccount(j) ==
    LET u == Rolled(used, Expired("account")) IN
    /\ pc[j] = "account"
    /\ used' = u
    /\ expired' = expired \ Expired("account")
    /\ seen' = [seen EXCEPT ![j] = [balance |-> balance,
                                    legacy |-> Remaining(u, "legacy")]]
    /\ Goto(j, "profile")
    /\ UNCHANGED <<balance, wallet, resvVars, billVars, phase, rem, roll, want,
                   cost, over, spent>>

\* billing_profile_fetch: which windows have to be rolled is decided here,
\* on the row as it is now; the UPDATE comes later.
GateProfile(j) ==
    /\ pc[j] = "profile"
    /\ roll' = [roll EXCEPT ![j] = Expired("profile")]
    /\ rem' = [rem EXCEPT ![j] =
                  RingRemaining(Rolled(used, Expired("profile")), "none")]
    /\ Goto(j, "decide")
    /\ UNCHANGED <<rowVars, resvVars, billVars, phase, seen, want, cost, over, spent>>

GateAdmits(j) ==
    \/ rem[j] >= DefaultHold
    \/ CanStart(rem[j], seen[j].balance, HeldTotal, HoldAmount(DefaultHold, rem[j]))

\* billing_profile_windows_roll writes the reset, then the gate decides.  A
\* usage report passes the same gate before it charges anything.
GateDecide(j) ==
    /\ pc[j] = "decide"
    /\ used' = Rolled(used, roll[j])
    /\ expired' = expired \ roll[j]
    /\ Goto(j, CASE phase[j] = "start" /\ GateAdmits(j) -> "hold"
                 [] phase[j] = "start" /\ ~GateAdmits(j) -> "refused"
                 [] phase[j] = "report" /\ GateAdmits(j) -> "log"
                 [] phase[j] = "report" /\ ~GateAdmits(j) -> "unpaid")
    /\ UNCHANGED <<balance, wallet, resvVars, billVars, jobVars, spent>>

-----------------------------------------------------------------------------
(* The escrow hold: billing_gate_with_hold_model_opt                       *)

\* The fast path looks at the allowance of the account row, not at the rings.
HoldBypass(j) ==
    /\ pc[j] = "hold"
    /\ Asked[Req(j)] # "frontier"
    /\ seen[j].legacy >= Hold[Req(j)]
    /\ Goto(j, "turn")
    /\ UNCHANGED <<rowVars, resvVars, billVars, jobVars, spent>>

\* The allowance left when every hold in flight is expected to use one hold.
EffectiveAllowance(u, t) ==
    Less(RingRemaining(u, Asked[t]), Cardinality(Held) * Hold[t])

\* A USD balance is the one of the gate's row, an IDR balance is read again.
HoldBalance(j) == IF Currency = "IDR" THEN balance ELSE seen[j].balance

\* The five queries of tokio::join! and the decision taken on them.
HoldRead(j) ==
    LET t == Req(j)
        u == Rolled(used, Expired("profile"))
        allowance == EffectiveAllowance(u, t)
        hold == HoldAmount(Hold[t], allowance)
    IN
    /\ pc[j] = "hold"
    /\ Asked[t] = "frontier" \/ seen[j].legacy < Hold[t]
    /\ used' = u
    /\ expired' = expired \ Expired("profile")
    /\ \/ /\ resv[t] \in {"held", "settled"}
          /\ Goto(j, "turn")
          /\ UNCHANGED want
       \/ /\ resv[t] \notin {"held", "settled"}
          /\ ~CanStart(allowance, HoldBalance(j), HeldTotal, hold)
          /\ Goto(j, "refused")
          /\ UNCHANGED want
       \/ /\ resv[t] \notin {"held", "settled"}
          /\ CanStart(allowance, HoldBalance(j), HeldTotal, hold)
          /\ Goto(j, IF hold = 0 THEN "turn" ELSE "insert")
          /\ want' = [want EXCEPT ![j] = hold]
    /\ UNCHANGED <<balance, wallet, resvVars, billVars, phase, readVars, cost, over, spent>>

\* Mutant of HoldInsert: ON CONFLICT (req_id) DO UPDATE SET status = 'held'.
HoldUpsert(j) ==
    LET t == Req(j) IN
    /\ pc[j] = "insert"
    /\ resv' = [resv EXCEPT ![t] = "held"]
    /\ held' = [held EXCEPT ![t] = want[j]]
    /\ Goto(j, "turn")
    /\ UNCHANGED <<rowVars, billVars, jobVars, spent>>

\* INSERT .. ON CONFLICT (req_id) DO NOTHING
HoldInsert(j) ==
    LET t == Req(j) IN
    /\ pc[j] = "insert"
    /\ \/ /\ resv[t] = "none"
          /\ resv' = [resv EXCEPT ![t] = "held"]
          /\ held' = [held EXCEPT ![t] = want[j]]
       \/ resv[t] # "none" /\ UNCHANGED resvVars
    /\ Goto(j, "turn")
    /\ UNCHANGED <<rowVars, billVars, jobVars, spent>>

-----------------------------------------------------------------------------
(* The end of the turn and the usage report                                *)

\* billing_reservation_refund
TurnErr(j) ==
    LET t == Req(j) IN
    /\ pc[j] = "turn"
    /\ resv' = [resv EXCEPT ![t] = IF @ = "held" THEN "refunded" ELSE @]
    /\ Goto(j, "done")
    /\ UNCHANGED <<rowVars, held, billVars, jobVars, spent>>

\* The answer is there; billing_usage_report begins with the gate.
TurnOk(j) ==
    /\ pc[j] = "turn"
    /\ \E c \in Costs : cost' = [cost EXCEPT ![j] = c]
    /\ phase' = [phase EXCEPT ![j] = "report"]
    /\ Goto(j, "account")
    /\ UNCHANGED <<rowVars, resvVars, billVars, readVars, want, over, spent>>

\* Mutant of ReportNothing: a repeated report settles the hold as well.
ReportNothingSettles(j) ==
    LET t == Req(j) IN
    /\ pc[j] = "log"
    /\ cost[j] = 0 \/ t \in dedupe
    /\ resv' = [resv EXCEPT ![t] = IF @ = "held" THEN "settled" ELSE @]
    /\ Goto(j, "done")
    /\ UNCHANGED <<rowVars, held, billVars, jobVars, spent>>

\* A turn that costs nothing or is in billing_usage_dedupe is not charged.
ReportNothing(j) ==
    /\ pc[j] = "log"
    /\ cost[j] = 0 \/ Req(j) \in dedupe
    /\ Goto(j, "done")
    /\ UNCHANGED <<rowVars, resvVars, billVars, jobVars, spent>>

\* Mutant of ReportDedupe: rows_affected() of the insert is not looked at.
ReportDedupeIgnored(j) ==
    LET t == Req(j) IN
    /\ pc[j] = "log"
    /\ cost[j] > 0
    /\ dedupe' = dedupe \cup {t}
    /\ bill' = [bill EXCEPT ![t] = IF t \in dedupe THEN @ ELSE cost[j]]
    /\ Goto(j, "rings")
    /\ UNCHANGED <<rowVars, resvVars, ring, debit, jobVars, spent>>

\* INSERT INTO billing_usage_dedupe has inserted the row.
ReportDedupe(j) ==
    LET t == Req(j) IN
    /\ pc[j] = "log"
    /\ cost[j] > 0
    /\ t \notin dedupe
    /\ dedupe' = dedupe \cup {t}
    /\ bill' = [bill EXCEPT ![t] = cost[j]]
    /\ Goto(j, "rings")
    /\ UNCHANGED <<rowVars, resvVars, ring, debit, jobVars, spent>>

\* billing_profile_deduct_rings: one transaction on the locked profile row.
ReportRings(j) ==
    LET t == Req(j)
        u == Rolled(used, Expired("profile"))
        take == RingTake(u, Pool[t], cost[j])
    IN
    /\ pc[j] = "rings"
    /\ used' = RingDeducted(u, Pool[t], take)
    /\ expired' = expired \ Expired("profile")
    /\ ring' = [ring EXCEPT ![t] = @ + take]
    /\ over' = [over EXCEPT ![j] = cost[j] - take]
    /\ Goto(j, IF cost[j] - take > 0 THEN "wallet" ELSE "settle")
    /\ UNCHANGED <<balance, wallet, resvVars, dedupe, bill, debit, phase, readVars,
                   want, cost, spent>>

\* UPDATE billing_account SET balance = GREATEST(balance - overflow, 0)
ReportWallet(j) ==
    LET t == Req(j) IN
    /\ pc[j] = "wallet"
    /\ balance' = Less(balance, Native(over[j]))
    /\ debit' = [debit EXCEPT ![t] = @ + over[j]]
    /\ Goto(j, "mirror")
    /\ UNCHANGED <<wallet, used, expired, resvVars, dedupe, bill, ring, jobVars, spent>>

\* The same debit on billing_wallet.
ReportMirror(j) ==
    /\ pc[j] = "mirror"
    /\ wallet' = Less(wallet, Native(over[j]))
    /\ Goto(j, "settle")
    /\ UNCHANGED <<balance, used, expired, resvVars, billVars, jobVars, spent>>

\* The debit on billing_wallet fails and `let _ =` drops the error.
ReportMirrorLost(j) ==
    /\ pc[j] = "mirror"
    /\ Spend("mirror")
    /\ Goto(j, "settle")
    /\ UNCHANGED <<rowVars, resvVars, billVars, jobVars>>

\* billing_reservation_settle
ReportSettle(j) ==
    LET t == Req(j) IN
    /\ pc[j] = "settle"
    /\ resv' = [resv EXCEPT ![t] = IF @ = "held" THEN "settled" ELSE @]
    /\ Goto(j, "done")
    /\ UNCHANGED <<rowVars, held, billVars, jobVars, spent>>

-----------------------------------------------------------------------------
(* The rest of the system                                                  *)

\* The pod dies: the job stops where it is.
Crash(j) ==
    /\ pc[j] \in Running
    /\ Goto(j, "dead")
    /\ UNCHANGED <<rowVars, resvVars, billVars, jobVars, spent>>

\* billing_topup_settle credits both rows in one transaction, always in IDR.
Topup ==
    /\ Currency = "IDR"
    /\ Spend("topup")
    /\ balance' = balance + TopupAmount
    /\ wallet' = wallet + TopupAmount
    /\ UNCHANGED <<used, expired, resvVars, billVars, pc, jobVars>>

\* Five hours or a week have passed since a window began.
Expire(e) ==
    /\ e \notin expired
    /\ Spend("expire")
    /\ expired' = expired \cup {e}
    /\ UNCHANGED <<balance, wallet, used, resvVars, billVars, pc, jobVars>>

\* billing_deduct: other features charge the legacy allowance.
LegacySpend(c) ==
    LET u == Rolled(used, Expired("account")) IN
    /\ Spend("legacy")
    /\ used' = RingDeducted(u, "legacy", c)
    /\ expired' = expired \ Expired("account")
    /\ UNCHANGED <<balance, wallet, resvVars, billVars, pc, jobVars>>

Step(j) ==
    \/ Start(j) \/ GateAccount(j) \/ GateProfile(j) \/ GateDecide(j)
    \/ HoldBypass(j) \/ HoldRead(j) \/ HoldInsert(j)
    \/ TurnErr(j) \/ TurnOk(j)
    \/ ReportNothing(j) \/ ReportDedupe(j) \/ ReportRings(j) \/ ReportWallet(j)
    \/ ReportMirror(j) \/ ReportMirrorLost(j) \/ ReportSettle(j)
    \/ Crash(j)

Next ==
    \/ \E j \in Jobs : Step(j)
    \/ Topup
    \/ \E e \in Rows \X Windows : Expire(e)
    \/ \E c \in Costs : LegacySpend(c)

Spec == Init /\ [][Next]_vars

-----------------------------------------------------------------------------
(* Properties                                                              *)

\* However often a turn is executed and reported, and wherever its jobs die,
\* rings and balance together are never charged more than the one bill that
\* billing_usage_dedupe records for the req_id.
NeverOvercharged == \A t \in Turns : ring[t] + debit[t] <= bill[t]

\* A reservation is settled only once the whole bill of its turn has been
\* charged: no hold is given back while part of the bill is still open, and a
\* report that found the turn billed already leaves the hold to the first one.
SettledInFull ==
    \A t \in Turns : resv[t] = "settled" => t \in dedupe /\ ring[t] + debit[t] = bill[t]

\* Concurrent reports and window rolls, late ones included, never push a ring
\* of the profile over its limit: what does not fit goes to the wallet.
RingsWithinLimits ==
    \A p \in Rings, w \in Windows : used[p][w] <= Limit[p][w]

\* Whenever no debit is under way the two copies of the balance agree: billing_account,
\* which the gates read, and billing_wallet, which the user sees and domain
\* purchases debit.
WalletAgrees == (\A j \in Jobs : pc[j] # "mirror") => wallet = balance

\* A settled or refunded reservation never changes again, and the amount of a
\* held one stays what the gate counted, whatever a second execution does.
ReservationIsFinal ==
    [][\A t \in Turns :
          /\ resv[t] \in {"settled", "refunded"} => resv'[t] = resv[t]
          /\ resv[t] # "none" => held'[t] = held[t]]_vars

\* Holds are taken against money that is there: when a hold is inserted, all
\* held amounts together are covered by the balance.
HoldsAreCovered ==
    [][\A t \in Turns : resv[t] = "none" /\ resv'[t] = "held" => HeldTotal' <= balance']_vars

\* A turn starts without a hold only when the plan allowance still covers one.
BypassHasAllowance ==
    [][\A j \in Jobs : pc[j] = "hold" /\ pc'[j] = "turn" /\ resv[Req(j)] = "none"
          => RingRemaining(used', "none") >= Hold[Req(j)]]_vars

\* The meter of a ring goes down only when the time of its window is over: a
\* charge made in the running window stays on the meter until the window ends.
MeterKeepsCharges ==
    [][\A p \in Rings, w \in Windows :
          used'[p][w] < used[p][w] => <<RowOf(p), w>> \in expired]_vars

\* A turn that was admitted and answered is logged and charged: its usage
\* report is not turned away by the gate.
AnsweredIsReported == \A j \in Jobs : pc[j] # "unpaid"
=============================================================================
