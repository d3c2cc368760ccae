------------------------------ MODULE Payments ------------------------------
(***************************************************************************)
(* Money that enters and leaves a billing account: manual and Midtrans     *)
(* top-up orders, the Midtrans webhook, the finance review, the commission *)
(* a top-up earns the payer's uplines, and its withdrawal.                 *)
(*                                                                         *)
(* Midtrans delivers a notification until it is answered with 200, may     *)
(* deliver it again after that, and keeps no order between notifications;  *)
(* webhook handlers overlap. billing_topup_settle reads the order, decides *)
(* and only then opens its transaction: two actions. A transaction that    *)
(* locks its row first is one action. Amounts are rupiah, one currency.    *)
(***************************************************************************)
EXTENDS Integers, FiniteSets, Functions

CONSTANTS
    Owners,      \* owners of billing accounts
    None,        \* no upline
    Manual,      \* orders paid by bank transfer and reviewed by finance
    Midtrans,    \* orders paid through Midtrans
    Payer,       \* owner of each order
    Amount,      \* amount_idr of each order
    Parent,      \* ai.identity.referred_by_iid
    Shares,      \* ai.referral_share at the start
    Percents,    \* percentages a parent may share with a child
    Draws,       \* bound: commission amounts that each owner withdraws
    Hooks,       \* webhook requests that may be handled at the same time
    Withdrawals, \* ids of commission withdrawals
    Budget       \* bound: how often each kind of fault or repeat may happen

Orders == Manual \cup Midtrans
Repeats == {"fault", "dup", "share"}

\* The uplines of u, nearest first; bound: three of them.
Up1(u) == Parent[u]
Up2(u) == IF Up1(u) = None THEN None ELSE Parent[Up1(u)]
Up3(u) == IF Up2(u) = None THEN None ELSE Parent[Up2(u)]
Up4(u) == IF Up3(u) = None THEN None ELSE Parent[Up3(u)]

ASSUME FiniteAssumption ==
    IsFiniteSet(Owners) /\ IsFiniteSet(Orders) /\ IsFiniteSet(Withdrawals)
ASSUME NoneAssumption == None \notin Owners
ASSUME OrderAssumption ==
    /\ Manual \cap Midtrans = {}
    /\ Payer \in [Orders -> Owners]
    /\ Amount \in [Orders -> Nat]
ASSUME UplineAssumption ==
    /\ Parent \in [Owners -> Owners \cup {None}]
    /\ \A u \in Owners : /\ u \notin {Up1(u), Up2(u), Up3(u)}
                         /\ Up4(u) = None
ASSUME DrawAssumption == Draws \in [Owners -> SUBSET (Nat \ {0})]
ASSUME ShareAssumption == Shares \subseteq [Owners -> 0..35] /\ Percents \subseteq 0..35
ASSUME RepeatAssumption == Budget \in [Repeats -> Nat]

Kinds == {"settlement", "challenge", "deny", "expire"}
Plans == {"none", "credit", "failed", "expired", "nothing"}
Notes == Midtrans \X Kinds

VARIABLES
    status,    \* ai.billing_topup_request.status; "none" before the insert
    creating,  \* Midtrans orders whose payment_create has not returned
    linked,    \* Midtrans orders whose payment page the customer has
    pay,       \* Midtrans: what became of the order there
    notes,     \* Midtrans: notifications it has to deliver
    answered,  \* notifications answered with 200
    rolled,    \* history: orders whose credit was answered but rolled back
    hook,      \* each webhook request: its notification and its SettlePlan
    balance,   \* ai.billing_account.balance_idr
    wallet,    \* ai.billing_wallet.balance
    available, \* commission_available_idr
    pending,   \* commission_pending_idr
    earned,    \* commission_earned_idr
    accrual,   \* accrual rows of ai.commission_ledger: amount by <<order, owner>>
    payout,    \* withdrawal rows of ai.commission_ledger
    request,   \* ai.commission_withdraw_request.status
    share,     \* ai.referral_share: percentage a child gets from its parent
    spent      \* faults and repeats that have happened

orderVars == <<status, creating, linked, pay, notes, rolled>>
moneyVars == <<balance, wallet, available, pending, earned, accrual>>
drawVars == <<payout, request>>
vars == <<status, creating, linked, pay, notes, answered, rolled, hook, balance, wallet,
          available, pending, earned, accrual, payout, request, share, spent>>

Idle == [note |-> <<>>, plan |-> "none"]

Payouts == [owner : Owners \cup {None}, amount : Nat,
            type : {"none", "payout_wallet", "payout_withdraw"},
            status : {"none", "available", "settled", "cancelled"}]

\* Every variable has its type; no amount is ever negative.
TypeOK ==
    /\ status \in [Orders -> {"none", "pending", "pending_review", "settled",
                              "expired", "failed", "rejected"}]
    /\ creating \subseteq Midtrans
    /\ linked \subseteq Midtrans
    /\ pay \in [Midtrans -> {"none", "open", "paid", "closed"}]
    /\ notes \subseteq Notes
    /\ answered \subseteq Notes
    /\ rolled \subseteq Midtrans
    /\ hook \in [Hooks -> {Idle} \cup [note : Notes, plan : Plans \ {"none"}]]
    /\ balance \in [Owners -> Nat]
    /\ wallet \in [Owners -> Nat]
    /\ available \in [Owners -> Nat]
    /\ pending \in [Owners -> Nat]
    /\ earned \in [Owners -> Nat]
    /\ accrual \in [Orders \X Owners -> Nat]
    /\ payout \in [Withdrawals -> Payouts]
    /\ request \in [Withdrawals -> {"none", "pending", "approved", "declined"}]
    /\ share \in [Owners -> 0..35]
    /\ spent \in [Repeats -> Nat]

Init ==
    /\ status = [o \in Orders |-> "none"]
    /\ creating = {}
    /\ linked = {}
    /\ pay = [o \in Midtrans |-> "none"]
    /\ notes = {}
    /\ answered = {}
    /\ rolled = {}
    /\ hook = [h \in Hooks |-> Idle]
    /\ balance = [u \in Owners |-> 0]
    /\ wallet = [u \in Owners |-> 0]
    /\ available = [u \in Owners |-> 0]
    /\ pending = [u \in Owners |-> 0]
    /\ earned = [u \in Owners |-> 0]
    /\ accrual = [x \in Orders \X Owners |-> 0]
    /\ payout = [w \in Withdrawals |->
                    [owner |-> None, amount |-> 0, type |-> "none", status |-> "none"]]
    /\ request = [w \in Withdrawals |-> "none"]
    /\ share \in Shares
    /\ spent = [k \in Repeats |-> 0]

Spend(k) ==
    /\ spent[k] < Budget[k]
    /\ spent' = [spent EXCEPT ![k] = @ + 1]

-----------------------------------------------------------------------------
(* Commission of a top-up: earn_chain, commission_accrue_on_topup_tx       *)

Greater(a, b) == IF a > b THEN a ELSE b

\* The part of the 35 percent that reaches u from above.
Incoming(u) == IF Parent[u] = None THEN 35 ELSE share[u]

\* What upline p of the chain earns: what reaches p less what p shares with c.
Raw(o, p, c) ==
    IF p = None THEN 0
    ELSE (Amount[o] * Greater(Incoming(p) - share[c], 0)) \div 100

Raw1(o) == Raw(o, Up1(Payer[o]), Payer[o])
Raw2(o) == Raw(o, Up2(Payer[o]), Up1(Payer[o]))
Raw3(o) == Raw(o, Up3(Payer[o]), Up2(Payer[o]))
Distributed(o) == Raw1(o) + Raw2(o) + Raw3(o)

\* The marketing pool of an order: 35 percent of it.
Pool(o) == (Amount[o] * 35) \div 100

\* Shares that do not grow towards the root promise more than the pool; then
\* every level is scaled down.
Scaled(o, e) == IF Distributed(o) > Pool(o) THEN (e * Pool(o)) \div Distributed(o)
                ELSE e

\* Mutant of Commission: the levels are not scaled to the pool.
CommissionUnscaled(o, u) ==
    CASE u = Up1(Payer[o]) -> Raw1(o)
      [] u = Up2(Payer[o]) -> Raw2(o)
      [] u = Up3(Payer[o]) -> Raw3(o)
      [] OTHER -> 0

Commission(o, u) ==
    CASE u = Up1(Payer[o]) -> Scaled(o, Raw1(o))
      [] u = Up2(Payer[o]) -> Scaled(o, Raw2(o))
      [] u = Up3(Payer[o]) -> Scaled(o, Raw3(o))
      [] OTHER -> 0

\* commission_credit_in_tx: nothing when the order has an accrual row of u.
Accrued(o, u) == IF accrual[<<o, u>>] = 0 THEN Commission(o, u) ELSE 0

\* topup_credit_and_accrue: the balance of the payer, and for every upline the
\* accrual row and the commission columns.
CreditAndAccrue(o) ==
    /\ balance' = [balance EXCEPT ![Payer[o]] = @ + Amount[o]]
    /\ accrual' = [x \in Orders \X Owners |->
                      IF x[1] = o THEN accrual[x] + Accrued(o, x[2]) ELSE accrual[x]]
    /\ available' = [u \in Owners |-> available[u] + Accrued(o, u)]
    /\ earned' = [u \in Owners |-> earned[u] + Accrued(o, u)]
    /\ UNCHANGED pending

-----------------------------------------------------------------------------
(* The customer: billing_topup_put                                         *)

\* billing_manual_topup_put.
PutManual(o) ==
    /\ o \in Manual /\ status[o] = "none"
    /\ status' = [status EXCEPT ![o] = "pending_review"]
    /\ UNCHANGED <<creating, linked, pay, notes, rolled, answered, hook, moneyVars, drawVars, share, spent>>

\* billing_midtrans_topup_put inserts the order, then calls payment_create.
PutMidtrans(o) ==
    /\ o \in Midtrans /\ status[o] = "none"
    /\ status' = [status EXCEPT ![o] = "pending"]
    /\ creating' = creating \cup {o}
    /\ UNCHANGED <<linked, pay, notes, rolled, answered, hook, moneyVars, drawVars, share, spent>>

\* payment_create returns; the customer gets the payment page.
CreateOk(o) ==
    /\ o \in creating /\ pay[o] # "none"
    /\ creating' = creating \ {o}
    /\ linked' = linked \cup {o}
    /\ UNCHANGED <<status, pay, notes, rolled, answered, hook, moneyVars, drawVars, share, spent>>

\* payment_create fails, whether or not Midtrans has the order: the row is set
\* to 'failed' without a condition, and the error of that write is dropped.
CreateFail(o) ==
    /\ o \in creating
    /\ Spend("fault")
    /\ creating' = creating \ {o}
    /\ \/ status' = [status EXCEPT ![o] = "failed"]
       \/ UNCHANGED status
    /\ UNCHANGED <<linked, pay, notes, rolled, answered, hook, moneyVars, drawVars, share>>

\* The pod dies while it waits for payment_create.
CreateCrash(o) ==
    /\ o \in creating
    /\ Spend("fault")
    /\ creating' = creating \ {o}
    /\ UNCHANGED <<status, linked, pay, notes, rolled, answered, hook, moneyVars, drawVars, share>>

-----------------------------------------------------------------------------
(* Midtrans, modelled from the statuses the webhook handles                *)

Notify(o, kind) == notes' = notes \cup {<<o, kind>>}

\* Midtrans opens the order that payment_create asks for.
ProviderOpen(o) ==
    /\ o \in creating /\ pay[o] = "none"
    /\ pay' = [pay EXCEPT ![o] = "open"]
    /\ UNCHANGED <<status, creating, linked, notes, rolled, answered, hook, moneyVars, drawVars, share, spent>>

\* The customer pays. An attempt may first be challenged, or be denied and
\* tried again on the same page.
ProviderPaid(o) ==
    /\ o \in linked /\ pay[o] = "open"
    /\ pay' = [pay EXCEPT ![o] = "paid"]
    /\ Notify(o, "settlement")
    /\ UNCHANGED <<status, creating, linked, rolled, answered, hook, moneyVars, drawVars, share, spent>>

ProviderAttempt(o, kind) ==
    /\ o \in linked /\ pay[o] = "open"
    /\ kind \in {"challenge", "deny"} /\ <<o, kind>> \notin notes
    /\ Notify(o, kind)
    /\ UNCHANGED <<status, creating, linked, pay, rolled, answered, hook, moneyVars, drawVars, share, spent>>

\* The order is not paid in time.
ProviderExpire(o) ==
    /\ pay[o] = "open"
    /\ pay' = [pay EXCEPT ![o] = "closed"]
    /\ Notify(o, "expire")
    /\ UNCHANGED <<status, creating, linked, rolled, answered, hook, moneyVars, drawVars, share, spent>>

-----------------------------------------------------------------------------
(* The webhook: webhook_midtrans, billing_topup_settle                     *)

\* settle_plan with is_paid_status: a challenged capture is not paid.
SettlePlan(s, kind) ==
    CASE s = "pending" /\ kind = "settlement" -> "credit"
      [] s = "pending" /\ kind = "expire" -> "expired"
      [] s = "pending" /\ kind = "deny" -> "failed"
      [] OTHER -> "nothing"

\* A notification is delivered: the order is read and the plan made. Midtrans
\* repeats what was not answered, and may repeat what was.
HookRead(h, n) ==
    /\ hook[h] = Idle
    /\ n \in notes
    /\ IF n \in answered THEN Spend("dup") ELSE UNCHANGED spent
    /\ hook' = [hook EXCEPT ![h] = [note |-> n, plan |-> SettlePlan(status[n[1]], n[2])]]
    /\ UNCHANGED <<orderVars, answered, moneyVars, drawVars, share>>

Answer(h) ==
    /\ answered' = answered \cup {hook[h].note}
    /\ hook' = [hook EXCEPT ![h] = Idle]

\* AlreadySettled and Ignore: answered, nothing done.
HookNothing(h) ==
    /\ hook[h].plan = "nothing"
    /\ Answer(h)
    /\ UNCHANGED <<orderVars, moneyVars, drawVars, share, spent>>

\* MarkExpired and MarkFailed: UPDATE ... WHERE status = 'pending', and 200
\* even when the update fails.
HookClose(h) ==
    /\ hook[h].plan \in {"failed", "expired"}
    /\ LET o == hook[h].note[1]
       IN  \/ /\ status' = [status EXCEPT ![o] = IF @ = "pending" THEN hook[h].plan ELSE @]
              /\ UNCHANGED spent
           \/ Spend("fault") /\ UNCHANGED status
    /\ Answer(h)
    /\ UNCHANGED <<creating, linked, pay, notes, rolled, moneyVars, drawVars, share>>

\* Mutant of HookCredit: the transaction trusts the status read before it.
HookCreditStale(h) ==
    /\ hook[h].plan = "credit"
    /\ LET o == hook[h].note[1]
       IN  /\ status' = [status EXCEPT ![o] = "settled"]
           /\ wallet' = [wallet EXCEPT ![Payer[o]] = @ + Amount[o]]
           /\ CreditAndAccrue(o)
    /\ Answer(h)
    /\ UNCHANGED <<creating, linked, pay, notes, rolled, drawVars, share, spent>>

\* The credit transaction: it settles the order if it is still 'pending'.
HookCredit(h) ==
    /\ hook[h].plan = "credit"
    /\ LET o == hook[h].note[1]
       IN  IF status[o] = "pending"
           THEN /\ status' = [status EXCEPT ![o] = "settled"]
                /\ wallet' = [wallet EXCEPT ![Payer[o]] = @ + Amount[o]]
                /\ CreditAndAccrue(o)
           ELSE UNCHANGED <<status, moneyVars>>
    /\ Answer(h)
    /\ UNCHANGED <<creating, linked, pay, notes, rolled, drawVars, share, spent>>

\* Mutant of HookError: a failed credit is answered with 200.
HookErrorAnswered(h) ==
    /\ hook[h].plan = "credit"
    /\ Spend("fault")
    /\ Answer(h)
    /\ UNCHANGED <<orderVars, moneyVars, drawVars, share>>

\* A statement of the credit fails: 500, and Midtrans will repeat it.
HookError(h) ==
    /\ hook[h].plan = "credit"
    /\ Spend("fault")
    /\ hook' = [hook EXCEPT ![h] = Idle]
    /\ UNCHANGED <<orderVars, answered, moneyVars, drawVars, share>>

\* The wallet upsert fails. Its error is dropped, but Postgres has aborted the
\* transaction: the commit rolls everything back and the answer is still 200.
HookRollback(h) ==
    /\ hook[h].plan = "credit" /\ status[hook[h].note[1]] = "pending"
    /\ Spend("fault")
    /\ Answer(h)
    /\ rolled' = rolled \cup {hook[h].note[1]}
    /\ UNCHANGED <<status, creating, linked, pay, notes, moneyVars, drawVars, share>>

\* The pod dies with the request.
HookCrash(h) ==
    /\ hook[h] # Idle
    /\ Spend("fault")
    /\ hook' = [hook EXCEPT ![h] = Idle]
    /\ UNCHANGED <<orderVars, answered, moneyVars, drawVars, share>>

-----------------------------------------------------------------------------
(* Finance: billing_topup_review, commission_withdraw_review               *)

Reviewable(o) == o \in Manual /\ status[o] \in {"pending", "pending_review"}

TopupReject(o) ==
    /\ Reviewable(o)
    /\ status' = [status EXCEPT ![o] = "rejected"]
    /\ UNCHANGED <<creating, linked, pay, notes, rolled, answered, hook, moneyVars, drawVars, share, spent>>

\* The approval credits the account, not the wallet row.
TopupApprove(o) ==
    /\ Reviewable(o)
    /\ status' = [status EXCEPT ![o] = "settled"]
    /\ CreditAndAccrue(o)
    /\ UNCHANGED <<creating, linked, pay, notes, rolled, answered, hook, wallet, drawVars, share, spent>>

\* commission_withdraw_review "decline": one transaction.
WithdrawDecline(w) ==
    /\ request[w] = "pending"
    /\ request' = [request EXCEPT ![w] = "declined"]
    /\ available' = [available EXCEPT ![payout[w].owner] = @ + payout[w].amount]
    /\ pending' = [pending EXCEPT ![payout[w].owner] = Greater(@ - payout[w].amount, 0)]
    /\ payout' = [payout EXCEPT ![w].status = IF @ = "available" THEN "cancelled" ELSE @]
    /\ UNCHANGED <<orderVars, answered, hook, balance, wallet, earned, accrual, share, spent>>

\* commission_withdraw_review "approve": one transaction.
WithdrawApprove(w) ==
    /\ request[w] = "pending"
    /\ request' = [request EXCEPT ![w] = "approved"]
    /\ pending' = [pending EXCEPT ![payout[w].owner] = Greater(@ - payout[w].amount, 0)]
    /\ payout' = [payout EXCEPT ![w].status = IF @ = "available" THEN "settled" ELSE @]
    /\ UNCHANGED <<orderVars, answered, hook, balance, wallet, available, earned, accrual, share, spent>>

-----------------------------------------------------------------------------
(* Uplines: commission_withdraw, referral_share_set                        *)

\* wallet_credit: the commission becomes balance at once.
WithdrawWallet(w, u, n) ==
    /\ payout[w].status = "none"
    /\ n <= available[u]
    /\ payout' = [payout EXCEPT ![w] = [owner |-> u, amount |-> n,
                                        type |-> "payout_wallet", status |-> "settled"]]
    /\ available' = [available EXCEPT ![u] = @ - n]
    /\ balance' = [balance EXCEPT ![u] = @ + n]
    /\ UNCHANGED <<orderVars, answered, hook, wallet, pending, earned, accrual, request, share, spent>>

PendingOf(u) == {w \in Withdrawals : request[w] = "pending" /\ payout[w].owner = u}

\* Mutant of WithdrawBank: the amount is not compared with what is available.
WithdrawBankUnchecked(w, u, n) ==
    /\ payout[w].status = "none"
    /\ PendingOf(u) = {}
    /\ payout' = [payout EXCEPT ![w] = [owner |-> u, amount |-> n,
                                        type |-> "payout_withdraw", status |-> "available"]]
    /\ request' = [request EXCEPT ![w] = "pending"]
    /\ available' = [available EXCEPT ![u] = @ - n]
    /\ pending' = [pending EXCEPT ![u] = @ + n]
    /\ UNCHANGED <<orderVars, answered, hook, balance, wallet, earned, accrual, share, spent>>

\* Mutant of WithdrawBank: the owner may have a pending request.
WithdrawBankSecond(w, u, n) ==
    /\ payout[w].status = "none"
    /\ n <= available[u]
    /\ payout' = [payout EXCEPT ![w] = [owner |-> u, amount |-> n,
                                        type |-> "payout_withdraw", status |-> "available"]]
    /\ request' = [request EXCEPT ![w] = "pending"]
    /\ available' = [available EXCEPT ![u] = @ - n]
    /\ pending' = [pending EXCEPT ![u] = @ + n]
    /\ UNCHANGED <<orderVars, answered, hook, balance, wallet, earned, accrual, share, spent>>

\* bank_transfer: the commission is pending until finance reviews it.
WithdrawBank(w, u, n) ==
    /\ payout[w].status = "none"
    /\ n <= available[u]
    /\ PendingOf(u) = {}
    /\ payout' = [payout EXCEPT ![w] = [owner |-> u, amount |-> n,
                                        type |-> "payout_withdraw", status |-> "available"]]
    /\ request' = [request EXCEPT ![w] = "pending"]
    /\ available' = [available EXCEPT ![u] = @ - n]
    /\ pending' = [pending EXCEPT ![u] = @ + n]
    /\ UNCHANGED <<orderVars, answered, hook, balance, wallet, earned, accrual, share, spent>>

\* A parent, or an admin, changes what a child gets.
ShareSet(c, percent) ==
    /\ Parent[c] # None /\ share[c] # percent
    /\ Spend("share")
    /\ share' = [share EXCEPT ![c] = percent]
    /\ UNCHANGED <<orderVars, answered, hook, moneyVars, drawVars>>

-----------------------------------------------------------------------------
HookStep(h) == HookNothing(h) \/ HookClose(h) \/ HookCredit(h)

Next ==
    \/ \E o \in Manual : PutManual(o) \/ TopupReject(o) \/ TopupApprove(o)
    \/ \E o \in Midtrans : \/ PutMidtrans(o) \/ CreateOk(o) \/ CreateFail(o)
                           \/ CreateCrash(o) \/ ProviderOpen(o) \/ ProviderPaid(o)
                           \/ ProviderExpire(o)
                           \/ \E kind \in {"challenge", "deny"} : ProviderAttempt(o, kind)
    \/ \E h \in Hooks : \/ HookStep(h) \/ HookError(h) \/ HookRollback(h) \/ HookCrash(h)
                        \/ \E n \in Notes : HookRead(h, n)
    \/ \E w \in Withdrawals :
          \/ WithdrawDecline(w) \/ WithdrawApprove(w)
          \/ \E u \in Owners : \E n \in Draws[u] :
                WithdrawWallet(w, u, n) \/ WithdrawBank(w, u, n)
    \/ \E c \in Owners : \E percent \in Percents : ShareSet(c, percent)

Spec == Init /\ [][Next]_vars

\* A handler that has started ends, and Midtrans delivers every notification
\* until it is answered.
Fairness ==
    /\ \A h \in Hooks : WF_vars(HookStep(h))
    /\ \A n \in Notes : WF_vars(n \notin answered /\ \E h \in Hooks : HookRead(h, n))

FairSpec == Spec /\ Fairness

-----------------------------------------------------------------------------
(* Properties                                                              *)

\* The orders and withdrawals that explain what u has.
SettledOrders(u) == {o \in Orders : Payer[o] = u /\ status[o] = "settled"}
MovedOver(u) == {w \in Withdrawals : payout[w].owner = u /\ payout[w].type = "payout_wallet"}
PaidOut(u) == {w \in Withdrawals : payout[w].owner = u /\ payout[w].status = "settled"}
Drawn == [w \in Withdrawals |-> payout[w].amount]

\* Money is neither made nor lost by repeated, reordered or overlapping
\* notifications and reviews: a balance is what its settled orders credited
\* and what its owner moved over from commission.
BalanceExplained ==
    \A u \in Owners :
        balance[u] = SumFunctionOnSet(Amount, SettledOrders(u))
                     + SumFunctionOnSet(Drawn, MovedOver(u))

\* What an owner has earned is available, waiting for review or paid out, and
\* what waits for review is its one pending request: no sequence of requests
\* and reviews pays a commission twice or loses it.
CommissionConserved ==
    \A u \in Owners :
        /\ earned[u] = available[u] + pending[u] + SumFunctionOnSet(Drawn, PaidOut(u))
        /\ pending[u] = SumFunctionOnSet(Drawn, PendingOf(u))
        /\ Cardinality(PendingOf(u)) <= 1

\* However the shares are set along a chain, and whenever they are changed, a
\* top-up never pays its uplines more than the marketing pool.
WithinPool ==
    \A o \in Orders : SumFunctionOnSet([u \in Owners |-> accrual[<<o, u>>]], Owners) <= Pool(o)

\* An order that is settled stays settled, and its uplines' accrual rows are
\* never written again.
SettledIsFinal ==
    [][\A o \in Orders : status[o] = "settled" =>
          /\ status'[o] = "settled"
          /\ \A u \in Owners : accrual'[<<o, u>>] = accrual[<<o, u>>]]_vars

\* The customer paid: the order is eventually decided, one way or the other,
\* unless its credit was rolled back and yet answered with 200.
PaidIsDecided ==
    \A o \in Midtrans :
        pay[o] = "paid" ~> status[o] # "pending" \/ o \in rolled

\* The customer paid: the order is eventually credited.
PaidIsCredited == \A o \in Midtrans : pay[o] = "paid" ~> status[o] = "settled"

\* The wallet row shows what the account holds.
WalletMatches == \A u \in Owners : wallet[u] = balance[u]

\* The refinement mapping: an order that is not settled is open until it is
\* closed, and commission is owed until it is paid out.
Phase(s) == CASE s = "settled" -> "credited"
              [] s \in {"expired", "failed", "rejected"} -> "closed"
              [] OTHER -> "open"

Abstract == INSTANCE Ledger WITH
    order <- [o \in Orders |-> Phase(status[o])],
    owed <- [u \in Owners |-> available[u] + pending[u]]

\* Payments implements Ledger: every credit, close and payout is one step of
\* an order or of an owner, and nothing else touches the money.
ImplementsLedger == Abstract!LSpec
=============================================================================
