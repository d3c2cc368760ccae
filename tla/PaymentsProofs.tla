--------------------------- MODULE PaymentsProofs ---------------------------
(***************************************************************************)
(* Proofs about Payments, for any owners, orders and handlers: its types,  *)
(* that a settled order stays settled, that it implements Ledger, and what *)
(* the sums of a ledger say: BalanceCorrect, CommissionCorrect and         *)
(* PoolCorrect.                                                            *)
(***************************************************************************)
EXTENDS Payments, SumTheorems, TLAPS

-----------------------------------------------------------------------------
(* Commission is a natural number, and the payer earns none                *)

\* Products and quotients of natural numbers.
LEMMA ProductNat == ASSUME NEW x \in Nat, NEW y \in Nat PROVE x * y \in Nat
OBVIOUS

LEMMA QuotientNat == ASSUME NEW x \in Nat, NEW y \in Nat \ {0} PROVE x \div y \in Nat
OBVIOUS

\* What Greater cuts off is never negative.
LEMMA GreaterNat == ASSUME NEW x \in Int PROVE Greater(x, 0) \in Nat
BY DEF Greater

\* The uplines of an owner are other owners, without a gap.
LEMMA UplineType ==
    ASSUME NEW u \in Owners
    PROVE  /\ Up1(u) \in Owners \cup {None}
           /\ Up2(u) \in Owners \cup {None}
           /\ Up3(u) \in Owners \cup {None}
           /\ Up2(u) # None => Up1(u) \in Owners
           /\ Up3(u) # None => Up2(u) \in Owners
           /\ u \notin {Up1(u), Up2(u), Up3(u)}
BY NoneAssumption, UplineAssumption DEF Up1, Up2, Up3

\* What one level earns.
LEMMA RawNat ==
    ASSUME share \in [Owners -> 0..35], NEW o \in Orders,
           NEW p \in Owners \cup {None}, NEW q, p # None => q \in Owners
    PROVE  Raw(o, p, q) \in Nat
<1>1. CASE p = None
  BY <1>1 DEF Raw
<1>2. CASE p # None
  <2>1. Incoming(p) \in Int /\ share[q] \in Int
    BY <1>2, UplineAssumption DEF Incoming
  <2>2. Greater(Incoming(p) - share[q], 0) \in Nat
    BY <2>1, GreaterNat
  <2>3. Amount[o] * Greater(Incoming(p) - share[q], 0) \in Nat
    BY <2>2, ProductNat, OrderAssumption
  <2>4. QED BY <1>2, <2>3, QuotientNat DEF Raw
<1>3. QED BY <1>1, <1>2

\* What is paid to an owner; the payer is not its own upline.
LEMMA CommissionNat ==
    ASSUME share \in [Owners -> 0..35], NEW o \in Orders, NEW u \in Owners
    PROVE  Commission(o, u) \in Nat /\ Commission(o, Payer[o]) = 0
<1>1. Payer[o] \in Owners
  BY OrderAssumption
<1>2. Raw1(o) \in Nat /\ Raw2(o) \in Nat /\ Raw3(o) \in Nat
  BY <1>1, RawNat, UplineType DEF Raw1, Raw2, Raw3
<1>3. Pool(o) \in Nat
  BY ProductNat, QuotientNat, OrderAssumption DEF Pool
<1>4. ASSUME NEW e \in Nat PROVE Scaled(o, e) \in Nat
  <2>1. e * Pool(o) \in Nat
    BY <1>3, ProductNat
  <2>2. Distributed(o) \in Nat /\ (Distributed(o) > Pool(o) => Distributed(o) \in Nat \ {0})
    BY <1>2, <1>3 DEF Distributed
  <2>3. CASE Distributed(o) > Pool(o)
    BY <2>1, <2>2, <2>3, QuotientNat DEF Scaled
  <2>4. CASE ~(Distributed(o) > Pool(o))
    BY <2>4 DEF Scaled
  <2>5. QED BY <2>3, <2>4
<1>5. Scaled(o, Raw1(o)) \in Nat /\ Scaled(o, Raw2(o)) \in Nat /\ Scaled(o, Raw3(o)) \in Nat
  BY <1>2, <1>4
<1>6. Commission(o, u) \in Nat
  BY <1>5 DEF Commission
<1>7. Commission(o, Payer[o]) = 0
  BY <1>1, UplineType DEF Commission
<1>8. QED BY <1>6, <1>7

\* What a credit does to the money columns.
LEMMA CreditEffect ==
    ASSUME TypeOK, NEW o \in Orders, CreditAndAccrue(o)
    PROVE  /\ balance' = [balance EXCEPT ![Payer[o]] = @ + Amount[o]]
           /\ balance' \in [Owners -> Nat]
           /\ available' \in [Owners -> Nat]
           /\ earned' \in [Owners -> Nat]
           /\ accrual' \in [Orders \X Owners -> Nat]
           /\ pending' = pending
           /\ \A u \in Owners : available'[u] >= available[u]
           /\ available'[Payer[o]] = available[Payer[o]]
           /\ \A p \in Orders, u \in Owners : p # o => accrual'[<<p, u>>] = accrual[<<p, u>>]
<1> DEFINE new(u) == IF accrual[<<o, u>>] = 0 THEN Commission(o, u) ELSE 0
<1>1. \A u \in Owners : new(u) \in Nat /\ new(Payer[o]) = 0
  BY CommissionNat, OrderAssumption DEF TypeOK
<1>2. /\ balance' = [balance EXCEPT ![Payer[o]] = @ + Amount[o]]
      /\ accrual' = [x \in Orders \X Owners |->
                        IF x[1] = o THEN accrual[x] + new(x[2]) ELSE accrual[x]]
      /\ available' = [u \in Owners |-> available[u] + new(u)]
      /\ earned' = [u \in Owners |-> earned[u] + new(u)]
      /\ pending' = pending
  BY DEF CreditAndAccrue, Accrued
<1> HIDE DEF new
<1>3. balance' \in [Owners -> Nat]
  BY <1>2, OrderAssumption DEF TypeOK
<1>4. available' \in [Owners -> Nat] /\ earned' \in [Owners -> Nat]
  BY <1>1, <1>2 DEF TypeOK
<1>5. accrual' \in [Orders \X Owners -> Nat]
  BY <1>1, <1>2 DEF TypeOK
<1>6. \A u \in Owners : available'[u] >= available[u]
  BY <1>1, <1>2 DEF TypeOK
<1>7. available'[Payer[o]] = available[Payer[o]]
  BY <1>1, <1>2, OrderAssumption DEF TypeOK
<1>8. \A p \in Orders, u \in Owners : p # o => accrual'[<<p, u>>] = accrual[<<p, u>>]
  BY <1>2
<1>9. QED BY <1>2, <1>3, <1>4, <1>5, <1>6, <1>7, <1>8

-----------------------------------------------------------------------------
(* Types                                                                   *)

\* The initial states are typed.
LEMMA TypeInit == Init => TypeOK
BY NoneAssumption, OrderAssumption, ShareAssumption
   DEF Init, TypeOK, Idle, Payouts, Repeats

\* Every step keeps the types.
LEMMA TypeStep == ASSUME TypeOK, [Next]_vars PROVE TypeOK'
<1> USE RepeatAssumption DEF TypeOK, Orders
<1>0. /\ "fault" \in Repeats /\ "dup" \in Repeats /\ "share" \in Repeats
  BY DEF Repeats
<1>0a. /\ "credit" \in Plans \ {"none"} /\ "failed" \in Plans \ {"none"}
       /\ "expired" \in Plans \ {"none"} /\ "nothing" \in Plans \ {"none"}
       /\ \A o \in Midtrans, k \in Kinds : <<o, k>> \in Notes
       /\ \A n \in Notes : n[1] \in Midtrans
       /\ "settlement" \in Kinds /\ "challenge" \in Kinds /\ "deny" \in Kinds
       /\ "expire" \in Kinds
  BY DEF Plans, Notes, Kinds
<1>1. ASSUME NEW o \in Manual, PutManual(o) PROVE TypeOK'
  BY <1>1 DEF PutManual, moneyVars, drawVars
<1>2. ASSUME NEW o \in Midtrans, PutMidtrans(o) PROVE TypeOK'
  BY <1>2 DEF PutMidtrans, moneyVars, drawVars
<1>3. ASSUME NEW o \in Midtrans, CreateOk(o) PROVE TypeOK'
  BY <1>3 DEF CreateOk, moneyVars, drawVars
<1>4. ASSUME NEW o \in Midtrans, CreateFail(o) PROVE TypeOK'
  BY <1>4, <1>0 DEF CreateFail, Spend, moneyVars, drawVars
<1>5. ASSUME NEW o \in Midtrans, CreateCrash(o) PROVE TypeOK'
  BY <1>5, <1>0 DEF CreateCrash, Spend, moneyVars, drawVars
<1>6. ASSUME NEW o \in Midtrans, ProviderOpen(o) PROVE TypeOK'
  BY <1>6 DEF ProviderOpen, moneyVars, drawVars
<1>7. ASSUME NEW o \in Midtrans, ProviderPaid(o) PROVE TypeOK'
  BY <1>7, <1>0a DEF ProviderPaid, Notify, moneyVars, drawVars
<1>8. ASSUME NEW o \in Midtrans, ProviderExpire(o) PROVE TypeOK'
  BY <1>8, <1>0a DEF ProviderExpire, Notify, moneyVars, drawVars
<1>9. ASSUME NEW o \in Midtrans, NEW kind \in {"challenge", "deny"}, ProviderAttempt(o, kind)
      PROVE TypeOK'
  BY <1>9, <1>0a DEF ProviderAttempt, Notify, moneyVars, drawVars
<1>10. ASSUME NEW h \in Hooks, NEW n \in Notes, HookRead(h, n) PROVE TypeOK'
  <2>1. SettlePlan(status[n[1]], n[2]) \in Plans \ {"none"}
    BY <1>0a DEF SettlePlan
  <2>2. hook' \in [Hooks -> {Idle} \cup [note : Notes, plan : Plans \ {"none"}]]
    BY <1>10, <2>1 DEF HookRead
  <2>3. spent' \in [Repeats -> Nat]
    BY <1>10, <1>0 DEF HookRead, Spend
  <2>4. QED BY <1>10, <2>2, <2>3 DEF HookRead, orderVars, moneyVars, drawVars
<1>11. ASSUME NEW h \in Hooks, hook[h].plan # "none"
       PROVE  /\ hook[h] \in [note : Notes, plan : Plans \ {"none"}]
              /\ hook[h].note \in Notes /\ hook[h].note[1] \in Midtrans
  BY <1>11, <1>0a DEF Idle
<1>12. ASSUME NEW h \in Hooks, hook[h].plan # "none", Answer(h)
       PROVE  /\ answered' \subseteq Notes
              /\ hook' \in [Hooks -> {Idle} \cup [note : Notes, plan : Plans \ {"none"}]]
  BY <1>12, <1>11 DEF Answer
<1>13. ASSUME NEW h \in Hooks, HookNothing(h) PROVE TypeOK'
  BY <1>13, <1>12 DEF HookNothing, orderVars, moneyVars, drawVars
<1>14. ASSUME NEW h \in Hooks, HookClose(h) PROVE TypeOK'
  <2>1. hook[h].plan \in {"failed", "expired"}
    BY <1>14 DEF HookClose
  <2>2. status' \in [Orders -> {"none", "pending", "pending_review", "settled",
                                "expired", "failed", "rejected"}]
    BY <1>14, <2>1, <1>11 DEF HookClose
  <2>3. QED BY <1>14, <2>1, <2>2, <1>0, <1>12 DEF HookClose, Spend, moneyVars, drawVars
<1>15. ASSUME NEW h \in Hooks, HookCredit(h) PROVE TypeOK'
  <2>1. hook[h].plan = "credit"
    BY <1>15 DEF HookCredit
  <2> DEFINE o == hook[h].note[1]
  <2>2. o \in Orders
    BY <2>1, <1>11
  <2>3. CASE status[o] = "pending"
    <3>1. wallet' \in [Owners -> Nat] /\ CreditAndAccrue(o)
      BY <1>15, <2>2, <2>3, OrderAssumption DEF HookCredit
    <3>2. QED BY <1>15, <2>1, <2>2, <2>3, <3>1, <1>12, CreditEffect
              DEF HookCredit, drawVars
  <2>4. CASE status[o] # "pending"
    BY <1>15, <2>1, <2>4, <1>12 DEF HookCredit, moneyVars, drawVars
  <2>5. QED BY <2>3, <2>4
<1>16. ASSUME NEW h \in Hooks, HookError(h) PROVE TypeOK'
  BY <1>16, <1>0 DEF HookError, Spend, orderVars, moneyVars, drawVars
<1>17. ASSUME NEW h \in Hooks, HookRollback(h) PROVE TypeOK'
  BY <1>17, <1>0, <1>11, <1>12 DEF HookRollback, Spend, moneyVars, drawVars
<1>18. ASSUME NEW h \in Hooks, HookCrash(h) PROVE TypeOK'
  BY <1>18, <1>0 DEF HookCrash, Spend, orderVars, moneyVars, drawVars
<1>19. ASSUME NEW o \in Manual, TopupReject(o) PROVE TypeOK'
  BY <1>19 DEF TopupReject, moneyVars, drawVars
<1>20. ASSUME NEW o \in Manual, TopupApprove(o) PROVE TypeOK'
  BY <1>20, CreditEffect DEF TopupApprove, drawVars
<1>20a. ASSUME NEW w \in Withdrawals
        PROVE  /\ payout[w].owner \in Owners \cup {None} /\ payout[w].amount \in Nat
               /\ [pending EXCEPT ![payout[w].owner] = Greater(@ - payout[w].amount, 0)]
                    \in [Owners -> Nat]
               /\ [available EXCEPT ![payout[w].owner] = @ + payout[w].amount]
                    \in [Owners -> Nat]
  <2>1. payout[w] \in Payouts
    OBVIOUS
  <2>2. payout[w].owner \in Owners \cup {None} /\ payout[w].amount \in Nat
    BY <2>1 DEF Payouts
  <2>3. CASE payout[w].owner = None
    BY <2>2, <2>3, NoneAssumption
  <2>4. CASE payout[w].owner \in Owners
    <3>1. pending[payout[w].owner] - payout[w].amount \in Int
      BY <2>2, <2>4
    <3>2. Greater(pending[payout[w].owner] - payout[w].amount, 0) \in Nat
      BY <3>1, GreaterNat
    <3>3. available[payout[w].owner] + payout[w].amount \in Nat
      BY <2>2, <2>4
    <3>4. QED BY <2>2, <3>2, <3>3
  <2>5. QED BY <2>2, <2>3, <2>4
<1>20b. ASSUME NEW w \in Withdrawals, NEW s \in {"settled", "cancelled"},
               payout' = [payout EXCEPT ![w].status = IF @ = "available" THEN s ELSE @]
        PROVE  payout' \in [Withdrawals -> Payouts]
  <2>1. payout[w] \in Payouts
    OBVIOUS
  <2>2. [payout[w] EXCEPT !.status = IF @ = "available" THEN s ELSE @] \in Payouts
    BY <2>1 DEF Payouts
  <2>3. QED BY <1>20b, <2>2
<1>21. ASSUME NEW w \in Withdrawals, WithdrawDecline(w) PROVE TypeOK'
  <2>1. pending' \in [Owners -> Nat] /\ available' \in [Owners -> Nat]
    BY <1>21, <1>20a DEF WithdrawDecline
  <2>2. payout' \in [Withdrawals -> Payouts]
    BY <1>21, <1>20b DEF WithdrawDecline
  <2>3. QED BY <1>21, <2>1, <2>2 DEF WithdrawDecline, orderVars
<1>22. ASSUME NEW w \in Withdrawals, WithdrawApprove(w) PROVE TypeOK'
  <2>1. pending' \in [Owners -> Nat]
    BY <1>22, <1>20a DEF WithdrawApprove
  <2>2. payout' \in [Withdrawals -> Payouts]
    BY <1>22, <1>20b DEF WithdrawApprove
  <2>3. QED BY <1>22, <2>1, <2>2 DEF WithdrawApprove, orderVars
<1>23. ASSUME NEW w \in Withdrawals, NEW u \in Owners, NEW n \in Draws[u], WithdrawWallet(w, u, n)
       PROVE TypeOK'
  <2>1. n \in Nat
    BY DrawAssumption
  <2>2. QED BY <1>23, <2>1 DEF WithdrawWallet, Payouts, orderVars
<1>24. ASSUME NEW w \in Withdrawals, NEW u \in Owners, NEW n \in Draws[u], WithdrawBank(w, u, n)
       PROVE TypeOK'
  <2>1. n \in Nat
    BY DrawAssumption
  <2>2. QED BY <1>24, <2>1 DEF WithdrawBank, Payouts, orderVars
<1>25. ASSUME NEW q \in Owners, NEW percent \in Percents, ShareSet(q, percent) PROVE TypeOK'
  BY <1>25, <1>0, ShareAssumption DEF ShareSet, Spend, orderVars, moneyVars, drawVars
<1>26. ASSUME UNCHANGED vars PROVE TypeOK'
  BY <1>26 DEF vars
<1>27. QED
  BY <1>1, <1>2, <1>3, <1>4, <1>5, <1>6, <1>7, <1>8, <1>9, <1>10, <1>13, <1>14, <1>15,
     <1>16, <1>17, <1>18, <1>19, <1>20, <1>21, <1>22, <1>23, <1>24, <1>25, <1>26
     DEF Next, HookStep

\* The types hold in every behaviour: no amount of any account is negative.
THEOREM TypeCorrect == Spec => []TypeOK
<1>1. QED BY TypeInit, TypeStep, PTL DEF Spec

-----------------------------------------------------------------------------
(* An order that is settled was paid on its page, and the page was given   *)
(* to the customer by a put that has returned; so no put can fail it.      *)

\* Why no put fails a settled order.
LinkInv ==
    /\ creating \cap linked = {}
    /\ \A o \in creating \cup linked : status[o] # "none"
    /\ \A o \in Midtrans : <<o, "settlement">> \in notes => o \in linked
    /\ \A h \in Hooks : hook[h].plan = "credit" =>
          \E o \in linked : hook[h].note = <<o, "settlement">>
    /\ \A o \in Midtrans : status[o] = "settled" => o \in linked

\* Every step keeps LinkInv.
LEMMA LinkStep == ASSUME TypeOK, TypeOK', LinkInv, [Next]_vars PROVE LinkInv'
<1> USE DEF LinkInv
<1>0. ASSUME NEW h \in Hooks, hook[h].plan = "credit"
      PROVE  hook[h].note[1] \in linked
  BY <1>0
<1>1. ASSUME NEW o \in Manual, PutManual(o) PROVE LinkInv'
  BY <1>1, OrderAssumption DEF PutManual, TypeOK, Orders
<1>2. ASSUME NEW o \in Midtrans, PutMidtrans(o) PROVE LinkInv'
  BY <1>2 DEF PutMidtrans, TypeOK, Orders
<1>3. ASSUME NEW o \in Midtrans, CreateOk(o) PROVE LinkInv'
  BY <1>3 DEF CreateOk
<1>4. ASSUME NEW o \in Midtrans, CreateFail(o) PROVE LinkInv'
  BY <1>4 DEF CreateFail, TypeOK, Orders
<1>5. ASSUME NEW o \in Midtrans, CreateCrash(o) PROVE LinkInv'
  BY <1>5 DEF CreateCrash
<1>6. ASSUME NEW o \in Midtrans, ProviderOpen(o) PROVE LinkInv'
  BY <1>6 DEF ProviderOpen
<1>7. ASSUME NEW o \in Midtrans, ProviderPaid(o) PROVE LinkInv'
  BY <1>7 DEF ProviderPaid, Notify
<1>8. ASSUME NEW o \in Midtrans, ProviderExpire(o) PROVE LinkInv'
  BY <1>8 DEF ProviderExpire, Notify
<1>9. ASSUME NEW o \in Midtrans, NEW kind \in {"challenge", "deny"}, ProviderAttempt(o, kind)
      PROVE LinkInv'
  BY <1>9 DEF ProviderAttempt, Notify
<1>10. ASSUME NEW h \in Hooks, NEW n \in Notes, HookRead(h, n) PROVE LinkInv'
  <2>1. SettlePlan(status[n[1]], n[2]) = "credit" => n[2] = "settlement"
    BY DEF SettlePlan
  <2>2. n[1] \in Midtrans /\ n = <<n[1], n[2]>> /\ n \in notes
    BY <1>10 DEF Notes, HookRead
  <2>3. \A g \in Hooks : hook'[g].plan = "credit" =>
          \E o \in linked : hook'[g].note = <<o, "settlement">>
    BY <1>10, <2>1, <2>2 DEF HookRead, TypeOK
  <2>4. QED BY <1>10, <2>3 DEF HookRead, orderVars
<1>11. ASSUME NEW h \in Hooks, hook' = [hook EXCEPT ![h] = Idle]
       PROVE  \A g \in Hooks : hook'[g].plan = "credit" =>
                 \E o \in linked : hook'[g].note = <<o, "settlement">>
  BY <1>11 DEF TypeOK, Idle
<1>12. ASSUME NEW h \in Hooks, HookNothing(h) PROVE LinkInv'
  BY <1>12, <1>11 DEF HookNothing, Answer, orderVars
<1>13. ASSUME NEW h \in Hooks, HookClose(h) PROVE LinkInv'
  <2>1. \A o \in Orders : /\ status[o] # "none" => status'[o] # "none"
                          /\ status'[o] = "settled" => status[o] = "settled"
    BY <1>13 DEF HookClose, TypeOK
  <2>2. QED BY <1>13, <1>11, <2>1 DEF HookClose, Answer, TypeOK, Orders
<1>14. ASSUME NEW h \in Hooks, HookCredit(h) PROVE LinkInv'
  <2>1. hook[h].note[1] \in linked
    BY <1>14, <1>0 DEF HookCredit
  <2>2. \A o \in Orders : /\ status[o] # "none" => status'[o] # "none"
                          /\ status'[o] = "settled" =>
                                status[o] = "settled" \/ o = hook[h].note[1]
    BY <1>14 DEF HookCredit, TypeOK
  <2>3. /\ UNCHANGED <<creating, linked, notes>>
        /\ hook' = [hook EXCEPT ![h] = Idle]
    BY <1>14 DEF HookCredit, Answer
  <2>4. \A g \in Hooks : hook'[g].plan = "credit" =>
           \E o \in linked : hook'[g].note = <<o, "settlement">>
    BY <2>3, <1>11
  <2>5. \A o \in Midtrans : status'[o] = "settled" => o \in linked
    BY <2>1, <2>2 DEF Orders
  <2>6. \A o \in creating \cup linked : status'[o] # "none"
    BY <2>2 DEF TypeOK, Orders
  <2>7. QED BY <2>3, <2>4, <2>5, <2>6
<1>15. ASSUME NEW h \in Hooks, HookError(h) PROVE LinkInv'
  BY <1>15, <1>11 DEF HookError, orderVars
<1>16. ASSUME NEW h \in Hooks, HookRollback(h) PROVE LinkInv'
  BY <1>16, <1>11 DEF HookRollback, Answer
<1>17. ASSUME NEW h \in Hooks, HookCrash(h) PROVE LinkInv'
  BY <1>17, <1>11 DEF HookCrash, orderVars
<1>18. ASSUME NEW o \in Manual, TopupReject(o) PROVE LinkInv'
  BY <1>18, OrderAssumption DEF TopupReject, TypeOK, Orders
<1>19. ASSUME NEW o \in Manual, TopupApprove(o) PROVE LinkInv'
  BY <1>19, OrderAssumption DEF TopupApprove, TypeOK, Orders
<1>20. ASSUME UNCHANGED <<orderVars, hook>> PROVE LinkInv'
  BY <1>20 DEF orderVars
<1>21. ASSUME NEW w \in Withdrawals, WithdrawDecline(w) \/ WithdrawApprove(w) PROVE LinkInv'
  BY <1>21, <1>20 DEF WithdrawDecline, WithdrawApprove
<1>22. ASSUME NEW w \in Withdrawals, NEW u \in Owners, NEW n \in Draws[u],
              WithdrawWallet(w, u, n) \/ WithdrawBank(w, u, n)
       PROVE LinkInv'
  BY <1>22, <1>20 DEF WithdrawWallet, WithdrawBank
<1>23. ASSUME NEW q \in Owners, NEW percent \in Percents, ShareSet(q, percent) PROVE LinkInv'
  BY <1>23, <1>20 DEF ShareSet
<1>24. ASSUME UNCHANGED vars PROVE LinkInv'
  BY <1>24, <1>20 DEF vars, orderVars
<1>25. QED
  BY <1>1, <1>2, <1>3, <1>4, <1>5, <1>6, <1>7, <1>8, <1>9, <1>10, <1>12, <1>13, <1>14,
     <1>15, <1>16, <1>17, <1>18, <1>19, <1>21, <1>22, <1>23, <1>24 DEF Next, HookStep

\* A settled order is left alone by a put that fails late, by a late expire or
\* deny and by a repeated settlement: a credit goes to an order that is open.
LEMMA OrderStep ==
    ASSUME TypeOK, LinkInv, [Next]_vars
    PROVE  \/ /\ \A o \in Orders : status[o] = "settled" <=> status'[o] = "settled"
              /\ UNCHANGED accrual
           \/ \E o \in Orders : /\ status[o] \in {"pending", "pending_review"}
                               /\ status' = [status EXCEPT ![o] = "settled"]
                               /\ CreditAndAccrue(o)
                               /\ UNCHANGED <<payout, request>>
<1> USE DEF TypeOK, Orders
<1>1. ASSUME NEW o \in Manual, PutManual(o) \/ TopupReject(o)
      PROVE  UNCHANGED accrual /\ \A p \in Orders : status[p] = "settled" <=> status'[p] = "settled"
  BY <1>1 DEF PutManual, TopupReject, Reviewable, moneyVars
<1>2. ASSUME NEW o \in Midtrans,
             \/ PutMidtrans(o) \/ CreateOk(o) \/ CreateFail(o) \/ CreateCrash(o)
             \/ ProviderOpen(o) \/ ProviderPaid(o) \/ ProviderExpire(o)
             \/ \E kind \in {"challenge", "deny"} : ProviderAttempt(o, kind)
      PROVE  UNCHANGED accrual /\ \A p \in Orders : status[p] = "settled" <=> status'[p] = "settled"
  BY <1>2 DEF LinkInv, PutMidtrans, CreateOk, CreateFail, CreateCrash, ProviderOpen,
              ProviderPaid, ProviderExpire, ProviderAttempt, moneyVars
<1>3. ASSUME NEW h \in Hooks, HookClose(h)
      PROVE  UNCHANGED accrual /\ \A p \in Orders : status[p] = "settled" <=> status'[p] = "settled"
  BY <1>3 DEF HookClose, moneyVars
<1>4. ASSUME NEW h \in Hooks,
             \/ HookNothing(h) \/ HookError(h) \/ HookRollback(h) \/ HookCrash(h)
             \/ \E n \in Notes : HookRead(h, n)
      PROVE  UNCHANGED <<status, accrual>>
  BY <1>4 DEF HookNothing, HookError, HookRollback, HookCrash, HookRead, orderVars, moneyVars
<1>5. ASSUME NEW h \in Hooks, HookCredit(h)
      PROVE  \/ UNCHANGED <<status, accrual>>
             \/ \E o \in Orders : /\ status[o] \in {"pending", "pending_review"}
                                 /\ status' = [status EXCEPT ![o] = "settled"]
                                 /\ CreditAndAccrue(o)
                                 /\ UNCHANGED <<payout, request>>
  <2>1. hook[h].note[1] \in Orders
    BY <1>5 DEF LinkInv, HookCredit
  <2>2. QED BY <1>5, <2>1 DEF HookCredit, moneyVars, drawVars
<1>6. ASSUME NEW o \in Manual, TopupApprove(o)
      PROVE  /\ status[o] \in {"pending", "pending_review"}
             /\ status' = [status EXCEPT ![o] = "settled"]
             /\ CreditAndAccrue(o)
             /\ UNCHANGED <<payout, request>>
  BY <1>6 DEF TopupApprove, Reviewable, drawVars
<1>7. ASSUME NEW w \in Withdrawals,
             \/ WithdrawDecline(w) \/ WithdrawApprove(w)
             \/ \E u \in Owners : \E n \in Draws[u] : WithdrawWallet(w, u, n) \/ WithdrawBank(w, u, n)
      PROVE  UNCHANGED <<status, accrual>>
  BY <1>7 DEF WithdrawDecline, WithdrawApprove, WithdrawWallet, WithdrawBank, orderVars
<1>8. ASSUME NEW q \in Owners, NEW percent \in Percents, ShareSet(q, percent)
      PROVE  UNCHANGED <<status, accrual>>
  BY <1>8 DEF ShareSet, orderVars, moneyVars
<1>9. UNCHANGED vars => UNCHANGED <<status, accrual>>
  BY DEF vars
<1>10. QED BY <1>1, <1>2, <1>3, <1>4, <1>5, <1>6, <1>7, <1>8, <1>9 DEF Next, HookStep

\* An order that is settled stays settled, and its accrual rows stay as they are.
THEOREM SettledFinal == Spec => SettledIsFinal
<1> DEFINE A == \A o \in Orders : status[o] = "settled" =>
                   /\ status'[o] = "settled"
                   /\ \A u \in Owners : accrual'[<<o, u>>] = accrual[<<o, u>>]
<1>1. ASSUME TypeOK, LinkInv, [Next]_vars PROVE A
  <2>1. CASE /\ \A o \in Orders : status[o] = "settled" <=> status'[o] = "settled"
             /\ UNCHANGED accrual
    BY <2>1
  <2>2. ASSUME NEW p \in Orders, status[p] \in {"pending", "pending_review"},
               status' = [status EXCEPT ![p] = "settled"], CreditAndAccrue(p)
        PROVE  A
    BY <1>1, <2>2, CreditEffect DEF TypeOK
  <2>3. QED BY <1>1, <2>1, <2>2, OrderStep
<1>2. Init => LinkInv
  BY DEF Init, LinkInv, Idle, Orders
<1>3. TypeOK /\ LinkInv /\ [Next]_vars => LinkInv'
  BY TypeStep, LinkStep
<1>4. TypeOK /\ LinkInv /\ [Next]_vars => [A]_vars
  BY <1>1
<1>5. QED BY TypeCorrect, <1>2, <1>3, <1>4, PTL DEF Spec, SettledIsFinal

-----------------------------------------------------------------------------
(* Withdrawals: what waits for review is the one pending request           *)

\* An owner has at most one pending request, and pending is its amount.
DrawInv ==
    /\ \A w \in Withdrawals : request[w] = "pending" =>
          /\ payout[w].owner \in Owners
          /\ payout[w].status = "available"
          /\ pending[payout[w].owner] = payout[w].amount
    /\ \A v, w \in Withdrawals :
          /\ request[v] = "pending" /\ request[w] = "pending"
          /\ payout[v].owner = payout[w].owner
          => v = w
    /\ \A u \in Owners : PendingOf(u) = {} => pending[u] = 0

\* Nothing but a withdrawal or its review touches what waits for review.
LEMMA DrawFrame ==
    ASSUME TypeOK, LinkInv, [Next]_vars
    PROVE  \/ UNCHANGED <<pending, payout, request>>
           \/ \E w \in Withdrawals :
                 \/ WithdrawDecline(w) \/ WithdrawApprove(w)
                 \/ \E u \in Owners : \E n \in Draws[u] :
                       WithdrawWallet(w, u, n) \/ WithdrawBank(w, u, n)
<1>1. ASSUME NEW o \in Manual, PutManual(o) \/ TopupReject(o) \/ TopupApprove(o)
      PROVE  UNCHANGED <<pending, payout, request>>
  BY <1>1 DEF PutManual, TopupReject, TopupApprove, CreditAndAccrue, moneyVars, drawVars
<1>2. ASSUME NEW o \in Midtrans,
             \/ PutMidtrans(o) \/ CreateOk(o) \/ CreateFail(o) \/ CreateCrash(o)
             \/ ProviderOpen(o) \/ ProviderPaid(o) \/ ProviderExpire(o)
             \/ \E kind \in {"challenge", "deny"} : ProviderAttempt(o, kind)
      PROVE  UNCHANGED <<pending, payout, request>>
  BY <1>2 DEF PutMidtrans, CreateOk, CreateFail, CreateCrash, ProviderOpen,
              ProviderPaid, ProviderExpire, ProviderAttempt, moneyVars, drawVars
<1>3. ASSUME NEW h \in Hooks,
             \/ HookNothing(h) \/ HookClose(h) \/ HookError(h) \/ HookRollback(h)
             \/ HookCrash(h) \/ \E n \in Notes : HookRead(h, n)
      PROVE  UNCHANGED <<pending, payout, request>>
  BY <1>3 DEF HookNothing, HookClose, HookError, HookRollback, HookCrash, HookRead,
              moneyVars, drawVars
<1>4. ASSUME NEW h \in Hooks, HookCredit(h) PROVE UNCHANGED <<pending, payout, request>>
  BY <1>4 DEF HookCredit, CreditAndAccrue, moneyVars, drawVars
<1>5. ASSUME NEW q \in Owners, NEW percent \in Percents, ShareSet(q, percent)
      PROVE  UNCHANGED <<pending, payout, request>>
  BY <1>5 DEF ShareSet, moneyVars, drawVars
<1>6. UNCHANGED vars => UNCHANGED <<pending, payout, request>>
  BY DEF vars
<1>7. QED BY <1>1, <1>2, <1>3, <1>4, <1>5, <1>6 DEF Next, HookStep

\* A review ends the one pending request of its owner.
LEMMA ReviewEffect ==
    ASSUME TypeOK, DrawInv, NEW w \in Withdrawals, request[w] = "pending",
           NEW r \in {"approved", "declined"}, NEW s \in {"settled", "cancelled"},
           request' = [request EXCEPT ![w] = r],
           pending' = [pending EXCEPT ![payout[w].owner] = Greater(@ - payout[w].amount, 0)],
           payout' = [payout EXCEPT ![w].status = IF @ = "available" THEN s ELSE @]
    PROVE  /\ payout[w].owner \in Owners /\ payout[w].amount \in Nat
           /\ pending[payout[w].owner] = payout[w].amount
           /\ pending' = [pending EXCEPT ![payout[w].owner] = 0]
           /\ DrawInv'
<1> DEFINE u == payout[w].owner
<1>1. payout[w] \in Payouts /\ payout[w].amount \in Nat
  BY DEF TypeOK, Payouts
<1>2. u \in Owners /\ pending[u] = payout[w].amount
  BY DEF DrawInv
<1>3. Greater(pending[u] - payout[w].amount, 0) = 0
  BY <1>1, <1>2 DEF Greater
<1>4. pending' = [pending EXCEPT ![u] = 0]
  BY <1>2, <1>3
<1>5. \A v \in Withdrawals : v # w => payout'[v] = payout[v] /\ request'[v] = request[v]
  BY DEF TypeOK
<1>6. payout'[w].owner = payout[w].owner /\ request'[w] # "pending"
  BY <1>1 DEF TypeOK, Payouts
<1>7. \A v \in Withdrawals : request'[v] = "pending" =>
         /\ v # w /\ request[v] = "pending" /\ payout'[v] = payout[v]
         /\ payout[v].owner # u
  BY <1>5, <1>6 DEF DrawInv
<1>8. \A v \in Withdrawals : request'[v] = "pending" =>
         /\ payout'[v].owner \in Owners
         /\ payout'[v].status = "available"
         /\ pending'[payout'[v].owner] = payout'[v].amount
  BY <1>4, <1>7 DEF DrawInv, TypeOK
<1>9. \A v, x \in Withdrawals :
         /\ request'[v] = "pending" /\ request'[x] = "pending"
         /\ payout'[v].owner = payout'[x].owner
         => v = x
  BY <1>7 DEF DrawInv
<1>10. \A q \in Owners : PendingOf(q)' = {} => pending'[q] = 0
  <2> SUFFICES ASSUME NEW q \in Owners, PendingOf(q)' = {} PROVE pending'[q] = 0
    OBVIOUS
  <2>1. CASE q = u
    BY <1>2, <1>4, <2>1 DEF TypeOK
  <2>2. CASE q # u
    <3>1. PendingOf(q) = {}
      BY <1>5, <2>2 DEF PendingOf
    <3>2. QED BY <3>1, <1>4, <2>2 DEF DrawInv, TypeOK
  <2>3. QED BY <2>1, <2>2
<1>11. DrawInv'
  BY <1>8, <1>9, <1>10 DEF DrawInv
<1>12. QED BY <1>1, <1>2, <1>4, <1>11

\* Every step keeps DrawInv.
LEMMA DrawStep == ASSUME TypeOK, LinkInv, DrawInv, [Next]_vars PROVE DrawInv'
<1>1. ASSUME UNCHANGED <<pending, payout, request>> PROVE DrawInv'
  BY <1>1 DEF DrawInv, PendingOf
<1>2. ASSUME NEW w \in Withdrawals, WithdrawDecline(w) PROVE DrawInv'
  BY <1>2, ReviewEffect DEF WithdrawDecline
<1>3. ASSUME NEW w \in Withdrawals, WithdrawApprove(w) PROVE DrawInv'
  BY <1>3, ReviewEffect DEF WithdrawApprove
<1>4. ASSUME NEW w \in Withdrawals, NEW u \in Owners, NEW n \in Draws[u], WithdrawWallet(w, u, n)
      PROVE  DrawInv'
  <2>1. payout[w].status = "none" /\ request[w] # "pending"
    BY <1>4 DEF WithdrawWallet, DrawInv
  <2>2. \A v \in Withdrawals : request'[v] = "pending" =>
           request[v] = "pending" /\ payout'[v] = payout[v]
    BY <1>4, <2>1 DEF WithdrawWallet, TypeOK
  <2>3. \A q \in Owners : PendingOf(q) \subseteq PendingOf(q)'
    BY <1>4, <2>1 DEF WithdrawWallet, PendingOf, TypeOK
  <2>4. UNCHANGED pending
    BY <1>4 DEF WithdrawWallet
  <2>5. QED BY <2>2, <2>3, <2>4 DEF DrawInv
<1>5. ASSUME NEW w \in Withdrawals, NEW u \in Owners, NEW n \in Draws[u], WithdrawBank(w, u, n)
      PROVE  DrawInv'
  <2>1. /\ payout'[w] = [owner |-> u, amount |-> n,
                         type |-> "payout_withdraw", status |-> "available"]
        /\ request'[w] = "pending"
        /\ \A v \in Withdrawals : v # w => payout'[v] = payout[v] /\ request'[v] = request[v]
    BY <1>5 DEF WithdrawBank, TypeOK
  <2>2. pending[u] = 0 /\ n \in Nat
    BY <1>5, DrawAssumption DEF WithdrawBank, DrawInv
  <2>3. pending'[u] = n /\ \A q \in Owners : q # u => pending'[q] = pending[q]
    BY <1>5, <2>2 DEF WithdrawBank, TypeOK
  <2>4. \A v \in Withdrawals : request[v] = "pending" => payout[v].owner # u
    BY <1>5 DEF WithdrawBank, PendingOf
  <2>5. \A v \in Withdrawals : request'[v] = "pending" =>
           /\ payout'[v].owner \in Owners
           /\ payout'[v].status = "available"
           /\ pending'[payout'[v].owner] = payout'[v].amount
    BY <2>1, <2>3, <2>4 DEF DrawInv
  <2>6. \A v, x \in Withdrawals :
           /\ request'[v] = "pending" /\ request'[x] = "pending"
           /\ payout'[v].owner = payout'[x].owner
           => v = x
    BY <2>1, <2>4 DEF DrawInv
  <2>7. \A q \in Owners : PendingOf(q)' = {} => pending'[q] = 0
    <3>1. PendingOf(u)' # {}
      BY <2>1 DEF PendingOf
    <3>2. request[w] # "pending"
      BY <1>5 DEF WithdrawBank, DrawInv
    <3>3. \A q \in Owners : PendingOf(q) \subseteq PendingOf(q)'
      BY <2>1, <3>2 DEF PendingOf
    <3>4. QED BY <2>3, <3>1, <3>3 DEF DrawInv
  <2>8. QED BY <2>5, <2>6, <2>7 DEF DrawInv
<1>6. QED BY <1>1, <1>2, <1>3, <1>4, <1>5, DrawFrame

-----------------------------------------------------------------------------
(* Payments implements Ledger                                              *)

\* What the mapping shows of orders and commission.
PhaseOf == [o \in Orders |-> Phase(status[o])]
OwedTo == [u \in Owners |-> available[u] + pending[u]]

\* What is owed is a natural number.
LEMMA OwedType == TypeOK => OwedTo \in [Owners -> Nat]
BY DEF TypeOK, OwedTo

\* A credit is a Credit of Ledger.
LEMMA CreditRefines ==
    ASSUME TypeOK, NEW o \in Orders, status[o] \in {"pending", "pending_review"},
           status' = [status EXCEPT ![o] = "settled"], CreditAndAccrue(o)
    PROVE  Abstract!LNext
<1>1. PhaseOf[o] = "open"
  BY DEF PhaseOf, Phase
<1>2. PhaseOf' = [PhaseOf EXCEPT ![o] = "credited"]
  BY DEF PhaseOf, Phase, TypeOK
<1>3. balance' = [balance EXCEPT ![Payer[o]] = @ + Amount[o]]
  BY CreditEffect
<1>4. OwedTo' \in [Owners -> Nat]
  BY CreditEffect DEF OwedTo, TypeOK
<1>5. \A u \in Owners : OwedTo'[u] >= OwedTo[u]
  BY CreditEffect DEF OwedTo, TypeOK
<1>6. OwedTo'[Payer[o]] = OwedTo[Payer[o]]
  BY CreditEffect, OrderAssumption DEF OwedTo, TypeOK
<1>7. Abstract!Credit(o)
  BY <1>1, <1>2, <1>3, <1>4, <1>5, <1>6 DEF Abstract!Credit, PhaseOf, OwedTo
<1>8. QED BY <1>7 DEF Abstract!LNext

\* Steps that keep the money, close an order and credit one.
MoneyKept == UNCHANGED <<balance, available, pending, earned, accrual, payout, request>>
CloseOf(o) ==
    /\ status[o] \in {"none", "pending", "pending_review"}
    /\ \E s \in {"expired", "failed", "rejected"} : status' = [status EXCEPT ![o] = s]
    /\ MoneyKept
CreditOf(o) ==
    /\ status[o] \in {"pending", "pending_review"}
    /\ status' = [status EXCEPT ![o] = "settled"]
    /\ CreditAndAccrue(o)
    /\ UNCHANGED <<payout, request>>

\* What a step may do to the money: nothing, close an order, credit one, or
\* make or review a withdrawal.
LEMMA StepCases ==
    ASSUME TypeOK, LinkInv, [Next]_vars
    PROVE  \/ MoneyKept /\ UNCHANGED PhaseOf
           \/ \E o \in Orders : CloseOf(o) \/ CreditOf(o)
           \/ /\ UNCHANGED status
              /\ \E w \in Withdrawals :
                    \/ WithdrawDecline(w) \/ WithdrawApprove(w)
                    \/ \E u \in Owners : \E n \in Draws[u] :
                          WithdrawWallet(w, u, n) \/ WithdrawBank(w, u, n)
<1> USE DEF Orders
<1>0. UNCHANGED status => UNCHANGED PhaseOf
  BY DEF PhaseOf
<1>1. ASSUME NEW o \in Manual, PutManual(o) PROVE MoneyKept /\ UNCHANGED PhaseOf
  <2>1. \A p \in Orders : Phase(status'[p]) = Phase(status[p])
    BY <1>1 DEF PutManual, Phase, TypeOK
  <2>2. QED BY <1>1, <2>1 DEF PutManual, PhaseOf, MoneyKept, moneyVars, drawVars
<1>2. ASSUME NEW o \in Midtrans, PutMidtrans(o) PROVE MoneyKept /\ UNCHANGED PhaseOf
  <2>1. \A p \in Orders : Phase(status'[p]) = Phase(status[p])
    BY <1>2 DEF PutMidtrans, Phase, TypeOK
  <2>2. QED BY <1>2, <2>1 DEF PutMidtrans, PhaseOf, MoneyKept, moneyVars, drawVars
<1>3. ASSUME NEW o \in Midtrans,
             \/ CreateOk(o) \/ CreateCrash(o)
             \/ ProviderOpen(o) \/ ProviderPaid(o) \/ ProviderExpire(o)
             \/ \E kind \in {"challenge", "deny"} : ProviderAttempt(o, kind)
      PROVE  MoneyKept /\ UNCHANGED PhaseOf
  BY <1>0, <1>3 DEF CreateOk, CreateCrash, ProviderOpen, ProviderPaid, ProviderExpire,
                    ProviderAttempt, MoneyKept, moneyVars, drawVars
<1>4. ASSUME NEW o \in Midtrans, CreateFail(o)
      PROVE  (MoneyKept /\ UNCHANGED PhaseOf) \/ CloseOf(o)
  <2>1. MoneyKept
    BY <1>4 DEF CreateFail, MoneyKept, moneyVars, drawVars
  <2>2. status[o] # "settled"
    BY <1>4 DEF CreateFail, LinkInv
  <2>3. CASE UNCHANGED status
    BY <1>0, <2>1, <2>3
  <2>4. CASE status' = [status EXCEPT ![o] = "failed"]
    <3>1. CASE status[o] \in {"expired", "failed", "rejected"}
      <4>1. \A p \in Orders : Phase(status'[p]) = Phase(status[p])
        BY <2>4, <3>1 DEF Phase, TypeOK
      <4>2. QED BY <2>1, <4>1 DEF PhaseOf
    <3>2. CASE status[o] \in {"none", "pending", "pending_review"}
      BY <2>1, <2>4, <3>2 DEF CloseOf
    <3>3. QED BY <2>2, <3>1, <3>2 DEF TypeOK
  <2>5. QED BY <1>4, <2>3, <2>4 DEF CreateFail
<1>5. ASSUME NEW h \in Hooks,
             \/ HookNothing(h) \/ HookError(h) \/ HookRollback(h) \/ HookCrash(h)
             \/ \E n \in Notes : HookRead(h, n)
      PROVE  MoneyKept /\ UNCHANGED PhaseOf
  BY <1>0, <1>5 DEF HookNothing, HookError, HookRollback, HookCrash, HookRead,
                    MoneyKept, orderVars, moneyVars, drawVars
<1>6. ASSUME NEW h \in Hooks, HookClose(h)
      PROVE  (MoneyKept /\ UNCHANGED PhaseOf) \/ \E o \in Orders : CloseOf(o)
  <2>1. MoneyKept
    BY <1>6 DEF HookClose, MoneyKept, moneyVars, drawVars
  <2>2. hook[h].plan \in {"failed", "expired"} /\ hook[h].note[1] \in Orders
    BY <1>6 DEF HookClose, TypeOK, Idle, Notes
  <2>3. UNCHANGED status \/ ( /\ status[hook[h].note[1]] = "pending"
                              /\ status' = [status EXCEPT ![hook[h].note[1]] = hook[h].plan])
    BY <1>6, <2>2 DEF HookClose, TypeOK
  <2>4. QED BY <1>0, <2>1, <2>2, <2>3 DEF CloseOf
<1>7. ASSUME NEW h \in Hooks, HookCredit(h)
      PROVE  (MoneyKept /\ UNCHANGED PhaseOf) \/ \E o \in Orders : CreditOf(o)
  <2>1. hook[h].note[1] \in Orders
    BY <1>7 DEF LinkInv, HookCredit, TypeOK
  <2>2. QED BY <1>0, <1>7, <2>1 DEF HookCredit, CreditOf, MoneyKept, moneyVars, drawVars
<1>8. ASSUME NEW o \in Manual, TopupReject(o) PROVE CloseOf(o)
  BY <1>8 DEF TopupReject, Reviewable, CloseOf, MoneyKept, moneyVars, drawVars
<1>9. ASSUME NEW o \in Manual, TopupApprove(o) PROVE CreditOf(o)
  BY <1>9 DEF TopupApprove, Reviewable, CreditOf, drawVars
<1>10. ASSUME NEW w \in Withdrawals,
              \/ WithdrawDecline(w) \/ WithdrawApprove(w)
              \/ \E u \in Owners : \E n \in Draws[u] : WithdrawWallet(w, u, n) \/ WithdrawBank(w, u, n)
       PROVE  UNCHANGED status
  BY <1>10 DEF WithdrawDecline, WithdrawApprove, WithdrawWallet, WithdrawBank, orderVars
<1>11. ASSUME NEW q \in Owners, NEW percent \in Percents, ShareSet(q, percent)
       PROVE  MoneyKept /\ UNCHANGED PhaseOf
  BY <1>0, <1>11 DEF ShareSet, MoneyKept, orderVars, moneyVars, drawVars
<1>12. UNCHANGED vars => MoneyKept /\ UNCHANGED PhaseOf
  BY <1>0 DEF vars, MoneyKept
<1>13. QED BY <1>1, <1>2, <1>3, <1>4, <1>5, <1>6, <1>7, <1>8, <1>9, <1>10, <1>11, <1>12
          DEF Next, HookStep

\* Every step of Payments is a step of Ledger or changes nothing in it.
LEMMA StepRefines ==
    ASSUME TypeOK, LinkInv, DrawInv, [Next]_vars
    PROVE  [Abstract!LNext]_(Abstract!lvars)
<1> DEFINE kept == UNCHANGED <<PhaseOf, balance, OwedTo>>
<1>0. kept => UNCHANGED Abstract!lvars
  BY DEF Abstract!lvars, PhaseOf, OwedTo
<1>1. CASE MoneyKept /\ UNCHANGED PhaseOf
  BY <1>0, <1>1 DEF MoneyKept, OwedTo
<1>2. ASSUME NEW o \in Orders, CloseOf(o) PROVE Abstract!LNext
  <2>1. PhaseOf[o] = "open"
    BY <1>2 DEF PhaseOf, Phase, CloseOf
  <2>2. PhaseOf' = [PhaseOf EXCEPT ![o] = "closed"]
    BY <1>2 DEF PhaseOf, Phase, CloseOf, TypeOK
  <2>3. UNCHANGED <<balance, OwedTo>>
    BY <1>2 DEF CloseOf, MoneyKept, OwedTo
  <2>4. Abstract!Close(o)
    BY <2>1, <2>2, <2>3 DEF Abstract!Close, PhaseOf, OwedTo
  <2>5. QED BY <2>4 DEF Abstract!LNext
<1>3. ASSUME NEW o \in Orders, CreditOf(o) PROVE Abstract!LNext
  BY <1>3, CreditRefines DEF CreditOf
<1>4. ASSUME NEW w \in Withdrawals, WithdrawDecline(w), UNCHANGED status PROVE kept
  <2>1. /\ payout[w].owner \in Owners /\ payout[w].amount \in Nat
        /\ pending[payout[w].owner] = payout[w].amount
        /\ pending' = [pending EXCEPT ![payout[w].owner] = 0]
    BY <1>4, ReviewEffect DEF WithdrawDecline
  <2>2. OwedTo' = OwedTo
    BY <1>4, <2>1 DEF WithdrawDecline, OwedTo, TypeOK
  <2>3. QED BY <1>4, <2>2 DEF WithdrawDecline, PhaseOf
<1>5. ASSUME NEW w \in Withdrawals, WithdrawApprove(w), UNCHANGED status PROVE Abstract!LNext
  <2>1. PICK u \in Owners : /\ pending' = [pending EXCEPT ![u] = 0]
                           /\ UNCHANGED <<available, balance>>
    BY <1>5, ReviewEffect DEF WithdrawApprove
  <2>2. OwedTo' = [OwedTo EXCEPT ![u] = OwedTo'[u]] /\ OwedTo'[u] \in 0..OwedTo[u]
    <3>1. available[u] \in Nat /\ pending[u] \in Nat /\ pending'[u] = 0
      BY <2>1 DEF TypeOK
    <3>2. OwedTo[u] = available[u] + pending[u] /\ OwedTo'[u] = available[u] + 0
      BY <2>1, <3>1 DEF OwedTo
    <3>3. \A q \in Owners : q # u => OwedTo'[q] = OwedTo[q]
      BY <2>1 DEF OwedTo, TypeOK
    <3>4. OwedTo' = [OwedTo EXCEPT ![u] = OwedTo'[u]]
      BY <3>3 DEF OwedTo
    <3>5. QED BY <3>1, <3>2, <3>4
  <2>3. UNCHANGED PhaseOf
    BY <1>5 DEF PhaseOf
  <2>4. Abstract!Pay(u)
    BY <2>1, <2>2, <2>3 DEF Abstract!Pay, PhaseOf, OwedTo
  <2>5. QED BY <2>1, <2>4 DEF Abstract!LNext
<1>6. ASSUME NEW w \in Withdrawals, NEW u \in Owners, NEW n \in Draws[u],
             WithdrawWallet(w, u, n), UNCHANGED status
      PROVE  Abstract!LNext
  <2>1. /\ n \in Nat /\ n <= available[u]
        /\ available' = [available EXCEPT ![u] = @ - n]
        /\ balance' = [balance EXCEPT ![u] = @ + n]
        /\ UNCHANGED pending
    BY <1>6, DrawAssumption DEF WithdrawWallet
  <2>2. /\ OwedTo' = [OwedTo EXCEPT ![u] = OwedTo'[u]]
        /\ OwedTo'[u] \in 0..OwedTo[u]
        /\ n = OwedTo[u] - OwedTo'[u]
    <3>1. available[u] \in Nat /\ pending[u] \in Nat /\ available'[u] = available[u] - n
      BY <2>1 DEF TypeOK
    <3>2. OwedTo[u] = available[u] + pending[u] /\ OwedTo'[u] = (available[u] - n) + pending[u]
      BY <2>1, <3>1 DEF OwedTo
    <3>3. \A q \in Owners : q # u => OwedTo'[q] = OwedTo[q]
      BY <2>1 DEF OwedTo, TypeOK
    <3>4. OwedTo' = [OwedTo EXCEPT ![u] = OwedTo'[u]]
      BY <3>3 DEF OwedTo
    <3>5. QED BY <2>1, <3>1, <3>2, <3>4
  <2>3. UNCHANGED PhaseOf
    BY <1>6 DEF PhaseOf
  <2>4. Abstract!Pay(u)
    BY <2>1, <2>2, <2>3 DEF Abstract!Pay, PhaseOf, OwedTo
  <2>5. QED BY <2>4 DEF Abstract!LNext
<1>7. ASSUME NEW w \in Withdrawals, NEW u \in Owners, NEW n \in Draws[u],
             WithdrawBank(w, u, n), UNCHANGED status
      PROVE  kept
  <2>1. OwedTo' = OwedTo
    BY <1>7, DrawAssumption DEF WithdrawBank, OwedTo, TypeOK
  <2>2. QED BY <1>7, <2>1 DEF WithdrawBank, PhaseOf
<1> HIDE DEF kept
<1>8. QED BY <1>0, <1>1, <1>2, <1>3, <1>4, <1>5, <1>6, <1>7, StepCases

\* Payments implements Ledger, whatever the order of puts, notifications,
\* reviews and withdrawals, and whatever fails between them.
THEOREM Refines == Spec => ImplementsLedger
<1>1. Init => LinkInv /\ DrawInv
  BY DEF Init, LinkInv, DrawInv, PendingOf, Idle, Orders
<1>2. Init => Abstract!LInit
  <2>1. Init => PhaseOf = [o \in Orders |-> "open"] /\ OwedTo = [u \in Owners |-> 0]
    BY DEF Init, PhaseOf, OwedTo, Phase
  <2>2. QED BY <2>1 DEF Init, Abstract!LInit, PhaseOf, OwedTo
<1>3. TypeOK /\ LinkInv /\ DrawInv /\ [Next]_vars => LinkInv' /\ DrawInv'
  BY TypeStep, LinkStep, DrawStep
<1>4. TypeOK /\ LinkInv /\ DrawInv /\ [Next]_vars => [Abstract!LNext]_(Abstract!lvars)
  BY StepRefines
<1>5. QED BY TypeCorrect, <1>1, <1>2, <1>3, <1>4, PTL DEF Spec, ImplementsLedger, Abstract!LSpec

-----------------------------------------------------------------------------
(* Balances                                                                *)

\* A withdrawal that was not requested has no type; so a new one is not yet
\* among those that explain a balance.
FreshDraws == \A w \in Withdrawals : payout[w].status = "none" => payout[w].type = "none"
BalanceInv == FreshDraws /\ BalanceExplained

\* The sums are over finite sets of natural numbers.
LEMMA Finite ==
    ASSUME NEW u
    PROVE  /\ IsFiniteSet(SettledOrders(u)) /\ IsFiniteSet(MovedOver(u))
           /\ IsFiniteSet(PaidOut(u)) /\ IsFiniteSet(PendingOf(u))
BY FiniteAssumption, FS_Subset DEF SettledOrders, MovedOver, PaidOut, PendingOf

LEMMA SumTypes ==
    ASSUME TypeOK, NEW S \in SUBSET Withdrawals
    PROVE  /\ Drawn \in [Withdrawals -> Nat] /\ IsFiniteSet(S)
           /\ SumFunctionOnSet(Drawn, S) \in Nat
           /\ \A u : SumFunctionOnSet(Amount, SettledOrders(u)) \in Nat
<1>1. \A w \in Withdrawals : payout[w].amount \in Nat
  BY DEF TypeOK, Payouts
<1>2. Drawn \in [Withdrawals -> Nat] /\ IsFiniteSet(S)
  BY <1>1, FiniteAssumption, FS_Subset DEF Drawn
<1>3. SumFunctionOnSet(Drawn, S) \in Nat
  BY <1>2, SumNat
<1>4. ASSUME NEW u PROVE SumFunctionOnSet(Amount, SettledOrders(u)) \in Nat
  <2>1. IsFiniteSet(SettledOrders(u)) /\ \A o \in SettledOrders(u) : Amount[o] \in Nat
    BY Finite, OrderAssumption DEF SettledOrders
  <2> QED
    BY <2>1, SumNat
<1> QED
  BY <1>2, <1>3, <1>4

\* A credit adds its order to what explains the balance of the payer.
LEMMA CreditExplained ==
    ASSUME TypeOK, NEW o \in Orders, CreditOf(o), NEW u \in Owners
    PROVE  SumFunctionOnSet(Amount, SettledOrders(u)') =
             SumFunctionOnSet(Amount, SettledOrders(u)) + (IF u = Payer[o] THEN Amount[o] ELSE 0)
<1> DEFINE S == SettledOrders(u)
<1>1. IsFiniteSet(S) /\ S \subseteq Orders /\ o \notin S
  BY Finite DEF SettledOrders, CreditOf
<1>2. \A p \in S \cup {o} : Amount[p] \in Nat
  BY <1>1, OrderAssumption
<1>3. SumFunctionOnSet(Amount, S) \in Nat
  BY <1>1, <1>2, SumNat
<1>4. CASE u = Payer[o]
  <2>1. SettledOrders(u)' = S \cup {o}
    BY <1>4 DEF SettledOrders, CreditOf, TypeOK
  <2>2. SumFunctionOnSet(Amount, S \cup {o}) = SumFunctionOnSet(Amount, S) + Amount[o]
    BY <1>1, <1>2, SumAdd
  <2> QED
    BY <1>4, <2>1, <2>2
<1>5. CASE u # Payer[o]
  <2>1. SettledOrders(u)' = S
    BY <1>5 DEF SettledOrders, CreditOf, TypeOK
  <2> QED
    BY <1>3, <1>5, <2>1
<1> QED
  BY <1>4, <1>5

\* A step that writes payout w leaves the sums without w alone, and adds the
\* new amount to those with it.
LEMMA DrawnChanges ==
    ASSUME TypeOK, TypeOK', NEW w \in Withdrawals,
           \A v \in Withdrawals : v # w => payout'[v] = payout[v],
           NEW S \in SUBSET Withdrawals, w \notin S
    PROVE  /\ SumFunctionOnSet(Drawn', S) = SumFunctionOnSet(Drawn, S)
           /\ SumFunctionOnSet(Drawn', S \cup {w}) =
                SumFunctionOnSet(Drawn, S) + payout'[w].amount
<1>1. IsFiniteSet(S)
  BY FiniteAssumption, FS_Subset
<1>2. \A v \in S : Drawn'[v] = Drawn[v]
  BY DEF Drawn
<1>3. SumFunctionOnSet(Drawn', S) = SumFunctionOnSet(Drawn, S)
  BY <1>1, <1>2, SumSame
<1>4. \A v \in S \cup {w} : Drawn'[v] \in Nat
  BY DEF Drawn, TypeOK, Payouts
<1>5. SumFunctionOnSet(Drawn', S \cup {w}) = SumFunctionOnSet(Drawn', S) + Drawn'[w]
  BY <1>1, <1>4, SumAdd
<1>6. Drawn'[w] = payout'[w].amount
  BY DEF Drawn
<1> QED
  BY <1>3, <1>5, <1>6

\* A review leaves the owner, the type and the amount of every payout alone.
LEMMA ReviewKeeps ==
    ASSUME TypeOK, NEW w \in Withdrawals, NEW s,
           payout' = [payout EXCEPT ![w].status = IF @ = "available" THEN s ELSE @]
    PROVE  /\ Drawn' = Drawn /\ \A u : MovedOver(u)' = MovedOver(u)
           /\ \A v \in Withdrawals : /\ payout'[v].owner = payout[v].owner
                                     /\ payout'[v].type = payout[v].type
                                     /\ payout'[v].amount = payout[v].amount
                                     /\ v # w => payout'[v] = payout[v]
           /\ payout'[w].status = IF payout[w].status = "available" THEN s ELSE payout[w].status
<1>1. payout[w] \in Payouts
  BY DEF TypeOK
<1>2. /\ payout'[w].owner = payout[w].owner /\ payout'[w].type = payout[w].type
      /\ payout'[w].amount = payout[w].amount
      /\ payout'[w].status = IF payout[w].status = "available" THEN s ELSE payout[w].status
  BY <1>1 DEF TypeOK, Payouts
<1>3. \A v \in Withdrawals : v # w => payout'[v] = payout[v]
  BY DEF TypeOK
<1>4. \A v \in Withdrawals : /\ payout'[v].owner = payout[v].owner
                             /\ payout'[v].type = payout[v].type
                             /\ payout'[v].amount = payout[v].amount
  BY <1>2, <1>3
<1> QED
  BY <1>2, <1>3, <1>4 DEF Drawn, MovedOver

\* Every step keeps BalanceInv.
LEMMA BalanceStep ==
    ASSUME TypeOK, TypeOK', LinkInv, BalanceInv, [Next]_vars
    PROVE  BalanceInv'
<1>0. ASSUME UNCHANGED <<balance, payout>>,
             \A o \in Orders : status[o] = "settled" <=> status'[o] = "settled"
      PROVE  BalanceInv'
  <2>1. \A u : SettledOrders(u)' = SettledOrders(u) /\ MovedOver(u)' = MovedOver(u)
    BY <1>0 DEF SettledOrders, MovedOver
  <2>2. Drawn' = Drawn
    BY <1>0 DEF Drawn
  <2> QED
    BY <1>0, <2>1, <2>2 DEF BalanceInv, FreshDraws, BalanceExplained
<1>1. CASE MoneyKept /\ UNCHANGED PhaseOf
  <2>1. \A o \in Orders : Phase(status'[o]) = Phase(status[o])
    <3>1. \A o \in Orders : PhaseOf[o] = Phase(status[o]) /\ PhaseOf'[o] = Phase(status'[o])
      BY DEF PhaseOf
    <3> QED
      BY <1>1, <3>1
  <2>2. \A o \in Orders : status[o] = "settled" <=> status'[o] = "settled"
    BY <2>1 DEF Phase
  <2> QED
    BY <1>0, <1>1, <2>2 DEF MoneyKept
<1>2. ASSUME NEW o \in Orders, CloseOf(o) PROVE BalanceInv'
  <2>1. \A p \in Orders : status[p] = "settled" <=> status'[p] = "settled"
    BY <1>2 DEF CloseOf, TypeOK
  <2> QED
    BY <1>0, <1>2, <2>1 DEF CloseOf, MoneyKept
<1>3. ASSUME NEW o \in Orders, CreditOf(o) PROVE BalanceInv'
  <2>1. Drawn' = Drawn /\ \A u : MovedOver(u)' = MovedOver(u)
    BY <1>3 DEF CreditOf, Drawn, MovedOver
  <2>2. ASSUME NEW u \in Owners
        PROVE  balance'[u] = SumFunctionOnSet(Amount, SettledOrders(u)')
                             + SumFunctionOnSet(Drawn, MovedOver(u))
    <3>1. balance'[u] = balance[u] + (IF u = Payer[o] THEN Amount[o] ELSE 0)
      BY <1>3, CreditEffect, OrderAssumption DEF CreditOf, TypeOK
    <3>2. /\ SumFunctionOnSet(Amount, SettledOrders(u)) \in Nat
          /\ SumFunctionOnSet(Drawn, MovedOver(u)) \in Nat /\ Amount[o] \in Nat
      BY SumTypes, OrderAssumption DEF MovedOver
    <3>3. balance[u] = SumFunctionOnSet(Amount, SettledOrders(u))
                       + SumFunctionOnSet(Drawn, MovedOver(u))
      BY DEF BalanceInv, BalanceExplained
    <3>4. SumFunctionOnSet(Amount, SettledOrders(u)') =
            SumFunctionOnSet(Amount, SettledOrders(u)) + (IF u = Payer[o] THEN Amount[o] ELSE 0)
      BY <1>3, CreditExplained
    <3> QED
      BY <3>1, <3>2, <3>3, <3>4
  <2>3. BalanceExplained'
    BY <2>1, <2>2 DEF BalanceExplained
  <2> QED
    BY <1>3, <2>3 DEF BalanceInv, FreshDraws, CreditOf
<1>4. ASSUME NEW w \in Withdrawals, WithdrawDecline(w) \/ WithdrawApprove(w), UNCHANGED status
      PROVE  BalanceInv'
  <2>1. PICK s \in {"settled", "cancelled"} :
          payout' = [payout EXCEPT ![w].status = IF @ = "available" THEN s ELSE @]
    BY <1>4 DEF WithdrawDecline, WithdrawApprove
  <2>2. /\ Drawn' = Drawn /\ \A u : MovedOver(u)' = MovedOver(u)
        /\ \A v \in Withdrawals : payout'[v].type = payout[v].type
        /\ \A v \in Withdrawals : v # w => payout'[v] = payout[v]
        /\ payout'[w].status = IF payout[w].status = "available" THEN s ELSE payout[w].status
    BY <2>1, ReviewKeeps
  <2>3. UNCHANGED balance /\ \A u : SettledOrders(u)' = SettledOrders(u)
    BY <1>4 DEF WithdrawDecline, WithdrawApprove, SettledOrders
  <2> QED
    BY <2>2, <2>3 DEF BalanceInv, FreshDraws, BalanceExplained
<1>5. ASSUME NEW w \in Withdrawals, NEW q \in Owners, NEW n \in Draws[q],
             WithdrawWallet(w, q, n) \/ WithdrawBank(w, q, n), UNCHANGED status
      PROVE  BalanceInv'
  <2>1. /\ payout[w].status = "none" /\ payout[w].type = "none" /\ n \in Nat
        /\ payout'[w].status # "none" /\ payout'[w].owner = q /\ payout'[w].amount = n
        /\ payout'[w].type = "payout_wallet" <=> WithdrawWallet(w, q, n)
        /\ \A v \in Withdrawals : v # w => payout'[v] = payout[v]
        /\ \A u \in Owners : balance'[u] =
             balance[u] + (IF u = q /\ WithdrawWallet(w, q, n) THEN n ELSE 0)
    <3>1. payout[w].status = "none" /\ n \in Nat
      BY <1>5, DrawAssumption DEF WithdrawWallet, WithdrawBank
    <3>2. CASE WithdrawWallet(w, q, n)
      BY <3>1, <3>2 DEF WithdrawWallet, TypeOK, BalanceInv, FreshDraws
    <3>3. CASE WithdrawBank(w, q, n)
      <4>1. ~WithdrawWallet(w, q, n)
        BY <3>3 DEF WithdrawWallet, WithdrawBank, TypeOK
      <4> QED
        BY <3>1, <3>3, <4>1 DEF WithdrawBank, TypeOK, BalanceInv, FreshDraws
    <3> QED
      BY <1>5, <3>2, <3>3
  <2>2. FreshDraws'
    BY <2>1 DEF BalanceInv, FreshDraws
  <2>3. ASSUME NEW u \in Owners
        PROVE  balance'[u] = SumFunctionOnSet(Amount, SettledOrders(u)')
                             + SumFunctionOnSet(Drawn', MovedOver(u)')
    <3> DEFINE S == MovedOver(u)
    <3>1. S \in SUBSET Withdrawals /\ w \notin S
      BY <2>1 DEF MovedOver
    <3>2. SettledOrders(u)' = SettledOrders(u)
      BY <1>5 DEF SettledOrders
    <3>3. /\ SumFunctionOnSet(Amount, SettledOrders(u)) \in Nat
          /\ SumFunctionOnSet(Drawn, S) \in Nat /\ balance[u] \in Nat
      BY <3>1, SumTypes DEF TypeOK
    <3>4. balance[u] = SumFunctionOnSet(Amount, SettledOrders(u)) + SumFunctionOnSet(Drawn, S)
      BY DEF BalanceInv, BalanceExplained
    <3>5. /\ SumFunctionOnSet(Drawn', S) = SumFunctionOnSet(Drawn, S)
          /\ SumFunctionOnSet(Drawn', S \cup {w}) = SumFunctionOnSet(Drawn, S) + n
      BY <2>1, <3>1, DrawnChanges
    <3>6. CASE u = q /\ WithdrawWallet(w, q, n)
      <4>1. MovedOver(u)' = S \cup {w}
        BY <2>1, <3>6 DEF MovedOver
      <4> HIDE DEF S
      <4> QED
        BY <2>1, <3>2, <3>3, <3>4, <3>5, <3>6, <4>1
    <3>7. CASE ~(u = q /\ WithdrawWallet(w, q, n))
      <4>1. MovedOver(u)' = S
        BY <2>1, <3>7 DEF MovedOver
      <4> HIDE DEF S
      <4> QED
        BY <2>1, <3>2, <3>3, <3>4, <3>5, <3>7, <4>1
    <3> QED
      BY <3>6, <3>7
  <2> QED
    BY <2>2, <2>3 DEF BalanceInv, BalanceExplained
<1> QED
  BY <1>1, <1>2, <1>3, <1>4, <1>5, StepCases

\* A balance is what its settled orders credited and what its owner moved over
\* from commission, for any orders, notifications and withdrawals.
THEOREM BalanceCorrect == Spec => []BalanceExplained
<1>1. Init => LinkInv
  BY DEF Init, LinkInv, Idle, Orders
<1>2. Init => BalanceInv
  <2> SUFFICES ASSUME Init PROVE BalanceInv
    OBVIOUS
  <2>1. \A u \in Owners : SettledOrders(u) = {} /\ MovedOver(u) = {}
    BY NoneAssumption DEF Init, SettledOrders, MovedOver
  <2>2. SumFunctionOnSet(Amount, {}) = 0 /\ SumFunctionOnSet(Drawn, {}) = 0
    BY SumZero, FS_EmptySet
  <2>3. FreshDraws /\ \A u \in Owners : balance[u] = 0
    BY DEF Init, FreshDraws
  <2> QED
    BY <2>1, <2>2, <2>3 DEF BalanceInv, BalanceExplained
<1>3. TypeOK /\ LinkInv /\ [Next]_vars => LinkInv'
  BY TypeStep, LinkStep
<1>4. TypeOK /\ TypeOK' /\ LinkInv /\ BalanceInv /\ [Next]_vars => BalanceInv'
  BY BalanceStep
<1>5. BalanceInv => BalanceExplained
  BY DEF BalanceInv
<1> QED
  BY <1>1, <1>2, <1>3, <1>4, <1>5, TypeCorrect, PTL DEF Spec

-----------------------------------------------------------------------------
(* Commission that was earned                                              *)

\* The first part of CommissionConserved; the others follow from DrawInv.
EarnedInv == \A u \in Owners :
    earned[u] = available[u] + pending[u] + SumFunctionOnSet(Drawn, PaidOut(u))

\* What an upline is credited is both earned and available.
LEMMA CreditEarned ==
    ASSUME TypeOK, NEW o \in Orders, CreditAndAccrue(o), NEW u \in Owners
    PROVE  \E n \in Nat : earned'[u] = earned[u] + n /\ available'[u] = available[u] + n
<1>1. Accrued(o, u) \in Nat
  BY CommissionNat DEF Accrued, TypeOK
<1>2. earned'[u] = earned[u] + Accrued(o, u) /\ available'[u] = available[u] + Accrued(o, u)
  BY DEF CreditAndAccrue
<1> QED
  BY <1>1, <1>2

\* Every step keeps EarnedInv.
LEMMA EarnedStep ==
    ASSUME TypeOK, TypeOK', LinkInv, DrawInv, EarnedInv, [Next]_vars
    PROVE  EarnedInv'
<1>0. \A u : PaidOut(u) \in SUBSET Withdrawals
  BY DEF PaidOut
<1>00. \A u \in Owners : /\ SumFunctionOnSet(Drawn, PaidOut(u)) \in Nat
                         /\ earned[u] \in Nat /\ available[u] \in Nat /\ pending[u] \in Nat
  BY <1>0, SumTypes DEF TypeOK
<1>1. ASSUME MoneyKept PROVE EarnedInv'
  <2>1. Drawn' = Drawn /\ \A u : PaidOut(u)' = PaidOut(u)
    BY <1>1 DEF MoneyKept, Drawn, PaidOut
  <2> QED
    BY <1>1, <2>1 DEF MoneyKept, EarnedInv
<1>2. ASSUME NEW o \in Orders, CreditOf(o) PROVE EarnedInv'
  <2>1. Drawn' = Drawn /\ \A u : PaidOut(u)' = PaidOut(u)
    BY <1>2 DEF CreditOf, Drawn, PaidOut
  <2>2. ASSUME NEW u \in Owners
        PROVE  earned'[u] = available'[u] + pending'[u] + SumFunctionOnSet(Drawn, PaidOut(u))
    <3>1. PICK n \in Nat : earned'[u] = earned[u] + n /\ available'[u] = available[u] + n
      BY <1>2, CreditEarned DEF CreditOf
    <3>2. pending'[u] = pending[u]
      BY <1>2 DEF CreditOf, CreditAndAccrue
    <3>3. earned[u] = available[u] + pending[u] + SumFunctionOnSet(Drawn, PaidOut(u))
      BY DEF EarnedInv
    <3> QED
      BY <1>00, <3>1, <3>2, <3>3
  <2> QED
    BY <2>1, <2>2 DEF EarnedInv
<1>3. ASSUME NEW w \in Withdrawals, NEW s \in {"settled", "cancelled"},
             request[w] = "pending", UNCHANGED earned,
             payout' = [payout EXCEPT ![w].status = IF @ = "available" THEN s ELSE @],
             pending' = [pending EXCEPT ![payout[w].owner] = 0],
             IF s = "settled" THEN UNCHANGED available
             ELSE available' = [available EXCEPT ![payout[w].owner] = @ + payout[w].amount]
      PROVE  EarnedInv'
  <2>1. /\ payout[w].owner \in Owners /\ payout[w].status = "available"
        /\ pending[payout[w].owner] = payout[w].amount /\ payout[w].amount \in Nat
    BY <1>3 DEF DrawInv, TypeOK, Payouts
  <2>2. /\ payout'[w].owner = payout[w].owner /\ payout'[w].amount = payout[w].amount
        /\ payout'[w].status = s
        /\ \A v \in Withdrawals : v # w => payout'[v] = payout[v]
    <3>1. payout' = [payout EXCEPT ![w].status = IF @ = "available" THEN s ELSE @]
      BY <1>3
    <3>2. payout'[w].status = IF payout[w].status = "available" THEN s ELSE payout[w].status
      BY <3>1, ReviewKeeps
    <3>3. /\ payout'[w].owner = payout[w].owner /\ payout'[w].amount = payout[w].amount
          /\ \A v \in Withdrawals : v # w => payout'[v] = payout[v]
      BY <3>1, ReviewKeeps
    <3> QED
      BY <2>1, <3>2, <3>3
  <2>3. ASSUME NEW u \in Owners
        PROVE  earned'[u] = available'[u] + pending'[u] + SumFunctionOnSet(Drawn', PaidOut(u)')
    <3> DEFINE S == PaidOut(u)
    <3>1. S \in SUBSET Withdrawals /\ w \notin S
      BY <2>1 DEF PaidOut
    <3>2. /\ SumFunctionOnSet(Drawn', S) = SumFunctionOnSet(Drawn, S)
          /\ SumFunctionOnSet(Drawn', S \cup {w}) = SumFunctionOnSet(Drawn, S) + payout[w].amount
      BY <2>2, <3>1, DrawnChanges
    <3>3. earned'[u] = available[u] + pending[u] + SumFunctionOnSet(Drawn, S)
      BY <1>3 DEF EarnedInv
    <3>4. PaidOut(u)' = IF u = payout[w].owner /\ s = "settled" THEN S \cup {w} ELSE S
      BY <2>2, <3>1 DEF PaidOut
    <3>5. /\ pending'[u] = IF u = payout[w].owner THEN 0 ELSE pending[u]
          /\ available'[u] = IF u = payout[w].owner /\ s # "settled"
                             THEN available[u] + payout[w].amount ELSE available[u]
      BY <1>3 DEF TypeOK
    <3>6. /\ SumFunctionOnSet(Drawn, S) \in Nat /\ available[u] \in Nat /\ pending[u] \in Nat
      BY <1>00
    <3> HIDE DEF S
    <3>7. CASE u = payout[w].owner /\ s = "settled"
      BY <2>1, <3>2, <3>3, <3>4, <3>5, <3>6, <3>7
    <3>8. CASE u = payout[w].owner /\ s # "settled"
      BY <2>1, <3>2, <3>3, <3>4, <3>5, <3>6, <3>8
    <3>9. CASE u # payout[w].owner
      BY <3>2, <3>3, <3>4, <3>5, <3>6, <3>9
    <3> QED
      BY <3>7, <3>8, <3>9
  <2> QED
    BY <2>3 DEF EarnedInv
<1>4. ASSUME NEW w \in Withdrawals, WithdrawDecline(w) PROVE EarnedInv'
  <2>1. pending' = [pending EXCEPT ![payout[w].owner] = 0]
    BY <1>4, ReviewEffect DEF WithdrawDecline
  <2> QED
    BY <1>4, <1>3, <2>1 DEF WithdrawDecline
<1>5. ASSUME NEW w \in Withdrawals, WithdrawApprove(w) PROVE EarnedInv'
  <2>1. pending' = [pending EXCEPT ![payout[w].owner] = 0]
    BY <1>5, ReviewEffect DEF WithdrawApprove
  <2> QED
    BY <1>5, <1>3, <2>1 DEF WithdrawApprove
<1>6. ASSUME NEW w \in Withdrawals, NEW q \in Owners, NEW n \in Draws[q],
             WithdrawWallet(w, q, n) \/ WithdrawBank(w, q, n)
      PROVE  EarnedInv'
  <2>1. /\ payout[w].status = "none" /\ n \in Nat /\ n <= available[q] /\ UNCHANGED earned
        /\ available' = [available EXCEPT ![q] = @ - n]
        /\ payout'[w].owner = q /\ payout'[w].amount = n
        /\ \A v \in Withdrawals : v # w => payout'[v] = payout[v]
        /\ \/ payout'[w].status = "settled" /\ UNCHANGED pending
           \/ payout'[w].status = "available" /\ pending' = [pending EXCEPT ![q] = @ + n]
    BY <1>6, DrawAssumption DEF WithdrawWallet, WithdrawBank, TypeOK
  <2>2. ASSUME NEW u \in Owners
        PROVE  earned'[u] = available'[u] + pending'[u] + SumFunctionOnSet(Drawn', PaidOut(u)')
    <3> DEFINE S == PaidOut(u)
               now == payout'[w].status = "settled"
    <3>1. S \in SUBSET Withdrawals /\ w \notin S
      BY <2>1 DEF PaidOut
    <3>2. /\ SumFunctionOnSet(Drawn', S) = SumFunctionOnSet(Drawn, S)
          /\ SumFunctionOnSet(Drawn', S \cup {w}) = SumFunctionOnSet(Drawn, S) + n
      BY <2>1, <3>1, DrawnChanges
    <3>3. earned'[u] = available[u] + pending[u] + SumFunctionOnSet(Drawn, S)
      BY <2>1 DEF EarnedInv
    <3>4. PaidOut(u)' = IF u = q /\ now THEN S \cup {w} ELSE S
      BY <2>1, <3>1 DEF PaidOut
    <3>5. /\ available'[u] = IF u = q THEN available[u] - n ELSE available[u]
          /\ pending'[u] = IF u = q /\ ~now THEN pending[u] + n ELSE pending[u]
      BY <2>1 DEF TypeOK
    <3>6. SumFunctionOnSet(Drawn, S) \in Nat /\ available[u] \in Nat /\ pending[u] \in Nat
      BY <1>00
    <3> HIDE DEF S, now
    <3>7. CASE u = q /\ now
      BY <2>1, <3>2, <3>3, <3>4, <3>5, <3>6, <3>7
    <3>8. CASE u = q /\ ~now
      BY <2>1, <3>2, <3>3, <3>4, <3>5, <3>6, <3>8
    <3>9. CASE u # q
      BY <3>2, <3>3, <3>4, <3>5, <3>6, <3>9
    <3> QED
      BY <3>7, <3>8, <3>9
  <2> QED
    BY <2>2 DEF EarnedInv
<1> QED
  BY <1>1, <1>2, <1>4, <1>5, <1>6, StepCases DEF CloseOf

\* What waits for review is the amount of the one pending request.
LEMMA PendingSum ==
    ASSUME TypeOK, DrawInv, NEW u \in Owners
    PROVE  pending[u] = SumFunctionOnSet(Drawn, PendingOf(u)) /\ Cardinality(PendingOf(u)) <= 1
<1>1. CASE PendingOf(u) = {}
  <2>1. Cardinality(PendingOf(u)) = 0 /\ SumFunctionOnSet(Drawn, PendingOf(u)) = 0
    BY <1>1, FS_EmptySet, SumZero
  <2> QED
    BY <1>1, <2>1 DEF DrawInv
<1>2. ASSUME NEW w \in PendingOf(u) PROVE pending[u] = SumFunctionOnSet(Drawn, PendingOf(u))
                                           /\ Cardinality(PendingOf(u)) = 1
  <2>1. PendingOf(u) = {w} /\ w \in Withdrawals /\ pending[u] = payout[w].amount
    BY <1>2 DEF PendingOf, DrawInv
  <2>2. Drawn[w] = payout[w].amount /\ Drawn[w] \in Nat
    BY <2>1 DEF Drawn, TypeOK, Payouts
  <2>3. SumFunctionOnSet(Drawn, {w}) = Drawn[w] /\ Cardinality({w}) = 1
    BY <2>2, SumSingle, FS_Singleton
  <2> QED
    BY <2>1, <2>2, <2>3
<1> QED
  BY <1>1, <1>2

\* What an owner has earned is available, waiting for review in one request or
\* paid out, whatever is requested, approved and declined.
THEOREM CommissionCorrect == Spec => []CommissionConserved
<1>1. Init => LinkInv /\ DrawInv
  BY DEF Init, LinkInv, DrawInv, PendingOf, Idle, Orders
<1>2. Init => EarnedInv
  <2> SUFFICES ASSUME Init PROVE EarnedInv
    OBVIOUS
  <2>1. \A u \in Owners : PaidOut(u) = {} /\ earned[u] = 0 /\ available[u] = 0 /\ pending[u] = 0
    BY DEF Init, PaidOut
  <2>2. SumFunctionOnSet(Drawn, {}) = 0
    BY SumZero, FS_EmptySet
  <2> QED
    BY <2>1, <2>2 DEF EarnedInv
<1>3. TypeOK /\ LinkInv /\ DrawInv /\ [Next]_vars => LinkInv' /\ DrawInv'
  BY TypeStep, LinkStep, DrawStep
<1>4. TypeOK /\ TypeOK' /\ LinkInv /\ DrawInv /\ EarnedInv /\ [Next]_vars => EarnedInv'
  BY EarnedStep
<1>5. TypeOK /\ DrawInv /\ EarnedInv => CommissionConserved
  BY PendingSum DEF EarnedInv, CommissionConserved
<1> QED
  BY <1>1, <1>2, <1>3, <1>4, <1>5, TypeCorrect, PTL DEF Spec

-----------------------------------------------------------------------------
(* Commission of an order and the marketing pool                           *)

\* Rounding down, cancelling a factor and distributing one.
LEMMA QuotientBelow == ASSUME NEW x \in Nat, NEW d \in Nat \ {0} PROVE (x \div d) * d <= x
OBVIOUS

LEMMA ProductOrder ==
    ASSUME NEW x \in Nat, NEW y \in Nat, NEW d \in Nat \ {0}, x * d <= y * d PROVE x <= y
OBVIOUS

LEMMA Distribute ==
    ASSUME NEW x \in Nat, NEW y \in Nat, NEW z \in Nat, NEW d \in Nat
    PROVE  (x + y + z) * d = x * d + y * d + z * d
OBVIOUS

\* Three levels that together are d, each scaled by p of d and rounded down,
\* are together at most p.
LEMMA ScaleBound ==
    ASSUME NEW x \in Nat, NEW y \in Nat, NEW z \in Nat, NEW p \in Nat,
           NEW d \in Nat \ {0}, d = x + y + z
    PROVE  (x * p) \div d + (y * p) \div d + (z * p) \div d <= p
<1> DEFINE qx == (x * p) \div d
           qy == (y * p) \div d
           qz == (z * p) \div d
<1>1. x * p \in Nat /\ y * p \in Nat /\ z * p \in Nat
  BY ProductNat
<1>2. qx \in Nat /\ qy \in Nat /\ qz \in Nat
  BY <1>1, QuotientNat
<1>3. qx * d <= x * p /\ qy * d <= y * p /\ qz * d <= z * p
  BY <1>1, QuotientBelow
<1> HIDE DEF qx, qy, qz
<1>4. qx * d \in Nat /\ qy * d \in Nat /\ qz * d \in Nat
  BY <1>2, ProductNat
<1>5. (qx + qy + qz) * d = qx * d + qy * d + qz * d
  BY <1>2, Distribute
<1>6. x * p + y * p + z * p = d * p /\ d * p = p * d
  BY Distribute
<1>7. (qx + qy + qz) * d <= p * d
  BY <1>1, <1>3, <1>4, <1>5, <1>6
<1>8. qx + qy + qz \in Nat
  BY <1>2
<1>9. qx + qy + qz <= p
  BY <1>7, <1>8, ProductOrder
<1> QED
  BY <1>9 DEF qx, qy, qz

\* The uplines of a payer are different owners.
LEMMA UplinesDiffer ==
    ASSUME NEW u \in Owners
    PROVE  /\ Up1(u) = Up2(u) => Up1(u) = None
           /\ Up1(u) = Up3(u) => Up1(u) = None
           /\ Up2(u) = Up3(u) => Up2(u) = None
<1>1. ASSUME NEW v \in Owners PROVE v \notin {Up1(v), Up2(v), Up3(v)}
  BY UplineAssumption
<1>2. Up1(u) # None => /\ Up1(u) \in Owners
                       /\ Up2(u) = Up1(Up1(u)) /\ Up3(u) = Up2(Up1(u))
  BY UplineAssumption DEF Up1, Up2, Up3
<1>3. Up2(u) # None => Up2(u) \in Owners /\ Up3(u) = Up1(Up2(u))
  BY UplineAssumption DEF Up1, Up2, Up3
<1> QED
  BY <1>1, <1>2, <1>3

\* The levels of an order, as they are paid, are within its pool.
LEMMA LevelsWithinPool ==
    ASSUME share \in [Owners -> 0..35], NEW o \in Orders
    PROVE  LET e1 == Scaled(o, Raw1(o))
               e2 == Scaled(o, Raw2(o))
               e3 == Scaled(o, Raw3(o))
           IN  e1 \in Nat /\ e2 \in Nat /\ e3 \in Nat /\ e1 + e2 + e3 <= Pool(o)
<1>1. Payer[o] \in Owners
  BY OrderAssumption
<1>2. Raw1(o) \in Nat /\ Raw2(o) \in Nat /\ Raw3(o) \in Nat
  BY <1>1, RawNat, UplineType DEF Raw1, Raw2, Raw3
<1>3. Pool(o) \in Nat
  BY ProductNat, QuotientNat, OrderAssumption DEF Pool
<1>4. CASE Distributed(o) > Pool(o)
  <2>1. Distributed(o) \in Nat \ {0} /\ Distributed(o) = Raw1(o) + Raw2(o) + Raw3(o)
    BY <1>2, <1>3, <1>4 DEF Distributed
  <2>2. /\ (Raw1(o) * Pool(o)) \div Distributed(o) \in Nat
        /\ (Raw2(o) * Pool(o)) \div Distributed(o) \in Nat
        /\ (Raw3(o) * Pool(o)) \div Distributed(o) \in Nat
    BY <1>2, <1>3, <2>1, ProductNat, QuotientNat
  <2>3. (Raw1(o) * Pool(o)) \div Distributed(o) + (Raw2(o) * Pool(o)) \div Distributed(o)
          + (Raw3(o) * Pool(o)) \div Distributed(o) <= Pool(o)
    BY <1>2, <1>3, <2>1, ScaleBound
  <2> QED
    BY <1>4, <2>2, <2>3 DEF Scaled
<1>5. CASE ~(Distributed(o) > Pool(o))
  BY <1>2, <1>3, <1>5 DEF Scaled, Distributed
<1> QED
  BY <1>4, <1>5

\* The commissions of an order, over all owners, are within its pool.
LEMMA CommissionWithinPool ==
    ASSUME share \in [Owners -> 0..35], NEW o \in Orders,
           NEW f \in [Owners -> Nat], \A u \in Owners : f[u] = Commission(o, u)
    PROVE  SumFunctionOnSet(f, Owners) <= Pool(o)
<1> DEFINE a == Up1(Payer[o])
           b == Up2(Payer[o])
           c == Up3(Payer[o])
           A == Owners \ {a}
           B == A \ {b}
           C == B \ {c}
<1>1. /\ Scaled(o, Raw1(o)) \in Nat /\ Scaled(o, Raw2(o)) \in Nat /\ Scaled(o, Raw3(o)) \in Nat
      /\ Scaled(o, Raw1(o)) + Scaled(o, Raw2(o)) + Scaled(o, Raw3(o)) <= Pool(o)
  BY LevelsWithinPool
<1>2. /\ a = b => a = None
      /\ a = c => a = None
      /\ b = c => b = None
  BY UplinesDiffer, OrderAssumption
<1>3. /\ a \in Owners => f[a] = Scaled(o, Raw1(o))
      /\ b \in A => f[b] = Scaled(o, Raw2(o))
      /\ c \in B => f[c] = Scaled(o, Raw3(o))
      /\ \A u \in C : f[u] = 0
  BY <1>2, NoneAssumption DEF Commission
<1>4. IsFiniteSet(Owners) /\ IsFiniteSet(A) /\ IsFiniteSet(B) /\ IsFiniteSet(C)
  BY FiniteAssumption, FS_Subset
<1>5. \A u \in Owners : f[u] \in Nat
  OBVIOUS
<1>6. Pool(o) \in Nat
  BY ProductNat, QuotientNat, OrderAssumption DEF Pool
<1>7. SumFunctionOnSet(f, Owners) <= Scaled(o, Raw1(o)) + SumFunctionOnSet(f, A)
  BY <1>1, <1>3, <1>4, <1>5, SumBelow
<1>8. SumFunctionOnSet(f, A) <= Scaled(o, Raw2(o)) + SumFunctionOnSet(f, B)
  BY <1>1, <1>3, <1>4, <1>5, SumBelow
<1>9. SumFunctionOnSet(f, B) <= Scaled(o, Raw3(o)) + SumFunctionOnSet(f, C)
  BY <1>1, <1>3, <1>4, <1>5, SumBelow
<1>10. SumFunctionOnSet(f, C) = 0
  BY <1>3, <1>4, SumZero
<1>11. /\ SumFunctionOnSet(f, Owners) \in Nat /\ SumFunctionOnSet(f, A) \in Nat
       /\ SumFunctionOnSet(f, B) \in Nat
  BY <1>4, <1>5, SumNat
<1> HIDE DEF A, B, C
<1> QED
  BY <1>1, <1>6, <1>7, <1>8, <1>9, <1>10, <1>11

\* Only a settled order has accrual rows, and they are within its pool.
PoolInv ==
    /\ \A o \in Orders : status[o] # "settled" => \A u \in Owners : accrual[<<o, u>>] = 0
    /\ WithinPool

\* Every step keeps PoolInv.
LEMMA PoolStep ==
    ASSUME TypeOK, TypeOK', LinkInv, PoolInv, [Next]_vars
    PROVE  PoolInv'
<1>1. CASE /\ \A o \in Orders : status[o] = "settled" <=> status'[o] = "settled"
           /\ UNCHANGED accrual
  BY <1>1 DEF PoolInv, WithinPool
<1>2. ASSUME NEW o \in Orders, status[o] \in {"pending", "pending_review"},
             status' = [status EXCEPT ![o] = "settled"], CreditAndAccrue(o)
      PROVE  PoolInv'
  <2>1. \A p \in Orders, u \in Owners : p # o => accrual'[<<p, u>>] = accrual[<<p, u>>]
    BY <1>2, CreditEffect
  <2>2. \A p \in Orders : status'[p] # "settled" => p # o /\ status[p] # "settled"
    BY <1>2 DEF TypeOK
  <2>3. \A p \in Orders : status'[p] # "settled" => \A u \in Owners : accrual'[<<p, u>>] = 0
    BY <2>1, <2>2 DEF PoolInv
  <2>4. ASSUME NEW p \in Orders, p # o
        PROVE  SumFunctionOnSet([u \in Owners |-> accrual'[<<p, u>>]], Owners) <= Pool(p)
    <3>1. [u \in Owners |-> accrual'[<<p, u>>]] = [u \in Owners |-> accrual[<<p, u>>]]
      BY <2>1, <2>4
    <3> QED
      BY <3>1 DEF PoolInv, WithinPool
  <2>5. SumFunctionOnSet([u \in Owners |-> accrual'[<<o, u>>]], Owners) <= Pool(o)
    <3> DEFINE f == [u \in Owners |-> accrual'[<<o, u>>]]
    <3>1. \A u \in Owners : accrual[<<o, u>>] = 0 /\ Commission(o, u) \in Nat
      BY <1>2, CommissionNat DEF PoolInv, TypeOK
    <3>2. \A u \in Owners : accrual'[<<o, u>>] = accrual[<<o, u>>] + Accrued(o, u)
      BY <1>2 DEF CreditAndAccrue
    <3>3. \A u \in Owners : accrual'[<<o, u>>] = Commission(o, u)
      BY <3>1, <3>2 DEF Accrued
    <3>4. f \in [Owners -> Nat] /\ \A u \in Owners : f[u] = Commission(o, u)
      BY <3>1, <3>3
    <3>5. share \in [Owners -> 0..35]
      BY DEF TypeOK
    <3> HIDE DEF f
    <3>6. SumFunctionOnSet(f, Owners) <= Pool(o)
      BY <3>4, <3>5, CommissionWithinPool
    <3> QED
      BY <3>6 DEF f
  <2>6. WithinPool'
    <3>1. \A p \in Orders :
             SumFunctionOnSet([u \in Owners |-> accrual'[<<p, u>>]], Owners) <= Pool(p)
      BY <2>4, <2>5
    <3> QED
      BY <3>1 DEF WithinPool, Pool
  <2> QED
    BY <2>3, <2>6 DEF PoolInv
<1> QED
  BY <1>1, <1>2, OrderStep

\* A top-up never pays its uplines more than the marketing pool, for any
\* amounts and shares and whenever the shares are changed.
THEOREM PoolCorrect == Spec => []WithinPool
<1>1. Init => LinkInv
  BY DEF Init, LinkInv, Idle, Orders
<1>2. Init => PoolInv
  <2> SUFFICES ASSUME Init PROVE PoolInv
    OBVIOUS
  <2>1. \A o \in Orders, u \in Owners : accrual[<<o, u>>] = 0
    BY DEF Init
  <2>2. ASSUME NEW o \in Orders
        PROVE  SumFunctionOnSet([u \in Owners |-> accrual[<<o, u>>]], Owners) <= Pool(o)
    <3> DEFINE f == [u \in Owners |-> accrual[<<o, u>>]]
    <3>1. \A u \in Owners : f[u] = 0
      BY <2>1
    <3> HIDE DEF f
    <3>2. SumFunctionOnSet(f, Owners) = 0
      BY <3>1, FiniteAssumption, SumZero
    <3>3. Pool(o) \in Nat
      BY ProductNat, QuotientNat, OrderAssumption DEF Pool
    <3> QED
      BY <3>2, <3>3 DEF f
  <2> QED
    BY <2>1, <2>2 DEF PoolInv, WithinPool
<1>3. TypeOK /\ LinkInv /\ [Next]_vars => LinkInv'
  BY TypeStep, LinkStep
<1>4. TypeOK /\ TypeOK' /\ LinkInv /\ PoolInv /\ [Next]_vars => PoolInv'
  BY PoolStep
<1>5. PoolInv => WithinPool
  BY DEF PoolInv
<1> QED
  BY <1>1, <1>2, <1>3, <1>4, <1>5, TypeCorrect, PTL DEF Spec

=============================================================================
