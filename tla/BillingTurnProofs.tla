------------------------- MODULE BillingTurnProofs -------------------------
(***************************************************************************)
(* What BillingTurn guarantees for every number of turns and executions,   *)
(* every plan, currency, balance and cost.  TypeCorrect types the state,   *)
(* ChargeCorrect proves that no turn is charged more than its one bill and *)
(* that a hold is settled only when the bill has been charged in full,     *)
(* RingsCorrect that no ring exceeds its limit, and FinalCorrect that a    *)
(* closed reservation stays closed.                                        *)
(***************************************************************************)
EXTENDS BillingTurn, FiniteSetTheorems, TLAPS

UsedType == [Allowances -> [Windows -> Nat]]

\* A job is an execution of a turn.
LEMMA JobFacts == \A j \in Jobs : Req(j) \in Turns
BY DEF Jobs, Req

\* The clamped difference and the minimum of natural numbers.
LEMMA ClampFacts ==
    ASSUME NEW a \in Nat, NEW b \in Nat
    PROVE  /\ Less(a, b) \in Nat /\ Less(a, b) <= a
           /\ Least(a, b) \in Nat /\ Least(a, b) <= a /\ Least(a, b) <= b
BY DEF Less, Least

\* Conversion keeps amounts natural.
LEMMA NativeType == ASSUME NEW c \in Nat PROVE Native(c) \in Nat
<1>1. c * Fx \in Nat
  BY CurrencyAssumption
<1> QED
  BY <1>1 DEF Native

\* What is left of an allowance is natural and fits into both windows.
LEMMA RemainingFacts ==
    ASSUME NEW u \in UsedType, NEW p \in Allowances
    PROVE  /\ Remaining(u, p) \in Nat
           /\ \A w \in Windows : u[p][w] <= Limit[p][w] =>
                  u[p][w] + Remaining(u, p) <= Limit[p][w]
<1> DEFINE h == Less(Limit[p]["h5"], u[p]["h5"])
           k == Less(Limit[p]["week"], u[p]["week"])
<1>1. \A w \in Windows : Limit[p][w] \in Nat /\ u[p][w] \in Nat
  BY LimitAssumption DEF UsedType
<1>2. /\ Limit[p]["h5"] \in Nat /\ u[p]["h5"] \in Nat
      /\ Limit[p]["week"] \in Nat /\ u[p]["week"] \in Nat
  BY <1>1 DEF Windows
<1>3. h \in Nat /\ k \in Nat
  BY <1>2, ClampFacts
<1>4. Least(h, k) \in Nat /\ Least(h, k) <= h /\ Least(h, k) <= k
  BY <1>3, ClampFacts
<1>5. /\ u[p]["h5"] <= Limit[p]["h5"] => u[p]["h5"] + h <= Limit[p]["h5"]
      /\ u[p]["week"] <= Limit[p]["week"] => u[p]["week"] + k <= Limit[p]["week"]
  BY <1>2 DEF Less
<1>6. Remaining(u, p) = Least(h, k)
  BY DEF Remaining
<1> HIDE DEF h, k
<1>7. ASSUME NEW w \in Windows, u[p][w] <= Limit[p][w]
      PROVE  u[p][w] + Least(h, k) <= Limit[p][w]
  <2>1. CASE w = "h5"
    BY <2>1, <1>2, <1>3, <1>4, <1>5, <1>7
  <2>2. CASE w = "week"
    BY <2>2, <1>2, <1>3, <1>4, <1>5, <1>7
  <2> QED
    BY <2>1, <2>2 DEF Windows
<1> QED
  BY <1>4, <1>6, <1>7

\* The ring allowance a gate counts is natural.
LEMMA RingRemainingType ==
    ASSUME NEW u \in UsedType, NEW a \in Rings \cup {"none"}
    PROVE  RingRemaining(u, a) \in Nat
<1>1. \A p \in Rings : Remaining(u, p) \in Nat
  BY RemainingFacts DEF Allowances
<1> QED
  BY <1>1 DEF RingRemaining, Rings

\* Resetting windows keeps the meters typed and never raises one.
LEMMA RolledFacts ==
    ASSUME NEW u \in UsedType, NEW ws
    PROVE  /\ Rolled(u, ws) \in UsedType
           /\ \A p \in Allowances, w \in Windows :
                  Rolled(u, ws)[p][w] \in Nat /\ Rolled(u, ws)[p][w] <= u[p][w]
BY DEF Rolled, UsedType

\* A deduction keeps the meters typed.
LEMMA DeductedType ==
    ASSUME NEW u \in UsedType, NEW p \in Allowances, NEW c \in Nat
    PROVE  RingDeducted(u, p, c) \in UsedType
BY DEF RingDeducted, UsedType

\* A ring pays a natural part of a cost.
LEMMA TakeFacts ==
    ASSUME NEW u \in UsedType, NEW p \in Rings, NEW c \in Nat
    PROVE  /\ RingTake(u, p, c) \in Nat /\ RingTake(u, p, c) <= c
           /\ RingTake(u, p, c) <= Remaining(u, p)
           /\ c - RingTake(u, p, c) \in Nat
<1>1. p \in Allowances /\ Remaining(u, p) \in Nat
  BY RemainingFacts DEF Allowances
<1>2. RingTake(u, p, c) \in Nat /\ RingTake(u, p, c) <= c
      /\ RingTake(u, p, c) <= Remaining(u, p)
  BY <1>1, ClampFacts DEF RingTake
<1> QED
  BY <1>2

\* A hold is natural.
LEMMA HoldType ==
    ASSUME NEW t \in Turns, NEW u \in UsedType
    PROVE  HoldAmount(Hold[t], EffectiveAllowance(u, t)) \in Nat
<1>1. Cardinality(Held) \in Nat
  BY TurnsAssumption, FS_Subset, FS_CardinalityType DEF Held
<1>2. RingRemaining(u, Asked[t]) \in Nat /\ Hold[t] \in Nat
  BY RingRemainingType, AskedAssumption, HoldAssumption
<1>3. Cardinality(Held) * Hold[t] \in Nat
  BY <1>1, <1>2
<1>4. EffectiveAllowance(u, t) \in Nat
  BY <1>2, <1>3, ClampFacts DEF EffectiveAllowance
<1>5. Less(Hold[t], EffectiveAllowance(u, t)) \in Nat
  BY <1>2, <1>4, ClampFacts
<1> QED
  BY <1>5, NativeType DEF HoldAmount

\* Events are counted as natural numbers.
LEMMA SpendType == ASSUME NEW e \in Events, TypeOK, Spend(e)
                   PROVE  spent' \in [Events -> Nat]
BY DEF Spend, TypeOK

\* Every action keeps every variable in its type.
LEMMA TypeStep == ASSUME TypeOK, [Next]_vars PROVE TypeOK'
<1> USE JobFacts
<1>1. ASSUME NEW j \in Jobs, Start(j) PROVE TypeOK'
  BY <1>1 DEF Start, Goto, rowVars, resvVars, billVars, jobVars, PC, Running,
    TypeOK
<1>2. ASSUME NEW j \in Jobs, GateAccount(j) PROVE TypeOK'
  <2> DEFINE u == Rolled(used, Expired("account"))
  <2>1. u \in UsedType
    BY RolledFacts DEF TypeOK, UsedType
  <2>2. Remaining(u, "legacy") \in Nat
    BY <2>1, RemainingFacts DEF Allowances
  <2> HIDE DEF u
  <2> QED
    BY <1>2, <2>1, <2>2 DEF GateAccount, u, UsedType, Goto, PC, Running, resvVars, billVars,
       TypeOK
<1>3. ASSUME NEW j \in Jobs, GateProfile(j) PROVE TypeOK'
  <2>1. RingRemaining(Rolled(used, Expired("profile")), "none") \in Nat
    BY RolledFacts, RingRemainingType DEF TypeOK, UsedType
  <2> QED
    BY <1>3, <2>1 DEF GateProfile, Expired, Goto, PC, Running, rowVars, resvVars, billVars, TypeOK
<1>4. ASSUME NEW j \in Jobs, GateDecide(j) PROVE TypeOK'
  <2>1. Rolled(used, roll[j]) \in [Allowances -> [Windows -> Nat]]
    BY RolledFacts DEF TypeOK, UsedType
  <2>2. phase[j] \in {"start", "report"}
    BY DEF TypeOK
  <2>3. \E to \in {"hold", "refused", "log", "unpaid"} : Goto(j, to)
    BY <1>4, <2>2 DEF GateDecide
  <2>4. pc' \in [Jobs -> PC]
    BY <2>3 DEF Goto, PC, Running, TypeOK
  <2> QED
    BY <1>4, <2>1, <2>4 DEF GateDecide, resvVars, billVars, jobVars, TypeOK
<1>5. ASSUME NEW j \in Jobs, HoldBypass(j) PROVE TypeOK'
  BY <1>5 DEF HoldBypass, Goto, rowVars, resvVars, billVars, jobVars, PC,
    Running, TypeOK
<1>6. ASSUME NEW j \in Jobs, HoldRead(j) PROVE TypeOK'
  <2> DEFINE u == Rolled(used, Expired("profile"))
             hold == HoldAmount(Hold[Req(j)], EffectiveAllowance(u, Req(j)))
  <2>1. u \in [Allowances -> [Windows -> Nat]]
    BY RolledFacts DEF TypeOK, UsedType
  <2>2. hold \in Nat
    BY <2>1, HoldType DEF UsedType
  <2>3. \/ Goto(j, "turn") /\ UNCHANGED want
        \/ Goto(j, "refused") /\ UNCHANGED want
        \/ Goto(j, IF hold = 0 THEN "turn" ELSE "insert") /\ want' = [want EXCEPT ![j] = hold]
    BY <1>6 DEF HoldRead
  <2> HIDE DEF hold
  <2>4. pc' \in [Jobs -> PC] /\ want' \in [Jobs -> Nat]
    BY <2>2, <2>3 DEF Goto, PC, Running, TypeOK
  <2> QED
    BY <1>6, <2>1, <2>4 DEF HoldRead, resvVars, billVars, readVars, TypeOK
<1>7. ASSUME NEW j \in Jobs, HoldInsert(j) PROVE TypeOK'
  BY <1>7 DEF HoldInsert, Goto, rowVars, resvVars, billVars, jobVars, PC,
    Running, TypeOK
<1>8. ASSUME NEW j \in Jobs, TurnErr(j) PROVE TypeOK'
  BY <1>8 DEF TurnErr, Goto, rowVars, billVars, jobVars, PC, Running, TypeOK
<1>9. ASSUME NEW j \in Jobs, TurnOk(j) PROVE TypeOK'
  BY <1>9, AmountAssumption DEF TurnOk, Goto, rowVars, resvVars, billVars,
    readVars, PC, Running, TypeOK
<1>10. ASSUME NEW j \in Jobs, ReportNothing(j) PROVE TypeOK'
  BY <1>10 DEF ReportNothing, Goto, rowVars, resvVars, billVars, jobVars, PC,
    Running, TypeOK
<1>11. ASSUME NEW j \in Jobs, ReportDedupe(j) PROVE TypeOK'
  BY <1>11 DEF ReportDedupe, Goto, rowVars, resvVars, jobVars, PC, Running,
    TypeOK
<1>12. ASSUME NEW j \in Jobs, ReportRings(j) PROVE TypeOK'
  <2> DEFINE t == Req(j)
             u == Rolled(used, Expired("profile"))
             take == RingTake(u, Pool[t], cost[j])
  <2>1. u \in UsedType
    BY RolledFacts DEF TypeOK, UsedType
  <2>2. Pool[t] \in Rings /\ Pool[t] \in Allowances /\ cost[j] \in Nat
    BY PoolAssumption DEF TypeOK, Allowances
  <2>3. take \in Nat /\ cost[j] - take \in Nat
    BY <2>1, <2>2, TakeFacts
  <2>4. RingDeducted(u, Pool[t], take) \in UsedType
    BY <2>1, <2>2, <2>3, DeductedType
  <2>5. /\ used' = RingDeducted(u, Pool[t], take)
        /\ expired' = expired \ Expired("profile")
        /\ ring' = [ring EXCEPT ![t] = @ + take]
        /\ over' = [over EXCEPT ![j] = cost[j] - take]
        /\ Goto(j, IF cost[j] - take > 0 THEN "wallet" ELSE "settle")
    BY <1>12 DEF ReportRings
  <2> HIDE DEF u, take
  <2>6. pc' \in [Jobs -> PC]
    BY <2>5 DEF Goto, PC, Running, TypeOK
  <2>7. ring' \in [Turns -> Nat] /\ over' \in [Jobs -> Nat]
    BY <2>3, <2>5 DEF TypeOK
  <2> QED
    BY <1>12, <2>4, <2>5, <2>6, <2>7 DEF ReportRings, UsedType, resvVars, readVars, TypeOK
<1>13. ASSUME NEW j \in Jobs, ReportWallet(j) PROVE TypeOK'
  <2>1. over[j] \in Nat /\ balance \in Nat
    BY DEF TypeOK
  <2>2. Less(balance, Native(over[j])) \in Nat
    BY <2>1, ClampFacts, NativeType
  <2>3. debit' \in [Turns -> Nat]
    BY <1>13, <2>1 DEF ReportWallet, TypeOK
  <2> QED
    BY <1>13, <2>2, <2>3 DEF ReportWallet, Goto, PC, Running, resvVars, jobVars, TypeOK
<1>14. ASSUME NEW j \in Jobs, ReportMirror(j) PROVE TypeOK'
  BY <1>14, ClampFacts, NativeType DEF ReportMirror, Goto, resvVars, billVars,
    jobVars, PC, Running, TypeOK
<1>15. ASSUME NEW j \in Jobs, ReportMirrorLost(j) PROVE TypeOK'
  BY <1>15, SpendType DEF ReportMirrorLost, Events, Goto, Spend, rowVars,
    resvVars, billVars, jobVars, PC, Running, TypeOK
<1>16. ASSUME NEW j \in Jobs, ReportSettle(j) PROVE TypeOK'
  BY <1>16 DEF ReportSettle, Goto, rowVars, billVars, jobVars, PC, Running,
    TypeOK
<1>17. ASSUME NEW j \in Jobs, Crash(j) PROVE TypeOK'
  BY <1>17 DEF Crash, Goto, rowVars, resvVars, billVars, jobVars, PC, Running,
    TypeOK
<1>18. ASSUME Topup PROVE TypeOK'
  BY <1>18, SpendType, AmountAssumption DEF Topup, Events, resvVars, billVars, jobVars, TypeOK
<1>19. ASSUME NEW e \in Rows \X Windows, Expire(e) PROVE TypeOK'
  BY <1>19, SpendType DEF Expire, Events, resvVars, billVars, jobVars, TypeOK
<1>20. ASSUME NEW c \in Costs, LegacySpend(c) PROVE TypeOK'
  <2>1. used' \in UsedType
    BY <1>20, RolledFacts, DeductedType, AmountAssumption
       DEF LegacySpend, Allowances, TypeOK, UsedType
  <2> QED
    BY <1>20, <2>1, SpendType
       DEF LegacySpend, Events, UsedType, resvVars, billVars, jobVars, TypeOK
<1>21. CASE UNCHANGED vars
  BY <1>21 DEF vars, TypeOK
<1> QED
  BY <1>1, <1>2, <1>3, <1>4, <1>5, <1>6, <1>7, <1>8, <1>9, <1>10, <1>11,
    <1>12, <1>13, <1>14, <1>15, <1>16, <1>17, <1>18, <1>19, <1>20, <1>21 DEF
    Next, Step

\* Amounts stay natural numbers and every job at a known program point, however
\* the gates, holds and reports of the turns interleave.
THEOREM TypeCorrect == Spec => []TypeOK
<1>1. Init => TypeOK
  BY AmountAssumption, UsedAssumption DEF Init, TypeOK, PC, Running
<1> QED
  BY <1>1, TypeStep, PTL DEF Spec

-----------------------------------------------------------------------------
(* The charge.  Of the jobs that execute one turn only the one whose       *)
(* insert into billing_usage_dedupe took effect goes on to charge it, and  *)
(* what it still has to charge is the rest of the bill.                    *)

Owns(j) == pc[j] \in {"rings", "wallet", "mirror", "settle"}

UnbilledIsUncharged ==
    \A t \in Turns : t \notin dedupe => bill[t] = 0 /\ ring[t] = 0 /\ debit[t] = 0
OwnerIsBilled == \A j \in Jobs : Owns(j) => Req(j) \in dedupe
OwnerIsUnique ==
    \A i, j \in Jobs : Owns(i) /\ Owns(j) /\ Req(i) = Req(j) => i = j
RestIsOpen ==
    \A j \in Jobs :
        /\ pc[j] = "rings" => /\ cost[j] = bill[Req(j)] /\ cost[j] > 0
                              /\ ring[Req(j)] = 0 /\ debit[Req(j)] = 0
        /\ pc[j] = "wallet" => /\ ring[Req(j)] + over[j] = bill[Req(j)] /\ over[j] > 0
                               /\ debit[Req(j)] = 0
        /\ pc[j] \in {"mirror", "settle"} => ring[Req(j)] + debit[Req(j)] = bill[Req(j)]

ChargeInv ==
    /\ UnbilledIsUncharged
    /\ OwnerIsBilled
    /\ OwnerIsUnique
    /\ RestIsOpen
    /\ NeverOvercharged
    /\ SettledInFull

\* A step that leaves the bills alone, settles nothing and lets no job become
\* an owner or move on as one preserves the invariant.
LEMMA QuietStep ==
    ASSUME TypeOK, ChargeInv, UNCHANGED billVars,
           \A j \in Jobs : pc'[j] \in {"rings", "wallet", "mirror", "settle"} =>
               pc'[j] = pc[j] /\ cost'[j] = cost[j] /\ over'[j] = over[j],
           \A t \in Turns : resv'[t] = "settled" => resv[t] = "settled"
    PROVE  ChargeInv'
<1> USE JobFacts
<1>1. UnbilledIsUncharged' /\ NeverOvercharged' /\ SettledInFull'
  BY DEF ChargeInv, UnbilledIsUncharged, NeverOvercharged, SettledInFull, billVars
<1>2. OwnerIsBilled' /\ OwnerIsUnique'
  BY DEF ChargeInv, OwnerIsBilled, OwnerIsUnique, Owns, billVars
<1>3. RestIsOpen'
  BY DEF ChargeInv, RestIsOpen, billVars
<1> QED
  BY <1>1, <1>2, <1>3 DEF ChargeInv

\* Every action preserves the invariant.
LEMMA ChargeStep == ASSUME TypeOK, ChargeInv, [Next]_vars PROVE ChargeInv'
<1> USE JobFacts
<1>1. ASSUME NEW j \in Jobs, Start(j) PROVE ChargeInv'
  BY <1>1, QuietStep DEF Start, Goto, resvVars, jobVars, TypeOK
<1>2. ASSUME NEW j \in Jobs, GateAccount(j) PROVE ChargeInv'
  BY <1>2, QuietStep DEF GateAccount, Goto, resvVars, TypeOK
<1>3. ASSUME NEW j \in Jobs, GateProfile(j) PROVE ChargeInv'
  BY <1>3, QuietStep DEF GateProfile, Goto, resvVars, TypeOK
<1>4. ASSUME NEW j \in Jobs, GateDecide(j) PROVE ChargeInv'
  <2>1. phase[j] \in {"start", "report"}
    BY DEF TypeOK
  <2>2. \E to \in {"hold", "refused", "log", "unpaid"} : Goto(j, to)
    BY <1>4, <2>1 DEF GateDecide
  <2> QED
    BY <1>4, <2>2, QuietStep DEF GateDecide, Goto, resvVars, jobVars, TypeOK
<1>5. ASSUME NEW j \in Jobs, HoldBypass(j) PROVE ChargeInv'
  BY <1>5, QuietStep DEF HoldBypass, Goto, resvVars, jobVars, TypeOK
<1>6. ASSUME NEW j \in Jobs, HoldRead(j) PROVE ChargeInv'
  <2>1. Goto(j, "turn") \/ Goto(j, "refused") \/ Goto(j, "insert")
    BY <1>6 DEF HoldRead
  <2> QED
    BY <1>6, <2>1, QuietStep DEF HoldRead, Goto, resvVars, TypeOK
<1>7. ASSUME NEW j \in Jobs, HoldInsert(j) PROVE ChargeInv'
  BY <1>7, QuietStep DEF HoldInsert, Goto, resvVars, jobVars, TypeOK
<1>8. ASSUME NEW j \in Jobs, TurnErr(j) PROVE ChargeInv'
  BY <1>8, QuietStep DEF TurnErr, Goto, jobVars, TypeOK
<1>9. ASSUME NEW j \in Jobs, TurnOk(j) PROVE ChargeInv'
  BY <1>9, QuietStep DEF TurnOk, Goto, resvVars, readVars, TypeOK
<1>10. ASSUME NEW j \in Jobs, ReportNothing(j) PROVE ChargeInv'
  BY <1>10, QuietStep DEF ReportNothing, Goto, resvVars, jobVars, TypeOK
<1>11. ASSUME NEW j \in Jobs, ReportDedupe(j) PROVE ChargeInv'
  <2> DEFINE t == Req(j)
  <2>1. /\ t \in Turns /\ t \notin dedupe /\ cost[j] \in Nat /\ cost[j] > 0
        /\ dedupe' = dedupe \cup {t}
        /\ bill' = [bill EXCEPT ![t] = cost[j]]
        /\ pc' = [pc EXCEPT ![j] = "rings"]
        /\ ring' = ring /\ debit' = debit /\ resv' = resv
        /\ cost' = cost /\ over' = over
    BY <1>11 DEF ReportDedupe, Goto, resvVars, jobVars, TypeOK
  <2>2. ring[t] = 0 /\ debit[t] = 0 /\ \A i \in Jobs : Owns(i) => Req(i) # t
    BY <2>1 DEF ChargeInv, UnbilledIsUncharged, OwnerIsBilled
  <2>3. /\ \A s \in Turns : s # t => bill'[s] = bill[s]
        /\ bill'[t] = cost[j]
        /\ pc'[j] = "rings"
        /\ \A i \in Jobs : i # j => pc'[i] = pc[i]
    BY <2>1 DEF TypeOK
  <2>4. UnbilledIsUncharged' /\ NeverOvercharged' /\ SettledInFull'
    BY <2>1, <2>2, <2>3 DEF ChargeInv, UnbilledIsUncharged, NeverOvercharged, SettledInFull
  <2>5. OwnerIsBilled' /\ OwnerIsUnique'
    BY <2>1, <2>2, <2>3 DEF ChargeInv, OwnerIsBilled, OwnerIsUnique, Owns
  <2>6. RestIsOpen'
    BY <2>1, <2>2, <2>3 DEF ChargeInv, RestIsOpen, Owns
  <2> QED
    BY <2>4, <2>5, <2>6 DEF ChargeInv
<1>12. ASSUME NEW j \in Jobs, ReportRings(j) PROVE ChargeInv'
  <2> DEFINE t == Req(j)
             take == RingTake(Rolled(used, Expired("profile")), Pool[t], cost[j])
  <2>1. Rolled(used, Expired("profile")) \in UsedType /\ Pool[t] \in Rings /\ cost[j] \in Nat
    BY RolledFacts, PoolAssumption DEF TypeOK, UsedType
  <2>2. take \in Nat /\ take <= cost[j]
    BY <2>1, TakeFacts
  <2>3. /\ pc[j] = "rings" /\ t \in Turns
        /\ ring' = [ring EXCEPT ![t] = @ + take]
        /\ over' = [over EXCEPT ![j] = cost[j] - take]
        /\ Goto(j, IF cost[j] - take > 0 THEN "wallet" ELSE "settle")
        /\ dedupe' = dedupe /\ bill' = bill /\ debit' = debit /\ cost' = cost
        /\ resv' = resv
    BY <1>12 DEF ReportRings, resvVars
  <2> HIDE DEF take
  <2>4. /\ cost[j] = bill[t] /\ cost[j] > 0 /\ ring[t] = 0 /\ debit[t] = 0 /\ t \in dedupe
        /\ \A i \in Jobs : Owns(i) /\ Req(i) = t => i = j
        /\ resv[t] # "settled"
    BY <2>3 DEF ChargeInv, RestIsOpen, OwnerIsBilled, OwnerIsUnique, SettledInFull, Owns
  <2>5. /\ \A s \in Turns : s # t => ring'[s] = ring[s]
        /\ ring'[t] = take
        /\ over'[j] = cost[j] - take
        /\ pc'[j] = IF cost[j] - take > 0 THEN "wallet" ELSE "settle"
        /\ \A i \in Jobs : i # j => pc'[i] = pc[i] /\ over'[i] = over[i]
    BY <2>2, <2>3, <2>4 DEF Goto, TypeOK
  <2>6. UnbilledIsUncharged' /\ NeverOvercharged' /\ SettledInFull'
    BY <2>2, <2>3, <2>4, <2>5 DEF ChargeInv, UnbilledIsUncharged, NeverOvercharged, SettledInFull
  <2>7. OwnerIsBilled' /\ OwnerIsUnique'
    BY <2>3, <2>4, <2>5 DEF ChargeInv, OwnerIsBilled, OwnerIsUnique, Owns
  <2>8. \A i \in Jobs : i # j /\ Owns(i) => Req(i) # t
    BY <2>4
  <2>9. ASSUME NEW i \in Jobs, i # j, pc'[i] \in {"rings", "wallet", "mirror", "settle"}
        PROVE  Req(i) # t /\ ring'[Req(i)] = ring[Req(i)] /\ pc'[i] = pc[i] /\ over'[i] = over[i]
    BY <2>5, <2>8, <2>9 DEF Owns
  <2>10. cost[j] - take > 0 => pc'[j] = "wallet" /\ ring'[t] + over'[j] = bill[t] /\ over'[j] > 0
    BY <2>1, <2>2, <2>4, <2>5
  <2>11. ~(cost[j] - take > 0) => pc'[j] = "settle" /\ ring'[t] + debit[t] = bill[t]
    BY <2>1, <2>2, <2>4, <2>5
  <2>12. RestIsOpen'
    BY <2>3, <2>4, <2>9, <2>10, <2>11 DEF ChargeInv, RestIsOpen
  <2> QED
    BY <2>6, <2>7, <2>12 DEF ChargeInv
<1>13. ASSUME NEW j \in Jobs, ReportWallet(j) PROVE ChargeInv'
  <2> DEFINE t == Req(j)
  <2>1. /\ pc[j] = "wallet" /\ t \in Turns /\ over[j] \in Nat
        /\ debit' = [debit EXCEPT ![t] = @ + over[j]]
        /\ pc' = [pc EXCEPT ![j] = "mirror"]
        /\ dedupe' = dedupe /\ bill' = bill /\ ring' = ring /\ cost' = cost
        /\ over' = over /\ resv' = resv
    BY <1>13 DEF ReportWallet, Goto, resvVars, jobVars, TypeOK
  <2>2. /\ ring[t] + over[j] = bill[t] /\ over[j] > 0 /\ debit[t] = 0 /\ t \in dedupe
        /\ \A i \in Jobs : Owns(i) /\ Req(i) = t => i = j
    BY <2>1 DEF ChargeInv, RestIsOpen, OwnerIsBilled, OwnerIsUnique, Owns
  <2>3. /\ \A s \in Turns : s # t => debit'[s] = debit[s]
        /\ debit'[t] = over[j]
        /\ pc'[j] = "mirror"
        /\ \A i \in Jobs : i # j => pc'[i] = pc[i]
    BY <2>1, <2>2 DEF TypeOK
  <2>4. UnbilledIsUncharged' /\ NeverOvercharged' /\ SettledInFull'
    BY <2>1, <2>2, <2>3
       DEF ChargeInv, UnbilledIsUncharged, NeverOvercharged, SettledInFull, TypeOK
  <2>5. OwnerIsBilled' /\ OwnerIsUnique'
    BY <2>1, <2>2, <2>3 DEF ChargeInv, OwnerIsBilled, OwnerIsUnique, Owns
  <2>6. \A i \in Jobs : i # j /\ Owns(i) => Req(i) # t
    BY <2>2
  <2>7. RestIsOpen'
    BY <2>1, <2>2, <2>3, <2>6 DEF ChargeInv, RestIsOpen, Owns
  <2> QED
    BY <2>4, <2>5, <2>7 DEF ChargeInv
<1>14. ASSUME NEW j \in Jobs, ReportMirror(j) PROVE ChargeInv'
  <2>1. /\ pc[j] = "mirror" /\ pc' = [pc EXCEPT ![j] = "settle"]
        /\ UNCHANGED <<resv, dedupe, bill, ring, debit, cost, over>>
    BY <1>14 DEF ReportMirror, Goto, resvVars, billVars, jobVars
  <2>2. UnbilledIsUncharged' /\ NeverOvercharged' /\ SettledInFull'
    BY <2>1 DEF ChargeInv, UnbilledIsUncharged, NeverOvercharged, SettledInFull
  <2>3. OwnerIsBilled' /\ OwnerIsUnique' /\ RestIsOpen'
    BY <2>1 DEF ChargeInv, OwnerIsBilled, OwnerIsUnique, RestIsOpen, Owns, TypeOK
  <2> QED
    BY <2>2, <2>3 DEF ChargeInv
<1>15. ASSUME NEW j \in Jobs, ReportMirrorLost(j) PROVE ChargeInv'
  <2>1. /\ pc[j] = "mirror" /\ pc' = [pc EXCEPT ![j] = "settle"]
        /\ UNCHANGED <<resv, dedupe, bill, ring, debit, cost, over>>
    BY <1>15 DEF ReportMirrorLost, Goto, resvVars, billVars, jobVars
  <2>2. UnbilledIsUncharged' /\ NeverOvercharged' /\ SettledInFull'
    BY <2>1 DEF ChargeInv, UnbilledIsUncharged, NeverOvercharged, SettledInFull
  <2>3. OwnerIsBilled' /\ OwnerIsUnique' /\ RestIsOpen'
    BY <2>1 DEF ChargeInv, OwnerIsBilled, OwnerIsUnique, RestIsOpen, Owns, TypeOK
  <2> QED
    BY <2>2, <2>3 DEF ChargeInv
<1>16. ASSUME NEW j \in Jobs, ReportSettle(j) PROVE ChargeInv'
  <2> DEFINE t == Req(j)
  <2>1. /\ pc[j] = "settle" /\ t \in Turns
        /\ pc' = [pc EXCEPT ![j] = "done"]
        /\ \A s \in Turns : resv'[s] = "settled" => resv[s] = "settled" \/ s = t
        /\ UNCHANGED <<dedupe, bill, ring, debit, cost, over>>
    BY <1>16 DEF ReportSettle, Goto, billVars, jobVars, TypeOK
  <2>2. t \in dedupe /\ ring[t] + debit[t] = bill[t]
    BY <2>1 DEF ChargeInv, RestIsOpen, OwnerIsBilled, Owns
  <2>3. UnbilledIsUncharged' /\ NeverOvercharged' /\ SettledInFull'
    BY <2>1, <2>2 DEF ChargeInv, UnbilledIsUncharged, NeverOvercharged, SettledInFull
  <2>4. OwnerIsBilled' /\ OwnerIsUnique' /\ RestIsOpen'
    BY <2>1 DEF ChargeInv, OwnerIsBilled, OwnerIsUnique, RestIsOpen, Owns, TypeOK
  <2> QED
    BY <2>3, <2>4 DEF ChargeInv
<1>17. ASSUME NEW j \in Jobs, Crash(j) PROVE ChargeInv'
  BY <1>17, QuietStep DEF Crash, Goto, Running, resvVars, jobVars, TypeOK
<1>18. ASSUME Topup PROVE ChargeInv'
  BY <1>18, QuietStep DEF Topup, resvVars, jobVars
<1>19. ASSUME NEW e \in Rows \X Windows, Expire(e) PROVE ChargeInv'
  BY <1>19, QuietStep DEF Expire, resvVars, jobVars
<1>20. ASSUME NEW c \in Costs, LegacySpend(c) PROVE ChargeInv'
  BY <1>20, QuietStep DEF LegacySpend, resvVars, jobVars
<1>21. CASE UNCHANGED vars
  BY <1>21, QuietStep DEF vars, billVars
<1> QED
  BY <1>1, <1>2, <1>3, <1>4, <1>5, <1>6, <1>7, <1>8, <1>9, <1>10, <1>11,
    <1>12, <1>13, <1>14, <1>15, <1>16, <1>17, <1>18, <1>19, <1>20, <1>21 DEF
    Next, Step

\* No turn is charged more than its one bill, however often it is executed and
\* wherever its jobs die.
THEOREM ChargeCorrect == Spec => []NeverOvercharged
<1>1. Init => ChargeInv
  BY JobFacts DEF Init, ChargeInv, UnbilledIsUncharged, OwnerIsBilled, OwnerIsUnique, RestIsOpen,
     NeverOvercharged, SettledInFull, Owns
<1>2. TypeOK /\ ChargeInv /\ [Next]_vars => ChargeInv'
  BY ChargeStep
<1>3. ChargeInv => NeverOvercharged
  BY DEF ChargeInv
<1> QED
  BY <1>1, <1>2, <1>3, TypeCorrect, PTL DEF Spec

\* A hold is settled only after the whole bill of its turn has been charged.
THEOREM SettleCorrect == Spec => []SettledInFull
<1>1. Init => ChargeInv
  BY JobFacts DEF Init, ChargeInv, UnbilledIsUncharged, OwnerIsBilled, OwnerIsUnique, RestIsOpen,
     NeverOvercharged, SettledInFull, Owns
<1>2. TypeOK /\ ChargeInv /\ [Next]_vars => ChargeInv'
  BY ChargeStep
<1>3. ChargeInv => SettledInFull
  BY DEF ChargeInv
<1> QED
  BY <1>1, <1>2, <1>3, TypeCorrect, PTL DEF Spec

-----------------------------------------------------------------------------
(* The rings                                                               *)

\* The meters of the rings after a reset, and the types around them.
LEMMA RolledRing ==
    ASSUME TypeOK, NEW ws
    PROVE  \A p \in Rings, w \in Windows :
               /\ Rolled(used, ws)[p][w] \in Nat /\ Rolled(used, ws)[p][w] <= used[p][w]
               /\ used[p][w] \in Nat /\ Limit[p][w] \in Nat
<1>1. used \in UsedType
  BY DEF TypeOK, UsedType
<1>2. \A p \in Allowances, w \in Windows :
          Rolled(used, ws)[p][w] \in Nat /\ Rolled(used, ws)[p][w] <= used[p][w]
  BY <1>1, RolledFacts
<1>3. \A p \in Allowances, w \in Windows : used[p][w] \in Nat /\ Limit[p][w] \in Nat
  BY <1>1, LimitAssumption DEF UsedType
<1>4. \A p \in Rings : p \in Allowances
  BY DEF Allowances
<1> QED
  BY <1>2, <1>3, <1>4

\* Resetting windows keeps the rings within their limits.
LEMMA RollKeepsLimits ==
    ASSUME TypeOK, RingsWithinLimits, NEW ws, used' = Rolled(used, ws)
    PROVE  RingsWithinLimits'
<1>1. \A p \in Rings, w \in Windows :
          /\ used'[p][w] \in Nat /\ used'[p][w] <= used[p][w]
          /\ used[p][w] \in Nat /\ Limit[p][w] \in Nat
  BY RolledRing
<1> QED
  BY <1>1 DEF RingsWithinLimits

\* A report takes from a ring only what is left in both windows.
LEMMA DeductKeepsLimits ==
    ASSUME TypeOK, RingsWithinLimits, NEW j \in Jobs, ReportRings(j)
    PROVE  RingsWithinLimits'
<1> DEFINE q == Pool[Req(j)]
           u == Rolled(used, Expired("profile"))
           take == RingTake(u, q, cost[j])
<1>1. u \in UsedType /\ q \in Rings /\ q \in Allowances /\ cost[j] \in Nat
  BY JobFacts, RolledFacts, PoolAssumption DEF TypeOK, UsedType, Allowances
<1>2. take \in Nat /\ take <= Remaining(u, q) /\ Remaining(u, q) \in Nat
  BY <1>1, TakeFacts, RemainingFacts
<1>3. \A p \in Rings, w \in Windows :
          u[p][w] \in Nat /\ Limit[p][w] \in Nat /\ u[p][w] <= Limit[p][w]
  <2>1. \A p \in Rings, w \in Windows :
            /\ u[p][w] \in Nat /\ u[p][w] <= used[p][w]
            /\ used[p][w] \in Nat /\ Limit[p][w] \in Nat
    BY RolledRing
  <2> QED
    BY <2>1 DEF RingsWithinLimits
<1>4. \A w \in Windows : u[q][w] + Remaining(u, q) <= Limit[q][w]
  BY <1>1, <1>3, RemainingFacts
<1>5. used' = [u EXCEPT ![q] = [w \in Windows |-> u[q][w] + take]]
  BY DEF ReportRings, RingDeducted
<1> HIDE DEF u, take, q
<1>6. \A p \in Rings, w \in Windows :
          used'[p][w] = IF p = q THEN u[q][w] + take ELSE u[p][w]
  BY <1>1, <1>5 DEF UsedType, Allowances
<1>7. ASSUME NEW p \in Rings, NEW w \in Windows PROVE used'[p][w] <= Limit[p][w]
  <2>1. CASE p = q
    BY <2>1, <1>2, <1>3, <1>4, <1>6
  <2>2. CASE p # q
    BY <2>2, <1>3, <1>6
  <2> QED
    BY <2>1, <2>2
<1> QED
  BY <1>7 DEF RingsWithinLimits

\* Charges to the legacy allowance leave the rings alone.
LEMMA LegacyKeepsLimits ==
    ASSUME TypeOK, RingsWithinLimits, NEW c \in Costs, LegacySpend(c)
    PROVE  RingsWithinLimits'
<1> DEFINE u == Rolled(used, Expired("account"))
<1>1. used' = [u EXCEPT !["legacy"] = [w \in Windows |-> u["legacy"][w] + c]]
  BY DEF LegacySpend, RingDeducted
<1>2. u \in UsedType
  BY RolledFacts DEF TypeOK, UsedType
<1>3. \A p \in Rings, w \in Windows :
          /\ u[p][w] \in Nat /\ u[p][w] <= used[p][w]
          /\ used[p][w] \in Nat /\ Limit[p][w] \in Nat
  BY RolledRing
<1> HIDE DEF u
<1>4. \A p \in Rings : used'[p] = u[p]
  BY <1>1, <1>2 DEF UsedType, Allowances, Rings
<1> QED
  BY <1>3, <1>4 DEF RingsWithinLimits

\* Every action keeps the rings within their limits.
LEMMA RingStep == ASSUME TypeOK, RingsWithinLimits, [Next]_vars PROVE RingsWithinLimits'
<1>1. ASSUME used' = used PROVE RingsWithinLimits'
  BY <1>1 DEF RingsWithinLimits
<1>2. ASSUME NEW j \in Jobs, Step(j) PROVE RingsWithinLimits'
  <2>1. CASE GateAccount(j) \/ GateDecide(j) \/ HoldRead(j)
    <3>1. \E ws : used' = Rolled(used, ws)
      BY <2>1 DEF GateAccount, GateDecide, HoldRead
    <3> QED
      BY <3>1, RollKeepsLimits
  <2>2. CASE ReportRings(j)
    BY <2>2, DeductKeepsLimits
  <2>3. CASE Start(j) \/ GateProfile(j) \/ HoldBypass(j) \/ HoldInsert(j) \/ TurnErr(j)
             \/ TurnOk(j) \/ ReportNothing(j) \/ ReportDedupe(j) \/ ReportWallet(j)
    BY <2>3, <1>1 DEF Start, GateProfile, HoldBypass, HoldInsert, TurnErr, TurnOk,
       ReportNothing, ReportDedupe, ReportWallet, rowVars
  <2>4. CASE ReportMirror(j) \/ ReportMirrorLost(j) \/ ReportSettle(j) \/ Crash(j)
    BY <2>4, <1>1 DEF ReportMirror, ReportMirrorLost, ReportSettle, Crash, rowVars
  <2> QED
    BY <1>2, <2>1, <2>2, <2>3, <2>4 DEF Step
<1>3. CASE Topup \/ (\E e \in Rows \X Windows : Expire(e)) \/ UNCHANGED vars
  BY <1>3, <1>1 DEF Topup, Expire, vars
<1>4. CASE \E c \in Costs : LegacySpend(c)
  BY <1>4, LegacyKeepsLimits
<1> QED
  BY <1>2, <1>3, <1>4 DEF Next

\* No interleaving of reports and window rolls charges a ring over its limit.
THEOREM RingsCorrect == Spec => []RingsWithinLimits
<1>1. Init => RingsWithinLimits
  BY LimitAssumption, UsedAssumption DEF Init, RingsWithinLimits, Allowances
<1>2. TypeOK /\ RingsWithinLimits /\ [Next]_vars => RingsWithinLimits'
  BY RingStep
<1> QED
  BY <1>1, <1>2, TypeCorrect, PTL DEF Spec

-----------------------------------------------------------------------------
(* The reservation                                                         *)

\* A closed reservation and the amount of a hold are never rewritten.
THEOREM FinalCorrect == Spec => ReservationIsFinal
<1> DEFINE Final(t) == /\ resv[t] \in {"settled", "refunded"} => resv'[t] = resv[t]
                       /\ resv[t] # "none" => held'[t] = held[t]
<1>1. ASSUME TypeOK, [Next]_vars, NEW t \in Turns PROVE Final(t)
  <2>1. ASSUME UNCHANGED resvVars PROVE Final(t)
    BY <2>1 DEF resvVars
  <2>2. ASSUME NEW j \in Jobs, Step(j) PROVE Final(t)
    <3>1. CASE HoldInsert(j)
      <4>1. CASE resv[Req(j)] = "none"
        <5>1. /\ resv' = [resv EXCEPT ![Req(j)] = "held"]
              /\ held' = [held EXCEPT ![Req(j)] = want[j]]
          BY <3>1, <4>1 DEF HoldInsert
        <5>2. CASE t = Req(j)
          BY <4>1, <5>2
        <5>3. CASE t # Req(j)
          BY <5>1, <5>3 DEF TypeOK
        <5> QED
          BY <5>2, <5>3
      <4>2. CASE resv[Req(j)] # "none"
        BY <3>1, <4>2, <2>1 DEF HoldInsert
      <4> QED
        BY <4>1, <4>2
    <3>2. CASE Start(j) \/ GateAccount(j) \/ GateProfile(j) \/ GateDecide(j)
               \/ HoldBypass(j) \/ HoldRead(j) \/ TurnOk(j) \/ ReportNothing(j)
      BY <3>2, <2>1 DEF Start, GateAccount, GateProfile, GateDecide, HoldBypass, HoldRead,
         TurnOk, ReportNothing
    <3>3. CASE ReportDedupe(j) \/ ReportRings(j) \/ ReportWallet(j) \/ ReportMirror(j)
               \/ ReportMirrorLost(j) \/ Crash(j)
      BY <3>3, <2>1 DEF ReportDedupe, ReportRings, ReportWallet, ReportMirror,
         ReportMirrorLost, Crash
    <3>4. CASE TurnErr(j)
      BY <3>4, JobFacts DEF TurnErr, TypeOK
    <3>5. CASE ReportSettle(j)
      BY <3>5, JobFacts DEF ReportSettle, TypeOK
    <3> QED
      BY <2>2, <3>1, <3>2, <3>3, <3>4, <3>5 DEF Step
  <2>3. CASE Topup \/ (\E e \in Rows \X Windows : Expire(e)) \/ (\E c \in Costs : LegacySpend(c))
    BY <2>3, <2>1 DEF Topup, Expire, LegacySpend
  <2>4. CASE UNCHANGED vars
    BY <2>4, <2>1 DEF vars, resvVars
  <2> QED
    BY <1>1, <2>2, <2>3, <2>4 DEF Next
<1>2. TypeOK /\ [Next]_vars => [\A t \in Turns : Final(t)]_vars
  BY <1>1
<1> QED
  BY <1>2, TypeCorrect, PTL DEF Spec, ReservationIsFinal
=============================================================================
