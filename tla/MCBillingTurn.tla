--------------------------- MODULE MCBillingTurn ---------------------------
(* Small instances of BillingTurn for TLC.                                 *)
EXTENDS BillingTurn, TLC

\* Limits of the 5-hour and the weekly window of each allowance.
Limits(alien, frontier, legacy) ==
    [p \in Allowances |-> CASE p = "alien" -> alien [] p = "frontier" -> frontier
                            [] p = "legacy" -> legacy]
Pair(h5, week) == [w \in Windows |-> IF w = "h5" THEN h5 ELSE week]

\* A plan with rings of different sizes, and the legacy allowance of a fresh
\* account: one default hold in five hours.
PlanLimits == Limits(Pair(3, 4), Pair(1, 2), Pair(2, 5))
\* The rings of the plan are empty, as they are when they have been used up.
SpentLimits == Limits(Pair(0, 0), Pair(0, 0), Pair(2, 5))
\* Neither rings nor legacy allowance: every turn is paid from the balance.
NoLimits == Limits(Pair(0, 0), Pair(0, 0), Pair(0, 0))

\* A fresh account, and one in the middle of its windows.
Unused == Limits(Pair(0, 0), Pair(0, 0), Pair(0, 0))
MidWeek == Limits(Pair(0, 3), Pair(1, 1), Pair(0, 0))

HoldTwo == [t \in Turns |-> 2]
AskedNone == [t \in Turns |-> "none"]
AskedFrontier == [t \in Turns |-> "frontier"]
UsesAlien == [t \in Turns |-> "alien"]
UsesFrontier == [t \in Turns |-> "frontier"]

\* Top-ups, window expiries, charges to the legacy allowance, lost debits.
Often(topup, expire, legacy, mirror) ==
    [e \in Events |-> CASE e = "topup" -> topup [] e = "expire" -> expire
                        [] e = "legacy" -> legacy [] e = "mirror" -> mirror]
Quiet == Often(0, 0, 0, 0)
AllOnce == Often(1, 1, 1, 1)
ExpireTwice == Often(0, 2, 0, 0)
OneTopup == Often(1, 0, 0, 0)
=============================================================================
