----------------------------- MODULE MCPayments -----------------------------
(* Small instances of Payments for TLC.                                    *)
EXTENDS Payments

CONSTANTS a, b, c, d, m1, x1

\* a was referred by b, b by c and c by d: the longest chain the model knows.
ChainParent == [u \in Owners |-> CASE u = a -> b [] u = b -> c [] u = c -> d
                                  [] OTHER -> None]
PaidByA == [o \in Orders |-> a]
\* Shares that zigzag towards the root.
Zigzag == { [u \in Owners |-> IF u = b THEN 35 ELSE 0] }
\* The commissions of different owners never meet: one owner withdraws.
TenOfB == [u \in Owners |-> IF u = b THEN {10} ELSE {}]
Hundred == [o \in Orders |-> 100]

Allow(fault, dup, shr) ==
    [k \in Repeats |-> CASE k = "fault" -> fault [] k = "dup" -> dup [] k = "share" -> shr]

OneEach == Allow(1, 1, 1)
NoFault == Allow(0, 0, 0)
=============================================================================
