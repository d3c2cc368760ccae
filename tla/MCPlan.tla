------------------------------- MODULE MCPlan -------------------------------
(* Small instances of Plan for TLC.                                        *)
EXTENDS Plan

CONSTANTS lite, plus, year, Lite, Plus

\* Lite by the month, Plus by the month, and Lite by the year.
PlanSlug == [p \in Plans |-> IF p = plus THEN Plus ELSE Lite]
SlugRank == [s \in {PlanSlug[p] : p \in Plans} |-> IF s = Plus THEN 2 ELSE 1]
PlanPrice == [p \in Plans |-> CASE p = lite -> 2 [] p = plus -> 4 [] p = year -> 3]
PlanDays == [p \in Plans |-> IF p = lite THEN 1 ELSE 2]

Allow(request, topup, hold) ==
    [e \in Events |-> CASE e = "request" -> request [] e = "topup" -> topup [] e = "hold" -> hold]
Few == Allow(3, 1, 1)
Two == Allow(2, 0, 0)
=============================================================================
