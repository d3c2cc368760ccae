-------------------------- MODULE PromptRunProofs --------------------------
(***************************************************************************)
(* What PromptRun guarantees for any runs, pods, limits and fault budgets. *)
(* TypeCorrect types the state, ChargeCorrect and SettledCorrect prove     *)
(* that the dedupe row makes the debit of a run unique, and AckCorrect     *)
(* that no message is acked before its run was recorded as ended.          *)
(* OneTurnWhileQuiet and FinalWhileQuiet say under which faults turns do   *)
(* not overlap and ends are final, RefinesWhileQuiet that RunSpec is then  *)
(* implemented, RunningCorrect and NothingForgottenOnOnePod how many       *)
(* outages a run survives.                                                 *)
(***************************************************************************)
EXTENDS PromptRun, TLAPS

\* The projections of a job's name are a run and a message, and every name the
\* actions build is the name of a job.
LEMMA JobFacts ==
    /\ \A j \in Jobs : Req(j) \in Runs /\ MsgOf(j) \in Msgs
    /\ \A r \in Runs : Submitter(r) \in Jobs /\ <<r, 0>> \in Msgs
    /\ \A m \in Msgs, n \in 0..MaxDeliver : m[1] \in Runs /\ JobOf(m, n) \in Jobs
BY DeliverAssumption, ReplayAssumption DEF Jobs, Msgs, Req, MsgOf, JobOf, Submitter

\* A fault is counted as a natural number.
LEMMA SpendType == ASSUME NEW f \in Faults, TypeOK, Spend(f)
                   PROVE  spent' \in [Faults -> Nat]
BY DEF Spend, TypeOK

\* A lost write is counted as a fault.
LEMMA WriteLostType == ASSUME TypeOK, WriteLost
                       PROVE  spent' \in [Faults -> Nat]
BY SpendType DEF WriteLost, Faults

\* A job moves to a program point; the others stay.
LEMMA GotoType == ASSUME NEW j \in Jobs, NEW p \in PC, TypeOK, Goto(j, p)
                  PROVE  pc' \in [Jobs -> PC]
BY DEF Goto, TypeOK

\* A job that returns leaves program points, tokens and results in their types.
LEMMA ReturnType ==
    ASSUME NEW j \in Jobs, TypeOK, Return(j)
    PROVE  /\ pc' \in [Jobs -> PC]
           /\ tok' \subseteq Jobs
           /\ out' \in [Jobs -> {"none", "ok", "err", "fail"}]
BY DEF Return, Goto, PC, TypeOK

\* An unconditional status update leaves the row in its type.
LEMMA StatusSetType ==
    ASSUME NEW r \in Runs, NEW s \in Status, TypeOK, StatusSet(r, s)
    PROVE  /\ status' \in [Runs -> Status]
           /\ ended' \subseteq Runs
           /\ count' = count /\ cancel' = cancel /\ fatal' = fatal
BY DEF StatusSet, TypeOK

\* A refund leaves every reservation in its type.
LEMMA RefundType ==
    ASSUME NEW r \in Runs, TypeOK, Refund(r)
    PROVE  resv' \in [Runs -> {"none", "held", "settled", "refunded"}]
BY DEF Refund, TypeOK

\* The worker derives a terminal status from every result.
LEMMA FinalStatusType == \A j \in Jobs : FinalStatus(j) \in Status
BY DEF FinalStatus, Status, Terminal

\* Every action keeps every variable in its type.
LEMMA TypeStep == ASSUME TypeOK, [Next]_vars PROVE TypeOK'
<1> USE JobFacts
<1>1. ASSUME NEW r \in Runs, AbortFlight(r) PROVE TypeOK'
  BY <1>1 DEF AbortFlight, PC, TypeOK, rowVars, msgVars, billVars, podVars
<1>2. ASSUME NEW r \in Runs, Abort(r) PROVE TypeOK'
  BY <1>2 DEF Abort, Status, TypeOK, msgVars, jobVars, billVars, podVars
<1>3. ASSUME NEW r \in Runs, HydratePublish(r) PROVE TypeOK'
  <2>1. mstate' \in [Msgs -> {"absent", "pending", "inflight", "acked"}]
    BY <1>3, ReplayAssumption DEF HydratePublish, TypeOK
  <2> QED
    BY <1>3, <2>1 DEF HydratePublish, TypeOK, rowVars, jobVars, billVars
<1>4. ASSUME NEW r \in Runs, NEW p \in Pods, Submit(r, p) PROVE TypeOK'
  BY <1>4 DEF Submit, Status, PC, TypeOK, msgVars, billVars, podVars
<1>5. ASSUME NEW m \in Msgs, AckWaitExpire(m) PROVE TypeOK'
  BY <1>5 DEF AckWaitExpire, TypeOK, rowVars, jobVars, billVars, podVars
<1>6. ASSUME NEW m \in Msgs, AckWaitStall(m) PROVE TypeOK'
  BY <1>6, SpendType DEF AckWaitStall, Faults, TypeOK, rowVars, jobVars,
    billVars, podVars
<1>7. ASSUME NEW m \in Msgs, NEW p \in Pods, Deliver(m, p) PROVE TypeOK'
  <2> DEFINE k == JobOf(m, mcount[m] + 1)
  <2>1. mcount[m] + 1 \in 0..MaxDeliver /\ k \in Jobs
    BY <1>7, DeliverAssumption DEF Deliver, TypeOK
  <2>2. mcount' \in [Msgs -> 0..MaxDeliver]
    BY <1>7, <2>1 DEF Deliver, TypeOK
  <2>3. mstate' \in [Msgs -> {"absent", "pending", "inflight", "acked"}]
    BY <1>7 DEF Deliver, TypeOK
  <2>4. pc' \in [Jobs -> PC] /\ pod' \in [Jobs -> Pods]
    BY <1>7, <2>1 DEF Deliver, TypeOK, PC
  <2> QED
    BY <1>7, <2>2, <2>3, <2>4 DEF Deliver, TypeOK, rowVars, billVars, podVars
<1>8. ASSUME NEW j \in Jobs, Publish(j) PROVE TypeOK'
  <2>1. mstate' \in [Msgs -> {"absent", "pending", "inflight", "acked"}]
    BY <1>8 DEF Publish, TypeOK
  <2>2. spent' \in [Faults -> Nat]
    BY <1>8, WriteLostType DEF Publish, TypeOK
  <2> QED
    BY <1>8, <2>1, <2>2, ReturnType DEF Publish, TypeOK, rowVars, billVars, podVars
<1>9. ASSUME NEW j \in Jobs, Acquire(j) PROVE TypeOK'
  BY <1>9, GotoType DEF Acquire, PC, TypeOK, rowVars, msgVars, billVars,
    podVars
<1>10. ASSUME NEW j \in Jobs, DropBuffered(j) PROVE TypeOK'
  BY <1>10, ReturnType DEF DropBuffered, PC, TypeOK, rowVars, msgVars,
    billVars, podVars
<1>11. ASSUME NEW j \in Jobs, DeliveryInc(j) PROVE TypeOK'
  <2>1. count' \in [Runs -> Nat]
    BY <1>11 DEF DeliveryInc, TypeOK
  <2> QED
    BY <1>11, <2>1, GotoType DEF DeliveryInc, PC, TypeOK, msgVars, billVars, podVars
<1>12. ASSUME NEW j \in Jobs, LoadRow(j) PROVE TypeOK'
  BY <1>12, GotoType DEF LoadRow, Status, PC, TypeOK, rowVars, msgVars,
    billVars, podVars
<1>13. ASSUME NEW j \in Jobs, Reject(j) PROVE TypeOK'
  <2>1. CASE StatusSet(Req(j), "failed") /\ UNCHANGED spent
    BY <1>13, <2>1, GotoType, StatusSetType DEF Reject, Status, Terminal, PC,
      TypeOK, rowVars, msgVars, billVars, podVars
  <2>2. CASE WriteLost /\ UNCHANGED rowVars
    BY <1>13, <2>2, WriteLostType, GotoType DEF Reject, Status, Terminal, PC,
      TypeOK, rowVars, msgVars, billVars, podVars
  <2> QED
    BY <1>13, <2>1, <2>2 DEF Reject
<1>14. ASSUME NEW j \in Jobs, RejectRefund(j) PROVE TypeOK'
  <2>1. CASE Refund(Req(j)) /\ UNCHANGED spent
    BY <1>14, <2>1, GotoType, RefundType DEF RejectRefund, PC, TypeOK,
      rowVars, msgVars, podVars
  <2>2. CASE WriteLost /\ UNCHANGED resv
    BY <1>14, <2>2, WriteLostType, GotoType DEF RejectRefund, PC, TypeOK,
      rowVars, msgVars, podVars
  <2> QED
    BY <1>14, <2>1, <2>2 DEF RejectRefund
<1>15. ASSUME NEW j \in Jobs, LeaseTouch(j) PROVE TypeOK'
  BY <1>15, GotoType DEF LeaseTouch, Status, PC, TypeOK, msgVars, billVars,
    podVars
<1>16. ASSUME NEW j \in Jobs, StartRun(j) PROVE TypeOK'
  <2>1. CASE StatusSet(Req(j), "running") /\ UNCHANGED spent
    BY <1>16, <2>1, GotoType, StatusSetType DEF StartRun, Status, Terminal,
      PC, TypeOK, rowVars, msgVars, billVars, podVars
  <2>2. CASE WriteLost /\ UNCHANGED rowVars
    BY <1>16, <2>2, WriteLostType, GotoType DEF StartRun, Status, Terminal,
      PC, TypeOK, rowVars, msgVars, billVars, podVars
  <2> QED
    BY <1>16, <2>1, <2>2 DEF StartRun
<1>17. ASSUME NEW j \in Jobs, GateOk(j) PROVE TypeOK'
  <2>1. resv' \in [Runs -> {"none", "held", "settled", "refunded"}]
    <3>1. CASE UNCHANGED resv
      BY <3>1 DEF TypeOK
    <3>2. CASE resv' = [resv EXCEPT ![Req(j)] = IF @ = "none" THEN "held" ELSE @]
      BY <3>2 DEF TypeOK
    <3> QED
      BY <1>17, <3>1, <3>2 DEF GateOk
  <2> QED
    BY <1>17, <2>1, GotoType DEF GateOk, PC, TypeOK, rowVars, msgVars, podVars
<1>18. ASSUME NEW j \in Jobs, GateRefuse(j) PROVE TypeOK'
  BY <1>18, GotoType DEF GateRefuse, PC, TypeOK, rowVars, msgVars, billVars,
    podVars
<1>19. ASSUME NEW j \in Jobs, TurnOk(j) PROVE TypeOK'
  <2>1. spent' \in [Faults -> Nat]
    BY <1>19, SpendType DEF TurnOk, TypeOK, Faults
  <2>2. out' \in [Jobs -> {"none", "ok", "err", "fail"}]
    BY <1>19 DEF TurnOk, TypeOK
  <2> QED
    BY <1>19, <2>1, <2>2, GotoType DEF TurnOk, PC, TypeOK, rowVars, msgVars, podVars
<1>20. ASSUME NEW j \in Jobs, TurnErr(j) PROVE TypeOK'
  <2>1. CASE Refund(Req(j)) /\ UNCHANGED spent
    BY <1>20, <2>1, GotoType, RefundType DEF TurnErr, PC, TypeOK, rowVars,
      msgVars, podVars
  <2>2. CASE WriteLost /\ UNCHANGED resv
    BY <1>20, <2>2, WriteLostType, GotoType DEF TurnErr, PC, TypeOK, rowVars,
      msgVars, podVars
  <2> QED
    BY <1>20, <2>1, <2>2 DEF TurnErr
<1>21. ASSUME NEW j \in Jobs, DrainReturn(j) PROVE TypeOK'
  BY <1>21, ReturnType DEF DrainReturn, PC, TypeOK, rowVars, msgVars,
    billVars, podVars
<1>22. ASSUME NEW j \in Jobs, Finish(j) PROVE TypeOK'
  <2>1. (status' \in [Runs -> Status] /\ ended' \subseteq Runs
         /\ count' = count /\ cancel' = cancel /\ fatal' = fatal)
        /\ spent' \in [Faults -> Nat]
    <3>1. CASE StatusSet(Req(j), FinalStatus(j)) /\ UNCHANGED spent
      BY <3>1, StatusSetType, FinalStatusType DEF TypeOK
    <3>2. CASE WriteLost /\ UNCHANGED rowVars
      BY <3>2, WriteLostType DEF TypeOK, rowVars
    <3> QED
      BY <1>22, <3>1, <3>2 DEF Finish
  <2>2. pc' \in [Jobs -> PC] /\ tok' \subseteq Jobs
        /\ out' \in [Jobs -> {"none", "ok", "err", "fail"}]
    BY <1>22, ReturnType, GotoType DEF Finish, PC, TypeOK
  <2> QED
    BY <1>22, <2>1, <2>2 DEF Finish, TypeOK, msgVars, billVars, podVars
<1>23. ASSUME NEW j \in Jobs, Ack(j) PROVE TypeOK'
  <2>1. mstate' \in [Msgs -> {"absent", "pending", "inflight", "acked"}]
    BY <1>23 DEF Ack, TypeOK
  <2>2. spent' \in [Faults -> Nat]
    BY <1>23, WriteLostType DEF Ack, TypeOK
  <2> QED
    BY <1>23, <2>1, <2>2, ReturnType DEF Ack, TypeOK, rowVars, billVars, podVars
<1>24. ASSUME NEW j \in Jobs, ReportDedupe(j) PROVE TypeOK'
  BY <1>24 DEF ReportDedupe, TypeOK, rowVars, msgVars, jobVars, podVars
<1>25. ASSUME NEW j \in Jobs, ReportNothing(j) PROVE TypeOK'
  BY <1>25 DEF ReportNothing, TypeOK, rowVars, msgVars, jobVars, podVars
<1>26. ASSUME NEW j \in Jobs, ReportDeduct(j) PROVE TypeOK'
  BY <1>26 DEF ReportDeduct, TypeOK, rowVars, msgVars, jobVars, podVars
<1>27. ASSUME NEW j \in Jobs, ReportFreemium(j) PROVE TypeOK'
  BY <1>27, RefundType DEF ReportFreemium, TypeOK, rowVars, msgVars, jobVars,
    podVars
<1>28. ASSUME NEW j \in Jobs, ReportSettle(j) PROVE TypeOK'
  BY <1>28 DEF ReportSettle, TypeOK, rowVars, msgVars, jobVars, podVars
<1>29. ASSUME NEW j \in Jobs, PublishFail(j) PROVE TypeOK'
  BY <1>29, SpendType, GotoType DEF PublishFail, Faults, PC, TypeOK, rowVars,
    msgVars, billVars, podVars
<1>30. ASSUME NEW j \in Jobs, JobError(j) PROVE TypeOK'
  BY <1>30, SpendType, ReturnType DEF JobError, Faults, PC, TypeOK, rowVars,
    msgVars, billVars, podVars
<1>31. ASSUME NEW j \in Jobs, CancelWatch(j) PROVE TypeOK'
  BY <1>31 DEF CancelWatch, PC, TypeOK, rowVars, msgVars, billVars, podVars
<1>32. ASSUME NEW j \in Jobs, CheckpointSave(j) PROVE TypeOK'
  BY <1>32 DEF CheckpointSave, Status, PC, TypeOK, msgVars, billVars, podVars
<1>33. ASSUME NEW j \in Jobs, HeartbeatFail(j) PROVE TypeOK'
  BY <1>33, SpendType DEF HeartbeatFail, Faults, PC, TypeOK, rowVars, msgVars,
    billVars, podVars
<1>34. ASSUME NEW j \in Jobs, NEW class \in {"clean", "fatal"}, Hop(j, class)
  PROVE TypeOK'
  BY <1>34 DEF Hop, PC, TypeOK, rowVars, msgVars, billVars, podVars
<1>35. ASSUME NEW p \in Pods, Drain(p) PROVE TypeOK'
  BY <1>35, SpendType DEF Drain, Faults, TypeOK, rowVars, msgVars, jobVars,
    billVars, hydVars
<1>36. ASSUME NEW p \in Pods, WorkerStop(p) PROVE TypeOK'
  BY <1>36, SpendType DEF WorkerStop, Faults, TypeOK, rowVars, msgVars,
    jobVars, billVars, hydVars
<1>37. ASSUME NEW p \in Pods, Crash(p) PROVE TypeOK'
  BY <1>37, SpendType DEF Crash, Die, Faults, PC, TypeOK, rowVars, msgVars
<1>38. ASSUME NEW p \in Pods, Exit(p) PROVE TypeOK'
  BY <1>38 DEF Exit, Die, PC, TypeOK, rowVars, msgVars
<1>39. ASSUME NEW p \in Pods, Reconnect(p) PROVE TypeOK'
  BY <1>39, SpendType DEF Reconnect, Faults, TypeOK, rowVars, msgVars,
    jobVars, billVars
<1>40. ASSUME NEW p \in Pods, HydrateLock(p) PROVE TypeOK'
  BY <1>40 DEF HydrateLock, TypeOK, rowVars, msgVars, jobVars, billVars
<1>41. ASSUME HydrateList PROVE TypeOK'
  BY <1>41 DEF HydrateList, Status, TypeOK, rowVars, msgVars, jobVars,
    billVars
<1>42. ASSUME HydrateEnd PROVE TypeOK'
  <2>1. spent' \in [Faults -> Nat]
    BY <1>42, WriteLostType DEF HydrateEnd, TypeOK
  <2> QED
    BY <1>42, <2>1 DEF HydrateEnd, TypeOK, rowVars, msgVars, jobVars, billVars
<1>43. CASE UNCHANGED vars
  BY <1>43 DEF TypeOK, vars
<1> QED
  BY <1>1, <1>2, <1>3, <1>4, <1>5, <1>6, <1>7, <1>8, <1>9, <1>10, <1>11,
    <1>12, <1>13, <1>14, <1>15, <1>16, <1>17, <1>18, <1>19, <1>20, <1>21,
    <1>22, <1>23, <1>24, <1>25, <1>26, <1>27, <1>28, <1>29, <1>30, <1>31,
    <1>32, <1>33, <1>34, <1>35, <1>36, <1>37, <1>38, <1>39, <1>40, <1>41,
    <1>42, <1>43 DEF Next, JobStep, ReportStep

\* TypeOK, the type invariant of the run row, the queue, the jobs and the
\* billing state, holds in every behaviour of the specification.
THEOREM TypeCorrect == Spec => []TypeOK
<1>1. Init => TypeOK
  BY BudgetAssumption, DeliverAssumption DEF Init, TypeOK, Status, PC, Faults
<1>2. TypeOK /\ [Next]_vars => TypeOK'
  BY TypeStep
<1> QED
  BY <1>1, <1>2, PTL DEF Spec

-----------------------------------------------------------------------------
(* The debit of a run is exclusive.                                        *)

\* Jobs that have won the dedupe row: they will debit, or have debited.
Claim(j) == report[j] \in {"won", "deducted"} \/ j \in charged

\* The inductive invariant behind ChargedAtMostOnce and SettledIsPaid: a claim
\* leaves a dedupe row that outlives the claimant's crash, two claims of one
\* run are one job, and a report that settles belongs to a job that debited.
ClaimIsMarked == \A j \in Jobs : Claim(j) => Req(j) \in dedupe
ClaimIsUnique == \A i, j \in Jobs : Claim(i) /\ Claim(j) /\ Req(i) = Req(j) => i = j
SettlerHasPaid == \A j \in Jobs : report[j] = "deducted" => j \in charged
ChargeInv == ClaimIsMarked /\ ClaimIsUnique /\ SettlerHasPaid /\ SettledIsPaid

\* A refund creates no settled reservation.
LEMMA RefundSettles == ASSUME NEW r \in Runs, TypeOK, Refund(r)
                       PROVE  \A s \in Runs : resv'[s] = "settled" => resv[s] = "settled"
BY DEF Refund, TypeOK

\* Steps that create no claim, lose no dedupe row and settle no reservation
\* keep ChargeInv: all of them but ReportDedupe, ReportDeduct, ReportSettle.
LEMMA QuietStep ==
    ASSUME ChargeInv, charged' = charged, dedupe' = dedupe,
           \A j \in Jobs : \/ report'[j] = report[j]
                           \/ report'[j] \in {"none", "gate"},
           \A r \in Runs : resv'[r] = "settled" => resv[r] = "settled"
    PROVE  ChargeInv'
<1>1. \A j \in Jobs : Claim(j)' => Claim(j)
  BY DEF Claim
<1> QED
  BY <1>1 DEF ChargeInv, ClaimIsMarked, ClaimIsUnique, SettlerHasPaid, SettledIsPaid

\* Every action keeps ChargeInv.
LEMMA ChargeStep == ASSUME TypeOK, ChargeInv, [Next]_vars PROVE ChargeInv'
<1> USE JobFacts
<1>1. ASSUME NEW j \in Jobs, RejectRefund(j) PROVE ChargeInv'
  <2>1. \A r \in Runs : resv'[r] = "settled" => resv[r] = "settled"
    BY <1>1, RefundSettles DEF RejectRefund
  <2> QED
    BY <1>1, <2>1, QuietStep DEF RejectRefund
<1>2. ASSUME NEW j \in Jobs, GateOk(j) PROVE ChargeInv'
  <2>1. \A r \in Runs : resv'[r] = "settled" => resv[r] = "settled"
    BY <1>2 DEF GateOk, TypeOK
  <2> QED
    BY <1>2, <2>1, QuietStep DEF GateOk
<1>3. ASSUME NEW j \in Jobs, TurnOk(j) PROVE ChargeInv'
  BY <1>3, QuietStep DEF TurnOk, TypeOK
<1>4. ASSUME NEW j \in Jobs, TurnErr(j) PROVE ChargeInv'
  <2>1. \A r \in Runs : resv'[r] = "settled" => resv[r] = "settled"
    BY <1>4, RefundSettles DEF TurnErr
  <2> QED
    BY <1>4, <2>1, QuietStep DEF TurnErr
<1>5. ASSUME NEW j \in Jobs, ReportDedupe(j) PROVE ChargeInv'
  <2>1. \A i \in Jobs : Claim(i)' => Claim(i) \/ (i = j /\ Req(j) \notin dedupe)
    BY <1>5 DEF ReportDedupe, TypeOK, Claim
  <2>2. \A i \in Jobs : report'[i] = "deducted" => report[i] = "deducted"
    BY <1>5 DEF ReportDedupe, TypeOK
  <2>3. dedupe' = dedupe \cup {Req(j)} /\ charged' = charged /\ resv' = resv
    BY <1>5 DEF ReportDedupe
  <2>4. ClaimIsMarked'
    <3> SUFFICES ASSUME NEW i \in Jobs, Claim(i)' PROVE Req(i) \in dedupe'
      BY DEF ClaimIsMarked
    <3> QED
      BY <2>1, <2>3 DEF ChargeInv, ClaimIsMarked
  <2>5. ClaimIsUnique'
    BY <2>1 DEF ChargeInv, ClaimIsMarked, ClaimIsUnique
  <2> QED
    BY <2>2, <2>3, <2>4, <2>5 DEF ChargeInv, SettlerHasPaid, SettledIsPaid
<1>6. ASSUME NEW j \in Jobs, ReportNothing(j) PROVE ChargeInv'
  BY <1>6, QuietStep DEF ReportNothing, TypeOK
<1>7. ASSUME NEW j \in Jobs, ReportDeduct(j) PROVE ChargeInv'
  <2>1. \A i \in Jobs : Claim(i)' => Claim(i)
    BY <1>7 DEF ReportDeduct, TypeOK, Claim
  <2>2. SettlerHasPaid'
    BY <1>7 DEF ReportDeduct, TypeOK, ChargeInv, SettlerHasPaid
  <2>3. dedupe' = dedupe /\ charged \subseteq charged' /\ resv' = resv
    BY <1>7 DEF ReportDeduct
  <2> QED
    BY <2>1, <2>2, <2>3 DEF ChargeInv, ClaimIsMarked, ClaimIsUnique, SettledIsPaid
<1>8. ASSUME NEW j \in Jobs, ReportFreemium(j) PROVE ChargeInv'
  <2>1. \A r \in Runs : resv'[r] = "settled" => resv[r] = "settled"
    BY <1>8, RefundSettles DEF ReportFreemium
  <2>2. \A i \in Jobs : report'[i] = report[i] \/ report'[i] \in {"none", "gate"}
    BY <1>8 DEF ReportFreemium, TypeOK
  <2> QED
    BY <1>8, <2>1, <2>2, QuietStep DEF ReportFreemium
<1>9. ASSUME NEW j \in Jobs, ReportSettle(j) PROVE ChargeInv'
  <2>1. \A i \in Jobs : Claim(i)' => Claim(i)
    BY <1>9 DEF ReportSettle, TypeOK, Claim
  <2>2. j \in charged
    BY <1>9 DEF ReportSettle, ChargeInv, SettlerHasPaid
  <2>3. \A r \in Runs : resv'[r] = "settled" => resv[r] = "settled" \/ r = Req(j)
    BY <1>9 DEF ReportSettle, TypeOK
  <2>4. dedupe' = dedupe /\ charged' = charged
        /\ \A i \in Jobs : report'[i] = "deducted" => report[i] = "deducted"
    BY <1>9 DEF ReportSettle, TypeOK
  <2> QED
    BY <2>1, <2>2, <2>3, <2>4
       DEF ChargeInv, ClaimIsMarked, ClaimIsUnique, SettlerHasPaid, SettledIsPaid
<1>10. ASSUME NEW p \in Pods, Crash(p) PROVE ChargeInv'
  BY <1>10, QuietStep DEF Crash, Die
<1>11. ASSUME NEW p \in Pods, Exit(p) PROVE ChargeInv'
  BY <1>11, QuietStep DEF Exit, Die
<1>12. ASSUME
       \/ \E r \in Runs : AbortFlight(r) \/ Abort(r) \/
            HydratePublish(r)
       \/ \E r \in Runs, p \in Pods : Submit(r, p)
       \/ \E m \in Msgs : AckWaitExpire(m) \/ AckWaitStall(m)
       \/ \E m \in Msgs, p \in Pods : Deliver(m, p)
       \/ \E j \in Jobs : Publish(j) \/ Acquire(j) \/ DropBuffered(j)
            \/ DeliveryInc(j) \/ LoadRow(j) \/ Reject(j) \/
            LeaseTouch(j) \/ StartRun(j) \/ GateRefuse(j) \/
            DrainReturn(j) \/ Finish(j) \/ Ack(j) \/ PublishFail(j) \/
            JobError(j) \/ CancelWatch(j) \/ CheckpointSave(j) \/
            HeartbeatFail(j)
       \/ \E j \in Jobs, class \in {"clean", "fatal"} : Hop(j, class)
       \/ \E p \in Pods : Drain(p) \/ WorkerStop(p) \/ Reconnect(p) \/
            HydrateLock(p)
       \/ HydrateList
       \/ HydrateEnd
     PROVE UNCHANGED billVars
  BY <1>12 DEF billVars, jobVars, AbortFlight, Abort, HydratePublish, Submit,
    AckWaitExpire, AckWaitStall, Deliver, Publish, Acquire, DropBuffered,
    DeliveryInc, LoadRow, Reject, LeaseTouch, StartRun, GateRefuse,
    DrainReturn, Finish, Ack, PublishFail, JobError, CancelWatch,
    CheckpointSave, HeartbeatFail, Hop, Drain, WorkerStop, Reconnect,
    HydrateLock, HydrateList, HydrateEnd
<1>13. ASSUME UNCHANGED billVars PROVE ChargeInv'
  BY <1>13, QuietStep DEF billVars
<1>14. CASE UNCHANGED vars
  BY <1>13, <1>14 DEF vars, billVars
<1> QED
  BY <1>1, <1>2, <1>3, <1>4, <1>5, <1>6, <1>7, <1>8, <1>9, <1>10, <1>11,
    <1>12, <1>13, <1>14 DEF Next, JobStep, ReportStep

\* The claims of the dedupe row are consistent in every reachable state.
LEMMA ChargeInvCorrect == Spec => []ChargeInv
<1>1. Init => ChargeInv
  BY DEF Init, ChargeInv, ClaimIsMarked, ClaimIsUnique, SettlerHasPaid, SettledIsPaid, Claim
<1>2. TypeOK /\ ChargeInv /\ [Next]_vars => ChargeInv'
  BY ChargeStep
<1> QED
  BY <1>1, <1>2, TypeCorrect, PTL DEF Spec

\* Whatever crashes, redeliveries, replays and overlapping executions a run
\* meets, at most one of its jobs debits the owner (billing_usage_report).
THEOREM ChargeCorrect == Spec => []ChargedAtMostOnce
<1>1. TypeOK /\ ChargeInv => ChargedAtMostOnce
  BY DEF TypeOK, ChargeInv, ClaimIsUnique, Claim, ChargedAtMostOnce
<1> QED
  BY <1>1, TypeCorrect, ChargeInvCorrect, PTL

\* A reservation is settled only for a run that was debited: neither the refund
\* of a failing duplicate nor a freemium settle makes a hold income.
THEOREM SettledCorrect == Spec => []SettledIsPaid
<1>1. ChargeInv => SettledIsPaid
  BY DEF ChargeInv
<1> QED
  BY <1>1, ChargeInvCorrect, PTL

-----------------------------------------------------------------------------
(* A message leaves the queue only after its run has ended.                *)

\* What the worker may rely on when it acks: the run has had a terminal row,
\* or the write that should have recorded it was lost.
Closed(r) == r \in ended \/ spent["write"] > 0

\* The inductive invariant behind AckedRunEnded: a terminal row was recorded
\* in the history, and a job reaches its refund or its ack only after that.
TerminalHasEnded == \A r \in Runs : status[r] \in Terminal => r \in ended
AckerHasClosed == \A j \in Jobs : pc[j] \in {"refund", "ack"} => Closed(Req(j))
AckInv == TerminalHasEnded /\ AckerHasClosed /\ AckedRunEnded

\* Nothing reopens a closed run: the history and the fault count only grow.
LEMMA ClosedStays ==
    ASSUME TypeOK, NEW r, Closed(r), ended \subseteq ended',
           spent' = spent \/ \E f \in Faults : Spend(f)
    PROVE  Closed(r)'
BY DEF Closed, Spend, TypeOK, Faults

\* Steps that end no run, bring no job to its refund or ack and ack no message
\* keep AckInv.
LEMMA IdleStep ==
    ASSUME TypeOK, AckInv, ended' = ended,
           spent' = spent \/ \E f \in Faults : Spend(f),
           \A r \in Runs : status'[r] \in Terminal => status[r] \in Terminal,
           \A j \in Jobs : pc'[j] \in {"refund", "ack"} => pc[j] = pc'[j],
           \A m \in Msgs : mstate'[m] = "acked" => mstate[m] = "acked"
    PROVE  AckInv'
<1>1. \A r : Closed(r) => Closed(r)'
  BY ClosedStays
<1> QED
  BY <1>1 DEF AckInv, TerminalHasEnded, AckerHasClosed, AckedRunEnded, Closed

\* Every action keeps AckInv.
LEMMA AckStep == ASSUME TypeOK, AckInv, [Next]_vars PROVE AckInv'
<1>1. ASSUME NEW r \in Runs, AbortFlight(r) PROVE AckInv'
  BY <1>1, IdleStep, JobFacts DEF AbortFlight, rowVars, msgVars, TypeOK
<1>2. ASSUME NEW r \in Runs, Abort(r) PROVE AckInv'
  BY <1>2, IdleStep DEF Abort, msgVars, jobVars, Terminal, TypeOK
<1>3. ASSUME NEW r \in Runs, HydratePublish(r) PROVE AckInv'
  BY <1>3, IdleStep, JobFacts DEF HydratePublish, rowVars, jobVars, TypeOK
<1>4. ASSUME NEW r \in Runs, NEW p \in Pods, Submit(r, p) PROVE AckInv'
  BY <1>4, IdleStep, JobFacts DEF Submit, msgVars, Terminal, TypeOK
<1>5. ASSUME NEW m \in Msgs, AckWaitExpire(m) PROVE AckInv'
  BY <1>5, IdleStep, JobFacts DEF AckWaitExpire, rowVars, jobVars, TypeOK
<1>6. ASSUME NEW m \in Msgs, AckWaitStall(m) PROVE AckInv'
  BY <1>6, IdleStep, JobFacts DEF AckWaitStall, rowVars, jobVars, Faults,
    TypeOK
<1>7. ASSUME NEW m \in Msgs, NEW p \in Pods, Deliver(m, p) PROVE AckInv'
  BY <1>7, IdleStep, JobFacts, DeliverAssumption DEF Deliver, rowVars, TypeOK
<1>8. ASSUME NEW j \in Jobs, Publish(j) PROVE AckInv'
  BY <1>8, IdleStep, JobFacts DEF Publish, Return, WriteLost, Goto, rowVars,
    Faults, TypeOK
<1>9. ASSUME NEW j \in Jobs, Acquire(j) PROVE AckInv'
  BY <1>9, IdleStep, JobFacts DEF Acquire, Goto, rowVars, msgVars, TypeOK
<1>10. ASSUME NEW j \in Jobs, DropBuffered(j) PROVE AckInv'
  BY <1>10, IdleStep, JobFacts DEF DropBuffered, Return, Goto, rowVars,
    msgVars, TypeOK
<1>11. ASSUME NEW j \in Jobs, DeliveryInc(j) PROVE AckInv'
  BY <1>11, IdleStep, JobFacts DEF DeliveryInc, Goto, msgVars, Terminal,
    TypeOK
<1>12. ASSUME NEW j \in Jobs, LoadRow(j) PROVE AckInv'
  <2>1. \A i \in Jobs : pc'[i] \in {"refund", "ack"} =>
             pc[i] = pc'[i] \/ (i = j /\ status[Req(j)] \in Terminal)
    BY <1>12 DEF LoadRow, Goto, TypeOK
  <2>2. UNCHANGED <<rowVars, mstate, spent>>
    BY <1>12 DEF LoadRow, msgVars
  <2> QED
    BY <2>1, <2>2, JobFacts
       DEF AckInv, TerminalHasEnded, AckerHasClosed, AckedRunEnded, Closed, rowVars
<1>13. ASSUME NEW j \in Jobs, Reject(j) PROVE AckInv'
  <2>1. /\ \A r \in Runs : status'[r] \in Terminal => status[r] \in Terminal \/ r = Req(j)
        /\ ended \subseteq ended'
        /\ spent' = spent \/ \E f \in Faults : Spend(f)
        /\ Closed(Req(j))'
    <3>1. CASE StatusSet(Req(j), "failed") /\ UNCHANGED spent
      BY <3>1, JobFacts DEF StatusSet, Terminal, Closed, TypeOK
    <3>2. CASE WriteLost /\ UNCHANGED rowVars
      BY <3>2 DEF WriteLost, Spend, Faults, rowVars, Closed, TypeOK
    <3> QED
      BY <1>13, <3>1, <3>2 DEF Reject
  <2>2. TerminalHasEnded'
    <3>1. CASE StatusSet(Req(j), "failed")
      BY <3>1, JobFacts DEF StatusSet, TypeOK, Terminal, AckInv, TerminalHasEnded
    <3>2. CASE UNCHANGED rowVars
      BY <3>2 DEF rowVars, AckInv, TerminalHasEnded
    <3> QED
      BY <1>13, <3>1, <3>2 DEF Reject
  <2>3. \A i \in Jobs : pc'[i] \in {"refund", "ack"} => pc[i] = pc'[i] \/ i = j
    BY <1>13 DEF Reject, Goto, TypeOK
  <2>4. \A r : Closed(r) => Closed(r)'
    BY <2>1, ClosedStays
  <2>5. AckerHasClosed'
    BY <2>1, <2>3, <2>4 DEF AckInv, AckerHasClosed
  <2>6. AckedRunEnded'
    BY <1>13, <2>4 DEF Reject, msgVars, AckInv, AckedRunEnded, Closed
  <2> QED
    BY <2>2, <2>5, <2>6 DEF AckInv
<1>14. ASSUME NEW j \in Jobs, RejectRefund(j) PROVE AckInv'
  <2>1. Closed(Req(j))
    BY <1>14 DEF RejectRefund, AckInv, AckerHasClosed
  <2>2. \A r : Closed(r) => Closed(r)'
    BY <1>14, ClosedStays DEF RejectRefund, WriteLost, Faults, rowVars
  <2>3. \A i \in Jobs : pc'[i] \in {"refund", "ack"} => pc[i] = pc'[i] \/ i = j
    BY <1>14 DEF RejectRefund, Goto, TypeOK
  <2>4. UNCHANGED rowVars /\ mstate' = mstate
    BY <1>14 DEF RejectRefund, msgVars
  <2> QED
    BY <2>1, <2>2, <2>3, <2>4
       DEF AckInv, TerminalHasEnded, AckerHasClosed, AckedRunEnded, Closed, rowVars
<1>15. ASSUME NEW j \in Jobs, LeaseTouch(j) PROVE AckInv'
  BY <1>15, IdleStep, JobFacts DEF LeaseTouch, Goto, msgVars, Terminal, TypeOK
<1>16. ASSUME NEW j \in Jobs, StartRun(j) PROVE AckInv'
  BY <1>16, IdleStep, JobFacts DEF StartRun, WriteLost, StatusSet, Goto,
    rowVars, msgVars, Terminal, Faults, TypeOK
<1>17. ASSUME NEW j \in Jobs, GateOk(j) PROVE AckInv'
  BY <1>17, IdleStep, JobFacts DEF GateOk, Goto, rowVars, msgVars, TypeOK
<1>18. ASSUME NEW j \in Jobs, GateRefuse(j) PROVE AckInv'
  BY <1>18, IdleStep, JobFacts DEF GateRefuse, Goto, rowVars, msgVars, TypeOK
<1>19. ASSUME NEW j \in Jobs, TurnOk(j) PROVE AckInv'
  BY <1>19, IdleStep, JobFacts DEF TurnOk, Goto, rowVars, msgVars, Faults,
    TypeOK
<1>20. ASSUME NEW j \in Jobs, TurnErr(j) PROVE AckInv'
  BY <1>20, IdleStep, JobFacts DEF TurnErr, WriteLost, Goto, rowVars, msgVars,
    Faults, TypeOK
<1>21. ASSUME NEW j \in Jobs, DrainReturn(j) PROVE AckInv'
  BY <1>21, IdleStep, JobFacts DEF DrainReturn, Return, Goto, rowVars,
    msgVars, TypeOK
<1>22. ASSUME NEW j \in Jobs, Finish(j) PROVE AckInv'
  <2>1. /\ ended \subseteq ended'
        /\ spent' = spent \/ \E f \in Faults : Spend(f)
        /\ Closed(Req(j))'
    <3>1. CASE StatusSet(Req(j), FinalStatus(j)) /\ UNCHANGED spent
      BY <3>1 DEF StatusSet, FinalStatus, Terminal, Closed
    <3>2. CASE WriteLost /\ UNCHANGED rowVars
      BY <3>2 DEF WriteLost, Spend, Faults, rowVars, Closed, TypeOK
    <3> QED
      BY <1>22, <3>1, <3>2 DEF Finish
  <2>2. TerminalHasEnded'
    <3>1. CASE StatusSet(Req(j), FinalStatus(j))
      BY <3>1, JobFacts DEF StatusSet, TypeOK, AckInv, TerminalHasEnded
    <3>2. CASE UNCHANGED rowVars
      BY <3>2 DEF rowVars, AckInv, TerminalHasEnded
    <3> QED
      BY <1>22, <3>1, <3>2 DEF Finish
  <2>3. \A i \in Jobs : pc'[i] \in {"refund", "ack"} => pc[i] = pc'[i] \/ i = j
    BY <1>22 DEF Finish, Return, Goto, TypeOK
  <2>4. \A r : Closed(r) => Closed(r)'
    BY <2>1, ClosedStays
  <2>5. AckerHasClosed'
    BY <2>1, <2>3, <2>4 DEF AckInv, AckerHasClosed
  <2>6. AckedRunEnded'
    BY <1>22, <2>4 DEF Finish, msgVars, AckInv, AckedRunEnded, Closed
  <2> QED
    BY <2>2, <2>5, <2>6 DEF AckInv
<1>23. ASSUME NEW j \in Jobs, Ack(j) PROVE AckInv'
  <2>1. Closed(Req(j)) /\ MsgOf(j) \in Msgs /\ MsgOf(j)[1] = Req(j)
    BY <1>23, JobFacts DEF Ack, AckInv, AckerHasClosed, MsgOf, Req
  <2>2. \A m \in Msgs : mstate'[m] = "acked" => mstate[m] = "acked" \/ m = MsgOf(j)
    BY <1>23, <2>1 DEF Ack, TypeOK
  <2>3. \A r : Closed(r) => Closed(r)'
    BY <1>23, ClosedStays DEF Ack, WriteLost, Faults, rowVars
  <2>4. \A i \in Jobs : pc'[i] \in {"refund", "ack"} => pc[i] = pc'[i]
    BY <1>23 DEF Ack, Return, Goto, TypeOK
  <2>5. AckedRunEnded'
    BY <2>1, <2>2, <2>3 DEF AckInv, AckedRunEnded, Closed
  <2>6. UNCHANGED rowVars
    BY <1>23 DEF Ack
  <2> QED
    BY <2>3, <2>4, <2>5, <2>6 DEF AckInv, TerminalHasEnded, AckerHasClosed, rowVars
<1>24. ASSUME NEW j \in Jobs, ReportDedupe(j) PROVE AckInv'
  BY <1>24, IdleStep, JobFacts DEF ReportDedupe, rowVars, msgVars, jobVars,
    TypeOK
<1>25. ASSUME NEW j \in Jobs, ReportNothing(j) PROVE AckInv'
  BY <1>25, IdleStep, JobFacts DEF ReportNothing, rowVars, msgVars, jobVars,
    TypeOK
<1>26. ASSUME NEW j \in Jobs, ReportDeduct(j) PROVE AckInv'
  BY <1>26, IdleStep, JobFacts DEF ReportDeduct, rowVars, msgVars, jobVars,
    TypeOK
<1>27. ASSUME NEW j \in Jobs, ReportFreemium(j) PROVE AckInv'
  BY <1>27, IdleStep, JobFacts DEF ReportFreemium, rowVars, msgVars, jobVars,
    TypeOK
<1>28. ASSUME NEW j \in Jobs, ReportSettle(j) PROVE AckInv'
  BY <1>28, IdleStep, JobFacts DEF ReportSettle, rowVars, msgVars, jobVars,
    TypeOK
<1>29. ASSUME NEW j \in Jobs, PublishFail(j) PROVE AckInv'
  BY <1>29, IdleStep, JobFacts DEF PublishFail, Goto, rowVars, msgVars,
    Faults, TypeOK
<1>30. ASSUME NEW j \in Jobs, JobError(j) PROVE AckInv'
  BY <1>30, IdleStep, JobFacts DEF JobError, Return, Goto, rowVars, msgVars,
    Faults, TypeOK
<1>31. ASSUME NEW j \in Jobs, CancelWatch(j) PROVE AckInv'
  BY <1>31, IdleStep, JobFacts DEF CancelWatch, rowVars, msgVars, TypeOK
<1>32. ASSUME NEW j \in Jobs, CheckpointSave(j) PROVE AckInv'
  BY <1>32, IdleStep, JobFacts DEF CheckpointSave, msgVars, Terminal, TypeOK
<1>33. ASSUME NEW j \in Jobs, HeartbeatFail(j) PROVE AckInv'
  BY <1>33, IdleStep, JobFacts DEF HeartbeatFail, rowVars, msgVars, Faults,
    TypeOK
<1>34. ASSUME NEW j \in Jobs, NEW class \in {"clean", "fatal"}, Hop(j, class)
  PROVE AckInv'
  BY <1>34, IdleStep, JobFacts DEF Hop, rowVars, msgVars, TypeOK
<1>35. ASSUME NEW p \in Pods, Drain(p) PROVE AckInv'
  BY <1>35, IdleStep, JobFacts DEF Drain, rowVars, msgVars, jobVars, hydVars,
    Faults, TypeOK
<1>36. ASSUME NEW p \in Pods, WorkerStop(p) PROVE AckInv'
  BY <1>36, IdleStep, JobFacts DEF WorkerStop, rowVars, msgVars, jobVars,
    hydVars, Faults, TypeOK
<1>37. ASSUME NEW p \in Pods, Crash(p) PROVE AckInv'
  BY <1>37, IdleStep, JobFacts DEF Crash, Die, rowVars, msgVars, Faults,
    TypeOK
<1>38. ASSUME NEW p \in Pods, Exit(p) PROVE AckInv'
  BY <1>38, IdleStep, JobFacts DEF Exit, Die, rowVars, msgVars, TypeOK
<1>39. ASSUME NEW p \in Pods, Reconnect(p) PROVE AckInv'
  BY <1>39, IdleStep, JobFacts DEF Reconnect, rowVars, msgVars, jobVars,
    Faults, TypeOK
<1>40. ASSUME NEW p \in Pods, HydrateLock(p) PROVE AckInv'
  BY <1>40, IdleStep, JobFacts DEF HydrateLock, rowVars, msgVars, jobVars,
    TypeOK
<1>41. ASSUME HydrateList PROVE AckInv'
  BY <1>41, IdleStep, JobFacts DEF HydrateList, rowVars, msgVars, jobVars,
    Terminal, TypeOK
<1>42. ASSUME HydrateEnd PROVE AckInv'
  BY <1>42, IdleStep, JobFacts DEF HydrateEnd, WriteLost, rowVars, msgVars,
    jobVars, Faults, TypeOK
<1>43. CASE UNCHANGED vars
  BY <1>43, IdleStep DEF vars
<1> QED
  BY <1>1, <1>2, <1>3, <1>4, <1>5, <1>6, <1>7, <1>8, <1>9, <1>10, <1>11,
    <1>12, <1>13, <1>14, <1>15, <1>16, <1>17, <1>18, <1>19, <1>20, <1>21,
    <1>22, <1>23, <1>24, <1>25, <1>26, <1>27, <1>28, <1>29, <1>30, <1>31,
    <1>32, <1>33, <1>34, <1>35, <1>36, <1>37, <1>38, <1>39, <1>40, <1>41,
    <1>42, <1>43 DEF Next, JobStep, ReportStep

\* The worker never acks, and JetStream never drops, the message of a run that
\* nobody brought to an end, unless a finishing write was lost.
THEOREM AckCorrect == Spec => []AckedRunEnded
<1>1. Init => AckInv
  BY DEF Init, AckInv, TerminalHasEnded, AckerHasClosed, AckedRunEnded, Terminal
<1>2. TypeOK /\ AckInv /\ [Next]_vars => AckInv'
  BY AckStep
<1>3. AckInv => AckedRunEnded
  BY DEF AckInv
<1> QED
  BY <1>1, <1>2, <1>3, TypeCorrect, PTL DEF Spec

-----------------------------------------------------------------------------
(* What the steps of the system can do to runs, messages and jobs.         *)

\* A step commits no fault, or one.
Spends == spent' = spent \/ \E f \in Faults : Spend(f)

\* A job that may still change the row of its run: it has not yet read the
\* row, or has found it open.
Executes(j) ==
    \/ pc[j] \in {"publish", "reject", "lease", "start", "gate", "turn", "finish"}
    \/ Inline(j) /\ pc[j] = "wait"

\* Program points of a turn that runs without a message.
InlinePC == {"none", "publish", "wait", "start", "gate", "turn", "finish", "gone"}

\* What a job can do between two messages: only the job itself and the row of
\* its run change.  It heads for its ack only with a terminal row, returns
\* early only from a pod that has stopped accepting jobs, and changes the row
\* only while it executes, unless a write was lost.
Local(j) ==
    /\ Live(j) /\ pc' \in [Jobs -> PC]
    /\ \A i \in Jobs : i # j => pc'[i] = pc[i]
    /\ \A r \in Runs : status'[r] # status[r] =>
          r = Req(j) /\ Executes(j) /\ status'[r] \in Terminal \cup {"running"}
    /\ status'[Req(j)] = "running" /\ status[Req(j)] # "running" => pc'[j] \in {"start", "gate"}
    /\ pc'[j] \in {"refund", "ack"} =>
          pc[j] = "refund" \/ status'[Req(j)] \in Terminal \/ spent'["write"] > 0
    /\ pc'[j] \in {"none", "gone"} =>
          Inline(j) \/ pod[j] \in drain \cup stopped \/ spent'["write"] > 0
    /\ pc[j] = "publish" => spent'["write"] > 0
    /\ Inline(j) /\ pc[j] \in InlinePC => pc'[j] \in InlinePC
    /\ Executes(j)' =>
          status'[Req(j)] \notin Terminal \/ (Executes(j) /\ status'[Req(j)] = status[Req(j)])
    /\ UNCHANGED <<msgVars, pod, podVars>>
    /\ Spends

\* A lost write is remembered.
LEMMA WriteLostSeen ==
    ASSUME TypeOK, Spend("write")
    PROVE  Spends /\ spent'["write"] > 0
BY DEF Spends, Spend, Faults, TypeOK

\* Every step of a job that neither publishes nor acks is local.
LEMMA LocalSteps ==
    ASSUME TypeOK, NEW j \in Jobs,
           \/ PublishFail(j) \/ Acquire(j) \/ DropBuffered(j) \/ DeliveryInc(j)
           \/ LoadRow(j) \/ Reject(j) \/ RejectRefund(j) \/ LeaseTouch(j)
           \/ StartRun(j) \/ JobError(j) \/ GateOk(j) \/ GateRefuse(j)
           \/ TurnOk(j) \/ TurnErr(j) \/ DrainReturn(j) \/ Finish(j)
    PROVE  Local(j)
<1> USE JobFacts DEF Local, Live, Executes, Inline, InlinePC, Goto, PC
<1>1. CASE PublishFail(j)
  BY <1>1, WriteLostSeen DEF PublishFail, rowVars, msgVars, podVars, TypeOK
<1>2. CASE Acquire(j)
  BY <1>2 DEF Acquire, Spends, rowVars, msgVars, podVars, TypeOK
<1>3. CASE DropBuffered(j)
  BY <1>3 DEF DropBuffered, Return, Spends, rowVars, msgVars, podVars, TypeOK
<1>4. CASE DeliveryInc(j)
  BY <1>4 DEF DeliveryInc, Spends, msgVars, podVars, TypeOK
<1>5. CASE LoadRow(j)
  BY <1>5 DEF LoadRow, Spends, rowVars, msgVars, podVars, TypeOK
<1>6. CASE Reject(j)
  <2>1. CASE StatusSet(Req(j), "failed") /\ UNCHANGED spent
    BY <1>6, <2>1 DEF Reject, StatusSet, Spends, Terminal, msgVars, podVars, TypeOK
  <2>2. CASE WriteLost /\ UNCHANGED rowVars
    BY <1>6, <2>2, WriteLostSeen DEF Reject, WriteLost, rowVars, msgVars, podVars, TypeOK
  <2> QED
    BY <1>6, <2>1, <2>2 DEF Reject
<1>7. CASE RejectRefund(j)
  <2>1. Spends
    BY <1>7, WriteLostSeen DEF RejectRefund, WriteLost, Spends
  <2> QED
    BY <1>7, <2>1 DEF RejectRefund, rowVars, msgVars, podVars, TypeOK
<1>8. CASE LeaseTouch(j)
  BY <1>8 DEF LeaseTouch, Spends, Terminal, msgVars, podVars, TypeOK
<1>9. CASE StartRun(j)
  <2>1. CASE StatusSet(Req(j), "running") /\ UNCHANGED spent
    BY <1>9, <2>1 DEF StartRun, StatusSet, Spends, Terminal, msgVars, podVars, TypeOK
  <2>2. CASE WriteLost /\ UNCHANGED rowVars
    BY <1>9, <2>2, WriteLostSeen DEF StartRun, WriteLost, rowVars, msgVars, podVars, TypeOK
  <2> QED
    BY <1>9, <2>1, <2>2 DEF StartRun
<1>10. CASE JobError(j)
  BY <1>10, WriteLostSeen DEF JobError, Return, rowVars, msgVars, podVars, TypeOK
<1>11. CASE GateOk(j)
  BY <1>11 DEF GateOk, Spends, rowVars, msgVars, podVars, TypeOK
<1>12. CASE GateRefuse(j)
  BY <1>12 DEF GateRefuse, Spends, rowVars, msgVars, podVars, TypeOK
<1>13. CASE TurnOk(j)
  <2>1. Spends
    BY <1>13, WriteLostSeen DEF TurnOk, Spends
  <2> QED
    BY <1>13, <2>1 DEF TurnOk, rowVars, msgVars, podVars, TypeOK
<1>14. CASE TurnErr(j)
  <2>1. Spends
    BY <1>14, WriteLostSeen DEF TurnErr, WriteLost, Spends
  <2> QED
    BY <1>14, <2>1 DEF TurnErr, rowVars, msgVars, podVars, TypeOK
<1>15. CASE DrainReturn(j)
  BY <1>15 DEF DrainReturn, Return, Spends, rowVars, msgVars, podVars, TypeOK
<1>16. CASE Finish(j)
  <2>1. pc' = [pc EXCEPT ![j] = IF Inline(j) THEN "gone" ELSE "ack"]
    BY <1>16 DEF Finish, Return
  <2>2. UNCHANGED <<msgVars, pod, podVars>> /\ pc[j] = "finish"
    BY <1>16 DEF Finish
  <2>3. CASE StatusSet(Req(j), FinalStatus(j)) /\ UNCHANGED spent
    <3>1. FinalStatus(j) \in Terminal
      BY DEF FinalStatus, Terminal
    <3> QED
      BY <2>1, <2>2, <2>3, <3>1 DEF StatusSet, Spends, Terminal, TypeOK
  <2>4. CASE WriteLost /\ UNCHANGED rowVars
    BY <2>1, <2>2, <2>4, WriteLostSeen DEF WriteLost, rowVars, TypeOK
  <2> QED
    BY <1>16, <2>3, <2>4 DEF Finish
<1> QED
  BY <1>1, <1>2, <1>3, <1>4, <1>5, <1>6, <1>7, <1>8, <1>9, <1>10, <1>11,
    <1>12, <1>13, <1>14, <1>15, <1>16

\* Steps that touch neither rows, messages, program points nor pods.
Still == UNCHANGED <<status, msgVars, pc, pod, podVars>> /\ Spends

\* A pod dies, by a crash or at the end of its drain.
Dies(p) ==
    /\ Die(p)
    /\ \/ Spend("crash")
       \/ p \in drain /\ UNCHANGED spent

\* Every step is one of the following.
LEMMA StepKinds ==
    ASSUME TypeOK, [Next]_vars
    PROVE  \/ Still
           \/ \E j \in Jobs : Local(j) \/ Publish(j) \/ Ack(j)
           \/ \E r \in Runs, p \in Pods : Submit(r, p)
           \/ \E m \in Msgs, p \in Pods : Deliver(m, p)
           \/ \E m \in Msgs : AckWaitExpire(m) \/ AckWaitStall(m)
           \/ \E p \in Pods : Drain(p) \/ WorkerStop(p) \/ Dies(p)
                              \/ Reconnect(p) \/ HydrateLock(p)
           \/ \E r \in Runs : HydratePublish(r)
           \/ HydrateList
           \/ HydrateEnd
<1>1. ASSUME NEW r \in Runs, AbortFlight(r) \/ Abort(r) PROVE Still
  BY <1>1 DEF AbortFlight, Abort, Still, Spends, rowVars, msgVars, jobVars, podVars
<1>2. ASSUME NEW j \in Jobs, CancelWatch(j) \/ CheckpointSave(j) PROVE Still
  BY <1>2 DEF CancelWatch, CheckpointSave, Still, Spends, rowVars, msgVars, podVars
<1>3. ASSUME NEW j \in Jobs, NEW class \in {"clean", "fatal"}, Hop(j, class) PROVE Still
  BY <1>3 DEF Hop, Still, Spends, rowVars, msgVars, podVars
<1>4. ASSUME NEW j \in Jobs, HeartbeatFail(j) PROVE Still
  BY <1>4 DEF HeartbeatFail, Still, Spends, Faults, rowVars, msgVars, podVars
<1>5. ASSUME NEW j \in Jobs, ReportStep(j) PROVE Still
  BY <1>5 DEF ReportStep, ReportDedupe, ReportNothing, ReportDeduct, ReportFreemium,
    ReportSettle, Still, Spends, rowVars, msgVars, jobVars, podVars
<1>6. CASE UNCHANGED vars
  BY <1>6 DEF vars, Still, Spends, msgVars, podVars
<1>7. ASSUME NEW p \in Pods, Crash(p) \/ Exit(p) PROVE Dies(p)
  BY <1>7 DEF Crash, Exit, Dies
<1> QED
  BY <1>1, <1>2, <1>3, <1>4, <1>5, <1>6, <1>7, LocalSteps DEF Next, JobStep

-----------------------------------------------------------------------------
(* As long as ack waits do not run out, a message has one holder at a time. *)

\* No ack wait has run out while a job of the message lived.
OnTime == spent["stall"] = 0

\* A run without a row has no message, no job and no replay, so a submission
\* starts from nothing.
Fresh ==
    \A r \in Runs : status[r] = "none" =>
        /\ \A m \in Msgs : m[1] = r => mstate[m] = "absent"
        /\ \A j \in Jobs : Req(j) = r => ~Live(j)
        /\ r \notin listed

\* The submitting task lives on only while its message is not in the stream.
Unsent == \A r \in Runs : Live(Submitter(r)) => mstate[<<r, 0>>] = "absent"

\* Only the submitting task runs a turn without a message.
InlineIsSubmitter ==
    \A j \in Jobs : Inline(j) =>
        /\ Live(j) => j = Submitter(Req(j))
        /\ pc[j] \in InlinePC

\* A worker's job holds a message that was sent.
HeldIsSent == \A j \in Jobs : Live(j) /\ ~Inline(j) => mstate[MsgOf(j)] # "absent"

\* A worker's job holds a message that is in flight.
HeldInFlight == \A j \in Jobs : Live(j) /\ ~Inline(j) => mstate[MsgOf(j)] = "inflight"
\* No two jobs of a worker hold one message.
HeldAlone ==
    \A i, j \in Jobs :
        Live(i) /\ Live(j) /\ ~Inline(i) /\ ~Inline(j) /\ MsgOf(i) = MsgOf(j) => i = j

\* The invariant of the dispatch: at most one holder of every message.
DispatchInv ==
    /\ Fresh
    /\ Unsent
    /\ InlineIsSubmitter
    /\ HeldIsSent
    /\ OnTime => HeldInFlight /\ HeldAlone

\* A fault counter never decreases.
LEMMA SpendsGrow ==
    ASSUME TypeOK, Spends
    PROVE  \A f \in Faults : spent[f] <= spent'[f]
BY DEF TypeOK, Spends, Spend

\* Ack waits that did not run out after the step did not before.
LEMMA OnTimeBefore ==
    ASSUME TypeOK, Spends, OnTime'
    PROVE  OnTime
BY SpendsGrow DEF OnTime, Faults, TypeOK

\* Steps that send no message and start no job keep DispatchInv.
LEMMA QuietDispatch ==
    ASSUME TypeOK, DispatchInv, Spends, mstate' = mstate, listed' \subseteq listed,
           \A r \in Runs : status'[r] = "none" => status[r] = "none",
           \A j \in Jobs : Live(j)' => Live(j),
           \A j \in Jobs : Inline(j) => pc'[j] \in InlinePC
    PROVE  DispatchInv'
<1>1. Fresh'
  BY DEF DispatchInv, Fresh
<1>2. Unsent' /\ InlineIsSubmitter' /\ HeldIsSent'
  BY JobFacts DEF DispatchInv, Unsent, InlineIsSubmitter, HeldIsSent
<1>3. OnTime' => HeldInFlight' /\ HeldAlone'
  BY OnTimeBefore DEF DispatchInv, HeldInFlight, HeldAlone
<1> QED
  BY <1>1, <1>2, <1>3 DEF DispatchInv

\* Every step keeps DispatchInv.
LEMMA DispatchStep == ASSUME TypeOK, DispatchInv, [Next]_vars PROVE DispatchInv'
<1> DEFINE InlineStays == \A j \in Jobs : Inline(j) => pc'[j] \in InlinePC
<1>1. CASE Still
  BY <1>1, QuietDispatch DEF Still, msgVars, podVars, Live, DispatchInv, InlineIsSubmitter
<1>2. ASSUME NEW j \in Jobs, Local(j) PROVE DispatchInv'
  <2>1. \A i \in Jobs : Live(i)' => Live(i)
    BY <1>2 DEF Local, Live
  <2>2. \A r \in Runs : status'[r] = "none" => status[r] = "none"
    BY <1>2 DEF Local, Terminal
  <2>3. InlineStays
    BY <1>2 DEF Local, DispatchInv, InlineIsSubmitter
  <2> QED
    BY <1>2, <2>1, <2>2, <2>3, QuietDispatch DEF Local, msgVars, podVars
<1>3. ASSUME NEW j \in Jobs, Publish(j) PROVE DispatchInv'
  <2> DEFINE r == Req(j)
  <2>1. Live(j) /\ r \in Runs /\ j = Submitter(r) /\ MsgOf(j) = <<r, 0>>
    BY <1>3, JobFacts DEF Publish, Live, DispatchInv, InlineIsSubmitter, MsgOf, Submitter
  <2>2. /\ mstate[<<r, 0>>] = "absent" /\ status[r] # "none"
        /\ <<r, 0>> \in Msgs
    BY <2>1, JobFacts DEF DispatchInv, Unsent, Fresh
  <2>3. /\ UNCHANGED <<status, listed>>
        /\ \A m \in Msgs : m # <<r, 0>> => mstate'[m] = mstate[m]
        /\ \A i \in Jobs : Live(i)' => Live(i) /\ i # j
        /\ \A i \in Jobs : pc'[i] = pc[i] \/ pc'[i] = "gone"
    BY <1>3, <2>1 DEF Publish, Return, Goto, rowVars, podVars, Live, TypeOK
  <2>4. Spends
    BY <1>3, WriteLostSeen DEF Publish, WriteLost, Spends
  <2>5. Fresh'
    BY <2>2, <2>3 DEF DispatchInv, Fresh
  <2>6. Unsent'
    <3> SUFFICES ASSUME NEW q \in Runs, Live(Submitter(q))'
                 PROVE  mstate'[<<q, 0>>] = "absent"
      BY DEF Unsent
    <3>1. Live(Submitter(q)) /\ q # r
      BY <2>1, <2>3, JobFacts
    <3> QED
      BY <2>3, <3>1, JobFacts DEF DispatchInv, Unsent
  <2>7. InlineIsSubmitter'
    BY <2>3 DEF DispatchInv, InlineIsSubmitter, InlinePC
  <2>8. HeldIsSent'
    BY <2>2, <2>3, JobFacts DEF DispatchInv, HeldIsSent
  <2>9. ASSUME OnTime' PROVE HeldInFlight' /\ HeldAlone'
    <3>1. HeldInFlight /\ HeldAlone
      BY <2>4, <2>9, OnTimeBefore DEF DispatchInv
    <3>2. HeldInFlight'
      BY <2>2, <2>3, <3>1, JobFacts DEF HeldInFlight
    <3> QED
      BY <2>3, <3>1, <3>2 DEF HeldAlone
  <2> QED
    BY <2>5, <2>6, <2>7, <2>8, <2>9 DEF DispatchInv
<1>4. ASSUME NEW j \in Jobs, Ack(j) PROVE DispatchInv'
  <2>1. /\ Live(j) /\ Req(j) \in Runs /\ ~Inline(j)
        /\ MsgOf(j) \in Msgs /\ MsgOf(j)[1] = Req(j) /\ mstate[MsgOf(j)] # "absent"
    BY <1>4, JobFacts DEF Ack, Live, MsgOf, Req, DispatchInv, InlineIsSubmitter, InlinePC,
      HeldIsSent
  <2>2. /\ UNCHANGED <<status, listed>>
        /\ \A m \in Msgs : m # MsgOf(j) => mstate'[m] = mstate[m]
        /\ mstate'[MsgOf(j)] \in {mstate[MsgOf(j)], "acked"}
        /\ \A i \in Jobs : Live(i)' => Live(i) /\ i # j
        /\ \A i \in Jobs : pc'[i] = pc[i] \/ pc'[i] = "gone"
    BY <1>4, <2>1 DEF Ack, Return, Goto, rowVars, podVars, Live, TypeOK
  <2>3. Spends
    BY <1>4, WriteLostSeen DEF Ack, WriteLost, Spends
  <2>4. Fresh'
    BY <2>1, <2>2 DEF DispatchInv, Fresh
  <2>5. Unsent'
    BY <2>1, <2>2, JobFacts DEF DispatchInv, Unsent
  <2>6. InlineIsSubmitter' /\ HeldIsSent'
    BY <2>1, <2>2, JobFacts DEF DispatchInv, InlineIsSubmitter, InlinePC, HeldIsSent
  <2>7. ASSUME OnTime' PROVE HeldInFlight' /\ HeldAlone'
    <3>1. HeldInFlight /\ HeldAlone
      BY <2>3, <2>7, OnTimeBefore DEF DispatchInv
    <3>2. \A i \in Jobs : Live(i)' /\ ~Inline(i) => MsgOf(i) # MsgOf(j)
      BY <2>1, <2>2, <3>1 DEF HeldAlone
    <3> QED
      BY <2>2, <3>1, <3>2, JobFacts DEF HeldInFlight, HeldAlone
  <2> QED
    BY <2>4, <2>5, <2>6, <2>7 DEF DispatchInv
<1>5. ASSUME NEW r \in Runs, NEW p \in Pods, Submit(r, p) PROVE DispatchInv'
  <2>1. Submitter(r) \in Jobs /\ Inline(Submitter(r)) /\ Req(Submitter(r)) = r
    BY JobFacts DEF Inline, Submitter, Req
  <2>2. /\ UNCHANGED <<mstate, listed, spent>> /\ status[r] = "none"
        /\ \A q \in Runs : status'[q] = "none" => status[q] = "none" /\ q # r
        /\ \A i \in Jobs : i # Submitter(r) => pc'[i] = pc[i]
        /\ pc'[Submitter(r)] = "publish"
    BY <1>5, <2>1 DEF Submit, msgVars, podVars, TypeOK
  <2>3. mstate[<<r, 0>>] = "absent"
    BY <2>2, JobFacts DEF DispatchInv, Fresh
  <2>4. Fresh'
    BY <2>1, <2>2 DEF DispatchInv, Fresh, Live
  <2>5. Unsent'
    <3>1. \A q \in Runs : q # r => Submitter(q) # Submitter(r)
      BY DEF Submitter
    <3>2. \A q \in Runs : q # r => (Live(Submitter(q))' => Live(Submitter(q)))
      BY <2>2, <3>1, JobFacts DEF Live
    <3> QED
      BY <2>2, <2>3, <3>2 DEF DispatchInv, Unsent
  <2>6. InlineIsSubmitter' /\ HeldIsSent'
    BY <2>1, <2>2 DEF DispatchInv, InlineIsSubmitter, InlinePC, HeldIsSent, Live
  <2>7. ASSUME OnTime' PROVE HeldInFlight' /\ HeldAlone'
    BY <2>1, <2>2, <2>7 DEF DispatchInv, HeldInFlight, HeldAlone, OnTime, Live
  <2> QED
    BY <2>4, <2>5, <2>6, <2>7 DEF DispatchInv
<1>6. ASSUME NEW m \in Msgs, NEW p \in Pods, Deliver(m, p) PROVE DispatchInv'
  <2> DEFINE k == JobOf(m, mcount[m] + 1)
  <2>1. k \in Jobs /\ ~Inline(k) /\ MsgOf(k) = m /\ Req(k) = m[1] /\ m[1] \in Runs
    <3>1. mcount[m] + 1 \in 0..MaxDeliver /\ mcount[m] + 1 # 0
      BY <1>6, DeliverAssumption DEF Deliver, TypeOK
    <3> QED
      BY <3>1, JobFacts DEF JobOf, Inline, MsgOf, Req, Msgs
  <2>2. /\ UNCHANGED <<status, listed, spent>> /\ mstate[m] = "pending"
        /\ \A n \in Msgs : n # m => mstate'[n] = mstate[n]
        /\ mstate'[m] = "inflight"
        /\ \A i \in Jobs : i # k => pc'[i] = pc[i]
        /\ pc'[k] = "wait"
    BY <1>6, <2>1 DEF Deliver, rowVars, podVars, TypeOK
  <2>3. Fresh'
    BY <2>1, <2>2 DEF DispatchInv, Fresh, Live
  <2>4. Unsent'
    BY <2>1, <2>2, JobFacts DEF DispatchInv, Unsent, Live, Inline, Submitter
  <2>5. InlineIsSubmitter' /\ HeldIsSent'
    BY <2>1, <2>2, JobFacts DEF DispatchInv, InlineIsSubmitter, InlinePC, HeldIsSent, Live
  <2>6. ASSUME OnTime' PROVE HeldInFlight' /\ HeldAlone'
    <3>1. HeldInFlight /\ HeldAlone
      BY <2>2, <2>6 DEF DispatchInv, OnTime
    <3>2. \A i \in Jobs : Live(i) /\ ~Inline(i) => MsgOf(i) # m
      BY <2>2, <3>1 DEF HeldInFlight
    <3> QED
      BY <2>1, <2>2, <3>1, <3>2, JobFacts DEF HeldInFlight, HeldAlone, Live
  <2> QED
    BY <2>3, <2>4, <2>5, <2>6 DEF DispatchInv
<1>7. ASSUME NEW m \in Msgs, AckWaitExpire(m) PROVE DispatchInv'
  <2>1. /\ UNCHANGED <<status, listed, pc, spent>> /\ mstate[m] = "inflight"
        /\ \A n \in Msgs : n # m => mstate'[n] = mstate[n]
        /\ mstate'[m] = "pending"
        /\ \A i \in Jobs : Live(i) /\ ~Inline(i) => MsgOf(i) # m
    BY <1>7 DEF AckWaitExpire, Holders, rowVars, jobVars, podVars, TypeOK
  <2> QED
    BY <2>1, JobFacts DEF DispatchInv, Fresh, Unsent, InlineIsSubmitter, HeldIsSent,
      HeldInFlight, HeldAlone, OnTime, Live
<1>8. ASSUME NEW m \in Msgs, AckWaitStall(m) PROVE DispatchInv'
  <2>1. /\ UNCHANGED <<status, listed, pc>> /\ mstate[m] = "inflight"
        /\ \A n \in Msgs : n # m => mstate'[n] = mstate[n]
        /\ mstate'[m] = "pending"
        /\ ~OnTime'
    BY <1>8 DEF AckWaitStall, Spend, OnTime, Faults, rowVars, jobVars, podVars, TypeOK
  <2> QED
    BY <2>1, JobFacts DEF DispatchInv, Fresh, Unsent, InlineIsSubmitter, HeldIsSent, Live
<1>9. ASSUME NEW p \in Pods, Drain(p) \/ WorkerStop(p) \/ Reconnect(p) \/ HydrateLock(p)
      PROVE DispatchInv'
  <2>1. UNCHANGED <<status, mstate, pc, listed>> /\ Spends
    BY <1>9 DEF Drain, WorkerStop, Reconnect, HydrateLock, Spends, Faults, rowVars, msgVars,
      jobVars, hydVars
  <2> QED
    BY <2>1, QuietDispatch DEF Live, DispatchInv, InlineIsSubmitter
<1>10. ASSUME NEW p \in Pods, Dies(p) PROVE DispatchInv'
  <2>1. /\ UNCHANGED <<status, mstate>> /\ listed' \subseteq listed /\ Spends
        /\ \A j \in Jobs : pc'[j] = pc[j] \/ pc'[j] = "gone"
    BY <1>10 DEF Dies, Die, Spends, Faults, rowVars, msgVars, TypeOK
  <2> QED
    BY <2>1, QuietDispatch DEF Live, DispatchInv, InlineIsSubmitter, InlinePC
<1>11. ASSUME NEW r \in Runs, HydratePublish(r) PROVE DispatchInv'
  <2>1. /\ UNCHANGED <<status, pc, spent>> /\ listed' \subseteq listed /\ r \in listed
        /\ \A m \in Msgs :
              \/ mstate'[m] = mstate[m]
              \/ mstate[m] = "absent" /\ mstate'[m] = "pending" /\ m[1] = r /\ m[2] # 0
    <3>1. UNCHANGED <<status, pc, spent>> /\ listed' \subseteq listed /\ r \in listed
      BY <1>11 DEF HydratePublish, rowVars, jobVars
    <3>2. CASE mstate' = mstate
      BY <3>1, <3>2
    <3>3. CASE \E c \in 1..MaxReplay :
                 /\ mstate[<<r, c>>] = "absent"
                 /\ mstate' = [mstate EXCEPT ![<<r, c>>] = "pending"]
      <4>1. PICK c \in 1..MaxReplay : /\ mstate[<<r, c>>] = "absent"
                                      /\ mstate' = [mstate EXCEPT ![<<r, c>>] = "pending"]
        BY <3>3
      <4>2. <<r, c>>[1] = r /\ <<r, c>>[2] # 0
        BY <4>1, ReplayAssumption
      <4>3. \A m \in Msgs : IF m = <<r, c>> THEN mstate'[m] = "pending"
                                             ELSE mstate'[m] = mstate[m]
        BY <4>1 DEF TypeOK
      <4> QED
        BY <3>1, <4>1, <4>2, <4>3
    <3>4. \/ mstate' = mstate
          \/ \E c \in 1..MaxReplay :
                 /\ mstate[<<r, c>>] = "absent"
                 /\ mstate' = [mstate EXCEPT ![<<r, c>>] = "pending"]
      BY <1>11 DEF HydratePublish
    <3> QED
      BY <3>2, <3>3, <3>4
  <2>2. Fresh'
    BY <2>1 DEF DispatchInv, Fresh, Live
  <2>3. Unsent'
    BY <2>1, JobFacts DEF DispatchInv, Unsent, Live
  <2>4. InlineIsSubmitter' /\ HeldIsSent'
    BY <2>1, JobFacts DEF DispatchInv, InlineIsSubmitter, HeldIsSent, Live
  <2>5. ASSUME OnTime' PROVE HeldInFlight' /\ HeldAlone'
    BY <2>1, <2>5, JobFacts DEF DispatchInv, HeldInFlight, HeldAlone, OnTime, Live
  <2> QED
    BY <2>2, <2>3, <2>4, <2>5 DEF DispatchInv
<1>12. CASE HydrateList
  <2>1. UNCHANGED <<status, mstate, pc, spent>> /\ \A r \in listed' : status[r] = "queued"
    BY <1>12 DEF HydrateList, rowVars, msgVars, jobVars
  <2> QED
    BY <2>1 DEF DispatchInv, Fresh, Unsent, InlineIsSubmitter, HeldIsSent, HeldInFlight,
      HeldAlone, OnTime, Live
<1>13. CASE HydrateEnd
  <2>1. UNCHANGED <<status, mstate, pc>> /\ listed' = {} /\ Spends
    BY <1>13 DEF HydrateEnd, WriteLost, Spends, Faults, rowVars, msgVars, jobVars
  <2> QED
    BY <2>1, QuietDispatch DEF Live, DispatchInv, InlineIsSubmitter
<1> QED
  BY <1>1, <1>2, <1>3, <1>4, <1>5, <1>6, <1>7, <1>8, <1>9, <1>10, <1>11, <1>12,
    <1>13, StepKinds

\* DispatchInv holds in every reachable state.
LEMMA DispatchCorrect == Spec => []DispatchInv
<1>1. ASSUME Init PROVE DispatchInv
  <2>1. /\ \A m \in Msgs : mstate[m] = "absent"
        /\ \A j \in Jobs : pc[j] = "none" /\ ~Live(j)
        /\ listed = {}
    BY <1>1 DEF Init, Live
  <2>2. InlineIsSubmitter /\ HeldIsSent /\ HeldInFlight /\ HeldAlone
    BY <2>1 DEF InlineIsSubmitter, InlinePC, HeldIsSent, HeldInFlight, HeldAlone
  <2>3. Fresh /\ Unsent
    BY <2>1, JobFacts DEF Fresh, Unsent
  <2> QED
    BY <2>2, <2>3 DEF DispatchInv
<1>2. TypeOK /\ DispatchInv /\ [Next]_vars => DispatchInv'
  BY DispatchStep
<1> QED
  BY <1>1, <1>2, TypeCorrect, PTL DEF Spec

-----------------------------------------------------------------------------
(* While ack waits are met and nothing was replayed, a run has one job.    *)

\* No replay of hydrate has reached the stream.
NoReplay == \A m \in Msgs : m[2] # 0 => mstate[m] = "absent"

\* Nothing has made a second delivery of a run overlap the first.
Quiet == OnTime /\ NoReplay

\* Only one job of a run lives: the submitting task ends before its message is
\* sent, and the message has one holder.
LEMMA QuietAlone ==
    ASSUME TypeOK, DispatchInv, Quiet, NEW i \in Jobs, NEW j \in Jobs,
           Live(i), Live(j), Req(i) = Req(j)
    PROVE  i = j
<1>1. \A k \in Jobs : Live(k) /\ ~Inline(k) => MsgOf(k) = <<Req(k), 0>>
  <2> SUFFICES ASSUME NEW k \in Jobs, Live(k), ~Inline(k) PROVE MsgOf(k) = <<Req(k), 0>>
    OBVIOUS
  <2>1. MsgOf(k)[2] = 0
    BY JobFacts DEF DispatchInv, HeldIsSent, Quiet, NoReplay
  <2> QED
    BY <2>1 DEF MsgOf, Req
<1>2. CASE Inline(i) /\ Inline(j)
  BY <1>2 DEF DispatchInv, InlineIsSubmitter
<1>3. CASE ~Inline(i) /\ ~Inline(j)
  BY <1>1, <1>3 DEF DispatchInv, HeldAlone, Quiet
<1>4. ASSUME NEW k \in Jobs, NEW l \in Jobs, Live(k), Live(l), Inline(k), ~Inline(l),
             Req(k) = Req(l)
      PROVE  FALSE
  <2>1. mstate[<<Req(k), 0>>] = "absent"
    BY <1>4, JobFacts DEF DispatchInv, InlineIsSubmitter, Unsent
  <2>2. mstate[<<Req(k), 0>>] # "absent"
    BY <1>1, <1>4 DEF DispatchInv, HeldIsSent
  <2> QED
    BY <2>1, <2>2
<1> QED
  BY <1>2, <1>3, <1>4

\* A job that may still write its row finds the row open.
OpenInv == Quiet => \A j \in Jobs : Executes(j) => status[Req(j)] \notin Terminal

\* A message is never taken back from the stream, and a step commits at most
\* one fault.
LEMMA SentStays ==
    ASSUME TypeOK, [Next]_vars
    PROVE  Spends /\ \A m \in Msgs : mstate'[m] = "absent" => mstate[m] = "absent"
<1>1. CASE Still
  BY <1>1 DEF Still, msgVars
<1>2. ASSUME NEW j \in Jobs, Local(j) \/ Publish(j) \/ Ack(j)
      PROVE  Spends /\ \A m \in Msgs : mstate'[m] = "absent" => mstate[m] = "absent"
  <2>1. CASE Local(j)
    BY <2>1 DEF Local, msgVars
  <2>2. CASE Publish(j)
    BY <2>2, WriteLostSeen DEF Publish, WriteLost, Spends, TypeOK
  <2>3. CASE Ack(j)
    BY <2>3, WriteLostSeen DEF Ack, WriteLost, Spends, TypeOK
  <2> QED
    BY <1>2, <2>1, <2>2, <2>3
<1>3. ASSUME NEW r \in Runs, NEW p \in Pods, Submit(r, p)
      PROVE  UNCHANGED <<mstate, spent>>
  BY <1>3 DEF Submit, msgVars
<1>4. ASSUME NEW m \in Msgs, NEW p \in Pods, Deliver(m, p)
      PROVE  spent' = spent /\ mstate' = [mstate EXCEPT ![m] = "inflight"]
  BY <1>4 DEF Deliver
<1>5. ASSUME NEW m \in Msgs, AckWaitExpire(m) \/ AckWaitStall(m)
      PROVE  Spends /\ mstate' = [mstate EXCEPT ![m] = "pending"]
  BY <1>5 DEF AckWaitExpire, AckWaitStall, Spends, Faults
<1>6. ASSUME NEW p \in Pods, Drain(p) \/ WorkerStop(p) \/ Dies(p) \/ Reconnect(p) \/ HydrateLock(p)
      PROVE  Spends /\ mstate' = mstate
  BY <1>6 DEF Drain, WorkerStop, Dies, Die, Reconnect, HydrateLock, Spends, Faults, msgVars
<1>7. ASSUME NEW r \in Runs, HydratePublish(r)
      PROVE  spent' = spent /\ \A m \in Msgs : mstate'[m] = "absent" => mstate[m] = "absent"
  <2>1. spent' = spent
    BY <1>7 DEF HydratePublish
  <2>2. \/ mstate' = mstate
        \/ \E m \in Msgs : mstate' = [mstate EXCEPT ![m] = "pending"]
    <3>1. \A c \in 1..MaxReplay : <<r, c>> \in Msgs
      BY ReplayAssumption DEF Msgs
    <3> QED
      BY <1>7, <3>1, Zenon DEF HydratePublish
  <2> QED
    BY <2>1, <2>2 DEF TypeOK
<1>8. ASSUME HydrateList \/ HydrateEnd
      PROVE  Spends /\ mstate' = mstate
  BY <1>8 DEF HydrateList, HydrateEnd, WriteLost, Spends, Faults, msgVars
<1> QED
  BY <1>1, <1>2, <1>3, <1>4, <1>5, <1>6, <1>7, <1>8, StepKinds DEF Spends, TypeOK

\* A step that ends quietly started quietly.
LEMMA QuietBefore == ASSUME TypeOK, [Next]_vars, Quiet' PROVE Quiet
BY SentStays, OnTimeBefore DEF Quiet, NoReplay

\* The status of a row changes only by its submission and by the job of the
\* run that executes; other jobs start or stop without writing rows.
LEMMA RowSteps ==
    ASSUME TypeOK, [Next]_vars
    PROVE  \/ \E j \in Jobs : Local(j)
           \/ \E r \in Runs, p \in Pods : Submit(r, p)
           \/ /\ status' = status
              /\ \A j \in Jobs : Executes(j)' => Executes(j)
<1>1. CASE Still
  BY <1>1 DEF Still, Executes
<1>2. ASSUME NEW j \in Jobs, Publish(j) \/ Ack(j)
      PROVE  status' = status /\ \A i \in Jobs : Executes(i)' => Executes(i)
  BY <1>2 DEF Publish, Ack, Return, Goto, rowVars, Executes, TypeOK
<1>3. ASSUME NEW m \in Msgs, NEW p \in Pods, Deliver(m, p)
      PROVE  status' = status /\ \A i \in Jobs : Executes(i)' => Executes(i)
  <2> DEFINE k == JobOf(m, mcount[m] + 1)
  <2>1. ~Inline(k) /\ status' = status /\ pc' = [pc EXCEPT ![k] = "wait"]
    BY <1>3, DeliverAssumption DEF Deliver, JobOf, Inline, rowVars, TypeOK
  <2> QED
    BY <2>1 DEF Executes, TypeOK
<1>4. ASSUME NEW m \in Msgs, AckWaitExpire(m) \/ AckWaitStall(m)
      PROVE  UNCHANGED <<status, pc>>
  BY <1>4 DEF AckWaitExpire, AckWaitStall, rowVars, jobVars
<1>5. ASSUME NEW p \in Pods, Drain(p) \/ WorkerStop(p) \/ Reconnect(p) \/ HydrateLock(p)
      PROVE  UNCHANGED <<status, pc>>
  BY <1>5 DEF Drain, WorkerStop, Reconnect, HydrateLock, rowVars, jobVars
<1>6. ASSUME NEW p \in Pods, Dies(p)
      PROVE  status' = status /\ \A i \in Jobs : Executes(i)' => Executes(i)
  BY <1>6 DEF Dies, Die, rowVars, Executes, Live
<1>7. ASSUME NEW r \in Runs, HydratePublish(r) \/ HydrateList \/ HydrateEnd
      PROVE  UNCHANGED <<status, pc>>
  BY <1>7 DEF HydratePublish, HydrateList, HydrateEnd, rowVars, jobVars
<1>8. ASSUME HydrateList \/ HydrateEnd
      PROVE  UNCHANGED <<status, pc>>
  BY <1>8 DEF HydrateList, HydrateEnd, rowVars, jobVars
<1>9. UNCHANGED <<status, pc>> => status' = status /\ \A j \in Jobs : Executes(j)' => Executes(j)
  BY DEF Executes
<1> QED
  BY <1>1, <1>2, <1>3, <1>4, <1>5, <1>6, <1>7, <1>8, <1>9, StepKinds

\* Every step keeps OpenInv: the one job of a run is the one that closes it.
LEMMA OpenStep ==
    ASSUME TypeOK, DispatchInv, OpenInv, [Next]_vars PROVE OpenInv'
<1> SUFFICES ASSUME Quiet', NEW i \in Jobs, Executes(i)'
             PROVE  status'[Req(i)] \notin Terminal
  BY DEF OpenInv
<1>1. Quiet /\ \A j \in Jobs : Executes(j) => status[Req(j)] \notin Terminal
  BY QuietBefore DEF OpenInv
<1>2. ASSUME NEW j \in Jobs, Local(j) PROVE status'[Req(i)] \notin Terminal
  <2>1. CASE i = j
    BY <1>1, <1>2, <2>1 DEF Local
  <2>2. CASE i # j
    <3>1. Executes(i) /\ Live(i) /\ Live(j)
      BY <1>2, <2>2 DEF Local, Executes, Live
    <3>2. Req(i) # Req(j)
      BY <1>1, <2>2, <3>1, QuietAlone
    <3> QED
      BY <1>1, <1>2, <3>1, <3>2, JobFacts DEF Local
  <2> QED
    BY <2>1, <2>2
<1>3. ASSUME NEW r \in Runs, NEW p \in Pods, Submit(r, p) PROVE status'[Req(i)] \notin Terminal
  <2>1. CASE Req(i) = r
    BY <1>3, <2>1 DEF Submit, Terminal, TypeOK
  <2>2. CASE Req(i) # r
    <3>1. i # Submitter(r)
      BY <2>2 DEF Submitter, Req
    <3> QED
      BY <1>1, <1>3, <2>2, <3>1, JobFacts DEF Submit, Executes, TypeOK
  <2> QED
    BY <2>1, <2>2
<1> QED
  BY <1>1, <1>2, <1>3, RowSteps

\* A terminal row is not written again.
LEMMA FinalStep ==
    ASSUME TypeOK, OpenInv, Quiet, [Next]_vars
    PROVE  \A r \in Runs : status[r] \in Terminal => status'[r] = status[r]
<1> SUFFICES ASSUME NEW r \in Runs, status[r] \in Terminal PROVE status'[r] = status[r]
  OBVIOUS
<1>1. ASSUME NEW j \in Jobs, Local(j) PROVE status'[r] = status[r]
  BY <1>1 DEF Local, OpenInv
<1>2. ASSUME NEW q \in Runs, NEW p \in Pods, Submit(q, p) PROVE status'[r] = status[r]
  BY <1>2 DEF Submit, Terminal, TypeOK
<1> QED
  BY <1>1, <1>2, RowSteps

\* The faults that have happened are within their budgets.
Within == \A f \in Faults : spent[f] <= Budget[f]

\* Every step keeps the faults within their budgets.
LEMMA WithinStep == ASSUME TypeOK, Within, [Next]_vars PROVE Within'
BY SentStays, BudgetAssumption DEF Spends, Spend, Within, TypeOK

\* OpenInv holds in every reachable state.
LEMMA OpenCorrect == Spec => []OpenInv
<1>1. Init => OpenInv
  BY DEF Init, OpenInv, Executes
<1>2. TypeOK /\ DispatchInv /\ OpenInv /\ [Next]_vars => OpenInv'
  BY OpenStep
<1> QED
  BY <1>1, <1>2, TypeCorrect, DispatchCorrect, PTL DEF Spec

\* The faults of a behaviour are within their budgets.
LEMMA WithinCorrect == Spec => []Within
<1>1. Init => Within
  BY BudgetAssumption DEF Init, Within
<1>2. TypeOK /\ Within /\ [Next]_vars => Within'
  BY WithinStep
<1> QED
  BY <1>1, <1>2, TypeCorrect, PTL DEF Spec

\* As long as no ack wait has run out under a live job and no replay was sent,
\* process_prompt_job and the inline fallback never execute two turns of one run
\* at a time, whatever pods crash, drain, lose writes or reconnect.
THEOREM OneTurnWhileQuiet == Spec => [](Quiet => OneTurnAtATime)
<1>1. TypeOK /\ DispatchInv => (Quiet => OneTurnAtATime)
  BY QuietAlone DEF OneTurnAtATime, Live
<1> QED
  BY <1>1, TypeCorrect, DispatchCorrect, PTL

\* The same for a system whose heartbeats always arrive and which never replays.
THEOREM OneTurnCorrect ==
    ASSUME Budget["stall"] = 0, MaxReplay = 0
    PROVE  Spec => []OneTurnAtATime
<1>1. Within /\ TypeOK => Quiet
  BY DEF Within, TypeOK, Faults, Quiet, OnTime, NoReplay, Msgs
<1> QED
  BY <1>1, OneTurnWhileQuiet, TypeCorrect, WithinCorrect, PTL

\* Under the same condition no step of the code overwrites the row of a run that
\* is done, failed or cancelled, although prompt_run_status_set and
\* prompt_run_finish test nothing.
THEOREM FinalWhileQuiet ==
    Spec => [][Quiet => \A r \in Runs : status[r] \in Terminal => status'[r] = status[r]]_vars
<1>1. TypeOK /\ OpenInv /\ [Next]_vars
        => [Quiet => \A r \in Runs : status[r] \in Terminal => status'[r] = status[r]]_vars
  BY FinalStep
<1> QED
  BY <1>1, TypeCorrect, OpenCorrect, PTL DEF Spec

\* The same for a system whose heartbeats always arrive and which never replays.
THEOREM FinalCorrect ==
    ASSUME Budget["stall"] = 0, MaxReplay = 0
    PROVE  Spec => TerminalIsFinal
<1>1. Within /\ TypeOK => Quiet
  BY DEF Within, TypeOK, Faults, Quiet, OnTime, NoReplay, Msgs
<1>2. Quiet /\ TypeOK /\ OpenInv /\ [Next]_vars
        => [\A r \in Runs : status[r] \in Terminal => status'[r] = status[r]]_vars
  BY FinalStep
<1> QED
  BY <1>1, <1>2, OpenCorrect, TypeCorrect, WithinCorrect, PTL DEF Spec, TerminalIsFinal

-----------------------------------------------------------------------------
(* A run as its owner sees it: PromptRun implements RunSpec.               *)

\* What the mapping shows of a step in which no turn begins or ends.
LEMMA Unseen ==
    ASSUME TypeOK, Phase' = Phase, resv' = resv, Reports' = Reports, charged' = charged,
           \A j \in Jobs : pc'[j] = "turn" <=> pc[j] = "turn"
    PROVE  UNCHANGED Abstract!rvars
<1>1. Turns' = Turns
  BY DEF Turns
<1> QED
  BY <1>1 DEF Abstract!rvars

\* A live job belongs to an accepted run, and nobody else is in a turn of it.
LEMMA RunOfJob ==
    ASSUME TypeOK, DispatchInv, Quiet, NEW j \in Jobs, Live(j)
    PROVE  /\ Req(j) \in Runs /\ status[Req(j)] # "none"
           /\ [i \in Jobs |-> Req(i)][j] = Req(j)
           /\ pc[j] # "turn" => Abstract!Idle(Req(j))
<1>1. Req(j) \in Runs /\ status[Req(j)] # "none"
  BY JobFacts DEF DispatchInv, Fresh
<1>2. ASSUME pc[j] # "turn", NEW i \in Turns PROVE Req(i) # Req(j)
  BY <1>2, QuietAlone DEF Turns, Live
<1> QED
  BY <1>1, <1>2 DEF Abstract!Idle, Turns

\* The steps of a job that neither begin nor end a turn nor close its row.
LEMMA UnseenJobSteps ==
    ASSUME TypeOK, DispatchInv, OpenInv, Quiet, NEW j \in Jobs,
           \/ Publish(j) \/ PublishFail(j) \/ Acquire(j) \/ DropBuffered(j)
           \/ DeliveryInc(j) \/ LoadRow(j) \/ LeaseTouch(j) \/ StartRun(j)
           \/ JobError(j) \/ GateRefuse(j) \/ CancelWatch(j) \/ CheckpointSave(j)
           \/ HeartbeatFail(j) \/ DrainReturn(j) \/ Ack(j)
           \/ \E class \in {"clean", "fatal"} : Hop(j, class)
    PROVE  UNCHANGED Abstract!rvars
<1>1. UNCHANGED <<report, resv, charged>> /\ Reports' = Reports
  BY DEF Publish, PublishFail, Acquire, DropBuffered, DeliveryInc, LoadRow, LeaseTouch, StartRun,
    JobError, GateRefuse, CancelWatch, CheckpointSave, HeartbeatFail, DrainReturn, Ack, Hop,
    billVars, Reports
<1>2. \A i \in Jobs : pc'[i] = "turn" <=> pc[i] = "turn"
  BY DEF Publish, PublishFail, Acquire, DropBuffered, DeliveryInc, LoadRow, LeaseTouch, StartRun,
    JobError, GateRefuse, CancelWatch, CheckpointSave, HeartbeatFail, DrainReturn, Ack, Hop,
    Return, Goto, TypeOK
<1>3. CASE LeaseTouch(j) \/ StartRun(j)
  <2>1. status[Req(j)] \in {"queued", "running"}
    <3>1. status[Req(j)] \notin Terminal /\ status[Req(j)] # "none" /\ Req(j) \in Runs
      BY <1>3, RunOfJob DEF LeaseTouch, StartRun, OpenInv, Executes, Live
    <3> QED
      BY <3>1 DEF TypeOK, Status, Terminal
  <2>2. status' = status \/ status' = [status EXCEPT ![Req(j)] = "running"]
    BY <1>3, <2>1 DEF LeaseTouch, StartRun, StatusSet, rowVars, TypeOK
  <2>3. Phase' = Phase
    BY <2>1, <2>2 DEF Phase, TypeOK
  <2> QED
    BY <1>1, <1>2, <2>3, Unseen
<1>4. CASE ~(LeaseTouch(j) \/ StartRun(j))
  <2>1. status' = status
    BY <1>4 DEF Publish, PublishFail, Acquire, DropBuffered, DeliveryInc, LoadRow,
      JobError, GateRefuse, CancelWatch, CheckpointSave, HeartbeatFail, DrainReturn, Ack, Hop,
      rowVars
  <2>2. Phase' = Phase
    BY <2>1 DEF Phase
  <2> QED
    BY <1>1, <1>2, <2>2, Unseen
<1> QED
  BY <1>3, <1>4

\* A job that writes how its run ended.
LEMMA EndRefines ==
    ASSUME TypeOK, DispatchInv, OpenInv, Quiet, NEW j \in Jobs, Reject(j) \/ Finish(j)
    PROVE  Abstract!RNext \/ UNCHANGED Abstract!rvars
<1>1. /\ pc[j] \in {"reject", "finish"} /\ UNCHANGED <<report, resv, charged>>
      /\ \A i \in Jobs : pc'[i] = "turn" <=> pc[i] = "turn"
  BY DEF Reject, Finish, Return, Goto, billVars, TypeOK
<1>2. Reports' = Reports /\ Turns' = Turns
  BY <1>1 DEF Reports, Turns
<1>3. CASE status' = status
  BY <1>1, <1>2, <1>3, Unseen DEF Phase
<1>4. CASE status' # status
  <2>1. PICK how \in Terminal : status' = [status EXCEPT ![Req(j)] = how]
    <3>1. FinalStatus(j) \in Terminal /\ "failed" \in Terminal
      BY DEF FinalStatus, Terminal
    <3> QED
      BY <1>4, <3>1 DEF Reject, Finish, StatusSet, rowVars
  <2>2. Req(j) \in Runs /\ Abstract!Idle(Req(j)) /\ status[Req(j)] \in {"queued", "running"}
    <3>1. status[Req(j)] \notin Terminal
      BY <1>1 DEF OpenInv, Executes
    <3> QED
      BY <1>1, <3>1, RunOfJob DEF Live, TypeOK, Status, Terminal
  <2>3. Phase[Req(j)] = "open" /\ Phase' = [Phase EXCEPT ![Req(j)] = how]
    BY <2>1, <2>2 DEF Phase, Terminal, TypeOK
  <2>4. Abstract!End(Req(j), how)
    BY <1>1, <1>2, <2>2, <2>3 DEF Abstract!End
  <2>5. how \in Abstract!Ends
    BY <2>1 DEF Terminal, Abstract!Ends
  <2> QED
    BY <2>2, <2>4, <2>5 DEF Abstract!RNext
<1> QED
  BY <1>3, <1>4

\* A job that begins or ends its turn, or frees the hold of a rejected run.
LEMMA TurnRefines ==
    ASSUME TypeOK, DispatchInv, OpenInv, Quiet, NEW j \in Jobs,
           GateOk(j) \/ TurnOk(j) \/ TurnErr(j) \/ RejectRefund(j)
    PROVE  Abstract!RNext \/ UNCHANGED Abstract!rvars
<1>1. Phase' = Phase /\ charged' = charged
  BY DEF GateOk, TurnOk, TurnErr, RejectRefund, rowVars, Phase
<1>2. /\ Req(j) \in Runs /\ status[Req(j)] # "none"
      /\ [i \in Jobs |-> Req(i)][j] = Req(j)
      /\ pc[j] # "turn" => Abstract!Idle(Req(j))
  <2>1. Live(j)
    BY DEF GateOk, TurnOk, TurnErr, RejectRefund, Live
  <2> QED
    BY <2>1, RunOfJob
<1>3. CASE GateOk(j)
  <2>1. Phase[Req(j)] = "open"
    BY <1>2, <1>3 DEF GateOk, OpenInv, Executes, Phase, TypeOK, Status, Terminal
  <2>2. Turns' = Turns \cup {j} /\ Reports' = Reports
    BY <1>3 DEF GateOk, Goto, Turns, Reports, TypeOK
  <2>3. Abstract!Idle(Req(j)) /\ (Abstract!Moves(Req(j), "none", "held") \/ resv' = resv)
    BY <1>2, <1>3 DEF GateOk, Abstract!Moves
  <2>4. Abstract!Begin(j)
    BY <1>1, <1>2, <2>1, <2>2, <2>3 DEF Abstract!Begin
  <2> QED
    BY <2>4 DEF Abstract!RNext
<1>4. CASE TurnOk(j)
  <2>1. Turns' = Turns \ {j} /\ Reports' = Reports \cup {j} /\ j \in Turns /\ resv' = resv
    BY <1>4 DEF TurnOk, Goto, Turns, Reports, TypeOK
  <2>2. Abstract!Answer(j)
    BY <1>1, <2>1 DEF Abstract!Answer
  <2> QED
    BY <2>2 DEF Abstract!RNext
<1>5. CASE TurnErr(j)
  <2>1. Turns' = Turns \ {j} /\ Reports' = Reports /\ j \in Turns
    BY <1>5 DEF TurnErr, Goto, Turns, Reports, TypeOK
  <2>2. Abstract!Moves(Req(j), "held", "refunded") \/ resv' = resv
    BY <1>5 DEF TurnErr, Refund, Abstract!Moves
  <2>3. Abstract!GiveUp(j)
    BY <1>1, <1>2, <2>1, <2>2 DEF Abstract!GiveUp
  <2> QED
    BY <2>3 DEF Abstract!RNext
<1>6. CASE RejectRefund(j)
  <2>1. \A i \in Jobs : pc'[i] = "turn" <=> pc[i] = "turn"
    BY <1>6 DEF RejectRefund, Goto, TypeOK
  <2>2. Turns' = Turns /\ Reports' = Reports /\ Abstract!Idle(Req(j))
    BY <1>2, <1>6, <2>1 DEF RejectRefund, Turns, Reports
  <2>3. CASE resv' = resv
    BY <1>1, <2>1, <2>2, <2>3, Unseen
  <2>4. CASE Refund(Req(j))
    <3>1. Phase[Req(j)] # "none"
      BY <1>2 DEF Phase
    <3>2. Abstract!Release(Req(j))
      BY <1>1, <2>2, <2>4, <3>1 DEF Abstract!Release, Refund, Abstract!Moves
    <3> QED
      BY <1>2, <3>2 DEF Abstract!RNext
  <2> QED
    BY <1>6, <2>3, <2>4 DEF RejectRefund
<1> QED
  BY <1>3, <1>4, <1>5, <1>6

\* The usage report: the dedupe row lets one job of a run charge.
LEMMA ReportRefines ==
    ASSUME TypeOK, ChargeInv, NEW j \in Jobs, ReportStep(j)
    PROVE  Abstract!RNext \/ UNCHANGED Abstract!rvars
<1>1. Phase' = Phase /\ Turns' = Turns /\ j \in Reports
  BY DEF ReportStep, ReportDedupe, ReportNothing, ReportDeduct, ReportFreemium, ReportSettle,
    rowVars, jobVars, Phase, Turns, Reports
<1>2. Req(j) \in Runs /\ [i \in Jobs |-> Req(i)][j] = Req(j)
  BY JobFacts
<1>3. CASE ReportDedupe(j) \/ ReportNothing(j)
  <2>1. resv' = resv /\ charged' = charged /\ (Reports' = Reports \/ Reports' = Reports \ {j})
    BY <1>3 DEF ReportDedupe, ReportNothing, Reports, TypeOK
  <2>2. CASE Reports' = Reports
    BY <1>1, <2>1, <2>2 DEF Abstract!rvars
  <2>3. CASE Reports' = Reports \ {j}
    <3>1. Abstract!Waive(j)
      BY <1>1, <2>1, <2>3 DEF Abstract!Waive
    <3> QED
      BY <3>1 DEF Abstract!RNext
  <2> QED
    BY <2>1, <2>2, <2>3
<1>4. CASE ReportDeduct(j)
  <2>1. resv' = resv /\ charged' = charged \cup {j} /\ Reports' = Reports
    BY <1>4 DEF ReportDeduct, Reports, TypeOK
  <2>2. CASE j \in charged
    <3>1. charged' = charged
      BY <2>1, <2>2
    <3> QED
      BY <1>1, <2>1, <3>1 DEF Abstract!rvars
  <2>3. CASE j \notin charged
    <3>1. \A i \in charged : Req(i) # Req(j)
      BY <1>4, <2>3 DEF ReportDeduct, ChargeInv, ClaimIsUnique, Claim, TypeOK
    <3>2. \A i \in charged : [k \in Jobs |-> Req(k)][i] # [k \in Jobs |-> Req(k)][j]
      BY <1>2, <3>1 DEF TypeOK
    <3>3. Abstract!Charge(j)
      BY <1>1, <2>1, <3>2 DEF Abstract!Charge
    <3> QED
      BY <3>3 DEF Abstract!RNext
  <2> QED
    BY <2>2, <2>3
<1>5. CASE ReportFreemium(j)
  <2>1. Reports' = Reports \ {j} /\ charged' = charged /\ Abstract!Moves(Req(j), "held", "refunded")
    BY <1>5 DEF ReportFreemium, Refund, Reports, Abstract!Moves, TypeOK
  <2>2. Abstract!Waive(j)
    BY <1>1, <1>2, <2>1 DEF Abstract!Waive
  <2> QED
    BY <2>2 DEF Abstract!RNext
<1>6. CASE ReportSettle(j)
  <2>1. /\ Reports' = Reports \ {j} /\ charged' = charged /\ j \in charged
        /\ Abstract!Moves(Req(j), "held", "settled")
    BY <1>6 DEF ReportSettle, Reports, Abstract!Moves, ChargeInv, SettlerHasPaid, TypeOK
  <2>2. Abstract!Settle(j)
    BY <1>1, <1>2, <2>1 DEF Abstract!Settle
  <2> QED
    BY <2>2 DEF Abstract!RNext
<1> QED
  BY <1>3, <1>4, <1>5, <1>6 DEF ReportStep

\* A submission and a delivery start a job that was not at work.
LEMMA ArrivalRefines ==
    ASSUME TypeOK, DispatchInv, Quiet,
           \/ \E r \in Runs, p \in Pods : Submit(r, p)
           \/ \E m \in Msgs, p \in Pods : Deliver(m, p)
    PROVE  Abstract!RNext \/ UNCHANGED Abstract!rvars
<1>1. ASSUME NEW r \in Runs, NEW p \in Pods, Submit(r, p) PROVE Abstract!Accept(r)
  <2>1. ~Live(Submitter(r)) /\ Submitter(r) \in Jobs /\ Req(Submitter(r)) = r
    BY <1>1, JobFacts DEF Submit, DispatchInv, Fresh, Submitter, Req
  <2>2. \A i \in Jobs : pc'[i] = "turn" <=> pc[i] = "turn"
    BY <1>1, <2>1 DEF Submit, Live, TypeOK
  <2>3. Turns' = Turns /\ Reports' = Reports /\ resv' = resv /\ charged' = charged
    BY <1>1, <2>2 DEF Submit, billVars, Turns, Reports
  <2>4. Phase[r] = "none" /\ Phase' = [Phase EXCEPT ![r] = "open"]
    BY <1>1 DEF Submit, Phase, TypeOK
  <2> QED
    BY <2>3, <2>4 DEF Abstract!Accept
<1>2. ASSUME NEW m \in Msgs, NEW p \in Pods, Deliver(m, p) PROVE UNCHANGED Abstract!rvars
  <2> DEFINE k == JobOf(m, mcount[m] + 1)
  <2>1. k \in Jobs /\ ~Inline(k) /\ MsgOf(k) = m
    <3>1. mcount[m] + 1 \in 0..MaxDeliver /\ mcount[m] + 1 # 0
      BY <1>2, DeliverAssumption DEF Deliver, TypeOK
    <3> QED
      BY <3>1, JobFacts DEF JobOf, Inline, MsgOf, Msgs
  <2>2. ~Live(k)
    BY <1>2, <2>1 DEF Deliver, DispatchInv, Quiet, HeldInFlight
  <2>3. pc' = [pc EXCEPT ![k] = "wait"] /\ UNCHANGED <<status, report, resv, charged>>
    BY <1>2 DEF Deliver, rowVars, billVars
  <2> HIDE DEF k
  <2>4. \A i \in Jobs : pc'[i] = "turn" <=> pc[i] = "turn"
    BY <2>1, <2>2, <2>3 DEF Live, TypeOK
  <2>5. Phase' = Phase /\ Reports' = Reports
    BY <2>3 DEF Phase, Reports
  <2> QED
    BY <2>3, <2>4, <2>5, Unseen
<1> QED
  BY <1>1, <1>2 DEF Abstract!RNext

\* Pods, aborts, ack waits and hydrate: the owner sees at most that an
\* execution is lost.
LEMMA PodRefines ==
    ASSUME TypeOK,
           \/ \E r \in Runs : AbortFlight(r) \/ Abort(r) \/ HydratePublish(r)
           \/ \E m \in Msgs : AckWaitExpire(m) \/ AckWaitStall(m)
           \/ \E p \in Pods : \/ Drain(p) \/ WorkerStop(p) \/ Crash(p) \/ Exit(p)
                              \/ Reconnect(p) \/ HydrateLock(p)
           \/ HydrateList
           \/ HydrateEnd
           \/ UNCHANGED vars
    PROVE  Abstract!RNext \/ UNCHANGED Abstract!rvars
<1>1. ASSUME NEW p \in Pods, Crash(p) \/ Exit(p) PROVE Abstract!Lose
  <2>1. Die(p)
    BY <1>1 DEF Crash, Exit
  <2>2. Turns' \subseteq Turns /\ Reports' \subseteq Reports
    BY <2>1 DEF Die, Turns, Reports, Live
  <2>3. Phase' = Phase /\ resv' = resv /\ charged' = charged
    BY <2>1 DEF Die, rowVars, Phase
  <2> QED
    BY <2>2, <2>3 DEF Abstract!Lose
<1>2. ASSUME UNCHANGED <<status, pc, report, resv, charged>> PROVE UNCHANGED Abstract!rvars
  BY <1>2 DEF Abstract!rvars, Phase, Turns, Reports
<1>3. ASSUME NEW r \in Runs, AbortFlight(r) \/ Abort(r) \/ HydratePublish(r)
      PROVE  UNCHANGED <<status, pc, report, resv, charged>>
  BY <1>3 DEF AbortFlight, Abort, HydratePublish, rowVars, jobVars, billVars
<1>4. ASSUME NEW m \in Msgs, AckWaitExpire(m) \/ AckWaitStall(m)
      PROVE  UNCHANGED <<status, pc, report, resv, charged>>
  BY <1>4 DEF AckWaitExpire, AckWaitStall, rowVars, jobVars, billVars
<1>5. ASSUME NEW p \in Pods, Drain(p) \/ WorkerStop(p) \/ Reconnect(p) \/ HydrateLock(p)
      PROVE  UNCHANGED <<status, pc, report, resv, charged>>
  BY <1>5 DEF Drain, WorkerStop, Reconnect, HydrateLock, rowVars, jobVars, billVars
<1>6. ASSUME HydrateList \/ HydrateEnd \/ UNCHANGED vars
      PROVE  UNCHANGED <<status, pc, report, resv, charged>>
  BY <1>6 DEF HydrateList, HydrateEnd, vars, rowVars, jobVars, billVars
<1> QED
  BY <1>1, <1>2, <1>3, <1>4, <1>5, <1>6 DEF Abstract!RNext

\* Every step taken while the dispatch is quiet is a step of RunSpec or none.
LEMMA StepRefines ==
    ASSUME TypeOK, ChargeInv, DispatchInv, OpenInv, Quiet, [Next]_vars
    PROVE  Abstract!RNext \/ UNCHANGED Abstract!rvars
BY UnseenJobSteps, EndRefines, TurnRefines, ReportRefines, ArrivalRefines, PodRefines
DEF Next, JobStep

\* The initial states agree.
LEMMA InitRefines == Init => Abstract!RInit
BY DEF Init, Abstract!RInit, Phase, Turns, Reports

\* As long as no ack wait has run out under a live job and no replay was sent,
\* whatever pods crash, drain, stop, reconnect or lose writes, every step is one
\* that RunSpec allows: turns of open runs only, one at a time, one end, one
\* charge by a job that has answered, no hold kept without it.
THEOREM RefinesWhileQuiet ==
    Spec => /\ Abstract!RInit
            /\ [][Quiet => Abstract!RNext \/ UNCHANGED Abstract!rvars]_vars
<1>1. TypeOK /\ ChargeInv /\ DispatchInv /\ OpenInv /\ [Next]_vars
        => [Quiet => Abstract!RNext \/ UNCHANGED Abstract!rvars]_vars
  BY StepRefines
<1> QED
  BY <1>1, InitRefines, TypeCorrect, ChargeInvCorrect, DispatchCorrect, OpenCorrect, PTL DEF Spec

\* PromptRun implements RunSpec for any runs, pods, permits, crashes and lost
\* writes when heartbeats arrive and nothing is replayed.
THEOREM RunRefines ==
    ASSUME Budget["stall"] = 0, MaxReplay = 0
    PROVE  Spec => ImplementsRun
<1>1. Within /\ TypeOK => Quiet
  BY DEF Within, TypeOK, Faults, Quiet, OnTime, NoReplay, Msgs
<1>2. TypeOK /\ ChargeInv /\ DispatchInv /\ OpenInv /\ Quiet /\ [Next]_vars
        => [Abstract!RNext]_(Abstract!rvars)
  BY StepRefines
<1> QED
  BY <1>1, <1>2, InitRefines, TypeCorrect, WithinCorrect, ChargeInvCorrect, DispatchCorrect,
    OpenCorrect, PTL DEF Spec, ImplementsRun, Abstract!RSpec

-----------------------------------------------------------------------------
(* Crash recovery: as long as no write is lost and no ack wait runs out,   *)
(* only an outage of a pod costs a delivery.                               *)

\* No write was lost and no ack wait ran out.
Calm == OnTime /\ spent["write"] = 0
\* Pods that crashed, drained or lost their worker loop.
Outages == spent["crash"] + spent["stop"]

\* The stream still has the message.
OpenMsg(m) == mstate[m] \in {"pending", "inflight"}

\* A job holds the message on a pod that still works.
Healthy(m) == \E j \in Holders(m) : pod[j] \notin drain \cup stopped

\* Deliveries are used up by outages only: one delivery may be under way, the
\* others ended with their pod.
CountInv ==
    Calm => \A m \in Msgs : /\ mcount[m] <= Outages + 1
                            /\ OpenMsg(m) /\ ~Healthy(m) => mcount[m] <= Outages
                            /\ mstate[m] = "absent" => mcount[m] = 0

\* The submitting task always manages to publish, so no turn runs inline.
InlineInv == Calm => \A j \in Jobs : Inline(j) => pc[j] \in {"none", "publish", "gone"}

\* A job heads for its ack, and a message is acked, only for a run that began.
Begun(r) == status[r] \notin {"none", "queued"}
BegunInv ==
    Calm => /\ \A j \in Jobs : pc[j] \in {"refund", "ack"} => Begun(Req(j))
            /\ \A m \in Msgs : mstate[m] = "acked" => Begun(m[1])

\* A message of the run is in the stream and no job is about to ack it.
Tended(r) ==
    \E m \in Msgs : /\ m[1] = r /\ OpenMsg(m)
                    /\ \A j \in Jobs : MsgOf(j) = m /\ ~Inline(j) => pc[j] \notin {"refund", "ack"}

\* A running run has a message in the stream that somebody will act on.
RunInv == Calm => \A r \in Runs : status[r] = "running" => Tended(r)

\* A queued run is being published, in the stream, or seen by a hydrate that
\* is due or at work.
Hydrates(r) == (lock = "free" /\ boot # {}) \/ lock = "taken" \/ r \in listed
\* Nobody loses a queued run.
QueueInv ==
    Calm => \A r \in Runs : status[r] = "queued" =>
              pc[Submitter(r)] = "publish" \/ Tended(r) \/ Hydrates(r)

\* A calm state follows a calm state, and outages are only added.
LEMMA CalmBefore ==
    ASSUME TypeOK, Spends, Calm'
    PROVE  Calm /\ Outages <= Outages' /\ Outages \in Nat /\ Outages' \in Nat
<1>1. \A f \in Faults : spent[f] <= spent'[f] /\ spent[f] \in Nat /\ spent'[f] \in Nat
  BY DEF TypeOK, Spends, Spend
<1> QED
  BY <1>1 DEF Calm, OnTime, Outages, Faults

\* What crash recovery rests on, for any number of pods.
RecoverInv == CountInv /\ InlineInv /\ BegunInv /\ RunInv

\* While nothing is delivered, acked or taken by an outage, the count of
\* deliveries is kept if every working holder keeps its message.
LEMMA CountKept ==
    ASSUME TypeOK, CountInv, Spends, mcount' = mcount,
           \A m \in Msgs : mstate'[m] = "absent" => mstate[m] = "absent",
           \A m \in Msgs : OpenMsg(m)' => OpenMsg(m) \/ mstate[m] = "absent",
           \A j \in Jobs : ~Inline(j) /\ Live(j) /\ pod[j] \notin drain \cup stopped /\ OpenMsg(MsgOf(j))'
              => Outages' > Outages \/ (Live(j)' /\ pod'[j] \notin drain' \cup stopped')
    PROVE  CountInv'
<1> SUFFICES ASSUME Calm', NEW m \in Msgs
             PROVE  /\ mcount'[m] <= Outages' + 1
                    /\ OpenMsg(m)' /\ ~Healthy(m)' => mcount'[m] <= Outages'
                    /\ mstate'[m] = "absent" => mcount'[m] = 0
  BY DEF CountInv
<1>1. Calm /\ Outages <= Outages' /\ Outages \in Nat /\ Outages' \in Nat /\ mcount[m] \in Nat
  BY CalmBefore, DeliverAssumption DEF TypeOK
<1>2. /\ mcount[m] <= Outages + 1
      /\ OpenMsg(m) /\ ~Healthy(m) => mcount[m] <= Outages
      /\ mstate[m] = "absent" => mcount[m] = 0
  BY <1>1 DEF CountInv
<1>3. OpenMsg(m)' /\ ~Healthy(m)' /\ Healthy(m) => Outages' > Outages
  <2> SUFFICES ASSUME OpenMsg(m)', ~Healthy(m)', Healthy(m), ~(Outages' > Outages) PROVE FALSE
    OBVIOUS
  <2>1. PICK j \in Holders(m) : pod[j] \notin drain \cup stopped
    BY DEF Healthy
  <2>2. j \in Jobs /\ MsgOf(j) = m /\ ~Inline(j) /\ Live(j)
    BY <2>1 DEF Holders
  <2>3. Live(j)' /\ pod'[j] \notin drain' \cup stopped'
    BY <2>1, <2>2
  <2>4. j \in Holders(m)'
    BY <2>2, <2>3 DEF Holders
  <2> QED
    BY <2>3, <2>4 DEF Healthy
<1> QED
  BY <1>1, <1>2, <1>3

\* Steps that touch only pods and faults.
LEMMA RecoverPods ==
    ASSUME TypeOK, RecoverInv, Spends, UNCHANGED <<status, mstate, mcount>>,
           \A j \in Jobs : pc'[j] = pc[j] \/ pc'[j] = "gone",
           \A j \in Jobs : ~Inline(j) /\ Live(j) /\ pod[j] \notin drain \cup stopped
              => Outages' > Outages \/ (Live(j)' /\ pod'[j] \notin drain' \cup stopped')
    PROVE  RecoverInv'
<1>1. CountInv'
  BY CountKept DEF RecoverInv, OpenMsg
<1> SUFFICES ASSUME Calm' PROVE InlineInv' /\ BegunInv' /\ RunInv'
  BY <1>1 DEF RecoverInv, InlineInv, BegunInv, RunInv
<1>2. Calm
  BY CalmBefore
<1>3. InlineInv' /\ BegunInv'
  BY <1>2 DEF RecoverInv, InlineInv, BegunInv, Begun
<1>4. RunInv'
  <2>1. \A r \in Runs : Tended(r) => Tended(r)'
    BY DEF Tended, OpenMsg
  <2> QED
    BY <1>2, <2>1 DEF RecoverInv, RunInv
<1> QED
  BY <1>3, <1>4

\* A job of a worker moves between two messages.
LEMMA RecoverLocal ==
    ASSUME TypeOK, DispatchInv, RecoverInv, NEW j \in Jobs, Local(j)
    PROVE  RecoverInv'
<1> SUFFICES ASSUME Calm' PROVE RecoverInv'
  BY DEF RecoverInv, CountInv, InlineInv, BegunInv, RunInv
<1>1. /\ Calm /\ spent'["write"] = 0
      /\ UNCHANGED <<mstate, mcount, pod, drain, stopped>> /\ Spends
  BY CalmBefore DEF Local, msgVars, podVars, Calm
<1>2. ~Inline(j) /\ Live(j)
  BY <1>1 DEF Local, RecoverInv, InlineInv, Live
<1>3. CountInv'
  <2>1. \A i \in Jobs : ~Inline(i) /\ Live(i) /\ pod[i] \notin drain \cup stopped => Live(i)'
    BY <1>1, <1>2 DEF Local, Live
  <2> QED
    BY <1>1, <2>1, CountKept DEF RecoverInv, OpenMsg
<1>4. InlineInv'
  BY <1>1, <1>2 DEF Local, RecoverInv, InlineInv
<1>5. \A r \in Runs : Begun(r) => Begun(r)'
  BY DEF Local, Begun, Terminal
<1>6. BegunInv'
  <2>1. pc'[j] \in {"refund", "ack"} => Begun(Req(j))'
    BY <1>1, <1>5, JobFacts DEF Local, RecoverInv, BegunInv, Begun, Terminal
  <2>2. \A i \in Jobs : pc'[i] \in {"refund", "ack"} => Begun(Req(i))'
    BY <1>1, <1>5, <2>1, JobFacts DEF Local, RecoverInv, BegunInv
  <2>3. \A m \in Msgs : m[1] \in Runs
    BY DEF Msgs
  <2> QED
    BY <1>1, <1>5, <2>2, <2>3 DEF RecoverInv, BegunInv
<1>7. \A r \in Runs : status'[r] \notin Terminal /\ Tended(r) => Tended(r)'
  <2> SUFFICES ASSUME NEW r \in Runs, status'[r] \notin Terminal, Tended(r) PROVE Tended(r)'
    OBVIOUS
  <2>1. PICK m \in Msgs :
          /\ m[1] = r /\ OpenMsg(m)
          /\ \A i \in Jobs : MsgOf(i) = m /\ ~Inline(i) => pc[i] \notin {"refund", "ack"}
    BY DEF Tended
  <2>2. MsgOf(j) = m => Req(j) = r
    BY <2>1 DEF MsgOf, Req
  <2>3. MsgOf(j) = m => pc'[j] \notin {"refund", "ack"}
    BY <1>1, <1>2, <2>1, <2>2 DEF Local
  <2>4. \A i \in Jobs : MsgOf(i) = m /\ ~Inline(i) => pc'[i] \notin {"refund", "ack"}
    BY <2>1, <2>3 DEF Local
  <2> QED
    BY <1>1, <2>1, <2>4 DEF Tended, OpenMsg
<1>8. RunInv'
  <2> SUFFICES ASSUME NEW r \in Runs, status'[r] = "running" PROVE Tended(r)'
    BY DEF RunInv
  <2>1. CASE status[r] = "running"
    BY <1>1, <1>7, <2>1 DEF RecoverInv, RunInv, Terminal
  <2>2. CASE status[r] # "running"
    <3>1. r = Req(j) /\ pc'[j] \in {"start", "gate"}
      BY <2>2 DEF Local
    <3>2. MsgOf(j) \in Msgs /\ MsgOf(j)[1] = r /\ OpenMsg(MsgOf(j))'
      BY <1>1, <1>2, <3>1, JobFacts DEF DispatchInv, HeldInFlight, Calm, OpenMsg, MsgOf, Req
    <3>3. \A i \in Jobs : MsgOf(i) = MsgOf(j) /\ ~Inline(i) => pc'[i] \notin {"refund", "ack"}
      BY <1>1, <1>2, <3>1 DEF Local, DispatchInv, HeldAlone, Calm, Live
    <3> QED
      BY <3>2, <3>3 DEF Tended
  <2> QED
    BY <2>1, <2>2
<1> QED
  BY <1>3, <1>4, <1>6, <1>8 DEF RecoverInv

\* A message reaches the stream: the original publish or a replay.
LEMMA RecoverSent ==
    ASSUME TypeOK, DispatchInv, RecoverInv, Spends,
           UNCHANGED <<status, mcount, pod, drain, stopped>>,
           \A m \in Msgs : mstate'[m] = mstate[m]
                           \/ (mstate[m] = "absent" /\ mstate'[m] = "pending"),
           \A j \in Jobs : pc'[j] = pc[j] \/ (Inline(j) /\ pc'[j] = "gone")
    PROVE  RecoverInv'
<1> SUFFICES ASSUME Calm' PROVE RecoverInv'
  BY DEF RecoverInv, CountInv, InlineInv, BegunInv, RunInv
<1>1. Calm
  BY CalmBefore
<1>2. CountInv'
  BY CountKept DEF RecoverInv, OpenMsg, Live
<1>3. InlineInv' /\ BegunInv'
  BY <1>1 DEF RecoverInv, InlineInv, BegunInv, Begun
<1>4. RunInv'
  <2>1. \A r \in Runs : Tended(r) => Tended(r)'
    BY DEF Tended, OpenMsg
  <2> QED
    BY <1>1, <2>1 DEF RecoverInv, RunInv
<1> QED
  BY <1>2, <1>3, <1>4 DEF RecoverInv

\* A job acks its message.
LEMMA RecoverAck ==
    ASSUME TypeOK, DispatchInv, RecoverInv, NEW j \in Jobs, Ack(j), Calm'
    PROVE  /\ RecoverInv' /\ status' = status
           /\ \A r \in Runs : Tended(r) => Tended(r)'
           /\ \A i \in Jobs : Inline(i) => pc'[i] = pc[i]
<1>1. Spends /\ Calm /\ spent'["write"] = 0
  BY CalmBefore, WriteLostSeen DEF Ack, WriteLost, Spends, Calm
<1>2. /\ pc[j] = "ack" /\ Live(j) /\ ~Inline(j) /\ MsgOf(j) \in Msgs
  BY JobFacts DEF Ack, Live, DispatchInv, InlineIsSubmitter, InlinePC
<1>3. /\ UNCHANGED <<status, mcount, pod, drain, stopped>>
      /\ mstate' = [mstate EXCEPT ![MsgOf(j)] = "acked"]
      /\ pc' = [pc EXCEPT ![j] = "gone"]
  BY <1>1, WriteLostSeen DEF Ack, WriteLost, Return, Goto, rowVars, podVars
<1>4. CountInv'
  <2>1. \A m \in Msgs : m # MsgOf(j) => mstate'[m] = mstate[m]
    BY <1>3 DEF TypeOK
  <2>2. mstate'[MsgOf(j)] = "acked"
    BY <1>2, <1>3 DEF TypeOK
  <2>3. \A i \in Jobs : MsgOf(i) # MsgOf(j) => pc'[i] = pc[i]
    BY <1>3 DEF TypeOK
  <2> QED
    BY <1>1, <1>3, <2>1, <2>2, <2>3, CountKept, JobFacts DEF RecoverInv, OpenMsg, Live
<1>5. InlineInv' /\ BegunInv'
  <2>1. Begun(Req(j)) /\ MsgOf(j)[1] = Req(j)
    BY <1>1, <1>2 DEF RecoverInv, BegunInv, MsgOf, Req
  <2> QED
    BY <1>1, <1>2, <1>3, <2>1 DEF RecoverInv, InlineInv, BegunInv, Begun, TypeOK
<1>6. \A r \in Runs : Tended(r) => Tended(r)'
  BY <1>2, <1>3 DEF Tended, OpenMsg, TypeOK
<1>7. RunInv'
  BY <1>1, <1>3, <1>6 DEF RecoverInv, RunInv
<1>8. \A i \in Jobs : Inline(i) => pc'[i] = pc[i]
  BY <1>2, <1>3 DEF TypeOK
<1> QED
  BY <1>3, <1>4, <1>5, <1>6, <1>7, <1>8 DEF RecoverInv

\* A run is submitted: its task waits to publish.
LEMMA RecoverSubmit ==
    ASSUME TypeOK, DispatchInv, RecoverInv, NEW q \in Runs, NEW p \in Pods, Submit(q, p)
    PROVE  /\ RecoverInv'
           /\ \A r \in Runs : Tended(r) => Tended(r)'
<1> DEFINE k == Submitter(q)
<1>1. k \in Jobs /\ Inline(k) /\ Req(k) = q
  BY JobFacts DEF Inline, Submitter, Req
<1>2. /\ status[q] = "none" /\ UNCHANGED <<mstate, mcount, drain, stopped, spent>>
      /\ status' = [status EXCEPT ![q] = "queued"]
      /\ pc' = [pc EXCEPT ![k] = "publish"]
      /\ \A j \in Jobs : j # k => pod'[j] = pod[j]
  BY DEF Submit, msgVars, podVars, TypeOK
<1>3. \A r \in Runs : Tended(r) => Tended(r)'
  BY <1>1, <1>2 DEF Tended, OpenMsg, TypeOK
<1> SUFFICES ASSUME Calm' PROVE RecoverInv'
  BY <1>3 DEF RecoverInv, CountInv, InlineInv, BegunInv, RunInv
<1>4. Calm /\ Spends
  BY <1>2 DEF Calm, OnTime, Spends
<1>5. CountInv'
  <2>1. \A j \in Jobs : ~Inline(j) => pc'[j] = pc[j] /\ pod'[j] = pod[j]
    BY <1>1, <1>2 DEF TypeOK
  <2> QED
    BY <1>2, <1>4, <2>1, CountKept DEF RecoverInv, OpenMsg, Live
<1>6. InlineInv'
  BY <1>1, <1>2, <1>4 DEF RecoverInv, InlineInv, TypeOK
<1>7. BegunInv'
  <2>1. \A j \in Jobs : pc'[j] \in {"refund", "ack"} => pc[j] \in {"refund", "ack"} /\ Req(j) # q
    BY <1>1, <1>2 DEF DispatchInv, Fresh, Live, TypeOK
  <2>2. \A m \in Msgs : mstate[m] = "acked" => m[1] # q
    BY <1>2 DEF DispatchInv, Fresh
  <2> QED
    BY <1>2, <1>4, <2>1, <2>2 DEF RecoverInv, BegunInv, Begun, TypeOK
<1>8. RunInv'
  BY <1>2, <1>3, <1>4 DEF RecoverInv, RunInv, TypeOK
<1> QED
  BY <1>5, <1>6, <1>7, <1>8 DEF RecoverInv

\* A message without a holder is delivered to a working pod.
LEMMA RecoverDeliver ==
    ASSUME TypeOK, DispatchInv, RecoverInv, NEW m \in Msgs, NEW p \in Pods, Deliver(m, p)
    PROVE  /\ RecoverInv' /\ status' = status
           /\ \A r \in Runs : Tended(r) => Tended(r)'
           /\ \A i \in Jobs : Inline(i) => pc'[i] = pc[i]
<1> DEFINE k == JobOf(m, mcount[m] + 1)
<1>1. k \in Jobs /\ ~Inline(k) /\ MsgOf(k) = m
  <2>1. mcount[m] + 1 \in 0..MaxDeliver /\ mcount[m] + 1 # 0
    BY DeliverAssumption DEF Deliver, TypeOK
  <2> QED
    BY <2>1, JobFacts DEF JobOf, Inline, MsgOf, Msgs
<1>2. /\ UNCHANGED <<status, drain, stopped, spent>> /\ mstate[m] = "pending"
      /\ p \notin drain \cup stopped
      /\ mstate' = [mstate EXCEPT ![m] = "inflight"]
      /\ mcount' = [mcount EXCEPT ![m] = @ + 1]
      /\ pc' = [pc EXCEPT ![k] = "wait"]
      /\ pod' = [pod EXCEPT ![k] = p]
  BY DEF Deliver, rowVars, podVars
<1>3. \A r \in Runs : Tended(r) => Tended(r)'
  BY <1>1, <1>2 DEF Tended, OpenMsg, TypeOK
<1>4. \A i \in Jobs : Inline(i) => pc'[i] = pc[i]
  BY <1>1, <1>2 DEF TypeOK
<1> SUFFICES ASSUME Calm' PROVE RecoverInv'
  BY <1>2, <1>3, <1>4 DEF RecoverInv, CountInv, InlineInv, BegunInv, RunInv
<1>5. Calm /\ Spends /\ Outages' = Outages /\ Outages \in Nat
  BY <1>2, CalmBefore DEF Calm, OnTime, Spends, Outages
<1>6. CountInv'
  <2> SUFFICES ASSUME NEW n \in Msgs
               PROVE  /\ mcount'[n] <= Outages + 1
                      /\ OpenMsg(n)' /\ ~Healthy(n)' => mcount'[n] <= Outages
                      /\ mstate'[n] = "absent" => mcount'[n] = 0
    BY <1>5 DEF CountInv
  <2>1. CASE n = m
    <3>1. k \in Holders(m)' /\ pod'[k] \notin drain' \cup stopped'
      BY <1>1, <1>2 DEF Holders, Live, TypeOK
    <3>2. ~Healthy(m)
      BY <1>2, <1>5 DEF Healthy, Holders, DispatchInv, HeldInFlight, Calm
    <3>3. mcount[m] <= Outages /\ mcount[m] \in Nat
      BY <1>2, <1>5, <3>2, DeliverAssumption DEF RecoverInv, CountInv, OpenMsg, TypeOK
    <3>4. mcount'[m] = mcount[m] + 1 /\ mstate'[m] = "inflight"
      BY <1>2 DEF TypeOK
    <3> QED
      BY <1>5, <2>1, <3>1, <3>3, <3>4 DEF Healthy
  <2>2. CASE n # m
    <3>1. mcount'[n] = mcount[n] /\ mstate'[n] = mstate[n]
      BY <1>2, <2>2 DEF TypeOK
    <3>2. ASSUME Healthy(n) PROVE Healthy(n)'
      <4>1. PICK j \in Holders(n) : pod[j] \notin drain \cup stopped
        BY <3>2 DEF Healthy
      <4>2. j \in Jobs /\ j # k /\ j \in Holders(n)'
        BY <1>1, <1>2, <2>2, <4>1 DEF Holders, Live, TypeOK
      <4> QED
        BY <1>2, <4>1, <4>2 DEF Healthy, TypeOK
    <3> QED
      BY <1>5, <3>1, <3>2 DEF RecoverInv, CountInv, OpenMsg
  <2> QED
    BY <2>1, <2>2
<1>7. InlineInv' /\ BegunInv'
  BY <1>1, <1>2, <1>4, <1>5 DEF RecoverInv, InlineInv, BegunInv, Begun, TypeOK
<1>8. RunInv'
  BY <1>2, <1>3, <1>5 DEF RecoverInv, RunInv
<1> QED
  BY <1>6, <1>7, <1>8 DEF RecoverInv

\* An ack wait runs out after the last holder is gone.
LEMMA RecoverExpire ==
    ASSUME TypeOK, RecoverInv, NEW m \in Msgs, AckWaitExpire(m)
    PROVE  /\ RecoverInv' /\ UNCHANGED <<status, pc>>
           /\ \A r \in Runs : Tended(r) => Tended(r)'
<1>1. /\ UNCHANGED <<status, mcount, pc, pod, drain, stopped, spent>>
      /\ mstate[m] = "inflight" /\ mstate' = [mstate EXCEPT ![m] = "pending"]
  BY DEF AckWaitExpire, rowVars, jobVars, podVars
<1>2. \A n \in Msgs : (OpenMsg(n)' <=> OpenMsg(n)) /\ (mstate'[n] = "absent" <=> mstate[n] = "absent")
                      /\ (mstate'[n] = "acked" <=> mstate[n] = "acked")
  BY <1>1 DEF OpenMsg, TypeOK
<1>3. Spends /\ (Calm' => Calm)
  BY <1>1 DEF Spends, Calm, OnTime
<1>4. CountInv'
  BY <1>1, <1>2, <1>3, CountKept DEF RecoverInv, Live
<1>5. InlineInv' /\ BegunInv'
  BY <1>1, <1>2, <1>3 DEF RecoverInv, InlineInv, BegunInv, Begun
<1>6. \A r \in Runs : Tended(r) => Tended(r)'
  BY <1>1, <1>2 DEF Tended
<1>7. RunInv'
  BY <1>1, <1>3, <1>6 DEF RecoverInv, RunInv
<1> QED
  BY <1>1, <1>4, <1>5, <1>6, <1>7 DEF RecoverInv

\* A publish that is not lost puts the original message into the stream.
LEMMA PublishEffect ==
    ASSUME TypeOK, DispatchInv, NEW j \in Jobs, Publish(j), Calm'
    PROVE  /\ Inline(j) /\ j = Submitter(Req(j)) /\ mstate[<<Req(j), 0>>] = "absent"
           /\ mstate' = [mstate EXCEPT ![<<Req(j), 0>>] = "pending"]
           /\ pc' = [pc EXCEPT ![j] = "gone"]
           /\ UNCHANGED <<status, mcount, pod, drain, stopped, boot, lock, hydrator, listed, spent>>
<1>1. Inline(j) /\ Live(j) /\ j = Submitter(Req(j)) /\ Req(j) \in Runs
  BY JobFacts DEF Publish, Live, DispatchInv, InlineIsSubmitter
<1>2. MsgOf(j) = <<Req(j), 0>> /\ mstate[<<Req(j), 0>>] = "absent"
  BY <1>1 DEF DispatchInv, Unsent, MsgOf, Submitter
<1>3. spent'["write"] = 0
  BY DEF Calm
<1> QED
  BY <1>1, <1>2, <1>3, WriteLostSeen DEF Publish, WriteLost, Return, Goto, rowVars, podVars

\* A replay reaches the stream unless the stream still holds an earlier one.
LEMMA ReplayEffect ==
    ASSUME TypeOK, NEW r \in Runs, HydratePublish(r)
    PROVE  /\ r \in listed /\ listed' = listed \ {r}
           /\ UNCHANGED <<status, mcount, pc, pod, drain, stopped, boot, lock, hydrator, spent>>
           /\ \/ /\ mstate' = mstate
                 /\ MaxReplay > 0 => mstate[<<r, 1>>] # "absent"
              \/ \E m \in Msgs : /\ m[1] = r /\ mstate[m] = "absent"
                                 /\ mstate' = [mstate EXCEPT ![m] = "pending"]
<1>1. \A c \in 1..MaxReplay : <<r, c>> \in Msgs /\ <<r, c>>[1] = r
  BY ReplayAssumption DEF Msgs
<1> QED
  BY <1>1 DEF HydratePublish, rowVars, jobVars

\* Every step keeps what crash recovery rests on.
LEMMA RecoverStep ==
    ASSUME TypeOK, DispatchInv, RecoverInv, [Next]_vars
    PROVE  RecoverInv'
<1> SUFFICES ASSUME Calm' PROVE RecoverInv'
  BY DEF RecoverInv, CountInv, InlineInv, BegunInv, RunInv
<1>1. CASE Still
  BY <1>1, RecoverPods DEF Still, msgVars, podVars, Live
<1>2. ASSUME NEW j \in Jobs, Publish(j) PROVE RecoverInv'
  <2>1. /\ UNCHANGED <<status, mcount, pod, drain, stopped>> /\ Spends
        /\ \A m \in Msgs : mstate'[m] = mstate[m]
                           \/ (mstate[m] = "absent" /\ mstate'[m] = "pending")
        /\ \A i \in Jobs : pc'[i] = pc[i] \/ (Inline(i) /\ pc'[i] = "gone")
    BY <1>2, PublishEffect DEF Spends, TypeOK
  <2> QED
    BY <2>1, RecoverSent
<1>3. ASSUME NEW r \in Runs, HydratePublish(r) PROVE RecoverInv'
  <2>1. /\ UNCHANGED <<status, mcount, pod, drain, stopped>> /\ Spends
        /\ \A m \in Msgs : mstate'[m] = mstate[m]
                           \/ (mstate[m] = "absent" /\ mstate'[m] = "pending")
        /\ pc' = pc
    <3>1. /\ UNCHANGED <<status, mcount, pc, pod, drain, stopped>> /\ Spends
          /\ \/ mstate' = mstate
             \/ \E m \in Msgs : /\ mstate[m] = "absent"
                                /\ mstate' = [mstate EXCEPT ![m] = "pending"]
      BY <1>3, ReplayEffect DEF Spends
    <3>2. \A m \in Msgs : mstate'[m] = mstate[m]
                          \/ (mstate[m] = "absent" /\ mstate'[m] = "pending")
      BY <3>1 DEF TypeOK
    <3> QED
      BY <3>1, <3>2
  <2> QED
    BY <2>1, RecoverSent
<1>4. ASSUME NEW p \in Pods, Drain(p) \/ WorkerStop(p) PROVE RecoverInv'
  <2>1. /\ UNCHANGED <<status, mstate, mcount, pc, pod>> /\ Spends
        /\ Outages' > Outages
    BY <1>4 DEF Drain, WorkerStop, Spends, Spend, Outages, Faults, rowVars, msgVars, jobVars,
      TypeOK
  <2> QED
    BY <2>1, RecoverPods
<1>5. ASSUME NEW p \in Pods, Reconnect(p) \/ HydrateLock(p) PROVE RecoverInv'
  <2>1. UNCHANGED <<status, mstate, mcount, pc, pod, drain, stopped>> /\ Spends
    BY <1>5 DEF Reconnect, HydrateLock, Spends, Faults, rowVars, msgVars, jobVars
  <2> QED
    BY <2>1, RecoverPods DEF Live
<1>6. ASSUME NEW p \in Pods, Dies(p) PROVE RecoverInv'
  <2>1. /\ UNCHANGED <<status, mstate, mcount, pod>> /\ Spends
        /\ \A j \in Jobs : pc'[j] = IF pod[j] = p /\ Live(j) THEN "gone" ELSE pc[j]
        /\ drain' = drain \ {p} /\ stopped' = stopped \ {p}
    BY <1>6 DEF Dies, Die, Spends, Faults, rowVars, msgVars
  <2>2. CASE Spend("crash")
    <3>1. Outages' > Outages
      BY <2>2 DEF Spend, Outages, Faults, TypeOK
    <3> QED
      BY <2>1, <3>1, RecoverPods
  <2>3. CASE p \in drain
    BY <2>1, <2>3, RecoverPods DEF Live
  <2> QED
    BY <1>6, <2>2, <2>3 DEF Dies
<1>7. ASSUME HydrateList \/ HydrateEnd PROVE RecoverInv'
  <2>1. UNCHANGED <<status, mstate, mcount, pc, pod, drain, stopped>> /\ Spends
    BY <1>7 DEF HydrateList, HydrateEnd, WriteLost, Spends, Faults, rowVars, msgVars, jobVars
  <2> QED
    BY <2>1, RecoverPods DEF Live
<1>8. ASSUME NEW m \in Msgs, AckWaitStall(m) PROVE FALSE
  BY <1>8 DEF AckWaitStall, Spend, Calm, OnTime, Faults, TypeOK
<1> QED
  BY <1>1, <1>2, <1>3, <1>4, <1>5, <1>6, <1>7, <1>8, StepKinds, RecoverLocal, RecoverAck,
    RecoverSubmit, RecoverDeliver, RecoverExpire

\* What crash recovery rests on holds in every reachable state.
LEMMA RecoverCorrect == Spec => []RecoverInv
<1>1. Init => RecoverInv
  <2> SUFFICES ASSUME Init PROVE RecoverInv
    OBVIOUS
  <2>1. /\ \A m \in Msgs : mstate[m] = "absent" /\ mcount[m] = 0
        /\ \A j \in Jobs : pc[j] = "none"
        /\ \A r \in Runs : status[r] = "none"
        /\ Outages = 0
    BY DEF Init, Outages, Faults
  <2> QED
    BY <2>1 DEF RecoverInv, CountInv, InlineInv, BegunInv, RunInv, OpenMsg
<1>2. TypeOK /\ DispatchInv /\ RecoverInv /\ [Next]_vars => RecoverInv'
  BY RecoverStep
<1> QED
  BY <1>1, <1>2, TypeCorrect, DispatchCorrect, PTL DEF Spec

\* Fewer outages than deliveries, and neither lost writes nor late acks.
FewFaults == Calm /\ Outages < MaxDeliver

\* A message in the stream has a delivery left or a holder at work.
LEMMA TendedIsServed ==
    ASSUME TypeOK, RecoverInv, FewFaults, NEW r \in Runs, Tended(r)
    PROVE  \/ \E j \in Jobs : Req(j) = r /\ Live(j)
           \/ \E m \in Msgs : /\ m[1] = r /\ mcount[m] < MaxDeliver
                              /\ mstate[m] \in {"pending", "inflight"}
<1>1. PICK m \in Msgs : m[1] = r /\ OpenMsg(m)
  BY DEF Tended
<1>2. CASE Healthy(m)
  <2>1. PICK j \in Jobs : MsgOf(j) = m /\ Live(j)
    BY <1>2 DEF Healthy, Holders
  <2>2. Req(j) = r
    BY <1>1, <2>1 DEF MsgOf, Req
  <2> QED
    BY <2>1, <2>2
<1>3. CASE ~Healthy(m)
  <2>1. mcount[m] <= Outages /\ mcount[m] \in Nat /\ Outages \in Nat
    BY <1>1, <1>3, DeliverAssumption DEF RecoverInv, CountInv, FewFaults, Outages, Faults, TypeOK
  <2> QED
    BY <1>1, <2>1, DeliverAssumption DEF FewFaults, OpenMsg
<1> QED
  BY <1>2, <1>3

\* While fewer pods have failed than max_deliver allows, with no write lost and
\* no ack wait run out, every running run has a job or a delivery left: JetStream
\* redelivers what a dead pod held. Holds for any number of pods and runs.
THEOREM RunningCorrect == Spec => [](FewFaults => RunningIsRecovered)
<1>1. TypeOK /\ RecoverInv => (FewFaults => RunningIsRecovered)
  BY TendedIsServed DEF RecoverInv, RunInv, FewFaults, RunningIsRecovered
<1> QED
  BY <1>1, TypeCorrect, RecoverCorrect, PTL

-----------------------------------------------------------------------------
(* A queued run is published, replayed, or about to be.                    *)

\* The run of a queued row has not begun, so a message of it that was sent is in
\* the stream and no job is about to ack it.
LEMMA SentIsTended ==
    ASSUME TypeOK', BegunInv', Calm', NEW m \in Msgs, status'[m[1]] = "queued",
           mstate'[m] # "absent"
    PROVE  Tended(m[1])'
<1>1. OpenMsg(m)'
  BY DEF BegunInv, Begun, OpenMsg, TypeOK
<1>2. \A j \in Jobs : MsgOf(j) = m => pc'[j] \notin {"refund", "ack"}
  BY DEF BegunInv, Begun, MsgOf, Req
<1> QED
  BY <1>1, <1>2 DEF Tended

\* Every step keeps QueueInv when one pod runs: whoever dies frees the hydrate
\* lock and boots again.
LEMMA QueueStep ==
    ASSUME \A p, q \in Pods : p = q, MaxReplay > 0,
           TypeOK, TypeOK', DispatchInv, RecoverInv, RecoverInv', QueueInv, [Next]_vars
    PROVE  QueueInv'
<1> SUFFICES ASSUME Calm', NEW r \in Runs, status'[r] = "queued",
                    ~Tended(r)', pc'[Submitter(r)] # "publish"
             PROVE  Hydrates(r)'
  BY DEF QueueInv
<1>1. /\ Calm /\ Spends /\ BegunInv'
      /\ status[r] = "queued" => pc[Submitter(r)] = "publish" \/ Tended(r) \/ Hydrates(r)
  BY SentStays, CalmBefore DEF RecoverInv, QueueInv
<1>2. \A m \in Msgs : m[1] = r => mstate'[m] = "absent" /\ mstate[m] = "absent"
  BY <1>1, SentIsTended, SentStays
<1>3. ~Tended(r)
  BY <1>2 DEF Tended, OpenMsg
<1>4. Submitter(r) \in Jobs /\ Inline(Submitter(r)) /\ <<r, 0>> \in Msgs /\ <<r, 0>>[1] = r
  BY JobFacts DEF Submitter, Inline
<1>5. ASSUME NEW q \in Runs, NEW p \in Pods, Submit(q, p) PROVE Hydrates(r)'
  <2>1. q # r
    BY <1>4, <1>5 DEF Submit, TypeOK
  <2>2. Submitter(q) # Submitter(r)
    BY <2>1 DEF Submitter
  <2>3. status[r] = "queued" /\ pc[Submitter(r)] # "publish" /\ UNCHANGED <<lock, boot, listed>>
    BY <1>4, <1>5, <2>1, <2>2 DEF Submit, podVars, TypeOK
  <2> QED
    BY <1>1, <1>3, <2>3 DEF Hydrates
<1>6. ASSUME NEW p \in Pods, Dies(p) PROVE Hydrates(r)'
  BY <1>6 DEF Dies, Die, Hydrates, TypeOK
<1>7. ASSUME NEW j \in Jobs, Publish(j) PROVE Hydrates(r)'
  <2>1. /\ j = Submitter(Req(j)) /\ UNCHANGED <<status, lock, boot, listed>>
        /\ mstate' = [mstate EXCEPT ![<<Req(j), 0>>] = "pending"]
        /\ pc' = [pc EXCEPT ![j] = "gone"]
    BY <1>7, PublishEffect
  <2>2. Req(j) # r
    BY <1>2, <1>4, <2>1 DEF TypeOK
  <2>3. pc[Submitter(r)] # "publish"
    BY <1>4, <2>1, <2>2 DEF Submitter, TypeOK
  <2> QED
    BY <1>1, <1>3, <2>1, <2>3 DEF Hydrates
<1>8. ASSUME NEW q \in Runs, HydratePublish(q) PROVE Hydrates(r)'
  <2>1. /\ listed' = listed \ {q} /\ UNCHANGED <<status, pc, lock, boot>>
    BY <1>8, ReplayEffect
  <2>2. q # r
    <3>1. <<r, 1>> \in Msgs /\ <<r, 1>>[1] = r
      BY ReplayAssumption DEF Msgs
    <3> QED
      BY <1>2, <1>8, <3>1, ReplayEffect DEF TypeOK
  <2> QED
    BY <1>1, <1>3, <2>1, <2>2 DEF Hydrates
<1>9. ASSUME NEW p \in Pods, HydrateLock(p) PROVE Hydrates(r)'
  BY <1>1, <1>3, <1>9 DEF HydrateLock, Hydrates, rowVars, jobVars
<1>10. CASE HydrateList
  BY <1>10 DEF HydrateList, Hydrates, rowVars
<1>11. CASE HydrateEnd
  <2>1. listed = {} /\ lock = "read" /\ UNCHANGED <<status, pc>>
    BY <1>1, <1>11, WriteLostSeen DEF HydrateEnd, WriteLost, rowVars, jobVars, Calm
  <2> QED
    BY <1>1, <1>3, <2>1 DEF Hydrates
<1>12. ASSUME NEW j \in Jobs, Local(j) PROVE Hydrates(r)'
  <2>1. status[r] = "queued" /\ UNCHANGED <<lock, boot, listed>>
    BY <1>12 DEF Local, Terminal, podVars
  <2>2. pc[Submitter(r)] # "publish"
    BY <1>4, <1>12 DEF Local, Calm
  <2> QED
    BY <1>1, <1>3, <2>1, <2>2 DEF Hydrates
<1>13. ASSUME UNCHANGED <<status, lock, listed>>, boot \subseteq boot',
              pc'[Submitter(r)] = pc[Submitter(r)]
       PROVE  Hydrates(r)'
  BY <1>1, <1>3, <1>13 DEF Hydrates
<1>14. ASSUME NEW j \in Jobs, Ack(j) PROVE Hydrates(r)'
  BY <1>4, <1>13, <1>14, RecoverAck DEF Ack, podVars
<1>15. ASSUME NEW m \in Msgs, NEW p \in Pods, Deliver(m, p) PROVE Hydrates(r)'
  BY <1>4, <1>13, <1>15, RecoverDeliver DEF Deliver, podVars
<1>16. ASSUME NEW m \in Msgs, AckWaitExpire(m) \/ AckWaitStall(m) PROVE Hydrates(r)'
  BY <1>13, <1>16 DEF AckWaitExpire, AckWaitStall, rowVars, jobVars, podVars
<1>17. ASSUME NEW p \in Pods, Drain(p) \/ WorkerStop(p) \/ Reconnect(p) PROVE Hydrates(r)'
  BY <1>13, <1>17 DEF Drain, WorkerStop, Reconnect, rowVars, jobVars, hydVars
<1>18. CASE Still
  BY <1>13, <1>18 DEF Still, podVars
<1> QED
  BY <1>5, <1>6, <1>7, <1>8, <1>9, <1>10, <1>11, <1>12, <1>14, <1>15, <1>16, <1>17, <1>18,
    StepKinds

\* On one pod nothing is forgotten, queued runs included: the pod that replaces
\* a dead one takes the hydrate lock and replays what was inserted and never
\* published. With more pods this fails, see PromptRunHydrateSkip.cfg.
THEOREM NothingForgottenOnOnePod ==
    ASSUME \A p, q \in Pods : p = q, MaxReplay > 0
    PROVE  Spec => [](FewFaults => NothingForgotten)
<1>1. Init => QueueInv
  BY DEF Init, QueueInv
<1>2. /\ TypeOK /\ TypeOK' /\ DispatchInv /\ RecoverInv /\ RecoverInv' /\ QueueInv
      /\ [Next]_vars
      => QueueInv'
  BY QueueStep
<1>3. TypeOK /\ RecoverInv /\ QueueInv => (FewFaults => NothingForgotten)
  <2> SUFFICES ASSUME TypeOK, RecoverInv, QueueInv, FewFaults, NEW r \in Runs, Active(r)
               PROVE  \/ \E j \in Jobs : Req(j) = r /\ Live(j)
                      \/ \E m \in Msgs : /\ m[1] = r /\ mcount[m] < MaxDeliver
                                         /\ mstate[m] \in {"pending", "inflight"}
                      \/ status[r] = "queued" /\ (boot # {} \/ lock = "taken" \/ r \in listed)
    BY DEF NothingForgotten
  <2>1. CASE Tended(r)
    BY <2>1, TendedIsServed
  <2>2. CASE ~Tended(r)
    <3>1. status[r] = "queued" /\ (pc[Submitter(r)] = "publish" \/ Hydrates(r))
      BY <2>2 DEF FewFaults, RecoverInv, RunInv, QueueInv, Active
    <3>2. Submitter(r) \in Jobs /\ Req(Submitter(r)) = r
      BY JobFacts DEF Submitter, Req
    <3> QED
      BY <3>1, <3>2 DEF Hydrates, Live
  <2> QED
    BY <2>1, <2>2
<1> QED
  BY <1>1, <1>2, <1>3, TypeCorrect, DispatchCorrect, RecoverCorrect, PTL DEF Spec

\* The same from the budgets alone: fewer crashes and stopped loops than
\* deliveries, no lost writes and no stalls.
THEOREM NothingForgottenCorrect ==
    ASSUME \A p, q \in Pods : p = q, MaxReplay > 0, Budget["stall"] = 0, Budget["write"] = 0,
           Budget["crash"] + Budget["stop"] < MaxDeliver
    PROVE  Spec => []NothingForgotten
<1>1. Within /\ TypeOK => FewFaults
  <2> SUFFICES ASSUME Within, TypeOK PROVE FewFaults
    OBVIOUS
  <2>1. \A f \in Faults : spent[f] \in Nat /\ Budget[f] \in Nat /\ spent[f] <= Budget[f]
    BY BudgetAssumption DEF Within, TypeOK
  <2> QED
    BY <2>1, DeliverAssumption DEF FewFaults, Calm, OnTime, Outages, Faults
<1> QED
  BY <1>1, NothingForgottenOnOnePod, TypeCorrect, WithinCorrect, PTL
=============================================================================
