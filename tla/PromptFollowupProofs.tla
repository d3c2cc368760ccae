------------------------ MODULE PromptFollowupProofs ------------------------
(***************************************************************************)
(* What PromptFollowup guarantees for any follow-ups, caps, overlapping    *)
(* puts, crashes and aborts.  TypeCorrect types the state, SteerCorrect    *)
(* proves that no steer is marked delivered without its message, and       *)
(* CapCorrect that a queue exceeds its cap by no more than the puts that   *)
(* overlap.  TurnCorrect: until a prompt is sent past the queue, or a      *)
(* finishing write is lost, the chat has one active turn.                  *)
(* TranscriptCorrect: a follow-up that was in before another was sent is   *)
(* before it in the transcript.                                            *)
(***************************************************************************)
EXTENDS PromptFollowup, FiniteSetTheorems, TLAPS

\* An event takes one off its budget and one off the budget of all events.
LEMMA SpendTypes ==
    ASSUME TypeOK, NEW e \in Events \ {"any"}, Spend(e)
    PROVE  left' \in [Events -> Nat] /\ \A x \in Events \ {e, "any"} : left'[x] = left[x]
<1>1. "any" \in Events
  BY DEF Events
<1>2. left[e] \in Nat \ {0} /\ left["any"] \in Nat \ {0}
  BY <1>1 DEF TypeOK, Spend
<1> QED
  BY <1>1, <1>2 DEF TypeOK, Spend

\* The finishing write leaves the run and the budget typed.
LEMMA FinishTypes ==
    ASSUME TypeOK, NEW r \in Runs, NEW s \in RunStatus, Finish(r, s)
    PROVE  run' \in [Runs -> RunStatus] /\ left' \in [Events -> Nat]
<1>1. "lost" \in Events \ {"any"}
  BY DEF Events
<1>2. CASE run' = [run EXCEPT ![r] = s] /\ UNCHANGED left
  BY <1>2 DEF TypeOK
<1>3. CASE Spend("lost") /\ UNCHANGED run
  BY <1>1, <1>3, SpendTypes DEF TypeOK
<1> QED
  BY <1>2, <1>3 DEF Finish

\* A put that is refused is tried again or rejected, and no other is touched.
LEMMA RefusedTypes ==
    ASSUME TypeOK, NEW f \in Followups, PutRefused(f)
    PROVE  /\ put' \in [Followups -> PutPC] /\ kind' \in [Followups -> Kinds]
           /\ put'[f] \in {"check", "rejected"}
           /\ \A g \in Followups : g # f => put'[g] = put[g] /\ kind'[g] = kind[g]
  BY DEF PutRefused, TypeOK, PutPC, Kinds

\* Every step keeps the types.
LEMMA TypeStep == ASSUME TypeOK, [Next]_vars PROVE TypeOK'
<1> USE DEF TypeOK, RunStatus, Active, Kinds, PutPC, ExecPC
<1>0. {"crash", "write", "abort", "submit", "lost"} \subseteq Events \ {"any"}
  BY DEF Events
<1>1. ASSUME NEW f \in Followups, PutReq(f) PROVE TypeOK'
  BY <1>1, <1>0 DEF PutReq, execVars, Unborn, ActiveRuns
<1>2. ASSUME NEW f \in Followups, PutCheck(f) PROVE TypeOK'
  BY <1>2, <1>0 DEF PutCheck, PutRefused, execVars
<1>3. ASSUME NEW f \in Followups, PutSeq(f) PROVE TypeOK'
  <2>1. PICK n \in 1..(Cardinality(Followups) + 1) : seq' = [seq EXCEPT ![f] = n]
    BY <1>3 DEF PutSeq
  <2>2. n \in Nat
    BY <2>1, FollowupsAssumption, FS_CardinalityType
  <2> QED
    BY <1>3, <2>1, <2>2 DEF PutSeq, execVars
<1>4. ASSUME NEW f \in Followups, PutInsert(f) PROVE TypeOK'
  BY <1>4, <1>0 DEF PutInsert, execVars
<1>5. ASSUME NEW f \in Followups, Cancel(f) PROVE TypeOK'
  BY <1>5, <1>0 DEF Cancel, putVars, execVars
<1>6. ASSUME NEW r \in Runs, AbortRun(r) PROVE TypeOK'
  BY <1>6, <1>0, SpendTypes DEF AbortRun, putVars, execVars
<1>7. ASSUME NEW r \in Runs, AbortFollowups(r) PROVE TypeOK'
  BY <1>7, <1>0 DEF AbortFollowups, putVars, execVars
<1>8. ASSUME NEW r \in Runs, Take(r) PROVE TypeOK'
  BY <1>8, <1>0 DEF Take, Go, At, putVars
<1>9. ASSUME NEW r \in Runs, DrainRead(r) PROVE TypeOK'
  <2>1. Pending(r, "steer") \subseteq Followups
    BY DEF Pending
  <2> QED
    BY <1>9, <2>1 DEF DrainRead, Go, At, putVars
<1>10. ASSUME NEW r \in Runs, DrainInsert(r) PROVE TypeOK'
  BY <1>10, <1>0 DEF DrainInsert, Go, At, putVars
<1>11. ASSUME NEW r \in Runs, DrainMark(r) PROVE TypeOK'
  BY <1>11, <1>0 DEF DrainMark, Go, At, putVars
<1>12. ASSUME NEW r \in Runs, DrainCount(r) PROVE TypeOK'
  BY <1>12, <1>0 DEF DrainCount, Go, At, putVars
<1>13. ASSUME NEW r \in Runs, TurnOk(r) PROVE TypeOK'
  <2>1. PICK s \in {"done", "failed"} : Finish(r, s)
    BY <1>13 DEF TurnOk
  <2>2. run' \in [Runs -> RunStatus] /\ left' \in [Events -> Nat]
    BY <2>1, FinishTypes
  <2>3. /\ ex' = [ex EXCEPT ![r] = "next"]
        /\ UNCHANGED <<used, row, seq, chat, putVars, todo, cur, aborts>>
    BY <1>13 DEF TurnOk, Go
  <2> QED
    BY <2>2, <2>3 DEF putVars
<1>14. ASSUME NEW r \in Runs, TurnErr(r) PROVE TypeOK'
  <2>1. PICK s \in {"failed", "cancelled"} : Finish(r, s)
    BY <1>14 DEF TurnErr
  <2>2. run' \in [Runs -> RunStatus] /\ left' \in [Events -> Nat]
    BY <2>1, FinishTypes
  <2>3. /\ ex' = [ex EXCEPT ![r] = "over"]
        /\ UNCHANGED <<used, row, seq, chat, putVars, todo, cur, aborts>>
    BY <1>14 DEF TurnErr, Go
  <2> QED
    BY <2>2, <2>3 DEF putVars
<1>15. ASSUME NEW r \in Runs, NextRead(r) PROVE TypeOK'
  <2>1. Pending(r, "queue") \subseteq Followups
    BY DEF Pending
  <2>2. CASE Pending(r, "queue") = {}
    BY <1>15, <2>2 DEF NextRead, Go, At, putVars
  <2>3. CASE Pending(r, "queue") # {}
    <3>1. PICK f \in Followups : cur' = [cur EXCEPT ![r] = f] /\ ex' = [ex EXCEPT ![r] = "deliver"]
      BY <1>15, <2>1, <2>3 DEF NextRead, Go
    <3> QED
      BY <1>15, <3>1 DEF NextRead, At, putVars
  <2> QED
    BY <2>2, <2>3
<1>16. ASSUME NEW r \in Runs, NextMark(r) PROVE TypeOK'
  BY <1>16, <1>0 DEF NextMark, Go, At, putVars
<1>17. ASSUME NEW r \in Runs, NextMsg(r) PROVE TypeOK'
  BY <1>17, <1>0 DEF NextMsg, Go, At, putVars
<1>18. ASSUME NEW r \in Runs, NextRun(r) PROVE TypeOK'
  BY <1>18, <1>0 DEF NextRun, Go, At, InsertRun, putVars, Unborn
<1>19. ASSUME NEW r \in Runs, NextRound(r) PROVE TypeOK'
  BY <1>19, <1>0 DEF NextRound, Go, At, putVars
<1>20. ASSUME NEW r \in Runs, DrainFail(r) PROVE TypeOK'
  BY <1>20, <1>0, SpendTypes DEF DrainFail, Go, putVars
<1>21. ASSUME NEW r \in Runs, NextFail(r) PROVE TypeOK'
  BY <1>21, <1>0, SpendTypes DEF NextFail, Go, putVars
<1>22. ASSUME NEW r \in Runs, Crash(r) PROVE TypeOK'
  BY <1>22, <1>0, SpendTypes DEF Crash, Go, putVars
<1>23. ASSUME Submit PROVE TypeOK'
  BY <1>23, <1>0, SpendTypes DEF Submit, InsertRun, putVars, execVars, Unborn,
    ActiveRuns
<1>25. ASSUME NEW f \in Followups, PutFail(f) PROVE TypeOK'
  <2>1. put' \in [Followups -> PutPC] /\ kind' \in [Followups -> Kinds]
    BY <1>25, RefusedTypes DEF PutFail
  <2>2. left' \in [Events -> Nat]
    BY <1>25, <1>0, SpendTypes DEF PutFail
  <2> QED
    BY <1>25, <2>1, <2>2 DEF PutFail, execVars
<1>24. CASE UNCHANGED vars
  BY <1>24, <1>0 DEF vars
<1> QED
  BY <1>1, <1>2, <1>3, <1>4, <1>5, <1>6, <1>7, <1>8, <1>9, <1>10, <1>11,
    <1>12, <1>13, <1>14, <1>15, <1>16, <1>17, <1>18, <1>19, <1>20, <1>21,
    <1>22, <1>23, <1>24, <1>25 DEF Next, Exec

\* Every state of every behaviour is typed.
THEOREM TypeCorrect == Spec => []TypeOK
<1>1. Init => TypeOK
  BY BoundAssumption, BudgetAssumption, AskAssumption
  DEF Init, TypeOK, RunStatus, Active, Kinds, PutPC, ExecPC, Runs
<1> QED
  BY <1>1, TypeStep, PTL DEF Spec

\* Why a delivered steer is in the transcript: a put inserts its row last, a
\* drain handles inserted rows only and has written the message of the row it
\* marks, and the rows that are started as runs are not steers.
PutsInsertLast == \A f \in Followups : put[f] # "accepted" => row[f] = "none"
DrainedRows == \A r \in Runs :
    /\ \A f \in todo[r] : row[f] # "none"
    /\ ex[r] \in {"mark", "count"} => InChat(cur[r])
    /\ ex[r] \in {"deliver", "msg", "run"} =>
          row[cur[r]] # "none" /\ kind[cur[r]] = "queue"
SteerInv == PutsInsertLast /\ DrainedRows /\ SteerReachesChat

\* The transcript only grows.
LEMMA ChatGrows ==
    ASSUME TypeOK, NEW f \in Followups, chat' = Append(chat, f)
    PROVE  InChat(f)' /\ \A g \in Followups : InChat(g) => InChat(g)'
<1>1. Len(chat') = Len(chat) + 1 /\ chat'[Len(chat) + 1] = f
  BY DEF TypeOK
<1>2. \A i \in DOMAIN chat : i \in DOMAIN chat' /\ chat'[i] = chat[i]
  BY DEF TypeOK
<1>3. Len(chat) + 1 \in DOMAIN chat'
  BY <1>1 DEF TypeOK
<1> QED
  BY <1>1, <1>2, <1>3 DEF InChat

\* Every step keeps the delivered steers in the transcript.
LEMMA SteerStep == ASSUME TypeOK, TypeOK', SteerInv, [Next]_vars PROVE SteerInv'
<1> USE DEF SteerInv, PutsInsertLast, DrainedRows, SteerReachesChat
<1>0. UNCHANGED chat => \A g : InChat(g) <=> InChat(g)'
  BY DEF InChat
<1>1. ASSUME NEW f \in Followups, PutReq(f) PROVE SteerInv'
  BY <1>1, <1>0 DEF PutReq, execVars, Unborn, ActiveRuns, TypeOK
<1>2. ASSUME NEW f \in Followups, PutCheck(f) PROVE SteerInv'
  BY <1>2, <1>0 DEF PutCheck, PutRefused, execVars, TypeOK
<1>3. ASSUME NEW f \in Followups, PutSeq(f) PROVE SteerInv'
  BY <1>3, <1>0 DEF PutSeq, execVars, TypeOK
<1>4. ASSUME NEW f \in Followups, PutInsert(f) PROVE SteerInv'
  BY <1>4, <1>0 DEF PutInsert, execVars, TypeOK
<1>5. ASSUME NEW f \in Followups, Cancel(f) PROVE SteerInv'
  BY <1>5, <1>0 DEF Cancel, putVars, execVars, TypeOK
<1>6. ASSUME NEW r \in Runs, AbortRun(r) PROVE SteerInv'
  BY <1>6, <1>0 DEF AbortRun, Spend, putVars, execVars, TypeOK
<1>7. ASSUME NEW r \in Runs, AbortFollowups(r) PROVE SteerInv'
  BY <1>7, <1>0 DEF AbortFollowups, putVars, execVars, TypeOK
<1>8. ASSUME NEW r \in Runs, Take(r) PROVE SteerInv'
  BY <1>8, <1>0 DEF Take, Go, At, putVars, TypeOK
<1>9. ASSUME NEW r \in Runs, DrainRead(r) PROVE SteerInv'
  BY <1>9, <1>0 DEF DrainRead, Pending, Go, At, putVars, TypeOK
<1>10. ASSUME NEW r \in Runs, DrainInsert(r) PROVE SteerInv'
  <2>1. PICK f \in todo[r] : chat' = Append(chat, f) /\ cur' = [cur EXCEPT ![r] = f]
    BY <1>10 DEF DrainInsert
  <2>2. f \in Followups
    BY <2>1 DEF TypeOK
  <2>3. InChat(f)' /\ \A g \in Followups : InChat(g) => InChat(g)'
    BY <2>1, <2>2, ChatGrows
  <2> QED
    BY <1>10, <2>1, <2>2, <2>3 DEF DrainInsert, Go, At, putVars, TypeOK
<1>11. ASSUME NEW r \in Runs, DrainMark(r) PROVE SteerInv'
  BY <1>11, <1>0 DEF DrainMark, Go, At, putVars, TypeOK
<1>12. ASSUME NEW r \in Runs, DrainCount(r) PROVE SteerInv'
  BY <1>12, <1>0 DEF DrainCount, Go, At, putVars, TypeOK
<1>13. ASSUME NEW r \in Runs, TurnOk(r) PROVE SteerInv'
  BY <1>13, <1>0 DEF TurnOk, Finish, Spend, Go, At, putVars, TypeOK
<1>14. ASSUME NEW r \in Runs, TurnErr(r) PROVE SteerInv'
  BY <1>14, <1>0 DEF TurnErr, Finish, Spend, Go, putVars, TypeOK
<1>15. ASSUME NEW r \in Runs, NextRead(r) PROVE SteerInv'
  <2>2. CASE Pending(r, "queue") = {}
    BY <1>15, <2>2, <1>0 DEF NextRead, Go, At, putVars, TypeOK
  <2>3. CASE Pending(r, "queue") # {}
    <3>1. PICK f \in Pending(r, "queue") :
            cur' = [cur EXCEPT ![r] = f] /\ ex' = [ex EXCEPT ![r] = "deliver"]
      BY <1>15, <2>3 DEF NextRead, Go
    <3>2. f \in Followups /\ row[f] # "none" /\ kind[f] = "queue"
      BY <3>1 DEF Pending
    <3> QED
      BY <1>15, <3>1, <3>2, <1>0 DEF NextRead, At, putVars, TypeOK
  <2> QED
    BY <2>2, <2>3
<1>16. ASSUME NEW r \in Runs, NextMark(r) PROVE SteerInv'
  BY <1>16, <1>0 DEF NextMark, Go, At, putVars, TypeOK
<1>17. ASSUME NEW r \in Runs, NextMsg(r) PROVE SteerInv'
  <2>1. cur[r] \in Followups /\ chat' = Append(chat, cur[r])
    BY <1>17 DEF NextMsg, At, TypeOK
  <2>2. \A g \in Followups : InChat(g) => InChat(g)'
    BY <2>1, ChatGrows
  <2> QED
    BY <1>17, <2>2 DEF NextMsg, Go, At, putVars, TypeOK
<1>18. ASSUME NEW r \in Runs, NextRun(r) PROVE SteerInv'
  BY <1>18, <1>0 DEF NextRun, Go, At, InsertRun, putVars, Unborn, TypeOK
<1>19. ASSUME NEW r \in Runs, NextRound(r) PROVE SteerInv'
  BY <1>19, <1>0 DEF NextRound, Go, At, putVars, TypeOK
<1>20. ASSUME NEW r \in Runs, DrainFail(r) PROVE SteerInv'
  BY <1>20, <1>0 DEF DrainFail, Go, Spend, putVars, TypeOK
<1>21. ASSUME NEW r \in Runs, NextFail(r) PROVE SteerInv'
  BY <1>21, <1>0 DEF NextFail, Go, Spend, putVars, TypeOK
<1>22. ASSUME NEW r \in Runs, Crash(r) PROVE SteerInv'
  BY <1>22, <1>0 DEF Crash, Go, Spend, putVars, TypeOK
<1>23. ASSUME Submit PROVE SteerInv'
  BY <1>23, <1>0 DEF Submit, Spend, InsertRun, putVars, execVars, Unborn,
    ActiveRuns, TypeOK
<1>25. ASSUME NEW f \in Followups, PutFail(f) PROVE SteerInv'
  BY <1>25, <1>0 DEF PutFail, PutRefused, InFlight, execVars, TypeOK
<1>24. CASE UNCHANGED vars
  BY <1>24, <1>0 DEF vars, TypeOK
<1> QED
  BY <1>1, <1>2, <1>3, <1>4, <1>5, <1>6, <1>7, <1>8, <1>9, <1>10, <1>11,
    <1>12, <1>13, <1>14, <1>15, <1>16, <1>17, <1>18, <1>19, <1>20, <1>21,
    <1>22, <1>23, <1>24, <1>25 DEF Next, Exec

\* A steer that is marked delivered is in the transcript.
THEOREM SteerCorrect == Spec => []SteerReachesChat
<1>1. Init => SteerInv
  BY DEF Init, SteerInv, PutsInsertLast, DrainedRows, SteerReachesChat
<1>2. SteerInv => SteerReachesChat
  BY DEF SteerInv
<1> QED
  BY <1>1, <1>2, SteerStep, TypeCorrect, PTL DEF Spec

\* Why the queue is bounded: at most MaxPuts puts are in flight, and the rows
\* a run's queue has or has admitted are within the cap plus those.
Claims(r) == {f \in Followups :
    req[f] = r /\ kind[f] = "queue" /\ (row[f] = "pending" \/ put[f] \in {"seq", "insert"})}
CapInv ==
    /\ PutsInsertLast
    /\ Cardinality(InFlight) <= MaxPuts
    /\ \A r \in Runs : Cardinality(Claims(r)) <= QueueMax + MaxPuts - 1

\* Sets of follow-ups are finite, and a subset has no more elements.
LEMMA SubsetCard ==
    ASSUME NEW S \in SUBSET Followups, NEW T \in SUBSET S
    PROVE  /\ Cardinality(S) \in Nat /\ Cardinality(T) \in Nat
           /\ Cardinality(T) <= Cardinality(S)
<1>1. IsFiniteSet(S)
  BY FollowupsAssumption, FS_Subset
<1> QED
  BY <1>1, FS_Subset, FS_CardinalityType

\* A put that is admitted is one of the puts in flight, and the rows it
\* counted were below the cap.
LEMMA AdmitStep ==
    ASSUME TypeOK, CapInv, NEW f \in Followups, PutCheck(f), PutAdmits(f), kind[f] = "queue"
    PROVE  \A r \in Runs : Cardinality(Claims(r)') <= QueueMax + MaxPuts - 1
<1> DEFINE P == Pending(req[f], "queue")
<1>1. P \in SUBSET Followups /\ InFlight \in SUBSET Followups
  BY DEF Pending, InFlight
<1>2. Cardinality(P) \in Nat /\ Cardinality(P) < QueueMax
  BY <1>1, SubsetCard DEF PutAdmits
<1>3. IsFiniteSet(P) /\ IsFiniteSet(InFlight) /\ P \cap InFlight \in SUBSET Followups
  BY <1>1, FollowupsAssumption, FS_Subset
<1>4. /\ Cardinality(P \cup InFlight) = Cardinality(P) + Cardinality(InFlight) - Cardinality(P \cap InFlight)
      /\ Cardinality(P \cap InFlight) \in Nat /\ Cardinality(InFlight) \in Nat
  BY <1>1, <1>3, FS_Union, SubsetCard
<1>5. Cardinality(P \cup InFlight) <= QueueMax + MaxPuts - 1
  BY <1>2, <1>4, CapAssumption, BoundAssumption DEF CapInv
<1>6. ASSUME NEW r \in Runs
      PROVE  Cardinality(Claims(r)') <= QueueMax + MaxPuts - 1
  <2>1. CASE r = req[f]
    <3>1. Claims(r)' \in SUBSET (P \cup InFlight)
      BY <2>1 DEF Claims, Pending, InFlight, PutCheck, TypeOK
    <3> QED
      BY <3>1, <1>1, <1>4, <1>5, SubsetCard, CapAssumption, BoundAssumption
  <2>2. CASE r # req[f]
    <3>1. Claims(r)' = Claims(r)
      BY <2>2 DEF Claims, PutCheck, TypeOK
    <3> QED
      BY <3>1 DEF CapInv
  <2> QED
    BY <2>1, <2>2
<1> QED
  BY <1>6

\* A step that adds no claim and no put in flight keeps the bounds.
LEMMA ShrinkStep ==
    ASSUME CapInv, \A r \in Runs : Claims(r)' \subseteq Claims(r), InFlight' \subseteq InFlight,
           PutsInsertLast'
    PROVE  CapInv'
<1>1. \A r \in Runs : Claims(r) \in SUBSET Followups /\ Claims(r)' \in SUBSET Claims(r)
  BY DEF Claims
<1>2. InFlight \in SUBSET Followups /\ InFlight' \in SUBSET InFlight
  BY DEF InFlight
<1>3. /\ \A r \in Runs : Cardinality(Claims(r)') <= QueueMax + MaxPuts - 1
      /\ Cardinality(InFlight') <= MaxPuts
  BY <1>1, <1>2, SubsetCard, CapAssumption, BoundAssumption DEF CapInv
<1> QED
  BY <1>3 DEF CapInv

\* Every step keeps the bounds.
LEMMA CapStep == ASSUME TypeOK, TypeOK', SteerInv, CapInv, [Next]_vars PROVE CapInv'
<1>0. PutsInsertLast'
  BY SteerStep DEF SteerInv
<1> USE <1>0, ShrinkStep
<1>1. ASSUME NEW f \in Followups, PutReq(f) PROVE CapInv'
  <2>1. /\ InFlight' = InFlight \cup {f} /\ f \notin InFlight
        /\ Cardinality(InFlight) < MaxPuts
    BY <1>1 DEF PutReq, InFlight, TypeOK, PutPC
  <2>2. InFlight \in SUBSET Followups /\ IsFiniteSet(InFlight)
    BY FollowupsAssumption, FS_Subset DEF InFlight
  <2>5. Cardinality(InFlight) \in Nat /\ Cardinality(InFlight') = Cardinality(InFlight) + 1
    BY <2>1, <2>2, FS_AddElement, FS_CardinalityType
  <2>3. Cardinality(InFlight') <= MaxPuts
    BY <2>1, <2>5, BoundAssumption
  <2>4. \A s \in Runs : Claims(s)' = Claims(s)
    BY <1>1 DEF PutReq, Claims, CapInv, PutsInsertLast, TypeOK
  <2> QED
    BY <2>3, <2>4 DEF CapInv
<1>2. ASSUME NEW f \in Followups, PutCheck(f) PROVE CapInv'
  <2>1. InFlight' \subseteq InFlight
    BY <1>2 DEF PutCheck, PutRefused, InFlight, TypeOK
  <2>2. CASE PutAdmits(f) /\ kind[f] = "queue"
    <3>1. InFlight \in SUBSET Followups /\ InFlight' \in SUBSET InFlight
      BY <2>1 DEF InFlight
    <3>2. Cardinality(InFlight') <= MaxPuts
      BY <3>1, SubsetCard, BoundAssumption DEF CapInv
    <3>3. \A r \in Runs : Cardinality(Claims(r)') <= QueueMax + MaxPuts - 1
      BY <1>2, <2>2, AdmitStep
    <3> QED
      BY <3>2, <3>3 DEF CapInv
  <2>3. CASE ~(PutAdmits(f) /\ kind[f] = "queue")
    <3>1. \A r \in Runs : Claims(r)' \subseteq Claims(r)
      <4>1. CASE PutAdmits(f)
        BY <1>2, <2>3, <4>1 DEF PutCheck, Claims, CapInv, PutsInsertLast, TypeOK
      <4>2. CASE ~PutAdmits(f)
        <5>1. /\ put'[f] \in {"check", "rejected"} /\ row'[f] = "none"
              /\ \A g \in Followups : g # f => put'[g] = put[g] /\ kind'[g] = kind[g]
          BY <1>2, <4>2, RefusedTypes DEF PutCheck, CapInv, PutsInsertLast
        <5> QED
          BY <1>2, <5>1 DEF PutCheck, Claims
      <4> QED
        BY <4>1, <4>2
    <3> QED
      BY <2>1, <3>1
  <2> QED
    BY <2>2, <2>3
<1>3. ASSUME NEW f \in Followups, PutSeq(f) PROVE CapInv'
  <2>1. /\ \A s \in Runs : Claims(s)' \subseteq Claims(s)
        /\ InFlight' \subseteq InFlight
    BY <1>3 DEF PutSeq, execVars, Claims, InFlight, TypeOK, PutsInsertLast,
      SteerInv
  <2> QED
    BY <2>1
<1>4. ASSUME NEW f \in Followups, PutInsert(f) PROVE CapInv'
  <2>1. /\ \A s \in Runs : Claims(s)' \subseteq Claims(s)
        /\ InFlight' \subseteq InFlight
    BY <1>4 DEF PutInsert, execVars, Claims, InFlight, TypeOK, PutsInsertLast,
      SteerInv
  <2> QED
    BY <2>1
<1>5. ASSUME NEW f \in Followups, Cancel(f) PROVE CapInv'
  <2>1. /\ \A s \in Runs : Claims(s)' \subseteq Claims(s)
        /\ InFlight' \subseteq InFlight
    BY <1>5 DEF Cancel, putVars, execVars, Claims, InFlight, TypeOK
  <2> QED
    BY <2>1
<1>6. ASSUME NEW r \in Runs, AbortRun(r) PROVE CapInv'
  <2>1. /\ \A s \in Runs : Claims(s)' \subseteq Claims(s)
        /\ InFlight' \subseteq InFlight
    BY <1>6 DEF AbortRun, putVars, execVars, Claims, InFlight, TypeOK
  <2> QED
    BY <2>1
<1>7. ASSUME NEW r \in Runs, AbortFollowups(r) PROVE CapInv'
  <2>1. /\ \A s \in Runs : Claims(s)' \subseteq Claims(s)
        /\ InFlight' \subseteq InFlight
    BY <1>7 DEF AbortFollowups, putVars, execVars, Claims, InFlight, TypeOK
  <2> QED
    BY <2>1
<1>8. ASSUME NEW r \in Runs, Take(r) PROVE CapInv'
  <2>1. /\ \A s \in Runs : Claims(s)' \subseteq Claims(s)
        /\ InFlight' \subseteq InFlight
    BY <1>8 DEF Take, putVars, Claims, InFlight, TypeOK
  <2> QED
    BY <2>1
<1>9. ASSUME NEW r \in Runs, DrainRead(r) PROVE CapInv'
  <2>1. /\ \A s \in Runs : Claims(s)' \subseteq Claims(s)
        /\ InFlight' \subseteq InFlight
    BY <1>9 DEF DrainRead, putVars, Claims, InFlight, TypeOK
  <2> QED
    BY <2>1
<1>10. ASSUME NEW r \in Runs, DrainInsert(r) PROVE CapInv'
  <2>1. /\ \A s \in Runs : Claims(s)' \subseteq Claims(s)
        /\ InFlight' \subseteq InFlight
    BY <1>10 DEF DrainInsert, putVars, Claims, InFlight, TypeOK
  <2> QED
    BY <2>1
<1>11. ASSUME NEW r \in Runs, DrainMark(r) PROVE CapInv'
  <2>1. /\ \A s \in Runs : Claims(s)' \subseteq Claims(s)
        /\ InFlight' \subseteq InFlight
    BY <1>11 DEF DrainMark, putVars, Claims, InFlight, TypeOK
  <2> QED
    BY <2>1
<1>12. ASSUME NEW r \in Runs, DrainCount(r) PROVE CapInv'
  <2>1. /\ \A s \in Runs : Claims(s)' \subseteq Claims(s)
        /\ InFlight' \subseteq InFlight
    BY <1>12 DEF DrainCount, putVars, Claims, InFlight, TypeOK
  <2> QED
    BY <2>1
<1>13. ASSUME NEW r \in Runs, TurnOk(r) PROVE CapInv'
  <2>1. /\ \A s \in Runs : Claims(s)' \subseteq Claims(s)
        /\ InFlight' \subseteq InFlight
    BY <1>13 DEF TurnOk, Finish, Spend, putVars, Claims, InFlight, TypeOK
  <2> QED
    BY <2>1
<1>14. ASSUME NEW r \in Runs, TurnErr(r) PROVE CapInv'
  <2>1. /\ \A s \in Runs : Claims(s)' \subseteq Claims(s)
        /\ InFlight' \subseteq InFlight
    BY <1>14 DEF TurnErr, Finish, Spend, putVars, Claims, InFlight, TypeOK
  <2> QED
    BY <2>1
<1>15. ASSUME NEW r \in Runs, NextRead(r) PROVE CapInv'
  <2>1. /\ \A s \in Runs : Claims(s)' \subseteq Claims(s)
        /\ InFlight' \subseteq InFlight
    BY <1>15 DEF NextRead, putVars, Claims, InFlight, TypeOK
  <2> QED
    BY <2>1
<1>16. ASSUME NEW r \in Runs, NextMark(r) PROVE CapInv'
  <2>1. /\ \A s \in Runs : Claims(s)' \subseteq Claims(s)
        /\ InFlight' \subseteq InFlight
    BY <1>16 DEF NextMark, putVars, Claims, InFlight, TypeOK
  <2> QED
    BY <2>1
<1>17. ASSUME NEW r \in Runs, NextMsg(r) PROVE CapInv'
  <2>1. /\ \A s \in Runs : Claims(s)' \subseteq Claims(s)
        /\ InFlight' \subseteq InFlight
    BY <1>17 DEF NextMsg, putVars, Claims, InFlight, TypeOK
  <2> QED
    BY <2>1
<1>18. ASSUME NEW r \in Runs, NextRun(r) PROVE CapInv'
  <2>1. /\ \A s \in Runs : Claims(s)' \subseteq Claims(s)
        /\ InFlight' \subseteq InFlight
    BY <1>18 DEF NextRun, putVars, Claims, InFlight, TypeOK
  <2> QED
    BY <2>1
<1>19. ASSUME NEW r \in Runs, NextRound(r) PROVE CapInv'
  <2>1. /\ \A s \in Runs : Claims(s)' \subseteq Claims(s)
        /\ InFlight' \subseteq InFlight
    BY <1>19 DEF NextRound, putVars, Claims, InFlight, TypeOK
  <2> QED
    BY <2>1
<1>20. ASSUME NEW r \in Runs, DrainFail(r) PROVE CapInv'
  <2>1. /\ \A s \in Runs : Claims(s)' \subseteq Claims(s)
        /\ InFlight' \subseteq InFlight
    BY <1>20 DEF DrainFail, putVars, Claims, InFlight, TypeOK
  <2> QED
    BY <2>1
<1>21. ASSUME NEW r \in Runs, NextFail(r) PROVE CapInv'
  <2>1. /\ \A s \in Runs : Claims(s)' \subseteq Claims(s)
        /\ InFlight' \subseteq InFlight
    BY <1>21 DEF NextFail, putVars, Claims, InFlight, TypeOK
  <2> QED
    BY <2>1
<1>22. ASSUME NEW r \in Runs, Crash(r) PROVE CapInv'
  <2>1. /\ \A s \in Runs : Claims(s)' \subseteq Claims(s)
        /\ InFlight' \subseteq InFlight
    BY <1>22 DEF Crash, putVars, Claims, InFlight, TypeOK
  <2> QED
    BY <2>1
<1>23. ASSUME Submit PROVE CapInv'
  <2>1. /\ \A s \in Runs : Claims(s)' \subseteq Claims(s)
        /\ InFlight' \subseteq InFlight
    BY <1>23 DEF Submit, putVars, execVars, Claims, InFlight, TypeOK
  <2> QED
    BY <2>1
<1>25. ASSUME NEW f \in Followups, PutFail(f) PROVE CapInv'
  <2>0. /\ put'[f] \in {"check", "rejected"} /\ row'[f] = "none"
        /\ \A g \in Followups : g # f => put'[g] = put[g] /\ kind'[g] = kind[g]
    BY <1>25, RefusedTypes DEF PutFail, InFlight, CapInv, PutsInsertLast
  <2>1. /\ \A s \in Runs : Claims(s)' \subseteq Claims(s)
        /\ InFlight' \subseteq InFlight
    BY <1>25, <2>0 DEF PutFail, Claims, InFlight
  <2> QED
    BY <2>1
<1>24. CASE UNCHANGED vars
  <2>1. /\ \A s \in Runs : Claims(s)' \subseteq Claims(s)
        /\ InFlight' \subseteq InFlight
    BY <1>24 DEF vars, Claims, InFlight
  <2> QED
    BY <2>1
<1> QED
  BY <1>1, <1>2, <1>3, <1>4, <1>5, <1>6, <1>7, <1>8, <1>9, <1>10, <1>11,
    <1>12, <1>13, <1>14, <1>15, <1>16, <1>17, <1>18, <1>19, <1>20, <1>21,
    <1>22, <1>23, <1>24, <1>25 DEF Next, Exec

\* The pending queue of a run is within the cap plus the overlapping puts.
THEOREM CapCorrect == Spec => []QueueWithinCap
<1>1. Init => CapInv
  <2> SUFFICES ASSUME Init PROVE CapInv
    OBVIOUS
  <2>1. InFlight = {} /\ \A r \in Runs : Claims(r) = {}
    BY DEF Init, InFlight, Claims
  <2>2. Cardinality({}) = 0
    BY FS_EmptySet
  <2>3. PutsInsertLast
    BY DEF Init, PutsInsertLast
  <2> QED
    BY <2>1, <2>2, <2>3, CapAssumption, BoundAssumption DEF CapInv
<1>2. CapInv => QueueWithinCap
  <2> SUFFICES ASSUME CapInv, NEW r \in Runs
               PROVE  Cardinality(Pending(r, "queue")) <= QueueMax + MaxPuts - 1
    BY DEF QueueWithinCap
  <2>1. Claims(r) \in SUBSET Followups /\ Pending(r, "queue") \in SUBSET Claims(r)
    BY DEF Claims, Pending
  <2> QED
    BY <2>1, SubsetCard, CapAssumption, BoundAssumption DEF CapInv
<1>3. Init => SteerInv
  BY DEF Init, SteerInv, PutsInsertLast, DrainedRows, SteerReachesChat
<1>4. TypeOK /\ TypeOK' /\ SteerInv /\ CapInv /\ [Next]_vars => CapInv'
  BY CapStep
<1>5. TypeOK /\ TypeOK' /\ SteerInv /\ [Next]_vars => SteerInv'
  BY SteerStep
<1> QED
  BY <1>1, <1>2, <1>3, <1>4, <1>5, TypeCorrect, PTL DEF Spec

-----------------------------------------------------------------------------
(* Until a prompt is sent past the queue or a finishing write is lost, one *)
(* turn is active at a time.                                               *)

\* No prompt was sent past the queue, and no finishing write was lost.
Unhurried == left["submit"] = Budget["submit"] /\ left["lost"] = Budget["lost"]

\* Program points at which an executor serves the queue, and executes the turn.
Serving == {"next", "deliver", "msg", "run"}
Turning == {"round", "steer", "mark", "count", "llm"}

\* Two runs of the chat are never active at once, an executor in its turn has
\* an active run, and the queue is served by one executor while no run is
\* active.
OneActive == \A r, s \in Runs : run[r] \in Active /\ run[s] \in Active => r = s
TurnIsActive == \A r \in Runs : ex[r] \in Turning => run[r] \in Active
ServedAlone == \A r, s \in Runs : ex[r] \in Serving =>
    run[s] \notin Active /\ (ex[s] \in Serving => r = s)

\* Both are counted, and before the first of them the above holds.
TurnInv ==
    /\ left["submit"] <= Budget["submit"] /\ left["lost"] <= Budget["lost"]
    /\ Unhurried => OneActive /\ TurnIsActive /\ ServedAlone

\* A finishing write that is lost is counted.
LEMMA FinishTurn ==
    ASSUME TypeOK, TurnInv, NEW r \in Runs, NEW s \in RunStatus, Finish(r, s)
    PROVE  /\ left'["submit"] <= Budget["submit"] /\ left'["lost"] <= Budget["lost"]
           /\ Unhurried' => Unhurried /\ run' = [run EXCEPT ![r] = s]
<1>1. "lost" \in Events /\ "submit" \in Events
  BY DEF Events
<1>2. CASE run' = [run EXCEPT ![r] = s] /\ UNCHANGED left
  BY <1>2 DEF TurnInv, Unhurried
<1>3. CASE Spend("lost") /\ UNCHANGED run
  <2>1. left["lost"] \in Nat /\ left["submit"] \in Nat
    BY <1>1 DEF TypeOK
  <2>2. left'["lost"] = left["lost"] - 1 /\ left'["submit"] = left["submit"]
    BY <1>1, <1>3 DEF TypeOK, Spend
  <2>3. Budget["lost"] \in Nat /\ Budget["submit"] \in Nat
    BY <1>1, BudgetAssumption
  <2> QED
    BY <2>1, <2>2, <2>3 DEF TurnInv, Unhurried
<1> QED
  BY <1>2, <1>3 DEF Finish

\* Every step keeps TurnInv: the next run is inserted by the one executor
\* whose run has ended.
LEMMA TurnStep == ASSUME TypeOK, TurnInv, [Next]_vars PROVE TurnInv'
<1> USE BudgetAssumption
    DEF TurnInv, Unhurried, OneActive, TurnIsActive, ServedAlone, Serving, Turning,
        TypeOK, Events, Active
<1>1. ASSUME NEW f \in Followups, PutReq(f) PROVE TurnInv'
  BY <1>1 DEF PutReq, Unborn, ActiveRuns, execVars
<1>2. ASSUME NEW f \in Followups, PutCheck(f) PROVE TurnInv'
  BY <1>2 DEF PutCheck, PutRefused, execVars
<1>3. ASSUME NEW f \in Followups, PutSeq(f) PROVE TurnInv'
  BY <1>3 DEF PutSeq, execVars
<1>4. ASSUME NEW f \in Followups, PutInsert(f) PROVE TurnInv'
  BY <1>4 DEF PutInsert, execVars
<1>5. ASSUME NEW f \in Followups, Cancel(f) PROVE TurnInv'
  BY <1>5 DEF Cancel, putVars, execVars
<1>6. ASSUME NEW r \in Runs, AbortRun(r) PROVE TurnInv'
  BY <1>6 DEF AbortRun, Spend, putVars, execVars
<1>7. ASSUME NEW r \in Runs, AbortFollowups(r) PROVE TurnInv'
  BY <1>7 DEF AbortFollowups, putVars, execVars
<1>8. ASSUME NEW r \in Runs, Take(r) PROVE TurnInv'
  BY <1>8 DEF Take, Go, At, putVars
<1>9. ASSUME NEW r \in Runs, DrainRead(r) PROVE TurnInv'
  BY <1>9 DEF DrainRead, Go, At, putVars
<1>10. ASSUME NEW r \in Runs, DrainInsert(r) PROVE TurnInv'
  BY <1>10 DEF DrainInsert, Go, At, putVars
<1>11. ASSUME NEW r \in Runs, DrainMark(r) PROVE TurnInv'
  BY <1>11 DEF DrainMark, Go, At, putVars
<1>12. ASSUME NEW r \in Runs, DrainCount(r) PROVE TurnInv'
  BY <1>12 DEF DrainCount, Go, At, putVars
<1>13. ASSUME NEW r \in Runs, TurnOk(r) PROVE TurnInv'
  <2>1. PICK s \in {"done", "failed"} : Finish(r, s)
    BY <1>13 DEF TurnOk
  <2>2. /\ left'["submit"] <= Budget["submit"] /\ left'["lost"] <= Budget["lost"]
        /\ Unhurried' => Unhurried /\ run' = [run EXCEPT ![r] = s]
    BY <2>1, FinishTurn DEF RunStatus
  <2>3. ex[r] = "llm" /\ ex' = [ex EXCEPT ![r] = "next"]
    BY <1>13 DEF TurnOk, Go, At
  <2> QED
    BY <2>2, <2>3
<1>14. ASSUME NEW r \in Runs, TurnErr(r) PROVE TurnInv'
  <2>1. PICK s \in {"failed", "cancelled"} : Finish(r, s)
    BY <1>14 DEF TurnErr
  <2>2. /\ left'["submit"] <= Budget["submit"] /\ left'["lost"] <= Budget["lost"]
        /\ Unhurried' => Unhurried /\ run' = [run EXCEPT ![r] = s]
    BY <2>1, FinishTurn DEF RunStatus
  <2>3. ex[r] \in {"round", "llm"} /\ ex' = [ex EXCEPT ![r] = "over"]
    BY <1>14 DEF TurnErr, Go
  <2> QED
    BY <2>2, <2>3
<1>15. ASSUME NEW r \in Runs, NextRead(r) PROVE TurnInv'
  <2>1. /\ ex[r] = "next" /\ UNCHANGED <<run, left>>
        /\ \E p \in {"over", "deliver"} : ex' = [ex EXCEPT ![r] = p]
    BY <1>15 DEF NextRead, Go, At
  <2> QED
    BY <2>1
<1>16. ASSUME NEW r \in Runs, NextMark(r) PROVE TurnInv'
  BY <1>16 DEF NextMark, Go, At, putVars
<1>17. ASSUME NEW r \in Runs, NextMsg(r) PROVE TurnInv'
  BY <1>17 DEF NextMsg, Go, At, putVars
<1>18. ASSUME NEW r \in Runs, NextRun(r) PROVE TurnInv'
  BY <1>18 DEF NextRun, Go, At, InsertRun, Unborn, putVars
<1>19. ASSUME NEW r \in Runs, NextRound(r) PROVE TurnInv'
  BY <1>19 DEF NextRound, Go, At, putVars
<1>20. ASSUME NEW r \in Runs, DrainFail(r) PROVE TurnInv'
  BY <1>20 DEF DrainFail, Go, Spend, putVars
<1>21. ASSUME NEW r \in Runs, NextFail(r) PROVE TurnInv'
  BY <1>21 DEF NextFail, Go, Spend, putVars
<1>22. ASSUME NEW r \in Runs, Crash(r) PROVE TurnInv'
  BY <1>22 DEF Crash, Go, Spend, putVars
<1>23. ASSUME Submit PROVE TurnInv'
  BY <1>23 DEF Submit, Spend, InsertRun, Unborn, ActiveRuns, putVars, execVars
<1>25. ASSUME NEW f \in Followups, PutFail(f) PROVE TurnInv'
  BY <1>25 DEF PutFail, Spend, execVars
<1>24. CASE UNCHANGED vars
  BY <1>24 DEF vars
<1> QED
  BY <1>1, <1>2, <1>3, <1>4, <1>5, <1>6, <1>7, <1>8, <1>9, <1>10, <1>11,
    <1>12, <1>13, <1>14, <1>15, <1>16, <1>17, <1>18, <1>19, <1>20, <1>21,
    <1>22, <1>23, <1>24, <1>25 DEF Next, Exec

\* At most one run of the chat is active as long as every prompt goes through
\* the queue and no write of prompt_run_finish is lost: the next run is inserted
\* by prompt_followup_start_next_queued after that write, whatever dies, fails
\* or is aborted in between.
THEOREM TurnCorrect == Spec => []ServedInTurn
<1>1. Init => TurnInv
  BY BudgetAssumption
  DEF Init, TurnInv, OneActive, TurnIsActive, ServedAlone, Serving, Turning, Active, Events
<1>2. TypeOK /\ TurnInv /\ [Next]_vars => TurnInv'
  BY TurnStep
<1>3. TurnInv => ServedInTurn
  <2> SUFFICES ASSUME TurnInv, Unhurried PROVE Cardinality(ActiveRuns) <= 1
    BY DEF ServedInTurn, OneActiveTurn, Unhurried
  <2>1. ActiveRuns = {} \/ \E r \in Runs : ActiveRuns = {r}
    BY DEF TurnInv, OneActive, ActiveRuns
  <2>2. CASE ActiveRuns = {}
    BY <2>2, FS_EmptySet
  <2>3. ASSUME NEW r \in Runs, ActiveRuns = {r} PROVE Cardinality(ActiveRuns) = 1
    BY <2>3, FS_Singleton
  <2> QED
    BY <2>1, <2>2, <2>3
<1> QED
  BY <1>1, <1>2, <1>3, TypeCorrect, PTL DEF Spec

-----------------------------------------------------------------------------
(* What was in before a message was sent is before it in the transcript.   *)

\* What was in before a put began has a row of the same run, with a smaller seq
\* than the one the put reads.
AcceptedRows == \A f \in Followups : put[f] = "accepted" => row[f] # "none"
EarlierRows == \A f, g \in Followups : f \in earlier[g] =>
    /\ row[f] # "none" /\ put[g] # "none" /\ req[f] = req[g]
    /\ put[g] = "insert" \/ row[g] # "none" => seq[f] < seq[g]

\* The rows an executor works on are its run's, and what it has marked is not
\* pending; the transcript holds inserted rows.
ExecRows == \A r \in Runs :
    /\ \A f \in todo[r] : req[f] = r /\ kind[f] = "steer"
    /\ ex[r] = "count" => row[cur[r]] # "pending"
    /\ ex[r] \in {"deliver", "msg", "run"} => req[cur[r]] = r
ChatRows == \A f \in Followups : InChat(f) => row[f] # "none" /\ req[f] \in Runs

\* The row of the queue that an executor is about to write.
Serves(r, f) == ex[r] \in {"deliver", "msg"} /\ cur[r] = f

\* Nothing that is still to be written was in before a message of the
\* transcript, nor, unless it was read as well, before one an executor has read.
ChatFirst == \A f, g \in Followups :
    InChat(g) /\ f \in earlier[g] /\ kind[f] = kind[g] =>
        row[f] # "pending" /\ \A r \in Runs : f \notin todo[r] /\ ~Serves(r, f)
HandFirst == \A r \in Runs : \A f, g \in Followups :
    f \in earlier[g] /\ row[f] = "pending" =>
        /\ g \in todo[r] /\ kind[f] = "steer" => f \in todo[r]
        /\ Serves(r, g) => kind[f] # "queue"

\* Why the transcript is in order.
OrderInv == AcceptedRows /\ EarlierRows /\ ExecRows /\ ChatRows /\ ChatFirst /\ HandFirst
            /\ TranscriptInOrder

\* A message that was not in before any of the transcript's began keeps the
\* order when it is appended.
LEMMA OrderGrows ==
    ASSUME TypeOK, TranscriptInOrder, NEW f \in Followups, chat' = Append(chat, f),
           UNCHANGED <<req, kind, earlier>>,
           \A g \in Followups : InChat(g) /\ kind[g] = kind[f] => f \notin earlier[g]
    PROVE  TranscriptInOrder' /\ \A g \in Followups : InChat(g)' <=> InChat(g) \/ g = f
<1>1. chat \in Seq(Followups) /\ chat' \in Seq(Followups)
  BY DEF TypeOK
<1>2. Len(chat') = Len(chat) + 1 /\ chat'[Len(chat) + 1] = f
  BY <1>1
<1>3. \A i \in DOMAIN chat : i \in DOMAIN chat' /\ chat'[i] = chat[i] /\ chat[i] \in Followups
  BY <1>1
<1>4. \A i \in DOMAIN chat' : i \in DOMAIN chat \/ i = Len(chat) + 1
  BY <1>1
<1>5. Len(chat) + 1 \in DOMAIN chat' /\ \A i \in DOMAIN chat : i < Len(chat) + 1 /\ i \in Int
  BY <1>1
<1>6. ASSUME NEW i \in DOMAIN chat', NEW j \in DOMAIN chat', i < j,
             req[chat'[i]] = req[chat'[j]], kind[chat'[i]] = kind[chat'[j]]
      PROVE  chat'[j] \notin earlier[chat'[i]]
  <2>1. i \in DOMAIN chat
    BY <1>4, <1>5, <1>6, <1>1
  <2>2. CASE j \in DOMAIN chat
    BY <1>3, <1>6, <2>1, <2>2 DEF TranscriptInOrder
  <2>3. CASE j = Len(chat) + 1
    <3>1. InChat(chat[i]) /\ chat[i] \in Followups /\ chat'[i] = chat[i] /\ chat'[j] = f
      BY <1>2, <1>3, <2>1, <2>3 DEF InChat
    <3> QED
      BY <1>6, <3>1
  <2> QED
    BY <1>4, <2>2, <2>3
<1>7. TranscriptInOrder'
  BY <1>6 DEF TranscriptInOrder
<1>8. \A g \in Followups : InChat(g)' <=> InChat(g) \/ g = f
  BY <1>2, <1>3, <1>4, <1>5 DEF InChat
<1> QED
  BY <1>7, <1>8

\* A step that leaves the messages of the transcript alone keeps the order.
LEMMA OrderKept ==
    ASSUME TranscriptInOrder, UNCHANGED chat,
           \A g : InChat(g) =>
             req'[g] = req[g] /\ kind'[g] = kind[g] /\ earlier'[g] = earlier[g]
    PROVE  TranscriptInOrder'
<1>1. \A i \in DOMAIN chat : InChat(chat[i])
  BY DEF InChat
<1> QED
  BY <1>1 DEF TranscriptInOrder

\* A put that has not inserted its row touches nothing a drain or the
\* transcript depends on.
LEMMA PutFrame ==
    ASSUME TypeOK, TypeOK', SteerInv, OrderInv, NEW f \in Followups, row[f] = "none",
           UNCHANGED <<run, row, chat, execVars>>,
           \A g \in Followups : g # f =>
             /\ req'[g] = req[g] /\ kind'[g] = kind[g] /\ seq'[g] = seq[g]
             /\ put'[g] = put[g] /\ earlier'[g] = earlier[g],
           put'[f] \notin {"none", "accepted"},
           \A g \in earlier'[f] : row[g] # "none" /\ req[g] = req'[f] /\ g # f,
           put'[f] = "insert" => \A g \in earlier'[f] : seq[g] < seq'[f]
    PROVE  OrderInv'
<1>1. \A g : InChat(g)' <=> InChat(g)
  BY DEF InChat
<1>2. ~InChat(f) /\ \A r \in Runs : f \notin todo[r] /\ ~Serves(r, f)
  BY DEF OrderInv, ChatRows, SteerInv, DrainedRows, Serves
<1>3. \A g \in Followups : f \notin earlier[g]
  BY DEF OrderInv, EarlierRows
<1>4. \A g : InChat(g) => g \in Followups /\ g # f
  BY <1>2 DEF InChat, TypeOK
<1>5. TranscriptInOrder'
  BY <1>4, OrderKept DEF OrderInv
<1>6. AcceptedRows'
  BY DEF OrderInv, AcceptedRows
<1>7. EarlierRows'
  <2> SUFFICES ASSUME NEW g \in Followups, NEW h \in Followups, g \in earlier'[h]
               PROVE  /\ row'[g] # "none" /\ put'[h] # "none" /\ req'[g] = req'[h]
                      /\ put'[h] = "insert" \/ row'[h] # "none" => seq'[g] < seq'[h]
    BY DEF EarlierRows
  <2>1. CASE h = f
    BY <2>1
  <2>2. CASE h # f
    BY <1>3, <2>2 DEF OrderInv, EarlierRows
  <2> QED
    BY <2>1, <2>2
<1>8. ExecRows'
  BY <1>2 DEF OrderInv, ExecRows, execVars, TypeOK, SteerInv, DrainedRows
<1>9. ChatRows'
  BY <1>1, <1>4 DEF OrderInv, ChatRows
<1>10. ChatFirst'
  BY <1>1, <1>3, <1>4 DEF OrderInv, ChatFirst, Serves, execVars
<1>11. HandFirst'
  BY <1>2, <1>3 DEF OrderInv, HandFirst, Serves, execVars
<1> QED
  BY <1>5, <1>6, <1>7, <1>8, <1>9, <1>10, <1>11 DEF OrderInv

\* Every step keeps OrderInv.
LEMMA OrderStep ==
    ASSUME TypeOK, TypeOK', SteerInv, OrderInv, [Next]_vars
    PROVE  OrderInv'
<1>0. UNCHANGED chat => \A g : InChat(g)' <=> InChat(g)
  BY DEF InChat
<1>1. ASSUME NEW f \in Followups, PutReq(f) PROVE OrderInv'
  <2>1. /\ row[f] = "none" /\ UNCHANGED <<run, row, chat, execVars>>
        /\ put'[f] = "check"
        /\ \A g \in Followups : g # f =>
             /\ req'[g] = req[g] /\ kind'[g] = kind[g] /\ seq'[g] = seq[g]
             /\ put'[g] = put[g] /\ earlier'[g] = earlier[g]
    BY <1>1 DEF PutReq, execVars, TypeOK, SteerInv, PutsInsertLast
  <2>2. \A g \in earlier'[f] : row[g] # "none" /\ req[g] = req'[f] /\ g # f
    BY <1>1 DEF PutReq, TypeOK, OrderInv, AcceptedRows
  <2> QED
    BY <2>1, <2>2, PutFrame
<1>2. ASSUME NEW f \in Followups, PutCheck(f) \/ PutFail(f) PROVE OrderInv'
  <2>1. /\ row[f] = "none" /\ UNCHANGED <<run, row, chat, execVars>>
        /\ put'[f] \in {"check", "seq", "rejected"} /\ req'[f] = req[f] /\ put[f] # "none"
        /\ UNCHANGED earlier
        /\ \A g \in Followups : g # f =>
             req'[g] = req[g] /\ kind'[g] = kind[g] /\ seq'[g] = seq[g] /\ put'[g] = put[g]
    BY <1>2 DEF PutCheck, PutFail, PutRefused, InFlight, execVars, TypeOK, SteerInv,
                PutsInsertLast
  <2>2. \A g \in earlier[f] : g \in Followups /\ row[g] # "none" /\ req[g] = req[f] /\ g # f
    BY <2>1 DEF TypeOK, OrderInv, EarlierRows
  <2> QED
    BY <2>1, <2>2, PutFrame
<1>3. ASSUME NEW f \in Followups, PutSeq(f) PROVE OrderInv'
  <2>1. /\ row[f] = "none" /\ UNCHANGED <<run, row, chat, execVars>>
        /\ put'[f] = "insert" /\ req'[f] = req[f] /\ UNCHANGED earlier
        /\ \A g \in Followups : g # f =>
             req'[g] = req[g] /\ kind'[g] = kind[g] /\ seq'[g] = seq[g] /\ put'[g] = put[g]
    BY <1>3 DEF PutSeq, execVars, TypeOK, SteerInv, PutsInsertLast
  <2>2. \A g \in earlier[f] : g \in Followups /\ row[g] # "none" /\ req[g] = req[f] /\ g # f
    BY <2>1 DEF TypeOK, OrderInv, EarlierRows
  <2>3. \A g \in earlier[f] : seq[g] < seq'[f]
    BY <1>3, <2>2 DEF PutSeq, IsNextSeq, TypeOK
  <2> QED
    BY <2>1, <2>2, <2>3, PutFrame
<1> USE DEF OrderInv, AcceptedRows, EarlierRows, ExecRows, ChatRows, ChatFirst, HandFirst,
        Serves, TypeOK, SteerInv, PutsInsertLast, DrainedRows
<1>4. ASSUME NEW f \in Followups, PutInsert(f) PROVE OrderInv'
  BY <1>4, <1>0, OrderKept DEF PutInsert, execVars
<1>5. ASSUME NEW f \in Followups, Cancel(f) PROVE OrderInv'
  BY <1>5, <1>0, OrderKept DEF Cancel, putVars, execVars
<1>6. ASSUME NEW r \in Runs, AbortRun(r) PROVE OrderInv'
  BY <1>6, <1>0, OrderKept DEF AbortRun, putVars, execVars
<1>7. ASSUME NEW r \in Runs, AbortFollowups(r) PROVE OrderInv'
  BY <1>7, <1>0, OrderKept DEF AbortFollowups, putVars, execVars
<1>8. ASSUME NEW r \in Runs, Take(r) PROVE OrderInv'
  BY <1>8, <1>0, OrderKept DEF Take, Go, At, putVars
<1>9. ASSUME NEW r \in Runs, DrainRead(r) PROVE OrderInv'
  BY <1>9, <1>0, OrderKept DEF DrainRead, Pending, Go, At, putVars
<1>10. ASSUME NEW r \in Runs, DrainInsert(r) PROVE OrderInv'
  <2>1. PICK f \in todo[r] : /\ chat' = Append(chat, f) /\ cur' = [cur EXCEPT ![r] = f]
                             /\ \A g \in todo[r] : seq[f] <= seq[g]
    BY <1>10 DEF DrainInsert, IsFirst
  <2>2. /\ f \in Followups /\ req[f] = r /\ kind[f] = "steer" /\ row[f] # "none"
        /\ ex[r] = "steer" /\ ex' = [ex EXCEPT ![r] = "mark"]
        /\ UNCHANGED <<run, row, req, kind, seq, put, earlier, todo>>
    BY <1>10, <2>1 DEF DrainInsert, Go, At, putVars
  <2>3. TranscriptInOrder' /\ \A g \in Followups : InChat(g)' <=> InChat(g) \/ g = f
    BY <2>1, <2>2, OrderGrows
  <2>4. AcceptedRows' /\ EarlierRows' /\ ExecRows' /\ HandFirst'
    BY <2>1, <2>2
  <2>5. ChatRows'
    BY <2>2, <2>3
  <2>6. \A g \in Followups : g \in earlier[f] /\ kind[g] = "steer" =>
          row[g] # "pending" /\ \A s \in Runs : g \notin todo[s] /\ ~Serves(s, g)
    BY <2>1, <2>2
  <2>7. ChatFirst'
    BY <2>1, <2>2, <2>3, <2>6
  <2> QED
    BY <2>3, <2>4, <2>5, <2>7
<1>11. ASSUME NEW r \in Runs, DrainMark(r) PROVE OrderInv'
  BY <1>11, <1>0, OrderKept DEF DrainMark, Go, At, putVars
<1>12. ASSUME NEW r \in Runs, DrainCount(r) PROVE OrderInv'
  BY <1>12, <1>0, OrderKept DEF DrainCount, Go, At, putVars
<1>13. ASSUME NEW r \in Runs, TurnOk(r) PROVE OrderInv'
  BY <1>13, <1>0, OrderKept DEF TurnOk, Go, At, putVars
<1>14. ASSUME NEW r \in Runs, TurnErr(r) PROVE OrderInv'
  BY <1>14, <1>0, OrderKept DEF TurnErr, Go, putVars
<1>15. ASSUME NEW r \in Runs, NextRead(r) PROVE OrderInv'
  <2>1. TranscriptInOrder' /\ ex[r] = "next"
    BY <1>15, OrderKept DEF NextRead, At, putVars
  <2>2. CASE Pending(r, "queue") = {}
    <3>1. ex' = [ex EXCEPT ![r] = "over"] /\ UNCHANGED cur
      BY <1>15, <2>2 DEF NextRead, Go
    <3> QED
      BY <1>15, <1>0, <2>1, <3>1 DEF NextRead, putVars
  <2>3. CASE Pending(r, "queue") # {}
    <3>1. PICK f \in Pending(r, "queue") :
            /\ cur' = [cur EXCEPT ![r] = f] /\ ex' = [ex EXCEPT ![r] = "deliver"]
            /\ \A g \in Pending(r, "queue") : seq[f] <= seq[g]
      BY <1>15, <2>3 DEF NextRead, IsFirst, Go
    <3>2. f \in Followups /\ row[f] = "pending" /\ req[f] = r /\ kind[f] = "queue"
      BY <3>1 DEF Pending
    <3>3. \A g \in Followups : g \in earlier[f] /\ row[g] = "pending" => kind[g] # "queue"
      BY <3>1, <3>2 DEF Pending
    <3>4. UNCHANGED <<run, row, req, kind, seq, put, earlier, todo, chat>>
      BY <1>15 DEF NextRead, putVars
    <3>5. AcceptedRows' /\ EarlierRows' /\ ExecRows' /\ ChatRows'
      BY <1>0, <3>1, <3>2, <3>4
    <3>6. ChatFirst'
      BY <1>0, <3>1, <3>2, <3>4
    <3>7. HandFirst'
      BY <3>1, <3>2, <3>3, <3>4
    <3> QED
      BY <2>1, <3>5, <3>6, <3>7
  <2> QED
    BY <2>2, <2>3
<1>16. ASSUME NEW r \in Runs, NextMark(r) PROVE OrderInv'
  BY <1>16, <1>0, OrderKept DEF NextMark, Go, At, putVars
<1>17. ASSUME NEW r \in Runs, NextMsg(r) PROVE OrderInv'
  <2>1. PICK f \in Followups : f = cur[r]
    BY <1>17 DEF NextMsg, At
  <2>2. /\ req[f] = r /\ kind[f] = "queue" /\ row[f] # "none" /\ Serves(r, f)
        /\ ex[r] = "msg" /\ ex' = [ex EXCEPT ![r] = "run"] /\ chat' = Append(chat, f)
        /\ UNCHANGED <<run, row, req, kind, seq, put, earlier, todo, cur>>
    BY <1>17, <2>1 DEF NextMsg, Go, At, putVars
  <2>3. TranscriptInOrder' /\ \A g \in Followups : InChat(g)' <=> InChat(g) \/ g = f
    BY <2>2, OrderGrows
  <2>4. AcceptedRows' /\ EarlierRows' /\ ExecRows' /\ HandFirst'
    BY <2>1, <2>2
  <2>5. ChatRows'
    BY <2>2, <2>3
  <2>6. \A g \in Followups : g \in earlier[f] /\ kind[g] = "queue" =>
          row[g] # "pending" /\ \A s \in Runs : g \notin todo[s] /\ ~Serves(s, g)'
    BY <2>1, <2>2
  <2>7. ChatFirst'
    BY <2>1, <2>2, <2>3, <2>6
  <2> QED
    BY <2>3, <2>4, <2>5, <2>7
<1>18. ASSUME NEW r \in Runs, NextRun(r) PROVE OrderInv'
  BY <1>18, <1>0, OrderKept DEF NextRun, Go, At, putVars
<1>19. ASSUME NEW r \in Runs, NextRound(r) PROVE OrderInv'
  BY <1>19, <1>0, OrderKept DEF NextRound, Go, At, putVars
<1>20. ASSUME NEW r \in Runs, DrainFail(r) PROVE OrderInv'
  BY <1>20, <1>0, OrderKept DEF DrainFail, Go, putVars
<1>21. ASSUME NEW r \in Runs, NextFail(r) PROVE OrderInv'
  BY <1>21, <1>0, OrderKept DEF NextFail, Go, putVars
<1>22. ASSUME NEW r \in Runs, Crash(r) PROVE OrderInv'
  BY <1>22, <1>0, OrderKept DEF Crash, Go, putVars
<1>23. ASSUME Submit PROVE OrderInv'
  BY <1>23, <1>0, OrderKept DEF Submit, putVars, execVars
<1>24. CASE UNCHANGED vars
  BY <1>24, <1>0, OrderKept DEF vars
<1> QED
  BY <1>1, <1>2, <1>3, <1>4, <1>5, <1>6, <1>7, <1>8, <1>9, <1>10, <1>11,
    <1>12, <1>13, <1>14, <1>15, <1>16, <1>17, <1>18, <1>19, <1>20, <1>21,
    <1>22, <1>23, <1>24 DEF Next, Exec

\* The follow-ups of each kind reach the transcript in the order in which they
\* were sent, however many puts overlap, across rounds, crashes, failing
\* statements and executions that repeat a drain.
THEOREM TranscriptCorrect == Spec => []TranscriptInOrder
<1>1. Init => SteerInv
  BY DEF Init, SteerInv, PutsInsertLast, DrainedRows, SteerReachesChat
<1>2. Init => OrderInv
  BY DEF Init, OrderInv, AcceptedRows, EarlierRows, ExecRows, ChatRows, InChat, ChatFirst,
         HandFirst, Serves, TranscriptInOrder
<1>3. TypeOK /\ TypeOK' /\ SteerInv /\ [Next]_vars => SteerInv'
  BY SteerStep
<1>4. TypeOK /\ TypeOK' /\ SteerInv /\ OrderInv /\ [Next]_vars => OrderInv'
  BY OrderStep
<1>5. OrderInv => TranscriptInOrder
  BY DEF OrderInv
<1> QED
  BY <1>1, <1>2, <1>3, <1>4, <1>5, TypeCorrect, PTL DEF Spec

=============================================================================
