----------------------------- MODULE MCTaskRun -----------------------------
(***************************************************************************)
(* Instances of TaskRun for TLC.                                           *)
(***************************************************************************)
EXTENDS TaskRun, TLC

CONSTANTS p, a, b, q0, s1, s2, NoReq

\* An orchestrator with two shell chunks, started by a tool of a chat turn
\* with the req_id q0 of the turn.
FanKind == p :> "fanout" @@ a :> "shell" @@ b :> "shell"
FanParent == p :> NoRun @@ a :> p @@ b :> p
FanReq == p :> q0 @@ a :> a @@ b :> b

\* An orchestrator with one shell chunk, and a run of the device alone.
TreeKind == p :> "fanout" @@ a :> "shell" @@ b :> "agent"
TreeParent == p :> NoRun @@ a :> p @@ b :> NoRun
TreeReq == p :> p @@ a :> a @@ b :> b
PodSymmetry == Permutations({s1, s2})

\* A single shell chunk, started on its own or by a chat turn.
OneKind == a :> "shell"
OneParent == a :> NoRun
OneReq == a :> q0

\* Budgets: crashes, failing statements, cancel requests, device reports,
\* lost writes.
Events5(x, f, k, r, w) ==
    "crash" :> x @@ "fail" :> f @@ "cancel" :> k @@ "report" :> r @@ "lost" :> w
BudgetNone == Events5(0, 0, 0, 0, 0)
BudgetFaults == Events5(1, 1, 0, 0, 1)
BudgetCancel == Events5(0, 0, 1, 0, 0)
BudgetStops == Events5(0, 0, 1, 1, 0)

=============================================================================
