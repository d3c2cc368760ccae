-------------------------- MODULE MCPromptFollowup --------------------------
(***************************************************************************)
(* Instances of PromptFollowup for TLC.                                    *)
(***************************************************************************)
EXTENDS PromptFollowup, TLC

CONSTANTS f1, f2, f3

AskEach == f1 :> "queue" @@ f2 :> "channel" @@ f3 :> "channel"
AskQueue == f1 :> "queue" @@ f2 :> "queue"
AskSteer == f1 :> "steer" @@ f2 :> "steer"
SameAsk == Permutations({f2, f3})

\* Budgets: crashes, failing statements, aborts, prompts sent when idle, lost
\* finishing writes; no more than two of these events in all.
Events5(c, w, a, s, l) ==
    "crash" :> c @@ "write" :> w @@ "abort" :> a @@ "submit" :> s @@ "lost" :> l
        @@ "any" :> 2
BudgetEach == Events5(1, 2, 1, 1, 1)
BudgetNone == Events5(0, 0, 0, 0, 0)
BudgetCrash == Events5(1, 0, 0, 0, 0)
BudgetSubmit == Events5(0, 0, 0, 1, 0)
BudgetLost == Events5(0, 0, 0, 0, 1)

=============================================================================
