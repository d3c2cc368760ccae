------------------------------ MODULE RunSpec ------------------------------
(***************************************************************************)
(* What a prompt run promises to its owner, without pods, messages or      *)
(* deliveries: an accepted run is executed only while it is open and never *)
(* twice at once, it ends once, an execution that has answered may charge  *)
(* it, at most one of them does, and only then is its hold settled.        *)
(* PromptRun.tla implements it as long as JetStream sends a run to one pod *)
(* at a time.                                                              *)
(***************************************************************************)
CONSTANTS
    Runs,  \* prompt runs
    Jobs,  \* executions of runs
    Of     \* run that an execution belongs to

VARIABLES
    phase, \* "none", "open", or how the run ended
    hold,  \* the reservation of a run
    work,  \* executions in their turn
    owing, \* executions that have answered and may still charge
    paid   \* executions that have charged

rvars == <<phase, hold, work, owing, paid>>

Ends == {"done", "failed", "cancelled"}

RInit ==
    /\ phase = [r \in Runs |-> "none"]
    /\ hold = [r \in Runs |-> "none"]
    /\ work = {} /\ owing = {} /\ paid = {}

\* Nobody executes a turn of run r.
Idle(r) == \A j \in work : Of[j] # r

Accept(r) ==
    /\ phase[r] = "none"
    /\ phase' = [phase EXCEPT ![r] = "open"]
    /\ UNCHANGED <<hold, work, owing, paid>>

Moves(r, from, to) == hold' = [hold EXCEPT ![r] = IF @ = from THEN to ELSE @]

Begin(j) ==
    /\ phase[Of[j]] = "open" /\ Idle(Of[j])
    /\ work' = work \cup {j}
    /\ Moves(Of[j], "none", "held") \/ UNCHANGED hold
    /\ UNCHANGED <<phase, owing, paid>>

Answer(j) ==
    /\ j \in work
    /\ work' = work \ {j}
    /\ owing' = owing \cup {j}
    /\ UNCHANGED <<phase, hold, paid>>

\* The turn ends without an answer.
GiveUp(j) ==
    /\ j \in work
    /\ work' = work \ {j}
    /\ Moves(Of[j], "held", "refunded") \/ UNCHANGED hold
    /\ UNCHANGED <<phase, owing, paid>>

End(r, how) ==
    /\ phase[r] = "open" /\ Idle(r)
    /\ phase' = [phase EXCEPT ![r] = how]
    /\ UNCHANGED <<hold, work, owing, paid>>

\* A run that is not executed gives its hold back.
Release(r) ==
    /\ phase[r] # "none" /\ Idle(r)
    /\ Moves(r, "held", "refunded")
    /\ UNCHANGED <<phase, work, owing, paid>>

Charge(j) ==
    /\ j \in owing
    /\ \A i \in paid : Of[i] # Of[j]
    /\ paid' = paid \cup {j}
    /\ UNCHANGED <<phase, hold, work, owing>>

Settle(j) ==
    /\ j \in owing \cap paid
    /\ owing' = owing \ {j}
    /\ Moves(Of[j], "held", "settled")
    /\ UNCHANGED <<phase, work, paid>>

\* An execution that has answered charges nothing, and may free the hold.
Waive(j) ==
    /\ j \in owing
    /\ owing' = owing \ {j}
    /\ Moves(Of[j], "held", "refunded") \/ UNCHANGED hold
    /\ UNCHANGED <<phase, work, paid>>

\* Executions die, with what they still had to charge.
Lose ==
    /\ work' \subseteq work /\ owing' \subseteq owing
    /\ UNCHANGED <<phase, hold, paid>>

RNext ==
    \/ \E r \in Runs : Accept(r) \/ Release(r) \/ \E how \in Ends : End(r, how)
    \/ \E j \in Jobs : \/ Begin(j) \/ Answer(j) \/ GiveUp(j)
                       \/ Charge(j) \/ Settle(j) \/ Waive(j)
    \/ Lose

RSpec == RInit /\ [][RNext]_rvars
=============================================================================
