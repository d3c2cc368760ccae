------------------------------- MODULE Ledger -------------------------------
(***************************************************************************)
(* What top-ups and referral commissions promise, without saying how: an   *)
(* order is credited once or closed, a credit adds exactly the ordered     *)
(* amount to the payer and may owe commission to others, and commission    *)
(* that is owed leaves once, to the bank or to the owner's own balance.    *)
(* Payments.tla implements it.                                             *)
(***************************************************************************)
EXTENDS Integers

CONSTANTS
    Owners,  \* owners of billing accounts
    Orders,  \* top-up orders
    Payer,   \* owner an order belongs to
    Amount   \* what an order credits

VARIABLES
    order,   \* "open", "credited" or "closed"
    balance, \* what each owner can spend
    owed     \* commission each owner has earned and not been paid

lvars == <<order, balance, owed>>

LInit ==
    /\ order = [o \in Orders |-> "open"]
    /\ balance = [u \in Owners |-> 0]
    /\ owed = [u \in Owners |-> 0]

Credit(o) ==
    /\ order[o] = "open"
    /\ order' = [order EXCEPT ![o] = "credited"]
    /\ balance' = [balance EXCEPT ![Payer[o]] = @ + Amount[o]]
    /\ owed' \in [Owners -> Nat]
    /\ \A u \in Owners : owed'[u] >= owed[u]
    /\ owed'[Payer[o]] = owed[Payer[o]]

Close(o) ==
    /\ order[o] = "open"
    /\ order' = [order EXCEPT ![o] = "closed"]
    /\ UNCHANGED <<balance, owed>>

\* Some of what is owed to u is paid, to the bank or to the balance of u.
Pay(u) ==
    /\ owed' = [owed EXCEPT ![u] = owed'[u]]
    /\ owed'[u] \in 0..owed[u]
    /\ \/ UNCHANGED balance
       \/ balance' = [balance EXCEPT ![u] = @ + (owed[u] - owed'[u])]
    /\ UNCHANGED order

LNext ==
    \/ \E o \in Orders : Credit(o) \/ Close(o)
    \/ \E u \in Owners : Pay(u)

LSpec == LInit /\ [][LNext]_lvars
=============================================================================
