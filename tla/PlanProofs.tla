----------------------------- MODULE PlanProofs -----------------------------
(***************************************************************************)
(* Proofs about Plan, for any requests, plans, prices and limits: its      *)
(* types, that no money is lost between the top-ups, the usage and the     *)
(* changes, that a purchase leaves what is held, that the two rows name    *)
(* the same tier, and the daily cap.                                       *)
(***************************************************************************)
EXTENDS Plan, TLAPS

Records == [job : Jobs, at : Places, target : Plans \cup {Free, None},
            kind : Kinds, charge : Nat, keep : Nat, seen : Nat]
Changing == {"quote", "keep", "begin", "lock", "check", "apply"}
Immediate == {"subscribe", "upgrade"}

\* What a request knows at each place.
ReqOK(q) ==
    /\ q.at \in Changing => q.target \in Plans \cup {Free}
    /\ q.at \in Changing \ {"quote"} => q.kind # "none"
    /\ q.at \in Changing \ {"quote"} /\ q.kind \in Immediate => q.target \in Plans
ReqInv == \A r \in Requests : ReqOK(req[r])

\* A row is locked by the request that is between its lock and its commit, and
\* a locked account keeps the balance that was read and the holds that were
\* checked.
LockOK(r) ==
    /\ lock.account = r <=> req[r].at \in {"check", "apply"}
    /\ lock.profile = r <=> req[r].at = "lapse_account"
    /\ req[r].at \in {"check", "apply"} => req[r].seen = balance
    /\ req[r].at = "apply" /\ req[r].kind \in Immediate =>
          req[r].charge = 0 \/ req[r].seen - held >= req[r].charge
LockInv == \A r \in Requests : LockOK(r)

\* The counters are of today or of a day before, and count what was admitted.
QuotaInv ==
    /\ quota.day <= now
    /\ quota.msgs <= MsgsPerDay
    /\ \A d \in 0..Horizon : /\ d > now => admitted[d] = 0
                             /\ d = now => admitted[d] <= (IF quota.day = now THEN quota.msgs ELSE 0)

-----------------------------------------------------------------------------
(* Where a request goes                                                    *)

LEMMA QuietOK == Quiet \in Records /\ ReqOK(Quiet) /\ Quiet.at = "idle"
BY DEF Quiet, Records, ReqOK, Jobs, Places, Kinds, Changing

\* The records a request may have after it has left a change or a lapse.
LEMMA Outcomes ==
    ASSUME req \in [Requests -> Records], NEW r \in Requests
    PROVE  \A q \in {Quiet, Lapsed(r), Failed(r), Renewed(r)} :
              /\ q \in Records
              /\ ReqOK(q)
              /\ q.at \in {"idle", "applies", "lapse_begin"}
<1>1. req[r] \in Records
  OBVIOUS
<1>2. Lapsed(r) \in Records /\ Lapsed(r).at \in {"idle", "applies"}
  BY <1>1, QuietOK DEF Lapsed, Records, Places
<1>3. Failed(r) \in Records /\ Failed(r).at \in {"idle", "lapse_begin"}
  BY <1>1, QuietOK DEF Failed, Records, Places, Kinds
<1>4. Renewed(r) \in Records /\ Renewed(r).at \in {"idle", "applies"}
  BY <1>1, QuietOK DEF Renewed, Records, Places, Quiet
<1>5. \A q \in {Quiet, Lapsed(r), Failed(r), Renewed(r)} :
         q \in Records /\ q.at \in {"idle", "applies", "lapse_begin"}
  BY <1>2, <1>3, <1>4, QuietOK
<1>6. \A q \in Records : q.at \in {"idle", "applies", "lapse_begin"} => ReqOK(q)
  BY DEF ReqOK, Changing, Records
<1>7. QED BY <1>5, <1>6

-----------------------------------------------------------------------------
(* Amounts                                                                 *)

LEMMA ProductInt == ASSUME NEW x \in Int, NEW y \in Int PROVE x * y \in Int
OBVIOUS

LEMMA QuotientInt == ASSUME NEW x \in Int, NEW y \in Nat \ {0} PROVE x \div y \in Int
OBVIOUS

LEMMA ChargeNat ==
    ASSUME TypeOK, NEW target \in Plans \cup {Free}, NEW kind, kind = Classify(target)
    PROVE  /\ kind # "same" => kind \in Kinds \ {"none"} /\ Charge(target, kind) \in Nat
           /\ kind \in Immediate => target \in Plans
<1>1. target = Free => kind = "cancel"
  BY DEF Classify
<1>2. target # Free /\ (~Paid(profile.plan) \/ Expired) => kind = "subscribe"
  BY DEF Classify
<1>3. target # Free /\ Paid(profile.plan) /\ ~Expired /\ target = profile.plan => kind = "same"
  BY DEF Classify
<1>4. target # Free /\ Paid(profile.plan) /\ ~Expired /\ target # profile.plan
        => kind \in {"upgrade", "downgrade"}
  BY DEF Classify
<1>5. kind \in {"cancel", "subscribe", "same", "upgrade", "downgrade"}
  BY <1>1, <1>2, <1>3, <1>4
<1>6. kind \in Immediate => target \in Plans
  BY <1>1, <1>5 DEF Immediate
<1>7. kind = "upgrade" => Credit \in Int
  <2>1. SUFFICES ASSUME kind = "upgrade" PROVE Credit \in Int
    OBVIOUS
  <2>2. profile.plan \in Plans
    BY <2>1, <1>1, <1>2 DEF Paid, TypeOK
  <2>3. Price[profile.plan] \in Int /\ Days[profile.plan] \in Nat \ {0}
    BY <2>2, PlanAssumption
  <2>4. profile.until - now \in Int
    BY QuotaAssumption DEF TypeOK
  <2>5. QED BY <2>3, <2>4, ProductInt, QuotientInt DEF Credit
<1>8. kind # "same" => Charge(target, kind) \in Nat
  <2>1. CASE kind = "upgrade"
    BY <2>1, <1>6, <1>7, PlanAssumption DEF Charge, Immediate
  <2>2. CASE kind = "subscribe"
    BY <2>2, <1>6, PlanAssumption DEF Charge, Immediate
  <2>3. CASE kind \in {"cancel", "downgrade"}
    BY <2>3 DEF Charge
  <2>4. QED BY <1>5, <2>1, <2>2, <2>3
<1>9. QED BY <1>5, <1>6, <1>8 DEF Kinds

-----------------------------------------------------------------------------
(* What a step does to the request, the locks, the balance and the holds   *)

Holders == {"check", "apply", "lapse_account"}
Move(r, q) == req' = [req EXCEPT ![r] = q] /\ q \in Records /\ ReqOK(q)
Frame == balance' = balance /\ held' = held

\* The request holds no row, before and after.
Walks(r, q) ==
    /\ Move(r, q) /\ Frame /\ lock' = lock
    /\ req[r].at \notin Holders /\ q.at \notin Holders
\* The request gives up its rows; only its commit changes the balance.
Leaves(r, q) ==
    /\ Move(r, q) /\ held' = held /\ lock' = Unlocked(r)
    /\ q.at \notin Holders
    /\ balance' = balance \/ req[r].at = "apply"
LocksAccount(r, q) ==
    /\ Move(r, q) /\ Frame
    /\ lock.account = None /\ lock' = [lock EXCEPT !.account = r]
    /\ req[r].at = "lock" /\ q.seen = balance
    /\ q.at = "check"
Passes(r, q) ==
    /\ Move(r, q) /\ Frame /\ lock' = lock
    /\ req[r].at = "check" /\ q.at = "apply" /\ q.seen = req[r].seen
    /\ q.charge = 0 \/ q.seen - held >= q.charge
LocksProfile(r, q) ==
    /\ Move(r, q) /\ Frame
    /\ lock.profile = None /\ lock' = [lock EXCEPT !.profile = r]
    /\ req[r].at = "lapse_begin" /\ q.at = "lapse_account"
\* A step of somebody else, which waits for the account row.
Waits == req' = req /\ lock' = lock /\ (Frame \/ lock.account = None)

Effect(r) ==
    \E q \in Records : \/ Walks(r, q) \/ Leaves(r, q) \/ LocksAccount(r, q)
                       \/ Passes(r, q) \/ LocksProfile(r, q)

LEMMA ChangeEffects ==
    ASSUME TypeOK, ReqInv, NEW r \in Requests,
           \/ ChangeQuote(r) \/ ChangeKeep(r) \/ ChangeBegin(r) \/ ChangeLock(r)
           \/ ChangeCheck(r) \/ ChangeApply(r) \/ \E target \in Plans \cup {Free} : ChangeStart(r, target)
    PROVE  Effect(r)
<1>0. req \in [Requests -> Records] /\ req[r] \in Records /\ ReqOK(req[r])
  BY DEF TypeOK, ReqInv, Records
<1>1. ASSUME NEW target \in Plans \cup {Free}, ChangeStart(r, target) PROVE Effect(r)
  <2> DEFINE q == [Quiet EXCEPT !.job = "change", !.at = "quote", !.target = target]
  <2>1. q \in Records /\ ReqOK(q) /\ q.at = "quote"
    BY QuietOK DEF Quiet, Records, ReqOK, Jobs, Places, Changing
  <2>2. Walks(r, q)
    BY <1>1, <2>1 DEF ChangeStart, Walks, Move, Frame, Finish, At, Holders
  <2>3. QED BY <2>1, <2>2 DEF Effect
<1>2. CASE ChangeQuote(r)
  <2> DEFINE kind == Classify(req[r].target)
             q == [req[r] EXCEPT !.kind = kind, !.charge = Charge(req[r].target, kind),
                                 !.at = IF kind = "upgrade" THEN "keep" ELSE "begin"]
  <2>1. req[r].at = "quote" /\ req[r].target \in Plans \cup {Free}
    BY <1>0, <1>2 DEF ChangeQuote, At, ReqOK, Changing
  <2>2. /\ balance' = balance /\ held' = held /\ lock' = lock
        /\ req' = [req EXCEPT ![r] = Failed(r)] \/ (kind # "same" /\ req' = [req EXCEPT ![r] = q])
    BY <1>2 DEF ChangeQuote, Finish
  <2>3. CASE req' = [req EXCEPT ![r] = Failed(r)]
    BY <1>0, <2>1, <2>2, <2>3, Outcomes DEF Effect, Walks, Move, Frame, Holders
  <2>4. CASE kind # "same" /\ req' = [req EXCEPT ![r] = q]
    <3>1. kind \in Kinds \ {"none"} /\ Charge(req[r].target, kind) \in Nat
          /\ (kind \in Immediate => req[r].target \in Plans)
      BY <2>1, <2>4, ChargeNat
    <3> HIDE DEF kind
    <3>2. q \in Records /\ ReqOK(q) /\ q.at \in {"keep", "begin"}
      BY <1>0, <2>1, <3>1 DEF Records, ReqOK, Places, Changing
    <3>3. Walks(r, q)
      BY <2>1, <2>2, <2>4, <3>2 DEF Walks, Move, Frame, Holders
    <3>4. QED BY <3>2, <3>3 DEF Effect
  <2>5. QED BY <2>2, <2>3, <2>4
<1>3. CASE ChangeKeep(r)
  <2> DEFINE q == [req[r] EXCEPT !.keep = profile.until, !.at = "begin"]
  <2>1. req[r].at = "keep"
    BY <1>3 DEF ChangeKeep, At
  <2>2. q \in Records /\ ReqOK(q) /\ q.at = "begin"
    BY <1>0, <2>1 DEF Records, ReqOK, Places, Changing, TypeOK
  <2>3. Walks(r, q)
    BY <1>3, <2>1, <2>2 DEF ChangeKeep, Walks, Move, Frame, Finish, Holders
  <2>4. QED BY <2>2, <2>3 DEF Effect
<1>4. CASE ChangeBegin(r)
  <2> DEFINE q == [req[r] EXCEPT !.at = "lock"]
  <2>1. req[r].at = "begin"
    BY <1>4 DEF ChangeBegin, At
  <2>2. q \in Records /\ ReqOK(q) /\ q.at = "lock"
    BY <1>0, <2>1 DEF Records, ReqOK, Places, Changing
  <2>3. req' = [req EXCEPT ![r] = q]
    BY <1>0, <1>4 DEF ChangeBegin, Goto
  <2>4. Walks(r, q)
    BY <1>4, <2>1, <2>2, <2>3 DEF ChangeBegin, Walks, Move, Frame, Holders
  <2>5. QED BY <2>2, <2>4 DEF Effect
<1>5. CASE ChangeLock(r)
  <2> DEFINE q == [req[r] EXCEPT !.seen = balance, !.at = "check"]
  <2>1. req[r].at = "lock" /\ lock.account = None
    BY <1>5 DEF ChangeLock, At
  <2>2. req[r].kind \in Kinds \ {"none"} /\ (req[r].kind \in Immediate => req[r].target \in Plans)
    BY <1>0, <2>1 DEF ReqOK, Changing, Records
  <2>3. q \in Records /\ ReqOK(q) /\ q.at = "check" /\ q.seen = balance
    BY <1>0, <2>1, <2>2 DEF Records, ReqOK, Places, Changing, Immediate, Kinds, TypeOK
  <2>4. /\ balance' = balance /\ held' = held
        /\ \/ req' = [req EXCEPT ![r] = Failed(r)] /\ lock' = lock
           \/ req' = [req EXCEPT ![r] = q] /\ lock' = [lock EXCEPT !.account = r]
    BY <1>5 DEF ChangeLock, Finish
  <2>5. CASE req' = [req EXCEPT ![r] = Failed(r)] /\ lock' = lock
    BY <1>0, <2>1, <2>4, <2>5, Outcomes DEF Effect, Walks, Move, Frame, Holders
  <2>6. CASE req' = [req EXCEPT ![r] = q] /\ lock' = [lock EXCEPT !.account = r]
    BY <2>1, <2>3, <2>4, <2>6 DEF Effect, LocksAccount, Move, Frame
  <2>7. QED BY <2>4, <2>5, <2>6
<1>6. CASE ChangeCheck(r)
  <2> DEFINE q == [req[r] EXCEPT !.at = "apply"]
  <2>1. req[r].at = "check"
    BY <1>6 DEF ChangeCheck, At
  <2>2. /\ balance' = balance /\ held' = held
        /\ \/ req' = [req EXCEPT ![r] = Failed(r)] /\ lock' = Unlocked(r)
           \/ /\ req' = [req EXCEPT ![r] = q] /\ lock' = lock
              /\ req[r].charge = 0 \/ req[r].seen - held >= req[r].charge
    BY <1>0, <1>6 DEF ChangeCheck, Finish, Goto, Release, Records, TypeOK
  <2>3. q \in Records /\ ReqOK(q) /\ q.at = "apply" /\ q.seen = req[r].seen /\ q.charge = req[r].charge
    BY <1>0, <2>1 DEF Records, ReqOK, Places, Changing
  <2>4. CASE req' = [req EXCEPT ![r] = Failed(r)] /\ lock' = Unlocked(r)
    BY <1>0, <2>2, <2>4, Outcomes DEF Effect, Leaves, Move, Holders
  <2>5. CASE /\ req' = [req EXCEPT ![r] = q] /\ lock' = lock
             /\ req[r].charge = 0 \/ req[r].seen - held >= req[r].charge
    BY <2>1, <2>2, <2>3, <2>5 DEF Effect, Passes, Move, Frame
  <2>6. QED BY <2>2, <2>4, <2>5
<1>7. CASE ChangeApply(r)
  <2>1. req[r].at = "apply" /\ held' = held /\ lock' = Unlocked(r)
    BY <1>7 DEF ChangeApply, At, Release
  <2>2. \E q \in {Quiet, Renewed(r)} : req' = [req EXCEPT ![r] = q]
    BY <1>7 DEF ChangeApply, Finish
  <2>3. QED BY <1>0, <2>1, <2>2, Outcomes DEF Effect, Leaves, Move, Holders
<1>8. QED BY <1>1, <1>2, <1>3, <1>4, <1>5, <1>6, <1>7

LEMMA LapseEffects ==
    ASSUME TypeOK, ReqInv, NEW r \in Requests,
           \/ LapseRead(r) \/ LapsePending(r) \/ LapseRenew(r) \/ LapseBegin(r) \/ LapseCommit(r)
           \/ FreemiumApplies(r) \/ FreemiumReserve(r) \/ \E n \in TurnTokens : FreemiumTokens(r, n)
           \/ Fail(r) \/ \E job \in Jobs \ {"change"} : LapseStart(r, job)
    PROVE  Effect(r)
<1>0. req \in [Requests -> Records] /\ req[r] \in Records /\ ReqOK(req[r])
  BY DEF TypeOK, ReqInv, Records
\* The record of a request that has only moved to a place outside of a change.
<1> DEFINE Moved(place) == [req[r] EXCEPT !.at = place]
<1>00. \A place \in {"lapse_pending", "renew", "lapse_begin", "lapse_account", "freemium"} :
         Moved(place) \in Records /\ ReqOK(Moved(place)) /\ Moved(place).at = place
  BY <1>0 DEF Records, ReqOK, Places, Changing
<1> HIDE DEF Moved
\* A request that holds no row goes to one of the records of Outcomes.
<1>01. ASSUME req[r].at \notin Holders, balance' = balance, held' = held, lock' = lock,
              NEW q \in {Quiet, Lapsed(r), Failed(r), Renewed(r)}, req' = [req EXCEPT ![r] = q]
       PROVE  Effect(r)
  BY <1>0, <1>01, Outcomes DEF Effect, Walks, Move, Frame, Holders
<1>02. ASSUME req[r].at \notin Holders, balance' = balance, held' = held, lock' = lock,
              NEW place \in {"lapse_pending", "renew", "lapse_begin", "freemium"},
              req' = [req EXCEPT ![r] = Moved(place)]
       PROVE  Effect(r)
  BY <1>00, <1>02 DEF Effect, Walks, Move, Frame, Holders
<1>1. ASSUME NEW job \in Jobs \ {"change"}, LapseStart(r, job) PROVE Effect(r)
  <2> DEFINE q == [Quiet EXCEPT !.job = job, !.at = "lapse_read"]
  <2>1. q \in Records /\ ReqOK(q) /\ q.at = "lapse_read"
    BY QuietOK DEF Quiet, Records, ReqOK, Places, Changing
  <2>2. Walks(r, q)
    BY <1>1, <2>1 DEF LapseStart, Walks, Move, Frame, Finish, At, Holders
  <2>3. QED BY <2>1, <2>2 DEF Effect
<1>2. CASE LapseRead(r)
  <2>1. /\ req[r].at = "lapse_read" /\ balance' = balance /\ held' = held /\ lock' = lock
        /\ \/ req' = [req EXCEPT ![r] = Lapsed(r)]
           \/ req' = [req EXCEPT ![r] = Moved("lapse_pending")]
    BY <1>2 DEF LapseRead, At, Finish, Moved
  <2>2. QED BY <2>1, <1>01, <1>02 DEF Holders
<1>3. CASE LapsePending(r)
  <2>1. /\ req[r].at = "lapse_pending" /\ balance' = balance /\ held' = held /\ lock' = lock
        /\ \/ req' = [req EXCEPT ![r] = Moved("renew")]
           \/ req' = [req EXCEPT ![r] = Moved("lapse_begin")]
    BY <1>0, <1>3 DEF LapsePending, At, Goto, Moved
  <2>2. QED BY <2>1, <1>02 DEF Holders
<1>4. CASE LapseRenew(r)
  <2> DEFINE q == [req[r] EXCEPT !.at = "quote", !.target = profile.pending]
  <2>1. /\ req[r].at = "renew" /\ balance' = balance /\ held' = held /\ lock' = lock
        /\ \/ req' = [req EXCEPT ![r] = Lapsed(r)]
           \/ profile.pending \in Plans /\ req' = [req EXCEPT ![r] = q]
    BY <1>4 DEF LapseRenew, At, Finish
  <2>2. profile.pending \in Plans => q \in Records /\ ReqOK(q) /\ q.at = "quote"
    BY <1>0 DEF Records, ReqOK, Places, Changing
  <2>3. CASE profile.pending \in Plans /\ req' = [req EXCEPT ![r] = q]
    BY <2>1, <2>2, <2>3 DEF Effect, Walks, Move, Frame, Holders
  <2>4. QED BY <2>1, <2>3, <1>01 DEF Holders
<1>5. CASE LapseBegin(r)
  <2>1. /\ req[r].at = "lapse_begin" /\ balance' = balance /\ held' = held
        /\ lock.profile = None /\ lock' = [lock EXCEPT !.profile = r]
        /\ req' = [req EXCEPT ![r] = Moved("lapse_account")]
    BY <1>0, <1>5 DEF LapseBegin, At, Goto, Moved
  <2>2. QED BY <2>1, <1>00 DEF Effect, LocksProfile, Move, Frame
<1>6. CASE LapseCommit(r)
  <2>1. balance' = balance /\ held' = held /\ lock' = Unlocked(r) /\ req' = [req EXCEPT ![r] = Lapsed(r)]
    BY <1>6 DEF LapseCommit, Finish, Release
  <2>2. QED BY <1>0, <2>1, Outcomes DEF Effect, Leaves, Move, Holders
<1>7. CASE FreemiumApplies(r)
  <2>1. /\ req[r].at = "applies" /\ balance' = balance /\ held' = held /\ lock' = lock
        /\ \/ req' = [req EXCEPT ![r] = Quiet]
           \/ req' = [req EXCEPT ![r] = Moved("freemium")]
    BY <1>7 DEF FreemiumApplies, At, Finish, Moved
  <2>2. QED BY <2>1, <1>01, <1>02 DEF Holders
<1>8. CASE FreemiumReserve(r)
  <2>1. /\ req[r].at = "freemium" /\ balance' = balance /\ held' = held /\ lock' = lock
        /\ req' = [req EXCEPT ![r] = Quiet]
    BY <1>8 DEF FreemiumReserve, At, Finish
  <2>2. QED BY <2>1, <1>01 DEF Holders
<1>9. ASSUME NEW n \in TurnTokens, FreemiumTokens(r, n) PROVE Effect(r)
  <2>1. /\ req[r].at = "freemium" /\ balance' = balance /\ held' = held /\ lock' = lock
        /\ req' = [req EXCEPT ![r] = Quiet]
    BY <1>9 DEF FreemiumTokens, At, Finish
  <2>2. QED BY <2>1, <1>01 DEF Holders
<1>10. CASE Fail(r)
  <2>1. balance' = balance /\ held' = held /\ lock' = Unlocked(r) /\ req' = [req EXCEPT ![r] = Failed(r)]
    BY <1>10 DEF Fail, Finish, Release
  <2>2. QED BY <1>0, <2>1, Outcomes DEF Effect, Leaves, Move, Holders
<1>11. QED BY <1>1, <1>2, <1>3, <1>4, <1>5, <1>6, <1>7, <1>8, <1>9, <1>10

\* Every step is one of a request, or of somebody who waits for the account.
LEMMA StepEffects ==
    ASSUME TypeOK, ReqInv, [Next]_vars
    PROVE  Waits \/ \E r \in Requests : Effect(r)
<1>1. ASSUME NEW r \in Requests,
             \/ Step(r) \/ Fail(r)
             \/ \E target \in Plans \cup {Free} : ChangeStart(r, target)
             \/ \E job \in Jobs \ {"change"} : LapseStart(r, job)
      PROVE  Effect(r)
  BY <1>1, ChangeEffects, LapseEffects DEF Step
<1>2. CASE Topup
  BY <1>2 DEF Topup, Waits, Spend
<1>3. CASE TurnHold
  BY <1>3 DEF TurnHold, Waits, Spend
<1>4. CASE TurnEnd
  BY <1>4 DEF TurnEnd, Waits
<1>5. CASE Tick
  BY <1>5 DEF Tick, Waits, Frame
<1>6. CASE UNCHANGED vars
  BY <1>6 DEF vars, Waits, Frame
<1>7. QED BY <1>1, <1>2, <1>3, <1>4, <1>5, <1>6 DEF Next

LEMMA ReqStep ==
    ASSUME TypeOK, ReqInv, [Next]_vars
    PROVE  req' \in [Requests -> Records] /\ ReqInv'
<1>0. req \in [Requests -> Records]
  BY DEF TypeOK, Records
<1>1. CASE req' = req
  BY <1>0, <1>1 DEF ReqInv
<1>2. ASSUME NEW r \in Requests, NEW q \in Records, Move(r, q)
      PROVE  req' \in [Requests -> Records] /\ ReqInv'
  BY <1>0, <1>2 DEF Move, ReqInv
<1>3. QED BY <1>1, <1>2, StepEffects
         DEF Waits, Effect, Walks, Leaves, LocksAccount, Passes, LocksProfile

-----------------------------------------------------------------------------
(* Locks                                                                   *)

LEMMA LockStep ==
    ASSUME TypeOK, ReqInv, LockInv, [Next]_vars
    PROVE  LockInv'
<1>0. /\ req \in [Requests -> Records] /\ None \notin Requests
      /\ lock \in [account : Requests \cup {None}, profile : Requests \cup {None}]
  BY RequestAssumption DEF TypeOK, Records
<1>1. CASE Waits
  <2>1. CASE Frame
    BY <1>1, <2>1 DEF Waits, Frame, LockInv, LockOK
  <2>2. CASE lock.account = None
    <3>1. \A r \in Requests : req[r].at \notin {"check", "apply"}
      BY <1>0, <2>2 DEF LockInv, LockOK
    <3>2. QED BY <1>1, <3>1 DEF Waits, LockInv, LockOK
  <2>3. QED BY <1>1, <2>1, <2>2 DEF Waits
<1>2. ASSUME NEW r \in Requests, NEW q \in Records, Walks(r, q) PROVE LockInv'
  <2>1. SUFFICES ASSUME NEW s \in Requests PROVE LockOK(s)'
    BY DEF LockInv
  <2>2. /\ req' = [req EXCEPT ![r] = q] /\ balance' = balance /\ held' = held /\ lock' = lock
        /\ req[r].at \notin Holders /\ q.at \notin Holders
    BY <1>2 DEF Walks, Move, Frame
  <2>3. CASE s = r
    BY <1>0, <2>2, <2>3 DEF LockInv, LockOK, Holders
  <2>4. CASE s # r
    BY <1>0, <2>2, <2>4 DEF LockInv, LockOK
  <2>5. QED BY <2>3, <2>4
<1>3. ASSUME NEW r \in Requests, NEW q \in Records, Leaves(r, q) PROVE LockInv'
  <2>1. SUFFICES ASSUME NEW s \in Requests PROVE LockOK(s)'
    BY DEF LockInv
  <2>2. /\ req' = [req EXCEPT ![r] = q] /\ held' = held /\ q.at \notin Holders
        /\ balance' = balance \/ req[r].at = "apply"
    BY <1>3 DEF Leaves, Move
  <2>3. /\ lock'.account = IF lock.account = r THEN None ELSE lock.account
        /\ lock'.profile = IF lock.profile = r THEN None ELSE lock.profile
    BY <1>0, <1>3 DEF Leaves, Unlocked
  <2>4. CASE s = r
    BY <1>0, <2>2, <2>3, <2>4 DEF LockInv, LockOK, Holders
  <2>5. CASE s # r
    <3>1. req'[s] = req[s] /\ (lock'.account = s <=> lock.account = s)
          /\ (lock'.profile = s <=> lock.profile = s)
      BY <1>0, <2>2, <2>3, <2>5
    <3>2. req[s].at \in {"check", "apply"} => balance' = balance
      BY <2>2, <2>5 DEF LockInv, LockOK
    <3>3. QED BY <2>2, <3>1, <3>2 DEF LockInv, LockOK
  <2>6. QED BY <2>4, <2>5
<1>4. ASSUME NEW r \in Requests, NEW q \in Records, LocksAccount(r, q) PROVE LockInv'
  <2>1. SUFFICES ASSUME NEW s \in Requests PROVE LockOK(s)'
    BY DEF LockInv
  <2>2. /\ req' = [req EXCEPT ![r] = q] /\ balance' = balance /\ held' = held
        /\ lock.account = None /\ lock'.account = r /\ lock'.profile = lock.profile
        /\ req[r].at = "lock" /\ q.seen = balance
        /\ q.at = "check"
    BY <1>0, <1>4 DEF LocksAccount, Move, Frame
  <2>3. CASE s = r
    BY <1>0, <2>2, <2>3 DEF LockInv, LockOK
  <2>4. CASE s # r
    BY <1>0, <2>2, <2>4 DEF LockInv, LockOK
  <2>5. QED BY <2>3, <2>4
<1>5. ASSUME NEW r \in Requests, NEW q \in Records, Passes(r, q) PROVE LockInv'
  <2>1. SUFFICES ASSUME NEW s \in Requests PROVE LockOK(s)'
    BY DEF LockInv
  <2>2. /\ req' = [req EXCEPT ![r] = q] /\ balance' = balance /\ held' = held /\ lock' = lock
        /\ req[r].at = "check" /\ q.at = "apply" /\ q.seen = req[r].seen
        /\ q.charge = 0 \/ q.seen - held >= q.charge
    BY <1>5 DEF Passes, Move, Frame
  <2>3. CASE s = r
    BY <1>0, <2>2, <2>3 DEF LockInv, LockOK
  <2>4. CASE s # r
    BY <1>0, <2>2, <2>4 DEF LockInv, LockOK
  <2>5. QED BY <2>3, <2>4
<1>6. ASSUME NEW r \in Requests, NEW q \in Records, LocksProfile(r, q) PROVE LockInv'
  <2>1. SUFFICES ASSUME NEW s \in Requests PROVE LockOK(s)'
    BY DEF LockInv
  <2>2. /\ req' = [req EXCEPT ![r] = q] /\ balance' = balance /\ held' = held
        /\ lock.profile = None /\ lock'.profile = r /\ lock'.account = lock.account
        /\ req[r].at = "lapse_begin" /\ q.at = "lapse_account"
    BY <1>0, <1>6 DEF LocksProfile, Move, Frame
  <2>3. CASE s = r
    BY <1>0, <2>2, <2>3 DEF LockInv, LockOK
  <2>4. CASE s # r
    BY <1>0, <2>2, <2>4 DEF LockInv, LockOK
  <2>5. QED BY <2>3, <2>4
<1>7. QED BY <1>1, <1>2, <1>3, <1>4, <1>5, <1>6, StepEffects DEF Effect

-----------------------------------------------------------------------------
(* The books                                                               *)

\* The steps that write the rows of the plan, the quota or the books.
LEMMA Writers ==
    ASSUME [Next]_vars
    PROVE  \/ \E r \in Requests :
                 \/ ChangeApply(r) \/ LapseCommit(r) \/ FreemiumReserve(r)
                 \/ \E n \in TurnTokens : FreemiumTokens(r, n)
           \/ Topup \/ TurnEnd \/ Tick
           \/ UNCHANGED <<balance, tier, profile, quota, now, moved, charged, admitted>>
<1>1. ASSUME NEW r \in Requests, Step(r)
      PROVE  \/ ChangeApply(r) \/ LapseCommit(r) \/ FreemiumReserve(r)
             \/ \E n \in TurnTokens : FreemiumTokens(r, n)
             \/ UNCHANGED <<balance, tier, profile, quota, now, moved, charged, admitted>>
  BY <1>1 DEF Step, ChangeQuote, ChangeKeep, ChangeBegin, ChangeLock, ChangeCheck, LapseRead,
     LapsePending, LapseRenew, LapseBegin, FreemiumApplies, bookVars
<1>2. ASSUME NEW r \in Requests,
             \/ Fail(r) \/ \E target \in Plans \cup {Free} : ChangeStart(r, target)
             \/ \E job \in Jobs \ {"change"} : LapseStart(r, job)
      PROVE  UNCHANGED <<balance, tier, profile, quota, now, moved, charged, admitted>>
  BY <1>2 DEF Fail, ChangeStart, LapseStart, bookVars
<1>3. TurnHold \/ UNCHANGED vars
        => UNCHANGED <<balance, tier, profile, quota, now, moved, charged, admitted>>
  BY DEF TurnHold, bookVars, vars
<1>4. QED BY <1>1, <1>2, <1>3 DEF Next

\* What a commit of a change does: the balance it has read is the balance.
LEMMA ApplyEffect ==
    ASSUME TypeOK, ReqInv, LockInv, NEW r \in Requests, ChangeApply(r)
    PROVE  \/ /\ balance' = balance /\ charged' = charged /\ tier' = tier
              /\ profile' = [profile EXCEPT !.pending = req[r].target]
              /\ req[r].target \in Plans \cup {Free}
           \/ /\ req[r].target \in Plans
              /\ balance' = balance - req[r].charge /\ balance' \in Nat
              /\ charged' = charged + req[r].charge
              /\ req[r].charge = 0 \/ balance' >= held
              /\ tier' = Slug[req[r].target]
              /\ profile' \in [plan : {req[r].target}, until : Nat, pending : {None}]
<1>0. /\ req[r] \in Records /\ balance \in Nat /\ held \in Nat /\ charged \in Nat /\ now \in Nat
      /\ req[r].charge \in Nat /\ req[r].keep \in Nat /\ req[r].kind \in Kinds
  BY QuotaAssumption DEF TypeOK, Records
<1>1. req[r].at = "apply"
  BY DEF ChangeApply, At
<1>2. req[r].target \in Plans \cup {Free} /\ req[r].kind # "none"
      /\ (req[r].kind \in Immediate => req[r].target \in Plans)
  BY <1>1 DEF ReqInv, ReqOK, Changing
<1>3. /\ req[r].seen = balance
      /\ req[r].kind \in Immediate => req[r].charge = 0 \/ req[r].seen - held >= req[r].charge
  BY <1>1 DEF LockInv, LockOK
<1>4. CASE req[r].kind \in {"cancel", "downgrade"}
  BY <1>2, <1>4 DEF ChangeApply
<1>5. CASE req[r].kind \in Immediate
  <2>1. /\ balance' = req[r].seen - req[r].charge
        /\ charged' = charged + req[r].charge
        /\ tier' = Slug[req[r].target]
        /\ profile' = [plan |-> req[r].target, pending |-> None,
                       until |-> IF req[r].kind = "upgrade" /\ req[r].keep > 0 THEN req[r].keep
                                 ELSE now + Days[req[r].target]]
    BY <1>5 DEF ChangeApply, Immediate
  <2>2. balance' = balance - req[r].charge /\ balance' \in Nat
        /\ (req[r].charge = 0 \/ balance' >= held)
    BY <1>0, <1>3, <1>5, <2>1
  <2>3. Days[req[r].target] \in Nat
    BY <1>2, <1>5, PlanAssumption
  <2>4. profile' \in [plan : {req[r].target}, until : Nat, pending : {None}]
    BY <1>0, <2>1, <2>3
  <2>5. QED BY <1>2, <1>5, <2>1, <2>2, <2>4
<1>6. QED BY <1>0, <1>2, <1>4, <1>5 DEF Kinds, Immediate

LEMMA TypeStep ==
    ASSUME TypeOK, ReqInv, LockInv, [Next]_vars
    PROVE  TypeOK'
<1>0. now \in Nat /\ "request" \in Events /\ "topup" \in Events /\ "hold" \in Events
  BY QuotaAssumption DEF TypeOK, Events
<1>1. req' \in [Requests -> [job : Jobs, at : Places, target : Plans \cup {Free, None},
                             kind : Kinds, charge : Nat, keep : Nat, seen : Nat]]
  BY ReqStep DEF Records
<1> DEFINE LockType == lock' \in [account : Requests \cup {None}, profile : Requests \cup {None}]
           HeldType == held' \in Nat /\ spent' \in [Events -> Nat]
           RowType ==
               /\ balance' \in Nat /\ charged' \in Nat /\ moved' \in Int
               /\ tier' \in {Slug[p] : p \in Plans} \cup {Free}
               /\ profile' \in [plan : Plans \cup {Free}, until : Nat, pending : Plans \cup {Free, None}]
               /\ quota' \in [day : Nat, msgs : Nat, tokens : Nat]
               /\ now' \in 0..Horizon /\ admitted' \in [0..Horizon -> Nat]
<1>2. LockType
  <2>1. CASE Waits
    BY <2>1 DEF Waits, TypeOK
  <2>2. ASSUME NEW r \in Requests, lock' = Unlocked(r) PROVE LockType
    <3>1. lock'.account = IF lock.account = r THEN None ELSE lock.account
      BY <2>2 DEF Unlocked, TypeOK
    <3>2. lock'.profile = IF lock.profile = r THEN None ELSE lock.profile
      BY <2>2 DEF Unlocked, TypeOK
    <3>3. lock' = [account |-> lock'.account, profile |-> lock'.profile]
      BY <2>2 DEF Unlocked, TypeOK
    <3>4. QED BY <3>1, <3>2, <3>3 DEF TypeOK
  <2>3. QED BY <2>1, <2>2, StepEffects
           DEF Effect, Walks, Leaves, LocksAccount, Passes, LocksProfile, TypeOK
<1>3. HeldType
  <2>1. CASE UNCHANGED vars
    BY <2>1 DEF vars, TypeOK
  <2>s. ASSUME NEW e \in Events, Spend(e) PROVE spent' \in [Events -> Nat]
    <3>1. spent \in [Events -> Nat] /\ spent[e] + 1 \in Nat
      BY DEF TypeOK
    <3>2. spent' = [spent EXCEPT ![e] = spent[e] + 1]
      BY <2>s DEF Spend
    <3>3. QED BY <3>1, <3>2
  <2>2. CASE Topup \/ TurnHold \/ TurnEnd \/ Tick
    <3>1. held \in Nat /\ spent \in [Events -> Nat]
      BY DEF TypeOK
    <3>2. CASE Topup
      BY <1>0, <2>s, <3>1, <3>2 DEF Topup
    <3>3. CASE TurnHold
      BY <1>0, <2>s, <3>1, <3>3 DEF TurnHold
    <3>4. CASE TurnEnd
      BY <3>1, <3>4 DEF TurnEnd
    <3>5. CASE Tick
      BY <3>1, <3>5 DEF Tick
    <3>6. QED BY <2>2, <3>2, <3>3, <3>4, <3>5
  <2>3. ASSUME NEW r \in Requests, NEW target, NEW job, ChangeStart(r, target) \/ LapseStart(r, job)
        PROVE  HeldType
    <3>1. Spend("request") /\ held' = held
      BY <2>3 DEF ChangeStart, LapseStart
    <3>2. QED BY <1>0, <2>s, <3>1 DEF TypeOK
  <2>4. ASSUME NEW r \in Requests, Step(r) \/ Fail(r) PROVE HeldType
    BY <2>4 DEF Step, Fail, ChangeQuote, ChangeKeep, ChangeBegin, ChangeLock, ChangeCheck,
       ChangeApply, LapseRead, LapsePending, LapseRenew, LapseBegin, LapseCommit,
       FreemiumApplies, FreemiumReserve, FreemiumTokens, TypeOK
  <2>5. QED BY <2>1, <2>2, <2>3, <2>4 DEF Next
<1>4. RowType
  <2>1. ASSUME NEW r \in Requests, ChangeApply(r) PROVE RowType
    <3>1. UNCHANGED <<quota, now, moved, admitted>>
      BY <2>1 DEF ChangeApply
    <3>2. req[r].charge \in Nat
      BY DEF TypeOK
    <3>3. /\ balance \in Nat /\ charged \in Nat /\ tier \in {Slug[p] : p \in Plans} \cup {Free}
          /\ profile \in [plan : Plans \cup {Free}, until : Nat, pending : Plans \cup {Free, None}]
      BY DEF TypeOK
    <3>4. balance' \in Nat /\ charged' \in Nat
      BY <2>1, <3>2, <3>3, ApplyEffect
    <3>5. tier' \in {Slug[p] : p \in Plans} \cup {Free}
      BY <2>1, <3>3, ApplyEffect
    <3>6. profile' \in [plan : Plans \cup {Free}, until : Nat, pending : Plans \cup {Free, None}]
      <4>1. CASE profile' = [profile EXCEPT !.pending = req[r].target] /\ req[r].target \in Plans \cup {Free}
        BY <3>3, <4>1
      <4>2. CASE req[r].target \in Plans
                 /\ profile' \in [plan : {req[r].target}, until : Nat, pending : {None}]
        BY <4>2
      <4>3. QED BY <2>1, <4>1, <4>2, ApplyEffect
    <3>7. QED BY <3>1, <3>4, <3>5, <3>6 DEF TypeOK
  <2>2. ASSUME NEW r \in Requests, LapseCommit(r) PROVE RowType
    BY <2>2 DEF LapseCommit, TypeOK, bookVars
  <2>3. ASSUME NEW r \in Requests, FreemiumReserve(r) PROVE RowType
    <3>1. Today \in [day : Nat, msgs : Nat, tokens : Nat]
      BY <1>0 DEF Today, TypeOK
    <3>2. now \in 0..Horizon
      BY DEF TypeOK
    <3>3. quota' = quota \/ quota' = [Today EXCEPT !.msgs = @ + 1]
      BY <2>3 DEF FreemiumReserve
    <3>4. admitted' = admitted \/ admitted' = [admitted EXCEPT ![now] = @ + 1]
      BY <2>3 DEF FreemiumReserve
    <3>5. quota' \in [day : Nat, msgs : Nat, tokens : Nat]
      <4>1. Today.msgs + 1 \in Nat
        BY <3>1
      <4>2. quota \in [day : Nat, msgs : Nat, tokens : Nat]
        BY DEF TypeOK
      <4>3. QED BY <3>1, <3>3, <4>1, <4>2
    <3>6. admitted' \in [0..Horizon -> Nat]
      BY <3>2, <3>4 DEF TypeOK
    <3>7. QED BY <2>3, <3>5, <3>6 DEF FreemiumReserve, TypeOK
  <2>4. ASSUME NEW r \in Requests, NEW n \in TurnTokens, FreemiumTokens(r, n) PROVE RowType
    <3>1. Today \in [day : Nat, msgs : Nat, tokens : Nat] /\ n \in Nat
      BY <1>0, QuotaAssumption DEF Today, TypeOK
    <3>2. quota' \in [day : Nat, msgs : Nat, tokens : Nat]
      BY <2>4, <3>1 DEF FreemiumTokens
    <3>3. QED BY <2>4, <3>2 DEF FreemiumTokens, TypeOK, bookVars
  <2>5. CASE Topup
    BY <2>5, MoneyAssumption DEF Topup, TypeOK
  <2>6. CASE TurnEnd
    BY <2>6 DEF TurnEnd, TypeOK
  <2>7. CASE Tick
    BY <1>0, <2>7, QuotaAssumption DEF Tick, TypeOK, bookVars
  <2>8. CASE UNCHANGED <<balance, tier, profile, quota, now, moved, charged, admitted>>
    BY <2>8 DEF TypeOK
  <2>9. QED BY <2>1, <2>2, <2>3, <2>4, <2>5, <2>6, <2>7, <2>8, Writers
<1>5. QED BY <1>1, <1>2, <1>3, <1>4 DEF TypeOK

\* A change writes an absolute balance, and it is the right one.
LEMMA MoneyStep ==
    ASSUME TypeOK, ReqInv, LockInv, MoneyExplained, [Next]_vars
    PROVE  MoneyExplained'
<1>0. balance \in Int /\ charged \in Int /\ moved \in Int /\ Start \in Int /\ TopupAmount \in Int
  BY MoneyAssumption DEF TypeOK
<1>1. ASSUME NEW r \in Requests, ChangeApply(r) PROVE MoneyExplained'
  <2>1. moved' = moved /\ req[r].charge \in Int
    BY <1>1 DEF ChangeApply, TypeOK
  <2>2. QED BY <1>0, <1>1, <2>1, ApplyEffect DEF MoneyExplained
<1>2. CASE Topup
  BY <1>0, <1>2 DEF Topup, MoneyExplained
<1>3. CASE TurnEnd
  <2>1. moved' = moved + (balance' - balance) /\ charged' = charged
    BY <1>3 DEF TurnEnd
  <2>2. balance' = balance - 1 \/ balance' = 0
    BY <1>3 DEF TurnEnd
  <2>3. balance' \in Int
    BY <1>0, <2>2
  <2>4. balance = Start + moved - charged
    BY DEF MoneyExplained
  <2>5. \A b \in Int : b = Start + (moved + (b - balance)) - charged
    BY <1>0, <2>4
  <2>6. QED BY <2>1, <2>3, <2>5 DEF MoneyExplained
<1>4. ASSUME NEW r \in Requests,
             \/ LapseCommit(r) \/ FreemiumReserve(r)
             \/ \E n \in TurnTokens : FreemiumTokens(r, n)
      PROVE  MoneyExplained'
  BY <1>4 DEF LapseCommit, FreemiumReserve, FreemiumTokens, bookVars, MoneyExplained
<1>5. CASE Tick \/ UNCHANGED <<balance, tier, profile, quota, now, moved, charged, admitted>>
  BY <1>5 DEF Tick, bookVars, MoneyExplained
<1>6. QED BY <1>1, <1>2, <1>3, <1>4, <1>5, Writers

LEMMA TierStep ==
    ASSUME TypeOK, ReqInv, LockInv, TiersAgree, [Next]_vars
    PROVE  TiersAgree'
<1>1. ASSUME NEW r \in Requests, ChangeApply(r) PROVE TiersAgree'
  <2>1. profile \in [plan : Plans \cup {Free}, until : Nat, pending : Plans \cup {Free, None}]
    BY DEF TypeOK
  <2>2. CASE tier' = tier /\ profile' = [profile EXCEPT !.pending = req[r].target]
    BY <2>1, <2>2 DEF TiersAgree, TierOf, Paid
  <2>3. CASE /\ req[r].target \in Plans /\ tier' = Slug[req[r].target]
             /\ profile' \in [plan : {req[r].target}, until : Nat, pending : {None}]
    BY <2>3, PlanAssumption DEF TiersAgree, TierOf, Paid
  <2>4. QED BY <1>1, <2>2, <2>3, ApplyEffect
<1>2. ASSUME NEW r \in Requests, LapseCommit(r) PROVE TiersAgree'
  BY <1>2 DEF LapseCommit, TiersAgree, TierOf, Paid
<1>3. ASSUME NEW r \in Requests, FreemiumReserve(r) \/ \E n \in TurnTokens : FreemiumTokens(r, n)
      PROVE  TiersAgree'
  BY <1>3 DEF FreemiumReserve, FreemiumTokens, TiersAgree, TierOf, Paid
<1>4. CASE \/ Topup \/ TurnEnd \/ Tick
           \/ UNCHANGED <<balance, tier, profile, quota, now, moved, charged, admitted>>
  BY <1>4 DEF Topup, TurnEnd, Tick, TiersAgree, TierOf, Paid
<1>5. QED BY <1>1, <1>2, <1>3, <1>4, Writers

LEMMA QuotaStep ==
    ASSUME TypeOK, QuotaInv, DailyCap, [Next]_vars
    PROVE  QuotaInv' /\ DailyCap'
<1>0. /\ now \in Nat /\ now \in 0..Horizon /\ MsgsPerDay \in Nat /\ Horizon \in Nat
      /\ quota \in [day : Nat, msgs : Nat, tokens : Nat] /\ admitted \in [0..Horizon -> Nat]
  BY QuotaAssumption DEF TypeOK
<1>1. ASSUME NEW r \in Requests, FreemiumReserve(r) PROVE QuotaInv' /\ DailyCap'
  <2>1. now' = now
    BY <1>1 DEF FreemiumReserve
  <2>2. CASE quota' = quota /\ admitted' = admitted
    BY <2>1, <2>2 DEF QuotaInv, DailyCap
  <2>3. CASE /\ Today.msgs < MsgsPerDay
             /\ quota' = [Today EXCEPT !.msgs = @ + 1]
             /\ admitted' = [admitted EXCEPT ![now] = @ + 1]
    <3>1. Today.day = now /\ Today.msgs \in Nat /\ admitted[now] <= Today.msgs
      BY <1>0 DEF Today, QuotaInv
    <3>2. quota'.day = now /\ quota'.msgs = Today.msgs + 1
      BY <1>0, <2>3, <3>1 DEF Today
    <3>3. QuotaInv'
      BY <1>0, <2>1, <2>3, <3>1, <3>2 DEF QuotaInv
    <3>4. DailyCap'
      BY <1>0, <2>3, <3>1 DEF DailyCap
    <3>5. QED BY <3>3, <3>4
  <2>4. Today.msgs \in Nat
    BY <1>0 DEF Today
  <2>5. QED BY <1>0, <1>1, <2>2, <2>3, <2>4 DEF FreemiumReserve
<1>2. ASSUME NEW r \in Requests, NEW n \in TurnTokens, FreemiumTokens(r, n)
      PROVE  QuotaInv' /\ DailyCap'
  <2>1. now' = now /\ admitted' = admitted /\ quota' = [Today EXCEPT !.tokens = @ + n]
    BY <1>2 DEF FreemiumTokens, bookVars
  <2>2. quota'.day = now /\ quota'.msgs = (IF quota.day = now THEN quota.msgs ELSE 0)
    BY <1>0, <2>1 DEF Today
  <2>3. QED BY <1>0, <2>1, <2>2 DEF QuotaInv, DailyCap
<1>3. CASE Tick
  <2>1. now' = now + 1 /\ admitted' = admitted /\ quota' = quota
    BY <1>3 DEF Tick, bookVars
  <2>2. quota.day < now' /\ quota.day # now'
    BY <1>0, <2>1 DEF QuotaInv
  <2>3. QED BY <1>0, <2>1, <2>2 DEF QuotaInv, DailyCap
<1>4. ASSUME NEW r \in Requests, ChangeApply(r) \/ LapseCommit(r) PROVE QuotaInv' /\ DailyCap'
  BY <1>4 DEF ChangeApply, LapseCommit, bookVars, QuotaInv, DailyCap
<1>5. CASE \/ Topup \/ TurnEnd
           \/ UNCHANGED <<balance, tier, profile, quota, now, moved, charged, admitted>>
  BY <1>5 DEF Topup, TurnEnd, QuotaInv, DailyCap
<1>6. QED BY <1>1, <1>2, <1>3, <1>4, <1>5, Writers

-----------------------------------------------------------------------------
(* Theorems                                                                *)

PlanInv ==
    TypeOK /\ ReqInv /\ LockInv /\ MoneyExplained /\ TiersAgree /\ QuotaInv /\ DailyCap

LEMMA PlanInit == Init => PlanInv
<1> SUFFICES ASSUME Init PROVE PlanInv
  OBVIOUS
<1> DEFINE ProfileType ==
               profile \in [plan : Plans \cup {Free}, until : Nat, pending : Plans \cup {Free, None}]
<1>1. ProfileType
  <2>1. CASE profile = [plan |-> Free, until |-> 0, pending |-> None]
    BY <2>1
  <2>2. ASSUME NEW p \in Plans,
               profile \in [plan : {p}, until : 1..Days[p], pending : (Plans \ {p}) \cup {Free, None}]
        PROVE  ProfileType
    BY <2>2, PlanAssumption
  <2>3. QED BY <2>1, <2>2 DEF Init
<1>2. tier \in {Slug[p] : p \in Plans} \cup {Free}
  BY <1>1 DEF Init, TierOf, Paid
<1>3. req \in [Requests -> Records] /\ \A r \in Requests : req[r] = Quiet
  BY QuietOK DEF Init
<1>4. TypeOK
  BY <1>1, <1>2, <1>3, MoneyAssumption, QuotaAssumption DEF Init, TypeOK, Records
<1>5. ReqInv
  BY <1>3, QuietOK DEF ReqInv
<1>6. LockInv
  BY <1>3, QuietOK, RequestAssumption DEF Init, LockInv, LockOK
<1>7. MoneyExplained /\ TiersAgree /\ QuotaInv /\ DailyCap
  BY MoneyAssumption, QuotaAssumption DEF Init, MoneyExplained, TiersAgree, QuotaInv, DailyCap
<1>8. QED BY <1>4, <1>5, <1>6, <1>7 DEF PlanInv

LEMMA PlanStep == PlanInv /\ [Next]_vars => PlanInv'
BY ReqStep, LockStep, TypeStep, MoneyStep, TierStep, QuotaStep DEF PlanInv

LEMMA PlanInvariant == Spec => []PlanInv
<1>1. QED BY PlanInit, PlanStep, PTL DEF Spec

\* Every variable keeps its type, and the balance is never negative, although a
\* change writes a balance that was read some statements before.
THEOREM TypeCorrect == Spec => []TypeOK
<1>1. PlanInv => TypeOK
  BY DEF PlanInv
<1>2. QED BY <1>1, PlanInvariant, PTL

\* The balance is always the start, the top-ups and usage, less what the changes
\* have charged: a change never overwrites what another request has written.
THEOREM MoneyCorrect == Spec => []MoneyExplained
<1>1. PlanInv => MoneyExplained
  BY DEF PlanInv
<1>2. QED BY <1>1, PlanInvariant, PTL

\* The account row and the profile row always name the same tier.
THEOREM TiersCorrect == Spec => []TiersAgree
<1>1. PlanInv => TiersAgree
  BY DEF PlanInv
<1>2. QED BY <1>1, PlanInvariant, PTL

\* No day admits more freemium turns than its limit.
THEOREM CapCorrect == Spec => []DailyCap
<1>1. PlanInv => DailyCap
  BY DEF PlanInv
<1>2. QED BY <1>1, PlanInvariant, PTL

\* A purchase leaves what is held for running turns.
THEOREM PurchaseCorrect == Spec => PurchaseCovered
<1>1. ASSUME PlanInv, [Next]_vars PROVE charged' > charged => balance' >= held
  <2>1. charged \in Int
    BY <1>1 DEF PlanInv, TypeOK
  <2>2. ASSUME NEW r \in Requests, ChangeApply(r) PROVE charged' > charged => balance' >= held
    <3>1. req[r].charge \in Int
      BY <1>1 DEF PlanInv, TypeOK
    <3>2. QED BY <1>1, <2>1, <2>2, <3>1, ApplyEffect DEF PlanInv
  <2>3. ASSUME NEW r \in Requests,
               \/ LapseCommit(r) \/ FreemiumReserve(r)
               \/ \E n \in TurnTokens : FreemiumTokens(r, n)
        PROVE  charged' = charged
    BY <2>3 DEF LapseCommit, FreemiumReserve, FreemiumTokens, bookVars
  <2>4. ASSUME \/ Topup \/ TurnEnd \/ Tick
               \/ UNCHANGED <<balance, tier, profile, quota, now, moved, charged, admitted>>
        PROVE  charged' = charged
    BY <2>4 DEF Topup, TurnEnd, Tick, bookVars
  <2>5. QED BY <1>1, <2>1, <2>2, <2>3, <2>4, Writers
<1>2. PlanInv /\ [Next]_vars => [charged' > charged => balance' >= held]_vars
  BY <1>1
<1>3. QED BY <1>2, PlanInvariant, PTL DEF Spec, PurchaseCovered
=============================================================================
