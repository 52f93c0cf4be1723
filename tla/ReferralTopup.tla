---------------------------- MODULE ReferralTopup ----------------------------
(***************************************************************************)
(* What a top-up earns a referral and the user who invited him: the first  *)
(* bonus for both, and a commission for the inviter, on no more than a     *)
(* configured number of top-ups.                                           *)
(*                                                                         *)
(* process_referral_topup runs in the session of the top-up, after its     *)
(* credit is committed.  The side effects of the credit have locked the    *)
(* user's row again and refreshed the session's copy of it; that lock is   *)
(* still held here unless a promo group was assigned and committed.        *)
(***************************************************************************)
EXTENDS Integers, FiniteSets

CONSTANTS
    Users,
    Referrer,        \* user -> referred_by_id, None if nobody invited him
    Topups,          \* sessions, one for each confirmed order
    Owner,           \* top-up -> the user who made it
    Qualifying,      \* top-ups that reach REFERRAL_MINIMUM_TOPUP_KOPEKS
    MaxCommissions,  \* REFERRAL_MAX_COMMISSION_PAYMENTS, 0 for no limit
    GroupEarners,    \* users whose spending reaches a promo group's threshold
    None,            \* no user, no session
    FaultKinds,      \* which faults may happen: "crash", "db"
    MaxFaults        \* how many faults a behaviour may contain

ASSUME ReferralAssumption ==
    /\ Referrer \in [Users -> Users \cup {None}]
    /\ \A u \in Users : Referrer[u] # u
    /\ Owner \in [Topups -> Users]
    /\ Qualifying \subseteq Topups
    /\ MaxCommissions \in Nat
    /\ GroupEarners \subseteq Users
    /\ None \notin Users \cup Topups
    /\ MaxFaults \in Nat

VARIABLES
    hasMadeFirstTopup,  \* committed users.has_made_first_topup
    bonuses,            \* first bonuses added to each user's balance
    inviterBonuses,     \* bonuses that each user has earned his inviter
    commissions,        \* commissions that each user has earned his inviter
    firstRows,          \* committed earnings 'referral_first_topup' of each user
    commissionRows,     \* committed earnings 'referral_commission_topup'
    userLock,           \* holder of the lock on each user row
    pc,                 \* where each top-up's session stands
    seesFirst,          \* the session's copy of has_made_first_topup
    faults

credits == <<bonuses, inviterBonuses, commissions>>
rows == <<firstRows, commissionRows>>
vars == <<hasMadeFirstTopup, credits, rows, userLock, pc, seesFirst, faults>>

Inviter(t) == Referrer[Owner[t]]

Init ==
    /\ hasMadeFirstTopup = [u \in Users |-> FALSE]
    /\ bonuses = [u \in Users |-> 0]
    /\ inviterBonuses = [u \in Users |-> 0]
    /\ commissions = [u \in Users |-> 0]
    /\ firstRows = [u \in Users |-> 0]
    /\ commissionRows = [u \in Users |-> 0]
    /\ userLock = [u \in Users |-> None]
    /\ pc = [t \in Topups |-> "unpaid"]
    /\ seesFirst = [t \in Topups |-> FALSE]
    /\ faults = 0
-----------------------------------------------------------------------------
Free(u, t) == userLock[u] \in {None, t}

(* COMMIT or ROLLBACK: the session's locks are gone. *)
Unlock(t) == userLock' = [u \in Users |-> IF userLock[u] = t THEN None ELSE userLock[u]]

Goto(t, label) == pc' = [pc EXCEPT ![t] = label]

Inc(f, u) == [f EXCEPT ![u] = @ + 1]

(* The top-up itself, from the user's lock to the commit of the credit. *)
Credit(t) ==
    /\ pc[t] = "unpaid"
    /\ Free(Owner[t], t)
    /\ Goto(t, "credited")
    /\ UNCHANGED <<hasMadeFirstTopup, credits, rows, userLock, seesFirst, faults>>

(* Mutant: the check reads the user without locking him. *)
CheckPromoGroupUnlocked(t) ==
    /\ pc[t] = "credited"
    /\ seesFirst' = [seesFirst EXCEPT ![t] = hasMadeFirstTopup[Owner[t]]]
    /\ Goto(t, "rewarding")
    /\ UNCHANGED <<hasMadeFirstTopup, credits, rows, userLock, faults>>

(* maybe_assign_promo_group_by_total_spent: locks and refreshes the user; if
   his spending has earned him a group it commits, and the lock is gone. *)
CheckPromoGroup(t) ==
    /\ pc[t] = "credited"
    /\ Free(Owner[t], t)
    /\ seesFirst' = [seesFirst EXCEPT ![t] = hasMadeFirstTopup[Owner[t]]]
    /\ \/ userLock' = [userLock EXCEPT ![Owner[t]] = t]
       \/ Owner[t] \in GroupEarners /\ Unlock(t)
    /\ Goto(t, "rewarding")
    /\ UNCHANGED <<hasMadeFirstTopup, credits, rows, faults>>

(* Nobody invited the user: the finalisation only sets the flag. *)
NotReferred(t) ==
    /\ pc[t] = "rewarding"
    /\ Inviter(t) = None
    /\ hasMadeFirstTopup' = [hasMadeFirstTopup EXCEPT ![Owner[t]] = TRUE]
    /\ Unlock(t)
    /\ Goto(t, "done")
    /\ UNCHANGED <<credits, rows, seesFirst, faults>>

IsFirst(t) == ~seesFirst[t] /\ t \in Qualifying

LimitReached(t) ==
    MaxCommissions > 0 /\ commissionRows[Owner[t]] >= MaxCommissions

(* Mutant: the early return does not end the session. *)
LimitExhaustedKeepsLock(t) ==
    /\ pc[t] = "rewarding"
    /\ Inviter(t) # None
    /\ ~IsFirst(t) /\ LimitReached(t)
    /\ Goto(t, "done")
    /\ UNCHANGED <<hasMadeFirstTopup, credits, rows, userLock, seesFirst, faults>>

(* A later top-up, or one too small for the first bonus: at most a commission. *)
LimitExhausted(t) ==
    /\ pc[t] = "rewarding"
    /\ Inviter(t) # None
    /\ ~IsFirst(t) /\ LimitReached(t)
    /\ Unlock(t)
    /\ Goto(t, "done")
    /\ UNCHANGED <<hasMadeFirstTopup, credits, rows, seesFirst, faults>>

CommissionDue(t) ==
    /\ pc[t] = "rewarding"
    /\ Inviter(t) # None
    /\ ~IsFirst(t) /\ ~LimitReached(t)
    /\ Goto(t, "paying")
    /\ UNCHANGED <<hasMadeFirstTopup, credits, rows, userLock, seesFirst, faults>>

(* Mutant: the earning is recorded before the inviter is paid. *)
PayCommissionLast(t) ==
    /\ pc[t] = "paying"
    /\ Free(Inviter(t), t)
    /\ commissionRows' = Inc(commissionRows, Owner[t])
    /\ Unlock(t)
    /\ Goto(t, "recording")
    /\ UNCHANGED <<hasMadeFirstTopup, credits, firstRows, seesFirst, faults>>

(* add_user_balance for the inviter: his row is locked while the session may
   still hold the referral's; the commit inside create_transaction releases
   both. *)
PayCommission(t) ==
    /\ pc[t] = "paying"
    /\ Free(Inviter(t), t)
    /\ commissions' = Inc(commissions, Owner[t])
    /\ Unlock(t)
    /\ Goto(t, "recording")
    /\ UNCHANGED <<hasMadeFirstTopup, bonuses, inviterBonuses, rows, seesFirst, faults>>

(* create_referral_earning, in a commit of its own. *)
RecordCommission(t) ==
    /\ pc[t] = "recording"
    /\ commissionRows' = Inc(commissionRows, Owner[t])
    /\ Goto(t, "done")
    /\ UNCHANGED <<hasMadeFirstTopup, credits, firstRows, userLock, seesFirst, faults>>

-----------------------------------------------------------------------------
(* The first top-up that qualifies: the flag is committed first. *)
FirstTopup(t) ==
    /\ pc[t] = "rewarding"
    /\ Inviter(t) # None
    /\ IsFirst(t)
    /\ hasMadeFirstTopup' = [hasMadeFirstTopup EXCEPT ![Owner[t]] = TRUE]
    /\ Unlock(t)
    /\ Goto(t, "bonus")
    /\ UNCHANGED <<credits, rows, seesFirst, faults>>

PayBonus(t) ==
    /\ pc[t] = "bonus"
    /\ Free(Owner[t], t)
    /\ bonuses' = Inc(bonuses, Owner[t])
    /\ Goto(t, "inviting")
    /\ UNCHANGED <<hasMadeFirstTopup, inviterBonuses, commissions, rows, userLock, seesFirst, faults>>

PayInviter(t) ==
    /\ pc[t] = "inviting"
    /\ Free(Inviter(t), t)
    /\ inviterBonuses' = Inc(inviterBonuses, Owner[t])
    /\ Goto(t, "recordingFirst")
    /\ UNCHANGED <<hasMadeFirstTopup, bonuses, commissions, rows, userLock, seesFirst, faults>>

RecordFirst(t) ==
    /\ pc[t] = "recordingFirst"
    /\ firstRows' = Inc(firstRows, Owner[t])
    /\ Goto(t, "done")
    /\ UNCHANGED <<hasMadeFirstTopup, credits, commissionRows, userLock, seesFirst, faults>>

-----------------------------------------------------------------------------
(* A payment to a balance that fails is rolled back and answered with False:
   after the user's own bonus the inviter's is still tried, otherwise the
   reward is over.  An earning that cannot be recorded ends it as well. *)
Abort(t) ==
    /\ Unlock(t)
    /\ Goto(t, IF pc[t] = "bonus" THEN "inviting" ELSE "done")
    /\ UNCHANGED <<hasMadeFirstTopup, credits, rows, seesFirst>>

DatabaseError(t) ==
    /\ "db" \in FaultKinds /\ faults < MaxFaults
    /\ faults' = faults + 1
    /\ pc[t] \in {"credited", "rewarding", "paying", "recording", "bonus", "inviting", "recordingFirst"}
    /\ Abort(t)

(* Users who have invited each other in a circle top up at once: each session
   holds its user's row and waits for the next one's; PostgreSQL ends one wait. *)
WaitsFor(s, t) == pc[s] = "paying" /\ userLock[Inviter(s)] = t /\ s # t

DeadlockDetected(t) ==
    /\ \E waiting \in SUBSET Topups :
          /\ t \in waiting
          /\ \A x \in waiting : \E y, z \in waiting : WaitsFor(x, y) /\ WaitsFor(z, x)
    /\ Abort(t)
    /\ UNCHANGED faults

(* Nothing takes a reward up again: the payment counts as settled. *)
Crash ==
    /\ "crash" \in FaultKinds /\ faults < MaxFaults
    /\ faults' = faults + 1
    /\ pc' = [t \in Topups |-> IF pc[t] = "unpaid" THEN "unpaid" ELSE "done"]
    /\ userLock' = [u \in Users |-> None]
    /\ UNCHANGED <<hasMadeFirstTopup, credits, rows, seesFirst>>

Next ==
    \/ \E t \in Topups :
          \/ Credit(t) \/ CheckPromoGroup(t) \/ NotReferred(t)
          \/ LimitExhausted(t) \/ CommissionDue(t) \/ PayCommission(t) \/ RecordCommission(t)
          \/ FirstTopup(t) \/ PayBonus(t) \/ PayInviter(t) \/ RecordFirst(t)
          \/ DatabaseError(t) \/ DeadlockDetected(t)
    \/ Crash

Spec == Init /\ [][Next]_vars

-----------------------------------------------------------------------------
(***************************************************************************)
(* Properties.                                                             *)
(***************************************************************************)
PcStates == {"unpaid", "credited", "rewarding", "paying", "recording",
             "bonus", "inviting", "recordingFirst", "done"}

(* The variables have their types, and a user's row is locked only by a session
   between its look at the promo groups and its next commit. *)
TypeOK ==
    /\ hasMadeFirstTopup \in [Users -> BOOLEAN]
    /\ \A f \in {bonuses, inviterBonuses, commissions, firstRows, commissionRows} :
          f \in [Users -> Nat]
    /\ userLock \in [Users -> Topups \cup {None}]
    /\ \A u \in Users : userLock[u] = None \/ pc[userLock[u]] \in {"rewarding", "paying"}
    /\ pc \in [Topups -> PcStates]
    /\ seesFirst \in [Topups -> BOOLEAN]
    /\ faults \in 0..MaxFaults

(* The statistics, and the withdrawals that rest on them, never count an
   earning that has not reached the inviter's balance, whatever fails in
   between. *)
EarningsBacked ==
    \A u \in Users :
        /\ commissionRows[u] <= commissions[u]
        /\ firstRows[u] <= inviterBonuses[u]

(* The first bonus is paid once, to the user and to his inviter, however many
   of his top-ups are served at the same time: the lock that the side effects
   of the credit took lasts until has_made_first_topup is committed.  (Where a
   promo group is assigned in between, that commit ends the lock, and two
   top-ups can both pay the bonus.) *)
FirstBonusOnce ==
    \A u \in Users \ GroupEarners : bonuses[u] <= 1 /\ inviterBonuses[u] <= 1

=============================================================================
