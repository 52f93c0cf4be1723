------------------------------ MODULE Withdrawal ------------------------------
(***************************************************************************)
(* Requests to withdraw what a partner has earned: the partner asks for a  *)
(* payout and may cancel it, administrators approve, reject or complete it.*)
(* Only approval moves money: it debits the partner's balance.             *)
(*                                                                         *)
(* Every operation runs in a session of its own.  An operation locks the   *)
(* request's row and looks at its status, but SELECT ... FOR UPDATE        *)
(* without populate_existing does not refresh a row that the session has   *)
(* loaded before, and the bot's handlers do load the request first.        *)
(***************************************************************************)
EXTENDS Integers, FiniteSetsExt

CONSTANTS
    Partners,
    Requests,     \* ids of withdrawal_requests rows; ids grow
    Amounts,      \* amounts a partner may ask for
    Sessions,
    BotSessions,  \* sessions that serve a button of the bot's admin panel
    MaxEarned,    \* bound on what a partner earns
    Nobody        \* no session, no partner, no request

VARIABLES
    status,     \* request -> committed status, "none" before it exists
    asker,      \* request -> user_id
    amount,     \* request -> amount_kopeks
    debits,     \* request -> WITHDRAWAL transactions
    earned,     \* partner -> sum of his referral_earnings
    balance,    \* partner -> balance_kopeks
    reqLock,    \* holder of the lock on each request row
    userLock,   \* holder of the lock on each user row
    pc,         \* where each session stands
    op,         \* session -> what it was asked to do
    target,     \* session -> the partner who asks or the request decided on
    seen,       \* session -> its copy of the request's status, "unread"
    asks,       \* session -> the amount its partner asks for
    funds,      \* session -> its copy of the partner's balance
    withdrawn   \* session -> what it has counted as withdrawn so far

requests == <<status, asker, amount, debits>>
wallets == <<earned, balance>>
locks == <<reqLock, userLock>>
session == <<pc, op, target, seen, asks, funds, withdrawn>>
vars == <<requests, wallets, locks, session>>

Decisions == {"approve", "reject", "complete", "cancel"}

Init ==
    /\ status = [r \in Requests |-> "none"]
    /\ asker = [r \in Requests |-> Nobody]
    /\ amount = [r \in Requests |-> 0]
    /\ debits = [r \in Requests |-> 0]
    /\ earned = [u \in Partners |-> 0]
    /\ balance = [u \in Partners |-> 0]
    /\ reqLock = [r \in Requests |-> Nobody]
    /\ userLock = [u \in Partners |-> Nobody]
    /\ pc = [s \in Sessions |-> "idle"]
    /\ op = [s \in Sessions |-> "none"]
    /\ target = [s \in Sessions |-> Nobody]
    /\ seen = [s \in Sessions |-> "unread"]
    /\ asks = [s \in Sessions |-> 0]
    /\ funds = [s \in Sessions |-> 0]
    /\ withdrawn = [s \in Sessions |-> 0]
-----------------------------------------------------------------------------
RequestsOf(u, statuses) == {r \in Requests : asker[r] = u /\ status[r] \in statuses}

Total(rs) == MapThenSumSet(LAMBDA r : amount[r], rs)

Unlock(s) ==
    /\ reqLock' = [r \in Requests |-> IF reqLock[r] = s THEN Nobody ELSE reqLock[r]]
    /\ userLock' = [u \in Partners |-> IF userLock[u] = s THEN Nobody ELSE userLock[u]]

(* The session ends, and its locks with it. *)
Return(s) ==
    /\ Unlock(s)
    /\ pc' = [pc EXCEPT ![s] = "idle"]
    /\ op' = [op EXCEPT ![s] = "none"]
    /\ target' = [target EXCEPT ![s] = Nobody]
    /\ seen' = [seen EXCEPT ![s] = "unread"]
    /\ asks' = [asks EXCEPT ![s] = 0]
    /\ funds' = [funds EXCEPT ![s] = 0]
    /\ withdrawn' = [withdrawn EXCEPT ![s] = 0]

-----------------------------------------------------------------------------
(***************************************************************************)
(* The wallet: referral rewards and purchases, each one commit under the   *)
(* lock of the user's row.                                                 *)
(***************************************************************************)
Earn(u) ==
    /\ userLock[u] = Nobody
    /\ earned[u] < MaxEarned
    /\ earned' = [earned EXCEPT ![u] = @ + 1]
    /\ balance' = [balance EXCEPT ![u] = @ + 1]
    /\ UNCHANGED <<requests, locks, session>>

Spend(u) ==
    /\ userLock[u] = Nobody
    /\ balance[u] > 0
    /\ balance' = [balance EXCEPT ![u] = @ - 1]
    /\ UNCHANGED <<requests, earned, locks, session>>

-----------------------------------------------------------------------------
(***************************************************************************)
(* create_withdrawal_request.                                              *)
(***************************************************************************)

(* The middleware has loaded the partner: his balance is read here. *)
Ask(s, u, a) ==
    /\ pc[s] = "idle"
    /\ pc' = [pc EXCEPT ![s] = "asking"]
    /\ op' = [op EXCEPT ![s] = "ask"]
    /\ target' = [target EXCEPT ![s] = u]
    /\ asks' = [asks EXCEPT ![s] = a]
    /\ funds' = [funds EXCEPT ![s] = balance[u]]
    /\ UNCHANGED <<requests, wallets, locks, seen, withdrawn>>

LockPartner(s) ==
    /\ pc[s] = "asking"
    /\ userLock[target[s]] = Nobody
    /\ userLock' = [userLock EXCEPT ![target[s]] = s]
    /\ pc' = [pc EXCEPT ![s] = "counting"]
    /\ UNCHANGED <<requests, wallets, reqLock, op, target, seen, asks, funds, withdrawn>>

(* Mutant: an approved request counts only once it is completed. *)
CountCompleted(s) ==
    /\ pc[s] = "counting"
    /\ withdrawn' = [withdrawn EXCEPT ![s] = Total(RequestsOf(target[s], {"completed"}))]
    /\ pc' = [pc EXCEPT ![s] = "deciding"]
    /\ UNCHANGED <<requests, wallets, locks, op, target, seen, asks, funds>>

(* Withdrawn and pending requests are summed by two statements, and each sees
   what is committed when it starts. *)
CountWithdrawn(s) ==
    /\ pc[s] = "counting"
    /\ withdrawn' = [withdrawn EXCEPT ![s] =
                        Total(RequestsOf(target[s], {"approved", "completed"}))]
    /\ pc' = [pc EXCEPT ![s] = "deciding"]
    /\ UNCHANGED <<requests, wallets, locks, op, target, seen, asks, funds>>

(* What may be withdrawn where only earnings may be: no more than the wallet
   holds and no more than was earned and is neither withdrawn nor asked for. *)
Available(s) ==
    LET left == earned[target[s]] - withdrawn[s] - Total(RequestsOf(target[s], {"pending"}))
    IN  IF left < 0 THEN 0 ELSE IF funds[s] < left THEN funds[s] ELSE left

(* The request made last is still pending. *)
HasPending(u) ==
    LET made == RequestsOf(u, {"pending", "approved", "rejected", "completed", "cancelled"})
    IN  made # {} /\ status[Max(made)] = "pending"

(* Too little is available, a request is pending, or the last one is too
   recent: nothing is written. *)
RefuseRequest(s) ==
    /\ pc[s] = "deciding"
    /\ Return(s)
    /\ UNCHANGED <<requests, wallets>>

AcceptRequest(s) ==
    /\ pc[s] = "deciding"
    /\ asks[s] <= Available(s)
    /\ ~HasPending(target[s])
    /\ pc' = [pc EXCEPT ![s] = "creating"]
    /\ UNCHANGED <<requests, wallets, locks, op, target, seen, asks, funds, withdrawn>>

CreateRequest(s, r) ==
    /\ pc[s] = "creating"
    /\ status[r] = "none"
    /\ \A q \in Requests : q < r => status[q] # "none"
    /\ status' = [status EXCEPT ![r] = "pending"]
    /\ asker' = [asker EXCEPT ![r] = target[s]]
    /\ amount' = [amount EXCEPT ![r] = asks[s]]
    /\ Return(s)
    /\ UNCHANGED <<debits, wallets>>

-----------------------------------------------------------------------------
(***************************************************************************)
(* Decisions on a request: approve_request, reject_request and             *)
(* complete_request for administrators, cancel_withdrawal for the partner. *)
(***************************************************************************)

(* The bot's handler loads the request before it calls the service, the
   cabinet's routes do not; the bot has no button to cancel. *)
Decide(s, r, decision) ==
    /\ pc[s] = "idle"
    /\ status[r] # "none"
    /\ decision = "cancel" => s \notin BotSessions
    /\ pc' = [pc EXCEPT ![s] = "opening"]
    /\ op' = [op EXCEPT ![s] = decision]
    /\ target' = [target EXCEPT ![s] = r]
    /\ seen' = [seen EXCEPT ![s] = IF s \in BotSessions THEN status[r] ELSE "unread"]
    /\ UNCHANGED <<requests, wallets, locks, asks, funds, withdrawn>>

(* Mutant: the request is loaded without FOR UPDATE. *)
LockRequestNot(s) ==
    /\ pc[s] = "opening"
    /\ seen' = [seen EXCEPT ![s] = IF @ = "unread" THEN status[target[s]] ELSE @]
    /\ pc' = [pc EXCEPT ![s] = "checking"]
    /\ UNCHANGED <<requests, wallets, locks, op, target, asks, funds, withdrawn>>

LockRequest(s) ==
    /\ pc[s] = "opening"
    /\ reqLock[target[s]] = Nobody
    /\ reqLock' = [reqLock EXCEPT ![target[s]] = s]
    /\ seen' = [seen EXCEPT ![s] = IF @ = "unread" THEN status[target[s]] ELSE @]
    /\ pc' = [pc EXCEPT ![s] = "checking"]
    /\ UNCHANGED <<requests, wallets, userLock, op, target, asks, funds, withdrawn>>

Required(decision) == IF decision = "complete" THEN "approved" ELSE "pending"

Outcome(decision) ==
    CASE decision = "approve"  -> "approved"
      [] decision = "reject"   -> "rejected"
      [] decision = "complete" -> "completed"
      [] decision = "cancel"   -> "cancelled"

AlreadyProcessed(s) ==
    /\ pc[s] = "checking"
    /\ seen[s] # Required(op[s])
    /\ Return(s)
    /\ UNCHANGED <<requests, wallets>>

Resolve(s) ==
    /\ pc[s] = "checking"
    /\ op[s] # "approve"
    /\ seen[s] = Required(op[s])
    /\ status' = [status EXCEPT ![target[s]] = Outcome(op[s])]
    /\ Return(s)
    /\ UNCHANGED <<asker, amount, debits, wallets>>

(* Approval locks the partner's row, which this session has not read before:
   the balance is the committed one. *)
LockWallet(s) ==
    /\ pc[s] = "checking"
    /\ op[s] = "approve"
    /\ seen[s] = "pending"
    /\ userLock[asker[target[s]]] = Nobody
    /\ userLock' = [userLock EXCEPT ![asker[target[s]]] = s]
    /\ funds' = [funds EXCEPT ![s] = balance[asker[target[s]]]]
    /\ pc' = [pc EXCEPT ![s] = "debiting"]
    /\ UNCHANGED <<requests, wallets, reqLock, op, target, seen, asks, withdrawn>>

RefuseApproval(s) ==
    /\ pc[s] = "debiting"
    /\ funds[s] < amount[target[s]]
    /\ Return(s)
    /\ UNCHANGED <<requests, wallets>>

(* Debit, transaction and status in one commit. *)
Approve(s) ==
    /\ pc[s] = "debiting"
    /\ funds[s] >= amount[target[s]]
    /\ balance' = [balance EXCEPT ![asker[target[s]]] = funds[s] - amount[target[s]]]
    /\ debits' = [debits EXCEPT ![target[s]] = @ + 1]
    /\ status' = [status EXCEPT ![target[s]] = "approved"]
    /\ Return(s)
    /\ UNCHANGED <<asker, amount, earned>>

-----------------------------------------------------------------------------
PartnerStep(s) ==
    \/ \E u \in Partners, a \in Amounts : Ask(s, u, a)
    \/ LockPartner(s) \/ CountWithdrawn(s) \/ RefuseRequest(s) \/ AcceptRequest(s)
    \/ \E r \in Requests : CreateRequest(s, r)

DecisionStep(s) ==
    \/ \E r \in Requests, decision \in Decisions : Decide(s, r, decision)
    \/ LockRequest(s) \/ AlreadyProcessed(s) \/ Resolve(s)
    \/ LockWallet(s) \/ RefuseApproval(s) \/ Approve(s)

Next ==
    \/ \E u \in Partners : Earn(u) \/ Spend(u)
    \/ \E s \in Sessions : PartnerStep(s) \/ DecisionStep(s)

Spec == Init /\ [][Next]_vars

-----------------------------------------------------------------------------
(***************************************************************************)
(* Properties.                                                             *)
(***************************************************************************)
Statuses == {"none", "pending", "approved", "rejected", "completed", "cancelled"}

(* The variables have their types; no approval leaves a balance negative,
   whatever was spent since the request was made. *)
TypeOK ==
    /\ status \in [Requests -> Statuses]
    /\ asker \in [Requests -> Partners \cup {Nobody}]
    /\ amount \in [Requests -> Amounts \cup {0}]
    /\ debits \in [Requests -> Nat]
    /\ earned \in [Partners -> 0..MaxEarned]
    /\ balance \in [Partners -> Nat]
    /\ reqLock \in [Requests -> Sessions \cup {Nobody}]
    /\ userLock \in [Partners -> Sessions \cup {Nobody}]
    /\ pc \in [Sessions -> {"idle", "asking", "counting", "deciding", "creating", "opening", "checking", "debiting"}]
    /\ op \in [Sessions -> Decisions \cup {"none", "ask"}]
    /\ target \in [Sessions -> Partners \cup Requests \cup {Nobody}]
    /\ seen \in [Sessions -> Statuses \cup {"unread"}]
    /\ asks \in [Sessions -> Amounts \cup {0}]
    /\ funds \in [Sessions -> Nat]
    /\ withdrawn \in [Sessions -> Nat]

(* A request is debited exactly when its status says that it was approved, and
   once: no second approval, and no rejection or cancellation of a request whose
   money is gone. *)
DebitedIffApproved ==
    \A r \in Requests :
        debits[r] = IF status[r] \in {"approved", "completed"} THEN 1 ELSE 0

(* However many tabs a partner asks from, one request at most awaits a decision,
   and what he has withdrawn or asked for never exceeds what he has earned, although
   sums and statuses are read one after another. *)
WithinEarnings ==
    \A u \in Partners :
        /\ Cardinality(RequestsOf(u, {"pending"})) <= 1
        /\ Total(RequestsOf(u, {"pending", "approved", "completed"})) <= earned[u]

=============================================================================
