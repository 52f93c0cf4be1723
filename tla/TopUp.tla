-------------------------------- MODULE TopUp --------------------------------
(***************************************************************************)
(* Topping a user's balance up through Freekassa, the provider whose       *)
(* handlers the newer ones copy: the webhook, the status poll (automatic   *)
(* and manual) and the finalisation both share, next to the purchases that *)
(* debit the same users.                                                   *)
(*                                                                         *)
(* Every handler runs in a database session of its own.  The module keeps  *)
(* the committed tables apart from what a session has read (its identity   *)
(* map) and has written but not committed.  PostgreSQL runs at READ        *)
(* COMMITTED: a plain SELECT sees committed rows, SELECT ... FOR UPDATE    *)
(* waits for the row's lock, and a lock lives until the session commits    *)
(* or rolls back.                                                          *)
(***************************************************************************)
EXTENDS Integers, FiniteSetsExt

CONSTANTS
    Payments,    \* ids of freekassa_payments rows; a larger id is a newer row
    Users,
    Owner,       \* payment -> user_id
    Amount,      \* payment -> amount_kopeks
    Webhooks,    \* slots for concurrently served provider callbacks
    Checks,      \* slots for poll sessions
    AutoLoop,    \* the poll session that belongs to the auto-check loop
    Spenders,    \* slots for concurrently served purchases
    Buyer,       \* spender -> user whose balance it debits
    Price,       \* spender -> amount it debits
    NoOne,       \* no handler (a free row lock), no payment
    FaultKinds,  \* which faults may happen: "crash", "db", "api", "python"
    MaxFaults    \* how many faults a behaviour may contain

Handlers == Webhooks \cup Checks \cup Spenders

ASSUME ConstantsAssumption ==
    /\ Payments \subseteq Nat
    /\ Owner \in [Payments -> Users]
    /\ Amount \in [Payments -> Nat]
    /\ Buyer \in [Spenders -> Users]
    /\ Price \in [Spenders -> Nat]
    /\ AutoLoop \in Checks
    /\ Webhooks \cap Checks = {}
    /\ Webhooks \cap Spenders = {}
    /\ Checks \cap Spenders = {}
    /\ NoOne \notin Handlers
    /\ NoOne \notin Payments
    /\ MaxFaults \in Nat

(* The ids are 32-bit integers. *)
ASSUME FiniteAssumption == IsFiniteSet(Payments)

VARIABLES
    order,     \* the provider's view of each order: "none", "issued", "paid"
    isPaid,    \* committed freekassa_payments.is_paid
    deposits,  \* committed DEPOSIT transactions of each payment (transaction_id links the first)
    balance,   \* committed users.balance_kopeks
    spent,     \* committed debits of each user
    payLock,   \* holder of the lock on each payment row
    userLock,  \* holder of the lock on each user row
    pc,        \* where each handler stands
    pay,       \* the payment a webhook or poll session works on, NoOne if none
    todo,      \* candidates a poll session has still to check
    seen,      \* a session's copy of its payment's row
    copy,      \* a session's copy of the balance it is about to write
    flagged,   \* payments a session has marked paid but not committed
    recorded,  \* payments whose DEPOSIT a session has flushed but not committed
    faults     \* number of faults so far

tables == <<isPaid, deposits, balance, spent>>
locks == <<payLock, userLock>>
session == <<pc, pay, todo, seen, copy, flagged, recorded>>
vars == <<order, tables, locks, session, faults>>

(* The user whose row a handler locks. *)
UserOf(h) == IF h \in Spenders THEN Buyer[h] ELSE Owner[pay[h]]

(* What the handlers look at in a payment's row. *)
Row(p) == [isPaid |-> isPaid[p], linked |-> deposits[p] > 0]
NoRow == [isPaid |-> FALSE, linked |-> FALSE]

Init ==
    /\ order = [p \in Payments |-> "none"]
    /\ isPaid = [p \in Payments |-> FALSE]
    /\ deposits = [p \in Payments |-> 0]
    /\ balance = [u \in Users |-> 0]
    /\ spent = [u \in Users |-> 0]
    /\ payLock = [p \in Payments |-> NoOne]
    /\ userLock = [u \in Users |-> NoOne]
    /\ pc = [h \in Handlers |-> "idle"]
    /\ pay = [h \in Handlers |-> NoOne]
    /\ todo = [h \in Handlers |-> {}]
    /\ seen = [h \in Handlers |-> NoRow]
    /\ copy = [h \in Handlers |-> 0]
    /\ flagged = [h \in Handlers |-> {}]
    /\ recorded = [h \in Handlers |-> {}]
    /\ faults = 0
-----------------------------------------------------------------------------
(***************************************************************************)
(* Sessions.                                                               *)
(***************************************************************************)

Unlock(h) ==
    /\ payLock' = [p \in Payments |-> IF payLock[p] = h THEN NoOne ELSE payLock[p]]
    /\ userLock' = [u \in Users |-> IF userLock[u] = h THEN NoOne ELSE userLock[u]]

ForgetWrites(h) ==
    /\ flagged' = [flagged EXCEPT ![h] = {}]
    /\ recorded' = [recorded EXCEPT ![h] = {}]

(* COMMIT: the payment rows and transactions a session has written become
   visible together, and its locks are released. *)
CommitPayments(h) ==
    /\ isPaid' = [p \in Payments |-> isPaid[p] \/ p \in flagged[h]]
    /\ deposits' = [p \in Payments |-> deposits[p] + (IF p \in recorded[h] THEN 1 ELSE 0)]
    /\ Unlock(h)
    /\ ForgetWrites(h)

Rollback(h) ==
    /\ UNCHANGED tables
    /\ Unlock(h)
    /\ ForgetWrites(h)

(* The handler is done with its payment: a poll session goes on with its
   next candidate, any other handler returns. *)
Finish(h) ==
    /\ pc' = [pc EXCEPT ![h] = IF h \in Checks THEN "polling" ELSE "idle"]
    /\ todo' = [todo EXCEPT ![h] = @ \ {pay[h]}]
    /\ pay' = [pay EXCEPT ![h] = NoOne]
    /\ seen' = [seen EXCEPT ![h] = NoRow]
    /\ copy' = [copy EXCEPT ![h] = 0]

Goto(h, label) == pc' = [pc EXCEPT ![h] = label]

-----------------------------------------------------------------------------
(***************************************************************************)
(* Creating the order, and the provider.                                   *)
(***************************************************************************)

(* The order's row is committed before the user is given the payment URL. *)
CreatePayment(p) ==
    /\ order[p] = "none"
    /\ order' = [order EXCEPT ![p] = "issued"]
    /\ UNCHANGED <<tables, locks, session, faults>>

ProviderPays(p) ==
    /\ order[p] = "issued"
    /\ order' = [order EXCEPT ![p] = "paid"]
    /\ UNCHANGED <<tables, locks, session, faults>>

-----------------------------------------------------------------------------
(***************************************************************************)
(* The webhook, up to the row lock.  The provider may deliver a callback   *)
(* for a paid order any number of times and at any time.                   *)
(***************************************************************************)

ReceiveWebhook(w, p) ==
    /\ pc[w] = "idle"
    /\ order[p] = "paid"
    /\ Goto(w, "found")
    /\ pay' = [pay EXCEPT ![w] = p]
    /\ seen' = [seen EXCEPT ![w] = Row(p)]
    /\ UNCHANGED <<order, tables, locks, todo, copy, flagged, recorded, faults>>

(* The callback's AMOUNT is not the order's: nothing is written, and the
   session that get_db opened ends. *)
RejectAmount(w) ==
    /\ w \in Webhooks
    /\ pc[w] = "locked" /\ ~seen[w].isPaid
    /\ Rollback(w)
    /\ Finish(w)
    /\ UNCHANGED <<order, faults>>

(* Mutant: only orders whose status is still "issued" are candidates. *)
PendingUnpaidOnly == {p \in Payments : order[p] = "issued" /\ ~isPaid[p]}

-----------------------------------------------------------------------------
(***************************************************************************)
(* The status poll.                                                        *)
(***************************************************************************)

Pending == {p \in Payments : order[p] # "none" /\ ~isPaid[p]}

StartCheck(h, candidates) ==
    /\ pc[h] = "idle"
    /\ candidates # {}
    /\ Goto(h, "polling")
    /\ todo' = [todo EXCEPT ![h] = candidates]
    /\ UNCHANGED <<order, tables, locks, pay, seen, copy, flagged, recorded, faults>>

(* One round of the auto-check loop takes every pending order. *)
AutoCheck == StartCheck(AutoLoop, Pending)

(* An administrator checks one order or the whole list, a user one order. *)
ManualCheck(h) ==
    /\ h # AutoLoop
    /\ \/ StartCheck(h, Pending)
       \/ \E p \in Payments : order[p] # "none" /\ StartCheck(h, {p})

(* Mutant: a manual round takes its list oldest first. *)
NextCandidateUnsorted(h, p) ==
    /\ pc[h] = "polling"
    /\ p \in todo[h]
    /\ \A q \in todo[h] : IF h = AutoLoop THEN q <= p ELSE p <= q

(* Candidates are taken newest first (list_recent_pending_payments sorts). *)
NextCandidate(h, p) ==
    /\ pc[h] = "polling"
    /\ p \in todo[h]
    /\ \A q \in todo[h] : q <= p

(* The copy of the row that the session holds already says paid, or the
   provider says the order is not paid: nothing to do. *)
SkipCandidate(h, p) ==
    /\ NextCandidate(h, p)
    /\ isPaid[p] \/ order[p] # "paid"
    /\ todo' = [todo EXCEPT ![h] = @ \ {p}]
    /\ UNCHANGED <<order, tables, locks, pc, pay, seen, copy, flagged, recorded, faults>>

(* The session's copy of the row, possibly older than the committed row, says
   unpaid, and the provider's answer says paid. *)
ProviderConfirms(h, p) ==
    /\ NextCandidate(h, p)
    /\ order[p] = "paid"
    /\ Goto(h, "found")
    /\ pay' = [pay EXCEPT ![h] = p]
    /\ UNCHANGED <<order, tables, locks, todo, seen, copy, flagged, recorded, faults>>

(* The list is done: the loop and the bot's middleware commit, the cabinet's
   session is closed without a commit. *)
EndCheck(h) ==
    /\ pc[h] = "polling"
    /\ todo[h] = {}
    /\ Goto(h, "idle")
    /\ \/ CommitPayments(h) /\ UNCHANGED <<balance, spent>>
       \/ h # AutoLoop /\ Rollback(h)
    /\ UNCHANGED <<order, pay, todo, seen, copy, faults>>

-----------------------------------------------------------------------------
(***************************************************************************)
(* From the row lock to the commit: common to webhook and poll.            *)
(***************************************************************************)

(* Mutant: the lock without populate_existing keeps the older copy. *)
LockPaymentStale(h) ==
    /\ pc[h] = "found"
    /\ payLock[pay[h]] = NoOne
    /\ payLock' = [payLock EXCEPT ![pay[h]] = h]
    /\ Goto(h, "locked")
    /\ UNCHANGED <<order, tables, userLock, pay, todo, seen, copy, flagged, recorded, faults>>

(* SELECT ... FOR UPDATE with populate_existing: waits for the row's lock,
   then refreshes the session's copy. *)
LockPayment(h) ==
    /\ pc[h] = "found"
    /\ payLock[pay[h]] = NoOne
    /\ payLock' = [payLock EXCEPT ![pay[h]] = h]
    /\ seen' = [seen EXCEPT ![h] = Row(pay[h])]
    /\ Goto(h, "locked")
    /\ UNCHANGED <<order, tables, userLock, pay, todo, copy, flagged, recorded, faults>>

(* Another handler was first.  The webhook's session ends; a poll session
   keeps its transaction, and so the lock, while it goes through its list. *)
AlreadyPaid(h) ==
    /\ pc[h] = "locked" /\ seen[h].isPaid
    /\ IF h \in Checks THEN UNCHANGED <<tables, locks, flagged, recorded>>
                       ELSE Rollback(h)
    /\ Finish(h)
    /\ UNCHANGED <<order, faults>>

(* Mutant: is_paid is committed on its own, as update_freekassa_payment_status
   would do, and the row lock with it. *)
MarkPaidAndCommit(h) ==
    /\ pc[h] = "locked" /\ ~seen[h].isPaid
    /\ isPaid' = [isPaid EXCEPT ![pay[h]] = TRUE]
    /\ Unlock(h)
    /\ Goto(h, "marked")
    /\ UNCHANGED <<order, deposits, balance, spent, pay, todo, seen, copy, flagged, recorded, faults>>

(* is_paid and status are flushed, not committed. *)
MarkPaid(h) ==
    /\ pc[h] = "locked" /\ ~seen[h].isPaid
    /\ flagged' = [flagged EXCEPT ![h] = @ \cup {pay[h]}]
    /\ Goto(h, "marked")
    /\ UNCHANGED <<order, tables, locks, pay, todo, seen, copy, recorded, faults>>

(* No transaction_id yet (the row was unpaid when it was locked, so it has
   none, as PaidIffDeposited says): load the user without a lock, insert the DEPOSIT and
   link it to the payment, both flushed, not committed. *)
RecordDeposit(h) ==
    /\ pc[h] = "marked"
    /\ ~seen[h].linked
    /\ copy' = [copy EXCEPT ![h] = balance[UserOf(h)]]
    /\ recorded' = [recorded EXCEPT ![h] = @ \cup {pay[h]}]
    /\ Goto(h, "linked")
    /\ UNCHANGED <<order, tables, locks, pay, todo, seen, flagged, faults>>

(* Mutant: the lock without populate_existing keeps the older copy. *)
LockUserStale(h) ==
    /\ userLock[UserOf(h)] \in {NoOne, h}
    /\ userLock' = [userLock EXCEPT ![UserOf(h)] = h]
    /\ UNCHANGED copy

(* lock_user_for_update: the row's lock, which the session may hold already,
   and a refreshed copy of the balance. *)
LockUser(h) ==
    /\ userLock[UserOf(h)] \in {NoOne, h}
    /\ userLock' = [userLock EXCEPT ![UserOf(h)] = h]
    /\ copy' = [copy EXCEPT ![h] = balance[UserOf(h)]]

CreditUser(h) ==
    /\ pc[h] = "linked"
    /\ LockUser(h)
    /\ Goto(h, "credited")
    /\ UNCHANGED <<order, tables, payLock, pay, todo, seen, flagged, recorded, faults>>

(* The single commit: is_paid, the deposit, the link and the balance. *)
CommitCredit(h) ==
    /\ pc[h] = "credited"
    /\ balance' = [balance EXCEPT ![UserOf(h)] = copy[h] + Amount[pay[h]]]
    /\ CommitPayments(h)
    /\ Goto(h, "rewarding")
    /\ UNCHANGED <<order, spent, pay, todo, seen, copy, faults>>

(* The side effects of the credit lock the user's row a second time.  If they
   assign a promo group or set the first-topup flag they commit; if not, the
   lock stays: a webhook's session ends here, a poll session takes the lock
   along to its next candidate. *)
AfterCredit(h) ==
    /\ pc[h] = "rewarding"
    /\ userLock[UserOf(h)] \in {NoOne, h}
    /\ \/ Unlock(h)
       \/ /\ h \in Checks
          /\ userLock' = [userLock EXCEPT ![UserOf(h)] = h]
          /\ UNCHANGED payLock
    /\ Finish(h)
    /\ UNCHANGED <<order, tables, flagged, recorded, faults>>

-----------------------------------------------------------------------------
(***************************************************************************)
(* A purchase paid from the balance: subtract_user_balance.                *)
(***************************************************************************)

(* The handler has loaded its user, without a lock. *)
BeginPurchase(s) ==
    /\ pc[s] = "idle"
    /\ copy' = [copy EXCEPT ![s] = balance[UserOf(s)]]
    /\ Goto(s, "ordering")
    /\ UNCHANGED <<order, tables, locks, pay, todo, seen, flagged, recorded, faults>>

LockBuyer(s) ==
    /\ pc[s] = "ordering"
    /\ LockUser(s)
    /\ Goto(s, "charging")
    /\ UNCHANGED <<order, tables, payLock, pay, todo, seen, flagged, recorded, faults>>

(* Mutant: the debit is not guarded by the balance. *)
SubtractBalanceUnchecked(s) ==
    /\ pc[s] = "charging"
    /\ balance' = [balance EXCEPT ![Buyer[s]] = copy[s] - Price[s]]
    /\ spent' = [spent EXCEPT ![Buyer[s]] = @ + Price[s]]
    /\ Unlock(s)
    /\ Finish(s)
    /\ UNCHANGED <<order, isPaid, deposits, flagged, recorded, faults>>

InsufficientFunds(s) ==
    /\ pc[s] = "charging"
    /\ copy[s] < Price[s]
    /\ Rollback(s)
    /\ Finish(s)
    /\ UNCHANGED <<order, faults>>

SubtractBalance(s) ==
    /\ pc[s] = "charging"
    /\ copy[s] >= Price[s]
    /\ balance' = [balance EXCEPT ![Buyer[s]] = copy[s] - Price[s]]
    /\ spent' = [spent EXCEPT ![Buyer[s]] = @ + Price[s]]
    /\ Unlock(s)
    /\ Finish(s)
    /\ UNCHANGED <<order, isPaid, deposits, flagged, recorded, faults>>

-----------------------------------------------------------------------------
(***************************************************************************)
(* Faults.                                                                 *)
(***************************************************************************)

Fault(kind) ==
    /\ kind \in FaultKinds
    /\ faults < MaxFaults
    /\ faults' = faults + 1

(* A statement fails or times out, or the wait for a lock does: PostgreSQL
   aborts the transaction, so whatever is committed afterwards is empty. *)
DatabaseError(h) ==
    /\ Fault("db")
    /\ pc[h] \notin {"idle", "polling"}
    /\ Rollback(h)
    /\ Finish(h)
    /\ UNCHANGED order

(* h waits for a row lock that g holds. *)
WaitsFor(h, g) ==
    /\ g # h
    /\ \/ pc[h] = "found" /\ payLock[pay[h]] = g
       \/ pc[h] \in {"linked", "rewarding", "ordering"} /\ userLock[UserOf(h)] = g

Waiting == {h \in Handlers : \E g \in Handlers : WaitsFor(h, g)}

InCycle(h) ==
    \E waiting \in SUBSET Waiting :
        /\ h \in waiting
        /\ \A x \in waiting : \E y, z \in waiting : WaitsFor(x, y) /\ WaitsFor(z, x)

(* PostgreSQL finds a circle of waiters and makes one of them raise. *)
DeadlockDetected(h) ==
    /\ InCycle(h)
    /\ Rollback(h)
    /\ Finish(h)
    /\ UNCHANGED <<order, faults>>

(* The provider's API does not answer: the candidate is left for later. *)
ApiError(h, p) ==
    /\ Fault("api")
    /\ NextCandidate(h, p)
    /\ todo' = [todo EXCEPT ![h] = @ \ {p}]
    /\ UNCHANGED <<order, tables, locks, pc, pay, seen, copy, flagged, recorded>>

(* Python code raises between the flush of is_paid and the change of the
   balance (int() of the provider's curID is one such place), or the user is
   not found.  The transaction is intact, the handlers swallow the exception,
   and the session is committed by whoever opened it: at once after a webhook,
   at the end of the list in a poll. *)
PythonError(h) ==
    /\ Fault("python")
    /\ pc[h] \in {"marked", "linked"}
    /\ IF h \in Checks THEN UNCHANGED <<isPaid, deposits, locks, flagged, recorded>>
                       ELSE CommitPayments(h)
    /\ Finish(h)
    /\ UNCHANGED <<order, balance, spent>>

(* The bot is one process: all sessions are gone, the tables stay. *)
Crash ==
    /\ Fault("crash")
    /\ payLock' = [p \in Payments |-> NoOne]
    /\ userLock' = [u \in Users |-> NoOne]
    /\ pc' = [h \in Handlers |-> "idle"]
    /\ pay' = [h \in Handlers |-> NoOne]
    /\ todo' = [h \in Handlers |-> {}]
    /\ seen' = [h \in Handlers |-> NoRow]
    /\ copy' = [h \in Handlers |-> 0]
    /\ flagged' = [h \in Handlers |-> {}]
    /\ recorded' = [h \in Handlers |-> {}]
    /\ UNCHANGED <<order, tables>>

-----------------------------------------------------------------------------
WebhookStep(w) == \/ \E p \in Payments : ReceiveWebhook(w, p)
                  \/ RejectAmount(w)

CheckStep(h) == \/ ManualCheck(h)
                \/ \E p \in Payments : SkipCandidate(h, p) \/ ProviderConfirms(h, p)
                \/ EndCheck(h)

FinalizeStep(h) == \/ LockPayment(h) \/ AlreadyPaid(h) \/ MarkPaid(h)
                   \/ RecordDeposit(h) \/ CreditUser(h) \/ CommitCredit(h)
                   \/ AfterCredit(h)

PurchaseStep(s) == \/ BeginPurchase(s) \/ LockBuyer(s)
                   \/ InsufficientFunds(s) \/ SubtractBalance(s)

FaultStep == \/ Crash
             \/ \E h \in Handlers : DatabaseError(h) \/ DeadlockDetected(h) \/ PythonError(h)
             \/ \E h \in Checks, p \in Payments : ApiError(h, p)

Next ==
    \/ \E p \in Payments : CreatePayment(p) \/ ProviderPays(p)
    \/ \E w \in Webhooks : WebhookStep(w)
    \/ AutoCheck
    \/ \E h \in Checks : CheckStep(h)
    \/ \E h \in Webhooks \cup Checks : FinalizeStep(h)
    \/ \E s \in Spenders : PurchaseStep(s)
    \/ FaultStep

Spec == Init /\ [][Next]_vars

(***************************************************************************)
(* Fairness.  A handler that is not waiting for a lock is driven by the    *)
(* event loop until it returns; a waiting one is served, because           *)
(* PostgreSQL queues the waiters of a row and resolves a circle of them;   *)
(* and the auto-check loop starts a round again and again.  Nothing forces *)
(* users, administrators or the provider's callbacks to act.               *)
(***************************************************************************)
SessionStep(h) ==
    \/ AlreadyPaid(h) \/ MarkPaid(h) \/ RecordDeposit(h) \/ CommitCredit(h)
    \/ \E p \in Payments : SkipCandidate(h, p) \/ ProviderConfirms(h, p)
    \/ h \in Checks /\ EndCheck(h)
    \/ h \in Spenders /\ (InsufficientFunds(h) \/ SubtractBalance(h))

Fairness ==
    /\ WF_vars(AutoCheck)
    /\ \A h \in Handlers : WF_vars(SessionStep(h))
    /\ \A h \in Webhooks \cup Checks :
          SF_vars(LockPayment(h)) /\ SF_vars(CreditUser(h)) /\ SF_vars(AfterCredit(h))
    /\ WF_vars(\E h \in Handlers : DeadlockDetected(h))

FairSpec == Spec /\ Fairness

-----------------------------------------------------------------------------
(***************************************************************************)
(* Properties.                                                             *)
(***************************************************************************)

PcStates == {"idle", "polling", "found", "locked", "marked", "linked", "credited",
             "rewarding", "ordering", "charging"}

(* Every variable has the type the code's columns and locals have; balances
   and the copies of them a session is about to write are never negative. *)
TypeOK ==
    /\ order \in [Payments -> {"none", "issued", "paid"}]
    /\ isPaid \in [Payments -> BOOLEAN]
    /\ deposits \in [Payments -> Nat]
    /\ balance \in [Users -> Nat]
    /\ spent \in [Users -> Nat]
    /\ payLock \in [Payments -> Handlers \cup {NoOne}]
    /\ userLock \in [Users -> Handlers \cup {NoOne}]
    /\ pc \in [Handlers -> PcStates]
    /\ pay \in [Handlers -> Payments \cup {NoOne}]
    /\ todo \in [Handlers -> SUBSET Payments]
    /\ seen \in [Handlers -> [isPaid : BOOLEAN, linked : BOOLEAN]]
    /\ copy \in [Handlers -> Nat]
    /\ flagged \in [Handlers -> SUBSET Payments]
    /\ recorded \in [Handlers -> SUBSET Payments]
    /\ faults \in 0..MaxFaults

(* The payment row and the transactions table agree whenever another session
   can look: a payment is paid exactly when one DEPOSIT is recorded for it, and
   only the provider's word makes it so.  A crash, a rollback or a second
   delivery between the flush of is_paid and the commit never separates them. *)
PaidIffDeposited ==
    \A p \in Payments :
        /\ deposits[p] = IF isPaid[p] THEN 1 ELSE 0
        /\ isPaid[p] => order[p] = "paid"

(* Handlers never wait for each other in a circle as long as nobody has two
   orders, although a poll session keeps the locks of settled orders and of
   users while it goes on with its list.  (With two orders of one user a poll
   may wait for the second order's row with the user's row locked, while a
   webhook holds the former and waits for the latter.) *)
NoLockCycle == ~ \E h \in Handlers : InCycle(h)

OrdersOf(u) == {p \in Payments : Owner[p] = u}
Deposited(u) == {p \in OrdersOf(u) : deposits[p] > 0}
Deposits == [p \in Payments |-> deposits[p] * Amount[p]]

(* No money appears or disappears: what a user has and has spent is the sum of
   the amounts of his recorded deposits. *)
MoneyConserved ==
    \A u \in Users :
        balance[u] + spent[u] = MapThenSumSet(LAMBDA p : Deposits[p], OrdersOf(u))

(* Whatever exception a handler swallows half way, no user ever gets more than
   the amounts of the orders he paid: no deposit is recorded twice, and no
   balance is raised without its deposit. *)
NeverOverCredited ==
    /\ \A p \in Payments : deposits[p] <= 1
    /\ \A u \in Users :
          balance[u] + spent[u] <= MapThenSumSet(LAMBDA p : Amount[p], Deposited(u))

(* With the auto-check loop running, an order that the provider says is paid
   is credited in the end, whatever callbacks are lost, duplicated or refused
   and however many crashes and errors come in between. *)
EventuallyCredited ==
    \A p \in Payments : order[p] = "paid" ~> deposits[p] = 1

(* The handlers, taken together, are the ledger: balances change only by
   crediting a confirmed order once and by debits that the balance covers. *)
Book == INSTANCE Ledger WITH
    confirmed <- {p \in Payments : order[p] = "paid"},
    credited <- {p \in Payments : deposits[p] > 0},
    Prices <- {Price[s] : s \in Spenders}

ImplementsLedger == Book!LedgerSpec
=============================================================================
