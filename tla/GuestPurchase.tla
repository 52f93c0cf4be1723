---------------------------- MODULE GuestPurchase ----------------------------
(***************************************************************************)
(* Subscriptions bought on a landing page or as a gift: the provider's     *)
(* webhook that pays and fulfils a purchase, the monitor that recovers,    *)
(* retries and gives up on stuck ones, and the three ways a recipient      *)
(* activates one (the page's link, the Telegram button, a gift code).      *)
(*                                                                         *)
(* A purchase pays for one period of its recipient's subscription.  Tables *)
(* hold what is committed; mem, copy, unsaved and renewed hold what a      *)
(* session has read, or written and not committed.  Left out: accounts and *)
(* passwords, notifications, receipts and postbacks.                       *)
(***************************************************************************)
EXTENDS Integers, FiniteSets

CONSTANTS
    Purchases,
    Users,
    Recipient,     \* purchase -> the user its contact data lead to
    Gifts,         \* purchases with is_gift
    CodeGifts,     \* gifts without a recipient: whoever has the code redeems it
    SettlesFirst,  \* purchases whose provider's handler commits its payment row
                   \* before it looks at the purchase (Heleket); the others
                   \* commit both together and ignore a settled payment (Freekassa)
    Mismatched,    \* purchases whose payment is not for their amount
    Webhooks,      \* slots for concurrently served provider callbacks
    Monitor,       \* the monitoring loop
    Activators,    \* slots for concurrently served activations
    NoOne,         \* no worker, no user, no purchase
    MaxRetries,    \* max_retries, 20 in the code
    FaultKinds,    \* which faults may happen: "crash", "exception", "price"
    MaxFaults

Workers == Webhooks \cup {Monitor} \cup Activators

ASSUME ConstantsAssumption ==
    /\ Recipient \in [Purchases -> Users]
    /\ CodeGifts \subseteq Gifts /\ Gifts \subseteq Purchases
    /\ Monitor \notin Webhooks \cup Activators /\ Webhooks \cap Activators = {}
    /\ NoOne \notin Workers \cup Users \cup Purchases
    /\ MaxRetries \in Nat /\ MaxFaults \in Nat

VARIABLES
    provider,      \* purchases that the provider has taken the money for
    settled,       \* purchases whose provider payment row is committed as paid
    status,        \* guest_purchases.status
    owner,         \* guest_purchases.user_id
    retries,       \* guest_purchases.retry_count
    sub,           \* each user's subscription
    granted,       \* how many periods each purchase has been turned into
    recorded,      \* SUBSCRIPTION_PAYMENT transactions of each purchase
    purchaseLock,  \* holder of the lock on each guest_purchases row
    subLock,       \* holder of the lock on each user's subscriptions row
    pc,            \* where each worker stands
    work,          \* the purchase a worker works on
    mem,           \* a session's copy of that purchase's row
    unsaved,       \* the session has flushed that copy and not committed it
    copy,          \* a session's copy of the recipient's subscription
    renewed,       \* the session has flushed one more period and not committed it
    faults         \* number of faults so far

money == <<provider, settled>>
rows == <<status, owner>>
subs == <<sub, granted>>
locks == <<purchaseLock, subLock>>
session == <<work, mem, unsaved, copy, renewed>>
vars == <<money, rows, retries, subs, recorded, locks, pc, session, faults>>

Row(p) == [status |-> status[p], owner |-> owner[p]]
NoRow == [status |-> "none", owner |-> NoOne]

(* row: whether the user has a subscription and its status column; hasTime:
   whether end_date lies ahead; periods: how many bought periods end_date covers. *)
NoSub == [row |-> "none", hasTime |-> FALSE, periods |-> 0]
OldSub == [row |-> "expired", hasTime |-> FALSE, periods |-> 0]
LiveSub == [row |-> "active", hasTime |-> TRUE, periods |-> 0]

(* extend_subscription, replace_subscription and create_paid_subscription all
   compute the new end_date from the copy that the session has loaded. *)
Renewed(s) == [row |-> "active", hasTime |-> TRUE, periods |-> s.periods + 1]

Init ==
    /\ provider = {} /\ settled = {}
    /\ status = [p \in Purchases |-> "none"]
    /\ owner = [p \in Purchases |-> NoOne]
    /\ retries = [p \in Purchases |-> 0]
    /\ sub \in [Users -> {NoSub, OldSub, LiveSub}]
    /\ granted = [p \in Purchases |-> 0]
    /\ recorded = [p \in Purchases |-> 0]
    /\ purchaseLock = [p \in Purchases |-> NoOne]
    /\ subLock = [u \in Users |-> NoOne]
    /\ pc = [h \in Workers |-> "idle"]
    /\ work = [h \in Workers |-> NoOne]
    /\ mem = [h \in Workers |-> NoRow]
    /\ unsaved = [h \in Workers |-> FALSE]
    /\ copy = [h \in Workers |-> NoSub]
    /\ renewed = [h \in Workers |-> FALSE]
    /\ faults = 0
-----------------------------------------------------------------------------
(***************************************************************************)
(* Sessions.                                                               *)
(***************************************************************************)

Goto(h, label) == pc' = [pc EXCEPT ![h] = label]

(* fulfill_purchase works on a paid purchase, activate_purchase on a held one. *)
Fulfils(h) == mem[h].status = "paid"
Activates(h) == mem[h].status = "pending_activation"

Fault(kind) ==
    /\ kind \in FaultKinds
    /\ faults < MaxFaults
    /\ faults' = faults + 1

(* The user whose subscription a session renews. *)
UserOf(h) == IF Fulfils(h) THEN Recipient[work[h]] ELSE mem[h].owner

CanWrite(h) == purchaseLock[work[h]] \in {NoOne, h}

Unlock(h) ==
    /\ purchaseLock' = [p \in Purchases |-> IF purchaseLock[p] = h THEN NoOne ELSE purchaseLock[p]]
    /\ subLock' = [u \in Users |-> IF subLock[u] = h THEN NoOne ELSE subLock[u]]

(* COMMIT, with row as the purchase's row and s as the subscription. *)
WriteRow(h, row) ==
    /\ status' = [status EXCEPT ![work[h]] = row.status]
    /\ owner' = [owner EXCEPT ![work[h]] = row.owner]
    /\ settled' = IF h \in Webhooks THEN settled \cup {work[h]} ELSE settled
    /\ UNCHANGED provider

WriteFlushed(h) ==
    IF unsaved[h] THEN WriteRow(h, mem[h]) ELSE UNCHANGED <<money, rows>>

WriteSub(h) ==
    IF renewed[h]
    THEN /\ sub' = [sub EXCEPT ![UserOf(h)] = Renewed(copy[h])]
         /\ granted' = [granted EXCEPT ![work[h]] = @ + 1]
    ELSE UNCHANGED subs

Clean(h) ==
    /\ unsaved' = [unsaved EXCEPT ![h] = FALSE]
    /\ renewed' = [renewed EXCEPT ![h] = FALSE]

(* The session ends and its worker is free. *)
Leave(h, label) ==
    /\ Goto(h, label)
    /\ work' = IF label = "idle" THEN [work EXCEPT ![h] = NoOne] ELSE work
    /\ mem' = [mem EXCEPT ![h] = NoRow]
    /\ copy' = [copy EXCEPT ![h] = NoSub]
    /\ Clean(h)

(* A worker starts on p; row is what its session has already read of it. *)
Enter(h, p, row, label) ==
    /\ pc[h] = "idle"
    /\ Goto(h, label)
    /\ work' = [work EXCEPT ![h] = p]
    /\ mem' = [mem EXCEPT ![h] = row]
    /\ UNCHANGED <<unsaved, copy, renewed>>

(* SELECT ... FOR UPDATE on the purchase, once nobody else holds it. *)
Free(p) == purchaseLock[p] = NoOne
TakeRow(h, row, flushed) ==
    /\ purchaseLock' = [purchaseLock EXCEPT ![work[h]] = h]
    /\ mem' = [mem EXCEPT ![h] = row]
    /\ unsaved' = [unsaved EXCEPT ![h] = flushed]
    /\ Goto(h, "locked")
    /\ UNCHANGED <<work, copy, renewed, subLock>>
-----------------------------------------------------------------------------
(***************************************************************************)
(* The purchase is created, the provider takes the money, time passes.     *)
(***************************************************************************)

CreatePurchase(p) ==
    /\ status[p] = "none"
    /\ status' = [status EXCEPT ![p] = "pending"]
    /\ UNCHANGED <<money, owner, retries, subs, recorded, locks, pc, session, faults>>

ProviderPays(p) ==
    /\ status[p] # "none" /\ p \notin provider
    /\ provider' = provider \cup {p}
    /\ UNCHANGED <<settled, rows, retries, subs, recorded, locks, pc, session, faults>>

(* The end_date of an earlier subscription passes; its status column stays
   "active" until somebody looks.  A period bought here outlasts the day in
   which the monitor deals with a purchase. *)
PeriodEnds(u) ==
    /\ sub[u].hasTime /\ sub[u].periods = 0
    /\ sub' = [sub EXCEPT ![u].hasTime = FALSE]
    /\ UNCHANGED <<money, rows, retries, granted, recorded, locks, pc, session, faults>>
-----------------------------------------------------------------------------
(***************************************************************************)
(* The provider's webhook and try_fulfill_guest_purchase.  Its session     *)
(* locks the payment row, then the purchase; both locks end together, so   *)
(* one stands for the two.                                                 *)
(***************************************************************************)

ReceiveWebhook(w, p) ==
    /\ p \in provider
    /\ Enter(w, p, NoRow, "received")
    /\ settled' = IF p \in SettlesFirst THEN settled \cup {p} ELSE settled
    /\ UNCHANGED <<provider, rows, retries, subs, recorded, locks, faults>>

AlreadySettled(p) == p \in settled \ SettlesFirst

(* Mutant: a callback that comes again does not see what was delivered. *)
AnsweredUnlessDelivered(p) ==
    \/ status[p] \in {"pending_activation", "failed"}
    \/ status[p] = "paid" /\ p \in CodeGifts

Answered(p) ==
    \/ status[p] \in {"delivered", "pending_activation", "failed"}
    \/ status[p] = "paid" /\ p \in CodeGifts

(* What the webhook does at once under the lock, and commits. *)
WebhookAnswers(w) ==
    LET p == work[w] IN
    /\ pc[w] = "received" /\ Free(p)
    /\ \/ AlreadySettled(p) /\ UNCHANGED <<status, settled>>
       \/ /\ ~AlreadySettled(p) /\ p \in Mismatched
          /\ status' = [status EXCEPT ![p] = "failed"]
          /\ settled' = settled \cup {p}
       \/ /\ ~AlreadySettled(p) /\ p \notin Mismatched /\ Answered(p)
          /\ settled' = settled \cup {p} /\ UNCHANGED status
       \/ /\ ~AlreadySettled(p) /\ p \in CodeGifts \ Mismatched /\ ~Answered(p)
          /\ status' = [status EXCEPT ![p] = "paid"]
          /\ settled' = settled \cup {p}
    /\ Leave(w, "idle")
    /\ UNCHANGED <<provider, owner, retries, subs, recorded, locks, faults>>

(* The purchase is marked paid, flushed and not committed, and fulfilled. *)
WebhookFulfils(w) ==
    LET p == work[w] IN
    /\ pc[w] = "received" /\ Free(p)
    /\ ~AlreadySettled(p) /\ ~Answered(p) /\ p \notin CodeGifts \cup Mismatched
    /\ TakeRow(w, [status |-> "paid", owner |-> owner[p]], TRUE)
    /\ UNCHANGED <<money, rows, retries, subs, recorded, faults>>

(* Mutant: the fallback does not look at the row again. *)
RequeueUnchecked(w) ==
    LET p == work[w] IN
    /\ pc[w] = "requeue" /\ Free(p)
    /\ status' = [status EXCEPT ![p] = "paid"]
    /\ Leave(w, "idle")
    /\ UNCHANGED <<money, owner, retries, subs, recorded, locks, faults>>

(* After an exception a fresh session leaves the purchase to the monitor. *)
Requeue(w) ==
    LET p == work[w] IN
    /\ pc[w] = "requeue" /\ Free(p)
    /\ status' = IF status[p] \in {"pending", "paid"} THEN [status EXCEPT ![p] = "paid"] ELSE status
    /\ Leave(w, "idle")
    /\ UNCHANGED <<money, owner, retries, subs, recorded, locks, faults>>
-----------------------------------------------------------------------------
(***************************************************************************)
(* The monitor.  It picks rows with an unlocked SELECT, then opens a       *)
(* session of its own for each.  A row it retries was paid 5 or 10 minutes *)
(* ago: longer than a webhook takes, whose session has just set paid_at.   *)
(* An activation leaves paid_at alone and may be at work on the same row.  *)
(* retry_count is raised in a commit of its own; only the monitor reads it.*)
(***************************************************************************)

AtWork == {"locked", "loaded", "panel", "delivering", "recording"}
Stale(p) == \A w \in Webhooks : work[w] = p => pc[w] \notin AtWork

PickPending(p) ==
    /\ status[p] = "pending"
    /\ Enter(Monitor, p, NoRow, "recovering")
    /\ UNCHANGED <<money, rows, retries, subs, recorded, locks, faults>>

(* Mutant: the SELECT does not look at retry_count. *)
RetryPaidForever(p) ==
    /\ status[p] = "paid" /\ p \notin CodeGifts /\ Stale(p)
    /\ retries' = [retries EXCEPT ![p] = @ + 1]
    /\ Enter(Monitor, p, NoRow, "retrying")
    /\ UNCHANGED <<money, rows, subs, recorded, locks, faults>>

RetryPaid(p) ==
    /\ status[p] = "paid" /\ p \notin CodeGifts /\ retries[p] < MaxRetries /\ Stale(p)
    /\ retries' = [retries EXCEPT ![p] = @ + 1]
    /\ Enter(Monitor, p, NoRow, "retrying")
    /\ UNCHANGED <<money, rows, subs, recorded, locks, faults>>

RetryActivation(p) ==
    /\ status[p] = "pending_activation" /\ owner[p] # NoOne /\ retries[p] < MaxRetries /\ Stale(p)
    /\ retries' = [retries EXCEPT ![p] = @ + 1]
    /\ Enter(Monitor, p, NoRow, "entering")
    /\ UNCHANGED <<money, rows, subs, recorded, locks, faults>>

(* Mutant: only purchases that were never held are given up. *)
PickExhaustedPaidOnly(p) ==
    /\ status[p] = "paid" /\ retries[p] >= MaxRetries
    /\ Enter(Monitor, p, NoRow, "failing")
    /\ UNCHANGED <<money, rows, retries, subs, recorded, locks, faults>>

(* No minimum age is asked for here. *)
PickExhausted(p) ==
    /\ status[p] \in {"paid", "pending_activation"} /\ retries[p] >= MaxRetries
    /\ Enter(Monitor, p, NoRow, "failing")
    /\ UNCHANGED <<money, rows, retries, subs, recorded, locks, faults>>

(* Mutant: every pending purchase is taken for paid. *)
RecoverUnchecked ==
    LET p == work[Monitor] IN
    /\ pc[Monitor] = "recovering" /\ Free(p)
    /\ status' = IF status[p] = "pending" THEN [status EXCEPT ![p] = "paid"] ELSE status
    /\ Leave(Monitor, "idle")
    /\ UNCHANGED <<money, owner, retries, subs, recorded, locks, faults>>

(* _check_and_recover_pending_purchase, under the lock. *)
Recover ==
    LET p == work[Monitor] IN
    /\ pc[Monitor] = "recovering" /\ Free(p)
    /\ status' = IF status[p] = "pending" /\ p \in settled
                 THEN [status EXCEPT ![p] = IF p \in Mismatched THEN "failed" ELSE "paid"]
                 ELSE status
    /\ Leave(Monitor, "idle")
    /\ UNCHANGED <<money, owner, retries, subs, recorded, locks, faults>>

(* _fail_exhausted_purchases_batch, under the lock. *)
FailExhausted ==
    LET p == work[Monitor] IN
    /\ pc[Monitor] = "failing" /\ Free(p)
    /\ status' = IF status[p] \in {"delivered", "failed"} THEN status
                 ELSE [status EXCEPT ![p] = "failed"]
    /\ Leave(Monitor, "idle")
    /\ UNCHANGED <<money, owner, retries, subs, recorded, locks, faults>>

(* fulfill_purchase locks the purchase and goes on only if it is still paid. *)
RetryFulfils ==
    LET p == work[Monitor] IN
    /\ pc[Monitor] = "retrying" /\ Free(p)
    /\ IF status[p] = "paid"
       THEN TakeRow(Monitor, Row(p), FALSE)
       ELSE Leave(Monitor, "idle") /\ UNCHANGED locks
    /\ UNCHANGED <<money, rows, retries, subs, recorded, faults>>
-----------------------------------------------------------------------------
(***************************************************************************)
(* The ways into activate_purchase.                                        *)
(***************************************************************************)

OpenActivationLink(a, p) ==
    /\ status[p] # "none"
    /\ Enter(a, p, NoRow, "entering")
    /\ UNCHANGED <<money, rows, retries, subs, recorded, locks, faults>>

(* The button's handler has loaded the purchase, without a lock, into the
   session in which activate_purchase locks it: the copy stays as it was. *)
PressGiftButton(a, p) ==
    /\ p \in Gifts /\ owner[p] # NoOne
    /\ Enter(a, p, Row(p), "entering")
    /\ UNCHANGED <<money, rows, retries, subs, recorded, locks, faults>>

(* Mutant: a code that is linked to a user already is not refused. *)
RedeemCodeOfOthers(a, p, u) ==
    /\ pc[a] = "idle"
    /\ p \in Gifts /\ Free(p)
    /\ status[p] \in {"paid", "pending_activation"}
    /\ purchaseLock' = [purchaseLock EXCEPT ![p] = a]
    /\ work' = [work EXCEPT ![a] = p]
    /\ mem' = [mem EXCEPT ![a] = [status |-> "pending_activation", owner |-> u]]
    /\ unsaved' = [unsaved EXCEPT ![a] = TRUE]
    /\ Goto(a, "locked")
    /\ UNCHANGED <<money, rows, retries, subs, recorded, subLock, copy, renewed, faults>>

(* A gift code: lock, link to whoever redeems it, PAID -> PENDING_ACTIVATION. *)
RedeemCode(a, p, u) ==
    /\ pc[a] = "idle"
    /\ p \in Gifts /\ Free(p) /\ owner[p] \in {NoOne, u}
    /\ status[p] \in {"paid", "pending_activation"}
    /\ purchaseLock' = [purchaseLock EXCEPT ![p] = a]
    /\ work' = [work EXCEPT ![a] = p]
    /\ mem' = [mem EXCEPT ![a] = [status |-> "pending_activation", owner |-> u]]
    /\ unsaved' = [unsaved EXCEPT ![a] = TRUE]
    /\ Goto(a, "locked")
    /\ UNCHANGED <<money, rows, retries, subs, recorded, subLock, copy, renewed, faults>>

(* The lock, without populate_existing: what the session has read, it keeps. *)
EnterActivation(h) ==
    LET row == IF mem[h] = NoRow THEN Row(work[h]) ELSE mem[h] IN
    /\ pc[h] = "entering" /\ Free(work[h])
    /\ IF row.status = "pending_activation" /\ row.owner # NoOne
       THEN TakeRow(h, row, FALSE)
       ELSE Leave(h, "idle") /\ UNCHANGED locks
    /\ UNCHANGED <<money, rows, retries, subs, recorded, faults>>
-----------------------------------------------------------------------------
(***************************************************************************)
(* fulfill_purchase and activate_purchase, from the purchase's lock on.    *)
(***************************************************************************)

LoadSubscription(h) ==
    LET s == sub[UserOf(h)] IN
    /\ pc[h] = "locked"
    /\ s.row = "active" => s.hasTime
    /\ copy' = [copy EXCEPT ![h] = s]
    /\ Goto(h, "loaded")
    /\ UNCHANGED <<money, rows, retries, subs, recorded, locks, work, mem, unsaved, renewed, faults>>

(* check_and_update_subscription_status finds that the period has ended, and
   commits: whatever the session has flushed is saved, its lock is gone. *)
LoadExpired(h) ==
    LET u == UserOf(h) IN
    /\ pc[h] = "locked"
    /\ sub[u].row = "active" /\ ~sub[u].hasTime /\ subLock[u] = NoOne
    /\ sub' = [sub EXCEPT ![u].row = "expired"]
    /\ copy' = [copy EXCEPT ![h] = sub'[u]]
    /\ WriteFlushed(h)
    /\ Unlock(h)
    /\ Clean(h)
    /\ Goto(h, "loaded")
    /\ UNCHANGED <<retries, granted, recorded, work, mem, faults>>

(* The tariff has lost its price for this period: the purchase is given up. *)
FailUnpriced(h) ==
    /\ Fault("price")
    /\ pc[h] = "locked" /\ Fulfils(h)
    /\ WriteRow(h, [status |-> "failed", owner |-> owner[work[h]]])
    /\ Unlock(h)
    /\ Leave(h, "idle")
    /\ UNCHANGED <<retries, subs, recorded>>

(* The recipient has a running subscription, or any one if this is a gift. *)
MustHold(h) ==
    \/ copy[h].row = "active"
    \/ work[h] \in Gifts /\ copy[h].row # "none"

Hold(h) ==
    /\ pc[h] = "loaded" /\ Fulfils(h) /\ MustHold(h) /\ CanWrite(h)
    /\ WriteRow(h, [status |-> "pending_activation", owner |-> UserOf(h)])
    /\ Unlock(h)
    /\ Leave(h, "idle")
    /\ UNCHANGED <<retries, subs, recorded, faults>>

(* The unique index on a user's running subscription of one tariff. *)
Conflict(h) == copy[h].row = "none" /\ sub[UserOf(h)].row = "active"

CanRenew(h) ==
    /\ pc[h] = "loaded"
    /\ Fulfils(h) => ~MustHold(h)
    /\ subLock[UserOf(h)] = NoOne

(* fulfill_purchase replaces or creates the subscription, which commits. *)
GrantPeriod(h) ==
    /\ CanRenew(h) /\ Fulfils(h) /\ ~Conflict(h)
    /\ WriteFlushed(h)
    /\ sub' = [sub EXCEPT ![UserOf(h)] = Renewed(copy[h])]
    /\ granted' = [granted EXCEPT ![work[h]] = @ + 1]
    /\ Unlock(h)
    /\ Clean(h)
    /\ Goto(h, "panel")
    /\ UNCHANGED <<retries, recorded, work, mem, copy, faults>>

(* activate_purchase extends, replaces or creates it with commit=False. *)
PreparePeriod(h) ==
    /\ CanRenew(h) /\ Activates(h) /\ ~Conflict(h)
    /\ subLock' = [subLock EXCEPT ![UserOf(h)] = h]
    /\ renewed' = [renewed EXCEPT ![h] = TRUE]
    /\ Goto(h, "panel")
    /\ UNCHANGED <<money, rows, retries, subs, recorded, purchaseLock, work, mem, unsaved, copy, faults>>

(* create_remnawave_user reaches the panel and commits whatever is flushed. *)
PanelAnswers(h) ==
    /\ pc[h] = "panel"
    /\ WriteFlushed(h)
    /\ WriteSub(h)
    /\ Unlock(h)
    /\ Clean(h)
    /\ Goto(h, "delivering")
    /\ UNCHANGED <<retries, recorded, work, mem, copy, faults>>

(* Mutant: create_remnawave_user rolls back when it fails. *)
PanelUnavailableRollsBack(h) ==
    /\ pc[h] = "panel"
    /\ Unlock(h)
    /\ Clean(h)
    /\ Goto(h, "delivering")
    /\ UNCHANGED <<money, rows, retries, subs, recorded, work, mem, copy, faults>>

(* It does not reach it, returns None, and the caller goes on. *)
PanelUnavailable(h) ==
    /\ pc[h] = "panel"
    /\ Goto(h, "delivering")
    /\ UNCHANGED <<money, rows, retries, subs, recorded, locks, session, faults>>

Deliver(h) ==
    /\ pc[h] = "delivering" /\ CanWrite(h)
    /\ WriteRow(h, [status |-> "delivered", owner |-> UserOf(h)])
    /\ WriteSub(h)
    /\ Unlock(h)
    /\ IF work[h] \in Gifts
       THEN Leave(h, "idle")
       ELSE Clean(h) /\ Goto(h, "recording") /\ UNCHANGED <<work, mem, copy>>
    /\ UNCHANGED <<retries, recorded, faults>>

(* The payment's transaction, in a commit of its own. *)
RecordPayment(h) ==
    /\ pc[h] = "recording"
    /\ recorded' = [recorded EXCEPT ![work[h]] = @ + 1]
    /\ Leave(h, "idle")
    /\ UNCHANGED <<money, rows, retries, subs, locks, faults>>
-----------------------------------------------------------------------------
(***************************************************************************)
(* Failures.                                                               *)
(***************************************************************************)

(* Roll back and raise; the webhook then puts the purchase in the queue. *)
Abort(h) ==
    /\ Unlock(h)
    /\ Leave(h, IF h \in Webhooks THEN "requeue" ELSE "idle")
    /\ UNCHANGED <<money, rows, retries, subs, recorded>>

UniqueViolation(h) ==
    /\ CanRenew(h) /\ Conflict(h)
    /\ Abort(h)
    /\ UNCHANGED faults

(* h waits for a row that g has locked. *)
WaitsForPurchase(h) ==
    \/ pc[h] \in {"received", "requeue", "recovering", "retrying", "failing", "entering", "delivering"}
    \/ pc[h] = "loaded" /\ Fulfils(h) /\ MustHold(h)
WaitsForSub(h) ==
    \/ pc[h] = "locked" /\ sub[UserOf(h)].row = "active" /\ ~sub[UserOf(h)].hasTime
    \/ pc[h] = "loaded" /\ ~(Fulfils(h) /\ MustHold(h))
WaitsFor(h, g) ==
    /\ g # h
    /\ \/ WaitsForPurchase(h) /\ purchaseLock[work[h]] = g
       \/ WaitsForSub(h) /\ subLock[UserOf(h)] = g

InCycle(h) ==
    \E waiting \in SUBSET Workers :
        /\ h \in waiting
        /\ \A x \in waiting : \E y, z \in waiting : WaitsFor(x, y) /\ WaitsFor(z, x)

(* PostgreSQL finds a circle of waiters and makes one of them raise. *)
DeadlockDetected(h) ==
    /\ pc[h] \in {"locked", "loaded", "delivering"}
    /\ InCycle(h)
    /\ Abort(h)
    /\ UNCHANGED faults

HandlerFails(h) ==
    /\ Fault("exception")
    /\ pc[h] \in AtWork
    /\ Abort(h)

(* The bot is one process: all sessions are gone, the tables stay. *)
Crash ==
    /\ Fault("crash")
    /\ purchaseLock' = [p \in Purchases |-> NoOne]
    /\ subLock' = [u \in Users |-> NoOne]
    /\ pc' = [h \in Workers |-> "idle"]
    /\ work' = [h \in Workers |-> NoOne]
    /\ mem' = [h \in Workers |-> NoRow]
    /\ unsaved' = [h \in Workers |-> FALSE]
    /\ copy' = [h \in Workers |-> NoSub]
    /\ renewed' = [h \in Workers |-> FALSE]
    /\ UNCHANGED <<money, rows, retries, subs, recorded>>
-----------------------------------------------------------------------------
WebhookStep(w) == \/ \E p \in Purchases : ReceiveWebhook(w, p)
                  \/ WebhookAnswers(w) \/ WebhookFulfils(w) \/ Requeue(w)

Pick(p) == PickPending(p) \/ RetryPaid(p) \/ RetryActivation(p) \/ PickExhausted(p)

MonitorStep == \/ \E p \in Purchases : Pick(p)
               \/ Recover \/ FailExhausted \/ RetryFulfils

ActivatorStep(a) ==
    \E p \in Purchases :
        \/ OpenActivationLink(a, p) \/ PressGiftButton(a, p)
        \/ \E u \in Users : RedeemCode(a, p, u)

DeliveryStep(h) ==
    \/ EnterActivation(h) \/ LoadSubscription(h) \/ LoadExpired(h) \/ Hold(h)
    \/ GrantPeriod(h) \/ PreparePeriod(h) \/ PanelAnswers(h) \/ PanelUnavailable(h)
    \/ Deliver(h) \/ RecordPayment(h) \/ UniqueViolation(h)
    \/ DeadlockDetected(h)

Next ==
    \/ \E p \in Purchases : CreatePurchase(p) \/ ProviderPays(p)
    \/ \E u \in Users : PeriodEnds(u)
    \/ \E w \in Webhooks : WebhookStep(w)
    \/ MonitorStep
    \/ \E a \in Activators : ActivatorStep(a)
    \/ \E h \in Workers : DeliveryStep(h) \/ HandlerFails(h) \/ FailUnpriced(h)
    \/ Crash

Spec == Init /\ [][Next]_vars

(***************************************************************************)
(* Fairness.  The event loop drives every handler that is not waiting, a   *)
(* waiting one gets its lock in the end, and the monitor comes round to    *)
(* every purchase that needs it (it takes ten per round, oldest first).    *)
(* Nobody is forced to pay, to deliver a callback or to activate anything. *)
(***************************************************************************)
SessionStep(h) ==
    \/ DeliveryStep(h)
    \/ h \in Webhooks /\ (WebhookAnswers(h) \/ WebhookFulfils(h) \/ Requeue(h))
    \/ h = Monitor /\ (Recover \/ FailExhausted \/ RetryFulfils)

Fairness ==
    /\ \A h \in Workers : SF_vars(SessionStep(h))
    /\ \A p \in Purchases : SF_vars(Pick(p))

FairSpec == Spec /\ Fairness
-----------------------------------------------------------------------------
(***************************************************************************)
(* Properties.                                                             *)
(***************************************************************************)

Statuses == {"none", "pending", "paid", "pending_activation", "delivered", "failed"}
RowType == [status : Statuses, owner : Users \cup {NoOne}]
SubType == [row : {"none", "active", "expired"}, hasTime : BOOLEAN, periods : Nat]
PcStates == {"idle", "received", "requeue", "recovering", "retrying", "failing", "entering",
             "locked", "loaded", "panel", "delivering", "recording"}

(* Every variable has the type its column or local has; the monitor never
   spends more attempts on a purchase than max_retries. *)
TypeOK ==
    /\ provider \subseteq Purchases /\ settled \subseteq Purchases
    /\ status \in [Purchases -> Statuses]
    /\ owner \in [Purchases -> Users \cup {NoOne}]
    /\ retries \in [Purchases -> 0..MaxRetries]
    /\ sub \in [Users -> SubType]
    /\ granted \in [Purchases -> Nat]
    /\ recorded \in [Purchases -> Nat]
    /\ purchaseLock \in [Purchases -> Workers \cup {NoOne}]
    /\ subLock \in [Users -> Workers \cup {NoOne}]
    /\ pc \in [Workers -> PcStates]
    /\ work \in [Workers -> Purchases \cup {NoOne}]
    /\ mem \in [Workers -> RowType]
    /\ unsaved \in [Workers -> BOOLEAN]
    /\ copy \in [Workers -> SubType]
    /\ renewed \in [Workers -> BOOLEAN]
    /\ faults \in 0..MaxFaults

(* Nothing is promised, held or delivered for a purchase that the provider has
   not been paid for, or was paid the wrong amount for, whichever of the
   webhook, the recovery and the activations gets to it first. *)
NothingForNothing ==
    \A p \in Purchases :
        \/ status[p] \in {"paid", "pending_activation", "delivered"}
        \/ granted[p] > 0 \/ recorded[p] > 0
        => p \in provider \ Mismatched

(* A purchase that says it is delivered has become a period of somebody's
   subscription, although the two are committed apart and the panel, the
   retries and the activations may each take over half way. *)
DeliveredMeansGranted ==
    \A p \in Purchases :
        status[p] = "delivered" => granted[p] > 0 /\ owner[p] # NoOne

(* Only a purchase that waits for its payment enters the retry queue: nothing
   that has been held, delivered or given up comes back to it, whichever of the
   webhook, its fallback and the recovery decides last. *)
NeverRequeued ==
    [][\A p \in Purchases :
        status'[p] = "paid" => status[p] \in {"pending", "paid"}]_vars

(* A gift code is spent once: whoever redeems it first keeps it, even if his
   activation breaks off and somebody else tries the same code. *)
CodeKeepsItsOwner ==
    [][\A p \in CodeGifts : owner[p] # NoOne => owner'[p] = owner[p]]_vars

(* One payment, one period: as long as nothing fails, no subscription covers more
   bought periods than there are payments for its user. *)
OnePeriodPerPayment ==
    faults = 0 => \A u \in Users :
        sub[u].periods <= Cardinality({p \in provider : u \in {Recipient[p], owner[p]}})

(* No period that was paid for is lost: a user's subscription covers at least
   one period for each purchase that was delivered to him. *)
EveryPurchaseCounts ==
    \A u \in Users :
        sub[u].periods >= Cardinality({p \in Purchases : status[p] = "delivered" /\ owner[p] = u})

(* Once its payment is recorded, or it has been put in the retry queue or held
   without that, a purchase does not stay in between for ever: it is delivered,
   or given up and reported to the administrators.  A gift code waits for
   whoever redeems it. *)
EventuallyAnswered ==
    \A p \in Purchases :
        p \in settled \/ status[p] \in {"paid", "pending_activation"}
        ~> \/ status[p] \in {"delivered", "failed"}
           \/ p \in CodeGifts /\ status[p] = "paid"
=============================================================================
