# TESLA1VPN bot: verification project

TLA+ models of the money and subscription core of the bot under `src/bot`, the
TLC configurations that check them on small instances, and TLAPS proofs.

The bot is one asyncio process over PostgreSQL (READ COMMITTED, SQLAlchemy
sessions with `expire_on_commit=False` and without autoflush), Redis, a VPN
panel (RemnaWave) and some twenty payment providers. Correctness rests on three
things that unit tests hardly reach: where a transaction commits, which row
locks it holds at that moment, and how old the copy is that a session writes
back. The models are about exactly that.

Paths below are relative to `src/bot/app`.

## 1. Inventory

| Component | State | Operations | What must hold |
|---|---|---|---|
| Balance top-up, `services/payment/freekassa.py` | `freekassa_payments`, `transactions`, `users.balance_kopeks` | create, webhook, status poll, finalise | a confirmed order is credited exactly once, and in the end |
| Payment verification, `services/payment_verification_service.py` | one session per round | auto-check loop, manual checks | makes lost callbacks good; no lock cycle |
| User balance, `database/crud/user.py` | `users.balance_kopeks` | lock, debit, credit | never negative, no lost update |
| Guest and gift purchases, `services/guest_purchase_service.py`, `services/payment/common.py`, `cabinet/routes/gift.py` | `guest_purchases` | create, webhook, fulfil, hold, activate, recover, retry, give up | nothing for nothing; one period per payment; always answered |
| Subscription records, `database/crud/subscription.py` | status, `end_date` | read with expiry check, create, replace, extend, expire | no paid period lost |
| Renewal and autopay, `services/subscription_renewal_service.py`, `services/subscription_auto_purchase_service.py`, `services/monitoring_service.py` | subscription, balance, cart, `_notified_users` | renew, autopay, cart after a top-up, expiry | charged iff extended; in time; not twice for one reason |
| Daily tariffs, `services/daily_subscription_service.py`, the pause buttons | `is_daily_paused`, `last_daily_charge_at`, status, `updated_at` | charge, disable, resume, pause; cancelled, shortened or limited from outside | a day charged is a day given |
| Referrals, `services/referral_service.py`, `services/campaign_service.py`, `cabinet/routes/auth.py` | `referred_by_id`, `referral_earnings`, registrations, first-topup flag | commission, bonus, attach, register | earnings are backed; once each |
| Withdrawals, `services/referral_withdrawal_service.py` and its two front ends | `withdrawal_requests`, balance | ask, cancel, approve, reject, complete | debited iff approved; within the earnings |
| Promo codes, `services/promocode_service.py` | `promocode_uses`, `current_uses`, discount, group | activate, withdraw | an effect has its use; a bonus is paid once |
| Account merge, `services/account_merge_service.py`, `cabinet/routes/account_linking.py`, `cabinet/auth/merge_service.py` | the two user rows, orders' `user_id`, one-time tokens in Redis | consume, merge, restore | no money made or lost; nothing left behind; once per token |
| Apple purchases, `services/apple_iap.py`, `webserver/apple_iap.py`, `cabinet/apple_iap.py` | `apple_transactions`, `apple_notifications`, balance | fulfil, refund, reverse a refund | credited, refunded and given back once each, as Apple last said |
| Panel retry queue, `services/remnawave_retry_queue.py` | a deque in memory | enqueue, batch, requeue | what is noticed is retried; no growth |
| Receipt queue, `services/nalogo_service.py`, `services/nalogo_queue_service.py`, `utils/cache.py` | a Redis list, two marks and the records of doubtful receipts | create, queue, work off; any command of Redis may fail | no receipt forgotten or doubled without a trace |
| Panel client, `services/subscription_service.py` | the panel's users | create, update (both swallow errors) | a delivered purchase is a granted one |
| Monitor, `services/monitoring_service.py` | none of its own | guest recovery, autopay, expiry, notices | every stuck purchase is dealt with |
| Other providers, `services/payment/*.py` | one table each | the same four handlers, in variants | as for Freekassa |
| Pricing, wheel, contests, broadcasts, backups, handlers, web APIs, front end | various | various | see section 8 |

Interaction: a provider's callback enters `webserver/payments.py` with a session
from `get_db`, which commits when the handler returns. The handler locks the
payment row, and either finalises a top-up (locks the user row) or calls
`try_fulfill_guest_purchase` (locks the purchase row, later the subscription
row). A credit is followed, in the same session, by the promo-group check, the
referral rewards, and the purchase of a saved cart or the resumption of a
daily tariff. The auto-check loop, the monitor, the daily loop and the two
queue workers do their part from background tasks, cabinet requests and
Telegram handlers from sessions of their own. They share nothing but the tables,
the row locks, Redis and, for the panel queue, the memory of the process.

The hard behaviours are listed in `PROJECT.json` under `hazards`, each at its
line, with the properties that watch it.

## 2. Modules

| Module | What it is |
|---|---|
| `Ledger` | abstract specification of the money side: confirm, credit once, covered debit |
| `TopUp` | the Freekassa handlers, the polls and a balance purchase, with sessions, locks and faults; implements `Ledger` |
| `MCTopUp` | small instances of `TopUp` |
| `TopUpProofs` | proofs about `TopUp` |
| `Sums` | lemmas about sums over finite sets, for the proofs about money |
| `GuestPurchase` | landing-page and gift purchases from the webhook to the subscription |
| `GuestPurchaseProofs` | proofs about `GuestPurchase` |
| `MCGuestPurchase` | small instances of `GuestPurchase` |
| `ReferralTopup` | what a top-up earns the user and his inviter |
| `ReferralAttach` | who invited a user and which campaign registered him |
| `Withdrawal` | requests to pay earnings out |
| `WithdrawalProofs` | proofs about `Withdrawal` |
| `Promocode` | redeeming and withdrawing promo codes |
| `PromocodeProofs` | proofs about `Promocode` |
| `AccountMerge` | merging two accounts, next to the callbacks that credit them |
| `ReferralProgram` | the five models above (`ReferralTopup` to `AccountMerge`), composed |
| `ReferralProofs` | proofs about `ReferralProgram` |
| `MCReferral` | a small instance of `ReferralProgram` |
| `PanelRetryQueue` | failed panel calls and their retries |
| `ReceiptQueue` | tax receipts, the Redis list and its marks |
| `DailyCharge` | one subscription on a daily tariff |
| `Renewal` | the renewals of one subscription, its autopay and its expiry |
| `AppleIap` | purchases in the App Store, their notifications and refunds |
| `AppleIapProofs` | proofs about `AppleIap` |
| `Services` | the five models above (`PanelRetryQueue` to `AppleIap`), composed |
| `ServicesProofs` | proofs about `Services` |
| `MCServices` | a small instance of `Services` |
| `MCPayments` | `TopUp` and `GuestPurchase`, composed for the liveness properties |

### How state and actions correspond to the code

All modules keep apart what is *committed* (tables) and what a *session* has
read or flushed. A session's lock is taken by an action that models
`SELECT ... FOR UPDATE` (or an `UPDATE`) and disappears in the action that models
the next commit or rollback, wherever in the code that is. An action covers the
code between two points at which another session can observe or interfere: two
statements of one transaction that touch only locked or private data belong
to one action. In the queue modules a step is what a coroutine does between two
awaits.

`TopUp`: `seen` and `copy` are the ORM's copies of the payment row and of the
balance; `flagged` and `recorded` are flushed and uncommitted writes. The path
is `ReceiveWebhook` or `ProviderConfirms`, `LockPayment` (with
`populate_existing`, so the copy is refreshed), `AlreadyPaid` / `RejectAmount` /
`MarkPaid`, `RecordDeposit`, `CreditUser`, `CommitCredit`, and `AfterCredit`, which
stands for the side effects of a credit: they lock the user's row again and may
leave it locked. A poll session goes on to its next candidate *without* ending its
transaction, so it keeps those locks, the locks of orders that others had
settled, and the flushed writes of a candidate whose handler swallowed an
exception (`PythonError`), until `EndCheck` or the next commit.

`GuestPurchase`: `mem` is the copy of the purchase row, `unsaved` says it is
flushed, `copy` is the copy of the subscription, `renewed` says a new period is
flushed. `LoadExpired`, `GrantPeriod`, `PanelAnswers` and `Deliver` are the four
places that commit, and so release the locks. The periods a subscription covers
are counted, not measured in days: `Renewed` adds one to the copy the session
holds, as `extend_subscription` adds the days to the `end_date` it holds.

`ReferralTopup` takes `process_referral_topup` apart at its commits: the first
bonus, the inviter's bonus and its row, the commission and its row.
`ReferralAttach` has the writers of `referred_by_id` that belong to a user's own requests:
the conditional UPDATE of a link (`CompareAndSet`); the registration dialog, which creates the user,
restores a deleted one or updates him (`CreateUser`, `RestoreUser`, `WriteReferrer`); the first login
of the cabinet with its `_process_referral_code` (`CreateInCabinet`, `LockNewcomer`, `ProcessCode`);
and a campaign's partner (`AttributeToPartner`). Dialog and cabinet both register campaigns, but
only the cabinet locks the user and looks for another registration. A bonus on the balance is
paid after its registration is recorded (`RecordRegistration`, `PayBonus`), a subscription or a
tariff is granted before (`GrantBonus`). The `INSERT` of an audit row or a registration waits
for the user's row as the foreign key makes it do.
`Withdrawal` separates the reads of a request (is one pending, what was earned,
what was withdrawn) from the insert, and the lock of a decision from its check;
`BotSessions` are the sessions that have loaded the request before they lock it.
`Promocode` has one action per transaction of `activate_promocode`: the checks, the
row in `promocode_uses`, the bonus with its commit, and the counter.

`PanelRetryQueue`: `queue` is the deque, `batch` what `process_pending` has
taken out of it, `debt` remembers whether a call has failed since the last
success and whether its caller noticed. `ReceiptQueue`: `created` and `queued` are
the Redis marks, `list` is the list, `doubtful` counts the receipts that were
recorded for manual verification, `unrecorded` the requests of unknown outcome that were only
logged, `blind` the calls that no mark could keep back. A command of Redis that fails is answered by
the cache with `None` or `False`, and each caller's reading of that is an action
or a disjunct of its own (`SetMarkFails`, `PushFails`, `RequeueFails`, `PopFails`, `MarkFails`, `NotSeen`,
`Unqueue`, the second half of `TimedOut`); `mislaid` are the payments for which such a failure hit the item or the
record itself. In `DailyCharge` `stopped` is the status of a subscription that is not active (disabled,
expired, limited) and `stale` says that `updated_at` is over 24 hours old: the queries of
the loop ask for both (`Revivable`). `Shorten`, `LimitTraffic` and `Reenable` are what an
administrator and the panel do to it. `DailyCharge` and `Renewal` keep, for every
agent, where it stands between its read, its debit, its activation or extension,
and its record; both count what was charged against what was given
(`owed`; `paid` and `gained`), and remember whether anybody came between another's
unguarded read and its use (`overlapped`, `crossed`).

`AccountMerge`: `account` is the committed row of a user, `draft` the row as the
transaction that has locked it sees it, `copy` the object in a merge's session,
`unsaved` the columns of it that are changed and not flushed. The kinds of logins
are moved one after the other (`LoginsMove` is about them); a flush writes one row
per step (`WriteRow`), in the order of the ids, and so takes the rows' locks one by
one; `LockAndReload` is `lock_user_for_update`, which loads the object again and with
that forgets what is unsaved. `ReassignOrders` moves the orders of the tables in `_PAYMENT_MODELS`
(`Listed`); the others stay with the account that is deleted, and are credited there (`Forgotten`).
`LockOrder` and `Credit` are a callback's two locks.
PostgreSQL or a timeout ends whoever waits in a circle (`StopsWaiting`).

`AppleIap`: Apple's `apple[p]` counts what has happened to a purchase, odd for a
charge or a reversal, even for a refund; `note` and `row` are the two tables.
Fulfilment is split at its unlocked look (`Found`, `NotFound`), at its commit
(`Credit`) and at the commit of the notification (`Close`, `ChargeFailed`). A refund or
a reversal is one transaction under the row's lock and so one action. A
notification is delivered until `answered`, in any order. A second delivery that looks before the
first has committed the notification's row (`DeliverAgain`, remembered in `raced`) fails to insert its own
and is answered OK, `payload_replay`, also if the first has failed (`Replayed`).

### Abstractions

- Amounts are small numbers, a day, a renewal or a code's bonus costs one. Time is
  an action: `PeriodEnds`, the end of a day, `Tick`, `Minute`.
- Single-tariff mode: a user has at most one subscription row, and all purchases of
  an instance are of one tariff (`Conflict` is the unique index on user and tariff).
- Formatting, notifications, postbacks, accounts and passwords are left out.
- `GuestPurchase`: the ages of 5 and 10 minutes the monitor asks for count from
  `paid_at`; `Stale` says that no webhook is still at work on the purchase. The
  recovery and `PickExhausted` ask for no such age and have no such guard. The
  monitor raises `retry_count` in a commit of its own before each attempt; the model
  raises it when it picks the row, since nobody else reads it. For a
  Freekassa-like provider the purchase's lock also stands for the payment row's: both
  are taken before anything is decided and end together. A buyer may not redeem
  his own code; buyers are not among the modelled users.
- `ReferralAttach` follows one user, from before his row exists or from any later
  status; who else writes `referred_by_id` is listed in section 8. `PanelRetryQueue` counts a subscription's
  versions instead of its fields, `Withdrawal` is for the mode in which only referral
  earnings may be withdrawn.
- `DailyCharge`: the status is ACTIVE, DISABLED, EXPIRED or LIMITED; `stale` may become true
  whenever a day ends, and any change of the modelled row makes it false. No day ends and no
  minute passes while a handler is at work (they take seconds).
- `AccountMerge`: an order is a payment of a table that `_PAYMENT_MODELS` lists or of one that it does not,
  logins of three kinds stand for all; the tables that are moved row by row after the money
  are left out.
- `ReceiptQueue`: a command of Redis that fails may have been carried out or not, where that makes a
  difference; the marks do not expire.
- `AppleIap`: one user with valid signed data in the production environment.
- `Renewal`: the monitoring loop makes at least one round in every tick, and handlers
  end within a tick.

### Compositions

`ReferralProgram` and `Services` put five modules side by side, `MCPayments` two: they
extend one of them and take the others with `INSTANCE ... WITH`, each with variables of
its own. Within each composition the modules work on rows that are kept apart, so no
step of one can enable, disable or change a step of another, and their properties do
not depend on each other. The variable `part` says which of them moves in a behaviour:
TLC explores the sum of the state spaces, with the same verdict on each module's
properties as a run of its own.

`Withdrawal`, `Promocode` and `AppleIap` are instantiated through the modules with their
proofs, so their theorems are available for the parts (`W!`, `P!`, `I!`). A step of a
composition is a step of the part or leaves the part's variables alone (`PayoutsMove`,
`CodesMove`, `VisitsMove`, `DailyMoves`, ...): with that the theorems of section 6 are
theorems about `AllSpec`, the specification that the runs check.

Fairness: in the initial states of the panel queue, the receipts and the daily tariff
their loops have nothing to do, so fairness never asks for a step of a part that stands
still; the monitoring loop always has, and its fairness is stated for the step that
the composition allows (`MonitorStep`). In `MCPayments` a condition names a step of each
part, of which only one can ever be enabled; pairing the steps keeps the number of
conditions TLC combines small and asks of each part exactly what its own `Fairness` asks.

## 3. Runs

Passing runs:

| Run | Instance | Properties |
|---|---|---|
| `topup_safety` | 2 orders of one user, 2 webhooks, auto-check, manual check, 1 purchase; crash, database or API error | `PaidIffDeposited`, `MoneyConserved`, `ImplementsLedger` |
| `topup_locks` | an order of each of 2 users, the same sessions; database error or swallowed exception | `NoLockCycle`, `NeverOverCredited` |
| `guest_safety` | a purchase and a gift with a code, 2 users, webhook, monitor, activation, a fault | `NothingForNothing`, `DeliveredMeansGranted`, `NeverRequeued`, `CodeKeepsItsOwner` |
| `payments_liveness` | 2 orders, fair auto-check, callbacks at will, a fault; a purchase and a gift paid with the wrong amount, 2 webhooks, the monitor, a fault | `EventuallyCredited`, `OnePeriodPerPayment`, `EventuallyAnswered` |
| `referral` | 5 top-ups of 3 users, 2 visits of one user, each by one of 2 links, a dialog, a first login or one of 2 campaigns (a direct one with money, a partner's with a subscription), 2 payout requests, 2 codes with 2 requests that redeem them for 3 users, 2 tokens that merge one account into two others with its 2 orders, one of them in a table that is not listed, and a callback; a fault in each | `EarningsBacked`, `FirstBonusOnce`, `DebitedIffApproved`, `WithinEarnings`, `LinkNeverReplaces`, `OneCampaign`, `ReferrerAnnounced`, `EffectHasUse`, `BonusCountExact`, `MergeKeepsMoney`, `NothingLeftBehind`, `MergedOnce` |
| `services` | a subscription changed 3 times by 2 callers, 3 attempts, a restart; a payment, 2 receipt workers, a crash, 2 failures of Redis; a daily tariff for 3 days with 2 presses or changes from outside; a subscription renewed twice by 2 requests, the autopay and a top-up; 2 purchases in the App Store, one refunded and given back, the app and a webhook, a fault or a rival delivery | `NoticedIsKept`, `CopiesDiffer`, `ReceiptsExplained`, `NoneForgotten`, `QueuesDrain`, `BooksBalance`, `MoneyBuysService`, `ChargedIsGained`, `NoNeedlessRenewal`, `MoneyRenews`, `AppleBooksBalance`, `FollowsApple` |

and the type invariants (`TypeOK`, `AllTypesOK`).

Runs that expect a violation, each a disagreement of code and comment listed
under `findings`:

| Run | Property | What happens |
|---|---|---|
| `guest_double_activation` | `OnePeriodPerPayment` | the panel call's commit releases the purchase's lock before it is DELIVERED; a second activation adds a second period |
| `guest_lost_period` | `EveryPurchaseCounts` | `end_date` is not refreshed under the subscription's lock; of two periods one is overwritten |
| `withdrawal_bot` | `DebitedIffApproved` | the bot's handlers load the request before they lock it, and the locked read does not refresh it |
| `panel_forgotten` | `FailedIsKept` | the purchase waits for an exception, the panel call returns None; nobody retries |
| `merge_lost_login` | `LoginsMove` | the locked read for the money loads the account that stays again, and the login it was just given is lost; the other account has lost it already |
| `daily_paused` | `ResumedIsUnpaused` | the debit reloads the subscription and the unsaved `is_daily_paused = False` is lost |

Why the bounds are enough to be interesting: two rows and two handlers of a
kind are needed for every race, for a lock cycle, and for a poll to carry one order's
writes into another's commit; three top-ups of one user reach a commission limit
of one; a direct campaign and one with a partner, whose bonus ends the lock, are the two cases
of a registration in the cabinet, and the dialog registers either; three
attempts let an item return beside a newer copy. One fault is enough, because each
fault ends one session or all of them, after which the same code starts from a
committed state; Redis fails twice, so that the command that takes a failed one back
can fail with the next. `MaxRetries` is 1 instead of 20 in `GuestPurchase`: the counter only
decides between "again" and "give up". A renewal lasts two ticks, so that "about
to end", "ended" and "renewed" are different states. Symmetry is used where the
members of a set are alike and the run has no liveness property.

Every property of a passing run is broken by the mutant that `PROJECT.json`
names for it: a dropped guard, a stale copy, a commit too early, an unsorted list.

### Conditions within the properties

Some properties say when they hold, because the code does not promise more:

- `NoLockCycle` is for orders of different users. With two orders of one user a poll
  that has credited the first holds the user's row, and a webhook that holds the
  second order waits for it: PostgreSQL ends one of them, and
  `EventuallyCredited` is checked with that in the model.
- `PaidIffDeposited` excludes exceptions that the finalisation swallows half way;
  with them the flushed `is_paid` can be committed without its deposit.
- `OnePeriodPerPayment` is for behaviours without a fault and without activations
  by users: a crash between the subscription's commit and DELIVERED makes the
  retry take the purchase for one whose recipient has a subscription already.
- `FirstBonusOnce` excludes users whom the credit moves into a promo group: that
  commit ends the lock.
- `BooksBalance`, `ChargedIsGained` and `NoNeedlessRenewal` are for behaviours in which nobody comes between another's
  unguarded read and its use. What they establish is that the guarded
  agents (the resumption after a top-up with its 60-second rule, the mini app, the renewal
  service with its locked read) need no such condition: a step of theirs between
  another's read and its use is counted, a step of others between theirs is not.
- `NothingLeftBehind` speaks of the orders in the listed tables (`Listed`) and of the money. It leaves out
  the credits that arrive when a merge has read that the account has no money and those of orders in
  tables that are not listed once the account is deleted (both `overlooked`), and accounts
  that another token makes the one that stays. The code prevents none of these.
- `OneCampaign` says by whom a direct campaign (`Direct`: no partner, nothing granted) becomes a second registration: only by
  the dialog, which does not look. A campaign whose own bonus has ended the cabinet's lock may be a second one
  too. A subscription or a tariff may be granted again; it is not registered without its grant.
- `FollowsApple` leaves out purchases of which a reversal was answered before its
  refund, or a refund before an earlier reversal (`overtaken`). An answer to a notification
  that two deliveries raced for (`raced`) does not count as settled, only its row does (`Sealed`): the loser of the
  race is answered OK whatever becomes of the winner. Such a rival counts as a fault.
- `ReceiptsExplained` counts, as reasons for a second receipt, the recorded doubts (`doubtful`), the requests of
  unknown outcome that were only logged (`unrecorded`), and the calls that no mark could prevent (`blind`: a
  crash before the mark, a mark that cannot be set or read, two senders at once).
- `NoneForgotten` sets apart the payments for which a write of the item or the record has failed in Redis
  (`mislaid`). Marks that cannot be read, set or taken away are no excuse.
- `MoneyBuysService` leaves to the owner what is LIMITED, and what has been EXPIRED for more than 24 hours
  (`LeftToOwner`): no query of the loop takes those.

## 4. What the models show that no run states

These sequences are possible in the models, and the properties leave room for
them, by the conditions of section 3. The first list contradicts what comments in
the code say; no run of its own refutes these comments.

- Account merge: `_PAYMENT_MODELS` is «Все платёжные таблицы с колонкой user_id»
  (`services/account_merge_service.py:76`), but PayPear, RollyPay, Overpay, AuraPay,
  Etoplatezhi, Antilopay, Jupiter, Donut, Lava and Apple's transactions have the column and are not in
  it. Such an order stays with the deleted account and is credited there; a refund of
  Apple's takes from it.
- Campaigns: the user's row is locked «to prevent concurrent bonus application (race condition)»
  (`cabinet/routes/auth.py:245`). The bot's dialog registers a campaign without this lock and without a
  look (`handlers/start.py:1885` and 2234, through 425-442), so two campaigns without partners can register one
  user and both pay; and in the cabinet itself the registration with a partner (`process_referral_registration`) or the
  grant of a subscription ends the lock before the campaign is recorded.
- Receipts: after a request whose outcome is not known «НЕ добавляем в очередь, требуется ручная
  проверка» (`services/nalogo_service.py:408-409`, also 371). The worker puts the item back for
  every `None` (`services/nalogo_queue_service.py:232-244`), and what the branch at 427-430 takes (a broken
  connection, 502 or 504, an answer that cannot be read) is only logged: the next attempt
  makes a second receipt.

Of the following no comment or test claims the contrary.

- Receipts: a command of Redis that fails loses a receipt. `setnx` answers `False`, which is read as
  "queued already" (`utils/cache.py:67-87`); a push that fails is logged and the payment's
  handler goes on (`services/nalogo_service.py:131-144`); the result of the worker's push is not looked at
  (444-447).
- Apple: two deliveries of a refund before its purchase is known. The first ends as failed; the second
  fails to insert the notification, finds the first one's row and answers OK, `payload_replay`
  (`services/apple_iap.py:577-588`). Apple does not send the refund again, the charge is then credited.
- A daily tariff that was LIMITED by the panel, or EXPIRED more than 24 hours ago, is not taken up by
  any loop (`database/crud/subscription.py:2120`, 2152, 2172), whatever money there is.

- Top-ups: the commission limit is counted before the commission is paid
  (`referral_service.py:445`), so two top-ups at once pay one commission too many; a crash
  after the inviter's credit loses its row, and one after the flag of the first
  top-up (742) loses the bonus.
- The counter of a discount code is written back from a copy by a withdrawal
  (`promocode_service.py:522`) and loses a concurrent use; the withdrawal also takes
  the user out of a group he was in for another reason (532). Requests at once
  exceed a code's limit, by less than their number (`BonusCountExact`).
- A gift paid from the balance: the debit is committed before the purchase is PAID
  (`cabinet/routes/gift.py:491`); a crash in between keeps the money, and no loop looks for it.
- A daily tariff is charged twice when the loop selects it, a button resumes
  it, and the loop goes on; an activation that fails after the charge is given back,
  unless the rollback has expired the user that the refund reads.
- The monitor marks as EXPIRED what it found in a list (`monitoring_service.py:398`),
  also after a renewal; the read that follows a top-up does the same to its own
  subscription, and by the 60-second rule the top-up then renews nothing.
- A cart that was saved for want of money is bought by the next top-up although the
  subscription has been renewed since; a crash between the extension and the deletion
  of the cart lets it be bought twice. The autopay gives nothing back when its
  extension fails.
- A restart forgets the panel queue and the batch in progress.
- Account merge: that the second account has no money is read without a lock
  (`account_merge_service.py:630`), so what is credited before the merge commits stays
  on the deleted account. Two merges that name each other's accounts, each having
  read that both are active, can delete both.
- A purchase of Apple's whose refund took only what was left of the balance
  (`services/apple_iap.py:805`) is given back in full when the refund is reversed: the
  user then has what he spent besides. A reversal that is delivered before its
  refund is answered OK (`not_refunded` is not among the reasons for a retry), and the
  purchase ends as refunded.

## 5. Fairness

- A handler that is not waiting is driven by the event loop (weak fairness of
  its session's steps). A handler that waits for a row lock is served, since
  PostgreSQL queues the waiters of a row: strong fairness of the locking steps of
  `TopUp`, and of a worker's steps in `GuestPurchase`, where the same step may wait
  for a lock now and be free later. PostgreSQL ends a deadlock (`DeadlockDetected`).
- `WF(AutoCheck)`: `_auto_check_loop` starts a round every few minutes for ever.
  This needs the auto-check to be enabled for the provider, and the order to be
  younger than `PENDING_MAX_AGE` (24 h).
- `SF(Pick(p))`: the monitor takes the ten oldest purchases per phase and round;
  with fewer than ten stuck at a time each is reached. Purchases older than 24 h are
  left to the administrators and are outside the model.
- `PanelRetryQueue`, `ReceiptQueue`, `DailyCharge`, `Renewal`: weak fairness of the steps
  of their background tasks, which `while` loops with a `sleep` run as long as the bot
  lives. Nothing says that the panel or the tax service ever answers: the queues
  drain because attempts are counted. The failures of Redis are bounded (`MaxErrors`): it comes back.
- Nothing is assumed of users, administrators or providers: callbacks may be lost,
  repeated or refused, buttons pressed or not.
- Faults are bounded: liveness is claimed for behaviours in which they stop.

## 6. Proofs

The theorems hold for every value of the constants that satisfies the named
assumptions, not only for the instances of section 3. Every invariant below was
first checked by TLC, with the property or as an invariant of a run of its own.
`MCReferral` and `MCServices` extend the modules with the proofs and assume what these
suppose of the constants (`InstanceAssumption`), so TLC evaluates it for the instances:
the theorems are about them too, and about all larger ones. Only that the bot decides no
requests (`BotSessions = {}`) is left out, which the run `withdrawal_bot` negates.

### The money: `Sums`

`MapThenSumSet` is a fold, a function defined by recursion over a set. `Sums`
makes it usable in a proof: `SubsetInduction` is induction over the subsets of a finite
set for a *set* of good subsets, from a least counterexample (`LeastNumber`, from the
library's `WFMin`); with it the recursive function behind the fold is shown to exist
and to be one and the same for a set and its parts (`UnfoldsExists`, `SumPart`). What
the other modules cite is `SumType`, `SumSame`, `SumZero`, `SumWith`,
`SumWithout`, `SumUpdate` (one term changes, the sum changes by the difference) and
`SumOfPart` (a part of a set of natural numbers has no larger sum).

### `TopUpProofs`

From `ConstantsAssumption`, and `FiniteAssumption` where there are sums:

- `TypeCorrect`: `Spec => []TypeOK`, so no balance is ever negative. The inductive
  invariant is `TypeInv`: the types, and that a handler at work knows its
  payment (`PayKnown`).
- `PaidIffDepositedAlways`: `Spec => []PaidIffDeposited` if `"python"` is not among
  the faults. `PaidIffDeposited` alone is not inductive: a session that holds an
  unpaid copy could credit a row that has been paid meanwhile. `IInv` adds
  `SessionOK(h)`: a handler past the payment lock holds the lock, its copy equals
  the committed row, what it has flushed belongs to the payment it works on,
  and a handler past the user lock holds that lock with the current balance. The proof
  has one step per action; `EndOfSession`, `CommitOther` and `Frame` are the lemmas
  that say what one session cannot do to another.
- `LedgerImplemented`: `Spec => ImplementsLedger`, under the same assumption. From
  `IInv`, `CommitCredit` is the ledger's `Credit`, `SubtractBalance` its `Debit`,
  `ProviderPays` its `Confirm`; every other step stutters.
- `MoneyConservedAlways`: `Spec => []MoneyConserved`, under the same assumption. It
  rests on the refinement: what the ledger's `Credit` and `Debit` do to the balances
  and to the set of credited orders is all there is to do (`BooksStep`).
- `NeverOverCreditedAlways`: `Spec => []NeverOverCredited` with all faults. The invariant
  above is false then, so this has its own: `OverInv` says that a session
  has the lock of every order that it has written and not committed, that none of them
  was paid before, and that a recorded deposit is of a paid order. That is enough
  for "never more", though not for "exactly".
- `NoLockCycleAlways`: `Spec => []NoLockCycle` if no user has two orders
  (`OneOrderEach`; with two there is a circle, section 3). `LockOrder(h)` says what a
  session may hold while it waits: an order's row before its owner's row before
  the row of an older order, because the polls take their candidates newest
  first. A purchase holds nothing when it waits. So along a circle the orders would get
  older and older.

### `GuestPurchaseProofs`

From `ConstantsAssumption`: `TypeCorrect`, `NothingForNothingAlways`,
`DeliveredMeansGrantedAlways`, and the action properties `NeverRequeuedAlways` and
`CodeKeepsItsOwnerAlways`, all from one invariant `IInv`: the types, `TablesOK`, and
`SessionOK(h)`. The properties are not inductive, since handlers decide on copies that are
older than their locks. What `SessionOK` adds is that whatever a session delivers
was paid for, that only what is flushed under the purchase's lock can be written
over a status (so a row that a session will write as paid is still pending or
paid), that past the panel call the period is granted or flushed, and that a copy of a
redeemed code has the row's owner, or the row has none and the session its lock. There is one
lemma per action; `Assemble`, `OthersKnow` and `QuietTables` put them together.

`OnePeriodPerPaymentAlways`: `Spec => []OnePeriodPerPayment` where nobody activates
anything himself (`NobodyActivates`; with activations it is false, run
`guest_double_activation`) and there are finitely many purchases. Webhook, recovery and
retry still overlap on one purchase, and the period, its commit and DELIVERED are
steps of their own. `OnceInv`, inductive beside `IInv` as long as nothing has failed, says
how they keep out of each other's way:

- a subscription covers no more periods than purchases have been granted to its user
  (`SubOK`), and neither does any session's copy of it, however old (`CopyOK`);
- a session that fulfils a purchase which may still be held finds it undelivered, and keeps its
  lock unless the read of an ended subscription has committed (`FulfilOK`);
- a granted purchase is delivered, or the session that has committed the period is about to
  deliver it (`GrantOK`): nobody finds a granted purchase to start again with;
- only the monitor activates, and only what has given nothing and no webhook works on
  (`ActivationOK`);
- two sessions that are about to write a subscription agree on whether there was one
  (`CopiesAgree`): otherwise one would replace what the other has created.

### `ReferralProofs`

Top-ups, from `ReferralAssumption`: `TypeCorrect`; `EarningsBackedAlways`, where `Counted`
counts the sessions that have paid and not yet recorded, so that rows and those sessions
together are covered by what was paid; and `FirstBonusOnceAlways`, where `OnceInv` says
that a session which decides holds its user's lock and has read the flag under it,
that at most one session of a user has won, and that before the flag nothing was given.

Payouts and codes: `DebitedIffApprovedAlways`, `WithinEarningsAlways`,
`EffectHasUseAlways` and `BonusCountExactAlways` carry the theorems of `WithdrawalProofs` and
`PromocodeProofs` over to the composition, under the same assumptions.

Visits, from `VisitConstants` (types, and `None` is no referrer and no session):
`OneCampaignAlways`, `ReferrerAnnouncedAlways` and the action property
`LinkNeverReplacesAlways`. The invariant is `VisitInv`:

- a flushed referrer is that of the holder of the lock, who has announced him or
  is about to (`FlushedOK`);
- the request that creates the user knows, while it holds his lock, whom the row names
  (`KnowsNewcomer`);
- a request of the cabinet that is to record a direct campaign holds the lock since it saw no
  registration (`LooksFirst`), which is what the dialog cannot have;
- of one campaign one session at most is about to pay a bonus on the balance, its registration is there and the bonus
  is not; whoever has come to record a campaign that grants has granted (`PaysOnce`, `BooksOfCampaigns`):
  with these the steps are those of `OneCampaign`;
- without faults a referrer who has no audit row has a session that is about to write it
  (`AnnouncedOrWill`): it announces him, or it is the first login that will read him under the lock.
  The property speaks of the end, when nobody is.

The merge, from `MergeConstants` (a token names two different accounts, merges and callbacks
are different sessions, `None` is none of the data): `MergedOnceAlways` and
`NothingLeftBehindAlways`; with finitely many accounts also `MergeKeepsMoneyAlways`. They
share `MergeInv`, which says where the money of an account is between the two reads of
a merge and its commit:

- what is changed and not flushed concerns the two accounts of the merge, the money
  only after the locks, the status only at the end (`UnsavedOK`); the same for what is
  flushed (`DraftOK`), and a row that nobody has locked has no draft (`NoDraft`);
- past the locks, either the money was moved in two copies of rows that are locked and whose
  balances add up to those in the tables (`Moved`), or the balance that was read was zero and
  nothing was touched (`NoneToMove`); together `MoneyOK`.

`TokensOK` adds that a token is valid, or held by one request, or spent. `LeftInv` adds that
in the row of an account that is only merged away the draft has no more money than the
committed row, that a deleted one has no more than what came too late and no order of a listed table
(`LeavesNothing`), and that a merge on its way to its commit has taken the money
and every listed order of it, or holds that order's lock (`DropsAll`, `Covered`).
`SumsAgree` says that all balances and all spending add up to the orders credited; with
`Sums`, a commit of two rows changes the sum by what the two rows change.

### `WithdrawalProofs`

From `ConstantsOK` and with `BotSessions = {}` (with them the run `withdrawal_bot` finds a
second debit): `DebitedIffApprovedAlways`; `BalancesCovered`, no approval overdraws a
balance; and `WithinEarningsAlways`, which is both that a partner has at most one pending
request and that his payouts are covered. `Inv` says that ids are given in order and only the last
request of a partner can be pending, and what a session knows under its locks. `SumInv`
adds that the sums a session has read stay true while it holds the partner's lock.

### `PromocodeProofs`

From `ConstantsOK` (a code has one type):

- `EffectHasUseAlways`: `Spec => []EffectHasUse`. Not inductive: the handler that pays a
  bonus, sets the discount or joins the group acts on a row it inserted in an
  earlier step. `EffectInv` adds what each request knows of its row (`RequestOK`),
  that no two requests have an uncommitted row of one user and code (`OneOpen`, the
  unique constraint), and that codes which can be withdrawn pay no bonus
  (`BonusOfBonusCodes`): otherwise a withdrawal would delete the row behind a bonus.
- `BonusCountExactAlways`: `Spec => []BonusCountExact`, if there are requests and finitely
  many (`LimitsOK`). `Exact(c)` is inductive beside `EffectInv`. The limit is not: the requests on
  their way to a row must be counted with the rows (`Limited`), and the bound holds because a
  request that sees the counter below the limit is itself none of those that are paid
  or on their way.

### `AppleIapProofs`

From `ConstantsOK` (finitely many purchases, amounts and bounds are natural numbers):

- `TypeCorrect`: the types, with `JobsOK`: a handler only works on a purchase that was
  made, and settles a charge's notification when the purchase's row exists.
- `AppleBooksBalanceAlways`: a credit, a reversal and a refund move one purchase into or out
  of the sum (`WorthMoves`, from `Sums`).
- `FollowsAppleAlways`: the property speaks of the end, when all is answered. On the way
  the settled refunds and reversals of a purchase that is not `overtaken` are the first
  ones up to some number, and the row is the outcome of that one (`InOrder`); none is
  settled before Apple has sent it, and one that is answered is settled or was raced for, so that
  what is `Sealed` is settled.

### `ServicesProofs`

The panel queue, for any subscriptions, callers, bounds and numbers of retries that satisfy
`ConstantsOK`:

- `TypeCorrect`: `Spec => []TypeOK`. The types are not inductive by themselves: that a
  call sends a version which was bought (`Sending`), and that the worker has read one
  (`Reading`), is what bounds the panel's version.
- `NoticedIsKeptAlways`: `Spec => []NoticedIsKept`. Inductive together with the types; one
  step per action, resting on `EnqueuedCases` and `RequeueCases`, which say what
  `enqueue` and `_requeue` make of the queue, and on `SubsInTail`.
- `CopiesDifferAlways`: `Spec => []CopiesDiffer`. Not inductive: an item that comes back
  from the batch could meet a copy with as many attempts. `CopiesInv` adds that the
  batch has no two copies with the same attempts, and that no copy in the queue is
  just one attempt ahead of an item in the batch (`Ahead`).

Receipts, from `ReceiptConstants` (payments and workers are different agents):
`ReceiptsExplainedAlways` and `NoneForgottenAlways`, both from `ReceiptInv`:

- a payment's handler works for itself, a worker for the item in his hands (`JobsFit`),
  and a receipt that was answered or is marked exists (`MarkedExist`);
- the receipts that exist *and those that calls under way may still create* exceed the
  recorded doubts, the unrecorded outcomes and the calls that no mark could prevent by at most one, and only if the payment is marked or
  an agent is sending or about to mark it (`OneUnexplained`). The property itself is
  not inductive, because a second call may be on its way while there is only one receipt;
- a payment has one item, in the list or in somebody's hands, or its handler is
  about to push one, never two of these, and then it has the mark (`OneItem`);
- without a crash, a payment that is marked or finished is settled or waits
  (`NoneLost`); both for payments of which no item or record was mislaid.

Daily tariffs, without assumptions: `DailyBooksAlways`, from `DailyInv`. `StillSo` says that
whoever acts on what he has read still finds it so, unless somebody came in between;
`SeenUnchanged` that the resumption after a top-up needs no such condition, because it looks
again; `ChargedShows` that a day which is charged shows in the row or is about to be written
there, so that nobody charges it again; `DaysAddUp` is the sum with the agents
on their way.

Renewals, from `RenewalConstants` (a period has a length, a request is none of the background
agents): `ChargedIsGainedAlways` and `NoNeedlessRenewalAlways`, from `RenewalInv`. The copies that
the loop and the top-up are about to write are the row (`CopiesAgree`), what they mark as
expired has ended, time left can be used (`TimeIsUsable`), a top-up renews what has ended
(`RenewsEnded`), and `RenewalsAddUp` counts the agents that have charged and not yet
extended. Requests read under the lock, so nothing is supposed of their copies.

Apple: `AppleBooksBalanceAlways` and `FollowsAppleAlways` carry the theorems of
`AppleIapProofs` over to the composition.

## 7. Only model-checked

- Liveness (`EventuallyCredited`, `EventuallyAnswered`, `QueuesDrain`, `MoneyBuysService`,
  `MoneyRenews`), and anything else about ENABLED or fairness: out of the prover's reach.
- `OnePeriodPerPayment` where users activate purchases is false, as
  `guest_double_activation` shows; the theorem is for the rest.
- The full types of the composed modules (`AllTypesOK`), but for those of `ReferralTopup`,
  `PanelRetryQueue` and `AppleIap`, which are theorems. The proofs about the others use the types that the
  argument needs (`VisitTypes`, `TableTypes`, `ReceiptTypes`, `DailyTypes`, `RenewalTypes`, ...); the bounds
  on counters beyond these rest on counting rows, presses or minutes, and matter only to
  the size of an instance.
- What a recursive definition computes for every input, where the recursion is not a
  sum over a finite set.

## 8. Not modelled

- The other providers repeat the four handlers of Freekassa over their own tables;
  the differences that matter to a guest purchase (who commits first) are a
  constant of `GuestPurchase`. YooKassa's two commits per payment would be a
  second detailed specification of `Ledger`.
- First purchases of a subscription, traffic and device packages: debit and extension
  as in `Renewal`, with other fields.
- Pricing: arithmetic without state, best tested against examples.
- Wheel, contests and polls: attempts and prizes paid with the same balance helpers.
- Of an account merge: subscriptions with their panel users, flags, and the rows of some
  thirty tables that are moved after the money, in the same transaction.
- Of referrers: the clean-up of a deleted user's rows by `/start` (`handlers/start.py:1009-1165`); the other writers of
  `referred_by_id` (administrators in the cabinet and the web API, `user_service`, the claim and the merge of accounts,
  the clean-up of blocked users, the diagnostics, a backup that is restored); and blocking or deleting the user meanwhile. A user whom the cabinet
  creates from the `pending_referral` in Redis, without a code in the request, gets a referrer whom
  nobody announces (`cabinet/routes/auth.py:566-606`, 322-325).
- Of receipts: the administrator's verification of doubtful ones
  (`services/nalogo_service.py:193-270`), the expiry of the marks, the change of old items.
- Of daily tariffs: other updates of the row that make an old `updated_at` recent again.
- Of Apple's purchases: sandbox purchases, the checks of signatures, products and
  tokens with their abuse events, rate limits, the subscriptions a refund
  deactivates, and the reconciliation's reports.
- Administration, authentication and reads of the web APIs, squads and traffic of the
  panel: one-way copying, or no shared state beyond the services they call.
- Texts, keyboards and dialogue states, broadcasts (progress counters), backups, log
  rotation, reports and version checks (file and network I/O), the front end,
  scripts.
