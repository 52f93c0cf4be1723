------------------------------- MODULE Services -------------------------------
(***************************************************************************)
(* Five services of the bot side by side: the retry queue for panel calls, *)
(* the queue of tax receipts, the daily tariffs, the renewals and Apple's  *)
(* purchases.  They share no variable here, and in a behaviour only one    *)
(* moves: the states explored are the sum of the five, not their product.  *)
(* In their initial states the loops of the first three have nothing to    *)
(* do, so that their fairness asks nothing of a service that stands still; *)
(* the monitoring loop has, so its fairness is stated for the step that    *)
(* the composition allows.                                                 *)
(*                                                                         *)
(* Apple's purchases come with their proofs, so that the composition has   *)
(* their theorems too.                                                     *)
(***************************************************************************)
EXTENDS PanelRetryQueue

CONSTANTS
    Payments, Workers, MaxAttempts, MaxCrashes, MaxErrors, Nothing,
    MaxDays, MaxMoney, MaxPresses, MaxFaults,
    Requests, Period, MaxNow,
    Purchases, Amount, MaxEvents, Apps, Webhooks

VARIABLES
    part,        \* the service that moves
    receipts, created, queued, list, doubtful, agentAt, job, attempts, blind,
    unrecorded, finished, refused, dropped, mislaid, errors, crashes,
    active, stopped, paused, fresh, recent, stale, balance, pc, sawPaused, sawActive, owed, lost,
    today, overlapped, resumed, days, money, presses, faults,
    end, running, touched, wallet, cart, renewedKey, hour, where, copy, now, looked,
    paid, gained, cutOff, crossed, needless, paidIn, asked, failed,
    apple, row, note, answered, coins, used, shortfall, step, work, overtaken, raced, broken

receiptVars == <<receipts, created, queued, list, doubtful, agentAt, job, attempts,
                 blind, unrecorded, finished, refused, dropped, mislaid, errors, crashes>>
dailyVars == <<active, stopped, paused, fresh, recent, stale, balance, pc, sawPaused,
               sawActive, owed, lost, today, overlapped, resumed, days, money, presses, faults>>
renewalVars == <<end, running, touched, wallet, cart, renewedKey, hour, where, copy, now,
                 looked, paid, gained, cutOff, crossed, needless, paidIn, asked, failed>>
appleVars == <<apple, row, note, answered, coins, used, shortfall, step, work,
               overtaken, raced, broken>>

R == INSTANCE ReceiptQueue WITH pc <- agentAt
D == INSTANCE DailyCharge
N == INSTANCE Renewal WITH
        active <- running, recent <- touched, balance <- wallet, pc <- where,
        lost <- cutOff, money <- paidIn, presses <- asked, faults <- failed

I == INSTANCE AppleIapProofs WITH
        Requests <- Apps, Nil <- Nothing,
        balance <- coins, spent <- used, pc <- step, job <- work, faults <- broken

AllInit ==
    /\ part \in {"panel", "receipts", "daily", "renewals", "apple"}
    /\ Init /\ R!Init /\ D!Init /\ N!Init /\ I!Init

AllNext ==
    /\ UNCHANGED part
    /\ \/ part = "panel" /\ Next
             /\ UNCHANGED <<receiptVars, dailyVars, renewalVars, appleVars>>
       \/ part = "receipts" /\ R!Next
             /\ UNCHANGED <<vars, dailyVars, renewalVars, appleVars>>
       \/ part = "daily" /\ D!Next
             /\ UNCHANGED <<vars, receiptVars, renewalVars, appleVars>>
       \/ part = "renewals" /\ N!Next
             /\ UNCHANGED <<vars, receiptVars, dailyVars, appleVars>>
       \/ part = "apple" /\ I!Next
             /\ UNCHANGED <<vars, receiptVars, dailyVars, renewalVars>>

MonitorStep == part = "renewals" /\ N!LoopStep

AllSpec ==
    /\ AllInit
    /\ [][AllNext]_<<part, vars, receiptVars, dailyVars, renewalVars, appleVars>>
    /\ WF_vars(WorkerStep)
    /\ \A w \in Workers : WF_receiptVars(R!WorkerStep(w))
    /\ WF_dailyVars(D!LoopStep)
    /\ WF_renewalVars(MonitorStep)

-----------------------------------------------------------------------------
(* The variables of the five services have the types their modules state. *)
AllTypesOK == TypeOK /\ R!TypeOK /\ D!TypeOK /\ N!TypeOK /\ I!TypeOK

(* ReceiptQueue: a second receipt has an outcome that was not known, or a mark that could
   not be seen, behind it. *)
ReceiptsExplained == R!ReceiptsExplained

(* ReceiptQueue: a payment has one item and not none too early, unless a write failed. *)
NoneForgotten == R!NoneForgotten

(* PanelRetryQueue and ReceiptQueue: both queues empty. *)
QueuesDrain == QueueDrains /\ R!ListDrains

(* DailyCharge: days charged and days given balance, and none is charged twice. *)
BooksBalance == D!BooksBalance

(* DailyCharge: who has the money is served, unless that is left to the owner. *)
MoneyBuysService == D!MoneyBuysService

(* DailyCharge: a subscription that is said to be resumed is not paused. *)
ResumedIsUnpaused == D!ResumedIsUnpaused

(* Renewal: every renewal that is charged moves the end by a period that can be used. *)
ChargedIsGained == N!ChargedIsGained

(* Renewal: a top-up does not renew what is renewed already. *)
NoNeedlessRenewal == N!NoNeedlessRenewal

(* Renewal: the autopay renews in time for whoever has the money. *)
MoneyRenews == N!MoneyRenews

(* AppleIap: a purchase is credited, refunded and given back once each. *)
AppleBooksBalance == I!AppleBooksBalance

(* AppleIap: the status of a purchase is what Apple last said. *)
FollowsApple == I!FollowsApple
=============================================================================
