------------------------------- MODULE AppleIap -------------------------------
(***************************************************************************)
(* Purchases in the App Store that top up a user's balance: the request of *)
(* the app (verify_and_fulfill_purchase), Apple's notifications of charges,*)
(* refunds and reversals of refunds (AppleIAPNotificationService), and the *)
(* user who spends.  Apple sends a notification until it is answered with  *)
(* OK, in whatever order that makes, and may send it again before it has   *)
(* the answer.                                                             *)
(*                                                                         *)
(* A charge is fulfilled in one transaction and its notification settled   *)
(* in the next; whether it has been fulfilled is first asked without a     *)
(* lock.  A refund or a reversal, with its notification, is one            *)
(* transaction under the locks of the purchase and of the user, so one     *)
(* step.                                                                   *)
(***************************************************************************)
EXTENDS Integers, FiniteSetsExt

CONSTANTS
    Purchases,   \* transaction ids, all of one user
    Amount,      \* purchase -> APPLE_IAP_PRODUCTS of its product
    Requests,    \* slots for requests of the app
    Webhooks,    \* slots for notifications of charges
    MaxEvents,   \* purchase -> bound on what Apple does with it
    MaxFaults,   \* bound on crashes, errors, lost answers and rival deliveries
    Nil

VARIABLES
    apple,       \* purchase -> charges, refunds and reversals so far, alternating
    row,         \* purchase -> status in apple_transactions
    note,        \* notification -> status in apple_notifications
    answered,    \* notifications that Apple has seen answered with OK
    balance,
    spent,
    shortfall,   \* what refunds could not take, since it had been spent
    pc,
    job,         \* handler -> purchase and number of the event, 0 for the app's request
    overtaken,   \* purchases whose refunds were answered in a wrong order
    raced,       \* notifications of which a second delivery looked before the first committed
    faults

vars == <<apple, row, note, answered, balance, spent, shortfall, pc, job, overtaken, raced,
          faults>>

Handlers == Requests \cup Webhooks
Notifications == UNION {{p} \X (1..MaxEvents[p]) : p \in Purchases}

(* Apple has given the money back, for the time being. *)
Revoked(k) == k > 0 /\ k % 2 = 0

Init ==
    /\ apple = [p \in Purchases |-> 0]
    /\ row = [p \in Purchases |-> "none"]
    /\ note = [n \in Notifications |-> "none"]
    /\ answered = {}
    /\ balance = 0 /\ spent = 0 /\ shortfall = 0
    /\ pc = [h \in Handlers |-> "idle"]
    /\ job = [h \in Handlers |-> Nil]
    /\ overtaken = {}
    /\ raced = {}
    /\ faults = 0
-----------------------------------------------------------------------------
At(h, label) == pc[h] = label
Purchase(h) == job[h][1]
Goto(h, label) == pc' = [pc EXCEPT ![h] = label]
Start(h, p, k) == Goto(h, "looking") /\ job' = [job EXCEPT ![h] = <<p, k>>]
End(h) == Goto(h, "idle") /\ job' = [job EXCEPT ![h] = Nil]

Fault == faults < MaxFaults /\ faults' = faults + 1

(* The answer reaches Apple, or is lost. *)
Answer(n) ==
    \/ answered' = answered \cup {n} /\ UNCHANGED faults
    \/ Fault /\ UNCHANGED answered

(* Nobody has inserted the notification's row and not committed it. *)
NoteFree(n) == note[n] = "none" => \A h \in Webhooks : job[h] # n

-----------------------------------------------------------------------------
(***************************************************************************)
(* Apple and the user.                                                     *)
(***************************************************************************)
AppleActs(p) ==
    /\ apple[p] < MaxEvents[p]
    /\ apple' = [apple EXCEPT ![p] = @ + 1]
    /\ UNCHANGED <<row, note, answered, balance, spent, shortfall, pc, job, overtaken, raced, faults>>

Spend ==
    /\ balance > 0
    /\ balance' = balance - 1
    /\ spent' = spent + 1
    /\ UNCHANGED <<apple, row, note, answered, shortfall, pc, job, overtaken, raced, faults>>

-----------------------------------------------------------------------------
(***************************************************************************)
(* A charge: fulfill_verified_transaction, for the app or a notification.  *)
(***************************************************************************)

(* The app's request; Apple confirms a purchase that is not revoked. *)
Post(h, p) ==
    /\ At(h, "idle")
    /\ apple[p] > 0 /\ ~ Revoked(apple[p])
    /\ Start(h, p, 0)
    /\ UNCHANGED <<apple, row, note, answered, balance, spent, shortfall, overtaken, raced, faults>>

(* ONE_TIME_CHARGE; its payload was signed when the purchase was made. *)
DeliverCharge(h, p) ==
    /\ At(h, "idle")
    /\ apple[p] > 0
    /\ <<p, 1>> \notin answered
    /\ note[<<p, 1>>] # "processed"
    /\ NoteFree(<<p, 1>>)
    /\ Start(h, p, 1)
    /\ UNCHANGED <<apple, row, note, answered, balance, spent, shortfall, overtaken, raced, faults>>

(* A charge that has been fulfilled: the notification is settled at once. *)
Found(h) ==
    /\ At(h, "looking")
    /\ row[Purchase(h)] # "none"
    /\ IF h \in Webhooks
          THEN note' = [note EXCEPT ![job[h]] = "processed"] /\ Answer(job[h])
          ELSE UNCHANGED <<note, answered, faults>>
    /\ End(h)
    /\ UNCHANGED <<apple, row, balance, spent, shortfall, overtaken, raced>>

NotFound(h) ==
    /\ At(h, "looking")
    /\ row[Purchase(h)] = "none"
    /\ Goto(h, "crediting")
    /\ UNCHANGED <<apple, row, note, answered, balance, spent, shortfall, job, overtaken, raced, faults>>

(* The commit of a fulfilment saves a new notification as received. *)
Committed(h) ==
    IF h \in Webhooks
    THEN /\ note' = [note EXCEPT ![job[h]] = IF @ = "none" THEN "received" ELSE @]
         /\ Goto(h, "closing") /\ UNCHANGED job
    ELSE End(h) /\ UNCHANGED note

(* Mutant: without the unique index only the earlier look counts. *)
CreditUnchecked(h) ==
    /\ At(h, "crediting")
    /\ row' = [row EXCEPT ![Purchase(h)] = "credited"]
    /\ balance' = balance + Amount[Purchase(h)]
    /\ Committed(h)
    /\ UNCHANGED <<apple, answered, spent, shortfall, overtaken, raced, faults>>

(* From the user's lock to the commit: the row is inserted, the user credited; or the
   unique index says that another has done so, whatever became of the row since. *)
Credit(h) ==
    /\ At(h, "crediting")
    /\ IF row[Purchase(h)] = "none"
          THEN /\ row' = [row EXCEPT ![Purchase(h)] = "credited"]
               /\ balance' = balance + Amount[Purchase(h)]
          ELSE UNCHANGED <<row, balance>>
    /\ Committed(h)
    /\ UNCHANGED <<apple, answered, spent, shortfall, overtaken, raced, faults>>

(* After the side effects of the credit. *)
Close(h) ==
    /\ At(h, "closing")
    /\ note' = [note EXCEPT ![job[h]] = "processed"]
    /\ Answer(job[h])
    /\ End(h)
    /\ UNCHANGED <<apple, row, balance, spent, shortfall, overtaken, raced>>

(* The fulfilment or a side effect raises, or there is no account of the token: Apple
   is told that the notification failed. *)
ChargeFailed(h) ==
    /\ h \in Webhooks /\ ~ At(h, "idle")
    /\ Fault
    /\ note' = [note EXCEPT ![job[h]] = "failed"]
    /\ End(h)
    /\ UNCHANGED <<apple, row, answered, balance, spent, shortfall, overtaken, raced>>

(* A crash or a database error: what the transaction has done is gone. *)
Stop(h) ==
    /\ ~ At(h, "idle")
    /\ Fault
    /\ End(h)
    /\ UNCHANGED <<apple, row, note, answered, balance, spent, shortfall, overtaken, raced>>

-----------------------------------------------------------------------------
(***************************************************************************)
(* REFUND and REFUND_REVERSED.                                             *)
(***************************************************************************)
Delivered(p, k) ==
    /\ k <= apple[p]
    /\ <<p, k>> \notin answered
    /\ note[<<p, k>>] # "processed"

(* The notification is answered with OK, perhaps before an earlier one. *)
Settle(p, k) ==
    /\ note' = [note EXCEPT ![<<p, k>>] = "processed"]
    /\ Answer(<<p, k>>)
    /\ overtaken' = IF \E e \in 2..k - 1 : note[<<p, e>>] # "processed"
                    THEN overtaken \cup {p} ELSE overtaken
    /\ UNCHANGED raced

(* Mutant: an unknown purchase is none of our business. *)
UnknownIgnored(p, k) ==
    /\ k > 1
    /\ Delivered(p, k)
    /\ row[p] = "none"
    /\ Settle(p, k)
    /\ UNCHANGED <<apple, row, balance, spent, shortfall, pc, job>>

(* transaction_not_found: Apple is to send it again. *)
Unknown(p, k) ==
    /\ k > 1
    /\ Delivered(p, k)
    /\ row[p] = "none"
    /\ note' = [note EXCEPT ![<<p, k>>] = "failed"]
    /\ UNCHANGED <<apple, row, answered, balance, spent, shortfall, pc, job, overtaken, raced, faults>>

(* An error, or the credit of a reversal fails. *)
Errored(p, k) ==
    /\ Delivered(p, k)
    /\ Fault
    /\ note' = [note EXCEPT ![<<p, k>>] = "failed"]
    /\ UNCHANGED <<apple, row, answered, balance, spent, shortfall, pc, job, overtaken, raced>>

(* already_refunded, not_refunded. *)
NothingToDo(p, k) ==
    /\ k > 1
    /\ Delivered(p, k)
    /\ row[p] = IF Revoked(k) THEN "refunded" ELSE "credited"
    /\ Settle(p, k)
    /\ UNCHANGED <<apple, row, balance, spent, shortfall, pc, job>>

(* What is left of the balance is taken, up to the amount. *)
Refund(p, k) ==
    LET taken == Min({Amount[p], balance}) IN
    /\ Revoked(k)
    /\ Delivered(p, k)
    /\ row[p] = "credited"
    /\ row' = [row EXCEPT ![p] = "refunded"]
    /\ balance' = balance - taken
    /\ shortfall' = shortfall + Amount[p] - taken
    /\ Settle(p, k)
    /\ UNCHANGED <<apple, spent, pc, job>>

(* The whole amount comes back, whatever the refund had taken. *)
Reverse(p, k) ==
    /\ k > 1 /\ ~ Revoked(k)
    /\ Delivered(p, k)
    /\ row[p] = "refunded"
    /\ row' = [row EXCEPT ![p] = "credited"]
    /\ balance' = balance + Amount[p]
    /\ Settle(p, k)
    /\ UNCHANGED <<apple, spent, shortfall, pc, job>>

(* Apple repeats a notification whose answer was lost. *)
Duplicate(n) ==
    /\ note[n] = "processed"
    /\ n \notin answered
    /\ answered' = answered \cup {n}
    /\ UNCHANGED <<apple, row, note, balance, spent, shortfall, pc, job, overtaken, raced, faults>>

(* A second delivery looks before the first one has committed the row. *)
DeliverAgain(n) ==
    /\ n[2] <= apple[n[1]]
    /\ note[n] = "none"
    /\ Fault
    /\ raced' = raced \cup {n}
    /\ UNCHANGED <<apple, row, note, answered, balance, spent, shortfall, pc, job, overtaken>>

(* Its insert then fails on the first one's row, and a payload seen before is answered
   with OK, although the first delivery is still at work or has failed. *)
Replayed(n) ==
    /\ n \in raced
    /\ note[n] \in {"received", "failed"}
    /\ answered' = answered \cup {n}
    /\ UNCHANGED <<apple, row, note, balance, spent, shortfall, pc, job, overtaken, raced, faults>>

-----------------------------------------------------------------------------
ChargeStep(h) == Found(h) \/ NotFound(h) \/ Credit(h) \/ Close(h) \/ ChargeFailed(h) \/ Stop(h)
Notified(p, k) ==
    Unknown(p, k) \/ Errored(p, k) \/ NothingToDo(p, k) \/ Refund(p, k) \/ Reverse(p, k)

Next ==
    \/ \E p \in Purchases :
          \/ AppleActs(p)
          \/ \E h \in Requests : Post(h, p)
          \/ \E h \in Webhooks : DeliverCharge(h, p)
          \/ \E k \in 2..MaxEvents[p] : Notified(p, k)
    \/ \E n \in Notifications : Duplicate(n) \/ DeliverAgain(n) \/ Replayed(n)
    \/ \E h \in Handlers : ChargeStep(h)
    \/ Spend

Spec == Init /\ [][Next]_vars

-----------------------------------------------------------------------------
(***************************************************************************)
(* Properties.                                                             *)
(***************************************************************************)

(* The variables have their types; a handler at work knows its purchase. *)
TypeOK ==
    /\ \A p \in Purchases : apple[p] \in 0..MaxEvents[p]
    /\ row \in [Purchases -> {"none", "credited", "refunded"}]
    /\ note \in [Notifications -> {"none", "received", "failed", "processed"}]
    /\ answered \subseteq Notifications
    /\ balance \in Nat /\ spent \in Nat /\ shortfall \in Nat
    /\ pc \in [Handlers -> {"idle", "looking", "crediting", "closing"}]
    /\ \A h \in Handlers :
          job[h] \in (IF At(h, "idle") THEN {Nil}
                      ELSE Purchases \X (IF h \in Webhooks THEN {1} ELSE {0}))
    /\ overtaken \subseteq Purchases
    /\ raced \subseteq Notifications
    /\ faults \in 0..MaxFaults

Worth == MapThenSumSet(LAMBDA p : Amount[p], {p \in Purchases : row[p] = "credited"})

(* However requests and notifications cross, are repeated or break off, a purchase is
   credited once, refunded once and given back once: the user has, and has spent, what
   his purchases in force are worth and what refunds could not take; and he never has
   more than those purchases are worth. *)
AppleBooksBalance ==
    /\ balance + spent = Worth + shortfall
    /\ balance <= Worth

(* An answer with OK says that the notification is settled; one that two deliveries
   raced for may be answered so by the loser, and is settled only when its row says so. *)
Sealed(n) == n \in answered \ raced \/ note[n] = "processed"

(* When every notification of a purchase has been answered by a delivery that had no
   rival, or is settled, the status of the purchase is what Apple last said, although
   they arrive in any order and the first ones may come before the purchase is known;
   except that a reversal must not be answered before the refund that it reverses, nor a
   refund before an earlier reversal. *)
FollowsApple ==
    \A p \in Purchases \ overtaken :
        apple[p] > 0 /\ (\A k \in 1..apple[p] : Sealed(<<p, k>>))
            => row[p] = IF Revoked(apple[p]) THEN "refunded" ELSE "credited"

=============================================================================
