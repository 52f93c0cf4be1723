------------------------------- MODULE Renewal -------------------------------
(***************************************************************************)
(* The renewal of a subscription from the balance.  Three parts of the bot *)
(* renew: a request of the user (SubscriptionRenewalService.finalize), the *)
(* autopay of the monitoring loop, and what follows a top-up: the saved    *)
(* cart, or else the renewal of an expired subscription.  The loop, and    *)
(* whoever reads the subscription, also mark it EXPIRED when it has ended. *)
(*                                                                         *)
(* The charge and the extension are two commits.  A request reads the row  *)
(* again under its lock before it extends; the others extend the end_date  *)
(* and the status that were loaded with the charge.                        *)
(*                                                                         *)
(* Time is counted in ticks of hours or days, a renewal is Period ticks    *)
(* and costs one.                                                          *)
(***************************************************************************)
EXTENDS Integers, FiniteSets, FiniteSetsExt

CONSTANTS
    Requests,    \* renewals that users ask for in the bot, the cabinet, the mini app
    Period,      \* ticks of one renewal
    MaxNow,      \* bound on time
    MaxMoney,    \* bound on money ever paid in
    MaxPresses,  \* bound on requests made
    MaxFaults    \* bound on errors and crashes

(* The monitoring loop, what follows a top-up, and a handler that reads. *)
Agents == Requests \cup {"monitor", "topup", "reader"}

VARIABLES
    end,         \* end_date
    active,      \* status ACTIVE; otherwise EXPIRED
    recent,      \* updated_at is less than 60 seconds old
    balance,
    cart,        \* is a renewal saved in the user's cart?
    renewedKey,  \* autopay_<user>_<subscription> in _notified_users
    hour,        \* has an hour passed since that set was cleared?
    pc,          \* where each agent stands
    copy,        \* agent -> end_date and status as they were loaded with the charge
    now,
    looked,      \* has the loop made a round since the last tick?
    paid,        \* renewals charged and not refunded
    gained,      \* renewals by which end_date has moved
    lost,        \* renewals charged and cut off by a fault
    crossed,     \* has a change come between an unguarded read and its use?
    needless,    \* has a top-up renewed a subscription that had time left?
    money, presses, faults

row == <<end, active, recent>>
loop == <<renewedKey, hour, looked>>
books == <<paid, gained, lost, crossed, needless>>
counters == <<now, money, presses, faults>>
vars == <<row, balance, cart, loop, pc, copy, books, counters>>

Unread == [end |-> 0, active |-> FALSE]

Init ==
    /\ end = Period /\ active = TRUE /\ recent = FALSE
    /\ balance = 0
    /\ cart = FALSE
    /\ renewedKey = FALSE /\ hour = FALSE /\ looked = FALSE
    /\ pc = [a \in Agents |-> "idle"]
    /\ copy = [a \in Agents |-> Unread]
    /\ paid = 0 /\ gained = 0 /\ lost = 0
    /\ crossed = FALSE /\ needless = FALSE
    /\ now = 0 /\ money = 0 /\ presses = 0 /\ faults = 0
-----------------------------------------------------------------------------
At(a, label) == pc[a] = label
Goto(a, label) == pc' = [pc EXCEPT ![a] = label]
Forget(a) == copy' = [copy EXCEPT ![a] = Unread]

Charged(a) == pc[a] \in {"charged", "ordered"}

Lapsed == active /\ end <= now

(* Within autopay's days, or expired a moment ago. *)
Due == end - now <= 1 /\ (active \/ end >= now)

(* Agents that will write what they loaded, without looking again. *)
Exposed == {a \in Agents : At(a, "expiring") \/ (Charged(a) /\ a \notin Requests)}

Changes(a) ==
    /\ recent' = TRUE
    /\ crossed' = (crossed \/ Exposed \ {a} # {})

(* subtract_user_balance, from the lock to its commit; the locked read loads the
   user's subscriptions again. *)
Debit(a, label) ==
    /\ balance > 0
    /\ balance' = balance - 1
    /\ paid' = paid + 1
    /\ copy' = [copy EXCEPT ![a] = [end |-> end, active |-> active]]
    /\ Goto(a, label)

(* extend_subscription on an object with this end_date and status: the status is
   written only if the object's is not ACTIVE. *)
Extend(a, from, wasActive) ==
    /\ end' = Max({from, now}) + Period
    /\ active' = (active \/ ~ wasActive)
    /\ gained' = gained + (end' - Max({end, now})) \div Period
    /\ Changes(a)

Fault == faults < MaxFaults /\ faults' = faults + 1
-----------------------------------------------------------------------------
(***************************************************************************)
(* A request.                                                              *)
(***************************************************************************)

(* The price is charged, or the renewal is saved in the cart. *)
Renew(r) ==
    /\ At(r, "idle")
    /\ presses < MaxPresses
    /\ presses' = presses + 1
    /\ \/ Debit(r, "charged") /\ UNCHANGED cart
       \/ balance = 0 /\ cart' = TRUE /\ UNCHANGED <<balance, paid, copy, pc>>
    /\ UNCHANGED <<row, loop, gained, lost, crossed, needless, now, money, faults>>

(* Mutant: the row is locked and not read again. *)
ServiceExtendStale(r) ==
    /\ At(r, "charged")
    /\ Extend(r, copy[r].end, copy[r].active)
    /\ Goto(r, "idle")
    /\ Forget(r)
    /\ UNCHANGED <<balance, cart, loop, paid, lost, needless, counters>>

ServiceExtend(r) ==
    /\ At(r, "charged")
    /\ Extend(r, end, active)
    /\ Goto(r, "idle")
    /\ Forget(r)
    /\ UNCHANGED <<balance, cart, loop, paid, lost, needless, counters>>

-----------------------------------------------------------------------------
(***************************************************************************)
(* The monitoring loop: autopay comes before the check for ended           *)
(* subscriptions.                                                          *)
(***************************************************************************)

(* Mutant: a subscription that somebody has marked EXPIRED is not looked at. *)
SelectDueActive ==
    /\ At("monitor", "idle")
    /\ renewedKey' = (renewedKey /\ ~ hour)
    /\ hour' = FALSE
    /\ Goto("monitor", IF Due /\ active THEN "selected" ELSE "checking")
    /\ UNCHANGED <<row, balance, cart, looked, copy, books, counters>>

(* The keys are cleared every hour. *)
SelectDue ==
    /\ At("monitor", "idle")
    /\ renewedKey' = (renewedKey /\ ~ hour)
    /\ hour' = FALSE
    /\ Goto("monitor", IF Due THEN "selected" ELSE "checking")
    /\ UNCHANGED <<row, balance, cart, looked, copy, books, counters>>

(* Whether it is still due is not asked again. *)
AutopayDebit ==
    /\ At("monitor", "selected")
    /\ IF balance > 0 /\ ~ renewedKey
          THEN Debit("monitor", "charged")
          ELSE Goto("monitor", "checking") /\ UNCHANGED <<balance, paid, copy>>
    /\ UNCHANGED <<row, cart, loop, gained, lost, crossed, needless, counters>>

AutopayExtend ==
    /\ At("monitor", "charged")
    /\ Extend("monitor", copy["monitor"].end, copy["monitor"].active)
    /\ renewedKey' = TRUE
    /\ Goto("monitor", "checking")
    /\ Forget("monitor")
    /\ UNCHANGED <<balance, cart, hour, looked, paid, lost, needless, counters>>

SelectEnded ==
    /\ At("monitor", "checking")
    /\ IF Lapsed THEN Goto("monitor", "expiring") /\ UNCHANGED looked
                 ELSE Goto("monitor", "idle") /\ looked' = TRUE
    /\ UNCHANGED <<row, balance, cart, renewedKey, hour, copy, books, counters>>

(* check_and_update_subscription_status in any handler that reads. *)
ReadEnded ==
    /\ At("reader", "idle")
    /\ Lapsed
    /\ Goto("reader", "expiring")
    /\ UNCHANGED <<row, balance, cart, loop, copy, books, counters>>

(* What was read is not looked at again. *)
Expire(a) ==
    /\ At(a, "expiring")
    /\ active' = FALSE
    /\ Changes(a)
    /\ Goto(a, "idle")
    /\ looked' = (looked \/ a = "monitor")
    /\ UNCHANGED <<end, balance, cart, renewedKey, hour, copy, paid, gained, lost,
                   needless, counters>>

-----------------------------------------------------------------------------
(***************************************************************************)
(* After a top-up: send_cart_notification_after_topup.                     *)
(***************************************************************************)
TopUp ==
    /\ At("topup", "idle")
    /\ money < MaxMoney
    /\ money' = money + 1
    /\ balance' = balance + 1
    /\ Goto("topup", "topped")
    /\ UNCHANGED <<row, cart, loop, copy, books, now, presses, faults>>

(* try_resume_disabled_daily_after_topup comes first; its read of the subscription
   marks it if it has ended. *)
ReadForDaily ==
    /\ At("topup", "topped")
    /\ IF Lapsed THEN active' = FALSE /\ Changes("topup")
                 ELSE UNCHANGED <<active, recent, crossed>>
    /\ Goto("topup", "read")
    /\ UNCHANGED <<end, balance, cart, loop, copy, paid, gained, lost, needless, counters>>

(* A cart is not bought within a minute of another change, that mark included. *)
ReadCart ==
    /\ At("topup", "read")
    /\ cart
    /\ Goto("topup", IF recent THEN "idle" ELSE "buying")
    /\ UNCHANGED <<row, balance, cart, loop, copy, books, counters>>

CartDebit ==
    /\ At("topup", "buying")
    /\ IF balance > 0 THEN Debit("topup", "ordered")
                      ELSE Goto("topup", "idle") /\ UNCHANGED <<balance, paid, copy>>
    /\ UNCHANGED <<row, cart, loop, gained, lost, crossed, needless, counters>>

CartExtend ==
    /\ At("topup", "ordered")
    /\ Extend("topup", copy["topup"].end, copy["topup"].active)
    /\ Goto("topup", "emptying")
    /\ Forget("topup")
    /\ UNCHANGED <<balance, cart, loop, paid, lost, needless, counters>>

EmptyCart ==
    /\ At("topup", "emptying")
    /\ cart' = FALSE
    /\ Goto("topup", "idle")
    /\ UNCHANGED <<row, balance, loop, copy, books, counters>>

ReadExpired ==
    /\ At("topup", "read")
    /\ ~ cart
    /\ Goto("topup", IF active THEN "idle" ELSE "renewing")
    /\ UNCHANGED <<row, balance, cart, loop, copy, books, counters>>

(* Mutant: updated_at is not looked at. *)
ExpiredDebitBlindly ==
    /\ At("topup", "renewing")
    /\ IF balance > 0
          THEN Debit("topup", "charged") /\ needless' = (needless \/ end > now)
          ELSE Goto("topup", "idle") /\ UNCHANGED <<balance, paid, copy, needless>>
    /\ UNCHANGED <<row, cart, loop, gained, lost, crossed, counters>>

(* Under the lock: enough money, and not changed within a minute. *)
ExpiredDebit ==
    /\ At("topup", "renewing")
    /\ IF balance > 0 /\ ~ recent
          THEN Debit("topup", "charged") /\ needless' = (needless \/ end > now)
          ELSE Goto("topup", "idle") /\ UNCHANGED <<balance, paid, copy, needless>>
    /\ UNCHANGED <<row, cart, loop, gained, lost, crossed, counters>>

ExpiredExtend ==
    /\ At("topup", "charged")
    /\ Extend("topup", copy["topup"].end, copy["topup"].active)
    /\ Goto("topup", "idle")
    /\ Forget("topup")
    /\ UNCHANGED <<balance, cart, loop, paid, lost, needless, counters>>

-----------------------------------------------------------------------------
(* The extension fails: a request or a top-up gives back what was taken. *)
Refund(a) ==
    /\ Charged(a)
    /\ a # "monitor"
    /\ Fault
    /\ balance' = balance + 1
    /\ paid' = paid - 1
    /\ Goto(a, "idle")
    /\ Forget(a)
    /\ UNCHANGED <<row, cart, loop, gained, lost, crossed, needless, now, money, presses>>

(* An exception ends an agent, the loop goes on with its next part.  The autopay
   refunds nothing, and a refund can fail as well: the rollback before it has
   expired the objects that it reads. *)
Stop(a) ==
    /\ ~ At(a, "idle")
    /\ Fault
    /\ lost' = lost + (IF Charged(a) THEN 1 ELSE 0)
    /\ Goto(a, IF a = "monitor" /\ ~ At(a, "expiring") THEN "checking" ELSE "idle")
    /\ Forget(a)
    /\ UNCHANGED <<row, balance, cart, loop, paid, gained, crossed, needless,
                   now, money, presses>>

(* The keys of the autopay are only in memory. *)
Crash ==
    /\ Fault
    /\ lost' = lost + Cardinality({a \in Agents : Charged(a)})
    /\ pc' = [a \in Agents |-> "idle"]
    /\ copy' = [a \in Agents |-> Unread]
    /\ renewedKey' = FALSE
    /\ UNCHANGED <<row, balance, cart, hour, looked, paid, gained, crossed,
                   needless, now, money, presses>>

(* The loop makes a round in every tick; handlers take seconds. *)
Tick ==
    /\ now < MaxNow
    /\ looked
    /\ \A a \in Agents : At(a, "idle")
    /\ now' = now + 1
    /\ looked' = FALSE
    /\ hour' = TRUE
    /\ recent' = FALSE
    /\ UNCHANGED <<end, active, balance, cart, renewedKey, pc, copy, books, money,
                   presses, faults>>

Minute ==
    /\ recent
    /\ pc["topup"] \notin {"read", "renewing"}
    /\ recent' = FALSE
    /\ UNCHANGED <<end, active, balance, cart, loop, pc, copy, books, counters>>

LoopStep ==
    \/ SelectDue \/ AutopayDebit \/ AutopayExtend \/ SelectEnded \/ Expire("monitor")

AfterTopUp ==
    \/ ReadForDaily
    \/ ReadCart \/ CartDebit \/ CartExtend \/ EmptyCart
    \/ ReadExpired \/ ExpiredDebit \/ ExpiredExtend

Next ==
    \/ \E r \in Requests : Renew(r) \/ ServiceExtend(r)
    \/ LoopStep
    \/ TopUp \/ AfterTopUp
    \/ ReadEnded \/ Expire("reader")
    \/ \E a \in Agents : Refund(a) \/ Stop(a)
    \/ Crash
    \/ Tick \/ Minute

(* The loop runs every MONITORING_INTERVAL minutes. *)
Fairness == WF_vars(LoopStep)

Spec == Init /\ [][Next]_vars /\ Fairness

-----------------------------------------------------------------------------
(***************************************************************************)
(* Properties.                                                             *)
(***************************************************************************)

(* The variables have their types; no balance is negative. *)
TypeOK ==
    /\ end \in 0..MaxNow + Period * (MaxMoney + 1)
    /\ {active, recent, cart, renewedKey, hour, looked, crossed, needless} \subseteq BOOLEAN
    /\ balance \in 0..MaxMoney
    /\ \A a \in Agents : copy[a].end \in Nat /\ copy[a].active \in BOOLEAN
    /\ \A r \in Requests : pc[r] \in {"idle", "charged"}
    /\ pc["monitor"] \in {"idle", "selected", "charged", "checking", "expiring"}
    /\ pc["topup"] \in {"idle", "topped", "read", "buying", "ordered", "emptying", "renewing", "charged"}
    /\ pc["reader"] \in {"idle", "expiring"}
    /\ paid \in 0..MaxMoney /\ lost \in 0..MaxMoney
    /\ gained \in Int
    /\ now \in 0..MaxNow

(* Every renewal that is charged moves the end by a period, except those under way
   or cut off by a fault, as long as nobody comes between another's unguarded read
   and its use; two requests at once are always safe.  And what was gained can be
   used: a subscription with time left is not marked as expired, although it is
   marked by whoever reads it and by a loop that works on a list. *)
ChargedIsGained ==
    ~ crossed =>
        /\ paid = gained + lost + Cardinality({a \in Agents : Charged(a)})
        /\ end > now => active

(* Likewise a top-up does not renew by itself a subscription that somebody has
   renewed since it was found expired. *)
NoNeedlessRenewal == ~ crossed => ~ needless

(* A subscription about to end, whose user has the money, is renewed in time by the
   autopay, also if somebody marks it as expired first; unless a fault interferes
   or the money goes elsewhere. *)
MoneyRenews ==
    (end - now = 1 /\ balance > 0) ~> (end - now > 1 \/ balance = 0 \/ faults > 0)

=============================================================================
