----------------------------- MODULE DailyCharge -----------------------------
(***************************************************************************)
(* A subscription on a daily tariff: every 24 hours one day is taken from  *)
(* the user's balance.  Four parts of the bot charge for a day and they    *)
(* all work on one row: the half-hourly loop of DailySubscriptionService,  *)
(* the resumption after a top-up, and the pause button of the Telegram     *)
(* bot, of the cabinet and of the mini app.                                *)
(*                                                                         *)
(* All lock the user's row to charge, but they decide whether to charge on *)
(* what they read before; only the mini app reads under the lock, and only *)
(* the resumption looks again (at updated_at) once it has the lock.        *)
(***************************************************************************)
EXTENDS Integers, FiniteSets

CONSTANTS
    MaxDays,     \* bound on days
    MaxMoney,    \* bound on money ever paid in, in prices of a day
    MaxPresses,  \* bound on what users, administrators and the panel do to the row
    MaxFaults    \* bound on errors and crashes

Buttons == {"bot", "cabinet"}
Agents == {"loop", "topup"} \cup Buttons

VARIABLES
    active,      \* status ACTIVE
    stopped,     \* the status that it has, or had last, when it is not
    paused,      \* is_daily_paused
    fresh,       \* last_daily_charge_at is less than 24 hours old
    recent,      \* updated_at is less than 60 seconds old
    stale,       \* updated_at is more than 24 hours old
    balance,     \* in prices of a day
    pc,          \* where each agent stands
    sawPaused,   \* button -> is_daily_paused as it was read
    sawActive,   \* button -> the status as it was read, and again with the debit
    owed,        \* days charged and not yet given
    lost,        \* days charged whose agent was stopped before it gave them
    today,       \* days charged in these 24 hours, or since someone else stopped it
    overlapped,  \* has a change come between an unguarded read and its use?
    resumed,     \* was the user told last that the subscription is resumed?
    days, money, presses, faults

row == <<active, stopped, paused, fresh, recent, stale>>
locals == <<pc, sawPaused, sawActive>>
books == <<owed, lost, today, overlapped>>
counters == <<days, money, presses, faults>>
vars == <<row, balance, locals, books, resumed, counters>>

Init ==
    /\ active = TRUE /\ stopped = "disabled" /\ paused = FALSE
    /\ fresh = TRUE /\ recent = FALSE /\ stale = FALSE
    /\ balance = 0
    /\ pc = [a \in Agents |-> "idle"]
    /\ sawPaused = [b \in Buttons |-> FALSE]
    /\ sawActive = [b \in Buttons |-> FALSE]
    /\ owed = 0 /\ lost = 0 /\ today = 1
    /\ overlapped = FALSE /\ resumed = FALSE
    /\ days = 0 /\ money = 0 /\ presses = 0 /\ faults = 0
-----------------------------------------------------------------------------
At(a, label) == pc[a] = label
Goto(a, label) == pc' = [pc EXCEPT ![a] = label]

(* An agent is done, and a button's handler forgets what it has read. *)
Leave(a) ==
    /\ Goto(a, "idle")
    /\ sawPaused' = [b \in Buttons |-> b # a /\ sawPaused[b]]
    /\ sawActive' = [b \in Buttons |-> b # a /\ sawActive[b]]

(* Agents that act on what they read without looking again. *)
Exposed == {a \in Agents : ~ At(a, "idle")}
              \ (IF pc["topup"] \in {"topped", "resuming"} THEN {"topup"} ELSE {})

(* A change by agent a; the row's updated_at moves. *)
Changes(a) ==
    /\ overlapped' = (overlapped \/ Exposed \ {a} # {})
    /\ recent' = TRUE
    /\ stale' = FALSE

Charge == balance > 0 /\ balance' = balance - 1 /\ today' = today + 1

Press == presses < MaxPresses /\ presses' = presses + 1
Fault == faults < MaxFaults /\ faults' = faults + 1

-----------------------------------------------------------------------------
(***************************************************************************)
(* The loop: process_auto_resume, then process_daily_charges.              *)
(***************************************************************************)
(* What the two queries of process_auto_resume take: DISABLED, and EXPIRED for less
   than 24 hours.  A subscription that is LIMITED is in neither. *)
Revivable ==
    /\ ~ active /\ ~ paused
    /\ stopped = "disabled" \/ (stopped = "expired" /\ ~ stale)

(* Mutant: more money is asked for than a day costs. *)
SelectDisabledRich ==
    /\ At("loop", "idle")
    /\ Revivable
    /\ balance > 1
    /\ Goto("loop", "reviving")
    /\ UNCHANGED <<row, balance, sawPaused, sawActive, books, resumed, counters>>

SelectDisabled ==
    /\ At("loop", "idle")
    /\ Revivable
    /\ balance > 0
    /\ Goto("loop", "reviving")
    /\ UNCHANGED <<row, balance, sawPaused, sawActive, books, resumed, counters>>

(* The status is committed before the charge. *)
Revive ==
    /\ At("loop", "reviving")
    /\ active' = TRUE
    /\ Changes("loop")
    /\ Goto("loop", "charging")
    /\ UNCHANGED <<stopped, paused, fresh, balance, sawPaused, sawActive, owed, lost, today,
                   resumed, counters>>

SelectDue ==
    /\ At("loop", "idle")
    /\ active /\ ~ paused /\ ~ fresh
    /\ Goto("loop", "charging")
    /\ UNCHANGED <<row, balance, sawPaused, sawActive, books, resumed, counters>>

(* From the lock to the one commit of balance, payment and time. *)
LoopCharge ==
    /\ At("loop", "charging")
    /\ Charge
    /\ fresh' = TRUE
    /\ Changes("loop")
    /\ Goto("loop", "idle")
    /\ UNCHANGED <<active, stopped, paused, sawPaused, sawActive, owed, lost, resumed,
                   counters>>

Suspend ==
    /\ At("loop", "charging")
    /\ balance = 0
    /\ active' = FALSE
    /\ stopped' = "disabled"
    /\ Changes("loop")
    /\ Goto("loop", "idle")
    /\ UNCHANGED <<paused, fresh, balance, sawPaused, sawActive, owed, lost, today,
                   resumed, counters>>

-----------------------------------------------------------------------------
(***************************************************************************)
(* try_resume_disabled_daily_after_topup.                                  *)
(***************************************************************************)
TopUp ==
    /\ At("topup", "idle")
    /\ money < MaxMoney
    /\ money' = money + 1
    /\ balance' = balance + 1
    /\ Goto("topup", "topped")
    /\ UNCHANGED <<row, sawPaused, sawActive, books, resumed, days, presses, faults>>

SelectForResume ==
    /\ At("topup", "topped")
    /\ Goto("topup", IF ~ active /\ ~ paused THEN "resuming" ELSE "idle")
    /\ UNCHANGED <<row, balance, sawPaused, sawActive, books, resumed, counters>>

(* Mutant: without the second look at updated_at. *)
ResumeDebitBlindly ==
    /\ At("topup", "resuming")
    /\ IF balance > 0
          THEN /\ Charge
               /\ owed' = owed + 1
               /\ overlapped' = (overlapped \/ Exposed \ {"topup"} # {})
               /\ Goto("topup", "debited")
          ELSE Goto("topup", "idle") /\ UNCHANGED <<balance, today, owed, overlapped>>
    /\ UNCHANGED <<row, sawPaused, sawActive, lost, resumed, counters>>

(* Under the lock: enough money, and not changed within a minute. *)
ResumeDebit ==
    /\ At("topup", "resuming")
    /\ IF balance > 0 /\ ~ recent
          THEN /\ Charge
               /\ owed' = owed + 1
               /\ overlapped' = (overlapped \/ Exposed \ {"topup"} # {})
               /\ Goto("topup", "debited")
          ELSE Goto("topup", "idle") /\ UNCHANGED <<balance, today, owed, overlapped>>
    /\ UNCHANGED <<row, sawPaused, sawActive, lost, resumed, counters>>

ResumeActivate ==
    /\ At("topup", "debited")
    /\ active' = TRUE
    /\ Changes("topup")
    /\ Goto("topup", "activated")
    /\ UNCHANGED <<stopped, paused, fresh, balance, sawPaused, sawActive, owed, lost, today,
                   resumed, counters>>

(* The activation fails: what was taken is given back.  The refund can fail as well,
   because the rollback before it has expired the objects that it reads; the error
   is then logged and the day is lost, which is Stop("topup"). *)
ResumeFails ==
    /\ At("topup", "debited")
    /\ Fault
    /\ balance' = balance + 1
    /\ owed' = owed - 1
    /\ Goto("topup", "idle")
    /\ UNCHANGED <<row, sawPaused, sawActive, lost, today, overlapped, resumed,
                   days, money, presses>>

(* update_daily_charge_time, in a commit of its own. *)
ResumeRecord ==
    /\ At("topup", "activated")
    /\ fresh' = TRUE
    /\ owed' = owed - 1
    /\ Changes("topup")
    /\ Goto("topup", "idle")
    /\ UNCHANGED <<active, stopped, paused, balance, sawPaused, sawActive, lost, today,
                   resumed, counters>>

-----------------------------------------------------------------------------
(***************************************************************************)
(* The buttons: a paused or stopped subscription is resumed, any other is  *)
(* paused.                                                                 *)
(***************************************************************************)
Read(b) ==
    /\ At(b, "idle")
    /\ Press
    /\ sawPaused' = [sawPaused EXCEPT ![b] = paused]
    /\ sawActive' = [sawActive EXCEPT ![b] = active]
    /\ Goto(b, "read")
    /\ UNCHANGED <<row, balance, books, resumed, days, money, faults>>

Pause(b) ==
    /\ At(b, "read")
    /\ ~ sawPaused[b] /\ sawActive[b]
    /\ paused' = TRUE
    /\ resumed' = FALSE
    /\ Changes(b)
    /\ Leave(b)
    /\ UNCHANGED <<active, stopped, fresh, balance, owed, lost, today, counters>>

TooPoor(b) ==
    /\ At(b, "read")
    /\ sawPaused[b] \/ ~ sawActive[b]
    /\ balance = 0
    /\ Leave(b)
    /\ UNCHANGED <<row, balance, books, resumed, counters>>

(* Mutant: the bot gives a day whatever the status. *)
UnpauseGives(b) ==
    /\ At(b, "read")
    /\ sawPaused[b] /\ sawActive[b]
    /\ balance > 0
    /\ paused' = FALSE
    /\ resumed' = TRUE
    /\ IF b = "bot"
          THEN active' = TRUE /\ fresh' = TRUE /\ owed' = owed - 1
          ELSE UNCHANGED <<active, fresh, owed>>
    /\ Changes(b)
    /\ Leave(b)
    /\ UNCHANGED <<stopped, balance, lost, today, counters>>

(* It was only paused: no charge.  The bot's resume_daily_subscription looks at the
   status again, which the lock has refreshed; the cabinet does not. *)
Unpause(b) ==
    /\ At(b, "read")
    /\ sawPaused[b] /\ sawActive[b]
    /\ balance > 0
    /\ paused' = FALSE
    /\ resumed' = TRUE
    /\ IF b = "bot" /\ ~ active
          THEN active' = TRUE /\ fresh' = TRUE /\ owed' = owed - 1
          ELSE UNCHANGED <<active, fresh, owed>>
    /\ Changes(b)
    /\ Leave(b)
    /\ UNCHANGED <<stopped, balance, lost, today, counters>>

(* It was stopped: the day is charged in a commit of its own, which loads the
   subscription again. *)
ButtonDebit(b) ==
    /\ At(b, "read")
    /\ ~ sawActive[b]
    /\ Charge
    /\ owed' = owed + 1
    /\ overlapped' = (overlapped \/ Exposed \ {b} # {})
    /\ sawActive' = [sawActive EXCEPT ![b] = active]
    /\ Goto(b, "debited")
    /\ UNCHANGED <<row, sawPaused, lost, resumed, counters>>

(* resume_daily_subscription: a subscription that was running by the time of the
   debit gets no day. *)
BotGive ==
    /\ At("bot", "debited")
    /\ paused' = FALSE
    /\ resumed' = TRUE
    /\ IF sawActive["bot"]
          THEN UNCHANGED <<active, fresh, owed>>
          ELSE active' = TRUE /\ fresh' = TRUE /\ owed' = owed - 1
    /\ Changes("bot")
    /\ Leave("bot")
    /\ UNCHANGED <<stopped, balance, lost, today, counters>>

(* The cabinet set is_daily_paused before the debit; the debit loaded the row again
   and with it the old value, so that only the status and the times are saved. *)
CabinetGive ==
    /\ At("cabinet", "debited")
    /\ active' = TRUE
    /\ fresh' = TRUE
    /\ owed' = owed - 1
    /\ resumed' = TRUE
    /\ Changes("cabinet")
    /\ Leave("cabinet")
    /\ UNCHANGED <<stopped, paused, balance, lost, today, counters>>

(* The mini app reads, charges and saves under one lock, in one commit. *)
MiniApp ==
    /\ Press
    /\ \/ /\ active /\ ~ paused
          /\ paused' = TRUE
          /\ resumed' = FALSE
          /\ UNCHANGED <<active, fresh, balance, today>>
       \/ /\ active /\ paused
          /\ balance > 0
          /\ paused' = FALSE
          /\ resumed' = TRUE
          /\ UNCHANGED <<active, fresh, balance, today>>
       \/ /\ ~ active
          /\ Charge
          /\ active' = TRUE
          /\ fresh' = TRUE
          /\ paused' = FALSE
          /\ resumed' = TRUE
    /\ Changes("miniapp")
    /\ UNCHANGED <<stopped, locals, owed, lost, days, money, faults>>

(* An administrator cancels: expired, and paused lest it be resumed by itself. *)
Cancel ==
    /\ Press
    /\ active' = FALSE
    /\ stopped' = "expired"
    /\ paused' = TRUE
    /\ resumed' = FALSE
    /\ today' = 0
    /\ Changes("administrator")
    /\ UNCHANGED <<fresh, balance, locals, owed, lost, days, money, faults>>

(* An administrator moves the end into the past: expired, and not paused. *)
Shorten ==
    /\ Press
    /\ active' = FALSE
    /\ stopped' = "expired"
    /\ today' = 0
    /\ Changes("administrator")
    /\ UNCHANGED <<paused, fresh, balance, locals, owed, lost, resumed, days, money, faults>>

(* user.limited: the panel says that the traffic is used up. *)
LimitTraffic ==
    /\ Press
    /\ active
    /\ active' = FALSE
    /\ stopped' = "limited"
    /\ today' = 0
    /\ Changes("panel")
    /\ UNCHANGED <<paused, fresh, balance, locals, owed, lost, resumed, days, money, faults>>

(* user.enabled and user.traffic_reset: what is not over, 24 hours after its charge,
   runs again, and nothing is charged. *)
Reenable ==
    /\ Press
    /\ ~ active /\ stopped \in {"disabled", "limited"}
    /\ fresh
    /\ active' = TRUE
    /\ Changes("panel")
    /\ UNCHANGED <<stopped, paused, fresh, balance, locals, owed, lost, today, resumed,
                   days, money, faults>>

-----------------------------------------------------------------------------
(* An exception or a crash ends an agent; after its debit the day is lost. *)
Stop(a) ==
    /\ ~ At(a, "idle")
    /\ Fault
    /\ lost' = lost + (IF pc[a] \in {"debited", "activated"} THEN 1 ELSE 0)
    /\ Leave(a)
    /\ UNCHANGED <<row, balance, owed, today, overlapped, resumed,
                   days, money, presses>>

(* The handlers take seconds: no day passes while one is running, and no minute
   between the reads of a resumption. *)
Day ==
    /\ days < MaxDays
    /\ \A a \in Agents : At(a, "idle")
    /\ days' = days + 1
    /\ fresh' = FALSE
    /\ recent' = FALSE
    /\ stale' \in {stale, TRUE}
    /\ today' = 0
    /\ UNCHANGED <<active, stopped, paused, balance, locals, owed, lost, overlapped, resumed,
                   money, presses, faults>>

Minute ==
    /\ recent
    /\ pc["topup"] \notin {"topped", "resuming"}
    /\ recent' = FALSE
    /\ UNCHANGED <<active, stopped, paused, fresh, stale, balance, locals, books, resumed,
                   counters>>

LoopStep == SelectDisabled \/ Revive \/ SelectDue \/ LoopCharge \/ Suspend

AfterTopUp == SelectForResume \/ ResumeDebit \/ ResumeActivate \/ ResumeRecord

ButtonStep(b) ==
    \/ Read(b) \/ Pause(b) \/ TooPoor(b) \/ Unpause(b) \/ ButtonDebit(b)
    \/ b = "bot" /\ BotGive
    \/ b = "cabinet" /\ CabinetGive

Next ==
    \/ LoopStep
    \/ TopUp \/ AfterTopUp \/ ResumeFails
    \/ \E b \in Buttons : ButtonStep(b)
    \/ MiniApp \/ Cancel \/ Shorten \/ LimitTraffic \/ Reenable
    \/ \E a \in Agents : Stop(a)
    \/ Day \/ Minute

(* The loop runs every thirty minutes. *)
Fairness == WF_vars(LoopStep)

Spec == Init /\ [][Next]_vars /\ Fairness

-----------------------------------------------------------------------------
(***************************************************************************)
(* Properties.                                                             *)
(***************************************************************************)

(* The variables have their types; no balance is negative. *)
TypeOK ==
    /\ {active, paused, fresh, recent, stale, overlapped, resumed} \subseteq BOOLEAN
    /\ stopped \in {"disabled", "expired", "limited"}
    /\ balance \in 0..MaxMoney
    /\ pc["loop"] \in {"idle", "reviving", "charging"}
    /\ pc["topup"] \in {"idle", "topped", "resuming", "debited", "activated"}
    /\ \A b \in Buttons : pc[b] \in {"idle", "read", "debited"}
    /\ sawPaused \in [Buttons -> BOOLEAN]
    /\ sawActive \in [Buttons -> BOOLEAN]
    /\ owed \in Int
    /\ lost \in 0..MaxFaults
    /\ today \in 0..MaxMoney + 1

UnderWay == Cardinality({a \in Agents : pc[a] \in {"debited", "activated"}})

(* Every day that is charged is given and every day that is given was charged,
   except those under way or cut off by a fault, as long as nobody comes between
   another's unguarded read and its use; a top-up's resumption is guarded.  And
   without faults no day is charged twice: not by the loop after a resumption, nor
   by a resumption after the mini app. *)
BooksBalance ==
    ~ overlapped =>
        /\ owed = UnderWay + lost
        /\ faults = 0 => today <= 1

(* The answer «resumed» is true: the subscription is not paused any more, until
   someone pauses it. *)
ResumedIsUnpaused == resumed => ~ paused

(* The loop never takes a subscription whose traffic was used up, nor one that expired
   more than 24 hours ago: those wait for their owner. *)
LeftToOwner == ~ active /\ (stopped = "limited" \/ (stopped = "expired" /\ stale))

(* A subscription that is not paused and whose user has the money is served again
   without anybody's doing, wherever a charge broke off: it is active, was stopped for
   want of money, or expired in the last 24 hours.  Only what is left to its owner is
   not. *)
MoneyBuysService ==
    ~ paused ~> (paused \/ balance = 0 \/ (active /\ fresh) \/ LeftToOwner)

=============================================================================
