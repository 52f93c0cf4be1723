------------------------- MODULE GuestPurchaseProofs -------------------------
(***************************************************************************)
(* Proofs about GuestPurchase, for any number of purchases, users, slots,  *)
(* retries and faults.                                                     *)
(***************************************************************************)
EXTENDS GuestPurchase, FiniteSetTheorems, TLAPS

(* From the purchase's lock to the commit that delivers it. *)
Delivering == {"locked", "loaded", "panel", "delivering"}

(* The purchases that were paid for, in full. *)
Backed == provider \ Mismatched

(* What a session knows.  Whatever is being delivered is backed, and a code only
   to whoever redeems it; what is flushed is under the purchase's lock; a held
   code is its owner's, at the latest when its session commits. *)
SessionOK(h) ==
    /\ pc[h] # "idle" => work[h] \in Purchases
    /\ pc[h] = "received" => work[h] \in provider
    /\ pc[h] \in AtWork \cup {"requeue"} => work[h] \in Backed
    /\ pc[h] = "retrying" => work[h] \notin CodeGifts
    /\ pc[h] \in Delivering =>
          \/ Fulfils(h) /\ work[h] \notin CodeGifts
          \/ Activates(h) /\ mem[h].owner \in Users
    /\ pc[h] = "entering" /\ Activates(h) => work[h] \in Backed
    /\ pc[h] = "entering" /\ work[h] \in CodeGifts /\ mem[h].owner # NoOne =>
          owner[work[h]] = mem[h].owner
    /\ pc[h] = "locked" => purchaseLock[work[h]] = h
    /\ pc[h] \in {"panel", "delivering"} => renewed[h] \/ granted[work[h]] > 0
    /\ unsaved[h] =>
          /\ pc[h] \in Delivering /\ purchaseLock[work[h]] = h
          /\ Fulfils(h) => status[work[h]] \in {"pending", "paid"}
    /\ pc[h] \in Delivering /\ work[h] \in CodeGifts =>
          \/ owner[work[h]] = mem[h].owner
          \/ unsaved[h] /\ owner[work[h]] = NoOne

(* A payment record needs a payment, and a payment a purchase. *)
TablesOK ==
    /\ settled \subseteq provider
    /\ \A p \in provider : status[p] # "none"
    /\ NothingForNothing
    /\ DeliveredMeansGranted

IInv == TypeOK /\ TablesOK /\ \A h \in Workers : SessionOK(h)

-----------------------------------------------------------------------------
(* Nothing has happened. *)
LEMMA IInvInit == Init => IInv
<1> SUFFICES ASSUME Init PROVE IInv
  OBVIOUS
<1> USE ConstantsAssumption DEF Init
<1>1. TypeOK
  <2>1. {NoSub, OldSub, LiveSub} \subseteq SubType
    BY DEF NoSub, OldSub, LiveSub, SubType
  <2>2. sub \in [Users -> SubType]
    BY <2>1
  <2>3. NoRow \in RowType /\ NoSub \in SubType
    BY <2>1 DEF NoRow, RowType, Statuses
  <2> QED BY <2>2, <2>3 DEF TypeOK, Statuses, PcStates, Workers
<1>2. TablesOK
  BY DEF TablesOK, NothingForNothing, DeliveredMeansGranted
<1>3. ASSUME NEW h \in Workers PROVE SessionOK(h)
  BY DEF SessionOK, AtWork, Delivering
<1> QED BY <1>1, <1>2, <1>3 DEF IInv

-----------------------------------------------------------------------------
(***************************************************************************)
(* What one step leaves to the sessions that do not take it.               *)
(***************************************************************************)

(* The sessions other than h stay as they are. *)
OnlyMoves(h) ==
    \A g \in Workers \ {h} :
        /\ pc'[g] = pc[g] /\ work'[g] = work[g] /\ mem'[g] = mem[g]
        /\ unsaved'[g] = unsaved[g] /\ renewed'[g] = renewed[g]

(* The lock of another session protects the row, and its lock stays. *)
RespectsLocks(h) ==
    \A p \in Purchases : purchaseLock[p] \notin {NoOne, h} =>
        /\ purchaseLock'[p] = purchaseLock[p]
        /\ status[p] # "none" => status'[p] = status[p]
        /\ owner'[p] = owner[p]

(* Payments and granted periods stay, and a redeemed code keeps its owner. *)
Lasting ==
    /\ provider \subseteq provider'
    /\ \A p \in Purchases : granted[p] > 0 => granted'[p] > 0
    /\ \A p \in CodeGifts : owner[p] # NoOne => owner'[p] = owner[p]

(* Under these conditions the other sessions know what they knew. *)
LEMMA OthersKnow ==
    ASSUME IInv, NEW h, OnlyMoves(h), RespectsLocks(h), Lasting,
           NEW g \in Workers \ {h}
    PROVE  SessionOK(g)'
<1> USE ConstantsAssumption
<1>1. SessionOK(g) /\ g \in Workers /\ g # NoOne
  BY DEF IInv, Workers
<1>2. /\ pc'[g] = pc[g] /\ work'[g] = work[g] /\ mem'[g] = mem[g]
      /\ unsaved'[g] = unsaved[g] /\ renewed'[g] = renewed[g]
  BY DEF OnlyMoves
<1>3. work[g] \in Backed => work[g] \in Backed'
  BY DEF Lasting, Backed
<1>4. ASSUME work[g] \in Purchases, purchaseLock[work[g]] = g
      PROVE  /\ purchaseLock'[work[g]] = g
             /\ status[work[g]] # "none" => status'[work[g]] = status[work[g]]
             /\ owner'[work[g]] = owner[work[g]]
  BY <1>1, <1>4 DEF RespectsLocks
<1>5. ASSUME unsaved[g]
      PROVE  /\ pc[g] \in Delivering /\ purchaseLock'[work[g]] = g
             /\ Fulfils(g) => status'[work[g]] \in {"pending", "paid"}
             /\ owner'[work[g]] = owner[work[g]]
  BY <1>1, <1>4, <1>5 DEF SessionOK, Delivering
<1>6. work[g] \in CodeGifts /\ owner[work[g]] # NoOne => owner'[work[g]] = owner[work[g]]
  BY DEF Lasting
<1>7. Users \cap {NoOne} = {}
  OBVIOUS
<1>8. pc[g] \in {"panel", "delivering"} => renewed[g] \/ granted'[work[g]] > 0
  BY <1>1 DEF SessionOK, Lasting, AtWork, Delivering
<1>9. pc[g] \in Delivering /\ work[g] \in CodeGifts =>
          \/ owner'[work[g]] = mem[g].owner
          \/ unsaved[g] /\ owner'[work[g]] = NoOne
  <2>1. CASE unsaved[g]
    BY <1>1, <1>5, <2>1 DEF SessionOK
  <2>2. CASE ~ unsaved[g]
    <3>1. ASSUME pc[g] \in Delivering, work[g] \in CodeGifts PROVE mem[g].owner \in Users
      BY <1>1, <3>1 DEF SessionOK, Delivering
    <3> QED BY <1>1, <1>6, <1>7, <2>2, <3>1 DEF SessionOK
  <2> QED BY <2>1, <2>2
<1> QED BY <1>1, <1>2, <1>3, <1>4, <1>5, <1>6, <1>8, <1>9
        DEF SessionOK, Fulfils, Activates, AtWork, Delivering, Lasting

(* The invariant after a step of h, piece by piece. *)
LEMMA Assemble ==
    ASSUME IInv, NEW h \in Workers, OnlyMoves(h), RespectsLocks(h), Lasting,
           TypeOK', TablesOK', SessionOK(h)'
    PROVE  IInv'
BY OthersKnow DEF IInv

-----------------------------------------------------------------------------
(***************************************************************************)
(* The operators that the actions are made of.                             *)
(***************************************************************************)

SessionTypes ==
    /\ pc \in [Workers -> PcStates]
    /\ work \in [Workers -> Purchases \cup {NoOne}]
    /\ mem \in [Workers -> RowType]
    /\ unsaved \in [Workers -> BOOLEAN]
    /\ copy \in [Workers -> SubType]
    /\ renewed \in [Workers -> BOOLEAN]

LockTypes ==
    /\ purchaseLock \in [Purchases -> Workers \cup {NoOne}]
    /\ subLock \in [Users -> Workers \cup {NoOne}]

TableTypes ==
    /\ provider \subseteq Purchases /\ settled \subseteq Purchases
    /\ status \in [Purchases -> Statuses]
    /\ owner \in [Purchases -> Users \cup {NoOne}]
    /\ granted \in [Purchases -> Nat]
    /\ recorded \in [Purchases -> Nat]

(* The types, part by part. *)
LEMMA TypesTogether ==
    /\ TypeOK <=> /\ SessionTypes /\ LockTypes /\ TableTypes
                  /\ retries \in [Purchases -> 0..MaxRetries]
                  /\ sub \in [Users -> SubType]
                  /\ faults \in 0..MaxFaults
BY DEF TypeOK, SessionTypes, LockTypes, TableTypes

(* The values of a session that has read nothing have the types. *)
LEMMA EmptyTypes == NoRow \in RowType /\ NoSub \in SubType
BY DEF NoRow, NoSub, RowType, SubType, Statuses

(* A session that leaves its purchase has nothing that could go wrong. *)
LEMMA LeaveIdle ==
    ASSUME SessionTypes, NEW h \in Workers, Leave(h, "idle")
    PROVE  SessionTypes' /\ OnlyMoves(h) /\ SessionOK(h)'
<1>1. SessionTypes'
  BY EmptyTypes DEF SessionTypes, Leave, Goto, Clean, PcStates
<1>2. OnlyMoves(h)
  BY DEF SessionTypes, OnlyMoves, Leave, Goto, Clean
<1>3. pc'[h] = "idle" /\ ~ unsaved'[h]
  BY DEF SessionTypes, Leave, Goto, Clean
<1> QED BY <1>1, <1>2, <1>3 DEF SessionOK, AtWork, Delivering

(* A worker that has started on p has nothing flushed. *)
LEMMA EnterOn ==
    ASSUME IInv, NEW h \in Workers, NEW p \in Purchases, NEW row \in RowType,
           NEW label \in PcStates, Enter(h, p, row, label)
    PROVE  /\ SessionTypes' /\ OnlyMoves(h)
           /\ pc'[h] = label /\ work'[h] = p /\ mem'[h] = row /\ ~ unsaved'[h]
<1>1. SessionTypes /\ SessionOK(h)
  BY TypesTogether DEF IInv
<1>2. SessionTypes'
  BY <1>1 DEF SessionTypes, Enter, Goto
<1>3. OnlyMoves(h)
  BY <1>1 DEF SessionTypes, OnlyMoves, Enter, Goto
<1>4. pc'[h] = label /\ work'[h] = p /\ mem'[h] = row /\ ~ unsaved'[h]
  BY <1>1 DEF SessionTypes, SessionOK, Enter, Goto, Delivering
<1> QED BY <1>2, <1>3, <1>4

(* Only the holder loses its locks. *)
LEMMA Unlocked ==
    ASSUME LockTypes, NEW h, Unlock(h)
    PROVE  /\ LockTypes'
           /\ \A p \in Purchases :
                 purchaseLock[p] # h => purchaseLock'[p] = purchaseLock[p]
BY DEF LockTypes, Unlock

(* A lock that is taken was free. *)
LEMMA TakenRow ==
    ASSUME IInv, NEW h \in Workers, NEW row \in RowType, NEW flushed \in BOOLEAN,
           work[h] \in Purchases, Free(work[h]), TakeRow(h, row, flushed)
    PROVE  /\ SessionTypes' /\ LockTypes' /\ OnlyMoves(h)
           /\ pc'[h] = "locked" /\ work'[h] = work[h] /\ mem'[h] = row
           /\ unsaved'[h] = flushed /\ purchaseLock'[work[h]] = h
           /\ \A p \in Purchases : purchaseLock[p] # NoOne => purchaseLock'[p] = purchaseLock[p]
<1>1. SessionTypes /\ LockTypes
  BY TypesTogether DEF IInv
<1>2. SessionTypes'
  BY <1>1 DEF SessionTypes, TakeRow, Goto, PcStates
<1>3. OnlyMoves(h)
  BY <1>1 DEF SessionTypes, OnlyMoves, TakeRow, Goto
<1>4. /\ pc'[h] = "locked" /\ work'[h] = work[h] /\ mem'[h] = row
      /\ unsaved'[h] = flushed
  BY <1>1 DEF SessionTypes, TakeRow, Goto
<1>5. /\ LockTypes' /\ purchaseLock'[work[h]] = h
      /\ \A p \in Purchases : purchaseLock[p] # NoOne => purchaseLock'[p] = purchaseLock[p]
  BY <1>1 DEF LockTypes, TakeRow, Free
<1> QED BY <1>2, <1>3, <1>4, <1>5

(* A step that leaves the tables alone. *)
LEMMA QuietTables ==
    ASSUME IInv, UNCHANGED <<money, rows, granted, recorded>>
    PROVE  TableTypes' /\ TablesOK' /\ Lasting
<1>1. TableTypes /\ TablesOK
  BY TypesTogether DEF IInv
<1> QED BY <1>1 DEF TableTypes, TablesOK, NothingForNothing, DeliveredMeansGranted, Lasting,
                    money, rows

(* A step that writes nothing but what belongs to one purchase that is backed. *)
WritesFor(q) ==
    /\ q \in Backed \cap Purchases
    /\ TableTypes'
    /\ provider' = provider
    /\ settled' \subseteq settled \cup {q}
    /\ \A p \in Purchases \ {q} :
          /\ status'[p] = status[p] /\ owner'[p] = owner[p]
          /\ granted'[p] = granted[p] /\ recorded'[p] = recorded[p]
    /\ status'[q] # "none"
    /\ status'[q] = "delivered" => granted'[q] > 0 /\ owner'[q] # NoOne
    /\ granted[q] > 0 => granted'[q] > 0
    /\ q \in CodeGifts /\ owner[q] # NoOne => owner'[q] = owner[q]

(* Such a step keeps the tables in order. *)
LEMMA WriteKeepsTables ==
    ASSUME IInv, NEW q, WritesFor(q)
    PROVE  TablesOK' /\ Lasting
<1> USE ConstantsAssumption
<1>1. TableTypes /\ TablesOK
  BY TypesTogether DEF IInv
<1>2. settled' \subseteq provider' /\ \A p \in provider' : status'[p] # "none"
  BY <1>1 DEF TableTypes, TablesOK, WritesFor, Backed
<1>3. NothingForNothing'
  BY <1>1 DEF TableTypes, TablesOK, WritesFor, Backed, NothingForNothing
<1>4. DeliveredMeansGranted'
  BY <1>1 DEF TableTypes, TablesOK, WritesFor, DeliveredMeansGranted
<1>5. Lasting
  BY <1>1 DEF TableTypes, WritesFor, Lasting
<1> QED BY <1>2, <1>3, <1>4, <1>5 DEF TablesOK

-----------------------------------------------------------------------------
(***************************************************************************)
(* The actions outside of a session, and those that start one.             *)
(***************************************************************************)

(* No session moves: all of them know what they knew. *)
LEMMA AllKnow ==
    ASSUME IInv, UNCHANGED <<pc, work, mem, unsaved, renewed, purchaseLock>>,
           \A p \in Purchases : status[p] # "none" => status'[p] = status[p],
           UNCHANGED <<owner, granted>>, provider \subseteq provider'
    PROVE  \A g \in Workers : SessionOK(g)'
<1> USE ConstantsAssumption
<1>1. OnlyMoves(NoOne) /\ RespectsLocks(NoOne) /\ Lasting /\ NoOne \notin Workers
  BY DEF OnlyMoves, RespectsLocks, Lasting
<1> QED BY <1>1, OthersKnow

(* One lemma per action, or per group of actions of one shape. *)
LEMMA CreatePurchaseStep ==
    ASSUME IInv, NEW p \in Purchases, CreatePurchase(p) PROVE IInv'
<1>1. /\ TypeOK /\ TablesOK
      /\ status[p] = "none" /\ status' = [status EXCEPT ![p] = "pending"]
      /\ UNCHANGED <<money, owner, retries, subs, recorded, locks, pc, session, faults>>
  BY DEF IInv, CreatePurchase
<1>2. TypeOK'
  BY <1>1 DEF TypeOK, Statuses, money, subs, locks, session
<1>3. TablesOK'
  BY <1>1 DEF TypeOK, TablesOK, NothingForNothing, DeliveredMeansGranted, money, subs
<1>4. \A g \in Workers : SessionOK(g)'
  BY <1>1, AllKnow DEF TypeOK, money, subs, locks, session
<1> QED BY <1>2, <1>3, <1>4 DEF IInv

(* The provider takes the money for a purchase that exists. *)
LEMMA ProviderPaysStep ==
    ASSUME IInv, NEW p \in Purchases, ProviderPays(p) PROVE IInv'
<1>1. /\ TypeOK /\ TablesOK
      /\ status[p] # "none" /\ provider' = provider \cup {p}
      /\ UNCHANGED <<settled, rows, retries, subs, recorded, locks, pc, session, faults>>
  BY DEF IInv, ProviderPays
<1>2. TypeOK'
  BY <1>1 DEF TypeOK, rows, subs, locks, session
<1>3. TablesOK'
  BY <1>1 DEF TypeOK, TablesOK, NothingForNothing, DeliveredMeansGranted, rows, subs
<1>4. \A g \in Workers : SessionOK(g)'
  BY <1>1, AllKnow DEF rows, subs, locks, session
<1> QED BY <1>2, <1>3, <1>4 DEF IInv

(* Time passes. *)
LEMMA PeriodEndsStep ==
    ASSUME IInv, NEW u \in Users, PeriodEnds(u) PROVE IInv'
<1>1. /\ TypeOK /\ TablesOK
      /\ sub' = [sub EXCEPT ![u].hasTime = FALSE]
      /\ UNCHANGED <<money, rows, retries, granted, recorded, locks, pc, session, faults>>
  BY DEF IInv, PeriodEnds
<1>2. TypeOK'
  <2>1. sub \in [Users -> SubType]
    BY <1>1 DEF TypeOK
  <2>2. [sub[u] EXCEPT !.hasTime = FALSE] \in SubType
    BY <2>1 DEF SubType
  <2>3. sub' \in [Users -> SubType]
    BY <1>1, <2>1, <2>2
  <2> QED BY <1>1, <2>3 DEF TypeOK, money, rows, locks, session
<1>3. TablesOK'
  BY <1>1, QuietTables
<1>4. \A g \in Workers : SessionOK(g)'
  BY <1>1, AllKnow DEF money, rows, locks, session
<1> QED BY <1>2, <1>3, <1>4 DEF IInv

(* Whoever starts on a purchase, without touching its row. *)
LEMMA EnterStep ==
    ASSUME IInv, NEW h \in Workers, NEW p \in Purchases, NEW row \in RowType,
           NEW label \in {"recovering", "retrying", "failing", "entering"},
           Enter(h, p, row, label),
           label = "retrying" => p \notin CodeGifts,
           label = "entering" /\ row.status = "pending_activation" => p \in Backed,
           label = "entering" /\ p \in CodeGifts /\ row.owner # NoOne => owner[p] = row.owner,
           UNCHANGED <<money, rows, subs, recorded, locks, faults>>,
           retries' \in [Purchases -> 0..MaxRetries]
    PROVE  IInv'
<1>1. TypeOK /\ label \in PcStates
  BY DEF IInv, PcStates
<1>2. /\ SessionTypes' /\ OnlyMoves(h)
      /\ pc'[h] = label /\ work'[h] = p /\ mem'[h] = row /\ ~ unsaved'[h]
  BY <1>1, EnterOn
<1>3. TableTypes' /\ TablesOK' /\ Lasting
  BY QuietTables DEF subs
<1>4. TypeOK'
  BY <1>1, <1>2, <1>3 DEF TypeOK, SessionTypes, TableTypes, locks, subs
<1>5. RespectsLocks(h)
  BY DEF RespectsLocks, locks, rows
<1>6. SessionOK(h)'
  BY <1>2 DEF SessionOK, AtWork, Delivering, Activates, Backed, money, rows
<1> QED BY <1>2, <1>3, <1>4, <1>5, <1>6, Assemble

(* The monitor picks a purchase and counts the attempt. *)
LEMMA MonitorPicks ==
    ASSUME IInv, NEW p \in Purchases, Pick(p) PROVE IInv'
<1> USE ConstantsAssumption
<1>1. TypeOK /\ Monitor \in Workers /\ NoRow \in RowType
  BY EmptyTypes DEF IInv, Workers
<1>2. NoRow.status # "pending_activation" /\ NoRow.owner = NoOne
  BY DEF NoRow
<1>3. CASE PickPending(p)
  BY <1>1, <1>2, <1>3, EnterStep DEF PickPending, TypeOK
<1>4. CASE RetryPaid(p)
  <2>1. retries' \in [Purchases -> 0..MaxRetries]
    BY <1>1, <1>4 DEF RetryPaid, TypeOK
  <2> QED BY <1>1, <1>2, <1>4, <2>1, EnterStep DEF RetryPaid
<1>5. CASE RetryActivation(p)
  <2>1. retries' \in [Purchases -> 0..MaxRetries]
    BY <1>1, <1>5 DEF RetryActivation, TypeOK
  <2> QED BY <1>1, <1>2, <1>5, <2>1, EnterStep DEF RetryActivation
<1>6. CASE PickExhausted(p)
  BY <1>1, <1>2, <1>6, EnterStep DEF PickExhausted, TypeOK
<1> QED BY <1>3, <1>4, <1>5, <1>6 DEF Pick

(* A recipient opens the link or presses the button. *)
LEMMA ActivatorOpens ==
    ASSUME IInv, NEW a \in Activators, NEW p \in Purchases,
           OpenActivationLink(a, p) \/ PressGiftButton(a, p)
    PROVE  IInv'
<1> USE ConstantsAssumption
<1>1. TypeOK /\ TablesOK /\ a \in Workers
  BY DEF IInv, Workers
<1>2. CASE OpenActivationLink(a, p)
  BY <1>1, <1>2, EmptyTypes, EnterStep DEF OpenActivationLink, TypeOK, NoRow
<1>3. CASE PressGiftButton(a, p)
  <2>1. Row(p) \in RowType /\ Row(p).status = status[p] /\ Row(p).owner = owner[p]
    BY <1>1 DEF TypeOK, Row, RowType
  <2>2. status[p] = "pending_activation" => p \in Backed
    BY <1>1 DEF TablesOK, NothingForNothing, Backed
  <2> QED BY <1>1, <1>3, <2>1, <2>2, EnterStep DEF PressGiftButton, TypeOK
<1> QED BY <1>2, <1>3

(* A callback comes only for what the provider took money for. *)
LEMMA ReceiveWebhookStep ==
    ASSUME IInv, NEW w \in Webhooks, NEW p \in Purchases, ReceiveWebhook(w, p)
    PROVE  IInv'
<1> USE ConstantsAssumption
<1>1. /\ TypeOK /\ TablesOK /\ w \in Workers
      /\ p \in provider /\ Enter(w, p, NoRow, "received")
      /\ settled' = IF p \in SettlesFirst THEN settled \cup {p} ELSE settled
      /\ UNCHANGED <<provider, rows, retries, subs, recorded, locks, faults>>
  BY DEF IInv, Workers, ReceiveWebhook
<1>2. /\ SessionTypes' /\ OnlyMoves(w)
      /\ pc'[w] = "received" /\ work'[w] = p /\ ~ unsaved'[w]
  BY <1>1, EnterOn, EmptyTypes DEF PcStates
<1>3. TypeOK' /\ TablesOK' /\ RespectsLocks(w) /\ Lasting
  <2>1. TypeOK'
    BY <1>1, <1>2 DEF TypeOK, SessionTypes, rows, subs, locks
  <2>2. TablesOK' /\ RespectsLocks(w) /\ Lasting
    BY <1>1 DEF TablesOK, NothingForNothing, DeliveredMeansGranted, RespectsLocks, Lasting,
                rows, subs, locks
  <2> QED BY <2>1, <2>2
<1>4. SessionOK(w)'
  BY <1>1, <1>2 DEF SessionOK, AtWork, Delivering
<1> QED BY <1>1, <1>2, <1>3, <1>4, Assemble

-----------------------------------------------------------------------------
(***************************************************************************)
(* What is decided at once under the purchase's lock.                      *)
(***************************************************************************)

(* The purchase is paid, given up, or left as it is. *)
Decides(q) ==
    /\ settled' \subseteq provider
    /\ status' \in [Purchases -> Statuses]
    /\ \A p \in Purchases \ {q} : status'[p] = status[p]
    /\ \/ status'[q] = status[q]
       \/ status'[q] = "failed"
       \/ status'[q] = "paid" /\ q \in Backed

(* A decision with which the session leaves. *)
LEMMA AnswerStep ==
    ASSUME IInv, NEW h \in Workers, NEW q \in Purchases, Free(q), Leave(h, "idle"),
           Decides(q),
           UNCHANGED <<provider, owner, retries, subs, recorded, locks, faults>>
    PROVE  IInv'
<1>1. TypeOK /\ TablesOK /\ SessionTypes
  BY TypesTogether DEF IInv
<1>2. SessionTypes' /\ OnlyMoves(h) /\ SessionOK(h)'
  BY <1>1, LeaveIdle
<1>3. TypeOK'
  <2>1. status' \in [Purchases -> Statuses] /\ settled' \subseteq Purchases
    BY <1>1 DEF TypeOK, Decides
  <2> QED BY <1>1, <1>2, <2>1 DEF TypeOK, SessionTypes, subs, locks
<1>4. RespectsLocks(h)
  BY <1>1 DEF TypeOK, RespectsLocks, Free, Decides, locks
<1>5. TablesOK' /\ Lasting
  <2>1. settled' \subseteq provider' /\ \A p \in provider' : status'[p] # "none"
    BY <1>1 DEF TypeOK, TablesOK, Decides
  <2>2. NothingForNothing' /\ DeliveredMeansGranted'
    BY <1>1 DEF TypeOK, TablesOK, NothingForNothing, DeliveredMeansGranted, Backed,
                Decides, subs
  <2> QED BY <2>1, <2>2 DEF TablesOK, Lasting, subs
<1> QED BY <1>2, <1>3, <1>4, <1>5, Assemble

(* The webhook that needs not deliver. *)
LEMMA WebhookAnswersStep ==
    ASSUME IInv, NEW w \in Webhooks, WebhookAnswers(w) PROVE IInv'
<1> DEFINE p == work[w]
<1>1. /\ Free(p) /\ Leave(w, "idle") /\ pc[w] = "received"
      /\ UNCHANGED <<provider, owner, retries, subs, recorded, locks, faults>>
  BY DEF WebhookAnswers
<1>2. w \in Workers /\ p \in provider /\ p \in Purchases
  BY <1>1 DEF IInv, SessionOK, Workers
<1>3. settled' = settled \/ settled' = settled \cup {p}
  BY DEF WebhookAnswers
<1>4. \/ status' = status
      \/ status' = [status EXCEPT ![p] = "failed"]
      \/ status' = [status EXCEPT ![p] = "paid"] /\ p \in CodeGifts \ Mismatched
  BY DEF WebhookAnswers
<1>5. p \in CodeGifts \ Mismatched => p \in Backed
  BY <1>2 DEF Backed
<1>6. Decides(p)
  BY <1>2, <1>3, <1>4, <1>5 DEF IInv, TypeOK, TablesOK, Decides, Statuses
<1> QED BY <1>1, <1>2, <1>6, AnswerStep

(* The webhook's fallback. *)
LEMMA RequeueStep ==
    ASSUME IInv, NEW w \in Webhooks, Requeue(w) PROVE IInv'
<1> DEFINE p == work[w]
<1>1. /\ Free(p) /\ Leave(w, "idle") /\ pc[w] = "requeue"
      /\ status' = status \/ status' = [status EXCEPT ![p] = "paid"]
      /\ UNCHANGED <<money, owner, retries, subs, recorded, locks, faults>>
  BY DEF Requeue
<1>2. w \in Workers /\ p \in Backed /\ p \in Purchases
  BY <1>1 DEF IInv, SessionOK, Workers
<1>3. Decides(p)
  BY <1>1, <1>2 DEF IInv, TypeOK, TablesOK, Decides, Statuses, money
<1> QED BY <1>1, <1>2, <1>3, AnswerStep DEF money

(* The recovery and the end of the retries. *)
LEMMA MonitorDecides ==
    ASSUME IInv, Recover \/ FailExhausted PROVE IInv'
<1> DEFINE p == work[Monitor]
<1>1. /\ Free(p) /\ Leave(Monitor, "idle") /\ pc[Monitor] \in {"recovering", "failing"}
      /\ UNCHANGED <<money, owner, retries, subs, recorded, locks, faults>>
  BY DEF Recover, FailExhausted
<1>2. Monitor \in Workers /\ p \in Purchases
  BY <1>1 DEF IInv, SessionOK, Workers
<1>3. \/ status' = status
      \/ status' = [status EXCEPT ![p] = "failed"]
      \/ status' = [status EXCEPT ![p] = "paid"] /\ p \in settled \ Mismatched
  BY DEF Recover, FailExhausted
<1>4. p \in settled \ Mismatched => p \in Backed
  BY DEF IInv, TablesOK, Backed
<1>5. Decides(p)
  BY <1>1, <1>2, <1>3, <1>4 DEF IInv, TypeOK, TablesOK, Decides, Statuses, money
<1> QED BY <1>1, <1>2, <1>5, AnswerStep DEF money

-----------------------------------------------------------------------------
(***************************************************************************)
(* The purchase's lock is taken for a delivery.                            *)
(***************************************************************************)

(* What a session must have read to go on to deliver. *)
MayDeliver(q, row) ==
    /\ q \in Backed
    /\ \/ row.status = "paid" /\ q \notin CodeGifts
       \/ row.status = "pending_activation" /\ row.owner \in Users

(* The delivery begins under the lock. *)
LEMMA TakeStep ==
    ASSUME IInv, NEW h \in Workers, NEW row \in RowType, NEW flushed \in BOOLEAN,
           work[h] \in Purchases, Free(work[h]), TakeRow(h, row, flushed),
           MayDeliver(work[h], row),
           flushed /\ row.status = "paid" => status[work[h]] \in {"pending", "paid"},
           work[h] \in CodeGifts => owner[work[h]] = row.owner,
           UNCHANGED <<money, rows, retries, subs, recorded, faults>>
    PROVE  IInv'
<1>1. /\ SessionTypes' /\ LockTypes' /\ OnlyMoves(h)
      /\ pc'[h] = "locked" /\ work'[h] = work[h] /\ mem'[h] = row
      /\ unsaved'[h] = flushed /\ purchaseLock'[work[h]] = h
      /\ \A p \in Purchases : purchaseLock[p] # NoOne => purchaseLock'[p] = purchaseLock[p]
  BY TakenRow
<1>2. TableTypes' /\ TablesOK' /\ Lasting
  BY QuietTables DEF subs
<1>3. TypeOK'
  BY <1>1, <1>2 DEF IInv, TypeOK, SessionTypes, LockTypes, TableTypes, subs
<1>4. RespectsLocks(h)
  BY <1>1 DEF RespectsLocks, rows
<1>5. SessionOK(h)'
  BY <1>1 DEF SessionOK, Delivering, AtWork, Fulfils, Activates, MayDeliver, Backed,
              money, rows
<1> QED BY <1>1, <1>2, <1>3, <1>4, <1>5, Assemble

(* The webhook that delivers has found an unanswered, backed purchase. *)
LEMMA WebhookFulfilsStep ==
    ASSUME IInv, NEW w \in Webhooks, WebhookFulfils(w) PROVE IInv'
<1> DEFINE p == work[w]
           row == [status |-> "paid", owner |-> owner[p]]
<1>1. /\ pc[w] = "received" /\ Free(p)
      /\ ~ Answered(p) /\ p \notin CodeGifts \cup Mismatched
      /\ TakeRow(w, row, TRUE)
      /\ UNCHANGED <<money, rows, retries, subs, recorded, faults>>
  BY DEF WebhookFulfils
<1>2. w \in Workers /\ p \in Purchases /\ p \in Backed
  BY <1>1 DEF IInv, SessionOK, Workers, Backed
<1>3. row \in RowType /\ row.status = "paid"
  BY <1>2 DEF IInv, TypeOK, RowType, Statuses
<1>4. status[p] \in {"pending", "paid"}
  BY <1>1, <1>2 DEF IInv, TypeOK, TablesOK, Answered, Statuses, Backed
<1> QED BY <1>1, <1>2, <1>3, <1>4, TakeStep DEF MayDeliver

(* A session that finds nothing to do leaves. *)
LEMMA TurnedAway ==
    ASSUME IInv, NEW h \in Workers, Leave(h, "idle"),
           UNCHANGED <<money, rows, retries, subs, recorded, locks, faults>>
    PROVE  IInv'
<1>1. SessionTypes
  BY TypesTogether DEF IInv
<1>2. SessionTypes' /\ OnlyMoves(h) /\ SessionOK(h)'
  BY <1>1, LeaveIdle
<1>3. TableTypes' /\ TablesOK' /\ Lasting
  BY QuietTables DEF subs
<1>4. TypeOK'
  BY <1>2, <1>3 DEF IInv, TypeOK, SessionTypes, TableTypes, subs, locks
<1>5. RespectsLocks(h)
  BY DEF RespectsLocks, rows, locks
<1> QED BY <1>2, <1>3, <1>4, <1>5, Assemble

(* The monitor retries only what is still paid, and never a gift code. *)
LEMMA RetryFulfilsStep ==
    ASSUME IInv, RetryFulfils PROVE IInv'
<1>1. CASE Leave(Monitor, "idle") /\ UNCHANGED locks
  BY <1>1, TurnedAway DEF RetryFulfils, Workers
<1>2. CASE status[work[Monitor]] = "paid" /\ TakeRow(Monitor, Row(work[Monitor]), FALSE)
  <2> DEFINE p == work[Monitor]
  <2>1. Monitor \in Workers /\ pc[Monitor] = "retrying" /\ p \in Purchases \ CodeGifts
    BY DEF IInv, SessionOK, Workers, RetryFulfils
  <2>2. Row(p) \in RowType /\ Row(p).status = "paid"
    BY <1>2, <2>1 DEF IInv, TypeOK, RowType, Row
  <2>3. p \in Backed
    BY <1>2, <2>1 DEF IInv, TablesOK, NothingForNothing, Backed
  <2> QED BY <1>2, <2>1, <2>2, <2>3, TakeStep DEF RetryFulfils, MayDeliver
<1> QED BY <1>1, <1>2 DEF RetryFulfils

(* The lock without populate_existing: what the session has read may be old, but
   what it relies on has not changed since. *)
LEMMA EnterActivationStep ==
    ASSUME IInv, NEW h \in Workers, EnterActivation(h) PROVE IInv'
<1> USE ConstantsAssumption
<1> DEFINE q == work[h]
           row == IF mem[h] = NoRow THEN Row(q) ELSE mem[h]
<1>1. CASE Leave(h, "idle") /\ UNCHANGED locks
  BY <1>1, TurnedAway DEF EnterActivation
<1>2. CASE row.status = "pending_activation" /\ row.owner # NoOne /\ TakeRow(h, row, FALSE)
  <2>1. pc[h] = "entering" /\ q \in Purchases /\ Free(q)
    BY DEF IInv, SessionOK, EnterActivation
  <2>2. CASE mem[h] = NoRow
    <3>1. row = Row(q) /\ row \in RowType /\ row.status = status[q] /\ row.owner = owner[q]
      BY <2>1, <2>2 DEF IInv, TypeOK, RowType, Row
    <3>2. q \in Backed /\ row.owner \in Users
      BY <1>2, <2>1, <3>1 DEF IInv, TypeOK, TablesOK, NothingForNothing, Backed
    <3> QED BY <1>2, <2>1, <3>1, <3>2, TakeStep DEF EnterActivation, MayDeliver
  <2>3. CASE mem[h] # NoRow
    <3>1. row = mem[h] /\ row \in RowType /\ row.owner \in Users
      BY <1>2, <2>3 DEF IInv, TypeOK, RowType
    <3>2. q \in Backed /\ (q \in CodeGifts => owner[q] = row.owner)
      BY <1>2, <2>1, <3>1 DEF IInv, SessionOK, Activates
    <3> QED BY <1>2, <2>1, <3>1, <3>2, TakeStep DEF EnterActivation, MayDeliver
  <2> QED BY <2>2, <2>3
<1> QED BY <1>1, <1>2 DEF EnterActivation

(* Whoever redeems a code holds its lock and is its owner from here on. *)
LEMMA RedeemCodeStep ==
    ASSUME IInv, NEW a \in Activators, NEW p \in Purchases, NEW u \in Users,
           RedeemCode(a, p, u)
    PROVE  IInv'
<1> USE ConstantsAssumption
<1> DEFINE row == [status |-> "pending_activation", owner |-> u]
<1>1. /\ pc[a] = "idle" /\ Free(p) /\ owner[p] \in {NoOne, u}
      /\ status[p] \in {"paid", "pending_activation"}
      /\ purchaseLock' = [purchaseLock EXCEPT ![p] = a]
      /\ work' = [work EXCEPT ![a] = p]
      /\ mem' = [mem EXCEPT ![a] = row]
      /\ unsaved' = [unsaved EXCEPT ![a] = TRUE]
      /\ pc' = [pc EXCEPT ![a] = "locked"]
      /\ UNCHANGED <<money, rows, retries, subs, recorded, subLock, copy, renewed, faults>>
  BY DEF RedeemCode, Goto
<1>2. TypeOK /\ TablesOK /\ a \in Workers /\ row \in RowType
  BY DEF IInv, Workers, RowType, Statuses
<1>3. p \in Backed
  BY <1>1, <1>2 DEF TablesOK, NothingForNothing, Backed
<1>4. TableTypes' /\ TablesOK' /\ Lasting
  BY <1>1, QuietTables DEF subs
<1>5. TypeOK'
  BY <1>1, <1>2 DEF TypeOK, PcStates, money, rows, subs
<1>6. OnlyMoves(a) /\ RespectsLocks(a)
  BY <1>1, <1>2 DEF TypeOK, OnlyMoves, RespectsLocks, Free, rows
<1>7. /\ pc'[a] = "locked" /\ work'[a] = p /\ mem'[a] = row
      /\ unsaved'[a] /\ purchaseLock'[p] = a
  BY <1>1, <1>2 DEF TypeOK
<1>8. SessionOK(a)'
  BY <1>1, <1>3, <1>7 DEF SessionOK, Delivering, AtWork, Fulfils, Activates, Backed,
                         money, rows
<1> QED BY <1>2, <1>4, <1>5, <1>6, <1>8, Assemble

-----------------------------------------------------------------------------
(***************************************************************************)
(* fulfill_purchase and activate_purchase.                                 *)
(***************************************************************************)

(* What is being delivered is paid for and goes to a user. *)
LEMMA DeliveryKnown ==
    ASSUME IInv, NEW h \in Workers, pc[h] \in Delivering
    PROVE  /\ work[h] \in Purchases /\ work[h] \in Backed
           /\ UserOf(h) \in Users /\ UserOf(h) # NoOne
           /\ mem[h] \in RowType /\ mem[h].status \in {"paid", "pending_activation"}
           /\ work[h] \in CodeGifts => Activates(h) /\ ~ Fulfils(h) /\ UserOf(h) = mem[h].owner
<1> USE ConstantsAssumption
<1>1. TypeOK /\ SessionOK(h)
  BY DEF IInv
<1>2. work[h] \in Purchases /\ work[h] \in Backed
  BY <1>1 DEF SessionOK, AtWork, Delivering
<1>3. \/ Fulfils(h) /\ work[h] \notin CodeGifts
      \/ Activates(h) /\ mem[h].owner \in Users
  BY <1>1 DEF SessionOK
<1>4. mem[h] \in RowType
  BY <1>1 DEF TypeOK
<1> QED BY <1>2, <1>3, <1>4 DEF UserOf, Fulfils, Activates

(* The row of one purchase, and the payment row with it. *)
LEMMA RowWritten ==
    ASSUME TypeOK, NEW h \in Workers, NEW row \in RowType, work[h] \in Purchases,
           WriteRow(h, row)
    PROVE  /\ status' \in [Purchases -> Statuses]
           /\ owner' \in [Purchases -> Users \cup {NoOne}]
           /\ provider' = provider /\ settled' \subseteq settled \cup {work[h]}
           /\ status'[work[h]] = row.status /\ owner'[work[h]] = row.owner
           /\ \A p \in Purchases \ {work[h]} : status'[p] = status[p] /\ owner'[p] = owner[p]
BY DEF TypeOK, WriteRow, RowType

(* What a session has flushed is under its lock and never says "delivered". *)
LEMMA FlushedWritten ==
    ASSUME IInv, NEW h \in Workers, pc[h] \in Delivering, WriteFlushed(h)
    PROVE  /\ status' \in [Purchases -> Statuses]
           /\ owner' \in [Purchases -> Users \cup {NoOne}]
           /\ provider' = provider /\ settled' \subseteq settled \cup {work[h]}
           /\ status'[work[h]] # "none"
           /\ \/ /\ unsaved[h] /\ purchaseLock[work[h]] = h
                 /\ status'[work[h]] = mem[h].status /\ owner'[work[h]] = mem[h].owner
              \/ /\ ~ unsaved[h]
                 /\ status'[work[h]] = status[work[h]] /\ owner'[work[h]] = owner[work[h]]
           /\ \A p \in Purchases \ {work[h]} : status'[p] = status[p] /\ owner'[p] = owner[p]
<1>1. /\ TypeOK /\ SessionOK(h) /\ work[h] \in Purchases
      /\ work[h] \in provider /\ mem[h] \in RowType /\ mem[h].status # "none"
  BY DeliveryKnown DEF IInv, Backed
<1>2. CASE unsaved[h]
  <2>1. WriteRow(h, mem[h]) /\ purchaseLock[work[h]] = h
    BY <1>1, <1>2 DEF WriteFlushed, SessionOK
  <2> QED BY <1>1, <1>2, <2>1, RowWritten
<1>3. CASE ~ unsaved[h]
  <2>1. UNCHANGED <<money, rows>> /\ status[work[h]] # "none"
    BY <1>1, <1>3 DEF WriteFlushed, IInv, TablesOK
  <2> QED BY <1>1, <1>3, <2>1 DEF TypeOK, money, rows
<1>4. unsaved[h] \in BOOLEAN
  BY <1>1 DEF TypeOK
<1> QED BY <1>2, <1>3, <1>4

(* A period that is flushed becomes one. *)
LEMMA SubWritten ==
    ASSUME TypeOK, NEW h \in Workers, work[h] \in Purchases, WriteSub(h)
    PROVE  /\ sub' \in [Users -> SubType]
           /\ granted' \in [Purchases -> Nat]
           /\ granted'[work[h]] >= granted[work[h]]
           /\ renewed[h] => granted'[work[h]] > 0
           /\ \A p \in Purchases \ {work[h]} : granted'[p] = granted[p]
<1>1. Renewed(copy[h]) \in SubType
  BY DEF TypeOK, SubType, Renewed
<1>2. CASE renewed[h]
  <2>1. sub' \in [Users -> SubType]
    BY <1>1, <1>2 DEF TypeOK, WriteSub
  <2>2. granted' = [granted EXCEPT ![work[h]] = @ + 1] /\ granted \in [Purchases -> Nat]
    BY <1>2 DEF TypeOK, WriteSub
  <2> QED BY <2>1, <2>2
<1>3. CASE ~ renewed[h]
  BY <1>3 DEF TypeOK, WriteSub, subs
<1> QED BY <1>2, <1>3

(* The session's own variables after it has moved on. *)
LEMMA MovedOn ==
    ASSUME SessionTypes, NEW h \in Workers, NEW label \in PcStates, Goto(h, label),
           Clean(h), UNCHANGED <<work, mem>>
    PROVE  /\ pc' \in [Workers -> PcStates]
           /\ unsaved' \in [Workers -> BOOLEAN] /\ renewed' \in [Workers -> BOOLEAN]
           /\ OnlyMoves(h)
           /\ pc'[h] = label /\ ~ unsaved'[h] /\ ~ renewed'[h]
BY DEF SessionTypes, Goto, Clean, OnlyMoves

(* Every lock that is neither free nor of this session stays where it is. *)
KeepsLocks(h) == \A p \in Purchases :
    purchaseLock[p] \notin {NoOne, h} => purchaseLock'[p] = purchaseLock[p]

(* The commit of what is flushed, with or without a period. *)
LEMMA FlushKeepsTables ==
    ASSUME IInv, NEW h \in Workers, pc[h] \in Delivering, WriteFlushed(h), KeepsLocks(h),
           granted' \in [Purchases -> Nat], granted'[work[h]] >= granted[work[h]],
           \A p \in Purchases \ {work[h]} : granted'[p] = granted[p],
           UNCHANGED recorded
    PROVE  /\ TableTypes' /\ TablesOK' /\ Lasting /\ RespectsLocks(h)
           /\ work[h] \in CodeGifts => owner'[work[h]] = mem[h].owner
<1> DEFINE q == work[h]
<1>1. TypeOK /\ TablesOK /\ SessionOK(h)
  BY DEF IInv
<1>2. /\ q \in Purchases /\ q \in Backed
      /\ mem[h].status \in {"paid", "pending_activation"}
  BY DeliveryKnown
<1>3. /\ status' \in [Purchases -> Statuses]
      /\ owner' \in [Purchases -> Users \cup {NoOne}]
      /\ provider' = provider /\ settled' \subseteq settled \cup {q}
      /\ status'[q] # "none"
      /\ \/ /\ unsaved[h] /\ purchaseLock[q] = h
            /\ status'[q] = mem[h].status /\ owner'[q] = mem[h].owner
         \/ /\ ~ unsaved[h]
            /\ status'[q] = status[q] /\ owner'[q] = owner[q]
      /\ \A p \in Purchases \ {q} : status'[p] = status[p] /\ owner'[p] = owner[p]
  BY FlushedWritten
<1>4. TableTypes'
  BY <1>1, <1>2, <1>3 DEF TypeOK, TableTypes, Backed
<1>5. status'[q] = "delivered" => granted'[q] > 0 /\ owner'[q] # NoOne
  BY <1>1, <1>2, <1>3 DEF TypeOK, TablesOK, DeliveredMeansGranted
<1>6. q \in CodeGifts => owner'[q] = mem[h].owner
  BY <1>1, <1>3 DEF SessionOK
<1>7. q \in CodeGifts /\ owner[q] # NoOne => owner'[q] = owner[q]
  BY <1>1, <1>3 DEF SessionOK
<1>8. granted[q] > 0 => granted'[q] > 0
  BY <1>1, <1>2 DEF TypeOK
<1>9. WritesFor(q)
  BY <1>2, <1>3, <1>4, <1>5, <1>7, <1>8 DEF WritesFor
<1>10. RespectsLocks(h)
  BY <1>3 DEF RespectsLocks, KeepsLocks
<1> QED BY <1>4, <1>6, <1>9, <1>10, WriteKeepsTables

(* The recipient's subscription is read. *)
LEMMA LoadSubscriptionStep ==
    ASSUME IInv, NEW h \in Workers, LoadSubscription(h) PROVE IInv'
<1>1. /\ TypeOK /\ SessionOK(h) /\ pc[h] = "locked"
      /\ copy' = [copy EXCEPT ![h] = sub[UserOf(h)]] /\ pc' = [pc EXCEPT ![h] = "loaded"]
      /\ UNCHANGED <<money, rows, retries, subs, recorded, locks, work, mem, unsaved,
                     renewed, faults>>
  BY DEF IInv, LoadSubscription, Goto
<1>2. sub[UserOf(h)] \in SubType
  BY <1>1, DeliveryKnown DEF TypeOK, Delivering
<1>3. TypeOK'
  BY <1>1, <1>2 DEF TypeOK, PcStates, money, rows, subs, locks
<1>4. TablesOK' /\ Lasting
  BY <1>1, QuietTables DEF subs
<1>5. OnlyMoves(h) /\ RespectsLocks(h) /\ pc'[h] = "loaded"
  BY <1>1 DEF TypeOK, OnlyMoves, RespectsLocks, rows, locks
<1>6. SessionOK(h)'
  BY <1>1, <1>5 DEF SessionOK, AtWork, Delivering, Fulfils, Activates, Backed,
                    money, rows, subs, locks
<1> QED BY <1>3, <1>4, <1>5, <1>6, Assemble

(* The commit of an expired status saves the row and loses its lock. *)
LEMMA LoadExpiredStep ==
    ASSUME IInv, NEW h \in Workers, LoadExpired(h) PROVE IInv'
<1> DEFINE q == work[h]
<1>1. /\ TypeOK /\ SessionTypes /\ LockTypes /\ SessionOK(h) /\ pc[h] \in Delivering
      /\ pc[h] = "locked"
      /\ sub' = [sub EXCEPT ![UserOf(h)].row = "expired"]
      /\ copy' = [copy EXCEPT ![h] = sub'[UserOf(h)]]
      /\ WriteFlushed(h) /\ Unlock(h) /\ Clean(h) /\ Goto(h, "loaded")
      /\ UNCHANGED <<retries, granted, recorded, work, mem, faults>>
  BY TypesTogether DEF IInv, LoadExpired, Delivering
<1>2. /\ q \in Purchases /\ q \in Backed /\ UserOf(h) \in Users
      /\ q \in CodeGifts => Activates(h) /\ UserOf(h) = mem[h].owner
      /\ mem[h].status \in {"paid", "pending_activation"}
  BY <1>1, DeliveryKnown
<1>3. /\ pc' \in [Workers -> PcStates]
      /\ unsaved' \in [Workers -> BOOLEAN] /\ renewed' \in [Workers -> BOOLEAN]
      /\ OnlyMoves(h)
      /\ pc'[h] = "loaded" /\ ~ unsaved'[h]
  BY <1>1, MovedOn DEF PcStates
<1>4. /\ LockTypes'
      /\ \A p \in Purchases : purchaseLock[p] # h => purchaseLock'[p] = purchaseLock[p]
  BY <1>1, Unlocked
<1>5. sub' \in [Users -> SubType] /\ copy' \in [Workers -> SubType]
  <2>1. sub \in [Users -> SubType] /\ copy \in [Workers -> SubType]
    BY DEF IInv, TypeOK
  <2>2. [sub[UserOf(h)] EXCEPT !.row = "expired"] \in SubType
    BY <1>2, <2>1 DEF SubType
  <2>3. sub' \in [Users -> SubType]
    BY <1>1, <2>1, <2>2
  <2> QED BY <1>1, <1>2, <2>1, <2>3
<1>6. /\ TableTypes' /\ TablesOK' /\ Lasting /\ RespectsLocks(h)
      /\ q \in CodeGifts => owner'[q] = mem[h].owner
  BY <1>1, <1>2, <1>4, FlushKeepsTables DEF KeepsLocks, TypeOK
<1>7. TypeOK'
  BY <1>1, <1>3, <1>4, <1>5, <1>6 DEF TypeOK, TableTypes, LockTypes
<1>8. SessionOK(h)'
  BY <1>1, <1>2, <1>3, <1>6 DEF SessionOK, AtWork, Delivering, Fulfils, Activates, Lasting,
                                Backed
<1> QED BY <1>3, <1>6, <1>7, <1>8, Assemble

(* The purchase is given up, or held for its recipient, or delivered: a commit of
   its row with which the session leaves or goes on to record the payment. *)
LEMMA DecidedTables ==
    ASSUME IInv, NEW h \in Workers, pc[h] \in Delivering, CanWrite(h), KeepsLocks(h),
           NEW row \in RowType, WriteRow(h, row),
           row.status \in {"failed", "pending_activation", "delivered"},
           row.status = "delivered" => granted'[work[h]] > 0 /\ row.owner # NoOne,
           work[h] \in CodeGifts => row.owner = owner[work[h]] \/ row.owner = UserOf(h),
           granted' \in [Purchases -> Nat], granted'[work[h]] >= granted[work[h]],
           \A p \in Purchases \ {work[h]} : granted'[p] = granted[p],
           UNCHANGED recorded
    PROVE  TableTypes' /\ TablesOK' /\ Lasting /\ RespectsLocks(h)
<1> DEFINE q == work[h]
<1>1. TypeOK /\ TablesOK /\ SessionOK(h)
  BY DEF IInv
<1>2. /\ q \in Purchases /\ q \in Backed
      /\ q \in CodeGifts => UserOf(h) = mem[h].owner
  BY DeliveryKnown
<1>3. /\ status' \in [Purchases -> Statuses]
      /\ owner' \in [Purchases -> Users \cup {NoOne}]
      /\ provider' = provider /\ settled' \subseteq settled \cup {q}
      /\ status'[q] = row.status /\ owner'[q] = row.owner
      /\ \A p \in Purchases \ {q} : status'[p] = status[p] /\ owner'[p] = owner[p]
  BY <1>1, <1>2, RowWritten
<1>4. TableTypes'
  BY <1>1, <1>2, <1>3 DEF TypeOK, TableTypes, Backed
<1>5. q \in CodeGifts /\ owner[q] # NoOne => owner'[q] = owner[q]
  BY <1>1, <1>2, <1>3 DEF SessionOK
<1>6. granted[q] > 0 => granted'[q] > 0
  BY <1>1, <1>2 DEF TypeOK
<1>7. WritesFor(q)
  BY <1>2, <1>3, <1>4, <1>5, <1>6 DEF WritesFor
<1>8. RespectsLocks(h)
  BY <1>3 DEF RespectsLocks, KeepsLocks, CanWrite
<1> QED BY <1>4, <1>7, <1>8, WriteKeepsTables

(* A commit with which the session leaves. *)
LEMMA LeaveDecided ==
    ASSUME IInv, NEW h \in Workers, Unlock(h), Leave(h, "idle"),
           TableTypes', TablesOK', Lasting, RespectsLocks(h),
           sub' \in [Users -> SubType], faults' \in 0..MaxFaults, UNCHANGED retries
    PROVE  IInv'
<1>1. SessionTypes /\ LockTypes
  BY TypesTogether DEF IInv
<1>2. SessionTypes' /\ OnlyMoves(h) /\ SessionOK(h)' /\ LockTypes'
  BY <1>1, LeaveIdle, Unlocked
<1>3. TypeOK'
  BY <1>2 DEF IInv, TypeOK, SessionTypes, LockTypes, TableTypes
<1> QED BY <1>2, <1>3, Assemble

(* The tariff has no price any more. *)
LEMMA FailUnpricedStep ==
    ASSUME IInv, NEW h \in Workers, FailUnpriced(h) PROVE IInv'
<1> DEFINE row == [status |-> "failed", owner |-> owner[work[h]]]
<1>1. /\ pc[h] = "locked" /\ pc[h] \in Delivering /\ faults < MaxFaults /\ faults' = faults + 1
      /\ WriteRow(h, row) /\ Unlock(h) /\ Leave(h, "idle")
      /\ UNCHANGED <<retries, subs, recorded>>
  BY DEF FailUnpriced, Fault, Delivering
<1>2. TypeOK /\ LockTypes /\ SessionOK(h) /\ work[h] \in Purchases
  BY <1>1, TypesTogether, DeliveryKnown DEF IInv
<1>3. row \in RowType /\ CanWrite(h) /\ KeepsLocks(h)
  BY <1>1, <1>2, Unlocked DEF TypeOK, RowType, Statuses, SessionOK, CanWrite, KeepsLocks
<1>4. /\ granted' \in [Purchases -> Nat] /\ granted'[work[h]] >= granted[work[h]]
      /\ granted' = granted /\ sub' = sub
  BY <1>1, <1>2 DEF TypeOK, subs
<1>5. TableTypes' /\ TablesOK' /\ Lasting /\ RespectsLocks(h)
  BY <1>1, <1>3, <1>4, DecidedTables
<1>6. faults' \in 0..MaxFaults /\ sub' \in [Users -> SubType]
  BY <1>1, <1>2, <1>4, ConstantsAssumption DEF TypeOK
<1> QED BY <1>1, <1>5, <1>6, LeaveDecided

(* The purchase waits for its recipient. *)
LEMMA HoldStep ==
    ASSUME IInv, NEW h \in Workers, Hold(h) PROVE IInv'
<1> DEFINE row == [status |-> "pending_activation", owner |-> UserOf(h)]
<1>1. /\ pc[h] \in Delivering /\ CanWrite(h)
      /\ WriteRow(h, row) /\ Unlock(h) /\ Leave(h, "idle")
      /\ UNCHANGED <<retries, subs, recorded, faults>>
  BY DEF Hold, Delivering
<1>2. TypeOK /\ LockTypes /\ SessionOK(h) /\ work[h] \in Purchases /\ UserOf(h) \in Users
  BY <1>1, TypesTogether, DeliveryKnown DEF IInv
<1>3. row \in RowType /\ KeepsLocks(h)
  BY <1>1, <1>2, Unlocked DEF RowType, Statuses, KeepsLocks
<1>4. /\ granted' \in [Purchases -> Nat] /\ granted'[work[h]] >= granted[work[h]]
      /\ granted' = granted /\ sub' = sub
  BY <1>1, <1>2 DEF TypeOK, subs
<1>5. TableTypes' /\ TablesOK' /\ Lasting /\ RespectsLocks(h)
  BY <1>1, <1>3, <1>4, DecidedTables
<1> QED BY <1>1, <1>2, <1>4, <1>5, LeaveDecided DEF TypeOK

(* A paid purchase becomes a period, with whatever the session has flushed. *)
LEMMA GrantPeriodStep ==
    ASSUME IInv, NEW h \in Workers, GrantPeriod(h) PROVE IInv'
<1> DEFINE q == work[h]
<1>1. /\ pc[h] = "loaded" /\ pc[h] \in Delivering
      /\ WriteFlushed(h) /\ Unlock(h) /\ Clean(h) /\ Goto(h, "panel")
      /\ sub' = [sub EXCEPT ![UserOf(h)] = Renewed(copy[h])]
      /\ granted' = [granted EXCEPT ![q] = @ + 1]
      /\ UNCHANGED <<retries, recorded, work, mem, copy, faults>>
  BY DEF GrantPeriod, CanRenew, Delivering
<1>2. /\ TypeOK /\ SessionTypes /\ LockTypes /\ SessionOK(h)
      /\ q \in Purchases /\ q \in Backed
  BY <1>1, TypesTogether, DeliveryKnown DEF IInv
<1>3. /\ pc' \in [Workers -> PcStates]
      /\ unsaved' \in [Workers -> BOOLEAN] /\ renewed' \in [Workers -> BOOLEAN]
      /\ OnlyMoves(h)
      /\ pc'[h] = "panel" /\ ~ unsaved'[h]
  BY <1>1, <1>2, MovedOn DEF PcStates
<1>4. LockTypes' /\ KeepsLocks(h)
  BY <1>1, <1>2, Unlocked DEF KeepsLocks
<1>5. sub' \in [Users -> SubType]
  <2>1. Renewed(copy[h]) \in SubType
    BY <1>2 DEF TypeOK, SubType, Renewed
  <2> QED BY <1>1, <1>2, <2>1 DEF TypeOK
<1>6. /\ granted' \in [Purchases -> Nat] /\ granted'[q] >= granted[q] /\ granted'[q] > 0
      /\ \A p \in Purchases \ {q} : granted'[p] = granted[p]
  <2>1. granted \in [Purchases -> Nat]
    BY <1>2 DEF TypeOK
  <2> QED BY <1>1, <1>2, <2>1
<1>7. /\ TableTypes' /\ TablesOK' /\ Lasting /\ RespectsLocks(h)
      /\ q \in CodeGifts => owner'[q] = mem[h].owner
  BY <1>1, <1>4, <1>6, FlushKeepsTables
<1>8. TypeOK'
  BY <1>1, <1>2, <1>3, <1>4, <1>5, <1>7 DEF TypeOK, TableTypes, LockTypes
<1>9. SessionOK(h)'
  BY <1>1, <1>2, <1>3, <1>6, <1>7
     DEF SessionOK, AtWork, Delivering, Fulfils, Activates, Lasting, Backed
<1> QED BY <1>3, <1>7, <1>8, <1>9, Assemble

(* A held purchase is extended without a commit. *)
LEMMA PreparePeriodStep ==
    ASSUME IInv, NEW h \in Workers, PreparePeriod(h) PROVE IInv'
<1>1. /\ TypeOK /\ SessionOK(h) /\ pc[h] = "loaded"
      /\ subLock' = [subLock EXCEPT ![UserOf(h)] = h]
      /\ renewed' = [renewed EXCEPT ![h] = TRUE]
      /\ pc' = [pc EXCEPT ![h] = "panel"]
      /\ UNCHANGED <<money, rows, retries, subs, recorded, purchaseLock, work, mem, unsaved,
                     copy, faults>>
  BY DEF IInv, PreparePeriod, CanRenew, Goto
<1>2. TypeOK'
  BY <1>1 DEF TypeOK, PcStates, money, rows, subs
<1>3. TablesOK' /\ Lasting
  BY <1>1, QuietTables DEF subs
<1>4. OnlyMoves(h) /\ RespectsLocks(h) /\ pc'[h] = "panel" /\ renewed'[h]
  BY <1>1 DEF TypeOK, OnlyMoves, RespectsLocks, rows
<1>5. SessionOK(h)'
  BY <1>1, <1>4 DEF SessionOK, AtWork, Delivering, Fulfils, Activates, Backed,
                    money, rows, subs
<1> QED BY <1>2, <1>3, <1>4, <1>5, Assemble

(* The panel's answer commits what was flushed, the period included. *)
LEMMA PanelAnswersStep ==
    ASSUME IInv, NEW h \in Workers, PanelAnswers(h) PROVE IInv'
<1> DEFINE q == work[h]
<1>1. /\ pc[h] = "panel" /\ pc[h] \in Delivering
      /\ WriteFlushed(h) /\ WriteSub(h) /\ Unlock(h) /\ Clean(h) /\ Goto(h, "delivering")
      /\ UNCHANGED <<retries, recorded, work, mem, copy, faults>>
  BY DEF PanelAnswers, Delivering
<1>2. /\ TypeOK /\ SessionTypes /\ LockTypes /\ SessionOK(h)
      /\ q \in Purchases /\ q \in Backed
  BY <1>1, TypesTogether, DeliveryKnown DEF IInv
<1>3. /\ pc' \in [Workers -> PcStates]
      /\ unsaved' \in [Workers -> BOOLEAN] /\ renewed' \in [Workers -> BOOLEAN]
      /\ OnlyMoves(h)
      /\ pc'[h] = "delivering" /\ ~ unsaved'[h]
  BY <1>1, <1>2, MovedOn DEF PcStates
<1>4. LockTypes' /\ KeepsLocks(h)
  BY <1>1, <1>2, Unlocked DEF KeepsLocks
<1>5. /\ sub' \in [Users -> SubType]
      /\ granted' \in [Purchases -> Nat] /\ granted'[q] >= granted[q]
      /\ renewed[h] => granted'[q] > 0
      /\ \A p \in Purchases \ {q} : granted'[p] = granted[p]
  BY <1>1, <1>2, SubWritten
<1>6. granted'[q] > 0
  BY <1>1, <1>2, <1>5 DEF TypeOK, SessionOK
<1>7. /\ TableTypes' /\ TablesOK' /\ Lasting /\ RespectsLocks(h)
      /\ q \in CodeGifts => owner'[q] = mem[h].owner
  BY <1>1, <1>4, <1>5, FlushKeepsTables
<1>8. TypeOK'
  BY <1>1, <1>2, <1>3, <1>4, <1>5, <1>7 DEF TypeOK, TableTypes, LockTypes
<1>9. SessionOK(h)'
  BY <1>1, <1>2, <1>3, <1>6, <1>7
     DEF SessionOK, AtWork, Delivering, Fulfils, Activates, Lasting, Backed
<1> QED BY <1>3, <1>7, <1>8, <1>9, Assemble

(* Without the panel the caller goes on with what it has flushed. *)
LEMMA PanelUnavailableStep ==
    ASSUME IInv, NEW h \in Workers, PanelUnavailable(h) PROVE IInv'
<1>1. /\ TypeOK /\ SessionOK(h) /\ pc[h] = "panel"
      /\ pc' = [pc EXCEPT ![h] = "delivering"]
      /\ UNCHANGED <<money, rows, retries, subs, recorded, locks, session, faults>>
  BY DEF IInv, PanelUnavailable, Goto
<1>2. TypeOK'
  BY <1>1 DEF TypeOK, PcStates, money, rows, subs, locks, session
<1>3. TablesOK' /\ Lasting
  BY <1>1, QuietTables DEF subs
<1>4. OnlyMoves(h) /\ RespectsLocks(h) /\ pc'[h] = "delivering"
  BY <1>1 DEF TypeOK, OnlyMoves, RespectsLocks, rows, locks, session
<1>5. SessionOK(h)'
  BY <1>1, <1>4 DEF SessionOK, AtWork, Delivering, Fulfils, Activates, Backed,
                    money, rows, subs, locks, session
<1> QED BY <1>2, <1>3, <1>4, <1>5, Assemble

(* Whatever was granted, or is with this commit, is delivered to its recipient. *)
LEMMA DeliverStep ==
    ASSUME IInv, NEW h \in Workers, Deliver(h) PROVE IInv'
<1> DEFINE q == work[h]
           row == [status |-> "delivered", owner |-> UserOf(h)]
<1>1. /\ pc[h] = "delivering" /\ pc[h] \in Delivering /\ CanWrite(h)
      /\ WriteRow(h, row) /\ WriteSub(h) /\ Unlock(h)
      /\ UNCHANGED <<retries, recorded, faults>>
  BY DEF Deliver, Delivering
<1>2. /\ TypeOK /\ SessionTypes /\ LockTypes /\ SessionOK(h)
      /\ q \in Purchases /\ q \in Backed /\ UserOf(h) \in Users /\ UserOf(h) # NoOne
  BY <1>1, TypesTogether, DeliveryKnown DEF IInv
<1>3. row \in RowType /\ row.status = "delivered" /\ row.owner = UserOf(h)
  BY <1>2 DEF RowType, Statuses
<1>4. LockTypes' /\ KeepsLocks(h)
  BY <1>1, <1>2, Unlocked DEF KeepsLocks
<1>5. /\ sub' \in [Users -> SubType]
      /\ granted' \in [Purchases -> Nat] /\ granted'[q] >= granted[q]
      /\ renewed[h] => granted'[q] > 0
      /\ \A p \in Purchases \ {q} : granted'[p] = granted[p]
  BY <1>1, <1>2, SubWritten
<1>6. granted'[q] > 0
  BY <1>1, <1>2, <1>5 DEF TypeOK, SessionOK
<1>7. TableTypes' /\ TablesOK' /\ Lasting /\ RespectsLocks(h)
  BY <1>1, <1>2, <1>3, <1>4, <1>5, <1>6, DecidedTables
<1>8. CASE Leave(h, "idle")
  BY <1>1, <1>2, <1>5, <1>7, <1>8, LeaveDecided DEF TypeOK
<1>9. CASE Clean(h) /\ Goto(h, "recording") /\ UNCHANGED <<work, mem, copy>>
  <2>1. /\ pc' \in [Workers -> PcStates]
        /\ unsaved' \in [Workers -> BOOLEAN] /\ renewed' \in [Workers -> BOOLEAN]
        /\ OnlyMoves(h)
        /\ pc'[h] = "recording" /\ ~ unsaved'[h]
    BY <1>2, <1>9, MovedOn DEF PcStates
  <2>2. TypeOK'
    BY <1>1, <1>2, <1>4, <1>5, <1>7, <1>9, <2>1 DEF TypeOK, TableTypes, LockTypes
  <2>3. SessionOK(h)'
    BY <1>2, <1>7, <1>9, <2>1 DEF SessionOK, AtWork, Delivering, Lasting, Backed
  <2> QED BY <1>7, <2>1, <2>2, <2>3, Assemble
<1> QED BY <1>8, <1>9 DEF Deliver

(* The payment of a delivered purchase is recorded. *)
LEMMA RecordPaymentStep ==
    ASSUME IInv, NEW h \in Workers, RecordPayment(h) PROVE IInv'
<1> DEFINE q == work[h]
<1>1. /\ pc[h] = "recording" /\ Leave(h, "idle")
      /\ recorded' = [recorded EXCEPT ![q] = @ + 1]
      /\ UNCHANGED <<money, rows, retries, subs, locks, faults>>
  BY DEF RecordPayment
<1>2. /\ TypeOK /\ SessionTypes /\ TablesOK /\ SessionOK(h)
      /\ q \in Purchases /\ q \in Backed
  BY <1>1, TypesTogether DEF IInv, SessionOK, AtWork
<1>3. SessionTypes' /\ OnlyMoves(h) /\ SessionOK(h)'
  BY <1>1, <1>2, LeaveIdle
<1>4. TypeOK'
  <2>1. recorded' \in [Purchases -> Nat]
    BY <1>1, <1>2 DEF TypeOK
  <2> QED BY <1>1, <1>2, <1>3, <2>1 DEF TypeOK, SessionTypes, money, rows, subs, locks
<1>5. TablesOK' /\ Lasting /\ RespectsLocks(h)
  BY <1>1, <1>2 DEF TypeOK, TablesOK, NothingForNothing, DeliveredMeansGranted, Lasting,
                    RespectsLocks, Backed, money, rows, subs, locks
<1> QED BY <1>3, <1>4, <1>5, Assemble

-----------------------------------------------------------------------------
(***************************************************************************)
(* Failures.                                                               *)
(***************************************************************************)

(* A rollback leaves the tables alone, and what its webhook puts in the queue is
   backed. *)
LEMMA AbortStep ==
    ASSUME IInv, NEW h \in Workers, pc[h] \in AtWork, Abort(h), faults' \in 0..MaxFaults
    PROVE  IInv'
<1>1. /\ TypeOK /\ SessionTypes /\ LockTypes /\ SessionOK(h)
      /\ work[h] \in Purchases /\ work[h] \in Backed
  BY TypesTogether DEF IInv, SessionOK, AtWork
<1>2. /\ Unlock(h) /\ UNCHANGED <<money, rows, retries, subs, recorded>>
      /\ Leave(h, IF h \in Webhooks THEN "requeue" ELSE "idle")
  BY DEF Abort
<1>3. LockTypes' /\ KeepsLocks(h)
  BY <1>1, <1>2, Unlocked DEF KeepsLocks
<1>4. TableTypes' /\ TablesOK' /\ Lasting
  BY <1>2, QuietTables DEF subs
<1>5. RespectsLocks(h)
  BY <1>2, <1>3 DEF RespectsLocks, KeepsLocks, rows
<1>6. CASE Leave(h, "idle")
  BY <1>1, <1>2, <1>4, <1>5, <1>6, LeaveDecided DEF TypeOK, subs
<1>7. CASE Leave(h, "requeue")
  <2>1. SessionTypes'
    BY <1>1, <1>7, EmptyTypes DEF SessionTypes, Leave, Goto, Clean, PcStates
  <2>2. OnlyMoves(h) /\ pc'[h] = "requeue" /\ ~ unsaved'[h] /\ work' = work
    BY <1>1, <1>7 DEF SessionTypes, OnlyMoves, Leave, Goto, Clean
  <2>3. TypeOK'
    BY <1>1, <1>2, <1>3, <1>4, <2>1 DEF TypeOK, SessionTypes, LockTypes, TableTypes, subs
  <2>4. SessionOK(h)'
    BY <1>1, <1>4, <2>2 DEF SessionOK, AtWork, Delivering, Backed, Lasting
  <2> QED BY <1>4, <1>5, <2>2, <2>3, <2>4, Assemble
<1> QED BY <1>2, <1>6, <1>7

(* Conflicts, deadlocks and exceptions all roll back. *)
LEMMA FailureStep ==
    ASSUME IInv, NEW h \in Workers,
           UniqueViolation(h) \/ DeadlockDetected(h) \/ HandlerFails(h)
    PROVE  IInv'
<1>1. pc[h] \in AtWork /\ Abort(h)
  BY DEF UniqueViolation, CanRenew, DeadlockDetected, HandlerFails, AtWork
<1>2. faults' \in 0..MaxFaults
  BY ConstantsAssumption
     DEF IInv, TypeOK, UniqueViolation, DeadlockDetected, HandlerFails, Fault
<1> QED BY <1>1, <1>2, AbortStep

(* After a crash no session knows or holds anything. *)
LEMMA CrashStep == ASSUME IInv, Crash PROVE IInv'
<1>1. /\ TypeOK /\ faults < MaxFaults /\ faults' = faults + 1
      /\ purchaseLock' = [p \in Purchases |-> NoOne]
      /\ subLock' = [u \in Users |-> NoOne]
      /\ pc' = [h \in Workers |-> "idle"]
      /\ work' = [h \in Workers |-> NoOne]
      /\ mem' = [h \in Workers |-> NoRow]
      /\ unsaved' = [h \in Workers |-> FALSE]
      /\ copy' = [h \in Workers |-> NoSub]
      /\ renewed' = [h \in Workers |-> FALSE]
      /\ UNCHANGED <<money, rows, retries, subs, recorded>>
  BY DEF IInv, Crash, Fault
<1>2. TableTypes' /\ TablesOK'
  BY <1>1, QuietTables DEF subs
<1>3. TypeOK'
  <2>1. faults' \in 0..MaxFaults
    BY <1>1, ConstantsAssumption DEF TypeOK
  <2>2. pc' \in [Workers -> PcStates]
    BY <1>1 DEF PcStates
  <2> QED BY <1>1, <1>2, <2>1, <2>2, EmptyTypes DEF TypeOK, TableTypes, subs
<1>4. \A h \in Workers : SessionOK(h)'
  BY <1>1 DEF SessionOK, AtWork, Delivering
<1> QED BY <1>2, <1>3, <1>4 DEF IInv

-----------------------------------------------------------------------------
(* Every step of every worker keeps the invariant. *)
LEMMA IInvStep == ASSUME IInv, [Next]_vars PROVE IInv'
<1> USE ConstantsAssumption
<1>1. CASE UNCHANGED vars
  BY <1>1 DEF vars, IInv, TypeOK, TablesOK, NothingForNothing, DeliveredMeansGranted,
              SessionOK, Fulfils, Activates, Backed, money, rows, subs, locks, session
<1>2. ASSUME NEW p \in Purchases, CreatePurchase(p) \/ ProviderPays(p) PROVE IInv'
  BY <1>2, CreatePurchaseStep, ProviderPaysStep
<1>3. ASSUME NEW u \in Users, PeriodEnds(u) PROVE IInv'
  BY <1>3, PeriodEndsStep
<1>4. ASSUME NEW w \in Webhooks, WebhookStep(w) PROVE IInv'
  BY <1>4, ReceiveWebhookStep, WebhookAnswersStep, WebhookFulfilsStep, RequeueStep
     DEF WebhookStep
<1>5. ASSUME MonitorStep PROVE IInv'
  BY <1>5, MonitorPicks, MonitorDecides, RetryFulfilsStep DEF MonitorStep
<1>6. ASSUME NEW a \in Activators, ActivatorStep(a) PROVE IInv'
  BY <1>6, ActivatorOpens, RedeemCodeStep DEF ActivatorStep
<1>7. ASSUME NEW h \in Workers, DeliveryStep(h) PROVE IInv'
  BY <1>7, EnterActivationStep, LoadSubscriptionStep, LoadExpiredStep, HoldStep,
     GrantPeriodStep, PreparePeriodStep, PanelAnswersStep, PanelUnavailableStep,
     DeliverStep, RecordPaymentStep, FailureStep DEF DeliveryStep
<1>8. ASSUME NEW h \in Workers, HandlerFails(h) \/ FailUnpriced(h) PROVE IInv'
  BY <1>8, FailureStep, FailUnpricedStep
<1>9. ASSUME Crash PROVE IInv'
  BY <1>9, CrashStep
<1> QED BY <1>1, <1>2, <1>3, <1>4, <1>5, <1>6, <1>7, <1>8, <1>9 DEF Next

(* The invariant holds in every reachable state. *)
LEMMA IInvAlways == Spec => []IInv
<1>1. IInv /\ [Next]_vars => IInv'
  BY IInvStep
<1> QED BY <1>1, IInvInit, PTL DEF Spec

(* Every variable has its type, and nobody retries more than max_retries times. *)
THEOREM TypeCorrect == Spec => []TypeOK
<1>1. IInv => TypeOK
  BY DEF IInv
<1> QED BY <1>1, IInvAlways, PTL

(* Nothing is promised, held or delivered that was not paid for in full. *)
THEOREM NothingForNothingAlways == Spec => []NothingForNothing
<1>1. IInv => NothingForNothing
  BY DEF IInv, TablesOK
<1> QED BY <1>1, IInvAlways, PTL

(* What is delivered has become somebody's period. *)
THEOREM DeliveredMeansGrantedAlways == Spec => []DeliveredMeansGranted
<1>1. IInv => DeliveredMeansGranted
  BY DEF IInv, TablesOK
<1> QED BY <1>1, IInvAlways, PTL

-----------------------------------------------------------------------------
(***************************************************************************)
(* What a step may do to the rows of guest_purchases.                      *)
(***************************************************************************)

(* Only what is pending becomes paid, and a redeemed code keeps its owner. *)
RowMoves(p) ==
    /\ status'[p] = "paid" => status[p] \in {"pending", "paid"}
    /\ p \in CodeGifts /\ owner[p] # NoOne => owner'[p] = owner[p]

(* The commits of a delivery: of a row that is not "paid", or of what is flushed. *)
LEMMA DeliveryMoves ==
    ASSUME IInv, NEW h \in Workers, pc[h] \in Delivering,
           \/ WriteFlushed(h)
           \/ \E row \in RowType :
                 /\ WriteRow(h, row) /\ row.status # "paid"
                 /\ row.owner \in {owner[work[h]], UserOf(h)},
           NEW p \in Purchases
    PROVE  RowMoves(p)
<1> DEFINE q == work[h]
<1>1. TypeOK /\ SessionOK(h)
  BY DEF IInv
<1>2. /\ q \in Purchases /\ mem[h].status \in {"paid", "pending_activation"}
      /\ q \in CodeGifts => UserOf(h) = mem[h].owner
  BY DeliveryKnown
<1>3. CASE WriteFlushed(h)
  <2>1. CASE p = q
    <3>1. CASE ~ unsaved[h]
      BY <1>3, <2>1, <3>1, FlushedWritten DEF RowMoves
    <3>2. CASE unsaved[h]
      <4>1. status'[q] = mem[h].status /\ owner'[q] = mem[h].owner
        BY <1>3, <3>2, FlushedWritten
      <4> QED BY <1>1, <2>1, <3>2, <4>1 DEF RowMoves, SessionOK, Fulfils
    <3> QED BY <3>1, <3>2
  <2>2. CASE p # q
    BY <1>3, <2>2, FlushedWritten DEF RowMoves
  <2> QED BY <2>1, <2>2
<1>4. ASSUME NEW row \in RowType, WriteRow(h, row), row.status # "paid",
             row.owner \in {owner[q], UserOf(h)}
      PROVE  RowMoves(p)
  <2>1. /\ status'[q] = row.status /\ owner'[q] = row.owner
        /\ p # q => status'[p] = status[p] /\ owner'[p] = owner[p]
    BY <1>1, <1>2, <1>4, RowWritten
  <2>2. q \in CodeGifts /\ owner[q] # NoOne => owner[q] = mem[h].owner
    BY <1>1 DEF SessionOK
  <2> QED BY <1>2, <1>4, <2>1, <2>2 DEF RowMoves
<1> QED BY <1>3, <1>4

(* Every step moves every row as RowMoves allows. *)
LEMMA RowsMove ==
    ASSUME IInv, [Next]_vars, NEW p \in Purchases
    PROVE  RowMoves(p)
<1> USE ConstantsAssumption
<1>1. TypeOK /\ TablesOK
  BY DEF IInv
<1>2. CASE UNCHANGED rows
  BY <1>2 DEF RowMoves, rows
<1>3. ASSUME NEW q \in Purchases, CreatePurchase(q) PROVE RowMoves(p)
  BY <1>1, <1>3 DEF TypeOK, RowMoves, CreatePurchase
<1>4. ASSUME NEW w \in Webhooks, WebhookAnswers(w) PROVE RowMoves(p)
  <2>1. work[w] \in provider /\ status[work[w]] # "none" /\ owner' = owner
    BY <1>1, <1>4 DEF IInv, SessionOK, TablesOK, WebhookAnswers, Workers
  <2>2. \/ status' = status
        \/ status' = [status EXCEPT ![work[w]] = "failed"]
        \/ status' = [status EXCEPT ![work[w]] = "paid"] /\ ~ Answered(work[w])
           /\ work[w] \in CodeGifts
    BY <1>4 DEF WebhookAnswers
  <2> QED BY <1>1, <2>1, <2>2 DEF TypeOK, RowMoves, Answered, Statuses
<1>5. ASSUME NEW w \in Webhooks, Requeue(w) PROVE RowMoves(p)
  BY <1>1, <1>5 DEF TypeOK, RowMoves, Requeue
<1>6. ASSUME Recover \/ FailExhausted PROVE RowMoves(p)
  BY <1>1, <1>6 DEF TypeOK, RowMoves, Recover, FailExhausted
<1>7. ASSUME NEW h \in Workers, LoadExpired(h) \/ GrantPeriod(h) \/ PanelAnswers(h)
      PROVE  RowMoves(p)
  BY <1>7, DeliveryMoves DEF LoadExpired, GrantPeriod, CanRenew, PanelAnswers, Delivering
<1>8. ASSUME NEW h \in Workers, Hold(h) \/ Deliver(h) \/ FailUnpriced(h)
      PROVE  RowMoves(p)
  <2>1. /\ pc[h] \in Delivering
        /\ \/ WriteRow(h, [status |-> "pending_activation", owner |-> UserOf(h)])
           \/ WriteRow(h, [status |-> "delivered", owner |-> UserOf(h)])
           \/ WriteRow(h, [status |-> "failed", owner |-> owner[work[h]]])
    BY <1>8 DEF Hold, Deliver, FailUnpriced, Delivering
  <2>2. UserOf(h) \in Users /\ owner[work[h]] \in Users \cup {NoOne}
    BY <1>1, <2>1, DeliveryKnown DEF TypeOK
  <2>3. /\ [status |-> "pending_activation", owner |-> UserOf(h)] \in RowType
        /\ [status |-> "delivered", owner |-> UserOf(h)] \in RowType
        /\ [status |-> "failed", owner |-> owner[work[h]]] \in RowType
    BY <2>2 DEF RowType, Statuses
  <2> QED BY <2>1, <2>3, DeliveryMoves
<1>9. \/ UNCHANGED rows
      \/ \E q \in Purchases : CreatePurchase(q)
      \/ \E w \in Webhooks : WebhookAnswers(w) \/ Requeue(w)
      \/ Recover \/ FailExhausted
      \/ \E h \in Workers : \/ LoadExpired(h) \/ GrantPeriod(h) \/ PanelAnswers(h)
                            \/ Hold(h) \/ Deliver(h) \/ FailUnpriced(h)
  BY DEF Next, vars, ProviderPays, PeriodEnds, WebhookStep, ReceiveWebhook, WebhookFulfils,
         MonitorStep, Pick, PickPending, RetryPaid, RetryActivation, PickExhausted,
         RetryFulfils, ActivatorStep, OpenActivationLink, PressGiftButton, RedeemCode,
         DeliveryStep, EnterActivation, LoadSubscription, PreparePeriod, PanelUnavailable,
         RecordPayment, UniqueViolation, DeadlockDetected, HandlerFails, Abort, Crash
<1> QED BY <1>2, <1>3, <1>4, <1>5, <1>6, <1>7, <1>8, <1>9

(* What has been held, delivered or given up never comes back to the retry queue. *)
THEOREM NeverRequeuedAlways == Spec => NeverRequeued
<1>1. IInv /\ [Next]_vars =>
          [\A p \in Purchases :
              status'[p] = "paid" => status[p] \in {"pending", "paid"}]_vars
  BY RowsMove DEF RowMoves
<1> QED BY <1>1, IInvAlways, PTL DEF Spec, NeverRequeued

(* A gift code belongs to whoever redeemed it first. *)
THEOREM CodeKeepsItsOwnerAlways == Spec => CodeKeepsItsOwner
<1>1. IInv /\ [Next]_vars =>
          [\A p \in CodeGifts : owner[p] # NoOne => owner'[p] = owner[p]]_vars
  BY RowsMove, ConstantsAssumption DEF RowMoves
<1> QED BY <1>1, IInvAlways, PTL DEF Spec, CodeKeepsItsOwner


-----------------------------------------------------------------------------
(***************************************************************************)
(* One payment, one period, when nobody but the webhooks and the monitor   *)
(* delivers and nothing has failed.                                        *)
(***************************************************************************)

(* The purchases that have become a period of u. *)
Used(u) == {p \in Purchases : Recipient[p] = u /\ granted[p] > 0}

Post == {"loaded", "panel", "delivering"}

(* The period is granted and committed, and the purchase not yet delivered. *)
Handed(h) == pc[h] \in {"panel", "delivering"} /\ ~ renewed[h]

(* What a session has seen of the subscription, or may suppose. *)
CopyOK(h) ==
    pc[h] \in Post =>
        LET u == Recipient[work[h]] IN
        /\ copy[h].row # "active" => copy[h].periods = 0
        /\ copy[h].periods <= Cardinality(Used(u))
        /\ copy[h].row = "none" => sub[u].row = "none" \/ sub[u].periods > 0
        /\ copy[h].row = "expired" => sub[u].row # "none"

(* Who fulfils works on a purchase that is not delivered, as long as it may be held. *)
FulfilOK(h) ==
    Fulfils(h) =>
        /\ pc[h] \in {"locked", "loaded"} /\ purchaseLock[work[h]] = h =>
              status[work[h]] \in {"pending", "paid"}
        /\ pc[h] = "loaded" => purchaseLock[work[h]] = h \/ copy[h].row = "expired"
        /\ pc[h] = "loaded" /\ MustHold(h) => status[work[h]] # "delivered"
        /\ pc[h] \in {"panel", "delivering"} =>
              ~ renewed[h] /\ (work[h] \in Gifts => copy[h].row = "none")

(* Only the monitor activates, and for the recipient. *)
ActorOK(h) ==
    /\ pc[h] \in Delivering => mem[h].owner \in {NoOne, Recipient[work[h]]}
    /\ pc[h] \in Delivering /\ Activates(h) => h = Monitor /\ ~ unsaved[h]
    /\ renewed[h] => pc[h] \in {"panel", "delivering"}
    /\ pc[h] = "entering" => h = Monitor /\ mem[h] = NoRow
    /\ Handed(h) => /\ ~ unsaved[h]
                    /\ \A p \in Purchases : purchaseLock[p] # h
                    /\ \A u \in Users : subLock[u] # h

(* Nobody else works on what the monitor activates, and it has given nothing. *)
Activating == pc[Monitor] = "entering" \/ (pc[Monitor] \in Delivering /\ Activates(Monitor))
ActivationOK ==
    Activating =>
        /\ status[work[Monitor]] = "pending_activation"
        /\ Stale(work[Monitor])
        /\ granted[work[Monitor]] = 0 \/ Handed(Monitor)

(* Two sessions of one user do not see that he has no subscription and an old one. *)
CopiesAgree(g, h) ==
    pc[g] \in Post /\ pc[h] \in Post /\ Recipient[work[g]] = Recipient[work[h]] =>
        ~ (copy[g].row = "none" /\ copy[h].row = "expired")

SubOK(u) ==
    /\ sub[u].row # "active" => sub[u].periods = 0
    /\ sub[u].periods > 0 => sub[u].hasTime
    /\ sub[u].periods <= Cardinality(Used(u))

(* A granted purchase is delivered, or will be. *)
GrantOK(p) ==
    granted[p] > 0 => status[p] = "delivered" \/ \E h \in Workers : Handed(h) /\ work[h] = p

OnceInv ==
    /\ \A p \in Purchases : owner[p] \in {NoOne, Recipient[p]}
    /\ \A u \in Users : SubOK(u)
    /\ \A p \in Purchases : GrantOK(p)
    /\ \A h \in Workers : ActorOK(h) /\ CopyOK(h) /\ FulfilOK(h)
    /\ ActivationOK
    /\ \A g, h \in Workers : CopiesAgree(g, h)

OnceIInv == faults = 0 => OnceInv

(* Nobody activates, and there are finitely many purchases. *)
NobodyActivates == Activators = {} /\ IsFiniteSet(Purchases)

(* What a step of h leaves to the other sessions. *)
Bystanders(h) ==
    /\ OnlyMoves(h) /\ RespectsLocks(h)
    /\ \A g \in Workers \ {h} :
          /\ copy'[g] = copy[g]
          /\ \A p \in Purchases : purchaseLock'[p] = g <=> purchaseLock[p] = g
          /\ \A u \in Users : subLock'[u] = g <=> subLock[u] = g

(* No period is taken back, and nobody loses his subscription. *)
PeriodsStay ==
    /\ \A p \in Purchases : granted[p] > 0 => granted'[p] > 0
    /\ \A u \in Users :
          /\ sub[u].row # "none" => sub'[u].row # "none"
          /\ sub[u].row = "none" \/ sub[u].periods > 0 =>
                sub'[u].row = "none" \/ sub'[u].periods > 0

(* Somebody but h will hold the purchase. *)
Holds(g, p) == work[g] = p /\ Fulfils(g) /\ pc[g] = "loaded" /\ MustHold(g)
DeliversOnly(h) ==
    \A p \in Purchases : status'[p] = "delivered" =>
        status[p] = "delivered" \/ \A g \in Workers \ {h} : ~ Holds(g, p)

(* The purchases of a user that were granted grow. *)
LEMMA UsedGrows ==
    ASSUME NobodyActivates, PeriodsStay, NEW u
    PROVE  /\ Cardinality(Used(u)) \in Nat /\ Cardinality(Used(u)') \in Nat
           /\ Cardinality(Used(u)) <= Cardinality(Used(u)')
<1>1. Used(u) \subseteq Purchases /\ Used(u)' \subseteq Purchases /\ Used(u) \subseteq Used(u)'
  BY DEF Used, PeriodsStay
<1>2. IsFiniteSet(Used(u)) /\ IsFiniteSet(Used(u)')
  BY <1>1, FS_Subset DEF NobodyActivates
<1> QED BY <1>1, <1>2, FS_Subset, FS_CardinalityType

(* Who is delivering does so for the recipient. *)
LEMMA ForRecipient ==
    ASSUME IInv, OnceInv, NEW h \in Workers, pc[h] \in Delivering
    PROVE  /\ UserOf(h) = Recipient[work[h]] /\ UserOf(h) \in Users /\ UserOf(h) # NoOne
           /\ work[h] \in Purchases /\ granted[work[h]] \in Nat
           /\ \/ Fulfils(h)
              \/ Activates(h) /\ ~ Fulfils(h) /\ h = Monitor /\ ~ unsaved[h]
<1> USE ConstantsAssumption
<1>1. TypeOK /\ SessionOK(h) /\ ActorOK(h)
  BY DEF IInv, OnceInv
<1>2. work[h] \in Purchases /\ granted[work[h]] \in Nat
  BY <1>1 DEF TypeOK, SessionOK, Delivering
<1> QED BY <1>1, <1>2 DEF SessionOK, ActorOK, UserOf, Fulfils, Activates, Delivering

(* The other sessions know what they knew. *)
LEMMA OthersOnce ==
    ASSUME NobodyActivates, IInv, OnceInv, NEW h, Bystanders(h), PeriodsStay, DeliversOnly(h),
           NEW g \in Workers \ {h}
    PROVE  ActorOK(g)' /\ CopyOK(g)' /\ FulfilOK(g)'
<1> USE ConstantsAssumption
<1>1. /\ pc'[g] = pc[g] /\ work'[g] = work[g] /\ mem'[g] = mem[g] /\ copy'[g] = copy[g]
      /\ unsaved'[g] = unsaved[g] /\ renewed'[g] = renewed[g]
      /\ \A p \in Purchases : purchaseLock'[p] = g <=> purchaseLock[p] = g
      /\ \A u \in Users : subLock'[u] = g <=> subLock[u] = g
  BY DEF Bystanders, OnlyMoves
<1>2. TypeOK /\ SessionOK(g) /\ ActorOK(g) /\ CopyOK(g) /\ FulfilOK(g) /\ g # NoOne
  BY DEF IInv, OnceInv, Workers
<1>3. pc[g] \in Delivering => work[g] \in Purchases /\ Recipient[work[g]] \in Users
  BY <1>2 DEF SessionOK, Delivering
<1>4. ActorOK(g)'
  BY <1>1, <1>2 DEF ActorOK, Handed, Activates
<1>5. CopyOK(g)'
  <2> SUFFICES ASSUME pc[g] \in Post PROVE CopyOK(g)'
    BY <1>1 DEF CopyOK
  <2>1. PICK u \in Users : u = Recipient[work[g]] /\ u = Recipient[work'[g]]
    BY <1>1, <1>3 DEF Post, Delivering
  <2>2. copy[g].periods \in Nat
    BY <1>2 DEF TypeOK, SubType
  <2>3. copy[g].periods <= Cardinality(Used(u))
    BY <1>2, <2>1 DEF CopyOK
  <2>4. /\ Cardinality(Used(u)) \in Nat /\ Cardinality(Used(u)') \in Nat
        /\ Cardinality(Used(u)) <= Cardinality(Used(u)')
    BY UsedGrows
  <2>5. copy[g].periods <= Cardinality(Used(u)')
    BY <2>2, <2>3, <2>4
  <2> QED BY <1>1, <1>2, <2>1, <2>5 DEF CopyOK, PeriodsStay
<1>6. FulfilOK(g)'
  <2> SUFFICES ASSUME Fulfils(g), pc[g] \in Delivering PROVE FulfilOK(g)'
    BY <1>1 DEF FulfilOK, Fulfils, Delivering
  <2>1. work[g] \in Purchases
    BY <1>3
  <2>2. purchaseLock[work[g]] = g /\ status[work[g]] # "none" =>
           status'[work[g]] = status[work[g]]
    BY <1>2, <2>1 DEF Bystanders, RespectsLocks
  <2>3. MustHold(g)' = MustHold(g) /\ Fulfils(g)'
    BY <1>1 DEF MustHold, Fulfils
  <2>4. pc[g] = "loaded" /\ MustHold(g) => status'[work[g]] # "delivered"
    BY <1>2, <2>1 DEF FulfilOK, DeliversOnly, Holds
  <2> QED BY <1>1, <1>2, <2>1, <2>2, <2>3, <2>4 DEF FulfilOK
<1> QED BY <1>4, <1>5, <1>6

(* A granted purchase stays so, and stays delivered, if h delivers it or goes on. *)
LEMMA GrantStays ==
    ASSUME OnceInv, NEW h, OnlyMoves(h), NEW p \in Purchases, granted'[p] = granted[p],
           status[p] = "delivered" => status'[p] = "delivered",
           h \in Workers /\ Handed(h) /\ work[h] = p =>
               \/ Handed(h)' /\ work'[h] = p
               \/ status'[p] = "delivered"
    PROVE  GrantOK(p)'
<1> SUFFICES ASSUME granted[p] > 0, status[p] # "delivered"
             PROVE  status'[p] = "delivered" \/ \E g \in Workers : Handed(g)' /\ work'[g] = p
  BY DEF GrantOK
<1>1. PICK g \in Workers : Handed(g) /\ work[g] = p
  BY DEF OnceInv, GrantOK
<1>2. CASE g # h
  BY <1>1, <1>2 DEF OnlyMoves, Handed
<1>3. CASE g = h
  BY <1>1, <1>3
<1> QED BY <1>2, <1>3

(* A step of a webhook leaves the monitor's activation alone. *)
LEMMA ActivationStays ==
    ASSUME IInv, OnceInv, NEW h, h # Monitor, OnlyMoves(h),
           Activating =>
               /\ status'[work[Monitor]] = status[work[Monitor]]
               /\ granted'[work[Monitor]] = granted[work[Monitor]]
               /\ h \in Webhooks /\ work'[h] = work[Monitor] => pc'[h] \notin AtWork
    PROVE  ActivationOK'
<1> USE ConstantsAssumption
<1>1. Monitor \in Workers \ {h} /\ Webhooks \subseteq Workers /\ Monitor \notin Webhooks
  BY DEF Workers
<1>2. /\ pc'[Monitor] = pc[Monitor] /\ work'[Monitor] = work[Monitor]
      /\ mem'[Monitor] = mem[Monitor] /\ renewed'[Monitor] = renewed[Monitor]
  BY <1>1 DEF OnlyMoves
<1>3. Activating' = Activating /\ Handed(Monitor)' = Handed(Monitor)
  BY <1>2 DEF Activating, Activates, Handed
<1>4. ASSUME Activating PROVE Stale(work[Monitor])'
  <2>1. Stale(work[Monitor])
    BY <1>4 DEF OnceInv, ActivationOK
  <2>2. ASSUME NEW w \in Webhooks, work'[w] = work'[Monitor] PROVE pc'[w] \notin AtWork
    <3>1. CASE w = h
      BY <1>2, <1>4, <2>2, <3>1
    <3>2. CASE w # h
      BY <1>1, <1>2, <2>1, <2>2, <3>2 DEF OnlyMoves, Stale
    <3> QED BY <3>1, <3>2
  <2> QED BY <2>2 DEF Stale
<1> QED BY <1>2, <1>3, <1>4 DEF OnceInv, ActivationOK

(* The invariant after a step of h, piece by piece. *)
LEMMA OnceTogether ==
    ASSUME NobodyActivates, IInv, OnceInv, NEW h, Bystanders(h), PeriodsStay, DeliversOnly(h),
           \A p \in Purchases : owner'[p] \in {NoOne, Recipient[p]},
           \A u \in Users : SubOK(u)', \A p \in Purchases : GrantOK(p)', ActivationOK',
           h \in Workers =>
               /\ ActorOK(h)' /\ CopyOK(h)' /\ FulfilOK(h)'
               /\ \A g \in Workers : CopiesAgree(g, h)' /\ CopiesAgree(h, g)'
    PROVE  OnceInv'
<1>1. \A g \in Workers : ActorOK(g)' /\ CopyOK(g)' /\ FulfilOK(g)'
  BY OthersOnce
<1>2. ASSUME NEW f \in Workers, NEW g \in Workers PROVE CopiesAgree(f, g)'
  <2>1. CASE f # h /\ g # h
    <3>1. /\ pc'[f] = pc[f] /\ work'[f] = work[f] /\ copy'[f] = copy[f]
          /\ pc'[g] = pc[g] /\ work'[g] = work[g] /\ copy'[g] = copy[g]
      BY <2>1 DEF Bystanders, OnlyMoves
    <3> QED BY <3>1 DEF OnceInv, CopiesAgree
  <2> QED BY <2>1
<1> QED BY <1>1, <1>2 DEF OnceInv

(* The subscriptions are left alone. *)
LEMMA SubsStay ==
    ASSUME NobodyActivates, OnceInv, UNCHANGED <<sub, granted>>
    PROVE  PeriodsStay /\ \A u \in Users : SubOK(u)'
<1>1. PeriodsStay
  BY DEF PeriodsStay
<1>2. \A u \in Users : Used(u)' = Used(u)
  BY DEF Used
<1> QED BY <1>1, <1>2 DEF OnceInv, SubOK

-----------------------------------------------------------------------------
(* The steps outside of the sessions. *)
LEMMA WorldOnce ==
    ASSUME NobodyActivates, IInv, IInv', OnceInv, NEW p, NEW u,
           \/ p \in Purchases /\ (CreatePurchase(p) \/ ProviderPays(p))
           \/ u \in Users /\ PeriodEnds(u)
    PROVE  OnceInv'
<1> USE ConstantsAssumption
<1>1. TypeOK /\ NoOne \notin Workers /\ NoOne # Monitor
  BY DEF IInv, Workers
<1>2. /\ UNCHANGED <<owner, granted, locks, pc, session>>
      /\ \A q \in Purchases : status[q] # "none" => status'[q] = status[q]
      /\ \A q \in Purchases : status'[q] = "delivered" => status[q] = "delivered"
  BY <1>1 DEF CreatePurchase, ProviderPays, PeriodEnds, rows, subs, TypeOK
<1>3. Bystanders(NoOne) /\ DeliversOnly(NoOne)
  BY <1>2 DEF Bystanders, OnlyMoves, RespectsLocks, DeliversOnly, locks, session
<1>4. PeriodsStay /\ \A v \in Users : SubOK(v)'
  <2>1. CASE sub' = sub
    BY <1>2, <2>1, SubsStay
  <2>2. CASE PeriodEnds(u)
    <3>1. sub' = [sub EXCEPT ![u].hasTime = FALSE] /\ sub[u].periods = 0
      BY <2>2 DEF PeriodEnds
    <3>2. \A v \in Users : /\ sub'[v].row = sub[v].row /\ sub'[v].periods = sub[v].periods
                           /\ v # u => sub'[v] = sub[v]
      BY <1>1, <3>1 DEF TypeOK, SubType
    <3>3. \A v \in Users : Used(v)' = Used(v)
      BY <1>2 DEF Used
    <3>4. PeriodsStay
      BY <1>2, <3>2 DEF PeriodsStay
    <3> QED BY <3>1, <3>2, <3>3, <3>4 DEF OnceInv, SubOK
  <2> QED BY <2>1, <2>2 DEF CreatePurchase, ProviderPays, subs
<1>5. \A q \in Purchases : GrantOK(q)'
  BY <1>1, <1>2, <1>3, GrantStays DEF Bystanders
<1>6. ActivationOK'
  <2>1. ASSUME Activating PROVE /\ work[Monitor] \in Purchases
                                /\ status[work[Monitor]] = "pending_activation"
    BY <2>1 DEF IInv, SessionOK, Workers, Delivering, Activating, OnceInv, ActivationOK
  <2>2. NoOne \notin Webhooks
    BY <1>1 DEF Workers
  <2> QED BY <1>1, <1>2, <1>3, <2>1, <2>2, ActivationStays DEF Bystanders
<1> QED BY <1>1, <1>2, <1>3, <1>4, <1>5, <1>6, OnceTogether DEF OnceInv

(* A worker starts on a purchase, but not to activate it. *)
LEMMA EnterOnce ==
    ASSUME NobodyActivates, IInv, OnceInv, NEW h \in Workers, NEW p \in Purchases,
           NEW label \in {"received", "recovering", "retrying", "failing"},
           Enter(h, p, NoRow, label), UNCHANGED <<rows, subs, locks>>
    PROVE  OnceInv'
<1> USE ConstantsAssumption
<1>1. TypeOK /\ SessionOK(h) /\ ActorOK(h)
  BY DEF IInv, OnceInv
<1>2. /\ pc[h] = "idle" /\ pc'[h] = label /\ work'[h] = p /\ mem'[h] = NoRow
      /\ unsaved' = unsaved /\ renewed' = renewed /\ copy' = copy
      /\ ~ renewed[h]
  BY <1>1 DEF Enter, Goto, TypeOK, ActorOK
<1>3. Bystanders(h) /\ DeliversOnly(h)
  BY <1>1 DEF Bystanders, OnlyMoves, RespectsLocks, DeliversOnly, Enter, Goto, TypeOK, rows,
     locks
<1>4. PeriodsStay /\ \A v \in Users : SubOK(v)'
  BY SubsStay DEF subs
<1>5. \A q \in Purchases : GrantOK(q)'
  BY <1>2, <1>3, GrantStays DEF Bystanders, Handed, rows, subs
<1>6. ActivationOK'
  <2>1. CASE h = Monitor
    BY <1>2, <2>1 DEF ActivationOK, Activating, Delivering
  <2>2. CASE h # Monitor
    BY <1>2, <1>3, <2>2, ActivationStays DEF Bystanders, rows, subs, AtWork
  <2> QED BY <2>1, <2>2
<1>7. ActorOK(h)' /\ CopyOK(h)' /\ FulfilOK(h)'
  BY <1>2 DEF ActorOK, CopyOK, FulfilOK, Handed, Delivering, Post, Fulfils, NoRow
<1>8. \A g \in Workers : CopiesAgree(g, h)' /\ CopiesAgree(h, g)'
  BY <1>2 DEF CopiesAgree, Post
<1> QED BY <1>3, <1>4, <1>5, <1>6, <1>7, <1>8, OnceTogether DEF OnceInv, rows

(* The monitor picks a purchase to activate: the webhooks have left it, so nothing has
   been granted. *)
LEMMA RetryActivationOnce ==
    ASSUME NobodyActivates, IInv, OnceInv, NEW p \in Purchases, RetryActivation(p)
    PROVE  OnceInv'
<1> USE ConstantsAssumption
<1>1. TypeOK /\ Monitor \in Workers /\ ActorOK(Monitor)
  BY DEF IInv, OnceInv, Workers
<1>2. /\ pc[Monitor] = "idle" /\ pc'[Monitor] = "entering" /\ work'[Monitor] = p
      /\ mem'[Monitor] = NoRow /\ status[p] = "pending_activation" /\ Stale(p)
      /\ unsaved' = unsaved /\ renewed' = renewed /\ copy' = copy
      /\ UNCHANGED <<rows, subs, locks>> /\ ~ renewed[Monitor]
  BY <1>1 DEF RetryActivation, Enter, Goto, TypeOK, ActorOK
<1>3. Bystanders(Monitor) /\ DeliversOnly(Monitor)
  BY <1>1, <1>2 DEF Bystanders, OnlyMoves, RespectsLocks, DeliversOnly, RetryActivation, Enter,
     Goto, TypeOK, rows, locks
<1>4. PeriodsStay /\ \A v \in Users : SubOK(v)'
  BY <1>2, SubsStay DEF subs
<1>5. \A q \in Purchases : GrantOK(q)'
  BY <1>2, <1>3, GrantStays DEF Bystanders, Handed, rows, subs
<1>6. ActivationOK'
  <2>1. granted[p] = 0
    <3>1. ASSUME NEW g \in Workers, Handed(g), work[g] = p PROVE FALSE
      <4>1. g \in Webhooks
        BY <1>2, <3>1 DEF Handed, Workers, NobodyActivates
      <4> QED BY <1>2, <3>1, <4>1 DEF Stale, Handed, AtWork
    <3>2. granted[p] \in Nat
      BY <1>1 DEF TypeOK
    <3> QED BY <1>2, <3>1, <3>2 DEF OnceInv, GrantOK
  <2>2. Stale(p)'
    BY <1>2, <1>3 DEF Stale, Bystanders, OnlyMoves, Workers
  <2> QED BY <1>2, <2>1, <2>2 DEF ActivationOK, rows, subs
<1>7. ActorOK(Monitor)' /\ CopyOK(Monitor)' /\ FulfilOK(Monitor)'
  BY <1>2 DEF ActorOK, CopyOK, FulfilOK, Handed, Delivering, Post, Fulfils, NoRow
<1>8. \A g \in Workers : CopiesAgree(g, Monitor)' /\ CopiesAgree(Monitor, g)'
  BY <1>2 DEF CopiesAgree, Post
<1> QED BY <1>1, <1>2, <1>3, <1>4, <1>5, <1>6, <1>7, <1>8, OnceTogether DEF OnceInv, rows

(* A session ends, with a decision about its purchase or without one. *)
LEMMA LeaveOnce ==
    ASSUME NobodyActivates, IInv, OnceInv, NEW h \in Workers, NEW label \in {"idle", "requeue"},
           Leave(h, label), Unlock(h) \/ UNCHANGED locks, UNCHANGED subs,
           RespectsLocks(h), DeliversOnly(h), ~ Handed(h),
           \A p \in Purchases : status[p] = "delivered" => status'[p] = "delivered",
           \A p \in Purchases : owner'[p] \in {NoOne, Recipient[p]},
           h # Monitor /\ Activating => status'[work[Monitor]] = status[work[Monitor]]
    PROVE  OnceInv'
<1> USE ConstantsAssumption
<1>1. TypeOK
  BY DEF IInv
<1>2. /\ pc'[h] = label /\ mem'[h] = NoRow /\ ~ unsaved'[h] /\ ~ renewed'[h]
  BY <1>1 DEF Leave, Goto, Clean, TypeOK
<1>3. Bystanders(h)
  <2>1. OnlyMoves(h) /\ \A g \in Workers \ {h} : copy'[g] = copy[g]
    BY <1>1 DEF OnlyMoves, Leave, Goto, Clean, TypeOK
  <2>2. \A g \in Workers \ {h} :
           /\ \A p \in Purchases : purchaseLock'[p] = g <=> purchaseLock[p] = g
           /\ \A u \in Users : subLock'[u] = g <=> subLock[u] = g
    BY <1>1 DEF Unlock, locks, Workers, TypeOK
  <2> QED BY <2>1, <2>2 DEF Bystanders
<1>4. PeriodsStay /\ \A v \in Users : SubOK(v)'
  BY SubsStay DEF subs
<1>5. \A q \in Purchases : GrantOK(q)'
  BY <1>3, GrantStays DEF Bystanders, subs
<1>6. ActivationOK'
  <2>1. CASE h = Monitor
    BY <1>2, <2>1 DEF ActivationOK, Activating, Delivering
  <2>2. CASE h # Monitor
    BY <1>2, <1>3, <2>2, ActivationStays DEF Bystanders, subs, AtWork
  <2> QED BY <2>1, <2>2
<1>7. ActorOK(h)' /\ CopyOK(h)' /\ FulfilOK(h)'
  BY <1>2 DEF ActorOK, CopyOK, FulfilOK, Handed, Delivering, Post, Fulfils, NoRow
<1>8. \A g \in Workers : CopiesAgree(g, h)' /\ CopiesAgree(h, g)'
  BY <1>2 DEF CopiesAgree, Post
<1> QED BY <1>3, <1>4, <1>5, <1>6, <1>7, <1>8, OnceTogether

(* What the monitor activates was paid for. *)
LEMMA ActivatesBacked ==
    ASSUME IInv, OnceInv, Activating
    PROVE  /\ work[Monitor] \in Purchases /\ work[Monitor] \in Backed
           /\ status[work[Monitor]] = "pending_activation"
<1> USE ConstantsAssumption
<1>1. work[Monitor] \in Purchases /\ status[work[Monitor]] = "pending_activation"
  BY DEF IInv, SessionOK, Workers, Delivering, Activating, OnceInv, ActivationOK
<1> QED BY <1>1 DEF IInv, TablesOK, NothingForNothing, Backed

(* The decisions of the webhook and of the monitor. *)
LEMMA DecisionsOnce ==
    ASSUME NobodyActivates, IInv, OnceInv, NEW h \in Workers,
           \/ h \in Webhooks /\ (WebhookAnswers(h) \/ Requeue(h))
           \/ h = Monitor /\ (Recover \/ FailExhausted)
    PROVE  OnceInv'
<1> USE ConstantsAssumption
<1>1. TypeOK /\ Monitor \notin Webhooks
  BY DEF IInv
<1>2. /\ Leave(h, "idle") /\ Free(work[h]) /\ UNCHANGED <<owner, subs, locks>>
      /\ pc[h] \in {"received", "requeue", "recovering", "failing"}
  BY DEF WebhookAnswers, Requeue, Recover, FailExhausted
<1>3. work[h] \in Purchases
  BY <1>2 DEF IInv, SessionOK
<1>4. /\ \A p \in Purchases \ {work[h]} : status'[p] = status[p]
      /\ status'[work[h]] \in {"failed", "paid"} \/ status' = status
      /\ status[work[h]] = "delivered" => status' = status \/ work[h] \in Mismatched
      /\ h # Monitor /\ status[work[h]] = "pending_activation" =>
            status' = status \/ work[h] \in Mismatched
  BY <1>1, <1>3 DEF WebhookAnswers, Answered, Requeue, Recover, FailExhausted, TypeOK
<1>5. ASSUME work[h] \in Mismatched PROVE status[work[h]] \notin {"delivered"}
  BY <1>3, <1>5 DEF IInv, TablesOK, NothingForNothing, Backed
<1>6. \A p \in Purchases : status[p] = "delivered" => status'[p] = "delivered"
  BY <1>4, <1>5
<1>7. RespectsLocks(h) /\ DeliversOnly(h) /\ ~ Handed(h)
  BY <1>2, <1>3, <1>4 DEF RespectsLocks, Free, DeliversOnly, locks, Handed
<1>8. ASSUME h # Monitor, Activating PROVE status'[work[Monitor]] = status[work[Monitor]]
  BY <1>4, <1>8, ActivatesBacked DEF Backed
<1> QED BY <1>2, <1>6, <1>7, <1>8, LeaveOnce DEF OnceInv

(* The lock is taken, by whoever delivers the purchase. *)
LEMMA TakeOnce ==
    ASSUME NobodyActivates, IInv, OnceInv, NEW h \in Workers, NEW row, NEW flushed \in BOOLEAN,
           work[h] \in Purchases, Free(work[h]), TakeRow(h, row, flushed),
           UNCHANGED <<rows, subs>>,
           pc[h] \in {"received", "retrying", "entering"},
           row.owner \in {NoOne, Recipient[work[h]]},
           \/ row.status = "paid" /\ status[work[h]] \in {"pending", "paid"}
           \/ row.status = "pending_activation" /\ pc[h] = "entering" /\ ~ flushed
    PROVE  OnceInv'
<1> USE ConstantsAssumption
<1>1. TypeOK /\ ActorOK(h) /\ h # NoOne
  BY DEF IInv, OnceInv, Workers
<1>2. /\ pc'[h] = "locked" /\ work' = work /\ mem'[h] = row /\ unsaved'[h] = flushed
      /\ renewed' = renewed /\ copy' = copy /\ ~ renewed[h] /\ subLock' = subLock
      /\ purchaseLock'[work[h]] = h
      /\ \A p \in Purchases \ {work[h]} : purchaseLock'[p] = purchaseLock[p]
  BY <1>1 DEF TakeRow, Goto, TypeOK, ActorOK
<1>3. Bystanders(h) /\ DeliversOnly(h)
  <2>1. OnlyMoves(h)
    BY <1>1 DEF OnlyMoves, TakeRow, Goto, TypeOK
  <2>2. RespectsLocks(h) /\ \A g \in Workers \ {h} :
            \A p \in Purchases : purchaseLock'[p] = g <=> purchaseLock[p] = g
    BY <1>2 DEF RespectsLocks, Free, rows, Workers
  <2> QED BY <1>2, <2>1, <2>2 DEF Bystanders, DeliversOnly, rows
<1>4. PeriodsStay /\ \A v \in Users : SubOK(v)'
  BY SubsStay DEF subs
<1>5. \A q \in Purchases : GrantOK(q)'
  BY <1>3, GrantStays DEF Bystanders, Handed, rows, subs
<1>6. ActivationOK'
  <2>1. CASE h = Monitor
    <3>1. ASSUME Activating' PROVE Activating /\ ~ Handed(Monitor)
      BY <1>2, <2>1, <3>1 DEF Activating, Activates, Handed, Delivering
    <3>2. Stale(work[Monitor]) => Stale(work[Monitor])'
      BY <1>2, <1>3, <2>1 DEF Stale, Bystanders, OnlyMoves, Workers
    <3> QED BY <1>2, <3>1, <3>2 DEF OnceInv, ActivationOK, rows, subs
  <2>2. CASE h # Monitor
    <3>1. ASSUME Activating PROVE work[h] # work[Monitor]
      BY <1>1, <2>2, <3>1, ActivatesBacked DEF ActorOK
    <3> QED BY <1>2, <1>3, <2>2, <3>1, ActivationStays DEF Bystanders, rows, subs
  <2> QED BY <2>1, <2>2
<1>7. ActorOK(h)' /\ CopyOK(h)' /\ FulfilOK(h)'
  BY <1>1, <1>2 DEF ActorOK, CopyOK, FulfilOK, Handed, Delivering, Post, Fulfils, Activates, rows
<1>8. \A g \in Workers : CopiesAgree(g, h)' /\ CopiesAgree(h, g)'
  BY <1>2 DEF CopiesAgree, Post
<1> QED BY <1>3, <1>4, <1>5, <1>6, <1>7, <1>8, OnceTogether DEF OnceInv, rows

(* The three who take it. *)
LEMMA TakersOnce ==
    ASSUME NobodyActivates, IInv, OnceInv, NEW h \in Workers,
           \/ h \in Webhooks /\ WebhookFulfils(h)
           \/ h = Monitor /\ RetryFulfils
           \/ EnterActivation(h)
    PROVE  OnceInv'
<1> USE ConstantsAssumption
<1>1. TypeOK /\ SessionOK(h) /\ ActorOK(h)
  BY DEF IInv, OnceInv
<1>2. work[h] \in Purchases /\ pc[h] \in {"received", "retrying", "entering"}
  BY <1>1 DEF SessionOK, WebhookFulfils, RetryFulfils, EnterActivation
<1>3. owner[work[h]] \in {NoOne, Recipient[work[h]]}
  BY <1>2 DEF OnceInv
<1>4. ASSUME Leave(h, "idle"), UNCHANGED <<money, rows, retries, subs, recorded, locks>>
      PROVE  OnceInv'
  <2>1. RespectsLocks(h) /\ DeliversOnly(h) /\ ~ Handed(h)
    BY <1>2, <1>4 DEF RespectsLocks, DeliversOnly, Handed, rows, locks
  <2> QED BY <1>4, <2>1, LeaveOnce DEF OnceInv, rows
<1>5. CASE h \in Webhooks /\ WebhookFulfils(h)
  <2> DEFINE row == [status |-> "paid", owner |-> owner[work[h]]]
  <2>1. /\ Free(work[h]) /\ TakeRow(h, row, TRUE) /\ UNCHANGED <<rows, subs>>
        /\ status[work[h]] \notin {"delivered", "pending_activation", "failed", "none"}
    <3>1. status[work[h]] # "none"
      BY <1>1, <1>2, <1>5 DEF WebhookFulfils, SessionOK, IInv, TablesOK
    <3> QED BY <1>5, <3>1 DEF WebhookFulfils, Answered
  <2>2. status[work[h]] \in {"pending", "paid"}
    BY <1>1, <1>2, <2>1 DEF TypeOK, Statuses
  <2> QED BY <1>2, <1>3, <2>1, <2>2, TakeOnce
<1>6. CASE h = Monitor /\ RetryFulfils
  <2>1. CASE status[work[h]] = "paid"
    <3> DEFINE row == Row(work[h])
    <3>1. /\ Free(work[h]) /\ TakeRow(h, row, FALSE) /\ UNCHANGED <<rows, subs>>
          /\ row.status = status[work[h]] /\ row.owner = owner[work[h]]
      BY <1>6, <2>1 DEF RetryFulfils, Row
    <3> HIDE DEF row
    <3> QED BY <1>2, <1>3, <2>1, <3>1, TakeOnce
  <2>2. CASE status[work[h]] # "paid"
    BY <1>4, <1>6, <2>2 DEF RetryFulfils
  <2> QED BY <2>1, <2>2
<1>7. CASE EnterActivation(h)
  <2> DEFINE row == Row(work[h])
  <2>1. mem[h] = NoRow /\ pc[h] = "entering"
    BY <1>1, <1>7 DEF ActorOK, EnterActivation
  <2>2. row.status = status[work[h]] /\ row.owner = owner[work[h]]
    BY DEF Row
  <2>3. \/ /\ Free(work[h]) /\ TakeRow(h, row, FALSE) /\ UNCHANGED <<rows, subs>>
           /\ row.status = "pending_activation"
        \/ /\ Leave(h, "idle") /\ UNCHANGED <<money, rows, retries, subs, recorded, locks>>
    BY <1>7, <2>1 DEF EnterActivation
  <2> HIDE DEF row
  <2> QED BY <1>2, <1>3, <1>4, <2>1, <2>2, <2>3, TakeOnce
<1> QED BY <1>5, <1>6, <1>7

-----------------------------------------------------------------------------
(* A session that is at work on a purchase goes on with it. *)
GoesOn(h, label) ==
    /\ pc[h] \in Delivering /\ pc'[h] = label /\ UNCHANGED <<work, mem>>
    /\ OnlyMoves(h) /\ \A g \in Workers \ {h} : copy'[g] = copy[g]
    /\ \A g \in Workers \ {h} :
          /\ \A p \in Purchases : purchaseLock'[p] = g <=> purchaseLock[p] = g
          /\ \A u \in Users : subLock'[u] = g <=> subLock[u] = g

(* Only its own purchase is another one than the monitor's. *)
LEMMA OwnPurchase ==
    ASSUME IInv, OnceInv, NEW h \in Workers, NEW label, GoesOn(h, label),
           h # Monitor, NobodyActivates,
           \A p \in Purchases \ {work[h]} : status'[p] = status[p] /\ granted'[p] = granted[p]
    PROVE  ActivationOK'
<1> USE ConstantsAssumption
<1>1. h \in Webhooks /\ work' = work /\ OnlyMoves(h) /\ pc[h] \in AtWork
  BY DEF NobodyActivates, Workers, GoesOn, Delivering, AtWork
<1>2. ASSUME Activating PROVE work[h] # work[Monitor]
  BY <1>1, <1>2 DEF OnceInv, ActivationOK, Stale
<1> QED BY <1>1, <1>2, ActivatesBacked, ActivationStays

(* A row that is flushed is that of a purchase that waits for its payment. *)
LEMMA FlushedOnce ==
    ASSUME IInv, OnceInv, NEW h \in Workers, pc[h] \in Delivering, WriteFlushed(h),
           Unlock(h)
    PROVE  /\ \A p \in Purchases \ {work[h]} : status'[p] = status[p] /\ owner'[p] = owner[p]
           /\ \/ UNCHANGED rows
              \/ /\ Fulfils(h) /\ status'[work[h]] = "paid" /\ purchaseLock[work[h]] = h
                 /\ status[work[h]] \in {"pending", "paid"}
           /\ \A p \in Purchases : owner'[p] \in {NoOne, Recipient[p]}
           /\ RespectsLocks(h) /\ DeliversOnly(h)
           /\ \A p \in Purchases : status[p] = "delivered" => status'[p] = "delivered"
<1>1. TypeOK /\ SessionOK(h) /\ ActorOK(h) /\ work[h] \in Purchases
  BY ForRecipient DEF IInv, OnceInv
<1>2. KeepsLocks(h)
  BY <1>1 DEF KeepsLocks, Unlock, TypeOK
<1>3. CASE ~ unsaved[h]
  <2>1. UNCHANGED rows
    BY <1>3 DEF WriteFlushed
  <2>2. RespectsLocks(h) /\ DeliversOnly(h)
    BY <1>2, <2>1 DEF rows, KeepsLocks, RespectsLocks, DeliversOnly
  <2> QED BY <2>1, <2>2 DEF rows, OnceInv
<1>4. CASE unsaved[h]
  <2>1. /\ Fulfils(h) /\ mem[h].status = "paid" /\ purchaseLock[work[h]] = h
        /\ status[work[h]] \in {"pending", "paid"}
        /\ mem[h].owner \in {NoOne, Recipient[work[h]]}
    BY <1>1, <1>4, ForRecipient DEF SessionOK, ActorOK, Fulfils
  <2>2. /\ status' = [status EXCEPT ![work[h]] = mem[h].status]
        /\ owner' = [owner EXCEPT ![work[h]] = mem[h].owner]
    BY <1>4 DEF WriteFlushed, WriteRow
  <2>3. /\ status'[work[h]] = "paid" /\ owner'[work[h]] = mem[h].owner
        /\ \A p \in Purchases \ {work[h]} : status'[p] = status[p] /\ owner'[p] = owner[p]
    BY <1>1, <2>1, <2>2 DEF TypeOK
  <2>4. RespectsLocks(h)
    BY <1>1, <1>2, <2>1, <2>3 DEF RespectsLocks, KeepsLocks
  <2>5. DeliversOnly(h)
    BY <2>3 DEF DeliversOnly
  <2>6. \A p \in Purchases : owner'[p] \in {NoOne, Recipient[p]}
    BY <2>1, <2>3 DEF OnceInv
  <2>7. \A p \in Purchases : status[p] = "delivered" => status'[p] = "delivered"
    BY <2>1, <2>3
  <2> QED BY <2>1, <2>3, <2>4, <2>5, <2>6, <2>7
<1> QED BY <1>3, <1>4

(* The subscription is read. *)
LEMMA LoadSubscriptionOnce ==
    ASSUME NobodyActivates, IInv, OnceInv, NEW h \in Workers, LoadSubscription(h)
    PROVE  OnceInv'
<1> USE ConstantsAssumption
<1>1. TypeOK /\ SessionOK(h) /\ ActorOK(h) /\ FulfilOK(h) /\ pc[h] = "locked"
  BY DEF IInv, OnceInv, LoadSubscription
<1>2. PICK u \in Users : u = UserOf(h) /\ u = Recipient[work[h]]
  BY <1>1, ForRecipient DEF Delivering
<1>3. /\ pc'[h] = "loaded" /\ copy'[h] = sub[u] /\ UNCHANGED <<rows, subs, locks, work, mem>>
      /\ unsaved' = unsaved /\ renewed' = renewed /\ ~ renewed[h]
      /\ work[h] \in Purchases /\ purchaseLock[work[h]] = h
  BY <1>1, <1>2 DEF LoadSubscription, Goto, TypeOK, ActorOK, SessionOK
<1>4. GoesOn(h, "loaded") /\ Bystanders(h) /\ DeliversOnly(h)
  BY <1>1, <1>3 DEF GoesOn, Bystanders, OnlyMoves, RespectsLocks, DeliversOnly, LoadSubscription,
     Goto, TypeOK, rows, locks, Delivering
<1>5. PeriodsStay /\ \A v \in Users : SubOK(v)'
  BY <1>3, SubsStay DEF subs
<1>6. \A q \in Purchases : GrantOK(q)'
  BY <1>1, <1>3, <1>4, GrantStays DEF Bystanders, Handed, rows, subs
<1>7. ActivationOK'
  <2>1. CASE h = Monitor
    <3>1. Activating' => Activating /\ ~ Handed(Monitor)
      BY <1>1, <1>3, <2>1 DEF Activating, Activates, Handed, Delivering
    <3>2. Stale(work[Monitor]) => Stale(work[Monitor])'
      BY <1>3, <1>4, <2>1 DEF Stale, Bystanders, OnlyMoves, Workers
    <3> QED BY <1>3, <3>1, <3>2 DEF OnceInv, ActivationOK, rows, subs
  <2>2. CASE h # Monitor
    BY <1>3, <1>4, <2>2, OwnPurchase DEF rows, subs
  <2> QED BY <2>1, <2>2
<1>8. CopyOK(h)'
  <2>1. Used(u)' = Used(u) /\ sub' = sub
    BY <1>3 DEF Used, subs
  <2>2. SubOK(u)
    BY DEF OnceInv
  <2> QED BY <1>2, <1>3, <2>1, <2>2 DEF CopyOK, SubOK
<1>9. ActorOK(h)' /\ FulfilOK(h)'
  BY <1>1, <1>3 DEF ActorOK, FulfilOK, Handed, Delivering, Fulfils, Activates, rows, locks
<1>10. ASSUME NEW g \in Workers PROVE CopiesAgree(g, h)' /\ CopiesAgree(h, g)'
  <2>1. CASE g = h
    BY <2>1 DEF CopiesAgree
  <2>2. CASE g # h
    <3>1. CopyOK(g) /\ SubOK(u) /\ pc'[g] = pc[g] /\ copy'[g] = copy[g] /\ work' = work
      BY <1>3, <1>4, <2>2 DEF OnceInv, Bystanders, OnlyMoves
    <3> QED BY <1>2, <1>3, <3>1 DEF CopiesAgree, CopyOK, SubOK
  <2> QED BY <2>1, <2>2
<1> QED BY <1>3, <1>4, <1>5, <1>6, <1>7, <1>8, <1>9, <1>10, OnceTogether DEF OnceInv, rows

(* The subscription has expired, which the session commits, and with it lets the
   purchase go. *)
LEMMA LoadExpiredOnce ==
    ASSUME NobodyActivates, IInv, OnceInv, NEW h \in Workers, LoadExpired(h)
    PROVE  OnceInv'
<1> USE ConstantsAssumption
<1>1. TypeOK /\ SessionOK(h) /\ ActorOK(h) /\ FulfilOK(h) /\ pc[h] = "locked"
  BY DEF IInv, OnceInv, LoadExpired
<1>2. PICK u \in Users : u = UserOf(h) /\ u = Recipient[work[h]]
  BY <1>1, ForRecipient DEF Delivering
<1>3. /\ sub[u].row = "active" /\ sub[u].periods = 0 /\ sub' = [sub EXCEPT ![u].row = "expired"]
  <2>1. sub[u].periods \in Nat /\ SubOK(u) /\ ~ sub[u].hasTime /\ sub[u].row = "active"
    BY <1>1, <1>2 DEF LoadExpired, TypeOK, SubType, OnceInv
  <2> QED BY <1>2, <2>1 DEF SubOK, LoadExpired
<1>4. /\ sub'[u].row = "expired" /\ sub'[u].periods = 0
      /\ \A v \in Users \ {u} : sub'[v] = sub[v]
  BY <1>1, <1>3 DEF TypeOK, SubType
<1>5. /\ pc'[h] = "loaded" /\ copy'[h] = sub'[u] /\ UNCHANGED <<granted, work, mem>>
      /\ ~ unsaved'[h] /\ ~ renewed'[h] /\ WriteFlushed(h) /\ Unlock(h)
      /\ work[h] \in Purchases /\ purchaseLock[work[h]] = h
  BY <1>1, <1>2 DEF LoadExpired, Goto, Clean, TypeOK, SessionOK
<1>6. /\ RespectsLocks(h) /\ DeliversOnly(h)
      /\ \A p \in Purchases : owner'[p] \in {NoOne, Recipient[p]}
      /\ \A p \in Purchases : status[p] = "delivered" => status'[p] = "delivered"
      /\ \A p \in Purchases \ {work[h]} : status'[p] = status[p]
      /\ Fulfils(h) => status'[work[h]] \in {"pending", "paid"}
      /\ ~ Fulfils(h) => status' = status
  BY <1>1, <1>5, FlushedOnce DEF FulfilOK, Delivering, rows
<1>7. GoesOn(h, "loaded") /\ Bystanders(h)
  <2>1. OnlyMoves(h) /\ \A g \in Workers \ {h} : copy'[g] = copy[g]
    BY <1>1 DEF OnlyMoves, LoadExpired, Goto, Clean, TypeOK
  <2>2. \A g \in Workers \ {h} :
           /\ \A p \in Purchases : purchaseLock'[p] = g <=> purchaseLock[p] = g
           /\ \A v \in Users : subLock'[v] = g <=> subLock[v] = g
    BY <1>1, <1>5 DEF Unlock, Workers, TypeOK
  <2> QED BY <1>1, <1>5, <1>6, <2>1, <2>2 DEF GoesOn, Bystanders, Delivering
<1>8. PeriodsStay /\ \A v \in Users : SubOK(v)'
  <2>1. \A v \in Users : Used(v)' = Used(v)
    BY <1>5 DEF Used
  <2>2. PeriodsStay
    BY <1>3, <1>4, <1>5 DEF PeriodsStay
  <2> QED BY <1>3, <1>4, <2>1, <2>2 DEF OnceInv, SubOK
<1>9. \A q \in Purchases : GrantOK(q)'
  BY <1>1, <1>5, <1>6, <1>7, GrantStays DEF Bystanders, Handed
<1>10. ActivationOK'
  <2>1. CASE h = Monitor
    <3>1. Activating' => Activating /\ ~ Handed(Monitor) /\ ~ Fulfils(h)
      BY <1>1, <1>5, <2>1 DEF Activating, Activates, Fulfils, Handed, Delivering
    <3>2. Stale(work[Monitor]) => Stale(work[Monitor])'
      BY <1>5, <1>7, <2>1 DEF Stale, Bystanders, OnlyMoves, Workers
    <3> QED BY <1>5, <1>6, <3>1, <3>2 DEF OnceInv, ActivationOK
  <2>2. CASE h # Monitor
    BY <1>5, <1>6, <1>7, <2>2, OwnPurchase
  <2> QED BY <2>1, <2>2
<1>11. CopyOK(h)'
  <2>1. Cardinality(Used(u)') \in Nat
    BY <1>8, UsedGrows
  <2> QED BY <1>2, <1>4, <1>5, <2>1 DEF CopyOK
<1>12. ActorOK(h)' /\ FulfilOK(h)'
  BY <1>1, <1>4, <1>5, <1>6 DEF ActorOK, FulfilOK, Handed, Delivering, Fulfils, Activates
<1>13. ASSUME NEW g \in Workers PROVE CopiesAgree(g, h)' /\ CopiesAgree(h, g)'
  <2>1. CASE g = h
    BY <2>1 DEF CopiesAgree
  <2>2. CASE g # h
    <3>1. CopyOK(g) /\ pc'[g] = pc[g] /\ copy'[g] = copy[g] /\ work' = work
      BY <1>5, <1>7, <2>2 DEF OnceInv, Bystanders, OnlyMoves
    <3> QED BY <1>2, <1>3, <1>4, <1>5, <3>1 DEF CopiesAgree, CopyOK
  <2> QED BY <2>1, <2>2
<1> QED BY <1>6, <1>7, <1>8, <1>9, <1>10, <1>11, <1>12, <1>13, OnceTogether DEF OnceInv

(* A purchase is held: it is not delivered yet. *)
LEMMA HoldOnce ==
    ASSUME NobodyActivates, IInv, OnceInv, NEW h \in Workers, Hold(h)
    PROVE  OnceInv'
<1> USE ConstantsAssumption
<1>1. TypeOK /\ SessionOK(h) /\ FulfilOK(h) /\ pc[h] = "loaded"
  BY DEF IInv, OnceInv, Hold
<1>2. work[h] \in Purchases /\ UserOf(h) = Recipient[work[h]]
  BY <1>1, ForRecipient DEF Delivering
<1>3. /\ status[work[h]] # "delivered" /\ purchaseLock[work[h]] \in {NoOne, h}
      /\ status' = [status EXCEPT ![work[h]] = "pending_activation"]
      /\ owner' = [owner EXCEPT ![work[h]] = UserOf(h)]
      /\ Leave(h, "idle") /\ Unlock(h) /\ UNCHANGED subs
  BY <1>1 DEF Hold, FulfilOK, CanWrite, WriteRow
<1>4. /\ \A p \in Purchases \ {work[h]} : status'[p] = status[p] /\ owner'[p] = owner[p]
      /\ status'[work[h]] = "pending_activation" /\ owner'[work[h]] = UserOf(h)
  BY <1>1, <1>2, <1>3 DEF TypeOK
<1>5. /\ RespectsLocks(h) /\ DeliversOnly(h) /\ ~ Handed(h)
      /\ \A p \in Purchases : status[p] = "delivered" => status'[p] = "delivered"
      /\ \A p \in Purchases : owner'[p] \in {NoOne, Recipient[p]}
  <2>1. RespectsLocks(h)
    <3>1. \A p \in Purchases : purchaseLock'[p] = purchaseLock[p] \/ purchaseLock[p] = h
      BY <1>1, <1>3 DEF Unlock, TypeOK
    <3> QED BY <1>3, <1>4, <3>1 DEF RespectsLocks
  <2> QED BY <1>1, <1>2, <1>3, <1>4, <2>1 DEF DeliversOnly, Handed, OnceInv
<1>6. ASSUME h # Monitor, Activating PROVE status'[work[Monitor]] = status[work[Monitor]]
  <2>1. h \in Webhooks
    BY <1>6 DEF NobodyActivates, Workers
  <2>2. work[h] # work[Monitor]
    BY <1>1, <1>6, <2>1 DEF OnceInv, ActivationOK, Stale, AtWork
  <2> QED BY <1>4, <1>6, <2>2, ActivatesBacked
<1> QED BY <1>3, <1>5, <1>6, LeaveOnce

(* A period is granted: it is the first one after an old subscription, or after none. *)
LEMMA GrantPeriodOnce ==
    ASSUME NobodyActivates, IInv, OnceInv, NEW h \in Workers, GrantPeriod(h)
    PROVE  OnceInv'
<1> USE ConstantsAssumption
<1>1. /\ TypeOK /\ SessionOK(h) /\ ActorOK(h) /\ FulfilOK(h) /\ CopyOK(h)
      /\ pc[h] = "loaded" /\ Fulfils(h) /\ ~ MustHold(h)
  BY DEF IInv, OnceInv, GrantPeriod, CanRenew
<1>2. PICK u \in Users : u = UserOf(h) /\ u = Recipient[work[h]]
  BY <1>1, ForRecipient DEF Delivering
<1>3. /\ work[h] \in Purchases /\ copy[h].row # "active" /\ copy[h].periods = 0
      /\ work[h] \in Gifts => copy[h].row = "none"
  BY <1>1, ForRecipient DEF MustHold, CopyOK, Post, Delivering, TypeOK, SubType
<1>4. /\ sub'[u].row = "active" /\ sub'[u].hasTime /\ sub'[u].periods = 1
      /\ \A v \in Users \ {u} : sub'[v] = sub[v]
      /\ granted'[work[h]] > 0
      /\ \A p \in Purchases \ {work[h]} : granted'[p] = granted[p]
  BY <1>1, <1>2, <1>3 DEF GrantPeriod, Renewed, TypeOK
<1>5. /\ pc'[h] = "panel" /\ UNCHANGED <<work, mem, copy>> /\ ~ unsaved'[h] /\ ~ renewed'[h]
      /\ WriteFlushed(h) /\ Unlock(h)
  BY <1>1 DEF GrantPeriod, Goto, Clean, TypeOK
<1>6. /\ RespectsLocks(h) /\ DeliversOnly(h)
      /\ \A p \in Purchases : owner'[p] \in {NoOne, Recipient[p]}
      /\ \A p \in Purchases : status[p] = "delivered" => status'[p] = "delivered"
      /\ \A p \in Purchases \ {work[h]} : status'[p] = status[p]
  BY <1>1, <1>5, FlushedOnce DEF Delivering
<1>7. GoesOn(h, "panel") /\ Bystanders(h)
  <2>1. OnlyMoves(h)
    BY <1>1 DEF OnlyMoves, GrantPeriod, Goto, Clean, TypeOK
  <2>2. \A g \in Workers \ {h} :
           /\ \A p \in Purchases : purchaseLock'[p] = g <=> purchaseLock[p] = g
           /\ \A v \in Users : subLock'[v] = g <=> subLock[v] = g
    BY <1>1, <1>5 DEF Unlock, Workers, TypeOK
  <2> QED BY <1>1, <1>5, <1>6, <2>1, <2>2 DEF GoesOn, Bystanders, Delivering
<1>8. PeriodsStay
  BY <1>4 DEF PeriodsStay
<1>9. ASSUME NEW v \in Users PROVE SubOK(v)'
  <2>1. /\ Cardinality(Used(v)) \in Nat /\ Cardinality(Used(v)') \in Nat
        /\ Cardinality(Used(v)) <= Cardinality(Used(v)')
    BY <1>8, UsedGrows
  <2>2. CASE v # u
    <3>1. SubOK(v) /\ sub'[v] = sub[v] /\ sub[v].periods \in Nat
      BY <1>1, <1>4, <2>2 DEF OnceInv, TypeOK, SubType
    <3> QED BY <2>1, <3>1 DEF SubOK
  <2>3. CASE v = u
    <3>1. work[h] \in Used(u)' /\ Used(u)' \subseteq Purchases
      BY <1>2, <1>3, <1>4 DEF Used
    <3>2. IsFiniteSet(Used(u)')
      BY <3>1, FS_Subset DEF NobodyActivates
    <3>3. Cardinality(Used(u)') # 0
      BY <3>1, <3>2, FS_EmptySet
    <3> QED BY <1>4, <2>1, <2>3, <3>3 DEF SubOK
  <2> QED BY <2>2, <2>3
<1>10. \A q \in Purchases : GrantOK(q)'
  <2>1. GrantOK(work[h])'
    BY <1>5 DEF GrantOK, Handed
  <2>2. ASSUME NEW q \in Purchases, q # work[h] PROVE GrantOK(q)'
    BY <1>4, <1>6, <1>7, <2>2, GrantStays DEF Bystanders
  <2>3. work'[h] = work[h]
    BY <1>5
  <2> QED BY <1>5, <2>2 DEF GrantOK, Handed
<1>11. ActivationOK'
  <2>1. CASE h = Monitor
    BY <1>1, <1>5, <2>1 DEF ActivationOK, Activating, Activates, Fulfils
  <2>2. CASE h # Monitor
    BY <1>4, <1>6, <1>7, <2>2, OwnPurchase
  <2> QED BY <2>1, <2>2
<1>12. CopyOK(h)'
  <2>1. Cardinality(Used(u)') \in Nat
    BY <1>8, UsedGrows
  <2> QED BY <1>2, <1>3, <1>4, <1>5, <2>1 DEF CopyOK
<1>13. ActorOK(h)' /\ FulfilOK(h)'
  <2>1. \A p \in Purchases : purchaseLock'[p] # h
    BY <1>1, <1>5 DEF Unlock, Workers, TypeOK
  <2>2. \A v \in Users : subLock'[v] # h
    BY <1>1, <1>5 DEF Unlock, Workers, TypeOK
  <2> QED BY <1>1, <1>3, <1>5, <2>1, <2>2 DEF ActorOK, FulfilOK, Delivering, Fulfils, Activates
<1>14. ASSUME NEW g \in Workers PROVE CopiesAgree(g, h)' /\ CopiesAgree(h, g)'
  <2>1. CopiesAgree(g, h) /\ CopiesAgree(h, g) /\ (g # h => pc'[g] = pc[g])
    BY <1>7 DEF OnceInv, Bystanders, OnlyMoves
  <2> QED BY <1>1, <1>5, <2>1 DEF CopiesAgree, Post
<1> QED BY <1>6, <1>7, <1>8, <1>9, <1>10, <1>11, <1>12, <1>13, <1>14, OnceTogether DEF OnceInv

(* A period is prepared: only the monitor does so, and what it activates has given none. *)
LEMMA PreparePeriodOnce ==
    ASSUME NobodyActivates, IInv, OnceInv, NEW h \in Workers, PreparePeriod(h)
    PROVE  OnceInv'
<1> USE ConstantsAssumption
<1>1. /\ TypeOK /\ SessionOK(h) /\ ActorOK(h) /\ CopyOK(h) /\ pc[h] = "loaded" /\ Activates(h)
      /\ ~ Fulfils(h) /\ h = Monitor /\ ~ unsaved[h]
  BY DEF IInv, OnceInv, PreparePeriod, CanRenew, ActorOK, Delivering, Activates, Fulfils
<1>2. PICK u \in Users : u = UserOf(h) /\ u = Recipient[work[h]]
  BY <1>1, ForRecipient DEF Delivering
<1>3. /\ pc'[h] = "panel" /\ UNCHANGED <<rows, subs, purchaseLock, work, mem, copy, unsaved>>
      /\ renewed'[h] /\ subLock[u] = NoOne /\ subLock' = [subLock EXCEPT ![u] = h]
  BY <1>1, <1>2 DEF PreparePeriod, CanRenew, Goto, TypeOK
<1>4. GoesOn(h, "panel") /\ Bystanders(h) /\ DeliversOnly(h)
  <2>1. OnlyMoves(h)
    BY <1>1 DEF OnlyMoves, PreparePeriod, Goto, TypeOK
  <2>2. \A g \in Workers \ {h} :
           /\ \A p \in Purchases : purchaseLock'[p] = g <=> purchaseLock[p] = g
           /\ \A v \in Users : subLock'[v] = g <=> subLock[v] = g
    BY <1>1, <1>3 DEF TypeOK, Workers
  <2>3. RespectsLocks(h) /\ DeliversOnly(h)
    BY <1>3 DEF RespectsLocks, DeliversOnly, rows
  <2> QED BY <1>1, <1>3, <2>1, <2>2, <2>3 DEF GoesOn, Bystanders, Delivering
<1>5. PeriodsStay /\ \A v \in Users : SubOK(v)'
  BY <1>3, SubsStay DEF subs
<1>6. \A q \in Purchases : GrantOK(q)'
  BY <1>1, <1>3, <1>4, GrantStays DEF Bystanders, Handed, rows, subs
<1>7. ActivationOK'
  <2>1. Activating /\ ~ Handed(Monitor)
    BY <1>1 DEF Activating, Activates, Handed, Delivering
  <2>2. Stale(work[Monitor]) => Stale(work[Monitor])'
    BY <1>1, <1>3, <1>4 DEF Stale, Bystanders, OnlyMoves, Workers
  <2> QED BY <1>3, <2>1, <2>2 DEF OnceInv, ActivationOK, rows, subs
<1>8. CopyOK(h)'
  <2>1. Used(u)' = Used(u) /\ sub' = sub
    BY <1>3 DEF Used, subs
  <2> QED BY <1>1, <1>2, <1>3, <2>1 DEF CopyOK, Post
<1>9. ActorOK(h)' /\ FulfilOK(h)'
  BY <1>1, <1>3 DEF ActorOK, FulfilOK, Handed, Delivering, Fulfils, Activates
<1>10. ASSUME NEW g \in Workers PROVE CopiesAgree(g, h)' /\ CopiesAgree(h, g)'
  <2>1. CopiesAgree(g, h) /\ CopiesAgree(h, g) /\ (g # h => pc'[g] = pc[g])
    BY <1>4 DEF OnceInv, Bystanders, OnlyMoves
  <2> QED BY <1>1, <1>3, <2>1 DEF CopiesAgree, Post
<1> QED BY <1>3, <1>4, <1>5, <1>6, <1>7, <1>8, <1>9, <1>10, OnceTogether DEF OnceInv, rows

(* The panel is done with, and nothing is written. *)
LEMMA QuietPanelOnce ==
    ASSUME NobodyActivates, IInv, OnceInv, NEW h \in Workers, pc[h] = "panel",
           Goto(h, "delivering"),
           UNCHANGED <<rows, subs, work, mem, copy, unsaved, renewed>>,
           \A p \in Purchases : purchaseLock'[p] = purchaseLock[p],
           \A u \in Users : subLock'[u] = subLock[u]
    PROVE  OnceInv'
<1> USE ConstantsAssumption
<1>1. TypeOK /\ SessionOK(h) /\ ActorOK(h) /\ CopyOK(h) /\ FulfilOK(h)
  BY DEF IInv, OnceInv
<1>2. PICK u \in Users : u = UserOf(h) /\ u = Recipient[work[h]]
  BY ForRecipient DEF Delivering
<1>3. pc'[h] = "delivering" /\ Handed(h)' = Handed(h)
  BY <1>1 DEF Goto, TypeOK, Handed
<1>4. GoesOn(h, "delivering") /\ Bystanders(h) /\ DeliversOnly(h)
  <2>1. OnlyMoves(h)
    BY <1>1 DEF OnlyMoves, Goto, TypeOK
  <2>2. RespectsLocks(h) /\ DeliversOnly(h)
    BY DEF RespectsLocks, DeliversOnly, rows
  <2> QED BY <1>3, <2>1, <2>2 DEF GoesOn, Bystanders, Delivering
<1>5. PeriodsStay /\ \A v \in Users : SubOK(v)'
  BY SubsStay DEF subs
<1>6. \A q \in Purchases : GrantOK(q)'
  BY <1>3, <1>4, GrantStays DEF Bystanders, rows, subs
<1>7. ActivationOK'
  <2>1. CASE h = Monitor
    <3>1. Activating' => Activating
      BY <1>3, <2>1 DEF Activating, Activates, Delivering
    <3>2. Stale(work[Monitor]) => Stale(work[Monitor])'
      BY <1>4, <2>1 DEF Stale, Bystanders, OnlyMoves, Workers
    <3> QED BY <1>3, <2>1, <3>1, <3>2 DEF OnceInv, ActivationOK, rows, subs
  <2>2. CASE h # Monitor
    BY <1>4, <2>2, OwnPurchase DEF rows, subs
  <2> QED BY <2>1, <2>2
<1>8. CopyOK(h)'
  <2>1. Used(u)' = Used(u) /\ sub' = sub
    BY DEF Used, subs
  <2> QED BY <1>1, <1>2, <2>1 DEF CopyOK, Post
<1>9. ActorOK(h)' /\ FulfilOK(h)'
  BY <1>1, <1>3 DEF ActorOK, FulfilOK, Delivering, Fulfils, Activates
<1>10. ASSUME NEW g \in Workers PROVE CopiesAgree(g, h)' /\ CopiesAgree(h, g)'
  <2>1. CopiesAgree(g, h) /\ CopiesAgree(h, g) /\ (g # h => pc'[g] = pc[g])
    BY <1>4 DEF OnceInv, Bystanders, OnlyMoves
  <2> QED BY <2>1 DEF CopiesAgree, Post
<1> QED BY <1>4, <1>5, <1>6, <1>7, <1>8, <1>9, <1>10, OnceTogether DEF OnceInv, rows

(* A prepared period is written: the purchase had given none, and becomes one of those
   its user's subscription may count. *)
LEMMA PeriodWritten ==
    ASSUME NobodyActivates, IInv, OnceInv, NEW h \in Workers, pc[h] \in {"panel", "delivering"},
           renewed[h], WriteSub(h)
    PROVE  /\ h = Monitor /\ Activates(h) /\ ~ Fulfils(h) /\ ~ unsaved[h] /\ ~ Handed(h)
           /\ granted'[work[h]] > 0
           /\ \A p \in Purchases \ {work[h]} : granted'[p] = granted[p]
           /\ PeriodsStay /\ \A u \in Users : SubOK(u)'
<1> USE ConstantsAssumption
<1>1. TypeOK /\ ActorOK(h) /\ FulfilOK(h) /\ CopyOK(h) /\ pc[h] \in Delivering
  BY DEF IInv, OnceInv, Delivering
<1>2. PICK u \in Users : u = UserOf(h) /\ u = Recipient[work[h]]
  BY <1>1, ForRecipient
<1>3. /\ h = Monitor /\ Activates(h) /\ ~ Fulfils(h) /\ ~ unsaved[h] /\ ~ Handed(h)
      /\ work[h] \in Purchases
  <2>1. ~ Fulfils(h)
    BY <1>1 DEF FulfilOK
  <2> QED BY <1>1, <2>1, ForRecipient DEF Handed
<1>4. granted[work[h]] = 0
  BY <1>1, <1>3 DEF OnceInv, ActivationOK, Activating
<1>5. /\ granted'[work[h]] = 1
      /\ \A p \in Purchases \ {work[h]} : granted'[p] = granted[p]
  BY <1>1, <1>3, <1>4 DEF WriteSub, TypeOK
<1>6. /\ sub'[u] = Renewed(copy[h]) /\ \A v \in Users \ {u} : sub'[v] = sub[v]
      /\ copy[h].periods \in Nat
  BY <1>1, <1>2 DEF WriteSub, TypeOK, SubType
<1>7. PeriodsStay
  BY <1>4, <1>5, <1>6 DEF PeriodsStay, Renewed
<1>8. ASSUME NEW v \in Users PROVE SubOK(v)'
  <2>1. CASE v # u
    <3>1. Used(v)' = Used(v)
      BY <1>2, <1>5, <2>1 DEF Used
    <3> QED BY <1>6, <2>1, <3>1 DEF OnceInv, SubOK
  <2>2. CASE v = u
    <3>1. Used(u)' = Used(u) \cup {work[h]} /\ work[h] \notin Used(u)
      BY <1>2, <1>3, <1>4, <1>5 DEF Used
    <3>2. IsFiniteSet(Used(u))
      BY FS_Subset DEF NobodyActivates, Used
    <3>3. Cardinality(Used(u)') = Cardinality(Used(u)) + 1 /\ Cardinality(Used(u)) \in Nat
      BY <3>1, <3>2, FS_AddElement, FS_CardinalityType
    <3>4. copy[h].periods <= Cardinality(Used(u))
      BY <1>1, <1>2 DEF CopyOK, Post
    <3> QED BY <1>6, <2>2, <3>3, <3>4 DEF SubOK, Renewed
  <2> QED BY <2>1, <2>2
<1> QED BY <1>3, <1>5, <1>7, <1>8

(* The panel answers: what is flushed is committed. *)
LEMMA PanelAnswersOnce ==
    ASSUME NobodyActivates, IInv, OnceInv, NEW h \in Workers, PanelAnswers(h)
    PROVE  OnceInv'
<1> USE ConstantsAssumption
<1>1. TypeOK /\ SessionOK(h) /\ ActorOK(h) /\ CopyOK(h) /\ FulfilOK(h) /\ pc[h] = "panel"
  BY DEF IInv, OnceInv, PanelAnswers
<1>2. PICK u \in Users : u = UserOf(h) /\ u = Recipient[work[h]]
  BY <1>1, ForRecipient DEF Delivering
<1>3. /\ pc'[h] = "delivering" /\ UNCHANGED <<work, mem, copy>> /\ ~ unsaved'[h] /\ ~ renewed'[h]
      /\ WriteFlushed(h) /\ WriteSub(h) /\ Unlock(h) /\ Clean(h) /\ Goto(h, "delivering")
  BY <1>1 DEF PanelAnswers, Goto, Clean, TypeOK
<1>4. CASE ~ renewed[h]
  <2>1. ~ unsaved[h] /\ \A p \in Purchases : purchaseLock[p] # h
    BY <1>1, <1>4 DEF ActorOK, Handed
  <2>2. \A v \in Users : subLock[v] # h
    BY <1>1, <1>4 DEF ActorOK, Handed
  <2>3. UNCHANGED <<rows, subs, unsaved, renewed>>
    BY <1>1, <1>3, <1>4, <2>1 DEF WriteFlushed, WriteSub, Clean, TypeOK
  <2>4. \A p \in Purchases : purchaseLock'[p] = purchaseLock[p]
    BY <1>3, <2>1 DEF Unlock
  <2>5. \A v \in Users : subLock'[v] = subLock[v]
    BY <1>3, <2>2 DEF Unlock
  <2> QED BY <1>1, <1>3, <2>3, <2>4, <2>5, QuietPanelOnce
<1>5. CASE renewed[h]
  <2>1. /\ h = Monitor /\ Activates(h) /\ ~ Fulfils(h) /\ ~ unsaved[h] /\ ~ Handed(h)
        /\ granted'[work[h]] > 0
        /\ \A p \in Purchases \ {work[h]} : granted'[p] = granted[p]
        /\ PeriodsStay /\ \A v \in Users : SubOK(v)'
    BY <1>1, <1>3, <1>5, PeriodWritten
  <2>2. UNCHANGED rows
    BY <1>3, <2>1 DEF WriteFlushed
  <2>3. /\ \A p \in Purchases : purchaseLock'[p] # h
        /\ \A v \in Users : subLock'[v] # h
    BY <1>1, <1>3 DEF Unlock, Workers, TypeOK
  <2>4. Bystanders(h) /\ DeliversOnly(h)
    <3>1. OnlyMoves(h)
      BY <1>1, <1>3 DEF OnlyMoves, Goto, Clean, TypeOK
    <3>2. \A g \in Workers \ {h} :
             /\ \A p \in Purchases : purchaseLock'[p] = g <=> purchaseLock[p] = g
             /\ \A v \in Users : subLock'[v] = g <=> subLock[v] = g
      BY <1>1, <1>3 DEF Unlock, Workers, TypeOK
    <3>3. RespectsLocks(h) /\ DeliversOnly(h)
      BY <1>1, <1>3, <2>2 DEF RespectsLocks, DeliversOnly, Unlock, TypeOK, rows
    <3> QED BY <1>3, <3>1, <3>2, <3>3 DEF Bystanders
  <2>5. \A q \in Purchases : GrantOK(q)'
    <3>1. GrantOK(work[h])'
      BY <1>3 DEF GrantOK, Handed
    <3>2. ASSUME NEW q \in Purchases, q # work[h] PROVE GrantOK(q)'
      BY <2>1, <2>2, <2>4, <3>2, GrantStays DEF Bystanders, rows
    <3>3. work'[h] = work[h]
      BY <1>3
    <3> QED BY <1>3, <3>2 DEF GrantOK, Handed
  <2>6. ActivationOK'
    <3>1. Activating
      BY <1>1, <2>1 DEF Activating, Delivering
    <3>2. Stale(work[Monitor]) => Stale(work[Monitor])'
      BY <1>3, <2>1, <2>4 DEF Stale, Bystanders, OnlyMoves, Workers
    <3>3. Handed(Monitor)'
      BY <1>3, <2>1 DEF Handed
    <3> QED BY <1>3, <2>2, <3>1, <3>2, <3>3 DEF OnceInv, ActivationOK, rows
  <2>7. CopyOK(h)'
    <3>1. copy[h].periods \in Nat /\ copy[h].periods <= Cardinality(Used(u))
      BY <1>1, <1>2 DEF CopyOK, Post, TypeOK, SubType
    <3>2. /\ Cardinality(Used(u)) \in Nat /\ Cardinality(Used(u)') \in Nat
          /\ Cardinality(Used(u)) <= Cardinality(Used(u)')
      BY <2>1, UsedGrows
    <3>3. copy[h].periods <= Cardinality(Used(u)')
      BY <3>1, <3>2
    <3> QED BY <1>1, <1>2, <1>3, <2>1, <3>3 DEF CopyOK, Post, PeriodsStay
  <2>8. ActorOK(h)' /\ FulfilOK(h)'
    BY <1>1, <1>3, <2>1, <2>3 DEF ActorOK, FulfilOK, Delivering, Fulfils, Activates
  <2>9. ASSUME NEW g \in Workers PROVE CopiesAgree(g, h)' /\ CopiesAgree(h, g)'
    <3>1. CopiesAgree(g, h) /\ CopiesAgree(h, g) /\ (g # h => pc'[g] = pc[g])
      BY <2>4 DEF OnceInv, Bystanders, OnlyMoves
    <3> QED BY <1>1, <1>3, <3>1 DEF CopiesAgree, Post
  <2> QED BY <2>1, <2>2, <2>4, <2>5, <2>6, <2>7, <2>8, <2>9, OnceTogether DEF OnceInv, rows
<1> QED BY <1>4, <1>5

(* The panel does not answer: nothing is committed. *)
LEMMA PanelUnavailableOnce ==
    ASSUME NobodyActivates, IInv, OnceInv, NEW h \in Workers, PanelUnavailable(h)
    PROVE  OnceInv'
BY QuietPanelOnce DEF PanelUnavailable, locks, session

(* Nobody else who fulfils the purchase will hold it: he had its lock, or has seen an
   expired subscription where its deliverer saw none. *)
LEMMA NobodyHolds ==
    ASSUME NobodyActivates, IInv, OnceInv, NEW h \in Workers, pc[h] = "delivering", CanWrite(h),
           NEW g \in Workers \ {h}, Holds(g, work[h])
    PROVE  FALSE
<1> USE ConstantsAssumption
<1>1. /\ FulfilOK(g) /\ FulfilOK(h) /\ CopiesAgree(h, g) /\ g # NoOne
      /\ pc[g] = "loaded" /\ work[g] = work[h] /\ Fulfils(g) /\ MustHold(g)
  BY DEF OnceInv, Holds, Workers
<1>2. work[h] \in Gifts /\ copy[g].row = "expired"
  BY <1>1 DEF FulfilOK, CanWrite, MustHold
<1>3. CASE Fulfils(h)
  <2>1. copy[h].row = "none"
    BY <1>1, <1>2, <1>3 DEF FulfilOK
  <2> QED BY <1>1, <1>2, <2>1 DEF CopiesAgree, Post
<1>4. CASE ~ Fulfils(h)
  <2>1. h = Monitor /\ Activates(h)
    BY <1>4, ForRecipient DEF Delivering
  <2>2. Stale(work[h]) /\ g \in Webhooks
    BY <2>1 DEF OnceInv, ActivationOK, Activating, Delivering, Workers, NobodyActivates
  <2> QED BY <1>1, <2>2 DEF Stale, AtWork
<1> QED BY <1>3, <1>4

(* The purchase is delivered. *)
LEMMA DeliverOnce ==
    ASSUME NobodyActivates, IInv, OnceInv, NEW h \in Workers, Deliver(h)
    PROVE  OnceInv'
<1> USE ConstantsAssumption
<1>1. TypeOK /\ SessionOK(h) /\ ActorOK(h) /\ pc[h] = "delivering" /\ CanWrite(h)
  BY DEF IInv, OnceInv, Deliver
<1>2. UserOf(h) = Recipient[work[h]] /\ work[h] \in Purchases
  BY <1>1, ForRecipient DEF Delivering
<1>3. /\ \A p \in Purchases \ {work[h]} : status'[p] = status[p] /\ owner'[p] = owner[p]
      /\ status'[work[h]] = "delivered" /\ owner'[work[h]] = UserOf(h)
  BY <1>1, <1>2 DEF Deliver, WriteRow, TypeOK
<1>4. /\ pc'[h] \in {"idle", "recording"} /\ ~ unsaved'[h] /\ ~ renewed'[h]
      /\ pc'[h] = "recording" => work' = work
      /\ pc'[h] = "idle" => mem'[h] = NoRow
      /\ OnlyMoves(h) /\ \A g \in Workers \ {h} : copy'[g] = copy[g]
      /\ WriteSub(h) /\ Unlock(h)
  <2>1. CASE work[h] \in Gifts
    BY <1>1, <2>1 DEF Deliver, Leave, Goto, Clean, OnlyMoves, TypeOK
  <2>2. CASE work[h] \notin Gifts
    BY <1>1, <2>2 DEF Deliver, Goto, Clean, OnlyMoves, TypeOK
  <2> QED BY <2>1, <2>2
<1>5. Bystanders(h)
  <2>1. \A g \in Workers \ {h} :
           /\ \A p \in Purchases : purchaseLock'[p] = g <=> purchaseLock[p] = g
           /\ \A v \in Users : subLock'[v] = g <=> subLock[v] = g
    BY <1>1, <1>4 DEF Unlock, Workers, TypeOK
  <2>2. KeepsLocks(h)
    BY <1>1, <1>4 DEF KeepsLocks, Unlock, TypeOK
  <2>3. RespectsLocks(h)
    BY <1>1, <1>2, <1>3, <2>2 DEF RespectsLocks, KeepsLocks, CanWrite
  <2> QED BY <1>4, <2>1, <2>3 DEF Bystanders
<1>6. DeliversOnly(h)
  <2>1. ASSUME NEW g \in Workers \ {h} PROVE ~ Holds(g, work[h])
    BY <1>1, <2>1, NobodyHolds
  <2> QED BY <1>3, <2>1 DEF DeliversOnly
<1>7. /\ PeriodsStay /\ \A v \in Users : SubOK(v)'
      /\ \A p \in Purchases \ {work[h]} : granted'[p] = granted[p]
  <2>1. CASE renewed[h]
    BY <1>1, <1>4, <2>1, PeriodWritten
  <2>2. CASE ~ renewed[h]
    BY <1>4, <2>2, SubsStay DEF WriteSub, subs
  <2> QED BY <2>1, <2>2
<1>8. ASSUME NEW q \in Purchases PROVE GrantOK(q)'
  <2>1. CASE q = work[h]
    BY <1>3, <2>1 DEF GrantOK
  <2>2. CASE q # work[h]
    BY <1>3, <1>4, <1>7, <2>2, GrantStays
  <2> QED BY <2>1, <2>2
<1>9. ActivationOK'
  <2>1. CASE h = Monitor
    BY <1>4, <2>1 DEF ActivationOK, Activating, Delivering
  <2>2. CASE h # Monitor
    <3>1. h \in Webhooks
      BY <2>2 DEF NobodyActivates, Workers
    <3>2. ASSUME Activating PROVE work[h] # work[Monitor] /\ work[Monitor] \in Purchases
      BY <1>1, <3>1, <3>2, ActivatesBacked DEF OnceInv, ActivationOK, Stale, AtWork
    <3> QED BY <1>3, <1>4, <1>7, <2>2, <3>2, ActivationStays DEF AtWork
  <2> QED BY <2>1, <2>2
<1>10. ActorOK(h)' /\ CopyOK(h)' /\ FulfilOK(h)'
  BY <1>4 DEF ActorOK, CopyOK, FulfilOK, Handed, Delivering, Post
<1>11. \A g \in Workers : CopiesAgree(g, h)' /\ CopiesAgree(h, g)'
  BY <1>4 DEF CopiesAgree, Post
<1>12. \A p \in Purchases : owner'[p] \in {NoOne, Recipient[p]}
  BY <1>2, <1>3 DEF OnceInv
<1> QED BY <1>5, <1>6, <1>7, <1>8, <1>9, <1>10, <1>11, <1>12, OnceTogether

(* The payment is recorded, after the delivery. *)
LEMMA RecordPaymentOnce ==
    ASSUME NobodyActivates, IInv, OnceInv, NEW h \in Workers, RecordPayment(h)
    PROVE  OnceInv'
<1>1. /\ Leave(h, "idle") /\ UNCHANGED <<rows, subs, locks>> /\ ~ Handed(h)
  BY DEF RecordPayment, Handed
<1>2. RespectsLocks(h) /\ DeliversOnly(h)
  BY <1>1 DEF RespectsLocks, DeliversOnly, rows, locks
<1> QED BY <1>1, <1>2, LeaveOnce DEF OnceInv, rows

(* The database refuses, which costs a granted purchase nothing: who has granted it
   waits for no lock that closes a circle. *)
LEMMA RefusedOnce ==
    ASSUME NobodyActivates, IInv, OnceInv, NEW h \in Workers,
           UniqueViolation(h) \/ DeadlockDetected(h)
    PROVE  OnceInv'
<1> USE ConstantsAssumption
<1>1. TypeOK /\ ActorOK(h) /\ Abort(h)
  BY DEF IInv, OnceInv, UniqueViolation, DeadlockDetected
<1>2. ~ Handed(h)
  <2>1. CASE UniqueViolation(h)
    BY <2>1 DEF UniqueViolation, CanRenew, Handed
  <2>2. CASE DeadlockDetected(h)
    <3> SUFFICES ASSUME Handed(h) PROVE FALSE
      OBVIOUS
    <3>1. PICK z \in Workers : WaitsFor(z, h)
      BY <2>2 DEF DeadlockDetected, InCycle
    <3>2. SessionOK(z)
      BY DEF IInv
    <3>3. CASE WaitsForPurchase(z) /\ purchaseLock[work[z]] = h
      <4>1. work[z] \in Purchases
        BY <3>2, <3>3 DEF WaitsForPurchase, SessionOK
      <4> QED BY <1>1, <3>3, <4>1 DEF ActorOK
    <3>4. CASE WaitsForSub(z) /\ subLock[UserOf(z)] = h
      <4>1. UserOf(z) \in Users
        BY <3>4, ForRecipient DEF WaitsForSub, Delivering
      <4> QED BY <1>1, <3>4, <4>1 DEF ActorOK
    <3> QED BY <3>1, <3>3, <3>4 DEF WaitsFor
  <2> QED BY <2>1, <2>2
<1>3. /\ Leave(h, IF h \in Webhooks THEN "requeue" ELSE "idle") /\ Unlock(h)
      /\ UNCHANGED <<rows, subs>>
  BY <1>1 DEF Abort
<1>4. RespectsLocks(h) /\ DeliversOnly(h)
  <2>1. KeepsLocks(h)
    BY <1>1, <1>3 DEF KeepsLocks, Unlock, TypeOK
  <2> QED BY <1>3, <2>1 DEF RespectsLocks, KeepsLocks, DeliversOnly, rows
<1> QED BY <1>2, <1>3, <1>4, LeaveOnce DEF OnceInv, rows

-----------------------------------------------------------------------------
(* Nothing has been granted yet. *)
LEMMA OnceInit == Init => OnceInv
<1> SUFFICES ASSUME Init PROVE OnceInv
  OBVIOUS
<1> USE ConstantsAssumption DEF Init
<1>1. \A h \in Workers : pc[h] = "idle" /\ ~ unsaved[h] /\ ~ renewed[h]
  OBVIOUS
<1>2. ASSUME NEW u \in Users PROVE SubOK(u)
  <2>1. sub[u] \in {NoSub, OldSub, LiveSub}
    OBVIOUS
  <2>2. Used(u) = {}
    BY DEF Used
  <2>3. Cardinality(Used(u)) = 0
    BY <2>2, FS_EmptySet
  <2> QED BY <2>1, <2>3 DEF SubOK, NoSub, OldSub, LiveSub
<1>3. \A p \in Purchases : GrantOK(p) /\ owner[p] \in {NoOne, Recipient[p]}
  BY DEF GrantOK
<1>4. \A h \in Workers : ActorOK(h) /\ CopyOK(h) /\ FulfilOK(h)
  BY <1>1 DEF ActorOK, CopyOK, FulfilOK, Handed, Delivering, Post
<1>5. ActivationOK
  BY DEF ActivationOK, Activating, Delivering, Workers
<1>6. \A g, h \in Workers : CopiesAgree(g, h)
  BY <1>1 DEF CopiesAgree, Post
<1> QED BY <1>2, <1>3, <1>4, <1>5, <1>6 DEF OnceInv

(* Every step that is no fault keeps the invariant. *)
LEMMA OnceStep ==
    ASSUME NobodyActivates, IInv, OnceInv, [Next]_vars, faults' = faults PROVE OnceInv'
<1>1. IInv' /\ Monitor \in Workers /\ Webhooks \subseteq Workers
  BY IInvStep DEF Workers
<1>2. CASE UNCHANGED vars
  <2>1. UNCHANGED <<rows, subs, locks, pc, work, mem, unsaved, copy, renewed>>
    BY <1>2 DEF vars, session
  <2>2. /\ \A u \in Users : SubOK(u)' = SubOK(u)
        /\ \A p \in Purchases : GrantOK(p)' = GrantOK(p)
    BY <2>1 DEF SubOK, Used, GrantOK, Handed, rows, subs
  <2>3. \A h \in Workers : ActorOK(h)' = ActorOK(h)
    BY <2>1 DEF ActorOK, Handed, Activates, locks
  <2>4. \A h \in Workers : CopyOK(h)' = CopyOK(h) /\ FulfilOK(h)' = FulfilOK(h)
    BY <2>1 DEF CopyOK, FulfilOK, Used, Fulfils, MustHold, rows, subs, locks
  <2>5. ActivationOK' = ActivationOK
    BY <2>1 DEF ActivationOK, Activating, Activates, Handed, Stale, rows, subs
  <2>6. \A g, h \in Workers : CopiesAgree(g, h)' = CopiesAgree(g, h)
    BY <2>1 DEF CopiesAgree
  <2> QED BY <2>1, <2>2, <2>3, <2>4, <2>5, <2>6 DEF OnceInv, rows
<1>3. ASSUME NEW p \in Purchases, CreatePurchase(p) \/ ProviderPays(p) PROVE OnceInv'
  BY <1>1, <1>3, WorldOnce
<1>4. ASSUME NEW u \in Users, PeriodEnds(u) PROVE OnceInv'
  BY <1>1, <1>4, WorldOnce
<1>5. ASSUME NEW w \in Webhooks, WebhookStep(w) PROVE OnceInv'
  <2>1. ASSUME NEW p \in Purchases, ReceiveWebhook(w, p) PROVE OnceInv'
    BY <1>1, <2>1, EnterOnce DEF ReceiveWebhook
  <2> QED BY <1>1, <1>5, <2>1, DecisionsOnce, TakersOnce DEF WebhookStep
<1>6. ASSUME MonitorStep PROVE OnceInv'
  <2>1. ASSUME NEW p \in Purchases, PickPending(p) \/ RetryPaid(p) \/ PickExhausted(p)
        PROVE  OnceInv'
    BY <1>1, <2>1, EnterOnce DEF PickPending, RetryPaid, PickExhausted
  <2>2. ASSUME NEW p \in Purchases, RetryActivation(p) PROVE OnceInv'
    BY <2>2, RetryActivationOnce
  <2>3. CASE Recover \/ FailExhausted
    BY <1>1, <2>3, DecisionsOnce
  <2>4. CASE RetryFulfils
    BY <1>1, <2>4, TakersOnce
  <2> QED BY <1>6, <2>1, <2>2, <2>3, <2>4 DEF MonitorStep, Pick
<1>7. ASSUME NEW h \in Workers, DeliveryStep(h) PROVE OnceInv'
  BY <1>7, TakersOnce, LoadSubscriptionOnce, LoadExpiredOnce, HoldOnce, GrantPeriodOnce,
     PreparePeriodOnce, PanelAnswersOnce, PanelUnavailableOnce, DeliverOnce,
     RecordPaymentOnce, RefusedOnce DEF DeliveryStep
<1>8. ASSUME \/ \E h \in Workers : HandlerFails(h) \/ FailUnpriced(h)
             \/ Crash
      PROVE  FALSE
  <2>1. faults' = faults + 1
    BY <1>8 DEF HandlerFails, FailUnpriced, Crash, Fault
  <2>2. faults \in Nat
    BY ConstantsAssumption DEF IInv, TypeOK
  <2> QED BY <2>1, <2>2
<1> QED BY <1>2, <1>3, <1>4, <1>5, <1>6, <1>7, <1>8 DEF Next, NobodyActivates

(* No fault is forgotten. *)
LEMMA FaultsStay == ASSUME IInv, [Next]_vars, faults' = 0 PROVE faults = 0 /\ faults' = faults
<1>1. faults \in Nat
  BY ConstantsAssumption DEF IInv, TypeOK
<1>2. faults' = faults \/ faults' = faults + 1
  BY DEF Next, vars, CreatePurchase, ProviderPays, PeriodEnds, WebhookStep, ReceiveWebhook,
     WebhookAnswers, WebhookFulfils, Requeue, MonitorStep, Pick, PickPending, RetryPaid,
     RetryActivation, PickExhausted, Recover, FailExhausted, RetryFulfils, ActivatorStep,
     OpenActivationLink, PressGiftButton, RedeemCode, DeliveryStep, EnterActivation,
     LoadSubscription, LoadExpired, Hold, GrantPeriod, PreparePeriod, PanelAnswers,
     PanelUnavailable, Deliver, RecordPayment, UniqueViolation, DeadlockDetected,
     HandlerFails, FailUnpriced, Crash, Fault
<1> QED BY <1>1, <1>2

(* What a subscription counts was paid for by its user. *)
LEMMA OnceMeansOnePeriod ==
    ASSUME NobodyActivates, IInv, OnceIInv PROVE OnePeriodPerPayment
<1> SUFFICES ASSUME faults = 0, NEW u \in Users
             PROVE  sub[u].periods
                    <= Cardinality({p \in provider : u \in {Recipient[p], owner[p]}})
  BY DEF OnePeriodPerPayment
<1> DEFINE Paid == {p \in provider : u \in {Recipient[p], owner[p]}}
<1>1. TypeOK /\ TablesOK /\ SubOK(u)
  BY DEF IInv, OnceIInv, OnceInv
<1>2. Used(u) \subseteq Paid /\ Paid \subseteq Purchases
  BY <1>1 DEF Used, TypeOK, TablesOK, NothingForNothing
<1>3. IsFiniteSet(Paid)
  BY <1>2, FS_Subset DEF NobodyActivates
<1> HIDE DEF Paid
<1>4. /\ Cardinality(Used(u)) \in Nat /\ Cardinality(Paid) \in Nat
      /\ Cardinality(Used(u)) <= Cardinality(Paid)
  <2>1. IsFiniteSet(Used(u))
    BY <1>2, <1>3, FS_Subset
  <2> QED BY <1>2, <1>3, <2>1, FS_Subset, FS_CardinalityType
<1>5. sub[u].periods \in Nat /\ sub[u].periods <= Cardinality(Used(u))
  BY <1>1 DEF SubOK, TypeOK, SubType
<1>6. sub[u].periods <= Cardinality(Paid)
  BY <1>4, <1>5
<1> QED BY <1>6 DEF Paid

(* As long as nothing fails, and nobody but the webhooks and the monitor delivers, no
   subscription covers more bought periods than there are payments for its user. *)
THEOREM OnePeriodPerPaymentAlways ==
    ASSUME NobodyActivates PROVE Spec => []OnePeriodPerPayment
<1>1. Init => OnceIInv
  BY OnceInit DEF OnceIInv
<1>2. IInv /\ OnceIInv /\ [Next]_vars => OnceIInv'
  BY OnceStep, FaultsStay DEF OnceIInv
<1>3. IInv /\ OnceIInv => OnePeriodPerPayment
  BY OnceMeansOnePeriod
<1> QED BY <1>1, <1>2, <1>3, IInvAlways, PTL DEF Spec
=============================================================================
