---------------------------- MODULE AppleIapProofs ----------------------------
(***************************************************************************)
(* Proofs about AppleIap, for any number of purchases, events, handlers    *)
(* and faults: the money of the purchases in force is there, and once      *)
(* everything has been answered a purchase is what Apple last said.        *)
(***************************************************************************)
EXTENDS AppleIap, Sums

(* What the proofs ask of the constants. *)
ConstantsOK ==
    /\ IsFiniteSet(Purchases)
    /\ Amount \in [Purchases -> Nat]
    /\ MaxEvents \in [Purchases -> Nat]
    /\ MaxFaults \in Nat
    /\ Requests \cap Webhooks = {}

(* A charge is only worked on after the purchase, and a handler has seen or made the
   purchase's row before it settles the notification. *)
JobsOK ==
    /\ \A h \in Handlers : ~ At(h, "idle") => apple[Purchase(h)] # 0
    /\ \A h \in Handlers : At(h, "closing") => h \in Webhooks /\ row[Purchase(h)] # "none"

TypeInv ==
    /\ TypeOK
    /\ apple = [p \in Purchases |-> apple[p]]
    /\ job = [h \in Handlers |-> job[h]]
    /\ JobsOK

(* Which notifications there are. *)
LEMMA NotificationsAre ==
    ASSUME ConstantsOK, NEW p \in Purchases, NEW k \in 1..MaxEvents[p]
    PROVE  <<p, k>> \in Notifications
BY DEF Notifications

(* The one that a webhook works on. *)
LEMMA JobOf ==
    ASSUME ConstantsOK, TypeInv, NEW h \in Handlers, ~ At(h, "idle")
    PROVE  /\ Purchase(h) \in Purchases
           /\ h \in Webhooks => job[h] = <<Purchase(h), 1>> /\ job[h] \in Notifications
<1>1. job[h] \in Purchases \X (IF h \in Webhooks THEN {1} ELSE {0})
  BY DEF TypeInv, TypeOK
<1>2. Purchase(h) \in Purchases /\ (h \in Webhooks => job[h] = <<Purchase(h), 1>>)
  BY <1>1 DEF Purchase
<1>3. ASSUME h \in Webhooks PROVE 1 \in 1..MaxEvents[Purchase(h)]
  <2>1. apple[Purchase(h)] # 0
    BY <1>3 DEF TypeInv, JobsOK
  <2>2. apple[Purchase(h)] \in 0..MaxEvents[Purchase(h)] /\ MaxEvents[Purchase(h)] \in Nat
    BY <1>2 DEF TypeInv, TypeOK, ConstantsOK
  <2> QED BY <2>1, <2>2
<1> QED BY <1>2, <1>3, NotificationsAre

(* An answer keeps the types. *)
LEMMA AnswerType ==
    ASSUME ConstantsOK, TypeInv, NEW n \in Notifications, Answer(n)
    PROVE  answered' \in SUBSET Notifications /\ faults' \in 0..MaxFaults
BY DEF ConstantsOK, TypeInv, TypeOK, Answer, Fault

(* So does the end of a handler, and the others go on. *)
LEMMA EndType ==
    ASSUME TypeInv, NEW h \in Handlers, End(h)
    PROVE  /\ pc' \in [Handlers -> {"idle", "looking", "crediting", "closing"}]
           /\ job' = [g \in Handlers |-> job'[g]]
           /\ pc'[h] = "idle" /\ job'[h] = Nil
           /\ \A g \in Handlers \ {h} : pc'[g] = pc[g] /\ job'[g] = job[g]
<1>1. job' = [g \in Handlers |-> IF g = h THEN Nil ELSE job[g]]
  BY DEF End, TypeInv
<1>2. pc' = [g \in Handlers |-> IF g = h THEN "idle" ELSE pc[g]]
  BY DEF End, Goto, TypeInv, TypeOK
<1> QED BY <1>1, <1>2 DEF TypeInv, TypeOK

(* The types of the handlers after a step of h, when no purchase is forgotten. *)
Handled ==
    /\ pc' \in [Handlers -> {"idle", "looking", "crediting", "closing"}]
    /\ job' = [g \in Handlers |-> job'[g]]
    /\ \A g \in Handlers : job'[g] \in (IF pc'[g] = "idle" THEN {Nil}
                              ELSE Purchases \X (IF g \in Webhooks THEN {1} ELSE {0}))
    /\ JobsOK'

(* No purchase is forgotten when a handler ends. *)
LEMMA EndHandled ==
    ASSUME ConstantsOK, TypeInv, NEW h \in Handlers, End(h), UNCHANGED apple,
           \A p \in Purchases : row[p] # "none" => row'[p] # "none"
    PROVE  Handled
<1>1. /\ pc' \in [Handlers -> {"idle", "looking", "crediting", "closing"}]
      /\ job' = [g \in Handlers |-> job'[g]]
      /\ pc'[h] = "idle" /\ job'[h] = Nil
      /\ \A g \in Handlers \ {h} : pc'[g] = pc[g] /\ job'[g] = job[g]
  BY EndType
<1>2. \A g \in Handlers : job'[g] \in (IF pc'[g] = "idle" THEN {Nil}
                              ELSE Purchases \X (IF g \in Webhooks THEN {1} ELSE {0}))
  BY <1>1 DEF TypeInv, TypeOK, At
<1>3. ASSUME NEW g \in Handlers, pc'[g] # "idle"
      PROVE  /\ pc[g] = pc'[g] /\ job'[g] = job[g] /\ job[g][1] \in Purchases
             /\ apple[job[g][1]] # 0
             /\ pc[g] = "closing" => g \in Webhooks /\ row[job[g][1]] # "none"
  BY <1>1, <1>3, JobOf DEF TypeInv, JobsOK, At, Purchase
<1>4. JobsOK'
  BY <1>3 DEF JobsOK, At, Purchase, Handlers
<1> QED BY <1>1, <1>2, <1>4 DEF Handled

(* A handler that only moves on. *)
LEMMA GotoHandled ==
    ASSUME ConstantsOK, TypeInv, NEW h \in Handlers, NEW label \in {"looking", "crediting", "closing"},
           ~ At(h, "idle"), Goto(h, label), UNCHANGED <<apple, job>>,
           label = "closing" => h \in Webhooks /\ row'[Purchase(h)] # "none",
           \A p \in Purchases : row[p] # "none" => row'[p] # "none"
    PROVE  Handled
<1>1. pc' = [g \in Handlers |-> IF g = h THEN label ELSE pc[g]]
  BY DEF Goto, TypeInv, TypeOK
<1>2. /\ pc' \in [Handlers -> {"idle", "looking", "crediting", "closing"}]
      /\ job' = [g \in Handlers |-> job'[g]]
  BY <1>1 DEF TypeInv, TypeOK
<1>3. \A g \in Handlers : job'[g] \in (IF pc'[g] = "idle" THEN {Nil}
                              ELSE Purchases \X (IF g \in Webhooks THEN {1} ELSE {0}))
  BY <1>1 DEF TypeInv, TypeOK, At
<1>4. ASSUME NEW g \in Handlers, pc'[g] # "idle"
      PROVE  /\ job[g][1] \in Purchases
             /\ apple[job[g][1]] # 0
             /\ pc'[g] = "closing" => g \in Webhooks /\ row'[job[g][1]] # "none"
  BY <1>1, <1>4, JobOf DEF TypeInv, JobsOK, At, Purchase
<1>5. JobsOK'
  BY <1>4 DEF JobsOK, At, Purchase, Handlers
<1> QED BY <1>2, <1>3, <1>5 DEF Handled

(* A handler that begins. *)
LEMMA StartHandled ==
    ASSUME ConstantsOK, TypeInv, NEW h \in Handlers, NEW p \in Purchases, NEW k,
           k = IF h \in Webhooks THEN 1 ELSE 0, Start(h, p, k), apple[p] > 0,
           UNCHANGED <<apple, row>>
    PROVE  Handled
<1>1. pc' = [g \in Handlers |-> IF g = h THEN "looking" ELSE pc[g]]
  BY DEF Start, Goto, TypeInv, TypeOK
<1>2. job' = [g \in Handlers |-> IF g = h THEN <<p, k>> ELSE job[g]]
  BY DEF Start, TypeInv
<1>3. \A g \in Handlers : pc[g] # "idle" => Purchase(g) \in Purchases
  BY JobOf DEF At
<1>4. /\ pc' \in [Handlers -> {"idle", "looking", "crediting", "closing"}]
      /\ job' = [g \in Handlers |-> job'[g]]
  BY <1>1, <1>2 DEF TypeInv, TypeOK
<1>5. \A g \in Handlers : job'[g] \in (IF pc'[g] = "idle" THEN {Nil}
                              ELSE Purchases \X (IF g \in Webhooks THEN {1} ELSE {0}))
  BY <1>1, <1>2 DEF TypeInv, TypeOK, At
<1>6. ASSUME NEW g \in Handlers, pc'[g] # "idle"
      PROVE  /\ apple[job'[g][1]] # 0
             /\ pc'[g] = "closing" => g \in Webhooks /\ row[job'[g][1]] # "none"
  <2>1. CASE g = h
    BY <1>1, <1>2, <2>1 DEF TypeInv, TypeOK
  <2>2. CASE g # h
    BY <1>1, <1>2, <1>6, <2>2 DEF TypeInv, JobsOK, At, Purchase
  <2> QED BY <2>1, <2>2
<1>7. JobsOK'
  BY <1>6 DEF JobsOK, At, Purchase, Handlers
<1> QED BY <1>4, <1>5, <1>7 DEF Handled

(* A fulfilment is committed. *)
LEMMA CommittedType ==
    ASSUME ConstantsOK, TypeInv, NEW h \in Handlers, At(h, "crediting"), Committed(h),
           UNCHANGED apple, row'[Purchase(h)] # "none",
           \A p \in Purchases : row[p] # "none" => row'[p] # "none"
    PROVE  /\ Handled
           /\ note' \in [Notifications -> {"none", "received", "failed", "processed"}]
<1>1. ~ At(h, "idle")
  BY DEF At
<1>2. CASE h \in Webhooks
  <2>1. Goto(h, "closing") /\ UNCHANGED job
    BY <1>2 DEF Committed
  <2>2. Handled
    BY <1>1, <1>2, <2>1, GotoHandled
  <2>3. job[h] \in Notifications
    BY <1>1, <1>2, JobOf
  <2> QED BY <1>2, <2>2, <2>3 DEF Committed, TypeInv, TypeOK
<1>3. CASE h \notin Webhooks
  BY <1>1, <1>3, EndHandled DEF Committed, TypeInv, TypeOK
<1> QED BY <1>2, <1>3

(* What an answered refund or reversal leaves. *)
LEMMA SettleType ==
    ASSUME ConstantsOK, TypeInv, NEW p \in Purchases, NEW k \in 2..MaxEvents[p], Settle(p, k)
    PROVE  /\ note' \in [Notifications -> {"none", "received", "failed", "processed"}]
           /\ answered' \in SUBSET Notifications /\ faults' \in 0..MaxFaults
           /\ overtaken' \in SUBSET Purchases /\ raced' \in SUBSET Notifications
<1>1. <<p, k>> \in Notifications
  BY NotificationsAre DEF ConstantsOK
<1>2. answered' \in SUBSET Notifications /\ faults' \in 0..MaxFaults
  BY <1>1, AnswerType DEF Settle
<1> QED BY <1>1, <1>2 DEF Settle, TypeInv, TypeOK

(* The least of an amount and what is left. *)
LEMMA LeastOfTwo ==
    ASSUME NEW a \in Nat, NEW b \in Nat
    PROVE  Min({a, b}) = IF a <= b THEN a ELSE b
<1> DEFINE m == IF a <= b THEN a ELSE b
<1>1. m \in {a, b} /\ \A y \in {a, b} : m <= y
  OBVIOUS
<1>2. \A x \in {a, b} : (\A y \in {a, b} : x <= y) => x = m
  OBVIOUS
<1>3. Min({a, b}) \in {a, b} /\ \A y \in {a, b} : Min({a, b}) <= y
  BY <1>1 DEF Min
<1> QED BY <1>2, <1>3

-----------------------------------------------------------------------------
(* Every step keeps the types. *)
LEMMA TypeStep ==
    ASSUME ConstantsOK, TypeInv, [Next]_vars
    PROVE  TypeInv'
<1>1. /\ TypeOK /\ JobsOK /\ apple = [p \in Purchases |-> apple[p]]
      /\ job = [h \in Handlers |-> job[h]]
  BY DEF TypeInv
<1>2. CASE UNCHANGED vars
  BY <1>1, <1>2 DEF vars, TypeInv, TypeOK, JobsOK, At, Purchase
<1>3. ASSUME UNCHANGED <<apple, row>>, Handled,
             note' \in [Notifications -> {"none", "received", "failed", "processed"}],
             answered' \in SUBSET Notifications, UNCHANGED <<balance, spent, shortfall, overtaken>>,
             raced' \in SUBSET Notifications, faults' \in 0..MaxFaults
      PROVE  TypeInv'
  BY <1>1, <1>3 DEF TypeInv, TypeOK, Handled, At
<1>4. ASSUME UNCHANGED <<apple, pc, job>>,
             \A p \in Purchases : row[p] # "none" => row'[p] # "none"
      PROVE  Handled
  <2>1. \A h \in Handlers : ~ At(h, "idle") => Purchase(h) \in Purchases
    BY JobOf
  <2> QED BY <1>1, <1>4, <2>1 DEF TypeOK, JobsOK, Handled, At, Purchase
<1>5. ASSUME NEW p \in Purchases, AppleActs(p) PROVE TypeInv'
  <2>1. apple' = [q \in Purchases |-> IF q = p THEN apple[p] + 1 ELSE apple[q]]
    BY <1>1, <1>5 DEF AppleActs
  <2>2. \A q \in Purchases : apple'[q] \in 0..MaxEvents[q] /\ (apple[q] # 0 => apple'[q] # 0)
    BY <1>1, <1>5, <2>1 DEF AppleActs, TypeOK, ConstantsOK
  <2>3. \A h \in Handlers : ~ At(h, "idle") => Purchase(h) \in Purchases
    BY JobOf
  <2>4. UNCHANGED <<row, note, answered, balance, spent, shortfall, pc, job, overtaken, raced,
                    faults>>
    BY <1>5 DEF AppleActs
  <2>5. JobsOK'
    BY <1>1, <2>2, <2>3, <2>4 DEF JobsOK, At, Purchase, Handlers
  <2> QED BY <1>1, <2>1, <2>2, <2>4, <2>5 DEF TypeInv, TypeOK, At
<1>6. CASE Spend
  <2>1. balance' \in Nat /\ spent' \in Nat
    BY <1>1, <1>6 DEF Spend, TypeOK
  <2> QED BY <1>1, <1>6, <2>1 DEF Spend, TypeInv, TypeOK, JobsOK, At, Purchase
<1>7. ASSUME NEW h \in Requests, NEW p \in Purchases, Post(h, p) PROVE TypeInv'
  <2>1. h \in Handlers /\ h \notin Webhooks
    BY DEF ConstantsOK, Handlers
  <2>2. Handled
    BY <1>7, <2>1, StartHandled DEF Post
  <2> QED BY <1>1, <1>3, <1>7, <2>2 DEF Post, TypeOK
<1>8. ASSUME NEW h \in Webhooks, NEW p \in Purchases, DeliverCharge(h, p) PROVE TypeInv'
  <2>1. Handled
    BY <1>8, StartHandled DEF DeliverCharge, Handlers
  <2> QED BY <1>1, <1>3, <1>8, <2>1 DEF DeliverCharge, TypeOK
<1>9. ASSUME NEW h \in Handlers, Found(h) PROVE TypeInv'
  <2>1. /\ ~ At(h, "idle") /\ End(h)
        /\ UNCHANGED <<apple, row, balance, spent, shortfall, overtaken, raced>>
    BY <1>9 DEF Found, At
  <2>2. Handled
    BY <2>1, EndHandled
  <2>3. CASE h \in Webhooks
    <3>1. job[h] \in Notifications /\ Answer(job[h])
      BY <1>9, <2>1, <2>3, JobOf DEF Found
    <3>2. note' \in [Notifications -> {"none", "received", "failed", "processed"}]
      BY <1>1, <1>9, <2>3, <3>1 DEF Found, TypeOK
    <3> QED BY <1>1, <1>3, <2>1, <2>2, <3>1, <3>2, AnswerType DEF TypeOK
  <2>4. CASE h \notin Webhooks
    BY <1>1, <1>3, <1>9, <2>1, <2>2, <2>4 DEF Found, TypeOK
  <2> QED BY <2>3, <2>4
<1>10. ASSUME NEW h \in Handlers, NotFound(h) PROVE TypeInv'
  <2>1. Handled
    BY <1>10, GotoHandled DEF NotFound, At
  <2> QED BY <1>1, <1>3, <1>10, <2>1 DEF NotFound, TypeOK
<1>11. ASSUME NEW h \in Handlers, Credit(h) PROVE TypeInv'
  <2>1. ~ At(h, "idle") /\ Purchase(h) \in Purchases
    BY <1>11, JobOf DEF Credit, At
  <2>2. /\ row' \in [Purchases -> {"none", "credited", "refunded"}] /\ balance' \in Nat
        /\ row'[Purchase(h)] # "none"
        /\ \A p \in Purchases : row[p] # "none" => row'[p] # "none"
    BY <1>1, <1>11, <2>1 DEF Credit, TypeOK, ConstantsOK
  <2>3. /\ Handled
        /\ note' \in [Notifications -> {"none", "received", "failed", "processed"}]
    BY <1>11, <2>2, CommittedType DEF Credit
  <2> QED BY <1>1, <1>11, <2>2, <2>3 DEF Credit, TypeInv, TypeOK, Handled, At
<1>12. ASSUME NEW h \in Handlers, Close(h) \/ ChargeFailed(h) PROVE TypeInv'
  <2>1. /\ ~ At(h, "idle") /\ h \in Webhooks /\ End(h)
        /\ UNCHANGED <<apple, row, balance, spent, shortfall, overtaken, raced>>
    BY <1>1, <1>12 DEF Close, ChargeFailed, At, JobsOK
  <2>2. job[h] \in Notifications /\ Handled
    BY <2>1, JobOf, EndHandled
  <2>3. note' \in [Notifications -> {"none", "received", "failed", "processed"}]
    BY <1>1, <1>12, <2>2 DEF Close, ChargeFailed, TypeOK
  <2>4. answered' \in SUBSET Notifications /\ faults' \in 0..MaxFaults
    BY <1>1, <1>12, <2>2, AnswerType DEF Close, ChargeFailed, Fault, TypeOK, ConstantsOK
  <2> QED BY <1>1, <1>3, <2>1, <2>2, <2>3, <2>4 DEF TypeOK
<1>13. ASSUME NEW h \in Handlers, Stop(h) PROVE TypeInv'
  <2>1. Handled
    BY <1>13, EndHandled DEF Stop
  <2>2. faults' \in 0..MaxFaults
    BY <1>1, <1>13 DEF Stop, Fault, TypeOK, ConstantsOK
  <2> QED BY <1>1, <1>3, <1>13, <2>1, <2>2 DEF Stop, TypeOK
<1>14. ASSUME NEW p \in Purchases, NEW k \in 2..MaxEvents[p], Unknown(p, k) \/ Errored(p, k)
       PROVE  TypeInv'
  <2>1. <<p, k>> \in Notifications
    BY NotificationsAre DEF ConstantsOK
  <2>2. note' \in [Notifications -> {"none", "received", "failed", "processed"}]
    BY <1>1, <1>14, <2>1 DEF Unknown, Errored, TypeOK
  <2>3. faults' \in 0..MaxFaults
    BY <1>1, <1>14 DEF Unknown, Errored, Fault, TypeOK, ConstantsOK
  <2> QED BY <1>1, <1>3, <1>4, <1>14, <2>2, <2>3 DEF Unknown, Errored, TypeOK
<1>15. ASSUME NEW p \in Purchases, NEW k \in 2..MaxEvents[p],
              NothingToDo(p, k) \/ Refund(p, k) \/ Reverse(p, k)
       PROVE  TypeInv'
  <2>1. UNCHANGED <<apple, spent, pc, job>> /\ Settle(p, k)
    BY <1>15 DEF NothingToDo, Refund, Reverse
  <2>2. /\ row' \in [Purchases -> {"none", "credited", "refunded"}]
        /\ balance' \in Nat /\ shortfall' \in Nat
        /\ \A q \in Purchases : row[q] # "none" => row'[q] # "none"
    <3>1. CASE NothingToDo(p, k)
      BY <1>1, <3>1 DEF NothingToDo, TypeOK
    <3>2. CASE Refund(p, k)
      <4>1. Amount[p] \in Nat /\ balance \in Nat /\ shortfall \in Nat
        BY <1>1 DEF TypeOK, ConstantsOK
      <4>2. PICK taken \in Nat : /\ taken = Min({Amount[p], balance})
                                 /\ taken <= Amount[p] /\ taken <= balance
        BY <4>1, LeastOfTwo
      <4>3. balance' = balance - taken /\ shortfall' = shortfall + Amount[p] - taken
        BY <3>2, <4>2 DEF Refund
      <4>4. balance' \in Nat /\ shortfall' \in Nat
        BY <4>1, <4>2, <4>3
      <4> QED BY <1>1, <3>2, <4>4 DEF Refund, TypeOK
    <3>3. CASE Reverse(p, k)
      BY <1>1, <3>3 DEF Reverse, TypeOK, ConstantsOK
    <3> QED BY <1>15, <3>1, <3>2, <3>3
  <2>3. Handled
    BY <1>4, <2>1, <2>2
  <2> QED BY <1>1, <2>1, <2>2, <2>3, SettleType DEF TypeInv, TypeOK, Handled, At
<1>16. ASSUME NEW n \in Notifications, Duplicate(n) \/ DeliverAgain(n) \/ Replayed(n)
       PROVE  TypeInv'
  <2>1. faults' \in 0..MaxFaults
    BY <1>1, <1>16 DEF Duplicate, DeliverAgain, Replayed, Fault, TypeOK, ConstantsOK
  <2> QED BY <1>1, <1>3, <1>4, <1>16, <2>1 DEF Duplicate, DeliverAgain, Replayed, TypeOK
<1> QED
  BY <1>2, <1>5, <1>6, <1>7, <1>8, <1>9, <1>10, <1>11, <1>12, <1>13, <1>14, <1>15, <1>16
     DEF Next, ChargeStep, Notified

(* Nothing has happened. *)
LEMMA TypeInit == ASSUME ConstantsOK, Init PROVE TypeInv
BY DEF ConstantsOK, Init, TypeInv, TypeOK, JobsOK, At, Purchase

-----------------------------------------------------------------------------
(***************************************************************************)
(* The books.  Only a credit, a refund and a reversal move money, and each *)
(* moves one purchase into or out of the sum.                              *)
(***************************************************************************)
InForce == {p \in Purchases : row[p] = "credited"}

Books ==
    /\ balance + spent = SumOf(Amount, InForce) + shortfall
    /\ balance <= SumOf(Amount, InForce)

(* A purchase that comes into force, or no longer is. *)
LEMMA WorthMoves ==
    ASSUME ConstantsOK, TypeInv, NEW p \in Purchases
    PROVE  /\ IsFiniteSet(InForce) /\ SumOf(Amount, InForce) \in Nat /\ Amount[p] \in Nat
           /\ (row[p] # "credited" /\ row' = [row EXCEPT ![p] = "credited"])
                 => SumOf(Amount, InForce') = SumOf(Amount, InForce) + Amount[p]
           /\ (row[p] = "credited" /\ row' = [row EXCEPT ![p] = "refunded"])
                 => SumOf(Amount, InForce) = SumOf(Amount, InForce') + Amount[p]
                    /\ SumOf(Amount, InForce') \in Nat
<1>1. /\ IsFiniteSet(InForce) /\ IsFiniteSet(InForce')
      /\ \A q \in Purchases : Amount[q] \in Nat
      /\ row \in [Purchases -> {"none", "credited", "refunded"}]
  BY FS_Subset DEF InForce, ConstantsOK, TypeInv, TypeOK
<1>2. SumOf(Amount, InForce) \in Nat /\ SumOf(Amount, InForce') \in Nat
  BY <1>1, SumType DEF InForce
<1>3. ASSUME row[p] # "credited", row' = [row EXCEPT ![p] = "credited"]
      PROVE  SumOf(Amount, InForce') = SumOf(Amount, InForce) + Amount[p]
  <2>1. p \notin InForce /\ InForce' = InForce \cup {p}
    BY <1>1, <1>3 DEF InForce
  <2>2. \A q \in InForce \cup {p} : Amount[q] \in Int
    BY <1>1 DEF InForce
  <2>3. SumOf(Amount, InForce \cup {p}) = Amount[p] + SumOf(Amount, InForce)
    BY <1>1, <2>1, <2>2, SumWith
  <2> QED BY <1>1, <1>2, <2>1, <2>3
<1>4. ASSUME row[p] = "credited", row' = [row EXCEPT ![p] = "refunded"]
      PROVE  SumOf(Amount, InForce) = SumOf(Amount, InForce') + Amount[p]
  <2>1. p \in InForce /\ InForce' = InForce \ {p}
    BY <1>1, <1>4 DEF InForce
  <2>2. \A q \in InForce : Amount[q] \in Int
    BY <1>1 DEF InForce
  <2>3. SumOf(Amount, InForce) = Amount[p] + SumOf(Amount, InForce \ {p})
    BY <1>1, <2>1, <2>2, SumWithout
  <2> QED BY <1>1, <1>2, <2>1, <2>3
<1> QED BY <1>1, <1>2, <1>3, <1>4

(* Every step keeps the books. *)
LEMMA BooksStep ==
    ASSUME ConstantsOK, TypeInv, Books, [Next]_vars
    PROVE  Books'
<1>1. /\ balance + spent = SumOf(Amount, InForce) + shortfall
      /\ balance <= SumOf(Amount, InForce)
      /\ balance \in Nat /\ spent \in Nat /\ shortfall \in Nat
  BY DEF Books, TypeInv, TypeOK
<1>2. ASSUME UNCHANGED <<row, balance, spent, shortfall>> PROVE Books'
  BY <1>1, <1>2 DEF Books, InForce
<1>3. CASE Spend
  <2>1. /\ balance' = balance - 1 /\ spent' = spent + 1
        /\ InForce' = InForce /\ shortfall' = shortfall
    BY <1>3 DEF Spend, InForce
  <2>2. \A p \in Purchases : Amount[p] \in Nat
    BY DEF ConstantsOK
  <2>3. SumOf(Amount, InForce) \in Nat
    BY <2>2, FS_Subset, SumType DEF InForce, ConstantsOK
  <2> QED BY <1>1, <2>1, <2>3 DEF Books
<1>4. ASSUME NEW h \in Handlers, Credit(h) PROVE Books'
  <2>1. PICK p \in Purchases : p = Purchase(h)
    BY <1>4, JobOf DEF Credit, At
  <2>2. CASE row[p] = "none"
    <3>1. /\ row' = [row EXCEPT ![p] = "credited"] /\ balance' = balance + Amount[p]
          /\ UNCHANGED <<spent, shortfall>>
      BY <1>4, <2>1, <2>2 DEF Credit
    <3>2. /\ SumOf(Amount, InForce') = SumOf(Amount, InForce) + Amount[p]
          /\ SumOf(Amount, InForce) \in Nat /\ Amount[p] \in Nat
      BY <2>2, <3>1, WorthMoves
    <3> QED BY <1>1, <3>1, <3>2 DEF Books
  <2>3. CASE row[p] # "none"
    BY <1>2, <1>4, <2>1, <2>3 DEF Credit
  <2> QED BY <2>2, <2>3
<1>5. ASSUME NEW p \in Purchases, NEW k, Refund(p, k) PROVE Books'
  <2>1. Amount[p] \in Nat /\ SumOf(Amount, InForce) \in Nat
    BY WorthMoves
  <2>2. PICK taken \in Nat : /\ taken = Min({Amount[p], balance})
                             /\ taken = IF Amount[p] <= balance THEN Amount[p] ELSE balance
    BY <1>1, <2>1, LeastOfTwo
  <2>3. /\ row[p] = "credited" /\ row' = [row EXCEPT ![p] = "refunded"]
        /\ balance' = balance - taken /\ shortfall' = shortfall + Amount[p] - taken
        /\ spent' = spent
    BY <1>5, <2>2 DEF Refund
  <2>4. /\ SumOf(Amount, InForce) = SumOf(Amount, InForce') + Amount[p]
        /\ SumOf(Amount, InForce') \in Nat
    BY <2>3, WorthMoves
  <2> QED BY <1>1, <2>1, <2>2, <2>3, <2>4 DEF Books
<1>6. ASSUME NEW p \in Purchases, NEW k, Reverse(p, k) PROVE Books'
  <2>1. /\ row[p] = "refunded" /\ row' = [row EXCEPT ![p] = "credited"]
        /\ balance' = balance + Amount[p] /\ UNCHANGED <<spent, shortfall>>
    BY <1>6 DEF Reverse
  <2>2. /\ SumOf(Amount, InForce') = SumOf(Amount, InForce) + Amount[p]
        /\ SumOf(Amount, InForce) \in Nat /\ Amount[p] \in Nat
    BY <2>1, WorthMoves
  <2> QED BY <1>1, <2>1, <2>2 DEF Books
<1>7. ASSUME NEW p \in Purchases, AppleActs(p) PROVE Books'
  BY <1>2, <1>7 DEF AppleActs
<1>8. ASSUME NEW h, NEW p, Post(h, p) \/ DeliverCharge(h, p) PROVE Books'
  BY <1>2, <1>8 DEF Post, DeliverCharge
<1>9. ASSUME NEW h, Found(h) \/ NotFound(h) \/ Close(h) \/ ChargeFailed(h) \/ Stop(h)
      PROVE  Books'
  BY <1>2, <1>9 DEF Found, NotFound, Close, ChargeFailed, Stop
<1>10. ASSUME NEW p, NEW k, Unknown(p, k) \/ Errored(p, k) \/ NothingToDo(p, k) PROVE Books'
  BY <1>2, <1>10 DEF Unknown, Errored, NothingToDo
<1>11. ASSUME NEW n, Duplicate(n) \/ DeliverAgain(n) \/ Replayed(n) PROVE Books'
  BY <1>2, <1>11 DEF Duplicate, DeliverAgain, Replayed
<1>12. CASE UNCHANGED vars
  BY <1>2, <1>12 DEF vars
<1> QED
  BY <1>3, <1>4, <1>5, <1>6, <1>7, <1>8, <1>9, <1>10, <1>11, <1>12 DEF Next, ChargeStep, Notified

(* However requests and notifications cross, are repeated or break off, the user has,
   and has spent, what his purchases in force are worth and what refunds could not take,
   and he never has more than those purchases are worth. *)
THEOREM AppleBooksBalanceAlways ==
    ASSUME ConstantsOK
    PROVE  Spec => []AppleBooksBalance
<1>1. Init => TypeInv
  BY TypeInit
<1>2. Init => Books
  <2> SUFFICES ASSUME Init PROVE Books
    OBVIOUS
  <2>1. InForce = {}
    BY DEF Init, InForce
  <2>2. SumOf(Amount, InForce) = 0
    BY <2>1, SumEmpty
  <2> QED BY <2>2 DEF Init, Books
<1>3. TypeInv /\ [Next]_vars => TypeInv'
  BY TypeStep
<1>4. TypeInv /\ Books /\ [Next]_vars => Books'
  BY BooksStep
<1>5. Books => AppleBooksBalance
  BY DEF Books, InForce, AppleBooksBalance, Worth, SumOf
<1> QED BY <1>1, <1>2, <1>3, <1>4, <1>5, PTL DEF Spec

(* No balance is ever negative, although a refund takes what it can get. *)
THEOREM TypeCorrect ==
    ASSUME ConstantsOK
    PROVE  Spec => []TypeOK
<1>1. Init => TypeInv
  BY TypeInit
<1>2. TypeInv /\ [Next]_vars => TypeInv'
  BY TypeStep
<1>3. TypeInv => TypeOK
  BY DEF TypeInv
<1> QED BY <1>1, <1>2, <1>3, PTL DEF Spec

-----------------------------------------------------------------------------
(***************************************************************************)
(* What Apple said last.  Unless one was answered too early, the refunds   *)
(* and reversals of a purchase that are settled are the first ones, and    *)
(* the row's status is the outcome of the last of them.  An answer without *)
(* a rival is one of a settled notification; that of a charge, one of a    *)
(* purchase that is known.                                                 *)
(***************************************************************************)
Done(p, k) == note[<<p, k>>] = "processed"

Alone(p, k) == <<p, k>> \in answered \ raced

Outcome(k) == IF Revoked(k) THEN "refunded" ELSE "credited"

(* The row of p has seen the first events up to k, and no later one. *)
UpTo(p, k) ==
    /\ \A e \in 2..MaxEvents[p] : Done(p, e) <=> e <= k
    /\ row[p] = Outcome(k)

InOrder(p) ==
    IF row[p] = "none" THEN \A e \in 2..MaxEvents[p] : ~ Done(p, e)
                       ELSE \E k \in 1..MaxEvents[p] : UpTo(p, k)

FollowInv ==
    /\ \A p \in Purchases : \A e \in 2..MaxEvents[p] :
          /\ Done(p, e) => e <= apple[p]
          /\ Alone(p, e) => Done(p, e)
    /\ \A p \in Purchases :
          Alone(p, 1) \/ (1 <= MaxEvents[p] /\ Done(p, 1)) => row[p] # "none"
    /\ \A p \in Purchases \ overtaken : InOrder(p)

(* A step that settles no refund or reversal, and forgets none. *)
LEMMA FollowStays ==
    ASSUME ConstantsOK, FollowInv,
           \A p \in Purchases : apple[p] <= apple'[p] /\ apple[p] \in Nat /\ apple'[p] \in Nat,
           \A p \in Purchases : \A e \in 2..MaxEvents[p] :
              /\ Done(p, e)' <=> Done(p, e)
              /\ Alone(p, e)' => (Alone(p, e) \/ Done(p, e)),
           \A p \in Purchases :
              Alone(p, 1)' \/ (1 <= MaxEvents[p] /\ Done(p, 1)') => row'[p] # "none",
           \A p \in Purchases : row'[p] = row[p] \/ (row[p] = "none" /\ row'[p] = "credited"),
           \A p \in Purchases : row[p] = "none" /\ row'[p] = "credited" => 1 <= MaxEvents[p],
           overtaken' = overtaken
    PROVE  FollowInv'
<1>1. ASSUME NEW p \in Purchases, NEW e \in 2..MaxEvents[p]
      PROVE  (Done(p, e)' => e <= apple'[p]) /\ (Alone(p, e)' => Done(p, e)')
  <2>1. Done(p, e) => e <= apple[p]
    BY DEF FollowInv
  <2>2. e \in Int /\ apple[p] <= apple'[p] /\ apple[p] \in Nat /\ apple'[p] \in Nat
    BY DEF ConstantsOK
  <2>3. Alone(p, e) => Done(p, e)
    BY DEF FollowInv
  <2> QED BY <2>1, <2>2, <2>3
<1>2. ASSUME NEW p \in Purchases \ overtaken PROVE InOrder(p)'
  <2>1. InOrder(p) /\ MaxEvents[p] \in Nat
    BY DEF FollowInv, ConstantsOK
  <2>2. CASE row'[p] = row[p]
    BY <2>1, <2>2 DEF InOrder, UpTo
  <2>3. CASE row[p] = "none" /\ row'[p] = "credited"
    <3>1. \A e \in 2..MaxEvents[p] : ~ Done(p, e)'
      BY <2>1, <2>3 DEF InOrder
    <3>2. Outcome(1) = "credited"
      BY DEF Outcome, Revoked
    <3>3. UpTo(p, 1)'
      BY <2>1, <2>3, <3>1, <3>2 DEF UpTo
    <3>4. 1 \in 1..MaxEvents[p]
      BY <2>1, <2>3
    <3> QED BY <2>3, <3>3, <3>4 DEF InOrder
  <2> QED BY <2>2, <2>3
<1> QED BY <1>1, <1>2 DEF FollowInv

(* Settling a refund or a reversal that arrives in its order. *)
LEMMA FollowSettles ==
    ASSUME ConstantsOK, TypeInv, FollowInv, NEW p \in Purchases, NEW k \in 2..MaxEvents[p],
           Delivered(p, k), Settle(p, k), row[p] # "none", UNCHANGED apple,
           row' = [row EXCEPT ![p] = Outcome(k)]
    PROVE  FollowInv'
<1>1. /\ <<p, k>> \in Notifications /\ MaxEvents[p] \in Nat /\ k \in Nat
      /\ ~ Done(p, k) /\ k <= apple[p]
  BY NotificationsAre DEF ConstantsOK, Delivered, Done
<1>2. ASSUME NEW q \in Purchases, NEW e \in 1..MaxEvents[q]
      PROVE  Done(q, e)' <=> (Done(q, e) \/ (q = p /\ e = k))
  <2>1. <<q, e>> \in Notifications
    BY NotificationsAre
  <2> QED BY <1>1, <2>1 DEF Settle, Done, TypeInv, TypeOK
<1>3. \A q \in Purchases : MaxEvents[q] \in Nat
  BY DEF ConstantsOK
<1>4. ASSUME NEW q \in Purchases, NEW e \in 2..MaxEvents[q]
      PROVE  (Done(q, e)' => e <= apple'[q]) /\ (Alone(q, e)' => Done(q, e)')
  <2>1. Done(q, e)' <=> (Done(q, e) \/ (q = p /\ e = k))
    BY <1>2, <1>3
  <2>2. (Done(q, e) => e <= apple[q]) /\ (Alone(q, e) => Done(q, e))
    BY DEF FollowInv
  <2>3. Alone(q, e)' => Alone(q, e) \/ (q = p /\ e = k)
    BY DEF Settle, Answer, Alone
  <2> QED BY <1>1, <2>1, <2>2, <2>3
<1>5. ASSUME NEW q \in Purchases,
             Alone(q, 1)' \/ (1 <= MaxEvents[q] /\ Done(q, 1)')
      PROVE  row'[q] # "none"
  <2>1. Alone(q, 1) \/ (1 <= MaxEvents[q] /\ Done(q, 1))
    BY <1>1, <1>2, <1>3, <1>5 DEF Settle, Answer, Alone
  <2>2. row[q] # "none"
    BY <2>1 DEF FollowInv
  <2> QED BY <2>2 DEF TypeInv, TypeOK, Outcome
<1>6. ASSUME NEW q \in Purchases \ overtaken' PROVE InOrder(q)'
  <2>1. q \notin overtaken /\ (q = p => \A e \in 2..k - 1 : Done(p, e))
    BY <1>6 DEF Settle, Done
  <2>2. InOrder(q)
    BY <2>1 DEF FollowInv
  <2>3. CASE q = p
    <3>1. PICK j \in 1..MaxEvents[p] : UpTo(p, j)
      BY <2>2, <2>3 DEF InOrder
    <3>2. j \in Nat /\ 1 <= j /\ j < k
      BY <1>1, <3>1 DEF UpTo
    <3>3. k - 1 <= j
      <4>1. CASE k = 2
        BY <3>2, <4>1
      <4>2. CASE k # 2
        <5>1. k - 1 \in 2..k - 1 /\ k - 1 \in 2..MaxEvents[p]
          BY <1>1, <4>2
        <5> QED BY <2>1, <2>3, <3>1, <5>1 DEF UpTo
      <4> QED BY <4>1, <4>2
    <3>4. \A e \in 2..MaxEvents[p] : Done(p, e)' <=> e <= k
      <4> SUFFICES ASSUME NEW e \in 2..MaxEvents[p] PROVE Done(p, e)' <=> e <= k
        OBVIOUS
      <4>1. Done(p, e)' <=> (Done(p, e) \/ e = k)
        BY <1>2, <1>3
      <4>2. Done(p, e) <=> e <= j
        BY <3>1 DEF UpTo
      <4>3. e \in Nat /\ (e <= j \/ e = k <=> e <= k)
        BY <1>1, <3>2, <3>3
      <4> QED BY <4>1, <4>2, <4>3
    <3>5. row'[p] = Outcome(k) /\ Outcome(k) # "none"
      BY DEF TypeInv, TypeOK, Outcome
    <3>6. k \in 1..MaxEvents[p] /\ UpTo(p, k)'
      BY <1>1, <3>4, <3>5 DEF UpTo
    <3> QED BY <2>3, <3>5, <3>6 DEF InOrder
  <2>4. CASE q # p
    <3>1. row'[q] = row[q] /\ \A e \in 2..MaxEvents[q] : Done(q, e)' <=> Done(q, e)
      BY <1>2, <1>3, <2>4 DEF TypeInv, TypeOK
    <3> QED BY <2>2, <3>1 DEF InOrder, UpTo
  <2> QED BY <2>3, <2>4
<1> QED BY <1>4, <1>5, <1>6 DEF FollowInv

(* A step that leaves the rows and the notifications alone, and answers none that has
   no rival. *)
LEMMA FollowSame ==
    ASSUME ConstantsOK, TypeInv, FollowInv, UNCHANGED <<row, note, overtaken>>,
           answered' \ raced' \subseteq answered \ raced,
           \A p \in Purchases : apple'[p] \in Nat /\ apple[p] <= apple'[p]
    PROVE  FollowInv'
<1>1. \A p \in Purchases : apple[p] \in Nat
  BY DEF TypeInv, TypeOK, ConstantsOK
<1>2. \A p, e : (Done(p, e)' <=> Done(p, e)) /\ (Alone(p, e)' => Alone(p, e))
  BY DEF Done, Alone
<1> QED BY <1>1, <1>2, FollowStays DEF FollowInv

(* The notification of a charge; it is settled only when its purchase is known. *)
LEMMA FollowCharge ==
    ASSUME ConstantsOK, TypeInv, FollowInv, NEW p \in Purchases,
           NEW s \in {"none", "received", "failed", "processed"},
           note' = [note EXCEPT ![<<p, 1>>] = s], answered' \subseteq answered \cup {<<p, 1>>},
           s = "processed" \/ <<p, 1>> \in answered' \ answered => row'[p] # "none",
           apple[p] # 0, UNCHANGED <<apple, overtaken, raced>>,
           \A q \in Purchases : row'[q] = row[q] \/ (q = p /\ row[q] = "none" /\ row'[q] = "credited")
    PROVE  FollowInv'
<1>1. \A q \in Purchases : apple[q] \in Nat /\ MaxEvents[q] \in Nat /\ apple[q] <= MaxEvents[q]
  BY DEF TypeInv, TypeOK, ConstantsOK
<1>2. ASSUME NEW q \in Purchases, NEW e \in 1..MaxEvents[q], q # p \/ e # 1
      PROVE  (Done(q, e)' <=> Done(q, e)) /\ (Alone(q, e)' => Alone(q, e))
  <2>1. <<q, e>> # <<p, 1>> /\ <<q, e>> \in Notifications
    BY <1>2, NotificationsAre
  <2> QED BY <2>1 DEF Done, Alone, TypeInv, TypeOK
<1>3. ASSUME NEW q \in Purchases, Alone(q, 1)' \/ (1 <= MaxEvents[q] /\ Done(q, 1)')
      PROVE  row'[q] # "none"
  <2>1. CASE q = p
    <3>1. <<p, 1>> \in Notifications
      BY <1>1, NotificationsAre
    <3>2. Done(p, 1)' => s = "processed"
      BY <3>1 DEF Done, TypeInv, TypeOK
    <3>3. Alone(p, 1)' => Alone(p, 1) \/ <<p, 1>> \in answered' \ answered
      BY DEF Alone
    <3>4. Alone(p, 1) => row'[p] # "none"
      BY DEF FollowInv
    <3> QED BY <1>3, <2>1, <3>2, <3>3, <3>4
  <2>2. CASE q # p
    <3>1. Alone(q, 1) \/ (1 <= MaxEvents[q] /\ Done(q, 1))
      <4>1. Alone(q, 1)' => Alone(q, 1)
        BY <2>2 DEF Alone
      <4>2. 1 <= MaxEvents[q] => 1 \in 1..MaxEvents[q]
        BY <1>1
      <4> QED BY <1>2, <1>3, <2>2, <4>1, <4>2
    <3>2. row[q] # "none"
      BY <3>1 DEF FollowInv
    <3> QED BY <2>2, <3>2
  <2> QED BY <2>1, <2>2
<1>4. \A q \in Purchases : \A e \in 2..MaxEvents[q] :
         /\ Done(q, e)' <=> Done(q, e)
         /\ Alone(q, e)' => (Alone(q, e) \/ Done(q, e))
  <2> SUFFICES ASSUME NEW q \in Purchases, NEW e \in 2..MaxEvents[q]
               PROVE  /\ Done(q, e)' <=> Done(q, e)
                      /\ Alone(q, e)' => (Alone(q, e) \/ Done(q, e))
    OBVIOUS
  <2>1. e \in 1..MaxEvents[q] /\ e # 1
    BY <1>1
  <2> QED BY <1>2, <2>1
<1>5. \A q \in Purchases : row[q] = "none" /\ row'[q] = "credited" => 1 <= MaxEvents[q]
  <2>1. 1 <= MaxEvents[p]
    BY <1>1
  <2> QED BY <2>1
<1>6. \A q \in Purchases : row'[q] = row[q] \/ (row[q] = "none" /\ row'[q] = "credited")
  OBVIOUS
<1>7. \A q \in Purchases : apple[q] <= apple'[q] /\ apple[q] \in Nat /\ apple'[q] \in Nat
  BY <1>1
<1> QED BY <1>3, <1>4, <1>5, <1>6, <1>7, FollowStays

(* Every step keeps the order. *)
LEMMA FollowStep ==
    ASSUME ConstantsOK, TypeInv, FollowInv, [Next]_vars
    PROVE  FollowInv'
<1>1. \A p \in Purchases : apple[p] \in Nat /\ MaxEvents[p] \in Nat /\ apple[p] <= MaxEvents[p]
  BY DEF TypeInv, TypeOK, ConstantsOK
<1>2. ASSUME UNCHANGED <<apple, row, note, overtaken>>,
             answered' \ raced' \subseteq answered \ raced
      PROVE  FollowInv'
  BY <1>1, <1>2, FollowSame
<1>3. ASSUME NEW p \in Purchases, AppleActs(p) PROVE FollowInv'
  <2>1. apple' = [q \in Purchases |-> IF q = p THEN apple[p] + 1 ELSE apple[q]]
    BY <1>3 DEF AppleActs, TypeInv
  <2>2. \A q \in Purchases : apple'[q] \in Nat /\ apple[q] <= apple'[q]
    BY <1>1, <2>1
  <2> QED BY <1>3, <2>2, FollowSame DEF AppleActs
<1>4. ASSUME NEW h \in Handlers, Found(h) PROVE FollowInv'
  <2>1. /\ Purchase(h) \in Purchases /\ apple[Purchase(h)] # 0
        /\ h \in Webhooks => job[h] = <<Purchase(h), 1>>
    BY <1>4, JobOf DEF Found, At, TypeInv, JobsOK
  <2>2. CASE h \in Webhooks
    <3>1. /\ note' = [note EXCEPT ![<<Purchase(h), 1>>] = "processed"]
          /\ answered' \subseteq answered \cup {<<Purchase(h), 1>>}
          /\ row'[Purchase(h)] # "none" /\ UNCHANGED <<apple, row, overtaken, raced>>
      BY <1>4, <2>1, <2>2 DEF Found, Answer
    <3> QED BY <2>1, <3>1, FollowCharge
  <2>3. CASE h \notin Webhooks
    BY <1>2, <1>4, <2>3 DEF Found
  <2> QED BY <2>2, <2>3
<1>5. ASSUME NEW h \in Handlers, Credit(h) PROVE FollowInv'
  <2>1. /\ Purchase(h) \in Purchases /\ apple[Purchase(h)] # 0
        /\ h \in Webhooks => job[h] = <<Purchase(h), 1>>
    BY <1>5, JobOf DEF Credit, At, TypeInv, JobsOK
  <2>2. DEFINE p == Purchase(h)
  <2>3. /\ row'[p] # "none" /\ UNCHANGED <<apple, answered, overtaken, raced>>
        /\ \A q \in Purchases : row'[q] = row[q]
                                \/ (q = p /\ row[q] = "none" /\ row'[q] = "credited")
    BY <1>5, <2>1 DEF Credit, TypeInv, TypeOK
  <2>4. <<p, 1>> \in Notifications
    BY <1>1, <2>1, NotificationsAre
  <2>5. PICK s \in {"none", "received", "failed", "processed"} :
           note' = [note EXCEPT ![<<p, 1>>] = s]
    <3>1. CASE h \in Webhooks
      <4>1. note' = [note EXCEPT ![<<p, 1>>] = IF @ = "none" THEN "received" ELSE @]
        BY <1>5, <2>1, <3>1 DEF Credit, Committed
      <4>2. note[<<p, 1>>] \in {"none", "received", "failed", "processed"}
        BY <2>4 DEF TypeInv, TypeOK
      <4>3. note' = [note EXCEPT ![<<p, 1>>] = IF note[<<p, 1>>] = "none" THEN "received"
                                                                        ELSE note[<<p, 1>>]]
        BY <4>1
      <4> QED BY <4>2, <4>3
    <3>2. CASE h \notin Webhooks
      <4>1. note' = note
        BY <1>5, <3>2 DEF Credit, Committed
      <4>2. note[<<p, 1>>] \in {"none", "received", "failed", "processed"}
        BY <2>4 DEF TypeInv, TypeOK
      <4>3. note' = [note EXCEPT ![<<p, 1>>] = note[<<p, 1>>]]
        BY <2>4, <4>1 DEF TypeInv, TypeOK
      <4> QED BY <4>2, <4>3
    <3> QED BY <3>1, <3>2
  <2>6. answered' \subseteq answered \cup {<<p, 1>>}
    BY <2>3
  <2> QED BY <2>1, <2>3, <2>5, <2>6, FollowCharge
<1>6. ASSUME NEW h \in Handlers, Close(h) \/ ChargeFailed(h) PROVE FollowInv'
  <2>1. /\ Purchase(h) \in Purchases /\ apple[Purchase(h)] # 0
        /\ job[h] = <<Purchase(h), 1>>
    BY <1>6, JobOf DEF Close, ChargeFailed, At, TypeInv, JobsOK
  <2>2. UNCHANGED <<apple, row, overtaken, raced>>
    BY <1>6 DEF Close, ChargeFailed
  <2>3. CASE Close(h)
    <3>1. /\ note' = [note EXCEPT ![<<Purchase(h), 1>>] = "processed"]
          /\ answered' \subseteq answered \cup {<<Purchase(h), 1>>}
      BY <2>1, <2>3 DEF Close, Answer
    <3>2. row'[Purchase(h)] # "none"
      BY <2>2, <2>3 DEF Close, TypeInv, JobsOK
    <3> QED BY <2>1, <2>2, <3>1, <3>2, FollowCharge
  <2>4. CASE ChargeFailed(h)
    <3>1. note' = [note EXCEPT ![<<Purchase(h), 1>>] = "failed"] /\ answered' = answered
      BY <2>1, <2>4 DEF ChargeFailed
    <3> QED BY <2>1, <2>2, <3>1, FollowCharge
  <2> QED BY <1>6, <2>3, <2>4
<1>7. ASSUME NEW p \in Purchases, NEW k \in 2..MaxEvents[p], Unknown(p, k) \/ Errored(p, k)
      PROVE  FollowInv'
  <2>1. <<p, k>> \in Notifications /\ ~ Done(p, k) /\ k # 1
    BY <1>1, <1>7, NotificationsAre DEF Unknown, Errored, Delivered, Done
  <2>2. note' = [note EXCEPT ![<<p, k>>] = "failed"]
    BY <1>7 DEF Unknown, Errored
  <2>3. ASSUME NEW q \in Purchases, NEW e \in 1..MaxEvents[q]
        PROVE  Done(q, e)' <=> Done(q, e)
    <3>1. <<q, e>> \in Notifications
      BY NotificationsAre
    <3> QED BY <2>1, <2>2, <3>1 DEF Done, TypeInv, TypeOK
  <2>4. UNCHANGED <<apple, row, answered, overtaken, raced>>
    BY <1>7 DEF Unknown, Errored
  <2>5. \A q \in Purchases : \A e \in 2..MaxEvents[q] :
           /\ Done(q, e)' <=> Done(q, e)
           /\ Alone(q, e)' => (Alone(q, e) \/ Done(q, e))
    BY <1>1, <2>3, <2>4 DEF Alone
  <2>6. \A q \in Purchases :
           Alone(q, 1)' \/ (1 <= MaxEvents[q] /\ Done(q, 1)') => row'[q] # "none"
    <3> SUFFICES ASSUME NEW q \in Purchases,
                        Alone(q, 1)' \/ (1 <= MaxEvents[q] /\ Done(q, 1)')
                 PROVE  row'[q] # "none"
      OBVIOUS
    <3>1. 1 <= MaxEvents[q] => (Done(q, 1)' <=> Done(q, 1))
      BY <1>1, <2>3
    <3> QED BY <2>4, <3>1 DEF FollowInv, Alone
  <2> QED BY <1>1, <2>4, <2>5, <2>6, FollowStays
<1>8. ASSUME NEW p \in Purchases, NEW k \in 2..MaxEvents[p],
             NothingToDo(p, k) \/ Refund(p, k) \/ Reverse(p, k)
      PROVE  FollowInv'
  <2>1. Delivered(p, k) /\ Settle(p, k) /\ UNCHANGED apple
    BY <1>8 DEF NothingToDo, Refund, Reverse
  <2>2. row[p] # "none" /\ row' = [row EXCEPT ![p] = Outcome(k)]
    <3>1. CASE NothingToDo(p, k)
      BY <3>1 DEF NothingToDo, Outcome, TypeInv, TypeOK
    <3>2. CASE Refund(p, k)
      BY <3>2 DEF Refund, Outcome
    <3>3. CASE Reverse(p, k)
      BY <3>3 DEF Reverse, Outcome
    <3> QED BY <1>8, <3>1, <3>2, <3>3
  <2> QED BY <2>1, <2>2, FollowSettles
<1>9. ASSUME NEW n \in Notifications, Duplicate(n) PROVE FollowInv'
  <2>1. /\ note[n] = "processed" /\ answered' = answered \cup {n}
        /\ UNCHANGED <<apple, row, note, overtaken, raced>>
    BY <1>9 DEF Duplicate
  <2>2. \A q, e : Done(q, e)' <=> Done(q, e)
    BY <2>1 DEF Done
  <2>3. \A q, e : Alone(q, e)' => Alone(q, e) \/ Done(q, e)
    BY <2>1 DEF Done, Alone
  <2>4. \A q \in Purchases : <<q, 1>> \in Notifications => 1 <= MaxEvents[q]
    BY <1>1 DEF Notifications
  <2>5. \A q \in Purchases :
           Alone(q, 1)' \/ (1 <= MaxEvents[q] /\ Done(q, 1)') => row'[q] # "none"
    <3> SUFFICES ASSUME NEW q \in Purchases,
                        Alone(q, 1)' \/ (1 <= MaxEvents[q] /\ Done(q, 1)')
                 PROVE  row[q] # "none"
      BY <2>1
    <3>1. Alone(q, 1)' => n = <<q, 1>> \/ Alone(q, 1)
      BY <2>1 DEF Alone
    <3>2. n = <<q, 1>> => 1 <= MaxEvents[q] /\ Done(q, 1)
      BY <2>1, <2>4 DEF Done
    <3> QED BY <2>2, <3>1, <3>2 DEF FollowInv
  <2> QED BY <1>1, <2>1, <2>2, <2>3, <2>5, FollowStays
<1>10. ASSUME NEW h, NotFound(h) \/ Stop(h) PROVE FollowInv'
  BY <1>2, <1>10 DEF NotFound, Stop
<1>11. ASSUME NEW h, NEW p, Post(h, p) \/ DeliverCharge(h, p) PROVE FollowInv'
  BY <1>2, <1>11 DEF Post, DeliverCharge
<1>12. CASE Spend \/ UNCHANGED vars
  BY <1>2, <1>12 DEF Spend, vars
<1>13. ASSUME NEW n \in Notifications, DeliverAgain(n) \/ Replayed(n) PROVE FollowInv'
  BY <1>2, <1>13 DEF DeliverAgain, Replayed
<1> QED
  BY <1>3, <1>4, <1>5, <1>6, <1>7, <1>8, <1>9, <1>10, <1>11, <1>12, <1>13
     DEF Next, ChargeStep, Notified

(* When every notification of a purchase has been answered by a delivery without a rival,
   or is settled, its status is what Apple last said, in whatever order the first ones
   came; except for the purchases of which one was answered too early. *)
THEOREM FollowsAppleAlways ==
    ASSUME ConstantsOK
    PROVE  Spec => []FollowsApple
<1>1. Init => TypeInv
  BY TypeInit
<1>2. Init => FollowInv
  <2> SUFFICES ASSUME Init PROVE FollowInv
    OBVIOUS
  <2>1. \A p \in Purchases : \A e \in 1..MaxEvents[p] : ~ Done(p, e)
    <3> SUFFICES ASSUME NEW p \in Purchases, NEW e \in 1..MaxEvents[p] PROVE ~ Done(p, e)
      OBVIOUS
    <3>1. <<p, e>> \in Notifications
      BY NotificationsAre
    <3> QED BY <3>1 DEF Init, Done
  <2>2. \A p \in Purchases : MaxEvents[p] \in Nat /\ row[p] = "none" /\ answered = {}
    BY DEF Init, ConstantsOK
  <2>3. \A p \in Purchases : \A e \in 2..MaxEvents[p] : ~ Done(p, e)
    BY <2>1, <2>2
  <2>4. \A p \in Purchases : 1 <= MaxEvents[p] => ~ Done(p, 1)
    BY <2>1, <2>2
  <2>5. \A p, k : ~ Alone(p, k)
    BY DEF Init, Alone
  <2> QED BY <2>2, <2>3, <2>4, <2>5 DEF FollowInv, InOrder
<1>3. TypeInv /\ [Next]_vars => TypeInv'
  BY TypeStep
<1>4. TypeInv /\ FollowInv /\ [Next]_vars => FollowInv'
  BY FollowStep
<1>5. TypeInv /\ FollowInv => FollowsApple
  <2> SUFFICES ASSUME TypeInv, FollowInv, NEW p \in Purchases \ overtaken,
                      apple[p] > 0, \A k \in 1..apple[p] : Alone(p, k) \/ Done(p, k)
               PROVE  row[p] = Outcome(apple[p])
    BY DEF FollowsApple, Sealed, Alone, Done, Outcome
  <2>1. apple[p] \in Nat /\ apple[p] <= MaxEvents[p] /\ MaxEvents[p] \in Nat
    BY DEF TypeInv, TypeOK, ConstantsOK
  <2>2. 1 <= MaxEvents[p] /\ (Alone(p, 1) \/ Done(p, 1))
    BY <2>1
  <2>3. PICK k \in 1..MaxEvents[p] : UpTo(p, k)
    BY <2>2 DEF FollowInv, InOrder
  <2>4. k \in Nat /\ 1 <= k
    BY <2>1, <2>3
  <2>5. k <= apple[p]
    <3>1. CASE k = 1
      BY <2>1, <3>1
    <3>2. CASE k # 1
      <4>1. k \in 2..MaxEvents[p] /\ k <= k
        BY <2>1, <2>3, <3>2
      <4>2. Done(p, k)
        BY <2>3, <4>1 DEF UpTo
      <4> QED BY <4>1, <4>2 DEF FollowInv
    <3> QED BY <3>1, <3>2
  <2>6. apple[p] <= k
    <3>1. CASE apple[p] = 1
      BY <2>4, <3>1
    <3>2. CASE apple[p] # 1
      <4>1. apple[p] \in 2..MaxEvents[p] /\ apple[p] \in 1..apple[p]
        BY <2>1, <3>2
      <4>2. Done(p, apple[p])
        BY <4>1 DEF FollowInv
      <4> QED BY <2>3, <4>1, <4>2 DEF UpTo
    <3> QED BY <3>1, <3>2
  <2>7. k = apple[p]
    BY <2>1, <2>4, <2>5, <2>6
  <2> QED BY <2>3, <2>7 DEF UpTo
<1> QED BY <1>1, <1>2, <1>3, <1>4, <1>5, PTL DEF Spec

=============================================================================
