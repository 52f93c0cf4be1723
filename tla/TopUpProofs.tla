----------------------------- MODULE TopUpProofs -----------------------------
(***************************************************************************)
(* Proofs about TopUp, for any number of orders, users, handlers and       *)
(* faults.                                                                 *)
(***************************************************************************)
EXTENDS TopUp, Sums

(* The states in which a handler works on an order. *)
Working == {"found", "locked", "marked", "linked", "credited", "rewarding"}

(* A handler that works on an order knows which. *)
PayKnown == \A h \in Handlers : pc[h] \in Working => pay[h] \in Payments

TypeInv == TypeOK /\ PayKnown

(* A handler past its first step knows whose row it will lock. *)
LEMMA UserOfType ==
    ASSUME TypeInv, NEW h \in Handlers,
           h \in Spenders \/ pc[h] \in Working
    PROVE  UserOf(h) \in Users
BY ConstantsAssumption DEF TypeInv, TypeOK, PayKnown, UserOf, Handlers

(* The initial state has the types. *)
LEMMA TypeInit == Init => TypeInv
BY ConstantsAssumption
   DEF Init, TypeInv, TypeOK, PayKnown, Working, PcStates, NoRow, Handlers

(* Leaving a payment keeps the types of the session. *)
LEMMA FinishType ==
    ASSUME TypeInv, NEW h \in Handlers, Finish(h)
    PROVE  /\ pc' \in [Handlers -> PcStates]
           /\ pay' \in [Handlers -> Payments \cup {NoOne}]
           /\ todo' \in [Handlers -> SUBSET Payments]
           /\ seen' \in [Handlers -> [isPaid : BOOLEAN, linked : BOOLEAN]]
           /\ copy' \in [Handlers -> Nat]
           /\ PayKnown'
BY ConstantsAssumption DEF TypeInv, TypeOK, PayKnown, Finish, NoRow, PcStates, Working

(* Releasing locks keeps the types of the lock tables. *)
LEMMA UnlockType ==
    ASSUME TypeInv, NEW h \in Handlers, Unlock(h)
    PROVE  /\ payLock' \in [Payments -> Handlers \cup {NoOne}]
           /\ userLock' \in [Users -> Handlers \cup {NoOne}]
BY DEF TypeInv, TypeOK, Unlock

(* A session that ends has a well-typed, empty set of pending writes. *)
LEMMA ForgetType ==
    ASSUME TypeInv, NEW h \in Handlers, ForgetWrites(h)
    PROVE  /\ flagged' \in [Handlers -> SUBSET Payments]
           /\ recorded' \in [Handlers -> SUBSET Payments]
BY DEF TypeInv, TypeOK, ForgetWrites

(* A commit keeps the types of the tables, the locks and the pending writes. *)
LEMMA CommitType ==
    ASSUME TypeInv, NEW h \in Handlers, CommitPayments(h)
    PROVE  /\ isPaid' \in [Payments -> BOOLEAN]
           /\ deposits' \in [Payments -> Nat]
           /\ payLock' \in [Payments -> Handlers \cup {NoOne}]
           /\ userLock' \in [Users -> Handlers \cup {NoOne}]
           /\ flagged' \in [Handlers -> SUBSET Payments]
           /\ recorded' \in [Handlers -> SUBSET Payments]
<1>1. Unlock(h) /\ ForgetWrites(h)
  BY DEF CommitPayments
<1>2. isPaid' \in [Payments -> BOOLEAN] /\ deposits' \in [Payments -> Nat]
  BY DEF CommitPayments, TypeInv, TypeOK
<1>3. QED
  BY <1>1, <1>2, UnlockType, ForgetType

(* So does a rollback, which leaves the tables alone. *)
LEMMA RollbackType ==
    ASSUME TypeInv, NEW h \in Handlers, Rollback(h)
    PROVE  /\ UNCHANGED tables
           /\ payLock' \in [Payments -> Handlers \cup {NoOne}]
           /\ userLock' \in [Users -> Handlers \cup {NoOne}]
           /\ flagged' \in [Handlers -> SUBSET Payments]
           /\ recorded' \in [Handlers -> SUBSET Payments]
BY UnlockType, ForgetType DEF Rollback

(* A locked user row gives a well-typed copy of the balance. *)
LEMMA LockUserType ==
    ASSUME TypeInv, NEW h \in Handlers, LockUser(h),
           h \in Spenders \/ pc[h] \in Working
    PROVE  /\ userLock' \in [Users -> Handlers \cup {NoOne}]
           /\ copy' \in [Handlers -> Nat]
BY UserOfType DEF TypeInv, TypeOK, LockUser

-----------------------------------------------------------------------------
(* Every step keeps the types. *)
LEMMA TypeStep == TypeInv /\ [Next]_vars => TypeInv'
<1> SUFFICES ASSUME TypeInv, [Next]_vars PROVE TypeInv'
  OBVIOUS
<1> USE ConstantsAssumption
<1>1. ASSUME NEW p \in Payments, CreatePayment(p) \/ ProviderPays(p) PROVE TypeInv'
  BY <1>1 DEF TypeInv, TypeOK, PayKnown, CreatePayment, ProviderPays, tables, locks, session
<1>2. ASSUME NEW w \in Webhooks, NEW p \in Payments, ReceiveWebhook(w, p) PROVE TypeInv'
  BY <1>2 DEF TypeInv, TypeOK, PayKnown, ReceiveWebhook, Goto, Row, PcStates, Working,
              Handlers, tables, locks
<1>3. ASSUME NEW w \in Webhooks, RejectAmount(w) PROVE TypeInv'
  <2>1. w \in Handlers /\ Rollback(w) /\ Finish(w)
    BY <1>3 DEF RejectAmount, Handlers
  <2>2. QED
    BY <1>3, <2>1, RollbackType, FinishType DEF TypeInv, TypeOK, RejectAmount, tables
<1>4. ASSUME NEW h \in Checks, NEW C \in SUBSET Payments, StartCheck(h, C) PROVE TypeInv'
  BY <1>4 DEF TypeInv, TypeOK, PayKnown, StartCheck, Goto, PcStates, Working, Handlers,
              tables, locks
<1>5. ASSUME NEW h \in Checks, NEW p \in Payments,
             SkipCandidate(h, p) \/ ProviderConfirms(h, p) \/ ApiError(h, p)
      PROVE  TypeInv'
  <2>1. h \in Handlers
    BY DEF Handlers
  <2>2. CASE ProviderConfirms(h, p)
    BY <2>1, <2>2 DEF TypeInv, TypeOK, PayKnown, ProviderConfirms, Goto, PcStates, Working,
                      tables, locks
  <2>3. CASE SkipCandidate(h, p)
    BY <2>1, <2>3 DEF TypeInv, TypeOK, PayKnown, SkipCandidate, tables, locks
  <2>4. CASE ApiError(h, p)
    BY <2>1, <2>4 DEF TypeInv, TypeOK, PayKnown, ApiError, Fault, tables, locks
  <2>5. QED
    BY <1>5, <2>2, <2>3, <2>4
<1>6. ASSUME NEW h \in Checks, EndCheck(h) PROVE TypeInv'
  <2>1. h \in Handlers
    BY DEF Handlers
  <2>2. /\ pc' \in [Handlers -> PcStates]
        /\ PayKnown'
    BY <1>6, <2>1 DEF EndCheck, Goto, TypeInv, TypeOK, PayKnown, PcStates, Working
  <2>3. CASE CommitPayments(h) /\ UNCHANGED <<balance, spent>>
    BY <1>6, <2>1, <2>2, <2>3, CommitType DEF TypeInv, TypeOK, EndCheck
  <2>4. CASE Rollback(h)
    BY <1>6, <2>1, <2>2, <2>4, RollbackType DEF TypeInv, TypeOK, EndCheck, tables
  <2>5. QED
    BY <1>6, <2>3, <2>4 DEF EndCheck
<1>7. ASSUME NEW h \in Webhooks \cup Checks, LockPayment(h) PROVE TypeInv'
  <2>1. h \in Handlers /\ pay[h] \in Payments
    BY <1>7 DEF LockPayment, Handlers, TypeInv, PayKnown, Working
  <2>2. Row(pay[h]) \in [isPaid : BOOLEAN, linked : BOOLEAN]
    <3>1. isPaid[pay[h]] \in BOOLEAN
      BY <2>1, Zenon DEF TypeInv, TypeOK
    <3>2. QED
      BY <3>1 DEF Row
  <2>3. QED
    BY <1>7, <2>1, <2>2 DEF TypeInv, TypeOK, PayKnown, LockPayment, Goto, PcStates, Working,
                            tables
<1>8. ASSUME NEW h \in Webhooks \cup Checks, AlreadyPaid(h) PROVE TypeInv'
  <2>1. h \in Handlers /\ Finish(h)
    BY <1>8 DEF AlreadyPaid, Handlers
  <2>2. CASE h \in Checks
    BY <1>8, <2>1, <2>2, FinishType DEF TypeInv, TypeOK, AlreadyPaid, tables, locks
  <2>3. CASE h \notin Checks
    BY <1>8, <2>1, <2>3, FinishType, RollbackType DEF TypeInv, TypeOK, AlreadyPaid, tables
  <2>4. QED
    BY <2>2, <2>3
<1>9. ASSUME NEW h \in Webhooks \cup Checks, MarkPaid(h) PROVE TypeInv'
  BY <1>9 DEF TypeInv, TypeOK, PayKnown, MarkPaid, Goto, PcStates, Working, Handlers,
              tables, locks
<1>10. ASSUME NEW h \in Webhooks \cup Checks, RecordDeposit(h) PROVE TypeInv'
  <2>1. h \in Handlers /\ pc[h] \in Working /\ UserOf(h) \in Users
    BY <1>10, UserOfType DEF RecordDeposit, Working, Handlers
  <2>2. QED
    BY <1>10, <2>1 DEF TypeInv, TypeOK, PayKnown, RecordDeposit, Goto, PcStates, Working,
                       tables, locks
<1>11. ASSUME NEW h \in Webhooks \cup Checks, CreditUser(h) PROVE TypeInv'
  <2>1. h \in Handlers /\ pc[h] \in Working /\ LockUser(h)
    BY <1>11 DEF CreditUser, Working, Handlers
  <2>2. QED
    BY <1>11, <2>1, LockUserType DEF TypeInv, TypeOK, PayKnown, CreditUser, Goto, PcStates,
                                     Working, tables
<1>12. ASSUME NEW h \in Webhooks \cup Checks, CommitCredit(h) PROVE TypeInv'
  <2>1. h \in Handlers /\ CommitPayments(h) /\ pay[h] \in Payments
    BY <1>12 DEF CommitCredit, Handlers, TypeInv, PayKnown, Working
  <2>2. balance' \in [Users -> Nat]
    <3>1. copy[h] \in Nat /\ Amount[pay[h]] \in Nat
      BY <2>1 DEF TypeInv, TypeOK
    <3>2. copy[h] + Amount[pay[h]] \in Nat
      BY <3>1
    <3>3. QED
      BY <1>12, <3>2 DEF CommitCredit, TypeInv, TypeOK
  <2>3. pc' \in [Handlers -> PcStates] /\ PayKnown'
    BY <1>12, <2>1 DEF CommitCredit, Goto, TypeInv, TypeOK, PayKnown, PcStates, Working
  <2>4. QED
    BY <1>12, <2>1, <2>2, <2>3, CommitType DEF TypeInv, TypeOK, CommitCredit
<1>13. ASSUME NEW s \in Spenders, BeginPurchase(s) PROVE TypeInv'
  <2>1. s \in Handlers /\ UserOf(s) \in Users
    BY UserOfType DEF Handlers
  <2>2. QED
    BY <1>13, <2>1 DEF TypeInv, TypeOK, PayKnown, BeginPurchase, Goto, PcStates, Working,
                       tables, locks
<1>14. ASSUME NEW s \in Spenders, LockBuyer(s) PROVE TypeInv'
  <2>1. s \in Handlers /\ LockUser(s)
    BY <1>14 DEF LockBuyer, Handlers
  <2>2. QED
    BY <1>14, <2>1, LockUserType DEF TypeInv, TypeOK, PayKnown, LockBuyer, Goto, PcStates,
                                     Working, tables
<1>15. ASSUME NEW s \in Spenders, InsufficientFunds(s) PROVE TypeInv'
  <2>1. s \in Handlers /\ Rollback(s) /\ Finish(s)
    BY <1>15 DEF InsufficientFunds, Handlers
  <2>2. QED
    BY <1>15, <2>1, RollbackType, FinishType DEF TypeInv, TypeOK, InsufficientFunds, tables
<1>16. ASSUME NEW s \in Spenders, SubtractBalance(s) PROVE TypeInv'
  <2>1. s \in Handlers /\ Unlock(s) /\ Finish(s)
    BY <1>16 DEF SubtractBalance, Handlers
  <2>2. balance' \in [Users -> Nat] /\ spent' \in [Users -> Nat]
    BY <1>16, <2>1 DEF SubtractBalance, TypeInv, TypeOK
  <2>3. QED
    BY <1>16, <2>1, <2>2, UnlockType, FinishType DEF TypeInv, TypeOK, SubtractBalance
<1>17. ASSUME Crash PROVE TypeInv'
  BY <1>17 DEF TypeInv, TypeOK, PayKnown, Crash, Fault, NoRow, PcStates, Working, tables
<1>18. ASSUME NEW h \in Handlers, DatabaseError(h) PROVE TypeInv'
  <2>1. Rollback(h) /\ Finish(h)
    BY <1>18 DEF DatabaseError
  <2>2. QED
    BY <1>18, <2>1, RollbackType, FinishType DEF TypeInv, TypeOK, DatabaseError, Fault, tables
<1>19. ASSUME NEW h \in Handlers, PythonError(h) PROVE TypeInv'
  <2>1. Finish(h)
    BY <1>19 DEF PythonError
  <2>2. CASE h \in Checks
    BY <1>19, <2>1, <2>2, FinishType DEF TypeInv, TypeOK, PythonError, Fault, locks
  <2>3. CASE h \notin Checks
    BY <1>19, <2>1, <2>3, FinishType, CommitType DEF TypeInv, TypeOK, PythonError, Fault
  <2>4. QED
    BY <2>2, <2>3
<1>20. CASE UNCHANGED vars
  BY <1>20 DEF TypeInv, TypeOK, PayKnown, vars, tables, locks, session
<1>21. ASSUME AutoCheck PROVE TypeInv'
  <2>1. AutoLoop \in Checks /\ Pending \in SUBSET Payments
    <3>1. Pending \subseteq Payments
      BY DEF Pending
    <3>2. QED
      BY <3>1
  <2>2. QED
    BY <1>21, <2>1, <1>4 DEF AutoCheck
<1>22. ASSUME NEW h \in Checks, ManualCheck(h) PROVE TypeInv'
  <2>1. Pending \in SUBSET Payments
    BY DEF Pending
  <2>2. PICK C \in SUBSET Payments : StartCheck(h, C)
    BY <1>22, <2>1 DEF ManualCheck
  <2>3. QED
    BY <2>2, <1>4
<1>23. ASSUME NEW h \in Webhooks \cup Checks, AfterCredit(h) PROVE TypeInv'
  <2>1. h \in Handlers /\ Finish(h) /\ UNCHANGED <<order, tables, flagged, recorded, faults>>
    BY <1>23 DEF AfterCredit, Handlers
  <2>2. /\ payLock' \in [Payments -> Handlers \cup {NoOne}]
        /\ userLock' \in [Users -> Handlers \cup {NoOne}]
    <3>1. CASE Unlock(h)
      BY <2>1, <3>1, UnlockType
    <3>2. CASE ~Unlock(h)
      <4>1. /\ payLock \in [Payments -> Handlers \cup {NoOne}]
            /\ userLock \in [Users -> Handlers \cup {NoOne}]
        BY DEF TypeInv, TypeOK
      <4>2. payLock' = payLock /\ userLock' = [userLock EXCEPT ![UserOf(h)] = h]
        BY <1>23, <3>2 DEF AfterCredit
      <4>3. QED
        BY <2>1, <4>1, <4>2
    <3>3. QED
      BY <3>1, <3>2
  <2>3. QED
    BY <2>1, <2>2, FinishType DEF TypeInv, TypeOK, tables
<1>24. ASSUME NEW h \in Handlers, DeadlockDetected(h) PROVE TypeInv'
  <2>1. Rollback(h) /\ Finish(h) /\ UNCHANGED <<order, faults>>
    BY <1>24 DEF DeadlockDetected
  <2>2. QED
    BY <2>1, RollbackType, FinishType DEF TypeInv, TypeOK, tables
<1>25. QED
  BY <1>1, <1>2, <1>3, <1>5, <1>6, <1>7, <1>8, <1>9, <1>10, <1>11, <1>12, <1>13, <1>14,
     <1>15, <1>16, <1>17, <1>18, <1>19, <1>20, <1>21, <1>22, <1>23, <1>24
     DEF Next, WebhookStep, CheckStep, FinalizeStep, PurchaseStep, FaultStep

(* Type correctness, for every instance and whatever faults may happen: in
   particular no balance ever becomes negative, because subtract_user_balance
   compares and debits under the row lock. *)
THEOREM TypeCorrect == Spec => []TypeOK
<1>1. TypeInv => TypeOK
  BY DEF TypeInv
<1>2. QED
  BY <1>1, TypeInit, TypeStep, PTL DEF Spec

-----------------------------------------------------------------------------
(***************************************************************************)
(* The strengthening.  A handler that has passed the payment's lock still  *)
(* holds it, its copy of the row is the committed row, and what it has     *)
(* written is exactly its own payment; the same for the user's row once    *)
(* the balance has been read under its lock.                               *)
(***************************************************************************)
Holding == {"locked", "marked", "linked", "credited"}

SessionOK(h) ==
    /\ pc[h] \in Working => h \in Webhooks \cup Checks /\ order[pay[h]] = "paid"
    /\ pc[h] \in Holding => payLock[pay[h]] = h /\ seen[h] = Row(pay[h])
    /\ pc[h] \in {"marked", "linked", "credited"} => ~isPaid[pay[h]]
    /\ flagged[h] = IF pc[h] \in {"marked", "linked", "credited"} THEN {pay[h]} ELSE {}
    /\ recorded[h] = IF pc[h] \in {"linked", "credited"} THEN {pay[h]} ELSE {}
    /\ pc[h] \in {"ordering", "charging"} => h \in Spenders
    /\ pc[h] \in {"credited", "charging"} =>
          userLock[UserOf(h)] = h /\ copy[h] = balance[UserOf(h)]

IInv == /\ TypeInv
        /\ PaidIffDeposited
        /\ \A h \in Handlers : SessionOK(h)

(* The inductive invariant holds at the start. *)
LEMMA IInvInit == Init => IInv
<1> SUFFICES ASSUME Init PROVE IInv
  OBVIOUS
<1>1. TypeInv
  BY TypeInit
<1>2. PaidIffDeposited
  BY DEF Init, PaidIffDeposited
<1>3. \A h \in Handlers : SessionOK(h)
  BY DEF Init, SessionOK, Working, Holding
<1>4. QED
  BY <1>1, <1>2, <1>3 DEF IInv

(* What a step of another session must leave alone for h to stay sound. *)
LEMMA Frame ==
    ASSUME NEW h \in Handlers, SessionOK(h),
           pc'[h] = pc[h], pay'[h] = pay[h], seen'[h] = seen[h], copy'[h] = copy[h],
           flagged'[h] = flagged[h], recorded'[h] = recorded[h],
           pc[h] \in Working => order'[pay[h]] = "paid",
           pc[h] \in Holding =>
               /\ payLock'[pay[h]] = h
               /\ isPaid'[pay[h]] = isPaid[pay[h]]
               /\ deposits'[pay[h]] = deposits[pay[h]],
           pc[h] \in {"credited", "charging"} =>
               /\ userLock'[UserOf(h)] = h
               /\ balance'[UserOf(h)] = balance[UserOf(h)]
    PROVE  SessionOK(h)'
BY DEF SessionOK, Row, UserOf, Holding, Working

(* A handler that has left its payment with nothing pending is sound. *)
LEMMA Rest ==
    ASSUME NEW h \in Handlers, pc'[h] \in {"idle", "polling"},
           flagged'[h] = {}, recorded'[h] = {}
    PROVE  SessionOK(h)'
BY DEF SessionOK, Holding, Working

(* A session that finishes with nothing pending is sound. *)
LEMMA FinishRest ==
    ASSUME IInv, NEW h \in Handlers, Finish(h), flagged'[h] = {}, recorded'[h] = {}
    PROVE  SessionOK(h)'
<1>1. pc'[h] \in {"idle", "polling"}
  BY DEF Finish, IInv, TypeInv, TypeOK
<1>2. QED
  BY <1>1, Rest

(* Finish touches no other handler. *)
LEMMA FinishOther ==
    ASSUME IInv, NEW g \in Handlers, NEW h \in Handlers, g # h, Finish(g)
    PROVE  /\ pc'[h] = pc[h] /\ pay'[h] = pay[h] /\ seen'[h] = seen[h] /\ copy'[h] = copy[h]
BY DEF Finish, IInv, TypeInv, TypeOK

(* A session that ends releases its own locks only. *)
LEMMA UnlockOther ==
    ASSUME IInv, NEW g \in Handlers, NEW h \in Handlers, g # h, Unlock(g)
    PROVE  /\ pc[h] \in Holding => payLock'[pay[h]] = h
           /\ pc[h] \in {"credited", "charging"} => userLock'[UserOf(h)] = h
<1>1. pc[h] \in Holding => pay[h] \in Payments /\ payLock[pay[h]] = h
  BY DEF IInv, TypeInv, PayKnown, SessionOK, Working, Holding
<1>2. pc[h] \in {"credited", "charging"} => UserOf(h) \in Users /\ userLock[UserOf(h)] = h
  BY UserOfType DEF IInv, SessionOK, Working, TypeInv
<1>3. QED
  BY <1>1, <1>2 DEF Unlock

(* A session that ends forgets no other session's writes. *)
LEMMA ForgetOther ==
    ASSUME IInv, NEW g \in Handlers, NEW h \in Handlers, g # h, ForgetWrites(g)
    PROVE  flagged'[h] = flagged[h] /\ recorded'[h] = recorded[h]
BY DEF ForgetWrites, IInv, TypeInv, TypeOK

(* A session that ends forgets its own writes. *)
LEMMA ForgetSelf ==
    ASSUME IInv, NEW g \in Handlers, ForgetWrites(g)
    PROVE  flagged'[g] = {} /\ recorded'[g] = {}
BY DEF ForgetWrites, IInv, TypeInv, TypeOK

(* A commit changes no row that another session has locked. *)
LEMMA CommitOther ==
    ASSUME IInv, NEW g \in Handlers, NEW h \in Handlers, g # h, CommitPayments(g),
           pc[h] \in Holding
    PROVE  isPaid'[pay[h]] = isPaid[pay[h]] /\ deposits'[pay[h]] = deposits[pay[h]]
<1>1. pay[h] \in Payments /\ payLock[pay[h]] = h
  BY DEF IInv, TypeInv, PayKnown, SessionOK, Working, Holding
<1>2. pay[h] \notin flagged[g] /\ pay[h] \notin recorded[g]
  <2>1. SessionOK(g)
    BY DEF IInv
  <2>2. ASSUME pay[h] \in flagged[g] \/ pay[h] \in recorded[g]
        PROVE  pay[h] = pay[g] /\ pc[g] \in Holding
    BY <2>1, <2>2 DEF SessionOK, Holding
  <2>3. pc[g] \in Holding => payLock[pay[g]] = g
    BY <2>1 DEF SessionOK
  <2>4. QED
    BY <1>1, <2>2, <2>3
<1>3. isPaid'[pay[h]] = (isPaid[pay[h]] \/ FALSE)
  BY <1>1, <1>2 DEF CommitPayments
<1>4. deposits'[pay[h]] = deposits[pay[h]] + 0
  BY <1>1, <1>2 DEF CommitPayments
<1>5. isPaid[pay[h]] \in BOOLEAN
  BY <1>1, Zenon DEF IInv, TypeInv, TypeOK
<1>6. deposits[pay[h]] \in Nat
  BY <1>1 DEF IInv, TypeInv, TypeOK
<1>7. QED
  BY <1>3, <1>4, <1>5, <1>6

(* A session that ends its transaction, and writes at most what it had
   pending, keeps the other sessions sound. *)
LEMMA OtherSessions ==
    ASSUME IInv, TypeInv', NEW g \in Handlers, Unlock(g), ForgetWrites(g),
           UNCHANGED order,
           \A h \in Handlers \ {g} :
               pc'[h] = pc[h] /\ pay'[h] = pay[h] /\ seen'[h] = seen[h] /\ copy'[h] = copy[h],
           CommitPayments(g) \/ UNCHANGED <<isPaid, deposits>>,
           \A u \in Users : userLock[u] # g => balance'[u] = balance[u]
    PROVE  \A h \in Handlers \ {g} : SessionOK(h)'
<1> SUFFICES ASSUME NEW h \in Handlers, h # g PROVE SessionOK(h)'
  OBVIOUS
<1>1. SessionOK(h)
  BY DEF IInv
<1>2. flagged'[h] = flagged[h] /\ recorded'[h] = recorded[h]
  BY ForgetOther
<1>3. /\ pc[h] \in Holding => payLock'[pay[h]] = h
      /\ pc[h] \in {"credited", "charging"} => userLock'[UserOf(h)] = h
  BY UnlockOther
<1>4. pc[h] \in Holding =>
          isPaid'[pay[h]] = isPaid[pay[h]] /\ deposits'[pay[h]] = deposits[pay[h]]
  BY CommitOther
<1>5. pc[h] \in {"credited", "charging"} => balance'[UserOf(h)] = balance[UserOf(h)]
  <2>1. pc[h] \in {"credited", "charging"} =>
            UserOf(h) \in Users /\ userLock[UserOf(h)] = h
    BY <1>1, UserOfType DEF IInv, SessionOK, Working
  <2>2. QED
    BY <2>1
<1>6. pc[h] \in Working => order'[pay[h]] = "paid"
  BY <1>1 DEF SessionOK
<1>7. QED
  BY <1>1, <1>2, <1>3, <1>4, <1>5, <1>6, Frame

(* So does one that also leaves its payment, and it is sound itself. *)
LEMMA EndOfSession ==
    ASSUME IInv, TypeInv', NEW g \in Handlers, Finish(g), Unlock(g), ForgetWrites(g),
           UNCHANGED order,
           CommitPayments(g) \/ UNCHANGED <<isPaid, deposits>>,
           \A u \in Users : userLock[u] # g => balance'[u] = balance[u]
    PROVE  \A h \in Handlers : SessionOK(h)'
<1>1. SessionOK(g)'
  BY ForgetSelf, FinishRest
<1>2. \A h \in Handlers \ {g} :
          pc'[h] = pc[h] /\ pay'[h] = pay[h] /\ seen'[h] = seen[h] /\ copy'[h] = copy[h]
  BY FinishOther
<1>3. \A h \in Handlers \ {g} : SessionOK(h)'
  BY <1>2, OtherSessions
<1>4. QED
  BY <1>1, <1>3

(* The rows and the transactions stay together through any commit. *)
LEMMA CommitKeepsPairs ==
    ASSUME IInv, NEW g \in Handlers, pc[g] \notin {"marked", "linked"},
           CommitPayments(g), UNCHANGED order
    PROVE  PaidIffDeposited'
<1>1. SessionOK(g) /\ PaidIffDeposited
  BY DEF IInv
<1>2. CASE pc[g] = "credited"
  <2>1. /\ flagged[g] = {pay[g]} /\ recorded[g] = {pay[g]}
        /\ order[pay[g]] = "paid" /\ ~isPaid[pay[g]]
    BY <1>1, <1>2 DEF SessionOK, Working
  <2> SUFFICES ASSUME NEW p \in Payments
               PROVE  /\ deposits'[p] = IF isPaid'[p] THEN 1 ELSE 0
                      /\ isPaid'[p] => order'[p] = "paid"
    BY DEF PaidIffDeposited
  <2>2. CASE p = pay[g]
    <3>1. isPaid'[p] = (isPaid[p] \/ TRUE) /\ deposits'[p] = deposits[p] + 1
      BY <2>1, <2>2 DEF CommitPayments
    <3>2. deposits[p] = 0
      BY <1>1, <2>1, <2>2 DEF PaidIffDeposited
    <3>3. deposits'[p] = 1
      BY <3>1, <3>2
    <3>4. isPaid'[p]
      BY <3>1, Zenon
    <3>5. QED
      BY <2>1, <2>2, <3>3, <3>4
  <2>3. CASE p # pay[g]
    <3>1. isPaid'[p] = (isPaid[p] \/ FALSE) /\ deposits'[p] = deposits[p] + 0
      BY <2>1, <2>3 DEF CommitPayments
    <3>2. isPaid[p] \in BOOLEAN
      BY Zenon DEF IInv, TypeInv, TypeOK
    <3>3. deposits[p] \in Nat
      BY DEF IInv, TypeInv, TypeOK
    <3>4. QED
      BY <1>1, <3>1, <3>2, <3>3 DEF PaidIffDeposited
  <2>4. QED
    BY <2>2, <2>3
<1>3. CASE pc[g] # "credited"
  <2>1. flagged[g] = {} /\ recorded[g] = {}
    BY <1>1, <1>3 DEF SessionOK
  <2>2. \A p \in Payments : isPaid'[p] = (isPaid[p] \/ FALSE) /\ deposits'[p] = deposits[p] + 0
    BY <2>1 DEF CommitPayments
  <2>3. \A p \in Payments : isPaid[p] \in BOOLEAN
    BY Zenon DEF IInv, TypeInv, TypeOK
  <2>4. \A p \in Payments : deposits[p] \in Nat
    BY DEF IInv, TypeInv, TypeOK
  <2>5. \A p \in Payments : isPaid'[p] = isPaid[p] /\ deposits'[p] = deposits[p]
    BY <2>2, <2>3, <2>4
  <2>6. QED
    BY <1>1, <2>5 DEF PaidIffDeposited
<1>4. QED
  BY <1>2, <1>3

-----------------------------------------------------------------------------
(* Without swallowed exceptions every step keeps the inductive invariant. *)
LEMMA IInvStep ==
    ASSUME "python" \notin FaultKinds, IInv, [Next]_vars
    PROVE  IInv'
<1> USE ConstantsAssumption
<1>1. TypeInv'
  BY TypeStep DEF IInv
<1>2. ASSUME UNCHANGED <<isPaid, deposits>>,
             \A p \in Payments : order[p] = "paid" => order'[p] = "paid"
      PROVE  PaidIffDeposited'
  BY <1>2 DEF IInv, PaidIffDeposited
<1> DEFINE Sound == \A h \in Handlers : SessionOK(h)'
<1>3. Sound /\ PaidIffDeposited' => IInv'
  BY <1>1 DEF IInv
<1>4. ASSUME NEW p \in Payments, CreatePayment(p) \/ ProviderPays(p) PROVE IInv'
  <2>1. \A q \in Payments : order[q] = "paid" => order'[q] = "paid"
    BY <1>4 DEF CreatePayment, ProviderPays, IInv, TypeInv, TypeOK
  <2>2. UNCHANGED <<tables, locks, session>>
    BY <1>4 DEF CreatePayment, ProviderPays
  <2>3. ASSUME NEW h \in Handlers PROVE SessionOK(h)'
    <3>1. SessionOK(h) /\ (pc[h] \in Working => pay[h] \in Payments)
      BY DEF IInv, TypeInv, PayKnown
    <3>2. pc[h] \in Working => order'[pay[h]] = "paid"
      BY <2>1, <3>1 DEF SessionOK
    <3>3. QED
      BY <2>2, <3>1, <3>2, Frame DEF tables, locks, session, SessionOK
  <2>4. QED
    BY <1>2, <1>3, <2>1, <2>2, <2>3 DEF tables
<1>5. ASSUME NEW g \in Handlers, UNCHANGED <<order, tables, locks>>,
             SessionOK(g)',
             \A h \in Handlers \ {g} :
                 /\ pc'[h] = pc[h] /\ pay'[h] = pay[h] /\ seen'[h] = seen[h]
                 /\ copy'[h] = copy[h] /\ flagged'[h] = flagged[h]
                 /\ recorded'[h] = recorded[h]
      PROVE  IInv'
  <2>1. ASSUME NEW h \in Handlers \ {g} PROVE SessionOK(h)'
    <3>1. SessionOK(h)
      BY DEF IInv
    <3>2. QED
      BY <1>5, <3>1, Frame DEF tables, locks, SessionOK
  <2>2. PaidIffDeposited'
    BY <1>2, <1>5 DEF tables
  <2>3. QED
    BY <1>3, <1>5, <2>1, <2>2
<1>6. ASSUME NEW w \in Webhooks, NEW p \in Payments, ReceiveWebhook(w, p) PROVE IInv'
  <2>1. w \in Handlers
    BY DEF Handlers
  <2>2. SessionOK(w)'
    <3>1. SessionOK(w)
      BY <2>1 DEF IInv
    <3>2. pc'[w] = "found" /\ pay'[w] = p
      BY <1>6, <2>1 DEF ReceiveWebhook, Goto, IInv, TypeInv, TypeOK
    <3>3. QED
      BY <1>6, <3>1, <3>2 DEF ReceiveWebhook, SessionOK, Working, Holding
  <2>3. QED
    BY <1>5, <1>6, <2>1, <2>2 DEF ReceiveWebhook, Goto, IInv, TypeInv, TypeOK
<1>7. ASSUME NEW h \in Checks, NEW C, StartCheck(h, C) PROVE IInv'
  <2>1. h \in Handlers
    BY DEF Handlers
  <2>2. SessionOK(h)'
    <3>1. SessionOK(h) /\ pc'[h] = "polling" /\ pc[h] = "idle"
      BY <1>7, <2>1 DEF StartCheck, Goto, IInv, TypeInv, TypeOK
    <3>2. flagged'[h] = {} /\ recorded'[h] = {}
      BY <1>7, <3>1 DEF StartCheck, SessionOK
    <3>3. QED
      BY <2>1, <3>1, <3>2, Rest
  <2>3. QED
    BY <1>5, <1>7, <2>1, <2>2 DEF StartCheck, Goto, IInv, TypeInv, TypeOK
<1>8. ASSUME NEW h \in Checks, NEW p \in Payments, SkipCandidate(h, p) \/ ApiError(h, p)
      PROVE  IInv'
  <2>1. h \in Handlers
    BY DEF Handlers
  <2>2. UNCHANGED <<order, tables, locks, pc, pay, seen, copy, flagged, recorded>>
    BY <1>8 DEF SkipCandidate, ApiError
  <2>3. SessionOK(h)'
    BY <2>1, <2>2 DEF IInv, SessionOK, tables, locks, Row, UserOf
  <2>4. QED
    BY <1>5, <2>1, <2>2, <2>3
<1>9. ASSUME NEW h \in Checks, NEW p \in Payments, ProviderConfirms(h, p) PROVE IInv'
  <2>1. h \in Handlers
    BY DEF Handlers
  <2>2. SessionOK(h)'
    <3>1. SessionOK(h) /\ pc[h] = "polling"
      BY <1>9, <2>1 DEF IInv, ProviderConfirms, NextCandidate
    <3>2. pc'[h] = "found" /\ pay'[h] = p
      BY <1>9, <2>1 DEF ProviderConfirms, Goto, IInv, TypeInv, TypeOK
    <3>3. QED
      BY <1>9, <3>1, <3>2 DEF ProviderConfirms, SessionOK, Working, Holding
  <2>3. QED
    BY <1>5, <1>9, <2>1, <2>2 DEF ProviderConfirms, Goto, IInv, TypeInv, TypeOK
<1>10. ASSUME NEW h \in Webhooks \cup Checks, MarkPaid(h) PROVE IInv'
  <2>1. h \in Handlers
    BY DEF Handlers
  <2>2. SessionOK(h)'
    <3>1. SessionOK(h) /\ pc[h] = "locked" /\ pay[h] \in Payments
      BY <1>10, <2>1 DEF IInv, MarkPaid, TypeInv, PayKnown, Working
    <3>2. pc'[h] = "marked" /\ flagged'[h] = flagged[h] \cup {pay[h]}
      BY <1>10, <2>1 DEF MarkPaid, Goto, IInv, TypeInv, TypeOK
    <3>3. ~isPaid[pay[h]]
      BY <1>10, <3>1 DEF MarkPaid, SessionOK, Holding, Row
    <3>4. QED
      BY <1>10, <3>1, <3>2, <3>3
         DEF MarkPaid, SessionOK, Working, Holding, Row, tables, locks
  <2>3. QED
    BY <1>5, <1>10, <2>1, <2>2 DEF MarkPaid, Goto, IInv, TypeInv, TypeOK
<1>11. ASSUME NEW h \in Webhooks \cup Checks, RecordDeposit(h) PROVE IInv'
  <2>1. h \in Handlers
    BY DEF Handlers
  <2>2. SessionOK(h)'
    <3>1. SessionOK(h) /\ pc[h] = "marked"
      BY <1>11, <2>1 DEF IInv, RecordDeposit
    <3>2. pc'[h] = "linked" /\ recorded'[h] = recorded[h] \cup {pay[h]}
      BY <1>11, <2>1 DEF RecordDeposit, Goto, IInv, TypeInv, TypeOK
    <3>3. QED
      BY <1>11, <3>1, <3>2
         DEF RecordDeposit, SessionOK, Working, Holding, Row, tables, locks
  <2>3. QED
    BY <1>5, <1>11, <2>1, <2>2 DEF RecordDeposit, Goto, IInv, TypeInv, TypeOK
<1>12. ASSUME NEW s \in Spenders, BeginPurchase(s) PROVE IInv'
  <2>1. s \in Handlers
    BY DEF Handlers
  <2>2. SessionOK(s)'
    <3>1. SessionOK(s) /\ pc[s] = "idle" /\ pc'[s] = "ordering"
      BY <1>12, <2>1 DEF IInv, BeginPurchase, Goto, TypeInv, TypeOK
    <3>2. QED
      BY <1>12, <3>1 DEF BeginPurchase, SessionOK, Working, Holding
  <2>3. QED
    BY <1>5, <1>12, <2>1, <2>2 DEF BeginPurchase, Goto, IInv, TypeInv, TypeOK
<1>13. ASSUME NEW h \in Webhooks \cup Checks, LockPayment(h) PROVE IInv'
  <2>1. h \in Handlers /\ SessionOK(h) /\ pc[h] = "found" /\ pay[h] \in Payments
    BY <1>13 DEF Handlers, LockPayment, IInv, TypeInv, PayKnown, Working
  <2>2. SessionOK(h)'
    <3>1. /\ pc'[h] = "locked" /\ payLock'[pay[h]] = h /\ seen'[h] = Row(pay[h])
          /\ UNCHANGED <<order, tables, pay, flagged, recorded>>
      BY <1>13, <2>1 DEF LockPayment, Goto, IInv, TypeInv, TypeOK
    <3>2. QED
      BY <2>1, <3>1 DEF SessionOK, Working, Holding, Row, tables
  <2>3. ASSUME NEW g \in Handlers \ {h} PROVE SessionOK(g)'
    <3>1. SessionOK(g)
      BY DEF IInv
    <3>2. /\ pc'[g] = pc[g] /\ pay'[g] = pay[g] /\ seen'[g] = seen[g] /\ copy'[g] = copy[g]
          /\ flagged'[g] = flagged[g] /\ recorded'[g] = recorded[g]
      BY <1>13 DEF LockPayment, Goto, IInv, TypeInv, TypeOK
    <3>3. pc[g] \in Holding => pay[g] \in Payments /\ payLock[pay[g]] = g
      BY <3>1 DEF SessionOK, IInv, TypeInv, PayKnown, Holding, Working
    <3>4. pc[g] \in Holding => payLock'[pay[g]] = g
      BY <1>13, <2>1, <3>3 DEF LockPayment, IInv, TypeInv, TypeOK
    <3>5. QED
      BY <1>13, <3>1, <3>2, <3>4, Frame DEF LockPayment, tables, SessionOK
  <2>4. PaidIffDeposited'
    BY <1>2, <1>13 DEF LockPayment, tables
  <2>5. QED
    BY <1>3, <2>2, <2>3, <2>4
<1>14. ASSUME NEW h \in Handlers, LockUser(h), UserOf(h) \in Users, SessionOK(h)',
              UNCHANGED <<order, tables, payLock, pay, seen, flagged, recorded>>,
              \A g \in Handlers \ {h} : pc'[g] = pc[g]
       PROVE  IInv'
  <2>1. ASSUME NEW g \in Handlers \ {h} PROVE SessionOK(g)'
    <3>1. SessionOK(g) /\ copy'[g] = copy[g]
      BY <1>14 DEF IInv, LockUser, TypeInv, TypeOK
    <3>2. pc[g] \in {"credited", "charging"} => UserOf(g) \in Users /\ userLock[UserOf(g)] = g
      BY <3>1, UserOfType DEF IInv, SessionOK, Working
    <3>3. pc[g] \in {"credited", "charging"} => userLock'[UserOf(g)] = g
      BY <1>14, <3>2 DEF LockUser, IInv, TypeInv, TypeOK
    <3>4. QED
      BY <1>14, <3>1, <3>3, Frame DEF tables, SessionOK
  <2>2. PaidIffDeposited'
    BY <1>2, <1>14 DEF tables
  <2>3. QED
    BY <1>3, <1>14, <2>1, <2>2
<1>15. ASSUME NEW h \in Webhooks \cup Checks, CreditUser(h) PROVE IInv'
  <2>1. h \in Handlers /\ SessionOK(h) /\ pc[h] = "linked" /\ UserOf(h) \in Users
    BY <1>15, UserOfType DEF Handlers, CreditUser, IInv, Working
  <2>2. SessionOK(h)'
    <3>1. /\ pc'[h] = "credited" /\ userLock'[UserOf(h)] = h /\ copy'[h] = balance[UserOf(h)]
      BY <1>15, <2>1 DEF CreditUser, LockUser, Goto, IInv, TypeInv, TypeOK
    <3>2. UserOf(h)' = UserOf(h)
      BY <1>15 DEF CreditUser, UserOf
    <3>3. QED
      BY <1>15, <2>1, <3>1, <3>2 DEF CreditUser, SessionOK, Working, Holding, Row, tables
  <2>3. QED
    BY <1>14, <1>15, <2>1, <2>2 DEF CreditUser, Goto, IInv, TypeInv, TypeOK
<1>16. ASSUME NEW s \in Spenders, LockBuyer(s) PROVE IInv'
  <2>1. s \in Handlers /\ SessionOK(s) /\ pc[s] = "ordering" /\ UserOf(s) \in Users
    BY <1>16, UserOfType DEF Handlers, LockBuyer, IInv
  <2>2. SessionOK(s)'
    <3>1. /\ pc'[s] = "charging" /\ userLock'[UserOf(s)] = s /\ copy'[s] = balance[UserOf(s)]
      BY <1>16, <2>1 DEF LockBuyer, LockUser, Goto, IInv, TypeInv, TypeOK
    <3>2. UserOf(s)' = UserOf(s)
      BY <1>16 DEF LockBuyer, UserOf
    <3>3. QED
      BY <1>16, <2>1, <3>1, <3>2 DEF LockBuyer, SessionOK, Working, Holding, tables
  <2>3. QED
    BY <1>14, <1>16, <2>1, <2>2 DEF LockBuyer, Goto, IInv, TypeInv, TypeOK
<1>17. ASSUME NEW g \in Handlers, Rollback(g), Finish(g), UNCHANGED order PROVE IInv'
  <2>1. Sound
    BY <1>1, <1>17, EndOfSession DEF Rollback, tables
  <2>2. PaidIffDeposited'
    BY <1>2, <1>17 DEF Rollback, tables
  <2>3. QED
    BY <1>3, <2>1, <2>2
<1>18. ASSUME NEW h \in Webhooks \cup Checks, AlreadyPaid(h) PROVE IInv'
  <2>1. h \in Handlers /\ SessionOK(h) /\ pc[h] = "locked" /\ Finish(h)
    BY <1>18 DEF Handlers, AlreadyPaid, IInv
  <2>2. CASE h \in Checks
    <3>1. UNCHANGED <<order, tables, locks, flagged, recorded>>
      BY <1>18, <2>2 DEF AlreadyPaid
    <3>2. flagged[h] = {} /\ recorded[h] = {}
      BY <2>1 DEF SessionOK
    <3>3. SessionOK(h)'
      BY <2>1, <3>1, <3>2, FinishRest
    <3>4. QED
      BY <1>5, <2>1, <3>1, <3>3, FinishOther
  <2>3. CASE h \notin Checks
    BY <1>17, <1>18, <2>1, <2>3 DEF AlreadyPaid
  <2>4. QED
    BY <2>2, <2>3
<1>19. ASSUME NEW h \in Checks, EndCheck(h) PROVE IInv'
  <2>1. h \in Handlers /\ SessionOK(h) /\ pc[h] = "polling" /\ pc'[h] = "idle"
    BY <1>19 DEF Handlers, EndCheck, Goto, IInv, TypeInv, TypeOK
  <2>2. UNCHANGED <<order, pay, todo, seen, copy, balance>> /\ Unlock(h) /\ ForgetWrites(h)
    BY <1>19 DEF EndCheck, CommitPayments, Rollback, tables
  <2>3. CommitPayments(h) \/ UNCHANGED <<isPaid, deposits>>
    BY <1>19 DEF EndCheck, Rollback, tables
  <2>4. SessionOK(h)'
    BY <2>1, <2>2, ForgetSelf, Rest
  <2>5. ASSUME NEW g \in Handlers \ {h} PROVE SessionOK(g)'
    <3>1. SessionOK(g) /\ pc'[g] = pc[g]
      BY <1>19 DEF IInv, EndCheck, Goto, TypeInv, TypeOK
    <3>2. /\ flagged'[g] = flagged[g] /\ recorded'[g] = recorded[g]
          /\ pc[g] \in Holding => payLock'[pay[g]] = g
          /\ pc[g] \in {"credited", "charging"} => userLock'[UserOf(g)] = g
      BY <2>1, <2>2, ForgetOther, UnlockOther
    <3>3. pc[g] \in Holding =>
              isPaid'[pay[g]] = isPaid[pay[g]] /\ deposits'[pay[g]] = deposits[pay[g]]
      BY <2>1, <2>3, CommitOther
    <3>4. QED
      BY <2>2, <3>1, <3>2, <3>3, Frame DEF SessionOK
  <2>6. PaidIffDeposited'
    BY <1>2, <2>1, <2>2, <2>3, CommitKeepsPairs
  <2>7. QED
    BY <1>3, <2>4, <2>5, <2>6
<1>20. ASSUME NEW h \in Webhooks \cup Checks, CommitCredit(h) PROVE IInv'
  <2>1. h \in Handlers /\ SessionOK(h) /\ pc[h] = "credited"
    BY <1>20 DEF Handlers, CommitCredit, IInv
  <2>2. \A u \in Users : userLock[u] # h => balance'[u] = balance[u]
    BY <1>20, <2>1 DEF CommitCredit, SessionOK, IInv, TypeInv, TypeOK
  <2>3. CommitPayments(h) /\ Unlock(h) /\ ForgetWrites(h)
        /\ UNCHANGED <<order, pay, seen, copy>>
    BY <1>20 DEF CommitCredit, CommitPayments
  <2>4. \A g \in Handlers : pc'[g] = IF g = h THEN "rewarding" ELSE pc[g]
    BY <1>20, <2>1 DEF CommitCredit, Goto, IInv, TypeInv, TypeOK
  <2>5. \A g \in Handlers \ {h} : SessionOK(g)'
    BY <1>1, <2>1, <2>2, <2>3, <2>4, OtherSessions
  <2>6. SessionOK(h)'
    <3>1. flagged'[h] = {} /\ recorded'[h] = {} /\ pc'[h] = "rewarding"
      BY <2>1, <2>3, <2>4, ForgetSelf
    <3>2. QED
      BY <2>1, <2>3, <3>1 DEF SessionOK, Working, Holding
  <2>7. PaidIffDeposited'
    BY <1>20, <2>1, CommitKeepsPairs DEF CommitCredit
  <2>8. QED
    BY <1>3, <2>5, <2>6, <2>7
<1>21. ASSUME NEW s \in Spenders, SubtractBalance(s) PROVE IInv'
  <2>1. s \in Handlers /\ SessionOK(s) /\ pc[s] = "charging" /\ UserOf(s) = Buyer[s]
    BY <1>21 DEF Handlers, SubtractBalance, IInv, UserOf
  <2>2. \A u \in Users : userLock[u] # s => balance'[u] = balance[u]
    BY <1>21, <2>1 DEF SubtractBalance, SessionOK, IInv, TypeInv, TypeOK
  <2>3. ForgetWrites(s)
    <3>1. flagged[s] = {} /\ recorded[s] = {}
      BY <2>1 DEF SessionOK
    <3>2. UNCHANGED <<flagged, recorded>>
      BY <1>21 DEF SubtractBalance
    <3>3. QED
      BY <2>1, <3>1, <3>2 DEF ForgetWrites, IInv, TypeInv, TypeOK
  <2>4. Sound
    BY <1>1, <1>21, <2>1, <2>2, <2>3, EndOfSession DEF SubtractBalance
  <2>5. PaidIffDeposited'
    BY <1>2, <1>21 DEF SubtractBalance
  <2>6. QED
    BY <1>3, <2>4, <2>5
<1>22. ASSUME Crash PROVE IInv'
  <2>1. Sound
    BY <1>22 DEF Crash, SessionOK, Working, Holding
  <2>2. PaidIffDeposited'
    BY <1>2, <1>22 DEF Crash, tables
  <2>3. QED
    BY <1>3, <2>1, <2>2
<1>23. ASSUME NEW h \in Handlers, PythonError(h) PROVE FALSE
  BY <1>23 DEF PythonError, Fault
<1>24. ASSUME UNCHANGED vars PROVE IInv'
  <2>1. ASSUME NEW h \in Handlers PROVE SessionOK(h)'
    BY <1>24, Frame DEF vars, tables, locks, session, IInv, SessionOK
  <2>2. PaidIffDeposited'
    BY <1>2, <1>24 DEF vars, tables
  <2>3. QED
    BY <1>3, <2>1, <2>2
<1>25. ASSUME NEW w \in Webhooks, RejectAmount(w) PROVE IInv'
  BY <1>17, <1>25 DEF RejectAmount, Handlers
<1>26. ASSUME NEW s \in Spenders, InsufficientFunds(s) PROVE IInv'
  BY <1>17, <1>26 DEF InsufficientFunds, Handlers
<1>27. ASSUME NEW h \in Handlers, DatabaseError(h) PROVE IInv'
  BY <1>17, <1>27 DEF DatabaseError
<1>28. ASSUME AutoCheck PROVE IInv'
  BY <1>7, <1>28 DEF AutoCheck
<1>29. ASSUME NEW h \in Checks, ManualCheck(h) PROVE IInv'
  BY <1>7, <1>29 DEF ManualCheck
<1>30. ASSUME NEW h \in Webhooks \cup Checks, AfterCredit(h) PROVE IInv'
  <2>1. /\ h \in Handlers /\ SessionOK(h) /\ pc[h] = "rewarding" /\ Finish(h)
        /\ UNCHANGED <<order, tables, flagged, recorded>> /\ UserOf(h) \in Users
    BY <1>30, UserOfType DEF Handlers, AfterCredit, IInv, Working
  <2>2. flagged[h] = {} /\ recorded[h] = {}
    BY <2>1 DEF SessionOK
  <2>3. PaidIffDeposited'
    BY <1>2, <2>1 DEF tables
  <2>4. CASE Unlock(h)
    <3>1. ForgetWrites(h)
      BY <2>1, <2>2 DEF ForgetWrites, IInv, TypeInv, TypeOK
    <3>2. Sound
      BY <1>1, <2>1, <2>4, <3>1, EndOfSession DEF tables
    <3>3. QED
      BY <1>3, <2>3, <3>2
  <2>5. CASE ~Unlock(h)
    <3>1. /\ userLock[UserOf(h)] \in {NoOne, h} /\ UNCHANGED payLock
          /\ userLock' = [userLock EXCEPT ![UserOf(h)] = h]
      BY <1>30, <2>5 DEF AfterCredit
    <3>2. SessionOK(h)'
      BY <2>1, <2>2, FinishRest
    <3>3. ASSUME NEW g \in Handlers \ {h} PROVE SessionOK(g)'
      <4>1. SessionOK(g)
        BY DEF IInv
      <4>2. pc'[g] = pc[g] /\ pay'[g] = pay[g] /\ seen'[g] = seen[g] /\ copy'[g] = copy[g]
        BY <2>1, FinishOther
      <4>3. pc[g] \in {"credited", "charging"} =>
                UserOf(g) \in Users /\ userLock[UserOf(g)] = g
        BY <4>1, UserOfType DEF IInv, SessionOK, Working
      <4>4. pc[g] \in {"credited", "charging"} => userLock'[UserOf(g)] = g
        BY <3>1, <4>3 DEF IInv, TypeInv, TypeOK
      <4>5. QED
        BY <2>1, <3>1, <4>1, <4>2, <4>4, Frame DEF tables, SessionOK
    <3>4. QED
      BY <1>3, <2>3, <3>2, <3>3
  <2>6. QED
    BY <2>4, <2>5
<1>31. ASSUME NEW h \in Handlers, DeadlockDetected(h) PROVE IInv'
  BY <1>17, <1>31 DEF DeadlockDetected
<1>32. QED
  BY <1>4, <1>6, <1>8, <1>9, <1>10, <1>11, <1>12, <1>13, <1>15, <1>16, <1>18, <1>19, <1>20,
     <1>21, <1>22, <1>23, <1>24, <1>25, <1>26, <1>27, <1>28, <1>29, <1>30, <1>31
     DEF Next, WebhookStep, CheckStep, FinalizeStep, PurchaseStep, FaultStep

(* A payment is recorded as paid exactly when its one deposit is, for any
   number of deliveries, polls, crashes and database errors, as long as no
   Python exception is swallowed between the flush of is_paid and the commit. *)
THEOREM PaidIffDepositedAlways ==
    ASSUME "python" \notin FaultKinds
    PROVE  Spec => []PaidIffDeposited
<1>1. IInv => PaidIffDeposited
  BY DEF IInv
<1>2. IInv /\ [Next]_vars => IInv'
  BY IInvStep
<1>3. QED
  BY <1>1, <1>2, IInvInit, PTL DEF Spec

-----------------------------------------------------------------------------
(***************************************************************************)
(* Refinement: the handlers implement the ledger.                          *)
(***************************************************************************)
Confirmed == {p \in Payments : order[p] = "paid"}
Credited == {p \in Payments : deposits[p] > 0}

(* A step that changes nothing of the ledger stutters in it. *)
LEMMA BookStutter ==
    ASSUME Confirmed' = Confirmed, Credited' = Credited, UNCHANGED <<balance, spent>>
    PROVE  [Book!LedgerNext]_(Book!ledgerVars)
BY DEF Book!ledgerVars, Confirmed, Credited

(* Steps that leave the tables and the provider alone. *)
LEMMA QuietStep ==
    ASSUME UNCHANGED <<order, deposits, balance, spent>>
    PROVE  [Book!LedgerNext]_(Book!ledgerVars)
<1>1. Confirmed' = Confirmed /\ Credited' = Credited
  BY DEF Confirmed, Credited
<1>2. QED
  BY <1>1, BookStutter

(* The empty tables are the empty ledger. *)
LEMMA BookInit == Init => Book!LedgerInit
BY DEF Init, Book!LedgerInit

(* Every step of a handler is a step of the ledger, or none. *)
LEMMA BookStep ==
    ASSUME "python" \notin FaultKinds, IInv, [Next]_vars
    PROVE  [Book!LedgerNext]_(Book!ledgerVars)
<1> USE ConstantsAssumption
<1> DEFINE BookOK == [Book!LedgerNext]_(Book!ledgerVars)
<1>1. ASSUME NEW p \in Payments, CreatePayment(p) PROVE BookOK
  <2>1. Confirmed' = Confirmed
    BY <1>1 DEF CreatePayment, Confirmed, IInv, TypeInv, TypeOK
  <2>2. Credited' = Credited /\ UNCHANGED <<balance, spent>>
    BY <1>1 DEF CreatePayment, Credited, tables
  <2>3. QED
    BY <2>1, <2>2, BookStutter
<1>2. ASSUME NEW p \in Payments, ProviderPays(p) PROVE BookOK
  <2>1. p \notin Confirmed /\ Confirmed' = Confirmed \cup {p}
    BY <1>2 DEF ProviderPays, Confirmed, IInv, TypeInv, TypeOK
  <2>2. Credited' = Credited /\ UNCHANGED <<balance, spent>>
    BY <1>2 DEF ProviderPays, Credited, tables
  <2>3. Book!Confirm(p)
    BY <2>1, <2>2 DEF Book!Confirm, Confirmed, Credited
  <2>4. QED
    BY <2>3 DEF Book!LedgerNext
<1>3. ASSUME NEW h \in Webhooks \cup Checks, CommitCredit(h) PROVE BookOK
  <2>1. PICK p \in Payments : p = pay[h]
    BY <1>3 DEF CommitCredit, Handlers, IInv, TypeInv, PayKnown, Working
  <2>2. h \in Handlers /\ pc[h] = "credited" /\ SessionOK(h) /\ p = pay[h]
    BY <1>3, <2>1 DEF CommitCredit, Handlers, IInv
  <2>3. /\ order[p] = "paid" /\ ~isPaid[p] /\ recorded[h] = {p}
        /\ copy[h] = balance[UserOf(h)]
    BY <2>2 DEF SessionOK, Working
  <2>4. UserOf(h) = Owner[p]
    BY <1>3, <2>2 DEF UserOf
  <2>5. deposits[p] = 0
    BY <2>2, <2>3 DEF IInv, PaidIffDeposited
  <2>6. \A q \in Payments : deposits'[q] = deposits[q] + (IF q = p THEN 1 ELSE 0)
    BY <1>3, <2>3 DEF CommitCredit, CommitPayments
  <2>7. \A q \in Payments : deposits[q] \in Nat
    BY DEF IInv, TypeInv, TypeOK
  <2>8. p \notin Credited /\ Credited' = Credited \cup {p}
    <3>1. deposits'[p] = 1
      BY <2>5, <2>6
    <3>2. \A q \in Payments : q # p => deposits'[q] = deposits[q]
      BY <2>6, <2>7
    <3>3. \A q \in Payments : deposits'[q] > 0 <=> (deposits[q] > 0 \/ q = p)
      BY <2>5, <3>1, <3>2
    <3>4. p \notin Credited
      BY <2>5 DEF Credited
    <3>5. \A q : q \in Credited' <=> q \in Credited \cup {p}
      BY <2>1, <3>3 DEF Credited
    <3>6. QED
      BY <3>4, <3>5
  <2>9. p \in Confirmed /\ Confirmed' = Confirmed
    BY <1>3, <2>2, <2>3 DEF CommitCredit, Confirmed
  <2>10. balance' = [balance EXCEPT ![Owner[p]] = balance[Owner[p]] + Amount[p]]
    BY <1>3, <2>2, <2>3, <2>4 DEF CommitCredit
  <2>11. Book!Credit(p)
    BY <1>3, <2>8, <2>9, <2>10 DEF Book!Credit, CommitCredit, Confirmed, Credited
  <2>12. \E q \in Payments : Book!Credit(q)
    BY <2>2, <2>11
  <2>13. QED
    BY <2>12 DEF Book!LedgerNext
<1>4. ASSUME NEW s \in Spenders, SubtractBalance(s) PROVE BookOK
  <2>1. s \in Handlers /\ SessionOK(s) /\ UserOf(s) = Buyer[s] /\ Buyer[s] \in Users
    BY DEF Handlers, IInv, UserOf
  <2>2. copy[s] = balance[Buyer[s]] /\ Price[s] <= balance[Buyer[s]]
    BY <1>4, <2>1 DEF SubtractBalance, SessionOK, IInv, TypeInv, TypeOK
  <2>3. Confirmed' = Confirmed /\ Credited' = Credited
    BY <1>4 DEF SubtractBalance, Confirmed, Credited
  <2>4. Book!Debit(Buyer[s], Price[s])
    BY <1>4, <2>2, <2>3 DEF Book!Debit, SubtractBalance, Confirmed, Credited
  <2>5. \E u \in Users, price \in {Price[t] : t \in Spenders} : Book!Debit(u, price)
    BY <2>1, <2>4
  <2>6. QED
    BY <2>5 DEF Book!LedgerNext
<1>5. ASSUME NEW h \in Checks, EndCheck(h) PROVE BookOK
  <2>1. recorded[h] = {}
    BY <1>5 DEF EndCheck, IInv, SessionOK, Handlers
  <2>2. UNCHANGED <<order, balance, spent>>
    BY <1>5 DEF EndCheck, Rollback, tables
  <2>3. CASE CommitPayments(h)
    <3>1. \A q \in Payments : deposits'[q] = deposits[q] + 0
      BY <2>1, <2>3 DEF CommitPayments
    <3>2. \A q \in Payments : deposits[q] \in Nat
      BY DEF IInv, TypeInv, TypeOK
    <3>3. \A q \in Payments : deposits'[q] = deposits[q]
      BY <3>1, <3>2
    <3>4. Credited' = Credited
      BY <3>3 DEF Credited
    <3>5. Confirmed' = Confirmed
      BY <2>2 DEF Confirmed
    <3>6. QED
      BY <2>2, <3>4, <3>5, BookStutter
  <2>4. CASE Rollback(h)
    BY <2>2, <2>4, QuietStep DEF Rollback, tables
  <2>5. QED
    BY <1>5, <2>3, <2>4 DEF EndCheck
<1>6. ASSUME NEW w \in Webhooks, NEW p \in Payments, ReceiveWebhook(w, p) PROVE BookOK
  BY <1>6, QuietStep DEF ReceiveWebhook, tables
<1>7. ASSUME NEW w \in Webhooks, RejectAmount(w) PROVE BookOK
  BY <1>7, QuietStep DEF RejectAmount, Rollback, tables
<1>8. ASSUME NEW h, NEW C, StartCheck(h, C) PROVE BookOK
  BY <1>8, QuietStep DEF StartCheck, tables
<1>9. ASSUME NEW h, NEW p,
             SkipCandidate(h, p) \/ ProviderConfirms(h, p) \/ ApiError(h, p)
      PROVE  BookOK
  BY <1>9, QuietStep DEF SkipCandidate, ProviderConfirms, ApiError, tables
<1>10. ASSUME NEW h, LockPayment(h) \/ MarkPaid(h) \/ RecordDeposit(h) \/ CreditUser(h)
       PROVE  BookOK
  BY <1>10, QuietStep DEF LockPayment, MarkPaid, RecordDeposit, CreditUser, tables
<1>11. ASSUME NEW h, AlreadyPaid(h) PROVE BookOK
  BY <1>11, QuietStep DEF AlreadyPaid, Rollback, tables
<1>12. ASSUME NEW s, BeginPurchase(s) \/ LockBuyer(s) PROVE BookOK
  BY <1>12, QuietStep DEF BeginPurchase, LockBuyer, tables
<1>13. ASSUME NEW s, InsufficientFunds(s) PROVE BookOK
  BY <1>13, QuietStep DEF InsufficientFunds, Rollback, tables
<1>14. ASSUME NEW h, DatabaseError(h) PROVE BookOK
  BY <1>14, QuietStep DEF DatabaseError, Rollback, tables
<1>15. ASSUME Crash PROVE BookOK
  BY <1>15, QuietStep DEF Crash, tables
<1>16. ASSUME NEW h, PythonError(h) PROVE FALSE
  BY <1>16 DEF PythonError, Fault
<1>17. ASSUME UNCHANGED vars PROVE BookOK
  BY <1>17, QuietStep DEF vars, tables
<1>18. ASSUME AutoCheck PROVE BookOK
  BY <1>8, <1>18 DEF AutoCheck
<1>19. ASSUME NEW h, ManualCheck(h) PROVE BookOK
  BY <1>8, <1>19 DEF ManualCheck
<1>20. ASSUME NEW h, AfterCredit(h) PROVE BookOK
  BY <1>20, QuietStep DEF AfterCredit, tables
<1>21. ASSUME NEW h, DeadlockDetected(h) PROVE BookOK
  BY <1>21, QuietStep DEF DeadlockDetected, Rollback, tables
<1>22. QED
  BY <1>1, <1>2, <1>3, <1>4, <1>5, <1>6, <1>7, <1>9, <1>10, <1>11, <1>12, <1>13, <1>14,
     <1>15, <1>16, <1>17, <1>18, <1>19, <1>20, <1>21
     DEF Next, WebhookStep, CheckStep, FinalizeStep, PurchaseStep, FaultStep

(* Webhooks, polls and purchases together implement the ledger: a balance
   changes only by crediting an order that the provider confirmed, once, in the
   step that records its deposit, and by debits that the balance covers. *)
THEOREM LedgerImplemented ==
    ASSUME "python" \notin FaultKinds
    PROVE  Spec => ImplementsLedger
<1>1. IInv /\ [Next]_vars => IInv'
  BY IInvStep
<1>2. IInv /\ [Next]_vars => [Book!LedgerNext]_(Book!ledgerVars)
  BY BookStep
<1>3. QED
  BY <1>1, <1>2, IInvInit, BookInit, PTL DEF Spec, ImplementsLedger, Book!LedgerSpec

-----------------------------------------------------------------------------
(***************************************************************************)
(* No circle of waiters, if every user has one order.  A handler takes     *)
(* locks in a fixed order, an order's row before its owner's row before    *)
(* the row of an older order: the polls because they take their            *)
(* candidates newest first.                                                *)
(***************************************************************************)

(* While it waits, a handler wants a row of its order: first the order's row, then
   its owner's.  The rows that it holds already belong to newer orders, or are the
   order's own row when it wants the owner's. *)
Ahead(h, p) == h \in Checks /\ pc[h] # "idle" /\ \A q \in todo[h] : q < p

LockOrder(h) ==
    /\ h \in Spenders => pc[h] \in {"idle", "ordering", "charging"}
    /\ h \notin Spenders => pc[h] \notin {"ordering", "charging"}
    /\ h \in Checks /\ pc[h] \in Working =>
          pay[h] \in todo[h] /\ \A q \in todo[h] : q <= pay[h]
    /\ \A p \in Payments : payLock[p] = h =>
          \/ pc[h] \in Holding /\ pay[h] = p
          \/ Ahead(h, p)
    /\ \A p \in Payments : userLock[Owner[p]] = h =>
          \/ pc[h] = "charging"
          \/ pc[h] = "credited" /\ pay[h] = p
          \/ Ahead(h, p)
    /\ h \in Spenders => \A u \in Users : userLock[u] = h => pc[h] = "charging"

AllInOrder == \A h \in Handlers : LockOrder(h)

OneOrderEach == \A p, q \in Payments : Owner[p] = Owner[q] => p = q

(* A step of another session moves nothing of h and takes no lock in its name. *)
Untouched(h) ==
    /\ pc'[h] = pc[h] /\ pay'[h] = pay[h] /\ todo'[h] = todo[h]
    /\ \A p \in Payments : payLock'[p] = h => payLock[p] = h
    /\ \A u \in Users : userLock'[u] = h => userLock[u] = h

(* So it leaves h in order. *)
LEMMA UntouchedOrder ==
    ASSUME NEW h \in Handlers, LockOrder(h), Untouched(h)
    PROVE  LockOrder(h)'
<1>1. \A p \in Payments : Owner[p] \in Users
  BY ConstantsAssumption
<1> QED BY <1>1 DEF LockOrder, Untouched, Ahead

(* A session that ends its transaction holds nothing. *)
LEMMA UnlockOrder ==
    ASSUME TypeInv, NEW g \in Handlers, Unlock(g)
    PROVE  /\ \A p \in Payments : payLock'[p] # g
           /\ \A u \in Users : userLock'[u] # g
           /\ \A h \in Handlers \ {g} :
                 /\ \A p \in Payments : payLock'[p] = h => payLock[p] = h
                 /\ \A u \in Users : userLock'[u] = h => userLock[u] = h
<1>1. g # NoOne /\ \A h \in Handlers : h # NoOne
  BY ConstantsAssumption
<1> QED BY <1>1 DEF Unlock

(* A session that holds nothing and works on nothing is in order. *)
LEMMA RestInOrder ==
    ASSUME NEW g \in Handlers,
           pc'[g] = (IF g \in Checks THEN "polling" ELSE "idle"),
           \A p \in Payments : payLock'[p] # g,
           \A u \in Users : userLock'[u] # g
    PROVE  LockOrder(g)'
<1>1. \A p \in Payments : Owner[p] \in Users
  BY ConstantsAssumption
<1>2. g \in Checks => g \notin Spenders
  BY ConstantsAssumption
<1> QED BY <1>1, <1>2 DEF LockOrder, Working

(* A handler that is done with its payment leaves the others alone. *)
LEMMA FinishMoves ==
    ASSUME TypeInv, NEW g \in Handlers, Finish(g)
    PROVE  /\ pc'[g] = (IF g \in Checks THEN "polling" ELSE "idle")
           /\ todo'[g] = todo[g] \ {pay[g]}
           /\ \A h \in Handlers \ {g} :
                 pc'[h] = pc[h] /\ pay'[h] = pay[h] /\ todo'[h] = todo[h]
BY DEF Finish, TypeInv, TypeOK

(* A rollback, or a last commit, at the end of a payment. *)
LEMMA EndInOrder ==
    ASSUME TypeInv, AllInOrder, NEW g \in Handlers, Unlock(g), Finish(g)
    PROVE  AllInOrder'
<1>1. LockOrder(g)'
  BY UnlockOrder, FinishMoves, RestInOrder
<1>2. ASSUME NEW h \in Handlers \ {g} PROVE LockOrder(h)'
  <2>1. Untouched(h)
    BY UnlockOrder, FinishMoves DEF Untouched
  <2> QED BY <2>1, UntouchedOrder DEF AllInOrder
<1> QED BY <1>1, <1>2 DEF AllInOrder

(* A poll that leaves a candidate with its transaction open: whatever it holds
   belongs to that order or to newer ones, and what it has left is older. *)
LEMMA KeepInOrder ==
    ASSUME TypeInv, AllInOrder, NEW g \in Checks, Finish(g),
           pc[g] \in {"locked", "marked", "linked", "rewarding"},
           \A p \in Payments : payLock'[p] = payLock[p],
           \A u \in Users : \/ userLock'[u] = userLock[u]
                            \/ pc[g] = "rewarding" /\ u = Owner[pay[g]] /\ userLock'[u] = g,
           OneOrderEach
    PROVE  AllInOrder'
<1>1. /\ g \in Handlers /\ g \notin Spenders
      /\ \A p \in Payments : Owner[p] \in Users /\ p \in Nat
  BY ConstantsAssumption DEF Handlers
<1>2. /\ pay[g] \in Payments /\ pay[g] \in todo[g] /\ todo[g] \subseteq Payments
      /\ \A q \in todo[g] : q <= pay[g]
  BY <1>1 DEF AllInOrder, LockOrder, Working, TypeInv, TypeOK, PayKnown
<1>3. \A q \in todo'[g] : q \in todo[g] /\ q < pay[g]
  BY <1>1, <1>2, FinishMoves
<1>4. ASSUME NEW p \in Payments, payLock'[p] = g PROVE \A q \in todo'[g] : q < p
  BY <1>1, <1>3, <1>4 DEF AllInOrder, LockOrder, Ahead
<1>5. ASSUME NEW p \in Payments, userLock'[Owner[p]] = g PROVE \A q \in todo'[g] : q < p
  <2>1. CASE userLock[Owner[p]] = g
    BY <1>1, <1>3, <2>1 DEF AllInOrder, LockOrder, Ahead
  <2>2. CASE userLock[Owner[p]] # g
    <3>1. p = pay[g]
      BY <1>1, <1>2, <1>5, <2>2 DEF OneOrderEach
    <3> QED BY <1>3, <3>1
  <2> QED BY <2>1, <2>2
<1>6. LockOrder(g)'
  <2>1. pc'[g] = "polling"
    BY <1>1, FinishMoves
  <2> QED BY <1>1, <1>4, <1>5, <2>1 DEF LockOrder, Ahead, Working
<1>7. ASSUME NEW h \in Handlers \ {g} PROVE LockOrder(h)'
  <2>1. Untouched(h)
    BY <1>1, FinishMoves DEF Untouched
  <2> QED BY <2>1, UntouchedOrder DEF AllInOrder
<1> QED BY <1>6, <1>7 DEF AllInOrder

(* One handler moves: in order itself, it leaves the others so. *)
LEMMA OneMoves ==
    ASSUME AllInOrder, NEW g, \A h \in Handlers \ {g} : Untouched(h),
           g \in Handlers => LockOrder(g)'
    PROVE  AllInOrder'
BY UntouchedOrder DEF AllInOrder

(* Every step keeps the order. *)
LEMMA OrderStep ==
    ASSUME TypeInv, AllInOrder, OneOrderEach, [Next]_vars
    PROVE  AllInOrder'
<1> USE ConstantsAssumption
<1>a. /\ \A h \in Handlers : LockOrder(h)
      /\ pc \in [Handlers -> PcStates] /\ todo \in [Handlers -> SUBSET Payments]
      /\ pay \in [Handlers -> Payments \cup {NoOne}]
      /\ payLock \in [Payments -> Handlers \cup {NoOne}]
      /\ userLock \in [Users -> Handlers \cup {NoOne}]
      /\ \A p \in Payments : Owner[p] \in Users /\ p \in Nat
      /\ \A h \in Handlers : pc[h] \in Working => pay[h] \in Payments
  BY DEF AllInOrder, TypeInv, TypeOK, PayKnown
<1>b. /\ \A h \in Webhooks : h \in Handlers /\ h \notin Spenders /\ h \notin Checks
      /\ \A h \in Checks : h \in Handlers /\ h \notin Spenders
      /\ \A h \in Spenders : h \in Handlers /\ h \notin Checks
      /\ AutoLoop \in Checks
  BY DEF Handlers
<1>1. CASE UNCHANGED vars
  BY <1>1 DEF vars, session, locks, AllInOrder, LockOrder, Ahead
<1>2. ASSUME NEW p \in Payments, CreatePayment(p) \/ ProviderPays(p) PROVE AllInOrder'
  BY <1>2 DEF CreatePayment, ProviderPays, session, locks, AllInOrder, LockOrder, Ahead
<1>3. ASSUME NEW w \in Webhooks, NEW p \in Payments, ReceiveWebhook(w, p)
      PROVE  AllInOrder'
  <2>1. /\ pc[w] = "idle" /\ pc'[w] = "found" /\ UNCHANGED <<payLock, userLock>>
        /\ \A h \in Handlers \ {w} : Untouched(h)
    BY <1>3, <1>a, <1>b DEF ReceiveWebhook, Goto, locks, Untouched
  <2>2. LockOrder(w)'
    BY <1>a, <1>b, <2>1 DEF LockOrder, Holding, Ahead
  <2> QED BY <2>1, <2>2, OneMoves
<1>4. ASSUME NEW w \in Webhooks, RejectAmount(w) PROVE AllInOrder'
  BY <1>4, <1>b, EndInOrder DEF RejectAmount, Rollback
<1>5. ASSUME NEW h \in Checks, NEW candidates, StartCheck(h, candidates),
             candidates \in SUBSET Payments
      PROVE  AllInOrder'
  <2>1. /\ pc[h] = "idle" /\ pc'[h] = "polling" /\ UNCHANGED <<payLock, userLock>>
        /\ \A g \in Handlers \ {h} : Untouched(g)
    BY <1>5, <1>a, <1>b DEF StartCheck, Goto, locks, Untouched
  <2>2. LockOrder(h)'
    BY <1>a, <1>b, <2>1 DEF LockOrder, Holding, Ahead, Working
  <2> QED BY <2>1, <2>2, OneMoves
<1>6. ASSUME NEW h \in Checks, NEW p \in Payments, SkipCandidate(h, p) \/ ApiError(h, p)
      PROVE  AllInOrder'
  <2>1. /\ pc[h] = "polling" /\ pc' = pc /\ UNCHANGED <<payLock, userLock>>
        /\ todo'[h] = todo[h] \ {p}
        /\ \A g \in Handlers \ {h} : Untouched(g)
    BY <1>6, <1>a, <1>b DEF SkipCandidate, ApiError, NextCandidate, locks, Untouched
  <2>2. LockOrder(h)'
    BY <1>a, <1>b, <2>1 DEF LockOrder, Holding, Ahead, Working
  <2> QED BY <2>1, <2>2, OneMoves
<1>7. ASSUME NEW h \in Checks, NEW p \in Payments, ProviderConfirms(h, p) PROVE AllInOrder'
  <2>1. /\ pc[h] = "polling" /\ pc'[h] = "found" /\ UNCHANGED <<payLock, userLock, todo>>
        /\ pay'[h] = p /\ p \in todo[h] /\ \A q \in todo[h] : q <= p
        /\ \A g \in Handlers \ {h} : Untouched(g)
    BY <1>7, <1>a, <1>b DEF ProviderConfirms, NextCandidate, Goto, locks, Untouched
  <2>2. LockOrder(h)'
    BY <1>a, <1>b, <2>1 DEF LockOrder, Holding, Ahead, Working
  <2> QED BY <2>1, <2>2, OneMoves
<1>8. ASSUME NEW h \in Checks, EndCheck(h) PROVE AllInOrder'
  <2>1. Unlock(h)
    BY <1>8 DEF EndCheck, CommitPayments, Rollback
  <2>2. pc'[h] = "idle" /\ \A g \in Handlers \ {h} : Untouched(g)
    <3>1. pc' = [pc EXCEPT ![h] = "idle"] /\ UNCHANGED <<pay, todo>>
      BY <1>8 DEF EndCheck, Goto
    <3> QED BY <1>a, <1>b, <2>1, <3>1, UnlockOrder DEF Untouched
  <2>3. LockOrder(h)'
    BY <1>a, <1>b, <2>1, <2>2, UnlockOrder DEF LockOrder, Working
  <2> QED BY <2>2, <2>3, OneMoves
<1>9. ASSUME NEW h \in Webhooks \cup Checks, LockPayment(h) PROVE AllInOrder'
  <2>1. /\ pc[h] = "found" /\ pc'[h] = "locked" /\ UNCHANGED <<userLock, todo, pay>>
        /\ payLock' = [payLock EXCEPT ![pay[h]] = h]
        /\ \A g \in Handlers \ {h} : Untouched(g)
    BY <1>9, <1>a, <1>b DEF LockPayment, Goto, Untouched
  <2>2. LockOrder(h)'
    BY <1>a, <1>b, <1>9, <2>1 DEF LockOrder, Holding, Ahead, Working
  <2> QED BY <2>1, <2>2, OneMoves
<1>10. ASSUME NEW h \in Webhooks \cup Checks, AlreadyPaid(h) PROVE AllInOrder'
  <2>1. CASE h \in Checks
    BY <1>10, <2>1, KeepInOrder DEF AlreadyPaid, locks
  <2>2. CASE h \notin Checks
    BY <1>10, <1>b, <2>2, EndInOrder DEF AlreadyPaid, Rollback
  <2> QED BY <2>1, <2>2
<1>11. ASSUME NEW h \in Webhooks \cup Checks, MarkPaid(h) \/ RecordDeposit(h)
       PROVE  AllInOrder'
  <2>1. /\ pc[h] \in {"locked", "marked"} /\ pc'[h] \in {"marked", "linked"}
        /\ UNCHANGED <<payLock, userLock, todo, pay>>
        /\ \A g \in Handlers \ {h} : Untouched(g)
    BY <1>11, <1>a, <1>b DEF MarkPaid, RecordDeposit, Goto, locks, Untouched
  <2>2. LockOrder(h)'
    BY <1>a, <1>b, <1>11, <2>1 DEF LockOrder, Holding, Ahead, Working
  <2> QED BY <2>1, <2>2, OneMoves
<1>12. ASSUME NEW h \in Webhooks \cup Checks, CreditUser(h) PROVE AllInOrder'
  <2>1. /\ pc[h] = "linked" /\ pc'[h] = "credited" /\ UNCHANGED <<payLock, todo, pay>>
        /\ userLock' = [userLock EXCEPT ![Owner[pay[h]]] = h]
        /\ \A g \in Handlers \ {h} : Untouched(g)
    BY <1>12, <1>a, <1>b DEF CreditUser, LockUser, UserOf, Goto, Untouched, Working
  <2>2. \A p \in Payments : userLock'[Owner[p]] = h =>
           userLock[Owner[p]] = h \/ p = pay[h]
    BY <1>a, <1>b, <1>12, <2>1 DEF OneOrderEach, Working
  <2>3. LockOrder(h)'
    BY <1>a, <1>b, <1>12, <2>1, <2>2 DEF LockOrder, Holding, Ahead, Working
  <2> QED BY <2>1, <2>3, OneMoves
<1>13. ASSUME NEW h \in Webhooks \cup Checks, CommitCredit(h) PROVE AllInOrder'
  <2>1. Unlock(h)
    BY <1>13 DEF CommitCredit, CommitPayments
  <2>2. /\ pc[h] = "credited" /\ pc'[h] = "rewarding" /\ UNCHANGED <<todo, pay>>
        /\ \A g \in Handlers \ {h} : Untouched(g)
    BY <1>13, <1>a, <1>b, <2>1, UnlockOrder DEF CommitCredit, Goto, Untouched
  <2>3. LockOrder(h)'
    BY <1>a, <1>b, <1>13, <2>1, <2>2, UnlockOrder DEF LockOrder, Working
  <2> QED BY <2>2, <2>3, OneMoves
<1>14. ASSUME NEW h \in Webhooks \cup Checks, AfterCredit(h) PROVE AllInOrder'
  <2>1. CASE Unlock(h)
    BY <1>14, <1>b, <2>1, EndInOrder DEF AfterCredit
  <2>2. CASE h \in Checks /\ payLock' = payLock /\ userLock' = [userLock EXCEPT ![UserOf(h)] = h]
    <3>1. pc[h] = "rewarding" /\ UserOf(h) = Owner[pay[h]] /\ Finish(h)
      BY <1>14, <1>b, <2>2 DEF AfterCredit, UserOf
    <3>2. \A u \in Users : \/ userLock'[u] = userLock[u]
                           \/ u = Owner[pay[h]] /\ userLock'[u] = h
      BY <1>a, <2>2, <3>1
    <3> QED BY <2>2, <3>1, <3>2, KeepInOrder
  <2> QED BY <1>14, <2>1, <2>2 DEF AfterCredit
<1>15. ASSUME NEW s \in Spenders, BeginPurchase(s) \/ LockBuyer(s) PROVE AllInOrder'
  <2>1. /\ UNCHANGED <<payLock, todo, pay>>
        /\ \/ pc[s] = "idle" /\ pc'[s] = "ordering" /\ userLock' = userLock
           \/ pc'[s] = "charging"
        /\ \A g \in Handlers \ {s} : Untouched(g)
    BY <1>15, <1>a, <1>b DEF BeginPurchase, LockBuyer, LockUser, UserOf, Goto, locks, Untouched
  <2>2. pc[s] \in {"idle", "ordering"}
    BY <1>15 DEF BeginPurchase, LockBuyer
  <2>3. LockOrder(s)'
    BY <1>a, <1>b, <2>1, <2>2 DEF LockOrder, Holding, Ahead, Working
  <2> QED BY <2>1, <2>3, OneMoves
<1>16. ASSUME NEW s \in Spenders, InsufficientFunds(s) \/ SubtractBalance(s)
       PROVE  AllInOrder'
  BY <1>16, <1>b, EndInOrder DEF InsufficientFunds, SubtractBalance, Rollback
<1>17. ASSUME NEW h \in Handlers, DatabaseError(h) \/ DeadlockDetected(h) PROVE AllInOrder'
  BY <1>17, EndInOrder DEF DatabaseError, DeadlockDetected, Rollback
<1>18. ASSUME NEW h \in Handlers, PythonError(h) PROVE AllInOrder'
  <2>1. CASE h \in Checks
    BY <1>18, <2>1, KeepInOrder DEF PythonError, locks
  <2>2. CASE h \notin Checks
    BY <1>18, <2>2, EndInOrder DEF PythonError, CommitPayments
  <2> QED BY <2>1, <2>2
<1>19. ASSUME Crash PROVE AllInOrder'
  <2>1. NoOne \notin Handlers
    OBVIOUS
  <2> QED BY <1>19, <1>a, <2>1 DEF Crash, AllInOrder, LockOrder, Working
<1>20. ASSUME AutoCheck PROVE AllInOrder'
  BY <1>20, <1>5, <1>b DEF AutoCheck, Pending
<1>21. ASSUME NEW h \in Checks, ManualCheck(h) PROVE AllInOrder'
  BY <1>21, <1>5 DEF ManualCheck, Pending
<1> QED
  BY <1>1, <1>2, <1>3, <1>4, <1>6, <1>7, <1>8, <1>9, <1>10, <1>11, <1>12, <1>13, <1>14,
     <1>15, <1>16, <1>17, <1>18, <1>19, <1>20, <1>21
     DEF Next, WebhookStep, CheckStep, FinalizeStep, PurchaseStep, FaultStep

(* At the start nobody holds a lock. *)
LEMMA OrderInit == Init => AllInOrder
BY ConstantsAssumption DEF Init, AllInOrder, LockOrder, Working, Handlers

(* What a handler waits for: an order's row comes after its owner's row, and that
   after the rows of older orders. *)
Rank(h) == 2 * pay[h] + (IF pc[h] = "found" THEN 1 ELSE 0)

(* Who waits for a waiting handler waits for a row of a newer order, or of the
   same one at an earlier step. *)
LEMMA WaitsDown ==
    ASSUME TypeInv, AllInOrder, NEW h \in Handlers \ Spenders, NEW g \in Handlers, NEW f,
           WaitsFor(h, g), WaitsFor(g, f)
    PROVE  Rank(h) \in Nat /\ Rank(g) \in Nat /\ Rank(g) < Rank(h)
<1> USE ConstantsAssumption
<1>1. /\ LockOrder(h) /\ LockOrder(g)
      /\ \A p \in Payments : Owner[p] \in Users /\ p \in Nat
      /\ \A x \in Handlers : pc[x] \in Working => pay[x] \in Payments
      /\ todo[g] \subseteq Payments
  BY DEF AllInOrder, TypeInv, TypeOK, PayKnown
<1>2. pc[h] \in {"found", "linked", "rewarding"} /\ UserOf(h) = Owner[pay[h]]
  BY <1>1 DEF WaitsFor, LockOrder, UserOf
<1>3. pay[h] \in Payments
  BY <1>1, <1>2 DEF Working
<1>4. pc[g] \in {"found", "linked", "rewarding", "ordering"}
  BY DEF WaitsFor
<1>5. ASSUME NEW p \in Payments, Ahead(g, p)
      PROVE  pay[g] \in Payments /\ pay[g] < p /\ pc[g] \in Working
  <2>1. g \in Checks /\ g \notin Spenders
    BY <1>5 DEF Ahead
  <2>2. pc[g] \in Working
    BY <1>1, <1>4, <2>1 DEF LockOrder, Working
  <2> QED BY <1>1, <1>5, <2>1, <2>2 DEF LockOrder, Ahead
<1>6. CASE pc[h] = "found"
  <2>1. payLock[pay[h]] = g
    BY <1>6 DEF WaitsFor
  <2>2. \/ pc[g] = "linked" /\ pay[g] = pay[h]
        \/ pay[g] \in Payments /\ pay[g] < pay[h]
    BY <1>1, <1>3, <1>4, <1>5, <2>1 DEF LockOrder, Holding
  <2>3. pay[h] \in Nat /\ pay[g] \in Nat
    BY <1>1, <1>3, <2>2
  <2>4. CASE pc[g] = "linked" /\ pay[g] = pay[h]
    BY <1>6, <2>3, <2>4 DEF Rank
  <2>5. CASE pay[g] < pay[h]
    BY <1>6, <2>3, <2>5 DEF Rank
  <2> QED BY <2>2, <2>4, <2>5
<1>7. CASE pc[h] # "found"
  <2>1. userLock[Owner[pay[h]]] = g
    BY <1>2, <1>7 DEF WaitsFor
  <2>2. pay[g] \in Payments /\ pay[g] < pay[h]
    BY <1>1, <1>3, <1>4, <1>5, <2>1 DEF LockOrder
  <2>3. pay[h] \in Nat /\ pay[g] \in Nat
    BY <1>1, <1>3, <2>2
  <2>4. Rank(h) = 2 * pay[h]
    BY <1>7, <2>3 DEF Rank
  <2>5. Rank(g) = 2 * pay[g] \/ Rank(g) = 2 * pay[g] + 1
    BY <2>3 DEF Rank
  <2> QED BY <2>2, <2>3, <2>4, <2>5
<1> QED BY <1>6, <1>7

(* A purchase that waits holds nothing. *)
LEMMA PurchaseWaitsAlone ==
    ASSUME TypeInv, AllInOrder, NEW s \in Spenders, NEW h \in Handlers, NEW f,
           WaitsFor(h, s), WaitsFor(s, f)
    PROVE  FALSE
<1> USE ConstantsAssumption
<1>1. /\ s \in Handlers /\ s \notin Checks /\ LockOrder(s) /\ LockOrder(h)
      /\ \A x \in Handlers : pc[x] \in Working => pay[x] \in Payments
  BY DEF AllInOrder, TypeInv, PayKnown, Handlers
<1>2. pc[s] = "ordering"
  BY <1>1 DEF WaitsFor, LockOrder
<1>3. UserOf(h) \in Users \/ pc[h] = "found"
  BY UserOfType, <1>1 DEF WaitsFor, LockOrder, Working, UserOf
<1>4. pc[h] = "found" => pay[h] \in Payments
  BY <1>1 DEF Working
<1> QED BY <1>1, <1>2, <1>3, <1>4 DEF WaitsFor, LockOrder, Ahead, Holding

(* If every user has one order, no handlers ever wait for each other in a circle,
   however many polls, callbacks and purchases there are. *)
THEOREM NoLockCycleAlways ==
    ASSUME OneOrderEach
    PROVE  Spec => []NoLockCycle
<1>1. Init => TypeInv /\ AllInOrder
  BY TypeInit, OrderInit
<1>2. TypeInv /\ AllInOrder /\ [Next]_vars => TypeInv' /\ AllInOrder'
  BY TypeStep, OrderStep
<1>3. TypeInv /\ AllInOrder => NoLockCycle
  <2> SUFFICES ASSUME TypeInv, AllInOrder,
                      NEW first \in Handlers, NEW waiting \in SUBSET Waiting,
                      first \in waiting,
                      \A x \in waiting : \E y, z \in waiting : WaitsFor(x, y) /\ WaitsFor(z, x)
               PROVE  FALSE
    BY DEF NoLockCycle, InCycle
  <2>1. \A x \in waiting : x \in Handlers
    BY DEF Waiting
  <2>2. ASSUME NEW x \in waiting PROVE x \notin Spenders
    <3>1. PICK y, z \in waiting : WaitsFor(x, y) /\ WaitsFor(z, x)
      OBVIOUS
    <3> QED BY <2>1, <3>1, PurchaseWaitsAlone
  <2>3. ASSUME NEW x \in waiting
        PROVE  Rank(x) \in Nat /\ \E y \in waiting : Rank(y) < Rank(x)
    <3>1. PICK y \in waiting : WaitsFor(x, y)
      OBVIOUS
    <3>2. PICK f \in waiting : WaitsFor(y, f)
      OBVIOUS
    <3> QED BY <2>1, <2>2, <3>1, <3>2, WaitsDown
  <2> DEFINE ranks == {Rank(x) : x \in waiting}
  <2>4. ranks \in SUBSET Nat /\ ranks # {}
    BY <2>3
  <2>5. PICK r \in ranks : \A q \in ranks : r <= q
    BY <2>4, LeastNumber
  <2>6. PICK x \in waiting : Rank(x) = r
    BY <2>5
  <2>7. PICK y \in waiting : Rank(y) < Rank(x)
    BY <2>3
  <2>8. Rank(x) \in Nat /\ Rank(y) \in Nat /\ Rank(x) <= Rank(y)
    BY <2>3, <2>5, <2>6
  <2> HIDE DEF ranks
  <2> QED BY <2>7, <2>8
<1> QED BY <1>1, <1>2, <1>3, PTL DEF Spec

-----------------------------------------------------------------------------
(***************************************************************************)
(* No money appears or disappears.  The handlers implement the ledger, so  *)
(* it is enough to look at its three steps: a credit adds its order to the *)
(* sum, a debit moves money from what the user has to what he has spent.   *)
(***************************************************************************)
Books == \A u \in Users : balance[u] + spent[u] = SumOf(Deposits, OrdersOf(u))

(* Every order has one deposit or none, so it counts with its amount or not at all. *)
LEMMA DepositOf ==
    ASSUME NEW p \in Payments, NEW n, n = 0 \/ n = 1
    PROVE  n * Amount[p] = IF n > 0 THEN Amount[p] ELSE 0
<1>1. Amount[p] \in Nat
  BY ConstantsAssumption
<1>2. CASE n = 0
  BY <1>1, <1>2
<1>3. CASE n = 1
  BY <1>1, <1>3
<1> QED BY <1>2, <1>3

(* A user's orders are finitely many. *)
LEMMA OrdersFinite == \A u : OrdersOf(u) \in SUBSET Payments /\ IsFiniteSet(OrdersOf(u))
BY FiniteAssumption, FS_Subset DEF OrdersOf

(* Every step keeps the books. *)
LEMMA BooksStep ==
    ASSUME "python" \notin FaultKinds, IInv, IInv', Books, [Next]_vars
    PROVE  Books'
<1> SUFFICES ASSUME NEW u \in Users
             PROVE  balance'[u] + spent'[u] = SumOf(Deposits', OrdersOf(u))
  BY DEF Books, OrdersOf
<1>1. balance[u] + spent[u] = SumOf(Deposits, OrdersOf(u))
  BY DEF Books
<1>2. /\ \A p \in Payments : Deposits[p] = IF p \in Credited THEN Amount[p] ELSE 0
      /\ \A p \in Payments : Deposits'[p] = IF p \in Credited' THEN Amount[p] ELSE 0
  <2>1. \A p \in Payments : /\ deposits[p] = 0 \/ deposits[p] = 1
                            /\ deposits'[p] = 0 \/ deposits'[p] = 1
    BY DEF IInv, PaidIffDeposited
  <2> QED BY <2>1, DepositOf DEF Deposits, Credited
<1>3. OrdersOf(u) \in SUBSET Payments /\ IsFiniteSet(OrdersOf(u))
  BY OrdersFinite
<1>4. /\ balance \in [Users -> Nat] /\ spent \in [Users -> Nat]
      /\ \A p \in Payments : Amount[p] \in Nat /\ Owner[p] \in Users
  BY ConstantsAssumption DEF IInv, TypeInv, TypeOK
<1>5. Credited' = Credited => SumOf(Deposits', OrdersOf(u)) = SumOf(Deposits, OrdersOf(u))
  BY <1>2, <1>3, SumSame
<1>6. [Book!LedgerNext]_(Book!ledgerVars)
  BY BookStep
<1>7. CASE Credited' = Credited /\ UNCHANGED <<balance, spent>>
  BY <1>1, <1>5, <1>7
<1>8. ASSUME NEW p \in Payments, Book!Credit(p)
      PROVE  balance'[u] + spent'[u] = SumOf(Deposits', OrdersOf(u))
  <2>1. /\ p \notin Credited /\ Credited' = Credited \cup {p}
        /\ balance' = [balance EXCEPT ![Owner[p]] = @ + Amount[p]] /\ spent' = spent
    BY <1>8 DEF Book!Credit, Credited
  <2>2. CASE Owner[p] = u
    <3>1. p \in OrdersOf(u)
      BY <2>2 DEF OrdersOf
    <3>2. /\ Deposits[p] = 0 /\ Deposits'[p] = Amount[p]
          /\ \A q \in OrdersOf(u) : Deposits[q] \in Int /\ Deposits'[q] \in Int
          /\ \A q \in OrdersOf(u) \ {p} : Deposits'[q] = Deposits[q]
      BY <1>2, <1>3, <1>4, <2>1
    <3>3. SumOf(Deposits', OrdersOf(u)) =
              SumOf(Deposits, OrdersOf(u)) + Deposits'[p] - Deposits[p]
      BY <1>3, <3>1, <3>2, SumUpdate
    <3>4. balance'[u] = balance[u] + Amount[p]
      BY <1>4, <2>1, <2>2
    <3>5. balance[u] \in Nat /\ spent[u] \in Nat /\ Amount[p] \in Nat /\ spent'[u] = spent[u]
      BY <1>4, <2>1
    <3> QED BY <1>1, <3>2, <3>3, <3>4, <3>5
  <2>3. CASE Owner[p] # u
    <3>1. \A q \in OrdersOf(u) : Deposits'[q] = Deposits[q]
      BY <1>2, <1>3, <2>1, <2>3 DEF OrdersOf
    <3>2. SumOf(Deposits', OrdersOf(u)) = SumOf(Deposits, OrdersOf(u))
      BY <1>3, <3>1, SumSame
    <3>3. balance'[u] = balance[u] /\ spent'[u] = spent[u]
      BY <1>4, <2>1, <2>3
    <3> QED BY <1>1, <3>2, <3>3
  <2> QED BY <2>2, <2>3
<1>9. ASSUME NEW v \in Users, NEW price \in {Price[s] : s \in Spenders}, Book!Debit(v, price)
      PROVE  balance'[u] + spent'[u] = SumOf(Deposits', OrdersOf(u))
  <2>1. /\ Credited' = Credited
        /\ balance' = [balance EXCEPT ![v] = @ - price]
        /\ spent' = [spent EXCEPT ![v] = @ + price]
    BY <1>9 DEF Book!Debit, Credited
  <2>2. price \in Nat /\ balance[u] \in Nat /\ spent[u] \in Nat
    BY <1>4, ConstantsAssumption
  <2>3. balance'[u] + spent'[u] = balance[u] + spent[u]
    <3>1. CASE u = v
      <4>1. balance'[u] = balance[u] - price /\ spent'[u] = spent[u] + price
        BY <1>4, <2>1, <3>1
      <4> QED BY <2>2, <4>1
    <3>2. CASE u # v
      BY <1>4, <2>1, <3>2
    <3> QED BY <3>1, <3>2
  <2> QED BY <1>1, <1>5, <2>1, <2>3
<1>10. CASE \E p \in Payments : Book!Confirm(p)
  BY <1>7, <1>10 DEF Book!Confirm, Credited
<1>11. CASE UNCHANGED Book!ledgerVars
  BY <1>7, <1>11 DEF Book!ledgerVars, Credited
<1> QED BY <1>6, <1>8, <1>9, <1>10, <1>11 DEF Book!LedgerNext

(* Without swallowed exceptions, what a user has and has spent is at any time the sum
   of his recorded deposits, however webhooks, polls, purchases, crashes and database
   errors cross. *)
THEOREM MoneyConservedAlways ==
    ASSUME "python" \notin FaultKinds
    PROVE  Spec => []MoneyConserved
<1>1. Init => Books
  <2> SUFFICES ASSUME Init, NEW u \in Users
               PROVE  balance[u] + spent[u] = SumOf(Deposits, OrdersOf(u))
    BY DEF Books
  <2>1. \A p \in Payments : Deposits[p] = 0
    BY DepositOf DEF Init, Deposits
  <2>2. SumOf(Deposits, OrdersOf(u)) = 0
    BY <2>1, OrdersFinite, SumZero
  <2> QED BY <2>2 DEF Init
<1>2. IInv /\ [Next]_vars => IInv'
  BY IInvStep
<1>3. IInv /\ IInv' /\ Books /\ [Next]_vars => Books'
  BY BooksStep
<1>4. Books => MoneyConserved
  BY DEF Books, MoneyConserved, SumOf
<1> QED BY <1>1, <1>2, <1>3, <1>4, IInvInit, PTL DEF Spec

-----------------------------------------------------------------------------
(***************************************************************************)
(* Nobody is credited more than he paid, even when exceptions are          *)
(* swallowed between the flush and the commit.  Then a row may be paid     *)
(* without a deposit, and a deposit recorded without its credit, so the    *)
(* invariant above fails; what is left is that a session holds the lock of *)
(* every order that it has written and not committed, and that none of     *)
(* them was paid before.                                                   *)
(***************************************************************************)
DepositOfPaid == \A p \in Payments : deposits[p] = 0 \/ (deposits[p] = 1 /\ isPaid[p])

WritesLocked(h) ==
    /\ (h \in Spenders \/ pc[h] \in {"idle", "rewarding"}) => flagged[h] = {}
    /\ recorded[h] \subseteq flagged[h]
    /\ \A p \in flagged[h] : payLock[p] = h /\ ~isPaid[p]
    /\ pc[h] = "locked" => payLock[pay[h]] = h /\ (isPaid[pay[h]] => seen[h].isPaid)
    /\ pc[h] \in {"marked", "linked", "credited"} => pay[h] \in flagged[h]
    /\ pc[h] \in {"linked", "credited"} => pay[h] \in recorded[h]
    /\ pc[h] \in Working => h \in Webhooks \cup Checks
    /\ pc[h] \in {"ordering", "charging"} => h \in Spenders
    /\ pc[h] \in {"credited", "charging"} =>
          userLock[UserOf(h)] = h /\ copy[h] = balance[UserOf(h)]

Covered == \A u \in Users : balance[u] + spent[u] <= SumOf(Amount, Deposited(u))

OverInv == /\ TypeInv
           /\ DepositOfPaid
           /\ Covered
           /\ \A h \in Handlers : WritesLocked(h)

(* A step of g that leaves the other sessions, and the rows they have locked, alone. *)
Alone(g) ==
    /\ \A h \in Handlers \ {g} :
          /\ pc'[h] = pc[h] /\ pay'[h] = pay[h] /\ seen'[h] = seen[h] /\ copy'[h] = copy[h]
          /\ flagged'[h] = flagged[h] /\ recorded'[h] = recorded[h]
    /\ \A p \in Payments : payLock[p] \notin {g, NoOne} =>
          payLock'[p] = payLock[p] /\ (isPaid'[p] => isPaid[p])
    /\ \A u \in Users : userLock[u] \notin {g, NoOne} =>
          userLock'[u] = userLock[u] /\ balance'[u] = balance[u]

(* The other sessions still hold their locks. *)
LEMMA OthersLocked ==
    ASSUME OverInv, NEW g \in Handlers, Alone(g), WritesLocked(g)'
    PROVE  \A h \in Handlers : WritesLocked(h)'
<1> SUFFICES ASSUME NEW h \in Handlers \ {g} PROVE WritesLocked(h)'
  OBVIOUS
<1>1. WritesLocked(h) /\ h # NoOne /\ flagged[h] \subseteq Payments
  BY ConstantsAssumption DEF OverInv, TypeInv, TypeOK
<1>2. /\ pc'[h] = pc[h] /\ pay'[h] = pay[h] /\ seen'[h] = seen[h] /\ copy'[h] = copy[h]
      /\ flagged'[h] = flagged[h] /\ recorded'[h] = recorded[h] /\ UserOf(h)' = UserOf(h)
  BY DEF Alone, UserOf
<1>3. \A p \in Payments : payLock[p] = h => payLock'[p] = h /\ (isPaid'[p] => isPaid[p])
  BY <1>1 DEF Alone
<1>4. \A u \in Users : userLock[u] = h => userLock'[u] = h /\ balance'[u] = balance[u]
  BY <1>1 DEF Alone
<1>5. pc[h] = "locked" => pay[h] \in Payments
  BY DEF OverInv, TypeInv, PayKnown, Working
<1>6. pc[h] \in {"credited", "charging"} => UserOf(h) \in Users
  BY <1>1, UserOfType DEF OverInv, WritesLocked, Working
<1> QED BY <1>1, <1>2, <1>3, <1>4, <1>5, <1>6 DEF WritesLocked

(* No deposit is lost by a step that credits and spends nothing. *)
LEMMA CoveredGrows ==
    ASSUME OverInv, UNCHANGED <<balance, spent>>,
           \A p \in Payments : deposits[p] > 0 => deposits'[p] > 0
    PROVE  Covered'
<1> SUFFICES ASSUME NEW u \in Users
             PROVE  balance[u] + spent[u] <= SumOf(Amount, Deposited(u)')
  BY DEF Covered
<1>1. /\ Deposited(u) \in SUBSET Deposited(u)' /\ IsFiniteSet(Deposited(u))
      /\ IsFiniteSet(Deposited(u)') /\ \A p \in Deposited(u)' : Amount[p] \in Nat
  BY ConstantsAssumption, FiniteAssumption, FS_Subset DEF Deposited, OrdersOf
<1>2. SumOf(Amount, Deposited(u)) <= SumOf(Amount, Deposited(u)')
  BY <1>1, SumOfPart
<1>3. SumOf(Amount, Deposited(u)) \in Nat /\ SumOf(Amount, Deposited(u)') \in Nat
  BY <1>1, SumType
<1>4. balance[u] + spent[u] <= SumOf(Amount, Deposited(u)) /\ balance[u] + spent[u] \in Nat
  BY DEF OverInv, Covered, TypeInv, TypeOK
<1> QED BY <1>2, <1>3, <1>4

(* What a commit does to the tables: it pays no order twice. *)
LEMMA CommitWrites ==
    ASSUME OverInv, NEW g \in Handlers, CommitPayments(g)
    PROVE  /\ DepositOfPaid'
           /\ \A p \in Payments : deposits[p] > 0 => deposits'[p] > 0
           /\ \A p \in recorded[g] : p \in Payments /\ deposits[p] = 0 /\ deposits'[p] = 1
           /\ \A p \in Payments : isPaid'[p] => isPaid[p] \/ payLock[p] = g
<1>1. /\ WritesLocked(g) /\ recorded[g] \subseteq flagged[g] /\ flagged[g] \subseteq Payments
      /\ \A p \in flagged[g] : payLock[p] = g /\ ~isPaid[p]
  BY DEF OverInv, WritesLocked, TypeInv, TypeOK
<1>2. \A p \in Payments : isPaid'[p] <=> (isPaid[p] \/ p \in flagged[g])
  BY Zenon DEF CommitPayments
<1>3. \A p \in Payments : deposits'[p] = deposits[p] + (IF p \in recorded[g] THEN 1 ELSE 0)
  BY DEF CommitPayments
<1>4. \A p \in Payments : deposits[p] = 0 \/ (deposits[p] = 1 /\ isPaid[p])
  BY DEF OverInv, DepositOfPaid
<1>5. \A p \in recorded[g] : p \in Payments /\ deposits[p] = 0 /\ deposits'[p] = 1 /\ isPaid'[p]
  <2> SUFFICES ASSUME NEW p \in recorded[g]
               PROVE  p \in Payments /\ deposits[p] = 0 /\ deposits'[p] = 1 /\ isPaid'[p]
    OBVIOUS
  <2>1. p \in flagged[g] /\ p \in Payments /\ ~isPaid[p]
    BY <1>1
  <2>2. deposits[p] = 0
    BY <1>4, <2>1
  <2>3. deposits'[p] = 1
    BY <1>3, <2>1, <2>2
  <2>4. isPaid'[p]
    BY <1>2, <2>1
  <2> QED BY <2>1, <2>2, <2>3, <2>4
<1>6. \A p \in Payments : p \notin recorded[g] => deposits'[p] = deposits[p]
  BY <1>3, <1>4
<1>7. DepositOfPaid'
  <2> SUFFICES ASSUME NEW p \in Payments
               PROVE  deposits'[p] = 0 \/ (deposits'[p] = 1 /\ isPaid'[p])
    BY DEF DepositOfPaid
  <2>1. CASE p \in recorded[g]
    BY <1>5, <2>1
  <2>2. CASE p \notin recorded[g]
    BY <1>2, <1>4, <1>6, <2>2
  <2> QED BY <2>1, <2>2
<1>8. \A p \in Payments : deposits[p] > 0 => deposits'[p] > 0
  BY <1>5, <1>6
<1>9. \A p \in Payments : isPaid'[p] => isPaid[p] \/ payLock[p] = g
  BY <1>1, <1>2
<1> QED BY <1>5, <1>7, <1>8, <1>9

(* A session that ends, with a commit or without, leaves the others alone. *)
LEMMA EndAlone ==
    ASSUME OverInv, NEW g \in Handlers, Unlock(g),
           CommitPayments(g) \/ UNCHANGED isPaid,
           ForgetWrites(g) \/ UNCHANGED <<flagged, recorded>>,
           \A h \in Handlers \ {g} :
               pc'[h] = pc[h] /\ pay'[h] = pay[h] /\ seen'[h] = seen[h] /\ copy'[h] = copy[h],
           \A u \in Users : userLock[u] # g => balance'[u] = balance[u]
    PROVE  Alone(g)
<1>1. \A p \in Payments : isPaid'[p] => isPaid[p] \/ payLock[p] = g
  BY CommitWrites
<1>2. \A p \in Payments : payLock[p] # g => payLock'[p] = payLock[p]
  BY DEF Unlock
<1>3. \A u \in Users : userLock[u] # g => userLock'[u] = userLock[u]
  BY DEF Unlock
<1>4. \A h \in Handlers \ {g} : flagged'[h] = flagged[h] /\ recorded'[h] = recorded[h]
  BY DEF ForgetWrites, OverInv, TypeInv, TypeOK
<1> QED BY <1>1, <1>2, <1>3, <1>4 DEF Alone

(* A session at rest that has written nothing holds all it needs to. *)
LEMMA RestLocked ==
    ASSUME NEW h \in Handlers, pc'[h] \in {"idle", "polling"},
           flagged'[h] = {}, recorded'[h] = {}
    PROVE  WritesLocked(h)'
BY DEF WritesLocked, Working

(* A session that leaves its order goes to rest; the other sessions do not move. *)
LEMMA FinishAlone ==
    ASSUME OverInv, NEW g \in Handlers, Finish(g)
    PROVE  /\ pc'[g] = IF g \in Checks THEN "polling" ELSE "idle"
           /\ \A h \in Handlers \ {g} :
                 pc'[h] = pc[h] /\ pay'[h] = pay[h] /\ seen'[h] = seen[h] /\ copy'[h] = copy[h]
BY DEF Finish, OverInv, TypeInv, TypeOK

(* Every step keeps this invariant, whatever the faults. *)
LEMMA OverStep == OverInv /\ [Next]_vars => OverInv'
<1> SUFFICES ASSUME OverInv, [Next]_vars PROVE OverInv'
  OBVIOUS
<1> USE ConstantsAssumption
<1>1. TypeInv' /\ TypeInv /\ DepositOfPaid /\ Covered
  BY TypeStep DEF OverInv
<1> DEFINE Locked == \A h \in Handlers : WritesLocked(h)'
<1>2. ASSUME UNCHANGED tables PROVE DepositOfPaid' /\ Covered'
  BY <1>1, <1>2, CoveredGrows DEF tables, DepositOfPaid
<1>3. ASSUME UNCHANGED tables, Locked PROVE OverInv'
  BY <1>1, <1>2, <1>3 DEF OverInv
<1>4. ASSUME NEW g \in Handlers, UNCHANGED tables, Alone(g), WritesLocked(g)' PROVE OverInv'
  BY <1>3, <1>4, OthersLocked
<1>5. ASSUME NEW g \in Handlers, UNCHANGED <<tables, locks>>, WritesLocked(g)',
             \A h \in Handlers \ {g} :
                 /\ pc'[h] = pc[h] /\ pay'[h] = pay[h] /\ seen'[h] = seen[h]
                 /\ copy'[h] = copy[h] /\ flagged'[h] = flagged[h]
                 /\ recorded'[h] = recorded[h]
      PROVE  OverInv'
  <2>1. Alone(g)
    BY <1>5 DEF Alone, tables, locks
  <2> QED BY <1>4, <1>5, <2>1
<1>6. ASSUME NEW g \in Handlers, Rollback(g), Finish(g) PROVE OverInv'
  <2>1. UNCHANGED tables /\ Unlock(g) /\ ForgetWrites(g)
    BY <1>6 DEF Rollback
  <2>2. flagged'[g] = {} /\ recorded'[g] = {}
    BY <1>1, <2>1 DEF ForgetWrites, TypeInv, TypeOK
  <2>3. WritesLocked(g)'
    BY <1>6, <2>2, FinishAlone, RestLocked
  <2>4. Alone(g)
    BY <1>6, <2>1, FinishAlone, EndAlone DEF tables
  <2> QED BY <1>4, <2>1, <2>3, <2>4
<1>7. ASSUME NEW g \in Handlers, Finish(g), UNCHANGED <<tables, locks, flagged, recorded>>,
             g \in Checks, pc[g] # "rewarding"
      PROVE  OverInv'
  <2>1. pc'[g] = "polling" /\ g \notin Spenders /\ WritesLocked(g)
    BY <1>7, FinishAlone DEF OverInv
  <2>2. WritesLocked(g)'
    BY <1>7, <2>1 DEF WritesLocked, Working, tables, locks
  <2> QED BY <1>5, <1>7, <2>2, FinishAlone
<1>8. ASSUME NEW g \in Handlers, CommitPayments(g), UNCHANGED <<balance, spent>>,
             pc'[g] \in {"idle", "polling"},
             \A h \in Handlers \ {g} :
                 pc'[h] = pc[h] /\ pay'[h] = pay[h] /\ seen'[h] = seen[h] /\ copy'[h] = copy[h]
      PROVE  OverInv'
  <2>1. Unlock(g) /\ ForgetWrites(g)
    BY <1>8 DEF CommitPayments
  <2>2. flagged'[g] = {} /\ recorded'[g] = {}
    BY <1>1, <2>1 DEF ForgetWrites, TypeInv, TypeOK
  <2>3. WritesLocked(g)'
    BY <1>8, <2>2, RestLocked
  <2>4. Alone(g)
    BY <1>8, <2>1, EndAlone
  <2>5. DepositOfPaid' /\ Covered'
    BY <1>8, CommitWrites, CoveredGrows
  <2> QED BY <1>1, <2>3, <2>4, <2>5, OthersLocked DEF OverInv
<1>9. ASSUME NEW p \in Payments, CreatePayment(p) \/ ProviderPays(p) PROVE OverInv'
  <2>1. UNCHANGED <<tables, locks, session>>
    BY <1>9 DEF CreatePayment, ProviderPays
  <2>2. Locked
    BY <2>1 DEF tables, locks, session, OverInv, WritesLocked, UserOf
  <2> QED BY <1>3, <2>1, <2>2
<1>10. ASSUME NEW w \in Webhooks, NEW p \in Payments, ReceiveWebhook(w, p) PROVE OverInv'
  <2>1. w \in Handlers /\ WritesLocked(w) /\ pc[w] = "idle"
    BY <1>10 DEF Handlers, OverInv, ReceiveWebhook
  <2>2. pc'[w] = "found" /\ flagged[w] = {} /\ recorded[w] = {}
    BY <1>1, <1>10, <2>1 DEF ReceiveWebhook, Goto, TypeInv, TypeOK, WritesLocked
  <2>3. WritesLocked(w)'
    BY <1>10, <2>1, <2>2 DEF ReceiveWebhook, WritesLocked, Working
  <2> QED BY <1>1, <1>5, <1>10, <2>1, <2>3 DEF ReceiveWebhook, Goto, TypeInv, TypeOK
<1>11. ASSUME NEW w \in Webhooks, RejectAmount(w) PROVE OverInv'
  BY <1>6, <1>11 DEF RejectAmount, Handlers
<1>12. ASSUME NEW h \in Checks, NEW C, StartCheck(h, C) PROVE OverInv'
  <2>1. h \in Handlers /\ WritesLocked(h) /\ pc[h] = "idle" /\ pc'[h] = "polling"
    BY <1>1, <1>12 DEF Handlers, OverInv, StartCheck, Goto, TypeInv, TypeOK
  <2>2. flagged'[h] = {} /\ recorded'[h] = {}
    BY <1>12, <2>1 DEF StartCheck, WritesLocked
  <2> QED BY <1>1, <1>5, <1>12, <2>1, <2>2, RestLocked
          DEF StartCheck, Goto, TypeInv, TypeOK
<1>13. ASSUME NEW h \in Checks, NEW p \in Payments, SkipCandidate(h, p) \/ ApiError(h, p)
       PROVE  OverInv'
  <2>1. UNCHANGED <<tables, locks, pc, pay, seen, copy, flagged, recorded>>
    BY <1>13 DEF SkipCandidate, ApiError
  <2>2. Locked
    BY <2>1 DEF tables, locks, OverInv, WritesLocked, UserOf
  <2> QED BY <1>3, <2>1, <2>2
<1>14. ASSUME NEW h \in Checks, NEW p \in Payments, ProviderConfirms(h, p) PROVE OverInv'
  <2>1. h \in Handlers /\ h \notin Spenders /\ WritesLocked(h) /\ pc[h] = "polling"
    BY <1>14 DEF Handlers, OverInv, ProviderConfirms, NextCandidate
  <2>2. pc'[h] = "found"
    BY <1>1, <1>14, <2>1 DEF ProviderConfirms, Goto, TypeInv, TypeOK
  <2>3. WritesLocked(h)'
    BY <1>14, <2>1, <2>2 DEF ProviderConfirms, WritesLocked, Working, tables, locks
  <2> QED BY <1>1, <1>5, <1>14, <2>1, <2>3 DEF ProviderConfirms, Goto, TypeInv, TypeOK
<1>15. ASSUME NEW h \in Checks, EndCheck(h) PROVE OverInv'
  <2>1. h \in Handlers /\ pc'[h] = "idle" /\ UNCHANGED <<pay, seen, copy>>
        /\ \A g \in Handlers \ {h} : pc'[g] = pc[g]
    BY <1>1, <1>15 DEF Handlers, EndCheck, Goto, TypeInv, TypeOK
  <2>2. CASE CommitPayments(h) /\ UNCHANGED <<balance, spent>>
    BY <1>8, <2>1, <2>2
  <2>3. CASE Rollback(h)
    <3>1. UNCHANGED tables /\ Unlock(h) /\ ForgetWrites(h)
      BY <2>3 DEF Rollback
    <3>2. flagged'[h] = {} /\ recorded'[h] = {}
      BY <1>1, <2>1, <3>1 DEF ForgetWrites, TypeInv, TypeOK
    <3>3. Alone(h)
      BY <2>1, <3>1, EndAlone DEF tables
    <3> QED BY <1>4, <2>1, <3>1, <3>2, <3>3, RestLocked
  <2> QED BY <1>15, <2>2, <2>3 DEF EndCheck
<1>16. ASSUME NEW h \in Webhooks \cup Checks, LockPayment(h) PROVE OverInv'
  <2>1. h \in Handlers /\ h \notin Spenders /\ WritesLocked(h) /\ pc[h] = "found"
        /\ pay[h] \in Payments /\ payLock[pay[h]] = NoOne
    BY <1>1, <1>16 DEF Handlers, OverInv, LockPayment, TypeInv, PayKnown, Working
  <2>2. /\ pc'[h] = "locked" /\ seen'[h] = Row(pay[h])
        /\ \A p \in Payments : payLock'[p] = IF p = pay[h] THEN h ELSE payLock[p]
    BY <1>1, <1>16, <2>1 DEF LockPayment, Goto, TypeInv, TypeOK
  <2>3. /\ flagged[h] \subseteq Payments
        /\ UNCHANGED <<isPaid, deposits, balance, spent, userLock, pay, copy, flagged, recorded>>
    BY <1>1, <1>16, <2>1 DEF LockPayment, tables, TypeInv, TypeOK
  <2>4. WritesLocked(h)'
    <3>1. payLock'[pay[h]] = h /\ (isPaid[pay[h]] => seen'[h].isPaid)
      BY <2>1, <2>2 DEF Row
    <3>2. \A p \in flagged[h] : payLock'[p] = h /\ ~isPaid[p]
      BY <2>1, <2>2, <2>3 DEF WritesLocked
    <3> QED BY <1>16, <2>1, <2>2, <2>3, <3>1, <3>2 DEF WritesLocked, Working
  <2>5. Alone(h)
    BY <1>1, <1>16, <2>1, <2>2 DEF LockPayment, Goto, Alone, TypeInv, TypeOK, tables
  <2> QED BY <1>4, <1>16, <2>1, <2>4, <2>5 DEF LockPayment
<1>17. ASSUME NEW h \in Webhooks \cup Checks, AlreadyPaid(h) PROVE OverInv'
  <2>1. h \in Handlers /\ pc[h] = "locked" /\ Finish(h)
    BY <1>17 DEF Handlers, AlreadyPaid
  <2> QED BY <1>6, <1>7, <1>17, <2>1 DEF AlreadyPaid
<1>18. ASSUME NEW h \in Webhooks \cup Checks, MarkPaid(h) PROVE OverInv'
  <2>1. h \in Handlers /\ h \notin Spenders /\ WritesLocked(h) /\ pc[h] = "locked"
    BY <1>18 DEF Handlers, OverInv, MarkPaid
  <2>2. pc'[h] = "marked" /\ flagged'[h] = flagged[h] \cup {pay[h]}
    BY <1>1, <1>18, <2>1 DEF MarkPaid, Goto, TypeInv, TypeOK
  <2>3. payLock[pay[h]] = h /\ ~isPaid[pay[h]]
    BY <1>18, <2>1 DEF MarkPaid, WritesLocked
  <2>4. WritesLocked(h)'
    BY <1>18, <2>1, <2>2, <2>3 DEF MarkPaid, WritesLocked, Working, tables, locks
  <2> QED BY <1>1, <1>5, <1>18, <2>1, <2>4 DEF MarkPaid, Goto, TypeInv, TypeOK
<1>19. ASSUME NEW h \in Webhooks \cup Checks, RecordDeposit(h) PROVE OverInv'
  <2>1. h \in Handlers /\ h \notin Spenders /\ WritesLocked(h) /\ pc[h] = "marked"
    BY <1>19 DEF Handlers, OverInv, RecordDeposit
  <2>2. pc'[h] = "linked" /\ recorded'[h] = recorded[h] \cup {pay[h]}
    BY <1>1, <1>19, <2>1 DEF RecordDeposit, Goto, TypeInv, TypeOK
  <2>3. WritesLocked(h)'
    BY <1>19, <2>1, <2>2 DEF RecordDeposit, WritesLocked, Working, tables, locks
  <2> QED BY <1>1, <1>5, <1>19, <2>1, <2>3 DEF RecordDeposit, Goto, TypeInv, TypeOK
<1>20. ASSUME NEW h \in Handlers, LockUser(h), UserOf(h) \in Users, WritesLocked(h)',
              UNCHANGED <<tables, payLock, pay, seen, flagged, recorded>>,
              \A g \in Handlers \ {h} : pc'[g] = pc[g]
       PROVE  OverInv'
  <2>1. Alone(h)
    BY <1>1, <1>20 DEF LockUser, Alone, TypeInv, TypeOK, tables
  <2> QED BY <1>4, <1>20, <2>1
<1>21. ASSUME NEW h \in Webhooks \cup Checks, CreditUser(h) PROVE OverInv'
  <2>1. h \in Handlers /\ h \notin Spenders /\ WritesLocked(h) /\ pc[h] = "linked"
        /\ UserOf(h) \in Users
    BY <1>1, <1>21, UserOfType DEF Handlers, CreditUser, OverInv, Working
  <2>2. /\ pc'[h] = "credited" /\ userLock'[UserOf(h)] = h /\ copy'[h] = balance[UserOf(h)]
        /\ UserOf(h)' = UserOf(h)
    BY <1>1, <1>21, <2>1 DEF CreditUser, LockUser, Goto, TypeInv, TypeOK, UserOf
  <2>3. WritesLocked(h)'
    BY <1>21, <2>1, <2>2 DEF CreditUser, WritesLocked, Working, tables
  <2> QED BY <1>1, <1>20, <1>21, <2>1, <2>3 DEF CreditUser, Goto, TypeInv, TypeOK
<1>22. ASSUME NEW s \in Spenders, LockBuyer(s) PROVE OverInv'
  <2>1. s \in Handlers /\ WritesLocked(s) /\ pc[s] = "ordering" /\ UserOf(s) \in Users
    BY <1>1, <1>22, UserOfType DEF Handlers, LockBuyer, OverInv
  <2>2. /\ pc'[s] = "charging" /\ userLock'[UserOf(s)] = s /\ copy'[s] = balance[UserOf(s)]
        /\ UserOf(s)' = UserOf(s)
    BY <1>1, <1>22, <2>1 DEF LockBuyer, LockUser, Goto, TypeInv, TypeOK, UserOf
  <2>3. WritesLocked(s)'
    BY <1>22, <2>1, <2>2 DEF LockBuyer, WritesLocked, Working, tables
  <2> QED BY <1>1, <1>20, <1>22, <2>1, <2>3 DEF LockBuyer, Goto, TypeInv, TypeOK
<1>23. ASSUME NEW h \in Webhooks \cup Checks, CommitCredit(h) PROVE OverInv'
  <2>1. h \in Handlers /\ WritesLocked(h) /\ pc[h] = "credited" /\ pay[h] \in Payments
        /\ h \notin Spenders
    BY <1>1, <1>23 DEF Handlers, CommitCredit, OverInv, TypeInv, PayKnown, Working
  <2>2. /\ UserOf(h) = Owner[pay[h]] /\ Owner[pay[h]] \in Users /\ Amount[pay[h]] \in Nat
        /\ userLock[UserOf(h)] = h /\ copy[h] = balance[UserOf(h)]
        /\ pay[h] \in recorded[h]
    BY <2>1 DEF UserOf, WritesLocked
  <2>3. /\ CommitPayments(h) /\ Unlock(h) /\ ForgetWrites(h)
        /\ UNCHANGED <<spent, pay, seen, copy>>
    BY <1>23 DEF CommitCredit, CommitPayments
  <2>4. \A u \in Users : balance'[u] = IF u = Owner[pay[h]] THEN balance[u] + Amount[pay[h]]
                                       ELSE balance[u]
    BY <1>1, <1>23, <2>2 DEF CommitCredit, TypeInv, TypeOK
  <2>5. \A g \in Handlers : pc'[g] = IF g = h THEN "rewarding" ELSE pc[g]
    BY <1>1, <1>23, <2>1 DEF CommitCredit, Goto, TypeInv, TypeOK
  <2>6. Alone(h)
    BY <2>1, <2>2, <2>3, <2>4, <2>5, EndAlone
  <2>7. WritesLocked(h)'
    <3>1. flagged'[h] = {} /\ recorded'[h] = {}
      BY <1>1, <2>1, <2>3 DEF ForgetWrites, TypeInv, TypeOK
    <3> QED BY <1>23, <2>1, <2>5, <3>1 DEF WritesLocked, Working
  <2>8. ASSUME NEW u \in Users
        PROVE  balance'[u] + spent'[u] <= SumOf(Amount, Deposited(u)')
    <3>1. /\ Deposited(u) \in SUBSET Deposited(u)' /\ IsFiniteSet(Deposited(u))
          /\ IsFiniteSet(Deposited(u)') /\ \A p \in Deposited(u)' : Amount[p] \in Nat
      BY <2>1, <2>3, CommitWrites, FiniteAssumption, FS_Subset DEF Deposited, OrdersOf
    <3>2. /\ balance[u] + spent[u] <= SumOf(Amount, Deposited(u))
          /\ balance[u] \in Nat /\ spent[u] \in Nat /\ spent'[u] = spent[u]
      BY <1>1, <2>3 DEF Covered, TypeInv, TypeOK
    <3>3. SumOf(Amount, Deposited(u)) \in Nat /\ SumOf(Amount, Deposited(u)') \in Nat
      BY <3>1, SumType
    <3>4. CASE u = Owner[pay[h]]
      <4> DEFINE D == Deposited(u) \cup {pay[h]}
      <4>1. pay[h] \notin Deposited(u) /\ pay[h] \in Deposited(u)'
        BY <2>1, <2>2, <2>3, <3>4, CommitWrites DEF Deposited, OrdersOf
      <4>2. D \in SUBSET Deposited(u)'
        BY <3>1, <4>1
      <4>3. SumOf(Amount, D) <= SumOf(Amount, Deposited(u)')
        BY <3>1, <4>2, SumOfPart
      <4>4. \A p \in D : Amount[p] \in Int
        BY <3>1, <4>2
      <4>5. SumOf(Amount, D) = Amount[pay[h]] + SumOf(Amount, Deposited(u))
        BY <3>1, <4>1, <4>4, SumWith
      <4>6. balance'[u] = balance[u] + Amount[pay[h]]
        BY <2>4, <3>4
      <4> HIDE DEF D
      <4> QED BY <2>2, <3>2, <3>3, <4>3, <4>5, <4>6
    <3>5. CASE u # Owner[pay[h]]
      <4>1. SumOf(Amount, Deposited(u)) <= SumOf(Amount, Deposited(u)')
        BY <3>1, SumOfPart
      <4>2. balance'[u] = balance[u]
        BY <2>4, <3>5
      <4> QED BY <3>2, <3>3, <4>1, <4>2
    <3> QED BY <3>4, <3>5
  <2>9. DepositOfPaid' /\ Covered'
    BY <2>1, <2>3, <2>8, CommitWrites DEF Covered
  <2> QED BY <1>1, <2>1, <2>6, <2>7, <2>9, OthersLocked DEF OverInv
<1>24. ASSUME NEW h \in Webhooks \cup Checks, AfterCredit(h) PROVE OverInv'
  <2>1. /\ h \in Handlers /\ WritesLocked(h) /\ pc[h] = "rewarding" /\ Finish(h)
        /\ UNCHANGED <<tables, flagged, recorded>> /\ UserOf(h) \in Users
    BY <1>1, <1>24, UserOfType DEF Handlers, AfterCredit, OverInv, Working
  <2>2. WritesLocked(h)'
    <3>1. flagged'[h] = {} /\ recorded'[h] = {}
      BY <2>1 DEF WritesLocked
    <3> QED BY <2>1, <3>1, FinishAlone, RestLocked
  <2>3. CASE Unlock(h)
    <3>1. Alone(h)
      BY <2>1, <2>3, FinishAlone, EndAlone DEF tables
    <3> QED BY <1>4, <2>1, <2>2, <3>1
  <2>4. CASE ~Unlock(h)
    <3>1. /\ userLock[UserOf(h)] \in {NoOne, h} /\ UNCHANGED payLock
          /\ userLock' = [userLock EXCEPT ![UserOf(h)] = h]
      BY <1>24, <2>4 DEF AfterCredit
    <3>2. Alone(h)
      BY <1>1, <2>1, <3>1, FinishAlone DEF Alone, TypeInv, TypeOK, tables
    <3> QED BY <1>4, <2>1, <2>2, <3>2
  <2> QED BY <2>3, <2>4
<1>25. ASSUME NEW s \in Spenders, BeginPurchase(s) PROVE OverInv'
  <2>1. s \in Handlers /\ WritesLocked(s) /\ pc[s] = "idle" /\ pc'[s] = "ordering"
    BY <1>1, <1>25 DEF Handlers, BeginPurchase, OverInv, Goto, TypeInv, TypeOK
  <2>2. WritesLocked(s)'
    BY <1>25, <2>1 DEF BeginPurchase, WritesLocked, Working, tables, locks
  <2> QED BY <1>1, <1>5, <1>25, <2>1, <2>2 DEF BeginPurchase, Goto, TypeInv, TypeOK
<1>26. ASSUME NEW s \in Spenders, SubtractBalance(s) PROVE OverInv'
  <2>1. s \in Handlers /\ s \notin Checks /\ WritesLocked(s) /\ pc[s] = "charging"
        /\ UserOf(s) = Buyer[s] /\ Buyer[s] \in Users /\ Price[s] \in Nat
    BY <1>26 DEF Handlers, SubtractBalance, OverInv, UserOf
  <2>2. /\ userLock[Buyer[s]] = s /\ copy[s] = balance[Buyer[s]]
        /\ flagged[s] = {} /\ recorded[s] = {}
    BY <2>1 DEF WritesLocked
  <2>3. /\ Unlock(s) /\ Finish(s) /\ UNCHANGED <<isPaid, deposits, flagged, recorded>>
        /\ copy[s] >= Price[s]
    BY <1>26 DEF SubtractBalance
  <2>4. WritesLocked(s)'
    BY <2>1, <2>2, <2>3, FinishAlone, RestLocked
  <2>5. \A u \in Users :
            /\ balance'[u] = IF u = Buyer[s] THEN balance[u] - Price[s] ELSE balance[u]
            /\ spent'[u] = IF u = Buyer[s] THEN spent[u] + Price[s] ELSE spent[u]
    BY <1>1, <1>26, <2>1, <2>2 DEF SubtractBalance, TypeInv, TypeOK
  <2>6. Alone(s)
    BY <2>1, <2>2, <2>3, <2>5, FinishAlone, EndAlone
  <2>7. \A u \in Users : balance'[u] + spent'[u] = balance[u] + spent[u]
    <3>1. balance \in [Users -> Nat] /\ spent \in [Users -> Nat]
      BY <1>1 DEF TypeInv, TypeOK
    <3> QED BY <2>1, <2>5, <3>1
  <2>8. DepositOfPaid' /\ Covered'
    BY <1>1, <2>3, <2>7 DEF DepositOfPaid, Covered, Deposited
  <2> QED BY <1>1, <2>1, <2>4, <2>6, <2>8, OthersLocked DEF OverInv
<1>27. ASSUME NEW s \in Spenders, InsufficientFunds(s) PROVE OverInv'
  BY <1>6, <1>27 DEF InsufficientFunds, Handlers
<1>28. ASSUME NEW h \in Handlers, DatabaseError(h) \/ DeadlockDetected(h) PROVE OverInv'
  BY <1>6, <1>28 DEF DatabaseError, DeadlockDetected
<1>29. ASSUME NEW h \in Handlers, PythonError(h) PROVE OverInv'
  <2>1. pc[h] \in {"marked", "linked"} /\ Finish(h) /\ UNCHANGED <<balance, spent>>
    BY <1>29 DEF PythonError
  <2>2. CASE h \in Checks
    <3>1. UNCHANGED <<tables, locks, flagged, recorded>>
      BY <1>29, <2>1, <2>2 DEF PythonError, tables
    <3> QED BY <1>7, <2>1, <2>2, <3>1
  <2>3. CASE h \notin Checks
    BY <1>8, <1>29, <2>1, <2>3, FinishAlone DEF PythonError
  <2> QED BY <2>2, <2>3
<1>30. ASSUME Crash PROVE OverInv'
  <2>1. Locked
    BY <1>30 DEF Crash, WritesLocked, Working
  <2> QED BY <1>3, <1>30, <2>1 DEF Crash
<1>31. ASSUME UNCHANGED vars PROVE OverInv'
  <2>1. Locked
    BY <1>31 DEF vars, tables, locks, session, OverInv, WritesLocked, UserOf
  <2> QED BY <1>3, <1>31, <2>1 DEF vars
<1>32. ASSUME NEW h \in Checks, ManualCheck(h) PROVE OverInv'
  BY <1>12, <1>32 DEF ManualCheck
<1>33. ASSUME AutoCheck PROVE OverInv'
  BY <1>12, <1>33 DEF AutoCheck
<1> QED
  BY <1>9, <1>10, <1>11, <1>13, <1>14, <1>15, <1>16, <1>17, <1>18, <1>19, <1>21, <1>22, <1>23,
     <1>24, <1>25, <1>26, <1>27, <1>28, <1>29, <1>30, <1>31, <1>32, <1>33
     DEF Next, WebhookStep, CheckStep, FinalizeStep, PurchaseStep, FaultStep

(* Whatever faults happen, and even if a handler swallows an exception with its writes
   half done and commits them, no deposit is recorded twice and nobody gets more than
   the deposits recorded for him. *)
THEOREM NeverOverCreditedAlways == Spec => []NeverOverCredited
<1>1. Init => OverInv
  <2> SUFFICES ASSUME Init PROVE OverInv
    OBVIOUS
  <2>1. \A u \in Users : Deposited(u) = {}
    BY DEF Init, Deposited, OrdersOf
  <2>2. Covered
    <3> SUFFICES ASSUME NEW u \in Users
                 PROVE  balance[u] + spent[u] <= SumOf(Amount, Deposited(u))
      BY DEF Covered
    <3>1. balance[u] = 0 /\ spent[u] = 0
      BY DEF Init
    <3>2. SumOf(Amount, Deposited(u)) = 0
      BY <2>1, SumEmpty
    <3> QED BY <3>1, <3>2
  <2>3. \A h \in Handlers : WritesLocked(h)
    BY DEF Init, WritesLocked, Working
  <2>4. DepositOfPaid
    BY DEF Init, DepositOfPaid
  <2> QED BY <2>2, <2>3, <2>4, TypeInit DEF OverInv
<1>2. OverInv => NeverOverCredited
  <2> SUFFICES ASSUME OverInv PROVE NeverOverCredited
    OBVIOUS
  <2>1. \A p \in Payments : deposits[p] <= 1
    BY DEF OverInv, DepositOfPaid
  <2> QED BY <2>1 DEF OverInv, Covered, SumOf, NeverOverCredited
<1> QED BY <1>1, <1>2, OverStep, PTL DEF Spec

=============================================================================
