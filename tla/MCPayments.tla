------------------------------ MODULE MCPayments ------------------------------
(***************************************************************************)
(* Top-ups (TopUp) and guest purchases (GuestPurchase) side by side, each  *)
(* with the fairness of its own module, in a small instance: two orders of *)
(* one user, and two purchases.  They share no row, and in a behaviour     *)
(* only one part moves.  No fair step of the other is enabled: nothing has *)
(* been ordered.                                                           *)
(***************************************************************************)
EXTENDS MCGuestPurchase, Integers

CONSTANTS hook, auto, shop     \* the handlers of the top-ups

VARIABLES
    part,        \* the one that moves
    order, isPaid, deposits, balance, spent, payLock, userLock, at, pay, todo, seen,
    wallet, flagged, flushed, topUpFaults

topUpVars == <<order, isPaid, deposits, balance, spent, payLock, userLock, at, pay, todo,
               seen, wallet, flagged, flushed, topUpFaults>>

T == INSTANCE TopUp WITH
        Payments <- {1, 2},
        Owner <- [p \in {1, 2} |-> alice],
        Amount <- [p \in {1, 2} |-> p],
        Webhooks <- {hook}, Checks <- {auto}, AutoLoop <- auto, Spenders <- {shop},
        Buyer <- [s \in {shop} |-> alice],
        Price <- [s \in {shop} |-> 2],
        FaultKinds <- {"crash", "db", "api"},
        pc <- at, copy <- wallet, recorded <- flushed, faults <- topUpFaults

(* One of the initial states of the purchases is enough for the top-ups. *)
BothInit ==
    /\ part \in {"topup", "guest"}
    /\ Init /\ T!Init
    /\ part = "topup" => sub[alice].row = "none"

(* So one condition can name a step of each part: the other's is never enabled, and
   TLC has to tell apart fewer combinations of conditions. *)
all == <<part, vars, topUpVars>>
OfGuest(A) == part = "guest" /\ A /\ UNCHANGED <<part, topUpVars>>
OfTopUp(A) == part = "topup" /\ A /\ UNCHANGED <<part, vars>>

BothNext == OfGuest(Next) \/ OfTopUp(T!Next)

BothFairness ==
    /\ SF_all(OfGuest(SessionStep(w1)) \/ OfTopUp(T!LockPayment(hook)))
    /\ SF_all(OfGuest(SessionStep(w2)) \/ OfTopUp(T!CreditUser(hook)))
    /\ SF_all(OfGuest(SessionStep(monitor)) \/ OfTopUp(T!AfterCredit(hook)))
    /\ SF_all(OfGuest(Pick(p1)) \/ OfTopUp(T!LockPayment(auto)))
    /\ SF_all(OfGuest(Pick(p2)) \/ OfTopUp(T!CreditUser(auto)))
    /\ SF_all(OfTopUp(T!AfterCredit(auto)))
    /\ WF_all(OfTopUp(T!AutoCheck))
    /\ \A h \in {hook, auto, shop} : WF_all(OfTopUp(T!SessionStep(h)))
    /\ WF_all(\E h \in {hook, auto, shop} : OfTopUp(T!DeadlockDetected(h)))

BothSpec ==
    /\ BothInit
    /\ [][BothNext]_all
    /\ BothFairness

-----------------------------------------------------------------------------
(* TopUp: an order that is paid is credited. *)
EventuallyCredited == T!EventuallyCredited
=============================================================================
