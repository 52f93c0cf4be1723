--------------------------- MODULE WithdrawalProofs ---------------------------
(***************************************************************************)
(* Proofs about Withdrawal, for any number of partners, requests and       *)
(* sessions: a request is debited as often as it is approved, no balance   *)
(* is overdrawn, and, as long as requests are decided in the cabinet, the  *)
(* payouts of a partner stay within what he has earned.                    *)
(***************************************************************************)
EXTENDS Withdrawal, Sums

(* What the proofs ask of the constants. *)
ConstantsOK ==
    /\ Requests \subseteq Nat
    /\ Amounts \subseteq Nat
    /\ MaxEarned \in Nat
    /\ Nobody \notin Sessions \cup Partners

Asking == {"asking", "counting", "deciding", "creating"}
Deciding == {"opening", "checking", "debiting"}
Labels == {"idle"} \cup Asking \cup Deciding

(* The types of TypeOK but for the sum of payouts that a session has read, which
   SumInv below adds. *)
TableTypes ==
    /\ status \in [Requests -> Statuses]
    /\ asker \in [Requests -> Partners \cup {Nobody}]
    /\ amount \in [Requests -> Nat]
    /\ debits \in [Requests -> Nat]
    /\ earned \in [Partners -> Nat]
    /\ balance \in [Partners -> Nat]

SessionTypes ==
    /\ reqLock \in [Requests -> Sessions \cup {Nobody}]
    /\ userLock \in [Partners -> Sessions \cup {Nobody}]
    /\ pc \in [Sessions -> Labels]
    /\ op \in [Sessions -> Decisions \cup {"none", "ask"}]
    /\ target \in [Sessions -> Partners \cup Requests \cup {Nobody}]
    /\ seen \in [Sessions -> Statuses \cup {"unread"}]
    /\ asks \in [Sessions -> Nat]
    /\ funds \in [Sessions -> Nat]

Pending(r) == status[r] = "pending"

(* A request that exists has a partner, ids are given in their order, and only the
   last request of a partner can be pending. *)
RequestsOK ==
    /\ \A r \in Requests : status[r] # "none" => asker[r] \in Partners
    /\ \A q, r \in Requests : q < r /\ status[r] # "none" => status[q] # "none"
    /\ \A q, r \in Requests :
          Pending(r) /\ status[q] # "none" /\ asker[q] = asker[r] => q <= r

(* What a session knows: under a partner's lock that none of his requests is
   pending, under a request's lock its status, and before it debits the balance. *)
SessionOK(s) ==
    /\ pc[s] \in Asking => target[s] \in Partners
    /\ pc[s] \in Asking \ {"asking"} => userLock[target[s]] = s
    /\ pc[s] = "creating" => \A r \in Requests : asker[r] = target[s] => ~ Pending(r)
    /\ pc[s] \in Deciding =>
          /\ target[s] \in Requests /\ status[target[s]] # "none"
          /\ op[s] \in Decisions
    /\ pc[s] = "opening" => seen[s] = "unread"
    /\ pc[s] \in {"checking", "debiting"} =>
          reqLock[target[s]] = s /\ seen[s] = status[target[s]]
    /\ pc[s] = "debiting" =>
          /\ Pending(target[s])
          /\ userLock[asker[target[s]]] = s /\ funds[s] = balance[asker[target[s]]]
    /\ pc[s] = "idle" => seen[s] = "unread"

Inv == /\ TableTypes /\ SessionTypes /\ RequestsOK /\ DebitedIffApproved
       /\ \A s \in Sessions : SessionOK(s)

-----------------------------------------------------------------------------
(* Nothing has been asked for. *)
LEMMA InvInit == ASSUME ConstantsOK, Init PROVE Inv
BY DEF ConstantsOK, Init, Inv, TableTypes, SessionTypes, RequestsOK, DebitedIffApproved,
       SessionOK, Asking, Deciding, Labels, Statuses, Pending

(* The sessions other than s stay as they are. *)
OnlyMoves(s) ==
    \A t \in Sessions \ {s} :
        /\ pc'[t] = pc[t] /\ op'[t] = op[t] /\ target'[t] = target[t]
        /\ seen'[t] = seen[t] /\ funds'[t] = funds[t]

(* A row that t has locked stays as it is, and its lock stays. *)
RespectsLocksOf(t) ==
    /\ \A r \in Requests : reqLock[r] = t /\ status[r] # "none" =>
          reqLock'[r] = t /\ status'[r] = status[r]
    /\ \A u \in Partners : userLock[u] = t =>
          /\ userLock'[u] = t /\ balance'[u] = balance[u]
          /\ \A r \in Requests :
                Pending(r)' /\ asker'[r] = u => Pending(r) /\ asker[r] = u

(* Requests are never deleted, and keep their partner. *)
Lasting ==
    \A r \in Requests : status[r] # "none" => status'[r] # "none" /\ asker'[r] = asker[r]

(* Under these conditions the other sessions know what they knew. *)
LEMMA OthersKnow ==
    ASSUME Inv, NEW s, OnlyMoves(s), Lasting, NEW t \in Sessions \ {s}, RespectsLocksOf(t)
    PROVE  SessionOK(t)'
<1>1. SessionOK(t) /\ (pc[t] \in Deciding => asker[target[t]] \in Partners)
  BY DEF Inv, RequestsOK, SessionOK
<1>2. pc'[t] = pc[t] /\ op'[t] = op[t] /\ target'[t] = target[t]
      /\ seen'[t] = seen[t] /\ funds'[t] = funds[t]
  BY DEF OnlyMoves
<1>3. ASSUME pc[t] \in {"checking", "debiting"}
      PROVE  reqLock'[target[t]] = t /\ status'[target[t]] = status[target[t]]
  BY <1>1, <1>3 DEF SessionOK, Deciding, RespectsLocksOf
<1>4. ASSUME pc[t] \in Asking \ {"asking"} PROVE userLock'[target[t]] = t
  BY <1>1, <1>4 DEF SessionOK, RespectsLocksOf
<1>5. ASSUME pc[t] = "debiting"
      PROVE  /\ userLock'[asker'[target[t]]] = t
             /\ balance'[asker'[target[t]]] = balance[asker[target[t]]]
  BY <1>1, <1>5 DEF SessionOK, Deciding, RespectsLocksOf, Lasting
<1>6. ASSUME pc[t] = "creating"
      PROVE  \A r \in Requests : asker'[r] = target[t] => ~ Pending(r)'
  BY <1>1, <1>6 DEF SessionOK, Asking, RespectsLocksOf
<1>7. pc[t] \in Deciding => status'[target[t]] # "none"
  BY <1>1 DEF SessionOK, Lasting
<1> QED BY <1>1, <1>2, <1>3, <1>4, <1>5, <1>6, <1>7 DEF SessionOK, Pending, Asking, Deciding

(* The locks of the other sessions when s gives up its own. *)
LEMMA Unlocked ==
    ASSUME ConstantsOK, SessionTypes, NEW s \in Sessions, Unlock(s)
    PROVE  /\ reqLock' \in [Requests -> Sessions \cup {Nobody}]
           /\ userLock' \in [Partners -> Sessions \cup {Nobody}]
           /\ \A t \in Sessions \ {s} :
                 /\ \A r \in Requests : reqLock[r] = t => reqLock'[r] = t
                 /\ \A u \in Partners : userLock[u] = t => userLock'[u] = t
BY DEF ConstantsOK, SessionTypes, Unlock

(* A session that returns knows nothing, and the others are not affected. *)
LEMMA Returned ==
    ASSUME ConstantsOK, SessionTypes, NEW s \in Sessions, Return(s)
    PROVE  /\ SessionTypes' /\ SessionOK(s)' /\ OnlyMoves(s)
           /\ \A t \in Sessions \ {s} :
                 /\ \A r \in Requests : reqLock[r] = t => reqLock'[r] = t
                 /\ \A u \in Partners : userLock[u] = t => userLock'[u] = t
<1>1. Unlock(s)
  BY DEF Return
<1>2. /\ pc' \in [Sessions -> Labels] /\ op' \in [Sessions -> Decisions \cup {"none", "ask"}]
      /\ target' \in [Sessions -> Partners \cup Requests \cup {Nobody}]
      /\ seen' \in [Sessions -> Statuses \cup {"unread"}]
      /\ asks' \in [Sessions -> Nat] /\ funds' \in [Sessions -> Nat]
      /\ OnlyMoves(s) /\ pc'[s] = "idle" /\ seen'[s] = "unread"
  BY DEF SessionTypes, Return, Labels, OnlyMoves
<1>3. SessionOK(s)'
  BY <1>2 DEF SessionOK, Asking, Deciding
<1> QED BY <1>1, <1>2, <1>3, Unlocked DEF SessionTypes

(* A step that leaves the tables alone. *)
LEMMA TablesStay ==
    ASSUME Inv, NEW s \in Sessions, UNCHANGED <<requests, wallets>>,
           SessionTypes', SessionOK(s)', OnlyMoves(s),
           \A t \in Sessions \ {s} :
              /\ \A r \in Requests : reqLock[r] = t => reqLock'[r] = t
              /\ \A u \in Partners : userLock[u] = t => userLock'[u] = t
    PROVE  Inv'
<1>1. UNCHANGED <<status, asker, amount, debits, earned, balance>>
  BY DEF requests, wallets
<1>2. Lasting /\ \A t \in Sessions \ {s} : RespectsLocksOf(t)
  BY <1>1 DEF Lasting, RespectsLocksOf, Pending
<1>3. \A t \in Sessions \ {s} : SessionOK(t)'
  BY <1>2, OthersKnow
<1>4. TableTypes' /\ RequestsOK' /\ DebitedIffApproved'
  BY <1>1 DEF Inv, TableTypes, RequestsOK, DebitedIffApproved, Pending
<1> QED BY <1>3, <1>4 DEF Inv

-----------------------------------------------------------------------------
(***************************************************************************)
(* The steps.                                                              *)
(***************************************************************************)

(* A step in which only the session moves, without giving up a lock. *)
LocksStay(s) ==
    \A t \in Sessions \ {s} :
        /\ \A r \in Requests : reqLock[r] = t => reqLock'[r] = t
        /\ \A u \in Partners : userLock[u] = t => userLock'[u] = t

(* The partner asks. *)
LEMMA AskStep ==
    ASSUME ConstantsOK, Inv, NEW s \in Sessions, NEW u \in Partners, NEW a \in Amounts,
           Ask(s, u, a)
    PROVE  Inv'
<1>1. SessionTypes /\ TableTypes /\ SessionOK(s)
  BY DEF Inv
<1>2. SessionTypes' /\ OnlyMoves(s) /\ LocksStay(s)
  BY <1>1 DEF ConstantsOK, SessionTypes, TableTypes, Ask, Labels, Asking, OnlyMoves, LocksStay, locks
<1>3. pc'[s] = "asking" /\ target'[s] = u
  BY <1>1 DEF SessionTypes, Ask
<1>4. SessionOK(s)'
  BY <1>3 DEF SessionOK, Asking, Deciding
<1>5. UNCHANGED <<requests, wallets>>
  BY DEF Ask
<1> QED BY <1>2, <1>4, <1>5, TablesStay DEF LocksStay

(* He waits for the lock on his row. *)
LEMMA LockPartnerStep ==
    ASSUME ConstantsOK, Inv, NEW s \in Sessions, LockPartner(s)
    PROVE  Inv'
<1>1. SessionTypes /\ SessionOK(s) /\ target[s] \in Partners
  BY DEF Inv, SessionOK, LockPartner, Asking
<1>2. SessionTypes' /\ OnlyMoves(s)
  BY <1>1 DEF SessionTypes, LockPartner, Labels, Asking, OnlyMoves
<1>3. LocksStay(s)
  BY <1>1 DEF ConstantsOK, SessionTypes, LockPartner, LocksStay
<1>4. pc'[s] = "counting" /\ target'[s] = target[s] /\ userLock'[target[s]] = s
  BY <1>1 DEF SessionTypes, LockPartner
<1>5. SessionOK(s)'
  BY <1>1, <1>4 DEF SessionOK, Asking, Deciding
<1>6. UNCHANGED <<requests, wallets>>
  BY DEF LockPartner
<1> QED BY <1>2, <1>3, <1>5, <1>6, TablesStay DEF LocksStay

(* Whatever the two sums come to. *)
LEMMA CountStep ==
    ASSUME ConstantsOK, Inv, NEW s \in Sessions, CountWithdrawn(s)
    PROVE  Inv'
<1>1. SessionTypes /\ SessionOK(s)
  BY DEF Inv
<1>2. SessionTypes' /\ OnlyMoves(s) /\ LocksStay(s)
  BY <1>1 DEF SessionTypes, CountWithdrawn, Labels, Asking, OnlyMoves, LocksStay, locks
<1>3. pc[s] = "counting" /\ pc'[s] = "deciding" /\ UNCHANGED <<target, userLock>>
  BY <1>1 DEF SessionTypes, CountWithdrawn, locks
<1>4. SessionOK(s)'
  BY <1>1, <1>3 DEF SessionOK, Asking, Deciding
<1>5. UNCHANGED <<requests, wallets>>
  BY DEF CountWithdrawn
<1> QED BY <1>2, <1>4, <1>5, TablesStay DEF LocksStay

(* has_pending looks at the last request alone: no other one can be pending. *)
LEMMA NonePending ==
    ASSUME ConstantsOK, Inv, NEW u \in Partners, ~ HasPending(u),
           NEW r \in Requests, asker[r] = u, Pending(r)
    PROVE  FALSE
<1> DEFINE made == RequestsOf(u, {"pending", "approved", "rejected", "completed", "cancelled"})
<1>1. r \in made /\ \A q \in made : q \in Nat /\ r \in Nat /\ q <= r
  BY DEF ConstantsOK, Inv, RequestsOK, RequestsOf, Pending
<1>2. \E x \in made : \A y \in made : x >= y
  BY <1>1
<1>3. Max(made) \in made /\ \A y \in made : Max(made) >= y
  BY <1>2 DEF Max
<1>4. Max(made) = r
  <2>1. Max(made) >= r /\ Max(made) <= r /\ Max(made) \in Nat /\ r \in Nat
    BY <1>1, <1>3
  <2> QED BY <2>1
<1>5. ~ (made # {} /\ status[Max(made)] = "pending")
  BY DEF HasPending
<1> QED BY <1>1, <1>4, <1>5 DEF Pending

(* Nothing is pending, and stays so until the lock is gone. *)
LEMMA AcceptStep ==
    ASSUME ConstantsOK, Inv, NEW s \in Sessions, AcceptRequest(s)
    PROVE  Inv'
<1>1. SessionTypes /\ SessionOK(s) /\ target[s] \in Partners
  BY DEF Inv, SessionOK, AcceptRequest, Asking
<1>2. SessionTypes' /\ OnlyMoves(s) /\ LocksStay(s)
  BY <1>1 DEF SessionTypes, AcceptRequest, Labels, Asking, OnlyMoves, LocksStay, locks
<1>3. /\ pc[s] = "deciding" /\ pc'[s] = "creating"
      /\ UNCHANGED <<target, userLock, status, asker>>
  BY <1>1 DEF SessionTypes, AcceptRequest, locks, requests
<1>4. \A r \in Requests : asker[r] = target[s] => ~ Pending(r)
  BY <1>1, NonePending DEF AcceptRequest
<1>5. SessionOK(s)'
  BY <1>1, <1>3, <1>4 DEF SessionOK, Asking, Deciding, Pending
<1>6. UNCHANGED <<requests, wallets>>
  BY DEF AcceptRequest
<1> QED BY <1>2, <1>5, <1>6, TablesStay DEF LocksStay

(* A cabinet route begins: it has read nothing. *)
LEMMA DecideStep ==
    ASSUME ConstantsOK, Inv, BotSessions = {}, NEW s \in Sessions, NEW r \in Requests,
           NEW decision \in Decisions, Decide(s, r, decision)
    PROVE  Inv'
<1>1. SessionTypes /\ TableTypes /\ SessionOK(s)
  BY DEF Inv
<1>2. SessionTypes' /\ OnlyMoves(s) /\ LocksStay(s)
  BY <1>1 DEF SessionTypes, TableTypes, Decide, Labels, Deciding, OnlyMoves, LocksStay, locks
<1>3. /\ pc'[s] = "opening" /\ target'[s] = r /\ op'[s] = decision /\ seen'[s] = "unread"
      /\ status' = status /\ status[r] # "none"
  BY <1>1 DEF SessionTypes, Decide, requests
<1>4. SessionOK(s)'
  BY <1>3 DEF SessionOK, Asking, Deciding
<1>5. UNCHANGED <<requests, wallets>>
  BY DEF Decide
<1> QED BY <1>2, <1>4, <1>5, TablesStay DEF LocksStay

(* It reads the status under the lock of the request. *)
LEMMA LockRequestStep ==
    ASSUME ConstantsOK, Inv, NEW s \in Sessions, LockRequest(s)
    PROVE  Inv'
<1>1. /\ SessionTypes /\ TableTypes /\ SessionOK(s) /\ pc[s] = "opening"
      /\ target[s] \in Requests /\ seen[s] = "unread" /\ op[s] \in Decisions
      /\ status[target[s]] # "none"
  BY DEF Inv, SessionOK, LockRequest, Deciding
<1>2. SessionTypes' /\ OnlyMoves(s)
  BY <1>1 DEF SessionTypes, TableTypes, LockRequest, Labels, Deciding, OnlyMoves
<1>3. LocksStay(s)
  BY <1>1 DEF ConstantsOK, SessionTypes, LockRequest, LocksStay
<1>4. /\ pc'[s] = "checking" /\ UNCHANGED <<target, status, op>> /\ reqLock'[target[s]] = s
      /\ seen'[s] = status[target[s]]
  BY <1>1 DEF SessionTypes, LockRequest, requests
<1>5. SessionOK(s)'
  BY <1>1, <1>4 DEF SessionOK, Asking, Deciding
<1>6. UNCHANGED <<requests, wallets>>
  BY DEF LockRequest
<1> QED BY <1>2, <1>3, <1>5, <1>6, TablesStay DEF LocksStay

(* It reads the balance under the lock of the partner. *)
LEMMA LockWalletStep ==
    ASSUME ConstantsOK, Inv, NEW s \in Sessions, LockWallet(s)
    PROVE  Inv'
<1> DEFINE r == target[s]
<1>1. /\ SessionTypes /\ TableTypes /\ SessionOK(s) /\ pc[s] = "checking"
      /\ r \in Requests /\ seen[s] = "pending" /\ op[s] = "approve"
      /\ reqLock[r] = s /\ Pending(r) /\ asker[r] \in Partners
  BY DEF Inv, SessionOK, LockWallet, Deciding, RequestsOK, Pending
<1>2. SessionTypes' /\ OnlyMoves(s)
  BY <1>1 DEF SessionTypes, TableTypes, LockWallet, Labels, Deciding, OnlyMoves
<1>3. LocksStay(s)
  BY <1>1 DEF ConstantsOK, SessionTypes, LockWallet, LocksStay
<1>4. /\ pc'[s] = "debiting" /\ UNCHANGED <<target, status, asker, op, seen, reqLock, balance>>
      /\ userLock'[asker[r]] = s /\ funds'[s] = balance[asker[r]]
  BY <1>1 DEF SessionTypes, LockWallet, requests, wallets
<1>5. SessionOK(s)'
  BY <1>1, <1>4 DEF SessionOK, Asking, Deciding, Decisions, Pending
<1>6. UNCHANGED <<requests, wallets>>
  BY DEF LockWallet
<1> QED BY <1>2, <1>3, <1>5, <1>6, TablesStay DEF LocksStay

(* A session that gives up. *)
LEMMA GiveUpStep ==
    ASSUME ConstantsOK, Inv, NEW s \in Sessions, Return(s), UNCHANGED <<requests, wallets>>
    PROVE  Inv'
BY Returned, TablesStay DEF Inv

(* Earnings and purchases change no balance that somebody has locked. *)
LEMMA WalletStep ==
    ASSUME ConstantsOK, Inv, NEW u \in Partners, Earn(u) \/ Spend(u)
    PROVE  Inv'
<1>1. /\ UNCHANGED <<status, asker, amount, debits, reqLock, userLock>>
      /\ UNCHANGED <<pc, op, target, seen, asks, funds>>
      /\ \A v \in Partners \ {u} : balance'[v] = balance[v]
      /\ userLock[u] = Nobody
  BY DEF Inv, TableTypes, Earn, Spend, requests, locks, session
<1>2. TableTypes'
  BY <1>1 DEF Inv, TableTypes, Earn, Spend
<1>3. ASSUME NEW t \in Sessions PROVE RespectsLocksOf(t)
  <2>1. t # Nobody
    BY DEF ConstantsOK
  <2> QED BY <1>1, <2>1 DEF RespectsLocksOf, Pending
<1>4. Lasting /\ OnlyMoves(Nobody)
  BY <1>1 DEF Lasting, OnlyMoves
<1>5. \A t \in Sessions : SessionOK(t)'
  <2>1. \A t \in Sessions : t \in Sessions \ {Nobody}
    BY DEF ConstantsOK
  <2> QED BY <1>3, <1>4, <2>1, OthersKnow
<1>6. SessionTypes' /\ RequestsOK' /\ DebitedIffApproved'
  BY <1>1 DEF Inv, SessionTypes, RequestsOK, DebitedIffApproved, Pending
<1> QED BY <1>2, <1>5, <1>6 DEF Inv

(* The new request is the last one, and its partner has no other that is pending. *)
LEMMA CreateRequestStep ==
    ASSUME ConstantsOK, Inv, NEW s \in Sessions, NEW r \in Requests, CreateRequest(s, r)
    PROVE  Inv'
<1> DEFINE u == target[s]
<1>1. /\ SessionTypes /\ TableTypes /\ RequestsOK /\ DebitedIffApproved /\ SessionOK(s)
      /\ u \in Partners /\ userLock[u] = s
      /\ \A q \in Requests : asker[q] = u => ~ Pending(q)
  BY DEF Inv, SessionOK, CreateRequest, Asking
<1>2. /\ status[r] = "none" /\ status'[r] = "pending" /\ asker'[r] = u
      /\ \A q \in Requests \ {r} :
            status'[q] = status[q] /\ asker'[q] = asker[q]
      /\ \A q \in Requests : q < r => status[q] # "none"
      /\ UNCHANGED <<debits, earned, balance>>
  BY <1>1 DEF CreateRequest, TableTypes, wallets
<1>3. /\ SessionTypes' /\ SessionOK(s)' /\ OnlyMoves(s) /\ LocksStay(s)
  BY <1>1, Returned DEF CreateRequest, LocksStay
<1>4. TableTypes'
  BY <1>1 DEF TableTypes, SessionTypes, CreateRequest, Statuses, wallets
<1>5. \A q \in Requests : q \in Nat /\ (status[q] # "none" => q < r)
  <2>1. ASSUME NEW q \in Requests, status[q] # "none" PROVE q < r
    <3>1. q \in Nat /\ r \in Nat /\ ~ (r < q) /\ q # r
      BY <1>1, <1>2, <2>1 DEF ConstantsOK, RequestsOK
    <3> QED BY <3>1
  <2> QED BY <2>1 DEF ConstantsOK
<1>6. RequestsOK'
  <2>1. \A q \in Requests : status'[q] # "none" => asker'[q] \in Partners
    BY <1>1, <1>2 DEF RequestsOK
  <2>2. ASSUME NEW p \in Requests, NEW q \in Requests, p < q, status'[q] # "none"
        PROVE  status'[p] # "none"
    BY <1>1, <1>2, <2>2 DEF RequestsOK
  <2>3. ASSUME NEW p \in Requests, NEW q \in Requests,
               Pending(q)', status'[p] # "none", asker'[p] = asker'[q]
        PROVE  p <= q
    <3>1. CASE q = r
      BY <1>2, <1>5, <2>3, <3>1
    <3>2. CASE q # r
      <4>1. p # r
        BY <1>1, <1>2, <2>3, <3>2 DEF Pending
      <4> QED BY <1>1, <1>2, <2>3, <3>2, <4>1 DEF RequestsOK, Pending
    <3> QED BY <3>1, <3>2
  <2> QED BY <2>1, <2>2, <2>3 DEF RequestsOK
<1>7. DebitedIffApproved'
  BY <1>1, <1>2 DEF DebitedIffApproved
<1>8. Lasting
  BY <1>2 DEF Lasting
<1>9. ASSUME NEW t \in Sessions \ {s} PROVE SessionOK(t)'
  <2>1. RespectsLocksOf(t)
    BY <1>1, <1>2, <1>3 DEF RespectsLocksOf, LocksStay, Pending
  <2> QED BY <1>3, <1>8, <2>1, OthersKnow
<1> QED BY <1>3, <1>4, <1>6, <1>7, <1>9 DEF Inv

(* A decision that moves no money: the locked request still has the status that
   was looked at. *)
LEMMA ResolveStep ==
    ASSUME ConstantsOK, Inv, NEW s \in Sessions, Resolve(s)
    PROVE  Inv'
<1> DEFINE r == target[s]
<1>1. /\ SessionTypes /\ TableTypes /\ RequestsOK /\ DebitedIffApproved /\ SessionOK(s)
      /\ r \in Requests /\ reqLock[r] = s /\ status[r] = Required(op[s])
      /\ op[s] \in {"reject", "complete", "cancel"}
  BY DEF Inv, SessionOK, Resolve, Deciding, Decisions
<1>2. /\ status'[r] = Outcome(op[s]) /\ \A q \in Requests \ {r} : status'[q] = status[q]
      /\ UNCHANGED <<asker, amount, debits, earned, balance>>
  BY <1>1 DEF Resolve, TableTypes, wallets
<1>3. /\ status'[r] \in {"rejected", "completed", "cancelled"}
      /\ status[r] \in {"pending", "approved"}
      /\ status'[r] = "completed" <=> status[r] = "approved"
  BY <1>1, <1>2 DEF Required, Outcome
<1>4. /\ SessionTypes' /\ SessionOK(s)' /\ OnlyMoves(s) /\ LocksStay(s)
  BY <1>1, Returned DEF Resolve, LocksStay
<1>5. TableTypes'
  BY <1>1, <1>2, <1>3 DEF TableTypes, Resolve, Statuses
<1>6. RequestsOK'
  BY <1>1, <1>2, <1>3 DEF RequestsOK, Pending
<1>7. DebitedIffApproved'
  BY <1>1, <1>2, <1>3 DEF DebitedIffApproved
<1>8. Lasting
  BY <1>2, <1>3 DEF Lasting
<1>9. ASSUME NEW t \in Sessions \ {s} PROVE SessionOK(t)'
  <2>1. RespectsLocksOf(t)
    BY <1>1, <1>2, <1>3, <1>4 DEF RespectsLocksOf, LocksStay, Pending
  <2> QED BY <1>4, <1>8, <2>1, OthersKnow
<1> QED BY <1>4, <1>5, <1>6, <1>7, <1>9 DEF Inv

(* An approval: the request is still pending, so it has not been debited. *)
LEMMA ApproveStep ==
    ASSUME ConstantsOK, Inv, NEW s \in Sessions, Approve(s)
    PROVE  Inv'
<1> DEFINE r == target[s]
           u == asker[r]
<1>1. /\ SessionTypes /\ TableTypes /\ RequestsOK /\ DebitedIffApproved /\ SessionOK(s)
      /\ r \in Requests /\ reqLock[r] = s /\ Pending(r)
      /\ u \in Partners /\ userLock[u] = s
  BY DEF Inv, SessionOK, Approve, Deciding, RequestsOK
<1>2. /\ status'[r] = "approved" /\ \A q \in Requests \ {r} : status'[q] = status[q]
      /\ debits'[r] = debits[r] + 1 /\ \A q \in Requests \ {r} : debits'[q] = debits[q]
      /\ \A v \in Partners \ {u} : balance'[v] = balance[v]
      /\ UNCHANGED <<asker, amount, earned>>
  BY <1>1 DEF Approve, TableTypes
<1>3. /\ SessionTypes' /\ SessionOK(s)' /\ OnlyMoves(s) /\ LocksStay(s)
  BY <1>1, Returned DEF Approve, LocksStay
<1>4. TableTypes'
  <2>1. funds[s] - amount[r] \in Nat
    BY <1>1 DEF SessionTypes, TableTypes, Approve
  <2>2. /\ balance' = [balance EXCEPT ![u] = funds[s] - amount[r]]
        /\ debits' = [debits EXCEPT ![r] = @ + 1]
        /\ status' = [status EXCEPT ![r] = "approved"]
    BY DEF Approve
  <2>3. balance' \in [Partners -> Nat]
    BY <1>1, <2>1, <2>2 DEF TableTypes
  <2>4. debits' \in [Requests -> Nat] /\ status' \in [Requests -> Statuses]
    BY <1>1, <2>2 DEF TableTypes, Statuses
  <2> QED BY <1>1, <1>2, <2>3, <2>4 DEF TableTypes
<1>5. RequestsOK'
  BY <1>1, <1>2 DEF RequestsOK, Pending
<1>6. DebitedIffApproved'
  BY <1>1, <1>2 DEF DebitedIffApproved, Pending
<1>7. Lasting
  BY <1>1, <1>2 DEF Lasting
<1>8. ASSUME NEW t \in Sessions \ {s} PROVE SessionOK(t)'
  <2>1. RespectsLocksOf(t)
    BY <1>1, <1>2, <1>3 DEF RespectsLocksOf, LocksStay, Pending
  <2> QED BY <1>3, <1>7, <2>1, OthersKnow
<1> QED BY <1>3, <1>4, <1>5, <1>6, <1>8 DEF Inv

(* Every step keeps the invariant, where no session has loaded the request before. *)
LEMMA InvStep ==
    ASSUME ConstantsOK, BotSessions = {}, Inv, [Next]_vars
    PROVE  Inv'
<1>1. CASE UNCHANGED vars
  BY <1>1 DEF vars, requests, wallets, locks, session, Inv, TableTypes, SessionTypes,
              RequestsOK, DebitedIffApproved, SessionOK, Pending
<1>2. ASSUME NEW u \in Partners, Earn(u) \/ Spend(u) PROVE Inv'
  BY <1>2, WalletStep
<1>3. ASSUME NEW s \in Sessions, PartnerStep(s) PROVE Inv'
  <2>1. ASSUME NEW u \in Partners, NEW a \in Amounts, Ask(s, u, a) PROVE Inv'
    BY <2>1, AskStep
  <2>2. ASSUME RefuseRequest(s) PROVE Inv'
    BY <2>2, GiveUpStep DEF RefuseRequest
  <2> QED BY <1>3, <2>1, <2>2, LockPartnerStep, CountStep, AcceptStep, CreateRequestStep
          DEF PartnerStep
<1>4. ASSUME NEW s \in Sessions, DecisionStep(s) PROVE Inv'
  <2>1. ASSUME NEW r \in Requests, NEW decision \in Decisions, Decide(s, r, decision)
        PROVE  Inv'
    BY <2>1, DecideStep
  <2>2. ASSUME AlreadyProcessed(s) \/ RefuseApproval(s) PROVE Inv'
    BY <2>2, GiveUpStep DEF AlreadyProcessed, RefuseApproval
  <2> QED BY <1>4, <2>1, <2>2, LockRequestStep, ResolveStep, LockWalletStep, ApproveStep
          DEF DecisionStep
<1> QED BY <1>1, <1>2, <1>3, <1>4 DEF Next

(* So the invariant holds in every reachable state. *)
LEMMA InvAlways ==
    ASSUME ConstantsOK, BotSessions = {}
    PROVE  Spec => []Inv
<1>1. Init => Inv
  BY InvInit
<1>2. Inv /\ [Next]_vars => Inv'
  BY InvStep
<1> QED BY <1>1, <1>2, PTL DEF Spec

(* Decided in the cabinet, where no session has loaded the request before it locks
   it, a request is debited exactly as often as it is approved: never twice, and
   never rejected or cancelled with the money gone, however many administrators and
   tabs decide at once. *)
THEOREM DebitedIffApprovedAlways ==
    ASSUME ConstantsOK, BotSessions = {}
    PROVE  Spec => []DebitedIffApproved
<1>1. Inv => DebitedIffApproved
  BY DEF Inv
<1> QED BY <1>1, InvAlways, PTL

(* No balance is ever negative, although the balance is checked before the debit. *)
THEOREM BalancesCovered ==
    ASSUME ConstantsOK, BotSessions = {}
    PROVE  Spec => [](balance \in [Partners -> Nat])
<1>1. Inv => balance \in [Partners -> Nat]
  BY DEF Inv, TableTypes
<1> QED BY <1>1, InvAlways, PTL

(* However many tabs a partner asks from, one request of his at most is pending:
   it is the last one he made, so has_pending, which looks at no other, is right. *)
LEMMA OnePendingOf ==
    ASSUME ConstantsOK, Inv
    PROVE  \A u \in Partners : Cardinality(RequestsOf(u, {"pending"})) <= 1
<1> SUFFICES ASSUME NEW u \in Partners
             PROVE  Cardinality(RequestsOf(u, {"pending"})) <= 1
  OBVIOUS
<1>1. CASE RequestsOf(u, {"pending"}) = {}
  BY <1>1, FS_EmptySet
<1>2. ASSUME NEW r \in RequestsOf(u, {"pending"})
      PROVE  RequestsOf(u, {"pending"}) = {r}
  <2>1. ASSUME NEW q \in RequestsOf(u, {"pending"}) PROVE q = r
    <3>1. q \in Nat /\ r \in Nat /\ q <= r /\ r <= q
      BY DEF ConstantsOK, Inv, RequestsOK, RequestsOf, Pending
    <3> QED BY <3>1
  <2> QED BY <2>1
<1>3. CASE RequestsOf(u, {"pending"}) # {}
  <2>1. PICK r : r \in RequestsOf(u, {"pending"})
    BY <1>3
  <2>2. RequestsOf(u, {"pending"}) = {r}
    BY <1>2, <2>1
  <2>3. Cardinality({r}) = 1
    BY FS_Singleton
  <2> QED BY <2>2, <2>3
<1> QED BY <1>1, <1>3

-----------------------------------------------------------------------------
(***************************************************************************)
(* Nobody withdraws more than he has earned.  The two sums are read one    *)
(* after another, and the request is created later still: what a session   *)
(* has counted stays true, because an approval needs the partner's lock,   *)
(* which the session holds, and a completion does not change the sum.      *)
(***************************************************************************)
Settled(u) == RequestsOf(u, {"approved", "completed"})
Spoken(u) == RequestsOf(u, {"pending", "approved", "completed"})

Counted(s) ==
    /\ pc[s] \in {"deciding", "creating"} => withdrawn[s] = SumOf(amount, Settled(target[s]))
    /\ pc[s] = "creating" => asks[s] + withdrawn[s] <= earned[target[s]]

Within == \A u \in Partners : SumOf(amount, Spoken(u)) <= earned[u]

SumInv == /\ Within
          /\ withdrawn \in [Sessions -> Nat]
          /\ \A s \in Sessions : Counted(s)

(* What the operators of the module sum up. *)
LEMMA TotalIs == \A rs : Total(rs) = SumOf(amount, rs)
BY DEF Total, SumOf

(* The sums over a partner's requests are natural numbers, and what is settled is part
   of what is spoken for. *)
LEMMA SumsOf ==
    ASSUME IsFiniteSet(Requests), TableTypes, NEW u, NEW statuses
    PROVE  /\ RequestsOf(u, statuses) \in SUBSET Requests
           /\ IsFiniteSet(RequestsOf(u, statuses))
           /\ SumOf(amount, RequestsOf(u, statuses)) \in Nat
           /\ SumOf(amount, Settled(u)) <= SumOf(amount, Spoken(u))
<1>1. ASSUME NEW v, NEW some
      PROVE  /\ RequestsOf(v, some) \in SUBSET Requests
             /\ IsFiniteSet(RequestsOf(v, some))
             /\ \A r \in RequestsOf(v, some) : amount[r] \in Nat
  BY FS_Subset DEF RequestsOf, TableTypes
<1>2. SumOf(amount, RequestsOf(u, statuses)) \in Nat
  BY <1>1, SumType
<1>3. Settled(u) \in SUBSET Spoken(u)
  BY DEF Settled, Spoken, RequestsOf
<1>4. SumOf(amount, Settled(u)) <= SumOf(amount, Spoken(u))
  BY <1>1, <1>3, SumOfPart DEF Settled, Spoken
<1> QED BY <1>1, <1>2, <1>4

(* A step of s that leaves the requests alone keeps the sums. *)
LEMMA SumsStay ==
    ASSUME SumInv, NEW s \in Sessions, UNCHANGED <<requests, earned>>,
           \A t \in Sessions \ {s} :
               /\ pc'[t] = pc[t] /\ target'[t] = target[t]
               /\ asks'[t] = asks[t] /\ withdrawn'[t] = withdrawn[t],
           withdrawn' \in [Sessions -> Nat], Counted(s)'
    PROVE  SumInv'
<1>1. UNCHANGED <<status, asker, amount>>
  BY DEF requests
<1>2. \A u : Settled(u)' = Settled(u) /\ Spoken(u)' = Spoken(u)
  BY <1>1 DEF Settled, Spoken, RequestsOf
<1>3. \A u : /\ SumOf(amount, Settled(u))' = SumOf(amount, Settled(u))
             /\ SumOf(amount, Spoken(u))' = SumOf(amount, Spoken(u))
  BY <1>1, <1>2
<1>4. Within'
  BY <1>3 DEF SumInv, Within
<1>5. ASSUME NEW t \in Sessions \ {s} PROVE Counted(t)'
  BY <1>2, <1>1 DEF SumInv, Counted
<1> QED BY <1>4, <1>5 DEF SumInv

(* A session that returns has nothing left to remember. *)
LEMMA SumsReturn ==
    ASSUME SessionTypes, SumInv, NEW s \in Sessions, Return(s)
    PROVE  /\ Counted(s)' /\ withdrawn' \in [Sessions -> Nat]
           /\ pc'[s] = "idle"
           /\ \A t \in Sessions \ {s} :
                 /\ pc'[t] = pc[t] /\ target'[t] = target[t]
                 /\ asks'[t] = asks[t] /\ withdrawn'[t] = withdrawn[t]
BY DEF SessionTypes, SumInv, Return, Counted

(* Every step keeps the sums. *)
LEMMA SumStep ==
    ASSUME ConstantsOK, IsFiniteSet(Requests), Inv, Inv', SumInv, [Next]_vars
    PROVE  SumInv'
<1>1. /\ TableTypes /\ TableTypes' /\ SessionTypes /\ withdrawn \in [Sessions -> Nat]
      /\ \A t \in Sessions : SessionOK(t) /\ Counted(t)
  BY DEF Inv, SumInv
<1>2. CASE UNCHANGED vars
  BY <1>2 DEF vars, requests, wallets, session, SumInv, Within, Counted, Settled, Spoken, RequestsOf
<1>3. ASSUME NEW u \in Partners, Earn(u) \/ Spend(u) PROVE SumInv'
  <2>1. /\ UNCHANGED <<status, asker, amount, pc, target, asks, withdrawn>>
        /\ \A v \in Partners : earned[v] <= earned'[v] /\ earned[v] \in Nat /\ earned'[v] \in Nat
    BY <1>1, <1>3 DEF Earn, Spend, requests, session, TableTypes
  <2>2. ASSUME NEW v
        PROVE  /\ SumOf(amount, Settled(v))' = SumOf(amount, Settled(v))
               /\ SumOf(amount, Spoken(v))' = SumOf(amount, Spoken(v))
               /\ SumOf(amount, Spoken(v)) \in Nat
    <3>1. Settled(v)' = Settled(v) /\ Spoken(v)' = Spoken(v)
      BY <2>1 DEF Settled, Spoken, RequestsOf
    <3>2. SumOf(amount, Spoken(v)) \in Nat
      BY <1>1, SumsOf DEF Spoken
    <3> QED BY <2>1, <3>1, <3>2
  <2>3. ASSUME NEW v \in Partners PROVE SumOf(amount, Spoken(v))' <= earned'[v]
    <3>1. SumOf(amount, Spoken(v)) <= earned[v]
      BY DEF SumInv, Within
    <3>2. earned[v] <= earned'[v] /\ earned[v] \in Nat /\ earned'[v] \in Nat
      BY <2>1
    <3>3. SumOf(amount, Spoken(v))' = SumOf(amount, Spoken(v)) /\ SumOf(amount, Spoken(v)) \in Nat
      BY <2>2
    <3> QED BY <3>1, <3>2, <3>3
  <2>4. ASSUME NEW s \in Sessions PROVE Counted(s)'
    <3>1. pc[s] = "creating" => target[s] \in Partners
      BY <1>1 DEF SessionOK, Asking
    <3>2. asks[s] \in Nat /\ withdrawn[s] \in Nat
      BY <1>1 DEF SessionTypes
    <3>3. pc[s] = "creating" => asks[s] + withdrawn[s] <= earned'[target[s]]
      BY <1>1, <2>1, <3>1, <3>2 DEF Counted
    <3>4. pc[s] \in {"deciding", "creating"} =>
              withdrawn[s] = SumOf(amount, Settled(target[s]))'
      BY <1>1, <2>1, <2>2 DEF Counted, Settled, RequestsOf
    <3> QED BY <2>1, <3>3, <3>4 DEF Counted
  <2> QED BY <1>1, <2>1, <2>3, <2>4 DEF SumInv, Within
<1>4. ASSUME NEW s \in Sessions, Return(s), UNCHANGED <<requests, wallets>> PROVE SumInv'
  BY <1>1, <1>4, SumsReturn, SumsStay DEF wallets
<1>5. ASSUME NEW s \in Sessions, pc'[s] \notin {"deciding", "creating"},
             UNCHANGED <<requests, earned, withdrawn>>,
             \A t \in Sessions \ {s} :
                 pc'[t] = pc[t] /\ target'[t] = target[t] /\ asks'[t] = asks[t]
      PROVE  SumInv'
  <2>1. Counted(s)'
    BY <1>5 DEF Counted
  <2> QED BY <1>1, <1>5, <2>1, SumsStay
<1>6. ASSUME NEW s \in Sessions, NEW u \in Partners, NEW a \in Amounts, Ask(s, u, a)
      PROVE  SumInv'
  BY <1>1, <1>5, <1>6 DEF Ask, SessionTypes, wallets
<1>7. ASSUME NEW s \in Sessions, LockPartner(s) PROVE SumInv'
  BY <1>1, <1>5, <1>7 DEF LockPartner, SessionTypes, wallets
<1>8. ASSUME NEW s \in Sessions, CountWithdrawn(s) PROVE SumInv'
  <2>1. /\ withdrawn' = [withdrawn EXCEPT ![s] = SumOf(amount, Settled(target[s]))]
        /\ UNCHANGED <<requests, wallets, target, asks>>
    BY <1>8, TotalIs DEF CountWithdrawn, Settled
  <2>2. SumOf(amount, Settled(target[s])) \in Nat
    BY <1>1, SumsOf DEF Settled
  <2>3. pc'[s] = "deciding" /\ \A t \in Sessions \ {s} : pc'[t] = pc[t]
    BY <1>1, <1>8 DEF CountWithdrawn, SessionTypes
  <2>4. withdrawn' \in [Sessions -> Nat]
    BY <1>1, <2>1, <2>2
  <2>5. Counted(s)'
    BY <1>1, <2>1, <2>3 DEF Counted, Settled, RequestsOf, requests
  <2>6. \A t \in Sessions \ {s} : withdrawn'[t] = withdrawn[t]
    BY <1>1, <2>1
  <2> QED BY <2>1, <2>3, <2>4, <2>5, <2>6, SumsStay DEF wallets
<1>9. ASSUME NEW s \in Sessions, AcceptRequest(s) PROVE SumInv'
  <2> DEFINE u == target[s]
  <2>1. /\ pc[s] = "deciding" /\ asks[s] <= Available(s)
        /\ UNCHANGED <<requests, wallets, target, asks, withdrawn>>
    BY <1>9 DEF AcceptRequest
  <2>2. pc'[s] = "creating" /\ \A t \in Sessions \ {s} : pc'[t] = pc[t]
    BY <1>1, <1>9 DEF AcceptRequest, SessionTypes
  <2>3. u \in Partners /\ withdrawn[s] = SumOf(amount, Settled(u))
    BY <1>1, <2>1 DEF SessionOK, Asking, Counted
  <2>4. /\ SumOf(amount, Spoken(u)) <= earned[u] /\ SumOf(amount, Spoken(u)) \in Nat
        /\ SumOf(amount, Settled(u)) <= SumOf(amount, Spoken(u))
        /\ SumOf(amount, RequestsOf(u, {"pending"})) \in Nat
        /\ withdrawn[s] \in Nat /\ earned[u] \in Nat /\ asks[s] \in Nat /\ funds[s] \in Nat
    BY <1>1, <2>3, SumsOf DEF SumInv, Within, Spoken, TableTypes, SessionTypes
  <2>5. RequestsOf(u, {"pending"}) = {}
    <3>1. SessionOK(s)'
      BY DEF Inv
    <3>2. \A r \in Requests : asker[r] = u => status[r] # "pending"
      BY <2>1, <2>2, <3>1 DEF SessionOK, Pending, requests
    <3> QED BY <3>2 DEF RequestsOf
  <2>6. SumOf(amount, RequestsOf(u, {"pending"})) = 0
    BY <2>5, SumEmpty
  <2>7. asks[s] + withdrawn[s] <= earned[u]
    <3> DEFINE left == earned[u] - withdrawn[s] - 0
    <3>1. Available(s) = IF left < 0 THEN 0 ELSE IF funds[s] < left THEN funds[s] ELSE left
      BY <2>6, TotalIs DEF Available
    <3> QED BY <2>1, <2>3, <2>4, <3>1
  <2>8. Counted(s)'
    <3>1. Settled(u)' = Settled(u)
      BY <2>1 DEF requests, Settled, RequestsOf
    <3> QED BY <2>1, <2>2, <2>3, <2>7, <3>1 DEF Counted, requests, wallets
  <2> QED BY <1>1, <2>1, <2>2, <2>8, SumsStay DEF wallets
<1>10. ASSUME NEW s \in Sessions, NEW r \in Requests, NEW decision, Decide(s, r, decision)
       PROVE  SumInv'
  BY <1>1, <1>5, <1>10 DEF Decide, SessionTypes, wallets
<1>11. ASSUME NEW s \in Sessions, LockRequest(s) \/ LockWallet(s) PROVE SumInv'
  BY <1>1, <1>5, <1>11 DEF LockRequest, LockWallet, SessionTypes, wallets
<1>12. ASSUME NEW s \in Sessions, NEW r \in Requests, CreateRequest(s, r) PROVE SumInv'
  <2>1. PICK u : u = target[s]
    OBVIOUS
  <2>2. /\ pc[s] = "creating" /\ status[r] = "none" /\ Return(s)
        /\ UNCHANGED <<earned>>
        /\ status' = [status EXCEPT ![r] = "pending"]
        /\ asker' = [asker EXCEPT ![r] = u]
        /\ amount' = [amount EXCEPT ![r] = asks[s]]
    BY <1>12, <2>1 DEF CreateRequest, wallets
  <2>3. /\ u \in Partners /\ withdrawn[s] = SumOf(amount, Settled(u))
        /\ asks[s] + withdrawn[s] <= earned[u] /\ asks[s] \in Nat /\ withdrawn[s] \in Nat
        /\ \A q \in Requests : asker[q] = u => status[q] # "pending"
    BY <1>1, <2>1, <2>2 DEF SessionOK, Asking, Counted, Pending, SessionTypes
  <2>4. \A v : /\ r \notin Settled(v) /\ r \notin Spoken(v) /\ Settled(v)' = Settled(v)
               /\ v # u => Spoken(v)' = Spoken(v)
    BY <1>1, <2>2 DEF Settled, Spoken, RequestsOf, TableTypes
  <2>5. Spoken(u)' = Settled(u) \cup {r}
    BY <1>1, <2>2, <2>3 DEF Settled, Spoken, RequestsOf, TableTypes
  <2>6. \A q \in Requests : q # r => amount'[q] = amount[q]
    BY <1>1, <2>2 DEF TableTypes
  <2>7. amount'[r] = asks[s]
    BY <1>1, <2>2 DEF TableTypes
  <2>8. ASSUME NEW v
        PROVE  /\ Settled(v) \in SUBSET Requests /\ IsFiniteSet(Settled(v))
               /\ Spoken(v) \in SUBSET Requests /\ IsFiniteSet(Spoken(v))
    BY <1>1, SumsOf DEF Settled, Spoken
  <2>9. ASSUME NEW v PROVE SumOf(amount', Settled(v)) = SumOf(amount, Settled(v))
    <3>1. \A q \in Settled(v) : amount'[q] = amount[q]
      BY <2>4, <2>6, <2>8
    <3> QED BY <2>8, <3>1, SumSame
  <2>10. ASSUME NEW v \in Partners PROVE SumOf(amount', Spoken(v)') <= earned'[v]
    <3>1. CASE v = u
      <4>1. \A q \in Settled(u) \cup {r} : amount'[q] \in Int
        BY <1>1, <2>8 DEF TableTypes
      <4>2. SumOf(amount', Settled(u) \cup {r}) = amount'[r] + SumOf(amount', Settled(u))
        BY <2>4, <2>8, <4>1, SumWith
      <4> QED BY <2>2, <2>3, <2>5, <2>7, <2>9, <3>1, <4>2
    <3>2. CASE v # u
      <4>1. \A q \in Spoken(v) : amount'[q] = amount[q]
        BY <2>4, <2>6, <2>8
      <4>2. SumOf(amount', Spoken(v)) = SumOf(amount, Spoken(v))
        BY <2>8, <4>1, SumSame
      <4> QED BY <2>2, <2>4, <3>2, <4>2 DEF SumInv, Within
    <3> QED BY <3>1, <3>2
  <2>11. ASSUME NEW t \in Sessions PROVE Counted(t)'
    <3>1. CASE t = s
      BY <1>1, <2>2, <3>1, SumsReturn
    <3>2. CASE t # s
      <4>1. /\ pc'[t] = pc[t] /\ target'[t] = target[t]
            /\ asks'[t] = asks[t] /\ withdrawn'[t] = withdrawn[t]
        BY <1>1, <2>2, <3>2, SumsReturn
      <4>2. Settled(target[t])' = Settled(target[t])
        BY <2>4, <4>1 DEF Settled, RequestsOf
      <4> QED BY <1>1, <2>2, <2>4, <2>9, <4>1, <4>2 DEF Counted
    <3> QED BY <3>1, <3>2
  <2> QED BY <1>1, <2>2, <2>10, <2>11, SumsReturn DEF SumInv, Within
<1>13. ASSUME NEW s \in Sessions, Return(s), UNCHANGED <<asker, amount, earned>>,
              \A u \in Partners : Spoken(u)' \in SUBSET Spoken(u),
              \A t \in Sessions \ {s} : pc[t] \in {"deciding", "creating"} =>
                  Settled(target[t])' = Settled(target[t])
       PROVE  SumInv'
  <2>1. ASSUME NEW u \in Partners PROVE SumOf(amount, Spoken(u)') <= earned[u]
    <3>1. /\ IsFiniteSet(Spoken(u)) /\ Spoken(u)' \in SUBSET Spoken(u)
          /\ \A r \in Spoken(u) : amount[r] \in Nat
      <4>1. IsFiniteSet(Spoken(u)) /\ Spoken(u) \in SUBSET Requests
        BY <1>1, SumsOf DEF Spoken
      <4> QED BY <1>1, <1>13, <4>1 DEF TableTypes
    <3>2. SumOf(amount, Spoken(u)') <= SumOf(amount, Spoken(u))
      BY <3>1, SumOfPart
    <3>3. SumOf(amount, Spoken(u)') \in Nat /\ SumOf(amount, Spoken(u)) \in Nat
      BY <3>1, FS_Subset, SumType
    <3>4. SumOf(amount, Spoken(u)) <= earned[u] /\ earned[u] \in Nat
      BY <1>1 DEF SumInv, Within, TableTypes
    <3> QED BY <3>2, <3>3, <3>4
  <2>2. ASSUME NEW t \in Sessions \ {s} PROVE Counted(t)'
    <3>1. /\ pc'[t] = pc[t] /\ target'[t] = target[t]
          /\ asks'[t] = asks[t] /\ withdrawn'[t] = withdrawn[t]
      BY <1>1, <1>13, SumsReturn
    <3>2. pc[t] \in {"deciding", "creating"} => Settled(target[t])' = Settled(target[t])
      BY <1>13
    <3> QED BY <1>1, <1>13, <3>1, <3>2 DEF Counted
  <2>3. Counted(s)' /\ withdrawn' \in [Sessions -> Nat]
    BY <1>1, <1>13, SumsReturn
  <2> QED BY <1>13, <2>1, <2>2, <2>3 DEF SumInv, Within
<1>14. ASSUME NEW s \in Sessions, Resolve(s) PROVE SumInv'
  <2> DEFINE r == target[s]
  <2>1. /\ pc[s] = "checking" /\ op[s] # "approve" /\ seen[s] = Required(op[s]) /\ Return(s)
        /\ status' = [status EXCEPT ![r] = Outcome(op[s])] /\ UNCHANGED <<asker, amount, earned>>
    BY <1>14 DEF Resolve, wallets
  <2>2. r \in Requests /\ op[s] \in Decisions /\ seen[s] = status[r]
    BY <1>1, <2>1 DEF SessionOK, Deciding
  <2>3. \/ status[r] = "approved" /\ Outcome(op[s]) = "completed"
        \/ status[r] = "pending" /\ Outcome(op[s]) \in {"rejected", "cancelled"}
    BY <2>1, <2>2 DEF Required, Outcome, Decisions
  <2>4. \A u : Spoken(u)' \in SUBSET Spoken(u) /\ Settled(u)' = Settled(u)
    BY <1>1, <2>1, <2>2, <2>3 DEF Spoken, Settled, RequestsOf, TableTypes
  <2>5. \A t \in Sessions \ {s} : target'[t] = target[t]
    BY <1>1, <2>1, SumsReturn
  <2>6. \A t \in Sessions \ {s} : Settled(target[t])' = Settled(target[t])
    BY <2>4, <2>5 DEF Settled, RequestsOf
  <2> QED BY <1>13, <2>1, <2>4, <2>6
<1>15. ASSUME NEW s \in Sessions, Approve(s) PROVE SumInv'
  <2> DEFINE r == target[s]
  <2>1. /\ pc[s] = "debiting" /\ Return(s) /\ UNCHANGED <<asker, amount, earned>>
        /\ status' = [status EXCEPT ![r] = "approved"]
    BY <1>15 DEF Approve
  <2>2. r \in Requests /\ status[r] = "pending" /\ userLock[asker[r]] = s
    BY <1>1, <2>1 DEF SessionOK, Deciding, Pending
  <2>3. \A u : Spoken(u)' \in SUBSET Spoken(u) /\ (u # asker[r] => Settled(u)' = Settled(u))
    BY <1>1, <2>1, <2>2 DEF Spoken, Settled, RequestsOf, TableTypes
  <2>4. ASSUME NEW t \in Sessions \ {s}, pc[t] \in {"deciding", "creating"}
        PROVE  Settled(target[t])' = Settled(target[t])
    <3>1. userLock[target[t]] = t
      BY <1>1, <2>4 DEF SessionOK, Asking
    <3>2. target[t] # asker[r] /\ target'[t] = target[t]
      BY <1>1, <2>1, <2>2, <3>1, SumsReturn
    <3> QED BY <2>3, <3>2 DEF Settled, RequestsOf
  <2> QED BY <1>13, <2>1, <2>3, <2>4
<1>16. ASSUME NEW s \in Sessions, RefuseRequest(s) \/ AlreadyProcessed(s) \/ RefuseApproval(s)
       PROVE  SumInv'
  BY <1>4, <1>16 DEF RefuseRequest, AlreadyProcessed, RefuseApproval
<1> QED
  BY <1>2, <1>3, <1>6, <1>7, <1>8, <1>9, <1>10, <1>11, <1>12, <1>14, <1>15, <1>16
     DEF Next, PartnerStep, DecisionStep

(* However many tabs a partner asks from, and whoever decides meanwhile, one request of
   his at most awaits a decision, and what he has withdrawn or asked for is covered by
   what he has earned. *)
THEOREM WithinEarningsAlways ==
    ASSUME ConstantsOK, IsFiniteSet(Requests), BotSessions = {}
    PROVE  Spec => []WithinEarnings
<1>1. Init => SumInv
  <2> SUFFICES ASSUME Init PROVE SumInv
    OBVIOUS
  <2>1. ASSUME NEW u \in Partners PROVE SumOf(amount, Spoken(u)) <= earned[u]
    <3>1. Spoken(u) = {}
      BY DEF Init, Spoken, RequestsOf
    <3>2. SumOf(amount, Spoken(u)) = 0 /\ earned[u] = 0
      BY <3>1, SumEmpty DEF Init
    <3> QED BY <3>2
  <2> QED BY <2>1 DEF Init, SumInv, Within, Counted
<1>2. Inv /\ Inv' /\ SumInv /\ [Next]_vars => SumInv'
  BY SumStep
<1>3. Inv /\ [Next]_vars => Inv'
  BY InvStep
<1>4. Init => Inv
  BY InvInit
<1>5. Inv /\ SumInv => WithinEarnings
  BY OnePendingOf, TotalIs DEF SumInv, Within, WithinEarnings, Spoken
<1> QED BY <1>1, <1>2, <1>3, <1>4, <1>5, PTL DEF Spec

=============================================================================
