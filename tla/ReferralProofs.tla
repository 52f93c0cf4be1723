---------------------------- MODULE ReferralProofs ----------------------------
(***************************************************************************)
(* Proofs about the referral program, the promo codes and the merge of     *)
(* accounts, for any number of users, sessions and faults: what top-ups    *)
(* earn, who is attached to whom, and the merge; payouts and promo codes   *)
(* are proved in WithdrawalProofs and PromocodeProofs, and here carried    *)
(* over to the composition.                                                *)
(*                                                                         *)
(* The theorems from the visits on are stated of AllSpec, the behaviours   *)
(* of the composition: a step of it is a step of the part in hand or       *)
(* leaves its variables alone.                                             *)
(***************************************************************************)
EXTENDS ReferralProgram, Sums

-----------------------------------------------------------------------------
(***************************************************************************)
(* What top-ups earn: whatever the statistics count was paid, and the      *)
(* first bonus is paid once.                                               *)
(***************************************************************************)

(* The top-ups of u whose session stands at a label. *)
At(u, label) == {t \in Topups : Owner[t] = u /\ pc[t] = label}

(* Whatever has been paid and not recorded yet belongs to a session that is about
   to record it: so many rows are still owed. *)
Counted ==
    \A u \in Users :
        /\ IsFiniteSet(At(u, "recording"))
        /\ commissionRows[u] + Cardinality(At(u, "recording")) <= commissions[u]
        /\ IsFiniteSet(At(u, "recordingFirst"))
        /\ firstRows[u] + Cardinality(At(u, "recordingFirst")) <= inviterBonuses[u]

(* The sessions that have won the first bonus of their user. *)
Giving == {"bonus", "inviting", "recordingFirst"}

(* Outside of the promo group's commit, a session that decides holds its user's
   lock and has an up-to-date copy of the flag; one session at most gives. *)
SessionOK(t) ==
    /\ pc[t] = "rewarding" =>
          userLock[Owner[t]] = t /\ seesFirst[t] = hasMadeFirstTopup[Owner[t]]
    /\ pc[t] \in Giving =>
          /\ hasMadeFirstTopup[Owner[t]]
          /\ \A s \in Topups \ {t} : Owner[s] = Owner[t] => pc[s] \notin Giving
    /\ pc[t] = "bonus" => bonuses[Owner[t]] = 0
    /\ pc[t] \in {"bonus", "inviting"} => inviterBonuses[Owner[t]] = 0

(* Before the flag is set nothing has been given. *)
NothingEarly ==
    \A u \in Users \ GroupEarners :
        ~ hasMadeFirstTopup[u] => bonuses[u] = 0 /\ inviterBonuses[u] = 0

OnceInv ==
    /\ FirstBonusOnce /\ NothingEarly
    /\ \A t \in Topups : Owner[t] \notin GroupEarners => SessionOK(t)

-----------------------------------------------------------------------------
(***************************************************************************)
(* Types.                                                                  *)
(***************************************************************************)

(* A counter that is raised stays one. *)
LEMMA IncType ==
    ASSUME NEW f \in [Users -> Nat], NEW u \in Users
    PROVE  /\ Inc(f, u) \in [Users -> Nat]
           /\ Inc(f, u)[u] = f[u] + 1
           /\ \A v \in Users \ {u} : Inc(f, u)[v] = f[v]
BY DEF Inc

Holding == {"rewarding", "paying"}

(* The locks after a commit or rollback: a lock that is left has its old holder. *)
LEMMA UnlockType ==
    ASSUME TypeOK, NEW t \in Topups, Unlock(t)
    PROVE  /\ userLock' \in [Users -> Topups \cup {None}]
           /\ \A u \in Users : \/ userLock'[u] = None
                               \/ userLock'[u] = userLock[u] /\ userLock[u] # t
           /\ \A u \in Users : userLock[u] # t => userLock'[u] = userLock[u]
BY DEF TypeOK, Unlock

(* A session that moves on with no lock, or keeps what it has on the way to the
   payment of a commission. *)
LEMMA MoveTypes ==
    ASSUME TypeOK, NEW t \in Topups, NEW label \in PcStates, Goto(t, label),
           \/ Unlock(t)
           \/ userLock' = userLock /\ (pc[t] \notin Holding \/ label \in Holding)
           \/ userLock' = [userLock EXCEPT ![Owner[t]] = t] /\ label \in Holding
    PROVE  /\ pc' \in [Topups -> PcStates]
           /\ userLock' \in [Users -> Topups \cup {None}]
           /\ \A u \in Users :
                 userLock'[u] = None \/ pc'[userLock'[u]] \in {"rewarding", "paying"}
<1> USE ReferralAssumption
<1>1. pc' \in [Topups -> PcStates] /\ pc'[t] = label /\ \A s \in Topups \ {t} : pc'[s] = pc[s]
  BY DEF TypeOK, Goto
<1>2. CASE Unlock(t)
  BY <1>1, <1>2, UnlockType DEF TypeOK
<1>3. CASE userLock' = userLock /\ (pc[t] \notin Holding \/ label \in Holding)
  BY <1>1, <1>3 DEF TypeOK, Holding
<1>4. CASE userLock' = [userLock EXCEPT ![Owner[t]] = t] /\ label \in Holding
  BY <1>1, <1>4 DEF TypeOK, Holding
<1> QED BY <1>2, <1>3, <1>4

(* Every step keeps the types. *)
LEMMA TypeStep == ASSUME TypeOK, [Next]_vars PROVE TypeOK'
<1> USE ReferralAssumption
<1>1. CASE UNCHANGED vars
  BY <1>1 DEF vars, credits, rows, TypeOK
<1>2. ASSUME NEW t \in Topups,
             \/ Credit(t) \/ CheckPromoGroup(t) \/ NotReferred(t)
             \/ LimitExhausted(t) \/ CommissionDue(t) \/ PayCommission(t)
             \/ RecordCommission(t) \/ FirstTopup(t) \/ PayBonus(t) \/ PayInviter(t)
             \/ RecordFirst(t) \/ DatabaseError(t) \/ DeadlockDetected(t)
      PROVE  TypeOK'
  <2>1. \E label \in PcStates :
          /\ Goto(t, label)
          /\ \/ Unlock(t)
             \/ userLock' = userLock /\ (pc[t] \notin Holding \/ label \in Holding)
             \/ userLock' = [userLock EXCEPT ![Owner[t]] = t] /\ label \in Holding
    BY <1>2 DEF Credit, CheckPromoGroup, NotReferred, LimitExhausted, CommissionDue,
                PayCommission, RecordCommission, FirstTopup, PayBonus, PayInviter,
                RecordFirst, DatabaseError, DeadlockDetected, Abort, PcStates, Holding
  <2>2. /\ pc' \in [Topups -> PcStates]
        /\ userLock' \in [Users -> Topups \cup {None}]
        /\ \A u \in Users : userLock'[u] = None \/ pc'[userLock'[u]] \in {"rewarding", "paying"}
    BY <2>1, MoveTypes
  <2>3. /\ bonuses' \in {bonuses, Inc(bonuses, Owner[t])}
        /\ inviterBonuses' \in {inviterBonuses, Inc(inviterBonuses, Owner[t])}
        /\ commissions' \in {commissions, Inc(commissions, Owner[t])}
        /\ firstRows' \in {firstRows, Inc(firstRows, Owner[t])}
        /\ commissionRows' \in {commissionRows, Inc(commissionRows, Owner[t])}
        /\ hasMadeFirstTopup' \in {hasMadeFirstTopup,
                                   [hasMadeFirstTopup EXCEPT ![Owner[t]] = TRUE]}
        /\ seesFirst' \in {seesFirst,
                           [seesFirst EXCEPT ![t] = hasMadeFirstTopup[Owner[t]]]}
    BY <1>2 DEF Credit, CheckPromoGroup, NotReferred, LimitExhausted, CommissionDue,
                PayCommission, RecordCommission, FirstTopup, PayBonus, PayInviter,
                RecordFirst, DatabaseError, DeadlockDetected, Abort, credits, rows
  <2>4. /\ bonuses' \in [Users -> Nat] /\ inviterBonuses' \in [Users -> Nat]
        /\ commissions' \in [Users -> Nat] /\ firstRows' \in [Users -> Nat]
        /\ commissionRows' \in [Users -> Nat]
    <3>1. /\ bonuses \in [Users -> Nat] /\ inviterBonuses \in [Users -> Nat]
          /\ commissions \in [Users -> Nat] /\ firstRows \in [Users -> Nat]
          /\ commissionRows \in [Users -> Nat] /\ Owner[t] \in Users
      BY DEF TypeOK
    <3>2. /\ Inc(bonuses, Owner[t]) \in [Users -> Nat]
          /\ Inc(inviterBonuses, Owner[t]) \in [Users -> Nat]
          /\ Inc(commissions, Owner[t]) \in [Users -> Nat]
          /\ Inc(firstRows, Owner[t]) \in [Users -> Nat]
          /\ Inc(commissionRows, Owner[t]) \in [Users -> Nat]
      BY <3>1, IncType
    <3> QED BY <2>3, <3>1, <3>2
  <2>5. hasMadeFirstTopup' \in [Users -> BOOLEAN] /\ seesFirst' \in [Topups -> BOOLEAN]
    <3>1. /\ hasMadeFirstTopup \in [Users -> BOOLEAN] /\ seesFirst \in [Topups -> BOOLEAN]
          /\ Owner[t] \in Users
      BY DEF TypeOK
    <3>2. \/ hasMadeFirstTopup' = hasMadeFirstTopup
          \/ hasMadeFirstTopup' = [hasMadeFirstTopup EXCEPT ![Owner[t]] = TRUE]
      BY <2>3
    <3>3. \/ seesFirst' = seesFirst
          \/ seesFirst' = [seesFirst EXCEPT ![t] = hasMadeFirstTopup[Owner[t]]]
      BY <2>3
    <3>4. hasMadeFirstTopup' \in [Users -> BOOLEAN]
      BY <3>1, <3>2
    <3>5. seesFirst' \in [Topups -> BOOLEAN]
      BY <3>1, <3>3
    <3> QED BY <3>4, <3>5
  <2>6. faults' \in 0..MaxFaults
    <3>1. CASE DatabaseError(t)
      BY <3>1 DEF DatabaseError, TypeOK
    <3>2. CASE ~ DatabaseError(t)
      <4>1. UNCHANGED faults
        BY <1>2, <3>2 DEF Credit, CheckPromoGroup, NotReferred, LimitExhausted, CommissionDue,
                    PayCommission, RecordCommission, FirstTopup, PayBonus, PayInviter,
                    RecordFirst, DeadlockDetected
      <4> QED BY <4>1 DEF TypeOK
    <3> QED BY <3>1, <3>2
  <2> QED BY <2>2, <2>4, <2>5, <2>6 DEF TypeOK
<1>3. ASSUME Crash PROVE TypeOK'
  BY <1>3 DEF Crash, TypeOK, PcStates, credits, rows
<1> QED BY <1>1, <1>2, <1>3 DEF Next

(* Nothing has happened. *)
LEMMA TypeInit == Init => TypeOK
BY ReferralAssumption DEF Init, TypeOK, PcStates

(* Every variable has its type, and a lock its holder. *)
THEOREM TypeCorrect == Spec => []TypeOK
<1>1. TypeOK /\ [Next]_vars => TypeOK'
  BY TypeStep
<1> QED BY <1>1, TypeInit, PTL DEF Spec

-----------------------------------------------------------------------------
(***************************************************************************)
(* What is counted was paid.                                               *)
(***************************************************************************)

(* The sessions at a label when one session moves. *)
LEMMA AtMoves ==
    ASSUME TypeOK, NEW t \in Topups, NEW to \in PcStates, Goto(t, to),
           NEW u \in Users, NEW label, IsFiniteSet(At(u, label))
    PROVE  /\ IsFiniteSet(At(u, label)')
           /\ Cardinality(At(u, label)) \in Nat
           /\ Cardinality(At(u, label)') =
                 CASE Owner[t] = u /\ pc[t] # label /\ to = label ->
                        Cardinality(At(u, label)) + 1
                   [] Owner[t] = u /\ pc[t] = label /\ to # label ->
                        Cardinality(At(u, label)) - 1
                   [] OTHER -> Cardinality(At(u, label))
<1>1. pc'[t] = to /\ \A s \in Topups \ {t} : pc'[s] = pc[s]
  BY DEF TypeOK, Goto
<1>2. CASE Owner[t] = u /\ pc[t] # label /\ to = label
  <2>1. At(u, label)' = At(u, label) \cup {t} /\ t \notin At(u, label)
    BY <1>1, <1>2 DEF At
  <2> QED BY <1>2, <2>1, FS_AddElement, FS_CardinalityType
<1>3. CASE Owner[t] = u /\ pc[t] = label /\ to # label
  <2>1. At(u, label)' = At(u, label) \ {t} /\ t \in At(u, label)
    BY <1>1, <1>3 DEF At
  <2> QED BY <1>3, <2>1, FS_RemoveElement, FS_CardinalityType
<1>4. CASE /\ ~ (Owner[t] = u /\ pc[t] # label /\ to = label)
           /\ ~ (Owner[t] = u /\ pc[t] = label /\ to # label)
  <2>1. At(u, label)' = At(u, label)
    BY <1>1, <1>4 DEF At
  <2> QED BY <1>4, <2>1, FS_CardinalityType
<1> QED BY <1>2, <1>3, <1>4

(* At first nothing is paid or counted. *)
LEMMA CountedInit == Init => Counted
<1> SUFFICES ASSUME Init, NEW u \in Users
             PROVE  /\ IsFiniteSet(At(u, "recording"))
                    /\ commissionRows[u] + Cardinality(At(u, "recording")) <= commissions[u]
                    /\ IsFiniteSet(At(u, "recordingFirst"))
                    /\ firstRows[u] + Cardinality(At(u, "recordingFirst")) <= inviterBonuses[u]
  BY DEF Counted
<1>1. At(u, "recording") = {} /\ At(u, "recordingFirst") = {}
  BY DEF Init, At
<1> QED BY <1>1, FS_EmptySet DEF Init

(* A session pays before it records, and records at most once what it has paid:
   the rows that are owed only ever fall short. *)
LEMMA CountedMove ==
    ASSUME TypeOK, Counted, NEW t \in Topups, NEW to \in PcStates, Goto(t, to),
           commissions' = IF pc[t] = "paying" /\ to = "recording"
                          THEN Inc(commissions, Owner[t]) ELSE commissions,
           to = "recording" => pc[t] = "paying",
           commissionRows' = commissionRows \/ /\ pc[t] = "recording" /\ to # "recording"
                                               /\ commissionRows' = Inc(commissionRows, Owner[t]),
           inviterBonuses' = IF pc[t] = "inviting" /\ to = "recordingFirst"
                             THEN Inc(inviterBonuses, Owner[t]) ELSE inviterBonuses,
           to = "recordingFirst" => pc[t] = "inviting",
           firstRows' = firstRows \/ /\ pc[t] = "recordingFirst" /\ to # "recordingFirst"
                                     /\ firstRows' = Inc(firstRows, Owner[t])
    PROVE  Counted'
<1> USE ReferralAssumption
<1> SUFFICES ASSUME NEW u \in Users
             PROVE  /\ IsFiniteSet(At(u, "recording")')
                    /\ commissionRows'[u] + Cardinality(At(u, "recording")') <= commissions'[u]
                    /\ IsFiniteSet(At(u, "recordingFirst")')
                    /\ firstRows'[u] + Cardinality(At(u, "recordingFirst")')
                          <= inviterBonuses'[u]
  BY DEF Counted
<1> DEFINE n == Cardinality(At(u, "recording"))
           m == Cardinality(At(u, "recordingFirst"))
<1>1. /\ commissions \in [Users -> Nat] /\ commissionRows \in [Users -> Nat]
      /\ inviterBonuses \in [Users -> Nat] /\ firstRows \in [Users -> Nat]
      /\ Owner[t] \in Users
  BY DEF TypeOK
<1>2. /\ IsFiniteSet(At(u, "recording")) /\ commissionRows[u] + n <= commissions[u]
      /\ IsFiniteSet(At(u, "recordingFirst")) /\ firstRows[u] + m <= inviterBonuses[u]
  BY DEF Counted
<1>3. /\ IsFiniteSet(At(u, "recording")') /\ n \in Nat
      /\ Cardinality(At(u, "recording")') =
            CASE Owner[t] = u /\ pc[t] # "recording" /\ to = "recording" -> n + 1
              [] Owner[t] = u /\ pc[t] = "recording" /\ to # "recording" -> n - 1
              [] OTHER -> n
  BY <1>2, AtMoves
<1>4. /\ IsFiniteSet(At(u, "recordingFirst")') /\ m \in Nat
      /\ Cardinality(At(u, "recordingFirst")') =
            CASE Owner[t] = u /\ pc[t] # "recordingFirst" /\ to = "recordingFirst" -> m + 1
              [] Owner[t] = u /\ pc[t] = "recordingFirst" /\ to # "recordingFirst" -> m - 1
              [] OTHER -> m
  BY <1>2, AtMoves
<1> HIDE DEF n, m
<1>5. /\ commissions'[u] = IF u = Owner[t] /\ pc[t] = "paying" /\ to = "recording"
                           THEN commissions[u] + 1 ELSE commissions[u]
      /\ \/ commissionRows'[u] = commissionRows[u]
         \/ /\ u = Owner[t] /\ pc[t] = "recording" /\ to # "recording"
            /\ commissionRows'[u] = commissionRows[u] + 1
  BY <1>1, IncType
<1>6. /\ inviterBonuses'[u] = IF u = Owner[t] /\ pc[t] = "inviting" /\ to = "recordingFirst"
                              THEN inviterBonuses[u] + 1 ELSE inviterBonuses[u]
      /\ \/ firstRows'[u] = firstRows[u]
         \/ /\ u = Owner[t] /\ pc[t] = "recordingFirst" /\ to # "recordingFirst"
            /\ firstRows'[u] = firstRows[u] + 1
  BY <1>1, IncType
<1>7. commissionRows'[u] + Cardinality(At(u, "recording")') <= commissions'[u]
  BY <1>1, <1>2, <1>3, <1>5
<1>8. firstRows'[u] + Cardinality(At(u, "recordingFirst")') <= inviterBonuses'[u]
  BY <1>1, <1>2, <1>4, <1>6
<1> QED BY <1>3, <1>4, <1>7, <1>8

(* Every step keeps the count: a payment comes before its row, in the same session. *)
LEMMA CountedStep == ASSUME TypeOK, Counted, [Next]_vars PROVE Counted'
<1>1. CASE UNCHANGED vars
  BY <1>1 DEF vars, credits, rows, Counted, At
<1>2. ASSUME NEW t \in Topups,
             \/ Credit(t) \/ CheckPromoGroup(t) \/ NotReferred(t)
             \/ LimitExhausted(t) \/ CommissionDue(t) \/ FirstTopup(t) \/ PayBonus(t)
      PROVE  Counted'
  <2>1. \E to \in PcStates \ {"recording", "recordingFirst"} : Goto(t, to)
    BY <1>2 DEF Credit, CheckPromoGroup, NotReferred, LimitExhausted, CommissionDue,
                FirstTopup, PayBonus, PcStates
  <2>2. UNCHANGED <<commissions, commissionRows, inviterBonuses, firstRows>>
    BY <1>2 DEF Credit, CheckPromoGroup, NotReferred, LimitExhausted, CommissionDue,
                FirstTopup, PayBonus, credits, rows
  <2> QED BY <2>1, <2>2, CountedMove
<1>3. ASSUME NEW t \in Topups, PayCommission(t) PROVE Counted'
  BY <1>3, CountedMove DEF PayCommission, PcStates, rows
<1>4. ASSUME NEW t \in Topups, RecordCommission(t) PROVE Counted'
  BY <1>4, CountedMove DEF RecordCommission, PcStates, credits
<1>5. ASSUME NEW t \in Topups, PayInviter(t) PROVE Counted'
  BY <1>5, CountedMove DEF PayInviter, PcStates, rows
<1>6. ASSUME NEW t \in Topups, RecordFirst(t) PROVE Counted'
  BY <1>6, CountedMove DEF RecordFirst, PcStates, credits
<1>7. ASSUME NEW t \in Topups, DatabaseError(t) \/ DeadlockDetected(t) PROVE Counted'
  <2>1. \E to \in {"inviting", "done"} : Goto(t, to)
    BY <1>7 DEF DatabaseError, DeadlockDetected, Abort
  <2>2. UNCHANGED <<commissions, commissionRows, inviterBonuses, firstRows>>
    BY <1>7 DEF DatabaseError, DeadlockDetected, Abort, credits, rows
  <2>3. {"inviting", "done"} \subseteq PcStates \ {"recording", "recordingFirst"}
    BY DEF PcStates
  <2> QED BY <2>1, <2>2, <2>3, CountedMove
<1>8. ASSUME Crash PROVE Counted'
  <2>1. \A u \in Users : At(u, "recording")' = {} /\ At(u, "recordingFirst")' = {}
    BY <1>8 DEF Crash, At
  <2>2. \A u \in Users : /\ Cardinality(At(u, "recording")) \in Nat
                         /\ Cardinality(At(u, "recordingFirst")) \in Nat
    BY FS_CardinalityType DEF Counted
  <2>3. \A u \in Users : commissionRows[u] <= commissions[u] /\ firstRows[u] <= inviterBonuses[u]
    BY <2>2 DEF Counted, TypeOK
  <2>4. UNCHANGED <<commissions, commissionRows, inviterBonuses, firstRows>>
    BY <1>8 DEF Crash, credits, rows
  <2>5. IsFiniteSet({}) /\ Cardinality({}) = 0
    BY FS_EmptySet
  <2>6. ASSUME NEW u \in Users
        PROVE  commissionRows[u] \in Nat /\ firstRows[u] \in Nat
    BY DEF TypeOK
  <2> QED BY <2>1, <2>3, <2>4, <2>5, <2>6 DEF Counted
<1> QED BY <1>1, <1>2, <1>3, <1>4, <1>5, <1>6, <1>7, <1>8 DEF Next

(* An earning that is counted has reached the inviter's balance. *)
THEOREM EarningsBackedAlways == Spec => []EarningsBacked
<1>1. Init => TypeOK /\ Counted
  BY TypeInit, CountedInit
<1>2. TypeOK /\ Counted /\ [Next]_vars => TypeOK' /\ Counted'
  BY TypeStep, CountedStep
<1>3. TypeOK /\ Counted => EarningsBacked
  <2> SUFFICES ASSUME TypeOK, Counted, NEW u \in Users
               PROVE  commissionRows[u] <= commissions[u] /\ firstRows[u] <= inviterBonuses[u]
    BY DEF EarningsBacked
  <2>1. /\ Cardinality(At(u, "recording")) \in Nat
        /\ Cardinality(At(u, "recordingFirst")) \in Nat
    BY FS_CardinalityType DEF Counted
  <2> QED BY <2>1 DEF Counted, TypeOK
<1> QED BY <1>1, <1>2, <1>3, PTL DEF Spec

-----------------------------------------------------------------------------
(***************************************************************************)
(* The first bonus is paid once.                                           *)
(***************************************************************************)

(* At first nobody is at work. *)
LEMMA OnceInit == Init => OnceInv
BY ReferralAssumption DEF Init, OnceInv, FirstBonusOnce, NothingEarly, SessionOK, Giving

(* What a session of another top-up must leave alone. *)
LEMMA OthersOnce ==
    ASSUME TypeOK, OnceInv, NEW t, NEW s \in Topups \ {t}, Owner[s] \notin GroupEarners,
           \A x \in Topups \ {t} : pc'[x] = pc[x] /\ seesFirst'[x] = seesFirst[x],
           userLock[Owner[s]] = s => userLock'[Owner[s]] = s,
           \/ hasMadeFirstTopup'[Owner[s]] = hasMadeFirstTopup[Owner[s]]
           \/ pc[s] # "rewarding" /\ hasMadeFirstTopup'[Owner[s]],
           t \in Topups /\ Owner[t] = Owner[s] /\ pc[s] \in Giving => pc'[t] \notin Giving,
           pc[s] = "bonus" => bonuses'[Owner[s]] = bonuses[Owner[s]],
           pc[s] \in {"bonus", "inviting"} => inviterBonuses'[Owner[s]] = inviterBonuses[Owner[s]]
    PROVE  SessionOK(s)'
<1>1. SessionOK(s)
  BY DEF OnceInv
<1> QED BY <1>1 DEF SessionOK, Giving

(* A step that gives nothing and leaves the flag alone: the session that moves
   is not newly a giver, and takes up a decision only with lock and fresh copy. *)
LEMMA QuietStep ==
    ASSUME TypeOK, OnceInv, NEW t \in Topups, NEW to \in PcStates \ {"bonus", "recordingFirst"},
           Goto(t, to),
           UNCHANGED <<hasMadeFirstTopup, bonuses, inviterBonuses>>,
           \A x \in Topups \ {t} : seesFirst'[x] = seesFirst[x],
           \A u \in Users : userLock[u] \in Topups \ {t} => userLock'[u] = userLock[u],
           to = "rewarding" /\ Owner[t] \notin GroupEarners =>
              userLock'[Owner[t]] = t /\ seesFirst'[t] = hasMadeFirstTopup[Owner[t]],
           to = "inviting" => pc[t] = "bonus"
    PROVE  OnceInv'
<1> USE ReferralAssumption
<1>1. pc'[t] = to /\ \A x \in Topups \ {t} : pc'[x] = pc[x]
  BY DEF TypeOK, Goto
<1>2. ASSUME NEW s \in Topups \ {t}, Owner[s] \notin GroupEarners
      PROVE  SessionOK(s)'
  <2>1. userLock[Owner[s]] = s => userLock'[Owner[s]] = s
    OBVIOUS
  <2>2. SessionOK(s) /\ (Owner[t] = Owner[s] => SessionOK(t))
    BY <1>2 DEF OnceInv
  <2>3. Owner[t] = Owner[s] /\ pc[s] \in Giving => pc'[t] \notin Giving
    BY <1>1, <2>2 DEF SessionOK, Giving
  <2> QED BY <1>1, <1>2, <2>1, <2>3, OthersOnce
<1>3. ASSUME Owner[t] \notin GroupEarners
      PROVE  SessionOK(t)'
  <2>1. SessionOK(t)
    BY <1>3 DEF OnceInv
  <2> QED BY <1>1, <1>3, <2>1 DEF SessionOK, Giving
<1>4. FirstBonusOnce' /\ NothingEarly'
  BY DEF OnceInv, FirstBonusOnce, NothingEarly
<1> QED BY <1>2, <1>3, <1>4 DEF OnceInv

(* The flag is set by the session that holds the user's lock: no other one is
   deciding, and if it goes on to give, nobody has given before. *)
LEMMA FlagStep ==
    ASSUME TypeOK, OnceInv, NEW t \in Topups, NotReferred(t) \/ FirstTopup(t)
    PROVE  OnceInv'
<1> USE ReferralAssumption
<1>1. /\ pc[t] = "rewarding" /\ Unlock(t) /\ Goto(t, IF FirstTopup(t) THEN "bonus" ELSE "done")
      /\ hasMadeFirstTopup' = [hasMadeFirstTopup EXCEPT ![Owner[t]] = TRUE]
      /\ UNCHANGED <<bonuses, inviterBonuses, seesFirst>>
      /\ FirstTopup(t) => ~ seesFirst[t]
  BY DEF NotReferred, FirstTopup, credits, IsFirst
<1>2. /\ pc'[t] = (IF FirstTopup(t) THEN "bonus" ELSE "done")
      /\ \A x \in Topups \ {t} : pc'[x] = pc[x]
      /\ hasMadeFirstTopup'[Owner[t]]
      /\ \A u \in Users \ {Owner[t]} : hasMadeFirstTopup'[u] = hasMadeFirstTopup[u]
  BY <1>1 DEF TypeOK, Goto
<1>3. ASSUME Owner[t] \notin GroupEarners, FirstTopup(t)
      PROVE  /\ ~ hasMadeFirstTopup[Owner[t]]
             /\ bonuses[Owner[t]] = 0 /\ inviterBonuses[Owner[t]] = 0
             /\ \A s \in Topups : Owner[s] = Owner[t] => pc[s] \notin Giving
  <2>1. SessionOK(t) /\ \A s \in Topups : Owner[s] = Owner[t] => SessionOK(s)
    BY <1>3 DEF OnceInv
  <2>2. ~ hasMadeFirstTopup[Owner[t]]
    BY <1>1, <1>3, <2>1 DEF SessionOK, TypeOK
  <2>3. \A s \in Topups : Owner[s] = Owner[t] => pc[s] \notin Giving
    BY <2>1, <2>2 DEF SessionOK
  <2> QED BY <1>3, <2>2, <2>3 DEF OnceInv, NothingEarly
<1>4. ASSUME NEW s \in Topups \ {t}, Owner[s] \notin GroupEarners
      PROVE  SessionOK(s)'
  <2>1. userLock[Owner[s]] = s => userLock'[Owner[s]] = s
    BY <1>1, UnlockType
  <2>2. Owner[s] = Owner[t] => pc[s] # "rewarding"
    <3> SUFFICES ASSUME Owner[s] = Owner[t], pc[s] = "rewarding" PROVE FALSE
      OBVIOUS
    <3>1. SessionOK(s) /\ SessionOK(t)
      BY <1>4 DEF OnceInv
    <3> QED BY <1>1, <3>1 DEF SessionOK
  <2>3. Owner[t] = Owner[s] /\ pc[s] \in Giving => pc'[t] \notin Giving
    BY <1>2, <1>3, <1>4 DEF Giving
  <2>4. \/ hasMadeFirstTopup'[Owner[s]] = hasMadeFirstTopup[Owner[s]]
        \/ pc[s] # "rewarding" /\ hasMadeFirstTopup'[Owner[s]]
    BY <1>2, <2>2
  <2> QED BY <1>1, <1>2, <1>4, <2>1, <2>3, <2>4, OthersOnce
<1>5. ASSUME Owner[t] \notin GroupEarners PROVE SessionOK(t)'
  <2>1. CASE FirstTopup(t)
    BY <1>1, <1>2, <1>3, <1>5, <2>1 DEF SessionOK, Giving
  <2>2. CASE ~ FirstTopup(t)
    BY <1>2, <2>2 DEF SessionOK, Giving
  <2> QED BY <2>1, <2>2
<1>6. FirstBonusOnce' /\ NothingEarly'
  BY <1>1, <1>2 DEF OnceInv, FirstBonusOnce, NothingEarly
<1> QED BY <1>4, <1>5, <1>6 DEF OnceInv

(* A payment of the first bonus: the counter it raises was zero. *)
LEMMA GiveStep ==
    ASSUME TypeOK, OnceInv, NEW t \in Topups, PayBonus(t) \/ PayInviter(t)
    PROVE  OnceInv'
<1> USE ReferralAssumption
<1>1. /\ bonuses \in [Users -> Nat] /\ inviterBonuses \in [Users -> Nat] /\ Owner[t] \in Users
      /\ UNCHANGED <<hasMadeFirstTopup, userLock, seesFirst>>
  BY DEF TypeOK, PayBonus, PayInviter
<1>2. /\ \A x \in Topups \ {t} : pc'[x] = pc[x]
      /\ \A u \in Users \ {Owner[t]} :
            bonuses'[u] = bonuses[u] /\ inviterBonuses'[u] = inviterBonuses[u]
      /\ \/ /\ pc[t] = "bonus" /\ pc'[t] = "inviting"
            /\ bonuses'[Owner[t]] = bonuses[Owner[t]] + 1
            /\ inviterBonuses'[Owner[t]] = inviterBonuses[Owner[t]]
         \/ /\ pc[t] = "inviting" /\ pc'[t] = "recordingFirst"
            /\ bonuses'[Owner[t]] = bonuses[Owner[t]]
            /\ inviterBonuses'[Owner[t]] = inviterBonuses[Owner[t]] + 1
  <2>1. CASE PayBonus(t)
    <3>1. /\ bonuses' = Inc(bonuses, Owner[t]) /\ inviterBonuses' = inviterBonuses
          /\ pc[t] = "bonus" /\ pc'[t] = "inviting" /\ \A x \in Topups \ {t} : pc'[x] = pc[x]
      BY <2>1 DEF PayBonus, Goto, TypeOK
    <3> QED BY <1>1, <3>1, IncType
  <2>2. CASE PayInviter(t)
    <3>1. /\ inviterBonuses' = Inc(inviterBonuses, Owner[t]) /\ bonuses' = bonuses
          /\ pc[t] = "inviting" /\ pc'[t] = "recordingFirst"
          /\ \A x \in Topups \ {t} : pc'[x] = pc[x]
      BY <2>2 DEF PayInviter, Goto, TypeOK
    <3> QED BY <1>1, <3>1, IncType
  <2> QED BY <2>1, <2>2
<1>3. pc[t] \in Giving /\ pc'[t] \in Giving
  BY <1>2 DEF Giving
<1>4. ASSUME NEW s \in Topups \ {t}, Owner[s] \notin GroupEarners
      PROVE  SessionOK(s)'
  <2>1. Owner[t] = Owner[s] => pc[s] \notin Giving
    <3> SUFFICES ASSUME Owner[t] = Owner[s] PROVE pc[s] \notin Giving
      OBVIOUS
    <3>1. SessionOK(t)
      BY <1>4 DEF OnceInv
    <3> QED BY <1>3, <3>1 DEF SessionOK
  <2>2. /\ pc[s] = "bonus" => bonuses'[Owner[s]] = bonuses[Owner[s]]
        /\ pc[s] \in {"bonus", "inviting"} =>
              inviterBonuses'[Owner[s]] = inviterBonuses[Owner[s]]
    BY <1>2, <2>1 DEF Giving
  <2> QED BY <1>1, <1>2, <1>4, <2>1, <2>2, OthersOnce
<1>5. ASSUME Owner[t] \notin GroupEarners
      PROVE  /\ SessionOK(t)'
             /\ bonuses'[Owner[t]] <= 1 /\ inviterBonuses'[Owner[t]] <= 1
             /\ hasMadeFirstTopup[Owner[t]]
  <2>1. SessionOK(t) /\ bonuses[Owner[t]] <= 1 /\ inviterBonuses[Owner[t]] <= 1
    BY <1>1, <1>5 DEF OnceInv, FirstBonusOnce
  <2>2. /\ hasMadeFirstTopup[Owner[t]] /\ hasMadeFirstTopup'[Owner[t]]
        /\ \A s \in Topups \ {t} : Owner[s] = Owner[t] => pc'[s] \notin Giving
    BY <1>1, <1>2, <1>3, <2>1 DEF SessionOK
  <2>3. /\ bonuses[Owner[t]] \in Nat /\ inviterBonuses[Owner[t]] \in Nat
        /\ pc[t] = "bonus" => bonuses[Owner[t]] = 0
        /\ pc[t] \in {"bonus", "inviting"} => inviterBonuses[Owner[t]] = 0
    BY <1>1, <2>1 DEF SessionOK
  <2>4. bonuses'[Owner[t]] <= 1 /\ inviterBonuses'[Owner[t]] <= 1
    BY <1>2, <2>1, <2>3
  <2>5. SessionOK(t)'
    BY <1>2, <2>2, <2>3 DEF SessionOK, Giving
  <2> QED BY <2>2, <2>4, <2>5
<1>6. FirstBonusOnce' /\ NothingEarly'
  BY <1>1, <1>2, <1>5 DEF OnceInv, FirstBonusOnce, NothingEarly
<1> QED BY <1>4, <1>5, <1>6 DEF OnceInv

(* Every step keeps it: one top-up of a user at a time is between his lock and the flag. *)
LEMMA OnceStep == ASSUME TypeOK, OnceInv, [Next]_vars PROVE OnceInv'
<1> USE ReferralAssumption
<1>1. CASE UNCHANGED vars
  BY <1>1 DEF vars, credits, rows, OnceInv, FirstBonusOnce, NothingEarly, SessionOK
<1>2. ASSUME NEW t \in Topups,
             Credit(t) \/ CommissionDue(t) \/ RecordCommission(t) \/ RecordFirst(t)
      PROVE  OnceInv'
  <2>1. /\ \E to \in {"credited", "paying", "done"} : Goto(t, to)
        /\ UNCHANGED <<hasMadeFirstTopup, bonuses, inviterBonuses, userLock, seesFirst>>
    BY <1>2 DEF Credit, CommissionDue, RecordCommission, RecordFirst, credits
  <2> QED BY <2>1, QuietStep DEF PcStates
<1>3. ASSUME NEW t \in Topups, CheckPromoGroup(t) PROVE OnceInv'
  <2>1. /\ Goto(t, "rewarding")
        /\ UNCHANGED <<hasMadeFirstTopup, bonuses, inviterBonuses>>
        /\ \A x \in Topups \ {t} : seesFirst'[x] = seesFirst[x]
        /\ seesFirst'[t] = hasMadeFirstTopup[Owner[t]]
    BY <1>3 DEF CheckPromoGroup, credits, TypeOK
  <2>2. /\ \A u \in Users : userLock[u] \in Topups \ {t} => userLock'[u] = userLock[u]
        /\ Owner[t] \notin GroupEarners => userLock'[Owner[t]] = t
    <3>1. CASE userLock' = [userLock EXCEPT ![Owner[t]] = t]
      BY <1>3, <3>1 DEF CheckPromoGroup, Free, TypeOK
    <3>2. CASE Owner[t] \in GroupEarners /\ Unlock(t)
      BY <3>2, UnlockType
    <3> QED BY <1>3, <3>1, <3>2 DEF CheckPromoGroup
  <2> QED BY <2>1, <2>2, QuietStep DEF PcStates
<1>4. ASSUME NEW t \in Topups,
             \/ LimitExhausted(t) \/ PayCommission(t)
             \/ DatabaseError(t) \/ DeadlockDetected(t)
      PROVE  OnceInv'
  <2>1. /\ Unlock(t)
        /\ \E to \in {"inviting", "recording", "done"} :
              Goto(t, to) /\ (to = "inviting" => pc[t] = "bonus")
        /\ UNCHANGED <<hasMadeFirstTopup, bonuses, inviterBonuses, seesFirst>>
    BY <1>4 DEF LimitExhausted, PayCommission, DatabaseError, DeadlockDetected, Abort, credits
  <2>2. \A u \in Users : userLock[u] \in Topups \ {t} => userLock'[u] = userLock[u]
    BY <2>1, UnlockType
  <2> QED BY <2>1, <2>2, QuietStep DEF PcStates
<1>5. ASSUME NEW t \in Topups, NotReferred(t) \/ FirstTopup(t) PROVE OnceInv'
  BY <1>5, FlagStep
<1>6. ASSUME NEW t \in Topups, PayBonus(t) \/ PayInviter(t) PROVE OnceInv'
  BY <1>6, GiveStep
<1>7. ASSUME Crash PROVE OnceInv'
  <2>1. /\ \A t \in Topups : pc'[t] \in {"unpaid", "done"}
        /\ UNCHANGED <<hasMadeFirstTopup, bonuses, inviterBonuses>>
    BY <1>7 DEF Crash, credits
  <2> QED BY <2>1 DEF OnceInv, FirstBonusOnce, NothingEarly, SessionOK, Giving
<1> QED BY <1>1, <1>2, <1>3, <1>4, <1>5, <1>6, <1>7 DEF Next

(* However many top-ups of one user are served at once, he and his inviter get
   the first bonus once; only an assigned promo group takes the lock away. *)
THEOREM FirstBonusOnceAlways == Spec => []FirstBonusOnce
<1>1. Init => TypeOK /\ OnceInv
  BY TypeInit, OnceInit
<1>2. TypeOK /\ OnceInv /\ [Next]_vars => TypeOK' /\ OnceInv'
  BY TypeStep, OnceStep
<1>3. OnceInv => FirstBonusOnce
  BY DEF OnceInv
<1> QED BY <1>1, <1>2, <1>3, PTL DEF Spec


-----------------------------------------------------------------------------
(***************************************************************************)
(* The payouts and the promo codes, in every behaviour of the composition. *)
(***************************************************************************)

(* What the composition does to the payouts is allowed by Withdrawal. *)
LEMMA PayoutsMove == AllSpec => W!Spec
<1>1. AllInit => W!Init
  BY DEF AllInit
<1>2. [AllNext]_<<part, vars, payoutVars, visitVars, codeVars, mergeVars>>
         => [W!Next]_(W!vars)
  BY DEF AllNext, payoutVars, W!vars, W!requests, W!wallets, W!locks, W!session
<1> QED BY <1>1, <1>2, PTL DEF AllSpec, W!Spec

(* Without the sessions of the bot, a request is debited once if it was approved and
   never otherwise. *)
THEOREM DebitedIffApprovedAlways ==
    ASSUME W!ConstantsOK, BotSessions = {}
    PROVE  AllSpec => []DebitedIffApproved
<1>1. W!Spec => []W!DebitedIffApproved
  BY W!DebitedIffApprovedAlways
<1>2. W!DebitedIffApproved => DebitedIffApproved
  BY DEF DebitedIffApproved
<1> QED BY <1>1, <1>2, PayoutsMove, PTL

(* Without the sessions of the bot, what a partner has withdrawn or asked for is covered
   by what he has earned, although the sums are read one after another. *)
THEOREM WithinEarningsAlways ==
    ASSUME W!ConstantsOK, IsFiniteSet(Requests), BotSessions = {}
    PROVE  AllSpec => []WithinEarnings
<1>1. W!IsFiniteSet(Requests)
  BY DEF IsFiniteSet, W!IsFiniteSet
<1>2. W!Spec => []W!WithinEarnings
  BY <1>1, W!WithinEarningsAlways
<1>3. W!WithinEarnings => WithinEarnings
  BY DEF WithinEarnings
<1> QED BY <1>2, <1>3, PayoutsMove, PTL

(* What the composition does to the promo codes is allowed by Promocode. *)
LEMMA CodesMove == AllSpec => P!Spec
<1>1. AllInit => P!Init
  BY DEF AllInit
<1>2. [AllNext]_<<part, vars, payoutVars, visitVars, codeVars, mergeVars>>
         => [P!Next]_(P!vars)
  BY DEF AllNext, codeVars, P!vars
<1> QED BY <1>1, <1>2, PTL DEF AllSpec, P!Spec

(* Whatever a promo code gave is backed by a recorded use, and a bonus by one of its
   own. *)
THEOREM EffectHasUseAlways ==
    ASSUME P!ConstantsOK
    PROVE  AllSpec => []EffectHasUse
<1>1. P!Spec => []P!EffectHasUse
  BY P!EffectHasUseAlways
<1>2. P!EffectHasUse => EffectHasUse
  BY DEF EffectHasUse
<1> QED BY <1>1, <1>2, CodesMove, PTL

(* The counter of a code with a bonus equals its uses up to the requests that have yet
   to count or failed to, and the limit is exceeded by fewer than the requests. *)
THEOREM BonusCountExactAlways ==
    ASSUME P!ConstantsOK, P!LimitsOK
    PROVE  AllSpec => []BonusCountExact
<1>1. P!Spec => []P!BonusCountExact
  BY P!BonusCountExactAlways
<1>2. P!BonusCountExact => BonusCountExact
  BY DEF BonusCountExact
<1> QED BY <1>1, <1>2, CodesMove, PTL

-----------------------------------------------------------------------------
(***************************************************************************)
(* The visits: who becomes the referrer, and by which campaign.            *)
(***************************************************************************)

(* A campaign's partner is one who can refer; a bonus is of one of three kinds; None is
   nobody's name. *)
VisitConstants ==
    /\ Partner \in [Campaigns -> Referrers \cup {None}]
    /\ Bonus \in [Campaigns -> {"none", "balance", "grant"}]
    /\ None \notin Referrers /\ None \notin Sessions /\ None \notin Campaigns

(* The places of an attachment by a link, by the dialog, by a request that creates the
   user, and of a campaign's visit. *)
LinkPlaces == {"attaching", "refreshing", "writing"}
NewcomerPlaces == {"creating", "admitting", "coding"}
VisitPlaces == {"reviving", "locking", "checking"}
BonusPlaces == {"granting", "recording", "paying"}
AuditPlaces == {"announcing", "inserting"}
Places == {"idle"} \cup LinkPlaces \cup NewcomerPlaces \cup VisitPlaces \cup BonusPlaces
                   \cup AuditPlaces

(* The types that the argument needs. *)
VisitTypes ==
    /\ referrer \in Referrers \cup {None}
    /\ standing \in A!Standings
    /\ audit \in [Referrers -> {0, 1}]
    /\ registrations \subseteq Campaigns
    /\ bonus \in [Campaigns -> Nat]
    /\ rowLock \in Sessions \cup {None}
    /\ visit \in [Sessions -> Places]
    /\ entry \in [Sessions -> {"none", "attach", "dialog", "code", "campaign"}]
    /\ want \in [Sessions -> Referrers \cup {None}]
    /\ campaign \in [Sessions -> Campaigns \cup {None}]
    /\ known \in [Sessions -> Referrers \cup {None}]
    /\ found \in [Sessions -> A!Standings]
    /\ written \in [Sessions -> Referrers \cup {None}]
    /\ visitFaults \in Nat

(* What a session at work looks for. *)
ErrandOK(s) ==
    /\ visit[s] \in {"attaching", "refreshing"} => entry[s] = "attach"
    /\ visit[s] = "writing" => entry[s] = "dialog"
    /\ visit[s] \in NewcomerPlaces => entry[s] = "code"
    /\ visit[s] \in VisitPlaces => entry[s] = "campaign"
    /\ visit[s] \in AuditPlaces \cup {"attaching", "refreshing", "admitting", "coding"} =>
          want[s] \in Referrers
    /\ visit[s] \in BonusPlaces => campaign[s] \in Campaigns
    /\ entry[s] = "campaign" => campaign[s] \in Campaigns /\ want[s] = Partner[campaign[s]]
    /\ entry[s] \in {"none", "attach", "code"} => campaign[s] = None

(* A row that does not exist names nobody and is locked by nobody. *)
Unborn ==
    standing = "absent" =>
        /\ referrer = None /\ rowLock = None
        /\ \A s \in Sessions :
              visit[s] \notin {"attaching", "admitting", "coding"} \cup VisitPlaces

(* What is flushed and not committed is a referrer whom the holder of the lock has
   announced or is to announce; the user's first request flushes one only if he has none. *)
FlushedOK(s) ==
    written[s] # None =>
        /\ rowLock = s
        /\ entry[s] \in {"campaign", "code"}
        /\ entry[s] = "code" => referrer = None
        /\ visit[s] \in AuditPlaces \cup {"granting", "recording"}
        /\ visit[s] \in AuditPlaces => want[s] = written[s]
        /\ visit[s] \in {"granting", "recording"} => audit[written[s]] = 1

(* The request that creates the user knows his referrer while it holds the lock. *)
KnowsNewcomer(s) == visit[s] = "coding" => rowLock = s /\ known[s] = referrer

(* The cabinet, where it is to record a direct campaign, holds the lock since it has
   seen no registration. *)
LooksFirst(s) ==
    /\ visit[s] = "checking" => rowLock = s
    /\ visit[s] = "recording" /\ entry[s] = "campaign" /\ A!Direct(campaign[s]) =>
          rowLock = s /\ registrations = {}

(* Two sessions that are both to pay a bonus pay those of two campaigns; who has come
   to record a campaign that grants has granted. *)
PaysOnce(s) ==
    /\ visit[s] = "paying" =>
          /\ campaign[s] \in registrations
          /\ Bonus[campaign[s]] = "balance"
          /\ bonus[campaign[s]] = 0
          /\ \A t \in Sessions : visit[t] = "paying" /\ campaign[t] = campaign[s] => t = s
    /\ visit[s] = "granting" => Bonus[campaign[s]] = "grant"
    /\ visit[s] = "recording" /\ Bonus[campaign[s]] = "grant" => bonus[campaign[s]] = 1

(* What is registered and given. *)
BooksOfCampaigns ==
    \A c \in Campaigns :
        IF Bonus[c] = "grant" THEN c \in registrations => bonus[c] = 1
                              ELSE bonus[c] <= IF c \in registrations THEN 1 ELSE 0

(* Without a fault, somebody is about to announce the referrer if nobody has. *)
Announces(s) ==
    \/ visit[s] \in AuditPlaces \cup {"refreshing"} /\ want[s] = referrer
    \/ visit[s] \in {"admitting", "coding"}
AnnouncedOrWill ==
    visitFaults = 0 /\ referrer # None => audit[referrer] = 1 \/ \E s \in Sessions : Announces(s)

VisitInv ==
    /\ VisitTypes
    /\ \A s \in Sessions : ErrandOK(s)
    /\ Unborn
    /\ \A s \in Sessions : FlushedOK(s)
    /\ \A s \in Sessions : KnowsNewcomer(s)
    /\ \A s \in Sessions : LooksFirst(s)
    /\ \A s \in Sessions : PaysOnce(s)
    /\ BooksOfCampaigns
    /\ AnnouncedOrWill

(* Where a session goes on when its referrer is settled. *)
LEMMA WhereTo ==
    ASSUME VisitConstants, VisitInv, NEW s \in Sessions
    PROVE  /\ A!ToCampaign(s) \in {"idle", "granting", "recording"}
           /\ A!ToCampaign(s) = "idle" <=> campaign[s] = None
           /\ A!ToCampaign(s) = "granting" => Bonus[campaign[s]] = "grant"
           /\ A!ToCampaign(s) = "recording" => Bonus[campaign[s]] # "grant"
BY DEF VisitConstants, A!ToCampaign


(* Opening a link keeps the invariant. *)
LEMMA OpenLinkKeeps ==
    ASSUME VisitConstants, VisitInv, NEW s \in Sessions, NEW r \in Referrers, A!OpenLink(s, r)
    PROVE  VisitInv'
<1>1. VisitTypes'
  BY DEF VisitInv, VisitTypes, Places, LinkPlaces, NewcomerPlaces, VisitPlaces, BonusPlaces,
     AuditPlaces, A!OpenLink, A!Open, A!Goto, A!tables
<1>2. ASSUME NEW t \in Sessions PROVE ErrandOK(t)'
  BY DEF VisitInv, VisitTypes, ErrandOK, NewcomerPlaces, VisitPlaces, BonusPlaces, AuditPlaces,
     A!OpenLink, A!Open, A!Goto
<1>3. Unborn'
  BY DEF VisitInv, Unborn, VisitPlaces, A!OpenLink, A!Open, A!Goto, A!tables
<1>4. ASSUME NEW t \in Sessions PROVE FlushedOK(t)'
  BY DEF VisitInv, FlushedOK, AuditPlaces, A!OpenLink, A!Open, A!Goto, A!tables
<1>5. ASSUME NEW t \in Sessions PROVE KnowsNewcomer(t)'
  BY DEF VisitInv, KnowsNewcomer, A!OpenLink, A!Open, A!Goto, A!tables
<1>6. ASSUME NEW t \in Sessions PROVE LooksFirst(t)'
  BY DEF VisitInv, LooksFirst, A!OpenLink, A!Open, A!Goto, A!tables
<1>7. ASSUME NEW t \in Sessions PROVE PaysOnce(t)'
  BY DEF VisitInv, PaysOnce, A!OpenLink, A!Open, A!Goto, A!tables
<1>8. BooksOfCampaigns'
  BY DEF VisitInv, BooksOfCampaigns, A!OpenLink, A!Open, A!Goto, A!tables
<1>9. AnnouncedOrWill'
  BY DEF VisitInv, AnnouncedOrWill, Announces, AuditPlaces, A!OpenLink, A!Open, A!Goto, A!tables
<1> QED BY <1>1, <1>2, <1>3, <1>4, <1>5, <1>6, <1>7, <1>8, <1>9 DEF VisitInv

(* So does the end of the registration dialog. *)
LEMMA FinishDialogKeeps ==
    ASSUME VisitConstants, VisitInv, NEW s \in Sessions, NEW r \in Referrers \cup {None},
           NEW c \in Campaigns \cup {None}, A!FinishDialog(s, r, c)
    PROVE  VisitInv'
<1>1. VisitTypes'
  BY DEF VisitInv, VisitTypes, Places, LinkPlaces, NewcomerPlaces, VisitPlaces, BonusPlaces,
     AuditPlaces, A!FinishDialog, A!Open, A!Goto, A!tables
<1>2. ASSUME NEW t \in Sessions PROVE ErrandOK(t)'
  BY DEF VisitInv, VisitTypes, ErrandOK, NewcomerPlaces, VisitPlaces, BonusPlaces, AuditPlaces,
     A!FinishDialog, A!Open, A!Goto
<1>3. Unborn'
  BY DEF VisitInv, Unborn, VisitPlaces, A!FinishDialog, A!Open, A!Goto, A!tables
<1>4. ASSUME NEW t \in Sessions PROVE FlushedOK(t)'
  BY DEF VisitInv, FlushedOK, AuditPlaces, A!FinishDialog, A!Open, A!Goto, A!tables
<1>5. ASSUME NEW t \in Sessions PROVE KnowsNewcomer(t)'
  BY DEF VisitInv, KnowsNewcomer, A!FinishDialog, A!Open, A!Goto, A!tables
<1>6. ASSUME NEW t \in Sessions PROVE LooksFirst(t)'
  BY DEF VisitInv, LooksFirst, A!FinishDialog, A!Open, A!Goto, A!tables
<1>7. ASSUME NEW t \in Sessions PROVE PaysOnce(t)'
  BY DEF VisitInv, PaysOnce, A!FinishDialog, A!Open, A!Goto, A!tables
<1>8. BooksOfCampaigns'
  BY DEF VisitInv, BooksOfCampaigns, A!FinishDialog, A!Open, A!Goto, A!tables
<1>9. AnnouncedOrWill'
  BY DEF VisitInv, AnnouncedOrWill, Announces, AuditPlaces, A!FinishDialog, A!Open, A!Goto,
     A!tables
<1> QED BY <1>1, <1>2, <1>3, <1>4, <1>5, <1>6, <1>7, <1>8, <1>9 DEF VisitInv

(* A request of the cabinet by somebody unknown. *)
LEMMA OpenNewcomerKeeps ==
    ASSUME VisitConstants, VisitInv, NEW s \in Sessions, NEW r \in Referrers \cup {None},
           A!OpenNewcomer(s, r)
    PROVE  VisitInv'
<1>1. VisitTypes'
  BY DEF VisitInv, VisitTypes, Places, LinkPlaces, NewcomerPlaces, VisitPlaces, BonusPlaces,
     AuditPlaces, A!OpenNewcomer, A!Open, A!Goto, A!tables
<1>2. ASSUME NEW t \in Sessions PROVE ErrandOK(t)'
  BY DEF VisitInv, VisitTypes, ErrandOK, NewcomerPlaces, VisitPlaces, BonusPlaces, AuditPlaces,
     A!OpenNewcomer, A!Open, A!Goto
<1>3. Unborn'
  BY DEF VisitInv, Unborn, VisitPlaces, A!OpenNewcomer, A!Open, A!Goto, A!tables
<1>4. ASSUME NEW t \in Sessions PROVE FlushedOK(t)'
  BY DEF VisitInv, FlushedOK, AuditPlaces, A!OpenNewcomer, A!Open, A!Goto, A!tables
<1>5. ASSUME NEW t \in Sessions PROVE KnowsNewcomer(t)'
  BY DEF VisitInv, KnowsNewcomer, A!OpenNewcomer, A!Open, A!Goto, A!tables
<1>6. ASSUME NEW t \in Sessions PROVE LooksFirst(t)'
  BY DEF VisitInv, LooksFirst, A!OpenNewcomer, A!Open, A!Goto, A!tables
<1>7. ASSUME NEW t \in Sessions PROVE PaysOnce(t)'
  BY DEF VisitInv, PaysOnce, A!OpenNewcomer, A!Open, A!Goto, A!tables
<1>8. BooksOfCampaigns'
  BY DEF VisitInv, BooksOfCampaigns, A!OpenNewcomer, A!Open, A!Goto, A!tables
<1>9. AnnouncedOrWill'
  BY DEF VisitInv, AnnouncedOrWill, Announces, AuditPlaces, A!OpenNewcomer, A!Open, A!Goto,
     A!tables
<1> QED BY <1>1, <1>2, <1>3, <1>4, <1>5, <1>6, <1>7, <1>8, <1>9 DEF VisitInv

(* A visit by a campaign. *)
LEMMA OpenCampaignKeeps ==
    ASSUME VisitConstants, VisitInv, NEW s \in Sessions, NEW c \in Campaigns, A!OpenCampaign(s, c)
    PROVE  VisitInv'
<1>1. VisitTypes'
  BY DEF VisitConstants, VisitInv, VisitTypes, Places, LinkPlaces, NewcomerPlaces, VisitPlaces,
     BonusPlaces, AuditPlaces, A!OpenCampaign, A!Open, A!Goto, A!tables
<1>2. ASSUME NEW t \in Sessions PROVE ErrandOK(t)'
  BY DEF VisitInv, VisitTypes, ErrandOK, NewcomerPlaces, VisitPlaces, BonusPlaces, AuditPlaces,
     A!OpenCampaign, A!Open, A!Goto
<1>3. Unborn'
  BY DEF VisitInv, Unborn, VisitPlaces, A!OpenCampaign, A!Open, A!Goto, A!tables
<1>4. ASSUME NEW t \in Sessions PROVE FlushedOK(t)'
  BY DEF VisitInv, FlushedOK, AuditPlaces, A!OpenCampaign, A!Open, A!Goto, A!tables
<1>5. ASSUME NEW t \in Sessions PROVE KnowsNewcomer(t)'
  BY DEF VisitInv, KnowsNewcomer, A!OpenCampaign, A!Open, A!Goto, A!tables
<1>6. ASSUME NEW t \in Sessions PROVE LooksFirst(t)'
  BY DEF VisitInv, LooksFirst, A!OpenCampaign, A!Open, A!Goto, A!tables
<1>7. ASSUME NEW t \in Sessions PROVE PaysOnce(t)'
  BY DEF VisitInv, PaysOnce, A!OpenCampaign, A!Open, A!Goto, A!tables
<1>8. BooksOfCampaigns'
  BY DEF VisitInv, BooksOfCampaigns, A!OpenCampaign, A!Open, A!Goto, A!tables
<1>9. AnnouncedOrWill'
  BY DEF VisitInv, AnnouncedOrWill, Announces, AuditPlaces, A!OpenCampaign, A!Open, A!Goto,
     A!tables
<1> QED BY <1>1, <1>2, <1>3, <1>4, <1>5, <1>6, <1>7, <1>8, <1>9 DEF VisitInv

(* The conditional UPDATE: the winner is about to announce. *)
LEMMA CompareAndSetKeeps ==
    ASSUME VisitConstants, VisitInv, NEW s \in Sessions, A!CompareAndSet(s)
    PROVE  VisitInv'
<1>1. VisitTypes'
  BY DEF VisitInv, VisitTypes, Places, LinkPlaces, NewcomerPlaces, VisitPlaces, BonusPlaces,
     AuditPlaces, A!CompareAndSet, A!Goto, A!errand
<1>2. ASSUME NEW t \in Sessions PROVE ErrandOK(t)'
  BY DEF VisitInv, VisitTypes, ErrandOK, NewcomerPlaces, VisitPlaces, BonusPlaces, AuditPlaces,
     A!CompareAndSet, A!Goto, A!errand
<1>3. Unborn'
  BY DEF VisitInv, Unborn, VisitPlaces, AuditPlaces, A!CompareAndSet, A!Goto
<1>4. ASSUME NEW t \in Sessions PROVE FlushedOK(t)'
  BY DEF VisitConstants, VisitInv, FlushedOK, AuditPlaces, A!CompareAndSet, A!Goto, A!Free
<1>5. ASSUME NEW t \in Sessions PROVE KnowsNewcomer(t)'
  BY DEF VisitConstants, VisitInv, VisitTypes, KnowsNewcomer, A!CompareAndSet, A!Goto, A!Free
<1>6. ASSUME NEW t \in Sessions PROVE LooksFirst(t)'
  BY DEF VisitInv, VisitTypes, LooksFirst, A!CompareAndSet, A!Goto, A!errand
<1>7. ASSUME NEW t \in Sessions PROVE PaysOnce(t)'
  BY DEF VisitInv, VisitTypes, PaysOnce, A!CompareAndSet, A!Goto, A!errand
<1>8. BooksOfCampaigns'
  BY DEF VisitInv, BooksOfCampaigns, A!CompareAndSet, A!Goto
<1>9. AnnouncedOrWill'
  BY DEF VisitInv, VisitTypes, AnnouncedOrWill, Announces, AuditPlaces, A!CompareAndSet, A!Goto,
     A!errand
<1> QED BY <1>1, <1>2, <1>3, <1>4, <1>5, <1>6, <1>7, <1>8, <1>9 DEF VisitInv

(* Reading the row again: who finds another referrer is not the one to announce. *)
LEMMA RefreshUserKeeps ==
    ASSUME VisitConstants, VisitInv, NEW s \in Sessions, A!RefreshUser(s)
    PROVE  VisitInv'
<1>1. VisitTypes'
  BY DEF VisitInv, VisitTypes, Places, LinkPlaces, NewcomerPlaces, VisitPlaces, BonusPlaces,
     AuditPlaces, A!RefreshUser, A!Goto, A!tables, A!errand
<1>2. ASSUME NEW t \in Sessions PROVE ErrandOK(t)'
  BY DEF VisitInv, ErrandOK, NewcomerPlaces, VisitPlaces, BonusPlaces, AuditPlaces,
     A!RefreshUser, A!Goto, A!tables, A!errand
<1>3. Unborn'
  BY DEF VisitInv, Unborn, VisitPlaces, A!RefreshUser, A!Goto, A!tables, A!errand
<1>4. ASSUME NEW t \in Sessions PROVE FlushedOK(t)'
  BY DEF VisitInv, FlushedOK, AuditPlaces, A!RefreshUser, A!Goto, A!tables, A!errand
<1>5. ASSUME NEW t \in Sessions PROVE KnowsNewcomer(t)'
  BY DEF VisitInv, KnowsNewcomer, A!RefreshUser, A!Goto, A!tables, A!errand
<1>6. ASSUME NEW t \in Sessions PROVE LooksFirst(t)'
  BY DEF VisitInv, LooksFirst, A!RefreshUser, A!Goto, A!tables, A!errand
<1>7. ASSUME NEW t \in Sessions PROVE PaysOnce(t)'
  BY DEF VisitInv, PaysOnce, A!RefreshUser, A!Goto, A!tables, A!errand
<1>8. BooksOfCampaigns'
  BY DEF VisitInv, BooksOfCampaigns, A!RefreshUser, A!Goto, A!tables, A!errand
<1>9. AnnouncedOrWill'
  BY DEF VisitInv, AnnouncedOrWill, Announces, AuditPlaces, A!RefreshUser, A!Goto, A!tables,
     A!errand
<1> QED BY <1>1, <1>2, <1>3, <1>4, <1>5, <1>6, <1>7, <1>8, <1>9 DEF VisitInv

(* The dialog creates the user, unless somebody else has. *)
LEMMA CreateUserKeeps ==
    ASSUME VisitConstants, VisitInv, NEW s \in Sessions, A!CreateUser(s)
    PROVE  VisitInv'
<1>1. VisitTypes'
  BY WhereTo DEF VisitInv, VisitTypes, Places, LinkPlaces, NewcomerPlaces, VisitPlaces,
     BonusPlaces, AuditPlaces, A!CreateUser, A!Settle, A!Goto, A!errand, A!Standings
<1>2. ASSUME NEW t \in Sessions PROVE ErrandOK(t)'
  BY WhereTo DEF VisitInv, VisitTypes, ErrandOK, NewcomerPlaces, VisitPlaces, BonusPlaces,
     AuditPlaces, A!CreateUser, A!Settle, A!Goto, A!errand
<1>3. Unborn'
  BY DEF VisitInv, Unborn, VisitPlaces, AuditPlaces, A!CreateUser, A!Settle, A!Goto
<1>4. ASSUME NEW t \in Sessions PROVE FlushedOK(t)'
  BY DEF VisitConstants, VisitInv, VisitTypes, FlushedOK, AuditPlaces, Unborn, A!CreateUser,
     A!Settle, A!Goto, A!errand
<1>5. ASSUME NEW t \in Sessions PROVE KnowsNewcomer(t)'
  BY WhereTo DEF VisitInv, VisitTypes, KnowsNewcomer, AuditPlaces, Unborn, A!CreateUser,
     A!Settle, A!Goto, A!errand
<1>6. ASSUME NEW t \in Sessions PROVE LooksFirst(t)'
  BY WhereTo DEF VisitInv, VisitTypes, LooksFirst, ErrandOK, NewcomerPlaces, VisitPlaces,
     BonusPlaces, AuditPlaces, A!CreateUser, A!Settle, A!Goto, A!errand
<1>7. ASSUME NEW t \in Sessions PROVE PaysOnce(t)'
  BY WhereTo DEF VisitInv, VisitTypes, PaysOnce, AuditPlaces, A!CreateUser, A!Settle, A!Goto,
     A!errand
<1>8. BooksOfCampaigns'
  BY DEF VisitInv, BooksOfCampaigns, AuditPlaces, A!CreateUser, A!Settle, A!Goto
<1>9. AnnouncedOrWill'
  BY DEF VisitInv, VisitTypes, AnnouncedOrWill, Announces, AuditPlaces, A!CreateUser, A!Settle,
     A!Goto, A!errand
<1> QED BY <1>1, <1>2, <1>3, <1>4, <1>5, <1>6, <1>7, <1>8, <1>9 DEF VisitInv

(* The dialog restores a deleted user. *)
LEMMA RestoreUserKeeps ==
    ASSUME VisitConstants, VisitInv, NEW s \in Sessions, A!RestoreUser(s)
    PROVE  VisitInv'
<1>1. VisitTypes'
  BY WhereTo DEF VisitInv, VisitTypes, Places, LinkPlaces, NewcomerPlaces, VisitPlaces,
     BonusPlaces, AuditPlaces, A!RestoreUser, A!Settle, A!Goto, A!errand, A!Standings
<1>2. ASSUME NEW t \in Sessions PROVE ErrandOK(t)'
  BY WhereTo DEF VisitInv, VisitTypes, ErrandOK, NewcomerPlaces, VisitPlaces, BonusPlaces,
     AuditPlaces, A!RestoreUser, A!Settle, A!Goto, A!errand
<1>3. Unborn'
  BY DEF VisitInv, Unborn, VisitPlaces, AuditPlaces, A!RestoreUser, A!Settle, A!Goto
<1>4. ASSUME NEW t \in Sessions PROVE FlushedOK(t)'
  BY DEF VisitConstants, VisitInv, FlushedOK, AuditPlaces, A!RestoreUser, A!Settle, A!Goto,
     A!Free
<1>5. ASSUME NEW t \in Sessions PROVE KnowsNewcomer(t)'
  BY WhereTo DEF VisitConstants, VisitInv, KnowsNewcomer, AuditPlaces, A!RestoreUser, A!Settle,
     A!Goto, A!Free
<1>6. ASSUME NEW t \in Sessions PROVE LooksFirst(t)'
  BY WhereTo DEF VisitInv, LooksFirst, ErrandOK, NewcomerPlaces, VisitPlaces, BonusPlaces,
     AuditPlaces, A!RestoreUser, A!Settle, A!Goto, A!errand
<1>7. ASSUME NEW t \in Sessions PROVE PaysOnce(t)'
  BY WhereTo DEF VisitInv, PaysOnce, AuditPlaces, A!RestoreUser, A!Settle, A!Goto, A!errand
<1>8. BooksOfCampaigns'
  BY DEF VisitInv, BooksOfCampaigns, AuditPlaces, A!RestoreUser, A!Settle, A!Goto
<1>9. AnnouncedOrWill'
  BY DEF VisitInv, VisitTypes, AnnouncedOrWill, Announces, AuditPlaces, A!RestoreUser, A!Settle,
     A!Goto, A!errand
<1> QED BY <1>1, <1>2, <1>3, <1>4, <1>5, <1>6, <1>7, <1>8, <1>9 DEF VisitInv

(* What the dialog writes otherwise. *)
LEMMA WriteReferrerKeeps ==
    ASSUME VisitConstants, VisitInv, NEW s \in Sessions, A!WriteReferrer(s)
    PROVE  VisitInv'
<1>1. VisitTypes'
  BY WhereTo DEF VisitInv, VisitTypes, Places, LinkPlaces, NewcomerPlaces, VisitPlaces,
     BonusPlaces, AuditPlaces, A!WriteReferrer, A!Settle, A!Goto, A!errand, A!Standings
<1>2. ASSUME NEW t \in Sessions PROVE ErrandOK(t)'
  BY WhereTo DEF VisitInv, VisitTypes, ErrandOK, NewcomerPlaces, VisitPlaces, BonusPlaces,
     AuditPlaces, A!WriteReferrer, A!Settle, A!Goto, A!errand
<1>3. Unborn'
  BY DEF VisitInv, Unborn, VisitPlaces, AuditPlaces, A!WriteReferrer, A!Settle, A!Goto
<1>4. ASSUME NEW t \in Sessions PROVE FlushedOK(t)'
  BY DEF VisitConstants, VisitInv, FlushedOK, AuditPlaces, A!WriteReferrer, A!Settle, A!Goto,
     A!Free
<1>5. ASSUME NEW t \in Sessions PROVE KnowsNewcomer(t)'
  BY WhereTo DEF VisitConstants, VisitInv, KnowsNewcomer, AuditPlaces, A!WriteReferrer,
     A!Settle, A!Goto, A!Free
<1>6. ASSUME NEW t \in Sessions PROVE LooksFirst(t)'
  BY WhereTo DEF VisitInv, LooksFirst, ErrandOK, NewcomerPlaces, VisitPlaces, BonusPlaces,
     AuditPlaces, A!WriteReferrer, A!Settle, A!Goto, A!errand
<1>7. ASSUME NEW t \in Sessions PROVE PaysOnce(t)'
  BY WhereTo DEF VisitInv, PaysOnce, AuditPlaces, A!WriteReferrer, A!Settle, A!Goto, A!errand
<1>8. BooksOfCampaigns'
  BY DEF VisitInv, BooksOfCampaigns, AuditPlaces, A!WriteReferrer, A!Settle, A!Goto
<1>9. AnnouncedOrWill'
  BY DEF VisitInv, VisitTypes, AnnouncedOrWill, Announces, AuditPlaces, A!WriteReferrer,
     A!Settle, A!Goto, A!errand
<1> QED BY <1>1, <1>2, <1>3, <1>4, <1>5, <1>6, <1>7, <1>8, <1>9 DEF VisitInv

(* The cabinet creates the user, unless somebody else has. *)
LEMMA CreateInCabinetKeeps ==
    ASSUME VisitConstants, VisitInv, NEW s \in Sessions, A!CreateInCabinet(s)
    PROVE  VisitInv'
<1>1. VisitTypes'
  BY DEF VisitInv, VisitTypes, Places, LinkPlaces, NewcomerPlaces, VisitPlaces, BonusPlaces,
     AuditPlaces, A!CreateInCabinet, A!Goto, A!errand, A!Standings
<1>2. ASSUME NEW t \in Sessions PROVE ErrandOK(t)'
  BY DEF VisitInv, VisitTypes, ErrandOK, NewcomerPlaces, VisitPlaces, BonusPlaces, AuditPlaces,
     A!CreateInCabinet, A!Goto, A!errand
<1>3. Unborn'
  BY DEF VisitInv, Unborn, VisitPlaces, AuditPlaces, A!CreateInCabinet, A!Goto
<1>4. ASSUME NEW t \in Sessions PROVE FlushedOK(t)'
  BY DEF VisitConstants, VisitInv, VisitTypes, FlushedOK, AuditPlaces, Unborn,
     A!CreateInCabinet, A!Goto, A!errand
<1>5. ASSUME NEW t \in Sessions PROVE KnowsNewcomer(t)'
  BY DEF VisitInv, VisitTypes, KnowsNewcomer, AuditPlaces, Unborn, A!CreateInCabinet, A!Goto,
     A!errand
<1>6. ASSUME NEW t \in Sessions PROVE LooksFirst(t)'
  BY DEF VisitInv, VisitTypes, LooksFirst, AuditPlaces, A!CreateInCabinet, A!Goto, A!errand
<1>7. ASSUME NEW t \in Sessions PROVE PaysOnce(t)'
  BY DEF VisitInv, VisitTypes, PaysOnce, AuditPlaces, A!CreateInCabinet, A!Goto, A!errand
<1>8. BooksOfCampaigns'
  BY DEF VisitInv, BooksOfCampaigns, AuditPlaces, A!CreateInCabinet, A!Goto
<1>9. AnnouncedOrWill'
  BY DEF VisitInv, VisitTypes, AnnouncedOrWill, Announces, AuditPlaces, A!CreateInCabinet,
     A!Goto, A!errand
<1> QED BY <1>1, <1>2, <1>3, <1>4, <1>5, <1>6, <1>7, <1>8, <1>9 DEF VisitInv

(* Locking the row of a new user, and reading it again. *)
LEMMA LockNewcomerKeeps ==
    ASSUME VisitConstants, VisitInv, NEW s \in Sessions, A!LockNewcomer(s)
    PROVE  VisitInv'
<1>1. VisitTypes'
  BY DEF VisitInv, VisitTypes, Places, LinkPlaces, NewcomerPlaces, VisitPlaces, BonusPlaces,
     AuditPlaces, A!LockNewcomer, A!Goto, A!tables
<1>2. ASSUME NEW t \in Sessions PROVE ErrandOK(t)'
  BY DEF VisitInv, ErrandOK, NewcomerPlaces, VisitPlaces, BonusPlaces, AuditPlaces,
     A!LockNewcomer, A!Goto
<1>3. Unborn'
  BY DEF VisitInv, Unborn, VisitPlaces, AuditPlaces, A!LockNewcomer, A!Goto, A!tables
<1>4. ASSUME NEW t \in Sessions PROVE FlushedOK(t)'
  BY DEF VisitConstants, VisitInv, FlushedOK, AuditPlaces, A!LockNewcomer, A!Goto
<1>5. ASSUME NEW t \in Sessions PROVE KnowsNewcomer(t)'
  BY DEF VisitConstants, VisitInv, VisitTypes, KnowsNewcomer, AuditPlaces, A!LockNewcomer,
     A!Goto, A!tables
<1>6. ASSUME NEW t \in Sessions PROVE LooksFirst(t)'
  BY DEF VisitConstants, VisitInv, LooksFirst, AuditPlaces, A!LockNewcomer, A!Goto
<1>7. ASSUME NEW t \in Sessions PROVE PaysOnce(t)'
  BY DEF VisitInv, PaysOnce, AuditPlaces, A!LockNewcomer, A!Goto, A!tables
<1>8. BooksOfCampaigns'
  BY DEF VisitInv, BooksOfCampaigns, AuditPlaces, A!LockNewcomer, A!Goto, A!tables
<1>9. AnnouncedOrWill'
  BY DEF VisitInv, AnnouncedOrWill, Announces, AuditPlaces, A!LockNewcomer, A!Goto
<1> QED BY <1>1, <1>2, <1>3, <1>4, <1>5, <1>6, <1>7, <1>8, <1>9 DEF VisitInv

(* His referrer is to be announced, or flushed and to be announced. *)
LEMMA ProcessCodeKeeps ==
    ASSUME VisitConstants, VisitInv, NEW s \in Sessions, A!ProcessCode(s)
    PROVE  VisitInv'
<1>1. VisitTypes'
  BY DEF VisitInv, VisitTypes, Places, LinkPlaces, NewcomerPlaces, VisitPlaces, BonusPlaces,
     AuditPlaces, A!ProcessCode, A!Goto, A!tables
<1>2. ASSUME NEW t \in Sessions PROVE ErrandOK(t)'
  BY DEF VisitInv, VisitTypes, ErrandOK, NewcomerPlaces, VisitPlaces, BonusPlaces, AuditPlaces,
     A!ProcessCode, A!Goto
<1>3. Unborn'
  BY DEF VisitInv, Unborn, VisitPlaces, AuditPlaces, A!ProcessCode, A!Goto, A!tables
<1>4. ASSUME NEW t \in Sessions PROVE FlushedOK(t)'
  BY DEF VisitInv, VisitTypes, FlushedOK, AuditPlaces, ErrandOK, NewcomerPlaces, VisitPlaces,
     BonusPlaces, KnowsNewcomer, A!ProcessCode, A!Goto, A!tables
<1>5. ASSUME NEW t \in Sessions PROVE KnowsNewcomer(t)'
  BY DEF VisitInv, KnowsNewcomer, AuditPlaces, A!ProcessCode, A!Goto, A!tables
<1>6. ASSUME NEW t \in Sessions PROVE LooksFirst(t)'
  BY DEF VisitInv, LooksFirst, AuditPlaces, A!ProcessCode, A!Goto, A!tables
<1>7. ASSUME NEW t \in Sessions PROVE PaysOnce(t)'
  BY DEF VisitInv, PaysOnce, AuditPlaces, A!ProcessCode, A!Goto, A!tables
<1>8. BooksOfCampaigns'
  BY DEF VisitInv, BooksOfCampaigns, AuditPlaces, A!ProcessCode, A!Goto, A!tables
<1>9. AnnouncedOrWill'
  BY DEF VisitInv, VisitTypes, AnnouncedOrWill, Announces, AuditPlaces, KnowsNewcomer,
     A!ProcessCode, A!Goto, A!tables
<1> QED BY <1>1, <1>2, <1>3, <1>4, <1>5, <1>6, <1>7, <1>8, <1>9 DEF VisitInv

(* Looking for an audit row. *)
LEMMA LookForAuditKeeps ==
    ASSUME VisitConstants, VisitInv, NEW s \in Sessions, A!LookForAudit(s)
    PROVE  VisitInv'
<1>1. VisitTypes'
  BY WhereTo DEF VisitInv, VisitTypes, Places, LinkPlaces, NewcomerPlaces, VisitPlaces,
     BonusPlaces, AuditPlaces, A!LookForAudit, A!Goto, A!errand, A!Rollback, A!Unlock
<1>2. ASSUME NEW t \in Sessions PROVE ErrandOK(t)'
  BY WhereTo DEF VisitInv, VisitTypes, ErrandOK, NewcomerPlaces, VisitPlaces, BonusPlaces,
     AuditPlaces, A!LookForAudit, A!Goto, A!errand, A!Rollback
<1>3. Unborn'
  BY WhereTo DEF VisitInv, VisitTypes, Unborn, VisitPlaces, AuditPlaces, A!LookForAudit, A!Goto,
     A!Rollback, A!Unlock
<1>4. ASSUME NEW t \in Sessions PROVE FlushedOK(t)'
  BY WhereTo DEF VisitInv, VisitTypes, FlushedOK, AuditPlaces, A!LookForAudit, A!Goto, A!errand,
     A!Rollback, A!Unlock
<1>5. ASSUME NEW t \in Sessions PROVE KnowsNewcomer(t)'
  BY WhereTo DEF VisitInv, VisitTypes, KnowsNewcomer, AuditPlaces, A!LookForAudit, A!Goto,
     A!errand, A!Rollback, A!Unlock
<1>6. ASSUME NEW t \in Sessions PROVE LooksFirst(t)'
  BY WhereTo DEF VisitConstants, VisitInv, VisitTypes, LooksFirst, ErrandOK, NewcomerPlaces,
     VisitPlaces, BonusPlaces, AuditPlaces, A!Direct, A!LookForAudit, A!Goto, A!errand,
     A!Rollback, A!Unlock
<1>7. ASSUME NEW t \in Sessions PROVE PaysOnce(t)'
  BY WhereTo DEF VisitInv, VisitTypes, PaysOnce, AuditPlaces, A!LookForAudit, A!Goto, A!errand,
     A!Rollback
<1>8. BooksOfCampaigns'
  BY DEF VisitInv, BooksOfCampaigns, AuditPlaces, A!LookForAudit, A!Goto, A!Rollback
<1>9. AnnouncedOrWill'
  BY DEF VisitInv, VisitTypes, AnnouncedOrWill, Announces, AuditPlaces, A!LookForAudit, A!Goto,
     A!errand, A!Rollback
<1> QED BY <1>1, <1>2, <1>3, <1>4, <1>5, <1>6, <1>7, <1>8, <1>9 DEF VisitInv

(* Inserting one commits the partner, or undoes what was flushed if there is one already. *)
LEMMA InsertAuditKeeps ==
    ASSUME VisitConstants, VisitInv, NEW s \in Sessions, A!InsertAudit(s)
    PROVE  VisitInv'
<1>1. VisitTypes'
  BY WhereTo DEF VisitInv, VisitTypes, Places, LinkPlaces, NewcomerPlaces, VisitPlaces,
     BonusPlaces, AuditPlaces, A!InsertAudit, A!Goto, A!errand, A!Commit, A!Rollback, A!Unlock
<1>2. ASSUME NEW t \in Sessions PROVE ErrandOK(t)'
  BY WhereTo DEF VisitInv, VisitTypes, ErrandOK, NewcomerPlaces, VisitPlaces, BonusPlaces,
     AuditPlaces, A!InsertAudit, A!Goto, A!errand, A!Commit, A!Rollback
<1>3. Unborn'
  BY WhereTo DEF VisitConstants, VisitInv, VisitTypes, Unborn, VisitPlaces, AuditPlaces,
     FlushedOK, A!InsertAudit, A!Goto, A!Commit, A!Rollback, A!Unlock
<1>4. ASSUME NEW t \in Sessions PROVE FlushedOK(t)'
  BY DEF VisitInv, VisitTypes, FlushedOK, AuditPlaces, A!InsertAudit, A!Goto, A!errand,
     A!Commit, A!Rollback, A!Unlock
<1>5. ASSUME NEW t \in Sessions PROVE KnowsNewcomer(t)'
  BY WhereTo DEF VisitInv, VisitTypes, KnowsNewcomer, AuditPlaces, FlushedOK, A!InsertAudit,
     A!Goto, A!errand, A!Commit, A!Rollback, A!Unlock
<1>6. ASSUME NEW t \in Sessions PROVE LooksFirst(t)'
  BY WhereTo DEF VisitConstants, VisitInv, VisitTypes, LooksFirst, ErrandOK, NewcomerPlaces,
     VisitPlaces, BonusPlaces, AuditPlaces, A!Direct, A!InsertAudit, A!Goto, A!errand, A!Commit,
     A!Rollback, A!Unlock
<1>7. ASSUME NEW t \in Sessions PROVE PaysOnce(t)'
  BY WhereTo DEF VisitInv, VisitTypes, PaysOnce, AuditPlaces, A!InsertAudit, A!Goto, A!errand,
     A!Commit, A!Rollback
<1>8. BooksOfCampaigns'
  BY DEF VisitInv, BooksOfCampaigns, AuditPlaces, A!InsertAudit, A!Goto, A!Commit, A!Rollback
<1>9. AnnouncedOrWill'
  <2> SUFFICES ASSUME visitFaults = 0, referrer' # None
               PROVE  audit'[referrer'] = 1 \/ \E t \in Sessions : Announces(t)'
    BY DEF AnnouncedOrWill, A!InsertAudit
  <2>1. want[s] \in Referrers /\ audit'[want[s]] = 1
    BY DEF VisitInv, VisitTypes, ErrandOK, AuditPlaces, A!InsertAudit
  <2>2. \A r \in Referrers : audit[r] = 1 => audit'[r] = 1
    BY DEF VisitInv, VisitTypes, A!InsertAudit
  <2>3. CASE referrer' # referrer
    <3>1. referrer' = written[s] /\ written[s] = want[s]
      BY <2>3 DEF VisitInv, FlushedOK, AuditPlaces, A!InsertAudit, A!Commit, A!Rollback
    <3> QED BY <2>1, <3>1
  <2>4. CASE referrer' = referrer
    <3>1. CASE audit[referrer] = 1
      BY <2>2, <2>4, <3>1 DEF VisitInv, VisitTypes
    <3>2. CASE audit[referrer] # 1
      <4>1. PICK t \in Sessions : Announces(t)
        BY <2>4, <3>2 DEF VisitInv, AnnouncedOrWill
      <4>2. CASE t = s
        BY <2>1, <2>4, <4>1, <4>2 DEF Announces, A!InsertAudit
      <4>3. CASE t # s
        <5>1. visit'[t] = visit[t] /\ want'[t] = want[t]
          BY <4>3 DEF A!InsertAudit, A!Goto, A!errand, VisitInv, VisitTypes
        <5>2. Announces(t)'
          BY <2>4, <4>1, <5>1 DEF Announces
        <5> QED BY <5>2
      <4> QED BY <4>2, <4>3
    <3> QED BY <3>1, <3>2
  <2> QED BY <2>3, <2>4
<1> QED BY <1>1, <1>2, <1>3, <1>4, <1>5, <1>6, <1>7, <1>8, <1>9 DEF VisitInv

(* A deleted user is revived. *)
LEMMA ReviveUserKeeps ==
    ASSUME VisitConstants, VisitInv, NEW s \in Sessions, A!ReviveUser(s)
    PROVE  VisitInv'
<1>1. VisitTypes'
  BY DEF VisitInv, VisitTypes, Places, LinkPlaces, NewcomerPlaces, VisitPlaces, BonusPlaces,
     AuditPlaces, A!ReviveUser, A!Goto, A!errand, A!Standings
<1>2. ASSUME NEW t \in Sessions PROVE ErrandOK(t)'
  BY DEF VisitInv, ErrandOK, NewcomerPlaces, VisitPlaces, BonusPlaces, AuditPlaces,
     A!ReviveUser, A!Goto, A!errand, A!Standings
<1>3. Unborn'
  BY DEF VisitInv, Unborn, VisitPlaces, AuditPlaces, A!ReviveUser, A!Goto, A!Standings
<1>4. ASSUME NEW t \in Sessions PROVE FlushedOK(t)'
  BY DEF VisitInv, FlushedOK, AuditPlaces, A!ReviveUser, A!Goto, A!errand, A!Standings
<1>5. ASSUME NEW t \in Sessions PROVE KnowsNewcomer(t)'
  BY DEF VisitInv, KnowsNewcomer, AuditPlaces, A!ReviveUser, A!Goto, A!errand, A!Standings
<1>6. ASSUME NEW t \in Sessions PROVE LooksFirst(t)'
  BY DEF VisitInv, LooksFirst, AuditPlaces, A!ReviveUser, A!Goto, A!errand, A!Standings
<1>7. ASSUME NEW t \in Sessions PROVE PaysOnce(t)'
  BY DEF VisitInv, PaysOnce, AuditPlaces, A!ReviveUser, A!Goto, A!errand, A!Standings
<1>8. BooksOfCampaigns'
  BY DEF VisitInv, BooksOfCampaigns, AuditPlaces, A!ReviveUser, A!Goto, A!Standings
<1>9. AnnouncedOrWill'
  BY DEF VisitInv, AnnouncedOrWill, Announces, AuditPlaces, A!ReviveUser, A!Goto, A!errand,
     A!Standings
<1> QED BY <1>1, <1>2, <1>3, <1>4, <1>5, <1>6, <1>7, <1>8, <1>9 DEF VisitInv

(* Locking the row. *)
LEMMA LockUserKeeps ==
    ASSUME VisitConstants, VisitInv, NEW s \in Sessions, A!LockUser(s)
    PROVE  VisitInv'
<1>1. VisitTypes'
  BY DEF VisitInv, VisitTypes, Places, LinkPlaces, NewcomerPlaces, VisitPlaces, BonusPlaces,
     AuditPlaces, A!LockUser, A!Goto, A!tables, A!errand
<1>2. ASSUME NEW t \in Sessions PROVE ErrandOK(t)'
  BY DEF VisitInv, ErrandOK, NewcomerPlaces, VisitPlaces, BonusPlaces, AuditPlaces, A!LockUser,
     A!Goto, A!tables, A!errand
<1>3. Unborn'
  BY DEF VisitInv, Unborn, VisitPlaces, AuditPlaces, A!LockUser, A!Goto, A!tables, A!errand
<1>4. ASSUME NEW t \in Sessions PROVE FlushedOK(t)'
  BY DEF VisitConstants, VisitInv, FlushedOK, AuditPlaces, A!LockUser, A!Goto
<1>5. ASSUME NEW t \in Sessions PROVE KnowsNewcomer(t)'
  BY DEF VisitConstants, VisitInv, KnowsNewcomer, AuditPlaces, A!LockUser, A!Goto
<1>6. ASSUME NEW t \in Sessions PROVE LooksFirst(t)'
  BY DEF VisitConstants, VisitInv, LooksFirst, AuditPlaces, A!LockUser, A!Goto, A!tables,
     A!errand
<1>7. ASSUME NEW t \in Sessions PROVE PaysOnce(t)'
  BY DEF VisitInv, PaysOnce, AuditPlaces, A!LockUser, A!Goto, A!tables, A!errand
<1>8. BooksOfCampaigns'
  BY DEF VisitInv, BooksOfCampaigns, AuditPlaces, A!LockUser, A!Goto, A!tables, A!errand
<1>9. AnnouncedOrWill'
  BY DEF VisitInv, AnnouncedOrWill, Announces, AuditPlaces, A!LockUser, A!Goto, A!tables,
     A!errand
<1> QED BY <1>1, <1>2, <1>3, <1>4, <1>5, <1>6, <1>7, <1>8, <1>9 DEF VisitInv

(* Nothing to do for a user who is registered. *)
LEMMA AlreadyRegisteredKeeps ==
    ASSUME VisitConstants, VisitInv, NEW s \in Sessions, A!AlreadyRegistered(s)
    PROVE  VisitInv'
<1>1. VisitTypes'
  BY DEF VisitInv, VisitTypes, Places, LinkPlaces, NewcomerPlaces, VisitPlaces, BonusPlaces,
     AuditPlaces, A!AlreadyRegistered, A!Goto, A!tables, A!errand, A!Unlock
<1>2. ASSUME NEW t \in Sessions PROVE ErrandOK(t)'
  BY DEF VisitInv, ErrandOK, NewcomerPlaces, VisitPlaces, BonusPlaces, AuditPlaces,
     A!AlreadyRegistered, A!Goto, A!tables, A!errand
<1>3. Unborn'
  BY DEF VisitInv, Unborn, VisitPlaces, AuditPlaces, A!AlreadyRegistered, A!Goto, A!tables,
     A!errand
<1>4. ASSUME NEW t \in Sessions PROVE FlushedOK(t)'
  BY DEF VisitInv, FlushedOK, AuditPlaces, A!AlreadyRegistered, A!Goto, A!tables, A!errand,
     A!Unlock
<1>5. ASSUME NEW t \in Sessions PROVE KnowsNewcomer(t)'
  BY DEF VisitInv, KnowsNewcomer, AuditPlaces, A!AlreadyRegistered, A!Goto, A!tables, A!errand,
     A!Unlock
<1>6. ASSUME NEW t \in Sessions PROVE LooksFirst(t)'
  BY DEF VisitInv, VisitTypes, LooksFirst, AuditPlaces, A!AlreadyRegistered, A!Goto, A!tables,
     A!errand
<1>7. ASSUME NEW t \in Sessions PROVE PaysOnce(t)'
  BY DEF VisitInv, PaysOnce, AuditPlaces, A!AlreadyRegistered, A!Goto, A!tables, A!errand
<1>8. BooksOfCampaigns'
  BY DEF VisitInv, BooksOfCampaigns, AuditPlaces, A!AlreadyRegistered, A!Goto, A!tables,
     A!errand
<1>9. AnnouncedOrWill'
  BY DEF VisitInv, AnnouncedOrWill, Announces, AuditPlaces, A!AlreadyRegistered, A!Goto,
     A!tables, A!errand
<1> QED BY <1>1, <1>2, <1>3, <1>4, <1>5, <1>6, <1>7, <1>8, <1>9 DEF VisitInv

(* The partner of the campaign is flushed. *)
LEMMA AttributeToPartnerKeeps ==
    ASSUME VisitConstants, VisitInv, NEW s \in Sessions, A!AttributeToPartner(s)
    PROVE  VisitInv'
<1>1. VisitTypes'
  BY WhereTo DEF VisitInv, VisitTypes, Places, LinkPlaces, NewcomerPlaces, VisitPlaces,
     BonusPlaces, AuditPlaces, A!AttributeToPartner, A!Goto, A!tables, A!errand
<1>2. ASSUME NEW t \in Sessions PROVE ErrandOK(t)'
  BY WhereTo DEF VisitInv, VisitTypes, ErrandOK, NewcomerPlaces, VisitPlaces, BonusPlaces,
     AuditPlaces, A!AttributeToPartner, A!Goto, A!tables, A!errand
<1>3. Unborn'
  BY DEF VisitInv, Unborn, VisitPlaces, AuditPlaces, A!AttributeToPartner, A!Goto, A!tables,
     A!errand
<1>4. ASSUME NEW t \in Sessions PROVE FlushedOK(t)'
  BY DEF VisitInv, VisitTypes, FlushedOK, AuditPlaces, ErrandOK, NewcomerPlaces, VisitPlaces,
     BonusPlaces, LooksFirst, A!AttributeToPartner, A!Goto, A!tables, A!errand
<1>5. ASSUME NEW t \in Sessions PROVE KnowsNewcomer(t)'
  BY WhereTo DEF VisitInv, VisitTypes, KnowsNewcomer, AuditPlaces, A!AttributeToPartner, A!Goto,
     A!tables, A!errand
<1>6. ASSUME NEW t \in Sessions PROVE LooksFirst(t)'
  BY DEF VisitInv, VisitTypes, LooksFirst, AuditPlaces, A!AttributeToPartner, A!Goto, A!tables,
     A!errand
<1>7. ASSUME NEW t \in Sessions PROVE PaysOnce(t)'
  BY WhereTo DEF VisitInv, VisitTypes, PaysOnce, AuditPlaces, A!AttributeToPartner, A!Goto,
     A!tables, A!errand
<1>8. BooksOfCampaigns'
  BY DEF VisitInv, BooksOfCampaigns, AuditPlaces, A!AttributeToPartner, A!Goto, A!tables,
     A!errand
<1>9. AnnouncedOrWill'
  BY DEF VisitInv, VisitTypes, AnnouncedOrWill, Announces, AuditPlaces, A!AttributeToPartner,
     A!Goto, A!tables, A!errand
<1> QED BY <1>1, <1>2, <1>3, <1>4, <1>5, <1>6, <1>7, <1>8, <1>9 DEF VisitInv

(* A subscription is granted, and whatever was flushed is committed. *)
LEMMA GrantBonusKeeps ==
    ASSUME VisitConstants, VisitInv, NEW s \in Sessions, A!GrantBonus(s)
    PROVE  VisitInv'
<1>1. VisitTypes'
  BY DEF VisitInv, VisitTypes, Places, LinkPlaces, NewcomerPlaces, VisitPlaces, BonusPlaces,
     AuditPlaces, A!GrantBonus, A!Goto, A!errand, A!Commit, A!Rollback, A!Unlock
<1>2. ASSUME NEW t \in Sessions PROVE ErrandOK(t)'
  BY DEF VisitInv, VisitTypes, ErrandOK, NewcomerPlaces, VisitPlaces, BonusPlaces, AuditPlaces,
     A!GrantBonus, A!Goto, A!errand, A!Commit, A!Rollback
<1>3. Unborn'
  BY DEF VisitConstants, VisitInv, VisitTypes, Unborn, VisitPlaces, AuditPlaces, FlushedOK,
     A!GrantBonus, A!Goto, A!Commit, A!Rollback, A!Unlock
<1>4. ASSUME NEW t \in Sessions PROVE FlushedOK(t)'
  BY DEF VisitInv, VisitTypes, FlushedOK, AuditPlaces, A!GrantBonus, A!Goto, A!errand, A!Commit,
     A!Rollback, A!Unlock
<1>5. ASSUME NEW t \in Sessions PROVE KnowsNewcomer(t)'
  BY DEF VisitInv, VisitTypes, KnowsNewcomer, AuditPlaces, FlushedOK, A!GrantBonus, A!Goto,
     A!errand, A!Commit, A!Rollback, A!Unlock
<1>6. ASSUME NEW t \in Sessions PROVE LooksFirst(t)'
  BY DEF VisitInv, VisitTypes, LooksFirst, AuditPlaces, PaysOnce, A!Direct, A!GrantBonus,
     A!Goto, A!errand, A!Commit, A!Rollback, A!Unlock
<1>7. ASSUME NEW t \in Sessions PROVE PaysOnce(t)'
  BY DEF VisitInv, VisitTypes, PaysOnce, ErrandOK, NewcomerPlaces, VisitPlaces, BonusPlaces,
     AuditPlaces, A!GrantBonus, A!Goto, A!errand, A!Commit, A!Rollback
<1>8. BooksOfCampaigns'
  BY DEF VisitInv, VisitTypes, BooksOfCampaigns, AuditPlaces, PaysOnce, A!GrantBonus, A!Goto,
     A!Commit, A!Rollback
<1>9. AnnouncedOrWill'
  BY DEF VisitInv, VisitTypes, AnnouncedOrWill, Announces, AuditPlaces, FlushedOK, A!GrantBonus,
     A!Goto, A!errand, A!Commit, A!Rollback
<1> QED BY <1>1, <1>2, <1>3, <1>4, <1>5, <1>6, <1>7, <1>8, <1>9 DEF VisitInv

(* The registration is inserted, and with it whatever was flushed is committed. *)
LEMMA RecordRegistrationKeeps ==
    ASSUME VisitConstants, VisitInv, NEW s \in Sessions, A!RecordRegistration(s)
    PROVE  VisitInv'
<1>1. VisitTypes'
  BY DEF VisitInv, VisitTypes, Places, LinkPlaces, NewcomerPlaces, VisitPlaces, BonusPlaces,
     AuditPlaces, ErrandOK, A!RecordRegistration, A!Goto, A!errand, A!Commit, A!Rollback,
     A!Unlock
<1>2. ASSUME NEW t \in Sessions PROVE ErrandOK(t)'
  BY DEF VisitInv, VisitTypes, ErrandOK, NewcomerPlaces, VisitPlaces, BonusPlaces, AuditPlaces,
     A!RecordRegistration, A!Goto, A!errand, A!Commit, A!Rollback
<1>3. Unborn'
  BY DEF VisitConstants, VisitInv, VisitTypes, Unborn, VisitPlaces, AuditPlaces, FlushedOK,
     A!RecordRegistration, A!Goto, A!Commit, A!Rollback, A!Unlock
<1>4. ASSUME NEW t \in Sessions PROVE FlushedOK(t)'
  BY DEF VisitInv, VisitTypes, FlushedOK, AuditPlaces, A!RecordRegistration, A!Goto, A!errand,
     A!Commit, A!Rollback, A!Unlock
<1>5. ASSUME NEW t \in Sessions PROVE KnowsNewcomer(t)'
  BY DEF VisitInv, VisitTypes, KnowsNewcomer, AuditPlaces, FlushedOK, A!RecordRegistration,
     A!Goto, A!errand, A!Commit, A!Rollback, A!Unlock
<1>6. ASSUME NEW t \in Sessions PROVE LooksFirst(t)'
  BY DEF VisitConstants, VisitInv, VisitTypes, LooksFirst, AuditPlaces, A!RecordRegistration,
     A!Goto, A!errand, A!Commit, A!Rollback, A!Free
<1>7. ASSUME NEW t \in Sessions PROVE PaysOnce(t)'
  BY DEF VisitInv, VisitTypes, PaysOnce, ErrandOK, NewcomerPlaces, VisitPlaces, BonusPlaces,
     AuditPlaces, BooksOfCampaigns, A!RecordRegistration, A!Goto, A!errand, A!Commit, A!Rollback
<1>8. BooksOfCampaigns'
  BY DEF VisitInv, VisitTypes, BooksOfCampaigns, AuditPlaces, PaysOnce, A!RecordRegistration,
     A!Goto, A!Commit, A!Rollback
<1>9. AnnouncedOrWill'
  BY DEF VisitInv, VisitTypes, AnnouncedOrWill, Announces, AuditPlaces, FlushedOK,
     A!RecordRegistration, A!Goto, A!errand, A!Commit, A!Rollback
<1> QED BY <1>1, <1>2, <1>3, <1>4, <1>5, <1>6, <1>7, <1>8, <1>9 DEF VisitInv

(* The bonus of a campaign is paid. *)
LEMMA PayBonusKeeps ==
    ASSUME VisitConstants, VisitInv, NEW s \in Sessions, A!PayBonus(s)
    PROVE  VisitInv'
<1>1. VisitTypes'
  BY DEF VisitInv, VisitTypes, Places, LinkPlaces, NewcomerPlaces, VisitPlaces, BonusPlaces,
     AuditPlaces, ErrandOK, A!PayBonus, A!Goto, A!errand
<1>2. ASSUME NEW t \in Sessions PROVE ErrandOK(t)'
  BY DEF VisitInv, ErrandOK, NewcomerPlaces, VisitPlaces, BonusPlaces, AuditPlaces, A!PayBonus,
     A!Goto, A!errand
<1>3. Unborn'
  BY DEF VisitInv, Unborn, VisitPlaces, AuditPlaces, A!PayBonus, A!Goto
<1>4. ASSUME NEW t \in Sessions PROVE FlushedOK(t)'
  BY DEF VisitInv, FlushedOK, AuditPlaces, A!PayBonus, A!Goto, A!errand
<1>5. ASSUME NEW t \in Sessions PROVE KnowsNewcomer(t)'
  BY DEF VisitInv, KnowsNewcomer, AuditPlaces, A!PayBonus, A!Goto, A!errand
<1>6. ASSUME NEW t \in Sessions PROVE LooksFirst(t)'
  BY DEF VisitInv, LooksFirst, AuditPlaces, A!PayBonus, A!Goto, A!errand
<1>7. ASSUME NEW t \in Sessions PROVE PaysOnce(t)'
  BY DEF VisitInv, VisitTypes, PaysOnce, AuditPlaces, A!PayBonus, A!Goto, A!errand
<1>8. BooksOfCampaigns'
  BY DEF VisitInv, BooksOfCampaigns, AuditPlaces, PaysOnce, A!PayBonus, A!Goto
<1>9. AnnouncedOrWill'
  BY DEF VisitInv, AnnouncedOrWill, Announces, AuditPlaces, A!PayBonus, A!Goto, A!errand
<1> QED BY <1>1, <1>2, <1>3, <1>4, <1>5, <1>6, <1>7, <1>8, <1>9 DEF VisitInv

(* An error ends one session. *)
LEMMA VisitErrorKeeps ==
    ASSUME VisitConstants, VisitInv, NEW s \in Sessions, A!DatabaseError(s)
    PROVE  VisitInv'
<1>1. VisitTypes'
  BY DEF VisitInv, VisitTypes, Places, LinkPlaces, NewcomerPlaces, VisitPlaces, BonusPlaces,
     AuditPlaces, A!DatabaseError, A!Goto, A!errand, A!Rollback, A!Unlock
<1>2. ASSUME NEW t \in Sessions PROVE ErrandOK(t)'
  BY DEF VisitInv, ErrandOK, NewcomerPlaces, VisitPlaces, BonusPlaces, AuditPlaces,
     A!DatabaseError, A!Goto, A!errand, A!Rollback
<1>3. Unborn'
  BY DEF VisitInv, Unborn, VisitPlaces, A!DatabaseError, A!Goto, A!Rollback, A!Unlock
<1>4. ASSUME NEW t \in Sessions PROVE FlushedOK(t)'
  BY DEF VisitInv, VisitTypes, FlushedOK, AuditPlaces, A!DatabaseError, A!Goto, A!errand,
     A!Rollback, A!Unlock
<1>5. ASSUME NEW t \in Sessions PROVE KnowsNewcomer(t)'
  BY DEF VisitInv, VisitTypes, KnowsNewcomer, A!DatabaseError, A!Goto, A!errand, A!Rollback,
     A!Unlock
<1>6. ASSUME NEW t \in Sessions PROVE LooksFirst(t)'
  BY DEF VisitInv, VisitTypes, LooksFirst, A!DatabaseError, A!Goto, A!errand, A!Rollback,
     A!Unlock
<1>7. ASSUME NEW t \in Sessions PROVE PaysOnce(t)'
  BY DEF VisitInv, PaysOnce, A!DatabaseError, A!Goto, A!errand, A!Rollback
<1>8. BooksOfCampaigns'
  BY DEF VisitInv, BooksOfCampaigns, A!DatabaseError, A!Goto, A!Rollback
<1>9. AnnouncedOrWill'
  BY DEF VisitInv, VisitTypes, AnnouncedOrWill, Announces, AuditPlaces, A!DatabaseError, A!Goto,
     A!Rollback
<1> QED BY <1>1, <1>2, <1>3, <1>4, <1>5, <1>6, <1>7, <1>8, <1>9 DEF VisitInv

(* A crash ends all. *)
LEMMA VisitCrashKeeps ==
    ASSUME VisitConstants, VisitInv, A!Crash
    PROVE  VisitInv'
<1>1. VisitTypes'
  BY DEF VisitInv, VisitTypes, Places, LinkPlaces, NewcomerPlaces, VisitPlaces, BonusPlaces,
     AuditPlaces, A!Crash, A!tables, A!errand
<1>2. ASSUME NEW t \in Sessions PROVE ErrandOK(t)'
  BY DEF VisitInv, ErrandOK, NewcomerPlaces, VisitPlaces, BonusPlaces, AuditPlaces, A!Crash,
     A!tables, A!errand
<1>3. Unborn'
  BY DEF VisitInv, Unborn, VisitPlaces, A!Crash, A!tables, A!errand
<1>4. ASSUME NEW t \in Sessions PROVE FlushedOK(t)'
  BY DEF VisitInv, FlushedOK, AuditPlaces, A!Crash
<1>5. ASSUME NEW t \in Sessions PROVE KnowsNewcomer(t)'
  BY DEF VisitInv, KnowsNewcomer, A!Crash
<1>6. ASSUME NEW t \in Sessions PROVE LooksFirst(t)'
  BY DEF VisitInv, LooksFirst, A!Crash
<1>7. ASSUME NEW t \in Sessions PROVE PaysOnce(t)'
  BY DEF VisitInv, PaysOnce, A!Crash
<1>8. BooksOfCampaigns'
  BY DEF VisitInv, BooksOfCampaigns, A!Crash, A!tables, A!errand
<1>9. AnnouncedOrWill'
  BY DEF VisitInv, VisitTypes, AnnouncedOrWill, Announces, AuditPlaces, A!Crash
<1> QED BY <1>1, <1>2, <1>3, <1>4, <1>5, <1>6, <1>7, <1>8, <1>9 DEF VisitInv

(* At the start nobody is attached and nobody visits. *)
LEMMA VisitStart == VisitConstants /\ A!Init => VisitInv
<1> SUFFICES ASSUME VisitConstants, A!Init PROVE VisitInv
  OBVIOUS
<1>1. VisitTypes
  BY DEF VisitConstants, A!Init, VisitTypes, Places, A!Standings
<1>2. /\ \A s \in Sessions :
            /\ visit[s] = "idle" /\ written[s] = None
            /\ entry[s] = "none" /\ campaign[s] = None
      /\ registrations = {} /\ referrer = None /\ rowLock = None
      /\ \A c \in Campaigns : bonus[c] = 0
  BY DEF A!Init
<1>3. \A s \in Sessions :
         ErrandOK(s) /\ FlushedOK(s) /\ KnowsNewcomer(s) /\ LooksFirst(s) /\ PaysOnce(s)
  BY <1>2 DEF ErrandOK, FlushedOK, KnowsNewcomer, LooksFirst, PaysOnce, NewcomerPlaces,
     VisitPlaces, BonusPlaces, AuditPlaces
<1>4. Unborn /\ BooksOfCampaigns /\ AnnouncedOrWill
  BY <1>2 DEF Unborn, VisitPlaces, BooksOfCampaigns, AnnouncedOrWill
<1> QED BY <1>1, <1>3, <1>4 DEF VisitInv

(* Every step of the visits keeps the invariant. *)
LEMMA VisitNext == VisitConstants /\ VisitInv /\ [A!Next]_(A!vars) => VisitInv'
<1> SUFFICES ASSUME VisitConstants, VisitInv, [A!Next]_(A!vars) PROVE VisitInv'
  OBVIOUS
<1>1. ASSUME NEW s \in Sessions, A!LinkStep(s) PROVE VisitInv'
  BY <1>1, OpenLinkKeeps, CompareAndSetKeeps, RefreshUserKeeps, LookForAuditKeeps,
     InsertAuditKeeps DEF A!LinkStep
<1>2. ASSUME NEW s \in Sessions, A!DialogStep(s) PROVE VisitInv'
  BY <1>2, FinishDialogKeeps, CreateUserKeeps, RestoreUserKeeps, WriteReferrerKeeps
     DEF A!DialogStep
<1>3. ASSUME NEW s \in Sessions, A!NewcomerStep(s) PROVE VisitInv'
  BY <1>3, OpenNewcomerKeeps, CreateInCabinetKeeps, LockNewcomerKeeps, ProcessCodeKeeps
     DEF A!NewcomerStep
<1>4. ASSUME NEW s \in Sessions, A!CampaignStep(s) PROVE VisitInv'
  BY <1>4, OpenCampaignKeeps, ReviveUserKeeps, LockUserKeeps, AlreadyRegisteredKeeps,
     AttributeToPartnerKeeps, GrantBonusKeeps, RecordRegistrationKeeps, PayBonusKeeps
     DEF A!CampaignStep
<1>5. CASE UNCHANGED A!vars
  BY <1>5 DEF A!vars, A!tables, A!errand, VisitInv, VisitTypes, ErrandOK, Unborn, FlushedOK,
     KnowsNewcomer, LooksFirst, PaysOnce, BooksOfCampaigns, AnnouncedOrWill, Announces
<1> QED BY <1>1, <1>2, <1>3, <1>4, <1>5, VisitErrorKeeps, VisitCrashKeeps DEF A!Next

(* The invariant, in the words of the property. *)
LEMMA VisitBooks == VisitInv => ReferrerAnnounced
BY DEF ReferrerAnnounced, A!ReferrerAnnounced, VisitInv, AnnouncedOrWill, Announces, AuditPlaces

(* What the composition does to the visits is allowed by ReferralAttach. *)
LEMMA VisitsMove == AllSpec => A!Spec
<1>1. AllInit => A!Init
  BY DEF AllInit
<1>2. [AllNext]_<<part, vars, payoutVars, visitVars, codeVars, mergeVars>>
         => [A!Next]_(A!vars)
  BY DEF AllNext, visitVars, A!vars, A!tables, A!errand
<1> QED BY <1>1, <1>2, PTL DEF AllSpec, A!Spec

(* The invariant of the visits, in every behaviour. *)
LEMMA VisitAlways == ASSUME VisitConstants PROVE A!Spec => []VisitInv
<1>1. A!Init => VisitInv
  BY VisitStart
<1>2. VisitInv /\ [A!Next]_(A!vars) => VisitInv'
  BY VisitNext
<1> QED BY <1>1, <1>2, PTL DEF A!Spec

(* When every request is served and nothing has failed, the user's referrer has his
   audit row, whichever of link, dialog, code and campaign wrote him last. *)
THEOREM ReferrerAnnouncedAlways ==
    ASSUME VisitConstants PROVE AllSpec => []ReferrerAnnounced
BY VisitAlways, VisitBooks, VisitsMove, PTL

(* Only the step that records a campaign registers it. *)
LEMMA RegisteredBy ==
    ASSUME VisitInv, A!Next, registrations' # registrations
    PROVE  \E s \in Sessions : A!RecordRegistration(s)
<1>1. ASSUME NEW s \in Sessions, A!LinkStep(s) \/ A!DialogStep(s) \/ A!NewcomerStep(s)
      PROVE  FALSE
  BY <1>1 DEF A!LinkStep, A!DialogStep, A!NewcomerStep, A!OpenLink, A!FinishDialog,
     A!OpenNewcomer, A!Open, A!CompareAndSet, A!RefreshUser, A!CreateUser, A!RestoreUser,
     A!WriteReferrer, A!CreateInCabinet, A!LockNewcomer, A!ProcessCode, A!LookForAudit,
     A!InsertAudit, A!tables
<1>2. ASSUME NEW s \in Sessions, A!CampaignStep(s) PROVE A!RecordRegistration(s)
  BY <1>2 DEF A!CampaignStep, A!OpenCampaign, A!Open, A!ReviveUser, A!LockUser,
     A!AlreadyRegistered, A!AttributeToPartner, A!GrantBonus, A!PayBonus, A!tables
<1> QED BY <1>1, <1>2 DEF A!Next, A!DatabaseError, A!Crash, A!tables

(* What one step does to the campaigns. *)
LEMMA OneCampaignStep ==
    ASSUME VisitConstants, VisitInv, VisitInv', A!Next
    PROVE  /\ \A c \in registrations' \ registrations :
                 A!Direct(c) /\ registrations # {} =>
                    \E s \in Sessions :
                       entry[s] = "dialog" /\ campaign[s] = c /\ visit[s] = "recording"
           /\ \A c \in Campaigns :
                 LET registered == IF c \in registrations' THEN 1 ELSE 0
                 IN  IF Bonus[c] = "grant" THEN registered <= bonus'[c]
                                           ELSE bonus'[c] <= registered
<1>1. ASSUME NEW c \in registrations' \ registrations, A!Direct(c), registrations # {}
      PROVE  \E s \in Sessions : entry[s] = "dialog" /\ campaign[s] = c /\ visit[s] = "recording"
  <2>1. PICK s \in Sessions : A!RecordRegistration(s)
    BY <1>1, RegisteredBy
  <2>2. campaign[s] = c /\ visit[s] = "recording"
    BY <1>1, <2>1 DEF A!RecordRegistration
  <2>3. entry[s] # "campaign"
    BY <1>1, <2>2 DEF VisitInv, LooksFirst
  <2>4. entry[s] \notin {"attach", "code", "none"}
    BY <2>2 DEF VisitConstants, VisitInv, ErrandOK, BonusPlaces
  <2> QED BY <2>2, <2>3, <2>4 DEF VisitInv, VisitTypes
<1>2. ASSUME NEW c \in Campaigns
      PROVE  LET registered == IF c \in registrations' THEN 1 ELSE 0
             IN  IF Bonus[c] = "grant" THEN registered <= bonus'[c]
                                       ELSE bonus'[c] <= registered
  BY DEF VisitInv, VisitTypes, BooksOfCampaigns
<1> QED BY <1>1, <1>2

(* The cabinet makes a campaign without a partner and without a grant nobody's second
   one, a bonus on the balance is paid once and not without its registration, and none
   is registered that should have been granted first, wherever sessions stop. *)
THEOREM OneCampaignAlways ==
    ASSUME VisitConstants PROVE AllSpec => OneCampaign
<1>1. VisitInv /\ VisitInv' /\ [A!Next]_(A!vars) =>
        [ /\ \A c \in registrations' \ registrations :
               A!Direct(c) /\ registrations # {} =>
                  \E s \in Sessions :
                     entry[s] = "dialog" /\ campaign[s] = c /\ visit[s] = "recording"
          /\ \A c \in Campaigns :
               LET registered == IF c \in registrations' THEN 1 ELSE 0
               IN  IF Bonus[c] = "grant" THEN registered <= bonus'[c]
                                         ELSE bonus'[c] <= registered]_(A!vars)
  BY OneCampaignStep
<1>2. A!Spec => OneCampaign
  BY <1>1, VisitAlways, PTL DEF A!Spec, OneCampaign, A!OneCampaign
<1> QED BY <1>2, VisitsMove, PTL

(* Who replaces a referrer is the dialog or the campaign's route. *)
LEMMA ReplacedBy ==
    VisitConstants /\ VisitInv /\ [A!Next]_(A!vars) =>
        (referrer # None /\ referrer' # referrer =>
            \E s \in Sessions : entry[s] \in {"dialog", "campaign"} /\ visit'[s] # visit[s])
<1> SUFFICES ASSUME VisitConstants, VisitInv, A!Next, referrer # None, referrer' # referrer
             PROVE  \E s \in Sessions :
                       entry[s] \in {"dialog", "campaign"} /\ visit'[s] # visit[s]
  BY DEF A!vars, A!tables
<1>1. ASSUME NEW s \in Sessions, A!LinkStep(s) PROVE A!InsertAudit(s)
  BY <1>1 DEF A!LinkStep, A!OpenLink, A!Open, A!CompareAndSet, A!RefreshUser, A!LookForAudit,
     A!Rollback, A!tables
<1>2. ASSUME NEW s \in Sessions, A!CampaignStep(s) PROVE A!GrantBonus(s) \/ A!RecordRegistration(s)
  BY <1>2 DEF A!CampaignStep, A!OpenCampaign, A!Open, A!ReviveUser, A!LockUser,
     A!AlreadyRegistered, A!AttributeToPartner, A!PayBonus, A!tables
<1>3. ASSUME NEW s \in Sessions, A!DialogStep(s)
      PROVE  entry[s] \in {"dialog", "campaign"} /\ visit'[s] # visit[s]
  <2>1. A!RestoreUser(s) \/ A!WriteReferrer(s)
    BY <1>3 DEF A!DialogStep, A!FinishDialog, A!Open, A!CreateUser, A!tables, VisitInv, Unborn
  <2>2. visit[s] = "writing" /\ visit'[s] # "writing"
    BY <2>1, WhereTo DEF A!RestoreUser, A!WriteReferrer, A!Settle, A!Goto, VisitInv, VisitTypes
  <2> QED BY <2>2 DEF VisitInv, ErrandOK
<1>4. ASSUME NEW s \in Sessions, A!NewcomerStep(s) PROVE FALSE
  BY <1>4 DEF A!NewcomerStep, A!OpenNewcomer, A!Open, A!CreateInCabinet, A!LockNewcomer,
     A!ProcessCode, A!tables, VisitInv, Unborn
<1>5. ASSUME NEW s \in Sessions, A!InsertAudit(s)
      PROVE  entry[s] \in {"dialog", "campaign"} /\ visit'[s] # visit[s]
  BY <1>5, WhereTo DEF A!InsertAudit, A!Commit, A!Rollback, A!Goto, VisitInv, VisitTypes, FlushedOK
<1>6. ASSUME NEW s \in Sessions, A!GrantBonus(s) \/ A!RecordRegistration(s)
      PROVE  entry[s] \in {"dialog", "campaign"} /\ visit'[s] # visit[s]
  BY <1>6 DEF A!GrantBonus, A!RecordRegistration, A!Commit, A!Rollback, A!Goto, VisitInv,
     VisitTypes, FlushedOK
<1>7. PICK s \in Sessions :
         A!LinkStep(s) \/ A!DialogStep(s) \/ A!NewcomerStep(s) \/ A!CampaignStep(s)
  BY DEF A!Next, A!DatabaseError, A!Rollback, A!Crash, A!tables
<1> QED BY <1>1, <1>2, <1>3, <1>4, <1>5, <1>6, <1>7

(* A link never replaces a referrer, nor does the request that created the user: only
   the dialog and the campaign's route do, which write what they read earlier. *)
THEOREM LinkNeverReplacesAlways ==
    ASSUME VisitConstants PROVE AllSpec => LinkNeverReplaces
<1>1. A!Spec => LinkNeverReplaces
  BY VisitAlways, ReplacedBy, PTL DEF A!Spec, LinkNeverReplaces, A!LinkNeverReplaces
<1> QED BY <1>1, VisitsMove, PTL

-----------------------------------------------------------------------------
(***************************************************************************)
(* The merges: one to a token, no money lost, and nothing left behind.     *)
(***************************************************************************)

(* A token is for two different accounts, requests and callbacks are different, and
   the names of the columns are no logins' names. *)
MergeConstants ==
    /\ Primary \in [Tokens -> Accounts] /\ Secondary \in [Tokens -> Accounts]
    /\ \A t \in Tokens : Primary[t] # Secondary[t]
    /\ FirstOwner \in [Orders -> Accounts] /\ Listed \subseteq Orders
    /\ Mergers \cap Webhooks = {} /\ None \notin M!Handlers
    /\ None \notin Tokens \cup Orders
    /\ "balance" \notin M!Groups /\ "deleted" \notin M!Groups

(* What stands in a row. *)
Cells == M!Logins \cup {None} \cup Nat \cup BOOLEAN
Rows == {r \in [M!Columns -> Cells] : r["balance"] \in Nat /\ r["deleted"] \in BOOLEAN}

MergePlaces == {"idle", "primary", "secondary", "logins", "flushing", "locking", "money",
                "orders", "saving", "crediting"}
Early == {"idle", "primary", "secondary"}
Late == {"orders", "saving"}

(* The types that the argument needs. *)
TableTypes ==
    /\ account \in [Accounts -> Rows] /\ draft \in [Accounts -> Rows]
    /\ accountLock \in [Accounts -> Mergers \cup {None}]
    /\ orderOwner \in [Orders -> Accounts]
    /\ credited \subseteq Orders
    /\ orderLock \in [Orders -> M!Handlers \cup {None}]
    /\ used \in [Accounts -> Nat] /\ overlooked \in [Accounts -> Nat]
    /\ valid \subseteq Tokens
    /\ merges \in [Tokens -> Nat]

SessionTypes ==
    /\ at \in [M!Handlers -> MergePlaces]
    /\ job \in [M!Handlers -> Tokens \cup Orders \cup {None}]
    /\ copies \in [Mergers -> [Accounts -> Rows]]
    /\ unsaved \in [Mergers -> [Accounts -> SUBSET M!Columns]]
    /\ moving \in [Mergers -> Cells]
    /\ group \in [Mergers -> Nat]

(* A request at work has a token, a callback has an order and its lock. *)
MergerOK(s) ==
    /\ at[s] # "crediting"
    /\ at[s] = "idle" <=> job[s] = None
    /\ at[s] # "idle" => job[s] \in Tokens
    /\ at[s] = "flushing" => M!Group(s) \in M!Groups

WebhookOK(w) ==
    /\ at[w] \in {"idle", "crediting"}
    /\ at[w] = "crediting" => job[w] \in Orders \ credited /\ orderLock[job[w]] = w

(* A token is valid, or one request has it, or it has merged. *)
TokensOK ==
    /\ \A r, s \in Mergers : job[r] \in Tokens /\ job[r] = job[s] => r = s
    /\ \A s \in Mergers : job[s] \in Tokens => job[s] \notin valid /\ merges[job[s]] = 0
    /\ \A t \in Tokens : merges[t] <= 1 /\ (t \in valid => merges[t] = 0)

(* What has not been flushed concerns the two accounts; the money and the status come
   late. *)
UnsavedOK(s, u) ==
    /\ at[s] \in Early => unsaved[s][u] = {}
    /\ unsaved[s][u] # {} => u \in {M!Pri(s), M!Sec(s)}
    /\ "deleted" \in unsaved[s][u] => at[s] = "saving" /\ u = M!Sec(s)
    /\ "balance" \in unsaved[s][u] => at[s] \in Late

(* So it is with what has been flushed and not committed. *)
DraftOK(s, u) ==
    accountLock[u] = s =>
        /\ at[s] \notin Early /\ u \in {M!Pri(s), M!Sec(s)}
        /\ at[s] \notin Late => draft[u]["balance"] = account[u]["balance"]
        /\ ~ (at[s] = "saving" /\ u = M!Sec(s)) => draft[u]["deleted"] = account[u]["deleted"]

NoDraft(u) == accountLock[u] = None => draft[u] = account[u]

(* The money has been moved in the copies of two rows that are locked. *)
Moved(s) ==
    /\ accountLock[M!Pri(s)] = s /\ accountLock[M!Sec(s)] = s
    /\ copies[s][M!Pri(s)]["balance"]
          = account[M!Pri(s)]["balance"] + account[M!Sec(s)]["balance"]
    /\ copies[s][M!Sec(s)]["balance"] = 0
    /\ \A u \in {M!Pri(s), M!Sec(s)} :
          "balance" \in unsaved[s][u] \/ draft[u]["balance"] = copies[s][u]["balance"]

(* There was none to move. *)
NoneToMove(s) ==
    /\ copies[s][M!Sec(s)]["balance"] = 0
    /\ \A u \in Accounts :
          /\ "balance" \notin unsaved[s][u]
          /\ accountLock[u] = s => draft[u]["balance"] = account[u]["balance"]

(* A locked row whose copy shows what it holds. *)
Fresh(s, u) == accountLock[u] = s /\ copies[s][u]["balance"] = account[u]["balance"]

MoneyOK(s) ==
    /\ at[s] = "locking" => Fresh(s, M!Pri(s))
    /\ at[s] = "money" => Fresh(s, M!Pri(s)) /\ Fresh(s, M!Sec(s))
    /\ at[s] \in Late => Moved(s) \/ NoneToMove(s)

(* An account that never stays. *)
Leaves(u) == \A t \in Tokens : Primary[t] # u

(* Somebody merges u away. *)
Drops(s, u) == at[s] # "idle" /\ M!Sec(s) = u

(* What u still has is what came too late to be seen, or to be kept for another. *)
Covered(u) == account[u]["balance"] <= overlooked[u]

LeavesNothing(u) ==
    Leaves(u) =>
        /\ draft[u]["balance"] <= account[u]["balance"]
        /\ account[u]["deleted"] => Covered(u) /\ \A o \in Listed : orderOwner[o] # u

DropsAll(s, u) ==
    Leaves(u) /\ Drops(s, u) =>
        /\ at[s] \in {"logins", "flushing"} /\ copies[s][u]["balance"] = 0 => Covered(u)
        /\ at[s] \in Late => Moved(s) \/ Covered(u)
        /\ at[s] = "saving" => \A o \in Listed : orderOwner[o] = u => orderLock[o] = s

(* What all have and have spent is what was paid. *)
Balances == [u \in Accounts |-> account[u]["balance"]]
SumsAgree ==
    /\ IsFiniteSet(credited)
    /\ SumOf(Balances, Accounts) + SumOf(used, Accounts) = Cardinality(credited)

MergeInv ==
    /\ TableTypes /\ SessionTypes
    /\ \A s \in Mergers : MergerOK(s)
    /\ \A w \in Webhooks : WebhookOK(w)
    /\ \A s \in Mergers, u \in Accounts : UnsavedOK(s, u)
    /\ \A s \in Mergers, u \in Accounts : DraftOK(s, u)
    /\ \A u \in Accounts : NoDraft(u)
    /\ \A s \in Mergers : MoneyOK(s)

LeftInv ==
    /\ \A u \in Accounts : LeavesNothing(u)
    /\ \A s \in Mergers, u \in Accounts : DropsAll(s, u)

-----------------------------------------------------------------------------
(* A row stays one if its balance is another number. *)
LEMMA RowWithBalance ==
    ASSUME NEW r \in Rows, NEW n \in Nat
    PROVE  /\ [r EXCEPT !["balance"] = n] \in Rows
           /\ [r EXCEPT !["balance"] = n]["balance"] = n
           /\ [r EXCEPT !["balance"] = n]["deleted"] = r["deleted"]
BY DEF Rows, Cells, M!Columns

(* And if one of its logins is another. *)
LEMMA RowWithLogin ==
    ASSUME MergeConstants, NEW r \in Rows, NEW g \in M!Groups, NEW l \in Cells
    PROVE  /\ [r EXCEPT ![g] = l] \in Rows
           /\ [r EXCEPT ![g] = l]["balance"] = r["balance"]
BY DEF MergeConstants, Rows, M!Columns

(* The row of a new account. *)
LEMMA NewRow == ASSUME MergeConstants, NEW u \in Accounts PROVE M!NewAccount(u) \in Rows
<1>1. ASSUME NEW g \in M!Groups PROVE FirstLogins[u][g] \in Cells
  BY DEF Cells, M!Logins
<1>2. M!NewAccount(u) \in [M!Columns -> Cells]
  BY <1>1 DEF M!NewAccount, M!Columns, Cells
<1>3. M!NewAccount(u)["balance"] \in Nat /\ M!NewAccount(u)["deleted"] \in BOOLEAN
  BY DEF M!NewAccount, M!Columns
<1> QED BY <1>2, <1>3 DEF Rows

(* One row of one session's copies is replaced. *)
LEMMA CopyReplaced ==
    ASSUME SessionTypes, NEW s \in Mergers, NEW u \in Accounts, NEW r \in Rows
    PROVE  /\ [copies EXCEPT ![s][u] = r] \in [Mergers -> [Accounts -> Rows]]
           /\ [copies EXCEPT ![s][u] = r][s][u] = r
           /\ \A v \in Accounts \ {u} : [copies EXCEPT ![s][u] = r][s][v] = copies[s][v]
           /\ \A t \in Mergers \ {s} : [copies EXCEPT ![s][u] = r][t] = copies[t]
BY DEF SessionTypes

(* After the end of a session or a callback it is idle, and the others are where they
   were. *)
EndOf(h) ==
    /\ SessionTypes'
    /\ at'[h] = "idle" /\ job'[h] = None
    /\ \A k \in M!Handlers \ {h} : at'[k] = at[k] /\ job'[k] = job[k]
    /\ h \in Mergers => \A u \in Accounts : unsaved'[h][u] = {}
    /\ \A t \in Mergers \ {h} :
          /\ copies'[t] = copies[t] /\ unsaved'[t] = unsaved[t] /\ group'[t] = group[t]

(* It keeps the types of the sessions. *)
LEMMA EndKeeps ==
    ASSUME MergeConstants, SessionTypes, NEW h \in M!Handlers, M!End(h)
    PROVE  EndOf(h)
<1>1. /\ at' \in [M!Handlers -> MergePlaces]
      /\ job' \in [M!Handlers -> Tokens \cup Orders \cup {None}]
  BY DEF M!End, M!Goto, SessionTypes, MergePlaces
<1>2. M!Unread \in [Accounts -> Rows]
  BY NewRow DEF M!Unread
<1>3. CASE h \in Mergers
  <2>1. copies' = [copies EXCEPT ![h] = M!Unread] /\ unsaved' = [unsaved EXCEPT ![h] = M!Clean]
        /\ group' = [group EXCEPT ![h] = 1] /\ moving' = [moving EXCEPT ![h] = None]
    BY <1>3 DEF M!End
  <2>2. copies' \in [Mergers -> [Accounts -> Rows]]
    BY <1>2, <2>1 DEF SessionTypes
  <2>3. unsaved' \in [Mergers -> [Accounts -> SUBSET M!Columns]] /\ group' \in [Mergers -> Nat]
    BY <2>1 DEF SessionTypes, M!Clean
  <2>4. moving' \in [Mergers -> Cells]
    BY <2>1 DEF SessionTypes, Cells
  <2>5. /\ at'[h] = "idle" /\ job'[h] = None
        /\ \A k \in M!Handlers \ {h} : at'[k] = at[k] /\ job'[k] = job[k]
    BY DEF M!End, M!Goto, SessionTypes
  <2>6. /\ \A u \in Accounts : unsaved'[h][u] = {}
        /\ \A t \in Mergers \ {h} :
              /\ copies'[t] = copies[t] /\ unsaved'[t] = unsaved[t] /\ group'[t] = group[t]
    BY <1>3, <2>1 DEF SessionTypes, M!Clean
  <2>7. SessionTypes'
    BY <1>1, <2>2, <2>3, <2>4 DEF SessionTypes
  <2> QED BY <2>5, <2>6, <2>7 DEF EndOf
<1>4. CASE h \notin Mergers
  <2>1. UNCHANGED <<copies, unsaved, group, moving>>
    BY <1>4 DEF M!End
  <2>2. /\ at'[h] = "idle" /\ job'[h] = None
        /\ \A k \in M!Handlers \ {h} : at'[k] = at[k] /\ job'[k] = job[k]
    BY DEF M!End, M!Goto, SessionTypes
  <2>3. SessionTypes'
    BY <1>1, <2>1 DEF SessionTypes
  <2> QED BY <1>4, <2>1, <2>2, <2>3 DEF EndOf
<1> QED BY <1>3, <1>4

(* A token is taken. *)
LEMMA ConsumeKeeps ==
    ASSUME MergeConstants, MergeInv, NEW s \in Mergers, NEW k \in Tokens, M!Consume(s, k)
    PROVE  MergeInv'
<1>1. TableTypes'
  BY DEF MergeInv, TableTypes, M!Consume, M!rows, M!orders, M!ghosts
<1>2. SessionTypes'
  BY DEF MergeInv, SessionTypes, MergePlaces, M!Consume, M!Goto
<1>3. ASSUME NEW t \in Mergers PROVE MergerOK(t)'
  BY DEF MergeConstants, MergeInv, SessionTypes, MergerOK, M!Group, M!Consume, M!Goto
<1>4. ASSUME NEW v \in Webhooks PROVE WebhookOK(v)'
  BY DEF MergeConstants, MergeInv, WebhookOK, M!Consume, M!orders, M!Goto
<1>5. ASSUME NEW t \in Mergers, NEW u \in Accounts PROVE UnsavedOK(t, u)'
  BY DEF MergeInv, UnsavedOK, Early, M!Pri, M!Sec, M!Consume, M!Goto
<1>6. ASSUME NEW t \in Mergers, NEW u \in Accounts PROVE DraftOK(t, u)'
  BY DEF MergeInv, DraftOK, Early, M!Pri, M!Sec, M!Consume, M!rows, M!Goto
<1>7. ASSUME NEW u \in Accounts PROVE NoDraft(u)'
  BY DEF MergeInv, NoDraft, M!Consume, M!rows
<1>8. ASSUME NEW t \in Mergers PROVE MoneyOK(t)'
  BY DEF MergeConstants, MergeInv, TableTypes, SessionTypes, M!Handlers, MoneyOK, Fresh, Moved,
     NoneToMove, Late, M!Pri, M!Sec, M!Consume, M!rows, M!Goto
<1> QED BY <1>1, <1>2, <1>3, <1>4, <1>5, <1>6, <1>7, <1>8 DEF MergeInv

(* The first account is read. *)
LEMMA ReadPrimaryKeeps ==
    ASSUME MergeConstants, MergeInv, NEW s \in Mergers, M!ReadPrimary(s)
    PROVE  MergeInv'
<1>1. TableTypes'
  BY DEF MergeInv, TableTypes, M!ReadPrimary, M!rows, M!orders, M!redis, M!ghosts
<1>2. SessionTypes'
  BY DEF MergeConstants, MergeInv, TableTypes, SessionTypes, MergePlaces, MergerOK, M!Pri,
     M!ReadPrimary, M!Goto
<1>3. ASSUME NEW t \in Mergers PROVE MergerOK(t)'
  BY DEF MergeInv, MergerOK, M!Group, M!ReadPrimary, M!Goto
<1>4. ASSUME NEW v \in Webhooks PROVE WebhookOK(v)'
  BY DEF MergeInv, WebhookOK, M!ReadPrimary, M!orders, M!Goto
<1>5. ASSUME NEW t \in Mergers, NEW u \in Accounts PROVE UnsavedOK(t, u)'
  BY DEF MergeInv, UnsavedOK, Early, M!Pri, M!Sec, M!ReadPrimary, M!Goto
<1>6. ASSUME NEW t \in Mergers, NEW u \in Accounts PROVE DraftOK(t, u)'
  BY DEF MergeInv, DraftOK, Early, M!Pri, M!Sec, M!ReadPrimary, M!rows, M!Goto
<1>7. ASSUME NEW u \in Accounts PROVE NoDraft(u)'
  BY DEF MergeInv, NoDraft, M!ReadPrimary, M!rows
<1>8. ASSUME NEW t \in Mergers PROVE MoneyOK(t)'
  BY DEF MergeConstants, MergeInv, TableTypes, SessionTypes, M!Handlers, MoneyOK, Fresh, Moved,
     NoneToMove, Late, M!Pri, M!Sec, M!ReadPrimary, M!rows, M!Goto
<1> QED BY <1>1, <1>2, <1>3, <1>4, <1>5, <1>6, <1>7, <1>8 DEF MergeInv

(* The second one is read. *)
LEMMA ReadSecondaryKeeps ==
    ASSUME MergeConstants, MergeInv, NEW s \in Mergers, M!ReadSecondary(s)
    PROVE  MergeInv'
<1>1. TableTypes'
  BY DEF MergeInv, TableTypes, M!ReadSecondary, M!rows, M!orders, M!redis, M!ghosts
<1>2. SessionTypes'
  BY DEF MergeConstants, MergeInv, TableTypes, SessionTypes, MergePlaces, MergerOK, M!Sec,
     M!ReadSecondary, M!Goto
<1>3. ASSUME NEW t \in Mergers PROVE MergerOK(t)'
  BY DEF MergeInv, MergerOK, M!Group, M!ReadSecondary, M!Goto
<1>4. ASSUME NEW v \in Webhooks PROVE WebhookOK(v)'
  BY DEF MergeInv, WebhookOK, M!ReadSecondary, M!orders, M!Goto
<1>5. ASSUME NEW t \in Mergers, NEW u \in Accounts PROVE UnsavedOK(t, u)'
  BY DEF MergeInv, UnsavedOK, Early, M!Pri, M!Sec, M!ReadSecondary, M!Goto
<1>6. ASSUME NEW t \in Mergers, NEW u \in Accounts PROVE DraftOK(t, u)'
  BY DEF MergeInv, DraftOK, Early, M!Pri, M!Sec, M!ReadSecondary, M!rows, M!Goto
<1>7. ASSUME NEW u \in Accounts PROVE NoDraft(u)'
  BY DEF MergeInv, NoDraft, M!ReadSecondary, M!rows
<1>8. ASSUME NEW t \in Mergers PROVE MoneyOK(t)'
  BY DEF MergeConstants, MergeInv, TableTypes, SessionTypes, M!Handlers, MoneyOK, Fresh, Moved,
     NoneToMove, Late, M!Pri, M!Sec, M!ReadSecondary, M!rows, M!Goto
<1> QED BY <1>1, <1>2, <1>3, <1>4, <1>5, <1>6, <1>7, <1>8 DEF MergeInv

(* A kind of login stays as it is. *)
LEMMA KeepLoginKeeps ==
    ASSUME MergeConstants, MergeInv, NEW s \in Mergers, M!KeepLogin(s)
    PROVE  MergeInv'
<1>1. TableTypes'
  BY DEF MergeInv, TableTypes, M!KeepLogin, M!rows, M!orders, M!redis, M!ghosts
<1>2. SessionTypes'
  <2>1. group' \in [Mergers -> Nat]
    BY DEF MergeInv, SessionTypes, M!KeepLogin
  <2> QED BY <2>1 DEF MergeInv, SessionTypes, M!KeepLogin
<1>3. ASSUME NEW t \in Mergers PROVE MergerOK(t)'
  BY DEF MergeInv, MergerOK, M!Group, M!KeepLogin
<1>4. ASSUME NEW v \in Webhooks PROVE WebhookOK(v)'
  BY DEF MergeInv, WebhookOK, M!KeepLogin, M!orders
<1>5. ASSUME NEW t \in Mergers, NEW u \in Accounts PROVE UnsavedOK(t, u)'
  BY DEF MergeInv, UnsavedOK, M!Pri, M!Sec, M!KeepLogin
<1>6. ASSUME NEW t \in Mergers, NEW u \in Accounts PROVE DraftOK(t, u)'
  BY DEF MergeInv, DraftOK, M!Pri, M!Sec, M!KeepLogin, M!rows
<1>7. ASSUME NEW u \in Accounts PROVE NoDraft(u)'
  BY DEF MergeInv, NoDraft, M!KeepLogin, M!rows
<1>8. ASSUME NEW t \in Mergers PROVE MoneyOK(t)'
  BY DEF MergeInv, TableTypes, SessionTypes, M!Handlers, MoneyOK, Fresh, Moved, NoneToMove,
     UnsavedOK, NoDraft, MergerOK, Early, Late, M!Pri, M!Sec, M!KeepLogin, M!rows
<1> QED BY <1>1, <1>2, <1>3, <1>4, <1>5, <1>6, <1>7, <1>8 DEF MergeInv

(* A login is cleared in the copy of the second account. *)
LEMMA ClearLoginKeeps ==
    ASSUME MergeConstants, MergeInv, NEW s \in Mergers, M!ClearLogin(s)
    PROVE  MergeInv'
<1>1. /\ M!Group(s) \in M!Groups /\ M!Group(s) \in M!Columns
      /\ M!Group(s) # "balance" /\ M!Group(s) # "deleted"
  BY DEF MergeConstants, M!ClearLogin, M!LoginsLeft, M!Group, M!Groups, M!Columns
<1>2. TableTypes'
  BY DEF MergeInv, TableTypes, M!ClearLogin, M!rows, M!orders, M!redis, M!ghosts
<1>3. SessionTypes'
  <2> DEFINE z == copies[s][M!Sec(s)]
  <2>1. M!Sec(s) \in Accounts /\ z \in Rows /\ None \in Cells
    BY DEF MergeConstants, MergeInv, SessionTypes, MergerOK, M!ClearLogin, M!Sec, Cells
  <2>2. [z EXCEPT ![M!Group(s)] = None] \in Rows
    BY <1>1, <2>1, RowWithLogin
  <2>3. copies' = [copies EXCEPT ![s][M!Sec(s)] = [z EXCEPT ![M!Group(s)] = None]]
    BY DEF M!ClearLogin, M!Set
  <2>4. copies' \in [Mergers -> [Accounts -> Rows]]
    BY <2>1, <2>2, <2>3, CopyReplaced DEF MergeInv
  <2>5. unsaved' \in [Mergers -> [Accounts -> SUBSET M!Columns]]
    BY <1>1 DEF MergeInv, SessionTypes, M!ClearLogin, M!Set
  <2>6. moving' \in [Mergers -> Cells]
    <3>1. z[M!Group(s)] \in Cells
      BY <1>1, <2>1 DEF Rows
    <3> QED BY <3>1 DEF MergeInv, SessionTypes, M!ClearLogin
  <2>7. at' \in [M!Handlers -> MergePlaces]
    BY DEF MergeInv, SessionTypes, M!ClearLogin, M!Goto, MergePlaces
  <2> QED BY <2>4, <2>5, <2>6, <2>7 DEF MergeInv, SessionTypes, M!ClearLogin
<1>4. ASSUME NEW t \in Mergers PROVE MergerOK(t)'
  BY DEF MergeInv, MergerOK, M!Groups, M!ClearLogin, M!LoginsLeft, M!Group, M!Goto
<1>5. ASSUME NEW v \in Webhooks PROVE WebhookOK(v)'
  BY DEF MergeInv, WebhookOK, M!ClearLogin, M!orders, M!Goto
<1>6. ASSUME NEW t \in Mergers, NEW u \in Accounts PROVE UnsavedOK(t, u)'
  <2>1. UnsavedOK(t, u)
    BY DEF MergeInv
  <2>2. at[s] = "logins" /\ at'[s] = "flushing" /\ job' = job /\ (t # s => at'[t] = at[t])
    BY DEF MergeInv, SessionTypes, M!Handlers, M!ClearLogin, M!Goto
  <2>3. \/ unsaved'[t][u] = unsaved[t][u]
        \/ t = s /\ u = M!Sec(s) /\ unsaved'[t][u] = unsaved[t][u] \cup {M!Group(s)}
    BY DEF M!ClearLogin, M!Set
  <2> QED BY <1>1, <2>1, <2>2, <2>3 DEF UnsavedOK, M!Pri, M!Sec, Early, Late
<1>7. ASSUME NEW t \in Mergers, NEW u \in Accounts PROVE DraftOK(t, u)'
  BY DEF MergeInv, DraftOK, Early, Late, M!Pri, M!Sec, M!ClearLogin, M!rows, M!Goto
<1>8. ASSUME NEW u \in Accounts PROVE NoDraft(u)'
  BY DEF MergeInv, NoDraft, M!ClearLogin, M!rows
<1>9. ASSUME NEW t \in Mergers PROVE MoneyOK(t)'
  BY DEF MergeConstants, MergeInv, TableTypes, SessionTypes, M!Handlers, MoneyOK, Fresh, Moved,
     NoneToMove, DraftOK, UnsavedOK, NoDraft, Late, M!Pri, M!Sec, M!ClearLogin, M!Set, M!Group,
     M!rows, M!Goto
<1> QED BY <1>2, <1>3, <1>4, <1>5, <1>6, <1>7, <1>8, <1>9 DEF MergeInv

(* It is set in the copy of the first. *)
LEMMA SetLoginKeeps ==
    ASSUME MergeConstants, MergeInv, NEW s \in Mergers, M!SetLogin(s)
    PROVE  MergeInv'
<1>1. /\ M!Group(s) \in M!Groups /\ M!Group(s) \in M!Columns
      /\ M!Group(s) # "balance" /\ M!Group(s) # "deleted"
  BY DEF MergeConstants, MergeInv, MergerOK, M!SetLogin, M!Columns
<1>2. TableTypes'
  BY DEF MergeInv, TableTypes, M!SetLogin, M!rows, M!orders, M!redis, M!ghosts
<1>3. SessionTypes'
  <2> DEFINE z == copies[s][M!Pri(s)]
  <2>1. M!Pri(s) \in Accounts /\ z \in Rows /\ moving[s] \in Cells /\ None \in Cells
    BY DEF MergeConstants, MergeInv, SessionTypes, MergerOK, M!SetLogin, M!Pri, Cells
  <2>2. [z EXCEPT ![M!Group(s)] = moving[s]] \in Rows
    BY <1>1, <2>1, RowWithLogin
  <2>3. copies' = [copies EXCEPT ![s][M!Pri(s)] = [z EXCEPT ![M!Group(s)] = moving[s]]]
    BY DEF M!SetLogin, M!Set
  <2>4. copies' \in [Mergers -> [Accounts -> Rows]]
    BY <2>1, <2>2, <2>3, CopyReplaced DEF MergeInv
  <2>5. unsaved' \in [Mergers -> [Accounts -> SUBSET M!Columns]]
    BY <1>1 DEF MergeInv, SessionTypes, M!SetLogin, M!Set
  <2>6. moving' \in [Mergers -> Cells] /\ group' \in [Mergers -> Nat]
    BY <2>1 DEF MergeInv, SessionTypes, M!SetLogin
  <2>7. at' \in [M!Handlers -> MergePlaces]
    BY DEF MergeInv, SessionTypes, M!SetLogin, M!Goto, MergePlaces
  <2> QED BY <2>4, <2>5, <2>6, <2>7 DEF MergeInv, SessionTypes, M!SetLogin
<1>4. ASSUME NEW t \in Mergers PROVE MergerOK(t)'
  BY DEF MergeInv, SessionTypes, M!Handlers, MergerOK, M!Group, M!SetLogin, M!Goto
<1>5. ASSUME NEW v \in Webhooks PROVE WebhookOK(v)'
  BY DEF MergeInv, WebhookOK, M!SetLogin, M!orders, M!Goto
<1>6. ASSUME NEW t \in Mergers, NEW u \in Accounts PROVE UnsavedOK(t, u)'
  BY DEF MergeConstants, MergeInv, UnsavedOK, MergerOK, Early, Late, M!Pri, M!Sec, M!SetLogin,
     M!Set, M!Goto
<1>7. ASSUME NEW t \in Mergers, NEW u \in Accounts PROVE DraftOK(t, u)'
  BY DEF MergeInv, DraftOK, Early, Late, M!Pri, M!Sec, M!SetLogin, M!rows, M!Goto
<1>8. ASSUME NEW u \in Accounts PROVE NoDraft(u)'
  BY DEF MergeInv, NoDraft, M!SetLogin, M!rows
<1>9. ASSUME NEW t \in Mergers PROVE MoneyOK(t)'
  BY DEF MergeConstants, MergeInv, TableTypes, SessionTypes, M!Handlers, MoneyOK, Fresh, Moved,
     NoneToMove, DraftOK, UnsavedOK, NoDraft, Late, M!Pri, M!Sec, M!SetLogin, M!Set, M!rows,
     M!Goto
<1> QED BY <1>2, <1>3, <1>4, <1>5, <1>6, <1>7, <1>8, <1>9 DEF MergeInv

(* A row is flushed. *)
LEMMA WriteRowKeeps ==
    ASSUME MergeConstants, MergeInv, NEW s \in Mergers, NEW x \in Accounts, M!WriteRow(s, x)
    PROVE  MergeInv'
<1>1. TableTypes'
  <2>1. copies[s][x] \in Rows /\ M!View(s, x) \in Rows
    BY DEF MergeInv, TableTypes, SessionTypes, M!View
  <2>2. M!Written(s, x) \in [M!Columns -> Cells]
    BY <2>1 DEF M!Written, Rows
  <2>3. M!Written(s, x)["balance"] \in Nat /\ M!Written(s, x)["deleted"] \in BOOLEAN
    BY <2>1 DEF M!Written, Rows, M!Columns
  <2>4. M!Written(s, x) \in Rows
    BY <2>2, <2>3 DEF Rows
  <2>5. draft' \in [Accounts -> Rows] /\ accountLock' \in [Accounts -> Mergers \cup {None}]
    BY <2>4 DEF MergeInv, TableTypes, M!WriteRow
  <2> QED BY <2>5 DEF MergeInv, TableTypes, M!WriteRow, M!orders, M!redis, M!ghosts
<1>2. SessionTypes'
  BY DEF MergeInv, SessionTypes, M!WriteRow
<1>3. ASSUME NEW t \in Mergers PROVE MergerOK(t)'
  BY DEF MergeInv, MergerOK, M!Group, M!WriteRow
<1>4. ASSUME NEW v \in Webhooks PROVE WebhookOK(v)'
  BY DEF MergeInv, WebhookOK, M!WriteRow, M!orders
<1>5. ASSUME NEW t \in Mergers, NEW u \in Accounts PROVE UnsavedOK(t, u)'
  BY DEF MergeInv, UnsavedOK, M!Pri, M!Sec, M!WriteRow
<1>6. ASSUME NEW t \in Mergers, NEW u \in Accounts PROVE DraftOK(t, u)'
  BY DEF MergeInv, TableTypes, M!Columns, DraftOK, UnsavedOK, M!Pri, M!Sec, M!WriteRow,
     M!Writes, M!Written, M!View, M!Mine
<1>7. ASSUME NEW u \in Accounts PROVE NoDraft(u)'
  BY DEF MergeConstants, MergeInv, TableTypes, M!Handlers, NoDraft, M!WriteRow
<1>8. ASSUME NEW t \in Mergers PROVE MoneyOK(t)'
  BY DEF MergeConstants, MergeInv, TableTypes, SessionTypes, M!Handlers, M!Columns, MoneyOK,
     Fresh, Moved, NoneToMove, DraftOK, UnsavedOK, NoDraft, MergerOK, Early, Late, M!Pri,
     M!Sec, M!WriteRow, M!Writes, M!Written, M!View, M!Free, M!Mine, M!rows, M!Goto
<1> QED BY <1>1, <1>2, <1>3, <1>4, <1>5, <1>6, <1>7, <1>8 DEF MergeInv

(* There is no money to move. *)
LEMMA NoMoneyKeeps ==
    ASSUME MergeConstants, MergeInv, NEW s \in Mergers, M!NoMoney(s)
    PROVE  MergeInv'
<1>1. TableTypes'
  BY DEF MergeInv, TableTypes, M!NoMoney, M!rows, M!orders, M!redis, M!ghosts
<1>2. SessionTypes'
  BY DEF MergeInv, SessionTypes, MergePlaces, M!NoMoney, M!Goto
<1>3. ASSUME NEW t \in Mergers PROVE MergerOK(t)'
  BY DEF MergeInv, MergerOK, M!Group, M!NoMoney, M!LoginsDone, M!Goto
<1>4. ASSUME NEW v \in Webhooks PROVE WebhookOK(v)'
  BY DEF MergeInv, WebhookOK, M!NoMoney, M!LoginsDone, M!orders, M!Goto
<1>5. ASSUME NEW t \in Mergers, NEW u \in Accounts PROVE UnsavedOK(t, u)'
  BY DEF MergeInv, UnsavedOK, Early, Late, M!Pri, M!Sec, M!NoMoney, M!LoginsDone, M!Goto
<1>6. ASSUME NEW t \in Mergers, NEW u \in Accounts PROVE DraftOK(t, u)'
  BY DEF MergeInv, DraftOK, Early, Late, M!Pri, M!Sec, M!NoMoney, M!LoginsDone, M!rows, M!Goto
<1>7. ASSUME NEW u \in Accounts PROVE NoDraft(u)'
  BY DEF MergeInv, NoDraft, M!NoMoney, M!rows
<1>8. ASSUME NEW t \in Mergers PROVE MoneyOK(t)'
  BY DEF MergeConstants, MergeInv, TableTypes, SessionTypes, M!Handlers, MoneyOK, Fresh, Moved,
     NoneToMove, DraftOK, UnsavedOK, NoDraft, Late, M!Pri, M!Sec, M!NoMoney, M!LoginsDone,
     M!rows, M!Goto
<1> QED BY <1>1, <1>2, <1>3, <1>4, <1>5, <1>6, <1>7, <1>8 DEF MergeInv

(* The first row is locked and read again. *)
LEMMA LockPrimaryKeeps ==
    ASSUME MergeConstants, MergeInv, NEW s \in Mergers, M!LockPrimary(s)
    PROVE  MergeInv'
<1>1. TableTypes'
  BY DEF MergeInv, TableTypes, M!LockPrimary, M!LockAndReload, M!orders, M!redis, M!ghosts
<1>2. SessionTypes'
  BY DEF MergeConstants, MergeInv, TableTypes, SessionTypes, MergePlaces, MergerOK, M!Pri,
     M!LockPrimary, M!LoginsDone, M!LockAndReload, M!View, M!Goto
<1>3. ASSUME NEW t \in Mergers PROVE MergerOK(t)'
  BY DEF MergeInv, MergerOK, M!Group, M!LockPrimary, M!LoginsDone, M!Goto
<1>4. ASSUME NEW v \in Webhooks PROVE WebhookOK(v)'
  BY DEF MergeInv, WebhookOK, M!LockPrimary, M!LoginsDone, M!orders, M!Goto
<1>5. ASSUME NEW t \in Mergers, NEW u \in Accounts PROVE UnsavedOK(t, u)'
  BY DEF MergeInv, UnsavedOK, Early, Late, M!Pri, M!Sec, M!LockPrimary, M!LoginsDone,
     M!LockAndReload, M!Goto
<1>6. ASSUME NEW t \in Mergers, NEW u \in Accounts PROVE DraftOK(t, u)'
  BY DEF MergeInv, DraftOK, NoDraft, Early, Late, M!Pri, M!Sec, M!LockPrimary, M!LoginsDone,
     M!LockAndReload, M!Free, M!Goto
<1>7. ASSUME NEW u \in Accounts PROVE NoDraft(u)'
  BY DEF MergeInv, NoDraft, M!LockPrimary, M!LockAndReload, M!Free
<1>8. ASSUME NEW t \in Mergers PROVE MoneyOK(t)'
  BY DEF MergeConstants, MergeInv, TableTypes, SessionTypes, M!Handlers, M!Columns, MoneyOK,
     Fresh, Moved, NoneToMove, DraftOK, UnsavedOK, NoDraft, MergerOK, Early, Late, M!Pri,
     M!Sec, M!LockPrimary, M!LoginsDone, M!LockAndReload, M!View, M!Free, M!Mine, M!rows, M!Goto
<1> QED BY <1>1, <1>2, <1>3, <1>4, <1>5, <1>6, <1>7, <1>8 DEF MergeInv

(* So is the second one. *)
LEMMA LockSecondaryKeeps ==
    ASSUME MergeConstants, MergeInv, NEW s \in Mergers, M!LockSecondary(s)
    PROVE  MergeInv'
<1>1. TableTypes'
  BY DEF MergeInv, TableTypes, M!LockSecondary, M!LockAndReload, M!orders, M!redis, M!ghosts
<1>2. SessionTypes'
  BY DEF MergeConstants, MergeInv, TableTypes, SessionTypes, MergePlaces, MergerOK, M!Sec,
     M!LockSecondary, M!LockAndReload, M!View, M!Goto
<1>3. ASSUME NEW t \in Mergers PROVE MergerOK(t)'
  BY DEF MergeInv, MergerOK, M!Group, M!LockSecondary, M!Goto
<1>4. ASSUME NEW v \in Webhooks PROVE WebhookOK(v)'
  BY DEF MergeInv, WebhookOK, M!LockSecondary, M!orders, M!Goto
<1>5. ASSUME NEW t \in Mergers, NEW u \in Accounts PROVE UnsavedOK(t, u)'
  BY DEF MergeInv, UnsavedOK, Early, Late, M!Pri, M!Sec, M!LockSecondary, M!LockAndReload,
     M!Goto
<1>6. ASSUME NEW t \in Mergers, NEW u \in Accounts PROVE DraftOK(t, u)'
  BY DEF MergeInv, DraftOK, NoDraft, Early, Late, M!Pri, M!Sec, M!LockSecondary,
     M!LockAndReload, M!Free, M!Goto
<1>7. ASSUME NEW u \in Accounts PROVE NoDraft(u)'
  BY DEF MergeInv, NoDraft, M!LockSecondary, M!LockAndReload, M!Free
<1>8. ASSUME NEW t \in Mergers PROVE MoneyOK(t)'
  BY DEF MergeConstants, MergeInv, TableTypes, SessionTypes, M!Handlers, M!Columns, MoneyOK,
     Fresh, Moved, NoneToMove, DraftOK, UnsavedOK, NoDraft, MergerOK, Early, Late, M!Pri,
     M!Sec, M!LockSecondary, M!LockAndReload, M!View, M!Free, M!Mine, M!rows, M!Goto
<1> QED BY <1>1, <1>2, <1>3, <1>4, <1>5, <1>6, <1>7, <1>8 DEF MergeInv

(* The money is moved in the copies. *)
LEMMA MoveMoneyKeeps ==
    ASSUME MergeConstants, MergeInv, NEW s \in Mergers, M!MoveMoney(s)
    PROVE  MergeInv'
<1>1. /\ M!Pri(s) \in Accounts /\ M!Sec(s) \in Accounts /\ M!Pri(s) # M!Sec(s)
      /\ copies[s][M!Pri(s)] \in Rows /\ copies[s][M!Sec(s)] \in Rows
  BY DEF MergeConstants, MergeInv, SessionTypes, MergerOK, M!MoveMoney, M!Pri, M!Sec
<1> DEFINE p == copies[s][M!Pri(s)]
           z == copies[s][M!Sec(s)]
           all == p["balance"] + z["balance"]
           halfway == [copies EXCEPT ![s][M!Pri(s)] = [p EXCEPT !["balance"] = all]]
<1>2. /\ copies' \in [Mergers -> [Accounts -> Rows]]
      /\ copies'[s][M!Pri(s)]["balance"] = all /\ copies'[s][M!Sec(s)]["balance"] = 0
      /\ \A t \in Mergers \ {s} : copies'[t] = copies[t]
  <2>1. all \in Nat
    BY <1>1 DEF Rows
  <2>2. [p EXCEPT !["balance"] = all] \in Rows /\ [p EXCEPT !["balance"] = all]["balance"] = all
    BY <1>1, <2>1, RowWithBalance
  <2>3. [z EXCEPT !["balance"] = 0] \in Rows /\ [z EXCEPT !["balance"] = 0]["balance"] = 0
    BY <1>1, RowWithBalance
  <2>4. /\ halfway \in [Mergers -> [Accounts -> Rows]]
        /\ halfway[s][M!Pri(s)] = [p EXCEPT !["balance"] = all]
        /\ halfway[s][M!Sec(s)] = z
        /\ \A t \in Mergers \ {s} : halfway[t] = copies[t]
    BY <1>1, <2>2, CopyReplaced DEF MergeInv
  <2>5. copies' = [halfway EXCEPT ![s][M!Sec(s)] = [halfway[s][M!Sec(s)] EXCEPT !["balance"] = 0]]
    BY <1>1 DEF M!MoveMoney
  <2> HIDE DEF halfway
  <2>6. copies' = [halfway EXCEPT ![s][M!Sec(s)] = [z EXCEPT !["balance"] = 0]]
    BY <2>4, <2>5
  <2>7. /\ copies' \in [Mergers -> [Accounts -> Rows]]
        /\ copies'[s][M!Sec(s)] = [z EXCEPT !["balance"] = 0]
        /\ copies'[s][M!Pri(s)] = halfway[s][M!Pri(s)]
        /\ \A t \in Mergers \ {s} : copies'[t] = halfway[t]
    BY <1>1, <2>3, <2>4, <2>6
  <2> QED BY <2>2, <2>3, <2>4, <2>7
<1> HIDE DEF halfway
<1>3. TableTypes'
  BY DEF MergeInv, TableTypes, M!MoveMoney, M!rows, M!orders, M!redis, M!ghosts
<1>4. SessionTypes'
  <2>1. unsaved' \in [Mergers -> [Accounts -> SUBSET M!Columns]]
    <3>1. ASSUME NEW f \in [Mergers -> [Accounts -> SUBSET M!Columns]], NEW a
          PROVE  [f EXCEPT ![s][a] = @ \cup {"balance"}]
                    \in [Mergers -> [Accounts -> SUBSET M!Columns]]
      BY DEF M!Columns
    <3> DEFINE one == [unsaved EXCEPT ![s][M!Pri(s)] = @ \cup {"balance"}]
    <3>2. one \in [Mergers -> [Accounts -> SUBSET M!Columns]]
      BY <3>1 DEF MergeInv, SessionTypes
    <3>3. unsaved' = [one EXCEPT ![s][M!Sec(s)] = @ \cup {"balance"}]
      BY DEF M!MoveMoney
    <3> HIDE DEF one
    <3> QED BY <3>1, <3>2, <3>3
  <2>2. at' \in [M!Handlers -> MergePlaces]
    BY DEF MergeInv, SessionTypes, M!MoveMoney, M!Goto, MergePlaces
  <2> QED BY <1>2, <2>1, <2>2 DEF MergeInv, SessionTypes, M!MoveMoney
<1>5. ASSUME NEW t \in Mergers PROVE MergerOK(t)'
  BY DEF MergeInv, MergerOK, M!Group, M!MoveMoney, M!Goto
<1>6. ASSUME NEW v \in Webhooks PROVE WebhookOK(v)'
  BY DEF MergeInv, WebhookOK, M!MoveMoney, M!orders, M!Goto
<1>7. ASSUME NEW t \in Mergers, NEW u \in Accounts PROVE UnsavedOK(t, u)'
  BY DEF MergeConstants, MergeInv, TableTypes, SessionTypes, M!Handlers, M!Columns, UnsavedOK,
     MergerOK, Early, Late, M!Pri, M!Sec, M!MoveMoney, M!rows, M!Goto
<1>8. ASSUME NEW t \in Mergers, NEW u \in Accounts PROVE DraftOK(t, u)'
  BY DEF MergeInv, SessionTypes, M!Handlers, DraftOK, UnsavedOK, NoDraft, Early, Late, M!Pri,
     M!Sec, M!MoveMoney, M!rows, M!Goto
<1>9. ASSUME NEW u \in Accounts PROVE NoDraft(u)'
  BY DEF MergeInv, NoDraft, M!MoveMoney, M!rows
<1>10. ASSUME NEW t \in Mergers PROVE MoneyOK(t)'
  <2>1. UNCHANGED <<account, draft, accountLock, job>>
    BY DEF M!MoveMoney, M!rows
  <2>2. MoneyOK(t) /\ MoneyOK(s)
    BY DEF MergeInv
  <2>3. CASE t # s
    <3>1. copies'[t] = copies[t] /\ unsaved'[t] = unsaved[t] /\ at'[t] = at[t]
      BY <1>2, <2>3 DEF MergeInv, SessionTypes, M!MoveMoney, M!Goto
    <3> QED BY <2>1, <2>2, <3>1 DEF MoneyOK, Fresh, Moved, NoneToMove, M!Pri, M!Sec
  <2>4. CASE t = s
    <3>1. at[s] = "money" /\ at'[s] = "orders"
      BY DEF MergeInv, SessionTypes, M!Handlers, M!MoveMoney, M!Goto
    <3>2. Fresh(s, M!Pri(s)) /\ Fresh(s, M!Sec(s))
      BY <2>2, <3>1 DEF MoneyOK
    <3>3. "balance" \in unsaved'[s][M!Pri(s)] /\ "balance" \in unsaved'[s][M!Sec(s)]
      BY <1>1 DEF MergeInv, SessionTypes, M!MoveMoney
    <3>4. Moved(s)'
      BY <1>2, <2>1, <3>2, <3>3 DEF Moved, Fresh, M!Pri, M!Sec
    <3> QED BY <2>4, <3>1, <3>4 DEF MoneyOK, Late
  <2> QED BY <2>3, <2>4
<1> QED BY <1>3, <1>4, <1>5, <1>6, <1>7, <1>8, <1>9, <1>10 DEF MergeInv

(* The orders are locked, and the second account is marked in the copy. *)
LEMMA ReassignOrdersKeeps ==
    ASSUME MergeConstants, MergeInv, NEW s \in Mergers, M!ReassignOrders(s)
    PROVE  MergeInv'
<1> DEFINE z == copies[s][M!Sec(s)]
           cleared == [c \in M!Columns |-> IF c = "deleted" THEN TRUE
                                           ELSE IF c \in M!Groups THEN None ELSE z[c]]
<1>1. /\ M!Sec(s) \in Accounts /\ z \in Rows
      /\ cleared \in Rows /\ cleared["balance"] = z["balance"]
  <2>1. M!Sec(s) \in Accounts /\ z \in Rows
    BY DEF MergeConstants, MergeInv, SessionTypes, MergerOK, M!ReassignOrders, M!Sec
  <2>2. cleared \in [M!Columns -> Cells]
    BY <2>1 DEF Rows, Cells
  <2>3. cleared["balance"] = z["balance"] /\ z["balance"] \in Nat
    BY <2>1 DEF MergeConstants, M!Columns, Rows
  <2>4. cleared["deleted"] \in BOOLEAN
    BY DEF M!Columns
  <2>5. cleared \in Rows
    BY <2>2, <2>3, <2>4 DEF Rows
  <2> QED BY <2>1, <2>3, <2>5
<1>2. /\ copies' \in [Mergers -> [Accounts -> Rows]]
      /\ \A t \in Mergers, u \in Accounts : copies'[t][u]["balance"] = copies[t][u]["balance"]
  <2>1. copies' = [copies EXCEPT ![s][M!Sec(s)] = cleared]
    BY DEF M!ReassignOrders
  <2> HIDE DEF cleared
  <2> QED BY <1>1, <2>1, CopyReplaced DEF MergeInv
<1> HIDE DEF cleared
<1>3. TableTypes'
  BY DEF MergeInv, TableTypes, M!Handlers, M!ReassignOrders, M!rows, M!redis, M!ghosts
<1>4. SessionTypes'
  <2>1. unsaved' \in [Mergers -> [Accounts -> SUBSET M!Columns]]
    BY DEF MergeInv, SessionTypes, M!ReassignOrders, M!Cleared, M!Columns
  <2>2. at' \in [M!Handlers -> MergePlaces]
    BY DEF MergeInv, SessionTypes, M!ReassignOrders, M!Goto, MergePlaces
  <2> QED BY <1>2, <2>1, <2>2 DEF MergeInv, SessionTypes, M!ReassignOrders
<1>5. ASSUME NEW t \in Mergers PROVE MergerOK(t)'
  BY DEF MergeInv, MergerOK, M!Group, M!ReassignOrders, M!Goto
<1>6. ASSUME NEW v \in Webhooks PROVE WebhookOK(v)'
  BY DEF MergeConstants, MergeInv, M!Handlers, WebhookOK, M!ReassignOrders, M!Goto
<1>7. ASSUME NEW t \in Mergers, NEW u \in Accounts PROVE UnsavedOK(t, u)'
  BY DEF MergeConstants, MergeInv, SessionTypes, M!Handlers, M!Columns, UnsavedOK, Early, Late,
     M!Pri, M!Sec, M!ReassignOrders, M!OrdersOf, M!Goto
<1>8. ASSUME NEW t \in Mergers, NEW u \in Accounts PROVE DraftOK(t, u)'
  BY DEF MergeConstants, MergeInv, DraftOK, Early, Late, M!Pri, M!Sec, M!ReassignOrders,
     M!rows, M!Goto
<1>9. ASSUME NEW u \in Accounts PROVE NoDraft(u)'
  BY DEF MergeInv, NoDraft, M!ReassignOrders, M!rows
<1>10. ASSUME NEW t \in Mergers PROVE MoneyOK(t)'
  <2>1. UNCHANGED <<account, draft, accountLock, job>>
    BY DEF M!ReassignOrders, M!rows
  <2>2. \A u \in Accounts : "balance" \in unsaved'[t][u] <=> "balance" \in unsaved[t][u]
    BY DEF MergeConstants, M!ReassignOrders, M!Cleared
  <2>3. at'[t] = at[t] \/ (at[t] = "orders" /\ at'[t] = "saving")
    BY DEF M!ReassignOrders, M!Goto
  <2>4. at[t] # "idle" => M!Pri(t) \in Accounts /\ M!Sec(t) \in Accounts
    BY DEF MergeConstants, MergeInv, MergerOK, M!Pri, M!Sec
  <2>5. /\ M!Pri(t)' = M!Pri(t) /\ M!Sec(t)' = M!Sec(t)
        /\ \A u \in Accounts : Fresh(t, u)' = Fresh(t, u)
    BY <1>2, <2>1 DEF Fresh, M!Pri, M!Sec
  <2>6. at[t] # "idle" /\ Moved(t) => Moved(t)'
    BY <1>2, <2>1, <2>2, <2>4, <2>5 DEF Moved
  <2>7. at[t] # "idle" /\ NoneToMove(t) => NoneToMove(t)'
    BY <1>2, <2>1, <2>2, <2>4, <2>5 DEF NoneToMove
  <2> QED BY <2>3, <2>4, <2>5, <2>6, <2>7 DEF MergeInv, MoneyOK, Late
<1> QED BY <1>3, <1>4, <1>5, <1>6, <1>7, <1>8, <1>9, <1>10 DEF MergeInv

(* The commit. *)
LEMMA MergeCommitKeeps ==
    ASSUME MergeConstants, MergeInv, NEW s \in Mergers, M!Commit(s)
    PROVE  MergeInv'
<1>1. EndOf(s)
  BY EndKeeps DEF MergeInv, M!Handlers, M!Commit
<1>2. TableTypes'
  <2>1. ASSUME NEW u \in Accounts PROVE M!View(s, u) \in Rows
    BY DEF MergeInv, TableTypes, M!View
  <2>2. account' \in [Accounts -> Rows]
    BY <2>1 DEF M!Commit
  <2>3. orderOwner' \in [Orders -> Accounts]
    BY DEF MergeConstants, MergeInv, TableTypes, MergerOK, M!Pri, M!Commit
  <2>4. accountLock' \in [Accounts -> Mergers \cup {None}]
    BY DEF MergeInv, TableTypes, M!Commit, M!End
  <2>5. orderLock' \in [Orders -> M!Handlers \cup {None}]
    BY DEF MergeInv, TableTypes, M!Commit, M!End
  <2>6. merges' \in [Tokens -> Nat]
    <3>1. job[s] \in Tokens
      BY DEF MergeInv, MergerOK, M!Commit
    <3>2. merges[job[s]] + 1 \in Nat
      BY <3>1 DEF MergeInv, TableTypes
    <3> QED BY <3>1, <3>2 DEF MergeInv, TableTypes, M!Commit
  <2> QED BY <2>2, <2>3, <2>4, <2>5, <2>6 DEF MergeInv, TableTypes, M!Commit, M!redis
<1>3. SessionTypes'
  BY <1>1 DEF EndOf
<1>4. ASSUME NEW t \in Mergers PROVE MergerOK(t)'
  BY DEF MergeInv, SessionTypes, MergerOK, M!Group, M!Commit, M!End, M!Goto
<1>5. ASSUME NEW v \in Webhooks PROVE WebhookOK(v)'
  BY DEF MergeInv, WebhookOK, M!Commit, M!End, M!Goto
<1>6. ASSUME NEW t \in Mergers, NEW u \in Accounts PROVE UnsavedOK(t, u)'
  BY DEF MergeInv, SessionTypes, M!Handlers, UnsavedOK, M!Pri, M!Sec, M!Commit, M!End, M!Clean,
     M!Goto
<1>7. ASSUME NEW t \in Mergers, NEW u \in Accounts PROVE DraftOK(t, u)'
  BY DEF MergeConstants, MergeInv, M!Handlers, DraftOK, Late, M!Pri, M!Sec, M!Commit, M!End,
     M!View, M!Mine, M!Goto
<1>8. ASSUME NEW u \in Accounts PROVE NoDraft(u)'
  BY DEF MergeInv, NoDraft, M!Commit, M!End, M!View
<1>9. ASSUME NEW t \in Mergers PROVE MoneyOK(t)'
  BY DEF MergeConstants, MergeInv, TableTypes, SessionTypes, M!Handlers, M!Columns, MoneyOK,
     Fresh, Moved, NoneToMove, DraftOK, UnsavedOK, NoDraft, MergerOK, Early, Late, M!Pri,
     M!Sec, M!Commit, M!End, M!View, M!Mine, M!Clean, M!rows, M!Goto
<1> QED BY <1>2, <1>3, <1>4, <1>5, <1>6, <1>7, <1>8, <1>9 DEF MergeInv

(* A transaction that is rolled back, of a request or of a callback. *)
LEMMA MergeRollbackKeeps ==
    ASSUME MergeConstants, MergeInv, NEW h \in M!Handlers, M!Rollback(h), valid' \subseteq Tokens
    PROVE  MergeInv'
<1>1. EndOf(h)
  BY EndKeeps DEF MergeInv, M!Rollback
<1>2. TableTypes'
  BY DEF MergeInv, TableTypes, M!Rollback, M!End
<1>3. SessionTypes'
  BY <1>1 DEF EndOf
<1>4. ASSUME NEW t \in Mergers PROVE MergerOK(t)'
  BY DEF MergeInv, SessionTypes, M!Handlers, MergerOK, M!Group, M!Rollback, M!End, M!Goto
<1>5. ASSUME NEW v \in Webhooks PROVE WebhookOK(v)'
  BY DEF MergeInv, SessionTypes, WebhookOK, M!Rollback, M!End, M!Goto
<1>6. ASSUME NEW t \in Mergers, NEW u \in Accounts PROVE UnsavedOK(t, u)'
  <2>1. UnsavedOK(t, u)
    BY DEF MergeInv
  <2>2. CASE t = h
    BY <1>1, <2>2 DEF EndOf, UnsavedOK
  <2>3. CASE t # h
    <3>1. at'[t] = at[t] /\ job'[t] = job[t] /\ unsaved'[t] = unsaved[t]
      BY <1>1, <2>3 DEF EndOf, M!Handlers
    <3> QED BY <2>1, <3>1 DEF UnsavedOK, M!Pri, M!Sec
  <2> QED BY <2>2, <2>3
<1>7. ASSUME NEW t \in Mergers, NEW u \in Accounts PROVE DraftOK(t, u)'
  BY DEF MergeConstants, MergeInv, M!Handlers, DraftOK, M!Pri, M!Sec, M!Rollback, M!End,
     M!Mine, M!Goto
<1>8. ASSUME NEW u \in Accounts PROVE NoDraft(u)'
  BY DEF MergeInv, NoDraft, M!Rollback, M!End
<1>9. ASSUME NEW t \in Mergers PROVE MoneyOK(t)'
  <2>1. MoneyOK(t) /\ account' = account
    BY DEF MergeInv, M!Rollback
  <2>2. CASE t = h
    BY <1>1, <2>2 DEF EndOf, MoneyOK, Late
  <2>3. CASE t # h
    <3>1. /\ at'[t] = at[t] /\ job'[t] = job[t] /\ unsaved'[t] = unsaved[t]
          /\ copies'[t] = copies[t]
      BY <1>1, <2>3 DEF EndOf, M!Handlers
    <3>2. \A u \in Accounts : accountLock'[u] = t <=> accountLock[u] = t
      BY <2>3 DEF MergeConstants, M!Handlers, M!Rollback, M!End, M!Mine
    <3>3. \A u \in Accounts : accountLock[u] = t => draft'[u] = draft[u]
      BY <2>3 DEF M!Rollback, M!Mine
    <3>4. at[t] # "idle" => M!Pri(t) \in Accounts /\ M!Sec(t) \in Accounts
      BY DEF MergeConstants, MergeInv, MergerOK, M!Pri, M!Sec
    <3> QED BY <2>1, <3>1, <3>2, <3>3, <3>4
            DEF MoneyOK, Fresh, Moved, NoneToMove, M!Pri, M!Sec, Late
  <2> QED BY <2>2, <2>3
<1> QED BY <1>2, <1>3, <1>4, <1>5, <1>6, <1>7, <1>8, <1>9 DEF MergeInv

(* A callback locks its order. *)
LEMMA LockOrderKeeps ==
    ASSUME MergeConstants, MergeInv, NEW w \in Webhooks, NEW o \in Orders, M!LockOrder(w, o)
    PROVE  MergeInv'
<1>1. TableTypes'
  BY DEF MergeInv, TableTypes, M!Handlers, M!LockOrder, M!rows, M!redis, M!ghosts
<1>2. SessionTypes'
  BY DEF MergeInv, SessionTypes, MergePlaces, M!LockOrder, M!Goto
<1>3. ASSUME NEW t \in Mergers PROVE MergerOK(t)'
  BY DEF MergeConstants, MergeInv, MergerOK, M!Group, M!LockOrder, M!Goto
<1>4. ASSUME NEW v \in Webhooks PROVE WebhookOK(v)'
  BY DEF MergeConstants, MergeInv, TableTypes, SessionTypes, M!Handlers, WebhookOK,
     M!LockOrder, M!Goto
<1>5. ASSUME NEW t \in Mergers, NEW u \in Accounts PROVE UnsavedOK(t, u)'
  BY DEF MergeInv, UnsavedOK, Early, M!Pri, M!Sec, M!LockOrder, M!Goto
<1>6. ASSUME NEW t \in Mergers, NEW u \in Accounts PROVE DraftOK(t, u)'
  BY DEF MergeInv, DraftOK, Early, M!Pri, M!Sec, M!LockOrder, M!rows, M!Goto
<1>7. ASSUME NEW u \in Accounts PROVE NoDraft(u)'
  BY DEF MergeInv, NoDraft, M!LockOrder, M!rows
<1>8. ASSUME NEW t \in Mergers PROVE MoneyOK(t)'
  BY DEF MergeConstants, MergeInv, TableTypes, SessionTypes, M!Handlers, MoneyOK, Fresh, Moved,
     NoneToMove, Late, M!Pri, M!Sec, M!LockOrder, M!rows, M!Goto
<1> QED BY <1>1, <1>2, <1>3, <1>4, <1>5, <1>6, <1>7, <1>8 DEF MergeInv

(* It credits the account. *)
LEMMA CreditKeeps ==
    ASSUME MergeConstants, MergeInv, NEW w \in Webhooks, M!Credit(w)
    PROVE  MergeInv'
<1>1. TableTypes'
  <2> DEFINE u == orderOwner[job[w]]
  <2>1. u \in Accounts /\ account[u] \in Rows /\ draft[u] \in Rows /\ job[w] \in Orders
    BY DEF MergeInv, TableTypes, WebhookOK, M!Credit
  <2>2. account[u]["balance"] + 1 \in Nat /\ draft[u]["balance"] + 1 \in Nat
    BY <2>1 DEF Rows
  <2>3. /\ [account[u] EXCEPT !["balance"] = account[u]["balance"] + 1] \in Rows
        /\ [draft[u] EXCEPT !["balance"] = draft[u]["balance"] + 1] \in Rows
    BY <2>1, <2>2, RowWithBalance
  <2>4. /\ account' = [account EXCEPT ![u] =
              [account[u] EXCEPT !["balance"] = account[u]["balance"] + 1]]
        /\ draft' = [draft EXCEPT ![u] = [draft[u] EXCEPT !["balance"] = draft[u]["balance"] + 1]]
    BY DEF M!Credit
  <2>5. account' \in [Accounts -> Rows] /\ draft' \in [Accounts -> Rows]
    BY <2>3, <2>4 DEF MergeInv, TableTypes
  <2>6. credited' \subseteq Orders /\ orderLock' \in [Orders -> M!Handlers \cup {None}]
    BY <2>1 DEF MergeInv, TableTypes, M!Credit
  <2>7. overlooked' \in [Accounts -> Nat]
    <3> DEFINE n == overlooked[u] + (IF M!SeenPoor(u) \/ M!Forgotten(job[w]) THEN 1 ELSE 0)
    <3>1. n \in Nat
      BY <2>1 DEF MergeInv, TableTypes
    <3>2. overlooked' = [overlooked EXCEPT ![u] = n]
      BY DEF M!Credit
    <3> QED BY <3>1, <3>2 DEF MergeInv, TableTypes
  <2> QED BY <2>5, <2>6, <2>7 DEF MergeInv, TableTypes, M!Credit, M!redis
<1>2. SessionTypes'
  BY DEF MergeInv, SessionTypes, MergePlaces, M!Credit, M!Goto
<1>3. ASSUME NEW t \in Mergers PROVE MergerOK(t)'
  BY DEF MergeInv, MergerOK, M!Group, M!Credit, M!Goto
<1>4. ASSUME NEW v \in Webhooks PROVE WebhookOK(v)'
  BY DEF MergeInv, SessionTypes, M!Handlers, WebhookOK, M!Credit, M!Goto
<1>5. ASSUME NEW t \in Mergers, NEW u \in Accounts PROVE UnsavedOK(t, u)'
  BY DEF MergeInv, UnsavedOK, MergerOK, M!Pri, M!Sec, M!Credit, M!Goto
<1>6. ASSUME NEW t \in Mergers, NEW u \in Accounts PROVE DraftOK(t, u)'
  BY DEF MergeInv, TableTypes, DraftOK, UnsavedOK, NoDraft, MergerOK, M!Pri, M!Sec, M!Credit,
     M!Goto
<1>7. ASSUME NEW u \in Accounts PROVE NoDraft(u)'
  BY DEF MergeInv, TableTypes, NoDraft, M!Credit
<1>8. ASSUME NEW t \in Mergers PROVE MoneyOK(t)'
  BY DEF MergeConstants, MergeInv, TableTypes, SessionTypes, M!Handlers, MoneyOK, Fresh, Moved,
     NoneToMove, Late, M!Pri, M!Sec, M!Credit, M!rows, M!Goto
<1> QED BY <1>1, <1>2, <1>3, <1>4, <1>5, <1>6, <1>7, <1>8 DEF MergeInv

(* A purchase. *)
LEMMA SpendKeeps ==
    ASSUME MergeConstants, MergeInv, NEW x \in Accounts, M!Spend(x)
    PROVE  MergeInv'
<1>1. TableTypes'
  <2>1. account[x] \in Rows /\ draft[x] \in Rows /\ draft[x] = account[x]
    BY DEF MergeInv, TableTypes, NoDraft, M!Spend
  <2>2. account[x]["balance"] - 1 \in Nat /\ draft[x]["balance"] - 1 \in Nat
    BY <2>1 DEF Rows, M!Spend
  <2>3. /\ [account[x] EXCEPT !["balance"] = account[x]["balance"] - 1] \in Rows
        /\ [draft[x] EXCEPT !["balance"] = draft[x]["balance"] - 1] \in Rows
    BY <2>1, <2>2, RowWithBalance
  <2>4. /\ account' = [account EXCEPT ![x] =
              [account[x] EXCEPT !["balance"] = account[x]["balance"] - 1]]
        /\ draft' = [draft EXCEPT ![x] = [draft[x] EXCEPT !["balance"] = draft[x]["balance"] - 1]]
    BY DEF M!Spend
  <2>5. account' \in [Accounts -> Rows] /\ draft' \in [Accounts -> Rows]
    BY <2>3, <2>4 DEF MergeInv, TableTypes
  <2>6. used' \in [Accounts -> Nat]
    BY DEF MergeInv, TableTypes, M!Spend
  <2> QED BY <2>5, <2>6 DEF MergeInv, TableTypes, M!Spend, M!orders, M!redis
<1>2. SessionTypes'
  BY DEF MergeInv, SessionTypes, M!Spend, M!work
<1>3. ASSUME NEW t \in Mergers PROVE MergerOK(t)'
  BY DEF MergeInv, MergerOK, M!Group, M!Spend, M!work
<1>4. ASSUME NEW v \in Webhooks PROVE WebhookOK(v)'
  BY DEF MergeInv, WebhookOK, M!Spend, M!orders, M!work
<1>5. ASSUME NEW t \in Mergers, NEW u \in Accounts PROVE UnsavedOK(t, u)'
  BY DEF MergeInv, UnsavedOK, M!Pri, M!Sec, M!Spend, M!work
<1>6. ASSUME NEW t \in Mergers, NEW u \in Accounts PROVE DraftOK(t, u)'
  BY DEF MergeInv, TableTypes, DraftOK, NoDraft, M!Pri, M!Sec, M!Spend, M!work
<1>7. ASSUME NEW u \in Accounts PROVE NoDraft(u)'
  BY DEF MergeInv, TableTypes, NoDraft, M!Spend
<1>8. ASSUME NEW t \in Mergers PROVE MoneyOK(t)'
  BY DEF MergeConstants, MergeInv, TableTypes, SessionTypes, M!Handlers, M!Columns, Rows,
     Cells, MoneyOK, Fresh, Moved, NoneToMove, DraftOK, UnsavedOK, NoDraft, MergerOK, Early,
     Late, M!Pri, M!Sec, M!Spend, M!rows, M!orders, M!redis, M!ghosts, M!work, M!Goto
<1> QED BY <1>1, <1>2, <1>3, <1>4, <1>5, <1>6, <1>7, <1>8 DEF MergeInv

(* A crash. *)
LEMMA MergeCrashKeeps ==
    ASSUME MergeConstants, MergeInv, M!Crash
    PROVE  MergeInv'
<1>1. TableTypes'
  BY DEF MergeInv, TableTypes, M!Crash, M!redis
<1>2. SessionTypes'
  <2>1. M!Unread \in [Accounts -> Rows]
    BY NewRow DEF M!Unread
  <2>2. /\ copies' \in [Mergers -> [Accounts -> Rows]]
        /\ unsaved' \in [Mergers -> [Accounts -> SUBSET M!Columns]]
    BY <2>1 DEF M!Crash, M!Clean
  <2>3. /\ at' \in [M!Handlers -> MergePlaces] /\ group' \in [Mergers -> Nat]
        /\ job' \in [M!Handlers -> Tokens \cup Orders \cup {None}]
        /\ moving' \in [Mergers -> Cells]
    BY DEF M!Crash, MergePlaces, Cells
  <2> QED BY <2>2, <2>3 DEF SessionTypes
<1>3. ASSUME NEW t \in Mergers PROVE MergerOK(t)'
  BY DEF M!Handlers, MergerOK, M!Crash
<1>4. ASSUME NEW v \in Webhooks PROVE WebhookOK(v)'
  BY DEF M!Handlers, WebhookOK, M!Crash
<1>5. ASSUME NEW t \in Mergers, NEW u \in Accounts PROVE UnsavedOK(t, u)'
  BY DEF UnsavedOK, M!Crash, M!Clean
<1>6. ASSUME NEW t \in Mergers, NEW u \in Accounts PROVE DraftOK(t, u)'
  BY DEF MergeConstants, M!Handlers, DraftOK, M!Crash
<1>7. ASSUME NEW u \in Accounts PROVE NoDraft(u)'
  BY DEF NoDraft, M!Crash
<1>8. ASSUME NEW t \in Mergers PROVE MoneyOK(t)'
  BY DEF M!Handlers, MoneyOK, Late, M!Crash
<1> QED BY <1>1, <1>2, <1>3, <1>4, <1>5, <1>6, <1>7, <1>8 DEF MergeInv

-----------------------------------------------------------------------------
(* A step by which t's part in dropping u stays as it is. *)
Stays(t, u) ==
    /\ at'[t] = at[t] /\ job'[t] = job[t]
    /\ \A v \in Accounts :
          /\ copies'[t][v]["balance"] = copies[t][v]["balance"]
          /\ "balance" \in unsaved'[t][v] <=> "balance" \in unsaved[t][v]
          /\ accountLock[v] = t =>
                /\ accountLock'[v] = t
                /\ draft'[v]["balance"] = draft[v]["balance"]
                /\ account'[v]["balance"] = account[v]["balance"]
    /\ Leaves(u) /\ Covered(u) => Covered(u)'
    /\ \A o \in Orders :
          /\ Leaves(u) /\ orderOwner'[o] = u => orderOwner[o] = u
          /\ orderLock[o] = t => orderLock'[o] = t

(* The two accounts of a session that merges: different ones, of which one stays. *)
LEMMA AccountsOf ==
    ASSUME MergeConstants, MergeInv, NEW t \in Mergers, at[t] # "idle"
    PROVE  /\ M!Pri(t) \in Accounts /\ M!Sec(t) \in Accounts /\ M!Pri(t) # M!Sec(t)
           /\ job[t] \in Tokens /\ ~ Leaves(M!Pri(t))
BY DEF MergeConstants, MergeInv, MergerOK, M!Pri, M!Sec, Leaves

(* What is moved in the copies stays moved. *)
LEMMA StaysMoved ==
    ASSUME MergeConstants, MergeInv, NEW t \in Mergers, at[t] # "idle", NEW u, Stays(t, u),
           Moved(t)
    PROVE  Moved(t)'
<1>1. M!Pri(t)' = M!Pri(t) /\ M!Sec(t)' = M!Sec(t)
  BY DEF Stays, M!Pri, M!Sec
<1>2. M!Pri(t) \in Accounts /\ M!Sec(t) \in Accounts
  BY AccountsOf
<1> QED BY <1>1, <1>2 DEF Stays, Moved

(* So t still drops all. *)
LEMMA StaysDrops ==
    ASSUME MergeConstants, MergeInv, LeftInv, NEW t \in Mergers, NEW u \in Accounts, Stays(t, u)
    PROVE  DropsAll(t, u)'
<1> SUFFICES ASSUME Leaves(u), at'[t] # "idle", M!Sec(t)' = u
             PROVE  /\ at'[t] \in {"logins", "flushing"} /\ copies'[t][u]["balance"] = 0
                          => Covered(u)'
                    /\ at'[t] \in Late => Moved(t)' \/ Covered(u)'
                    /\ at'[t] = "saving" =>
                          \A o \in Listed : orderOwner'[o] = u => orderLock'[o] = t
  BY DEF DropsAll, Drops, Leaves
<1>1. at[t] # "idle" /\ M!Sec(t) = u /\ at'[t] = at[t]
  BY DEF Stays, M!Sec
<1>2. DropsAll(t, u)
  BY DEF LeftInv
<1>3. ASSUME at'[t] \in {"logins", "flushing"}, copies'[t][u]["balance"] = 0
      PROVE  Covered(u)'
  BY <1>1, <1>2, <1>3 DEF DropsAll, Drops, Stays
<1>4. ASSUME at'[t] \in Late PROVE Moved(t)' \/ Covered(u)'
  BY <1>1, <1>2, <1>4, StaysMoved DEF DropsAll, Drops, Stays
<1>5. ASSUME at'[t] = "saving", NEW o \in Listed, orderOwner'[o] = u
      PROVE  orderLock'[o] = t
  BY <1>1, <1>2, <1>5 DEF DropsAll, Drops, Stays, MergeConstants
<1> QED BY <1>3, <1>4, <1>5

(* Who is idle, reads, or holds the money drops nothing yet. *)
LEMMA DropsNotYet ==
    ASSUME NEW t, NEW u, at'[t] \in {"idle", "primary", "secondary", "locking", "money"}
    PROVE  DropsAll(t, u)'
BY DEF DropsAll, Late

(* A token is taken. *)
LEMMA ConsumeLeaves ==
    ASSUME MergeConstants, MergeInv, LeftInv, NEW s \in Mergers, NEW k \in Tokens, M!Consume(s, k)
    PROVE  LeftInv'
<1>1. ASSUME NEW u \in Accounts PROVE LeavesNothing(u)'
  BY DEF LeftInv, LeavesNothing, Covered, M!Consume, M!rows, M!orders, M!ghosts
<1>2. ASSUME NEW t \in Mergers, NEW u \in Accounts PROVE DropsAll(t, u)'
  <2>1. CASE t # s
    <3>1. Stays(t, u)
      BY <2>1 DEF Stays, Covered, M!Consume, M!rows, M!orders, M!ghosts, M!Goto
    <3> QED BY <3>1, StaysDrops
  <2>2. CASE t = s
    <3>1. at'[s] = "primary"
      BY DEF MergeInv, SessionTypes, M!Handlers, M!Consume, M!Goto
    <3> QED BY <2>2, <3>1, DropsNotYet
  <2> QED BY <2>1, <2>2
<1> QED BY <1>1, <1>2 DEF LeftInv

(* The first account is read. *)
LEMMA ReadPrimaryLeaves ==
    ASSUME MergeConstants, MergeInv, LeftInv, NEW s \in Mergers, M!ReadPrimary(s)
    PROVE  LeftInv'
<1>1. ASSUME NEW u \in Accounts PROVE LeavesNothing(u)'
  BY DEF LeftInv, LeavesNothing, Covered, M!ReadPrimary, M!rows, M!orders, M!ghosts
<1>2. ASSUME NEW t \in Mergers, NEW u \in Accounts PROVE DropsAll(t, u)'
  <2>1. CASE t # s
    <3>1. Stays(t, u)
      BY <2>1 DEF Stays, Covered, M!ReadPrimary, M!rows, M!orders, M!ghosts, M!Goto
    <3> QED BY <3>1, StaysDrops
  <2>2. CASE t = s
    <3>1. at'[s] = "secondary"
      BY DEF MergeInv, SessionTypes, M!Handlers, M!ReadPrimary, M!Goto
    <3> QED BY <2>2, <3>1, DropsNotYet
  <2> QED BY <2>1, <2>2
<1> QED BY <1>1, <1>2 DEF LeftInv

(* The second one is read. *)
LEMMA ReadSecondaryLeaves ==
    ASSUME MergeConstants, MergeInv, LeftInv, NEW s \in Mergers, M!ReadSecondary(s)
    PROVE  LeftInv'
<1>1. ASSUME NEW u \in Accounts PROVE LeavesNothing(u)'
  BY DEF LeftInv, LeavesNothing, Covered, M!ReadSecondary, M!rows, M!orders, M!ghosts
<1>2. ASSUME NEW t \in Mergers, NEW u \in Accounts PROVE DropsAll(t, u)'
  <2>1. CASE t # s
    <3>1. Stays(t, u)
      BY <2>1 DEF Stays, Covered, M!ReadSecondary, M!rows, M!orders, M!ghosts, M!Goto
    <3> QED BY <3>1, StaysDrops
  <2>2. CASE t = s
    <3>1. at[s] = "secondary" /\ at'[s] = "logins" /\ job' = job
      BY DEF MergeInv, SessionTypes, M!Handlers, M!ReadSecondary, M!Goto
    <3>2. copies'[s][M!Sec(s)] = account[M!Sec(s)] /\ UNCHANGED <<account, overlooked>>
      BY <3>1, AccountsOf DEF MergeInv, SessionTypes, M!ReadSecondary, M!rows, M!ghosts
    <3>3. M!Sec(s)' = M!Sec(s) /\ overlooked[u] \in Nat
      BY <3>1 DEF MergeInv, TableTypes, M!Sec
    <3> QED BY <2>2, <3>1, <3>2, <3>3 DEF DropsAll, Drops, Covered, Late
  <2> QED BY <2>1, <2>2
<1> QED BY <1>1, <1>2 DEF LeftInv

(* A kind of login stays as it is. *)
LEMMA KeepLoginLeaves ==
    ASSUME MergeConstants, MergeInv, LeftInv, NEW s \in Mergers, M!KeepLogin(s)
    PROVE  LeftInv'
<1>1. ASSUME NEW u \in Accounts PROVE LeavesNothing(u)'
  BY DEF LeftInv, LeavesNothing, Covered, M!KeepLogin, M!rows, M!orders, M!ghosts
<1>2. ASSUME NEW t \in Mergers, NEW u \in Accounts PROVE DropsAll(t, u)'
  <2>1. CASE t # s
    <3>1. Stays(t, u)
      BY <2>1 DEF Stays, Covered, M!KeepLogin, M!rows, M!orders, M!ghosts
    <3> QED BY <3>1, StaysDrops
  <2>2. Stays(s, u)
    BY DEF Stays, Covered, M!KeepLogin, M!rows, M!orders, M!ghosts
  <2>3. CASE t = s
    BY <2>2, <2>3, StaysDrops
  <2> QED BY <2>1, <2>3
<1> QED BY <1>1, <1>2 DEF LeftInv

(* A login is cleared in the copy of the second account. *)
LEMMA ClearLoginLeaves ==
    ASSUME MergeConstants, MergeInv, LeftInv, NEW s \in Mergers, M!ClearLogin(s)
    PROVE  LeftInv'
<1>1. ASSUME NEW u \in Accounts PROVE LeavesNothing(u)'
  BY DEF LeftInv, LeavesNothing, Covered, M!ClearLogin, M!rows, M!orders, M!ghosts
<1>2. ASSUME NEW t \in Mergers, NEW u \in Accounts PROVE DropsAll(t, u)'
  <2>1. CASE t # s
    <3>1. Stays(t, u)
      BY <2>1 DEF Stays, Covered, M!ClearLogin, M!Set, M!rows, M!orders, M!ghosts, M!Goto
    <3> QED BY <3>1, StaysDrops
  <2>2. CASE t = s
    <3>1. /\ at[s] = "logins" /\ at'[s] = "flushing" /\ job' = job
          /\ UNCHANGED <<account, overlooked>>
      BY DEF MergeInv, SessionTypes, M!Handlers, M!ClearLogin, M!Goto, M!rows, M!ghosts
    <3>2. M!Group(s) # "balance"
      BY DEF MergeConstants, M!LoginsLeft, M!Group, M!Groups, M!ClearLogin
    <3>3. \A v \in Accounts : copies'[s][v]["balance"] = copies[s][v]["balance"]
      BY <3>2 DEF M!ClearLogin, M!Set
    <3>4. DropsAll(s, u) /\ M!Sec(s)' = M!Sec(s)
      BY <3>1 DEF LeftInv, M!Sec
    <3> QED BY <2>2, <3>1, <3>3, <3>4 DEF DropsAll, Drops, Covered, Leaves, Late
  <2> QED BY <2>1, <2>2
<1> QED BY <1>1, <1>2 DEF LeftInv

(* It is set in the copy of the first. *)
LEMMA SetLoginLeaves ==
    ASSUME MergeConstants, MergeInv, LeftInv, NEW s \in Mergers, M!SetLogin(s)
    PROVE  LeftInv'
<1>1. ASSUME NEW u \in Accounts PROVE LeavesNothing(u)'
  BY DEF LeftInv, LeavesNothing, Covered, M!SetLogin, M!rows, M!orders, M!ghosts
<1>2. ASSUME NEW t \in Mergers, NEW u \in Accounts PROVE DropsAll(t, u)'
  <2>1. CASE t # s
    <3>1. Stays(t, u)
      BY <2>1 DEF Stays, Covered, M!SetLogin, M!Set, M!rows, M!orders, M!ghosts, M!Goto
    <3> QED BY <3>1, StaysDrops
  <2>2. CASE t = s
    <3>1. /\ at[s] = "flushing" /\ at'[s] = "logins" /\ job' = job
          /\ UNCHANGED <<account, overlooked>>
      BY DEF MergeInv, SessionTypes, M!Handlers, M!SetLogin, M!Goto, M!rows, M!ghosts
    <3>2. M!Group(s) # "balance"
      BY DEF MergeConstants, MergeInv, MergerOK, M!SetLogin
    <3>3. \A v \in Accounts : copies'[s][v]["balance"] = copies[s][v]["balance"]
      BY <3>2 DEF M!SetLogin, M!Set
    <3>4. DropsAll(s, u) /\ M!Sec(s)' = M!Sec(s)
      BY <3>1 DEF LeftInv, M!Sec
    <3> QED BY <2>2, <3>1, <3>3, <3>4 DEF DropsAll, Drops, Covered, Leaves, Late
  <2> QED BY <2>1, <2>2
<1> QED BY <1>1, <1>2 DEF LeftInv

(* A row is flushed. *)
LEMMA WriteRowLeaves ==
    ASSUME MergeConstants, MergeInv, LeftInv, NEW s \in Mergers, NEW x \in Accounts,
           M!WriteRow(s, x)
    PROVE  LeftInv'
<1>1. /\ UNCHANGED <<account, orderOwner, orderLock, overlooked, at, job, copies>>
      /\ accountLock' = [accountLock EXCEPT ![x] = s] /\ accountLock[x] \in {None, s}
      /\ \A v \in Accounts \ {x} : draft'[v] = draft[v] /\ unsaved'[s][v] = unsaved[s][v]
      /\ unsaved'[s][x] = {} /\ \A t \in Mergers \ {s} : unsaved'[t] = unsaved[t]
  BY DEF MergeInv, TableTypes, SessionTypes, M!WriteRow, M!Free, M!orders, M!ghosts
<1>2. draft'[x]["balance"] = IF "balance" \in unsaved[s][x] THEN copies[s][x]["balance"]
                                                            ELSE draft[x]["balance"]
  <2>1. draft'[x]["balance"] = IF "balance" \in unsaved[s][x] THEN copies[s][x]["balance"]
                                                              ELSE M!View(s, x)["balance"]
    BY DEF MergeInv, TableTypes, M!Columns, M!WriteRow, M!Written
  <2>2. M!View(s, x) = draft[x]
    BY <1>1 DEF MergeInv, NoDraft, M!View, M!Mine
  <2> QED BY <2>1, <2>2
<1>3. UnsavedOK(s, x) /\ MoneyOK(s) /\ at[s] # "idle"
  BY DEF MergeInv, M!WriteRow, M!Writes
<1>4. ASSUME NEW u \in Accounts PROVE LeavesNothing(u)'
  <2>1. LeavesNothing(u)
    BY DEF LeftInv
  <2>2. ASSUME u = x, Leaves(u), "balance" \in unsaved[s][x]
        PROVE  copies[s][x]["balance"] = 0
    <3>1. at[s] \in Late /\ x = M!Sec(s)
      BY <1>3, <2>2, AccountsOf DEF UnsavedOK
    <3>2. ~ NoneToMove(s)
      BY <2>2 DEF NoneToMove
    <3> QED BY <1>3, <3>1, <3>2 DEF MoneyOK, Moved
  <2>3. account[u]["balance"] \in Nat
    BY DEF MergeInv, TableTypes, Rows
  <2>4. Leaves(u) => draft'[u]["balance"] <= account[u]["balance"]
    BY <1>1, <1>2, <2>1, <2>2, <2>3 DEF LeavesNothing
  <2> QED BY <1>1, <2>1, <2>4 DEF LeavesNothing, Leaves, Covered
<1>5. ASSUME NEW t \in Mergers, NEW u \in Accounts PROVE DropsAll(t, u)'
  <2>1. CASE t # s
    <3>1. \A v \in Accounts : accountLock[v] = t => v # x
      BY <1>1, <2>1 DEF MergeConstants, M!Handlers
    <3>2. \A v \in Accounts : accountLock[v] = t => accountLock'[v] = t /\ draft'[v] = draft[v]
      BY <1>1, <3>1 DEF MergeInv, TableTypes
    <3>3. Stays(t, u)
      BY <1>1, <2>1, <3>2 DEF Stays, Covered
    <3> QED BY <3>3, StaysDrops
  <2>2. CASE t = s
    <3>1. DropsAll(s, u) /\ M!Sec(s)' = M!Sec(s) /\ M!Pri(s)' = M!Pri(s)
      BY <1>1 DEF LeftInv, M!Sec, M!Pri
    <3>2. ASSUME Moved(s) PROVE Moved(s)'
      <4>1. M!Pri(s) \in Accounts /\ M!Sec(s) \in Accounts
        BY <1>3, AccountsOf
      <4>2. accountLock'[M!Pri(s)] = s /\ accountLock'[M!Sec(s)] = s
        BY <1>1, <3>2, <4>1 DEF Moved, MergeInv, TableTypes
      <4>3. ASSUME NEW v \in {M!Pri(s), M!Sec(s)}
            PROVE  "balance" \in unsaved'[s][v] \/ draft'[v]["balance"] = copies[s][v]["balance"]
        BY <1>1, <1>2, <3>2, <4>1 DEF Moved
      <4> QED BY <1>1, <3>1, <3>2, <4>2, <4>3 DEF Moved
    <3> QED BY <1>1, <2>2, <3>1, <3>2 DEF DropsAll, Drops, Leaves, Covered
  <2> QED BY <2>1, <2>2
<1> QED BY <1>4, <1>5 DEF LeftInv

(* There is no money to move. *)
LEMMA NoMoneyLeaves ==
    ASSUME MergeConstants, MergeInv, LeftInv, NEW s \in Mergers, M!NoMoney(s)
    PROVE  LeftInv'
<1>1. ASSUME NEW u \in Accounts PROVE LeavesNothing(u)'
  BY DEF LeftInv, LeavesNothing, Covered, M!NoMoney, M!rows, M!orders, M!ghosts
<1>2. ASSUME NEW t \in Mergers, NEW u \in Accounts PROVE DropsAll(t, u)'
  <2>1. CASE t # s
    <3>1. Stays(t, u)
      BY <2>1 DEF Stays, Covered, M!NoMoney, M!rows, M!orders, M!ghosts, M!Goto
    <3> QED BY <3>1, StaysDrops
  <2>2. CASE t = s
    <3>1. /\ at[s] = "logins" /\ at'[s] = "orders" /\ job' = job
          /\ copies[s][M!Sec(s)]["balance"] = 0
      BY DEF MergeInv, SessionTypes, M!Handlers, M!NoMoney, M!LoginsDone, M!Goto
    <3>2. DropsAll(s, u) /\ M!Sec(s)' = M!Sec(s)
      BY <3>1 DEF LeftInv, M!Sec
    <3>3. Covered(u) => Covered(u)'
      BY DEF Covered, M!NoMoney, M!rows, M!ghosts
    <3> QED BY <2>2, <3>1, <3>2, <3>3 DEF DropsAll, Drops, Leaves
  <2> QED BY <2>1, <2>2
<1> QED BY <1>1, <1>2 DEF LeftInv

(* The first row is locked and read again. *)
LEMMA LockPrimaryLeaves ==
    ASSUME MergeConstants, MergeInv, LeftInv, NEW s \in Mergers, M!LockPrimary(s)
    PROVE  LeftInv'
<1>1. ASSUME NEW u \in Accounts PROVE LeavesNothing(u)'
  BY DEF MergeConstants, LeftInv, LeavesNothing, Covered, M!LockPrimary, M!orders, M!ghosts
<1>2. ASSUME NEW t \in Mergers, NEW u \in Accounts PROVE DropsAll(t, u)'
  <2>1. CASE t # s
    <3>1. Stays(t, u)
      BY <2>1 DEF MergeConstants, M!Handlers, Stays, Covered, M!LockPrimary, M!LockAndReload,
         M!Free, M!orders, M!ghosts, M!Goto
    <3> QED BY <3>1, StaysDrops
  <2>2. CASE t = s
    <3>1. at'[s] = "locking"
      BY DEF MergeInv, SessionTypes, M!Handlers, M!LockPrimary, M!Goto
    <3> QED BY <2>2, <3>1, DropsNotYet
  <2> QED BY <2>1, <2>2
<1> QED BY <1>1, <1>2 DEF LeftInv

(* So is the second one. *)
LEMMA LockSecondaryLeaves ==
    ASSUME MergeConstants, MergeInv, LeftInv, NEW s \in Mergers, M!LockSecondary(s)
    PROVE  LeftInv'
<1>1. ASSUME NEW u \in Accounts PROVE LeavesNothing(u)'
  BY DEF LeftInv, LeavesNothing, Covered, M!LockSecondary, M!orders, M!ghosts
<1>2. ASSUME NEW t \in Mergers, NEW u \in Accounts PROVE DropsAll(t, u)'
  <2>1. CASE t # s
    <3>1. Stays(t, u)
      BY <2>1 DEF MergeConstants, M!Handlers, Stays, Covered, M!LockSecondary, M!LockAndReload,
         M!Free, M!orders, M!ghosts, M!Goto
    <3> QED BY <3>1, StaysDrops
  <2>2. CASE t = s
    <3>1. at'[s] = "money"
      BY DEF MergeInv, SessionTypes, M!Handlers, M!LockSecondary, M!Goto
    <3> QED BY <2>2, <3>1, DropsNotYet
  <2> QED BY <2>1, <2>2
<1> QED BY <1>1, <1>2 DEF LeftInv

(* The money is moved in the copies. *)
LEMMA MoveMoneyLeaves ==
    ASSUME MergeConstants, MergeInv, LeftInv, NEW s \in Mergers, M!MoveMoney(s)
    PROVE  LeftInv'
<1>1. ASSUME NEW u \in Accounts PROVE LeavesNothing(u)'
  BY DEF LeftInv, LeavesNothing, Covered, M!MoveMoney, M!rows, M!orders, M!ghosts
<1>2. ASSUME NEW t \in Mergers, NEW u \in Accounts PROVE DropsAll(t, u)'
  <2>1. CASE t # s
    <3>1. Stays(t, u)
      BY <2>1 DEF MergeInv, SessionTypes, M!Handlers, Stays, Covered, M!MoveMoney, M!rows,
         M!orders, M!ghosts, M!Goto
    <3> QED BY <3>1, StaysDrops
  <2>2. CASE t = s
    <3>1. at[s] = "money" /\ at'[s] = "orders"
      BY DEF MergeInv, SessionTypes, M!Handlers, M!MoveMoney, M!Goto
    <3>2. MoneyOK(s)'
      BY MoveMoneyKeeps DEF MergeInv
    <3>3. "balance" \in unsaved'[s][M!Pri(s)] /\ M!Pri(s) \in Accounts
      BY <3>1, AccountsOf DEF MergeInv, SessionTypes, M!MoveMoney
    <3>4. Moved(s)'
      BY <3>1, <3>2, <3>3 DEF MoneyOK, NoneToMove, Late
    <3> QED BY <2>2, <3>1, <3>4 DEF DropsAll
  <2> QED BY <2>1, <2>2
<1> QED BY <1>1, <1>2 DEF LeftInv

(* The orders are locked, and the second account is marked in the copy. *)
LEMMA ReassignOrdersLeaves ==
    ASSUME MergeConstants, MergeInv, LeftInv, NEW s \in Mergers, M!ReassignOrders(s)
    PROVE  LeftInv'
<1>1. ASSUME NEW u \in Accounts PROVE LeavesNothing(u)'
  BY DEF LeftInv, LeavesNothing, Covered, M!ReassignOrders, M!rows, M!ghosts
<1>2. ASSUME NEW t \in Mergers, NEW u \in Accounts PROVE DropsAll(t, u)'
  <2>1. CASE t # s
    <3>1. Stays(t, u)
      BY <2>1 DEF MergeConstants, M!Handlers, Stays, Covered, M!ReassignOrders, M!rows,
         M!ghosts, M!Goto
    <3> QED BY <3>1, StaysDrops
  <2>2. CASE t = s
    <3>1. /\ at[s] = "orders" /\ at'[s] = "saving" /\ job' = job
          /\ UNCHANGED <<account, draft, accountLock, orderOwner, overlooked>>
      BY DEF MergeInv, SessionTypes, M!Handlers, M!ReassignOrders, M!Goto, M!rows, M!ghosts
    <3>2. DropsAll(s, u) /\ M!Sec(s)' = M!Sec(s) /\ M!Pri(s)' = M!Pri(s)
      BY <3>1 DEF LeftInv, M!Sec, M!Pri
    <3>3. \A v \in Accounts :
             /\ copies'[s][v]["balance"] = copies[s][v]["balance"]
             /\ "balance" \in unsaved[s][v] => "balance" \in unsaved'[s][v]
      BY DEF MergeConstants, M!Columns, M!ReassignOrders
    <3>4. Moved(s) => Moved(s)'
      BY <3>1, <3>2, <3>3, AccountsOf DEF Moved
    <3>5. \A o \in Listed : orderOwner[o] = M!Sec(s) => orderLock'[o] = s
      BY DEF MergeConstants, M!ReassignOrders, M!OrdersOf
    <3> QED BY <2>2, <3>1, <3>2, <3>4, <3>5 DEF DropsAll, Drops, Covered, Leaves, Late
  <2> QED BY <2>1, <2>2
<1> QED BY <1>1, <1>2 DEF LeftInv

(* The commit. *)
LEMMA MergeCommitLeaves ==
    ASSUME MergeConstants, MergeInv, LeftInv, NEW s \in Mergers, M!Commit(s)
    PROVE  LeftInv'
<1>1. ASSUME NEW u \in Accounts PROVE LeavesNothing(u)'
  <2> SUFFICES ASSUME Leaves(u)
               PROVE  /\ draft'[u]["balance"] <= account'[u]["balance"]
                      /\ account'[u]["deleted"] =>
                            Covered(u)' /\ \A o \in Listed : orderOwner'[o] # u
    BY DEF LeavesNothing
  <2>1. LeavesNothing(u) /\ DraftOK(s, u) /\ DropsAll(s, u) /\ UnsavedOK(s, u)
    BY DEF LeftInv, MergeInv
  <2>2. /\ account'[u] = (IF accountLock[u] = s THEN draft[u] ELSE account[u])
        /\ draft' = draft /\ overlooked' = overlooked
    BY DEF M!Commit, M!View, M!Mine
  <2>3. draft[u]["balance"] \in Nat /\ account[u]["balance"] \in Nat /\ overlooked[u] \in Nat
    BY DEF MergeInv, TableTypes, Rows
  <2>4. /\ draft'[u]["balance"] <= account'[u]["balance"]
        /\ account'[u]["balance"] <= account[u]["balance"]
    BY <2>1, <2>2, <2>3 DEF LeavesNothing
  <2>5. \A o \in Orders : orderOwner'[o] = u => orderOwner[o] = u /\ orderLock[o] # s
    BY AccountsOf DEF M!Commit
  <2>6. CASE account[u]["deleted"]
    BY <2>1, <2>2, <2>3, <2>4, <2>5, <2>6 DEF LeavesNothing, Covered, MergeConstants
  <2>7. ASSUME ~ account[u]["deleted"], account'[u]["deleted"]
        PROVE  Covered(u)' /\ \A o \in Listed : orderOwner'[o] # u
    <3>1. accountLock[u] = s /\ at[s] = "saving" /\ u = M!Sec(s)
      BY <2>1, <2>2, <2>7 DEF DraftOK
    <3>2. unsaved[s][u] = {}
      BY <3>1 DEF M!Commit, M!Clean
    <3>3. Moved(s) => draft[u]["balance"] = 0
      BY <3>1, <3>2 DEF Moved
    <3>4. Covered(u)'
      BY <2>1, <2>2, <2>3, <2>4, <3>1, <3>3 DEF DropsAll, Drops, Covered, Late
    <3>5. \A o \in Listed : orderOwner[o] = u => orderLock[o] = s
      BY <2>1, <3>1 DEF DropsAll, Drops
    <3> QED BY <2>5, <3>4, <3>5 DEF MergeConstants
  <2> QED BY <2>4, <2>6, <2>7
<1>2. ASSUME NEW t \in Mergers, NEW u \in Accounts PROVE DropsAll(t, u)'
  <2>1. CASE t # s
    <3>1. EndOf(s)
      BY EndKeeps DEF MergeInv, M!Handlers, M!Commit
    <3>2. /\ at'[t] = at[t] /\ job'[t] = job[t] /\ unsaved'[t] = unsaved[t]
          /\ copies'[t] = copies[t]
      BY <2>1, <3>1 DEF EndOf, M!Handlers
    <3>3. \A v \in Accounts : accountLock[v] = t =>
             accountLock'[v] = t /\ draft'[v] = draft[v] /\ account'[v] = account[v]
      BY <2>1 DEF M!Commit, M!End, M!Mine, M!View
    <3>4. \A o \in Orders : orderLock[o] = t => orderLock'[o] = t
      BY <2>1 DEF M!Commit, M!End
    <3>5. \A o \in Orders : Leaves(u) /\ orderOwner'[o] = u => orderOwner[o] = u
      BY AccountsOf DEF M!Commit
    <3>6. Leaves(u) /\ Covered(u) => Covered(u)'
      <4>1. account'[u] = draft[u] \/ account'[u] = account[u]
        BY DEF M!Commit, M!View
      <4>2. /\ draft[u]["balance"] \in Nat /\ account[u]["balance"] \in Nat
            /\ overlooked[u] \in Nat /\ overlooked' = overlooked
        BY DEF MergeInv, TableTypes, Rows, M!Commit
      <4> QED BY <4>1, <4>2 DEF LeftInv, LeavesNothing, Covered
    <3>7. Stays(t, u)
      BY <3>2, <3>3, <3>4, <3>5, <3>6 DEF Stays
    <3> QED BY <3>7, StaysDrops
  <2>2. CASE t = s
    <3>1. at'[s] = "idle"
      BY DEF MergeInv, SessionTypes, M!Handlers, M!Commit, M!End, M!Goto
    <3> QED BY <2>2, <3>1, DropsNotYet
  <2> QED BY <2>1, <2>2
<1> QED BY <1>1, <1>2 DEF LeftInv

(* A transaction that is rolled back. *)
LEMMA MergeRollbackLeaves ==
    ASSUME MergeConstants, MergeInv, LeftInv, NEW h \in M!Handlers, M!Rollback(h)
    PROVE  LeftInv'
<1>1. EndOf(h)
  BY EndKeeps DEF MergeInv, M!Rollback
<1>2. ASSUME NEW u \in Accounts PROVE LeavesNothing(u)'
  <2>1. draft'[u] = draft[u] \/ draft'[u] = account[u]
    BY DEF M!Rollback
  <2>2. LeavesNothing(u) /\ UNCHANGED <<account, orderOwner, overlooked>>
    BY DEF LeftInv, M!Rollback
  <2>3. account[u]["balance"] \in Nat
    BY DEF MergeInv, TableTypes, Rows
  <2> QED BY <2>1, <2>2, <2>3 DEF LeavesNothing, Leaves, Covered
<1>3. ASSUME NEW t \in Mergers, NEW u \in Accounts PROVE DropsAll(t, u)'
  <2>1. CASE t = h
    BY <1>1, <2>1, DropsNotYet DEF EndOf
  <2>2. CASE t # h
    <3>1. /\ at'[t] = at[t] /\ job'[t] = job[t] /\ unsaved'[t] = unsaved[t]
          /\ copies'[t] = copies[t]
      BY <1>1, <2>2 DEF EndOf, M!Handlers
    <3>2. \A v \in Accounts : accountLock[v] = t => accountLock'[v] = t /\ draft'[v] = draft[v]
      BY <2>2 DEF M!Rollback, M!End, M!Mine
    <3>3. UNCHANGED <<account, orderOwner, overlooked>>
      BY DEF M!Rollback
    <3>4. \A o \in Orders : orderLock[o] = t => orderLock'[o] = t
      BY <2>2 DEF M!Rollback, M!End
    <3>5. Stays(t, u)
      BY <3>1, <3>2, <3>3, <3>4 DEF Stays, Covered
    <3> QED BY <3>5, StaysDrops
  <2> QED BY <2>1, <2>2
<1> QED BY <1>2, <1>3 DEF LeftInv

(* A callback locks its order. *)
LEMMA LockOrderLeaves ==
    ASSUME MergeConstants, MergeInv, LeftInv, NEW w \in Webhooks, NEW o \in Orders,
           M!LockOrder(w, o)
    PROVE  LeftInv'
<1>1. UNCHANGED <<account, draft, accountLock, orderOwner, overlooked, copies, unsaved>>
  BY DEF M!LockOrder, M!rows, M!ghosts
<1>2. ASSUME NEW u \in Accounts PROVE LeavesNothing(u)'
  BY <1>1 DEF LeftInv, LeavesNothing, Covered
<1>3. ASSUME NEW t \in Mergers, NEW u \in Accounts PROVE DropsAll(t, u)'
  <2>1. at'[t] = at[t] /\ job'[t] = job[t]
    BY DEF MergeConstants, M!LockOrder, M!Goto
  <2>2. \A x \in Orders : orderLock[x] = t => orderLock'[x] = t
    BY DEF MergeConstants, M!Handlers, M!LockOrder
  <2>3. Stays(t, u)
    BY <1>1, <2>1, <2>2 DEF Stays, Covered
  <2> QED BY <2>3, StaysDrops
<1> QED BY <1>2, <1>3 DEF LeftInv

(* A callback credits the account.  If a merge has seen no money there, the credit is
   counted. *)
LEMMA CreditLeaves ==
    ASSUME MergeConstants, MergeInv, LeftInv, NEW w \in Webhooks, M!Credit(w)
    PROVE  LeftInv'
<1> DEFINE x == orderOwner[job[w]]
<1>1. job[w] \in Orders /\ x \in Accounts /\ orderLock[job[w]] = w
  BY DEF MergeInv, TableTypes, WebhookOK, M!Credit
<1>2. /\ account'[x]["balance"] = account[x]["balance"] + 1
      /\ draft'[x]["balance"] = draft[x]["balance"] + 1
      /\ account'[x]["deleted"] = account[x]["deleted"]
      /\ \A u \in Accounts \ {x} : account'[u] = account[u] /\ draft'[u] = draft[u]
  BY <1>1 DEF MergeInv, TableTypes, Rows, M!Columns, M!Credit
<1>3. /\ overlooked'[x] = overlooked[x] + (IF M!SeenPoor(x) \/ M!Forgotten(job[w])
                                             THEN 1 ELSE 0)
      /\ \A u \in Accounts \ {x} : overlooked'[u] = overlooked[u]
  BY <1>1 DEF MergeInv, TableTypes, M!Credit
<1>4. /\ UNCHANGED <<accountLock, orderOwner, copies, unsaved>> /\ accountLock[x] = None
      /\ draft[x] = account[x]
  BY <1>1 DEF MergeInv, NoDraft, M!Credit
<1>5. ASSUME NEW u \in Accounts PROVE account[u]["balance"] \in Nat /\ overlooked[u] \in Nat
  BY DEF MergeInv, TableTypes, Rows
<1>6. ASSUME NEW u \in Accounts PROVE LeavesNothing(u)'
  <2>1. LeavesNothing(u)
    BY DEF LeftInv
  <2>2. CASE u = x
    <3>1. draft'[u]["balance"] <= account'[u]["balance"]
      BY <1>2, <1>4, <1>5, <2>2
    <3>2. ASSUME Leaves(u), account[u]["deleted"] PROVE Covered(u)'
      <4>1. Covered(u) /\ M!Forgotten(job[w])
        BY <1>1, <2>1, <2>2, <3>2 DEF LeavesNothing, M!Forgotten
      <4> QED BY <1>2, <1>3, <1>5, <2>2, <4>1 DEF Covered
    <3> QED BY <1>2, <1>4, <2>1, <2>2, <3>1, <3>2 DEF LeavesNothing, Leaves
  <2>3. CASE u # x
    BY <1>2, <1>3, <1>4, <2>1, <2>3 DEF LeavesNothing, Covered
  <2> QED BY <2>2, <2>3
<1>7. ASSUME NEW t \in Mergers, NEW u \in Accounts PROVE DropsAll(t, u)'
  <2>1. at'[t] = at[t] /\ job'[t] = job[t]
    BY DEF MergeConstants, M!Credit, M!Goto
  <2>2. \A o \in Orders : orderLock[o] = t => orderLock'[o] = t
    BY <1>1 DEF MergeConstants, M!Credit
  <2>3. \A v \in Accounts : accountLock[v] = t =>
           account'[v] = account[v] /\ draft'[v] = draft[v]
    BY <1>2, <1>4 DEF MergeConstants, M!Handlers
  <2>4. CASE u # x
    <3>1. Covered(u) => Covered(u)'
      BY <1>2, <1>3, <2>4 DEF Covered
    <3>2. Stays(t, u)
      BY <1>4, <2>1, <2>2, <2>3, <3>1 DEF Stays
    <3> QED BY <3>2, StaysDrops
  <2>5. CASE u = x
    <3> SUFFICES ASSUME Leaves(u), at[t] # "idle", M!Sec(t) = u
                 PROVE  /\ at[t] \in {"logins", "flushing"} /\ copies[t][u]["balance"] = 0
                              => Covered(u)'
                        /\ at[t] \in Late => Moved(t)' \/ Covered(u)'
                        /\ at[t] = "saving" =>
                              \A o \in Listed : orderOwner[o] = u => orderLock'[o] = t
      BY <1>4, <2>1 DEF DropsAll, Drops, M!Sec
    <3>1. DropsAll(t, u) /\ MoneyOK(t)
      BY DEF LeftInv, MergeInv
    <3>2. ~ Moved(t)
      BY <1>4, <2>5 DEF Moved, MergeConstants, M!Handlers
    <3>3. at[t] \in Late => copies[t][u]["balance"] = 0
      BY <3>1, <3>2 DEF MoneyOK, NoneToMove
    <3>4. ASSUME at[t] \in {"logins", "flushing"} \cup Late, copies[t][u]["balance"] = 0
          PROVE  Covered(u)'
      <4>1. M!SeenPoor(u)
        BY <3>4 DEF M!SeenPoor, Late
      <4>2. Covered(u)
        BY <3>1, <3>2, <3>4 DEF DropsAll, Drops
      <4> QED BY <1>2, <1>3, <1>5, <2>5, <4>1, <4>2 DEF Covered
    <3>5. at[t] = "saving" => \A o \in Listed : orderOwner[o] = u => orderLock'[o] = t
      BY <2>2, <3>1 DEF DropsAll, Drops, MergeConstants
    <3> QED BY <3>3, <3>4, <3>5
  <2> QED BY <2>4, <2>5
<1> QED BY <1>6, <1>7 DEF LeftInv

(* A purchase. *)
LEMMA SpendLeaves ==
    ASSUME MergeConstants, MergeInv, LeftInv, NEW x \in Accounts, M!Spend(x)
    PROVE  LeftInv'
<1>1. /\ account'[x]["balance"] = account[x]["balance"] - 1
      /\ draft'[x]["balance"] = draft[x]["balance"] - 1
      /\ account'[x]["deleted"] = account[x]["deleted"]
      /\ \A u \in Accounts \ {x} : account'[u] = account[u] /\ draft'[u] = draft[u]
  BY DEF MergeInv, TableTypes, Rows, M!Columns, M!Spend
<1>2. UNCHANGED <<accountLock, orderOwner, orderLock, overlooked, at, job, copies, unsaved>>
  BY DEF M!Spend, M!orders, M!work
<1>3. accountLock[x] = None
  BY DEF M!Spend
<1>4. ASSUME NEW u \in Accounts
      PROVE  /\ account[u]["balance"] \in Nat /\ draft[u]["balance"] \in Nat
             /\ overlooked[u] \in Nat
  BY DEF MergeInv, TableTypes, Rows
<1>5. ASSUME NEW u \in Accounts, Covered(u) PROVE Covered(u)'
  BY <1>1, <1>2, <1>4, <1>5 DEF Covered
<1>6. ASSUME NEW u \in Accounts PROVE LeavesNothing(u)'
  BY <1>1, <1>2, <1>4, <1>5 DEF LeftInv, LeavesNothing
<1>7. ASSUME NEW t \in Mergers, NEW u \in Accounts PROVE DropsAll(t, u)'
  <2>1. \A v \in Accounts : accountLock[v] = t =>
           account'[v] = account[v] /\ draft'[v] = draft[v]
    BY <1>1, <1>3 DEF MergeConstants, M!Handlers
  <2>2. Stays(t, u)
    BY <1>2, <1>5, <2>1 DEF Stays
  <2> QED BY <2>2, StaysDrops
<1> QED BY <1>6, <1>7 DEF LeftInv

(* A crash. *)
LEMMA MergeCrashLeaves ==
    ASSUME MergeConstants, MergeInv, LeftInv, M!Crash
    PROVE  LeftInv'
<1>1. draft' = account /\ UNCHANGED <<account, orderOwner, overlooked>>
  BY DEF M!Crash
<1>2. ASSUME NEW u \in Accounts PROVE LeavesNothing(u)'
  <2>1. account[u]["balance"] \in Nat
    BY DEF MergeInv, TableTypes, Rows
  <2> QED BY <1>1, <2>1 DEF LeftInv, LeavesNothing, Leaves, Covered
<1>3. ASSUME NEW t \in Mergers, NEW u \in Accounts PROVE DropsAll(t, u)'
  <2>1. at'[t] = "idle"
    BY DEF M!Crash, M!Handlers
  <2> QED BY <2>1, DropsNotYet
<1> QED BY <1>2, <1>3 DEF LeftInv

-----------------------------------------------------------------------------
(* A request or a callback is rolled back; a request's token comes back or is gone. *)
GivesUp(h) ==
    /\ M!Rollback(h)
    /\ IF h \in Mergers THEN job[h] \in Tokens /\ M!Restore(job[h]) ELSE UNCHANGED valid

(* These are the ways to do so. *)
LEMMA WaysToGiveUp ==
    ASSUME MergeConstants, MergeInv
    PROVE  /\ \A s \in Mergers : M!Refuse(s) \/ M!DuplicateLogin(s) \/ M!DatabaseError(s)
                                    => GivesUp(s)
           /\ \A h \in M!Handlers : M!StopsWaiting(h) => GivesUp(h)
<1>1. ASSUME NEW s \in Mergers, M!Refuse(s) \/ M!DuplicateLogin(s) \/ M!DatabaseError(s)
      PROVE  GivesUp(s)
  <2>1. M!Rollback(s) /\ M!Restore(job[s]) /\ at[s] # "idle"
    BY <1>1 DEF M!Refuse, M!DuplicateLogin, M!DatabaseError, M!MergeFails, M!Writes
  <2> QED BY <2>1 DEF GivesUp, MergeInv, MergerOK
<1>2. ASSUME NEW h \in M!Handlers, M!StopsWaiting(h) PROVE GivesUp(h)
  <2>1. CASE h \in Mergers
    <3>1. M!Rollback(h) /\ M!Restore(job[h])
      BY <1>2, <2>1 DEF M!StopsWaiting
    <3>2. at[h] # "idle"
      BY <1>2, <2>1 DEF M!StopsWaiting, M!Waits, M!Writes, M!LoginsDone, MergeConstants
    <3> QED BY <2>1, <3>1, <3>2 DEF GivesUp, MergeInv, MergerOK
  <2>2. CASE h \notin Mergers
    BY <1>2, <2>2 DEF M!StopsWaiting, M!redis, GivesUp
  <2> QED BY <2>1, <2>2
<1> QED BY <1>1, <1>2

(* Giving up keeps the invariant. *)
LEMMA GivesUpKeeps ==
    ASSUME MergeConstants, MergeInv, NEW h \in M!Handlers, GivesUp(h)
    PROVE  MergeInv'
<1>1. valid' \subseteq Tokens
  BY DEF GivesUp, M!Restore, M!redis, MergeInv, TableTypes
<1> QED BY <1>1, MergeRollbackKeeps DEF GivesUp

(* Every step of the merges keeps the invariant. *)
LEMMA MergeNext == MergeConstants /\ MergeInv /\ [M!Next]_(M!vars) => MergeInv'
<1> SUFFICES ASSUME MergeConstants, MergeInv, [M!Next]_(M!vars) PROVE MergeInv'
  OBVIOUS
<1>1. ASSUME NEW s \in Mergers, M!MergeStep(s) PROVE MergeInv'
  <2>1. CASE M!Refuse(s) \/ M!DuplicateLogin(s) \/ M!DatabaseError(s)
    BY <2>1, WaysToGiveUp, GivesUpKeeps DEF M!Handlers
  <2> QED BY <1>1, <2>1, ConsumeKeeps, ReadPrimaryKeeps, ReadSecondaryKeeps, KeepLoginKeeps,
             ClearLoginKeeps, SetLoginKeeps, WriteRowKeeps, NoMoneyKeeps, LockPrimaryKeeps,
             LockSecondaryKeeps, MoveMoneyKeeps, ReassignOrdersKeeps, MergeCommitKeeps
          DEF M!MergeStep
<1>2. CASE UNCHANGED M!vars
  BY <1>2 DEF M!vars, M!rows, M!orders, M!redis, M!ghosts, M!work, MergeInv, TableTypes,
     SessionTypes, MergerOK, WebhookOK, UnsavedOK, DraftOK, NoDraft, MoneyOK, Fresh, Moved,
     NoneToMove, M!Pri, M!Sec, M!Group
<1> QED BY <1>1, <1>2, LockOrderKeeps, CreditKeeps, SpendKeeps, MergeCrashKeeps, WaysToGiveUp,
           GivesUpKeeps DEF M!Next

(* And leaves nothing behind. *)
LEMMA LeftNext ==
    MergeConstants /\ MergeInv /\ LeftInv /\ [M!Next]_(M!vars) => LeftInv'
<1> SUFFICES ASSUME MergeConstants, MergeInv, LeftInv, [M!Next]_(M!vars) PROVE LeftInv'
  OBVIOUS
<1>1. ASSUME NEW h \in M!Handlers, GivesUp(h) PROVE LeftInv'
  BY <1>1, MergeRollbackLeaves DEF GivesUp
<1>2. ASSUME NEW s \in Mergers, M!MergeStep(s) PROVE LeftInv'
  <2>1. CASE M!Refuse(s) \/ M!DuplicateLogin(s) \/ M!DatabaseError(s)
    BY <1>1, <2>1, WaysToGiveUp DEF M!Handlers
  <2> QED BY <1>2, <2>1, ConsumeLeaves, ReadPrimaryLeaves, ReadSecondaryLeaves,
             KeepLoginLeaves, ClearLoginLeaves, SetLoginLeaves, WriteRowLeaves, NoMoneyLeaves,
             LockPrimaryLeaves, LockSecondaryLeaves, MoveMoneyLeaves, ReassignOrdersLeaves,
             MergeCommitLeaves
          DEF M!MergeStep
<1>3. CASE UNCHANGED M!vars
  BY <1>3 DEF M!vars, M!rows, M!orders, M!redis, M!ghosts, M!work, LeftInv, LeavesNothing,
     Leaves, Covered, DropsAll, Drops, Moved, M!Pri, M!Sec
<1> QED BY <1>1, <1>2, <1>3, LockOrderLeaves, CreditLeaves, SpendLeaves, MergeCrashLeaves,
           WaysToGiveUp DEF M!Next

(* A step that leaves the tokens alone, and what the requests work on. *)
LEMMA TokensLeftAlone ==
    ASSUME TokensOK, UNCHANGED <<valid, merges>>, \A s \in Mergers : job'[s] = job[s]
    PROVE  TokensOK'
BY DEF TokensOK

(* A token is taken. *)
LEMMA ConsumeTokens ==
    ASSUME MergeConstants, MergeInv, TokensOK, NEW s \in Mergers, NEW k \in Tokens,
           M!Consume(s, k)
    PROVE  TokensOK'
BY DEF MergeInv, SessionTypes, M!Handlers, M!Consume, M!ghosts, TokensOK

(* A merge is committed. *)
LEMMA CommitTokens ==
    ASSUME MergeConstants, MergeInv, TokensOK, NEW s \in Mergers, M!Commit(s)
    PROVE  TokensOK'
<1>1. /\ job'[s] = None /\ \A t \in Mergers \ {s} : job'[t] = job[t]
      /\ job[s] \in Tokens /\ valid' = valid /\ None \notin Tokens
  BY DEF MergeConstants, MergeInv, SessionTypes, MergerOK, M!Handlers, M!Commit, M!End, M!redis
<1>2. merges'[job[s]] = merges[job[s]] + 1 /\ \A k \in Tokens \ {job[s]} : merges'[k] = merges[k]
  BY <1>1 DEF MergeInv, TableTypes, M!Commit
<1> QED BY <1>1, <1>2 DEF TokensOK

(* A token comes back, or not. *)
LEMMA GivesUpTokens ==
    ASSUME MergeConstants, MergeInv, TokensOK, NEW h \in M!Handlers, GivesUp(h)
    PROVE  TokensOK'
<1>1. /\ job'[h] = None /\ \A k \in M!Handlers \ {h} : job'[k] = job[k]
      /\ merges' = merges /\ None \notin Tokens
  BY DEF MergeConstants, MergeInv, SessionTypes, GivesUp, M!Rollback, M!End
<1>2. CASE h \in Mergers
  <2>1. valid' = valid \/ valid' = valid \cup {job[h]}
    BY <1>2 DEF GivesUp, M!Restore, M!redis
  <2> QED BY <1>1, <1>2, <2>1 DEF TokensOK, GivesUp, M!Handlers
<1>3. CASE h \notin Mergers
  BY <1>1, <1>3, TokensLeftAlone DEF GivesUp, M!Handlers
<1> QED BY <1>2, <1>3

(* Every step keeps the tokens in order. *)
LEMMA TokensNext ==
    MergeConstants /\ MergeInv /\ TokensOK /\ [M!Next]_(M!vars) => TokensOK'
<1> SUFFICES ASSUME MergeConstants, MergeInv, TokensOK, [M!Next]_(M!vars) PROVE TokensOK'
  OBVIOUS
<1>1. ASSUME NEW s \in Mergers, M!MergeStep(s) PROVE TokensOK'
  <2>1. CASE M!Refuse(s) \/ M!DuplicateLogin(s) \/ M!DatabaseError(s)
    BY <2>1, WaysToGiveUp, GivesUpTokens DEF M!Handlers
  <2>2. CASE \/ M!ReadPrimary(s) \/ M!ReadSecondary(s) \/ M!KeepLogin(s) \/ M!ClearLogin(s)
             \/ M!SetLogin(s) \/ M!NoMoney(s) \/ M!LockPrimary(s) \/ M!LockSecondary(s)
             \/ M!MoveMoney(s) \/ M!ReassignOrders(s) \/ \E u \in Accounts : M!WriteRow(s, u)
    <3>1. UNCHANGED <<valid, merges, job>>
      BY <2>2 DEF M!ReadPrimary, M!ReadSecondary, M!KeepLogin, M!ClearLogin, M!SetLogin,
         M!NoMoney, M!LockPrimary, M!LockSecondary, M!MoveMoney, M!ReassignOrders, M!WriteRow,
         M!redis, M!ghosts
    <3> QED BY <3>1, TokensLeftAlone
  <2> QED BY <1>1, <2>1, <2>2, ConsumeTokens, CommitTokens DEF M!MergeStep
<1>2. ASSUME NEW w \in Webhooks, M!Credit(w) \/ \E o \in Orders : M!LockOrder(w, o)
      PROVE  TokensOK'
  <2>1. UNCHANGED <<valid, merges>> /\ \A s \in Mergers : job'[s] = job[s]
    BY <1>2 DEF MergeConstants, MergeInv, SessionTypes, M!Handlers, M!Credit, M!LockOrder,
       M!redis, M!ghosts
  <2> QED BY <2>1, TokensLeftAlone
<1>3. CASE M!Crash
  <2>1. UNCHANGED <<valid, merges>> /\ \A s \in Mergers : job'[s] = None
    BY <1>3 DEF M!Crash, M!redis, M!Handlers
  <2> QED BY <2>1 DEF TokensOK, MergeConstants
<1>4. CASE UNCHANGED M!vars \/ \E u \in Accounts : M!Spend(u)
  <2>1. UNCHANGED <<valid, merges, job>>
    BY <1>4 DEF M!vars, M!redis, M!ghosts, M!work, M!Spend
  <2> QED BY <2>1, TokensLeftAlone
<1> QED BY <1>1, <1>2, <1>3, <1>4, WaysToGiveUp, GivesUpTokens DEF M!Next

-----------------------------------------------------------------------------
(* There are finitely many accounts. *)
MoneyConstants == MergeConstants /\ IsFiniteSet(Accounts)

(* What can be summed up. *)
LEMMA MoneyTypes ==
    ASSUME MergeInv
    PROVE  /\ \A u \in Accounts : Balances[u] = account[u]["balance"]
           /\ \A u \in Accounts : Balances[u] \in Nat /\ used[u] \in Nat
BY DEF MergeInv, TableTypes, Rows, Balances

(* A step that leaves the money of every account alone. *)
LEMMA MoneyLeftAlone ==
    ASSUME MoneyConstants, MergeInv, SumsAgree, UNCHANGED <<used, credited>>,
           \A u \in Accounts : account'[u]["balance"] = account[u]["balance"]
    PROVE  SumsAgree'
<1>1. Balances' = Balances
  BY DEF Balances
<1> QED BY <1>1 DEF SumsAgree

(* The balances after a step, as a function of their own. *)
LEMMA NewBalances ==
    ASSUME MergeConstants, MergeInv'
    PROVE  \A u \in Accounts : Balances'[u] = account'[u]["balance"] /\ Balances'[u] \in Nat
BY DEF MergeInv, TableTypes, Rows, Balances

(* The money of two accounts together is moved to one of them. *)
LEMMA SumMoved ==
    ASSUME NEW S, IsFiniteSet(S), NEW f, NEW g, NEW p \in S, NEW z \in S, p # z,
           \A x \in S : f[x] \in Int /\ g[x] \in Int,
           g[p] = f[p] + f[z], g[z] = 0, \A x \in S \ {p, z} : g[x] = f[x]
    PROVE  SumOf(g, S) = SumOf(f, S)
<1> DEFINE h == [x \in S |-> IF x = p THEN f[p] + f[z] ELSE f[x]]
<1>1. /\ h[p] = f[p] + f[z] /\ h[z] = f[z] /\ \A x \in S : h[x] \in Int
      /\ \A x \in S \ {p} : h[x] = f[x]
      /\ \A x \in S \ {z} : g[x] = h[x]
  OBVIOUS
<1> HIDE DEF h
<1>2. SumOf(h, S) = SumOf(f, S) + h[p] - f[p]
  BY <1>1, SumUpdate
<1>3. SumOf(g, S) = SumOf(h, S) + g[z] - h[z]
  BY <1>1, SumUpdate
<1>4. SumOf(f, S) \in Int /\ SumOf(h, S) \in Int
  BY <1>1, SumType
<1> QED BY <1>1, <1>2, <1>3, <1>4

(* The commit of a merge makes and loses no money. *)
LEMMA CommitKeepsMoney ==
    ASSUME MoneyConstants, MergeInv, SumsAgree, NEW s \in Mergers, M!Commit(s)
    PROVE  SumsAgree'
<1> DEFINE f == Balances
<1>1. MergeInv'
  BY MergeCommitKeeps DEF MoneyConstants
<1>2. /\ at[s] = "saving" /\ unsaved[s] = M!Clean
      /\ account' = [u \in Accounts |-> M!View(s, u)] /\ UNCHANGED <<used, credited>>
  BY DEF M!Commit
<1>3. CASE NoneToMove(s)
  <2>1. \A u \in Accounts : account'[u]["balance"] = account[u]["balance"]
    BY <1>2, <1>3 DEF NoneToMove, M!View, M!Mine
  <2> QED BY <1>2, <2>1, MoneyLeftAlone
<1>4. CASE Moved(s)
  <2> DEFINE p == M!Pri(s)
             z == M!Sec(s)
  <2>1. p \in Accounts /\ z \in Accounts /\ p # z
    BY <1>2, AccountsOf DEF MoneyConstants
  <2>2. \A u \in Accounts :
           account'[u]["balance"] = IF accountLock[u] = s THEN draft[u]["balance"]
                                    ELSE account[u]["balance"]
    BY <1>2 DEF M!View, M!Mine
  <2>3. /\ account'[p]["balance"] = account[p]["balance"] + account[z]["balance"]
        /\ account'[z]["balance"] = 0
    BY <1>2, <1>4, <2>1, <2>2 DEF Moved, M!Clean
  <2>4. \A u \in Accounts \ {p, z} : account'[u]["balance"] = account[u]["balance"]
    BY <2>2 DEF MergeInv, DraftOK
  <2>5. PICK g : g = Balances'
    OBVIOUS
  <2>6. /\ \A u \in Accounts : f[u] \in Int /\ g[u] \in Int
        /\ g[p] = f[p] + f[z] /\ g[z] = 0 /\ \A u \in Accounts \ {p, z} : g[u] = f[u]
    BY <1>1, <2>1, <2>3, <2>4, <2>5, MoneyTypes, NewBalances DEF MoneyConstants
  <2>7. SumOf(g, Accounts) = SumOf(f, Accounts)
    <3> HIDE DEF f, p, z
    <3> QED BY <2>1, <2>6, SumMoved DEF MoneyConstants
  <2> QED BY <1>2, <2>5, <2>7 DEF SumsAgree
<1>5. Moved(s) \/ NoneToMove(s)
  BY <1>2 DEF MergeInv, MoneyOK, Late
<1> QED BY <1>3, <1>4, <1>5

(* A credit adds one to what is held and to what was paid. *)
LEMMA CreditKeepsMoney ==
    ASSUME MoneyConstants, MergeInv, SumsAgree, NEW w \in Webhooks, M!Credit(w)
    PROVE  SumsAgree'
<1> DEFINE u == orderOwner[job[w]]
           f == Balances
<1>1. MergeInv'
  BY CreditKeeps DEF MoneyConstants
<1>2. job[w] \in Orders \ credited /\ u \in Accounts
  BY DEF MergeInv, TableTypes, WebhookOK, M!Credit
<1>3. /\ account' = [account EXCEPT ![u]["balance"] = @ + 1]
      /\ credited' = credited \cup {job[w]} /\ used' = used
  BY DEF M!Credit
<1>4. /\ account'[u]["balance"] = account[u]["balance"] + 1
      /\ \A v \in Accounts \ {u} : account'[v] = account[v]
  BY <1>2, <1>3 DEF MergeInv, TableTypes, Rows, M!Columns
<1>5. PICK g : g = Balances'
  OBVIOUS
<1>6. /\ \A v \in Accounts : f[v] \in Int /\ g[v] \in Int
      /\ g[u] = f[u] + 1 /\ \A v \in Accounts \ {u} : g[v] = f[v]
  BY <1>1, <1>2, <1>4, <1>5, MoneyTypes, NewBalances DEF MoneyConstants
<1>7. SumOf(g, Accounts) = SumOf(f, Accounts) + 1
  <2> HIDE DEF f, u
  <2>1. SumOf(g, Accounts) = SumOf(f, Accounts) + g[u] - f[u]
    BY <1>2, <1>6, SumUpdate DEF MoneyConstants
  <2>2. SumOf(f, Accounts) \in Int
    BY <1>6, SumType DEF MoneyConstants
  <2> QED BY <1>2, <1>6, <2>1, <2>2
<1>8. IsFiniteSet(credited') /\ Cardinality(credited') = Cardinality(credited) + 1
  BY <1>2, <1>3, FS_AddElement DEF SumsAgree
<1>9. SumOf(f, Accounts) \in Int /\ SumOf(used, Accounts) \in Int
  BY <1>6, MoneyTypes, SumType DEF MoneyConstants
<1> QED BY <1>3, <1>5, <1>7, <1>8, <1>9 DEF SumsAgree

(* A purchase moves one from what is held to what was spent. *)
LEMMA SpendKeepsMoney ==
    ASSUME MoneyConstants, MergeInv, SumsAgree, NEW u \in Accounts, M!Spend(u)
    PROVE  SumsAgree'
<1> DEFINE f == Balances
<1>1. MergeInv'
  BY SpendKeeps DEF MoneyConstants
<1>2. /\ account' = [account EXCEPT ![u]["balance"] = @ - 1]
      /\ used' = [used EXCEPT ![u] = @ + 1] /\ credited' = credited
  BY DEF M!Spend, M!orders
<1>3. /\ account'[u]["balance"] = account[u]["balance"] - 1
      /\ \A v \in Accounts \ {u} : account'[v] = account[v]
  BY <1>2 DEF MergeInv, TableTypes, Rows, M!Columns
<1>4. used'[u] = used[u] + 1 /\ \A v \in Accounts \ {u} : used'[v] = used[v]
  BY <1>2 DEF MergeInv, TableTypes
<1>5. PICK g : g = Balances'
  OBVIOUS
<1>6. PICK h : h = used'
  OBVIOUS
<1>7. /\ \A v \in Accounts : f[v] \in Int /\ g[v] \in Int
      /\ g[u] = f[u] - 1 /\ \A v \in Accounts \ {u} : g[v] = f[v]
  BY <1>1, <1>3, <1>5, MoneyTypes, NewBalances DEF MoneyConstants
<1>8. /\ \A v \in Accounts : used[v] \in Int /\ h[v] \in Int
      /\ h[u] = used[u] + 1 /\ \A v \in Accounts \ {u} : h[v] = used[v]
  BY <1>4, <1>6, MoneyTypes
<1>9. SumOf(g, Accounts) = SumOf(f, Accounts) - 1
  <2> HIDE DEF f
  <2>1. SumOf(g, Accounts) = SumOf(f, Accounts) + g[u] - f[u]
    BY <1>7, SumUpdate DEF MoneyConstants
  <2>2. SumOf(f, Accounts) \in Int
    BY <1>7, SumType DEF MoneyConstants
  <2> QED BY <1>7, <2>1, <2>2
<1>10. SumOf(h, Accounts) = SumOf(used, Accounts) + 1
  <2>1. SumOf(h, Accounts) = SumOf(used, Accounts) + h[u] - used[u]
    BY <1>8, SumUpdate DEF MoneyConstants
  <2>2. SumOf(used, Accounts) \in Int
    BY <1>8, SumType DEF MoneyConstants
  <2> QED BY <1>8, <2>1, <2>2
<1>11. SumOf(f, Accounts) \in Int /\ SumOf(used, Accounts) \in Int
  BY <1>7, <1>8, SumType DEF MoneyConstants
<1> QED BY <1>2, <1>5, <1>6, <1>9, <1>10, <1>11 DEF SumsAgree

(* Every step keeps the sums. *)
LEMMA SumsNext ==
    MoneyConstants /\ MergeInv /\ SumsAgree /\ [M!Next]_(M!vars) => SumsAgree'
<1> SUFFICES ASSUME MoneyConstants, MergeInv, SumsAgree, [M!Next]_(M!vars) PROVE SumsAgree'
  OBVIOUS
<1>1. ASSUME UNCHANGED <<account, used, credited>> PROVE SumsAgree'
  BY <1>1, MoneyLeftAlone
<1>2. ASSUME NEW h \in M!Handlers, GivesUp(h) PROVE UNCHANGED <<account, used, credited>>
  BY <1>2 DEF GivesUp, M!Rollback
<1>3. ASSUME NEW s \in Mergers, M!MergeStep(s) PROVE SumsAgree'
  <2>1. CASE M!Refuse(s) \/ M!DuplicateLogin(s) \/ M!DatabaseError(s)
    BY <1>1, <1>2, <2>1, WaysToGiveUp DEF M!Handlers, MoneyConstants
  <2>2. CASE M!Commit(s)
    BY <2>2, CommitKeepsMoney
  <2>3. CASE \/ M!ReadPrimary(s) \/ M!ReadSecondary(s) \/ M!KeepLogin(s) \/ M!ClearLogin(s)
             \/ M!SetLogin(s) \/ M!NoMoney(s) \/ M!LockPrimary(s) \/ M!LockSecondary(s)
             \/ M!MoveMoney(s) \/ M!ReassignOrders(s) \/ (\E u \in Accounts : M!WriteRow(s, u))
             \/ (\E t \in Tokens : M!Consume(s, t))
    <3>1. UNCHANGED <<account, used, credited>>
      BY <2>3 DEF M!ReadPrimary, M!ReadSecondary, M!KeepLogin, M!ClearLogin, M!Consume,
         M!SetLogin, M!NoMoney, M!LockPrimary, M!LockSecondary, M!MoveMoney, M!ReassignOrders,
         M!WriteRow, M!rows, M!orders, M!ghosts
    <3> QED BY <1>1, <3>1
  <2> QED BY <1>3, <2>1, <2>2, <2>3 DEF M!MergeStep
<1>4. ASSUME NEW w \in Webhooks, NEW o \in Orders, M!LockOrder(w, o)
      PROVE  UNCHANGED <<account, used, credited>>
  BY <1>4 DEF M!LockOrder, M!rows, M!ghosts
<1>5. M!Crash \/ UNCHANGED M!vars => UNCHANGED <<account, used, credited>>
  BY DEF M!Crash, M!vars, M!rows, M!orders, M!ghosts
<1> QED BY <1>1, <1>2, <1>3, <1>4, <1>5, WaysToGiveUp, CreditKeepsMoney, SpendKeepsMoney
        DEF M!Next, MoneyConstants

-----------------------------------------------------------------------------
(* At the start there is nothing to merge yet. *)
LEMMA MergeStart == MergeConstants /\ M!Init => MergeInv /\ TokensOK /\ LeftInv
<1> SUFFICES ASSUME MergeConstants, M!Init PROVE MergeInv /\ TokensOK /\ LeftInv
  OBVIOUS
<1>1. /\ account \in [Accounts -> Rows] /\ draft = account
      /\ \A u \in Accounts : account[u]["balance"] = 0 /\ account[u]["deleted"] = FALSE
  <2>1. account = [u \in Accounts |-> M!NewAccount(u)] /\ draft = account
    BY DEF M!Init
  <2>2. \A u \in Accounts : M!NewAccount(u)["balance"] = 0
                           /\ M!NewAccount(u)["deleted"] = FALSE
    BY DEF M!NewAccount, M!Columns
  <2> QED BY <2>1, <2>2, NewRow
<1>2. TableTypes
  BY <1>1 DEF M!Init, TableTypes, MergeConstants
<1>3. M!Unread \in [Accounts -> Rows]
  BY NewRow DEF M!Unread
<1>4. SessionTypes
  BY <1>3 DEF M!Init, SessionTypes, MergePlaces, M!Clean, Cells
<1>5. /\ \A s \in Mergers : /\ at[s] = "idle" /\ job[s] = None
                           /\ \A u \in Accounts : unsaved[s][u] = {}
      /\ \A w \in Webhooks : at[w] = "idle"
      /\ \A u \in Accounts : accountLock[u] = None
      /\ None \notin Mergers /\ None \notin Tokens
      /\ valid = Tokens /\ \A t \in Tokens : merges[t] = 0
  BY DEF M!Init, M!Handlers, M!Clean, MergeConstants
<1>6. \A s \in Mergers : MergerOK(s) /\ MoneyOK(s)
  BY <1>5 DEF MergerOK, MoneyOK, Late
<1>7. \A w \in Webhooks : WebhookOK(w)
  BY <1>5 DEF WebhookOK
<1>8. \A s \in Mergers, u \in Accounts : UnsavedOK(s, u) /\ DraftOK(s, u)
  BY <1>5 DEF UnsavedOK, DraftOK
<1>9. \A u \in Accounts : NoDraft(u)
  BY <1>1 DEF NoDraft
<1>10. TokensOK
  BY <1>5 DEF TokensOK
<1>11. LeftInv
  BY <1>1, <1>5 DEF LeftInv, LeavesNothing, DropsAll, Drops
<1> QED BY <1>2, <1>4, <1>6, <1>7, <1>8, <1>9, <1>10, <1>11 DEF MergeInv

(* And no money. *)
LEMMA MoneyStart == MoneyConstants /\ M!Init => SumsAgree
<1> SUFFICES ASSUME MoneyConstants, M!Init PROVE SumsAgree
  OBVIOUS
<1>1. \A u \in Accounts : Balances[u] = 0
  BY DEF M!Init, Balances, M!NewAccount, M!Columns
<1>2. \A u \in Accounts : used[u] = 0
  BY DEF M!Init
<1>3. SumOf(Balances, Accounts) = 0 /\ SumOf(used, Accounts) = 0
  BY <1>1, <1>2, SumZero DEF MoneyConstants
<1>4. credited = {} /\ IsFiniteSet({}) /\ Cardinality({}) = 0
  BY FS_EmptySet DEF M!Init
<1> QED BY <1>3, <1>4 DEF SumsAgree

(* What the composition does to the accounts is allowed by AccountMerge. *)
LEMMA MergesMove == AllSpec => M!Spec
<1>1. AllInit => M!Init
  BY DEF AllInit
<1>2. [AllNext]_<<part, vars, payoutVars, visitVars, codeVars, mergeVars>>
         => [M!Next]_(M!vars)
  BY DEF AllNext, mergeVars, M!vars, M!rows, M!orders, M!redis, M!ghosts, M!work
<1> QED BY <1>1, <1>2, PTL DEF AllSpec, M!Spec

(* A set of which any two elements are equal has one at most. *)
LEMMA OneAtMost ==
    ASSUME NEW S, \A x, y \in S : x = y
    PROVE  IsFiniteSet(S) /\ Cardinality(S) <= 1
<1>1. CASE S = {}
  BY <1>1, FS_EmptySet
<1>2. CASE S # {}
  <2>1. PICK x : x \in S
    BY <1>2
  <2>2. S = {x}
    BY <2>1
  <2>3. IsFiniteSet({x}) /\ Cardinality({x}) = 1
    BY FS_Singleton
  <2> QED BY <2>2, <2>3
<1> QED BY <1>1, <1>2

(* The invariant in the words of the properties. *)
LEMMA MergedOnceHolds == MergeInv /\ TokensOK => MergedOnce
<1> SUFFICES ASSUME MergeInv, TokensOK, NEW t \in Tokens
             PROVE  M!Cardinality({s \in Mergers : job[s] = t})
                       + (IF t \in valid THEN 1 ELSE 0) + merges[t] <= 1
  BY DEF MergedOnce, M!MergedOnce
<1> DEFINE S == {s \in Mergers : job[s] = t}
<1>1. M!Cardinality(S) = Cardinality(S)
  BY DEF M!Cardinality, Cardinality
<1>2. IsFiniteSet(S) /\ Cardinality(S) <= 1
  BY OneAtMost DEF TokensOK
<1>3. Cardinality(S) \in Nat
  BY <1>2, FS_CardinalityType
<1>4. merges[t] \in Nat
  BY DEF MergeInv, TableTypes
<1>5. CASE S = {}
  <2>1. Cardinality(S) = 0
    BY <1>5, FS_EmptySet
  <2>2. merges[t] <= 1 /\ (t \in valid => merges[t] = 0)
    BY DEF TokensOK
  <2> QED BY <1>1, <1>4, <2>1, <2>2
<1>6. CASE S # {}
  <2>1. t \notin valid /\ merges[t] = 0
    BY <1>6 DEF TokensOK
  <2> QED BY <1>1, <1>2, <1>3, <2>1
<1> QED BY <1>5, <1>6

(* The last strengthening says what the property does. *)
LEMMA NothingLeftHolds == MergeInv /\ LeftInv => NothingLeftBehind
BY DEF NothingLeftBehind, M!NothingLeftBehind, M!OrdersOf, LeftInv, LeavesNothing, Leaves, Covered

(* The sums of the community modules, of which the property speaks. *)
LEMMA TotalIsSum == ASSUME NEW f PROVE M!Total(f) = SumOf(f, Accounts)
BY DEF M!Total, M!MapThenSumSet, M!MapThenFoldSet, SumOf, MapThenSumSet, MapThenFoldSet

(* Two equal sums, as the property states them. *)
LEMMA MoneyKept == SumsAgree => MergeKeepsMoney
<1> SUFFICES ASSUME SumsAgree PROVE MergeKeepsMoney
  OBVIOUS
<1>1. M!Total(Balances) = SumOf(Balances, Accounts) /\ M!Total(used) = SumOf(used, Accounts)
  BY TotalIsSum
<1>2. M!Cardinality(credited) = Cardinality(credited)
  BY DEF M!Cardinality, Cardinality
<1> QED BY <1>1, <1>2 DEF SumsAgree, MergeKeepsMoney, M!MergeKeepsMoney, Balances

(* A token merges once at most, although a failed merge puts it back and a crash may come
   at any time: it is valid, or one request has it, or it has merged. *)
THEOREM MergedOnceAlways == ASSUME MergeConstants PROVE AllSpec => []MergedOnce
<1>1. M!Init => MergeInv /\ TokensOK
  BY MergeStart
<1>2. MergeInv /\ TokensOK /\ [M!Next]_(M!vars) => (MergeInv /\ TokensOK)'
  BY MergeNext, TokensNext
<1> QED BY <1>1, <1>2, MergedOnceHolds, MergesMove, PTL DEF M!Spec

(* An account that was merged away, and that no token makes the one that stays, has no
   orders left, also none whose callback was at work during the merge, and no money but
   the credits that came when the merge had read that there was none. *)
THEOREM NothingLeftBehindAlways == ASSUME MergeConstants PROVE AllSpec => []NothingLeftBehind
<1>1. M!Init => MergeInv /\ LeftInv
  BY MergeStart
<1>2. MergeInv /\ LeftInv /\ [M!Next]_(M!vars) => (MergeInv /\ LeftInv)'
  BY MergeNext, LeftNext
<1> QED BY <1>1, <1>2, NothingLeftHolds, MergesMove, PTL DEF M!Spec

(* However merges of the same account, payments, purchases and aborted transactions
   cross, what all accounts hold and have spent is what was paid. *)
THEOREM MergeKeepsMoneyAlways == ASSUME MoneyConstants PROVE AllSpec => []MergeKeepsMoney
<1>1. M!Init => MergeInv /\ SumsAgree
  BY MergeStart, MoneyStart DEF MoneyConstants
<1>2. MergeInv /\ SumsAgree /\ [M!Next]_(M!vars) => (MergeInv /\ SumsAgree)'
  BY MergeNext, SumsNext DEF MoneyConstants
<1> QED BY <1>1, <1>2, MoneyKept, MergesMove, PTL DEF M!Spec
=============================================================================
