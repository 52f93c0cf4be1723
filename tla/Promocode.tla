------------------------------ MODULE Promocode ------------------------------
(***************************************************************************)
(* Promo codes: PromoCodeService.activate_promocode and                    *)
(* deactivate_discount_promocode.  A code pays a bonus (money or days) or  *)
(* grants a discount, and may add the user to a promo group.  A row in     *)
(* promocode_uses, unique for user and code, is inserted before the effect *)
(* and counted in the code's current_uses at the end.                      *)
(*                                                                         *)
(* A request is one handler with its own session: it reads without locks,  *)
(* inserts its row in an open transaction, and several requests run at     *)
(* once.  An open insert keeps other inserts of the same key waiting, an   *)
(* open update of a user's row other updates of it.                        *)
(***************************************************************************)
EXTENDS Integers, FiniteSets

CONSTANTS
    Users,
    BonusCodes,     \* BALANCE and SUBSCRIPTION_DAYS
    DiscountCodes,  \* DISCOUNT
    GroupCodes,     \* codes with a promo_group_id, all of one group
    Insiders,       \* users that are in the group anyway
    Requests,       \* handlers that run at the same time
    MaxUses,        \* max_uses of every code
    MaxRows,        \* bound on the rows ever inserted
    MaxFaults,      \* bound on errors and crashes
    NoUser, NoCode

Codes == BonusCodes \cup DiscountCodes

VARIABLES
    use,        \* <<user, code>> -> id of the committed row in promocode_uses, or 0
    rows,       \* rows ever inserted
    count,      \* code -> current_uses
    bonus,      \* <<user, code>> -> how often the bonus was committed
    discount,   \* user -> the code of promo_offer_discount_source, or NoCode
    members,    \* users in the promo group
    request,    \* request -> its locals
    uncounted,  \* code -> committed uses whose request failed before counting
    faults

vars == <<use, rows, count, bonus, discount, members, request, uncounted, faults>>

Idle == [pc |-> "idle", user |-> NoUser, code |-> NoCode,
         row |-> 0, count |-> 0, discount |-> NoCode]

Init ==
    /\ use = [k \in Users \X Codes |-> 0]
    /\ rows = 0
    /\ count = [c \in Codes |-> 0]
    /\ bonus = [k \in Users \X Codes |-> 0]
    /\ discount = [u \in Users |-> NoCode]
    /\ members = Insiders
    /\ request = [r \in Requests |-> Idle]
    /\ uncounted = [c \in Codes |-> 0]
    /\ faults = 0
-----------------------------------------------------------------------------
User(r) == request[r].user
Code(r) == request[r].code
Key(r) == <<User(r), Code(r)>>
At(r, label) == request[r].pc = label

End(r) == request' = [request EXCEPT ![r] = Idle]
Goto(r, label) == request' = [request EXCEPT ![r].pc = label]

(* Nobody else has an uncommitted row with the key of this request. *)
KeyFree(r) == \A o \in Requests \ {r} :
    Key(o) = Key(r) => ~ At(o, "reserved") /\ ~ At(o, "flushed")

(* Nobody else has an uncommitted change of this user's row. *)
UserFree(u, r) == \A o \in Requests \ {r} : User(o) = u => ~ At(o, "flushed")

Fail == faults < MaxFaults /\ faults' = faults + 1

-----------------------------------------------------------------------------
(***************************************************************************)
(* activate_promocode.                                                     *)
(***************************************************************************)

(* Mutant: the last use is given away twice. *)
ActivateOneMore(r, u, c) ==
    /\ At(r, "idle")
    /\ count[c] <= MaxUses
    /\ use[<<u, c>>] = 0
    /\ request' = [request EXCEPT ![r] =
           [pc |-> "checked", user |-> u, code |-> c, row |-> 0,
            count |-> count[c], discount |-> discount[u]]]
    /\ UNCHANGED <<use, rows, count, bonus, discount, members, uncounted, faults>>

(* The checks: is_valid and no use yet.  User and code stay in the session as they
   were read. *)
Activate(r, u, c) ==
    /\ At(r, "idle")
    /\ count[c] < MaxUses
    /\ use[<<u, c>>] = 0
    /\ request' = [request EXCEPT ![r] =
           [pc |-> "checked", user |-> u, code |-> c, row |-> 0,
            count |-> count[c], discount |-> discount[u]]]
    /\ UNCHANGED <<use, rows, count, bonus, discount, members, uncounted, faults>>

(* Mutant: without the unique constraint only the earlier check counts. *)
ReserveUnchecked(r) ==
    /\ At(r, "checked")
    /\ rows < MaxRows
    /\ rows' = rows + 1
    /\ request' = [request EXCEPT ![r].pc = "reserved", ![r].row = rows + 1]
    /\ UNCHANGED <<use, count, bonus, discount, members, uncounted, faults>>

(* create_promocode_use: the row is inserted in a savepoint; a duplicate key ends
   the request. *)
Reserve(r) ==
    /\ At(r, "checked")
    /\ KeyFree(r)
    /\ IF use[Key(r)] > 0
          THEN End(r) /\ UNCHANGED rows
          ELSE /\ rows < MaxRows
               /\ rows' = rows + 1
               /\ request' = [request EXCEPT ![r].pc = "reserved", ![r].row = rows + 1]
    /\ UNCHANGED <<use, count, bonus, discount, members, uncounted, faults>>

(* The balance or the subscription is changed, and the commit in its helper takes
   the row of the use with it. *)
PayBonus(r) ==
    /\ At(r, "reserved")
    /\ Code(r) \in BonusCodes
    /\ UserFree(User(r), r)
    /\ use' = [use EXCEPT ![Key(r)] = request[r].row]
    /\ bonus' = [bonus EXCEPT ![Key(r)] = @ + 1]
    /\ Goto(r, "paid")
    /\ UNCHANGED <<rows, count, discount, members, uncounted, faults>>

(* A discount that the session has seen refuses another one: the row is deleted. *)
RefuseDiscount(r) ==
    /\ At(r, "reserved")
    /\ Code(r) \in DiscountCodes
    /\ request[r].discount # NoCode
    /\ End(r)
    /\ UNCHANGED <<use, rows, count, bonus, discount, members, uncounted, faults>>

(* Otherwise it is written to the user, but not committed. *)
FlushDiscount(r) ==
    /\ At(r, "reserved")
    /\ Code(r) \in DiscountCodes
    /\ request[r].discount = NoCode
    /\ UserFree(User(r), r)
    /\ Goto(r, "flushed")
    /\ UNCHANGED <<use, rows, count, bonus, discount, members, uncounted, faults>>

Joined(r) == IF Code(r) \in GroupCodes THEN members \cup {User(r)} ELSE members

(* Mutant: the counter is computed from the copy that was read for the checks. *)
CompleteFromCopy(r) ==
    /\ \/ At(r, "paid") /\ UNCHANGED <<use, discount>>
       \/ /\ At(r, "flushed")
          /\ use' = [use EXCEPT ![Key(r)] = request[r].row]
          /\ discount' = [discount EXCEPT ![User(r)] = Code(r)]
    /\ members' = Joined(r)
    /\ count' = [count EXCEPT ![Code(r)] = request[r].count + 1]
    /\ End(r)
    /\ UNCHANGED <<rows, bonus, uncounted, faults>>

(* The promo group is assigned, the database increments current_uses, and the
   commit writes what is still open. *)
Complete(r) ==
    /\ \/ At(r, "paid") /\ UNCHANGED <<use, discount>>
       \/ /\ At(r, "flushed")
          /\ use' = [use EXCEPT ![Key(r)] = request[r].row]
          /\ discount' = [discount EXCEPT ![User(r)] = Code(r)]
    /\ members' = Joined(r)
    /\ count' = [count EXCEPT ![Code(r)] = @ + 1]
    /\ End(r)
    /\ UNCHANGED <<rows, bonus, uncounted, faults>>

(* An error or a crash: the transaction is rolled back, the bonus stays. *)
ActivationFails(r) ==
    /\ Fail
    /\ \/ (At(r, "reserved") \/ At(r, "flushed")) /\ UNCHANGED uncounted
       \/ At(r, "paid") /\ uncounted' = [uncounted EXCEPT ![Code(r)] = @ + 1]
    /\ End(r)
    /\ UNCHANGED <<use, rows, count, bonus, discount, members>>

-----------------------------------------------------------------------------
(***************************************************************************)
(* deactivate_discount_promocode, by the user or by an administrator, and  *)
(* the purchase that uses a discount up.                                   *)
(***************************************************************************)
Deactivate(r, u) ==
    /\ At(r, "idle")
    /\ discount[u] # NoCode
    /\ LET c == discount[u] IN
       request' = [request EXCEPT ![r] =
           [pc |-> "deactivating", user |-> u, code |-> c, row |-> use[<<u, c>>],
            count |-> count[c], discount |-> c]]
    /\ UNCHANGED <<use, rows, count, bonus, discount, members, uncounted, faults>>

(* Mutant: the user stays in the group. *)
WithdrawDiscountOnly(r) ==
    /\ At(r, "deactivating")
    /\ UserFree(User(r), r)
    /\ discount' = [discount EXCEPT ![User(r)] = NoCode]
    /\ IF request[r].row > 0
          THEN /\ use' = [use EXCEPT ![Key(r)] = IF @ = request[r].row THEN 0 ELSE @]
               /\ count' = [count EXCEPT ![Code(r)] =
                               IF request[r].count > 0 THEN request[r].count - 1 ELSE @]
          ELSE UNCHANGED <<use, count>>
    /\ End(r)
    /\ UNCHANGED <<rows, bonus, members, uncounted, faults>>

(* One commit resets whatever discount the user has by now, deletes the row that
   was read, writes the counter that was read less one, and takes the user out of
   the group, whoever put him there. *)
Withdraw(r) ==
    /\ At(r, "deactivating")
    /\ UserFree(User(r), r)
    /\ discount' = [discount EXCEPT ![User(r)] = NoCode]
    /\ IF request[r].row > 0
          THEN /\ use' = [use EXCEPT ![Key(r)] = IF @ = request[r].row THEN 0 ELSE @]
               /\ count' = [count EXCEPT ![Code(r)] =
                               IF request[r].count > 0 THEN request[r].count - 1 ELSE @]
               /\ members' = IF Code(r) \in GroupCodes THEN members \ {User(r)} ELSE members
          ELSE UNCHANGED <<use, count, members>>
    /\ End(r)
    /\ UNCHANGED <<rows, bonus, uncounted, faults>>

(* subtract_user_balance with consume_promo_offer, under the user's lock. *)
Consume(u) ==
    /\ discount[u] # NoCode
    /\ \A r \in Requests : UserFree(u, r)
    /\ discount' = [discount EXCEPT ![u] = NoCode]
    /\ UNCHANGED <<use, rows, count, bonus, members, request, uncounted, faults>>

Next ==
    \/ \E r \in Requests :
          \/ \E u \in Users : (\E c \in Codes : Activate(r, u, c)) \/ Deactivate(r, u)
          \/ Reserve(r) \/ PayBonus(r) \/ RefuseDiscount(r) \/ FlushDiscount(r)
          \/ Complete(r) \/ ActivationFails(r) \/ Withdraw(r)
    \/ \E u \in Users : Consume(u)

Spec == Init /\ [][Next]_vars

-----------------------------------------------------------------------------
(***************************************************************************)
(* Properties.                                                             *)
(***************************************************************************)
Uses(c) == {u \in Users : use[<<u, c>>] > 0}

(* The variables have their types: a row has an id of its own, and a request that
   has inserted one knows it. *)
TypeOK ==
    /\ use \in [Users \X Codes -> 0..rows]
    /\ rows \in 0..MaxRows
    /\ count \in [Codes -> 0..MaxRows]
    /\ bonus \in [Users \X Codes -> Nat]
    /\ discount \in [Users -> DiscountCodes \cup {NoCode}]
    /\ members \subseteq Users
    /\ \A r \in Requests :
          /\ request[r].pc \in {"idle", "checked", "reserved", "paid", "flushed",
                                "deactivating"}
          /\ request[r].pc \in {"reserved", "flushed"} =>
                \A k \in Users \X Codes : use[k] # request[r].row
    /\ uncounted \in [Codes -> 0..MaxFaults]
    /\ faults \in 0..MaxFaults

(* Whatever a code has given is backed by a row: a bonus, a running discount, and a
   place in the group that the user did not have before.  One row backs one bonus,
   although a user's requests check for an earlier use without a lock and a request
   may fail after the bonus is committed. *)
EffectHasUse ==
    /\ \A k \in Users \X Codes : bonus[k] <= IF use[k] > 0 THEN 1 ELSE 0
    /\ \A u \in Users : discount[u] # NoCode => use[<<u, discount[u]>>] > 0
    /\ \A u \in members \ Insiders : \E c \in GroupCodes : use[<<u, c>>] > 0

(* For a code that cannot be deactivated the counter is exact: its rows, less the
   requests that have yet to count and those that failed before.  The limit is
   checked without a lock, so requests that run at once may exceed it, but by no
   more than the others among them. *)
BonusCountExact ==
    \A c \in BonusCodes :
        /\ count[c] + uncounted[c]
              + Cardinality({r \in Requests : At(r, "paid") /\ Code(r) = c})
                = Cardinality(Uses(c))
        /\ faults = 0 => Cardinality(Uses(c)) <= MaxUses + Cardinality(Requests) - 1

=============================================================================
