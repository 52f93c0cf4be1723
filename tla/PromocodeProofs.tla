--------------------------- MODULE PromocodeProofs ---------------------------
(***************************************************************************)
(* Proofs about Promocode, for any number of users, codes, requests and    *)
(* faults: whatever a code gave is backed by a row, and the uses of a code *)
(* that pays a bonus are counted.                                          *)
(***************************************************************************)
EXTENDS Promocode, FiniteSetTheorems, TLAPS

(* What the proofs ask of the constants: a code has one type. *)
ConstantsOK ==
    /\ BonusCodes \cap DiscountCodes = {}
    /\ GroupCodes \subseteq Codes
    /\ Insiders \subseteq Users
    /\ NoCode \notin Codes

Labels == {"idle", "checked", "reserved", "paid", "flushed", "deactivating"}
Locals == [pc : Labels, user : Users \cup {NoUser}, code : Codes \cup {NoCode},
           row : Nat, count : Int, discount : Codes \cup {NoCode}]

(* The types that the argument needs.  TypeOK says more of the counter than that it
   is an integer, but that rests on a count of the rows. *)
Types ==
    /\ use \in [Users \X Codes -> Nat]
    /\ rows \in Nat
    /\ count \in [Codes -> Int]
    /\ bonus \in [Users \X Codes -> Nat]
    /\ discount \in [Users -> DiscountCodes \cup {NoCode}]
    /\ members \subseteq Users
    /\ request \in [Requests -> Locals]

(* The request has an uncommitted row. *)
Open(r) == At(r, "reserved") \/ At(r, "flushed")

(* What a request knows: an uncommitted row has no committed one beside it, and a
   bonus that is paid has its row. *)
RequestOK(r) ==
    /\ ~ At(r, "idle") => User(r) \in Users /\ Code(r) \in Codes
    /\ Open(r) => request[r].row > 0 /\ use[Key(r)] = 0
    /\ At(r, "paid") => Code(r) \in BonusCodes /\ use[Key(r)] > 0
    /\ At(r, "flushed") \/ At(r, "deactivating") => Code(r) \in DiscountCodes

(* The unique constraint: two uncommitted rows never have the same key. *)
OneOpen == \A r, o \in Requests : r # o /\ Open(r) /\ Open(o) => Key(r) # Key(o)

(* A code with a discount, which alone can be withdrawn, pays no bonus. *)
BonusOfBonusCodes == \A u \in Users, c \in DiscountCodes : bonus[<<u, c>>] = 0

RequestsOK == \A r \in Requests : RequestOK(r)

EffectInv == Types /\ RequestsOK /\ OneOpen /\ BonusOfBonusCodes /\ EffectHasUse
-----------------------------------------------------------------------------
(* In the initial state nothing has been given. *)
LEMMA EffectInit == ASSUME ConstantsOK, Init PROVE EffectInv
<1> USE DEF ConstantsOK, Init
<1>1. Types
  BY DEF Types, Locals, Labels, Idle
<1>2. \A r \in Requests : request[r].pc = "idle"
  BY DEF Idle
<1>3. RequestsOK
  BY <1>2 DEF RequestsOK, RequestOK, Open, At
<1>4. OneOpen
  BY <1>2 DEF OneOpen, Open, At
<1>5. BonusOfBonusCodes
  BY DEF BonusOfBonusCodes, Codes
<1>6. EffectHasUse
  BY DEF EffectHasUse
<1> QED BY <1>1, <1>3, <1>4, <1>5, <1>6 DEF EffectInv

(* A request knows what it knew when another one has moved, unless that has touched
   the rows it relies on. *)
LEMMA Others ==
    ASSUME RequestsOK, NEW r \in Requests,
           \A o \in Requests \ {r} :
              /\ request'[o] = request[o]
              /\ Open(o) => use'[Key(o)] = 0
              /\ At(o, "paid") => use'[Key(o)] > 0,
           RequestOK(r)'
    PROVE  RequestsOK'
<1>1. SUFFICES ASSUME NEW o \in Requests \ {r} PROVE RequestOK(o)'
  BY DEF RequestsOK
<1>2. RequestOK(o)
  BY DEF RequestsOK
<1> QED BY <1>2 DEF RequestOK, Open, At, User, Code, Key

(* No step but the insert of a row makes two open rows with one key. *)
LEMMA NoneOpened ==
    ASSUME OneOpen, NEW r \in Requests,
           \A o \in Requests \ {r} : request'[o] = request[o],
           Open(r)' => Open(r) /\ Key(r)' = Key(r)
    PROVE  OneOpen'
BY DEF OneOpen, Open, At, User, Code, Key

(* A request that is at work has its key in the tables. *)
LEMMA KeyKnown ==
    ASSUME EffectInv, NEW r \in Requests, ~ At(r, "idle")
    PROVE  Key(r) \in Users \X Codes
BY DEF EffectInv, RequestsOK, RequestOK, Key

(* A step that changes nothing but one request's locals. *)
LEMMA LocalStep ==
    ASSUME EffectInv, NEW r \in Requests,
           UNCHANGED <<use, rows, count, bonus, discount, members>>,
           request' \in [Requests -> Locals],
           \A o \in Requests \ {r} : request'[o] = request[o],
           RequestOK(r)',
           Open(r)' => Open(r) /\ Key(r)' = Key(r)
    PROVE  EffectInv'
<1> USE DEF EffectInv
<1>1. Types'
  BY DEF Types
<1>2. RequestsOK'
  <2>1. ASSUME NEW o \in Requests \ {r}
        PROVE  /\ request'[o] = request[o]
               /\ Open(o) => use'[Key(o)] = 0
               /\ At(o, "paid") => use'[Key(o)] > 0
    BY <2>1 DEF RequestsOK, RequestOK
  <2> QED BY <2>1, Others
<1>3. OneOpen'
  BY NoneOpened
<1>4. BonusOfBonusCodes' /\ EffectHasUse'
  BY DEF BonusOfBonusCodes, EffectHasUse
<1> QED BY <1>1, <1>2, <1>3, <1>4

(* The end of a request that gives nothing. *)
LEMMA JustEnds ==
    ASSUME EffectInv, NEW r \in Requests, End(r),
           UNCHANGED <<use, rows, count, bonus, discount, members>>
    PROVE  EffectInv'
<1>1. request' \in [Requests -> Locals]
  BY DEF EffectInv, Types, End, Idle, Locals, Labels
<1>2. \A o \in Requests \ {r} : request'[o] = request[o]
  BY DEF EffectInv, Types, End
<1>3. request'[r].pc = "idle"
  BY DEF EffectInv, Types, End, Idle
<1>4. RequestOK(r)' /\ ~ Open(r)'
  BY <1>3 DEF RequestOK, Open, At
<1> QED BY <1>1, <1>2, <1>4, LocalStep

-----------------------------------------------------------------------------
(* The checks of an activation. *)
LEMMA ActivateStep ==
    ASSUME ConstantsOK, EffectInv, NEW r \in Requests, NEW u \in Users, NEW c \in Codes,
           Activate(r, u, c)
    PROVE  EffectInv'
<1> DEFINE new == [pc |-> "checked", user |-> u, code |-> c, row |-> 0,
                   count |-> count[c], discount |-> discount[u]]
<1>1. new \in Locals
  BY DEF EffectInv, Types, Locals, Labels, Codes
<1>2. request' \in [Requests -> Locals] /\ request'[r] = new
      /\ \A o \in Requests \ {r} : request'[o] = request[o]
  BY <1>1 DEF EffectInv, Types, Activate
<1>3. RequestOK(r)' /\ ~ Open(r)'
  BY <1>2 DEF RequestOK, Open, At, User, Code
<1> QED BY <1>2, <1>3, LocalStep DEF Activate

(* The reads of a withdrawal. *)
LEMMA DeactivateStep ==
    ASSUME ConstantsOK, EffectInv, NEW r \in Requests, NEW u \in Users,
           Deactivate(r, u)
    PROVE  EffectInv'
<1> DEFINE c == discount[u]
           new == [pc |-> "deactivating", user |-> u, code |-> c, row |-> use[<<u, c>>],
                   count |-> count[c], discount |-> c]
<1>1. c \in DiscountCodes /\ c \in Codes
  BY DEF EffectInv, Types, Deactivate, Codes
<1>2. new \in Locals
  BY <1>1 DEF EffectInv, Types, Locals, Labels
<1>3. request' \in [Requests -> Locals] /\ request'[r] = new
      /\ \A o \in Requests \ {r} : request'[o] = request[o]
  BY <1>2 DEF EffectInv, Types, Deactivate
<1>4. RequestOK(r)' /\ ~ Open(r)'
  BY <1>1, <1>3 DEF RequestOK, Open, At, User, Code
<1> QED BY <1>3, <1>4, LocalStep DEF Deactivate

(* The insert: the row is new, and nobody else has one with its key. *)
LEMMA ReserveStep ==
    ASSUME ConstantsOK, EffectInv, NEW r \in Requests, Reserve(r)
    PROVE  EffectInv'
<1>1. CASE use[Key(r)] > 0
  BY <1>1, JustEnds DEF Reserve
<1>2. CASE ~ (use[Key(r)] > 0)
  <2> DEFINE new == [request[r] EXCEPT !.pc = "reserved", !.row = rows + 1]
  <2>1. At(r, "checked") /\ KeyFree(r) /\ rows' = rows + 1
        /\ request' = [request EXCEPT ![r] = new]
        /\ UNCHANGED <<use, count, bonus, discount, members>>
    BY <1>2 DEF Reserve
  <2>2. Key(r) \in Users \X Codes /\ use[Key(r)] = 0
    <3>1. Key(r) \in Users \X Codes
      BY <2>1, KeyKnown DEF At
    <3> QED BY <1>2, <3>1 DEF EffectInv, Types
  <2>3. new \in Locals /\ new.pc = "reserved" /\ new.row = rows + 1 /\ rows + 1 > 0
        /\ new.user = request[r].user /\ new.code = request[r].code
    <3>1. request[r] \in Locals /\ rows + 1 \in Nat /\ rows + 1 > 0
      BY DEF EffectInv, Types
    <3> QED BY <3>1 DEF Locals, Labels
  <2> HIDE DEF new
  <2>4. request' \in [Requests -> Locals] /\ request'[r] = new
        /\ \A o \in Requests \ {r} : request'[o] = request[o]
    BY <2>1, <2>3 DEF EffectInv, Types
  <2>5. Key(r)' = Key(r) /\ User(r)' = User(r) /\ Code(r)' = Code(r)
    BY <2>3, <2>4 DEF Key, User, Code
  <2>6. Types'
    BY <2>1, <2>4 DEF EffectInv, Types
  <2>7. RequestOK(r)'
    <3>1. User(r) \in Users /\ Code(r) \in Codes
      BY <2>1 DEF EffectInv, RequestsOK, RequestOK, At
    <3> QED BY <2>1, <2>2, <2>3, <2>4, <2>5, <3>1 DEF RequestOK, Open, At
  <2>8. RequestsOK'
    <3>1. ASSUME NEW o \in Requests \ {r}
          PROVE  /\ request'[o] = request[o]
                 /\ Open(o) => use'[Key(o)] = 0
                 /\ At(o, "paid") => use'[Key(o)] > 0
      BY <2>1, <2>4, <3>1 DEF EffectInv, RequestsOK, RequestOK
    <3> QED BY <2>7, <3>1, Others DEF EffectInv
  <2>9. OneOpen'
    <3>1. ASSUME NEW o \in Requests \ {r}, Open(o) PROVE Key(o) # Key(r)
      BY <2>1, <3>1 DEF KeyFree, Open
    <3>2. ASSUME NEW o \in Requests \ {r}
          PROVE  Key(o)' = Key(o) /\ (Open(o)' <=> Open(o))
      BY <2>4, <3>2 DEF Key, User, Code, Open, At
    <3> QED BY <2>5, <3>1, <3>2 DEF EffectInv, OneOpen
  <2>10. BonusOfBonusCodes' /\ EffectHasUse'
    BY <2>1 DEF EffectInv, BonusOfBonusCodes, EffectHasUse
  <2> QED BY <2>6, <2>8, <2>9, <2>10 DEF EffectInv
<1> QED BY <1>1, <1>2

(* A discount is written and not committed. *)
LEMMA FlushDiscountStep ==
    ASSUME ConstantsOK, EffectInv, NEW r \in Requests, FlushDiscount(r)
    PROVE  EffectInv'
<1> DEFINE new == [request[r] EXCEPT !.pc = "flushed"]
<1>1. new \in Locals /\ new.pc = "flushed" /\ new.row = request[r].row
      /\ new.user = request[r].user /\ new.code = request[r].code
  BY DEF EffectInv, Types, Locals, Labels
<1>2. request' = [request EXCEPT ![r] = new]
  BY DEF FlushDiscount, Goto
<1> HIDE DEF new
<1>3. request' \in [Requests -> Locals] /\ request'[r] = new
      /\ \A o \in Requests \ {r} : request'[o] = request[o]
  BY <1>1, <1>2 DEF EffectInv, Types
<1>4. Key(r)' = Key(r) /\ User(r)' = User(r) /\ Code(r)' = Code(r)
  BY <1>1, <1>3 DEF Key, User, Code
<1>5. At(r, "reserved") /\ Open(r) /\ RequestOK(r)
  BY DEF FlushDiscount, Open, EffectInv, RequestsOK
<1>6. RequestOK(r)'
  BY <1>1, <1>3, <1>4, <1>5 DEF RequestOK, Open, At, FlushDiscount
<1> QED BY <1>3, <1>4, <1>5, <1>6, LocalStep DEF FlushDiscount

-----------------------------------------------------------------------------
(* A row that was open is committed: the others' open rows have other keys, and
   what was backed is backed. *)
LEMMA CommitRow ==
    ASSUME EffectInv, NEW r \in Requests, Open(r),
           use' = [use EXCEPT ![Key(r)] = request[r].row]
    PROVE  /\ Key(r) \in Users \X Codes
           /\ use' \in [Users \X Codes -> Nat]
           /\ use[Key(r)] = 0 /\ use'[Key(r)] > 0
           /\ \A k \in Users \X Codes : k # Key(r) => use'[k] = use[k]
           /\ \A o \in Requests \ {r} :
                 /\ Open(o) => use'[Key(o)] = 0
                 /\ At(o, "paid") => use'[Key(o)] > 0
<1>1. Key(r) \in Users \X Codes
  BY KeyKnown DEF Open, At
<1>2. request[r].row \in Nat /\ request[r].row > 0 /\ use[Key(r)] = 0
  BY DEF EffectInv, Types, Locals, RequestsOK, RequestOK
<1>3. /\ use' \in [Users \X Codes -> Nat]
      /\ use'[Key(r)] > 0
      /\ \A k \in Users \X Codes : k # Key(r) => use'[k] = use[k]
  BY <1>1, <1>2 DEF EffectInv, Types
<1>4. ASSUME NEW o \in Requests \ {r}, Open(o) PROVE use'[Key(o)] = 0
  <2>1. Key(o) \in Users \X Codes /\ Key(o) # Key(r) /\ use[Key(o)] = 0
    BY <1>4, KeyKnown DEF EffectInv, OneOpen, Open, At, RequestsOK, RequestOK
  <2> QED BY <1>3, <2>1
<1>5. ASSUME NEW o \in Requests \ {r}, At(o, "paid") PROVE use'[Key(o)] > 0
  <2>1. Key(o) \in Users \X Codes /\ use[Key(o)] > 0
    BY <1>5, KeyKnown DEF EffectInv, At, RequestsOK, RequestOK
  <2> QED BY <1>3, <2>1
<1> QED BY <1>1, <1>2, <1>3, <1>4, <1>5

(* A bonus is committed with its row. *)
LEMMA PayBonusStep ==
    ASSUME ConstantsOK, EffectInv, NEW r \in Requests, PayBonus(r)
    PROVE  EffectInv'
<1> DEFINE new == [request[r] EXCEPT !.pc = "paid"]
<1>1. /\ Open(r) /\ Code(r) \in BonusCodes
      /\ use' = [use EXCEPT ![Key(r)] = request[r].row]
      /\ bonus' = [bonus EXCEPT ![Key(r)] = @ + 1]
      /\ request' = [request EXCEPT ![r] = new]
      /\ UNCHANGED <<rows, count, discount, members>>
  BY DEF PayBonus, Goto, Open
<1>2. new \in Locals /\ new.pc = "paid"
      /\ new.user = request[r].user /\ new.code = request[r].code
  BY DEF EffectInv, Types, Locals, Labels
<1> HIDE DEF new
<1>3. request' \in [Requests -> Locals] /\ request'[r] = new
      /\ \A o \in Requests \ {r} : request'[o] = request[o]
  BY <1>1, <1>2 DEF EffectInv, Types
<1>4. Key(r)' = Key(r) /\ User(r)' = User(r) /\ Code(r)' = Code(r)
  BY <1>2, <1>3 DEF Key, User, Code
<1>5. /\ Key(r) \in Users \X Codes
      /\ use' \in [Users \X Codes -> Nat]
      /\ use[Key(r)] = 0 /\ use'[Key(r)] > 0
      /\ \A k \in Users \X Codes : k # Key(r) => use'[k] = use[k]
      /\ \A o \in Requests \ {r} :
            /\ Open(o) => use'[Key(o)] = 0
            /\ At(o, "paid") => use'[Key(o)] > 0
  BY <1>1, CommitRow
<1>6. /\ bonus' \in [Users \X Codes -> Nat]
      /\ bonus'[Key(r)] = bonus[Key(r)] + 1
      /\ \A k \in Users \X Codes : k # Key(r) => bonus'[k] = bonus[k]
  BY <1>1, <1>5 DEF EffectInv, Types
<1>7. Types'
  BY <1>1, <1>3, <1>5, <1>6 DEF EffectInv, Types
<1>8. RequestsOK'
  <2>1. User(r) \in Users /\ Code(r) \in Codes
    BY <1>1 DEF EffectInv, RequestsOK, RequestOK, Open, At
  <2>2. RequestOK(r)'
    BY <1>1, <1>2, <1>3, <1>4, <1>5, <2>1 DEF RequestOK, Open, At
  <2> QED BY <1>3, <1>5, <2>2, Others DEF EffectInv
<1>9. OneOpen'
  BY <1>1, <1>3, <1>4, NoneOpened DEF EffectInv
<1>10. BonusOfBonusCodes'
  <2>1. \A u \in Users, c \in DiscountCodes : <<u, c>> # Key(r) /\ <<u, c>> \in Users \X Codes
    BY <1>1 DEF ConstantsOK, Key, Codes
  <2> QED BY <1>6, <2>1 DEF EffectInv, BonusOfBonusCodes
<1>11. EffectHasUse'
  <2>1. \A k \in Users \X Codes : bonus'[k] <= IF use'[k] > 0 THEN 1 ELSE 0
    <3>1. bonus[Key(r)] = 0
      BY <1>5 DEF EffectInv, Types, EffectHasUse
    <3> QED BY <1>5, <1>6, <3>1 DEF EffectInv, EffectHasUse
  <2>2. \A k \in Users \X Codes : use[k] > 0 => use'[k] > 0
    BY <1>5
  <2>3. ASSUME NEW u \in Users, discount'[u] # NoCode PROVE use'[<<u, discount'[u]>>] > 0
    <3>1. discount[u] \in Codes /\ use[<<u, discount[u]>>] > 0
      BY <1>1, <2>3 DEF EffectInv, Types, EffectHasUse, Codes
    <3> QED BY <1>1, <2>2, <3>1
  <2>4. ASSUME NEW u \in members' \ Insiders PROVE \E c \in GroupCodes : use'[<<u, c>>] > 0
    <3>1. PICK c \in GroupCodes : use[<<u, c>>] > 0
      BY <1>1 DEF EffectInv, EffectHasUse
    <3>2. <<u, c>> \in Users \X Codes
      BY <1>1 DEF ConstantsOK, EffectInv, Types
    <3> QED BY <2>2, <3>1, <3>2
  <2> QED BY <2>1, <2>3, <2>4 DEF EffectHasUse
<1> QED BY <1>7, <1>8, <1>9, <1>10, <1>11 DEF EffectInv

(* The request that ends, once what it leaves behind is known to be in order. *)
LEMMA Ended ==
    ASSUME EffectInv, NEW r \in Requests, End(r),
           \A o \in Requests \ {r} :
              /\ Open(o) => use'[Key(o)] = 0
              /\ At(o, "paid") => use'[Key(o)] > 0
    PROVE  /\ request' \in [Requests -> Locals]
           /\ RequestsOK'
           /\ OneOpen'
<1>1. request' \in [Requests -> Locals] /\ request'[r].pc = "idle"
      /\ \A o \in Requests \ {r} : request'[o] = request[o]
  BY DEF EffectInv, Types, End, Idle, Locals, Labels
<1>2. RequestOK(r)' /\ ~ Open(r)'
  BY <1>1 DEF RequestOK, Open, At
<1>3. RequestsOK'
  BY <1>1, <1>2, Others DEF EffectInv
<1>4. OneOpen'
  BY <1>1, <1>2, NoneOpened DEF EffectInv
<1> QED BY <1>1, <1>3, <1>4

(* The group is assigned, the use counted, and the discount committed with its row. *)
LEMMA CompleteStep ==
    ASSUME ConstantsOK, EffectInv, NEW r \in Requests, Complete(r)
    PROVE  EffectInv'
<1>1. /\ End(r)
      /\ members' = Joined(r)
      /\ count' = [count EXCEPT ![Code(r)] = @ + 1]
      /\ UNCHANGED <<rows, bonus>>
  BY DEF Complete
<1>2. User(r) \in Users /\ Code(r) \in Codes /\ Key(r) \in Users \X Codes
  <2>1. ~ At(r, "idle")
    BY DEF Complete, At
  <2> QED BY <2>1, KeyKnown DEF EffectInv, RequestsOK, RequestOK
<1>3. /\ use' \in [Users \X Codes -> Nat]
      /\ use'[Key(r)] > 0
      /\ \A k \in Users \X Codes : use[k] > 0 => use'[k] > 0
      /\ \A o \in Requests \ {r} :
            /\ Open(o) => use'[Key(o)] = 0
            /\ At(o, "paid") => use'[Key(o)] > 0
  <2>1. CASE At(r, "paid") /\ UNCHANGED <<use, discount>>
    BY <2>1 DEF EffectInv, Types, RequestsOK, RequestOK
  <2>2. CASE At(r, "flushed") /\ use' = [use EXCEPT ![Key(r)] = request[r].row]
    BY <2>2, CommitRow DEF Open
  <2> QED BY <2>1, <2>2 DEF Complete
<1>4. /\ discount' \in [Users -> DiscountCodes \cup {NoCode}]
      /\ \A u \in Users : \/ discount'[u] = discount[u]
                          \/ u = User(r) /\ discount'[u] = Code(r)
  <2>1. CASE UNCHANGED <<use, discount>>
    BY <2>1 DEF EffectInv, Types
  <2>2. CASE At(r, "flushed") /\ discount' = [discount EXCEPT ![User(r)] = Code(r)]
    <3>1. Code(r) \in DiscountCodes
      BY <2>2 DEF EffectInv, RequestsOK, RequestOK
    <3> QED BY <1>2, <2>2, <3>1 DEF EffectInv, Types
  <2> QED BY <2>1, <2>2 DEF Complete
<1>5. request' \in [Requests -> Locals] /\ RequestsOK' /\ OneOpen'
  BY <1>1, <1>3, Ended
<1>6. members' \subseteq Users
  BY <1>1, <1>2 DEF Joined, EffectInv, Types
<1>7. Types'
  <2>1. count' \in [Codes -> Int]
    BY <1>1, <1>2 DEF EffectInv, Types
  <2>2. rows' \in Nat /\ bonus' \in [Users \X Codes -> Nat]
    BY <1>1 DEF EffectInv, Types
  <2>3. discount' \in [Users -> DiscountCodes \cup {NoCode}]
    BY <1>4
  <2> QED BY <1>3, <1>5, <1>6, <2>1, <2>2, <2>3 DEF Types
<1>8. BonusOfBonusCodes'
  BY <1>1 DEF EffectInv, BonusOfBonusCodes
<1>9. EffectHasUse'
  <2>1. \A k \in Users \X Codes : bonus'[k] <= IF use'[k] > 0 THEN 1 ELSE 0
    <3>1. ASSUME NEW k \in Users \X Codes PROVE bonus[k] \in Nat /\ use[k] \in Nat /\ use'[k] \in Nat
      BY <1>3 DEF EffectInv, Types
    <3> QED BY <1>1, <1>3, <3>1 DEF EffectInv, EffectHasUse
  <2>2. ASSUME NEW u \in Users, discount'[u] # NoCode PROVE use'[<<u, discount'[u]>>] > 0
    <3>1. CASE discount'[u] = discount[u]
      <4>1. discount[u] \in Codes /\ use[<<u, discount[u]>>] > 0
        BY <2>2, <3>1 DEF EffectInv, Types, EffectHasUse, Codes
      <4> QED BY <1>3, <3>1, <4>1
    <3>2. CASE u = User(r) /\ discount'[u] = Code(r)
      BY <1>3, <3>2 DEF Key
    <3> QED BY <1>4, <3>1, <3>2
  <2>3. ASSUME NEW u \in members' \ Insiders PROVE \E c \in GroupCodes : use'[<<u, c>>] > 0
    <3>1. CASE u \in members
      <4>1. PICK c \in GroupCodes : use[<<u, c>>] > 0
        BY <2>3, <3>1 DEF EffectInv, EffectHasUse
      <4>2. <<u, c>> \in Users \X Codes
        BY <3>1 DEF ConstantsOK, EffectInv, Types
      <4> QED BY <1>3, <4>1, <4>2
    <3>2. CASE u = User(r) /\ Code(r) \in GroupCodes
      BY <1>3, <3>2 DEF Key
    <3> QED BY <1>1, <3>1, <3>2 DEF Joined
  <2> QED BY <2>1, <2>2, <2>3 DEF EffectHasUse
<1> QED BY <1>5, <1>7, <1>8, <1>9 DEF EffectInv

(* A withdrawal deletes at most the row of a code that pays no bonus, together with
   the discount and the place in the group that rest on it. *)
LEMMA WithdrawStep ==
    ASSUME ConstantsOK, EffectInv, NEW r \in Requests, Withdraw(r)
    PROVE  EffectInv'
<1>1. /\ At(r, "deactivating") /\ End(r)
      /\ discount' = [discount EXCEPT ![User(r)] = NoCode]
      /\ UNCHANGED <<rows, bonus>>
  BY DEF Withdraw
<1>2. User(r) \in Users /\ Code(r) \in Codes /\ Code(r) \in DiscountCodes
      /\ Key(r) \in Users \X Codes
  <2>1. ~ At(r, "idle")
    BY <1>1 DEF At
  <2> QED BY <1>1, <2>1, KeyKnown DEF EffectInv, RequestsOK, RequestOK
<1>3. /\ use' \in [Users \X Codes -> Nat]
      /\ \A k \in Users \X Codes : use'[k] = use[k] \/ use'[k] = 0
      /\ \A k \in Users \X Codes : k # Key(r) => use'[k] = use[k]
      /\ use' # use /\ Code(r) \in GroupCodes => User(r) \notin members'
      /\ members' \subseteq members
  BY <1>2 DEF Withdraw, EffectInv, Types
<1>4. count' \in [Codes -> Int]
  <2>1. request[r].count \in Int
    BY DEF EffectInv, Types, Locals
  <2> QED BY <1>2, <2>1 DEF Withdraw, EffectInv, Types
<1>5. \A o \in Requests \ {r} :
         /\ Open(o) => use'[Key(o)] = 0
         /\ At(o, "paid") => use'[Key(o)] > 0
  <2>1. ASSUME NEW o \in Requests \ {r}, Open(o) PROVE use'[Key(o)] = 0
    <3>1. Key(o) \in Users \X Codes /\ use[Key(o)] = 0
      BY <2>1, KeyKnown DEF EffectInv, Open, At, RequestsOK, RequestOK
    <3> QED BY <1>3, <3>1
  <2>2. ASSUME NEW o \in Requests \ {r}, At(o, "paid") PROVE use'[Key(o)] > 0
    <3>1. Key(o) \in Users \X Codes /\ use[Key(o)] > 0 /\ Code(o) \in BonusCodes
      BY <2>2, KeyKnown DEF EffectInv, At, RequestsOK, RequestOK
    <3>2. Key(o) # Key(r)
      BY <1>2, <3>1 DEF ConstantsOK, Key
    <3> QED BY <1>3, <3>1, <3>2
  <2> QED BY <2>1, <2>2
<1>6. request' \in [Requests -> Locals] /\ RequestsOK' /\ OneOpen'
  BY <1>1, <1>5, Ended
<1>7. Types'
  BY <1>1, <1>2, <1>3, <1>4, <1>6 DEF EffectInv, Types
<1>8. BonusOfBonusCodes'
  BY <1>1 DEF EffectInv, BonusOfBonusCodes
<1>9. EffectHasUse'
  <2>1. ASSUME NEW k \in Users \X Codes PROVE bonus'[k] <= IF use'[k] > 0 THEN 1 ELSE 0
    <3>1. CASE k = Key(r)
      <4>1. bonus[k] = 0
        BY <1>2, <3>1 DEF EffectInv, BonusOfBonusCodes, Key
      <4> QED BY <1>1, <4>1
    <3>2. CASE k # Key(r)
      BY <1>1, <1>3, <3>2 DEF EffectInv, EffectHasUse
    <3> QED BY <3>1, <3>2
  <2>2. ASSUME NEW u \in Users, discount'[u] # NoCode PROVE use'[<<u, discount'[u]>>] > 0
    <3>1. u # User(r) /\ discount'[u] = discount[u]
      BY <1>1, <1>2, <2>2 DEF EffectInv, Types
    <3>2. discount[u] \in Codes /\ use[<<u, discount[u]>>] > 0
      BY <2>2, <3>1 DEF EffectInv, Types, EffectHasUse, Codes
    <3>3. <<u, discount[u]>> # Key(r)
      BY <3>1 DEF Key
    <3> QED BY <1>3, <3>1, <3>2, <3>3
  <2>3. ASSUME NEW u \in members' \ Insiders PROVE \E c \in GroupCodes : use'[<<u, c>>] > 0
    <3>1. PICK c \in GroupCodes : use[<<u, c>>] > 0
      BY <1>3, <2>3 DEF EffectInv, EffectHasUse
    <3>2. <<u, c>> \in Users \X Codes
      BY <1>3, <2>3 DEF ConstantsOK, EffectInv, Types
    <3>3. CASE <<u, c>> # Key(r)
      BY <1>3, <3>1, <3>2, <3>3
    <3>4. CASE <<u, c>> = Key(r)
      <4>1. u = User(r) /\ c = Code(r)
        BY <3>4 DEF Key
      <4> QED BY <1>3, <2>3, <3>1, <4>1
    <3> QED BY <3>3, <3>4
  <2> QED BY <2>1, <2>2, <2>3 DEF EffectHasUse
<1> QED BY <1>6, <1>7, <1>8, <1>9 DEF EffectInv

(* A purchase uses a discount up. *)
LEMMA ConsumeStep ==
    ASSUME ConstantsOK, EffectInv, NEW u \in Users, Consume(u)
    PROVE  EffectInv'
<1>1. /\ discount' = [discount EXCEPT ![u] = NoCode]
      /\ UNCHANGED <<use, rows, count, bonus, members, request>>
  BY DEF Consume
<1>2. Types'
  BY <1>1 DEF EffectInv, Types
<1>3. RequestsOK' /\ OneOpen' /\ BonusOfBonusCodes'
  BY <1>1 DEF EffectInv, RequestsOK, RequestOK, OneOpen, BonusOfBonusCodes, Open, At,
              User, Code, Key
<1>4. EffectHasUse'
  BY <1>1 DEF EffectInv, EffectHasUse, Types
<1> QED BY <1>2, <1>3, <1>4 DEF EffectInv

-----------------------------------------------------------------------------
(* Every step of every request keeps the invariant. *)
LEMMA EffectStep ==
    ASSUME ConstantsOK, EffectInv, [Next]_vars
    PROVE  EffectInv'
<1>1. CASE UNCHANGED vars
  BY <1>1 DEF vars, EffectInv, Types, RequestsOK, RequestOK, OneOpen, BonusOfBonusCodes,
              EffectHasUse, Open, At, User, Code, Key
<1>2. ASSUME NEW r \in Requests, NEW u \in Users, NEW c \in Codes, Activate(r, u, c)
      PROVE  EffectInv'
  BY <1>2, ActivateStep
<1>3. ASSUME NEW r \in Requests, NEW u \in Users, Deactivate(r, u)
      PROVE  EffectInv'
  BY <1>3, DeactivateStep
<1>4. ASSUME NEW r \in Requests, Reserve(r) PROVE EffectInv'
  BY <1>4, ReserveStep
<1>5. ASSUME NEW r \in Requests, PayBonus(r) PROVE EffectInv'
  BY <1>5, PayBonusStep
<1>6. ASSUME NEW r \in Requests, RefuseDiscount(r) PROVE EffectInv'
  BY <1>6, JustEnds DEF RefuseDiscount
<1>7. ASSUME NEW r \in Requests, FlushDiscount(r) PROVE EffectInv'
  BY <1>7, FlushDiscountStep
<1>8. ASSUME NEW r \in Requests, Complete(r) PROVE EffectInv'
  BY <1>8, CompleteStep
<1>9. ASSUME NEW r \in Requests, ActivationFails(r) PROVE EffectInv'
  BY <1>9, JustEnds DEF ActivationFails
<1>10. ASSUME NEW r \in Requests, Withdraw(r) PROVE EffectInv'
  BY <1>10, WithdrawStep
<1>11. ASSUME NEW u \in Users, Consume(u) PROVE EffectInv'
  BY <1>11, ConsumeStep
<1> QED BY <1>1, <1>2, <1>3, <1>4, <1>5, <1>6, <1>7, <1>8, <1>9, <1>10, <1>11 DEF Next

(* Whatever a code has given is backed by a row of its own, however many requests
   redeem and withdraw codes at once and wherever they fail. *)
THEOREM EffectHasUseAlways ==
    ASSUME ConstantsOK
    PROVE  Spec => []EffectHasUse
<1>1. Init => EffectInv
  BY EffectInit
<1>2. EffectInv /\ [Next]_vars => EffectInv'
  BY EffectStep
<1>3. EffectInv => EffectHasUse
  BY DEF EffectInv
<1> QED BY <1>1, <1>2, <1>3, PTL DEF Spec

-----------------------------------------------------------------------------
(***************************************************************************)
(* The counter of a code that pays a bonus.  The requests on their way to  *)
(* a row of it are part of the bound: each of them has seen the counter    *)
(* below the limit, when the others could be no further than paid.         *)
(***************************************************************************)
Holding(c, labels) == {r \in Requests : request[r].pc \in labels /\ Code(r) = c}
Paid(c) == Holding(c, {"paid"})
Coming(c) == Holding(c, {"checked", "reserved"})

Exact(c) ==
    /\ IsFiniteSet(Uses(c))
    /\ count[c] + uncounted[c] + Cardinality(Paid(c)) = Cardinality(Uses(c))

Limited(c) ==
    faults = 0 => /\ uncounted[c] = 0
                  /\ Cardinality(Uses(c)) + Cardinality(Coming(c))
                        <= MaxUses + Cardinality(Requests) - 1

CountInv ==
    /\ uncounted \in [Codes -> Nat] /\ faults \in Nat
    /\ \A c \in BonusCodes : Exact(c) /\ Limited(c)

(* The limit, and who may use codes at once. *)
LimitsOK == MaxUses \in Nat /\ IsFiniteSet(Requests) /\ Requests # {}

(* The requests of a code at some labels when one request moves. *)
LEMMA HoldingMoves ==
    ASSUME LimitsOK, NEW r \in Requests, \A o \in Requests \ {r} : request'[o] = request[o],
           NEW c, NEW labels
    PROVE  /\ Cardinality(Holding(c, labels)) \in Nat
           /\ Cardinality(Holding(c, labels))' =
                 CASE r \in Holding(c, labels)' /\ r \notin Holding(c, labels) ->
                        Cardinality(Holding(c, labels)) + 1
                   [] r \notin Holding(c, labels)' /\ r \in Holding(c, labels) ->
                        Cardinality(Holding(c, labels)) - 1
                   [] OTHER -> Cardinality(Holding(c, labels))
<1>1. /\ IsFiniteSet(Holding(c, labels)) /\ IsFiniteSet(Holding(c, labels)')
      /\ Cardinality(Holding(c, labels)) \in Nat
  BY FS_Subset, FS_CardinalityType DEF LimitsOK, Holding
<1>2. Cardinality(Holding(c, labels))' = Cardinality(Holding(c, labels)')
  OBVIOUS
<1>3. \A o \in Requests \ {r} : o \in Holding(c, labels)' <=> o \in Holding(c, labels)
  BY DEF Holding, Code
<1>4. Holding(c, labels) \subseteq Requests /\ Holding(c, labels)' \subseteq Requests
  BY DEF Holding
<1>5. CASE r \in Holding(c, labels)' /\ r \notin Holding(c, labels)
  <2>1. Holding(c, labels)' = Holding(c, labels) \cup {r}
    BY <1>3, <1>4, <1>5
  <2> QED BY <1>1, <1>2, <1>5, <2>1, FS_AddElement
<1>6. CASE r \notin Holding(c, labels)' /\ r \in Holding(c, labels)
  <2>1. Holding(c, labels)' = Holding(c, labels) \ {r}
    BY <1>3, <1>4, <1>6
  <2> QED BY <1>1, <1>2, <1>6, <2>1, FS_RemoveElement
<1>7. CASE r \in Holding(c, labels)' <=> r \in Holding(c, labels)
  <2>1. Holding(c, labels)' = Holding(c, labels)
    BY <1>3, <1>4, <1>7
  <2> QED BY <1>1, <1>2, <1>7, <2>1
<1> QED BY <1>5, <1>6, <1>7

(* A step of r that neither writes a row nor counts one. *)
LEMMA CountStays ==
    ASSUME ConstantsOK, LimitsOK, EffectInv, CountInv, NEW r \in Requests,
           UNCHANGED <<use, count, uncounted>>, faults' = faults,
           \A o \in Requests \ {r} : request'[o] = request[o],
           \A c \in BonusCodes : /\ r \notin Paid(c)' /\ r \notin Paid(c)
                                 /\ r \in Coming(c)' => r \in Coming(c)
    PROVE  CountInv'
<1> SUFFICES ASSUME NEW c \in BonusCodes PROVE Exact(c)' /\ Limited(c)'
  BY DEF CountInv
<1>1. /\ Exact(c) /\ Limited(c) /\ faults \in Nat
      /\ count[c] \in Int /\ uncounted[c] \in Nat
  BY DEF CountInv, EffectInv, Types, Codes
<1>2. Uses(c)' = Uses(c)
  BY DEF Uses
<1>3. /\ Cardinality(Uses(c)) \in Nat /\ Cardinality(Requests) \in Nat
      /\ Cardinality(Paid(c)) \in Nat /\ Cardinality(Coming(c)) \in Nat
  BY <1>1, HoldingMoves, FS_CardinalityType DEF Exact, LimitsOK, Paid, Coming
<1>4. /\ Cardinality(Paid(c))' = Cardinality(Paid(c))
      /\ Cardinality(Coming(c))' <= Cardinality(Coming(c))
  BY <1>3, HoldingMoves DEF Paid, Coming
<1>5. Cardinality(Coming(c))' \in Int
  BY <1>3, HoldingMoves DEF Coming
<1>6. Exact(c)'
  BY <1>1, <1>2, <1>4 DEF Exact
<1>7. Limited(c)'
  BY <1>1, <1>2, <1>3, <1>4, <1>5 DEF Limited, LimitsOK
<1> QED BY <1>6, <1>7

(* An activation has seen the counter below the limit. *)
LEMMA ActivateCounts ==
    ASSUME ConstantsOK, LimitsOK, EffectInv, CountInv, NEW r \in Requests, NEW u \in Users,
           NEW d \in Codes, Activate(r, u, d)
    PROVE  CountInv'
<1> SUFFICES ASSUME NEW c \in BonusCodes PROVE Exact(c)' /\ Limited(c)'
  BY DEF CountInv, Activate
<1>1. /\ Exact(c) /\ Limited(c) /\ count[c] \in Int /\ uncounted[c] \in Nat /\ MaxUses \in Nat
  BY DEF CountInv, EffectInv, Types, Codes, LimitsOK
<1>2. /\ request'[r].pc = "checked" /\ request'[r].code = d /\ request[r].pc = "idle"
      /\ \A o \in Requests \ {r} : request'[o] = request[o]
      /\ UNCHANGED <<use, count, uncounted, faults>> /\ count[d] < MaxUses
  BY DEF Activate, At, EffectInv, Types
<1>3. /\ Cardinality(Uses(c)) \in Nat /\ Cardinality(Requests) \in Nat
      /\ Cardinality(Paid(c)) \in Nat /\ Cardinality(Coming(c)) \in Nat
  BY <1>1, <1>2, HoldingMoves, FS_CardinalityType DEF Exact, LimitsOK, Paid, Coming
<1>4. Uses(c)' = Uses(c)
  BY <1>2 DEF Uses
<1>5. r \notin Paid(c) /\ r \notin Paid(c)' /\ r \notin Coming(c)
      /\ (r \in Coming(c)' <=> c = d)
  BY <1>2 DEF Paid, Coming, Holding, Code
<1>6. Cardinality(Paid(c))' = Cardinality(Paid(c))
  BY <1>2, <1>5, HoldingMoves DEF Paid
<1>7. Exact(c)'
  BY <1>1, <1>2, <1>4, <1>6 DEF Exact
<1>8. CASE c # d
  <2>1. Cardinality(Coming(c))' = Cardinality(Coming(c))
    BY <1>2, <1>5, <1>8, HoldingMoves DEF Coming
  <2> QED BY <1>1, <1>2, <1>4, <1>7, <2>1 DEF Limited
<1>9. CASE c = d
  <2>1. Cardinality(Coming(c))' = Cardinality(Coming(c)) + 1
    BY <1>2, <1>5, <1>9, HoldingMoves DEF Coming
  <2>2. Cardinality(Paid(c)) + Cardinality(Coming(c)) + 1 <= Cardinality(Requests)
    <3>1. Paid(c) \cup Coming(c) \subseteq Requests \ {r} /\ Paid(c) \cap Coming(c) = {}
      BY <1>5 DEF Paid, Coming, Holding
    <3>2. /\ IsFiniteSet(Paid(c)) /\ IsFiniteSet(Coming(c)) /\ IsFiniteSet(Requests \ {r})
          /\ Cardinality(Requests \ {r}) = Cardinality(Requests) - 1
      BY FS_Subset, FS_RemoveElement DEF LimitsOK, Paid, Coming, Holding
    <3>3. Cardinality(Paid(c) \cup Coming(c)) <= Cardinality(Requests \ {r})
      BY <3>1, <3>2, FS_Subset
    <3>4. Cardinality(Paid(c) \cup Coming(c))
             = Cardinality(Paid(c)) + Cardinality(Coming(c)) - Cardinality(Paid(c) \cap Coming(c))
      BY <3>2, FS_Union
    <3>5. Cardinality(Paid(c) \cap Coming(c)) = 0
      BY <3>1, FS_EmptySet
    <3> QED BY <1>3, <3>2, <3>3, <3>4, <3>5
  <2>3. ASSUME faults = 0
        PROVE  Cardinality(Uses(c)) + Cardinality(Coming(c)) + 1
                  <= MaxUses + Cardinality(Requests) - 1
    <3>1. uncounted[c] = 0 /\ count[c] + Cardinality(Paid(c)) = Cardinality(Uses(c))
      BY <1>1, <1>3, <2>3 DEF Exact, Limited
    <3> QED BY <1>1, <1>2, <1>3, <1>9, <2>2, <3>1
  <2>4. faults = 0 => uncounted[c] = 0
    BY <1>1 DEF Limited
  <2>5. Cardinality(Uses(c))' = Cardinality(Uses(c)) /\ Cardinality(Requests)' = Cardinality(Requests)
        /\ MaxUses' = MaxUses
    BY <1>4
  <2>6. faults' = 0 => /\ uncounted'[c] = 0
                       /\ Cardinality(Uses(c))' + Cardinality(Coming(c))'
                             <= MaxUses + Cardinality(Requests) - 1
    BY <1>2, <1>3, <2>1, <2>3, <2>4, <2>5
  <2> QED BY <1>7, <2>6 DEF Limited
<1> QED BY <1>8, <1>9

(* A row of the code is committed by the request that was on its way to it. *)
LEMMA PayCounts ==
    ASSUME ConstantsOK, LimitsOK, EffectInv, CountInv, NEW r \in Requests, PayBonus(r)
    PROVE  CountInv'
<1> SUFFICES ASSUME NEW c \in BonusCodes PROVE Exact(c)' /\ Limited(c)'
  BY DEF CountInv, PayBonus
<1>1. /\ Exact(c) /\ Limited(c) /\ count[c] \in Int /\ uncounted[c] \in Nat /\ MaxUses \in Nat
  BY DEF CountInv, EffectInv, Types, Codes, LimitsOK
<1>2. /\ request[r] \in Locals /\ request[r].pc = "reserved"
      /\ request' = [request EXCEPT ![r].pc = "paid"]
      /\ UNCHANGED <<count, uncounted, faults>>
  BY DEF PayBonus, Goto, At, EffectInv, Types
<1>3. /\ request'[r].pc = "paid" /\ request'[r].code = request[r].code
      /\ \A o \in Requests \ {r} : request'[o] = request[o]
  BY <1>2 DEF EffectInv, Types, Locals
<1>4. /\ Key(r) \in Users \X Codes /\ use[Key(r)] = 0 /\ use'[Key(r)] > 0
      /\ \A k \in Users \X Codes : k # Key(r) => use'[k] = use[k]
  BY <1>2, CommitRow DEF PayBonus, Open, At
<1>5. /\ Cardinality(Uses(c)) \in Nat /\ Cardinality(Requests) \in Nat
      /\ Cardinality(Paid(c)) \in Nat /\ Cardinality(Coming(c)) \in Nat
  BY <1>1, <1>3, HoldingMoves, FS_CardinalityType DEF Exact, LimitsOK, Paid, Coming
<1>6. CASE Code(r) = c
  <2>1. /\ r \notin Paid(c) /\ r \in Paid(c)' /\ r \in Coming(c) /\ r \notin Coming(c)'
    BY <1>2, <1>3, <1>6 DEF Paid, Coming, Holding, Code
  <2>2. /\ Cardinality(Paid(c))' = Cardinality(Paid(c)) + 1
        /\ Cardinality(Coming(c))' = Cardinality(Coming(c)) - 1
    BY <1>3, <2>1, HoldingMoves DEF Paid, Coming
  <2>3. User(r) \in Users /\ User(r) \notin Uses(c) /\ Uses(c)' = Uses(c) \cup {User(r)}
    <3>1. Key(r) = <<User(r), c>> /\ c \in Codes
      BY <1>6 DEF Key, Codes
    <3> QED BY <1>4, <3>1 DEF Uses
  <2>4. IsFiniteSet(Uses(c)') /\ Cardinality(Uses(c)') = Cardinality(Uses(c)) + 1
    BY <1>1, <2>3, FS_AddElement DEF Exact
  <2>5. Exact(c)'
    BY <1>1, <1>2, <1>5, <2>2, <2>4 DEF Exact
  <2>6. Limited(c)'
    BY <1>1, <1>2, <1>5, <2>2, <2>4 DEF Limited
  <2> QED BY <2>5, <2>6
<1>7. CASE Code(r) # c
  <2>1. /\ r \notin Paid(c) /\ r \notin Paid(c)' /\ r \notin Coming(c) /\ r \notin Coming(c)'
    BY <1>2, <1>3, <1>7 DEF Paid, Coming, Holding, Code
  <2>2. /\ Cardinality(Paid(c))' = Cardinality(Paid(c))
        /\ Cardinality(Coming(c))' = Cardinality(Coming(c))
    BY <1>3, <2>1, HoldingMoves DEF Paid, Coming
  <2>3. Uses(c)' = Uses(c)
    <3>1. \A u \in Users : <<u, c>> \in Users \X Codes /\ <<u, c>> # Key(r)
      BY <1>7 DEF Key, Codes
    <3> QED BY <1>4, <3>1 DEF Uses
  <2>4. Exact(c)'
    BY <1>1, <1>2, <2>2, <2>3 DEF Exact
  <2>5. Limited(c)'
    BY <1>1, <1>2, <2>2, <2>3 DEF Limited
  <2> QED BY <2>4, <2>5
<1> QED BY <1>6, <1>7

(* A paid request that counts its row, or fails to. *)
LEMMA PaidEnds ==
    ASSUME ConstantsOK, LimitsOK, EffectInv, CountInv, NEW r \in Requests, At(r, "paid"),
           End(r), UNCHANGED use,
           \/ /\ count' = [count EXCEPT ![Code(r)] = @ + 1] /\ UNCHANGED <<uncounted, faults>>
           \/ /\ uncounted' = [uncounted EXCEPT ![Code(r)] = @ + 1] /\ UNCHANGED count
              /\ faults' = faults + 1
    PROVE  CountInv'
<1>1. /\ uncounted' \in [Codes -> Nat] /\ faults' \in Nat
      /\ Code(r) \in Codes
  BY DEF CountInv, EffectInv, RequestsOK, RequestOK, At
<1> SUFFICES ASSUME NEW c \in BonusCodes PROVE Exact(c)' /\ Limited(c)'
  BY <1>1 DEF CountInv
<1>2. /\ Exact(c) /\ Limited(c) /\ count \in [Codes -> Int] /\ uncounted \in [Codes -> Nat]
      /\ c \in Codes /\ MaxUses \in Nat /\ faults \in Nat
  BY DEF CountInv, EffectInv, Types, Codes, LimitsOK
<1>3. /\ request'[r].pc = "idle" /\ request[r].pc = "paid"
      /\ \A o \in Requests \ {r} : request'[o] = request[o]
  BY DEF End, Idle, At, EffectInv, Types
<1>4. /\ Cardinality(Uses(c)) \in Nat /\ Cardinality(Requests) \in Nat
      /\ Cardinality(Paid(c)) \in Nat /\ Cardinality(Coming(c)) \in Nat
  BY <1>2, <1>3, HoldingMoves, FS_CardinalityType DEF Exact, LimitsOK, Paid, Coming
<1>5. /\ r \notin Paid(c)' /\ (r \in Paid(c) <=> Code(r) = c)
      /\ r \notin Coming(c) /\ r \notin Coming(c)'
  BY <1>3 DEF Paid, Coming, Holding, Code
<1>6. /\ Cardinality(Coming(c))' = Cardinality(Coming(c))
      /\ Cardinality(Paid(c))' = IF Code(r) = c THEN Cardinality(Paid(c)) - 1
                                                ELSE Cardinality(Paid(c))
  BY <1>3, <1>5, HoldingMoves DEF Paid, Coming
<1>7. Uses(c)' = Uses(c)
  BY DEF Uses
<1>8. count'[c] + uncounted'[c] = count[c] + uncounted[c] + (IF Code(r) = c THEN 1 ELSE 0)
  BY <1>1, <1>2
<1>9. count'[c] \in Int /\ uncounted'[c] \in Nat
  BY <1>1, <1>2
<1>10. Exact(c)'
  BY <1>2, <1>4, <1>6, <1>7, <1>8, <1>9 DEF Exact
<1>11. Limited(c)'
  BY <1>2, <1>4, <1>6, <1>7 DEF Limited
<1> QED BY <1>10, <1>11

(* A step about a code with a discount. *)
LEMMA DiscountCounts ==
    ASSUME ConstantsOK, LimitsOK, EffectInv, CountInv, NEW r \in Requests,
           ~ At(r, "idle"), Code(r) \in DiscountCodes, End(r),
           UNCHANGED <<uncounted, faults>>,
           \A c \in BonusCodes : count'[c] = count[c],
           \A k \in Users \X BonusCodes : use'[k] = use[k]
    PROVE  CountInv'
<1> SUFFICES ASSUME NEW c \in BonusCodes PROVE Exact(c)' /\ Limited(c)'
  BY DEF CountInv
<1>1. Exact(c) /\ Limited(c) /\ Code(r) # c /\ count'[c] = count[c]
  BY DEF CountInv, ConstantsOK
<1>2. /\ request'[r].pc = "idle" /\ \A o \in Requests \ {r} : request'[o] = request[o]
  BY DEF End, Idle, EffectInv, Types
<1>3. r \notin Paid(c) /\ r \notin Paid(c)' /\ r \notin Coming(c) /\ r \notin Coming(c)'
  BY <1>1, <1>2 DEF Paid, Coming, Holding
<1>4. /\ Cardinality(Paid(c))' = Cardinality(Paid(c))
      /\ Cardinality(Coming(c))' = Cardinality(Coming(c))
  BY <1>2, <1>3, HoldingMoves DEF Paid, Coming
<1>5. Uses(c)' = Uses(c)
  BY DEF Uses
<1> QED BY <1>1, <1>4, <1>5 DEF Exact, Limited

(* Every step keeps the count. *)
LEMMA CountStep ==
    ASSUME ConstantsOK, LimitsOK, EffectInv, CountInv, [Next]_vars
    PROVE  CountInv'
<1>1. CASE UNCHANGED vars
  <2>1. \A c : /\ Uses(c)' = Uses(c) /\ Paid(c)' = Paid(c) /\ Coming(c)' = Coming(c)
    BY <1>1 DEF vars, Uses, Paid, Coming, Holding, Code
  <2> QED BY <1>1, <2>1 DEF vars, CountInv, Exact, Limited
<1>2. ASSUME NEW u \in Users, Consume(u) PROVE CountInv'
  <2>1. \A c : /\ Uses(c)' = Uses(c) /\ Paid(c)' = Paid(c) /\ Coming(c)' = Coming(c)
    BY <1>2 DEF Consume, Uses, Paid, Coming, Holding, Code
  <2> QED BY <1>2, <2>1 DEF Consume, CountInv, Exact, Limited
<1>3. ASSUME NEW r \in Requests, UNCHANGED <<use, count, uncounted>>, faults' = faults,
             ~ At(r, "paid"), End(r)
      PROVE  CountInv'
  <2>1. /\ request'[r].pc = "idle" /\ \A o \in Requests \ {r} : request'[o] = request[o]
    BY <1>3 DEF End, Idle, EffectInv, Types
  <2>2. \A c \in BonusCodes : r \notin Paid(c)' /\ r \notin Paid(c) /\ r \notin Coming(c)'
    BY <1>3, <2>1 DEF Paid, Coming, Holding, At
  <2> QED BY <1>3, <2>1, <2>2, CountStays
<1>4. ASSUME NEW r \in Requests, NEW u \in Users, NEW c \in Codes, Activate(r, u, c)
      PROVE  CountInv'
  BY <1>4, ActivateCounts
<1>5. ASSUME NEW r \in Requests, NEW u \in Users, Deactivate(r, u) PROVE CountInv'
  <2>1. /\ request'[r].pc = "deactivating" /\ request[r].pc = "idle"
        /\ \A o \in Requests \ {r} : request'[o] = request[o]
        /\ UNCHANGED <<use, count, uncounted, faults>>
    BY <1>5 DEF Deactivate, At, EffectInv, Types
  <2>2. \A c \in BonusCodes : r \notin Paid(c)' /\ r \notin Paid(c) /\ r \notin Coming(c)'
    BY <2>1 DEF Paid, Coming, Holding
  <2> QED BY <2>1, <2>2, CountStays
<1>6. ASSUME NEW r \in Requests, Reserve(r) \/ FlushDiscount(r) PROVE CountInv'
  <2>1. CASE End(r)
    <3>1. UNCHANGED <<use, count, uncounted>> /\ faults' = faults /\ ~ At(r, "paid")
      BY <1>6 DEF Reserve, FlushDiscount, At
    <3> QED BY <1>3, <2>1, <3>1
  <2>2. CASE ~ End(r)
    <3>1. /\ UNCHANGED <<use, count, uncounted, faults>> /\ request[r] \in Locals
          /\ request[r].pc \in {"checked", "reserved"}
          /\ \/ request' = [request EXCEPT ![r].pc = "reserved", ![r].row = rows + 1]
             \/ request' = [request EXCEPT ![r].pc = "flushed"]
      BY <1>6, <2>2 DEF Reserve, FlushDiscount, Goto, At, EffectInv, Types
    <3>2. /\ request'[r].pc \in {"reserved", "flushed"} /\ request'[r].code = request[r].code
          /\ \A o \in Requests \ {r} : request'[o] = request[o]
      BY <3>1 DEF EffectInv, Types, Locals
    <3>3. \A c \in BonusCodes : /\ r \notin Paid(c)' /\ r \notin Paid(c)
                                /\ r \in Coming(c)' => r \in Coming(c)
      BY <3>1, <3>2 DEF Paid, Coming, Holding, Code
    <3> QED BY <3>1, <3>2, <3>3, CountStays
  <2> QED BY <2>1, <2>2
<1>7. ASSUME NEW r \in Requests, PayBonus(r) PROVE CountInv'
  BY <1>7, PayCounts
<1>8. ASSUME NEW r \in Requests, RefuseDiscount(r) PROVE CountInv'
  BY <1>3, <1>8 DEF RefuseDiscount, At
<1>9. ASSUME NEW r \in Requests, Complete(r) PROVE CountInv'
  <2>1. CASE At(r, "paid")
    BY <1>9, <2>1, PaidEnds DEF Complete, At
  <2>2. CASE At(r, "flushed")
    <3>1. /\ ~ At(r, "idle") /\ Code(r) \in DiscountCodes /\ Key(r) \in Users \X Codes
      BY <2>2, KeyKnown DEF At, EffectInv, RequestsOK, RequestOK
    <3>2. /\ \A c \in BonusCodes : c # Code(r)
          /\ \A k \in Users \X BonusCodes : k # Key(r) /\ k \in Users \X Codes
      BY <3>1 DEF ConstantsOK, Key, Codes
    <3>3. /\ \A c \in BonusCodes : count'[c] = count[c]
          /\ \A k \in Users \X BonusCodes : use'[k] = use[k]
      BY <1>9, <2>2, <3>2 DEF Complete, At, EffectInv, Types, Codes
    <3> QED BY <1>9, <3>1, <3>3, DiscountCounts DEF Complete
  <2> QED BY <1>9, <2>1, <2>2 DEF Complete
<1>10. ASSUME NEW r \in Requests, ActivationFails(r) PROVE CountInv'
  <2>1. CASE At(r, "paid")
    BY <1>10, <2>1, PaidEnds DEF ActivationFails, At, Fail
  <2>2. CASE ~ At(r, "paid")
    <3>1. /\ End(r) /\ UNCHANGED <<use, count, uncounted>> /\ faults' = faults + 1
      BY <1>10, <2>2 DEF ActivationFails, At, Fail
    <3>2. /\ request'[r].pc = "idle" /\ \A o \in Requests \ {r} : request'[o] = request[o]
      BY <3>1 DEF End, Idle, EffectInv, Types
    <3>3. ASSUME NEW c \in BonusCodes PROVE Exact(c)' /\ Limited(c)'
      <4>1. r \notin Paid(c) /\ r \notin Paid(c)'
        BY <2>2, <3>2 DEF Paid, Holding, At
      <4>2. Cardinality(Paid(c))' = Cardinality(Paid(c)) /\ Uses(c)' = Uses(c)
        BY <3>1, <3>2, <4>1, HoldingMoves DEF Paid, Uses
      <4>3. faults' # 0
        BY <3>1 DEF CountInv
      <4> QED BY <3>1, <4>2, <4>3 DEF CountInv, Exact, Limited
    <3> QED BY <3>1, <3>3 DEF CountInv
  <2> QED BY <2>1, <2>2
<1>11. ASSUME NEW r \in Requests, Withdraw(r) PROVE CountInv'
  <2>1. /\ ~ At(r, "idle") /\ Code(r) \in DiscountCodes /\ Key(r) \in Users \X Codes
    BY <1>11, KeyKnown DEF Withdraw, At, EffectInv, RequestsOK, RequestOK
  <2>2. /\ \A c \in BonusCodes : c # Code(r) /\ c \in Codes
        /\ \A k \in Users \X BonusCodes : k # Key(r) /\ k \in Users \X Codes
    BY <2>1 DEF ConstantsOK, Key, Codes
  <2>3. /\ \A c \in BonusCodes : count'[c] = count[c]
        /\ \A k \in Users \X BonusCodes : use'[k] = use[k]
    BY <1>11, <2>2 DEF Withdraw, EffectInv, Types
  <2> QED BY <1>11, <2>1, <2>3, DiscountCounts DEF Withdraw
<1> QED BY <1>1, <1>2, <1>4, <1>5, <1>6, <1>7, <1>8, <1>9, <1>10, <1>11 DEF Next

(* For a code that pays a bonus the counter is exact, up to the requests that have yet
   to count and those that failed before; and requests that check the limit at once
   exceed it by no more than the others among them. *)
THEOREM BonusCountExactAlways ==
    ASSUME ConstantsOK, LimitsOK
    PROVE  Spec => []BonusCountExact
<1>1. Init => EffectInv
  BY EffectInit
<1>2. Init => CountInv
  <2> SUFFICES ASSUME Init PROVE CountInv
    OBVIOUS
  <2>1. /\ uncounted \in [Codes -> Nat] /\ faults = 0
        /\ \A c \in BonusCodes : count[c] = 0 /\ uncounted[c] = 0
    BY DEF Init, Codes
  <2>2. \A c \in BonusCodes : Uses(c) = {} /\ Paid(c) = {} /\ Coming(c) = {}
    BY DEF Init, Codes, Uses, Paid, Coming, Holding, Idle
  <2>3. Cardinality(Requests) \in Nat /\ Cardinality(Requests) # 0
    BY FS_CardinalityType, FS_EmptySet DEF LimitsOK
  <2>4. IsFiniteSet({}) /\ Cardinality({}) = 0
    BY FS_EmptySet
  <2>5. ASSUME NEW c \in BonusCodes PROVE Exact(c) /\ Limited(c)
    <3>1. /\ Uses(c) = {} /\ Cardinality(Uses(c)) = 0 /\ IsFiniteSet(Uses(c))
          /\ Cardinality(Paid(c)) = 0 /\ Cardinality(Coming(c)) = 0
      BY <2>2, <2>4
    <3>2. 0 <= MaxUses + Cardinality(Requests) - 1
      BY <2>3 DEF LimitsOK
    <3>3. Exact(c)
      BY <2>1, <3>1 DEF Exact
    <3>4. Limited(c)
      BY <2>1, <3>1, <3>2 DEF Limited
    <3> QED BY <3>3, <3>4
  <2> QED BY <2>1, <2>5 DEF CountInv
<1>3. EffectInv /\ [Next]_vars => EffectInv'
  BY EffectStep
<1>4. EffectInv /\ CountInv /\ [Next]_vars => CountInv'
  BY CountStep
<1>5. CountInv => BonusCountExact
  <2> SUFFICES ASSUME CountInv, NEW c \in BonusCodes
               PROVE  /\ count[c] + uncounted[c]
                            + Cardinality({r \in Requests : At(r, "paid") /\ Code(r) = c})
                               = Cardinality(Uses(c))
                      /\ faults = 0 => Cardinality(Uses(c)) <= MaxUses + Cardinality(Requests) - 1
    BY DEF BonusCountExact
  <2>1. Paid(c) = {r \in Requests : At(r, "paid") /\ Code(r) = c}
    BY DEF Paid, Holding, At
  <2>2. /\ IsFiniteSet(Coming(c)) /\ Exact(c) /\ Limited(c)
    BY FS_Subset DEF Coming, Holding, LimitsOK, CountInv
  <2>3. Cardinality(Coming(c)) \in Nat /\ Cardinality(Uses(c)) \in Nat
        /\ Cardinality(Requests) \in Nat /\ MaxUses \in Nat
    BY <2>2, FS_CardinalityType DEF Exact, LimitsOK
  <2> QED BY <2>1, <2>2, <2>3 DEF Exact, Limited
<1> QED BY <1>1, <1>2, <1>3, <1>4, <1>5, PTL DEF Spec

=============================================================================
