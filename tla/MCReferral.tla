------------------------------ MODULE MCReferral ------------------------------
(***************************************************************************)
(* A small instance of the referral program, the promo codes and the merge *)
(* of accounts.                                                            *)
(***************************************************************************)
EXTENDS ReferralProofs, TLC

CONSTANTS
    alice, bob, carol, t1, t2, t3, t4, t5,     \* users and top-ups
    c1, c2,                                  \* campaigns
    s1, s2,                                  \* sessions
    k1, k2, o1, o2                           \* merge tokens, orders

MCUsers == {alice, bob, carol}
MCTopups == {t1, t2, t3, t4, t5}
(* alice and bob invited each other, nobody invited carol. *)
Circle == [u \in MCUsers |->
              IF u = alice THEN bob ELSE IF u = bob THEN alice ELSE None]
(* Three top-ups of alice, so that a limit of one commission can be reached, one
   of bob, one of carol. *)
Owners == [t \in MCTopups |->
              IF t \in {t1, t2, t5} THEN alice ELSE IF t = t3 THEN bob ELSE carol]
(* The first campaign has no partner and gives money, the second one has a partner and
   gives a subscription. *)
PartnerOf == [c \in Campaigns |-> IF c = c1 THEN None ELSE alice]
BonusOf == [c \in Campaigns |-> IF c = c1 THEN "balance" ELSE "grant"]

(* Two persons have each been told to merge account 2 into an account of theirs.
   Account 1 has an e-mail of its own, account 3 has no login but telegram. *)
MCPrimary == [t \in {k1, k2} |-> IF t = k1 THEN 1 ELSE 3]
MCSecondary == [t \in {k1, k2} |-> 2]
MCProviders == <<"oauth", "telegram", "email">>
MCLogins ==
    <<[oauth |-> None, telegram |-> None, email |-> "one"],
      [oauth |-> "two", telegram |-> "two", email |-> None],
      [oauth |-> None, telegram |-> "three", email |-> None]>>
MCFirstOwner == [o \in {o1, o2} |-> 2]

(* The instance is one that the theorems speak of. *)
ASSUME InstanceAssumption ==
    /\ W!ConstantsOK /\ IsFiniteSet(Requests)
    /\ VisitConstants
    /\ P!ConstantsOK /\ P!LimitsOK
    /\ MoneyConstants

(* The two top-ups of alice that qualify are interchangeable, and so are the sessions, where
   none belongs to the bot, and the requests with promo codes.  In a behaviour only one
   part moves, so exchanging all of them at once does what exchanging each would. *)
Exchangeable == {t1, t2, s1, s2} \cup Activations
Exchanged(f) ==
    /\ f[t1] = t2 /\ f[t2] = t1 /\ f[s1] = s2 /\ f[s2] = s1
    /\ \A r \in Activations : f[r] \in Activations \ {r}
Interchangeable ==
    {f \in Permutations(Exchangeable) : Exchanged(f) \/ \A x \in Exchangeable : f[x] = x}
=============================================================================
