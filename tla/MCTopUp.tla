------------------------------ MODULE MCTopUp ------------------------------
(***************************************************************************)
(* Small instances of TopUp: two orders of one user or of two, served by   *)
(* one or two webhook slots, the auto-check loop and a manual check, next  *)
(* to one purchase from a balance.                                         *)
(***************************************************************************)
EXTENDS TopUp, TLC

CONSTANTS alice, bob, w1, w2, auto, manual, shop, nobody

OneUser == {alice}
MCPayments == {1, 2}
SameOwner == [p \in MCPayments |-> alice]
TwoUsers == {alice, bob}
OneEach == [p \in MCPayments |-> IF p = 1 THEN alice ELSE bob]
MCAmount == [p \in MCPayments |-> p]
MCBuyer == [s \in {shop} |-> alice]
MCPrice == [s \in {shop} |-> 2]

(* Webhook slots are interchangeable. *)
WebhookSymmetry == Permutations(Webhooks)

=============================================================================
