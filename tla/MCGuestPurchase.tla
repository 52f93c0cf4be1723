--------------------------- MODULE MCGuestPurchase ---------------------------
(***************************************************************************)
(* Small instances of GuestPurchase: one or two purchases of one user or   *)
(* gifts to him, a webhook slot, the monitor and up to two activations.    *)
(***************************************************************************)
EXTENDS GuestPurchase

CONSTANTS p1, p2, alice, bob, w1, w2, monitor, a1, a2, nobody

MCRecipient == [p \in Purchases |-> alice]
=============================================================================
