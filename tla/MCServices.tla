------------------------------ MODULE MCServices ------------------------------
(***************************************************************************)
(* A small instance of the five services.                                  *)
(***************************************************************************)
EXTENDS ServicesProofs

(* One purchase is worth two, and Apple may refund it and give it back; another one
   is worth one, and is not refunded. *)
MCAmount == <<2, 1>>
MCMaxEvents == <<3, 1>>

(* The instance is one that the theorems speak of. *)
ASSUME InstanceAssumption ==
    ConstantsOK /\ ReceiptConstants /\ RenewalConstants /\ I!ConstantsOK
=============================================================================
