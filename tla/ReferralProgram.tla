---------------------------- MODULE ReferralProgram ----------------------------
(***************************************************************************)
(* The three parts of the referral program, the promo codes and the merge  *)
(* of accounts side by side: what top-ups earn (ReferralTopup), who is     *)
(* attached to whom (ReferralAttach), how the earnings are paid out        *)
(* (Withdrawal), Promocode and AccountMerge.  Their invariants do not      *)
(* depend on each other, and in a behaviour only one part moves: the       *)
(* states to explore are the sum of the five, not their product.           *)
(*                                                                         *)
(* Payouts and promo codes come with their proofs, so that the composition *)
(* has their theorems too.                                                 *)
(***************************************************************************)
EXTENDS ReferralTopup

CONSTANTS
    Partners, Requests, Amounts, Sessions, BotSessions, MaxEarned,    \* payouts
    Referrers, Campaigns, Partner, Bonus,                             \* visits
    Customers, BonusCodes, DiscountCodes, GroupCodes, Activations, Insiders, MaxUses,
    MaxRows, MaxPromoFaults, NoUser, NoCode,                          \* codes
    Accounts, Tokens, Primary, Secondary, Providers, FirstLogins, Orders, FirstOwner, Listed,
    Mergers, Webhooks, MaxRestores, MaxMergeFaults                    \* accounts

VARIABLES
    part,        \* the one that moves
    status, asker, amount, debits, earned, balance, reqLock, ownerLock, step,
    op, target, seen, asks, funds, withdrawn,
    referrer, standing, audit, registrations, bonus, rowLock, visit, entry, want, campaign,
    known, found, written, visitFaults,
    use, codeRows, count, codeBonus, discount, members, request, uncounted, promoFaults,
    account, draft, accountLock, orderOwner, credited, orderLock, used, valid, restores,
    merges, at, job, copies, unsaved, group, moving, overlooked, mergeFaults

payoutVars == <<status, asker, amount, debits, earned, balance, reqLock, ownerLock,
                step, op, target, seen, asks, funds, withdrawn>>
visitVars == <<referrer, standing, audit, registrations, bonus, rowLock, visit, entry, want,
               campaign, known, found, written, visitFaults>>
codeVars == <<use, codeRows, count, codeBonus, discount, members, request, uncounted,
              promoFaults>>
mergeVars == <<account, draft, accountLock, orderOwner, credited, orderLock, used, valid,
               restores, merges, at, job, copies, unsaved, group, moving, overlooked,
               mergeFaults>>

W == INSTANCE WithdrawalProofs WITH Nobody <- None, userLock <- ownerLock, pc <- step

A == INSTANCE ReferralAttach WITH
        bonuses <- bonus, pc <- visit, op <- entry, seen <- known, faults <- visitFaults

P == INSTANCE PromocodeProofs WITH
        Users <- Customers, Requests <- Activations, MaxFaults <- MaxPromoFaults,
        rows <- codeRows, bonus <- codeBonus, faults <- promoFaults

M == INSTANCE AccountMerge WITH
        Users <- Accounts, GroupOrder <- Providers, Sessions <- Mergers,
        MaxFaults <- MaxMergeFaults, Nil <- None,
        rowLock <- accountLock, owner <- orderOwner, paid <- credited, payLock <- orderLock,
        spent <- used, copy <- copies, faults <- mergeFaults

AllInit ==
    /\ part \in {"rewards", "payouts", "visits", "codes", "accounts"}
    /\ Init /\ W!Init /\ A!Init /\ P!Init /\ M!Init

AllNext ==
    /\ UNCHANGED part
    /\ \/ part = "rewards" /\ Next
             /\ UNCHANGED <<payoutVars, visitVars, codeVars, mergeVars>>
       \/ part = "payouts" /\ W!Next
             /\ UNCHANGED <<vars, visitVars, codeVars, mergeVars>>
       \/ part = "visits" /\ A!Next
             /\ UNCHANGED <<vars, payoutVars, codeVars, mergeVars>>
       \/ part = "codes" /\ P!Next
             /\ UNCHANGED <<vars, payoutVars, visitVars, mergeVars>>
       \/ part = "accounts" /\ M!Next
             /\ UNCHANGED <<vars, payoutVars, visitVars, codeVars>>

AllSpec ==
    AllInit /\ [][AllNext]_<<part, vars, payoutVars, visitVars, codeVars, mergeVars>>

-----------------------------------------------------------------------------
(* The variables of the part that moves have the types, and the locks the owners, that its
   module states; the others are still in the initial state, which each part starts from
   where it moves. *)
AllTypesOK ==
    /\ part = "rewards" => TypeOK
    /\ part = "payouts" => W!TypeOK
    /\ part = "visits" => A!TypeOK
    /\ part = "codes" => P!TypeOK
    /\ part = "accounts" => M!TypeOK

(* A request is debited exactly when, and as often as, it was approved. *)
DebitedIffApproved == W!DebitedIffApproved

(* Nobody withdraws or asks for more than he has earned. *)
WithinEarnings == W!WithinEarnings

(* A link never replaces a referrer. *)
LinkNeverReplaces == A!LinkNeverReplaces

(* The cabinet adds no direct campaign to another, and a balance bonus is paid once. *)
OneCampaign == A!OneCampaign

(* The user's referrer has his audit row in the end. *)
ReferrerAnnounced == A!ReferrerAnnounced

(* Whatever a code gave is backed by a row, and a bonus by one of its own. *)
EffectHasUse == P!EffectHasUse

(* The counter of a bonus code is exact, and the limit is exceeded by little. *)
BonusCountExact == P!BonusCountExact

(* Merging accounts neither makes nor loses money. *)
MergeKeepsMoney == M!MergeKeepsMoney

(* What was merged away keeps no orders and no money. *)
NothingLeftBehind == M!NothingLeftBehind

(* A token merges once. *)
MergedOnce == M!MergedOnce

(* The logins of the account that was merged away are the other's. *)
LoginsMove == M!LoginsMove
=============================================================================
