---------------------------- MODULE ReferralAttach ----------------------------
(***************************************************************************)
(* Who invited a user, and which advertising campaign brought him.  The    *)
(* same user may open the bot and the cabinet at the same time, by several *)
(* links; each request runs in a session of its own, and the only state    *)
(* they share is his rows.  The module follows one user, from before his   *)
(* row exists or from any later standing.                                  *)
(*                                                                         *)
(* A referrer is written in four ways: by a conditional UPDATE             *)
(* (attach_referrer_if_missing); by the registration dialog of the bot,    *)
(* which creates, restores or updates the user as its session has read     *)
(* him; by the request of the cabinet that has created the user, under the *)
(* lock of his row and after reading it again; and for the partner of a    *)
(* campaign by the cabinet, under the lock but from what the session had   *)
(* read before.  Dialog and cabinet both register a campaign; only the     *)
(* cabinet locks the row and looks for another registration.  An INSERT    *)
(* that refers to the user waits for that lock as well.                    *)
(***************************************************************************)
EXTENDS Integers

CONSTANTS
    Referrers,
    Campaigns,
    Partner,     \* campaign -> partner_user_id, None if it has none
    Bonus,       \* campaign -> "none", "balance", or "grant" for a subscription or a tariff
    Sessions,
    None,        \* no referrer, no session, nothing to do
    FaultKinds,  \* which faults may happen: "crash", "db"
    MaxFaults    \* how many faults a behaviour may contain

VARIABLES
    referrer,       \* committed users.referred_by_id
    standing,       \* committed users.status, "absent" before the row exists
    audit,          \* referrer -> committed earnings 'referral_registration_pending'
    registrations,  \* campaigns with a committed registration of the user
    bonuses,        \* campaign -> how often its bonus was paid; 1 once one was granted
    rowLock,        \* holder of the lock on the user's row
    pc,             \* where each session stands
    op,             \* session -> which entry point it serves
    want,           \* session -> the referrer it is to write and announce
    campaign,       \* session -> the campaign it is to register
    seen,           \* session -> its copy of referred_by_id
    found,          \* session -> its copy of the status
    written,        \* session -> the referrer it has flushed but not committed
    faults

tables == <<referrer, standing, audit, registrations, bonuses>>
errand == <<op, want, campaign, seen, found>>
vars == <<tables, rowLock, pc, errand, written, faults>>

Standings == {"absent", "active", "blocked", "deleted"}

Init ==
    /\ referrer = None
    /\ standing \in Standings
    /\ audit = [r \in Referrers |-> 0]
    /\ registrations = {}
    /\ bonuses = [c \in Campaigns |-> 0]
    /\ rowLock = None
    /\ pc = [s \in Sessions |-> "idle"]
    /\ op = [s \in Sessions |-> "none"]
    /\ want = [s \in Sessions |-> None]
    /\ campaign = [s \in Sessions |-> None]
    /\ seen = [s \in Sessions |-> None]
    /\ found = [s \in Sessions |-> "absent"]
    /\ written = [s \in Sessions |-> None]
    /\ faults = 0
-----------------------------------------------------------------------------
Free(s) == rowLock \in {None, s}

Unlock(s) == rowLock' = IF rowLock = s THEN None ELSE rowLock

Goto(s, label) == pc' = [pc EXCEPT ![s] = label]

(* COMMIT: a flushed referrer becomes visible, the lock is released. *)
Commit(s) ==
    /\ referrer' = IF written[s] = None THEN referrer ELSE written[s]
    /\ written' = [written EXCEPT ![s] = None]
    /\ Unlock(s)

Rollback(s) ==
    /\ written' = [written EXCEPT ![s] = None]
    /\ Unlock(s)
    /\ UNCHANGED referrer

(* A session opens: it loads the user and keeps the copy. *)
Open(s, kind, r, c, label) ==
    /\ pc[s] = "idle"
    /\ Goto(s, label)
    /\ op' = [op EXCEPT ![s] = kind]
    /\ want' = [want EXCEPT ![s] = r]
    /\ campaign' = [campaign EXCEPT ![s] = c]
    /\ seen' = [seen EXCEPT ![s] = referrer]
    /\ found' = [found EXCEPT ![s] = standing]
    /\ UNCHANGED <<tables, rowLock, written, faults>>

(* Where a session goes on when its referrer is settled: to its campaign's bonus,
   which is recorded first or, a subscription or a tariff, granted first. *)
ToCampaign(s) ==
    IF campaign[s] = None THEN "idle"
    ELSE IF Bonus[campaign[s]] = "grant" THEN "granting" ELSE "recording"

-----------------------------------------------------------------------------
(***************************************************************************)
(* attach_referrer_if_missing.                                             *)
(***************************************************************************)
OpenLink(s, r) ==
    /\ standing # "absent"
    /\ referrer = None
    /\ Open(s, "attach", r, None, "attaching")

(* Mutant: an unconditional write. *)
AttachUnconditionally(s) ==
    /\ pc[s] = "attaching"
    /\ Free(s)
    /\ referrer' = want[s]
    /\ Goto(s, "refreshing")
    /\ UNCHANGED <<standing, audit, registrations, bonuses, rowLock, errand, written, faults>>

(* UPDATE ... WHERE referred_by_id IS NULL, committed at once. *)
CompareAndSet(s) ==
    /\ pc[s] = "attaching"
    /\ Free(s)
    /\ IF referrer = None
          THEN referrer' = want[s] /\ Goto(s, "refreshing")
          ELSE UNCHANGED referrer /\ Goto(s, "idle")
    /\ UNCHANGED <<standing, audit, registrations, bonuses, rowLock, errand, written, faults>>

(* The winner reads the row again; the registration is announced only if it
   still names its referrer. *)
RefreshUser(s) ==
    /\ pc[s] = "refreshing"
    /\ Goto(s, IF referrer = want[s] THEN "announcing" ELSE "idle")
    /\ UNCHANGED <<tables, rowLock, errand, written, faults>>

-----------------------------------------------------------------------------
(***************************************************************************)
(* The registration dialog of the bot.  Its data name a referrer, a        *)
(* campaign, both or neither; a campaign's partner goes before a code.  A  *)
(* user who is active by now is shown the menu.                            *)
(***************************************************************************)
FinishDialog(s, r, c) ==
    /\ standing # "active"
    /\ c # None => Partner[c] \in {None, r}
    /\ Open(s, "dialog", r, c, "writing")

Settle(s, announced) ==
    Goto(s, IF announced /\ want[s] # None THEN "announcing" ELSE ToCampaign(s))

(* telegram_id is unique: one of two requests creates the user, the other fails. *)
CreateUser(s) ==
    /\ pc[s] = "writing" /\ found[s] = "absent"
    /\ IF standing = "absent"
          THEN referrer' = want[s] /\ standing' = "active" /\ Settle(s, TRUE)
          ELSE UNCHANGED <<referrer, standing>> /\ Goto(s, "idle")
    /\ UNCHANGED <<audit, registrations, bonuses, rowLock, errand, written, faults>>

(* A deleted user gets the referrer of the dialog, or none; the column is
   written only if that differs from the session's copy. *)
RestoreUser(s) ==
    /\ pc[s] = "writing" /\ found[s] = "deleted"
    /\ Free(s)
    /\ referrer' = IF want[s] = seen[s] THEN referrer ELSE want[s]
    /\ standing' = "active"
    /\ Settle(s, TRUE)
    /\ UNCHANGED <<audit, registrations, bonuses, rowLock, errand, written, faults>>

(* Any other user gets it only if the copy names none. *)
WriteReferrer(s) ==
    /\ pc[s] = "writing" /\ found[s] = "blocked"
    /\ Free(s)
    /\ referrer' = IF seen[s] = None /\ want[s] # None THEN want[s] ELSE referrer
    /\ standing' = "active"
    /\ Settle(s, seen[s] \in {None, want[s]})
    /\ UNCHANGED <<audit, registrations, bonuses, rowLock, errand, written, faults>>

-----------------------------------------------------------------------------
(***************************************************************************)
(* The request of the cabinet that creates the user, with or without a     *)
(* referral code, and then settles the code (_process_referral_code).      *)
(***************************************************************************)
OpenNewcomer(s, r) ==
    /\ standing = "absent"
    /\ Open(s, "code", r, None, "creating")

(* The referrer is written with the row, unless the code could not be resolved. *)
CreateInCabinet(s) ==
    /\ pc[s] = "creating"
    /\ IF standing = "absent"
          THEN /\ referrer' \in {None, want[s]}
               /\ standing' = "active"
               /\ Goto(s, IF want[s] = None THEN "idle" ELSE "admitting")
          ELSE UNCHANGED <<referrer, standing>> /\ Goto(s, "idle")
    /\ UNCHANGED <<audit, registrations, bonuses, rowLock, errand, written, faults>>

(* FOR UPDATE, and the row is read again. *)
LockNewcomer(s) ==
    /\ pc[s] = "admitting"
    /\ rowLock = None
    /\ rowLock' = s
    /\ seen' = [seen EXCEPT ![s] = referrer]
    /\ Goto(s, "coding")
    /\ UNCHANGED <<tables, op, want, campaign, found, written, faults>>

(* A referrer who is there is announced, otherwise the code's is flushed. *)
ProcessCode(s) ==
    /\ pc[s] = "coding"
    /\ IF seen[s] # None
          THEN want' = [want EXCEPT ![s] = seen[s]] /\ UNCHANGED written
          ELSE written' = [written EXCEPT ![s] = want[s]] /\ UNCHANGED want
    /\ Goto(s, "announcing")
    /\ UNCHANGED <<tables, rowLock, op, campaign, seen, found, faults>>

-----------------------------------------------------------------------------
(***************************************************************************)
(* process_referral_registration: one audit row for a user and referrer.   *)
(* A session of the cabinet that ends without a commit is rolled back.     *)
(***************************************************************************)
LookForAudit(s) ==
    /\ pc[s] = "announcing"
    /\ \/ /\ audit[want[s]] = 0
          /\ Goto(s, "inserting")
          /\ UNCHANGED <<referrer, rowLock, written>>
       \/ /\ audit[want[s]] # 0
          /\ Goto(s, ToCampaign(s))
          /\ IF campaign[s] = None THEN Rollback(s) ELSE UNCHANGED <<referrer, rowLock, written>>
    /\ UNCHANGED <<standing, audit, registrations, bonuses, errand, faults>>

(* The commit in create_referral_earning also commits what the caller has
   flushed and ends the caller's lock.  On a duplicate the unique index raises
   and the caller's transaction is rolled back: its rows expire, and the request
   fails when it next reads one. *)
InsertAudit(s) ==
    /\ pc[s] = "inserting"
    /\ Free(s)
    /\ IF audit[want[s]] = 0
          THEN Commit(s) /\ audit' = [audit EXCEPT ![want[s]] = 1] /\ Goto(s, ToCampaign(s))
          ELSE Rollback(s) /\ UNCHANGED audit /\ Goto(s, "idle")
    /\ UNCHANGED <<standing, registrations, bonuses, errand, faults>>

-----------------------------------------------------------------------------
(***************************************************************************)
(* _process_campaign_bonus of the cabinet.  A deleted user is revived by   *)
(* an earlier commit of the same request; a blocked one is turned away.    *)
(***************************************************************************)
OpenCampaign(s, c) ==
    /\ standing \in {"active", "deleted"}
    /\ Open(s, "campaign", Partner[c], c, IF standing = "deleted" THEN "reviving" ELSE "locking")

ReviveUser(s) ==
    /\ pc[s] = "reviving"
    /\ Free(s)
    /\ standing' = "active"
    /\ Goto(s, "locking")
    /\ UNCHANGED <<referrer, audit, registrations, bonuses, rowLock, errand, written, faults>>

(* Mutant: the row is not locked. *)
LockUserNot(s) ==
    /\ pc[s] = "locking"
    /\ Goto(s, "checking")
    /\ UNCHANGED <<tables, rowLock, errand, written, faults>>

(* FOR UPDATE, but the session keeps the copy it has. *)
LockUser(s) ==
    /\ pc[s] = "locking"
    /\ rowLock = None
    /\ rowLock' = s
    /\ Goto(s, "checking")
    /\ UNCHANGED <<tables, errand, written, faults>>

AlreadyRegistered(s) ==
    /\ pc[s] = "checking"
    /\ registrations # {}
    /\ Unlock(s)
    /\ Goto(s, "idle")
    /\ UNCHANGED <<tables, errand, written, faults>>

(* Mutant: the partner is set, but the registration is not announced. *)
AttributeSilently(s) ==
    /\ pc[s] = "checking"
    /\ registrations = {}
    /\ written' = [written EXCEPT ![s] =
                      IF want[s] # None /\ seen[s] = None THEN want[s] ELSE @]
    /\ Goto(s, ToCampaign(s))
    /\ UNCHANGED <<tables, rowLock, errand, faults>>

(* The campaign's partner becomes the referrer of a user who, as far as the
   session knows, has none. *)
AttributeToPartner(s) ==
    /\ pc[s] = "checking"
    /\ registrations = {}
    /\ IF want[s] # None /\ seen[s] = None
          THEN /\ written' = [written EXCEPT ![s] = want[s]]
               /\ Goto(s, "announcing")
          ELSE /\ UNCHANGED written
               /\ Goto(s, ToCampaign(s))
    /\ UNCHANGED <<tables, rowLock, errand, faults>>

-----------------------------------------------------------------------------
(***************************************************************************)
(* apply_campaign_bonus, in a session of the cabinet or of the dialog.     *)
(***************************************************************************)

(* A subscription or a tariff is granted, and committed, before anything is
   recorded; the lock ends here.  A subscription that is there already may end
   the visit or be extended, as the tariffs are set up. *)
GrantBonus(s) ==
    /\ pc[s] = "granting"
    /\ Free(s)
    /\ \/ /\ Commit(s)
          /\ bonuses' = [bonuses EXCEPT ![campaign[s]] = 1]
          /\ Goto(s, "recording")
       \/ /\ Rollback(s)
          /\ Goto(s, "idle")
          /\ UNCHANGED bonuses
    /\ UNCHANGED <<standing, audit, registrations, errand, faults>>

(* record_campaign_registration: unique for the user and the campaign, and
   committed, if it is new, before a bonus on the balance is paid. *)
RecordRegistration(s) ==
    /\ pc[s] = "recording"
    /\ Free(s)
    /\ IF campaign[s] \in registrations
          THEN /\ Rollback(s) /\ UNCHANGED registrations
               /\ Goto(s, "idle")
          ELSE /\ Commit(s) /\ registrations' = registrations \cup {campaign[s]}
               /\ Goto(s, IF Bonus[campaign[s]] = "balance" THEN "paying" ELSE "idle")
    /\ UNCHANGED <<standing, audit, bonuses, errand, faults>>

PayBonus(s) ==
    /\ pc[s] = "paying"
    /\ Free(s)
    /\ bonuses' = [bonuses EXCEPT ![campaign[s]] = @ + 1]
    /\ Goto(s, "idle")
    /\ UNCHANGED <<referrer, standing, audit, registrations, rowLock, errand, written, faults>>

-----------------------------------------------------------------------------
(* A statement fails: what was flushed is undone, the request is over. *)
DatabaseError(s) ==
    /\ "db" \in FaultKinds /\ faults < MaxFaults
    /\ faults' = faults + 1
    /\ pc[s] # "idle"
    /\ Rollback(s)
    /\ Goto(s, "idle")
    /\ UNCHANGED <<standing, audit, registrations, bonuses, errand>>

Crash ==
    /\ "crash" \in FaultKinds /\ faults < MaxFaults
    /\ faults' = faults + 1
    /\ rowLock' = None
    /\ pc' = [s \in Sessions |-> "idle"]
    /\ written' = [s \in Sessions |-> None]
    /\ UNCHANGED <<tables, errand>>

LinkStep(s) ==
    \/ \E r \in Referrers : OpenLink(s, r)
    \/ CompareAndSet(s) \/ RefreshUser(s)
    \/ LookForAudit(s) \/ InsertAudit(s)

DialogStep(s) ==
    \/ \E r \in Referrers \cup {None}, c \in Campaigns \cup {None} : FinishDialog(s, r, c)
    \/ CreateUser(s) \/ RestoreUser(s) \/ WriteReferrer(s)

NewcomerStep(s) ==
    \/ \E r \in Referrers \cup {None} : OpenNewcomer(s, r)
    \/ CreateInCabinet(s) \/ LockNewcomer(s) \/ ProcessCode(s)

CampaignStep(s) ==
    \/ \E c \in Campaigns : OpenCampaign(s, c)
    \/ ReviveUser(s) \/ LockUser(s) \/ AlreadyRegistered(s) \/ AttributeToPartner(s)
    \/ GrantBonus(s) \/ RecordRegistration(s) \/ PayBonus(s)

Next ==
    \/ \E s \in Sessions :
          LinkStep(s) \/ DialogStep(s) \/ NewcomerStep(s) \/ CampaignStep(s) \/ DatabaseError(s)
    \/ Crash

Spec == Init /\ [][Next]_vars

-----------------------------------------------------------------------------
(***************************************************************************)
(* Properties.                                                             *)
(***************************************************************************)
PcStates == {"idle", "attaching", "refreshing", "writing", "creating", "admitting", "coding",
             "announcing", "inserting", "reviving", "locking", "checking", "granting",
             "recording", "paying"}

(* The variables have their types; a referrer is flushed and not committed only
   under the lock; and there is one audit row at most for each referrer,
   whatever entry points race. *)
TypeOK ==
    /\ referrer \in Referrers \cup {None}
    /\ standing \in Standings
    /\ audit \in [Referrers -> {0, 1}]
    /\ registrations \subseteq Campaigns
    /\ bonuses \in [Campaigns -> Nat]
    /\ rowLock \in Sessions \cup {None}
    /\ pc \in [Sessions -> PcStates]
    /\ op \in [Sessions -> {"none", "attach", "dialog", "code", "campaign"}]
    /\ want \in [Sessions -> Referrers \cup {None}]
    /\ campaign \in [Sessions -> Campaigns \cup {None}]
    /\ seen \in [Sessions -> Referrers \cup {None}]
    /\ found \in [Sessions -> Standings]
    /\ written \in [Sessions -> Referrers \cup {None}]
    /\ \A s \in Sessions : written[s] # None => rowLock = s
    /\ faults \in 0..MaxFaults

(* Links opened at once: the first keeps the user, and so does the request that
   created him.  A referrer is replaced only by the dialog and the campaign
   route, which write what they read earlier. *)
LinkNeverReplaces ==
    [][referrer # None /\ referrer' # referrer =>
          \E s \in Sessions : op[s] \in {"dialog", "campaign"} /\ pc'[s] # pc[s]]_vars

(* The campaigns that the cabinet registers by its first commit after the look. *)
Direct(c) == Partner[c] = None /\ Bonus[c] # "grant"

(* A direct campaign becomes a second one only by the dialog, which does not look:
   for the cabinet the lock makes the look and the insert one step, and the
   dialog's insert waits for it.  And whoever registers, a bonus on the balance is
   paid once and not without its registration; a grant may be given again, but
   nothing is registered without it. *)
OneCampaign ==
    [][/\ \A c \in registrations' \ registrations :
             Direct(c) /\ registrations # {} =>
                \E s \in Sessions : op[s] = "dialog" /\ campaign[s] = c /\ pc[s] = "recording"
       /\ \A c \in Campaigns :
             LET registered == IF c \in registrations' THEN 1 ELSE 0
             IN  IF Bonus[c] = "grant" THEN registered <= bonuses'[c]
                                       ELSE bonuses'[c] <= registered]_vars

(* When every request is served and nothing has failed, the user's referrer has
   the audit row that the first top-up looks for. *)
ReferrerAnnounced ==
    faults = 0 /\ (\A s \in Sessions : pc[s] = "idle") =>
        referrer = None \/ audit[referrer] = 1

=============================================================================
