----------------------------- MODULE AccountMerge -----------------------------
(***************************************************************************)
(* Merging two accounts of one person: execute_merge behind the one-time   *)
(* tokens of the cabinet, next to the payments that credit the accounts    *)
(* and the purchases that debit them.                                      *)
(*                                                                         *)
(* The whole merge is one transaction.  It reads both users without a      *)
(* lock, changes its copies, and flushes now and then: an UPDATE takes the *)
(* row's lock and writes what has changed in the copy.  Only when the      *)
(* second account seems to have money are the two rows locked and read     *)
(* again, and what was changed and not yet flushed is forgotten then.      *)
(***************************************************************************)
EXTENDS Integers, FiniteSetsExt

CONSTANTS
    Users,         \* ids; the UPDATEs of a flush go by growing id
    Tokens,        \* merge tokens
    Primary,       \* token -> the account that stays
    Secondary,     \* token -> the account that goes
    GroupOrder,    \* the kinds of logins (OAuth ids, telegram_id, e-mail) as they are moved
    FirstLogins,   \* user -> group -> login at the beginning, or Nil
    Orders,        \* top-ups, of one unit each
    FirstOwner,    \* order -> user who made it
    Listed,        \* those whose provider's table is one of _PAYMENT_MODELS
    Sessions,      \* slots for merge requests
    Webhooks,      \* slots for provider callbacks
    MaxRestores,   \* _MAX_MERGE_RESTORE_ATTEMPTS
    MaxFaults,     \* bound on crashes and database errors
    Nil            \* no session, token, order, user or login

VARIABLES
    account,     \* user -> committed row
    draft,       \* user -> the row as the holder of its lock sees it
    rowLock,     \* holder of the lock on each user row
    owner,       \* order -> committed user_id
    paid,        \* orders that have been credited
    payLock,     \* holder of the lock on each order's row
    spent,       \* user -> what he has spent
    valid,       \* tokens that are in Redis
    restores,    \* token -> _restore_count
    merges,      \* token -> merges committed with it
    at,          \* where each session and webhook stands
    job,         \* session -> token, webhook -> order it is at work on
    copy,        \* session -> its copies of the users
    unsaved,     \* session -> user -> changed columns that are not flushed
    group,       \* session -> position of the kind of login that is next
    moving,      \* session -> login that has left the secondary's copy
    overlooked,  \* user -> credits that came after a merge had read no money, or
                 \* to an account merged away, for an order of no listed table
    faults

rows == <<account, draft, rowLock>>
orders == <<owner, paid, payLock>>
redis == <<valid, restores>>
ghosts == <<spent, merges, overlooked, faults>>
work == <<at, job, copy, unsaved, group, moving>>
vars == <<rows, orders, redis, ghosts, work>>

Groups == {GroupOrder[i] : i \in DOMAIN GroupOrder}
Columns == Groups \cup {"balance", "deleted"}
NewAccount(u) ==
    [c \in Columns |-> CASE c = "balance" -> 0
                         [] c = "deleted" -> FALSE
                         [] OTHER -> FirstLogins[u][c]]
Clean == [u \in Users |-> {}]
Unread == [u \in Users |-> NewAccount(u)]
Handlers == Sessions \cup Webhooks

Init ==
    /\ account = [u \in Users |-> NewAccount(u)]
    /\ draft = account
    /\ rowLock = [u \in Users |-> Nil]
    /\ owner = FirstOwner
    /\ paid = {}
    /\ payLock = [o \in Orders |-> Nil]
    /\ spent = [u \in Users |-> 0]
    /\ valid = Tokens
    /\ restores = [t \in Tokens |-> 0]
    /\ merges = [t \in Tokens |-> 0]
    /\ at = [h \in Handlers |-> "idle"]
    /\ job = [h \in Handlers |-> Nil]
    /\ copy = [s \in Sessions |-> Unread]
    /\ unsaved = [s \in Sessions |-> Clean]
    /\ group = [s \in Sessions |-> 1]
    /\ moving = [s \in Sessions |-> Nil]
    /\ overlooked = [u \in Users |-> 0]
    /\ faults = 0
-----------------------------------------------------------------------------
Pri(s) == Primary[job[s]]
Sec(s) == Secondary[job[s]]

Goto(h, label) == at' = [at EXCEPT ![h] = label]

Mine(h, u) == rowLock[u] = h
Free(h, u) == rowLock[u] \in {Nil, h}

(* The row as session s sees it when it reads or writes it. *)
View(s, u) == IF Mine(s, u) THEN draft[u] ELSE account[u]

(* The copy of user u gets value v in column c, unflushed. *)
Set(s, u, c, v) ==
    /\ copy' = [copy EXCEPT ![s][u][c] = v]
    /\ unsaved' = [unsaved EXCEPT ![s][u] = @ \cup {c}]

(* The session ends: its locks go, and what it held in memory. *)
End(h) ==
    /\ rowLock' = [u \in Users |-> IF Mine(h, u) THEN Nil ELSE rowLock[u]]
    /\ payLock' = [o \in Orders |-> IF payLock[o] = h THEN Nil ELSE payLock[o]]
    /\ Goto(h, "idle")
    /\ job' = [job EXCEPT ![h] = Nil]
    /\ IF h \in Sessions
       THEN /\ copy' = [copy EXCEPT ![h] = Unread]
            /\ unsaved' = [unsaved EXCEPT ![h] = Clean]
            /\ group' = [group EXCEPT ![h] = 1]
            /\ moving' = [moving EXCEPT ![h] = Nil]
       ELSE UNCHANGED <<copy, unsaved, group, moving>>

Rollback(h) ==
    /\ End(h)
    /\ draft' = [u \in Users |-> IF Mine(h, u) THEN account[u] ELSE draft[u]]
    /\ UNCHANGED <<account, owner, paid, spent, merges, overlooked>>

(* The token comes back with what is left of its life, a few times. *)
Restore(t) ==
    IF restores[t] < MaxRestores
    THEN /\ valid' = valid \cup {t}
         /\ restores' = [restores EXCEPT ![t] = @ + 1]
    ELSE UNCHANGED redis

-----------------------------------------------------------------------------
(***************************************************************************)
(* execute_merge_endpoint and the reads of execute_merge.                  *)
(***************************************************************************)

(* Mutant: the token is read and not removed. *)
ConsumeByGet(s, t) ==
    /\ at[s] = "idle"
    /\ t \in valid
    /\ job' = [job EXCEPT ![s] = t]
    /\ Goto(s, "primary")
    /\ UNCHANGED <<rows, orders, redis, ghosts, copy, unsaved, group, moving>>

Consume(s, t) ==
    /\ at[s] = "idle"
    /\ t \in valid
    /\ valid' = valid \ {t}
    /\ job' = [job EXCEPT ![s] = t]
    /\ Goto(s, "primary")
    /\ UNCHANGED <<rows, orders, restores, ghosts, copy, unsaved, group, moving>>

ReadPrimary(s) ==
    /\ at[s] = "primary"
    /\ copy' = [copy EXCEPT ![s][Pri(s)] = account[Pri(s)]]
    /\ Goto(s, "secondary")
    /\ UNCHANGED <<rows, orders, redis, ghosts, job, unsaved, group, moving>>

ReadSecondary(s) ==
    /\ at[s] = "secondary"
    /\ copy' = [copy EXCEPT ![s][Sec(s)] = account[Sec(s)]]
    /\ Goto(s, "logins")
    /\ UNCHANGED <<rows, orders, redis, ghosts, job, unsaved, group, moving>>

Deleted(s) == copy[s][Pri(s)]["deleted"] \/ copy[s][Sec(s)]["deleted"]

(* ValueError: one of the two is deleted. *)
Refuse(s) ==
    /\ at[s] = "logins"
    /\ Deleted(s)
    /\ Rollback(s)
    /\ Restore(job[s])
    /\ UNCHANGED faults

-----------------------------------------------------------------------------
(***************************************************************************)
(* The logins.  Each group is cleared on the secondary, flushed, and set   *)
(* on the primary, which the next flush will save.                         *)
(***************************************************************************)
LoginsLeft(s) == group[s] \in DOMAIN GroupOrder
Group(s) == GroupOrder[group[s]]
Movable(s, g) == copy[s][Sec(s)][g] # Nil /\ copy[s][Pri(s)][g] = Nil

KeepLogin(s) ==
    /\ at[s] = "logins"
    /\ ~Deleted(s)
    /\ LoginsLeft(s)
    /\ ~Movable(s, Group(s))
    /\ group' = [group EXCEPT ![s] = @ + 1]
    /\ UNCHANGED <<rows, orders, redis, ghosts, at, job, copy, unsaved, moving>>

ClearLogin(s) ==
    /\ at[s] = "logins"
    /\ ~Deleted(s)
    /\ LoginsLeft(s)
    /\ Movable(s, Group(s))
    /\ moving' = [moving EXCEPT ![s] = copy[s][Sec(s)][Group(s)]]
    /\ Set(s, Sec(s), Group(s), Nil)
    /\ Goto(s, "flushing")
    /\ UNCHANGED <<rows, orders, redis, ghosts, job, group>>

(* One UPDATE of a flush, in the order of the ids. *)
Writes(s, u) ==
    /\ at[s] \in {"flushing", "saving"}
    /\ unsaved[s][u] # {}
    /\ \A v \in Users : v < u => unsaved[s][v] = {}

Written(s, u) ==
    [c \in Columns |-> IF c \in unsaved[s][u] THEN copy[s][u][c] ELSE View(s, u)[c]]

(* The login belongs to somebody already (unique index). *)
Violates(s, u) ==
    \E g \in Groups, v \in Users \ {u} :
        Written(s, u)[g] # Nil /\ Written(s, u)[g] = View(s, v)[g]

WriteRow(s, u) ==
    /\ Writes(s, u)
    /\ Free(s, u)
    /\ ~Violates(s, u)
    /\ rowLock' = [rowLock EXCEPT ![u] = s]
    /\ draft' = [draft EXCEPT ![u] = Written(s, u)]
    /\ unsaved' = [unsaved EXCEPT ![s][u] = {}]
    /\ UNCHANGED <<account, orders, redis, ghosts, at, job, copy, group, moving>>

SetLogin(s) ==
    /\ at[s] = "flushing"
    /\ unsaved[s] = Clean
    /\ Set(s, Pri(s), Group(s), moving[s])
    /\ moving' = [moving EXCEPT ![s] = Nil]
    /\ group' = [group EXCEPT ![s] = @ + 1]
    /\ Goto(s, "logins")
    /\ UNCHANGED <<rows, orders, redis, ghosts, job>>

-----------------------------------------------------------------------------
(***************************************************************************)
(* The money, the orders, and the end of the second account.               *)
(***************************************************************************)
LoginsDone(s) == at[s] = "logins" /\ ~Deleted(s) /\ ~LoginsLeft(s)

NoMoney(s) ==
    /\ LoginsDone(s)
    /\ copy[s][Sec(s)]["balance"] = 0
    /\ Goto(s, "orders")
    /\ UNCHANGED <<rows, orders, redis, ghosts, job, copy, unsaved, group, moving>>

(* lock_user_for_update: populate_existing replaces the copy, with whatever was
   changed in it and not flushed. *)
LockAndReload(s, u) ==
    /\ Free(s, u)
    /\ rowLock' = [rowLock EXCEPT ![u] = s]
    /\ copy' = [copy EXCEPT ![s][u] = View(s, u)]
    /\ unsaved' = [unsaved EXCEPT ![s][u] = {}]

LockPrimary(s) ==
    /\ LoginsDone(s)
    /\ copy[s][Sec(s)]["balance"] # 0
    /\ LockAndReload(s, Pri(s))
    /\ Goto(s, "locking")
    /\ UNCHANGED <<account, draft, orders, redis, ghosts, job, group, moving>>

(* Mutant: what was read before the lock is moved. *)
LockSecondaryStale(s) ==
    /\ at[s] = "locking"
    /\ Free(s, Sec(s))
    /\ rowLock' = [rowLock EXCEPT ![Sec(s)] = s]
    /\ Goto(s, "money")
    /\ UNCHANGED <<account, draft, orders, redis, ghosts, job, copy, unsaved, group, moving>>

LockSecondary(s) ==
    /\ at[s] = "locking"
    /\ LockAndReload(s, Sec(s))
    /\ Goto(s, "money")
    /\ UNCHANGED <<account, draft, orders, redis, ghosts, job, group, moving>>

MoveMoney(s) ==
    LET all == copy[s][Pri(s)]["balance"] + copy[s][Sec(s)]["balance"] IN
    /\ at[s] = "money"
    /\ copy' = [copy EXCEPT ![s][Pri(s)]["balance"] = all, ![s][Sec(s)]["balance"] = 0]
    /\ unsaved' = [unsaved EXCEPT ![s][Pri(s)] = @ \cup {"balance"},
                                  ![s][Sec(s)] = @ \cup {"balance"}]
    /\ Goto(s, "orders")
    /\ UNCHANGED <<rows, orders, redis, ghosts, job, group, moving>>

(* Those that a merge knows of; nine providers keep their orders in other tables. *)
OrdersOf(u) == {o \in Listed : owner[o] = u}

(* What the end of the merge changes in the second account: the status, and every
   login that is left in the copy. *)
Cleared(s) == {"deleted"} \cup {g \in Groups : copy[s][Sec(s)][g] # Nil}

(* Mutant: orders that a callback has locked are passed over. *)
ReassignFreeOrders(s) ==
    /\ at[s] = "orders"
    /\ payLock' = [o \in Orders |->
                      IF o \in OrdersOf(Sec(s)) /\ payLock[o] = Nil THEN s ELSE payLock[o]]
    /\ copy' = [copy EXCEPT ![s][Sec(s)] =
                   [c \in Columns |-> IF c = "deleted" THEN TRUE
                                      ELSE IF c \in Groups THEN Nil ELSE @[c]]]
    /\ unsaved' = [unsaved EXCEPT ![s][Sec(s)] = @ \cup Cleared(s)]
    /\ Goto(s, "saving")
    /\ UNCHANGED <<rows, owner, paid, redis, ghosts, job, group, moving>>

(* UPDATE ... SET user_id, which waits for the rows that a callback has locked;
   then the second account is marked DELETED, in memory first. *)
ReassignOrders(s) ==
    /\ at[s] = "orders"
    /\ \A o \in OrdersOf(Sec(s)) : payLock[o] = Nil
    /\ payLock' = [o \in Orders |-> IF o \in OrdersOf(Sec(s)) THEN s ELSE payLock[o]]
    /\ copy' = [copy EXCEPT ![s][Sec(s)] =
                   [c \in Columns |-> IF c = "deleted" THEN TRUE
                                      ELSE IF c \in Groups THEN Nil ELSE @[c]]]
    /\ unsaved' = [unsaved EXCEPT ![s][Sec(s)] = @ \cup Cleared(s)]
    /\ Goto(s, "saving")
    /\ UNCHANGED <<rows, owner, paid, redis, ghosts, job, group, moving>>

(* The endpoint's commit. *)
Commit(s) ==
    /\ at[s] = "saving"
    /\ unsaved[s] = Clean
    /\ account' = [u \in Users |-> View(s, u)]
    /\ owner' = [o \in Orders |-> IF payLock[o] = s THEN Pri(s) ELSE owner[o]]
    /\ merges' = [merges EXCEPT ![job[s]] = @ + 1]
    /\ End(s)
    /\ UNCHANGED <<draft, paid, redis, spent, overlooked, faults>>

(* IntegrityError, or a statement that fails otherwise: rollback, and the token
   comes back. *)
MergeFails(s) ==
    /\ Rollback(s)
    /\ Restore(job[s])

DuplicateLogin(s) ==
    /\ \E u \in Users : Writes(s, u) /\ Violates(s, u)
    /\ MergeFails(s)
    /\ UNCHANGED faults

-----------------------------------------------------------------------------
(***************************************************************************)
(* Payments and purchases: TopUp has their detail.  Here a callback locks  *)
(* the order, and then the row of the user whom the order belonged to.     *)
(***************************************************************************)
LockOrder(w, o) ==
    /\ at[w] = "idle"
    /\ o \notin paid
    /\ payLock[o] = Nil
    /\ payLock' = [payLock EXCEPT ![o] = w]
    /\ job' = [job EXCEPT ![w] = o]
    /\ Goto(w, "crediting")
    /\ UNCHANGED <<rows, owner, paid, redis, ghosts, copy, unsaved, group, moving>>

(* Some merge has seen that u has no money, and will not look again. *)
SeenPoor(u) ==
    \E s \in Sessions :
        /\ at[s] \in {"logins", "flushing", "orders", "saving"}
        /\ Sec(s) = u
        /\ copy[s][u]["balance"] = 0

(* An order that stayed with an account merged away, as its table is not listed. *)
Forgotten(o) == o \notin Listed /\ account[owner[o]]["deleted"]

Credit(w) ==
    LET u == owner[job[w]] IN
    /\ at[w] = "crediting"
    /\ rowLock[u] = Nil
    /\ account' = [account EXCEPT ![u]["balance"] = @ + 1]
    /\ draft' = [draft EXCEPT ![u]["balance"] = @ + 1]
    /\ paid' = paid \cup {job[w]}
    /\ overlooked' = [overlooked EXCEPT ![u] = @ + (IF SeenPoor(u) \/ Forgotten(job[w])
                                                      THEN 1 ELSE 0)]
    /\ payLock' = [payLock EXCEPT ![job[w]] = Nil]
    /\ job' = [job EXCEPT ![w] = Nil]
    /\ Goto(w, "idle")
    /\ UNCHANGED <<rowLock, owner, redis, spent, merges, faults, copy, unsaved, group, moving>>

(* A purchase by u, who cannot log in to an account that was merged away. *)
Spend(u) ==
    /\ rowLock[u] = Nil
    /\ account[u]["balance"] > 0
    /\ ~account[u]["deleted"]
    /\ account' = [account EXCEPT ![u]["balance"] = @ - 1]
    /\ draft' = [draft EXCEPT ![u]["balance"] = @ - 1]
    /\ spent' = [spent EXCEPT ![u] = @ + 1]
    /\ UNCHANGED <<rowLock, orders, redis, merges, overlooked, faults, work>>

-----------------------------------------------------------------------------
(***************************************************************************)
(* Faults.                                                                 *)
(***************************************************************************)
Waits(h) ==
    IF h \in Webhooks
    THEN at[h] = "crediting" /\ rowLock[owner[job[h]]] # Nil
    ELSE \/ \E u \in Users : Writes(h, u) /\ ~Free(h, u)
         \/ LoginsDone(h) /\ copy[h][Sec(h)]["balance"] # 0 /\ ~Free(h, Pri(h))
         \/ at[h] = "locking" /\ ~Free(h, Sec(h))
         \/ at[h] = "orders" /\ \E o \in OrdersOf(Sec(h)) : payLock[o] # Nil

(* A statement that waits for a lock is ended, by PostgreSQL if the waiters form
   a circle, or after command_timeout. *)
StopsWaiting(h) ==
    /\ Waits(h)
    /\ Rollback(h)
    /\ IF h \in Sessions THEN Restore(job[h]) ELSE UNCHANGED redis
    /\ UNCHANGED faults

DatabaseError(s) ==
    /\ at[s] # "idle"
    /\ faults < MaxFaults
    /\ faults' = faults + 1
    /\ MergeFails(s)

(* The process ends; a token that was consumed is gone. *)
Crash ==
    /\ faults < MaxFaults
    /\ faults' = faults + 1
    /\ rowLock' = [u \in Users |-> Nil]
    /\ payLock' = [o \in Orders |-> Nil]
    /\ draft' = account
    /\ at' = [h \in Handlers |-> "idle"]
    /\ job' = [h \in Handlers |-> Nil]
    /\ copy' = [s \in Sessions |-> Unread]
    /\ unsaved' = [s \in Sessions |-> Clean]
    /\ group' = [s \in Sessions |-> 1]
    /\ moving' = [s \in Sessions |-> Nil]
    /\ UNCHANGED <<account, owner, paid, redis, spent, merges, overlooked>>

-----------------------------------------------------------------------------
MergeStep(s) ==
    \/ \E t \in Tokens : Consume(s, t)
    \/ ReadPrimary(s) \/ ReadSecondary(s) \/ Refuse(s)
    \/ KeepLogin(s) \/ ClearLogin(s) \/ SetLogin(s)
    \/ \E u \in Users : WriteRow(s, u)
    \/ NoMoney(s) \/ LockPrimary(s) \/ LockSecondary(s) \/ MoveMoney(s)
    \/ ReassignOrders(s) \/ Commit(s)
    \/ DuplicateLogin(s) \/ DatabaseError(s)

Next ==
    \/ \E s \in Sessions : MergeStep(s)
    \/ \E w \in Webhooks : Credit(w) \/ \E o \in Orders : LockOrder(w, o)
    \/ \E u \in Users : Spend(u)
    \/ \E h \in Handlers : StopsWaiting(h)
    \/ Crash

Spec == Init /\ [][Next]_vars

-----------------------------------------------------------------------------
(***************************************************************************)
(* Properties.                                                             *)
(***************************************************************************)
Logins == {FirstLogins[u][g] : u \in Users, g \in Groups}
IsTable(t) ==
    LET groups == Groups
        logins == Logins \cup {Nil}
        columns == Columns
    IN  /\ DOMAIN t = Users
        /\ \A u \in Users :
              /\ DOMAIN t[u] = columns
              /\ \A g \in groups : t[u][g] \in logins
              /\ t[u]["balance"] \in Nat
              /\ t[u]["deleted"] \in BOOLEAN

(* The variables have their types, and a row that nobody has locked has no draft of
   its own. *)
TypeOK ==
    /\ IsTable(account)
    /\ IsTable(draft)
    /\ rowLock \in [Users -> Sessions \cup {Nil}]
    /\ \A u \in Users : rowLock[u] = Nil => draft[u] = account[u]
    /\ owner \in [Orders -> Users]
    /\ paid \subseteq Orders
    /\ payLock \in [Orders -> Handlers \cup {Nil}]
    /\ spent \in [Users -> Nat]
    /\ valid \subseteq Tokens
    /\ restores \in [Tokens -> 0..MaxRestores]
    /\ merges \in [Tokens -> Nat]
    /\ at \in [Handlers -> {"idle", "primary", "secondary", "logins", "flushing", "locking",
                            "money", "orders", "saving", "crediting"}]
    /\ job \in [Handlers -> Tokens \cup Orders \cup {Nil}]
    /\ \A s \in Sessions : IsTable(copy[s])
    /\ unsaved \in [Sessions -> [Users -> SUBSET Columns]]
    /\ group \in [Sessions -> Nat]
    /\ moving \in [Sessions -> Logins \cup {Nil}]
    /\ overlooked \in [Users -> Nat]
    /\ faults \in 0..MaxFaults

Total(f) == MapThenSumSet(LAMBDA u : f[u], Users)

(* However merges of the same account, payments, purchases and aborted transactions
   cross, no money appears and none is lost: what all accounts hold and have
   spent is what was paid. *)
MergeKeepsMoney ==
    Total([u \in Users |-> account[u]["balance"]]) + Total(spent) = Cardinality(paid)

(* An account that was merged away has no orders left in the listed tables, also none
   whose callback was at work during the merge, and no money but the credits that came
   when the merge had read that there was none, and later ones of the other tables.
   This is so unless another token makes the same account the one that stays: the
   merges ask for the status before they lock. *)
NothingLeftBehind ==
    \A u \in Users :
        account[u]["deleted"] /\ (\A t \in Tokens : Primary[t] # u) =>
            /\ account[u]["balance"] <= overlooked[u]
            /\ OrdersOf(u) = {}

(* A token merges once at most, although a failed merge puts it back and a crash may
   come at any time: it is valid, or one request has it, or it has merged; never two
   of these. *)
MergedOnce ==
    \A t \in Tokens :
        Cardinality({s \in Sessions : job[s] = t})
          + (IF t \in valid THEN 1 ELSE 0) + merges[t] <= 1

(* "Moves all data from secondary to primary": in whatever way one could log in to
   the account that was merged away, one can log in to the account that is left. *)
LoginsMove ==
    \A t \in Tokens, g \in Groups :
        merges[t] = 1 /\ FirstLogins[Secondary[t]][g] # Nil
            => account[Primary[t]][g] # Nil

=============================================================================
