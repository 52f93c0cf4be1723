--------------------------- MODULE PanelRetryQueue ---------------------------
(***************************************************************************)
(* The retry queue for RemnaWave panel calls.  A purchase changes the      *)
(* subscription in the bot's database and then calls the panel; the call   *)
(* swallows every error and returns None.  A caller that notices puts the  *)
(* subscription into a queue in memory, and a background task works the    *)
(* queue off in batches.                                                   *)
(*                                                                         *)
(* Everything runs on one event loop: what a coroutine does between two    *)
(* awaits is one step, and other coroutines run while it waits for the     *)
(* database or the panel.                                                  *)
(***************************************************************************)
EXTENDS Integers, Sequences, FiniteSets

CONSTANTS
    Subs,          \* subscriptions
    Callers,       \* request handlers that call the panel
    Careful,       \* those that look at the result of the call
    MaxPurchases,  \* bound on the changes of one subscription
    MaxRetries,    \* max_retries
    MaxRestarts,   \* bound on restarts of the bot
    NoSub          \* no subscription

VARIABLES
    version,    \* subscription -> how often it was bought; 0 before the first
    deleted,    \* subscriptions removed from the database
    panel,      \* subscription -> the version the panel has; 0: no panel user
    queue,      \* _queue: what waits for the next batch
    batch,      \* the items of the running batch that are not done
    reading,    \* version of the subscription that the worker has read, 0 if none
    target,     \* caller -> the subscription of its running call
    verb,       \* caller -> create or update
    sends,      \* caller -> the version it is sending
    debt,       \* subscription -> has a call failed since the last success?
    abandoned,  \* subscriptions given up: «MANUAL INTERVENTION NEEDED»
    forgotten,  \* subscriptions that were in the queue at a restart
    restarts

records == <<version, deleted, panel>>
worker == <<queue, batch, reading>>
callers == <<target, verb, sends>>
history == <<debt, abandoned, forgotten, restarts>>
vars == <<records, worker, callers, history>>

Init ==
    /\ version = [s \in Subs |-> 0]
    /\ deleted = {}
    /\ panel = [s \in Subs |-> 0]
    /\ queue = <<>>
    /\ batch = <<>>
    /\ reading = 0
    /\ target = [c \in Callers |-> NoSub]
    /\ verb = [c \in Callers |-> "none"]
    /\ sends = [c \in Callers |-> 0]
    /\ debt = [s \in Subs |-> "none"]
    /\ abandoned = {}
    /\ forgotten = {}
    /\ restarts = 0
-----------------------------------------------------------------------------
SubsIn(items) == {items[i].sub : i \in DOMAIN items}

(* Mutant: every failure gets an item of its own. *)
EnqueuedAlways(s, action) ==
    Append(queue, [sub |-> s, action |-> action, attempts |-> 0])

(* The queue after enqueue(): one item for a subscription, whatever the action;
   the running batch is not looked at. *)
Enqueued(s, action) ==
    IF s \in SubsIn(queue) THEN queue
    ELSE Append(queue, [sub |-> s, action |-> action, attempts |-> 0])

(* An update needs a panel user, a creation makes one or finds it. *)
Possible(s, action) == action = "create" \/ panel[s] > 0

Hang(c) ==
    /\ target' = [target EXCEPT ![c] = NoSub]
    /\ verb' = [verb EXCEPT ![c] = "none"]
    /\ sends' = [sends EXCEPT ![c] = 0]

-----------------------------------------------------------------------------
(***************************************************************************)
(* Purchases.                                                              *)
(***************************************************************************)

(* The change is committed, then the panel is called: to create a user if the
   subscription has none, otherwise to update him; trials always create,
   renewals from a cart always update. *)
Buy(c, s, action) ==
    /\ target[c] = NoSub
    /\ s \notin deleted
    /\ version[s] < MaxPurchases
    /\ version' = [version EXCEPT ![s] = @ + 1]
    /\ target' = [target EXCEPT ![c] = s]
    /\ verb' = [verb EXCEPT ![c] = action]
    /\ sends' = [sends EXCEPT ![c] = version[s] + 1]
    /\ UNCHANGED <<deleted, panel, worker, history>>

CallSucceeds(c) ==
    /\ target[c] # NoSub
    /\ Possible(target[c], verb[c])
    /\ panel' = [panel EXCEPT ![target[c]] = sends[c]]
    /\ debt' = [debt EXCEPT ![target[c]] = "none"]
    /\ Hang(c)
    /\ UNCHANGED <<version, deleted, worker, abandoned, forgotten, restarts>>

(* The call returns None.  Only a careful caller notices; the others wait for an
   exception, and the call raises none. *)
CallFails(c) ==
    LET s == target[c] IN
    /\ s # NoSub
    /\ IF c \in Careful
          THEN /\ queue' = Enqueued(s, verb[c])
               /\ debt' = [debt EXCEPT ![s] = "noticed"]
          ELSE /\ UNCHANGED queue
               /\ debt' = [debt EXCEPT ![s] = IF @ = "noticed" THEN @ ELSE "unnoticed"]
    /\ Hang(c)
    /\ UNCHANGED <<records, batch, reading, abandoned, forgotten, restarts>>

(* Another statement of the same try block raises: every caller enqueues. *)
TryBlockRaises(c) ==
    LET s == target[c] IN
    /\ s # NoSub
    /\ queue' = Enqueued(s, verb[c])
    /\ debt' = [debt EXCEPT ![s] = "noticed"]
    /\ Hang(c)
    /\ UNCHANGED <<records, batch, reading, abandoned, forgotten, restarts>>

Delete(s) ==
    /\ s \notin deleted
    /\ version[s] > 0
    /\ deleted' = deleted \cup {s}
    /\ UNCHANGED <<version, panel, worker, callers, history>>

-----------------------------------------------------------------------------
(***************************************************************************)
(* process_pending.                                                        *)
(***************************************************************************)

StartBatch ==
    /\ batch = <<>>
    /\ queue # <<>>
    /\ batch' = queue
    /\ queue' = <<>>
    /\ UNCHANGED <<records, reading, callers, history>>

(* The item's subscription is read; if it is gone, so is the item. *)
ReadItem ==
    /\ batch # <<>>
    /\ reading = 0
    /\ LET s == Head(batch).sub IN
       IF s \in deleted
          THEN batch' = Tail(batch) /\ UNCHANGED reading
          ELSE reading' = version[s] /\ UNCHANGED batch
    /\ UNCHANGED <<records, queue, callers, history>>

RetrySucceeds ==
    /\ reading > 0
    /\ LET s == Head(batch).sub IN
       /\ Possible(s, Head(batch).action)
       /\ panel' = [panel EXCEPT ![s] = reading]
       /\ debt' = [debt EXCEPT ![s] = "none"]
    /\ batch' = Tail(batch)
    /\ reading' = 0
    /\ UNCHANGED <<version, deleted, queue, callers, abandoned, forgotten, restarts>>

(* Mutant: the attempt is not counted. *)
RequeueUncounted ==
    /\ reading > 0
    /\ queue' = Append(queue, Head(batch))
    /\ batch' = Tail(batch)
    /\ reading' = 0
    /\ UNCHANGED <<records, callers, history>>

(* Mutant: an error drops the item, as if the call had succeeded. *)
RequeueNever ==
    /\ reading > 0
    /\ batch' = Tail(batch)
    /\ reading' = 0
    /\ UNCHANGED <<records, queue, callers, history>>

(* Mutant: the last attempt is not the last. *)
RequeueOnceMore ==
    /\ reading > 0
    /\ LET item == [Head(batch) EXCEPT !.attempts = @ + 1] IN
       IF item.attempts <= MaxRetries
          THEN queue' = Append(queue, item) /\ UNCHANGED abandoned
          ELSE abandoned' = abandoned \cup {item.sub} /\ UNCHANGED queue
    /\ batch' = Tail(batch)
    /\ reading' = 0
    /\ UNCHANGED <<records, callers, debt, forgotten, restarts>>

(* _requeue: the panel is not configured, returns None or an exception escapes.
   The item goes to the end of the queue, beside whatever was enqueued while
   the batch was running, unless its attempts are used up. *)
Requeue ==
    /\ reading > 0
    /\ LET item == [Head(batch) EXCEPT !.attempts = @ + 1] IN
       IF item.attempts < MaxRetries
          THEN queue' = Append(queue, item) /\ UNCHANGED abandoned
          ELSE abandoned' = abandoned \cup {item.sub} /\ UNCHANGED queue
    /\ batch' = Tail(batch)
    /\ reading' = 0
    /\ UNCHANGED <<records, callers, debt, forgotten, restarts>>

(* The process ends, by stop() or otherwise: the queue was only in memory. *)
Restart ==
    /\ restarts < MaxRestarts
    /\ restarts' = restarts + 1
    /\ forgotten' = forgotten \cup SubsIn(queue) \cup SubsIn(batch)
    /\ queue' = <<>>
    /\ batch' = <<>>
    /\ reading' = 0
    /\ target' = [c \in Callers |-> NoSub]
    /\ verb' = [c \in Callers |-> "none"]
    /\ sends' = [c \in Callers |-> 0]
    /\ UNCHANGED <<records, debt, abandoned>>

WorkerStep == StartBatch \/ ReadItem \/ RetrySucceeds \/ Requeue

Next ==
    \/ \E c \in Callers :
          \/ \E s \in Subs, action \in {"create", "update"} : Buy(c, s, action)
          \/ CallSucceeds(c) \/ CallFails(c) \/ TryBlockRaises(c)
    \/ \E s \in Subs : Delete(s)
    \/ WorkerStep
    \/ Restart

(* The task runs a batch every interval as long as the bot lives. *)
Fairness == WF_vars(WorkerStep)

Spec == Init /\ [][Next]_vars /\ Fairness

-----------------------------------------------------------------------------
(***************************************************************************)
(* Properties.                                                             *)
(***************************************************************************)
Items == [sub : Subs, action : {"create", "update"}, attempts : 0..MaxRetries - 1]

(* The variables have their types: no item with its attempts used up waits, and
   the worker reads only items of its batch. *)
TypeOK ==
    /\ version \in [Subs -> 0..MaxPurchases]
    /\ deleted \subseteq Subs
    /\ \A s \in Subs : panel[s] \in 0..version[s]
    /\ queue \in Seq(Items)
    /\ batch \in Seq(Items)
    /\ reading \in 0..MaxPurchases
    /\ reading > 0 => batch # <<>>
    /\ target \in [Callers -> Subs \cup {NoSub}]
    /\ verb \in [Callers -> {"none", "create", "update"}]
    /\ sends \in [Callers -> 0..MaxPurchases]
    /\ debt \in [Subs -> {"none", "noticed", "unnoticed"}]
    /\ abandoned \subseteq Subs
    /\ forgotten \subseteq Subs
    /\ restarts \in 0..MaxRestarts

Held(s) == s \in SubsIn(queue) \cup SubsIn(batch)

Excused(s) == s \in abandoned \cup forgotten \cup deleted

(* A failure that its caller noticed stays in the queue or in the batch until a
   call succeeds, although purchases enqueue while a batch is running; only the
   last attempt, a deletion or a restart ends it otherwise. *)
NoticedIsKept == \A s \in Subs : debt[s] = "noticed" => Held(s) \/ Excused(s)

(* What the module's description promises: a subscription whose panel call has
   failed is retried until it succeeds or its attempts are used up. *)
FailedIsKept ==
    \A s \in Subs : debt[s] # "none" => Held(s) \/ Excused(s)

(* enqueue() does not look into the running batch, so one subscription may wait
   in several copies; but their attempts differ, so there are never more of them
   than retries. *)
CopiesDiffer ==
    \A i, j \in DOMAIN queue :
        queue[i].sub = queue[j].sub /\ i # j => queue[i].attempts # queue[j].attempts

(* With the panel down for good and purchases at an end the queue still empties:
   every item succeeds, is dropped or uses up its attempts. *)
QueueDrains == <>[](queue = <<>> /\ batch = <<>>)

=============================================================================
