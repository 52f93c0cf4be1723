----------------------------- MODULE ReceiptQueue -----------------------------
(***************************************************************************)
(* Receipts for the tax service (NaloGO).  A payment asks for its receipt  *)
(* directly; when the service is down before anything was sent, the        *)
(* request waits in a list in Redis that a background loop, or an          *)
(* administrator's button, works off.                                      *)
(*                                                                         *)
(* The remote service may create a receipt and lose the answer.  Two marks *)
(* in Redis guard against duplicates: `created' holds the receipts that    *)
(* were answered, `queued' the payments that have an item in the list.     *)
(*                                                                         *)
(* A command of Redis may fail too.  The cache logs it and answers with    *)
(* None or False, which the callers take for `not there', `there already'  *)
(* or do not look at; the command may have been carried out all the same.  *)
(***************************************************************************)
EXTENDS Integers, Sequences, FiniteSets, FiniteSetsExt

CONSTANTS
    Payments,
    Workers,      \* runs of the queue: the loop and force_process
    MaxAttempts,  \* NALOGO_QUEUE_MAX_ATTEMPTS
    MaxCrashes,   \* bound on crashes of the bot
    MaxErrors,    \* bound on failures of Redis
    Nothing       \* no payment

(* Whoever asks for a receipt: a payment's own handler, or a worker. *)
Agents == Payments \cup Workers

VARIABLES
    receipts,   \* payment -> receipts at the tax service
    created,    \* payments with the mark nalogo:created
    queued,     \* payments with the mark nalogo:queued
    list,       \* nalogo:receipt_queue, the next one first
    doubtful,   \* payment -> records in nalogo:pending_verification
    pc,         \* where each agent stands
    job,        \* agent -> the payment it works on
    attempts,   \* worker -> the attempts its item has behind it
    blind,      \* payment -> duplicates that no mark could have prevented
    unrecorded, \* payment -> requests that may have made a receipt, with only a log line
    finished,   \* payments whose handler has committed the outcome
    refused,    \* payments whose own call failed for good and was only logged
    dropped,    \* payments whose item used up its attempts
    mislaid,    \* payments of whose item or record a write to Redis failed
    errors,
    crashes

redis == <<created, queued, list, doubtful>>
history == <<blind, unrecorded, finished, refused, dropped, mislaid, errors, crashes>>
vars == <<receipts, redis, pc, job, attempts, history>>

Init ==
    /\ receipts = [p \in Payments |-> 0]
    /\ created = {}
    /\ queued = {}
    /\ list = <<>>
    /\ doubtful = [p \in Payments |-> 0]
    /\ pc = [a \in Agents |-> "idle"]
    /\ job = [a \in Agents |-> Nothing]
    /\ attempts = [w \in Workers |-> 0]
    /\ blind = [p \in Payments |-> 0]
    /\ finished = {}
    /\ refused = {}
    /\ dropped = {}
    /\ unrecorded = [p \in Payments |-> 0]
    /\ mislaid = {}
    /\ errors = 0
    /\ crashes = 0
-----------------------------------------------------------------------------
Goto(a, label) == pc' = [pc EXCEPT ![a] = label]

(* The call is over; a payment's handler has yet to commit its outcome. *)
Return(a) ==
    /\ Goto(a, IF a \in Payments THEN "returned" ELSE "idle")
    /\ job' = [job EXCEPT ![a] = Nothing]
    /\ attempts' = [w \in Workers |-> IF w = a THEN 0 ELSE attempts[w]]

(* Another agent's request for the same payment is on its way. *)
InFlight(p) == {a \in Agents : pc[a] \in {"sending", "marking"} /\ job[a] = p}

RedisFails == errors < MaxErrors /\ errors' = errors + 1

(* The mark `created' is not there, or it cannot be read: both are None. *)
NotSeen(p) ==
    \/ p \notin created /\ UNCHANGED errors
    \/ p \in created /\ RedisFails

(* The mark `queued' is taken away, unless that fails. *)
Unqueue(p) ==
    \/ queued' = queued \ {p} /\ UNCHANGED errors
    \/ UNCHANGED queued /\ RedisFails

(* A payment's own call leaves the mark to the worker. *)
Release(a) ==
    IF a \in Workers THEN Unqueue(job[a]) ELSE UNCHANGED <<queued, errors>>

(* A write that failed, for the item or the record of payment p. *)
Mislay(p) == RedisFails /\ mislaid' = mislaid \cup {p}

-----------------------------------------------------------------------------
(* A payment asks for its receipt; after a crash it asks again. *)
Ask(p) ==
    /\ pc[p] = "idle"
    /\ p \notin finished
    /\ Goto(p, "checking")
    /\ job' = [job EXCEPT ![p] = p]
    /\ UNCHANGED <<receipts, redis, attempts, history>>

Finish(p) ==
    /\ pc[p] = "returned"
    /\ Goto(p, "idle")
    /\ finished' = finished \cup {p}
    /\ UNCHANGED <<receipts, redis, job, attempts, blind, unrecorded, refused, dropped,
                   mislaid, errors, crashes>>

(* A worker takes the oldest item; it is in no list while he works on it. *)
Pop(w) ==
    /\ pc[w] = "idle"
    /\ list # <<>>
    /\ list' = Tail(list)
    /\ LET item == Head(list) IN
       IF item.attempts >= MaxAttempts
          THEN /\ dropped' = dropped \cup {item.payment}
               /\ Unqueue(item.payment)
               /\ UNCHANGED <<pc, job, attempts>>
          ELSE /\ Goto(w, "checking")
               /\ job' = [job EXCEPT ![w] = item.payment]
               /\ attempts' = [attempts EXCEPT ![w] = item.attempts]
               /\ UNCHANGED <<dropped, queued, errors>>
    /\ UNCHANGED <<receipts, created, doubtful, blind, unrecorded, finished, refused,
                   mislaid, crashes>>

(* The item is taken from the list and does not arrive: the list looks empty. *)
PopFails(w) ==
    /\ pc[w] = "idle"
    /\ list # <<>>
    /\ list' = Tail(list)
    /\ Mislay(Head(list).payment)
    /\ UNCHANGED <<receipts, created, queued, doubtful, pc, job, attempts, blind,
                   unrecorded, finished, refused, dropped, crashes>>

-----------------------------------------------------------------------------
(***************************************************************************)
(* create_receipt.                                                         *)
(***************************************************************************)
AlreadyCreated(a) ==
    /\ pc[a] = "checking"
    /\ job[a] \in created
    /\ Release(a)
    /\ Return(a)
    /\ UNCHANGED <<receipts, created, list, doubtful, blind, unrecorded, finished, refused,
                   dropped, mislaid, crashes>>

(* The token is there, or the authentication succeeds: the request goes out, and no
   mark keeps it back from the receipts that are on their way or cannot be seen. *)
Authenticate(a) ==
    /\ pc[a] = "checking"
    /\ NotSeen(job[a])
    /\ Goto(a, "sending")
    /\ blind' = [blind EXCEPT ![job[a]] = @ + Cardinality(InFlight(job[a]))
                                            + (IF job[a] \in created THEN 1 ELSE 0)]
    /\ UNCHANGED <<receipts, redis, job, attempts, unrecorded, finished, refused, dropped,
                   mislaid, crashes>>

(* Nothing was sent; the payment's own call may queue. *)
Unavailable(a) ==
    /\ pc[a] = "checking"
    /\ NotSeen(job[a])
    /\ Goto(a, IF a \in Payments THEN "queueing" ELSE "requeueing")
    /\ UNCHANGED <<receipts, redis, job, attempts, blind, unrecorded, finished, refused,
                   dropped, mislaid, crashes>>

Answered(a) ==
    /\ pc[a] = "sending"
    /\ receipts' = [receipts EXCEPT ![job[a]] = @ + 1]
    /\ Goto(a, "marking")
    /\ UNCHANGED <<redis, job, attempts, history>>

(* Mutant: the receipt is not remembered. *)
MarkNothing(a) ==
    /\ pc[a] = "marking"
    /\ Release(a)
    /\ Return(a)
    /\ UNCHANGED <<receipts, created, list, doubtful, blind, unrecorded, finished, refused,
                   dropped, mislaid, crashes>>

(* The mark `created' is set; a worker then removes the mark `queued'. *)
Mark(a) ==
    /\ pc[a] = "marking"
    /\ created' = created \cup {job[a]}
    /\ Release(a)
    /\ Return(a)
    /\ UNCHANGED <<receipts, list, doubtful, blind, unrecorded, finished, refused, dropped,
                   mislaid, crashes>>

(* The mark `created' cannot be set, and nobody looks at the result. *)
MarkFails(a) ==
    /\ pc[a] = "marking"
    /\ RedisFails
    /\ blind' = [blind EXCEPT ![job[a]] = @ + 1]
    /\ queued' \in {queued, IF a \in Workers THEN queued \ {job[a]} ELSE queued}
    /\ Return(a)
    /\ UNCHANGED <<receipts, created, list, doubtful, unrecorded, finished, refused, dropped,
                   mislaid, crashes>>

(* The request went out; whether the service made the receipt is not known. *)
PerhapsMade(a) ==
    /\ pc[a] = "sending"
    /\ \E made \in {0, 1} : receipts' = [receipts EXCEPT ![job[a]] = @ + made]

(* The call returns None. *)
NoResult(a) ==
    IF a \in Workers THEN Goto(a, "requeueing") /\ UNCHANGED <<job, attempts>>
                     ELSE Return(a)

(* No answer came: it is recorded for an administrator, if Redis takes the record. *)
TimedOut(a) ==
    /\ PerhapsMade(a)
    /\ NoResult(a)
    /\ \/ /\ doubtful' = [doubtful EXCEPT ![job[a]] = @ + 1]
          /\ UNCHANGED <<unrecorded, mislaid, errors>>
       \/ /\ Mislay(job[a])
          /\ unrecorded' = [unrecorded EXCEPT ![job[a]] = @ + 1]
          /\ UNCHANGED doubtful
    /\ UNCHANGED <<created, queued, list, blind, finished, refused, dropped, crashes>>

(* An answer without a receipt, an unreadable one, a connection that broke, a status
   that is not taken for a pause of the service: it is logged, and nothing else. *)
Refused(a) ==
    /\ PerhapsMade(a)
    /\ NoResult(a)
    /\ unrecorded' = [unrecorded EXCEPT ![job[a]] = @ + 1]
    /\ refused' = IF a \in Payments THEN refused \cup {a} ELSE refused
    /\ UNCHANGED <<redis, blind, finished, dropped, mislaid, errors, crashes>>

-----------------------------------------------------------------------------
(***************************************************************************)
(* _queue_receipt and requeue_receipt.                                     *)
(***************************************************************************)

(* Mutant: the mark is set without looking whether it was there. *)
SetMarkAlways(p) ==
    /\ pc[p] = "queueing"
    /\ queued' = queued \cup {p}
    /\ Goto(p, "pushing")
    /\ UNCHANGED <<receipts, created, list, doubtful, job, attempts, history>>

(* Not for a receipt that exists, and not twice: SET NX on the mark `queued'. *)
SetMark(p) ==
    /\ pc[p] = "queueing"
    /\ \/ /\ p \in created \cup queued
          /\ Return(p)
          /\ UNCHANGED <<queued, errors>>
       \/ /\ p \notin queued
          /\ NotSeen(p)
          /\ queued' = queued \cup {p}
          /\ Goto(p, "pushing")
          /\ UNCHANGED <<job, attempts>>
    /\ UNCHANGED <<receipts, created, list, doubtful, blind, unrecorded, finished, refused,
                   dropped, mislaid, crashes>>

(* The command fails, set or not: that reads as `in the list already'. *)
SetMarkFails(p) ==
    /\ pc[p] = "queueing"
    /\ p \notin created
    /\ queued' \in {queued, queued \cup {p}}
    /\ Mislay(p)
    /\ Return(p)
    /\ UNCHANGED <<receipts, created, list, doubtful, blind, unrecorded, finished, refused,
                   dropped, crashes>>

Push(p) ==
    /\ pc[p] = "pushing"
    /\ list' = Append(list, [payment |-> p, attempts |-> 0])
    /\ Return(p)
    /\ UNCHANGED <<receipts, created, queued, doubtful, history>>

(* The command fails, carried out or not: the mark is taken back, and the payment's
   handler never hears of it.  Taking it back may fail with it. *)
PushFails(p) ==
    /\ pc[p] = "pushing"
    /\ list' \in {list, Append(list, [payment |-> p, attempts |-> 0])}
    /\ queued' \in {queued, queued \ {p}}
    /\ Mislay(p)
    /\ Return(p)
    /\ UNCHANGED <<receipts, created, doubtful, blind, unrecorded, finished, refused,
                   dropped, crashes>>

(* Mutant: an item that failed is not put back. *)
RequeueNot(w) ==
    /\ pc[w] = "requeueing"
    /\ Return(w)
    /\ UNCHANGED <<receipts, redis, history>>

(* Whatever the reason for None was, the item goes back to the list. *)
Requeue(w) ==
    /\ pc[w] = "requeueing"
    /\ list' = Append(list, [payment |-> job[w], attempts |-> attempts[w] + 1])
    /\ Return(w)
    /\ UNCHANGED <<receipts, created, queued, doubtful, history>>

(* The command fails and nobody looks at the result: the item is gone, its mark stays. *)
RequeueFails(w) ==
    /\ pc[w] = "requeueing"
    /\ Mislay(job[w])
    /\ Return(w)
    /\ UNCHANGED <<receipts, redis, blind, unrecorded, finished, refused, dropped, crashes>>

-----------------------------------------------------------------------------
(* Redis survives, the calls and the items in the workers' hands do not. *)
Crash ==
    /\ crashes < MaxCrashes
    /\ crashes' = crashes + 1
    /\ blind' = [p \in Payments |->
                    blind[p] + Cardinality({a \in InFlight(p) : pc[a] = "marking"})]
    /\ pc' = [a \in Agents |-> "idle"]
    /\ job' = [a \in Agents |-> Nothing]
    /\ attempts' = [w \in Workers |-> 0]
    /\ UNCHANGED <<receipts, redis, unrecorded, finished, refused, dropped, mislaid, errors>>

CreateReceipt(a) ==
    \/ AlreadyCreated(a) \/ Authenticate(a) \/ Unavailable(a)
    \/ Answered(a) \/ Mark(a) \/ MarkFails(a) \/ TimedOut(a) \/ Refused(a)

QueueReceipt(p) == SetMark(p) \/ SetMarkFails(p) \/ Push(p) \/ PushFails(p)

WorkerStep(w) ==
    Pop(w) \/ PopFails(w) \/ CreateReceipt(w) \/ Requeue(w) \/ RequeueFails(w)

Next ==
    \/ \E p \in Payments : Ask(p) \/ Finish(p) \/ CreateReceipt(p) \/ QueueReceipt(p)
    \/ \E w \in Workers : WorkerStep(w)
    \/ Crash

(* The loop runs every NALOGO_QUEUE_CHECK_INTERVAL seconds, every request has a
   timeout, and Redis comes back. *)
Fairness == \A w \in Workers : WF_vars(WorkerStep(w))

Spec == Init /\ [][Next]_vars /\ Fairness

-----------------------------------------------------------------------------
(***************************************************************************)
(* Properties.                                                             *)
(***************************************************************************)
Copies(p) ==
    Cardinality({i \in DOMAIN list : list[i].payment = p})
      + Cardinality({w \in Workers : job[w] = p})
      + (IF pc[p] = "pushing" THEN 1 ELSE 0)

(* The variables have their types; an item that waits has never more than the
   attempts it is allowed, and a receipt is marked only if it exists. *)
TypeOK ==
    /\ receipts \in [Payments -> Nat]
    /\ \A p \in created : p \in Payments /\ receipts[p] > 0
    /\ queued \subseteq Payments
    /\ list \in Seq([payment : Payments, attempts : 0..MaxAttempts])
    /\ doubtful \in [Payments -> Nat]
    /\ pc \in [Agents -> {"idle", "checking", "sending", "marking", "queueing",
                          "pushing", "requeueing", "returned"}]
    /\ job \in [Agents -> Payments \cup {Nothing}]
    /\ attempts \in [Workers -> 0..MaxAttempts]
    /\ finished \subseteq Payments
    /\ blind \in [Payments -> Nat]
    /\ unrecorded \in [Payments -> Nat]
    /\ refused \subseteq Payments
    /\ dropped \subseteq Payments
    /\ mislaid \subseteq Payments
    /\ errors \in 0..MaxErrors
    /\ crashes \in 0..MaxCrashes

(* A second receipt for a payment needs a request whose outcome was not known: one
   that is recorded for manual verification, or one of those that create_receipt only
   logs (a broken connection, a status that is not read as a pause of the service, an
   answer that cannot be read, a record that Redis did not take).  Otherwise no mark
   can have prevented it: a crash came between the answer and the mark, the mark could
   not be set or not be read, or a handler and a worker send at the same time. *)
ReceiptsExplained ==
    \A p \in Payments : receipts[p] <= 1 + doubtful[p] + unrecorded[p] + blind[p]

(* As long as no write to Redis of its item or its record fails, one payment never has
   two items, in the list or in somebody's hands, although its handler asks again after
   a crash and two workers run at once; and without a crash it is not without one before
   it is done: a payment whose handler has ended has its receipt, waits for it, is
   recorded for verification, or its failure was logged.  Marks that cannot be read,
   set or taken away do not lose it. *)
NoneForgotten ==
    \A p \in Payments \ mislaid :
        /\ Copies(p) <= 1
        /\ crashes = 0 /\ p \in finished =>
              \/ receipts[p] > 0 \/ Copies(p) > 0
              \/ doubtful[p] > 0 \/ p \in refused \cup dropped

(* The list empties, with the service down for good or not. *)
ListDrains == <>[](list = <<>>)

=============================================================================
