---------------------------- MODULE ServicesProofs ----------------------------
(***************************************************************************)
(* Proofs about the services, one after the other: the retry queue for     *)
(* panel calls, the queue of tax receipts, the daily tariffs, the renewals *)
(* and Apple's purchases (proved in AppleIapProofs; here they are carried  *)
(* over to the composition).                                               *)
(*                                                                         *)
(* The last four are stated of AllSpec, the behaviours of the composition: *)
(* a step of it is a step of the service in hand or leaves its variables   *)
(* alone.                                                                  *)
(***************************************************************************)
EXTENDS Services, SequenceTheorems, FiniteSetTheorems, TLAPS

(* What the proofs ask of the constants. *)
ConstantsOK ==
    /\ NoSub \notin Subs
    /\ MaxPurchases \in Nat
    /\ MaxRetries \in Nat \ {0}
    /\ MaxRestarts \in Nat

(* A running call has a verb and sends a version that was bought. *)
Sending == \A c \in Callers : target[c] # NoSub =>
    verb[c] \in {"create", "update"} /\ sends[c] <= version[target[c]]

(* The version that the worker has read was bought as well. *)
Reading == reading > 0 => reading <= version[Head(batch).sub]

TypeInv == TypeOK /\ Sending /\ Reading

-----------------------------------------------------------------------------
(* The tail of a non-empty sequence, element by element. *)
LEMMA TailElements ==
    ASSUME NEW S, NEW s \in Seq(S), s # <<>>
    PROVE  /\ Head(s) \in S
           /\ Head(s) = s[1]
           /\ 1 \in DOMAIN s
           /\ Tail(s) \in Seq(S)
           /\ \A i \in DOMAIN Tail(s) : i + 1 \in DOMAIN s /\ Tail(s)[i] = s[i + 1]
           /\ \A i \in DOMAIN s \ {1} : i - 1 \in DOMAIN Tail(s) /\ Tail(s)[i - 1] = s[i]
BY HeadTailProperties

(* A sequence with one element more, element by element. *)
LEMMA AppendElements ==
    ASSUME NEW S, NEW s \in Seq(S), NEW e \in S
    PROVE  /\ Append(s, e) \in Seq(S)
           /\ DOMAIN Append(s, e) = DOMAIN s \cup {Len(s) + 1}
           /\ Len(s) + 1 \notin DOMAIN s
           /\ \A i \in DOMAIN s : Append(s, e)[i] = s[i]
           /\ Append(s, e)[Len(s) + 1] = e
BY AppendProperties

(* The subscriptions in a tail, and in a longer sequence. *)
LEMMA SubsInTail ==
    ASSUME NEW s \in Seq(Items), s # <<>>
    PROVE  SubsIn(s) = {Head(s).sub} \cup SubsIn(Tail(s))
<1> DEFINE t == Tail(s)
<1>1. \A i \in DOMAIN t : i + 1 \in DOMAIN s /\ t[i] = s[i + 1]
  BY TailElements
<1> QED BY TailElements DEF SubsIn

(* What an append adds. *)
LEMMA SubsInAppend ==
    ASSUME NEW s \in Seq(Items), NEW e \in Items
    PROVE  SubsIn(Append(s, e)) = SubsIn(s) \cup {e.sub}
BY AppendElements DEF SubsIn

(* What enqueue() makes of the queue. *)
LEMMA EnqueuedCases ==
    ASSUME ConstantsOK, queue \in Seq(Items),
           NEW s \in Subs, NEW a \in {"create", "update"}
    PROVE  /\ Enqueued(s, a) \in Seq(Items)
           /\ SubsIn(Enqueued(s, a)) = SubsIn(queue) \cup {s}
           /\ s \in SubsIn(queue) => Enqueued(s, a) = queue
<1> DEFINE e == [sub |-> s, action |-> a, attempts |-> 0]
<1>1. e \in Items /\ e.sub = s
  BY DEF ConstantsOK, Items
<1> HIDE DEF e
<1>2. CASE s \in SubsIn(queue)
  BY <1>2 DEF Enqueued
<1>3. CASE s \notin SubsIn(queue)
  <2>1. Enqueued(s, a) = Append(queue, e)
    BY <1>3 DEF Enqueued, e
  <2> QED BY <1>1, <1>3, <2>1, SubsInAppend, AppendElements
<1> QED BY <1>2, <1>3

(* An item that failed once more, while it has an attempt left, is an item. *)
LEMMA RequeuedItem ==
    ASSUME ConstantsOK, NEW e \in Items
    PROVE  LET item == [e EXCEPT !.attempts = @ + 1] IN
           /\ item.sub = e.sub
           /\ item.attempts = e.attempts + 1
           /\ item.attempts < MaxRetries => item \in Items
BY DEF ConstantsOK, Items

-----------------------------------------------------------------------------
(* What the worker finds at the head of its batch. *)
LEMMA HeadItem ==
    ASSUME batch \in Seq(Items), batch # <<>>
    PROVE  /\ Head(batch) \in Items
           /\ Head(batch).sub \in Subs
           /\ Head(batch).attempts \in Nat
           /\ Tail(batch) \in Seq(Items)
<1>1. Head(batch) \in Items /\ Tail(batch) \in Seq(Items)
  BY TailElements
<1>2. \A e \in Items : e.sub \in Subs /\ e.attempts \in Nat
  BY DEF Items
<1> QED BY <1>1, <1>2

(* The items are about subscriptions. *)
LEMMA SubsInSubs ==
    ASSUME NEW s \in Seq(Items)
    PROVE  SubsIn(s) \subseteq Subs
<1>1. SUFFICES ASSUME NEW i \in DOMAIN s PROVE s[i].sub \in Subs
  BY DEF SubsIn
<1>2. s[i] \in Items
  BY ElementOfSeq
<1> QED BY <1>2 DEF Items

(* The initial state has the types. *)
LEMMA TypeInit == ASSUME ConstantsOK, Init PROVE TypeInv
BY EmptySeq DEF ConstantsOK, Init, TypeInv, TypeOK, Sending, Reading

(* Every step of a caller keeps the types. *)
LEMMA CallerType ==
    ASSUME ConstantsOK, TypeInv, NEW c \in Callers,
           \/ \E s \in Subs, a \in {"create", "update"} : Buy(c, s, a)
           \/ CallSucceeds(c) \/ CallFails(c) \/ TryBlockRaises(c)
    PROVE  TypeInv'
<1> USE DEF ConstantsOK, TypeInv, TypeOK, Sending, Reading
<1>1. ASSUME NEW s \in Subs, NEW a \in {"create", "update"}, Buy(c, s, a)
      PROVE  TypeInv'
  <2>1. TypeOK'
    BY <1>1 DEF Buy, records, worker, history
  <2>2. Sending'
    BY <1>1 DEF Buy
  <2>3. Reading'
    <3>1. batch' = batch /\ reading' = reading
      BY <1>1 DEF Buy, worker
    <3>2. reading > 0 => Head(batch).sub \in Subs
      BY HeadItem
    <3>3. \A t \in Subs : version[t] <= version'[t]
      BY <1>1 DEF Buy
    <3>4. version' \in [Subs -> Nat]
      BY <1>1 DEF Buy
    <3> QED BY <3>1, <3>2, <3>3, <3>4
  <2> QED BY <2>1, <2>2, <2>3
<1>2. CASE CallSucceeds(c)
  BY <1>2 DEF CallSucceeds, Hang, worker
<1>3. CASE CallFails(c)
  <2>1. target[c] \in Subs /\ verb[c] \in {"create", "update"}
    BY <1>3 DEF CallFails
  <2>2. queue' \in Seq(Items)
    BY <1>3, <2>1, EnqueuedCases DEF CallFails
  <2>3. debt' \in [Subs -> {"none", "noticed", "unnoticed"}]
    BY <1>3, <2>1 DEF CallFails
  <2> QED BY <1>3, <2>2, <2>3 DEF CallFails, Hang, records
<1>4. CASE TryBlockRaises(c)
  <2>1. target[c] \in Subs /\ verb[c] \in {"create", "update"}
    BY <1>4 DEF TryBlockRaises
  <2>2. queue' \in Seq(Items)
    BY <1>4, <2>1, EnqueuedCases DEF TryBlockRaises
  <2> QED BY <1>4, <2>2 DEF TryBlockRaises, Hang, records
<1> QED BY <1>1, <1>2, <1>3, <1>4

(* A failed retry: the item waits again with one attempt more, or it is given
   up. *)
LEMMA RequeueCases ==
    ASSUME ConstantsOK, TypeInv, Requeue
    PROVE  /\ queue' \in Seq(Items) /\ abandoned' \subseteq Subs
           /\ \/ /\ abandoned' = abandoned
                 /\ \E e \in Items :
                       /\ e.sub = Head(batch).sub
                       /\ e.attempts = Head(batch).attempts + 1
                       /\ queue' = Append(queue, e)
              \/ /\ queue' = queue
                 /\ abandoned' = abandoned \cup {Head(batch).sub}
<1> DEFINE item == [Head(batch) EXCEPT !.attempts = @ + 1]
<1>1. batch \in Seq(Items) /\ batch # <<>> /\ queue \in Seq(Items) /\ abandoned \subseteq Subs
  BY DEF Requeue, TypeInv, TypeOK
<1>2. Head(batch) \in Items /\ Head(batch).sub \in Subs
  BY <1>1, HeadItem
<1>3. /\ item.sub = Head(batch).sub
      /\ item.attempts = Head(batch).attempts + 1
      /\ item.attempts < MaxRetries => item \in Items
  BY <1>2, RequeuedItem
<1>4. IF item.attempts < MaxRetries
        THEN queue' = Append(queue, item) /\ abandoned' = abandoned
        ELSE abandoned' = abandoned \cup {item.sub} /\ queue' = queue
  BY DEF Requeue
<1> HIDE DEF item
<1>5. CASE item.attempts < MaxRetries
  <2>1. item \in Items /\ queue' = Append(queue, item) /\ abandoned' = abandoned
    BY <1>3, <1>4, <1>5
  <2>2. queue' \in Seq(Items)
    BY <1>1, <2>1, AppendElements
  <2> QED BY <1>1, <1>3, <2>1, <2>2
<1>6. CASE ~(item.attempts < MaxRetries)
  <2>1. queue' = queue /\ abandoned' = abandoned \cup {Head(batch).sub}
    BY <1>3, <1>4, <1>6
  <2> QED BY <1>1, <1>2, <2>1
<1> QED BY <1>5, <1>6

(* Every other step keeps the types. *)
LEMMA WorkerType ==
    ASSUME ConstantsOK, TypeInv, WorkerStep \/ Restart \/ \E s \in Subs : Delete(s)
    PROVE  TypeInv'
<1> USE DEF ConstantsOK, TypeInv, TypeOK, Sending, Reading
<1>1. CASE StartBatch
  BY <1>1, EmptySeq DEF StartBatch, records, callers, history
<1>2. CASE ReadItem
  <2>1. Head(batch).sub \in Subs /\ Tail(batch) \in Seq(Items)
    BY <1>2, HeadItem DEF ReadItem
  <2>2. CASE Head(batch).sub \in deleted
    <3>1. batch' = Tail(batch) /\ reading' = 0
      BY <1>2, <2>2 DEF ReadItem
    <3> QED BY <1>2, <2>1, <3>1 DEF ReadItem, records, callers, history
  <2>3. CASE Head(batch).sub \notin deleted
    <3>1. batch' = batch /\ batch # <<>> /\ reading' = version[Head(batch).sub]
      BY <1>2, <2>3 DEF ReadItem
    <3>2. Reading' /\ reading' \in 0..MaxPurchases
      BY <1>2, <2>1, <3>1 DEF ReadItem, records
    <3> QED BY <1>2, <3>1, <3>2 DEF ReadItem, records, callers, history
  <2> QED BY <2>2, <2>3
<1>3. CASE RetrySucceeds
  <2>1. Head(batch).sub \in Subs /\ Tail(batch) \in Seq(Items)
    BY <1>3, HeadItem DEF RetrySucceeds
  <2>2. debt' \in [Subs -> {"none", "noticed", "unnoticed"}]
    BY <1>3, <2>1 DEF RetrySucceeds
  <2>3. \A s \in Subs : panel'[s] \in 0..version[s]
    BY <1>3, <2>1 DEF RetrySucceeds
  <2> QED BY <1>3, <2>1, <2>2, <2>3 DEF RetrySucceeds, callers
<1>4. CASE Requeue
  <2>1. /\ Head(batch).sub \in Subs /\ Tail(batch) \in Seq(Items)
        /\ batch' = Tail(batch) /\ reading' = 0
    BY <1>4, HeadItem DEF Requeue
  <2>2. queue' \in Seq(Items) /\ abandoned' \subseteq Subs
    BY <1>4, RequeueCases
  <2>3. UNCHANGED <<version, deleted, panel, target, verb, sends, debt, forgotten, restarts>>
    BY <1>4 DEF Requeue, records, callers
  <2>4. TypeOK'
    BY <2>1, <2>2, <2>3
  <2>5. Sending' /\ Reading'
    BY <2>1, <2>3
  <2> QED BY <2>4, <2>5
<1>5. CASE Restart
  <2>1. SubsIn(queue) \subseteq Subs /\ SubsIn(batch) \subseteq Subs
    BY SubsInSubs
  <2> QED BY <1>5, <2>1, EmptySeq DEF Restart, records
<1>6. ASSUME NEW s \in Subs, Delete(s) PROVE TypeInv'
  BY <1>6 DEF Delete, worker, callers, history
<1> QED BY <1>1, <1>2, <1>3, <1>4, <1>5, <1>6 DEF WorkerStep

(* No step leaves the types. *)
LEMMA TypeNext == ASSUME ConstantsOK, TypeInv, [Next]_vars PROVE TypeInv'
<1>1. CASE Next
  BY <1>1, CallerType, WorkerType DEF Next
<1>2. CASE UNCHANGED vars
  BY <1>2 DEF vars, records, worker, callers, history, TypeInv, TypeOK, Sending, Reading
<1> QED BY <1>1, <1>2

(* The variables have their types in every behaviour: no item waits with its
   attempts used up, and the worker works only on items of its batch. *)
THEOREM TypeCorrect == ASSUME ConstantsOK PROVE Spec => []TypeOK
<1>1. Init => TypeInv
  BY TypeInit
<1>2. TypeInv /\ [Next]_vars => TypeInv'
  BY TypeNext
<1>3. TypeInv => TypeOK
  BY DEF TypeInv
<1> QED BY <1>1, <1>2, <1>3, PTL DEF Spec

-----------------------------------------------------------------------------
(* No step of a caller loses what is noticed: enqueue() keeps what is in the
   queue and adds the subscription whose call failed. *)
LEMMA CallerKeeps ==
    ASSUME ConstantsOK, TypeInv, NoticedIsKept, NEW c \in Callers,
           \/ \E s \in Subs, a \in {"create", "update"} : Buy(c, s, a)
           \/ CallSucceeds(c) \/ CallFails(c) \/ TryBlockRaises(c)
    PROVE  NoticedIsKept'
<1>1. /\ queue \in Seq(Items) /\ debt \in [Subs -> {"none", "noticed", "unnoticed"}]
      /\ target[c] # NoSub => target[c] \in Subs /\ verb[c] \in {"create", "update"}
  BY DEF TypeInv, TypeOK, Sending
<1>2. ASSUME NEW s \in Subs, NEW a \in {"create", "update"}, Buy(c, s, a)
      PROVE  NoticedIsKept'
  BY <1>2 DEF Buy, worker, history, NoticedIsKept, Held, Excused, SubsIn
<1>3. CASE CallSucceeds(c)
  BY <1>1, <1>3 DEF CallSucceeds, worker, NoticedIsKept, Held, Excused, SubsIn
<1>4. CASE CallFails(c) /\ c \notin Careful
  BY <1>1, <1>4 DEF CallFails, records, NoticedIsKept, Held, Excused, SubsIn
<1>5. CASE (CallFails(c) /\ c \in Careful) \/ TryBlockRaises(c)
  <2>1. /\ target[c] \in Subs /\ verb[c] \in {"create", "update"}
        /\ queue' = Enqueued(target[c], verb[c])
        /\ debt' = [debt EXCEPT ![target[c]] = "noticed"]
        /\ batch' = batch /\ deleted' = deleted
        /\ abandoned' = abandoned /\ forgotten' = forgotten
    BY <1>1, <1>5 DEF CallFails, TryBlockRaises, records
  <2>2. SubsIn(queue') = SubsIn(queue) \cup {target[c]}
    BY <1>1, <2>1, EnqueuedCases
  <2>3. SubsIn(queue)' = SubsIn(queue') /\ SubsIn(batch)' = SubsIn(batch)
    BY <2>1 DEF SubsIn
  <2> QED BY <1>1, <2>1, <2>2, <2>3 DEF NoticedIsKept, Held, Excused
<1> QED BY <1>2, <1>3, <1>4, <1>5

(* No step of the worker loses it, nor does a deletion or a restart: the item
   goes on to the batch and back to the queue until its call succeeds. *)
LEMMA WorkerKeeps ==
    ASSUME ConstantsOK, TypeInv, NoticedIsKept,
           WorkerStep \/ Restart \/ \E s \in Subs : Delete(s)
    PROVE  NoticedIsKept'
<1>1. /\ queue \in Seq(Items) /\ batch \in Seq(Items)
      /\ debt \in [Subs -> {"none", "noticed", "unnoticed"}]
      /\ reading > 0 => batch # <<>>
  BY DEF TypeInv, TypeOK
<1>2. batch # <<>> => Head(batch).sub \in Subs /\
                     SubsIn(batch) = {Head(batch).sub} \cup SubsIn(Tail(batch))
  BY <1>1, HeadItem, SubsInTail
<1>3. CASE StartBatch
  <2>1. batch' = queue /\ batch = <<>> /\ debt' = debt
        /\ abandoned' = abandoned /\ forgotten' = forgotten /\ deleted' = deleted
    BY <1>3 DEF StartBatch, history, records
  <2>2. SubsIn(batch)' = SubsIn(queue) /\ SubsIn(batch) = {}
    BY <2>1 DEF SubsIn
  <2> QED BY <2>1, <2>2 DEF NoticedIsKept, Held, Excused
<1>4. CASE ReadItem
  <2>1. /\ batch # <<>> /\ queue' = queue /\ debt' = debt
        /\ abandoned' = abandoned /\ forgotten' = forgotten /\ deleted' = deleted
        /\ batch' = batch \/ (batch' = Tail(batch) /\ Head(batch).sub \in deleted)
    BY <1>4 DEF ReadItem, history, records
  <2>2. SubsIn(queue)' = SubsIn(queue) /\ SubsIn(batch)' = SubsIn(batch')
    BY <2>1 DEF SubsIn
  <2> QED BY <1>2, <2>1, <2>2 DEF NoticedIsKept, Held, Excused
<1>5. CASE RetrySucceeds
  <2>1. /\ batch # <<>> /\ queue' = queue /\ batch' = Tail(batch)
        /\ debt' = [debt EXCEPT ![Head(batch).sub] = "none"]
        /\ abandoned' = abandoned /\ forgotten' = forgotten /\ deleted' = deleted
    BY <1>1, <1>5 DEF RetrySucceeds
  <2>2. SubsIn(queue)' = SubsIn(queue) /\ SubsIn(batch)' = SubsIn(Tail(batch))
    BY <2>1 DEF SubsIn
  <2> QED BY <1>1, <1>2, <2>1, <2>2 DEF NoticedIsKept, Held, Excused
<1>6. CASE Requeue
  <2>1. /\ batch # <<>> /\ batch' = Tail(batch) /\ debt' = debt
        /\ forgotten' = forgotten /\ deleted' = deleted
    BY <1>1, <1>6 DEF Requeue, records
  <2>2. SubsIn(batch)' = SubsIn(Tail(batch))
    BY <2>1 DEF SubsIn
  <2>3. \/ SubsIn(queue)' = SubsIn(queue) \cup {Head(batch).sub} /\ abandoned' = abandoned
        \/ SubsIn(queue)' = SubsIn(queue)
           /\ abandoned' = abandoned \cup {Head(batch).sub}
    <3>1. CASE queue' = queue /\ abandoned' = abandoned \cup {Head(batch).sub}
      BY <3>1 DEF SubsIn
    <3>2. ASSUME NEW e \in Items, e.sub = Head(batch).sub, queue' = Append(queue, e),
                 abandoned' = abandoned
          PROVE  SubsIn(queue)' = SubsIn(queue) \cup {Head(batch).sub}
      <4>1. SubsIn(queue') = SubsIn(queue) \cup {e.sub}
        BY <1>1, <3>2, SubsInAppend
      <4>2. SubsIn(queue)' = SubsIn(queue')
        BY DEF SubsIn
      <4> QED BY <3>2, <4>1, <4>2
    <3> QED BY <1>6, <3>1, <3>2, RequeueCases
  <2> QED BY <1>2, <2>1, <2>2, <2>3 DEF NoticedIsKept, Held, Excused
<1>7. CASE Restart
  BY <1>7 DEF Restart, records, NoticedIsKept, Held, Excused
<1>8. ASSUME NEW s \in Subs, Delete(s) PROVE NoticedIsKept'
  BY <1>8 DEF Delete, worker, history, NoticedIsKept, Held, Excused, SubsIn
<1> QED BY <1>3, <1>4, <1>5, <1>6, <1>7, <1>8 DEF WorkerStep

(* Whatever failed and was noticed waits in the queue or in the batch until a
   call succeeds, the attempts are used up, the subscription is deleted or the
   bot restarts, however purchases and batches interleave. *)
THEOREM NoticedIsKeptAlways == ASSUME ConstantsOK PROVE Spec => []NoticedIsKept
<1>1. Init => TypeInv /\ NoticedIsKept
  BY TypeInit DEF Init, NoticedIsKept
<1>2. TypeInv /\ NoticedIsKept /\ [Next]_vars => (TypeInv /\ NoticedIsKept)'
  <2>1. TypeInv /\ [Next]_vars => TypeInv'
    BY TypeNext
  <2>2. TypeInv /\ NoticedIsKept /\ Next => NoticedIsKept'
    BY CallerKeeps, WorkerKeeps DEF Next
  <2>3. NoticedIsKept /\ UNCHANGED vars => NoticedIsKept'
    BY DEF vars, records, worker, history, NoticedIsKept, Held, Excused, SubsIn
  <2> QED BY <2>1, <2>2, <2>3
<1> QED BY <1>1, <1>2, PTL DEF Spec

-----------------------------------------------------------------------------
(* Two items for one subscription differ in their attempts. *)
Distinct(items) ==
    \A i, j \in DOMAIN items :
        items[i].sub = items[j].sub /\ i # j => items[i].attempts # items[j].attempts

(* No item for s with the given attempts. *)
Lacks(items, s, n) ==
    \A i \in DOMAIN items : items[i].sub = s => items[i].attempts # n

(* No copy waits that is one attempt ahead of an item still in the batch: it
   would meet that item when its retry fails. *)
Ahead ==
    \A i \in DOMAIN batch : Lacks(queue, batch[i].sub, batch[i].attempts + 1)

CopiesInv == Distinct(queue) /\ Distinct(batch) /\ Ahead

(* Taking the first item away and adding one at the end. *)
LEMMA DistinctTail ==
    ASSUME NEW s \in Seq(Items), s # <<>>, Distinct(s)
    PROVE  Distinct(Tail(s)) /\ Lacks(Tail(s), Head(s).sub, Head(s).attempts)
<1> DEFINE t == Tail(s)
<1>1. /\ \A i \in DOMAIN t : i + 1 \in DOMAIN s /\ t[i] = s[i + 1] /\ i \in Nat \ {0}
      /\ Head(s) = s[1] /\ 1 \in DOMAIN s
  <2>1. t \in Seq(Items)
    BY TailElements
  <2>2. \A i \in DOMAIN t : i \in Nat \ {0}
    BY <2>1
  <2> QED BY <2>2, TailElements
<1> HIDE DEF t
<1>2. Distinct(t)
  <2>1. SUFFICES ASSUME NEW i \in DOMAIN t, NEW j \in DOMAIN t, t[i].sub = t[j].sub, i # j
                 PROVE  t[i].attempts # t[j].attempts
    BY DEF Distinct
  <2>2. i + 1 # j + 1
    BY <1>1, <2>1
  <2> QED BY <1>1, <2>1, <2>2 DEF Distinct
<1>3. Lacks(t, Head(s).sub, Head(s).attempts)
  <2>1. \A i \in DOMAIN t : i + 1 # 1
    BY <1>1
  <2> QED BY <1>1, <2>1 DEF Lacks, Distinct
<1> QED BY <1>2, <1>3 DEF t

(* An append of something that differs from all. *)
LEMMA DistinctAppend ==
    ASSUME NEW s \in Seq(Items), NEW e \in Items, Distinct(s), Lacks(s, e.sub, e.attempts)
    PROVE  Distinct(Append(s, e))
<1> DEFINE t == Append(s, e)
           n == Len(s) + 1
<1>1. /\ DOMAIN t = DOMAIN s \cup {n} /\ n \notin DOMAIN s
      /\ \A i \in DOMAIN s : t[i] = s[i]
      /\ t[n] = e
  BY AppendElements
<1> HIDE DEF t, n
<1>2. SUFFICES ASSUME NEW i \in DOMAIN t, NEW j \in DOMAIN t, t[i].sub = t[j].sub, i # j
               PROVE  t[i].attempts # t[j].attempts
  BY DEF Distinct, t
<1>3. CASE i \in DOMAIN s /\ j \in DOMAIN s
  BY <1>1, <1>2, <1>3 DEF Distinct
<1>4. CASE i = n \/ j = n
  BY <1>1, <1>2, <1>4 DEF Lacks
<1> QED BY <1>1, <1>3, <1>4

(* enqueue() adds an item only if there is none for the subscription, so its
   zero attempts meet no other copy and are ahead of nothing. *)
LEMMA EnqueuedDistinct ==
    ASSUME ConstantsOK, TypeInv, CopiesInv, NEW s \in Subs, NEW a \in {"create", "update"},
           queue' = Enqueued(s, a), batch' = batch
    PROVE  CopiesInv'
<1> DEFINE e == [sub |-> s, action |-> a, attempts |-> 0]
<1>1. e \in Items /\ e.sub = s /\ e.attempts = 0
  BY DEF ConstantsOK, Items
<1>2. queue \in Seq(Items) /\ batch \in Seq(Items)
  BY DEF TypeInv, TypeOK
<1>3. CASE s \in SubsIn(queue)
  <2>1. queue' = queue
    BY <1>3 DEF Enqueued
  <2> QED BY <2>1 DEF CopiesInv, Distinct, Ahead, Lacks
<1>4. CASE s \notin SubsIn(queue)
  <2>1. queue' = Append(queue, e)
    BY <1>4 DEF Enqueued
  <2> HIDE DEF e
  <2>2. Lacks(queue, e.sub, e.attempts)
    BY <1>1, <1>4 DEF Lacks, SubsIn
  <2>3. Distinct(Append(queue, e))
    BY <1>1, <1>2, <2>2, DistinctAppend DEF CopiesInv
  <2>4. ASSUME NEW i \in DOMAIN batch
        PROVE  Lacks(Append(queue, e), batch[i].sub, batch[i].attempts + 1)
    <3>1. batch[i] \in Items
      BY <1>2, <2>4, ElementOfSeq
    <3>2. batch[i].attempts \in Nat
      BY <3>1 DEF Items
    <3>3. e.attempts # batch[i].attempts + 1
      BY <1>1, <3>2
    <3>4. Lacks(queue, batch[i].sub, batch[i].attempts + 1)
      BY <2>4 DEF CopiesInv, Ahead
    <3> QED BY <1>1, <1>2, <3>3, <3>4, AppendElements DEF Lacks
  <2> QED BY <2>1, <2>3, <2>4 DEF CopiesInv, Distinct, Ahead, Lacks
<1> QED BY <1>3, <1>4

(* The item that is taken from the batch leaves the rest apart. *)
LEMMA DroppedDistinct ==
    ASSUME TypeInv, CopiesInv, batch # <<>>, batch' = Tail(batch), queue' = queue
    PROVE  CopiesInv'
<1>1. batch \in Seq(Items)
  BY DEF TypeInv, TypeOK
<1>2. Distinct(Tail(batch))
  BY <1>1, DistinctTail DEF CopiesInv
<1>3. \A i \in DOMAIN Tail(batch) : i + 1 \in DOMAIN batch /\ Tail(batch)[i] = batch[i + 1]
  BY <1>1, TailElements
<1>4. \A i \in DOMAIN Tail(batch) :
        Lacks(queue, Tail(batch)[i].sub, Tail(batch)[i].attempts + 1)
  BY <1>3 DEF CopiesInv, Ahead
<1> QED BY <1>2, <1>4 DEF CopiesInv, Distinct, Ahead, Lacks

(* The item that goes back has one attempt more than the head of the batch had:
   no copy in the queue has that many, and no other item of the batch has as
   many as the head. *)
LEMMA RequeueDistinct ==
    ASSUME ConstantsOK, TypeInv, CopiesInv, Requeue
    PROVE  CopiesInv'
<1>1. /\ queue \in Seq(Items) /\ batch \in Seq(Items) /\ batch # <<>>
      /\ batch' = Tail(batch)
  BY DEF Requeue, TypeInv, TypeOK
<1>2. CASE queue' = queue
  BY <1>1, <1>2, DroppedDistinct
<1>3. ASSUME NEW e \in Items, e.sub = Head(batch).sub,
             e.attempts = Head(batch).attempts + 1, queue' = Append(queue, e)
      PROVE  CopiesInv'
  <2>1. Head(batch) = batch[1] /\ 1 \in DOMAIN batch
    BY <1>1, TailElements
  <2>2. Lacks(queue, e.sub, e.attempts)
    BY <1>3, <2>1 DEF CopiesInv, Ahead
  <2>3. Distinct(Append(queue, e))
    BY <1>1, <2>2, DistinctAppend DEF CopiesInv
  <2>4. Distinct(Tail(batch)) /\ Lacks(Tail(batch), Head(batch).sub, Head(batch).attempts)
    BY <1>1, DistinctTail DEF CopiesInv
  <2>5. ASSUME NEW i \in DOMAIN Tail(batch)
        PROVE  Lacks(Append(queue, e), Tail(batch)[i].sub, Tail(batch)[i].attempts + 1)
    <3> DEFINE b == Tail(batch)[i]
    <3>1. i + 1 \in DOMAIN batch /\ b = batch[i + 1]
      BY <1>1, <2>5, TailElements
    <3>2. b \in Items /\ Head(batch) \in Items
      BY <1>1, <3>1, HeadItem, ElementOfSeq
    <3> HIDE DEF b
    <3>3. b.attempts \in Nat /\ Head(batch).attempts \in Nat
      BY <3>2 DEF Items
    <3>4. b.sub = Head(batch).sub => b.attempts # Head(batch).attempts
      BY <2>4, <2>5 DEF Lacks, b
    <3>5. b.sub = e.sub => e.attempts # b.attempts + 1
      BY <1>3, <3>3, <3>4
    <3>6. Lacks(queue, b.sub, b.attempts + 1)
      BY <3>1 DEF CopiesInv, Ahead
    <3>7. /\ DOMAIN Append(queue, e) = DOMAIN queue \cup {Len(queue) + 1}
          /\ \A k \in DOMAIN queue : Append(queue, e)[k] = queue[k]
          /\ Append(queue, e)[Len(queue) + 1] = e
      BY <1>1, <1>3, AppendElements
    <3>8. Lacks(Append(queue, e), b.sub, b.attempts + 1)
      BY <3>5, <3>6, <3>7, Zenon DEF Lacks
    <3> QED BY <3>8 DEF b
  <2>6. Distinct(queue)' /\ Distinct(batch)'
    BY <1>1, <1>3, <2>3, <2>4, Zenon DEF Distinct
  <2>7. Ahead'
    BY <1>1, <1>3, <2>5, Zenon DEF Ahead, Lacks
  <2> QED BY <2>6, <2>7 DEF CopiesInv
<1> QED BY <1>2, <1>3, RequeueCases

(* Every step keeps the copies of one subscription apart. *)
LEMMA CopiesNext == ASSUME ConstantsOK, TypeInv, CopiesInv, [Next]_vars PROVE CopiesInv'
<1>1. CASE UNCHANGED <<queue, batch>>
  BY <1>1 DEF CopiesInv, Distinct, Ahead, Lacks
<1>2. ASSUME NEW c \in Callers, CallFails(c) \/ TryBlockRaises(c) PROVE CopiesInv'
  <2>1. target[c] \in Subs /\ verb[c] \in {"create", "update"} /\ batch' = batch
    BY <1>2 DEF CallFails, TryBlockRaises, TypeInv, TypeOK, Sending
  <2>2. queue' = queue \/ queue' = Enqueued(target[c], verb[c])
    BY <1>2 DEF CallFails, TryBlockRaises
  <2> QED BY <1>1, <2>1, <2>2, EnqueuedDistinct
<1>3. CASE StartBatch
  BY <1>3 DEF StartBatch, CopiesInv, Distinct, Ahead, Lacks
<1>4. CASE ReadItem
  <2>1. /\ batch # <<>> /\ queue' = queue
        /\ batch' = batch \/ batch' = Tail(batch)
    BY <1>4 DEF ReadItem
  <2> QED BY <1>1, <2>1, DroppedDistinct
<1>5. CASE RetrySucceeds
  <2>1. batch # <<>> /\ queue' = queue /\ batch' = Tail(batch)
    BY <1>5 DEF RetrySucceeds, TypeInv, TypeOK
  <2> QED BY <2>1, DroppedDistinct
<1>6. CASE Requeue
  BY <1>6, RequeueDistinct
<1>7. CASE Restart
  <2>1. queue' = <<>> /\ batch' = <<>>
    BY <1>7 DEF Restart
  <2> QED BY <2>1 DEF CopiesInv, Distinct, Ahead, Lacks
<1>8. ASSUME NEW c \in Callers, NEW s \in Subs, NEW a \in {"create", "update"}, Buy(c, s, a)
      PROVE  UNCHANGED <<queue, batch>>
  BY <1>8 DEF Buy, worker
<1>9. ASSUME NEW c \in Callers, CallSucceeds(c) PROVE UNCHANGED <<queue, batch>>
  BY <1>9 DEF CallSucceeds, worker
<1>10. ASSUME NEW s \in Subs, Delete(s) PROVE UNCHANGED <<queue, batch>>
  BY <1>10 DEF Delete, worker
<1>11. UNCHANGED vars => UNCHANGED <<queue, batch>>
  BY DEF vars, worker
<1> QED
  BY <1>1, <1>2, <1>3, <1>4, <1>5, <1>6, <1>7, <1>8, <1>9, <1>10, <1>11
  DEF Next, WorkerStep

(* The copies of one subscription that wait in the queue always differ in their
   attempts, so there are at most max_retries of them. *)
THEOREM CopiesDifferAlways == ASSUME ConstantsOK PROVE Spec => []CopiesDiffer
<1>1. Init => TypeInv /\ CopiesInv
  BY TypeInit DEF Init, CopiesInv, Distinct, Ahead, Lacks
<1>2. TypeInv /\ CopiesInv /\ [Next]_vars => (TypeInv /\ CopiesInv)'
  BY TypeNext, CopiesNext
<1>3. CopiesInv => CopiesDiffer
  BY DEF CopiesInv, CopiesDiffer, Distinct
<1> QED BY <1>1, <1>2, <1>3, PTL DEF Spec

-----------------------------------------------------------------------------
(***************************************************************************)
(* The receipts: none twice without a reason, and none forgotten.          *)
(***************************************************************************)

(* The queue's workers are no payments, and no payment is called Nothing. *)
ReceiptConstants == Payments \cap Workers = {} /\ Nothing \notin Payments

ReceiptItems == [payment : Payments, attempts : Nat]

Busy == {"checking", "sending", "marking"}

Posts == Busy \cup {"idle", "queueing", "pushing", "requeueing", "returned"}

(* The types that the argument needs. *)
ReceiptTypes ==
    /\ receipts \in [Payments -> Nat] /\ doubtful \in [Payments -> Nat]
    /\ blind \in [Payments -> Nat] /\ unrecorded \in [Payments -> Nat]
    /\ created \subseteq Payments /\ queued \subseteq Payments /\ finished \subseteq Payments
    /\ list \in Seq(ReceiptItems)
    /\ agentAt \in [R!Agents -> Posts]
    /\ job \in [R!Agents -> Payments \cup {Nothing}]
    /\ attempts \in [Workers -> Nat]

(* A payment's handler works for itself, a worker for the item in his hands. *)
JobsFit ==
    /\ \A p \in Payments :
          /\ agentAt[p] # "requeueing"
          /\ agentAt[p] \in Busy \cup {"queueing", "pushing"} => job[p] = p
    /\ \A w \in Workers :
          /\ agentAt[w] \in Busy \cup {"idle", "requeueing"}
          /\ agentAt[w] # "idle" <=> job[w] # Nothing

(* A receipt that was answered or is marked exists. *)
MarkedExist ==
    /\ \A p \in created : receipts[p] > 0
    /\ \A a \in R!Agents : agentAt[a] = "marking" => receipts[job[a]] > 0

SendingFor(p) == {a \in R!Agents : agentAt[a] = "sending" /\ job[a] = p}
MarkingFor(p) == {a \in R!Agents : agentAt[a] = "marking" /\ job[a] = p}
FlyingFor(p) == SendingFor(p) \cup MarkingFor(p)

(* Receipts there are and receipts that may come: one has no explanation, and it is
   marked or somebody is about to. *)
OneUnexplained ==
    \A p \in Payments :
        /\ IsFiniteSet(FlyingFor(p))
        /\ receipts[p] + Cardinality(SendingFor(p))
              <= doubtful[p] + unrecorded[p] + blind[p]
                    + (IF p \in created \/ FlyingFor(p) # {} THEN 1 ELSE 0)

(* The places where the item of a payment can be. *)
InList(p) == {i \in DOMAIN list : list[i].payment = p}
InHands(p) == {w \in Workers : job[w] = p}
Pushing(p) == agentAt[p] = "pushing"
Waits(p) == InList(p) # {} \/ InHands(p) # {} \/ Pushing(p)

(* It is only in one of them, and then the payment has the mark, unless a write to Redis
   failed for it. *)
OneItem ==
    \A p \in Payments \ mislaid :
        /\ Waits(p) => p \in queued
        /\ \A i, j \in InList(p) : i = j
        /\ \A w, v \in InHands(p) : w = v
        /\ InList(p) # {} => InHands(p) = {}
        /\ Pushing(p) => InList(p) = {} /\ InHands(p) = {}

(* Without a crash, and without a failed write for it, a payment that is marked or whose
   handler has ended is done or waits. *)
Settled(p) == receipts[p] > 0 \/ Waits(p) \/ doubtful[p] > 0 \/ p \in refused \cup dropped

NoneLost ==
    crashes = 0 =>
        \A p \in Payments \ mislaid :
            p \in queued \cup finished \/ agentAt[p] = "returned" => Settled(p)

ReceiptInv ==
    ReceiptTypes /\ JobsFit /\ MarkedExist /\ OneUnexplained /\ OneItem /\ NoneLost

(* Payments and workers are apart. *)
LEMMA ReceiptAgents ==
    ASSUME ReceiptConstants
    PROVE  /\ \A p \in Payments : p \in R!Agents /\ p \notin Workers /\ p # Nothing
           /\ \A w \in Workers : w \in R!Agents /\ w \notin Payments
           /\ \A a \in R!Agents : a \in Payments \/ a \in Workers
BY DEF ReceiptConstants, R!Agents

(* Only one agent moves. *)
Only(a) == \A b \in R!Agents : b # a => agentAt'[b] = agentAt[b] /\ job'[b] = job[b]

(* Going on to the next place: the others stay where they are. *)
LEMMA ReceiptGoto ==
    ASSUME ReceiptTypes, NEW a \in R!Agents, NEW l \in Posts, R!Goto(a, l), UNCHANGED job
    PROVE  agentAt' \in [R!Agents -> Posts] /\ agentAt'[a] = l /\ Only(a)
BY DEF ReceiptTypes, R!Goto, Only

(* So it is when an agent returns: a worker is idle again, a handler is done. *)
LEMMA ReceiptReturn ==
    ASSUME ReceiptTypes, NEW a \in R!Agents, R!Return(a)
    PROVE  /\ agentAt' \in [R!Agents -> Posts]
           /\ agentAt'[a] = IF a \in Payments THEN "returned" ELSE "idle"
           /\ job' \in [R!Agents -> Payments \cup {Nothing}] /\ job'[a] = Nothing
           /\ attempts' \in [Workers -> Nat]
           /\ Only(a)
<1>1. /\ R!Goto(a, IF a \in Payments THEN "returned" ELSE "idle")
      /\ job' = [job EXCEPT ![a] = Nothing]
      /\ attempts' = [w \in Workers |-> IF w = a THEN 0 ELSE attempts[w]]
  BY DEF R!Return
<1>2. agentAt' = [agentAt EXCEPT ![a] = IF a \in Payments THEN "returned" ELSE "idle"]
  BY <1>1 DEF R!Goto
<1>3. (IF a \in Payments THEN "returned" ELSE "idle") \in Posts
  BY DEF Posts
<1>4. /\ agentAt' \in [R!Agents -> Posts]
      /\ agentAt'[a] = IF a \in Payments THEN "returned" ELSE "idle"
      /\ \A b \in R!Agents : b # a => agentAt'[b] = agentAt[b]
  BY <1>2, <1>3 DEF ReceiptTypes
<1>5. /\ job' \in [R!Agents -> Payments \cup {Nothing}] /\ job'[a] = Nothing
      /\ \A b \in R!Agents : b # a => job'[b] = job[b]
  BY <1>1 DEF ReceiptTypes
<1>6. attempts' \in [Workers -> Nat]
  BY <1>1 DEF ReceiptTypes
<1> QED BY <1>4, <1>5, <1>6 DEF Only

(* The requests on their way, when one agent moves. *)
LEMMA Flights ==
    ASSUME NEW a \in R!Agents, Only(a), NEW p \in Payments
    PROVE  /\ SendingFor(p)' = IF agentAt'[a] = "sending" /\ job'[a] = p
                                  THEN SendingFor(p) \cup {a} ELSE SendingFor(p) \ {a}
           /\ MarkingFor(p)' = IF agentAt'[a] = "marking" /\ job'[a] = p
                                  THEN MarkingFor(p) \cup {a} ELSE MarkingFor(p) \ {a}
BY DEF Only, SendingFor, MarkingFor

(* What is sent is among what flies. *)
LEMMA FlyingFinite ==
    ASSUME NEW p, IsFiniteSet(FlyingFor(p))
    PROVE  /\ IsFiniteSet(SendingFor(p)) /\ IsFiniteSet(MarkingFor(p))
           /\ Cardinality(SendingFor(p)) \in Nat /\ Cardinality(FlyingFor(p)) \in Nat
           /\ Cardinality(SendingFor(p)) <= Cardinality(FlyingFor(p))
           /\ Cardinality(FlyingFor(p)) = 0 <=> FlyingFor(p) = {}
<1>1. SendingFor(p) \subseteq FlyingFor(p) /\ MarkingFor(p) \subseteq FlyingFor(p)
  BY DEF FlyingFor
<1> QED BY <1>1, FS_Subset, FS_CardinalityType, FS_EmptySet

(* An agent that neither sends nor marks changes nothing in that account. *)
LEMMA Grounded ==
    ASSUME OneUnexplained, NEW a \in R!Agents, Only(a),
           agentAt[a] \notin {"sending", "marking"}, agentAt'[a] \notin {"sending", "marking"},
           UNCHANGED <<receipts, doubtful, blind, unrecorded, created>>
    PROVE  OneUnexplained'
<1>1. ASSUME NEW p \in Payments
      PROVE  SendingFor(p)' = SendingFor(p) /\ FlyingFor(p)' = FlyingFor(p)
  <2>1. a \notin SendingFor(p) /\ a \notin MarkingFor(p)
    BY DEF SendingFor, MarkingFor
  <2>2. SendingFor(p)' = SendingFor(p) /\ MarkingFor(p)' = MarkingFor(p)
    BY <2>1, Flights
  <2> QED BY <2>2 DEF FlyingFor
<1> QED BY <1>1 DEF OneUnexplained

(* The item of a payment, when the list stays and no item changes hands. *)
LEMMA PlacesKept ==
    ASSUME ReceiptConstants, NEW a \in R!Agents, Only(a), UNCHANGED list,
           a \in Workers => job'[a] = job[a],
           agentAt'[a] = "pushing" <=> agentAt[a] = "pushing",
           NEW p \in Payments
    PROVE  /\ InList(p)' = InList(p) /\ InHands(p)' = InHands(p) /\ Pushing(p)' = Pushing(p)
           /\ Waits(p)' = Waits(p)
<1>1. InList(p)' = InList(p)
  BY DEF InList
<1>2. InHands(p)' = InHands(p)
  BY ReceiptAgents DEF InHands, Only
<1>3. Pushing(p)' = Pushing(p)
  BY ReceiptAgents DEF Pushing, Only
<1> QED BY <1>1, <1>2, <1>3 DEF Waits

(* An item at the end of the list. *)
LEMMA ListAppend ==
    ASSUME ReceiptTypes, NEW item \in ReceiptItems, list' = Append(list, item),
           NEW p \in Payments
    PROVE  /\ list' \in Seq(ReceiptItems)
           /\ InList(p)' = IF item.payment = p THEN InList(p) \cup {Len(list) + 1}
                                               ELSE InList(p)
           /\ Len(list) + 1 \notin InList(p)
<1>1. list \in Seq(ReceiptItems)
  BY DEF ReceiptTypes
<1>2. /\ list' \in Seq(ReceiptItems) /\ DOMAIN list = 1 .. Len(list)
      /\ DOMAIN list' = 1 .. (Len(list) + 1) /\ Len(list) \in Nat
      /\ list'[Len(list) + 1] = item
      /\ \A i \in 1 .. Len(list) : list'[i] = list[i]
  BY <1>1
<1>3. /\ InList(p)' = {i \in 1 .. (Len(list) + 1) : list'[i].payment = p}
      /\ InList(p) = {i \in 1 .. Len(list) : list[i].payment = p}
  BY <1>2 DEF InList
<1>4. \A i \in 1 .. (Len(list) + 1) : i = Len(list) + 1 \/ i \in 1 .. Len(list)
  BY <1>2
<1>5. \A i : i \in InList(p)' <=> i \in (IF item.payment = p THEN InList(p) \cup {Len(list) + 1}
                                                           ELSE InList(p))
  BY <1>2, <1>3, <1>4
<1> QED BY <1>2, <1>3, <1>5

(* The first item leaves the list. *)
LEMMA ListTail ==
    ASSUME ReceiptTypes, list # <<>>, list' = Tail(list), NEW p \in Payments,
           \A i, j \in InList(p) : i = j
    PROVE  /\ list' \in Seq(ReceiptItems) /\ Head(list) \in ReceiptItems
           /\ Head(list).payment = p => InList(p) # {} /\ InList(p)' = {}
           /\ Head(list).payment # p => (InList(p)' = {} <=> InList(p) = {})
           /\ \A i, j \in InList(p)' : i = j
<1>1. list \in Seq(ReceiptItems)
  BY DEF ReceiptTypes
<1>2. /\ list' \in Seq(ReceiptItems) /\ Head(list) \in ReceiptItems /\ Head(list) = list[1]
      /\ Len(list) \in Nat \ {0} /\ DOMAIN list = 1 .. Len(list)
      /\ DOMAIN list' = 1 .. (Len(list) - 1)
      /\ \A i \in 1 .. (Len(list) - 1) : list'[i] = list[i + 1]
  BY <1>1
<1>3. /\ InList(p)' = {i \in 1 .. (Len(list) - 1) : list'[i].payment = p}
      /\ InList(p) = {i \in 1 .. Len(list) : list[i].payment = p}
  BY <1>2 DEF InList
<1>4. \A i \in InList(p)' : i + 1 \in InList(p) /\ i \in Nat /\ i + 1 # 1
  BY <1>2, <1>3
<1>5. \A i \in InList(p) : i = 1 \/ i - 1 \in InList(p)'
  <2>1. ASSUME NEW i \in InList(p), i # 1 PROVE i - 1 \in InList(p)'
    <3>1. i \in 1 .. Len(list) /\ list[i].payment = p
      BY <1>3
    <3>2. i - 1 \in 1 .. (Len(list) - 1) /\ (i - 1) + 1 = i
      BY <1>2, <2>1, <3>1
    <3> QED BY <1>2, <1>3, <3>1, <3>2
  <2> QED BY <2>1
<1>6. 1 \in InList(p) <=> Head(list).payment = p
  BY <1>2, <1>3
<1>7. Head(list).payment = p => InList(p) # {} /\ InList(p)' = {}
  BY <1>4, <1>6
<1>8. Head(list).payment # p => (InList(p)' = {} <=> InList(p) = {})
  BY <1>4, <1>5, <1>6
<1>9. \A i, j \in InList(p)' : i = j
  BY <1>4
<1> QED BY <1>2, <1>7, <1>8, <1>9

(* The numbers of that account. *)
LEMMA Account ==
    ASSUME ReceiptTypes, OneUnexplained, NEW p \in Payments
    PROVE  /\ receipts[p] \in Nat /\ doubtful[p] \in Nat
           /\ unrecorded[p] \in Nat /\ blind[p] \in Nat
           /\ IsFiniteSet(FlyingFor(p)) /\ IsFiniteSet(SendingFor(p))
           /\ Cardinality(SendingFor(p)) \in Nat /\ Cardinality(FlyingFor(p)) \in Nat
           /\ Cardinality(SendingFor(p)) <= Cardinality(FlyingFor(p))
           /\ Cardinality(FlyingFor(p)) = 0 <=> FlyingFor(p) = {}
           /\ receipts[p] + Cardinality(SendingFor(p))
                 <= doubtful[p] + unrecorded[p] + blind[p]
                       + (IF p \in created \/ FlyingFor(p) # {} THEN 1 ELSE 0)
<1>1. receipts[p] \in Nat /\ doubtful[p] \in Nat /\ unrecorded[p] \in Nat /\ blind[p] \in Nat
  BY DEF ReceiptTypes
<1>2. IsFiniteSet(FlyingFor(p))
  BY DEF OneUnexplained
<1> QED BY <1>1, <1>2, FlyingFinite DEF OneUnexplained

(* A request goes out: whoever is on the way for the same payment could not be seen, and
   neither could a mark. *)
LEMMA Launched ==
    ASSUME ReceiptTypes, OneUnexplained, NEW a \in R!Agents, NEW q \in Payments, Only(a),
           agentAt[a] \notin {"sending", "marking"}, agentAt'[a] = "sending", job'[a] = q,
           \A p \in Payments :
              blind'[p] = IF p = q THEN blind[p] + Cardinality(FlyingFor(p))
                                                 + (IF q \in created THEN 1 ELSE 0)
                                   ELSE blind[p],
           UNCHANGED <<receipts, doubtful, unrecorded, created>>
    PROVE  OneUnexplained'
<1>1. SUFFICES ASSUME NEW p \in Payments
               PROVE  /\ IsFiniteSet(FlyingFor(p)')
                      /\ receipts'[p] + Cardinality(SendingFor(p)')
                            <= doubtful'[p] + unrecorded'[p] + blind'[p]
                                 + (IF p \in created' \/ FlyingFor(p)' # {} THEN 1 ELSE 0)
  BY DEF OneUnexplained
<1>2. a \notin SendingFor(p) /\ a \notin MarkingFor(p)
  BY DEF SendingFor, MarkingFor
<1>3. CASE p = q
  <2>1. /\ SendingFor(p)' = SendingFor(p) \cup {a} /\ MarkingFor(p)' = MarkingFor(p)
        /\ FlyingFor(p)' = FlyingFor(p) \cup {a}
    BY <1>2, <1>3, Flights DEF FlyingFor
  <2>2. /\ IsFiniteSet(FlyingFor(p) \cup {a})
        /\ Cardinality(SendingFor(p) \cup {a}) = Cardinality(SendingFor(p)) + 1
    BY <1>2, Account, FS_AddElement
  <2>3. /\ receipts'[p] = receipts[p] /\ doubtful'[p] = doubtful[p]
        /\ unrecorded'[p] = unrecorded[p]
        /\ blind'[p] = blind[p] + Cardinality(FlyingFor(p)) + (IF p \in created THEN 1 ELSE 0)
    BY <1>3
  <2>4. CASE FlyingFor(p) = {}
    <3>1. /\ Cardinality(FlyingFor(p)) = 0
          /\ Cardinality(SendingFor(p)) \in Nat
          /\ Cardinality(SendingFor(p)) <= Cardinality(FlyingFor(p))
      BY <2>4, Account, FS_EmptySet
    <3>2. Cardinality(SendingFor(p)) = 0 /\ Cardinality(FlyingFor(p)) = 0
      BY <3>1
    <3>3. receipts[p] <= doubtful[p] + unrecorded[p] + blind[p] + (IF p \in created THEN 1 ELSE 0)
      BY <2>4, <3>2, Account
    <3>4. receipts[p] \in Nat /\ doubtful[p] \in Nat /\ unrecorded[p] \in Nat /\ blind[p] \in Nat
      BY Account
    <3>5. FlyingFor(p)' # {} /\ IsFiniteSet(FlyingFor(p)') /\ (p \in created' <=> p \in created)
      BY <2>1, <2>2
    <3>6. Cardinality(SendingFor(p)') = 1
      BY <2>1, <2>2, <3>2
    <3>7. receipts'[p] + Cardinality(SendingFor(p)')
             <= doubtful'[p] + unrecorded'[p] + blind'[p] + 1
      BY <2>3, <3>2, <3>3, <3>4, <3>6
    <3> QED BY <3>5, <3>7
  <2>5. CASE FlyingFor(p) # {}
    <3>1. Cardinality(FlyingFor(p)) >= 1
      BY <2>5, Account
    <3> QED BY <2>1, <2>2, <2>3, <2>5, <3>1, Account
  <2> QED BY <2>4, <2>5
<1>4. CASE p # q
  <2>1. SendingFor(p)' = SendingFor(p) /\ MarkingFor(p)' = MarkingFor(p)
    BY <1>2, <1>4, Flights
  <2>2. SendingFor(p)' = SendingFor(p) /\ FlyingFor(p)' = FlyingFor(p)
    BY <2>1 DEF FlyingFor
  <2>3. blind'[p] = blind[p]
    BY <1>4
  <2> QED BY <2>2, <2>3, Account
<1> QED BY <1>3, <1>4

(* An answer has come. *)
LEMMA Landed ==
    ASSUME ReceiptTypes, OneUnexplained, NEW a \in R!Agents, NEW q \in Payments, Only(a),
           agentAt[a] = "sending", job[a] = q, agentAt'[a] = "marking", job'[a] = q,
           \A p \in Payments : receipts'[p] = IF p = q THEN receipts[p] + 1 ELSE receipts[p],
           UNCHANGED <<doubtful, blind, unrecorded, created>>
    PROVE  OneUnexplained'
<1>1. SUFFICES ASSUME NEW p \in Payments
               PROVE  /\ IsFiniteSet(FlyingFor(p)')
                      /\ receipts'[p] + Cardinality(SendingFor(p)')
                            <= doubtful'[p] + unrecorded'[p] + blind'[p]
                                 + (IF p \in created' \/ FlyingFor(p)' # {} THEN 1 ELSE 0)
  BY DEF OneUnexplained
<1>2. CASE p = q
  <2>1. /\ a \in SendingFor(p)
        /\ SendingFor(p)' = SendingFor(p) \ {a} /\ MarkingFor(p)' = MarkingFor(p) \cup {a}
    BY <1>2, Flights DEF SendingFor
  <2>2. FlyingFor(p)' = FlyingFor(p) /\ FlyingFor(p) # {}
    BY <2>1 DEF FlyingFor
  <2>3. Cardinality(SendingFor(p)') = Cardinality(SendingFor(p)) - 1
    BY <2>1, Account, FS_RemoveElement
  <2>4. receipts'[p] = receipts[p] + 1 /\ doubtful'[p] = doubtful[p] /\ blind'[p] = blind[p]
    BY <1>2
  <2> QED BY <2>2, <2>3, <2>4, Account
<1>3. CASE p # q
  <2>1. a \notin SendingFor(p) /\ a \notin MarkingFor(p)
    BY <1>3 DEF SendingFor, MarkingFor
  <2>2. SendingFor(p) \ {a} = SendingFor(p) /\ MarkingFor(p) \ {a} = MarkingFor(p)
    BY <2>1
  <2>3. agentAt'[a] # "sending" /\ job'[a] # p
    BY <1>3
  <2>4. SendingFor(p)' = SendingFor(p) /\ MarkingFor(p)' = MarkingFor(p)
    BY <2>2, <2>3, Flights
  <2>5. SendingFor(p)' = SendingFor(p) /\ FlyingFor(p)' = FlyingFor(p) /\ receipts'[p] = receipts[p]
    BY <1>3, <2>4 DEF FlyingFor
  <2> QED BY <2>5, Account
<1> QED BY <1>2, <1>3

(* Whether a receipt was made is not known: it is recorded, or only logged. *)
LEMMA Unanswered ==
    ASSUME ReceiptTypes, OneUnexplained, NEW a \in R!Agents, NEW q \in Payments, Only(a),
           agentAt[a] = "sending", job[a] = q, agentAt'[a] \notin {"sending", "marking"},
           receipts' \in [Payments -> Nat], doubtful' \in [Payments -> Nat],
           unrecorded' \in [Payments -> Nat],
           \A p \in Payments : receipts'[p] - doubtful'[p] - unrecorded'[p]
                                  <= receipts[p] - doubtful[p] - unrecorded[p],
           UNCHANGED <<blind, created>>
    PROVE  OneUnexplained'
<1>1. SUFFICES ASSUME NEW p \in Payments
               PROVE  /\ IsFiniteSet(FlyingFor(p)')
                      /\ receipts'[p] + Cardinality(SendingFor(p)')
                            <= doubtful'[p] + unrecorded'[p] + blind'[p]
                                 + (IF p \in created' \/ FlyingFor(p)' # {} THEN 1 ELSE 0)
  BY DEF OneUnexplained
<1>2. /\ receipts'[p] \in Nat /\ doubtful'[p] \in Nat /\ unrecorded'[p] \in Nat
      /\ blind'[p] = blind[p]
  OBVIOUS
<1>3. CASE p = q
  <2>1. /\ a \in SendingFor(p) /\ a \notin MarkingFor(p)
        /\ SendingFor(p)' = SendingFor(p) \ {a} /\ MarkingFor(p)' = MarkingFor(p)
    BY <1>3, Flights DEF SendingFor, MarkingFor
  <2>2. FlyingFor(p)' = FlyingFor(p) \ {a}
    BY <2>1 DEF FlyingFor
  <2>3. IsFiniteSet(FlyingFor(p)) /\ IsFiniteSet(SendingFor(p))
    BY Account
  <2>4. IsFiniteSet(FlyingFor(p)')
    <3>1. IsFiniteSet(FlyingFor(p) \ {a})
      BY <2>3, FS_RemoveElement
    <3> QED BY <2>2, <3>1
  <2>5. Cardinality(SendingFor(p)') = Cardinality(SendingFor(p)) - 1
    BY <2>1, <2>3, FS_RemoveElement
  <2>6. receipts[p] + Cardinality(SendingFor(p)) <= doubtful[p] + unrecorded[p] + blind[p] + 1
    BY Account
  <2>7. receipts'[p] + Cardinality(SendingFor(p)') <= doubtful'[p] + unrecorded'[p] + blind'[p]
    BY <1>2, <2>5, <2>6, Account
  <2> QED BY <1>2, <2>4, <2>5, <2>7, Account
<1>4. CASE p # q
  <2>1. a \notin SendingFor(p) /\ a \notin MarkingFor(p)
    BY <1>4 DEF SendingFor, MarkingFor
  <2>2. SendingFor(p) \ {a} = SendingFor(p) /\ MarkingFor(p) \ {a} = MarkingFor(p)
    BY <2>1
  <2>3. agentAt'[a] # "sending" /\ agentAt'[a] # "marking"
    OBVIOUS
  <2>4. SendingFor(p)' = SendingFor(p) /\ MarkingFor(p)' = MarkingFor(p)
    BY <2>2, <2>3, Flights
  <2>5. SendingFor(p)' = SendingFor(p) /\ FlyingFor(p)' = FlyingFor(p)
    BY <2>4 DEF FlyingFor
  <2> QED BY <1>2, <2>5, Account
<1> QED BY <1>3, <1>4

(* The receipt is marked, or it cannot be and no mark will show it. *)
LEMMA Marked ==
    ASSUME ReceiptTypes, OneUnexplained, NEW a \in R!Agents, NEW q \in Payments, Only(a),
           agentAt[a] = "marking", job[a] = q, agentAt'[a] \notin {"sending", "marking"},
           \/ created' = created \cup {q} /\ UNCHANGED blind
           \/ created' = created /\ blind' = [blind EXCEPT ![q] = @ + 1],
           UNCHANGED <<receipts, doubtful, unrecorded>>
    PROVE  OneUnexplained'
<1>1. SUFFICES ASSUME NEW p \in Payments
               PROVE  /\ IsFiniteSet(FlyingFor(p)')
                      /\ receipts'[p] + Cardinality(SendingFor(p)')
                            <= doubtful'[p] + unrecorded'[p] + blind'[p]
                                 + (IF p \in created' \/ FlyingFor(p)' # {} THEN 1 ELSE 0)
  BY DEF OneUnexplained
<1>2. /\ a \notin SendingFor(p) /\ SendingFor(p)' = SendingFor(p)
      /\ MarkingFor(p)' = MarkingFor(p) \ {a}
  BY Flights DEF SendingFor
<1>3. FlyingFor(p)' = FlyingFor(p) \ {a}
  BY <1>2 DEF FlyingFor
<1>4. IsFiniteSet(FlyingFor(p))
  BY Account
<1>5. FlyingFor(p)' = FlyingFor(p) \ {a} /\ IsFiniteSet(FlyingFor(p)')
  BY <1>4, <1>3, FS_RemoveElement
<1>6. CASE p = q
  <2>1. receipts[p] + Cardinality(SendingFor(p)) <= doubtful[p] + unrecorded[p] + blind[p] + 1
    BY Account
  <2>2. CASE created' = created \cup {q} /\ UNCHANGED blind
    BY <1>2, <1>5, <1>6, <2>1, <2>2
  <2>3. CASE created' = created /\ blind' = [blind EXCEPT ![q] = @ + 1]
    <3>1. blind'[p] = blind[p] + 1
      BY <1>6, <2>3 DEF ReceiptTypes
    <3> QED BY <1>2, <1>5, <2>1, <3>1, Account
  <2> QED BY <2>2, <2>3
<1>7. CASE p # q
  <2>1. a \notin FlyingFor(p)
    BY <1>7 DEF FlyingFor, SendingFor, MarkingFor
  <2>2. /\ FlyingFor(p)' = FlyingFor(p) /\ (p \in created' <=> p \in created)
        /\ blind'[p] = blind[p]
    BY <1>5, <1>7, <2>1 DEF ReceiptTypes
  <2> QED BY <1>2, <1>5, <2>2, Account
<1> QED BY <1>6, <1>7

(* A crash: an answer that was not marked yet is not seen any more. *)
LEMMA Crashed ==
    ASSUME ReceiptTypes, OneUnexplained,
           \A a \in R!Agents : agentAt'[a] = "idle",
           \A p \in Payments : blind'[p] = blind[p] + Cardinality(MarkingFor(p)),
           UNCHANGED <<receipts, doubtful, unrecorded, created>>
    PROVE  OneUnexplained'
<1>1. SUFFICES ASSUME NEW p \in Payments
               PROVE  /\ IsFiniteSet(FlyingFor(p)')
                      /\ receipts'[p] + Cardinality(SendingFor(p)')
                            <= doubtful'[p] + unrecorded'[p] + blind'[p]
                                 + (IF p \in created' \/ FlyingFor(p)' # {} THEN 1 ELSE 0)
  BY DEF OneUnexplained
<1>2. SendingFor(p)' = {} /\ FlyingFor(p)' = {}
  BY DEF FlyingFor, SendingFor, MarkingFor
<1>3. IsFiniteSet(FlyingFor(p)') /\ Cardinality(SendingFor(p)') = 0
  BY <1>2, FS_EmptySet
<1>4. /\ Cardinality(MarkingFor(p)) \in Nat
      /\ Cardinality(MarkingFor(p)) = 0 <=> MarkingFor(p) = {}
      /\ Cardinality(SendingFor(p)) = 0 <=> SendingFor(p) = {}
  BY Account, FlyingFinite, FS_CardinalityType, FS_EmptySet
<1>5. FlyingFor(p) # {} => Cardinality(SendingFor(p)) + Cardinality(MarkingFor(p)) >= 1
  <2>1. SendingFor(p) = {} /\ MarkingFor(p) = {} => FlyingFor(p) = {}
    BY DEF FlyingFor
  <2>2. Cardinality(SendingFor(p)) \in Nat
    BY Account
  <2> QED BY <1>4, <2>1, <2>2
<1>6. CASE p \in created
  BY <1>2, <1>3, <1>4, <1>6, Account
<1>7. CASE p \notin created
  <2>1. receipts[p] <= doubtful[p] + unrecorded[p] + blind[p] + Cardinality(MarkingFor(p))
    BY <1>4, <1>5, <1>7, Account
  <2> QED BY <1>2, <1>3, <1>4, <1>7, <2>1, Account
<1> QED BY <1>6, <1>7

(* A worker is done with his item. *)
LEMMA WorkerReleases ==
    ASSUME ReceiptConstants, OneItem, NEW w \in Workers, NEW q \in Payments, Only(w),
           job[w] = q, job'[w] = Nothing, NEW p \in Payments
    PROVE  /\ p # q => InHands(p)' = InHands(p)
           /\ q \notin mislaid => /\ InHands(q) # {} /\ InHands(q)' = {}
                                 /\ InList(q) = {} /\ ~ Pushing(q)
           /\ Pushing(p)' = Pushing(p)
<1>1. w \in InHands(q) /\ w \in R!Agents /\ Nothing # p /\ Nothing # q
  BY ReceiptAgents DEF InHands
<1>2. \A v \in Workers : v # w => job'[v] = job[v]
  BY ReceiptAgents DEF Only
<1>3. InHands(p)' = {v \in Workers : job'[v] = p} /\ InHands(q)' = {v \in Workers : job'[v] = q}
  BY DEF InHands
<1>4. p # q => InHands(p)' = InHands(p)
  BY <1>1, <1>2, <1>3 DEF InHands
<1>5. ASSUME q \notin mislaid
      PROVE  InHands(q) # {} /\ InHands(q)' = {} /\ InList(q) = {} /\ ~ Pushing(q)
  <2>1. InList(q) = {} /\ ~ Pushing(q) /\ \A v \in InHands(q) : v = w
    BY <1>1, <1>5 DEF OneItem
  <2> QED BY <1>1, <1>2, <1>3, <2>1 DEF InHands
<1>6. Pushing(p)' = Pushing(p)
  BY ReceiptAgents DEF Pushing, Only
<1> QED BY <1>4, <1>5, <1>6

(* A write for the item of payment q has failed, and nothing else has changed its place. *)
LEMMA ItemMislaid ==
    ASSUME OneItem, NEW q \in mislaid', mislaid \subseteq mislaid',
           \A p \in Payments \ mislaid' :
              /\ p \in queued' <=> p \in queued
              /\ InList(p)' = {} <=> InList(p) = {}
              /\ \A i, j \in InList(p)' : i = j
              /\ InHands(p)' = InHands(p) /\ Pushing(p)' = Pushing(p)
    PROVE  OneItem' /\ \A p \in Payments \ mislaid' : Waits(p)' = Waits(p)
<1>1. \A p \in Payments \ mislaid' : Waits(p)' = Waits(p)
  BY DEF Waits
<1> QED BY <1>1 DEF OneItem

(* A payment's handler asks, and its answer is committed. *)
LEMMA ReceiptAsk ==
    ASSUME ReceiptConstants, ReceiptInv, NEW p \in Payments, R!Ask(p) \/ R!Finish(p)
    PROVE  ReceiptInv'
<1>1. /\ p \in R!Agents /\ p \notin Workers
      /\ ReceiptTypes /\ JobsFit /\ MarkedExist /\ OneUnexplained /\ OneItem /\ NoneLost
  BY ReceiptAgents DEF ReceiptInv
<1> USE DEF R!redis, R!history
<1>2. CASE R!Ask(p)
  <2>1. /\ agentAt[p] = "idle" /\ R!Goto(p, "checking") /\ job' = [job EXCEPT ![p] = p]
        /\ UNCHANGED <<receipts, created, queued, list, doubtful, blind, unrecorded, attempts,
                       finished, refused, dropped, mislaid, crashes>>
    BY <1>2 DEF R!Ask
  <2>2. /\ agentAt' \in [R!Agents -> Posts] /\ agentAt'[p] = "checking"
        /\ job' \in [R!Agents -> Payments \cup {Nothing}] /\ job'[p] = p
        /\ Only(p)
    BY <1>1, <2>1 DEF ReceiptTypes, R!Goto, Only, Posts, Busy
  <2>3. ReceiptTypes'
    BY <1>1, <2>1, <2>2 DEF ReceiptTypes
  <2>4. JobsFit'
    BY <1>1, <2>2, ReceiptAgents DEF JobsFit, Only, Busy
  <2>5. MarkedExist'
    BY <1>1, <2>1, <2>2 DEF MarkedExist, Only
  <2>6. OneUnexplained'
    BY <1>1, <2>1, <2>2, Grounded
  <2>7. \A q \in Payments : /\ InList(q)' = InList(q) /\ InHands(q)' = InHands(q)
                            /\ Pushing(q)' = Pushing(q) /\ Waits(q)' = Waits(q)
    BY <1>1, <2>1, <2>2, PlacesKept
  <2>8. OneItem'
    BY <1>1, <2>1, <2>7 DEF OneItem
  <2>9. NoneLost'
    BY <1>1, <2>1, <2>2, <2>7, ReceiptAgents DEF NoneLost, Settled, Only
  <2> QED BY <2>3, <2>4, <2>5, <2>6, <2>8, <2>9 DEF ReceiptInv
<1>3. CASE R!Finish(p)
  <2>1. /\ agentAt[p] = "returned" /\ R!Goto(p, "idle") /\ finished' = finished \cup {p}
        /\ UNCHANGED <<receipts, created, queued, list, doubtful, blind, unrecorded, job, attempts,
                       refused, dropped, mislaid, crashes>>
    BY <1>3 DEF R!Finish
  <2>2. agentAt' \in [R!Agents -> Posts] /\ agentAt'[p] = "idle" /\ Only(p)
    BY <1>1, <2>1, ReceiptGoto DEF Posts
  <2>3. ReceiptTypes'
    BY <1>1, <2>1, <2>2 DEF ReceiptTypes
  <2>4. JobsFit'
    BY <1>1, <2>1, <2>2, ReceiptAgents DEF JobsFit, Only, Busy
  <2>5. MarkedExist'
    BY <1>1, <2>1, <2>2 DEF MarkedExist, Only
  <2>6. OneUnexplained'
    BY <1>1, <2>1, <2>2, Grounded
  <2>7. \A q \in Payments : /\ InList(q)' = InList(q) /\ InHands(q)' = InHands(q)
                            /\ Pushing(q)' = Pushing(q) /\ Waits(q)' = Waits(q)
    BY <1>1, <2>1, <2>2, PlacesKept
  <2>8. OneItem'
    BY <1>1, <2>1, <2>7 DEF OneItem
  <2>9. NoneLost'
    BY <1>1, <2>1, <2>2, <2>7, ReceiptAgents DEF NoneLost, Settled, Only
  <2> QED BY <2>3, <2>4, <2>5, <2>6, <2>8, <2>9 DEF ReceiptInv
<1> QED BY <1>2, <1>3

(* A payment's handler puts its receipt into the list, unless it is there. *)
LEMMA ReceiptQueueing ==
    ASSUME ReceiptConstants, ReceiptInv, NEW p \in Payments, R!QueueReceipt(p)
    PROVE  ReceiptInv'
<1>1. /\ p \in R!Agents /\ p \notin Workers
      /\ ReceiptTypes /\ JobsFit /\ MarkedExist /\ OneUnexplained /\ OneItem /\ NoneLost
  BY ReceiptAgents DEF ReceiptInv
<1> USE DEF R!redis, R!history
<1>2. CASE R!SetMark(p) /\ R!Return(p) /\ p \in created \cup queued /\ UNCHANGED queued
  <2>1. /\ agentAt[p] = "queueing" /\ R!Return(p)
        /\ UNCHANGED <<receipts, created, queued, list, doubtful, blind, unrecorded, finished,
                       refused, dropped, mislaid, crashes>>
    BY <1>2 DEF R!SetMark
  <2>2. /\ agentAt' \in [R!Agents -> Posts] /\ agentAt'[p] = "returned"
        /\ job' \in [R!Agents -> Payments \cup {Nothing}] /\ job'[p] = Nothing
        /\ attempts' \in [Workers -> Nat] /\ Only(p)
    BY <1>1, <2>1, ReceiptReturn
  <2>3. ReceiptTypes'
    BY <1>1, <2>1, <2>2 DEF ReceiptTypes
  <2>4. JobsFit'
    BY <1>1, <2>1, <2>2, ReceiptAgents DEF JobsFit, Only, Busy
  <2>5. MarkedExist'
    BY <1>1, <2>1, <2>2 DEF MarkedExist, Only
  <2>6. OneUnexplained'
    BY <1>1, <2>1, <2>2, Grounded
  <2>7. \A q \in Payments : /\ InList(q)' = InList(q) /\ InHands(q)' = InHands(q)
                            /\ Pushing(q)' = Pushing(q) /\ Waits(q)' = Waits(q)
    BY <1>1, <2>1, <2>2, PlacesKept
  <2>8. OneItem'
    BY <1>1, <2>1, <2>7 DEF OneItem
  <2>9. NoneLost'
    <3>1. crashes = 0 /\ p \notin mislaid => Settled(p)
      BY <1>1, <1>2 DEF MarkedExist, NoneLost, Settled
    <3> QED BY <1>1, <2>1, <2>2, <2>7, <3>1, ReceiptAgents DEF NoneLost, Settled, Only
  <2> QED BY <2>3, <2>4, <2>5, <2>6, <2>8, <2>9 DEF ReceiptInv
<1>3. CASE R!SetMark(p) /\ R!Goto(p, "pushing") /\ p \notin queued
             /\ queued' = queued \cup {p} /\ UNCHANGED <<job, attempts>>
  <2>1. /\ agentAt[p] = "queueing" /\ R!Goto(p, "pushing") /\ queued' = queued \cup {p}
        /\ UNCHANGED <<receipts, created, list, doubtful, blind, unrecorded, job, attempts,
                       finished, refused, dropped, mislaid, crashes>>
    BY <1>3 DEF R!SetMark
  <2>2. agentAt' \in [R!Agents -> Posts] /\ agentAt'[p] = "pushing" /\ Only(p)
    BY <1>1, <2>1, ReceiptGoto DEF Posts
  <2>3. ReceiptTypes'
    BY <1>1, <2>1, <2>2 DEF ReceiptTypes
  <2>4. JobsFit'
    BY <1>1, <2>1, <2>2, ReceiptAgents DEF JobsFit, Only, Busy
  <2>5. MarkedExist'
    BY <1>1, <2>1, <2>2 DEF MarkedExist, Only
  <2>6. OneUnexplained'
    BY <1>1, <2>1, <2>2, Grounded
  <2>7. /\ \A q \in Payments : /\ InList(q)' = InList(q) /\ InHands(q)' = InHands(q)
                               /\ q # p => Pushing(q)' = Pushing(q)
        /\ Pushing(p)'
    BY <1>1, <2>1, <2>2, ReceiptAgents DEF InList, InHands, Pushing, Only
  <2>8. p \notin mislaid => InList(p) = {} /\ InHands(p) = {}
    BY <1>1, <1>3 DEF OneItem, Waits
  <2>9. OneItem'
    <3>1. ASSUME NEW q \in Payments \ mislaid, Waits(q)' PROVE q \in queued'
      BY <1>1, <2>1, <2>7, <3>1 DEF OneItem, Waits
    <3>2. UNCHANGED mislaid
      BY <2>1
    <3>3. ASSUME NEW q \in Payments \ mislaid
          PROVE  /\ \A i, j \in InList(q)' : i = j
                 /\ \A w, v \in InHands(q)' : w = v
                 /\ InList(q)' # {} => InHands(q)' = {}
                 /\ Pushing(q)' => InList(q)' = {} /\ InHands(q)' = {}
      <4>1. CASE q = p
        BY <1>1, <2>7, <2>8, <4>1 DEF OneItem
      <4>2. CASE q # p
        BY <1>1, <2>7, <4>2 DEF OneItem
      <4> QED BY <4>1, <4>2
    <3> QED BY <3>1, <3>2, <3>3 DEF OneItem
  <2>10. NoneLost'
    <3>1. \A q \in Payments : Settled(q) => Settled(q)'
      BY <2>1, <2>7 DEF Settled, Waits
    <3>2. Settled(p)'
      BY <2>7 DEF Settled, Waits
    <3> QED BY <1>1, <2>1, <2>2, <3>1, <3>2, ReceiptAgents DEF NoneLost, Only
  <2> QED BY <2>3, <2>4, <2>5, <2>6, <2>9, <2>10 DEF ReceiptInv
<1>4. CASE R!Push(p)
  <2>1. /\ agentAt[p] = "pushing" /\ R!Return(p)
        /\ list' = Append(list, [payment |-> p, attempts |-> 0])
        /\ UNCHANGED <<receipts, created, queued, doubtful, blind, unrecorded, finished, refused,
                       dropped, mislaid, crashes>>
    BY <1>4 DEF R!Push
  <2>2. /\ agentAt' \in [R!Agents -> Posts] /\ agentAt'[p] = "returned"
        /\ job' \in [R!Agents -> Payments \cup {Nothing}] /\ job'[p] = Nothing
        /\ attempts' \in [Workers -> Nat] /\ Only(p)
    BY <1>1, <2>1, ReceiptReturn
  <2> DEFINE item == [payment |-> p, attempts |-> 0]
  <2>3. /\ list' \in Seq(ReceiptItems)
        /\ \A q \in Payments : InList(q)' = IF p = q THEN InList(q) \cup {Len(list) + 1}
                                                     ELSE InList(q)
    <3>1. item \in ReceiptItems /\ item.payment = p
      BY DEF ReceiptItems
    <3> QED BY <1>1, <2>1, <3>1, ListAppend
  <2>4. ReceiptTypes'
    BY <1>1, <2>1, <2>2, <2>3 DEF ReceiptTypes
  <2>5. JobsFit'
    BY <1>1, <2>1, <2>2, ReceiptAgents DEF JobsFit, Only, Busy
  <2>6. MarkedExist'
    BY <1>1, <2>1, <2>2 DEF MarkedExist, Only
  <2>7. OneUnexplained'
    BY <1>1, <2>1, <2>2, Grounded
  <2>8. /\ \A q \in Payments : /\ InHands(q)' = InHands(q)
                               /\ q # p => Pushing(q)' = Pushing(q)
        /\ Pushing(p) /\ ~ Pushing(p)'
    BY <1>1, <2>1, <2>2, ReceiptAgents DEF InHands, Pushing, Only
  <2>9. p \notin mislaid => InList(p) = {} /\ InHands(p) = {} /\ p \in queued
    BY <1>1, <2>8 DEF OneItem, Waits
  <2>10. InList(p)' # {} /\ (p \notin mislaid => InList(p)' = {Len(list) + 1})
    BY <2>3, <2>9
  <2>11. \A q \in Payments : Waits(q)' = Waits(q)
    BY <2>3, <2>8, <2>10 DEF Waits
  <2>12. OneItem'
    <3>1. ASSUME NEW q \in Payments, q # p
          PROVE  InList(q)' = InList(q) /\ InHands(q)' = InHands(q) /\ Pushing(q)' = Pushing(q)
      BY <2>3, <2>8, <3>1
    <3> QED BY <1>1, <2>1, <2>8, <2>9, <2>10, <2>11, <3>1 DEF OneItem
  <2>13. NoneLost'
    <3>1. \A q \in Payments : Settled(q) => Settled(q)'
      BY <2>1, <2>11 DEF Settled
    <3>2. Settled(p)
      BY <2>8 DEF Settled, Waits
    <3> QED BY <1>1, <2>1, <2>2, <3>1, <3>2, ReceiptAgents DEF NoneLost, Only
  <2> QED BY <2>4, <2>5, <2>6, <2>7, <2>12, <2>13 DEF ReceiptInv
<1>5. CASE R!SetMarkFails(p) \/ R!PushFails(p)
  <2>1. /\ agentAt[p] \in {"queueing", "pushing"} /\ R!Return(p)
        /\ \/ UNCHANGED list
           \/ list' = Append(list, [payment |-> p, attempts |-> 0])
        /\ queued' \in {queued, queued \cup {p}, queued \ {p}}
        /\ mislaid' = mislaid \cup {p}
        /\ UNCHANGED <<receipts, created, doubtful, blind, unrecorded, finished, refused,
                       dropped, crashes>>
    BY <1>5 DEF R!SetMarkFails, R!PushFails, R!Mislay
  <2>2. /\ agentAt' \in [R!Agents -> Posts] /\ agentAt'[p] = "returned"
        /\ job' \in [R!Agents -> Payments \cup {Nothing}] /\ job'[p] = Nothing
        /\ attempts' \in [Workers -> Nat] /\ Only(p)
    BY <1>1, <2>1, ReceiptReturn
  <2> DEFINE item == [payment |-> p, attempts |-> 0]
  <2>3. /\ list' \in Seq(ReceiptItems)
        /\ \A q \in Payments : q # p => InList(q)' = InList(q)
    <3>1. item \in ReceiptItems /\ item.payment = p
      BY DEF ReceiptItems
    <3>2. CASE UNCHANGED list
      BY <1>1, <3>2 DEF ReceiptTypes, InList
    <3>3. CASE list' = Append(list, item)
      BY <1>1, <3>1, <3>3, ListAppend
    <3> QED BY <2>1, <3>2, <3>3
  <2>4. ReceiptTypes'
    BY <1>1, <2>1, <2>2, <2>3 DEF ReceiptTypes
  <2>5. JobsFit'
    BY <1>1, <2>1, <2>2, ReceiptAgents DEF JobsFit, Only, Busy
  <2>6. MarkedExist'
    BY <1>1, <2>1, <2>2 DEF MarkedExist, Only
  <2>7. OneUnexplained'
    BY <1>1, <2>1, <2>2, Grounded
  <2>8. \A q \in Payments : q # p => InHands(q)' = InHands(q) /\ Pushing(q)' = Pushing(q)
    BY <1>1, <2>1, <2>2, ReceiptAgents DEF InHands, Pushing, Only
  <2>9. OneItem' /\ \A q \in Payments \ mislaid' : Waits(q)' = Waits(q)
    <3>1. p \in mislaid' /\ mislaid \subseteq mislaid'
      BY <2>1
    <3>2. \A q \in Payments \ mislaid' :
             /\ q \in queued' <=> q \in queued
             /\ InList(q)' = {} <=> InList(q) = {}
             /\ \A i, j \in InList(q)' : i = j
             /\ InHands(q)' = InHands(q) /\ Pushing(q)' = Pushing(q)
      BY <1>1, <2>1, <2>3, <2>8 DEF OneItem
    <3> QED BY <1>1, <3>1, <3>2, ItemMislaid
  <2>10. NoneLost'
    <3>1. \A q \in Payments \ mislaid' : Settled(q) => Settled(q)'
      BY <2>1, <2>9 DEF Settled
    <3> QED BY <1>1, <2>1, <2>2, <3>1, ReceiptAgents DEF NoneLost, Only
  <2> QED BY <2>4, <2>5, <2>6, <2>7, <2>9, <2>10 DEF ReceiptInv
<1> QED BY <1>2, <1>3, <1>4, <1>5 DEF R!QueueReceipt, R!SetMark

(* A worker takes an item, or puts it back. *)
LEMMA ReceiptWorking ==
    ASSUME ReceiptConstants, ReceiptInv, NEW w \in Workers,
           R!Pop(w) \/ R!PopFails(w) \/ R!Requeue(w) \/ R!RequeueFails(w)
    PROVE  ReceiptInv'
<1>1. /\ w \in R!Agents /\ w \notin Payments
      /\ ReceiptTypes /\ JobsFit /\ MarkedExist /\ OneUnexplained /\ OneItem /\ NoneLost
  BY ReceiptAgents DEF ReceiptInv
<1> USE DEF R!redis, R!history
<1>2. CASE R!Pop(w)
  <2> DEFINE item == Head(list)
  <2>1. /\ agentAt[w] = "idle" /\ list # <<>> /\ list' = Tail(list)
        /\ UNCHANGED <<receipts, created, doubtful, blind, unrecorded, finished, refused, mislaid,
                       crashes>>
    BY <1>2 DEF R!Pop
  <2>2. /\ list' \in Seq(ReceiptItems) /\ item \in ReceiptItems
        /\ \A p \in Payments \ mislaid :
              /\ item.payment = p => InList(p) # {} /\ InList(p)' = {}
              /\ item.payment # p => (InList(p)' = {} <=> InList(p) = {})
              /\ \A i, j \in InList(p)' : i = j
    <3>1. \A p \in Payments \ mislaid : \A i, j \in InList(p) : i = j
      BY <1>1 DEF OneItem
    <3>2. list \in Seq(ReceiptItems)
      BY <1>1 DEF ReceiptTypes
    <3>3. Tail(list) \in Seq(ReceiptItems) /\ Head(list) \in ReceiptItems
      BY <2>1, <3>2
    <3> QED BY <1>1, <2>1, <3>1, <3>3, ListTail
  <2>3. PICK r \in Payments : item.payment = r /\ item.attempts \in Nat
    BY <2>2 DEF ReceiptItems
  <2>4. r \notin mislaid =>
           InList(r) # {} /\ InHands(r) = {} /\ ~ Pushing(r) /\ r \in queued
    BY <1>1, <2>2, <2>3 DEF OneItem, Waits
  <2>5. /\ r \notin mislaid => InList(r)' = {}
        /\ \A p \in Payments \ mislaid : p # r => (InList(p)' = {} <=> InList(p) = {})
    BY <2>2, <2>3
  <2>6. CASE dropped' = dropped \cup {r} /\ queued' \in {queued, queued \ {r}}
             /\ UNCHANGED <<agentAt, job, attempts>>
    <3>1. \A p \in Payments : InHands(p)' = InHands(p) /\ Pushing(p)' = Pushing(p)
      BY <2>6 DEF InHands, Pushing
    <3>2. \A p \in Payments \ mislaid : p # r => Waits(p)' = Waits(p)
      BY <2>5, <3>1 DEF Waits
    <3>3. r \notin mislaid => ~ Waits(r)'
      BY <2>4, <2>5, <3>1 DEF Waits
    <3>4. ReceiptTypes'
      BY <1>1, <2>1, <2>2, <2>6 DEF ReceiptTypes
    <3>5. JobsFit' /\ MarkedExist'
      BY <1>1, <2>1, <2>6 DEF JobsFit, MarkedExist
    <3>6. OneUnexplained'
      <4>1. \A p : SendingFor(p)' = SendingFor(p) /\ MarkingFor(p)' = MarkingFor(p)
        BY <2>6 DEF SendingFor, MarkingFor
      <4>2. \A p : FlyingFor(p)' = FlyingFor(p)
        BY <4>1 DEF FlyingFor
      <4> QED BY <1>1, <2>1, <4>1, <4>2 DEF OneUnexplained
    <3>7. OneItem'
      <4>1. UNCHANGED mislaid /\ \A p \in Payments : p # r => (p \in queued' <=> p \in queued)
        BY <2>1, <2>6
      <4>2. ASSUME NEW p \in Payments \ mislaid
            PROVE  /\ Waits(p)' => p \in queued'
                   /\ \A i, j \in InList(p)' : i = j
                   /\ InList(p)' # {} => InHands(p)' = {}
                   /\ Pushing(p)' => InList(p)' = {} /\ InHands(p)' = {}
        <5>1. CASE p = r
          BY <1>1, <2>2, <3>1, <3>3, <5>1 DEF OneItem, Waits
        <5>2. CASE p # r
          BY <1>1, <2>2, <2>5, <3>1, <3>2, <4>1, <5>2 DEF OneItem
        <5> QED BY <5>1, <5>2
      <4> QED BY <1>1, <3>1, <4>1, <4>2 DEF OneItem
    <3>8. NoneLost'
      <4>1. \A p \in Payments \ mislaid : Settled(p) => Settled(p)'
        BY <2>1, <2>6, <3>2 DEF Settled
      <4> QED BY <1>1, <2>1, <2>6, <4>1 DEF NoneLost
    <3> QED BY <3>4, <3>5, <3>6, <3>7, <3>8 DEF ReceiptInv
  <2>7. CASE /\ R!Goto(w, "checking") /\ job' = [job EXCEPT ![w] = r]
             /\ attempts' = [attempts EXCEPT ![w] = item.attempts]
             /\ UNCHANGED <<dropped, mislaid, queued>>
    <3> HIDE DEF item
    <3>1. /\ agentAt' \in [R!Agents -> Posts] /\ agentAt'[w] = "checking"
          /\ job' \in [R!Agents -> Payments \cup {Nothing}] /\ job'[w] = r
          /\ Only(w)
      BY <1>1, <2>3, <2>7 DEF ReceiptTypes, R!Goto, Only, Posts, Busy
    <3>2. attempts' \in [Workers -> Nat]
      BY <1>1, <2>3, <2>7 DEF ReceiptTypes
    <3>3. ReceiptTypes'
      BY <1>1, <2>1, <2>2, <2>7, <3>1, <3>2 DEF ReceiptTypes
    <3>4. JobsFit'
      BY <1>1, <2>3, <3>1, ReceiptAgents DEF JobsFit, Only, Busy
    <3>5. MarkedExist'
      BY <1>1, <2>1, <3>1 DEF MarkedExist, Only
    <3>6. OneUnexplained'
      BY <1>1, <2>1, <3>1, Grounded
    <3>7. job[w] = Nothing
      BY <1>1, <2>1 DEF JobsFit
    <3>8. \A p \in Payments \ mislaid : /\ InHands(p)' = IF p = r THEN {w} ELSE InHands(p)
                                        /\ Pushing(p)' = Pushing(p)
      <4>1. ASSUME NEW p \in Payments PROVE w \notin InHands(p)
        BY <3>7, ReceiptAgents DEF InHands
      <4>2. \A v \in Workers : v # w => job'[v] = job[v]
        BY <3>1, ReceiptAgents DEF Only
      <4>3. \A p \in Payments : InHands(p)' = IF p = r THEN InHands(p) \cup {w} ELSE InHands(p)
        BY <3>1, <4>1, <4>2 DEF InHands
      <4>4. \A p \in Payments : Pushing(p)' = Pushing(p)
        BY <1>1, <3>1, ReceiptAgents DEF Pushing, Only
      <4> QED BY <2>4, <4>3, <4>4
    <3>9. \A p \in Payments \ mislaid : Waits(p)' = Waits(p)
      <4>1. \A p \in Payments \ mislaid : p # r => Waits(p)' = Waits(p)
        BY <2>5, <3>8 DEF Waits
      <4>2. r \notin mislaid => Waits(r)' /\ Waits(r)
        BY <2>4, <3>8 DEF Waits
      <4> QED BY <4>1, <4>2 DEF Waits
    <3>10. OneItem'
      BY <1>1, <2>2, <2>3, <2>4, <2>7, <3>8, <3>9 DEF OneItem
    <3>11. NoneLost'
      BY <1>1, <2>1, <2>7, <3>1, <3>9, ReceiptAgents DEF NoneLost, Settled, Only
    <3> QED BY <3>3, <3>4, <3>5, <3>6, <3>10, <3>11 DEF ReceiptInv
  <2> QED BY <1>2, <2>3, <2>6, <2>7 DEF R!Pop, R!Unqueue
<1>3. CASE R!Requeue(w)
  <2> DEFINE item == [payment |-> job[w], attempts |-> attempts[w] + 1]
  <2>1. /\ agentAt[w] = "requeueing" /\ list' = Append(list, item) /\ R!Return(w)
        /\ UNCHANGED <<receipts, created, queued, doubtful, blind, unrecorded, finished, refused,
                       dropped, mislaid, crashes>>
    BY <1>3 DEF R!Requeue
  <2>2. /\ agentAt' \in [R!Agents -> Posts] /\ agentAt'[w] = "idle"
        /\ job' \in [R!Agents -> Payments \cup {Nothing}] /\ job'[w] = Nothing
        /\ attempts' \in [Workers -> Nat] /\ Only(w)
    BY <1>1, <2>1, ReceiptReturn
  <2>3. PICK r \in Payments : r = job[w]
    BY <1>1, <2>1 DEF JobsFit, ReceiptTypes
  <2>4. item \in ReceiptItems /\ item.payment = r
    <3>1. attempts[w] + 1 \in Nat
      BY <1>1 DEF ReceiptTypes
    <3> QED BY <2>3, <3>1 DEF ReceiptItems
  <2>5. PICK new \in ReceiptItems : new = item /\ new.payment = r
    BY <2>4
  <2>6. /\ list' \in Seq(ReceiptItems)
        /\ \A p \in Payments : InList(p)' = IF r = p THEN InList(p) \cup {Len(list) + 1}
                                                     ELSE InList(p)
    BY <1>1, <2>1, <2>5, ListAppend
  <2>7. \A p \in Payments :
           /\ p # r => InHands(p)' = InHands(p)
           /\ r \notin mislaid => /\ InHands(r) # {} /\ InHands(r)' = {}
                                 /\ InList(r) = {} /\ ~ Pushing(r)
           /\ Pushing(p)' = Pushing(p)
    BY <1>1, <2>2, <2>3, WorkerReleases
  <2> HIDE DEF item
  <2>8. ReceiptTypes'
    BY <1>1, <2>1, <2>2, <2>6 DEF ReceiptTypes
  <2>9. JobsFit'
    BY <1>1, <2>1, <2>2, ReceiptAgents DEF JobsFit, Only, Busy
  <2>10. MarkedExist'
    BY <1>1, <2>1, <2>2 DEF MarkedExist, Only
  <2>11. OneUnexplained'
    BY <1>1, <2>1, <2>2, Grounded
  <2>12. r \notin mislaid => InList(r)' = {Len(list) + 1}
    BY <2>3, <2>6, <2>7
  <2>13. \A p \in Payments \ mislaid : Waits(p)' = Waits(p)
    BY <2>3, <2>6, <2>7, <2>12 DEF Waits
  <2>14. OneItem'
    <3>1. ASSUME NEW p \in Payments, p # r
          PROVE  InList(p)' = InList(p) /\ InHands(p)' = InHands(p) /\ Pushing(p)' = Pushing(p)
      BY <2>6, <2>7, <3>1
    <3> QED BY <1>1, <2>1, <2>3, <2>7, <2>12, <2>13, <3>1 DEF OneItem
  <2>15. NoneLost'
    BY <1>1, <2>1, <2>2, <2>13, ReceiptAgents DEF NoneLost, Settled, Only
  <2> QED BY <2>8, <2>9, <2>10, <2>11, <2>14, <2>15 DEF ReceiptInv
<1>4. CASE R!PopFails(w)
  <2> DEFINE item == Head(list)
  <2>1. /\ agentAt[w] = "idle" /\ list # <<>> /\ list' = Tail(list)
        /\ mislaid' = mislaid \cup {item.payment}
        /\ UNCHANGED <<receipts, created, queued, doubtful, agentAt, job, attempts, blind,
                       unrecorded, finished, refused, dropped, crashes>>
    BY <1>4 DEF R!PopFails, R!Mislay
  <2>2. /\ list' \in Seq(ReceiptItems) /\ item \in ReceiptItems
        /\ \A p \in Payments \ mislaid :
              /\ item.payment # p => (InList(p)' = {} <=> InList(p) = {})
              /\ \A i, j \in InList(p)' : i = j
    <3>1. \A p \in Payments \ mislaid : \A i, j \in InList(p) : i = j
      BY <1>1 DEF OneItem
    <3>2. list \in Seq(ReceiptItems)
      BY <1>1 DEF ReceiptTypes
    <3>3. Tail(list) \in Seq(ReceiptItems) /\ Head(list) \in ReceiptItems
      BY <2>1, <3>2
    <3> QED BY <1>1, <2>1, <3>1, <3>3, ListTail
  <2>3. PICK r \in Payments : item.payment = r
    BY <2>2 DEF ReceiptItems
  <2>4. r \in mislaid' /\ mislaid \subseteq mislaid' /\ \A p \in Payments \ mislaid' : p # r
    BY <2>1, <2>3
  <2>5. \A p \in Payments : InHands(p)' = InHands(p) /\ Pushing(p)' = Pushing(p)
    BY <2>1 DEF InHands, Pushing
  <2>6. ReceiptTypes'
    BY <1>1, <2>1, <2>2 DEF ReceiptTypes
  <2>7. JobsFit' /\ MarkedExist'
    BY <1>1, <2>1 DEF JobsFit, MarkedExist
  <2>8. OneUnexplained'
    <3>1. \A p : SendingFor(p)' = SendingFor(p) /\ MarkingFor(p)' = MarkingFor(p)
      BY <2>1 DEF SendingFor, MarkingFor
    <3>2. \A p : FlyingFor(p)' = FlyingFor(p)
      BY <3>1 DEF FlyingFor
    <3> QED BY <1>1, <2>1, <3>1, <3>2 DEF OneUnexplained
  <2>9. OneItem' /\ \A p \in Payments \ mislaid' : Waits(p)' = Waits(p)
    <3>1. \A p \in Payments \ mislaid' :
             /\ p \in queued' <=> p \in queued
             /\ InList(p)' = {} <=> InList(p) = {}
             /\ \A i, j \in InList(p)' : i = j
             /\ InHands(p)' = InHands(p) /\ Pushing(p)' = Pushing(p)
      BY <2>1, <2>2, <2>3, <2>4, <2>5
    <3> QED BY <1>1, <2>4, <3>1, ItemMislaid
  <2>10. NoneLost'
    <3>1. \A p \in Payments \ mislaid' : Settled(p) => Settled(p)'
      BY <2>1, <2>9 DEF Settled
    <3> QED BY <1>1, <2>1, <2>4, <3>1 DEF NoneLost
  <2> QED BY <2>6, <2>7, <2>8, <2>9, <2>10 DEF ReceiptInv
<1>5. CASE R!RequeueFails(w)
  <2>1. /\ agentAt[w] = "requeueing" /\ R!Return(w) /\ mislaid' = mislaid \cup {job[w]}
        /\ UNCHANGED <<receipts, created, queued, list, doubtful, blind, unrecorded, finished,
                       refused, dropped, crashes>>
    BY <1>5 DEF R!RequeueFails, R!Mislay
  <2>2. /\ agentAt' \in [R!Agents -> Posts] /\ agentAt'[w] = "idle"
        /\ job' \in [R!Agents -> Payments \cup {Nothing}] /\ job'[w] = Nothing
        /\ attempts' \in [Workers -> Nat] /\ Only(w)
    BY <1>1, <2>1, ReceiptReturn
  <2>3. PICK r \in Payments : r = job[w]
    BY <1>1, <2>1 DEF JobsFit, ReceiptTypes
  <2>4. r \in mislaid' /\ mislaid \subseteq mislaid' /\ \A p \in Payments \ mislaid' : p # r
    BY <2>1, <2>3
  <2>5. \A p \in Payments : /\ p # r => InHands(p)' = InHands(p)
                            /\ Pushing(p)' = Pushing(p) /\ InList(p)' = InList(p)
    BY <1>1, <2>1, <2>2, <2>3, WorkerReleases DEF InList
  <2>6. ReceiptTypes'
    BY <1>1, <2>1, <2>2 DEF ReceiptTypes
  <2>7. JobsFit'
    BY <1>1, <2>1, <2>2, ReceiptAgents DEF JobsFit, Only, Busy
  <2>8. MarkedExist'
    BY <1>1, <2>1, <2>2 DEF MarkedExist, Only
  <2>9. OneUnexplained'
    BY <1>1, <2>1, <2>2, Grounded
  <2>10. OneItem' /\ \A p \in Payments \ mislaid' : Waits(p)' = Waits(p)
    <3>1. \A p \in Payments \ mislaid' :
             /\ p \in queued' <=> p \in queued
             /\ InList(p)' = {} <=> InList(p) = {}
             /\ \A i, j \in InList(p)' : i = j
             /\ InHands(p)' = InHands(p) /\ Pushing(p)' = Pushing(p)
      BY <1>1, <2>1, <2>4, <2>5 DEF OneItem
    <3> QED BY <1>1, <2>4, <3>1, ItemMislaid
  <2>11. NoneLost'
    <3>1. \A p \in Payments \ mislaid' : Settled(p) => Settled(p)'
      BY <2>1, <2>10 DEF Settled
    <3> QED BY <1>1, <2>1, <2>2, <2>4, <3>1, ReceiptAgents DEF NoneLost, Only
  <2> QED BY <2>6, <2>7, <2>8, <2>9, <2>10, <2>11 DEF ReceiptInv
<1> QED BY <1>2, <1>3, <1>4, <1>5

(* A handler or a worker goes on with the payment that fits him. *)
LEMMA JobsKept ==
    ASSUME ReceiptConstants, JobsFit, NEW a \in R!Agents, Only(a),
           a \in Payments =>
              /\ agentAt'[a] # "requeueing"
              /\ agentAt'[a] \in Busy \cup {"queueing", "pushing"} => job'[a] = a,
           a \in Workers =>
              /\ agentAt'[a] \in Busy \cup {"idle", "requeueing"}
              /\ agentAt'[a] # "idle" <=> job'[a] # Nothing
    PROVE  JobsFit'
BY ReceiptAgents DEF JobsFit, Only

(* What exists goes on existing. *)
LEMMA MarkedKept ==
    ASSUME ReceiptConstants, ReceiptTypes, JobsFit, MarkedExist, NEW a \in R!Agents, Only(a),
           UNCHANGED created, agentAt'[a] # "marking",
           receipts' \in [Payments -> Nat], \A p \in Payments : receipts'[p] >= receipts[p]
    PROVE  MarkedExist'
<1>1. \A p \in Payments : receipts[p] > 0 => receipts'[p] > 0
  BY DEF ReceiptTypes
<1>2. \A p \in created' : receipts'[p] > 0
  BY <1>1 DEF MarkedExist, ReceiptTypes
<1>3. ASSUME NEW b \in R!Agents, agentAt'[b] = "marking"
      PROVE  receipts'[job'[b]] > 0
  <2>1. agentAt[b] = "marking" /\ job'[b] = job[b] /\ receipts[job[b]] > 0
    BY <1>3 DEF Only, MarkedExist
  <2>2. CASE b \in Payments
    <3>1. job[b] \in Payments
      BY <2>1, <2>2 DEF JobsFit, Busy
    <3> QED BY <1>1, <2>1, <3>1
  <2>3. CASE b \in Workers
    <3>1. job[b] \in Payments
      BY <2>1, <2>3 DEF JobsFit, ReceiptTypes
    <3> QED BY <1>1, <2>1, <3>1
  <2> QED BY <2>2, <2>3, ReceiptAgents
<1> QED BY <1>2, <1>3 DEF MarkedExist

(* A step of create_receipt that leaves the item where it is. *)
LEMMA ItemStays ==
    ASSUME ReceiptConstants, ReceiptInv, NEW a \in R!Agents, Only(a), UNCHANGED <<list, queued>>,
           a \in Workers => job'[a] = job[a],
           agentAt'[a] # "pushing", agentAt[a] # "pushing", mislaid \subseteq mislaid'
    PROVE  /\ \A p \in Payments : Waits(p)' = Waits(p)
           /\ OneItem'
<1>1. \A p \in Payments : /\ InList(p)' = InList(p) /\ InHands(p)' = InHands(p)
                          /\ Pushing(p)' = Pushing(p) /\ Waits(p)' = Waits(p)
  BY PlacesKept
<1>2. OneItem'
  BY <1>1 DEF OneItem, ReceiptInv
<1> QED BY <1>1, <1>2

(* A step with which a worker is done with his item, and takes its mark away. *)
LEMMA ItemGoes ==
    ASSUME ReceiptConstants, ReceiptInv, NEW w \in Workers, NEW q \in Payments, Only(w),
           job[w] = q, job'[w] = Nothing, queued' \in {queued, queued \ {q}},
           UNCHANGED <<list, mislaid>>
    PROVE  /\ \A p \in Payments : p # q => Waits(p)' = Waits(p)
           /\ OneItem'
<1>1. \A p \in Payments : /\ p # q => InHands(p)' = InHands(p)
                          /\ q \notin mislaid => /\ InHands(q) # {} /\ InHands(q)' = {}
                                                /\ InList(q) = {} /\ ~ Pushing(q)
                          /\ Pushing(p)' = Pushing(p)
  BY WorkerReleases DEF ReceiptInv
<1>2. \A p : InList(p)' = InList(p)
  BY DEF InList
<1>3. \A p \in Payments : p # q => Waits(p)' = Waits(p)
  BY <1>1, <1>2 DEF Waits
<1>4. q \notin mislaid => ~ Waits(q)'
  BY <1>1, <1>2 DEF Waits
<1>5. OneItem'
  BY <1>1, <1>2, <1>3, <1>4 DEF OneItem, ReceiptInv
<1> QED BY <1>3, <1>5

(* create_receipt, for a payment's handler or a worker. *)
LEMMA ReceiptCreating ==
    ASSUME ReceiptConstants, ReceiptInv, NEW a \in R!Agents, R!CreateReceipt(a)
    PROVE  ReceiptInv'
<1>1. /\ ReceiptTypes /\ JobsFit /\ MarkedExist /\ OneUnexplained /\ OneItem /\ NoneLost
      /\ a \in Payments \/ a \in Workers
      /\ \A p \in Payments : receipts[p] \in Nat /\ doubtful[p] \in Nat
  BY ReceiptAgents DEF ReceiptInv, ReceiptTypes
<1> USE DEF R!redis, R!history
<1>2. CASE R!AlreadyCreated(a) /\ a \in Payments
  <2>1. /\ agentAt[a] = "checking"
        /\ job[a] \in created
        /\ R!Return(a)
        /\ UNCHANGED <<receipts, created, list, doubtful, blind, unrecorded, finished, refused,
                       dropped, mislaid, crashes>>
    BY <1>2 DEF R!AlreadyCreated
  <2>2. PICK q \in Payments : q = job[a]
    BY <1>1, <2>1 DEF JobsFit, ReceiptTypes, Busy
  <2>3. /\ agentAt' \in [R!Agents -> Posts] /\ Only(a)
        /\ agentAt'[a] = IF a \in Payments THEN "returned" ELSE "idle"
        /\ job' \in [R!Agents -> Payments \cup {Nothing}] /\ job'[a] = Nothing
        /\ attempts' \in [Workers -> Nat]
    BY <1>1, <2>1, ReceiptReturn
  <2>4. UNCHANGED queued
    BY <1>2, ReceiptAgents DEF R!AlreadyCreated, R!Release
  <2>5. ReceiptTypes'
    BY <1>1, <2>1, <2>2, <2>3, <2>4 DEF ReceiptTypes
  <2>6. JobsFit'
    BY <1>1, <2>1, <2>2, <2>3, ReceiptAgents DEF JobsFit, Only, Busy
  <2>7. MarkedExist'
    BY <1>1, <2>1, <2>2, <2>3 DEF MarkedExist, Only, ReceiptTypes
  <2>8. OneUnexplained'
    BY <1>1, <2>1, <2>2, <2>3, Grounded
  <2>9. (\A p \in Payments : Waits(p)' = Waits(p)) /\ OneItem'
    BY <1>1, <1>2, <2>1, <2>2, <2>3, <2>4, ReceiptAgents, ItemStays
  <2>10. NoneLost'
    <3>1. \A p \in Payments : Settled(p) => Settled(p)'
      BY <2>1, <2>9 DEF Settled
    <3>2. Settled(q)
      BY <1>1, <2>1, <2>2 DEF MarkedExist, Settled
    <3>3. a = q
      BY <1>1, <1>2, <2>1, <2>2 DEF JobsFit, Busy
    <3> QED BY <1>1, <2>1, <2>3, <2>4, <3>1, <3>2, <3>3, ReceiptAgents DEF NoneLost, Only
  <2> QED BY <2>5, <2>6, <2>7, <2>8, <2>9, <2>10 DEF ReceiptInv
<1>3. CASE R!AlreadyCreated(a) /\ a \in Workers
  <2>1. /\ agentAt[a] = "checking"
        /\ job[a] \in created
        /\ R!Return(a)
        /\ UNCHANGED <<receipts, created, list, doubtful, blind, unrecorded, finished, refused,
                       dropped, mislaid, crashes>>
    BY <1>3 DEF R!AlreadyCreated
  <2>2. PICK q \in Payments : q = job[a]
    BY <1>1, <2>1 DEF JobsFit, ReceiptTypes, Busy
  <2>3. /\ agentAt' \in [R!Agents -> Posts] /\ Only(a)
        /\ agentAt'[a] = IF a \in Payments THEN "returned" ELSE "idle"
        /\ job' \in [R!Agents -> Payments \cup {Nothing}] /\ job'[a] = Nothing
        /\ attempts' \in [Workers -> Nat]
    BY <1>1, <2>1, ReceiptReturn
  <2>4. queued' \in {queued, queued \ {q}}
    BY <1>3, <2>2 DEF R!AlreadyCreated, R!Release, R!Unqueue
  <2>5. ReceiptTypes'
    BY <1>1, <2>1, <2>2, <2>3, <2>4 DEF ReceiptTypes
  <2>6. JobsFit'
    BY <1>1, <2>1, <2>2, <2>3, ReceiptAgents DEF JobsFit, Only, Busy
  <2>7. MarkedExist'
    BY <1>1, <2>1, <2>2, <2>3 DEF MarkedExist, Only, ReceiptTypes
  <2>8. OneUnexplained'
    BY <1>1, <2>1, <2>2, <2>3, Grounded
  <2>9. (\A p \in Payments : p # q => Waits(p)' = Waits(p)) /\ OneItem'
    BY <1>1, <1>3, <2>4, <2>1, <2>2, <2>3, ItemGoes
  <2>10. NoneLost'
    <3>1. \A p \in Payments : p # q => (Settled(p) => Settled(p)')
      BY <2>1, <2>9 DEF Settled
    <3>2. Settled(q)'
      BY <1>1, <2>1, <2>2 DEF MarkedExist, Settled
    <3> QED BY <1>1, <1>3, <2>1, <2>3, <2>4, <3>1, <3>2, ReceiptAgents DEF NoneLost, Only
  <2> QED BY <2>5, <2>6, <2>7, <2>8, <2>9, <2>10 DEF ReceiptInv
<1>4. CASE R!Authenticate(a)
  <2>1. /\ agentAt[a] = "checking"
        /\ R!Goto(a, "sending")
        /\ blind' = [blind EXCEPT ![job[a]] = @ + R!Cardinality(R!InFlight(job[a]))
                                                + (IF job[a] \in created THEN 1 ELSE 0)]
        /\ UNCHANGED <<receipts, created, queued, list, doubtful, unrecorded, job, attempts,
                       finished, refused, dropped, mislaid, crashes>>
    BY <1>4 DEF R!Authenticate
  <2>2. PICK q \in Payments : q = job[a]
    BY <1>1, <2>1 DEF JobsFit, ReceiptTypes, Busy
  <2>3. /\ agentAt' \in [R!Agents -> Posts] /\ agentAt'[a] = "sending" /\ Only(a)
        /\ job' \in [R!Agents -> Payments \cup {Nothing}] /\ job'[a] = q
        /\ attempts' \in [Workers -> Nat]
    BY <1>1, <2>1, <2>2, ReceiptGoto DEF Posts, Busy, ReceiptTypes
  <2>4. R!InFlight(q) = FlyingFor(q) /\ R!Cardinality(R!InFlight(q)) = Cardinality(FlyingFor(q))
    <3>1. R!InFlight(q) = FlyingFor(q)
      BY DEF R!InFlight, FlyingFor, SendingFor, MarkingFor
    <3>2. \A S : R!Cardinality(S) = Cardinality(S)
      BY DEF R!Cardinality, Cardinality
    <3> QED BY <3>1, <3>2
  <2>5. /\ blind' \in [Payments -> Nat]
        /\ \A p \in Payments :
              blind'[p] = IF p = q THEN blind[p] + Cardinality(FlyingFor(p))
                                                 + (IF q \in created THEN 1 ELSE 0)
                                   ELSE blind[p]
    <3>1. Cardinality(FlyingFor(q)) \in Nat
      BY <1>1, Account
    <3>2. blind' = [blind EXCEPT ![q] = blind[q] + Cardinality(FlyingFor(q))
                                                 + (IF q \in created THEN 1 ELSE 0)]
      BY <2>1, <2>2, <2>4
    <3> QED BY <1>1, <3>1, <3>2 DEF ReceiptTypes
  <2>6. ReceiptTypes'
    BY <1>1, <2>1, <2>2, <2>3, <2>5 DEF ReceiptTypes
  <2>7. JobsFit'
    BY <1>1, <2>1, <2>2, <2>3, ReceiptAgents DEF JobsFit, Only, Busy
  <2>8. MarkedExist'
    BY <1>1, <2>1, <2>2, <2>3 DEF MarkedExist, Only, ReceiptTypes
  <2>9. OneUnexplained'
    BY <1>1, <2>1, <2>2, <2>3, <2>5, Launched
  <2>10. (\A p \in Payments : Waits(p)' = Waits(p)) /\ OneItem'
    BY <1>1, <2>1, <2>2, <2>3, ItemStays
  <2>11. NoneLost'
    BY <1>1, <2>1, <2>2, <2>3, <2>10, ReceiptAgents DEF NoneLost, Settled, Only
  <2> QED BY <2>6, <2>7, <2>8, <2>9, <2>10, <2>11 DEF ReceiptInv
<1>5. CASE R!Unavailable(a)
  <2>1. /\ agentAt[a] = "checking"
        /\ R!Goto(a, IF a \in Payments THEN "queueing" ELSE "requeueing")
        /\ UNCHANGED <<receipts, created, queued, list, doubtful, blind, unrecorded, job, attempts,
                       finished, refused, dropped, mislaid, crashes>>
    BY <1>5 DEF R!Unavailable
  <2>2. PICK q \in Payments : q = job[a]
    BY <1>1, <2>1 DEF JobsFit, ReceiptTypes, Busy
  <2>3. /\ agentAt' \in [R!Agents -> Posts]
        /\ agentAt'[a] = (IF a \in Payments THEN "queueing" ELSE "requeueing")
        /\ Only(a)
        /\ job' \in [R!Agents -> Payments \cup {Nothing}] /\ job'[a] = q
        /\ attempts' \in [Workers -> Nat]
    BY <1>1, <2>1, <2>2, ReceiptGoto DEF Posts, Busy, ReceiptTypes
  <2>4. ReceiptTypes'
    BY <1>1, <2>1, <2>2, <2>3 DEF ReceiptTypes
  <2>5. JobsFit'
    BY <1>1, <2>1, <2>2, <2>3, ReceiptAgents DEF JobsFit, Only, Busy
  <2>6. MarkedExist'
    BY <1>1, <2>1, <2>2, <2>3 DEF MarkedExist, Only, ReceiptTypes
  <2>7. OneUnexplained'
    BY <1>1, <2>1, <2>2, <2>3, Grounded
  <2>8. (\A p \in Payments : Waits(p)' = Waits(p)) /\ OneItem'
    BY <1>1, <2>1, <2>2, <2>3, ItemStays
  <2>9. NoneLost'
    BY <1>1, <2>1, <2>2, <2>3, <2>8, ReceiptAgents DEF NoneLost, Settled, Only
  <2> QED BY <2>4, <2>5, <2>6, <2>7, <2>8, <2>9 DEF ReceiptInv
<1>6. CASE R!Answered(a)
  <2>1. /\ agentAt[a] = "sending"
        /\ receipts' = [receipts EXCEPT ![job[a]] = @ + 1]
        /\ R!Goto(a, "marking")
        /\ UNCHANGED <<created, queued, list, doubtful, blind, unrecorded, job, attempts, finished,
                       refused, dropped, mislaid, crashes>>
    BY <1>6 DEF R!Answered
  <2>2. PICK q \in Payments : q = job[a]
    BY <1>1, <2>1 DEF JobsFit, ReceiptTypes, Busy
  <2>3. /\ agentAt' \in [R!Agents -> Posts] /\ agentAt'[a] = "marking" /\ Only(a)
        /\ job' \in [R!Agents -> Payments \cup {Nothing}] /\ job'[a] = q
        /\ attempts' \in [Workers -> Nat]
    BY <1>1, <2>1, <2>2, ReceiptGoto DEF Posts, Busy, ReceiptTypes
  <2>4. /\ receipts' \in [Payments -> Nat]
        /\ \A p \in Payments : receipts'[p] = IF p = q THEN receipts[p] + 1 ELSE receipts[p]
    BY <1>1, <2>1, <2>2 DEF ReceiptTypes
  <2>5. ReceiptTypes'
    BY <1>1, <2>1, <2>2, <2>3, <2>4 DEF ReceiptTypes
  <2>6. JobsFit'
    BY <1>1, <2>1, <2>2, <2>3, ReceiptAgents DEF JobsFit, Only, Busy
  <2>7. MarkedExist'
    BY <1>1, <2>1, <2>2, <2>3, <2>4 DEF MarkedExist, Only, ReceiptTypes
  <2>8. OneUnexplained'
    BY <1>1, <2>1, <2>2, <2>3, <2>4, Landed
  <2>9. (\A p \in Payments : Waits(p)' = Waits(p)) /\ OneItem'
    BY <1>1, <2>1, <2>2, <2>3, ItemStays
  <2>10. NoneLost'
    BY <1>1, <2>1, <2>2, <2>3, <2>9, <2>4, ReceiptAgents DEF NoneLost, Settled, Only
  <2> QED BY <2>5, <2>6, <2>7, <2>8, <2>9, <2>10 DEF ReceiptInv
<1>7. CASE (R!Mark(a) \/ R!MarkFails(a)) /\ a \in Payments
  <2>1. /\ agentAt[a] = "marking"
        /\ \/ created' = created \cup {job[a]} /\ UNCHANGED blind
           \/ created' = created /\ blind' = [blind EXCEPT ![job[a]] = @ + 1]
        /\ R!Return(a)
        /\ UNCHANGED <<receipts, list, doubtful, unrecorded, finished, refused, dropped,
                       mislaid, crashes>>
    BY <1>7 DEF R!Mark, R!MarkFails
  <2>2. PICK q \in Payments : q = job[a]
    BY <1>1, <2>1 DEF JobsFit, ReceiptTypes, Busy
  <2>3. /\ agentAt' \in [R!Agents -> Posts] /\ Only(a)
        /\ agentAt'[a] = IF a \in Payments THEN "returned" ELSE "idle"
        /\ job' \in [R!Agents -> Payments \cup {Nothing}] /\ job'[a] = Nothing
        /\ attempts' \in [Workers -> Nat]
    BY <1>1, <2>1, ReceiptReturn
  <2>4. UNCHANGED queued
    BY <1>7, ReceiptAgents DEF R!Mark, R!MarkFails, R!Release
  <2>5. ReceiptTypes'
    <3>1. created' \subseteq Payments /\ queued' \subseteq Payments
      BY <1>1, <2>1, <2>2, <2>4 DEF ReceiptTypes
    <3>2. blind' \in [Payments -> Nat]
      <4>1. CASE UNCHANGED blind
        BY <1>1, <4>1 DEF ReceiptTypes
      <4>2. CASE blind' = [blind EXCEPT ![q] = @ + 1]
        BY <1>1, <4>2 DEF ReceiptTypes
      <4> QED BY <2>1, <2>2, <4>1, <4>2
    <3> QED BY <1>1, <2>1, <2>3, <3>1, <3>2 DEF ReceiptTypes
  <2>6. JobsFit'
    BY <1>1, <2>1, <2>2, <2>3, ReceiptAgents DEF JobsFit, Only, Busy
  <2>7. MarkedExist'
    <3>1. receipts[q] > 0
      BY <1>1, <2>1, <2>2 DEF MarkedExist
    <3> QED BY <1>1, <2>1, <2>2, <2>3, <3>1 DEF MarkedExist, Only, ReceiptTypes
  <2>8. OneUnexplained'
    BY <1>1, <2>1, <2>2, <2>3, Marked
  <2>9. (\A p \in Payments : Waits(p)' = Waits(p)) /\ OneItem'
    BY <1>1, <1>7, <2>1, <2>2, <2>3, <2>4, ReceiptAgents, ItemStays
  <2>10. NoneLost'
    <3>1. \A p \in Payments : Settled(p) => Settled(p)'
      BY <2>1, <2>9 DEF Settled
    <3>2. Settled(q)
      BY <1>1, <2>1, <2>2 DEF MarkedExist, Settled
    <3>3. a = q
      BY <1>1, <1>7, <2>1, <2>2 DEF JobsFit, Busy
    <3> QED BY <1>1, <2>1, <2>3, <2>4, <3>1, <3>2, <3>3, ReceiptAgents DEF NoneLost, Only
  <2> QED BY <2>5, <2>6, <2>7, <2>8, <2>9, <2>10 DEF ReceiptInv
<1>8. CASE (R!Mark(a) \/ R!MarkFails(a)) /\ a \in Workers
  <2>1. /\ agentAt[a] = "marking"
        /\ \/ created' = created \cup {job[a]} /\ UNCHANGED blind
           \/ created' = created /\ blind' = [blind EXCEPT ![job[a]] = @ + 1]
        /\ R!Return(a)
        /\ UNCHANGED <<receipts, list, doubtful, unrecorded, finished, refused, dropped,
                       mislaid, crashes>>
    BY <1>8 DEF R!Mark, R!MarkFails
  <2>2. PICK q \in Payments : q = job[a]
    BY <1>1, <2>1 DEF JobsFit, ReceiptTypes, Busy
  <2>3. /\ agentAt' \in [R!Agents -> Posts] /\ Only(a)
        /\ agentAt'[a] = IF a \in Payments THEN "returned" ELSE "idle"
        /\ job' \in [R!Agents -> Payments \cup {Nothing}] /\ job'[a] = Nothing
        /\ attempts' \in [Workers -> Nat]
    BY <1>1, <2>1, ReceiptReturn
  <2>4. queued' \in {queued, queued \ {q}}
    BY <1>8, <2>2 DEF R!Mark, R!MarkFails, R!Release, R!Unqueue
  <2>5. ReceiptTypes'
    <3>1. created' \subseteq Payments /\ queued' \subseteq Payments
      BY <1>1, <2>1, <2>2, <2>4 DEF ReceiptTypes
    <3>2. blind' \in [Payments -> Nat]
      <4>1. CASE UNCHANGED blind
        BY <1>1, <4>1 DEF ReceiptTypes
      <4>2. CASE blind' = [blind EXCEPT ![q] = @ + 1]
        BY <1>1, <4>2 DEF ReceiptTypes
      <4> QED BY <2>1, <2>2, <4>1, <4>2
    <3> QED BY <1>1, <2>1, <2>3, <3>1, <3>2 DEF ReceiptTypes
  <2>6. JobsFit'
    BY <1>1, <2>1, <2>2, <2>3, ReceiptAgents DEF JobsFit, Only, Busy
  <2>7. MarkedExist'
    <3>1. receipts[q] > 0
      BY <1>1, <2>1, <2>2 DEF MarkedExist
    <3> QED BY <1>1, <2>1, <2>2, <2>3, <3>1 DEF MarkedExist, Only, ReceiptTypes
  <2>8. OneUnexplained'
    BY <1>1, <2>1, <2>2, <2>3, Marked
  <2>9. (\A p \in Payments : p # q => Waits(p)' = Waits(p)) /\ OneItem'
    BY <1>1, <1>8, <2>4, <2>1, <2>2, <2>3, ItemGoes
  <2>10. NoneLost'
    <3>1. \A p \in Payments : p # q => (Settled(p) => Settled(p)')
      BY <2>1, <2>9 DEF Settled
    <3>2. Settled(q)'
      BY <1>1, <2>1, <2>2 DEF MarkedExist, Settled
    <3> QED BY <1>1, <1>8, <2>1, <2>3, <2>4, <3>1, <3>2, ReceiptAgents DEF NoneLost, Only
  <2> QED BY <2>5, <2>6, <2>7, <2>8, <2>9, <2>10 DEF ReceiptInv
<1>9. CASE (R!TimedOut(a) \/ R!Refused(a)) /\ a \in Workers
  <2>1. /\ agentAt[a] = "sending"
        /\ \E made \in {0, 1} : receipts' = [receipts EXCEPT ![job[a]] = @ + made]
        /\ \/ doubtful' = [doubtful EXCEPT ![job[a]] = @ + 1] /\ UNCHANGED unrecorded
           \/ unrecorded' = [unrecorded EXCEPT ![job[a]] = @ + 1] /\ UNCHANGED doubtful
        /\ mislaid \subseteq mislaid' /\ refused \subseteq refused'
        /\ R!Goto(a, "requeueing") /\ UNCHANGED <<job, attempts>>
        /\ UNCHANGED <<created, queued, list, blind, finished, dropped, crashes>>
    BY <1>9, ReceiptAgents DEF R!TimedOut, R!Refused, R!PerhapsMade, R!NoResult, R!Mislay
  <2>2. PICK q \in Payments : q = job[a]
    BY <1>1, <2>1 DEF JobsFit, ReceiptTypes, Busy
  <2>3. /\ agentAt' \in [R!Agents -> Posts] /\ agentAt'[a] = "requeueing" /\ Only(a)
        /\ job' \in [R!Agents -> Payments \cup {Nothing}] /\ job'[a] = q
        /\ attempts' \in [Workers -> Nat]
    BY <1>1, <2>1, <2>2, ReceiptGoto DEF Posts, Busy, ReceiptTypes
  <2>4. /\ receipts' \in [Payments -> Nat] /\ doubtful' \in [Payments -> Nat]
        /\ unrecorded' \in [Payments -> Nat]
        /\ \A p \in Payments :
              /\ receipts'[p] >= receipts[p] /\ doubtful'[p] >= doubtful[p]
              /\ receipts'[p] - doubtful'[p] - unrecorded'[p]
                    <= receipts[p] - doubtful[p] - unrecorded[p]
    <3>1. PICK made \in {0, 1} : receipts' = [receipts EXCEPT ![q] = @ + made]
      BY <2>1, <2>2
    <3>2. PICK more \in {0, 1} : doubtful' = [doubtful EXCEPT ![q] = @ + more]
                                /\ unrecorded' = [unrecorded EXCEPT ![q] = @ + (1 - more)]
      <4>1. CASE doubtful' = [doubtful EXCEPT ![q] = @ + 1] /\ UNCHANGED unrecorded
        <5>1. /\ doubtful' = [doubtful EXCEPT ![q] = @ + 1]
              /\ unrecorded' = [unrecorded EXCEPT ![q] = @ + (1 - 1)]
          BY <1>1, <4>1 DEF ReceiptTypes
        <5> QED BY <5>1
      <4>2. CASE unrecorded' = [unrecorded EXCEPT ![q] = @ + 1] /\ UNCHANGED doubtful
        <5>1. /\ doubtful' = [doubtful EXCEPT ![q] = @ + 0]
              /\ unrecorded' = [unrecorded EXCEPT ![q] = @ + (1 - 0)]
          BY <1>1, <4>2 DEF ReceiptTypes
        <5> QED BY <5>1
      <4> QED BY <2>1, <2>2, <4>1, <4>2
    <3>3. /\ receipts' \in [Payments -> Nat] /\ doubtful' \in [Payments -> Nat]
          /\ unrecorded' \in [Payments -> Nat]
          /\ \A p \in Payments :
                /\ receipts'[p] = IF p = q THEN receipts[p] + made ELSE receipts[p]
                /\ doubtful'[p] = IF p = q THEN doubtful[p] + more ELSE doubtful[p]
                /\ unrecorded'[p] = IF p = q THEN unrecorded[p] + (1 - more)
                                              ELSE unrecorded[p]
      <4>1. /\ receipts' \in [Payments -> Nat]
            /\ \A p \in Payments :
                  receipts'[p] = IF p = q THEN receipts[p] + made ELSE receipts[p]
        BY <1>1, <3>1 DEF ReceiptTypes
      <4>2. /\ doubtful' \in [Payments -> Nat]
            /\ \A p \in Payments :
                  doubtful'[p] = IF p = q THEN doubtful[p] + more ELSE doubtful[p]
        BY <1>1, <3>2 DEF ReceiptTypes
      <4>3. /\ unrecorded' \in [Payments -> Nat]
            /\ \A p \in Payments :
                  unrecorded'[p] = IF p = q THEN unrecorded[p] + (1 - more)
                                            ELSE unrecorded[p]
        <5>1. 1 - more \in Nat
          OBVIOUS
        <5> QED BY <1>1, <3>2, <5>1 DEF ReceiptTypes
      <4> QED BY <4>1, <4>2, <4>3
    <3>4. \A p \in Payments : receipts[p] \in Nat /\ doubtful[p] \in Nat /\ unrecorded[p] \in Nat
      BY <1>1 DEF ReceiptTypes
    <3> QED BY <3>3, <3>4
  <2>5. ReceiptTypes'
    BY <1>1, <2>1, <2>2, <2>3, <2>4 DEF ReceiptTypes
  <2>6. JobsFit'
    <3>1. a \notin Payments /\ q # Nothing
      BY <1>9, ReceiptAgents
    <3> QED BY <1>1, <2>3, <3>1, JobsKept DEF Busy
  <2>7. MarkedExist'
    <3>1. UNCHANGED created /\ agentAt'[a] # "marking"
      BY <2>1, <2>3
    <3> QED BY <1>1, <2>3, <2>4, <3>1, MarkedKept
  <2>8. OneUnexplained'
    <3>1. agentAt'[a] \notin {"sending", "marking"}
      BY <2>3
    <3>2. \A p \in Payments : receipts'[p] - doubtful'[p] - unrecorded'[p]
                                <= receipts[p] - doubtful[p] - unrecorded[p]
      BY <2>4
    <3> QED BY <1>1, <2>1, <2>2, <2>3, <2>4, <3>1, <3>2, Unanswered
  <2>9. (\A p \in Payments : Waits(p)' = Waits(p)) /\ OneItem'
    BY <1>1, <1>9, <2>1, <2>2, <2>3, ReceiptAgents, ItemStays
  <2>10. NoneLost'
    <3>1. \A p \in Payments : Settled(p) => Settled(p)'
      BY <1>1, <2>1, <2>4, <2>9 DEF Settled
    <3> QED BY <1>1, <1>9, <2>1, <2>3, <3>1, ReceiptAgents DEF NoneLost, Only
  <2> QED BY <2>5, <2>6, <2>7, <2>8, <2>9, <2>10 DEF ReceiptInv
<1>10. CASE (R!TimedOut(a) \/ R!Refused(a)) /\ a \in Payments
  <2>1. /\ agentAt[a] = "sending"
        /\ \E made \in {0, 1} : receipts' = [receipts EXCEPT ![job[a]] = @ + made]
        /\ \/ doubtful' = [doubtful EXCEPT ![job[a]] = @ + 1] /\ UNCHANGED unrecorded
           \/ unrecorded' = [unrecorded EXCEPT ![job[a]] = @ + 1] /\ UNCHANGED doubtful
        /\ mislaid \subseteq mislaid' /\ refused \subseteq refused'
        /\ R!Return(a)
        /\ UNCHANGED <<created, queued, list, blind, finished, dropped, crashes>>
    BY <1>10, ReceiptAgents DEF R!TimedOut, R!Refused, R!PerhapsMade, R!NoResult, R!Mislay
  <2>2. PICK q \in Payments : q = job[a]
    BY <1>1, <2>1 DEF JobsFit, ReceiptTypes, Busy
  <2>3. /\ agentAt' \in [R!Agents -> Posts] /\ Only(a)
        /\ agentAt'[a] = IF a \in Payments THEN "returned" ELSE "idle"
        /\ job' \in [R!Agents -> Payments \cup {Nothing}] /\ job'[a] = Nothing
        /\ attempts' \in [Workers -> Nat]
    BY <1>1, <2>1, ReceiptReturn
  <2>4. /\ receipts' \in [Payments -> Nat] /\ doubtful' \in [Payments -> Nat]
        /\ unrecorded' \in [Payments -> Nat]
        /\ \A p \in Payments :
              /\ receipts'[p] >= receipts[p] /\ doubtful'[p] >= doubtful[p]
              /\ receipts'[p] - doubtful'[p] - unrecorded'[p]
                    <= receipts[p] - doubtful[p] - unrecorded[p]
    <3>1. PICK made \in {0, 1} : receipts' = [receipts EXCEPT ![q] = @ + made]
      BY <2>1, <2>2
    <3>2. PICK more \in {0, 1} : doubtful' = [doubtful EXCEPT ![q] = @ + more]
                                /\ unrecorded' = [unrecorded EXCEPT ![q] = @ + (1 - more)]
      <4>1. CASE doubtful' = [doubtful EXCEPT ![q] = @ + 1] /\ UNCHANGED unrecorded
        <5>1. /\ doubtful' = [doubtful EXCEPT ![q] = @ + 1]
              /\ unrecorded' = [unrecorded EXCEPT ![q] = @ + (1 - 1)]
          BY <1>1, <4>1 DEF ReceiptTypes
        <5> QED BY <5>1
      <4>2. CASE unrecorded' = [unrecorded EXCEPT ![q] = @ + 1] /\ UNCHANGED doubtful
        <5>1. /\ doubtful' = [doubtful EXCEPT ![q] = @ + 0]
              /\ unrecorded' = [unrecorded EXCEPT ![q] = @ + (1 - 0)]
          BY <1>1, <4>2 DEF ReceiptTypes
        <5> QED BY <5>1
      <4> QED BY <2>1, <2>2, <4>1, <4>2
    <3>3. /\ receipts' \in [Payments -> Nat] /\ doubtful' \in [Payments -> Nat]
          /\ unrecorded' \in [Payments -> Nat]
          /\ \A p \in Payments :
                /\ receipts'[p] = IF p = q THEN receipts[p] + made ELSE receipts[p]
                /\ doubtful'[p] = IF p = q THEN doubtful[p] + more ELSE doubtful[p]
                /\ unrecorded'[p] = IF p = q THEN unrecorded[p] + (1 - more)
                                              ELSE unrecorded[p]
      <4>1. /\ receipts' \in [Payments -> Nat]
            /\ \A p \in Payments :
                  receipts'[p] = IF p = q THEN receipts[p] + made ELSE receipts[p]
        BY <1>1, <3>1 DEF ReceiptTypes
      <4>2. /\ doubtful' \in [Payments -> Nat]
            /\ \A p \in Payments :
                  doubtful'[p] = IF p = q THEN doubtful[p] + more ELSE doubtful[p]
        BY <1>1, <3>2 DEF ReceiptTypes
      <4>3. /\ unrecorded' \in [Payments -> Nat]
            /\ \A p \in Payments :
                  unrecorded'[p] = IF p = q THEN unrecorded[p] + (1 - more)
                                            ELSE unrecorded[p]
        <5>1. 1 - more \in Nat
          OBVIOUS
        <5> QED BY <1>1, <3>2, <5>1 DEF ReceiptTypes
      <4> QED BY <4>1, <4>2, <4>3
    <3>4. \A p \in Payments : receipts[p] \in Nat /\ doubtful[p] \in Nat /\ unrecorded[p] \in Nat
      BY <1>1 DEF ReceiptTypes
    <3> QED BY <3>3, <3>4
  <2>5. ReceiptTypes'
    BY <1>1, <2>1, <2>2, <2>3, <2>4 DEF ReceiptTypes
  <2>6. JobsFit'
    <3>1. a \notin Workers
      BY <1>10, ReceiptAgents
    <3> QED BY <1>1, <1>10, <2>3, <3>1, JobsKept DEF Busy
  <2>7. MarkedExist'
    <3>1. UNCHANGED created /\ agentAt'[a] # "marking"
      BY <2>1, <2>3
    <3> QED BY <1>1, <2>3, <2>4, <3>1, MarkedKept
  <2>8. OneUnexplained'
    <3>1. agentAt'[a] \notin {"sending", "marking"}
      BY <2>3
    <3>2. \A p \in Payments : receipts'[p] - doubtful'[p] - unrecorded'[p]
                                <= receipts[p] - doubtful[p] - unrecorded[p]
      BY <2>4
    <3> QED BY <1>1, <2>1, <2>2, <2>3, <2>4, <3>1, <3>2, Unanswered
  <2>9. (\A p \in Payments : Waits(p)' = Waits(p)) /\ OneItem'
    BY <1>1, <1>10, <2>1, <2>2, <2>3, ReceiptAgents, ItemStays
  <2>10. NoneLost'
    <3>1. \A p \in Payments : Settled(p) => Settled(p)'
      BY <1>1, <2>1, <2>4, <2>9 DEF Settled
    <3>2. a = q
      BY <1>1, <1>10, <2>1, <2>2 DEF JobsFit, Busy
    <3>3. doubtful'[q] > 0 \/ q \in refused' \/ q \in mislaid'
      <4>1. R!Refused(a) => a \in refused'
        BY <1>10 DEF R!Refused
      <4>2. R!TimedOut(a) => doubtful' = [doubtful EXCEPT ![q] = @ + 1] \/ q \in mislaid'
        BY <2>2 DEF R!TimedOut, R!Mislay
      <4> QED BY <1>1, <1>10, <3>2, <4>1, <4>2 DEF ReceiptTypes
    <3>4. q \in mislaid' \/ Settled(q)'
      BY <3>3 DEF Settled
    <3> QED BY <1>1, <2>1, <2>3, <3>1, <3>2, <3>4, ReceiptAgents DEF NoneLost, Only
  <2> QED BY <2>5, <2>6, <2>7, <2>8, <2>9, <2>10 DEF ReceiptInv
<1> QED BY <1>1, <1>2, <1>3, <1>4, <1>5, <1>6, <1>7, <1>8, <1>9, <1>10 DEF R!CreateReceipt

(* After a crash nobody holds an item; those in the list are still there. *)
LEMMA ReceiptCrash ==
    ASSUME ReceiptConstants, ReceiptInv, crashes \in Nat, R!Crash
    PROVE  ReceiptInv'
<1>1. ReceiptTypes /\ JobsFit /\ MarkedExist /\ OneUnexplained /\ OneItem /\ NoneLost
  BY DEF ReceiptInv
<1>2. /\ crashes' = crashes + 1
      /\ blind' = [p \in Payments |->
              blind[p] + R!Cardinality({a \in R!InFlight(p) : agentAt[a] = "marking"})]
      /\ agentAt' = [a \in R!Agents |-> "idle"]
      /\ job' = [a \in R!Agents |-> Nothing]
      /\ attempts' = [w \in Workers |-> 0]
      /\ UNCHANGED <<receipts, created, queued, list, doubtful, unrecorded, finished, refused,
                     dropped, mislaid>>
  BY DEF R!Crash, R!redis
<1>3. /\ agentAt' \in [R!Agents -> Posts] /\ \A a \in R!Agents : agentAt'[a] = "idle"
      /\ job' \in [R!Agents -> Payments \cup {Nothing}]
      /\ \A a \in R!Agents : job'[a] = Nothing
      /\ attempts' \in [Workers -> Nat]
  BY <1>2 DEF Posts
<1>4. \A p \in Payments : blind'[p] = blind[p] + Cardinality(MarkingFor(p))
  <2>1. \A p : {a \in R!InFlight(p) : agentAt[a] = "marking"} = MarkingFor(p)
    BY DEF R!InFlight, MarkingFor
  <2>2. \A S : R!Cardinality(S) = Cardinality(S)
    BY DEF R!Cardinality, Cardinality
  <2> QED BY <1>2, <2>1, <2>2
<1>5. ReceiptTypes'
  <2>1. \A p \in Payments : blind'[p] \in Nat
    BY <1>1, <1>4, Account, FlyingFinite, FS_CardinalityType
  <2>2. blind' \in [Payments -> Nat]
    BY <1>2, <2>1
  <2> QED BY <1>1, <1>2, <1>3, <2>2 DEF ReceiptTypes
<1>6. JobsFit'
  BY <1>3, ReceiptAgents DEF JobsFit, Busy
<1>7. MarkedExist'
  BY <1>1, <1>2, <1>3 DEF MarkedExist
<1>8. OneUnexplained'
  BY <1>1, <1>2, <1>3, <1>4, Crashed
<1>9. \A p \in Payments : InList(p)' = InList(p) /\ InHands(p)' = {} /\ ~ Pushing(p)'
  BY <1>2, <1>3, ReceiptAgents DEF InList, InHands, Pushing
<1>10. OneItem'
  <2>1. \A p \in Payments : Waits(p)' => Waits(p)
    BY <1>9 DEF Waits
  <2> QED BY <1>1, <1>2, <1>9, <2>1 DEF OneItem
<1>11. NoneLost'
  BY <1>2 DEF NoneLost
<1> QED BY <1>5, <1>6, <1>7, <1>8, <1>10, <1>11 DEF ReceiptInv

(* Crashes are counted. *)
CrashCount == crashes \in Nat

(* At the start nothing is queued and nothing is sent. *)
LEMMA ReceiptInit == ReceiptConstants /\ R!Init => ReceiptInv /\ CrashCount
<1>1. SUFFICES ASSUME ReceiptConstants, R!Init PROVE ReceiptInv /\ CrashCount
  OBVIOUS
<1>2. /\ receipts = [p \in Payments |-> 0] /\ doubtful = [p \in Payments |-> 0]
      /\ blind = [p \in Payments |-> 0] /\ unrecorded = [p \in Payments |-> 0]
      /\ created = {} /\ queued = {} /\ finished = {} /\ list = <<>> /\ crashes = 0
      /\ agentAt = [a \in R!Agents |-> "idle"] /\ job = [a \in R!Agents |-> Nothing]
      /\ attempts = [w \in Workers |-> 0]
  BY <1>1 DEF R!Init
<1>3. \A a \in R!Agents : agentAt[a] = "idle" /\ job[a] = Nothing
  BY <1>2
<1>4. ReceiptTypes
  BY <1>2 DEF ReceiptTypes, Posts
<1>5. JobsFit
  BY <1>1, <1>3, ReceiptAgents DEF JobsFit, Busy
<1>6. MarkedExist
  BY <1>2, <1>3 DEF MarkedExist
<1>7. OneUnexplained
  <2>1. \A p : SendingFor(p) = {} /\ FlyingFor(p) = {}
    BY <1>3 DEF SendingFor, MarkingFor, FlyingFor
  <2>2. \A p : IsFiniteSet(FlyingFor(p)) /\ Cardinality(SendingFor(p)) = 0
    BY <2>1, FS_EmptySet
  <2>3. \A p \in Payments : /\ receipts[p] = 0 /\ doubtful[p] = 0
                            /\ unrecorded[p] = 0 /\ blind[p] = 0
    BY <1>2
  <2> QED BY <1>2, <2>1, <2>2, <2>3 DEF OneUnexplained
<1>8. \A p \in Payments : InList(p) = {} /\ InHands(p) = {} /\ ~ Pushing(p)
  BY <1>1, <1>2, <1>3, ReceiptAgents DEF InList, InHands, Pushing
<1>9. OneItem
  BY <1>8 DEF OneItem, Waits
<1>10. NoneLost
  BY <1>1, <1>2, <1>3, ReceiptAgents DEF NoneLost
<1>11. CrashCount
  BY <1>2 DEF CrashCount
<1> QED BY <1>4, <1>5, <1>6, <1>7, <1>9, <1>10, <1>11 DEF ReceiptInv

(* Every step of the queue keeps the invariant. *)
LEMMA ReceiptNext ==
    ReceiptConstants /\ ReceiptInv /\ CrashCount /\ [R!Next]_(R!vars)
        => ReceiptInv' /\ CrashCount'
<1>1. SUFFICES ASSUME ReceiptConstants, ReceiptInv, CrashCount, [R!Next]_(R!vars)
               PROVE  ReceiptInv' /\ CrashCount'
  OBVIOUS
<1>2. ASSUME NEW p \in Payments,
             R!Ask(p) \/ R!Finish(p) \/ R!CreateReceipt(p) \/ R!QueueReceipt(p)
      PROVE  ReceiptInv'
  BY <1>1, <1>2, ReceiptAgents, ReceiptAsk, ReceiptCreating, ReceiptQueueing
<1>3. ASSUME NEW w \in Workers, R!WorkerStep(w)
      PROVE  ReceiptInv'
  BY <1>1, <1>3, ReceiptAgents, ReceiptCreating, ReceiptWorking DEF R!WorkerStep
<1>4. ASSUME R!Crash
      PROVE  ReceiptInv'
  BY <1>1, <1>4, ReceiptCrash DEF CrashCount
<1>5. ASSUME UNCHANGED R!vars
      PROVE  ReceiptInv'
  <2>1. UNCHANGED <<receipts, created, queued, list, doubtful, agentAt, job, attempts, blind,
                    unrecorded, finished, refused, dropped, mislaid, crashes>>
    BY <1>5 DEF R!vars, R!redis, R!history
  <2>2. \A p : /\ SendingFor(p)' = SendingFor(p) /\ FlyingFor(p)' = FlyingFor(p)
               /\ InList(p)' = InList(p) /\ InHands(p)' = InHands(p)
    BY <2>1 DEF SendingFor, MarkingFor, FlyingFor, InList, InHands
  <2>3. ReceiptTypes' /\ JobsFit' /\ MarkedExist'
    BY <1>1, <2>1 DEF ReceiptInv, ReceiptTypes, JobsFit, MarkedExist
  <2>4. OneUnexplained'
    BY <1>1, <2>1, <2>2 DEF ReceiptInv, OneUnexplained
  <2>5. OneItem' /\ NoneLost'
    BY <1>1, <2>1, <2>2 DEF ReceiptInv, OneItem, NoneLost, Settled, Waits, Pushing
  <2> QED BY <2>3, <2>4, <2>5 DEF ReceiptInv
<1>6. ReceiptInv'
  BY <1>1, <1>2, <1>3, <1>4, <1>5 DEF R!Next
<1>7. crashes' = crashes \/ crashes' = crashes + 1
  <2>1. CASE R!Crash
    BY <2>1 DEF R!Crash
  <2>2. ASSUME NEW p \in Payments,
               R!Ask(p) \/ R!Finish(p) \/ R!CreateReceipt(p) \/ R!QueueReceipt(p)
        PROVE  crashes' = crashes
    BY <2>2 DEF R!Ask, R!Finish, R!CreateReceipt, R!QueueReceipt, R!SetMark, R!SetMarkFails,
       R!Push, R!PushFails, R!history, R!AlreadyCreated, R!Authenticate, R!Unavailable,
       R!Answered, R!Mark, R!MarkFails, R!TimedOut, R!Refused
  <2>3. ASSUME NEW w \in Workers, R!WorkerStep(w)
        PROVE  crashes' = crashes
    BY <2>3 DEF R!WorkerStep, R!Pop, R!PopFails, R!CreateReceipt, R!Requeue, R!RequeueFails,
       R!history, R!AlreadyCreated, R!Authenticate, R!Unavailable, R!Answered, R!Mark,
       R!MarkFails, R!TimedOut, R!Refused
  <2>4. CASE UNCHANGED R!vars
    BY <2>4 DEF R!vars, R!history
  <2> QED BY <1>1, <2>1, <2>2, <2>3, <2>4 DEF R!Next
<1>8. CrashCount'
  BY <1>1, <1>7 DEF CrashCount
<1> QED BY <1>6, <1>8

(* A set in which any two are the same has at most one element. *)
LEMMA AtMostOne ==
    ASSUME NEW S, \A x, y \in S : x = y
    PROVE  Cardinality(S) = IF S = {} THEN 0 ELSE 1
<1>1. CASE S = {}
  BY <1>1, FS_EmptySet
<1>2. CASE S # {}
  <2>1. PICK x : x \in S
    BY <1>2
  <2>2. S = {x}
    BY <2>1
  <2> QED BY <1>2, <2>2, FS_Singleton
<1> QED BY <1>1, <1>2

(* The receipts as the properties count them. *)
LEMMA ReceiptBooks == ReceiptInv /\ CrashCount => ReceiptsExplained /\ NoneForgotten
<1>1. SUFFICES ASSUME ReceiptInv, CrashCount PROVE ReceiptsExplained /\ NoneForgotten
  OBVIOUS
<1>2. ReceiptTypes /\ OneUnexplained /\ OneItem /\ NoneLost
  BY <1>1 DEF ReceiptInv
<1>3. ASSUME NEW p \in Payments PROVE receipts[p] <= 1 + doubtful[p] + unrecorded[p] + blind[p]
  <2>1. /\ receipts[p] \in Nat /\ doubtful[p] \in Nat
        /\ unrecorded[p] \in Nat /\ blind[p] \in Nat
        /\ Cardinality(SendingFor(p)) \in Nat
        /\ receipts[p] + Cardinality(SendingFor(p))
              <= doubtful[p] + unrecorded[p] + blind[p]
                    + (IF p \in created \/ FlyingFor(p) # {} THEN 1 ELSE 0)
    BY <1>2, Account
  <2>2. receipts[p] + Cardinality(SendingFor(p)) <= doubtful[p] + unrecorded[p] + blind[p] + 1
    BY <2>1
  <2> QED BY <2>1, <2>2
<1>4. ReceiptsExplained
  BY <1>3 DEF ReceiptsExplained, R!ReceiptsExplained
<1>5. ASSUME NEW p \in Payments \ mislaid
      PROVE  R!Copies(p) <= 1 /\ (R!Copies(p) > 0 <=> Waits(p))
  <2>1. R!Copies(p) = Cardinality(InList(p)) + Cardinality(InHands(p))
                        + (IF Pushing(p) THEN 1 ELSE 0)
    <3>1. \A S : R!Cardinality(S) = Cardinality(S)
      BY DEF R!Cardinality, Cardinality
    <3> QED BY <3>1 DEF R!Copies, InList, InHands, Pushing
  <2>2. /\ Cardinality(InList(p)) = IF InList(p) = {} THEN 0 ELSE 1
        /\ Cardinality(InHands(p)) = IF InHands(p) = {} THEN 0 ELSE 1
    BY <1>2, AtMostOne DEF OneItem
  <2>3. /\ InList(p) # {} => InHands(p) = {}
        /\ Pushing(p) => InList(p) = {} /\ InHands(p) = {}
    BY <1>2 DEF OneItem
  <2> QED BY <2>1, <2>2, <2>3 DEF Waits
<1>6. NoneForgotten
  <2>1. crashes = 0 => \A p \in (Payments \ mislaid) \cap finished : Settled(p)
    BY <1>2 DEF NoneLost
  <2>2. crashes = 0 =>
          \A p \in (Payments \ mislaid) \cap finished :
              \/ receipts[p] > 0 \/ R!Copies(p) > 0
              \/ doubtful[p] > 0 \/ p \in refused \cup dropped
    BY <1>5, <2>1 DEF Settled
  <2>3. \A p \in Payments \ mislaid : R!Copies(p) <= 1
    BY <1>5
  <2> QED BY <2>2, <2>3 DEF NoneForgotten, R!NoneForgotten
<1> QED BY <1>4, <1>6

(* What the composition does to the receipts, the queue does. *)
LEMMA ReceiptMoves == AllSpec => R!Init /\ [][R!Next]_(R!vars)
<1>1. AllInit => R!Init
  BY DEF AllInit
<1>2. [AllNext]_<<part, vars, receiptVars, dailyVars, renewalVars, appleVars>>
         => [R!Next]_(R!vars)
  BY DEF AllNext, receiptVars, R!vars, R!redis, R!history
<1> QED BY <1>1, <1>2, PTL DEF AllSpec

(* The invariant of the receipts, in every behaviour of the composition. *)
LEMMA ReceiptAlways ==
    ASSUME ReceiptConstants PROVE AllSpec => [](ReceiptInv /\ CrashCount)
<1>1. R!Init => ReceiptInv /\ CrashCount
  BY ReceiptInit
<1>2. ReceiptInv /\ CrashCount /\ [R!Next]_(R!vars) => ReceiptInv' /\ CrashCount'
  BY ReceiptNext
<1>3. R!Init /\ [][R!Next]_(R!vars) => [](ReceiptInv /\ CrashCount)
  BY <1>1, <1>2, PTL
<1> QED BY <1>3, ReceiptMoves, PTL

(* A payment has no more receipts than one, the requests whose outcome was recorded as
   doubtful or only logged, and the calls that no mark could have kept back: whatever
   the tax service answers and whatever Redis fails to do. *)
THEOREM ReceiptsExplainedAlways ==
    ASSUME ReceiptConstants PROVE AllSpec => []ReceiptsExplained
BY ReceiptAlways, ReceiptBooks, PTL

(* A payment of whose item and record no write to Redis has failed never waits twice,
   and without a crash it is done, waits, or has a record or a log line when its handler
   has ended: whatever reads, marks and their removal do. *)
THEOREM NoneForgottenAlways ==
    ASSUME ReceiptConstants PROVE AllSpec => []NoneForgotten
BY ReceiptAlways, ReceiptBooks, PTL


-----------------------------------------------------------------------------
(***************************************************************************)
(* The daily tariff: what is charged is given.                             *)
(***************************************************************************)

Labels == {"idle", "reviving", "charging", "topped", "resuming", "debited", "activated", "read"}

(* The types that the argument needs. *)
Flags ==
    /\ active \in BOOLEAN /\ paused \in BOOLEAN /\ fresh \in BOOLEAN /\ recent \in BOOLEAN
    /\ overlapped \in BOOLEAN
    /\ sawPaused \in [D!Buttons -> BOOLEAN] /\ sawActive \in [D!Buttons -> BOOLEAN]

Amounts == balance \in Nat /\ owed \in Int /\ lost \in Nat /\ today \in Nat /\ faults \in Nat

Places ==
    /\ pc \in [D!Agents -> Labels]
    /\ pc["loop"] \in {"idle", "reviving", "charging"}
    /\ pc["topup"] \in {"idle", "topped", "resuming", "debited", "activated"}
    /\ pc["bot"] \in {"idle", "read", "debited"} /\ pc["cabinet"] \in {"idle", "read", "debited"}

DailyTypes == Flags /\ Amounts /\ Places

(* Has a taken a day's money that it has not given yet? *)
Taken(a) == IF pc[a] \in {"debited", "activated"} THEN 1 ELSE 0

(* What a button has read is still so. *)
ReadSo(b) ==
    /\ pc[b] = "read" => sawActive[b] = active
    /\ pc[b] = "debited" => sawActive[b] = FALSE /\ active = FALSE

(* As long as nobody has come in between, that holds for whoever acts on what it has
   read. *)
StillSo ==
    overlapped = FALSE =>
        /\ ReadSo("bot") /\ ReadSo("cabinet")
        /\ pc["loop"] = "reviving" => active = FALSE
        /\ pc["loop"] = "charging" => active = TRUE

(* The resumption looks again whether the row has changed. *)
SeenUnchanged == pc["topup"] = "resuming" /\ recent = FALSE => active = FALSE

(* A day that is charged shows in the row, or its agent is about to write it there. *)
ChargedShows ==
    overlapped = FALSE /\ faults = 0 =>
        /\ today <= 1
        /\ today = 1 /\ active = TRUE => fresh = TRUE \/ pc["topup"] = "activated"
        /\ today = 1 /\ active = FALSE => "debited" \in {pc["topup"], pc["bot"], pc["cabinet"]}
        /\ pc["loop"] = "charging" => today = 0 \/ pc["topup"] = "activated"

DaysAddUp ==
    overlapped = FALSE => owed = Taken("topup") + Taken("bot") + Taken("cabinet") + lost

DailyInv == DailyTypes /\ StillSo /\ SeenUnchanged /\ ChargedShows /\ DaysAddUp

(* Adding one agent to a set of others, if he belongs there. *)
LEMMA AddIf ==
    ASSUME NEW S, IsFiniteSet(S), NEW a, a \notin S, NEW c \in BOOLEAN
    PROVE  /\ IsFiniteSet(S \cup (IF c THEN {a} ELSE {}))
           /\ Cardinality(S \cup (IF c THEN {a} ELSE {}))
                 = Cardinality(S) + (IF c THEN 1 ELSE 0)
<1>1. CASE c
  BY <1>1, FS_AddElement
<1>2. CASE ~ c
  <2>1. S \cup {} = S /\ Cardinality(S) \in Nat
    BY FS_CardinalityType
  <2> QED BY <1>2, <2>1
<1> QED BY <1>1, <1>2

(* The days under way, counted one agent after the other. *)
LEMMA UnderWayIs ==
    ASSUME DailyTypes
    PROVE  D!UnderWay = Taken("topup") + Taken("bot") + Taken("cabinet")
<1> DEFINE Has(a) == pc[a] \in {"debited", "activated"}
           One(a) == IF Has(a) THEN {a} ELSE {}
           S1 == {} \cup One("topup")
           S2 == S1 \cup One("bot")
           S3 == S2 \cup One("cabinet")
<1>1. IsFiniteSet({}) /\ Cardinality({}) = 0
  BY FS_EmptySet
<1>2. IsFiniteSet(S1) /\ Cardinality(S1) = Taken("topup") /\ "bot" \notin S1
  <2>1. IsFiniteSet(S1) /\ Cardinality(S1) = 0 + Taken("topup")
    BY <1>1, AddIf DEF Taken
  <2> QED BY <2>1 DEF Taken
<1>3. /\ IsFiniteSet(S2) /\ Cardinality(S2) = Taken("topup") + Taken("bot")
      /\ "cabinet" \notin S2
  <2> HIDE DEF S1
  <2>1. IsFiniteSet(S2) /\ Cardinality(S2) = Cardinality(S1) + Taken("bot")
    BY <1>2, AddIf DEF Taken
  <2>2. "cabinet" \notin S2
    BY DEF S1
  <2> QED BY <1>2, <2>1, <2>2
<1>4. Cardinality(S3) = Taken("topup") + Taken("bot") + Taken("cabinet")
  <2> HIDE DEF S2
  <2>1. Cardinality(S3) = Cardinality(S2) + Taken("cabinet")
    BY <1>3, AddIf DEF Taken
  <2> QED BY <1>3, <2>1
<1>5. {a \in D!Agents : Has(a)} = S3
  BY DEF DailyTypes, Places, D!Agents, D!Buttons
<1>6. \A S : D!Cardinality(S) = Cardinality(S)
  BY DEF D!Cardinality, Cardinality
<1> QED BY <1>4, <1>5, <1>6 DEF D!UnderWay
(* At the start nobody holds a day and nobody has read anything. *)
LEMMA DailyInit == D!Init => DailyInv
<1>1. SUFFICES ASSUME D!Init PROVE DailyInv
  OBVIOUS
<1>2. /\ pc = [a \in D!Agents |-> "idle"] /\ {"loop", "topup", "bot", "cabinet"} \subseteq D!Agents
      /\ sawPaused = [b \in D!Buttons |-> FALSE] /\ sawActive = [b \in D!Buttons |-> FALSE]
  BY <1>1 DEF D!Init, D!Agents, D!Buttons
<1>3. /\ pc \in [D!Agents -> Labels] /\ pc["loop"] = "idle" /\ pc["topup"] = "idle"
      /\ pc["bot"] = "idle" /\ pc["cabinet"] = "idle"
      /\ sawPaused \in [D!Buttons -> BOOLEAN] /\ sawActive \in [D!Buttons -> BOOLEAN]
  BY <1>2 DEF Labels
<1>4. /\ active = TRUE /\ paused = FALSE /\ fresh = TRUE /\ recent = FALSE /\ overlapped = FALSE
      /\ balance = 0 /\ owed = 0 /\ lost = 0 /\ today = 1 /\ faults = 0
  BY <1>1 DEF D!Init
<1>5. DailyTypes
  <2>1. /\ active \in BOOLEAN /\ paused \in BOOLEAN /\ fresh \in BOOLEAN /\ recent \in BOOLEAN
        /\ overlapped \in BOOLEAN
    BY <1>4
  <2>2. balance \in Nat /\ owed \in Int /\ lost \in Nat /\ today \in Nat /\ faults \in Nat
    BY <1>4
  <2> QED BY <1>3, <2>1, <2>2 DEF DailyTypes, Flags, Amounts, Places
<1> QED BY <1>3, <1>4, <1>5 DEF DailyInv, StillSo, ReadSo, SeenUnchanged, ChargedShows,
                                DaysAddUp, Taken

(* Nobody but a has read anything that he will use without looking again. *)
Alone(a) ==
    /\ a = "loop" \/ pc["loop"] = "idle"
    /\ a = "topup" \/ pc["topup"] \in {"idle", "topped", "resuming"}
    /\ a = "bot" \/ pc["bot"] = "idle"
    /\ a = "cabinet" \/ pc["cabinet"] = "idle"

(* As long as a step that disturbs others counts as alone, it was. *)
LEMMA AloneUnless ==
    ASSUME DailyTypes, NEW a, overlapped' = (overlapped \/ D!Exposed \ {a} # {})
    PROVE  /\ overlapped' \in BOOLEAN
           /\ overlapped' = FALSE => overlapped = FALSE /\ Alone(a)
BY DEF DailyTypes, Flags, Amounts, Places, D!Exposed, D!At, D!Agents, D!Buttons, Alone

(* So it is when somebody charges or resumes. *)
LEMMA ChangesAlone ==
    ASSUME DailyTypes, NEW a, D!Changes(a)
    PROVE  /\ overlapped' \in BOOLEAN /\ recent' = TRUE
           /\ overlapped' = FALSE => overlapped = FALSE /\ Alone(a)
BY AloneUnless DEF D!Changes

(* One agent moves. *)
LEMMA GotoMoves ==
    ASSUME DailyTypes, NEW a \in D!Agents, NEW label \in Labels, D!Goto(a, label)
    PROVE  /\ pc' \in [D!Agents -> Labels]
           /\ pc'["loop"] = IF a = "loop" THEN label ELSE pc["loop"]
           /\ pc'["topup"] = IF a = "topup" THEN label ELSE pc["topup"]
           /\ pc'["bot"] = IF a = "bot" THEN label ELSE pc["bot"]
           /\ pc'["cabinet"] = IF a = "cabinet" THEN label ELSE pc["cabinet"]
BY DEF DailyTypes, Flags, Amounts, Places, D!Goto, D!Agents, D!Buttons

(* The agents. *)
LEMMA AgentsAre ==
    /\ "loop" \in D!Agents /\ "topup" \in D!Agents /\ "bot" \in D!Agents /\ "cabinet" \in D!Agents
    /\ \A b \in D!Buttons : b \in D!Agents /\ (b = "bot" \/ b = "cabinet")
BY DEF D!Agents, D!Buttons

(* An agent is done, and forgets what it has read. *)
LEMMA LeaveMoves ==
    ASSUME DailyTypes, NEW a \in D!Agents, D!Leave(a)
    PROVE  /\ D!Goto(a, "idle")
           /\ sawPaused' \in [D!Buttons -> BOOLEAN] /\ sawActive' \in [D!Buttons -> BOOLEAN]
           /\ a # "bot" => sawActive'["bot"] = sawActive["bot"]
           /\ a # "cabinet" => sawActive'["cabinet"] = sawActive["cabinet"]
<1>1. /\ sawPaused' = [b \in D!Buttons |-> b # a /\ sawPaused[b]]
      /\ sawActive' = [b \in D!Buttons |-> b # a /\ sawActive[b]]
      /\ D!Goto(a, "idle")
  BY DEF D!Leave
<1>2. /\ sawPaused' \in [D!Buttons -> BOOLEAN] /\ sawActive' \in [D!Buttons -> BOOLEAN]
  BY <1>1
<1>3. /\ sawActive["bot"] \in BOOLEAN /\ sawActive["cabinet"] \in BOOLEAN
      /\ "bot" \in D!Buttons /\ "cabinet" \in D!Buttons
  BY DEF DailyTypes, Flags, D!Buttons
<1>4. a # "bot" => sawActive'["bot"] = sawActive["bot"]
  BY <1>1, <1>3
<1>5. a # "cabinet" => sawActive'["cabinet"] = sawActive["cabinet"]
  BY <1>1, <1>3
<1> QED BY <1>1, <1>2, <1>4, <1>5

(* The loop keeps what is known of the row, and charges no day twice. *)
LEMMA DailyLoopStep == ASSUME DailyInv, D!LoopStep PROVE DailyInv'
<1>1. "loop" \in D!Agents /\ DailyTypes
  BY AgentsAre DEF DailyInv
<1>2. CASE D!SelectDisabled
  <2>1. /\ pc["loop"] = "idle"
        /\ active = FALSE
        /\ UNCHANGED <<active, paused, fresh, recent, balance, sawPaused, sawActive, owed,
                      lost, today, overlapped, faults>>
        /\ D!Goto("loop", "reviving")
    BY <1>2 DEF D!SelectDisabled, D!Revivable, D!At, D!row, D!locals, D!books, D!counters
  <2>2. /\ pc' \in [D!Agents -> Labels]
        /\ pc'["loop"] = "reviving"
        /\ pc'["topup"] = pc["topup"]
        /\ pc'["bot"] = pc["bot"]
        /\ pc'["cabinet"] = pc["cabinet"]
    BY <1>1, <2>1, GotoMoves DEF Labels
  <2>3. DailyTypes'
    <3>1. Flags'
      BY <1>1, <2>1, <2>2 DEF DailyTypes, Flags
    <3>2. Amounts'
      BY <1>1, <2>1, <2>2 DEF DailyTypes, Amounts, Taken
    <3>3. Places'
      BY <1>1, <2>1, <2>2 DEF DailyTypes, Places
    <3> QED BY <3>1, <3>2, <3>3 DEF DailyTypes
  <2>4. StillSo'
    BY <1>1, <2>1, <2>2 DEF StillSo, ReadSo, DailyInv
  <2>5. SeenUnchanged'
    BY <1>1, <2>1, <2>2 DEF SeenUnchanged, DailyInv
  <2>6. ChargedShows'
    BY <1>1, <2>1, <2>2 DEF ChargedShows, DailyInv, StillSo, ReadSo, SeenUnchanged,
       DailyTypes, Flags, Amounts, Places
  <2>7. DaysAddUp'
    BY <1>1, <2>1, <2>2 DEF DaysAddUp, Taken, DailyInv, StillSo, ReadSo, DailyTypes, Flags,
       Amounts, Places
  <2> QED BY <2>3, <2>4, <2>5, <2>6, <2>7 DEF DailyInv
<1>3. CASE D!Revive
  <2>1. /\ pc["loop"] = "reviving"
        /\ active' = TRUE
        /\ UNCHANGED <<paused, fresh, balance, sawPaused, sawActive, owed, lost, today, faults>>
        /\ D!Goto("loop", "charging")
        /\ D!Changes("loop")
    BY <1>3 DEF D!Revive, D!At, D!row, D!locals, D!books, D!counters
  <2>2. /\ pc' \in [D!Agents -> Labels]
        /\ pc'["loop"] = "charging"
        /\ pc'["topup"] = pc["topup"]
        /\ pc'["bot"] = pc["bot"]
        /\ pc'["cabinet"] = pc["cabinet"]
    BY <1>1, <2>1, GotoMoves DEF Labels
  <2>3. /\ overlapped' \in BOOLEAN
        /\ recent' = TRUE
        /\ overlapped' = FALSE => overlapped = FALSE /\ Alone("loop")
    BY <1>1, <2>1, ChangesAlone
  <2>4. DailyTypes'
    <3>1. Flags'
      BY <1>1, <2>1, <2>2, <2>3 DEF DailyTypes, Flags
    <3>2. Amounts'
      BY <1>1, <2>1, <2>2, <2>3 DEF DailyTypes, Amounts, Taken
    <3>3. Places'
      BY <1>1, <2>1, <2>2, <2>3 DEF DailyTypes, Places
    <3> QED BY <3>1, <3>2, <3>3 DEF DailyTypes
  <2>5. StillSo'
    BY <1>1, <2>1, <2>2, <2>3 DEF StillSo, ReadSo, DailyInv, Alone
  <2>6. SeenUnchanged'
    BY <1>1, <2>1, <2>2, <2>3 DEF SeenUnchanged, DailyInv
  <2>7. ChargedShows'
    BY <1>1, <2>1, <2>2, <2>3 DEF ChargedShows, DailyInv, StillSo, ReadSo, SeenUnchanged,
       DailyTypes, Flags, Amounts, Places, Alone
  <2>8. DaysAddUp'
    BY <1>1, <2>1, <2>2, <2>3 DEF DaysAddUp, Taken, DailyInv, StillSo, ReadSo, DailyTypes,
       Flags, Amounts, Places, Alone
  <2> QED BY <2>4, <2>5, <2>6, <2>7, <2>8 DEF DailyInv
<1>4. CASE D!SelectDue
  <2>1. /\ pc["loop"] = "idle"
        /\ active = TRUE
        /\ fresh = FALSE
        /\ UNCHANGED <<active, paused, fresh, recent, balance, sawPaused, sawActive, owed,
                      lost, today, overlapped, faults>>
        /\ D!Goto("loop", "charging")
    BY <1>4 DEF D!SelectDue, D!At, D!row, D!locals, D!books, D!counters
  <2>2. /\ pc' \in [D!Agents -> Labels]
        /\ pc'["loop"] = "charging"
        /\ pc'["topup"] = pc["topup"]
        /\ pc'["bot"] = pc["bot"]
        /\ pc'["cabinet"] = pc["cabinet"]
    BY <1>1, <2>1, GotoMoves DEF Labels
  <2>3. DailyTypes'
    <3>1. Flags'
      BY <1>1, <2>1, <2>2 DEF DailyTypes, Flags
    <3>2. Amounts'
      BY <1>1, <2>1, <2>2 DEF DailyTypes, Amounts, Taken
    <3>3. Places'
      BY <1>1, <2>1, <2>2 DEF DailyTypes, Places
    <3> QED BY <3>1, <3>2, <3>3 DEF DailyTypes
  <2>4. StillSo'
    BY <1>1, <2>1, <2>2 DEF StillSo, ReadSo, DailyInv
  <2>5. SeenUnchanged'
    BY <1>1, <2>1, <2>2 DEF SeenUnchanged, DailyInv
  <2>6. ChargedShows'
    BY <1>1, <2>1, <2>2 DEF ChargedShows, DailyInv, StillSo, ReadSo, SeenUnchanged,
       DailyTypes, Flags, Amounts, Places
  <2>7. DaysAddUp'
    BY <1>1, <2>1, <2>2 DEF DaysAddUp, Taken, DailyInv, StillSo, ReadSo, DailyTypes, Flags,
       Amounts, Places
  <2> QED BY <2>3, <2>4, <2>5, <2>6, <2>7 DEF DailyInv
<1>5. CASE D!LoopCharge
  <2>1. /\ pc["loop"] = "charging"
        /\ fresh' = TRUE
        /\ balance > 0 /\ balance' = balance - 1
        /\ today' = today + 1
        /\ UNCHANGED <<active, paused, sawPaused, sawActive, owed, lost, faults>>
        /\ D!Goto("loop", "idle")
        /\ D!Changes("loop")
    BY <1>5 DEF D!LoopCharge, D!At, D!row, D!locals, D!books, D!counters, D!Charge
  <2>2. /\ pc' \in [D!Agents -> Labels]
        /\ pc'["loop"] = "idle"
        /\ pc'["topup"] = pc["topup"]
        /\ pc'["bot"] = pc["bot"]
        /\ pc'["cabinet"] = pc["cabinet"]
    BY <1>1, <2>1, GotoMoves DEF Labels
  <2>3. /\ overlapped' \in BOOLEAN
        /\ recent' = TRUE
        /\ overlapped' = FALSE => overlapped = FALSE /\ Alone("loop")
    BY <1>1, <2>1, ChangesAlone
  <2>4. DailyTypes'
    <3>1. Flags'
      BY <1>1, <2>1, <2>2, <2>3 DEF DailyTypes, Flags
    <3>2. Amounts'
      BY <1>1, <2>1, <2>2, <2>3 DEF DailyTypes, Amounts, Taken
    <3>3. Places'
      BY <1>1, <2>1, <2>2, <2>3 DEF DailyTypes, Places
    <3> QED BY <3>1, <3>2, <3>3 DEF DailyTypes
  <2>5. StillSo'
    BY <1>1, <2>1, <2>2, <2>3 DEF StillSo, ReadSo, DailyInv, Alone
  <2>6. SeenUnchanged'
    BY <1>1, <2>1, <2>2, <2>3 DEF SeenUnchanged, DailyInv
  <2>7. ChargedShows'
    BY <1>1, <2>1, <2>2, <2>3 DEF ChargedShows, DailyInv, StillSo, ReadSo, SeenUnchanged,
       DailyTypes, Flags, Amounts, Places, Alone
  <2>8. DaysAddUp'
    BY <1>1, <2>1, <2>2, <2>3 DEF DaysAddUp, Taken, DailyInv, StillSo, ReadSo, DailyTypes,
       Flags, Amounts, Places, Alone
  <2> QED BY <2>4, <2>5, <2>6, <2>7, <2>8 DEF DailyInv
<1>6. CASE D!Suspend
  <2>1. /\ pc["loop"] = "charging"
        /\ active' = FALSE
        /\ UNCHANGED <<paused, fresh, balance, sawPaused, sawActive, owed, lost, today, faults>>
        /\ D!Goto("loop", "idle")
        /\ D!Changes("loop")
    BY <1>6 DEF D!Suspend, D!At, D!row, D!locals, D!books, D!counters
  <2>2. /\ pc' \in [D!Agents -> Labels]
        /\ pc'["loop"] = "idle"
        /\ pc'["topup"] = pc["topup"]
        /\ pc'["bot"] = pc["bot"]
        /\ pc'["cabinet"] = pc["cabinet"]
    BY <1>1, <2>1, GotoMoves DEF Labels
  <2>3. /\ overlapped' \in BOOLEAN
        /\ recent' = TRUE
        /\ overlapped' = FALSE => overlapped = FALSE /\ Alone("loop")
    BY <1>1, <2>1, ChangesAlone
  <2>4. DailyTypes'
    <3>1. Flags'
      BY <1>1, <2>1, <2>2, <2>3 DEF DailyTypes, Flags
    <3>2. Amounts'
      BY <1>1, <2>1, <2>2, <2>3 DEF DailyTypes, Amounts, Taken
    <3>3. Places'
      BY <1>1, <2>1, <2>2, <2>3 DEF DailyTypes, Places
    <3> QED BY <3>1, <3>2, <3>3 DEF DailyTypes
  <2>5. StillSo'
    BY <1>1, <2>1, <2>2, <2>3 DEF StillSo, ReadSo, DailyInv, Alone
  <2>6. SeenUnchanged'
    BY <1>1, <2>1, <2>2, <2>3 DEF SeenUnchanged, DailyInv
  <2>7. ChargedShows'
    BY <1>1, <2>1, <2>2, <2>3 DEF ChargedShows, DailyInv, StillSo, ReadSo, SeenUnchanged,
       DailyTypes, Flags, Amounts, Places, Alone
  <2>8. DaysAddUp'
    BY <1>1, <2>1, <2>2, <2>3 DEF DaysAddUp, Taken, DailyInv, StillSo, ReadSo, DailyTypes,
       Flags, Amounts, Places, Alone
  <2> QED BY <2>4, <2>5, <2>6, <2>7, <2>8 DEF DailyInv
<1> QED BY <1>2, <1>3, <1>4, <1>5, <1>6 DEF D!LoopStep

(* So does the resumption after a top-up. *)
LEMMA DailyTopUpStep == ASSUME DailyInv, D!TopUp \/ D!AfterTopUp \/ D!ResumeFails PROVE DailyInv'
<1>1. "topup" \in D!Agents /\ DailyTypes
  BY AgentsAre DEF DailyInv
<1>2. CASE D!TopUp
  <2>1. /\ pc["topup"] = "idle"
        /\ balance' = balance + 1
        /\ UNCHANGED <<active, paused, fresh, recent, sawPaused, sawActive, owed, lost,
                      today, overlapped, faults>>
        /\ D!Goto("topup", "topped")
    BY <1>2 DEF D!TopUp, D!At, D!row, D!locals, D!books, D!counters
  <2>2. /\ pc' \in [D!Agents -> Labels]
        /\ pc'["loop"] = pc["loop"]
        /\ pc'["topup"] = "topped"
        /\ pc'["bot"] = pc["bot"]
        /\ pc'["cabinet"] = pc["cabinet"]
    BY <1>1, <2>1, GotoMoves DEF Labels
  <2>3. DailyTypes'
    <3>1. Flags'
      BY <1>1, <2>1, <2>2 DEF DailyTypes, Flags
    <3>2. Amounts'
      BY <1>1, <2>1, <2>2 DEF DailyTypes, Amounts, Taken
    <3>3. Places'
      BY <1>1, <2>1, <2>2 DEF DailyTypes, Places
    <3> QED BY <3>1, <3>2, <3>3 DEF DailyTypes
  <2>4. StillSo'
    BY <1>1, <2>1, <2>2 DEF StillSo, ReadSo, DailyInv
  <2>5. SeenUnchanged'
    BY <1>1, <2>1, <2>2 DEF SeenUnchanged, DailyInv
  <2>6. ChargedShows'
    BY <1>1, <2>1, <2>2 DEF ChargedShows, DailyInv, StillSo, ReadSo, SeenUnchanged,
       DailyTypes, Flags, Amounts, Places
  <2>7. DaysAddUp'
    BY <1>1, <2>1, <2>2 DEF DaysAddUp, Taken, DailyInv, StillSo, ReadSo, DailyTypes, Flags,
       Amounts, Places
  <2> QED BY <2>3, <2>4, <2>5, <2>6, <2>7 DEF DailyInv
<1>3. CASE D!SelectForResume
  <2>1. /\ pc["topup"] = "topped"
        /\ UNCHANGED <<active, paused, fresh, recent, balance, sawPaused, sawActive, owed,
                      lost, today, overlapped, faults>>
        /\ D!Goto("topup", (IF active = FALSE /\ paused = FALSE THEN "resuming" ELSE "idle"))
    BY <1>3 DEF D!SelectForResume, D!At, D!row, D!locals, D!books, D!counters
  <2>2. /\ pc' \in [D!Agents -> Labels]
        /\ pc'["loop"] = pc["loop"]
        /\ pc'["topup"] = (IF active = FALSE /\ paused = FALSE THEN "resuming" ELSE "idle")
        /\ pc'["bot"] = pc["bot"]
        /\ pc'["cabinet"] = pc["cabinet"]
    BY <1>1, <2>1, GotoMoves DEF Labels
  <2>3. DailyTypes'
    <3>1. Flags'
      BY <1>1, <2>1, <2>2 DEF DailyTypes, Flags
    <3>2. Amounts'
      BY <1>1, <2>1, <2>2 DEF DailyTypes, Amounts, Taken
    <3>3. Places'
      BY <1>1, <2>1, <2>2 DEF DailyTypes, Places
    <3> QED BY <3>1, <3>2, <3>3 DEF DailyTypes
  <2>4. StillSo'
    BY <1>1, <2>1, <2>2 DEF StillSo, ReadSo, DailyInv
  <2>5. SeenUnchanged'
    BY <1>1, <2>1, <2>2 DEF SeenUnchanged, DailyInv
  <2>6. ChargedShows'
    BY <1>1, <2>1, <2>2 DEF ChargedShows, DailyInv, StillSo, ReadSo, SeenUnchanged,
       DailyTypes, Flags, Amounts, Places
  <2>7. DaysAddUp'
    BY <1>1, <2>1, <2>2 DEF DaysAddUp, Taken, DailyInv, StillSo, ReadSo, DailyTypes, Flags,
       Amounts, Places
  <2> QED BY <2>3, <2>4, <2>5, <2>6, <2>7 DEF DailyInv
<1>4. CASE D!ResumeDebit /\ balance > 0 /\ ~ recent
  <2>1. /\ pc["topup"] = "resuming"
        /\ recent = FALSE
        /\ owed' = owed + 1
        /\ balance > 0 /\ balance' = balance - 1
        /\ today' = today + 1
        /\ UNCHANGED <<active, paused, fresh, recent, sawPaused, sawActive, lost, faults>>
        /\ D!Goto("topup", "debited")
        /\ overlapped' = (overlapped \/ D!Exposed \ {"topup"} # {})
    BY <1>4 DEF D!ResumeDebit, D!At, D!row, D!locals, D!books, D!counters, D!Charge
  <2>2. /\ pc' \in [D!Agents -> Labels]
        /\ pc'["loop"] = pc["loop"]
        /\ pc'["topup"] = "debited"
        /\ pc'["bot"] = pc["bot"]
        /\ pc'["cabinet"] = pc["cabinet"]
    BY <1>1, <2>1, GotoMoves DEF Labels
  <2>3. /\ overlapped' \in BOOLEAN
        /\ overlapped' = FALSE => overlapped = FALSE /\ Alone("topup")
    BY <1>1, <2>1, AloneUnless
  <2>4. DailyTypes'
    <3>1. Flags'
      BY <1>1, <2>1, <2>2, <2>3 DEF DailyTypes, Flags
    <3>2. Amounts'
      BY <1>1, <2>1, <2>2, <2>3 DEF DailyTypes, Amounts, Taken
    <3>3. Places'
      BY <1>1, <2>1, <2>2, <2>3 DEF DailyTypes, Places
    <3> QED BY <3>1, <3>2, <3>3 DEF DailyTypes
  <2>5. StillSo'
    BY <1>1, <2>1, <2>2, <2>3 DEF StillSo, ReadSo, DailyInv, Alone
  <2>6. SeenUnchanged'
    BY <1>1, <2>1, <2>2, <2>3 DEF SeenUnchanged, DailyInv
  <2>7. ChargedShows'
    BY <1>1, <2>1, <2>2, <2>3 DEF ChargedShows, DailyInv, StillSo, ReadSo, SeenUnchanged,
       DailyTypes, Flags, Amounts, Places, Alone
  <2>8. DaysAddUp'
    BY <1>1, <2>1, <2>2, <2>3 DEF DaysAddUp, Taken, DailyInv, StillSo, ReadSo, DailyTypes,
       Flags, Amounts, Places, Alone
  <2> QED BY <2>4, <2>5, <2>6, <2>7, <2>8 DEF DailyInv
<1>5. CASE D!ResumeDebit /\ ~ (balance > 0 /\ ~ recent)
  <2>1. /\ pc["topup"] = "resuming"
        /\ UNCHANGED <<active, paused, fresh, recent, balance, sawPaused, sawActive, owed,
                      lost, today, overlapped, faults>>
        /\ D!Goto("topup", "idle")
    BY <1>5 DEF D!ResumeDebit, D!At, D!row, D!locals, D!books, D!counters
  <2>2. /\ pc' \in [D!Agents -> Labels]
        /\ pc'["loop"] = pc["loop"]
        /\ pc'["topup"] = "idle"
        /\ pc'["bot"] = pc["bot"]
        /\ pc'["cabinet"] = pc["cabinet"]
    BY <1>1, <2>1, GotoMoves DEF Labels
  <2>3. DailyTypes'
    <3>1. Flags'
      BY <1>1, <2>1, <2>2 DEF DailyTypes, Flags
    <3>2. Amounts'
      BY <1>1, <2>1, <2>2 DEF DailyTypes, Amounts, Taken
    <3>3. Places'
      BY <1>1, <2>1, <2>2 DEF DailyTypes, Places
    <3> QED BY <3>1, <3>2, <3>3 DEF DailyTypes
  <2>4. StillSo'
    BY <1>1, <2>1, <2>2 DEF StillSo, ReadSo, DailyInv
  <2>5. SeenUnchanged'
    BY <1>1, <2>1, <2>2 DEF SeenUnchanged, DailyInv
  <2>6. ChargedShows'
    BY <1>1, <2>1, <2>2 DEF ChargedShows, DailyInv, StillSo, ReadSo, SeenUnchanged,
       DailyTypes, Flags, Amounts, Places
  <2>7. DaysAddUp'
    BY <1>1, <2>1, <2>2 DEF DaysAddUp, Taken, DailyInv, StillSo, ReadSo, DailyTypes, Flags,
       Amounts, Places
  <2> QED BY <2>3, <2>4, <2>5, <2>6, <2>7 DEF DailyInv
<1>6. CASE D!ResumeActivate
  <2>1. /\ pc["topup"] = "debited"
        /\ active' = TRUE
        /\ UNCHANGED <<paused, fresh, balance, sawPaused, sawActive, owed, lost, today, faults>>
        /\ D!Goto("topup", "activated")
        /\ D!Changes("topup")
    BY <1>6 DEF D!ResumeActivate, D!At, D!row, D!locals, D!books, D!counters
  <2>2. /\ pc' \in [D!Agents -> Labels]
        /\ pc'["loop"] = pc["loop"]
        /\ pc'["topup"] = "activated"
        /\ pc'["bot"] = pc["bot"]
        /\ pc'["cabinet"] = pc["cabinet"]
    BY <1>1, <2>1, GotoMoves DEF Labels
  <2>3. /\ overlapped' \in BOOLEAN
        /\ recent' = TRUE
        /\ overlapped' = FALSE => overlapped = FALSE /\ Alone("topup")
    BY <1>1, <2>1, ChangesAlone
  <2>4. DailyTypes'
    <3>1. Flags'
      BY <1>1, <2>1, <2>2, <2>3 DEF DailyTypes, Flags
    <3>2. Amounts'
      BY <1>1, <2>1, <2>2, <2>3 DEF DailyTypes, Amounts, Taken
    <3>3. Places'
      BY <1>1, <2>1, <2>2, <2>3 DEF DailyTypes, Places
    <3> QED BY <3>1, <3>2, <3>3 DEF DailyTypes
  <2>5. StillSo'
    BY <1>1, <2>1, <2>2, <2>3 DEF StillSo, ReadSo, DailyInv, Alone
  <2>6. SeenUnchanged'
    BY <1>1, <2>1, <2>2, <2>3 DEF SeenUnchanged, DailyInv
  <2>7. ChargedShows'
    BY <1>1, <2>1, <2>2, <2>3 DEF ChargedShows, DailyInv, StillSo, ReadSo, SeenUnchanged,
       DailyTypes, Flags, Amounts, Places, Alone
  <2>8. DaysAddUp'
    BY <1>1, <2>1, <2>2, <2>3 DEF DaysAddUp, Taken, DailyInv, StillSo, ReadSo, DailyTypes,
       Flags, Amounts, Places, Alone
  <2> QED BY <2>4, <2>5, <2>6, <2>7, <2>8 DEF DailyInv
<1>7. CASE D!ResumeRecord
  <2>1. /\ pc["topup"] = "activated"
        /\ fresh' = TRUE
        /\ owed' = owed - 1
        /\ UNCHANGED <<active, paused, balance, sawPaused, sawActive, lost, today, faults>>
        /\ D!Goto("topup", "idle")
        /\ D!Changes("topup")
    BY <1>7 DEF D!ResumeRecord, D!At, D!row, D!locals, D!books, D!counters
  <2>2. /\ pc' \in [D!Agents -> Labels]
        /\ pc'["loop"] = pc["loop"]
        /\ pc'["topup"] = "idle"
        /\ pc'["bot"] = pc["bot"]
        /\ pc'["cabinet"] = pc["cabinet"]
    BY <1>1, <2>1, GotoMoves DEF Labels
  <2>3. /\ overlapped' \in BOOLEAN
        /\ recent' = TRUE
        /\ overlapped' = FALSE => overlapped = FALSE /\ Alone("topup")
    BY <1>1, <2>1, ChangesAlone
  <2>4. DailyTypes'
    <3>1. Flags'
      BY <1>1, <2>1, <2>2, <2>3 DEF DailyTypes, Flags
    <3>2. Amounts'
      BY <1>1, <2>1, <2>2, <2>3 DEF DailyTypes, Amounts, Taken
    <3>3. Places'
      BY <1>1, <2>1, <2>2, <2>3 DEF DailyTypes, Places
    <3> QED BY <3>1, <3>2, <3>3 DEF DailyTypes
  <2>5. StillSo'
    BY <1>1, <2>1, <2>2, <2>3 DEF StillSo, ReadSo, DailyInv, Alone
  <2>6. SeenUnchanged'
    BY <1>1, <2>1, <2>2, <2>3 DEF SeenUnchanged, DailyInv
  <2>7. ChargedShows'
    BY <1>1, <2>1, <2>2, <2>3 DEF ChargedShows, DailyInv, StillSo, ReadSo, SeenUnchanged,
       DailyTypes, Flags, Amounts, Places, Alone
  <2>8. DaysAddUp'
    BY <1>1, <2>1, <2>2, <2>3 DEF DaysAddUp, Taken, DailyInv, StillSo, ReadSo, DailyTypes,
       Flags, Amounts, Places, Alone
  <2> QED BY <2>4, <2>5, <2>6, <2>7, <2>8 DEF DailyInv
<1>8. CASE D!ResumeFails
  <2>1. /\ pc["topup"] = "debited"
        /\ faults' = faults + 1
        /\ balance' = balance + 1
        /\ owed' = owed - 1
        /\ UNCHANGED <<active, paused, fresh, recent, sawPaused, sawActive, lost, today,
                      overlapped>>
        /\ D!Goto("topup", "idle")
    BY <1>8 DEF D!ResumeFails, D!At, D!row, D!locals, D!books, D!counters, D!Fault
  <2>2. /\ pc' \in [D!Agents -> Labels]
        /\ pc'["loop"] = pc["loop"]
        /\ pc'["topup"] = "idle"
        /\ pc'["bot"] = pc["bot"]
        /\ pc'["cabinet"] = pc["cabinet"]
    BY <1>1, <2>1, GotoMoves DEF Labels
  <2>3. DailyTypes'
    <3>1. Flags'
      BY <1>1, <2>1, <2>2 DEF DailyTypes, Flags
    <3>2. Amounts'
      BY <1>1, <2>1, <2>2 DEF DailyTypes, Amounts, Taken
    <3>3. Places'
      BY <1>1, <2>1, <2>2 DEF DailyTypes, Places
    <3> QED BY <3>1, <3>2, <3>3 DEF DailyTypes
  <2>4. StillSo'
    BY <1>1, <2>1, <2>2 DEF StillSo, ReadSo, DailyInv
  <2>5. SeenUnchanged'
    BY <1>1, <2>1, <2>2 DEF SeenUnchanged, DailyInv
  <2>6. ChargedShows'
    BY <1>1, <2>1, <2>2 DEF ChargedShows, DailyInv, StillSo, ReadSo, SeenUnchanged,
       DailyTypes, Flags, Amounts, Places
  <2>7. DaysAddUp'
    BY <1>1, <2>1, <2>2 DEF DaysAddUp, Taken, DailyInv, StillSo, ReadSo, DailyTypes, Flags,
       Amounts, Places
  <2> QED BY <2>3, <2>4, <2>5, <2>6, <2>7 DEF DailyInv
<1> QED BY <1>2, <1>3, <1>4, <1>5, <1>6, <1>7, <1>8 DEF D!AfterTopUp

(* So do the buttons. *)
LEMMA DailyButtonStep == ASSUME DailyInv, NEW b \in D!Buttons, D!ButtonStep(b) PROVE DailyInv'
<1>1. /\ b \in D!Agents /\ DailyTypes
      /\ b = "bot" \/ b = "cabinet"
      /\ sawPaused[b] \in BOOLEAN /\ sawActive[b] \in BOOLEAN
  BY AgentsAre DEF DailyInv, DailyTypes, Flags
<1>2. CASE D!Read(b)
  <2>1. /\ pc[b] = "idle"
        /\ sawPaused' = [sawPaused EXCEPT ![b] = paused]
        /\ sawActive' = [sawActive EXCEPT ![b] = active]
        /\ UNCHANGED <<active, paused, fresh, recent, balance, owed, lost, today,
                      overlapped, faults>>
        /\ D!Goto(b, "read")
    BY <1>2 DEF D!Read, D!At, D!row, D!locals, D!books, D!counters
  <2>2. /\ pc' \in [D!Agents -> Labels]
        /\ pc'["loop"] = pc["loop"]
        /\ pc'["topup"] = pc["topup"]
        /\ pc'["bot"] = IF b = "bot" THEN "read" ELSE pc["bot"]
        /\ pc'["cabinet"] = IF b = "cabinet" THEN "read" ELSE pc["cabinet"]
    BY <1>1, <2>1, GotoMoves DEF Labels
  <2>3. /\ sawPaused' \in [D!Buttons -> BOOLEAN] /\ sawActive' \in [D!Buttons -> BOOLEAN]
        /\ sawActive'["bot"] = IF b = "bot" THEN active ELSE sawActive["bot"]
        /\ sawActive'["cabinet"] = IF b = "cabinet" THEN active ELSE sawActive["cabinet"]
    BY <1>1, <2>1 DEF DailyTypes, Flags, D!Buttons
  <2>4. DailyTypes'
    <3>1. Flags'
      BY <1>1, <2>1, <2>2, <2>3 DEF DailyTypes, Flags
    <3>2. Amounts'
      BY <1>1, <2>1, <2>2, <2>3 DEF DailyTypes, Amounts, Taken
    <3>3. Places'
      BY <1>1, <2>1, <2>2, <2>3 DEF DailyTypes, Places
    <3> QED BY <3>1, <3>2, <3>3 DEF DailyTypes
  <2>5. StillSo'
    BY <1>1, <2>1, <2>2, <2>3 DEF StillSo, ReadSo, DailyInv
  <2>6. SeenUnchanged'
    BY <1>1, <2>1, <2>2, <2>3 DEF SeenUnchanged, DailyInv
  <2>7. ChargedShows'
    BY <1>1, <2>1, <2>2, <2>3 DEF ChargedShows, DailyInv, StillSo, ReadSo, SeenUnchanged,
       DailyTypes, Flags, Amounts, Places
  <2>8. DaysAddUp'
    BY <1>1, <2>1, <2>2, <2>3 DEF DaysAddUp, Taken, DailyInv, StillSo, ReadSo, DailyTypes,
       Flags, Amounts, Places
  <2> QED BY <2>4, <2>5, <2>6, <2>7, <2>8 DEF DailyInv
<1>3. CASE D!Pause(b)
  <2>1. /\ pc[b] = "read"
        /\ paused' = TRUE
        /\ UNCHANGED <<active, fresh, balance, owed, lost, today, faults>>
        /\ D!Leave(b)
        /\ D!Changes(b)
    BY <1>3 DEF D!Pause, D!At, D!row, D!locals, D!books, D!counters
  <2>2. /\ D!Goto(b, "idle")
        /\ sawPaused' \in [D!Buttons -> BOOLEAN]
        /\ sawActive' \in [D!Buttons -> BOOLEAN]
        /\ b # "bot" => sawActive'["bot"] = sawActive["bot"]
        /\ b # "cabinet" => sawActive'["cabinet"] = sawActive["cabinet"]
    BY <1>1, <2>1, LeaveMoves
  <2>3. /\ pc' \in [D!Agents -> Labels]
        /\ pc'["loop"] = pc["loop"]
        /\ pc'["topup"] = pc["topup"]
        /\ pc'["bot"] = IF b = "bot" THEN "idle" ELSE pc["bot"]
        /\ pc'["cabinet"] = IF b = "cabinet" THEN "idle" ELSE pc["cabinet"]
    BY <1>1, <2>2, GotoMoves DEF Labels
  <2>4. /\ overlapped' \in BOOLEAN
        /\ recent' = TRUE
        /\ overlapped' = FALSE => overlapped = FALSE /\ Alone(b)
    BY <1>1, <2>1, ChangesAlone
  <2>5. DailyTypes'
    <3>1. Flags'
      BY <1>1, <2>1, <2>2, <2>3, <2>4 DEF DailyTypes, Flags
    <3>2. Amounts'
      BY <1>1, <2>1, <2>2, <2>3, <2>4 DEF DailyTypes, Amounts, Taken
    <3>3. Places'
      BY <1>1, <2>1, <2>2, <2>3, <2>4 DEF DailyTypes, Places
    <3> QED BY <3>1, <3>2, <3>3 DEF DailyTypes
  <2>6. StillSo'
    BY <1>1, <2>1, <2>2, <2>3, <2>4 DEF StillSo, ReadSo, DailyInv, Alone
  <2>7. SeenUnchanged'
    BY <1>1, <2>1, <2>2, <2>3, <2>4 DEF SeenUnchanged, DailyInv
  <2>8. ChargedShows'
    BY <1>1, <2>1, <2>2, <2>3, <2>4 DEF ChargedShows, DailyInv, StillSo, ReadSo,
       SeenUnchanged, DailyTypes, Flags, Amounts, Places, Alone
  <2>9. DaysAddUp'
    BY <1>1, <2>1, <2>2, <2>3, <2>4 DEF DaysAddUp, Taken, DailyInv, StillSo, ReadSo,
       DailyTypes, Flags, Amounts, Places, Alone
  <2> QED BY <2>5, <2>6, <2>7, <2>8, <2>9 DEF DailyInv
<1>4. CASE D!TooPoor(b)
  <2>1. /\ pc[b] = "read"
        /\ UNCHANGED <<active, paused, fresh, recent, balance, owed, lost, today,
                      overlapped, faults>>
        /\ D!Leave(b)
    BY <1>4 DEF D!TooPoor, D!At, D!row, D!locals, D!books, D!counters
  <2>2. /\ D!Goto(b, "idle")
        /\ sawPaused' \in [D!Buttons -> BOOLEAN]
        /\ sawActive' \in [D!Buttons -> BOOLEAN]
        /\ b # "bot" => sawActive'["bot"] = sawActive["bot"]
        /\ b # "cabinet" => sawActive'["cabinet"] = sawActive["cabinet"]
    BY <1>1, <2>1, LeaveMoves
  <2>3. /\ pc' \in [D!Agents -> Labels]
        /\ pc'["loop"] = pc["loop"]
        /\ pc'["topup"] = pc["topup"]
        /\ pc'["bot"] = IF b = "bot" THEN "idle" ELSE pc["bot"]
        /\ pc'["cabinet"] = IF b = "cabinet" THEN "idle" ELSE pc["cabinet"]
    BY <1>1, <2>2, GotoMoves DEF Labels
  <2>4. DailyTypes'
    <3>1. Flags'
      BY <1>1, <2>1, <2>2, <2>3 DEF DailyTypes, Flags
    <3>2. Amounts'
      BY <1>1, <2>1, <2>2, <2>3 DEF DailyTypes, Amounts, Taken
    <3>3. Places'
      BY <1>1, <2>1, <2>2, <2>3 DEF DailyTypes, Places
    <3> QED BY <3>1, <3>2, <3>3 DEF DailyTypes
  <2>5. StillSo'
    BY <1>1, <2>1, <2>2, <2>3 DEF StillSo, ReadSo, DailyInv
  <2>6. SeenUnchanged'
    BY <1>1, <2>1, <2>2, <2>3 DEF SeenUnchanged, DailyInv
  <2>7. ChargedShows'
    BY <1>1, <2>1, <2>2, <2>3 DEF ChargedShows, DailyInv, StillSo, ReadSo, SeenUnchanged,
       DailyTypes, Flags, Amounts, Places
  <2>8. DaysAddUp'
    BY <1>1, <2>1, <2>2, <2>3 DEF DaysAddUp, Taken, DailyInv, StillSo, ReadSo, DailyTypes,
       Flags, Amounts, Places
  <2> QED BY <2>4, <2>5, <2>6, <2>7, <2>8 DEF DailyInv
<1>5. CASE D!Unpause(b) /\ ~ (b = "bot" /\ ~ active)
  <2>1. /\ pc[b] = "read"
        /\ paused' = FALSE
        /\ UNCHANGED <<active, fresh, balance, owed, lost, today, faults>>
        /\ D!Leave(b)
        /\ D!Changes(b)
    BY <1>5 DEF D!Unpause, D!At, D!row, D!locals, D!books, D!counters
  <2>2. /\ D!Goto(b, "idle")
        /\ sawPaused' \in [D!Buttons -> BOOLEAN]
        /\ sawActive' \in [D!Buttons -> BOOLEAN]
        /\ b # "bot" => sawActive'["bot"] = sawActive["bot"]
        /\ b # "cabinet" => sawActive'["cabinet"] = sawActive["cabinet"]
    BY <1>1, <2>1, LeaveMoves
  <2>3. /\ pc' \in [D!Agents -> Labels]
        /\ pc'["loop"] = pc["loop"]
        /\ pc'["topup"] = pc["topup"]
        /\ pc'["bot"] = IF b = "bot" THEN "idle" ELSE pc["bot"]
        /\ pc'["cabinet"] = IF b = "cabinet" THEN "idle" ELSE pc["cabinet"]
    BY <1>1, <2>2, GotoMoves DEF Labels
  <2>4. /\ overlapped' \in BOOLEAN
        /\ recent' = TRUE
        /\ overlapped' = FALSE => overlapped = FALSE /\ Alone(b)
    BY <1>1, <2>1, ChangesAlone
  <2>5. DailyTypes'
    <3>1. Flags'
      BY <1>1, <2>1, <2>2, <2>3, <2>4 DEF DailyTypes, Flags
    <3>2. Amounts'
      BY <1>1, <2>1, <2>2, <2>3, <2>4 DEF DailyTypes, Amounts, Taken
    <3>3. Places'
      BY <1>1, <2>1, <2>2, <2>3, <2>4 DEF DailyTypes, Places
    <3> QED BY <3>1, <3>2, <3>3 DEF DailyTypes
  <2>6. StillSo'
    BY <1>1, <2>1, <2>2, <2>3, <2>4 DEF StillSo, ReadSo, DailyInv, Alone
  <2>7. SeenUnchanged'
    BY <1>1, <2>1, <2>2, <2>3, <2>4 DEF SeenUnchanged, DailyInv
  <2>8. ChargedShows'
    BY <1>1, <2>1, <2>2, <2>3, <2>4 DEF ChargedShows, DailyInv, StillSo, ReadSo,
       SeenUnchanged, DailyTypes, Flags, Amounts, Places, Alone
  <2>9. DaysAddUp'
    BY <1>1, <2>1, <2>2, <2>3, <2>4 DEF DaysAddUp, Taken, DailyInv, StillSo, ReadSo,
       DailyTypes, Flags, Amounts, Places, Alone
  <2> QED BY <2>5, <2>6, <2>7, <2>8, <2>9 DEF DailyInv
<1>6. CASE D!Unpause(b) /\ b = "bot" /\ ~ active
  <2>1. /\ pc[b] = "read"
        /\ sawActive[b] = TRUE
        /\ active = FALSE
        /\ paused' = FALSE
        /\ active' = TRUE
        /\ fresh' = TRUE
        /\ owed' = owed - 1
        /\ UNCHANGED <<balance, lost, today, faults>>
        /\ D!Leave(b)
        /\ D!Changes(b)
    BY <1>6 DEF D!Unpause, D!At, D!row, D!locals, D!books, D!counters
  <2>2. /\ D!Goto(b, "idle")
        /\ sawPaused' \in [D!Buttons -> BOOLEAN]
        /\ sawActive' \in [D!Buttons -> BOOLEAN]
        /\ b # "bot" => sawActive'["bot"] = sawActive["bot"]
        /\ b # "cabinet" => sawActive'["cabinet"] = sawActive["cabinet"]
    BY <1>1, <2>1, LeaveMoves
  <2>3. /\ pc' \in [D!Agents -> Labels]
        /\ pc'["loop"] = pc["loop"]
        /\ pc'["topup"] = pc["topup"]
        /\ pc'["bot"] = IF b = "bot" THEN "idle" ELSE pc["bot"]
        /\ pc'["cabinet"] = IF b = "cabinet" THEN "idle" ELSE pc["cabinet"]
    BY <1>1, <2>2, GotoMoves DEF Labels
  <2>4. /\ overlapped' \in BOOLEAN
        /\ recent' = TRUE
        /\ overlapped' = FALSE => overlapped = FALSE /\ Alone(b)
    BY <1>1, <2>1, ChangesAlone
  <2>5. DailyTypes'
    <3>1. Flags'
      BY <1>1, <2>1, <2>2, <2>3, <2>4 DEF DailyTypes, Flags
    <3>2. Amounts'
      BY <1>1, <2>1, <2>2, <2>3, <2>4 DEF DailyTypes, Amounts, Taken
    <3>3. Places'
      BY <1>1, <2>1, <2>2, <2>3, <2>4 DEF DailyTypes, Places
    <3> QED BY <3>1, <3>2, <3>3 DEF DailyTypes
  <2>6. StillSo'
    BY <1>1, <2>1, <2>2, <2>3, <2>4 DEF StillSo, ReadSo, DailyInv, Alone
  <2>7. SeenUnchanged'
    BY <1>1, <2>1, <2>2, <2>3, <2>4 DEF SeenUnchanged, DailyInv
  <2>8. ChargedShows'
    BY <1>1, <2>1, <2>2, <2>3, <2>4 DEF ChargedShows, DailyInv, StillSo, ReadSo,
       SeenUnchanged, DailyTypes, Flags, Amounts, Places, Alone
  <2>9. DaysAddUp'
    BY <1>1, <2>1, <2>2, <2>3, <2>4 DEF DaysAddUp, Taken, DailyInv, StillSo, ReadSo,
       DailyTypes, Flags, Amounts, Places, Alone
  <2> QED BY <2>5, <2>6, <2>7, <2>8, <2>9 DEF DailyInv
<1>7. CASE D!ButtonDebit(b)
  <2>1. /\ pc[b] = "read"
        /\ sawActive[b] = FALSE
        /\ owed' = owed + 1
        /\ sawActive' = [sawActive EXCEPT ![b] = active]
        /\ balance > 0 /\ balance' = balance - 1
        /\ today' = today + 1
        /\ UNCHANGED <<active, paused, fresh, recent, sawPaused, lost, faults>>
        /\ D!Goto(b, "debited")
        /\ overlapped' = (overlapped \/ D!Exposed \ {b} # {})
    BY <1>7 DEF D!ButtonDebit, D!At, D!row, D!locals, D!books, D!counters, D!Charge
  <2>2. /\ pc' \in [D!Agents -> Labels]
        /\ pc'["loop"] = pc["loop"]
        /\ pc'["topup"] = pc["topup"]
        /\ pc'["bot"] = IF b = "bot" THEN "debited" ELSE pc["bot"]
        /\ pc'["cabinet"] = IF b = "cabinet" THEN "debited" ELSE pc["cabinet"]
    BY <1>1, <2>1, GotoMoves DEF Labels
  <2>3. /\ overlapped' \in BOOLEAN
        /\ overlapped' = FALSE => overlapped = FALSE /\ Alone(b)
    BY <1>1, <2>1, AloneUnless
  <2>4. DailyTypes'
    <3>1. Flags'
      BY <1>1, <2>1, <2>2, <2>3 DEF DailyTypes, Flags
    <3>2. Amounts'
      BY <1>1, <2>1, <2>2, <2>3 DEF DailyTypes, Amounts, Taken
    <3>3. Places'
      BY <1>1, <2>1, <2>2, <2>3 DEF DailyTypes, Places
    <3> QED BY <3>1, <3>2, <3>3 DEF DailyTypes
  <2>5. StillSo'
    BY <1>1, <2>1, <2>2, <2>3 DEF StillSo, ReadSo, DailyInv, Alone
  <2>6. SeenUnchanged'
    BY <1>1, <2>1, <2>2, <2>3 DEF SeenUnchanged, DailyInv
  <2>7. ChargedShows'
    BY <1>1, <2>1, <2>2, <2>3 DEF ChargedShows, DailyInv, StillSo, ReadSo, SeenUnchanged,
       DailyTypes, Flags, Amounts, Places, Alone
  <2>8. DaysAddUp'
    BY <1>1, <2>1, <2>2, <2>3 DEF DaysAddUp, Taken, DailyInv, StillSo, ReadSo, DailyTypes,
       Flags, Amounts, Places, Alone
  <2> QED BY <2>4, <2>5, <2>6, <2>7, <2>8 DEF DailyInv
<1>8. CASE b = "bot" /\ D!BotGive /\ sawActive[b]
  <2>1. /\ pc[b] = "debited"
        /\ sawActive[b] = TRUE
        /\ paused' = FALSE
        /\ UNCHANGED <<active, fresh, balance, owed, lost, today, faults>>
        /\ D!Leave(b)
        /\ D!Changes(b)
    BY <1>8 DEF D!BotGive, D!At, D!row, D!locals, D!books, D!counters
  <2>2. /\ D!Goto(b, "idle")
        /\ sawPaused' \in [D!Buttons -> BOOLEAN]
        /\ sawActive' \in [D!Buttons -> BOOLEAN]
        /\ b # "bot" => sawActive'["bot"] = sawActive["bot"]
        /\ b # "cabinet" => sawActive'["cabinet"] = sawActive["cabinet"]
    BY <1>1, <2>1, LeaveMoves
  <2>3. /\ pc' \in [D!Agents -> Labels]
        /\ pc'["loop"] = pc["loop"]
        /\ pc'["topup"] = pc["topup"]
        /\ pc'["bot"] = IF b = "bot" THEN "idle" ELSE pc["bot"]
        /\ pc'["cabinet"] = IF b = "cabinet" THEN "idle" ELSE pc["cabinet"]
    BY <1>1, <2>2, GotoMoves DEF Labels
  <2>4. /\ overlapped' \in BOOLEAN
        /\ recent' = TRUE
        /\ overlapped' = FALSE => overlapped = FALSE /\ Alone(b)
    BY <1>1, <2>1, ChangesAlone
  <2>5. DailyTypes'
    <3>1. Flags'
      BY <1>1, <2>1, <2>2, <2>3, <2>4 DEF DailyTypes, Flags
    <3>2. Amounts'
      BY <1>1, <2>1, <2>2, <2>3, <2>4 DEF DailyTypes, Amounts, Taken
    <3>3. Places'
      BY <1>1, <2>1, <2>2, <2>3, <2>4 DEF DailyTypes, Places
    <3> QED BY <3>1, <3>2, <3>3 DEF DailyTypes
  <2>6. StillSo'
    BY <1>1, <2>1, <2>2, <2>3, <2>4 DEF StillSo, ReadSo, DailyInv, Alone
  <2>7. SeenUnchanged'
    BY <1>1, <2>1, <2>2, <2>3, <2>4 DEF SeenUnchanged, DailyInv
  <2>8. ChargedShows'
    BY <1>1, <2>1, <2>2, <2>3, <2>4 DEF ChargedShows, DailyInv, StillSo, ReadSo,
       SeenUnchanged, DailyTypes, Flags, Amounts, Places, Alone
  <2>9. DaysAddUp'
    BY <1>1, <2>1, <2>2, <2>3, <2>4 DEF DaysAddUp, Taken, DailyInv, StillSo, ReadSo,
       DailyTypes, Flags, Amounts, Places, Alone
  <2> QED BY <2>5, <2>6, <2>7, <2>8, <2>9 DEF DailyInv
<1>9. CASE b = "bot" /\ D!BotGive /\ ~ sawActive[b]
  <2>1. /\ pc[b] = "debited"
        /\ paused' = FALSE
        /\ active' = TRUE
        /\ fresh' = TRUE
        /\ owed' = owed - 1
        /\ UNCHANGED <<balance, lost, today, faults>>
        /\ D!Leave(b)
        /\ D!Changes(b)
    BY <1>9 DEF D!BotGive, D!At, D!row, D!locals, D!books, D!counters
  <2>2. /\ D!Goto(b, "idle")
        /\ sawPaused' \in [D!Buttons -> BOOLEAN]
        /\ sawActive' \in [D!Buttons -> BOOLEAN]
        /\ b # "bot" => sawActive'["bot"] = sawActive["bot"]
        /\ b # "cabinet" => sawActive'["cabinet"] = sawActive["cabinet"]
    BY <1>1, <2>1, LeaveMoves
  <2>3. /\ pc' \in [D!Agents -> Labels]
        /\ pc'["loop"] = pc["loop"]
        /\ pc'["topup"] = pc["topup"]
        /\ pc'["bot"] = IF b = "bot" THEN "idle" ELSE pc["bot"]
        /\ pc'["cabinet"] = IF b = "cabinet" THEN "idle" ELSE pc["cabinet"]
    BY <1>1, <2>2, GotoMoves DEF Labels
  <2>4. /\ overlapped' \in BOOLEAN
        /\ recent' = TRUE
        /\ overlapped' = FALSE => overlapped = FALSE /\ Alone(b)
    BY <1>1, <2>1, ChangesAlone
  <2>5. DailyTypes'
    <3>1. Flags'
      BY <1>1, <2>1, <2>2, <2>3, <2>4 DEF DailyTypes, Flags
    <3>2. Amounts'
      BY <1>1, <2>1, <2>2, <2>3, <2>4 DEF DailyTypes, Amounts, Taken
    <3>3. Places'
      BY <1>1, <2>1, <2>2, <2>3, <2>4 DEF DailyTypes, Places
    <3> QED BY <3>1, <3>2, <3>3 DEF DailyTypes
  <2>6. StillSo'
    BY <1>1, <2>1, <2>2, <2>3, <2>4 DEF StillSo, ReadSo, DailyInv, Alone
  <2>7. SeenUnchanged'
    BY <1>1, <2>1, <2>2, <2>3, <2>4 DEF SeenUnchanged, DailyInv
  <2>8. ChargedShows'
    BY <1>1, <2>1, <2>2, <2>3, <2>4 DEF ChargedShows, DailyInv, StillSo, ReadSo,
       SeenUnchanged, DailyTypes, Flags, Amounts, Places, Alone
  <2>9. DaysAddUp'
    BY <1>1, <2>1, <2>2, <2>3, <2>4 DEF DaysAddUp, Taken, DailyInv, StillSo, ReadSo,
       DailyTypes, Flags, Amounts, Places, Alone
  <2> QED BY <2>5, <2>6, <2>7, <2>8, <2>9 DEF DailyInv
<1>10. CASE b = "cabinet" /\ D!CabinetGive
  <2>1. /\ pc[b] = "debited"
        /\ active' = TRUE
        /\ fresh' = TRUE
        /\ owed' = owed - 1
        /\ UNCHANGED <<paused, balance, lost, today, faults>>
        /\ D!Leave(b)
        /\ D!Changes(b)
    BY <1>10 DEF D!CabinetGive, D!At, D!row, D!locals, D!books, D!counters
  <2>2. /\ D!Goto(b, "idle")
        /\ sawPaused' \in [D!Buttons -> BOOLEAN]
        /\ sawActive' \in [D!Buttons -> BOOLEAN]
        /\ b # "bot" => sawActive'["bot"] = sawActive["bot"]
        /\ b # "cabinet" => sawActive'["cabinet"] = sawActive["cabinet"]
    BY <1>1, <2>1, LeaveMoves
  <2>3. /\ pc' \in [D!Agents -> Labels]
        /\ pc'["loop"] = pc["loop"]
        /\ pc'["topup"] = pc["topup"]
        /\ pc'["bot"] = IF b = "bot" THEN "idle" ELSE pc["bot"]
        /\ pc'["cabinet"] = IF b = "cabinet" THEN "idle" ELSE pc["cabinet"]
    BY <1>1, <2>2, GotoMoves DEF Labels
  <2>4. /\ overlapped' \in BOOLEAN
        /\ recent' = TRUE
        /\ overlapped' = FALSE => overlapped = FALSE /\ Alone(b)
    BY <1>1, <2>1, ChangesAlone
  <2>5. DailyTypes'
    <3>1. Flags'
      BY <1>1, <2>1, <2>2, <2>3, <2>4 DEF DailyTypes, Flags
    <3>2. Amounts'
      BY <1>1, <2>1, <2>2, <2>3, <2>4 DEF DailyTypes, Amounts, Taken
    <3>3. Places'
      BY <1>1, <2>1, <2>2, <2>3, <2>4 DEF DailyTypes, Places
    <3> QED BY <3>1, <3>2, <3>3 DEF DailyTypes
  <2>6. StillSo'
    BY <1>1, <2>1, <2>2, <2>3, <2>4 DEF StillSo, ReadSo, DailyInv, Alone
  <2>7. SeenUnchanged'
    BY <1>1, <2>1, <2>2, <2>3, <2>4 DEF SeenUnchanged, DailyInv
  <2>8. ChargedShows'
    BY <1>1, <2>1, <2>2, <2>3, <2>4 DEF ChargedShows, DailyInv, StillSo, ReadSo,
       SeenUnchanged, DailyTypes, Flags, Amounts, Places, Alone
  <2>9. DaysAddUp'
    BY <1>1, <2>1, <2>2, <2>3, <2>4 DEF DaysAddUp, Taken, DailyInv, StillSo, ReadSo,
       DailyTypes, Flags, Amounts, Places, Alone
  <2> QED BY <2>5, <2>6, <2>7, <2>8, <2>9 DEF DailyInv
<1> QED BY <1>2, <1>3, <1>4, <1>5, <1>6, <1>7, <1>8, <1>9, <1>10 DEF D!ButtonStep

(* And everyone else: the mini app, administrators and the panel act in one commit, an
   agent that is stopped leaves the day to those that are lost, and time passes. *)
LEMMA DailyOtherStep ==
    ASSUME DailyInv,
           \/ D!MiniApp \/ D!Cancel \/ D!Shorten \/ D!LimitTraffic \/ D!Reenable
           \/ \E a \in D!Agents : D!Stop(a)
           \/ D!Day \/ D!Minute
    PROVE  DailyInv'
<1>1. DailyTypes
  BY DEF DailyInv
<1>2. CASE D!MiniApp /\ active
  <2>1. /\ active = TRUE
        /\ paused' \in BOOLEAN
        /\ UNCHANGED <<pc, active, fresh, balance, sawPaused, sawActive, owed, lost, today,
                      faults>>
        /\ D!Changes("miniapp")
    BY <1>2 DEF D!MiniApp, D!At, D!row, D!locals, D!books, D!counters
  <2>2. /\ overlapped' \in BOOLEAN
        /\ recent' = TRUE
        /\ overlapped' = FALSE => overlapped = FALSE /\ Alone("miniapp")
    BY <1>1, <2>1, ChangesAlone
  <2>3. DailyTypes'
    <3>1. Flags'
      BY <1>1, <2>1, <2>2 DEF DailyTypes, Flags
    <3>2. Amounts'
      BY <1>1, <2>1, <2>2 DEF DailyTypes, Amounts, Taken
    <3>3. Places'
      BY <1>1, <2>1, <2>2 DEF DailyTypes, Places
    <3> QED BY <3>1, <3>2, <3>3 DEF DailyTypes
  <2>4. StillSo'
    BY <1>1, <2>1, <2>2 DEF StillSo, ReadSo, DailyInv, Alone
  <2>5. SeenUnchanged'
    BY <1>1, <2>1, <2>2 DEF SeenUnchanged, DailyInv
  <2>6. ChargedShows'
    BY <1>1, <2>1, <2>2 DEF ChargedShows, DailyInv, StillSo, ReadSo, SeenUnchanged,
       DailyTypes, Flags, Amounts, Places, Alone
  <2>7. DaysAddUp'
    BY <1>1, <2>1, <2>2 DEF DaysAddUp, Taken, DailyInv, StillSo, ReadSo, DailyTypes, Flags,
       Amounts, Places, Alone
  <2> QED BY <2>3, <2>4, <2>5, <2>6, <2>7 DEF DailyInv
<1>3. CASE D!MiniApp /\ ~ active
  <2>1. /\ active = FALSE
        /\ active' = TRUE
        /\ fresh' = TRUE
        /\ paused' = FALSE
        /\ balance > 0 /\ balance' = balance - 1
        /\ today' = today + 1
        /\ UNCHANGED <<pc, sawPaused, sawActive, owed, lost, faults>>
        /\ D!Changes("miniapp")
    BY <1>3 DEF D!MiniApp, D!At, D!row, D!locals, D!books, D!counters, D!Charge
  <2>2. /\ overlapped' \in BOOLEAN
        /\ recent' = TRUE
        /\ overlapped' = FALSE => overlapped = FALSE /\ Alone("miniapp")
    BY <1>1, <2>1, ChangesAlone
  <2>3. DailyTypes'
    <3>1. Flags'
      BY <1>1, <2>1, <2>2 DEF DailyTypes, Flags
    <3>2. Amounts'
      BY <1>1, <2>1, <2>2 DEF DailyTypes, Amounts, Taken
    <3>3. Places'
      BY <1>1, <2>1, <2>2 DEF DailyTypes, Places
    <3> QED BY <3>1, <3>2, <3>3 DEF DailyTypes
  <2>4. StillSo'
    BY <1>1, <2>1, <2>2 DEF StillSo, ReadSo, DailyInv, Alone
  <2>5. SeenUnchanged'
    BY <1>1, <2>1, <2>2 DEF SeenUnchanged, DailyInv
  <2>6. ChargedShows'
    BY <1>1, <2>1, <2>2 DEF ChargedShows, DailyInv, StillSo, ReadSo, SeenUnchanged,
       DailyTypes, Flags, Amounts, Places, Alone
  <2>7. DaysAddUp'
    BY <1>1, <2>1, <2>2 DEF DaysAddUp, Taken, DailyInv, StillSo, ReadSo, DailyTypes, Flags,
       Amounts, Places, Alone
  <2> QED BY <2>3, <2>4, <2>5, <2>6, <2>7 DEF DailyInv
<1>4. CASE D!Cancel
  <2>1. /\ active' = FALSE
        /\ paused' = TRUE
        /\ today' = 0
        /\ UNCHANGED <<pc, fresh, balance, sawPaused, sawActive, owed, lost, faults>>
        /\ D!Changes("administrator")
    BY <1>4 DEF D!Cancel, D!At, D!row, D!locals, D!books, D!counters
  <2>2. /\ overlapped' \in BOOLEAN
        /\ recent' = TRUE
        /\ overlapped' = FALSE => overlapped = FALSE /\ Alone("administrator")
    BY <1>1, <2>1, ChangesAlone
  <2>3. DailyTypes'
    <3>1. Flags'
      BY <1>1, <2>1, <2>2 DEF DailyTypes, Flags
    <3>2. Amounts'
      BY <1>1, <2>1, <2>2 DEF DailyTypes, Amounts, Taken
    <3>3. Places'
      BY <1>1, <2>1, <2>2 DEF DailyTypes, Places
    <3> QED BY <3>1, <3>2, <3>3 DEF DailyTypes
  <2>4. StillSo'
    BY <1>1, <2>1, <2>2 DEF StillSo, ReadSo, DailyInv, Alone
  <2>5. SeenUnchanged'
    BY <1>1, <2>1, <2>2 DEF SeenUnchanged, DailyInv
  <2>6. ChargedShows'
    BY <1>1, <2>1, <2>2 DEF ChargedShows, DailyInv, StillSo, ReadSo, SeenUnchanged,
       DailyTypes, Flags, Amounts, Places, Alone
  <2>7. DaysAddUp'
    BY <1>1, <2>1, <2>2 DEF DaysAddUp, Taken, DailyInv, StillSo, ReadSo, DailyTypes, Flags,
       Amounts, Places, Alone
  <2> QED BY <2>3, <2>4, <2>5, <2>6, <2>7 DEF DailyInv
<1>5. ASSUME NEW a \in D!Agents, D!Stop(a) PROVE DailyInv'
  <2>1. /\ pc[a] # "idle"
        /\ lost' = lost + Taken(a)
        /\ faults' = faults + 1
        /\ UNCHANGED <<active, paused, fresh, recent, balance, owed, today, overlapped>>
        /\ D!Leave(a)
    BY <1>5 DEF D!At, D!row, D!Stop, D!Fault, Taken
  <2>2. /\ D!Goto(a, "idle")
        /\ sawPaused' \in [D!Buttons -> BOOLEAN]
        /\ sawActive' \in [D!Buttons -> BOOLEAN]
        /\ a # "bot" => sawActive'["bot"] = sawActive["bot"]
        /\ a # "cabinet" => sawActive'["cabinet"] = sawActive["cabinet"]
    BY <1>1, <1>5, <2>1, LeaveMoves
  <2>3. /\ pc' \in [D!Agents -> Labels]
        /\ pc'["loop"] = IF a = "loop" THEN "idle" ELSE pc["loop"]
        /\ pc'["topup"] = IF a = "topup" THEN "idle" ELSE pc["topup"]
        /\ pc'["bot"] = IF a = "bot" THEN "idle" ELSE pc["bot"]
        /\ pc'["cabinet"] = IF a = "cabinet" THEN "idle" ELSE pc["cabinet"]
    BY <1>1, <1>5, <2>2, GotoMoves DEF Labels
  <2>4. DailyTypes'
    <3>1. Flags'
      BY <1>1, <1>5, <2>1, <2>2, <2>3 DEF DailyTypes, Flags
    <3>2. Amounts'
      BY <1>1, <1>5, <2>1, <2>2, <2>3 DEF DailyTypes, Amounts, Taken
    <3>3. Places'
      BY <1>1, <1>5, <2>1, <2>2, <2>3 DEF DailyTypes, Places
    <3> QED BY <3>1, <3>2, <3>3 DEF DailyTypes
  <2>5. StillSo'
    BY <1>1, <1>5, <2>1, <2>2, <2>3 DEF StillSo, ReadSo, DailyInv
  <2>6. SeenUnchanged'
    BY <1>1, <1>5, <2>1, <2>2, <2>3 DEF SeenUnchanged, DailyInv
  <2>7. ChargedShows'
    BY <1>1, <1>5, <2>1, <2>2, <2>3 DEF ChargedShows, DailyInv, StillSo, ReadSo,
       SeenUnchanged, DailyTypes, Flags, Amounts, Places
  <2>8. /\ Taken("topup")' = IF a = "topup" THEN 0 ELSE Taken("topup")
        /\ Taken("bot")' = IF a = "bot" THEN 0 ELSE Taken("bot")
        /\ Taken("cabinet")' = IF a = "cabinet" THEN 0 ELSE Taken("cabinet")
        /\ Taken("loop") = 0
        /\ a \in {"loop", "topup", "bot", "cabinet"}
        /\ \A x \in D!Agents : Taken(x) \in {0, 1}
    BY <1>1, <1>5, <2>3 DEF Taken, DailyTypes, Places, D!Agents, D!Buttons
  <2>9. DaysAddUp'
    BY <1>1, <2>1, <2>8, AgentsAre DEF DaysAddUp, DailyInv, DailyTypes, Flags, Amounts
  <2> QED BY <2>4, <2>5, <2>6, <2>7, <2>9 DEF DailyInv
<1>6. CASE D!Day
  <2>1. /\ today' = 0
        /\ fresh' = FALSE
        /\ recent' = FALSE
        /\ pc["loop"] = "idle" /\ pc["topup"] = "idle"
        /\ pc["bot"] = "idle" /\ pc["cabinet"] = "idle"
        /\ UNCHANGED <<pc, active, paused, balance, sawPaused, sawActive, owed, lost,
                      overlapped, faults>>
    BY <1>6 DEF D!Day, D!At, D!row, D!locals, D!books, D!counters, D!Agents, D!Buttons
  <2>2. DailyTypes'
    <3>1. Flags'
      BY <1>1, <2>1 DEF DailyTypes, Flags
    <3>2. Amounts'
      BY <1>1, <2>1 DEF DailyTypes, Amounts, Taken
    <3>3. Places'
      BY <1>1, <2>1 DEF DailyTypes, Places
    <3> QED BY <3>1, <3>2, <3>3 DEF DailyTypes
  <2>3. StillSo'
    BY <1>1, <2>1 DEF StillSo, ReadSo, DailyInv
  <2>4. SeenUnchanged'
    BY <1>1, <2>1 DEF SeenUnchanged, DailyInv
  <2>5. ChargedShows'
    BY <1>1, <2>1 DEF ChargedShows, DailyInv, StillSo, ReadSo, SeenUnchanged, DailyTypes,
       Flags, Amounts, Places
  <2>6. DaysAddUp'
    BY <1>1, <2>1 DEF DaysAddUp, Taken, DailyInv, StillSo, ReadSo, DailyTypes, Flags, Amounts,
       Places
  <2> QED BY <2>2, <2>3, <2>4, <2>5, <2>6 DEF DailyInv
<1>7. CASE D!Minute
  <2>1. /\ pc["topup"] \notin {"topped", "resuming"}
        /\ recent' = FALSE
        /\ UNCHANGED <<pc, active, paused, fresh, balance, sawPaused, sawActive, owed, lost,
                      today, overlapped, faults>>
    BY <1>7 DEF D!Minute, D!At, D!row, D!locals, D!books, D!counters
  <2>2. DailyTypes'
    <3>1. Flags'
      BY <1>1, <2>1 DEF DailyTypes, Flags
    <3>2. Amounts'
      BY <1>1, <2>1 DEF DailyTypes, Amounts, Taken
    <3>3. Places'
      BY <1>1, <2>1 DEF DailyTypes, Places
    <3> QED BY <3>1, <3>2, <3>3 DEF DailyTypes
  <2>3. StillSo'
    BY <1>1, <2>1 DEF StillSo, ReadSo, DailyInv
  <2>4. SeenUnchanged'
    BY <1>1, <2>1 DEF SeenUnchanged, DailyInv
  <2>5. ChargedShows'
    BY <1>1, <2>1 DEF ChargedShows, DailyInv, StillSo, ReadSo, SeenUnchanged, DailyTypes,
       Flags, Amounts, Places
  <2>6. DaysAddUp'
    BY <1>1, <2>1 DEF DaysAddUp, Taken, DailyInv, StillSo, ReadSo, DailyTypes, Flags, Amounts,
       Places
  <2> QED BY <2>2, <2>3, <2>4, <2>5, <2>6 DEF DailyInv
<1>8. CASE D!Shorten
  <2>1. /\ active' = FALSE
        /\ today' = 0
        /\ UNCHANGED <<pc, paused, fresh, balance, sawPaused, sawActive, owed, lost, faults>>
        /\ D!Changes("administrator")
    BY <1>8 DEF D!Shorten, D!At, D!row, D!locals, D!books, D!counters
  <2>2. /\ overlapped' \in BOOLEAN
        /\ recent' = TRUE
        /\ overlapped' = FALSE => overlapped = FALSE /\ Alone("administrator")
    BY <1>1, <2>1, ChangesAlone
  <2>3. DailyTypes'
    <3>1. Flags'
      BY <1>1, <2>1, <2>2 DEF DailyTypes, Flags
    <3>2. Amounts'
      BY <1>1, <2>1, <2>2 DEF DailyTypes, Amounts, Taken
    <3>3. Places'
      BY <1>1, <2>1, <2>2 DEF DailyTypes, Places
    <3> QED BY <3>1, <3>2, <3>3 DEF DailyTypes
  <2>4. StillSo'
    BY <1>1, <2>1, <2>2 DEF StillSo, ReadSo, DailyInv, Alone
  <2>5. SeenUnchanged'
    BY <1>1, <2>1, <2>2 DEF SeenUnchanged, DailyInv
  <2>6. ChargedShows'
    BY <1>1, <2>1, <2>2 DEF ChargedShows, DailyInv, StillSo, ReadSo, SeenUnchanged,
       DailyTypes, Flags, Amounts, Places, Alone
  <2>7. DaysAddUp'
    BY <1>1, <2>1, <2>2 DEF DaysAddUp, Taken, DailyInv, StillSo, ReadSo, DailyTypes, Flags,
       Amounts, Places, Alone
  <2> QED BY <2>3, <2>4, <2>5, <2>6, <2>7 DEF DailyInv
<1>9. CASE D!LimitTraffic
  <2>1. /\ active' = FALSE
        /\ today' = 0
        /\ UNCHANGED <<pc, paused, fresh, balance, sawPaused, sawActive, owed, lost, faults>>
        /\ D!Changes("panel")
    BY <1>9 DEF D!LimitTraffic, D!At, D!row, D!locals, D!books, D!counters
  <2>2. /\ overlapped' \in BOOLEAN
        /\ recent' = TRUE
        /\ overlapped' = FALSE => overlapped = FALSE /\ Alone("panel")
    BY <1>1, <2>1, ChangesAlone
  <2>3. DailyTypes'
    <3>1. Flags'
      BY <1>1, <2>1, <2>2 DEF DailyTypes, Flags
    <3>2. Amounts'
      BY <1>1, <2>1, <2>2 DEF DailyTypes, Amounts, Taken
    <3>3. Places'
      BY <1>1, <2>1, <2>2 DEF DailyTypes, Places
    <3> QED BY <3>1, <3>2, <3>3 DEF DailyTypes
  <2>4. StillSo'
    BY <1>1, <2>1, <2>2 DEF StillSo, ReadSo, DailyInv, Alone
  <2>5. SeenUnchanged'
    BY <1>1, <2>1, <2>2 DEF SeenUnchanged, DailyInv
  <2>6. ChargedShows'
    BY <1>1, <2>1, <2>2 DEF ChargedShows, DailyInv, StillSo, ReadSo, SeenUnchanged,
       DailyTypes, Flags, Amounts, Places, Alone
  <2>7. DaysAddUp'
    BY <1>1, <2>1, <2>2 DEF DaysAddUp, Taken, DailyInv, StillSo, ReadSo, DailyTypes, Flags,
       Amounts, Places, Alone
  <2> QED BY <2>3, <2>4, <2>5, <2>6, <2>7 DEF DailyInv
<1>10. CASE D!Reenable
  <2>1. /\ active = FALSE
        /\ active' = TRUE
        /\ fresh = TRUE
        /\ UNCHANGED <<pc, paused, fresh, balance, sawPaused, sawActive, owed, lost, today,
                      faults>>
        /\ D!Changes("panel")
    BY <1>10 DEF D!Reenable, D!At, D!row, D!locals, D!books, D!counters
  <2>2. /\ overlapped' \in BOOLEAN
        /\ recent' = TRUE
        /\ overlapped' = FALSE => overlapped = FALSE /\ Alone("panel")
    BY <1>1, <2>1, ChangesAlone
  <2>3. DailyTypes'
    <3>1. Flags'
      BY <1>1, <2>1, <2>2 DEF DailyTypes, Flags
    <3>2. Amounts'
      BY <1>1, <2>1, <2>2 DEF DailyTypes, Amounts, Taken
    <3>3. Places'
      BY <1>1, <2>1, <2>2 DEF DailyTypes, Places
    <3> QED BY <3>1, <3>2, <3>3 DEF DailyTypes
  <2>4. StillSo'
    BY <1>1, <2>1, <2>2 DEF StillSo, ReadSo, DailyInv, Alone
  <2>5. SeenUnchanged'
    BY <1>1, <2>1, <2>2 DEF SeenUnchanged, DailyInv
  <2>6. ChargedShows'
    BY <1>1, <2>1, <2>2 DEF ChargedShows, DailyInv, StillSo, ReadSo, SeenUnchanged,
       DailyTypes, Flags, Amounts, Places, Alone
  <2>7. DaysAddUp'
    BY <1>1, <2>1, <2>2 DEF DaysAddUp, Taken, DailyInv, StillSo, ReadSo, DailyTypes, Flags,
       Amounts, Places, Alone
  <2> QED BY <2>3, <2>4, <2>5, <2>6, <2>7 DEF DailyInv
<1> QED BY <1>2, <1>3, <1>4, <1>5, <1>6, <1>7, <1>8, <1>9, <1>10

(* Every step of the daily tariffs keeps the invariant. *)
LEMMA DailyNext == DailyInv /\ [D!Next]_(D!vars) => DailyInv'
<1>1. SUFFICES ASSUME DailyInv, [D!Next]_(D!vars) PROVE DailyInv'
  OBVIOUS
<1>2. CASE D!LoopStep
  BY <1>1, <1>2, DailyLoopStep
<1>3. CASE D!TopUp \/ D!AfterTopUp \/ D!ResumeFails
  BY <1>1, <1>3, DailyTopUpStep
<1>4. CASE \E b \in D!Buttons : D!ButtonStep(b)
  BY <1>1, <1>4, DailyButtonStep
<1>5. CASE \/ D!MiniApp \/ D!Cancel \/ D!Shorten \/ D!LimitTraffic \/ D!Reenable
           \/ \E a \in D!Agents : D!Stop(a)
           \/ D!Day \/ D!Minute
  BY <1>1, <1>5, DailyOtherStep
<1>6. CASE UNCHANGED D!vars
  BY <1>1, <1>6 DEF D!vars, D!row, D!locals, D!books, D!counters, DailyInv, DailyTypes,
     Flags, Amounts, Places, StillSo, ReadSo, SeenUnchanged, ChargedShows, DaysAddUp, Taken
<1> QED BY <1>1, <1>2, <1>3, <1>4, <1>5, <1>6 DEF D!Next

(* The books as the property counts them. *)
LEMMA DailyBooks == DailyInv => BooksBalance
<1>1. SUFFICES ASSUME DailyInv PROVE BooksBalance
  OBVIOUS
<1>2. D!UnderWay = Taken("topup") + Taken("bot") + Taken("cabinet")
  BY <1>1, UnderWayIs DEF DailyInv
<1>3. overlapped \in BOOLEAN /\ today \in Nat /\ faults \in Nat
  BY <1>1 DEF DailyInv, DailyTypes, Flags, Amounts
<1> QED BY <1>1, <1>2, <1>3 DEF BooksBalance, D!BooksBalance, DailyInv, DaysAddUp, ChargedShows

(* What the composition does to the daily tariff, the bot does. *)
LEMMA DailyMoves == AllSpec => D!Init /\ [][D!Next]_(D!vars)
<1>1. AllInit => D!Init
  BY DEF AllInit
<1>2. [AllNext]_<<part, vars, receiptVars, dailyVars, renewalVars, appleVars>> => [D!Next]_(D!vars)
  BY DEF AllNext, dailyVars, D!vars, D!row, D!locals, D!books, D!counters
<1> QED BY <1>1, <1>2, PTL DEF AllSpec

(* Days that are charged and days that are given balance, and no day is charged twice
   unless two charges overlapped. *)
THEOREM DailyBooksAlways == AllSpec => []BooksBalance
<1>1. D!Init /\ [][D!Next]_(D!vars) => []DailyInv
  BY DailyInit, DailyNext, PTL
<1> QED BY <1>1, DailyMoves, DailyBooks, PTL

-----------------------------------------------------------------------------
(***************************************************************************)
(* The renewals: what is charged moves the end.                            *)
(***************************************************************************)

(* A renewal lasts, and the bot's own agents are no requests. *)
RenewalConstants ==
    /\ Period \in Nat \ {0}
    /\ "monitor" \notin Requests /\ "topup" \notin Requests /\ "reader" \notin Requests

(* Where each agent can stand. *)
Stations(a) ==
    IF a = "monitor" THEN {"idle", "selected", "charged", "checking", "expiring"}
    ELSE IF a = "topup" THEN {"idle", "topped", "read", "buying", "ordered", "emptying",
                              "renewing", "charged"}
    ELSE IF a = "reader" THEN {"idle", "expiring"}
    ELSE {"idle", "charged"}

Steps == {"idle", "selected", "charged", "checking", "expiring", "topped", "read", "buying",
          "ordered", "emptying", "renewing"}

(* The types that the argument needs. *)
RenewalTypes ==
    /\ running \in BOOLEAN /\ touched \in BOOLEAN /\ crossed \in BOOLEAN /\ needless \in BOOLEAN
    /\ end \in Nat /\ now \in Nat /\ paid \in Int /\ gained \in Int /\ cutOff \in Int
    /\ where \in [N!Agents -> Steps]
    /\ \A a \in N!Agents : where[a] \in Stations(a)
    /\ copy \in [N!Agents -> [end : Nat, active : BOOLEAN]]

OnHand == {"charged", "ordered"}

(* Whoever has charged a renewal that it has not written yet. *)
InHand == {a \in N!Agents : where[a] \in OnHand}

(* As long as nobody has come in between, what the loop and the top-up will write is
   what stands in the row, and what is marked as expired has ended. *)
CopiesAgree ==
    crossed = FALSE =>
        /\ \A a \in InHand \ Requests : copy[a].end = end /\ copy[a].active = running
        /\ \A a \in N!Agents : where[a] = "expiring" => end <= now

(* A subscription with time left is running. *)
TimeIsUsable == crossed = FALSE => (end > now => running = TRUE)

(* The renewal after a top-up looks again whether the row has changed. *)
RenewsEnded ==
    crossed = FALSE =>
        /\ where["topup"] = "renewing" /\ touched = FALSE => end <= now
        /\ needless = FALSE

(* The renewals charged are those that moved the end, those cut off and those in hand. *)
RenewalsAddUp ==
    /\ IsFiniteSet(InHand)
    /\ crossed = FALSE => paid = gained + cutOff + Cardinality(InHand)

RenewalInv == RenewalTypes /\ CopiesAgree /\ TimeIsUsable /\ RenewsEnded /\ RenewalsAddUp

(* The agents, and where they stand. *)
LEMMA RenewalAgents ==
    ASSUME RenewalConstants
    PROVE  /\ "monitor" \in N!Agents /\ "topup" \in N!Agents /\ "reader" \in N!Agents
           /\ \A r \in Requests : r \in N!Agents /\ Stations(r) = {"idle", "charged"}
           /\ \A a \in N!Agents : "idle" \in Stations(a) /\ Stations(a) \subseteq Steps
           /\ \A a \in N!Agents : a \in Requests \/ a \in {"monitor", "topup", "reader"}
BY DEF RenewalConstants, N!Agents, Stations, Steps

(* One agent moves. *)
LEMMA RenewalGoto ==
    ASSUME RenewalConstants, RenewalTypes, NEW a \in N!Agents, NEW l \in Stations(a),
           N!Goto(a, l)
    PROVE  /\ where' \in [N!Agents -> Steps]
           /\ \A b \in N!Agents : where'[b] \in Stations(b)
           /\ \A b \in N!Agents : where'[b] = IF b = a THEN l ELSE where[b]
           /\ InHand' = IF l \in OnHand THEN InHand \cup {a} ELSE InHand \ {a}
<1>1. l \in Steps
  BY RenewalAgents
<1>2. where' = [where EXCEPT ![a] = l] /\ where \in [N!Agents -> Steps]
  BY DEF N!Goto, RenewalTypes
<1>3. where' \in [N!Agents -> Steps]
  BY <1>1, <1>2
<1>4. \A b \in N!Agents : where'[b] = IF b = a THEN l ELSE where[b]
  BY <1>2
<1>5. \A b \in N!Agents : where'[b] \in Stations(b)
  BY <1>4 DEF RenewalTypes
<1>6. InHand' = {b \in N!Agents : where'[b] \in OnHand}
  BY DEF InHand
<1>7. InHand' = IF l \in OnHand THEN InHand \cup {a} ELSE InHand \ {a}
  BY <1>4, <1>6 DEF InHand
<1> QED BY <1>3, <1>4, <1>5, <1>7

(* A later of two times. *)
LEMMA LaterOf ==
    ASSUME NEW x \in Int, NEW y \in Int
    PROVE  N!Max({x, y}) = IF x >= y THEN x ELSE y
<1> DEFINE m == IF x >= y THEN x ELSE y
<1>1. m \in {x, y} /\ \A z \in {x, y} : m >= z
  OBVIOUS
<1>2. \A w \in {x, y} : (\A z \in {x, y} : w >= z) => w = m
  OBVIOUS
<1> HIDE DEF m
<1>3. (CHOOSE w \in {x, y} : \A z \in {x, y} : w >= z) = m
  BY <1>1, <1>2
<1> QED BY <1>3 DEF N!Max, m

(* As long as a change counts as not crossing, nobody else holds what it has read. *)
LEMMA RenewalChanges ==
    ASSUME RenewalTypes, NEW a, N!Changes(a)
    PROVE  /\ touched' = TRUE /\ crossed' \in BOOLEAN
           /\ crossed' = FALSE =>
                /\ crossed = FALSE
                /\ \A b \in N!Agents : b # a => where[b] # "expiring"
                /\ \A b \in InHand \ Requests : b = a
<1>1. touched' = TRUE /\ crossed' = (crossed \/ N!Exposed \ {a} # {}) /\ crossed \in BOOLEAN
  BY DEF N!Changes, RenewalTypes
<1>2. N!Exposed = {b \in N!Agents : \/ where[b] = "expiring"
                                    \/ where[b] \in OnHand /\ b \notin Requests}
  BY DEF N!Exposed, N!At, N!Charged, OnHand
<1> QED BY <1>1, <1>2 DEF InHand

(* A step of an agent that holds nothing and changes nothing. *)
LEMMA RenewalMove ==
    ASSUME RenewalConstants, RenewalInv, NEW a \in N!Agents, NEW l \in Stations(a),
           N!Goto(a, l), where[a] \notin OnHand, l \notin OnHand,
           crossed = FALSE /\ l = "expiring" => end <= now,
           crossed = FALSE /\ l = "renewing" /\ touched = FALSE => end <= now,
           UNCHANGED <<end, running, touched, now, paid, gained, cutOff, crossed, needless,
                       copy>>
    PROVE  RenewalInv'
<1>1. /\ where' \in [N!Agents -> Steps]
      /\ \A b \in N!Agents : where'[b] \in Stations(b)
      /\ \A b \in N!Agents : where'[b] = IF b = a THEN l ELSE where[b]
      /\ InHand' = InHand
  <2>1. InHand \ {a} = InHand
    BY DEF InHand
  <2> QED BY <2>1, RenewalGoto DEF RenewalInv
<1>2. RenewalTypes'
  BY <1>1 DEF RenewalInv, RenewalTypes
<1>3. CopiesAgree'
  BY <1>1 DEF RenewalInv, CopiesAgree
<1>4. TimeIsUsable'
  BY DEF RenewalInv, TimeIsUsable
<1>5. RenewsEnded'
  BY <1>1, RenewalAgents DEF RenewalInv, RenewsEnded
<1>6. RenewalsAddUp'
  BY <1>1 DEF RenewalInv, RenewalsAddUp
<1> QED BY <1>2, <1>3, <1>4, <1>5, <1>6 DEF RenewalInv

(* A charge. *)
LEMMA RenewalDebit ==
    ASSUME RenewalConstants, RenewalInv, NEW a \in N!Agents, NEW l \in Stations(a) \cap OnHand,
           N!Debit(a, l), where[a] \notin OnHand,
           needless' \in BOOLEAN, crossed = FALSE => needless' = FALSE,
           UNCHANGED <<end, running, touched, now, gained, cutOff, crossed>>
    PROVE  RenewalInv'
<1>1. /\ paid' = paid + 1
      /\ copy' = [copy EXCEPT ![a] = [end |-> end, active |-> running]]
      /\ N!Goto(a, l)
  BY DEF N!Debit
<1>2. /\ where' \in [N!Agents -> Steps]
      /\ \A b \in N!Agents : where'[b] \in Stations(b)
      /\ \A b \in N!Agents : where'[b] = IF b = a THEN l ELSE where[b]
      /\ InHand' = InHand \cup {a}
  BY <1>1, RenewalGoto DEF RenewalInv
<1>3. /\ copy' \in [N!Agents -> [end : Nat, active : BOOLEAN]]
      /\ copy'[a].end = end /\ copy'[a].active = running
      /\ \A b \in N!Agents : b # a => copy'[b] = copy[b]
  BY <1>1 DEF RenewalInv, RenewalTypes
<1>4. RenewalTypes'
  BY <1>1, <1>2, <1>3 DEF RenewalInv, RenewalTypes
<1>5. CopiesAgree'
  BY <1>2, <1>3 DEF RenewalInv, CopiesAgree, OnHand, InHand
<1>6. TimeIsUsable'
  BY DEF RenewalInv, TimeIsUsable
<1>7. RenewsEnded'
  BY <1>2, RenewalAgents DEF RenewalInv, RenewsEnded, OnHand
<1>8. RenewalsAddUp'
  <2>1. a \notin InHand /\ IsFiniteSet(InHand) /\ Cardinality(InHand) \in Nat
    BY FS_CardinalityType DEF InHand, RenewalInv, RenewalsAddUp
  <2>2. IsFiniteSet(InHand \cup {a}) /\ Cardinality(InHand \cup {a}) = Cardinality(InHand) + 1
    BY <2>1, FS_AddElement
  <2>3. paid \in Int /\ gained \in Int /\ cutOff \in Int
    BY DEF RenewalInv, RenewalTypes
  <2> QED BY <1>1, <1>2, <2>1, <2>2, <2>3 DEF RenewalInv, RenewalsAddUp
<1> QED BY <1>4, <1>5, <1>6, <1>7, <1>8 DEF RenewalInv

(* What an agent held is out of his hands. *)
LEMMA RenewalRelease ==
    ASSUME RenewalInv, NEW a \in N!Agents, InHand' = InHand \ {a}
    PROVE  /\ IsFiniteSet(InHand') /\ Cardinality(InHand) \in Nat
           /\ Cardinality(InHand') = Cardinality(InHand) - (IF where[a] \in OnHand THEN 1 ELSE 0)
<1>1. IsFiniteSet(InHand) /\ Cardinality(InHand) \in Nat
  BY FS_CardinalityType DEF RenewalInv, RenewalsAddUp
<1>2. a \in InHand <=> where[a] \in OnHand
  BY DEF InHand
<1> QED BY <1>1, <1>2, FS_RemoveElement

(* A copy is forgotten. *)
LEMMA RenewalForget ==
    ASSUME RenewalTypes, NEW a \in N!Agents, N!Forget(a)
    PROVE  /\ copy' \in [N!Agents -> [end : Nat, active : BOOLEAN]]
           /\ \A b \in N!Agents : b # a => copy'[b] = copy[b]
BY DEF RenewalTypes, N!Forget, N!Unread

(* A renewal moves the end by a period, from the end that the row has. *)
LEMMA RenewalExtend ==
    ASSUME RenewalConstants, RenewalInv, NEW a \in N!Agents, NEW l \in Stations(a),
           NEW from \in Nat, NEW was \in BOOLEAN,
           where[a] \in OnHand, l \notin OnHand \cup {"expiring", "renewing"},
           crossed = FALSE => from = end /\ was = running,
           N!Extend(a, from, was), N!Goto(a, l), N!Forget(a),
           UNCHANGED <<now, paid, cutOff, needless>>
    PROVE  RenewalInv'
<1>1. RenewalTypes /\ a \in InHand
  BY DEF RenewalInv, InHand
<1>2. /\ where' \in [N!Agents -> Steps]
      /\ \A b \in N!Agents : where'[b] \in Stations(b)
      /\ \A b \in N!Agents : where'[b] = IF b = a THEN l ELSE where[b]
      /\ InHand' = InHand \ {a}
  BY <1>1, RenewalGoto
<1>3. /\ end' = N!Max({from, now}) + Period
      /\ running' = (running \/ ~ was)
      /\ gained' = gained + (end' - N!Max({end, now})) \div Period
      /\ N!Changes(a)
  BY DEF N!Extend
<1>4. /\ touched' = TRUE /\ crossed' \in BOOLEAN
      /\ crossed' = FALSE =>
           /\ crossed = FALSE
           /\ \A b \in N!Agents : b # a => where[b] # "expiring"
           /\ \A b \in InHand \ Requests : b = a
  BY <1>1, <1>3, RenewalChanges
<1>5. Period \in Nat \ {0} /\ end \in Nat /\ now \in Nat /\ gained \in Int /\ paid \in Int
      /\ cutOff \in Int
  BY <1>1 DEF RenewalConstants, RenewalTypes
<1>6. /\ N!Max({from, now}) = IF from >= now THEN from ELSE now
      /\ N!Max({end, now}) = IF end >= now THEN end ELSE now
  BY <1>5, LaterOf
<1>7. end' \in Nat /\ gained' \in Int
  BY <1>3, <1>5, <1>6
<1>8. crossed' = FALSE => gained' = gained + 1
  <2>1. crossed' = FALSE => end' - N!Max({end, now}) = Period
    BY <1>3, <1>4, <1>5, <1>6
  <2>2. Period \div Period = 1
    BY <1>5
  <2> QED BY <1>3, <2>1, <2>2
<1>9. crossed' = FALSE => running' = TRUE
  BY <1>3, <1>4, <1>1 DEF RenewalTypes
<1>10. /\ copy' \in [N!Agents -> [end : Nat, active : BOOLEAN]]
       /\ \A b \in N!Agents : b # a => copy'[b] = copy[b]
  BY <1>1, RenewalForget
<1>11. RenewalTypes'
  <2>1. running' \in BOOLEAN
    BY <1>1, <1>3 DEF RenewalTypes
  <2> QED BY <1>1, <1>2, <1>4, <1>7, <1>10, <2>1 DEF RenewalTypes
<1>12. CopiesAgree'
  BY <1>2, <1>4 DEF CopiesAgree
<1>13. TimeIsUsable'
  BY <1>9 DEF TimeIsUsable
<1>14. RenewsEnded'
  BY <1>4 DEF RenewsEnded, RenewalInv
<1>15. RenewalsAddUp'
  <2>1. /\ IsFiniteSet(InHand') /\ Cardinality(InHand) \in Nat
        /\ Cardinality(InHand') = Cardinality(InHand) - 1
    BY <1>2, RenewalRelease
  <2> QED BY <1>4, <1>5, <1>8, <2>1 DEF RenewalsAddUp, RenewalInv
<1> QED BY <1>11, <1>12, <1>13, <1>14, <1>15 DEF RenewalInv

(* A renewal is given back or cut off: the books go with it. *)
LEMMA RenewalBreak ==
    ASSUME RenewalConstants, RenewalInv, NEW a \in N!Agents, NEW l \in Stations(a),
           l \in {"idle", "checking"}, N!Goto(a, l), N!Forget(a),
           paid' \in Int, cutOff' \in Int,
           paid' - cutOff' = paid - cutOff - (IF where[a] \in OnHand THEN 1 ELSE 0),
           UNCHANGED <<end, running, touched, now, gained, crossed, needless>>
    PROVE  RenewalInv'
<1>1. RenewalTypes
  BY DEF RenewalInv
<1>2. /\ where' \in [N!Agents -> Steps]
      /\ \A b \in N!Agents : where'[b] \in Stations(b)
      /\ \A b \in N!Agents : where'[b] = IF b = a THEN l ELSE where[b]
      /\ InHand' = InHand \ {a}
  <2>1. l \notin OnHand
    BY DEF OnHand
  <2> QED BY <1>1, <2>1, RenewalGoto
<1>3. /\ copy' \in [N!Agents -> [end : Nat, active : BOOLEAN]]
      /\ \A b \in N!Agents : b # a => copy'[b] = copy[b]
  BY <1>1, RenewalForget
<1>4. RenewalTypes'
  BY <1>1, <1>2, <1>3 DEF RenewalTypes
<1>5. CopiesAgree'
  BY <1>2, <1>3 DEF RenewalInv, CopiesAgree, InHand
<1>6. TimeIsUsable'
  BY DEF RenewalInv, TimeIsUsable
<1>7. RenewsEnded'
  BY <1>2, RenewalAgents DEF RenewalInv, RenewsEnded
<1>8. RenewalsAddUp'
  <2>1. /\ IsFiniteSet(InHand') /\ Cardinality(InHand) \in Nat
        /\ Cardinality(InHand') = Cardinality(InHand) - (IF where[a] \in OnHand THEN 1 ELSE 0)
    BY <1>2, RenewalRelease
  <2>2. paid \in Int /\ gained \in Int /\ cutOff \in Int
    BY <1>1 DEF RenewalTypes
  <2> DEFINE n == IF where[a] \in OnHand THEN 1 ELSE 0
  <2>3. n \in Int /\ paid' - cutOff' = paid - cutOff - n
        /\ Cardinality(InHand') = Cardinality(InHand) - n
    BY <2>1
  <2>4. crossed = FALSE => paid = gained + cutOff + Cardinality(InHand)
    BY DEF RenewalInv, RenewalsAddUp
  <2> HIDE DEF n
  <2>5. crossed' = FALSE => paid' = gained' + cutOff' + Cardinality(InHand')
    BY <2>1, <2>2, <2>3, <2>4
  <2> QED BY <2>1, <2>5 DEF RenewalsAddUp
<1> QED BY <1>4, <1>5, <1>6, <1>7, <1>8 DEF RenewalInv

(* A subscription that has ended is marked as expired. *)
LEMMA RenewalMark ==
    ASSUME RenewalConstants, RenewalInv, NEW a \in N!Agents, NEW l \in {"idle", "read"},
           l \in Stations(a), where[a] \notin OnHand,
           crossed = FALSE => end <= now,
           running' = FALSE, N!Changes(a), N!Goto(a, l),
           UNCHANGED <<end, now, copy, paid, gained, cutOff, needless>>
    PROVE  RenewalInv'
<1>1. RenewalTypes
  BY DEF RenewalInv
<1>2. /\ where' \in [N!Agents -> Steps]
      /\ \A b \in N!Agents : where'[b] \in Stations(b)
      /\ \A b \in N!Agents : where'[b] = IF b = a THEN l ELSE where[b]
      /\ InHand' = InHand
  <2>1. l \notin OnHand /\ InHand \ {a} = InHand
    BY DEF OnHand, InHand
  <2> QED BY <1>1, <2>1, RenewalGoto
<1>3. /\ touched' = TRUE /\ crossed' \in BOOLEAN
      /\ crossed' = FALSE =>
           /\ crossed = FALSE
           /\ \A b \in N!Agents : b # a => where[b] # "expiring"
           /\ \A b \in InHand \ Requests : b = a
  BY <1>1, RenewalChanges
<1>4. RenewalTypes'
  BY <1>1, <1>2, <1>3 DEF RenewalTypes
<1>5. CopiesAgree'
  BY <1>2, <1>3 DEF CopiesAgree, InHand
<1>6. TimeIsUsable'
  BY <1>1, <1>3 DEF RenewalTypes, TimeIsUsable
<1>7. RenewsEnded'
  BY <1>3 DEF RenewsEnded, RenewalInv
<1>8. RenewalsAddUp'
  BY <1>2, <1>3 DEF RenewalsAddUp, RenewalInv
<1> QED BY <1>4, <1>5, <1>6, <1>7, <1>8 DEF RenewalInv

(* At the start nobody has a renewal in hand. *)
LEMMA RenewalInit == RenewalConstants /\ N!Init => RenewalInv
<1>1. SUFFICES ASSUME RenewalConstants, N!Init PROVE RenewalInv
  OBVIOUS
<1>2. /\ where = [a \in N!Agents |-> "idle"] /\ end = Period /\ running = TRUE /\ touched = FALSE
      /\ paid = 0 /\ gained = 0 /\ cutOff = 0 /\ crossed = FALSE /\ needless = FALSE /\ now = 0
      /\ copy = [a \in N!Agents |-> [end |-> 0, active |-> FALSE]]
  BY <1>1 DEF N!Init, N!Unread
<1>3. /\ where \in [N!Agents -> Steps] /\ \A a \in N!Agents : where[a] \in Stations(a)
      /\ copy \in [N!Agents -> [end : Nat, active : BOOLEAN]]
  BY <1>1, <1>2, RenewalAgents DEF Steps
<1>4. RenewalTypes
  <2>1. Period \in Nat
    BY <1>1 DEF RenewalConstants
  <2>2. end \in Nat /\ now \in Nat /\ paid \in Int /\ gained \in Int /\ cutOff \in Int
    BY <1>2, <2>1
  <2>3. running \in BOOLEAN /\ touched \in BOOLEAN /\ crossed \in BOOLEAN /\ needless \in BOOLEAN
    BY <1>2
  <2> QED BY <1>3, <2>2, <2>3 DEF RenewalTypes
<1>5. InHand = {}
  BY <1>2 DEF InHand, OnHand
<1>6. RenewalsAddUp
  BY <1>2, <1>5, FS_EmptySet DEF RenewalsAddUp
<1>7. where["topup"] = "idle" /\ \A a \in N!Agents : where[a] = "idle"
  BY <1>1, <1>2, RenewalAgents
<1> QED BY <1>2, <1>4, <1>5, <1>6, <1>7 DEF RenewalInv, CopiesAgree, TimeIsUsable, RenewsEnded

(* A request charges and, in a second commit, moves the end that it reads again. *)
LEMMA RenewalRequestStep ==
    ASSUME RenewalConstants, RenewalInv, NEW r \in Requests, N!Renew(r) \/ N!ServiceExtend(r)
    PROVE  RenewalInv'
<1>1. /\ r \in N!Agents /\ Stations(r) = {"idle", "charged"} /\ RenewalTypes
      /\ needless \in BOOLEAN /\ end \in Nat /\ running \in BOOLEAN
      /\ crossed = FALSE => needless = FALSE
  BY RenewalAgents DEF RenewalInv, RenewalTypes, RenewsEnded
<1>2. CASE N!Renew(r)
  <2>1. /\ where[r] = "idle"
        /\ UNCHANGED <<end, running, touched, now, gained, cutOff, crossed, needless>>
        /\ N!Debit(r, "charged") \/ UNCHANGED <<paid, copy, where>>
    BY <1>2 DEF N!Renew, N!At, N!row, N!loop, N!books, N!counters
  <2>2. CASE N!Debit(r, "charged")
    BY <1>1, <2>1, <2>2, RenewalDebit DEF OnHand
  <2>3. CASE UNCHANGED <<paid, copy, where>>
    BY <2>1, <2>3 DEF RenewalInv, RenewalTypes, CopiesAgree, TimeIsUsable, RenewsEnded,
       RenewalsAddUp, InHand
  <2> QED BY <2>1, <2>2, <2>3
<1>3. CASE N!ServiceExtend(r)
  <2>1. /\ where[r] = "charged"
        /\ N!Extend(r, end, running) /\ N!Goto(r, "idle") /\ N!Forget(r)
        /\ UNCHANGED <<now, paid, cutOff, needless>>
    BY <1>3 DEF N!ServiceExtend, N!At, N!loop, N!counters
  <2> QED BY <1>1, <2>1, RenewalExtend DEF OnHand
<1> QED BY <1>2, <1>3

(* Those without a lock of their own extend what they loaded with the charge, which is
   what the row has unless somebody came in between. *)
LEMMA RenewalCopyExtend ==
    ASSUME RenewalConstants, RenewalInv, NEW a \in N!Agents \ Requests,
           NEW l \in Stations(a),
           where[a] \in OnHand, l \notin OnHand \cup {"expiring", "renewing"},
           N!Extend(a, copy[a].end, copy[a].active), N!Goto(a, l), N!Forget(a),
           UNCHANGED <<now, paid, cutOff, needless>>
    PROVE  RenewalInv'
<1>1. copy[a].end \in Nat /\ copy[a].active \in BOOLEAN
  BY DEF RenewalInv, RenewalTypes
<1>2. crossed = FALSE => copy[a].end = end /\ copy[a].active = running
  BY DEF RenewalInv, CopiesAgree, InHand
<1> QED BY <1>1, <1>2, RenewalExtend

(* The monitoring loop. *)
LEMMA RenewalLoopStep == ASSUME RenewalConstants, RenewalInv, N!LoopStep PROVE RenewalInv'
<1>1. /\ "monitor" \in N!Agents \ Requests /\ RenewalTypes
      /\ Stations("monitor") = {"idle", "selected", "charged", "checking", "expiring"}
      /\ needless \in BOOLEAN
      /\ crossed = FALSE => needless = FALSE
  BY RenewalAgents DEF RenewalInv, RenewalTypes, RenewsEnded, Stations, RenewalConstants
<1> USE DEF N!At, N!row, N!loop, N!books, N!counters
<1>2. CASE N!SelectDue
  <2>1. PICK l \in {"selected", "checking"} : N!Goto("monitor", l)
    BY <1>2 DEF N!SelectDue
  <2>2. /\ where["monitor"] = "idle"
        /\ UNCHANGED <<end, running, touched, now, paid, gained, cutOff, crossed, needless, copy>>
    BY <1>2 DEF N!SelectDue
  <2> QED BY <1>1, <2>1, <2>2, RenewalMove DEF OnHand
<1>3. CASE N!AutopayDebit
  <2>1. /\ where["monitor"] = "selected"
        /\ UNCHANGED <<end, running, touched, now, gained, cutOff, crossed, needless>>
        /\ \/ N!Debit("monitor", "charged")
           \/ N!Goto("monitor", "checking") /\ UNCHANGED <<paid, copy>>
    BY <1>3 DEF N!AutopayDebit
  <2>2. CASE N!Debit("monitor", "charged")
    <3>1. /\ "charged" \in Stations("monitor") \cap OnHand /\ where["monitor"] \notin OnHand
          /\ needless' \in BOOLEAN
          /\ crossed = FALSE => needless' = FALSE
      BY <1>1, <2>1 DEF OnHand
    <3> QED BY <1>1, <2>1, <2>2, <3>1, RenewalDebit
  <2>3. CASE N!Goto("monitor", "checking") /\ UNCHANGED <<paid, copy>>
    BY <1>1, <2>1, <2>3, RenewalMove DEF OnHand
  <2> QED BY <2>1, <2>2, <2>3
<1>4. CASE N!AutopayExtend
  <2>1. /\ where["monitor"] = "charged"
        /\ N!Extend("monitor", copy["monitor"].end, copy["monitor"].active)
        /\ N!Goto("monitor", "checking") /\ N!Forget("monitor")
        /\ UNCHANGED <<now, paid, cutOff, needless>>
    BY <1>4 DEF N!AutopayExtend
  <2> QED BY <1>1, <2>1, RenewalCopyExtend DEF OnHand
<1>5. CASE N!SelectEnded
  <2>1. /\ where["monitor"] = "checking"
        /\ UNCHANGED <<end, running, touched, now, paid, gained, cutOff, crossed, needless, copy>>
        /\ (end <= now /\ N!Goto("monitor", "expiring")) \/ N!Goto("monitor", "idle")
    BY <1>5 DEF N!SelectEnded, N!Lapsed
  <2>2. CASE end <= now /\ N!Goto("monitor", "expiring")
    BY <1>1, <2>1, <2>2, RenewalMove DEF OnHand
  <2>3. CASE N!Goto("monitor", "idle")
    BY <1>1, <2>1, <2>3, RenewalMove DEF OnHand
  <2> QED BY <2>1, <2>2, <2>3
<1>6. CASE N!Expire("monitor")
  <2>1. /\ where["monitor"] = "expiring" /\ running' = FALSE
        /\ N!Changes("monitor") /\ N!Goto("monitor", "idle")
        /\ UNCHANGED <<end, now, copy, paid, gained, cutOff, needless>>
    BY <1>6 DEF N!Expire
  <2>2. crossed = FALSE => end <= now
    BY <1>1, <2>1 DEF RenewalInv, CopiesAgree
  <2> QED BY <1>1, <2>1, <2>2, RenewalMark DEF OnHand
<1> QED BY <1>2, <1>3, <1>4, <1>5, <1>6 DEF N!LoopStep

(* What follows a top-up. *)
LEMMA RenewalTopUpStep ==
    ASSUME RenewalConstants, RenewalInv, N!TopUp \/ N!AfterTopUp
    PROVE  RenewalInv'
<1>1. /\ "topup" \in N!Agents \ Requests /\ RenewalTypes
      /\ Stations("topup") = {"idle", "topped", "read", "buying", "ordered", "emptying",
                              "renewing", "charged"}
      /\ needless \in BOOLEAN
      /\ crossed = FALSE => needless = FALSE
      /\ running \in BOOLEAN /\ touched \in BOOLEAN
  BY RenewalAgents DEF RenewalInv, RenewalTypes, RenewsEnded, Stations, RenewalConstants
<1> USE DEF N!At, N!row, N!loop, N!books, N!counters
<1>2. CASE N!TopUp
  <2>1. /\ where["topup"] = "idle" /\ N!Goto("topup", "topped")
        /\ UNCHANGED <<end, running, touched, now, paid, gained, cutOff, crossed, needless, copy>>
    BY <1>2 DEF N!TopUp
  <2> QED BY <1>1, <2>1, RenewalMove DEF OnHand
<1>3. CASE N!ReadForDaily
  <2>1. /\ where["topup"] = "topped" /\ N!Goto("topup", "read")
        /\ UNCHANGED <<end, now, copy, paid, gained, cutOff, needless>>
        /\ \/ end <= now /\ running' = FALSE /\ N!Changes("topup")
           \/ UNCHANGED <<running, touched, crossed>>
    BY <1>3 DEF N!ReadForDaily, N!Lapsed
  <2>2. CASE end <= now /\ running' = FALSE /\ N!Changes("topup")
    BY <1>1, <2>1, <2>2, RenewalMark DEF OnHand
  <2>3. CASE UNCHANGED <<running, touched, crossed>>
    BY <1>1, <2>1, <2>3, RenewalMove DEF OnHand
  <2> QED BY <2>1, <2>2, <2>3
<1>4. CASE N!ReadCart
  <2>1. /\ where["topup"] = "read"
        /\ UNCHANGED <<end, running, touched, now, paid, gained, cutOff, crossed, needless, copy>>
    BY <1>4 DEF N!ReadCart
  <2>2. PICK l \in {"idle", "buying"} : N!Goto("topup", l)
    BY <1>4 DEF N!ReadCart
  <2> QED BY <1>1, <2>1, <2>2, RenewalMove DEF OnHand
<1>5. CASE N!CartDebit
  <2>1. /\ where["topup"] = "buying"
        /\ UNCHANGED <<end, running, touched, now, gained, cutOff, crossed, needless>>
        /\ N!Debit("topup", "ordered") \/ (N!Goto("topup", "idle") /\ UNCHANGED <<paid, copy>>)
    BY <1>5 DEF N!CartDebit
  <2>2. CASE N!Debit("topup", "ordered")
    <3>1. /\ "ordered" \in Stations("topup") \cap OnHand /\ where["topup"] \notin OnHand
          /\ needless' \in BOOLEAN
          /\ crossed = FALSE => needless' = FALSE
      BY <1>1, <2>1 DEF OnHand
    <3> QED BY <1>1, <2>1, <2>2, <3>1, RenewalDebit
  <2>3. CASE N!Goto("topup", "idle") /\ UNCHANGED <<paid, copy>>
    BY <1>1, <2>1, <2>3, RenewalMove DEF OnHand
  <2> QED BY <2>1, <2>2, <2>3
<1>6. CASE N!CartExtend
  <2>1. /\ where["topup"] = "ordered"
        /\ N!Extend("topup", copy["topup"].end, copy["topup"].active)
        /\ N!Goto("topup", "emptying") /\ N!Forget("topup")
        /\ UNCHANGED <<now, paid, cutOff, needless>>
    BY <1>6 DEF N!CartExtend
  <2> QED BY <1>1, <2>1, RenewalCopyExtend DEF OnHand
<1>7. CASE N!EmptyCart
  <2>1. /\ where["topup"] = "emptying" /\ N!Goto("topup", "idle")
        /\ UNCHANGED <<end, running, touched, now, paid, gained, cutOff, crossed, needless, copy>>
    BY <1>7 DEF N!EmptyCart
  <2> QED BY <1>1, <2>1, RenewalMove DEF OnHand
<1>8. CASE N!ReadExpired
  <2>1. /\ where["topup"] = "read"
        /\ UNCHANGED <<end, running, touched, now, paid, gained, cutOff, crossed, needless, copy>>
        /\ (running = FALSE /\ N!Goto("topup", "renewing")) \/ N!Goto("topup", "idle")
    BY <1>1, <1>8 DEF N!ReadExpired
  <2>2. CASE running = FALSE /\ N!Goto("topup", "renewing")
    <3>1. end \in Nat /\ now \in Nat
      BY <1>1 DEF RenewalTypes
    <3>2. crossed = FALSE => ~ (end > now)
      BY <2>2 DEF RenewalInv, TimeIsUsable
    <3>3. crossed = FALSE => end <= now
      BY <3>1, <3>2
    <3> QED BY <1>1, <2>1, <2>2, <3>3, RenewalMove DEF OnHand
  <2>3. CASE N!Goto("topup", "idle")
    BY <1>1, <2>1, <2>3, RenewalMove DEF OnHand
  <2> QED BY <2>1, <2>2, <2>3
<1>9. CASE N!ExpiredDebit
  <2>1. /\ where["topup"] = "renewing"
        /\ UNCHANGED <<end, running, touched, now, gained, cutOff, crossed>>
        /\ \/ /\ touched = FALSE /\ N!Debit("topup", "charged")
              /\ needless' = (needless \/ end > now)
           \/ N!Goto("topup", "idle") /\ UNCHANGED <<paid, copy, needless>>
    BY <1>1, <1>9 DEF N!ExpiredDebit
  <2>2. CASE /\ touched = FALSE /\ N!Debit("topup", "charged")
             /\ needless' = (needless \/ end > now)
    <3>1. end \in Nat /\ now \in Nat
      BY <1>1 DEF RenewalTypes
    <3>2. crossed = FALSE => end <= now
      BY <2>1, <2>2 DEF RenewalInv, RenewsEnded
    <3>3. crossed = FALSE => ~ (end > now)
      BY <3>1, <3>2
    <3>4. /\ "charged" \in Stations("topup") \cap OnHand /\ where["topup"] \notin OnHand
          /\ needless' \in BOOLEAN
          /\ crossed = FALSE => needless' = FALSE
      BY <1>1, <2>1, <2>2, <3>3 DEF OnHand
    <3> QED BY <1>1, <2>1, <2>2, <3>4, RenewalDebit
  <2>3. CASE N!Goto("topup", "idle") /\ UNCHANGED <<paid, copy, needless>>
    BY <1>1, <2>1, <2>3, RenewalMove DEF OnHand
  <2> QED BY <2>1, <2>2, <2>3
<1>10. CASE N!ExpiredExtend
  <2>1. /\ where["topup"] = "charged"
        /\ N!Extend("topup", copy["topup"].end, copy["topup"].active)
        /\ N!Goto("topup", "idle") /\ N!Forget("topup")
        /\ UNCHANGED <<now, paid, cutOff, needless>>
    BY <1>10 DEF N!ExpiredExtend
  <2> QED BY <1>1, <2>1, RenewalCopyExtend DEF OnHand
<1> QED BY <1>2, <1>3, <1>4, <1>5, <1>6, <1>7, <1>8, <1>9, <1>10 DEF N!AfterTopUp

(* Whoever reads a subscription that has ended, and marks it. *)
LEMMA RenewalReaderStep ==
    ASSUME RenewalConstants, RenewalInv, N!ReadEnded \/ N!Expire("reader")
    PROVE  RenewalInv'
<1>1. /\ "reader" \in N!Agents /\ RenewalTypes /\ Stations("reader") = {"idle", "expiring"}
  BY RenewalAgents DEF RenewalInv, Stations, RenewalConstants
<1> USE DEF N!At, N!row, N!loop, N!books, N!counters
<1>2. CASE N!ReadEnded
  <2>1. /\ where["reader"] = "idle" /\ N!Goto("reader", "expiring") /\ end <= now
        /\ UNCHANGED <<end, running, touched, now, paid, gained, cutOff, crossed, needless, copy>>
    BY <1>2 DEF N!ReadEnded, N!Lapsed
  <2> QED BY <1>1, <2>1, RenewalMove DEF OnHand
<1>3. CASE N!Expire("reader")
  <2>1. /\ where["reader"] = "expiring" /\ running' = FALSE
        /\ N!Changes("reader") /\ N!Goto("reader", "idle")
        /\ UNCHANGED <<end, now, copy, paid, gained, cutOff, needless>>
    BY <1>3 DEF N!Expire
  <2>2. crossed = FALSE => end <= now
    BY <1>1, <2>1 DEF RenewalInv, CopiesAgree
  <2> QED BY <1>1, <2>1, <2>2, RenewalMark DEF OnHand
<1> QED BY <1>2, <1>3

(* What goes wrong, and time. *)
LEMMA RenewalFaultStep ==
    ASSUME RenewalConstants, RenewalInv,
           (\E a \in N!Agents : N!Refund(a) \/ N!Stop(a)) \/ N!Crash \/ N!Tick \/ N!Minute
    PROVE  RenewalInv'
<1>1. RenewalTypes /\ paid \in Int /\ cutOff \in Int /\ gained \in Int
  BY DEF RenewalInv, RenewalTypes
<1> USE DEF N!At, N!row, N!loop, N!books, N!counters
<1>2. ASSUME NEW a \in N!Agents, N!Refund(a)
      PROVE  RenewalInv'
  <2>1. /\ where[a] \in OnHand /\ paid' = paid - 1
        /\ N!Goto(a, "idle") /\ N!Forget(a)
        /\ UNCHANGED <<end, running, touched, now, gained, cutOff, crossed, needless>>
    BY <1>2 DEF N!Refund, N!Charged, OnHand
  <2>2. /\ paid' \in Int /\ cutOff' \in Int
        /\ paid' - cutOff' = paid - cutOff - (IF where[a] \in OnHand THEN 1 ELSE 0)
    BY <1>1, <2>1
  <2>3. "idle" \in Stations(a)
    BY RenewalAgents
  <2> QED BY <2>1, <2>2, <2>3, RenewalBreak
<1>3. ASSUME NEW a \in N!Agents, N!Stop(a)
      PROVE  RenewalInv'
  <2>1. /\ cutOff' = cutOff + (IF where[a] \in OnHand THEN 1 ELSE 0)
        /\ N!Forget(a)
        /\ UNCHANGED <<end, running, touched, now, gained, paid, crossed, needless>>
    BY <1>3 DEF N!Stop, N!Charged, OnHand
  <2>2. PICK l \in {"idle", "checking"} : N!Goto(a, l) /\ (l = "checking" => a = "monitor")
    BY <1>3 DEF N!Stop
  <2>3. l \in Stations(a)
    BY <2>2, RenewalAgents DEF Stations
  <2>4. /\ paid' \in Int /\ cutOff' \in Int
        /\ paid' - cutOff' = paid - cutOff - (IF where[a] \in OnHand THEN 1 ELSE 0)
    BY <1>1, <2>1
  <2> QED BY <2>1, <2>2, <2>3, <2>4, RenewalBreak
<1>4. CASE N!Crash
  <2>1. /\ cutOff' = cutOff + Cardinality(InHand)
        /\ where' = [a \in N!Agents |-> "idle"]
        /\ copy' = [a \in N!Agents |-> [end |-> 0, active |-> FALSE]]
        /\ UNCHANGED <<end, running, touched, now, gained, paid, crossed, needless>>
    <3>1. \A S : N!Cardinality(S) = Cardinality(S)
      BY DEF N!Cardinality, Cardinality
    <3> QED BY <1>4, <3>1 DEF N!Crash, N!Charged, InHand, OnHand, N!Unread
  <2>2. /\ where' \in [N!Agents -> Steps] /\ \A a \in N!Agents : where'[a] \in Stations(a)
        /\ copy' \in [N!Agents -> [end : Nat, active : BOOLEAN]]
        /\ where'["topup"] = "idle" /\ \A a \in N!Agents : where'[a] = "idle"
    BY <2>1, RenewalAgents DEF Steps
  <2>3. InHand' = {} /\ IsFiniteSet(InHand') /\ Cardinality(InHand') = 0
    BY <2>2, FS_EmptySet DEF InHand, OnHand
  <2>4. Cardinality(InHand) \in Nat
    BY FS_CardinalityType DEF RenewalInv, RenewalsAddUp
  <2>5. RenewalTypes'
    <3>1. cutOff' \in Int
      BY <1>1, <2>1, <2>4
    <3> QED BY <1>1, <2>1, <2>2, <3>1 DEF RenewalTypes
  <2>6. RenewalsAddUp'
    BY <1>1, <2>1, <2>3, <2>4 DEF RenewalsAddUp, RenewalInv
  <2> QED BY <2>1, <2>2, <2>3, <2>5, <2>6 DEF RenewalInv, CopiesAgree, TimeIsUsable, RenewsEnded
<1>5. CASE N!Tick
  <2>1. /\ \A a \in N!Agents : where[a] = "idle"
        /\ now' = now + 1 /\ touched' = FALSE
        /\ UNCHANGED <<end, running, where, copy, paid, gained, cutOff, crossed, needless>>
    BY <1>5 DEF N!Tick
  <2>2. where["topup"] = "idle" /\ end \in Nat /\ now \in Nat /\ InHand = {}
    BY <1>1, <2>1, RenewalAgents DEF RenewalTypes, InHand, OnHand
  <2>3. RenewalTypes'
    <3>1. now' \in Nat
      BY <2>1, <2>2
    <3>2. touched' \in BOOLEAN
      BY <2>1
    <3> QED BY <1>1, <2>1, <3>1, <3>2 DEF RenewalTypes
  <2>4. TimeIsUsable'
    BY <2>1, <2>2 DEF RenewalInv, TimeIsUsable
  <2>5. InHand' = InHand
    BY <2>1 DEF InHand
  <2>6. RenewalsAddUp'
    BY <2>1, <2>5 DEF RenewalInv, RenewalsAddUp
  <2> QED BY <2>1, <2>2, <2>3, <2>4, <2>5, <2>6 DEF RenewalInv, CopiesAgree, RenewsEnded
<1>6. CASE N!Minute
  <2>1. /\ where["topup"] # "renewing" /\ touched' = FALSE
        /\ UNCHANGED <<end, running, now, where, copy, paid, gained, cutOff, crossed, needless>>
    BY <1>6 DEF N!Minute
  <2> QED BY <1>1, <2>1 DEF RenewalInv, RenewalTypes, CopiesAgree, TimeIsUsable, RenewsEnded,
             RenewalsAddUp, InHand
<1> QED BY <1>2, <1>3, <1>4, <1>5, <1>6

(* Every step of the renewals keeps the invariant. *)
LEMMA RenewalNext == RenewalConstants /\ RenewalInv /\ [N!Next]_(N!vars) => RenewalInv'
<1>1. SUFFICES ASSUME RenewalConstants, RenewalInv, [N!Next]_(N!vars) PROVE RenewalInv'
  OBVIOUS
<1>2. CASE \E r \in Requests : N!Renew(r) \/ N!ServiceExtend(r)
  BY <1>1, <1>2, RenewalRequestStep
<1>3. CASE N!LoopStep
  BY <1>1, <1>3, RenewalLoopStep
<1>4. CASE N!TopUp \/ N!AfterTopUp
  BY <1>1, <1>4, RenewalTopUpStep
<1>5. CASE N!ReadEnded \/ N!Expire("reader")
  BY <1>1, <1>5, RenewalReaderStep
<1>6. CASE (\E a \in N!Agents : N!Refund(a) \/ N!Stop(a)) \/ N!Crash \/ N!Tick \/ N!Minute
  BY <1>1, <1>6, RenewalFaultStep
<1>7. CASE UNCHANGED N!vars
  BY <1>1, <1>7 DEF N!vars, N!row, N!loop, N!books, N!counters, RenewalInv, RenewalTypes,
     CopiesAgree, TimeIsUsable, RenewsEnded, RenewalsAddUp, InHand
<1> QED BY <1>1, <1>2, <1>3, <1>4, <1>5, <1>6, <1>7 DEF N!Next

(* The renewals as the properties count them. *)
LEMMA RenewalBooks == RenewalInv => ChargedIsGained /\ NoNeedlessRenewal
<1>1. SUFFICES ASSUME RenewalInv PROVE ChargedIsGained /\ NoNeedlessRenewal
  OBVIOUS
<1>2. crossed \in BOOLEAN /\ needless \in BOOLEAN
  BY <1>1 DEF RenewalInv, RenewalTypes
<1>3. {a \in N!Agents : N!Charged(a)} = InHand
  BY DEF InHand, OnHand, N!Charged
<1>4. \A S : N!Cardinality(S) = Cardinality(S)
  BY DEF N!Cardinality, Cardinality
<1>5. ChargedIsGained
  BY <1>1, <1>2, <1>3, <1>4 DEF ChargedIsGained, N!ChargedIsGained, RenewalInv, RenewalsAddUp,
     TimeIsUsable
<1>6. NoNeedlessRenewal
  BY <1>1, <1>2 DEF NoNeedlessRenewal, N!NoNeedlessRenewal, RenewalInv, RenewsEnded
<1> QED BY <1>5, <1>6

(* What the composition does to the renewals, the bot does. *)
LEMMA RenewalMoves == AllSpec => N!Init /\ [][N!Next]_(N!vars)
<1>1. AllInit => N!Init
  BY DEF AllInit
<1>2. [AllNext]_<<part, vars, receiptVars, dailyVars, renewalVars, appleVars>>
         => [N!Next]_(N!vars)
  BY DEF AllNext, renewalVars, N!vars, N!row, N!loop, N!books, N!counters
<1> QED BY <1>1, <1>2, PTL DEF AllSpec

(* The invariant of the renewals, in every behaviour of the composition. *)
LEMMA RenewalAlways == ASSUME RenewalConstants PROVE AllSpec => []RenewalInv
<1>1. N!Init => RenewalInv
  BY RenewalInit
<1>2. RenewalInv /\ [N!Next]_(N!vars) => RenewalInv'
  BY RenewalNext
<1>3. N!Init /\ [][N!Next]_(N!vars) => []RenewalInv
  BY <1>1, <1>2, PTL
<1> QED BY <1>3, RenewalMoves, PTL

(* Every renewal that is charged moves the end of the subscription by a whole period
   that can be used, but for the ones in hand or cut off by a crash. *)
THEOREM ChargedIsGainedAlways ==
    ASSUME RenewalConstants PROVE AllSpec => []ChargedIsGained
BY RenewalAlways, RenewalBooks, PTL

(* Unless the autopay renewed it in between, what a top-up renews has ended. *)
THEOREM NoNeedlessRenewalAlways ==
    ASSUME RenewalConstants PROVE AllSpec => []NoNeedlessRenewal
BY RenewalAlways, RenewalBooks, PTL

-----------------------------------------------------------------------------
(***************************************************************************)
(* Apple's purchases, in every behaviour of the composition.               *)
(***************************************************************************)

(* What the composition does is allowed by AppleIap. *)
LEMMA AppleMoves == AllSpec => I!Spec
<1>1. AllInit => I!Init
  BY DEF AllInit
<1>2. [AllNext]_<<part, vars, receiptVars, dailyVars, renewalVars, appleVars>>
         => [I!Next]_(I!vars)
  BY DEF AllNext, appleVars, I!vars
<1> QED BY <1>1, <1>2, PTL DEF AllSpec, I!Spec

(* The money of every purchase in force has been credited, what was refunded was taken
   back or is owed, and nothing twice. *)
THEOREM AppleBooksBalanceAlways ==
    ASSUME I!ConstantsOK PROVE AllSpec => []AppleBooksBalance
<1>1. I!Spec => []I!AppleBooksBalance
  BY I!AppleBooksBalanceAlways
<1>2. I!AppleBooksBalance => AppleBooksBalance
  BY DEF AppleBooksBalance
<1> QED BY <1>1, <1>2, AppleMoves, PTL

(* Once everything was answered, a purchase whose notifications did not overtake each
   other is what Apple last said of it. *)
THEOREM FollowsAppleAlways ==
    ASSUME I!ConstantsOK PROVE AllSpec => []FollowsApple
<1>1. I!Spec => []I!FollowsApple
  BY I!FollowsAppleAlways
<1>2. I!FollowsApple => FollowsApple
  BY DEF FollowsApple
<1> QED BY <1>1, <1>2, AppleMoves, PTL
=============================================================================
