---------------------------- MODULE QueueProofs ----------------------------
(***************************************************************************)
(* Proofs about util/queue.c for every queue size and set of pointers.     *)
(* The window invariant is what makes the one-slot tests of queue_push_tail*)
(* and queue_pop_head right; with TypeOK it is inductive, and the FIFO     *)
(* refinement rests on it.                                                 *)
(***************************************************************************)
EXTENDS Queue, SequenceTheorems, TLAPS

QueueInv == TypeOK /\ WindowOK

USE QueueAssumption

LEMMA WrapInSlots == \A i \in 0 .. QUEUE_SIZE : Wrap(i) \in Slots
BY DEF Wrap, Slots

(* The occupied slots after a push and after a pop: one more at the tail,  *)
(* one less at the head.                                                   *)
LEMMA PushInv ==
  ASSUME QueueInv, NEW d \in Items, queue_push_tail(d)
  PROVE  QueueInv'
<1> DEFINE t == Wrap(queue.tail)
           h == Wrap(queue.head)
<1>1. t \in Slots /\ h \in Slots
  BY WrapInSlots DEF QueueInv, TypeOK
<1>2. CASE queue.data[t] # NULL
  <2>1. queue' = [queue EXCEPT !.tail = t] /\ ret' = -1
    BY <1>2 DEF queue_push_tail, PushTail, IsFull
  <2>2. Wrap(queue'.tail) = t /\ Wrap(queue'.head) = h
        /\ queue'.data = queue.data
    BY <1>1, <2>1 DEF QueueInv, TypeOK, Wrap, Slots
  <2>3. WindowOK'
    BY <2>1, <2>2 DEF QueueInv, WindowOK, Occupied
  <2>4. TypeOK'
    BY <1>1, <2>1 DEF QueueInv, TypeOK, Slots
  <2> QED BY <2>3, <2>4 DEF QueueInv
<1>3. CASE queue.data[t] = NULL
  <2>1. queue' = [queue EXCEPT !.tail = t + 1, !.data[t] = d] /\ ret' = 0
    BY <1>3 DEF queue_push_tail, PushTail, IsFull
  <2>3. /\ queue'.tail = t + 1 /\ queue'.head = queue.head
        /\ queue'.data = [queue.data EXCEPT ![t] = d]
        /\ queue' = [head |-> queue'.head, tail |-> queue'.tail,
                     data |-> queue'.data]
    BY <2>1 DEF QueueInv, TypeOK
  <2>2. TypeOK'
    <3>1. queue'.head \in 0 .. QUEUE_SIZE /\ queue'.tail \in 0 .. QUEUE_SIZE
      BY <1>1, <2>3 DEF QueueInv, TypeOK, Slots
    <3>2. queue'.data \in [Slots -> Items \cup {NULL}]
      BY <1>1, <2>3 DEF QueueInv, TypeOK
    <3> QED BY <3>1, <3>2, <2>1, <2>3 DEF TypeOK
  <2>4. ASSUME NEW s \in Slots
        PROVE  (queue'.data[s] # NULL) <=> Occupied(queue', s)
    <3>1. (queue.data[s] # NULL) <=> Occupied(queue, s)
      BY DEF QueueInv, WindowOK
    <3>2. ~Occupied(queue, t)
      BY <1>1, <1>3 DEF QueueInv, WindowOK
    <3>3. queue'.data[s] = IF s = t THEN d ELSE queue.data[s]
      BY <2>3, <1>1 DEF QueueInv, TypeOK
    <3>4. d # NULL
      OBVIOUS
    <3>5. queue'.data[h] # NULL <=> (h = t \/ queue.data[h] # NULL)
      BY <2>3, <1>1, <3>4 DEF QueueInv, TypeOK
    <3>6. Wrap(queue'.tail) = IF t + 1 = QUEUE_SIZE THEN 0 ELSE t + 1
      BY <2>3 DEF Wrap
    <3>7. Wrap(queue'.head) = h
      BY <2>3
    <3>8. queue.data[h] # NULL <=> Occupied(queue, h)
      BY <1>1 DEF QueueInv, WindowOK
    <3> HIDE DEF h, t
    <3> QED BY <3>1, <3>2, <3>3, <3>4, <3>5, <3>6, <3>7, <3>8, <1>1
            DEF Occupied, Slots, h, t
  <2> QED BY <2>2, <2>4 DEF QueueInv, WindowOK
<1> QED BY <1>2, <1>3

LEMMA PopInv ==
  ASSUME QueueInv, queue_pop_head
  PROVE  QueueInv'
<1> DEFINE t == Wrap(queue.tail)
           h == Wrap(queue.head)
<1>1. t \in Slots /\ h \in Slots
  BY WrapInSlots DEF QueueInv, TypeOK
<1>2. CASE queue.data[h] = NULL
  <2>1. queue' = [queue EXCEPT !.head = h] /\ ret' = NULL
    BY <1>2 DEF queue_pop_head, PopHead, Front
  <2>2. Wrap(queue'.tail) = t /\ Wrap(queue'.head) = h
        /\ queue'.data = queue.data
    BY <1>1, <2>1 DEF QueueInv, TypeOK, Wrap, Slots
  <2>3. WindowOK'
    BY <2>1, <2>2 DEF QueueInv, WindowOK, Occupied
  <2>4. TypeOK'
    BY <1>1, <2>1 DEF QueueInv, TypeOK, Slots
  <2> QED BY <2>3, <2>4 DEF QueueInv
<1>3. CASE queue.data[h] # NULL
  <2>1. /\ queue' = [queue EXCEPT !.head = h + 1, !.data[h] = NULL]
        /\ ret' = queue.data[h]
    BY <1>3 DEF queue_pop_head, PopHead, Front
  <2>3. /\ queue'.head = h + 1 /\ queue'.tail = queue.tail
        /\ queue'.data = [queue.data EXCEPT ![h] = NULL]
        /\ queue' = [head |-> queue'.head, tail |-> queue'.tail,
                     data |-> queue'.data]
    BY <2>1 DEF QueueInv, TypeOK
  <2>2. TypeOK'
    <3>1. queue'.head \in 0 .. QUEUE_SIZE /\ queue'.tail \in 0 .. QUEUE_SIZE
      BY <1>1, <2>3 DEF QueueInv, TypeOK, Slots
    <3>2. queue'.data \in [Slots -> Items \cup {NULL}]
      BY <1>1, <2>3 DEF QueueInv, TypeOK
    <3>3. queue.data[h] \in Items \cup {NULL}
      BY <1>1 DEF QueueInv, TypeOK
    <3> QED BY <3>1, <3>2, <3>3, <2>1, <2>3 DEF TypeOK
  <2>4. ASSUME NEW s \in Slots
        PROVE  (queue'.data[s] # NULL) <=> Occupied(queue', s)
    <3>1. (queue.data[s] # NULL) <=> Occupied(queue, s)
      BY DEF QueueInv, WindowOK
    <3>2. Occupied(queue, h)
      BY <1>1, <1>3 DEF QueueInv, WindowOK
    <3>3. queue'.data[s] = IF s = h THEN NULL ELSE queue.data[s]
      BY <2>3, <1>1 DEF QueueInv, TypeOK
    <3>4. Wrap(queue'.head) = IF h + 1 = QUEUE_SIZE THEN 0 ELSE h + 1
      BY <2>3 DEF Wrap
    <3>5. Wrap(queue'.tail) = t
      BY <2>3
    <3>6. queue'.data[t] # NULL <=> (t # h /\ queue.data[t] # NULL)
      BY <2>3, <1>1 DEF QueueInv, TypeOK
    <3>7. queue.data[t] # NULL <=> Occupied(queue, t)
      BY <1>1 DEF QueueInv, WindowOK
    <3> HIDE DEF h, t
    <3> QED BY <3>1, <3>2, <3>3, <3>4, <3>5, <3>6, <3>7, <1>1
            DEF Occupied, Slots, h, t
  <2> QED BY <2>2, <2>4 DEF QueueInv, WindowOK
<1> QED BY <1>2, <1>3

(* The indices stay on the ring (both assertions of queue.c) and the items *)
(* fill the window between them, whatever is pushed and popped.            *)
THEOREM QueueInvariant == Spec => [](TypeOK /\ WindowOK)
<1>1. Init => QueueInv
  BY DEF Init, QueueInv, TypeOK, WindowOK, Occupied, EmptyQueue, Wrap, Slots
<1>2. QueueInv /\ [Next]_vars => QueueInv'
  <2> SUFFICES ASSUME QueueInv, [Next]_vars PROVE QueueInv'
    OBVIOUS
  <2>1. CASE Next
    BY <2>1, PushInv, PopInv DEF Next
  <2>2. CASE UNCHANGED vars
    BY <2>2 DEF vars, QueueInv, TypeOK, WindowOK, Occupied
  <2> QED BY <2>1, <2>2
<1>3. QueueInv => TypeOK /\ WindowOK
  BY DEF QueueInv
<1> QED BY <1>1, <1>2, <1>3, PTL DEF Spec

-----------------------------------------------------------------------------
(* The refinement.  A successful push leaves the head where it is and adds *)
(* the slot after the last one; a pop moves the head over the first slot.  *)

Type(q) == q.head \in 0 .. QUEUE_SIZE /\ q.tail \in 0 .. QUEUE_SIZE
           /\ q.data \in [Slots -> Items \cup {NULL}]

LEMMA CountBounds ==
  ASSUME NEW q, Type(q)
  PROVE  /\ Count(q) \in 0 .. QUEUE_SIZE
         /\ \A k \in 1 .. Count(q) : SlotOf(q, k) \in Slots
<1>1. Wrap(q.head) \in Slots /\ Wrap(q.tail) \in Slots
  BY WrapInSlots DEF Type
<1> QED BY <1>1 DEF Count, SlotOf, Slots

LEMMA ContentsSeq ==
  ASSUME NEW q, Type(q), \A s \in Slots : q.data[s] # NULL <=> Occupied(q, s)
  PROVE  Contents(q) \in Seq(Items) /\ Len(Contents(q)) = Count(q)
<1>1. Wrap(q.head) \in Slots /\ Wrap(q.tail) \in Slots
  BY WrapInSlots DEF Type
<1>2. \A k \in 1 .. Count(q) : Occupied(q, SlotOf(q, k))
  BY <1>1 DEF Count, SlotOf, Slots, Occupied
<1>3. \A k \in 1 .. Count(q) : q.data[SlotOf(q, k)] \in Items
  BY <1>2, CountBounds DEF Type
<1>4. Count(q) \in Nat
  BY CountBounds
<1> QED BY <1>3, <1>4 DEF Contents

(* The test of queue_push_tail finds a queue full when QUEUE_SIZE items    *)
(* are in it, the test of queue_pop_head finds it empty when none is.      *)
LEMMA FullEmpty ==
  ASSUME QueueInv
  PROVE  /\ IsFull(queue) <=> Count(queue) = QUEUE_SIZE
         /\ Front(queue) = NULL <=> Count(queue) = 0
<1> DEFINE t == Wrap(queue.tail)
           h == Wrap(queue.head)
<1>1. t \in Slots /\ h \in Slots
  BY WrapInSlots DEF QueueInv, TypeOK
<1>2. queue.data[t] # NULL <=> Occupied(queue, t)
  BY <1>1 DEF QueueInv, WindowOK
<1>3. queue.data[h] # NULL <=> Occupied(queue, h)
  BY <1>1 DEF QueueInv, WindowOK
<1> QED BY <1>1, <1>2, <1>3 DEF IsFull, Front, Count, Occupied, Slots

LEMMA PushAppends ==
  ASSUME QueueInv, NEW d \in Items, queue_push_tail(d), ~IsFull(queue)
  PROVE  Contents(queue)' = Append(Contents(queue), d) /\ ret' = 0
<1> DEFINE t == Wrap(queue.tail)
           h == Wrap(queue.head)
           n == Count(queue)
<1>1. t \in Slots /\ h \in Slots
  BY WrapInSlots DEF QueueInv, TypeOK
<1>2. queue' = [queue EXCEPT !.tail = t + 1, !.data[t] = d] /\ ret' = 0
  BY DEF queue_push_tail, PushTail, IsFull
<1>3. /\ queue'.tail = t + 1 /\ queue'.head = queue.head
      /\ queue'.data = [queue.data EXCEPT ![t] = d]
  BY <1>2 DEF QueueInv, TypeOK
<1>4. Type(queue) /\ Type(queue')
  BY PushInv DEF QueueInv, TypeOK, Type
<1>5. queue.data[t] = NULL
  BY DEF IsFull
<1>6. ~Occupied(queue, t)
  BY <1>1, <1>5 DEF QueueInv, WindowOK
<1>7. n \in 0 .. QUEUE_SIZE - 1
  BY <1>4, CountBounds, FullEmpty
<1>8. Count(queue') = n + 1
  <2>1. Wrap(queue'.tail) = (IF t + 1 = QUEUE_SIZE THEN 0 ELSE t + 1)
        /\ Wrap(queue'.head) = h
    BY <1>3 DEF Wrap
  <2>2. queue'.data[h] = IF h = t THEN d ELSE queue.data[h]
    BY <1>1, <1>3 DEF QueueInv, TypeOK
  <2>3. h = t => queue.data[h] = NULL
    BY <1>5
  <2>4. ~(h < t) /\ ~(t < h) => h = t
    BY <1>1 DEF Slots
  <2>5. n = IF h < t THEN t - h ELSE IF t < h THEN QUEUE_SIZE - h + t
            ELSE IF queue.data[h] = NULL THEN 0 ELSE QUEUE_SIZE
    BY DEF Count
  <2>6. LET u == Wrap(queue'.tail)
        IN  Count(queue') = IF h < u THEN u - h
                            ELSE IF u < h THEN QUEUE_SIZE - h + u
                            ELSE IF queue'.data[h] = NULL THEN 0 ELSE QUEUE_SIZE
    BY <2>1 DEF Count
  <2>7. d # NULL
    OBVIOUS
  <2>11. h # t => queue.data[h] # NULL
    <3>1. queue.data[h] # NULL <=> Occupied(queue, h)
      BY <1>1 DEF QueueInv, WindowOK
    <3>2. h < t \/ t < h => Occupied(queue, h)
      BY <1>1 DEF Occupied, Slots
    <3> HIDE DEF h, t
    <3> QED BY <2>4, <3>1, <3>2
  <2> HIDE DEF t, h, n
  <2>8. CASE h = t
    BY <1>1, <2>1, <2>2, <2>3, <2>5, <2>6, <2>7, <2>8 DEF Slots
  <2>9. CASE h < t
    BY <1>1, <2>1, <2>2, <2>5, <2>6, <2>9, <2>11 DEF Slots
  <2>10. CASE t < h
    BY <1>1, <2>1, <2>2, <2>5, <2>6, <2>7, <2>10, <2>11 DEF Slots
  <2> QED BY <2>4, <2>8, <2>9, <2>10
<1>9. SlotOf(queue', n + 1) = t
  <2>1. Wrap(queue'.head) = h
    BY <1>3
  <2>2. n = IF h < t THEN t - h ELSE IF t < h THEN QUEUE_SIZE - h + t
            ELSE IF queue.data[h] = NULL THEN 0 ELSE QUEUE_SIZE
    BY DEF Count
  <2>3. SlotOf(queue', n + 1)
          = IF h + n < QUEUE_SIZE THEN h + n ELSE h + n - QUEUE_SIZE
    <3> HIDE DEF n, h
    <3> QED BY <1>1, <1>7, <2>1 DEF SlotOf, Slots
  <2>4. h = t => n = 0
    BY <1>5, <2>2, <1>1 DEF Slots
  <2> HIDE DEF n, h, t
  <2> QED BY <1>1, <2>2, <2>3, <2>4 DEF Slots
<1>10. \A k \in 1 .. n : SlotOf(queue', k) = SlotOf(queue, k)
                          /\ SlotOf(queue, k) # t
  <2>1. Wrap(queue'.head) = h /\ Wrap(queue.head) = h
    BY <1>3
  <2>2. n = IF h < t THEN t - h ELSE IF t < h THEN QUEUE_SIZE - h + t
            ELSE IF queue.data[h] = NULL THEN 0 ELSE QUEUE_SIZE
    BY DEF Count
  <2>3. h = t => n = 0
    BY <1>5, <2>2, <1>1 DEF Slots
  <2> HIDE DEF n, h, t
  <2> QED BY <1>1, <2>1, <2>2, <2>3 DEF SlotOf, Slots
<1>11. \A k \in 1 .. n : SlotOf(queue, k) \in Slots
  BY <1>4, CountBounds
<1>12. Contents(queue) \in Seq(Items) /\ Len(Contents(queue)) = n
  BY <1>4, ContentsSeq DEF QueueInv, WindowOK
<1>13. \A k \in 1 .. n : queue'.data[SlotOf(queue', k)] = Contents(queue)[k]
  BY <1>3, <1>10, <1>11, <1>4 DEF Contents, Type
<1>14. queue'.data[SlotOf(queue', n + 1)] = d
  BY <1>1, <1>3, <1>9, <1>4 DEF Type
<1>15. Contents(queue') \in Seq(Items) /\ Len(Contents(queue')) = n + 1
  <2>1. QueueInv'
    BY PushInv
  <2>2. \A s \in Slots : queue'.data[s] # NULL <=> Occupied(queue', s)
    BY <2>1 DEF QueueInv, WindowOK
  <2> QED BY <1>4, <1>8, <2>2, ContentsSeq
<1>16. \A k \in 1 .. n + 1 : Contents(queue')[k] = Append(Contents(queue), d)[k]
  <2> SUFFICES ASSUME NEW k \in 1 .. n + 1
               PROVE  Contents(queue')[k] = Append(Contents(queue), d)[k]
    OBVIOUS
  <2>1. Contents(queue')[k] = queue'.data[SlotOf(queue', k)]
    BY <1>8 DEF Contents
  <2>2. CASE k = n + 1
    BY <1>12, <1>14, <2>1, <2>2, AppendProperties
  <2>3. CASE k # n + 1
    <3>1. k \in 1 .. n
      BY <1>7, <2>3
    <3> QED BY <1>12, <1>13, <2>1, <3>1, AppendProperties
  <2> QED BY <2>2, <2>3
<1>17. Contents(queue') = Append(Contents(queue), d)
  <2>1. Append(Contents(queue), d) \in Seq(Items)
        /\ Len(Append(Contents(queue), d)) = n + 1
    BY <1>12, AppendProperties
  <2> QED BY <1>15, <1>16, <2>1, SeqEqual
<1> QED BY <1>2, <1>17 DEF Contents, Count, SlotOf

LEMMA PopTakesHead ==
  ASSUME QueueInv, queue_pop_head, Front(queue) # NULL
  PROVE  /\ Contents(queue) # <<>>
         /\ Contents(queue)' = Tail(Contents(queue))
         /\ ret' = Head(Contents(queue))
<1> DEFINE t == Wrap(queue.tail)
           h == Wrap(queue.head)
           n == Count(queue)
<1>1. t \in Slots /\ h \in Slots
  BY WrapInSlots DEF QueueInv, TypeOK
<1>2. /\ queue' = [queue EXCEPT !.head = h + 1, !.data[h] = NULL]
      /\ ret' = queue.data[h] /\ queue.data[h] # NULL
  BY DEF queue_pop_head, PopHead, Front
<1>3. /\ queue'.head = h + 1 /\ queue'.tail = queue.tail
      /\ queue'.data = [queue.data EXCEPT ![h] = NULL]
  BY <1>2 DEF QueueInv, TypeOK
<1>4. Type(queue) /\ Type(queue')
  BY PopInv DEF QueueInv, TypeOK, Type
<1>5. n \in 1 .. QUEUE_SIZE
  BY <1>4, CountBounds, FullEmpty
<1>6. Count(queue') = n - 1
  <2>1. Wrap(queue'.head) = (IF h + 1 = QUEUE_SIZE THEN 0 ELSE h + 1)
        /\ Wrap(queue'.tail) = t
    BY <1>3 DEF Wrap
  <2>2. queue'.data[t] = IF t = h THEN NULL ELSE queue.data[t]
    BY <1>1, <1>3 DEF QueueInv, TypeOK
  <2>3. queue.data[t] # NULL <=> Occupied(queue, t)
    BY <1>1 DEF QueueInv, WindowOK
  <2>4. LET g == Wrap(queue'.head) IN queue'.data[g] = IF g = h THEN NULL ELSE queue.data[g]
    BY <1>1, <1>3, <2>1 DEF QueueInv, TypeOK, Slots
  <2>5. t = Wrap(queue.tail) /\ h = Wrap(queue.head) /\ queue.data[h] # NULL
    BY <1>2
  <2> HIDE DEF t, h
  <2> QED BY <1>1, <2>1, <2>2, <2>3, <2>4, <2>5 DEF Count, Slots, Occupied, n
<1>7. SlotOf(queue, 1) = h
  BY <1>1 DEF SlotOf, Slots
<1>8. \A k \in 1 .. n - 1 : SlotOf(queue', k) = SlotOf(queue, k + 1)
                              /\ SlotOf(queue, k + 1) # h
  <2>1. Wrap(queue'.head) = (IF h + 1 = QUEUE_SIZE THEN 0 ELSE h + 1)
    BY <1>3 DEF Wrap
  <2> HIDE DEF n
  <2> QED BY <1>1, <1>5, <2>1 DEF SlotOf, Slots
<1>9. \A k \in 1 .. n : SlotOf(queue, k) \in Slots
  BY <1>4, CountBounds
<1>10. Contents(queue) \in Seq(Items) /\ Len(Contents(queue)) = n
  BY <1>4, ContentsSeq DEF QueueInv, WindowOK
<1>11. \A k \in 1 .. n - 1 : queue'.data[SlotOf(queue', k)] = Contents(queue)[k + 1]
  <2> SUFFICES ASSUME NEW k \in 1 .. n - 1
      PROVE queue'.data[SlotOf(queue', k)] = Contents(queue)[k + 1]
    OBVIOUS
  <2>1. k + 1 \in 1 .. n
    BY <1>5
  <2>2. SlotOf(queue', k) = SlotOf(queue, k + 1) /\ SlotOf(queue, k + 1) # h
        /\ SlotOf(queue, k + 1) \in Slots
    BY <1>8, <1>9, <2>1
  <2>3. queue'.data[SlotOf(queue, k + 1)] = queue.data[SlotOf(queue, k + 1)]
    BY <1>3, <2>2, <1>4 DEF Type
  <2> QED BY <2>1, <2>2, <2>3 DEF Contents
<1>12. Contents(queue') \in Seq(Items) /\ Len(Contents(queue')) = n - 1
  <2>1. QueueInv'
    BY PopInv
  <2>2. \A s \in Slots : queue'.data[s] # NULL <=> Occupied(queue', s)
    BY <2>1 DEF QueueInv, WindowOK
  <2> QED BY <1>4, <1>6, <2>2, ContentsSeq
<1>13. Contents(queue') = Tail(Contents(queue))
  <2>1. Contents(queue) # <<>>
    BY <1>5, <1>10
  <2>2. /\ Tail(Contents(queue)) \in Seq(Items)
        /\ Len(Tail(Contents(queue))) = n - 1
        /\ \A k \in 1 .. n - 1 : Tail(Contents(queue))[k] = Contents(queue)[k + 1]
    BY <1>10, <2>1, HeadTailProperties
  <2>3. \A k \in 1 .. n - 1 : Contents(queue')[k] = queue'.data[SlotOf(queue', k)]
    BY <1>6 DEF Contents
  <2> QED BY <1>11, <1>12, <2>2, <2>3, SeqEqual
<1>14. Head(Contents(queue)) = queue.data[h] /\ Contents(queue) # <<>>
  <2>1. Contents(queue)[1] = queue.data[h]
    BY <1>5, <1>7 DEF Contents
  <2> HIDE DEF n, h
  <2> QED BY <1>5, <1>10, <2>1
<1> QED BY <1>2, <1>13, <1>14 DEF Contents, Count, SlotOf

(* The ring buffer is a bounded first-in first-out queue for every size:   *)
(* over any run nothing is lost, duplicated or reordered, and -1 and NULL  *)
(* are returned exactly when it is full and when it is empty.              *)
THEOREM QueueImplementsFifo == Spec => RefinesFifo
<1>1. Init => Abstract!Init
  <2> SUFFICES ASSUME Init PROVE Abstract!Init
    OBVIOUS
  <2>1. Count(queue) = 0 /\ ret = 0
    BY DEF Init, EmptyQueue, Count, Wrap, Slots
  <2> QED BY <2>1 DEF Abstract!Init, Contents
<1>2. QueueInv /\ QueueInv' /\ [Next]_vars
        => [Abstract!Next]_<<Contents(queue), ret>>
  <2> SUFFICES ASSUME QueueInv, QueueInv', [Next]_vars
               PROVE  [Abstract!Next]_<<Contents(queue), ret>>
    OBVIOUS
  <2>0. Contents(queue) \in Seq(Items) /\ Len(Contents(queue)) = Count(queue)
    BY ContentsSeq DEF QueueInv, TypeOK, WindowOK, Type
  <2>1. ASSUME NEW d \in Items, queue_push_tail(d)
        PROVE  Abstract!Enqueue(d)
    <3>1. CASE IsFull(queue)
      <4>1. Count(queue) = QUEUE_SIZE
        BY <3>1, FullEmpty
      <4>2. queue' = [queue EXCEPT !.tail = Wrap(queue.tail)] /\ ret' = -1
        BY <2>1, <3>1 DEF queue_push_tail, PushTail, IsFull
      <4>3. /\ Wrap(queue'.tail) = Wrap(queue.tail) /\ queue'.head = queue.head
            /\ queue'.data = queue.data
        BY <4>2 DEF QueueInv, TypeOK, Wrap
      <4>4. Contents(queue)' = Contents(queue)
        BY <4>3 DEF Contents, Count, SlotOf
      <4> QED BY <2>0, <4>1, <4>2, <4>4 DEF Abstract!Enqueue
    <3>2. CASE ~IsFull(queue)
      <4>1. Len(Contents(queue)) < QUEUE_SIZE
        BY <2>0, <3>2, FullEmpty, CountBounds DEF QueueInv, TypeOK, Type
      <4> QED BY <4>1, <2>1, <3>2, PushAppends DEF Abstract!Enqueue
    <3> QED BY <3>1, <3>2
  <2>2. ASSUME queue_pop_head PROVE Abstract!Dequeue
    <3>1. CASE Front(queue) = NULL
      <4>1. Contents(queue) = <<>>
        BY <2>0, <3>1, FullEmpty
      <4>2. queue' = [queue EXCEPT !.head = Wrap(queue.head)] /\ ret' = NULL
        BY <2>2, <3>1 DEF queue_pop_head, PopHead, Front
      <4>3. /\ Wrap(queue'.head) = Wrap(queue.head) /\ queue'.tail = queue.tail
            /\ queue'.data = queue.data
        BY <4>2 DEF QueueInv, TypeOK, Wrap
      <4>4. Contents(queue)' = Contents(queue)
        BY <4>3 DEF Contents, Count, SlotOf
      <4> QED BY <4>1, <4>2, <4>4 DEF Abstract!Dequeue
    <3>2. CASE Front(queue) # NULL
      BY <2>2, <3>2, PopTakesHead DEF Abstract!Dequeue
    <3> QED BY <3>1, <3>2
  <2>3. CASE UNCHANGED vars
    BY <2>3 DEF vars, Contents, Count, SlotOf
  <2> QED BY <2>1, <2>2, <2>3 DEF Next, Abstract!Next
<1>3. Spec => []QueueInv
  BY QueueInvariant, PTL DEF QueueInv
<1> QED BY <1>1, <1>2, <1>3, PTL DEF Spec, RefinesFifo, Abstract!Spec

=============================================================================
