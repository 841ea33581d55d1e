------------------------------- MODULE Queue -------------------------------
(***************************************************************************)
(* The ring buffer of src/util/queue.c as a state machine: any sequence of *)
(* pushes and pops.  Every call in the program runs under queue_mutex, or  *)
(* after the queue thread was joined, so calls never overlap.              *)
(***************************************************************************)
EXTENDS RingQueue

VARIABLES
  queue,   \* struct queue
  ret      \* the last call's return value: 0, -1, or a popped pointer

vars == <<queue, ret>>

Init ==
  /\ queue = EmptyQueue
  /\ ret = 0

queue_push_tail(d) ==
  /\ queue' = PushTail(queue, d)
  /\ ret' = IF IsFull(queue) THEN -1 ELSE 0

queue_pop_head ==
  /\ queue' = PopHead(queue)
  /\ ret' = Front(queue)

Next ==
  \/ \E d \in Items : queue_push_tail(d)
  \/ queue_pop_head

Spec == Init /\ [][Next]_vars

-----------------------------------------------------------------------------
(* The type invariant, with the two assertions of queue.c: once wrapped,   *)
(* head and tail index a slot.                                             *)
TypeOK ==
  /\ queue \in [head : 0 .. QUEUE_SIZE, tail : 0 .. QUEUE_SIZE,
                data : [Slots -> Items \cup {NULL}]]
  /\ ret \in {-1, 0, NULL} \cup Items

(* The slots between head and tail, going round the ring, are the occupied *)
(* ones: no hole and no item outside the window, so that the one-slot test *)
(* of a push for "full" and of a pop for "empty" are both right.           *)
Occupied(q, s) ==
  LET h == Wrap(q.head)
      t == Wrap(q.tail)
  IN  IF h < t THEN h <= s /\ s < t
      ELSE IF t < h THEN h <= s \/ s < t
      ELSE q.data[h] # NULL

WindowOK == \A s \in Slots : (queue.data[s] # NULL) <=> Occupied(queue, s)

(* The ring buffer implements the bounded FIFO: nothing is lost,           *)
(* duplicated or reordered across any number of wraps, and -1 is returned  *)
(* exactly when QUEUE_SIZE items are queued.                               *)
Abstract == INSTANCE Fifo
              WITH fifo <- Contents(queue), result <- ret,
                   Capacity <- QUEUE_SIZE

RefinesFifo == Abstract!Spec

=============================================================================
