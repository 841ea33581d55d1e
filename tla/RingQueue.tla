----------------------------- MODULE RingQueue -----------------------------
(***************************************************************************)
(* src/util/queue.c: the ring buffer that carries struct queue_item *      *)
(* pointers from the UI thread to the queue thread.  This module holds the *)
(* data structure and its two operations as operators on a record; module  *)
(* Queue turns them into a state machine.                                  *)
(*                                                                         *)
(* head and tail are only wrapped lazily, at the start of the next         *)
(* operation, so each of them ranges over 0 .. QUEUE_SIZE and not over the *)
(* slots.  Full and empty are both recognised by looking at one slot.      *)
(***************************************************************************)
EXTENDS Integers, Sequences

CONSTANTS
  QUEUE_SIZE,  \* number of slots (50 in the program)
  Items,       \* the pointers that can be queued
  NULL         \* an empty slot, and what queue_pop_head returns then

ASSUME QueueAssumption ==
  /\ QUEUE_SIZE \in Nat \ {0}
  /\ NULL \notin Items
  /\ {-1, 0} \cap (Items \cup {NULL}) = {}

Slots == 0 .. QUEUE_SIZE - 1

EmptyQueue == [head |-> 0, tail |-> 0, data |-> [s \in Slots |-> NULL]]

(* `if (i == QUEUE_SIZE) i = 0;`                                           *)
Wrap(i) == IF i = QUEUE_SIZE THEN 0 ELSE i

(* The slot the next push writes still holds an item nobody popped.        *)
IsFull(q) == q.data[Wrap(q.tail)] # NULL

(* The slot the next pop reads: NULL when the queue is empty.              *)
Front(q) == q.data[Wrap(q.head)]

\* Mutants: plausible errors of the two operations below.
PushTailNoFullCheck(q, d) ==
  [q EXCEPT !.tail = Wrap(q.tail) + 1, !.data[Wrap(q.tail)] = d]
PopHeadNoReset(q) ==
  IF Front(q) = NULL THEN q ELSE [q EXCEPT !.head = Wrap(q.head) + 1]

(* queue_push_tail: a rejected push still leaves the wrapped tail behind.  *)
PushTail(q, d) ==
  LET t == Wrap(q.tail)
  IN  IF q.data[t] # NULL
      THEN [q EXCEPT !.tail = t]
      ELSE [q EXCEPT !.tail = t + 1, !.data[t] = d]

(* queue_pop_head: the popped slot is reset to NULL.                       *)
PopHead(q) ==
  LET h == Wrap(q.head)
  IN  IF q.data[h] = NULL
      THEN [q EXCEPT !.head = h]
      ELSE [q EXCEPT !.head = h + 1, !.data[h] = NULL]

-----------------------------------------------------------------------------
(* The sequence a queue stands for.  When head and tail meet, the slot     *)
(* under them tells a full queue from an empty one.                        *)
Count(q) ==
  LET h == Wrap(q.head)
      t == Wrap(q.tail)
  IN  IF h < t THEN t - h
      ELSE IF t < h THEN QUEUE_SIZE - h + t
      ELSE IF q.data[h] = NULL THEN 0 ELSE QUEUE_SIZE

(* The slot of the k-th item, counted from the head.                       *)
SlotOf(q, k) ==
  LET s == Wrap(q.head) + k - 1
  IN  IF s < QUEUE_SIZE THEN s ELSE s - QUEUE_SIZE

Contents(q) == [k \in 1 .. Count(q) |-> q.data[SlotOf(q, k)]]

=============================================================================
