-------------------------------- MODULE Fifo --------------------------------
(***************************************************************************)
(* What a caller of src/util/queue.c relies on: a first-in first-out queue *)
(* of bounded capacity whose push reports whether the item was taken, and  *)
(* whose pop returns the oldest item or NULL.                              *)
(***************************************************************************)
EXTENDS Integers, Sequences

CONSTANTS Capacity, Items, NULL

VARIABLES
  fifo,    \* the queued items, oldest first
  result   \* what the last operation returned

Init ==
  /\ fifo = <<>>
  /\ result = 0

Enqueue(d) ==
  IF Len(fifo) < Capacity
  THEN fifo' = Append(fifo, d) /\ result' = 0
  ELSE fifo' = fifo /\ result' = -1

Dequeue ==
  IF fifo = <<>>
  THEN fifo' = fifo /\ result' = NULL
  ELSE fifo' = Tail(fifo) /\ result' = Head(fifo)

Next == Dequeue \/ \E d \in Items : Enqueue(d)

Spec == Init /\ [][Next]_<<fifo, result>>

=============================================================================
