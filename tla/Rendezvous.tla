----------------------------- MODULE Rendezvous -----------------------------
(***************************************************************************)
(* What the syncer thread and the UI thread promise each other about the   *)
(* accumulated_sync_data of a sync_cb call, and about the room tables that *)
(* both threads touch without a lock: at any time one side owns them.      *)
(*                                                                         *)
(*   "syncer"  sync_cb may build the next batch and read the room tables   *)
(*   "pipe"    the batch's address is in the pipe, the syncer stands still *)
(*   "ui"      the UI thread reads the batch and changes the room tables   *)
(*                                                                         *)
(* The UI takes every batch once, in order, and only a quitting UI leaves  *)
(* a batch behind.                                                         *)
(***************************************************************************)
EXTENDS Naturals

VARIABLES
  owner,      \* who may touch the shared data
  published,  \* number of the last batch written to the pipe
  taken,      \* number of the last batch the UI thread processed
  quit        \* the UI thread has stopped reading the pipe

vars == <<owner, published, taken, quit>>

Init ==
  /\ owner = "syncer"
  /\ published = 0
  /\ taken = 0
  /\ quit = FALSE

Publish ==
  /\ owner = "syncer"
  /\ owner' = "pipe"
  /\ published' = published + 1
  /\ UNCHANGED <<taken, quit>>

Take ==
  /\ owner = "pipe" /\ ~quit
  /\ owner' = "ui"
  /\ taken' = published
  /\ UNCHANGED <<published, quit>>

Release ==
  /\ owner = "ui"
  /\ owner' = "syncer"
  /\ UNCHANGED <<published, taken, quit>>

Quit ==
  /\ owner # "ui"
  /\ quit' = TRUE
  /\ UNCHANGED <<owner, published, taken>>

Abandon ==
  /\ owner = "pipe" /\ quit
  /\ owner' = "syncer"
  /\ UNCHANGED <<published, taken, quit>>

Next == Publish \/ Take \/ Release \/ Quit \/ Abandon

Spec == Init /\ [][Next]_vars

=============================================================================
