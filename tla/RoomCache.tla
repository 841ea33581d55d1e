------------------------------ MODULE RoomCache ------------------------------
(***************************************************************************)
(* What the cache keeps of one room, and the writes that cache_save_event  *)
(* makes inside a transaction (src/db/cache.c).  An event is known by its  *)
(* id; its JSON is kept or, once redacted, kept without its content.       *)
(*                                                                         *)
(* ORDER_TO_EVENTS is a sequence: cache_set_room_dbs puts the first event  *)
(* at UINT64_MAX / 2 and every later one after the last, so position k     *)
(* here is the key UINT64_MAX / 2 + k - 1 there.  RELATIONS is left out:   *)
(* it is written and never read.                                           *)
(***************************************************************************)
EXTENDS Naturals, Sequences

CONSTANTS
  Ids,    \* event ids, in the order the server created the events
  Slots   \* keys of the MEMBERS, STATE, SPACE_CHILD and SPACE_PARENT databases

NotFound == 0  \* MDB_NOTFOUND, no key of any database

Contents == {"none", "full", "cleared"}

RoomDb == [content : [Ids -> Contents],               \* EVENTS
           order   : Seq(Ids),                        \* ORDER_TO_EVENTS
           index   : [Ids -> Nat],                    \* EVENTS_TO_ORDER
           state   : [Slots -> Ids \cup {NotFound}]]  \* the state databases

EmptyDb == [content |-> [e \in Ids |-> "none"],
            order   |-> <<>>,
            index   |-> [e \in Ids |-> NotFound],
            state   |-> [s \in Slots |-> NotFound]]

Saved(db) == {e \in Ids : db.content[e] # "none"}

\* Mutants of SaveJson: a position of ORDER_TO_EVENTS given out twice, and
\* a new event put before the others.
SaveJsonSamePosition(db, e) ==
  [db EXCEPT !.content[e] = "full",
             !.order      = Append(@, e),
             !.index[e]   = Len(db.order)]
SaveJsonInFront(db, e) ==
  [db EXCEPT !.content[e] = "full",
             !.order      = <<e>> \o @,
             !.index      = [f \in Ids |-> IF f = e THEN 1
                                           ELSE IF @[f] = NotFound THEN NotFound
                                           ELSE @[f] + 1]]

(* save_json_with_index for an event that is not in EVENTS yet.            *)
SaveJson(db, e) ==
  [db EXCEPT !.content[e] = "full",
             !.order      = Append(@, e),
             !.index[e]   = Len(db.order) + 1]

\* Mutant: MDB_NOOVERWRITE instead of 0.
PutStateOnce(db, slot, e) ==
  [db EXCEPT !.state[slot] = IF @ = NotFound THEN e ELSE @]

PutState(db, slot, e) == [db EXCEPT !.state[slot] = e]

\* Mutant: the redacted event stays as it is.
ClearContentNot(db, e) == db

ClearContent(db, e) == [db EXCEPT !.content[e] = "cleared"]

(* The two directions of the order agree, and hold exactly the events of   *)
(* EVENTS: a redaction finds the position of its target, the iterator finds*)
(* the JSON of every position.                                             *)
IsIndexed(db) ==
  /\ \A i \in 1 .. Len(db.order) : db.index[db.order[i]] = i
  /\ \A e \in Saved(db) : db.index[e] \in 1 .. Len(db.order)
                          /\ db.order[db.index[e]] = e
  /\ \A e \in Ids \ Saved(db) : db.index[e] = NotFound

(* The events of the room stand in the order the server gave them.         *)
IsOrdered(db) ==
  \A i, j \in 1 .. Len(db.order) : i < j => db.order[i] < db.order[j]

=============================================================================
