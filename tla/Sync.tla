-------------------------------- MODULE Sync --------------------------------
(***************************************************************************)
(* The way of an event from the server through sync_cb into the cache and  *)
(* into the rooms in memory, with crashes anywhere and the replay that     *)
(* follows them (src/app/state.c, src/db/cache.c, src/app/room_ds.c).      *)
(*                                                                         *)
(*   server -> response -> one write transaction per room -> the deferred  *)
(*   space events -> next_batch -> handle_accumulated_sync in the UI thread*)
(*                                                                         *)
(* The syncer and the UI thread take turns (module Threads proves it), so  *)
(* one program counter is enough here.  One action is one call the code    *)
(* makes: a transaction is a copy of a room's databases that a commit      *)
(* publishes and a crash discards.  A failed assertion aborts the process, *)
(* which is a crash that leaves its name in `aborted'.                     *)
(***************************************************************************)
EXTENDS Naturals, Sequences, FiniteSets

CONSTANTS
  Rooms,        \* room ids
  Spaces,       \* the rooms whose m.room.create says m.space
  Keys,         \* keys of the plain room state: member ids and event types
  Kinds,        \* bound: the kinds of event the server sends
  Limit,        \* events of a room the server puts in one timeline
  NumPaginate,  \* events loaded per room at boot (num_paginate, 50)
  MaxEvents,    \* bound: events the server creates
  MaxFailures   \* bound: crashes and rooms that could not be opened

Create  == "m.room.create"
NoRoom  == "no room"
AllKinds == {"message", "redaction", "other", "state", "child", "parent"}

ASSUME SyncAssumption ==
  /\ Spaces \subseteq Rooms /\ NoRoom \notin Rooms
  /\ Create \notin Keys
  /\ Kinds \subseteq AllKinds
  /\ Limit \in Nat \ {0} /\ NumPaginate \in Nat
  /\ MaxEvents \in Nat /\ MaxFailures \in Nat

Ids   == 1 .. MaxEvents
Slots == ({"state"} \X (Keys \cup {Create})) \cup ({"child", "parent"} \X Rooms)

INSTANCE RoomCache

(* key is the state_key or type of a "state" event, the other room of a    *)
(* "child" (m.space.child) or "parent" (m.space.parent) event; via says    *)
(* that the space event has a `via'; target is what a redaction redacts.   *)
(* "other" stands for attachments and unknown state events.                *)
Event == [room : Rooms, kind : AllKinds, key : Keys \cup {Create} \cup Rooms,
          via : BOOLEAN, target : Nat]

VARIABLES
  history,      \* external: the server's events, an event's id its position
  rooms,        \* cache: DB_ROOMS
  db,           \* cache: the databases of each room
  children,     \* cache: DB_SPACE_CHILDREN, pairs <<space, child>>
  nextBatch,    \* cache: DB_KEY_NEXT_BATCH, the last event it covers
  mem,          \* memory: the struct room of each room
  pc,           \* where the process is
  upto,         \* the response: its next_batch
  todo,         \* the response: rooms not yet taken from it
  room,         \* sync_cb's sync_room
  txn,          \* sync_cb's transaction: the databases of `room' as it sees them
  pending,      \* events of `room' not yet taken from the response
  updated,      \* data.rooms
  deferred,     \* deferred_events, by id
  spaceEvents,  \* data.space_events
  aborted,      \* history: the assertion that failed last
  replayed,     \* history: a crash cut a response short
  skipped,      \* history: rooms sync_cb could not open
  failures      \* history: crashes and skipped rooms so far

cacheVars == <<rooms, db, children, nextBatch>>
txnVars   == <<room, txn, pending>>
dataVars  == <<updated, deferred, spaceEvents>>
ghostVars == <<aborted, replayed, skipped, failures>>
vars == <<history, cacheVars, mem, pc, upto, todo, txnVars, dataVars, ghostVars>>

-----------------------------------------------------------------------------
(* Events and the server.                                                  *)

IsState(e) == history[e].kind \in {"state", "child", "parent"}
Slot(e)    == <<history[e].kind, history[e].key>>
InRoom(r)  == {e \in DOMAIN history : history[e].room = r}

(* The last Limit events of the room up to n: what a timeline holds.       *)
Window(r, n) ==
  {e \in InRoom(r) : /\ e <= n
                     /\ Cardinality({f \in InRoom(r) : e < f /\ f <= n}) < Limit}

(* The events of the room in (since, n]: the timeline has the last ones,   *)
(* the state block the latest state of every slot before the timeline.     *)
Timeline(r, since, n) == {e \in Window(r, n) : since < e}
StateBlock(r, since, n) ==
  LET skips == {e \in InRoom(r) : since < e /\ e <= n} \ Timeline(r, since, n)
  IN {e \in skips : IsState(e) /\ \A f \in skips : f > e => Slot(f) # Slot(e)}

(* A room begins with its m.room.create; a redaction is of a message.      *)
WellFormed(event) ==
  /\ event.kind = "state" /\ event.key = Create <=> InRoom(event.room) = {}
  /\ IF event.kind \in {"child", "parent"}
     THEN event.key \in Rooms \ {event.room}
     ELSE /\ event.via = FALSE
          /\ event.key \in Keys \cup {Create}
          /\ event.kind # "state" => event.key = Create
  /\ IF event.kind = "redaction"
     THEN event.target \in {e \in InRoom(event.room) : history[e].kind = "message"}
     ELSE event.target = NotFound

ServerEvent(event) ==
  /\ Len(history) < MaxEvents
  /\ event.kind \in Kinds \/ event.key = Create
  /\ WellFormed(event)
  /\ history' = Append(history, event)
  /\ UNCHANGED <<cacheVars, mem, pc, upto, todo, txnVars, dataVars, ghostVars>>

-----------------------------------------------------------------------------
(* Rooms in memory.  A message is its position in ORDER_TO_EVENTS; an      *)
(* array that the code keeps sorted is a set.                              *)

Room == [known : BOOLEAN, space : BOOLEAN, forward : SUBSET Nat,
         backward : SUBSET Nat, redacted : SUBSET Nat, children : SUBSET Rooms]

NewRoom == [known |-> FALSE, space |-> FALSE, forward |-> {}, backward |-> {},
            redacted |-> {}, children |-> {}]

(* room_is_space reads the m.room.create event from the cache.             *)
IsSpace(d, r) == d.state[<<"state", Create>>] # NotFound /\ r \in Spaces

(* What cache_iterator_events returns for populate_room_from_cache.        *)
Fetched(d) ==
  {i \in DOMAIN d.order :
     LET e == d.order[i] IN
     \/ history[e].kind = "message" /\ d.content[e] = "full"
     \/ history[e].kind = "other"
     \/ history[e].kind = "state" /\ history[e].key # Create}
LastFetched(d) ==
  {i \in Fetched(d) : Cardinality({j \in Fetched(d) : j > i}) < NumPaginate}

\* Mutant of PopulateRoom: redacted messages are loaded as well.
PopulateRoomRedacted(r) ==
  [known    |-> r \in rooms,
   space    |-> IsSpace(db[r], r),
   forward  |-> {},
   backward |-> {i \in DOMAIN db[r].order :
                   history[db[r].order[i]].kind = "message"},
   redacted |-> {},
   children |-> {c \in Rooms : <<r, c>> \in children}]

(* room_alloc, populate_room_from_cache and the space iterators.           *)
PopulateRoom(r) ==
  [known    |-> r \in rooms,
   space    |-> IsSpace(db[r], r),
   forward  |-> {},
   backward |-> {i \in LastFetched(db[r]) :
                   history[db[r].order[i]].kind = "message"},
   redacted |-> {},
   children |-> {c \in Rooms : <<r, c>> \in children}]

(* room_bsearch: the forward timeline when it begins at or before index.   *)
Found(m, index) ==
  IF \E i \in m.forward : i <= index THEN index \in m.forward
                                     ELSE index \in m.backward

-----------------------------------------------------------------------------
Init ==
  /\ history = <<>>
  /\ rooms = {} /\ children = {} /\ nextBatch = 0
  /\ db = [r \in Rooms |-> EmptyDb]
  /\ mem = [r \in Rooms |-> NewRoom]
  /\ pc = "down" /\ upto = 0 /\ todo = {}
  /\ room = NoRoom /\ txn = EmptyDb
  /\ pending = [state |-> {}, timeline |-> {}]
  /\ updated = {} /\ deferred = <<>> /\ spaceEvents = <<>>
  /\ aborted = "none" /\ replayed = FALSE /\ skipped = {} /\ failures = 0

(* The process is gone: all but the committed cache is lost.               *)
Die ==
  /\ pc' = "down" /\ mem' = [r \in Rooms |-> NewRoom]
  /\ upto' = 0 /\ todo' = {}
  /\ room' = NoRoom /\ txn' = EmptyDb
  /\ pending' = [state |-> {}, timeline |-> {}]
  /\ updated' = {} /\ deferred' = <<>> /\ spaceEvents' = <<>>
  /\ replayed' = (replayed \/ pc \in {"rooms", "events"})
  /\ UNCHANGED <<history, cacheVars, skipped>>

Abort(assertion) ==
  /\ Die
  /\ aborted' = assertion
  /\ UNCHANGED failures

(* A crash, or a quit: the UI does not use the last batch.                 *)
Crash ==
  /\ pc # "down" /\ failures < MaxFailures
  /\ Die
  /\ failures' = failures + 1
  /\ UNCHANGED aborted

-----------------------------------------------------------------------------
(* populate_from_cache: assert(space_room->info.is_space) of every space   *)
(* that DB_SPACE_CHILDREN names.                                           *)
NotASpace == \E pair \in children : ~IsSpace(db[pair[1]], pair[1])

PopulateFromCache ==
  /\ pc = "down" /\ ~NotASpace
  /\ mem' = [r \in Rooms |-> PopulateRoom(r)]
  /\ pc' = "idle"
  /\ UNCHANGED <<history, cacheVars, upto, todo, txnVars, dataVars, ghostVars>>

PopulateAborts == pc = "down" /\ NotASpace /\ Abort("not a space")

-----------------------------------------------------------------------------
(* sync_cb: the loop over the rooms of the response.                       *)

(* The server answers with all it has after nextBatch.                     *)
SyncResponse ==
  /\ pc = "idle"
  /\ pc' = "rooms"
  /\ upto' = Len(history)
  /\ todo' = {r \in Rooms : \E e \in InRoom(r) : nextBatch < e}
  /\ UNCHANGED <<history, cacheVars, mem, txnVars, dataVars, ghostVars>>

(* cache_save_txn_init, cache_set_room_dbs and cache_save_room.            *)
BeginRoom(r) ==
  /\ pc = "rooms" /\ r \in todo
  /\ pc' = "events"
  /\ todo' = todo \ {r}
  /\ room' = r /\ txn' = db[r]
  /\ pending' = [state    |-> StateBlock(r, nextBatch, upto),
                 timeline |-> Timeline(r, nextBatch, upto)]
  /\ mem' = IF mem[r].known THEN mem ELSE [mem EXCEPT ![r] = NewRoom]
  /\ UNCHANGED <<history, cacheVars, upto, dataVars, ghostVars>>

(* One of them failed (out of memory): `continue'.                         *)
SkipRoom(r) ==
  /\ pc = "rooms" /\ r \in todo /\ failures < MaxFailures
  /\ todo' = todo \ {r}
  /\ skipped' = skipped \cup {r}
  /\ failures' = failures + 1
  /\ UNCHANGED <<history, cacheVars, mem, pc, upto, txnVars, dataVars, aborted,
                 replayed>>

(* matrix_sync_event_next: the state block, then the timeline in order.    *)
IsNext(e) ==
  /\ pc = "events"
  /\ \/ e \in pending.state
     \/ /\ pending.state = {} /\ e \in pending.timeline
        /\ \A f \in pending.timeline : e <= f

TakeEvent(e) ==
  /\ IsNext(e)
  /\ pending' = [state    |-> pending.state \ {e},
                 timeline |-> pending.timeline \ {e}]

InTimeline(e) == e \in pending.timeline
Duplicate(e)  == InTimeline(e) /\ txn.content[e] # "none"

(* The transaction after save_json_with_index, which only timeline events  *)
(* go through.                                                             *)
WithJson(e) == IF InTimeline(e) THEN SaveJson(txn, e) ELSE txn

\* Mutant: a duplicate is saved again.
IgnoreEventNot(e) ==
  /\ TakeEvent(e) /\ Duplicate(e)
  /\ txn' = SaveJson(txn, e)
  /\ UNCHANGED <<history, cacheVars, pc, upto, todo, room, mem, dataVars,
                 ghostVars>>

(* save_json_with_index said MDB_KEYEXIST: CACHE_EVENT_IGNORED.            *)
IgnoreEvent(e) ==
  /\ TakeEvent(e) /\ Duplicate(e)
  /\ UNCHANGED <<history, cacheVars, pc, upto, todo, room, txn, mem, dataVars,
                 ghostVars>>

(* A member event, or state with an empty state key.                       *)
SaveState(e) ==
  /\ TakeEvent(e) /\ ~Duplicate(e) /\ history[e].kind = "state"
  /\ txn' = PutState(WithJson(e), Slot(e), e)
  /\ UNCHANGED <<history, cacheVars, pc, upto, todo, room, mem, dataVars,
                 ghostVars>>

\* Mutant: the event is kept and not deferred.
DeferSpaceEventNot(e) ==
  /\ TakeEvent(e) /\ ~Duplicate(e) /\ history[e].kind \in {"child", "parent"}
  /\ txn' = PutState(WithJson(e), Slot(e), e)
  /\ UNCHANGED <<history, cacheVars, pc, upto, todo, room, mem, dataVars,
                 ghostVars>>

(* CACHE_EVENT_DEFERRED.                                                   *)
DeferSpaceEvent(e) ==
  /\ TakeEvent(e) /\ ~Duplicate(e) /\ history[e].kind \in {"child", "parent"}
  /\ txn' = PutState(WithJson(e), Slot(e), e)
  /\ deferred' = Append(deferred, e)
  /\ UNCHANGED <<history, cacheVars, pc, upto, todo, room, mem, updated,
                 spaceEvents, ghostVars>>

(* An attachment, or a state event with an unknown state key.              *)
SaveOther(e) ==
  /\ TakeEvent(e) /\ ~Duplicate(e) /\ history[e].kind = "other"
  /\ txn' = WithJson(e)
  /\ UNCHANGED <<history, cacheVars, pc, upto, todo, room, mem, dataVars,
                 ghostVars>>

(* room_put_message_event: the message goes behind the forward timeline.   *)
(* That its sender has a name (room_ds.c:176) is left to the server, which *)
(* sends a member event of every sender.                                   *)
SaveMessage(e) ==
  /\ TakeEvent(e) /\ ~Duplicate(e) /\ history[e].kind = "message"
  /\ txn' = WithJson(e)
  /\ mem' = [mem EXCEPT ![room].forward = @ \cup {WithJson(e).index[e]}]
  /\ UNCHANGED <<history, cacheVars, pc, upto, todo, room, dataVars, ghostVars>>

(* room_redact_event does not redact a message twice.                      *)
RedactsAgain(e) ==
  LET index == WithJson(e).index[history[e].target] IN
  Found(mem[room], index) /\ index \in mem[room].redacted

(* The content of the message goes, in the transaction and in memory; a    *)
(* redaction of an event the cache does not have is ignored.               *)
SaveRedaction(e) ==
  LET index == WithJson(e).index[history[e].target] IN
  /\ TakeEvent(e) /\ ~Duplicate(e) /\ history[e].kind = "redaction"
  /\ ~RedactsAgain(e)
  /\ txn' = IF index = NotFound THEN WithJson(e)
            ELSE ClearContent(WithJson(e), history[e].target)
  /\ mem' = IF index # NotFound /\ Found(mem[room], index)
            THEN [mem EXCEPT ![room].redacted = @ \cup {index}] ELSE mem
  /\ UNCHANGED <<history, cacheVars, pc, upto, todo, room, dataVars, ghostVars>>

SaveRedactionAborts(e) ==
  /\ IsNext(e) /\ ~Duplicate(e) /\ history[e].kind = "redaction"
  /\ RedactsAgain(e)
  /\ Abort("redacted twice")

\* Mutant: the transaction stays open.
CommitRoomLeftOpen ==
  /\ pc = "events" /\ pending = [state |-> {}, timeline |-> {}]
  /\ pc' = "rooms"
  /\ db' = [db EXCEPT ![room] = txn]
  /\ rooms' = rooms \cup {room}
  /\ mem' = IF mem[room].known THEN mem
            ELSE [mem EXCEPT ![room].space = IsSpace(txn, room)]
  /\ updated' = updated \cup {room}
  /\ UNCHANGED <<history, children, nextBatch, upto, todo, txnVars, deferred,
                 spaceEvents, ghostVars>>

(* cache_save_txn_finish, and cache_room_info_init for a new room.         *)
CommitRoom ==
  /\ pc = "events" /\ pending = [state |-> {}, timeline |-> {}]
  /\ pc' = "rooms"
  /\ db' = [db EXCEPT ![room] = txn]
  /\ rooms' = rooms \cup {room}
  /\ mem' = IF mem[room].known THEN mem
            ELSE [mem EXCEPT ![room].space = IsSpace(txn, room)]
  /\ updated' = updated \cup {room}
  /\ room' = NoRoom /\ txn' = EmptyDb
  /\ UNCHANGED <<history, children, nextBatch, upto, todo, pending, deferred,
                 spaceEvents, ghostVars>>

-----------------------------------------------------------------------------
(* sync_cb: the deferred space events, and the end.                        *)

Parent(e) == IF history[e].kind = "child" THEN history[e].room ELSE history[e].key
Child(e)  == IF history[e].kind = "child" THEN history[e].key ELSE history[e].room

(* The state event in that slot has a `via'.                               *)
HasVia(r, slot) == db[r].state[slot] # NotFound /\ history[db[r].state[slot]].via
ChildEvent(p, c)  == HasVia(p, <<"child", c>>)
ParentEvent(p, c) == HasVia(c, <<"parent", p>>)

(* CACHE_DEFERRED_REMOVED.  A "parent" event never gets here: the code     *)
(* wants a child event to go on and no child event to remove.              *)
RelationRemoved(e) ==
  /\ ~history[e].via
  /\ history[e].kind = "child" /\ IsSpace(db[Parent(e)], Parent(e))
  /\ ~ParentEvent(Parent(e), Child(e))

(* CACHE_DEFERRED_ADDED.                                                   *)
RelationAdded(e) ==
  /\ history[e].via
  /\ \/ history[e].kind = "child" /\ IsSpace(db[Parent(e)], Parent(e))
     \/ history[e].kind = "parent" /\ ChildEvent(Parent(e), Child(e))
  /\ <<Parent(e), Child(e)>> \notin children

(* cache_process_deferred_event, in a transaction of its own; the batch    *)
(* gets what changed, CACHE_DEFERRED_FAIL is passed over.                  *)
ProcessDeferred ==
  LET e        == Head(deferred)
      relation == <<Parent(e), Child(e)>>
      change(status) == Append(spaceEvents, [status |-> status, id |-> e])
  IN
  /\ pc = "rooms" /\ todo = {} /\ deferred # <<>>
  /\ deferred' = Tail(deferred)
  /\ \/ /\ RelationAdded(e)
        /\ children' = children \cup {relation}
        /\ spaceEvents' = change("added")
     \/ /\ RelationRemoved(e)
        /\ children' = children \ {relation}
        /\ spaceEvents' = change("removed")
     \/ /\ ~RelationAdded(e) /\ ~RelationRemoved(e)
        /\ UNCHANGED <<children, spaceEvents>>
  /\ UNCHANGED <<history, rooms, db, nextBatch, mem, pc, upto, todo, txnVars,
                 updated, ghostVars>>

\* Mutant: next_batch is saved before the rooms are.
SaveNextBatchEarly ==
  /\ pc = "rooms"
  /\ nextBatch' = upto
  /\ pc' = IF todo = {} /\ deferred = <<>> THEN "published" ELSE pc
  /\ UNCHANGED <<history, rooms, db, children, mem, upto, todo, txnVars,
                 dataVars, ghostVars>>

(* cache_auth_set, then the batch goes to the UI thread.                   *)
SaveNextBatch ==
  /\ pc = "rooms" /\ todo = {} /\ deferred = <<>>
  /\ nextBatch' = upto
  /\ pc' = "published"
  /\ UNCHANGED <<history, rooms, db, children, mem, upto, todo, txnVars,
                 dataVars, ghostVars>>

-----------------------------------------------------------------------------
(* The UI thread: handle_accumulated_sync, rooms first.                    *)

HandleRooms ==
  /\ pc = "published"
  /\ pc' = "handle"
  /\ mem' = [r \in Rooms |-> IF r \in updated THEN [mem[r] EXCEPT !.known = TRUE]
                                              ELSE mem[r]]
  /\ UNCHANGED <<history, cacheVars, upto, todo, txnVars, dataVars, ghostVars>>

\* Mutant: every space event adds.
HandleSpaceEventAdds ==
  LET event == Head(spaceEvents) IN
  /\ pc = "handle" /\ spaceEvents # <<>>
  /\ mem' = [mem EXCEPT ![Parent(event.id)].children = @ \cup {Child(event.id)}]
  /\ spaceEvents' = Tail(spaceEvents)
  /\ UNCHANGED <<history, cacheVars, pc, upto, todo, txnVars, updated, deferred,
                 ghostVars>>

(* room_add_child or room_remove_child.                                    *)
HandleSpaceEvent ==
  LET event == Head(spaceEvents) IN
  /\ pc = "handle" /\ spaceEvents # <<>>
  /\ mem' = [mem EXCEPT ![Parent(event.id)].children =
               IF event.status = "added" THEN @ \cup {Child(event.id)}
                                         ELSE @ \ {Child(event.id)}]
  /\ spaceEvents' = Tail(spaceEvents)
  /\ UNCHANGED <<history, cacheVars, pc, upto, todo, txnVars, updated, deferred,
                 ghostVars>>

\* Mutant: a batch without rooms is not acknowledged.
SyncCbReturnsIfUpdated ==
  /\ pc = "handle" /\ spaceEvents = <<>> /\ updated # {}
  /\ pc' = "idle"
  /\ upto' = 0 /\ updated' = {}
  /\ UNCHANGED <<history, cacheVars, mem, todo, txnVars, deferred, spaceEvents,
                 ghostVars>>

(* The batch is acknowledged and sync_cb returns.                          *)
SyncCbReturns ==
  /\ pc = "handle" /\ spaceEvents = <<>>
  /\ pc' = "idle"
  /\ upto' = 0 /\ updated' = {}
  /\ UNCHANGED <<history, cacheVars, mem, todo, txnVars, deferred, spaceEvents,
                 ghostVars>>

(* Syncing is over, and the UI goes on: matrix_sync_forever returned with  *)
(* an error (main.c:82), or sync_cb missed the acknowledgement of its batch*)
(* and waits for ever (module Threads).                                    *)
SyncEnds ==
  /\ pc = "idle" \/ (pc = "handle" /\ spaceEvents = <<>>)
  /\ pc' = "ended"
  /\ UNCHANGED <<history, cacheVars, mem, upto, todo, txnVars, dataVars,
                 ghostVars>>

(* The user leaves the program that no longer syncs.                       *)
Quit ==
  /\ pc = "ended"
  /\ Die
  /\ UNCHANGED <<aborted, failures>>

SaveEvent(e) ==
  \/ IgnoreEvent(e) \/ SaveState(e) \/ DeferSpaceEvent(e) \/ SaveOther(e)
  \/ SaveMessage(e) \/ SaveRedaction(e) \/ SaveRedactionAborts(e)

Process ==
  \/ PopulateFromCache
  \/ SyncResponse
  \/ \E r \in Rooms : BeginRoom(r)
  \/ \E e \in pending.state \cup pending.timeline : SaveEvent(e)
  \/ CommitRoom \/ ProcessDeferred \/ SaveNextBatch
  \/ HandleRooms \/ HandleSpaceEvent \/ SyncCbReturns

Server ==
  \E event \in [room : Rooms, kind : Kinds \cup {"state"},
                key : Keys \cup {Create} \cup Rooms, via : BOOLEAN,
                target : 0 .. Len(history)] : ServerEvent(event)

Client ==
  \/ Process
  \/ \E r \in Rooms : SkipRoom(r)
  \/ PopulateAborts \/ Crash \/ SyncEnds \/ Quit

Next == Server \/ Client

Spec == Init /\ [][Next]_vars

(* What the server says while the client is busy is in no response before  *)
(* the next one, and no invariant looks at it: the runs that check         *)
(* invariants let the server speak only when the client is about to ask.   *)
LazyNext == (pc = "idle" /\ Server) \/ Client
LazySpec == Init /\ [][LazyNext]_vars

(* The process runs, as long as syncing does not end, and is started again *)
(* after a crash.  Nothing is assumed of the server, of crashes and of the *)
(* user in front of a program that no longer syncs.                        *)
FairSpec == Spec /\ WF_vars(Process)

-----------------------------------------------------------------------------
TypeOK ==
  /\ history \in Seq(Event) /\ Len(history) <= MaxEvents
  /\ rooms \subseteq Rooms /\ db \in [Rooms -> RoomDb]
  /\ children \subseteq Rooms \X Rooms
  /\ nextBatch \in 0 .. Len(history) /\ upto \in 0 .. Len(history)
  /\ mem \in [Rooms -> Room]
  /\ pc \in {"down", "idle", "rooms", "events", "published", "handle",
            "ended"}
  /\ todo \subseteq Rooms
  /\ room \in Rooms \cup {NoRoom} /\ (pc = "events" <=> room # NoRoom)
  /\ txn \in RoomDb
  /\ pending \in [state : SUBSET DOMAIN history, timeline : SUBSET DOMAIN history]
  /\ updated \subseteq Rooms
  /\ deferred \in Seq(DOMAIN history)
  /\ spaceEvents \in Seq([status : {"added", "removed"}, id : DOMAIN history])
  /\ aborted \in {"none", "not a space", "redacted twice"}
  /\ replayed \in BOOLEAN /\ skipped \subseteq Rooms /\ failures \in 0 .. MaxFailures

(* The databases of a room as the syncer sees them.                        *)
Db(r) == IF r = room THEN txn ELSE db[r]

(* ORDER_TO_EVENTS, EVENTS_TO_ORDER and EVENTS agree, in every committed   *)
(* state and in the open transaction: a redaction finds its target and     *)
(* the iterator finds an event for every index.                            *)
OrderIsIndexed == \A r \in Rooms : IsIndexed(db[r]) /\ IsIndexed(Db(r))

(* A replay after a crash, however much longer than the response that was  *)
(* cut short, puts no event behind one that came before it on the server.  *)
OrderFollowsServer == \A r \in Rooms : IsOrdered(db[r]) /\ IsOrdered(Db(r))

(* next_batch covers only what is saved: whatever crashed before, the last *)
(* Limit events of each room up to it are in the cache.  The server will   *)
(* not send them again.                                                    *)
NothingMissed ==
  \A r \in Rooms \ skipped : Window(r, nextBatch) \subseteq Saved(db[r])

(* Content is gone from the cache exactly when a redaction of the message  *)
(* was saved after it, also after a replay of the message.                 *)
RedactionsApplied ==
  \A r \in Rooms : \A t \in Saved(Db(r)) :
    Db(r).content[t] = "cleared" <=>
      \E e \in Saved(Db(r)) : /\ history[e].kind = "redaction"
                              /\ history[e].target = t

(* What the user can read is what the cache has: the messages of a room in *)
(* memory that are not redacted are those with content in the cache, from  *)
(* the oldest loaded one on.                                               *)
MemoryMirrorsCache ==
  \A r \in Rooms :
    LET loaded     == mem[r].forward \cup mem[r].backward
        message(i) == history[Db(r).order[i]].kind = "message"
        full(i)    == Db(r).content[Db(r).order[i]] = "full"
    IN /\ loaded \subseteq DOMAIN Db(r).order
       /\ \A i \in loaded : message(i) /\ (full(i) <=> i \notin mem[r].redacted)
       /\ \A i \in DOMAIN Db(r).order :
            (message(i) /\ full(i) /\ \E j \in loaded : j <= i) => i \in loaded

(* The assertions of room_put_message_event, which keep the timelines fit  *)
(* for a binary search: a new message is in neither timeline, and behind   *)
(* the forward one; and room_bsearch finds every message that was loaded.  *)
TimelinesAreSorted ==
  /\ \A e \in pending.state \cup pending.timeline :
       IsNext(e) /\ ~Duplicate(e) /\ history[e].kind = "message" =>
         LET index == WithJson(e).index[e] IN
         /\ ~Found(mem[room], index)
         /\ \A i \in mem[room].forward : i < index
  /\ \A r \in Rooms : \A i \in mem[r].forward \cup mem[r].backward : Found(mem[r], i)

(* The children of a space in memory are those in the cache whenever no    *)
(* batch is on its way; a space of a batch, or of the cache at boot, is a  *)
(* known room (state.c:89 and state.c:235).                                *)
ChildrenMirrorCache ==
  /\ pc = "idle" => \A p \in Rooms :
       mem[p].children = {c \in Rooms : <<p, c>> \in children}
  /\ pc = "handle" => \A k \in DOMAIN spaceEvents : mem[Parent(spaceEvents[k].id)].known
  /\ \A pair \in children : pair[1] \in rooms

AtRest == pc \notin {"rooms", "events"}

(* The room state and member names in the cache are the latest up to       *)
(* next_batch, unless a crash cut a response short.                        *)
LatestState(r, slot, n) ==
  {e \in InRoom(r) : /\ e <= n /\ IsState(e) /\ Slot(e) = slot
                     /\ \A f \in InRoom(r) : f <= n /\ f > e => Slot(f) # slot}
StateIsLatest ==
  AtRest /\ ~replayed =>
    \A r \in Rooms \ skipped, slot \in Slots :
      {db[r].state[slot]} \ {NotFound} = LatestState(r, slot, nextBatch)

(* The space tree follows the events, unless a crash cut a response short: *)
(* a space has the rooms its own events name, and a room it does not name  *)
(* (any more) only if that room named the space.                           *)
RelationsFollowEvents ==
  AtRest /\ ~replayed =>
    \A p \in Spaces \ skipped, c \in Rooms \ skipped :
      /\ ChildEvent(p, c) => <<p, c>> \in children
      /\ <<p, c>> \in children =>
           ChildEvent(p, c) \/ db[c].state[<<"parent", p>>] # NotFound

(* If syncing does not end again and again or for good, an event the       *)
(* server has is saved, whatever crashes, empty responses and skipped rooms*)
(* occur, or it is one that a response leaves out because it has Limit     *)
(* later events of the room.  A failed assertion can be for good           *)
(* (RedactedOnce and ParentsAreSpaces).                                    *)
Arrived(n) ==
  LET r == history[n].room IN
  \/ r \in skipped
  \/ /\ nextBatch >= n /\ r \in rooms
     /\ n \in Saved(db[r]) \/ n \notin Window(r, nextBatch)

EventsArrive ==
  <>[](pc # "ended") =>
    \A n \in 1 .. MaxEvents :
      n \in DOMAIN history ~>
        aborted # "none" \/ (n \in DOMAIN history /\ Arrived(n))

-----------------------------------------------------------------------------
(* What comments and assertions of the code say, and what does not hold.   *)

(* state.c:388 "in case we somehow crashed during the above loop.  This    *)
(* will ensure that we receive the left out events on the next boot": when *)
(* a response is saved, the replay of one cut short included, the state in *)
(* the cache is the latest and every space has the rooms its events name.  *)
ReplayRestoresState ==
  \A r \in Rooms \ skipped, slot \in Slots :
    {db[r].state[slot]} \ {NotFound} = LatestState(r, slot, nextBatch)

ReplayRestoresChildren ==
  \A p \in Spaces \ skipped, c \in Rooms \ skipped :
    ChildEvent(p, c) => <<p, c>> \in children

ReplayRestores ==
  pc = "published" => ReplayRestoresState /\ ReplayRestoresChildren

(* room_ds.c:230 "Can't redact something we already did."                  *)
RedactedOnce == aborted # "redacted twice"

(* state.c:239 assert(space_room->info.is_space).                          *)
ParentsAreSpaces == aborted # "not a space"

=============================================================================
