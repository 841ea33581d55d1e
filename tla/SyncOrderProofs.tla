--------------------------- MODULE SyncOrderProofs ---------------------------
(***************************************************************************)
(* Proofs that the cache keeps the server's order, misses no event and     *)
(* redacts what was redacted, whatever crashes and whatever is replayed    *)
(* after it (module Sync, for every value of its constants).               *)
(***************************************************************************)
EXTENDS SyncProofs

-----------------------------------------------------------------------------
(* The inductive invariant.                                                *)

Busy == pc \in {"rooms", "events"}

(* The response begins where next_batch ends, and holds what it should.    *)
BatchInv ==
  /\ Busy => nextBatch <= upto
  /\ pc # "events" => txn = EmptyDb
  /\ pending.state \cap pending.timeline = {}
  /\ \A e \in pending.state : IsState(e)

IndexedInv == IsIndexed(txn) /\ \A r \in Rooms : IsIndexed(db[r])

(* How far the responses went whose rooms were committed, the one at hand  *)
(* among them.                                                             *)
Reach == IF Busy THEN upto ELSE Len(history)

(* Some response up to m was saved last: nothing after it is saved, and    *)
(* nothing of its timeline after next_batch is not.                        *)
SavedUpTo(r, m) ==
  /\ Saved(db[r]) \subseteq 1 .. m
  /\ Timeline(r, nextBatch, m) \subseteq Saved(db[r])
ReplayInv == \A r \in Rooms : \E m \in 0 .. Reach : SavedUpTo(r, m)

(* The events yet to come from the timeline are new or duplicates, and the *)
(* new ones are younger than all that is saved.                            *)
PendingInv ==
  pc = "events" =>
    /\ Saved(db[room]) \subseteq Saved(txn)
    /\ Saved(txn) \cup pending.timeline \subseteq 1 .. upto
    /\ Timeline(room, nextBatch, upto) \subseteq Saved(txn) \cup pending.timeline
    /\ \A e \in pending.timeline \ Saved(txn) : \A f \in Saved(txn) : f < e

OrderedInv == IsOrdered(txn) /\ \A r \in Rooms : IsOrdered(db[r])

(* The rooms of the response that were taken from it are committed.        *)
DoneInv ==
  Busy => \A r \in Rooms \ (todo \cup skipped \cup {room}) :
            Timeline(r, nextBatch, upto) \subseteq Saved(db[r])

RedactedOK(d) ==
  \A t \in Saved(d) :
    d.content[t] = "cleared" <=>
      \E e \in Saved(d) : history[e].kind = "redaction" /\ history[e].target = t
RedactedInv == RedactedOK(txn) /\ \A r \in Rooms : RedactedOK(db[r])

-----------------------------------------------------------------------------
(* Steps, as far as the order of the events is concerned.                  *)

(* Neither the cache nor the transaction changes.                          *)
Quiet ==
  /\ UNCHANGED <<history, db, nextBatch, room, txn, pending, todo, skipped>>
  /\ pc # "events" /\ pc' # "events" /\ (Busy' <=> Busy) /\ (Busy => upto' = upto)

(* An event goes from the response into the transaction.                   *)
Take(e) ==
  /\ IsNext(e) /\ e \in pending.state \cup pending.timeline
  /\ pending' = [state |-> pending.state \ {e}, timeline |-> pending.timeline \ {e}]
  /\ UNCHANGED <<history, db, nextBatch, pc, upto, todo, room, skipped>>
  /\ \/ Duplicate(e) /\ txn' = txn
     \/ /\ ~Duplicate(e)
        /\ txn'.order = WithJson(e).order /\ txn'.index = WithJson(e).index
        /\ \/ /\ txn'.content = WithJson(e).content
              /\ history[e].kind = "redaction" =>
                   WithJson(e).index[history[e].target] = NotFound
           \/ /\ history[e].kind = "redaction"
              /\ WithJson(e).index[history[e].target] # NotFound
              /\ txn'.content = [WithJson(e).content EXCEPT ![history[e].target] = "cleared"]

LEMMA TakeStep ==
  ASSUME TypeInv, NEW e \in pending.state \cup pending.timeline, SaveEvent(e),
         ~SaveRedactionAborts(e)
  PROVE  Take(e)
<1>1. e \in Ids /\ txn \in RoomDb /\ WithJson(e) \in RoomDb
  <2>1. e \in DOMAIN history
    BY DEF TypeInv, TypeOK
  <2> QED BY <2>1, EventTypes, WithJsonType DEF TypeInv, TypeOK
<1> DEFINE pendingLess == [state |-> pending.state \ {e}, timeline |-> pending.timeline \ {e}]
<1>2. IsNext(e) /\ pending' = pendingLess
  BY DEF SaveEvent, IgnoreEvent, SaveState, DeferSpaceEvent, SaveOther, SaveMessage,
         SaveRedaction, TakeEvent
<1>3. UNCHANGED <<history, db, nextBatch, pc, upto, todo, room, skipped>>
  BY DEF SaveEvent, IgnoreEvent, SaveState, DeferSpaceEvent, SaveOther, SaveMessage,
         SaveRedaction, cacheVars, ghostVars
<1>4. CASE IgnoreEvent(e)
  BY <1>2, <1>3, <1>4 DEF IgnoreEvent, Take
<1>5. CASE SaveState(e) \/ DeferSpaceEvent(e)
  <2>1. ~Duplicate(e) /\ history[e].kind # "redaction" /\ txn' = PutState(WithJson(e), Slot(e), e)
    BY <1>5 DEF SaveState, DeferSpaceEvent
  <2> QED BY <1>1, <1>2, <1>3, <2>1, PutStateFields DEF Take
<1>6. CASE SaveOther(e) \/ SaveMessage(e)
  <2>1. ~Duplicate(e) /\ history[e].kind # "redaction" /\ txn' = WithJson(e)
    BY <1>6 DEF SaveOther, SaveMessage
  <2> QED BY <1>2, <1>3, <2>1 DEF Take
<1>7. CASE SaveRedaction(e)
  <2>1. history[e].target \in Ids
    <3>1. e \in DOMAIN history /\ history[e].kind = "redaction"
      BY <1>7 DEF SaveRedaction, TypeInv, TypeOK
    <3>2. history[e].target \in 1 .. e - 1
      BY <3>1 DEF TypeInv, HistoryOK
    <3> QED BY <1>1, <3>2, SyncAssumption DEF Ids
  <2>2. /\ ~Duplicate(e) /\ history[e].kind = "redaction"
        /\ txn' = IF WithJson(e).index[history[e].target] = NotFound THEN WithJson(e)
                  ELSE ClearContent(WithJson(e), history[e].target)
    BY <1>7 DEF SaveRedaction
  <2>3. CASE WithJson(e).index[history[e].target] = NotFound
    BY <1>2, <1>3, <2>2, <2>3 DEF Take
  <2>4. CASE WithJson(e).index[history[e].target] # NotFound
    BY <1>1, <1>2, <1>3, <2>1, <2>2, <2>4, ClearContentFields DEF Take
  <2> QED BY <2>3, <2>4
<1> QED
  BY <1>4, <1>5, <1>6, <1>7 DEF SaveEvent

(* Every step is one of these.                                             *)
LEMMA Steps ==
  ASSUME TypeInv, [Next]_vars
  PROVE  \/ Server \/ SyncResponse \/ Quiet \/ UNCHANGED vars
         \/ \E r \in Rooms : BeginRoom(r) \/ SkipRoom(r)
         \/ \E e \in DOMAIN history : Take(e)
         \/ CommitRoom \/ SaveNextBatch \/ Die
<1> USE DEF cacheVars, txnVars, ghostVars
<1>1. ASSUME NEW e \in pending.state \cup pending.timeline, SaveEvent(e)
      PROVE  Die \/ (e \in DOMAIN history /\ Take(e))
  <2>1. CASE SaveRedactionAborts(e)
    BY <2>1 DEF SaveRedactionAborts, Abort
  <2>2. CASE ~SaveRedactionAborts(e)
    BY <1>1, <2>2, TakeStep DEF TypeInv, TypeOK
  <2> QED BY <2>1, <2>2
<1>2. PopulateAborts \/ Crash \/ Quit => Die
  BY DEF PopulateAborts, Abort, Crash, Quit
<1>3. PopulateFromCache \/ ProcessDeferred \/ HandleRooms \/ HandleSpaceEvent
        \/ SyncCbReturns \/ SyncEnds => Quiet
  BY DEF Quiet, Busy, PopulateFromCache, ProcessDeferred, HandleRooms,
         HandleSpaceEvent, SyncCbReturns, SyncEnds
<1> QED BY <1>1, <1>2, <1>3 DEF Next, Client, Process

-----------------------------------------------------------------------------
(* Timelines.                                                              *)

LEMMA HistoryType ==
  ASSUME TypeInv
  PROVE  /\ Len(history) \in Nat /\ DOMAIN history = 1 .. Len(history)
         /\ DOMAIN history \subseteq Ids
         /\ nextBatch \in 0 .. Len(history) /\ upto \in 0 .. Len(history)
<1>1. /\ history \in Seq(Event) /\ Len(history) <= MaxEvents /\ MaxEvents \in Nat
      /\ nextBatch \in 0 .. Len(history) /\ upto \in 0 .. Len(history)
  BY SyncAssumption DEF TypeInv, TypeOK
<1>2. Len(history) \in Nat /\ DOMAIN history = 1 .. Len(history)
  BY <1>1, Lengths
<1> QED BY <1>1, <1>2 DEF Ids

LEMMA WindowType ==
  ASSUME TypeInv, NEW r, NEW n \in Nat
  PROVE  Window(r, n) \subseteq 1 .. n /\ Window(r, n) \subseteq DOMAIN history
BY HistoryType DEF Window, InRoom

(* An event that was among the last of its room still is in an earlier     *)
(* view of the room.                                                       *)
LEMMA WindowShrinks ==
  ASSUME TypeInv, NEW r, NEW n \in Nat, NEW m \in Nat, m <= n,
         NEW e \in Window(r, n), e <= m
  PROVE  e \in Window(r, m)
<1> DEFINE M == {f \in InRoom(r) : e < f /\ f <= m}
           N == {f \in InRoom(r) : e < f /\ f <= n}
<1>1. /\ DOMAIN history = 1 .. Len(history) /\ Len(history) \in Nat
      /\ InRoom(r) \subseteq 1 .. Len(history)
  BY HistoryType DEF InRoom
<1>2. M \subseteq N /\ N \subseteq 1 .. Len(history)
  BY <1>1
<1>3. IsFiniteSet(1 .. Len(history))
  BY <1>1, FS_Interval
<1>4. IsFiniteSet(N)
  BY <1>2, <1>3, FS_Subset
<1>5. IsFiniteSet(M) /\ Cardinality(M) <= Cardinality(N)
  BY <1>2, <1>4, FS_Subset
<1>6. Cardinality(M) \in Nat /\ Cardinality(N) \in Nat
  BY <1>4, <1>5, FS_CardinalityType
<1>7. e \in InRoom(r) /\ Cardinality(N) < Limit
  BY DEF Window
<1>8. Cardinality(M) < Limit
  BY <1>5, <1>6, <1>7, SyncAssumption
<1> QED BY <1>7, <1>8 DEF Window

(* What the server adds is in no view of before.                           *)
LEMMA WindowSame ==
  ASSUME TypeInv, Server, NEW r, NEW n \in 0 .. Len(history)
  PROVE  Window(r, n)' = Window(r, n)
<1>1. /\ history' \in Seq(Event) /\ Len(history') = Len(history) + 1
      /\ \A e \in 1 .. Len(history) : history'[e] = history[e]
  BY HistoryGrows
<1>2. DOMAIN history' = 1 .. Len(history) + 1
  BY <1>1, Lengths
<1>3. Len(history) \in Nat /\ DOMAIN history = 1 .. Len(history)
  BY HistoryType
<1>4. \A e : e <= n => (e \in InRoom(r)' <=> e \in InRoom(r))
  <2> SUFFICES ASSUME NEW e, e <= n PROVE e \in InRoom(r)' <=> e \in InRoom(r)
    OBVIOUS
  <2>1. e \in 1 .. Len(history) + 1 => e \in 1 .. Len(history)
    BY <1>3
  <2> QED BY <1>1, <1>2, <1>3, <2>1 DEF InRoom
<1>5. \A e : {f \in InRoom(r)' : e < f /\ f <= n} = {f \in InRoom(r) : e < f /\ f <= n}
  BY <1>4
<1> QED BY <1>4, <1>5 DEF Window

LEMMA TimelineSame ==
  ASSUME TypeInv, Server, NEW r, NEW n \in 0 .. Len(history)
  PROVE  Timeline(r, nextBatch, n)' = Timeline(r, nextBatch, n)
BY WindowSame, ServerUnchanged DEF Timeline

-----------------------------------------------------------------------------
(* The order is indexed.                                                   *)

LEMMA TakeIndexed ==
  ASSUME TypeInv, IsIndexed(txn), NEW e \in DOMAIN history, Take(e), ~Duplicate(e)
  PROVE  /\ IsIndexed(WithJson(e)) /\ IsIndexed(txn')
         /\ Saved(txn') = Saved(WithJson(e))
         /\ Saved(txn') = IF InTimeline(e) THEN Saved(txn) \cup {e} ELSE Saved(txn)
<1>1. txn \in RoomDb /\ e \in Ids /\ WithJson(e) \in RoomDb
  BY EventTypes, WithJsonType DEF TypeInv, TypeOK
<1>2. InTimeline(e) => e \notin Saved(txn)
  BY DEF Duplicate, Saved
<1>3. /\ IsIndexed(WithJson(e))
      /\ Saved(WithJson(e)) = IF InTimeline(e) THEN Saved(txn) \cup {e} ELSE Saved(txn)
  BY <1>1, <1>2, SaveJsonIndexed, SaveJsonFields DEF WithJson
<1>4. Saved(txn') = Saved(WithJson(e))
  <2>1. CASE txn'.content = WithJson(e).content
    BY <2>1 DEF Saved
  <2>2. CASE /\ history[e].kind = "redaction"
             /\ WithJson(e).index[history[e].target] # NotFound
             /\ txn'.content = [WithJson(e).content EXCEPT ![history[e].target] = "cleared"]
    <3>1. history[e].target \in Ids
      <4>1. history[e].target \in 1 .. e - 1
        BY <2>2 DEF TypeInv, HistoryOK
      <4> QED BY <1>1, <4>1, SyncAssumption DEF Ids
    <3>2. history[e].target \in Saved(WithJson(e))
      BY <1>3, <2>2, <3>1 DEF IsIndexed
    <3>3. WithJson(e).content \in [Ids -> Contents]
      BY <1>1 DEF RoomDb
    <3> HIDE DEF Take, TypeInv
    <3> QED BY <2>2, <3>1, <3>2, <3>3 DEF Saved, Contents
  <2> QED BY <2>1, <2>2 DEF Take
<1>5. IsIndexed(txn')
  <2>1. txn'.order = WithJson(e).order /\ txn'.index = WithJson(e).index
    BY DEF Take
  <2> QED BY <1>3, <1>4, <2>1, SameOrder
<1> QED BY <1>3, <1>4, <1>5

LEMMA IndexedStep ==
  ASSUME TypeInv, IndexedInv, [Next]_vars
  PROVE  IndexedInv'
<1> USE DEF IndexedInv, cacheVars, txnVars
<1>1. CASE Server \/ SyncResponse \/ Quiet \/ UNCHANGED vars \/ SaveNextBatch
  BY <1>1, ServerUnchanged DEF SyncResponse, Quiet, vars, SaveNextBatch
<1>2. ASSUME NEW r \in Rooms, BeginRoom(r) \/ SkipRoom(r) PROVE IndexedInv'
  BY <1>2 DEF BeginRoom, SkipRoom
<1>3. ASSUME NEW e \in DOMAIN history, Take(e) PROVE IndexedInv'
  <2>1. db' = db
    BY <1>3 DEF Take
  <2>2. CASE Duplicate(e)
    BY <1>3, <2>1, <2>2 DEF Take
  <2>3. CASE ~Duplicate(e)
    BY <1>3, <2>1, <2>3, TakeIndexed
  <2> QED BY <2>2, <2>3
<1>4. CASE CommitRoom
  <2>1. db \in [Rooms -> RoomDb] /\ db' = [db EXCEPT ![room] = txn] /\ txn' = EmptyDb
    BY <1>4 DEF CommitRoom, TypeInv, TypeOK
  <2> QED BY <2>1, EmptyDbOK
<1>5. CASE Die
  BY <1>5, EmptyDbOK DEF Die
<1> QED
  BY <1>1, <1>2, <1>3, <1>4, <1>5, Steps

(* A redaction finds its target, the iterator the event of every position: *)
(* in no behaviour, whatever is replayed or cut short, does a position or  *)
(* an event get a second entry or lose its only one.                       *)
THEOREM OrderIndexed == Spec => []OrderIsIndexed
<1>1. Init => IndexedInv
  BY EmptyDbOK DEF Init, IndexedInv
<1>2. TypeInv /\ IndexedInv /\ [Next]_vars => TypeInv' /\ IndexedInv'
  BY TypeStep, IndexedStep
<1>3. IndexedInv => OrderIsIndexed
  BY DEF IndexedInv, OrderIsIndexed, Db
<1> QED BY <1>1, <1>2, <1>3, TypeInit, PTL DEF Spec

-----------------------------------------------------------------------------
(* The order follows the server.                                           *)

LEMMA ReachType ==
  ASSUME TypeInv
  PROVE  Reach \in 0 .. Len(history)
BY HistoryType DEF Reach

LEMMA BatchStep ==
  ASSUME TypeInv, BatchInv, [Next]_vars
  PROVE  BatchInv'
<1> USE DEF BatchInv, Busy, cacheVars, txnVars
<1>1. CASE Server
  <2>1. pending.state \subseteq DOMAIN history
    BY DEF TypeInv, TypeOK
  <2>2. \A e \in 1 .. Len(history) : history'[e] = history[e]
    BY <1>1, HistoryGrows
  <2>3. \A e \in pending.state : history'[e] = history[e]
    BY <2>1, <2>2, HistoryType
  <2>4. \A e \in pending.state : IsState(e)'
    BY <2>3 DEF IsState
  <2> QED BY <1>1, <2>4, ServerUnchanged
<1>2. CASE SyncResponse
  BY <1>2, HistoryType DEF SyncResponse, IsState
<1>3. CASE Quiet \/ UNCHANGED vars
  BY <1>3 DEF Quiet, vars, IsState
<1>4. ASSUME NEW r \in Rooms, BeginRoom(r) PROVE BatchInv'
  <2>1. /\ pending'.state = StateBlock(r, nextBatch, upto)
        /\ pending'.timeline = Timeline(r, nextBatch, upto)
        /\ history' = history /\ nextBatch' = nextBatch /\ upto' = upto
        /\ pc = "rooms" /\ pc' = "events"
    BY <1>4 DEF BeginRoom
  <2>2. pending'.state \cap pending'.timeline = {}
    BY <2>1 DEF StateBlock
  <2>3. \A e \in pending'.state : IsState(e)'
    BY <2>1 DEF StateBlock, IsState
  <2> QED BY <2>1, <2>2, <2>3
<1>5. ASSUME NEW r \in Rooms, SkipRoom(r) PROVE BatchInv'
  BY <1>5 DEF SkipRoom, IsState
<1>6. ASSUME NEW e \in DOMAIN history, Take(e) PROVE BatchInv'
  <2>1. /\ pending' = [state |-> pending.state \ {e}, timeline |-> pending.timeline \ {e}]
        /\ UNCHANGED <<history, nextBatch, pc, upto>> /\ pc = "events"
    BY <1>6 DEF Take, IsNext
  <2>2. \A f \in pending'.state : IsState(f)'
    BY <2>1 DEF IsState
  <2> QED BY <2>1, <2>2
<1>7. CASE CommitRoom
  BY <1>7 DEF CommitRoom, IsState
<1>8. CASE SaveNextBatch
  BY <1>8 DEF SaveNextBatch, IsState
<1>9. CASE Die
  BY <1>9 DEF Die
<1> QED
  BY <1>1, <1>2, <1>3, <1>4, <1>5, <1>6, <1>7, <1>8, <1>9, Steps

(* A later next_batch asks for less.                                       *)
LEMMA AskLess ==
  ASSUME TypeInv, NEW r, NEW m \in Nat, NEW n \in Nat, nextBatch <= n
  PROVE  Timeline(r, n, m) \subseteq Timeline(r, nextBatch, m)
<1>1. Window(r, m) \subseteq 1 .. m /\ nextBatch \in Nat
  BY WindowType, HistoryType
<1> QED BY <1>1 DEF Timeline

LEMMA ReplayStep ==
  ASSUME TypeInv, BatchInv, PendingInv, ReplayInv, [Next]_vars
  PROVE  ReplayInv'
<1> USE DEF cacheVars, txnVars
<1>0. /\ Reach \in 0 .. Len(history) /\ Reach \in Nat /\ Len(history) \in Nat
      /\ upto \in 0 .. Len(history)
  BY ReachType, HistoryType
<1> SUFFICES ASSUME NEW r \in Rooms
             PROVE  \E m \in 0 .. Reach' : SavedUpTo(r, m)'
  BY DEF ReplayInv
<1>1. PICK m \in 0 .. Reach : SavedUpTo(r, m)
  BY DEF ReplayInv
<1>2. m \in 0 .. Len(history) /\ m \in Nat
  BY <1>0, <1>1
<1>3. ASSUME UNCHANGED <<history, db, nextBatch>> PROVE SavedUpTo(r, m)'
  BY <1>1, <1>3 DEF SavedUpTo, Timeline, Window, InRoom, Saved
<1>4. CASE Server
  <2>1. Timeline(r, nextBatch, m)' = Timeline(r, nextBatch, m) /\ db' = db
    BY <1>2, <1>4, TimelineSame, ServerUnchanged
  <2>2. SavedUpTo(r, m)'
    BY <1>1, <2>1 DEF SavedUpTo, Saved
  <2>3. Len(history') = Len(history) + 1
    BY <1>4, HistoryGrows
  <2>4. m \in 0 .. Reach'
    BY <1>0, <1>1, <2>3, <1>4, ServerUnchanged DEF Reach, Busy
  <2> QED BY <2>2, <2>4
<1>5. CASE SyncResponse
  BY <1>0, <1>2, <1>3, <1>5 DEF SyncResponse, Reach, Busy
<1>6. CASE Quiet \/ UNCHANGED vars
  BY <1>1, <1>3, <1>6 DEF Quiet, vars, Reach, Busy
<1>7. ASSUME NEW s \in Rooms, BeginRoom(s) \/ SkipRoom(s)
      PROVE  \E k \in 0 .. Reach' : SavedUpTo(r, k)'
  BY <1>1, <1>3, <1>7 DEF BeginRoom, SkipRoom, Reach, Busy
<1>8. ASSUME NEW e \in DOMAIN history, Take(e)
      PROVE  \E k \in 0 .. Reach' : SavedUpTo(r, k)'
  BY <1>1, <1>3, <1>8 DEF Take, IsNext, Reach, Busy
<1>9. CASE CommitRoom
  <2>1. /\ db' = [db EXCEPT ![room] = txn] /\ UNCHANGED <<history, nextBatch, upto>>
        /\ pc = "events" /\ pc' = "rooms" /\ pending.timeline = {}
        /\ db \in [Rooms -> RoomDb]
    BY <1>9 DEF CommitRoom, TypeInv, TypeOK
  <2>2. Reach = upto /\ Reach' = upto
    BY <2>1 DEF Reach, Busy
  <2>3. CASE r = room
    <3>1. db'[r] = txn
      BY <2>1, <2>3
    <3>2. SavedUpTo(r, upto)'
      BY <2>1, <2>3, <3>1 DEF PendingInv, SavedUpTo, Timeline, Window, InRoom, Saved
    <3> QED BY <1>0, <2>1, <2>2, <3>2
  <2>4. CASE r # room
    <3>1. db'[r] = db[r]
      BY <2>1, <2>4
    <3>2. SavedUpTo(r, m)'
      BY <1>1, <2>1, <3>1 DEF SavedUpTo, Timeline, Window, InRoom, Saved
    <3> QED BY <1>1, <2>2, <3>2
  <2> QED BY <2>3, <2>4
<1>10. CASE SaveNextBatch
  <2>1. nextBatch' = upto /\ history' = history /\ db' = db /\ nextBatch <= upto
    BY <1>10 DEF SaveNextBatch, BatchInv, Busy
  <2>2. Timeline(r, upto, m) \subseteq Timeline(r, nextBatch, m)
    BY <1>0, <1>2, <2>1, AskLess
  <2>3. SavedUpTo(r, m)'
    BY <1>1, <2>1, <2>2 DEF SavedUpTo, Timeline, Window, InRoom, Saved
  <2>4. Reach' = Len(history)
    BY <1>10 DEF SaveNextBatch, Reach, Busy
  <2> QED BY <1>2, <2>3, <2>4
<1>11. CASE Die
  <2>1. Reach' = Len(history)
    BY <1>11 DEF Die, Reach, Busy
  <2> QED BY <1>2, <1>3, <2>1, <1>11 DEF Die
<1> QED
  BY <1>4, <1>5, <1>6, <1>7, <1>8, <1>9, <1>10, <1>11, Steps

(* What a replay brings of a room is saved, or younger than all that is.   *)
LEMMA BeginPending ==
  ASSUME TypeInv, BatchInv, ReplayInv, NEW r \in Rooms, BeginRoom(r)
  PROVE  PendingInv'
<1>1. /\ txn' = db[r] /\ room' = r /\ db' = db /\ pc = "rooms"
      /\ UNCHANGED <<history, nextBatch, upto>>
      /\ pending'.timeline = Timeline(r, nextBatch, upto)
  BY DEF BeginRoom, cacheVars
<1>2. PICK m \in 0 .. upto : SavedUpTo(r, m)
  BY <1>1 DEF ReplayInv, Reach, Busy
<1>3. upto \in Nat /\ m \in Nat /\ nextBatch \in Nat /\ m <= upto
  BY <1>2, HistoryType
<1>4. Timeline(r, nextBatch, upto) \subseteq 1 .. upto
  BY <1>3, WindowType DEF Timeline
<1>5. Saved(db[r]) \subseteq 1 .. m
  BY <1>2 DEF SavedUpTo
<1>6. \A e \in Timeline(r, nextBatch, upto) \ Saved(db[r]) : m < e
  <2> SUFFICES ASSUME NEW e \in Timeline(r, nextBatch, upto), e <= m
               PROVE  e \in Saved(db[r])
    BY <1>3, <1>4
  <2>1. e \in Window(r, upto) /\ nextBatch < e
    BY DEF Timeline
  <2>2. e \in Window(r, m)
    BY <1>3, <2>1, WindowShrinks
  <2> QED BY <1>2, <2>1, <2>2 DEF SavedUpTo, Timeline
<1>7. \A e \in Timeline(r, nextBatch, upto) \ Saved(db[r]) : \A f \in Saved(db[r]) : f < e
  BY <1>3, <1>4, <1>5, <1>6
<1>8. Timeline(r, nextBatch, upto)' = Timeline(r, nextBatch, upto)
  BY <1>1 DEF Timeline, Window, InRoom
<1>9. Saved(txn') = Saved(db[r]) /\ Saved(db'[room']) = Saved(db[r])
  BY <1>1
<1>10. Saved(db[r]) \cup Timeline(r, nextBatch, upto) \subseteq 1 .. upto
  BY <1>3, <1>4, <1>5
<1>11. Timeline(room, nextBatch, upto)' = Timeline(r, nextBatch, upto)
  BY <1>1 DEF Timeline, Window, InRoom
<1> QED
  BY <1>1, <1>7, <1>9, <1>10, <1>11 DEF PendingInv

LEMMA TakePending ==
  ASSUME TypeInv, BatchInv, IndexedInv, PendingInv, NEW e \in DOMAIN history, Take(e)
  PROVE  PendingInv'
<1>1. /\ pc = "events" /\ UNCHANGED <<history, db, nextBatch, upto, room>>
      /\ pending' = [state |-> pending.state \ {e}, timeline |-> pending.timeline \ {e}]
      /\ e \in pending.state \cup pending.timeline
  BY DEF Take, IsNext
<1>2. /\ Saved(txn') = IF InTimeline(e) THEN Saved(txn) \cup {e} ELSE Saved(txn)
  <2>1. CASE Duplicate(e)
    <3>1. txn' = txn /\ e \in DOMAIN history /\ txn.content[e] # "none"
      BY <2>1 DEF Take, Duplicate
    <3>2. e \in Saved(txn)
      BY <3>1, HistoryType DEF Saved
    <3> QED BY <3>1, <3>2
  <2>2. CASE ~Duplicate(e)
    BY <2>2, TakeIndexed DEF IndexedInv
  <2> QED BY <2>1, <2>2
<1>3. /\ Saved(db[room]) \subseteq Saved(txn)
      /\ Saved(txn) \cup pending.timeline \subseteq 1 .. upto
      /\ Timeline(room, nextBatch, upto) \subseteq Saved(txn) \cup pending.timeline
      /\ \A f \in pending.timeline \ Saved(txn) : \A g \in Saved(txn) : g < f
  BY <1>1 DEF PendingInv
<1>4. Timeline(room, nextBatch, upto)' = Timeline(room, nextBatch, upto)
  BY <1>1 DEF Timeline, Window, InRoom
<1>5. CASE InTimeline(e)
  <2>1. e \in pending.timeline /\ \A f \in pending.timeline : e <= f
    BY <1>1, <1>5 DEF InTimeline, BatchInv, Take, IsNext
  <2>2. pending.timeline \subseteq Nat
    BY <1>3, HistoryType
  <2>3. \A f \in (pending.timeline \ {e}) \ Saved(txn) : e < f
    BY <2>1, <2>2
  <2>4. /\ pending'.timeline = pending.timeline \ {e}
        /\ Saved(txn') = Saved(txn) \cup {e}
    BY <1>1, <1>2, <1>5
  <2>5. \A f \in pending'.timeline \ Saved(txn') : \A g \in Saved(txn') : g < f
    BY <1>3, <2>3, <2>4
  <2>6. /\ Saved(txn') \cup pending'.timeline \subseteq 1 .. upto
        /\ Timeline(room, nextBatch, upto) \subseteq Saved(txn') \cup pending'.timeline
        /\ Saved(db[room]) \subseteq Saved(txn')
    BY <1>3, <2>1, <2>4
  <2> HIDE DEF Take
  <2> QED BY <1>1, <1>4, <2>5, <2>6 DEF PendingInv
<1>6. CASE ~InTimeline(e)
  <2>1. pending'.timeline = pending.timeline /\ Saved(txn') = Saved(txn)
    BY <1>1, <1>2, <1>6 DEF InTimeline
  <2> QED BY <1>1, <1>3, <1>4, <2>1 DEF PendingInv
<1> QED BY <1>5, <1>6

LEMMA PendingStep ==
  ASSUME TypeInv, BatchInv, IndexedInv, ReplayInv, PendingInv, [Next]_vars
  PROVE  PendingInv'
<1> USE DEF cacheVars, txnVars
<1>1. CASE Server
  <2>1. Timeline(room, nextBatch, upto)' = Timeline(room, nextBatch, upto)
    <3> SUFFICES ASSUME NEW r, NEW n, NEW m, r = room, n = upto, m = nextBatch
                 PROVE  Timeline(room, nextBatch, upto)' = Timeline(r, m, n)
      OBVIOUS
    <3>1. room' = r /\ upto' = n /\ nextBatch' = m /\ n \in 0 .. Len(history)
      BY <1>1, HistoryType, ServerUnchanged
    <3>2. Timeline(room, nextBatch, upto)' = Timeline(r, m, n)'
      BY <3>1 DEF Timeline, Window, InRoom
    <3>3. Window(r, n)' = Window(r, n)
      BY <1>1, <3>1, WindowSame
    <3> QED BY <3>2, <3>3 DEF Timeline
  <2> QED BY <1>1, <2>1, ServerUnchanged DEF PendingInv, Saved
<1>2. ASSUME pc' # "events" PROVE PendingInv'
  BY <1>2 DEF PendingInv
<1>3. CASE UNCHANGED vars
  BY <1>3 DEF vars, PendingInv, Timeline, Window, InRoom, Saved
<1>4. ASSUME NEW r \in Rooms, BeginRoom(r) \/ SkipRoom(r) PROVE PendingInv'
  BY <1>2, <1>4, BeginPending DEF SkipRoom
<1>5. ASSUME NEW e \in DOMAIN history, Take(e) PROVE PendingInv'
  BY <1>5, TakePending
<1>6. SyncResponse \/ Quiet \/ CommitRoom \/ SaveNextBatch \/ Die => pc' # "events"
  BY DEF SyncResponse, Quiet, CommitRoom, SaveNextBatch, Die
<1> QED
  BY <1>1, <1>2, <1>3, <1>4, <1>5, <1>6, Steps

LEMMA OrderedStep ==
  ASSUME TypeInv, BatchInv, IndexedInv, PendingInv, OrderedInv, [Next]_vars
  PROVE  OrderedInv'
<1> USE DEF OrderedInv, cacheVars, txnVars
<1>1. CASE Server \/ SyncResponse \/ Quiet \/ UNCHANGED vars \/ SaveNextBatch
  BY <1>1, ServerUnchanged DEF SyncResponse, Quiet, vars, SaveNextBatch
<1>2. ASSUME NEW r \in Rooms, BeginRoom(r) \/ SkipRoom(r) PROVE OrderedInv'
  BY <1>2 DEF BeginRoom, SkipRoom
<1>3. ASSUME NEW e \in DOMAIN history, Take(e) PROVE OrderedInv'
  <2>1. db' = db /\ pc = "events"
    BY <1>3 DEF Take, IsNext
  <2>2. CASE Duplicate(e)
    BY <1>3, <2>1, <2>2 DEF Take
  <2>3. CASE ~Duplicate(e)
    <3>1. IsOrdered(WithJson(e))
      <4>1. txn \in RoomDb /\ e \in Ids
        BY HistoryType DEF TypeInv, TypeOK
      <4>2. CASE InTimeline(e)
        <5>1. e \in pending.timeline \ Saved(txn)
          BY <2>3, <4>2 DEF Duplicate, InTimeline, Saved
        <5>2. \A f \in Saved(txn) : f < e
          BY <2>1, <5>1 DEF PendingInv
        <5> QED BY <4>1, <4>2, <5>2, SaveJsonOrdered DEF WithJson, IndexedInv
      <4>3. CASE ~InTimeline(e)
        BY <4>3 DEF WithJson
      <4> QED BY <4>2, <4>3
    <3>2. txn'.order = WithJson(e).order
      BY <1>3, <2>3 DEF Take
    <3>3. IsOrdered(txn')
      BY <3>1, <3>2 DEF IsOrdered
    <3> QED BY <2>1, <3>3
  <2> QED BY <2>2, <2>3
<1>4. CASE CommitRoom
  <2>1. db \in [Rooms -> RoomDb] /\ db' = [db EXCEPT ![room] = txn] /\ txn' = EmptyDb
    BY <1>4 DEF CommitRoom, TypeInv, TypeOK
  <2> QED BY <2>1, EmptyDbOK
<1>5. CASE Die
  BY <1>5, EmptyDbOK DEF Die
<1> QED
  BY <1>1, <1>2, <1>3, <1>4, <1>5, Steps

ReplayedInv == TypeInv /\ BatchInv /\ IndexedInv /\ ReplayInv /\ PendingInv

LEMMA ReplayedInit == Init => ReplayedInv
<1> SUFFICES ASSUME Init PROVE ReplayedInv
  OBVIOUS
<1>1. TypeInv
  BY TypeInit
<1>2. BatchInv /\ PendingInv
  BY DEF Init, BatchInv, PendingInv, Busy
<1>3. IndexedInv
  BY EmptyDbOK DEF Init, IndexedInv
<1>4. ReplayInv
  <2> SUFFICES ASSUME NEW r \in Rooms PROVE SavedUpTo(r, 0) /\ 0 \in 0 .. Reach
    BY DEF ReplayInv
  <2>1. Window(r, 0) = {}
    BY <1>1, WindowType
  <2>2. Saved(db[r]) = {}
    BY EmptyDbOK DEF Init
  <2> QED BY <1>1, <2>1, <2>2, ReachType DEF SavedUpTo, Timeline
<1> QED BY <1>1, <1>2, <1>3, <1>4 DEF ReplayedInv

LEMMA ReplayedStep == ReplayedInv /\ [Next]_vars => ReplayedInv'
BY TypeStep, BatchStep, IndexedStep, ReplayStep, PendingStep DEF ReplayedInv

(* Whatever a crash cuts short and however much longer the response that   *)
(* comes after it, ORDER_TO_EVENTS of every room is in the server's order. *)
THEOREM OrderKept == Spec => []OrderFollowsServer
<1>1. Init => OrderedInv
  BY EmptyDbOK DEF Init, OrderedInv
<1>2. ReplayedInv /\ OrderedInv /\ [Next]_vars => OrderedInv'
  BY OrderedStep DEF ReplayedInv
<1>3. OrderedInv => OrderFollowsServer
  BY DEF OrderedInv, OrderFollowsServer, Db
<1> QED BY <1>1, <1>2, <1>3, ReplayedInit, ReplayedStep, PTL DEF Spec

-----------------------------------------------------------------------------
(* Nothing is missed.                                                      *)

MissedInv == DoneInv /\ NothingMissed

(* DoneInv of a room that was not at hand before and is not now.           *)
LEMMA DoneSame ==
  ASSUME DoneInv, UNCHANGED <<history, nextBatch>>, Busy => upto' = upto,
         Busy, NEW r \in Rooms \ (todo \cup skipped \cup {room}), db'[r] = db[r]
  PROVE  (Timeline(r, nextBatch, upto) \subseteq Saved(db[r]))'
<1>1. Timeline(r, nextBatch, upto) \subseteq Saved(db[r])
  BY DEF DoneInv
<1>2. Timeline(r, nextBatch, upto)' = Timeline(r, nextBatch, upto)
  BY DEF Timeline, Window, InRoom
<1>3. Saved(db[r])' = Saved(db[r])
  BY DEF Saved
<1> QED BY <1>1, <1>2, <1>3

LEMMA DoneStep ==
  ASSUME ReplayedInv, DoneInv, [Next]_vars
  PROVE  DoneInv'
<1> USE DEF cacheVars, txnVars, ghostVars
<1>0. TypeInv /\ PendingInv
  BY DEF ReplayedInv
<1> SUFFICES ASSUME Busy', NEW r \in Rooms, r \notin todo' \cup skipped' \cup {room'}
             PROVE  (Timeline(r, nextBatch, upto) \subseteq Saved(db[r]))'
  BY DEF DoneInv
<1>1. CASE Server
  <2>1. /\ UNCHANGED <<db, nextBatch, upto, todo, skipped, room, pc>>
        /\ upto \in 0 .. Len(history)
    BY <1>0, <1>1, HistoryType, ServerUnchanged
  <2>2. Timeline(r, nextBatch, upto) \subseteq Saved(db[r])
    BY <2>1 DEF DoneInv, Busy
  <2>3. Timeline(r, nextBatch, upto)' = Timeline(r, nextBatch, upto)
    <3> SUFFICES ASSUME NEW n, NEW m, n = upto, m = nextBatch
                 PROVE  Timeline(r, nextBatch, upto)' = Timeline(r, m, n)
      OBVIOUS
    <3>1. Timeline(r, nextBatch, upto)' = Timeline(r, m, n)'
      BY <2>1 DEF Timeline, Window, InRoom
    <3>2. Window(r, n)' = Window(r, n)
      BY <1>0, <1>1, <2>1, WindowSame
    <3> QED BY <3>1, <3>2 DEF Timeline
  <2> QED BY <2>1, <2>2, <2>3 DEF Saved
<1>2. CASE SyncResponse
  <2>1. r \notin todo' /\ UNCHANGED <<history, nextBatch>>
        /\ todo' = {s \in Rooms : \E e \in InRoom(s) : nextBatch < e}
    BY <1>2 DEF SyncResponse
  <2>2. ~ \E e \in InRoom(r) : nextBatch < e
    BY <2>1
  <2>3. Timeline(r, nextBatch, upto)' = {}
    BY <2>1, <2>2 DEF Timeline, Window, InRoom
  <2> QED BY <2>3
<1>3. CASE Quiet
  BY <1>3, DoneSame DEF Quiet
<1>4. CASE UNCHANGED vars
  BY <1>4, DoneSame DEF vars, Busy
<1>5. ASSUME NEW s \in Rooms, BeginRoom(s)
      PROVE  (Timeline(r, nextBatch, upto) \subseteq Saved(db[r]))'
  <2>1. /\ UNCHANGED <<history, db, nextBatch, upto, skipped>> /\ pc = "rooms"
        /\ todo' = todo \ {s} /\ room' = s
    BY <1>5 DEF BeginRoom
  <2>2. room = NoRoom /\ r # NoRoom
    BY <1>0, <2>1, SyncAssumption DEF TypeInv, TypeOK
  <2> QED BY <2>1, <2>2, DoneSame DEF Busy
<1>6. ASSUME NEW s \in Rooms, SkipRoom(s)
      PROVE  (Timeline(r, nextBatch, upto) \subseteq Saved(db[r]))'
  BY <1>6, DoneSame DEF SkipRoom, Busy
<1>7. ASSUME NEW e \in DOMAIN history, Take(e)
      PROVE  (Timeline(r, nextBatch, upto) \subseteq Saved(db[r]))'
  BY <1>7, DoneSame DEF Take, IsNext, Busy
<1>8. CASE CommitRoom
  <2>1. /\ UNCHANGED <<history, nextBatch, upto, todo, skipped>>
        /\ pc = "events" /\ pending.timeline = {}
        /\ db' = [db EXCEPT ![room] = txn] /\ db \in [Rooms -> RoomDb]
    BY <1>0, <1>8 DEF CommitRoom, TypeInv, TypeOK
  <2>2. CASE r = room
    <3>1. Timeline(room, nextBatch, upto) \subseteq Saved(txn)
      BY <1>0, <2>1 DEF PendingInv
    <3>2. db'[r] = txn
      BY <2>1, <2>2
    <3>3. Timeline(r, nextBatch, upto)' = Timeline(room, nextBatch, upto)
      BY <2>1, <2>2 DEF Timeline, Window, InRoom
    <3> QED BY <3>1, <3>2, <3>3 DEF Saved
  <2>3. CASE r # room
    <3>1. db'[r] = db[r] /\ Busy
      BY <2>1, <2>3 DEF Busy
    <3> QED BY <2>1, <2>3, <3>1, DoneSame
  <2> QED BY <2>2, <2>3
<1>9. CASE SaveNextBatch \/ Die
  BY <1>9 DEF SaveNextBatch, Die, Busy
<1> QED
  BY <1>0, <1>1, <1>2, <1>3, <1>4, <1>5, <1>6, <1>7, <1>8, <1>9, Steps

LEMMA MissedStep ==
  ASSUME ReplayedInv, MissedInv, [Next]_vars
  PROVE  NothingMissed'
<1> USE DEF cacheVars, txnVars, ghostVars
<1>0. TypeInv /\ PendingInv /\ BatchInv
  BY DEF ReplayedInv
<1> SUFFICES ASSUME NEW r \in Rooms, r \notin skipped'
             PROVE  (Window(r, nextBatch) \subseteq Saved(db[r]))'
  BY DEF NothingMissed
<1>1. ASSUME UNCHANGED <<history, db, nextBatch>>, r \notin skipped
      PROVE  (Window(r, nextBatch) \subseteq Saved(db[r]))'
  BY <1>1 DEF MissedInv, NothingMissed, Window, InRoom, Saved
<1>2. CASE Server
  <2> SUFFICES ASSUME NEW n, n = nextBatch
               PROVE  (Window(r, nextBatch) \subseteq Saved(db[r]))'
    OBVIOUS
  <2>1. nextBatch' = n /\ n \in 0 .. Len(history) /\ db' = db /\ r \notin skipped
    BY <1>0, <1>2, HistoryType, ServerUnchanged
  <2>2. Window(r, n)' = Window(r, n)
    BY <1>0, <1>2, <2>1, WindowSame
  <2>3. Window(r, nextBatch)' = Window(r, n)'
    BY <2>1 DEF Window, InRoom
  <2> QED BY <2>1, <2>2, <2>3 DEF MissedInv, NothingMissed, Saved
<1>3. CASE SyncResponse \/ Quiet \/ UNCHANGED vars \/ Die
  BY <1>1, <1>3 DEF SyncResponse, Quiet, vars, Die
<1>4. ASSUME NEW s \in Rooms, BeginRoom(s) \/ SkipRoom(s)
      PROVE  (Window(r, nextBatch) \subseteq Saved(db[r]))'
  BY <1>1, <1>4 DEF BeginRoom, SkipRoom
<1>5. ASSUME NEW e \in DOMAIN history, Take(e)
      PROVE  (Window(r, nextBatch) \subseteq Saved(db[r]))'
  BY <1>1, <1>5 DEF Take
<1>6. CASE CommitRoom
  <2>1. /\ UNCHANGED <<history, nextBatch, skipped>> /\ pc = "events"
        /\ db' = [db EXCEPT ![room] = txn] /\ db \in [Rooms -> RoomDb]
    BY <1>0, <1>6 DEF CommitRoom, TypeInv, TypeOK
  <2>2. Saved(db[r]) \subseteq Saved(db'[r])
    <3>1. CASE r = room
      BY <1>0, <2>1, <3>1 DEF PendingInv
    <3>2. CASE r # room
      BY <2>1, <3>2
    <3> QED BY <3>1, <3>2
  <2>3. Window(r, nextBatch)' = Window(r, nextBatch)
    BY <2>1 DEF Window, InRoom
  <2> QED BY <2>1, <2>2, <2>3 DEF MissedInv, NothingMissed, Saved
<1>7. CASE SaveNextBatch
  <2>1. /\ UNCHANGED <<history, db, skipped>> /\ nextBatch' = upto
        /\ pc = "rooms" /\ todo = {} /\ nextBatch <= upto
    BY <1>0, <1>7 DEF SaveNextBatch, BatchInv, Busy
  <2>2. room = NoRoom /\ r # NoRoom
    BY <1>0, <2>1, SyncAssumption DEF TypeInv, TypeOK
  <2>3. Timeline(r, nextBatch, upto) \subseteq Saved(db[r])
    BY <2>1, <2>2 DEF MissedInv, DoneInv, Busy
  <2>4. Window(r, nextBatch) \subseteq Saved(db[r])
    BY <2>1 DEF MissedInv, NothingMissed
  <2>5. Window(r, upto) \subseteq Saved(db[r])
    <3> SUFFICES ASSUME NEW e \in Window(r, upto) PROVE e \in Saved(db[r])
      OBVIOUS
    <3>1. e \in Nat /\ upto \in Nat /\ nextBatch \in Nat
      BY <1>0, HistoryType, WindowType
    <3>2. CASE nextBatch < e
      BY <2>3, <3>2 DEF Timeline
    <3>3. CASE e <= nextBatch
      BY <1>0, <2>1, <2>4, <3>1, <3>3, WindowShrinks
    <3> QED BY <3>1, <3>2, <3>3
  <2>6. Window(r, nextBatch)' = Window(r, upto)
    BY <2>1 DEF Window, InRoom
  <2> QED BY <2>1, <2>5, <2>6 DEF Saved
<1> QED
  BY <1>0, <1>2, <1>3, <1>4, <1>5, <1>6, <1>7, Steps

(* next_batch covers only what is saved, wherever the process crashes: the *)
(* last Limit events of a room that were sent before it are in the cache.  *)
THEOREM NothingIsMissed == Spec => []NothingMissed
<1>1. Init => MissedInv
  <2> SUFFICES ASSUME Init PROVE MissedInv
    OBVIOUS
  <2>1. DoneInv
    BY DEF Init, DoneInv, Busy
  <2>2. NothingMissed
    BY TypeInit, WindowType DEF Init, NothingMissed
  <2> QED BY <2>1, <2>2 DEF MissedInv
<1>2. ReplayedInv /\ MissedInv /\ [Next]_vars => MissedInv'
  BY DoneStep, MissedStep DEF MissedInv
<1>3. MissedInv => NothingMissed
  BY DEF MissedInv
<1> QED BY <1>1, <1>2, <1>3, ReplayedInit, ReplayedStep, PTL DEF Spec

-----------------------------------------------------------------------------
(* Redactions are applied.                                                 *)

LEMMA SavedHistory ==
  ASSUME ReplayedInv
  PROVE  /\ Saved(txn) \subseteq DOMAIN history
         /\ \A r \in Rooms : Saved(db[r]) \subseteq DOMAIN history
<1>1. /\ TypeInv /\ BatchInv /\ PendingInv /\ ReplayInv
      /\ DOMAIN history = 1 .. Len(history) /\ Len(history) \in Nat
      /\ upto \in 0 .. Len(history) /\ Reach \in 0 .. Len(history)
  BY HistoryType, ReachType DEF ReplayedInv
<1>2. \A r \in Rooms : Saved(db[r]) \subseteq DOMAIN history
  <2> TAKE r \in Rooms
  <2>1. PICK m \in 0 .. Reach : SavedUpTo(r, m)
    BY <1>1 DEF ReplayInv
  <2> QED BY <1>1, <2>1 DEF SavedUpTo
<1>3. CASE pc = "events"
  BY <1>1, <1>2, <1>3 DEF PendingInv
<1>4. CASE pc # "events"
  BY <1>1, <1>2, <1>4, EmptyDbOK DEF BatchInv
<1> QED BY <1>2, <1>3, <1>4

LEMMA RedactedSame ==
  ASSUME NEW d, RedactedOK(d), Saved(d) \subseteq DOMAIN history,
         \A e \in DOMAIN history : history'[e] = history[e]
  PROVE  \A t \in Saved(d) :
           d.content[t] = "cleared" <=>
             \E e \in Saved(d) : history'[e].kind = "redaction" /\ history'[e].target = t
BY DEF RedactedOK

(* A redaction comes after its target, so what is saved last redacts an    *)
(* event of the cache or none, and nothing in the cache redacts it.        *)
LEMMA TakeRedacted ==
  ASSUME ReplayedInv, RedactedOK(txn), NEW e \in DOMAIN history, Take(e), ~Duplicate(e)
  PROVE  RedactedOK(txn')
<1> DEFINE target == history[e].target
           json   == WithJson(e)
<1>1. /\ TypeInv /\ BatchInv /\ PendingInv /\ IsIndexed(txn) /\ pc = "events"
      /\ Saved(txn) \subseteq DOMAIN history
      /\ e \in Ids /\ txn \in RoomDb /\ json \in RoomDb
  <2>1. TypeInv /\ BatchInv /\ PendingInv /\ IsIndexed(txn)
    BY DEF ReplayedInv, IndexedInv
  <2> QED
    BY <2>1, SavedHistory, HistoryType, WithJsonType DEF Take, IsNext, TypeInv, TypeOK
<1>2. DOMAIN history \subseteq Nat
  BY <1>1, HistoryType
<1>3. \A f \in DOMAIN history : history[f].kind = "redaction" => history[f].target < f
  BY <1>1, <1>2 DEF TypeInv, HistoryOK
<1>4. /\ IsIndexed(json) /\ Saved(txn') = Saved(json)
      /\ Saved(txn') = IF InTimeline(e) THEN Saved(txn) \cup {e} ELSE Saved(txn)
  BY <1>1, TakeIndexed
<1>5. CASE ~InTimeline(e)
  <2>1. e \in pending.state /\ json = txn
    BY <1>5 DEF Take, InTimeline, WithJson
  <2>2. history[e].kind # "redaction"
    BY <1>1, <2>1 DEF BatchInv, IsState
  <2>3. txn'.content = txn.content
    BY <2>1, <2>2 DEF Take
  <2> QED BY <1>4, <1>5, <2>3 DEF RedactedOK
<1>6. CASE InTimeline(e)
  <2>1. Saved(txn') = Saved(txn) \cup {e} /\ e \notin Saved(txn)
    BY <1>4, <1>6 DEF Duplicate, Saved
  <2>2. json.content = [txn.content EXCEPT ![e] = "full"] /\ txn.content \in [Ids -> Contents]
    BY <1>1, <1>6, SaveJsonFields DEF WithJson, RoomDb
  <2>3. \A f \in Saved(txn) : f < e
    BY <1>1, <1>6, <2>1 DEF PendingInv, InTimeline
  <2>4. \A f \in Saved(txn) \cup {e} : ~(history[f].kind = "redaction" /\ history[f].target = e)
    <3> SUFFICES ASSUME NEW f \in Saved(txn) \cup {e}, history[f].kind = "redaction",
                        history[f].target = e
                 PROVE  FALSE
      OBVIOUS
    <3>1. f \in DOMAIN history /\ f \in Nat /\ e \in Nat
      BY <1>1, <1>2
    <3>2. e < f /\ f <= e
      BY <1>3, <2>3, <3>1
    <3> QED BY <3>1, <3>2
  <2>5. \A t \in Saved(txn) : t \in Ids /\ t # e /\ json.content[t] = txn.content[t]
    BY <2>1, <2>2 DEF Saved
  <2>6. json.content[e] = "full"
    BY <1>1, <2>2
  <2>7. CASE /\ txn'.content = json.content
             /\ history[e].kind = "redaction" => json.index[target] = NotFound
    <3>1. \A t \in Saved(txn) : ~(history[e].kind = "redaction" /\ target = t)
      <4> SUFFICES ASSUME history[e].kind = "redaction", target \in Saved(txn) PROVE FALSE
        OBVIOUS
      <4>1. target \in Saved(json) /\ json.index[target] = NotFound
        BY <1>4, <2>1, <2>7
      <4>2. json.index[target] \in 1 .. Len(json.order)
        BY <1>4, <4>1 DEF IsIndexed
      <4> QED BY <4>1, <4>2 DEF NotFound
    <3>2. \A t \in Saved(txn) : txn'.content[t] = "cleared" <=>
            \E f \in Saved(txn) \cup {e} : history[f].kind = "redaction" /\ history[f].target = t
      BY <2>5, <2>7, <3>1 DEF RedactedOK
    <3>3. txn'.content[e] # "cleared"
      BY <2>6, <2>7
    <3> QED BY <2>1, <2>4, <3>2, <3>3 DEF RedactedOK
  <2>8. CASE /\ history[e].kind = "redaction" /\ json.index[target] # NotFound
             /\ txn'.content = [json.content EXCEPT ![target] = "cleared"]
    <3>1. target \in Nat /\ target < e /\ target \in 1 .. e - 1
      BY <1>1, <1>2, <2>8 DEF TypeInv, HistoryOK
    <3>2. target \in Ids
      BY <1>1, <3>1, SyncAssumption DEF Ids
    <3>3. target \in Saved(txn)
      BY <1>2, <1>4, <2>1, <2>8, <3>1, <3>2 DEF IsIndexed
    <3>4. json.content \in [Ids -> Contents]
      BY <1>1 DEF RoomDb
    <3> HIDE DEF json, target
    <3>5. /\ txn'.content[target] = "cleared"
          /\ \A t \in Ids : t # target => txn'.content[t] = json.content[t]
      BY <2>8, <3>2, <3>4
    <3> USE DEF target
    <3>6. \A t \in Saved(txn) : txn'.content[t] = "cleared" <=>
            \E f \in Saved(txn) \cup {e} : history[f].kind = "redaction" /\ history[f].target = t
      <4> TAKE t \in Saved(txn)
      <4>1. CASE t = target
        BY <2>8, <3>5, <4>1
      <4>2. CASE t # target
        BY <2>5, <3>5, <4>2 DEF RedactedOK
      <4> QED BY <4>1, <4>2
    <3>7. txn'.content[e] # "cleared"
      BY <1>1, <2>4, <2>6, <2>8, <3>5
    <3> QED BY <2>1, <2>4, <3>6, <3>7 DEF RedactedOK
  <2> QED BY <2>7, <2>8 DEF Take
<1> QED BY <1>5, <1>6

LEMMA RedactedStep ==
  ASSUME ReplayedInv, RedactedInv, [Next]_vars
  PROVE  RedactedInv'
<1> USE DEF cacheVars, txnVars
<1>0. TypeInv /\ IndexedInv
  BY DEF ReplayedInv
<1>1. CASE Server
  <2>1. /\ \A e \in DOMAIN history : history'[e] = history[e]
        /\ txn' = txn /\ db' = db
    BY <1>0, <1>1, HistoryGrows, HistoryType, ServerUnchanged
  <2>2. RedactedOK(txn)'
    BY <2>1, SavedHistory, RedactedSame DEF RedactedInv, RedactedOK, Saved
  <2>3. \A r \in Rooms : RedactedOK(db[r])'
    BY <2>1, SavedHistory, RedactedSame DEF RedactedInv, RedactedOK, Saved
  <2> QED BY <2>2, <2>3 DEF RedactedInv
<1>2. CASE SyncResponse \/ Quiet \/ UNCHANGED vars \/ SaveNextBatch
  BY <1>2 DEF SyncResponse, Quiet, vars, SaveNextBatch, RedactedInv, RedactedOK, Saved
<1>3. ASSUME NEW r \in Rooms, BeginRoom(r) \/ SkipRoom(r) PROVE RedactedInv'
  BY <1>3 DEF BeginRoom, SkipRoom, RedactedInv, RedactedOK, Saved
<1>4. ASSUME NEW e \in DOMAIN history, Take(e) PROVE RedactedInv'
  <2>1. history' = history /\ db' = db
    BY <1>4 DEF Take
  <2>2. RedactedOK(txn')
    <3>1. CASE Duplicate(e)
      BY <1>4, <3>1 DEF Take, RedactedInv
    <3>2. CASE ~Duplicate(e)
      BY <1>4, <3>2, TakeRedacted DEF RedactedInv
    <3> QED BY <3>1, <3>2
  <2> QED BY <2>1, <2>2 DEF RedactedInv, RedactedOK
<1>5. CASE CommitRoom
  <2>1. /\ db \in [Rooms -> RoomDb] /\ db' = [db EXCEPT ![room] = txn]
        /\ txn' = EmptyDb /\ history' = history
    BY <1>0, <1>5 DEF CommitRoom, TypeInv, TypeOK
  <2>2. \A r \in Rooms : RedactedOK(db'[r])
    BY <2>1 DEF RedactedInv
  <2> QED BY <2>1, <2>2, EmptyDbOK DEF RedactedInv, RedactedOK
<1>6. CASE Die
  BY <1>6, EmptyDbOK DEF Die, RedactedInv, RedactedOK
<1> QED
  BY <1>0, <1>1, <1>2, <1>3, <1>4, <1>5, <1>6, Steps

(* The content of a message is gone from the cache exactly when one of the *)
(* redactions in the cache redacts it: a replay of the message does not    *)
(* bring it back, and no redaction clears another message.                 *)
THEOREM RedactionsAreApplied == Spec => []RedactionsApplied
<1>1. Init => RedactedInv
  BY EmptyDbOK DEF Init, RedactedInv, RedactedOK
<1>2. ReplayedInv /\ RedactedInv /\ [Next]_vars => RedactedInv'
  BY RedactedStep
<1>3. RedactedInv => RedactionsApplied
  BY DEF RedactedInv, RedactedOK, RedactionsApplied, Db
<1> QED BY <1>1, <1>2, <1>3, ReplayedInit, ReplayedStep, PTL DEF Spec

=============================================================================
