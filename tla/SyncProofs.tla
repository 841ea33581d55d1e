----------------------------- MODULE SyncProofs -----------------------------
(***************************************************************************)
(* The writes to the databases of a room, and the types of the cache and   *)
(* the syncer, for every set of rooms, spaces and keys, every limit of a   *)
(* timeline and every number of events, crashes and skipped rooms.         *)
(***************************************************************************)
EXTENDS Sync, FiniteSetTheorems, SequenceTheorems, TLAPS

-----------------------------------------------------------------------------
(* The writes to the databases of a room.                                  *)

LEMMA EmptyDbOK ==
  EmptyDb \in RoomDb /\ IsIndexed(EmptyDb) /\ IsOrdered(EmptyDb) /\ Saved(EmptyDb) = {}
<1>1. <<>> \in Seq(Ids) /\ Len(<<>>) = 0
  BY EmptySeq
<1> QED BY <1>1 DEF EmptyDb, RoomDb, Contents, NotFound, IsIndexed, IsOrdered, Saved

LEMMA SaveJsonFields ==
  ASSUME NEW d \in RoomDb, NEW e \in Ids
  PROVE  /\ SaveJson(d, e) \in RoomDb
         /\ SaveJson(d, e).order = Append(d.order, e)
         /\ SaveJson(d, e).index = [d.index EXCEPT ![e] = Len(d.order) + 1]
         /\ SaveJson(d, e).content = [d.content EXCEPT ![e] = "full"]
         /\ SaveJson(d, e).state = d.state
         /\ Saved(SaveJson(d, e)) = Saved(d) \cup {e}
<1>1. d.order \in Seq(Ids) /\ Len(d.order) + 1 \in Nat
  BY LenProperties DEF RoomDb
<1>2. Append(d.order, e) \in Seq(Ids)
  BY <1>1, AppendProperties
<1>3. /\ [d.index EXCEPT ![e] = Len(d.order) + 1] \in [Ids -> Nat]
      /\ [d.content EXCEPT ![e] = "full"] \in [Ids -> Contents]
  BY <1>1 DEF RoomDb, Contents
<1> QED BY <1>1, <1>2, <1>3 DEF SaveJson, RoomDb, Saved

(* A new event gets the next position, which no other event has.           *)
LEMMA SaveJsonIndexed ==
  ASSUME NEW d \in RoomDb, NEW e \in Ids, IsIndexed(d), e \notin Saved(d)
  PROVE  IsIndexed(SaveJson(d, e))
<1> DEFINE n == Len(d.order)
           s == SaveJson(d, e)
<1>1. d.order \in Seq(Ids) /\ n \in Nat /\ d.index \in [Ids -> Nat]
  BY LenProperties DEF RoomDb
<1>2. /\ Len(s.order) = n + 1 /\ s.order[n + 1] = e
      /\ \A i \in 1 .. n : s.order[i] = d.order[i]
  <2>1. s.order = Append(d.order, e)
    BY SaveJsonFields
  <2> HIDE DEF s
  <2> QED BY <1>1, <2>1, AppendProperties
<1>3. /\ s.index[e] = n + 1
      /\ \A f \in Ids : f # e => s.index[f] = d.index[f]
      /\ Saved(s) = Saved(d) \cup {e}
  <2>1. /\ s.index = [d.index EXCEPT ![e] = n + 1]
        /\ Saved(s) = Saved(d) \cup {e}
    BY SaveJsonFields
  <2> HIDE DEF s, n
  <2> QED BY <1>1, <2>1
<1>4. \A i \in 1 .. n : d.order[i] \in Ids /\ d.index[d.order[i]] = i
  BY <1>1, ElementOfSeq DEF IsIndexed
<1>5. \A i \in 1 .. n : d.order[i] # e
  <2> SUFFICES ASSUME NEW i \in 1 .. n, d.order[i] = e PROVE FALSE
    OBVIOUS
  <2>1. d.index[e] = i /\ d.index[e] = NotFound
    BY <1>4 DEF IsIndexed
  <2> QED BY <1>1, <2>1 DEF NotFound
<1>6. \A i \in 1 .. Len(s.order) : s.index[s.order[i]] = i
  <2> SUFFICES ASSUME NEW i \in 1 .. n + 1 PROVE s.index[s.order[i]] = i
    BY <1>2
  <2>1. CASE i = n + 1  BY <2>1, <1>2, <1>3
  <2>2. CASE i \in 1 .. n
    BY <2>2, <1>2, <1>3, <1>4, <1>5
  <2> QED BY <1>1, <2>1, <2>2
<1>7. \A f \in Saved(s) : s.index[f] \in 1 .. Len(s.order) /\ s.order[s.index[f]] = f
  <2> SUFFICES ASSUME NEW f \in Saved(d) \cup {e}
               PROVE  s.index[f] \in 1 .. n + 1 /\ s.order[s.index[f]] = f
    BY <1>2, <1>3
  <2>1. CASE f = e  BY <2>1, <1>1, <1>2, <1>3
  <2>2. CASE f # e
    <3>1. f \in Ids /\ d.index[f] \in 1 .. n /\ d.order[d.index[f]] = f
      BY <2>2 DEF IsIndexed, Saved
    <3> QED BY <3>1, <2>2, <1>1, <1>2, <1>3
  <2> QED BY <2>1, <2>2
<1>8. \A f \in Ids \ Saved(s) : s.index[f] = NotFound
  BY <1>3 DEF IsIndexed
<1> QED BY <1>6, <1>7, <1>8 DEF IsIndexed

(* It stands behind the others if it is the youngest.                      *)
LEMMA SaveJsonOrdered ==
  ASSUME NEW d \in RoomDb, NEW e \in Ids, IsIndexed(d), IsOrdered(d),
         \A f \in Saved(d) : f < e
  PROVE  IsOrdered(SaveJson(d, e))
<1> DEFINE n == Len(d.order)
           s == SaveJson(d, e)
<1>1. d.order \in Seq(Ids) /\ n \in Nat
  BY LenProperties DEF RoomDb
<1>2. /\ Len(s.order) = n + 1 /\ s.order[n + 1] = e
      /\ \A i \in 1 .. n : s.order[i] = d.order[i]
  <2>1. s.order = Append(d.order, e)
    BY SaveJsonFields
  <2> HIDE DEF s
  <2> QED BY <1>1, <2>1, AppendProperties
<1>3. \A i \in 1 .. n : d.order[i] \in Saved(d)
  <2> SUFFICES ASSUME NEW i \in 1 .. n PROVE d.order[i] \in Saved(d)
    OBVIOUS
  <2>1. d.order[i] \in Ids /\ d.index[d.order[i]] = i
    BY <1>1, ElementOfSeq DEF IsIndexed
  <2>2. i # NotFound
    BY DEF NotFound
  <2> QED BY <2>1, <2>2 DEF IsIndexed
<1> SUFFICES ASSUME NEW i \in 1 .. n + 1, NEW j \in 1 .. n + 1, i < j
             PROVE  s.order[i] < s.order[j]
  BY <1>2 DEF IsOrdered
<1>4. i \in 1 .. n
  BY <1>1
<1>5. CASE j = n + 1
  BY <1>2, <1>3, <1>4, <1>5
<1>6. CASE j \in 1 .. n
  BY <1>2, <1>4, <1>6 DEF IsOrdered
<1> QED BY <1>1, <1>5, <1>6

LEMMA PutStateFields ==
  ASSUME NEW d \in RoomDb, NEW slot, NEW e \in Ids
  PROVE  /\ PutState(d, slot, e) \in RoomDb
         /\ PutState(d, slot, e).order = d.order
         /\ PutState(d, slot, e).index = d.index
         /\ PutState(d, slot, e).content = d.content
BY DEF PutState, RoomDb

LEMMA ClearContentFields ==
  ASSUME NEW d \in RoomDb, NEW e \in Ids
  PROVE  /\ ClearContent(d, e) \in RoomDb
         /\ ClearContent(d, e).order = d.order
         /\ ClearContent(d, e).index = d.index
         /\ ClearContent(d, e).content = [d.content EXCEPT ![e] = "cleared"]
         /\ e \in Saved(d) => Saved(ClearContent(d, e)) = Saved(d)
BY DEF ClearContent, RoomDb, Contents, Saved

(* IsIndexed and IsOrdered look at the order and at what is saved only.    *)
LEMMA SameOrder ==
  ASSUME NEW d, NEW c, c.order = d.order, c.index = d.index, Saved(c) = Saved(d)
  PROVE  (IsIndexed(d) => IsIndexed(c)) /\ (IsOrdered(d) => IsOrdered(c))
BY DEF IsIndexed, IsOrdered

-----------------------------------------------------------------------------
(* The invariant that the types need.                                      *)

(* Space events name another room, redactions an earlier event.            *)
HistoryOK ==
  \A e \in DOMAIN history :
    /\ history[e].kind \in {"child", "parent"} => history[e].key \in Rooms
    /\ history[e].kind = "redaction" => history[e].target \in 1 .. e - 1

IsSpaceEvent(e) == history[e].kind \in {"child", "parent"}

DeferredOK ==
  /\ \A k \in DOMAIN deferred : IsSpaceEvent(deferred[k])
  /\ \A k \in DOMAIN spaceEvents : IsSpaceEvent(spaceEvents[k].id)

TypeInv == TypeOK /\ HistoryOK /\ DeferredOK

-----------------------------------------------------------------------------
(* Types.                                                                  *)

LEMMA Lengths ==
  ASSUME NEW S, NEW s \in Seq(S)
  PROVE  Len(s) \in Nat /\ DOMAIN s = 1 .. Len(s) /\ \A i \in 1 .. Len(s) : s[i] \in S
BY LenProperties, ElementOfSeq

(* The server's history grows at its end.                                  *)
LEMMA HistoryGrows ==
  ASSUME TypeInv, Server
  PROVE  \E event \in Event :
           /\ history' = Append(history, event)
           /\ history' \in Seq(Event)
           /\ Len(history') = Len(history) + 1
           /\ Len(history') <= MaxEvents
           /\ \A e \in 1 .. Len(history) : history'[e] = history[e]
           /\ history'[Len(history) + 1] = event
           /\ event.kind \in {"child", "parent"} => event.key \in Rooms
           /\ event.kind = "redaction" => event.target \in 1 .. Len(history)
<1>1. PICK event \in [room : Rooms, kind : Kinds \cup {"state"},
                     key : Keys \cup {Create} \cup Rooms, via : BOOLEAN,
                     target : 0 .. Len(history)] : ServerEvent(event)
  BY DEF Server
<1>2. history \in Seq(Event) /\ Len(history) \in Nat /\ DOMAIN history = 1 .. Len(history)
  BY Lengths DEF TypeInv, TypeOK
<1>3. event \in Event
  <2>1. Kinds \cup {"state"} \subseteq AllKinds /\ 0 .. Len(history) \subseteq Nat
    BY <1>2, SyncAssumption DEF AllKinds
  <2> QED BY <1>1, <2>1 DEF Event
<1>4. Len(history) < MaxEvents /\ history' = Append(history, event) /\ WellFormed(event)
  BY <1>1 DEF ServerEvent
<1>5. /\ event.kind \in {"child", "parent"} => event.key \in Rooms
      /\ event.kind = "redaction" => event.target \in 1 .. Len(history)
  BY <1>2, <1>4 DEF WellFormed, InRoom
<1>6. /\ history' \in Seq(Event) /\ Len(history') = Len(history) + 1
      /\ \A e \in 1 .. Len(history) : history'[e] = history[e]
      /\ history'[Len(history) + 1] = event
  BY <1>2, <1>3, <1>4, AppendProperties
<1> QED BY <1>2, <1>3, <1>4, <1>5, <1>6, SyncAssumption

LEMMA ServerUnchanged ==
  ASSUME Server
  PROVE  UNCHANGED <<rooms, db, children, nextBatch, mem, pc, upto, todo, room,
           txn, pending, updated, deferred, spaceEvents, aborted, replayed,
           skipped, failures>>
BY DEF Server, ServerEvent, cacheVars, txnVars, dataVars, ghostVars

LEMMA TypeServer ==
  ASSUME TypeInv, Server
  PROVE  TypeInv'
<1>1. PICK event \in Event :
           /\ history' \in Seq(Event)
           /\ Len(history') = Len(history) + 1
           /\ Len(history') <= MaxEvents
           /\ \A e \in 1 .. Len(history) : history'[e] = history[e]
           /\ history'[Len(history) + 1] = event
           /\ event.kind \in {"child", "parent"} => event.key \in Rooms
           /\ event.kind = "redaction" => event.target \in 1 .. Len(history)
  BY HistoryGrows
<1>2. /\ DOMAIN history = 1 .. Len(history) /\ Len(history) \in Nat
      /\ DOMAIN history' = 1 .. Len(history) + 1
  BY <1>1, Lengths DEF TypeInv, TypeOK
<1>3. DOMAIN history \subseteq DOMAIN history'
  BY <1>2
<1>4. HistoryOK'
  <2> SUFFICES ASSUME NEW e \in 1 .. Len(history) + 1
               PROVE  /\ history'[e].kind \in {"child", "parent"} => history'[e].key \in Rooms
                      /\ history'[e].kind = "redaction" => history'[e].target \in 1 .. e - 1
    BY <1>2 DEF HistoryOK
  <2>1. CASE e = Len(history) + 1
    BY <2>1, <1>1, <1>2
  <2>2. CASE e \in 1 .. Len(history)
    BY <2>2, <1>1, <1>2 DEF TypeInv, HistoryOK
  <2> QED BY <2>1, <2>2, <1>2
<1>5. /\ deferred \in Seq(DOMAIN history')
      /\ spaceEvents \in Seq([status : {"added", "removed"}, id : DOMAIN history'])
  <2>1. /\ deferred \in Seq(DOMAIN history)
        /\ \A k \in 1 .. Len(deferred) : deferred[k] \in DOMAIN history
    BY Lengths DEF TypeInv, TypeOK
  <2>2. /\ spaceEvents \in Seq([status : {"added", "removed"}, id : DOMAIN history])
        /\ \A k \in 1 .. Len(spaceEvents) :
             spaceEvents[k] \in [status : {"added", "removed"}, id : DOMAIN history]
    BY Lengths DEF TypeInv, TypeOK
  <2>3. \A k \in 1 .. Len(spaceEvents) :
          spaceEvents[k] \in [status : {"added", "removed"}, id : DOMAIN history']
    BY <2>2, <1>3
  <2> QED BY <2>1, <2>2, <2>3, <1>3, SeqMonotonic
<1>6. DeferredOK'
  <2>1. /\ DOMAIN deferred = 1 .. Len(deferred)
        /\ \A k \in 1 .. Len(deferred) : deferred[k] \in 1 .. Len(history)
        /\ DOMAIN spaceEvents = 1 .. Len(spaceEvents)
        /\ \A k \in 1 .. Len(spaceEvents) : spaceEvents[k].id \in 1 .. Len(history)
    <3>1. /\ deferred \in Seq(DOMAIN history)
          /\ spaceEvents \in Seq([status : {"added", "removed"}, id : DOMAIN history])
      BY DEF TypeInv, TypeOK
    <3>2. \A k \in 1 .. Len(spaceEvents) :
            spaceEvents[k] \in [status : {"added", "removed"}, id : DOMAIN history]
      BY <3>1, Lengths
    <3>3. /\ DOMAIN deferred = 1 .. Len(deferred)
          /\ \A k \in 1 .. Len(deferred) : deferred[k] \in DOMAIN history
          /\ DOMAIN spaceEvents = 1 .. Len(spaceEvents)
      BY <3>1, Lengths
    <3> QED BY <3>2, <3>3, <1>2
  <2> QED
    BY <2>1, <1>1, ServerUnchanged DEF TypeInv, DeferredOK, IsSpaceEvent
<1>7. TypeOK'
  <2>1. pending \in [state : SUBSET DOMAIN history', timeline : SUBSET DOMAIN history']
    BY <1>3 DEF TypeInv, TypeOK
  <2>2. 0 .. Len(history) \subseteq 0 .. Len(history')
    BY <1>1, <1>2
  <2> QED
    BY <1>1, <1>5, <2>1, <2>2, ServerUnchanged DEF TypeInv, TypeOK
<1> QED BY <1>4, <1>6, <1>7 DEF TypeInv

LEMMA NotFoundNotId == NotFound \notin Ids /\ NotFound \in Nat /\ Ids \subseteq Nat
BY DEF NotFound, Ids

LEMMA EventTypes ==
  ASSUME TypeInv, NEW e \in DOMAIN history
  PROVE  /\ e \in Ids /\ e \in 1 .. Len(history)
         /\ history[e] \in Event /\ history[e].room \in Rooms
         /\ IsSpaceEvent(e) => Parent(e) \in Rooms /\ Child(e) \in Rooms
<1>1. /\ history \in Seq(Event) /\ Len(history) <= MaxEvents /\ MaxEvents \in Nat
      /\ Len(history) \in Nat /\ DOMAIN history = 1 .. Len(history)
      /\ \A i \in 1 .. Len(history) : history[i] \in Event
  BY Lengths, SyncAssumption DEF TypeInv, TypeOK
<1>2. history[e] \in Event /\ e \in 1 .. Len(history) /\ e \in Ids
  BY <1>1 DEF Ids
<1>3. history[e].room \in Rooms
  BY <1>2 DEF Event
<1>4. IsSpaceEvent(e) => history[e].key \in Rooms
  BY DEF TypeInv, HistoryOK, IsSpaceEvent
<1> QED BY <1>2, <1>3, <1>4 DEF Parent, Child, IsSpaceEvent

LEMMA WithJsonType ==
  ASSUME TypeInv, NEW e \in DOMAIN history
  PROVE  WithJson(e) \in RoomDb
<1>1. txn \in RoomDb /\ e \in Ids
  BY EventTypes DEF TypeInv, TypeOK
<1> QED BY <1>1, SaveJsonFields DEF WithJson

LEMMA NoPositions == DOMAIN <<>> = {}
<1>1. \A s \in Seq(Nat) : Len(s) = 0 => DOMAIN s = {}
  <2> TAKE s \in Seq(Nat)
  <2> QED BY Lengths
<1>2. <<>> \in Seq(Nat) /\ Len(<<>>) = 0
  BY EmptySeq
<1> QED BY <1>1, <1>2, Zenon

LEMMA EmptyTypes ==
  ASSUME TypeInv
  PROVE  /\ EmptyDb \in RoomDb /\ <<>> \in Seq(DOMAIN history)
         /\ <<>> \in Seq([status : {"added", "removed"}, id : DOMAIN history])
         /\ DOMAIN <<>> = {} /\ 0 \in 0 .. Len(history)
<1>1. Len(history) \in Nat
  BY Lengths DEF TypeInv, TypeOK
<1>2. DOMAIN <<>> = {}
  BY NoPositions
<1>3. /\ <<>> \in Seq(DOMAIN history)
      /\ <<>> \in Seq([status : {"added", "removed"}, id : DOMAIN history])
  BY EmptySeq, Zenon
<1>4. EmptyDb \in RoomDb /\ 0 \in 0 .. Len(history)
  BY <1>1, EmptyDbOK
<1> QED BY <1>2, <1>3, <1>4, Zenon

LEMMA MemChanges ==
  ASSUME NEW m \in [Rooms -> Room], NEW r, NEW i \in Nat
  PROVE  /\ [m EXCEPT ![r].forward = @ \cup {i}] \in [Rooms -> Room]
         /\ [m EXCEPT ![r].redacted = @ \cup {i}] \in [Rooms -> Room]
<1>1. CASE r \notin Rooms
  BY <1>1
<1>2. CASE r \in Rooms
  <2>1. m[r] \in Room
    BY <1>2
  <2>2. /\ [m[r] EXCEPT !.forward = @ \cup {i}] \in Room
        /\ [m[r] EXCEPT !.redacted = @ \cup {i}] \in Room
    BY <2>1 DEF Room
  <2> QED BY <1>2, <2>2
<1> QED BY <1>1, <1>2

LEMMA TypeDie ==
  ASSUME TypeInv, Die, aborted' \in {"none", "not a space", "redacted twice"},
         failures' \in 0 .. MaxFailures
  PROVE  TypeInv'
<1>1. /\ EmptyDb \in RoomDb /\ <<>> \in Seq(DOMAIN history)
      /\ <<>> \in Seq([status : {"added", "removed"}, id : DOMAIN history])
      /\ DOMAIN <<>> = {} /\ 0 \in 0 .. Len(history)
  BY EmptyTypes
<1>2. NewRoom \in Room
  BY DEF NewRoom, Room
<1>3. NoRoom \notin Rooms
  BY SyncAssumption
<1>4. [r \in Rooms |-> NewRoom] \in [Rooms -> Room]
  BY <1>2
<1>5. TypeOK'
  BY <1>1, <1>3, <1>4 DEF Die, TypeInv, TypeOK, cacheVars
<1>6. HistoryOK' /\ DeferredOK'
  BY <1>1 DEF Die, TypeInv, HistoryOK, DeferredOK
<1> QED BY <1>5, <1>6 DEF TypeInv

LEMMA TypeSaveEvent ==
  ASSUME TypeInv, NEW e \in pending.state \cup pending.timeline, SaveEvent(e)
  PROVE  TypeInv'
<1>1. e \in DOMAIN history
  BY DEF TypeInv, TypeOK
<1>2. e \in Ids /\ WithJson(e) \in RoomDb /\ txn \in RoomDb
  BY <1>1, EventTypes, WithJsonType DEF TypeInv, TypeOK
<1>3. CASE SaveRedactionAborts(e)
  BY <1>3, TypeDie DEF SaveRedactionAborts, Abort, TypeInv, TypeOK
<1>4. ASSUME ~SaveRedactionAborts(e)
      PROVE  /\ txn' \in RoomDb /\ mem' \in [Rooms -> Room] /\ pc = "events"
             /\ \/ deferred' = deferred
                \/ IsSpaceEvent(e) /\ deferred' = Append(deferred, e)
             /\ pending' \in [state : SUBSET DOMAIN history, timeline : SUBSET DOMAIN history]
             /\ UNCHANGED <<history, rooms, db, children, nextBatch, pc, upto, todo, room,
                  updated, spaceEvents, aborted, replayed, skipped, failures>>
  <2> USE DEF cacheVars, dataVars, ghostVars
  <2>1. /\ pc = "events"
        /\ pending' = [state |-> pending.state \ {e}, timeline |-> pending.timeline \ {e}]
    BY <1>4 DEF SaveEvent, IgnoreEvent, SaveState, DeferSpaceEvent, SaveOther,
                SaveMessage, SaveRedaction, TakeEvent, IsNext
  <2>2. pending' \in [state : SUBSET DOMAIN history, timeline : SUBSET DOMAIN history]
    BY <2>1 DEF TypeInv, TypeOK
  <2>3. mem \in [Rooms -> Room]
    BY DEF TypeInv, TypeOK
  <2>4. CASE IgnoreEvent(e)
    BY <2>1, <2>2, <2>3, <2>4, <1>2 DEF IgnoreEvent
  <2>5. CASE SaveState(e)
    BY <2>1, <2>2, <2>3, <2>5, <1>2, PutStateFields DEF SaveState
  <2>6. CASE DeferSpaceEvent(e)
    BY <2>1, <2>2, <2>3, <2>6, <1>2, PutStateFields DEF DeferSpaceEvent, IsSpaceEvent
  <2>7. CASE SaveOther(e)
    BY <2>1, <2>2, <2>3, <2>7, <1>2 DEF SaveOther
  <2>8. CASE SaveMessage(e)
    <3>1. WithJson(e).index[e] \in Nat
      BY <1>2 DEF RoomDb
    <3>2. mem' \in [Rooms -> Room]
      BY <2>3, <2>8, <3>1, MemChanges DEF SaveMessage
    <3> QED BY <2>1, <2>2, <2>8, <3>2, <1>2 DEF SaveMessage
  <2>9. CASE SaveRedaction(e)
    <3>1. history[e].target \in Ids
      <4>1. history[e].target \in 1 .. e - 1
        BY <2>9, <1>1 DEF SaveRedaction, TypeInv, HistoryOK
      <4> QED BY <4>1, <1>2, SyncAssumption DEF Ids
    <3>2. WithJson(e).index[history[e].target] \in Nat
      BY <1>2, <3>1 DEF RoomDb
    <3>3. mem' \in [Rooms -> Room]
      BY <2>3, <2>9, <3>2, MemChanges DEF SaveRedaction
    <3>4. txn' \in RoomDb
      BY <2>9, <3>1, <1>2, ClearContentFields DEF SaveRedaction
    <3> QED BY <2>1, <2>2, <2>9, <3>3, <3>4 DEF SaveRedaction
  <2> QED
    BY <1>4, <2>4, <2>5, <2>6, <2>7, <2>8, <2>9 DEF SaveEvent
<1>5. ASSUME ~SaveRedactionAborts(e) PROVE TypeInv'
  <2>1. /\ deferred' \in Seq(DOMAIN history)
        /\ \A k \in DOMAIN deferred' : IsSpaceEvent(deferred'[k])
    <3>1. /\ deferred \in Seq(DOMAIN history) /\ Len(deferred) \in Nat
          /\ DOMAIN deferred = 1 .. Len(deferred)
          /\ \A k \in 1 .. Len(deferred) : IsSpaceEvent(deferred[k])
      BY Lengths DEF TypeInv, TypeOK, DeferredOK
    <3>2. CASE deferred' = deferred
      BY <3>1, <3>2
    <3>3. CASE IsSpaceEvent(e) /\ deferred' = Append(deferred, e)
      <4>1. /\ deferred' \in Seq(DOMAIN history)
            /\ Len(deferred') = Len(deferred) + 1
            /\ deferred'[Len(deferred) + 1] = e
            /\ \A k \in 1 .. Len(deferred) : deferred'[k] = deferred[k]
        BY <1>1, <3>1, <3>3, AppendProperties
      <4>2. DOMAIN deferred' = 1 .. Len(deferred) + 1
        BY <4>1, Lengths
      <4>3. \A k \in 1 .. Len(deferred) + 1 : IsSpaceEvent(deferred'[k])
        <5> TAKE k \in 1 .. Len(deferred) + 1
        <5>1. CASE k = Len(deferred) + 1  BY <5>1, <4>1, <3>3
        <5>2. CASE k \in 1 .. Len(deferred)  BY <5>2, <4>1, <3>1
        <5> QED BY <5>1, <5>2, <3>1
      <4> QED BY <4>1, <4>2, <4>3
    <3> QED BY <3>2, <3>3, <1>4, <1>5
  <2>2. TypeOK'
    BY <1>4, <1>5, <2>1 DEF TypeInv, TypeOK
  <2>3. HistoryOK' /\ DeferredOK'
    BY <1>4, <1>5, <2>1 DEF TypeInv, HistoryOK, DeferredOK, IsSpaceEvent
  <2> QED BY <2>2, <2>3 DEF TypeInv
<1> QED BY <1>3, <1>5

LEMMA TimelineType ==
  ASSUME NEW r, NEW since, NEW n
  PROVE  /\ StateBlock(r, since, n) \subseteq DOMAIN history
         /\ Timeline(r, since, n) \subseteq DOMAIN history
BY DEF StateBlock, Timeline, Window, InRoom

LEMMA PopulateRoomType ==
  ASSUME TypeInv, NEW r \in Rooms
  PROVE  PopulateRoom(r) \in Room
<1>1. db[r] \in RoomDb
  BY DEF TypeInv, TypeOK
<1>2. DOMAIN db[r].order \subseteq Nat
  <2>1. db[r].order \in Seq(Ids)
    BY <1>1 DEF RoomDb
  <2> QED BY <2>1, Lengths
<1>3. /\ (r \in rooms) \in BOOLEAN /\ IsSpace(db[r], r) \in BOOLEAN
      /\ LastFetched(db[r]) \subseteq Nat
  BY <1>2 DEF IsSpace, LastFetched, Fetched
<1> QED BY <1>3 DEF PopulateRoom, Room

LEMMA TypeDeferred ==
  ASSUME TypeInv, ProcessDeferred
  PROVE  TypeInv'
<1> DEFINE e == Head(deferred)
<1>1. /\ deferred \in Seq(DOMAIN history) /\ deferred # <<>>
      /\ spaceEvents \in Seq([status : {"added", "removed"}, id : DOMAIN history])
  BY DEF ProcessDeferred, TypeInv, TypeOK
<1>2. /\ deferred' = Tail(deferred) /\ deferred' \in Seq(DOMAIN history)
      /\ e \in DOMAIN history /\ e = deferred[1]
      /\ Len(deferred) \in Nat \ {0} /\ Len(deferred') = Len(deferred) - 1
      /\ \A k \in 1 .. Len(deferred') : deferred'[k] = deferred[k + 1]
  <2>1. deferred' = Tail(deferred)
    BY DEF ProcessDeferred
  <2> HIDE DEF e
  <2>2. Len(deferred) \in Nat \ {0}
    BY <1>1, EmptySeq
  <2>3. /\ Tail(deferred) \in Seq(DOMAIN history) /\ Len(Tail(deferred)) = Len(deferred) - 1
        /\ \A k \in 1 .. Len(Tail(deferred)) : Tail(deferred)[k] = deferred[k + 1]
        /\ Head(deferred) = deferred[1] /\ Head(deferred) \in DOMAIN history
    BY <1>1, HeadTailProperties
  <2> QED BY <2>1, <2>2, <2>3 DEF e
<1>3. IsSpaceEvent(e) /\ \A k \in DOMAIN deferred' : IsSpaceEvent(deferred'[k])
  <2>1. DOMAIN deferred = 1 .. Len(deferred) /\ DOMAIN deferred' = 1 .. Len(deferred')
    BY <1>1, <1>2, Lengths
  <2>2. \A k \in 1 .. Len(deferred) : IsSpaceEvent(deferred[k])
    BY <2>1 DEF TypeInv, DeferredOK
  <2> QED BY <2>1, <2>2, <1>2
<1>4. <<Parent(e), Child(e)>> \in Rooms \X Rooms
  BY <1>2, <1>3, EventTypes
<1>5. /\ children' \subseteq Rooms \X Rooms
      /\ \/ spaceEvents' = spaceEvents
         \/ \E status \in {"added", "removed"} :
              spaceEvents' = Append(spaceEvents, [status |-> status, id |-> e])
      /\ UNCHANGED <<history, rooms, db, nextBatch, mem, pc, upto, todo, room, txn,
           pending, updated, aborted, replayed, skipped, failures>>
  <2>1. children \subseteq Rooms \X Rooms
    BY DEF TypeInv, TypeOK
  <2> HIDE DEF e
  <2> QED BY <2>1, <1>4 DEF ProcessDeferred, e, txnVars, ghostVars
<1>6. /\ spaceEvents' \in Seq([status : {"added", "removed"}, id : DOMAIN history])
      /\ \A k \in DOMAIN spaceEvents' : IsSpaceEvent(spaceEvents'[k].id)
  <2>1. /\ DOMAIN spaceEvents = 1 .. Len(spaceEvents) /\ Len(spaceEvents) \in Nat
        /\ \A k \in 1 .. Len(spaceEvents) : IsSpaceEvent(spaceEvents[k].id)
    BY <1>1, Lengths DEF TypeInv, DeferredOK
  <2>2. CASE spaceEvents' = spaceEvents
    BY <2>1, <2>2, <1>1
  <2>3. ASSUME NEW status \in {"added", "removed"},
               spaceEvents' = Append(spaceEvents, [status |-> status, id |-> e])
        PROVE  <1>6
    <3>1. [status |-> status, id |-> e] \in [status : {"added", "removed"}, id : DOMAIN history]
      BY <1>2
    <3>2. /\ spaceEvents' \in Seq([status : {"added", "removed"}, id : DOMAIN history])
          /\ Len(spaceEvents') = Len(spaceEvents) + 1
          /\ spaceEvents'[Len(spaceEvents) + 1].id = e
          /\ \A k \in 1 .. Len(spaceEvents) : spaceEvents'[k] = spaceEvents[k]
      <4> HIDE DEF e
      <4> QED BY <2>3, <3>1, <1>1, AppendProperties
    <3>3. DOMAIN spaceEvents' = 1 .. Len(spaceEvents) + 1
      BY <3>2, Lengths
    <3>4. \A k \in 1 .. Len(spaceEvents) + 1 : IsSpaceEvent(spaceEvents'[k].id)
      <4> TAKE k \in 1 .. Len(spaceEvents) + 1
      <4>1. CASE k = Len(spaceEvents) + 1  BY <4>1, <3>2, <1>3
      <4>2. CASE k \in 1 .. Len(spaceEvents)  BY <4>2, <3>2, <2>1
      <4> QED BY <4>1, <4>2, <2>1
    <3> QED BY <3>2, <3>3, <3>4
  <2> QED BY <1>5, <2>2, <2>3
<1>7. TypeOK'
  BY <1>2, <1>5, <1>6 DEF TypeInv, TypeOK
<1>8. HistoryOK' /\ DeferredOK'
  BY <1>3, <1>5, <1>6 DEF TypeInv, HistoryOK, DeferredOK, IsSpaceEvent
<1> QED BY <1>7, <1>8 DEF TypeInv

LEMMA TypeHandle ==
  ASSUME TypeInv, HandleSpaceEvent
  PROVE  TypeInv'
<1> DEFINE event == Head(spaceEvents)
           Change  == [status : {"added", "removed"}, id : DOMAIN history]
<1>1. spaceEvents \in Seq(Change) /\ spaceEvents # <<>> /\ mem \in [Rooms -> Room]
  BY DEF HandleSpaceEvent, TypeInv, TypeOK
<1>2. /\ spaceEvents' = Tail(spaceEvents) /\ spaceEvents' \in Seq(Change)
      /\ event \in Change /\ event = spaceEvents[1]
      /\ Len(spaceEvents) \in Nat \ {0} /\ Len(spaceEvents') = Len(spaceEvents) - 1
      /\ \A k \in 1 .. Len(spaceEvents') : spaceEvents'[k] = spaceEvents[k + 1]
  <2>1. spaceEvents' = Tail(spaceEvents)
    BY DEF HandleSpaceEvent
  <2> HIDE DEF event, Change
  <2>2. Len(spaceEvents) \in Nat \ {0}
    BY <1>1, EmptySeq
  <2>3. /\ Tail(spaceEvents) \in Seq(Change) /\ Len(Tail(spaceEvents)) = Len(spaceEvents) - 1
        /\ \A k \in 1 .. Len(Tail(spaceEvents)) : Tail(spaceEvents)[k] = spaceEvents[k + 1]
        /\ Head(spaceEvents) = spaceEvents[1] /\ Head(spaceEvents) \in Change
    BY <1>1, HeadTailProperties
  <2> QED BY <2>1, <2>2, <2>3 DEF event
<1>3. /\ IsSpaceEvent(event.id)
      /\ \A k \in DOMAIN spaceEvents' : IsSpaceEvent(spaceEvents'[k].id)
  <2>1. /\ DOMAIN spaceEvents = 1 .. Len(spaceEvents)
        /\ DOMAIN spaceEvents' = 1 .. Len(spaceEvents')
    BY <1>1, <1>2, Lengths
  <2>2. \A k \in 1 .. Len(spaceEvents) : IsSpaceEvent(spaceEvents[k].id)
    BY <2>1 DEF TypeInv, DeferredOK
  <2> QED BY <2>1, <2>2, <1>2
<1>4. event.id \in DOMAIN history /\ Parent(event.id) \in Rooms /\ Child(event.id) \in Rooms
  BY <1>2, <1>3, EventTypes
<1>5. mem' \in [Rooms -> Room]
  <2>1. mem[Parent(event.id)] \in Room
    BY <1>1, <1>4
  <2>2. \A C \in SUBSET Rooms : [mem[Parent(event.id)] EXCEPT !.children = C] \in Room
    BY <2>1 DEF Room
  <2>3. mem[Parent(event.id)].children \subseteq Rooms
    BY <2>1 DEF Room
  <2> DEFINE C == IF event.status = "added"
                  THEN mem[Parent(event.id)].children \cup {Child(event.id)}
                  ELSE mem[Parent(event.id)].children \ {Child(event.id)}
  <2>4. C \subseteq Rooms
    BY <2>3, <1>4
  <2>5. mem' = [mem EXCEPT ![Parent(event.id)] = [mem[Parent(event.id)] EXCEPT !.children = C]]
    BY DEF HandleSpaceEvent
  <2> HIDE DEF C, event
  <2> QED BY <2>2, <2>4, <2>5, <1>1, <1>4
<1>6. UNCHANGED <<history, rooms, db, children, nextBatch, pc, upto, todo, room, txn,
        pending, updated, deferred, aborted, replayed, skipped, failures>>
  BY DEF HandleSpaceEvent, cacheVars, txnVars, ghostVars
<1>7. TypeOK'
  BY <1>2, <1>5, <1>6 DEF TypeInv, TypeOK
<1>8. HistoryOK' /\ DeferredOK'
  BY <1>3, <1>6 DEF TypeInv, HistoryOK, DeferredOK, IsSpaceEvent
<1> QED BY <1>7, <1>8 DEF TypeInv

(* The actions that leave the server and the deferred events alone.        *)
LEMMA TypeRest ==
  ASSUME TypeInv, UNCHANGED <<history, deferred, spaceEvents>>, TypeOK'
  PROVE  TypeInv'
BY DEF TypeInv, HistoryOK, DeferredOK, IsSpaceEvent

LEMMA OneMore ==
  ASSUME TypeInv, failures < MaxFailures
  PROVE  failures + 1 \in 0 .. MaxFailures
<1>1. failures \in 0 .. MaxFailures /\ MaxFailures \in Nat
  BY SyncAssumption DEF TypeInv, TypeOK
<1> QED BY <1>1

LEMMA TypeStep ==
  ASSUME TypeInv, [Next]_vars
  PROVE  TypeInv'
<1> USE DEF cacheVars, txnVars, dataVars, ghostVars
<1>1. CASE Server
  BY <1>1, TypeServer
<1>2. CASE PopulateFromCache
  <2>1. mem' \in [Rooms -> Room]
    BY <1>2, PopulateRoomType DEF PopulateFromCache
  <2>2. TypeOK'
    BY <1>2, <2>1 DEF PopulateFromCache, TypeInv, TypeOK
  <2> QED BY <1>2, <2>2, TypeRest DEF PopulateFromCache
<1>3. CASE SyncResponse
  <2>1. Len(history) \in 0 .. Len(history)
    <3>1. Len(history) \in Nat
      BY Lengths DEF TypeInv, TypeOK
    <3> QED BY <3>1
  <2>2. TypeOK'
    BY <1>3, <2>1 DEF SyncResponse, TypeInv, TypeOK
  <2> QED BY <1>3, <2>2, TypeRest DEF SyncResponse
<1>4. ASSUME NEW r \in Rooms, BeginRoom(r) PROVE TypeInv'
  <2>1. /\ pending' \in [state : SUBSET DOMAIN history, timeline : SUBSET DOMAIN history]
        /\ db[r] \in RoomDb /\ r # NoRoom
    BY <1>4, TimelineType, SyncAssumption DEF BeginRoom, TypeInv, TypeOK
  <2>2. mem' \in [Rooms -> Room]
    BY <1>4 DEF BeginRoom, TypeInv, TypeOK, NewRoom, Room
  <2>3. TypeOK'
    BY <1>4, <2>1, <2>2 DEF BeginRoom, TypeInv, TypeOK
  <2> QED BY <1>4, <2>3, TypeRest DEF BeginRoom
<1>5. ASSUME NEW e \in pending.state \cup pending.timeline, SaveEvent(e) PROVE TypeInv'
  BY <1>5, TypeSaveEvent
<1>6. CASE CommitRoom
  <2>1. room \in Rooms /\ txn \in RoomDb /\ EmptyDb \in RoomDb
    BY <1>6, EmptyDbOK DEF CommitRoom, TypeInv, TypeOK
  <2>2. mem' \in [Rooms -> Room]
    <3>1. IsSpace(txn, room) \in BOOLEAN /\ mem \in [Rooms -> Room]
      BY DEF IsSpace, TypeInv, TypeOK
    <3> QED BY <1>6, <2>1, <3>1 DEF CommitRoom, Room
  <2>3. TypeOK'
    BY <1>6, <2>1, <2>2, SyncAssumption DEF CommitRoom, TypeInv, TypeOK
  <2> QED BY <1>6, <2>3, TypeRest DEF CommitRoom
<1>7. CASE ProcessDeferred
  BY <1>7, TypeDeferred
<1>8. CASE SaveNextBatch
  <2>1. TypeOK'
    BY <1>8 DEF SaveNextBatch, TypeInv, TypeOK
  <2> QED BY <1>8, <2>1, TypeRest DEF SaveNextBatch
<1>9. CASE HandleRooms
  <2>1. mem' \in [Rooms -> Room]
    <3>1. mem \in [Rooms -> Room]
      BY DEF TypeInv, TypeOK
    <3>2. \A r \in Rooms : [mem[r] EXCEPT !.known = TRUE] \in Room
      <4> TAKE r \in Rooms
      <4>1. mem[r] \in Room
        BY <3>1
      <4> QED BY <4>1 DEF Room
    <3> QED BY <1>9, <3>1, <3>2 DEF HandleRooms
  <2>2. TypeOK'
    BY <1>9, <2>1 DEF HandleRooms, TypeInv, TypeOK
  <2> QED BY <1>9, <2>2, TypeRest DEF HandleRooms
<1>10. CASE HandleSpaceEvent
  BY <1>10, TypeHandle
<1>11. CASE SyncCbReturns
  <2>1. TypeOK'
    BY <1>11, EmptyTypes DEF SyncCbReturns, TypeInv, TypeOK
  <2> QED BY <1>11, <2>1, TypeRest DEF SyncCbReturns
<1>12. ASSUME NEW r \in Rooms, SkipRoom(r) PROVE TypeInv'
  <2>1. failures' \in 0 .. MaxFailures
    BY <1>12, OneMore DEF SkipRoom
  <2>2. TypeOK'
    BY <1>12, <2>1 DEF SkipRoom, TypeInv, TypeOK
  <2> QED BY <1>12, <2>2, TypeRest DEF SkipRoom
<1>13. CASE PopulateAborts
  BY <1>13, TypeDie DEF PopulateAborts, Abort, TypeInv, TypeOK
<1>14. CASE Crash
  <2>1. failures' \in 0 .. MaxFailures
    BY <1>14, OneMore DEF Crash
  <2> QED BY <1>14, <2>1, TypeDie DEF Crash, TypeInv, TypeOK
<1>15. CASE SyncEnds
  <2>1. TypeOK'
    BY <1>15 DEF SyncEnds, TypeInv, TypeOK
  <2> QED BY <1>15, <2>1, TypeRest DEF SyncEnds
<1>16. CASE Quit
  BY <1>16, TypeDie DEF Quit, TypeInv, TypeOK
<1>17. CASE UNCHANGED vars
  <2>1. TypeOK'
    BY <1>17 DEF vars, TypeInv, TypeOK
  <2> QED BY <1>17, <2>1, TypeRest DEF vars
<1> QED
  BY <1>1, <1>2, <1>3, <1>4, <1>5, <1>6, <1>7, <1>8, <1>9, <1>10, <1>11, <1>12,
     <1>13, <1>14, <1>15, <1>16, <1>17 DEF Next, Client, Process

LEMMA TypeInit == Init => TypeInv
<1> SUFFICES ASSUME Init PROVE TypeInv
  OBVIOUS
<1>1. /\ <<>> \in Seq(Event) /\ Len(<<>>) = 0 /\ DOMAIN <<>> = {}
      /\ <<>> \in Seq(DOMAIN <<>>)
      /\ <<>> \in Seq([status : {"added", "removed"}, id : DOMAIN <<>>])
  BY EmptySeq, NoPositions, Zenon
<1>2. EmptyDb \in RoomDb /\ NewRoom \in Room
  BY EmptyDbOK DEF NewRoom, Room
<1>3. /\ [r \in Rooms |-> EmptyDb] \in [Rooms -> RoomDb]
      /\ [r \in Rooms |-> NewRoom] \in [Rooms -> Room]
  BY <1>2
<1>4. 0 \in 0 .. Len(<<>>) /\ Len(<<>>) <= MaxEvents /\ 0 \in 0 .. MaxFailures
  BY <1>1, SyncAssumption
<1>5. TypeOK
  BY <1>1, <1>2, <1>3, <1>4, SyncAssumption DEF Init, TypeOK
<1> QED BY <1>1, <1>5 DEF Init, TypeInv, HistoryOK, DeferredOK

(* The state has its types in every behaviour: the positions and ids that  *)
(* index the databases are those of the events saved there, next_batch is  *)
(* never ahead of the server, a room's transaction is open exactly while   *)
(* sync_cb takes its events.                                               *)
THEOREM SyncTypes == Spec => []TypeOK
<1>1. TypeInv /\ [Next]_vars => TypeInv'
  BY TypeStep
<1>2. TypeInv => TypeOK
  BY DEF TypeInv
<1> QED BY <1>1, <1>2, TypeInit, PTL DEF Spec

=============================================================================
