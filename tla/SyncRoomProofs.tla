--------------------------- MODULE SyncRoomProofs ---------------------------
(***************************************************************************)
(* Proofs about what is said of a room (module Sync, for every value of    *)
(* its constants): that the messages and children in memory are those of   *)
(* the cache, that the state in the cache is the server's latest, and that *)
(* the space tree follows the events.                                      *)
(***************************************************************************)
EXTENDS SyncOrderProofs, WellFoundedInduction

-----------------------------------------------------------------------------
(* Messages in memory.                                                     *)

Loaded(m) == m.forward \cup m.backward

(* The struct room m shows the messages of the databases d from the oldest *)
(* loaded one on, the forward timeline behind the backward one.            *)
MirrorOK(m, d) ==
  LET message(i) == history[d.order[i]].kind = "message"
      full(i)    == d.content[d.order[i]] = "full"
  IN /\ Loaded(m) \subseteq DOMAIN d.order
     /\ m.redacted \subseteq Loaded(m)
     /\ \A i \in m.forward, j \in m.backward : j < i
     /\ \A i \in Loaded(m) : message(i) /\ (full(i) <=> i \notin m.redacted)
     /\ \A i \in DOMAIN d.order :
          (message(i) /\ full(i) /\ \E j \in Loaded(m) : j <= i) => i \in Loaded(m)

MirrorInv == \A r \in Rooms : MirrorOK(mem[r], Db(r))

LEMMA NewRoomMirrors ==
  ASSUME NEW d
  PROVE  MirrorOK(NewRoom, d)
BY DEF MirrorOK, Loaded, NewRoom

(* MirrorOK looks at the timelines and at the redactions only.             *)
LEMMA MirrorSame ==
  ASSUME NEW m, NEW d, MirrorOK(m, d), NEW n, NEW c,
         n.forward = m.forward, n.backward = m.backward, n.redacted = m.redacted,
         c.order = d.order, c.content = d.content
  PROVE  MirrorOK(n, c)
BY DEF MirrorOK, Loaded

(* The databases of a room, the open transaction included.                 *)
LEMMA DbFacts ==
  ASSUME ReplayedInv, NEW r \in Rooms
  PROVE  /\ Db(r) \in RoomDb /\ IsIndexed(Db(r))
         /\ DOMAIN Db(r).order = 1 .. Len(Db(r).order) /\ Len(Db(r).order) \in Nat
         /\ Saved(Db(r)) \subseteq DOMAIN history
         /\ \A i \in DOMAIN Db(r).order : Db(r).order[i] \in Saved(Db(r))
<1>1. Db(r) \in RoomDb /\ IsIndexed(Db(r)) /\ Saved(Db(r)) \subseteq DOMAIN history
  BY SavedHistory DEF ReplayedInv, IndexedInv, TypeInv, TypeOK, Db
<1>2. /\ DOMAIN Db(r).order = 1 .. Len(Db(r).order) /\ Len(Db(r).order) \in Nat
      /\ \A i \in 1 .. Len(Db(r).order) : Db(r).order[i] \in Ids
  BY <1>1, Lengths DEF RoomDb
<1>3. \A i \in 1 .. Len(Db(r).order) : Db(r).order[i] \in Saved(Db(r))
  BY <1>1, <1>2 DEF IsIndexed, NotFound
<1> QED BY <1>1, <1>2, <1>3

(* room_bsearch finds what is loaded, and nothing else.                    *)
LEMMA FoundIsLoaded ==
  ASSUME NEW m, NEW d, MirrorOK(m, d), DOMAIN d.order \subseteq Nat, NEW i
  PROVE  Found(m, i) <=> i \in Loaded(m)
<1>1. Loaded(m) \subseteq Nat /\ \A j \in m.forward, k \in m.backward : k < j
  BY DEF MirrorOK
<1>2. ASSUME i \in m.forward PROVE Found(m, i)
  BY <1>1, <1>2 DEF Found, Loaded
<1>3. ASSUME i \in m.backward PROVE Found(m, i)
  BY <1>1, <1>3 DEF Found, Loaded
<1>4. Found(m, i) => i \in Loaded(m)
  BY DEF Found, Loaded
<1> QED BY <1>2, <1>3, <1>4 DEF Loaded

(* A new event goes behind the others; if it is a message, it is loaded.   *)
LEMMA MirrorNewEvent ==
  ASSUME NEW m, NEW d \in RoomDb, MirrorOK(m, d), IsIndexed(d),
         NEW e \in Ids, e \notin Saved(d), NEW n,
         n.backward = m.backward, n.redacted = m.redacted,
         n.forward = IF history[e].kind = "message" THEN m.forward \cup {Len(d.order) + 1}
                     ELSE m.forward
  PROVE  MirrorOK(n, SaveJson(d, e))
<1> DEFINE c   == SaveJson(d, e)
           len == Len(d.order)
<1>1. /\ d.order \in Seq(Ids) /\ len \in Nat /\ DOMAIN d.order = 1 .. len
      /\ \A i \in 1 .. len : d.order[i] \in Ids
  BY Lengths DEF RoomDb
<1>2. /\ c.order = Append(d.order, e) /\ c.order \in Seq(Ids)
      /\ c.content = [d.content EXCEPT ![e] = "full"] /\ d.content \in [Ids -> Contents]
  BY SaveJsonFields DEF RoomDb
<1> HIDE DEF c, len
<1>3. /\ Len(c.order) = len + 1 /\ c.order[len + 1] = e
      /\ \A i \in 1 .. len : c.order[i] = d.order[i]
  BY <1>1, <1>2, AppendProperties DEF len
<1>4. DOMAIN c.order = 1 .. len + 1
  BY <1>2, <1>3, Lengths
<1>5. \A i \in 1 .. len : d.order[i] # e
  BY <1>1 DEF IsIndexed, NotFound
<1>6. \A i \in 1 .. len : c.order[i] = d.order[i] /\ c.content[c.order[i]] = d.content[d.order[i]]
  BY <1>1, <1>2, <1>3, <1>5
<1>7. c.content[c.order[len + 1]] = "full"
  BY <1>2, <1>3
<1>8. /\ Loaded(m) \subseteq 1 .. len /\ m.redacted \subseteq Loaded(m)
      /\ \A i \in m.forward, j \in m.backward : j < i
  BY <1>1 DEF MirrorOK
<1>9. Loaded(n) = IF history[e].kind = "message" THEN Loaded(m) \cup {len + 1} ELSE Loaded(m)
  BY DEF Loaded, len
<1>10. Loaded(n) \subseteq DOMAIN c.order /\ n.redacted \subseteq Loaded(n)
  BY <1>1, <1>4, <1>8, <1>9
<1>11. \A i \in n.forward, j \in n.backward : j < i
  <2> SUFFICES ASSUME NEW i \in n.forward, NEW j \in m.backward PROVE j < i
    OBVIOUS
  <2>1. j \in 1 .. len
    BY <1>8 DEF Loaded
  <2> QED BY <1>1, <1>8, <2>1 DEF len
<1>12. ASSUME NEW i \in Loaded(n)
       PROVE  /\ history[c.order[i]].kind = "message"
              /\ c.content[c.order[i]] = "full" <=> i \notin n.redacted
  <2>1. CASE i = len + 1
    <3>1. i \notin Loaded(m) /\ i \notin m.redacted
      BY <1>1, <1>8, <2>1 DEF len
    <3>2. history[e].kind = "message"
      BY <1>9, <1>12, <3>1
    <3> QED BY <1>3, <1>7, <2>1, <3>1, <3>2
  <2>2. CASE i \in Loaded(m)
    BY <1>6, <1>8, <2>2 DEF MirrorOK
  <2> QED BY <1>9, <1>12, <2>1, <2>2
<1>13. ASSUME NEW i \in DOMAIN c.order, history[c.order[i]].kind = "message",
              c.content[c.order[i]] = "full", NEW j \in Loaded(n), j <= i
       PROVE  i \in Loaded(n)
  <2>1. CASE i = len + 1
    BY <1>3, <1>9, <1>13, <2>1
  <2>2. CASE i \in 1 .. len
    <3>1. j \in Loaded(m)
      BY <1>1, <1>9, <1>13, <2>2
    <3>2. i \in Loaded(m)
      BY <1>1, <1>6, <1>13, <2>2, <3>1 DEF MirrorOK
    <3> QED BY <1>9, <3>2
  <2> QED BY <1>1, <1>4, <2>1, <2>2
<1> QED BY <1>10, <1>11, <1>12, <1>13 DEF MirrorOK, c

(* A redaction marks the message in memory if it is loaded.                *)
LEMMA MirrorRedaction ==
  ASSUME NEW m, NEW d \in RoomDb, MirrorOK(m, d), IsIndexed(d),
         NEW t \in Saved(d), NEW n,
         n.forward = m.forward, n.backward = m.backward,
         n.redacted = IF d.index[t] \in Loaded(m) THEN m.redacted \cup {d.index[t]}
                      ELSE m.redacted
  PROVE  MirrorOK(n, ClearContent(d, t))
<1> DEFINE c == ClearContent(d, t)
<1>1. /\ c.order = d.order /\ c.content = [d.content EXCEPT ![t] = "cleared"]
      /\ d.content \in [Ids -> Contents] /\ t \in Ids
      /\ DOMAIN d.order = 1 .. Len(d.order)
      /\ \A i \in 1 .. Len(d.order) : d.order[i] \in Ids
  BY ClearContentFields, Lengths DEF RoomDb, Saved
<1> HIDE DEF c
<1>2. \A i \in DOMAIN d.order : d.order[i] = t <=> i = d.index[t]
  BY <1>1 DEF IsIndexed
<1>3. c.content[t] = "cleared" /\ \A f \in Ids : f # t => c.content[f] = d.content[f]
  BY <1>1
<1>4. Loaded(n) = Loaded(m) /\ Loaded(m) \subseteq DOMAIN d.order
  BY DEF Loaded, MirrorOK
<1>5. n.redacted \subseteq Loaded(n) /\ \A i \in n.forward, j \in n.backward : j < i
  BY <1>4 DEF MirrorOK
<1>6. ASSUME NEW i \in Loaded(n)
      PROVE  /\ history[c.order[i]].kind = "message"
             /\ c.content[c.order[i]] = "full" <=> i \notin n.redacted
  <2>1. history[d.order[i]].kind = "message" /\ (d.content[d.order[i]] = "full" <=> i \notin m.redacted)
    BY <1>4, <1>6 DEF MirrorOK
  <2>2. CASE i = d.index[t]
    BY <1>1, <1>2, <1>3, <1>4, <1>6, <2>1, <2>2
  <2>3. CASE i # d.index[t]
    BY <1>1, <1>2, <1>3, <1>4, <1>6, <2>1, <2>3
  <2> QED BY <2>2, <2>3
<1>7. ASSUME NEW i \in DOMAIN c.order, history[c.order[i]].kind = "message",
             c.content[c.order[i]] = "full", NEW j \in Loaded(n), j <= i
      PROVE  i \in Loaded(n)
  <2>1. d.content[d.order[i]] = "full" /\ history[d.order[i]].kind = "message"
    BY <1>1, <1>3, <1>7
  <2> QED BY <1>1, <1>4, <1>7, <2>1 DEF MirrorOK
<1> QED BY <1>1, <1>4, <1>5, <1>6, <1>7 DEF MirrorOK, c

(* What boot loads reaches from the last fetched messages to the end.      *)
LEMMA PopulateMirrors ==
  ASSUME ReplayedInv, NEW r \in Rooms, Db(r) = db[r]
  PROVE  MirrorOK(PopulateRoom(r), db[r])
<1> DEFINE d == db[r]
           m == PopulateRoom(r)
           F == Fetched(d)
           Last == LastFetched(d)
           message(i) == history[d.order[i]].kind = "message"
<1>1. DOMAIN d.order = 1 .. Len(d.order) /\ Len(d.order) \in Nat
  BY DbFacts
<1>2. F \subseteq 1 .. Len(d.order) /\ Last \subseteq F
  BY <1>1 DEF Fetched, LastFetched
<1>3. \A i \in 1 .. Len(d.order) :
        message(i) => (i \in F <=> d.content[d.order[i]] = "full")
  BY <1>1 DEF Fetched
<1>4. ASSUME NEW j \in Last, NEW i \in F, j <= i PROVE i \in Last
  <2> DEFINE I == {k \in F : k > i}
             J == {k \in F : k > j}
  <2>1. i \in Nat /\ j \in Nat /\ F \subseteq Nat
    BY <1>2
  <2>2. I \subseteq J /\ J \subseteq 1 .. Len(d.order)
    BY <1>2, <1>4, <2>1
  <2>3. IsFiniteSet(J)
    <3>1. IsFiniteSet(1 .. Len(d.order))
      BY <1>1, FS_Interval
    <3> QED BY <2>2, <3>1, FS_Subset
  <2>4. IsFiniteSet(I) /\ Cardinality(I) <= Cardinality(J)
    BY <2>2, <2>3, FS_Subset
  <2>5. Cardinality(I) \in Nat /\ Cardinality(J) \in Nat
    BY <2>3, <2>4, FS_CardinalityType
  <2>6. Cardinality(J) < NumPaginate
    BY DEF LastFetched
  <2>7. Cardinality(I) < NumPaginate
    BY <2>4, <2>5, <2>6, SyncAssumption
  <2> QED BY <1>4, <2>7 DEF LastFetched
<1>5. /\ Loaded(m) = {i \in Last : message(i)} /\ m.redacted = {}
      /\ m.forward = {} /\ m.backward = Loaded(m)
  BY DEF PopulateRoom, Loaded
<1> HIDE DEF F, Last, m
<1>6. \A i \in Loaded(m) : message(i) /\ (d.content[d.order[i]] = "full" <=> i \notin m.redacted)
  BY <1>2, <1>3, <1>5
<1>7. ASSUME NEW i \in DOMAIN d.order, message(i), d.content[d.order[i]] = "full",
             NEW j \in Loaded(m), j <= i
      PROVE  i \in Loaded(m)
  BY <1>1, <1>3, <1>4, <1>5, <1>7
<1>8. Loaded(m) \subseteq DOMAIN d.order /\ m.redacted \subseteq Loaded(m)
      /\ \A i \in m.forward, j \in m.backward : j < i
  BY <1>1, <1>2, <1>5
<1> HIDE DEF d
<1>9. MirrorOK(m, d)
  BY <1>6, <1>7, <1>8 DEF MirrorOK
<1> QED BY <1>9 DEF m, d

(* The message that a step of sync_cb saves or redacts is saved or         *)
(* redacted in memory.                                                     *)
LEMMA MirrorTake ==
  ASSUME ReplayedInv, MirrorInv, NEW e \in pending.state \cup pending.timeline,
         SaveEvent(e), ~SaveRedactionAborts(e)
  PROVE  MirrorOK(mem'[room], txn')
<1> DEFINE m == mem[room]
<1>1. /\ TypeInv /\ BatchInv /\ e \in DOMAIN history /\ e \in Ids /\ Take(e)
      /\ txn \in RoomDb /\ IsIndexed(txn)
  BY TakeStep, EventTypes DEF ReplayedInv, IndexedInv, TypeInv, TypeOK
<1>2. pc = "events" /\ room \in Rooms /\ mem \in [Rooms -> Room]
  BY <1>1, SyncAssumption DEF Take, IsNext, TypeInv, TypeOK
<1>3. MirrorOK(m, txn)
  BY <1>2 DEF MirrorInv, Db
<1>4. CASE IgnoreEvent(e)
  BY <1>3, <1>4 DEF IgnoreEvent
<1>5. CASE ~IgnoreEvent(e)
  <2>1. ~Duplicate(e)
    BY <1>5 DEF SaveEvent, SaveState, DeferSpaceEvent, SaveOther, SaveMessage,
                SaveRedaction
  <2>2. ASSUME NEW n, n.backward = m.backward, n.redacted = m.redacted,
               n.forward = IF InTimeline(e) /\ history[e].kind = "message"
                           THEN m.forward \cup {Len(txn.order) + 1} ELSE m.forward
        PROVE  MirrorOK(n, WithJson(e))
    <3>1. CASE InTimeline(e)
      <4>1. e \notin Saved(txn)
        BY <2>1, <3>1 DEF Duplicate, Saved
      <4> QED BY <1>1, <1>3, <2>2, <3>1, <4>1, MirrorNewEvent DEF WithJson
    <3>2. CASE ~InTimeline(e)
      BY <1>3, <2>2, <3>2, MirrorSame DEF WithJson
    <3> QED BY <3>1, <3>2
  <2>3. IsState(e) \/ InTimeline(e)
    BY <1>1 DEF BatchInv, InTimeline
  <2>4. CASE SaveState(e) \/ DeferSpaceEvent(e)
    <3>1. mem' = mem /\ history[e].kind # "message"
          /\ txn' = PutState(WithJson(e), Slot(e), e)
      BY <2>4 DEF SaveState, DeferSpaceEvent
    <3>2. MirrorOK(m, WithJson(e)) /\ WithJson(e) \in RoomDb
      BY <1>1, <2>2, <3>1, WithJsonType
    <3>3. txn'.order = WithJson(e).order /\ txn'.content = WithJson(e).content
      BY <1>1, <3>1, <3>2, PutStateFields
    <3> QED BY <3>1, <3>2, <3>3, MirrorSame
  <2>5. CASE SaveOther(e)
    <3>1. mem' = mem /\ history[e].kind # "message" /\ txn' = WithJson(e)
      BY <2>5 DEF SaveOther
    <3> QED BY <2>2, <3>1
  <2>6. CASE SaveMessage(e)
    <3>1. /\ mem' = [mem EXCEPT ![room].forward = @ \cup {WithJson(e).index[e]}]
          /\ txn' = WithJson(e) /\ history[e].kind = "message"
      BY <2>6 DEF SaveMessage
    <3>2. InTimeline(e)
      BY <2>3, <3>1 DEF IsState
    <3>3. WithJson(e).index[e] = Len(txn.order) + 1
      <4>1. WithJson(e).index = [txn.index EXCEPT ![e] = Len(txn.order) + 1]
        BY <1>1, <3>2, SaveJsonFields DEF WithJson
      <4> QED BY <1>1, <4>1 DEF RoomDb
    <3>4. /\ mem'[room].forward = m.forward \cup {Len(txn.order) + 1}
          /\ mem'[room].backward = m.backward /\ mem'[room].redacted = m.redacted
      BY <1>2, <3>1, <3>3 DEF Room
    <3> QED BY <2>2, <3>1, <3>2, <3>4
  <2>7. CASE SaveRedaction(e)
    <3> DEFINE target == history[e].target
               index  == WithJson(e).index[target]
    <3>1. /\ history[e].kind = "redaction"
          /\ txn' = IF index = NotFound THEN WithJson(e) ELSE ClearContent(WithJson(e), target)
          /\ mem' = IF index # NotFound /\ Found(m, index)
                    THEN [mem EXCEPT ![room].redacted = @ \cup {index}] ELSE mem
      BY <2>7 DEF SaveRedaction
    <3>2. MirrorOK(m, WithJson(e))
      BY <2>2, <3>1
    <3>3. /\ IsIndexed(WithJson(e)) /\ WithJson(e) \in RoomDb
          /\ DOMAIN WithJson(e).order \subseteq Nat
      <4>1. IsIndexed(WithJson(e)) /\ WithJson(e) \in RoomDb
        BY <1>1, <2>1, TakeIndexed, WithJsonType
      <4>2. WithJson(e).order \in Seq(Ids)
        BY <4>1 DEF RoomDb
      <4>3. DOMAIN WithJson(e).order = 1 .. Len(WithJson(e).order)
        BY <4>2, Lengths
      <4> QED BY <4>1, <4>3
    <3>4. CASE index = NotFound
      BY <3>1, <3>2, <3>4
    <3>5. CASE index # NotFound
      <4>1. target \in Saved(WithJson(e))
        <5>1. target \in 1 .. e - 1
          BY <1>1, <3>1 DEF TypeInv, HistoryOK
        <5>2. target \in Ids
          BY <1>1, <5>1, SyncAssumption DEF Ids
        <5> QED BY <3>3, <3>5, <5>2 DEF IsIndexed
      <4>2. Found(m, index) <=> index \in Loaded(m)
        BY <3>2, <3>3, FoundIsLoaded
      <4>3. /\ mem'[room].forward = m.forward /\ mem'[room].backward = m.backward
            /\ mem'[room].redacted = IF index \in Loaded(m) THEN m.redacted \cup {index}
                                     ELSE m.redacted
        <5> HIDE DEF index
        <5>1. CASE index \in Loaded(m)
          BY <1>2, <3>1, <3>5, <4>2, <5>1 DEF Room
        <5>2. CASE index \notin Loaded(m)
          BY <3>1, <3>5, <4>2, <5>2
        <5> QED BY <5>1, <5>2
      <4>4. txn' = ClearContent(WithJson(e), target)
        BY <3>1, <3>5
      <4> HIDE DEF target, m
      <4> QED BY <3>2, <3>3, <4>1, <4>3, <4>4, MirrorRedaction
    <3> QED BY <3>4, <3>5
  <2> QED
    BY <1>5, <2>4, <2>5, <2>6, <2>7 DEF SaveEvent
<1> QED BY <1>4, <1>5

LEMMA ServerKeepsEvents ==
  ASSUME TypeInv, Server
  PROVE  \A e \in DOMAIN history : e \in DOMAIN history' /\ history'[e] = history[e]
<1>1. DOMAIN history = 1 .. Len(history) /\ Len(history) \in Nat
  BY HistoryType
<1>2. PICK event \in Event :
        /\ history' \in Seq(Event) /\ Len(history') = Len(history) + 1
        /\ \A e \in 1 .. Len(history) : history'[e] = history[e]
  BY HistoryGrows
<1>3. DOMAIN history' = 1 .. Len(history) + 1
  BY <1>2, Lengths
<1> QED BY <1>1, <1>2, <1>3

LEMMA MirrorStep ==
  ASSUME ReplayedInv, MirrorInv, [Next]_vars
  PROVE  MirrorInv'
<1> USE DEF cacheVars, txnVars, dataVars, ghostVars
<1>0. TypeInv /\ BatchInv /\ db \in [Rooms -> RoomDb] /\ mem \in [Rooms -> Room]
  BY DEF ReplayedInv, TypeInv, TypeOK
<1> SUFFICES ASSUME NEW r \in Rooms PROVE MirrorOK(mem[r], Db(r))'
  BY DEF MirrorInv
<1>1. MirrorOK(mem[r], Db(r)) /\ r # NoRoom
  BY SyncAssumption DEF MirrorInv
<1>2. ASSUME history' = history, Db(r)' = Db(r),
             \/ mem'[r] = NewRoom
             \/ /\ mem'[r].forward = mem[r].forward
                /\ mem'[r].backward = mem[r].backward
                /\ mem'[r].redacted = mem[r].redacted
      PROVE  MirrorOK(mem[r], Db(r))'
  <2>1. MirrorOK(mem'[r], Db(r)')
    BY <1>1, <1>2, NewRoomMirrors, MirrorSame
  <2> QED BY <1>2, <2>1 DEF MirrorOK
<1>3. CASE Server
  <2>1. \A e \in DOMAIN history : history'[e] = history[e]
    BY <1>0, <1>3, ServerKeepsEvents
  <2>2. \A i \in DOMAIN Db(r).order : history'[Db(r).order[i]] = history[Db(r).order[i]]
    BY <2>1, DbFacts
  <2>3. Db(r)' = Db(r) /\ mem' = mem
    BY <1>3, ServerUnchanged DEF Db
  <2> QED BY <1>1, <2>2, <2>3 DEF MirrorOK
<1>4. CASE PopulateFromCache
  <2>1. /\ UNCHANGED <<history, db, room, txn>> /\ pc = "down"
        /\ mem'[r] = PopulateRoom(r)
    BY <1>4 DEF PopulateFromCache
  <2>2. Db(r) = db[r] /\ Db(r)' = db[r]
    BY <1>0, <1>1, <2>1 DEF Db, TypeInv, TypeOK
  <2>3. MirrorOK(PopulateRoom(r), db[r])
    BY <2>2, PopulateMirrors
  <2> QED BY <2>1, <2>2, <2>3 DEF MirrorOK
<1>5. ASSUME NEW s \in Rooms, BeginRoom(s) PROVE MirrorOK(mem[r], Db(r))'
  <2>1. /\ UNCHANGED <<history, db>> /\ pc = "rooms" /\ room' = s /\ txn' = db[s]
        /\ mem'[r] = mem[r] \/ mem'[r] = NewRoom
    BY <1>0, <1>5 DEF BeginRoom
  <2>2. Db(r)' = Db(r)
    BY <1>0, <1>1, <2>1 DEF Db, TypeInv, TypeOK
  <2> QED BY <1>2, <2>1, <2>2
<1>6. ASSUME Die PROVE MirrorOK(mem[r], Db(r))'
  <2>1. history' = history /\ mem'[r] = NewRoom
    BY <1>6 DEF Die
  <2> QED BY <2>1, NewRoomMirrors DEF MirrorOK
<1>7. ASSUME NEW e \in pending.state \cup pending.timeline, SaveEvent(e)
      PROVE  MirrorOK(mem[r], Db(r))'
  <2>1. CASE SaveRedactionAborts(e)
    BY <1>6, <2>1 DEF SaveRedactionAborts, Abort
  <2>2. CASE ~SaveRedactionAborts(e)
    <3>1. Take(e)
      BY <1>0, <1>7, <2>2, TakeStep
    <3>2. UNCHANGED <<history, db, room>>
      BY <3>1 DEF Take
    <3>3. CASE r = room
      <4>1. MirrorOK(mem'[room], txn')
        BY <1>7, <2>2, MirrorTake
      <4> QED BY <3>2, <3>3, <4>1 DEF MirrorOK, Db
    <3>4. CASE r # room
      <4>1. mem'[r] = mem[r]
        BY <1>0, <1>7, <2>2, <3>4 DEF SaveEvent, IgnoreEvent, SaveState,
           DeferSpaceEvent, SaveOther, SaveMessage, SaveRedaction
      <4>2. Db(r)' = Db(r)
        BY <3>2, <3>4 DEF Db
      <4> QED BY <1>2, <3>2, <4>1, <4>2
    <3> QED BY <3>3, <3>4
  <2> QED BY <2>1, <2>2
<1>8. CASE CommitRoom
  <2>1. /\ db' = [db EXCEPT ![room] = txn] /\ room' = NoRoom /\ history' = history
        /\ mem' = mem \/ mem' = [mem EXCEPT ![room].space = IsSpace(txn, room)]
    BY <1>8 DEF CommitRoom
  <2>2. Db(r)' = Db(r)
    BY <1>0, <1>1, <2>1 DEF Db
  <2>3. /\ mem'[r].forward = mem[r].forward /\ mem'[r].backward = mem[r].backward
        /\ mem'[r].redacted = mem[r].redacted
    BY <1>0, <2>1 DEF Room
  <2> QED BY <1>2, <2>1, <2>2, <2>3
<1>9. CASE HandleRooms
  BY <1>0, <1>2, <1>9 DEF HandleRooms, Room, Db
<1>10. CASE HandleSpaceEvent
  <2>1. /\ UNCHANGED <<history, db, room, txn>>
        /\ mem'[r].forward = mem[r].forward /\ mem'[r].backward = mem[r].backward
        /\ mem'[r].redacted = mem[r].redacted
    BY <1>0, <1>10 DEF HandleSpaceEvent, Room
  <2> QED BY <1>2, <2>1 DEF Db
<1>11. CASE SyncResponse \/ ProcessDeferred \/ SaveNextBatch \/ SyncCbReturns
              \/ SyncEnds \/ UNCHANGED vars \/ \E s \in Rooms : SkipRoom(s)
  <2>1. UNCHANGED <<history, db, room, txn, mem>>
    BY <1>11 DEF SyncResponse, ProcessDeferred, SaveNextBatch, SyncCbReturns, SyncEnds,
                  vars, SkipRoom
  <2> QED BY <1>2, <2>1 DEF Db
<1>12. CASE PopulateAborts \/ Crash \/ Quit
  BY <1>6, <1>12 DEF PopulateAborts, Abort, Crash, Quit
<1> QED
  BY <1>3, <1>4, <1>5, <1>7, <1>8, <1>9, <1>10, <1>11, <1>12 DEF Next, Client, Process

LEMMA MirrorInit == Init => MirrorInv
<1> SUFFICES ASSUME Init PROVE MirrorInv
  OBVIOUS
<1>1. \A r \in Rooms : mem[r] = NewRoom
  BY DEF Init
<1> QED BY <1>1, NewRoomMirrors DEF MirrorInv

(* What the user can read of a room is what the cache has of it, from the  *)
(* oldest loaded message on: no message is lost, doubled or left readable  *)
(* after its redaction, whatever crashed and was replayed.                 *)
THEOREM MemoryIsCache == Spec => []MemoryMirrorsCache
<1>1. MirrorInv => MemoryMirrorsCache
  BY DEF MirrorInv, MirrorOK, Loaded, MemoryMirrorsCache
<1>2. ReplayedInv /\ MirrorInv /\ [Next]_vars => MirrorInv'
  BY MirrorStep
<1> QED BY <1>1, <1>2, MirrorInit, ReplayedInit, ReplayedStep, PTL DEF Spec

(* The assertions of room_put_message_event hold and room_bsearch finds    *)
(* every message of the timelines: a message that sync_cb saves is behind  *)
(* all that are loaded, in whichever order rooms and replays come.         *)
THEOREM TimelinesStaySorted == Spec => []TimelinesAreSorted
<1>1. ReplayedInv /\ MirrorInv => TimelinesAreSorted
  <2> SUFFICES ASSUME ReplayedInv, MirrorInv PROVE TimelinesAreSorted
    OBVIOUS
  <2>1. \A r \in Rooms : /\ MirrorOK(mem[r], Db(r)) /\ DOMAIN Db(r).order \subseteq Nat
                         /\ DOMAIN Db(r).order = 1 .. Len(Db(r).order)
                         /\ Len(Db(r).order) \in Nat /\ Db(r) \in RoomDb
    BY DbFacts DEF MirrorInv
  <2>2. \A r \in Rooms : \A i \in mem[r].forward \cup mem[r].backward : Found(mem[r], i)
    BY <2>1, FoundIsLoaded DEF Loaded
  <2>3. ASSUME NEW e \in pending.state \cup pending.timeline,
               IsNext(e), ~Duplicate(e), history[e].kind = "message"
        PROVE  LET index == WithJson(e).index[e] IN
               ~Found(mem[room], index) /\ \A i \in mem[room].forward : i < index
    <3>1. e \in Ids /\ room \in Rooms /\ InTimeline(e)
      <4>1. TypeInv /\ BatchInv
        BY DEF ReplayedInv
      <4>2. ~IsState(e)
        BY <2>3 DEF IsState
      <4> QED BY <2>3, <4>1, <4>2, EventTypes, SyncAssumption
              DEF BatchInv, IsNext, InTimeline, TypeInv, TypeOK
    <3>2. Db(room) = txn /\ txn \in RoomDb
      BY <2>1, <3>1 DEF Db
    <3>3. WithJson(e).index[e] = Len(txn.order) + 1
      <4>1. WithJson(e).index = [txn.index EXCEPT ![e] = Len(txn.order) + 1]
        BY <3>1, <3>2, SaveJsonFields DEF WithJson
      <4> QED BY <3>1, <3>2, <4>1 DEF RoomDb
    <3>4. Loaded(mem[room]) \subseteq 1 .. Len(txn.order) /\ Len(txn.order) \in Nat
      BY <2>1, <3>1, <3>2 DEF MirrorOK
    <3>5. Len(txn.order) + 1 \notin Loaded(mem[room])
      BY <3>4
    <3>6. ~Found(mem[room], Len(txn.order) + 1)
      BY <2>1, <3>1, <3>5, FoundIsLoaded
    <3> QED BY <3>3, <3>4, <3>6 DEF Loaded
  <2> QED BY <2>2, <2>3 DEF TimelinesAreSorted
<1>2. ReplayedInv /\ MirrorInv /\ [Next]_vars => MirrorInv'
  BY MirrorStep
<1> QED BY <1>1, <1>2, MirrorInit, ReplayedInit, ReplayedStep, PTL DEF Spec

-----------------------------------------------------------------------------
(* The rest of a step.                                                     *)

(* What Take does not say of a step that takes an event.                   *)
LEMMA TakeRest ==
  ASSUME TypeInv, NEW e \in pending.state \cup pending.timeline, SaveEvent(e),
         ~SaveRedactionAborts(e)
  PROVE  /\ Take(e) /\ e \in DOMAIN history
         /\ UNCHANGED <<rooms, children, updated, spaceEvents, replayed>>
         /\ deferred' = IF IsSpaceEvent(e) /\ ~Duplicate(e) THEN Append(deferred, e)
                        ELSE deferred
         /\ txn'.state = IF IsState(e) /\ ~Duplicate(e)
                         THEN [txn.state EXCEPT ![Slot(e)] = e] ELSE txn.state
         /\ \A r \in Rooms : /\ mem'[r].known = mem[r].known
                             /\ mem'[r].children = mem[r].children
<1> USE DEF cacheVars, dataVars, ghostVars
<1>1. /\ e \in DOMAIN history /\ e \in Ids /\ Take(e) /\ txn \in RoomDb
      /\ WithJson(e) \in RoomDb /\ WithJson(e).state = txn.state
      /\ mem \in [Rooms -> Room]
  BY TakeStep, EventTypes, WithJsonType, SaveJsonFields DEF TypeInv, TypeOK, WithJson
<1>2. PutState(WithJson(e), Slot(e), e).state = [txn.state EXCEPT ![Slot(e)] = e]
  BY <1>1 DEF PutState, RoomDb
<1>3. CASE IgnoreEvent(e)
  BY <1>1, <1>3 DEF IgnoreEvent
<1>4. CASE SaveState(e)
  BY <1>1, <1>2, <1>4 DEF SaveState, IsState, IsSpaceEvent
<1>5. CASE DeferSpaceEvent(e)
  BY <1>1, <1>2, <1>5 DEF DeferSpaceEvent, IsState, IsSpaceEvent
<1>6. CASE SaveOther(e)
  BY <1>1, <1>6 DEF SaveOther, IsState, IsSpaceEvent
<1>7. CASE SaveMessage(e)
  <2>1. /\ history[e].kind = "message" /\ txn' = WithJson(e)
        /\ mem' = [mem EXCEPT ![room].forward = @ \cup {WithJson(e).index[e]}]
        /\ UNCHANGED <<rooms, children, updated, spaceEvents, replayed, deferred>>
    BY <1>7 DEF SaveMessage
  <2>2. \A r \in Rooms : mem'[r].known = mem[r].known /\ mem'[r].children = mem[r].children
    BY <1>1, <2>1 DEF Room
  <2> QED BY <1>1, <2>1, <2>2 DEF IsState, IsSpaceEvent
<1>8. CASE SaveRedaction(e)
  <2> DEFINE index == WithJson(e).index[history[e].target]
  <2>1. /\ history[e].kind = "redaction"
        /\ txn' = WithJson(e) \/ txn' = ClearContent(WithJson(e), history[e].target)
        /\ mem' = mem \/ mem' = [mem EXCEPT ![room].redacted = @ \cup {index}]
        /\ UNCHANGED <<rooms, children, updated, spaceEvents, replayed, deferred>>
    BY <1>8 DEF SaveRedaction
  <2> HIDE DEF index
  <2>2. \A r \in Rooms : mem'[r].known = mem[r].known /\ mem'[r].children = mem[r].children
    BY <1>1, <2>1 DEF Room
  <2>3. txn'.state = txn.state
    BY <1>1, <2>1 DEF ClearContent, RoomDb
  <2> QED BY <1>1, <2>1, <2>2, <2>3 DEF IsState, IsSpaceEvent
<1> QED
  BY <1>3, <1>4, <1>5, <1>6, <1>7, <1>8 DEF SaveEvent

-----------------------------------------------------------------------------
(* Known rooms.                                                            *)

(* The rooms of the cache are those in memory and those of the batch, each *)
(* of which comes once; nothing is left of a batch when the next begins.   *)
KnownInv ==
  /\ \A r \in Rooms \ rooms : db[r] = EmptyDb
  /\ updated \subseteq rooms
  /\ Busy => updated \cap (todo \cup {room}) = {} /\ room \notin todo
  /\ ~Busy => deferred = <<>>
  /\ pc \in {"down", "idle"} => spaceEvents = <<>> /\ updated = {}
  /\ pc \in {"idle", "handle"} => \A r \in Rooms : mem[r].known <=> r \in rooms
  /\ pc \in {"rooms", "events", "published"} =>
       \A r \in Rooms : r \in rooms <=> (mem[r].known \/ r \in updated)

LEMMA KnownInit == Init => KnownInv
BY DEF Init, KnownInv, Busy

LEMMA KnownStep ==
  ASSUME TypeInv, KnownInv, [Next]_vars
  PROVE  KnownInv'
<1> USE DEF cacheVars, txnVars, dataVars, ghostVars, KnownInv, Busy
<1>0. /\ rooms \subseteq Rooms /\ db \in [Rooms -> RoomDb] /\ mem \in [Rooms -> Room]
      /\ room \in Rooms \cup {NoRoom} /\ NoRoom \notin Rooms /\ todo \subseteq Rooms
      /\ (pc = "events" <=> room # NoRoom) /\ updated \subseteq Rooms
  BY SyncAssumption DEF TypeInv, TypeOK
<1>1. CASE Server \/ UNCHANGED vars
  BY <1>1, ServerUnchanged DEF vars
<1>2. CASE PopulateFromCache
  <2>1. /\ pc = "down" /\ pc' = "idle" /\ \A r \in Rooms : mem'[r].known <=> r \in rooms
        /\ UNCHANGED <<rooms, db, updated, spaceEvents, deferred>>
    BY <1>2 DEF PopulateFromCache, PopulateRoom
  <2> QED BY <2>1
<1>3. CASE SyncResponse
  BY <1>0, <1>3 DEF SyncResponse
<1>4. ASSUME NEW s \in Rooms, BeginRoom(s) PROVE KnownInv'
  <2>1. /\ pc = "rooms" /\ pc' = "events" /\ s \in todo /\ todo' = todo \ {s} /\ room' = s
        /\ UNCHANGED <<rooms, db, updated, spaceEvents, deferred>>
        /\ mem' = IF mem[s].known THEN mem ELSE [mem EXCEPT ![s] = NewRoom]
    BY <1>4 DEF BeginRoom
  <2>2. \A r \in Rooms : mem'[r].known <=> mem[r].known
    BY <1>0, <2>1 DEF NewRoom
  <2> QED BY <2>1, <2>2
<1>5. ASSUME Die PROVE KnownInv'
  BY <1>5 DEF Die
<1>6. ASSUME NEW e \in pending.state \cup pending.timeline, SaveEvent(e) PROVE KnownInv'
  <2>1. CASE SaveRedactionAborts(e)
    BY <1>5, <2>1 DEF SaveRedactionAborts, Abort
  <2>2. CASE ~SaveRedactionAborts(e)
    <3>1. /\ UNCHANGED <<rooms, db, pc, todo, room, updated, spaceEvents>> /\ pc = "events"
          /\ \A r \in Rooms : mem'[r].known = mem[r].known
      BY <1>6, <2>2, TakeRest DEF Take, IsNext
    <3> QED BY <3>1
  <2> QED BY <2>1, <2>2
<1>7. CASE CommitRoom
  <2>1. /\ pc = "events" /\ pc' = "rooms" /\ db' = [db EXCEPT ![room] = txn]
        /\ rooms' = rooms \cup {room} /\ updated' = updated \cup {room}
        /\ room' = NoRoom /\ todo' = todo /\ room \in Rooms
        /\ mem' = mem \/ mem' = [mem EXCEPT ![room].space = IsSpace(txn, room)]
    BY <1>0, <1>7 DEF CommitRoom
  <2>2. \A r \in Rooms : mem'[r].known <=> mem[r].known
    BY <1>0, <2>1 DEF Room
  <2>3. \A r \in Rooms \ rooms' : db'[r] = EmptyDb
    BY <1>0, <2>1
  <2> QED BY <1>0, <2>1, <2>2, <2>3
<1>8. CASE ProcessDeferred \/ SaveNextBatch
  BY <1>8 DEF ProcessDeferred, SaveNextBatch
<1>9. CASE HandleRooms
  <2>1. /\ pc = "published" /\ pc' = "handle" /\ UNCHANGED <<rooms, db, updated, deferred>>
        /\ \A r \in Rooms : mem'[r].known <=> (mem[r].known \/ r \in updated)
    BY <1>0, <1>9 DEF HandleRooms, Room
  <2> QED BY <2>1
<1>10. CASE HandleSpaceEvent
  <2>1. /\ pc = "handle" /\ UNCHANGED <<rooms, db, pc, updated, deferred>>
        /\ \A r \in Rooms : mem'[r].known = mem[r].known
    BY <1>0, <1>10 DEF HandleSpaceEvent, Room
  <2> QED BY <2>1
<1>11. CASE SyncCbReturns \/ SyncEnds
  BY <1>11 DEF SyncCbReturns, SyncEnds
<1>12. ASSUME NEW s \in Rooms, SkipRoom(s) PROVE KnownInv'
  BY <1>12 DEF SkipRoom
<1>13. CASE PopulateAborts \/ Crash \/ Quit
  BY <1>5, <1>13 DEF PopulateAborts, Abort, Crash, Quit
<1> QED
  BY <1>1, <1>2, <1>3, <1>4, <1>6, <1>7, <1>8, <1>9, <1>10, <1>11, <1>12, <1>13
     DEF Next, Client, Process

-----------------------------------------------------------------------------
(* The children of a space.                                                *)

LEMMA HeadTail ==
  ASSUME NEW S, NEW s \in Seq(S), s # <<>>
  PROVE  /\ Len(s) \in Nat \ {0} /\ DOMAIN s = 1 .. Len(s)
         /\ Head(s) \in S /\ Head(s) = s[1]
         /\ Tail(s) \in Seq(S) /\ DOMAIN Tail(s) = 1 .. Len(s) - 1
         /\ \A k \in 1 .. Len(s) - 1 : Tail(s)[k] = s[k + 1]
<1>1. Len(s) \in Nat \ {0}
  BY EmptySeq
<1>2. /\ Head(s) \in S /\ Head(s) = s[1] /\ Tail(s) \in Seq(S)
      /\ Len(Tail(s)) = Len(s) - 1
      /\ \A k \in 1 .. Len(Tail(s)) : Tail(s)[k] = s[k + 1]
  BY HeadTailProperties
<1>3. DOMAIN Tail(s) = 1 .. Len(Tail(s)) /\ DOMAIN s = 1 .. Len(s)
  BY <1>2, Lengths
<1> QED BY <1>1, <1>2, <1>3

LEMMA Appended ==
  ASSUME NEW S, NEW s \in Seq(S), NEW x \in S
  PROVE  /\ Len(s) \in Nat /\ DOMAIN s = 1 .. Len(s)
         /\ DOMAIN Append(s, x) = 1 .. Len(s) + 1
         /\ Append(s, x)[Len(s) + 1] = x
         /\ \A k \in 1 .. Len(s) : Append(s, x)[k] = s[k]
<1>1. /\ Append(s, x) \in Seq(S) /\ Len(Append(s, x)) = Len(s) + 1
      /\ Append(s, x)[Len(s) + 1] = x
      /\ \A k \in 1 .. Len(s) : Append(s, x)[k] = s[k]
  BY AppendProperties
<1>2. Len(s) \in Nat /\ DOMAIN s = 1 .. Len(s)
  BY Lengths
<1>3. DOMAIN Append(s, x) = 1 .. Len(Append(s, x))
  BY <1>1, Lengths
<1> QED BY <1>1, <1>2, <1>3

Pair(e)    == <<Parent(e), Child(e)>>
Change     == [status : {"added", "removed"}, id : DOMAIN history]
Changes(k) == Pair(spaceEvents[k].id)

(* Every space of the cache and of the batch is a room of the cache.       *)
ParentsInv ==
  /\ \A p, c \in Rooms : <<p, c>> \in children => p \in rooms
  /\ \A k \in DOMAIN spaceEvents : Parent(spaceEvents[k].id) \in rooms

(* The last that the batch says of a pair is so in the cache; a pair it    *)
(* does not name is in memory as it is in the cache.                       *)
LastInv ==
  \A k \in DOMAIN spaceEvents :
    (\A j \in DOMAIN spaceEvents : j > k => Changes(j) # Changes(k)) =>
      (spaceEvents[k].status = "added" <=> Changes(k) \in children)
OtherInv ==
  pc # "down" => \A p, c \in Rooms :
    (\A k \in DOMAIN spaceEvents : Changes(k) # <<p, c>>) =>
      (c \in mem[p].children <=> <<p, c>> \in children)

ChildrenInv == ParentsInv /\ LastInv /\ OtherInv

LEMMA ChildrenInit == Init => ChildrenInv
BY NoPositions DEF Init, ChildrenInv, ParentsInv, LastInv, OtherInv

LEMMA ChangeTypes ==
  ASSUME TypeInv
  PROVE  /\ spaceEvents \in Seq(Change) /\ Len(spaceEvents) \in Nat
         /\ DOMAIN spaceEvents = 1 .. Len(spaceEvents)
         /\ \A k \in DOMAIN spaceEvents :
              /\ spaceEvents[k].id \in DOMAIN history
              /\ spaceEvents[k].status \in {"added", "removed"}
              /\ Parent(spaceEvents[k].id) \in Rooms /\ Child(spaceEvents[k].id) \in Rooms
<1>1. spaceEvents \in Seq(Change)
  BY DEF TypeInv, TypeOK, Change
<1>2. /\ Len(spaceEvents) \in Nat /\ DOMAIN spaceEvents = 1 .. Len(spaceEvents)
      /\ \A k \in 1 .. Len(spaceEvents) : spaceEvents[k] \in Change
  BY <1>1, Lengths
<1>3. \A k \in DOMAIN spaceEvents : IsSpaceEvent(spaceEvents[k].id)
  BY DEF TypeInv, DeferredOK
<1> QED BY <1>1, <1>2, <1>3, EventTypes DEF Change

(* The steps that touch no relation.                                       *)
LEMMA ChildrenSame ==
  ASSUME TypeInv, ChildrenInv, \A e \in DOMAIN history : history'[e] = history[e],
         UNCHANGED <<children, spaceEvents>>, rooms \subseteq rooms',
         pc' # "down" => pc # "down",
         \A r \in Rooms : mem'[r].children = mem[r].children
  PROVE  ChildrenInv'
<1>1. \A k \in DOMAIN spaceEvents :
        Changes(k)' = Changes(k) /\ Parent(spaceEvents[k].id)' = Parent(spaceEvents[k].id)
  BY ChangeTypes DEF Changes, Pair, Parent, Child
<1>2. ParentsInv'
  BY <1>1 DEF ChildrenInv, ParentsInv
<1>3. LastInv'
  BY <1>1 DEF ChildrenInv, LastInv
<1>4. OtherInv'
  BY <1>1 DEF ChildrenInv, OtherInv
<1> QED BY <1>2, <1>3, <1>4 DEF ChildrenInv

(* A deferred event whose relation changes names a space of the cache.     *)
LEMMA ChangedParent ==
  ASSUME TypeInv, KnownInv, NEW e \in DOMAIN history, IsSpaceEvent(e),
         RelationAdded(e) \/ RelationRemoved(e)
  PROVE  Parent(e) \in rooms
<1>1. Parent(e) \in Rooms /\ Child(e) \in Rooms
  BY EventTypes
<1>2. <<"state", Create>> \in Slots /\ <<"child", Child(e)>> \in Slots
  BY <1>1 DEF Slots
<1>3. \E slot \in Slots : db[Parent(e)].state[slot] # NotFound
  BY <1>2 DEF RelationAdded, RelationRemoved, IsSpace, ChildEvent, HasVia
<1>4. db[Parent(e)] # EmptyDb
  BY <1>3 DEF EmptyDb
<1> QED BY <1>1, <1>4 DEF KnownInv

LEMMA ChildrenDeferred ==
  ASSUME TypeInv, KnownInv, ChildrenInv, ProcessDeferred
  PROVE  ChildrenInv'
<1> DEFINE e == Head(deferred)
<1>1. /\ deferred \in Seq(DOMAIN history) /\ deferred # <<>> /\ pc' = pc
      /\ UNCHANGED <<history, rooms, mem>>
  BY DEF ProcessDeferred, TypeInv, TypeOK
<1>2. e \in DOMAIN history /\ IsSpaceEvent(e)
  BY <1>1, HeadTail DEF TypeInv, DeferredOK
<1>3. Parent(e) \in Rooms /\ Child(e) \in Rooms
  BY <1>2, EventTypes
<1>4. \/ UNCHANGED <<children, spaceEvents>>
      \/ /\ RelationAdded(e) /\ children' = children \cup {Pair(e)}
         /\ spaceEvents' = Append(spaceEvents, [status |-> "added", id |-> e])
      \/ /\ RelationRemoved(e) /\ children' = children \ {Pair(e)}
         /\ spaceEvents' = Append(spaceEvents, [status |-> "removed", id |-> e])
  BY DEF ProcessDeferred, Pair
<1> HIDE DEF e
<1>5. CASE UNCHANGED <<children, spaceEvents>>
  BY <1>1, <1>5, ChildrenSame
<1>6. ASSUME NEW x \in Change, x.id = e, spaceEvents' = Append(spaceEvents, x),
             \A p, c \in Rooms : <<p, c>> \in children' <=>
               IF <<p, c>> = Pair(e) THEN x.status = "added" ELSE <<p, c>> \in children,
             Parent(e) \in rooms
      PROVE  ChildrenInv'
  <2>0. PICK n \in Nat : n = Len(spaceEvents)
    BY ChangeTypes
  <2>1. /\ n \in Nat /\ DOMAIN spaceEvents = 1 .. n /\ DOMAIN spaceEvents' = 1 .. n + 1
        /\ spaceEvents'[n + 1] = x /\ \A k \in 1 .. n : spaceEvents'[k] = spaceEvents[k]
    BY <1>6, <2>0, ChangeTypes, Appended
  <2>2. /\ Changes(n + 1)' = Pair(e) /\ \A k \in 1 .. n : Changes(k)' = Changes(k)
        /\ Parent(spaceEvents[n + 1].id)' = Parent(e)
        /\ \A k \in 1 .. n : Parent(spaceEvents[k].id)' = Parent(spaceEvents[k].id)
    BY <1>1, <1>6, <2>1 DEF Changes, Pair, Parent, Child
  <2>3. \A k \in 1 .. n : \E p, c \in Rooms : Changes(k) = <<p, c>>
    BY <2>1, ChangeTypes DEF Changes, Pair
  <2>4. ParentsInv'
    <3>1. \A p, c \in Rooms : <<p, c>> \in children' => p \in rooms
      BY <1>6 DEF ChildrenInv, ParentsInv, Pair
    <3>2. \A k \in 1 .. n + 1 : Parent(spaceEvents[k].id)' \in rooms
      <4> TAKE k \in 1 .. n + 1
      <4>1. CASE k = n + 1
        BY <1>6, <2>2, <4>1
      <4>2. CASE k \in 1 .. n
        BY <2>1, <2>2, <4>2 DEF ChildrenInv, ParentsInv
      <4> QED BY <2>1, <4>1, <4>2
    <3> QED BY <1>1, <2>1, <3>1, <3>2 DEF ParentsInv
  <2>5. LastInv'
    <3> SUFFICES ASSUME NEW k \in 1 .. n + 1,
                        \A j \in 1 .. n + 1 : j > k => Changes(j)' # Changes(k)'
                 PROVE  spaceEvents'[k].status = "added" <=> Changes(k)' \in children'
      BY <2>1 DEF LastInv
    <3>1. CASE k = n + 1
      BY <1>3, <1>6, <2>1, <2>2, <3>1 DEF Pair
    <3>2. CASE k \in 1 .. n
      <4>1. Changes(k) # Pair(e)
        BY <2>1, <2>2, <3>2
      <4>2. \A j \in 1 .. n : j > k => Changes(j) # Changes(k)
        BY <2>1, <2>2, <3>2
      <4>3. spaceEvents[k].status = "added" <=> Changes(k) \in children
        BY <2>1, <3>2, <4>2 DEF ChildrenInv, LastInv
      <4> QED BY <1>6, <2>1, <2>2, <2>3, <3>2, <4>1, <4>3
    <3> QED BY <2>1, <3>1, <3>2
  <2>6. OtherInv'
    <3> SUFFICES ASSUME pc # "down", NEW p \in Rooms, NEW c \in Rooms,
                        \A k \in 1 .. n + 1 : Changes(k)' # <<p, c>>
                 PROVE  c \in mem[p].children <=> <<p, c>> \in children'
      BY <1>1, <2>1 DEF OtherInv
    <3>1. <<p, c>> # Pair(e) /\ \A k \in 1 .. n : Changes(k) # <<p, c>>
      BY <2>1, <2>2
    <3> QED BY <1>6, <2>1, <3>1 DEF ChildrenInv, OtherInv
  <2> QED BY <2>4, <2>5, <2>6 DEF ChildrenInv
<1>7. CASE RelationAdded(e) /\ children' = children \cup {Pair(e)}
             /\ spaceEvents' = Append(spaceEvents, [status |-> "added", id |-> e])
  <2>1. [status |-> "added", id |-> e] \in Change /\ Parent(e) \in rooms
    BY <1>2, <1>7, ChangedParent DEF Change
  <2> QED BY <1>6, <1>7, <2>1
<1>8. CASE RelationRemoved(e) /\ children' = children \ {Pair(e)}
             /\ spaceEvents' = Append(spaceEvents, [status |-> "removed", id |-> e])
  <2>1. [status |-> "removed", id |-> e] \in Change /\ Parent(e) \in rooms
    BY <1>2, <1>8, ChangedParent DEF Change
  <2> QED BY <1>6, <1>8, <2>1
<1> QED BY <1>4, <1>5, <1>7, <1>8

LEMMA ChildrenHandle ==
  ASSUME TypeInv, ChildrenInv, HandleSpaceEvent
  PROVE  ChildrenInv'
<1> DEFINE event == Head(spaceEvents)
<1>0. PICK n \in Nat : n = Len(spaceEvents)
  BY ChangeTypes
<1>1. /\ spaceEvents \in Seq(Change) /\ spaceEvents # <<>> /\ pc = "handle" /\ pc' = pc
      /\ UNCHANGED <<history, rooms, children>> /\ spaceEvents' = Tail(spaceEvents)
      /\ mem \in [Rooms -> Room]
  BY ChangeTypes DEF HandleSpaceEvent, cacheVars, TypeInv, TypeOK
<1>2. /\ n \in Nat \ {0} /\ DOMAIN spaceEvents = 1 .. n
      /\ event = spaceEvents[1] /\ DOMAIN spaceEvents' = 1 .. n - 1
      /\ \A k \in 1 .. n - 1 : spaceEvents'[k] = spaceEvents[k + 1]
  BY <1>0, <1>1, HeadTail
<1>3. /\ Parent(event.id) \in Rooms /\ Child(event.id) \in Rooms
      /\ event.status \in {"added", "removed"}
  BY <1>2, ChangeTypes
<1>4. \A k \in 1 .. n - 1 : /\ k + 1 \in 1 .. n /\ Changes(k)' = Changes(k + 1)
                            /\ Parent(spaceEvents[k].id)' = Parent(spaceEvents[k + 1].id)
  BY <1>1, <1>2 DEF Changes, Pair, Parent, Child
<1>5. ASSUME NEW p \in Rooms, NEW c \in Rooms
      PROVE  c \in mem'[p].children <=>
               IF <<p, c>> = Pair(event.id) THEN event.status = "added"
                                            ELSE c \in mem[p].children
  <2>1. mem' = [mem EXCEPT ![Parent(event.id)].children =
               IF event.status = "added" THEN @ \cup {Child(event.id)}
                                         ELSE @ \ {Child(event.id)}]
    BY DEF HandleSpaceEvent
  <2> HIDE DEF event
  <2>2. CASE p = Parent(event.id)
    <3>1. mem[p] \in Room
      BY <1>1
    <3>2. mem'[p].children = IF event.status = "added"
                             THEN mem[p].children \cup {Child(event.id)}
                             ELSE mem[p].children \ {Child(event.id)}
      BY <1>1, <2>1, <2>2, <3>1 DEF Room
    <3> QED BY <2>2, <3>2 DEF Pair
  <2>3. CASE p # Parent(event.id)
    <3>1. mem'[p] = mem[p]
      BY <1>1, <2>1, <2>3
    <3> QED BY <2>3, <3>1 DEF Pair
  <2> QED BY <2>2, <2>3
<1> HIDE DEF event
<1>6. ParentsInv'
  BY <1>1, <1>2, <1>4 DEF ChildrenInv, ParentsInv
<1>7. LastInv'
  <2> SUFFICES ASSUME NEW k \in 1 .. n - 1,
                      \A j \in 1 .. n - 1 : j > k => Changes(j)' # Changes(k)'
               PROVE  spaceEvents'[k].status = "added" <=> Changes(k)' \in children
    BY <1>1, <1>2 DEF LastInv
  <2>1. ASSUME NEW j \in 1 .. n, j > k + 1 PROVE Changes(j) # Changes(k + 1)
    <3>1. j - 1 \in 1 .. n - 1 /\ j - 1 > k /\ (j - 1) + 1 = j
      BY <1>2, <2>1
    <3> QED BY <1>4, <3>1
  <2>2. spaceEvents[k + 1].status = "added" <=> Changes(k + 1) \in children
    BY <1>2, <1>4, <2>1 DEF ChildrenInv, LastInv
  <2> QED BY <1>2, <1>4, <2>2
<1>8. OtherInv'
  <2> SUFFICES ASSUME NEW p \in Rooms, NEW c \in Rooms,
                      \A k \in 1 .. n - 1 : Changes(k)' # <<p, c>>
               PROVE  c \in mem'[p].children <=> <<p, c>> \in children
    BY <1>1, <1>2 DEF OtherInv
  <2>1. \A k \in 1 .. n : k # 1 => Changes(k) # <<p, c>>
    <3> SUFFICES ASSUME NEW k \in 1 .. n, k # 1 PROVE Changes(k) # <<p, c>>
      OBVIOUS
    <3>1. k - 1 \in 1 .. n - 1 /\ (k - 1) + 1 = k
      BY <1>2
    <3> QED BY <1>4, <3>1
  <2>2. Changes(1) = Pair(event.id) /\ 1 \in 1 .. n /\ \A k \in 1 .. n : k > 1 => k # 1
    BY <1>2 DEF Changes
  <2>3. CASE <<p, c>> = Pair(event.id)
    <3>1. event.status = "added" <=> <<p, c>> \in children
      BY <1>2, <2>1, <2>2, <2>3 DEF ChildrenInv, LastInv
    <3> QED BY <1>5, <2>3, <3>1
  <2>4. CASE <<p, c>> # Pair(event.id)
    <3>1. \A k \in 1 .. n : Changes(k) # <<p, c>>
      BY <2>1, <2>2, <2>4
    <3> QED BY <1>1, <1>2, <1>5, <2>4, <3>1 DEF ChildrenInv, OtherInv
  <2> QED BY <2>3, <2>4
<1> QED BY <1>6, <1>7, <1>8 DEF ChildrenInv

LEMMA ChildrenStep ==
  ASSUME TypeInv, KnownInv, ChildrenInv, [Next]_vars
  PROVE  ChildrenInv'
<1> USE DEF cacheVars, txnVars, dataVars, ghostVars
<1>0. mem \in [Rooms -> Room] /\ db \in [Rooms -> RoomDb]
  BY DEF TypeInv, TypeOK
<1>1. CASE Server
  BY <1>1, ServerKeepsEvents, ServerUnchanged, ChildrenSame
<1>2. CASE PopulateFromCache
  <2>1. /\ UNCHANGED <<history, rooms, children, spaceEvents>> /\ spaceEvents = <<>>
        /\ \A r \in Rooms : mem'[r].children = {c \in Rooms : <<r, c>> \in children}
    BY <1>2 DEF PopulateFromCache, PopulateRoom, KnownInv
  <2> QED BY <2>1, NoPositions DEF ChildrenInv, ParentsInv, LastInv, OtherInv
<1>3. ASSUME NEW s \in Rooms, BeginRoom(s) PROVE ChildrenInv'
  <2>1. /\ UNCHANGED <<history, rooms, children, spaceEvents>> /\ pc = "rooms" /\ s \in todo
        /\ mem' = IF mem[s].known THEN mem ELSE [mem EXCEPT ![s] = NewRoom]
    BY <1>3 DEF BeginRoom
  <2>2. CASE mem[s].known
    BY <2>1, <2>2, ChildrenSame
  <2>3. CASE ~mem[s].known
    <3>1. s \notin rooms
      BY <2>1, <2>3 DEF KnownInv, Busy
    <3>2. \A p, c \in Rooms : c \in mem'[p].children =>
                                 p # s /\ c \in mem[p].children
      BY <1>0, <2>1, <2>3 DEF NewRoom
    <3>3. \A p \in Rooms : p # s => mem'[p].children = mem[p].children
      BY <1>0, <2>1, <2>3
    <3>4. \A k \in DOMAIN spaceEvents : Changes(k)' = Changes(k)
      BY <2>1 DEF Changes, Pair, Parent, Child
    <3>5. ParentsInv' /\ LastInv'
      BY <2>1, <3>4 DEF ChildrenInv, ParentsInv, LastInv, Parent
    <3>6. OtherInv'
      BY <2>1, <3>1, <3>2, <3>3, <3>4 DEF ChildrenInv, OtherInv, ParentsInv
    <3> QED BY <3>5, <3>6 DEF ChildrenInv
  <2> QED BY <2>2, <2>3
<1>4. ASSUME Die PROVE ChildrenInv'
  <2>1. spaceEvents' = <<>> /\ pc' = "down" /\ UNCHANGED <<rooms, children>>
    BY <1>4 DEF Die
  <2> QED BY <2>1, NoPositions DEF ChildrenInv, ParentsInv, LastInv, OtherInv
<1>5. ASSUME NEW e \in pending.state \cup pending.timeline, SaveEvent(e) PROVE ChildrenInv'
  <2>1. CASE SaveRedactionAborts(e)
    BY <1>4, <2>1 DEF SaveRedactionAborts, Abort
  <2>2. CASE ~SaveRedactionAborts(e)
    <3>1. /\ UNCHANGED <<history, pc, rooms, children, spaceEvents>>
          /\ \A r \in Rooms : mem'[r].children = mem[r].children
      BY <1>5, <2>2, TakeRest DEF Take
    <3> QED BY <3>1, ChildrenSame
  <2> QED BY <2>1, <2>2
<1>6. CASE CommitRoom
  <2>1. /\ UNCHANGED <<history, children, spaceEvents>> /\ pc = "events"
        /\ rooms' = rooms \cup {room}
        /\ mem' = mem \/ mem' = [mem EXCEPT ![room].space = IsSpace(txn, room)]
    BY <1>6 DEF CommitRoom
  <2>2. \A r \in Rooms : mem'[r].children = mem[r].children
    BY <1>0, <2>1 DEF Room
  <2> QED BY <2>1, <2>2, ChildrenSame
<1>7. CASE HandleRooms
  <2>1. /\ UNCHANGED <<history, rooms, children, spaceEvents>> /\ pc = "published"
        /\ \A r \in Rooms : mem'[r].children = mem[r].children
    BY <1>0, <1>7 DEF HandleRooms, Room
  <2> QED BY <2>1, ChildrenSame
<1>8. CASE SyncResponse \/ SaveNextBatch \/ SyncCbReturns \/ SyncEnds
             \/ UNCHANGED vars \/ \E s \in Rooms : SkipRoom(s)
  <2>1. UNCHANGED <<history, rooms, children, spaceEvents, mem>> /\ (pc' # "down" => pc # "down")
    BY <1>8 DEF SyncResponse, SaveNextBatch, SyncCbReturns, SyncEnds, vars, SkipRoom
  <2> QED BY <2>1, ChildrenSame
<1>9. CASE PopulateAborts \/ Crash \/ Quit
  BY <1>4, <1>9 DEF PopulateAborts, Abort, Crash, Quit
<1> QED
  BY <1>1, <1>2, <1>3, <1>5, <1>6, <1>7, <1>8, <1>9, ChildrenDeferred, ChildrenHandle
     DEF Next, Client, Process

(* Whenever no batch is on its way the space tree in memory is that of the *)
(* cache, whatever batches, crashes and reboots came before; the assertions*)
(* on the space of a relation hold (state.c:89 and state.c:235).           *)
THEOREM ChildrenAreMirrored == Spec => []ChildrenMirrorCache
<1>1. TypeInv /\ KnownInv /\ ChildrenInv => ChildrenMirrorCache
  <2> SUFFICES ASSUME TypeInv, KnownInv, ChildrenInv PROVE ChildrenMirrorCache
    OBVIOUS
  <2>1. ASSUME pc = "idle", NEW p \in Rooms
        PROVE  mem[p].children = {c \in Rooms : <<p, c>> \in children}
    <3>1. mem[p].children \subseteq Rooms
      BY DEF TypeInv, TypeOK, Room
    <3>2. \A c \in Rooms : c \in mem[p].children <=> <<p, c>> \in children
      BY <2>1, NoPositions DEF KnownInv, ChildrenInv, OtherInv
    <3> QED BY <3>1, <3>2
  <2>2. ASSUME pc = "handle", NEW k \in DOMAIN spaceEvents
        PROVE  mem[Parent(spaceEvents[k].id)].known
    BY <2>2, ChangeTypes DEF KnownInv, ChildrenInv, ParentsInv
  <2>3. \A pair \in children : pair[1] \in rooms
    <3>1. children \subseteq Rooms \X Rooms
      BY DEF TypeInv, TypeOK
    <3> QED BY <3>1 DEF ChildrenInv, ParentsInv
  <2> QED BY <2>1, <2>2, <2>3 DEF ChildrenMirrorCache
<1>2. TypeInv /\ KnownInv /\ ChildrenInv /\ [Next]_vars => (TypeInv /\ KnownInv /\ ChildrenInv)'
  BY TypeStep, KnownStep, ChildrenStep
<1> QED BY <1>1, <1>2, TypeInit, KnownInit, ChildrenInit, PTL DEF Spec

-----------------------------------------------------------------------------
(* The state of a room.                                                    *)

LEMMA Largest ==
  ASSUME NEW n \in Nat, NEW S \in SUBSET (0 .. n), S # {}
  PROVE  \E m \in S : \A k \in S : k <= m
<1> DEFINE R == OpToRel(<, Nat)
           T == {n - k : k \in S}
<1>1. \A k \in S : k \in Nat /\ n - k \in Nat
  OBVIOUS
<1>2. T \subseteq Nat /\ T # {}
  <2>1. T \subseteq Nat
    BY <1>1
  <2>2. PICK k \in S : TRUE
    OBVIOUS
  <2>3. n - k \in T
    BY <2>2
  <2> QED BY <2>1, <2>3
<1>3. \E t \in T : \A u \in T : ~(<<u, t>> \in R)
  <2>1. IsWellFoundedOn(R, Nat)
    BY NatLessThanWellFounded
  <2> HIDE DEF R, T
  <2> QED BY <1>2, <2>1, WFMin
<1>4. \A u, t \in Nat : u < t => <<u, t>> \in R
  BY DEF OpToRel
<1> HIDE DEF R
<1>5. PICK m \in S : \A u \in T : ~(<<u, n - m>> \in R)
  BY <1>3
<1>6. ASSUME NEW k \in S PROVE k <= m
  <2>1. n - k \in T /\ n - k \in Nat /\ n - m \in Nat /\ k \in Nat /\ m \in Nat
    BY <1>1
  <2>2. ~(n - k < n - m)
    BY <1>4, <1>5, <2>1
  <2> QED BY <2>1, <2>2
<1> QED BY <1>6

(* A timeline leaves out no event between its events.                      *)
LEMMA WindowUpward ==
  ASSUME TypeInv, NEW r, NEW n \in Nat, NEW e \in Window(r, n),
         NEW f \in InRoom(r), e < f, f <= n
  PROVE  f \in Window(r, n)
<1> DEFINE E == {g \in InRoom(r) : e < g /\ g <= n}
           F == {g \in InRoom(r) : f < g /\ g <= n}
<1>1. /\ DOMAIN history = 1 .. Len(history) /\ Len(history) \in Nat
      /\ InRoom(r) \subseteq 1 .. Len(history) /\ e \in InRoom(r)
  BY HistoryType DEF InRoom, Window
<1>2. F \subseteq E /\ E \subseteq 1 .. Len(history)
  BY <1>1
<1>3. IsFiniteSet(1 .. Len(history))
  BY <1>1, FS_Interval
<1>4. IsFiniteSet(E)
  BY <1>2, <1>3, FS_Subset
<1>5. IsFiniteSet(F) /\ Cardinality(F) <= Cardinality(E)
  BY <1>2, <1>4, FS_Subset
<1>6. Cardinality(E) \in Nat /\ Cardinality(F) \in Nat
  BY <1>4, <1>5, FS_CardinalityType
<1>7. Cardinality(E) < Limit
  BY DEF Window
<1>8. Cardinality(F) < Limit
  BY <1>5, <1>6, <1>7, SyncAssumption
<1> QED BY <1>8 DEF Window

(* The state block has the slot of every state event before the timeline.  *)
LEMMA BlockHasSlot ==
  ASSUME TypeInv, NEW r, NEW since \in Nat, NEW n \in Nat, NEW f \in InRoom(r),
         since < f, f <= n, f \notin Timeline(r, since, n), IsState(f)
  PROVE  \E g \in StateBlock(r, since, n) : Slot(g) = Slot(f)
<1> DEFINE skips == {e \in InRoom(r) : since < e /\ e <= n} \ Timeline(r, since, n)
           S     == {e \in skips : Slot(e) = Slot(f)}
<1>1. DOMAIN history = 1 .. Len(history) /\ Len(history) \in Nat
  BY HistoryType
<1>2. S \subseteq 0 .. Len(history) /\ S # {}
  BY <1>1 DEF InRoom
<1>3. PICK m \in S : \A k \in S : k <= m
  <2> HIDE DEF S
  <2> QED BY <1>1, <1>2, Largest
<1>4. IsState(m)
  BY DEF IsState, Slot
<1>5. \A g \in skips : g > m => Slot(g) # Slot(m)
  <2> SUFFICES ASSUME NEW g \in skips, g > m, Slot(g) = Slot(m) PROVE FALSE
    OBVIOUS
  <2>1. g \in S /\ g <= m
    BY <1>3
  <2> QED BY <1>2, <2>1
<1> QED BY <1>3, <1>4, <1>5 DEF StateBlock

(* The state block comes before the timeline and has a slot once.          *)
LEMMA BlockFirst ==
  ASSUME TypeInv, NEW r, NEW since \in Nat, NEW n \in Nat
  PROVE  /\ \A f, g \in StateBlock(r, since, n) : Slot(f) = Slot(g) => f = g
         /\ \A f \in StateBlock(r, since, n), g \in Timeline(r, since, n) : f < g
<1>1. /\ StateBlock(r, since, n) \subseteq Nat /\ Timeline(r, since, n) \subseteq Nat
      /\ Timeline(r, since, n) \subseteq Window(r, n)
  <2>1. DOMAIN history \subseteq Nat
    BY HistoryType DEF Ids
  <2> QED BY <2>1 DEF StateBlock, Timeline, Window, InRoom
<1>2. ASSUME NEW f \in StateBlock(r, since, n), NEW g \in StateBlock(r, since, n),
             Slot(f) = Slot(g)
      PROVE  f = g
  <2>1. ~(f < g) /\ ~(g < f)
    BY <1>1, <1>2 DEF StateBlock
  <2> QED BY <1>1, <2>1
<1>3. ASSUME NEW f \in StateBlock(r, since, n), NEW g \in Timeline(r, since, n)
      PROVE  f < g
  <2>1. f \in InRoom(r) /\ since < f /\ f <= n /\ f \notin Timeline(r, since, n)
    BY DEF StateBlock
  <2>2. ~(g < f)
    BY <1>1, <2>1, WindowUpward DEF Timeline
  <2> QED BY <1>1, <2>1, <2>2
<1> QED BY <1>2, <1>3

(* v is the last event up to n with that slot.                             *)
IsLatest(v, r, slot, n) ==
  /\ v # NotFound => v \in InRoom(r) /\ v <= n /\ Slot(v) = slot
  /\ \A f \in InRoom(r) : f <= n /\ Slot(f) = slot => v # NotFound /\ f <= v

(* How far a room's databases go.                                          *)
Covered(r) == IF Busy /\ r \notin todo THEN upto ELSE nextBatch
Pending    == pending.state \cup pending.timeline

BlockInv ==
  /\ \A f, g \in pending.state : Slot(f) = Slot(g) => f = g
  /\ \A f \in pending.state, g \in pending.timeline : f < g

(* Without a replay no response brings an event that is saved already.     *)
SavedInv == ~replayed =>
  /\ \A r \in Rooms : r # room => Saved(db[r]) \subseteq 1 .. Covered(r)
  /\ pc = "events" => Saved(txn) \cap pending.timeline = {}

LatestInv == ~replayed =>
  \A r \in Rooms \ skipped, slot \in Slots :
    r # room => IsLatest(db[r].state[slot], r, slot, Covered(r))

(* The transaction has the latest event of every slot but those to come,   *)
(* the last of which is the latest.                                        *)
PendingLatest == ~replayed /\ pc = "events" /\ room \notin skipped =>
  /\ \A slot \in Slots :
       (\A f \in Pending : Slot(f) # slot) => IsLatest(txn.state[slot], room, slot, upto)
  /\ \A p \in Pending :
       IsState(p) /\ (\A f \in Pending : f > p => Slot(f) # Slot(p)) =>
         IsLatest(p, room, Slot(p), upto)

StateInv == BlockInv /\ SavedInv /\ LatestInv /\ PendingLatest

LEMMA StateInit == Init => StateInv
<1> SUFFICES ASSUME Init PROVE StateInv
  OBVIOUS
<1>1. /\ pending = [state |-> {}, timeline |-> {}] /\ pc = "down"
      /\ \A r \in Rooms : db[r] = EmptyDb /\ InRoom(r) = {}
  BY NoPositions DEF Init, InRoom
<1>2. \A r \in Rooms, slot \in Slots : IsLatest(db[r].state[slot], r, slot, Covered(r))
  BY <1>1 DEF IsLatest, EmptyDb
<1> QED
  BY <1>1, <1>2, EmptyDbOK DEF StateInv, BlockInv, SavedInv, LatestInv, PendingLatest

(* A step that leaves the databases and the response alone.                *)
Still ==
  /\ UNCHANGED <<history, db, nextBatch, room, txn, pending, todo, replayed, skipped>>
  /\ pc' = "events" <=> pc = "events"
  /\ Busy' <=> Busy
  /\ Busy => upto' = upto

LEMMA RoomSteps ==
  ASSUME TypeInv, [Next]_vars
  PROVE  \/ Server \/ SyncResponse \/ CommitRoom \/ SaveNextBatch \/ Die
         \/ Still /\ (ProcessDeferred \/ UNCHANGED <<children, deferred>>)
         \/ \E r \in Rooms : BeginRoom(r) \/ SkipRoom(r)
         \/ \E e \in Pending : SaveEvent(e) /\ ~SaveRedactionAborts(e)
<1> USE DEF cacheVars, txnVars, dataVars, ghostVars
<1>1. \A e \in Pending : SaveRedactionAborts(e) => Die
  BY DEF SaveRedactionAborts, Abort
<1>2. PopulateAborts \/ Crash \/ Quit => Die
  BY DEF PopulateAborts, Abort, Crash, Quit
<1>3. PopulateFromCache \/ HandleRooms \/ HandleSpaceEvent \/ SyncCbReturns
        \/ SyncEnds \/ UNCHANGED vars => Still /\ UNCHANGED <<children, deferred>>
  BY DEF Still, Busy, PopulateFromCache, HandleRooms, HandleSpaceEvent,
         SyncCbReturns, SyncEnds, vars
<1>4. ProcessDeferred => Still
  BY DEF ProcessDeferred, Still, Busy
<1> QED BY <1>1, <1>2, <1>3, <1>4 DEF Next, Client, Process, Pending

LEMMA StateTypes ==
  ASSUME TypeInv
  PROVE  /\ pending.state \subseteq DOMAIN history /\ pending.timeline \subseteq DOMAIN history
         /\ Pending \subseteq DOMAIN history /\ DOMAIN history \subseteq Nat
         /\ NoRoom \notin Rooms /\ (pc # "events" => room = NoRoom)
         /\ (pc = "events" => room \in Rooms) /\ db \in [Rooms -> RoomDb]
         /\ nextBatch \in 0 .. Len(history) /\ upto \in 0 .. Len(history)
         /\ \A r : Covered(r) \in 0 .. Len(history)
BY HistoryType, NotFoundNotId, SyncAssumption DEF TypeInv, TypeOK, Pending, Covered

(* What the server adds is in no room up to n.                             *)
LEMMA RoomSame ==
  ASSUME TypeInv, Server, NEW r, NEW n \in 0 .. Len(history)
  PROVE  /\ \A e : e <= n => (e \in InRoom(r)' <=> e \in InRoom(r))
         /\ \A e \in DOMAIN history : e \in InRoom(r)' <=> e \in InRoom(r)
         /\ \A e \in DOMAIN history : Slot(e)' = Slot(e) /\ IsState(e)' = IsState(e)
<1>1. /\ DOMAIN history = 1 .. Len(history) /\ Len(history) \in Nat
      /\ DOMAIN history' = 1 .. Len(history) + 1
  <2>1. history' \in Seq(Event) /\ Len(history') = Len(history) + 1
    BY HistoryGrows
  <2> QED BY <2>1, HistoryType, Lengths
<1>2. \A e \in DOMAIN history : history'[e] = history[e]
  BY ServerKeepsEvents
<1>3. \A e \in 1 .. Len(history) + 1 : e <= n => e \in 1 .. Len(history)
  BY <1>1
<1> QED BY <1>1, <1>2, <1>3 DEF InRoom, Slot, IsState

LEMMA BlockStep ==
  ASSUME TypeInv, BlockInv, [Next]_vars
  PROVE  BlockInv'
<1>1. ASSUME pending'.state \subseteq pending.state, pending'.timeline \subseteq pending.timeline,
             \A e \in DOMAIN history : history'[e] = history[e]
      PROVE  BlockInv'
  BY <1>1, StateTypes DEF BlockInv, Slot
<1>2. CASE Server
  BY <1>1, <1>2, ServerUnchanged, ServerKeepsEvents
<1>3. CASE SyncResponse \/ CommitRoom \/ SaveNextBatch \/ Still
  BY <1>1, <1>3 DEF SyncResponse, CommitRoom, SaveNextBatch, Still, txnVars
<1>4. CASE Die
  BY <1>1, <1>4 DEF Die
<1>5. ASSUME NEW r \in Rooms, BeginRoom(r) PROVE BlockInv'
  <2>1. /\ pending'.state = StateBlock(r, nextBatch, upto)
        /\ pending'.timeline = Timeline(r, nextBatch, upto) /\ history' = history
    BY <1>5 DEF BeginRoom
  <2>2. nextBatch \in Nat /\ upto \in Nat
    BY HistoryType
  <2> QED BY <2>1, <2>2, BlockFirst DEF BlockInv, Slot
<1>6. ASSUME NEW r \in Rooms, SkipRoom(r) PROVE BlockInv'
  BY <1>1, <1>6 DEF SkipRoom, txnVars
<1>7. ASSUME NEW e \in Pending, SaveEvent(e), ~SaveRedactionAborts(e) PROVE BlockInv'
  <2>1. Take(e)
    <3>1. e \in pending.state \cup pending.timeline
      BY DEF Pending
    <3> QED BY <1>7, <3>1, TakeStep
  <2> QED BY <1>1, <2>1 DEF Take
<1> QED BY <1>2, <1>3, <1>4, <1>5, <1>6, <1>7, RoomSteps

LEMMA SavedStep ==
  ASSUME ReplayedInv, KnownInv, SavedInv, [Next]_vars
  PROVE  SavedInv'
<1>0. /\ TypeInv /\ BatchInv /\ DOMAIN history = 1 .. Len(history) /\ Len(history) \in Nat
      /\ NoRoom \notin Rooms /\ (pc # "events" => room = NoRoom)
      /\ (pc = "events" => room \in Rooms) /\ db \in [Rooms -> RoomDb]
      /\ nextBatch \in 0 .. Len(history) /\ upto \in 0 .. Len(history)
      /\ (Busy => nextBatch <= upto /\ room \notin todo)
  BY StateTypes, HistoryType DEF ReplayedInv, BatchInv, KnownInv
<1>1. ASSUME db' = db, room' = room, ~replayed' => ~replayed, pc' = "events" => pc = "events",
             txn' = txn, pending' = pending, NEW r \in Rooms, r # room, ~replayed',
             Covered(r) <= Covered(r)', Covered(r)' \in Nat
      PROVE  Saved(db[r])' \subseteq 1 .. Covered(r)'
  <2>1. Saved(db[r]) \subseteq 1 .. Covered(r) /\ Saved(db[r])' = Saved(db[r])
    BY <1>1 DEF SavedInv, Saved
  <2>2. Covered(r) \in Nat
    BY <1>0 DEF Covered
  <2> QED BY <1>1, <2>1, <2>2
<1>2. CASE Server \/ Still
  <2>1. UNCHANGED <<db, nextBatch, room, txn, pending, todo, replayed>>
        /\ (pc' = "events" <=> pc = "events") /\ (Busy' <=> Busy) /\ (Busy => upto' = upto)
    BY <1>2, ServerUnchanged DEF Still, Busy
  <2> QED BY <2>1 DEF SavedInv, Covered, Saved
<1>3. CASE SyncResponse
  <2>1. /\ UNCHANGED <<db, nextBatch, room, txn, pending, replayed>>
        /\ pc = "idle" /\ pc' = "rooms" /\ upto' = Len(history)
    BY <1>3 DEF SyncResponse, cacheVars, txnVars, ghostVars
  <2>2. \A r : Covered(r) <= Covered(r)' /\ Covered(r)' \in Nat
    BY <1>0, <2>1 DEF Covered, Busy
  <2> QED BY <1>1, <2>1, <2>2 DEF SavedInv
<1>4. ASSUME NEW s \in Rooms, BeginRoom(s) PROVE SavedInv'
  <2>1. /\ UNCHANGED <<history, db, nextBatch, upto, replayed>> /\ pc = "rooms" /\ pc' = "events"
        /\ s \in todo /\ todo' = todo \ {s} /\ room' = s /\ txn' = db[s]
        /\ pending'.timeline = Timeline(s, nextBatch, upto)
    BY <1>4 DEF BeginRoom, cacheVars, dataVars, ghostVars
  <2>2. \A r \in Rooms : r # s => Covered(r)' = Covered(r) /\ r # room
    BY <1>0, <2>1 DEF Covered, Busy
  <2>3. ASSUME ~replayed PROVE Saved(db[s]) \cap Timeline(s, nextBatch, upto) = {}
    <3>1. Saved(db[s]) \subseteq 1 .. nextBatch
      BY <1>0, <2>1, <2>3 DEF SavedInv, Covered, Busy
    <3> QED BY <1>0, <3>1 DEF Timeline
  <2> QED BY <2>1, <2>2, <2>3 DEF SavedInv, Saved
<1>5. ASSUME NEW s \in Rooms, SkipRoom(s) PROVE SavedInv'
  <2>1. /\ UNCHANGED <<db, nextBatch, upto, room, txn, pending, replayed, pc>>
        /\ pc = "rooms" /\ todo' = todo \ {s}
    BY <1>5 DEF SkipRoom, cacheVars, txnVars, dataVars
  <2>2. \A r : Covered(r) <= Covered(r)' /\ Covered(r)' \in Nat
    BY <1>0, <2>1 DEF Covered, Busy
  <2> QED BY <1>1, <2>1, <2>2 DEF SavedInv
<1>6. ASSUME NEW e \in Pending, SaveEvent(e), ~SaveRedactionAborts(e) PROVE SavedInv'
  <2>1. Take(e) /\ e \in DOMAIN history /\ UNCHANGED replayed
    <3>1. e \in pending.state \cup pending.timeline
      BY DEF Pending
    <3> QED BY <1>0, <1>6, <3>1, TakeRest
  <2>2. /\ UNCHANGED <<db, nextBatch, pc, upto, todo, room>>
        /\ pending'.timeline = pending.timeline \ {e}
    BY <2>1 DEF Take
  <2>3. pc = "events" /\ room \in Rooms
    BY <1>0, <2>1 DEF Take, IsNext
  <2>4. Saved(txn') \subseteq Saved(txn) \cup {e}
    <3>1. IsIndexed(txn)
      BY DEF ReplayedInv, IndexedInv
    <3>2. CASE Duplicate(e)
      <4>1. txn' = txn
        BY <2>1, <3>2 DEF Take
      <4> QED BY <4>1
    <3>3. CASE ~Duplicate(e)
      BY <1>0, <2>1, <3>1, <3>3, TakeIndexed
    <3> QED BY <3>2, <3>3
  <2> QED BY <2>1, <2>2, <2>3, <2>4 DEF SavedInv, Covered, Busy, Saved
<1>7. CASE CommitRoom
  <2>1. /\ UNCHANGED <<nextBatch, upto, todo, replayed>> /\ pc = "events" /\ pc' = "rooms"
        /\ db' = [db EXCEPT ![room] = txn] /\ room' = NoRoom
    BY <1>7 DEF CommitRoom, ghostVars
  <2>2. \A r : Covered(r)' = Covered(r)
    BY <2>1 DEF Covered, Busy
  <2>3. Saved(txn) \subseteq 1 .. Covered(room)
    BY <1>0, <2>1 DEF ReplayedInv, PendingInv, Covered, Busy
  <2>4. ASSUME ~replayed, NEW r \in Rooms PROVE Saved(db'[r]) \subseteq 1 .. Covered(r)
    <3>1. CASE r = room
      BY <1>0, <2>1, <2>3, <3>1
    <3>2. CASE r # room
      BY <1>0, <2>1, <2>4, <3>2 DEF SavedInv
    <3> QED BY <3>1, <3>2
  <2> QED BY <2>1, <2>2, <2>4 DEF SavedInv, Saved
<1>8. CASE SaveNextBatch
  <2>1. /\ UNCHANGED <<db, room, txn, pending, todo, upto, replayed>> /\ pc = "rooms"
        /\ pc' = "published" /\ todo = {} /\ nextBatch' = upto
    BY <1>8 DEF SaveNextBatch, txnVars, ghostVars
  <2>2. \A r : Covered(r)' = Covered(r)
    BY <2>1 DEF Covered, Busy
  <2> QED BY <2>1, <2>2 DEF SavedInv, Saved
<1>9. CASE Die
  <2>1. /\ UNCHANGED <<db, nextBatch>> /\ pc' = "down" /\ room' = NoRoom
        /\ replayed' = (replayed \/ Busy)
    BY <1>9 DEF Die, cacheVars, Busy
  <2>2. ~replayed' => room = NoRoom /\ ~replayed /\ \A r : Covered(r)' = Covered(r)
    BY <1>0, <2>1 DEF Covered, Busy
  <2> QED BY <2>1, <2>2 DEF SavedInv, Saved
<1> QED BY <1>0, <1>2, <1>3, <1>4, <1>5, <1>6, <1>7, <1>8, <1>9, RoomSteps

LEMMA LatestFurther ==
  ASSUME TypeInv, NEW v, NEW r, NEW slot, NEW m \in Nat, NEW n \in Nat, m <= n,
         IsLatest(v, r, slot, m),
         \A f \in InRoom(r) : m < f /\ f <= n => Slot(f) # slot
  PROVE  IsLatest(v, r, slot, n)
<1>1. InRoom(r) \subseteq Nat
  BY HistoryType DEF InRoom, Ids
<1>2. v # NotFound => v \in InRoom(r) /\ v <= n /\ Slot(v) = slot
  BY <1>1 DEF IsLatest
<1>3. ASSUME NEW f \in InRoom(r), f <= n, Slot(f) = slot PROVE v # NotFound /\ f <= v
  <2>1. f <= m
    BY <1>1, <1>3
  <2> QED BY <1>3, <2>1 DEF IsLatest
<1> QED BY <1>2, <1>3 DEF IsLatest

LEMMA LatestStep ==
  ASSUME TypeInv, BatchInv, KnownInv, LatestInv, PendingLatest, [Next]_vars
  PROVE  LatestInv'
<1>0. /\ DOMAIN history = 1 .. Len(history) /\ Len(history) \in Nat
      /\ NoRoom \notin Rooms /\ (pc # "events" => room = NoRoom)
      /\ (pc = "events" => room \in Rooms) /\ db \in [Rooms -> RoomDb]
      /\ nextBatch \in 0 .. Len(history) /\ upto \in 0 .. Len(history)
      /\ (Busy => room \notin todo)
  BY StateTypes, HistoryType DEF KnownInv
<1> SUFFICES ASSUME ~replayed', NEW r \in Rooms \ skipped', NEW slot \in Slots, r # room'
             PROVE  IsLatest(db[r].state[slot], r, slot, Covered(r))'
  BY DEF LatestInv
<1>1. ASSUME history' = history, db'[r] = db[r], Covered(r)' = Covered(r),
             IsLatest(db[r].state[slot], r, slot, Covered(r))
      PROVE  IsLatest(db[r].state[slot], r, slot, Covered(r))'
  BY <1>1 DEF IsLatest, InRoom, Slot
<1>2. CASE Server
  <2>1. /\ UNCHANGED <<db, room, replayed, skipped>> /\ Covered(r)' = Covered(r)
    BY <1>2, ServerUnchanged DEF Covered, Busy
  <2>2. IsLatest(db[r].state[slot], r, slot, Covered(r))
    BY <2>1 DEF LatestInv
  <2>3. PICK n \in 0 .. Len(history) : n = Covered(r)
    BY StateTypes
  <2>4. /\ \A e : e <= n => (e \in InRoom(r)' <=> e \in InRoom(r))
        /\ \A e \in DOMAIN history : Slot(e)' = Slot(e)
        /\ InRoom(r) \subseteq DOMAIN history
    BY <1>2, RoomSame DEF InRoom
  <2> QED BY <2>1, <2>2, <2>3, <2>4 DEF IsLatest
<1>3. CASE Still
  <2>1. UNCHANGED <<history, db, room, replayed, skipped>> /\ Covered(r)' = Covered(r)
    BY <1>3 DEF Still, Covered
  <2> QED BY <1>1, <2>1 DEF LatestInv
<1>4. CASE SyncResponse
  <2>1. /\ UNCHANGED <<history, db, room, replayed, skipped, nextBatch>>
        /\ pc = "idle" /\ pc' = "rooms" /\ upto' = Len(history)
        /\ todo' = {s \in Rooms : \E e \in InRoom(s) : nextBatch < e}
    BY <1>4 DEF SyncResponse, cacheVars, txnVars, ghostVars
  <2>2. Covered(r) = nextBatch /\ IsLatest(db[r].state[slot], r, slot, nextBatch)
    BY <2>1 DEF Covered, Busy, LatestInv
  <2>3. CASE r \in todo'
    BY <1>1, <2>1, <2>2, <2>3 DEF Covered
  <2>4. CASE r \notin todo'
    <3>1. IsLatest(db[r].state[slot], r, slot, Len(history))
      <4>1. \A f \in InRoom(r) : ~(nextBatch < f)
        BY <2>1, <2>4
      <4> QED BY <1>0, <2>2, <4>1, LatestFurther
    <3>2. Covered(r)' = Len(history)
      BY <2>1, <2>4 DEF Covered, Busy
    <3> QED BY <2>1, <3>1, <3>2 DEF IsLatest, InRoom, Slot
  <2> QED BY <2>3, <2>4
<1>5. ASSUME NEW s \in Rooms, BeginRoom(s)
      PROVE  IsLatest(db[r].state[slot], r, slot, Covered(r))'
  <2>1. /\ UNCHANGED <<history, db, nextBatch, upto, replayed, skipped>> /\ pc = "rooms"
        /\ pc' = "events" /\ todo' = todo \ {s} /\ room' = s
    BY <1>5 DEF BeginRoom, cacheVars, dataVars, ghostVars
  <2>2. Covered(r)' = Covered(r) /\ r # room
    BY <1>0, <2>1 DEF Covered, Busy
  <2> QED BY <1>1, <2>1, <2>2 DEF LatestInv
<1>6. ASSUME NEW s \in Rooms, SkipRoom(s)
      PROVE  IsLatest(db[r].state[slot], r, slot, Covered(r))'
  <2>1. /\ UNCHANGED <<history, db, nextBatch, upto, room, replayed, pc>> /\ pc = "rooms"
        /\ todo' = todo \ {s} /\ skipped' = skipped \cup {s}
    BY <1>6 DEF SkipRoom, cacheVars, txnVars, dataVars
  <2>2. Covered(r)' = Covered(r) /\ r # room /\ r \notin skipped
    BY <2>1 DEF Covered, Busy
  <2> QED BY <1>1, <2>1, <2>2 DEF LatestInv
<1>7. ASSUME NEW e \in Pending, SaveEvent(e), ~SaveRedactionAborts(e)
      PROVE  IsLatest(db[r].state[slot], r, slot, Covered(r))'
  <2>1. Take(e) /\ UNCHANGED replayed
    <3>1. e \in pending.state \cup pending.timeline
      BY DEF Pending
    <3> QED BY <1>7, <3>1, TakeRest
  <2>2. UNCHANGED <<history, db, nextBatch, pc, upto, todo, room, skipped>>
    BY <2>1 DEF Take
  <2>3. Covered(r)' = Covered(r)
    BY <2>2 DEF Covered, Busy
  <2> QED BY <1>1, <2>1, <2>2, <2>3 DEF LatestInv
<1>8. CASE CommitRoom
  <2>1. /\ UNCHANGED <<history, nextBatch, upto, todo, replayed, skipped>>
        /\ pc = "events" /\ pc' = "rooms" /\ pending = [state |-> {}, timeline |-> {}]
        /\ db' = [db EXCEPT ![room] = txn] /\ room' = NoRoom
    BY <1>8 DEF CommitRoom, ghostVars
  <2>2. Covered(r)' = Covered(r)
    BY <2>1 DEF Covered, Busy
  <2>3. CASE r = room
    <3>1. db'[r] = txn /\ Covered(r) = upto
      BY <1>0, <2>1, <2>3 DEF Covered, Busy
    <3>2. IsLatest(txn.state[slot], r, slot, upto)
      BY <2>1, <2>3 DEF PendingLatest, Pending
    <3> QED BY <2>1, <2>2, <3>1, <3>2 DEF IsLatest, InRoom, Slot
  <2>4. CASE r # room
    BY <1>0, <1>1, <2>1, <2>2, <2>4 DEF LatestInv
  <2> QED BY <2>3, <2>4
<1>9. CASE SaveNextBatch
  <2>1. /\ UNCHANGED <<history, db, room, todo, upto, replayed, skipped>> /\ pc = "rooms"
        /\ pc' = "published" /\ todo = {} /\ nextBatch' = upto
    BY <1>9 DEF SaveNextBatch, txnVars, ghostVars
  <2>2. Covered(r)' = Covered(r)
    BY <2>1 DEF Covered, Busy
  <2> QED BY <1>1, <2>1, <2>2 DEF LatestInv
<1>10. CASE Die
  <2>1. /\ UNCHANGED <<history, db, nextBatch, skipped>> /\ pc' = "down"
        /\ replayed' = (replayed \/ Busy)
    BY <1>10 DEF Die, cacheVars, Busy
  <2>2. r # room /\ ~replayed /\ Covered(r)' = Covered(r)
    BY <1>0, <2>1 DEF Covered, Busy
  <2> QED BY <1>1, <2>1, <2>2 DEF LatestInv
<1> QED
  BY <1>2, <1>3, <1>4, <1>5, <1>6, <1>7, <1>8, <1>9, <1>10, RoomSteps

LEMMA BeginLatest ==
  ASSUME TypeInv, BatchInv, KnownInv, LatestInv, NEW r \in Rooms \ skipped, BeginRoom(r),
         ~replayed
  PROVE  PendingLatest'
<1>1. /\ UNCHANGED <<history, upto>> /\ pc = "rooms" /\ r \in todo
      /\ room' = r /\ txn' = db[r]
      /\ pending' = [state    |-> StateBlock(r, nextBatch, upto),
                     timeline |-> Timeline(r, nextBatch, upto)]
  BY DEF BeginRoom
<1>2. /\ nextBatch \in Nat /\ upto \in Nat /\ nextBatch <= upto
      /\ InRoom(r) \subseteq Nat /\ r # room
  <2>1. /\ r # room /\ Busy
    BY <1>1, StateTypes DEF Busy
  <2> QED BY <2>1, HistoryType DEF BatchInv, InRoom, Ids
<1> DEFINE P == StateBlock(r, nextBatch, upto) \cup Timeline(r, nextBatch, upto)
<1>3. /\ P \subseteq InRoom(r) /\ P \subseteq Nat
      /\ \A f \in P : nextBatch < f /\ f <= upto
  BY <1>2 DEF StateBlock, Timeline, Window
<1>4. ASSUME NEW f \in InRoom(r), nextBatch < f, f <= upto, IsState(f)
      PROVE  \E g \in P : Slot(g) = Slot(f)
  <2>1. CASE f \in Timeline(r, nextBatch, upto)
    BY <2>1
  <2>2. CASE f \notin Timeline(r, nextBatch, upto)
    BY <1>2, <1>4, <2>2, BlockHasSlot
  <2> QED BY <2>1, <2>2
<1>5. ASSUME NEW slot \in Slots, \A f \in P : Slot(f) # slot
      PROVE  IsLatest(db[r].state[slot], r, slot, upto)
  <2>1. IsLatest(db[r].state[slot], r, slot, nextBatch)
    BY <1>1, <1>2 DEF LatestInv, Covered
  <2>2. \A f \in InRoom(r) : nextBatch < f /\ f <= upto => Slot(f) # slot
    <3> SUFFICES ASSUME NEW f \in InRoom(r), nextBatch < f, f <= upto, Slot(f) = slot
                 PROVE  FALSE
      OBVIOUS
    <3>1. IsState(f)
      BY DEF Slots, Slot, IsState
    <3> QED BY <1>4, <1>5, <3>1
  <2> QED BY <1>2, <2>1, <2>2, LatestFurther
<1>6. ASSUME NEW p \in P, IsState(p), \A f \in P : f > p => Slot(f) # Slot(p)
      PROVE  IsLatest(p, r, Slot(p), upto)
  <2>1. p \in InRoom(r) /\ p # NotFound /\ p <= upto /\ nextBatch < p /\ p \in Nat
    BY <1>2, <1>3 DEF NotFound
  <2>2. ASSUME NEW f \in InRoom(r), f <= upto, Slot(f) = Slot(p), ~(f <= p) PROVE FALSE
    <3>1. f > p /\ nextBatch < f
      BY <1>2, <2>1, <2>2
    <3>2. f \notin P
      BY <1>6, <2>2, <3>1
    <3>3. CASE p \in Timeline(r, nextBatch, upto)
      <4>1. f \in Window(r, upto)
        <5>1. p \in Window(r, upto)
          BY <3>3 DEF Timeline
        <5> QED BY <1>2, <2>2, <3>1, <5>1, WindowUpward
      <4> QED BY <3>1, <3>2, <4>1 DEF Timeline
    <3>4. CASE p \in StateBlock(r, nextBatch, upto)
      BY <2>2, <3>1, <3>2, <3>4 DEF StateBlock
    <3> QED BY <3>3, <3>4
  <2> QED BY <2>1, <2>2 DEF IsLatest
<1>7. Pending' = P
  BY <1>1 DEF Pending
<1> HIDE DEF P
<1>8. \A slot \in Slots : (\A f \in Pending' : Slot(f)' # slot) =>
        IsLatest(txn.state[slot], room, slot, upto)'
  BY <1>1, <1>5, <1>7 DEF Slot, IsLatest, InRoom
<1>9. \A p \in Pending' : IsState(p)' /\ (\A f \in Pending' : f > p => Slot(f)' # Slot(p)') =>
        IsLatest(p, room, Slot(p), upto)'
  BY <1>1, <1>6, <1>7 DEF Slot, IsState, IsLatest, InRoom
<1> QED BY <1>8, <1>9 DEF PendingLatest

LEMMA TakeLatest ==
  ASSUME TypeInv, BlockInv, SavedInv, PendingLatest, ~replayed, room \notin skipped,
         NEW e \in Pending, SaveEvent(e), ~SaveRedactionAborts(e)
  PROVE  PendingLatest'
<1>1. /\ Take(e) /\ e \in DOMAIN history
      /\ txn'.state = IF IsState(e) /\ ~Duplicate(e)
                      THEN [txn.state EXCEPT ![Slot(e)] = e] ELSE txn.state
  <2>1. e \in pending.state \cup pending.timeline
    BY DEF Pending
  <2> QED BY <2>1, TakeRest
<1>2. /\ UNCHANGED <<history, upto, room>> /\ pc = "events" /\ IsNext(e)
      /\ pending' = [state |-> pending.state \ {e}, timeline |-> pending.timeline \ {e}]
  BY <1>1 DEF Take, IsNext
<1>3. ~Duplicate(e)
  <2>1. InTimeline(e) => e \notin Saved(txn)
    BY <1>2 DEF SavedInv, InTimeline
  <2>2. e \in Ids
    BY <1>1, EventTypes
  <2> QED BY <2>1, <2>2 DEF Duplicate, Saved
<1>4. txn'.state = IF IsState(e) THEN [txn.state EXCEPT ![Slot(e)] = e] ELSE txn.state
  BY <1>1, <1>3
<1>5. Pending' = Pending \ {e} /\ Pending \subseteq Nat
  BY <1>2, StateTypes DEF Pending
<1>6. ASSUME NEW p \in Pending, p # e, e > p PROVE Slot(e) # Slot(p)
  BY <1>2, <1>5, <1>6 DEF IsNext, BlockInv, Pending
<1>7. \A slot \in Slots : (\A f \in Pending' : Slot(f) # slot) =>
        IsLatest(txn'.state[slot], room, slot, upto)
  <2> SUFFICES ASSUME NEW slot \in Slots, \A f \in Pending' : Slot(f) # slot
               PROVE  IsLatest(txn'.state[slot], room, slot, upto)
    OBVIOUS
  <2>1. CASE Slot(e) = slot
    <3>1. IsState(e)
      BY <2>1 DEF Slots, Slot, IsState
    <3>2. txn'.state[slot] = e
      <4>1. txn.state \in [Slots -> Ids \cup {NotFound}]
        BY DEF TypeInv, TypeOK, RoomDb
      <4> QED BY <1>4, <2>1, <3>1, <4>1
    <3>3. \A f \in Pending : f > e => Slot(f) # Slot(e)
      BY <1>5, <2>1
    <3> QED BY <1>2, <2>1, <3>1, <3>2, <3>3 DEF PendingLatest
  <2>2. CASE Slot(e) # slot
    <3>1. txn'.state[slot] = txn.state[slot]
      BY <1>4, <2>2
    <3>2. \A f \in Pending : Slot(f) # slot
      BY <1>5, <2>2
    <3> QED BY <1>2, <3>1, <3>2 DEF PendingLatest
  <2> QED BY <2>1, <2>2
<1>8. \A p \in Pending' : IsState(p) /\ (\A f \in Pending' : f > p => Slot(f) # Slot(p)) =>
        IsLatest(p, room, Slot(p), upto)
  <2> SUFFICES ASSUME NEW p \in Pending', IsState(p),
                      \A f \in Pending' : f > p => Slot(f) # Slot(p)
               PROVE  IsLatest(p, room, Slot(p), upto)
    OBVIOUS
  <2>1. p \in Pending /\ \A f \in Pending : f > p => Slot(f) # Slot(p)
    BY <1>5, <1>6
  <2> QED BY <1>2, <2>1 DEF PendingLatest
<1> QED BY <1>2, <1>7, <1>8 DEF PendingLatest, IsLatest, InRoom, Slot, IsState

LEMMA PendingLatestStep ==
  ASSUME TypeInv, BatchInv, KnownInv, StateInv, [Next]_vars
  PROVE  PendingLatest'
<1>1. CASE pc' # "events" \/ replayed' \/ room' \in skipped'
  BY <1>1 DEF PendingLatest
<1>2. CASE Server
  <2>1. UNCHANGED <<replayed, pc, room, skipped, pending, txn, upto>>
    BY <1>2, ServerUnchanged
  <2>2. PICK n \in 0 .. Len(history) : n = upto
    BY StateTypes
  <2>3. /\ \A e : e <= n => (e \in InRoom(room)' <=> e \in InRoom(room))
        /\ \A e \in DOMAIN history : /\ Slot(e)' = Slot(e) /\ IsState(e)' = IsState(e)
                                     /\ e \in InRoom(room)' <=> e \in InRoom(room)
        /\ Pending \subseteq DOMAIN history /\ InRoom(room) \subseteq DOMAIN history
    <3>1. PICK r : r = room
      OBVIOUS
    <3>2. /\ \A e : e <= n => (e \in InRoom(r)' <=> e \in InRoom(r))
          /\ \A e \in DOMAIN history : /\ Slot(e)' = Slot(e) /\ IsState(e)' = IsState(e)
                                       /\ e \in InRoom(r)' <=> e \in InRoom(r)
      BY <1>2, RoomSame
    <3> QED BY <2>1, <3>1, <3>2, StateTypes DEF InRoom
  <2>4. ASSUME NEW v \in DOMAIN history \cup {NotFound}, NEW slot, IsLatest(v, room, slot, upto)
        PROVE  IsLatest(v, room, slot, upto)'
    BY <2>1, <2>2, <2>3, <2>4 DEF IsLatest
  <2> SUFFICES ASSUME ~replayed, pc = "events", room \notin skipped PROVE PendingLatest'
    BY <2>1 DEF PendingLatest
  <2>5. ASSUME NEW slot \in Slots, \A f \in Pending' : Slot(f)' # slot
        PROVE  IsLatest(txn.state[slot], room, slot, upto)'
    <3>1. \A f \in Pending : Slot(f) # slot
      BY <2>1, <2>3, <2>5 DEF Pending
    <3>2. IsLatest(txn.state[slot], room, slot, upto)
      BY <3>1 DEF StateInv, PendingLatest
    <3> QED BY <2>1, <2>2, <2>3, <3>2 DEF IsLatest
  <2>6. ASSUME NEW p \in Pending', IsState(p)', \A f \in Pending' : f > p => Slot(f)' # Slot(p)'
        PROVE  IsLatest(p, room, Slot(p), upto)'
    <3>1. p \in Pending /\ IsState(p) /\ \A f \in Pending : f > p => Slot(f) # Slot(p)
      BY <2>1, <2>3, <2>6 DEF Pending
    <3>2. IsLatest(p, room, Slot(p), upto) /\ Slot(p)' = Slot(p)
      BY <2>3, <3>1 DEF StateInv, PendingLatest
    <3> QED BY <2>1, <2>2, <2>3, <3>2 DEF IsLatest
  <2> QED BY <2>5, <2>6 DEF PendingLatest
<1>3. CASE Still
  <2>1. CASE pc = "events"
    <3>1. UNCHANGED <<history, replayed, room, skipped, pending, txn, upto>>
      BY <1>3, <2>1 DEF Still, Busy
    <3> QED BY <2>1, <3>1 DEF StateInv, PendingLatest, Pending, IsLatest, InRoom, Slot, IsState
  <2>2. CASE pc # "events"
    BY <1>1, <1>3, <2>2 DEF Still
  <2> QED BY <2>1, <2>2
<1>4. CASE SyncResponse \/ CommitRoom \/ SaveNextBatch \/ Die
  BY <1>1, <1>4 DEF SyncResponse, CommitRoom, SaveNextBatch, Die
<1>5. ASSUME NEW r \in Rooms, BeginRoom(r) PROVE PendingLatest'
  <2>1. room' = r /\ UNCHANGED <<replayed, skipped>>
    BY <1>5 DEF BeginRoom, ghostVars
  <2> QED BY <1>1, <1>5, <2>1, BeginLatest DEF StateInv
<1>6. ASSUME NEW r \in Rooms, SkipRoom(r) PROVE PendingLatest'
  BY <1>1, <1>6 DEF SkipRoom
<1>7. ASSUME NEW e \in Pending, SaveEvent(e), ~SaveRedactionAborts(e) PROVE PendingLatest'
  <2>1. UNCHANGED <<replayed, room, skipped>>
    <3>1. e \in pending.state \cup pending.timeline
      BY DEF Pending
    <3>2. Take(e) /\ UNCHANGED replayed
      BY <1>7, <3>1, TakeRest
    <3> QED BY <3>2 DEF Take
  <2> QED BY <1>1, <1>7, <2>1, TakeLatest DEF StateInv
<1> QED BY <1>2, <1>3, <1>4, <1>5, <1>6, <1>7, RoomSteps

LatestRoomInv == ReplayedInv /\ KnownInv /\ StateInv

LEMMA LatestRoomInit == Init => LatestRoomInv
BY ReplayedInit, KnownInit, StateInit DEF LatestRoomInv

LEMMA LatestRoomStep == LatestRoomInv /\ [Next]_vars => LatestRoomInv'
<1> SUFFICES ASSUME LatestRoomInv, [Next]_vars PROVE LatestRoomInv'
  OBVIOUS
<1>1. TypeInv /\ BatchInv /\ ReplayedInv /\ KnownInv /\ StateInv
  BY DEF LatestRoomInv, ReplayedInv
<1>2. BlockInv' /\ SavedInv' /\ LatestInv' /\ PendingLatest'
  BY <1>1, BlockStep, SavedStep, LatestStep, PendingLatestStep DEF StateInv
<1> QED BY <1>1, <1>2, ReplayedStep, KnownStep DEF LatestRoomInv, StateInv

(* The names and the room state in the cache are the server's latest up to *)
(* next_batch: a state block never overwrites what the timeline before it  *)
(* brought, and the events of a slot are never applied out of order,       *)
(* unless a crash makes the client replay a response.                      *)
THEOREM StateStaysLatest == Spec => []StateIsLatest
<1>1. LatestRoomInv => StateIsLatest
  <2> SUFFICES ASSUME TypeInv, StateInv, AtRest, ~replayed,
                      NEW r \in Rooms \ skipped, NEW slot \in Slots
               PROVE  {db[r].state[slot]} \ {NotFound} = LatestState(r, slot, nextBatch)
    BY DEF StateIsLatest, LatestRoomInv, ReplayedInv
  <2> DEFINE v == db[r].state[slot]
  <2>1. IsLatest(v, r, slot, nextBatch)
    <3>1. r # room
      BY StateTypes DEF AtRest
    <3>2. Covered(r) = nextBatch
      BY DEF AtRest, Covered, Busy
    <3> QED BY <3>1, <3>2 DEF StateInv, LatestInv
  <2>2. InRoom(r) \subseteq Nat /\ nextBatch \in Nat
    BY HistoryType DEF InRoom, Ids
  <2>3. \A e : Slot(e) = slot => IsState(e)
    BY DEF Slots, Slot, IsState
  <2> HIDE DEF v
  <2>4. CASE v = NotFound
    <3>1. LatestState(r, slot, nextBatch) = {}
      BY <2>1, <2>4 DEF IsLatest, LatestState
    <3> QED BY <2>4, <3>1 DEF v
  <2>5. CASE v # NotFound
    <3>1. v \in InRoom(r) /\ v <= nextBatch /\ Slot(v) = slot /\ IsState(v)
      BY <2>1, <2>3, <2>5 DEF IsLatest
    <3>2. \A f \in InRoom(r) : f <= nextBatch /\ f > v => Slot(f) # slot
      BY <2>1, <2>2, <3>1 DEF IsLatest
    <3>3. v \in LatestState(r, slot, nextBatch)
      BY <3>1, <3>2 DEF LatestState
    <3>4. ASSUME NEW e \in LatestState(r, slot, nextBatch) PROVE e = v
      <4>1. e \in InRoom(r) /\ e <= nextBatch /\ Slot(e) = slot /\ ~(v > e)
        BY <3>1 DEF LatestState
      <4>2. e <= v
        BY <2>1, <4>1 DEF IsLatest
      <4> QED BY <2>2, <3>1, <4>1, <4>2
    <3> QED BY <2>5, <3>3, <3>4 DEF v
  <2> QED BY <2>4, <2>5
<1> QED BY <1>1, LatestRoomInit, LatestRoomStep, PTL DEF Spec

-----------------------------------------------------------------------------
(* The space tree.                                                         *)

(* A room begins with its m.room.create, the state in the cache is events, *)
(* and a response has no event of another room.                            *)
FirstInv ==
  \A r \in Rooms : InRoom(r) # {} =>
    \E e \in InRoom(r) : /\ Slot(e) = <<"state", Create>>
                         /\ \A f \in InRoom(r) : e <= f
KeptInv ==
  \A slot \in Slots :
    /\ txn.state[slot] \in DOMAIN history \cup {NotFound}
    /\ \A r \in Rooms : db[r].state[slot] \in DOMAIN history \cup {NotFound}
OwnInv == pc = "events" => Pending \subseteq InRoom(room)

IsChildOf(e, p, c) ==
  history[e].kind = "child" /\ history[e].room = p /\ history[e].key = c
Via(v) == v # NotFound /\ history[v].via

(* The last deferred child event of a pair is the one the databases have.  *)
DeferInv ==
  \A k \in DOMAIN deferred, p, c \in Rooms :
    /\ IsChildOf(deferred[k], p, c)
    /\ \A j \in DOMAIN deferred : j > k => ~IsChildOf(deferred[j], p, c)
    => Db(p).state[<<"child", c>>] = deferred[k]

(* The relation of a pair follows its events when none is deferred.        *)
RelationInv == ~replayed =>
  \A p \in Spaces \ skipped, c \in Rooms :
    (\A k \in DOMAIN deferred : ~IsChildOf(deferred[k], p, c)) =>
      /\ Via(Db(p).state[<<"child", c>>]) => <<p, c>> \in children
      /\ <<p, c>> \in children =>
           \/ Via(Db(p).state[<<"child", c>>])
           \/ Db(c).state[<<"parent", p>>] # NotFound

TreeInv == FirstInv /\ KeptInv /\ OwnInv /\ DeferInv /\ RelationInv

LEMMA TreeInit == Init => TreeInv
<1> SUFFICES ASSUME Init PROVE TreeInv
  OBVIOUS
<1>1. /\ DOMAIN history = {} /\ DOMAIN deferred = {} /\ pc = "down" /\ children = {}
      /\ room = NoRoom /\ txn = EmptyDb /\ \A r \in Rooms : db[r] = EmptyDb
  BY NoPositions DEF Init
<1>2. \A r \in Rooms : Db(r) = EmptyDb
  BY <1>1 DEF Db
<1>3. \A slot \in Slots : EmptyDb.state[slot] = NotFound
  BY DEF EmptyDb
<1>4. \A c \in Rooms : <<"child", c>> \in Slots
  BY DEF Slots
<1> QED
  BY <1>1, <1>2, <1>3, <1>4, SyncAssumption
     DEF TreeInv, FirstInv, KeptInv, OwnInv, DeferInv, RelationInv, InRoom, Via

LEMMA FirstStep ==
  ASSUME TypeInv, FirstInv, [Next]_vars
  PROVE  FirstInv'
<1>1. CASE Server
  <2>1. PICK event : ServerEvent(event)
    BY <1>1 DEF Server
  <2>2. PICK n \in Nat : n = Len(history)
    BY HistoryType
  <2>3. /\ DOMAIN history = 1 .. n /\ DOMAIN history' = 1 .. n + 1 /\ history'[n + 1] = event
        /\ \A e \in 1 .. n : history'[e] = history[e]
    <3>1. /\ history' \in Seq(Event) /\ Len(history') = n + 1
          /\ \A e \in 1 .. n : history'[e] = history[e]
      BY <1>1, <2>2, HistoryGrows
    <3>2. history' = Append(history, event) /\ history \in Seq(Event)
      BY <2>1 DEF ServerEvent, TypeInv, TypeOK
    <3>3. history'[Len(history) + 1] = event
      BY <3>2, AppendProperties
    <3> QED BY <2>2, <3>1, <3>3, HistoryType, Lengths
  <2>4. \A e \in 1 .. n : \A r : e \in InRoom(r)' <=> e \in InRoom(r)
    BY <2>3 DEF InRoom
  <2> SUFFICES ASSUME NEW r \in Rooms, InRoom(r)' # {}
               PROVE  \E e \in InRoom(r)' : /\ Slot(e)' = <<"state", Create>>
                                            /\ \A f \in InRoom(r)' : e <= f
    BY DEF FirstInv
  <2>5. CASE InRoom(r) = {}
    <3>1. InRoom(r)' = {n + 1} /\ event.room = r
      BY <2>3, <2>4, <2>5 DEF InRoom
    <3>2. event.kind = "state" /\ event.key = Create
      BY <2>1, <2>5, <3>1 DEF ServerEvent, WellFormed
    <3> QED BY <2>3, <3>1, <3>2 DEF Slot
  <2>6. CASE InRoom(r) # {}
    <3>1. PICK e \in InRoom(r) : /\ Slot(e) = <<"state", Create>>
                                 /\ \A f \in InRoom(r) : e <= f
      BY <2>6 DEF FirstInv
    <3>2. e \in 1 .. n /\ e \in InRoom(r)' /\ Slot(e)' = Slot(e)
      BY <2>3, <2>4 DEF InRoom, Slot
    <3>3. ASSUME NEW f \in InRoom(r)' PROVE e <= f
      <4>1. f \in 1 .. n + 1
        BY <2>3 DEF InRoom
      <4>2. CASE f \in 1 .. n
        BY <2>4, <3>1, <4>2
      <4> QED BY <3>2, <4>1, <4>2
    <3> QED BY <3>1, <3>2, <3>3
  <2> QED BY <2>5, <2>6
<1>2. ASSUME history' = history PROVE FirstInv'
  BY <1>2 DEF FirstInv, InRoom, Slot
<1>3. ASSUME NEW e \in Pending, SaveEvent(e), ~SaveRedactionAborts(e) PROVE history' = history
  <2>1. e \in pending.state \cup pending.timeline
    BY DEF Pending
  <2> QED BY <1>3, <2>1, TakeStep DEF Take
<1>4. SyncResponse \/ CommitRoom \/ SaveNextBatch \/ Die \/ Still => history' = history
  BY DEF SyncResponse, CommitRoom, SaveNextBatch, Die, Still
<1>5. \A r \in Rooms : BeginRoom(r) \/ SkipRoom(r) => history' = history
  BY DEF BeginRoom, SkipRoom
<1> QED BY <1>1, <1>2, <1>3, <1>4, <1>5, RoomSteps

LEMMA KeptStep ==
  ASSUME TypeInv, KeptInv, [Next]_vars
  PROVE  KeptInv'
<1>0. db \in [Rooms -> RoomDb] /\ txn \in RoomDb /\ NotFound \notin Ids
  BY NotFoundNotId DEF TypeInv, TypeOK
<1>1. CASE Server
  BY <1>1, ServerUnchanged, ServerKeepsEvents DEF KeptInv
<1>2. CASE SyncResponse \/ SaveNextBatch \/ Still \/ \E r \in Rooms : SkipRoom(r)
  <2>1. UNCHANGED <<history, db, txn>>
    BY <1>2 DEF SyncResponse, SaveNextBatch, Still, SkipRoom, cacheVars, txnVars
  <2> QED BY <2>1 DEF KeptInv
<1>3. CASE Die
  <2>1. UNCHANGED <<history, db>> /\ txn' = EmptyDb
    BY <1>3 DEF Die, cacheVars
  <2> QED BY <2>1 DEF KeptInv, EmptyDb
<1>4. ASSUME NEW r \in Rooms, BeginRoom(r) PROVE KeptInv'
  <2>1. UNCHANGED <<history, db>> /\ txn' = db[r]
    BY <1>4 DEF BeginRoom, cacheVars
  <2> QED BY <2>1 DEF KeptInv
<1>5. CASE CommitRoom
  <2>1. history' = history /\ db' = [db EXCEPT ![room] = txn] /\ txn' = EmptyDb
    BY <1>5 DEF CommitRoom
  <2> QED BY <1>0, <2>1 DEF KeptInv, EmptyDb
<1>6. ASSUME NEW e \in Pending, SaveEvent(e), ~SaveRedactionAborts(e) PROVE KeptInv'
  <2>1. /\ Take(e) /\ e \in DOMAIN history
        /\ txn'.state = IF IsState(e) /\ ~Duplicate(e)
                        THEN [txn.state EXCEPT ![Slot(e)] = e] ELSE txn.state
    <3>1. e \in pending.state \cup pending.timeline
      BY DEF Pending
    <3> QED BY <1>6, <3>1, TakeRest
  <2>2. UNCHANGED <<history, db>>
    BY <2>1 DEF Take
  <2>3. txn.state \in [Slots -> Ids \cup {NotFound}]
    BY <1>0 DEF RoomDb
  <2> QED BY <2>1, <2>2, <2>3 DEF KeptInv
<1> QED BY <1>1, <1>2, <1>3, <1>4, <1>5, <1>6, RoomSteps

LEMMA OwnStep ==
  ASSUME TypeInv, OwnInv, [Next]_vars
  PROVE  OwnInv'
<1>1. CASE Server
  <2>1. \A e \in Pending : e \in DOMAIN history' /\ history'[e] = history[e]
    BY <1>1, ServerKeepsEvents, StateTypes
  <2> QED BY <1>1, <2>1, ServerUnchanged DEF OwnInv, Pending, InRoom
<1>2. CASE pc' # "events"
  BY <1>2 DEF OwnInv
<1>3. CASE Still
  BY <1>3 DEF Still, OwnInv, Pending, InRoom
<1>4. ASSUME NEW r \in Rooms, BeginRoom(r) PROVE OwnInv'
  <2>1. /\ history' = history /\ room' = r
        /\ pending' = [state    |-> StateBlock(r, nextBatch, upto),
                       timeline |-> Timeline(r, nextBatch, upto)]
    BY <1>4 DEF BeginRoom
  <2> QED BY <2>1 DEF OwnInv, Pending, InRoom, StateBlock, Timeline, Window
<1>5. ASSUME NEW e \in Pending, SaveEvent(e), ~SaveRedactionAborts(e) PROVE OwnInv'
  <2>1. Take(e)
    <3>1. e \in pending.state \cup pending.timeline
      BY DEF Pending
    <3> QED BY <1>5, <3>1, TakeStep
  <2> QED BY <2>1 DEF Take, OwnInv, Pending, InRoom
<1>6. SyncResponse \/ CommitRoom \/ SaveNextBatch \/ Die => pc' # "events"
  BY DEF SyncResponse, CommitRoom, SaveNextBatch, Die
<1>7. \A r \in Rooms : SkipRoom(r) => pc' # "events"
  BY DEF SkipRoom
<1> QED BY <1>1, <1>2, <1>3, <1>4, <1>5, <1>6, <1>7, RoomSteps

LEMMA DeferTypes ==
  ASSUME TypeInv, NEW k \in DOMAIN deferred
  PROVE  deferred[k] \in DOMAIN history /\ IsSpaceEvent(deferred[k])
<1>1. deferred \in Seq(DOMAIN history)
  BY DEF TypeInv, TypeOK
<1> QED BY <1>1, Lengths DEF TypeInv, DeferredOK

LEMMA KeptDb ==
  ASSUME KeptInv, NEW r \in Rooms, NEW slot \in Slots
  PROVE  Db(r).state[slot] \in DOMAIN history \cup {NotFound}
BY DEF KeptInv, Db

(* The steps that change no databases as sync_cb sees them.                *)
LEMMA RelationSame ==
  ASSUME TypeInv, KeptInv, DeferInv, RelationInv,
         \A e \in DOMAIN history : history'[e] = history[e],
         \A r \in Rooms : Db(r)' = Db(r), UNCHANGED <<children, deferred>>,
         ~replayed' => ~replayed, skipped \subseteq skipped'
  PROVE  DeferInv' /\ RelationInv'
<1>1. \A k \in DOMAIN deferred : history'[deferred[k]] = history[deferred[k]]
  BY DeferTypes
<1>2. \A k \in DOMAIN deferred, p, c \in Rooms :
        IsChildOf(deferred[k], p, c)' <=> IsChildOf(deferred[k], p, c)
  BY <1>1 DEF IsChildOf
<1>3. \A p, c \in Rooms : Via(Db(p).state[<<"child", c>>])' <=> Via(Db(p).state[<<"child", c>>])
  <2> TAKE p, c \in Rooms
  <2>1. Db(p).state[<<"child", c>>] \in DOMAIN history \cup {NotFound}
    BY KeptDb DEF Slots
  <2> QED BY <2>1 DEF Via
<1>4. DeferInv'
  BY <1>2 DEF DeferInv
<1>5. RelationInv'
  BY <1>2, <1>3, SyncAssumption DEF RelationInv
<1> QED BY <1>4, <1>5

(* A child event that is saved is deferred behind the others.              *)
LEMMA TakeRelation ==
  ASSUME TypeInv, KeptInv, OwnInv, DeferInv, RelationInv,
         NEW e \in Pending, SaveEvent(e), ~SaveRedactionAborts(e)
  PROVE  DeferInv' /\ RelationInv'
<1>1. /\ Take(e) /\ e \in DOMAIN history /\ UNCHANGED <<children, replayed>>
      /\ deferred' = IF IsSpaceEvent(e) /\ ~Duplicate(e) THEN Append(deferred, e)
                     ELSE deferred
      /\ txn'.state = IF IsState(e) /\ ~Duplicate(e)
                      THEN [txn.state EXCEPT ![Slot(e)] = e] ELSE txn.state
  <2>1. e \in pending.state \cup pending.timeline
    BY DEF Pending
  <2> QED BY <2>1, TakeRest
<1>2. /\ UNCHANGED <<history, db, pc, room, skipped>> /\ pc = "events"
      /\ room \in Rooms /\ history[e].room = room
  <2>1. UNCHANGED <<history, db, pc, room, skipped>> /\ pc = "events"
    BY <1>1 DEF Take, IsNext
  <2> QED BY <2>1, StateTypes DEF OwnInv, InRoom
<1>3. deferred \in Seq(DOMAIN history) /\ txn.state \in [Slots -> Ids \cup {NotFound}]
  BY DEF TypeInv, TypeOK, RoomDb
<1>4. PICK n \in Nat : n = Len(deferred)
  BY <1>3, Lengths
<1>5. DOMAIN deferred = 1 .. n
  BY <1>3, <1>4, Lengths
<1>6. CASE IsSpaceEvent(e) /\ ~Duplicate(e)
  <2>1. /\ DOMAIN deferred' = 1 .. n + 1 /\ deferred'[n + 1] = e
        /\ \A k \in 1 .. n : deferred'[k] = deferred[k]
    BY <1>1, <1>3, <1>4, <1>6, Appended
  <2>2. txn'.state = [txn.state EXCEPT ![Slot(e)] = e] /\ Slot(e) \in Slots
    <3>1. IsState(e)
      BY <1>6 DEF IsSpaceEvent, IsState
    <3>2. history[e].key \in Rooms
      BY <1>1, <1>6 DEF TypeInv, HistoryOK, IsSpaceEvent
    <3> QED BY <1>1, <1>6, <3>1, <3>2 DEF IsSpaceEvent, Slot, Slots
  <2>3. \A k \in 1 .. n + 1, p, c \in Rooms :
          IsChildOf(deferred[k], p, c)' <=> IsChildOf(deferred'[k], p, c)
    BY <1>2 DEF IsChildOf
  <2>4. ASSUME NEW p \in Rooms, NEW c \in Rooms, ~IsChildOf(e, p, c)
        PROVE  Db(p).state[<<"child", c>>]' = Db(p).state[<<"child", c>>]
    <3>1. p = room => Slot(e) # <<"child", c>>
      BY <1>2, <2>4 DEF IsChildOf, Slot
    <3>2. <<"child", c>> \in Slots
      BY DEF Slots
    <3> QED BY <1>2, <1>3, <2>2, <3>1, <3>2 DEF Db
  <2>5. \A p, c \in Rooms : Db(c).state[<<"parent", p>>] # NotFound =>
                              Db(c).state[<<"parent", p>>]' # NotFound
    <3> TAKE p, c \in Rooms
    <3>1. <<"parent", p>> \in Slots /\ e # NotFound
      BY <1>1, EventTypes, NotFoundNotId DEF Slots
    <3> QED BY <1>2, <1>3, <2>2, <3>1 DEF Db
  <2>6. DeferInv'
    <3> SUFFICES ASSUME NEW k \in 1 .. n + 1, NEW p \in Rooms, NEW c \in Rooms,
                        IsChildOf(deferred'[k], p, c),
                        \A j \in 1 .. n + 1 : j > k => ~IsChildOf(deferred'[j], p, c)
                 PROVE  Db(p).state[<<"child", c>>]' = deferred'[k]
      BY <2>1, <2>3 DEF DeferInv
    <3>1. CASE k = n + 1
      <4>1. Slot(e) = <<"child", c>> /\ p = room
        BY <1>2, <2>1, <3>1 DEF IsChildOf, Slot
      <4> QED BY <1>2, <1>3, <2>1, <2>2, <3>1, <4>1 DEF Db
    <3>2. CASE k \in 1 .. n
      <4>1. ~IsChildOf(e, p, c) /\ \A j \in 1 .. n : j > k => ~IsChildOf(deferred[j], p, c)
        BY <2>1, <3>2
      <4>2. Db(p).state[<<"child", c>>] = deferred[k]
        BY <1>5, <2>1, <3>2, <4>1 DEF DeferInv
      <4> QED BY <2>1, <2>4, <3>2, <4>1, <4>2
    <3> QED BY <3>1, <3>2
  <2>7. RelationInv'
    <3> SUFFICES ASSUME ~replayed, NEW p \in Spaces \ skipped, NEW c \in Rooms,
                        \A k \in 1 .. n + 1 : ~IsChildOf(deferred'[k], p, c)
                 PROVE  /\ Via(Db(p).state[<<"child", c>>])' => <<p, c>> \in children
                        /\ <<p, c>> \in children =>
                             \/ Via(Db(p).state[<<"child", c>>])'
                             \/ Db(c).state[<<"parent", p>>]' # NotFound
      BY <1>1, <1>2, <2>1, <2>3, SyncAssumption DEF RelationInv
    <3>1. ~IsChildOf(e, p, c) /\ \A k \in DOMAIN deferred : ~IsChildOf(deferred[k], p, c)
      BY <1>5, <2>1
    <3>2. Via(Db(p).state[<<"child", c>>])' <=> Via(Db(p).state[<<"child", c>>])
      <4>1. p \in Rooms
        BY SyncAssumption
      <4> QED BY <1>2, <2>4, <3>1, <4>1 DEF Via
    <3> QED BY <2>5, <3>1, <3>2, SyncAssumption DEF RelationInv
  <2> QED BY <2>6, <2>7
<1>7. CASE ~(IsSpaceEvent(e) /\ ~Duplicate(e))
  <2>1. deferred' = deferred
    BY <1>1, <1>7
  <2>2. ASSUME NEW r \in Rooms, NEW c \in Rooms
        PROVE  /\ Db(r).state[<<"child", c>>]' = Db(r).state[<<"child", c>>]
               /\ Db(r).state[<<"parent", c>>]' = Db(r).state[<<"parent", c>>]
    <3>1. CASE txn'.state = txn.state
      BY <1>2, <3>1 DEF Db
    <3>2. CASE ~IsSpaceEvent(e) /\ txn'.state = [txn.state EXCEPT ![Slot(e)] = e]
      <4>1. Slot(e) # <<"child", c>> /\ Slot(e) # <<"parent", c>>
        BY <3>2 DEF IsSpaceEvent, Slot
      <4>2. /\ txn'.state[<<"child", c>>] = txn.state[<<"child", c>>]
            /\ txn'.state[<<"parent", c>>] = txn.state[<<"parent", c>>]
        <5>1. <<"child", c>> \in Slots /\ <<"parent", c>> \in Slots
          BY DEF Slots
        <5> QED BY <1>3, <3>2, <4>1, <5>1
      <4> QED BY <1>2, <4>2 DEF Db
    <3> QED BY <1>1, <1>7, <3>1, <3>2
  <2>3. \A p, c \in Rooms : Via(Db(p).state[<<"child", c>>])' <=> Via(Db(p).state[<<"child", c>>])
    BY <1>2, <2>2 DEF Via
  <2>4. DeferInv'
    <3> SUFFICES ASSUME NEW k \in DOMAIN deferred, NEW p \in Rooms, NEW c \in Rooms,
                        IsChildOf(deferred[k], p, c),
                        \A j \in DOMAIN deferred : j > k => ~IsChildOf(deferred[j], p, c)
                 PROVE  Db(p).state[<<"child", c>>]' = deferred[k]
      BY <1>2, <2>1 DEF DeferInv, IsChildOf
    <3>1. Db(p).state[<<"child", c>>]' = Db(p).state[<<"child", c>>]
      BY <2>2
    <3> QED BY <3>1 DEF DeferInv
  <2>5. RelationInv'
    <3> SUFFICES ASSUME ~replayed, NEW p \in Spaces \ skipped, NEW c \in Rooms,
                        \A k \in DOMAIN deferred : ~IsChildOf(deferred[k], p, c)
                 PROVE  /\ Via(Db(p).state[<<"child", c>>])' => <<p, c>> \in children
                        /\ <<p, c>> \in children =>
                             \/ Via(Db(p).state[<<"child", c>>])'
                             \/ Db(c).state[<<"parent", p>>]' # NotFound
      BY <1>1, <1>2, <2>1 DEF RelationInv, IsChildOf
    <3>1. p \in Rooms
      BY SyncAssumption
    <3>2. Db(c).state[<<"parent", p>>]' = Db(c).state[<<"parent", p>>]
      BY <2>2, <3>1
    <3>3. Via(Db(p).state[<<"child", c>>])' <=> Via(Db(p).state[<<"child", c>>])
      BY <2>3, <3>1
    <3> QED BY <3>2, <3>3 DEF RelationInv
  <2> QED BY <2>4, <2>5
<1> QED BY <1>6, <1>7

(* The relation of a pair is what the last of its child events says: that  *)
(* event is the one in the databases, so is the one whose `via' counts.    *)
LEMMA DeferredRelation ==
  ASSUME TypeInv, FirstInv, KeptInv, LatestInv, DeferInv, RelationInv, ProcessDeferred
  PROVE  DeferInv' /\ RelationInv'
<1> DEFINE e == Head(deferred)
<1>1. /\ pc = "rooms" /\ todo = {} /\ deferred # <<>> /\ deferred' = Tail(deferred)
      /\ UNCHANGED <<history, db, room, txn, replayed, skipped>>
  BY DEF ProcessDeferred, txnVars, ghostVars
<1>2. deferred \in Seq(DOMAIN history) /\ db \in [Rooms -> RoomDb]
  BY DEF TypeInv, TypeOK
<1>3. PICK n \in Nat : n = Len(deferred)
  BY <1>2, Lengths
<1>4. /\ n > 0 /\ DOMAIN deferred = 1 .. n /\ e = deferred[1] /\ e \in DOMAIN history
      /\ DOMAIN deferred' = 1 .. n - 1
      /\ \A k \in 1 .. n - 1 : deferred'[k] = deferred[k + 1]
  BY <1>1, <1>2, <1>3, HeadTail
<1>5. IsSpaceEvent(e)
  BY <1>4, DeferTypes
<1>6. /\ \/ RelationAdded(e) /\ children' = children \cup {Pair(e)}
         \/ RelationRemoved(e) /\ children' = children \ {Pair(e)}
         \/ ~RelationAdded(e) /\ ~RelationRemoved(e) /\ children' = children
  BY DEF ProcessDeferred, Pair
<1> HIDE DEF e
<1>7. \A r \in Rooms : r # room /\ Db(r) = db[r] /\ Db(r)' = Db(r) /\ Covered(r) = upto
  BY <1>1, StateTypes DEF Db, Covered, Busy
<1>8. \A k \in 1 .. n - 1 : k + 1 \in 1 .. n /\ k + 1 > 1
  BY <1>4
<1>9. \A k \in 1 .. n : k # 1 => k - 1 \in 1 .. n - 1 /\ (k - 1) + 1 = k
  BY <1>4
<1>10. \A k \in 1 .. n - 1, q, d \in Rooms :
        IsChildOf(deferred[k], q, d)' <=> IsChildOf(deferred'[k], q, d)
  BY <1>1 DEF IsChildOf
<1>11. \A q, d \in Rooms :
        /\ (Db(q).state[<<"child", d>>])' = Db(q).state[<<"child", d>>]
        /\ (Db(q).state[<<"parent", d>>])' = Db(q).state[<<"parent", d>>]
        /\ Via(Db(q).state[<<"child", d>>])' <=> Via(Db(q).state[<<"child", d>>])
  BY <1>1, <1>7 DEF Via
<1>12. DeferInv'
  <2> SUFFICES ASSUME NEW k \in 1 .. n - 1, NEW p \in Rooms, NEW c \in Rooms,
                      IsChildOf(deferred'[k], p, c),
                      \A j \in 1 .. n - 1 : j > k => ~IsChildOf(deferred'[j], p, c)
               PROVE  Db(p).state[<<"child", c>>]' = deferred'[k]
    BY <1>4, <1>10 DEF DeferInv
  <2>0. Db(p).state[<<"child", c>>]' = Db(p).state[<<"child", c>>]
    BY <1>11
  <2>1. ASSUME NEW j \in 1 .. n, j > k + 1 PROVE ~IsChildOf(deferred[j], p, c)
    <3>1. j - 1 \in 1 .. n - 1 /\ j - 1 > k /\ (j - 1) + 1 = j
      BY <1>4, <2>1
    <3>2. deferred'[j - 1] = deferred[j]
      BY <1>4, <3>1
    <3> QED BY <3>1, <3>2
  <2> QED BY <1>4, <1>8, <2>0, <2>1 DEF DeferInv
<1>13. RelationInv'
  <2> SUFFICES ASSUME ~replayed, NEW p \in Spaces \ skipped, NEW c \in Rooms,
                      \A k \in 1 .. n - 1 : ~IsChildOf(deferred'[k], p, c)
               PROVE  /\ Via(Db(p).state[<<"child", c>>])' => <<p, c>> \in children'
                      /\ <<p, c>> \in children' =>
                           \/ Via(Db(p).state[<<"child", c>>])'
                           \/ (Db(c).state[<<"parent", p>>])' # NotFound
    BY <1>1, <1>4, <1>10, SyncAssumption DEF RelationInv
  <2> SUFFICES /\ Via(Db(p).state[<<"child", c>>]) => <<p, c>> \in children'
               /\ <<p, c>> \in children' =>
                    \/ Via(Db(p).state[<<"child", c>>])
                    \/ Db(c).state[<<"parent", p>>] # NotFound
    BY <1>11, SyncAssumption
  <2>1. p \in Rooms /\ <<"child", c>> \in Slots /\ <<"state", Create>> \in Slots
    BY SyncAssumption DEF Slots
  <2>2. \A k \in 1 .. n : k # 1 => ~IsChildOf(deferred[k], p, c)
    BY <1>4, <1>9
  <2> DEFINE v == db[p].state[<<"child", c>>]
  <2>3. CASE IsChildOf(e, p, c)
    <3>1. v = e /\ e # NotFound /\ Db(p) = db[p] /\ Db(c) = db[c]
      <4>1. \A j \in 1 .. n : j > 1 => ~IsChildOf(deferred[j], p, c)
        BY <2>2
      <4>2. 1 \in DOMAIN deferred
        BY <1>4
      <4>3. Db(p) = db[p] /\ Db(c) = db[c] /\ e # NotFound
        BY <1>4, <1>7, <2>1, EventTypes, NotFoundNotId
      <4>4. Db(p).state[<<"child", c>>] = deferred[1]
        BY <1>4, <2>1, <2>3, <4>1, <4>2 DEF DeferInv
      <4> QED BY <1>4, <4>3, <4>4
    <3>2. IsSpace(db[p], p)
      <4>1. IsLatest(v, p, <<"child", c>>, upto)
            /\ IsLatest(db[p].state[<<"state", Create>>], p, <<"state", Create>>, upto)
        BY <1>7, <2>1 DEF LatestInv
      <4>2. e \in InRoom(p) /\ e <= upto
        BY <3>1, <4>1 DEF IsLatest
      <4>3. PICK first \in InRoom(p) : Slot(first) = <<"state", Create>> /\ first <= e
        BY <2>1, <4>2 DEF FirstInv
      <4>4. first <= upto
        <5>1. InRoom(p) \subseteq Nat /\ upto \in Nat
          BY HistoryType DEF InRoom, Ids
        <5> QED BY <4>2, <4>3, <5>1
      <4> QED BY <4>1, <4>3, <4>4 DEF IsLatest, IsSpace
    <3>3. /\ Parent(e) = p /\ Child(e) = c /\ history[e].kind = "child" /\ Pair(e) = <<p, c>>
      BY <2>3 DEF IsChildOf, Parent, Child, Pair
    <3>4. CASE history[e].via
      <4>1. <<p, c>> \in children'
        BY <1>6, <3>2, <3>3, <3>4 DEF RelationAdded, RelationRemoved
      <4> QED BY <3>1, <3>4, <4>1 DEF Via
    <3>5. CASE ~history[e].via
      <4>1. <<p, c>> \in children' => db[c].state[<<"parent", p>>] # NotFound
        BY <1>6, <3>2, <3>3, <3>5 DEF RelationAdded, RelationRemoved, ParentEvent, HasVia
      <4> QED BY <3>1, <3>5, <4>1 DEF Via
    <3> QED BY <3>4, <3>5
  <2>4. CASE ~IsChildOf(e, p, c)
    <3>1. \A k \in DOMAIN deferred : ~IsChildOf(deferred[k], p, c)
      BY <1>4, <2>2, <2>4
    <3>2. /\ Via(Db(p).state[<<"child", c>>]) => <<p, c>> \in children
          /\ <<p, c>> \in children =>
               \/ Via(Db(p).state[<<"child", c>>])
               \/ Db(c).state[<<"parent", p>>] # NotFound
      BY <3>1 DEF RelationInv
    <3>3. CASE Pair(e) # <<p, c>>
      BY <1>6, <3>2, <3>3
    <3>4. CASE Pair(e) = <<p, c>>
      <4>1. history[e].kind = "parent" /\ Parent(e) = p /\ Child(e) = c
        BY <1>5, <2>4, <3>4 DEF Pair, Parent, Child, IsSpaceEvent, IsChildOf
      <4>2. ~RelationRemoved(e)
        BY <4>1 DEF RelationRemoved
      <4>3. RelationAdded(e) => Via(Db(p).state[<<"child", c>>])
        BY <1>7, <2>1, <4>1 DEF RelationAdded, ChildEvent, HasVia, Via
      <4> QED BY <1>6, <3>2, <3>4, <4>2, <4>3
    <3> QED BY <3>3, <3>4
  <2> QED BY <2>3, <2>4
<1> QED BY <1>12, <1>13

LEMMA RelationStep ==
  ASSUME LatestRoomInv, TreeInv, [Next]_vars
  PROVE  DeferInv' /\ RelationInv'
<1>0. /\ TypeInv /\ KnownInv /\ LatestInv /\ FirstInv /\ KeptInv /\ OwnInv /\ DeferInv
      /\ RelationInv /\ NoRoom \notin Rooms /\ (pc # "events" => room = NoRoom)
      /\ (pc = "events" => room \in Rooms) /\ db \in [Rooms -> RoomDb]
  BY StateTypes DEF LatestRoomInv, ReplayedInv, StateInv, TreeInv
<1>1. CASE Server
  <2>1. UNCHANGED <<db, room, txn, children, deferred, replayed, skipped>>
    BY <1>1, ServerUnchanged
  <2>2. \A r \in Rooms : Db(r)' = Db(r)
    BY <2>1 DEF Db
  <2> QED BY <1>0, <1>1, <2>1, <2>2, ServerKeepsEvents, RelationSame
<1>2. ASSUME history' = history, \A r \in Rooms : Db(r)' = Db(r),
             UNCHANGED <<children, deferred>>, ~replayed' => ~replayed,
             skipped \subseteq skipped'
      PROVE  DeferInv' /\ RelationInv'
  BY <1>0, <1>2, RelationSame
<1>3. CASE SyncResponse \/ SaveNextBatch \/ (Still /\ UNCHANGED <<children, deferred>>)
  <2>1. UNCHANGED <<history, db, room, txn, children, deferred, replayed, skipped>>
    BY <1>3 DEF SyncResponse, SaveNextBatch, Still, cacheVars, txnVars, dataVars, ghostVars
  <2>2. \A r \in Rooms : Db(r)' = Db(r)
    BY <2>1 DEF Db
  <2> QED BY <1>2, <2>1, <2>2
<1>4. CASE CommitRoom
  <2>1. /\ UNCHANGED <<history, children, deferred, replayed, skipped>> /\ pc = "events"
        /\ db' = [db EXCEPT ![room] = txn] /\ room' = NoRoom
    BY <1>4 DEF CommitRoom, ghostVars
  <2>2. \A r \in Rooms : Db(r)' = Db(r)
    BY <1>0, <2>1 DEF Db
  <2> QED BY <1>2, <2>1, <2>2
<1>5. ASSUME NEW s \in Rooms, BeginRoom(s) PROVE DeferInv' /\ RelationInv'
  <2>1. /\ UNCHANGED <<history, db, children, deferred, replayed, skipped>> /\ pc = "rooms"
        /\ room' = s /\ txn' = db[s]
    BY <1>5 DEF BeginRoom, cacheVars, dataVars, ghostVars
  <2>2. \A r \in Rooms : Db(r)' = Db(r)
    BY <1>0, <2>1 DEF Db
  <2> QED BY <1>2, <2>1, <2>2
<1>6. ASSUME NEW s \in Rooms, SkipRoom(s) PROVE DeferInv' /\ RelationInv'
  <2>1. /\ UNCHANGED <<history, db, room, txn, children, deferred, replayed>>
        /\ skipped' = skipped \cup {s}
    BY <1>6 DEF SkipRoom, cacheVars, txnVars, dataVars
  <2>2. \A r \in Rooms : Db(r)' = Db(r)
    BY <2>1 DEF Db
  <2> QED BY <1>2, <2>1, <2>2
<1>7. CASE Die
  <2>1. /\ UNCHANGED <<history, db, children, skipped>> /\ deferred' = <<>>
        /\ room' = NoRoom /\ replayed' = (replayed \/ Busy)
    BY <1>7 DEF Die, cacheVars, Busy
  <2>2. CASE Busy
    BY <2>1, <2>2, NoPositions DEF DeferInv, RelationInv
  <2>3. CASE ~Busy
    <3>1. deferred = <<>> /\ room = NoRoom
      BY <1>0, <2>3 DEF KnownInv, Busy
    <3>2. \A r \in Rooms : Db(r)' = Db(r)
      BY <1>0, <2>1, <3>1 DEF Db
    <3>3. UNCHANGED <<children, deferred>> /\ (~replayed' => ~replayed)
      BY <2>1, <3>1
    <3> QED BY <1>2, <2>1, <3>2, <3>3
  <2> QED BY <2>2, <2>3
<1>8. ASSUME NEW e \in Pending, SaveEvent(e), ~SaveRedactionAborts(e)
      PROVE  DeferInv' /\ RelationInv'
  BY <1>0, <1>8, TakeRelation
<1>9. CASE ProcessDeferred
  BY <1>0, <1>9, DeferredRelation
<1> QED
  BY <1>0, <1>1, <1>3, <1>4, <1>5, <1>6, <1>7, <1>8, <1>9, RoomSteps

(* A space has the rooms its own events name, and keeps another only if    *)
(* that room named it: however the child and parent events of a batch are  *)
(* mixed and whichever rooms come first, the last event of a pair decides, *)
(* unless a crash makes the client replay a response.                      *)
THEOREM TreeFollowsEvents == Spec => []RelationsFollowEvents
<1>1. LatestRoomInv /\ TreeInv => RelationsFollowEvents
  <2> SUFFICES ASSUME TypeInv, KnownInv, RelationInv, AtRest, ~replayed,
                      NEW p \in Spaces \ skipped, NEW c \in Rooms \ skipped
               PROVE  /\ ChildEvent(p, c) => <<p, c>> \in children
                      /\ <<p, c>> \in children =>
                           ChildEvent(p, c) \/ db[c].state[<<"parent", p>>] # NotFound
    BY DEF RelationsFollowEvents, LatestRoomInv, ReplayedInv, TreeInv
  <2>1. deferred = <<>> /\ p # room /\ c # room
    BY StateTypes, SyncAssumption DEF AtRest, KnownInv, Busy
  <2>2. Db(p) = db[p] /\ Db(c) = db[c] /\ DOMAIN deferred = {}
    BY <2>1, NoPositions DEF Db
  <2>3. Via(Db(p).state[<<"child", c>>]) <=> ChildEvent(p, c)
    BY <2>2 DEF Via, ChildEvent, HasVia
  <2> QED BY <2>2, <2>3 DEF RelationInv
<1>2. LatestRoomInv /\ TreeInv /\ [Next]_vars => TreeInv'
  <2> SUFFICES ASSUME LatestRoomInv, TreeInv, [Next]_vars PROVE TreeInv'
    OBVIOUS
  <2>1. TypeInv
    BY DEF LatestRoomInv, ReplayedInv
  <2>2. FirstInv' /\ KeptInv' /\ OwnInv'
    BY <2>1, FirstStep, KeptStep, OwnStep DEF TreeInv
  <2> QED BY <2>2, RelationStep DEF TreeInv
<1> QED BY <1>1, <1>2, LatestRoomInit, LatestRoomStep, TreeInit, PTL DEF Spec

=============================================================================
