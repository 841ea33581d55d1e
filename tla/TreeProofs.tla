----------------------------- MODULE TreeProofs -----------------------------
(***************************************************************************)
(* Proofs about the room tab, for any rooms and spaces, any relation of    *)
(* them, any depth and batches of any length.                              *)
(***************************************************************************)
EXTENDS Tree, TLAPS

USE TreeAssumption

(* The screen shows the selected room whenever no redraw is due; behind a  *)
(* batch it does, or what it shows has left the tree.                      *)
Seen ==
  /\ at # "down" /\ ~redraw => drawn = selected
  /\ at = "event" => selected = drawn \/ drawn \notin nodes

Inv == TypeOK /\ TreeMirrorsRooms /\ SelectionIsShown /\ Seen

(* What tab_room_reset_rooms leaves selected, for a room that was before.  *)
LEMMA SelectedAmong ==
  ASSUME NEW ns \in SUBSET Rooms, NEW room \in Rooms \cup {None},
         NEW moved \in BOOLEAN, SelectAmong(room, ns, moved)
  PROVE  /\ selected' = None <=> ns = {}
         /\ selected' # None => selected' \in ns
         /\ selected' \in Rooms \cup {None}
         /\ cursor' \in ns \cup {"header", None}
         /\ freed' \in BOOLEAN
         /\ room \in ns => selected' = room
<1>1. First(ns) \subseteq ns
  BY DEF First
<1> QED BY <1>1 DEF SelectAmong

(* The orphans and the nodes are known rooms. *)
LEMMA NodesKnown ==
  ASSUME NEW rs, NEW pairs, NEW way
  PROVE  /\ Orphans(rs, pairs) \subseteq rs
         /\ NodesFor(rs, pairs, Orphans(rs, pairs), way) \subseteq rs
BY DEF Orphans, NodesFor

(* Init. *)
LEMMA InvInit == Init => Inv
<1> SUFFICES ASSUME Init PROVE Inv
  OBVIOUS
<1>1. orphans \subseteq rooms /\ nodes = orphans
  BY DEF Init, Orphans
<1>2. First(nodes) \subseteq nodes /\ (nodes # {} => First(nodes) # {})
  BY DEF First
<1>3. /\ selected = None <=> nodes = {}
      /\ selected # None => selected \in nodes
      /\ cursor = selected
  BY <1>1, <1>2 DEF Init
<1>4. path = <<>> /\ path \in Seq(Spaces) /\ Len(path) = 0
  BY DEF Init
<1>5. TypeOK
  BY <1>1, <1>3, <1>4 DEF Init, TypeOK
<1>6. TreeMirrorsRooms
  BY <1>4 DEF Init, TreeMirrorsRooms, NodesFor
<1>7. SelectionIsShown
  BY <1>1, <1>3, <1>4 DEF SelectionIsShown
<1>8. Seen
  BY DEF Init, Seen
<1> QED BY <1>5, <1>6, <1>7, <1>8 DEF Inv

(* What a batch makes of the rooms. *)
LEMMA BatchRooms ==
  ASSUME Inv, NEW batch \in SUBSET Rooms, NEW events \in Batches,
         TakeBatch(batch, events)
  PROVE  /\ rooms \subseteq rooms' /\ rooms' \subseteq Rooms
         /\ children' \subseteq rooms' \X Rooms
         /\ UNCHANGED <<path, widget, drawn>> /\ at' = "event"
         /\ at = "poll" /\ ~redraw
         /\ events = <<>> => children' = children
<1>1. PICK n \in 0 .. MaxEvents : events \in [1 .. n -> SpaceEvent]
  BY DEF Batches
<1>2. /\ Len(events) = n
      /\ \A k \in 1 .. n : /\ events[k].parent \in Rooms
                           /\ events[k].child \in Rooms
  BY <1>1 DEF SpaceEvent
<1>3. /\ rooms' = rooms \cup batch /\ rooms' \subseteq Rooms
      /\ \A k \in 1 .. n : events[k].parent \in rooms'
      /\ children' = Apply(children, events)
      /\ children \subseteq rooms \X Rooms
  BY <1>2 DEF TakeBatch, Inv, TypeOK
<1>4. ASSUME NEW q \in children' PROVE q \in rooms' \X Rooms
  <2>1. \/ q \in children
        \/ \E k \in 1 .. n : q = <<events[k].parent, events[k].child>>
    BY <1>2, <1>3 DEF Apply
  <2> QED BY <1>2, <1>3, <2>1
<1>5. ASSUME events = <<>> PROVE children' = children
  <2>1. Len(events) = 0
    BY <1>5
  <2> QED BY <1>3, <2>1 DEF Apply
<1> QED BY <1>3, <1>4, <1>5 DEF TakeBatch

(* A batch keeps the invariant. *)
LEMMA BatchStep ==
  ASSUME Inv, NEW batch \in SUBSET Rooms, NEW events \in Batches,
         NEW moved \in BOOLEAN, HandleBatch(batch, events, moved)
  PROVE  Inv'
<1>1. /\ rooms \subseteq rooms' /\ rooms' \subseteq Rooms
      /\ children' \subseteq rooms' \X Rooms
      /\ UNCHANGED <<path, widget, drawn>> /\ at' = "event"
      /\ at = "poll" /\ ~redraw
      /\ events = <<>> => children' = children
  BY BatchRooms DEF HandleBatch
<1>2. drawn = selected
  BY <1>1 DEF Inv, Seen
<1>3. \A n \in 1 .. Len(path') : path'[n] \in rooms'
  BY <1>1 DEF Inv, SelectionIsShown
<1>4. CASE rooms' # rooms \/ events # <<>>
  <2>1. /\ orphans' = Orphans(rooms', children')
        /\ nodes' = NodesFor(rooms', children', orphans', path')
        /\ SelectAmong(selected, nodes', freed \/ moved)
        /\ redraw' = TRUE
    BY <1>1, <1>4 DEF HandleBatch, ResetRooms
  <2>2. orphans' \subseteq rooms' /\ nodes' \subseteq rooms'
    BY <2>1, NodesKnown
  <2>3. /\ nodes' \in SUBSET Rooms /\ selected \in Rooms \cup {None}
        /\ (freed \/ moved) \in BOOLEAN
    BY <1>1, <2>2 DEF Inv, TypeOK
  <2>4. /\ selected' = None <=> nodes' = {}
        /\ selected' # None => selected' \in nodes'
        /\ selected' \in Rooms \cup {None}
        /\ cursor' \in nodes' \cup {"header", None}
        /\ freed' \in BOOLEAN
        /\ selected \in nodes' => selected' = selected
    BY <2>1, <2>3, SelectedAmong
  <2>5. TypeOK'
    BY <1>1, <2>1, <2>2, <2>4 DEF Inv, TypeOK
  <2>6. TreeMirrorsRooms'
    BY <2>1 DEF TreeMirrorsRooms
  <2>7. SelectionIsShown'
    BY <1>3, <2>2, <2>4 DEF SelectionIsShown
  <2>8. Seen'
    BY <1>1, <1>2, <2>1, <2>4 DEF Seen
  <2> QED BY <2>5, <2>6, <2>7, <2>8 DEF Inv
<1>5. CASE rooms' = rooms /\ events = <<>>
  <2>1. UNCHANGED <<rooms, children, orphans, path, nodes, cursor, selected,
                    freed, widget, drawn>>
    BY <1>1, <1>5 DEF HandleBatch, KeepTree
  <2>2. redraw' \in BOOLEAN
    BY <1>5 DEF HandleBatch, KeepTree
  <2>3. TypeOK'
    BY <1>1, <2>1, <2>2 DEF Inv, TypeOK
  <2>4. TreeMirrorsRooms' /\ SelectionIsShown'
    BY <2>1 DEF Inv, TreeMirrorsRooms, SelectionIsShown
  <2>5. Seen'
    BY <1>1, <1>2, <2>1 DEF Seen
  <2> QED BY <2>3, <2>4, <2>5 DEF Inv
<1> QED BY <1>4, <1>5

(* Entering a space keeps the invariant. *)
LEMMA SpaceStep == ASSUME Inv, EnterSpace PROVE Inv'
<1>1. /\ UNCHANGED <<rooms, children, orphans, widget, drawn>>
      /\ at' = "poll" /\ redraw' = TRUE
      /\ cursor \in nodes \cap Spaces /\ path' = Append(path, cursor)
      /\ nodes' = NodesFor(rooms, children, orphans, path')
      /\ SelectAmong(None, nodes', FALSE)
  BY DEF EnterSpace, stateVars
<1>2. nodes' \subseteq rooms /\ orphans \subseteq rooms /\ rooms \subseteq Rooms
  BY <1>1, NodesKnown DEF Inv, TypeOK, TreeMirrorsRooms
<1>3. nodes' \in SUBSET Rooms /\ None \in Rooms \cup {None} /\ FALSE \in BOOLEAN
  BY <1>2
<1>4. /\ selected' = None <=> nodes' = {}
      /\ selected' # None => selected' \in nodes'
      /\ selected' \in Rooms \cup {None}
      /\ cursor' \in nodes' \cup {"header", None}
      /\ freed' \in BOOLEAN
  BY <1>1, <1>3, SelectedAmong
<1>5. path' \in Seq(Spaces) /\ \A n \in 1 .. Len(path') : path'[n] \in rooms'
  <2>1. path \in Seq(Spaces) /\ cursor \in Spaces /\ cursor \in rooms
    BY <1>1 DEF Inv, TypeOK
  <2>2. /\ path' \in Seq(Spaces) /\ Len(path') = Len(path) + 1
        /\ path'[Len(path) + 1] = cursor
        /\ \A n \in 1 .. Len(path) : path'[n] = path[n]
    BY <1>1, <2>1
  <2>3. Len(path) \in Nat /\ \A n \in 1 .. Len(path) : path[n] \in rooms
    BY <2>1 DEF Inv, SelectionIsShown
  <2> QED BY <1>1, <2>1, <2>2, <2>3
<1>6. TypeOK'
  BY <1>1, <1>2, <1>4, <1>5 DEF Inv, TypeOK
<1>7. TreeMirrorsRooms'
  BY <1>1 DEF Inv, TreeMirrorsRooms
<1>8. SelectionIsShown'
  BY <1>1, <1>2, <1>4, <1>5 DEF SelectionIsShown
<1>9. Seen'
  BY <1>1 DEF Seen
<1> QED BY <1>6, <1>7, <1>8, <1>9 DEF Inv

(* Every step keeps the invariant. *)
LEMMA InvStep == Inv /\ [Next]_vars => Inv'
<1> SUFFICES ASSUME Inv, [Next]_vars PROVE Inv'
  OBVIOUS
<1>1. CASE \E batch \in SUBSET Rooms, events \in Batches, moved \in BOOLEAN :
             HandleBatch(batch, events, moved)
  BY <1>1, BatchStep
<1>2. CASE EnterSpace
  BY <1>2, SpaceStep
<1>3. CASE Redraw
  BY <1>3 DEF Redraw, stateVars, treeVars, Inv, TypeOK, TreeMirrorsRooms,
              SelectionIsShown, Seen
<1>4. CASE ReadFreed \/ SendNowhere
  BY <1>4 DEF ReadFreed, SendNowhere, stateVars, treeVars, Inv, TypeOK,
              TreeMirrorsRooms, SelectionIsShown, Seen
<1>5. ASSUME NEW w \in {"tree", "input", "message buffer"}, Focus(w)
      PROVE  Inv'
  BY <1>5 DEF Focus, stateVars, treeVars, Inv, TypeOK, TreeMirrorsRooms,
              SelectionIsShown, Seen
<1>6. ASSUME NEW n \in nodes \cup {"header"}, MoveCursor(n) PROVE Inv'
  BY <1>6 DEF MoveCursor, stateVars, Inv, TypeOK, TreeMirrorsRooms,
              SelectionIsShown, Seen
<1>7. CASE EnterRoom
  BY <1>7 DEF EnterRoom, stateVars, Inv, TypeOK, TreeMirrorsRooms,
              SelectionIsShown, Seen
<1>8. CASE SendMessage \/ OtherEvent
  BY <1>8 DEF SendMessage, OtherEvent, stateVars, treeVars, Inv, TypeOK,
              TreeMirrorsRooms, SelectionIsShown, Seen
<1>9. CASE NoEvent
  BY <1>9 DEF NoEvent, stateVars, treeVars, Inv, TypeOK, TreeMirrorsRooms,
              SelectionIsShown, Seen
<1>10. CASE UNCHANGED vars
  BY <1>10 DEF vars, stateVars, treeVars, Inv, TypeOK, TreeMirrorsRooms,
               SelectionIsShown, Seen
<1> QED BY <1>1, <1>2, <1>3, <1>4, <1>5, <1>6, <1>7, <1>8, <1>9, <1>10
        DEF Next

(* The invariant holds in every reachable state. *)
LEMMA InvAlways == Spec => []Inv
BY InvInit, InvStep, PTL DEF Spec

(* The types of the variables. *)
THEOREM TypeCorrect == Spec => []TypeOK
BY InvAlways, PTL DEF Inv

(* The tree shows exactly the rooms it should after every batch. *)
THEOREM TreeIsCurrent == Spec => []TreeMirrorsRooms
BY InvAlways, PTL DEF Inv

(* The selected room is always shown, and none is selected only when the   *)
(* tree is empty.                                                          *)
THEOREM SelectionStaysShown == Spec => []SelectionIsShown
BY InvAlways, PTL DEF Inv

(* No room is hidden, as long as the spaces make no circle. *)
THEOREM NoRoomIsHidden == Spec => []RoomsAreReachable
<1>1. TreeMirrorsRooms => RoomsAreReachable
  <2> SUFFICES ASSUME TreeMirrorsRooms, ~Circle, OnlySpacesHaveChildren,
                      NEW C \in SUBSET rooms, orphans \subseteq C,
                      \A p \in C \cap Spaces, c \in rooms :
                        <<p, c>> \in children => c \in C
               PROVE  C = rooms
    BY DEF RoomsAreReachable
  <2> DEFINE H == rooms \ C
  <2>1. ASSUME NEW c \in H PROVE \E p \in H : <<p, c>> \in children
    <3>1. PICK p \in rooms : <<p, c>> \in children
      BY <2>1 DEF TreeMirrorsRooms, Orphans
    <3>2. p \notin C
      BY <2>1, <3>1 DEF OnlySpacesHaveChildren
    <3> QED BY <3>1, <3>2
  <2>2. H \in SUBSET rooms
    OBVIOUS
  <2> HIDE DEF H
  <2>3. H = {}
    BY <2>1, <2>2 DEF Circle
  <2> QED BY <2>3 DEF H
<1> QED BY <1>1, InvAlways, PTL DEF Inv

(* A message goes to the room on the screen. *)
THEOREM MessagesGoWhereSeen == Spec => SentWhereSeen
<1>1. Inv /\ [Next]_vars =>
        [SendMessage /\ drawn # None /\ drawn \in nodes => selected = drawn]_vars
  BY DEF Inv, Seen, SendMessage, Listening
<1> QED BY <1>1, InvAlways, PTL DEF Spec, SentWhereSeen
=============================================================================
