-------------------------------- MODULE Tree --------------------------------
(***************************************************************************)
(* The room tab of the UI thread: the rooms and spaces known, the tree     *)
(* that shows some of them, the room selected in it, and the keys that go  *)
(* to the tree and to the input field (src/app/state.c,                    *)
(* src/ui/tab_room.c, src/app/handle_ui.c).  Batches of the syncer change  *)
(* the rooms between two events of the user.                               *)
(*                                                                         *)
(* The tables keep the order of insertion; here "the first" room of a node *)
(* is any of them.  A pointer into state_rooms.rooms is the room it points *)
(* at, and `freed' says that the array has moved since.                    *)
(***************************************************************************)
EXTENDS Integers, Sequences

CONSTANTS
  Rooms,     \* every room the server may let the user join
  Spaces,    \* those with info.is_space
  None,      \* a null pointer
  MaxDepth,  \* bound: spaces entered
  MaxEvents  \* bound: space events of one batch

ASSUME TreeAssumption ==
  /\ Spaces \subseteq Rooms
  /\ None \notin Rooms /\ "header" \notin Rooms
  /\ MaxDepth \in Nat /\ MaxEvents \in Nat

VARIABLES
  rooms,     \* the keys of state_rooms.rooms
  children,  \* the pairs <<room, child>> of the children tables
  orphans,   \* state_rooms.orphaned_rooms
  path,      \* tab_room.path
  nodes,     \* the rooms with a node in the tree
  cursor,    \* treeview.selected: a node, "header" or None
  selected,  \* tab_room.selected_room
  freed,     \* selected_room points into an array that has moved
  widget,    \* tab_room.widget
  at,        \* the UI thread's place in ui_loop, "down" once it aborted
  redraw,    \* the flag of ui_loop
  drawn      \* the room on the screen

stateVars == <<rooms, children, orphans>>
treeVars == <<path, nodes, cursor, selected, freed>>
vars == <<stateVars, treeVars, widget, at, redraw, drawn>>

SpaceEvent == [parent : Rooms, child : Rooms, added : BOOLEAN]

(* The rooms that are no known room's child: state_reset_orphans. *)
Orphans(rs, pairs) == {r \in rs : \A p \in rs : <<p, r>> \notin pairs}

(* The rooms tab_room_reset_rooms makes nodes for. *)
NodesFor(rs, pairs, tops, way) ==
  IF way = <<>> THEN tops
  ELSE {c \in rs : <<way[Len(way)], c>> \in pairs}

(* The first room of the first node that has one, spaces before rooms. *)
First(ns) == IF ns \cap Spaces # {} THEN ns \cap Spaces ELSE ns

(* Mutant of SelectAmong: the room that was selected is not looked for. *)
SelectAmongAnew(room, ns, moved) ==
  \/ /\ ns # {}
     /\ cursor' \in First(ns)
     /\ selected' = cursor'
     /\ freed' = FALSE
  \/ ns = {} /\ cursor' = None /\ selected' = None /\ freed' = FALSE

(* Mutant of SelectAmong: a room that left the tree stays selected. *)
SelectAmongOrKeep(room, ns, moved) ==
  \/ room # None /\ cursor' = room /\ selected' = room /\ freed' = moved
  \/ /\ room = None /\ ns # {}
     /\ cursor' \in First(ns)
     /\ selected' = cursor'
     /\ freed' = FALSE
  \/ /\ room = None /\ ns = {}
     /\ cursor' = None /\ selected' = None /\ freed' = FALSE

(* The end of tab_room_reset_rooms: the room that was selected stays, and  *)
(* so does the pointer to it, or the first room is selected, or none.      *)
SelectAmong(room, ns, moved) ==
  \/ room \in ns /\ cursor' = room /\ selected' = room /\ freed' = moved
  \/ /\ room \notin ns /\ ns # {}
     /\ cursor' \in First(ns)
     /\ selected' = cursor'
     /\ freed' = FALSE
  \/ ns = {} /\ cursor' = None /\ selected' = None /\ freed' = FALSE

(* Boot left the rooms and their children as the cache has them; ui_loop   *)
(* makes the tree.                                                         *)
Init ==
  /\ rooms \in SUBSET Rooms
  /\ children \in SUBSET (rooms \X Rooms)
  /\ orphans = Orphans(rooms, children)
  /\ path = <<>>
  /\ nodes = orphans
  /\ selected \in IF nodes = {} THEN {None} ELSE First(nodes)
  /\ cursor = selected
  /\ freed = FALSE
  /\ widget = "tree"
  /\ at = "poll"
  /\ redraw = TRUE
  /\ drawn = None

-----------------------------------------------------------------------------
(* ui_loop draws the tree and the selected room. *)
Redraw ==
  /\ at = "poll" /\ redraw
  /\ drawn' = selected
  /\ redraw' = FALSE
  /\ UNCHANGED <<stateVars, treeVars, widget, at>>

(* room_add_child and room_remove_child for each event of a batch in turn: *)
(* the last event of a pair says whether it is there.                      *)
Apply(pairs, events) ==
  LET Pair(n) == <<events[n].parent, events[n].child>>
      last == {n \in 1 .. Len(events) :
                 \A m \in n + 1 .. Len(events) : Pair(m) # Pair(n)}
  IN  (pairs \ {Pair(n) : n \in last})
        \cup {Pair(n) : n \in {k \in last : events[k].added}}

(* Mutant of ResetRooms: the orphans are those of before the batch. *)
ResetRoomsOldOrphans(moved) ==
  /\ orphans' = orphans
  /\ nodes' = NodesFor(rooms', children', orphans', path)
  /\ SelectAmong(selected, nodes', freed \/ moved)

(* state_reset_orphans and tab_room_reset_rooms *)
ResetRooms(moved) ==
  /\ orphans' = Orphans(rooms', children')
  /\ nodes' = NodesFor(rooms', children', orphans', path)
  /\ SelectAmong(selected, nodes', freed \/ moved)

TakeBatch(batch, events) ==
  /\ at = "poll" /\ ~redraw
  /\ rooms' = rooms \cup batch
  /\ \A n \in 1 .. Len(events) : events[n].parent \in rooms'
  /\ children' = Apply(children, events)
  /\ at' = "event"
  /\ UNCHANGED <<path, widget, drawn>>

KeepTree(batch) ==
  /\ UNCHANGED <<orphans, nodes, cursor, selected, freed>>
  /\ redraw' = (selected \in batch)

(* Mutant of HandleBatch: the tree is reset for new rooms only. *)
HandleBatchForRooms(batch, events, moved) ==
  /\ TakeBatch(batch, events)
  /\ moved => rooms' # rooms
  /\ IF rooms' # rooms THEN ResetRooms(moved) /\ redraw' = TRUE
     ELSE KeepTree(batch)

(* handle_accumulated_sync, for the rooms of a batch and its space events. *)
(* Adding a room may move the array (moved); what the old one held may     *)
(* still be there.                                                         *)
HandleBatch(batch, events, moved) ==
  /\ TakeBatch(batch, events)
  /\ moved => rooms' # rooms
  /\ IF rooms' # rooms \/ events # <<>>
     THEN ResetRooms(moved) /\ redraw' = TRUE
     ELSE KeepTree(batch)

(* Or it is not, and the process dies at its next look at selected_room,   *)
(* in the very batch that moved the array or later.                        *)
ReadFreed ==
  /\ selected # None
  /\ \/ freed /\ at # "down"
     \/ at = "poll" /\ ~redraw /\ Rooms \ rooms # {}
  /\ at' = "down"
  /\ UNCHANGED <<stateVars, treeVars, widget, redraw, drawn>>

-----------------------------------------------------------------------------
(* An event is read when poll had no batch, or behind a batch and before   *)
(* the redraw it asked for.                                                *)
Listening == at = "event" \/ (at = "poll" /\ ~redraw)

(* A left click on another widget. *)
Focus(w) ==
  /\ Listening
  /\ w # widget
  /\ widget' = w
  /\ at' = "poll"
  /\ redraw' = TRUE
  /\ UNCHANGED <<stateVars, treeVars, drawn>>

(* An arrow key or the space key moves the cursor: to any node, as the     *)
(* nodes may be folded.                                                    *)
MoveCursor(n) ==
  /\ Listening
  /\ widget = "tree"
  /\ cursor' = n
  /\ at' = "poll"
  /\ redraw' = TRUE
  /\ UNCHANGED <<stateVars, path, nodes, selected, freed, widget, drawn>>

(* Enter in the tree on a room ... *)
EnterRoom ==
  /\ Listening
  /\ widget = "tree"
  /\ cursor \in nodes \ Spaces
  /\ selected' = cursor
  /\ freed' = FALSE
  /\ at' = "poll"
  /\ redraw' = TRUE
  /\ UNCHANGED <<stateVars, path, nodes, cursor, widget, drawn>>

(* ... and on a space, whose joined rooms become the tree. *)
EnterSpace ==
  /\ Listening
  /\ widget = "tree"
  /\ cursor \in nodes \cap Spaces
  /\ Len(path) < MaxDepth
  /\ path' = Append(path, cursor)
  /\ nodes' = NodesFor(rooms, children, orphans, path')
  /\ SelectAmong(None, nodes', FALSE)
  /\ at' = "poll"
  /\ redraw' = TRUE
  /\ UNCHANGED <<stateVars, widget, drawn>>

(* Enter in an input field that is not empty: the message goes to the room *)
(* selected ...                                                            *)
SendMessage ==
  /\ Listening
  /\ widget = "input"
  /\ selected # None
  /\ at' = "poll"
  /\ redraw' = TRUE
  /\ UNCHANGED <<stateVars, treeVars, widget, drawn>>

(* ... and without one the assertion fails. *)
SendNowhere ==
  /\ Listening
  /\ widget = "input"
  /\ selected = None
  /\ at' = "down"
  /\ UNCHANGED <<stateVars, treeVars, widget, redraw, drawn>>

(* A resize, another key in the input field, the mouse over the messages. *)
OtherEvent ==
  /\ Listening
  /\ at' = "poll"
  /\ redraw' = TRUE
  /\ UNCHANGED <<stateVars, treeVars, widget, drawn>>

(* An event of no consequence, or none behind a batch. *)
NoEvent ==
  /\ at = "event"
  /\ at' = "poll"
  /\ UNCHANGED <<stateVars, treeVars, widget, redraw, drawn>>

-----------------------------------------------------------------------------
Batches == UNION {[1 .. n -> SpaceEvent] : n \in 0 .. MaxEvents}

Next ==
  \/ Redraw
  \/ \E batch \in SUBSET Rooms, events \in Batches, moved \in BOOLEAN :
       HandleBatch(batch, events, moved)
  \/ ReadFreed
  \/ \E w \in {"tree", "input", "message buffer"} : Focus(w)
  \/ \E n \in nodes \cup {"header"} : MoveCursor(n)
  \/ EnterRoom
  \/ EnterSpace
  \/ SendMessage
  \/ SendNowhere
  \/ OtherEvent
  \/ NoEvent

Spec == Init /\ [][Next]_vars

-----------------------------------------------------------------------------
TypeOK ==
  /\ rooms \subseteq Rooms
  /\ children \subseteq rooms \X Rooms
  /\ orphans \subseteq rooms
  /\ path \in Seq(Spaces)
  /\ nodes \subseteq rooms
  /\ cursor \in nodes \cup {"header", None}
  /\ selected \in Rooms \cup {None}
  /\ freed \in BOOLEAN /\ redraw \in BOOLEAN
  /\ widget \in {"tree", "input", "message buffer"}
  /\ at \in {"poll", "event", "down"}
  /\ drawn \in Rooms \cup {None}

(* Whatever the batches did, in whatever space the user is: the tree shows *)
(* exactly the joined rooms of that space, or those without a parent.      *)
TreeMirrorsRooms ==
  /\ orphans = Orphans(rooms, children)
  /\ nodes = NodesFor(rooms, children, orphans, path)

(* The selected room is one the tree shows, none is selected only when it  *)
(* shows none - the one case in which Enter in the input field fails its   *)
(* assertion -, and the spaces of the path and the orphans stay known: the *)
(* assertions of tab_room_reset_rooms.                                     *)
SelectionIsShown ==
  /\ selected = None <=> nodes = {}
  /\ selected # None => selected \in nodes
  /\ cursor \in nodes \cup {"header", None}
  /\ nodes \subseteq rooms /\ orphans \subseteq rooms
  /\ \A n \in 1 .. Len(path) : path[n] \in rooms

(* Unless spaces contain each other in a circle, or something that is no   *)
(* space has children, every room can be come to from the top of the tree. *)
Circle == \E C \in SUBSET rooms : C # {} /\ \A c \in C : \E p \in C :
            <<p, c>> \in children

OnlySpacesHaveChildren == \A p, c \in rooms : <<p, c>> \in children => p \in Spaces

RoomsAreReachable ==
  ~Circle /\ OnlySpacesHaveChildren =>
    \A C \in SUBSET rooms :
      /\ orphans \subseteq C
      /\ \A p \in C \cap Spaces, c \in rooms : <<p, c>> \in children => c \in C
      => C = rooms

(* A message goes to the room the user sees, also when a batch comes       *)
(* between what was drawn and Enter.  The code has two exceptions: the     *)
(* batch took the room seen out of the tree, or no room was seen and the   *)
(* batch brought the first; the message goes to the room selected anew.    *)
SentWhereSeen ==
  [][SendMessage /\ drawn # None /\ drawn \in nodes => selected = drawn]_vars

=============================================================================
