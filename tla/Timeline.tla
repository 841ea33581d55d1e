------------------------------ MODULE Timeline ------------------------------
(***************************************************************************)
(* One room between the syncer, which appends messages to its timelines    *)
(* and redacts them (src/app/room_ds.c), and the UI thread, which turns    *)
(* the timelines into the lines of the message buffer, draws them and      *)
(* handles the mouse (src/ui/message_buffer.c, src/main.c).  Appending     *)
(* takes realloc_or_modify_mutex only where the array must grow; filling   *)
(* the buffer, drawing, events and redactions take it for their duration.  *)
(*                                                                         *)
(* Messages are numbered as they are ordered: 1 .. Back were loaded into   *)
(* the backward timeline at boot, the others go to the forward one.  How   *)
(* many lines a message takes depends on the width only (module Wrap).     *)
(***************************************************************************)
EXTENDS Integers, Sequences

CONSTANTS
  Back,         \* the messages loaded at boot
  MaxMessages,  \* bound: the last message of the run
  Reserve,      \* TIMELINE_INITIAL_RESERVE
  Widths,       \* x2 - x1 of the widget, which stands for x1 and x2, as the
                \* terminal's width gives them both
  Heights,      \* y2 - y1 of the widget
  LineCount     \* lines of a message at a width, 0 if none fits

Messages == 1 .. MaxMessages
Points == [width : Widths, height : Heights]

ASSUME TimelineAssumption ==
  /\ Back \in Nat /\ MaxMessages \in Nat /\ Back <= MaxMessages
  /\ Reserve \in Nat \ {0}
  /\ Widths \subseteq Nat /\ Heights \subseteq Nat
  /\ Widths # {} /\ Heights # {}
  /\ LineCount \in [Messages -> [Widths -> Nat]]

VARIABLES
  syncer,         \* the syncer's place: "sync", "grow", "put", "publish", "ack"
  dirty,          \* the room has changes no batch has told the UI about
  put,            \* the last message written to a slot of a timeline
  len,            \* the last message the atomic timeline->len covers
  capacity,       \* slots of the forward timeline's array
  redacted,       \* messages with message->redacted
  mutex,          \* holder of realloc_or_modify_mutex: "syncer", "ui", "none"
  ui,             \* the UI thread's place in ui_loop
  redraw,         \* the flag of ui_loop
  shown,          \* the room is the selected one
  points,         \* the widget as the terminal's size makes it
  consumed_back,  \* timelines[TIMELINE_BACKWARD].consumed
  consumed,       \* timelines[TIMELINE_FORWARD].consumed
  upto,           \* `len' of the loop over the forward timeline
  buffer,         \* message_buffer.buf
  zeroed,         \* message_buffer.zeroed
  scroll,         \* message_buffer.scroll
  selected,       \* message_buffer.selected, 0 for none
  last_points,    \* message_buffer.last_points
  drawn,          \* the message the user sees in each row, Nothing while
                  \* the room is not on the screen or a redraw is under way
  stale           \* since it was drawn, a redaction or a batch that selected
                  \* another room came in between

timelineVars == <<dirty, put, len, capacity, redacted>>
screenVars == <<drawn, stale>>
bufferVars == <<consumed_back, consumed, buffer, zeroed, scroll, last_points>>
vars == <<syncer, timelineVars, mutex, ui, redraw, shown, points, upto,
          bufferVars, selected, screenVars>>

Nothing == <<>>

(* room_alloc: the buffer is empty at first, so that nothing reads         *)
(* last_points before the first message sets it.                           *)
Init ==
  /\ syncer = "sync"
  /\ dirty = FALSE
  /\ put = Back
  /\ len = Back
  /\ capacity = Reserve
  /\ redacted = {}
  /\ mutex = "none"
  /\ ui = "poll"
  /\ redraw = TRUE
  /\ shown \in BOOLEAN
  /\ points \in Points
  /\ consumed_back = 0
  /\ consumed = 0
  /\ upto = 0
  /\ buffer = <<>>
  /\ zeroed = FALSE
  /\ scroll = 0
  /\ selected = 0
  /\ last_points \in Points
  /\ drawn = Nothing
  /\ stale = FALSE

-----------------------------------------------------------------------------
(* The syncer. *)

(* message_buffer_ensure_sane_scroll, for a buffer of n lines *)
SaneScroll(s, n) == IF n = 0 THEN 0 ELSE IF s >= n THEN n - 1 ELSE s

(* Mutant of GrowLock: the array moves without the mutex. *)
GrowUnlocked ==
  /\ syncer = "sync"
  /\ put < MaxMessages
  /\ put - Back + 1 > capacity
  /\ syncer' = "grow"
  /\ UNCHANGED <<timelineVars, mutex, ui, redraw, shown, points, upto,
                 bufferVars, selected, screenVars>>

(* LOCK_IF_GROW: the next message does not fit the array. *)
GrowLock ==
  /\ syncer = "sync"
  /\ put < MaxMessages
  /\ put - Back + 1 > capacity
  /\ mutex = "none"
  /\ mutex' = "syncer"
  /\ syncer' = "grow"
  /\ UNCHANGED <<timelineVars, ui, redraw, shown, points, upto, bufferVars,
                 selected, screenVars>>

GrowUnlock ==
  /\ syncer = "grow"
  /\ capacity' = 2 * capacity
  /\ mutex' = "none"
  /\ syncer' = "put"
  /\ UNCHANGED <<dirty, put, len, redacted, ui, redraw, shown, points, upto,
                 bufferVars, selected, screenVars>>

(* room_put_message_event: the slot is written ... *)
PutMessage ==
  /\ \/ syncer = "put"
     \/ syncer = "sync" /\ put < MaxMessages /\ put - Back + 1 <= capacity
  /\ put' = put + 1
  /\ dirty' = TRUE
  /\ syncer' = "publish"
  /\ UNCHANGED <<len, capacity, redacted, mutex, ui, redraw, shown, points,
                 upto, bufferVars, selected, screenVars>>

(* ... and then the length covers it. *)
PublishLength ==
  /\ syncer = "publish"
  /\ len' = put
  /\ syncer' = "sync"
  /\ UNCHANGED <<dirty, put, capacity, redacted, mutex, ui, redraw, shown,
                 points, upto, bufferVars, selected, screenVars>>

(* The lines s .. e of the buffer are those of message m. *)
IsRun(m, s, e) ==
  /\ \A k \in s .. e : buffer[k].msg = m
  /\ s > 1 => buffer[s - 1].msg # m
  /\ e < Len(buffer) => buffer[e + 1].msg # m

Without(s, e) ==
  [k \in 1 .. Len(buffer) - (e - s + 1) |->
     IF k < s THEN buffer[k] ELSE buffer[k + (e - s + 1)]]

(* Mutant of RedactLines: the scroll position is left as it was. *)
RedactLinesKeepScroll(m) ==
  \/ /\ \A k \in 1 .. Len(buffer) : buffer[k].msg # m
     /\ UNCHANGED <<buffer, scroll>>
  \/ \E s, e \in 1 .. Len(buffer) :
       /\ s <= e
       /\ IsRun(m, s, e)
       /\ buffer' = Without(s, e)
       /\ UNCHANGED scroll

(* message_buffer_redact: the binary search finds any of the message's     *)
(* lines, and those around it go with it.                                  *)
RedactLines(m) ==
  \/ /\ \A k \in 1 .. Len(buffer) : buffer[k].msg # m
     /\ UNCHANGED <<buffer, scroll>>
  \/ \E s, e \in 1 .. Len(buffer) :
       /\ s <= e
       /\ IsRun(m, s, e)
       /\ buffer' = Without(s, e)
       /\ scroll' = SaneScroll(scroll, Len(buffer'))

(* room_redact_event, for a message that was not redacted before *)
Redact(m) ==
  /\ syncer = "sync"
  /\ m <= len
  /\ m \notin redacted
  /\ mutex = "none"
  /\ redacted' = redacted \cup {m}
  /\ RedactLines(m)
  /\ dirty' = TRUE
  /\ stale' = TRUE
  /\ UNCHANGED <<syncer, put, len, capacity, mutex, ui, redraw, shown, points,
                 upto, consumed_back, consumed, zeroed, selected, last_points,
                 drawn>>

(* sync_cb gives a batch, with or without this room, to the UI thread and  *)
(* waits.                                                                  *)
PublishBatch ==
  /\ syncer = "sync"
  /\ syncer' = "ack"
  /\ UNCHANGED <<timelineVars, mutex, ui, redraw, shown, points, upto,
                 bufferVars, selected, screenVars>>

-----------------------------------------------------------------------------
(* The UI thread: filling the buffer. *)

(* message_buffer_should_recalculate *)
ShouldRecalculate == buffer = <<>> \/ last_points.width # points.width

(* Mutant of StartFill: the forward timeline stays consumed. *)
StartFillKeepsForward ==
  /\ ui = "poll" /\ redraw /\ shown
  /\ mutex = "none"
  /\ mutex' = "ui"
  /\ redraw' = FALSE
  /\ LET back == IF ShouldRecalculate THEN 0 ELSE consumed_back
     IN  /\ consumed_back' = IF back = Back THEN back ELSE 0
         /\ ui' = IF back = Back THEN "forward" ELSE "back"
         /\ upto' = IF back = Back THEN len ELSE upto
         /\ IF ShouldRecalculate \/ back # Back
            THEN buffer' = <<>> /\ zeroed' = TRUE
            ELSE UNCHANGED <<buffer, zeroed>>
  /\ consumed' = consumed
  /\ UNCHANGED <<syncer, timelineVars, shown, points, scroll, last_points,
                 selected, screenVars>>

(* room_maybe_reset_and_fill_events takes the mutex and decides what to    *)
(* start from; a backward timeline that is not consumed starts afresh.     *)
StartFill ==
  /\ ui = "poll" /\ redraw /\ shown
  /\ mutex = "none"
  /\ mutex' = "ui"
  /\ redraw' = FALSE
  /\ LET back == IF ShouldRecalculate THEN 0 ELSE consumed_back
     IN  /\ consumed_back' = IF back = Back THEN back ELSE 0
         /\ ui' = IF back = Back THEN "forward" ELSE "back"
         /\ upto' = IF back = Back THEN len ELSE upto
         /\ IF ShouldRecalculate \/ back # Back
            THEN buffer' = <<>> /\ zeroed' = TRUE
            ELSE UNCHANGED <<buffer, zeroed>>
  /\ consumed' = IF ShouldRecalculate THEN 0 ELSE consumed
  /\ UNCHANGED <<syncer, timelineVars, shown, points, scroll, last_points,
                 selected, screenVars>>

(* message_buffer_insert, passed over for a redacted message *)
Insert(m) ==
  IF m \in redacted
  THEN UNCHANGED <<buffer, zeroed, last_points>>
  ELSE /\ buffer' = buffer \o [k \in 1 .. LineCount[m][points.width] |->
                                [msg |-> m, line |-> k]]
       /\ zeroed' = FALSE
       /\ last_points' = IF zeroed THEN points ELSE last_points

(* One round of the loop over the backward timeline. *)
FillBackward ==
  /\ ui = "back"
  /\ Insert(consumed_back + 1)
  /\ consumed_back' = consumed_back + 1
  /\ IF consumed_back + 1 = Back
     THEN ui' = "forward" /\ upto' = len
     ELSE UNCHANGED <<ui, upto>>
  /\ UNCHANGED <<syncer, timelineVars, mutex, redraw, shown, points, consumed,
                 scroll, selected, screenVars>>

(* Mutant of FillForward: one message too many. *)
FillForwardPastEnd ==
  /\ ui = "forward"
  /\ Back + consumed <= upto
  /\ Insert(Back + consumed + 1)
  /\ consumed' = consumed + 1
  /\ UNCHANGED <<syncer, timelineVars, mutex, ui, redraw, shown, points, upto,
                 consumed_back, scroll, selected, screenVars>>

(* One round of the loop over the forward timeline. *)
FillForward ==
  /\ ui = "forward"
  /\ Back + consumed < upto
  /\ Insert(Back + consumed + 1)
  /\ consumed' = consumed + 1
  /\ UNCHANGED <<syncer, timelineVars, mutex, ui, redraw, shown, points, upto,
                 consumed_back, scroll, selected, screenVars>>

EndFill ==
  /\ ui = "forward"
  /\ Back + consumed >= upto
  /\ scroll' = SaneScroll(scroll, Len(buffer))
  /\ mutex' = "none"
  /\ ui' = "draw"
  /\ UNCHANGED <<syncer, timelineVars, redraw, shown, points, upto,
                 consumed_back, consumed, buffer, zeroed, last_points,
                 selected, screenVars>>

(* message_buffer_redraw goes upwards from the bottom row and from line    *)
(* len - scroll of the buffer.                                             *)
Rows ==
  [y \in 0 .. points.height - 1 |->
     LET i == Len(buffer) - scroll - (points.height - 1 - y)
     IN  IF i > 0 THEN buffer[i].msg ELSE 0]

Draw ==
  /\ ui = "draw"
  /\ mutex = "none"
  /\ last_points' = IF buffer = <<>> THEN last_points ELSE points
  /\ drawn' = Rows
  /\ stale' = FALSE
  /\ ui' = "poll"
  /\ UNCHANGED <<syncer, timelineVars, mutex, redraw, shown, points, upto,
                 consumed_back, consumed, buffer, zeroed, scroll, selected>>

(* Another room is shown, or none. *)
DrawOther ==
  /\ ui = "poll" /\ redraw /\ ~shown
  /\ redraw' = FALSE
  /\ drawn' = Nothing
  /\ stale' = FALSE
  /\ UNCHANGED <<syncer, timelineVars, mutex, ui, shown, points, upto,
                 bufferVars, selected>>

-----------------------------------------------------------------------------
(* The UI thread: the pipe and the terminal. *)

(* Mutant of HandleBatch: no redraw for events of the room. *)
HandleBatchNoRedraw ==
  /\ ui = "poll" /\ ~redraw
  /\ syncer = "ack"
  /\ syncer' = "sync"
  /\ dirty' = FALSE
  /\ shown' \in BOOLEAN
  /\ redraw' = (shown' # shown)
  /\ stale' = (stale \/ shown' # shown)
  /\ ui' = "event"
  /\ UNCHANGED <<put, len, capacity, redacted, mutex, points, upto, bufferVars,
                 selected, drawn>>

(* poll reports the batch, and the syncer may go on.  What the batch tells *)
(* of other rooms may have tab_room_reset_rooms select another room, this  *)
(* one or none.  A redraw is due then, for changes of the selected room,   *)
(* and for some of the changes of others.                                  *)
HandleBatch ==
  /\ ui = "poll" /\ ~redraw
  /\ syncer = "ack"
  /\ syncer' = "sync"
  /\ dirty' = FALSE
  /\ shown' \in BOOLEAN
  /\ redraw' \in BOOLEAN
  /\ (dirty /\ shown) \/ shown' # shown => redraw'
  /\ stale' = (stale \/ shown' # shown)
  /\ ui' = "event"
  /\ UNCHANGED <<put, len, capacity, redacted, mutex, points, upto, bufferVars,
                 selected, drawn>>

(* An event is read when poll had nothing in the pipe, or behind the batch *)
(* that was there, before the redraw the batch asked for.                  *)
Listening == ui = "event" \/ (ui = "poll" /\ ~redraw /\ syncer # "ack")

(* The loop starts again with a redraw, which clears the screen. *)
Redraws ==
  /\ ui' = "poll"
  /\ redraw' = TRUE
  /\ drawn' = Nothing

Ignored ==
  /\ ui' = "poll"
  /\ UNCHANGED <<redraw, drawn, scroll, selected>>

MouseFrame == UNCHANGED <<syncer, timelineVars, mutex, shown, points, upto,
                          consumed_back, consumed, buffer, zeroed, last_points,
                          stale>>

(* The mouse is over the message buffer, and a room is selected. *)
Mouse == Listening /\ shown /\ mutex = "none"

ScrollUp ==
  /\ Mouse
  /\ IF Len(buffer) > last_points.height /\ scroll + 1 < Len(buffer)
     THEN scroll' = scroll + 1 /\ UNCHANGED selected /\ Redraws
     ELSE Ignored
  /\ MouseFrame

ScrollDown ==
  /\ Mouse
  /\ IF scroll > 0
     THEN scroll' = scroll - 1 /\ UNCHANGED selected /\ Redraws
     ELSE Ignored
  /\ MouseFrame

(* Mutant of Click: an off-by-one in the rows. *)
ClickAbove(y) ==
  /\ Mouse
  /\ LET index == Len(buffer) - scroll - (last_points.height - y + 1)
         hit == index \in 0 .. Len(buffer) - 1
     IN  \/ /\ \/ last_points.width # points.width
               \/ buffer = <<>>
               \/ ~hit /\ selected = 0
            /\ Ignored
         \/ /\ buffer # <<>>
            /\ hit \/ selected # 0
            /\ selected' = IF ~hit \/ buffer[index + 1].msg = selected
                           THEN 0 ELSE buffer[index + 1].msg
            /\ UNCHANGED scroll
            /\ Redraws
  /\ MouseFrame

(* MESSAGE_BUFFER_SELECT in row y of the widget: `index' counts from 0 and *)
(* is unsigned, one that is no line being above or below all of them.      *)
(* Left of the widget that was drawn last the click is ignored.            *)
Click(y) ==
  /\ Mouse
  /\ LET index == Len(buffer) - scroll - (last_points.height - y)
         hit == index \in 0 .. Len(buffer) - 1
     IN  \/ /\ \/ last_points.width # points.width
               \/ buffer = <<>>
               \/ ~hit /\ selected = 0
            /\ Ignored
         \/ /\ buffer # <<>>
            /\ hit \/ selected # 0
            /\ selected' = IF ~hit \/ buffer[index + 1].msg = selected
                           THEN 0 ELSE buffer[index + 1].msg
            /\ UNCHANGED scroll
            /\ Redraws
  /\ MouseFrame

(* TB_EVENT_RESIZE, also with the same size, which stands for every other  *)
(* event that asks for a redraw and leaves this room alone.                *)
Resize(p) ==
  /\ Listening
  /\ points' = p
  /\ Redraws
  /\ UNCHANGED <<syncer, timelineVars, mutex, shown, upto, bufferVars, selected,
                 stale>>

(* Enter on another node of the tree: this room is selected or left. *)
SwitchRoom ==
  /\ Listening
  /\ shown' = ~shown
  /\ Redraws
  /\ UNCHANGED <<syncer, timelineVars, mutex, points, upto, bufferVars, selected,
                 stale>>

NoEvent ==
  /\ ui = "event"
  /\ Ignored
  /\ UNCHANGED <<syncer, timelineVars, mutex, shown, points, upto,
                 consumed_back, consumed, buffer, zeroed, last_points, stale>>

-----------------------------------------------------------------------------
Syncer ==
  \/ GrowLock
  \/ GrowUnlock
  \/ PutMessage
  \/ PublishLength
  \/ \E m \in Messages : Redact(m)
  \/ PublishBatch

Loop ==
  \/ StartFill
  \/ FillBackward
  \/ FillForward
  \/ EndFill
  \/ Draw
  \/ DrawOther
  \/ HandleBatch
  \/ NoEvent

Event ==
  \/ ScrollUp
  \/ ScrollDown
  \/ \E y \in 0 .. points.height - 1 : Click(y)
  \/ \E p \in Points : Resize(p)
  \/ SwitchRoom

Next == Syncer \/ Loop \/ Event

Spec == Init /\ [][Next]_vars

(* Both threads run, and a response comes to its end: the syncer gives up  *)
(* the mutex, publishes what it wrote and sends its batch.  The user need  *)
(* not do anything.                                                        *)
FairSpec ==
  /\ Spec
  /\ WF_vars(GrowUnlock \/ PutMessage \/ PublishLength)
  /\ WF_vars(PublishBatch)
  /\ WF_vars(Loop)

-----------------------------------------------------------------------------
Filling == ui \in {"back", "forward"}
LineSet == [msg : Messages, line : Nat]

(* The types; the counters stay within one another. *)
TypeOK ==
  /\ syncer \in {"sync", "grow", "put", "publish", "ack"}
  /\ ui \in {"poll", "back", "forward", "draw", "event"}
  /\ mutex \in {"none", "syncer", "ui"}
  /\ put \in Back .. MaxMessages /\ len \in Back .. put
  /\ capacity \in Nat
  /\ redacted \subseteq 1 .. len
  /\ consumed_back \in 0 .. Back /\ consumed \in 0 .. len - Back
  /\ dirty \in BOOLEAN /\ redraw \in BOOLEAN /\ shown \in BOOLEAN
  /\ zeroed \in BOOLEAN /\ stale \in BOOLEAN
  /\ points \in Points /\ last_points \in Points
  /\ buffer \in Seq(LineSet)
  /\ scroll \in Nat
  /\ selected \in 0 .. len
  /\ upto \in 0 .. len

(* While the UI thread reads the timelines it holds the mutex and the array*)
(* does not move, and every slot below the length it read is written,      *)
(* although the syncer goes on appending.                                  *)
ReadsAreSafe ==
  /\ Filling => mutex = "ui" /\ syncer # "grow" /\ upto <= put
  /\ syncer = "grow" => mutex = "syncer"
  /\ put - Back <= capacity

(* The buffer holds the lines of the messages consumed so far that are not *)
(* redacted, all of them, each once and in order, for the width it was     *)
(* last filled for: nothing is lost or doubled by resizing, leaving and    *)
(* coming back, or a redaction in between.                                 *)
ConsumedMessages == 1 .. consumed_back \cup Back + 1 .. Back + consumed

LinesOf(m, width) == {[msg |-> m, line |-> k] : k \in 1 .. LineCount[m][width]}

BufferIsTimeline ==
  /\ {buffer[k] : k \in 1 .. Len(buffer)} =
       UNION {LinesOf(m, last_points.width) : m \in ConsumedMessages \ redacted}
  /\ \A j, k \in 1 .. Len(buffer) :
       j < k => \/ buffer[j].msg < buffer[k].msg
                \/ /\ buffer[j].msg = buffer[k].msg
                   /\ buffer[j].line < buffer[k].line

(* Between two critical sections the position scrolled to is a line of the *)
(* buffer, and a zeroed buffer is empty: the assertions of                 *)
(* message_buffer_handle_event and message_buffer_redraw.                  *)
ScrollIsSane ==
  /\ ~Filling => scroll = SaneScroll(scroll, Len(buffer))
  /\ zeroed => buffer = <<>>

(* A click selects the message the user sees in that row, or unselects it, *)
(* and never one where the screen is empty.  Two things may come between   *)
(* what was drawn and the click: a redaction by the syncer, and the batch  *)
(* the click is read behind, when it makes another room the selected one.  *)
(* Nothing else does, neither a new size nor a scroll, nor any other batch.*)
ClickSelectsDrawn ==
  [][\A y \in 0 .. points.height - 1 :
       Click(y) /\ ~stale
         => /\ y \in DOMAIN drawn
            /\ IF drawn[y] = 0 THEN selected' \in {0, selected}
               ELSE selected' = IF drawn[y] = selected THEN 0 ELSE drawn[y]]_vars

(* A message that is published reaches the buffer of a room that stays on  *)
(* the screen, if it is not redacted before.                               *)
MessagesAreShown ==
  \A m \in Messages :
    m <= len ~> (m \in ConsumedMessages \cup redacted \/ ~shown)

=============================================================================
