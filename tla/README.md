# matrix-tui: models, model checking and proofs

matrix-tui is a terminal client for Matrix: a UI loop on termbox, a syncer
thread that feeds events into an LMDB cache and into the rooms in memory, and a
queue thread that runs what must not block the UI (login, sending).  This
directory holds TLA+ modules that model it, TLC configurations that check them
on small instances, and theorems that TLAPS proves for every value of the
constants.  Paths below are relative to `src/` of the source tree
(`main.c`, `app/state.c`, ...).

Two rules hold in every module.  `assert` is never compiled out
(`assert_override_hack/assert.h`), and a failed allocation calls `abort` or
fails an assertion: both end the process, so neither needs a model of its own
except where the failure is a legal input's fault.  LMDB errors other than
`MDB_KEYEXIST` and `MDB_NOTFOUND` abort too (`ABORT_OR_RETURN`,
`db/cache.c:89`).

## 1. The system

| component | code | state | operations |
|---|---|---|---|
| ring queue | `util/queue.c` | `head`, `tail`, `data[50]` | `queue_push_tail`, `queue_pop_head` |
| threads | `main.c`, `app/queue_callbacks.c`, `app/state.h` | `done`, `sync_cond_signaled`, the pipe, `queue`, two mutexes with their condition variables | `init_everything`, `login`, `ui_loop`, `cleanup`, `syncer`, `queue_listener`, `lock_and_push`, `handle_login`, `handle_message` |
| cache | `db/cache.c` | LMDB: `DB_AUTH`, `DB_ROOMS`, `DB_SPACE_CHILDREN`, eight databases per room | `cache_save_*`, `cache_process_deferred_event`, `cache_auth_*`, the iterators |
| sync | `app/state.c` | `accumulated_sync_data`, the deferred space events | `sync_cb`, `handle_accumulated_sync`, `populate_from_cache`, `state_reset_orphans` |
| room timelines | `app/room_ds.c` | two timelines of messages, `members`, `children`, `realloc_or_modify_mutex` | `room_put_event`, `room_bsearch`, `room_add_child`, `room_remove_child`, `room_maybe_reset_and_fill_events` |
| space tree | `ui/tab_room.c`, `app/state.c` | `orphaned_rooms`, `path`, the tree widget, `selected_room` | `tab_room_reset_rooms`, `tab_room_add_room`, `tab_room_get_path` |
| message buffer | `ui/message_buffer.c` | rendered lines, scroll position, selection | insert, redact, scroll, zero and fill, word wrap |
| input dispatch | `app/handle_ui.c` | active widget, input field | `handle_tab_login`, `handle_tab_room`, `handle_tree`, `handle_input` |
| login form | `ui/login_form.c` | active field, fields, error | `form_handle_event`, `login_form_*` |
| drawing | `ui/draw.c`, `ui/render_message.c` | none | output only |
| logging, fatal errors | `util/log.h`, `util/fatal.c`, `util/scoped_globals.c` | none | output, `abort` |
| safe_read, safe_write | `util/safe_read_write.c` | none | retry loops around `read` and `write` |
| libraries | libmatrix, LMDB, stb_ds, termbox, widgets | not in the tree | used through their headers |

How they interact:

- The **queue thread** sleeps on `queue_cond`; the UI thread pushes an item
  under `queue_mutex` and wakes it.  A login answers with a 4-byte code through
  `thread_comm_pipe`.
- The **syncer** runs `matrix_sync_forever`, which calls `sync_cb` with every
  response.  `sync_cb` writes one LMDB transaction per room, changes the rooms
  in memory on the way, processes the space events that had to wait for all
  rooms, saves `next_batch`, and sends the *address of a local variable* through
  the same pipe.  It then waits on `sync_cond` until the UI thread has used it.
- The **UI thread** polls the terminal and the pipe, calls
  `handle_accumulated_sync` and signals back.  Room tables are changed without
  a lock; the handshake is all that keeps the two threads apart.
- A **restart** rebuilds everything from the cache (`populate_from_cache`) and
  asks the server for what lies after `next_batch`.

What makes it hard: wakeups that fall between a test and a wait; one flag with
two meanings (acknowledged, quit); a pipe without framing; stack data shared by
address; a batch of several transactions that a crash can cut anywhere, after
which the server sends a longer response with events that were already saved;
events whose effect depends on other rooms and so is deferred past their
transaction; timelines that must stay sorted for a binary search while
redactions reach back into them.

What makes each part correct:

- queue: it is a bounded FIFO, across any number of wraps.
- threads: one owner of the shared data at a time; no message of the wrong kind
  in the pipe; every item in one place and freed once; messages sent in order;
  teardown only when alone; batches used, items run, logins answered.
- cache and sync: `next_batch` never covers an event that is not saved; order
  and index agree and follow the server whatever is replayed; redacted content
  is gone; the latest state wins; the space tree follows the events.
- rooms in memory: they show what the cache has, after a batch as after a boot.
- space tree: the tree shows the rooms in no space, or those of the space
  entered; the selected room is one of them; every room can be reached; a message
  goes to the room on the screen.
- message buffer: the lines of a message are its text, broken where it may be;
  the lines of the buffer are those of the unredacted messages in order, while the
  syncer appends; the view stays inside the buffer; a click hits what is seen.

## 2. Modules

| module | models |
|---|---|
| `RingQueue` | the data of `util/queue.c`: `struct queue` and the two functions as operators |
| `Queue` | those operators as a state machine; `RefinesFifo` |
| `Fifo` | abstract: a bounded FIFO of a sequence |
| `QueueProofs` | theorems about `Queue` |
| `Threads` | the three threads, the pipe, both condition variables, login, sending, shutdown; `RefinesRendezvous` |
| `Rendezvous` | abstract: who owns the batch and the room tables |
| `ThreadsProofs` | theorems about `Threads` |
| `RoomCache` | the databases of one room and the writes of `cache_save_event` as operators |
| `Sync` | server, response, transactions, deferred events, `next_batch`, rooms in memory, crash and boot |
| `SyncProofs` | the writes to a room's databases, and the types of `Sync` |
| `SyncOrderProofs` | theorems about the order, completeness and redaction of what `Sync` saves |
| `SyncRoomProofs` | theorems about the rooms in memory, the room state and the space tree of `Sync` |
| `Wrap` | the loop of `message_buffer_insert` that breaks a message into lines |
| `WrapProofs` | theorems about `Wrap` |
| `Timeline` | one room between the syncer and the UI thread: timelines, message buffer, mouse |
| `MCTimeline` | the messages and their numbers of lines, for TLC |
| `TimelineProofs` | theorems about `Timeline` |
| `Tree` | rooms, spaces, orphans, the tree view, the selected room, keys and batches |
| `MCTree` | the symmetry of the spaces, for TLC |
| `TreeProofs` | theorems about `Tree` |

The modules meet at the places where one relies on what another shows.  `Sync`
has one program counter because of `HandshakeExclusion` of `Threads`; `Threads`
has a FIFO because `Queue` implements `Fifo`; `Timeline` takes the number of
lines of a message as a constant, which is what `Wrap` computes from the width
alone; the batches of `Tree` are those of `Sync`, where `ChildrenMirrorCache`
contains the assertion that the parent of a space event is known.

### Queue

`struct queue` is a record of `head`, `tail` and a function `data` over the
slots; 0 (NULL) marks an empty slot, as in the code.  `Wrap` is the reset at
`QUEUE_SIZE`, `IsFull` the test of the tail slot.  Calls never overlap, since
every caller holds `queue_mutex` or has joined the other thread.  `Contents`
reads the window from `head` to `tail` as a sequence: it is the refinement
mapping to `Fifo`.

### Threads

Each thread has a program counter (`main`, `sync`, `qt`), and one action is the
code between two accesses to shared state another thread can see.  The points
that matter are kept apart: the test of the flag (`CheckSignaled`), the wait
(`CondWaitSync`) and its reset (`ResetSignaled`) in `sync_cb`; setting the flag
(`AckFlag`, `CtrlC`) and signalling (`AckSignal`, `QuitSignal`) in `ui_loop`;
the test of the queue and the wait in `queue_listener`.  `sync_mutex` has no
variable, because only the syncer takes it: that is the point.  `queue_mutex`
is held by the queue thread in the states `pop` and `block`, and by the main
thread inside `LockAndPush`.  The queue is the FIFO that `Queue` proves it is.
Spurious wakeups are actions.  The server, the user, the outcome of a login and
a failing initialisation are nondeterministic.  `submitted`, `dropped`, `ran`
and `freed` are history variables.

`MatrixLogin` saves the three credentials in one step; the program does it in
three transactions (see section 7).

### Sync

The syncer and the UI thread take turns (`HandshakeExclusion`, proved in
`ThreadsProofs`), so `Sync` has one program counter, `pc`:

    down -> idle -> rooms <-> events        sync_cb, a room and its events
                     rooms -> published     next_batch saved, batch in the pipe
                          -> handle -> idle handle_accumulated_sync

`PopulateFromCache` is the boot.  `SyncResponse` fixes `upto`, the last event
of the response.  `BeginRoom` opens the transaction: `txn` is a copy of the
room's databases that `CommitRoom` publishes in `db`.  One action per kind of
event stands for `cache_save_event` with the `room_put_event` that follows it.
`ProcessDeferred` is one `cache_process_deferred_event` in its own transaction,
`SaveNextBatch` the end.  `HandleRooms` and `HandleSpaceEvent` are
`handle_accumulated_sync`.  `Crash` can happen in every state: everything but
the committed cache is lost.  A failed assertion is a crash that leaves its name
in `aborted`.  `SkipRoom` is the `continue` after a room's databases could not
be opened.  `SyncEnds` is the end of syncing in a program that goes on:
`matrix_sync_forever` returns with an error (`main.c:82`), or `sync_cb` waits for
ever, as the runs `threads_ack` and `threads_quit` show it can.  `Quit` is the
user leaving such a program; the cache is then opened again by the next start.

The server is external.  `history` is the sequence of its events; the id of an
event is its position.  A response has, for each room with news, the last
`Limit` events as the timeline, and as the state block the latest state of
every slot among those the timeline leaves out: that is what the Matrix
specification says of a sync response, and what the code relies on.  A message is known in memory by its
position in `ORDER_TO_EVENTS`, as in the code; an array the code keeps sorted
is a set, and `TimelinesAreSorted` states the assertions that keep it sorted.

Member events and state with an empty key are one kind ("state"), since they
differ only in the database they go to; "other" stands for attachments and for
state events with an unknown key, which are stored and otherwise ignored.

### Wrap

One action per branch of the loop.  `x` is relative to `start_x`, and `columns`
is the room for a line, `x2 - padding`.  `Advance` takes a character without
overflow; `WrapWord` is the branch that finds the word at the overflow, makes a
line of what is before it and one of the word with what follows as far as it
fits, and sets `i` back or forward; `BreakLine` ends the line behind the
character.  `find_word_start_end` and `find_next_word_start` are given by what
they return (`IsWord`, `IsNextWordStart`).  A character has one column or two, may
end a word (what `ch_can_split_word` accepts, the wide space U+3000 among them),
or is a newline.  That `widget_uc_sanitize` leaves no other character without
columns is taken from the widget library.  `widget_should_scroll` and
`widget_uc_sanitize` are external; their meaning is that of the widget library:
a character scrolls if it is a forced break or would touch `x2`.

### Timeline

Messages are numbered in their order: those up to `Back` were loaded at boot,
the others go to the forward timeline.  The syncer's steps are the ones another
thread can see: growing the array under the mutex (`GrowLock`, `GrowUnlock`),
writing the slot (`PutMessage`), publishing the length (`PublishLength`),
redacting (`Redact`, in one step since it holds the mutex throughout), and
giving its batch away (`PublishBatch`).  The UI thread fills the buffer one
message per step while it holds the mutex (`StartFill`, `FillBackward`,
`FillForward`, `EndFill`), lets it go, takes it again to draw (`Draw`), and then
handles a batch, an event, or both, in the order of `ui_loop`: an event may be
read behind a batch before the redraw that the batch asked for.  A batch tells
of this room (`dirty`) or only of others, and what it tells may have
`tab_room_reset_rooms` select another room, so `HandleBatch` changes `shown` as
it likes and asks for a redraw when it does.  `drawn` is what the user sees, the
message in each row, while the room is on the screen.  `stale` records that
since the screen was drawn a redaction, or a batch that changed the selected
room, came in between.  A width stands for the pair `x1`, `x2`, which the code
compares and which both follow from the width of the terminal.

### Tree

The tables keep the order of insertion; the model does not, so "the first room"
of a node is any of them.  `HandleBatch` is `handle_accumulated_sync` with
everything it calls: new rooms, space events in order (`Apply`), and, if either
changed something, `state_reset_orphans` and `tab_room_reset_rooms`
(`ResetRooms`, `SelectAmong`).  The keys are those of `handle_tab_room`: focus,
cursor, Enter on a room, on a space and in the input field.  `selected_room`
points into an array that moves when it grows: `freed` marks the pointer, and
`ReadFreed` lets the process die at any later look, as one outcome of the
undefined behaviour; the other is that the old bytes are still there.

## 3. Runs

| run | bounds | states | question |
|---|---|---|---|
| `queue` | 3 slots, 3 items | 425 | is the ring buffer a bounded FIFO? |
| `threads` | 2 slots, 3 responses, 4 items | 61 thousand | are the threads safe, do they make progress? |
| `sync_messages` | 1 room, 5 events of every plain kind, 1 failure | 406 thousand | do cache, order, redactions and memory agree, and does every event arrive? |
| `sync_rooms` | a space and a room, 5 events, 1 failure | 5.4 million | is nothing missed, does the space tree follow the events? |
| `wrap` | bodies of up to 6 characters, 1 to 5 columns | 524 thousand | does wrapping keep text, words and width, and end? |
| `timeline` | 2 messages of the boot, 2 that arrive, 2 widths, 2 heights | 817 thousand | is the unlocked reading safe, is the buffer the timeline? |
| `tree` | 2 spaces and a room, path of 2, 1 space event per batch | 268 thousand | does the tree follow the batches, does the selection? |

**queue.**  `WindowOK` says the occupied slots are exactly those from `head` to
`tail` round the ring, so one slot tells full from empty; `RefinesFifo` says
nothing is lost, duplicated or reordered.  Three slots wrap in every way (`head` before, at and after `tail`).

**threads.**  `HandshakeExclusion`: while the UI thread reads the array on
`sync_cb`'s stack, the syncer stands in the wait of that very call.
`PipeDiscipline`: no reader finds a message of the other kind or more than one
message.  `ItemAccounting`: every item is in the queue, in the hands of the
queue thread, or freed, and in one of them only.  `RunInOrder`: messages run in
the order typed and skip only what a full queue refused.  `LoginIsSaved`,
`TeardownAlone`, `RefinesRendezvous`.  Under fairness `BatchIsTaken`,
`ItemIsRun`, `LoginIsAnswered`.  Two slots and four items fill the queue and
drop one while another runs; three responses reach the flag left over from an
earlier one.

**sync_messages.**  `OrderIsIndexed`: the three databases of the order agree
in every committed state and inside the transaction.  `OrderFollowsServer`:
a replay, however much longer than the response that was cut short, puts no
event behind one that came before it.  `RedactionsApplied`: content is cleared
exactly when a redaction of the message is saved.  `MemoryMirrorsCache`: what
is readable in memory is what has content in the cache.  `TimelinesAreSorted`:
the assertions of `room_put_message_event`, and `room_bsearch` finds every
loaded message.  `StateIsLatest`: unless a crash cut a response short, the
cached state is the latest up to `next_batch`.  With `Limit = 2` and five
events a response has a state block, a gap and a timeline; with
`NumPaginate = 1` messages remain unloaded at boot.  `EventsArrive`: every event
of the server is in the end saved and covered by `next_batch`, also if a
response is empty, the process crashes, or syncing ends and the program is
started again.  It speaks of runs in which syncing ends only finitely often and
not for good: a syncer that hangs or has given up receives nothing.  Three
things may keep an event out of the cache: a failed assertion; a room that could
not be opened (`SkipRoom`); and a limited timeline, since an event with `Limit`
later ones of its room in the response is in its gap and is never asked for.

**sync_rooms.**  `NothingMissed`: the last `Limit` events of a room up to
`next_batch` are saved, whatever crashed.  `ChildrenMirrorCache`: the children
of a space in memory are those of the cache whenever no batch is on its way,
and a space event names a known room (the assertion of `state.c:89`).
`RelationsFollowEvents`: unless a crash cut a response short, a space has the
rooms its own events name, and another one only if that room named the space.
Five events are the two `m.room.create`, a child event, a parent event and the
removal of one.

**wrap.**  `LinesPartition`: the lines are the text, cut, without gap or
overlap.  `NewlineEndsLine`: the assertion of `message_buffer_redraw`.
`WordsKept`: a line ends inside a word only if the word fits no line.
`LinesFit`: without its last character a line is narrower than the widget, so
narrow text stays inside and a wide character sticks out by at most one column.
`AllPlaced`: the loop ends with every character on a line, or has no room at all.
Spaces are of one column and of two.  Six characters hold a word that wraps twice, one set back to, and a newline or
a space at either side of the edge; in five columns most bodies fit and some
words do not.

**timeline.**  `ReadsAreSafe`: while the UI thread reads the timelines the array
does not move, and every slot below the length it read is written.
`BufferIsTimeline`: the buffer has the lines of the consumed unredacted messages,
all, once, in order and for one width, through resizing, leaving and coming back.
`ScrollIsSane`: the assertions on `scroll` and `zeroed`.  `ClickSelectsDrawn`:
a click selects the message seen in that row, whatever new messages, batch or
size came before it, but for two cases the code has: a redaction after the screen
was drawn, and a batch that selected another room (see section 4).  `MessagesAreShown`: a published message reaches the buffer of the room
on the screen.  One reserved slot makes the array grow with the second message
that arrives; the four messages have one line or two, or none where the sender's
name leaves no room, in a widget of one or two rows, so the buffer scrolls.

**tree.**  `TreeMirrorsRooms`: the nodes are the joined rooms of the space
entered, or the rooms without a parent.  `SelectionIsShown`: the selected room is
one of them, and none is selected only when there is none, which is the one case
where Enter in the input field fails its assertion (`SendNowhere`).
`RoomsAreReachable`: unless spaces form a circle, or a room that is no space has
children, every room can be come to from the top.  `SentWhereSeen`: a message
goes to the room on the screen, unless the batch Enter is read behind took that
room out of the tree, or brought the first room when there was none to see.  The
spaces may be exchanged with one another (`SpacesAlike`), which is sound because
only safety is checked and no definition tells them apart.  Two spaces nest, form
a circle and share a room; initial states already have any relation, so one
space event per batch reaches the rest.

`sync_rooms` uses `LazySpec`, in which the server speaks only while the client is
idle.  What it says while the client is
busy is in no response before the next one and no invariant looks at it, so
every behaviour of `Spec` has one of `LazySpec` that reaches the same client
states, in far fewer of them.  Liveness needs the real order of steps:
`sync_messages` uses `FairSpec`; the violations and the theorems are about `Spec`.

Fairness: each thread's own code goes on when it can (weak fairness of
`MainStep`, `SyncStep`, `QueueStep`, and of `Process` in `Sync`).  That is the
scheduling pthreads give, that `poll` reports a readable pipe, and that
`matrix_login` and `matrix_send_message` return.  Nothing is assumed of the
user, the server, crashes or spurious wakeups.  In `Sync` fairness includes
that a program that crashed is started again; that syncing goes on is no
assumption of fairness (`SyncEnds` is always possible) but a premise of
`EventsArrive`.  In `Timeline` the UI thread's loop
goes on (`Loop`, without the user's events), the syncer that holds the mutex or
has written a slot goes on, and a response ends and sends its batch; new
messages, redactions and the user are not forced.  In `Wrap` the loop runs.
Deadlock is checked in `Sync` and `Queue`, where something is always possible;
`Threads` ends after `cleanup`, `Wrap` with the message, `Timeline` when the
bound is reached and nobody types while another room is shown, `Tree` when the
process has died.

## 4. Where code and comments part

Five runs expect a violation; each checks one property that a comment or an
assertion states and the code does not keep.

- `threads_ack`: `main` sets `sync_cond_signaled` and signals without
  `sync_mutex`.  Both can fall between `sync_cb`'s test of the flag and its wait,
  and the syncer waits for ever with its acknowledgement given.
- `threads_quit`: even if every wait is woken again (`KindSpec`), Ctrl-C can
  leave the syncer waiting.  The one flag that quitting sets is reset by the call
  that is leaving its wait; the next `sync_cb` waits for an acknowledgement that
  nobody gives, and `cleanup` joins it for ever.
- `sync_replay`: a room is committed before its deferred space events are
  processed.  After a crash in between the response comes again, the event is
  taken for a duplicate, and the relation is never made, although the comment at
  `state.c:388` promises that the left out events are received on the next boot.
  `ReplayRestores` looks only when a response is saved (`published`), so the time
  between boot and replay does not count.  By the same early return a replayed
  state block is put again over a newer event of the timeline, which is then
  skipped: with `Kinds = {"state"}` the same property fails for that reason.
- `sync_redacted`: a second redaction of a message that is loaded fails
  `assert(!to_redact->redacted)`.
- `sync_boot`: the branch for `m.space.parent` does not ask whether the parent
  is a space; the next boot fails `assert(space_room->info.is_space)`.

Two more that no run states.  `cleanup` sets `done` and signals `queue_cond`
without `queue_mutex`, with the same lost wakeup as `threads_ack`.  And
`RelationsFollowEvents` is weaker than the comments at `cache.c:1003` and
`cache.c:1097`: a relation that was kept for the parent event's sake stays when
that event goes, because the branch gives up without a child event before it
looks at `via_was_null`.

`StateIsLatest` and `RelationsFollowEvents` carry the condition `~replayed`,
which is what the replay finding makes necessary.

Met in the UI: `path` is never popped, so there is no way back out of a space,
and an empty space leaves no room selected (`SendNowhere`).  A batch that adds a
room may move the array `selected_room` points into (`ReadFreed`).  When the
room on the screen leaves the tree in a batch, the first room of the tree is
selected before the redraw, and an Enter read behind that batch goes there; so
does one behind the batch that brings the first room: the exceptions in
`SentWhereSeen`.  In the same way a click read behind a batch that selected
another room acts on the buffer of that room, by the size it was last drawn
with, while the user still sees the one before (`stale` in `Timeline`); at most
one event is read before the redraw.  Spaces in a circle are nobody's orphan and are not
shown: the exception in `RoomsAreReachable`.  A word of exactly
`columns - 1` columns at the start of a line overflows at the space behind it, and
then gets an empty line in front; a wide character may stick out by one column
(`LinesFit`).

## 5. Proofs

`QueueProofs` proves, for every `QUEUE_SIZE` and set of items, that `TypeOK`
and `WindowOK` are invariants and that `Queue` implements `Fifo`.  The two
together are inductive.  A push appends to `Contents` and a pop takes its head:
lemmas `PushAppends` and `PopTakesHead`, by cases on whether the window wraps.

`ThreadsProofs` proves for every queue size and every number of responses and
items: `TypeOK`, `HandshakeExclusion`, `PipeDiscipline`, `LoginIsSaved`,
`ItemAccounting`, `TeardownAlone`, `RunInOrder`, and that `Threads` implements
`Rendezvous`.  None of these is inductive.  The strengthening has named parts:
`LoginInv` (a login code is in the pipe or on its way only while the form is
locked, and before it is written the credentials are saved), `HandshakeInv`
(who waits where when `main` handles, acknowledges or quits, and what the pipe
then holds), `ItemsInv` (ids in the queue increase and are not freed),
`TeardownInv` (what a passed join implies), `OrderInv` (what ran is older than
what is held, and that older than the queue).  One lemma proves that a step keeps
each part, with a case per action; the theorems combine them with PTL.

`SyncProofs` proves `TypeOK` of `Sync`; its inductive form adds that redactions
name an earlier event (`HistoryOK`) and that only space events are deferred
(`DeferredOK`).

`SyncOrderProofs` proves, for every set of rooms and every number of events and
crashes, `OrderIsIndexed`, `OrderFollowsServer`, `NothingMissed` and
`RedactionsApplied`.  Lemma `Steps` reduces a step to what it does to the order
(`Take` is one event going into the transaction, `Quiet` leaves all of it
alone).  The argument for the order:

- `ReplayInv`: for each room there is a last response, up to some `m`, whose
  events were committed: nothing after `m` is saved, and its whole timeline
  after `next_batch` is.  It is needed because a crash between the commits and
  `next_batch` leaves rooms that are ahead of it, each by another amount.
- A replay reaches at least as far as `m`.  An event of the new timeline up to
  `m` was in the old timeline too, since fewer events come behind it in a
  shorter view (`WindowShrinks`, by cardinality), so it is saved.  Hence what is
  new is younger than all that is saved (`BeginPending`), and stays so as the
  oldest is taken first (`PendingInv`, `TakePending`).
- `DoneInv`: rooms of the response that are neither to do nor at hand are
  committed.  When `next_batch` moves, its windows consist of that and of what
  earlier windows had.
- A redaction is younger than its target, and what is saved from a timeline is
  younger than all before it, so a message is never saved after its redaction
  (`TakeRedacted`).

`SyncRoomProofs` proves the five properties of `Sync` that relate a room to its
cache or to the server, for every set of rooms and every number of events and
crashes.  It builds on the invariants above; each property needs one of its own.

- `MemoryMirrorsCache` and `TimelinesAreSorted` follow from `MirrorInv`: the
  forward timeline lies behind the backward one, what is marked redacted is
  loaded, and everything that still has its content is loaded from the oldest
  loaded event on.  An event that is saved gets the position behind all others
  (`OrderIsIndexed`), hence behind all that are loaded, and one that is saved
  already is not put again.  A redaction of a message that is saved but not loaded changes
  the cache alone, and then nothing older is loaded.
- `KnownInv`: the rooms of the cache are those in memory and those of the batch,
  and each comes once.
- `ChildrenMirrorCache` holds only when no batch is on its way.  `ChildrenInv`
  says it of all other moments: the last that a batch says of a pair of rooms is
  so in the cache (`LastInv`), a pair that it does not name is in memory as in
  the cache (`OtherInv`), and each space of a relation is a room (`ParentsInv`).
  Handling the batch applies it in order, so the last event of a pair decides.
- `StateIsLatest`: up to `Covered(r)` (`next_batch`, or the end of the response
  at hand when the room is done) the cache has the latest event of each slot
  (`LatestInv`).  Within a room's transaction it is so of the slots of which nothing
  is to come, and the last event to come of a slot is its latest
  (`PendingLatest`).  That needs the state block to have one event for each slot,
  before the whole timeline (`BlockInv`).  Both hold only while no response
  was replayed, as the property says; `SavedInv` is what a replay takes away: no
  event of a response is saved already.
- `RelationsFollowEvents` (`TreeInv`): child events are deferred to the end of
  the response.  The last deferred one of a pair is the one in the databases
  (`DeferInv`), and a pair of which none is deferred has its relation from its
  events (`RelationInv`).  `FirstInv` (a room begins with `m.room.create`) makes
  a room's kind known before its first child event.

`WrapProofs` proves, for every text, length and width, `TypeOK`,
`LinesPartition`, `NewlineEndsLine`, `WordsKept` and `LinesFit` of `Wrap`.  The strengthening
is `OpenLine`: the line that is not ended yet holds no forced break, which needs
that a word and what `find_next_word_start` adds end at the first one.  For
`LinesFit` it is `FitInv`: `x` is the width of the open line and less than the
columns.  `Span`, a sum over the characters, is a recursive function, and the
library's induction theorems cannot be instantiated here.  So that it exists, is
unique and has the value of its equation is shown by smallest counterexample
(lemmas `Smallest`, `SpansExist`, `SpansAgree`, `SpanValue`).

`TimelineProofs` proves, for every number of messages, reserve, size and number
of lines per message, `TypeOK`, `ReadsAreSafe`, `BufferIsTimeline`,
`ScrollIsSane` and `ClickSelectsDrawn` of `Timeline`.  Together with three more
parts they are inductive: `Places` (who holds the mutex and how far the fill is,
for each place of the UI thread; the backward timeline is consumed wholly or not
at all outside the fill), `Width` (`last_points` has the width the buffer was
filled for), and `Screen` (whenever an event can be read, the room is the
selected one and nothing came between, `drawn` is what a redraw would draw from
the buffer, the scroll position and the size of now).  `Screen` is what
`ClickSelectsDrawn` rests on: lemma `ClickedLine` shows that the index the click
computes is the line drawn in that row.

`TreeProofs` proves, for every set of rooms and spaces, path and length of a
batch, `TypeOK`, `TreeMirrorsRooms`, `SelectionIsShown`, `RoomsAreReachable` and
`SentWhereSeen` of `Tree`.  `RoomsAreReachable` follows from the first: of the
rooms not reached take the set; none of them is an orphan, so each has a parent,
which is not reached either, or it would show the child, and so the set is a
circle.  `SentWhereSeen` needs `Seen`: without a pending redraw the selected room
is the drawn one, and behind a batch it is that or the drawn one has left the tree.

Assumptions: those named in the modules (`QueueAssumption`,
`ThreadsAssumption`, `SyncAssumption`, `TimelineAssumption` and the like), which say only what the
constants are; TLC evaluates them in every run.

Every safety invariant, action property and refinement that a passing run checks
is a theorem.  Only model-checked is liveness (`BatchIsTaken`, `ItemIsRun`,
`LoginIsAnswered`, `EventsArrive`, `AllPlaced`, `MessagesAreShown`): fairness is
stated with `ENABLED`, which the prover does not reach.

## 6. Plan

1. (done) `Queue`, `Threads`, `Sync` with their runs and proofs.
2. (done) `Wrap`, `Timeline` and `Tree` with theirs.
3. (done) The rest of `Sync` and `LinesFit` proved.
4. Display names: member events in the cache by state key and in memory by
   sender; the backward walk at boot; the assertion of `room_ds.c:176`.
5. Crash of the whole process in `Threads`, with the credentials in three
   transactions.

## 7. Not modelled, and why

- Drawing but for the message buffer, colours, UTF-8, logging: output only.
- libmatrix, LMDB, stb_ds, termbox and the widgets are not in the tree.  The
  modules state what the code relies on: a commit is atomic and durable, one
  write transaction at a time, a response holds what lies after `next_batch`.
- `RELATIONS` is written and never read.
- Display names (`room_put_member`, `populate_room_users`): wording of the lines.
  `room_put_message_event` asserts that the sender of a message has one
  (`room_ds.c:176`); that the server sends a member event of every sender before
  their first message, in each response and at boot, is not checked.
- The cursor of the login form: one key moves it by one place, nothing else
  happens at the same time.  What Enter starts is in `Threads`.
- The text of the input field and the folding of the tree: the widget library.
  `MoveCursor` lets the cursor go to any node.
- The credentials are saved in one step in `Threads`; a crash between the three
  transactions is left out.
- 4096 databases are 512 rooms; beyond, opening a room aborts.
- A redaction names a message in `Sync`.  What happens at boot to a redacted
  state event depends on how libmatrix parses it.
