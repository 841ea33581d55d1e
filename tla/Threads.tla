------------------------------ MODULE Threads ------------------------------
(***************************************************************************)
(* The three threads of the program and everything they share.             *)
(*                                                                         *)
(*   main    init_everything, login, ui_loop and cleanup     (src/main.c)  *)
(*   sync    matrix_sync_forever calling sync_cb        (src/app/state.c)  *)
(*   qt      queue_listener running the queued items         (src/main.c)  *)
(*                                                                         *)
(* Each thread has a program counter, and one action stands for the code   *)
(* between two accesses to shared state that another thread can observe.   *)
(* sync_mutex has no variable: only the syncer ever takes it, which is why *)
(* main can set the flag and signal between the syncer's test of the flag  *)
(* ("check") and its wait ("waiting").  queue_mutex is held by the queue   *)
(* thread exactly in "pop" and "block"; main holds it only inside one      *)
(* action.                                                                 *)
(***************************************************************************)
EXTENDS Integers, Sequences, SequencesExt

CONSTANTS
  QUEUE_SIZE,  \* capacity of state->queue (50 in the program)
  MaxSyncs,    \* bound: sync responses the server sends
  MaxItems     \* bound: items (logins and messages) the user submits

ASSUME ThreadsAssumption ==
  /\ QUEUE_SIZE \in Nat \ {0}
  /\ MaxSyncs \in Nat
  /\ MaxItems \in Nat

VARIABLES
  main,       \* program counter of the main (UI) thread
  sync,       \* program counter of the syncer thread
  qt,         \* program counter of the queue thread
  done,       \* state->done
  cancelled,  \* matrix_cancel was called
  signaled,   \* state->sync_cond_signaled
  pipe,       \* unread contents of state->thread_comm_pipe
  queue,      \* state->queue, oldest item first (the Fifo of module Queue)
  held,       \* the queue thread's local `item`: empty or one item
  code,       \* handle_login's local `code`
  loggingIn,  \* login.logging_in
  saved,      \* access token, mxid and homeserver are in the cache
  batch,      \* number of the last accumulated_sync_data sync_cb published
  handling,   \* number of the last one the UI thread processed
  submitted,  \* history: items allocated by the UI thread so far
  dropped,    \* history: ids refused by a full queue
  ran,        \* history: ids whose callback ran, in order
  freed       \* history: ids whose memory was released

mainVars == <<done, cancelled, loggingIn, handling>>
syncVars == <<sync, batch>>
itemVars == <<queue, qt, held, code, submitted, dropped, ran, freed>>
vars == <<main, sync, qt, done, cancelled, signaled, pipe, queue, held,
          code, loggingIn, saved, batch, handling, submitted, dropped, ran, freed>>

-----------------------------------------------------------------------------
(* Program counters.                                                       *)
InitPcs  == {"init", "login", "form", "populate"}
UiPcs    == {"ui", "handle", "ack"}
QuitPcs  == {"quit", "cleanup", "cancel", "join_sync", "signal_queue",
             "join_queue", "teardown", "exit"}
MainPcs  == InitPcs \cup UiPcs \cup QuitPcs
WaitPcs  == {"check", "block", "waiting"}  \* inside sync_cb's wait loop
SyncPcs  == WaitPcs \cup {"none", "fetch", "save", "reset", "exited"}
QueuePcs == {"none", "loop", "lock", "pop", "block", "waiting", "run",
             "login", "reply", "free", "exited"}

MATRIX_SUCCESS == 0
LoginFailed    == 1   \* any other enum matrix_code
Message == [kind : {"code", "sync"}, value : Nat]
Item    == [type : {"login", "message"}, id : Nat]

Ids(items) == {items[k].id : k \in DOMAIN items}

Init ==
  /\ main = "init" /\ sync = "none" /\ qt = "none"
  /\ done = FALSE /\ cancelled = FALSE /\ signaled = FALSE
  /\ pipe = <<>> /\ queue = <<>> /\ held = <<>>
  /\ code = MATRIX_SUCCESS /\ loggingIn = FALSE
  /\ saved \in BOOLEAN
  /\ batch = 0 /\ handling = 0
  /\ submitted = 0 /\ dropped = {} /\ ran = <<>> /\ freed = {}

-----------------------------------------------------------------------------
(* pthread_cond_signal(&sync_cond) and pthread_cond_signal(&queue_cond): a *)
(* thread that is not waiting yet does not notice.                         *)
SignalSync  == sync' = IF sync = "waiting" THEN "check" ELSE sync
SignalQueue == qt' = IF qt = "waiting" THEN "lock" ELSE qt

QueueMutexFree == qt \notin {"pop", "block"}

\* Mutants of LockAndPush.
LockAndPushNoFree(type) ==
  LET item == [type |-> type, id |-> submitted + 1] IN
  /\ QueueMutexFree
  /\ submitted' = item.id
  /\ IF Len(queue) < QUEUE_SIZE
     THEN /\ queue' = Append(queue, item)
          /\ SignalQueue
          /\ UNCHANGED <<dropped, freed>>
     ELSE /\ dropped' = dropped \cup {item.id}
          /\ UNCHANGED <<queue, qt, freed>>
  /\ UNCHANGED <<held, code, ran>>
LockAndPushNoBroadcast(type) ==
  LET item == [type |-> type, id |-> submitted + 1] IN
  /\ QueueMutexFree
  /\ submitted' = item.id
  /\ IF Len(queue) < QUEUE_SIZE
     THEN /\ queue' = Append(queue, item)
          /\ UNCHANGED <<qt, dropped, freed>>
     ELSE /\ dropped' = dropped \cup {item.id}
          /\ freed' = freed \cup {item.id}
          /\ UNCHANGED <<queue, qt>>
  /\ UNCHANGED <<held, code, ran>>

(* queue_item_alloc and lock_and_push: a full queue frees the item, else   *)
(* the queue thread is woken before the mutex is released.                 *)
LockAndPush(type) ==
  LET item == [type |-> type, id |-> submitted + 1] IN
  /\ QueueMutexFree
  /\ submitted' = item.id
  /\ IF Len(queue) < QUEUE_SIZE
     THEN /\ queue' = Append(queue, item)
          /\ SignalQueue
          /\ UNCHANGED <<dropped, freed>>
     ELSE /\ dropped' = dropped \cup {item.id}
          /\ freed' = freed \cup {item.id}
          /\ UNCHANGED <<queue, qt>>
  /\ UNCHANGED <<held, code, ran>>

-----------------------------------------------------------------------------
(* Main thread: init_everything and login.                                 *)

StartQueueThread ==
  /\ main = "init"
  /\ main' = "login" /\ qt' = "loop"
  /\ UNCHANGED <<mainVars, syncVars, signaled, pipe, queue, held, code,
                 saved, submitted, dropped, ran, freed>>

(* matrix_global_init, pipe, cache_init, pthread_create, ui_init,          *)
(* form_init or populate_from_cache failed: main goes to cleanup.          *)
InitFails ==
  /\ main \in {"init", "login", "populate"}
  /\ main' = "cleanup"
  /\ UNCHANGED <<mainVars, syncVars, itemVars, signaled, pipe, saved>>

TokenLogin ==
  /\ main = "login" /\ saved
  /\ main' = "populate"
  /\ UNCHANGED <<mainVars, syncVars, itemVars, signaled, pipe, saved>>

(* No credentials in the cache, or the server refused the token.           *)
NoToken ==
  /\ main = "login"
  /\ main' = "form"
  /\ UNCHANGED <<mainVars, syncVars, itemVars, signaled, pipe, saved>>

\* Mutant: the form accepts a second login while one is running.
SubmitLoginAgain ==
  /\ main = "form" /\ submitted < MaxItems
  /\ LockAndPush("login")
  /\ loggingIn' = TRUE
  /\ UNCHANGED <<main, done, cancelled, handling, syncVars, signaled, pipe,
                 saved>>

(* handle_tab_login and login_with_info on Enter: the form is locked       *)
(* whether or not the queue took the item.                                 *)
SubmitLogin ==
  /\ main = "form" /\ ~loggingIn /\ submitted < MaxItems
  /\ LockAndPush("login")
  /\ loggingIn' = TRUE
  /\ UNCHANGED <<main, done, cancelled, handling, syncVars, signaled, pipe,
                 saved>>

ReadLoginCode ==
  /\ main = "form" /\ pipe # <<>>
  /\ loggingIn' = FALSE
  /\ main' = IF Head(pipe).value = MATRIX_SUCCESS THEN "populate" ELSE "form"
  /\ pipe' = Tail(pipe)
  /\ UNCHANGED <<done, cancelled, handling, syncVars, itemVars, signaled,
                 saved>>

CtrlCLogin ==
  /\ main = "form"
  /\ main' = "cleanup"
  /\ UNCHANGED <<mainVars, syncVars, itemVars, signaled, pipe, saved>>

(* populate_from_cache succeeded and the syncer thread was created.        *)
StartSyncer ==
  /\ main = "populate"
  /\ main' = "ui" /\ sync' = "fetch"
  /\ UNCHANGED <<mainVars, batch, itemVars, signaled, pipe, saved>>

-----------------------------------------------------------------------------
(* Main thread: ui_loop.                                                   *)

\* Mutant: the pipe is looked at only after a key was pressed.
ReadSyncDataOnKey ==
  /\ main = "ui" /\ pipe # <<>> /\ submitted >= batch
  /\ handling' = Head(pipe).value
  /\ pipe' = Tail(pipe)
  /\ main' = "handle"
  /\ UNCHANGED <<done, cancelled, loggingIn, syncVars, itemVars, signaled,
                 saved>>

(* safe_read of the address; main is then in handle_accumulated_sync.      *)
ReadSyncData ==
  /\ main = "ui" /\ pipe # <<>>
  /\ handling' = Head(pipe).value
  /\ pipe' = Tail(pipe)
  /\ main' = "handle"
  /\ UNCHANGED <<done, cancelled, loggingIn, syncVars, itemVars, signaled,
                 saved>>

(* state->sync_cond_signaled = true, without sync_mutex.                   *)
AckFlag ==
  /\ main = "handle"
  /\ signaled' = TRUE
  /\ main' = "ack"
  /\ UNCHANGED <<mainVars, syncVars, itemVars, pipe, saved>>

AckSignal ==
  /\ main = "ack"
  /\ SignalSync
  /\ main' = "ui"
  /\ UNCHANGED <<mainVars, batch, itemVars, signaled, pipe, saved>>

(* handle_tab_room on Enter: the input field is cleared whatever           *)
(* lock_and_push returned.                                                 *)
UserMessage ==
  /\ main = "ui" /\ submitted < MaxItems
  /\ LockAndPush("message")
  /\ UNCHANGED <<main, mainVars, syncVars, signaled, pipe, saved>>

(* Ctrl-C in the room view: set the flag, then signal, then leave the loop.*)
CtrlC ==
  /\ main = "ui"
  /\ signaled' = TRUE
  /\ main' = "quit"
  /\ UNCHANGED <<mainVars, syncVars, itemVars, pipe, saved>>

QuitSignal ==
  /\ main = "quit"
  /\ SignalSync
  /\ main' = "cleanup"
  /\ UNCHANGED <<mainVars, batch, itemVars, signaled, pipe, saved>>

-----------------------------------------------------------------------------
(* Main thread: cleanup.                                                   *)

SetDone ==
  /\ main = "cleanup"
  /\ done' = TRUE
  /\ main' = "cancel"
  /\ UNCHANGED <<cancelled, loggingIn, handling, syncVars, itemVars, signaled,
                 pipe, saved>>

MatrixCancel ==
  /\ main = "cancel"
  /\ cancelled' = TRUE
  /\ main' = "join_sync"
  /\ UNCHANGED <<done, loggingIn, handling, syncVars, itemVars, signaled,
                 pipe, saved>>

JoinSync ==
  /\ main = "join_sync" /\ sync \in {"none", "exited"}
  /\ main' = "signal_queue"
  /\ UNCHANGED <<mainVars, syncVars, itemVars, signaled, pipe, saved>>

(* pthread_cond_signal(&queue_cond), without queue_mutex.                  *)
SignalQueueThread ==
  /\ main = "signal_queue"
  /\ SignalQueue
  /\ main' = "join_queue"
  /\ UNCHANGED <<mainVars, syncVars, signaled, pipe, saved, queue, held,
                 code, submitted, dropped, ran, freed>>

\* Mutant: cleanup does not wait for the queue thread.
JoinQueueSkipped ==
  /\ main = "join_queue"
  /\ main' = "teardown"
  /\ UNCHANGED <<mainVars, syncVars, itemVars, signaled, pipe, saved>>

JoinQueue ==
  /\ main = "join_queue" /\ qt \in {"none", "exited"}
  /\ main' = "teardown"
  /\ UNCHANGED <<mainVars, syncVars, itemVars, signaled, pipe, saved>>

(* Close the pipe, destroy the queue's mutex, free the items left in it.   *)
Teardown ==
  /\ main = "teardown"
  /\ pipe' = <<>>
  /\ freed' = freed \cup Ids(queue)
  /\ queue' = <<>>
  /\ main' = "exit"
  /\ UNCHANGED <<mainVars, syncVars, signaled, saved, qt, held, code,
                 submitted, dropped, ran>>

MainNext ==
  \/ StartQueueThread \/ InitFails \/ TokenLogin \/ NoToken
  \/ SubmitLogin \/ ReadLoginCode \/ CtrlCLogin \/ StartSyncer
  \/ ReadSyncData \/ AckFlag \/ AckSignal \/ UserMessage
  \/ CtrlC \/ QuitSignal
  \/ SetDone \/ MatrixCancel \/ JoinSync \/ SignalQueueThread
  \/ JoinQueue \/ Teardown

-----------------------------------------------------------------------------
(* Syncer thread.                                                          *)

(* A response arrived: sync_cb saves it and reads state_rooms.rooms.       *)
SyncResponse ==
  /\ sync = "fetch" /\ ~cancelled /\ batch < MaxSyncs
  /\ sync' = "save"
  /\ UNCHANGED <<main, mainVars, batch, itemVars, signaled, pipe, saved>>

(* matrix_sync_forever returned: cancelled, or a transfer failed.          *)
SyncForeverReturns ==
  /\ sync = "fetch"
  /\ sync' = "exited"
  /\ UNCHANGED <<main, mainVars, batch, itemVars, signaled, pipe, saved>>

(* safe_write of &data, then sync_mutex is locked.                         *)
PublishBatch ==
  /\ sync = "save"
  /\ batch' = batch + 1
  /\ pipe' = Append(pipe, [kind |-> "sync", value |-> batch + 1])
  /\ sync' = "check"
  /\ UNCHANGED <<main, mainVars, itemVars, signaled, saved>>

CheckSignaled ==
  /\ sync = "check"
  /\ sync' = IF signaled THEN "reset" ELSE "block"
  /\ UNCHANGED <<main, mainVars, batch, itemVars, signaled, pipe, saved>>

CondWaitSync ==
  /\ sync = "block"
  /\ sync' = "waiting"
  /\ UNCHANGED <<main, mainVars, batch, itemVars, signaled, pipe, saved>>

\* Mutant: `if' for `while', a wakeup is taken for an acknowledgement.
SpuriousWakeupSyncIsAck ==
  /\ sync = "waiting"
  /\ sync' = "reset"
  /\ UNCHANGED <<main, mainVars, batch, itemVars, signaled, pipe, saved>>

SpuriousWakeupSync ==
  /\ sync = "waiting"
  /\ sync' = "check"
  /\ UNCHANGED <<main, mainVars, batch, itemVars, signaled, pipe, saved>>

\* Mutant: the flag stays set for the next batch.
ResetSignaledForgotten ==
  /\ sync = "reset"
  /\ sync' = "fetch"
  /\ UNCHANGED <<main, mainVars, batch, itemVars, signaled, pipe, saved>>

(* The flag is cleared and sync_cb returns: the batch is gone.             *)
ResetSignaled ==
  /\ sync = "reset"
  /\ signaled' = FALSE
  /\ sync' = "fetch"
  /\ UNCHANGED <<main, mainVars, batch, itemVars, pipe, saved>>

SyncNext ==
  \/ SyncResponse \/ SyncForeverReturns
  \/ PublishBatch \/ CheckSignaled \/ CondWaitSync \/ SpuriousWakeupSync
  \/ ResetSignaled

-----------------------------------------------------------------------------
(* Queue thread.                                                           *)

ListenerLoop ==
  /\ qt = "loop"
  /\ qt' = IF done THEN "exited" ELSE "lock"
  /\ UNCHANGED <<main, mainVars, syncVars, signaled, pipe, saved, queue, held,
                 code, submitted, dropped, ran, freed>>

(* Lock queue_mutex, or relock it on the way out of pthread_cond_wait.     *)
LockQueue ==
  /\ qt = "lock"
  /\ qt' = "pop"
  /\ UNCHANGED <<main, mainVars, syncVars, signaled, pipe, saved, queue, held,
                 code, submitted, dropped, ran, freed>>

\* Mutant: the newest item first.
PopItemNewest ==
  /\ qt = "pop"
  /\ IF queue # <<>>
     THEN held' = <<Last(queue)>> /\ queue' = Front(queue) /\ qt' = "run"
     ELSE /\ qt' = IF done THEN "loop" ELSE "block"
          /\ UNCHANGED <<held, queue>>
  /\ UNCHANGED <<main, mainVars, syncVars, signaled, pipe, saved, code,
                 submitted, dropped, ran, freed>>

(* queue_pop_head, then the test of done when nothing was queued; the      *)
(* mutex is released unless the thread is about to wait.                   *)
PopItem ==
  /\ qt = "pop"
  /\ IF queue # <<>>
     THEN held' = <<Head(queue)>> /\ queue' = Tail(queue) /\ qt' = "run"
     ELSE /\ qt' = IF done THEN "loop" ELSE "block"
          /\ UNCHANGED <<held, queue>>
  /\ UNCHANGED <<main, mainVars, syncVars, signaled, pipe, saved, code,
                 submitted, dropped, ran, freed>>

CondWaitQueue ==
  /\ qt = "block"
  /\ qt' = "waiting"
  /\ UNCHANGED <<main, mainVars, syncVars, signaled, pipe, saved, queue, held,
                 code, submitted, dropped, ran, freed>>

SpuriousWakeupQueue ==
  /\ qt = "waiting"
  /\ qt' = "lock"
  /\ UNCHANGED <<main, mainVars, syncVars, signaled, pipe, saved, queue, held,
                 code, submitted, dropped, ran, freed>>

(* The second test of done, then the item's callback: handle_sent_message  *)
(* sends the message, handle_login goes on in RunLogin.                    *)
RunItem ==
  /\ qt = "run"
  /\ IF done
     THEN qt' = "free" /\ UNCHANGED ran
     ELSE /\ qt' = IF held[1].type = "login" THEN "login" ELSE "free"
          /\ ran' = Append(ran, held[1].id)
  /\ UNCHANGED <<main, mainVars, syncVars, signaled, pipe, saved, queue, held,
                 code, submitted, dropped, freed>>

\* Mutant: the credentials of a successful login are not saved.
MatrixLoginUnsaved(answer) ==
  /\ qt = "login"
  /\ code' = answer
  /\ qt' = "reply"
  /\ UNCHANGED <<main, mainVars, syncVars, signaled, pipe, saved, queue, held,
                 submitted, dropped, ran, freed>>

\* Mutant: a code outside enum matrix_code (assert at main.c:290).
MatrixLoginBadCode(answer) ==
  /\ qt = "login"
  /\ code' = answer + 1
  /\ saved' = (saved \/ answer = MATRIX_SUCCESS)
  /\ qt' = "reply"
  /\ UNCHANGED <<main, mainVars, syncVars, signaled, pipe, queue, held,
                 submitted, dropped, ran, freed>>

(* handle_login: matrix_login answered; on success the access token, mxid  *)
(* and homeserver go to the cache.                                         *)
MatrixLogin(answer) ==
  /\ qt = "login"
  /\ code' = answer
  /\ saved' = (saved \/ answer = MATRIX_SUCCESS)
  /\ qt' = "reply"
  /\ UNCHANGED <<main, mainVars, syncVars, signaled, pipe, queue, held,
                 submitted, dropped, ran, freed>>

\* Mutant: only a success is reported.
ReplyLoginOnSuccess ==
  /\ qt = "reply"
  /\ pipe' = IF code = MATRIX_SUCCESS
             THEN Append(pipe, [kind |-> "code", value |-> code]) ELSE pipe
  /\ qt' = "free"
  /\ UNCHANGED <<main, mainVars, syncVars, signaled, saved, queue, held,
                 code, submitted, dropped, ran, freed>>

(* handle_login: safe_write of the code.                                   *)
ReplyLogin ==
  /\ qt = "reply"
  /\ pipe' = Append(pipe, [kind |-> "code", value |-> code])
  /\ qt' = "free"
  /\ UNCHANGED <<main, mainVars, syncVars, signaled, saved, queue, held,
                 code, submitted, dropped, ran, freed>>

FreeItem ==
  /\ qt = "free"
  /\ freed' = freed \cup Ids(held)
  /\ held' = <<>>
  /\ qt' = "loop"
  /\ UNCHANGED <<main, mainVars, syncVars, signaled, pipe, saved, queue,
                 code, submitted, dropped, ran>>

QueueNext ==
  \/ ListenerLoop \/ LockQueue \/ PopItem \/ CondWaitQueue
  \/ SpuriousWakeupQueue \/ RunItem
  \/ \E answer \in {MATRIX_SUCCESS, LoginFailed} : MatrixLogin(answer)
  \/ ReplyLogin \/ FreeItem

Next == MainNext \/ SyncNext \/ QueueNext

Spec == Init /\ [][Next]_vars

-----------------------------------------------------------------------------
(* Fairness.  A thread that can run is scheduled: each thread's own code   *)
(* goes on, a pending pipe is read, and matrix_login and                   *)
(* matrix_send_message return.  Nothing is assumed of the user (SubmitLogin,*)
(* UserMessage, CtrlCLogin, CtrlC), of the server (SyncResponse, or        *)
(* SyncForeverReturns before the cancellation) or of spurious wakeups.     *)
MainStep ==
  \/ StartQueueThread \/ TokenLogin \/ NoToken \/ InitFails
  \/ ReadLoginCode \/ StartSyncer
  \/ ReadSyncData \/ AckFlag \/ AckSignal \/ QuitSignal
  \/ SetDone \/ MatrixCancel \/ JoinSync \/ SignalQueueThread
  \/ JoinQueue \/ Teardown

SyncStep ==
  \/ cancelled /\ SyncForeverReturns
  \/ PublishBatch \/ CheckSignaled \/ CondWaitSync \/ ResetSignaled

QueueStep ==
  \/ ListenerLoop \/ LockQueue \/ PopItem \/ CondWaitQueue \/ RunItem
  \/ \E answer \in {MATRIX_SUCCESS, LoginFailed} : MatrixLogin(answer)
  \/ ReplyLogin \/ FreeItem

Fairness == WF_vars(MainStep) /\ WF_vars(SyncStep) /\ WF_vars(QueueStep)

FairSpec == Spec /\ Fairness

(* A scheduler kinder than POSIX: every wait is eventually woken.  What    *)
(* fails under it does not fail for want of a wakeup.                      *)
KindSpec ==
  /\ FairSpec
  /\ WF_vars(SpuriousWakeupSync) /\ WF_vars(SpuriousWakeupQueue)

-----------------------------------------------------------------------------
TypeOK ==
  /\ main \in MainPcs /\ sync \in SyncPcs /\ qt \in QueuePcs
  /\ done \in BOOLEAN /\ cancelled \in BOOLEAN /\ signaled \in BOOLEAN
  /\ loggingIn \in BOOLEAN /\ saved \in BOOLEAN
  /\ pipe \in Seq(Message)
  /\ queue \in Seq(Item) /\ held \in Seq(Item)
  /\ code \in {MATRIX_SUCCESS, LoginFailed}
  /\ batch \in Nat /\ handling \in Nat /\ submitted \in Nat
  /\ dropped \subseteq Nat /\ ran \in Seq(Nat) /\ freed \subseteq Nat

(* While the UI thread is in handle_accumulated_sync it reads the array on *)
(* sync_cb's stack and changes state_rooms.rooms without a lock: the       *)
(* syncer must stand in the wait loop of that very sync_cb call.           *)
HandshakeExclusion ==
  main = "handle" => sync \in WaitPcs /\ handling = batch

(* The pipe carries 4-byte login codes and 8-byte addresses and its reader *)
(* cannot tell them apart: a reader never finds a message of the other     *)
(* kind, and never more than one message, so no write of theirs blocks.    *)
PipeDiscipline ==
  /\ main \in {"init", "login", "populate"} => pipe = <<>>
  /\ main \in {"form"} \cup UiPcs => Len(pipe) <= 1
  /\ main = "form" => \A k \in DOMAIN pipe : pipe[k].kind = "code"
  /\ main \in UiPcs => \A k \in DOMAIN pipe :
                         pipe[k] = [kind |-> "sync", value |-> batch]

(* Every item the UI thread allocated is in one place: in the queue, in    *)
(* the hands of the queue thread, or freed once.  Nothing leaks, nothing   *)
(* is freed twice, nothing freed is run.                                   *)
ItemAccounting ==
  /\ Ids(queue) \cup Ids(held) \cup freed = 1 .. submitted
  /\ Ids(queue) \cap Ids(held) = {}
  /\ freed \cap (Ids(queue) \cup Ids(held)) = {}
  /\ Len(held) = (IF qt \in {"run", "login", "reply", "free"} THEN 1 ELSE 0)

(* Messages reach the server in the order they were typed: callbacks run   *)
(* in the order of submission and skip only what a full queue refused.     *)
RunInOrder ==
  \A k \in DOMAIN ran :
    /\ \A j \in 1 .. k - 1 : ran[j] < ran[k]
    /\ 1 .. ran[k] \subseteq {ran[j] : j \in 1 .. k} \cup dropped

(* Whoever gets past the login screen can log in by token the next time.   *)
LoginIsSaved == main \in {"populate"} \cup UiPcs => saved

(* cleanup destroys the mutex, closes the pipe and frees the queue and the *)
(* rooms when no other thread is left to use them; then no item is left.   *)
TeardownAlone ==
  /\ main \in {"teardown", "exit"} =>
       sync \in {"none", "exited"} /\ qt \in {"none", "exited"}
  /\ main = "exit" => freed = 1 .. submitted

(* The owner of the batch and of the room tables, as Rendezvous has it.    *)
Owner ==
  IF main = "handle" THEN "ui"
  ELSE IF sync \in WaitPcs /\ pipe # <<>> THEN "pipe" ELSE "syncer"

Promise == INSTANCE Rendezvous
             WITH owner <- Owner, published <- batch, taken <- handling,
                  quit <- main \in QuitPcs

(* The flag, the condition variable and the pipe implement the rendezvous: *)
(* batches are taken once and in order, and the syncer goes on only when   *)
(* its batch was used or the UI has quit.                                  *)
RefinesRendezvous == Promise!Spec

(* A batch in the pipe is processed unless the user quits.                 *)
BatchIsTaken ==
  \A b \in 1 .. MaxSyncs :
    (\E k \in DOMAIN pipe : pipe[k] = [kind |-> "sync", value |-> b])
      ~> (handling = b \/ main \in QuitPcs)

(* An item in the queue is run unless the program shuts down: no push can  *)
(* slip between the queue thread's test of the queue and its wait.         *)
ItemIsRun ==
  \A i \in 1 .. MaxItems :
    i \in Ids(queue) ~> (i \in ToSet(ran) \/ done)

(* The login form is unlocked again by an answer, or the user quits.       *)
LoginIsAnswered == loggingIn ~> (~loggingIn \/ main \in QuitPcs)

-----------------------------------------------------------------------------
(* What comments of the code say, and what does not hold.                  *)

(* state.c:404 "Wait until the main thread acknowledges the data passed    *)
(* above": once main acknowledged a batch, sync_cb stops waiting for it.   *)
AcknowledgedSyncResumes ==
  \A b \in 1 .. MaxSyncs :
    (main = "ack" /\ batch = b) ~> ~(sync \in WaitPcs /\ batch = b)

(* main.c:212 "Ensure that the syncer thread never deadlocks if we break   *)
(* here": after Ctrl-C the syncer thread ends.                             *)
QuitEndsSyncer == main = "quit" ~> sync = "exited"

=============================================================================
