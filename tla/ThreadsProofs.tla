--------------------------- MODULE ThreadsProofs ---------------------------
(***************************************************************************)
(* Proofs about the three threads, for every queue size and every number   *)
(* of sync responses and submitted items.                                  *)
(***************************************************************************)
EXTENDS Threads, SequenceTheorems, TLAPS

USE DEF MATRIX_SUCCESS, LoginFailed

-----------------------------------------------------------------------------
(* Types.  LockAndPush is the only helper that changes several variables.  *)

LEMMA HeadTail ==
  ASSUME NEW S, NEW s \in Seq(S), s # <<>>
  PROVE  Head(s) \in S /\ Tail(s) \in Seq(S) /\ Head(s) = s[1]
BY HeadTailProperties

LEMMA OneElement ==
  ASSUME NEW S, NEW s \in Seq(S), Len(s) = 1
  PROVE  s # <<>> /\ Head(s) = s[1] /\ Tail(s) = <<>> /\ s[1] \in S
<1>1. s # <<>>
  BY EmptySeq
<1>2. Tail(s) \in Seq(S) /\ Len(Tail(s)) = 0
  BY <1>1, HeadTailProperties
<1> QED BY <1>1, <1>2, HeadTail, EmptySeq

LEMMA IdsType == \A items \in Seq(Item) : Ids(items) \subseteq Nat
<1> SUFFICES ASSUME NEW items \in Seq(Item), NEW k \in DOMAIN items
             PROVE  items[k].id \in Nat
  BY DEF Ids
<1>1. items[k] \in Item
  BY ElementOfSeq, LenProperties
<1> QED BY <1>1 DEF Item

(* The queue thread holds one item from the pop to the free.               *)
HeldOK == IF qt \in {"run", "login", "reply", "free"}
          THEN Len(held) = 1 ELSE held = <<>>

StartOK == main = "init" => qt = "none"

LEMMA PushType ==
  ASSUME TypeOK, HeldOK, LockAndPush("login") \/ LockAndPush("message")
  PROVE  /\ queue' \in Seq(Item) /\ qt' \in QueuePcs /\ submitted' \in Nat
         /\ dropped' \subseteq Nat /\ freed' \subseteq Nat
         /\ held' = held /\ code' = code /\ ran' = ran /\ HeldOK'
<1>1. PICK item \in Item :
        /\ item.id = submitted + 1
        /\ queue' = queue \/ queue' = Append(queue, item)
  <2>1. [type |-> "login", id |-> submitted + 1] \in Item
        /\ [type |-> "message", id |-> submitted + 1] \in Item
    BY DEF TypeOK, Item
  <2> QED BY <2>1 DEF LockAndPush
<1>2. queue' \in Seq(Item)
  <2>1. queue \in Seq(Item) /\ Append(queue, item) \in Seq(Item)
    BY <1>1, AppendProperties DEF TypeOK
  <2> QED BY <1>1, <2>1
<1>3. qt' \in QueuePcs /\ HeldOK'
  BY DEF LockAndPush, SignalQueue, TypeOK, QueuePcs, HeldOK
<1>4. submitted' = submitted + 1 /\ held' = held /\ code' = code /\ ran' = ran
      /\ (dropped' = dropped \/ dropped' = dropped \cup {submitted + 1})
      /\ (freed' = freed \/ freed' = freed \cup {submitted + 1})
  BY DEF LockAndPush
<1>5. submitted + 1 \in Nat /\ dropped \subseteq Nat /\ freed \subseteq Nat
  BY DEF TypeOK
<1> QED BY <1>2, <1>3, <1>4, <1>5

LEMMA TypeStep ==
  ASSUME TypeOK, HeldOK, StartOK, [Next]_vars
  PROVE  TypeOK' /\ HeldOK' /\ StartOK'
<1> USE DEF TypeOK, MainPcs, InitPcs, UiPcs, QuitPcs, SyncPcs, WaitPcs,
            QueuePcs, mainVars, syncVars, itemVars, HeldOK, StartOK
<1>1. CASE StartQueueThread  BY <1>1 DEF StartQueueThread
<1>2. CASE InitFails  BY <1>2 DEF InitFails
<1>3. CASE TokenLogin  BY <1>3 DEF TokenLogin
<1>4. CASE NoToken  BY <1>4 DEF NoToken
<1>5. CASE SubmitLogin
  <2>1. LockAndPush("login")
    BY <1>5 DEF SubmitLogin
  <2>2. /\ queue' \in Seq(Item) /\ qt' \in QueuePcs /\ submitted' \in Nat
        /\ dropped' \subseteq Nat /\ freed' \subseteq Nat
        /\ held' = held /\ code' = code /\ ran' = ran /\ HeldOK'
    BY <2>1, PushType
  <2> QED BY <1>5, <2>2
          DEF TypeOK, StartOK, SubmitLogin, syncVars, MainPcs, InitPcs, UiPcs
<1>6. CASE ReadLoginCode
  <2>1. pipe' \in Seq(Message)
    BY <1>6, HeadTail DEF TypeOK, HeldOK, ReadLoginCode
  <2> QED BY <1>6, <2>1
          DEF StartOK, TypeOK, HeldOK, ReadLoginCode, MainPcs, InitPcs,
              syncVars, itemVars
<1>7. CASE CtrlCLogin  BY <1>7 DEF CtrlCLogin
<1>8. CASE StartSyncer  BY <1>8 DEF StartSyncer
<1>9. CASE ReadSyncData
  <2>1. Head(pipe) \in Message /\ Tail(pipe) \in Seq(Message)
    BY <1>9, HeadTail DEF TypeOK, HeldOK, ReadSyncData
  <2>2. handling' \in Nat /\ pipe' \in Seq(Message)
    BY <1>9, <2>1 DEF ReadSyncData, Message
  <2> QED BY <1>9, <2>2
          DEF StartOK, TypeOK, HeldOK, ReadSyncData, MainPcs, UiPcs, syncVars,
              itemVars
<1>10. CASE AckFlag  BY <1>10 DEF AckFlag
<1>11. CASE AckSignal  BY <1>11 DEF AckSignal, SignalSync
<1>12. CASE UserMessage
  <2>1. LockAndPush("message")
    BY <1>12 DEF UserMessage
  <2>2. /\ queue' \in Seq(Item) /\ qt' \in QueuePcs /\ submitted' \in Nat
        /\ dropped' \subseteq Nat /\ freed' \subseteq Nat
        /\ held' = held /\ code' = code /\ ran' = ran /\ HeldOK'
    BY <2>1, PushType
  <2> QED BY <1>12, <2>2
          DEF TypeOK, StartOK, UserMessage, syncVars, mainVars, MainPcs,
              InitPcs, UiPcs
<1>13. CASE CtrlC  BY <1>13 DEF CtrlC
<1>14. CASE QuitSignal  BY <1>14 DEF QuitSignal, SignalSync
<1>15. CASE SetDone  BY <1>15 DEF SetDone
<1>16. CASE MatrixCancel  BY <1>16 DEF MatrixCancel
<1>17. CASE JoinSync  BY <1>17 DEF JoinSync
<1>18. CASE SignalQueueThread  BY <1>18 DEF SignalQueueThread, SignalQueue
<1>19. CASE JoinQueue  BY <1>19 DEF JoinQueue
<1>20. CASE Teardown
  <2>1. freed' \subseteq Nat
    BY <1>20, IdsType DEF TypeOK, HeldOK, Teardown
  <2> QED BY <1>20, <2>1
          DEF StartOK, TypeOK, HeldOK, Teardown, MainPcs, QuitPcs, mainVars,
              syncVars
<1>21. CASE SyncResponse  BY <1>21 DEF SyncResponse
<1>22. CASE SyncForeverReturns  BY <1>22 DEF SyncForeverReturns
<1>23. CASE PublishBatch
  <2>1. [kind |-> "sync", value |-> batch + 1] \in Message
    BY DEF TypeOK, HeldOK, Message
  <2>2. pipe' \in Seq(Message) /\ batch' \in Nat
    BY <1>23, <2>1, AppendProperties DEF TypeOK, HeldOK, PublishBatch
  <2> QED BY <1>23, <2>2
          DEF StartOK, TypeOK, HeldOK, PublishBatch, SyncPcs, WaitPcs,
              mainVars, itemVars
<1>24. CASE CheckSignaled  BY <1>24 DEF CheckSignaled
<1>25. CASE CondWaitSync  BY <1>25 DEF CondWaitSync
<1>26. CASE SpuriousWakeupSync  BY <1>26 DEF SpuriousWakeupSync
<1>27. CASE ResetSignaled
  <2> HIDE DEF MainPcs, InitPcs, UiPcs, QuitPcs, QueuePcs
  <2> QED BY <1>27 DEF ResetSignaled
<1>28. CASE ListenerLoop  BY <1>28 DEF ListenerLoop
<1>29. CASE LockQueue  BY <1>29 DEF LockQueue
<1>30. CASE PopItem
  <2>1. queue # <<>> => Head(queue) \in Item /\ Tail(queue) \in Seq(Item)
    BY HeadTail DEF TypeOK
  <2>2. CASE queue = <<>>
    BY <1>30, <2>2
       DEF TypeOK, HeldOK, StartOK, PopItem, QueuePcs, mainVars, syncVars
  <2>3. CASE queue # <<>>
    <3>1. held' = <<Head(queue)>> /\ queue' = Tail(queue) /\ qt' = "run"
      BY <1>30, <2>3 DEF PopItem
    <3>2. held' \in Seq(Item) /\ Len(held') = 1
      BY <2>1, <2>3, <3>1
    <3> QED BY <1>30, <2>1, <2>3, <3>1, <3>2
        DEF TypeOK, HeldOK, StartOK, PopItem, QueuePcs, mainVars, syncVars
  <2> QED BY <2>2, <2>3
<1>31. CASE CondWaitQueue  BY <1>31 DEF CondWaitQueue
<1>32. CASE SpuriousWakeupQueue  BY <1>32 DEF SpuriousWakeupQueue
<1>33. CASE RunItem
  <2>1. Len(held) = 1 /\ held \in Seq(Item)
    BY <1>33 DEF TypeOK, HeldOK, RunItem
  <2>2. held[1] \in Item
    BY <2>1, OneElement
  <2>3. held[1].id \in Nat
    BY <2>2 DEF Item
  <2>4. ran' = ran \/ ran' = Append(ran, held[1].id)
    BY <1>33 DEF RunItem
  <2>5. ran' \in Seq(Nat)
    <3>1. ran \in Seq(Nat)
      BY DEF TypeOK
    <3>2. Append(ran, held[1].id) \in Seq(Nat)
      BY <2>3, <3>1, AppendProperties
    <3> QED BY <2>4, <3>1, <3>2
  <2> QED BY <1>33, <2>5
      DEF TypeOK, HeldOK, StartOK, RunItem, QueuePcs, mainVars, syncVars
<1>34. ASSUME NEW answer \in {MATRIX_SUCCESS, LoginFailed}, MatrixLogin(answer)
     PROVE  TypeOK' /\ HeldOK' /\ StartOK'
  BY <1>34 DEF MatrixLogin
<1>35. CASE ReplyLogin
  <2>1. [kind |-> "code", value |-> code] \in Message
    BY DEF TypeOK, HeldOK, Message
  <2>2. pipe' \in Seq(Message)
    BY <1>35, <2>1, AppendProperties DEF TypeOK, HeldOK, ReplyLogin
  <2> QED BY <1>35, <2>2
          DEF StartOK, TypeOK, HeldOK, ReplyLogin, QueuePcs, mainVars, syncVars
<1>36. CASE FreeItem
  <2>1. freed' \subseteq Nat
    BY <1>36, IdsType DEF TypeOK, HeldOK, FreeItem
  <2> QED BY <1>36, <2>1
          DEF StartOK, TypeOK, HeldOK, FreeItem, QueuePcs, mainVars, syncVars
<1>37. CASE UNCHANGED vars
  BY <1>37 DEF vars
<1> QED BY <1>1, <1>2, <1>3, <1>4, <1>5, <1>6, <1>7, <1>8, <1>9, <1>10, <1>11,
           <1>12, <1>13, <1>14, <1>15, <1>16, <1>17, <1>18, <1>19, <1>20,
           <1>21, <1>22, <1>23, <1>24, <1>25, <1>26, <1>27, <1>28, <1>29,
           <1>30, <1>31, <1>32, <1>33, <1>34, <1>35, <1>36, <1>37
        DEF Next, MainNext, SyncNext, QueueNext

-----------------------------------------------------------------------------
(* Login.  At most one login is in flight, as an item of the queue, in the *)
(* hands of the queue thread, or as a code in the pipe; it is over before  *)
(* the syncer starts, so from then on the pipe belongs to the syncer.      *)

LoginPcs == {"run", "login", "reply"}

NoLogin == queue = <<>> /\ pipe = <<>> /\ qt \notin LoginPcs

LoginInFlight ==
  \/ Len(queue) = 1 /\ pipe = <<>> /\ qt \notin LoginPcs
  \/ queue = <<>> /\ pipe = <<>> /\ qt \in LoginPcs
  \/ /\ queue = <<>> /\ qt \notin LoginPcs
     /\ Len(pipe) = 1 /\ pipe[1].kind = "code"
     /\ pipe[1].value = MATRIX_SUCCESS => saved

LoginInv ==
  /\ done \/ cancelled => main \in QuitPcs
  /\ main \in InitPcs => sync = "none"
  /\ main \in {"init", "login"} => ~loggingIn /\ NoLogin
  /\ main = "form" =>
       /\ IF loggingIn THEN LoginInFlight ELSE NoLogin
       /\ \A k \in DOMAIN queue : queue[k].type = "login"
       /\ qt = "run" => held[1].type = "login"
       /\ qt = "reply" /\ code = MATRIX_SUCCESS => saved
  /\ main = "populate" => NoLogin /\ saved
  /\ main \in UiPcs => saved /\ sync # "none"
  /\ sync # "none" =>
       /\ qt \notin {"login", "reply"}
       /\ \A k \in DOMAIN queue : queue[k].type = "message"
       /\ qt = "run" => held[1].type = "message"

LEMMA LoginStep ==
  ASSUME TypeOK, HeldOK, StartOK, LoginInv, [Next]_vars
  PROVE  LoginInv'
<1> USE ThreadsAssumption
<1> USE DEF LoginInv, NoLogin, LoginInFlight, LoginPcs, InitPcs, UiPcs,
            QuitPcs, mainVars, syncVars, itemVars
<1>1. CASE StartQueueThread  BY <1>1 DEF StartQueueThread
<1>2. CASE InitFails  BY <1>2 DEF InitFails
<1>3. CASE TokenLogin  BY <1>3 DEF TokenLogin
<1>4. CASE NoToken  BY <1>4 DEF NoToken
<1>5. CASE SubmitLogin  BY <1>5 DEF SubmitLogin, LockAndPush, SignalQueue
<1>6. CASE ReadLoginCode
  <2>1. CASE Len(pipe) = 1
    <3>1. Tail(pipe) = <<>> /\ Head(pipe) = pipe[1]
      BY <2>1, OneElement DEF TypeOK
    <3> QED BY <1>6, <2>1, <3>1 DEF ReadLoginCode
  <2>2. CASE Len(pipe) # 1
    BY <1>6, <2>2 DEF ReadLoginCode
  <2> QED BY <2>1, <2>2
<1>7. CASE CtrlCLogin  BY <1>7 DEF CtrlCLogin
<1>8. CASE StartSyncer  BY <1>8 DEF StartSyncer
<1>9. CASE ReadSyncData  BY <1>9 DEF ReadSyncData
<1>10. CASE AckFlag  BY <1>10 DEF AckFlag
<1>11. CASE AckSignal  BY <1>11 DEF AckSignal, SignalSync
<1>12. CASE UserMessage  BY <1>12 DEF UserMessage, LockAndPush, SignalQueue
<1>13. CASE CtrlC  BY <1>13 DEF CtrlC
<1>14. CASE QuitSignal  BY <1>14 DEF QuitSignal, SignalSync
<1>15. CASE SetDone  BY <1>15 DEF SetDone
<1>16. CASE MatrixCancel  BY <1>16 DEF MatrixCancel
<1>17. CASE JoinSync  BY <1>17 DEF JoinSync
<1>18. CASE SignalQueueThread  BY <1>18 DEF SignalQueueThread, SignalQueue
<1>19. CASE JoinQueue  BY <1>19 DEF JoinQueue
<1>20. CASE Teardown  BY <1>20 DEF Teardown
<1>21. CASE SyncResponse  BY <1>21 DEF SyncResponse
<1>22. CASE SyncForeverReturns  BY <1>22 DEF SyncForeverReturns
<1>23. CASE PublishBatch  BY <1>23 DEF PublishBatch
<1>24. CASE CheckSignaled  BY <1>24 DEF CheckSignaled
<1>25. CASE CondWaitSync  BY <1>25 DEF CondWaitSync
<1>26. CASE SpuriousWakeupSync  BY <1>26 DEF SpuriousWakeupSync
<1>27. CASE ResetSignaled  BY <1>27 DEF ResetSignaled
<1>28. CASE ListenerLoop  BY <1>28 DEF ListenerLoop
<1>29. CASE LockQueue  BY <1>29 DEF LockQueue
<1>30. CASE PopItem
  <2>1. CASE queue = <<>>
    BY <1>30, <2>1 DEF PopItem
  <2>2. CASE queue # <<>>
    <3>1. /\ held' = <<Head(queue)>> /\ queue' = Tail(queue) /\ qt' = "run"
          /\ UNCHANGED <<main, done, cancelled, loggingIn, sync, pipe, saved, code>>
      BY <1>30, <2>2 DEF PopItem, mainVars, syncVars
    <3>2. held'[1] = queue[1] /\ Len(queue) \in Nat \ {0} /\ 1 \in DOMAIN queue
      BY <2>2, <3>1, HeadTail, EmptySeq, LenProperties DEF TypeOK
    <3>3. \A k \in DOMAIN queue' : k + 1 \in DOMAIN queue /\ queue'[k] = queue[k + 1]
      BY <2>2, <3>1, HeadTailProperties, LenProperties DEF TypeOK
    <3>4. Len(queue) = 1 => queue' = <<>>
      BY <2>2, <3>1, HeadTailProperties, EmptySeq DEF TypeOK
    <3> QED BY <1>30, <2>2, <3>1, <3>2, <3>3, <3>4 DEF PopItem
  <2> QED BY <2>1, <2>2
<1>31. CASE CondWaitQueue  BY <1>31 DEF CondWaitQueue
<1>32. CASE SpuriousWakeupQueue  BY <1>32 DEF SpuriousWakeupQueue
<1>33. CASE RunItem  BY <1>33 DEF RunItem
<1>34. ASSUME NEW answer \in {MATRIX_SUCCESS, LoginFailed}, MatrixLogin(answer)
     PROVE  LoginInv'
  BY <1>34 DEF MatrixLogin
<1>35. CASE ReplyLogin  BY <1>35 DEF ReplyLogin
<1>36. CASE FreeItem  BY <1>36 DEF FreeItem
<1>37. CASE UNCHANGED vars
  BY <1>37 DEF vars
<1> QED BY <1>1, <1>2, <1>3, <1>4, <1>5, <1>6, <1>7, <1>8, <1>9, <1>10, <1>11,
           <1>12, <1>13, <1>14, <1>15, <1>16, <1>17, <1>18, <1>19, <1>20,
           <1>21, <1>22, <1>23, <1>24, <1>25, <1>26, <1>27, <1>28, <1>29,
           <1>30, <1>31, <1>32, <1>33, <1>34, <1>35, <1>36, <1>37
        DEF Next, MainNext, SyncNext, QueueNext

-----------------------------------------------------------------------------
(* The rendezvous.  While the UI runs, the flag is up only between an      *)
(* acknowledgement and its consumption, the pipe holds at most the batch   *)
(* of the sync_cb call that waits, and a syncer that waits for nothing in  *)
(* the pipe has been, or is about to be, acknowledged.                     *)

SyncMessage == [kind |-> "sync", value |-> batch]

HandshakeInv ==
  /\ main \in InitPcs => sync = "none" /\ batch = 0 /\ handling = 0 /\ ~signaled
  /\ main \in UiPcs =>
       /\ pipe # <<>> => /\ pipe = <<SyncMessage>>
                         /\ sync \in WaitPcs /\ ~signaled /\ main # "handle"
       /\ signaled => /\ sync \in WaitPcs \cup {"reset"} 
                      /\ pipe = <<>> /\ main # "handle"
       /\ sync = "reset" => signaled
       /\ sync \in WaitPcs => pipe # <<>> \/ signaled \/ main = "handle"
  /\ main = "handle" => sync \in WaitPcs /\ handling = batch

LEMMA HandshakeStep ==
  ASSUME TypeOK, HeldOK, StartOK, LoginInv, HandshakeInv, [Next]_vars
  PROVE  HandshakeInv'
<1> USE DEF HandshakeInv, SyncMessage, InitPcs, UiPcs, QuitPcs, WaitPcs,
            mainVars, syncVars, itemVars
<1>1. CASE StartQueueThread  BY <1>1 DEF StartQueueThread
<1>2. CASE InitFails  BY <1>2 DEF InitFails
<1>3. CASE TokenLogin  BY <1>3 DEF TokenLogin
<1>4. CASE NoToken  BY <1>4 DEF NoToken
<1>5. CASE SubmitLogin  BY <1>5 DEF SubmitLogin, LockAndPush, SignalQueue
<1>6. CASE ReadLoginCode  BY <1>6 DEF ReadLoginCode, LoginInv
<1>7. CASE CtrlCLogin  BY <1>7 DEF CtrlCLogin
<1>8. CASE StartSyncer  BY <1>8 DEF StartSyncer, LoginInv, NoLogin
<1>9. CASE ReadSyncData
  <2>1. pipe = <<SyncMessage>> /\ sync \in WaitPcs /\ ~signaled
    BY <1>9 DEF ReadSyncData, HandshakeInv, UiPcs
  <2>2. Head(pipe) = SyncMessage /\ Tail(pipe) = <<>>
    BY <2>1
  <2>3. handling' = batch /\ pipe' = <<>>
    BY <1>9, <2>2 DEF ReadSyncData, SyncMessage
  <2> QED BY <1>9, <2>1, <2>3
          DEF ReadSyncData, HandshakeInv, InitPcs, UiPcs, WaitPcs, syncVars
<1>10. CASE AckFlag  BY <1>10 DEF AckFlag
<1>11. CASE AckSignal  BY <1>11 DEF AckSignal, SignalSync
<1>12. CASE UserMessage  BY <1>12 DEF UserMessage, LockAndPush, SignalQueue
<1>13. CASE CtrlC  BY <1>13 DEF CtrlC
<1>14. CASE QuitSignal  BY <1>14 DEF QuitSignal, SignalSync
<1>15. CASE SetDone  BY <1>15 DEF SetDone
<1>16. CASE MatrixCancel  BY <1>16 DEF MatrixCancel
<1>17. CASE JoinSync  BY <1>17 DEF JoinSync
<1>18. CASE SignalQueueThread  BY <1>18 DEF SignalQueueThread, SignalQueue
<1>19. CASE JoinQueue  BY <1>19 DEF JoinQueue
<1>20. CASE Teardown  BY <1>20 DEF Teardown
<1>21. CASE SyncResponse  BY <1>21 DEF SyncResponse
<1>22. CASE SyncForeverReturns  BY <1>22 DEF SyncForeverReturns
<1>23. CASE PublishBatch
  <2>1. main \in UiPcs => pipe = <<>>
    BY <1>23 DEF PublishBatch, HandshakeInv, WaitPcs
  <2>2. main \in UiPcs => pipe' = <<SyncMessage'>>
    <3>1. pipe' = Append(pipe, SyncMessage')
      BY <1>23 DEF PublishBatch, SyncMessage
    <3> HIDE DEF HandshakeInv, SyncMessage, UiPcs
    <3> QED BY <2>1, <3>1
  <2>3. main \in UiPcs => ~signaled /\ main # "handle"
    BY <1>23 DEF PublishBatch, HandshakeInv, WaitPcs
  <2>4. main \notin InitPcs
    BY <1>23 DEF PublishBatch, HandshakeInv
  <2> QED BY <1>23, <2>2, <2>3, <2>4
          DEF PublishBatch, HandshakeInv, UiPcs, WaitPcs, mainVars
<1>24. CASE CheckSignaled  BY <1>24 DEF CheckSignaled
<1>25. CASE CondWaitSync  BY <1>25 DEF CondWaitSync
<1>26. CASE SpuriousWakeupSync  BY <1>26 DEF SpuriousWakeupSync
<1>27. CASE ResetSignaled  BY <1>27 DEF ResetSignaled
<1>28. CASE ListenerLoop  BY <1>28 DEF ListenerLoop
<1>29. CASE LockQueue  BY <1>29 DEF LockQueue
<1>30. CASE PopItem  BY <1>30 DEF PopItem
<1>31. CASE CondWaitQueue  BY <1>31 DEF CondWaitQueue
<1>32. CASE SpuriousWakeupQueue  BY <1>32 DEF SpuriousWakeupQueue
<1>33. CASE RunItem  BY <1>33 DEF RunItem
<1>34. ASSUME NEW answer \in {MATRIX_SUCCESS, LoginFailed}, MatrixLogin(answer)
     PROVE  HandshakeInv'
  BY <1>34 DEF MatrixLogin
<1>35. CASE ReplyLogin  BY <1>35 DEF ReplyLogin, LoginInv
<1>36. CASE FreeItem  BY <1>36 DEF FreeItem
<1>37. CASE UNCHANGED vars
  BY <1>37 DEF vars
<1> QED BY <1>1, <1>2, <1>3, <1>4, <1>5, <1>6, <1>7, <1>8, <1>9, <1>10, <1>11,
           <1>12, <1>13, <1>14, <1>15, <1>16, <1>17, <1>18, <1>19, <1>20,
           <1>21, <1>22, <1>23, <1>24, <1>25, <1>26, <1>27, <1>28, <1>29,
           <1>30, <1>31, <1>32, <1>33, <1>34, <1>35, <1>36, <1>37
        DEF Next, MainNext, SyncNext, QueueNext

(* While handle_accumulated_sync runs, the syncer stands in the wait loop  *)
(* of the sync_cb call whose array it reads; no login code is ever read as *)
(* an address nor an address as a code, and no second message is ever in   *)
(* the pipe; the credentials of whoever passes the login screen are saved. *)
AllInv == TypeOK /\ HeldOK /\ StartOK /\ LoginInv /\ HandshakeInv

LEMMA AllInit == Init => AllInv
<1> SUFFICES ASSUME Init PROVE AllInv
  OBVIOUS
<1>1. TypeOK
  <2>1. <<>> \in Seq(Message) /\ <<>> \in Seq(Item) /\ <<>> \in Seq(Nat)
    BY EmptySeq
  <2> QED BY <2>1 DEF Init, TypeOK, MainPcs, InitPcs, SyncPcs, QueuePcs
<1>2. HeldOK /\ StartOK
  BY DEF Init, HeldOK, StartOK
<1>3. LoginInv
  BY DEF Init, LoginInv, NoLogin, LoginPcs, InitPcs, UiPcs
<1>4. HandshakeInv
  BY DEF Init, HandshakeInv, InitPcs, UiPcs
<1> QED BY <1>1, <1>2, <1>3, <1>4 DEF AllInv

LEMMA AllInvariant == Spec => []AllInv
<1>1. AllInv /\ [Next]_vars => AllInv'
  BY TypeStep, LoginStep, HandshakeStep DEF AllInv
<1> QED BY AllInit, <1>1, PTL DEF Spec

(* Every variable stays in its type.                                       *)
THEOREM ThreadsTypes == Spec => []TypeOK
<1>1. AllInv => TypeOK
  BY DEF AllInv
<1> QED BY AllInvariant, <1>1, PTL

(* handle_accumulated_sync reads the array on the stack of a sync_cb call  *)
(* that is still waiting, and nobody else uses the room tables meanwhile.  *)
THEOREM HandshakeIsExclusive == Spec => []HandshakeExclusion
<1>1. AllInv => HandshakeExclusion
  BY DEF AllInv, HandshakeInv, HandshakeExclusion
<1> QED BY AllInvariant, <1>1, PTL

(* Neither reader of the pipe finds the other's kind of message, nor more  *)
(* than one message.                                                       *)
THEOREM PipeIsDisciplined == Spec => []PipeDiscipline
<1>1. AllInv => PipeDiscipline
  <2> SUFFICES ASSUME AllInv PROVE PipeDiscipline
    OBVIOUS
  <2>1. main \in {"init", "login", "populate"} => pipe = <<>>
    BY DEF AllInv, LoginInv, NoLogin
  <2>2. main = "form" => pipe = <<>> \/ (Len(pipe) = 1 /\ pipe[1].kind = "code")
    BY DEF AllInv, LoginInv, NoLogin, LoginInFlight
  <2>3. main \in UiPcs => pipe = <<>> \/ pipe = <<[kind |-> "sync", value |-> batch]>>
    BY DEF AllInv, HandshakeInv, SyncMessage
  <2>4. DOMAIN pipe = 1 .. Len(pipe) /\ Len(pipe) \in Nat
    BY LenProperties DEF AllInv, TypeOK
  <2> QED BY <2>1, <2>2, <2>3, <2>4 DEF PipeDiscipline
<1> QED BY AllInvariant, <1>1, PTL

(* Whoever got past the login screen has credentials in the cache.         *)
THEOREM LoginIsAlwaysSaved == Spec => []LoginIsSaved
<1>1. AllInv => LoginIsSaved
  BY DEF AllInv, LoginInv, LoginIsSaved
<1> QED BY AllInvariant, <1>1, PTL

-----------------------------------------------------------------------------
(* Items.  The ids in the queue increase, so taking the head out of it     *)
(* leaves no other copy behind.                                            *)

Increasing(items) ==
  \A j, k \in DOMAIN items : j < k => items[j].id < items[k].id

LEMMA IdsAppend ==
  ASSUME NEW items \in Seq(Item), NEW i \in Item,
         Increasing(items), \A n \in Ids(items) : n < i.id
  PROVE  /\ Ids(Append(items, i)) = Ids(items) \cup {i.id}
         /\ Increasing(Append(items, i))
<1>1. /\ DOMAIN items = 1 .. Len(items) /\ Len(items) \in Nat
      /\ DOMAIN Append(items, i) = 1 .. Len(items) + 1
      /\ \A k \in 1 .. Len(items) : Append(items, i)[k] = items[k]
      /\ Append(items, i)[Len(items) + 1] = i
  BY AppendProperties, LenProperties
<1>2. Ids(Append(items, i)) = Ids(items) \cup {i.id}
  BY <1>1 DEF Ids
<1>3. Increasing(Append(items, i))
  <2> SUFFICES ASSUME NEW j \in 1 .. Len(items) + 1,
                      NEW k \in 1 .. Len(items) + 1, j < k
               PROVE  Append(items, i)[j].id < Append(items, i)[k].id
    BY <1>1 DEF Increasing
  <2>1. j \in 1 .. Len(items)
    BY <1>1
  <2>2. CASE k = Len(items) + 1
    BY <1>1, <2>1, <2>2 DEF Ids
  <2>3. CASE k # Len(items) + 1
    BY <1>1, <2>1, <2>3 DEF Increasing
  <2> QED BY <2>2, <2>3
<1> QED BY <1>2, <1>3

LEMMA IdsTail ==
  ASSUME NEW items \in Seq(Item), items # <<>>, Increasing(items)
  PROVE  /\ Ids(items) = {Head(items).id} \cup Ids(Tail(items))
         /\ \A n \in Ids(Tail(items)) : Head(items).id < n
         /\ Increasing(Tail(items))
<1>1. /\ DOMAIN items = 1 .. Len(items) /\ Len(items) \in Nat \ {0}
      /\ DOMAIN Tail(items) = 1 .. Len(items) - 1
      /\ \A k \in 1 .. Len(items) - 1 : Tail(items)[k] = items[k + 1]
      /\ Head(items) = items[1]
  BY HeadTail, HeadTailProperties, LenProperties, EmptySeq
<1>2. Ids(items) = {Head(items).id} \cup Ids(Tail(items))
  <2>1. \A k \in 1 .. Len(items) : k = 1 \/ k - 1 \in 1 .. Len(items) - 1
    BY <1>1
  <2>2. \A k \in 1 .. Len(items) : items[k].id \in {Head(items).id} \cup Ids(Tail(items))
    <3> SUFFICES ASSUME NEW k \in 1 .. Len(items), k # 1
                 PROVE  items[k].id \in Ids(Tail(items))
      BY <1>1
    <3>1. k - 1 \in DOMAIN Tail(items) /\ Tail(items)[k - 1] = items[k]
      BY <1>1, <2>1
    <3> QED BY <3>1 DEF Ids
  <2>3. \A k \in 1 .. Len(items) - 1 : k + 1 \in 1 .. Len(items)
    BY <1>1
  <2>4. Ids(Tail(items)) \subseteq Ids(items)
    BY <1>1, <2>3 DEF Ids
  <2>5. 1 \in 1 .. Len(items)
    BY <1>1
  <2> QED BY <1>1, <2>2, <2>4, <2>5 DEF Ids
<1>3. \A n \in Ids(Tail(items)) : Head(items).id < n
  BY <1>1 DEF Ids, Increasing
<1>4. Increasing(Tail(items))
  BY <1>1 DEF Increasing
<1> QED BY <1>2, <1>3, <1>4

LEMMA IdsSmall ==
  /\ Ids(<<>>) = {} /\ Increasing(<<>>)
  /\ \A items \in Seq(Item) : Len(items) = 1 => Ids(items) = {items[1].id}
<1>1. Ids(<<>>) = {} /\ Increasing(<<>>)
  BY DEF Ids, Increasing
<1>2. ASSUME NEW items \in Seq(Item), Len(items) = 1
      PROVE  Ids(items) = {items[1].id}
  <2>1. DOMAIN items = {1}
    BY <1>2, LenProperties
  <2> QED BY <2>1 DEF Ids
<1> QED BY <1>1, <1>2

Ran == {ran[k] : k \in DOMAIN ran}

(* What has not run yet and may still run.                                 *)
Pending == Ids(queue) \cup (IF qt = "run" THEN Ids(held) ELSE {})

ItemsInv ==
  /\ Ids(queue) \cup Ids(held) \cup freed = 1 .. submitted
  /\ Ids(queue) \cap Ids(held) = {}
  /\ freed \cap (Ids(queue) \cup Ids(held)) = {}
  /\ Increasing(queue)

LEMMA PushItems ==
  ASSUME TypeOK, HeldOK, ItemsInv, LockAndPush("login") \/ LockAndPush("message")
  PROVE  ItemsInv'
<1>1. PICK item \in Item :
        /\ item.id = submitted + 1 /\ submitted' = submitted + 1
        /\ held' = held
        /\ \/ queue' = Append(queue, item) /\ freed' = freed
           \/ queue' = queue /\ freed' = freed \cup {submitted + 1}
  <2>1. [type |-> "login", id |-> submitted + 1] \in Item
        /\ [type |-> "message", id |-> submitted + 1] \in Item
    BY DEF TypeOK, Item
  <2> QED BY <2>1 DEF LockAndPush
<1>2. queue \in Seq(Item) /\ submitted \in Nat
  BY DEF TypeOK
<1>3. 1 .. submitted + 1 = 1 .. submitted \cup {submitted + 1}
      /\ submitted + 1 \notin 1 .. submitted
  BY <1>2
<1>4. \A n \in Ids(queue) \cup Ids(held) \cup freed : n \in 1 .. submitted
  BY DEF ItemsInv
<1>5. CASE queue' = Append(queue, item) /\ freed' = freed
  <2>1. Ids(queue') = Ids(queue) \cup {submitted + 1} /\ Increasing(queue')
    <3>1. \A n \in Ids(queue) : n < item.id
      BY <1>1, <1>2, <1>4
    <3> QED BY <1>1, <1>2, <1>5, <3>1, IdsAppend DEF ItemsInv
  <2>2. Ids(held') = Ids(held)
    BY <1>1
  <2> QED BY <1>1, <1>3, <1>4, <1>5, <2>1, <2>2 DEF ItemsInv
<1>6. CASE queue' = queue /\ freed' = freed \cup {submitted + 1}
  BY <1>1, <1>3, <1>4, <1>6 DEF ItemsInv
<1> QED BY <1>1, <1>5, <1>6

LEMMA ItemsStep ==
  ASSUME TypeOK, HeldOK, ItemsInv, [Next]_vars
  PROVE  ItemsInv'
<1> USE DEF ItemsInv, itemVars
<1>1. CASE StartQueueThread  BY <1>1 DEF StartQueueThread
<1>2. CASE InitFails  BY <1>2 DEF InitFails
<1>3. CASE TokenLogin  BY <1>3 DEF TokenLogin
<1>4. CASE NoToken  BY <1>4 DEF NoToken
<1>5. CASE SubmitLogin
  BY <1>5, PushItems DEF SubmitLogin
<1>6. CASE ReadLoginCode  BY <1>6 DEF ReadLoginCode
<1>7. CASE CtrlCLogin  BY <1>7 DEF CtrlCLogin
<1>8. CASE StartSyncer  BY <1>8 DEF StartSyncer
<1>9. CASE ReadSyncData  BY <1>9 DEF ReadSyncData
<1>10. CASE AckFlag  BY <1>10 DEF AckFlag
<1>11. CASE AckSignal  BY <1>11 DEF AckSignal, SignalSync
<1>12. CASE UserMessage
  BY <1>12, PushItems DEF UserMessage
<1>13. CASE CtrlC  BY <1>13 DEF CtrlC
<1>14. CASE QuitSignal  BY <1>14 DEF QuitSignal, SignalSync
<1>15. CASE SetDone  BY <1>15 DEF SetDone
<1>16. CASE MatrixCancel  BY <1>16 DEF MatrixCancel
<1>17. CASE JoinSync  BY <1>17 DEF JoinSync
<1>18. CASE SignalQueueThread  BY <1>18 DEF SignalQueueThread, SignalQueue
<1>19. CASE JoinQueue  BY <1>19 DEF JoinQueue
<1>20. CASE Teardown
  BY <1>20, IdsSmall DEF Teardown, ItemsInv
<1>21. CASE SyncResponse  BY <1>21 DEF SyncResponse
<1>22. CASE SyncForeverReturns  BY <1>22 DEF SyncForeverReturns
<1>23. CASE PublishBatch  BY <1>23 DEF PublishBatch
<1>24. CASE CheckSignaled  BY <1>24 DEF CheckSignaled
<1>25. CASE CondWaitSync  BY <1>25 DEF CondWaitSync
<1>26. CASE SpuriousWakeupSync  BY <1>26 DEF SpuriousWakeupSync
<1>27. CASE ResetSignaled  BY <1>27 DEF ResetSignaled
<1>28. CASE ListenerLoop  BY <1>28 DEF ListenerLoop
<1>29. CASE LockQueue  BY <1>29 DEF LockQueue
<1>30. CASE PopItem
  <2>1. CASE queue = <<>>
    BY <1>30, <2>1 DEF PopItem, ItemsInv
  <2>2. CASE queue # <<>>
    <3>1. /\ held = <<>> /\ held' = <<Head(queue)>> /\ queue' = Tail(queue)
          /\ freed' = freed /\ submitted' = submitted /\ queue \in Seq(Item)
      BY <1>30, <2>2 DEF PopItem, HeldOK, TypeOK
    <3>2. /\ Ids(queue) = {Head(queue).id} \cup Ids(queue') /\ Increasing(queue')
          /\ \A n \in Ids(queue') : Head(queue).id < n
          /\ Head(queue) \in Item
      BY <2>2, <3>1, IdsTail, HeadTail DEF ItemsInv
    <3>3. Ids(held) = {} /\ Ids(held') = {Head(queue).id} /\ Head(queue).id \in Nat
      <4>1. held' \in Seq(Item) /\ Len(held') = 1 /\ held'[1] = Head(queue)
        BY <3>1, <3>2
      <4> QED BY <3>1, <3>2, <4>1, IdsSmall DEF Item
    <3>4. Ids(queue') \subseteq Nat
      BY <2>2, <3>1, HeadTail, IdsType
    <3>5. Head(queue).id \notin Ids(queue')
      BY <3>2, <3>3, <3>4
    <3> QED BY <3>1, <3>2, <3>3, <3>5 DEF ItemsInv
  <2> QED BY <2>1, <2>2
<1>31. CASE CondWaitQueue  BY <1>31 DEF CondWaitQueue
<1>32. CASE SpuriousWakeupQueue  BY <1>32 DEF SpuriousWakeupQueue
<1>33. CASE RunItem  BY <1>33 DEF RunItem
<1>34. ASSUME NEW answer \in {MATRIX_SUCCESS, LoginFailed}, MatrixLogin(answer)
     PROVE  ItemsInv'
  BY <1>34 DEF MatrixLogin
<1>35. CASE ReplyLogin  BY <1>35 DEF ReplyLogin
<1>36. CASE FreeItem
  BY <1>36, IdsSmall DEF FreeItem, ItemsInv
<1>37. CASE UNCHANGED vars
  BY <1>37 DEF vars
<1> QED BY <1>1, <1>2, <1>3, <1>4, <1>5, <1>6, <1>7, <1>8, <1>9, <1>10, <1>11,
           <1>12, <1>13, <1>14, <1>15, <1>16, <1>17, <1>18, <1>19, <1>20,
           <1>21, <1>22, <1>23, <1>24, <1>25, <1>26, <1>27, <1>28, <1>29,
           <1>30, <1>31, <1>32, <1>33, <1>34, <1>35, <1>36, <1>37
        DEF Next, MainNext, SyncNext, QueueNext

(* When cleanup destroys the mutex, the pipe and the rooms, both other     *)
(* threads have ended.                                                     *)
TeardownInv ==
  /\ main \in {"signal_queue", "join_queue", "teardown", "exit"} =>
       sync \in {"none", "exited"}
  /\ main \in {"teardown", "exit"} => qt \in {"none", "exited"}
  /\ main = "exit" => queue = <<>>

LEMMA TeardownStep ==
  ASSUME HeldOK, TeardownInv, [Next]_vars
  PROVE  TeardownInv'
<1> USE DEF TeardownInv, mainVars, syncVars, itemVars
<1>1. CASE StartQueueThread  BY <1>1 DEF StartQueueThread
<1>2. CASE InitFails  BY <1>2 DEF InitFails
<1>3. CASE TokenLogin  BY <1>3 DEF TokenLogin
<1>4. CASE NoToken  BY <1>4 DEF NoToken
<1>5. CASE SubmitLogin  BY <1>5 DEF SubmitLogin, LockAndPush, SignalQueue
<1>6. CASE ReadLoginCode  BY <1>6 DEF ReadLoginCode
<1>7. CASE CtrlCLogin  BY <1>7 DEF CtrlCLogin
<1>8. CASE StartSyncer  BY <1>8 DEF StartSyncer
<1>9. CASE ReadSyncData  BY <1>9 DEF ReadSyncData
<1>10. CASE AckFlag  BY <1>10 DEF AckFlag
<1>11. CASE AckSignal  BY <1>11 DEF AckSignal, SignalSync
<1>12. CASE UserMessage  BY <1>12 DEF UserMessage, LockAndPush, SignalQueue
<1>13. CASE CtrlC  BY <1>13 DEF CtrlC
<1>14. CASE QuitSignal  BY <1>14 DEF QuitSignal, SignalSync
<1>15. CASE SetDone  BY <1>15 DEF SetDone
<1>16. CASE MatrixCancel  BY <1>16 DEF MatrixCancel
<1>17. CASE JoinSync  BY <1>17 DEF JoinSync
<1>18. CASE SignalQueueThread  BY <1>18 DEF SignalQueueThread, SignalQueue
<1>19. CASE JoinQueue  BY <1>19 DEF JoinQueue
<1>20. CASE Teardown  BY <1>20 DEF Teardown
<1>21. CASE SyncResponse  BY <1>21 DEF SyncResponse
<1>22. CASE SyncForeverReturns  BY <1>22 DEF SyncForeverReturns
<1>23. CASE PublishBatch  BY <1>23 DEF PublishBatch
<1>24. CASE CheckSignaled  BY <1>24 DEF CheckSignaled
<1>25. CASE CondWaitSync  BY <1>25 DEF CondWaitSync
<1>26. CASE SpuriousWakeupSync  BY <1>26 DEF SpuriousWakeupSync
<1>27. CASE ResetSignaled  BY <1>27 DEF ResetSignaled
<1>28. CASE ListenerLoop  BY <1>28 DEF ListenerLoop
<1>29. CASE LockQueue  BY <1>29 DEF LockQueue
<1>30. CASE PopItem  BY <1>30 DEF PopItem
<1>31. CASE CondWaitQueue  BY <1>31 DEF CondWaitQueue
<1>32. CASE SpuriousWakeupQueue  BY <1>32 DEF SpuriousWakeupQueue
<1>33. CASE RunItem  BY <1>33 DEF RunItem
<1>34. ASSUME NEW answer \in {MATRIX_SUCCESS, LoginFailed}, MatrixLogin(answer)
     PROVE  TeardownInv'
  BY <1>34 DEF MatrixLogin
<1>35. CASE ReplyLogin  BY <1>35 DEF ReplyLogin
<1>36. CASE FreeItem  BY <1>36 DEF FreeItem
<1>37. CASE UNCHANGED vars
  BY <1>37 DEF vars
<1> QED BY <1>1, <1>2, <1>3, <1>4, <1>5, <1>6, <1>7, <1>8, <1>9, <1>10, <1>11,
           <1>12, <1>13, <1>14, <1>15, <1>16, <1>17, <1>18, <1>19, <1>20,
           <1>21, <1>22, <1>23, <1>24, <1>25, <1>26, <1>27, <1>28, <1>29,
           <1>30, <1>31, <1>32, <1>33, <1>34, <1>35, <1>36, <1>37
        DEF Next, MainNext, SyncNext, QueueNext

(* Every allocated item is queued, held by the queue thread or freed, and  *)
(* in one of these places only: nothing leaks or is freed twice.           *)
THEOREM ItemsAreAccounted == Spec => []ItemAccounting
<1>1. Init => ItemsInv
  BY IdsSmall DEF Init, ItemsInv
<1>2. AllInv /\ ItemsInv /\ [Next]_vars => ItemsInv'
  BY ItemsStep DEF AllInv
<1>3. AllInv /\ ItemsInv => ItemAccounting
  BY DEF AllInv, HeldOK, ItemsInv, ItemAccounting
<1> QED BY AllInvariant, <1>1, <1>2, <1>3, PTL DEF Spec

(* cleanup tears down what the threads share when it is the only one left, *)
(* and then every item was freed.                                          *)
THEOREM TeardownIsAlone == Spec => []TeardownAlone
<1>1. Init => TeardownInv /\ ItemsInv
  BY IdsSmall DEF Init, TeardownInv, ItemsInv
<1>2. AllInv /\ TeardownInv /\ ItemsInv /\ [Next]_vars => TeardownInv' /\ ItemsInv'
  BY ItemsStep, TeardownStep DEF AllInv
<1>3. AllInv /\ TeardownInv /\ ItemsInv => TeardownAlone
  <2> SUFFICES ASSUME AllInv, TeardownInv, ItemsInv PROVE TeardownAlone
    OBVIOUS
  <2>1. main = "exit" => held = <<>> /\ queue = <<>>
    BY DEF AllInv, HeldOK, TeardownInv
  <2>2. main = "exit" => freed = 1 .. submitted
    BY <2>1, IdsSmall DEF ItemsInv
  <2> QED BY <2>2 DEF TeardownInv, TeardownAlone
<1> QED BY AllInvariant, <1>1, <1>2, <1>3, PTL DEF Spec

-----------------------------------------------------------------------------
(* Order.  Until the program shuts down everything submitted has run, was  *)
(* dropped or is pending, and whatever ran is older than whatever is       *)
(* pending; afterwards nothing runs any more.                              *)
OrderInv ==
  /\ RunInOrder
  /\ ~done => /\ 1 .. submitted \subseteq Ran \cup dropped \cup Pending
              /\ \A r \in Ran : \A p \in Pending : r < p
              /\ \A p \in Ids(queue) : \A h \in Ids(held) : h < p
              /\ \A r \in Ran : r <= submitted

LEMMA RunAppend ==
  ASSUME TypeOK, RunInOrder, NEW i \in Nat, \A r \in Ran : r < i,
         1 .. i \subseteq Ran \cup {i} \cup dropped,
         ran' = Append(ran, i), dropped' = dropped
  PROVE  RunInOrder' /\ Ran' = Ran \cup {i}
<1>1. ran \in Seq(Nat) /\ Len(ran) \in Nat /\ DOMAIN ran = 1 .. Len(ran)
  BY LenProperties DEF TypeOK
<1>2. /\ DOMAIN ran' = 1 .. Len(ran) + 1
      /\ \A k \in 1 .. Len(ran) : ran'[k] = ran[k]
      /\ ran'[Len(ran) + 1] = i
  BY <1>1, AppendProperties, LenProperties
<1>3. Ran' = Ran \cup {i}
  BY <1>1, <1>2 DEF Ran
<1>4. ASSUME NEW k \in 1 .. Len(ran) + 1
      PROVE  /\ \A j \in 1 .. k - 1 : ran'[j] < ran'[k]
             /\ 1 .. ran'[k] \subseteq {ran'[j] : j \in 1 .. k} \cup dropped
  <2>1. CASE k = Len(ran) + 1
    <3>1. ran'[k] = i /\ \A j \in 1 .. k - 1 : ran'[j] = ran[j] /\ ran[j] \in Ran
      BY <1>1, <1>2, <2>1 DEF Ran
    <3>2. {ran'[j] : j \in 1 .. k} = Ran'
      BY <1>2, <2>1 DEF Ran
    <3> QED BY <1>3, <3>1, <3>2
  <2>2. CASE k # Len(ran) + 1
    <3>1. k \in 1 .. Len(ran) /\ 1 .. k \subseteq 1 .. Len(ran)
      BY <1>1, <2>2
    <3>2. \A j \in 1 .. k : ran'[j] = ran[j]
      BY <1>2, <3>1
    <3>3. {ran'[j] : j \in 1 .. k} = {ran[j] : j \in 1 .. k}
      BY <3>2
    <3>4. /\ \A j \in 1 .. k - 1 : ran[j] < ran[k]
          /\ 1 .. ran[k] \subseteq {ran[j] : j \in 1 .. k} \cup dropped
      BY <1>1, <3>1 DEF RunInOrder
    <3> QED BY <1>1, <3>1, <3>2, <3>3, <3>4
  <2> QED BY <2>1, <2>2
<1> QED BY <1>2, <1>3, <1>4 DEF RunInOrder

(* RunInOrder is about ran and dropped only, and dropped only grows.       *)
LEMMA RunStutter ==
  ASSUME RunInOrder, ran' = ran, dropped \subseteq dropped'
  PROVE  RunInOrder' /\ Ran' = Ran
BY DEF RunInOrder, Ran

LEMMA OrderStutter ==
  ASSUME OrderInv, ran' = ran, dropped' = dropped, done' = done, queue' = queue,
         held' = held, submitted' = submitted, qt = "run" <=> qt' = "run"
  PROVE  OrderInv'
BY RunStutter DEF OrderInv, Pending

(* Past the first step of cleanup, done is set.                            *)
DoneInv == main \in QuitPcs \ {"quit", "cleanup"} => done

LEMMA PushOrder ==
  ASSUME TypeOK, HeldOK, ItemsInv, OrderInv, done' = done,
         LockAndPush("login") \/ LockAndPush("message")
  PROVE  OrderInv'
<1>1. PICK item \in Item :
        /\ item.id = submitted + 1 /\ submitted' = submitted + 1
        /\ held' = held /\ ran' = ran
        /\ qt \in {"pop", "block", "run"} \/ qt' \in {"pop", "block", "run"} => qt' = qt
        /\ \/ queue' = Append(queue, item) /\ dropped' = dropped
           \/ queue' = queue /\ dropped' = dropped \cup {submitted + 1}
  <2>1. [type |-> "login", id |-> submitted + 1] \in Item
        /\ [type |-> "message", id |-> submitted + 1] \in Item
    BY DEF TypeOK, Item
  <2> QED BY <2>1 DEF LockAndPush, SignalQueue
<1>2. queue \in Seq(Item) /\ submitted \in Nat
  BY DEF TypeOK
<1>3. \A n \in Ids(queue) \cup Ids(held) \cup freed : n \in 1 .. submitted
  BY DEF ItemsInv
<1>4. RunInOrder' /\ Ran' = Ran
  BY <1>1, RunStutter DEF OrderInv
<1>5. Ids(queue') = Ids(queue) \/ Ids(queue') = Ids(queue) \cup {submitted + 1}
  <2>1. \A n \in Ids(queue) : n < item.id
    BY <1>1, <1>2, <1>3
  <2> QED BY <1>1, <1>2, <2>1, IdsAppend DEF ItemsInv
<1>6. 1 .. submitted' = 1 .. submitted \cup {submitted + 1}
  BY <1>1, <1>2
<1>7. submitted + 1 \in Ids(queue') \cup dropped'
  <2>1. CASE queue' = Append(queue, item)
    <3>1. \A n \in Ids(queue) : n < item.id
      BY <1>1, <1>2, <1>3
    <3> QED BY <1>1, <1>2, <2>1, <3>1, IdsAppend DEF ItemsInv
  <2> QED BY <1>1, <2>1
<1>8. Ids(held') = Ids(held) /\ (Pending' = Pending \/ Pending' = Pending \cup {submitted + 1})
      /\ Ids(queue') \subseteq Pending' /\ Pending \subseteq Pending'
  BY <1>1, <1>5 DEF Pending
<1>9. Ran \subseteq Nat
  <2>1. ran \in Seq(Nat)
    BY DEF TypeOK
  <2> QED BY <2>1, ElementOfSeq, LenProperties DEF Ran
<1>10. CASE ~done
  <2>1. /\ 1 .. submitted \subseteq Ran \cup dropped \cup Pending
        /\ \A r \in Ran : \A p \in Pending : r < p
        /\ \A p \in Ids(queue) : \A h \in Ids(held) : h < p
        /\ \A r \in Ran : r <= submitted
    BY <1>10 DEF OrderInv
  <2>2. 1 .. submitted' \subseteq Ran' \cup dropped' \cup Pending'
    BY <1>1, <1>4, <1>6, <1>7, <1>8, <2>1
  <2>3. \A r \in Ran' : \A p \in Pending' : r < p
    BY <1>2, <1>4, <1>8, <1>9, <2>1
  <2>4. \A p \in Ids(queue') : \A h \in Ids(held') : h < p
    BY <1>2, <1>3, <1>5, <1>8, <2>1
  <2>5. \A r \in Ran' : r <= submitted'
    BY <1>1, <1>2, <1>4, <1>9, <2>1
  <2> QED BY <1>4, <2>2, <2>3, <2>4, <2>5 DEF OrderInv
<1> QED BY <1>4, <1>10 DEF OrderInv

LEMMA OrderStep ==
  ASSUME TypeOK, HeldOK, StartOK, ItemsInv, OrderInv, DoneInv, [Next]_vars
  PROVE  OrderInv'
<1>1. CASE StartQueueThread
  BY <1>1, OrderStutter
     DEF StartQueueThread, mainVars, syncVars, itemVars, StartOK
<1>2. CASE InitFails
  BY <1>2, OrderStutter DEF InitFails, mainVars, syncVars, itemVars
<1>3. CASE TokenLogin
  BY <1>3, OrderStutter DEF TokenLogin, mainVars, syncVars, itemVars
<1>4. CASE NoToken
  BY <1>4, OrderStutter DEF NoToken, mainVars, syncVars, itemVars
<1>5. CASE SubmitLogin
  BY <1>5, PushOrder DEF SubmitLogin, mainVars
<1>6. CASE ReadLoginCode
  BY <1>6, OrderStutter DEF ReadLoginCode, mainVars, syncVars, itemVars
<1>7. CASE CtrlCLogin
  BY <1>7, OrderStutter DEF CtrlCLogin, mainVars, syncVars, itemVars
<1>8. CASE StartSyncer
  BY <1>8, OrderStutter DEF StartSyncer, mainVars, syncVars, itemVars
<1>9. CASE ReadSyncData
  BY <1>9, OrderStutter DEF ReadSyncData, mainVars, syncVars, itemVars
<1>10. CASE AckFlag
  BY <1>10, OrderStutter DEF AckFlag, mainVars, syncVars, itemVars
<1>11. CASE AckSignal
  BY <1>11, OrderStutter
     DEF AckSignal, SignalSync, mainVars, syncVars, itemVars
<1>12. CASE UserMessage
  BY <1>12, PushOrder DEF UserMessage, mainVars
<1>13. CASE CtrlC
  BY <1>13, OrderStutter DEF CtrlC, mainVars, syncVars, itemVars
<1>14. CASE QuitSignal
  BY <1>14, OrderStutter
     DEF QuitSignal, SignalSync, mainVars, syncVars, itemVars
<1>15. CASE SetDone
  <2>1. ran' = ran /\ dropped' = dropped /\ done'
    BY <1>15 DEF SetDone, itemVars
  <2> QED BY <2>1, RunStutter DEF OrderInv
<1>16. CASE MatrixCancel
  BY <1>16, OrderStutter DEF MatrixCancel, mainVars, syncVars, itemVars
<1>17. CASE JoinSync
  BY <1>17, OrderStutter DEF JoinSync, mainVars, syncVars, itemVars
<1>18. CASE SignalQueueThread
  BY <1>18, OrderStutter
     DEF SignalQueueThread, SignalQueue, mainVars, syncVars, itemVars
<1>19. CASE JoinQueue
  BY <1>19, OrderStutter DEF JoinQueue, mainVars, syncVars, itemVars
<1>20. CASE Teardown
  <2>1. RunInOrder' /\ Ran' = Ran
    BY <1>20, RunStutter DEF Teardown, OrderInv
  <2>2. done => OrderInv'
    BY <1>20, <2>1 DEF Teardown, OrderInv, mainVars
  <2> QED BY <1>20, <2>2 DEF Teardown, DoneInv, QuitPcs
<1>21. CASE SyncResponse
  BY <1>21, OrderStutter DEF SyncResponse, mainVars, syncVars, itemVars
<1>22. CASE SyncForeverReturns
  BY <1>22, OrderStutter DEF SyncForeverReturns, mainVars, syncVars, itemVars
<1>23. CASE PublishBatch
  BY <1>23, OrderStutter DEF PublishBatch, mainVars, syncVars, itemVars
<1>24. CASE CheckSignaled
  BY <1>24, OrderStutter DEF CheckSignaled, mainVars, syncVars, itemVars
<1>25. CASE CondWaitSync
  BY <1>25, OrderStutter DEF CondWaitSync, mainVars, syncVars, itemVars
<1>26. CASE SpuriousWakeupSync
  BY <1>26, OrderStutter DEF SpuriousWakeupSync, mainVars, syncVars, itemVars
<1>27. CASE ResetSignaled
  BY <1>27, OrderStutter DEF ResetSignaled, mainVars, syncVars, itemVars
<1>28. CASE ListenerLoop
  BY <1>28, OrderStutter DEF ListenerLoop, mainVars, syncVars, itemVars
<1>29. CASE LockQueue
  BY <1>29, OrderStutter DEF LockQueue, mainVars, syncVars, itemVars
<1>30. CASE PopItem
  <2>0. RunInOrder' /\ Ran' = Ran
    BY <1>30, RunStutter DEF PopItem, OrderInv
  <2>1. CASE queue = <<>>
    <3>1. Pending' = Pending
      BY <1>30, <2>1 DEF PopItem, Pending
    <3> QED BY <1>30, <2>0, <2>1, <3>1 DEF PopItem, OrderInv, mainVars
  <2>2. CASE queue # <<>>
    <3>1. /\ held' = <<Head(queue)>> /\ queue' = Tail(queue) /\ qt = "pop"
          /\ qt' = "run" /\ dropped' = dropped
          /\ submitted' = submitted /\ queue \in Seq(Item) /\ done' = done
      BY <1>30, <2>2 DEF PopItem, TypeOK, mainVars
    <3>2. /\ Ids(queue) = {Head(queue).id} \cup Ids(queue')
          /\ \A n \in Ids(queue') : Head(queue).id < n
          /\ Head(queue) \in Item
      BY <2>2, <3>1, IdsTail, HeadTail DEF ItemsInv
    <3>3. Ids(held') = {Head(queue).id}
      <4>1. held' \in Seq(Item) /\ Len(held') = 1 /\ held'[1] = Head(queue)
        BY <3>1, <3>2
      <4> QED BY <4>1, IdsSmall
    <3>4. Pending' = Pending
      BY <3>1, <3>2, <3>3 DEF Pending
    <3> QED BY <2>0, <3>1, <3>2, <3>3, <3>4 DEF OrderInv
  <2> QED BY <2>1, <2>2
<1>31. CASE CondWaitQueue
  BY <1>31, OrderStutter DEF CondWaitQueue, mainVars, syncVars, itemVars
<1>32. CASE SpuriousWakeupQueue
  BY <1>32, OrderStutter DEF SpuriousWakeupQueue, mainVars, syncVars, itemVars
<1>33. CASE RunItem
  <2>1. CASE done
    BY <1>33, <2>1, RunStutter DEF RunItem, OrderInv, mainVars
  <2>2. CASE ~done
    <3>1. /\ Ids(held) = {held[1].id} /\ held[1].id \in Nat
      <4>1. held \in Seq(Item) /\ Len(held) = 1
        BY <1>33 DEF RunItem, TypeOK, HeldOK
      <4>2. held[1] \in Item
        BY <4>1, ElementOfSeq
      <4> QED BY <4>1, <4>2, IdsSmall DEF Item
    <3>2. PICK i \in Nat : i = held[1].id
      BY <3>1
    <3>3. /\ ran' = Append(ran, i) /\ dropped' = dropped /\ queue' = queue
          /\ held' = held /\ submitted' = submitted /\ done' = done
          /\ qt = "run" /\ qt' # "run"
      BY <1>33, <2>2, <3>2 DEF RunItem, mainVars
    <3>4. /\ Pending = Ids(queue) \cup {i} /\ Pending' = Ids(queue)
          /\ Ids(queue') = Ids(queue)
      BY <3>1, <3>2, <3>3 DEF Pending
    <3>5. /\ 1 .. submitted \subseteq Ran \cup dropped \cup Pending
          /\ \A r \in Ran : \A p \in Pending : r < p
          /\ \A p \in Ids(queue) : i < p
          /\ \A r \in Ran : r <= submitted
      BY <2>2, <3>1, <3>2 DEF OrderInv
    <3>6. i \in 1 .. submitted /\ submitted \in Nat
      BY <3>1, <3>2 DEF ItemsInv, TypeOK
    <3>7. Ids(queue) \subseteq Nat
      BY IdsType DEF TypeOK
    <3>8. 1 .. i \subseteq Ran \cup {i} \cup dropped
      <4> SUFFICES ASSUME NEW n \in 1 .. i PROVE n \in Ran \cup {i} \cup dropped
        OBVIOUS
      <4>1. n \in 1 .. submitted /\ n \notin Ids(queue)
        BY <3>5, <3>6, <3>7
      <4> QED BY <3>4, <3>5, <4>1
    <3>9. RunInOrder' /\ Ran' = Ran \cup {i}
      BY <3>3, <3>4, <3>5, <3>8, RunAppend DEF OrderInv
    <3>10. /\ 1 .. submitted' \subseteq Ran' \cup dropped' \cup Pending'
           /\ \A r \in Ran' : \A p \in Pending' : r < p
           /\ \A p \in Ids(queue') : \A h \in Ids(held') : h < p
           /\ \A r \in Ran' : r <= submitted'
      BY <3>1, <3>2, <3>3, <3>4, <3>5, <3>6, <3>9
    <3> QED BY <3>9, <3>10 DEF OrderInv
  <2> QED BY <2>1, <2>2
<1>34. ASSUME NEW answer \in {MATRIX_SUCCESS, LoginFailed}, MatrixLogin(answer)
     PROVE  OrderInv'
  BY <1>34, OrderStutter DEF MatrixLogin, mainVars, syncVars, itemVars
<1>35. CASE ReplyLogin
  BY <1>35, OrderStutter DEF ReplyLogin, mainVars, syncVars, itemVars
<1>36. CASE FreeItem
  <2>1. RunInOrder' /\ Ran' = Ran
    BY <1>36, RunStutter DEF FreeItem, OrderInv
  <2>2. Pending' = Pending /\ Ids(held') = {}
    BY <1>36, IdsSmall DEF FreeItem, Pending
  <2> QED BY <1>36, <2>1, <2>2 DEF FreeItem, OrderInv, mainVars
<1>37. CASE UNCHANGED vars
  BY <1>37, OrderStutter DEF vars
<1> QED BY <1>1, <1>2, <1>3, <1>4, <1>5, <1>6, <1>7, <1>8, <1>9, <1>10, <1>11,
           <1>12, <1>13, <1>14, <1>15, <1>16, <1>17, <1>18, <1>19, <1>20,
           <1>21, <1>22, <1>23, <1>24, <1>25, <1>26, <1>27, <1>28, <1>29,
           <1>30, <1>31, <1>32, <1>33, <1>34, <1>35, <1>36, <1>37
        DEF Next, MainNext, SyncNext, QueueNext

LEMMA DoneStep ==
  ASSUME DoneInv, [Next]_vars
  PROVE  DoneInv'
<1> USE DEF DoneInv, QuitPcs, InitPcs, UiPcs, mainVars, syncVars, itemVars
<1>1. CASE StartQueueThread  BY <1>1 DEF StartQueueThread
<1>2. CASE InitFails  BY <1>2 DEF InitFails
<1>3. CASE TokenLogin  BY <1>3 DEF TokenLogin
<1>4. CASE NoToken  BY <1>4 DEF NoToken
<1>5. CASE SubmitLogin  BY <1>5 DEF SubmitLogin, LockAndPush, SignalQueue
<1>6. CASE ReadLoginCode  BY <1>6 DEF ReadLoginCode
<1>7. CASE CtrlCLogin  BY <1>7 DEF CtrlCLogin
<1>8. CASE StartSyncer  BY <1>8 DEF StartSyncer
<1>9. CASE ReadSyncData  BY <1>9 DEF ReadSyncData
<1>10. CASE AckFlag  BY <1>10 DEF AckFlag
<1>11. CASE AckSignal  BY <1>11 DEF AckSignal, SignalSync
<1>12. CASE UserMessage  BY <1>12 DEF UserMessage, LockAndPush, SignalQueue
<1>13. CASE CtrlC  BY <1>13 DEF CtrlC
<1>14. CASE QuitSignal  BY <1>14 DEF QuitSignal, SignalSync
<1>15. CASE SetDone  BY <1>15 DEF SetDone
<1>16. CASE MatrixCancel  BY <1>16 DEF MatrixCancel
<1>17. CASE JoinSync  BY <1>17 DEF JoinSync
<1>18. CASE SignalQueueThread  BY <1>18 DEF SignalQueueThread, SignalQueue
<1>19. CASE JoinQueue  BY <1>19 DEF JoinQueue
<1>20. CASE Teardown  BY <1>20 DEF Teardown
<1>21. CASE SyncResponse  BY <1>21 DEF SyncResponse
<1>22. CASE SyncForeverReturns  BY <1>22 DEF SyncForeverReturns
<1>23. CASE PublishBatch  BY <1>23 DEF PublishBatch
<1>24. CASE CheckSignaled  BY <1>24 DEF CheckSignaled
<1>25. CASE CondWaitSync  BY <1>25 DEF CondWaitSync
<1>26. CASE SpuriousWakeupSync  BY <1>26 DEF SpuriousWakeupSync
<1>27. CASE ResetSignaled  BY <1>27 DEF ResetSignaled
<1>28. CASE ListenerLoop  BY <1>28 DEF ListenerLoop
<1>29. CASE LockQueue  BY <1>29 DEF LockQueue
<1>30. CASE PopItem  BY <1>30 DEF PopItem
<1>31. CASE CondWaitQueue  BY <1>31 DEF CondWaitQueue
<1>32. CASE SpuriousWakeupQueue  BY <1>32 DEF SpuriousWakeupQueue
<1>33. CASE RunItem  BY <1>33 DEF RunItem
<1>34. ASSUME NEW answer \in {MATRIX_SUCCESS, LoginFailed}, MatrixLogin(answer)
     PROVE  DoneInv'
  BY <1>34 DEF MatrixLogin
<1>35. CASE ReplyLogin  BY <1>35 DEF ReplyLogin
<1>36. CASE FreeItem  BY <1>36 DEF FreeItem
<1>37. CASE UNCHANGED vars
  BY <1>37 DEF vars
<1> QED BY <1>1, <1>2, <1>3, <1>4, <1>5, <1>6, <1>7, <1>8, <1>9, <1>10, <1>11,
           <1>12, <1>13, <1>14, <1>15, <1>16, <1>17, <1>18, <1>19, <1>20,
           <1>21, <1>22, <1>23, <1>24, <1>25, <1>26, <1>27, <1>28, <1>29,
           <1>30, <1>31, <1>32, <1>33, <1>34, <1>35, <1>36, <1>37
        DEF Next, MainNext, SyncNext, QueueNext

(* Messages are sent in the order they were typed and none that the queue  *)
(* took is skipped, whatever the interleaving of typing, waking and        *)
(* shutting down.                                                          *)
THEOREM MessagesRunInOrder == Spec => []RunInOrder
<1>1. Init => ItemsInv /\ OrderInv /\ DoneInv
  <2> SUFFICES ASSUME Init PROVE ItemsInv /\ OrderInv /\ DoneInv
    OBVIOUS
  <2>1. ItemsInv /\ DoneInv
    BY IdsSmall DEF Init, ItemsInv, DoneInv, QuitPcs
  <2>2. Ran = {} /\ RunInOrder
    BY DEF Init, Ran, RunInOrder
  <2>3. Ids(queue) = {} /\ 1 .. submitted = {}
    BY IdsSmall DEF Init
  <2> QED BY <2>1, <2>2, <2>3 DEF OrderInv
<1>2. AllInv /\ ItemsInv /\ OrderInv /\ DoneInv /\ [Next]_vars
        => ItemsInv' /\ OrderInv' /\ DoneInv'
  BY ItemsStep, OrderStep, DoneStep DEF AllInv
<1>3. OrderInv => RunInOrder
  BY DEF OrderInv
<1> QED BY AllInvariant, <1>1, <1>2, <1>3, PTL DEF Spec

-----------------------------------------------------------------------------
(* The refinement: every step of the three threads is a step of the        *)
(* rendezvous or leaves its state alone.                                   *)

LEMMA PromiseStep ==
  ASSUME TypeOK, LoginInv, HandshakeInv, [Next]_vars
  PROVE  [Promise!Next]_<<Owner, batch, handling, main \in QuitPcs>>
<1> USE DEF Owner, LoginInv, WaitPcs, QuitPcs, InitPcs, UiPcs, mainVars,
            syncVars, itemVars
<1>1. CASE StartQueueThread  BY <1>1 DEF StartQueueThread
<1>2. CASE InitFails
  <2>1. Owner' = Owner /\ Owner # "ui" /\ main' \in QuitPcs
    BY <1>2 DEF InitFails, Owner, QuitPcs, syncVars
  <2> QED BY <1>2, <2>1
          DEF InitFails, Promise!Next, Promise!Quit, mainVars, syncVars
<1>3. CASE TokenLogin  BY <1>3 DEF TokenLogin
<1>4. CASE NoToken  BY <1>4 DEF NoToken
<1>5. CASE SubmitLogin  BY <1>5 DEF SubmitLogin, LockAndPush, SignalQueue
<1>6. CASE ReadLoginCode  BY <1>6 DEF ReadLoginCode
<1>7. CASE CtrlCLogin
  <2>1. Owner' = Owner /\ Owner # "ui" /\ main' \in QuitPcs
    BY <1>7 DEF CtrlCLogin, Owner, QuitPcs, syncVars
  <2> QED BY <1>7, <2>1
          DEF CtrlCLogin, Promise!Next, Promise!Quit, mainVars, syncVars
<1>8. CASE StartSyncer  BY <1>8 DEF StartSyncer
<1>9. CASE ReadSyncData
  <2>1. pipe = <<SyncMessage>> /\ sync \in WaitPcs /\ main = "ui"
    BY <1>9 DEF ReadSyncData, HandshakeInv, UiPcs
  <2>2. Head(pipe) = SyncMessage /\ pipe # <<>>
    BY <2>1
  <2>3. handling' = batch /\ batch' = batch /\ main' = "handle"
    BY <1>9, <2>2 DEF ReadSyncData, SyncMessage, syncVars
  <2> QED BY <2>1, <2>2, <2>3 DEF Promise!Next, Promise!Take, Owner, QuitPcs
<1>10. CASE AckFlag
  <2>1. pipe = <<>>
    BY <1>10 DEF AckFlag, HandshakeInv, UiPcs
  <2>2. Owner = "ui" /\ Owner' = "syncer"
    BY <1>10, <2>1 DEF AckFlag, Owner
  <2> QED BY <1>10, <2>2
          DEF AckFlag, Promise!Next, Promise!Release, QuitPcs, mainVars,
              syncVars
<1>11. CASE AckSignal  BY <1>11 DEF AckSignal, SignalSync
<1>12. CASE UserMessage  BY <1>12 DEF UserMessage, LockAndPush, SignalQueue
<1>13. CASE CtrlC
  <2>1. Owner' = Owner /\ Owner # "ui" /\ main' \in QuitPcs
    BY <1>13 DEF CtrlC, Owner, QuitPcs, syncVars
  <2> QED BY <1>13, <2>1
          DEF CtrlC, Promise!Next, Promise!Quit, mainVars, syncVars
<1>14. CASE QuitSignal  BY <1>14 DEF QuitSignal, SignalSync
<1>15. CASE SetDone  BY <1>15 DEF SetDone
<1>16. CASE MatrixCancel  BY <1>16 DEF MatrixCancel
<1>17. CASE JoinSync  BY <1>17 DEF JoinSync
<1>18. CASE SignalQueueThread  BY <1>18 DEF SignalQueueThread, SignalQueue
<1>19. CASE JoinQueue  BY <1>19 DEF JoinQueue
<1>20. CASE Teardown
  <2>1. Owner' = "syncer" /\ main \in QuitPcs /\ main' \in QuitPcs
    BY <1>20 DEF Teardown, Owner, QuitPcs
  <2>2. Owner \in {"pipe", "syncer"}
    BY <1>20 DEF Teardown, Owner
  <2> QED BY <1>20, <2>1, <2>2
          DEF Teardown, Promise!Next, Promise!Abandon, mainVars, syncVars
<1>21. CASE SyncResponse  BY <1>21 DEF SyncResponse
<1>22. CASE SyncForeverReturns  BY <1>22 DEF SyncForeverReturns
<1>23. CASE PublishBatch
  <2>1. main # "handle" /\ sync = "save"
    BY <1>23 DEF PublishBatch, HandshakeInv, WaitPcs
  <2>2. pipe' # <<>>
    <3>1. pipe \in Seq(Message) /\ [kind |-> "sync", value |-> batch + 1] \in Message
      BY DEF TypeOK, Message
    <3> QED BY <1>23, <3>1, AppendProperties DEF PublishBatch
  <2>3. Owner = "syncer" /\ Owner' = "pipe"
    BY <1>23, <2>1, <2>2 DEF PublishBatch, Owner, WaitPcs
  <2> QED BY <1>23, <2>3
          DEF PublishBatch, Promise!Next, Promise!Publish, mainVars
<1>24. CASE CheckSignaled
  <2>1. CASE signaled /\ pipe # <<>>
    <3>1. main \in QuitPcs
      BY <1>24, <2>1 DEF CheckSignaled, HandshakeInv, WaitPcs, TypeOK, MainPcs
    <3>2. Owner = "pipe" /\ Owner' = "syncer"
      BY <1>24, <2>1, <3>1 DEF CheckSignaled, Owner, WaitPcs, QuitPcs
    <3> QED BY <1>24, <3>1, <3>2
            DEF CheckSignaled, Promise!Next, Promise!Abandon, mainVars
  <2>2. CASE ~(signaled /\ pipe # <<>>)
    BY <1>24, <2>2
       DEF CheckSignaled, HandshakeInv, Owner, UiPcs, WaitPcs, mainVars
  <2> QED BY <2>1, <2>2
<1>25. CASE CondWaitSync  BY <1>25 DEF CondWaitSync
<1>26. CASE SpuriousWakeupSync  BY <1>26 DEF SpuriousWakeupSync
<1>27. CASE ResetSignaled  BY <1>27 DEF ResetSignaled
<1>28. CASE ListenerLoop  BY <1>28 DEF ListenerLoop
<1>29. CASE LockQueue  BY <1>29 DEF LockQueue
<1>30. CASE PopItem  BY <1>30 DEF PopItem
<1>31. CASE CondWaitQueue  BY <1>31 DEF CondWaitQueue
<1>32. CASE SpuriousWakeupQueue  BY <1>32 DEF SpuriousWakeupQueue
<1>33. CASE RunItem  BY <1>33 DEF RunItem
<1>34. ASSUME NEW answer \in {MATRIX_SUCCESS, LoginFailed}, MatrixLogin(answer)
     PROVE  [Promise!Next]_<<Owner, batch, handling, main \in QuitPcs>>
  BY <1>34 DEF MatrixLogin
<1>35. CASE ReplyLogin  BY <1>35 DEF ReplyLogin
<1>36. CASE FreeItem  BY <1>36 DEF FreeItem
<1>37. CASE UNCHANGED vars
  BY <1>37 DEF vars
<1> QED BY <1>1, <1>2, <1>3, <1>4, <1>5, <1>6, <1>7, <1>8, <1>9, <1>10, <1>11,
           <1>12, <1>13, <1>14, <1>15, <1>16, <1>17, <1>18, <1>19, <1>20,
           <1>21, <1>22, <1>23, <1>24, <1>25, <1>26, <1>27, <1>28, <1>29,
           <1>30, <1>31, <1>32, <1>33, <1>34, <1>35, <1>36, <1>37
        DEF Next, MainNext, SyncNext, QueueNext

(* The flag, the condition variable and the pipe implement the rendezvous: *)
(* each batch is taken once, in order, while the syncer stands still.      *)
THEOREM ThreadsImplementRendezvous == Spec => RefinesRendezvous
<1>1. Init => Promise!Init
  BY DEF Init, Promise!Init, Owner, QuitPcs, WaitPcs
<1>2. AllInv /\ [Next]_vars => [Promise!Next]_<<Owner, batch, handling, main \in QuitPcs>>
  BY PromiseStep DEF AllInv
<1> QED BY AllInvariant, <1>1, <1>2, PTL
        DEF Spec, RefinesRendezvous, Promise!Spec, Promise!vars

=============================================================================
