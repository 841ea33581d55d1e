--------------------------- MODULE TimelineProofs ---------------------------
(***************************************************************************)
(* Proofs about a room between the syncer and the UI thread, for any       *)
(* number of messages, any line counts, any sizes of the widget and any    *)
(* interleaving.                                                           *)
(***************************************************************************)
EXTENDS Timeline, SequenceTheorems, TLAPS

USE TimelineAssumption

Ordered(b) ==
  \A j, k \in 1 .. Len(b) :
    j < k => \/ b[j].msg < b[k].msg
             \/ b[j].msg = b[k].msg /\ b[j].line < b[k].line

LinesIn(b) == {b[k] : k \in 1 .. Len(b)}

BufferOK(b) == b \in Seq(LineSet) /\ Ordered(b)

MessageLines(m, n) == [k \in 1 .. n |-> [msg |-> m, line |-> k]]

(* Inserting a message behind all that are there. *)
LEMMA InsertLines ==
  ASSUME NEW b \in Seq(LineSet), Ordered(b), NEW m \in Messages, NEW n \in Nat,
         \A k \in 1 .. Len(b) : b[k].msg < m
  PROVE  /\ b \o MessageLines(m, n) \in Seq(LineSet)
         /\ Ordered(b \o MessageLines(m, n))
         /\ LinesIn(b \o MessageLines(m, n)) =
              LinesIn(b) \cup {[msg |-> m, line |-> k] : k \in 1 .. n}
<1> DEFINE t == MessageLines(m, n)
           c == b \o t
<1>1. \A k \in 1 .. n : t[k] = [msg |-> m, line |-> k]
  BY DEF MessageLines
<1>2. t \in Seq(LineSet) /\ Len(t) = n
  BY DEF MessageLines, LineSet
<1> HIDE DEF t
<1>3. c \in Seq(LineSet) /\ Len(c) = Len(b) + n /\ Len(b) \in Nat
  <2>1. b \o t \in Seq(LineSet) /\ Len(b \o t) = Len(b) + Len(t)
    BY <1>2, ConcatProperties
  <2> QED BY <1>2, <2>1
<1>4. /\ \A k \in 1 .. Len(b) : c[k] = b[k]
      /\ \A k \in 1 .. n : c[Len(b) + k] = [msg |-> m, line |-> k]
  <2>1. \A k \in 1 .. Len(b) + Len(t) :
          (b \o t)[k] = IF k <= Len(b) THEN b[k] ELSE t[k - Len(b)]
    BY <1>2, ConcatProperties
  <2> QED BY <1>1, <1>2, <1>3, <2>1
<1> HIDE DEF c
<1>5. \A k \in 1 .. Len(c) :
        k \in 1 .. Len(b) \/ (k - Len(b) \in 1 .. n /\ k = Len(b) + (k - Len(b)))
  BY <1>3
<1>6. ASSUME NEW j \in 1 .. Len(c), NEW k \in 1 .. Len(c), j < k
      PROVE  \/ c[j].msg < c[k].msg
             \/ c[j].msg = c[k].msg /\ c[j].line < c[k].line
  <2>1. CASE k \in 1 .. Len(b)
    <3>1. j \in 1 .. Len(b)
      BY <1>3, <1>6, <2>1
    <3> QED BY <1>4, <1>6, <2>1, <3>1 DEF Ordered
  <2>2. CASE k \notin 1 .. Len(b)
    <3> DEFINE k1 == k - Len(b)
               j1 == j - Len(b)
    <3>1. k1 \in 1 .. n /\ c[k] = [msg |-> m, line |-> k1]
      BY <1>4, <1>5, <2>2
    <3>2. CASE j \in 1 .. Len(b)
      BY <1>4, <3>1, <3>2
    <3>3. CASE j \notin 1 .. Len(b)
      <4>1. j1 \in 1 .. n /\ c[j] = [msg |-> m, line |-> j1]
        BY <1>4, <1>5, <3>3
      <4>2. j1 < k1
        BY <1>3, <1>6
      <4> QED BY <3>1, <4>1, <4>2
    <3> QED BY <3>2, <3>3
  <2> QED BY <2>1, <2>2
<1>7. LinesIn(c) = LinesIn(b) \cup {[msg |-> m, line |-> k] : k \in 1 .. n}
  <2>1. ASSUME NEW k \in 1 .. Len(c)
        PROVE  c[k] \in LinesIn(b) \cup {[msg |-> m, line |-> i] : i \in 1 .. n}
    <3>1. CASE k \in 1 .. Len(b)
      BY <1>4, <3>1 DEF LinesIn
    <3>2. CASE k \notin 1 .. Len(b)
      <4> DEFINE i == k - Len(b)
      <4>1. i \in 1 .. n /\ c[k] = [msg |-> m, line |-> i]
        BY <1>4, <1>5, <3>2
      <4> HIDE DEF i
      <4> QED BY <4>1
    <3> QED BY <3>1, <3>2
  <2>2. ASSUME NEW k \in 1 .. Len(b) PROVE b[k] \in LinesIn(c)
    <3>1. k \in 1 .. Len(c)
      BY <1>3
    <3> QED BY <1>4, <3>1 DEF LinesIn
  <2>3. ASSUME NEW k \in 1 .. n PROVE [msg |-> m, line |-> k] \in LinesIn(c)
    <3>1. Len(b) + k \in 1 .. Len(c)
      BY <1>3
    <3> QED BY <1>4, <3>1 DEF LinesIn
  <2> QED BY <2>1, <2>2, <2>3 DEF LinesIn
<1> QED BY <1>3, <1>6, <1>7 DEF c, t, Ordered

(* Deleting the lines around one of a message deletes exactly its lines.   *)
LEMMA DeleteRun ==
  ASSUME BufferOK(buffer), NEW m \in Messages,
         NEW s \in 1 .. Len(buffer), NEW e \in 1 .. Len(buffer), s <= e,
         IsRun(m, s, e)
  PROVE  /\ BufferOK(Without(s, e))
         /\ Len(Without(s, e)) = Len(buffer) - (e - s + 1)
         /\ LinesIn(Without(s, e)) = {l \in LinesIn(buffer) : l.msg # m}
<1> DEFINE b == buffer
           d == e - s + 1
           n == Len(b) - d
           c == Without(s, e)
           I(k) == IF k < s THEN k ELSE k + d
<1>1. /\ Len(b) \in Nat /\ d \in Nat \ {0} /\ n \in Nat
      /\ s \in Nat /\ e \in Nat /\ s <= e /\ e <= Len(b) /\ 1 <= s
  BY DEF BufferOK
<1>2. \A k \in 1 .. n : I(k) \in 1 .. Len(b) /\ c[k] = b[I(k)]
  BY <1>1 DEF Without
<1>3. c \in Seq(LineSet) /\ Len(c) = n
  <2>1. \A k \in 1 .. n : c[k] \in LineSet
    BY <1>2 DEF BufferOK
  <2>2. c = [k \in 1 .. n |-> IF k < s THEN b[k] ELSE b[k + d]]
    BY DEF Without
  <2> HIDE DEF c
  <2>3. c = [k \in 1 .. n |-> c[k]] /\ DOMAIN c = 1 .. n
    BY <2>2
  <2>4. c \in [1 .. n -> LineSet]
    BY <2>1, <2>3
  <2> QED BY <1>1, <2>4
<1> HIDE DEF c
<1>4. \A j, k \in 1 .. n : j < k => I(j) < I(k)
  BY <1>1
<1>5. Ordered(c)
  <2> SUFFICES ASSUME NEW j \in 1 .. n, NEW k \in 1 .. n, j < k
               PROVE  \/ c[j].msg < c[k].msg
                      \/ c[j].msg = c[k].msg /\ c[j].line < c[k].line
    BY <1>3 DEF Ordered
  <2>1. I(j) \in 1 .. Len(b) /\ I(k) \in 1 .. Len(b) /\ I(j) < I(k)
    BY <1>2, <1>4
  <2>2. c[j] = b[I(j)] /\ c[k] = b[I(k)]
    BY <1>2
  <2> HIDE DEF I
  <2> QED BY <2>1, <2>2 DEF BufferOK, Ordered
<1>6. ASSUME NEW k \in 1 .. Len(b) PROVE b[k].msg = m <=> k \in s .. e
  <2>1. \A i \in 1 .. Len(b) : b[i].msg \in Nat
    <3>1. \A i \in 1 .. Len(b) : b[i] \in LineSet
      BY DEF BufferOK
    <3>2. \A l \in LineSet : l.msg \in Nat
      BY DEF LineSet, Messages
    <3> QED BY <3>1, <3>2
  <2>2. \A i, j \in 1 .. Len(b) : i <= j => b[i].msg <= b[j].msg
    BY <2>1 DEF BufferOK, Ordered
  <2>3. b[s].msg = m /\ b[e].msg = m
    BY <1>1 DEF IsRun
  <2>4. ASSUME k < s PROVE b[k].msg # m
    <3>1. s - 1 \in 1 .. Len(b) /\ s > 1 /\ k <= s - 1
      BY <1>1, <2>4
    <3>2. b[s - 1].msg # m
      BY <3>1 DEF IsRun
    <3>3. b[k].msg <= b[s - 1].msg /\ b[s - 1].msg <= b[s].msg
      BY <1>1, <2>2, <3>1
    <3> QED BY <2>1, <2>3, <3>1, <3>2, <3>3
  <2>5. ASSUME k > e PROVE b[k].msg # m
    <3>1. e + 1 \in 1 .. Len(b) /\ e < Len(b) /\ e + 1 <= k
      BY <1>1, <2>5
    <3>2. b[e + 1].msg # m
      BY <3>1 DEF IsRun
    <3>3. b[e].msg <= b[e + 1].msg /\ b[e + 1].msg <= b[k].msg
      BY <1>1, <2>2, <3>1
    <3> QED BY <2>1, <2>3, <3>1, <3>2, <3>3
  <2>6. k \in s .. e => b[k].msg = m
    BY DEF IsRun
  <2> QED BY <1>1, <2>4, <2>5, <2>6
<1>7. LinesIn(c) = {l \in LinesIn(b) : l.msg # m}
  <2>1. ASSUME NEW k \in 1 .. n
        PROVE  c[k] \in LinesIn(b) /\ c[k].msg # m
    <3>1. I(k) \in 1 .. Len(b) /\ I(k) \notin s .. e
      BY <1>1, <1>2
    <3>2. c[k] = b[I(k)]
      BY <1>2
    <3> HIDE DEF I
    <3> QED BY <1>6, <3>1, <3>2 DEF LinesIn
  <2>2. ASSUME NEW k \in 1 .. Len(b), b[k].msg # m
        PROVE  b[k] \in LinesIn(c)
    <3>1. k \notin s .. e
      BY <1>6, <2>2
    <3>2. CASE k < s
      <4>1. k \in 1 .. n /\ I(k) = k
        BY <1>1, <3>2
      <4> HIDE DEF I
      <4> QED BY <1>2, <1>3, <4>1 DEF LinesIn
    <3>3. CASE k > e
      <4>1. k - d \in 1 .. n /\ I(k - d) = k
        BY <1>1, <3>3
      <4> HIDE DEF I
      <4> QED BY <1>2, <1>3, <4>1 DEF LinesIn
    <3> QED BY <1>1, <3>1, <3>2, <3>3
  <2> QED BY <1>3, <2>1, <2>2 DEF LinesIn
<1> QED BY <1>3, <1>5, <1>7 DEF BufferOK, c

-----------------------------------------------------------------------------
(* The inductive invariant. *)

(* Where the two threads are, and what that says of the counters. *)
Places ==
  /\ capacity \in Nat \ {0}
  /\ syncer = "publish" => put = len + 1
  /\ syncer # "publish" => put = len
  /\ syncer \in {"grow", "put"} => put < MaxMessages
  /\ syncer = "put" => put - Back + 1 <= capacity
  /\ mutex = "ui" <=> Filling
  /\ mutex = "syncer" <=> syncer = "grow"
  /\ ui = "back" => consumed_back < Back /\ consumed = 0
  /\ ui = "forward" => consumed_back = Back /\ Back + consumed <= upto
  /\ ~Filling => \/ consumed_back = Back
                 \/ buffer = <<>> /\ consumed_back = 0 /\ consumed = 0

(* What the buffer is filled for. *)
Width ==
  /\ zeroed => ConsumedMessages \subseteq redacted
  /\ ui \in {"back", "forward", "draw"} =>
       zeroed \/ last_points.width = points.width

(* The screen shows the buffer whenever an event can be read, if nothing   *)
(* came in between.                                                        *)
Painted == ui = "event" \/ (ui = "poll" /\ ~redraw)

Screen ==
  Painted /\ shown /\ ~stale => /\ buffer # <<>> => last_points = points
                                /\ drawn = Rows

Inv == /\ TypeOK /\ ReadsAreSafe /\ BufferIsTimeline /\ ScrollIsSane
       /\ Places /\ Width /\ Screen

TimelineLines(ms, w) == UNION {LinesOf(m, w) : m \in ms}

(* Consuming one more message adds its lines. *)
LEMMA AddLines ==
  ASSUME NEW ms, NEW m, NEW w
  PROVE  TimelineLines(ms \cup {m}, w) = TimelineLines(ms, w) \cup LinesOf(m, w)
BY DEF TimelineLines

(* Redacting a message takes its lines away. *)
LEMMA DropLines ==
  ASSUME NEW ms, NEW m, NEW w
  PROVE  \A l : l \in TimelineLines(ms \ {m}, w) <=>
                 l \in TimelineLines(ms, w) /\ l.msg # m
<1>1. ASSUME NEW l, NEW i, l \in LinesOf(i, w) PROVE l.msg = i
  BY <1>1 DEF LinesOf
<1> QED BY <1>1 DEF TimelineLines

(* The invariant of the buffer, in the terms of the lemmas above. *)
LEMMA BufferForm ==
  BufferIsTimeline <=>
    /\ Ordered(buffer)
    /\ LinesIn(buffer) =
         TimelineLines(ConsumedMessages \ redacted, last_points.width)
BY DEF BufferIsTimeline, Ordered, LinesIn, TimelineLines

(* The initial states satisfy the invariant. *)
LEMMA InvInit == Init => Inv
<1> SUFFICES ASSUME Init PROVE Inv
  OBVIOUS
<1> USE DEF Init
<1>1. Points \subseteq [width : Nat, height : Nat]
  BY DEF Points
<1>2. ConsumedMessages = {}
  BY DEF ConsumedMessages
<1>3. TypeOK
  <2>1. buffer \in Seq(LineSet) /\ Len(buffer) = 0
    OBVIOUS
  <2>2. Back \in 0 .. MaxMessages /\ 0 \in 0 .. Back - Back /\ 0 \in 0 .. Back
    OBVIOUS
  <2>3. redacted \subseteq 1 .. len /\ capacity \in Nat /\ scroll \in Nat
    OBVIOUS
  <2>4. put \in Back .. MaxMessages /\ len \in Back .. put
    BY <2>2
  <2> QED BY <2>1, <2>2, <2>3, <2>4 DEF TypeOK
<1>4. ReadsAreSafe /\ Places
  BY DEF ReadsAreSafe, Places, Filling
<1>5. BufferIsTimeline
  BY <1>2 DEF BufferIsTimeline
<1>6. ScrollIsSane
  BY DEF ScrollIsSane, SaneScroll, Filling
<1>7. Width /\ Screen
  BY <1>2 DEF Width, Screen, Painted, Filling
<1> QED BY <1>3, <1>4, <1>5, <1>6, <1>7 DEF Inv

(* Where the threads are, and who holds the mutex, after each step. *)
LEMMA PlacesStep == Inv /\ [Next]_vars => Places' /\ ReadsAreSafe'
<1> SUFFICES ASSUME Inv, [Next]_vars PROVE Places' /\ ReadsAreSafe'
  OBVIOUS
<1> USE DEF Inv, TypeOK, Places, ReadsAreSafe, Filling
<1>1. CASE GrowLock
  BY <1>1 DEF GrowLock, timelineVars, bufferVars, screenVars
<1>2. CASE GrowUnlock
  BY <1>2 DEF GrowUnlock, bufferVars
<1>3. CASE PutMessage
  BY <1>3 DEF PutMessage, bufferVars
<1>4. CASE PublishLength
  BY <1>4 DEF PublishLength, bufferVars
<1>5. ASSUME NEW m \in Messages, Redact(m) PROVE Places' /\ ReadsAreSafe'
  <2>1. buffer = <<>> => buffer' = <<>>
    BY <1>5 DEF Redact, RedactLines
  <2> QED BY <1>5, <2>1 DEF Redact
<1>6. CASE PublishBatch
  BY <1>6 DEF PublishBatch, timelineVars, bufferVars
<1>7. CASE StartFill
  BY <1>7 DEF StartFill, timelineVars, ShouldRecalculate
<1>8. CASE FillBackward
  BY <1>8 DEF FillBackward, timelineVars
<1>9. CASE FillForward
  BY <1>9 DEF FillForward, timelineVars
<1>10. CASE EndFill
  BY <1>10 DEF EndFill, timelineVars
<1>11. CASE Draw
  BY <1>11 DEF Draw, timelineVars
<1>12. CASE DrawOther
  BY <1>12 DEF DrawOther, timelineVars, bufferVars, screenVars
<1>13. CASE HandleBatch
  BY <1>13 DEF HandleBatch, timelineVars, bufferVars, screenVars
<1>14. CASE NoEvent
  BY <1>14 DEF NoEvent, Ignored, timelineVars
<1>15. CASE ScrollUp
  BY <1>15 DEF ScrollUp, Mouse, Listening, MouseFrame, Redraws, Ignored,
               timelineVars
<1>16. CASE ScrollDown
  BY <1>16 DEF ScrollDown, Mouse, Listening, MouseFrame, Redraws, Ignored,
               timelineVars
<1>17. ASSUME NEW y \in 0 .. points.height - 1, Click(y)
       PROVE  Places' /\ ReadsAreSafe'
  BY <1>17 DEF Click, Mouse, Listening, MouseFrame, Redraws, Ignored,
               timelineVars
<1>18. ASSUME NEW p \in Points, Resize(p) PROVE Places' /\ ReadsAreSafe'
  BY <1>18 DEF Resize, Listening, Redraws, timelineVars, bufferVars, screenVars
<1>19. CASE SwitchRoom
  BY <1>19 DEF SwitchRoom, Listening, Redraws, timelineVars, bufferVars, screenVars
<1>20. CASE UNCHANGED vars
  BY <1>20 DEF vars, timelineVars, bufferVars, screenVars
<1> QED BY <1>1, <1>2, <1>3, <1>4, <1>5, <1>6, <1>7, <1>8, <1>9, <1>10,
           <1>11, <1>12, <1>13, <1>14, <1>15, <1>16, <1>17, <1>18, <1>19,
           <1>20 DEF Next, Syncer, Loop, Event

(* A message is inserted: the buffer goes on holding the lines of what is  *)
(* consumed.                                                               *)
LEMMA InsertStep ==
  ASSUME Inv, NEW m \in Messages, Insert(m),
         ui \in {"back", "forward"}, UNCHANGED <<points, redacted>>,
         ConsumedMessages' = ConsumedMessages \cup {m},
         \A i \in ConsumedMessages : i < m
  PROVE  BufferOK(buffer') /\ BufferIsTimeline'
<1> DEFINE w == points.width
<1>1. w \in Widths /\ Widths \subseteq Nat /\ LineCount[m][w] \in Nat
  BY DEF Inv, TypeOK, Points
<1>2. BufferOK(buffer) /\ buffer \in Seq(LineSet) /\ Ordered(buffer)
  BY BufferForm DEF Inv, TypeOK, BufferOK
<1>3. LinesIn(buffer) =
        TimelineLines(ConsumedMessages \ redacted, last_points.width)
  BY BufferForm DEF Inv
<1>4. SUFFICES /\ BufferOK(buffer')
               /\ LinesIn(buffer') =
                    TimelineLines((ConsumedMessages \cup {m}) \ redacted,
                                  last_points'.width)
  BY DEF BufferIsTimeline, BufferOK, Ordered, LinesIn, TimelineLines
<1>5. CASE m \in redacted
  <2>1. UNCHANGED <<buffer, last_points>>
    BY <1>5 DEF Insert
  <2>2. (ConsumedMessages \cup {m}) \ redacted = ConsumedMessages \ redacted
    BY <1>5
  <2> QED BY <1>2, <1>3, <2>1, <2>2
<1>6. CASE m \notin redacted
  <2>1. buffer' = buffer \o MessageLines(m, LineCount[m][w])
    BY <1>6 DEF Insert, MessageLines
  <2>2. ASSUME NEW k \in 1 .. Len(buffer) PROVE buffer[k].msg < m
    <3>1. buffer[k] \in TimelineLines(ConsumedMessages \ redacted,
                                      last_points.width)
      BY <1>3 DEF LinesIn
    <3>2. buffer[k].msg \in ConsumedMessages
      BY <3>1 DEF TimelineLines, LinesOf
    <3> QED BY <3>2
  <2>3. /\ BufferOK(buffer')
        /\ LinesIn(buffer') = LinesIn(buffer) \cup LinesOf(m, w)
    BY <1>1, <1>2, <2>1, <2>2, InsertLines DEF BufferOK, LinesOf
  <2>4. LinesIn(buffer) = TimelineLines(ConsumedMessages \ redacted, w)
    <3>1. CASE zeroed
      <4>1. ConsumedMessages \ redacted = {} /\ buffer = <<>>
        BY <3>1 DEF Inv, Width, ScrollIsSane
      <4>2. Len(buffer) = 0
        BY <4>1
      <4>3. LinesIn(buffer) = {}
        BY <4>2 DEF LinesIn
      <4> QED BY <4>1, <4>3 DEF TimelineLines
    <3>2. CASE ~zeroed
      BY <1>3, <3>2 DEF Inv, Width
    <3> QED BY <3>1, <3>2
  <2>5. last_points'.width = w
    BY <1>6 DEF Insert, Inv, Width
  <2>6. (ConsumedMessages \cup {m}) \ redacted
          = (ConsumedMessages \ redacted) \cup {m}
    BY <1>6
  <2>7. TimelineLines((ConsumedMessages \ redacted) \cup {m}, w) =
          TimelineLines(ConsumedMessages \ redacted, w) \cup LinesOf(m, w)
    BY AddLines
  <2> QED BY <2>3, <2>4, <2>5, <2>6, <2>7
<1> QED BY <1>5, <1>6

(* Nothing the buffer depends on changes. *)
LEMMA BufferFrame ==
  ASSUME Inv, UNCHANGED <<buffer, redacted, consumed_back, consumed,
                          last_points>>
  PROVE  BufferOK(buffer') /\ BufferIsTimeline'
<1>1. BufferOK(buffer)
  BY BufferForm DEF Inv, TypeOK, BufferOK
<1> QED BY <1>1 DEF Inv, BufferIsTimeline, ConsumedMessages

(* Redacting a message takes exactly its lines from the buffer. *)
LEMMA RedactStep ==
  ASSUME Inv, NEW m \in Messages, Redact(m)
  PROVE  BufferOK(buffer') /\ BufferIsTimeline'
<1> DEFINE w == last_points.width
           ms == ConsumedMessages \ redacted
<1>1. BufferOK(buffer) /\ LinesIn(buffer) = TimelineLines(ms, w)
  BY BufferForm DEF Inv, TypeOK, BufferOK
<1>2. /\ redacted' = redacted \cup {m} /\ last_points' = last_points
      /\ ConsumedMessages' = ConsumedMessages
  BY DEF Redact, ConsumedMessages
<1>3. ConsumedMessages' \ redacted' = ms \ {m}
  BY <1>2
<1>4. BufferOK(buffer') /\ LinesIn(buffer') = {l \in LinesIn(buffer) : l.msg # m}
  <2>1. CASE /\ \A k \in 1 .. Len(buffer) : buffer[k].msg # m
             /\ buffer' = buffer
    BY <1>1, <2>1 DEF LinesIn
  <2>2. ASSUME NEW s \in 1 .. Len(buffer), NEW e \in 1 .. Len(buffer),
               s <= e, IsRun(m, s, e), buffer' = Without(s, e)
        PROVE  /\ BufferOK(buffer')
               /\ LinesIn(buffer') = {l \in LinesIn(buffer) : l.msg # m}
    BY <1>1, <2>2, DeleteRun
  <2> QED BY <2>1, <2>2 DEF Redact, RedactLines
<1>5. LinesIn(buffer') = TimelineLines(ms \ {m}, w)
  <2> HIDE DEF ms, w
  <2>1. \A l : l \in TimelineLines(ms \ {m}, w) <=>
                l \in TimelineLines(ms, w) /\ l.msg # m
    BY DropLines
  <2> QED BY <1>1, <1>4, <2>1
<1>6. LinesIn(buffer') = TimelineLines(ConsumedMessages' \ redacted',
                                       last_points'.width)
  BY <1>2, <1>3, <1>5
<1> QED BY <1>4, <1>6 DEF BufferIsTimeline, BufferOK, Ordered, LinesIn,
                          TimelineLines

(* The buffer holds what is consumed after each step. *)
LEMMA BufferStep == Inv /\ [Next]_vars => BufferOK(buffer') /\ BufferIsTimeline'
<1> SUFFICES ASSUME Inv, [Next]_vars
             PROVE  BufferOK(buffer') /\ BufferIsTimeline'
  OBVIOUS
<1>1. CASE UNCHANGED <<buffer, redacted, consumed_back, consumed, last_points>>
  BY <1>1, BufferFrame
<1>2. ASSUME NEW m \in Messages, Redact(m)
      PROVE  BufferOK(buffer') /\ BufferIsTimeline'
  BY <1>2, RedactStep
<1>3. CASE StartFill
  <2>1. CASE ShouldRecalculate \/ consumed_back # Back
    <3>1. ~ShouldRecalculate => consumed = 0
      BY <1>3, <2>1 DEF StartFill, Inv, Places, Filling
    <3>2. buffer' = <<>> /\ consumed_back' = 0 /\ consumed' = 0
      BY <1>3, <2>1, <3>1 DEF StartFill
    <3>3. Len(buffer') = 0 /\ buffer' \in Seq(LineSet)
      BY <3>2
    <3>4. ConsumedMessages' = {}
      BY <3>2 DEF ConsumedMessages
    <3> QED BY <3>3, <3>4 DEF BufferIsTimeline, BufferOK, Ordered
  <2>2. CASE ~ShouldRecalculate /\ consumed_back = Back
    <3>1. UNCHANGED <<buffer, redacted, consumed_back, consumed, last_points>>
      BY <1>3, <2>2 DEF StartFill, timelineVars
    <3> QED BY <3>1, BufferFrame
  <2> QED BY <2>1, <2>2
<1>4. CASE FillBackward
  <2> DEFINE m == consumed_back + 1
  <2>1. /\ m \in Messages /\ ui = "back" /\ Insert(m)
        /\ UNCHANGED <<points, redacted>>
    BY <1>4 DEF FillBackward, timelineVars, Inv, TypeOK, Places, Messages
  <2>2. /\ ConsumedMessages' = ConsumedMessages \cup {m}
        /\ \A i \in ConsumedMessages : i < m
    BY <1>4 DEF FillBackward, Inv, TypeOK, Places, ConsumedMessages
  <2> HIDE DEF m
  <2> QED BY <2>1, <2>2, InsertStep
<1>5. CASE FillForward
  <2> DEFINE m == Back + consumed + 1
  <2>1. /\ m \in Messages /\ ui = "forward" /\ Insert(m)
        /\ UNCHANGED <<points, redacted>>
    BY <1>5 DEF FillForward, timelineVars, Inv, TypeOK, Places, Messages
  <2>2. /\ ConsumedMessages' = ConsumedMessages \cup {m}
        /\ \A i \in ConsumedMessages : i < m
    BY <1>5 DEF FillForward, Inv, TypeOK, Places, ConsumedMessages
  <2> HIDE DEF m
  <2> QED BY <2>1, <2>2, InsertStep
<1>6. CASE Draw
  <2> DEFINE w == points.width
  <2>1. /\ UNCHANGED <<buffer, redacted, consumed_back, consumed>>
        /\ last_points' = IF buffer = <<>> THEN last_points ELSE points
    BY <1>6 DEF Draw, timelineVars
  <2>2. last_points'.width = last_points.width
    BY <1>6, <2>1 DEF Draw, Inv, Width, ScrollIsSane
  <2>3. BufferOK(buffer') /\ ConsumedMessages' = ConsumedMessages
    BY <2>1 DEF Inv, TypeOK, BufferIsTimeline, BufferOK, Ordered,
                ConsumedMessages
  <2>4. (UNION {LinesOf(m, last_points.width) : m \in ConsumedMessages \ redacted})'
          = UNION {LinesOf(m, last_points.width) : m \in ConsumedMessages \ redacted}
    BY <2>1, <2>2, <2>3 DEF LinesOf
  <2> QED BY <2>1, <2>3, <2>4 DEF Inv, BufferIsTimeline
<1> QED BY <1>1, <1>2, <1>3, <1>4, <1>5, <1>6
        DEF Next, Syncer, Loop, Event, GrowLock, GrowUnlock, PutMessage,
            PublishLength, PublishBatch, EndFill, DrawOther, HandleBatch,
            NoEvent, ScrollUp, ScrollDown, Click, Resize, SwitchRoom,
            MouseFrame, timelineVars, bufferVars, vars

(* Every line of the buffer is of a message consumed. *)
LEMMA LinesAreConsumed ==
  ASSUME Inv, NEW k \in 1 .. Len(buffer)
  PROVE  buffer[k].msg \in 1 .. len
<1>1. LinesIn(buffer) =
        TimelineLines(ConsumedMessages \ redacted, last_points.width)
  BY BufferForm DEF Inv
<1>2. buffer[k] \in TimelineLines(ConsumedMessages \ redacted,
                                  last_points.width)
  BY <1>1 DEF LinesIn
<1>3. buffer[k].msg \in ConsumedMessages
  BY <1>2 DEF TimelineLines, LinesOf
<1>4. ConsumedMessages \subseteq 1 .. len
  BY DEF Inv, TypeOK, Places, ConsumedMessages
<1> QED BY <1>3, <1>4

Index(y) == Len(buffer) - scroll - (last_points.height - y)

Hit(y) == Index(y) \in 0 .. Len(buffer) - 1

(* What a click does. *)
LEMMA ClickCases ==
  ASSUME NEW y, Click(y)
  PROVE  /\ Mouse /\ MouseFrame
         /\ \/ /\ \/ last_points.width # points.width
                  \/ buffer = <<>>
                  \/ ~Hit(y) /\ selected = 0
               /\ Ignored
            \/ /\ buffer # <<>>
               /\ selected' = IF ~Hit(y) \/ buffer[Index(y) + 1].msg = selected
                              THEN 0 ELSE buffer[Index(y) + 1].msg
               /\ UNCHANGED scroll
               /\ Redraws
BY DEF Click, Hit, Index

(* The line clicked on is the one drawn in that row. *)
LEMMA ClickedLine ==
  ASSUME Inv, ~stale, NEW y \in 0 .. points.height - 1, Mouse, buffer # <<>>
  PROVE  /\ last_points = points
         /\ Rows[y] = IF Hit(y) THEN buffer[Index(y) + 1].msg ELSE 0
<1>1. last_points = points /\ points.height \in Nat
  BY DEF Mouse, Listening, Inv, Screen, Painted, TypeOK, Points
<1>2. Len(buffer) \in Nat /\ scroll \in Nat /\ y \in Nat /\ y < points.height
  BY <1>1 DEF Inv, TypeOK
<1> DEFINE n == Len(buffer)
           h == points.height
           i == n - scroll - (h - 1 - y)
<1>3. Index(y) = n - scroll - (h - y)
  BY <1>1 DEF Index
<1>4. Rows[y] = IF i > 0 THEN buffer[i].msg ELSE 0
  BY DEF Rows
<1> HIDE DEF n, h
<1>5. n \in Nat /\ h \in Nat /\ y < h
  BY <1>1, <1>2 DEF n, h
<1>6. Index(y) \in Int /\ i = Index(y) + 1 /\ i <= n
  BY <1>2, <1>3, <1>5
<1>7. i > 0 <=> Hit(y)
  BY <1>5, <1>6 DEF Hit, n
<1> HIDE DEF i
<1> QED BY <1>1, <1>4, <1>5, <1>6, <1>7 DEF n

(* The types hold after each step. *)
LEMMA TypeStep == Inv /\ [Next]_vars => TypeOK'
<1> SUFFICES ASSUME Inv, [Next]_vars PROVE TypeOK'
  OBVIOUS
<1>1. buffer' \in Seq(LineSet)
  BY BufferStep DEF BufferOK
<1>2. Len(buffer) \in Nat /\ Len(buffer') \in Nat
  BY <1>1 DEF Inv, TypeOK
<1>3. /\ \A p \in Points : p.width \in Nat /\ p.height \in Nat
      /\ points \in Points /\ last_points \in Points
  BY DEF Points, Inv, TypeOK
<1> USE DEF Inv, TypeOK, Places
<1>4. CASE GrowLock
  BY <1>1, <1>4 DEF GrowLock, timelineVars, bufferVars, screenVars
<1>5. CASE GrowUnlock
  BY <1>1, <1>5 DEF GrowUnlock, bufferVars, screenVars
<1>6. CASE PutMessage
  BY <1>1, <1>6 DEF PutMessage, bufferVars, screenVars
<1>7. CASE PublishLength
  BY <1>1, <1>7 DEF PublishLength, bufferVars, screenVars
<1>8. ASSUME NEW m \in Messages, Redact(m) PROVE TypeOK'
  <2>1. m \in 1 .. len
    BY <1>8 DEF Redact, Messages
  <2>2. scroll' \in Nat
    BY <1>2, <1>8 DEF Redact, RedactLines, SaneScroll
  <2> QED BY <1>1, <1>8, <2>1, <2>2 DEF Redact
<1>9. CASE PublishBatch
  BY <1>1, <1>9 DEF PublishBatch, timelineVars, bufferVars, screenVars
<1>10. CASE StartFill
  <2>1. /\ consumed_back' \in 0 .. Back /\ ui' \in {"back", "forward"}
        /\ consumed' \in 0 .. len - Back
    BY <1>10 DEF StartFill
  <2>2. upto' \in 0 .. len
    BY <1>10 DEF StartFill
  <2>3. zeroed' \in BOOLEAN
    BY <1>10 DEF StartFill
  <2> QED BY <1>1, <1>10, <2>1, <2>2, <2>3
         DEF StartFill, timelineVars, screenVars
<1>11. CASE FillBackward
  <2>1. last_points' \in Points /\ zeroed' \in BOOLEAN
    BY <1>3, <1>11 DEF FillBackward, Insert
  <2> QED BY <1>1, <1>11, <2>1 DEF FillBackward, timelineVars, screenVars
<1>12. CASE FillForward
  <2>1. last_points' \in Points /\ zeroed' \in BOOLEAN
    BY <1>3, <1>12 DEF FillForward, Insert
  <2> QED BY <1>1, <1>12, <2>1 DEF FillForward, timelineVars, screenVars
<1>13. CASE EndFill
  <2>1. scroll' \in Nat
    BY <1>2, <1>13 DEF EndFill, SaneScroll
  <2> QED BY <1>1, <1>13, <2>1 DEF EndFill, timelineVars, screenVars
<1>14. CASE Draw
  BY <1>1, <1>14 DEF Draw, timelineVars
<1>15. CASE DrawOther
  BY <1>1, <1>15 DEF DrawOther, timelineVars, bufferVars, screenVars
<1>16. CASE HandleBatch
  BY <1>1, <1>16 DEF HandleBatch, timelineVars, bufferVars, screenVars
<1>17. CASE NoEvent
  BY <1>1, <1>17 DEF NoEvent, Ignored, timelineVars
<1>18. CASE ScrollUp
  <2>1. Ignored \/ (scroll' = scroll + 1 /\ selected' = selected /\ Redraws)
    BY <1>18 DEF ScrollUp
  <2>2. scroll' \in Nat
    BY <1>18 DEF ScrollUp, Ignored
  <2>3. selected' = selected /\ ui' = "poll" /\ redraw' \in BOOLEAN
    BY <2>1 DEF Redraws, Ignored
  <2> QED BY <1>1, <1>18, <2>2, <2>3 DEF ScrollUp, MouseFrame, timelineVars
<1>19. CASE ScrollDown
  <2>1. Ignored \/ (scroll' = scroll - 1 /\ selected' = selected /\ Redraws)
    BY <1>19 DEF ScrollDown
  <2>2. scroll' \in Nat
    BY <1>19 DEF ScrollDown, Ignored
  <2>3. selected' = selected /\ ui' = "poll" /\ redraw' \in BOOLEAN
    BY <2>1 DEF Redraws, Ignored
  <2> QED BY <1>1, <1>19, <2>2, <2>3 DEF ScrollDown, MouseFrame, timelineVars
<1>20. ASSUME NEW y \in 0 .. points.height - 1, Click(y) PROVE TypeOK'
  <2>1. MouseFrame
    BY <1>20 DEF Click
  <2>2. selected' \in 0 .. len
    <3>1. CASE Ignored
      BY <3>1 DEF Ignored
    <3>2. CASE ~Ignored
      <4>1. selected' = IF ~Hit(y) \/ buffer[Index(y) + 1].msg = selected
                        THEN 0 ELSE buffer[Index(y) + 1].msg
        BY <1>20, <3>2, ClickCases
      <4>2. Hit(y) => Index(y) + 1 \in 1 .. Len(buffer)
        BY <1>2 DEF Hit
      <4>3. Hit(y) => buffer[Index(y) + 1].msg \in 1 .. len
        BY <4>2, LinesAreConsumed
      <4> QED BY <4>1, <4>3
    <3> QED BY <3>1, <3>2
  <2>3. ui' = "poll" /\ redraw' \in BOOLEAN /\ scroll' = scroll
    BY <1>20, ClickCases DEF Ignored, Redraws
  <2> QED BY <1>1, <2>1, <2>2, <2>3 DEF MouseFrame, timelineVars
<1>21. ASSUME NEW p \in Points, Resize(p) PROVE TypeOK'
  BY <1>1, <1>21 DEF Resize, Redraws, timelineVars, bufferVars, screenVars
<1>22. CASE SwitchRoom
  BY <1>1, <1>22 DEF SwitchRoom, Redraws, timelineVars, bufferVars, screenVars
<1>23. CASE UNCHANGED vars
  BY <1>1, <1>23 DEF vars, timelineVars, bufferVars, screenVars
<1> QED BY <1>4, <1>5, <1>6, <1>7, <1>8, <1>9, <1>10, <1>11, <1>12, <1>13,
           <1>14, <1>15, <1>16, <1>17, <1>18, <1>19, <1>20, <1>21, <1>22,
           <1>23 DEF Next, Syncer, Loop, Event

(* Inserting keeps what is known of the width and of a zeroed buffer. *)
LEMMA InsertWidth ==
  ASSUME Inv, NEW m, Insert(m), ui \in {"back", "forward"},
         UNCHANGED <<points, redacted>>,
         ConsumedMessages' = ConsumedMessages \cup {m}
  PROVE  /\ zeroed' => ConsumedMessages' \subseteq redacted'
         /\ zeroed' \/ last_points'.width = points'.width
         /\ zeroed' => buffer' = <<>>
BY DEF Insert, Inv, Width, ScrollIsSane, TypeOK

(* What is not consumed anew stays consumed. *)
LEMMA WidthFrame ==
  ASSUME Inv, UNCHANGED <<consumed_back, consumed, zeroed>>,
         redacted \subseteq redacted',
         ui' \in {"back", "forward", "draw"} =>
           /\ ui \in {"back", "forward", "draw"}
           /\ UNCHANGED <<points, last_points>>
  PROVE  Width'
<1>1. ConsumedMessages' = ConsumedMessages
  BY DEF ConsumedMessages
<1>2. zeroed' => ConsumedMessages' \subseteq redacted'
  BY <1>1 DEF Inv, Width
<1>3. ui' \in {"back", "forward", "draw"} =>
        zeroed' \/ last_points'.width = points'.width
  BY DEF Inv, Width
<1> QED BY <1>2, <1>3 DEF Width

(* The width the buffer is filled for, after each step. *)
LEMMA WidthStep == Inv /\ [Next]_vars => Width'
<1> SUFFICES ASSUME Inv, [Next]_vars PROVE Width'
  OBVIOUS
<1>1. CASE /\ UNCHANGED <<consumed_back, consumed, zeroed>>
           /\ redacted \subseteq redacted'
           /\ ui' \in {"back", "forward", "draw"} =>
                /\ ui \in {"back", "forward", "draw"}
                /\ UNCHANGED <<points, last_points>>
  BY <1>1, WidthFrame
<1>2. CASE StartFill
  <2>1. CASE ShouldRecalculate \/ consumed_back # Back
    <3>1. ~ShouldRecalculate => consumed = 0
      BY <1>2, <2>1 DEF StartFill, Inv, Places, Filling
    <3>2. zeroed' /\ consumed_back' = 0 /\ consumed' = 0
      BY <1>2, <2>1, <3>1 DEF StartFill
    <3>3. ConsumedMessages' = {}
      BY <3>2 DEF ConsumedMessages
    <3> QED BY <3>2, <3>3 DEF Width
  <2>2. CASE ~ShouldRecalculate /\ consumed_back = Back
    <3>1. UNCHANGED <<consumed_back, consumed, zeroed, redacted, points,
                      last_points>>
      BY <1>2, <2>2 DEF StartFill, timelineVars
    <3>2. ConsumedMessages' = ConsumedMessages
      BY <3>1 DEF ConsumedMessages
    <3>3. last_points.width = points.width
      BY <2>2 DEF ShouldRecalculate
    <3> QED BY <3>1, <3>2, <3>3 DEF Inv, Width
  <2> QED BY <2>1, <2>2
<1>3. CASE FillBackward
  <2> DEFINE m == consumed_back + 1
  <2>1. /\ ui = "back" /\ Insert(m) /\ UNCHANGED <<points, redacted>>
    BY <1>3 DEF FillBackward, timelineVars
  <2>2. ConsumedMessages' = ConsumedMessages \cup {m}
    BY <1>3 DEF FillBackward, Inv, TypeOK, Places, ConsumedMessages
  <2> HIDE DEF m
  <2> QED BY <2>1, <2>2, InsertWidth DEF Width
<1>4. CASE FillForward
  <2> DEFINE m == Back + consumed + 1
  <2>1. /\ ui = "forward" /\ Insert(m) /\ UNCHANGED <<points, redacted>>
    BY <1>4 DEF FillForward, timelineVars
  <2>2. ConsumedMessages' = ConsumedMessages \cup {m}
    BY <1>4 DEF FillForward, Inv, TypeOK, Places, ConsumedMessages
  <2> HIDE DEF m
  <2> QED BY <2>1, <2>2, InsertWidth DEF Width
<1>5. CASE EndFill
  <2>1. /\ UNCHANGED <<consumed_back, consumed, zeroed, redacted, points,
                       last_points>>
        /\ ui = "forward"
    BY <1>5 DEF EndFill, timelineVars
  <2> QED BY <2>1, WidthFrame
<1>6. ASSUME NEW y \in 0 .. points.height - 1, Click(y) PROVE Width'
  <2>1. ui' = "poll" /\ MouseFrame
    BY <1>6 DEF Click, Redraws, Ignored
  <2> QED BY <2>1, WidthFrame DEF MouseFrame, timelineVars
<1>7. CASE ScrollUp \/ ScrollDown
  <2>1. ui' = "poll" /\ MouseFrame
    BY <1>7 DEF ScrollUp, ScrollDown, Redraws, Ignored
  <2> QED BY <2>1, WidthFrame DEF MouseFrame, timelineVars
<1> QED BY <1>1, <1>2, <1>3, <1>4, <1>5, <1>6, <1>7
        DEF Next, Syncer, Loop, Event, GrowLock, GrowUnlock, PutMessage,
            PublishLength, Redact, PublishBatch, Draw, DrawOther, HandleBatch,
            NoEvent, Ignored, Redraws, Resize, SwitchRoom, timelineVars,
            bufferVars, vars

SaneFor(s, n) == (n = 0 => s = 0) /\ (n > 0 => s < n)

(* message_buffer_ensure_sane_scroll gives a line of the buffer. *)
LEMMA SaneScrolls ==
  ASSUME NEW s \in Nat, NEW n \in Nat
  PROVE  /\ SaneScroll(s, n) \in Nat
         /\ SaneFor(SaneScroll(s, n), n)
         /\ s = SaneScroll(s, n) <=> SaneFor(s, n)
BY DEF SaneScroll, SaneFor

(* The scroll position, after each step. *)
LEMMA ScrollStep == Inv /\ [Next]_vars => ScrollIsSane'
<1> SUFFICES ASSUME Inv, [Next]_vars PROVE ScrollIsSane'
  OBVIOUS
<1>1. /\ Len(buffer) \in Nat /\ scroll \in Nat
      /\ Len(buffer') \in Nat /\ scroll' \in Nat
  BY TypeStep DEF Inv, TypeOK
<1>2. ScrollIsSane' <=> /\ ~Filling' => SaneFor(scroll', Len(buffer'))
                        /\ zeroed' => buffer' = <<>>
  BY <1>1, SaneScrolls DEF ScrollIsSane
<1>3. /\ ~Filling => SaneFor(scroll, Len(buffer))
      /\ zeroed => buffer = <<>>
  BY <1>1, SaneScrolls DEF Inv, ScrollIsSane
<1>4. CASE UNCHANGED <<buffer, zeroed, scroll>> /\ (Filling => Filling')
  BY <1>2, <1>3, <1>4
<1>5. ASSUME NEW m \in Messages, Redact(m) PROVE ScrollIsSane'
  <2>1. ~Filling /\ zeroed' = zeroed
    BY <1>5 DEF Redact, Inv, Places
  <2>2. zeroed' => buffer' = <<>>
    <3>1. buffer = <<>> => buffer' = <<>>
      BY <1>5 DEF Redact, RedactLines
    <3> QED BY <1>3, <2>1, <3>1
  <2>3. \/ UNCHANGED <<buffer, scroll>>
        \/ scroll' = SaneScroll(scroll, Len(buffer'))
    BY <1>5 DEF Redact, RedactLines
  <2>4. SaneFor(scroll', Len(buffer'))
    BY <1>1, <1>3, <2>1, <2>3, SaneScrolls
  <2> QED BY <1>2, <2>2, <2>4
<1>6. CASE StartFill
  <2>1. Filling' /\ (zeroed' => buffer' = <<>>)
    BY <1>3, <1>6 DEF StartFill, Filling
  <2> QED BY <1>2, <2>1
<1>7. CASE FillBackward \/ FillForward
  <2>1. Filling'
    BY <1>7 DEF FillBackward, FillForward, Filling
  <2>2. zeroed' => buffer' = <<>>
    BY <1>3, <1>7 DEF FillBackward, FillForward, Insert
  <2> QED BY <1>2, <2>1, <2>2
<1>8. CASE EndFill
  <2>1. /\ scroll' = SaneScroll(scroll, Len(buffer))
        /\ buffer' = buffer /\ zeroed' = zeroed
    BY <1>8 DEF EndFill
  <2> QED BY <1>1, <1>2, <1>3, <2>1, SaneScrolls
<1>9. CASE ScrollUp
  <2>1. /\ UNCHANGED <<buffer, zeroed>> /\ ~Filling
        /\ \/ scroll' = scroll
           \/ scroll' = scroll + 1 /\ scroll + 1 < Len(buffer)
    BY <1>9 DEF ScrollUp, MouseFrame, Mouse, Listening, Ignored, Filling
  <2> QED BY <1>1, <1>2, <1>3, <2>1 DEF SaneFor
<1>10. CASE ScrollDown
  <2>1. /\ UNCHANGED <<buffer, zeroed>> /\ ~Filling
        /\ scroll' = scroll \/ (scroll' = scroll - 1 /\ scroll > 0)
    BY <1>10 DEF ScrollDown, MouseFrame, Mouse, Listening, Ignored, Filling
  <2> QED BY <1>1, <1>2, <1>3, <2>1 DEF SaneFor
<1>11. ASSUME NEW y \in 0 .. points.height - 1, Click(y) PROVE ScrollIsSane'
  <2>1. UNCHANGED <<buffer, zeroed, scroll>> /\ ~Filling
    BY <1>11 DEF Click, MouseFrame, Mouse, Listening, Ignored, Filling
  <2> QED BY <1>2, <1>3, <2>1
<1> QED BY <1>4, <1>5, <1>6, <1>7, <1>8, <1>9, <1>10, <1>11
        DEF Next, Syncer, Loop, Event, GrowLock, GrowUnlock, PutMessage,
            PublishLength, PublishBatch, Draw, DrawOther, HandleBatch,
            NoEvent, Listening, Ignored, Redraws, Resize, SwitchRoom, Filling,
            timelineVars, bufferVars, vars

(* The screen shows the buffer, after each step. *)
LEMMA ScreenStep == Inv /\ [Next]_vars => Screen'
<1> SUFFICES ASSUME Inv, [Next]_vars PROVE Screen'
  OBVIOUS
<1>1. UNCHANGED <<points, buffer, scroll>> => Rows' = Rows
  BY DEF Rows
<1>2. CASE ~Painted' \/ ~shown' \/ stale'
  BY <1>2 DEF Screen
<1>3. CASE /\ UNCHANGED <<points, buffer, scroll, last_points, drawn, shown,
                          stale>>
           /\ Painted' => Painted
  <2>1. Rows' = Rows
    BY <1>1, <1>3
  <2> HIDE DEF Rows
  <2> QED BY <1>3, <2>1 DEF Inv, Screen
<1>4. CASE HandleBatch
  <2>1. CASE shown' = shown
    <3>1. /\ UNCHANGED <<points, buffer, scroll, last_points, drawn, shown>>
          /\ Painted
      BY <1>4, <2>1 DEF HandleBatch, bufferVars, Painted
    <3>2. stale' = (stale \/ shown' # shown)
      BY <1>4 DEF HandleBatch
    <3>3. stale => stale'
      BY <3>2
    <3>4. Rows' = Rows
      BY <1>1, <3>1
    <3> HIDE DEF Rows
    <3> QED BY <3>1, <3>3, <3>4 DEF Inv, Screen
  <2>2. CASE shown' # shown
    BY <1>2, <1>4, <2>2 DEF HandleBatch
  <2> QED BY <2>1, <2>2
<1>5. CASE Draw
  <2>1. /\ last_points' = IF buffer = <<>> THEN last_points ELSE points
        /\ drawn' = Rows /\ UNCHANGED <<points, buffer, scroll>>
    BY <1>5 DEF Draw
  <2>2. Rows' = Rows
    BY <1>1, <2>1
  <2> HIDE DEF Rows
  <2> QED BY <2>1, <2>2 DEF Screen
<1>6. CASE ScrollUp \/ ScrollDown \/ \E y \in 0 .. points.height - 1 : Click(y)
  <2>1. MouseFrame /\ Listening /\ (Ignored \/ Redraws)
    BY <1>6 DEF ScrollUp, ScrollDown, Click, Mouse
  <2>2. CASE Redraws
    BY <1>2, <2>2 DEF Redraws, Painted
  <2>3. CASE Ignored
    <3>1. /\ UNCHANGED <<points, buffer, scroll, last_points, drawn, shown,
                         stale>>
          /\ Painted
      BY <2>1, <2>3 DEF MouseFrame, Listening, Ignored, Painted
    <3> QED BY <1>3, <3>1
  <2> QED BY <2>1, <2>2, <2>3
<1>7. CASE NoEvent
  <2>1. /\ UNCHANGED <<points, buffer, scroll, last_points, drawn, shown,
                       stale>>
        /\ Painted
    BY <1>7 DEF NoEvent, Ignored, Painted
  <2> QED BY <1>3, <2>1
<1> QED BY <1>2, <1>3, <1>4, <1>5, <1>6, <1>7
        DEF Next, Syncer, Loop, Event, GrowLock, GrowUnlock, PutMessage,
            PublishLength, PublishBatch, StartFill, FillBackward, FillForward,
            EndFill, DrawOther, Redact, Redraws, Resize, SwitchRoom, Painted,
            timelineVars, bufferVars, screenVars, vars

-----------------------------------------------------------------------------
(* The invariant holds in every reachable state. *)
LEMMA InvAlways == Spec => []Inv
<1>1. Inv /\ [Next]_vars => Inv'
  BY TypeStep, PlacesStep, BufferStep, WidthStep, ScrollStep, ScreenStep
     DEF Inv
<1> QED BY <1>1, InvInit, PTL DEF Spec

(* The types of the variables, and the bounds of the two threads'          *)
(* counters: what the UI thread consumed never passes what the syncer      *)
(* published.                                                              *)
THEOREM TypeCorrect == Spec => []TypeOK
BY InvAlways, PTL DEF Inv

(* Appending without the mutex is safe, for every interleaving: the array  *)
(* of a timeline never moves while the UI thread reads it, and the UI      *)
(* thread reads only slots that are written.                               *)
THEOREM ReadingIsSafe == Spec => []ReadsAreSafe
BY InvAlways, PTL DEF Inv

(* Whatever arrives, is redacted, resized or left in between, the message  *)
(* buffer holds exactly the lines of the messages consumed, in order.      *)
THEOREM BufferHoldsTimeline == Spec => []BufferIsTimeline
BY InvAlways, PTL DEF Inv

(* The scroll position is always a line of the buffer outside the critical *)
(* section that fills it.                                                  *)
THEOREM ScrollStaysSane == Spec => []ScrollIsSane
BY InvAlways, PTL DEF Inv

(* A click selects what the user sees, unless a redaction or a batch that  *)
(* selected another room came between: for any sizes of the widget, any    *)
(* scroll position and whatever other batch is handled before the click.   *)
THEOREM ClicksSelectDrawn == Spec => ClickSelectsDrawn
<1> DEFINE Seen(y) == /\ y \in DOMAIN drawn
                      /\ IF drawn[y] = 0 THEN selected' \in {0, selected}
                         ELSE selected' = IF drawn[y] = selected
                                          THEN 0 ELSE drawn[y]
           A == \A y \in 0 .. points.height - 1 : Click(y) /\ ~stale => Seen(y)
<1>1. Inv => A
  <2> SUFFICES ASSUME Inv, NEW y \in 0 .. points.height - 1, Click(y), ~stale
               PROVE  Seen(y)
    OBVIOUS
  <2>1. Mouse /\ shown /\ Painted
    BY DEF Click, Mouse, Listening, Painted
  <2>2. drawn = Rows /\ y \in DOMAIN drawn
    BY <2>1 DEF Inv, Screen, Rows
  <2>3. \A k \in 1 .. Len(buffer) : buffer[k].msg \in 1 .. len
    BY LinesAreConsumed
  <2>4. CASE buffer = <<>>
    <3>1. selected' = selected
      BY <2>4, ClickCases DEF Ignored
    <3>2. Len(buffer) = 0 /\ scroll = 0 /\ points.height \in Nat
      BY <2>1, <2>4 DEF Inv, TypeOK, Points, ScrollIsSane, SaneScroll,
                        Filling, Painted
    <3>3. Rows[y] = 0
      BY <3>2 DEF Rows
    <3> QED BY <2>2, <3>1, <3>3
  <2>5. CASE buffer # <<>>
    <3>1. /\ last_points = points
          /\ Rows[y] = IF Hit(y) THEN buffer[Index(y) + 1].msg ELSE 0
      BY <2>1, <2>5, ClickedLine
    <3>2. Hit(y) => buffer[Index(y) + 1].msg # 0
      <4>1. Len(buffer) \in Nat
        BY DEF Inv, TypeOK
      <4>2. Hit(y) => Index(y) + 1 \in 1 .. Len(buffer)
        BY <4>1 DEF Hit
      <4>3. 0 \notin 1 .. len
        BY DEF Inv, TypeOK
      <4> QED BY <2>3, <4>2, <4>3
    <3>3. \/ ~Hit(y) /\ selected' = selected
          \/ selected' = IF ~Hit(y) \/ buffer[Index(y) + 1].msg = selected
                         THEN 0 ELSE buffer[Index(y) + 1].msg
      BY <2>5, <3>1, ClickCases DEF Ignored
    <3> HIDE DEF Rows
    <3> QED BY <2>2, <3>1, <3>2, <3>3
  <2> QED BY <2>4, <2>5
<1>2. Inv /\ [Next]_vars => [A]_vars
  BY <1>1
<1> QED BY <1>2, InvAlways, PTL DEF Spec, ClickSelectsDrawn
=============================================================================
