----------------------------- MODULE WrapProofs -----------------------------
(***************************************************************************)
(* Proofs about the line breaking of message_buffer_insert, for every      *)
(* text, every width and every division of the characters into letters,    *)
(* spaces and newlines.  The loop jumps back to the start of a word; that  *)
(* it never jumps behind the start of the line it is on is the heart of    *)
(* the argument, and WordsKept is what makes it true: a line that ended    *)
(* inside the word would have found it too long already.                   *)
(***************************************************************************)
EXTENDS Wrap, WellFoundedInduction, TLAPS

USE CharAssumption, BoundsAssumption

(* The line being filled holds no forced break yet. *)
OpenLine == \A j \in prev_end .. i - 1 : ColumnsOf(j) # 0

Inv == TypeOK /\ LinesPartition /\ NewlineEndsLine /\ WordsKept /\ OpenLine

(* A sequence of lines from 0 to p. *)
Partition(ls, p) ==
  /\ \A k \in 1 .. Len(ls) :
       /\ ls[k].start <= ls[k].end
       /\ ls[k].start = IF k = 1 THEN 0 ELSE ls[k - 1].end
  /\ p = IF ls = <<>> THEN 0 ELSE ls[Len(ls)].end

LineSet == [start : Nat, end : Nat]

(* A line from where the last one ends keeps the lines a partition. *)
LEMMA PartitionAppend ==
  ASSUME NEW ls \in Seq(LineSet), NEW p \in Nat, NEW b \in Nat,
         Partition(ls, p), p <= b
  PROVE  /\ Append(ls, Line(p, b)) \in Seq(LineSet)
         /\ Partition(Append(ls, Line(p, b)), b)
<1> DEFINE l == Line(p, b)
           ms == Append(ls, l)
<1>1. l \in LineSet /\ l.start = p /\ l.end = b
  BY DEF Line, LineSet
<1>2. ms \in Seq(LineSet) /\ Len(ms) = Len(ls) + 1 /\ Len(ls) \in Nat
  BY <1>1
<1>3. ms[Len(ls) + 1] = l /\ \A k \in 1 .. Len(ls) : ms[k] = ls[k]
  BY <1>1
<1>4. ms # <<>>
  <2> HIDE DEF ms
  <2> QED BY <1>2
<1>5. p = IF ls = <<>> THEN 0 ELSE ls[Len(ls)].end
  BY DEF Partition
<1>6. ASSUME NEW k \in 1 .. Len(ms)
      PROVE  /\ ms[k].start <= ms[k].end
             /\ ms[k].start = IF k = 1 THEN 0 ELSE ms[k - 1].end
  <2>1. CASE k = Len(ls) + 1
    <3>1. ls = <<>> <=> Len(ls) = 0
      OBVIOUS
    <3> QED BY <1>1, <1>2, <1>3, <1>5, <2>1, <3>1
  <2>2. CASE k \in 1 .. Len(ls)
    <3>1. ms[k] = ls[k] /\ (k # 1 => ms[k - 1] = ls[k - 1])
      BY <1>3, <2>2
    <3> QED BY <2>2, <3>1 DEF Partition
  <2> QED BY <1>2, <2>1, <2>2
<1> QED BY <1>1, <1>2, <1>3, <1>4, <1>6 DEF Partition

(* A position lies in one word only. *)
LEMMA OneWord ==
  ASSUME Length \in Nat, NEW k \in 0 .. Length,
         NEW s \in 0 .. Length, NEW e \in 0 .. Length, IsWord(k, s, e),
         NEW t \in 0 .. Length, NEW f \in 0 .. Length, IsWord(k, t, f)
  PROVE  s = t /\ e = f
<1>1. ~(s < t) /\ ~(t < s)
  <2>1. s < t => t - 1 \in s .. k - 1
    BY DEF IsWord
  <2>2. t < s => s - 1 \in t .. k - 1
    BY DEF IsWord
  <2> QED BY <2>1, <2>2 DEF IsWord
<1>2. ~(e < f) /\ ~(f < e)
  <2>1. e < f => e \in k .. f - 1
    BY DEF IsWord
  <2>2. f < e => f \in k .. e - 1
    BY DEF IsWord
  <2> QED BY <2>1, <2>2 DEF IsWord
<1> QED BY <1>1, <1>2

(* What the loop knows when it turns back to the start of a word. *)
LEMMA WrapFacts ==
  ASSUME Inv, Running, NEW s \in 0 .. Length, NEW e \in 0 .. Length,
         NEW n \in 0 .. Length,
         IsWord(i, s, e), Fits(body, columns, s, e), IsNextWordStart(s, e, n)
  PROVE  /\ prev_end <= s /\ s <= n /\ i < n
         /\ KeptAt(s) /\ KeptAt(n)
         /\ \A j \in prev_end .. s - 1 : ColumnsOf(j) # 0
         /\ \A j \in s .. n - 1 : ColumnsOf(j) = 0 => j + 1 = n
<1>1. /\ Length \in Nat /\ i \in 0 .. Length /\ i < Length
      /\ prev_end \in 0 .. i
  BY DEF Inv, TypeOK, Length, Running
<1>2. /\ s <= i /\ i <= e /\ \A j \in s .. e - 1 : j # i => ~SplitsAt(j)
      /\ \A j \in s .. i - 1 : ~SplitsAt(j)
      /\ \A j \in i .. e - 1 : ~SplitsAt(j)
      /\ s > 0 => SplitsAt(s - 1)
      /\ e < Length => SplitsAt(e)
  BY <1>1 DEF IsWord
<1>3. e < Length => e + 1 <= n
  <2> SUFFICES ASSUME e < Length PROVE e + 1 \in Candidates(s, e)
    BY DEF IsNextWordStart
  <2>1. e \in Scanned(s, e)
    BY <1>1 DEF Scanned
  <2> QED BY <1>2, <2>1 DEF Candidates
<1>4. e <= n
  BY DEF IsNextWordStart, Candidates
<1>5. i < n
  BY <1>1, <1>2, <1>3, <1>4
<1>6. \/ n = e /\ n = Length
      \/ /\ n - 1 \in Scanned(s, e) /\ e <= n - 1
         /\ SplitsAt(n - 1) \/ n = Length
  <2>1. n \in Candidates(s, e)
    BY DEF IsNextWordStart
  <2>2. CASE n = e
    BY <1>1, <1>3, <2>2
  <2>3. CASE n # e
    <3>1. PICK k \in Scanned(s, e) : n = k + 1 /\ (SplitsAt(k) \/ k + 1 = Length)
      BY <2>1, <2>3 DEF Candidates
    <3>2. k \in e .. Length - 1
      BY DEF Scanned
    <3>3. k = n - 1
      BY <1>1, <3>1, <3>2
    <3> QED BY <1>1, <3>1, <3>2, <3>3
  <2> QED BY <2>2, <2>3
<1>7. KeptAt(n)
  BY <1>1, <1>6 DEF KeptAt
<1>8. KeptAt(s)
  BY <1>1, <1>2 DEF KeptAt
<1>9. ASSUME NEW j \in s .. n - 1, ColumnsOf(j) = 0
      PROVE  j + 1 = n
  <2>1. SplitsAt(j)
    BY <1>9 DEF SplitsAt, Splits, ColumnsOf, CharWidth
  <2>2. j >= e
    BY <1>1, <1>2, <2>1
  <2>3. CASE j < n - 1
    <3>1. n - 1 \in Scanned(s, e) /\ j \in e .. n - 1 - 1
      BY <1>1, <1>6, <2>2, <2>3
    <3>2. ~Scrolls(columns, Span(body, s, j), ColumnsOf(j))
      BY <3>1 DEF Scanned
    <3> QED BY <1>9, <3>2 DEF Scrolls
  <2> QED BY <1>1, <1>6, <2>2, <2>3
<1>10. prev_end <= s
  <2> SUFFICES ASSUME s < prev_end PROVE FALSE
    BY <1>1
  <2> DEFINE b == prev_end
  <2>1. KeptAt(b)
    <3>1. lines # <<>> /\ prev_end = lines[Len(lines)].end
      BY <1>1 DEF Inv, LinesPartition
    <3>2. Len(lines) \in 1 .. Len(lines)
      BY <3>1 DEF Inv, TypeOK
    <3> QED BY <3>1, <3>2 DEF Inv, WordsKept
  <2>2. b - 1 \in s .. i - 1 /\ 0 < b /\ b < Length
    BY <1>1
  <2>3. IsWord(b - 1, s, e)
    <3>1. \A j \in b - 1 .. e - 1 : j \in s .. i - 1 \/ j \in i .. e - 1
      BY <1>1, <2>2
    <3>2. \A j \in s .. b - 1 - 1 : j \in s .. i - 1
      BY <1>1, <2>2
    <3> QED BY <1>1, <1>2, <2>2, <3>1, <3>2 DEF IsWord
  <2>4. ~SplitsAt(b - 1)
    BY <1>2, <2>2
  <2> QED BY <2>1, <2>2, <2>3, <2>4 DEF KeptAt
<1>11. \A j \in prev_end .. s - 1 : ColumnsOf(j) # 0
  BY <1>1, <1>2 DEF Inv, OpenLine
<1> QED BY <1>1, <1>2, <1>5, <1>7, <1>8, <1>9, <1>10, <1>11

(* A text that does not change is judged alike before and after a step. *)
LEMMA SameText ==
  ASSUME UNCHANGED <<body, columns>>
  PROVE  /\ Length' = Length
         /\ \A j : ColumnsOf(j)' = ColumnsOf(j)
         /\ \A b : KeptAt(b)' <=> KeptAt(b)
<1>1. Length' = Length
  BY DEF Length
<1>2. \A j : ColumnsOf(j)' = ColumnsOf(j)
  BY DEF ColumnsOf, At
<1>3. \A j : SplitsAt(j)' <=> SplitsAt(j)
  BY DEF SplitsAt, At
<1>4. ASSUME NEW b PROVE KeptAt(b)' <=> KeptAt(b)
  <2>1. \A s, e : IsWord(b - 1, s, e)' <=> IsWord(b - 1, s, e)
    BY <1>1, <1>3 DEF IsWord
  <2>2. \A s, e : Fits(body', columns', s, e) <=> Fits(body, columns, s, e)
    OBVIOUS
  <2> QED BY <1>1, <1>3, <2>1, <2>2 DEF KeptAt
<1> QED BY <1>1, <1>2, <1>4

(* What every line on its own must satisfy. *)
LineOK(l) ==
  /\ \A j \in l.start .. l.end - 1 : ColumnsOf(j) = 0 => j + 1 = l.end
  /\ KeptAt(l.end)

(* A new line that is right by itself leaves all of them right. *)
LEMMA LinesGrow ==
  ASSUME Inv, UNCHANGED <<body, columns>>,
         NEW ls \in Seq(LineSet), \A k \in 1 .. Len(ls) : LineOK(ls[k]),
         NEW p \in Nat, NEW b \in Nat, LineOK(Line(p, b))
  PROVE  \A k \in 1 .. Len(Append(ls, Line(p, b))) :
           LineOK(Append(ls, Line(p, b))[k])
<1> DEFINE l == Line(p, b)
<1>1. l \in LineSet
  BY DEF Line, LineSet
<1> HIDE DEF l
<1>2. \A k \in 1 .. Len(Append(ls, l)) :
        (k \in 1 .. Len(ls) /\ Append(ls, l)[k] = ls[k]) \/ Append(ls, l)[k] = l
  BY <1>1
<1> QED BY <1>2 DEF l

LEMMA InitInv == Init => Inv
<1> SUFFICES ASSUME Init PROVE Inv
  OBVIOUS
<1>1. body \in Seq(Char)
  BY DEF Init, Bodies
<1> QED BY <1>1 DEF Init, Inv, TypeOK, LinesPartition, NewlineEndsLine,
           WordsKept, OpenLine, Length

(* A step of the loop keeps the invariant. *)
LEMMA NextInv == Inv /\ [Next]_vars => Inv'
<1> SUFFICES ASSUME Inv, [Next]_vars PROVE Inv'
  OBVIOUS
<1>1. /\ Length \in Nat /\ i \in 0 .. Length /\ prev_end \in 0 .. i
      /\ lines \in Seq(LineSet) /\ x \in Nat
      /\ Partition(lines, prev_end)
      /\ \A k \in 1 .. Len(lines) : LineOK(lines[k])
  BY DEF Inv, TypeOK, Length, LinesPartition, NewlineEndsLine, WordsKept,
         LineSet, LineOK, Partition
<1>2. CASE Advance
  <2>1. UNCHANGED <<body, columns, prev_end, lines>> /\ i' = i + 1
        /\ x' = x + ColumnsOf(i) /\ i + 1 < Length
    BY <1>2 DEF Advance
  <2>2. ColumnsOf(i) \in Nat /\ ColumnsOf(i) # 0
    BY <1>2 DEF Advance, Overflow, Scrolls, ColumnsOf, CharWidth
  <2>3. TypeOK'
    BY <1>1, <2>1, <2>2, SameText DEF Inv, TypeOK
  <2>4. OpenLine'
    BY <1>1, <2>1, <2>2, SameText DEF Inv, OpenLine
  <2>5. LinesPartition' /\ NewlineEndsLine' /\ WordsKept'
    BY <2>1, SameText DEF Inv, LinesPartition, NewlineEndsLine, WordsKept
  <2> QED BY <2>3, <2>4, <2>5 DEF Inv
<1>3. ASSUME UNCHANGED <<body, columns>>, x' = 0, i' = prev_end',
             i' \in 0 .. Length, lines' \in Seq(LineSet),
             Partition(lines', prev_end'),
             \A k \in 1 .. Len(lines') : LineOK(lines'[k])
      PROVE  Inv'
  <2>1. TypeOK'
    BY <1>1, <1>3, SameText DEF Inv, TypeOK, LineSet
  <2>2. LinesPartition'
    BY <1>3 DEF LinesPartition, Partition
  <2>3. NewlineEndsLine' /\ WordsKept'
    BY <1>3, SameText DEF LineOK, NewlineEndsLine, WordsKept
  <2>4. OpenLine'
    <3>1. \A n \in Int : n .. n - 1 = {}
      OBVIOUS
    <3>2. i' \in Int
      BY <1>1, <1>3
    <3>3. prev_end' .. i' - 1 = {}
      BY <1>3, <3>1, <3>2
    <3> QED BY <3>3 DEF OpenLine
  <2> QED BY <2>1, <2>2, <2>3, <2>4 DEF Inv
<1>4. CASE WrapWord
  <2>1. PICK s \in 0 .. Length, e \in 0 .. Length, n \in 0 .. Length :
          /\ IsWord(i, s, e)
          /\ Fits(body, columns, s, e)
          /\ IsNextWordStart(s, e, n)
          /\ lines' = lines \o <<Line(prev_end, s), Line(s, n)>>
          /\ prev_end' = n
          /\ i' = n
    BY <1>4 DEF WrapWord
  <2>2. UNCHANGED <<body, columns>> /\ x' = 0 /\ Running
    BY <1>4 DEF WrapWord
  <2>3. /\ prev_end <= s /\ s <= n /\ i < n
        /\ KeptAt(s) /\ KeptAt(n)
        /\ \A j \in prev_end .. s - 1 : ColumnsOf(j) # 0
        /\ \A j \in s .. n - 1 : ColumnsOf(j) = 0 => j + 1 = n
    BY <2>1, <2>2, WrapFacts
  <2>4. LineOK(Line(prev_end, s)) /\ LineOK(Line(s, n))
    BY <2>3 DEF LineOK, Line
  <2> DEFINE ls == Append(lines, Line(prev_end, s))
  <2>5. ls \in Seq(LineSet) /\ Partition(ls, s)
    BY <1>1, <2>3, PartitionAppend
  <2>6. \A k \in 1 .. Len(ls) : LineOK(ls[k])
    BY <1>1, <2>2, <2>4, LinesGrow
  <2>7. lines' = Append(ls, Line(s, n))
    <3>1. Line(prev_end, s) \in LineSet /\ Line(s, n) \in LineSet
      BY <1>1 DEF Line, LineSet
    <3> QED BY <1>1, <2>1, <3>1
  <2> HIDE DEF ls
  <2>8. Append(ls, Line(s, n)) \in Seq(LineSet)
        /\ Partition(Append(ls, Line(s, n)), n)
    BY <1>1, <2>3, <2>5, PartitionAppend
  <2>9. \A k \in 1 .. Len(Append(ls, Line(s, n))) :
          LineOK(Append(ls, Line(s, n))[k])
    BY <1>1, <2>2, <2>4, <2>5, <2>6, LinesGrow
  <2> QED BY <1>3, <2>1, <2>2, <2>7, <2>8, <2>9
<1>5. CASE BreakLine
  <2>1. /\ UNCHANGED <<body, columns>> /\ x' = 0 /\ i < Length
        /\ lines' = Append(lines, Line(prev_end, i + 1))
        /\ prev_end' = i + 1 /\ i' = i + 1
    BY <1>5 DEF BreakLine, Running
  <2>2. KeptAt(i + 1)
    <3> SUFFICES ASSUME i + 1 < Length, ~SplitsAt(i),
                        NEW s \in 0 .. Length, NEW e \in 0 .. Length,
                        IsWord(i, s, e)
                 PROVE  ~Fits(body, columns, s, e)
      BY <1>1 DEF KeptAt
    <3>1. ColumnsOf(i) # 0
      BY DEF SplitsAt, Splits, ColumnsOf, CharWidth
    <3>2. PICK s1 \in 0 .. Length, e1 \in 0 .. Length :
            IsWord(i, s1, e1) /\ ~Fits(body, columns, s1, e1)
      BY <1>1, <1>5, <3>1 DEF BreakLine
    <3>3. s = s1 /\ e = e1
      BY <1>1, <3>2, OneWord
    <3> QED BY <3>2, <3>3
  <2>3. LineOK(Line(prev_end, i + 1))
    BY <1>1, <2>1, <2>2 DEF Inv, OpenLine, LineOK, Line
  <2>4. lines' \in Seq(LineSet) /\ Partition(lines', i + 1)
    BY <1>1, <2>1, PartitionAppend
  <2>5. \A k \in 1 .. Len(lines') : LineOK(lines'[k])
    BY <1>1, <2>1, <2>3, LinesGrow
  <2> QED BY <1>1, <1>3, <2>1, <2>4, <2>5
<1>6. CASE UNCHANGED vars
  <2>1. UNCHANGED <<body, columns, i, x, prev_end, lines>>
    BY <1>6 DEF vars
  <2> QED BY <2>1, SameText DEF Inv, TypeOK, LinesPartition, NewlineEndsLine,
             WordsKept, OpenLine
<1> QED BY <1>2, <1>4, <1>5, <1>6 DEF Next

LEMMA Invariant == Spec => []Inv
BY InitInv, NextInv, PTL DEF Spec

(* The loop of message_buffer_insert stays within the body, for every text *)
(* and every width.                                                        *)
THEOREM TypeCorrect == Spec => []TypeOK
BY Invariant, PTL DEF Inv

(* message_buffer_insert puts every character on one line, and the lines   *)
(* in the order of the text, although it goes back to the start of a word. *)
THEOREM LinesPartitionText == Spec => []LinesPartition
BY Invariant, PTL DEF Inv

(* The assertion of message_buffer_redraw on forced breaks cannot fail.    *)
THEOREM NewlinesEndLines == Spec => []NewlineEndsLine
BY Invariant, PTL DEF Inv

(* Only a word that is too long for any line is broken.                    *)
THEOREM WordsAreKept == Spec => []WordsKept
BY Invariant, PTL DEF Inv

-----------------------------------------------------------------------------
(* The width of a stretch of text.  Span is a recursive function; what it  *)
(* computes is proved from the smallest position at which it would fail.   *)

LEMMA Smallest ==
  ASSUME NEW T \in SUBSET Nat, T # {}
  PROVE  \E n \in T : \A m \in T : n <= m
<1> DEFINE R == OpToRel(<, Nat)
<1>1. \E n \in T : \A m \in T : ~(<<m, n>> \in R)
  <2>1. IsWellFoundedOn(R, Nat) /\ T \subseteq Nat
    BY NatLessThanWellFounded
  <2> HIDE DEF R
  <2> QED BY <2>1, WFMin
<1>2. \A m, n \in Nat : m < n => <<m, n>> \in R
  BY DEF OpToRel
<1> HIDE DEF R
<1>3. PICK n \in T : \A m \in T : ~(<<m, n>> \in R)
  BY <1>1
<1>4. ASSUME NEW m \in T PROVE n <= m
  <2>1. m \in Nat /\ n \in Nat
    OBVIOUS
  <2>2. ~(m < n)
    BY <1>2, <1>3, <2>1, Zenon
  <2> QED BY <2>1, <2>2
<1> QED BY <1>4

(* s gives the widths of the stretches of b that begin at from.            *)
IsSpans(s, b, from, to) ==
  s = [k \in from .. to |-> IF k = from THEN 0 ELSE s[k - 1] + CharWidth(b[k])]

LEMMA SpansExist ==
  ASSUME NEW b, NEW from \in Nat, NEW to \in Nat, from <= to
  PROVE  \E s : IsSpans(s, b, from, to)
<1> DEFINE T == {n \in Nat : from <= n /\ ~ \E s : IsSpans(s, b, from, n)}
<1> SUFFICES ASSUME T # {} PROVE FALSE
  OBVIOUS
<1>1. PICK n \in T : \A m \in T : n <= m
  BY Smallest
<1>2. n \in Nat /\ from <= n /\ ~ \E s : IsSpans(s, b, from, n)
  OBVIOUS
<1>3. CASE n = from
  <2> DEFINE s == [k \in from .. from |-> 0]
  <2>1. s = [k \in from .. from |-> IF k = from THEN 0 ELSE s[k - 1] + CharWidth(b[k])]
    OBVIOUS
  <2> QED BY <1>2, <1>3, <2>1 DEF IsSpans
<1>4. CASE from < n
  <2>1. n - 1 \in Nat /\ from <= n - 1 /\ ~(n <= n - 1)
    BY <1>2, <1>4
  <2>2. n - 1 \notin T
    BY <1>1, <2>1
  <2>3. PICK s : IsSpans(s, b, from, n - 1)
    BY <2>1, <2>2
  <2> DEFINE t == [k \in from .. n |-> IF k = n THEN s[n - 1] + CharWidth(b[n]) ELSE s[k]]
  <2>4. ASSUME NEW k \in from .. n
        PROVE  t[k] = IF k = from THEN 0 ELSE t[k - 1] + CharWidth(b[k])
    <3>1. CASE k = n
      BY <1>2, <1>4, <3>1
    <3>2. CASE k # n
      <4>1. k \in from .. n - 1 /\ (k # from => k - 1 \in from .. n /\ k - 1 # n)
        BY <1>2, <3>2
      <4>2. s[k] = IF k = from THEN 0 ELSE s[k - 1] + CharWidth(b[k])
        BY <2>3, <4>1 DEF IsSpans
      <4> QED BY <3>2, <4>1, <4>2
    <3> QED BY <3>1, <3>2
  <2>5. t = [k \in from .. n |-> IF k = from THEN 0 ELSE t[k - 1] + CharWidth(b[k])]
    BY <2>4
  <2>6. IsSpans(t, b, from, n)
    BY <2>5 DEF IsSpans
  <2> QED BY <1>2, <2>6
<1> QED BY <1>2, <1>3, <1>4

(* Two such functions agree where both are defined.                        *)
LEMMA SpansAgree ==
  ASSUME NEW b, NEW from \in Nat, NEW m \in Nat, NEW n \in Nat, m <= n,
         NEW s, IsSpans(s, b, from, m), NEW t, IsSpans(t, b, from, n)
  PROVE  \A k \in from .. m : s[k] = t[k]
<1> DEFINE T == {k \in from .. m : s[k] # t[k]}
<1> SUFFICES ASSUME T # {} PROVE FALSE
  OBVIOUS
<1>1. T \in SUBSET Nat
  OBVIOUS
<1>2. PICK k \in T : \A j \in T : k <= j
  BY <1>1, Smallest
<1>3. k \in from .. m /\ k \in from .. n /\ k \in Nat /\ s[k] # t[k]
  OBVIOUS
<1>4. /\ s[k] = IF k = from THEN 0 ELSE s[k - 1] + CharWidth(b[k])
      /\ t[k] = IF k = from THEN 0 ELSE t[k - 1] + CharWidth(b[k])
  BY <1>3 DEF IsSpans
<1>5. k # from /\ s[k - 1] # t[k - 1]
  BY <1>3, <1>4
<1>6. k - 1 \in T /\ ~(k <= k - 1)
  BY <1>3, <1>5
<1> QED BY <1>2, <1>6

LEMMA SpanValue ==
  ASSUME NEW b, NEW from \in Nat, NEW to \in Nat, from <= to
  PROVE  \E s : IsSpans(s, b, from, to) /\ Span(b, from, to) = s[to]
<1> DEFINE s == CHOOSE g : IsSpans(g, b, from, to)
<1>1. IsSpans(s, b, from, to)
  BY SpansExist
<1>2. Span(b, from, to) = s[to]
  BY DEF Span, IsSpans
<1> QED BY <1>1, <1>2

(* The empty stretch has no width, and one character more adds its own.    *)
LEMMA SpanEmpty ==
  ASSUME NEW b, NEW from \in Nat
  PROVE  Span(b, from, from) = 0
<1>1. PICK s : IsSpans(s, b, from, from) /\ Span(b, from, from) = s[from]
  BY SpanValue
<1>2. s[from] = 0
  BY <1>1 DEF IsSpans
<1> QED BY <1>1, <1>2

LEMMA SpanNext ==
  ASSUME NEW b, NEW from \in Nat, NEW to \in Nat, from <= to
  PROVE  Span(b, from, to + 1) = Span(b, from, to) + CharWidth(b[to + 1])
<1>1. PICK s : IsSpans(s, b, from, to) /\ Span(b, from, to) = s[to]
  BY SpanValue
<1>2. PICK t : IsSpans(t, b, from, to + 1) /\ Span(b, from, to + 1) = t[to + 1]
  BY SpanValue
<1>3. s[to] = t[to]
  BY <1>1, <1>2, SpansAgree
<1>4. t[to + 1] = t[to] + CharWidth(b[to + 1])
  BY <1>2 DEF IsSpans
<1> QED BY <1>1, <1>2, <1>3, <1>4

LEMMA SpanType ==
  ASSUME NEW b, NEW from \in Nat, NEW to \in Nat, from <= to
  PROVE  Span(b, from, to) \in Nat
<1> DEFINE T == {n \in Nat : from <= n /\ Span(b, from, n) \notin Nat}
<1> SUFFICES ASSUME T # {} PROVE FALSE
  OBVIOUS
<1>1. PICK n \in T : \A m \in T : n <= m
  BY Smallest
<1>2. n \in Nat /\ from <= n /\ Span(b, from, n) \notin Nat
  OBVIOUS
<1>3. from < n
  BY <1>2, SpanEmpty
<1>4. n - 1 \in Nat /\ from <= n - 1 /\ ~(n <= n - 1)
  BY <1>2, <1>3
<1>5. Span(b, from, n - 1) \in Nat
  BY <1>1, <1>4
<1>6. Span(b, from, (n - 1) + 1) = Span(b, from, n - 1) + CharWidth(b[(n - 1) + 1])
  BY <1>4, SpanNext
<1>7. (n - 1) + 1 = n /\ CharWidth(b[n]) \in Nat
  BY <1>2 DEF CharWidth
<1> QED BY <1>2, <1>5, <1>6, <1>7

(* A longer stretch is no narrower.                                        *)
LEMMA SpanGrows ==
  ASSUME NEW b, NEW from \in Nat, NEW m \in Nat, NEW n \in Nat, from <= m, m <= n
  PROVE  Span(b, from, m) <= Span(b, from, n)
<1> DEFINE T == {k \in Nat : m <= k /\ ~(Span(b, from, m) <= Span(b, from, k))}
<1> SUFFICES ASSUME T # {} PROVE FALSE
  OBVIOUS
<1>1. PICK k \in T : \A j \in T : k <= j
  BY Smallest
<1>2. k \in Nat /\ m <= k /\ ~(Span(b, from, m) <= Span(b, from, k))
  OBVIOUS
<1>3. Span(b, from, m) \in Nat
  BY SpanType
<1>4. m < k
  BY <1>2, <1>3
<1>5. k - 1 \in Nat /\ m <= k - 1 /\ from <= k - 1 /\ ~(k <= k - 1)
  BY <1>2, <1>4
<1>6. Span(b, from, m) <= Span(b, from, k - 1) /\ Span(b, from, k - 1) \in Nat
  BY <1>1, <1>5, SpanType
<1>7. Span(b, from, (k - 1) + 1) = Span(b, from, k - 1) + CharWidth(b[(k - 1) + 1])
  BY <1>5, SpanNext
<1>8. (k - 1) + 1 = k /\ CharWidth(b[k]) \in Nat
  BY <1>2 DEF CharWidth
<1> QED BY <1>2, <1>3, <1>6, <1>7, <1>8

-----------------------------------------------------------------------------
(* The lines fit.                                                          *)

(* x is the width of what is on the line already, which leaves room.       *)
FitInv ==
  /\ x = Span(body, prev_end, i)
  /\ ~TooNarrow => x < columns
  /\ LinesFit

Narrow(l) == l.start < l.end => Span(body, l.start, l.end - 1) < columns

(* The word that goes on a line of its own fits it with what follows.      *)
LEMMA WordFits ==
  ASSUME Inv, Running, NEW s \in 0 .. Length, NEW e \in 0 .. Length,
         NEW n \in 0 .. Length, s <= e,
         Fits(body, columns, s, e), IsNextWordStart(s, e, n)
  PROVE  Narrow(Line(s, n))
<1>1. Length \in Nat /\ columns \in Nat
  BY DEF Inv, TypeOK, Length
<1>2. Span(body, s, e) \in Nat /\ Span(body, s, e) < columns
  BY <1>1, SpanType DEF Fits, Scrolls
<1> SUFFICES ASSUME s < n PROVE Span(body, s, n - 1) < columns
  BY DEF Narrow, Line
<1>3. n - 1 \in Nat /\ Span(body, s, n - 1) \in Nat
  BY <1>1, SpanType
<1>4. CASE n - 1 <= e
  BY <1>1, <1>2, <1>3, <1>4, SpanGrows
<1>5. CASE e < n - 1
  <2>1. PICK k \in Scanned(s, e) : n = k + 1
    BY <1>1, <1>5 DEF IsNextWordStart, Candidates
  <2>2. k \in e .. Length - 1 /\ k = n - 1 /\ n - 2 \in e .. k - 1 /\ n - 2 \in Nat
    BY <1>1, <1>5, <2>1 DEF Scanned
  <2>3. ~Scrolls(columns, Span(body, s, n - 2), ColumnsOf(n - 2))
    BY <2>1, <2>2 DEF Scanned
  <2>4. Span(body, s, (n - 2) + 1) = Span(body, s, n - 2) + CharWidth(body[(n - 2) + 1])
    BY <1>1, <2>2, SpanNext
  <2>5. (n - 2) + 1 = n - 1 /\ ColumnsOf(n - 2) = CharWidth(body[(n - 2) + 1])
    BY <1>1 DEF ColumnsOf, At
  <2>6. Span(body, s, n - 1) = Span(body, s, n - 2) + ColumnsOf(n - 2)
    BY <2>4, <2>5
  <2> QED BY <1>1, <1>3, <2>3, <2>6 DEF Scrolls
<1> QED BY <1>1, <1>4, <1>5

LEMMA FitStep == Inv /\ FitInv /\ [Next]_vars => FitInv'
<1> SUFFICES ASSUME Inv, FitInv, [Next]_vars PROVE FitInv'
  OBVIOUS
<1>1. /\ Length \in Nat /\ i \in 0 .. Length /\ prev_end \in 0 .. i /\ prev_end \in Nat
      /\ lines \in Seq(LineSet) /\ x \in Nat /\ i \in Nat /\ columns \in Nat
  BY DEF Inv, TypeOK, Length, LineSet
<1>0. \A k \in 1 .. Len(lines) : Narrow(lines[k])
  BY DEF FitInv, LinesFit, Narrow
<1>2. ASSUME UNCHANGED <<body, columns>>, x' = 0, i' = prev_end', i' \in Nat,
             \A k \in 1 .. Len(lines') : Narrow(lines'[k])
      PROVE  FitInv'
  <2>1. Span(body', prev_end', i') = 0
    BY <1>2, SpanEmpty
  <2>2. ~TooNarrow' => 0 < columns'
    BY <1>1, <1>2 DEF TooNarrow
  <2> QED BY <1>2, <2>1, <2>2 DEF FitInv, LinesFit, Narrow
<1>3. CASE Advance
  <2>1. /\ UNCHANGED <<body, columns, prev_end, lines>> /\ i' = i + 1
        /\ x' = x + ColumnsOf(i) /\ ~Scrolls(columns, x, ColumnsOf(i))
    BY <1>3 DEF Advance, Overflow
  <2>2. ColumnsOf(i) = CharWidth(body[i + 1]) /\ ColumnsOf(i) \in Nat
    BY DEF ColumnsOf, At, CharWidth
  <2>3. Span(body, prev_end, i + 1) = Span(body, prev_end, i) + CharWidth(body[i + 1])
    BY <1>1, SpanNext
  <2>4. x' = Span(body, prev_end, i + 1)
    BY <2>1, <2>2, <2>3 DEF FitInv
  <2>5. x' < columns
    BY <1>1, <2>1, <2>2 DEF Scrolls
  <2> QED BY <2>1, <2>4, <2>5 DEF FitInv, LinesFit, TooNarrow
<1>4. CASE WrapWord
  <2>1. PICK s \in 0 .. Length, e \in 0 .. Length, n \in 0 .. Length :
          /\ IsWord(i, s, e)
          /\ Fits(body, columns, s, e)
          /\ IsNextWordStart(s, e, n)
          /\ lines' = lines \o <<Line(prev_end, s), Line(s, n)>>
          /\ prev_end' = n
          /\ i' = n
    BY <1>4 DEF WrapWord
  <2>2. UNCHANGED <<body, columns>> /\ x' = 0 /\ Running
    BY <1>4 DEF WrapWord
  <2>3. s \in Nat /\ e \in Nat /\ n \in Nat /\ s <= i /\ s <= e
    BY <1>1, <2>1 DEF IsWord
  <2>4. Narrow(Line(s, n))
    BY <2>1, <2>2, <2>3, WordFits
  <2>5. Narrow(Line(prev_end, s))
    <3> SUFFICES ASSUME prev_end < s PROVE Span(body, prev_end, s - 1) < columns
      BY DEF Narrow, Line
    <3>1. s - 1 \in Nat /\ prev_end <= s - 1 /\ s - 1 <= i
      BY <1>1, <2>3
    <3>2. Span(body, prev_end, s - 1) <= x /\ Span(body, prev_end, s - 1) \in Nat
      BY <1>1, <3>1, SpanGrows, SpanType DEF FitInv
    <3>3. x < columns
      BY <2>2 DEF FitInv, Running
    <3> QED BY <1>1, <3>2, <3>3
  <2>6. ASSUME NEW k \in 1 .. Len(lines') PROVE Narrow(lines'[k])
    <3>1. Line(prev_end, s) \in LineSet /\ Line(s, n) \in LineSet
      BY <1>1, <2>3 DEF Line, LineSet
    <3>2. \/ k \in 1 .. Len(lines) /\ lines'[k] = lines[k]
          \/ lines'[k] = Line(prev_end, s)
          \/ lines'[k] = Line(s, n)
      BY <1>1, <2>1, <3>1
    <3> QED BY <1>0, <2>4, <2>5, <3>2
  <2> QED BY <1>2, <2>1, <2>2, <2>3, <2>6
<1>5. CASE BreakLine
  <2>1. /\ UNCHANGED <<body, columns>> /\ x' = 0 /\ Running
        /\ lines' = Append(lines, Line(prev_end, i + 1))
        /\ prev_end' = i + 1 /\ i' = i + 1
    BY <1>5 DEF BreakLine
  <2>2. Narrow(Line(prev_end, i + 1))
    <3>1. (i + 1) - 1 = i
      BY <1>1
    <3>2. x < columns
      BY <2>1 DEF FitInv, Running
    <3> QED BY <3>1, <3>2 DEF Narrow, Line, FitInv
  <2>3. ASSUME NEW k \in 1 .. Len(lines') PROVE Narrow(lines'[k])
    <3>1. Line(prev_end, i + 1) \in LineSet
      BY <1>1 DEF Line, LineSet
    <3>2. \/ k \in 1 .. Len(lines) /\ lines'[k] = lines[k]
          \/ lines'[k] = Line(prev_end, i + 1)
      BY <1>1, <2>1, <3>1
    <3> QED BY <1>0, <2>2, <3>2
  <2> QED BY <1>1, <1>2, <2>1, <2>3
<1>6. CASE UNCHANGED vars
  BY <1>6 DEF vars, FitInv, TooNarrow, LinesFit
<1> QED BY <1>3, <1>4, <1>5, <1>6 DEF Next

(* The last character apart, every line of a message is narrower than the  *)
(* widget, whatever mixture of narrow and wide characters its body is and  *)
(* however often message_buffer_insert turned back to the start of a word. *)
THEOREM LinesFitColumns == Spec => []LinesFit
<1>1. Init => FitInv
  <2> SUFFICES ASSUME Init PROVE FitInv
    OBVIOUS
  <2>1. Span(body, 0, 0) = 0 /\ columns \in Nat
    BY SpanEmpty DEF Init
  <2> QED BY <2>1 DEF Init, FitInv, LinesFit, TooNarrow
<1>2. FitInv => LinesFit
  BY DEF FitInv
<1> QED BY <1>1, <1>2, FitStep, InitInv, NextInv, PTL DEF Spec

=============================================================================
