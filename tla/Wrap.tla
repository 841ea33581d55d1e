-------------------------------- MODULE Wrap --------------------------------
(***************************************************************************)
(* The loop of message_buffer_insert (src/ui/message_buffer.c) that breaks *)
(* the body of a message into the lines of the message buffer, one action  *)
(* per branch.  As in the source, positions count from 0 and a line is the *)
(* half-open interval of positions buf_item.start .. buf_item.end - 1.     *)
(* `columns' is the room for a line, x2 - padding: the loop starts at      *)
(* start_x = padding + 1, and `x' is kept relative to it.                  *)
(***************************************************************************)
EXTENDS Integers, Sequences

CONSTANTS
  Letter,      \* characters of one column inside words
  Wide,        \* characters of two columns
  Space,       \* characters that end a word, of two columns if in Wide
  Newline,     \* characters that force a break
  MaxLength,   \* bound on the length of a body
  Columns      \* the values of `columns'

ASSUME CharAssumption == Newline \cap (Letter \cup Wide \cup Space) = {}

ASSUME BoundsAssumption ==
  /\ MaxLength \in Nat
  /\ Columns \subseteq Nat

Char == Letter \cup Wide \cup Space \cup Newline

(* The width widget_uc_sanitize gives; 0 is a forced break. *)
CharWidth(c) == IF c \in Newline THEN 0 ELSE IF c \in Wide THEN 2 ELSE 1

(* ch_can_split_word *)
Splits == Space \cup Newline

VARIABLES
  body,      \* message->body
  columns,   \* points->x2 - padding
  i,         \* the next character
  x,         \* the column after the characters taken into the line
  prev_end,  \* where the line begins
  lines      \* the buf_items of this message

vars == <<body, columns, i, x, prev_end, lines>>

Bodies == UNION {[1 .. n -> Char] : n \in 0 .. MaxLength}

Length == Len(body)
At(k) == body[k + 1]
ColumnsOf(k) == CharWidth(At(k))
SplitsAt(k) == At(k) \in Splits

(* The columns of the characters from .. to - 1 of the text b. *)
Span(b, from, to) ==
  LET s[k \in from .. to] == IF k = from THEN 0 ELSE s[k - 1] + CharWidth(b[k])
  IN  s[to]

(* widget_should_scroll(start_x + col, width, x2), for c = x2 - padding *)
Scrolls(c, col, width) == width = 0 \/ col + width > c - 1

Line(start, end) == [start |-> start, end |-> end]

Init ==
  /\ body \in Bodies
  /\ columns \in Columns
  /\ i = 0
  /\ x = 0
  /\ prev_end = 0
  /\ lines = <<>>

(* start_x >= points->x2: no room at all, and the message gets no line. *)
TooNarrow == columns <= 1

Running == ~TooNarrow /\ i < Length

(* Mutant of Overflow: a newline is a character without width. *)
OverflowWithoutBreak ==
  \/ ColumnsOf(i) # 0 /\ Scrolls(columns, x, ColumnsOf(i))
  \/ /\ i + 1 < Length
     /\ ColumnsOf(i + 1) # 0
     /\ Scrolls(columns, x, ColumnsOf(i + 1))

(* Mutant of Overflow: the column behind the last counts as room. *)
OverflowLate ==
  \/ Scrolls(columns + 1, x, ColumnsOf(i))
  \/ /\ i + 1 < Length
     /\ ColumnsOf(i + 1) # 0
     /\ Scrolls(columns + 1, x, ColumnsOf(i + 1))

(* The character itself would scroll, or the next one would from where     *)
(* this one stands and is no forced break.                                 *)
Overflow ==
  \/ Scrolls(columns, x, ColumnsOf(i))
  \/ /\ i + 1 < Length
     /\ ColumnsOf(i + 1) # 0
     /\ Scrolls(columns, x, ColumnsOf(i + 1))

-----------------------------------------------------------------------------
(* find_word_start_end: the word at k is the stretch s .. e - 1. *)
IsWord(k, s, e) ==
  /\ s <= k /\ k <= e
  /\ \A j \in s .. k - 1 : ~SplitsAt(j)
  /\ s > 0 => SplitsAt(s - 1)
  /\ \A j \in k .. e - 1 : ~SplitsAt(j)
  /\ e < Length => SplitsAt(e)

(* The word s .. e - 1 of the text b fits a line, for c = x2 - padding. *)
Fits(b, c, s, e) == ~Scrolls(c, 0, Span(b, s, e))

(* What find_next_word_start looks at after the word s .. e - 1: it stops  *)
(* behind the first character that scrolls.                                *)
Scanned(s, e) ==
  {k \in e .. Length - 1 :
     \A j \in e .. k - 1 : ~Scrolls(columns, Span(body, s, j), ColumnsOf(j))}

(* Mutant of Candidates: the next line may start inside a word. *)
CandidatesAnywhere(s, e) == {e} \cup {k + 1 : k \in Scanned(s, e)}

Candidates(s, e) ==
  {e} \cup {k + 1 : k \in {j \in Scanned(s, e) : SplitsAt(j) \/ j + 1 = Length}}

IsNextWordStart(s, e, n) ==
  /\ n \in Candidates(s, e)
  /\ \A m \in Candidates(s, e) : m <= n

-----------------------------------------------------------------------------
(* No overflow and not the last character: the loop goes on. *)
Advance ==
  /\ Running
  /\ ~Overflow
  /\ i + 1 < Length
  /\ i' = i + 1
  /\ x' = x + ColumnsOf(i)
  /\ UNCHANGED <<body, columns, prev_end, lines>>

(* Mutant of WrapWord: the loop is set back by one too many. *)
WrapWordAgain ==
  /\ Running
  /\ Overflow
  /\ ColumnsOf(i) # 0
  /\ \E s, e, n \in 0 .. Length :
       /\ IsWord(i, s, e)
       /\ Fits(body, columns, s, e)
       /\ IsNextWordStart(s, e, n)
       /\ lines' = lines \o <<Line(prev_end, s), Line(s, n)>>
       /\ prev_end' = n
       /\ i' = n - 1
  /\ x' = 0
  /\ UNCHANGED <<body, columns>>

(* Mutant of WrapWord: what follows the word is left out of prev_end. *)
WrapWordOnly ==
  /\ Running
  /\ Overflow
  /\ ColumnsOf(i) # 0
  /\ \E s, e, n \in 0 .. Length :
       /\ IsWord(i, s, e)
       /\ Fits(body, columns, s, e)
       /\ IsNextWordStart(s, e, n)
       /\ lines' = lines \o <<Line(prev_end, s), Line(s, n)>>
       /\ prev_end' = e
       /\ i' = n
  /\ x' = 0
  /\ UNCHANGED <<body, columns>>

(* The word that overflows fits a line of its own: what is before it is    *)
(* one line, the word and what follows as far as it fits is the next.      *)
WrapWord ==
  /\ Running
  /\ Overflow
  /\ ColumnsOf(i) # 0
  /\ \E s, e, n \in 0 .. Length :
       /\ IsWord(i, s, e)
       /\ Fits(body, columns, s, e)
       /\ IsNextWordStart(s, e, n)
       /\ lines' = lines \o <<Line(prev_end, s), Line(s, n)>>
       /\ prev_end' = n
       /\ i' = n
  /\ x' = 0
  /\ UNCHANGED <<body, columns>>

(* Mutant of BreakLine: the rest of the body is no line. *)
BreakLineOnOverflow ==
  /\ Running
  /\ Overflow
  /\ \/ ~Overflow
     \/ ColumnsOf(i) = 0
     \/ \E s, e \in 0 .. Length :
          IsWord(i, s, e) /\ ~Fits(body, columns, s, e)
  /\ lines' = Append(lines, Line(prev_end, i + 1))
  /\ prev_end' = i + 1
  /\ i' = i + 1
  /\ x' = 0
  /\ UNCHANGED <<body, columns>>

(* The line ends behind this character. *)
BreakLine ==
  /\ Running
  /\ Overflow \/ i + 1 = Length
  /\ \/ ~Overflow
     \/ ColumnsOf(i) = 0
     \/ \E s, e \in 0 .. Length :
          IsWord(i, s, e) /\ ~Fits(body, columns, s, e)
  /\ lines' = Append(lines, Line(prev_end, i + 1))
  /\ prev_end' = i + 1
  /\ i' = i + 1
  /\ x' = 0
  /\ UNCHANGED <<body, columns>>

Next == Advance \/ WrapWord \/ BreakLine

Spec == Init /\ [][Next]_vars
FairSpec == Spec /\ WF_vars(Next)

-----------------------------------------------------------------------------
(* The types; i and prev_end stay within the body. *)
TypeOK ==
  /\ body \in Seq(Char)
  /\ columns \in Columns
  /\ i \in 0 .. Length
  /\ x \in Nat
  /\ prev_end \in 0 .. i
  /\ lines \in Seq([start : Nat, end : Nat])

(* The lines follow one another from the start of the body to prev_end,    *)
(* and none ends before it starts: no character is lost or drawn twice,    *)
(* wherever the loop turns back to the start of a word.                    *)
LinesPartition ==
  /\ \A k \in 1 .. Len(lines) :
       /\ lines[k].start <= lines[k].end
       /\ lines[k].start = IF k = 1 THEN 0 ELSE lines[k - 1].end
  /\ prev_end = IF lines = <<>> THEN 0 ELSE lines[Len(lines)].end

(* A forced break is only ever the last character of a line: the assertion *)
(* of message_buffer_redraw (src/ui/message_buffer.c:478).                 *)
NewlineEndsLine ==
  \A k \in 1 .. Len(lines) :
    \A j \in lines[k].start .. lines[k].end - 1 :
      ColumnsOf(j) = 0 => j + 1 = lines[k].end

(* A line that ends neither behind a space or a forced break nor at the    *)
(* end of the body ends in a word that fits no line.                       *)
KeptAt(b) ==
  0 < b /\ b < Length /\ ~SplitsAt(b - 1)
    => \A s, e \in 0 .. Length :
         IsWord(b - 1, s, e) => ~Fits(body, columns, s, e)

WordsKept == \A k \in 1 .. Len(lines) : KeptAt(lines[k].end)

(* A line without its last character is narrower than the widget: text of  *)
(* one column per character stays inside, a wide character may stick out   *)
(* by one column.                                                          *)
LinesFit ==
  \A k \in 1 .. Len(lines) :
    lines[k].start < lines[k].end
      => Span(body, lines[k].start, lines[k].end - 1) < columns

(* The loop ends and has then put every character on a line.               *)
AllPlaced == <>(TooNarrow \/ (i = Length /\ prev_end = Length))

=============================================================================
