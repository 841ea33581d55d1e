\* Letters, a wide character, a space, a wide space (U+3000) and a newline in
\* every order, and lines from too narrow for anything to wider than most bodies.
SPECIFICATION FairSpec
CONSTANTS
  Letter = {a}
  Wide = {w, ws}
  Space = {sp, ws}
  Newline = {nl}
  MaxLength = 6
  Columns = {1, 2, 3, 4, 5}
INVARIANTS TypeOK LinesPartition NewlineEndsLine WordsKept LinesFit
PROPERTY AllPlaced
CHECK_DEADLOCK FALSE
