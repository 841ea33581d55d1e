\* Two messages loaded at boot and two that arrive, with one slot reserved for
\* them: the array grows once. The widget is smaller than the messages.
SPECIFICATION FairSpec
CONSTANTS
  Back = 2
  MaxMessages = 4
  Reserve = 1
  Widths = {1, 2}
  Heights = {1, 2}
  LineCount <- MCLineCount
INVARIANTS TypeOK ReadsAreSafe BufferIsTimeline ScrollIsSane
PROPERTIES ClickSelectsDrawn MessagesAreShown
CHECK_DEADLOCK FALSE
