SPECIFICATION FairSpec
CONSTANTS
  Rooms = {r1}
  Spaces = {}
  Keys = {k1}
  Kinds = {"message", "redaction", "state", "other"}
  Limit = 2
  NumPaginate = 1
  MaxEvents = 5
  MaxFailures = 1
INVARIANTS
  TypeOK OrderIsIndexed OrderFollowsServer RedactionsApplied
  MemoryMirrorsCache TimelinesAreSorted StateIsLatest
PROPERTY EventsArrive
