SPECIFICATION LazySpec
CONSTANTS
  Rooms = {s, r}
  Spaces = {s}
  Keys = {}
  Kinds = {"child", "parent"}
  Limit = 1
  NumPaginate = 1
  MaxEvents = 5
  MaxFailures = 1
INVARIANTS NothingMissed ChildrenMirrorCache RelationsFollowEvents
