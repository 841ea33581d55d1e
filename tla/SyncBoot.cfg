SPECIFICATION Spec
CONSTANTS
  Rooms = {s, r}
  Spaces = {s}
  Keys = {}
  Kinds = {"child", "parent"}
  Limit = 2
  NumPaginate = 1
  MaxEvents = 4
  MaxFailures = 1
INVARIANT ParentsAreSpaces
