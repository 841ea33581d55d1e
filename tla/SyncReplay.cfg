SPECIFICATION Spec
CONSTANTS
  Rooms = {s, r}
  Spaces = {s}
  Keys = {k1}
  Kinds = {"state", "child"}
  Limit = 2
  NumPaginate = 1
  MaxEvents = 4
  MaxFailures = 1
INVARIANT ReplayRestores
