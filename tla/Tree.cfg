SPECIFICATION Spec
CONSTANTS
  Rooms = {s1, s2, r}
  Spaces = {s1, s2}
  None = None
  MaxDepth = 2
  MaxEvents = 1
SYMMETRY SpacesAlike
INVARIANTS
  TreeMirrorsRooms SelectionIsShown RoomsAreReachable
PROPERTY SentWhereSeen
CHECK_DEADLOCK FALSE
