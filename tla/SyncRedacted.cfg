SPECIFICATION Spec
CONSTANTS
  Rooms = {r1}
  Spaces = {}
  Keys = {}
  Kinds = {"message", "redaction"}
  Limit = 2
  NumPaginate = 1
  MaxEvents = 4
  MaxFailures = 0
INVARIANT RedactedOnce
