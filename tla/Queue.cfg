\* Three slots and three distinguishable pointers: the indices wrap with the
\* queue empty, partly full and full.
SPECIFICATION Spec
CONSTANTS
  QUEUE_SIZE = 3
  NULL = NULL
  Items = {i1, i2, i3}
INVARIANT WindowOK
PROPERTY RefinesFifo
