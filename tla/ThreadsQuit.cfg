SPECIFICATION KindSpec
CONSTANTS
  QUEUE_SIZE = 1
  MaxSyncs = 2
  MaxItems = 0
PROPERTIES QuitEndsSyncer
CHECK_DEADLOCK FALSE
