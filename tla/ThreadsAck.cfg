SPECIFICATION FairSpec
CONSTANTS
  QUEUE_SIZE = 1
  MaxSyncs = 1
  MaxItems = 0
PROPERTIES AcknowledgedSyncResumes
CHECK_DEADLOCK FALSE
