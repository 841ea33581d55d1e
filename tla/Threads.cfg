\* The program really stops: after cleanup no thread is left.
SPECIFICATION FairSpec
CONSTANTS
  QUEUE_SIZE = 2
  MaxSyncs = 3
  MaxItems = 4
INVARIANTS
  TypeOK HandshakeExclusion PipeDiscipline ItemAccounting RunInOrder
  LoginIsSaved TeardownAlone
PROPERTIES RefinesRendezvous BatchIsTaken ItemIsRun LoginIsAnswered
CHECK_DEADLOCK FALSE
