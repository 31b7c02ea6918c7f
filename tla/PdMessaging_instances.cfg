\* Three instances. The main thread and the audio thread may block each other.
CONSTANTS
  MaxInstances = 3
  MaxPosted = 2
SPECIFICATION FairSpec
INVARIANTS
  TypeOK
  DeadlockNeedsRestart
PROPERTIES
  MessagesArrive
  OperationsEnd
CHECK_DEADLOCK FALSE
