\* Three wrappers: start, restart over running or failed audio, stop, start again.
CONSTANT
  MaxWrappers = 3
SPECIFICATION FairSpec
INVARIANTS
  TypeOK
  NoBufferSharing
  ThreadsBeforeRelease
  OneAudioThread
  StopLeavesOnlyFailed
PROPERTY
  OperationsReturn
