\* Either activity: tempos of both corrected ranges, two tasks. The process may crash or exit.
CONSTANTS
  Tempos <- MCTempos
  Tasks = {t1, t2}
SPECIFICATION FairSpec
INVARIANTS
  TypeOK
  NoLostRestart
  CrashHasCause
PROPERTIES
  DetectionResumes
  StoppedTasksEnd
CHECK_DEADLOCK FALSE
