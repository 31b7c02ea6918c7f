\* Two instances: the second one initializes Pd while audio runs.
CONSTANTS
  MaxInstances = 2
  MaxPosted = 1
SPECIFICATION Spec
INVARIANT NoDeadlock
CHECK_DEADLOCK FALSE
