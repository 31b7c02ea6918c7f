\* A loaded schedule with any identifier, two creates and two edits, one after the other. The bounds end a behaviour.
CONSTANTS
  Loaded = 1
  Identifiers = {1, 2, 3}
  MaxCreates = 2
  Editors = {e1}
  MaxEdits = 2
SPECIFICATION FairSpec
INVARIANTS
  TypeOK
  
PROPERTIES
  NewIdsAreFree
  
CHECK_DEADLOCK FALSE
