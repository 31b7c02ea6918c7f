\* Three requests, two at a time, on two lights.  The bound on requests ends a behaviour.
CONSTANTS
  Lights = {l1, l2}
  Scenes = {s1}
  Handlers = {h1, h2}
  Hues = {1, 2}
  Bodies <- MCBodies
  MaxRequests = 3
  MaxObjects = 8
SPECIFICATION Spec
INVARIANTS
  TypeOK
  Apart
PROPERTIES
  ScenesStay
  OffKeepsHue
SYMMETRY MCSymmetry
CHECK_DEADLOCK FALSE
