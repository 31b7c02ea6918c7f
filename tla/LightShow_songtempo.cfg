\* A StartSong list arrives. The process may crash or exit.
CONSTANTS
  Tempos <- MCOneTempo
  Tasks = {t1, t2}
SPECIFICATION Spec
INVARIANT
  TempoIsReported
SYMMETRY MCSymmetry
CHECK_DEADLOCK FALSE
