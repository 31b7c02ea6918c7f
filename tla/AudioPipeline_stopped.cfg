\* stopAudio after PdBase.process has failed.
CONSTANT
  MaxWrappers = 2
SPECIFICATION Spec
INVARIANT
  StoppedIsQuiet
