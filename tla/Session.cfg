SPECIFICATION Spec
CONSTANTS
  NULL = NULL
  Server = {s1, s2}
  Counts = {0, 1}
  MaxEpoch = 2
INVARIANTS
  TypeOK
  ReadyIsComplete
  InfoFromOneAnswer
  SettingsOfTheProgram
PROPERTIES
  CallsReturn
  InitRunsOut
