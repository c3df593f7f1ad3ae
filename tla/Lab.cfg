SPECIFICATION Spec
CONSTANTS
  MaxBuilds = 3
  MaxUserBuilds = 1
  MaxSessions = 2
  MaxNewBuilds = 2
  MinBuilds = 1
  Window = 2
INVARIANTS
  HalfConfiguredIsPaused
  RerunCompletes
  SettingsRestored
  OneRequestQueued
PROPERTIES
  EarlierBuildsStay
  ToolEnds
