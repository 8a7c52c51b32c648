SPECIFICATION Spec
CHECK_DEADLOCK FALSE
CONSTANTS
  Half = 1
  SlateWait = 1
  ReplayGap = 0
  Margin = 1
  MaxDelay = 3
  Headroom = 1
  RamCap = 20
  Lead = 0
  KeyInterval = 1
  MuteUnderSlate = TRUE
  Restore = TRUE
  Initial = 2
  Keep = {TRUE}
  SetDelays = {1, 3}
  Modes = {"Rewind"}
  Acts = {"SetDelay"}
  Kinds = {"key"}
  Backlog = 1
  Rate = 1
  MaxNow = 6
  MaxCount = 4
  MaxSessions = 1
  MaxOps = 2
PROPERTIES
  SkippedNeverShown
