SPECIFICATION Spec
CHECK_DEADLOCK FALSE
CONSTANTS
  Half = 1
  SlateWait = 1
  ReplayGap = 0
  Margin = 1
  MaxDelay = 5
  Headroom = 1
  RamCap = 20
  Lead = 0
  KeyInterval = 1
  MuteUnderSlate = TRUE
  Restore = TRUE
  Initial = 5
  Keep = {TRUE}
  SetDelays = {1}
  Modes = {"Mask"}
  Acts = {"SetDelay", "Stop"}
  Kinds = {"key"}
  Backlog = 1
  Rate = 1
  MaxNow = 6
  MaxCount = 4
  MaxSessions = 2
  MaxOps = 1
INVARIANTS
  LoweredInFull
