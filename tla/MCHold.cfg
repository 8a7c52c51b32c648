SPECIFICATION Spec
CHECK_DEADLOCK FALSE
CONSTANTS
  Half = 1
  SlateWait = 1
  ReplayGap = 0
  Margin = 1
  MaxDelay = 2
  Headroom = 1
  RamCap = 20
  Lead = 0
  KeyInterval = 1
  MuteUnderSlate = TRUE
  Restore = TRUE
  Initial = 1
  Keep = {TRUE}
  SetDelays = {1}
  Modes = {"Mask"}
  Acts = {"Dump"}
  Kinds = {"key"}
  Backlog = 1
  Rate = 1
  MaxNow = 6
  MaxCount = 4
  MaxSessions = 1
  MaxOps = 2
INVARIANTS
  HoldHasFrame
