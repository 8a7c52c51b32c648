SPECIFICATION Spec
CHECK_DEADLOCK FALSE
CONSTANTS
  Half = 1
  SlateWait = 1
  ReplayGap = 0
  Margin = 1
  MaxDelay = 1
  Headroom = 1
  RamCap = 3
  Lead = 0
  KeyInterval = 1
  MuteUnderSlate = TRUE
  Restore = TRUE
  Initial = 1
  Keep = {TRUE, FALSE}
  SetDelays = {0}
  Modes = {"Rewind", "Mask"}
  Acts = {"Stop", "End", "Slow", "Lose"}
  Kinds = {"key", "delta"}
  Backlog = 1
  Rate = 1
  MaxNow = 4
  MaxCount = 3
  MaxSessions = 2
  MaxOps = 2
INVARIANTS
  Decodable
  NothingAfterTheEnd

  
