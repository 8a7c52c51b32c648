SPECIFICATION Spec
CHECK_DEADLOCK FALSE
CONSTANTS
  Half = 1
  SlateWait = 1
  ReplayGap = 0
  Margin = 1
  MaxDelay = 2
  Headroom = 2
  RamCap = 20
  Lead = 0
  KeyInterval = 1
  MuteUnderSlate = TRUE
  Restore = TRUE
  Initial = 1
  Keep = {TRUE}
  SetDelays = {2}
  Modes = {"Rewind"}
  Acts = {"Dump", "Slate", "Slow", "Lose"}
  Kinds = {"key", "delta", "audio"}
  Backlog = 1
  Rate = 1
  MaxNow = 4
  MaxCount = 3
  MaxSessions = 1
  MaxOps = 2
INVARIANTS
  Decodable
PROPERTIES
  NeverEarly
  NothingDoomedAirs
  SoundNeverEarly
