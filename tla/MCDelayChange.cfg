SPECIFICATION Spec
CHECK_DEADLOCK FALSE
CONSTANTS
  Half = 1
  SlateWait = 2
  ReplayGap = 1
  Margin = 1
  MaxDelay = 2
  Headroom = 2
  RamCap = 20
  Lead = 0
  KeyInterval = 1
  MuteUnderSlate = TRUE
  Restore = TRUE
  Initial = 1
  Keep = {TRUE}
  SetDelays = {0, 2}
  Modes = {"Rewind", "Mask"}
  Acts = {"SetDelay", "Now", "AfterAir", "Cancel", "Slate", "Keep"}
  Kinds = {"key", "delta"}
  Backlog = 1
  Rate = 1
  MaxNow = 5
  MaxCount = 5
  MaxSessions = 1
  MaxOps = 2
INVARIANTS
  TypeOK
  SlateWhileCovered
  Decodable
  DelayReached
PROPERTIES
  NeverEarly
  MaskHidesJump
