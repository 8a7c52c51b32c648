SPECIFICATION FairSpec
CONSTANTS
  Acts = {"Lose","Blind","Stop","Abort","Timeout","End"}
  Batch = 2
  OsHolds = 2
  HeldAtMost = 2
  Kept = 4
  MaxBacklog = 2
  MaxMade = 2
  MaxGen = 2
  MaxCut = 1
  MaxStarts = 2
CHECK_DEADLOCK FALSE
INVARIANTS
  BacklogIsQueued
  AnswerIsTrue
  HandedOverIsQueued
  
PROPERTIES
  ImplementsOutlet
  DumpAnswered
