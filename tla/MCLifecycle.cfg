SPECIFICATION FairSpec
CONSTANTS
  Grace = 2
  DrainSlack = 1
  Delays = {1}
  Far = 3
INVARIANTS TypeOK EndedIsOff MarkIffPlanned
PROPERTIES  LeftEnds EndingEnds
CHECK_DEADLOCK TRUE
