SPECIFICATION Spec
CHECK_DEADLOCK FALSE
CONSTANTS
  TsMod = 8
  Extended = 3
  Csids = {2, 3, 4, 6}
  MaxStreams = 4
  MaxPending = 8
  Sizes = {1, 2}
  Starts = {7}
  MaxWire = 1
  MaxMedia = 3
  MaxOdd = 1
  SmallMessage = 1
  Steps <- StepsMC
INVARIANTS
  NeverRefused
  EndIsTold
PROPERTIES
  ImplementsChannel
