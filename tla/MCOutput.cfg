SPECIFICATION Spec
CHECK_DEADLOCK FALSE
CONSTANTS
  Streams <- EncoderStreams
  Bursts <- EncoderBursts
  Numbers = 4
  SpsSets <- EncoderSets
  Frame = 2
  Pauses = {1}
  Backlog = 1
  MaxJumps = 1
  MaxHeld = 1
  MaxBreaks = 1

  
PROPERTIES
  ConfigInEffect
  InStep
  NeverBack
