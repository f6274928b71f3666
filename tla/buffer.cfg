SPECIFICATION FairSpec
CONSTANTS
  Writers = {w1}
  Stoppers = {s1}
  Drains = {d1, d2}
  Free = Free
  MaxFrames = 2
  MaxResizes = 1
  InitSizes <- ConstructorSizes
  ResizeSizes <- ResizedSizes
  SenderFails = TRUE
INVARIANTS
  SingleDrain
  StopQuiesces
  Conservation
  FIFO
PROPERTIES
  StopReturns
CHECK_DEADLOCK FALSE
