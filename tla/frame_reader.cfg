SPECIFICATION ReaderSpec
CONSTANTS
  MaxCalls = 2
  MaxNoise = 1
  MaxFaults = 1
  FlipBits = {0, 7}
INVARIANTS
  ReturnsSentFrames
  FailsOnlyIfSpoiled
  ConsumesWholeFrame
