SPECIFICATION FairSpec
CONSTANTS
  Callers = {a, b, c}
  ReadDelay = 1
  WriteDelay = 4
INVARIANT
  NeverOverlap
PROPERTIES
  WritesSpaced
  CancelledLetGo
  QueueMoves
