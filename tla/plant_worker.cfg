SPECIFICATION FairSpec
CONSTANTS
  Requests = {r1, r2}
  ShutdownGrace = 3
  Backoff = 30
  CancelLag = 10
  MaxFaults = 2
INVARIANTS
  OneTransaction
  SessionEndsWithCycle
  CleanExit
PROPERTIES
  QuietBetweenCycles
  CancelledNeverAnswers
  ShutdownCompletes
  PanicRestarts
