SPECIFICATION Spec
CONSTANTS
  Requests = {r1, r2}
  ShutdownGrace = 3
  Backoff = 1
  CancelLag = 10
  MaxFaults = 2
INVARIANT
  OneTransaction
