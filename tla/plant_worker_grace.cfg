SPECIFICATION Spec
CONSTANTS
  Requests = {r1, r2}
  ShutdownGrace = 3
  Backoff = 30
  CancelLag = 10
  MaxFaults = 1
INVARIANT
  GraceKeepsResponses
