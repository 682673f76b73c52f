SPECIFICATION FairSpec
CONSTANTS
  MaxCalls = 4
  MaxAttempts = 3
  SeqAttempts = 2
  Tags = 3
  MaxStrays = 2
INVARIANTS
  AnswersOwnRequest
  CancelStops
  BacklogBounded
PROPERTY
  CallsReturn
