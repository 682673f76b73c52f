SPECIFICATION FairSpec
CONSTANTS
  Interval = 6
  Backoff = 30
INVARIANT
  SubscribedWhileBeating
PROPERTIES
  NoDialStorm
  KeepsBeating
  StopReturns
  ImplementsKeeper
