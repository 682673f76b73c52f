SPECIFICATION FairSpec
CONSTANTS
  s1 = s1
  s2 = s2
  SubInverters <- Subs
  Unlisted = Unlisted
  Blank = Blank
  MaxLines = 3
INVARIANTS
  ErrorCascade
  RoutesToNamedInverter
  ReleasesEverything
PROPERTY
  CancelledReturns
