SPECIFICATION FairSpec
CONSTANTS
  MaxDay = 2
  MaxLines = 2
  MaxFaults = 1
  NoDay = NoDay
INVARIANTS
  NoLineSkipped
  NoTextDuplicated
PROPERTIES
  CursorAdvances
  EventuallyStreamed
