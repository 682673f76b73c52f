SPECIFICATION FairSpec
CONSTANTS
  Plants = {p1, p2}
  Levels = {"Min", "Max"}
  MaxChanges = 2
  MaxHostBits = 2
  Scanners = {w1, w2}
  Serials = {1}
  MaxReplies = 1
  MaxSignals = 2
  MaxStarts = 2
INVARIANTS
  ScanComplete
  TableFaithful
  LiveMatchesSaved
  LeavesNothingBehind
PROPERTIES
  ProcessEnds
  SecondSignalExits
