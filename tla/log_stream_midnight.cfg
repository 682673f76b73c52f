SPECIFICATION Spec
CONSTANTS
  MaxDay = 1
  MaxLines = 2
  MaxFaults = 1
  NoDay = NoDay
INVARIANT
  NoTextMissedAcrossMidnight
