CONSTANTS
  Recorded <- MCRecorded
  EventLimit = 3
SPECIFICATION EventsSpec
INVARIANTS
  ToldAsRecorded
  AllCounted
