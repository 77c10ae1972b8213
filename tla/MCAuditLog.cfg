SPECIFICATION Spec
CONSTANTS
  Total = 5
  Newline <- MCNewline
  Stamp <- MCStamp
  MaxPending = 2
  MaxSize = 4
  Buffer = 2
  None = None
  Torn = Torn
  Active = Active
  Calls = {c, d}
  TailBytes = 2
  Since = 1
  MaxRead = 2
  MaxDay = 1
  MaxMishaps = 1
  MaxRequests = 4
  MaxBefore = 1
SYMMETRY Symmetry
INVARIANTS TypeOK NothingLost LinesStayWhole ChunkIsTrue PassedWasDelivered
PROPERTIES GapsCoverRemovals
CHECK_DEADLOCK FALSE
