SPECIFICATION Spec
CONSTANTS
  Jobs <- AllJobs
  Usize = 65536
  I32 = 4096
  GarbageBits <- SomeBits
  GarbageCounts <- SomeCounts
  Counts = {0, 8, 17}
  Lengths = {0, 1, 7, 12, 30}
  Second = 3
  Minute = 2
  Hour = 4
  Day = 12
INVARIANTS FieldsAreWritten TimestampIsRight NamedIsShown EveryElementCounted LinesAreBounded CursorInPayload
