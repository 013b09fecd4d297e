SPECIFICATION Spec
CONSTANTS
  Jobs <- UnreadJobs
  Usize = 65536
  I32 = 4096
  GarbageBits <- SomeBits
  GarbageCounts <- SomeCounts
  Counts = {0, 2}
  Lengths = {1}
  Second = 3
  Minute = 2
  Hour = 4
  Day = 12
INVARIANT FieldsAreWritten
