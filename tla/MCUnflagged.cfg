SPECIFICATION LiveSpec
CONSTANTS
  Blcksz = 16
  ShortHdr = 6
  LongHdr = 10
  RecHdr = 6
  MaxAlign = 2
  PagesPerSegment = 4
  SegNo = 1
  Tli = 1
  XLOG_RECORD_MAX_SIZE = 60
  Layouts <- DamagedDescriptors
CHECK_DEADLOCK FALSE
INVARIANTS DamagedRecordIsFlagged
