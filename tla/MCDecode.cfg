SPECIFICATION Spec
CONSTANTS
  SIZE_OF_XLOG_RECORD = 24
  BLCKSZ = 8
  Items <- AllItems
  Lengths <- AnyLength
  Written <- Assembled
  Splits <- AllSplits
CHECK_DEADLOCK FALSE
INVARIANTS RangesInRecord PayloadsFit PartsTile OverlayIsExact IntactDecodes
