SPECIFICATION Spec
CONSTANTS
  Segments <- SomeSegments
  Layouts <- SomeLayouts
  SegmentLen = 21
  PAGE_JUMP_SIZE = 3
  HEX_JUMP_MARGIN = 2
  USIZE_MAX = 21
  FIRST_NORMAL_TRANSACTION_ID = 3
PROPERTIES ImplementsDetails ImplementsHex
CHECK_DEADLOCK FALSE
