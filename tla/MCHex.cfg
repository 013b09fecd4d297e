CONSTANTS
  SegmentLen = 107
  FirstBytes <- MCFirstBytes
  Widths <- MCWidths
  Heights <- MCHeights
  PAGE_JUMP_SIZE = 20
  HEX_JUMP_MARGIN = 2
  USIZE_MAX = 107
SPECIFICATION Spec
INVARIANTS PaneIsFull
PROPERTY JumpsLand
