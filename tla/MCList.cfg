SPECIFICATION Spec
CONSTANTS
  XidLists <- SmallLists
  Heights = {3, 4, 7}
  PAGE_JUMP_SIZE = 2
  FIRST_NORMAL_TRANSACTION_ID = 3
INVARIANTS SelectedIsShown WindowIsFull GraphIsExact KeysFollowGraph
PROPERTIES WindowMovesByNeed
