SPECIFICATION FairSpec
CONSTANTS
  Offer = {1, 2}
  Fetch = {1, 2}
  None = None
  Size = 3
  Buffer = 2
  Window = 2
  Pools <- MCPools
  Together <- MCTogether
INVARIANTS TypeOK Intact WholeOrCutShort
PROPERTIES Delivered FetchesEnd
CHECK_DEADLOCK FALSE
