CONSTANTS
  Cap = 2
  MaxPuts = 2
SPECIFICATION FairSpec
PROPERTY
  AvailableItemUnblocks
CHECK_DEADLOCK FALSE
