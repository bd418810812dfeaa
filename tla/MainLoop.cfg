SPECIFICATION FairSpec
CONSTANTS
  Fd = {3, 4, 5, 6}
  MaxWaiting = 1
  Nil = Nil
INVARIANTS LoopTypeOK TableMatches NeverBlocks AcceptFailsOnlyAtLimit
PROPERTIES ServedUnlessMoved
CHECK_DEADLOCK FALSE
