SPECIFICATION CliFairSpec
CONSTANTS
  Sizes = {0, 1, 128}
  ReplySizes = {0, 1}
  MaxMessages = 3
  MaxReplies = 2
  Room = 1
  Pieces = {50, 127}
  Nil = Nil
INVARIANTS CliTypeOK NothingSkipped RepliesExact
PROPERTIES ImplementsChannel MessageArrives RepliesLeave
CHECK_DEADLOCK FALSE
