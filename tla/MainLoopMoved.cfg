SPECIFICATION Spec
CONSTANTS
  Fd = {3, 4, 5, 6}
  MaxWaiting = 1
  Nil = Nil
INVARIANTS OnlyReady
CHECK_DEADLOCK FALSE
