SPECIFICATION Spec
CONSTANTS
  Pid = {p1, p2, p3, p4}
  Calls = {"background"}
  Faults = FALSE
  MaxLines = 0
  Capacity = 1
  StdinLines = 0
  MaxFiles = 3
  MaxDaemons = 3
  Nil = Nil
INVARIANTS BackgroundReturns
