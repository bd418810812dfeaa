SPECIFICATION FairSpec
CONSTANTS
  Pid = {p1, p2, p3, p4}
  Calls = {"execute", "execute_stdin", "background"}
  Faults = TRUE
  MaxLines = 2
  Capacity = 1
  StdinLines = 2
  MaxFiles = 3
  MaxDaemons = 2
  Nil = Nil
INVARIANTS ProcessTypeOK ResultIsCommands PidIsDaemons NoChildLeft DiesOnlyOfFault
PROPERTIES CallReturns
CHECK_DEADLOCK FALSE
