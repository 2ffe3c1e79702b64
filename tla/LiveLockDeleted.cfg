SPECIFICATION Spec
CONSTANTS
  ralph = ralph
  Calls = {add, push}
  ProcOf <- OneProcess
  Repeatable = {add}
  Pushes = {push}
  Gits = {g}
  Files = {f1, f2}
  StaleAge = 1
  Patience = 2
  None = None
INVARIANT
  LiveLockIsKept
CHECK_DEADLOCK FALSE
