SPECIFICATION FairSpec
CONSTANTS
  ralph = ralph
  Calls = {add, push}
  ProcOf <- OneProcess
  Repeatable = {add}
  Pushes = {push}
  Gits = {g}
  Files = {f1, f2}
  StaleAge = 1
  Patience = 2
  None = None
INVARIANTS
  TypeOK
  OneGitAtATime
  AnswerMatchesEffect
PROPERTY
  EveryCallReturns
CHECK_DEADLOCK FALSE
