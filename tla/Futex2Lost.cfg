CONSTANTS
  Null = Null
  Tasks = {t1, t2, t3}
  Calls = 1
  Half = 4
SPECIFICATION FairSpec
PROPERTY LockReturns
\* Every task makes its calls and stops.
CHECK_DEADLOCK FALSE
