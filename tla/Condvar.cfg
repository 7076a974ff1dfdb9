CONSTANTS
  Null = Null
  Tasks = {t1, t2, t3, t4}
SPECIFICATION FairSpec
INVARIANT WaiterKept
PROPERTY NotifiedReturns
\* Every task may wait, and nobody is left to notify.
CHECK_DEADLOCK FALSE
