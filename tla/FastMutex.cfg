CONSTANTS
  Null = Null
  Tasks = {t1, t2, t3, t4, t5}
SPECIFICATION FairSpec
INVARIANTS
  MutualExclusion
  NeverPanics
  WaitersCounted
  FreeLockIsComing
PROPERTY LockTakenAgain
\* A lock future dropped while it waits may leave the lock held for ever.
CHECK_DEADLOCK FALSE
