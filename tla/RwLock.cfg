CONSTANTS
  Null = Null
  Tasks = {t1, t2, t3, t4}
  Half = 5
SPECIFICATION FairSpec
INVARIANTS
  Exclusion
  CountsMatch
  NeverPanics
  WaitersHaveLeader
PROPERTIES
  WriterServed
  ReaderServed
\* A write future dropped while it waits may leave the lock taken for ever.
CHECK_DEADLOCK FALSE
