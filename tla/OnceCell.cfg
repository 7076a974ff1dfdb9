CONSTANTS
  Null = Null
  Tasks = {t1, t2, t3}
SPECIFICATION CellFairSpec
INVARIANT InitialisedOnce
PROPERTY CallEnds
