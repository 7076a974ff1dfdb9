CONSTANTS
  Null = Null
  Tasks = {t1, t2, t3}
SPECIFICATION FairSpec
INVARIANTS
  TypeOK
  MutualExclusion
  WordTellsOwner
  NeverPanics
  NoWaiterLost
  NoDanglingWaiter
PROPERTIES
  ImplementsFairLock
  WaiterServed
  DropReturns
