CONSTANTS
  Null = Null
  c = c
  m = m
  w1 = w1
  w2 = w2
  v1 = v1
  v2 = v2
  Waiters <- MCWaiters
  Wakers <- MCWakers
  Uncancellable <- MCUncancellable
  Futexes <- MCFutexes
  Target <- MCTarget
SPECIFICATION FairSpec
INVARIANTS
  WakeFindsWaker
  LinkedOnceWhileAsleep
  OwnerLeadsToList
  ClonesAccountedFor
  LatestWakerIsCalled
PROPERTIES
  OrderKept
  WokenReturns
