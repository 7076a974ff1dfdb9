CONSTANTS
  Null = Null
  w1 = w1
  w2 = w2
  w3 = w3
  w4 = w4
  q0 = q0
  q1 = q1
  Waiters <- MCWaiters
  Queues <- MCQueues
  QueueOf <- MCQueueOf
  Futexes = {f1, f2}
  Reuse = FALSE
SPECIFICATION ListSpec
INVARIANTS
  DebugAssertions
  NothingLeftBehind
PROPERTY ImplementsFutexQueues
