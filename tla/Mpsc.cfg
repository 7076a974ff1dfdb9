CONSTANTS
  Null = Null
  Senders = {s1, s2}
  Cap = 2
SPECIFICATION FairSpec
INVARIANTS
  NeverPanics
  ReceiverWoken
PROPERTIES
  ImplementsChannel
  RecvReturns
\* The channel ends when its handles are dropped.
CHECK_DEADLOCK FALSE
