CONSTANTS
  Null = Null
  Senders = {s1, s2}
  Cap = 1
SPECIFICATION Spec
INVARIANT DropsCleanly
CHECK_DEADLOCK FALSE
