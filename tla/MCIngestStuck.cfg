\* One message, one processor, one failure; refutes ProcessedThenRemoved.
CONSTANTS
  m1 = m1  m2 = m2  k1 = k1
  NULL = NULL
  Msgs = {m1}
  Keys = {k1}
  KeyOf <- Alone
  Workers = {w1}
  MaxDeliver = 3
  MaxFailures = 1
CHECK_DEADLOCK FALSE
SPECIFICATION Spec
INVARIANT ProcessedThenRemoved
