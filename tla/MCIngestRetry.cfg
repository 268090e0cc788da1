\* A message and its retry, fewer failures than deliveries.
CONSTANTS
  m1 = m1  m2 = m2  k1 = k1
  NULL = NULL
  Msgs = {m1, m2}
  Keys = {k1}
  KeyOf <- Retried
  Workers = {w1, w2}
  MaxDeliver = 3
  MaxFailures = 2
CHECK_DEADLOCK FALSE
SPECIFICATION FairSpec
INVARIANTS TypeOK AcceptedIsKept
PROPERTIES ImplementsMailbox AcceptedIsStored
