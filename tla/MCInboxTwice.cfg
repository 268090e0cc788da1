\* One row; refutes RemindersWithinCount.
CONSTANTS
  n1 = n1  n2 = n2  u1 = u1  u2 = u2  s1 = s1  t1 = t1  i1 = i1  i2 = i2
  NULL = NULL
  Ids = {n1}
  Users = {u1}
  Services = {s1}
  Types = {t1}
  Recipient <- OneRecipient
  ServiceOf <- OneService
  TypeOf <- OneType
  TypeConfigs <- Reminding
  Instances = {i1, i2}
  BatchSize = 1
  SnoozeOffsets <- Future
  MaxTime = 3
  MaxFailures = 0
SPECIFICATION Spec
INVARIANT RemindersWithinCount
