\* Two rows competing for passes of one row, one server instance, a pass cut off.
CONSTANTS
  n1 = n1  n2 = n2  u1 = u1  u2 = u2  s1 = s1  t1 = t1  i1 = i1  i2 = i2
  NULL = NULL
  Ids = {n1, n2}
  Users = {u1}
  Services = {s1}
  Types = {t1}
  Recipient <- OneRecipient
  ServiceOf <- OneService
  TypeOf <- OneType
  TypeConfigs <- DueForAll
  Instances = {i1}
  BatchSize = 1
  SnoozeOffsets <- PastAndFuture
  MaxTime = 1
  MaxFailures = 1
SPECIFICATION FairSpec
INVARIANT RemindersWithinCount
PROPERTIES EscalationCountMonotone DueSnoozeEnds DueRowExpires DueEscalationAdvances
