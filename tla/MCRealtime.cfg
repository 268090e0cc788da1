\* Two clients, one prompt and one slow; one instance.
CONSTANTS
  n1 = n1  n2 = n2  s1 = s1  s2 = s2  i1 = i1  i2 = i2  c1 = c1  c2 = c2
  Ids = {n1, n2}
  Services = {s1, s2}
  ServiceOf <- TwoServices
  Instances = {i1}
  MaxStatements = 2
  Subscribers = {c1, c2}
  Host <- Hosts
  ServiceFilter <- Filters
  WithStates = {c1}
  Prompt = {c1}
  BufferSize = 2
  ChannelSize = 1
  MaxFailures = 1
SPECIFICATION FairSpec
INVARIANT TypeOK
PROPERTIES ImplementsFeed MissedOnlyIfLost HeardUnlessLost RelayEnds
CHECK_DEADLOCK FALSE
