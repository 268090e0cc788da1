\* Two instances, two concurrent calls, three versions.
CONSTANTS
  NULL = NULL
  Instances = {i1, i2}
  Handlers = {h1, h2}
  TTL = 2
  MaxLoad = 1
  MaxVersion = 3
SPECIFICATION FairSpec
INVARIANTS TypeOK StalenessBounded StaleOnlyIfRaced
PROPERTY EventuallyFresh
