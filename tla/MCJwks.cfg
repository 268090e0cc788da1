\* Two keys in rotation, two requests and the background task.
CONSTANTS
  k1 = k1  k2 = k2  r1 = r1  r2 = r2  background = background
  Keys = {k1, k2}
  Requests = {r1, r2}
  Background = background
  Interval = 2
  MaxFetch = 1
  MaxFailures = 1
SPECIFICATION Spec
SYMMETRY JwksSymmetry
INVARIANTS TypeOK LagBounded
PROPERTIES OfferedKeyKept OfferedKeyAccepted
