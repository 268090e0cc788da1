\* A level changed twice; two messages, two failures.
CONSTANTS
  TTL = 2
  MaxLoad = 1
  MaxVersion = 3
  MaxMessages = 2
  MaxFailures = 2
SPECIFICATION Spec
INVARIANTS TypeOK FoundByProcessor
PROPERTIES SentOnlyIfAllowed SeverityBounded
