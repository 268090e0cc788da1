\* The switch, a service and a type preference, and a mute rule.
CONSTANTS
  s1 = s1  t1 = t1  r1 = r1
  NULL = NULL
  Services = {s1}
  Types = {t1}
  ServiceOf <- One
  Severities = {1, 2}
  ServiceSettings <- Settings
  Rules <- MuteRules
  RuleIds = {r1}
  TTL = 1
  MaxLoad = 1
SPECIFICATION Spec
INVARIANTS TypeOK SilenceTakesEffect SilenceEnds
