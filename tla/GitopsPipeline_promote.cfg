\* One merge of two services, every promotion, a failure, a re-run.
SPECIFICATION Safety
CONSTANTS
  s1 = s1  s2 = s2  nightly = nightly  rc = rc  stable = stable
  Svcs = {s1, s2}
  Promotable = {s1}
  MaxCommits = 1
  Touches <- TouchAll
  Jobs = {nightly, rc, stable}
  Target <- TargetOf
  MaxAttempts = 2
  MaxTries = 2
  MaxFaults = 1
  MaxRollbacks = 0
  NoDigest = NoDigest
INVARIANTS
  DeployedAreSigned
  TagNamesDigest
  SuccessMeansLanded
  NoRunFails
PROPERTIES
  ImplementsFlow
CHECK_DEADLOCK FALSE
