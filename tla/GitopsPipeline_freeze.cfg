\* A release tag is pushed before the nightly promotion.
SPECIFICATION Safety
CONSTANTS
  s1 = s1  s2 = s2  nightly = nightly  rc = rc  stable = stable
  Svcs = {s1}
  Promotable = {s1}
  MaxCommits = 2
  Touches <- TouchAll
  Jobs = {nightly, rc, stable}
  Target <- TargetOf
  MaxAttempts = 2
  MaxTries = 1
  MaxFaults = 0
  MaxRollbacks = 0
  NoDigest = NoDigest
INVARIANTS
  FreezePointer
CHECK_DEADLOCK FALSE
