\* Two merges of one service, two promotions, a pin by hand.
SPECIFICATION Spec
CONSTANTS
  s1 = s1  s2 = s2  nightly = nightly  rc = rc  stable = stable
  Svcs = {s1}
  Promotable = {s1}
  MaxCommits = 2
  Touches <- TouchAll
  Jobs = {nightly, rc}
  Target <- TargetOf
  MaxAttempts = 2
  MaxTries = 1
  MaxFaults = 0
  MaxRollbacks = 1
  NoDigest = NoDigest
INVARIANTS
  TypeOK
  PassedEveryStage
  NewestUnlessRaced
PROPERTIES
  EveryRunEnds
CHECK_DEADLOCK FALSE
