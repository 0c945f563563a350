\* Two calls, two pods and one name for a third, two commits, one failure.
SPECIFICATION Spec
SYMMETRY CallSymmetry
CONSTANTS
  Fixtures <- MCFixtures
  Namespaces = {"dev", "argocd"}
  Names = {"n1", "n2", "n3"}
  Selectors = {"web", "db"}
  None = None
  Credentials <- MCCredentials
  EventCap = 2
  LineCap = 2
  Calls = {c1, c2}
  Tags = {t1}
  MaxCommits = 2
  PodNames = {"n1", "n2", "n3"}
  FirstPods = {"n1", "n2"}
  MaxFaults = 1
INVARIANTS
  TypeOK
  RestartAccounts
  TagIsAsReported
  LokiShowsNewest
  GetIsExact
  EventsAreNewest
CHECK_DEADLOCK FALSE
