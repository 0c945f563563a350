\* Two tabs and two accounts.
SPECIFICATION Spec
SYMMETRY PageSymmetry
CONSTANTS
  Emails = {e1, e2}
  Passwords = {p}
  Tabs = {t1, t2}
  Calls = {c1, c2}
  MaxUsers = 2
  MaxTokens = 2
  MaxTasks = 2
  ListLimit = 1
  MaxFaults = 1
  NoUser = NoUser
  NoTab = NoTab
  NoTask = NoTask
  NoEmail = NoEmail
CONSTRAINTS
  TwoTasksAlone
  FailureApart
INVARIANTS
  TypeOK
  OneAccount
  IdentityShown
  CalmPageIsCurrent
PROPERTIES
  ChangedByItsOwner
CHECK_DEADLOCK FALSE
