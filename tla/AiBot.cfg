\* Two users, a rolling update, every kind of failure.
SPECIFICATION Spec
CONSTANTS
  Questions = {q1, q2}
  Commands <- MCCommands
  SignatureWindow = 1
  Pods = {p1, p2}
  Tools = {"kubectl_get", "prom_query", "restart_pods"}
  MessagesOfClaude <- MCMessages
  max_tool_iterations = 2
  FaultKinds = {"slow", "hang", "claude", "late", "slack", "crash", "rollout"}
  MaxFaults = 2
  NoPod = NoPod
  NoCommand = NoCommand
  NoAnswer = NoAnswer
INVARIANTS
  TypeOK
  ConversationWellFormed
  SummaryIsTrue
  FollowUpsAreDue
PROPERTIES
  ToolErrorsReachClaude
  EveryQuestionResolved
  ImplementsDesk
CHECK_DEADLOCK FALSE
