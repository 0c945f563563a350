\* Two users and one slow call of the Kubernetes API.
SPECIFICATION Spec
CONSTANTS
  Questions = {q1, q2}
  Commands <- MCCommands
  SignatureWindow = 1
  Pods = {p1}
  Tools = {"kubectl_get", "prom_query", "restart_pods"}
  MessagesOfClaude <- MCMessages
  max_tool_iterations = 2
  FaultKinds = {"slow"}
  MaxFaults = 1
  NoPod = NoPod
  NoCommand = NoCommand
  NoAnswer = NoAnswer
INVARIANTS
  AckedInTime
CHECK_DEADLOCK FALSE
