\* Two environments share one NATS server, and so one stream and one durable.
SPECIFICATION Spec
CONSTANTS
  tp1 = tp1  tp2 = tp2  np1 = np1  np2 = np2  c1 = c1  dev = dev  qa = qa
  Requests = {q1, q2}
  StreamAtStart = TRUE
  FaultKinds = {}
  MaxFaults = 0
  TasksPods = {tp1, tp2}
  MaxTasks = 1
  Users = {u1}
  Unborn = Unborn
  Deleted = Deleted
  NoPod = NoPod
  NotifierPods = {np1, np2}
  Clients = {}
  Envs = {dev, qa}
  EnvOf <- EnvOfTwo
  ClientEnv <- ClientEnvOne
  FetchSize = 2
  ChanCap = 1
  NoReplica = NoReplica
INVARIANTS
  EnvIsolation
CHECK_DEADLOCK FALSE
