\* One environment, two notifier pods, crashes, lost acks, slow batches.
SPECIFICATION Spec
CONSTANTS
  tp1 = tp1  tp2 = tp2  np1 = np1  np2 = np2  c1 = c1  dev = dev  qa = qa
  Requests = {q1, q2}
  StreamAtStart = TRUE
  FaultKinds = {"crash", "ack", "slow"}
  MaxFaults = 2
  TasksPods = {tp1}
  MaxTasks = 1
  Users = {u1}
  Unborn = Unborn
  Deleted = Deleted
  NoPod = NoPod
  NotifierPods = {np1, np2}
  Clients = {}
  Envs = {dev}
  EnvOf <- EnvOfOne
  ClientEnv <- ClientEnvOne
  FetchSize = 2
  ChanCap = 1
  NoReplica = NoReplica
PROPERTIES
  PublishedEventuallyPersisted
  ImplementsBus
CHECK_DEADLOCK FALSE
