\* One environment, two pods of each service, one browser, every kind of failure.
SPECIFICATION Safety
SYMMETRY Symmetric
CONSTANTS
  tp1 = tp1  tp2 = tp2  np1 = np1  np2 = np2  c1 = c1  dev = dev  qa = qa
  Requests = {q1, q2}
  StreamAtStart = FALSE
  FaultKinds = {"crash", "ack", "slow", "addStream", "tasksDb", "publish", "subscribe", "insert"}
  MaxFaults = 2
  TasksPods = {tp1, tp2}
  MaxTasks = 1
  Users = {u1}
  Unborn = Unborn
  Deleted = Deleted
  NoPod = NoPod
  NotifierPods = {np1, np2}
  Clients = {c1}
  Envs = {dev}
  EnvOf <- EnvOfOne
  ClientEnv <- ClientEnvOne
  FetchSize = 2
  ChanCap = 1
  NoReplica = NoReplica
INVARIANTS
  TypeOK
  PublishedAreCommitted
  PublishedOnce
  RealTimeOrder
  ShownArePersisted
  AckedAreAccounted
  DuplicatesAreRedeliveries
  StreamOrderPerConnection
CHECK_DEADLOCK FALSE
