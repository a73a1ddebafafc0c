\* Two replicas that may hash different lock ids, crash and lose sessions;
\* heartbeats are written in time and nobody edits.
SPECIFICATION Spec
CONSTANTS
  t1 = t1
  t2 = t2
  Tasks = {t1, t2}
  s1 = s1
  s2 = s2
  Servers = {s1, s2}
  r1 = r1
  r2 = r2
  Runners = {r1, r2}
  Repeating = {t1}
  LockIds = {1, 2}
  MaxConcurrent = 1
  MaxAttempts = 2
  MaxGitRetries = 1
  MaxZombieRetries = 1
  HeartbeatInterval = 1
  ZombieTimeout = 1
  Kubernetes = FALSE
  FaultKinds = {"crash", "drop", "dispatch", "retry"}
  NoServer = NoServer
  NoTask = NoTask
  MaxFaults = 2
  MaxEdits = 0
SYMMETRY Interchangeable
INVARIANTS TypeOK SingleExecution OwnedWhileRun OneOccurrence
PROPERTY ImplementsTaskService
