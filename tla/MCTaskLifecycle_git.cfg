\* A task whose skills repository cannot be read.
SPECIFICATION Spec
CONSTANTS
  t1 = t1
  Tasks = {t1}
  s1 = s1
  s2 = s2
  Servers = {s1, s2}
  r1 = r1
  r2 = r2
  Runners = {r1, r2}
  Repeating = {}
  LockIds = {1}
  MaxConcurrent = 1
  MaxAttempts = 2
  MaxGitRetries = 2
  MaxZombieRetries = 1
  HeartbeatInterval = 1
  ZombieTimeout = 1
  Kubernetes = FALSE
  FaultKinds = {}
  NoServer = NoServer
  NoTask = NoTask
  MaxFaults = 0
  MaxEdits = 0
PROPERTY GitNeverFailed
