\* One task nobody edits, every kind of failure: liveness.
SPECIFICATION FairSpec
CONSTANTS
  t1 = t1
  Tasks = {t1}
  s1 = s1
  s2 = s2
  Servers = {s1, s2}
  r1 = r1
  r2 = r2
  Runners = {r1, r2}
  Repeating = {}
  LockIds = {1}
  MaxConcurrent = 1
  MaxAttempts = 2
  MaxGitRetries = 1
  MaxZombieRetries = 1
  HeartbeatInterval = 1
  ZombieTimeout = 1
  Kubernetes = TRUE
  FaultKinds = {"crash", "drop", "dispatch", "wrapup", "retry", "lapse", "stalledpass", "shutdown"}
  NoServer = NoServer
  NoTask = NoTask
  MaxFaults = 2
  MaxEdits = 0
PROPERTY EventuallySettles
