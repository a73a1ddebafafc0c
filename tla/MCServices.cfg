SPECIFICATION ServicesSpec
CONSTANTS
  \* endpoints
  Triggers = {t1}
  Sources = {jira, github}
  Requests = {r1, r2}
  Pass = pass
  MaxTokens = 2
  MaxCloudFaults = 1
  MaxConnects = 1
  MaxRequests = 2
  \* client
  MaxEvictions = 2
  MaxGrants = 2
  MaxRotations = 2
  MaxDrops = 3
  \* delivery
  Relayed = {m1}
  Direct = {e1, e2}
  Loop = loop
  MaxTroubles = 2
  \* locks
  Replicas = {a, b, c}
  Nothing = nothing
  \* reconcile
  Files = {f1, f2}
  Namesakes = {f1}
  MaxVersions = 3
  MaxFaults = 2
  \* refresher
  Paths = {p1}
  Sizes = {1, 2}
  RefreshInterval = 2
  TokenLife = 4
  Grace = 1
  Overdue = 3
  MaxDirtyAge = 4
  MaxBlips = 2
  \* context
  Answers <- SomeAnswers
  ContextLimit = 5
  TrimTarget = 4
  KeepRecent = 3
  ShotsKept = 1
  BackoffCap = 3
  MaxHistory = 10
  MaxRestarts = 1
  \* runner
  KnownTools = {k1}
  Suffixed = {s1}
  ToolCalls = {ca, cb}
  Digests = {x, y}
  MaxAgentRetries = 2
  HarmonyCap = 1
  NudgeLimit = 2
  StallLimit = 3
  MaxTurns = 4
  \* tools
  Callers = {c1, c2, c3}
  EditedFiles = {f1}
  MaxExpiries = 2
  MaxEdits = 3
  \* callback
  MaxAttempts = 2
  MaxMishaps = 3
  \* pod
  Drift = 2
  Pad = 2
  MaxResumes = 2
  MaxBarren = 1
  MaxLines = 3
  MaxStamp = 4
  MaxGlitches = 2
INVARIANTS
  ServicesTypeOK
  CloudIsOwned  StoredTokenUsable OneTaskPerIssue OneLease
  BootIsSafe WatchIsHonest ContextIsTrue StallIsSeen ToolsShare
  OutputsFindTheirAttempt 
PROPERTIES ClientSettles RelayedIsDispatched RunnerExits
CHECK_DEADLOCK FALSE
