SPECIFICATION ServerSpec
CONSTANTS
  \* drafts: three requests at once, two rounds
  Requests = {q1, q2, q3}
  MaxRounds = 2
  NoRequest = norequest
  \* logs: two attempts, a buffer shorter than the lines
  BufferMax = 2
  FaultKinds = {"publish", "push", "sentinel", "delete", "abort", "crash", "lrange"}
  MaxLines = 3
  MaxStarts = 2
  MaxFaults = 2
  \* providers
  Ports = {1, 2}
  Providers = {p1, p2, p3}
  EnvProvider = p1
  Pooled = p2
  NoProvider = none
  OwnModel = own
  MaxScans = 2
  MaxAsked = 3
  MaxWhims = 1
  \* plugins
  Admins = {1, 2}
  MaxVersion = 2
  MaxInstalls = 2
  MaxPatches = 2
  MaxWoes = 1
  \* preparation
  Workers = {w1, w2}
  MaxLimit = 2
  MaxChanges = 2
  MaxFlops = 1
  \* grants
  MaxTimeout = 2
  OurTimeout = 1
  LocalTimeout = 3
  \* mail
  Mails = {i1}
  Pollers = {l1, l2}
  MaxUnreads = 2
  MaxJams = 2
  \* tokens
  Drives = {d1, d2}
  Askers = {c1, c2}
  NoToken = notoken
  Nobody = nobody
  MaxCalls = 3
  \* tunnel
  Channels = {ch1, ch2}
  MaxLinks = 2
  MaxMessages = 3
  MaxHitches = 1
  \* evals
  Drivers = {v1, v2}
  NumModels = 2
  Reps = 1
  MaxSlips = 1
INVARIANTS
  ServerTypeOK
  OneTaskPerDraft AsksWithinCap ReplayMeetsLive
     
   DisconnectedStaysSo SubscribedIsForwarded 
PROPERTIES AnswersKept DraftsClose ListenersAreTold
CHECK_DEADLOCK FALSE
