# A TLA+ verification of errand

errand runs tasks for people: somebody (web, Slack, e-mail, a webhook, an MCP
client) describes work, the server turns the description into a task row, a task
manager claims the row, runs an agent in a container, and moves the row according
to what the container said. Around that core stand a connection to errand-cloud,
webhooks, a mail poller, shared storage, model providers, plugins and an eval
driver. This directory models the parts whose correctness depends on the order in
which several actors reach shared state, checks the models with TLC on small
instances, and proves the central results with TLAPS for every value of the
constants.

Paths are relative to `src/errand/` unless they begin with another directory;
`PROJECT.json` maps every definition to its lines.

## 1. Inventory

| Part | State it keeps | Operations | What is hard |
|---|---|---|---|
| Task rows (`models.py`, `main.py`, `task_creation.py`) | `status`, `retry_count`, tags, `heartbeat_at`, `execute_at` | create, PATCH, DELETE | writers load a row, decide, and commit later; only two of them lock |
| Task manager (`task_manager.py`) | leader session, coroutines, semaphore, skills clone | poll, claim, prepare, run, beat, retry, escalate, clone a repeating task, stop | several replicas; unconditional writes; exceptions between commits; a semaphore replaced while it is held; one directory cloned and pulled by many |
| Scheduler, zombie cleanup (`scheduler.py`, `zombie_cleanup.py`) | two Valkey keys with a TTL | promote, archive, recover stale rows; acquire, refresh, release | select and write are apart; check-then-act on the keys |
| Container runtimes (`container_runtime.py`) | ConfigMap, Secret, Job; Docker container | create, follow the log, collect, clean; start-up sweep | a log stream that breaks and is resumed on another clock |
| Intake drafts (`clarify.py`) | a row: status, round, conversation, spec, expiry | start, answer, confirm, cancel, sweep | two front ends act on one draft; answers wait for a model |
| Live logs (`task_manager.py`, `main.py`) | Valkey channel and replay buffer, SSE connections | forward, end, delete; connect, replay, follow | publish/subscribe forgets; replay and channel overlap |
| Result callback (`main.py`, `task_manager.py`) | one-time token and output in Valkey | prepare, post, read, delete | four calls that are not one; keys outlive attempts |
| Task runner (`task-runner/`) | history, held summary, enabled tools, stall detector, locks per path, Google token | attempts, compaction, tools, submission | recoveries that begin again; a summary that must stay true; tools in parallel |
| Cloud client (`cloud_client.py`, `cloud_dispatch.py`) | WebSocket, processed ids, pending futures, subscriptions, credential | dial, register, receive, acknowledge, proxy, forward, refresh, back off | eviction, redelivery, token rotation by two refreshers |
| Cloud endpoints (`cloud_endpoints.py`, `webhook_trigger_routes.py`) | trigger rows, what the cloud holds, list of URL changes | register, revoke, repair, disconnect | two sides that must agree over lost answers and overlapping requests |
| Webhooks (`webhook_receiver.py`, `platforms/*/handler.py`) | dedup caches, `ExternalTaskRef` | receive, deduplicate, dispatch, create | three memories that all forget |
| E-mail poller (`email_poller.py`) | IMAP flags | list, fetch, create, flag | a fetch sets the flag; failures between commit and flag |
| Storage integrations (`cloud_storage.py`, `integration_routes.py`, `google_routes.py`, `workspace_refresh_auth.py`) | OAuth tokens, waiting futures, the gateway's bearer | authorise, refresh (direct or through the cloud), disconnect | a refresh in flight while its row is deleted |
| Workspace gateway (`workspace-gateway/`) | rclone's VFS cache, access token, ages of dirty files | reconcile at boot; refresh, scan, judge | a crash half way; partial scans |
| Providers (`llm_providers.py`, `local_ai_detection.py`) | provider rows, model roles, client pool | scan, discover, adopt, reap, edit, choose | a scan reads, probes for seconds, and writes |
| Plugins (`plugin_marketplace.py`, `plugin_routes.py`) | row, a directory per version | install, update, uninstall, warm, sync | files and row are two commits |
| Evals (`evals/`, tools in `mcp_server.py`) | runs, results, cloned profiles | clone, submit, await, judge, record, resume | lost answers are retried; tool errors are text; two sessions |
| Event bus, status updaters (`events.py`, `external_status_updater.py`) | none | publish, notify | fire and forget |
| Platforms, settings, authentication, telemetry, frontend, migrations | configuration | request and response | outside the concurrent core |

How they interact: everything meets in the `tasks` table (Postgres, READ
COMMITTED). The API, the drafts, webhooks, mail, the eval driver and the clone of a
repeating task insert rows; the scheduler turns `scheduled` into `pending`; the
manager claims a `pending` row with `SELECT ... FOR UPDATE SKIP LOCKED` and commits
it `running`; the coroutine it starts prepares a container, writes heartbeats and
ends by moving the row to `completed`, `review`, or back to `scheduled`; the two
sweeps move rows whose coroutine they believe dead. Valkey carries locks, logs,
events, tokens and callback results. The cloud connection brings relayed webhooks
and storage tokens, and is what the endpoints are registered over.

## 2. Modules

Every module is one component: VARIABLES, Init, one action per operation, Next,
Spec, a type invariant, properties. Where code awaits between a read and the write
that depends on it, these are two actions, and the write applies what was
computed from the read. An outside system (the cloud, IMAP, Kubernetes, rclone,
the model) is a set of free choices. Definitions marked `Wrong:` are variants of the
code that break a property; no specification uses them.

### The task lifecycle

* **`TaskLifecycle`**: the table and everybody who writes it. `status`, `retry`, `tags`
  are columns; `age` is the time since `heartbeat_at`; `chain` names the row whose
  recurrence a row continues; `rowlock` the manager that holds a row FOR UPDATE;
  `lockId` and `advisory` the advisory lock each process asks for and who has it;
  `mgr` is a replica's poll loop, `pc`/`job`/`host`/`seen` each `_run_task`
  coroutine; `zombie`, `orphan`, `archive`, `edit` are transactions that have read and not
  yet written. Caught exceptions are actions (`DispatchRollsBack`,
  `DispatchStrands`, `WrapUpFails`, `ScheduleRetryFails`, `ScheduleRetryTwice`), and so are
  `Crash`, `Shutdown`, a lost leader session and time (`Tick`, `TickWithLapse`).
  Abstracted: positions, `execute_at`, texts, events, what a container does.
* **`TaskService`** is the abstract promise: a task waits, is run by one execution at a
  time, is concluded by the execution at work and rescued only from a lost one.
  **`TaskRefinement`** maps rows and coroutines to it.
* **`TaskPreparation`**: slots of replaced semaphores, the model's provider, the shared
  skills clone, the Docker container. **`ProfileGrants`**: one question at a time
  (a skill, a server, a mount, a timeout) with everything the merge, the filters
  and the mounts look at; the answer is a function of it.
* **`ReplicaLocks`** (the two Valkey keys), **`ResultCallback`** (token and output of every
  attempt), **`PodRun`** (one Job and the following of its log), **`LogStream`** (lines
  over several attempts and one viewer), **`TaskDrafts`** (one draft, several requests).

### The runner

* **`RunnerLoop`**: attempts, nudges, Harmony and undiscovered-tool recoveries, the
  stall detector. **`RunnerContext`**: what of its history the model is shown; a
  message is its kind, size and call, a summary the messages it was made of.
  **`RunnerTools`**: parallel edits and commands, locks per path, shared refresh.

### The cloud

* **`CloudClient`**: connection, eviction, two refreshers of one rotating token, a device
  grant, a disconnect. **`CloudTunnel`**: subscriptions and their forwarders,
  proxied requests, clean-up. **`CloudEndpoints`**: triggers, the cloud's side, the
  pass after a connection, disconnecting. **`WebhookDelivery`**: one issue, several
  deliveries on two paths. **`StorageTokens`**: OAuth tokens of several drives.

### The rest

* **`CacheReconcile`**, **`GatewayRefresher`**: the workspace gateway at boot and after.
* **`LlmProviders`**, **`PluginInstalls`**, **`EmailPoller`**, **`EvalRuns`**, **`RetroJudging`**.

### Composition

`MCServices` (endpoints, client, delivery, locks, reconcile, refresher, context,
runner, tools, callback, pod) and `MCServer` (drafts, logs, providers, plugins,
preparation, grants, mail, tokens, tunnel, evals) each put modules into one
specification. The parts share no variable, so their interleavings add nothing to
what any of their properties can see: a variable `part` chooses one part that
moves, explored whole, and the others rest. Parts that do share state are modelled
inside one module (the table, for instance, with all its writers). The module
comments say what one part assumes of another: `LogStream` takes one writer at a
time, which is `SingleExecution` of `TaskLifecycle`.

## 3. Runs

| Run | Shows | States |
|---|---|---|
| `lifecycle_healthy` | `TypeOK`, `SingleExecution`, `OwnedWhileRun`, `OneOccurrence`, `ImplementsTaskService` | 2 rows (one repeating), 2 replicas, 2 coroutines, 2 lock ids, 2 failures among crash, lost session, failed dispatch, failed retry |
| `lifecycle_faulty` | `ClaimedIsPending`, `RunsFromPending`, `RetryBudget` under late heartbeats, stalled passes, undone completions, start-up sweeps and one edit | 1 row, 2 replicas, 2 failures |
| `lifecycle_settles` | `EventuallySettles` after any two failures of all eight kinds | 1 row, 2 replicas |
| `services` | the eleven parts of `MCServices` | 575,000 |
| `server` | the ten parts of `MCServer` | 420,000 |
| `lifecycle_leader`, `lifecycle_deploy`, `lifecycle_git` | **violated** `SingleLeader`, `OnlyOrphansRecovered`, `GitNeverFailed` | no failure needed |
| `drafts_cancel`, `logs_end` | **violated** `CancelledNeverRuns`, `LogsEnd` | no failure needed |
| `context_results` | **violated** `ResultsKeepTheirCalls` | histories up to 12 messages |
| `retro_records` | **violated** `EachJudgedIsRecorded` | three historical tasks |

What the two composed runs say of each part:

| Part | Property | In words |
|---|---|---|
| endpoints | `CloudIsOwned` | what the cloud holds a row knows and can take down; after a disconnect it holds nothing |
| | `ReplacedUrlReported` | a repair that replaces a URL configured elsewhere is on the list the user sees |
| client | `StoredTokenUsable` | the stored refresh token is the one the cloud accepts, with two refreshers, a grant and a disconnect |
| | `ClientSettles` | a running client is connected again or stopped |
| delivery | `OneTaskPerIssue`, `RelayedIsDispatched` | one task for an issue; every relayed message dispatched, then acknowledged |
| locks | `OneLease` | while a replica's lock lasts nobody else works under one |
| reconcile | `BootIsSafe` | a boot loses no work, publishes nothing half written, replaces no foreign object |
| refresher | `WatchIsHonest` | an outdated token is being retried; stalled and torn uploads show while they last |
| context | `ContextIsTrue` | a summary stands for exactly the messages it replaces; only the results that `context_results` shows lose their calls |
| runner | `StallIsSeen`, `RunnerExits` | a call repeated without effect is nudged, then ends the run, and only then; the process exits |
| tools | `ToolsShare` | no edit lost; one refresh for commands refused together |
| callback | `OutputsFindTheirAttempt` | an accepted output is read by its attempt and by no other |
| pod | `FollowingIsSafe` | log lines in order, once, without holes; a visible container keeps its Job |
| drafts | `OneTaskPerDraft`, `AsksWithinCap`, `AnswersKept`, `DraftsClose` | one task; rounds bounded; no answer dropped; a draft some day closes |
| logs | `ReplayMeetsLive`, `ListenersAreTold` | replay and live channel leave no gap; listeners hear of the end |
| providers | `ProvidersSound` | a scan undoes nobody's work; pool, rows and default agree |
| plugins | `RowsHaveTheirFiles` | an installed plugin has the files of the version its row names |
| preparation | `PreparationSafe` | slots add up over replaced semaphores; a reader of the skills reads a whole clone |
| grants | `ProfileIsObeyed` | a task gets what its profile allows, whatever shadows what |
| mail | `OneTaskPerReading` | a loop makes one task of a message per reading |
| tokens | `DisconnectedStaysSo` | no refresh revives a disconnected drive or crosses drives; no renewal revives a revoked bearer |
| tunnel | `SubscribedIsForwarded` | one forwarder per subscribed channel on the open connection, none elsewhere |
| evals | `EvalRunsSound` | a finished run has all its results, each from the profile of its model |

### Bounds

Two replicas and two coroutines are what it takes for a row to be run twice, for
two leaders, and for a sweep to race a run; three replicas are what it takes for a
lock to be lost to one and stolen from another. Two rows are needed for a
recurrence to fork. Retry limits of one and two make the budgets differ, meet and be
exhausted; the heartbeat interval equals the zombie timeout, the tightest case
`LimitsAssumption` allows. A buffer of two with three lines is trimmed while a viewer
replays it. Three requests on a draft are two that race and one that arrives on
what they left; two rounds are the default. A stall limit above the nudge limit with
four calls reaches both. Two drives and two requests are what it takes for an
answer to reach the wrong one. Two sessions and two models let one clean up what
the other uses. A pod's clock drifts by as much as the resume pad covers, the limit
of the assumption. Failures are bounded by `MaxFaults` and its siblings
(`MaxDrops`, `MaxTroubles`, `MaxMishaps`, `MaxGlitches`, `MaxBlips`, `MaxHitches`, `MaxJams`,
`MaxFlops`, `MaxWoes`, `MaxSlips`, `MaxWhims`), requests, versions, lines and messages by
`Max...` constants beside them; all are named in the modules and set in the cfg files.
Replicas and coroutine slots are declared symmetric in the two safety runs of the
lifecycle and never in a run with liveness.

`CHECK_DEADLOCK FALSE` is set where the system really stops: a deleted draft, a task
that is over and whose viewers are gone, a runner that has exited, a collected pod,
a finished eval run, a bounded budget of failures and requests that is used up.

### Ghosts

Some variables record why a promise is not owed, and a property excepts what they
name; each is set only by the event described beside it: `excused`/`dropped`
(CloudEndpoints: overlapping creations and lost calls; a dismissal), `mislaid`
(CloudClient: an answer nobody stored), `slipped` (ReplicaLocks: a key refreshed after
it was lost, or deleted by an unchecked release), `stranded`/`trusted`/`blind`
(CacheReconcile: data that could not be moved, a listing that was right, an unreadable
cache), `strays`/`robbed` (ResultCallback: attempts that died or overlapped), `missed`
(LogStream), `failed` (CloudTunnel: a forwarder that broke on a live connection),
`torn`/`rivals` (LlmProviders: a client made during a commit, two first creations at once),
`ruined` (PluginInstalls: a failed request, or one that took another's directory),
`blamed` (EvalRuns: a swallowed tool error or a foreign deletion). Others only remember
history for a property: `chain`, `lease`, `unsent`, `linked`, `wanted`, `dispatched`, `accepted`,
`killed`, `lost`, `spoilt`, `askedTwice`, `calls`, `stalled`, `closer`.

### Fairness

Weak fairness only, and only on what the code keeps doing by itself: loops poll
again (`run_scheduler`, `run_zombie_cleanup`, `run_draft_sweeper`, `TaskManager.run`
catch every exception and sleep), a started transaction ends, a container ends, time
passes, a heartbeat beats; the cloud client's own steps and the grant's poller
(`ClientWork`, `GrantWork`); the cloud's redelivery and the receive loop (`RelayWork`);
the runner's next step, since the SDK answers, fails or times out (`RunnerNext`). No
fairness on failures, users, administrators, new tasks or viewers. A disjunction is fair
as a whole where only one of its outcomes is certain. In `DraftsClose` the number of
requests bounds how often an answer extends the expiry; in `ListenersAreTold` the
lines are bounded: both say that people and containers stop.

### What the violated runs say

* **Two leaders.** `LEADER_LOCK_ID` is `hash("errand_task_manager")`; string hashes are
  salted per process, so replicas ask for different advisory locks. The damage is
  contained: `lifecycle_healthy` lets replicas hash differently and no row is run
  twice. The concurrency limit is per replica instead of global.
* **Live Jobs swept.** A replica that starts on Kubernetes treats all labelled Jobs as
  orphans, also those of a live replica.
* **Git failures escalate early.** Below `MAX_GIT_RETRIES` the git path calls the common
  retry, whose smaller default cap ends it in `review` with `Failed`.
* **A cancelled draft that runs.** `cancel` checks, then writes unconditionally.
* **A viewer that is never told.** The status check and the subscription are apart,
  and the row stays `running` after the only `task_log_end`.
* **A result without its call.** With parallel calls the split of a compaction may fall
  between two calls; the first is summarised, its result kept.
* **Retro results refused.** Every historical task is recorded under repetition 0; a
  model's second one meets the unique constraint and is counted all the same.

## 4. Proofs

Eight modules hold the theorems; every obligation is checked by TLAPS. The results
hold for every number of rows, replicas, coroutines, requests, lines, files, messages,
drives, deliveries, channels, plugins and models, for every limit the assumptions allow and
every bound on failures. Every safety invariant and every action property a passing run
checks is the statement of a theorem.

Each proof has the same layout: an inductive invariant of named parts, a lemma that
`Init` gives it, one lemma per action (or group of actions that touch the same state) that
it is preserved, a lemma that combines them along `Next`, and the theorem that follows by
temporal reasoning. Each of these invariants was checked by TLC on the bounds of section 3
before it was proved.

* **TaskLifecycleProofs.** `Typing`, `ClaimsHold`, `RunsOnlyPending`, `RetriesBounded` hold
  under every failure, edit and sweep of the model: `ClaimedIsPending` is inductive with
  `TypeOK`, since every action that changes a status has the claim or waits for
  it. `OneExecution` and `RunsItsOwn` assume `Healthy`: no late heartbeat, no pass that
  outlives the zombie lock, no failure after the completing commit, no user edit, no
  Kubernetes start-up sweep; they assume neither one leader nor that replicas keep
  running. Each exclusion is needed: TLC finds a counterexample without it.
  `SingleExecution` is not inductive; `Exclusive` adds `Attended` (a coroutine that has
  not moved its row has it `running`), `Beaten` (a live coroutine's row is not older
  than a heartbeat interval), `SweptIsDead` (a row an open sweep holds runs with nobody
  running it), `ArchivedIsDone` and `NoEdits`. The hard steps are the zombie write and
  the tick. `RecurrenceIsOne` (also under `Healthy`) adds `Lineage`: in every recurrence
  at most one row is active or completed with its coroutine about to clone
  it, and the first row and every continuation exist; so a clone always takes the
  place of the row it continues.
* **TaskRefinementProofs.** `Refinement`: from `Exclusive`, each step of the lifecycle is a
  `Submit`, `Begin`, `Conclude`, `Lose`, `Rescue` or `Archive` of `TaskService`, or a
  stutter, one lemma per action. `Exclusive` is what makes an end by a coroutine a
  `Conclude` (the task is at work) and the write of a sweep a `Rescue` (it is not).
* **TaskDraftsProofs.** `OneTask`, `NoAnswerLost`, `CapHolds` from `DraftsInv`: `ViewsBehind` says
  that the round a request loaded is not ahead of the row's and that the answers of
  an equal round are the row's; `TaskCloses`, that a draft that became a task is open no
  more.
* **LogStreamProofs.** `LogsTyped`, `NoHole` from `LogsInv`, which adds `Owed`: the line that is
  being forwarded is on its way to every listener or was published before it listened.

**ServicesProofs**

* *Locks.* `LocksTypes`, `Leases` from `LocksInv`: a lease that has not slipped is the key's
  (`LeaseIsKey`), and a replica that releases gave its lease up before (`ReleasingHasNone`).
* *Deliveries.* `DeliveryTypes`, `IssueHasOneTask` from `DeliveryInv`: there is one task if the
  ref exists and none otherwise (`RefIsTask`); the loop has a message while its handler works
  (`LoopHasMessage`). The unique ref, inserted in one transaction with the task, carries
  the property; the three memories only save work.
* *Endpoints.* `CloudEndpointsAreOwned`, `ReplacedUrlsAreReported` from `EndpointInv`. Neither
  property survives a step alone, since a request is at work between its reads and its
  commit. The invariant says who is entitled to the difference: a trigger's lock is with
  who works under it (`LocksHold`); one actor at a time works on a trigger whose creation
  did not overlap another request (`OneAtATime`); what the cloud holds is on the row, or
  in the hands of the one about to write it or to take it down (`HeldIsOwned`); from the
  stop of the client on no pass begins, and what the bulk deletion took down stays down
  (`Unplugged`); a URL configured elsewhere is the row's, on the list, or remembered for
  the list (`UrlsAreTold`), where what a pass noted is what it will commit.
* *Client.* `StoredTokenIsUsable` from `ClientInv`: of every session a grant ever stored, the
  tokens in use were issued; one about to be stored is its session's last and nobody else
  has one of that session the cloud would still take (`TokensIssued`); a session is not
  used before its grant is stored (`SessionsKnown`).

**RunnerProofs**

* *Boot.* `BootStaysSafe` and its three parts from `ReconcileInv`: work that is
  nowhere else is in a dirty entry, which rclone keeps (`WorkIsDirty`); an entry's data are
  out of the way, or stranded, before its metadata go (`MovedFirst`); a boot that can read
  and write has every faulted entry before it and leaves none (`FaultedAreDue`); a
  trusted object is the one the entry was derived from (`TrustIsRight`).
* *Watch.* `WatchIsHonestAlways` from `WatchInv`: a token is no older than its last success
  (`TokenIsWatched`); the monitor's age of a dirty file is at most one scan behind
  (`AgesKeepUp`); a torn upload not yet looked at is of a file the monitor still tracks, with
  a stable sample of another size (`WrongIsNoticed`). The two ages advance at different
  actions, which is why the bound relates them and not each to a limit.
* *Context.* `ContextStaysTrue` from `ContextInv`: the summary describes what it covers, and
  the first message is the prompt. The work is in lemmas about cutting a history: `Min` and
  `Max` of a set of numbers exist (from the well-foundedness of `<`), the split is inside the
  history, and a prefix and the rest concatenate to the whole.
* *Stalls.* `StallsAreSeen` from `StallInv`, which relates the detector's counter to the whole
  sequence of calls: for each call there is a place in the sequence from which on it
  returned the remembered result and did so `count` times, and no place gives a longer
  series (`Remembers`).
* *Tools.* `SharingIsSafe` from `ToolsInv`: who uses a path has the path's present lock, and a
  lock is one path's and in use (`UsersHaveLocks`, `LocksAreUsed`), so two edits exclude each
  other (`EditsExclude`); who asks for a token wants the present one replaced
  (`AsksForOwn`), and a token asked about is replaced, being asked about, or known to have
  failed (`AskedIsKnown`).
* *Callback.* `OutputsAreOwn` from `CallbackInv`: a request in progress had the task's token
  (`PostsOnce`); a log read to its end is of a container that ended (`EndedIsAnswered`);
  attempts start in order and one that overlaps an older is known to (`InOrder`); so an output
  waits for its own coroutine (`StoredIsAwaited`) and one that was accepted is there or was
  read (`AcceptedIsKept`).
* *Pod.* `FollowingIsAlwaysSafe` from `PodInv`: what was delivered are lines of the log in order
  (`DeliveredAreLines`), and what a resumed request passes over since the last one shares
  its stamp (`NothingSkipped`), which is where the pad for the skew of clocks is used; resumes
  and barren streams are counted before they open (`FewResumes`); who cleans up knows the exit
  code or asked in vain (`CleansLate`).
* *Composition.* `ServicesAreTyped` (`ServicesTypeOK`) and `ServicesAreSafe` (the twelve safety
  properties together) for `ServicesSpec`. `ServicesStart` and `ServicesStep` say that an initial
  state of the composition is one of each part, and each step a step or a stutter of each
  part; every part's theorem then carries over.

**ServerProofs**

* *Storage tokens.* `DisconnectionLasts` from `TokenInv`: what a request carries opens the
  drive it is about (`RequestsMind`), a key of the waiting answers belongs to a request for
  its drive (`KeysFit`), a linked row has its drive's tokens and any other none
  (`RowsAreTheirs`), and a bearer is a wanted one (`BearerIsWanted`).
* *Mail.* `MailMakesOneTask` from `MailInv`: each reading has a budget of one task, which a
  fetched message or an unread one a loop can still list has not yet spent.
* *Tunnel.* `SubscriptionsAreForwarded` from `TunnelInv`: a forwarder since this client's start
  is the open connection's and its channel's task (`ForwardersAreTasks`), and the client's
  count is what remains of the desktop's once the message in hand is done (`CountsAgree`).
* *Providers.* `ProvidersAreSound` from `ProvidersInv`: a scan has heard of every runtime that
  was there all along and knows of a choice made before it looked (`ScanIsFair`); a client
  made while its row was edited is known to be (`ClientIsFresh`); one default (`OneDefault`).
* *Profiles.* `ProfilesAreObeyed`: the state is one question and its answer, so the property is
  inductive as it stands; the proof is by kind of question.

**CatalogueProofs**

* *Preparation.* `PreparationIsSafe` from `PrepInv`: the free slots and the holders of each
  semaphore there has been add up to its size (`SlotsHeld`, by the cardinality theorems), and
  half a clone exists while one worker clones (`OneClones`).
* *Plugins.* `InstalledHaveFiles` from `PluginsInv`: the row's files are missing only while the
  request that removed them is about to write that row (`RowIsSound`), and a request that has
  fetched has what it will write (`FetchedIsSound`).
* *Evals.* `EvalRunsAreSound` from `EvalInv`: a session owes the cells it has left and no other
  it was asked for (`SessionOwes`); a profile is missing only if its model's cells are settled
  (`ProfileIsThere`); a task that ran without its profile writes no first result
  (`StrangeIsSettled`). Lemmas say what the other sessions' steps leave of this.
* *Composition.* `ServerIsTyped` (`ServerTypeOK`) and `ServerIsSafe` (the eleven invariants and
  `AnswersKept`) for `ServerSpec`, by `ServerStart` and `ServerStep`, as above.

Type invariants are proved as far as `ServicesTypeOK` and `ServerTypeOK` state them, bounds
of counters included. Where a bound is not inductive, what makes it so is stated beside it:
`ClientTypes` (a client that has not stopped has evictions left), `TokensTypes` (calls owed to
the cloud, and the requests that may still make one, number at most two for each call there
was), `MailTypes`, `TunnelTypes` and `PrepTypes`. Types of Boolean variables are separate lemmas,
because SMT and Zenon each see half of such a goal.

### Assumptions

Each is an ASSUME of the module that declares the constant, evaluated by TLC on every run.
Numbers are naturals; what there must be at least one of (versions, models, repetitions,
limits the code clamps) is positive, and so are ports and the lengths of files, where 0
stands for none known; null values are not members of the sets they stand beside.
The orders between limits are those of the code's constants: a heartbeat interval is at
most the zombie timeout (`LimitsAssumption`), a refresh is due within the token's life and
the grace is shorter than what counts as overdue (`RefresherAssumption`), a nudge comes
before a stall (`RunnerAssumption`), what a history is trimmed to is within the limit
(`ContextAssumption`), a local model's timeout exceeds ours (`GrantsAssumption`), and the skew of the pod's clock is within the pad
of a resumed request (`PodAssumption`). Sets whose members are counted (`Askers`, `Callers`,
`Mails`, `Workers`) are finite. What the model answers are sequences of the four kinds of
message. No assumption says how many there are of anything.

### Only model-checked

* Liveness: `EventuallySettles`, `DraftsClose`, `ListenersAreTold`, `ClientSettles`,
  `RelayedIsDispatched`, `RunnerExits`. They rest on fairness and ENABLED, which TLAPS does not
  reason about here.
* What the violated runs refute, which has no proof.

All other properties of the passing runs, the type invariants included, are theorems.

## 5. Not modelled

* Column positions: two tasks may share one (`_next_position`, `utils.py:26`, reads, then
  writes).
* The Apple container runtime and the rest of the Docker runtime: one blocking call
  after another.
* Event bus and status updaters: fire and forget; nothing is promised that a
  schedule could break.
* Tools of the MCP server that read, or write one row in one transaction.
* Other platforms, LLM catalogues, the settings registry, authentication, telemetry, the
  frontend, migrations: request and response, lookups, formatting.
* The corpus, scoring and report of the evals; the wording of prompts; the contents of
  manifests and skills; signatures and filters of webhooks (free choices).
* A task deleted while it runs is brought back by its completion (`main.py:1092`): in
  the model (`DeleteRead`), and the reason why `OwnedWhileRun` is stated without edits.
* A confirmation that waits for an answer's commit runs the spec it loaded before
  (`clarify.py:270`): in the model, not a property.
* A crash between the completion of a repeating task and its clone ends the
  recurrence (`task_manager.py:1565`). Nothing in the table records that a clone is due, so no
  property of the table can forbid it.

## 6. Observations

What reading and modelling showed beside the violated runs. The models contain these
behaviours, or leave them out and say so; where a property would fail on them, its
ghost variable excepts exactly them.

* **Endpoints.** A creation registers outside the trigger's lock. The re-check of a stale
  listing may clear a live URL. Locks are per process. A dismissal throws
  `last_known` away.
* **Cloud client.** A close code that arrives while `registered` is awaited is ignored; the
  client's refresh may fail because the timer's succeeded and then marks a good
  credential as an error. A proxied request that itself needs an answer of the cloud can only time
  out. A forwarder that died leaves its count, so later subscriptions stay silent; a cancel that
  arrives while the client awaits a cancelled forwarder is swallowed, and the disconnect hangs until
  the connection closes; a raising forwarder ends the clean-up early.
* **Storage tokens.** A refresh that began before a re-authorisation writes the old
  account's tokens into the new row. Two waits of one provider share their keys, and the
  first one's clean-up removes the second's. A refresh prefers local client
  credentials where the authorisation prefers the cloud's.
* **Locks.** The cleanup's release deletes the key whoever holds it.
* **Webhooks.** The first two issues at once may race on creating the `jira` tag.
* **E-mail.** Fetching `(RFC822)` sets `\Seen`, so a message whose task fails to be created is
  lost, although `openspec/specs/email-poller/spec.md:156` says it "remains unread and will be
  retried". Two replicas that list one message make a task each.
* **Gateway.** A data move that fails while the metadata's succeeds loses the work; a namesake
  latches the wrong prefix depth; a rewrite may raise a false size mismatch; a file that
  is clean and dirty again between scans keeps its old age.
* **Runner.** A submission of an earlier attempt is delivered by a later one, and a stall
  drops one; beyond the Harmony cap the log promises a normal retry and the code exits. A
  back-off window of 2^f turns suppresses 2^f - 1. The trim fallback also separates results from
  calls.
* **Result callback.** A delete that fails makes a result that was read count as absent.
* **Pods.** Lines that share a microsecond are dropped; a break just as the pod ends loses the
  live tail; a Job that cannot be created leaves ConfigMap and Secret until the next start-up; an
  abandoned stream leaves the Job running while the task is retried.
* **Preparation.** An existing skills clone is only pulled, so a changed branch is never checked
  out; half a clone left by a kill makes later pulls fail. A Docker `prepare` that fails after
  `create` leaks the container. A lowered limit is exceeded until the holders of the replaced
  semaphore end. A database skill that shadows a baseline one and is filtered hides both.
* **Providers.** A client made between the eviction and the commit keeps the old key until a
  restart; two first creations at once are both default; a choice made while a scan probes,
  of a provider it then removes, is overruled.
* **Plugins.** Installing an installed plugin replaces its files before the constraint refuses; an
  update removes the old directory before it commits; a half-fetched directory counts as warm; a
  plugin that left its manifest keeps its future pending, so each task waits for the time-out.
* **Evals.** A resumed run never deletes the profiles its earlier session created; tool errors are
  text, so a failed clone goes on without the profile; the lost answer of `new_task` duplicates
  the task; a resume with fewer models finishes the whole run.
* **Status updaters.** Every replica dispatches every event; any later PATCH of a completed task
  dispatches again; after a failed review creation the rollback expires the ref, so the rest of the
  update fails too.

## 7. What is left

1. `ReplicaLocks` in place of TaskLifecycle's `stalledpass`, so that the sweep's exclusion is
   composed instead of assumed; the same for `ResultCallback`'s attempts and
   `SingleExecution`. The theorems of both sides are there; what is missing is the composed
   specification and the mapping.
2. Abstract specifications of more components and their refinement, as `TaskRefinement` does:
   the endpoints as one set of registrations, the log as one sequence each viewer reads a
   suffix of.
3. Exact characterisations in place of exceptions: under which schedules the ghosts
   (`excused`, `strays`, `ruined`, `blamed`) stay empty, as theorems with hypotheses like
   `Healthy`.
4. Column positions, and tags as data of a row.
5. The remaining Docker steps and the Apple runtime, if they come to await.
