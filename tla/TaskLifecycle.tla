---------------------------- MODULE TaskLifecycle ----------------------------
(***************************************************************************)
(* The life of a task row: the server replicas that dispatch it, the       *)
(* coroutines that run it, the scheduler that promotes and archives it,    *)
(* the two sweeps that recover it when its runner is thought dead, and the *)
(* users who edit it, all writing the same table.                          *)
(*                                                                         *)
(* Every database transaction that reads a row and later writes it without *)
(* a row lock is two actions, a read and a write; the write applies what   *)
(* was computed from the read, whatever the row has become.  A transaction *)
(* that reads FOR UPDATE holds `rowlock' in between.                       *)
(*                                                                         *)
(* Abstracted: the position in a column (any eligible row may be picked),  *)
(* execute_at (a scheduled row may come due at any time), the archive      *)
(* cutoff, outputs, events, and what a container does until it ends.       *)
(***************************************************************************)
EXTENDS Integers, FiniteSets

CONSTANTS
  Tasks,              \* every row that may come to exist
  Servers,            \* server replicas, each with a TaskManager
  Runners,            \* slots for _run_task coroutines
  Repeating,          \* rows created with category "repeating"
  LockIds,            \* values hash("errand_task_manager") may take
  MaxConcurrent,      \* max_concurrent_tasks
  MaxAttempts,        \* max_retry_attempts, clamped to 1 at least
  MaxGitRetries,      \* MAX_GIT_RETRIES
  MaxZombieRetries,   \* MAX_RETRIES of the two sweeps
  HeartbeatInterval,  \* HEARTBEAT_INTERVAL, in ticks
  ZombieTimeout,      \* ZOMBIE_TIMEOUT_SECONDS, in ticks
  Kubernetes,         \* TRUE when the runtime is KubernetesRuntime
  FaultKinds,         \* the failures this instance may suffer
  NoServer, NoTask    \* null values

CONSTANTS             \* bounds of the model, not of the program
  MaxFaults,          \* failures in one behaviour
  MaxEdits            \* user edits in one behaviour

AllFaults == {"crash", "drop", "dispatch", "wrapup", "retry",
              "lapse", "stalledpass", "shutdown"}

ASSUME LimitsAssumption ==
  /\ MaxAttempts \in Nat \ {0}
  /\ MaxConcurrent \in Nat \ {0}
  /\ MaxGitRetries \in Nat /\ MaxZombieRetries \in Nat
  /\ HeartbeatInterval \in Nat \ {0}
  /\ ZombieTimeout \in Nat /\ HeartbeatInterval <= ZombieTimeout
  /\ MaxFaults \in Nat /\ MaxEdits \in Nat

ASSUME NamesAssumption ==
  /\ NoServer \notin Servers
  /\ NoTask \notin Tasks
  /\ LockIds # {}
  /\ Kubernetes \in BOOLEAN
  /\ FaultKinds \subseteq AllFaults
  /\ Repeating \subseteq Tasks

VARIABLES
  \* the tasks table
  status, retry, tags,
  chain,              \* the row whose recurrence a row continues
  age,                \* ticks since heartbeat_at, of a running row
  rowlock,            \* the manager holding the row FOR UPDATE
  jobs,               \* rows with a Kubernetes Job labelled with their id
  \* leader election
  lockId, advisory,
  \* the poll loop of each replica
  mgr,
  \* the coroutines
  pc, job, host, seen,
  \* open read-then-write transactions
  zombie, orphan, archive, edit,
  \* bounds
  faults, edits

rows    == <<status, retry, tags, chain, age>>
leading == <<lockId, advisory>>
runners == <<pc, job, host, seen>>
sweeps  == <<zombie, orphan, archive>>
bounds  == <<faults, edits>>
vars    == <<rows, rowlock, jobs, leading, mgr, runners, sweeps, edit, bounds>>

-----------------------------------------------------------------------------
(* Types                                                                   *)

UserStatus == {"scheduled", "pending", "running", "review", "completed",
               "deleted", "archived"}
Status     == UserStatus \cup {"absent"}
MgrState   == {"booting", "idle", "leading", "holding", "stopping"}
\* Where a coroutine stands: "retrying" has read the row in the body of
\* _run_task, "lastretry" in its exception handler.
PC         == {"off", "working", "completed", "reviewed", "retrying",
               "handling", "lastretry", "gitretrying", "gitreview"}
Unseen     == -1
NothingRead == [t \in Tasks |-> Unseen]
NoEdit     == [row |-> NoTask, from |-> "absent", to |-> "absent"]

\* Every variable in its set; a coroutine that lives has a row and a replica.
TypeOK ==
  /\ status   \in [Tasks -> Status]
  /\ retry    \in [Tasks -> Nat]
  /\ tags     \in [Tasks -> SUBSET {"Retry", "Failed"}]
  /\ chain    \in [Tasks -> Tasks]
  /\ age      \in [Tasks -> Nat]
  /\ rowlock  \in [Tasks -> Servers \cup {NoServer}]
  /\ jobs     \subseteq Tasks
  /\ lockId   \in [Servers -> LockIds]
  /\ advisory \in [LockIds -> Servers \cup {NoServer}]
  /\ mgr      \in [Servers -> MgrState]
  /\ pc       \in [Runners -> PC]
  /\ job      \in [Runners -> Tasks \cup {NoTask}]
  /\ host     \in [Runners -> Servers \cup {NoServer}]
  /\ seen     \in [Runners -> Nat]
  /\ zombie   \in [Servers -> [Tasks -> Nat \cup {Unseen}]]
  /\ orphan   \in [Servers -> [Tasks -> Nat \cup {Unseen}]]
  /\ archive  \subseteq Tasks
  /\ edit     \in [row: Tasks \cup {NoTask}, from: Status, to: Status]
  /\ faults   \in 0..MaxFaults
  /\ edits    \in 0..MaxEdits
  /\ \A r \in Runners : pc[r] # "off" => job[r] \in Tasks /\ host[r] \in Servers

Init ==
  /\ status   = [t \in Tasks |-> "absent"]
  /\ retry    = [t \in Tasks |-> 0]
  /\ tags     = [t \in Tasks |-> {}]
  /\ chain    = [t \in Tasks |-> t]
  /\ age      = [t \in Tasks |-> 0]
  /\ rowlock  = [t \in Tasks |-> NoServer]
  /\ jobs     = {}
  /\ lockId   \in [Servers -> LockIds]
  /\ advisory = [l \in LockIds |-> NoServer]
  /\ mgr      = [s \in Servers |-> "booting"]
  /\ pc       = [r \in Runners |-> "off"]
  /\ job      = [r \in Runners |-> NoTask]
  /\ host     = [r \in Runners |-> NoServer]
  /\ seen     = [r \in Runners |-> 0]
  /\ zombie   = [s \in Servers |-> NothingRead]
  /\ orphan   = [s \in Servers |-> NothingRead]
  /\ archive  = {}
  /\ edit     = NoEdit
  /\ faults   = 0
  /\ edits    = 0

-----------------------------------------------------------------------------
(* State functions                                                         *)

Live(r)       == pc[r] # "off"
RunnersOf(s)  == {r \in Runners : Live(r) /\ host[r] = s}
Supervised(t) == \E r \in Runners : Live(r) /\ job[r] = t

\* Wrong: writers do not wait for the row lock.
LockIgnored(t) == TRUE
\* A row lock makes every other writer of the row wait.
Unlocked(t)   == rowlock[t] = NoServer

\* A failure of the given kind happens in this step.
Fault(kind) ==
  /\ kind \in FaultKinds
  /\ faults < MaxFaults
  /\ faults' = faults + 1
  /\ UNCHANGED edits

-----------------------------------------------------------------------------
(* Creation                                                                *)

\* create_task_from_fields routes a new task by its tags and category.
Create(t) ==
  /\ status[t] = "absent"
  /\ \E to \in {"review", "pending", "scheduled"} :
       status' = [status EXCEPT ![t] = to]
  /\ UNCHANGED <<retry, tags, chain, age, rowlock, jobs, leading, mgr,
                 runners, sweeps, edit, bounds>>

-----------------------------------------------------------------------------
(* The poll loop of TaskManager: leader lock, capacity, claim, dispatch    *)

\* _acquire_leader_lock: pg_try_advisory_lock on this process's lock id,
\* which the session that holds it gets again.
AcquireLeaderLock(s) ==
  /\ mgr[s] = "idle"
  /\ advisory[lockId[s]] \in {NoServer, s}
  /\ advisory' = [advisory EXCEPT ![lockId[s]] = s]
  /\ mgr' = [mgr EXCEPT ![s] = "leading"]
  /\ UNCHANGED <<rows, rowlock, jobs, lockId, runners, sweeps, edit, bounds>>

\* The dedicated connection dies; Postgres drops the session's lock, and the
\* replica does not notice before its next poll.
DropLeaderSession(s) ==
  /\ Fault("drop")
  /\ advisory[lockId[s]] = s
  /\ advisory' = [advisory EXCEPT ![lockId[s]] = NoServer]
  /\ UNCHANGED <<rows, rowlock, jobs, lockId, mgr, runners, sweeps, edit>>

HasCapacity(s) == Cardinality(RunnersOf(s)) < MaxConcurrent
\* What _dequeue_task can return: FOR UPDATE SKIP LOCKED passes over a row
\* another transaction holds.
Dequeuable(t)  == status[t] = "pending" /\ Unlocked(t)

PollEmpty(s) ==
  /\ mgr[s] = "leading"
  /\ ~HasCapacity(s) \/ \A t \in Tasks : ~Dequeuable(t)
  /\ mgr' = [mgr EXCEPT ![s] = "idle"]
  /\ UNCHANGED <<rows, rowlock, jobs, leading, runners, sweeps, edit, bounds>>

Dequeue(s, t) ==
  /\ mgr[s] = "leading"
  /\ HasCapacity(s)
  /\ Dequeuable(t)
  /\ rowlock' = [rowlock EXCEPT ![t] = s]
  /\ mgr' = [mgr EXCEPT ![s] = "holding"]
  /\ UNCHANGED <<rows, jobs, leading, runners, sweeps, edit, bounds>>

\* The commit that marks the row running, with its first heartbeat.
MarkRunning(s, t) ==
  /\ mgr[s] = "holding" /\ rowlock[t] = s
  /\ status' = [status EXCEPT ![t] = "running"]
  /\ age' = [age EXCEPT ![t] = 0]
  /\ rowlock' = [rowlock EXCEPT ![t] = NoServer]
  /\ mgr' = [mgr EXCEPT ![s] = "idle"]
  /\ UNCHANGED <<retry, tags, chain, leading, sweeps, edit>>

\* Wrong: the coroutine is not kept in the manager's set of tasks.
DispatchUntracked(s, t, r) ==
  /\ MarkRunning(s, t)
  /\ pc[r] = "off"
  /\ pc' = [pc EXCEPT ![r] = "working"]
  /\ job' = [job EXCEPT ![r] = t]
  /\ jobs' = jobs \cup {t}
  /\ UNCHANGED <<host, seen, bounds>>

\* ... and the coroutine it is handed to, which creates the container.
Dispatch(s, t, r) ==
  /\ MarkRunning(s, t)
  /\ pc[r] = "off"
  /\ pc' = [pc EXCEPT ![r] = "working"]
  /\ job' = [job EXCEPT ![r] = t]
  /\ host' = [host EXCEPT ![r] = s]
  /\ jobs' = jobs \cup {t}
  /\ UNCHANGED <<seen, bounds>>

\* An exception after the claim: the transaction rolls back.
DispatchRollsBack(s, t) ==
  /\ Fault("dispatch")
  /\ mgr[s] = "holding" /\ rowlock[t] = s
  /\ rowlock' = [rowlock EXCEPT ![t] = NoServer]
  /\ mgr' = [mgr EXCEPT ![s] = "idle"]
  /\ UNCHANGED <<rows, jobs, leading, runners, sweeps, edit>>

\* An exception between the commit and create_task: the row runs, nobody
\* runs it.
DispatchStrands(s, t) ==
  /\ Fault("dispatch")
  /\ MarkRunning(s, t)
  /\ UNCHANGED <<jobs, runners>>

-----------------------------------------------------------------------------
(* _run_task                                                               *)

\* The coroutine leaves its semaphore and is forgotten.
End(r) ==
  /\ pc' = [pc EXCEPT ![r] = "off"]
  /\ job' = [job EXCEPT ![r] = NoTask]
  /\ host' = [host EXCEPT ![r] = NoServer]
  /\ seen' = [seen EXCEPT ![r] = 0]

\* The container of r ended and _process_task cleaned its Job up.
ContainerGone(r) ==
  jobs' = IF \E q \in Runners \ {r} : pc[q] = "working" /\ job[q] = job[r]
          THEN jobs ELSE jobs \ {job[r]}

\* _heartbeat_loop stamps the row; the stamp matters while the row runs.
Beat(r) ==
  /\ Live(r)
  /\ Unlocked(job[r])
  /\ status[job[r]] = "running"
  /\ age' = [age EXCEPT ![job[r]] = 0]
  /\ UNCHANGED <<status, retry, tags, chain, rowlock, jobs, leading, mgr,
                 runners, sweeps, edit, bounds>>

\* Structured output: the row is moved, unconditionally, to completed, or to
\* review when the runner needs input (completed again for a row created by
\* an external client).
Finish(r, target) ==
  /\ pc[r] = "working"
  /\ Unlocked(job[r])
  /\ status' = [status EXCEPT ![job[r]] = target]
  /\ retry' = [retry EXCEPT ![job[r]] = 0]
  /\ tags' = [tags EXCEPT ![job[r]] = @ \ {"Retry"}]
  /\ age' = [age EXCEPT ![job[r]] = 0]
  /\ pc' = [pc EXCEPT ![r] = IF target = "completed" THEN "completed"
                                                     ELSE "reviewed"]
  /\ ContainerGone(r)
  /\ UNCHANGED <<chain, rowlock, leading, mgr, job, host, seen, sweeps, edit,
                 bounds>>

\* _reschedule_if_repeating, in a transaction of its own: clones a completed
\* repeating row unless repeat_until has passed or its interval is unreadable.
Reschedule(r) ==
  \/ UNCHANGED <<status, tags, chain>>
  \/ /\ pc[r] = "completed"
     /\ chain[job[r]] \in Repeating
     /\ \E n \in Tasks :
          /\ status[n] = "absent"
          /\ status' = [status EXCEPT ![n] = "scheduled"]
          /\ tags' = [tags EXCEPT ![n] = tags[job[r]]]
          /\ chain' = [chain EXCEPT ![n] = chain[job[r]]]

WrapUp(r) ==
  /\ pc[r] \in {"completed", "reviewed"}
  /\ Reschedule(r)
  /\ End(r)
  /\ UNCHANGED <<retry, age, rowlock, jobs, leading, mgr, sweeps, edit, bounds>>

\* An exception, or the cancellation at shutdown, after the row was moved: the
\* handlers of _run_task call _schedule_retry all the same.
WrapUpFails(r) ==
  /\ Fault("wrapup")
  /\ pc[r] \in {"completed", "reviewed"}
  /\ Reschedule(r)
  /\ pc' = [pc EXCEPT ![r] = "handling"]
  /\ UNCHANGED <<retry, age, rowlock, jobs, leading, mgr, job, host, seen,
                 sweeps, edit>>

\* No parseable output: _schedule_retry reads the row.  An exception or a
\* cancellation: the handler is entered.
Fail(r) ==
  /\ pc[r] = "working"
  /\ \/ /\ pc' = [pc EXCEPT ![r] = "retrying"]
        /\ seen' = [seen EXCEPT ![r] = retry[job[r]]]
     \/ /\ pc' = [pc EXCEPT ![r] = "handling"]
        /\ UNCHANGED seen
  /\ ContainerGone(r)
  /\ UNCHANGED <<rows, rowlock, leading, mgr, job, host, sweeps, edit, bounds>>

\* The handler's _schedule_retry reads the row.
Handle(r) ==
  /\ pc[r] = "handling"
  /\ pc' = [pc EXCEPT ![r] = "lastretry"]
  /\ seen' = [seen EXCEPT ![r] = retry[job[r]]]
  /\ UNCHANGED <<rows, rowlock, jobs, leading, mgr, job, host, sweeps, edit,
                 bounds>>

\* GitSkillsError: its own cap first, then the common retry.
GitFail(r) ==
  /\ pc[r] = "working"
  /\ pc' = [pc EXCEPT ![r] = IF retry[job[r]] >= MaxGitRetries
                             THEN "gitreview" ELSE "gitretrying"]
  /\ seen' = [seen EXCEPT ![r] = retry[job[r]]]
  /\ ContainerGone(r)
  /\ UNCHANGED <<rows, rowlock, leading, mgr, job, host, sweeps, edit, bounds>>

GitReview(r) ==
  /\ pc[r] = "gitreview"
  /\ Unlocked(job[r])
  /\ status' = [status EXCEPT ![job[r]] = "review"]
  /\ age' = [age EXCEPT ![job[r]] = 0]
  /\ End(r)
  /\ UNCHANGED <<retry, tags, chain, rowlock, jobs, leading, mgr, sweeps, edit,
                 bounds>>

\* Wrong: one attempt too many.
ExhaustedLate(n) == n >= MaxAttempts
Exhausted(n) == n >= MaxAttempts - 1

\* The write of _schedule_retry, and of _escalate_to_review_failed.
RetryWrite(r) ==
  /\ Unlocked(job[r])
  /\ retry' = [retry EXCEPT ![job[r]] = seen[r] + 1]
  /\ \/ /\ ~Exhausted(seen[r])
        /\ status' = [status EXCEPT ![job[r]] = "scheduled"]
        /\ tags' = [tags EXCEPT ![job[r]] = @ \cup {"Retry"}]
     \/ /\ Exhausted(seen[r])
        /\ status' = [status EXCEPT ![job[r]] = "review"]
        /\ tags' = [tags EXCEPT ![job[r]] = (@ \ {"Retry"}) \cup {"Failed"}]
  /\ age' = [age EXCEPT ![job[r]] = 0]
  /\ UNCHANGED chain

ScheduleRetry(r) ==
  /\ pc[r] \in {"retrying", "lastretry", "gitretrying"}
  /\ RetryWrite(r)
  /\ End(r)
  /\ UNCHANGED <<rowlock, jobs, leading, mgr, sweeps, edit, bounds>>

\* _schedule_retry raises before its commit: in the body of _run_task the
\* handler tries again, in a handler the coroutine ends and the row stays.
ScheduleRetryFails(r) ==
  /\ Fault("retry")
  /\ \/ /\ pc[r] = "retrying"
        /\ pc' = [pc EXCEPT ![r] = "handling"]
        /\ UNCHANGED <<job, host, seen>>
     \/ pc[r] \in {"lastretry", "gitretrying", "gitreview"} /\ End(r)
  /\ UNCHANGED <<rows, rowlock, jobs, leading, mgr, sweeps, edit>>

\* ... or after it: the handler schedules the same failure twice.
ScheduleRetryTwice(r) ==
  /\ Fault("wrapup")
  /\ pc[r] = "retrying"
  /\ RetryWrite(r)
  /\ pc' = [pc EXCEPT ![r] = "handling"]
  /\ UNCHANGED <<rowlock, jobs, leading, mgr, job, host, seen, sweeps, edit>>

-----------------------------------------------------------------------------
(* The scheduler                                                           *)

\* promote_due_tasks: one locked transaction for every due row.
Promote(due) ==
  /\ due # {}
  /\ \A t \in due : status[t] = "scheduled" /\ Unlocked(t)
  /\ status' = [t \in Tasks |-> IF t \in due THEN "pending" ELSE status[t]]
  /\ UNCHANGED <<retry, tags, chain, age, rowlock, jobs, leading, mgr, runners,
                 sweeps, edit, bounds>>

\* archive_completed_tasks: selected without a lock, written at the commit.
ArchiveRead(old) ==
  /\ archive = {} /\ old # {}
  /\ \A t \in old : status[t] = "completed"
  /\ archive' = old
  /\ UNCHANGED <<rows, rowlock, jobs, leading, mgr, runners, zombie, orphan,
                 edit, bounds>>

ArchiveWrite ==
  /\ archive # {}
  /\ \A t \in archive : Unlocked(t)
  /\ status' = [t \in Tasks |-> IF t \in archive THEN "archived" ELSE status[t]]
  /\ age' = [t \in Tasks |-> IF t \in archive THEN 0 ELSE age[t]]
  /\ archive' = {}
  /\ UNCHANGED <<retry, tags, chain, rowlock, jobs, leading, mgr, runners,
                 zombie, orphan, edit, bounds>>

-----------------------------------------------------------------------------
(* The zombie sweep and the start-up sweep of Kubernetes Jobs              *)

\* Both write the same recovery, from the retry_count they read.
Recover(found) ==
  LET taken == {t \in Tasks : found[t] # Unseen} IN
  /\ \A t \in taken : Unlocked(t)
  /\ status' = [t \in Tasks |->
                  IF t \notin taken THEN status[t]
                  ELSE IF found[t] >= MaxZombieRetries THEN "review"
                  ELSE "scheduled"]
  /\ retry' = [t \in Tasks |->
                  IF t \in taken /\ found[t] < MaxZombieRetries
                  THEN found[t] + 1 ELSE retry[t]]
  /\ age' = [t \in Tasks |-> IF t \in taken THEN 0 ELSE age[t]]
  /\ UNCHANGED <<tags, chain>>

\* Wrong: any running row; a timeout one tick short; the wrong side of the cutoff.
StaleAtOnce(t)   == status[t] = "running"
StaleEarly(t)    == status[t] = "running" /\ age[t] >= ZombieTimeout
StaleReversed(t) == status[t] = "running" /\ age[t] < ZombieTimeout
\* A running row whose heartbeat_at is older than the cutoff.
Stale(t) == status[t] = "running" /\ age[t] > ZombieTimeout

\* recover_zombie_tasks selects under the zombie lock, which another replica
\* holds as long as its pass is open, unless that pass outlived the lock.
ZombieRead(s) ==
  /\ zombie[s] = NothingRead
  /\ \/ (\A o \in Servers : zombie[o] = NothingRead) /\ UNCHANGED bounds
     \/ (\E o \in Servers : zombie[o] # NothingRead) /\ Fault("stalledpass")
  /\ \E t \in Tasks : Stale(t)
  /\ zombie' = [zombie EXCEPT ![s] =
                  [t \in Tasks |-> IF Stale(t) THEN retry[t] ELSE Unseen]]
  /\ UNCHANGED <<rows, rowlock, jobs, leading, mgr, runners, orphan, archive,
                 edit>>

ZombieWrite(s) ==
  /\ zombie[s] # NothingRead
  /\ Recover(zombie[s])
  /\ zombie' = [zombie EXCEPT ![s] = NothingRead]
  /\ UNCHANGED <<rowlock, jobs, leading, mgr, runners, orphan, archive, edit,
                 bounds>>

\* cleanup_orphaned_jobs runs in every replica before its first poll, on every
\* Job of the namespace, whoever created it.
OrphanRead(s, t) ==
  /\ Kubernetes
  /\ mgr[s] = "booting" /\ orphan[s] = NothingRead
  /\ t \in jobs /\ status[t] = "running"
  /\ orphan' = [orphan EXCEPT ![s][t] = retry[t]]
  /\ UNCHANGED <<rows, rowlock, jobs, leading, mgr, runners, zombie, archive,
                 edit, bounds>>

\* ... writes the row back and deletes the Job; a live coroutine of the row
\* sees its container end.
OrphanWrite(s) ==
  /\ orphan[s] # NothingRead
  /\ Recover(orphan[s])
  /\ orphan' = [orphan EXCEPT ![s] = NothingRead]
  /\ jobs' = {t \in jobs : orphan[s][t] = Unseen}
  /\ UNCHANGED <<rowlock, leading, mgr, runners, zombie, archive, edit, bounds>>

\* The Job of a row that does not run, or whose recovery failed, just goes.
OrphanDelete(s, t) ==
  /\ Kubernetes
  /\ mgr[s] = "booting" /\ orphan[s] = NothingRead
  /\ t \in jobs
  /\ \/ status[t] # "running" /\ UNCHANGED bounds
     \/ status[t] = "running" /\ Fault("retry")
  /\ jobs' = jobs \ {t}
  /\ UNCHANGED <<rows, rowlock, leading, mgr, runners, sweeps, edit>>

\* The list may have been shorter, or could not be read.
BootDone(s) ==
  /\ mgr[s] = "booting" /\ orphan[s] = NothingRead
  /\ mgr' = [mgr EXCEPT ![s] = "idle"]
  /\ UNCHANGED <<rows, rowlock, jobs, leading, runners, sweeps, edit, bounds>>

-----------------------------------------------------------------------------
(* Users                                                                   *)

\* update_task reads the row, and refuses a running one, ...
EditRead(t, to) ==
  /\ edit = NoEdit /\ edits < MaxEdits
  /\ status[t] \notin {"absent", "running"}
  /\ edit' = [row |-> t, from |-> status[t], to |-> to]
  /\ edits' = edits + 1
  /\ UNCHANGED <<rows, rowlock, jobs, leading, mgr, runners, sweeps, faults>>

\* ... delete_task reads any row, ...
DeleteRead(t) ==
  /\ edit = NoEdit /\ edits < MaxEdits
  /\ status[t] # "absent"
  /\ edit' = [row |-> t, from |-> status[t], to |-> "deleted"]
  /\ edits' = edits + 1
  /\ UNCHANGED <<rows, rowlock, jobs, leading, mgr, runners, sweeps, faults>>

\* ... and the commit writes the status if it differs from the one read.  A
\* row a user calls running has no fresh heartbeat, or none at all.
EditWrite ==
  /\ edit # NoEdit
  /\ Unlocked(edit.row)
  /\ \/ edit.to = edit.from /\ UNCHANGED <<status, age>>
     \/ /\ edit.to # edit.from
        /\ status' = [status EXCEPT ![edit.row] = edit.to]
        /\ \E a \in IF edit.to = "running" THEN {0, ZombieTimeout + 1} ELSE {0} :
             age' = [age EXCEPT ![edit.row] = a]
  /\ edit' = NoEdit
  /\ UNCHANGED <<retry, tags, chain, rowlock, jobs, leading, mgr, runners,
                 sweeps, bounds>>

-----------------------------------------------------------------------------
(* Time, and the death and restart of a replica                            *)

\* Heartbeats older than the zombie timeout are equally stale.
Aged == [t \in Tasks |-> IF status[t] = "running" /\ age[t] <= ZombieTimeout
                         THEN age[t] + 1 ELSE age[t]]

\* A live heartbeat loop does not let its interval pass.
Tick ==
  /\ \A r \in Runners : Live(r) /\ status[job[r]] = "running"
                          => age[job[r]] < HeartbeatInterval
  /\ age' = Aged
  /\ UNCHANGED <<status, retry, tags, chain, rowlock, jobs, leading, mgr,
                 runners, sweeps, edit, bounds>>

\* A heartbeat write fails: logged, and tried again an interval later.
TickWithLapse ==
  /\ Fault("lapse")
  /\ age' = Aged
  /\ UNCHANGED <<status, retry, tags, chain, rowlock, jobs, leading, mgr,
                 runners, sweeps, edit>>

\* The process is replaced: its coroutines, transactions and sessions end, and
\* the new one hashes its own lock id.
Replace(s) ==
  /\ pc' = [r \in Runners |-> IF host[r] = s THEN "off" ELSE pc[r]]
  /\ job' = [r \in Runners |-> IF host[r] = s THEN NoTask ELSE job[r]]
  /\ host' = [r \in Runners |-> IF host[r] = s THEN NoServer ELSE host[r]]
  /\ seen' = [r \in Runners |-> IF host[r] = s THEN 0 ELSE seen[r]]
  /\ rowlock' = [t \in Tasks |-> IF rowlock[t] = s THEN NoServer ELSE rowlock[t]]
  /\ advisory' = [l \in LockIds |-> IF advisory[l] = s THEN NoServer
                                                       ELSE advisory[l]]
  /\ \E id \in LockIds : lockId' = [lockId EXCEPT ![s] = id]
  /\ mgr' = [mgr EXCEPT ![s] = "booting"]
  /\ zombie' = [zombie EXCEPT ![s] = NothingRead]
  /\ orphan' = [orphan EXCEPT ![s] = NothingRead]
  /\ archive' \in {archive, {}}
  /\ UNCHANGED <<rows, jobs, edit>>

Crash(s) == Fault("crash") /\ Replace(s)

\* TaskManager.stop: no more polls, the runs in flight are waited for.
Shutdown(s) ==
  /\ Fault("shutdown")
  /\ mgr[s] = "idle"
  /\ mgr' = [mgr EXCEPT ![s] = "stopping"]
  /\ UNCHANGED <<rows, rowlock, jobs, leading, runners, sweeps, edit>>

Exit(s) ==
  /\ mgr[s] = "stopping"
  /\ RunnersOf(s) = {}
  /\ Replace(s)
  /\ UNCHANGED bounds

-----------------------------------------------------------------------------
(* The specification                                                       *)

Manager(s) ==
  \/ AcquireLeaderLock(s) \/ DropLeaderSession(s) \/ PollEmpty(s)
  \/ \E t \in Tasks : \/ Dequeue(s, t)
                      \/ \E r \in Runners : Dispatch(s, t, r)
                      \/ DispatchRollsBack(s, t) \/ DispatchStrands(s, t)

Run(r) ==
  \/ Beat(r)
  \/ \E target \in {"completed", "review"} : Finish(r, target)
  \/ WrapUp(r) \/ WrapUpFails(r)
  \/ Fail(r) \/ Handle(r) \/ GitFail(r) \/ GitReview(r)
  \/ ScheduleRetry(r) \/ ScheduleRetryFails(r) \/ ScheduleRetryTwice(r)

Scheduler ==
  \/ \E due \in SUBSET Tasks : Promote(due)
  \/ \E old \in SUBSET Tasks : ArchiveRead(old)
  \/ ArchiveWrite

Sweep(s) ==
  \/ ZombieRead(s) \/ ZombieWrite(s)
  \/ \E t \in Tasks : OrphanRead(s, t) \/ OrphanDelete(s, t)
  \/ OrphanWrite(s) \/ BootDone(s)

User ==
  \/ \E t \in Tasks : \/ Create(t)
                      \/ \E to \in UserStatus : EditRead(t, to)
                      \/ DeleteRead(t)
  \/ EditWrite

Process(s) == Crash(s) \/ Shutdown(s) \/ Exit(s)

Next ==
  \/ \E s \in Servers : Manager(s) \/ Sweep(s) \/ Process(s)
  \/ \E r \in Runners : Run(r)
  \/ Scheduler \/ User \/ Tick \/ TickWithLapse

Spec == Init /\ [][Next]_vars

-----------------------------------------------------------------------------
(* Properties                                                              *)

\* No row is ever run by two coroutines at once, whichever replicas think they
\* lead (task_manager.py: the row lock of _dequeue_task; zombie_cleanup.py: the
\* sweep takes only rows nobody beats).  Holds where heartbeats are written in
\* time and no user edits.
SingleExecution ==
  \A q, r \in Runners : Live(q) /\ Live(r) /\ job[q] = job[r] => q = r

\* Nobody moves a row from under the coroutine that runs it: the unconditional
\* writes of _run_task and _schedule_retry land on the row they were meant for.
\* Holds under the same conditions.
OwnedWhileRun ==
  \A r \in Runners :
    pc[r] \notin {"off", "completed", "reviewed"}
      => status[job[r]] = "running"

\* A recurrence never forks: of all rows that continue it, at most one is
\* waiting or running (_reschedule_if_repeating clones after the completion).
\* Holds where, besides, no failure hits the clone.
Active(t) == status[t] \in {"scheduled", "pending", "running"}
OneOccurrence ==
  \A t, u \in Tasks : t # u /\ chain[t] = chain[u] => ~(Active(t) /\ Active(u))

\* A row starts to run only from pending, or because a user said so: between
\* the claim and its commit no late write, sweep or second manager gets to the
\* row, so a dispatch never overrides what another actor did.
RunsFromPending ==
  [][\A t \in Tasks :
       status[t] # "running" /\ status'[t] = "running"
         => status[t] = "pending" \/ (edit.row = t /\ edit.to = "running")]_vars

\* A claimed row is still pending: every writer waits for the claim.
ClaimedIsPending ==
  \A t \in Tasks : rowlock[t] # NoServer => status[t] = "pending"

\* No failure path queues a row again once its retries are spent, even when two
\* of them, with different limits and stale counts, write the same row.
RetryBudget ==
  [][\A t \in Tasks :
       retry'[t] # retry[t] /\ status'[t] = "scheduled"
         => retry'[t] < MaxAttempts \/ retry'[t] <= MaxZombieRetries]_vars

\* The replicas that think they lead are one: test_task_manager.py takes
\* LEADER_LOCK_ID for stable, but str hashes differ from process to process.
SingleLeader ==
  \A l, k \in LockIds :
    advisory[l] # NoServer /\ advisory[k] # NoServer => advisory[l] = advisory[k]

\* The start-up sweep recovers only rows whose runner is gone.
OnlyOrphansRecovered ==
  [][\A s \in Servers, t \in Tasks :
       orphan[s][t] = Unseen /\ orphan'[s][t] # Unseen => ~Supervised(t)]_vars

\* A git failure ends in the git path's own review, never in Failed.
GitNeverFailed ==
  [][\A r \in Runners :
       pc[r] = "gitretrying" /\ "Failed" \notin tags[job[r]] /\ pc'[r] = "off"
         => "Failed" \notin tags'[job[r]]]_vars

-----------------------------------------------------------------------------
(* Liveness                                                                *)

\* Loops poll again, transactions end, containers end, time passes.
Fairness ==
  /\ WF_vars(Tick)
  /\ WF_vars(\E due \in SUBSET Tasks : Promote(due))
  /\ \A s \in Servers :
       /\ WF_vars(AcquireLeaderLock(s))
       /\ WF_vars(PollEmpty(s))
       /\ WF_vars(\E t \in Tasks : Dequeue(s, t))
       /\ WF_vars(\E t \in Tasks, r \in Runners : Dispatch(s, t, r))
       /\ WF_vars(ZombieRead(s)) /\ WF_vars(ZombieWrite(s))
       /\ WF_vars(OrphanWrite(s)) /\ WF_vars(BootDone(s))
       /\ WF_vars(Exit(s))
  /\ \A r \in Runners :
       /\ WF_vars(Beat(r))
       /\ WF_vars(Fail(r) \/ GitFail(r)
                    \/ \E target \in {"completed", "review"} : Finish(r, target))
       /\ WF_vars(Handle(r)) /\ WF_vars(WrapUp(r))
       /\ WF_vars(GitReview(r)) /\ WF_vars(ScheduleRetry(r))

FairSpec == Spec /\ Fairness

Settled == {"review", "completed", "deleted", "archived"}

\* Whatever fails, every task that users leave alone is some day done, or put
\* before them for good: the two retry loops do not feed each other for ever,
\* and no row is left running with nobody to run it.
EventuallySettles ==
  <>[](\A t \in Tasks : status[t] \in Settled \cup {"absent"})

=============================================================================
