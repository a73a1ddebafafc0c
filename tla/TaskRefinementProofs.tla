------------------------ MODULE TaskRefinementProofs -------------------------
(***************************************************************************)
(* TaskLifecycle implements TaskService, for any number of rows, replicas   *)
(* and coroutine slots: every step is one of the service's, or none.        *)
(***************************************************************************)
EXTENDS TaskLifecycleProofs, TaskRefinement

USE DEF rows, leading, runners, sweeps, bounds

ServiceStep == [Service!ServiceNext]_(Service!serviceVars)

-----------------------------------------------------------------------------
(* What steps of the rows and of the coroutines are to the service         *)

LEMMA SameStage ==
  ASSUME UNCHANGED status
  PROVE  Stage' = Stage
BY DEF Stage

LEMMA SameBusy ==
  ASSUME UNCHANGED <<pc, job>>
  PROVE  Busy' = Busy
BY DEF Busy, AtWork

\* Executions may be lost at any time.
LEMMA Loses ==
  ASSUME Stage' = Stage, Busy' \subseteq Busy
  PROVE  ServiceStep
<1>1. Busy \ Busy' \in SUBSET Tasks
  BY DEF Busy
<1>2. Service!Lose(Busy \ Busy')
  BY DEF Service!Lose
<1>3. QED
  BY <1>1, <1>2 DEF ServiceStep, Service!ServiceNext

LEMMA Stutters ==
  ASSUME UNCHANGED <<status, pc, job>>
  PROVE  ServiceStep
BY SameStage, SameBusy, Loses

\* One row is written.
LEMMA RowStage ==
  ASSUME TypeOK, NEW t \in Tasks, NEW s, status' = [status EXCEPT ![t] = s]
  PROVE  Stage' = [Stage EXCEPT ![t] = StageOf(s)]
<1>1. \A u \in Tasks : status'[u] = IF u = t THEN s ELSE status[u]
  BY DEF TypeOK
<1>2. QED
  BY <1>1 DEF Stage, StageOf

\* One coroutine leaves its row: nobody else is at work on it.
LEMMA RunnerLeaves ==
  ASSUME TypeOK, SingleExecution, NEW r \in Runners, AtWork(r), ~AtWork(r)',
         \A q \in Runners \ {r} : pc'[q] = pc[q] /\ job'[q] = job[q]
  PROVE  Busy' = Busy \ {job[r]}
<1>1. \A q \in Runners \ {r} : AtWork(q) => job[q] # job[r]
  BY DEF SingleExecution, AtWork, Live
<1>2. \A q \in Runners \ {r} : AtWork(q)' <=> AtWork(q)
  BY DEF AtWork
<1>3. QED
  BY <1>1, <1>2 DEF Busy

\* One coroutine goes on with its row, or without one.
LEMMA RunnerStays ==
  ASSUME NEW r \in Runners,
         \/ AtWork(r) /\ AtWork(r)' /\ job'[r] = job[r]
         \/ ~AtWork(r) /\ ~AtWork(r)',
         \A q \in Runners \ {r} : pc'[q] = pc[q] /\ job'[q] = job[q]
  PROVE  Busy' = Busy
<1>1. \A q \in Runners : /\ AtWork(q)' <=> AtWork(q)
                         /\ AtWork(q) => job'[q] = job[q]
  BY DEF AtWork
<1>2. QED
  BY <1>1 DEF Busy

\* Whoever is at work has a row of its own, which runs.
LEMMA WorkersRow ==
  ASSUME Exclusive, NEW r \in Runners, AtWork(r)
  PROVE  /\ job[r] \in Tasks /\ job[r] \in Busy
         /\ status[job[r]] = "running" /\ Stage[job[r]] = "running"
<1>1. job[r] \in Tasks /\ status[job[r]] = "running"
  BY DEF Exclusive, Exclusion, Attended, AtWork, TypeOK
<1>2. QED
  BY <1>1 DEF Busy, Stage, StageOf

LEMMA ConcludesRow ==
  ASSUME Exclusive, NEW r \in Runners, AtWork(r), ~AtWork(r)',
         \A q \in Runners \ {r} : pc'[q] = pc[q] /\ job'[q] = job[q],
         NEW s \in {"scheduled", "review", "completed"},
         status' = [status EXCEPT ![job[r]] = s]
  PROVE  ServiceStep
<1>1. job[r] \in Tasks /\ job[r] \in Busy /\ Stage[job[r]] = "running"
  BY WorkersRow
<1>2. Busy' = Busy \ {job[r]}
  BY RunnerLeaves DEF Exclusive, Exclusion
<1>3. Stage' = [Stage EXCEPT ![job[r]] = StageOf(s)]
  BY <1>1, RowStage DEF Exclusive
<1>4. StageOf(s) \in {"waiting", "asking", "done"}
  BY DEF StageOf
<1>5. Service!Conclude(job[r])
  BY <1>1, <1>2, <1>3, <1>4 DEF Service!Conclude
<1>6. QED
  BY <1>1, <1>5 DEF ServiceStep, Service!ServiceNext

-----------------------------------------------------------------------------
(* The steps                                                               *)

LEMMA ManagerServes ==
  ASSUME Exclusive, NEW s \in Servers, Manager(s)
  PROVE  ServiceStep
<1> USE DEF Exclusive
<1>1. CASE AcquireLeaderLock(s) \/ DropLeaderSession(s) \/ PollEmpty(s)
  BY <1>1, Stutters DEF AcquireLeaderLock, DropLeaderSession, PollEmpty
<1>2. ASSUME NEW t \in Tasks, Dequeue(s, t) \/ DispatchRollsBack(s, t)
      PROVE  ServiceStep
  BY <1>2, Stutters DEF Dequeue, DispatchRollsBack
<1>3. ASSUME NEW t \in Tasks, MarkRunning(s, t), Busy' \in {Busy, Busy \cup {t}}
      PROVE  ServiceStep
  <2>1. status[t] = "pending"
    BY <1>3, NamesAssumption DEF MarkRunning, ClaimedIsPending
  <2>2. Stage' = [Stage EXCEPT ![t] = StageOf("running")]
    BY <1>3, RowStage DEF MarkRunning
  <2>3. Stage[t] = "waiting" /\ StageOf("running") = "running"
    BY <2>1 DEF Stage, StageOf
  <2>4. Service!Begin(t)
    BY <1>3, <2>2, <2>3 DEF Service!Begin
  <2>5. QED
    BY <2>4 DEF ServiceStep, Service!ServiceNext
<1>4. ASSUME NEW t \in Tasks, NEW r \in Runners, Dispatch(s, t, r) PROVE ServiceStep
  <2>1. /\ pc[r] = "off" /\ pc'[r] = "working" /\ job'[r] = t
        /\ \A q \in Runners \ {r} : pc'[q] = pc[q] /\ job'[q] = job[q]
    BY <1>4 DEF Dispatch, TypeOK
  <2>2. Busy' = Busy \cup {t}
    BY <2>1 DEF Busy, AtWork
  <2>3. QED
    BY <1>3, <1>4, <2>2 DEF Dispatch
<1>5. ASSUME NEW t \in Tasks, DispatchStrands(s, t) PROVE ServiceStep
  BY <1>3, <1>5, SameBusy DEF DispatchStrands
<1>6. QED
  BY <1>1, <1>2, <1>4, <1>5 DEF Manager

\* A new row.
LEMMA Submits ==
  ASSUME TypeOK, Busy' = Busy, NEW n \in Tasks, status[n] = "absent",
         NEW s \in {"review", "pending", "scheduled"},
         status' = [status EXCEPT ![n] = s]
  PROVE  ServiceStep
<1>1. Stage' = [Stage EXCEPT ![n] = StageOf(s)]
  BY RowStage
<1>2. Stage[n] = "absent" /\ StageOf(s) \in {"waiting", "asking"}
  BY DEF Stage, StageOf
<1>3. Service!Submit(n)
  BY <1>1, <1>2 DEF Service!Submit
<1>4. QED
  BY <1>3 DEF ServiceStep, Service!ServiceNext

LEMMA RunServes ==
  ASSUME Healthy, Exclusive, NEW r \in Runners, Run(r)
  PROVE  ServiceStep
<1> USE DEF Exclusive
<1>1. CASE Beat(r)
  BY <1>1, Stutters DEF Beat
<1>2. ASSUME NEW target \in {"completed", "review"}, Finish(r, target)
      PROVE  ServiceStep
  <2>1. AtWork(r) /\ ~AtWork(r)'
    BY <1>2 DEF Finish, AtWork, TypeOK
  <2>2. \A q \in Runners \ {r} : pc'[q] = pc[q] /\ job'[q] = job[q]
    BY <1>2 DEF Finish, TypeOK
  <2>3. QED
    BY <1>2, <2>1, <2>2, ConcludesRow DEF Finish
<1>3. CASE Fail(r) \/ Handle(r) \/ GitFail(r)
  <2>1. UNCHANGED status /\ job' = job
    BY <1>3 DEF Fail, Handle, GitFail
  <2>2. AtWork(r) /\ AtWork(r)'
    BY <1>3 DEF Fail, Handle, GitFail, AtWork, TypeOK
  <2>3. \A q \in Runners \ {r} : pc'[q] = pc[q]
    BY <1>3 DEF Fail, Handle, GitFail, TypeOK
  <2>4. QED
    BY <2>1, <2>2, <2>3, RunnerStays, SameStage, Loses
<1>4. CASE GitReview(r) \/ ScheduleRetry(r)
  <2>1. End(r) /\ AtWork(r)
    BY <1>4 DEF GitReview, ScheduleRetry, AtWork
  <2>2. ~AtWork(r)' /\ \A q \in Runners \ {r} : pc'[q] = pc[q] /\ job'[q] = job[q]
    BY <2>1, EndTypes DEF AtWork
  <2>3. \E s \in {"scheduled", "review"} : status' = [status EXCEPT ![job[r]] = s]
    BY <1>4 DEF GitReview, ScheduleRetry, RetryWrite
  <2>4. QED
    BY <2>1, <2>2, <2>3, ConcludesRow
<1>5. CASE ScheduleRetryFails(r)
  <2>1. UNCHANGED status /\ AtWork(r)
    BY <1>5 DEF ScheduleRetryFails, AtWork
  <2>2. \A q \in Runners : AtWork(q)' => AtWork(q) /\ job'[q] = job[q]
    <3>1. CASE End(r)
      BY <3>1, EndTypes DEF AtWork
    <3>2. CASE pc' = [pc EXCEPT ![r] = "handling"] /\ UNCHANGED job
      BY <2>1, <3>2 DEF AtWork, TypeOK
    <3>3. QED
      BY <1>5, <3>1, <3>2 DEF ScheduleRetryFails
  <2>3. Busy' \subseteq Busy
    BY <2>2 DEF Busy
  <2>4. QED
    BY <2>1, <2>3, SameStage, Loses
<1>6. CASE WrapUp(r)
  <2>1. End(r) /\ ~AtWork(r) /\ Reschedule(r)
    BY <1>6 DEF WrapUp, AtWork
  <2>2. Busy' = Busy
    <3>1. ~AtWork(r)' /\ \A q \in Runners \ {r} : pc'[q] = pc[q] /\ job'[q] = job[q]
      BY <2>1, EndTypes DEF AtWork
    <3>2. QED
      BY <2>1, <3>1, RunnerStays
  <2>3. CASE UNCHANGED status
    BY <2>2, <2>3, SameStage, Loses
  <2>4. ASSUME NEW n \in Tasks, status[n] = "absent",
               status' = [status EXCEPT ![n] = "scheduled"]
        PROVE  ServiceStep
    BY <2>2, <2>4, Submits
  <2>5. QED
    BY <2>1, <2>3, <2>4 DEF Reschedule
<1>7. CASE WrapUpFails(r) \/ ScheduleRetryTwice(r)
  BY <1>7 DEF WrapUpFails, ScheduleRetryTwice, Fault, Healthy
<1>8. QED
  BY <1>1, <1>2, <1>3, <1>4, <1>5, <1>6, <1>7, Run(r) DEF Run

LEMMA SchedulerServes ==
  ASSUME Exclusive, Scheduler
  PROVE  ServiceStep
<1> USE DEF Exclusive
<1>1. ASSUME NEW due \in SUBSET Tasks, Promote(due) PROVE ServiceStep
  <2>1. \A t \in Tasks : StageOf(status'[t]) = StageOf(status[t])
    BY <1>1 DEF Promote, StageOf
  <2>2. Stage' = Stage
    BY <2>1 DEF Stage, StageOf
  <2>3. Busy' = Busy
    BY <1>1, SameBusy DEF Promote
  <2>4. QED
    BY <2>2, <2>3, Loses
<1>2. ASSUME NEW old \in SUBSET Tasks, ArchiveRead(old) PROVE ServiceStep
  BY <1>2, Stutters DEF ArchiveRead
<1>3. CASE ArchiveWrite
  <2>1. archive \in SUBSET Tasks /\ Busy' = Busy
    BY <1>3, SameBusy DEF ArchiveWrite, TypeOK
  <2>2. \A t \in archive : Stage[t] = "done"
    BY DEF Exclusion, ArchivedIsDone, Stage, StageOf, TypeOK
  <2>3. status' = [t \in Tasks |-> IF t \in archive THEN "archived" ELSE status[t]]
    BY <1>3 DEF ArchiveWrite
  <2>4. Stage' = [t \in Tasks |-> IF t \in archive THEN "archived" ELSE Stage[t]]
    BY <2>3 DEF Stage, StageOf
  <2>5. Service!Archive(archive)
    BY <2>1, <2>2, <2>4 DEF Service!Archive
  <2>6. QED
    BY <2>1, <2>5 DEF ServiceStep, Service!ServiceNext
<1>4. QED
  BY <1>1, <1>2, <1>3, Scheduler DEF Scheduler

LEMMA SweepServes ==
  ASSUME Healthy, Exclusive, NEW s \in Servers, Sweep(s)
  PROVE  ServiceStep
<1> USE DEF Exclusive
<1>1. CASE ZombieRead(s)
  BY <1>1, Stutters DEF ZombieRead
<1>2. CASE ZombieWrite(s)
  <2> DEFINE taken == {t \in Tasks : zombie[s][t] # Unseen}
             to == [t \in Tasks |-> IF zombie[s][t] >= MaxZombieRetries
                                    THEN "asking" ELSE "waiting"]
  <2>1. \A t \in taken : status[t] = "running" /\ ~Supervised(t)
    BY DEF Exclusion, SweptIsDead
  <2>2. \A t \in taken : Stage[t] = "running" /\ t \notin Busy
    BY <2>1 DEF Stage, StageOf, Busy, AtWork, Supervised, Live
  <2>3. status' = [t \in Tasks |->
                    IF t \notin taken THEN status[t]
                    ELSE IF zombie[s][t] >= MaxZombieRetries THEN "review"
                    ELSE "scheduled"]
    BY <1>2 DEF ZombieWrite, Recover
  <2>4. to \in [Tasks -> {"waiting", "asking"}] /\ taken \in SUBSET Tasks
    OBVIOUS
  <2>5. \A t \in Tasks :
          StageOf(status'[t]) = IF t \in taken THEN to[t] ELSE StageOf(status[t])
    BY <2>3 DEF StageOf
  <2> HIDE DEF taken, to
  <2>6. Stage' = [t \in Tasks |-> IF t \in taken THEN to[t] ELSE Stage[t]]
    BY <2>5 DEF Stage, StageOf
  <2>7. Busy' = Busy
    BY <1>2, SameBusy DEF ZombieWrite
  <2>8. Service!Rescue(taken)
    BY <2>2, <2>4, <2>6, <2>7 DEF Service!Rescue
  <2>9. QED
    BY <2>4, <2>8 DEF ServiceStep, Service!ServiceNext
<1>3. CASE OrphanWrite(s)
  BY <1>3 DEF OrphanWrite, Exclusion, NoEdits
<1>4. ASSUME NEW t \in Tasks, OrphanRead(s, t) \/ OrphanDelete(s, t)
      PROVE  ServiceStep
  BY <1>4 DEF OrphanRead, OrphanDelete, Healthy
<1>5. CASE BootDone(s)
  BY <1>5, Stutters DEF BootDone
<1>6. QED
  BY <1>1, <1>2, <1>3, <1>4, <1>5, Sweep(s) DEF Sweep

LEMMA NextServes ==
  ASSUME Healthy, Exclusive, [Next]_vars
  PROVE  ServiceStep
<1> USE DEF Exclusive
<1>1. CASE User
  <2>1. ASSUME NEW t \in Tasks, Create(t) PROVE ServiceStep
    <3>1. Busy' = Busy
      BY <2>1, SameBusy DEF Create
    <3>2. QED
      BY <2>1, <3>1, Submits DEF Create
  <2>2. ASSUME NEW t \in Tasks, NEW to \in UserStatus, EditRead(t, to)
        PROVE  ServiceStep
    BY <2>2, LimitsAssumption DEF EditRead, Healthy, TypeOK
  <2>3. ASSUME NEW t \in Tasks, DeleteRead(t) PROVE ServiceStep
    BY <2>3, LimitsAssumption DEF DeleteRead, Healthy, TypeOK
  <2>4. CASE EditWrite
    BY <2>4 DEF EditWrite, Exclusion, NoEdits
  <2>5. QED
    BY <1>1, <2>1, <2>2, <2>3, <2>4 DEF User
<1>2. ASSUME NEW s \in Servers, Process(s) PROVE ServiceStep
  <2>1. CASE Shutdown(s)
    BY <2>1, Stutters DEF Shutdown
  <2>2. CASE Replace(s)
    <3>1. UNCHANGED status
      BY <2>2 DEF Replace
    <3>2. \A q \in Runners : AtWork(q)' => AtWork(q) /\ job'[q] = job[q]
      BY <2>2 DEF Replace, AtWork
    <3>3. Busy' \subseteq Busy
      BY <3>2 DEF Busy
    <3>4. QED
      BY <3>1, <3>3, SameStage, Loses
  <2>3. QED
    BY <1>2, <2>1, <2>2 DEF Process, Crash, Exit
<1>3. CASE Tick
  BY <1>3, Stutters DEF Tick
<1>4. CASE TickWithLapse
  BY <1>4, Stutters DEF TickWithLapse
<1>5. CASE UNCHANGED vars
  BY <1>5, Stutters DEF vars
<1>6. QED
  BY <1>1, <1>2, <1>3, <1>4, <1>5, ManagerServes, RunServes, SchedulerServes,
     SweepServes DEF Next

-----------------------------------------------------------------------------
\* The replicas, coroutines and sweeps together are the service: a task is run
\* by one execution at a time, concluded by the one at work, and taken up by a
\* sweep only when that one is lost.
THEOREM Refinement == ASSUME Healthy PROVE Spec => ImplementsTaskService
<1>1. Init => Service!ServiceInit
  BY DEF Init, Service!ServiceInit, Stage, StageOf, Busy, AtWork
<1>2. Exclusive /\ [Next]_vars => Exclusive'
  BY ExclusionStep
<1>3. Exclusive /\ [Next]_vars => ServiceStep
  BY NextServes
<1>4. QED
  BY <1>1, <1>2, <1>3, ExclusionInit, PTL
  DEF Spec, ServiceStep, ImplementsTaskService, Service!ServiceSpec
=============================================================================
