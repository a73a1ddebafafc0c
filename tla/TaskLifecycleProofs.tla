------------------------- MODULE TaskLifecycleProofs -------------------------
(***************************************************************************)
(* Proofs about TaskLifecycle, for any number of rows, replicas, coroutine *)
(* slots and failures.                                                     *)
(***************************************************************************)
EXTENDS TaskLifecycle, TLAPS

USE DEF rows, leading, runners, sweeps, bounds

-----------------------------------------------------------------------------
(* Type correctness                                                        *)

LEMMA TypeInit == Init => TypeOK
<1> USE LimitsAssumption, NamesAssumption
<1> QED
  BY DEF Init, TypeOK, NothingRead, NoEdit, Unseen, Status, UserStatus, MgrState, PC

\* What the helpers shared by several actions leave in the variables they write.
LEMMA EndTypes ==
  ASSUME TypeOK, NEW r \in Runners, End(r)
  PROVE  /\ pc' \in [Runners -> PC] /\ job' \in [Runners -> Tasks \cup {NoTask}]
         /\ host' \in [Runners -> Servers \cup {NoServer}]
         /\ seen' \in [Runners -> Nat]
         /\ pc'[r] = "off"
         /\ \A q \in Runners \ {r} : pc'[q] = pc[q] /\ job'[q] = job[q]
                                     /\ host'[q] = host[q] /\ seen'[q] = seen[q]
BY DEF End, TypeOK, PC

LEMMA RescheduleTypes ==
  ASSUME TypeOK, NEW r \in Runners, pc[r] # "off", Reschedule(r)
  PROVE  /\ status' \in [Tasks -> Status]
         /\ tags' \in [Tasks -> SUBSET {"Retry", "Failed"}]
         /\ chain' \in [Tasks -> Tasks]
<1> USE DEF TypeOK
<1>1. job[r] \in Tasks
  OBVIOUS
<1>2. CASE UNCHANGED <<status, tags, chain>>
  BY <1>2
<1>3. ASSUME NEW n \in Tasks,
             status' = [status EXCEPT ![n] = "scheduled"],
             tags' = [tags EXCEPT ![n] = tags[job[r]]],
             chain' = [chain EXCEPT ![n] = chain[job[r]]]
      PROVE  /\ status' \in [Tasks -> Status]
             /\ tags' \in [Tasks -> SUBSET {"Retry", "Failed"}]
             /\ chain' \in [Tasks -> Tasks]
  BY <1>1, <1>3 DEF Status, UserStatus
<1>4. QED
  BY <1>2, <1>3 DEF Reschedule

LEMMA RetryTypes ==
  ASSUME TypeOK, NEW r \in Runners, pc[r] # "off", RetryWrite(r)
  PROVE  /\ status' \in [Tasks -> Status] /\ retry' \in [Tasks -> Nat]
         /\ tags' \in [Tasks -> SUBSET {"Retry", "Failed"}]
         /\ age' \in [Tasks -> Nat] /\ UNCHANGED chain
<1> USE DEF TypeOK
<1>1. job[r] \in Tasks
  OBVIOUS
<1>2. status' \in [Tasks -> Status] /\ tags' \in [Tasks -> SUBSET {"Retry", "Failed"}]
  <2>1. CASE status' = [status EXCEPT ![job[r]] = "scheduled"]
             /\ tags' = [tags EXCEPT ![job[r]] = @ \cup {"Retry"}]
    BY <1>1, <2>1 DEF Status, UserStatus
  <2>2. CASE status' = [status EXCEPT ![job[r]] = "review"]
             /\ tags' = [tags EXCEPT ![job[r]] = (@ \ {"Retry"}) \cup {"Failed"}]
    BY <1>1, <2>2 DEF Status, UserStatus
  <2>3. QED
    BY <2>1, <2>2 DEF RetryWrite
<1>3. retry' \in [Tasks -> Nat] /\ age' \in [Tasks -> Nat]
  BY <1>1 DEF RetryWrite
<1>4. QED
  BY <1>2, <1>3 DEF RetryWrite

LEMMA RecoverTypes ==
  ASSUME TypeOK, NEW found \in [Tasks -> Nat \cup {Unseen}], Recover(found)
  PROVE  /\ status' \in [Tasks -> Status] /\ retry' \in [Tasks -> Nat]
         /\ age' \in [Tasks -> Nat]
         /\ UNCHANGED <<tags, chain>>
<1> DEFINE taken == {t \in Tasks : found[t] # Unseen}
<1>1. \A t \in taken : found[t] \in Nat
  BY DEF Unseen
<1> HIDE DEF taken
<1> USE LimitsAssumption DEF TypeOK
<1>2. status' = [t \in Tasks |->
                  IF t \notin taken THEN status[t]
                  ELSE IF found[t] >= MaxZombieRetries THEN "review"
                  ELSE "scheduled"]
  BY DEF Recover, taken
<1>3. retry' = [t \in Tasks |->
                  IF t \in taken /\ found[t] < MaxZombieRetries
                  THEN found[t] + 1 ELSE retry[t]]
  BY DEF Recover, taken
<1>4. age' = [t \in Tasks |-> IF t \in taken THEN 0 ELSE age[t]]
  BY DEF Recover, taken
<1>5. status' \in [Tasks -> Status]
  BY <1>2 DEF Status, UserStatus
<1>6. retry' \in [Tasks -> Nat]
  BY <1>1, <1>3
<1>7. age' \in [Tasks -> Nat]
  BY <1>4
<1>8. QED
  BY <1>5, <1>6, <1>7 DEF Recover

LEMMA TypeStep == TypeOK /\ [Next]_vars => TypeOK'
<1> SUFFICES ASSUME TypeOK, [Next]_vars PROVE TypeOK'
  OBVIOUS
<1> USE LimitsAssumption, NamesAssumption
    DEF TypeOK, Status, UserStatus, MgrState, PC, Unseen
<1>1. ASSUME NEW t \in Tasks, Create(t) PROVE TypeOK'
  BY <1>1 DEF Create
<1>2. ASSUME NEW s \in Servers, AcquireLeaderLock(s) PROVE TypeOK'
  BY <1>2 DEF AcquireLeaderLock
<1>3. ASSUME NEW s \in Servers, DropLeaderSession(s) PROVE TypeOK'
  BY <1>3 DEF DropLeaderSession, Fault
<1>4. ASSUME NEW s \in Servers, PollEmpty(s) PROVE TypeOK'
  BY <1>4 DEF PollEmpty
<1>5. ASSUME NEW s \in Servers, NEW t \in Tasks, Dequeue(s, t) PROVE TypeOK'
  BY <1>5 DEF Dequeue
<1>6. ASSUME NEW s \in Servers, NEW t \in Tasks, NEW r \in Runners, Dispatch(s, t, r) PROVE TypeOK'
  BY <1>6 DEF Dispatch, MarkRunning
<1>7. ASSUME NEW s \in Servers, NEW t \in Tasks, DispatchRollsBack(s, t) PROVE TypeOK'
  BY <1>7 DEF DispatchRollsBack, Fault
<1>8. ASSUME NEW s \in Servers, NEW t \in Tasks, DispatchStrands(s, t) PROVE TypeOK'
  BY <1>8 DEF DispatchStrands, MarkRunning, Fault
<1>9. ASSUME NEW r \in Runners, Beat(r) PROVE TypeOK'
  BY <1>9 DEF Beat
<1>10. ASSUME NEW r \in Runners, NEW target \in {"completed", "review"}, Finish(r, target) PROVE TypeOK'
  BY <1>10 DEF Finish, ContainerGone
<1>11. ASSUME NEW r \in Runners, WrapUp(r) PROVE TypeOK'
  <2>1. pc[r] # "off"
    BY <1>11 DEF WrapUp
  <2>2. QED
    BY <1>11, <2>1, EndTypes, RescheduleTypes DEF WrapUp
<1>12. ASSUME NEW r \in Runners, WrapUpFails(r) PROVE TypeOK'
  <2>1. pc[r] # "off" /\ job[r] \in Tasks /\ host[r] \in Servers
    BY <1>12 DEF WrapUpFails
  <2>2. QED
    BY <1>12, <2>1, RescheduleTypes DEF WrapUpFails, Fault
<1>13. ASSUME NEW r \in Runners, Fail(r) \/ Handle(r) PROVE TypeOK'
  <2>1. pc[r] # "off" /\ job[r] \in Tasks
    BY <1>13 DEF Fail, Handle
  <2>2. pc' \in [Runners -> PC] /\ seen' \in [Runners -> Nat]
    <3>1. retry[job[r]] \in Nat
      BY <2>1
    <3>2. seen' \in {seen, [seen EXCEPT ![r] = retry[job[r]]]}
      BY <1>13 DEF Fail, Handle
    <3>3. pc' \in {[pc EXCEPT ![r] = to] : to \in {"retrying", "handling", "lastretry"}}
      BY <1>13 DEF Fail, Handle
    <3>4. seen' \in [Runners -> Nat]
      BY <3>1, <3>2
    <3>5. pc' \in [Runners -> PC]
      BY <3>3
    <3>6. QED
      BY <3>4, <3>5
  <2>3. job' = job /\ host' = host /\ jobs' \subseteq Tasks
    BY <1>13 DEF Fail, Handle, ContainerGone
  <2>4. \A q \in Runners : pc'[q] # "off" => pc[q] # "off"
    BY <1>13, <2>1 DEF Fail, Handle
  <2>5. QED
    BY <1>13, <2>2, <2>3, <2>4 DEF Fail, Handle
<1>14. ASSUME NEW r \in Runners, GitFail(r) PROVE TypeOK'
  BY <1>14 DEF GitFail, ContainerGone
<1>15. ASSUME NEW r \in Runners, GitReview(r) PROVE TypeOK'
  BY <1>15 DEF GitReview, End
<1>16. ASSUME NEW r \in Runners, ScheduleRetry(r) \/ ScheduleRetryTwice(r) PROVE TypeOK'
  <2>1. RetryWrite(r) /\ pc[r] # "off" /\ job[r] \in Tasks
    BY <1>16 DEF ScheduleRetry, ScheduleRetryTwice
  <2>2. QED
    BY <1>16, <2>1, RetryTypes, EndTypes DEF ScheduleRetry, ScheduleRetryTwice, Fault
<1>17. ASSUME NEW r \in Runners, ScheduleRetryFails(r) PROVE TypeOK'
  <2>1. CASE End(r)
    BY <1>17, <2>1, EndTypes DEF ScheduleRetryFails, Fault
  <2>2. CASE pc[r] = "retrying" /\ pc' = [pc EXCEPT ![r] = "handling"]
             /\ UNCHANGED <<job, host, seen>>
    BY <1>17, <2>2 DEF ScheduleRetryFails, Fault
  <2>3. QED
    BY <1>17, <2>1, <2>2 DEF ScheduleRetryFails
<1>18. ASSUME NEW due \in SUBSET Tasks, Promote(due) PROVE TypeOK'
  BY <1>18 DEF Promote
<1>19. ASSUME NEW old \in SUBSET Tasks, ArchiveRead(old) PROVE TypeOK'
  BY <1>19 DEF ArchiveRead
<1>20. ASSUME ArchiveWrite PROVE TypeOK'
  BY <1>20 DEF ArchiveWrite
<1>21. ASSUME NEW s \in Servers, ZombieRead(s) PROVE TypeOK'
  BY <1>21 DEF ZombieRead, Fault
<1>22. ASSUME NEW s \in Servers, ZombieWrite(s) PROVE TypeOK'
  <2>1. zombie[s] \in [Tasks -> Nat \cup {Unseen}] /\ Recover(zombie[s])
    BY <1>22 DEF ZombieWrite
  <2>2. QED
    BY <1>22, <2>1, RecoverTypes DEF ZombieWrite, NothingRead
<1>23. ASSUME NEW s \in Servers, NEW t \in Tasks, OrphanRead(s, t) PROVE TypeOK'
  BY <1>23 DEF OrphanRead
<1>24. ASSUME NEW s \in Servers, OrphanWrite(s) PROVE TypeOK'
  <2>1. orphan[s] \in [Tasks -> Nat \cup {Unseen}] /\ Recover(orphan[s])
    BY <1>24 DEF OrphanWrite
  <2>2. QED
    BY <1>24, <2>1, RecoverTypes DEF OrphanWrite, NothingRead
<1>25. ASSUME NEW s \in Servers, NEW t \in Tasks, OrphanDelete(s, t) PROVE TypeOK'
  BY <1>25 DEF OrphanDelete, Fault
<1>26. ASSUME NEW s \in Servers, BootDone(s) PROVE TypeOK'
  BY <1>26 DEF BootDone
<1>27. ASSUME NEW t \in Tasks, NEW to \in UserStatus, EditRead(t, to) PROVE TypeOK'
  BY <1>27 DEF EditRead, UserStatus
<1>28. ASSUME NEW t \in Tasks, DeleteRead(t) PROVE TypeOK'
  BY <1>28 DEF DeleteRead, UserStatus
<1>29. ASSUME EditWrite PROVE TypeOK'
  <2>1. status' \in [Tasks -> Status] /\ age' \in [Tasks -> Nat]
    <3>1. CASE UNCHANGED <<status, age>>
      BY <3>1
    <3>2. ASSUME NEW a \in {0, ZombieTimeout + 1},
                 status' = [status EXCEPT ![edit.row] = edit.to],
                 age' = [age EXCEPT ![edit.row] = a]
          PROVE  status' \in [Tasks -> Status] /\ age' \in [Tasks -> Nat]
      <4>1. a \in Nat /\ edit.to \in Status
        OBVIOUS
      <4>2. QED
        BY <3>2, <4>1
    <3>3. QED
      BY <1>29, <3>1, <3>2 DEF EditWrite
  <2>2. QED
    BY <1>29, <2>1 DEF EditWrite, NoEdit
<1>30. ASSUME NEW s \in Servers, Crash(s) PROVE TypeOK'
  BY <1>30 DEF Crash, Replace, Fault, NothingRead
<1>31. ASSUME NEW s \in Servers, Shutdown(s) PROVE TypeOK'
  BY <1>31 DEF Shutdown, Fault
<1>32. ASSUME NEW s \in Servers, Exit(s) PROVE TypeOK'
  BY <1>32 DEF Exit, Replace, NothingRead
<1>33. ASSUME Tick PROVE TypeOK'
  BY <1>33 DEF Tick, Aged
<1>34. ASSUME TickWithLapse PROVE TypeOK'
  BY <1>34 DEF TickWithLapse, Aged, Fault
<1>35. CASE UNCHANGED vars
  BY <1>35 DEF vars
<1>36. ASSUME NEW s \in Servers, Manager(s) PROVE TypeOK'
  BY ONLY <1>36, <1>2, <1>3, <1>4, <1>5, <1>6, <1>7, <1>8 DEF Manager
<1>37. ASSUME NEW r \in Runners, Run(r) PROVE TypeOK'
  BY ONLY <1>37, <1>9, <1>10, <1>11, <1>12, <1>13, <1>14, <1>15, <1>16, <1>17 DEF Run
<1>38. ASSUME NEW s \in Servers, Sweep(s) \/ Process(s) PROVE TypeOK'
  BY ONLY <1>38, <1>21, <1>22, <1>23, <1>24, <1>25, <1>26, <1>30, <1>31, <1>32
  DEF Sweep, Process
<1>39. ASSUME Scheduler \/ User PROVE TypeOK'
  BY ONLY <1>39, <1>1, <1>18, <1>19, <1>20, <1>27, <1>28, <1>29 DEF Scheduler, User
<1>40. QED
  BY ONLY [Next]_vars, <1>33, <1>34, <1>35, <1>36, <1>37, <1>38, <1>39 DEF Next

\* Every variable keeps its type, and a live coroutine always has a row and a
\* replica: a crash or an exit never leaves one half registered.
THEOREM Typing == Spec => []TypeOK
BY TypeInit, TypeStep, PTL DEF Spec

-----------------------------------------------------------------------------
(* The claim                                                               *)

\* What one step does to the claims and to the rows that start to run.
FromPending(t) ==
  status[t] # "running" /\ status'[t] = "running"
    => status[t] = "pending" \/ (edit.row = t /\ edit.to = "running")
ClaimKept == ClaimedIsPending' /\ \A t \in Tasks : FromPending(t)

\* Every step but those listed leaves the statuses and the claims alone.
LEMMA ClaimFrame ==
  ASSUME ClaimedIsPending, UNCHANGED <<status, rowlock>>
  PROVE  ClaimKept
BY DEF ClaimKept, FromPending, ClaimedIsPending

LEMMA ClaimRecover ==
  ASSUME TypeOK, ClaimedIsPending, NEW found, Recover(found), UNCHANGED rowlock
  PROVE  ClaimKept
<1>1. \A t \in Tasks : status'[t] # status[t] =>
        Unlocked(t) /\ status'[t] \in {"review", "scheduled"}
  BY DEF Recover
<1>2. QED
  BY <1>1 DEF ClaimKept, FromPending, ClaimedIsPending, Unlocked

LEMMA ClaimReplace ==
  ASSUME TypeOK, ClaimedIsPending, NEW s \in Servers, Replace(s)
  PROVE  ClaimKept
<1>1. status' = status /\ \A t \in Tasks : rowlock'[t] \in {rowlock[t], NoServer}
  BY DEF Replace, rows
<1>2. QED
  BY <1>1 DEF ClaimKept, FromPending, ClaimedIsPending

LEMMA ClaimReschedule ==
  ASSUME TypeOK, ClaimedIsPending, NEW r \in Runners, Reschedule(r), UNCHANGED rowlock
  PROVE  ClaimKept
<1>1. \A t \in Tasks :
        status'[t] # status[t] => status[t] = "absent" /\ status'[t] = "scheduled"
  BY DEF Reschedule, TypeOK
<1>2. QED
  BY <1>1 DEF ClaimKept, FromPending, ClaimedIsPending

LEMMA ClaimStep ==
  ASSUME TypeOK, ClaimedIsPending, [Next]_vars
  PROVE  ClaimKept
<1> USE NamesAssumption DEF TypeOK
<1>1. ASSUME NEW t \in Tasks, Create(t) PROVE ClaimKept
  BY <1>1 DEF Create, ClaimKept, FromPending, ClaimedIsPending
<1>2. ASSUME NEW s \in Servers, Manager(s) PROVE ClaimKept
  <2>1. CASE AcquireLeaderLock(s) \/ DropLeaderSession(s) \/ PollEmpty(s)
    BY <2>1, ClaimFrame DEF AcquireLeaderLock, DropLeaderSession, PollEmpty
  <2>2. ASSUME NEW t \in Tasks, Dequeue(s, t) PROVE ClaimKept
    BY <2>2 DEF Dequeue, Dequeuable, ClaimKept, FromPending, ClaimedIsPending
  <2>3. ASSUME NEW t \in Tasks, MarkRunning(s, t) PROVE ClaimKept
    <3>1. status[t] = "pending"
      BY <2>3 DEF MarkRunning, ClaimedIsPending
    <3>2. \A u \in Tasks : u # t => status'[u] = status[u] /\ rowlock'[u] = rowlock[u]
      BY <2>3 DEF MarkRunning
    <3>3. rowlock'[t] = NoServer
      BY <2>3 DEF MarkRunning
    <3>4. QED
      BY <3>1, <3>2, <3>3 DEF ClaimKept, FromPending, ClaimedIsPending
  <2>4. ASSUME NEW t \in Tasks, DispatchRollsBack(s, t) PROVE ClaimKept
    BY <2>4 DEF DispatchRollsBack, ClaimKept, FromPending, ClaimedIsPending
  <2>5. QED
    BY <1>2, <2>1, <2>2, <2>3, <2>4 DEF Manager, Dispatch, DispatchStrands
<1>3. ASSUME NEW r \in Runners, Run(r) PROVE ClaimKept
  <2>1. CASE Beat(r) \/ Fail(r) \/ Handle(r) \/ GitFail(r) \/ ScheduleRetryFails(r)
    BY <2>1, ClaimFrame DEF Beat, Fail, Handle, GitFail, ScheduleRetryFails
  <2>2. CASE WrapUp(r) \/ WrapUpFails(r)
    BY <2>2, ClaimReschedule DEF WrapUp, WrapUpFails
  <2>3. ASSUME NEW target \in {"completed", "review", "scheduled"},
               Unlocked(job[r]), UNCHANGED rowlock,
               status' = [status EXCEPT ![job[r]] = target]
        PROVE  ClaimKept
    BY <2>3 DEF Unlocked, ClaimKept, FromPending, ClaimedIsPending
  <2>4. QED
    BY <1>3, <2>1, <2>2, <2>3 
    DEF Run, Finish, GitReview, ScheduleRetry, ScheduleRetryTwice, RetryWrite
<1>4. ASSUME Scheduler PROVE ClaimKept
  <2>1. ASSUME NEW due \in SUBSET Tasks, Promote(due) PROVE ClaimKept
    BY <2>1 DEF Promote, Unlocked, ClaimKept, FromPending, ClaimedIsPending
  <2>2. ASSUME NEW old \in SUBSET Tasks, ArchiveRead(old) PROVE ClaimKept
    BY <2>2, ClaimFrame DEF ArchiveRead
  <2>3. CASE ArchiveWrite
    BY <2>3 DEF ArchiveWrite, Unlocked, ClaimKept, FromPending, ClaimedIsPending
  <2>4. QED
    BY <1>4, <2>1, <2>2, <2>3 DEF Scheduler
<1>5. ASSUME NEW s \in Servers, Sweep(s) PROVE ClaimKept
  <2>1. CASE ZombieWrite(s) \/ OrphanWrite(s)
    BY <2>1, ClaimRecover DEF ZombieWrite, OrphanWrite
  <2>2. CASE ZombieRead(s) \/ BootDone(s)
    BY <2>2, ClaimFrame DEF ZombieRead, BootDone
  <2>3. ASSUME NEW t \in Tasks, OrphanRead(s, t) \/ OrphanDelete(s, t) PROVE ClaimKept
    BY <2>3, ClaimFrame DEF OrphanRead, OrphanDelete
  <2>4. QED
    BY <1>5, <2>1, <2>2, <2>3 DEF Sweep
<1>6. ASSUME User PROVE ClaimKept
  <2>1. ASSUME NEW t \in Tasks, NEW to \in UserStatus, EditRead(t, to) \/ DeleteRead(t)
        PROVE  ClaimKept
    BY <2>1, ClaimFrame DEF EditRead, DeleteRead
  <2>2. ASSUME NEW t \in Tasks, DeleteRead(t) PROVE ClaimKept
    BY <2>2, ClaimFrame DEF DeleteRead
  <2>3. CASE EditWrite
    <3>1. CASE UNCHANGED status
      BY <2>3, <3>1, ClaimFrame DEF EditWrite
    <3>2. CASE status' = [status EXCEPT ![edit.row] = edit.to]
      BY <2>3, <3>2 DEF EditWrite, Unlocked, ClaimKept, FromPending, ClaimedIsPending
    <3>3. QED
      BY <2>3, <3>1, <3>2 DEF EditWrite
  <2>4. QED
    BY <1>1, <1>6, <2>1, <2>2, <2>3 DEF User
<1>7. ASSUME NEW s \in Servers, Process(s) PROVE ClaimKept
  <2>1. CASE Shutdown(s)
    BY <2>1, ClaimFrame DEF Shutdown
  <2>2. CASE Crash(s) \/ Exit(s)
    BY <2>2, ClaimReplace DEF Crash, Exit
  <2>3. QED
    BY <1>7, <2>1, <2>2 DEF Process
<1>8. CASE Tick \/ TickWithLapse \/ UNCHANGED vars
  BY <1>8, ClaimFrame DEF Tick, TickWithLapse, vars
<1>9. QED
  BY <1>2, <1>3, <1>4, <1>5, <1>6, <1>7, <1>8 DEF Next

\* Between the claim of a row and the commit that runs it, no late write, no
\* sweep and no second manager gets to the row (_dequeue_task, FOR UPDATE).
THEOREM ClaimsHold == Spec => []ClaimedIsPending
<1>1. Init => ClaimedIsPending
  BY DEF Init, ClaimedIsPending
<1>2. TypeOK /\ ClaimedIsPending /\ [Next]_vars => ClaimedIsPending'
  BY ClaimStep DEF ClaimKept
<1>3. QED
  BY <1>1, <1>2, Typing, PTL DEF Spec

\* A dispatch never overrides what another actor did to the row: a row that
\* starts to run was pending, or a user called it running.
THEOREM RunsOnlyPending == Spec => RunsFromPending
<1>1. TypeOK /\ ClaimedIsPending /\ [Next]_vars
        => [\A t \in Tasks :
             status[t] # "running" /\ status'[t] = "running"
               => status[t] = "pending" \/ (edit.row = t /\ edit.to = "running")]_vars
  BY ClaimStep DEF ClaimKept, FromPending
<1>2. QED
  BY <1>1, Typing, ClaimsHold, PTL DEF Spec, RunsFromPending

-----------------------------------------------------------------------------
(* The retry budget                                                        *)

WithinBudget(t) ==
  retry'[t] # retry[t] /\ status'[t] = "scheduled"
    => retry'[t] < MaxAttempts \/ retry'[t] <= MaxZombieRetries

LEMMA BudgetStep ==
  ASSUME TypeOK, [Next]_vars, NEW t \in Tasks
  PROVE  WithinBudget(t)
<1> USE LimitsAssumption DEF WithinBudget
<1>1. CASE UNCHANGED retry
  BY <1>1
<1>2. ASSUME NEW r \in Runners, NEW target \in {"completed", "review"}, Finish(r, target)
      PROVE  WithinBudget(t)
  BY <1>2 DEF Finish, TypeOK
<1>3. ASSUME NEW r \in Runners, RetryWrite(r) PROVE WithinBudget(t)
  <2>1. seen[r] \in Nat
    BY DEF TypeOK
  <2>2. CASE job[r] # t
    BY <1>3, <2>2 DEF RetryWrite, TypeOK
  <2>3. CASE job[r] = t /\ Exhausted(seen[r])
    BY <1>3, <2>3 DEF RetryWrite, TypeOK
  <2>4. CASE job[r] = t /\ ~Exhausted(seen[r])
    BY <1>3, <2>1, <2>4 DEF RetryWrite, Exhausted, TypeOK
  <2>5. QED
    BY <2>2, <2>3, <2>4
<1>4. ASSUME NEW found \in [Tasks -> Nat \cup {Unseen}], Recover(found)
      PROVE  WithinBudget(t)
  <2>1. CASE found[t] # Unseen /\ found[t] < MaxZombieRetries
    <3>1. retry'[t] = found[t] + 1 /\ found[t] \in Nat
      BY <1>4, <2>1 DEF Recover, Unseen
    <3>2. QED
      BY <2>1, <3>1
  <2>2. CASE ~(found[t] # Unseen /\ found[t] < MaxZombieRetries)
    BY <1>4, <2>2 DEF Recover
  <2>3. QED
    BY <2>1, <2>2
<1>5. ASSUME NEW s \in Servers, ZombieWrite(s) \/ OrphanWrite(s) PROVE WithinBudget(t)
  BY <1>4, <1>5 DEF ZombieWrite, OrphanWrite, TypeOK
<1>6. CASE vars' # vars /\ retry' # retry
  <2>1. ASSUME NEW s \in Servers, Manager(s) PROVE UNCHANGED retry
    BY <2>1 DEF Manager, AcquireLeaderLock, DropLeaderSession, PollEmpty, Dequeue,
                Dispatch, MarkRunning, DispatchRollsBack, DispatchStrands
  <2>2. ASSUME NEW s \in Servers, Process(s) PROVE UNCHANGED retry
    BY <2>2 DEF Process, Crash, Shutdown, Exit, Replace
  <2>3. ASSUME NEW s \in Servers, Sweep(s) PROVE WithinBudget(t)
    BY <1>1, <1>5, <2>3 DEF Sweep, ZombieRead, OrphanRead, OrphanDelete, BootDone
  <2>4. ASSUME NEW r \in Runners, Run(r) PROVE WithinBudget(t)
    BY <1>1, <1>2, <1>3, <2>4
    DEF Run, Beat, WrapUp, WrapUpFails, Fail, Handle, GitFail, GitReview,
        ScheduleRetry, ScheduleRetryFails, ScheduleRetryTwice
  <2>5. CASE Scheduler \/ Tick \/ TickWithLapse
    BY <1>6, <2>5 DEF Scheduler, Promote, ArchiveRead, ArchiveWrite, Tick, TickWithLapse
  <2>6. CASE User
    BY <1>6, <2>6 DEF User, Create, EditRead, DeleteRead, EditWrite
  <2>7. QED
    BY <1>1, <1>6, <2>1, <2>2, <2>3, <2>4, <2>5, <2>6 DEF Next
<1>7. QED
  BY <1>1, <1>6 DEF vars

\* No failure path queues a row again once its retries are spent, whatever
\* stale counts the two sweeps and the coroutines write over each other
\* (_schedule_retry, recover_zombie_tasks, _recover_orphaned_task).
THEOREM RetriesBounded == Spec => RetryBudget
<1>1. TypeOK /\ [Next]_vars
        => [\A t \in Tasks :
             retry'[t] # retry[t] /\ status'[t] = "scheduled"
               => retry'[t] < MaxAttempts \/ retry'[t] <= MaxZombieRetries]_vars
  BY BudgetStep DEF WithinBudget
<1>2. QED
  BY <1>1, Typing, PTL DEF Spec, RetryBudget

-----------------------------------------------------------------------------
(* Execution is exclusive                                                  *)

\* The instances whose heartbeats are written in time, whose zombie passes end
\* within their lock, whose completions are not undone, where no user edits and
\* no start-up sweep runs.  Crashes, lost leader sessions, differing lock ids,
\* failed dispatches and failed retries are all allowed.
Healthy ==
  /\ FaultKinds \cap {"lapse", "stalledpass", "wrapup"} = {}
  /\ MaxEdits = 0
  /\ ~Kubernetes

\* What a coroutine that lives says of its row.
Attended ==
  \A r \in Runners :
    /\ pc[r] \notin {"off", "completed", "reviewed"}
         => status[job[r]] = "running"
    /\ pc[r] = "completed" => status[job[r]] \in {"completed", "archived"}
    /\ pc[r] = "reviewed" => status[job[r]] = "review"

\* A coroutine's row is beaten within the interval.
Beaten ==
  \A r \in Runners :
    Live(r) /\ status[job[r]] = "running" => age[job[r]] <= HeartbeatInterval

\* What an open zombie pass took runs no more, and one pass is open at most.
SweptIsDead ==
  \A s \in Servers, t \in Tasks :
    zombie[s][t] # Unseen
      => /\ status[t] = "running" /\ ~Supervised(t)
         /\ \A o \in Servers \ {s} : zombie[o][t] = Unseen

ArchivedIsDone == \A t \in archive : status[t] = "completed"

\* Nothing is open that a healthy instance never opens.
NoEdits == edit = NoEdit /\ orphan = [s \in Servers |-> NothingRead]

Exclusion ==
  SingleExecution /\ Attended /\ Beaten /\ SweptIsDead /\ ArchivedIsDone /\ NoEdits

Exclusive == TypeOK /\ ClaimedIsPending /\ Exclusion

LEMMA ExclusionFrame ==
  ASSUME Exclusion, UNCHANGED <<status, age, pc, job, sweeps, edit>>
  PROVE  Exclusion'
BY DEF Exclusion, SingleExecution, Attended, Beaten, SweptIsDead, ArchivedIsDone,
       NoEdits, Live, Supervised

\* The row of a coroutine is in one of the states it knows, so a row in any
\* other state has none.
LEMMA NoRunnerOn ==
  ASSUME TypeOK, Attended, NEW t \in Tasks,
         status[t] \in {"absent", "scheduled", "pending", "deleted"}
  PROVE  ~Supervised(t)
BY DEF Attended, Supervised, Live, TypeOK, PC

\* A step that moves rows nobody runs and no sweep or archival holds, to a
\* state other than running, keeps the exclusion.
LEMMA ExclusionIdleRows ==
  ASSUME TypeOK, Exclusion, UNCHANGED <<pc, job, sweeps, edit>>, status' \in [Tasks -> Status],
         \A t \in Tasks :
           \/ status'[t] = status[t] /\ age'[t] = age[t]
           \/ /\ ~Supervised(t) /\ status[t] \notin {"running", "completed"}
              /\ status'[t] # "running"
  PROVE  Exclusion'
<1> USE DEF Exclusion
<1>1. \A r \in Runners : Live(r) => job[r] \in Tasks /\ Supervised(job[r])
  BY DEF TypeOK, Live, Supervised
<1>2. \A r \in Runners : Live(r) =>
        status'[job[r]] = status[job[r]] /\ age'[job[r]] = age[job[r]]
  BY <1>1
<1>3. Attended' /\ Beaten' /\ SingleExecution'
  BY <1>2 DEF Attended, Beaten, SingleExecution, Live
<1>4. SweptIsDead' /\ ArchivedIsDone' /\ NoEdits'
  BY DEF SweptIsDead, ArchivedIsDone, NoEdits, Supervised, Live, TypeOK
<1>5. QED
  BY <1>3, <1>4

\* A step in which coroutine r alone moves on, writing only its own row.
LEMMA ExclusionRunner ==
  ASSUME TypeOK, Exclusion, UNCHANGED <<sweeps, edit>>,
         NEW r \in Runners, Live(r),
         status[job[r]] # "completed" \/ status'[job[r]] = status[job[r]],
         \A t \in Tasks \ {job[r]} : status'[t] = status[t] /\ age'[t] = age[t],
         \A q \in Runners \ {r} : pc'[q] = pc[q] /\ job'[q] = job[q],
         \/ pc'[r] = "off"
         \/ /\ job'[r] = job[r]
            /\ pc'[r] \notin {"off", "completed", "reviewed"}
                 => status'[job[r]] = "running"
            /\ pc'[r] = "completed" => status'[job[r]] \in {"completed", "archived"}
            /\ pc'[r] = "reviewed" => status'[job[r]] = "review"
            /\ status'[job[r]] = "running" => age'[job[r]] <= HeartbeatInterval
  PROVE  Exclusion'
<1> USE DEF Exclusion
<1>1. job[r] \in Tasks /\ Supervised(job[r])
  BY DEF TypeOK, Live, Supervised
<1>2. \A q \in Runners \ {r} : Live(q) =>
        job[q] \in Tasks \ {job[r]} /\ status'[job[q]] = status[job[q]]
          /\ age'[job[q]] = age[job[q]]
  BY DEF SingleExecution, TypeOK, Live
<1>3. SingleExecution'
  BY DEF SingleExecution, Live
<1>4. Attended'
  BY <1>2 DEF Attended, Live
<1>5. Beaten'
  BY <1>2 DEF Beaten, Live
<1>6. \A t \in Tasks \ {job[r]} : ~Supervised(t) => ~Supervised(t)'
  BY DEF Supervised, Live
<1>7. SweptIsDead'
  BY <1>1, <1>6 DEF SweptIsDead
<1>8. ArchivedIsDone'
  BY DEF ArchivedIsDone, TypeOK
<1>9. NoEdits'
  BY DEF NoEdits
<1>10. QED
  BY <1>3, <1>4, <1>5, <1>7, <1>8, <1>9

\* The poll loop: only MarkRunning writes a row, and only the coroutine it
\* starts is new to it.
LEMMA ExclusionManager ==
  ASSUME TypeOK, ClaimedIsPending, Exclusion, NEW s \in Servers, Manager(s)
  PROVE  Exclusion'
<1>1. CASE AcquireLeaderLock(s) \/ DropLeaderSession(s) \/ PollEmpty(s)
  BY <1>1, ExclusionFrame DEF AcquireLeaderLock, DropLeaderSession, PollEmpty
<1>2. ASSUME NEW t \in Tasks, Dequeue(s, t) \/ DispatchRollsBack(s, t) PROVE Exclusion'
  BY <1>2, ExclusionFrame DEF Dequeue, DispatchRollsBack
<1>3. ASSUME NEW t \in Tasks, MarkRunning(s, t),
             \/ UNCHANGED runners
             \/ \E r \in Runners :
                  /\ pc[r] = "off"
                  /\ pc' = [pc EXCEPT ![r] = "working"] /\ job' = [job EXCEPT ![r] = t]
      PROVE  Exclusion'
  <2> USE DEF Exclusion
  <2>1. status[t] = "pending" /\ ~Supervised(t)
    BY <1>3, NamesAssumption, NoRunnerOn DEF MarkRunning, ClaimedIsPending
  <2>2. /\ status' = [status EXCEPT ![t] = "running"] /\ age' = [age EXCEPT ![t] = 0]
        /\ UNCHANGED <<sweeps, edit>>
    BY <1>3 DEF MarkRunning
  <2>3. \A q \in Runners : Live(q) => job[q] \in Tasks \ {t}
    BY <2>1 DEF Supervised, TypeOK, Live
  <2>4. \A q \in Runners :
          \/ pc'[q] = pc[q] /\ job'[q] = job[q]
          \/ pc[q] = "off" /\ pc'[q] = "working" /\ job'[q] = t
    BY <1>3 DEF TypeOK
  <2>5. \A p, q \in Runners :
          Live(p)' /\ Live(q)' /\ job'[p] = t /\ job'[q] = t => p = q
    BY <1>3, <2>3 DEF Live, TypeOK
  <2>6. SingleExecution'
    <3> SUFFICES ASSUME NEW p \in Runners, NEW q \in Runners,
                        Live(p)', Live(q)', job'[p] = job'[q]
                 PROVE  p = q
      BY DEF SingleExecution
    <3>1. CASE job'[p] = t
      BY <2>5, <3>1
    <3>2. CASE job'[p] # t
      BY <2>4, <3>2 DEF SingleExecution, Live
    <3>3. QED
      BY <3>1, <3>2
  <2>7. Attended'
    BY <2>2, <2>3, <2>4 DEF Attended, TypeOK, Live
  <2>8. Beaten'
    BY <2>2, <2>3, <2>4, LimitsAssumption DEF Beaten, Live, TypeOK
  <2>9. SweptIsDead'
    <3>1. \A o \in Servers : zombie[o][t] = Unseen
      BY <2>1 DEF SweptIsDead
    <3>2. \A u \in Tasks \ {t} : ~Supervised(u) => ~Supervised(u)'
      BY <2>4 DEF Supervised, Live
    <3>3. QED
      BY <2>2, <3>1, <3>2 DEF SweptIsDead, TypeOK
  <2>10. ArchivedIsDone' /\ NoEdits'
    BY <2>1, <2>2 DEF ArchivedIsDone, NoEdits, TypeOK
  <2>11. QED
    BY <2>6, <2>7, <2>8, <2>9, <2>10
<1>4. ASSUME NEW t \in Tasks, NEW r \in Runners, Dispatch(s, t, r) PROVE Exclusion'
  BY <1>3, <1>4 DEF Dispatch
<1>5. ASSUME NEW t \in Tasks, DispatchStrands(s, t) PROVE Exclusion'
  BY <1>3, <1>5 DEF DispatchStrands
<1>6. QED
  BY <1>1, <1>2, <1>4, <1>5 DEF Manager

LEMMA ExclusionRun ==
  ASSUME Healthy, TypeOK, Exclusion, NEW r \in Runners, Run(r)
  PROVE  Exclusion'
<1>1. CASE Beat(r)
  <2>1. Live(r) /\ job[r] \in Tasks /\ status[job[r]] = "running"
    BY <1>1 DEF Beat, TypeOK, Live
  <2>2. QED
    BY <1>1, <2>1, ExclusionRunner, LimitsAssumption DEF Beat, TypeOK, Exclusion, Attended
<1>2. ASSUME NEW target \in {"completed", "review"}, Finish(r, target) PROVE Exclusion'
  <2>1. Live(r) /\ job[r] \in Tasks /\ status[job[r]] = "running"
    BY <1>2 DEF Finish, TypeOK, Live, Exclusion, Attended
  <2>2. status'[job[r]] = target
        /\ pc'[r] = (IF target = "completed" THEN "completed" ELSE "reviewed")
    BY <1>2, <2>1 DEF Finish, TypeOK
  <2>3. QED
    BY <1>2, <2>1, <2>2, ExclusionRunner DEF Finish, TypeOK
<1>3. CASE Fail(r) \/ Handle(r) \/ GitFail(r)
  <2>1. Live(r) /\ job[r] \in Tasks /\ status[job[r]] = "running"
        /\ age[job[r]] <= HeartbeatInterval
    BY <1>3 DEF Fail, Handle, GitFail, TypeOK, Live, Exclusion, Attended, Beaten
  <2>2. pc'[r] \in {"retrying", "handling", "lastretry", "gitretrying", "gitreview"}
    BY <1>3 DEF Fail, Handle, GitFail, TypeOK
  <2>3. QED
    BY <1>3, <2>1, <2>2, ExclusionRunner DEF Fail, Handle, GitFail, TypeOK
<1>4. CASE GitReview(r) \/ ScheduleRetry(r)
  <2>1. Live(r) /\ job[r] \in Tasks /\ status[job[r]] = "running"
    BY <1>4 DEF GitReview, ScheduleRetry, RetryWrite, TypeOK, Live, Exclusion, Attended
  <2>2. \A t \in Tasks \ {job[r]} : status'[t] = status[t] /\ age'[t] = age[t]
    BY <1>4 DEF GitReview, ScheduleRetry, RetryWrite, TypeOK
  <2>3. End(r) /\ UNCHANGED <<sweeps, edit>>
    BY <1>4 DEF GitReview, ScheduleRetry
  <2>4. QED
    BY <2>1, <2>2, <2>3, EndTypes, ExclusionRunner
<1>5. CASE ScheduleRetryFails(r)
  <2>1. Live(r) /\ job[r] \in Tasks /\ status[job[r]] = "running"
        /\ age[job[r]] <= HeartbeatInterval
    BY <1>5 DEF ScheduleRetryFails, TypeOK, Live, Exclusion, Attended, Beaten
  <2>2. UNCHANGED <<status, age, sweeps, edit>>
    BY <1>5 DEF ScheduleRetryFails
  <2>3. CASE End(r)
    BY <2>1, <2>2, <2>3, EndTypes, ExclusionRunner
  <2>4. CASE pc' = [pc EXCEPT ![r] = "handling"] /\ UNCHANGED job
    BY <2>1, <2>2, <2>4, ExclusionRunner DEF TypeOK
  <2>5. QED
    BY <1>5, <2>3, <2>4 DEF ScheduleRetryFails
<1>6. CASE WrapUp(r)
  <2>1. Live(r) /\ pc[r] # "off" /\ job[r] \in Tasks
    BY <1>6 DEF WrapUp, TypeOK, Live
  <2>2. \A t \in Tasks :
          \/ status'[t] = status[t]
          \/ status[t] = "absent" /\ status'[t] = "scheduled"
    BY <1>6 DEF WrapUp, Reschedule, TypeOK
  <2>3. \A t \in Tasks : status'[t] = status[t] \/ ~Supervised(t)
    BY <2>2, NoRunnerOn DEF Exclusion
  <2>4. UNCHANGED <<age, sweeps, edit>>
    BY <1>6 DEF WrapUp
  <2>5. End(r) /\ status' \in [Tasks -> Status]
    BY <1>6, <2>1, RescheduleTypes DEF WrapUp
  <2> USE DEF Exclusion
  <2>6. \A q \in Runners : Live(q)' =>
          /\ Live(q) /\ pc'[q] = pc[q] /\ job'[q] = job[q]
          /\ status'[job[q]] = status[job[q]]
    BY <2>3, <2>5, EndTypes DEF Live, Supervised, TypeOK
  <2>7. \A t \in Tasks : ~Supervised(t) => ~Supervised(t)'
    BY <2>6 DEF Supervised
  <2>8. SingleExecution' /\ Attended' /\ Beaten'
    <3>1. SingleExecution'
      BY <2>6 DEF SingleExecution
    <3>2. Attended'
      BY <2>6 DEF Attended, Live
    <3>3. Beaten'
      BY <2>4, <2>6 DEF Beaten
    <3>4. QED
      BY <3>1, <3>2, <3>3
  <2>9. SweptIsDead' /\ ArchivedIsDone' /\ NoEdits'
    BY <2>2, <2>4, <2>7 DEF SweptIsDead, ArchivedIsDone, NoEdits, TypeOK
  <2>10. QED
    BY <2>8, <2>9
<1>7. CASE WrapUpFails(r) \/ ScheduleRetryTwice(r)
  BY <1>7 DEF WrapUpFails, ScheduleRetryTwice, Fault, Healthy
<1>8. QED
  BY <1>1, <1>2, <1>3, <1>4, <1>5, <1>6, <1>7, Run(r) DEF Run

LEMMA ExclusionScheduler ==
  ASSUME TypeOK, TypeOK', Exclusion, Scheduler
  PROVE  Exclusion'
<1>1. ASSUME NEW due \in SUBSET Tasks, Promote(due) PROVE Exclusion'
  BY <1>1, ExclusionIdleRows, NoRunnerOn DEF Promote, Exclusion, TypeOK
<1>2. ASSUME NEW old \in SUBSET Tasks, ArchiveRead(old) PROVE Exclusion'
  BY <1>2 DEF ArchiveRead, Exclusion, SingleExecution, Attended, Beaten,
              SweptIsDead, ArchivedIsDone, NoEdits, Live, Supervised
<1>3. CASE ArchiveWrite
  <2> USE DEF Exclusion
  <2>1. \A t \in Tasks :
          \/ status'[t] = status[t] /\ age'[t] = age[t]
          \/ status[t] = "completed" /\ status'[t] = "archived"
    BY <1>3 DEF ArchiveWrite, ArchivedIsDone
  <2>2. UNCHANGED <<pc, job, zombie, orphan, edit>> /\ archive' = {}
    BY <1>3 DEF ArchiveWrite
  <2>3. \A q \in Runners : Live(q) => job[q] \in Tasks
    BY DEF TypeOK, Live
  <2>4. Attended' /\ Beaten' /\ SingleExecution'
    <3>1. Attended'
      BY <2>1, <2>2, <2>3 DEF Attended, Live
    <3>2. Beaten'
      BY <2>1, <2>2, <2>3 DEF Beaten, Live
    <3>3. SingleExecution'
      BY <2>2 DEF SingleExecution, Live
    <3>4. QED
      BY <3>1, <3>2, <3>3
  <2>5. SweptIsDead' /\ ArchivedIsDone' /\ NoEdits'
    BY <2>1, <2>2 DEF SweptIsDead, ArchivedIsDone, NoEdits, Supervised, Live
  <2>6. QED
    BY <2>4, <2>5
<1>4. QED
  BY <1>1, <1>2, <1>3, Scheduler DEF Scheduler

\* A row is stale only if nobody beats it, so a pass takes only rows that lost
\* their coroutine, and nobody else moves them until it writes.
LEMMA ExclusionSweep ==
  ASSUME Healthy, TypeOK, Exclusion, NEW s \in Servers, Sweep(s)
  PROVE  Exclusion'
<1> USE DEF Exclusion
<1>1. CASE ZombieRead(s)
  <2>1. \A o \in Servers, t \in Tasks : zombie[o][t] = Unseen
    BY <1>1 DEF ZombieRead, Fault, Healthy, NothingRead
  <2>2. \A t \in Tasks : Stale(t) => status[t] = "running" /\ ~Supervised(t)
    BY LimitsAssumption DEF Stale, Supervised, Beaten, Live, TypeOK
  <2>3. \A o \in Servers, t \in Tasks :
          zombie'[o][t] # Unseen => o = s /\ Stale(t)
    BY <1>1, <2>1 DEF ZombieRead, TypeOK
  <2>4. SweptIsDead'
    BY <1>1, <2>2, <2>3 DEF ZombieRead, SweptIsDead, Supervised, Live
  <2>5. QED
    BY <1>1, <2>4 DEF ZombieRead, SingleExecution, Attended, Beaten,
                      ArchivedIsDone, NoEdits, Live
<1>2. CASE ZombieWrite(s)
  <2>1. \A t \in Tasks :
          \/ status'[t] = status[t] /\ age'[t] = age[t]
          \/ /\ zombie[s][t] # Unseen /\ status[t] = "running" /\ ~Supervised(t)
             /\ status'[t] \in {"review", "scheduled"}
    BY <1>2 DEF ZombieWrite, Recover, SweptIsDead
  <2>2. \A r \in Runners : Live(r) =>
          /\ job[r] \in Tasks /\ status'[job[r]] = status[job[r]]
          /\ age'[job[r]] = age[job[r]]
    BY <2>1 DEF Supervised, TypeOK, Live
  <2>3. UNCHANGED <<pc, job, archive, edit, orphan>>
    BY <1>2 DEF ZombieWrite
  <2>4. SingleExecution'
    BY <2>3 DEF SingleExecution, Live
  <2>5. Attended'
    BY <2>2, <2>3 DEF Attended, Live
  <2>6. Beaten'
    BY <2>2, <2>3 DEF Beaten, Live
  <2>7. SweptIsDead'
    <3>1. \A o \in Servers, t \in Tasks :
            zombie'[o][t] # Unseen => o # s /\ zombie[o][t] # Unseen
      BY <1>2 DEF ZombieWrite, NothingRead, TypeOK
    <3>2. \A o \in Servers, t \in Tasks :
            o # s /\ zombie[o][t] # Unseen => zombie[s][t] = Unseen
      BY DEF SweptIsDead
    <3>3. \A o \in Servers, t \in Tasks :
            zombie'[o][t] # Unseen => status'[t] = status[t]
      BY <1>2, <3>1, <3>2 DEF ZombieWrite, Recover
    <3>4. QED
      BY <2>3, <3>1, <3>3 DEF SweptIsDead, Supervised, Live
  <2>8. ArchivedIsDone' /\ NoEdits'
    BY <2>1, <2>3 DEF ArchivedIsDone, NoEdits, TypeOK
  <2>9. QED
    BY <2>4, <2>5, <2>6, <2>7, <2>8
<1>3. CASE OrphanWrite(s)
  BY <1>3 DEF OrphanWrite, NoEdits
<1>4. ASSUME NEW t \in Tasks, OrphanRead(s, t) \/ OrphanDelete(s, t) PROVE Exclusion'
  BY <1>4 DEF OrphanRead, OrphanDelete, Healthy
<1>5. CASE BootDone(s)
  BY <1>5, ExclusionFrame DEF BootDone
<1>6. QED
  BY <1>1, <1>2, <1>3, <1>4, <1>5, Sweep(s) DEF Sweep

LEMMA ExclusionReplace ==
  ASSUME TypeOK, Exclusion, NEW s \in Servers, Replace(s)
  PROVE  Exclusion'
<1> USE DEF Exclusion
<1>1. \A q \in Runners : Live(q)' => Live(q) /\ pc'[q] = pc[q] /\ job'[q] = job[q]
  BY DEF Replace, Live
<1>2. UNCHANGED <<status, age, edit>> /\ archive' \subseteq archive
  BY DEF Replace
<1>3. SingleExecution'
  BY <1>1 DEF SingleExecution
<1>4. Attended'
  BY <1>1, <1>2 DEF Attended, Live
<1>5. Beaten'
  BY <1>1, <1>2 DEF Beaten
<1>6. \A t \in Tasks : ~Supervised(t) => ~Supervised(t)'
  BY <1>1 DEF Supervised
<1>7. \A o \in Servers, t \in Tasks : zombie'[o][t] # Unseen =>
        zombie'[o][t] = zombie[o][t]
  BY DEF Replace, NothingRead, TypeOK
<1>8. \A o \in Servers, t \in Tasks : zombie[o][t] = Unseen => zombie'[o][t] = Unseen
  BY DEF Replace, NothingRead, TypeOK
<1>9. SweptIsDead'
  BY <1>2, <1>6, <1>7, <1>8 DEF SweptIsDead
<1>10. ArchivedIsDone' /\ NoEdits'
  BY <1>2 DEF Replace, ArchivedIsDone, NoEdits, TypeOK
<1>11. QED
  BY <1>3, <1>4, <1>5, <1>9, <1>10

LEMMA ExclusionStep ==
  ASSUME Healthy, Exclusive, [Next]_vars
  PROVE  Exclusive'
<1> USE DEF Exclusive
<1>1. TypeOK'
  BY TypeStep
<1>2. ClaimedIsPending'
  BY ClaimStep DEF ClaimKept
<1>3. CASE User
  <2>1. ASSUME NEW t \in Tasks, Create(t) PROVE Exclusion'
    BY <1>1, <2>1, ExclusionIdleRows, NoRunnerOn DEF Create, Exclusion, TypeOK
  <2>2. ASSUME NEW t \in Tasks, NEW to \in UserStatus, EditRead(t, to) \/ DeleteRead(t)
        PROVE  Exclusion'
    BY <2>2, LimitsAssumption DEF EditRead, DeleteRead, Healthy, TypeOK
  <2>3. ASSUME NEW t \in Tasks, DeleteRead(t) PROVE Exclusion'
    BY <2>3, LimitsAssumption DEF DeleteRead, Healthy, TypeOK
  <2>4. CASE EditWrite
    BY <2>4 DEF EditWrite, Exclusion, NoEdits
  <2>5. QED
    BY <1>3, <2>1, <2>2, <2>3, <2>4, <1>1, <1>2 DEF User
<1>4. ASSUME NEW s \in Servers, Process(s) PROVE Exclusion'
  BY <1>4, ExclusionFrame, ExclusionReplace DEF Process, Shutdown, Crash, Exit
<1>5. CASE Tick
  <2> USE DEF Exclusion
  <2>1. UNCHANGED <<status, pc, job, sweeps, edit>>
    BY <1>5 DEF Tick
  <2>2. Beaten'
    BY <1>5, <2>1, LimitsAssumption DEF Tick, Aged, Beaten, Live, TypeOK
  <2>3. SingleExecution' /\ Attended'
    BY <2>1 DEF SingleExecution, Attended, Live
  <2>4. SweptIsDead' /\ ArchivedIsDone' /\ NoEdits'
    BY <2>1 DEF SweptIsDead, ArchivedIsDone, NoEdits, Supervised, Live
  <2>5. QED
    BY <1>1, <1>2, <2>2, <2>3, <2>4
<1>6. CASE TickWithLapse
  BY <1>6 DEF TickWithLapse, Fault, Healthy
<1>7. CASE UNCHANGED vars
  BY <1>1, <1>2, <1>7, ExclusionFrame DEF vars
<1>8. QED
  BY <1>1, <1>2, <1>3, <1>4, <1>5, <1>6, <1>7, ExclusionManager, ExclusionRun,
     ExclusionScheduler, ExclusionSweep DEF Next

LEMMA ExclusionInit == Init => Exclusive
<1> SUFFICES ASSUME Init PROVE Exclusive
  OBVIOUS
<1>1. TypeOK /\ ClaimedIsPending
  BY TypeInit DEF Init, ClaimedIsPending
<1>2. Exclusion
  BY DEF Init, Exclusion, SingleExecution, Attended, Beaten, SweptIsDead,
         ArchivedIsDone, NoEdits, Live, NothingRead
<1>3. QED
  BY <1>1, <1>2 DEF Exclusive

\* No row is ever run by two coroutines, however many replicas believe they
\* lead, crash or lose their leader session in between.
THEOREM OneExecution == ASSUME Healthy PROVE Spec => []SingleExecution
<1>1. Exclusive /\ [Next]_vars => Exclusive'
  BY ExclusionStep
<1>2. Exclusive => SingleExecution
  BY DEF Exclusive, Exclusion
<1>3. QED
  BY <1>1, <1>2, ExclusionInit, PTL DEF Spec

\* The unconditional writes of a coroutine land on a row that is still its own.
THEOREM RunsItsOwn == ASSUME Healthy PROVE Spec => []OwnedWhileRun
<1>1. Exclusive /\ [Next]_vars => Exclusive'
  BY ExclusionStep
<1>2. Exclusive => OwnedWhileRun
  BY DEF Exclusive, Exclusion, Attended, OwnedWhileRun
<1>3. QED
  BY <1>1, <1>2, ExclusionInit, PTL DEF Spec

-----------------------------------------------------------------------------
(* A recurrence does not fork                                              *)

\* Where a recurrence stands: at an active row, or at a completed one whose
\* coroutine has yet to clone it.
Continuing(t) ==
  Active(t) \/ \E r \in Runners : pc[r] = "completed" /\ job[r] = t

\* The row a recurrence began with, and every row that continues it, exist.
Rooted ==
  \A t \in Tasks :
    chain[t] # t => status[t] # "absent" /\ status[chain[t]] # "absent"

OneStand ==
  \A t, u \in Tasks : chain[t] = chain[u] /\ Continuing(t) /\ Continuing(u) => t = u

Lineage == Rooted /\ OneStand

\* A step that creates no row, and at most ends recurrences.
LEMMA LineageFrame ==
  ASSUME TypeOK, Lineage, UNCHANGED chain,
         \A t \in Tasks : status'[t] = "absent" => status[t] = "absent",
         \A t \in Tasks : Continuing(t)' => Continuing(t)
  PROVE  Lineage'
<1>1. Rooted'
  BY DEF Lineage, Rooted, TypeOK
<1>2. OneStand'
  BY DEF Lineage, OneStand
<1>3. QED
  BY <1>1, <1>2 DEF Lineage

\* A step that moves no row and lets no coroutine complete one.
LEMMA LineageRests ==
  ASSUME TypeOK, Lineage, UNCHANGED <<status, chain>>,
         \A r \in Runners : pc'[r] = "completed" => pc[r] = "completed" /\ job'[r] = job[r]
  PROVE  Lineage'
<1>1. \A t \in Tasks : Continuing(t)' => Continuing(t)
  BY DEF Continuing, Active
<1>2. QED
  BY <1>1, LineageFrame

\* A step that moves the row of coroutine r, which runs; the coroutine may
\* complete it.
LEMMA LineageRunner ==
  ASSUME TypeOK, Lineage, UNCHANGED chain, NEW r \in Runners,
         job[r] \in Tasks, status[job[r]] = "running",
         NEW s \in {"completed", "review", "scheduled", "running"},
         status' = [status EXCEPT ![job[r]] = s],
         pc'[r] = "completed" => job'[r] = job[r],
         \A q \in Runners \ {r} : pc'[q] = pc[q] /\ job'[q] = job[q]
  PROVE  Lineage'
<1>1. \A t \in Tasks \ {job[r]} : status'[t] = status[t]
  BY DEF TypeOK
<1>2. status'[job[r]] = s
  BY DEF TypeOK
<1>3. Continuing(job[r])
  BY DEF Continuing, Active
<1>4. \A t \in Tasks \ {job[r]} : Continuing(t)' => Continuing(t)
  BY <1>1 DEF Continuing, Active
<1>5. QED
  BY <1>1, <1>2, <1>3, <1>4, LineageFrame

\* A new row begins a recurrence of its own.
LEMMA LineageCreate ==
  ASSUME TypeOK, Lineage, NEW t \in Tasks, Create(t)
  PROVE  Lineage'
<1>1. status[t] = "absent" /\ chain[t] = t /\ UNCHANGED <<chain, pc, job>>
  BY DEF Create, Lineage, Rooted
<1>2. \A u \in Tasks \ {t} : status'[u] = status[u] /\ chain[u] # t
  BY <1>1 DEF Create, TypeOK, Lineage, Rooted
<1>3. status'[t] # "absent"
  BY DEF Create, TypeOK
<1>4. \A u \in Tasks \ {t} : Continuing(u)' => Continuing(u)
  BY <1>1, <1>2 DEF Continuing, Active
<1>5. Rooted'
  BY <1>1, <1>2, <1>3 DEF Lineage, Rooted, TypeOK
<1>6. OneStand'
  BY <1>1, <1>2, <1>4 DEF Lineage, OneStand
<1>7. QED
  BY <1>5, <1>6 DEF Lineage

\* The clone takes the place of the row it is made of.
LEMMA LineageWrapUp ==
  ASSUME Exclusive, Lineage, NEW r \in Runners, WrapUp(r)
  PROVE  Lineage'
<1> USE DEF Exclusive
<1>1. /\ pc'[r] = "off"
      /\ \A q \in Runners \ {r} : pc'[q] = pc[q] /\ job'[q] = job[q]
  BY DEF WrapUp, End, TypeOK
<1>2. CASE UNCHANGED <<status, tags, chain>>
  BY <1>1, <1>2, LineageRests
<1>3. ASSUME NEW n \in Tasks, pc[r] = "completed", status[n] = "absent",
             status' = [status EXCEPT ![n] = "scheduled"],
             chain' = [chain EXCEPT ![n] = chain[job[r]]]
      PROVE  Lineage'
  <2>1. PICK t \in Tasks : t = job[r] /\ status[t] \in {"completed", "archived"}
    BY <1>3 DEF TypeOK, Exclusion, Attended
  <2>2. t # n /\ chain[n] = n /\ \A u \in Tasks \ {n} : chain[u] # n
    BY <1>3, <2>1 DEF Lineage, Rooted
  <2>3. status'[n] = "scheduled" /\ chain'[n] = chain[t]
    BY <1>3, <2>1 DEF TypeOK
  <2>4. \A u \in Tasks \ {n} : status'[u] = status[u] /\ chain'[u] = chain[u]
    BY <1>3 DEF TypeOK
  <2>5. Rooted'
    <3>1. chain[t] \in Tasks \ {n} /\ status[chain[t]] # "absent"
      BY <2>1, <2>2 DEF Lineage, Rooted, TypeOK
    <3>2. QED
      BY <2>2, <2>3, <2>4, <3>1 DEF Lineage, Rooted, TypeOK
  <2>6. Continuing(t) /\ ~Continuing(t)'
    <3>1. Continuing(t)
      BY <1>3, <2>1 DEF Continuing
    <3>2. \A q \in Runners \ {r} : Live(q) => job[q] # t
      BY <1>3, <2>1 DEF Exclusion, SingleExecution, Live
    <3>3. ~\E q \in Runners : pc'[q] = "completed" /\ job'[q] = t
      BY <1>1, <3>2 DEF Live
    <3>4. status'[t] \in {"completed", "archived"}
      BY <2>1, <2>2, <2>4
    <3>5. ~Continuing(t)'
      BY <3>3, <3>4 DEF Continuing, Active
    <3>6. QED
      BY <3>1, <3>5
  <2>7. \A u \in Tasks \ {n} : Continuing(u)' => Continuing(u)
    BY <1>1, <2>4 DEF Continuing, Active
  <2>8. \A u \in Tasks \ {n} : chain[u] = chain[t] => ~Continuing(u)'
    BY <2>1, <2>6, <2>7 DEF Lineage, OneStand
  <2>9. OneStand'
    BY <2>3, <2>4, <2>7, <2>8 DEF Lineage, OneStand
  <2>10. QED
    BY <2>5, <2>9 DEF Lineage
<1>4. QED
  BY <1>2, <1>3 DEF WrapUp, Reschedule

LEMMA LineageManager ==
  ASSUME Exclusive, Lineage, NEW s \in Servers, Manager(s)
  PROVE  Lineage'
<1> USE DEF Exclusive
<1>1. CASE AcquireLeaderLock(s) \/ DropLeaderSession(s) \/ PollEmpty(s)
  BY <1>1, LineageRests DEF AcquireLeaderLock, DropLeaderSession, PollEmpty
<1>2. ASSUME NEW t \in Tasks, Dequeue(s, t) \/ DispatchRollsBack(s, t) PROVE Lineage'
  BY <1>2, LineageRests DEF Dequeue, DispatchRollsBack
<1>3. ASSUME NEW t \in Tasks, MarkRunning(s, t),
             \A r \in Runners :
               pc'[r] = "completed" => pc[r] = "completed" /\ job'[r] = job[r]
      PROVE  Lineage'
  <2>1. status[t] = "pending" /\ UNCHANGED chain
    BY <1>3, NamesAssumption DEF MarkRunning, ClaimedIsPending
  <2>2. status' = [status EXCEPT ![t] = "running"]
    BY <1>3 DEF MarkRunning
  <2>3. \A u \in Tasks : /\ status'[u] = "absent" => status[u] = "absent"
                         /\ Continuing(u)' => Continuing(u)
    BY <1>3, <2>1, <2>2 DEF Continuing, Active, TypeOK
  <2>4. QED
    BY <2>1, <2>3, LineageFrame
<1>4. ASSUME NEW t \in Tasks, NEW r \in Runners, Dispatch(s, t, r) PROVE Lineage'
  <2>1. pc' = [pc EXCEPT ![r] = "working"] /\ job' = [job EXCEPT ![r] = t]
    BY <1>4 DEF Dispatch
  <2>2. \A q \in Runners : pc'[q] = "completed" => pc[q] = "completed" /\ job'[q] = job[q]
    BY <2>1 DEF TypeOK
  <2>3. QED
    BY <1>3, <1>4, <2>2 DEF Dispatch
<1>5. ASSUME NEW t \in Tasks, DispatchStrands(s, t) PROVE Lineage'
  BY <1>3, <1>5 DEF DispatchStrands
<1>6. QED
  BY <1>1, <1>2, <1>4, <1>5 DEF Manager

LEMMA LineageRun ==
  ASSUME Healthy, Exclusive, Lineage, NEW r \in Runners, Run(r)
  PROVE  Lineage'
<1> USE DEF Exclusive
<1>1. CASE Beat(r)
  BY <1>1, LineageRests DEF Beat
<1>2. ASSUME NEW target \in {"completed", "review"}, Finish(r, target) PROVE Lineage'
  <2>1. job[r] \in Tasks /\ status[job[r]] = "running"
    BY <1>2 DEF Finish, TypeOK, Exclusion, Attended
  <2>2. \A q \in Runners \ {r} : pc'[q] = pc[q] /\ job' = job
    BY <1>2 DEF Finish, TypeOK
  <2>3. QED
    BY <1>2, <2>1, <2>2, LineageRunner DEF Finish
<1>3. CASE Fail(r) \/ Handle(r) \/ GitFail(r) \/ ScheduleRetryFails(r)
  <2>1. \A q \in Runners : pc'[q] = "completed" => pc[q] = "completed" /\ job'[q] = job[q]
    BY <1>3 DEF Fail, Handle, GitFail, ScheduleRetryFails, End, TypeOK
  <2>2. QED
    BY <1>3, <2>1, LineageRests DEF Fail, Handle, GitFail, ScheduleRetryFails
<1>4. CASE GitReview(r) \/ ScheduleRetry(r)
  <2>1. job[r] \in Tasks /\ status[job[r]] = "running"
    BY <1>4 DEF GitReview, ScheduleRetry, TypeOK, Exclusion, Attended
  <2>2. /\ pc'[r] = "off"
        /\ \A q \in Runners \ {r} : pc'[q] = pc[q] /\ job'[q] = job[q]
    BY <1>4 DEF GitReview, ScheduleRetry, End, TypeOK
  <2>3. \E s \in {"scheduled", "review"} : status' = [status EXCEPT ![job[r]] = s]
    BY <1>4 DEF GitReview, ScheduleRetry, RetryWrite
  <2>4. QED
    BY <1>4, <2>1, <2>2, <2>3, LineageRunner DEF GitReview, ScheduleRetry, RetryWrite
<1>5. CASE WrapUp(r)
  BY <1>5, LineageWrapUp
<1>6. CASE WrapUpFails(r) \/ ScheduleRetryTwice(r)
  BY <1>6 DEF WrapUpFails, ScheduleRetryTwice, Fault, Healthy
<1>7. QED
  BY <1>1, <1>2, <1>3, <1>4, <1>5, <1>6, Run(r) DEF Run

\* Promotion keeps a row active, archiving and the sweeps start none that was
\* not.
LEMMA LineageLoops ==
  ASSUME Healthy, Exclusive, Lineage,
         Scheduler \/ \E s \in Servers : Sweep(s)
  PROVE  Lineage'
<1> USE DEF Exclusive
<1>1. ASSUME UNCHANGED <<chain, pc, job>>,
             \A t \in Tasks : \/ status'[t] = status[t]
                              \/ Active(t) /\ status'[t] # "absent"
                              \/ status'[t] = "archived"
      PROVE  Lineage'
  <2>1. \A t \in Tasks : /\ status'[t] = "absent" => status[t] = "absent"
                         /\ Continuing(t)' => Continuing(t)
    BY <1>1 DEF Continuing, Active
  <2>2. QED
    BY <1>1, <2>1, LineageFrame
<1>2. ASSUME NEW due \in SUBSET Tasks, Promote(due) PROVE Lineage'
  BY <1>1, <1>2 DEF Promote, Active
<1>3. ASSUME NEW old \in SUBSET Tasks, ArchiveRead(old) PROVE Lineage'
  BY <1>1, <1>3 DEF ArchiveRead
<1>4. CASE ArchiveWrite
  BY <1>1, <1>4 DEF ArchiveWrite
<1>5. ASSUME NEW s \in Servers, ZombieWrite(s) PROVE Lineage'
  <2>1. \A t \in Tasks : zombie[s][t] # Unseen => status[t] = "running"
    BY DEF Exclusion, SweptIsDead
  <2>2. \A t \in Tasks :
          /\ zombie[s][t] = Unseen => status'[t] = status[t]
          /\ zombie[s][t] # Unseen => status'[t] \in {"review", "scheduled"}
    BY <1>5 DEF ZombieWrite, Recover
  <2>3. \A t \in Tasks :
          status'[t] = status[t] \/ (Active(t) /\ status'[t] # "absent")
    BY <2>1, <2>2 DEF Active
  <2>4. QED
    BY <1>1, <1>5, <2>3 DEF ZombieWrite, Recover
<1>6. ASSUME NEW s \in Servers, ZombieRead(s) \/ BootDone(s) PROVE Lineage'
  BY <1>1, <1>6 DEF ZombieRead, BootDone
<1>7. ASSUME NEW s \in Servers, OrphanWrite(s) PROVE Lineage'
  BY <1>7 DEF OrphanWrite, Exclusion, NoEdits
<1>8. ASSUME NEW s \in Servers, NEW t \in Tasks, OrphanRead(s, t) \/ OrphanDelete(s, t)
      PROVE  Lineage'
  BY <1>8 DEF OrphanRead, OrphanDelete, Healthy
<1>9. QED
  BY <1>2, <1>3, <1>4, <1>5, <1>6, <1>7, <1>8 DEF Scheduler, Sweep

LEMMA LineageStep ==
  ASSUME Healthy, Exclusive, Lineage, [Next]_vars
  PROVE  Lineage'
<1> USE DEF Exclusive
<1>1. CASE User
  <2>1. ASSUME NEW t \in Tasks, Create(t) PROVE Lineage'
    BY <2>1, LineageCreate
  <2>2. ASSUME NEW t \in Tasks, NEW to \in UserStatus, EditRead(t, to) PROVE Lineage'
    BY <2>2, LimitsAssumption DEF EditRead, Healthy, TypeOK
  <2>3. ASSUME NEW t \in Tasks, DeleteRead(t) PROVE Lineage'
    BY <2>3, LimitsAssumption DEF DeleteRead, Healthy, TypeOK
  <2>4. CASE EditWrite
    BY <2>4 DEF EditWrite, Exclusion, NoEdits
  <2>5. QED
    BY <1>1, <2>1, <2>2, <2>3, <2>4 DEF User
<1>2. ASSUME NEW s \in Servers, Process(s) PROVE Lineage'
  <2>1. CASE Shutdown(s)
    BY <2>1, LineageRests DEF Shutdown
  <2>2. CASE Replace(s)
    BY <2>2, LineageRests DEF Replace
  <2>3. QED
    BY <1>2, <2>1, <2>2 DEF Process, Crash, Exit
<1>3. CASE Tick \/ TickWithLapse
  BY <1>3, LineageRests DEF Tick, TickWithLapse
<1>4. CASE UNCHANGED vars
  BY <1>4, LineageRests DEF vars
<1>5. QED
  BY <1>1, <1>2, <1>3, <1>4, LineageManager, LineageRun, LineageLoops DEF Next

\* A recurrence has one row that waits or runs, although completion and clone
\* are two commits and replicas crash in between, run the same rows and sweep
\* each other's.
THEOREM RecurrenceIsOne == ASSUME Healthy PROVE Spec => []OneOccurrence
<1> DEFINE Inv == Exclusive /\ Lineage
<1>1. Init => Inv
  <2>1. Init => Lineage
    BY DEF Init, Lineage, Rooted, OneStand
  <2>2. QED
    BY <2>1, ExclusionInit
<1>2. Inv /\ [Next]_vars => Inv'
  BY ExclusionStep, LineageStep
<1>3. Inv => OneOccurrence
  BY DEF Lineage, OneStand, OneOccurrence, Continuing
<1>4. QED
  BY <1>1, <1>2, <1>3, PTL DEF Spec

=============================================================================
