---------------------------- MODULE TaskPreparation ----------------------------
(***************************************************************************)
(* What a task goes through between its dispatch and its container: a slot *)
(* of the semaphore, which an administrator may replace; the model's       *)
(* provider; the clone of the skills repository, which tasks share; and a  *)
(* Docker container made and removed.  What its profile leaves the task is *)
(* ProfileGrants', how it ends TaskLifecycle's.                            *)
(***************************************************************************)
EXTENDS Naturals, FiniteSets, Sequences

CONSTANTS
  Workers,        \* coroutines of _run_task
  MaxLimit,       \* of max_concurrent_tasks
  MaxChanges, MaxFlops  \* bounds: changes of the settings; failures and crashes

ASSUME PreparationAssumption ==
  /\ IsFiniteSet(Workers)
  /\ MaxLimit \in Nat \ {0} /\ MaxChanges \in Nat /\ MaxFlops \in Nat

VARIABLES
  limit,          \* the setting max_concurrent_tasks
  size, free,     \* of every semaphore there has been, the last one in use
  maker,          \* the row of the model's provider
  hostNetwork,    \* containers share the host's network
  clone,          \* /tmp/errand-skills-<hash>
  worker,         \* where each one is, the semaphore it holds, whether
                  \* it needs the clone
  changes, flops

preparationVars == <<limit, size, free, maker, hostNetwork, clone, worker,
                     changes, flops>>

-----------------------------------------------------------------------------
Last     == Cardinality(DOMAIN size)
Holders(g) == {w \in Workers : worker[w].slot = g}
Away   == [step |-> "idle", slot |-> 0, repo |-> FALSE]
Change == changes < MaxChanges /\ changes' = changes + 1
Flop   == flops < MaxFlops /\ flops' = flops + 1

PreparationTypeOK ==
  /\ limit \in 0..MaxLimit
  /\ DOMAIN size = 1..Last /\ DOMAIN free = 1..Last
  /\ \A g \in 1..Last : size[g] \in 1..MaxLimit /\ free[g] \in 0..MaxLimit
  /\ maker \in {"absent", "manual", "detected"} /\ hostNetwork \in BOOLEAN
  /\ clone \in {"none", "half", "whole"}
  /\ \A w \in Workers :
       /\ worker[w].step \in {"idle", "starting", "modelled", "cloning", "pulling",
                              "gathering", "running"}
       /\ worker[w].slot \in 0..Last /\ worker[w].repo \in BOOLEAN
  /\ changes \in 0..MaxChanges /\ flops \in 0..MaxFlops

PreparationInit ==
  /\ limit \in 1..MaxLimit
  /\ size = <<limit>> /\ free = <<limit>>
  /\ maker \in {"manual", "detected"} /\ hostNetwork \in BOOLEAN
  /\ clone = "none"
  /\ worker = [w \in Workers |-> Away]
  /\ changes = 0 /\ flops = 0

-----------------------------------------------------------------------------
(* Slots                                                                   *)

SetsLimit(n) ==
  /\ n # limit /\ Change
  /\ limit' = n
  /\ UNCHANGED <<size, free, maker, hostNetwork, clone, worker, flops>>

\* _update_concurrency_setting: at least one, and a new semaphore, all free.
Resized ==
  LET n == IF limit = 0 THEN 1 ELSE limit IN
  IF n = size[Last] THEN [sizes |-> size, left |-> free]
  ELSE [sizes |-> Append(size, n), left |-> Append(free, n)]

\* _poll_and_dispatch: the settings are read now; there may be no task, and the
\* coroutine takes its slot before the next poll.
Dispatches(w, repo) ==
  LET g == Cardinality(DOMAIN Resized.sizes) IN
  /\ worker[w].step = "idle"
  /\ size' = Resized.sizes
  /\ \/ /\ Resized.left[g] > 0
        /\ free' = [Resized.left EXCEPT ![g] = @ - 1]
        /\ worker' = [worker EXCEPT ![w] =
             [Away EXCEPT !.step = "starting", !.slot = g, !.repo = repo]]
     \/ size # size' /\ free' = Resized.left /\ UNCHANGED worker
  /\ UNCHANGED <<limit, maker, hostNetwork, clone, changes, flops>>

\* Wrong: the semaphore in use now.
LatestSlot(w) == Last
HeldSlot(w) == worker[w].slot
Leaves(w) ==
  /\ free' = [free EXCEPT ![HeldSlot(w)] = @ + 1]
  /\ worker' = [worker EXCEPT ![w] = Away]

\* An exception or an error result: what follows is the task's retry.
GivesUp(w) ==
  /\ Leaves(w)
  /\ UNCHANGED <<limit, size, maker, hostNetwork, clone, changes>>

-----------------------------------------------------------------------------
(* The model's provider                                                    *)

ChangesMaker(m) ==
  /\ m # maker /\ Change
  /\ maker' = m
  /\ UNCHANGED <<limit, size, free, hostNetwork, clone, worker, flops>>

\* _resolve_provider_sync reads the row now; a detected one's address does not
\* resolve on the host's network.
Reachable == maker = "manual" \/ (maker = "detected" /\ ~hostNetwork)

ResolvesModel(w) ==
  /\ worker[w].step = "starting"
  /\ \/ /\ Reachable
        /\ worker' = [worker EXCEPT ![w].step =
                        IF worker[w].repo THEN "modelled" ELSE "gathering"]
        /\ UNCHANGED <<limit, size, free, maker, hostNetwork, clone, changes>>
     \/ ~Reachable /\ GivesUp(w)
  /\ UNCHANGED flops

-----------------------------------------------------------------------------
(* refresh_git_clone, in a thread per task, all in one directory           *)

BeginsGit(w) ==
  /\ worker[w].step = "modelled"
  /\ IF clone = "none"
       THEN clone' = "half" /\ worker' = [worker EXCEPT ![w].step = "cloning"]
       ELSE UNCHANGED clone /\ worker' = [worker EXCEPT ![w].step = "pulling"]
  /\ UNCHANGED <<limit, size, free, maker, hostNetwork, changes, flops>>

\* A clone that fails is removed by git; there is nothing to pull in half a one.
EndsGit(w) ==
  /\ worker[w].step \in {"cloning", "pulling"}
  /\ \/ /\ worker[w].step = "pulling" => clone = "whole"
        /\ clone' = "whole"
        /\ worker' = [worker EXCEPT ![w].step = "gathering"]
        /\ UNCHANGED <<free, flops>>
     \/ /\ worker[w].step = "cloning" /\ Flop
        /\ clone' = "none" /\ Leaves(w)
     \/ /\ worker[w].step = "pulling"
        /\ clone = "whole" => Flop
        /\ clone # "whole" => UNCHANGED flops
        /\ UNCHANGED clone /\ Leaves(w)
  /\ UNCHANGED <<limit, size, maker, hostNetwork, changes>>

-----------------------------------------------------------------------------
(* DockerRuntime                                                           *)

\* prepare: the image is pulled, a named volume looked for, a container made and
\* filled; after a failure nobody has its handle.
Prepares(w) ==
  /\ worker[w].step = "gathering"
  /\ \/ /\ worker' = [worker EXCEPT ![w].step = "running"]
        /\ UNCHANGED <<limit, size, free, maker, hostNetwork, clone, changes, flops>>
     \/ Flop /\ GivesUp(w)

\* run, then result: an error of the stream is only logged, one of the result
\* is raised; either way the container goes, and a failure of that is logged.
Collects(w) ==
  /\ worker[w].step = "running"
  /\ Leaves(w)
  /\ UNCHANGED <<limit, size, maker, hostNetwork, clone, changes, flops>>

\* The server is killed: half a clone stays where the directory outlives it.
Killed ==
  LET n == IF limit = 0 THEN 1 ELSE limit IN
  /\ Flop
  /\ worker' = [w \in Workers |-> Away]
  /\ size' = <<n>> /\ free' = <<n>>
  /\ clone' \in {clone, "none"}
  /\ UNCHANGED <<limit, maker, hostNetwork, changes>>

PreparationNext ==
  \/ \E n \in 0..MaxLimit : SetsLimit(n)
  \/ \E m \in {"absent", "manual", "detected"} : ChangesMaker(m)
  \/ \E w \in Workers :
       \/ \E repo \in BOOLEAN : Dispatches(w, repo)
       \/ ResolvesModel(w) \/ BeginsGit(w) \/ EndsGit(w)
       \/ Prepares(w) \/ Collects(w)
  \/ Killed

\* Every slot of every semaphore is free or held by one that took it there, so a
\* limit lowered under running tasks loses none, and once those of an older
\* semaphore are done no more run than the limit in use
\* (_update_concurrency_setting replaces a semaphore whose slots are held).
SlotsAddUp ==
  /\ \A g \in 1..Last : free[g] + Cardinality(Holders(g)) = size[g]
  /\ (\A g \in 1..(Last - 1) : Holders(g) = {}) =>
       Cardinality({w \in Workers : worker[w].slot # 0}) <= size[Last]

\* Who reads the shared clone of the skills reads a whole one, though others
\* clone and pull in the same directory at the time and a kill may leave half.
SkillsAreWhole ==
  \A w \in Workers :
    worker[w].step = "gathering" /\ worker[w].repo => clone = "whole"

\* Tasks that are prepared side by side share the slots and the clone safely.
PreparationSafe == SlotsAddUp /\ SkillsAreWhole

PreparationSpec == PreparationInit /\ [][PreparationNext]_preparationVars
=============================================================================
