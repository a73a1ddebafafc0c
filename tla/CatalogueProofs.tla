-------------------------- MODULE CatalogueProofs ---------------------------
(***************************************************************************)
(* Proofs about the preparation of a task, the catalogue of plugins and the*)
(* matrix of evaluations; and about the composition of the parts of the    *)
(* server.                                                                 *)
(***************************************************************************)
EXTENDS MCServer, ServerProofs, TaskDraftsProofs, LogStreamProofs,
        SequenceTheorems, FiniteSetTheorems, WellFoundedInduction, TLAPS

-----------------------------------------------------------------------------
(* Slots and the shared clone                                              *)

PrepSteps == {"idle", "starting", "modelled", "cloning", "pulling", "gathering", "running"}

PrepShape ==
  /\ limit \in Nat
  /\ size \in Seq(Nat) /\ free \in Seq(Nat) /\ Len(size) > 0 /\ Len(free) = Len(size)
  /\ worker \in [Workers -> [step: PrepSteps, slot: Nat, repo: BOOLEAN]]

\* Who works holds a slot of a semaphore there has been; every slot is free or held.
SlotsHeld ==
  /\ \A w \in Workers : /\ worker[w].slot \in 0..Len(size)
                        /\ worker[w].step = "idle" <=> worker[w].slot = 0
  /\ \A g \in 1..Len(size) : free[g] + Cardinality(Holders(g)) = size[g]

\* One clones at a time, and half a clone is there while it does.
OneClones ==
  /\ \A w \in Workers : worker[w].step = "cloning" => clone = "half"
  /\ \A v, w \in Workers : worker[v].step = "cloning" /\ worker[w].step = "cloning" => v = w

\* The inductive invariant.
PrepInv == PrepShape /\ SlotsHeld /\ OneClones /\ SkillsAreWhole

LEMMA HoldersFinite ==
  ASSUME NEW g PROVE IsFiniteSet(Holders(g)) /\ Cardinality(Holders(g)) \in Nat
<1>1. Holders(g) \in SUBSET Workers /\ IsFiniteSet(Workers)
  BY PreparationAssumption DEF Holders
<1>2. QED
  BY <1>1, FS_Subset, FS_CardinalityType

LEMMA CountUpTo == ASSUME NEW k \in Nat PROVE Cardinality(1..k) = k
<1>1. 1 \in Int /\ k \in Int
  OBVIOUS
<1>2. Cardinality(1..k) = IF 1 > k THEN 0 ELSE k - 1 + 1
  BY <1>1, FS_Interval
<1>3. QED
  BY <1>2

\* The semaphore in use is the last there has been.
LEMMA LastIsLen == PrepShape => Last = Len(size) /\ Len(size) \in Nat
<1> SUFFICES ASSUME PrepShape PROVE Last = Len(size) /\ Len(size) \in Nat
  OBVIOUS
<1>1. Len(size) \in Nat /\ DOMAIN size = 1..Len(size)
  BY LenProperties DEF PrepShape
<1>2. QED
  BY <1>1, CountUpTo DEF Last

LEMMA PrepInitInv == PreparationInit => PrepInv
<1> SUFFICES ASSUME PreparationInit PROVE PrepInv
  OBVIOUS
<1>1. /\ limit \in Nat /\ size = <<limit>> /\ free = <<limit>> /\ clone = "none"
      /\ worker = [w \in Workers |-> Away]
  BY PreparationAssumption DEF PreparationInit
<1>2. PrepShape /\ Len(size) = 1
  <2>1. <<limit>> \in Seq(Nat) /\ Len(<<limit>>) = 1
    BY <1>1
  <2>2. worker \in [Workers -> [step: PrepSteps, slot: Nat, repo: BOOLEAN]]
    BY <1>1 DEF Away, PrepSteps
  <2>3. QED
    BY <1>1, <2>1, <2>2 DEF PrepShape
<1>3. \A g \in 1..1 : Holders(g) = {} /\ g = 1
  BY <1>1 DEF Holders, Away
<1>4. SlotsHeld
  <2>1. \A g \in 1..1 : Cardinality(Holders(g)) = 0 /\ g = 1
    BY <1>3, FS_EmptySet
  <2>2. \A g \in 1..1 : free[g] + Cardinality(Holders(g)) = size[g]
    BY <1>1, <2>1
  <2>3. \A w \in Workers : worker[w].slot = 0 /\ worker[w].step = "idle"
    BY <1>1 DEF Away
  <2>4. QED
    BY <1>2, <2>2, <2>3 DEF SlotsHeld
<1>5. OneClones /\ SkillsAreWhole
  BY <1>1 DEF OneClones, SkillsAreWhole, Away
<1>6. QED
  BY <1>2, <1>4, <1>5 DEF PrepInv

\* A worker leaves its slot to its semaphore.
LEMMA LeaveSlots ==
  ASSUME PrepShape, SlotsHeld, NEW w \in Workers, worker[w].step # "idle",
         Leaves(w), UNCHANGED <<limit, size>>
  PROVE  PrepShape' /\ SlotsHeld'
<1> DEFINE h == worker[w].slot
<1>1. /\ h \in 1..Len(size) /\ h \in 1..Len(free) /\ free[h] \in Nat
      /\ free' = [free EXCEPT ![h] = free[h] + 1]
      /\ worker' = [worker EXCEPT ![w] = Away] /\ size' = size
  BY LastIsLen, ElementOfSeq DEF PrepShape, SlotsHeld, Leaves, HeldSlot
<1>2. /\ free' \in Seq(Nat) /\ Len(free') = Len(free)
      /\ \A g \in 1..Len(free) : free'[g] = IF g = h THEN free[h] + 1 ELSE free[g]
  BY <1>1, ExceptSeq DEF PrepShape
<1>3. PrepShape'
  BY <1>1, <1>2 DEF PrepShape, Away, PrepSteps
<1>4. /\ worker'[w] = Away /\ \A v \in Workers \ {w} : worker'[v] = worker[v]
  BY <1>1 DEF PrepShape
<1>5. \A v \in Workers : /\ worker'[v].slot \in 0..Len(size')
                         /\ worker'[v].step = "idle" <=> worker'[v].slot = 0
  BY <1>1, <1>4, LastIsLen DEF SlotsHeld, Away
<1>6. ASSUME NEW g \in 1..Len(size)
      PROVE  free'[g] + Cardinality(Holders(g)') = size[g]
  <2>0. /\ free[g] + Cardinality(Holders(g)) = size[g] /\ free[g] \in Nat
        /\ Cardinality(Holders(g)) \in Nat /\ g # 0
    BY HoldersFinite, ElementOfSeq DEF SlotsHeld, PrepShape
  <2>1. CASE g = h
    <3>1. Holders(g)' = Holders(g) \ {w} /\ w \in Holders(g)
      BY <2>0, <2>1, <1>4 DEF Holders, Away
    <3>2. Cardinality(Holders(g)') = Cardinality(Holders(g)) - 1
      BY <3>1, HoldersFinite, FS_RemoveElement
    <3>3. QED
      BY <3>2, <2>0, <2>1, <1>2, SMTT(30) DEF PrepShape
  <2>2. CASE g # h
    <3>1. Holders(g)' = Holders(g)
      BY <2>0, <2>2, <1>4 DEF Holders, Away
    <3>2. QED
      BY <3>1, <2>0, <2>2, <1>2 DEF PrepShape
  <2>3. QED
    BY <2>1, <2>2
<1>7. QED
  BY <1>1, <1>3, <1>5, <1>6 DEF SlotsHeld

\* A worker that is at work keeps its slot.
LEMMA KeepSlots ==
  ASSUME PrepShape, SlotsHeld, NEW w \in Workers, NEW s \in PrepSteps, s # "idle",
         worker[w].step # "idle", worker' = [worker EXCEPT ![w].step = s],
         UNCHANGED <<limit, size, free>>
  PROVE  PrepShape' /\ SlotsHeld'
<1>1. PrepShape'
  BY DEF PrepShape
<1>2. /\ \A v \in Workers : worker'[v].slot = worker[v].slot
      /\ \A v \in Workers : worker'[v].step = "idle" <=> worker[v].step = "idle"
  BY DEF PrepShape
<1>3. \A g \in 1..Len(size) : Holders(g)' = Holders(g)
  BY <1>2 DEF Holders
<1>4. QED
  BY <1>1, <1>2, <1>3 DEF SlotsHeld

\* What _update_concurrency_setting leaves: the semaphores there are, or one more that
\* nobody holds.
LEMMA ResizedAddsUp ==
  ASSUME PrepShape, SlotsHeld, NEW s, NEW f, s = Resized.sizes, f = Resized.left
  PROVE  /\ s \in Seq(Nat) /\ f \in Seq(Nat) /\ Len(s) = Len(f) /\ Len(s) \in Nat
         /\ Len(s) >= Len(size) /\ Cardinality(DOMAIN s) = Len(s)
         /\ \A g \in 1..Len(s) : f[g] + Cardinality(Holders(g)) = s[g]
<1> DEFINE n == IF limit = 0 THEN 1 ELSE limit
<1>0. n \in Nat /\ Len(size) \in Nat
  BY LastIsLen DEF PrepShape
<1>1. CASE n = size[Last]
  <2>1. s = size /\ f = free
    BY <1>1 DEF Resized
  <2>2. Cardinality(DOMAIN size) = Len(size)
    BY LastIsLen DEF Last
  <2>3. QED
    BY <1>0, <2>1, <2>2 DEF PrepShape, SlotsHeld
<1>2. CASE n # size[Last]
  <2>1. s = Append(size, n) /\ f = Append(free, n)
    BY <1>2 DEF Resized
  <2> DEFINE k == Len(size) + 1
  <2>2. /\ s \in Seq(Nat) /\ Len(s) = k /\ s[k] = n
        /\ \A g \in 1..Len(size) : s[g] = size[g]
    BY <2>1, <1>0, AppendProperties DEF PrepShape
  <2>3. /\ f \in Seq(Nat) /\ Len(f) = k /\ f[k] = n
        /\ \A g \in 1..Len(size) : f[g] = free[g]
    BY <2>1, <1>0, AppendProperties DEF PrepShape
  <2>4. Holders(k) = {}
    BY <1>0 DEF Holders, SlotsHeld
  <2>5. ASSUME NEW g \in 1..Len(s) PROVE f[g] + Cardinality(Holders(g)) = s[g]
    <3>1. CASE g = k
      <4>1. Cardinality(Holders(g)) = 0
        BY <3>1, <2>4, FS_EmptySet
      <4>2. f[g] = n /\ s[g] = n
        BY <3>1, <2>2, <2>3
      <4> HIDE DEF n
      <4>3. QED
        BY <4>1, <4>2, <1>0
    <3>2. CASE g # k
      BY <3>2, <2>2, <2>3, <1>0, SMTT(30) DEF SlotsHeld
    <3>3. QED
      BY <3>1, <3>2
  <2>6. Cardinality(DOMAIN s) = Len(s)
    <3>1. DOMAIN s = 1..k /\ k \in Nat
      BY <1>0, <2>2, LenProperties
    <3>2. Cardinality(1..k) = k
      BY <3>1, CountUpTo
    <3>3. QED
      BY <3>1, <3>2, <2>2
  <2>7. QED
    BY <1>0, <2>2, <2>3, <2>5, <2>6
<1>3. QED
  BY <1>1, <1>2

\* A task is dispatched, or the poll found none.
LEMMA DispatchSlots ==
  ASSUME PrepShape, SlotsHeld, NEW w \in Workers, NEW r \in BOOLEAN, Dispatches(w, r)
  PROVE  PrepShape' /\ SlotsHeld'
<1> DEFINE s == Resized.sizes
           f == Resized.left
           g == Cardinality(DOMAIN s)
<1>1. /\ s \in Seq(Nat) /\ f \in Seq(Nat) /\ Len(s) = Len(f) /\ Len(s) \in Nat
      /\ Len(s) >= Len(size) /\ g = Len(s) /\ Len(size) \in Nat /\ Len(size) > 0
      /\ \A h \in 1..Len(s) : f[h] + Cardinality(Holders(h)) = s[h]
  BY ResizedAddsUp, LastIsLen DEF PrepShape
<1>2. /\ worker[w].step = "idle" /\ worker[w].slot = 0 /\ size' = s /\ limit' = limit
  BY DEF Dispatches, SlotsHeld
<1> HIDE DEF s, f, g
<1>3. CASE free' = f /\ UNCHANGED worker
  <2>1. PrepShape'
    BY <1>1, <1>2, <1>3 DEF PrepShape
  <2>2. \A h : Holders(h)' = Holders(h)
    BY <1>3 DEF Holders
  <2>3. QED
    BY <1>1, <1>2, <1>3, <2>1, <2>2 DEF SlotsHeld
<1>4. CASE /\ f[g] > 0 /\ free' = [f EXCEPT ![g] = f[g] - 1]
           /\ worker' = [worker EXCEPT ![w] =
                [Away EXCEPT !.step = "starting", !.slot = g, !.repo = r]]
  <2>0. g \in 1..Len(f) /\ f[g] \in Nat /\ f[g] - 1 \in Nat
    <3>1. g \in 1..Len(f)
      BY <1>1
    <3>2. f[g] \in Nat
      BY <1>1, <3>1, ElementOfSeq
    <3>3. QED
      BY <1>4, <3>1, <3>2
  <2>1. /\ free' \in Seq(Nat) /\ Len(free') = Len(f)
        /\ \A h \in 1..Len(f) : free'[h] = IF h = g THEN f[g] - 1 ELSE f[h]
    BY <2>0, <1>1, <1>4, ExceptSeq
  <2> DEFINE me == [Away EXCEPT !.step = "starting", !.slot = g, !.repo = r]
  <2>2. me \in [step: PrepSteps, slot: Nat, repo: BOOLEAN] /\ me.step = "starting" /\ me.slot = g
    BY <1>1 DEF Away, PrepSteps
  <2>3. PrepShape'
    BY <1>1, <1>2, <1>4, <2>1, <2>2, SMTT(30) DEF PrepShape
  <2>4. worker'[w] = me /\ \A v \in Workers \ {w} : worker'[v] = worker[v]
    BY <1>4 DEF PrepShape
  <2>5. \A v \in Workers : /\ worker'[v].slot \in 0..Len(size')
                           /\ worker'[v].step = "idle" <=> worker'[v].slot = 0
    <3> HIDE DEF me
    <3> SUFFICES ASSUME NEW v \in Workers
                 PROVE  /\ worker'[v].slot \in 0..Len(size')
                        /\ worker'[v].step = "idle" <=> worker'[v].slot = 0
      OBVIOUS
    <3>1. CASE v = w
      BY <3>1, <1>1, <1>2, <2>2, <2>4
    <3>2. CASE v # w
      BY <3>2, <1>1, <1>2, <2>4 DEF SlotsHeld
    <3>3. QED
      BY <3>1, <3>2
  <2>6. ASSUME NEW h \in 1..Len(s) PROVE free'[h] + Cardinality(Holders(h)') = s[h]
    <3>0. /\ f[h] + Cardinality(Holders(h)) = s[h] /\ f[h] \in Nat /\ h # 0
          /\ Cardinality(Holders(h)) \in Nat
      <4>1. h \in 1..Len(f)
        BY <1>1
      <4>2. f[h] \in Nat
        BY <1>1, <4>1, ElementOfSeq
      <4>3. QED
        BY <1>1, <4>2, HoldersFinite
    <3>1. CASE h = g
      <4>1. Holders(h)' = Holders(h) \cup {w} /\ w \notin Holders(h)
        <5> HIDE DEF me
        <5>1. \A v \in Workers : worker'[v].slot = h <=> worker[v].slot = h \/ v = w
          BY <3>1, <2>2, <2>4
        <5>2. worker[w].slot # h
          BY <3>0, <1>2
        <5>3. QED
          BY <5>1, <5>2 DEF Holders
      <4>2. Cardinality(Holders(h)') = Cardinality(Holders(h)) + 1
        BY <4>1, HoldersFinite, FS_AddElement
      <4>3. QED
        BY <4>2, <3>0, <3>1, <1>1, <2>1
    <3>2. CASE h # g
      <4>1. Holders(h)' = Holders(h)
        BY <3>0, <3>2, <1>2, <2>2, <2>4 DEF Holders
      <4>2. QED
        BY <4>1, <3>0, <3>2, <1>1, <2>1
    <3>3. QED
      BY <3>1, <3>2
  <2>7. QED
    BY <1>2, <2>3, <2>5, <2>6 DEF SlotsHeld
<1>5. QED
  BY <1>3, <1>4 DEF Dispatches, s, f, g

LEMMA PrepStepInv == PrepInv /\ [PreparationNext]_preparationVars => PrepInv'
<1> SUFFICES ASSUME PrepInv, [PreparationNext]_preparationVars PROVE PrepInv'
  OBVIOUS
<1> USE DEF PrepInv
<1>1. ASSUME UNCHANGED <<size, free, worker, clone>>, limit' \in Nat PROVE PrepInv'
  BY <1>1 DEF PrepShape, SlotsHeld, OneClones, SkillsAreWhole, Holders
<1>2. CASE (\E n \in 0..MaxLimit : SetsLimit(n)) \/ UNCHANGED preparationVars
           \/ \E m \in {"absent", "manual", "detected"} : ChangesMaker(m)
  BY <1>1, <1>2, PreparationAssumption DEF SetsLimit, ChangesMaker, preparationVars, PrepShape
<1>3. ASSUME NEW w \in Workers, NEW r \in BOOLEAN, Dispatches(w, r) PROVE PrepInv'
  <2>1. PrepShape' /\ SlotsHeld'
    BY <1>3, DispatchSlots
  <2>2. clone' = clone /\ \A v \in Workers :
          worker'[v] = worker[v] \/ worker'[v].step = "starting"
    BY <1>3 DEF Dispatches, PrepShape, Away
  <2>3. OneClones' /\ SkillsAreWhole'
    BY <2>2 DEF OneClones, SkillsAreWhole
  <2>4. QED
    BY <2>1, <2>3
\* What a step of a worker leaves of the clone and of those who use it.
<1>4. ASSUME NEW w \in Workers, Leaves(w), worker[w].step # "idle", UNCHANGED <<limit, size>>,
             \/ clone' = clone
             \/ worker[w].step = "cloning"
      PROVE  PrepInv'
  <2>1. PrepShape' /\ SlotsHeld'
    BY <1>4, LeaveSlots
  <2>2. \A v \in Workers : IF v = w THEN worker'[v] = Away ELSE worker'[v] = worker[v]
    BY <1>4 DEF Leaves, PrepShape
  <2>3. OneClones' /\ SkillsAreWhole'
    BY <1>4, <2>2 DEF OneClones, SkillsAreWhole, Away
  <2>4. QED
    BY <2>1, <2>3
<1>5. ASSUME NEW w \in Workers, NEW s \in PrepSteps, s # "idle", worker[w].step # "idle",
             worker' = [worker EXCEPT ![w].step = s], UNCHANGED <<limit, size, free>>,
             s = "cloning" => clone = "none" /\ clone' = "half",
             s = "gathering" => ~worker[w].repo \/ clone' = "whole",
             s # "cloning" => \/ clone' = clone /\ worker[w].step # "cloning"
                              \/ clone' = "whole" /\ worker[w].step = "cloning"
      PROVE  PrepInv'
  <2>1. PrepShape' /\ SlotsHeld'
    BY <1>5, KeepSlots
  <2>2. /\ worker'[w].step = s /\ worker'[w].repo = worker[w].repo
        /\ \A v \in Workers \ {w} : worker'[v] = worker[v]
    BY <1>5 DEF PrepShape
  <2>3. OneClones'
    BY <1>5, <2>2 DEF OneClones
  <2>4. SkillsAreWhole'
    BY <1>5, <2>2 DEF OneClones, SkillsAreWhole
  <2>5. QED
    BY <2>1, <2>3, <2>4
<1>6. ASSUME NEW w \in Workers, ResolvesModel(w) PROVE PrepInv'
  <2>1. CASE GivesUp(w) /\ worker[w].step = "starting"
    BY <2>1, <1>4 DEF GivesUp
  <2>2. CASE /\ worker[w].step = "starting" /\ UNCHANGED <<limit, size, free, clone>>
             /\ worker' = [worker EXCEPT ![w].step =
                             IF worker[w].repo THEN "modelled" ELSE "gathering"]
    <3>1. CASE worker[w].repo
      BY <2>2, <3>1, <1>5 DEF PrepSteps
    <3>2. CASE ~worker[w].repo
      BY <2>2, <3>2, <1>5 DEF PrepSteps
    <3>3. QED
      BY <3>1, <3>2
  <2>3. QED
    BY <1>6, <2>1, <2>2 DEF ResolvesModel
<1>7. ASSUME NEW w \in Workers, BeginsGit(w) PROVE PrepInv'
  BY <1>5, <1>7 DEF BeginsGit, PrepSteps
<1>8. ASSUME NEW w \in Workers, EndsGit(w) PROVE PrepInv'
  <2>1. CASE Leaves(w) /\ (clone' = clone \/ worker[w].step = "cloning")
    BY <1>4, <1>8, <2>1 DEF EndsGit
  <2>2. CASE /\ worker[w].step = "pulling" => clone = "whole"
             /\ clone' = "whole" /\ UNCHANGED free
             /\ worker' = [worker EXCEPT ![w].step = "gathering"]
    BY <1>5, <1>8, <2>2 DEF EndsGit, PrepSteps
  <2>3. QED
    BY <1>8, <2>1, <2>2 DEF EndsGit
<1>9. ASSUME NEW w \in Workers, Prepares(w) \/ Collects(w) PROVE PrepInv'
  <2>1. CASE Leaves(w) /\ clone' = clone
    BY <1>4, <1>9, <2>1 DEF Prepares, Collects, GivesUp
  <2>2. CASE /\ worker' = [worker EXCEPT ![w].step = "running"] /\ worker[w].step = "gathering"
             /\ UNCHANGED <<limit, size, free, clone>>
    BY <1>5, <2>2 DEF PrepSteps
  <2>3. QED
    BY <1>9, <2>1, <2>2 DEF Prepares, Collects, GivesUp
<1>10. CASE Killed
  <2> DEFINE n == IF limit = 0 THEN 1 ELSE limit
  <2>1. /\ worker' = [w \in Workers |-> Away] /\ size' = <<n>> /\ free' = <<n>>
        /\ limit' = limit /\ n \in Nat
    BY <1>10 DEF Killed, PrepShape
  <2> HIDE DEF n
  <2>2. <<n>> \in Seq(Nat) /\ Len(<<n>>) = 1
    BY <2>1
  <2>3. worker' \in [Workers -> [step: PrepSteps, slot: Nat, repo: BOOLEAN]]
    BY <2>1 DEF Away, PrepSteps
  <2>4. PrepShape'
    BY <2>1, <2>2, <2>3 DEF PrepShape
  <2>5. \A g \in 1..1 : Cardinality(Holders(g)') = 0 /\ g = 1
    <3>1. \A g \in 1..1 : Holders(g)' = {} /\ g = 1
      BY <2>1 DEF Holders, Away
    <3>2. QED
      BY <3>1, FS_EmptySet
  <2>6. \A g \in 1..1 : free'[g] + Cardinality(Holders(g)') = size'[g]
    BY <2>1, <2>5
  <2>7. \A w \in Workers : worker'[w].slot = 0 /\ worker'[w].step = "idle"
    BY <2>1 DEF Away
  <2>8. SlotsHeld'
    BY <2>1, <2>2, <2>6, <2>7 DEF SlotsHeld
  <2>9. OneClones' /\ SkillsAreWhole'
    BY <2>7 DEF OneClones, SkillsAreWhole
  <2>10. QED
    BY <2>4, <2>8, <2>9
<1>11. QED
  BY <1>2, <1>3, <1>6, <1>7, <1>8, <1>9, <1>10 DEF PreparationNext

\* No slot of the semaphore is lost or held twice, also across a change of the limit,
\* and nobody reads half a clone (_run_task, the git skills clone), for any number of
\* workers and any limit.
THEOREM PreparationIsSafe == PreparationSpec => []PreparationSafe
<1>1. PrepInv => PreparationSafe
  <2> SUFFICES ASSUME PrepInv PROVE SlotsAddUp /\ SkillsAreWhole
    BY DEF PreparationSafe
  <2>1. Last = Len(size) /\ Len(size) \in Nat /\ Len(size) > 0
    BY LastIsLen DEF PrepInv, PrepShape
  <2>2. ASSUME \A g \in 1..(Last - 1) : Holders(g) = {}
        PROVE  Cardinality({w \in Workers : worker[w].slot # 0}) <= size[Last]
    <3>1. {w \in Workers : worker[w].slot # 0} = Holders(Last)
      BY <2>1, <2>2 DEF PrepInv, SlotsHeld, Holders
    <3>2. /\ free[Last] + Cardinality(Holders(Last)) = size[Last]
          /\ free[Last] \in Nat /\ Cardinality(Holders(Last)) \in Nat
      <4>1. Last \in 1..Len(free) /\ Last \in 1..Len(size)
        BY <2>1 DEF PrepInv, PrepShape
      <4>2. free[Last] \in Nat
        BY <4>1, ElementOfSeq DEF PrepInv, PrepShape
      <4>3. QED
        BY <4>1, <4>2, HoldersFinite DEF PrepInv, SlotsHeld
    <3> DEFINE taken == Cardinality({w \in Workers : worker[w].slot # 0})
    <3>3. free[Last] + taken = size[Last] /\ taken \in Nat
      BY <3>1, <3>2
    <3> HIDE DEF taken
    <3>4. taken <= size[Last]
      BY <3>2, <3>3
    <3>5. QED
      BY <3>4 DEF taken
  <2>3. QED
    BY <2>1, <2>2 DEF PrepInv, SlotsHeld, SlotsAddUp
<1>2. QED
  BY <1>1, PrepInitInv, PrepStepInv, PTL DEF PreparationSpec

\* The types of what the slots do not fix.
PrepTypes ==
  /\ limit \in 0..MaxLimit
  /\ \A g \in 1..Len(size) : size[g] \in 1..MaxLimit
  /\ maker \in {"absent", "manual", "detected"}
  /\ clone \in {"none", "half", "whole"}
  /\ changes \in 0..MaxChanges /\ flops \in 0..MaxFlops

LEMMA PrepTypesInit == PreparationInit => PrepTypes /\ hostNetwork \in BOOLEAN
<1> SUFFICES ASSUME PreparationInit PROVE PrepTypes /\ hostNetwork \in BOOLEAN
  OBVIOUS
<1>1. limit \in 1..MaxLimit /\ size = <<limit>>
  BY DEF PreparationInit
<1>2. \A g \in 1..Len(size) : size[g] \in 1..MaxLimit
  BY <1>1
<1>3. hostNetwork \in BOOLEAN
  BY Zenon DEF PreparationInit
<1>4. PrepTypes
  BY <1>1, <1>2, PreparationAssumption DEF PreparationInit, PrepTypes
<1>5. QED
  BY <1>3, <1>4

\* The sizes of the semaphores: as they are, one more, or a single one.
LEMMA SizesStep ==
  ASSUME PrepInv, PrepTypes, [PreparationNext]_preparationVars
  PROVE  \A g \in 1..Len(size') : size'[g] \in 1..MaxLimit
<1> DEFINE n == IF limit = 0 THEN 1 ELSE limit
<1>1. n \in 1..MaxLimit /\ Len(size) \in Nat /\ size \in Seq(Nat)
  BY LastIsLen, PreparationAssumption DEF PrepTypes, PrepInv, PrepShape
<1>2. size' \in {size, Append(size, n), <<n>>}
  BY DEF PreparationNext, SetsLimit, Resized, Dispatches, ChangesMaker, ResolvesModel, GivesUp,
     BeginsGit, EndsGit, Prepares, Collects, Killed, preparationVars
<1>3. CASE size' = size
  BY <1>3 DEF PrepTypes
<1>4. CASE size' = Append(size, n)
  <2>1. /\ Len(size') = Len(size) + 1 /\ size'[Len(size) + 1] = n
        /\ \A g \in 1..Len(size) : size'[g] = size[g]
    BY <1>1, <1>4, AppendProperties
  <2>2. QED
    BY <1>1, <2>1 DEF PrepTypes
<1>5. CASE size' = <<n>>
  BY <1>1, <1>5
<1>6. QED
  BY <1>2, <1>3, <1>4, <1>5

\* What a step writes to them.
LEMMA PrepWrites ==
  ASSUME [PreparationNext]_preparationVars
  PROVE  /\ limit' = limit \/ limit' \in 0..MaxLimit
         /\ maker' = maker \/ maker' \in {"absent", "manual", "detected"}
         /\ clone' = clone \/ clone' \in {"none", "half", "whole"}
         /\ changes' = changes \/ Change
         /\ flops' = flops \/ Flop
<1> USE DEF PreparationNext, SetsLimit, Dispatches, ChangesMaker, ResolvesModel, GivesUp,
            BeginsGit, EndsGit, Prepares, Collects, Killed, preparationVars
<1>1. limit' = limit \/ limit' \in 0..MaxLimit
  OBVIOUS
<1>2. maker' = maker \/ maker' \in {"absent", "manual", "detected"}
  OBVIOUS
<1>3. clone' = clone \/ clone' \in {"none", "half", "whole"}
  OBVIOUS
<1>4. changes' = changes \/ Change
  OBVIOUS
<1>5. flops' = flops \/ Flop
  OBVIOUS
<1>6. QED
  BY <1>1, <1>2, <1>3, <1>4, <1>5

LEMMA PrepTypesStep ==
  PrepInv /\ PrepTypes /\ [PreparationNext]_preparationVars => PrepTypes'
<1> SUFFICES ASSUME PrepInv, PrepTypes, [PreparationNext]_preparationVars PROVE PrepTypes'
  OBVIOUS
<1>1. changes' \in 0..MaxChanges
  BY PrepWrites, PreparationAssumption DEF PrepTypes, Change
<1>2. flops' \in 0..MaxFlops
  BY PrepWrites, PreparationAssumption DEF PrepTypes, Flop
<1>3. QED
  BY <1>1, <1>2, PrepWrites, SizesStep DEF PrepTypes

LEMMA NetworkIsBoolean ==
  hostNetwork \in BOOLEAN /\ [PreparationNext]_preparationVars => hostNetwork' \in BOOLEAN
<1> SUFFICES ASSUME hostNetwork \in BOOLEAN, [PreparationNext]_preparationVars
             PROVE  hostNetwork' \in BOOLEAN
  OBVIOUS
<1>1. hostNetwork' = hostNetwork
  BY Zenon DEF PreparationNext, SetsLimit, Dispatches, ChangesMaker, ResolvesModel, GivesUp,
     BeginsGit, EndsGit, Prepares, Collects, Killed, preparationVars
<1>2. QED
  BY <1>1, Zenon

LEMMA PrepIsTyped == PrepInv /\ PrepTypes /\ hostNetwork \in BOOLEAN => PreparationTypeOK
<1> SUFFICES ASSUME PrepInv, PrepTypes, hostNetwork \in BOOLEAN PROVE PreparationTypeOK
  OBVIOUS
<1>1. Last = Len(size) /\ Len(size) \in Nat /\ Len(free) = Len(size)
      /\ DOMAIN size = 1..Len(size) /\ DOMAIN free = 1..Len(size)
  BY LastIsLen, LenProperties DEF PrepInv, PrepShape
<1>2. ASSUME NEW g \in 1..Len(size) PROVE free[g] \in 0..MaxLimit
  <2>1. /\ free[g] + Cardinality(Holders(g)) = size[g] /\ size[g] \in 1..MaxLimit
        /\ Cardinality(Holders(g)) \in Nat
    BY HoldersFinite DEF PrepInv, SlotsHeld, PrepTypes
  <2>2. free[g] \in Nat
    BY <1>1, ElementOfSeq DEF PrepInv, PrepShape
  <2>3. QED
    BY <2>1, <2>2, PreparationAssumption
<1>3. ASSUME NEW w \in Workers
      PROVE  /\ worker[w].step \in {"idle", "starting", "modelled", "cloning", "pulling",
                                    "gathering", "running"}
             /\ worker[w].slot \in 0..Last /\ worker[w].repo \in BOOLEAN
  BY <1>1 DEF PrepInv, PrepShape, SlotsHeld, PrepSteps
<1>4. /\ limit \in 0..MaxLimit /\ maker \in {"absent", "manual", "detected"}
      /\ \A g \in 1..Last : size[g] \in 1..MaxLimit /\ free[g] \in 0..MaxLimit
      /\ DOMAIN size = 1..Last /\ DOMAIN free = 1..Last
      /\ clone \in {"none", "half", "whole"}
      /\ changes \in 0..MaxChanges /\ flops \in 0..MaxFlops
  BY <1>1, <1>2 DEF PrepTypes
<1>5. QED
  BY <1>3, <1>4, Zenon DEF PreparationTypeOK

\* The flags, which keep their type on their own.
PrepFlags == hostNetwork \in BOOLEAN

LEMMA PrepAlwaysTyped ==
  PreparationInit /\ [][PreparationNext]_preparationVars => []PreparationTypeOK
<1>1. PreparationInit => PrepFlags
  BY PrepTypesInit DEF PrepFlags
<1>2. PrepFlags /\ [PreparationNext]_preparationVars => PrepFlags'
  BY NetworkIsBoolean DEF PrepFlags
<1>3. PrepInv /\ PrepTypes /\ PrepFlags => PreparationTypeOK
  BY PrepIsTyped DEF PrepFlags
<1>4. PreparationInit => PrepTypes
  BY PrepTypesInit
<1>5. QED
  BY <1>1, <1>2, <1>3, <1>4, PrepInitInv, PrepStepInv, PrepTypesStep, PTL

-----------------------------------------------------------------------------
(* Plugins and the directories of their files                              *)

\* A directory can be counted on: its files are whole, they are being written,
\* or it is known to be in disorder.
Sound(d) == d \in ruined \/ Writing(d) # {} \/ files[d] = "whole"

\* Who is taking the row's own files away, and will write the row.
LeavesRow(a) ==
  /\ admin[a].id = plugin.id
  /\ \/ admin[a].step = "swapped" /\ From(a) = RowDir
     \/ admin[a].step = "removed" /\ To(a) = RowDir

\* A request that has fetched has what it will write into the row.
FetchedIsSound == \A a \in Admins : admin[a].step \in {"fetched", "swapped"} => Sound(To(a))

\* The row's files are missing only while the request that removed them is
\* about to write that very row; a request for an earlier row is no excuse.
RowIsSound == plugin.id = 0 \/ Sound(RowDir) \/ \E a \in Admins : LeavesRow(a)

\* A plugin whose marketplace was deleted is looked for where nothing is fetched.
UnlinkedIsRuined ==
  plugin.id # 0 /\ ~plugin.linked => {"manual"} \X Vers \subseteq ruined

PluginsInv ==
  /\ PluginsTypeOK /\ market.name # "manual"
  /\ UnlinkedIsRuined /\ FetchedIsSound /\ RowIsSound

LEMMA PluginsInvInit == PluginsInit => PluginsInv
<1> SUFFICES ASSUME PluginsInit PROVE PluginsInv
  OBVIOUS
<1>1. PluginsTypeOK
  <2>1. MaxInstalls \in Nat /\ MaxPatches \in Nat /\ MaxWoes \in Nat /\ MaxVersion \in Nat
    BY PluginsAssumption
  <2>2. 0 \in Vers
    BY <2>1 DEF Vers
  <2>3. market.lists \in Vers
    BY <2>1, PluginsAssumption DEF PluginsInit, Vers
  <2>4. QED
    BY <2>1, <2>2, <2>3 DEF PluginsInit, PluginsTypeOK, NoPlugin, Idle, Cold, Scopes
<1>2. QED
  BY <1>1 DEF PluginsInit, PluginsInv, UnlinkedIsRuined, FetchedIsSound, RowIsSound, NoPlugin, Idle

-----------------------------------------------------------------------------
(* The types                                                               *)

LEMMA VersionsAreThere ==
  /\ MaxInstalls \in Nat /\ MaxPatches \in Nat /\ MaxWoes \in Nat /\ MaxVersion \in Nat
  /\ 0 \in Vers
BY PluginsAssumption DEF Vers

AdminRecords ==
  [kind: {"idle", "install", "update", "uninstall"},
   step: {"none", "fetching", "fetched", "swapped", "read", "removed"},
   id: 0..MaxInstalls, scope: Scopes, from: Vers, to: Vers]

LEMMA IdleIsTyped ==
  /\ Idle \in AdminRecords
  /\ NoPlugin \in [id: 0..MaxInstalls, linked: BOOLEAN, installed: Vers,
                  latest: Vers, enabled: BOOLEAN]
BY VersionsAreThere DEF Idle, NoPlugin, AdminRecords, Scopes

LEMMA FetchTypes ==
  ASSUME PluginsTypeOK, NEW d \in Dirs,
         \/ FetchBegins(d) \/ FetchEnds(d) \/ FetchFails(d) \/ \E mine \in BOOLEAN : Removes(d, mine)
  PROVE  files' \in [Dirs -> {"none", "half", "whole"}] /\ ruined' \subseteq Dirs
BY DEF PluginsTypeOK, FetchBegins, FetchEnds, FetchFails, Removes

LEMMA RequestHasDirs ==
  ASSUME PluginsTypeOK
  PROVE  /\ RowDir \in Dirs
         /\ \A a \in Admins : To(a) \in Dirs /\ From(a) \in Dirs
         /\ <<warmer.scope, warmer.to>> \in Dirs
BY DEF PluginsTypeOK, RowDir, To, From, Dirs, Scope, Scopes

\* The fields of a request as it begins and as it goes on.
LEMMA AdminTypes ==
  ASSUME PluginsTypeOK, NEW a \in Admins,
         \/ admin' = [admin EXCEPT ![a] = Idle]
         \/ \E s \in {"fetched", "swapped", "removed"} : admin' = [admin EXCEPT ![a].step = s]
  PROVE  admin' \in [Admins -> AdminRecords]
BY VersionsAreThere DEF PluginsTypeOK, Idle, Scopes, AdminRecords

LEMMA PluginsTypeStep == PluginsTypeOK /\ [PluginsNext]_pluginVars => PluginsTypeOK'
<1> SUFFICES ASSUME PluginsTypeOK, [PluginsNext]_pluginVars PROVE PluginsTypeOK'
  OBVIOUS
<1> USE VersionsAreThere, RequestHasDirs
<1>1. ASSUME NEW v \in Manifests, Resyncs(v) \/ PatchesSource(v) PROVE PluginsTypeOK'
  BY <1>1 DEF PluginsTypeOK, Resyncs, PatchesSource, Synced, SeesLatest, Manifests
<1>2. ASSUME NEW fresh \in BOOLEAN, Restarts(fresh) PROVE PluginsTypeOK'
  BY <1>2 DEF PluginsTypeOK, Restarts, Woe, Cold, Idle, Scopes
<1>3. CASE Renames
  <2>1. {"two"} \X Vers \subseteq Dirs
    BY DEF Dirs, Scopes
  <2>2. QED
    BY <1>3, <2>1 DEF PluginsTypeOK, Renames, Woe, Scopes
<1>4. CASE DeletesMarket
  <2>1. {"manual"} \X Vers \subseteq Dirs
    BY DEF Dirs, Scopes
  <2>2. woes' \in 0..MaxWoes
    BY <1>4 DEF PluginsTypeOK, DeletesMarket, Woe
  <2>3. QED
    BY <1>4, <2>1, <2>2 DEF PluginsTypeOK, DeletesMarket
<1>5. CASE Enables
  BY <1>5 DEF PluginsTypeOK, Enables
<1>6. ASSUME NEW a \in Admins, BeginsInstall(a) PROVE PluginsTypeOK'
  <2>1. <<market.name, market.lists>> \in Dirs
    BY DEF PluginsTypeOK, Dirs
  <2>2. patches' \in 0..MaxPatches
    BY <1>6 DEF PluginsTypeOK, BeginsInstall, Begins
  <2>3. admin' \in [Admins -> AdminRecords]
    <3>1. market.name \in Scopes /\ market.lists \in Vers
      BY DEF PluginsTypeOK
    <3>2. [Idle EXCEPT !.kind = "install", !.step = "fetching", !.scope = market.name,
                       !.to = market.lists] \in AdminRecords
      BY <3>1, IdleIsTyped DEF AdminRecords
    <3>3. admin \in [Admins -> AdminRecords]
      BY DEF PluginsTypeOK, AdminRecords
    <3>4. QED
      BY <1>6, <3>2, <3>3 DEF BeginsInstall
  <2>4. QED
    BY <1>6, <2>1, <2>2, <2>3, FetchTypes
    DEF PluginsTypeOK, BeginsInstall, Begins, AdminRecords
<1>7. ASSUME NEW a \in Admins, BeginsUpdate(a) PROVE PluginsTypeOK'
  <2>1. <<Scope, plugin.latest>> \in Dirs /\ Scope \in Scopes
    BY DEF PluginsTypeOK, Dirs, Scope, Scopes
  <2>2. patches' \in 0..MaxPatches
    BY <1>7 DEF PluginsTypeOK, BeginsUpdate, Begins
  <2>3. admin' \in [Admins -> AdminRecords]
    BY <1>7, <2>1 DEF PluginsTypeOK, BeginsUpdate, Idle, AdminRecords
  <2>4. QED
    BY <1>7, <2>1, <2>2, <2>3, FetchTypes
    DEF PluginsTypeOK, BeginsUpdate, Begins, AdminRecords
<1>8. ASSUME NEW a \in Admins, BeginsUninstall(a) PROVE PluginsTypeOK'
  <2>1. Scope \in Scopes
    BY DEF PluginsTypeOK, Scope, Scopes
  <2>2. patches' \in 0..MaxPatches
    BY <1>8 DEF PluginsTypeOK, BeginsUninstall, Begins
  <2>3. admin' \in [Admins -> AdminRecords]
    BY <1>8, <2>1 DEF PluginsTypeOK, BeginsUninstall, Idle, AdminRecords
  <2>4. QED
    BY <1>8, <2>2, <2>3 DEF PluginsTypeOK, BeginsUninstall, Begins, AdminRecords
<1>9. ASSUME NEW a \in Admins, Fetches(a) PROVE PluginsTypeOK'
  <2>1. woes' \in 0..MaxWoes
    BY <1>9 DEF PluginsTypeOK, Fetches, FetchEnds, FetchFails, Woe
  <2>2. QED
    BY <1>9, <2>1, FetchTypes, AdminTypes DEF PluginsTypeOK, AdminRecords, Fetches
<1>10. ASSUME NEW a \in Admins, CommitsInstall(a) PROVE PluginsTypeOK'
  <2>1. ruined' \subseteq Dirs
    BY <1>10 DEF PluginsTypeOK, CommitsInstall, Lands, Dirs
  <2>2. /\ plugin' \in [id: 0..MaxInstalls, linked: BOOLEAN, installed: Vers,
                        latest: Vers, enabled: BOOLEAN]
        /\ installs' \in 0..MaxInstalls
    <3>1. CASE market.there /\ plugin.id = 0
      <4>1. installs' \in 0..MaxInstalls
        BY <1>10, <3>1 DEF PluginsTypeOK, CommitsInstall
      <4>2. admin[a].to \in Vers
        BY DEF PluginsTypeOK
      <4>3. QED
        BY <1>10, <3>1, <4>1, <4>2 DEF CommitsInstall, NoPlugin
    <3>2. CASE ~(market.there /\ plugin.id = 0)
      BY <1>10, <3>2 DEF PluginsTypeOK, CommitsInstall
    <3>3. QED
      BY <3>1, <3>2
  <2>3. QED
    BY <1>10, <2>1, <2>2, AdminTypes DEF PluginsTypeOK, AdminRecords, CommitsInstall
<1>11. ASSUME NEW a \in Admins, Swaps(a) PROVE PluginsTypeOK'
  <2>1. (plugin.id = admin[a].id) \in BOOLEAN
    OBVIOUS
  <2>2. files' \in [Dirs -> {"none", "half", "whole"}] /\ ruined' \subseteq Dirs
    BY <1>11, <2>1, FetchTypes DEF Swaps
  <2>3. QED
    BY <1>11, <2>2, AdminTypes DEF PluginsTypeOK, AdminRecords, Swaps
<1>12. ASSUME NEW a \in Admins, CommitsUpdate(a) PROVE PluginsTypeOK'
  <2>1. ruined' \subseteq Dirs /\ woes' \in 0..MaxWoes
    BY <1>12 DEF PluginsTypeOK, CommitsUpdate, Lands, Dirs, Woe
  <2>2. plugin' \in [id: 0..MaxInstalls, linked: BOOLEAN, installed: Vers,
                     latest: Vers, enabled: BOOLEAN]
    BY <1>12 DEF PluginsTypeOK, CommitsUpdate, NewVersion
  <2>3. QED
    BY <1>12, <2>1, <2>2, AdminTypes DEF PluginsTypeOK, AdminRecords, CommitsUpdate
<1>13. ASSUME NEW a \in Admins, RemovesFiles(a) PROVE PluginsTypeOK'
  <2>1. (plugin.id = admin[a].id) \in BOOLEAN
    OBVIOUS
  <2>2. files' \in [Dirs -> {"none", "half", "whole"}] /\ ruined' \subseteq Dirs
    BY <1>13, <2>1, FetchTypes DEF RemovesFiles
  <2>3. QED
    BY <1>13, <2>2, AdminTypes DEF PluginsTypeOK, AdminRecords, RemovesFiles
<1>14. ASSUME NEW a \in Admins, CommitsUninstall(a) PROVE PluginsTypeOK'
  <2>1. ruined' \subseteq Dirs /\ woes' \in 0..MaxWoes
    BY <1>14 DEF PluginsTypeOK, CommitsUninstall, Woe
  <2>2. plugin' \in [id: 0..MaxInstalls, linked: BOOLEAN, installed: Vers,
                     latest: Vers, enabled: BOOLEAN]
    BY <1>14, IdleIsTyped DEF PluginsTypeOK, CommitsUninstall
  <2>3. QED
    BY <1>14, <2>1, <2>2, AdminTypes DEF PluginsTypeOK, AdminRecords, CommitsUninstall
<1>15. CASE WarmerSyncs
  BY <1>15 DEF PluginsTypeOK, WarmerSyncs, Synced, Manifests
<1>16. CASE Warms
  <2>1. Scope \in Scopes
    BY DEF PluginsTypeOK, Scope, Scopes
  <2>2. files' \in [Dirs -> {"none", "half", "whole"}] /\ ruined' \subseteq Dirs
    BY <1>16, FetchTypes DEF Warms, PluginsTypeOK
  <2>3. QED
    BY <1>16, <2>1, <2>2 DEF PluginsTypeOK, Warms, Cold, Scopes
<1>17. CASE WarmerFetches
  <2>1. woes' \in 0..MaxWoes
    BY <1>17 DEF PluginsTypeOK, WarmerFetches, FetchEnds, FetchFails, Woe
  <2>2. QED
    BY <1>17, <2>1, FetchTypes DEF PluginsTypeOK, WarmerFetches, Cold, Scopes
<1>18. CASE UNCHANGED pluginVars
  BY <1>18 DEF PluginsTypeOK, pluginVars
<1>19. QED
  BY <1>1, <1>2, <1>3, <1>4, <1>5, <1>6, <1>7, <1>8, <1>9, <1>10, <1>11, <1>12, <1>13,
     <1>14, <1>15, <1>16, <1>17, <1>18 DEF PluginsNext

-----------------------------------------------------------------------------
(* What a step does to a directory that can be counted on                  *)

\* A directory can be counted on after the step.
SoundThen(d) ==
  \/ d \in ruined' \/ files'[d] = "whole"
  \/ \E a \in Admins : admin'[a].step = "fetching" /\ <<admin'[a].scope, admin'[a].to>> = d
  \/ warmer'.step = "fetching" /\ <<warmer'.scope, warmer'.to>> = d

StaysSound == \A d \in Dirs : Sound(d) => SoundThen(d)

LEMMA SoundMeans ==
  ASSUME NEW d, Sound(d)
  PROVE  \/ d \in ruined \/ files[d] = "whole"
         \/ \E a \in Admins : admin[a].step = "fetching" /\ To(a) = d
         \/ warmer.step = "fetching" /\ <<warmer.scope, warmer.to>> = d
BY DEF Sound, Writing

LEMMA NextIsSound ==
  ASSUME \A a \in Admins : admin'[a].step \in {"fetched", "swapped"}
                           => SoundThen(<<admin'[a].scope, admin'[a].to>>)
  PROVE  FetchedIsSound'
<1> SUFFICES ASSUME NEW a \in Admins, admin'[a].step \in {"fetched", "swapped"}
             PROVE  Sound(To(a))'
  BY DEF FetchedIsSound
<1>1. SoundThen(To(a)')
  BY DEF To
<1>2. CASE \E b \in Admins : admin'[b].step = "fetching" /\ <<admin'[b].scope, admin'[b].to>> = To(a)'
  BY <1>2 DEF Sound, Writing, To
<1>3. CASE warmer'.step = "fetching" /\ <<warmer'.scope, warmer'.to>> = To(a)'
  BY <1>3 DEF Sound, Writing, To
<1>4. QED
  BY <1>1, <1>2, <1>3 DEF Sound, SoundThen

LEMMA NextRowIsSound ==
  ASSUME SoundThen(RowDir')
  PROVE  RowIsSound'
<1>1. CASE \E b \in Admins : admin'[b].step = "fetching" /\ <<admin'[b].scope, admin'[b].to>> = RowDir'
  BY <1>1 DEF RowIsSound, Sound, Writing, To
<1>2. CASE warmer'.step = "fetching" /\ <<warmer'.scope, warmer'.to>> = RowDir'
  BY <1>2 DEF RowIsSound, Sound, Writing, To
<1>3. QED
  BY <1>1, <1>2 DEF Sound, SoundThen, RowIsSound

\* A fetch that begins replaces what is there, and one beside it is noticed.
LEMMA BeginningIsSound ==
  ASSUME PluginsTypeOK, NEW d \in Dirs, FetchBegins(d),
         \/ \E a \in Admins : admin'[a].step = "fetching" /\ <<admin'[a].scope, admin'[a].to>> = d
         \/ warmer'.step = "fetching" /\ <<warmer'.scope, warmer'.to>> = d,
         \A a \in Admins : admin[a].step = "fetching" => admin'[a] = admin[a],
         warmer.step = "fetching" => warmer' = warmer
  PROVE  StaysSound
<1> SUFFICES ASSUME NEW e \in Dirs, Sound(e) PROVE SoundThen(e)
  BY DEF StaysSound
<1>1. CASE e = d
  BY <1>1 DEF SoundThen
<1>2. CASE e # d
  <2>1. (e \in ruined => e \in ruined') /\ files'[e] = files[e]
    BY <1>2 DEF FetchBegins, PluginsTypeOK
  <2>2. QED
    BY <2>1, SoundMeans DEF SoundThen, To
<1>3. QED
  BY <1>1, <1>2

\* Where nothing is fetched or removed a step can only report disorder.
LEMMA ReportingIsSound ==
  ASSUME UNCHANGED files, ruined \subseteq ruined',
         \A a \in Admins : admin[a].step = "fetching" => admin'[a] = admin[a],
         warmer.step = "fetching" => warmer' = warmer
  PROVE  StaysSound
<1> SUFFICES ASSUME NEW e \in Dirs, Sound(e) PROVE SoundThen(e)
  BY DEF StaysSound
<1>1. QED
  BY SoundMeans DEF SoundThen, To

\* A fetch that ends, well or not.
LEMMA EndingIsSound ==
  ASSUME PluginsTypeOK, NEW d \in Dirs, FetchEnds(d) \/ FetchFails(d),
         \A a \in Admins : admin[a].step = "fetching" /\ To(a) # d => admin'[a] = admin[a],
         warmer.step = "fetching" /\ <<warmer.scope, warmer.to>> # d => warmer' = warmer
  PROVE  StaysSound /\ SoundThen(d)
<1>1. SoundThen(d)
  BY DEF SoundThen, FetchEnds, FetchFails, PluginsTypeOK
<1>2. ASSUME NEW e \in Dirs, Sound(e), e # d PROVE SoundThen(e)
  <2>1. (e \in ruined => e \in ruined') /\ files'[e] = files[e]
    BY <1>2 DEF FetchEnds, FetchFails, PluginsTypeOK
  <2>2. QED
    BY <1>2, <2>1, SoundMeans DEF SoundThen, To
<1>3. QED
  BY <1>1, <1>2 DEF StaysSound

\* A step that leaves the row's directory where it is.
LEMMA RowRests ==
  ASSUME PluginsInv, PluginsTypeOK', StaysSound,
         plugin'.id = plugin.id, plugin'.linked = plugin.linked,
         plugin'.installed = plugin.installed, market'.name = market.name,
         \A a \in Admins :
           \/ admin'[a] = admin[a]
           \/ ~LeavesRow(a) /\ admin'[a].step \notin {"fetched", "swapped"}
           \/ /\ ~LeavesRow(a) /\ admin'[a].scope = admin[a].scope
              /\ admin'[a].to = admin[a].to /\ SoundThen(To(a)),
         ruined \cap ({"manual"} \X Vers) \subseteq ruined'
  PROVE  PluginsInv'
<1>1. RowDir \in Dirs /\ RowDir' = RowDir /\ \A a \in Admins : To(a) \in Dirs
  BY RequestHasDirs DEF PluginsInv, RowDir, Scope
<1>2. UnlinkedIsRuined'
  BY DEF PluginsInv, UnlinkedIsRuined
<1>3. FetchedIsSound'
  <2>1. SUFFICES ASSUME NEW a \in Admins, admin'[a].step \in {"fetched", "swapped"}
                 PROVE  SoundThen(<<admin'[a].scope, admin'[a].to>>)
    BY NextIsSound
  <2>2. QED
    BY <1>1, <2>1 DEF PluginsInv, FetchedIsSound, StaysSound, To
<1>4. RowIsSound'
  <2>1. CASE plugin.id = 0
    BY <2>1 DEF RowIsSound
  <2>2. CASE Sound(RowDir)
    BY <1>1, <2>2, NextRowIsSound DEF StaysSound
  <2>3. CASE \E a \in Admins : LeavesRow(a)
    <3>1. PICK a \in Admins : LeavesRow(a)
      BY <2>3
    <3>2. admin'[a] = admin[a]
      BY <3>1
    <3>3. LeavesRow(a)'
      BY <1>1, <3>1, <3>2 DEF LeavesRow, From, To
    <3>4. QED
      BY <3>3 DEF RowIsSound
  <2>4. QED
    BY <2>1, <2>2, <2>3 DEF PluginsInv, RowIsSound
<1>5. QED
  BY <1>2, <1>3, <1>4 DEF PluginsInv

-----------------------------------------------------------------------------
(* The steps                                                               *)

LEMMA MarketplaceStep ==
  ASSUME PluginsInv, PluginsTypeOK',
         \/ \E v \in Manifests : Resyncs(v) \/ PatchesSource(v)
         \/ Enables \/ WarmerSyncs
  PROVE  PluginsInv'
<1>1. UNCHANGED <<files, admin, ruined>> /\ (warmer.step = "fetching" => warmer' = warmer)
  BY DEF Resyncs, PatchesSource, Enables, WarmerSyncs
<1>2. StaysSound
  BY <1>1, ReportingIsSound
<1>3. /\ plugin'.id = plugin.id /\ plugin'.linked = plugin.linked
      /\ plugin'.installed = plugin.installed /\ market'.name = market.name
  BY DEF Resyncs, PatchesSource, Enables, WarmerSyncs, Synced, SeesLatest, PluginsInv, PluginsTypeOK
<1>4. QED
  BY <1>1, <1>2, <1>3, RowRests

\* A new name moves the row to a directory that is reported.
LEMMA RenameStep ==
  ASSUME PluginsInv, PluginsTypeOK', Renames
  PROVE  PluginsInv'
<1>1. StaysSound
  BY ReportingIsSound DEF Renames
<1>2. market'.name = "two" /\ UNCHANGED <<plugin, admin, files, warmer>>
  BY DEF Renames, PluginsInv, PluginsTypeOK
<1>3. UnlinkedIsRuined'
  BY <1>2 DEF Renames, PluginsInv, UnlinkedIsRuined
<1>4. FetchedIsSound'
  BY <1>1, <1>2, NextIsSound, RequestHasDirs DEF PluginsInv, FetchedIsSound, StaysSound, To
<1>5. RowIsSound'
  <2>1. CASE plugin.linked
    <3>1. RowDir' \in {"two"} \X Vers
      BY <1>2, <2>1 DEF RowDir, Scope, PluginsInv, PluginsTypeOK
    <3>2. QED
      BY <3>1, NextRowIsSound DEF SoundThen, Renames
  <2>2. CASE ~plugin.linked
    <3>1. RowDir' = RowDir /\ RowDir \in Dirs
      BY <1>2, <2>2, RequestHasDirs DEF RowDir, Scope, PluginsInv
    <3>2. plugin.id = 0 \/ RowDir \in ruined'
      BY <2>2 DEF PluginsInv, UnlinkedIsRuined, PluginsTypeOK, RowDir, Scope, Renames
    <3>3. QED
      BY <1>2, <3>1, <3>2, NextRowIsSound DEF SoundThen, RowIsSound
  <2>3. QED
    BY <2>1, <2>2
<1>6. QED
  BY <1>2, <1>3, <1>4, <1>5 DEF PluginsInv

LEMMA DeletionStep ==
  ASSUME PluginsInv, PluginsTypeOK', DeletesMarket
  PROVE  PluginsInv'
<1>1. StaysSound
  BY ReportingIsSound DEF DeletesMarket
<1>2. /\ market'.name = market.name /\ UNCHANGED <<admin, files, warmer>>
      /\ ~plugin'.linked /\ plugin'.installed = plugin.installed
      /\ {"manual"} \X Vers \subseteq ruined'
  BY DEF DeletesMarket, PluginsInv, PluginsTypeOK
<1>3. FetchedIsSound'
  BY <1>1, <1>2, NextIsSound, RequestHasDirs DEF PluginsInv, FetchedIsSound, StaysSound, To
<1>4. RowIsSound'
  <2>1. RowDir' \in {"manual"} \X Vers
    BY <1>2 DEF RowDir, Scope, PluginsInv, PluginsTypeOK
  <2>2. QED
    BY <1>2, <2>1, NextRowIsSound DEF SoundThen
<1>5. QED
  BY <1>2, <1>3, <1>4 DEF PluginsInv, UnlinkedIsRuined

LEMMA BeginningStep ==
  ASSUME PluginsInv, PluginsTypeOK',
         NEW a \in Admins, BeginsInstall(a) \/ BeginsUpdate(a) \/ BeginsUninstall(a)
  PROVE  PluginsInv'
<1>1. /\ UNCHANGED <<plugin, market, warmer>> /\ admin[a] = Idle /\ ~LeavesRow(a)
      /\ \A b \in Admins \ {a} : admin'[b] = admin[b]
      /\ admin'[a].step \in {"fetching", "read"}
  <2>1. UNCHANGED <<plugin, market, warmer>> /\ admin[a] = Idle
    BY DEF BeginsInstall, BeginsUpdate, BeginsUninstall, Begins
  <2>2. ~LeavesRow(a)
    BY <2>1 DEF LeavesRow, Idle
  <2>3. admin \in [Admins -> AdminRecords]
    BY DEF PluginsInv, PluginsTypeOK, AdminRecords
  <2>4. \A b \in Admins \ {a} : admin'[b] = admin[b]
    BY <2>3 DEF BeginsInstall, BeginsUpdate, BeginsUninstall
  <2>5. admin'[a].step \in {"fetching", "read"}
    BY <2>3 DEF BeginsInstall, BeginsUpdate, BeginsUninstall, Idle
  <2>6. QED
    BY <2>1, <2>2, <2>4, <2>5
<1>2. StaysSound /\ ruined \cap ({"manual"} \X Vers) \subseteq ruined'
  <2>1. CASE BeginsUninstall(a)
    BY <1>1, <2>1, ReportingIsSound DEF BeginsUninstall, Idle
  <2>2. CASE BeginsInstall(a)
    <3>1. /\ <<market.name, market.lists>> \in Dirs /\ FetchBegins(<<market.name, market.lists>>)
          /\ <<admin'[a].scope, admin'[a].to>> = <<market.name, market.lists>>
          /\ admin'[a].step = "fetching"
      BY <2>2 DEF BeginsInstall, PluginsInv, PluginsTypeOK, Dirs, Idle
    <3>2. StaysSound
      BY <1>1, <3>1, BeginningIsSound DEF PluginsInv, Idle
    <3>3. QED
      BY <3>1, <3>2 DEF FetchBegins, PluginsInv
  <2>3. CASE BeginsUpdate(a)
    <3>1. /\ <<Scope, plugin.latest>> \in Dirs /\ FetchBegins(<<Scope, plugin.latest>>)
          /\ <<admin'[a].scope, admin'[a].to>> = <<Scope, plugin.latest>>
          /\ admin'[a].step = "fetching" /\ Scope = market.name
      BY <2>3 DEF BeginsUpdate, PluginsInv, PluginsTypeOK, Dirs, Idle, Scope
    <3>2. StaysSound
      BY <1>1, <3>1, BeginningIsSound DEF PluginsInv, Idle
    <3>3. QED
      BY <3>1, <3>2 DEF FetchBegins, PluginsInv
  <2>4. QED
    BY <2>1, <2>2, <2>3
<1>3. QED
  BY <1>1, <1>2, RowRests

LEMMA FetchingStep ==
  ASSUME PluginsInv, PluginsTypeOK', NEW a \in Admins, Fetches(a)
  PROVE  PluginsInv'
<1>1. /\ UNCHANGED <<plugin, market, warmer>> /\ admin[a].step = "fetching" /\ ~LeavesRow(a)
      /\ \A b \in Admins \ {a} : admin'[b] = admin[b]
      /\ \/ admin'[a].scope = admin[a].scope /\ admin'[a].to = admin[a].to
         \/ admin'[a].step = "none"
  BY DEF Fetches, LeavesRow, PluginsInv, PluginsTypeOK, Idle
<1>2. To(a) \in Dirs /\ (FetchEnds(To(a)) \/ FetchFails(To(a)))
  BY RequestHasDirs DEF Fetches, PluginsInv
<1>3. StaysSound /\ SoundThen(To(a))
  <2>1. \A d \in Dirs : d = To(a) => StaysSound /\ SoundThen(d)
    BY <1>1, <1>2, EndingIsSound DEF PluginsInv
  <2>2. QED
    BY <1>2, <2>1
<1>4. ruined \subseteq ruined'
  BY <1>2 DEF FetchEnds, FetchFails
<1>5. QED
  BY <1>1, <1>3, <1>4, RowRests

LEMMA WarmingStep ==
  ASSUME PluginsInv, PluginsTypeOK', Warms \/ WarmerFetches
  PROVE  PluginsInv'
<1>1. UNCHANGED <<plugin, market, admin>>
  BY DEF Warms, WarmerFetches
<1>2. StaysSound /\ ruined \cap ({"manual"} \X Vers) \subseteq ruined'
  <2>1. CASE Warms /\ warmer' = Cold
    <3>1. UNCHANGED <<files, ruined>> /\ warmer.step # "fetching"
      BY <2>1 DEF Warms, Cold
    <3>2. QED
      BY <1>1, <3>1, ReportingIsSound
  <2>2. CASE Warms /\ warmer' # Cold
    <3>1. /\ RowDir \in Dirs /\ FetchBegins(RowDir) /\ Scope = market.name
          /\ warmer'.step = "fetching" /\ <<warmer'.scope, warmer'.to>> = RowDir
          /\ warmer.step # "fetching"
      BY <2>2, RequestHasDirs DEF Warms, PluginsInv, RowDir, Scope
    <3>2. \A d \in Dirs : d = RowDir => StaysSound
      BY <1>1, <3>1, BeginningIsSound DEF PluginsInv
    <3>3. RowDir \notin {"manual"} \X Vers
      BY <3>1 DEF RowDir, PluginsInv
    <3>4. QED
      BY <3>1, <3>2, <3>3 DEF FetchBegins
  <2>3. CASE WarmerFetches
    <3>1. \A d \in Dirs : d = <<warmer.scope, warmer.to>> => StaysSound
      BY <1>1, <2>3, EndingIsSound DEF WarmerFetches, PluginsInv
    <3>2. <<warmer.scope, warmer.to>> \in Dirs
      BY RequestHasDirs DEF PluginsInv
    <3>3. QED
      BY <2>3, <3>1, <3>2 DEF WarmerFetches, FetchEnds, FetchFails
  <2>4. QED
    BY <2>1, <2>2, <2>3
<1>3. QED
  BY <1>1, <1>2, RowRests

\* Who may still be taking the row's files away does not matter once a request
\* has written the row: what it fetched is there.
LEMMA WritingStep ==
  ASSUME PluginsInv, PluginsTypeOK', NEW a \in Admins,
         CommitsInstall(a) \/ CommitsUpdate(a) \/ CommitsUninstall(a)
  PROVE  PluginsInv'
<1>1. /\ UNCHANGED <<market, files, warmer>> /\ ruined \subseteq ruined'
      /\ admin[a].step \in {"fetched", "swapped", "removed"}
      /\ admin'[a].step = "none" /\ \A b \in Admins \ {a} : admin'[b] = admin[b]
  BY DEF CommitsInstall, CommitsUpdate, CommitsUninstall, Lands, PluginsInv, PluginsTypeOK, Idle
<1>2. StaysSound
  BY <1>1, ReportingIsSound
<1>3. FetchedIsSound'
  <2>1. SUFFICES ASSUME NEW b \in Admins, admin'[b].step \in {"fetched", "swapped"}
                 PROVE  SoundThen(<<admin'[b].scope, admin'[b].to>>)
    BY NextIsSound
  <2>2. b # a /\ admin'[b] = admin[b]
    BY <1>1, <2>1
  <2>3. QED
    BY <1>2, <2>1, <2>2, RequestHasDirs DEF PluginsInv, FetchedIsSound, StaysSound, To
<1>4. ASSUME UNCHANGED plugin,
             LeavesRow(a) => RowDir \in ruined'
      PROVE  PluginsInv'
  <2>1. RowDir' = RowDir /\ RowDir \in Dirs
    BY <1>1, <1>4, RequestHasDirs DEF RowDir, Scope, PluginsInv
  <2>2. ASSUME NEW b \in Admins, b # a, LeavesRow(b) PROVE RowIsSound'
    <3>1. LeavesRow(b)'
      BY <1>1, <1>4, <2>1, <2>2 DEF LeavesRow, From, To
    <3>2. QED
      BY <3>1 DEF RowIsSound
  <2>3. RowIsSound'
    <3>1. CASE LeavesRow(a)
      BY <1>4, <2>1, <3>1, NextRowIsSound DEF SoundThen
    <3>2. CASE plugin.id = 0
      BY <1>4, <3>2 DEF RowIsSound
    <3>3. CASE Sound(RowDir)
      BY <1>2, <2>1, <3>3, NextRowIsSound DEF StaysSound
    <3>4. QED
      BY <2>2, <3>1, <3>2, <3>3 DEF PluginsInv, RowIsSound
  <2>4. QED
    BY <1>1, <1>3, <1>4, <2>3 DEF PluginsInv, UnlinkedIsRuined
<1>5. ASSUME plugin'.installed = admin[a].to, Lands(a), admin[a].step \in {"fetched", "swapped"},
             plugin'.linked \/ (plugin.id # 0 /\ ~plugin.linked /\ ~plugin'.linked)
      PROVE  PluginsInv'
  <2>1. CASE plugin'.linked /\ admin[a].scope = market.name
    <3>1. RowDir' = To(a)
      BY <1>1, <1>5, <2>1 DEF RowDir, Scope, To
    <3>2. SoundThen(RowDir')
      BY <1>2, <1>5, <3>1, RequestHasDirs DEF PluginsInv, FetchedIsSound, StaysSound
    <3>3. QED
      BY <1>1, <1>3, <2>1, <3>2, NextRowIsSound DEF PluginsInv, UnlinkedIsRuined
  <2>2. CASE plugin'.linked /\ admin[a].scope # market.name
    <3>1. RowDir' \in ruined'
      BY <1>1, <1>5, <2>2 DEF RowDir, Scope, Lands
    <3>2. QED
      BY <1>1, <1>3, <2>2, <3>1, NextRowIsSound DEF PluginsInv, UnlinkedIsRuined, SoundThen
  <2>3. CASE plugin.id # 0 /\ ~plugin.linked /\ ~plugin'.linked
    <3>1. {"manual"} \X Vers \subseteq ruined'
      BY <1>1, <2>3 DEF PluginsInv, UnlinkedIsRuined
    <3>2. RowDir' \in ruined'
      BY <2>3, <3>1 DEF RowDir, Scope, PluginsTypeOK
    <3>3. QED
      BY <1>1, <1>3, <3>1, <3>2, NextRowIsSound DEF PluginsInv, UnlinkedIsRuined, SoundThen
  <2>4. QED
    BY <1>5, <2>1, <2>2, <2>3
<1>6. CASE CommitsInstall(a)
  <2>1. admin[a].step = "fetched" /\ Lands(a) /\ ~LeavesRow(a)
    BY <1>6 DEF CommitsInstall, LeavesRow
  <2>2. CASE market.there /\ plugin.id = 0
    <3>1. plugin'.linked /\ plugin'.installed = admin[a].to
      BY <1>6, <2>2 DEF CommitsInstall, NoPlugin
    <3>2. QED
      BY <1>5, <2>1, <3>1
  <2>3. CASE ~(market.there /\ plugin.id = 0)
    BY <1>4, <1>6, <2>1, <2>3 DEF CommitsInstall
  <2>4. QED
    BY <2>2, <2>3
<1>7. CASE CommitsUpdate(a)
  <2>1. CASE woes' = woes + 1 /\ ruined' = ruined \cup {From(a)} /\ UNCHANGED plugin
    <3>1. LeavesRow(a) => RowDir \in ruined'
      BY <1>7, <2>1 DEF LeavesRow, CommitsUpdate
    <3>2. QED
      BY <1>4, <2>1, <3>1
  <2>2. CASE plugin.id = admin[a].id /\ plugin' = [plugin EXCEPT !.installed = admin[a].to] /\ Lands(a)
    <3>1. /\ plugin'.installed = admin[a].to /\ plugin'.linked = plugin.linked
          /\ plugin'.id = plugin.id
      BY <2>2 DEF PluginsInv, PluginsTypeOK
    <3>2. CASE plugin.id = 0
      BY <1>1, <1>3, <3>1, <3>2 DEF RowIsSound, PluginsInv, UnlinkedIsRuined
    <3>3. CASE plugin.id # 0
      BY <1>5, <1>7, <2>2, <3>1, <3>3 DEF CommitsUpdate, PluginsInv, PluginsTypeOK
    <3>4. QED
      BY <3>2, <3>3
  <2>3. CASE plugin.id # admin[a].id /\ UNCHANGED plugin
    BY <1>4, <2>3 DEF LeavesRow
  <2>4. QED
    BY <1>7, <2>1, <2>2, <2>3 DEF CommitsUpdate, NewVersion, Woe
<1>8. CASE CommitsUninstall(a)
  <2>1. CASE ruined' = ruined \cup {To(a)} /\ UNCHANGED plugin
    <3>1. LeavesRow(a) => RowDir \in ruined'
      BY <1>8, <2>1 DEF LeavesRow, CommitsUninstall
    <3>2. QED
      BY <1>4, <2>1, <3>1
  <2>2. CASE plugin' = NoPlugin
    BY <1>1, <1>3, <2>2 DEF RowIsSound, PluginsInv, UnlinkedIsRuined, NoPlugin
  <2>3. CASE plugin.id # admin[a].id /\ UNCHANGED plugin
    BY <1>4, <2>3 DEF LeavesRow
  <2>4. QED
    BY <1>8, <2>1, <2>2, <2>3 DEF CommitsUninstall
<1>9. QED
  BY <1>6, <1>7, <1>8

\* What is removed is the row's own and nobody has just fetched it, or the
\* directory is reported.
LEMMA RemovalStep ==
  ASSUME PluginsInv, PluginsTypeOK', NEW a \in Admins, Swaps(a) \/ RemovesFiles(a)
  PROVE  PluginsInv'
<1> DEFINE gone == IF admin[a].step = "read" THEN To(a) ELSE From(a)
<1>1. /\ UNCHANGED <<plugin, market, warmer>> /\ admin[a].step \in {"fetched", "read"}
      /\ gone \in Dirs /\ Removes(gone, plugin.id = admin[a].id)
      /\ admin'[a] = [admin[a] EXCEPT !.step = IF admin[a].step = "read" THEN "removed" ELSE "swapped"]
      /\ \A b \in Admins \ {a} : admin'[b] = admin[b]
  BY RequestHasDirs DEF Swaps, RemovesFiles, PluginsInv, PluginsTypeOK
<1>2. /\ admin'[a].scope = admin[a].scope /\ admin'[a].to = admin[a].to
      /\ admin'[a].from = admin[a].from /\ admin'[a].id = admin[a].id
      /\ admin'[a].step = IF admin[a].step = "read" THEN "removed" ELSE "swapped"
  BY <1>1 DEF PluginsInv, PluginsTypeOK
<1>3. RowDir' = RowDir /\ RowDir \in Dirs
  BY <1>1, RequestHasDirs DEF RowDir, Scope, PluginsInv
<1> HIDE DEF gone
<1>4. ruined \subseteq ruined'
  BY <1>1 DEF Removes
<1>5. ASSUME NEW d \in Dirs, Sound(d), d # gone PROVE SoundThen(d)
  <2>1. files'[d] = files[d]
    BY <1>1, <1>5 DEF Removes, PluginsInv, PluginsTypeOK
  <2>2. \A b \in Admins : admin[b].step = "fetching" => admin'[b] = admin[b]
    BY <1>1
  <2>3. QED
    BY <1>1, <1>4, <1>5, <2>1, <2>2, SoundMeans DEF SoundThen, To
<1>6. gone \in ruined' \/ (plugin.id = admin[a].id /\ Holding(gone) = {})
  BY <1>1 DEF Removes
<1>7. FetchedIsSound'
  <2>1. SUFFICES ASSUME NEW b \in Admins, admin'[b].step \in {"fetched", "swapped"}
                 PROVE  SoundThen(<<admin'[b].scope, admin'[b].to>>)
    BY NextIsSound
  <2>2. /\ <<admin'[b].scope, admin'[b].to>> = To(b) /\ To(b) \in Dirs
        /\ admin[b].step \in {"fetched", "swapped"}
    BY <1>1, <1>2, <2>1, RequestHasDirs DEF To, PluginsInv
  <2>3. CASE To(b) = gone
    <3>1. b \in Holding(gone)
      BY <2>2, <2>3 DEF Holding
    <3>2. QED
      BY <1>6, <2>2, <2>3, <3>1 DEF SoundThen
  <2>4. CASE To(b) # gone
    BY <1>5, <2>2, <2>4 DEF PluginsInv, FetchedIsSound
  <2>5. QED
    BY <2>3, <2>4
<1>8. RowIsSound'
  <2>1. CASE RowDir = gone
    <3>1. CASE gone \in ruined'
      BY <1>3, <2>1, <3>1, NextRowIsSound DEF SoundThen
    <3>2. CASE plugin.id = admin[a].id
      <4>1. LeavesRow(a)'
        BY <1>1, <1>2, <1>3, <2>1, <3>2 DEF LeavesRow, From, To, gone
      <4>2. QED
        BY <4>1 DEF RowIsSound
    <3>3. QED
      BY <1>6, <3>1, <3>2
  <2>2. CASE RowDir # gone /\ Sound(RowDir)
    BY <1>3, <1>5, <2>2, NextRowIsSound
  <2>3. CASE \E b \in Admins : LeavesRow(b)
    <3>1. PICK b \in Admins : LeavesRow(b)
      BY <2>3
    <3>2. b # a /\ admin'[b] = admin[b]
      BY <1>1, <3>1 DEF LeavesRow
    <3>3. LeavesRow(b)'
      BY <1>1, <1>3, <3>1, <3>2 DEF LeavesRow, From, To
    <3>4. QED
      BY <3>3 DEF RowIsSound
  <2>4. CASE plugin.id = 0
    BY <1>1, <2>4 DEF RowIsSound
  <2>5. QED
    BY <2>1, <2>2, <2>3, <2>4 DEF PluginsInv, RowIsSound
<1>9. QED
  BY <1>1, <1>4, <1>7, <1>8 DEF PluginsInv, UnlinkedIsRuined

\* Directories at which somebody was are reported, and nobody is at any.
LEMMA RestartStep ==
  ASSUME PluginsInv, PluginsTypeOK', NEW fresh \in BOOLEAN, Restarts(fresh)
  PROVE  PluginsInv'
<1>1. /\ UNCHANGED <<plugin, market>> /\ ruined \subseteq ruined'
      /\ \A b \in Admins : admin'[b].step = "none"
  BY DEF Restarts, Idle, PluginsInv, PluginsTypeOK
<1>2. RowDir' = RowDir /\ RowDir \in Dirs
  BY <1>1, RequestHasDirs DEF RowDir, Scope, PluginsInv
<1>3. FetchedIsSound'
  BY <1>1 DEF FetchedIsSound
<1>4. RowIsSound'
  <2>1. CASE fresh
    BY <1>2, <2>1, NextRowIsSound DEF Restarts, SoundThen
  <2>2. CASE ~fresh
    <3>1. CASE plugin.id = 0
      BY <1>1, <3>1 DEF RowIsSound
    <3>2. CASE RowDir \in ruined \/ files[RowDir] = "whole"
      BY <1>1, <1>2, <2>2, <3>2, NextRowIsSound DEF Restarts, SoundThen
    <3>3. CASE Writing(RowDir) # {} \/ \E b \in Admins : LeavesRow(b)
      <4>1. Writing(RowDir) \cup Leaving(RowDir) # {}
        BY <3>3 DEF LeavesRow, Leaving
      <4>2. QED
        BY <1>2, <2>2, <4>1, NextRowIsSound DEF Restarts, SoundThen
    <3>4. QED
      BY <3>1, <3>2, <3>3 DEF PluginsInv, RowIsSound, Sound
  <2>3. QED
    BY <2>1, <2>2
<1>5. QED
  BY <1>1, <1>3, <1>4 DEF PluginsInv, UnlinkedIsRuined

LEMMA PluginsInvStep == PluginsInv /\ [PluginsNext]_pluginVars => PluginsInv'
<1> SUFFICES ASSUME PluginsInv, [PluginsNext]_pluginVars PROVE PluginsInv'
  OBVIOUS
<1>1. PluginsTypeOK'
  BY PluginsTypeStep DEF PluginsInv
<1>2. CASE UNCHANGED pluginVars
  <2>1. StaysSound
    BY <1>2, ReportingIsSound DEF pluginVars
  <2>2. QED
    BY <1>1, <1>2, <2>1, RowRests DEF pluginVars
<1>3. CASE PluginsNext
  BY <1>1, <1>3, MarketplaceStep, RenameStep, DeletionStep, BeginningStep, FetchingStep,
     WarmingStep, WritingStep, RemovalStep, RestartStep DEF PluginsNext
<1>4. QED
  BY <1>2, <1>3

\* The row of an installed plugin has its files on disk, or somebody is putting them
\* there, wherever install_plugin, update_plugin, uninstall_plugin and the warmer
\* cross, for any number of requests, versions, crashes and failed fetches.
THEOREM InstalledHaveFiles == PluginsSpec => []RowsHaveTheirFiles
<1>1. PluginsInv => RowsHaveTheirFiles
  BY DEF PluginsInv, RowIsSound, Sound, RowsHaveTheirFiles, LeavesRow, Leaving
<1>2. QED
  BY <1>1, PluginsInvInit, PluginsInvStep, PTL DEF PluginsSpec

-----------------------------------------------------------------------------
(* The cells of a session                                                  *)

\* The next cell of a session is one of those it has left.
LEMMA NextCellIsLeft ==
  ASSUME NEW S \in SUBSET Nat, S # {}
  PROVE  Min(S) \in S
<1> DEFINE less == OpToRel(<, Nat)
<1>1. IsWellFoundedOn(less, Nat)
  BY NatLessThanWellFounded
<1>2. \A x, y \in Nat : x < y => <<x, y>> \in less
  BY DEF OpToRel
<1> HIDE DEF less
<1>3. PICK x \in S : \A y \in S : <<y, x>> \notin less
  BY <1>1, WFMin
<1>4. ASSUME NEW y \in S PROVE x <= y
  <2>1. x \in Nat /\ y \in Nat /\ ~(y < x)
    BY <1>2, <1>3
  <2>2. QED
    BY <2>1
<1>5. QED
  BY <1>4 DEF Min

Working == {"clone", "submit", "wait", "record", "insert"}

\* A cell needs no result of a session's: it has one, a swallowed error cost it
\* one, or the run is finished and takes no more.
Settled(c) == results[c] # "none" \/ c \in blamed \/ evalRun = "finished"

\* A session owes the cells it has left and no other it was asked for; it works
\* on the first of them, and makes only profiles it was asked for.
SessionOwes(d) ==
  LET s == drivers[d] IN
  /\ s.step # "away" => evalRun # "none"
  /\ s.step \notin {"away", "list"} =>
       /\ s.left \subseteq {c \in Cells : ModelOf(c) \in s.asked}
       /\ s.made \subseteq s.asked
       /\ \A c \in Cells : ModelOf(c) \in s.asked => c \in s.left \/ Settled(c)
  /\ s.step \in {"away", "list"} =>
       s.made = {} /\ s.task = "none" /\ ~s.strange /\ s.model = 0
  /\ s.step \in Working => s.left # {} /\ s.model = ModelOf(Min(s.left))
  /\ s.step = "clean" => s.left = {} /\ s.task = "none" /\ ~s.strange

\* Without the model's profile every cell of the model that is left is settled.
ProfileIsThere(d) ==
  LET s == drivers[d] IN
  s.step \in {"submit", "wait", "record", "insert"} /\ s.model \notin clones =>
    \A c \in s.left : ModelOf(c) = s.model => Settled(c)

\* Whose tasks ran without the profile writes no result that would be the first.
StrangeIsSettled(d) ==
  LET s == drivers[d] IN
  /\ s.task \in {"stripped", "bare"} => s.step = "wait" /\ Settled(Min(s.left))
  /\ s.task # "none" => s.step = "wait"
  /\ s.strange => s.step \in {"record", "insert"} /\ Settled(Min(s.left))
  /\ s.strange /\ s.step = "insert" =>
       results[Min(s.left)] # "none" \/ Min(s.left) \in blamed

SessionSound(d) == SessionOwes(d) /\ ProfileIsThere(d) /\ StrangeIsSettled(d)

EvalInv == EvalTypeOK /\ EvalRunsSound /\ \A d \in Drivers : SessionSound(d)

SessionRecords ==
  [step : {"away", "list", "clone", "submit", "wait", "record", "insert", "clean"},
   asked : SUBSET Models, left : SUBSET Cells, model : Models \union {0},
   made : SUBSET Models, try : {1, 2},
   task : Waiting \union Ran \union {"none"}, strange : BOOLEAN]

LEMMA CellsAreNumbers == Cells \subseteq Nat /\ 0 \notin Models
BY EvalAssumption DEF Cells, Models

LEMMA NoSessionIsTyped == NoSession \in SessionRecords
BY DEF NoSession, SessionRecords

LEMMA EvalInvInit == EvalInit => EvalInv
<1> SUFFICES ASSUME EvalInit PROVE EvalInv
  OBVIOUS
<1>1. EvalTypeOK
  <2>1. drivers \in [Drivers -> SessionRecords]
    BY NoSessionIsTyped DEF EvalInit
  <2>2. evalSlips \in 0..MaxSlips
    BY EvalAssumption DEF EvalInit
  <2>3. QED
    BY <2>1, <2>2 DEF EvalInit, EvalTypeOK, SessionRecords
<1>2. EvalRunsSound
  BY DEF EvalInit, EvalRunsSound, FinishedIsComplete, ResultsAreTheirs
<1>3. ASSUME NEW d \in Drivers PROVE SessionSound(d)
  <2>1. drivers[d] = NoSession
    BY DEF EvalInit
  <2>2. QED
    BY <2>1 DEF SessionSound, SessionOwes, ProfileIsThere, StrangeIsSettled, NoSession, Working
<1>4. QED
  BY <1>1, <1>2, <1>3 DEF EvalInv

-----------------------------------------------------------------------------
(* What a step leaves of the other sessions                                *)

SettledThen(c) == results'[c] # "none" \/ c \in blamed' \/ evalRun' = "finished"

\* Results, blame and the end of a run stay.
NothingIsLost ==
  /\ \A c \in Cells : results[c] # "none" => results'[c] = results[c]
  /\ blamed \subseteq blamed'
  /\ evalRun = "finished" => evalRun' = "finished"
  /\ evalRun # "none" => evalRun' # "none"

\* A profile goes only when its model's cells are settled.
ProfilesGoLast ==
  \A m \in clones \ clones' : \A c \in Cells : ModelOf(c) = m => SettledThen(c)

LEMMA SettledStays ==
  ASSUME NothingIsLost
  PROVE  \A c \in Cells : Settled(c) => SettledThen(c)
BY DEF NothingIsLost, Settled, SettledThen

LEMMA OtherRests ==
  ASSUME EvalInv, NothingIsLost, ProfilesGoLast, NEW e \in Drivers,
         \/ drivers'[e] = drivers[e]
         \/ /\ drivers'[e] = [drivers[e] EXCEPT !.task = "stripped"]
            /\ drivers[e].task = "stored"
            /\ \A c \in Cells : ModelOf(c) = drivers[e].model => SettledThen(c)
  PROVE  SessionSound(e)'
<1> DEFINE s == drivers[e]
           t == drivers'[e]
<1>1. s \in SessionRecords /\ s.left \in SUBSET Cells
  BY DEF EvalInv, EvalTypeOK, SessionRecords
<1>2. /\ t.step = s.step /\ t.asked = s.asked /\ t.left = s.left /\ t.model = s.model
      /\ t.made = s.made /\ t.strange = s.strange
      /\ t.task # s.task => /\ s.task = "stored" /\ t.task = "stripped"
                            /\ \A c \in Cells : ModelOf(c) = s.model => SettledThen(c)
  BY <1>1 DEF SessionRecords
<1>3. \A c \in Cells : Settled(c) => SettledThen(c)
  BY SettledStays
<1>4. s.step \in Working => Min(s.left) \in s.left
  BY <1>1, NextCellIsLeft, CellsAreNumbers DEF EvalInv, SessionSound, SessionOwes
<1>5. SessionOwes(e) /\ ProfileIsThere(e) /\ StrangeIsSettled(e)
  BY DEF EvalInv, SessionSound
<1>6. SessionOwes(e)'
  <2>1. /\ s.step # "away" => evalRun' # "none"
        /\ s.step \notin {"away", "list"} =>
             /\ s.left \subseteq {c \in Cells : ModelOf(c) \in s.asked}
             /\ s.made \subseteq s.asked
             /\ \A c \in Cells : ModelOf(c) \in s.asked => c \in s.left \/ SettledThen(c)
        /\ s.step \in {"away", "list"} =>
             s.made = {} /\ s.task = "none" /\ ~s.strange /\ s.model = 0
        /\ s.step \in Working => s.left # {} /\ s.model = ModelOf(Min(s.left))
        /\ s.step = "clean" => s.left = {} /\ s.task = "none" /\ ~s.strange
    <3> HIDE DEF s, t
    <3>1. QED
      BY <1>3, <1>5 DEF SessionOwes, NothingIsLost, s
  <2>2. QED
    BY <1>2, <2>1 DEF SessionOwes, Settled, SettledThen
<1>7. ProfileIsThere(e)'
  <2>1. SUFFICES ASSUME t.step \in {"submit", "wait", "record", "insert"}, t.model \notin clones',
                        NEW c \in t.left, ModelOf(c) = t.model
                 PROVE  SettledThen(c)
    BY DEF ProfileIsThere, Settled, SettledThen
  <2>2. c \in s.left /\ c \in Cells /\ ModelOf(c) = s.model
    BY <1>1, <1>2, <2>1
  <2>3. QED
    BY <1>2, <1>3, <1>5, <2>1, <2>2 DEF ProfilesGoLast, ProfileIsThere
<1>8. StrangeIsSettled(e)'
  <2>1. t.task \in {"stripped", "bare"} => t.step = "wait" /\ SettledThen(Min(t.left))
    <3>1. CASE t.task = s.task
      BY <1>1, <1>2, <1>3, <1>4, <1>5, <3>1 DEF StrangeIsSettled, Working
    <3>2. CASE t.task # s.task
      BY <1>1, <1>2, <1>4, <1>5, <3>2 DEF StrangeIsSettled, SessionOwes, Working
    <3>3. QED
      BY <3>1, <3>2
  <2>2. /\ t.strange => t.step \in {"record", "insert"} /\ SettledThen(Min(t.left))
        /\ t.task # "none" => t.step = "wait"
        /\ t.strange /\ t.step = "insert" => results'[Min(t.left)] # "none" \/ Min(t.left) \in blamed'
    BY <1>1, <1>2, <1>3, <1>4, <1>5 DEF StrangeIsSettled, Working, NothingIsLost
  <2>3. QED
    BY <2>1, <2>2 DEF StrangeIsSettled, Settled, SettledThen
<1>9. QED
  BY <1>6, <1>7, <1>8 DEF SessionSound

-----------------------------------------------------------------------------
(* The session that moves                                                  *)

\* The loops of run_matrix go on with what is left, when all else is settled.
LEMMA AfterIsSound ==
  ASSUME EvalInv, NothingIsLost, NEW d \in Drivers, clones' = clones, evalRun' # "none",
         NEW left \in SUBSET Cells, drivers'[d] = After(drivers[d], left),
         left \subseteq {c \in Cells : ModelOf(c) \in drivers[d].asked},
         drivers[d].made \subseteq drivers[d].asked,
         \A c \in Cells : ModelOf(c) \in drivers[d].asked => c \in left \/ SettledThen(c),
         \A c \in left : ModelOf(c) = drivers[d].model /\ drivers[d].model \notin clones
                           => Settled(c)
  PROVE  SessionSound(d)' /\ drivers'[d] \in SessionRecords
<1> DEFINE s == drivers[d]
           t == drivers'[d]
           rest == [s EXCEPT !.left = left, !.try = 1, !.task = "none", !.strange = FALSE]
<1>1. s \in SessionRecords
  BY DEF EvalInv, EvalTypeOK, SessionRecords
<1>2. /\ rest \in SessionRecords /\ rest.left = left /\ rest.task = "none" /\ ~rest.strange
      /\ rest.asked = s.asked /\ rest.made = s.made /\ rest.model = s.model
  BY <1>1 DEF SessionRecords
<1>3. left # {} => Min(left) \in left
  BY NextCellIsLeft, CellsAreNumbers
<1>4. \A c \in Cells : Settled(c) => SettledThen(c)
  BY SettledStays
<1>5. t = IF left = {} THEN [rest EXCEPT !.step = "clean"]
          ELSE IF ModelOf(Min(left)) = s.model THEN [rest EXCEPT !.step = "submit"]
          ELSE [rest EXCEPT !.step = "clone", !.model = ModelOf(Min(left))]
  BY DEF After
<1>6. left # {} => ModelOf(Min(left)) \in Models
  BY <1>1, <1>3 DEF SessionRecords
<1> HIDE DEF rest, s, t
<1>7. /\ t \in SessionRecords /\ t.left = left /\ t.task = "none" /\ ~t.strange
      /\ t.asked = s.asked /\ t.made = s.made
      /\ \/ left = {} /\ t.step = "clean"
         \/ left # {} /\ t.step = "submit" /\ t.model = ModelOf(Min(left)) /\ t.model = s.model
         \/ left # {} /\ t.step = "clone" /\ t.model = ModelOf(Min(left))
  <2>1. CASE left = {}
    BY <1>2, <1>5, <2>1 DEF SessionRecords
  <2>2. CASE left # {} /\ ModelOf(Min(left)) = s.model
    BY <1>2, <1>5, <2>2 DEF SessionRecords
  <2>3. CASE left # {} /\ ModelOf(Min(left)) # s.model
    BY <1>2, <1>5, <1>6, <2>3 DEF SessionRecords
  <2>4. QED
    BY <2>1, <2>2, <2>3
<1>8. \A c \in Cells : SettledThen(c) <=> Settled(c)'
  BY DEF Settled, SettledThen
<1>9. SessionOwes(d)'
  BY <1>7, <1>8 DEF SessionOwes, Working, s, t
<1>10. ProfileIsThere(d)'
  <2>1. ASSUME t.step = "submit", t.model \notin clones, NEW c \in left, ModelOf(c) = t.model
        PROVE  SettledThen(c)
    BY <1>4, <1>7, <2>1 DEF s
  <2>2. QED
    BY <1>7, <2>1 DEF ProfileIsThere, t, Settled, SettledThen
<1>11. StrangeIsSettled(d)'
  BY <1>7 DEF StrangeIsSettled, t
<1>12. QED
  BY <1>7, <1>9, <1>10, <1>11 DEF SessionSound, t

\* A session on a cell goes on to another step with the same cell.
LEMMA SameCellIsSound ==
  ASSUME EvalInv, NothingIsLost, ProfilesGoLast, NEW d \in Drivers,
         drivers'[d] \in SessionRecords,
         drivers[d].step \in Working, drivers'[d].step \in Working,
         drivers'[d].left = drivers[d].left, drivers'[d].asked = drivers[d].asked,
         drivers'[d].made \subseteq drivers[d].asked, drivers'[d].model = drivers[d].model,
         drivers[d].step = "clone" /\ drivers'[d].step # "clone" =>
           \/ drivers[d].model \in clones'
           \/ \A c \in Cells : ModelOf(c) = drivers[d].model => SettledThen(c),
         StrangeIsSettled(d)'
  PROVE  SessionSound(d)'
<1> DEFINE s == drivers[d]
           t == drivers'[d]
<1>1. s \in SessionRecords /\ s.left \in SUBSET Cells
  BY DEF EvalInv, EvalTypeOK, SessionRecords
<1>2. SessionOwes(d) /\ ProfileIsThere(d)
  BY DEF EvalInv, SessionSound
<1>3. \A c \in Cells : Settled(c) => SettledThen(c)
  BY SettledStays
<1>4. SessionOwes(d)'
  BY <1>2, <1>3 DEF SessionOwes, Working, NothingIsLost, Settled, SettledThen
<1>5. ProfileIsThere(d)'
  <2>1. SUFFICES ASSUME t.step \in {"submit", "wait", "record", "insert"}, t.model \notin clones',
                        NEW c \in t.left, ModelOf(c) = t.model
                 PROVE  SettledThen(c)
    BY DEF ProfileIsThere, Settled, SettledThen
  <2>2. c \in Cells /\ c \in s.left /\ ModelOf(c) = s.model
    BY <1>1, <2>1
  <2>3. CASE s.step = "clone"
    BY <2>1, <2>2, <2>3
  <2>4. CASE s.step # "clone" /\ s.model \in clones
    BY <2>1, <2>2, <2>4 DEF ProfilesGoLast
  <2>5. CASE s.step # "clone" /\ s.model \notin clones
    BY <1>2, <1>3, <2>2, <2>5 DEF ProfileIsThere, Working
  <2>6. QED
    BY <2>3, <2>4, <2>5
<1>6. QED
  BY <1>4, <1>5 DEF SessionSound

\* A session that is gone owes nothing.
LEMMA GoneIsSound ==
  ASSUME NEW d \in Drivers, drivers'[d] = NoSession
  PROVE  SessionSound(d)'
BY DEF SessionSound, SessionOwes, ProfileIsThere, StrangeIsSettled, NoSession, Working

LEMMA SessionIsTyped ==
  ASSUME EvalInv, NEW d \in Drivers
  PROVE  /\ drivers \in [Drivers -> SessionRecords] /\ drivers[d] \in SessionRecords
         /\ drivers[d].step \in Working =>
              /\ Min(drivers[d].left) \in drivers[d].left /\ Min(drivers[d].left) \in Cells
              /\ drivers[d].model = ModelOf(Min(drivers[d].left))
              /\ drivers[d].model \in Models /\ drivers[d].model \in drivers[d].asked
<1>1. drivers \in [Drivers -> SessionRecords] /\ drivers[d] \in SessionRecords
  BY DEF EvalInv, EvalTypeOK, SessionRecords
<1>2. drivers[d].left \in SUBSET Cells /\ drivers[d].asked \in SUBSET Models
  BY <1>1 DEF SessionRecords
<1>3. SessionOwes(d)
  BY DEF EvalInv, SessionSound
<1>4. ASSUME drivers[d].step \in Working
      PROVE  Min(drivers[d].left) \in drivers[d].left
  BY <1>2, <1>3, <1>4, CellsAreNumbers, NextCellIsLeft DEF SessionOwes
<1>5. QED
  BY <1>1, <1>2, <1>3, <1>4 DEF SessionOwes, Working

\* What a step has to show when one session moves.
LEMMA Composes ==
  ASSUME EvalInv, NEW d \in Drivers, NEW t \in SessionRecords, Turns(d, t),
         NothingIsLost, ProfilesGoLast, SessionSound(d)', EvalRunsSound',
         results' \in [Cells -> {"none", "theirs", "strange"}],
         clones' \subseteq Models, blamed' \subseteq Cells, closer' \subseteq Models,
         evalRun' \in {"none", "open", "finished"},
         Slips \/ UNCHANGED evalSlips
  PROVE  EvalInv'
<1>1. drivers' \in [Drivers -> SessionRecords] /\ \A e \in Drivers \ {d} : drivers'[e] = drivers[e]
  BY SessionIsTyped DEF Turns
<1>2. evalSlips' \in 0..MaxSlips
  BY EvalAssumption DEF EvalInv, EvalTypeOK, Slips
<1>3. EvalTypeOK'
  BY <1>1, <1>2 DEF EvalTypeOK, SessionRecords
<1>4. \A e \in Drivers : SessionSound(e)'
  BY <1>1, OtherRests
<1>5. QED
  BY <1>3, <1>4 DEF EvalInv

\* Where nothing is recorded or finished, what is owed and stated stays.
LEMMA SoundStays ==
  ASSUME EvalInv, UNCHANGED <<results, evalRun, closer>>, blamed \subseteq blamed'
  PROVE  EvalRunsSound' /\ NothingIsLost
BY DEF EvalInv, EvalRunsSound, FinishedIsComplete, ResultsAreTheirs, NothingIsLost

LEMMA StartStep ==
  ASSUME EvalInv, NEW d \in Drivers, NEW named \in SUBSET Models, StartsRun(d, named)
  PROVE  EvalInv'
<1>1. [NoSession EXCEPT !.step = "list", !.asked = named] \in SessionRecords
  BY NoSessionIsTyped DEF SessionRecords
<1>2. drivers'[d] = [NoSession EXCEPT !.step = "list", !.asked = named]
  BY SessionIsTyped DEF StartsRun, Turns
<1>3. SessionSound(d)'
  BY <1>2 DEF SessionSound, SessionOwes, ProfileIsThere, StrangeIsSettled, NoSession, Working,
              StartsRun
<1>4. NothingIsLost /\ ProfilesGoLast /\ EvalRunsSound'
  BY DEF StartsRun, NothingIsLost, ProfilesGoLast, EvalInv, EvalRunsSound, FinishedIsComplete,
         ResultsAreTheirs
<1>5. QED
  BY <1>1, <1>3, <1>4, Composes DEF StartsRun, EvalInv, EvalTypeOK

LEMMA ListStep ==
  ASSUME EvalInv, NEW d \in Drivers, ListsRecorded(d)
  PROVE  EvalInv'
<1> DEFINE todo == {c \in Cells : ModelOf(c) \in drivers[d].asked /\ results[c] = "none"}
<1>1. drivers'[d] = After(drivers[d], todo) /\ Turns(d, After(drivers[d], todo))
  BY SessionIsTyped DEF ListsRecorded, Turns
<1>2. EvalRunsSound' /\ NothingIsLost /\ ProfilesGoLast
  BY SoundStays DEF ListsRecorded, ProfilesGoLast
<1>3. SessionSound(d)' /\ drivers'[d] \in SessionRecords
  <2>1. /\ drivers[d].step = "list" /\ drivers[d].model = 0 /\ drivers[d].made = {}
        /\ evalRun' # "none" /\ clones' = clones
    BY DEF ListsRecorded, EvalInv, SessionSound, SessionOwes
  <2>2. drivers[d].asked \subseteq Models
    BY SessionIsTyped DEF SessionRecords
  <2>3. \A c \in todo : ModelOf(c) # drivers[d].model
    BY <2>1, <2>2, CellsAreNumbers
  <2>4. \A c \in Cells : ModelOf(c) \in drivers[d].asked => c \in todo \/ SettledThen(c)
    BY DEF ListsRecorded, SettledThen
  <2>5. \A left \in SUBSET Cells : left = todo => SessionSound(d)' /\ drivers'[d] \in SessionRecords
    BY <1>1, <1>2, <2>1, <2>3, <2>4, AfterIsSound
  <2>6. QED
    BY <2>5
<1>4. QED
  BY <1>1, <1>2, <1>3, Composes DEF ListsRecorded, EvalInv, EvalTypeOK

LEMMA CloneStep ==
  ASSUME EvalInv, NEW d \in Drivers,
         ClonesProfile(d) \/ RefusesClone(d) \/ FailsToClone(d)
  PROVE  EvalInv'
<1> DEFINE s == drivers[d]
           m == s.model
<1>1. /\ s \in SessionRecords /\ s.step = "clone" /\ m \in Models /\ m \in s.asked
      /\ s.made \subseteq s.asked /\ evalRun # "none"
  BY SessionIsTyped DEF ClonesProfile, RefusesClone, FailsToClone, Working, EvalInv,
                        SessionSound, SessionOwes
<1>2. EvalRunsSound' /\ NothingIsLost
  BY SoundStays DEF ClonesProfile, RefusesClone, FailsToClone
<1>3. ProfilesGoLast
  BY DEF ProfilesGoLast, ClonesProfile, RefusesClone, FailsToClone
<1>4. CASE ClonesProfile(d) /\ UNCHANGED drivers
  <2>1. Turns(d, s)
    BY <1>4, SessionIsTyped DEF Turns
  <2>2. SessionSound(d)'
    BY <1>2, <1>3, <1>4, OtherRests
  <2>3. Slips \/ UNCHANGED evalSlips
    BY <1>4 DEF ClonesProfile
  <2>4. QED
    BY <1>1, <1>2, <1>3, <1>4, <2>1, <2>2, <2>3, Composes DEF ClonesProfile, EvalInv, EvalTypeOK
<1>5. CASE /\ ClonesProfile(d) /\ UNCHANGED evalSlips
           /\ Turns(d, [s EXCEPT !.step = "submit", !.made = IF m \in clones THEN @ ELSE @ \union {m}])
  <2> DEFINE t == [s EXCEPT !.step = "submit",
                            !.made = IF m \in clones THEN @ ELSE @ \union {m}]
  <2>1. /\ t \in SessionRecords /\ t.left = s.left /\ t.asked = s.asked /\ t.model = s.model
        /\ t.made \subseteq s.asked /\ t.step = "submit" /\ t.task = s.task /\ t.strange = s.strange
    BY <1>1 DEF SessionRecords
  <2>2. drivers'[d] = t /\ Turns(d, t)
    BY <1>5, SessionIsTyped DEF Turns
  <2> HIDE DEF t
  <2>3. StrangeIsSettled(d)'
    BY <1>1, <2>1, <2>2 DEF StrangeIsSettled, EvalInv, SessionSound
  <2>4. m \in clones'
    BY <1>5 DEF ClonesProfile
  <2>5. SessionSound(d)'
    BY <1>1, <1>2, <1>3, <2>1, <2>2, <2>3, <2>4, SameCellIsSound DEF Working
  <2>6. QED
    BY <1>1, <1>2, <1>3, <1>5, <2>1, <2>2, <2>5, Composes DEF ClonesProfile, EvalInv, EvalTypeOK
<1>6. CASE RefusesClone(d)
  <2> DEFINE rest == s.left \ CellsOf(m)
  <2>1. /\ drivers'[d] = After(s, rest) /\ Turns(d, After(s, rest))
        /\ clones' = clones /\ evalRun' # "none"
    BY <1>1, <1>6, SessionIsTyped DEF RefusesClone, Turns
  <2>2. s.left \subseteq {c \in Cells : ModelOf(c) \in s.asked}
    BY <1>1 DEF EvalInv, SessionSound, SessionOwes
  <2>3. \A c \in Cells : ModelOf(c) \in s.asked => c \in rest \/ SettledThen(c)
    <3>1. \A c \in Cells : ModelOf(c) \in s.asked => c \in s.left \/ Settled(c)
      BY <1>1 DEF EvalInv, SessionSound, SessionOwes
    <3>2. \A c \in Cells : Settled(c) => SettledThen(c)
      BY <1>2, SettledStays
    <3>3. \A c \in CellsOf(m) : SettledThen(c)
      BY <1>6 DEF RefusesClone, SettledThen
    <3>4. QED
      BY <3>1, <3>2, <3>3
  <2>4. \A c \in rest : ModelOf(c) # m
    BY <2>2 DEF CellsOf
  <2>5. \A left \in SUBSET Cells : left = rest => SessionSound(d)' /\ drivers'[d] \in SessionRecords
    BY <1>1, <1>2, <2>1, <2>2, <2>3, <2>4, AfterIsSound
  <2>6. SessionSound(d)' /\ After(s, rest) \in SessionRecords
    BY <2>1, <2>2, <2>5
  <2>7. blamed' \subseteq Cells
    BY <1>6 DEF RefusesClone, EvalInv, EvalTypeOK, CellsOf
  <2> HIDE DEF rest
  <2>8. QED
    BY <1>2, <1>3, <1>6, <2>1, <2>6, <2>7, Composes DEF RefusesClone, EvalInv, EvalTypeOK
<1>7. CASE FailsToClone(d)
  <2> DEFINE t == [s EXCEPT !.step = "submit"]
  <2>1. /\ t \in SessionRecords /\ t.left = s.left /\ t.asked = s.asked /\ t.model = s.model
        /\ t.made = s.made /\ t.step = "submit" /\ t.task = s.task /\ t.strange = s.strange
    BY <1>1 DEF SessionRecords
  <2>2. drivers'[d] = t /\ Turns(d, t)
    BY <1>7, SessionIsTyped DEF FailsToClone, Turns
  <2> HIDE DEF t
  <2>3. StrangeIsSettled(d)'
    BY <1>1, <2>1, <2>2 DEF StrangeIsSettled, EvalInv, SessionSound
  <2>4. \A c \in Cells : ModelOf(c) = m => SettledThen(c)
    BY <1>7 DEF FailsToClone, SettledThen, CellsOf
  <2>5. SessionSound(d)'
    BY <1>1, <1>2, <1>3, <2>1, <2>2, <2>3, <2>4, SameCellIsSound DEF Working
  <2>6. blamed' \subseteq Cells
    BY <1>7 DEF FailsToClone, EvalInv, EvalTypeOK, CellsOf
  <2>7. QED
    BY <1>1, <1>2, <1>3, <1>7, <2>1, <2>2, <2>5, <2>6, Composes
    DEF FailsToClone, EvalInv, EvalTypeOK
<1>8. QED
  BY <1>4, <1>5, <1>6, <1>7 DEF ClonesProfile

\* The second attempt's failure is the result; a strange one is written only
\* where the cell is settled.
LEMMA LostAttempt ==
  ASSUME EvalInv, NothingIsLost, NEW d \in Drivers, NEW strange \in BOOLEAN,
         drivers[d].step \in {"submit", "wait"}, clones' = clones,
         strange => SettledThen(Min(drivers[d].left)),
         drivers'[d] = AttemptLost(drivers[d], strange)
  PROVE  SessionSound(d)' /\ drivers'[d] \in SessionRecords
<1> DEFINE s == drivers[d]
           t == drivers'[d]
<1>1. s \in SessionRecords /\ s.step \in Working /\ s.made \subseteq s.asked /\ ~s.strange
  BY SessionIsTyped DEF Working, EvalInv, SessionSound, SessionOwes, StrangeIsSettled
<1>2. /\ t \in SessionRecords /\ t.left = s.left /\ t.asked = s.asked /\ t.model = s.model
      /\ t.made = s.made /\ t.task = "none"
      /\ \/ t.step = "submit" /\ ~t.strange
         \/ t.step = "record" /\ t.strange = strange
  <2>1. CASE s.try = 1
    <3>1. t = [s EXCEPT !.step = "submit", !.try = 2, !.task = "none"]
      BY <2>1 DEF AttemptLost
    <3>2. QED
      BY <1>1, <3>1 DEF SessionRecords
  <2>2. CASE s.try # 1
    <3>1. t = [s EXCEPT !.step = "record", !.task = "none", !.strange = strange]
      BY <2>2 DEF AttemptLost
    <3>2. QED
      BY <1>1, <3>1 DEF SessionRecords
  <2>3. QED
    BY <2>1, <2>2
<1> HIDE DEF s, t
<1>3. StrangeIsSettled(d)'
  BY <1>2 DEF StrangeIsSettled, Settled, SettledThen, s, t
<1>4. QED
  BY <1>1, <1>2, <1>3, SameCellIsSound DEF Working, ProfilesGoLast, s, t

LEMMA WorkStep ==
  ASSUME EvalInv, NEW d \in Drivers,
         SubmitsTask(d) \/ TaskRuns(d) \/ Judges(d) \/ LosesAttempt(d)
  PROVE  EvalInv'
<1> DEFINE s == drivers[d]
           t == drivers'[d]
<1>1. /\ s \in SessionRecords /\ s.step \in Working /\ s.made \subseteq s.asked
      /\ s.step \in {"submit", "wait"}
      /\ UNCHANGED <<evalRun, results, clones, blamed, closer, evalSlips>>
      /\ SessionOwes(d) /\ ProfileIsThere(d) /\ StrangeIsSettled(d)
      /\ Min(s.left) \in s.left /\ Min(s.left) \in Cells /\ s.model = ModelOf(Min(s.left))
  BY SessionIsTyped DEF SubmitsTask, TaskRuns, Judges, LosesAttempt, Working, EvalInv,
                        SessionSound, SessionOwes
<1>2. EvalRunsSound' /\ NothingIsLost /\ ProfilesGoLast
  BY <1>1, SoundStays DEF ProfilesGoLast
<1>3. \A c \in Cells : Settled(c) => SettledThen(c)
  BY <1>2, SettledStays
<1>4. ASSUME NEW r \in SessionRecords, Turns(d, r), SessionSound(d)'
      PROVE  EvalInv'
  BY <1>1, <1>2, <1>4, Composes DEF EvalInv, EvalTypeOK
<1>5. CASE SubmitsTask(d) /\ s.model \in clones
  <2> DEFINE r == [s EXCEPT !.step = "wait", !.task = "stored"]
  <2>1. /\ r \in SessionRecords /\ r.left = s.left /\ r.asked = s.asked /\ r.model = s.model
        /\ r.made = s.made /\ r.step = "wait" /\ r.task = "stored" /\ r.strange = s.strange
    BY <1>1 DEF SessionRecords, Waiting
  <2>2. Turns(d, r) /\ t = r
    BY <1>5, SessionIsTyped DEF SubmitsTask, Turns
  <2> HIDE DEF r
  <2>3. StrangeIsSettled(d)'
    BY <1>1, <1>5, <2>1, <2>2 DEF StrangeIsSettled, SubmitsTask
  <2>4. SessionSound(d)'
    BY <1>1, <1>2, <1>5, <2>1, <2>2, <2>3, SameCellIsSound DEF Working, SubmitsTask
  <2>5. QED
    BY <1>4, <2>1, <2>2, <2>4
<1>6. CASE SubmitsTask(d) /\ s.model \notin clones
  <2>1. t = AttemptLost(s, TRUE) /\ Turns(d, AttemptLost(s, TRUE))
    BY <1>6, SessionIsTyped DEF SubmitsTask, Turns
  <2>2. SettledThen(Min(s.left))
    BY <1>1, <1>3, <1>6 DEF ProfileIsThere, SubmitsTask
  <2>3. SessionSound(d)' /\ t \in SessionRecords
    BY <1>1, <1>2, <2>1, <2>2, LostAttempt
  <2>4. QED
    BY <1>4, <2>1, <2>3
<1>7. CASE TaskRuns(d)
  <2> DEFINE r == [s EXCEPT !.task = IF @ = "stored" THEN "obeyed" ELSE "bare"]
  <2>1. /\ r \in SessionRecords /\ r.left = s.left /\ r.asked = s.asked /\ r.model = s.model
        /\ r.made = s.made /\ r.step = s.step /\ r.strange = s.strange
        /\ r.task \in {"obeyed", "bare"}
        /\ r.task = "bare" => s.task # "stored"
    BY <1>1 DEF SessionRecords, Ran
  <2>2. Turns(d, r) /\ t = r
    BY <1>7, SessionIsTyped DEF TaskRuns, Turns
  <2> HIDE DEF r
  <2>3. s.step = "wait" /\ s.task \in {"stored", "stripped"}
    BY <1>7 DEF TaskRuns, Waiting
  <2>4. StrangeIsSettled(d)'
    <3>1. r.task = "bare" => SettledThen(Min(s.left))
      BY <1>1, <1>3, <2>1, <2>3 DEF StrangeIsSettled
    <3>2. ~s.strange
      BY <1>1, <2>3 DEF StrangeIsSettled
    <3>3. /\ t.step = "wait" /\ ~t.strange /\ t.left = s.left
          /\ t.task \in {"stripped", "bare"} => SettledThen(Min(t.left))
      BY <2>1, <2>2, <2>3, <3>1, <3>2
    <3>4. QED
      BY <3>3 DEF StrangeIsSettled, Settled, SettledThen
  <2>5. SessionSound(d)'
    BY <1>1, <1>2, <2>1, <2>2, <2>3, <2>4, SameCellIsSound DEF Working
  <2>6. QED
    BY <1>4, <2>1, <2>2, <2>5
<1>8. CASE Judges(d)
  <2> DEFINE r == [s EXCEPT !.step = "record", !.strange = (s.task = "bare"), !.task = "none"]
  <2>1. (s.task = "bare") \in BOOLEAN
    OBVIOUS
  <2>2. /\ r \in SessionRecords /\ r.left = s.left /\ r.asked = s.asked /\ r.model = s.model
        /\ r.made = s.made /\ r.step = "record" /\ r.task = "none"
        /\ r.strange => s.task = "bare"
    BY <1>1, <2>1 DEF SessionRecords
  <2>3. Turns(d, r) /\ t = r
    BY <1>8, SessionIsTyped DEF Judges, Turns
  <2> HIDE DEF r
  <2>4. StrangeIsSettled(d)'
    BY <1>1, <1>3, <2>2, <2>3 DEF StrangeIsSettled, Settled, SettledThen
  <2>5. SessionSound(d)'
    BY <1>1, <1>2, <1>8, <2>2, <2>3, <2>4, SameCellIsSound DEF Working, Judges
  <2>6. QED
    BY <1>4, <2>2, <2>3, <2>5
<1>9. CASE LosesAttempt(d)
  <2> DEFINE strange == s.task \in {"stripped", "bare"}
  <2>1. t = AttemptLost(s, strange) /\ Turns(d, AttemptLost(s, strange))
    BY <1>9, SessionIsTyped DEF LosesAttempt, Turns
  <2>2. strange => SettledThen(Min(s.left))
    BY <1>1, <1>3 DEF StrangeIsSettled
  <2>3. \A b \in BOOLEAN : b = strange => SessionSound(d)' /\ t \in SessionRecords
    BY <1>1, <1>2, <2>1, <2>2, LostAttempt
  <2>4. strange \in BOOLEAN
    OBVIOUS
  <2> HIDE DEF strange
  <2>5. SessionSound(d)' /\ AttemptLost(s, strange) \in SessionRecords
    BY <2>1, <2>3, <2>4
  <2>6. QED
    BY <1>4, <2>1, <2>5
<1>10. QED
  BY <1>5, <1>6, <1>7, <1>8, <1>9

LEMMA RecordStep ==
  ASSUME EvalInv, NEW d \in Drivers,
         ChecksRun(d) \/ InsertsResult(d) \/ FailsToRecord(d)
  PROVE  EvalInv'
<1> DEFINE s == drivers[d]
           t == drivers'[d]
           c == Min(s.left)
           rest == s.left \ {c}
<1>1. /\ s \in SessionRecords /\ s.step \in Working /\ s.made \subseteq s.asked
      /\ s.step \in {"record", "insert"} /\ evalRun # "none"
      /\ UNCHANGED <<evalRun, clones, closer>>
      /\ SessionOwes(d) /\ ProfileIsThere(d) /\ StrangeIsSettled(d)
      /\ c \in s.left /\ c \in Cells /\ s.model = ModelOf(c)
      /\ s.left \subseteq {e \in Cells : ModelOf(e) \in s.asked} /\ c = Cell(d)
  BY SessionIsTyped DEF ChecksRun, InsertsResult, FailsToRecord, Working, EvalInv,
                        SessionSound, SessionOwes, Cell
<1>2. /\ results' \in [Cells -> {"none", "theirs", "strange"}] /\ blamed' \subseteq Cells
      /\ Slips \/ UNCHANGED evalSlips
      /\ blamed \subseteq blamed'
      /\ \A e \in Cells : results[e] # "none" => results'[e] = results[e]
      /\ \A e \in Cells : results'[e] # results[e] =>
           e = c /\ results[e] = "none" /\ s.step = "insert"
           /\ results'[e] = IF s.strange THEN "strange" ELSE "theirs"
  <2>1. CASE InsertsResult(d)
    BY <1>1, <2>1 DEF InsertsResult, EvalInv, EvalTypeOK
  <2>2. CASE ChecksRun(d) \/ FailsToRecord(d)
    BY <1>1, <2>2 DEF ChecksRun, FailsToRecord, EvalInv, EvalTypeOK
  <2>3. QED
    BY <2>1, <2>2
<1>3. NothingIsLost /\ ProfilesGoLast
  BY <1>1, <1>2 DEF NothingIsLost, ProfilesGoLast
<1>4. EvalRunsSound'
  <2>1. FinishedIsComplete'
    BY <1>1, <1>2 DEF EvalInv, EvalRunsSound, FinishedIsComplete
  <2>2. ASSUME NEW e \in Cells, results'[e] = "strange" PROVE e \in blamed'
    <3>1. CASE results'[e] = results[e]
      BY <1>2, <2>2, <3>1 DEF EvalInv, EvalRunsSound, ResultsAreTheirs
    <3>2. CASE results'[e] # results[e]
      BY <1>1, <1>2, <2>2, <3>2 DEF StrangeIsSettled
    <3>3. QED
      BY <3>1, <3>2
  <2>3. QED
    BY <2>1, <2>2 DEF EvalRunsSound, ResultsAreTheirs
<1>5. \A e \in Cells : Settled(e) => SettledThen(e)
  BY <1>3, SettledStays
<1>6. ASSUME NEW r \in SessionRecords, Turns(d, r), SessionSound(d)'
      PROVE  EvalInv'
  BY <1>1, <1>2, <1>3, <1>4, <1>6, Composes DEF EvalInv, EvalTypeOK
<1>7. ASSUME Turns(d, After(s, rest)), SettledThen(c)
      PROVE  EvalInv'
  <2>1. t = After(s, rest)
    BY <1>7, SessionIsTyped DEF Turns
  <2>2. \A e \in Cells : ModelOf(e) \in s.asked => e \in rest \/ SettledThen(e)
    BY <1>1, <1>5, <1>7 DEF SessionOwes
  <2>3. \A e \in rest : ModelOf(e) = s.model /\ s.model \notin clones => Settled(e)
    BY <1>1 DEF ProfileIsThere
  <2>4. rest \in SUBSET Cells /\ rest \subseteq {e \in Cells : ModelOf(e) \in s.asked}
    BY <1>1
  <2>5. \A left \in SUBSET Cells : left = rest => SessionSound(d)' /\ t \in SessionRecords
    <3> HIDE DEF rest
    <3>1. QED
      BY <1>1, <1>3, <2>1, <2>2, <2>3, <2>4, AfterIsSound
  <2>6. QED
    BY <1>6, <1>7, <2>1, <2>4, <2>5
<1>8. CASE ChecksRun(d) /\ evalRun = "finished"
  BY <1>1, <1>7, <1>8 DEF ChecksRun, SettledThen
<1>9. CASE ChecksRun(d) /\ evalRun # "finished"
  <2> DEFINE r == [s EXCEPT !.step = "insert"]
  <2>1. /\ r \in SessionRecords /\ r.left = s.left /\ r.asked = s.asked /\ r.model = s.model
        /\ r.made = s.made /\ r.step = "insert" /\ r.task = s.task /\ r.strange = s.strange
    BY <1>1 DEF SessionRecords
  <2>2. Turns(d, r) /\ t = r
    BY <1>9, SessionIsTyped DEF ChecksRun, Turns
  <2> HIDE DEF r
  <2>3. StrangeIsSettled(d)'
    BY <1>1, <1>9, <2>1, <2>2 DEF StrangeIsSettled, Settled, ChecksRun
  <2>4. SessionSound(d)'
    BY <1>1, <1>3, <1>9, <2>1, <2>2, <2>3, SameCellIsSound DEF Working
  <2>5. QED
    BY <1>6, <2>1, <2>2, <2>4
<1>10. CASE InsertsResult(d)
  <2>1. SettledThen(c)
    BY <1>1, <1>2, <1>10 DEF InsertsResult, SettledThen, EvalInv, EvalTypeOK
  <2>2. CASE Turns(d, After(s, rest))
    BY <1>7, <2>1, <2>2
  <2>3. CASE Turns(d, [s EXCEPT !.step = "record"])
    <3> DEFINE r == [s EXCEPT !.step = "record"]
    <3>1. /\ r \in SessionRecords /\ r.left = s.left /\ r.asked = s.asked /\ r.model = s.model
          /\ r.made = s.made /\ r.step = "record" /\ r.task = s.task /\ r.strange = s.strange
      BY <1>1 DEF SessionRecords
    <3>2. Turns(d, r) /\ t = r
      BY <2>3, SessionIsTyped DEF Turns
    <3> HIDE DEF r
    <3>3. StrangeIsSettled(d)'
      BY <1>1, <2>1, <3>1, <3>2 DEF StrangeIsSettled, Settled, SettledThen
    <3>4. SessionSound(d)'
      BY <1>1, <1>3, <3>1, <3>2, <3>3, SameCellIsSound DEF Working
    <3>5. QED
      BY <1>6, <3>1, <3>2, <3>4
  <2>4. QED
    BY <1>1, <1>10, <2>2, <2>3 DEF InsertsResult
<1>11. CASE FailsToRecord(d)
  <2>1. SettledThen(c)
    BY <1>1, <1>11 DEF FailsToRecord, SettledThen
  <2>2. QED
    BY <1>1, <1>7, <1>11, <2>1 DEF FailsToRecord
<1>12. QED
  BY <1>8, <1>9, <1>10, <1>11

\* Profiles go when nothing their session was asked for is open, or to a stranger.
LEMMA CleanUpStep ==
  ASSUME EvalInv, NEW d \in Drivers, CleansUpProfile(d)
  PROVE  EvalInv'
<1> DEFINE s == drivers[d]
           m == Min(s.made)
           r == [s EXCEPT !.made = @ \ {m}]
<1>1. /\ s \in SessionRecords /\ s.step = "clean" /\ s.made # {} /\ s.made \in SUBSET Models
      /\ UNCHANGED <<evalRun, results, blamed, closer>>
      /\ SessionOwes(d) /\ StrangeIsSettled(d) /\ drivers \in [Drivers -> SessionRecords]
  BY SessionIsTyped DEF CleansUpProfile, EvalInv, SessionSound, SessionRecords
<1>2. m \in s.made /\ m \in s.asked
  <2>1. s.made \subseteq Nat
    BY <1>1 DEF Models
  <2>2. m \in s.made
    BY <1>1, <2>1, NextCellIsLeft
  <2>3. QED
    BY <1>1, <2>2 DEF SessionOwes
<1>3. EvalRunsSound' /\ NothingIsLost
  BY <1>1, SoundStays
<1>4. /\ r \in SessionRecords /\ r.left = s.left /\ r.asked = s.asked
      /\ r.made \subseteq s.made /\ r.step = "clean" /\ r.task = s.task /\ r.strange = s.strange
  BY <1>1 DEF SessionRecords
<1>5. \A c \in Cells : ModelOf(c) = m => SettledThen(c)
  BY <1>1, <1>2, <1>3, SettledStays DEF SessionOwes
<1>6. ProfilesGoLast /\ clones' \subseteq Models
  BY <1>5 DEF ProfilesGoLast, CleansUpProfile, EvalInv, EvalTypeOK
<1> HIDE DEF r
<1>7. ASSUME drivers'[d] = r PROVE SessionSound(d)'
  <2>1. SessionOwes(d)'
    BY <1>1, <1>4, <1>7 DEF SessionOwes, Working, Settled
  <2>2. ProfileIsThere(d)' /\ StrangeIsSettled(d)'
    BY <1>1, <1>4, <1>7 DEF ProfileIsThere, StrangeIsSettled, SessionOwes
  <2>3. QED
    BY <2>1, <2>2 DEF SessionSound
<1>8. CASE Turns(d, r) /\ Slips /\ UNCHANGED clones
  <2>1. drivers'[d] = r
    BY <1>1, <1>8 DEF Turns
  <2>2. QED
    BY <1>1, <1>3, <1>4, <1>6, <1>7, <1>8, <2>1, Composes DEF EvalInv, EvalTypeOK
<1>9. CASE drivers' = [Stripped(m) EXCEPT ![d].made = @ \ {m}] /\ UNCHANGED evalSlips
  <2>1. Stripped(m)[d] = s
    BY <1>1 DEF Stripped, SessionOwes
  <2>2. drivers'[d] = r
    BY <1>9, <2>1 DEF Stripped, r
  <2>3. ASSUME NEW e \in Drivers \ {d}
        PROVE  drivers'[e] \in SessionRecords /\ SessionSound(e)'
    <3>1. drivers'[e] = IF drivers[e].task = "stored" /\ drivers[e].model = m
                          THEN [drivers[e] EXCEPT !.task = "stripped"] ELSE drivers[e]
      BY <1>9 DEF Stripped
    <3>2. drivers'[e] \in SessionRecords
      BY <1>1, <3>1 DEF SessionRecords, Waiting
    <3>3. SessionSound(e)'
      BY <1>3, <1>5, <1>6, <3>1, OtherRests
    <3>4. QED
      BY <3>2, <3>3
  <2>4. drivers' \in [Drivers -> SessionRecords]
    <3>1. DOMAIN drivers' = Drivers /\ drivers' = [e \in Drivers |-> drivers'[e]]
      BY <1>9 DEF Stripped
    <3>2. QED
      BY <1>4, <2>2, <2>3, <3>1
  <2>5. EvalTypeOK'
    BY <1>1, <1>6, <1>9, <2>4 DEF EvalInv, EvalTypeOK, SessionRecords
  <2>6. QED
    BY <1>3, <1>7, <2>2, <2>3, <2>5 DEF EvalInv
<1>10. QED
  BY <1>8, <1>9 DEF CleansUpProfile, r

LEMMA ForeignStep ==
  ASSUME EvalInv, NEW m \in Models, ForeignDeletion(m)
  PROVE  EvalInv'
<1>1. UNCHANGED <<evalRun, results, closer>> /\ blamed' = blamed \union CellsOf(m)
  BY DEF ForeignDeletion
<1>2. EvalRunsSound' /\ NothingIsLost
  BY <1>1, SoundStays
<1>3. \A c \in Cells : ModelOf(c) = m => SettledThen(c)
  BY <1>1 DEF CellsOf, SettledThen
<1>4. ProfilesGoLast
  BY <1>3 DEF ProfilesGoLast, ForeignDeletion
<1>5. ASSUME NEW e \in Drivers PROVE drivers'[e] \in SessionRecords /\ SessionSound(e)'
  <2>1. drivers'[e] = IF drivers[e].task = "stored" /\ drivers[e].model = m
                        THEN [drivers[e] EXCEPT !.task = "stripped"] ELSE drivers[e]
    BY DEF ForeignDeletion, Stripped
  <2>2. drivers'[e] \in SessionRecords
    BY <2>1, SessionIsTyped DEF SessionRecords, Waiting
  <2>3. SessionSound(e)'
    BY <1>2, <1>3, <1>4, <2>1, OtherRests
  <2>4. QED
    BY <2>2, <2>3
<1>6. EvalTypeOK'
  <2>1. drivers' \in [Drivers -> SessionRecords]
    BY <1>5 DEF ForeignDeletion, Stripped
  <2>2. evalSlips' \in 0..MaxSlips
    BY EvalAssumption DEF EvalInv, EvalTypeOK, ForeignDeletion, Slips
  <2>3. blamed' \subseteq Cells
    BY <1>1 DEF EvalInv, EvalTypeOK, CellsOf
  <2>4. QED
    BY <1>1, <2>1, <2>2, <2>3 DEF EvalInv, EvalTypeOK, SessionRecords, ForeignDeletion
<1>7. QED
  BY <1>2, <1>5, <1>6 DEF EvalInv

LEMMA EndingStep ==
  ASSUME EvalInv, NEW d \in Drivers, FinishesRun(d) \/ Dies(d)
  PROVE  EvalInv'
<1>1. /\ Turns(d, NoSession) /\ NoSession \in SessionRecords
      /\ UNCHANGED <<results, clones, blamed>>
      /\ Slips \/ UNCHANGED evalSlips
  BY NoSessionIsTyped DEF FinishesRun, Dies
<1>2. SessionSound(d)'
  <2>1. drivers'[d] = NoSession
    BY <1>1, SessionIsTyped DEF Turns
  <2>2. QED
    BY <2>1, GoneIsSound
<1>3. ProfilesGoLast
  BY <1>1 DEF ProfilesGoLast
<1>4. CASE UNCHANGED <<evalRun, closer>>
  BY <1>1, <1>2, <1>3, <1>4, SoundStays, Composes DEF EvalInv, EvalTypeOK
<1>5. CASE /\ FinishesRun(d) /\ evalRun' = "finished"
           /\ closer' = IF evalRun = "open" THEN drivers[d].asked ELSE closer
  <2>1. /\ drivers[d].step = "clean" /\ drivers[d].left = {} /\ evalRun # "none"
        /\ drivers[d].asked \subseteq Models
        /\ \A c \in Cells : ModelOf(c) \in drivers[d].asked => Settled(c)
    BY <1>5, SessionIsTyped DEF FinishesRun, EvalInv, SessionSound, SessionOwes, SessionRecords
  <2>2. NothingIsLost
    BY <1>1, <1>5 DEF NothingIsLost
  <2>3. FinishedIsComplete'
    <3>1. CASE evalRun = "open"
      BY <1>1, <1>5, <2>1, <3>1 DEF FinishedIsComplete, Settled
    <3>2. CASE evalRun = "finished"
      BY <1>1, <1>5, <3>2 DEF FinishedIsComplete, EvalInv, EvalRunsSound
    <3>3. QED
      BY <2>1, <3>1, <3>2 DEF EvalInv, EvalTypeOK
  <2>4. EvalRunsSound'
    BY <1>1, <2>3 DEF EvalRunsSound, ResultsAreTheirs, EvalInv
  <2>5. QED
    BY <1>1, <1>2, <1>3, <1>5, <2>1, <2>2, <2>4, Composes DEF EvalInv, EvalTypeOK
<1>6. QED
  BY <1>4, <1>5 DEF FinishesRun, Dies

LEMMA EvalStepInv == EvalInv /\ [EvalNext]_evalVars => EvalInv'
<1> SUFFICES ASSUME EvalInv, [EvalNext]_evalVars PROVE EvalInv'
  OBVIOUS
<1>1. CASE EvalNext
  BY <1>1, StartStep, ListStep, CloneStep, WorkStep, RecordStep, CleanUpStep, ForeignStep,
     EndingStep DEF EvalNext
<1>2. CASE UNCHANGED evalVars
  <2>1. NothingIsLost /\ ProfilesGoLast /\ EvalRunsSound'
    BY <1>2, SoundStays DEF evalVars, ProfilesGoLast
  <2>2. \A e \in Drivers : SessionSound(e)'
    BY <1>2, <2>1, OtherRests DEF evalVars
  <2>3. EvalTypeOK'
    BY <1>2 DEF evalVars, EvalInv, EvalTypeOK
  <2>4. QED
    BY <2>1, <2>2, <2>3 DEF EvalInv
<1>3. QED
  BY <1>1, <1>2

\* A run that is finished has a result for every cell or a reason, and each result is
\* of a task that ran with the profile of its cell (run_matrix, clone_task_profile,
\* record_eval_result), for any number of sessions, models, repetitions, lost calls
\* and deaths of a session.
THEOREM EvalRunsAreSound == EvalSpec => []EvalRunsSound
<1>1. EvalInv => EvalRunsSound
  BY DEF EvalInv
<1>2. QED
  BY <1>1, EvalInvInit, EvalStepInv, PTL DEF EvalSpec

-----------------------------------------------------------------------------
(* The composition of the server                                           *)

LEMMA ServerStart ==
  ServerInit =>
    /\ DraftInit
    /\ LogInit
    /\ ProvidersInit
    /\ PluginsInit
    /\ PreparationInit
    /\ GrantsInit
    /\ MailInit
    /\ TokensInit
    /\ TunnelInit
    /\ EvalInit
BY DEF ServerInit

\* A step of the composition is a step of each part, or leaves it as it is.
LEMMA ServerStep ==
  [ServerNext]_serverVars =>
    /\ [DraftNext]_draftVars
    /\ [LogNext]_logVars
    /\ [ProvidersNext]_providerVars
    /\ [PluginsNext]_pluginVars
    /\ [PreparationNext]_preparationVars
    /\ [GrantsNext]_grantVars
    /\ [MailNext]_mailVars
    /\ [TokensNext]_tokenVars
    /\ [TunnelNext]_tunnelVars
    /\ [EvalNext]_evalVars
<1> DEFINE Fits ==
             /\ [DraftNext]_draftVars
             /\ [LogNext]_logVars
             /\ [ProvidersNext]_providerVars
             /\ [PluginsNext]_pluginVars
             /\ [PreparationNext]_preparationVars
             /\ [GrantsNext]_grantVars
             /\ [MailNext]_mailVars
             /\ [TokensNext]_tokenVars
             /\ [TunnelNext]_tunnelVars
             /\ [EvalNext]_evalVars
<1> SUFFICES ASSUME [ServerNext]_serverVars PROVE Fits
  OBVIOUS
<1>1. CASE DraftsMove
  BY <1>1 DEF DraftsMove, Only
<1>2. CASE LogsMove
  BY <1>2 DEF LogsMove, Only
<1>3. CASE ProvidersMove
  BY <1>3 DEF ProvidersMove, Only
<1>4. CASE PluginsMove
  BY <1>4 DEF PluginsMove, Only
<1>5. CASE PreparationMoves
  BY <1>5 DEF PreparationMoves, Only
<1>6. CASE GrantsMove
  BY <1>6 DEF GrantsMove, Only
<1>7. CASE MailMoves
  BY <1>7 DEF MailMoves, Only
<1>8. CASE TokensMove
  BY <1>8 DEF TokensMove, Only
<1>9. CASE TunnelMoves
  BY <1>9 DEF TunnelMoves, Only
<1>10. CASE EvalsMove
  BY <1>10 DEF EvalsMove, Only
<1>11. CASE UNCHANGED serverVars
  BY <1>11 DEF serverVars
<1>12. QED
  BY <1>1, <1>2, <1>3, <1>4, <1>5, <1>6, <1>7, <1>8, <1>9, <1>10, <1>11 DEF ServerNext

\* Every variable of every part of the server keeps its type when the parts run side
\* by side, each from its own handlers, for every value of all their constants.
THEOREM ServerIsTyped == ServerSpec => []ServerTypeOK
<1>1. DraftInit /\ [][DraftNext]_draftVars => []DraftsTypeOK
  <2>1. DraftsInv => DraftsTypeOK
    BY DEF DraftsInv
  <2>2. QED
    BY <2>1, DraftsInit, DraftsStep, PTL
<1>2. LogInit /\ [][LogNext]_logVars => []LogsTypeOK
  BY LogsTyped, PTL DEF LogSpec
<1>3. ProvidersInit /\ [][ProvidersNext]_providerVars => []ProvidersTypeOK
  <2>1. ProvidersInv => ProvidersTypeOK
    BY DEF ProvidersInv, ProvidersShape
  <2>2. QED
    BY <2>1, ProvidersInvInit, ProvidersInvStep, PTL
<1>4. PluginsInit /\ [][PluginsNext]_pluginVars => []PluginsTypeOK
  <2>1. PluginsInv => PluginsTypeOK
    BY DEF PluginsInv
  <2>2. QED
    BY <2>1, PluginsInvInit, PluginsInvStep, PTL
<1>5. PreparationInit /\ [][PreparationNext]_preparationVars => []PreparationTypeOK
  BY PrepAlwaysTyped, PTL
<1>6. GrantsInit /\ [][GrantsNext]_grantVars => []GrantsTypeOK
  BY GrantsAlwaysTyped, PTL
<1>7. MailInit /\ [][MailNext]_mailVars => []MailTypeOK
  BY MailAlwaysTyped, PTL
<1>8. TokensInit /\ [][TokensNext]_tokenVars => []TokensTypeOK
  BY TokensAlwaysTyped, PTL
<1>9. TunnelInit /\ [][TunnelNext]_tunnelVars => []TunnelTypeOK
  BY TunnelAlwaysTyped, PTL
<1>10. EvalInit /\ [][EvalNext]_evalVars => []EvalTypeOK
  <2>1. EvalInv => EvalTypeOK
    BY DEF EvalInv
  <2>2. QED
    BY <2>1, EvalInvInit, EvalStepInv, PTL
<1>11. (DraftsTypeOK /\ LogsTypeOK /\ ProvidersTypeOK /\ PluginsTypeOK
        /\ PreparationTypeOK /\ GrantsTypeOK /\ MailTypeOK /\ TokensTypeOK
        /\ TunnelTypeOK /\ EvalTypeOK) => ServerTypeOK
  BY Zenon DEF ServerTypeOK
<1>12. QED
  BY ServerStart, <1>1, <1>2, <1>3, <1>4, <1>5, <1>6, <1>7, <1>8, <1>9, <1>10, <1>11,
     ServerStep, PTL DEF ServerSpec

\* What the parts of the server promise one by one they promise together: what
\* disturbs a part is in its own actions, none of another's (they share no state).
THEOREM ServerIsSafe ==
  ServerSpec =>
    /\ []OneTaskPerDraft
    /\ []AsksWithinCap
    /\ AnswersKept
    /\ []ReplayMeetsLive
    /\ []ProvidersSound
    /\ []RowsHaveTheirFiles
    /\ []PreparationSafe
    /\ []ProfileIsObeyed
    /\ []OneTaskPerReading
    /\ []DisconnectedStaysSo
    /\ []SubscribedIsForwarded
    /\ []EvalRunsSound
<1>1. DraftInit /\ [][DraftNext]_draftVars => []OneTaskPerDraft /\ []AsksWithinCap /\ AnswersKept
  BY OneTask, CapHolds, NoAnswerLost, PTL DEF DraftSpec
<1>2. LogInit /\ [][LogNext]_logVars => []ReplayMeetsLive
  BY NoHole, PTL DEF LogSpec
<1>3. ProvidersInit /\ [][ProvidersNext]_providerVars => []ProvidersSound
  BY ProvidersAreSound, PTL DEF ProvidersSpec
<1>4. PluginsInit /\ [][PluginsNext]_pluginVars => []RowsHaveTheirFiles
  BY InstalledHaveFiles, PTL DEF PluginsSpec
<1>5. PreparationInit /\ [][PreparationNext]_preparationVars => []PreparationSafe
  BY PreparationIsSafe, PTL DEF PreparationSpec
<1>6. GrantsInit /\ [][GrantsNext]_grantVars => []ProfileIsObeyed
  BY ProfilesAreObeyed, PTL DEF GrantsSpec
<1>7. MailInit /\ [][MailNext]_mailVars => []OneTaskPerReading
  BY MailMakesOneTask, PTL DEF MailSpec
<1>8. TokensInit /\ [][TokensNext]_tokenVars => []DisconnectedStaysSo
  BY DisconnectionLasts, PTL DEF TokensSpec
<1>9. TunnelInit /\ [][TunnelNext]_tunnelVars => []SubscribedIsForwarded
  BY SubscriptionsAreForwarded, PTL DEF TunnelSpec
<1>10. EvalInit /\ [][EvalNext]_evalVars => []EvalRunsSound
  BY EvalRunsAreSound, PTL DEF EvalSpec
<1>11. QED
  BY ServerStart, <1>1, <1>2, <1>3, <1>4, <1>5, <1>6, <1>7, <1>8, <1>9, <1>10,
     ServerStep, PTL DEF ServerSpec
=============================================================================
