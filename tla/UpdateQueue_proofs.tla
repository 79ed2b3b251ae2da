------------------------ MODULE UpdateQueue_proofs ------------------------
(***************************************************************************)
(* Proofs about UpdateQueue for every number of tags, releases, slots, ids *)
(* and attempts.  Every helper that changes a job makes a job that         *)
(* "follows" it, and the queue's invariant only depends on that.           *)
(***************************************************************************)
EXTENDS UpdateQueue, UpdateJob_proofs

USE JobAssumption, NoneAssumption, QueueAssumption
    DEF JobAssumption, NoneAssumption, QueueAssumption

-----------------------------------------------------------------------------
(* The inductive invariant.  Restorable is not inductive: it says nothing of *)
(* a queue in which one tag has live jobs for two boards, and once one of    *)
(* them is finished valid_restore() looks at that queue again.  Consistent   *)
(* is what enqueue() keeps of every queue; a new job gets an unused id only  *)
(* because nextId accounts for every id known.                               *)

Consistent ==
  \A s \in Used(jobs) :
    /\ Legal(jobs[s])
    /\ \A o \in Used(jobs) \ {s} :
         /\ jobs[s].id # jobs[o].id
         /\ Live(jobs[s]) /\ Live(jobs[o]) => ~SameTarget(jobs[s], jobs[o].tag, jobs[o].hw)

IInv == TypeOK /\ Consistent /\ IdsAccounted

\* A consistent queue passes valid_restore(), unless a tag has two boards.
LEMMA ConsistentRestorable ==
  ASSUME Consistent
  PROVE  Restorable
BY DEF Consistent, Restorable, OneBoardPerTag, ValidRestore, SameTarget, Legal

\* What a step of a job and a restart have in common: the same slots are in
\* use, by the same jobs, and no finished job comes back to life.
SameJobs ==
  /\ jobs' \in [Slots -> Job \union {None}]
  /\ \A s \in Slots : jobs'[s] = None <=> jobs[s] = None
  /\ \A s \in Used(jobs) :
       /\ Legal(jobs'[s])
       /\ jobs'[s].id = jobs[s].id
       /\ jobs'[s].tag = jobs[s].tag
       /\ jobs'[s].hw = jobs[s].hw
       /\ jobs'[s].rel = jobs[s].rel
       /\ jobs[s].trial => jobs'[s].trial
       /\ Live(jobs'[s]) => Live(jobs[s])

\* A step that keeps the jobs and what is legal of them keeps the queue
\* consistent.
LEMMA SameJobsConsistent ==
  ASSUME TypeOK, Consistent, SameJobs
  PROVE  Consistent' /\ IdsOf(jobs') = IdsOf(jobs) /\ Used(jobs') = Used(jobs)
<1>1. Used(jobs') = Used(jobs)
  BY DEF SameJobs, Used
<1>2. IdsOf(jobs') = IdsOf(jobs)
  BY <1>1 DEF SameJobs, IdsOf
<1>3. ASSUME NEW s \in Used(jobs), NEW o \in Used(jobs) \ {s}
      PROVE  /\ jobs'[s].id # jobs'[o].id
             /\ Live(jobs'[s]) /\ Live(jobs'[o]) =>
                  ~SameTarget(jobs'[s], jobs'[o].tag, jobs'[o].hw)
  BY <1>3 DEF SameJobs, Consistent, SameTarget
<1>4. \A s \in Used(jobs) : Legal(jobs'[s])
  BY DEF SameJobs
<1>5. Consistent'
  BY <1>1, <1>3, <1>4 DEF Consistent
<1>6. QED
  BY <1>1, <1>2, <1>5

\* Each job of a consistent queue is legal.
LEMMA UsedIsLegal ==
  ASSUME TypeOK, Consistent, NEW s \in Used(jobs)
  PROVE  s \in Slots /\ jobs[s] \in Job /\ Legal(jobs[s])
BY DEF TypeOK, Consistent, Used

\* One job operation changes one job to one that follows it.
LEMMA JobStepFollows ==
  ASSUME TypeOK, Consistent, NEW s \in Used(jobs), JobStep(s)
  PROVE  \E k : Follows(jobs[s], k) /\ Put(s, k)
<1>0. jobs[s] \in Job /\ Legal(jobs[s]) /\ now \in Nat
  BY UsedIsLegal DEF TypeOK
<1>1. CASE \E next \in Phases : Transition(s, next)
  BY <1>0, <1>1, TransitionFollows DEF Transition, CanTransition
<1>2. CASE \E ack \in 0..ImageSize : Progress(s, ack)
  BY <1>0, <1>2, ProgressFollows DEF Progress
<1>3. CASE Attempt(s)
  BY <1>0, <1>3, AttemptFollows DEF Attempt
<1>4. CASE Retry(s)
  BY <1>0, <1>4, RetryFollows DEF Retry
<1>5. CASE Cancel(s)
  BY <1>0, <1>5, CancelFollows DEF Cancel
<1>6. CASE Error(s)
  BY <1>0, <1>6, ErrorFollows DEF Error
<1>7. CASE \E active \in Releases, confirmed \in BOOLEAN : Complete(s, active, confirmed)
  BY <1>0, <1>7, CompleteFollows DEF Complete, CanComplete
<1>8. QED
  BY <1>1, <1>2, <1>3, <1>4, <1>5, <1>6, <1>7 DEF JobStep

\* So it keeps the jobs.
LEMMA JobStepSameJobs ==
  ASSUME TypeOK, Consistent, NEW s \in Used(jobs), JobStep(s)
  PROVE  SameJobs /\ UNCHANGED <<nextId, exhausted, now>>
<1>1. PICK k : Follows(jobs[s], k) /\ Put(s, k)
  BY JobStepFollows
<1>2. s \in Slots /\ jobs[s] # None /\ k \in Job /\ k # None
  BY <1>1 DEF Used, Follows
<1>3. jobs' = [jobs EXCEPT ![s] = k] /\ UNCHANGED <<nextId, exhausted, now>>
  BY <1>1 DEF Put
<1>4. /\ jobs' \in [Slots -> Job \union {None}]
      /\ \A o \in Slots : jobs'[o] = IF o = s THEN k ELSE jobs[o]
  BY <1>2, <1>3 DEF TypeOK
<1>5. ASSUME NEW o \in Used(jobs)
      PROVE  /\ Legal(jobs'[o])
             /\ jobs'[o].id = jobs[o].id /\ jobs'[o].tag = jobs[o].tag
             /\ jobs'[o].hw = jobs[o].hw /\ jobs'[o].rel = jobs[o].rel
             /\ jobs[o].trial => jobs'[o].trial
             /\ Live(jobs'[o]) => Live(jobs[o])
  BY <1>1, <1>4, UsedIsLegal DEF Follows
<1>6. QED
  BY <1>2, <1>3, <1>4, <1>5 DEF SameJobs

\* So does a restart that restores what was saved.
LEMMA RestartSameJobs ==
  ASSUME TypeOK, Consistent, RestartRestored
  PROVE  SameJobs
<1>1. jobs' = [s \in Slots |-> IF jobs[s] = None THEN None ELSE Restored(jobs[s], 0)]
  BY DEF RestartRestored
<1>2. ASSUME NEW s \in Used(jobs)
      PROVE  /\ jobs'[s] = Restored(jobs[s], 0)
             /\ jobs'[s] \in Job /\ jobs'[s] # None /\ Legal(jobs'[s])
             /\ jobs'[s].id = jobs[s].id /\ jobs'[s].tag = jobs[s].tag
             /\ jobs'[s].hw = jobs[s].hw /\ jobs'[s].rel = jobs[s].rel /\ jobs'[s].trial = jobs[s].trial
             /\ Live(jobs'[s]) <=> Live(jobs[s])
  <2>1. s \in Slots /\ jobs[s] # None /\ jobs[s] \in Job /\ Legal(jobs[s])
    BY UsedIsLegal DEF Used
  <2>2. jobs'[s] = Restored(jobs[s], 0)
    BY <1>1, <2>1
  <2>3. QED
    BY <2>1, <2>2, RestoredLegal
<1>3. \A s \in Slots : jobs'[s] = None <=> jobs[s] = None
  BY <1>1, <1>2 DEF Used
<1>4. jobs' \in [Slots -> Job \union {None}]
  <2>1. ASSUME NEW s \in Slots
        PROVE  (IF jobs[s] = None THEN None ELSE Restored(jobs[s], 0)) \in Job \union {None}
    BY <1>1, <1>2 DEF Used
  <2>2. QED
    BY <1>1, <2>1
<1>5. QED
  BY <1>2, <1>3, <1>4 DEF SameJobs

\* The id that restore() hands out next is above every restored one, and the
\* one below it is restored.
LEMMA NextIdAfterCorrect ==
  ASSUME NEW ids \in SUBSET (1..IdMax), IdMax \notin ids
  PROVE  /\ NextIdAfter(ids) \in 1..IdMax
         /\ \A i \in ids : i < NextIdAfter(ids)
         /\ NextIdAfter(ids) > 1 => NextIdAfter(ids) - 1 \in ids
<1>1. CASE ids = {}
  BY <1>1 DEF NextIdAfter
<1>2. CASE ids # {}
  <2>1. PICK i \in ids : \A k \in ids : k <= i
    BY <1>2, LargestId
  <2>2. i \in Nat /\ i < IdMax /\ \A k \in ids : k < i + 1
    BY <2>1
  <2>3. \E m \in 1..IdMax : m - 1 \in ids /\ \A k \in ids : k < m
    BY <2>2
  <2>4. NextIdAfter(ids) = CHOOSE m \in 1..IdMax : m - 1 \in ids /\ \A k \in ids : k < m
    BY <1>2 DEF NextIdAfter
  <2>5. QED
    BY <2>3, <2>4
<1>3. QED
  BY <1>1, <1>2

\* enqueue() changes one slot, which held nothing or a finished job, and gives
\* the new job an id above all the others.
LEMMA EnqueueFacts ==
  ASSUME IInv, NEW tag \in Tags, NEW hw \in Boards, NEW rel \in Releases,
         Enqueue(tag, hw, rel)
  PROVE  \E s \in Slots :
           /\ jobs[s] = None \/ ~Live(jobs[s])
           /\ nextId \in 1..IdMax /\ \A i \in IdsOf(jobs) : i < nextId
           /\ NewJob(nextId, tag, hw, rel, now) \in Job
           /\ jobs' = [jobs EXCEPT ![s] = NewJob(nextId, tag, hw, rel, now)]
<1>1. ~exhausted /\ nextId \in 1..IdMax /\ \A i \in IdsOf(jobs) : i < nextId
  BY DEF IInv, TypeOK, IdsAccounted, Enqueue
<1>2. PICK s \in EnqueueSlots(jobs) : jobs' = [jobs EXCEPT ![s] = NewJob(nextId, tag, hw, rel, now)]
  BY DEF Enqueue
<1>3. s \in Slots /\ (jobs[s] = None \/ ~Live(jobs[s]))
  BY <1>2 DEF EnqueueSlots, NextUnused, Evictable, Used
<1>4. NewJob(nextId, tag, hw, rel, now) \in Job
  BY <1>1 DEF IInv, TypeOK, NewJob, Job, Phases
<1>5. QED
  BY <1>1, <1>2, <1>3, <1>4

\* enqueue() keeps the invariant.
LEMMA EnqueueKeeps ==
  ASSUME IInv, NEW tag \in Tags, NEW hw \in Boards, NEW rel \in Releases,
         Enqueue(tag, hw, rel)
  PROVE  IInv'
<1> DEFINE new == NewJob(nextId, tag, hw, rel, now)
<1>1. PICK s \in Slots :
        /\ jobs[s] = None \/ ~Live(jobs[s])
        /\ nextId \in 1..IdMax /\ \A i \in IdsOf(jobs) : i < nextId
        /\ new \in Job
        /\ jobs' = [jobs EXCEPT ![s] = new]
  BY EnqueueFacts
<1>2. /\ new.id = nextId /\ new.tag = tag /\ new.hw = hw /\ Live(new) /\ Legal(new)
      /\ new # None
  <2>1. new # None
    BY <1>1
  <2>2. new.id = nextId /\ new.tag = tag /\ new.hw = hw /\ Live(new)
    BY DEF NewJob, Live, Terminal
  <2>3. Legal(new)
    BY DEF NewJob, Legal
  <2>4. QED
    BY <2>1, <2>2, <2>3
<1> HIDE DEF new
<1>3. /\ jobs' \in [Slots -> Job \union {None}]
      /\ \A o \in Slots : jobs'[o] = IF o = s THEN new ELSE jobs[o]
  BY <1>1 DEF IInv, TypeOK
<1>4. s \in Used(jobs') /\ \A o \in Used(jobs') \ {s} : o \in Used(jobs) /\ jobs'[o] = jobs[o]
  BY <1>2, <1>3 DEF Used
<1>5. nextId \in IdsOf(jobs') /\ \A i \in IdsOf(jobs') : i <= nextId
  <2>1. jobs'[s].id = nextId
    BY <1>2, <1>3
  <2>2. ASSUME NEW o \in Used(jobs') \ {s} PROVE jobs'[o].id <= nextId
    <3>1. jobs'[o].id \in IdsOf(jobs) /\ jobs'[o].id \in 1..IdMax
      BY <1>4, UsedIsLegal DEF IdsOf, IInv, Job
    <3>2. QED
      BY <1>1, <3>1
  <2>3. nextId \in IdsOf(jobs')
    BY <1>4, <2>1 DEF IdsOf
  <2>4. \A o \in Used(jobs') : jobs'[o].id <= nextId
    BY <1>1, <2>1, <2>2
  <2>5. QED
    BY <2>3, <2>4 DEF IdsOf
<1>6. Consistent'
  <2>1. \A o \in Used(jobs') : Legal(jobs'[o])
    BY <1>2, <1>3, <1>4, UsedIsLegal DEF IInv
  <2>2. ASSUME NEW o \in Used(jobs') \ {s}
        PROVE  /\ jobs'[o].id # jobs'[s].id
               /\ Live(jobs'[o]) => /\ ~SameTarget(jobs'[o], jobs'[s].tag, jobs'[s].hw)
                                     /\ ~SameTarget(jobs'[s], jobs'[o].tag, jobs'[o].hw)
    <3>1. jobs'[o].id \in IdsOf(jobs) /\ jobs[o] \in Job
      BY <1>4, UsedIsLegal DEF IdsOf, IInv
    <3>2. jobs'[o].id # nextId
      BY <1>1, <3>1, <1>4 DEF Job
    <3>3. Live(jobs'[o]) => ~SameTarget(jobs'[o], tag, hw)
      BY <1>4 DEF Enqueue, CanEnqueue
    <3>4. QED
      BY <1>2, <1>3, <3>2, <3>3 DEF SameTarget
  <2>3. ASSUME NEW o \in Used(jobs') \ {s}, NEW p \in Used(jobs') \ {s, o}
        PROVE  /\ jobs'[o].id # jobs'[p].id
               /\ Live(jobs'[o]) /\ Live(jobs'[p]) =>
                    ~SameTarget(jobs'[o], jobs'[p].tag, jobs'[p].hw)
    BY <1>4 DEF IInv, Consistent
  <2>4. QED
    BY <2>1, <2>2, <2>3 DEF Consistent
<1>7. IF nextId = IdMax THEN exhausted' = TRUE /\ nextId' = nextId
      ELSE nextId' = nextId + 1 /\ exhausted' = exhausted
  BY DEF Enqueue
<1>8. TypeOK'
  <2>1. nextId' \in 0..IdMax
    BY <1>1, <1>7
  <2>2. exhausted' \in BOOLEAN
    BY <1>7 DEF IInv, TypeOK
  <2>3. now' \in Nat
    BY DEF IInv, TypeOK, Enqueue
  <2>4. QED
    BY <1>3, <2>1, <2>2, <2>3 DEF TypeOK
<1>9. IdsAccounted'
  <2>1. \A i \in IdsOf(jobs') : i \in Nat
    BY <1>3 DEF IdsOf, Used, Job
  <2>2. CASE nextId = IdMax
    BY <1>5, <1>7, <2>2 DEF IdsAccounted
  <2>3. CASE nextId # IdMax
    <3>1. nextId' = nextId + 1 /\ ~exhausted'
      BY <1>7, <2>3 DEF Enqueue
    <3>2. nextId' >= 1 /\ nextId' - 1 \in IdsOf(jobs')
      BY <1>1, <1>5, <3>1
    <3>3. ASSUME NEW i \in IdsOf(jobs') PROVE i < nextId'
      <4>1. i \in Nat /\ i <= nextId /\ nextId \in Nat
        BY <1>1, <1>5, <2>1
      <4>2. QED
        BY <3>1, <4>1
    <3>4. QED
      BY <3>1, <3>2, <3>3 DEF IdsAccounted
  <2>4. QED
    BY <2>2, <2>3
<1>10. QED
  BY <1>6, <1>8, <1>9 DEF IInv

\* A job operation keeps the invariant.
LEMMA JobStepKeeps ==
  ASSUME IInv, NEW s \in Used(jobs), JobStep(s)
  PROVE  IInv'
<1>1. SameJobs /\ UNCHANGED <<nextId, exhausted, now>>
  BY JobStepSameJobs DEF IInv
<1>2. Consistent' /\ IdsOf(jobs') = IdsOf(jobs)
  BY <1>1, SameJobsConsistent DEF IInv
<1>3. TypeOK' /\ IdsAccounted'
  BY <1>1, <1>2 DEF IInv, TypeOK, IdsAccounted, SameJobs
<1>4. QED
  BY <1>2, <1>3 DEF IInv

\* restore() keeps the invariant.
LEMMA RestoredKeeps ==
  ASSUME IInv, RestartRestored
  PROVE  IInv'
<1>1. SameJobs
  BY RestartSameJobs DEF IInv
<1>2. Consistent' /\ IdsOf(jobs') = IdsOf(jobs)
  BY <1>1, SameJobsConsistent DEF IInv
<1>3. IdsOf(jobs) \in SUBSET (1..IdMax)
  BY UsedIsLegal DEF IInv, IdsOf, Job
<1>4. nextId' = NextIdAfter(IdsOf(jobs)) /\ exhausted' = (IdMax \in IdsOf(jobs)) /\ now' = 0
  BY DEF RestartRestored
<1>5. CASE IdMax \in IdsOf(jobs)
  <2>1. nextId' = 0 /\ exhausted' = TRUE
    BY <1>4, <1>5 DEF NextIdAfter
  <2>2. QED
    BY <1>1, <1>2, <1>4, <1>5, <2>1 DEF IInv, TypeOK, IdsAccounted, SameJobs
<1>6. CASE IdMax \notin IdsOf(jobs)
  <2>1. /\ nextId' \in 1..IdMax /\ \A i \in IdsOf(jobs) : i < nextId'
        /\ nextId' > 1 => nextId' - 1 \in IdsOf(jobs)
    BY <1>3, <1>4, <1>6, NextIdAfterCorrect
  <2>2. ~exhausted'
    BY <1>4, <1>6
  <2>3. exhausted' \in BOOLEAN
    BY <1>4
  <2>4. QED
    BY <1>1, <1>2, <1>4, <2>1, <2>2, <2>3 DEF IInv, TypeOK, IdsAccounted, SameJobs
<1>7. QED
  BY <1>5, <1>6

\* So does a restart with an empty queue.
LEMMA RefusedKeeps ==
  ASSUME RestartRefused
  PROVE  IInv'
<1>1. /\ jobs' = [s \in Slots |-> None] /\ nextId' = 1 /\ exhausted' = FALSE /\ now' = 0
  BY DEF RestartRefused
<1>2. TypeOK'
  <2>1. nextId' \in 0..IdMax /\ now' \in Nat
    BY <1>1
  <2>2. jobs' \in [Slots -> Job \union {None}]
    BY <1>1
  <2>3. exhausted' \in BOOLEAN
    BY <1>1
  <2>4. QED
    BY <2>1, <2>2, <2>3 DEF TypeOK
<1>3. Used(jobs') = {} /\ IdsOf(jobs') = {}
  BY <1>1 DEF Used, IdsOf
<1>4. Consistent' /\ IdsAccounted'
  BY <1>1, <1>3 DEF Consistent, IdsAccounted
<1>5. QED
  BY <1>2, <1>4 DEF IInv

\* The empty queue satisfies the invariant.
LEMMA InitHolds == Init => IInv
<1> SUFFICES ASSUME Init PROVE IInv
  OBVIOUS
<1>1. TypeOK
  <2>1. nextId \in 0..IdMax /\ now \in Nat
    BY DEF Init
  <2>2. jobs \in [Slots -> Job \union {None}]
    BY DEF Init
  <2>3. exhausted \in BOOLEAN
    BY DEF Init
  <2>4. QED
    BY <2>1, <2>2, <2>3 DEF TypeOK
<1>2. Used(jobs) = {} /\ IdsOf(jobs) = {}
  BY DEF Init, Used, IdsOf
<1>3. Consistent /\ IdsAccounted
  BY <1>2 DEF Init, Consistent, IdsAccounted
<1>4. QED
  BY <1>1, <1>3 DEF IInv

\* Every step keeps the invariant.
LEMMA NextKeeps == IInv /\ [Next]_vars => IInv'
<1> SUFFICES ASSUME IInv, [Next]_vars PROVE IInv'
  OBVIOUS
<1>1. CASE Tick
  BY <1>1 DEF Tick, IInv, TypeOK, Consistent, IdsAccounted
<1>2. CASE \E tag \in Tags, hw \in Boards, rel \in Releases : Enqueue(tag, hw, rel)
  BY <1>2, EnqueueKeeps
<1>3. CASE \E s \in Used(jobs) : JobStep(s)
  BY <1>3, JobStepKeeps
<1>4. CASE RestartRestored \/ RestartRefused
  BY <1>4, RestoredKeeps, RefusedKeeps
<1>5. CASE UNCHANGED vars
  BY <1>5 DEF vars, IInv, TypeOK, Consistent, IdsAccounted
<1>6. QED
  BY <1>1, <1>2, <1>3, <1>4, <1>5 DEF Next

\* The inductive invariant holds in every reachable state, for every value of
\* the constants and every caller.
THEOREM InvariantHolds == Spec => []IInv
BY InitHolds, NextKeeps, PTL DEF Spec

-----------------------------------------------------------------------------
(* The invariants of UpdateQueue                                           *)

\* The queue, its next id and its clock stay within their types.
THEOREM TypeCorrect == Spec => []TypeOK
<1>1. IInv => TypeOK
  BY DEF IInv
<1>2. QED
  BY <1>1, InvariantHolds, PTL

\* What update_export_state() exports passes valid_restore(), as long as no tag
\* has live jobs for two boards.
THEOREM AlwaysRestorable == Spec => []Restorable
<1>1. IInv => Restorable
  BY ConsistentRestorable DEF IInv
<1>2. QED
  BY <1>1, InvariantHolds, PTL

\* next_id_ stays above every id in the queue, also after restore().
THEOREM IdsAlwaysAccounted == Spec => []IdsAccounted
<1>1. IInv => IdsAccounted
  BY DEF IInv
<1>2. QED
  BY <1>1, InvariantHolds, PTL

-----------------------------------------------------------------------------
(* What a step may do to a job.  Each property only has to be shown of a     *)
(* new job, and of a step after which the slots hold the same jobs.          *)

\* Only a tag with live jobs for two boards makes valid_restore() refuse.
LEMMA RefusedForBoards ==
  ASSUME IInv, RestartRefused
  PROVE  Unrestorable
BY ConsistentRestorable DEF IInv, Restorable, RestartRefused, Unrestorable

\* A step that keeps the jobs, or the one that adds a job, or a queue that
\* could not be restored.
LEMMA StepCases ==
  ASSUME IInv, [Next]_vars
  PROVE  \/ SameJobs
         \/ \E tag \in Tags, hw \in Boards, rel \in Releases : Enqueue(tag, hw, rel)
         \/ RestartRefused /\ Unrestorable
<1>1. CASE UNCHANGED jobs
  BY <1>1, UsedIsLegal DEF IInv, TypeOK, SameJobs
<1>2. CASE \E s \in Used(jobs) : JobStep(s)
  BY <1>2, JobStepSameJobs DEF IInv
<1>3. CASE RestartRestored
  BY <1>3, RestartSameJobs DEF IInv
<1>4. CASE RestartRefused
  BY <1>4, RefusedForBoards
<1>5. QED
  BY <1>1, <1>2, <1>3, <1>4 DEF Next, Tick, vars

\* An enqueue leaves every live job as it is.
LEMMA EnqueueSpares ==
  ASSUME IInv, NEW tag \in Tags, NEW hw \in Boards, NEW rel \in Releases,
         Enqueue(tag, hw, rel),
         NEW o \in Used(jobs), Live(jobs[o])
  PROVE  jobs'[o] = jobs[o]
BY EnqueueFacts DEF IInv, TypeOK, Used

\* An id that appears was never used for a job the queue knows, nor below one.
THEOREM IdsAreNeverReused == Spec => IdsNeverReused
<1> DEFINE P == \A i \in IdsOf(jobs)' : i \in IdsOf(jobs) \/ \A k \in IdsOf(jobs) : k < i
<1>1. ASSUME IInv, [Next]_vars PROVE P
  <2>1. CASE SameJobs
    BY <1>1, <2>1, SameJobsConsistent DEF IInv
  <2>2. ASSUME NEW tag \in Tags, NEW hw \in Boards, NEW rel \in Releases, Enqueue(tag, hw, rel) PROVE P
    <3>1. PICK s \in Slots :
            /\ nextId \in 1..IdMax /\ \A i \in IdsOf(jobs) : i < nextId
            /\ jobs' = [jobs EXCEPT ![s] = NewJob(nextId, tag, hw, rel, now)]
      BY <1>1, <2>2, EnqueueFacts
    <3>2. ASSUME NEW o \in Used(jobs') PROVE jobs'[o].id = nextId \/ jobs'[o].id \in IdsOf(jobs)
      <4>1. CASE o = s
        BY <1>1, <3>1, <4>1 DEF IInv, TypeOK, NewJob
      <4>2. CASE o # s
        BY <1>1, <3>1, <4>2 DEF IInv, TypeOK, IdsOf, Used
      <4>3. QED
        BY <4>1, <4>2
    <3>3. \A i \in IdsOf(jobs') : i = nextId \/ i \in IdsOf(jobs)
      BY <3>2 DEF IdsOf
    <3>4. QED
      BY <3>1, <3>3
  <2>3. CASE RestartRefused
    BY <2>3 DEF RestartRefused, IdsOf, Used
  <2>4. QED
    BY <1>1, <2>1, <2>2, <2>3, StepCases
<1>2. QED
  BY <1>1, InvariantHolds, PTL DEF Spec, IdsNeverReused

\* Neither an enqueue into a full queue nor a restart loses a live job, and
\* nothing changes its target or its release.
THEOREM LiveIsNeverLost == Spec => LiveNeverLost
<1> DEFINE P == \A s \in Used(jobs) : Live(jobs[s]) /\ ~Unrestorable =>
                  /\ jobs'[s] # None
                  /\ jobs'[s].id = jobs[s].id
                  /\ jobs'[s].tag = jobs[s].tag
                  /\ jobs'[s].hw = jobs[s].hw
                  /\ jobs'[s].rel = jobs[s].rel
<1>1. ASSUME IInv, [Next]_vars PROVE P
  <2>1. CASE SameJobs
    BY <2>1 DEF SameJobs, Used
  <2>2. CASE \E tag \in Tags, hw \in Boards, rel \in Releases : Enqueue(tag, hw, rel)
    BY <1>1, <2>2, EnqueueSpares DEF Used
  <2>3. QED
    BY <1>1, <2>1, <2>2, StepCases
<1>2. QED
  BY <1>1, InvariantHolds, PTL DEF Spec, LiveNeverLost

\* A trial that may be armed is never forgotten, cancelled or started again.
THEOREM TrialIsNeverForgotten == Spec => TrialNeverForgotten
<1> DEFINE P == \A s \in Used(jobs) : Live(jobs[s]) /\ jobs[s].trial /\ ~Unrestorable =>
                  /\ jobs'[s].trial
                  /\ jobs'[s].phase \in {"Rebooting", "Checking", "NeedsAction",
                                         "Successful", "Failed"}
<1>1. ASSUME IInv, [Next]_vars PROVE P
  <2>1. CASE SameJobs
    BY <2>1 DEF SameJobs, Legal
  <2>2. CASE \E tag \in Tags, hw \in Boards, rel \in Releases : Enqueue(tag, hw, rel)
    BY <1>1, <2>2, EnqueueSpares, UsedIsLegal DEF IInv, Legal
  <2>3. QED
    BY <1>1, <2>1, <2>2, StepCases
<1>2. QED
  BY <1>1, InvariantHolds, PTL DEF Spec, TrialNeverForgotten

\* What a finished job says is final for as long as it is remembered.
THEOREM OutcomeIsFinal == Spec => OutcomeFinal
<1> DEFINE Same(s) == jobs'[s] = [jobs[s] EXCEPT !.changed = jobs'[s].changed]
           P == \A s \in Used(jobs) : ~Live(jobs[s]) /\ ~Unrestorable =>
                  \/ jobs'[s].id # jobs[s].id
                  \/ jobs'[s] = [jobs[s] EXCEPT !.changed = jobs'[s].changed]
<1>1. ASSUME IInv, [Next]_vars PROVE P
  <2> SUFFICES ASSUME NEW s \in Used(jobs), ~Live(jobs[s]), ~Unrestorable
               PROVE  jobs'[s].id # jobs[s].id \/ Same(s)
    OBVIOUS
  <2>0. s \in Slots /\ jobs[s] \in Job /\ jobs[s] # None
    BY <1>1, UsedIsLegal DEF IInv, Used
  <2>1. ASSUME jobs'[s] = jobs[s] PROVE Same(s)
    BY <2>0, <2>1 DEF Job
  <2>2. ASSUME NEW o \in Used(jobs), JobStep(o) PROVE Same(s)
    <3>1. PICK k : Follows(jobs[o], k) /\ Put(o, k)
      BY <1>1, <2>2, JobStepFollows DEF IInv
    <3>2. s # o /\ jobs' = [jobs EXCEPT ![o] = k]
      BY <3>1 DEF Follows, Put
    <3>3. jobs'[s] = jobs[s]
      BY <1>1, <2>0, <3>2 DEF IInv, TypeOK
    <3>4. QED
      BY <2>1, <3>3
  <2>3. ASSUME RestartRestored PROVE Same(s)
    <3>1. jobs'[s] = Restored(jobs[s], 0)
      BY <2>0, <2>3 DEF RestartRestored
    <3>2. jobs'[s] = [jobs[s] EXCEPT !.changed = 0]
      BY <2>0, <3>1, RestoredOutcome
    <3>3. QED
      BY <2>0, <3>2 DEF Job
  <2>4. ASSUME NEW tag \in Tags, NEW hw \in Boards, NEW rel \in Releases, Enqueue(tag, hw, rel)
        PROVE  jobs'[s].id # jobs[s].id \/ Same(s)
    <3>1. PICK o \in Slots :
            /\ nextId \in 1..IdMax /\ \A i \in IdsOf(jobs) : i < nextId
            /\ jobs' = [jobs EXCEPT ![o] = NewJob(nextId, tag, hw, rel, now)]
      BY <1>1, <2>4, EnqueueFacts
    <3>2. CASE s = o
      <4>1. jobs'[s].id = nextId
        BY <1>1, <3>1, <3>2 DEF IInv, TypeOK, NewJob
      <4>2. jobs[s].id < nextId /\ jobs[s].id \in Nat
        BY <2>0, <3>1 DEF IdsOf, Job
      <4>3. QED
        BY <3>1, <4>1, <4>2
    <3>3. CASE s # o
      BY <1>1, <2>0, <2>1, <3>1, <3>3 DEF IInv, TypeOK
    <3>4. QED
      BY <3>2, <3>3
  <2>5. QED
    BY <1>1, <2>1, <2>2, <2>3, <2>4, RefusedForBoards DEF Next, Tick, vars
<1>2. QED
  BY <1>1, InvariantHolds, PTL DEF Spec, OutcomeFinal

=============================================================================
