---------------------------- MODULE UpdateQueue ----------------------------
(***************************************************************************)
(* UpdateQueue of core/update_job under every caller: any policy helper on *)
(* any job in any order, enqueues into a full queue, and restarts that     *)
(* restore what update_export_state() exported.  A caller may give one tag *)
(* two boards, which the controller above never does: enqueue() takes both *)
(* jobs and valid_restore() refuses them.                                  *)
(***************************************************************************)
EXTENDS UpdateJob

CONSTANT MaxNow   \* bound on the uptime of one boot, for model checking

ASSUME QueueAssumption == MaxNow \in Nat

VARIABLES
  jobs,       \* jobs_: slot -> job, or None
  nextId,     \* next_id_
  exhausted,  \* id_exhausted_
  now         \* the caller's monotonic clock

vars == <<jobs, nextId, exhausted, now>>

TypeOK ==
  /\ jobs \in [Slots -> Job \union {None}]
  /\ nextId \in 0..IdMax
  /\ exhausted \in BOOLEAN
  /\ now \in Nat

Init ==
  /\ jobs = [s \in Slots |-> None]
  /\ nextId = 1
  /\ exhausted = FALSE
  /\ now = 0

-----------------------------------------------------------------------------

Tick ==
  /\ now < MaxNow
  /\ now' = now + 1
  /\ UNCHANGED <<jobs, nextId, exhausted>>

\* UpdateQueue::enqueue()
Enqueue(tag, hw, rel) ==
  /\ ~exhausted
  /\ CanEnqueue(jobs, tag, hw)
  /\ \E s \in EnqueueSlots(jobs) :
       jobs' = [jobs EXCEPT ![s] = NewJob(nextId, tag, hw, rel, now)]
  /\ IF nextId = IdMax
     THEN exhausted' = TRUE /\ nextId' = nextId
     ELSE nextId' = nextId + 1 /\ exhausted' = exhausted
  /\ now' = now

Put(s, job) ==
  /\ jobs' = [jobs EXCEPT ![s] = job]
  /\ UNCHANGED <<nextId, exhausted, now>>

Transition(s, next) ==
  /\ CanTransition(jobs[s], next, now)
  /\ Put(s, Transitioned(jobs[s], next, now))

Progress(s, ack) ==
  /\ CanProgress(jobs[s], ack, now)
  /\ Put(s, Progressed(jobs[s], ack, now))

Attempt(s) ==
  /\ CanAttempt(jobs[s], now)
  /\ Put(s, Attempted(jobs[s], now))

Retry(s) ==
  /\ CanRetry(jobs[s], now)
  /\ Put(s, Retried(jobs[s], now))

Cancel(s) ==
  /\ CanCancel(jobs[s], now)
  /\ Put(s, CancelledJob(jobs[s], now))

\* update_error() notes a message, which is left out, and the time.
Error(s) ==
  /\ Fresh(jobs[s], now) /\ Live(jobs[s])
  /\ Put(s, [jobs[s] EXCEPT !.changed = now])

Complete(s, active, confirmed) ==
  /\ CanComplete(jobs[s], active, confirmed, now)
  /\ Put(s, Completed(jobs[s], now))

\* (bug) The highest restored id is handed out again.
NextIdAgain(ids) ==
  IF ids = {} THEN 1 ELSE CHOOSE n \in ids : \A i \in ids : i <= n

\* (bug) The lowest id that is not remembered is handed out.
NextIdLowest(ids) ==
  IF 1..IdMax \subseteq ids THEN 0
  ELSE CHOOSE n \in 1..IdMax : n \notin ids /\ \A m \in 1..IdMax : m < n => m \in ids

\* UpdateQueue::restore(): the highest restored id decides the next one.
NextIdAfter(ids) ==
  IF ids = {} THEN 1
  ELSE IF IdMax \in ids THEN 0
  ELSE CHOOSE n \in 1..IdMax : n - 1 \in ids /\ \A i \in ids : i < n

\* A reboot: valid_restore() gates what was saved, and the clock restarts.
RestartRestored ==
  /\ ValidRestore(jobs)
  /\ jobs' = [s \in Slots |-> IF jobs[s] = None THEN None ELSE Restored(jobs[s], 0)]
  /\ nextId' = NextIdAfter(IdsOf(jobs))
  /\ exhausted' = (IdMax \in IdsOf(jobs))
  /\ now' = 0

\* A refused restore() leaves the queue as the constructor made it: empty.
RestartRefused ==
  /\ ~ValidRestore(jobs)
  /\ jobs' = [s \in Slots |-> None]
  /\ nextId' = 1 /\ exhausted' = FALSE
  /\ now' = 0

JobStep(s) ==
  \/ \E next \in Phases : Transition(s, next)
  \/ \E ack \in 0..ImageSize : Progress(s, ack)
  \/ Attempt(s)
  \/ Retry(s)
  \/ Cancel(s)
  \/ Error(s)
  \/ \E active \in Releases, confirmed \in BOOLEAN : Complete(s, active, confirmed)

Next ==
  \/ Tick
  \/ \E tag \in Tags, hw \in Boards, rel \in Releases : Enqueue(tag, hw, rel)
  \/ \E s \in Used(jobs) : JobStep(s)
  \/ RestartRestored
  \/ RestartRefused

Spec == Init /\ [][Next]_vars

-----------------------------------------------------------------------------
(* Properties                                                              *)

\* No tag has live jobs for two boards.
OneBoardPerTag ==
  \A s, o \in Used(jobs) :
    Live(jobs[s]) /\ Live(jobs[o]) /\ jobs[s].tag = jobs[o].tag => jobs[s].hw = jobs[o].hw

\* A queue that is exported passes valid_restore() unless its caller gave one
\* tag live jobs for two boards: ids are unique, no target has two live jobs,
\* and a trial that may be armed is only ever recorded in a phase that leads
\* to an inspection.  What valid_restore() refuses is lost with the reboot.
Restorable == OneBoardPerTag => ValidRestore(jobs)

\* No id is ever issued twice, across evictions and restarts: the next id is
\* above every id the queue still knows, and the highest id is still known.
IdsAccounted ==
  /\ ~exhausted => nextId >= 1 /\ \A i \in IdsOf(jobs) : i < nextId
  /\ ~exhausted /\ nextId > 1 => nextId - 1 \in IdsOf(jobs)
  /\ exhausted => IdMax \in IdsOf(jobs)

\* A job that appears has an id above every id in the queue before it.
IdsNeverReused ==
  [][\A i \in IdsOf(jobs)' : i \in IdsOf(jobs) \/ \A k \in IdsOf(jobs) : k < i]_vars

\* A reboot that finds a tag with live jobs for two boards
Unrestorable == ~OneBoardPerTag /\ RestartRefused

\* Live work is never evicted and never changes its target or its release,
\* whatever is enqueued, and a restart brings it back.
LiveNeverLost ==
  [][\A s \in Used(jobs) : Live(jobs[s]) /\ ~Unrestorable =>
       /\ jobs'[s] # None
       /\ jobs'[s].id = jobs[s].id
       /\ jobs'[s].tag = jobs[s].tag
       /\ jobs'[s].hw = jobs[s].hw
       /\ jobs'[s].rel = jobs[s].rel]_vars

\* An outcome is final: while a finished job is remembered neither a late
\* operation nor a restart changes what it says happened.
OutcomeFinal ==
  [][\A s \in Used(jobs) : ~Live(jobs[s]) /\ ~Unrestorable =>
       \/ jobs'[s].id # jobs[s].id
       \/ jobs'[s] = [jobs[s] EXCEPT !.changed = jobs'[s].changed]]_vars

\* Once a trial may be armed the job never claims it was cancelled and never
\* returns to a phase that could upload or arm again; not even a restart or an
\* operator's retry forgets the trial.
TrialNeverForgotten ==
  [][\A s \in Used(jobs) : Live(jobs[s]) /\ jobs[s].trial /\ ~Unrestorable =>
       /\ jobs'[s].trial
       /\ jobs'[s].phase \in {"Rebooting", "Checking", "NeedsAction",
                              "Successful", "Failed"}]_vars

=============================================================================
