----------------------------- MODULE UpdateJob_proofs -----------------------------
(***************************************************************************)
(* Lemmas about UpdateJob, for every number of tags, releases, slots, ids  *)
(* and attempts: what each policy helper makes of a job, and what a change *)
(* of one slot leaves of a queue.  The proofs about the queue and about    *)
(* the controller rest on them.                                            *)
(***************************************************************************)
EXTENDS UpdateJob, TLAPS, WellFoundedInduction

USE JobAssumption, NoneAssumption DEF JobAssumption, NoneAssumption

-----------------------------------------------------------------------------
(* One job                                                                 *)

\* What valid_restore() asks of one record.
Legal(j) ==
  /\ j.attempts <= MaxAttempts
  /\ j.ack <= ImageSize
  /\ j.phase = "Rebooting" => j.trial
  /\ j.trial => j.phase \in {"Rebooting", "Checking", "NeedsAction", "Successful", "Failed"}

\* k is what a policy helper may make of the live job j.
Follows(j, k) ==
  /\ Live(j)
  /\ k \in Job /\ Legal(k)
  /\ k.id = j.id /\ k.tag = j.tag /\ k.hw = j.hw /\ k.rel = j.rel
  /\ j.trial => k.trial

\* update_transition() makes a legal job that follows the old one.
LEMMA TransitionFollows ==
  ASSUME NEW j \in Job, Legal(j), NEW next \in Phases, NEW t \in Nat,
         Live(j), AllowedEdge(j.phase, next), next = "Cancelled" => ~j.trial
  PROVE  /\ Follows(j, Transitioned(j, next, t))
         /\ Transitioned(j, next, t).phase = next
         /\ Transitioned(j, next, t).attempts = j.attempts
<1> DEFINE k == Transitioned(j, next, t)
<1>1. /\ k.id = j.id /\ k.tag = j.tag /\ k.hw = j.hw /\ k.rel = j.rel
      /\ k.phase = next /\ k.attempts = j.attempts
      /\ k.trial = (j.trial \/ next = "Rebooting")
      /\ k.ack \in {0, j.ack}
  BY DEF Transitioned, Job
<1>2. k \in Job
  <2> DEFINE ack == IF next \in {"NeedsRelease", "Uploading"} THEN 0 ELSE j.ack
             trial == j.trial \/ next = "Rebooting"
  <2>1. ack \in 0..ImageSize /\ trial \in BOOLEAN
    BY DEF Job
  <2>2. k = [j EXCEPT !.phase = next, !.ack = ack, !.trial = trial, !.changed = t]
    BY DEF Transitioned
  <2> HIDE DEF ack, trial, k
  <2>3. QED
    BY <2>1, <2>2 DEF Job
<1>3. k.trial => k.phase \in {"Rebooting", "Checking", "NeedsAction", "Successful", "Failed"}
  BY <1>1 DEF AllowedEdge, Legal, Live, Terminal
<1>4. k.attempts <= MaxAttempts /\ k.ack <= ImageSize
  BY <1>1 DEF Legal, Job
<1>5. Live(j) /\ (j.trial => k.trial) /\ (k.phase = "Rebooting" => k.trial)
  BY <1>1
<1>6. QED
  BY <1>1, <1>2, <1>3, <1>4, <1>5 DEF Follows, Legal

\* So does update_progress().
LEMMA ProgressFollows ==
  ASSUME NEW j \in Job, Legal(j), NEW ack \in 0..ImageSize, NEW t \in Nat,
         CanProgress(j, ack, t)
  PROVE  /\ Follows(j, Progressed(j, ack, t))
         /\ Progressed(j, ack, t).phase = j.phase
         /\ Progressed(j, ack, t).attempts = j.attempts
BY DEF CanProgress, Progressed, Follows, Legal, Job, Live, Terminal

\* So does update_attempt(): the budget is not exceeded.
LEMMA AttemptFollows ==
  ASSUME NEW j \in Job, Legal(j), NEW t \in Nat, CanAttempt(j, t)
  PROVE  /\ Follows(j, Attempted(j, t))
         /\ Attempted(j, t).phase = j.phase
         /\ Attempted(j, t).attempts = j.attempts + 1
<1> DEFINE k == Attempted(j, t)
<1>1. k.attempts \in 0..MaxAttempts
  BY DEF Attempted, CanAttempt, Job
<1>2. k \in Job
  BY <1>1 DEF Attempted, Job
<1>3. /\ k.id = j.id /\ k.tag = j.tag /\ k.hw = j.hw /\ k.rel = j.rel
      /\ k.phase = j.phase /\ k.ack = j.ack /\ k.trial = j.trial
      /\ k.attempts = j.attempts + 1
  BY DEF Attempted, Job
<1>4. Live(j)
  BY DEF CanAttempt, Live, Terminal
<1>5. QED
  BY <1>1, <1>2, <1>3, <1>4 DEF Follows, Legal

\* So does update_retry(), which keeps a possible trial.
LEMMA RetryFollows ==
  ASSUME NEW j \in Job, Legal(j), NEW t \in Nat, CanRetry(j, t)
  PROVE  Follows(j, Retried(j, t))
<1> DEFINE k == Retried(j, t)
<1>1. /\ k.id = j.id /\ k.tag = j.tag /\ k.hw = j.hw /\ k.rel = j.rel /\ k.trial = j.trial
      /\ k.phase = IF j.trial THEN "Checking" ELSE "Waiting"
      /\ k.attempts = 0 /\ k.ack \in {0, j.ack}
  BY DEF Retried, Job
<1>2. k \in Job
  <2> DEFINE phase == IF j.trial THEN "Checking" ELSE "Waiting"
             ack == IF j.trial THEN j.ack ELSE 0
             none == 0
  <2>1. phase \in Phases /\ ack \in 0..ImageSize /\ none \in 0..MaxAttempts
    BY DEF Job, Phases
  <2>2. k = [j EXCEPT !.phase = phase, !.attempts = none, !.ack = ack, !.changed = t]
    BY DEF Retried
  <2> HIDE DEF phase, ack, none, k
  <2>3. QED
    BY <2>1, <2>2 DEF Job
<1>3. Live(j)
  BY DEF CanRetry, Live, Terminal
<1>4. QED
  BY <1>1, <1>2, <1>3 DEF Follows, Legal, Job

\* So does update_cancel(), which inspects a possible trial.
LEMMA CancelFollows ==
  ASSUME NEW j \in Job, Legal(j), NEW t \in Nat, CanCancel(j, t)
  PROVE  /\ Follows(j, CancelledJob(j, t))
         /\ CancelledJob(j, t).phase = IF j.trial THEN "Checking" ELSE "Cancelled"
         /\ CancelledJob(j, t).attempts = j.attempts
<1>1. CASE ~j.trial
  BY <1>1, TransitionFollows DEF CanCancel, CanTransition, CancelledJob, Phases
<1>2. CASE j.trial /\ j.phase = "Checking"
  BY <1>2 DEF CanCancel, CancelledJob, Follows
<1>3. CASE j.trial /\ j.phase # "Checking"
  BY <1>3, TransitionFollows DEF CanCancel, CanTransition, CancelledJob, Phases
<1>4. QED
  BY <1>1, <1>2, <1>3

\* So does update_complete(), the only way to Successful.
LEMMA CompleteFollows ==
  ASSUME NEW j \in Job, Legal(j), NEW t \in Nat, j.phase = "Checking"
  PROVE  /\ Follows(j, Completed(j, t))
         /\ Completed(j, t).phase = "Successful"
         /\ Completed(j, t).attempts = j.attempts
BY DEF Completed, Follows, Legal, Job, Phases, Live, Terminal

\* So does update_error().
LEMMA ErrorFollows ==
  ASSUME NEW j \in Job, Legal(j), NEW t \in Nat, Live(j)
  PROVE  Follows(j, [j EXCEPT !.changed = t])
BY DEF Follows, Legal, Job

\* A restored job is legal and still about the same work.
LEMMA RestoredLegal ==
  ASSUME NEW j \in Job, Legal(j)
  PROVE  /\ Restored(j, 0) \in Job
         /\ Legal(Restored(j, 0))
         /\ Restored(j, 0).id = j.id
         /\ Restored(j, 0).tag = j.tag
         /\ Restored(j, 0).hw = j.hw
         /\ Restored(j, 0).rel = j.rel
         /\ Restored(j, 0).trial = j.trial
         /\ Live(Restored(j, 0)) <=> Live(j)
<1> DEFINE k == Restored(j, 0)
<1>1. /\ k.id = j.id /\ k.tag = j.tag /\ k.hw = j.hw /\ k.rel = j.rel /\ k.trial = j.trial
      /\ k.phase = AfterRestart(j.phase)
      /\ k.attempts = j.attempts /\ k.ack \in {0, j.ack}
  BY DEF Restored, Job
<1>2. k.phase \in Phases /\ (Live(k) <=> Live(j))
  BY <1>1 DEF AfterRestart, Job, Phases, Live, Terminal
<1>3. k \in Job
  <2> DEFINE phase == AfterRestart(j.phase)
             ack == IF j.phase \in Terminal THEN j.ack ELSE 0
  <2>1. phase \in Phases /\ ack \in 0..ImageSize
    BY <1>1, <1>2 DEF Job
  <2>2. k = [j EXCEPT !.phase = phase, !.ack = ack, !.changed = 0]
    BY DEF Restored
  <2> HIDE DEF phase, ack, k
  <2>3. QED
    BY <2>1, <2>2 DEF Job
<1>4. k.trial => k.phase \in {"Rebooting", "Checking", "NeedsAction", "Successful", "Failed"}
  BY <1>1 DEF AfterRestart, Legal
<1>5. k.phase # "Rebooting"
  BY <1>1 DEF AfterRestart
<1>6. k.attempts <= MaxAttempts /\ k.ack <= ImageSize
  BY <1>1 DEF Legal, Job
<1>7. QED
  BY <1>1, <1>2, <1>3, <1>4, <1>5, <1>6 DEF Legal

\* A finished job comes back as it was.
LEMMA RestoredOutcome ==
  ASSUME NEW j \in Job, ~Live(j)
  PROVE  Restored(j, 0) = [j EXCEPT !.changed = 0]
BY DEF Restored, AfterRestart, Job, Phases, Live, Terminal

-----------------------------------------------------------------------------
(* The queue                                                               *)

\* An id names one slot of a queue that may be restored.
LEMMA SlotOfId ==
  ASSUME NEW q, ValidRestore(q), NEW s \in Used(q)
  PROVE  SlotOf(q, q[s].id) = s
BY DEF SlotOf, ValidRestore

\* The jobs of such a queue are legal.
LEMMA UsedLegal ==
  ASSUME NEW q \in [Slots -> Job \union {None}], ValidRestore(q), NEW s \in Used(q)
  PROVE  s \in Slots /\ q[s] \in Job /\ q[s] # None /\ Legal(q[s])
BY DEF ValidRestore, Used, Legal

\* Another job in a slot, legal and not in conflict with the others, leaves a
\* queue that may be restored.
LEMMA SlotReplaced ==
  ASSUME NEW q \in [Slots -> Job \union {None}], ValidRestore(q), NEW s \in Slots,
         NEW k \in Job, Legal(k),
         \A o \in Used(q) \ {s} : q[o].id # k.id /\ (Live(k) /\ Live(q[o]) => q[o].tag # k.tag)
  PROVE  LET n == [q EXCEPT ![s] = k]
         IN  /\ n \in [Slots -> Job \union {None}] /\ ValidRestore(n)
             /\ Used(n) = Used(q) \union {s} /\ n[s] = k
             /\ \A o \in Slots \ {s} : n[o] = q[o]
<1> DEFINE n == [q EXCEPT ![s] = k]
<1>1. n \in [Slots -> Job \union {None}] /\ n[s] = k /\ \A o \in Slots \ {s} : n[o] = q[o]
  OBVIOUS
<1> HIDE DEF n
<1>2. k # None
  OBVIOUS
<1>3. Used(n) = Used(q) \union {s}
  BY <1>1, <1>2 DEF Used
<1>4. ValidRestore(n)
  <2>1. ASSUME NEW o \in Used(n) PROVE Legal(n[o])
    BY <1>1, <1>3, UsedLegal
  <2>2. ASSUME NEW o \in Used(n), NEW p \in Used(n) \ {o}
        PROVE  n[o].id # n[p].id /\ (Live(n[o]) /\ Live(n[p]) => n[o].tag # n[p].tag)
    <3>1. CASE o = s
      BY <1>1, <1>3, <3>1 DEF Used
    <3>2. CASE p = s
      BY <1>1, <1>3, <3>2 DEF Used
    <3>3. CASE o # s /\ p # s
      BY <1>1, <1>3, <3>3 DEF Used, ValidRestore
    <3>4. QED
      BY <3>1, <3>2, <3>3
  <2>3. QED
    BY <2>1, <2>2 DEF ValidRestore, Legal
<1>5. QED
  BY <1>1, <1>3, <1>4 DEF n

\* A set of ids that is not empty has a largest one.
LEMMA LargestId ==
  ASSUME NEW ids \in SUBSET (1..IdMax), ids # {}
  PROVE  \E i \in ids : \A k \in ids : k <= i
<1> DEFINE Above == {n \in Nat : \A i \in ids : i <= n}
<1>1. IdMax \in Above
  OBVIOUS
<1>2. PICK n \in Above : \A m \in Above : ~(<<m, n>> \in OpToRel(<, Nat))
  <2>1. Above \subseteq Nat /\ Above # {}
    BY <1>1
  <2> HIDE DEF Above
  <2>2. QED
    BY <2>1, NatLessThanWellFounded, WFMin, Zenon
<1>3. n \in Nat /\ \A m \in Above : ~(m < n)
  BY <1>2 DEF OpToRel
<1>4. PICK i \in ids : i \in 1..IdMax /\ i <= n
  OBVIOUS
<1>5. n - 1 \notin Above /\ n - 1 \in Nat
  BY <1>3, <1>4
<1>6. PICK k \in ids : ~(k <= n - 1)
  BY <1>5
<1>7. k = n
  BY <1>3, <1>6
<1>8. QED
  BY <1>6, <1>7

=============================================================================
