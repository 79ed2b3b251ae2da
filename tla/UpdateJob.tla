----------------------------- MODULE UpdateJob -----------------------------
(***************************************************************************)
(* The policy of one tag-update job: firmware/anchor/src/core/update_job.  *)
(* Definitions marked (bug) are mutations: what a plausible slip in the    *)
(* code would make of the definition after them.  Nothing else uses them.  *)
(*                                                                         *)
(* A job is a record; every update_*() helper of the code is a guard (the  *)
(* conditions under which it returns true) and the job it leaves behind.   *)
(* The module has no variables: UpdateQueue drives these operators with    *)
(* arbitrary callers, UpdateController with the real one.                  *)
(*                                                                         *)
(* A target is a tag and the board (hardware id) the tag is worn by.  A    *)
(* release is a model value; transfer offsets count ImageSize blocks.      *)
(* Error texts are left out.                                               *)
(***************************************************************************)
EXTENDS Integers

CONSTANTS
  Tags,         \* tag addresses
  Boards,       \* hardware ids
  Releases,     \* exact releases (size, file SHA, image hash, version)
  ImageSize,    \* blocks in an image
  MaxAttempts,  \* connection attempts before an operator must step in (3)
  QueueMax,     \* UPDATE_QUEUE_MAX, the queue's fixed slots (16)
  IdMax,        \* UINT32_MAX, the last job id
  None          \* nothing: an unused queue slot, no command, no reply

ASSUME JobAssumption ==
  /\ ImageSize \in Nat \ {0}
  /\ MaxAttempts \in Nat \ {0}
  /\ QueueMax \in Nat \ {0}
  /\ IdMax \in Nat \ {0}

Phases == {"Queued", "Waiting", "Connecting", "Uploading", "Rebooting",
           "Checking", "Successful", "Failed", "Cancelled",
           "NeedsRelease", "NeedsAction"}

Terminal == {"Successful", "Failed", "Cancelled"}

Job == [id       : 1..IdMax,
        tag      : Tags,
        hw       : Boards,
        rel      : Releases,
        phase    : Phases,
        ack      : 0..ImageSize,
        attempts : 0..MaxAttempts,
        trial    : BOOLEAN,
        changed  : Nat]

ASSUME NoneAssumption == None \notin Job

Slots == 1..QueueMax

-----------------------------------------------------------------------------
(* Transitions of one job.                                                 *)

\* The approved transition table, allowed_edge().
AllowedEdge(from, to) ==
  \/ from = "Queued"       /\ to \in {"Waiting", "Cancelled", "Failed"}
  \/ from = "Waiting"      /\ to \in {"Connecting", "Cancelled", "Failed", "NeedsRelease"}
  \/ from = "Connecting"   /\ to \in {"Waiting", "Uploading", "Checking", "Cancelled",
                                      "Failed", "NeedsAction"}
  \/ from = "Uploading"    /\ to \in {"Waiting", "Rebooting", "Cancelled", "Failed",
                                      "NeedsRelease", "NeedsAction"}
  \/ from = "Rebooting"    /\ to \in {"Checking", "NeedsAction"}
  \/ from = "Checking"     /\ to \in {"Failed", "NeedsAction"}
  \/ from = "NeedsRelease" /\ to \in {"Waiting", "Cancelled"}
  \/ from = "NeedsAction"  /\ to \in {"Checking", "Cancelled"}

Fresh(j, now) == now >= j.changed

\* (bug) A job that waits for an operator counts as finished.
LiveUnattended(j) == j.phase \notin Terminal \union {"NeedsAction"}

Live(j) == j.phase \notin Terminal

\* (bug) An armed trial may be called cancelled.
CanTransitionAnyTrial(j, next, now) ==
  Fresh(j, now) /\ Live(j) /\ AllowedEdge(j.phase, next)

\* update_transition()
CanTransition(j, next, now) ==
  /\ Fresh(j, now)
  /\ Live(j)
  /\ AllowedEdge(j.phase, next)
  /\ next = "Cancelled" => ~j.trial

Transitioned(j, next, now) ==
  [j EXCEPT !.phase   = next,
            !.ack     = IF next \in {"NeedsRelease", "Uploading"} THEN 0 ELSE @,
            !.trial   = @ \/ next = "Rebooting",
            !.changed = now]

\* Receiver-confirmed progress; a rewind is accepted.
CanProgress(j, ack, now) ==
  /\ Fresh(j, now)
  /\ j.phase = "Uploading"
  /\ ack <= ImageSize

Progressed(j, ack, now) == [j EXCEPT !.ack = ack, !.changed = now]

\* One connection attempt, counted before it is made.
CanAttempt(j, now) ==
  /\ Fresh(j, now)
  /\ j.attempts < MaxAttempts
  /\ j.phase \in {"Connecting", "Checking"}

\* (bug) The attempt is not counted.
AttemptedUncounted(j, now) == [j EXCEPT !.changed = now]

Attempted(j, now) == [j EXCEPT !.attempts = @ + 1, !.changed = now]

\* update_retry(): an explicit operator retry; the budget restarts, a trial stays uncertain.
CanRetry(j, now) ==
  /\ Fresh(j, now)
  /\ j.phase \in {"NeedsRelease", "NeedsAction"}

\* (bug) A retry starts over and forgets the trial.
RetriedAsNew(j, now) ==
  [j EXCEPT !.phase = "Waiting", !.attempts = 0, !.ack = 0, !.trial = FALSE, !.changed = now]

Retried(j, now) ==
  [j EXCEPT !.phase    = IF j.trial THEN "Checking" ELSE "Waiting",
            !.attempts = 0,
            !.ack      = IF j.trial THEN @ ELSE 0,
            !.changed  = now]

\* update_cancel(): cancelling a job whose trial may be armed only asks for an inspection.
CanCancel(j, now) ==
  /\ Fresh(j, now)
  /\ Live(j)
  /\ IF j.trial THEN j.phase = "Checking" \/ CanTransition(j, "Checking", now)
                ELSE CanTransition(j, "Cancelled", now)

CancelledJob(j, now) ==
  IF ~j.trial THEN Transitioned(j, "Cancelled", now)
  ELSE IF j.phase = "Checking" THEN j
  ELSE Transitioned(j, "Checking", now)

\* The only way to Successful: Checking, and the confirmed active image is
\* exactly the release asked for.
CanComplete(j, active, confirmed, now) ==
  /\ Fresh(j, now)
  /\ j.phase = "Checking"
  /\ confirmed /\ active = j.rel

Completed(j, now) == [j EXCEPT !.phase = "Successful", !.changed = now]

-----------------------------------------------------------------------------
(* Restart.                                                                *)

\* update_after_restart().
AfterRestart(phase) ==
  IF phase \in {"Queued", "Waiting", "Connecting", "Uploading"} THEN "NeedsRelease"
  ELSE IF phase \in {"Rebooting", "Checking"} THEN "Checking"
  ELSE phase

\* (bug) The outcome of a finished job loses what it had transferred.
RestoredFlat(j, now) ==
  [j EXCEPT !.phase = AfterRestart(@), !.ack = 0, !.changed = now]

\* (bug) Every boot comes with a new budget of attempts.
RestoredAfresh(j, now) ==
  [j EXCEPT !.phase    = AfterRestart(@),
            !.ack      = IF j.phase \in Terminal THEN @ ELSE 0,
            !.attempts = 0,
            !.changed  = now]

\* One record of UpdateQueue::restore(): live offsets are discarded and the
\* clock of the new boot replaces the old timestamps.
Restored(j, now) ==
  [j EXCEPT !.phase   = AfterRestart(@),
            !.ack     = IF j.phase \in Terminal THEN @ ELSE 0,
            !.changed = now]

-----------------------------------------------------------------------------
(* The queue: a function from Slots to jobs.                               *)

Used(q) == {s \in Slots : q[s] # None}

IdsOf(q) == {q[s].id : s \in Used(q)}

SlotOf(q, id) == CHOOSE s \in Used(q) : q[s].id = id

\* The checks of valid_restore() on a saved queue.  Unlike enqueue() it refuses
\* two live jobs of one tag whatever their boards.
ValidRestore(q) ==
  \A s \in Used(q) :
    /\ q[s].attempts <= MaxAttempts
    /\ q[s].ack <= ImageSize
    /\ q[s].phase = "Rebooting" => q[s].trial
    /\ q[s].trial => q[s].phase \in {"Rebooting", "Checking", "NeedsAction",
                                     "Successful", "Failed"}
    /\ \A o \in Used(q) \ {s} :
         /\ q[s].id # q[o].id
         /\ Live(q[s]) /\ Live(q[o]) => q[s].tag # q[o].tag

\* enqueue() takes the next unused slot; a full queue gives up its oldest
\* terminal record (the first one among equals), never a live job.
NextUnused(q) == {s \in Slots \ Used(q) : \A o \in Slots \ Used(q) : s <= o}

Evictable(q) == {s \in Used(q) : ~Live(q[s])}

\* (bug) The oldest record goes, finished or not.
OldestSlots(q) ==
  IF Used(q) # Slots THEN NextUnused(q)
  ELSE {s \in Slots : \A o \in Slots : q[s].changed <= q[o].changed}

EnqueueSlots(q) ==
  IF Used(q) # Slots THEN NextUnused(q)
  ELSE {s \in Evictable(q) : \A o \in Evictable(q) :
          /\ q[s].changed <= q[o].changed
          /\ q[s].changed = q[o].changed => s <= o}

SameTarget(j, tag, hw) == j.tag = tag /\ j.hw = hw

\* (bug) Only jobs that have not started count as duplicates.
CanEnqueueBesideStarted(q, tag, hw) ==
  \A s \in Used(q) : q[s].phase = "Queued" => ~SameTarget(q[s], tag, hw)

CanEnqueue(q, tag, hw) == \A s \in Used(q) : Live(q[s]) => ~SameTarget(q[s], tag, hw)

NewJob(id, tag, hw, rel, now) ==
  [id |-> id, tag |-> tag, hw |-> hw, rel |-> rel, phase |-> "Queued", ack |-> 0,
   attempts |-> 0, trial |-> FALSE, changed |-> now]

=============================================================================
