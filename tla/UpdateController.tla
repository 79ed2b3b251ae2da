-------------------------- MODULE UpdateController --------------------------
(***************************************************************************)
(* The update controller of core/update_controller.cpp with the part of    *)
(* update_storage.cpp and tag_updater.cpp it runs on: one BLE session at a *)
(* time, driven by the main loop against the worker of UpdateTransport,    *)
(* API calls between the loop's steps, a durable snapshot, restarts.       *)
(*                                                                         *)
(* Definitions marked (bug) are mutations, as in UpdateJob.                *)
(*                                                                         *)
(* Each handler is one action.  A deadline is a flag that may rise at any  *)
(* time once the deadline is set.  Two snapshot writes of one handler are  *)
(* one step, but either may fail leaving the old or the new snapshot, so   *)
(* what a restart between them would find is reachable.  Commissioning and *)
(* motion settings share the session and are left out.                     *)
(***************************************************************************)
EXTENDS UpdateTransport

CONSTANTS
  StallMax,   \* replies without progress that end an upload (3)
  Associated  \* tag -> the board it is commissioned with, for good

ASSUME StallAssumption == StallMax \in Nat \ {0}

ASSUME AssociatedAssumption == Associated \in [Tags -> Boards]

VARIABLES
  jobs,       \* queue_
  nvs,        \* the jobs of the last snapshot written
  active,     \* active_job_id_, 0 for none
  ses,        \* the session's control state
  chk,        \* slot -> its confirmation deadline checking_until_
  cooling,    \* now < cooldown_until_
  disabled,   \* disabled_: no work until a restart
  ready,      \* ready_: the snapshot was restored
  staged,     \* the release in the stage buffer, or None
  staging,    \* an upload into the stage buffer is open
  borrowed,   \* the session reads from the stage buffer
  stalled     \* replies in a row that made no progress

jobVars == <<jobs, nvs, disabled>>
stageVars == <<staged, staging, borrowed, stalled>>
transfer == <<borrowed, stalled>>
ctlVars == <<jobVars, active, ses, chk, cooling, ready, stageVars>>
vars == <<transportVars, ctlVars>>

\* await    what the session waits for
\* smp      pending_smp_, while a reply is awaited
\* sub      disconnect_submitted_
\* due      the deadline of the operation or poll has passed
\* late     the session deadline has passed
Session == [await : {"None", "Connected", "Secured", "Reply", "Poll", "Disconnected"},
            smp : Smps, sub : BOOLEAN, due : BOOLEAN, late : BOOLEAN]

NoSession == [await |-> "None", smp |-> "TagStatus", sub |-> FALSE,
              due |-> FALSE, late |-> FALSE]

Deadline == {"off", "run", "due"}

TypeOK ==
  /\ TransportTypeOK
  /\ jobs \in [Slots -> Job \union {None}]
  /\ nvs \in [Slots -> Job \union {None}]
  /\ active \in 0..IdMax
  /\ ses \in Session
  /\ chk \in [Slots -> Deadline]
  /\ cooling \in BOOLEAN
  /\ disabled \in BOOLEAN
  /\ ready \in BOOLEAN
  /\ staged \in Releases \union {None}
  /\ staging \in BOOLEAN
  /\ borrowed \in BOOLEAN
  /\ stalled \in 0..(StallMax - 1)

\* Tags as they may be found: shipped, updated before, on trial by another
\* anchor, or with a trial of another anchor pending.
Shipped == [active |-> Factory, conf |-> TRUE, other |-> None, off |-> 0,
            pending |-> FALSE, ours |-> FALSE]

Found == {Shipped} \union UNION {
  LET pend == [Shipped EXCEPT !.other = r, !.off = ImageSize, !.pending = TRUE]
  IN  {pend, Booted(pend), Confirmed(Booted(pend))} : r \in Releases}

Init ==
  /\ TransportInit
  /\ dev \in [Tags -> Found]
  /\ jobs = [s \in Slots |-> None]
  /\ nvs = jobs
  /\ active = 0
  /\ ses = NoSession
  /\ chk = [s \in Slots |-> "off"]
  /\ cooling = FALSE
  /\ disabled = FALSE
  /\ ready = TRUE
  /\ staged = None
  /\ staging = FALSE
  /\ borrowed = FALSE
  /\ stalled = 0

-----------------------------------------------------------------------------
(* The queue and its snapshot                                              *)

Db == [jobs |-> jobs, nvs |-> nvs, disabled |-> disabled]

Store(d) == jobs' = d.jobs /\ nvs' = d.nvs /\ disabled' = d.disabled

\* checkpoint(): a failed write leaves either snapshot behind and disables
\* the controller; a disabled controller writes nothing.
Checkpoint(d, s, job) ==
  LET q == [d.jobs EXCEPT ![s] = job]
  IN  IF d.disabled THEN {[d EXCEPT !.jobs = q]}
      ELSE {[jobs |-> q, nvs |-> q, disabled |-> FALSE]} \union
           {[jobs |-> q, nvs |-> n, disabled |-> TRUE] : n \in {d.nvs, q}}

\* (bug) The phase changes in memory only.
MovedInRam(d, s, phase) == {[d EXCEPT !.jobs[s] = Transitioned(d.jobs[s], phase, 0)]}

\* transition()
Moved(d, s, phase) == Checkpoint(d, s, Transitioned(d.jobs[s], phase, 0))

\* prepare_check(): succeeds when the outcome is durably Checking.
Prepared(d, s) ==
  IF d.jobs[s].phase # "Checking" /\ CanTransition(d.jobs[s], "Checking", 0)
  THEN Moved(d, s, "Checking") ELSE {d}

IsPrepared(d, s) == d.jobs[s].phase = "Checking" /\ ~d.disabled

\* It sets a confirmation deadline that is not set, and keeps one that is.
Armed(c, s) == IF c[s] = "off" THEN [c EXCEPT ![s] = "run"] ELSE c

\* stop(): the job leaves the session in the given phase.
Stopped(d, s, phase) ==
  LET job == d.jobs[s]
  IN  IF d.disabled \/ ~Live(job) THEN {d}
      ELSE IF job.phase = phase THEN Checkpoint(d, s, job)
      ELSE IF CanTransition(job, phase, 0) THEN Moved(d, s, phase)
      ELSE {[d EXCEPT !.disabled = TRUE]}

\* failed(): where a failed session leaves its job.
PhaseAfterFailure(job, retryable) ==
  IF ~retryable \/ job.attempts >= MaxAttempts THEN "NeedsAction"
  ELSE IF job.trial \/ job.phase = "Checking" THEN "Checking"
  ELSE "Waiting"

FailedDb(d, s, retryable) ==
  LET next == PhaseAfterFailure(d.jobs[s], retryable)
  IN  IF next = "Checking" THEN UNION {Stopped(p, s, next) : p \in Prepared(d, s)}
      ELSE Stopped(d, s, next)

-----------------------------------------------------------------------------
(* Commands to the worker                                                  *)

Busy == active # 0 \/ ses.await = "Disconnected"

Here == SlotOf(jobs, active)

Cmd(kind, smp, job) ==
  [kind |-> kind, smp |-> smp, off |-> IF smp = "Upload" THEN job.ack ELSE 0,
   tag |-> job.tag, rel |-> job.rel, fresh |-> TRUE]

Aged(c) == IF c = None THEN None ELSE [c EXCEPT !.fresh = FALSE]

AgedEvents(q) == [i \in DOMAIN q |-> StaleEvent]

\* submit(): whether or not the worker takes the command (its mailbox is
\* taken without waiting), everything submitted before is stale.  evs is
\* what is left of the event queue.
Submit(evs, accepted, cmd) ==
  /\ accepted => mailbox = None /\ (fault => cmd.kind = "Disconnect")
  /\ mailbox' = IF accepted THEN cmd ELSE Aged(mailbox)
  /\ events' = AgedEvents(evs)
  /\ wk' = [wk EXCEPT !.fresh = FALSE]
  /\ UNCHANGED <<fault, inbox, dev>>

\* close(): from here only the acknowledged disconnect ends the session.
Close(evs, job, delay) ==
  \E accepted \in BOOLEAN :
    /\ Submit(evs, accepted, Cmd("Disconnect", "TagStatus", job))
    /\ ses' = [NoSession EXCEPT !.await = "Disconnected", !.sub = accepted]
    /\ cooling' = (cooling \/ delay)

\* failed() and the close it ends with, after the handler left d stored and
\* the confirmation deadlines c set.
FailIn(s, evs, d, c, retryable) ==
  LET next == PhaseAfterFailure(d.jobs[s], retryable)
  IN  /\ \E e \in FailedDb(d, s, retryable) : Store(e)
      /\ chk' = IF next = "Checking" THEN Armed(c, s) ELSE c
      /\ Close(evs, jobs[s], TRUE)
      /\ UNCHANGED <<ready, staged, staging>>

Fail(evs, d, c, retryable) == FailIn(Here, evs, d, c, retryable) /\ active' = active

\* An exchange is queued after the handler left d stored.
Asked(evs, d, c, smp) ==
  /\ ~d.disabled
  /\ Submit(evs, TRUE, Cmd("Exchange", smp, d.jobs[Here]))
  /\ Store(d)
  /\ chk' = c
  /\ ses' = [ses EXCEPT !.await = "Reply", !.smp = smp, !.due = FALSE]
  /\ UNCHANGED <<active, cooling, ready, staged, staging>>

\* Ask the tag something that needs no stage buffer, or fail.
Ask(evs, smp, retryable) ==
  /\ Asked(evs, Db, chk, smp) \/ Fail(evs, Db, chk, retryable)
  /\ UNCHANGED transfer

\* Send the next block: the first one takes hold of the stage buffer, which
\* must hold exactly the job's release.
SendBlock(evs, d, retryable) ==
  LET held == borrowed \/ (staged = jobs[Here].rel /\ ~d.disabled)
  IN  /\ borrowed' = held
      /\ \/ held /\ Asked(evs, d, chk, "Upload")
         \/ Fail(evs, d, chk, retryable)

-----------------------------------------------------------------------------
(* The API, between the loop's steps.  It needs a healthy worker, except    *)
(* to cancel.                                                               *)

Available == ready /\ ~fault /\ ~staging

\* One live job per tag, whatever its board.
TagFree(tag) == \A s \in Used(jobs) : Live(jobs[s]) => jobs[s].tag # tag

\* queue(): one live job per tag, of the staged release; a closing session
\* keeps its slot.
QueueJob(tag) ==
  LET id == 1 + (IF Used(jobs) = {} THEN 0
                 ELSE CHOOSE i \in IdsOf(jobs) : \A k \in IdsOf(jobs) : k <= i)
  IN  /\ Available /\ ~disabled
      /\ ses.await # "Disconnected"
      /\ staged # None
      /\ TagFree(tag) /\ CanEnqueue(jobs, tag, Associated[tag])
      /\ id <= IdMax
      /\ \E s \in (IF Used(jobs) # Slots THEN NextUnused(jobs) ELSE Evictable(jobs)) :
           /\ \E d \in Checkpoint(Db, s, NewJob(id, tag, Associated[tag], staged, 0)) :
                Store(d)
           /\ chk' = [chk EXCEPT ![s] = "off"]
      /\ UNCHANGED <<transportVars, active, ses, cooling, ready, stageVars>>

\* cancel(): a trial that may be armed is inspected, not undone.
CancelJob(s) ==
  LET job == CancelledJob(jobs[s], 0)
  IN  /\ ready /\ ~disabled
      /\ CanCancel(jobs[s], 0)
      /\ \E d \in Checkpoint(Db, s, job) : Store(d)
      /\ chk' = IF job.trial THEN Armed(chk, s) ELSE chk
      /\ IF job.id = active /\ ses.await # "Disconnected"
         THEN Close(events, job, job.trial)
         ELSE UNCHANGED <<transportVars, ses, cooling>>
      /\ UNCHANGED <<active, ready, stageVars>>

\* retry(): needs the exact release again unless the tag is only inspected.
RetryJob(s) ==
  /\ Available /\ ~disabled
  /\ active # jobs[s].id
  /\ jobs[s].trial \/ staged = jobs[s].rel
  /\ CanRetry(jobs[s], 0)
  /\ \E d \in Checkpoint(Db, s, Retried(jobs[s], 0)) : Store(d)
  /\ chk' = [chk EXCEPT ![s] = IF jobs[s].trial THEN "run" ELSE "off"]
  /\ UNCHANGED <<transportVars, active, ses, cooling, ready, stageVars>>

\* release_in_use()
InUse(release) == \E s \in Used(jobs) : Live(jobs[s]) /\ jobs[s].rel = release

\* (bug) A new upload may replace the release a session or a job needs.
StageBeginAnyTime ==
  /\ Available /\ ~disabled
  /\ staging' = TRUE
  /\ staged' = None
  /\ UNCHANGED <<transportVars, jobVars, active, ses, chk, cooling, ready, transfer>>

\* tag_updater_stage_begin()
StageBegin ==
  /\ Available /\ ~disabled /\ ~Busy
  /\ ~borrowed /\ ~InUse(staged)
  /\ staging' = TRUE
  /\ staged' = None
  /\ UNCHANGED <<transportVars, jobVars, active, ses, chk, cooling, ready, transfer>>

\* tag_updater_stage_finish() or _abort(): the upload was intact or not.
StageEnd ==
  /\ staging
  /\ staging' = FALSE
  /\ staged' \in Releases \union {None}
  /\ UNCHANGED <<transportVars, jobVars, active, ses, chk, cooling, ready, transfer>>

-----------------------------------------------------------------------------
(* The main loop, first: deadlines of the open session                     *)

\* tag_updater_loop(): the loop stops while a release is being staged, and
\* after a worker fault once no session is left.
LoopOn == ready /\ ~staging /\ (fault => Busy)

InSession == LoopOn /\ active # 0 /\ ses.await # "Disconnected"

ConfirmationDue == jobs[Here].phase = "Checking" /\ chk[Here] = "due"

Overdue == disabled \/ ConfirmationDue \/ ses.late \/ ses.due

CloseDisabled ==
  /\ InSession /\ disabled
  /\ Close(events, jobs[Here], FALSE)
  /\ UNCHANGED <<jobVars, active, chk, ready, stageVars>>

SessionOverdue ==
  /\ InSession /\ ~disabled
  /\ Overdue
  /\ IF ConfirmationDue THEN Fail(events, Db, chk, FALSE)
     ELSE (ses.late \/ ses.await # "Poll") /\ Fail(events, Db, chk, TRUE)
  /\ UNCHANGED transfer

\* Time to look again for the tag's confirmation.
PollAgain ==
  /\ InSession /\ ~disabled
  /\ ~ConfirmationDue /\ ~ses.late
  /\ ses.await = "Poll" /\ ses.due
  /\ Ask(events, "ImageList", TRUE)

-----------------------------------------------------------------------------
(* The main loop, second: handle() on the events of the worker             *)

\* Events of an older operation were made stale by submit().
Handling(e) == InSession /\ ~Overdue

Awaited(e) ==
  \/ ses.await = "Connected" /\ e.kind = "Connected"
  \/ ses.await = "Secured" /\ e.kind = "Secured"
  \/ ses.await = "Reply" /\ e.kind = "Reply"

Broken(e) == e.kind \in {"Failed", "Disconnected"}

LinkFails(e, rest) ==
  /\ Handling(e) /\ Broken(e)
  /\ Fail(rest, Db, chk, e.transient \/ e.kind = "Disconnected")
  /\ UNCHANGED transfer

LinkUp(e, rest) ==
  /\ Handling(e) /\ Awaited(e) /\ e.kind = "Connected"
  /\ \/ /\ Submit(rest, TRUE, Cmd("Security", "TagStatus", jobs[Here]))
        /\ ses' = [ses EXCEPT !.await = "Secured", !.due = FALSE]
        /\ UNCHANGED <<jobVars, active, chk, cooling, ready, staged, staging>>
     \/ Fail(rest, Db, chk, FALSE)
  /\ UNCHANGED transfer

LinkSecured(e, rest) ==
  /\ Handling(e) /\ Awaited(e) /\ e.kind = "Secured"
  /\ Ask(rest, "TagStatus", TRUE)

ReplyTo(e, smp) ==
  Handling(e) /\ Awaited(e) /\ e.kind = "Reply" /\ e.reply.ok /\ ses.smp = smp

\* (bug) A request the tag denied is sent again.
DeniedAgain(e, rest) ==
  /\ Handling(e) /\ Awaited(e) /\ e.kind = "Reply" /\ ~e.reply.ok
  /\ Ask(rest, ses.smp, FALSE)

Denied(e, rest) ==
  /\ Handling(e) /\ Awaited(e) /\ e.kind = "Reply" /\ ~e.reply.ok
  /\ Fail(rest, Db, chk, FALSE)
  /\ UNCHANGED transfer

\* The tag names itself; another identity ends the session.
Identified(e, rest) ==
  /\ ReplyTo(e, "TagStatus")
  /\ \/ Ask(rest, "ImageList", TRUE)
     \/ Fail(rest, Db, chk, FALSE) /\ UNCHANGED transfer

\* (bug) The trial is requested before its uncertainty is durable.
ArmTrialUnsaved(img, rest) ==
  LET match == img.other = jobs[Here].rel /\ img.off = ImageSize
      d == [Db EXCEPT !.jobs[Here] = Transitioned(@, "Rebooting", 0)]
  IN  IF ~match \/ img.pending THEN Fail(rest, Db, chk, FALSE)
      ELSE Asked(rest, d, chk, "Trial") \/ Fail(rest, d, chk, FALSE)

\* inspect_or_upload() in Uploading: the inactive slot must hold exactly the
\* release, and the uncertainty is durable before the trial is requested.
ArmTrial(img, rest) ==
  LET match == img.other = jobs[Here].rel /\ img.off = ImageSize
  IN  IF ~match \/ img.pending THEN Fail(rest, Db, chk, FALSE)
      ELSE \E d \in Moved(Db, Here, "Rebooting") :
             Asked(rest, d, chk, "Trial") \/ Fail(rest, d, chk, FALSE)

\* (bug) Running the image is taken for success, confirmed or not.
RunningIsDone(img, rest) ==
  /\ chk' = Armed(chk, Here)
  /\ \E d \in Prepared(Db, Here) :
       /\ \E e \in (IF IsPrepared(d, Here)
                     THEN Checkpoint(d, Here, Completed(d.jobs[Here], 0)) ELSE {d}) :
            Store(e)
       /\ Close(rest, jobs[Here], FALSE)
  /\ UNCHANGED <<active, ready, staged, staging>>

\* The wanted image runs: done once it is confirmed, else poll for that.
Running(img, rest) ==
  /\ chk' = Armed(chk, Here)
  /\ \E d \in Prepared(Db, Here) :
       IF ~IsPrepared(d, Here) \/ img.conf
       THEN /\ \E e \in (IF IsPrepared(d, Here)
                         THEN Checkpoint(d, Here, Completed(d.jobs[Here], 0)) ELSE {d}) :
                 Store(e)
            /\ Close(rest, jobs[Here], FALSE)
       ELSE /\ Store(d)
            /\ ses' = [ses EXCEPT !.await = "Poll", !.smp = "TagStatus", !.due = FALSE]
            /\ events' = rest
            /\ UNCHANGED <<mailbox, wk, fault, inbox, dev, cooling>>
  /\ UNCHANGED <<active, ready, staged, staging>>

\* Another image runs although a trial of the wanted one was expected.
NotInstalled(rest) ==
  /\ \E d \in Stopped(Db, Here, IF jobs[Here].trial THEN "Failed" ELSE "NeedsAction") :
       Store(d)
  /\ Close(rest, jobs[Here], FALSE)
  /\ UNCHANGED <<active, chk, ready, staged, staging>>

\* Nothing is installed, pending or on trial: the upload may begin.
BeginUpload(rest) ==
  \E d \in Moved(Db, Here, "Uploading") :
    IF d.disabled THEN Fail(rest, d, chk, FALSE) /\ borrowed' = borrowed
    ELSE SendBlock(rest, d, FALSE)

\* inspect_or_upload()
Inspected(e, rest) ==
  LET img == e.reply.img
      job == jobs[Here]
  IN  /\ ReplyTo(e, "ImageList")
      /\ IF img = None THEN Fail(rest, Db, chk, FALSE) /\ UNCHANGED transfer
         ELSE IF job.phase = "Uploading" THEN ArmTrial(img, rest) /\ UNCHANGED transfer
         ELSE IF img.active = job.rel THEN Running(img, rest) /\ UNCHANGED transfer
         ELSE IF img.pending THEN Fail(rest, Db, chk, FALSE) /\ UNCHANGED transfer
         ELSE IF job.phase = "Checking" \/ job.trial
         THEN NotInstalled(rest) /\ UNCHANGED transfer
         ELSE IF ~img.conf THEN Fail(rest, Db, chk, FALSE) /\ UNCHANGED transfer
         ELSE BeginUpload(rest) /\ stalled' = stalled

\* (bug) A tag may make no progress for ever.
AcceptsAnyStall(off, sent) == off >= sent /\ (sent = 0 \/ off <= sent + 1)

\* smp_accept_upload_offset(): the tag asks for the next block, for the same
\* one a few times, or, on the first, resumes an earlier transfer.
AcceptsOffset(off, sent) ==
  /\ off >= sent
  /\ sent = 0 \/ off <= sent + 1
  /\ off = sent => stalled + 1 < StallMax

Uploaded(e, rest) ==
  LET job == jobs[Here]
      off == e.reply.off
      d   == [Db EXCEPT !.jobs[Here] = Progressed(job, off, 0)]
  IN  /\ ReplyTo(e, "Upload")
      /\ IF ~AcceptsOffset(off, job.ack) \/ ~CanProgress(job, off, 0)
         THEN Fail(rest, Db, chk, FALSE) /\ UNCHANGED transfer
         ELSE /\ stalled' = IF off = job.ack THEN stalled + 1 ELSE 0
              /\ IF off < ImageSize THEN SendBlock(rest, d, TRUE)
                 ELSE /\ Asked(rest, d, chk, "ImageList") \/ Fail(rest, d, chk, TRUE)
                      /\ borrowed' = borrowed

\* The trial is requested; that it may be armed is durable before the reset.
TrialSet(e, rest) ==
  /\ ReplyTo(e, "Trial")
  /\ \E d \in Prepared(Db, Here) :
       \/ IsPrepared(d, Here) /\ Asked(rest, d, Armed(chk, Here), "Reset")
       \/ Fail(rest, d, Armed(chk, Here), FALSE)
  /\ UNCHANGED transfer

ResetSent(e, rest) ==
  /\ ReplyTo(e, "Reset")
  /\ Close(rest, jobs[Here], TRUE)
  /\ UNCHANGED <<jobVars, active, chk, ready, stageVars>>

\* The worker proved the link closed: the session gives up the stage buffer.
Finishes(e) ==
  /\ active # 0 /\ ses.await = "Disconnected"
  /\ ses.sub /\ e.kind = "Disconnected"

FinishClose(e, rest) ==
  /\ LoopOn /\ Finishes(e)
  /\ events' = rest
  /\ active' = 0
  /\ ses' = NoSession
  /\ borrowed' = FALSE
  /\ UNCHANGED <<mailbox, wk, fault, inbox, dev, jobVars, chk, cooling, ready,
                 staged, staging, stalled>>

\* Anything else is stale, or not what the session waits for.
DropEvent(e, rest) ==
  /\ LoopOn /\ ~Finishes(e)
  /\ InSession => ~Overdue /\ ~Broken(e) /\ ~Awaited(e)
  /\ events' = rest
  /\ UNCHANGED <<mailbox, wk, fault, inbox, dev, ctlVars>>

HandleEvent ==
  /\ events # <<>>
  /\ LET e == Head(events)
         rest == Tail(events)
     IN  \/ LinkFails(e, rest) \/ LinkUp(e, rest) \/ LinkSecured(e, rest)
         \/ Denied(e, rest) \/ Identified(e, rest) \/ Inspected(e, rest)
         \/ Uploaded(e, rest) \/ TrialSet(e, rest) \/ ResetSent(e, rest)
         \/ FinishClose(e, rest) \/ DropEvent(e, rest)

-----------------------------------------------------------------------------
(* The main loop, third: a session that is closing                         *)

Closing == LoopOn /\ active # 0 /\ ses.await = "Disconnected"

\* (bug) A disconnect that takes too long is taken for done.
DisconnectAssumed ==
  /\ Closing /\ ses.due /\ ~disabled
  /\ active' = 0 /\ ses' = NoSession /\ borrowed' = FALSE
  /\ UNCHANGED <<transportVars, jobVars, chk, cooling, ready, staged, staging, stalled>>

\* (bug) The disconnect is given more time again and again.
DisconnectExtended ==
  /\ Closing /\ ses.due /\ ~disabled
  /\ ses' = [ses EXCEPT !.due = FALSE]
  /\ UNCHANGED <<transportVars, jobVars, active, chk, cooling, ready, stageVars>>

DisconnectOverdue ==
  /\ Closing /\ ses.due /\ ~disabled
  /\ disabled' = TRUE
  /\ UNCHANGED <<transportVars, jobs, nvs, active, ses, chk, cooling, ready, stageVars>>

RetryDisconnect ==
  /\ Closing /\ ~ses.due /\ ~ses.sub
  /\ \E accepted \in BOOLEAN :
       /\ Submit(events, accepted, Cmd("Disconnect", "TagStatus", jobs[Here]))
       /\ ses' = [ses EXCEPT !.sub = accepted]
  /\ UNCHANGED <<jobVars, active, chk, cooling, ready, stageVars>>

-----------------------------------------------------------------------------
(* The main loop, last: the next job                                       *)

HasWork(s) ==
  \/ jobs[s].phase = "Checking" /\ chk[s] = "due"
  \/ ~cooling /\ jobs[s].phase \in {"Queued", "Waiting", "Checking"}

Turn(s) ==
  /\ LoopOn /\ ~disabled /\ ~Busy
  /\ \A o \in Used(jobs) : o < s => ~HasWork(o)

\* The confirmation was not seen in time.
ExpireCheck(s) ==
  /\ Turn(s)
  /\ jobs[s].phase = "Checking" /\ chk[s] = "due"
  /\ \E d \in Moved(Db, s, "NeedsAction") : Store(d)
  /\ UNCHANGED <<transportVars, active, ses, chk, cooling, ready, stageVars>>

Admitted(s) == IF jobs[s].phase = "Queued" THEN Moved(Db, s, "Waiting") ELSE {Db}

\* The exact release is not staged any more.
Defer(s) ==
  /\ Turn(s) /\ ~cooling
  /\ jobs[s].phase \in {"Queued", "Waiting"} /\ staged # jobs[s].rel
  /\ \E d \in Admitted(s) :
       \E e \in (IF d.disabled THEN {d} ELSE Moved(d, s, "NeedsRelease")) : Store(e)
  /\ UNCHANGED <<transportVars, active, ses, chk, cooling, ready, stageVars>>

\* The attempt and the phase are durable before the first BLE operation.
Connect(s, d) ==
  /\ active' = d.jobs[s].id
  /\ stalled' = 0
  /\ \/ /\ Submit(events, TRUE, Cmd("Connect", "TagStatus", jobs[s]))
        /\ ses' = [NoSession EXCEPT !.await = "Connected"]
        /\ Store(d)
        /\ UNCHANGED <<chk, cooling, ready, staged, staging>>
     \/ FailIn(s, events, d, chk, TRUE)
  /\ borrowed' = borrowed

\* start()
Start(s) ==
  /\ Turn(s) /\ ~cooling
  /\ \/ jobs[s].phase \in {"Queued", "Waiting"} /\ staged = jobs[s].rel
     \/ jobs[s].phase = "Checking" /\ chk[s] # "due"
  /\ \E d \in Admitted(s) :
       LET job == IF jobs[s].phase = "Checking" THEN jobs[s]
                  ELSE Transitioned(d.jobs[s], "Connecting", 0)
           spent == ~CanAttempt(job, 0)
       IN  \E e \in (IF d.disabled THEN {d}
                     ELSE IF spent THEN Checkpoint(d, s, Transitioned(job, "NeedsAction", 0))
                     ELSE Checkpoint(d, s, Attempted(job, 0))) :
             IF e.disabled \/ spent
             THEN /\ Store(e)
                  /\ UNCHANGED <<transportVars, active, ses, chk, cooling, ready, stageVars>>
             ELSE Connect(s, e)

-----------------------------------------------------------------------------
(* Time, and restarts of the anchor                                        *)

DeadlinePasses ==
  /\ active # 0 /\ ~ses.due
  /\ ses' = [ses EXCEPT !.due = TRUE]
  /\ UNCHANGED <<transportVars, jobVars, active, chk, cooling, ready, stageVars>>

SessionDeadlinePasses ==
  /\ active # 0 /\ ses.await # "Disconnected" /\ ~ses.late
  /\ ses' = [ses EXCEPT !.late = TRUE]
  /\ UNCHANGED <<transportVars, jobVars, active, chk, cooling, ready, stageVars>>

CooldownPasses ==
  /\ cooling
  /\ cooling' = FALSE
  /\ UNCHANGED <<transportVars, jobVars, active, ses, chk, ready, stageVars>>

ConfirmationDeadlinePasses(s) ==
  /\ chk[s] = "run"
  /\ chk' = [chk EXCEPT ![s] = "due"]
  /\ UNCHANGED <<transportVars, jobVars, active, ses, cooling, ready, stageVars>>

\* begin(): the jobs of the snapshot come back in the phases a restart allows
\* and are written at once; without that the updater stays off.
Recover(saved) ==
  LET q == [s \in Slots |-> IF nvs[s] = None THEN None ELSE Restored(nvs[s], 0)]
  IN  IF saved /\ ValidRestore(nvs)
      THEN /\ jobs' = q /\ nvs' = q
           /\ ready' = TRUE /\ disabled' = FALSE
           /\ chk' = [s \in Slots |->
                        IF s \in Used(q) /\ q[s].phase = "Checking" THEN "run" ELSE "off"]
      ELSE /\ jobs' = [s \in Slots |-> None] /\ nvs' \in {nvs, q}
           /\ ready' = FALSE /\ disabled' = TRUE
           /\ chk' = [s \in Slots |-> "off"]

\* The anchor loses power or restarts at any moment; the tags do not.
Restart(saved) ==
  /\ Recover(saved)
  /\ mailbox' = None /\ events' = <<>> /\ wk' = AtRest /\ fault' = FALSE
  /\ active' = 0 /\ ses' = NoSession /\ cooling' = FALSE
  /\ staged' = None /\ staging' = FALSE /\ borrowed' = FALSE /\ stalled' = 0
  /\ UNCHANGED <<inbox, dev>>

-----------------------------------------------------------------------------

ApiStep ==
  \/ \E tag \in Tags : QueueJob(tag)
  \/ \E s \in Used(jobs) : CancelJob(s) \/ RetryJob(s)
  \/ StageBegin \/ StageEnd

LoopStep ==
  \/ CloseDisabled \/ SessionOverdue \/ PollAgain
  \/ HandleEvent
  \/ DisconnectOverdue \/ RetryDisconnect
  \/ \E s \in Used(jobs) : ExpireCheck(s) \/ Defer(s) \/ Start(s)

ClockStep ==
  \/ DeadlinePasses \/ SessionDeadlinePasses \/ CooldownPasses
  \/ \E s \in Slots : ConfirmationDeadlinePasses(s)

Next ==
  \/ ApiStep
  \/ LoopStep
  \/ ClockStep
  \/ \E saved \in BOOLEAN : Restart(saved)
  \/ (WorkerStep \/ TagStep) /\ UNCHANGED ctlVars

Spec == Init /\ [][Next]_vars

-----------------------------------------------------------------------------
(* Properties                                                              *)

\* The durable live job that owns what a tag is doing with a release.
Owns(t, rel) ==
  \E s \in Used(nvs) : Live(nvs[s]) /\ nvs[s].trial /\ nvs[s].tag = t /\ nvs[s].rel = rel

\* A trial this anchor armed, requested or still has to request is known to
\* its snapshot, so that a restart or a failed session inspects the tag: no
\* tag is left on an unconfirmed image nobody will look at.
ArmedTracked ==
  \A t \in Tags :
    /\ dev[t].ours => Owns(t, IF dev[t].pending THEN dev[t].other ELSE dev[t].active)
    /\ inbox[t] # None /\ inbox[t].smp = "Trial" => Owns(t, inbox[t].rel)
    /\ mailbox # None /\ mailbox.smp = "Trial" => Owns(mailbox.tag, mailbox.rel)

\* While a session or a queued command reads the stage buffer, it holds
\* exactly the release of that session, and nobody replaces it.
StageStaysBorrowed ==
  /\ borrowed => active # 0 /\ ~staging /\ staged = jobs[Here].rel
  /\ mailbox # None /\ mailbox.smp = "Upload" => borrowed /\ staged = mailbox.rel

\* A session ends only when the worker is at rest: nothing of an old session
\* is left to reach the next one, and the worker only ever serves the tag of
\* the session that owns it.
SessionOwnsWorker ==
  /\ active = 0 => mailbox = None /\ wk = AtRest
  /\ active # 0 => active \in IdsOf(jobs)
  /\ wk.tag # None => wk.tag = jobs[Here].tag

\* What the controller goes on working with is what it saved: until a write
\* fails, snapshot and queue differ at most in a transfer offset.
SavedBeforeActing ==
  ~disabled => \A s \in Slots :
    \/ jobs[s] = nvs[s]
    \/ jobs[s] # None /\ nvs[s] # None /\ [jobs[s] EXCEPT !.ack = nvs[s].ack] = nvs[s]

\* The anchor can always restore what it has, in memory and in the snapshot:
\* one live job per tag, and never a trial in a phase that nobody inspects.
\* A queue that valid_restore() refuses can neither be saved (encode() asks it,
\* too) nor be restored by begin(): the updater would be stuck for good.
SnapshotRestorable == ValidRestore(jobs) /\ ValidRestore(nvs)

\* Success is only claimed for a tag that runs exactly the release, confirmed.
SuccessIsTrue ==
  [][\A s \in Used(nvs)' :
       nvs'[s].phase = "Successful" =>
         \/ s \in Used(nvs) /\ nvs[s].id = nvs'[s].id /\ nvs[s].phase = "Successful"
         \/ dev[nvs'[s].tag].active = nvs'[s].rel /\ dev[nvs'[s].tag].conf]_vars

\* Uncertainty is inspected, never replayed: once the snapshot says a trial may
\* be armed no upload and no second trial is sent for that job.
TrialNeverReplayed ==
  [][mailbox' \notin {mailbox, None} /\ mailbox'.fresh
                                       /\ mailbox'.smp \in {"Upload", "Trial"} =>
       ~Owns(mailbox'.tag, mailbox'.rel)]_vars

\* Connection attempts are a budget that only an operator renews: neither a
\* restart nor a failure gives a job more of them.
BudgetOnlyByOperator ==
  [][\A s \in Used(nvs) : nvs'[s] # None /\ nvs'[s].id = nvs[s].id
                          /\ nvs'[s].attempts < nvs[s].attempts =>
       nvs[s].phase \in {"NeedsRelease", "NeedsAction"}]_vars

\* The controller, its snapshot and the tags keep the updater's promise: what
\* the snapshot says of a request is the ledger, and the tags' slots are what
\* they run.
Outcome(job) ==
  [tag |-> job.tag, rel |-> job.rel,
   st |-> CASE job.phase = "Successful" -> "done"
            [] job.phase = "Failed"     -> "failed"
            [] job.phase = "Cancelled"  -> "cancelled"
            [] OTHER                    -> IF job.trial THEN "armed" ELSE "open"]

Ledger ==
  [i \in 1..IdMax |->
     IF i \in IdsOf(nvs) THEN Outcome(nvs[SlotOf(nvs, i)])
     ELSE [tag |-> None, rel |-> None,
           st |-> IF \E k \in IdsOf(nvs) : k > i THEN "gone" ELSE "unused"]]

RunsOn(f) ==
  [runs |-> f.active, sure |-> f.conf, back |-> IF f.conf THEN None ELSE f.other,
   trial |-> IF ~f.ours THEN None ELSE IF f.pending THEN f.other ELSE f.active,
   foreign |-> f.pending /\ ~f.ours]

Promise == INSTANCE UpdatePromise WITH
  ledger <- Ledger, image <- [t \in Tags |-> RunsOn(dev[t])]

KeepsPromise == Promise!Spec

-----------------------------------------------------------------------------
(* Progress                                                                *)

\* The main loop and the clocks go on; the loop gets its turn between two API
\* calls.  Nothing is assumed of the worker, the radio or the tags.
Fairness ==
  /\ SF_vars(LoopStep)
  /\ WF_vars(StageEnd)
  /\ WF_vars(DeadlinePasses) /\ WF_vars(SessionDeadlinePasses) /\ WF_vars(CooldownPasses)
  /\ \A s \in Slots : WF_vars(ConfirmationDeadlinePasses(s))

FairSpec == Spec /\ Fairness

\* A session ends, whatever the worker and the tag do; if the link cannot be
\* shown to be closed the updater is disabled and says so.
SessionEnds == active # 0 ~> active = 0 \/ disabled

Restarts == \E saved \in BOOLEAN : Restart(saved)

Settled(s) == jobs[s] = None \/ jobs[s].phase \in Terminal \union {"NeedsRelease", "NeedsAction"}

\* No job is forgotten half-way: unless the anchor keeps restarting or its
\* updater is off, every job reaches an outcome or asks for the operator.
JobsSettle ==
  <>[][~Restarts]_vars =>
    \A s \in Slots : ~Settled(s) ~> Settled(s) \/ disabled \/ fault

=============================================================================
