------------------------ MODULE UpdateController_proofs ------------------------
(***************************************************************************)
(* Proofs about UpdateController with its worker and tags, for any number  *)
(* of tags, releases, slots, ids, attempts and any depth of the event      *)
(* queue: types, what the snapshot holds, whose the worker and the stage   *)
(* buffer are, and that an uncertain trial is never replayed.              *)
(*                                                                         *)
(* The first part is about the anchor alone: what every handler does to    *)
(* queue, snapshot, session and worker.  The second adds the tags and ends *)
(* with the theorems, the last of them that UpdatePromise is implemented.  *)
(*                                                                         *)
(* Most handlers of a session do one of two things: end it, or submit a    *)
(* command and wait.  Both are stated once, with what they need of the     *)
(* queue, and each handler is shown to be one of them.                     *)
(***************************************************************************)
EXTENDS UpdateController, UpdateJob_proofs, SequenceTheorems

USE JobAssumption, NoneAssumption, EventAssumption, StallAssumption
    DEF JobAssumption, NoneAssumption, EventAssumption, StallAssumption

-----------------------------------------------------------------------------
(* The queue and its snapshot                                              *)

Queue == [Slots -> Job \union {None}]

Snapshot == [jobs : Queue, nvs : Queue, disabled : BOOLEAN]

\* What SavedBeforeActing says, of a snapshot inside a handler.
Saved(d) ==
  ~d.disabled => \A s \in Slots :
    \/ d.jobs[s] = d.nvs[s]
    \/ d.jobs[s] # None /\ d.nvs[s] # None
       /\ [d.jobs[s] EXCEPT !.ack = d.nvs[s].ack] = d.nvs[s]

Sound(d) == d \in Snapshot /\ ValidRestore(d.jobs) /\ ValidRestore(d.nvs) /\ Saved(d)

\* k is what the loop may make of job j; over are the outcomes it may get.
Keeps(j, k, over) ==
  \/ k = j
  \/ Follows(j, k) /\ j.attempts <= k.attempts /\ (Live(k) \/ k.phase \in over)

\* Handlers change one slot, once or twice, and write it or not; a disabled
\* controller writes nothing.
Leads(d, e, s, over) ==
  /\ e \in Snapshot /\ Saved(e)
  /\ d.disabled => e.disabled /\ e.nvs = d.nvs
  /\ \E k \in Job : Keeps(d.jobs[s], k, over) /\ e.jobs = [d.jobs EXCEPT ![s] = k]
  /\ \/ e.nvs = d.nvs
     \/ \E m \in Job : Keeps(d.jobs[s], m, over) /\ e.nvs = [d.jobs EXCEPT ![s] = m]

\* The same tags have jobs, for the same releases.
SameWork(q, r) ==
  /\ Used(r) = Used(q)
  /\ \A s \in Used(q) : r[s].id = q[s].id /\ r[s].tag = q[s].tag /\ r[s].rel = q[s].rel

\* A used slot of a sound snapshot holds a legal job.
LEMMA UsedSound ==
  ASSUME NEW d, Sound(d), NEW s \in Used(d.jobs)
  PROVE  s \in Slots /\ d.jobs[s] \in Job /\ d.jobs[s] # None /\ Legal(d.jobs[s])
BY UsedLegal DEF Sound, Snapshot, Queue

\* What one change may make of a job, two may.
LEMMA KeepsTwice ==
  ASSUME NEW j \in Job, NEW k \in Job, NEW m, NEW a, NEW b, NEW over,
         Keeps(j, k, a), Keeps(k, m, b), a \subseteq over, b \subseteq over
  PROVE  Keeps(j, m, over)
<1>1. CASE k = j
  BY <1>1 DEF Keeps
<1>2. CASE m = k
  BY <1>2 DEF Keeps
<1>3. CASE Follows(j, k) /\ Follows(k, m) /\ j.attempts <= k.attempts /\ k.attempts <= m.attempts
           /\ (Live(m) \/ m.phase \in b)
  <2>1. m \in Job
    BY <1>3 DEF Follows
  <2>2. j.attempts \in Nat /\ k.attempts \in Nat /\ m.attempts \in Nat
    BY <2>1 DEF Job
  <2>3. j.attempts <= m.attempts
    BY <1>3, <2>2
  <2>4. Follows(j, m)
    BY <1>3 DEF Follows
  <2>5. QED
    BY <1>3, <2>3, <2>4 DEF Keeps
<1>4. QED
  BY <1>1, <1>2, <1>3 DEF Keeps

\* A job that is kept is legal, about the same work, and not back to life.
LEMMA KeepsLegal ==
  ASSUME NEW j \in Job, Legal(j), NEW k, NEW over, Keeps(j, k, over)
  PROVE  /\ k \in Job /\ k # None /\ Legal(k)
         /\ k.id = j.id /\ k.tag = j.tag /\ k.rel = j.rel
         /\ j.trial => k.trial
         /\ Live(k) => Live(j)
         /\ k.phase \in over \/ (Live(j) => Live(k))
         /\ j.attempts <= k.attempts
<1>1. j.attempts \in Nat
  BY DEF Job
<1>2. QED
  BY <1>1 DEF Keeps, Follows

\* Nothing done is no change.
LEMMA LeadsNowhere ==
  ASSUME NEW d, Sound(d), NEW s \in Used(d.jobs), NEW over
  PROVE  Leads(d, d, s, over)
<1>1. s \in Slots /\ d.jobs[s] \in Job
  BY UsedSound
<1>2. d.jobs = [d.jobs EXCEPT ![s] = d.jobs[s]]
  BY DEF Sound, Snapshot, Queue
<1>3. QED
  BY <1>1, <1>2 DEF Leads, Sound, Keeps

\* A queue with one job changed has the same work.
LEMMA KeptWork ==
  ASSUME NEW q \in Queue, ValidRestore(q), NEW s \in Used(q), NEW k, NEW over, Keeps(q[s], k, over)
  PROVE  LET n == [q EXCEPT ![s] = k]
         IN  n \in Queue /\ ValidRestore(n) /\ SameWork(q, n) /\ n[s] = k
             /\ \A o \in Slots \ {s} : n[o] = q[o]
<1> DEFINE n == [q EXCEPT ![s] = k]
<1>1. s \in Slots /\ q[s] \in Job /\ q[s] # None /\ Legal(q[s])
  BY UsedLegal DEF Queue
<1>2. /\ k \in Job /\ k # None /\ Legal(k)
      /\ k.id = q[s].id /\ k.tag = q[s].tag /\ k.rel = q[s].rel /\ (Live(k) => Live(q[s]))
  BY <1>1, KeepsLegal
<1>3. \A o \in Used(q) \ {s} : q[o].id # k.id /\ (Live(k) /\ Live(q[o]) => q[o].tag # k.tag)
  BY <1>2 DEF ValidRestore
<1>4. /\ n \in [Slots -> Job \union {None}] /\ ValidRestore(n)
      /\ Used(n) = Used(q) \union {s} /\ n[s] = k /\ \A o \in Slots \ {s} : n[o] = q[o]
  BY <1>1, <1>2, <1>3, SlotReplaced DEF Queue
<1> HIDE DEF n
<1>5. SameWork(q, n)
  BY <1>2, <1>4 DEF SameWork, Used
<1>6. QED
  BY <1>4, <1>5 DEF n, Queue

\* So a handler leaves a sound snapshot, of the same work.
LEMMA LeadsSound ==
  ASSUME NEW d, Sound(d), NEW s \in Used(d.jobs), NEW e, NEW over, Leads(d, e, s, over)
  PROVE  /\ Sound(e) /\ SameWork(d.jobs, e.jobs) /\ s \in Used(e.jobs)
         /\ Keeps(d.jobs[s], e.jobs[s], over)
         /\ \A o \in Slots \ {s} : e.jobs[o] = d.jobs[o]
<1>0. d.jobs \in Queue /\ ValidRestore(d.jobs)
  BY DEF Sound, Snapshot
<1>1. PICK k \in Job : Keeps(d.jobs[s], k, over) /\ e.jobs = [d.jobs EXCEPT ![s] = k]
  BY DEF Leads
<1>2. /\ ValidRestore(e.jobs) /\ SameWork(d.jobs, e.jobs) /\ e.jobs[s] = k
      /\ \A o \in Slots \ {s} : e.jobs[o] = d.jobs[o]
  BY <1>0, <1>1, KeptWork
<1>3. ValidRestore(e.nvs)
  <2>1. CASE e.nvs = d.nvs
    BY <2>1 DEF Sound
  <2>2. ASSUME NEW m \in Job, Keeps(d.jobs[s], m, over), e.nvs = [d.jobs EXCEPT ![s] = m]
        PROVE  ValidRestore(e.nvs)
    <3>1. ValidRestore([d.jobs EXCEPT ![s] = m])
      BY <1>0, <2>2, KeptWork
    <3>2. QED
      BY <2>2, <3>1
  <2>3. QED
    BY <2>1, <2>2 DEF Leads
<1>4. QED
  BY <1>1, <1>2, <1>3 DEF Sound, Leads, SameWork

\* Two changes of a slot are one.
LEMMA LeadsTwice ==
  ASSUME NEW d, Sound(d), NEW s \in Used(d.jobs), NEW e, NEW f, NEW a, NEW b, NEW over,
         Leads(d, e, s, a), Leads(e, f, s, b), a \subseteq over, b \subseteq over
  PROVE  Leads(d, f, s, over)
<1>0. s \in Slots /\ d.jobs[s] \in Job /\ Legal(d.jobs[s]) /\ d.jobs \in Queue
  BY UsedSound DEF Sound, Snapshot
<1>1. PICK k \in Job : Keeps(d.jobs[s], k, a) /\ e.jobs = [d.jobs EXCEPT ![s] = k]
  BY DEF Leads
<1>2. e.jobs[s] = k
  BY <1>0, <1>1 DEF Queue
<1>3. ASSUME NEW m, Keeps(k, m, b)
      PROVE  /\ Keeps(d.jobs[s], m, over)
             /\ [e.jobs EXCEPT ![s] = m] = [d.jobs EXCEPT ![s] = m]
  BY <1>0, <1>1, <1>3, KeepsTwice DEF Queue
<1>4. f \in Snapshot /\ Saved(f) /\ (d.disabled => f.disabled /\ f.nvs = d.nvs)
  BY DEF Leads
<1>5. \E m \in Job : Keeps(d.jobs[s], m, over) /\ f.jobs = [d.jobs EXCEPT ![s] = m]
  BY <1>2, <1>3 DEF Leads
<1>6. \/ f.nvs = d.nvs
      \/ \E m \in Job : Keeps(d.jobs[s], m, over) /\ f.nvs = [d.jobs EXCEPT ![s] = m]
  <2>1. CASE \E m \in Job : Keeps(e.jobs[s], m, b) /\ f.nvs = [e.jobs EXCEPT ![s] = m]
    BY <1>2, <1>3, <2>1
  <2>2. CASE f.nvs = e.nvs /\ e.nvs = d.nvs
    BY <2>2
  <2>3. CASE f.nvs = e.nvs /\ \E m \in Job : Keeps(d.jobs[s], m, a) /\ e.nvs = [d.jobs EXCEPT ![s] = m]
    BY <2>3 DEF Keeps
  <2>4. QED
    BY <2>1, <2>2, <2>3 DEF Leads
<1>7. QED
  BY <1>4, <1>5, <1>6 DEF Leads

\* checkpoint() of a job that is kept, however the write ends.
LEMMA CheckpointLeads ==
  ASSUME NEW d, Sound(d), NEW s \in Used(d.jobs), NEW k \in Job, NEW over,
         Keeps(d.jobs[s], k, over), NEW e \in Checkpoint(d, s, k)
  PROVE  Leads(d, e, s, over) /\ e.jobs[s] = k
<1>1. s \in Slots /\ d \in Snapshot
  BY UsedSound DEF Sound
<1> DEFINE q == [d.jobs EXCEPT ![s] = k]
<1>2. q \in Queue /\ q[s] = k
  BY <1>1 DEF Snapshot, Queue
<1>3. CASE d.disabled
  <2>1. e = [d EXCEPT !.jobs = q]
    BY <1>3 DEF Checkpoint
  <2> HIDE DEF q
  <2>2. e \in Snapshot /\ e.jobs = q /\ e.nvs = d.nvs /\ e.disabled = d.disabled
    BY <1>1, <1>2, <2>1 DEF Snapshot
  <2>3. QED
    BY <1>2, <1>3, <2>2 DEF Leads, Saved, q
<1>4. CASE ~d.disabled
  <2>1. \/ e = [jobs |-> q, nvs |-> q, disabled |-> FALSE]
        \/ \E n \in {d.nvs, q} : e = [jobs |-> q, nvs |-> n, disabled |-> TRUE]
    BY <1>4 DEF Checkpoint
  <2> HIDE DEF q
  <2>2. /\ e \in Snapshot /\ e.jobs = q /\ e.nvs \in {d.nvs, q}
        /\ ~e.disabled => e.nvs = q
    <3>0. d.nvs \in Queue
      BY <1>1 DEF Snapshot
    <3>1. CASE e = [jobs |-> q, nvs |-> q, disabled |-> FALSE]
      BY <1>2, <3>1 DEF Snapshot
    <3>2. ASSUME NEW n \in {d.nvs, q}, e = [jobs |-> q, nvs |-> n, disabled |-> TRUE]
          PROVE  e \in Snapshot /\ e.jobs = q /\ e.nvs \in {d.nvs, q} /\ e.disabled
      <4>1. n \in Queue
        BY <1>2, <3>0, <3>2
      <4>2. QED
        BY <1>2, <3>2, <4>1 DEF Snapshot
    <3>3. QED
      BY <2>1, <3>1, <3>2
  <2>3. QED
    BY <1>2, <1>4, <2>2 DEF Leads, Saved, q
<1>5. QED
  BY <1>1, <1>3, <1>4 DEF Snapshot

\* transition() along an edge of the table.
LEMMA MovedLeads ==
  ASSUME NEW d, Sound(d), NEW s \in Used(d.jobs), NEW phase \in Phases, NEW over,
         Live(d.jobs[s]), AllowedEdge(d.jobs[s].phase, phase),
         phase = "Cancelled" => ~d.jobs[s].trial,
         phase \notin Terminal \/ phase \in over,
         NEW e \in Moved(d, s, phase)
  PROVE  Leads(d, e, s, over) /\ e.jobs[s].phase = phase
<1> DEFINE j == d.jobs[s] k == Transitioned(j, phase, 0)
<1>1. j \in Job /\ Legal(j)
  BY UsedSound
<1>2. Follows(j, k) /\ k.phase = phase /\ k.attempts = j.attempts
  BY <1>1, TransitionFollows
<1>3. Keeps(j, k, over) /\ k \in Job
  <2>1. j.attempts \in Nat
    BY <1>1 DEF Job
  <2> HIDE DEF k
  <2>2. QED
    BY <1>2, <2>1 DEF Keeps, Follows, Live
<1>4. e \in Checkpoint(d, s, k)
  BY DEF Moved
<1>5. QED
  BY <1>2, <1>3, <1>4, CheckpointLeads

\* prepare_check()
LEMMA PreparedLeads ==
  ASSUME NEW d, Sound(d), NEW s \in Used(d.jobs), NEW over, NEW e \in Prepared(d, s)
  PROVE  Leads(d, e, s, over)
<1>1. CASE d.jobs[s].phase # "Checking" /\ CanTransition(d.jobs[s], "Checking", 0)
  BY <1>1, MovedLeads DEF Prepared, CanTransition, Phases, Terminal
<1>2. CASE ~(d.jobs[s].phase # "Checking" /\ CanTransition(d.jobs[s], "Checking", 0))
  BY <1>2, LeadsNowhere DEF Prepared
<1>3. QED
  BY <1>1, <1>2

\* stop()
LEMMA StoppedLeads ==
  ASSUME NEW d, Sound(d), NEW s \in Used(d.jobs), NEW phase \in Phases, NEW over,
         phase # "Cancelled", phase \notin Terminal \/ phase \in over, NEW e \in Stopped(d, s, phase)
  PROVE  Leads(d, e, s, over)
<1> DEFINE j == d.jobs[s]
<1>0. d \in Snapshot /\ s \in Slots /\ j \in Job
  BY UsedSound DEF Sound
<1>1. CASE d.disabled \/ ~Live(j)
  BY <1>1, LeadsNowhere DEF Stopped
<1>2. CASE ~d.disabled /\ Live(j) /\ j.phase = phase
  <2>1. e \in Checkpoint(d, s, j) /\ Keeps(j, j, over)
    BY <1>2 DEF Stopped, Keeps
  <2>2. QED
    BY <1>0, <2>1, CheckpointLeads
<1>3. CASE ~d.disabled /\ Live(j) /\ j.phase # phase /\ CanTransition(j, phase, 0)
  <2>1. e \in Moved(d, s, phase)
    BY <1>3 DEF Stopped
  <2>2. QED
    BY <1>3, <2>1, MovedLeads DEF CanTransition
<1>4. CASE ~d.disabled /\ Live(j) /\ j.phase # phase /\ ~CanTransition(j, phase, 0)
  <2>1. e = [d EXCEPT !.disabled = TRUE]
    BY <1>4 DEF Stopped
  <2>2. e \in Snapshot /\ e.jobs = d.jobs /\ e.nvs = d.nvs /\ e.disabled
    BY <1>0, <2>1 DEF Snapshot
  <2>3. QED
    <3>1. Leads(d, d, s, over)
      BY LeadsNowhere
    <3>2. QED
      BY <1>4, <2>2, <3>1 DEF Leads, Saved
<1>5. QED
  BY <1>1, <1>2, <1>3, <1>4

\* failed(): wherever the job is left, it is not over.
LEMMA FailedLeads ==
  ASSUME NEW d, Sound(d), NEW s \in Used(d.jobs), NEW retryable \in BOOLEAN,
         NEW e \in FailedDb(d, s, retryable), NEW over
  PROVE  Leads(d, e, s, over)
<1> DEFINE next == PhaseAfterFailure(d.jobs[s], retryable)
<1>1. next \in {"NeedsAction", "Checking", "Waiting"}
  BY DEF PhaseAfterFailure
<1>2. next \in Phases /\ next # "Cancelled" /\ next \notin Terminal
  BY <1>1 DEF Phases, Terminal
<1>3. CASE next = "Checking"
  <2>1. PICK p \in Prepared(d, s) : e \in Stopped(p, s, next)
    BY <1>3 DEF FailedDb
  <2>2. Leads(d, p, s, {})
    BY PreparedLeads
  <2>3. Sound(p) /\ s \in Used(p.jobs)
    BY <2>2, LeadsSound
  <2> HIDE DEF next
  <2>4. Leads(p, e, s, {})
    BY <1>2, <2>1, <2>3, StoppedLeads
  <2>5. QED
    BY <2>2, <2>4, LeadsTwice
<1>4. CASE next # "Checking"
  <2>1. e \in Stopped(d, s, next)
    BY <1>4 DEF FailedDb
  <2> HIDE DEF next
  <2>2. QED
    BY <1>2, <2>1, StoppedLeads
<1>5. QED
  BY <1>3, <1>4

-----------------------------------------------------------------------------
(* The inductive invariant                                                 *)

Underway == {"Connecting", "Uploading", "Rebooting", "Checking"}

Open == active # 0 /\ ses.await # "Disconnected"

TheTag == jobs[Here].tag

TheRelease == jobs[Here].rel

\* The job of an open session is under way, so that the API cannot take its
\* slot; without a session nothing is left of one.
SessionHeld ==
  /\ active # 0 => active \in IdsOf(jobs)
  /\ active = 0 => mailbox = None /\ wk = AtRest /\ ses = NoSession /\ ~borrowed
  /\ Open => jobs[Here].phase \in Underway

\* At most one thing is fresh: a command that waits, the one being served or
\* one event.  So the event that ends a session finds the worker at rest.
MailHeld ==
  /\ mailbox # None =>
       /\ mailbox.tag = TheTag /\ mailbox.rel = TheRelease
       /\ ~wk.fresh /\ \A i \in 1..Len(events) : events[i] = StaleEvent
  /\ wk.tag # None => wk.tag = TheTag
  /\ wk.step = "Replied" => wk.reply \in Reply
  /\ \A i \in 1..Len(events) :
       /\ events[i].kind = "Disconnected" => wk = AtRest
       /\ events[i].kind = "Reply" => events[i].reply \in Reply

IInv ==
  /\ TypeOK
  /\ ValidRestore(jobs) /\ ValidRestore(nvs) /\ SavedBeforeActing
  /\ SessionHeld /\ MailHeld /\ StageStaysBorrowed

-----------------------------------------------------------------------------
(* Sequences of events                                                     *)

EventQueue == {q \in Seq(Event) : Len(q) <= EventMax}

\* What submit() leaves of the events is stale, in as many places.
LEMMA AgedQueue ==
  ASSUME NEW q \in EventQueue
  PROVE  /\ AgedEvents(q) \in EventQueue
         /\ \A i \in 1..Len(AgedEvents(q)) : AgedEvents(q)[i] = StaleEvent
<1>1. StaleEvent \in Event
  BY DEF StaleEvent, Event
<1>2. DOMAIN q = 1..Len(q) /\ Len(q) \in Nat /\ Len(q) <= EventMax
  BY LenProperties DEF EventQueue
<1>3. AgedEvents(q) = [i \in 1..Len(q) |-> StaleEvent]
  BY <1>2 DEF AgedEvents
<1>4. AgedEvents(q) \in Seq(Event)
  BY <1>1, <1>2, <1>3, IsASeq
<1>5. Len(AgedEvents(q)) = Len(q)
  BY <1>2, <1>3, <1>4, LenProperties
<1>6. QED
  BY <1>2, <1>3, <1>4, <1>5 DEF EventQueue

\* The event handled is the first one, and the others move up.
LEMMA RestQueue ==
  ASSUME NEW q \in EventQueue, q # <<>>
  PROVE  /\ Head(q) \in Event /\ Head(q) = q[1] /\ 1 \in 1..Len(q)
         /\ Tail(q) \in EventQueue
         /\ \A i \in 1..Len(Tail(q)) : i + 1 \in 1..Len(q) /\ Tail(q)[i] = q[i + 1]
<1>1. q \in Seq(Event) /\ Len(q) <= EventMax /\ Len(q) \in Nat
  BY LenProperties DEF EventQueue
<1>2. Len(q) # 0
  BY <1>1, EmptySeq
<1>3. /\ Head(q) = q[1] /\ Tail(q) \in Seq(Event) /\ Len(Tail(q)) = Len(q) - 1
      /\ \A i \in 1..Len(Tail(q)) : Tail(q)[i] = q[i + 1]
  BY <1>1, HeadTailProperties
<1>4. q[1] \in Event
  BY <1>1, <1>2, ElementOfSeq
<1>5. QED
  BY <1>1, <1>2, <1>3, <1>4 DEF EventQueue

\* An event is added at the end.
LEMMA AddedQueue ==
  ASSUME NEW q \in EventQueue, Len(q) < EventMax, NEW e \in Event
  PROVE  /\ Append(q, e) \in EventQueue /\ Len(Append(q, e)) = Len(q) + 1
         /\ Append(q, e)[Len(q) + 1] = e
         /\ \A i \in 1..Len(q) : Append(q, e)[i] = q[i]
<1>1. q \in Seq(Event) /\ Len(q) \in Nat
  BY LenProperties DEF EventQueue
<1>2. QED
  BY <1>1, AppendProperties DEF EventQueue

\* Of the types, what the lemmas need most.
LEMMA Typed ==
  ASSUME TypeOK
  PROVE  /\ events \in EventQueue /\ mailbox \in Command \union {None} /\ wk \in Worker
         /\ fault \in BOOLEAN /\ inbox \in [Tags -> Request \union {None}] /\ dev \in [Tags -> Flash]
         /\ jobs \in Queue /\ nvs \in Queue /\ Db \in Snapshot
         /\ active \in 0..IdMax /\ ses \in Session /\ chk \in [Slots -> Deadline]
         /\ {cooling, disabled, ready, staging, borrowed} \subseteq BOOLEAN
         /\ staged \in Releases \union {None} /\ stalled \in 0..(StallMax - 1)
BY DEF TypeOK, TransportTypeOK, EventQueue, Queue, Db, Snapshot

-----------------------------------------------------------------------------
(* The session's slot                                                      *)

\* The snapshot of a reachable state is sound.
LEMMA DbSound == ASSUME IInv PROVE Sound(Db)
BY Typed DEF IInv, Sound, Db, Saved, SavedBeforeActing

\* A used slot holds a legal job, with an id above zero.
LEMMA UsedHere ==
  ASSUME IInv, NEW s \in Used(jobs)
  PROVE  s \in Slots /\ jobs[s] \in Job /\ jobs[s] # None /\ Legal(jobs[s]) /\ jobs[s].id # 0
<1>1. s \in Used(Db.jobs) /\ Db.jobs = jobs
  BY DEF Db
<1>2. s \in Slots /\ jobs[s] \in Job /\ jobs[s] # None /\ Legal(jobs[s])
  BY <1>1, DbSound, UsedSound
<1>3. QED
  BY <1>2 DEF Job

\* A session belongs to the job of one slot.
LEMMA HereUsed ==
  ASSUME IInv, active # 0
  PROVE  Here \in Used(jobs) /\ jobs[Here].id = active
<1>1. PICK s \in Used(jobs) : jobs[s].id = active
  BY DEF IInv, SessionHeld, IdsOf
<1>2. Here = s
  BY <1>1, SlotOfId DEF IInv, Here
<1>3. QED
  BY <1>1, <1>2

\* transition() to a phase that is not an outcome.
LEMMA MovedOn ==
  ASSUME NEW d, Sound(d), NEW s \in Used(d.jobs), NEW phase \in Phases, phase \notin Terminal,
         Live(d.jobs[s]), AllowedEdge(d.jobs[s].phase, phase), NEW e \in Moved(d, s, phase)
  PROVE  Leads(d, e, s, {}) /\ e.jobs[s].phase = phase
<1>3. phase = "Cancelled" => ~d.jobs[s].trial
  BY DEF Terminal
<1>4. Leads(d, e, s, {})
  BY <1>3, MovedLeads
<1>5. e.jobs[s].phase = phase
  BY <1>3, MovedLeads
<1>6. QED
  BY <1>4, <1>5

\* So for a job of the queue.
LEMMA MovedHere ==
  ASSUME IInv, NEW s \in Used(jobs), NEW phase \in Phases \ Terminal, Live(jobs[s]),
         AllowedEdge(jobs[s].phase, phase), NEW e \in Moved(Db, s, phase)
  PROVE  Leads(Db, e, s, {}) /\ e.jobs[s].phase = phase
<1>1. Db.jobs = jobs /\ Sound(Db)
  BY DbSound DEF Db
<1>2. phase \in Phases /\ phase \notin Terminal
  OBVIOUS
<1>3. QED
  BY <1>1, <1>2, MovedOn

\* The slot of the session's job is the session's slot.
LEMMA SlotIsHere ==
  ASSUME IInv, NEW s \in Used(jobs), jobs[s].id = active
  PROVE  Here = s /\ active # 0
BY SlotOfId, UsedHere DEF IInv, Here

\* After a change of slot s by a handler, the queue is as sound, and whoever
\* had a session keeps it.
LEMMA WorkStays ==
  ASSUME IInv, NEW s \in Used(jobs), NEW over, Leads(Db, Db', s, over)
  PROVE  /\ jobs' \in Queue /\ nvs' \in Queue /\ disabled' \in BOOLEAN
         /\ ValidRestore(jobs)' /\ ValidRestore(nvs)' /\ SavedBeforeActing'
         /\ SameWork(jobs, jobs') /\ IdsOf(jobs') = IdsOf(jobs)
         /\ Keeps(jobs[s], jobs'[s], over)
         /\ \A o \in Slots \ {s} : jobs'[o] = jobs[o]
         /\ \A o \in Used(jobs) : active' = jobs[o].id =>
              /\ Here' = o /\ TheTag' = jobs[o].tag /\ TheRelease' = jobs[o].rel
              /\ active' # 0 /\ active' \in IdsOf(jobs')
<1>1. s \in Used(Db.jobs) /\ Db.jobs = jobs /\ Db'.jobs = jobs' /\ Db'.nvs = nvs' /\ Db'.disabled = disabled'
  BY DEF Db
<1>2. /\ Sound(Db') /\ SameWork(jobs, jobs') /\ Keeps(jobs[s], jobs'[s], over)
      /\ \A o \in Slots \ {s} : jobs'[o] = jobs[o]
  BY <1>1, DbSound, LeadsSound
<1>3. /\ jobs' \in Queue /\ nvs' \in Queue /\ disabled' \in BOOLEAN
      /\ ValidRestore(jobs)' /\ ValidRestore(nvs)' /\ SavedBeforeActing'
  BY <1>1, <1>2 DEF Sound, Snapshot, Saved, SavedBeforeActing
<1>4. IdsOf(jobs') = IdsOf(jobs)
  BY <1>2 DEF SameWork, IdsOf
<1>5. ASSUME NEW o \in Used(jobs), active' = jobs[o].id
      PROVE  /\ Here' = o /\ TheTag' = jobs[o].tag /\ TheRelease' = jobs[o].rel
             /\ active' # 0 /\ active' \in IdsOf(jobs')
  <2>1. o \in Used(jobs') /\ jobs'[o].id = active'
    BY <1>2, <1>5 DEF SameWork
  <2>2. Here' = o
    BY <1>3, <2>1, SlotOfId DEF Here
  <2>3. active' # 0
    BY <1>5, UsedHere
  <2>4. QED
    BY <1>2, <2>1, <2>2, <2>3 DEF TheTag, TheRelease, SameWork, IdsOf
<1>6. QED
  BY <1>2, <1>3, <1>4, <1>5

\* Without such a change everybody keeps it, too.
LEMMA HereStays ==
  ASSUME IInv, UNCHANGED <<jobs, active>>
  PROVE  Here' = Here /\ TheTag' = TheTag /\ TheRelease' = TheRelease /\ IdsOf(jobs)' = IdsOf(jobs)
BY DEF Here, TheTag, TheRelease, IdsOf, SlotOf, Used

-----------------------------------------------------------------------------
(* Submitting a command                                                    *)

\* submit(): the mailbox holds the command, or what was in it, which is now
\* stale as everything else is.
LEMMA SubmitLeaves ==
  ASSUME IInv, NEW evs \in EventQueue, NEW accepted \in BOOLEAN, NEW cmd \in Command,
         Submit(evs, accepted, cmd)
  PROVE  /\ mailbox' \in Command \union {None} /\ events' \in EventQueue /\ wk' \in Worker
         /\ UNCHANGED <<fault, inbox, dev>>
         /\ ~wk'.fresh /\ wk'.tag = wk.tag /\ wk'.step = wk.step /\ wk'.reply = wk.reply
         /\ (wk = AtRest => wk' = AtRest)
         /\ \A i \in 1..Len(events') : events'[i] = StaleEvent
         /\ accepted => mailbox = None /\ mailbox' = cmd
         /\ ~accepted /\ mailbox' # None =>
              /\ mailbox # None /\ mailbox'.tag = mailbox.tag /\ mailbox'.rel = mailbox.rel
              /\ mailbox'.smp = mailbox.smp /\ mailbox'.kind = mailbox.kind /\ ~mailbox'.fresh
              /\ mailbox'.off = mailbox.off
<1>0. wk \in Worker /\ mailbox \in Command \union {None}
  BY Typed DEF IInv
<1>1. wk' = [wk EXCEPT !.fresh = FALSE]
  BY DEF Submit
<1>2. wk' \in Worker /\ ~wk'.fresh /\ wk'.tag = wk.tag /\ wk'.step = wk.step /\ wk'.reply = wk.reply
  BY <1>0, <1>1 DEF Worker
<1>3. wk = AtRest => wk' = AtRest
  <2>1. AtRest.fresh = FALSE /\ AtRest \in Worker
    BY DEF AtRest, Worker, Steps
  <2>2. [AtRest EXCEPT !.fresh = AtRest.fresh] = AtRest
    BY <2>1 DEF Worker
  <2>3. QED
    BY <1>1, <2>1, <2>2, Zenon
<1>4. events' \in EventQueue /\ \A i \in 1..Len(events') : events'[i] = StaleEvent
  BY AgedQueue DEF Submit
<1>5. CASE accepted
  BY <1>2, <1>3, <1>4, <1>5 DEF Submit
<1>6. CASE ~accepted
  <2>1. mailbox' = Aged(mailbox)
    BY <1>6 DEF Submit
  <2>2. CASE mailbox = None
    BY <1>2, <1>3, <1>4, <1>6, <2>1, <2>2 DEF Aged, Submit
  <2>3. CASE mailbox # None
    <3>1. mailbox \in Command /\ mailbox' = [mailbox EXCEPT !.fresh = FALSE]
      BY <1>0, <2>1, <2>3 DEF Aged
    <3>2. /\ mailbox' \in Command /\ mailbox'.tag = mailbox.tag /\ mailbox'.rel = mailbox.rel
          /\ mailbox'.smp = mailbox.smp /\ mailbox'.kind = mailbox.kind /\ ~mailbox'.fresh
          /\ mailbox'.off = mailbox.off
      BY <3>1 DEF Command
    <3>3. QED
      BY <1>2, <1>3, <1>4, <1>6, <2>3, <3>2 DEF Submit
  <2>4. QED
    BY <2>2, <2>3
<1>7. QED
  BY <1>5, <1>6

-----------------------------------------------------------------------------
(* A session ends, or asks and waits                                       *)

\* What a session may do to the stage buffer: take hold of it when it holds
\* the release of the job in slot s.
Borrows(s) ==
  /\ borrowed' \in BOOLEAN /\ stalled' \in 0..(StallMax - 1)
  /\ borrowed => borrowed'
  /\ borrowed' => borrowed \/ (staged = jobs[s].rel /\ ~staging)

\* close(), after the job in slot s was left where its session got to.
Ends(s, evs, over) ==
  /\ Leads(Db, Db', s, over)
  /\ active' = jobs[s].id
  /\ \E accepted \in BOOLEAN, cmd \in Command :
       /\ Submit(evs, accepted, cmd)
       /\ cmd.kind = "Disconnect" /\ cmd.smp = "TagStatus"
       /\ cmd.tag = jobs[s].tag /\ cmd.rel = jobs[s].rel
       /\ ses' = [NoSession EXCEPT !.await = "Disconnected", !.sub = accepted]
  /\ chk' \in [Slots -> Deadline] /\ cooling' \in BOOLEAN
  /\ UNCHANGED <<ready, staged, staging>>

\* A command of the session of the job in slot s is submitted.
Asks(s, evs, kind, smp) ==
  /\ Leads(Db, Db', s, {}) /\ ~disabled' /\ jobs'[s].phase \in Underway
  /\ active' = jobs[s].id
  /\ \E cmd \in Command :
       /\ Submit(evs, TRUE, cmd)
       /\ cmd.kind = kind /\ cmd.smp = smp /\ cmd.tag = jobs[s].tag /\ cmd.rel = jobs[s].rel
       /\ smp = "Upload" => cmd.off < ImageSize
  /\ ses' \in Session /\ ses'.await \in {"Connected", "Secured", "Reply"}
  /\ smp = "Upload" => borrowed'
  /\ chk' \in [Slots -> Deadline] /\ cooling' \in BOOLEAN
  /\ UNCHANGED <<ready, staged, staging>>

\* What both have in common of the invariant.
LEMMA SubmittedKeeps ==
  ASSUME IInv, NEW s \in Used(jobs), active \in {0, jobs[s].id}, NEW over,
         Leads(Db, Db', s, over), active' = jobs[s].id,
         NEW evs \in EventQueue, NEW accepted \in BOOLEAN, NEW cmd \in Command,
         Submit(evs, accepted, cmd), cmd.tag = jobs[s].tag, cmd.rel = jobs[s].rel,
         ses' \in Session, chk' \in [Slots -> Deadline], cooling' \in BOOLEAN,
         UNCHANGED <<ready, staged, staging>>, Borrows(s),
         cmd.smp = "Upload" => borrowed',
         ses'.await = "Disconnected" \/ jobs'[s].phase \in Underway
  PROVE  IInv'
<1>1. /\ jobs' \in Queue /\ nvs' \in Queue /\ disabled' \in BOOLEAN
      /\ ValidRestore(jobs)' /\ ValidRestore(nvs)' /\ SavedBeforeActing'
      /\ Here' = s /\ TheTag' = jobs[s].tag /\ TheRelease' = jobs[s].rel
      /\ active' # 0 /\ active' \in IdsOf(jobs')
  BY WorkStays
<1>2. /\ mailbox' \in Command \union {None} /\ events' \in EventQueue /\ wk' \in Worker
      /\ UNCHANGED <<fault, inbox, dev>>
      /\ ~wk'.fresh /\ wk'.tag = wk.tag /\ wk'.step = wk.step /\ wk'.reply = wk.reply
      /\ \A i \in 1..Len(events') : events'[i] = StaleEvent
      /\ accepted => mailbox' = cmd
      /\ ~accepted /\ mailbox' # None =>
           /\ mailbox # None /\ mailbox'.tag = mailbox.tag /\ mailbox'.rel = mailbox.rel
           /\ mailbox'.smp = mailbox.smp
  BY SubmitLeaves
<1>3. active' \in 0..IdMax
  BY UsedHere DEF Job
<1>4. TypeOK'
  BY <1>1, <1>2, <1>3, Typed DEF IInv, TypeOK, TransportTypeOK, EventQueue, Queue, Borrows
<1>5. \/ active = 0 /\ mailbox = None /\ wk = AtRest /\ ~borrowed
      \/ active = jobs[s].id /\ Here = s
  BY SlotIsHere DEF IInv, SessionHeld
<1>6. mailbox' # None => mailbox'.tag = jobs[s].tag /\ mailbox'.rel = jobs[s].rel
  BY <1>2, <1>5 DEF IInv, MailHeld, TheTag, TheRelease
<1>7. wk'.tag # None => wk'.tag = jobs[s].tag
  BY <1>2, <1>5 DEF IInv, MailHeld, TheTag, AtRest
<1>8. MailHeld'
  <2>1. \A i \in 1..Len(events') : events'[i].kind \notin {"Disconnected", "Reply"}
    BY <1>2 DEF StaleEvent
  <2>2. wk'.step = "Replied" => wk'.reply \in Reply
    BY <1>2 DEF IInv, MailHeld
  <2>3. QED
    BY <1>1, <1>2, <1>6, <1>7, <2>1, <2>2 DEF MailHeld
<1>9. SessionHeld'
  BY <1>1 DEF SessionHeld, Open
<1>10. StageStaysBorrowed'
  <2>1. borrowed' => ~staging /\ staged = jobs[s].rel
    BY <1>5 DEF Borrows, IInv, StageStaysBorrowed
  <2>2. mailbox' # None /\ mailbox'.smp = "Upload" => borrowed'
    BY <1>2 DEF Borrows, IInv, StageStaysBorrowed
  <2>3. QED
    BY <1>1, <1>6, <2>1, <2>2 DEF StageStaysBorrowed, TheRelease
<1>11. QED
  BY <1>1, <1>4, <1>8, <1>9, <1>10 DEF IInv

\* A session that ends keeps the invariant,
LEMMA EndsKeeps ==
  ASSUME IInv, NEW s \in Used(jobs), active \in {0, jobs[s].id}, NEW evs \in EventQueue,
         NEW over, Ends(s, evs, over), Borrows(s)
  PROVE  IInv'
<1>1. PICK accepted \in BOOLEAN, cmd \in Command :
        /\ Submit(evs, accepted, cmd)
        /\ cmd.kind = "Disconnect" /\ cmd.smp = "TagStatus"
        /\ cmd.tag = jobs[s].tag /\ cmd.rel = jobs[s].rel
        /\ ses' = [NoSession EXCEPT !.await = "Disconnected", !.sub = accepted]
  BY DEF Ends
<1>2. ses' \in Session /\ ses'.await = "Disconnected"
  BY <1>1 DEF NoSession, Session, Smps
<1>3. /\ Leads(Db, Db', s, over) /\ active' = jobs[s].id
      /\ chk' \in [Slots -> Deadline] /\ cooling' \in BOOLEAN
      /\ UNCHANGED <<ready, staged, staging>>
  BY DEF Ends
<1>4. QED
  BY <1>1, <1>2, <1>3, SubmittedKeeps

\* and so does one that asks.
LEMMA AsksKeeps ==
  ASSUME IInv, NEW s \in Used(jobs), active \in {0, jobs[s].id}, NEW evs \in EventQueue,
         NEW kind, NEW smp, Asks(s, evs, kind, smp), Borrows(s)
  PROVE  IInv'
<1>1. PICK cmd \in Command :
        /\ Submit(evs, TRUE, cmd)
        /\ cmd.kind = kind /\ cmd.smp = smp /\ cmd.tag = jobs[s].tag /\ cmd.rel = jobs[s].rel
  BY DEF Asks
<1>2. /\ Leads(Db, Db', s, {}) /\ active' = jobs[s].id /\ jobs'[s].phase \in Underway
      /\ chk' \in [Slots -> Deadline] /\ cooling' \in BOOLEAN
      /\ ses' \in Session /\ (smp = "Upload" => borrowed')
      /\ UNCHANGED <<ready, staged, staging>>
  BY DEF Asks
<1>3. QED
  BY <1>1, <1>2, SubmittedKeeps

-----------------------------------------------------------------------------
(* What the handlers of an open session do                                 *)

\* The reply brings the state of the tag's slots.
Reports(e) == e.kind = "Reply" /\ e.reply.img # None

FindsInstalled(e, evs) ==
  /\ Ends(Here, evs, {"Successful"})
  /\ Reports(e) /\ e.reply.img.active = TheRelease /\ e.reply.img.conf

FindsAnother(e, evs) ==
  /\ Ends(Here, evs, {"Failed"}) /\ jobs[Here].trial
  /\ Reports(e) /\ e.reply.img.active # TheRelease /\ ~e.reply.img.pending

SendsBlock(e, evs) ==
  /\ Asks(Here, evs, "Exchange", "Upload")
  /\ e.kind = "Reply" /\ ~jobs[Here].trial
  /\ \/ jobs[Here].phase = "Uploading"
     \/ /\ Reports(e) /\ e.reply.img.active # TheRelease
        /\ e.reply.img.conf /\ ~e.reply.img.pending

SendsTrial(e, evs) ==
  /\ Asks(Here, evs, "Exchange", "Trial")
  /\ jobs[Here].phase = "Uploading" /\ jobs'[Here].trial /\ jobs'[Here].phase = "Rebooting"
  /\ Reports(e) /\ e.reply.img.other = TheRelease /\ e.reply.img.off = ImageSize
  /\ ~e.reply.img.pending

AsksMore(answered, evs) ==
  \E kind \in {"Security", "Exchange"}, smp \in {"TagStatus", "ImageList", "Reset"} :
    /\ Asks(Here, evs, kind, smp)
    /\ smp # "TagStatus" => answered
    /\ jobs'[Here].phase = "Uploading" => jobs[Here].phase = "Uploading"

Polls(e, evs) ==
  /\ Leads(Db, Db', Here, {}) /\ ~disabled' /\ jobs'[Here].phase = "Checking"
  /\ ses' \in Session /\ ses'.await = "Poll" /\ Reports(e)
  /\ events' = evs /\ chk' \in [Slots -> Deadline]
  /\ UNCHANGED <<mailbox, wk, fault, inbox, dev, active, cooling, ready, stageVars>>

Answers(e, evs) ==
  /\ Borrows(Here)
  /\ \/ Ends(Here, evs, {}) \/ FindsInstalled(e, evs) \/ FindsAnother(e, evs)
     \/ SendsBlock(e, evs) \/ SendsTrial(e, evs) \/ AsksMore(e.kind = "Reply", evs)
     \/ Polls(e, evs)

\* What the handler stored is the snapshot after it.
LEMMA StoreIs ==
  ASSUME NEW d \in Snapshot, Store(d) PROVE Db' = d
BY DEF Store, Snapshot, Db

\* Confirmation deadlines are set, or kept.
LEMMA ArmedType ==
  ASSUME NEW c \in [Slots -> Deadline], NEW s \in Slots
  PROVE  Armed(c, s) \in [Slots -> Deadline]
BY DEF Armed, Deadline

\* A command of a job names its tag and its release.
LEMMA CmdType ==
  ASSUME NEW kind \in Kinds, NEW smp \in Smps, NEW job \in Job
  PROVE  /\ Cmd(kind, smp, job) \in Command
         /\ Cmd(kind, smp, job).kind = kind /\ Cmd(kind, smp, job).smp = smp
         /\ Cmd(kind, smp, job).tag = job.tag /\ Cmd(kind, smp, job).rel = job.rel
         /\ Cmd(kind, smp, job).fresh
         /\ smp = "Upload" => Cmd(kind, smp, job).off = job.ack
<1>1. (IF smp = "Upload" THEN job.ack ELSE 0) \in 0..ImageSize
  BY DEF Job
<1>2. QED
  BY <1>1 DEF Cmd, Command, Job

\* close() ends the session.
LEMMA CloseEnds ==
  ASSUME IInv, NEW s \in Used(jobs), NEW evs, NEW over, Leads(Db, Db', s, over),
         active' = jobs[s].id, NEW job \in Job, job.tag = jobs[s].tag, job.rel = jobs[s].rel,
         NEW delay \in BOOLEAN, Close(evs, job, delay), chk' \in [Slots -> Deadline],
         UNCHANGED <<ready, staged, staging>>
  PROVE  Ends(s, evs, over)
<1>1. PICK accepted \in BOOLEAN :
        /\ Submit(evs, accepted, Cmd("Disconnect", "TagStatus", job))
        /\ ses' = [NoSession EXCEPT !.await = "Disconnected", !.sub = accepted]
        /\ cooling' = (cooling \/ delay)
  BY DEF Close
<1> DEFINE cmd == Cmd("Disconnect", "TagStatus", job)
<1>2. /\ cmd \in Command /\ cmd.kind = "Disconnect" /\ cmd.smp = "TagStatus"
      /\ cmd.tag = jobs[s].tag /\ cmd.rel = jobs[s].rel
  BY CmdType DEF Kinds, Smps
<1>3. cooling' \in BOOLEAN
  BY <1>1, Typed DEF IInv
<1> HIDE DEF cmd
<1>4. QED
  BY <1>1, <1>2, <1>3 DEF Ends, cmd

\* failed() ends the session, wherever the handler had got to.
LEMMA FailEnds ==
  ASSUME IInv, NEW s \in Used(jobs), NEW evs, NEW d, NEW over, Leads(Db, d, s, over),
         NEW c \in [Slots -> Deadline], NEW retryable \in BOOLEAN,
         FailIn(s, evs, d, c, retryable), active' = jobs[s].id
  PROVE  Ends(s, evs, over)
<1>0. s \in Used(Db.jobs)
  BY DEF Db
<1>1. Sound(d) /\ s \in Used(d.jobs)
  BY <1>0, DbSound, LeadsSound
<1>2. PICK e \in FailedDb(d, s, retryable) : Store(e)
  BY DEF FailIn
<1>3. Leads(d, e, s, over)
  BY <1>1, FailedLeads
<1>4. Leads(Db, e, s, over)
  BY <1>0, <1>3, DbSound, LeadsTwice
<1>5. Db' = e
  BY <1>2, <1>4, StoreIs DEF Leads
<1>6. chk' \in [Slots -> Deadline]
  BY ArmedType, UsedHere DEF FailIn
<1>7. Close(evs, jobs[s], TRUE) /\ UNCHANGED <<ready, staged, staging>>
  BY DEF FailIn
<1>8. QED
  BY <1>4, <1>5, <1>6, <1>7, CloseEnds, UsedHere

\* An exchange asks.
LEMMA AskedAsks ==
  ASSUME IInv, active # 0, NEW evs, NEW d, Leads(Db, d, Here, {}), d.jobs[Here].phase \in Underway,
         NEW c \in [Slots -> Deadline], NEW smp \in Smps, Asked(evs, d, c, smp),
         smp = "Upload" => borrowed' /\ d.jobs[Here].ack < ImageSize
  PROVE  Asks(Here, evs, "Exchange", smp) /\ jobs' = d.jobs /\ Db' = d
<1> DEFINE cmd == Cmd("Exchange", smp, d.jobs[Here])
<1>0. Here \in Used(jobs) /\ jobs[Here].id = active /\ Here \in Used(Db.jobs) /\ Db.jobs = jobs
  BY HereUsed DEF Db
<1>1. Db' = d /\ jobs' = d.jobs /\ ~disabled'
  BY StoreIs DEF Asked, Leads, Store
<1>2. /\ d.jobs[Here] \in Job
      /\ d.jobs[Here].tag = jobs[Here].tag /\ d.jobs[Here].rel = jobs[Here].rel
  BY <1>0, DbSound, LeadsSound, UsedSound DEF SameWork
<1>3. /\ cmd \in Command /\ cmd.kind = "Exchange" /\ cmd.smp = smp
      /\ cmd.tag = jobs[Here].tag /\ cmd.rel = jobs[Here].rel
      /\ smp = "Upload" => cmd.off < ImageSize
  BY <1>2, CmdType DEF Kinds
<1>4. ses' \in Session /\ ses'.await = "Reply"
  <2>1. ses \in Session
    BY Typed DEF IInv
  <2>2. ses' = [ses EXCEPT !.await = "Reply", !.smp = smp, !.due = FALSE]
    BY DEF Asked
  <2>3. QED
    BY <2>1, <2>2 DEF Session
<1>5. Submit(evs, TRUE, cmd) /\ chk' = c /\ UNCHANGED <<active, cooling, ready, staged, staging>>
  BY DEF Asked
<1>6. cooling' \in BOOLEAN
  BY <1>5, Typed DEF IInv
<1> HIDE DEF cmd
<1>7. QED
  BY <1>0, <1>1, <1>3, <1>4, <1>5, <1>6 DEF Asks

\* An open session belongs to a legal job under way.
LEMMA OpenHere ==
  ASSUME IInv, InSession
  PROVE  /\ active # 0 /\ Here \in Used(jobs) /\ jobs[Here].id = active /\ Here \in Slots
         /\ jobs[Here] \in Job /\ Legal(jobs[Here]) /\ jobs[Here].phase \in Underway
         /\ Live(jobs[Here]) /\ ~staging /\ Leads(Db, Db, Here, {})
<1>1. active # 0 /\ Here \in Used(jobs) /\ jobs[Here].id = active /\ ~staging
  BY HereUsed DEF InSession, LoopOn
<1>2. Here \in Slots /\ jobs[Here] \in Job /\ Legal(jobs[Here])
  BY <1>1, UsedHere
<1>3. jobs[Here].phase \in Underway
  BY DEF IInv, SessionHeld, Open, InSession
<1>4. Live(jobs[Here])
  BY <1>3 DEF Live, Terminal, Underway
<1>5. Here \in Used(Db.jobs)
  BY <1>1 DEF Db
<1>6. Leads(Db, Db, Here, {})
  BY <1>5, DbSound, LeadsNowhere
<1>7. QED
  BY <1>1, <1>2, <1>3, <1>4, <1>6

\* The stage buffer is left alone.
LEMMA BorrowsNothing ==
  ASSUME IInv, UNCHANGED transfer, NEW s PROVE Borrows(s)
BY Typed DEF IInv, Borrows, transfer

\* failed() ends the session.
LEMMA FailAnswers ==
  ASSUME IInv, InSession, NEW evs, NEW d, Leads(Db, d, Here, {}),
         NEW c \in [Slots -> Deadline], NEW retryable \in BOOLEAN, Fail(evs, d, c, retryable)
  PROVE  Ends(Here, evs, {})
<1>1. FailIn(Here, evs, d, c, retryable) /\ active' = active
  BY DEF Fail
<1>2. QED
  BY <1>1, OpenHere, FailEnds

\* A question without the stage buffer is asked, or ends the session.
LEMMA AskAnswers ==
  ASSUME IInv, InSession, NEW evs, NEW smp \in {"TagStatus", "ImageList", "Reset"},
         NEW retryable \in BOOLEAN, Ask(evs, smp, retryable), NEW answered,
         smp # "TagStatus" => answered
  PROVE  Borrows(Here) /\ (Ends(Here, evs, {}) \/ AsksMore(answered, evs))
<1>1. chk \in [Slots -> Deadline] /\ smp \in Smps
  BY Typed DEF IInv, Smps
<1>2. Borrows(Here)
  BY BorrowsNothing DEF Ask
<1>3. CASE Asked(evs, Db, chk, smp)
  <2>1. Leads(Db, Db, Here, {}) /\ Db.jobs = jobs /\ jobs[Here].phase \in Underway /\ active # 0
    BY OpenHere DEF Db
  <2>2. Asks(Here, evs, "Exchange", smp) /\ jobs' = jobs
    BY <1>1, <1>3, <2>1, AskedAsks
  <2>3. QED
    BY <1>2, <2>2 DEF AsksMore
<1>4. CASE Fail(evs, Db, chk, retryable)
  BY <1>1, <1>2, <1>4, FailAnswers, OpenHere
<1>5. QED
  BY <1>3, <1>4 DEF Ask

\* The next block is sent, or ends the session.
LEMMA SendBlockAnswers ==
  ASSUME IInv, InSession, NEW evs, NEW d, Leads(Db, d, Here, {}), d.jobs[Here].phase \in Underway,
         d.jobs[Here].ack < ImageSize,
         NEW retryable \in BOOLEAN, SendBlock(evs, d, retryable), stalled' \in 0..(StallMax - 1)
  PROVE  /\ Borrows(Here)
         /\ \/ Ends(Here, evs, {})
            \/ Asks(Here, evs, "Exchange", "Upload") /\ jobs' = d.jobs
<1>1. chk \in [Slots -> Deadline] /\ borrowed \in BOOLEAN /\ "Upload" \in Smps
  BY Typed DEF IInv, Smps
<1>2. Borrows(Here)
  BY <1>1, OpenHere DEF SendBlock, Borrows
<1>3. CASE borrowed' /\ Asked(evs, d, chk, "Upload")
  BY <1>1, <1>2, <1>3, OpenHere, AskedAsks
<1>4. CASE Fail(evs, d, chk, retryable)
  BY <1>1, <1>2, <1>4, FailAnswers
<1>5. QED
  BY <1>3, <1>4 DEF SendBlock

-----------------------------------------------------------------------------
(* Each handler                                                            *)

\* A broken link ends the session.
LEMMA LinkFailsAnswers ==
  ASSUME IInv, NEW e \in Event, NEW rest, LinkFails(e, rest) PROVE Answers(e, rest)
<1>1. InSession /\ UNCHANGED transfer /\ Fail(rest, Db, chk, e.transient \/ e.kind = "Disconnected")
  BY DEF LinkFails, Handling
<1>2. (e.transient \/ e.kind = "Disconnected") \in BOOLEAN /\ chk \in [Slots -> Deadline]
  BY Typed DEF Event, IInv
<1>3. Ends(Here, rest, {})
  BY <1>1, <1>2, OpenHere, FailAnswers
<1>4. QED
  BY <1>1, <1>3, BorrowsNothing DEF Answers

\* Connected: the stored bond is used next.
LEMMA LinkUpAnswers ==
  ASSUME IInv, NEW e \in Event, NEW rest, LinkUp(e, rest) PROVE Answers(e, rest)
<1>0. InSession /\ UNCHANGED transfer /\ ~disabled
  BY DEF LinkUp, Handling, Overdue
<1>1. Borrows(Here)
  BY <1>0, BorrowsNothing
<1>2. CASE /\ Submit(rest, TRUE, Cmd("Security", "TagStatus", jobs[Here]))
           /\ ses' = [ses EXCEPT !.await = "Secured", !.due = FALSE]
           /\ UNCHANGED <<jobVars, active, chk, cooling, ready, staged, staging>>
  <2> DEFINE cmd == Cmd("Security", "TagStatus", jobs[Here])
  <2>1. /\ cmd \in Command /\ cmd.kind = "Security" /\ cmd.smp = "TagStatus"
        /\ cmd.tag = jobs[Here].tag /\ cmd.rel = jobs[Here].rel
    BY <1>0, OpenHere, CmdType DEF Kinds, Smps
  <2>2. Db' = Db /\ jobs' = jobs /\ disabled' = disabled
    BY <1>2 DEF Db, jobVars
  <2>3. ses' \in Session /\ ses'.await = "Secured"
    BY <1>2, Typed DEF IInv, Session
  <2>4. chk' \in [Slots -> Deadline] /\ cooling' \in BOOLEAN
    BY <1>2, Typed DEF IInv
  <2>5. Submit(rest, TRUE, cmd)
    BY <1>2
  <2> HIDE DEF cmd
  <2>6. Asks(Here, rest, "Security", "TagStatus")
    BY <1>0, <1>2, <2>1, <2>2, <2>3, <2>4, <2>5, OpenHere DEF Asks
  <2>7. QED
    BY <1>1, <2>2, <2>6 DEF Answers, AsksMore
<1>3. CASE Fail(rest, Db, chk, FALSE)
  <2>1. Ends(Here, rest, {})
    BY <1>0, <1>3, OpenHere, FailAnswers, Typed DEF IInv
  <2>2. QED
    BY <1>1, <2>1 DEF Answers
<1>4. QED
  BY <1>2, <1>3 DEF LinkUp

\* Secured: the tag is asked who it is.
LEMMA LinkSecuredAnswers ==
  ASSUME IInv, NEW e \in Event, NEW rest, LinkSecured(e, rest) PROVE Answers(e, rest)
<1>1. InSession /\ Ask(rest, "TagStatus", TRUE)
  BY DEF LinkSecured, Handling
<1>2. Borrows(Here) /\ (Ends(Here, rest, {}) \/ AsksMore(e.kind = "Reply", rest))
  BY <1>1, AskAnswers
<1>3. QED
  BY <1>2 DEF Answers

\* A request that is denied ends the session.
LEMMA DeniedAnswers ==
  ASSUME IInv, NEW e \in Event, NEW rest, Denied(e, rest) PROVE Answers(e, rest)
<1>1. InSession /\ UNCHANGED transfer /\ Fail(rest, Db, chk, FALSE)
  BY DEF Denied, Handling
<1>2. Ends(Here, rest, {})
  BY <1>1, OpenHere, FailAnswers, Typed DEF IInv
<1>3. QED
  BY <1>1, <1>2, BorrowsNothing DEF Answers

\* The tag named itself: its images are asked for, unless it is another tag.
LEMMA IdentifiedAnswers ==
  ASSUME IInv, NEW e \in Event, NEW rest, Identified(e, rest) PROVE Answers(e, rest)
<1>0. InSession /\ e.kind = "Reply"
  BY DEF Identified, ReplyTo, Handling
<1>1. CASE Ask(rest, "ImageList", TRUE)
  <2>1. Borrows(Here) /\ (Ends(Here, rest, {}) \/ AsksMore(e.kind = "Reply", rest))
    BY <1>0, <1>1, AskAnswers
  <2>2. QED
    BY <2>1 DEF Answers
<1>2. CASE Fail(rest, Db, chk, FALSE) /\ UNCHANGED transfer
  <2>1. Ends(Here, rest, {})
    BY <1>0, <1>2, OpenHere, FailAnswers, Typed DEF IInv
  <2>2. QED
    BY <1>2, <2>1, BorrowsNothing DEF Answers
<1>3. QED
  BY <1>1, <1>2 DEF Identified

\* The trial is requested once it is durable that it may be armed.
LEMMA ArmTrialAnswers ==
  ASSUME IInv, InSession, NEW e, Reports(e), NEW rest, jobs[Here].phase = "Uploading",
         ArmTrial(e.reply.img, rest), UNCHANGED transfer
  PROVE  Answers(e, rest)
<1> DEFINE img == e.reply.img
<1>1. Borrows(Here) /\ chk \in [Slots -> Deadline] /\ "Trial" \in Smps
  BY BorrowsNothing, Typed DEF IInv, Smps
<1>2. CASE Fail(rest, Db, chk, FALSE)
  <2>1. Ends(Here, rest, {})
    BY <1>1, <1>2, OpenHere, FailAnswers
  <2>2. QED
    BY <1>1, <2>1 DEF Answers
<1>3. ASSUME NEW d \in Moved(Db, Here, "Rebooting"),
             Asked(rest, d, chk, "Trial") \/ Fail(rest, d, chk, FALSE),
             img.other = TheRelease, img.off = ImageSize, ~img.pending
      PROVE  Answers(e, rest)
  <2>1. Here \in Used(Db.jobs) /\ Live(Db.jobs[Here]) /\ Db.jobs[Here].phase = "Uploading"
    BY OpenHere DEF Db
  <2>2. AllowedEdge("Uploading", "Rebooting") /\ "Rebooting" \in Phases \ Terminal
    BY DEF AllowedEdge, Phases, Terminal
  <2>3. Leads(Db, d, Here, {}) /\ d.jobs[Here].phase = "Rebooting"
    BY <1>3, <2>2, OpenHere, MovedHere
  <2>4. CASE Asked(rest, d, chk, "Trial")
    <3>1. Asks(Here, rest, "Exchange", "Trial") /\ jobs' = d.jobs
      BY <1>1, <2>3, <2>4, OpenHere, AskedAsks DEF Underway
    <3>2. Legal(d.jobs[Here])
      BY <2>1, <2>3, DbSound, LeadsSound, UsedSound
    <3>3. QED
      BY <1>1, <1>3, <2>3, <3>1, <3>2 DEF Answers, SendsTrial, Legal
  <2>5. CASE Fail(rest, d, chk, FALSE)
    <3>1. Ends(Here, rest, {})
      BY <1>1, <2>3, <2>5, FailAnswers
    <3>2. QED
      BY <1>1, <3>1 DEF Answers
  <2>6. QED
    BY <1>3, <2>4, <2>5
<1>4. QED
  BY <1>2, <1>3 DEF ArmTrial, TheRelease

\* Success is claimed for a confirmed image only, else it is polled for.
LEMMA RunningAnswers ==
  ASSUME IInv, InSession, NEW e, Reports(e), NEW rest, e.reply.img.active = TheRelease,
         Running(e.reply.img, rest), UNCHANGED transfer
  PROVE  Answers(e, rest)
<1> DEFINE img == e.reply.img
<1>0. /\ active # 0 /\ Here \in Used(jobs) /\ jobs[Here].id = active /\ Here \in Slots
      /\ jobs[Here] \in Job /\ Here \in Used(Db.jobs)
  BY OpenHere DEF Db
<1>1. /\ Borrows(Here) /\ chk' \in [Slots -> Deadline]
      /\ UNCHANGED <<active, ready, staged, staging>>
  BY <1>0, BorrowsNothing, ArmedType, Typed DEF IInv, Running
<1>2. PICK d \in Prepared(Db, Here) :
        IF ~IsPrepared(d, Here) \/ img.conf
        THEN /\ \E f \in (IF IsPrepared(d, Here)
                          THEN Checkpoint(d, Here, Completed(d.jobs[Here], 0)) ELSE {d}) :
                  Store(f)
             /\ Close(rest, jobs[Here], FALSE)
        ELSE /\ Store(d)
             /\ ses' = [ses EXCEPT !.await = "Poll", !.smp = "TagStatus", !.due = FALSE]
             /\ events' = rest
             /\ UNCHANGED <<mailbox, wk, fault, inbox, dev, cooling>>
  BY DEF Running
<1>3. Leads(Db, d, Here, {}) /\ Sound(d) /\ Here \in Used(d.jobs) /\ d \in Snapshot
  BY <1>0, DbSound, PreparedLeads, LeadsSound DEF Sound
<1>4. CASE ~IsPrepared(d, Here)
  <2>1. Db' = d /\ Close(rest, jobs[Here], FALSE)
    BY <1>2, <1>3, <1>4, StoreIs
  <2>2. Ends(Here, rest, {})
    BY <1>0, <1>1, <1>3, <2>1, CloseEnds
  <2>3. QED
    BY <1>1, <2>2 DEF Answers
<1>5. CASE IsPrepared(d, Here) /\ img.conf
  <2>1. PICK f \in Checkpoint(d, Here, Completed(d.jobs[Here], 0)) : Store(f)
    BY <1>2, <1>5
  <2>2. Close(rest, jobs[Here], FALSE)
    BY <1>2, <1>5
  <2> DEFINE j == d.jobs[Here] k == Completed(j, 0)
  <2>3. j \in Job /\ Legal(j) /\ j.phase = "Checking"
    BY <1>3, <1>5, UsedSound DEF IsPrepared
  <2>4. Follows(j, k) /\ k.phase = "Successful" /\ k.attempts = j.attempts
    BY <2>3, CompleteFollows
  <2>5. k \in Job /\ Keeps(j, k, {"Successful"})
    <3>1. j.attempts \in Nat
      BY <2>3 DEF Job
    <3> HIDE DEF k, j
    <3>2. QED
      BY <2>4, <3>1 DEF Keeps, Follows
  <2> HIDE DEF k
  <2>6. Leads(d, f, Here, {"Successful"})
    BY <1>3, <2>1, <2>5, CheckpointLeads DEF k
  <2>7. Leads(Db, f, Here, {"Successful"}) /\ Db' = f
    <3>1. Leads(Db, f, Here, {"Successful"})
      BY <1>0, <1>3, <2>6, DbSound, LeadsTwice
    <3>2. f \in Snapshot
      BY <3>1 DEF Leads
    <3>3. QED
      BY <2>1, <3>1, <3>2, StoreIs
  <2>8. Ends(Here, rest, {"Successful"})
    BY <1>0, <1>1, <2>2, <2>7, CloseEnds
  <2>9. QED
    BY <1>1, <1>5, <2>8 DEF Answers, FindsInstalled
<1>6. CASE IsPrepared(d, Here) /\ ~img.conf
  <2>1. /\ Store(d) /\ events' = rest
        /\ ses' = [ses EXCEPT !.await = "Poll", !.smp = "TagStatus", !.due = FALSE]
        /\ UNCHANGED <<mailbox, wk, fault, inbox, dev, cooling>>
    BY <1>2, <1>6
  <2>2. Db' = d /\ ~disabled' /\ jobs'[Here].phase = "Checking"
    BY <1>3, <1>6, <2>1, StoreIs DEF IsPrepared, Store
  <2>3. ses' \in Session /\ ses'.await = "Poll"
    <3>1. ses \in Session
      BY Typed DEF IInv
    <3>2. QED
      BY <2>1, <3>1 DEF Session, Smps
  <2>4. Polls(e, rest)
    BY <1>1, <1>3, <2>1, <2>2, <2>3 DEF Polls, stageVars, transfer
  <2>5. QED
    BY <1>1, <2>4 DEF Answers
<1>7. QED
  BY <1>4, <1>5, <1>6

\* Another image runs.
LEMMA NotInstalledAnswers ==
  ASSUME IInv, InSession, NEW e, Reports(e), NEW rest, e.reply.img.active # TheRelease,
         ~e.reply.img.pending, NotInstalled(rest), UNCHANGED transfer
  PROVE  Answers(e, rest)
<1> DEFINE next == IF jobs[Here].trial THEN "Failed" ELSE "NeedsAction"
           over == IF jobs[Here].trial THEN {"Failed"} ELSE {}
<1>0. /\ active # 0 /\ Here \in Used(jobs) /\ jobs[Here].id = active /\ Here \in Slots
      /\ jobs[Here] \in Job /\ Here \in Used(Db.jobs)
  BY OpenHere DEF Db
<1>1. PICK d \in Stopped(Db, Here, next) : Store(d)
  BY DEF NotInstalled
<1>2. /\ Borrows(Here) /\ chk' \in [Slots -> Deadline] /\ Close(rest, jobs[Here], FALSE)
      /\ UNCHANGED <<active, ready, staged, staging>>
  BY BorrowsNothing, Typed DEF IInv, NotInstalled
<1>3. next \in Phases /\ next # "Cancelled" /\ (next \notin Terminal \/ next \in over)
  BY DEF Phases, Terminal
<1> HIDE DEF next
<1>4. Leads(Db, d, Here, over)
  BY <1>0, <1>1, <1>3, DbSound, StoppedLeads
<1>5. Db' = d
  BY <1>1, <1>4, StoreIs DEF Leads
<1>6. Ends(Here, rest, over)
  BY <1>0, <1>2, <1>4, <1>5, CloseEnds
<1>7. QED
  BY <1>2, <1>6 DEF Answers, FindsAnother

\* An upload begins with the first block.
LEMMA UploadsFromStart ==
  ASSUME IInv, NEW s \in Used(jobs), NEW e \in Moved(Db, s, "Uploading")
  PROVE  e.jobs[s].ack = 0
<1> DEFINE k == Transitioned(jobs[s], "Uploading", 0)
<1>1. s \in Slots /\ jobs \in Queue /\ k.ack = 0
  BY UsedHere, Typed DEF IInv, Transitioned, Job
<1>2. e.jobs = [jobs EXCEPT ![s] = k]
  BY DEF Moved, Checkpoint, Db
<1> HIDE DEF k
<1>3. QED
  BY <1>1, <1>2 DEF Queue

\* The upload begins.
LEMMA BeginUploadAnswers ==
  ASSUME IInv, InSession, NEW e, Reports(e), NEW rest, e.reply.img.active # TheRelease,
         ~e.reply.img.pending, e.reply.img.conf, jobs[Here].phase \notin {"Uploading", "Checking"},
         ~jobs[Here].trial, BeginUpload(rest), stalled' = stalled
  PROVE  Answers(e, rest)
<1>0. Here \in Used(Db.jobs) /\ Db.jobs = jobs /\ Live(Db.jobs[Here]) /\ stalled' \in 0..(StallMax - 1)
  BY OpenHere, Typed DEF Db, IInv
<1>1. jobs[Here].phase = "Connecting"
  BY OpenHere DEF Underway, Legal
<1>2. PICK d \in Moved(Db, Here, "Uploading") :
        IF d.disabled THEN Fail(rest, d, chk, FALSE) /\ borrowed' = borrowed
        ELSE SendBlock(rest, d, FALSE)
  BY DEF BeginUpload
<1>3. AllowedEdge("Connecting", "Uploading") /\ "Uploading" \in Phases \ Terminal
  BY DEF AllowedEdge, Phases, Terminal
<1>4. Leads(Db, d, Here, {}) /\ d.jobs[Here].phase = "Uploading" /\ d.jobs[Here].ack = 0
  BY <1>1, <1>3, OpenHere, MovedHere, UploadsFromStart
<1>5. CASE d.disabled
  <2>1. Ends(Here, rest, {})
    BY <1>2, <1>4, <1>5, FailAnswers, Typed DEF IInv
  <2>2. Borrows(Here)
    BY <1>2, <1>5, BorrowsNothing DEF transfer
  <2>3. QED
    BY <2>1, <2>2 DEF Answers
<1>6. CASE ~d.disabled
  <2>1. /\ Borrows(Here)
        /\ Ends(Here, rest, {}) \/ Asks(Here, rest, "Exchange", "Upload")
    <3>0. 0 < ImageSize
      OBVIOUS
    <3>1. d.jobs[Here].ack < ImageSize
      BY <1>4, <3>0
    <3>2. d.jobs[Here].phase \in Underway
      BY <1>4 DEF Underway
    <3>3. SendBlock(rest, d, FALSE)
      BY <1>2, <1>6
    <3>4. QED
      BY <1>0, <1>4, <3>1, <3>2, <3>3, SendBlockAnswers
  <2>2. QED
    BY <2>1 DEF Answers, SendsBlock, Reports
<1>7. QED
  BY <1>5, <1>6

\* inspect_or_upload()
LEMMA InspectedAnswers ==
  ASSUME IInv, NEW e \in Event, NEW rest, Inspected(e, rest) PROVE Answers(e, rest)
<1> DEFINE img == e.reply.img
<1>0. InSession /\ e.kind = "Reply"
  BY DEF Inspected, ReplyTo, Handling
<1>1. CASE Fail(rest, Db, chk, FALSE) /\ UNCHANGED transfer
  <2>1. Ends(Here, rest, {})
    BY <1>0, <1>1, OpenHere, FailAnswers, Typed DEF IInv
  <2>2. QED
    BY <1>1, <2>1, BorrowsNothing DEF Answers
<1>2. CASE img # None /\ jobs[Here].phase = "Uploading" /\ ArmTrial(img, rest) /\ UNCHANGED transfer
  BY <1>0, <1>2, ArmTrialAnswers DEF Reports
<1>3. CASE img # None /\ img.active = TheRelease /\ Running(img, rest) /\ UNCHANGED transfer
  BY <1>0, <1>3, RunningAnswers DEF Reports
<1>4. CASE img # None /\ img.active # TheRelease /\ ~img.pending /\ NotInstalled(rest) /\ UNCHANGED transfer
  BY <1>0, <1>4, NotInstalledAnswers DEF Reports
<1>5. CASE /\ img # None /\ img.active # TheRelease /\ ~img.pending /\ img.conf
           /\ jobs[Here].phase \notin {"Uploading", "Checking"} /\ ~jobs[Here].trial
           /\ BeginUpload(rest) /\ stalled' = stalled
  BY <1>0, <1>5, BeginUploadAnswers DEF Reports
<1>6. QED
  BY <1>1, <1>2, <1>3, <1>4, <1>5 DEF Inspected, TheRelease

\* The receiver's offset is kept in memory only; what the snapshot misses of
\* the job is just that.
LEMMA ProgressedLeads ==
  ASSUME IInv, NEW s \in Used(jobs), NEW off \in 0..ImageSize, CanProgress(jobs[s], off, 0)
  PROVE  LET d == [Db EXCEPT !.jobs[s] = Progressed(jobs[s], off, 0)]
         IN  Leads(Db, d, s, {}) /\ d.jobs[s].phase = "Uploading" /\ d.jobs[s].ack = off
<1> DEFINE j == jobs[s] k == Progressed(j, off, 0) q == [jobs EXCEPT ![s] = k]
           d == [Db EXCEPT !.jobs[s] = k]
<1>0. /\ s \in Slots /\ j \in Job /\ Legal(j) /\ Db \in Snapshot /\ jobs \in Queue /\ nvs \in Queue
      /\ disabled \in BOOLEAN
  BY UsedHere, Typed DEF IInv
<1>1. j.phase = "Uploading" /\ j.changed = 0 /\ j.attempts \in Nat
  BY <1>0 DEF CanProgress, Fresh, Job
<1>2. Follows(j, k) /\ k.phase = j.phase /\ k.attempts = j.attempts /\ k \in Job
  BY <1>0, ProgressFollows DEF Follows
<1>3. k = [j EXCEPT !.ack = off]
  BY <1>0, <1>1 DEF Progressed, Job
<1>4. Keeps(j, k, {})
  <2> HIDE DEF k
  <2>1. Live(k)
    BY <1>1, <1>2 DEF Live, Terminal
  <2>2. QED
    BY <1>1, <1>2, <2>1 DEF Keeps
<1>5. d.jobs = q /\ d.nvs = nvs /\ d.disabled = disabled
  BY DEF Db
<1>6. q \in Queue /\ q[s] = k /\ \A o \in Slots \ {s} : q[o] = jobs[o]
  <2> HIDE DEF k
  <2>1. QED
    BY <1>0, <1>2 DEF Queue
<1>7. d \in Snapshot
  <2>1. d = [jobs |-> q, nvs |-> nvs, disabled |-> disabled]
    BY DEF Db
  <2> HIDE DEF q, d
  <2>2. QED
    BY <1>0, <1>6, <2>1 DEF Snapshot
<1>8. Saved(d)
  <2>1. ASSUME ~disabled, NEW o \in Slots, o # s
        PROVE  \/ q[o] = nvs[o]
               \/ q[o] # None /\ nvs[o] # None /\ [q[o] EXCEPT !.ack = nvs[o].ack] = nvs[o]
    BY <1>6, <2>1 DEF IInv, SavedBeforeActing
  <2>2. ASSUME ~disabled
        PROVE  k # None /\ nvs[s] # None /\ [k EXCEPT !.ack = nvs[s].ack] = nvs[s]
    <3>1. j # None /\ (j = nvs[s] \/ (nvs[s] # None /\ [j EXCEPT !.ack = nvs[s].ack] = nvs[s]))
      BY <1>0, <2>2 DEF IInv, SavedBeforeActing
    <3>2. nvs[s] # None /\ [j EXCEPT !.ack = nvs[s].ack] = nvs[s]
      BY <1>0, <3>1 DEF Job
    <3>3. [k EXCEPT !.ack = nvs[s].ack] = [j EXCEPT !.ack = nvs[s].ack]
      BY <1>0, <1>3 DEF Job
    <3>4. QED
      BY <1>2, <3>2, <3>3
  <2> HIDE DEF q, k, d
  <2>3. QED
    BY <1>5, <1>6, <2>1, <2>2 DEF Saved
<1>9. k.ack = off
  BY <1>0, <1>3 DEF Job
<1> HIDE DEF k, d
<1>10. Leads(Db, d, s, {})
  BY <1>2, <1>4, <1>5, <1>7, <1>8 DEF Leads, Db
<1>11. QED
  BY <1>1, <1>2, <1>5, <1>6, <1>9, <1>10 DEF d, k

\* The transfer goes on, or ends with the question what arrived.
LEMMA UploadedAnswers ==
  ASSUME IInv, NEW e \in Event, e.kind = "Reply" => e.reply \in Reply, NEW rest, Uploaded(e, rest)
  PROVE  Answers(e, rest)
<1> DEFINE job == jobs[Here] off == e.reply.off d == [Db EXCEPT !.jobs[Here] = Progressed(job, off, 0)]
<1>0. InSession /\ e.kind = "Reply" /\ off \in 0..ImageSize
  BY DEF Uploaded, ReplyTo, Handling, Reply
<1>1. active # 0 /\ Here \in Used(jobs) /\ job \in Job /\ Legal(job)
  BY <1>0, OpenHere
<1>2. stalled \in 0..(StallMax - 1) /\ borrowed \in BOOLEAN /\ chk \in [Slots -> Deadline]
  BY Typed DEF IInv
<1>3. CASE Fail(rest, Db, chk, FALSE) /\ UNCHANGED transfer
  <2>1. Ends(Here, rest, {})
    BY <1>0, <1>2, <1>3, OpenHere, FailAnswers
  <2>2. QED
    BY <1>3, <2>1, BorrowsNothing DEF Answers
<1>4. ASSUME AcceptsOffset(off, job.ack), CanProgress(job, off, 0),
             stalled' = IF off = job.ack THEN stalled + 1 ELSE 0,
             \/ off < ImageSize /\ SendBlock(rest, d, TRUE)
             \/ /\ Asked(rest, d, chk, "ImageList") \/ Fail(rest, d, chk, TRUE)
                /\ borrowed' = borrowed
      PROVE  Answers(e, rest)
  <2>1. /\ Leads(Db, d, Here, {}) /\ d.jobs[Here].phase = "Uploading" /\ d.jobs[Here].ack = off
        /\ job.phase = "Uploading"
    BY <1>0, <1>1, <1>4, ProgressedLeads DEF CanProgress
  <2>2. stalled' \in 0..(StallMax - 1)
    <3>1. job.ack \in Nat
      BY <1>1 DEF Job
    <3>2. QED
      BY <1>2, <1>4, <3>1 DEF AcceptsOffset
  <2> HIDE DEF d
  <2>3. CASE off < ImageSize /\ SendBlock(rest, d, TRUE)
    <3>1. /\ Borrows(Here)
          /\ Ends(Here, rest, {}) \/ Asks(Here, rest, "Exchange", "Upload")
      BY <1>0, <2>1, <2>2, <2>3, SendBlockAnswers DEF Underway
    <3>2. ~job.trial
      BY <1>1, <2>1 DEF Legal
    <3>3. QED
      BY <1>0, <2>1, <3>1, <3>2 DEF Answers, SendsBlock
  <2>4. CASE (Asked(rest, d, chk, "ImageList") \/ Fail(rest, d, chk, TRUE)) /\ borrowed' = borrowed
    <3>1. Borrows(Here)
      BY <1>2, <2>2, <2>4 DEF Borrows
    <3>2. CASE Asked(rest, d, chk, "ImageList")
      <4>1. Asks(Here, rest, "Exchange", "ImageList")
        BY <1>1, <1>2, <2>1, <3>2, AskedAsks DEF Underway, Smps
      <4>2. QED
        BY <1>0, <2>1, <3>1, <4>1 DEF Answers, AsksMore
    <3>3. CASE Fail(rest, d, chk, TRUE)
      <4>1. Ends(Here, rest, {})
        BY <1>0, <1>2, <2>1, <3>3, FailAnswers
      <4>2. QED
        BY <3>1, <4>1 DEF Answers
    <3>4. QED
      BY <2>4, <3>2, <3>3
  <2>5. QED
    BY <1>4, <2>3, <2>4
<1>5. QED
  BY <1>3, <1>4 DEF Uploaded

\* The reset is sent once it is durable that the outcome is to be checked.
LEMMA TrialSetAnswers ==
  ASSUME IInv, NEW e \in Event, NEW rest, TrialSet(e, rest) PROVE Answers(e, rest)
<1>0. InSession /\ e.kind = "Reply" /\ UNCHANGED transfer
  BY DEF TrialSet, ReplyTo, Handling
<1>1. /\ active # 0 /\ Here \in Used(Db.jobs) /\ Sound(Db) /\ Borrows(Here)
      /\ Armed(chk, Here) \in [Slots -> Deadline]
  BY <1>0, OpenHere, DbSound, BorrowsNothing, ArmedType, Typed DEF Db, IInv
<1>2. PICK d \in Prepared(Db, Here) :
        \/ IsPrepared(d, Here) /\ Asked(rest, d, Armed(chk, Here), "Reset")
        \/ Fail(rest, d, Armed(chk, Here), FALSE)
  BY DEF TrialSet
<1>3. Leads(Db, d, Here, {})
  BY <1>1, PreparedLeads
<1>4. CASE IsPrepared(d, Here) /\ Asked(rest, d, Armed(chk, Here), "Reset")
  <2>1. d.jobs[Here].phase = "Checking"
    BY <1>4 DEF IsPrepared
  <2>2. Asks(Here, rest, "Exchange", "Reset") /\ jobs' = d.jobs
    BY <1>1, <1>3, <1>4, <2>1, AskedAsks DEF Underway, Smps
  <2>3. QED
    BY <1>0, <1>1, <2>1, <2>2 DEF Answers, AsksMore
<1>5. CASE Fail(rest, d, Armed(chk, Here), FALSE)
  <2>1. Ends(Here, rest, {})
    BY <1>0, <1>1, <1>3, <1>5, FailAnswers
  <2>2. QED
    BY <1>1, <2>1 DEF Answers
<1>6. QED
  BY <1>2, <1>4, <1>5

\* The tag resets: the session is over.
LEMMA ResetSentAnswers ==
  ASSUME IInv, NEW e \in Event, NEW rest, ResetSent(e, rest) PROVE Answers(e, rest)
<1>0. /\ InSession /\ Close(rest, jobs[Here], TRUE)
      /\ UNCHANGED <<jobVars, active, chk, ready, stageVars>>
  BY DEF ResetSent, ReplyTo, Handling
<1>1. /\ Here \in Used(jobs) /\ jobs[Here].id = active /\ jobs[Here] \in Job
      /\ Leads(Db, Db, Here, {}) /\ Db' = Db
  BY <1>0, OpenHere DEF Db, jobVars
<1>2. chk' \in [Slots -> Deadline] /\ active' = active /\ UNCHANGED <<ready, staged, staging>>
  BY <1>0, Typed DEF IInv, stageVars
<1>3. Ends(Here, rest, {})
  BY <1>0, <1>1, <1>2, CloseEnds
<1>4. UNCHANGED transfer
  BY <1>0 DEF stageVars, transfer
<1>5. QED
  BY <1>3, <1>4, BorrowsNothing DEF Answers

-----------------------------------------------------------------------------
(* Steps that submit nothing                                               *)

\* The queue stays sound, and an open session keeps its slot.
WorkKept ==
  /\ jobs' \in Queue /\ nvs' \in Queue /\ disabled' \in BOOLEAN
  /\ ValidRestore(jobs)' /\ ValidRestore(nvs)' /\ SavedBeforeActing'
  /\ active' = active
  /\ active # 0 => /\ Here' = Here /\ TheTag' = TheTag /\ TheRelease' = TheRelease
                   /\ active \in IdsOf(jobs')

\* A handler's change of a slot is of that kind,
LEMMA LeadsKept ==
  ASSUME IInv, NEW s \in Used(jobs), NEW over, Leads(Db, Db', s, over), active' = active
  PROVE  WorkKept /\ (Here # s /\ active # 0 => jobs'[Here] = jobs[Here])
<1>1. /\ jobs' \in Queue /\ nvs' \in Queue /\ disabled' \in BOOLEAN
      /\ ValidRestore(jobs)' /\ ValidRestore(nvs)' /\ SavedBeforeActing'
      /\ \A o \in Slots \ {s} : jobs'[o] = jobs[o]
      /\ \A o \in Used(jobs) : active' = jobs[o].id =>
           /\ Here' = o /\ TheTag' = jobs[o].tag /\ TheRelease' = jobs[o].rel
           /\ active' \in IdsOf(jobs')
  BY WorkStays
<1>2. active # 0 => Here \in Used(jobs) /\ Here \in Slots /\ jobs[Here].id = active
  BY HereUsed, UsedHere
<1>3. QED
  BY <1>1, <1>2 DEF WorkKept, TheTag, TheRelease

\* and so is no change.
LEMMA NothingKept ==
  ASSUME IInv, UNCHANGED <<jobVars, active>>
  PROVE  WorkKept /\ jobs' = jobs
<1>1. UNCHANGED <<jobs, nvs, disabled, active>>
  BY DEF jobVars
<1>2. jobs \in Queue /\ nvs \in Queue /\ disabled \in BOOLEAN
  BY Typed DEF IInv
<1>3. ValidRestore(jobs)' /\ ValidRestore(nvs)' /\ SavedBeforeActing'
  BY <1>1 DEF IInv, SavedBeforeActing
<1>4. QED
  BY <1>1, <1>2, <1>3, HereStays DEF WorkKept, IInv, SessionHeld

\* A job is put into a slot that no session uses, and written or not.
LEMMA PutKept ==
  ASSUME IInv, NEW s \in Slots, NEW k \in Job, Legal(k),
         \A o \in Used(jobs) \ {s} : jobs[o].id # k.id /\ (Live(k) /\ Live(jobs[o]) => jobs[o].tag # k.tag),
         active # 0 => Here # s,
         ~disabled, NEW d \in Checkpoint(Db, s, k), Store(d), active' = active
  PROVE  /\ WorkKept /\ jobs' = [jobs EXCEPT ![s] = k] /\ nvs' \in {nvs, jobs'}
         /\ active # 0 => jobs'[Here] = jobs[Here]
<1> DEFINE q == [jobs EXCEPT ![s] = k]
<1>0. jobs \in Queue /\ nvs \in Queue /\ ValidRestore(jobs) /\ ValidRestore(nvs)
  BY Typed DEF IInv
<1>1. /\ q \in Queue /\ ValidRestore(q) /\ Used(q) = Used(jobs) \union {s} /\ q[s] = k
      /\ \A o \in Slots \ {s} : q[o] = jobs[o]
  BY <1>0, SlotReplaced DEF Queue
<1>2. \/ d = [jobs |-> q, nvs |-> q, disabled |-> FALSE]
      \/ \E n \in {nvs, q} : d = [jobs |-> q, nvs |-> n, disabled |-> TRUE]
  BY DEF Checkpoint, Db
<1> HIDE DEF q
<1>3. /\ jobs' = q /\ nvs' \in {nvs, q} /\ disabled' \in BOOLEAN
      /\ ~disabled' => nvs' = q
  <2>0. jobs' = d.jobs /\ nvs' = d.nvs /\ disabled' = d.disabled
    BY DEF Store
  <2>1. CASE d = [jobs |-> q, nvs |-> q, disabled |-> FALSE]
    BY <2>0, <2>1
  <2>2. ASSUME NEW n \in {nvs, q}, d = [jobs |-> q, nvs |-> n, disabled |-> TRUE]
        PROVE  jobs' = q /\ nvs' \in {nvs, q} /\ disabled' = TRUE
    BY <2>0, <2>2
  <2>3. QED
    BY <1>2, <2>1, <2>2
<1>4. ValidRestore(jobs)' /\ ValidRestore(nvs)' /\ SavedBeforeActing'
  BY <1>0, <1>1, <1>3 DEF SavedBeforeActing
<1>5. active # 0 => Here \in Used(jobs) /\ Here \in Slots \ {s} /\ jobs[Here].id = active
  BY HereUsed, UsedHere
<1>6. active # 0 => Here \in Used(q) /\ q[Here] = jobs[Here]
  BY <1>1, <1>5
<1>7. active # 0 => Here' = Here
  BY <1>1, <1>3, <1>5, <1>6, SlotOfId DEF Here
<1>8. active # 0 => /\ TheTag' = TheTag /\ TheRelease' = TheRelease
                    /\ active \in IdsOf(jobs')
  BY <1>3, <1>5, <1>6, <1>7 DEF TheTag, TheRelease, IdsOf
<1>9. QED
  BY <1>0, <1>1, <1>3, <1>4, <1>6, <1>7, <1>8 DEF WorkKept, q

\* What is left of the events after the first one is handled or dropped.
LEMMA RestHeld ==
  ASSUME IInv, events # <<>>, events' = Tail(events)
  PROVE  /\ events' \in EventQueue
         /\ \A i \in 1..Len(events') : \E k \in 1..Len(events) : events'[i] = events[k]
BY RestQueue, Typed DEF IInv

\* A step that keeps the work and submits nothing keeps the invariant.
LEMMA SteadyKeeps ==
  ASSUME IInv, WorkKept, UNCHANGED <<mailbox, wk, fault, inbox, dev>>,
         events' = events \/ (events # <<>> /\ events' = Tail(events)),
         ses' \in Session, active = 0 => ses' = ses, Open' => jobs'[Here].phase \in Underway,
         chk' \in [Slots -> Deadline], cooling' \in BOOLEAN, ready' \in BOOLEAN,
         staged' \in Releases \union {None}, staging' \in BOOLEAN, borrowed' = borrowed,
         borrowed => UNCHANGED <<staged, staging>>, stalled' = stalled
  PROVE  IInv'
<1>0. /\ jobs' \in Queue /\ nvs' \in Queue /\ disabled' \in BOOLEAN
      /\ ValidRestore(jobs)' /\ ValidRestore(nvs)' /\ SavedBeforeActing'
      /\ active' = active
      /\ active # 0 => /\ Here' = Here /\ TheTag' = TheTag /\ TheRelease' = TheRelease
                       /\ active \in IdsOf(jobs')
  BY DEF WorkKept
<1>1. /\ events' \in EventQueue
      /\ \A i \in 1..Len(events') : \E k \in 1..Len(events) : events'[i] = events[k]
  <2>1. CASE events' = events
    BY <2>1, Typed DEF IInv
  <2>2. QED
    BY <2>1, RestHeld
<1>2. TypeOK'
  BY <1>0, <1>1, Typed DEF IInv, TypeOK, TransportTypeOK, EventQueue, Queue
<1>3. SessionHeld'
  BY <1>0 DEF IInv, SessionHeld, Open
<1>4. mailbox # None \/ wk.tag # None => active # 0
  BY DEF IInv, SessionHeld, AtRest
<1>5. MailHeld'
  BY <1>0, <1>1, <1>4 DEF IInv, MailHeld
<1>6. StageStaysBorrowed'
  <2>1. borrowed => active # 0 /\ ~staging /\ staged = TheRelease
    BY DEF IInv, StageStaysBorrowed, TheRelease
  <2>2. borrowed' => active' # 0 /\ ~staging' /\ staged' = TheRelease'
    BY <1>0, <2>1
  <2>3. mailbox' # None /\ mailbox'.smp = "Upload" => borrowed' /\ staged' = mailbox'.rel
    BY DEF IInv, StageStaysBorrowed
  <2>4. QED
    BY <2>2, <2>3 DEF StageStaysBorrowed, TheRelease
<1>7. QED
  BY <1>0, <1>2, <1>3, <1>5, <1>6 DEF IInv

-----------------------------------------------------------------------------
(* The steps of the main loop                                              *)

\* Whatever an open session answers to an event keeps the invariant.
LEMMA AnswersKeep ==
  ASSUME IInv, InSession, events # <<>>, Answers(Head(events), Tail(events))
  PROVE  IInv'
<1> DEFINE e == Head(events) rest == Tail(events)
<1>0. Here \in Used(jobs) /\ active = jobs[Here].id /\ active # 0 /\ active \in {0, jobs[Here].id}
  BY OpenHere
<1>1. rest \in EventQueue /\ Borrows(Here)
  BY RestQueue, Typed DEF IInv, Answers
<1>2. CASE \E over : Ends(Here, rest, over)
  BY <1>0, <1>1, <1>2, EndsKeeps
<1>3. CASE \E kind, smp : Asks(Here, rest, kind, smp)
  BY <1>0, <1>1, <1>3, AsksKeeps
<1>4. CASE Polls(e, rest)
  <2>1. /\ Leads(Db, Db', Here, {}) /\ active' = active /\ jobs'[Here].phase = "Checking"
        /\ UNCHANGED <<mailbox, wk, fault, inbox, dev>> /\ events' = rest
        /\ ses' \in Session /\ chk' \in [Slots -> Deadline]
        /\ UNCHANGED <<cooling, ready, staged, staging, borrowed, stalled>>
    BY <1>4 DEF Polls, stageVars
  <2>2. WorkKept
    BY <1>0, <2>1, LeadsKept
  <2>3. /\ cooling \in BOOLEAN /\ ready \in BOOLEAN /\ staging \in BOOLEAN
        /\ staged \in Releases \union {None}
    BY Typed DEF IInv
  <2>4. jobs'[Here].phase \in Underway
    BY <2>1 DEF Underway
  <2>5. QED
    BY <1>0, <2>1, <2>2, <2>3, <2>4, SteadyKeeps
<1>5. QED
  BY <1>2, <1>3, <1>4
     DEF Answers, FindsInstalled, FindsAnother, SendsBlock, SendsTrial, AsksMore

\* A disabled updater closes its session.
LEMMA CloseDisabledKeeps ==
  ASSUME IInv, CloseDisabled PROVE Ends(Here, events, {}) /\ IInv'
<1>0. /\ InSession /\ Close(events, jobs[Here], FALSE)
      /\ UNCHANGED <<jobVars, active, chk, ready, stageVars>>
  BY DEF CloseDisabled
<1>1. /\ Here \in Used(jobs) /\ jobs[Here].id = active /\ jobs[Here] \in Job
      /\ Leads(Db, Db, Here, {}) /\ Db' = Db
  BY <1>0, OpenHere DEF Db, jobVars
<1>2. /\ chk' \in [Slots -> Deadline] /\ active' = active /\ UNCHANGED <<ready, staged, staging>>
      /\ UNCHANGED transfer /\ events \in EventQueue
  BY <1>0, Typed DEF IInv, stageVars, transfer
<1>3. Ends(Here, events, {})
  BY <1>0, <1>1, <1>2, CloseEnds
<1>4. QED
  BY <1>1, <1>2, <1>3, EndsKeeps, BorrowsNothing

\* A deadline ends the session.
LEMMA SessionOverdueKeeps ==
  ASSUME IInv, SessionOverdue PROVE Ends(Here, events, {}) /\ IInv'
<1>0. /\ InSession /\ UNCHANGED transfer
      /\ \E retryable \in BOOLEAN : Fail(events, Db, chk, retryable)
  BY DEF SessionOverdue
<1>1. Ends(Here, events, {})
  BY <1>0, FailAnswers, OpenHere, Typed DEF IInv
<1>2. /\ Here \in Used(jobs) /\ jobs[Here].id = active /\ events \in EventQueue
  BY <1>0, OpenHere, Typed DEF IInv
<1>3. QED
  BY <1>0, <1>1, <1>2, EndsKeeps, BorrowsNothing

\* The tag is asked again.
LEMMA PollAgainKeeps ==
  ASSUME IInv, PollAgain
  PROVE  (Ends(Here, events, {}) \/ AsksMore(TRUE, events)) /\ Borrows(Here) /\ IInv'
<1>0. InSession /\ Ask(events, "ImageList", TRUE)
  BY DEF PollAgain
<1>1. Borrows(Here) /\ (Ends(Here, events, {}) \/ AsksMore(TRUE, events))
  BY <1>0, AskAnswers
<1>2. /\ Here \in Used(jobs) /\ jobs[Here].id = active /\ events \in EventQueue
  BY <1>0, OpenHere, Typed DEF IInv
<1>3. QED
  BY <1>1, <1>2, EndsKeeps, AsksKeeps DEF AsksMore

\* The acknowledged disconnect finds nothing left of the session.
LEMMA FinishCloseKeeps ==
  ASSUME IInv, events # <<>>, FinishClose(Head(events), Tail(events)) PROVE IInv'
<1> DEFINE e == Head(events) rest == Tail(events)
<1>0. /\ events' = rest /\ active' = 0 /\ ses' = NoSession /\ borrowed' = FALSE
      /\ UNCHANGED <<mailbox, wk, fault, inbox, dev, jobs, nvs, disabled, chk, cooling, ready>>
      /\ UNCHANGED <<staged, staging, stalled>> /\ e.kind = "Disconnected"
  BY DEF FinishClose, Finishes, jobVars
<1>1. e = events[1] /\ 1 \in 1..Len(events)
  BY RestQueue, Typed DEF IInv
<1>2. wk = AtRest /\ mailbox = None
  BY <1>0, <1>1 DEF IInv, MailHeld, StaleEvent
<1>3. /\ events' \in EventQueue
      /\ \A i \in 1..Len(events') : \E k \in 1..Len(events) : events'[i] = events[k]
  BY <1>0, RestHeld
<1>4. TypeOK'
  <2>1. NoSession \in Session /\ 0 \in 0..IdMax
    BY DEF NoSession, Session, Smps
  <2>2. TransportTypeOK'
    BY <1>0, <1>3, Typed DEF IInv, TransportTypeOK, EventQueue
  <2>3. QED
    BY <1>0, <2>1, <2>2, Typed DEF IInv, TypeOK, Queue
<1>5. MailHeld'
  BY <1>0, <1>2, <1>3 DEF IInv, MailHeld, AtRest
<1>6. SessionHeld' /\ StageStaysBorrowed'
  BY <1>0, <1>2 DEF SessionHeld, Open, StageStaysBorrowed
<1>7. ValidRestore(jobs)' /\ ValidRestore(nvs)' /\ SavedBeforeActing'
  BY <1>0 DEF IInv, SavedBeforeActing
<1>8. QED
  BY <1>4, <1>5, <1>6, <1>7 DEF IInv

\* Nothing comes of a dropped event.
LEMMA DropEventKeeps ==
  ASSUME IInv, events # <<>>, DropEvent(Head(events), Tail(events)) PROVE IInv'
<1>0. /\ events' = Tail(events) /\ UNCHANGED <<mailbox, wk, fault, inbox, dev>>
      /\ UNCHANGED <<jobVars, active>> /\ UNCHANGED <<ses, chk, cooling, ready>>
      /\ UNCHANGED <<staged, staging, borrowed, stalled>>
  BY DEF DropEvent, ctlVars, stageVars
<1>1. WorkKept /\ jobs' = jobs
  BY <1>0, NothingKept
<1>2. Open' => jobs'[Here].phase \in Underway
  BY <1>0, <1>1 DEF IInv, SessionHeld, Open
<1>3. QED
  BY <1>0, <1>1, <1>2, SteadyKeeps, Typed DEF IInv

\* An event is answered, ends the closing session, or is dropped.
LEMMA HandleEventSplit ==
  ASSUME IInv, HandleEvent
  PROVE  /\ events # <<>>
         /\ \/ InSession /\ ~Overdue /\ Answers(Head(events), Tail(events))
            \/ FinishClose(Head(events), Tail(events))
            \/ DropEvent(Head(events), Tail(events))
<1> DEFINE e == Head(events) rest == Tail(events)
<1>0. events # <<>>
  BY DEF HandleEvent
<1>1. e \in Event /\ (e.kind = "Reply" => e.reply \in Reply)
  BY <1>0, RestQueue, Typed DEF IInv, MailHeld
<1>2. CASE LinkFails(e, rest)
  BY <1>0, <1>1, <1>2, LinkFailsAnswers DEF LinkFails, Handling
<1>3. CASE LinkUp(e, rest)
  BY <1>0, <1>1, <1>3, LinkUpAnswers DEF LinkUp, Handling
<1>4. CASE LinkSecured(e, rest)
  BY <1>0, <1>1, <1>4, LinkSecuredAnswers DEF LinkSecured, Handling
<1>5. CASE Denied(e, rest)
  BY <1>0, <1>1, <1>5, DeniedAnswers DEF Denied, Handling
<1>6. CASE Identified(e, rest)
  BY <1>0, <1>1, <1>6, IdentifiedAnswers DEF Identified, ReplyTo, Handling
<1>7. CASE Inspected(e, rest)
  BY <1>0, <1>1, <1>7, InspectedAnswers DEF Inspected, ReplyTo, Handling
<1>8. CASE Uploaded(e, rest)
  BY <1>0, <1>1, <1>8, UploadedAnswers DEF Uploaded, ReplyTo, Handling
<1>9. CASE TrialSet(e, rest)
  BY <1>0, <1>1, <1>9, TrialSetAnswers DEF TrialSet, ReplyTo, Handling
<1>10. CASE ResetSent(e, rest)
  BY <1>0, <1>1, <1>10, ResetSentAnswers DEF ResetSent, ReplyTo, Handling
<1>11. QED
  BY <1>0, <1>2, <1>3, <1>4, <1>5, <1>6, <1>7, <1>8, <1>9, <1>10 DEF HandleEvent

\* So every event keeps the invariant.
LEMMA HandleEventKeeps ==
  ASSUME IInv, HandleEvent PROVE IInv'
BY HandleEventSplit, AnswersKeep, FinishCloseKeeps, DropEventKeeps

\* A session that cannot be closed disables the updater.
LEMMA DisconnectOverdueKeeps ==
  ASSUME IInv, DisconnectOverdue PROVE IInv'
<1>0. /\ disabled' = TRUE
      /\ UNCHANGED <<mailbox, events, wk, fault, inbox, dev, jobs, nvs, active, ses, chk>>
      /\ UNCHANGED <<cooling, ready, staged, staging, borrowed, stalled>>
  BY DEF DisconnectOverdue, transportVars, stageVars
<1>1. /\ jobs' \in Queue /\ nvs' \in Queue /\ disabled' \in BOOLEAN
      /\ ValidRestore(jobs)' /\ ValidRestore(nvs)' /\ SavedBeforeActing'
  BY <1>0, Typed DEF IInv, SavedBeforeActing
<1>2. WorkKept
  BY <1>0, <1>1, HereStays DEF WorkKept, IInv, SessionHeld
<1>3. Open' => jobs'[Here].phase \in Underway
  BY <1>0 DEF IInv, SessionHeld, Open
<1>4. QED
  BY <1>0, <1>2, <1>3, SteadyKeeps, Typed DEF IInv

\* A disconnect the worker did not take is submitted again.
LEMMA RetryDisconnectKeeps ==
  ASSUME IInv, RetryDisconnect PROVE IInv'
<1>0. /\ active # 0 /\ ses.await = "Disconnected" /\ ~ses.sub
      /\ UNCHANGED <<jobVars, active, chk, cooling, ready, stageVars>>
  BY DEF RetryDisconnect, Closing
<1>1. PICK accepted \in BOOLEAN :
        /\ Submit(events, accepted, Cmd("Disconnect", "TagStatus", jobs[Here]))
        /\ ses' = [ses EXCEPT !.sub = accepted]
  BY DEF RetryDisconnect
<1> DEFINE cmd == Cmd("Disconnect", "TagStatus", jobs[Here])
<1>2. /\ Here \in Used(jobs) /\ jobs[Here].id = active /\ jobs[Here] \in Job
      /\ active \in {0, jobs[Here].id}
  BY <1>0, HereUsed, UsedHere
<1>3. /\ cmd \in Command /\ cmd.smp = "TagStatus"
      /\ cmd.tag = jobs[Here].tag /\ cmd.rel = jobs[Here].rel
  BY <1>2, CmdType DEF Kinds, Smps
<1>4. Leads(Db, Db', Here, {})
  BY <1>0, <1>2, DbSound, LeadsNowhere DEF Db, jobVars
<1>5. ses' \in Session /\ ses'.await = "Disconnected"
  BY <1>0, <1>1, Typed DEF IInv, Session
<1>6. /\ active' = jobs[Here].id /\ events \in EventQueue /\ chk' \in [Slots -> Deadline]
      /\ cooling' \in BOOLEAN /\ UNCHANGED <<ready, staged, staging>> /\ UNCHANGED transfer
  BY <1>0, <1>2, Typed DEF IInv, stageVars, transfer
<1> HIDE DEF cmd
<1>7. Borrows(Here)
  BY <1>6, BorrowsNothing
<1>8. Submit(events, accepted, cmd)
  BY <1>1 DEF cmd
<1>9. QED
  BY <1>2, <1>3, <1>4, <1>5, <1>6, <1>7, <1>8, SubmittedKeeps

-----------------------------------------------------------------------------
(* The API                                                                 *)

\* queue() and retry() put a job where no session is: a new one where no live
\* job is, or the same one that waits for the operator.
Puts(s, k) ==
  /\ s \in Slots /\ k \in Job /\ Legal(k) /\ Live(k)
  /\ \A o \in Used(jobs) \ {s} :
       jobs[o].id # k.id /\ (Live(k) /\ Live(jobs[o]) => jobs[o].tag # k.tag)
  /\ active # 0 => Here # s
  /\ s \in Used(jobs) /\ Live(jobs[s]) =>
       k.tag = jobs[s].tag /\ k.rel = jobs[s].rel /\ k.trial = jobs[s].trial
  /\ \/ s \notin Used(jobs) \/ k.id # jobs[s].id
     \/ jobs[s].phase \in {"NeedsRelease", "NeedsAction"}
  /\ ~disabled
  /\ \E d \in Checkpoint(Db, s, k) : Store(d)
  /\ UNCHANGED <<transportVars, active, ses, cooling, ready, stageVars>>
  /\ chk' \in [Slots -> Deadline]

\* Such a job keeps the invariant, and every session its slot.
LEMMA PutsKeeps ==
  ASSUME IInv, NEW s, NEW k, Puts(s, k)
  PROVE  /\ IInv' /\ WorkKept /\ jobs' = [jobs EXCEPT ![s] = k] /\ nvs' \in {nvs, jobs'}
         /\ active # 0 => jobs'[Here] = jobs[Here]
<1>1. PICK d \in Checkpoint(Db, s, k) : Store(d)
  BY DEF Puts
<1>2. /\ WorkKept /\ jobs' = [jobs EXCEPT ![s] = k] /\ nvs' \in {nvs, jobs'}
      /\ active # 0 => jobs'[Here] = jobs[Here]
  BY <1>1, PutKept DEF Puts
<1>3. /\ UNCHANGED <<mailbox, events, wk, fault, inbox, dev, active, ses, cooling, ready>>
      /\ UNCHANGED <<staged, staging, borrowed, stalled>> /\ chk' \in [Slots -> Deadline]
  BY DEF Puts, transportVars, stageVars
<1>4. Open' => jobs'[Here].phase \in Underway
  BY <1>2, <1>3 DEF IInv, SessionHeld, Open
<1>5. IInv'
  BY <1>2, <1>3, <1>4, SteadyKeeps, Typed DEF IInv
<1>6. QED
  BY <1>2, <1>5

\* The ids of the queue are ids.
LEMMA IdsTyped ==
  ASSUME IInv PROVE IdsOf(jobs) \in SUBSET (1..IdMax)
<1>1. \A s \in Used(jobs) : jobs[s].id \in 1..IdMax
  BY UsedHere DEF Job
<1>2. QED
  BY <1>1 DEF IdsOf

\* A new id is the next above the ids of the queue.
LEMMA NewIdAbove ==
  ASSUME IInv
  PROVE  LET id == 1 + (IF Used(jobs) = {} THEN 0
                        ELSE CHOOSE i \in IdsOf(jobs) : \A k \in IdsOf(jobs) : k <= i)
         IN  /\ id \in Nat \ {0} /\ \A i \in IdsOf(jobs) : i < id
             /\ \A i \in 1..(id - 1) : \E k \in IdsOf(jobs) : i <= k
<1> DEFINE id == 1 + (IF Used(jobs) = {} THEN 0
                      ELSE CHOOSE i \in IdsOf(jobs) : \A k \in IdsOf(jobs) : k <= i)
<1> SUFFICES /\ id \in Nat \ {0} /\ \A i \in IdsOf(jobs) : i < id
             /\ \A i \in 1..(id - 1) : \E k \in IdsOf(jobs) : i <= k
  OBVIOUS
<1>1. CASE Used(jobs) = {}
  <2>1. IdsOf(jobs) = {} /\ id = 1 /\ 1..(1 - 1) = {}
    BY <1>1 DEF IdsOf
  <2> HIDE DEF id
  <2>2. QED
    BY <2>1
<1>2. CASE Used(jobs) # {}
  <2>1. IdsOf(jobs) # {}
    BY <1>2 DEF IdsOf
  <2> DEFINE top == CHOOSE i \in IdsOf(jobs) : \A k \in IdsOf(jobs) : k <= i
  <2>2. top \in IdsOf(jobs) /\ \A k \in IdsOf(jobs) : k <= top
    BY <2>1, IdsTyped, LargestId
  <2>3. top \in 1..IdMax /\ \A k \in IdsOf(jobs) : k \in 1..IdMax
    BY <2>2, IdsTyped
  <2>4. id = 1 + top
    BY <1>2
  <2> HIDE DEF top, id
  <2>5. id \in Nat \ {0} /\ \A i \in 1..(id - 1) : i <= top
    BY <2>3, <2>4
  <2>6. \A k \in IdsOf(jobs) : k < id
    BY <2>2, <2>3, <2>4
  <2>7. QED
    BY <2>2, <2>5, <2>6
<1>3. QED
  BY <1>1, <1>2

\* The slot of a session that is not closing is not given away.
LEMMA OpenIsLive ==
  ASSUME IInv, active # 0, ses.await # "Disconnected"
  PROVE  Here \in Used(jobs) /\ Live(jobs[Here]) /\ jobs[Here].phase \in Underway
BY HereUsed DEF IInv, SessionHeld, Open, Underway, Live, Terminal

\* queue() puts a new job where no live one is.
LEMMA QueueJobPuts ==
  ASSUME IInv, NEW tag \in Tags, QueueJob(tag)
  PROVE  \E s \in Slots, k \in Job :
           /\ Puts(s, k) /\ ~k.trial /\ (s \in Used(jobs) => ~Live(jobs[s]))
           /\ \A o \in Used(jobs) : jobs[o].id # k.id /\ (Live(jobs[o]) => jobs[o].tag # k.tag)
           /\ \A i \in IdsOf(jobs) : i < k.id
           /\ \A i \in 1..(k.id - 1) : \E m \in IdsOf(jobs) : i <= m
<1> DEFINE id == 1 + (IF Used(jobs) = {} THEN 0
                      ELSE CHOOSE i \in IdsOf(jobs) : \A k \in IdsOf(jobs) : k <= i)
           k == NewJob(id, tag, Associated[tag], staged, 0)
<1>1. /\ id \in Nat \ {0} /\ \A i \in IdsOf(jobs) : i < id
      /\ \A i \in 1..(id - 1) : \E m \in IdsOf(jobs) : i <= m
  BY NewIdAbove
<1>2. PICK s \in (IF Used(jobs) # Slots THEN NextUnused(jobs) ELSE Evictable(jobs)) :
        /\ \E d \in Checkpoint(Db, s, k) : Store(d)
        /\ chk' = [chk EXCEPT ![s] = "off"]
  BY DEF QueueJob
<1>3. /\ ~disabled /\ ses.await # "Disconnected" /\ staged # None /\ TagFree(tag)
      /\ id <= IdMax
      /\ UNCHANGED <<transportVars, active, ses, cooling, ready, stageVars>>
  BY DEF QueueJob
<1> HIDE DEF id
<1>4. s \in Slots /\ (s \in Used(jobs) => ~Live(jobs[s]))
  BY <1>2 DEF NextUnused, Evictable, Used
<1>5. staged \in Releases /\ chk' \in [Slots -> Deadline]
  BY <1>2, <1>3, <1>4, Typed DEF IInv, Deadline
<1>6. /\ k \in Job /\ Legal(k) /\ ~k.trial /\ k.id = id /\ k.tag = tag /\ Live(k)
  <2>1. "Queued" \in Phases /\ 0 \in 0..ImageSize /\ 0 \in 0..MaxAttempts /\ id \in 1..IdMax
    BY <1>1, <1>3 DEF Phases
  <2>2. QED
    BY <1>5, <2>1, AssociatedAssumption DEF NewJob, Job, Legal, Live, Terminal, AssociatedAssumption
<1> HIDE DEF k
<1>7. \A o \in Used(jobs) : jobs[o].id # k.id
  <2>1. \A o \in Used(jobs) : jobs[o].id \in IdsOf(jobs) /\ jobs[o].id \in 1..IdMax
    BY UsedHere DEF IdsOf, Job
  <2>2. QED
    BY <1>1, <1>6, <2>1
<1>8. \A o \in Used(jobs) : Live(jobs[o]) => jobs[o].tag # k.tag
  BY <1>3, <1>6 DEF TagFree
<1>9. active # 0 => Here # s
  BY <1>3, <1>4, OpenIsLive
<1>10. Puts(s, k)
  BY <1>2, <1>3, <1>4, <1>5, <1>6, <1>7, <1>8, <1>9 DEF Puts
<1>11. QED
  BY <1>1, <1>4, <1>6, <1>7, <1>8, <1>10

\* retry() puts the same job back to work.
LEMMA RetryJobPuts ==
  ASSUME IInv, NEW s \in Used(jobs), RetryJob(s)
  PROVE  Puts(s, Retried(jobs[s], 0)) /\ Retried(jobs[s], 0).trial = jobs[s].trial
<1> DEFINE k == Retried(jobs[s], 0)
<1>1. s \in Slots /\ jobs[s] \in Job /\ Legal(jobs[s])
  BY UsedHere
<1>2. /\ ~disabled /\ active # jobs[s].id /\ CanRetry(jobs[s], 0)
      /\ \E d \in Checkpoint(Db, s, k) : Store(d)
      /\ UNCHANGED <<transportVars, active, ses, cooling, ready, stageVars>>
      /\ chk' = [chk EXCEPT ![s] = IF jobs[s].trial THEN "run" ELSE "off"]
  BY DEF RetryJob
<1>3. jobs[s].phase \in {"NeedsRelease", "NeedsAction"} /\ Live(jobs[s])
  BY <1>2 DEF CanRetry, Live, Terminal
<1>4. /\ k \in Job /\ Legal(k) /\ k.id = jobs[s].id /\ k.tag = jobs[s].tag /\ k.rel = jobs[s].rel
  BY <1>1, <1>2, RetryFollows DEF Follows
<1>5. k.trial = jobs[s].trial /\ Live(k)
  BY <1>1 DEF Retried, Job, Live, Terminal
<1>6. chk' \in [Slots -> Deadline]
  BY <1>2, Typed DEF IInv, Deadline
<1> HIDE DEF k
<1>7. \A o \in Used(jobs) \ {s} : jobs[o].id # k.id /\ (Live(k) /\ Live(jobs[o]) => jobs[o].tag # k.tag)
  BY <1>3, <1>4 DEF IInv, ValidRestore
<1>8. active # 0 => Here # s
  BY <1>2, HereUsed
<1>9. Puts(s, k)
  BY <1>1, <1>2, <1>3, <1>4, <1>5, <1>6, <1>7, <1>8 DEF Puts
<1>10. QED
  BY <1>5, <1>9 DEF k

\* cancel() of a trial asks for an inspection; the session of the job ends.
LEMMA CancelJobLeads ==
  ASSUME IInv, NEW s \in Used(jobs), CancelJob(s)
  PROVE  LET over == IF jobs[s].trial THEN {} ELSE {"Cancelled"}
         IN  Leads(Db, Db', s, over) /\ jobs'[s] = CancelledJob(jobs[s], 0)
<1> DEFINE j == jobs[s] k == CancelledJob(j, 0) over == IF j.trial THEN {} ELSE {"Cancelled"}
<1>1. s \in Slots /\ j \in Job /\ Legal(j) /\ s \in Used(Db.jobs) /\ Db.jobs = jobs
  BY UsedHere DEF Db
<1>2. CanCancel(j, 0) /\ \E d \in Checkpoint(Db, s, k) : Store(d)
  BY DEF CancelJob
<1>3. Follows(j, k) /\ k.phase = (IF j.trial THEN "Checking" ELSE "Cancelled") /\ k.attempts = j.attempts
  BY <1>1, <1>2, CancelFollows
<1> HIDE DEF k
<1>4. k \in Job /\ Keeps(j, k, over)
  <2>1. j.attempts \in Nat
    BY <1>1 DEF Job
  <2>2. QED
    BY <1>3, <2>1 DEF Keeps, Follows, Live, Terminal
<1>5. PICK d \in Checkpoint(Db, s, k) : Store(d)
  BY <1>2
<1> HIDE DEF over
<1>6. Leads(Db, d, s, over) /\ d.jobs[s] = k
  BY <1>1, <1>4, <1>5, DbSound, CheckpointLeads
<1>7. Db' = d /\ jobs' = d.jobs
  BY <1>5, <1>6, StoreIs DEF Leads, Store
<1>8. QED
  BY <1>6, <1>7 DEF k, over

\* Either the session of the job ends with it, or no session is concerned.
LEMMA CancelJobKeeps ==
  ASSUME IInv, NEW s \in Used(jobs), CancelJob(s)
  PROVE  /\ IInv'
         /\ \/ Ends(s, events, IF jobs[s].trial THEN {} ELSE {"Cancelled"})
            \/ UNCHANGED <<transportVars, ses>> /\ (Open => Here # s)
<1> DEFINE over == IF jobs[s].trial THEN {} ELSE {"Cancelled"}
<1>1. Leads(Db, Db', s, over) /\ jobs'[s] = CancelledJob(jobs[s], 0)
  BY CancelJobLeads
<1> HIDE DEF over
<1>2. s \in Slots /\ jobs[s] \in Job /\ Legal(jobs[s])
  BY UsedHere
<1>3. /\ CancelledJob(jobs[s], 0) \in Job /\ CancelledJob(jobs[s], 0).id = jobs[s].id
      /\ CancelledJob(jobs[s], 0).tag = jobs[s].tag /\ CancelledJob(jobs[s], 0).rel = jobs[s].rel
  BY <1>2, CancelFollows DEF CancelJob, Follows
<1>4. chk' \in [Slots -> Deadline]
  BY <1>2, ArmedType, Typed DEF CancelJob, IInv
<1>5. active' = active /\ UNCHANGED <<ready, staged, staging, borrowed, stalled>>
  BY DEF CancelJob, stageVars
<1>6. CASE jobs[s].id = active /\ ses.await # "Disconnected"
  <2>1. Close(events, CancelledJob(jobs[s], 0), CancelledJob(jobs[s], 0).trial)
    BY <1>3, <1>6 DEF CancelJob
  <2>2. CancelledJob(jobs[s], 0).trial \in BOOLEAN
    BY <1>3 DEF Job
  <2>3. Ends(s, events, over)
    BY <1>1, <1>3, <1>4, <1>5, <1>6, <2>1, <2>2, CloseEnds
  <2>4. UNCHANGED transfer /\ events \in EventQueue
    BY <1>5, Typed DEF transfer, IInv
  <2>5. Borrows(s)
    BY <2>4, BorrowsNothing
  <2>6. IInv'
    BY <1>6, <2>3, <2>4, <2>5, EndsKeeps
  <2>7. QED
    BY <2>3, <2>6 DEF over
<1>7. CASE ~(jobs[s].id = active /\ ses.await # "Disconnected")
  <2>1. /\ UNCHANGED <<transportVars, ses, cooling>>
    BY <1>3, <1>7 DEF CancelJob
  <2>2. UNCHANGED <<mailbox, events, wk, fault, inbox, dev, ses, cooling>>
    BY <2>1 DEF transportVars
  <2>3. WorkKept /\ (Here # s /\ active # 0 => jobs'[Here] = jobs[Here])
    BY <1>1, <1>5, LeadsKept
  <2>4. Open => Here # s
    BY <1>7, HereUsed DEF Open
  <2>5. Open' => jobs'[Here].phase \in Underway
    BY <1>5, <2>2, <2>3, <2>4 DEF IInv, SessionHeld, Open
  <2>6. IInv'
    BY <1>4, <1>5, <2>2, <2>3, <2>5, SteadyKeeps, Typed DEF IInv
  <2>7. QED
    BY <2>1, <2>4, <2>6
<1>8. QED
  BY <1>6, <1>7

\* Uploads into the stage buffer begin and end while no session reads it.
LEMMA StageKeeps ==
  ASSUME IInv, StageBegin \/ StageEnd PROVE IInv'
<1>0. /\ UNCHANGED <<mailbox, events, wk, fault, inbox, dev, ses, chk, cooling, ready>>
      /\ UNCHANGED <<jobVars, active>> /\ UNCHANGED <<borrowed, stalled>>
  BY DEF StageBegin, StageEnd, transportVars, transfer
<1>1. staging' \in BOOLEAN /\ staged' \in Releases \union {None}
  BY DEF StageBegin, StageEnd
<1>2. ~borrowed
  BY Typed DEF IInv, StageStaysBorrowed, StageBegin, StageEnd
<1>3. WorkKept /\ jobs' = jobs
  BY <1>0, NothingKept
<1>4. Open' => jobs'[Here].phase \in Underway
  BY <1>0, <1>3 DEF IInv, SessionHeld, Open
<1>5. QED
  BY <1>0, <1>1, <1>2, <1>3, <1>4, SteadyKeeps, Typed DEF IInv

-----------------------------------------------------------------------------
(* The next job                                                            *)

\* A job is stored while no session is open.
Idles(s) ==
  /\ active = 0 /\ Leads(Db, Db', s, {})
  /\ UNCHANGED <<transportVars, active, ses, chk, cooling, ready, stageVars>>

\* Without a session nothing else is concerned.
LEMMA IdlesKeeps ==
  ASSUME IInv, NEW s \in Used(jobs), Idles(s) PROVE IInv'
<1>1. /\ active = 0 /\ Leads(Db, Db', s, {}) /\ active' = active
      /\ UNCHANGED <<mailbox, events, wk, fault, inbox, dev, ses, chk, cooling, ready>>
      /\ UNCHANGED <<staged, staging, borrowed, stalled>>
  BY DEF Idles, transportVars, stageVars
<1>2. WorkKept
  BY <1>1, LeadsKept
<1>3. ~Open'
  BY <1>1 DEF Open
<1>4. QED
  BY <1>1, <1>2, <1>3, SteadyKeeps, Typed DEF IInv

\* A confirmation that was not seen in time only changes the queue.
LEMMA ExpireCheckIdles ==
  ASSUME IInv, NEW s \in Used(jobs), ExpireCheck(s) PROVE Idles(s)
<1>1. /\ active = 0 /\ jobs[s].phase = "Checking"
      /\ UNCHANGED <<transportVars, active, ses, chk, cooling, ready, stageVars>>
  BY DEF ExpireCheck, Turn, Busy
<1>2. PICK d \in Moved(Db, s, "NeedsAction") : Store(d)
  BY DEF ExpireCheck
<1>3. Live(jobs[s]) /\ AllowedEdge("Checking", "NeedsAction") /\ "NeedsAction" \in Phases \ Terminal
  BY <1>1 DEF Live, Terminal, AllowedEdge, Phases
<1>4. Leads(Db, d, s, {})
  BY <1>1, <1>2, <1>3, MovedHere
<1>5. Db' = d
  BY <1>2, <1>4, StoreIs DEF Leads
<1>6. QED
  BY <1>1, <1>4, <1>5 DEF Idles

\* A queued job is admitted first.
LEMMA AdmittedLeads ==
  ASSUME IInv, NEW s \in Used(jobs), jobs[s].phase \in {"Queued", "Waiting"}, NEW d \in Admitted(s)
  PROVE  /\ Leads(Db, d, s, {}) /\ d.jobs[s].phase = "Waiting"
         /\ Sound(d) /\ s \in Used(d.jobs)
<1>0. Db.jobs = jobs /\ s \in Used(Db.jobs) /\ Sound(Db)
  BY DbSound DEF Db
<1>1. Leads(Db, d, s, {}) /\ d.jobs[s].phase = "Waiting"
  <2>1. CASE jobs[s].phase = "Queued"
    <3>1. d \in Moved(Db, s, "Waiting")
      BY <2>1 DEF Admitted
    <3>2. Live(jobs[s]) /\ AllowedEdge("Queued", "Waiting") /\ "Waiting" \in Phases \ Terminal
      BY <2>1 DEF Live, Terminal, AllowedEdge, Phases
    <3>3. QED
      BY <2>1, <3>1, <3>2, MovedHere
  <2>2. CASE jobs[s].phase = "Waiting"
    <3>1. d = Db
      BY <2>2 DEF Admitted
    <3>2. QED
      BY <1>0, <2>2, <3>1, LeadsNowhere
  <2>3. QED
    BY <2>1, <2>2
<1>2. Sound(d) /\ s \in Used(d.jobs)
  BY <1>0, <1>1, LeadsSound
<1>3. QED
  BY <1>1, <1>2

\* So does a release that is not staged any more.
LEMMA DeferIdles ==
  ASSUME IInv, NEW s \in Used(jobs), Defer(s) PROVE Idles(s)
<1>1. /\ active = 0 /\ jobs[s].phase \in {"Queued", "Waiting"}
      /\ UNCHANGED <<transportVars, active, ses, chk, cooling, ready, stageVars>>
  BY DEF Defer, Turn, Busy
<1>2. PICK d \in Admitted(s) :
        \E e \in (IF d.disabled THEN {d} ELSE Moved(d, s, "NeedsRelease")) : Store(e)
  BY DEF Defer
<1>3. PICK e \in (IF d.disabled THEN {d} ELSE Moved(d, s, "NeedsRelease")) : Store(e)
  BY <1>2
<1>4. Leads(Db, d, s, {}) /\ d.jobs[s].phase = "Waiting" /\ Sound(d) /\ s \in Used(d.jobs)
  BY <1>1, AdmittedLeads
<1>5. Leads(Db, e, s, {})
  <2>1. CASE e = d
    BY <1>4, <2>1
  <2>2. CASE e \in Moved(d, s, "NeedsRelease")
    <3>1. Live(d.jobs[s]) /\ AllowedEdge("Waiting", "NeedsRelease")
          /\ "NeedsRelease" \in Phases /\ "NeedsRelease" \notin Terminal
      BY <1>4 DEF Live, Terminal, AllowedEdge, Phases
    <3>2. Leads(d, e, s, {})
      BY <1>4, <2>2, <3>1, MovedOn
    <3>3. s \in Used(Db.jobs)
      BY DEF Db
    <3>4. QED
      BY <1>4, <3>2, <3>3, DbSound, LeadsTwice
  <2>3. QED
    BY <1>3, <2>1, <2>2
<1>6. Db' = e
  BY <1>3, <1>5, StoreIs DEF Leads
<1>7. QED
  BY <1>1, <1>5, <1>6 DEF Idles

\* Before the link is opened its attempt is counted and saved, or the job is
\* stored with its budget spent.
LEMMA StartLeads ==
  ASSUME IInv, NEW s \in Used(jobs), Start(s)
  PROVE  \/ Idles(s)
         \/ /\ active = 0
            /\ \E e : /\ Leads(Db, e, s, {}) /\ ~e.disabled /\ e.jobs[s].phase \in {"Connecting", "Checking"}
                      /\ Connect(s, e)
<1> DEFINE Job1(d) == IF jobs[s].phase = "Checking" THEN jobs[s] ELSE Transitioned(d.jobs[s], "Connecting", 0)
           Next1(d) == IF d.disabled THEN {d}
                       ELSE IF ~CanAttempt(Job1(d), 0)
                       THEN Checkpoint(d, s, Transitioned(Job1(d), "NeedsAction", 0))
                       ELSE Checkpoint(d, s, Attempted(Job1(d), 0))
<1>0. PICK d \in Admitted(s) :
        \E e \in Next1(d) :
          IF e.disabled \/ ~CanAttempt(Job1(d), 0)
          THEN /\ Store(e)
               /\ UNCHANGED <<transportVars, active, ses, chk, cooling, ready, stageVars>>
          ELSE Connect(s, e)
  BY DEF Start
<1>1. PICK e \in Next1(d) :
        IF e.disabled \/ ~CanAttempt(Job1(d), 0)
        THEN /\ Store(e)
             /\ UNCHANGED <<transportVars, active, ses, chk, cooling, ready, stageVars>>
        ELSE Connect(s, e)
  BY <1>0
<1>2. active = 0 /\ jobs[s].phase \in {"Queued", "Waiting", "Checking"}
  BY DEF Start, Turn, Busy
<1>3. s \in Used(Db.jobs) /\ Sound(Db) /\ Db.jobs = jobs
  BY DbSound DEF Db
<1>4. /\ Leads(Db, d, s, {}) /\ Sound(d) /\ s \in Used(d.jobs)
      /\ jobs[s].phase = "Checking" => d = Db
      /\ jobs[s].phase # "Checking" => d.jobs[s].phase = "Waiting"
  <2>1. CASE jobs[s].phase = "Checking"
    <3>1. d = Db
      BY <2>1 DEF Admitted
    <3>2. QED
      BY <1>3, <2>1, <3>1, LeadsNowhere
  <2>2. CASE jobs[s].phase # "Checking"
    BY <1>2, <2>2, AdmittedLeads
  <2>3. QED
    BY <2>1, <2>2
<1> DEFINE j == d.jobs[s] job == Job1(d)
<1>5. j \in Job /\ Legal(j) /\ j.attempts \in Nat
  BY <1>4, UsedSound DEF Job
<1>6. job \in Job /\ Legal(job) /\ Keeps(j, job, {}) /\ job.phase \in {"Connecting", "Checking"}
  <2>1. CASE jobs[s].phase = "Checking"
    BY <1>3, <1>4, <1>5, <2>1 DEF Keeps
  <2>2. CASE jobs[s].phase # "Checking"
    <3> DEFINE k == Transitioned(j, "Connecting", 0)
    <3>1. Live(j) /\ AllowedEdge(j.phase, "Connecting") /\ "Connecting" \in Phases
      BY <1>4, <2>2 DEF Live, Terminal, AllowedEdge, Phases
    <3>2. Follows(j, k) /\ k.phase = "Connecting" /\ k.attempts = j.attempts
      BY <1>5, <3>1, TransitionFollows
    <3>3. job = k
      BY <2>2
    <3> HIDE DEF k, job, j
    <3>4. QED
      BY <1>5, <3>2, <3>3 DEF Keeps, Follows, Live, Terminal
  <2>3. QED
    BY <2>1, <2>2
<1> HIDE DEF job, j
<1>7. ASSUME NEW k, Follows(job, k), job.attempts <= k.attempts, Live(k), ~d.disabled, e \in Checkpoint(d, s, k)
      PROVE  Leads(Db, e, s, {}) /\ e.jobs[s] = k
  <2>1. k \in Job /\ Keeps(job, k, {})
    BY <1>7 DEF Keeps, Follows
  <2>2. Keeps(j, k, {})
    BY <1>5, <1>6, <2>1, KeepsTwice
  <2>3. Leads(d, e, s, {}) /\ e.jobs[s] = k
    BY <1>4, <1>7, <2>1, <2>2, CheckpointLeads DEF j
  <2>4. QED
    BY <1>3, <1>4, <2>3, LeadsTwice
<1>8. Live(job) /\ job.attempts \in Nat
  BY <1>6 DEF Live, Terminal, Job
<1>9. CASE d.disabled
  <2>1. e = d /\ d \in Snapshot
    BY <1>4, <1>9 DEF Sound
  <2>2. Store(e) /\ UNCHANGED <<transportVars, active, ses, chk, cooling, ready, stageVars>>
    BY <1>1, <1>9, <2>1
  <2>3. Db' = d
    BY <2>1, <2>2, StoreIs
  <2>4. QED
    BY <1>2, <1>4, <2>2, <2>3 DEF Idles
<1>10. CASE ~d.disabled /\ ~CanAttempt(job, 0)
  <2> DEFINE k == Transitioned(job, "NeedsAction", 0)
  <2>1. AllowedEdge(job.phase, "NeedsAction") /\ "NeedsAction" \in Phases
    BY <1>6 DEF AllowedEdge, Phases
  <2>2. Follows(job, k) /\ k.phase = "NeedsAction" /\ k.attempts = job.attempts
    BY <1>6, <1>8, <2>1, TransitionFollows
  <2>3. e \in Checkpoint(d, s, k)
    BY <1>10 DEF job
  <2> HIDE DEF k
  <2>4. Live(k) /\ job.attempts <= k.attempts
    BY <1>8, <2>2 DEF Live, Terminal
  <2>5. Leads(Db, e, s, {})
    BY <1>7, <1>10, <2>2, <2>3, <2>4
  <2>6. Store(e) /\ UNCHANGED <<transportVars, active, ses, chk, cooling, ready, stageVars>>
    BY <1>1, <1>10 DEF job
  <2>7. Db' = e
    BY <2>5, <2>6, StoreIs DEF Leads
  <2>8. QED
    BY <1>2, <2>5, <2>6, <2>7 DEF Idles
<1>11. CASE ~d.disabled /\ CanAttempt(job, 0)
  <2> DEFINE k == Attempted(job, 0)
  <2>2. Follows(job, k) /\ k.phase = job.phase /\ k.attempts = job.attempts + 1
    BY <1>6, <1>11, AttemptFollows
  <2>3. e \in Checkpoint(d, s, k)
    BY <1>11 DEF job
  <2> HIDE DEF k
  <2>4. Live(k) /\ job.attempts <= k.attempts
    BY <1>6, <1>8, <2>2 DEF Live, Terminal
  <2>5. Leads(Db, e, s, {}) /\ e.jobs[s].phase = job.phase
    BY <1>7, <1>11, <2>2, <2>3, <2>4
  <2>6. CASE e.disabled
    <3>1. Store(e) /\ UNCHANGED <<transportVars, active, ses, chk, cooling, ready, stageVars>>
      BY <1>1, <2>6
    <3>2. Db' = e
      BY <2>5, <3>1, StoreIs DEF Leads
    <3>3. QED
      BY <1>2, <2>5, <3>1, <3>2 DEF Idles
  <2>7. CASE ~e.disabled
    <3>1. Connect(s, e)
      BY <1>1, <1>11, <2>7 DEF job
    <3>2. QED
      BY <1>2, <1>6, <2>5, <2>7, <3>1
  <2>8. QED
    BY <2>6, <2>7
<1>12. QED
  BY <1>9, <1>10, <1>11

\* The session begins with a command to connect, or ends at once.
LEMMA ConnectBegins ==
  ASSUME IInv, NEW s \in Used(jobs), active = 0, NEW e, Leads(Db, e, s, {}), ~e.disabled,
         e.jobs[s].phase \in {"Connecting", "Checking"}, Connect(s, e)
  PROVE  /\ Borrows(s)
         /\ \/ Ends(s, events, {})
            \/ /\ Asks(s, events, "Connect", "TagStatus")
               /\ jobs'[s].phase \in {"Connecting", "Checking"}
<1>0. s \in Used(Db.jobs) /\ Db.jobs = jobs /\ s \in Slots /\ jobs[s] \in Job
  BY UsedHere DEF Db
<1>1. e.jobs[s].id = jobs[s].id
  BY <1>0, DbSound, LeadsSound DEF SameWork
<1>2. active' = jobs[s].id /\ stalled' = 0 /\ borrowed' = borrowed
  BY <1>1 DEF Connect
<1>3. Borrows(s)
  BY <1>2, Typed DEF IInv, Borrows
<1>4. CASE /\ Submit(events, TRUE, Cmd("Connect", "TagStatus", jobs[s]))
           /\ ses' = [NoSession EXCEPT !.await = "Connected"]
           /\ Store(e)
           /\ UNCHANGED <<chk, cooling, ready, staged, staging>>
  <2> DEFINE cmd == Cmd("Connect", "TagStatus", jobs[s])
  <2>1. /\ cmd \in Command /\ cmd.kind = "Connect" /\ cmd.smp = "TagStatus"
        /\ cmd.tag = jobs[s].tag /\ cmd.rel = jobs[s].rel
    BY <1>0, CmdType DEF Kinds, Smps
  <2>2. ses' \in Session /\ ses'.await = "Connected"
    BY <1>4 DEF NoSession, Session, Smps
  <2>3. Db' = e /\ jobs' = e.jobs /\ disabled' = e.disabled
    BY <1>4, StoreIs DEF Leads, Store
  <2>4. chk' \in [Slots -> Deadline] /\ cooling' \in BOOLEAN /\ UNCHANGED <<ready, staged, staging>>
    BY <1>4, Typed DEF IInv
  <2>5. Submit(events, TRUE, cmd)
    BY <1>4
  <2> HIDE DEF cmd
  <2>6. Asks(s, events, "Connect", "TagStatus")
    BY <1>2, <2>1, <2>2, <2>3, <2>4, <2>5 DEF Asks, Underway
  <2>7. QED
    BY <1>3, <2>3, <2>6
<1>5. CASE FailIn(s, events, e, chk, TRUE)
  <2>1. Ends(s, events, {})
    BY <1>2, <1>5, FailEnds, Typed DEF IInv
  <2>2. QED
    BY <1>3, <2>1
<1>6. QED
  BY <1>4, <1>5 DEF Connect

\* start()
LEMMA StartBegins ==
  ASSUME IInv, NEW s \in Used(jobs), Start(s)
  PROVE  /\ IInv'
         /\ \/ Idles(s)
            \/ /\ active = 0 /\ Borrows(s)
               /\ \/ Ends(s, events, {})
                  \/ /\ Asks(s, events, "Connect", "TagStatus")
                     /\ jobs'[s].phase \in {"Connecting", "Checking"}
<1>1. events \in EventQueue
  BY Typed DEF IInv
<1>2. \/ Idles(s)
      \/ /\ active = 0 /\ Borrows(s)
         /\ \/ Ends(s, events, {})
            \/ /\ Asks(s, events, "Connect", "TagStatus")
               /\ jobs'[s].phase \in {"Connecting", "Checking"}
  BY StartLeads, ConnectBegins
<1>3. QED
  BY <1>1, <1>2, IdlesKeeps, EndsKeeps, AsksKeeps

-----------------------------------------------------------------------------
(* Time, and restarts                                                      *)

\* Deadlines pass at any time.
LEMMA ClockKeeps ==
  ASSUME IInv, ClockStep
  PROVE  /\ IInv' /\ WorkKept /\ jobs' = jobs /\ nvs' = nvs /\ disabled' = disabled
         /\ UNCHANGED transportVars /\ ses'.await = ses.await
<1>0. ses \in Session /\ chk \in [Slots -> Deadline]
  BY Typed DEF IInv
<1>1. /\ UNCHANGED transportVars /\ UNCHANGED jobVars /\ UNCHANGED <<active, ready>>
      /\ UNCHANGED stageVars
  BY DEF ClockStep, DeadlinePasses, SessionDeadlinePasses, CooldownPasses, ConfirmationDeadlinePasses
<1>2. /\ ses' \in Session /\ ses'.await = ses.await /\ (active = 0 => ses' = ses)
      /\ chk' \in [Slots -> Deadline] /\ cooling' \in BOOLEAN
  <2>1. CASE DeadlinePasses
    BY <1>0, <2>1, Typed DEF IInv, DeadlinePasses, Session
  <2>2. CASE SessionDeadlinePasses
    BY <1>0, <2>2, Typed DEF IInv, SessionDeadlinePasses, Session
  <2>3. CASE CooldownPasses
    BY <1>0, <2>3, Typed DEF IInv, CooldownPasses
  <2>4. ASSUME NEW s \in Slots, ConfirmationDeadlinePasses(s)
        PROVE  chk' \in [Slots -> Deadline] /\ ses' = ses /\ cooling' = cooling
    BY <1>0, <2>4 DEF ConfirmationDeadlinePasses, Deadline
  <2>5. QED
    BY <1>0, <2>1, <2>2, <2>3, <2>4, Typed DEF IInv, ClockStep
<1>3. WorkKept /\ jobs' = jobs /\ nvs' = nvs /\ disabled' = disabled
  BY <1>1, NothingKept DEF jobVars
<1>4. Open' => jobs'[Here].phase \in Underway
  BY <1>1, <1>2, <1>3 DEF IInv, SessionHeld, Open
<1>5. /\ UNCHANGED <<mailbox, events, wk, fault, inbox, dev>>
      /\ UNCHANGED <<staged, staging, borrowed, stalled>>
  BY <1>1 DEF transportVars, stageVars
<1>6. IInv'
  BY <1>1, <1>2, <1>3, <1>4, <1>5, SteadyKeeps, Typed DEF IInv
<1>7. QED
  BY <1>1, <1>2, <1>3, <1>6

\* The queue that begin() makes of a snapshot.
RestoredQueue(q) == [s \in Slots |-> IF q[s] = None THEN None ELSE Restored(q[s], 0)]

\* It is sound, with the same slots in use.
LEMMA RestoredSound ==
  ASSUME NEW q \in Queue, ValidRestore(q)
  PROVE  /\ RestoredQueue(q) \in Queue /\ ValidRestore(RestoredQueue(q))
         /\ Used(RestoredQueue(q)) = Used(q)
<1> DEFINE r == RestoredQueue(q)
<1>1. \A s \in Used(q) :
        /\ s \in Slots /\ q[s] # None /\ r[s] = Restored(q[s], 0)
        /\ r[s] \in Job /\ r[s] # None /\ Legal(r[s])
        /\ r[s].id = q[s].id /\ r[s].tag = q[s].tag /\ r[s].rel = q[s].rel
        /\ r[s].trial = q[s].trial /\ (Live(r[s]) <=> Live(q[s]))
  BY UsedLegal, RestoredLegal DEF Queue, RestoredQueue, Used
<1>2. \A s \in Slots : q[s] = None => r[s] = None
  BY DEF RestoredQueue
<1>3. r \in Queue
  <2>1. \A s \in Slots : (IF q[s] = None THEN None ELSE Restored(q[s], 0)) \in Job \union {None}
    BY <1>1 DEF Used
  <2>2. QED
    BY <2>1 DEF RestoredQueue, Queue
<1>4. Used(r) = Used(q)
  BY <1>1, <1>2 DEF Used
<1> HIDE DEF r
<1>5. ValidRestore(r)
  BY <1>1, <1>4 DEF ValidRestore, Legal
<1>6. QED
  BY <1>3, <1>4, <1>5 DEF r

\* A restart finds the snapshot sound, brings it back, or leaves the updater
\* off; nothing of the session is left.
LEMMA RestartKeeps ==
  ASSUME IInv, NEW saved \in BOOLEAN, Restart(saved)
  PROVE  /\ IInv' /\ UNCHANGED <<inbox, dev>> /\ mailbox' = None /\ events' = <<>> /\ wk' = AtRest
         /\ active' = 0 /\ ses' = NoSession
         /\ nvs' \in {nvs, RestoredQueue(nvs)}
<1> DEFINE q == RestoredQueue(nvs)
<1>0. nvs \in Queue /\ ValidRestore(nvs)
  BY Typed DEF IInv
<1>1. q \in Queue /\ ValidRestore(q)
  BY <1>0, RestoredSound
<1>2. /\ mailbox' = None /\ events' = <<>> /\ wk' = AtRest /\ fault' = FALSE
      /\ active' = 0 /\ ses' = NoSession /\ cooling' = FALSE
      /\ staged' = None /\ staging' = FALSE /\ borrowed' = FALSE /\ stalled' = 0
      /\ UNCHANGED <<inbox, dev>>
  BY DEF Restart
<1>3. /\ jobs' \in Queue /\ nvs' \in {nvs, q} /\ disabled' \in BOOLEAN /\ ready' \in BOOLEAN
      /\ chk' \in [Slots -> Deadline] /\ ValidRestore(jobs)' /\ SavedBeforeActing'
  <2>1. CASE saved
    <3>1. /\ jobs' = q /\ nvs' = q /\ ready' = TRUE /\ disabled' = FALSE
          /\ chk' = [s \in Slots |->
                       IF s \in Used(q) /\ q[s].phase = "Checking" THEN "run" ELSE "off"]
      BY <1>0, <2>1 DEF Restart, Recover, RestoredQueue
    <3> HIDE DEF q
    <3>2. chk' \in [Slots -> Deadline]
      BY <3>1 DEF Deadline
    <3>3. QED
      BY <1>1, <3>1, <3>2 DEF SavedBeforeActing
  <2>2. CASE ~saved
    <3>1. /\ jobs' = [s \in Slots |-> None] /\ nvs' \in {nvs, q}
          /\ ready' = FALSE /\ disabled' = TRUE
          /\ chk' = [s \in Slots |-> "off"]
      BY <2>2 DEF Restart, Recover, RestoredQueue
    <3> HIDE DEF q
    <3>2. chk' \in [Slots -> Deadline] /\ jobs' \in Queue
      BY <3>1 DEF Deadline, Queue
    <3>3. Used(jobs') = {}
      BY <3>1 DEF Used
    <3>4. ValidRestore(jobs)' /\ SavedBeforeActing'
      BY <3>1, <3>3 DEF ValidRestore, SavedBeforeActing
    <3>5. QED
      BY <3>1, <3>2, <3>4
  <2>3. QED
    BY <2>1, <2>2
<1> HIDE DEF q
<1>4. nvs' \in Queue /\ ValidRestore(nvs)'
  BY <1>0, <1>1, <1>3
<1>5. TypeOK'
  <2>1. NoSession \in Session /\ 0 \in 0..IdMax /\ 0 \in 0..(StallMax - 1)
    BY DEF NoSession, Session, Smps
  <2>2. <<>> \in Seq(Event) /\ Len(<<>>) <= EventMax
    OBVIOUS
  <2>3. AtRest \in Worker
    BY DEF AtRest, Worker, Steps
  <2>4. TransportTypeOK'
    BY <1>2, <2>2, <2>3, Typed DEF IInv, TransportTypeOK
  <2>5. QED
    BY <1>2, <1>3, <1>4, <2>1, <2>4 DEF TypeOK, Queue
<1>6. MailHeld'
  <2>1. AtRest.tag = None /\ AtRest.step = "Idle"
    BY DEF AtRest
  <2>2. Len(<<>>) = 0
    OBVIOUS
  <2>3. QED
    BY <1>2, <2>1, <2>2 DEF MailHeld
<1>7. SessionHeld' /\ StageStaysBorrowed'
  BY <1>2 DEF SessionHeld, Open, StageStaysBorrowed
<1>8. QED
  BY <1>2, <1>3, <1>4, <1>5, <1>6, <1>7 DEF IInv, q

-----------------------------------------------------------------------------
(* The worker                                                              *)

\* A step of the transport that keeps to it keeps the invariant.
LEMMA TransportKeeps ==
  ASSUME IInv, UNCHANGED ctlVars, TransportTypeOK', MailHeld',
         mailbox' = mailbox \/ mailbox' = None, active = 0 => mailbox' = None /\ wk' = AtRest
  PROVE  IInv'
<1>1. /\ UNCHANGED <<jobs, nvs, disabled, active, ses, chk, cooling, ready>>
      /\ UNCHANGED <<staged, staging, borrowed, stalled>>
  BY DEF ctlVars, jobVars, stageVars
<1>2. Here' = Here /\ TheTag' = TheTag /\ TheRelease' = TheRelease /\ IdsOf(jobs)' = IdsOf(jobs)
  BY <1>1, HereStays
<1>3. TypeOK'
  BY <1>1 DEF IInv, TypeOK
<1>4. ValidRestore(jobs)' /\ ValidRestore(nvs)' /\ SavedBeforeActing'
  BY <1>1 DEF IInv, SavedBeforeActing
<1>5. SessionHeld'
  BY <1>1, <1>2 DEF IInv, SessionHeld, Open
<1>6. StageStaysBorrowed'
  BY <1>1, <1>2 DEF IInv, StageStaysBorrowed
<1>7. QED
  BY <1>3, <1>4, <1>5, <1>6 DEF IInv

\* emit() adds at most one event, which is stale or of the latest operation.
LEMMA Emitted ==
  ASSUME IInv, NEW kind \in {"Connected", "Secured", "Reply", "Disconnected", "Failed"},
         NEW transient \in BOOLEAN, NEW reply \in Reply \union {None}, Emit(kind, transient, reply)
  PROVE  /\ events' \in EventQueue /\ fault' \in BOOLEAN
         /\ \A i \in 1..Len(events') :
              \/ events'[i] = StaleEvent
              \/ \E k \in 1..Len(events) : events'[i] = events[k]
              \/ /\ wk.fresh /\ Len(events) < EventMax
                 /\ events'[i] = [kind |-> kind, transient |-> transient, reply |-> reply]
<1> DEFINE e == IF ~wk.fresh THEN StaleEvent
                ELSE [kind |-> kind, transient |-> transient, reply |-> reply]
<1>0. events \in EventQueue /\ fault \in BOOLEAN
  BY Typed DEF IInv
<1>1. e \in Event
  BY DEF StaleEvent, Event
<1>2. CASE Len(events) < EventMax
  <2>1. events' = Append(events, e) /\ fault' = fault
    BY <1>2 DEF Emit
  <2>2. e = StaleEvent \/ (wk.fresh /\ e = [kind |-> kind, transient |-> transient, reply |-> reply])
    OBVIOUS
  <2> HIDE DEF e
  <2>3. /\ Append(events, e) \in EventQueue /\ Len(Append(events, e)) = Len(events) + 1
        /\ Append(events, e)[Len(events) + 1] = e
        /\ \A i \in 1..Len(events) : Append(events, e)[i] = events[i]
    BY <1>0, <1>1, <1>2, AddedQueue
  <2>4. Len(events) \in Nat
    BY <1>0, LenProperties DEF EventQueue
  <2>5. ASSUME NEW i \in 1..Len(events')
        PROVE  events'[i] = e \/ \E k \in 1..Len(events) : events'[i] = events[k]
    BY <2>1, <2>3, <2>4
  <2>6. QED
    BY <1>0, <1>2, <2>1, <2>2, <2>3, <2>5
<1>3. CASE ~(Len(events) < EventMax)
  BY <1>0, <1>3 DEF Emit
<1>4. QED
  BY <1>2, <1>3

\* A session that is being torn down is a worker's state with nothing to say.
LEMMA ClosedTyped ==
  ASSUME NEW w \in Worker
  PROVE  /\ Closed(w) \in Worker /\ Closed(w).tag = w.tag /\ Closed(w).fresh = w.fresh
         /\ Closed(w).step \in {"Closing", "Quiet"}
BY DEF Closed, Worker, Steps

\* The worker takes a command: one of the session's, and nothing else is fresh.
LEMMA TakeCommandKeeps ==
  ASSUME IInv, TakeCommand, UNCHANGED ctlVars PROVE IInv'
<1>0. /\ wk \in Worker /\ AtRest \in Worker /\ mailbox \in Command /\ mailbox # None
      /\ mailbox' = None /\ UNCHANGED <<events, fault, dev>>
  BY Typed DEF IInv, TakeCommand, TakeConnect, TakeDisconnect, TakeSecurity, TakeExchange,
               AtRest, Worker, Steps
<1>1. /\ mailbox.tag = TheTag /\ \A i \in 1..Len(events) : events[i] = StaleEvent
      /\ mailbox.tag \in Tags /\ mailbox.fresh \in BOOLEAN
      /\ active # 0
  BY <1>0 DEF IInv, MailHeld, SessionHeld, Command
<1>2. wk' \in Worker /\ wk'.tag \in {None, wk.tag, mailbox.tag} /\ (wk'.step = "Replied" => wk' = wk)
  <2>1. CASE TakeConnect
    BY <1>0, <1>1, <2>1 DEF TakeConnect, AtRest, Worker, Steps
  <2>2. CASE TakeDisconnect
    <3>1. CASE wk.step = "Idle"
      BY <1>0, <1>1, <2>2, <3>1 DEF TakeDisconnect, AtRest, Worker, Steps
    <3>2. CASE wk.step # "Idle"
      <4> DEFINE c == Closed(wk)
      <4>1. c \in Worker /\ c.tag = wk.tag /\ c.step \in {"Closing", "Quiet"}
        BY <1>0, ClosedTyped
      <4>2. wk' = [c EXCEPT !.fresh = mailbox.fresh, !.ack = TRUE]
        BY <2>2, <3>2 DEF TakeDisconnect
      <4> HIDE DEF c
      <4>3. QED
        BY <1>1, <4>1, <4>2 DEF Worker
    <3>3. QED
      BY <3>1, <3>2
  <2>3. CASE TakeSecurity
    BY <1>0, <1>1, <2>3 DEF TakeSecurity, Worker, Steps
  <2>4. CASE TakeExchange
    <3>1. wk' = wk \/ wk' = [wk EXCEPT !.step = "Writing", !.fresh = mailbox.fresh]
      BY <2>4 DEF TakeExchange
    <3>2. QED
      BY <1>0, <1>1, <3>1 DEF Worker, Steps
  <2>5. QED
    BY <2>1, <2>2, <2>3, <2>4 DEF TakeCommand
<1>3. inbox' \in [Tags -> Request \union {None}]
  <2>1. inbox \in [Tags -> Request \union {None}]
    BY Typed DEF IInv
  <2>2. [smp |-> mailbox.smp, off |-> mailbox.off, rel |-> mailbox.rel] \in Request
    BY <1>0 DEF Command, Request
  <2>3. CASE TakeExchange
    BY <2>1, <2>2, <2>3 DEF TakeExchange
  <2>4. CASE ~TakeExchange
    BY <2>1, <2>4 DEF TakeCommand, TakeConnect, TakeDisconnect, TakeSecurity
  <2>5. QED
    BY <2>3, <2>4
<1>4. TransportTypeOK'
  BY <1>0, <1>2, <1>3 DEF IInv, TypeOK, TransportTypeOK
<1>5. TheTag' = TheTag
  BY HereStays DEF ctlVars, jobVars
<1>6. MailHeld'
  <2>1. \A i \in 1..Len(events') : events'[i].kind \notin {"Disconnected", "Reply"}
    BY <1>0, <1>1 DEF StaleEvent
  <2>2. wk'.tag # None => wk'.tag = TheTag'
    BY <1>1, <1>2, <1>5 DEF IInv, MailHeld
  <2>3. wk'.step = "Replied" => wk'.reply \in Reply
    BY <1>2 DEF IInv, MailHeld
  <2>4. QED
    BY <1>0, <2>1, <2>2, <2>3 DEF MailHeld
<1>7. QED
  BY <1>0, <1>1, <1>4, <1>6, TransportKeeps

\* The worker reports, with an event of the operation it serves.
LEMMA ReportKeeps ==
  ASSUME IInv, UNCHANGED ctlVars, UNCHANGED <<mailbox, inbox, dev>>, wk # AtRest,
         NEW kind \in {"Connected", "Secured", "Reply", "Disconnected", "Failed"},
         NEW transient \in BOOLEAN, NEW reply \in Reply \union {None}, Emit(kind, transient, reply),
         kind = "Reply" => reply \in Reply,
         kind = "Disconnected" /\ Len(events) < EventMax => wk' = AtRest,
         wk' \in Worker, wk'.tag \in {None, wk.tag}, wk'.step # "Replied",
         ~wk.fresh => ~wk'.fresh
  PROVE  IInv'
<1>1. /\ events' \in EventQueue /\ fault' \in BOOLEAN
      /\ \A i \in 1..Len(events') :
           \/ events'[i] = StaleEvent
           \/ \E k \in 1..Len(events) : events'[i] = events[k]
           \/ /\ wk.fresh /\ Len(events) < EventMax
              /\ events'[i] = [kind |-> kind, transient |-> transient, reply |-> reply]
  BY Emitted
<1>2. TransportTypeOK'
  BY <1>1 DEF IInv, TypeOK, TransportTypeOK, EventQueue
<1>3. TheTag' = TheTag /\ TheRelease' = TheRelease
  BY HereStays DEF ctlVars, jobVars
<1>4. active # 0
  BY DEF IInv, SessionHeld
<1>5. ASSUME NEW i \in 1..Len(events')
      PROVE  /\ mailbox # None => events'[i] = StaleEvent
             /\ events'[i].kind = "Disconnected" => wk' = AtRest
             /\ events'[i].kind = "Reply" => events'[i].reply \in Reply
  <2>1. CASE events'[i] = StaleEvent
    BY <2>1 DEF StaleEvent
  <2>2. ASSUME NEW k \in 1..Len(events), events'[i] = events[k]
        PROVE  /\ mailbox # None => events'[i] = StaleEvent
               /\ events'[i].kind # "Disconnected"
               /\ events'[i].kind = "Reply" => events'[i].reply \in Reply
    BY <2>2 DEF IInv, MailHeld
  <2>3. CASE /\ wk.fresh /\ Len(events) < EventMax
             /\ events'[i] = [kind |-> kind, transient |-> transient, reply |-> reply]
    BY <2>3 DEF IInv, MailHeld
  <2>4. QED
    BY <1>1, <2>1, <2>2, <2>3
<1>6. MailHeld'
  BY <1>3, <1>5 DEF IInv, MailHeld
<1>7. QED
  BY <1>2, <1>4, <1>6, TransportKeeps

\* Every step of the worker keeps the invariant.
LEMMA WorkerKeeps ==
  ASSUME IInv, WorkerStep, UNCHANGED ctlVars PROVE IInv'
<1>0. wk \in Worker /\ AtRest \in Worker /\ AtRest.step = "Idle" /\ None \in Reply \union {None}
  BY Typed DEF IInv, AtRest, Worker, Steps
<1>1. CASE TakeCommand
  BY <1>1, TakeCommandKeeps
<1>2. CASE Opened
  <2>1. /\ wk' \in Worker /\ wk'.tag = wk.tag /\ wk'.fresh = wk.fresh /\ wk'.step # "Replied"
        /\ wk # AtRest /\ UNCHANGED <<mailbox, inbox, dev>> /\ Emit("Connected", FALSE, None)
    BY <1>0, <1>2 DEF Opened, Worker, Steps
  <2>2. QED
    BY <1>0, <2>1, ReportKeeps
<1>3. CASE Secured
  <2>1. /\ wk' \in Worker /\ wk'.tag = wk.tag /\ wk'.fresh = wk.fresh /\ wk'.step # "Replied"
        /\ wk # AtRest /\ UNCHANGED <<mailbox, inbox, dev>> /\ Emit("Secured", FALSE, None)
    BY <1>0, <1>3 DEF Secured, Worker, Steps
  <2>2. QED
    BY <1>0, <2>1, ReportKeeps
<1>4. CASE Replied
  <2>1. /\ wk # AtRest /\ UNCHANGED <<mailbox, inbox, dev>> /\ Emit("Reply", FALSE, wk.reply)
        /\ wk.reply \in Reply
    BY <1>0, <1>4 DEF Replied, IInv, MailHeld
  <2>2. wk' \in Worker /\ wk'.tag = wk.tag /\ wk'.fresh = wk.fresh /\ wk'.step # "Replied"
    <3>1. CASE Len(events) < EventMax
      BY <1>0, <1>4, <3>1 DEF Replied, Worker, Steps
    <3>2. CASE ~(Len(events) < EventMax)
      BY <1>0, <1>4, <3>2, ClosedTyped DEF Replied
    <3>3. QED
      BY <3>1, <3>2
  <2>3. QED
    BY <1>0, <2>1, <2>2, ReportKeeps
<1>5. ASSUME NEW transient \in BOOLEAN, WorkerFails(transient) PROVE IInv'
  <2>1. /\ wk' \in Worker /\ wk'.tag = wk.tag /\ wk'.fresh = wk.fresh /\ wk'.step # "Replied"
        /\ wk # AtRest /\ UNCHANGED <<mailbox, inbox, dev>> /\ Emit("Failed", transient, None)
    BY <1>0, <1>5, ClosedTyped DEF WorkerFails, Working
  <2>2. QED
    BY <1>0, <2>1, ReportKeeps
<1>6. CASE Quiesced
  <2>1. /\ wk' \in Worker /\ wk'.tag = wk.tag /\ wk'.fresh = wk.fresh /\ wk'.step # "Replied"
        /\ wk # AtRest /\ UNCHANGED <<mailbox, events, fault, inbox, dev>>
    BY <1>0, <1>6 DEF Quiesced, Worker, Steps
  <2>2. TransportTypeOK'
    BY <2>1 DEF IInv, TypeOK, TransportTypeOK
  <2>3. TheTag' = TheTag /\ TheRelease' = TheRelease
    BY HereStays DEF ctlVars, jobVars
  <2>4. MailHeld'
    BY <2>1, <2>3 DEF IInv, MailHeld
  <2>5. active # 0
    BY <2>1 DEF IInv, SessionHeld
  <2>6. QED
    BY <2>1, <2>2, <2>4, <2>5, TransportKeeps
<1>7. CASE Acknowledge
  <2>1. /\ wk # AtRest /\ UNCHANGED <<mailbox, inbox, dev>> /\ Emit("Disconnected", FALSE, None)
        /\ wk' = IF Len(events) < EventMax THEN AtRest ELSE wk
    BY <1>0, <1>7 DEF Acknowledge
  <2>2. /\ wk' \in Worker /\ wk'.tag \in {None, wk.tag} /\ wk'.step # "Replied"
        /\ ~wk.fresh => ~wk'.fresh
    BY <1>0, <1>7, <2>1 DEF Acknowledge, AtRest
  <2>3. QED
    BY <1>0, <2>1, <2>2, ReportKeeps
<1>8. CASE FaultLatches
  <2>1. UNCHANGED <<mailbox, events, wk, inbox, dev>> /\ fault' = TRUE
    BY <1>8 DEF FaultLatches
  <2>2. TransportTypeOK'
    BY <2>1 DEF IInv, TypeOK, TransportTypeOK
  <2>3. TheTag' = TheTag /\ TheRelease' = TheRelease
    BY HereStays DEF ctlVars, jobVars
  <2>4. MailHeld'
    BY <2>1, <2>3 DEF IInv, MailHeld
  <2>5. active = 0 => mailbox' = None /\ wk' = AtRest
    BY <2>1 DEF IInv, SessionHeld
  <2>6. QED
    BY <2>1, <2>2, <2>4, <2>5, TransportKeeps
<1>9. QED
  BY <1>1, <1>2, <1>3, <1>4, <1>5, <1>6, <1>7, <1>8 DEF WorkerStep

-----------------------------------------------------------------------------
(* Second part: the tags                                                   *)
(*                                                                         *)
(* What the controller knows of the tags: that every trial it arms is      *)
(* owned by its snapshot, that it only overwrites a slot nothing depends   *)
(* on, and that success is only claimed for what a tag runs and has        *)
(* confirmed.                                                              *)

USE SlotsAssumption DEF SlotsAssumption

-----------------------------------------------------------------------------
(* The slots of one tag                                                    *)

\* An image on trial can be reverted: the one it replaced is still there.
Revertible(f) == ~f.conf => ~f.pending /\ f.other \in Images /\ f.off = ImageSize

\* A tag that runs something else and has nothing pending: its other slot may
\* be written.
Plain(f, r) == f.conf /\ ~f.pending /\ f.active # r

\* All of the release arrived in its other slot: a trial may be requested.
Armable(f, r) == Plain(f, r) /\ f.other = r /\ f.off = ImageSize

\* A swap exchanges the two slots.
LEMMA SwappedSlots ==
  ASSUME NEW f \in Flash, f.other \in Images, NEW conf \in BOOLEAN
  PROVE  /\ Swapped(f, conf) \in Flash
         /\ Swapped(f, conf).active = f.other /\ Swapped(f, conf).other = f.active
         /\ Swapped(f, conf).off = ImageSize /\ Swapped(f, conf).conf = conf
         /\ Swapped(f, conf).pending = FALSE /\ Swapped(f, conf).ours = f.ours
<1>1. f.active \in Images /\ ImageSize \in 0..ImageSize
  BY DEF Flash
<1>2. Swapped(f, conf) \in Flash
  BY <1>1 DEF Swapped, Flash
<1>3. Swapped(f, conf).active = f.other /\ Swapped(f, conf).other = f.active
  BY DEF Swapped, Flash
<1>4. Swapped(f, conf).off = ImageSize /\ Swapped(f, conf).conf = conf
  BY DEF Swapped, Flash
<1>5. Swapped(f, conf).pending = FALSE /\ Swapped(f, conf).ours = f.ours
  BY DEF Swapped, Flash
<1>6. QED
  BY <1>2, <1>3, <1>4, <1>5

\* What a reboot makes of the slots.
LEMMA BootedSlots ==
  ASSUME NEW f \in Flash, Revertible(f)
  PROVE  /\ Booted(f) \in Flash /\ Revertible(Booted(f)) /\ ~Booted(f).pending
         /\ f.conf /\ ~f.pending => Booted(f) = f
         /\ f.pending /\ Bootable(f) =>
              /\ Booted(f).active = f.other /\ Booted(f).other = f.active
              /\ ~Booted(f).conf /\ Booted(f).ours = f.ours
         /\ f.pending /\ ~Bootable(f) => Booted(f).conf /\ ~Booted(f).ours /\ Booted(f).active = f.active
         /\ ~f.conf => Booted(f).conf /\ ~Booted(f).ours /\ Booted(f).active = f.other
<1>1. CASE f.pending /\ Bootable(f)
  <2>1. Booted(f) = Swapped(f, FALSE)
    BY <1>1 DEF Booted
  <2>2. f.other \in Images /\ f.active \in Images
    BY <1>1 DEF Bootable, Flash
  <2>3. QED
    BY <1>1, <2>1, <2>2, SwappedSlots DEF Revertible
<1>2. CASE f.pending /\ ~Bootable(f)
  <2>1. Booted(f) = [f EXCEPT !.pending = FALSE, !.ours = FALSE]
    BY <1>2 DEF Booted
  <2>2. f.conf
    BY <1>2 DEF Revertible
  <2>3. QED
    BY <1>2, <2>1, <2>2 DEF Flash, Revertible
<1>3. CASE ~f.pending /\ ~f.conf
  <2> DEFINE g == Swapped(f, TRUE)
  <2>1. Booted(f) = [g EXCEPT !.ours = FALSE]
    BY <1>3 DEF Booted
  <2>2. f.other \in Images
    BY <1>3 DEF Revertible
  <2>3. g \in Flash /\ g.conf = TRUE /\ g.pending = FALSE /\ g.active = f.other
    BY <2>2, SwappedSlots
  <2> HIDE DEF g
  <2>4. Booted(f) \in Flash /\ Booted(f).conf = TRUE
    BY <2>1, <2>3 DEF Flash
  <2>5. Booted(f).pending = FALSE /\ Booted(f).ours = FALSE
    BY <2>1, <2>3 DEF Flash
  <2>6. Booted(f).active = f.other
    BY <2>1, <2>3 DEF Flash
  <2>7. QED
    BY <1>3, <2>4, <2>5, <2>6 DEF Revertible
<1>4. CASE ~f.pending /\ f.conf
  <2>1. Booted(f) = f
    BY <1>4 DEF Booted
  <2>2. QED
    BY <1>4, <2>1
<1>5. QED
  BY <1>1, <1>2, <1>3, <1>4 DEF Revertible

\* A block written touches the other slot only.
LEMMA WrittenSlots ==
  ASSUME NEW f \in Flash, NEW rel \in Releases, NEW n \in 0..ImageSize, n < ImageSize,
         NEW g \in Written(f, rel, n)
  PROVE  /\ g \in Flash /\ g.active = f.active /\ g.conf = f.conf
         /\ g.pending = f.pending /\ g.ours = f.ours
<1>1. PICK r \in {rel, Corrupt} : g = [f EXCEPT !.other = r, !.off = n + 1]
  BY DEF Written
<1>2. r \in Images \union {Corrupt, None} /\ n + 1 \in 0..ImageSize
  BY DEF Images
<1>3. QED
  BY <1>1, <1>2 DEF Flash

\* Nor does an upload request.
LEMMA UploadsSlots ==
  ASSUME NEW f \in Flash, NEW rel \in Releases, NEW n \in 0..ImageSize, n < ImageSize,
         NEW g \in Uploads(f, rel, n)
  PROVE  /\ g \in Flash /\ g.active = f.active /\ g.conf = f.conf
         /\ g.pending = f.pending /\ g.ours = f.ours
<1>1. g = f \/ g \in Written(f, rel, n)
  BY DEF Uploads
<1>2. QED
  BY <1>1, WrittenSlots

\* What a tag may make of a request that came at the right time, and what it
\* answers.
LEMMA ServedSlots ==
  ASSUME NEW f \in Flash, Revertible(f), NEW q \in Request,
         q.smp = "Upload" => Plain(f, q.rel) /\ q.off < ImageSize,
         q.smp = "Trial" => Armable(f, q.rel),
         NEW a \in Served(f, q.smp, q.rel, q.off)
  PROVE  /\ a.flash \in Flash /\ Revertible(a.flash)
         /\ [ok |-> a.ok, off |-> a.off, img |-> a.img] \in Reply
         /\ \/ a.flash = f
            \/ a.flash = Booted(f)
            \/ /\ Plain(f, q.rel) /\ a.flash.conf /\ ~a.flash.pending /\ q.smp # "Trial"
               /\ a.flash.active = f.active /\ a.flash.ours = f.ours
            \/ /\ q.smp = "Trial" /\ Armable(f, q.rel)
               /\ a.flash = [f EXCEPT !.pending = TRUE, !.ours = TRUE]
         /\ a.img # None => a.flash = f /\ a.img = View(f)
<1>0. q.smp \in Smps /\ q.rel \in Releases /\ q.off \in 0..ImageSize
  BY DEF Request
<1>1. CASE a = [flash |-> f, ok |-> FALSE, off |-> 0, img |-> None]
  BY <1>1 DEF Reply
<1>2. CASE q.smp = "TagStatus" /\ a = Answer(f, 0, None)
  BY <1>2 DEF Reply, Answer
<1>3. CASE q.smp = "ImageList" /\ a \in {Answer(f, 0, View(f)), Answer(f, 0, None)}
  <2>1. View(f) \in Flash
    BY DEF View, Flash
  <2>2. a.flash = f /\ a.ok = TRUE /\ a.off = 0 /\ a.img \in {View(f), None}
    BY <1>3 DEF Answer
  <2>3. [ok |-> a.ok, off |-> a.off, img |-> a.img] \in Reply
    <3>1. a.ok \in BOOLEAN
      BY <2>1, <2>2
    <3>2. a.off \in 0..ImageSize
      BY <2>1, <2>2
    <3>3. a.img \in Flash \union {None}
      BY <2>1, <2>2
    <3>4. QED
      BY <3>1, <3>2, <3>3 DEF Reply
  <2>4. QED
    BY <2>2, <2>3
<1>4. ASSUME q.smp = "Upload", NEW g \in Uploads(f, q.rel, q.off), a = Answer(g, g.off, None)
      PROVE  /\ a.flash \in Flash /\ Revertible(a.flash) /\ a.img = None
             /\ [ok |-> a.ok, off |-> a.off, img |-> a.img] \in Reply
             /\ Plain(f, q.rel) /\ a.flash.conf /\ ~a.flash.pending
             /\ a.flash.active = f.active /\ a.flash.ours = f.ours
  <2>1. /\ g \in Flash /\ g.active = f.active /\ g.conf = f.conf
        /\ g.pending = f.pending /\ g.ours = f.ours
    BY <1>0, <1>4, UploadsSlots
  <2>2. Plain(f, q.rel) /\ f.conf /\ ~f.pending
    BY <1>4 DEF Plain
  <2>3. a.flash = g /\ a.ok = TRUE /\ a.off = g.off /\ a.img = None
    BY <1>4 DEF Answer
  <2>4. g.off \in 0..ImageSize
    BY <2>1 DEF Flash
  <2>5. QED
    BY <2>1, <2>2, <2>3, <2>4 DEF Reply, Revertible
<1>5. CASE /\ q.smp = "Trial"
           /\ a = Answer([f EXCEPT !.pending = TRUE, !.ours = TRUE], 0, None)
  <2> DEFINE g == [f EXCEPT !.pending = TRUE, !.ours = TRUE]
  <2>1. Armable(f, q.rel) /\ f.conf
    BY <1>5 DEF Armable, Plain
  <2>2. g \in Flash /\ g.conf = f.conf
    BY DEF Flash
  <2> HIDE DEF g
  <2>3. a.flash = g /\ a.ok = TRUE /\ a.off = 0 /\ a.img = None
    BY <1>5 DEF Answer, g
  <2>4. [ok |-> a.ok, off |-> a.off, img |-> a.img] \in Reply
    <3>1. a.ok \in BOOLEAN
      BY <2>3
    <3>2. a.off \in 0..ImageSize
      BY <2>3
    <3>3. a.img \in Flash \union {None}
      BY <2>3
    <3>4. QED
      BY <3>1, <3>2, <3>3 DEF Reply
  <2>5. Revertible(g)
    BY <2>1, <2>2 DEF Revertible
  <2>6. a.flash = [f EXCEPT !.pending = TRUE, !.ours = TRUE]
    BY <2>3 DEF g
  <2>7. QED
    BY <1>5, <2>1, <2>2, <2>3, <2>4, <2>5, <2>6
<1>6. CASE q.smp = "Reset" /\ a = Answer(Booted(f), 0, None)
  <2>1. a.flash = Booted(f) /\ a.ok = TRUE /\ a.off = 0 /\ a.img = None
    BY <1>6 DEF Answer
  <2>2. Booted(f) \in Flash /\ Revertible(Booted(f))
    BY BootedSlots
  <2>3. [ok |-> a.ok, off |-> a.off, img |-> a.img] \in Reply
    <3>1. a.ok \in BOOLEAN
      BY <2>1
    <3>2. a.off \in 0..ImageSize
      BY <2>1
    <3>3. a.img \in Flash \union {None}
      BY <2>1
    <3>4. QED
      BY <3>1, <3>2, <3>3 DEF Reply
  <2>4. QED
    BY <2>1, <2>2, <2>3
<1>7. \/ a = [flash |-> f, ok |-> FALSE, off |-> 0, img |-> None]
      \/ q.smp = "TagStatus" /\ a = Answer(f, 0, None)
      \/ q.smp = "ImageList" /\ a \in {Answer(f, 0, View(f)), Answer(f, 0, None)}
      \/ q.smp = "Upload" /\ \E g \in Uploads(f, q.rel, q.off) : a = Answer(g, g.off, None)
      \/ q.smp = "Trial" /\ a = Answer([f EXCEPT !.pending = TRUE, !.ours = TRUE], 0, None)
      \/ q.smp = "Reset" /\ a = Answer(Booted(f), 0, None)
  <2>1. CASE q.smp = "TagStatus"
    BY <2>1 DEF Served
  <2>2. CASE q.smp = "ImageList"
    BY <2>2 DEF Served
  <2>3. CASE q.smp = "Upload"
    BY <2>3 DEF Served
  <2>4. CASE q.smp = "Trial"
    BY <2>4 DEF Served
  <2>5. CASE q.smp = "Reset"
    BY <2>5 DEF Served
  <2>6. QED
    BY <1>0, <2>1, <2>2, <2>3, <2>4, <2>5 DEF Smps
<1>8. CASE q.smp = "Upload" /\ \E g \in Uploads(f, q.rel, q.off) : a = Answer(g, g.off, None)
  BY <1>4, <1>8
<1>9. QED
  BY <1>1, <1>2, <1>3, <1>5, <1>6, <1>7, <1>8

-----------------------------------------------------------------------------
(* What is held of the tags                                                *)

\* The session goes on, and the updater with it.
Listening == Open /\ ~disabled

\* What Owns says, of any snapshot.
OwnedIn(q, t, rel) ==
  \E s \in Used(q) : Live(q[s]) /\ q[s].trial /\ q[s].tag = t /\ q[s].rel = rel

\* A trial armed from here is owned, before the reboot and after it; only a
\* tag that runs what it shipped with is found with a trial of others pending,
\* and falls back to it.
SlotsHeld(q, t, f) ==
  /\ Revertible(f)
  /\ f.pending /\ ~f.ours => f.active = Factory /\ f.other \in Releases /\ f.off = ImageSize
  /\ ~f.conf /\ ~f.ours => f.other = Factory
  /\ f.ours => \/ /\ f.pending /\ f.conf /\ f.off = ImageSize /\ f.other # f.active
                  /\ OwnedIn(q, t, f.other)
               \/ ~f.pending /\ ~f.conf /\ OwnedIn(q, t, f.active)

\* A block or a trial on its way, in the mailbox or to the tag, fits the slots
\* it will find.
RequestHeld(q, t, f, r) ==
  /\ r.smp = "Upload" => Plain(f, r.rel) /\ r.off < ImageSize
  /\ r.smp = "Trial" => Armable(f, r.rel) /\ OwnedIn(q, t, r.rel)

\* What the tag last said of its slots may be old, but not where the session
\* of the job relies on it.
ViewHolds(f, img, job) ==
  /\ img.conf /\ ~img.pending => View(f) = img
  /\ job.phase = "Uploading" => View(f) = img
  /\ img.active # job.rel /\ ~img.pending => f.active # job.rel /\ ~f.ours /\ ~f.pending
  /\ img.active = job.rel /\ img.conf => ~f.ours /\ f.active = job.rel /\ f.conf

\* Nothing is on its way to a tag whose answer is on its way back.
Answered ==
  /\ wk.step = "Replied" => wk.tag # None /\ inbox[wk.tag] = None
  /\ active # 0 /\ ses.await = "Poll" => inbox[TheTag] = None /\ mailbox = None
  /\ active # 0 => \A i \in 1..Len(events) : events[i].kind = "Reply" => inbox[TheTag] = None

ViewsHeld ==
  Listening =>
    /\ wk.step = "Replied" /\ wk.fresh /\ wk.reply.img # None =>
         ViewHolds(dev[TheTag], wk.reply.img, jobs[Here])
    /\ \A i \in 1..Len(events) : events[i].kind = "Reply" /\ events[i].reply.img # None =>
         ViewHolds(dev[TheTag], events[i].reply.img, jobs[Here])

TagsHeld ==
  /\ \A t \in Tags : /\ SlotsHeld(nvs, t, dev[t])
                     /\ inbox[t] # None => RequestHeld(nvs, t, dev[t], inbox[t])
  /\ mailbox # None => /\ RequestHeld(nvs, TheTag, dev[TheTag], mailbox)
                       /\ mailbox.smp # "TagStatus" => inbox[TheTag] = None
  /\ Listening /\ jobs[Here].phase = "Uploading" => Plain(dev[TheTag], TheRelease)
  /\ Answered
  /\ ViewsHeld

\* Owns is OwnedIn, of the snapshot.
LEMMA OwnsIs ==
  ASSUME NEW t, NEW rel PROVE Owns(t, rel) <=> OwnedIn(nvs, t, rel)
BY DEF Owns, OwnedIn

-----------------------------------------------------------------------------
(* What a tag does keeps its slots held                                    *)

\* What is on trial after a reboot was pending before it.
LEMMA BootedHeld ==
  ASSUME NEW q, NEW t, NEW f \in Flash, SlotsHeld(q, t, f)
  PROVE  /\ Booted(f) \in Flash /\ SlotsHeld(q, t, Booted(f))
         /\ \A rel : Plain(f, rel) => Booted(f) = f
<1> DEFINE g == Booted(f)
<1>1. Revertible(f)
  BY DEF SlotsHeld
<1>2. g \in Flash /\ Revertible(g) /\ ~g.pending /\ (f.conf /\ ~f.pending => g = f)
  BY <1>1, BootedSlots
<1>3. f.pending /\ Bootable(f) =>
        g.active = f.other /\ g.other = f.active /\ ~g.conf /\ g.ours = f.ours
  BY <1>1, BootedSlots
<1>4. (f.pending /\ ~Bootable(f)) \/ ~f.conf => g.conf /\ ~g.ours
  BY <1>1, BootedSlots
<1> HIDE DEF g
<1>5. SlotsHeld(q, t, g)
  <2>1. CASE f.pending /\ Bootable(f)
    <3>1. ~f.ours => g.other = Factory
      BY <1>3, <2>1 DEF SlotsHeld
    <3>2. f.ours => OwnedIn(q, t, g.active)
      BY <1>3, <2>1 DEF SlotsHeld
    <3>3. QED
      BY <1>2, <1>3, <2>1, <3>1, <3>2 DEF SlotsHeld
  <2>2. CASE (f.pending /\ ~Bootable(f)) \/ ~f.conf
    BY <1>2, <1>4, <2>2 DEF SlotsHeld
  <2>3. CASE f.conf /\ ~f.pending
    BY <1>2, <2>3
  <2>4. QED
    BY <2>1, <2>2, <2>3
<1>6. \A rel : Plain(f, rel) => g = f
  BY <1>2 DEF Plain
<1>7. QED
  BY <1>2, <1>5, <1>6 DEF g

\* A reboot shows nothing that the session was not told, but what it waits for.
LEMMA BootedView ==
  ASSUME NEW q, NEW t, NEW f \in Flash, SlotsHeld(q, t, f), Booted(f) # f,
         NEW img, NEW job, job.rel \in Releases,
         job.phase = "Uploading" => Plain(f, job.rel), ViewHolds(f, img, job)
  PROVE  ViewHolds(Booted(f), img, job)
<1>1. Revertible(f)
  BY DEF SlotsHeld
<1>2. ~(f.conf /\ ~f.pending)
  BY <1>1, BootedSlots
<1>3. ~(img.conf /\ ~img.pending)
  <2>1. View(f).conf = f.conf /\ View(f).pending = f.pending
    BY DEF View, Flash
  <2>2. QED
    BY <1>2, <2>1 DEF ViewHolds
<1>4. job.phase # "Uploading"
  BY <1>2 DEF Plain
<1>5. ~(img.active = job.rel /\ img.conf)
  <2>1. SUFFICES ASSUME img.active = job.rel, img.conf PROVE FALSE
    OBVIOUS
  <2>2. ~f.ours /\ f.active = job.rel /\ f.conf
    BY <2>1 DEF ViewHolds
  <2>3. f.active = Factory
    BY <1>2, <2>2 DEF SlotsHeld
  <2>4. QED
    BY <2>2, <2>3
<1>6. ASSUME img.active # job.rel, ~img.pending
      PROVE  Booted(f).active # job.rel /\ ~Booted(f).ours /\ ~Booted(f).pending
  <2>1. f.active # job.rel /\ ~f.ours /\ ~f.pending
    BY <1>6 DEF ViewHolds
  <2>2. ~f.conf /\ f.other = Factory
    BY <1>2, <2>1 DEF SlotsHeld
  <2>3. QED
    BY <1>1, <2>2, BootedSlots
<1>7. QED
  BY <1>3, <1>4, <1>5, <1>6 DEF ViewHolds

\* A confirmation ends a trial; nobody counts on the tag being unconfirmed.
LEMMA ConfirmedHeld ==
  ASSUME NEW q, NEW t, NEW f \in Flash, SlotsHeld(q, t, f), ~f.conf
  PROVE  /\ Confirmed(f) \in Flash /\ SlotsHeld(q, t, Confirmed(f))
         /\ \A rel : ~Plain(f, rel)
         /\ \A img, job : ViewHolds(f, img, job) /\ job.phase # "Uploading" =>
              ViewHolds(Confirmed(f), img, job)
<1> DEFINE g == Confirmed(f)
<1>1. g \in Flash
  BY DEF Confirmed, Flash
<1>2. g.conf = TRUE /\ g.ours = FALSE
  BY DEF Confirmed, Flash
<1>3. g.pending = f.pending
  BY DEF Confirmed, Flash
<1>4. g.active = f.active
  BY DEF Confirmed, Flash
<1>5. ~f.pending
  BY DEF SlotsHeld, Revertible
<1> HIDE DEF g
<1>6. SlotsHeld(q, t, g)
  BY <1>2, <1>3, <1>5 DEF SlotsHeld, Revertible
<1>7. ASSUME NEW img, NEW job, ViewHolds(f, img, job), job.phase # "Uploading"
      PROVE  ViewHolds(g, img, job)
  <2>1. View(f).conf = f.conf
    BY DEF View, Flash
  <2>2. ~(img.conf /\ ~img.pending) /\ ~(img.active = job.rel /\ img.conf)
    BY <1>7, <2>1 DEF ViewHolds
  <2>3. QED
    BY <1>2, <1>3, <1>4, <1>7, <2>2 DEF ViewHolds
<1>8. QED
  BY <1>1, <1>6, <1>7 DEF Plain, g

\* What the tag says of its slots is right when it says it.
LEMMA FreshView ==
  ASSUME NEW q, NEW t, NEW f \in Flash, SlotsHeld(q, t, f), NEW job,
         \A rel : OwnedIn(q, t, rel) => rel = job.rel
  PROVE  ViewHolds(f, View(f), job)
<1>1. View(f).conf = f.conf /\ View(f).pending = f.pending /\ View(f).active = f.active
  BY DEF View, Flash
<1>2. f.active # job.rel /\ ~f.pending => ~f.ours
  BY DEF SlotsHeld
<1>3. f.active = job.rel /\ f.conf => ~f.ours
  BY DEF SlotsHeld
<1>4. QED
  BY <1>1, <1>2, <1>3 DEF ViewHolds

\* A request that fits the slots leaves slots that are held.
LEMMA ServedHeld ==
  ASSUME NEW q, NEW t, NEW f \in Flash, SlotsHeld(q, t, f),
         NEW r \in Request, RequestHeld(q, t, f, r), NEW a \in Served(f, r.smp, r.rel, r.off)
  PROVE  /\ a.flash \in Flash /\ SlotsHeld(q, t, a.flash)
         /\ [ok |-> a.ok, off |-> a.off, img |-> a.img] \in Reply
         /\ a.img # None => a.flash = f /\ a.img = View(f)
         /\ \A rel : Plain(f, rel) => Plain(a.flash, rel) \/ OwnedIn(q, t, r.rel)
<1>0. /\ Revertible(f)
      /\ r.smp = "Upload" => Plain(f, r.rel) /\ r.off < ImageSize
      /\ r.smp = "Trial" => Armable(f, r.rel) /\ OwnedIn(q, t, r.rel)
  BY DEF SlotsHeld, RequestHeld
<1>1. /\ a.flash \in Flash /\ Revertible(a.flash)
      /\ [ok |-> a.ok, off |-> a.off, img |-> a.img] \in Reply
      /\ \/ a.flash = f
         \/ a.flash = Booted(f)
         \/ /\ Plain(f, r.rel) /\ a.flash.conf /\ ~a.flash.pending /\ r.smp # "Trial"
            /\ a.flash.active = f.active /\ a.flash.ours = f.ours
         \/ /\ r.smp = "Trial" /\ Armable(f, r.rel)
            /\ a.flash = [f EXCEPT !.pending = TRUE, !.ours = TRUE]
      /\ a.img # None => a.flash = f /\ a.img = View(f)
  BY <1>0, ServedSlots
<1>2. CASE a.flash = f
  BY <1>1, <1>2
<1>3. CASE a.flash = Booted(f)
  BY <1>1, <1>3, BootedHeld
<1>4. CASE /\ Plain(f, r.rel) /\ a.flash.conf /\ ~a.flash.pending /\ r.smp # "Trial"
           /\ a.flash.active = f.active /\ a.flash.ours = f.ours
  <2>1. ~f.ours
    BY <1>4 DEF SlotsHeld, Plain
  <2>2. SlotsHeld(q, t, a.flash)
    BY <1>1, <1>4, <2>1 DEF SlotsHeld
  <2>3. \A rel : Plain(f, rel) => Plain(a.flash, rel)
    BY <1>4 DEF Plain
  <2>4. QED
    BY <1>1, <2>2, <2>3
<1>5. CASE /\ r.smp = "Trial" /\ Armable(f, r.rel)
           /\ a.flash = [f EXCEPT !.pending = TRUE, !.ours = TRUE]
  <2> DEFINE g == [f EXCEPT !.pending = TRUE, !.ours = TRUE]
  <2>1. g.pending = TRUE /\ g.ours = TRUE
    BY DEF Flash
  <2>2. g.conf = f.conf /\ g.off = f.off
    BY DEF Flash
  <2>3. g.other = f.other /\ g.active = f.active
    BY DEF Flash
  <2>4. a.flash = g
    BY <1>5
  <2> HIDE DEF g
  <2>5. f.conf /\ f.active # r.rel /\ f.other = r.rel /\ f.off = ImageSize
    BY <1>5 DEF Armable, Plain
  <2>6. OwnedIn(q, t, f.other)
    BY <1>0, <1>5, <2>5
  <2>7. SlotsHeld(q, t, g)
    BY <2>1, <2>2, <2>3, <2>5, <2>6 DEF SlotsHeld, Revertible
  <2>8. QED
    BY <1>0, <1>1, <1>5, <2>4, <2>7
<1>6. QED
  BY <1>1, <1>2, <1>3, <1>4, <1>5

-----------------------------------------------------------------------------
(* Who owns a trial                                                        *)

\* Until a write fails, the snapshot says of a job what the queue says.
LEMMA SavedSlot ==
  ASSUME NEW d, Sound(d), ~d.disabled, NEW s \in Slots
  PROVE  /\ s \in Used(d.jobs) <=> s \in Used(d.nvs)
         /\ s \in Used(d.jobs) =>
              /\ d.nvs[s].tag = d.jobs[s].tag /\ d.nvs[s].rel = d.jobs[s].rel
              /\ d.nvs[s].phase = d.jobs[s].phase /\ d.nvs[s].trial = d.jobs[s].trial
              /\ d.nvs[s].id = d.jobs[s].id /\ d.nvs[s].attempts = d.jobs[s].attempts
<1>1. CASE d.jobs[s] = d.nvs[s]
  BY <1>1 DEF Used
<1>2. CASE /\ d.jobs[s] # None /\ d.nvs[s] # None
           /\ [d.jobs[s] EXCEPT !.ack = d.nvs[s].ack] = d.nvs[s]
  <2> DEFINE j == d.jobs[s] n == d.nvs[s]
  <2>1. j \in Job
    BY <1>2 DEF Sound, Snapshot, Queue
  <2>2. [j EXCEPT !.ack = n.ack] = n
    BY <1>2
  <2> HIDE DEF j, n
  <2>3. n.tag = j.tag /\ n.rel = j.rel
    BY <2>1, <2>2 DEF Job
  <2>4. n.phase = j.phase /\ n.trial = j.trial
    BY <2>1, <2>2 DEF Job
  <2>5. n.id = j.id /\ n.attempts = j.attempts
    BY <2>1, <2>2 DEF Job
  <2>6. QED
    BY <1>2, <2>3, <2>4, <2>5 DEF Used, j, n
<1>3. QED
  BY <1>1, <1>2 DEF Sound, Saved

\* So a live job on trial owns its tag's trial,
LEMMA TrialOwns ==
  ASSUME NEW d, Sound(d), ~d.disabled, NEW s \in Used(d.jobs), Live(d.jobs[s]), d.jobs[s].trial
  PROVE  OwnedIn(d.nvs, d.jobs[s].tag, d.jobs[s].rel)
<1>1. s \in Slots
  BY DEF Used
<1>2. /\ s \in Used(d.nvs)
      /\ d.nvs[s].tag = d.jobs[s].tag /\ d.nvs[s].rel = d.jobs[s].rel
      /\ d.nvs[s].phase = d.jobs[s].phase /\ d.nvs[s].trial = d.jobs[s].trial
  BY <1>1, SavedSlot
<1>3. Live(d.nvs[s])
  BY <1>2 DEF Live
<1>4. QED
  BY <1>2, <1>3 DEF OwnedIn

\* and a trial of its tag is the one of its own release.
LEMMA OwnerIsHere ==
  ASSUME IInv, Listening, NEW rel, OwnedIn(nvs, TheTag, rel)
  PROVE  rel = TheRelease /\ jobs[Here].trial
<1>1. Sound(Db) /\ ~disabled /\ active # 0 /\ ses.await # "Disconnected"
  BY DbSound DEF Listening, Open
<1>2. Here \in Used(jobs) /\ Live(jobs[Here])
  BY <1>1, OpenIsLive
<1>3. PICK s \in Used(nvs) : Live(nvs[s]) /\ nvs[s].trial /\ nvs[s].tag = TheTag /\ nvs[s].rel = rel
  BY DEF OwnedIn
<1>4. s \in Slots /\ Here \in Slots
  BY <1>2, <1>3 DEF Used
<1>5. Db.jobs = jobs /\ Db.nvs = nvs /\ Db.disabled = disabled
  BY DEF Db
<1>6. /\ s \in Used(jobs) /\ jobs[s].tag = nvs[s].tag /\ jobs[s].rel = nvs[s].rel
      /\ jobs[s].phase = nvs[s].phase /\ jobs[s].trial = nvs[s].trial
  BY <1>1, <1>3, <1>4, <1>5, SavedSlot
<1>7. Live(jobs[s]) /\ jobs[s].tag = jobs[Here].tag
  BY <1>3, <1>6 DEF Live, TheTag
<1>8. s = Here
  BY <1>2, <1>6, <1>7 DEF IInv, ValidRestore
<1>9. QED
  BY <1>3, <1>6, <1>8 DEF TheRelease

\* A handler takes nobody's trial away, but with an outcome.
LEMMA OwnsStays ==
  ASSUME NEW d, Sound(d), NEW s \in Used(d.jobs), NEW e, NEW over, Leads(d, e, s, over),
         NEW t, NEW rel, OwnedIn(d.nvs, t, rel),
         over = {} \/ ~d.jobs[s].trial \/ d.jobs[s].tag # t
  PROVE  OwnedIn(e.nvs, t, rel)
<1>1. CASE e.nvs = d.nvs
  BY <1>1
<1>2. ASSUME ~d.disabled, NEW m \in Job, Keeps(d.jobs[s], m, over), e.nvs = [d.jobs EXCEPT ![s] = m]
      PROVE  OwnedIn(e.nvs, t, rel)
  <2>0. d.jobs \in Queue /\ d.nvs \in Queue /\ s \in Slots /\ d.jobs[s] \in Job /\ Legal(d.jobs[s])
    BY UsedSound DEF Sound, Snapshot
  <2>1. PICK o \in Used(d.nvs) : Live(d.nvs[o]) /\ d.nvs[o].trial /\ d.nvs[o].tag = t /\ d.nvs[o].rel = rel
    BY DEF OwnedIn
  <2>2. o \in Slots
    BY <2>1 DEF Used
  <2>3. /\ o \in Used(d.jobs) /\ d.jobs[o].tag = t /\ d.jobs[o].rel = rel
        /\ d.jobs[o].phase = d.nvs[o].phase /\ d.jobs[o].trial
    BY <1>2, <2>1, <2>2, SavedSlot
  <2>4. Live(d.jobs[o])
    BY <2>1, <2>3 DEF Live
  <2>5. CASE o # s
    <3>1. e.nvs[o] = d.jobs[o]
      BY <1>2, <2>0, <2>2, <2>5 DEF Queue
    <3>2. o \in Used(e.nvs)
      BY <2>3, <3>1 DEF Used
    <3>3. QED
      BY <2>3, <2>4, <3>1, <3>2 DEF OwnedIn
  <2>6. CASE o = s
    <3>1. e.nvs[s] = m
      BY <1>2, <2>0 DEF Queue
    <3>2. over = {}
      BY <2>3, <2>6
    <3>3. /\ m # None /\ m.tag = d.jobs[s].tag /\ m.rel = d.jobs[s].rel
          /\ d.jobs[s].trial => m.trial
          /\ m.phase \in over \/ (Live(d.jobs[s]) => Live(m))
      BY <1>2, <2>0, KeepsLegal
    <3>4. m.trial /\ Live(m) /\ m.tag = t /\ m.rel = rel
      BY <2>3, <2>4, <2>6, <3>2, <3>3
    <3>5. s \in Used(e.nvs)
      BY <2>0, <3>1, <3>3 DEF Used
    <3>6. QED
      BY <3>1, <3>4, <3>5 DEF OwnedIn
  <2>7. QED
    BY <2>5, <2>6
<1>3. QED
  BY <1>1, <1>2 DEF Leads

\* A restart forgets no trial.
LEMMA RestoredOwns ==
  ASSUME NEW q \in Queue, ValidRestore(q), NEW t, NEW rel, OwnedIn(q, t, rel)
  PROVE  OwnedIn(RestoredQueue(q), t, rel)
<1>1. PICK s \in Used(q) : Live(q[s]) /\ q[s].trial /\ q[s].tag = t /\ q[s].rel = rel
  BY DEF OwnedIn
<1>2. s \in Slots /\ q[s] \in Job /\ q[s] # None /\ Legal(q[s])
  BY <1>1, UsedLegal DEF Queue
<1>3. s \in Used(RestoredQueue(q))
  BY <1>1, RestoredSound
<1>4. RestoredQueue(q)[s] = Restored(q[s], 0)
  BY <1>2 DEF RestoredQueue
<1>5. /\ Live(Restored(q[s], 0)) /\ Restored(q[s], 0).trial
      /\ Restored(q[s], 0).tag = t /\ Restored(q[s], 0).rel = rel
  BY <1>1, <1>2, RestoredLegal
<1>6. QED
  BY <1>3, <1>4, <1>5 DEF OwnedIn

\* queue() and retry() take nobody's trial away.
LEMMA PutOwns ==
  ASSUME IInv, NEW s, NEW k, Puts(s, k), NEW t, NEW rel, OwnedIn(nvs, t, rel)
  PROVE  OwnedIn(nvs', t, rel)
<1>1. jobs' = [jobs EXCEPT ![s] = k] /\ nvs' \in {nvs, jobs'}
  BY PutsKeeps
<1>2. CASE nvs' = nvs
  BY <1>2
<1>3. CASE nvs' = jobs'
  <2>0. Sound(Db) /\ Db.jobs = jobs /\ Db.nvs = nvs /\ Db.disabled = disabled
    BY DbSound DEF Db
  <2>1. ~disabled /\ s \in Slots /\ k \in Job /\ jobs \in Queue
    BY Typed DEF Puts, IInv
  <2>2. PICK o \in Used(nvs) : Live(nvs[o]) /\ nvs[o].trial /\ nvs[o].tag = t /\ nvs[o].rel = rel
    BY DEF OwnedIn
  <2>3. o \in Slots
    BY <2>2 DEF Used
  <2>4. /\ o \in Used(jobs) /\ jobs[o].tag = t /\ jobs[o].rel = rel
        /\ jobs[o].phase = nvs[o].phase /\ jobs[o].trial
    BY <2>0, <2>1, <2>2, <2>3, SavedSlot
  <2>5. Live(jobs[o])
    BY <2>2, <2>4 DEF Live
  <2>6. CASE o # s
    <3>1. nvs'[o] = jobs[o]
      BY <1>1, <1>3, <2>1, <2>3, <2>6 DEF Queue
    <3>2. o \in Used(nvs')
      BY <2>4, <3>1 DEF Used
    <3>3. QED
      BY <2>4, <2>5, <3>1, <3>2 DEF OwnedIn
  <2>7. CASE o = s
    <3>1. nvs'[s] = k
      BY <1>1, <1>3, <2>1 DEF Queue
    <3>2. Live(k) /\ k.tag = jobs[s].tag /\ k.rel = jobs[s].rel /\ k.trial = jobs[s].trial
      BY <2>4, <2>5, <2>7 DEF Puts
    <3>3. s \in Used(nvs')
      BY <2>1, <3>1 DEF Used
    <3>4. QED
      BY <2>4, <2>7, <3>1, <3>2, <3>3 DEF OwnedIn
  <2>8. QED
    BY <2>6, <2>7
<1>4. QED
  BY <1>1, <1>2, <1>3

-----------------------------------------------------------------------------
(* What the controller does keeps the tags held                            *)

\* What is held of a tag's slots is held as long as its trials are owned,
LEMMA SlotsStay ==
  ASSUME NEW q, NEW n, NEW t, NEW f, SlotsHeld(q, t, f),
         f.ours => \A rel : OwnedIn(q, t, rel) => OwnedIn(n, t, rel)
  PROVE  SlotsHeld(n, t, f)
BY DEF SlotsHeld

\* and so it is of a request,
LEMMA RequestStays ==
  ASSUME NEW q, NEW n, NEW t, NEW f, NEW r, RequestHeld(q, t, f, r),
         \A rel : OwnedIn(q, t, rel) => OwnedIn(n, t, rel)
  PROVE  RequestHeld(n, t, f, r)
BY DEF RequestHeld

\* and of what a tag said, as long as the job does not begin to upload.
LEMMA ViewStays ==
  ASSUME NEW f, NEW img, NEW job, NEW k, ViewHolds(f, img, job),
         k.rel = job.rel, k.phase = "Uploading" => job.phase = "Uploading"
  PROVE  ViewHolds(f, img, k)
BY DEF ViewHolds

\* A command waits only in a session, for that session's tag.
LEMMA MailIsOurs ==
  ASSUME IInv, mailbox # None
  PROVE  /\ active # 0 /\ mailbox \in Command
         /\ mailbox.tag = TheTag /\ mailbox.rel = TheRelease /\ TheTag \in Tags
         /\ ~wk.fresh /\ \A i \in 1..Len(events) : events[i] = StaleEvent
<1>1. mailbox \in Command
  BY Typed DEF IInv
<1>2. mailbox.tag = TheTag /\ mailbox.rel = TheRelease /\ active # 0
  BY DEF IInv, MailHeld, SessionHeld
<1>3. mailbox.tag \in Tags
  BY <1>1 DEF Command
<1>4. QED
  BY <1>1, <1>2, <1>3 DEF IInv, MailHeld

\* A step that submits nothing and leaves the tags' requests alone.
LEMMA SteadyTags ==
  ASSUME IInv, TagsHeld, UNCHANGED <<mailbox, wk, inbox, dev>>,
         \A i \in 1..Len(events') : \E k \in 1..Len(events) : events'[i] = events[k],
         active' = active, active # 0 => TheTag' = TheTag /\ TheRelease' = TheRelease,
         \A t \in Tags : \A rel : OwnedIn(nvs, t, rel) => OwnedIn(nvs', t, rel),
         Listening' => /\ Listening /\ Here' = Here
                       /\ jobs'[Here].phase = "Uploading" => jobs[Here].phase = "Uploading",
         active # 0 /\ ses'.await = "Poll" =>
           ses.await = "Poll" \/ (inbox[TheTag] = None /\ mailbox = None)
  PROVE  TagsHeld'
<1>1. \A t \in Tags : /\ SlotsHeld(nvs', t, dev'[t])
                      /\ inbox'[t] # None => RequestHeld(nvs', t, dev'[t], inbox'[t])
  <2>1. TAKE t \in Tags
  <2>2. SlotsHeld(nvs, t, dev[t]) /\ (inbox[t] # None => RequestHeld(nvs, t, dev[t], inbox[t]))
    BY DEF TagsHeld
  <2>3. \A rel : OwnedIn(nvs, t, rel) => OwnedIn(nvs', t, rel)
    OBVIOUS
  <2>4. SlotsHeld(nvs', t, dev[t])
    BY <2>2, <2>3, SlotsStay
  <2>5. inbox[t] # None => RequestHeld(nvs', t, dev[t], inbox[t])
    BY <2>2, <2>3, RequestStays
  <2>6. QED
    BY <2>4, <2>5
<1>2. mailbox' # None => /\ RequestHeld(nvs', TheTag', dev'[TheTag'], mailbox')
                         /\ mailbox'.smp # "TagStatus" => inbox'[TheTag'] = None
  <2>1. SUFFICES ASSUME mailbox # None
                 PROVE  /\ RequestHeld(nvs', TheTag', dev[TheTag'], mailbox)
                        /\ mailbox.smp # "TagStatus" => inbox[TheTag'] = None
    OBVIOUS
  <2>2. TheTag' = TheTag /\ TheTag \in Tags
    BY <2>1, MailIsOurs
  <2>3. /\ RequestHeld(nvs, TheTag, dev[TheTag], mailbox)
        /\ mailbox.smp # "TagStatus" => inbox[TheTag] = None
    BY <2>1 DEF TagsHeld
  <2>4. RequestHeld(nvs', TheTag, dev[TheTag], mailbox)
    BY <2>2, <2>3, RequestStays
  <2>5. QED
    BY <2>2, <2>3, <2>4
<1>3. Listening' => active # 0 /\ TheTag' = TheTag /\ TheRelease' = TheRelease
  BY DEF Listening, Open
<1>4. (Listening /\ jobs[Here].phase = "Uploading" => Plain(dev[TheTag], TheRelease))'
  BY <1>3 DEF TagsHeld
<1>5. Answered'
  <2>1. Answered
    BY DEF TagsHeld
  <2>2. wk'.step = "Replied" => wk'.tag # None /\ inbox'[wk'.tag] = None
    BY <2>1 DEF Answered
  <2>3. active' # 0 /\ ses'.await = "Poll" => inbox'[TheTag'] = None /\ mailbox' = None
    BY <2>1 DEF Answered
  <2>4. active' # 0 => \A i \in 1..Len(events') : events'[i].kind = "Reply" => inbox'[TheTag'] = None
    BY <2>1 DEF Answered
  <2>5. QED
    BY <2>2, <2>3, <2>4 DEF Answered
<1>6. ViewsHeld'
  <2>1. SUFFICES ASSUME Listening'
                 PROVE  /\ wk'.step = "Replied" /\ wk'.fresh /\ wk'.reply.img # None =>
                             ViewHolds(dev'[TheTag'], wk'.reply.img, jobs'[Here'])
                        /\ \A i \in 1..Len(events') :
                             events'[i].kind = "Reply" /\ events'[i].reply.img # None =>
                               ViewHolds(dev'[TheTag'], events'[i].reply.img, jobs'[Here'])
    BY DEF ViewsHeld
  <2>2. Listening /\ Here' = Here /\ TheTag' = TheTag
    BY <1>3, <2>1
  <2>3. /\ jobs'[Here].rel = jobs[Here].rel
        /\ jobs'[Here].phase = "Uploading" => jobs[Here].phase = "Uploading"
    BY <1>3, <2>1, <2>2 DEF TheRelease
  <2>4. \A img : ViewHolds(dev[TheTag], img, jobs[Here]) => ViewHolds(dev[TheTag], img, jobs'[Here])
    BY <2>3, ViewStays
  <2>5. /\ wk.step = "Replied" /\ wk.fresh /\ wk.reply.img # None =>
             ViewHolds(dev[TheTag], wk.reply.img, jobs[Here])
        /\ \A i \in 1..Len(events) : events[i].kind = "Reply" /\ events[i].reply.img # None =>
             ViewHolds(dev[TheTag], events[i].reply.img, jobs[Here])
    BY <2>2 DEF TagsHeld, ViewsHeld
  <2>6. wk.step = "Replied" /\ wk.fresh /\ wk.reply.img # None =>
          ViewHolds(dev[TheTag], wk.reply.img, jobs'[Here])
    BY <2>4, <2>5
  <2>7. \A i \in 1..Len(events') : events'[i].kind = "Reply" /\ events'[i].reply.img # None =>
          ViewHolds(dev[TheTag], events'[i].reply.img, jobs'[Here])
    <3>1. TAKE i \in 1..Len(events')
    <3>2. PICK k \in 1..Len(events) : events'[i] = events[k]
      OBVIOUS
    <3>3. QED
      BY <2>4, <2>5, <3>2
  <2>8. QED
    BY <2>2, <2>6, <2>7
<1>7. QED
  BY <1>1, <1>2, <1>4, <1>5, <1>6 DEF TagsHeld

\* A command is submitted: nothing that was said before counts any more.
LEMMA SubmittedTags ==
  ASSUME IInv, TagsHeld, NEW s \in Used(jobs), active \in {0, jobs[s].id},
         NEW over, Leads(Db, Db', s, over), active' = jobs[s].id,
         NEW evs \in EventQueue, NEW accepted \in BOOLEAN, NEW cmd \in Command,
         Submit(evs, accepted, cmd), cmd.tag = jobs[s].tag, cmd.rel = jobs[s].rel,
         cmd.smp = "Upload" => Plain(dev[cmd.tag], cmd.rel) /\ cmd.off < ImageSize,
         cmd.smp = "Trial" => Armable(dev[cmd.tag], cmd.rel) /\ OwnedIn(nvs', cmd.tag, cmd.rel),
         cmd.smp # "TagStatus" => inbox[cmd.tag] = None,
         ses'.await # "Poll",
         Listening' /\ jobs'[s].phase = "Uploading" => Plain(dev[cmd.tag], cmd.rel),
         over = {} \/ ~jobs[s].trial
           \/ (~dev[cmd.tag].ours /\ inbox[cmd.tag] = None /\ mailbox = None)
  PROVE  TagsHeld'
<1>1. /\ UNCHANGED <<fault, inbox, dev>>
      /\ ~wk'.fresh /\ wk'.tag = wk.tag /\ wk'.step = wk.step
      /\ \A i \in 1..Len(events') : events'[i] = StaleEvent
      /\ accepted => mailbox = None /\ mailbox' = cmd
      /\ ~accepted /\ mailbox' # None =>
           /\ mailbox # None /\ mailbox'.tag = mailbox.tag /\ mailbox'.rel = mailbox.rel
           /\ mailbox'.smp = mailbox.smp /\ mailbox'.off = mailbox.off
  BY SubmitLeaves
<1>2. Here' = s /\ TheTag' = jobs[s].tag /\ TheRelease' = jobs[s].rel
  BY WorkStays
<1>3. cmd.tag \in Tags
  BY DEF Command
<1>4. ASSUME NEW t \in Tags, NEW rel, OwnedIn(nvs, t, rel),
             over = {} \/ ~jobs[s].trial \/ jobs[s].tag # t
      PROVE  OwnedIn(nvs', t, rel)
  <2>1. Db.jobs = jobs /\ Db.nvs = nvs /\ Db'.nvs = nvs'
    BY DEF Db
  <2>2. Sound(Db)
    BY DbSound
  <2>3. OwnedIn(Db'.nvs, t, rel)
    BY <1>4, <2>1, <2>2, OwnsStays
  <2>4. QED
    BY <2>1, <2>3
<1>5. \A t \in Tags : /\ SlotsHeld(nvs', t, dev'[t])
                      /\ inbox'[t] # None => RequestHeld(nvs', t, dev'[t], inbox'[t])
  <2>1. TAKE t \in Tags
  <2>2. SlotsHeld(nvs, t, dev[t]) /\ (inbox[t] # None => RequestHeld(nvs, t, dev[t], inbox[t]))
    BY DEF TagsHeld
  <2>3. CASE over = {} \/ ~jobs[s].trial \/ jobs[s].tag # t
    <3>1. \A rel : OwnedIn(nvs, t, rel) => OwnedIn(nvs', t, rel)
      BY <1>4, <2>3
    <3>2. SlotsHeld(nvs', t, dev[t])
      BY <2>2, <3>1, SlotsStay
    <3>3. inbox[t] # None => RequestHeld(nvs', t, dev[t], inbox[t])
      BY <2>2, <3>1, RequestStays
    <3>4. QED
      BY <1>1, <3>2, <3>3
  <2>4. CASE ~(over = {} \/ ~jobs[s].trial \/ jobs[s].tag # t)
    <3>1. ~dev[t].ours /\ inbox[t] = None
      BY <2>4
    <3>2. SlotsHeld(nvs', t, dev[t])
      BY <2>2, <3>1, SlotsStay
    <3>3. QED
      BY <1>1, <3>1, <3>2
  <2>5. QED
    BY <2>3, <2>4
<1>6. mailbox' # None => /\ RequestHeld(nvs', TheTag', dev'[TheTag'], mailbox')
                         /\ mailbox'.smp # "TagStatus" => inbox'[TheTag'] = None
  <2>1. CASE accepted
    BY <1>1, <1>2, <2>1 DEF RequestHeld
  <2>2. CASE ~accepted /\ mailbox' # None
    <3>1. mailbox # None
      BY <1>1, <2>2
    <3>2. active # 0 /\ mailbox.rel = TheRelease
      BY <3>1, MailIsOurs
    <3>3. TheTag = jobs[s].tag
      BY <3>2, SlotIsHere DEF TheTag
    <3>4. /\ RequestHeld(nvs, TheTag, dev[TheTag], mailbox)
          /\ mailbox.smp # "TagStatus" => inbox[TheTag] = None
      BY <3>1 DEF TagsHeld
    <3>5. \A rel : OwnedIn(nvs, TheTag, rel) => OwnedIn(nvs', TheTag, rel)
      BY <1>3, <1>4, <3>1, <3>3
    <3>6. RequestHeld(nvs', TheTag, dev[TheTag], mailbox)
      BY <3>4, <3>5, RequestStays
    <3>7. /\ mailbox'.smp = mailbox.smp /\ mailbox'.off = mailbox.off /\ mailbox'.rel = mailbox.rel
      BY <1>1, <2>2
    <3>8. RequestHeld(nvs', TheTag, dev[TheTag], mailbox')
      BY <3>6, <3>7 DEF RequestHeld
    <3>9. QED
      BY <1>1, <1>2, <3>3, <3>4, <3>7, <3>8
  <2>3. QED
    BY <2>1, <2>2
<1>7. (Listening /\ jobs[Here].phase = "Uploading" => Plain(dev[TheTag], TheRelease))'
  BY <1>1, <1>2
<1>8. Answered'
  <2>1. wk'.step = "Replied" => wk'.tag # None /\ inbox'[wk'.tag] = None
    BY <1>1 DEF TagsHeld, Answered
  <2>2. \A i \in 1..Len(events') : events'[i].kind # "Reply"
    BY <1>1 DEF StaleEvent
  <2>3. QED
    BY <2>1, <2>2 DEF Answered
<1>9. ViewsHeld'
  <2>1. \A i \in 1..Len(events') : events'[i].kind # "Reply"
    BY <1>1 DEF StaleEvent
  <2>2. QED
    BY <1>1, <2>1 DEF ViewsHeld
<1>10. QED
  BY <1>5, <1>6, <1>7, <1>8, <1>9 DEF TagsHeld

\* A session that ends.
LEMMA EndsTags ==
  ASSUME IInv, TagsHeld, NEW s \in Used(jobs), active \in {0, jobs[s].id}, NEW evs \in EventQueue,
         NEW over, Ends(s, evs, over),
         over = {} \/ ~jobs[s].trial
           \/ (~dev[jobs[s].tag].ours /\ inbox[jobs[s].tag] = None /\ mailbox = None)
  PROVE  TagsHeld'
<1>1. PICK accepted \in BOOLEAN : \E cmd \in Command :
        /\ Submit(evs, accepted, cmd)
        /\ cmd.kind = "Disconnect" /\ cmd.smp = "TagStatus"
        /\ cmd.tag = jobs[s].tag /\ cmd.rel = jobs[s].rel
        /\ ses' = [NoSession EXCEPT !.await = "Disconnected", !.sub = accepted]
  BY DEF Ends
<1>2. PICK cmd \in Command :
        /\ Submit(evs, accepted, cmd)
        /\ cmd.kind = "Disconnect" /\ cmd.smp = "TagStatus"
        /\ cmd.tag = jobs[s].tag /\ cmd.rel = jobs[s].rel
        /\ ses' = [NoSession EXCEPT !.await = "Disconnected", !.sub = accepted]
  BY <1>1
<1>3. ses'.await = "Disconnected"
  BY <1>2 DEF NoSession
<1>4. ~Listening'
  BY <1>3 DEF Listening, Open
<1>5. Leads(Db, Db', s, over) /\ active' = jobs[s].id
  BY DEF Ends
<1>6. QED
  BY <1>2, <1>3, <1>4, <1>5, SubmittedTags

\* A session that asks: a trial is only asked for by a job that owns it.
LEMMA AsksTags ==
  ASSUME IInv, TagsHeld, NEW s \in Used(jobs), active \in {0, jobs[s].id}, NEW evs \in EventQueue,
         NEW kind, NEW smp, Asks(s, evs, kind, smp),
         smp = "Trial" => Armable(dev[jobs[s].tag], jobs[s].rel) /\ jobs'[s].trial,
         smp # "TagStatus" => inbox[jobs[s].tag] = None,
         smp = "Upload" \/ jobs'[s].phase = "Uploading" => Plain(dev[jobs[s].tag], jobs[s].rel)
  PROVE  TagsHeld'
<1>1. PICK cmd \in Command :
        /\ Submit(evs, TRUE, cmd)
        /\ cmd.kind = kind /\ cmd.smp = smp /\ cmd.tag = jobs[s].tag /\ cmd.rel = jobs[s].rel
        /\ smp = "Upload" => cmd.off < ImageSize
  BY DEF Asks
<1>2. Leads(Db, Db', s, {}) /\ ~disabled' /\ jobs'[s].phase \in Underway /\ active' = jobs[s].id
  BY DEF Asks
<1>3. ses'.await # "Poll"
  BY DEF Asks
<1>4. cmd.smp = "Trial" => OwnedIn(nvs', cmd.tag, cmd.rel)
  <2>1. Db.jobs = jobs /\ Db'.nvs = nvs' /\ Db'.jobs = jobs' /\ Db'.disabled = disabled'
    BY DEF Db
  <2>2. Sound(Db)
    BY DbSound
  <2>3. Sound(Db') /\ SameWork(Db.jobs, Db'.jobs) /\ s \in Used(Db'.jobs)
    BY <1>2, <2>1, <2>2, LeadsSound
  <2>4. jobs'[s].tag = jobs[s].tag /\ jobs'[s].rel = jobs[s].rel
    BY <2>1, <2>3 DEF SameWork
  <2>5. Live(jobs'[s])
    BY <1>2 DEF Underway, Live, Terminal
  <2>6. jobs'[s].trial => OwnedIn(Db'.nvs, Db'.jobs[s].tag, Db'.jobs[s].rel)
    BY <1>2, <2>1, <2>3, <2>5, TrialOwns
  <2>7. QED
    BY <1>1, <2>1, <2>4, <2>6
<1>5. cmd.smp = "Upload" => Plain(dev[cmd.tag], cmd.rel) /\ cmd.off < ImageSize
  BY <1>1
<1>6. cmd.smp = "Trial" => Armable(dev[cmd.tag], cmd.rel) /\ OwnedIn(nvs', cmd.tag, cmd.rel)
  BY <1>1, <1>4
<1>7. cmd.smp # "TagStatus" => inbox[cmd.tag] = None
  BY <1>1
<1>8. jobs'[s].phase = "Uploading" => Plain(dev[cmd.tag], cmd.rel)
  BY <1>1
<1>9. QED
  BY <1>1, <1>2, <1>3, <1>5, <1>6, <1>7, <1>8, SubmittedTags

\* In an open session of a working updater.
LEMMA ListeningHere ==
  ASSUME IInv, InSession, ~disabled
  PROVE  /\ Listening /\ active # 0 /\ Here \in Used(jobs) /\ active = jobs[Here].id
         /\ TheTag = jobs[Here].tag /\ TheRelease = jobs[Here].rel /\ TheTag \in Tags /\ TheRelease \in Releases
<1>1. active # 0 /\ Listening
  BY DEF InSession, Listening, Open
<1>2. Here \in Used(jobs) /\ active = jobs[Here].id
  BY <1>1, HereUsed
<1>3. jobs[Here] \in Job
  BY <1>2, UsedHere
<1>4. jobs[Here].tag \in Tags /\ jobs[Here].rel \in Releases
  BY <1>3 DEF Job
<1>5. QED
  BY <1>1, <1>2, <1>4 DEF TheTag, TheRelease

\* What the first event tells a session that listens.
LEMMA HeadTold ==
  ASSUME IInv, TagsHeld, InSession, ~disabled, events # <<>>
  PROVE  /\ Head(events) \in Event /\ Tail(events) \in EventQueue
         /\ Head(events).kind = "Reply" => inbox[TheTag] = None /\ mailbox = None
         /\ Reports(Head(events)) => ViewHolds(dev[TheTag], Head(events).reply.img, jobs[Here])
<1>1. events \in EventQueue
  BY Typed DEF IInv
<1>2. /\ Head(events) \in Event /\ Head(events) = events[1] /\ 1 \in 1..Len(events)
      /\ Tail(events) \in EventQueue
  BY <1>1, RestQueue
<1>3. Listening /\ active # 0
  BY ListeningHere
<1>4. events[1].kind = "Reply" => inbox[TheTag] = None
  BY <1>2, <1>3 DEF TagsHeld, Answered
<1>5. events[1].kind = "Reply" => mailbox = None
  BY <1>2, MailIsOurs DEF StaleEvent
<1>6. Reports(events[1]) => ViewHolds(dev[TheTag], events[1].reply.img, jobs[Here])
  BY <1>2, <1>3 DEF TagsHeld, ViewsHeld, Reports
<1>7. QED
  BY <1>2, <1>4, <1>5, <1>6

\* An event is answered: a block is only sent, and a trial only requested, on
\* the word of a tag that runs something else and has nothing pending.
LEMMA AnswersTags ==
  ASSUME IInv, TagsHeld, InSession, ~Overdue, events # <<>>, Answers(Head(events), Tail(events))
  PROVE  TagsHeld'
<1> DEFINE e == Head(events) evs == Tail(events) f == dev[TheTag]
<1>0. ~disabled
  BY DEF Overdue
<1>1. /\ Listening /\ active # 0 /\ Here \in Used(jobs) /\ active \in {0, jobs[Here].id}
      /\ TheTag = jobs[Here].tag /\ TheRelease = jobs[Here].rel /\ TheTag \in Tags
      /\ TheRelease \in Releases
  BY <1>0, ListeningHere
<1>2. /\ e \in Event /\ evs \in EventQueue
      /\ e.kind = "Reply" => inbox[TheTag] = None /\ mailbox = None
      /\ Reports(e) => ViewHolds(f, e.reply.img, jobs[Here])
  BY <1>0, HeadTold
<1>3. f \in Flash
  BY <1>1, Typed DEF IInv
<1>4. jobs[Here].phase = "Uploading" => Plain(f, TheRelease)
  BY <1>1 DEF TagsHeld
<1>5. Answers(e, evs)
  OBVIOUS
<1>6. Reports(e) => e.kind = "Reply"
  BY DEF Reports
<1>7. View(f).conf = f.conf /\ View(f).pending = f.pending
  BY <1>3 DEF View, Flash
<1>8. View(f).active = f.active /\ View(f).other = f.other /\ View(f).off = f.off
  BY <1>3 DEF View, Flash
<1> HIDE DEF e, evs, f
<1>9. CASE Ends(Here, evs, {})
  BY <1>1, <1>2, <1>9, EndsTags
<1>10. CASE FindsInstalled(e, evs)
  <2>1. Ends(Here, evs, {"Successful"}) /\ ~f.ours /\ inbox[TheTag] = None /\ mailbox = None
    BY <1>1, <1>2, <1>6, <1>10 DEF FindsInstalled, ViewHolds
  <2>2. ~dev[jobs[Here].tag].ours /\ inbox[jobs[Here].tag] = None /\ mailbox = None
    BY <1>1, <2>1 DEF f
  <2>3. QED
    BY <1>1, <1>2, <2>1, <2>2, EndsTags
<1>11. CASE FindsAnother(e, evs)
  <2>1. Ends(Here, evs, {"Failed"}) /\ ~f.ours /\ inbox[TheTag] = None /\ mailbox = None
    BY <1>1, <1>2, <1>6, <1>11 DEF FindsAnother, ViewHolds
  <2>2. ~dev[jobs[Here].tag].ours /\ inbox[jobs[Here].tag] = None /\ mailbox = None
    BY <1>1, <2>1 DEF f
  <2>3. QED
    BY <1>1, <1>2, <2>1, <2>2, EndsTags
<1>12. CASE SendsBlock(e, evs)
  <2>1. Plain(f, TheRelease)
    <3>1. CASE jobs[Here].phase = "Uploading"
      BY <1>4, <3>1
    <3>2. CASE /\ Reports(e) /\ e.reply.img.active # TheRelease
               /\ e.reply.img.conf /\ ~e.reply.img.pending
      <4>1. View(f) = e.reply.img
        BY <1>2, <3>2 DEF ViewHolds
      <4>2. QED
        BY <1>7, <1>8, <3>2, <4>1 DEF Plain
    <3>3. QED
      BY <1>12, <3>1, <3>2 DEF SendsBlock
  <2>2. Asks(Here, evs, "Exchange", "Upload") /\ inbox[jobs[Here].tag] = None
    BY <1>1, <1>2, <1>12 DEF SendsBlock
  <2>3. Plain(dev[jobs[Here].tag], jobs[Here].rel)
    BY <1>1, <2>1 DEF f
  <2>4. QED
    BY <1>1, <1>2, <2>2, <2>3, AsksTags
<1>13. CASE SendsTrial(e, evs)
  <2>1. Asks(Here, evs, "Exchange", "Trial") /\ jobs'[Here].trial /\ jobs'[Here].phase = "Rebooting"
    BY <1>13 DEF SendsTrial
  <2>2. View(f) = e.reply.img /\ Plain(f, TheRelease) /\ inbox[TheTag] = None
    BY <1>2, <1>4, <1>6, <1>13 DEF SendsTrial, ViewHolds
  <2>3. f.other = TheRelease /\ f.off = ImageSize
    BY <1>8, <1>13, <2>2 DEF SendsTrial
  <2>4. Armable(dev[jobs[Here].tag], jobs[Here].rel) /\ inbox[jobs[Here].tag] = None
    BY <1>1, <2>2, <2>3 DEF Armable, f
  <2>5. QED
    BY <1>1, <1>2, <2>1, <2>4, AsksTags
<1>14. CASE AsksMore(e.kind = "Reply", evs)
  <2>1. PICK kind \in {"Security", "Exchange"} : \E smp \in {"TagStatus", "ImageList", "Reset"} :
          /\ Asks(Here, evs, kind, smp)
          /\ smp # "TagStatus" => e.kind = "Reply"
          /\ jobs'[Here].phase = "Uploading" => jobs[Here].phase = "Uploading"
    BY <1>14 DEF AsksMore
  <2>2. PICK smp \in {"TagStatus", "ImageList", "Reset"} :
          /\ Asks(Here, evs, kind, smp)
          /\ smp # "TagStatus" => e.kind = "Reply"
          /\ jobs'[Here].phase = "Uploading" => jobs[Here].phase = "Uploading"
    BY <2>1
  <2>3. smp # "TagStatus" => inbox[jobs[Here].tag] = None
    BY <1>1, <1>2, <2>2
  <2>4. jobs'[Here].phase = "Uploading" => Plain(dev[jobs[Here].tag], jobs[Here].rel)
    BY <1>1, <1>4, <2>2 DEF f
  <2>5. QED
    BY <1>1, <1>2, <2>2, <2>3, <2>4, AsksTags
<1>15. CASE Polls(e, evs)
  <2>1. /\ Leads(Db, Db', Here, {}) /\ ~disabled' /\ jobs'[Here].phase = "Checking"
        /\ Reports(e) /\ events' = evs
        /\ UNCHANGED <<mailbox, wk, fault, inbox, dev, active, cooling, ready, stageVars>>
    BY <1>15 DEF Polls
  <2>2. WorkKept
    BY <1>1, <2>1, LeadsKept
  <2>3. Here' = Here /\ TheTag' = TheTag /\ TheRelease' = TheRelease
    BY <1>1, <2>2 DEF WorkKept
  <2>4. \A t \in Tags : \A rel : OwnedIn(nvs, t, rel) => OwnedIn(nvs', t, rel)
    <3>1. Db.jobs = jobs /\ Db.nvs = nvs /\ Db'.nvs = nvs' /\ Sound(Db)
      BY DbSound DEF Db
    <3>2. QED
      BY <1>1, <2>1, <3>1, OwnsStays
  <2>5. inbox[TheTag] = None /\ mailbox = None
    BY <1>2, <1>6, <2>1
  <2>6. \A i \in 1..Len(events') : \E k \in 1..Len(events) : events'[i] = events[k]
    BY <2>1, RestHeld DEF evs
  <2>7. QED
    BY <1>1, <2>1, <2>3, <2>4, <2>5, <2>6, SteadyTags
<1>16. QED
  BY <1>5, <1>9, <1>10, <1>11, <1>12, <1>13, <1>14, <1>15 DEF Answers

\* Nobody's trial is lost by a change that does not end a job.
LEMMA OwnsLed ==
  ASSUME IInv, NEW s \in Used(jobs), NEW over, Leads(Db, Db', s, over), over = {} \/ ~jobs[s].trial
  PROVE  \A t \in Tags : \A rel : OwnedIn(nvs, t, rel) => OwnedIn(nvs', t, rel)
<1>1. Db.jobs = jobs /\ Db.nvs = nvs /\ Db'.nvs = nvs' /\ Sound(Db)
  BY DbSound DEF Db
<1>2. QED
  BY <1>1, OwnsStays

\* The worker and the tags are not concerned, and nobody listens who did not.
LEMMA QuietTags ==
  ASSUME IInv, TagsHeld, WorkKept, UNCHANGED <<transportVars, ses>>,
         \A t \in Tags : \A rel : OwnedIn(nvs, t, rel) => OwnedIn(nvs', t, rel),
         Listening' => ~disabled /\ jobs'[Here] = jobs[Here]
  PROVE  TagsHeld'
<1>1. UNCHANGED <<mailbox, events, wk, inbox, dev, ses>>
  BY DEF transportVars
<1>2. active' = active /\ (active # 0 => Here' = Here /\ TheTag' = TheTag /\ TheRelease' = TheRelease)
  BY DEF WorkKept
<1>3. Listening' => Listening /\ Here' = Here
  BY <1>1, <1>2 DEF Listening, Open
<1>4. QED
  BY <1>1, <1>2, <1>3, SteadyTags

\* queue(), cancel() and retry(), uploads into the stage buffer.
LEMMA ApiTags ==
  ASSUME IInv, TagsHeld, ApiStep PROVE IInv' /\ TagsHeld'
<1>1. ASSUME NEW s, NEW k, Puts(s, k) PROVE IInv' /\ TagsHeld'
  <2>1. IInv' /\ WorkKept /\ (active # 0 => jobs'[Here] = jobs[Here])
    BY <1>1, PutsKeeps
  <2>2. \A t \in Tags : \A rel : OwnedIn(nvs, t, rel) => OwnedIn(nvs', t, rel)
    BY <1>1, PutOwns
  <2>3. UNCHANGED <<transportVars, ses>> /\ ~disabled
    BY <1>1 DEF Puts
  <2>4. Listening' => active # 0
    BY <2>1 DEF WorkKept, Listening, Open
  <2>5. QED
    BY <2>1, <2>2, <2>3, <2>4, QuietTags
<1>2. ASSUME NEW tag \in Tags, QueueJob(tag) PROVE IInv' /\ TagsHeld'
  <2>1. PICK s \in Slots : \E k \in Job : Puts(s, k)
    BY <1>2, QueueJobPuts
  <2>2. QED
    BY <1>1, <2>1
<1>3. ASSUME NEW s \in Used(jobs), RetryJob(s) PROVE IInv' /\ TagsHeld'
  BY <1>1, <1>3, RetryJobPuts
<1>4. ASSUME NEW s \in Used(jobs), CancelJob(s) PROVE IInv' /\ TagsHeld'
  <2> DEFINE over == IF jobs[s].trial THEN {} ELSE {"Cancelled"}
  <2>1. Leads(Db, Db', s, over)
    BY <1>4, CancelJobLeads
  <2>2. /\ IInv'
        /\ Ends(s, events, over) \/ (UNCHANGED <<transportVars, ses>> /\ (Open => Here # s))
    BY <1>4, CancelJobKeeps
  <2>3. over = {} \/ ~jobs[s].trial
    OBVIOUS
  <2>4. active' = active /\ ~disabled
    BY <1>4 DEF CancelJob
  <2> HIDE DEF over
  <2>5. CASE Ends(s, events, over)
    <3>1. active \in {0, jobs[s].id}
      BY <2>4, <2>5 DEF Ends
    <3>2. events \in EventQueue
      BY Typed DEF IInv
    <3>3. QED
      BY <2>2, <2>3, <2>5, <3>1, <3>2, EndsTags
  <2>6. CASE UNCHANGED <<transportVars, ses>> /\ (Open => Here # s)
    <3>1. WorkKept /\ (Here # s /\ active # 0 => jobs'[Here] = jobs[Here])
      BY <2>1, <2>4, LeadsKept
    <3>2. \A t \in Tags : \A rel : OwnedIn(nvs, t, rel) => OwnedIn(nvs', t, rel)
      BY <2>1, <2>3, OwnsLed
    <3>3. Listening' => jobs'[Here] = jobs[Here]
      BY <2>4, <2>6, <3>1 DEF Listening, Open
    <3>4. QED
      BY <2>2, <2>4, <2>6, <3>1, <3>2, <3>3, QuietTags
  <2>7. QED
    BY <2>2, <2>5, <2>6
<1>5. CASE StageBegin \/ StageEnd
  <2>1. UNCHANGED <<transportVars, ses>> /\ UNCHANGED <<jobVars, active>>
    BY <1>5 DEF StageBegin, StageEnd
  <2>2. nvs' = nvs /\ disabled' = disabled
    BY <2>1 DEF jobVars
  <2>3. WorkKept /\ jobs' = jobs /\ IInv'
    BY <1>5, <2>1, NothingKept, StageKeeps
  <2>4. Listening' => ~disabled
    BY <2>2 DEF Listening
  <2>5. QED
    BY <2>1, <2>2, <2>3, <2>4, QuietTags
<1>6. QED
  BY <1>2, <1>3, <1>4, <1>5 DEF ApiStep

\* What the main loop does without an event.
LEMMA SessionTags ==
  ASSUME IInv, TagsHeld, CloseDisabled \/ SessionOverdue \/ PollAgain
  PROVE  IInv' /\ TagsHeld'
<1>0. InSession
  BY DEF CloseDisabled, SessionOverdue, PollAgain
<1>1. /\ Here \in Used(jobs) /\ active \in {0, jobs[Here].id} /\ events \in EventQueue
      /\ TheTag = jobs[Here].tag /\ TheRelease = jobs[Here].rel
  BY <1>0, HereUsed, Typed DEF IInv, InSession, TheTag, TheRelease
<1>2. CASE Ends(Here, events, {})
  BY <1>1, <1>2, EndsKeeps, EndsTags, CloseDisabledKeeps, SessionOverdueKeeps, PollAgainKeeps
<1>3. CASE PollAgain /\ AsksMore(TRUE, events)
  <2>1. PICK kind \in {"Security", "Exchange"} : \E smp \in {"TagStatus", "ImageList", "Reset"} :
          /\ Asks(Here, events, kind, smp)
          /\ jobs'[Here].phase = "Uploading" => jobs[Here].phase = "Uploading"
    BY <1>3 DEF AsksMore
  <2>2. PICK smp \in {"TagStatus", "ImageList", "Reset"} :
          /\ Asks(Here, events, kind, smp)
          /\ jobs'[Here].phase = "Uploading" => jobs[Here].phase = "Uploading"
    BY <2>1
  <2>3. ses.await = "Poll" /\ ~disabled
    BY <1>3 DEF PollAgain
  <2>4. Listening /\ active # 0
    BY <1>0, <2>3, ListeningHere
  <2>5. inbox[jobs[Here].tag] = None
    BY <1>1, <2>3, <2>4 DEF TagsHeld, Answered
  <2>6. jobs'[Here].phase = "Uploading" => Plain(dev[jobs[Here].tag], jobs[Here].rel)
    BY <1>1, <2>2, <2>4 DEF TagsHeld
  <2>7. TagsHeld'
    BY <1>1, <2>2, <2>5, <2>6, AsksTags
  <2>8. QED
    BY <1>3, <2>7, PollAgainKeeps
<1>4. QED
  BY <1>2, <1>3, CloseDisabledKeeps, SessionOverdueKeeps, PollAgainKeeps

\* A session is over: what was held of it is gone.
LEMMA OverTags ==
  ASSUME IInv', TagsHeld, active' = 0, UNCHANGED <<inbox, dev>>,
         \A t \in Tags : \A rel : OwnedIn(nvs, t, rel) => OwnedIn(nvs', t, rel)
  PROVE  TagsHeld'
<1>1. mailbox' = None /\ wk' = AtRest
  BY DEF IInv, SessionHeld
<1>2. \A t \in Tags : /\ SlotsHeld(nvs', t, dev'[t])
                      /\ inbox'[t] # None => RequestHeld(nvs', t, dev'[t], inbox'[t])
  <2>1. TAKE t \in Tags
  <2>2. SlotsHeld(nvs, t, dev[t]) /\ (inbox[t] # None => RequestHeld(nvs, t, dev[t], inbox[t]))
    BY DEF TagsHeld
  <2>3. \A rel : OwnedIn(nvs, t, rel) => OwnedIn(nvs', t, rel)
    OBVIOUS
  <2>4. SlotsHeld(nvs', t, dev[t])
    BY <2>2, <2>3, SlotsStay
  <2>5. inbox[t] # None => RequestHeld(nvs', t, dev[t], inbox[t])
    BY <2>2, <2>3, RequestStays
  <2>6. QED
    BY <2>4, <2>5
<1>3. ~Listening'
  BY DEF Listening, Open
<1>4. Answered'
  BY <1>1 DEF Answered, AtRest
<1>5. ViewsHeld'
  BY <1>3 DEF ViewsHeld
<1>6. QED
  BY <1>1, <1>2, <1>3, <1>4, <1>5 DEF TagsHeld

\* Events, whatever becomes of them.
LEMMA EventTags ==
  ASSUME IInv, TagsHeld, HandleEvent PROVE IInv' /\ TagsHeld'
<1>0. events # <<>> /\ IInv'
  BY HandleEventSplit, HandleEventKeeps
<1>1. CASE InSession /\ ~Overdue /\ Answers(Head(events), Tail(events))
  BY <1>0, <1>1, AnswersTags
<1>2. CASE FinishClose(Head(events), Tail(events))
  <2>1. active' = 0 /\ UNCHANGED <<inbox, dev, nvs>>
    BY <1>2 DEF FinishClose, jobVars
  <2>2. QED
    BY <1>0, <2>1, OverTags
<1>3. CASE DropEvent(Head(events), Tail(events))
  <2>1. events' = Tail(events) /\ UNCHANGED <<mailbox, wk, inbox, dev>> /\ UNCHANGED ctlVars
    BY <1>3 DEF DropEvent
  <2>2. UNCHANGED <<jobs, nvs, disabled, active, ses>>
    BY <2>1 DEF ctlVars, jobVars
  <2>3. Here' = Here /\ TheTag' = TheTag /\ TheRelease' = TheRelease
    BY <2>2, HereStays
  <2>4. \A i \in 1..Len(events') : \E k \in 1..Len(events) : events'[i] = events[k]
    BY <1>0, <2>1, RestHeld
  <2>5. Listening' => Listening
    BY <2>2 DEF Listening, Open
  <2>6. QED
    BY <1>0, <2>1, <2>2, <2>3, <2>4, <2>5, SteadyTags
<1>4. QED
  BY <1>1, <1>2, <1>3, HandleEventSplit

\* A session that is closing.
LEMMA ClosingTags ==
  ASSUME IInv, TagsHeld, DisconnectOverdue \/ RetryDisconnect PROVE IInv' /\ TagsHeld'
<1>1. CASE DisconnectOverdue
  <2>1. disabled' = TRUE /\ UNCHANGED <<transportVars, ses, jobs, nvs, active>>
    BY <1>1 DEF DisconnectOverdue
  <2>2. WorkKept
    BY <2>1, HereStays, Typed DEF WorkKept, IInv, SavedBeforeActing, SessionHeld
  <2>3. ~Listening'
    BY <2>1 DEF Listening
  <2>4. QED
    BY <1>1, <2>1, <2>2, <2>3, QuietTags, DisconnectOverdueKeeps
<1>2. CASE RetryDisconnect
  <2>1. /\ active # 0 /\ ses.await = "Disconnected"
        /\ UNCHANGED <<jobVars, active, chk, cooling, ready, stageVars>>
    BY <1>2 DEF RetryDisconnect, Closing
  <2>2. PICK accepted \in BOOLEAN :
          /\ Submit(events, accepted, Cmd("Disconnect", "TagStatus", jobs[Here]))
          /\ ses' = [ses EXCEPT !.sub = accepted]
    BY <1>2 DEF RetryDisconnect
  <2> DEFINE cmd == Cmd("Disconnect", "TagStatus", jobs[Here])
  <2>3. Here \in Used(jobs) /\ jobs[Here].id = active /\ jobs[Here] \in Job
    BY <2>1, HereUsed, UsedHere
  <2>4. /\ cmd \in Command /\ cmd.smp = "TagStatus"
        /\ cmd.tag = jobs[Here].tag /\ cmd.rel = jobs[Here].rel
    BY <2>3, CmdType DEF Kinds, Smps
  <2>5. Leads(Db, Db', Here, {})
    BY <2>1, <2>3, DbSound, LeadsNowhere DEF Db, jobVars
  <2>6. ses'.await = "Disconnected"
    BY <2>1, <2>2, Typed DEF IInv, Session
  <2>7. active' = jobs[Here].id /\ active \in {0, jobs[Here].id} /\ events \in EventQueue
    BY <2>1, <2>3, Typed DEF IInv
  <2>8. ~Listening'
    BY <2>6 DEF Listening, Open
  <2> HIDE DEF cmd
  <2>9. Submit(events, accepted, cmd)
    BY <2>2 DEF cmd
  <2>10. TagsHeld'
    BY <2>3, <2>4, <2>5, <2>6, <2>7, <2>8, <2>9, SubmittedTags
  <2>11. QED
    BY <1>2, <2>10, RetryDisconnectKeeps
<1>3. QED
  BY <1>1, <1>2

\* The next job.
LEMMA NextJobTags ==
  ASSUME IInv, TagsHeld, NEW s \in Used(jobs), ExpireCheck(s) \/ Defer(s) \/ Start(s)
  PROVE  IInv' /\ TagsHeld'
<1>1. CASE Idles(s)
  <2>1. Leads(Db, Db', s, {}) /\ UNCHANGED <<transportVars, active, ses>> /\ active = 0
    BY <1>1 DEF Idles
  <2>2. WorkKept
    BY <2>1, LeadsKept
  <2>3. \A t \in Tags : \A rel : OwnedIn(nvs, t, rel) => OwnedIn(nvs', t, rel)
    BY <2>1, OwnsLed
  <2>4. ~Listening'
    BY <2>1 DEF Listening, Open
  <2>5. QED
    BY <1>1, <2>1, <2>2, <2>3, <2>4, QuietTags, IdlesKeeps
<1>2. CASE Start(s) /\ ~Idles(s)
  <2>1. IInv' /\ active \in {0, jobs[s].id} /\ events \in EventQueue
    BY <1>2, StartBegins, Typed DEF IInv
  <2>2. CASE Ends(s, events, {})
    BY <2>1, <2>2, EndsTags
  <2>3. CASE Asks(s, events, "Connect", "TagStatus") /\ jobs'[s].phase \in {"Connecting", "Checking"}
    BY <2>1, <2>3, AsksTags
  <2>4. QED
    BY <1>2, <2>2, <2>3, StartBegins
<1>3. QED
  BY <1>1, <1>2, ExpireCheckIdles, DeferIdles

\* All of the main loop.
LEMMA LoopTags ==
  ASSUME IInv, TagsHeld, LoopStep PROVE IInv' /\ TagsHeld'
BY SessionTags, EventTags, ClosingTags, NextJobTags DEF LoopStep

\* Deadlines pass.
LEMMA ClockTags ==
  ASSUME IInv, TagsHeld, ClockStep PROVE IInv' /\ TagsHeld'
<1>1. /\ IInv' /\ WorkKept /\ jobs' = jobs /\ nvs' = nvs /\ disabled' = disabled
      /\ UNCHANGED transportVars /\ ses'.await = ses.await
  BY ClockKeeps
<1>2. UNCHANGED <<mailbox, events, wk, inbox, dev>>
  BY <1>1 DEF transportVars
<1>3. active' = active /\ (active # 0 => Here' = Here /\ TheTag' = TheTag /\ TheRelease' = TheRelease)
  BY <1>1 DEF WorkKept
<1>4. Listening' => Listening /\ Here' = Here
  BY <1>1, <1>3 DEF Listening, Open
<1>5. QED
  BY <1>1, <1>2, <1>3, <1>4, SteadyTags

\* A restart leaves the tags alone, and forgets no trial.
LEMMA RestartTags ==
  ASSUME IInv, TagsHeld, NEW saved \in BOOLEAN, Restart(saved) PROVE IInv' /\ TagsHeld'
<1>1. IInv' /\ UNCHANGED <<inbox, dev>> /\ active' = 0 /\ nvs' \in {nvs, RestoredQueue(nvs)}
  BY RestartKeeps
<1>2. nvs \in Queue /\ ValidRestore(nvs)
  BY Typed DEF IInv
<1>3. \A t \in Tags : \A rel : OwnedIn(nvs, t, rel) => OwnedIn(nvs', t, rel)
  BY <1>1, <1>2, RestoredOwns
<1>4. QED
  BY <1>1, <1>3, OverTags

-----------------------------------------------------------------------------
(* The worker                                                              *)

\* Neither the queue nor the session is concerned.
LEMMA ControlStays ==
  ASSUME IInv, UNCHANGED ctlVars
  PROVE  /\ UNCHANGED <<jobs, nvs, disabled, active, ses>>
         /\ Here' = Here /\ TheTag' = TheTag /\ TheRelease' = TheRelease
         /\ Listening' = Listening
<1>1. UNCHANGED <<jobs, nvs, disabled, active, ses>>
  BY DEF ctlVars, jobVars
<1>2. Here' = Here /\ TheTag' = TheTag /\ TheRelease' = TheRelease
  BY <1>1, HereStays
<1>3. Listening' = Listening
  BY <1>1 DEF Listening, Open
<1>4. QED
  BY <1>1, <1>2, <1>3

\* What the worker reports is what the tag said.
LEMMA HeardTags ==
  ASSUME IInv, TagsHeld, UNCHANGED ctlVars, UNCHANGED <<mailbox, inbox, dev>>,
         wk'.step = "Replied" => wk' = wk,
         \A i \in 1..Len(events') :
           \/ events'[i].kind # "Reply"
           \/ \E k \in 1..Len(events) : events'[i] = events[k]
           \/ wk.step = "Replied" /\ wk.fresh /\ events'[i].reply = wk.reply
  PROVE  TagsHeld'
<1>1. /\ UNCHANGED <<jobs, nvs, disabled, active, ses>>
      /\ Here' = Here /\ TheTag' = TheTag /\ TheRelease' = TheRelease /\ Listening' = Listening
  BY ControlStays
<1>2. wk.step = "Replied" => wk.tag = TheTag /\ inbox[TheTag] = None
  BY DEF TagsHeld, Answered, IInv, MailHeld
<1>3. \A t \in Tags : /\ SlotsHeld(nvs', t, dev'[t])
                      /\ inbox'[t] # None => RequestHeld(nvs', t, dev'[t], inbox'[t])
  BY <1>1 DEF TagsHeld
<1>4. mailbox' # None => /\ RequestHeld(nvs', TheTag', dev'[TheTag'], mailbox')
                         /\ mailbox'.smp # "TagStatus" => inbox'[TheTag'] = None
  BY <1>1 DEF TagsHeld
<1>5. (Listening /\ jobs[Here].phase = "Uploading" => Plain(dev[TheTag], TheRelease))'
  BY <1>1 DEF TagsHeld
<1>6. Answered'
  <2>1. wk'.step = "Replied" => wk'.tag # None /\ inbox'[wk'.tag] = None
    BY DEF TagsHeld, Answered
  <2>2. active' # 0 /\ ses'.await = "Poll" => inbox'[TheTag'] = None /\ mailbox' = None
    BY <1>1 DEF TagsHeld, Answered
  <2>3. active' # 0 => \A i \in 1..Len(events') : events'[i].kind = "Reply" => inbox'[TheTag'] = None
    <3>1. SUFFICES ASSUME active # 0, NEW i \in 1..Len(events'), events'[i].kind = "Reply"
                   PROVE  inbox[TheTag] = None
      BY <1>1
    <3>2. CASE \E k \in 1..Len(events) : events'[i] = events[k]
      BY <3>1, <3>2 DEF TagsHeld, Answered
    <3>3. CASE wk.step = "Replied"
      BY <1>2, <3>3
    <3>4. QED
      BY <3>1, <3>2, <3>3
  <2>4. QED
    BY <2>1, <2>2, <2>3 DEF Answered
<1>7. ViewsHeld'
  <2>1. SUFFICES ASSUME Listening
                 PROVE  /\ wk'.step = "Replied" /\ wk'.fresh /\ wk'.reply.img # None =>
                             ViewHolds(dev[TheTag], wk'.reply.img, jobs[Here])
                        /\ \A i \in 1..Len(events') :
                             events'[i].kind = "Reply" /\ events'[i].reply.img # None =>
                               ViewHolds(dev[TheTag], events'[i].reply.img, jobs[Here])
    BY <1>1 DEF ViewsHeld
  <2>2. /\ wk.step = "Replied" /\ wk.fresh /\ wk.reply.img # None =>
             ViewHolds(dev[TheTag], wk.reply.img, jobs[Here])
        /\ \A i \in 1..Len(events) : events[i].kind = "Reply" /\ events[i].reply.img # None =>
             ViewHolds(dev[TheTag], events[i].reply.img, jobs[Here])
    BY <2>1 DEF TagsHeld, ViewsHeld
  <2>3. QED
    BY <2>2
<1>8. QED
  BY <1>3, <1>4, <1>5, <1>6, <1>7 DEF TagsHeld

\* An event of the worker.
LEMMA ReportTags ==
  ASSUME IInv, TagsHeld, UNCHANGED ctlVars, UNCHANGED <<mailbox, inbox, dev>>,
         NEW kind \in {"Connected", "Secured", "Reply", "Disconnected", "Failed"},
         NEW transient \in BOOLEAN, NEW reply \in Reply \union {None}, Emit(kind, transient, reply),
         kind = "Reply" => wk.step = "Replied" /\ reply = wk.reply, wk'.step # "Replied"
  PROVE  TagsHeld'
<1>1. \A i \in 1..Len(events') :
        \/ events'[i] = StaleEvent
        \/ \E k \in 1..Len(events) : events'[i] = events[k]
        \/ /\ wk.fresh /\ Len(events) < EventMax
           /\ events'[i] = [kind |-> kind, transient |-> transient, reply |-> reply]
  BY Emitted
<1>2. StaleEvent.kind # "Reply"
  BY DEF StaleEvent
<1>3. \A i \in 1..Len(events') :
        \/ events'[i].kind # "Reply"
        \/ \E k \in 1..Len(events) : events'[i] = events[k]
        \/ wk.step = "Replied" /\ wk.fresh /\ events'[i].reply = wk.reply
  BY <1>1, <1>2
<1>4. QED
  BY <1>3, HeardTags

\* The worker takes a command: what the mailbox held is on its way to the tag.
LEMMA TakeTags ==
  ASSUME IInv, TagsHeld, TakeCommand, UNCHANGED ctlVars
  PROVE  TagsHeld'
<1>0. /\ mailbox # None /\ mailbox' = None /\ UNCHANGED <<events, dev>>
      /\ wk'.step = "Replied" => wk' = wk /\ inbox' = inbox
  <2>0. wk \in Worker
    BY Typed DEF IInv
  <2>1. CASE TakeConnect
    BY <2>0, <2>1 DEF TakeConnect, AtRest
  <2>2. CASE TakeDisconnect
    <3>1. CASE wk.step = "Idle"
      BY <2>2, <3>1 DEF TakeDisconnect, AtRest
    <3>2. CASE wk.step # "Idle"
      <4> DEFINE c == Closed(wk)
      <4>1. c \in Worker /\ c.step \in {"Closing", "Quiet"}
        BY <2>0, ClosedTyped
      <4>2. wk' = [c EXCEPT !.fresh = mailbox.fresh, !.ack = TRUE]
        BY <2>2, <3>2 DEF TakeDisconnect
      <4> HIDE DEF c
      <4>3. wk'.step # "Replied"
        BY <4>1, <4>2 DEF Worker
      <4>4. QED
        BY <2>2, <4>3 DEF TakeDisconnect
    <3>3. QED
      BY <3>1, <3>2
  <2>3. CASE TakeSecurity
    BY <2>0, <2>3 DEF TakeSecurity, Worker
  <2>4. CASE TakeExchange
    BY <2>0, <2>4 DEF TakeExchange, Worker
  <2>5. QED
    BY <2>1, <2>2, <2>3, <2>4 DEF TakeCommand
<1>1. /\ active # 0 /\ mailbox \in Command /\ mailbox.rel = TheRelease /\ TheTag \in Tags
      /\ ~wk.fresh /\ \A i \in 1..Len(events) : events[i] = StaleEvent
  BY <1>0, MailIsOurs
<1>2. /\ UNCHANGED <<jobs, nvs, disabled, active, ses>>
      /\ Here' = Here /\ TheTag' = TheTag /\ TheRelease' = TheRelease /\ Listening' = Listening
  BY ControlStays
<1>3. \A t \in Tags : /\ SlotsHeld(nvs', t, dev'[t])
                      /\ inbox'[t] # None => RequestHeld(nvs', t, dev'[t], inbox'[t])
  <2> DEFINE req == [smp |-> mailbox.smp, off |-> mailbox.off, rel |-> mailbox.rel]
  <2>1. inbox' = inbox \/ inbox' = [inbox EXCEPT ![wk.tag] = req]
    BY DEF TakeCommand, TakeConnect, TakeDisconnect, TakeSecurity, TakeExchange
  <2>2. RequestHeld(nvs, TheTag, dev[TheTag], req)
    BY <1>0 DEF TagsHeld, RequestHeld
  <2> HIDE DEF req
  <2>3. TAKE t \in Tags
  <2>4. SlotsHeld(nvs, t, dev[t]) /\ (inbox[t] # None => RequestHeld(nvs, t, dev[t], inbox[t]))
    BY DEF TagsHeld
  <2>5. inbox \in [Tags -> Request \union {None}]
    BY Typed DEF IInv
  <2>6. inbox'[t] = inbox[t] \/ (t = wk.tag /\ inbox'[t] = req)
    BY <2>1, <2>5
  <2>7. t = wk.tag => t = TheTag
    BY DEF IInv, MailHeld
  <2>8. QED
    BY <1>0, <1>2, <2>2, <2>4, <2>6, <2>7
<1>4. (Listening /\ jobs[Here].phase = "Uploading" => Plain(dev[TheTag], TheRelease))'
  BY <1>0, <1>2 DEF TagsHeld
<1>5. Answered'
  <2>1. wk'.step = "Replied" => wk'.tag # None /\ inbox'[wk'.tag] = None
    BY <1>0 DEF TagsHeld, Answered
  <2>2. ses'.await # "Poll"
    BY <1>0, <1>1, <1>2 DEF TagsHeld, Answered
  <2>3. \A i \in 1..Len(events') : events'[i].kind # "Reply"
    BY <1>0, <1>1 DEF StaleEvent
  <2>4. QED
    BY <2>1, <2>2, <2>3 DEF Answered
<1>6. ViewsHeld'
  <2>1. \A i \in 1..Len(events') : events'[i].kind # "Reply"
    BY <1>0, <1>1 DEF StaleEvent
  <2>2. ~(wk'.step = "Replied" /\ wk'.fresh)
    BY <1>0, <1>1
  <2>3. QED
    BY <2>1, <2>2 DEF ViewsHeld
<1>7. QED
  BY <1>0, <1>3, <1>4, <1>5, <1>6 DEF TagsHeld

\* All of the worker.
LEMMA WorkerTags ==
  ASSUME IInv, TagsHeld, WorkerStep, UNCHANGED ctlVars PROVE IInv' /\ TagsHeld'
<1>0. wk \in Worker /\ None \in Reply \union {None} /\ IInv'
  BY WorkerKeeps, Typed DEF IInv
<1>1. CASE TakeCommand
  BY <1>0, <1>1, TakeTags
<1>2. CASE Opened
  <2>1. wk'.step # "Replied" /\ UNCHANGED <<mailbox, inbox, dev>> /\ Emit("Connected", FALSE, None)
    BY <1>0, <1>2 DEF Opened, Worker
  <2>2. QED
    BY <1>0, <2>1, ReportTags
<1>3. CASE Secured
  <2>1. wk'.step # "Replied" /\ UNCHANGED <<mailbox, inbox, dev>> /\ Emit("Secured", FALSE, None)
    BY <1>0, <1>3 DEF Secured, Worker
  <2>2. QED
    BY <1>0, <2>1, ReportTags
<1>4. CASE Replied
  <2>1. /\ UNCHANGED <<mailbox, inbox, dev>> /\ Emit("Reply", FALSE, wk.reply)
        /\ wk.step = "Replied" /\ wk.reply \in Reply
    BY <1>4 DEF Replied, IInv, MailHeld
  <2>2. wk'.step # "Replied"
    <3>1. CASE Len(events) < EventMax
      BY <1>0, <1>4, <3>1 DEF Replied, Worker
    <3>2. CASE ~(Len(events) < EventMax)
      BY <1>0, <1>4, <3>2, ClosedTyped DEF Replied
    <3>3. QED
      BY <3>1, <3>2
  <2>3. QED
    BY <1>0, <2>1, <2>2, ReportTags
<1>5. ASSUME NEW transient \in BOOLEAN, WorkerFails(transient) PROVE IInv' /\ TagsHeld'
  <2>1. /\ wk'.step # "Replied" /\ UNCHANGED <<mailbox, inbox, dev>> /\ Emit("Failed", transient, None)
    BY <1>0, <1>5, ClosedTyped DEF WorkerFails
  <2>2. QED
    BY <1>0, <2>1, ReportTags
<1>6. CASE Quiesced
  <2>1. wk'.step # "Replied" /\ UNCHANGED <<mailbox, events, inbox, dev>>
    BY <1>0, <1>6 DEF Quiesced, Worker
  <2>2. QED
    BY <1>0, <2>1, HeardTags
<1>7. CASE Acknowledge
  <2>1. UNCHANGED <<mailbox, inbox, dev>> /\ Emit("Disconnected", FALSE, None)
    BY <1>7 DEF Acknowledge
  <2>2. wk'.step # "Replied"
    BY <1>7 DEF Acknowledge, AtRest
  <2>3. QED
    BY <1>0, <2>1, <2>2, ReportTags
<1>8. CASE FaultLatches
  <2>1. UNCHANGED <<mailbox, events, wk, inbox, dev>>
    BY <1>8 DEF FaultLatches
  <2>2. QED
    BY <1>0, <2>1, HeardTags
<1>9. QED
  BY <1>1, <1>2, <1>3, <1>4, <1>5, <1>6, <1>7, <1>8 DEF WorkerStep

-----------------------------------------------------------------------------
(* The tags                                                                *)

\* A tag's slots change to g, its request is served or lost or neither, and
\* the worker hears an answer that is right, or nothing new.
Turns(t, g) ==
  /\ UNCHANGED <<mailbox, events, fault>> /\ dev' = [dev EXCEPT ![t] = g]
  /\ inbox' = inbox \/ inbox' = [inbox EXCEPT ![t] = None]
  /\ wk' \in Worker /\ wk'.tag = wk.tag /\ wk'.fresh = wk.fresh
  /\ wk = AtRest => wk' = AtRest
  /\ wk'.step = "Replied" =>
       \/ wk.step = "Replied" /\ wk'.reply = wk.reply
       \/ /\ wk.tag = t /\ inbox' = [inbox EXCEPT ![t] = None]
          /\ wk'.reply \in Reply /\ (wk'.reply.img # None => wk'.reply.img = View(g))

\* Whatever a tag does so, the first invariant is kept.
LEMMA TurnKeeps ==
  ASSUME IInv, UNCHANGED ctlVars, NEW t \in Tags, NEW g \in Flash, Turns(t, g)
  PROVE  IInv'
<1>1. TransportTypeOK'
  <2>1. inbox \in [Tags -> Request \union {None}] /\ dev \in [Tags -> Flash]
    BY Typed DEF IInv
  <2>2. inbox' \in [Tags -> Request \union {None}] /\ dev' \in [Tags -> Flash] /\ wk' \in Worker
    BY <2>1 DEF Turns
  <2>3. mailbox' \in Command \union {None} /\ events' \in Seq(Event) /\ Len(events') <= EventMax
        /\ fault' \in BOOLEAN
    BY DEF IInv, TypeOK, TransportTypeOK, Turns
  <2>4. QED
    BY <2>2, <2>3 DEF TransportTypeOK
<1>2. TheTag' = TheTag /\ TheRelease' = TheRelease
  BY ControlStays
<1>3. MailHeld'
  <2>1. mailbox' # None =>
          /\ mailbox'.tag = TheTag' /\ mailbox'.rel = TheRelease'
          /\ ~wk'.fresh /\ \A i \in 1..Len(events') : events'[i] = StaleEvent
    BY <1>2 DEF IInv, MailHeld, Turns
  <2>2. wk'.tag # None => wk'.tag = TheTag'
    BY <1>2 DEF IInv, MailHeld, Turns
  <2>3. wk'.step = "Replied" => wk'.reply \in Reply
    BY DEF IInv, MailHeld, Turns
  <2>4. \A i \in 1..Len(events') : /\ events'[i].kind = "Disconnected" => wk' = AtRest
                                   /\ events'[i].kind = "Reply" => events'[i].reply \in Reply
    BY DEF IInv, MailHeld, Turns
  <2>5. QED
    BY <2>1, <2>2, <2>3, <2>4 DEF MailHeld
<1>4. active = 0 => mailbox' = None /\ wk' = AtRest
  BY DEF IInv, SessionHeld, Turns
<1>5. mailbox' = mailbox
  BY DEF Turns
<1>6. QED
  BY <1>1, <1>3, <1>4, <1>5, TransportKeeps

\* What the tag does is nothing that the session does not expect.
LEMMA TurnTags ==
  ASSUME IInv, TagsHeld, UNCHANGED ctlVars, NEW t \in Tags, NEW g \in Flash, Turns(t, g),
         SlotsHeld(nvs, t, g),
         inbox' = inbox /\ inbox[t] # None => RequestHeld(nvs, t, g, inbox[t]),
         mailbox # None /\ TheTag = t => RequestHeld(nvs, t, g, mailbox),
         Listening /\ TheTag = t /\ jobs[Here].phase = "Uploading" => Plain(g, TheRelease),
         Listening /\ TheTag = t /\ inbox[t] = None =>
           \A img : ViewHolds(dev[t], img, jobs[Here]) => ViewHolds(g, img, jobs[Here])
  PROVE  TagsHeld'
<1>0. /\ UNCHANGED <<mailbox, events>> /\ dev' = [dev EXCEPT ![t] = g]
      /\ inbox' = inbox \/ inbox' = [inbox EXCEPT ![t] = None]
      /\ wk'.tag = wk.tag /\ wk'.fresh = wk.fresh
      /\ wk'.step = "Replied" =>
           \/ wk.step = "Replied" /\ wk'.reply = wk.reply
           \/ /\ wk.tag = t /\ inbox' = [inbox EXCEPT ![t] = None]
              /\ wk'.reply.img # None => wk'.reply.img = View(g)
  BY DEF Turns
<1>1. /\ UNCHANGED <<jobs, nvs, disabled, active, ses>>
      /\ Here' = Here /\ TheTag' = TheTag /\ TheRelease' = TheRelease /\ Listening' = Listening
  BY ControlStays
<1>2. inbox \in [Tags -> Request \union {None}] /\ dev \in [Tags -> Flash]
  BY Typed DEF IInv
<1>3. /\ dev'[t] = g /\ \A o \in Tags : o # t => dev'[o] = dev[o]
      /\ inbox'[t] \in {inbox[t], None} /\ \A o \in Tags : o # t => inbox'[o] = inbox[o]
      /\ \A o \in Tags : inbox'[o] \in {inbox[o], None}
  BY <1>0, <1>2
<1>4. \A o \in Tags : /\ SlotsHeld(nvs', o, dev'[o])
                      /\ inbox'[o] # None => RequestHeld(nvs', o, dev'[o], inbox'[o])
  <2>1. TAKE o \in Tags
  <2>2. CASE o = t
    <3>1. inbox'[t] # None => inbox' = inbox
      BY <1>0, <1>2
    <3>2. QED
      BY <1>1, <1>3, <2>2, <3>1
  <2>3. CASE o # t
    BY <1>1, <1>3, <2>3 DEF TagsHeld
  <2>4. QED
    BY <2>2, <2>3
<1>5. mailbox' # None => /\ RequestHeld(nvs', TheTag', dev'[TheTag'], mailbox')
                         /\ mailbox'.smp # "TagStatus" => inbox'[TheTag'] = None
  <2>1. SUFFICES ASSUME mailbox # None
                 PROVE  /\ RequestHeld(nvs, TheTag, dev'[TheTag], mailbox)
                        /\ mailbox.smp # "TagStatus" => inbox'[TheTag] = None
    BY <1>0, <1>1
  <2>2. TheTag \in Tags
    BY <2>1, MailIsOurs
  <2>3. /\ RequestHeld(nvs, TheTag, dev[TheTag], mailbox)
        /\ mailbox.smp # "TagStatus" => inbox[TheTag] = None
    BY <2>1 DEF TagsHeld
  <2>4. mailbox.smp # "TagStatus" => inbox'[TheTag] = None
    BY <1>3, <2>2, <2>3
  <2>5. RequestHeld(nvs, TheTag, dev'[TheTag], mailbox)
    BY <1>3, <2>1, <2>2, <2>3
  <2>6. QED
    BY <2>4, <2>5
<1>6. Listening => active # 0 /\ TheTag \in Tags
  <2>1. SUFFICES ASSUME Listening PROVE active # 0 /\ TheTag \in Tags
    OBVIOUS
  <2>2. active # 0
    BY <2>1 DEF Listening, Open
  <2>3. jobs[Here] \in Job
    BY <2>2, HereUsed, UsedHere
  <2>4. QED
    BY <2>2, <2>3 DEF Job, TheTag
<1>7. (Listening /\ jobs[Here].phase = "Uploading" => Plain(dev[TheTag], TheRelease))'
  <2>1. Listening /\ jobs[Here].phase = "Uploading" => Plain(dev[TheTag], TheRelease)
    BY DEF TagsHeld
  <2>2. Listening /\ jobs[Here].phase = "Uploading" => Plain(dev'[TheTag], TheRelease)
    BY <1>3, <1>6, <2>1
  <2>3. QED
    BY <1>1, <2>2
<1>8. Answered'
  <2>1. wk'.step = "Replied" => wk'.tag # None /\ inbox'[wk'.tag] = None
    <3>1. CASE wk.step = "Replied"
      <4>1. wk.tag # None /\ inbox[wk.tag] = None
        BY <3>1 DEF TagsHeld, Answered
      <4>2. wk.tag \in Tags
        BY <4>1, Typed DEF IInv, Worker
      <4>3. QED
        BY <1>0, <1>3, <4>1, <4>2
    <3>2. CASE wk.tag = t /\ inbox' = [inbox EXCEPT ![t] = None]
      BY <1>0, <1>2, <3>2
    <3>3. QED
      BY <1>0, <3>1, <3>2
  <2>2. active # 0 => TheTag \in Tags
    BY HereUsed, UsedHere DEF TheTag, Job
  <2>3. active' # 0 /\ ses'.await = "Poll" => inbox'[TheTag'] = None /\ mailbox' = None
    BY <1>0, <1>1, <1>3, <2>2 DEF TagsHeld, Answered
  <2>4. active' # 0 => \A i \in 1..Len(events') : events'[i].kind = "Reply" => inbox'[TheTag'] = None
    BY <1>0, <1>1, <1>3, <2>2 DEF TagsHeld, Answered
  <2>5. QED
    BY <2>1, <2>3, <2>4 DEF Answered
<1>9. ViewsHeld'
  <2>1. SUFFICES ASSUME Listening
                 PROVE  /\ wk'.step = "Replied" /\ wk'.fresh /\ wk'.reply.img # None =>
                             ViewHolds(dev'[TheTag], wk'.reply.img, jobs[Here])
                        /\ \A i \in 1..Len(events) :
                             events[i].kind = "Reply" /\ events[i].reply.img # None =>
                               ViewHolds(dev'[TheTag], events[i].reply.img, jobs[Here])
    BY <1>0, <1>1 DEF ViewsHeld
  <2>2. /\ wk.step = "Replied" /\ wk.fresh /\ wk.reply.img # None =>
             ViewHolds(dev[TheTag], wk.reply.img, jobs[Here])
        /\ \A i \in 1..Len(events) : events[i].kind = "Reply" /\ events[i].reply.img # None =>
             ViewHolds(dev[TheTag], events[i].reply.img, jobs[Here])
    BY <2>1 DEF TagsHeld, ViewsHeld
  <2>3. active # 0 /\ TheTag \in Tags
    BY <1>6, <2>1
  <2>4. inbox[TheTag] = None =>
          \A img : ViewHolds(dev[TheTag], img, jobs[Here]) => ViewHolds(dev'[TheTag], img, jobs[Here])
    BY <1>3, <2>1, <2>3
  <2>5. /\ wk.step = "Replied" => wk.tag = TheTag /\ inbox[TheTag] = None
        /\ \A i \in 1..Len(events) : events[i].kind = "Reply" => inbox[TheTag] = None
    BY <2>3 DEF TagsHeld, Answered, IInv, MailHeld
  <2>6. \A i \in 1..Len(events) : events[i].kind = "Reply" /\ events[i].reply.img # None =>
          ViewHolds(dev'[TheTag], events[i].reply.img, jobs[Here])
    BY <2>2, <2>4, <2>5
  <2>7. ASSUME wk'.step = "Replied", wk'.fresh, wk'.reply.img # None
        PROVE  ViewHolds(dev'[TheTag], wk'.reply.img, jobs[Here])
    <3>1. CASE wk.step = "Replied" /\ wk'.reply = wk.reply
      BY <1>0, <2>2, <2>4, <2>5, <2>7, <3>1
    <3>2. CASE wk.tag = t /\ wk'.reply.img = View(g)
      <4>1. wk.tag # None
        BY <3>2
      <4>2. TheTag = t
        BY <3>2, <4>1 DEF IInv, MailHeld
      <4>3. \A rel : OwnedIn(nvs, t, rel) => rel = jobs[Here].rel
        BY <2>1, <4>2, OwnerIsHere DEF TheRelease
      <4>4. ViewHolds(g, View(g), jobs[Here])
        BY <4>3, FreshView
      <4>5. QED
        BY <1>3, <3>2, <4>2, <4>4
    <3>3. QED
      BY <1>0, <2>7, <3>1, <3>2
  <2>8. QED
    BY <2>6, <2>7
<1>10. QED
  BY <1>4, <1>5, <1>7, <1>8, <1>9 DEF TagsHeld

\* What is held of one tag, and of the session that waits for it.
LEMMA TagNow ==
  ASSUME IInv, TagsHeld, NEW t \in Tags
  PROVE  /\ dev[t] \in Flash /\ SlotsHeld(nvs, t, dev[t]) /\ wk \in Worker
         /\ inbox[t] # None => inbox[t] \in Request /\ RequestHeld(nvs, t, dev[t], inbox[t])
         /\ mailbox # None /\ TheTag = t =>
              /\ RequestHeld(nvs, t, dev[t], mailbox) /\ mailbox.rel = TheRelease
              /\ mailbox.smp # "TagStatus" => inbox[t] = None
         /\ Listening /\ TheTag = t =>
              /\ jobs[Here].phase = "Uploading" => Plain(dev[t], TheRelease)
              /\ TheRelease \in Releases /\ TheRelease = jobs[Here].rel
              /\ \A rel : OwnedIn(nvs, t, rel) => jobs[Here].phase # "Uploading"
<1>1. dev[t] \in Flash /\ wk \in Worker /\ (inbox[t] # None => inbox[t] \in Request)
  BY Typed DEF IInv
<1>2. /\ SlotsHeld(nvs, t, dev[t])
      /\ inbox[t] # None => RequestHeld(nvs, t, dev[t], inbox[t])
  BY DEF TagsHeld
<1>3. mailbox # None /\ TheTag = t =>
        /\ RequestHeld(nvs, t, dev[t], mailbox) /\ mailbox.rel = TheRelease
        /\ mailbox.smp # "TagStatus" => inbox[t] = None
  BY MailIsOurs DEF TagsHeld
<1>4. ASSUME Listening, TheTag = t
      PROVE  /\ jobs[Here].phase = "Uploading" => Plain(dev[t], TheRelease)
             /\ TheRelease \in Releases /\ TheRelease = jobs[Here].rel
             /\ \A rel : OwnedIn(nvs, t, rel) => jobs[Here].phase # "Uploading"
  <2>1. active # 0
    BY <1>4 DEF Listening, Open
  <2>2. jobs[Here] \in Job /\ Legal(jobs[Here])
    BY <2>1, HereUsed, UsedHere
  <2>3. TheRelease \in Releases /\ TheRelease = jobs[Here].rel
    BY <2>2 DEF Job, TheRelease
  <2>4. \A rel : OwnedIn(nvs, t, rel) => jobs[Here].trial
    BY <1>4, OwnerIsHere
  <2>5. \A rel : OwnedIn(nvs, t, rel) => jobs[Here].phase # "Uploading"
    BY <2>2, <2>4 DEF Legal
  <2>6. QED
    BY <1>4, <2>3, <2>5 DEF TagsHeld
<1>5. QED
  BY <1>1, <1>2, <1>3, <1>4

\* The tag serves its request.
LEMMA ServesTags ==
  ASSUME IInv, TagsHeld, UNCHANGED ctlVars, NEW t \in Tags, TagServes(t) PROVE IInv' /\ TagsHeld'
<1> DEFINE f == dev[t] r == inbox[t]
<1>0. /\ f \in Flash /\ SlotsHeld(nvs, t, f) /\ wk \in Worker
      /\ r # None => r \in Request /\ RequestHeld(nvs, t, f, r)
      /\ mailbox # None /\ TheTag = t =>
           /\ RequestHeld(nvs, t, f, mailbox) /\ mailbox.rel = TheRelease
           /\ mailbox.smp # "TagStatus" => inbox[t] = None
      /\ Listening /\ TheTag = t =>
           /\ jobs[Here].phase = "Uploading" => Plain(f, TheRelease)
           /\ TheRelease \in Releases /\ TheRelease = jobs[Here].rel
           /\ \A rel : OwnedIn(nvs, t, rel) => jobs[Here].phase # "Uploading"
  BY TagNow
<1>1. r # None
  BY DEF TagServes
<1>2. PICK a \in Served(f, r.smp, r.rel, r.off) :
        LET reset == a.ok /\ r.smp = "Reset"
            heard == [wk EXCEPT !.step = "Replied", !.lost = reset,
                                !.reply = [ok |-> a.ok, off |-> a.off, img |-> a.img]]
        IN  /\ dev' = [dev EXCEPT ![t] = a.flash]
            /\ IF wk.step = "Writing" /\ wk.tag = t /\ ~wk.lost
               THEN \/ wk' = heard
                    \/ reset /\ wk' = [wk EXCEPT !.lost = TRUE]
               ELSE wk' = wk
  BY DEF TagServes
<1>3. inbox' = [inbox EXCEPT ![t] = None] /\ UNCHANGED <<mailbox, events, fault>>
  BY DEF TagServes
<1> DEFINE g == a.flash rep == [ok |-> a.ok, off |-> a.off, img |-> a.img]
<1> HIDE DEF f, r
<1>4. /\ g \in Flash /\ SlotsHeld(nvs, t, g) /\ rep \in Reply
      /\ a.img # None => g = f /\ a.img = View(f)
      /\ \A rel : Plain(f, rel) => Plain(g, rel) \/ OwnedIn(nvs, t, r.rel)
  BY <1>0, <1>1, <1>2, ServedHeld
<1>5. rep.img = a.img
  OBVIOUS
<1>6. dev' = [dev EXCEPT ![t] = g]
  BY <1>2
<1>7. \/ wk' = wk
      \/ wk.step = "Writing" /\ wk' = [wk EXCEPT !.lost = TRUE]
      \/ /\ wk.step = "Writing" /\ wk.tag = t
         /\ \E lost \in BOOLEAN : wk' = [wk EXCEPT !.step = "Replied", !.lost = lost, !.reply = rep]
  <2>1. (a.ok /\ r.smp = "Reset") \in BOOLEAN
    OBVIOUS
  <2>2. QED
    BY <1>2, <2>1
<1> HIDE DEF g, rep
<1>8. Turns(t, g)
  <2>1. CASE wk' = wk
    BY <1>0, <1>3, <1>6, <2>1 DEF Turns
  <2>2. CASE wk.step = "Writing" /\ wk' = [wk EXCEPT !.lost = TRUE]
    <3>1. wk' \in Worker /\ wk'.tag = wk.tag /\ wk'.fresh = wk.fresh /\ wk'.step = "Writing"
      BY <1>0, <2>2 DEF Worker
    <3>2. wk # AtRest
      BY <2>2 DEF AtRest
    <3>3. QED
      BY <1>3, <1>6, <3>1, <3>2 DEF Turns
  <2>3. ASSUME wk.step = "Writing", wk.tag = t, NEW lost \in BOOLEAN,
               wk' = [wk EXCEPT !.step = "Replied", !.lost = lost, !.reply = rep]
        PROVE  Turns(t, g)
    <3>1. wk' \in Worker
      BY <1>0, <1>4, <2>3 DEF Worker, Steps
    <3>2. wk'.tag = wk.tag /\ wk'.fresh = wk.fresh /\ wk'.reply = rep
      BY <1>0, <2>3 DEF Worker
    <3>3. wk # AtRest
      BY <2>3 DEF AtRest
    <3>4. rep.img # None => rep.img = View(g)
      BY <1>4, <1>5
    <3>5. QED
      BY <1>3, <1>4, <1>6, <2>3, <3>1, <3>2, <3>3, <3>4 DEF Turns
  <2>4. QED
    BY <1>7, <2>1, <2>2, <2>3
<1>9. inbox' # inbox
  <2>1. inbox \in [Tags -> Request \union {None}]
    BY Typed DEF IInv
  <2>2. inbox'[t] = None
    BY <1>3, <2>1
  <2>3. QED
    BY <1>1, <2>2 DEF r
<1>10. mailbox # None /\ TheTag = t => RequestHeld(nvs, t, g, mailbox)
  <2>1. mailbox # None /\ TheTag = t => mailbox.smp = "TagStatus"
    BY <1>0, <1>1 DEF r
  <2>2. QED
    BY <2>1 DEF RequestHeld
<1>11. Listening /\ TheTag = t /\ jobs[Here].phase = "Uploading" => Plain(g, TheRelease)
  BY <1>0, <1>4
<1>12. inbox[t] # None
  BY <1>1 DEF r
<1>13. QED
  BY <1>4, <1>8, <1>9, <1>10, <1>11, <1>12, TurnKeeps, TurnTags

\* The tag reboots: a tag that counts on nothing does not notice.
LEMMA RebootsTags ==
  ASSUME IInv, TagsHeld, UNCHANGED ctlVars, NEW t \in Tags, TagReboots(t) PROVE IInv' /\ TagsHeld'
<1> DEFINE f == dev[t] g == Booted(dev[t])
<1>0. /\ f \in Flash /\ SlotsHeld(nvs, t, f) /\ wk \in Worker
      /\ mailbox # None /\ TheTag = t => RequestHeld(nvs, t, f, mailbox)
      /\ Listening /\ TheTag = t =>
           /\ jobs[Here].phase = "Uploading" => Plain(f, TheRelease)
           /\ TheRelease \in Releases /\ TheRelease = jobs[Here].rel
  BY TagNow
<1>1. g # f /\ inbox' = [inbox EXCEPT ![t] = None] /\ UNCHANGED <<mailbox, events, fault>>
  BY DEF TagReboots
<1>2. dev' = [dev EXCEPT ![t] = g]
  BY Typed DEF IInv, TagReboots
<1>3. wk' = wk \/ (wk.step \in Working /\ wk' = [wk EXCEPT !.lost = TRUE])
  BY DEF TagReboots
<1>4. g \in Flash /\ SlotsHeld(nvs, t, g) /\ \A rel : ~Plain(f, rel)
  BY <1>0, <1>1, BootedHeld
<1>5. Listening /\ TheTag = t =>
        \A img : ViewHolds(f, img, jobs[Here]) => ViewHolds(g, img, jobs[Here])
  BY <1>0, <1>1, BootedView
<1> HIDE DEF f, g
<1>6. Turns(t, g)
  <2>1. CASE wk' = wk
    BY <1>0, <1>1, <1>2, <2>1 DEF Turns
  <2>2. CASE wk.step \in Working /\ wk' = [wk EXCEPT !.lost = TRUE]
    <3>1. wk' \in Worker /\ wk'.tag = wk.tag /\ wk'.fresh = wk.fresh
      BY <1>0, <2>2 DEF Worker
    <3>2. wk'.step = wk.step /\ wk'.reply = wk.reply
      BY <1>0, <2>2 DEF Worker
    <3>3. wk # AtRest
      BY <2>2 DEF AtRest, Working
    <3>4. QED
      BY <1>1, <1>2, <3>1, <3>2, <3>3 DEF Turns
  <2>3. QED
    BY <1>3, <2>1, <2>2
<1>7. inbox' = inbox => inbox[t] = None
  <2>1. inbox \in [Tags -> Request \union {None}]
    BY Typed DEF IInv
  <2>2. inbox'[t] = None
    BY <1>1, <2>1
  <2>3. QED
    BY <2>2
<1>8. mailbox # None /\ TheTag = t => RequestHeld(nvs, t, g, mailbox)
  BY <1>0, <1>4 DEF RequestHeld, Armable
<1>9. ~(Listening /\ TheTag = t /\ jobs[Here].phase = "Uploading")
  BY <1>0, <1>4
<1>10. Listening /\ TheTag = t =>
         \A img : ViewHolds(dev[t], img, jobs[Here]) => ViewHolds(g, img, jobs[Here])
  BY <1>5 DEF f
<1>11. QED
  BY <1>4, <1>6, <1>7, <1>8, <1>9, <1>10, TurnKeeps, TurnTags

\* The tag confirms what it runs.
LEMMA ConfirmsTags ==
  ASSUME IInv, TagsHeld, UNCHANGED ctlVars, NEW t \in Tags, TagConfirms(t) PROVE IInv' /\ TagsHeld'
<1> DEFINE f == dev[t] g == Confirmed(dev[t])
<1>0. /\ f \in Flash /\ SlotsHeld(nvs, t, f) /\ wk \in Worker
      /\ inbox[t] # None => RequestHeld(nvs, t, f, inbox[t])
      /\ mailbox # None /\ TheTag = t => RequestHeld(nvs, t, f, mailbox)
      /\ Listening /\ TheTag = t => (jobs[Here].phase = "Uploading" => Plain(f, TheRelease))
  BY TagNow
<1>1. ~f.conf /\ UNCHANGED <<mailbox, events, wk, fault, inbox>>
  BY DEF TagConfirms
<1>2. dev' = [dev EXCEPT ![t] = g]
  BY Typed DEF IInv, TagConfirms
<1>3. /\ g \in Flash /\ SlotsHeld(nvs, t, g) /\ \A rel : ~Plain(f, rel)
      /\ \A img, job : ViewHolds(f, img, job) /\ job.phase # "Uploading" => ViewHolds(g, img, job)
  BY <1>0, <1>1, ConfirmedHeld
<1> HIDE DEF f, g
<1>4. Turns(t, g)
  BY <1>0, <1>1, <1>2 DEF Turns
<1>5. inbox[t] # None => RequestHeld(nvs, t, g, inbox[t])
  BY <1>0, <1>3 DEF RequestHeld, Armable
<1>6. mailbox # None /\ TheTag = t => RequestHeld(nvs, t, g, mailbox)
  BY <1>0, <1>3 DEF RequestHeld, Armable
<1>7. ~(Listening /\ TheTag = t /\ jobs[Here].phase = "Uploading")
  BY <1>0, <1>3
<1>8. Listening /\ TheTag = t =>
        \A img : ViewHolds(dev[t], img, jobs[Here]) => ViewHolds(g, img, jobs[Here])
  BY <1>3, <1>7 DEF f
<1>9. QED
  BY <1>3, <1>4, <1>5, <1>6, <1>7, <1>8, TurnKeeps, TurnTags

-----------------------------------------------------------------------------
(* The invariant                                                           *)

\* A tag as it may be found is held, before the updater did anything to it.
LEMMA FoundHeld ==
  ASSUME NEW f \in Found, NEW q, NEW t
  PROVE  f \in Flash /\ SlotsHeld(q, t, f)
<1>1. Shipped \in Flash /\ SlotsHeld(q, t, Shipped)
  BY DEF Shipped, Flash, Images, SlotsHeld, Revertible
<1>2. ASSUME NEW r \in Releases,
             NEW pend, pend = [Shipped EXCEPT !.other = r, !.off = ImageSize, !.pending = TRUE],
             f \in {pend, Booted(pend), Confirmed(Booted(pend))}
      PROVE  f \in Flash /\ SlotsHeld(q, t, f)
  <2>1. pend = [active |-> Factory, conf |-> TRUE, other |-> r, off |-> ImageSize,
                pending |-> TRUE, ours |-> FALSE]
    BY <1>2 DEF Shipped
  <2>2. pend \in Flash
    BY <2>1 DEF Flash, Images
  <2>3. SlotsHeld(q, t, pend)
    BY <2>1 DEF SlotsHeld, Revertible
  <2>4. Booted(pend) \in Flash /\ SlotsHeld(q, t, Booted(pend))
    BY <2>2, <2>3, BootedHeld
  <2>5. ~Booted(pend).conf
    <3>1. Booted(pend) = Swapped(pend, FALSE)
      BY <2>1 DEF Booted, Bootable, Images
    <3>2. pend.other \in Images
      BY <2>1 DEF Images
    <3>3. QED
      BY <2>2, <3>1, <3>2, SwappedSlots
  <2>6. Confirmed(Booted(pend)) \in Flash /\ SlotsHeld(q, t, Confirmed(Booted(pend)))
    BY <2>4, <2>5, ConfirmedHeld
  <2>7. QED
    BY <1>2, <2>2, <2>3, <2>4, <2>6
<1>3. f = Shipped \/ \E r \in Releases :
        LET pend == [Shipped EXCEPT !.other = r, !.off = ImageSize, !.pending = TRUE]
        IN  f \in {pend, Booted(pend), Confirmed(Booted(pend))}
  BY DEF Found
<1>4. QED
  BY <1>1, <1>2, <1>3

\* Initially nothing is queued, and nothing is on its way.
LEMMA InitHeld == ASSUME Init PROVE IInv /\ TagsHeld
<1>1. /\ mailbox = None /\ events = <<>> /\ wk = AtRest /\ fault = FALSE
      /\ inbox = [t \in Tags |-> None] /\ dev \in [Tags -> Found]
      /\ jobs = [s \in Slots |-> None] /\ nvs = jobs
      /\ active = 0 /\ ses = NoSession /\ chk = [s \in Slots |-> "off"]
      /\ cooling = FALSE /\ disabled = FALSE /\ ready = TRUE /\ staged = None
      /\ staging = FALSE /\ borrowed = FALSE /\ stalled = 0
  BY DEF Init, TransportInit
<1>2. Used(jobs) = {} /\ jobs \in Queue /\ nvs \in Queue
  BY <1>1 DEF Used, Queue
<1>3. \A t \in Tags : dev[t] \in Flash /\ SlotsHeld(nvs, t, dev[t])
  BY <1>1, FoundHeld
<1>4. <<>> \in Seq(Event) /\ Len(<<>>) = 0 /\ AtRest.tag = None /\ AtRest.step = "Idle"
  BY DEF AtRest
<1>5. TypeOK
  <2>1. NoSession \in Session /\ 0 \in 0..IdMax /\ 0 \in 0..(StallMax - 1)
    BY DEF NoSession, Session, Smps
  <2>2. AtRest \in Worker
    BY DEF AtRest, Worker, Steps
  <2>3. dev \in [Tags -> Flash] /\ inbox \in [Tags -> Request \union {None}]
    BY <1>1, <1>3
  <2>4. TransportTypeOK
    <3>1. events \in Seq(Event) /\ Len(events) <= EventMax
      BY <1>1, <1>4
    <3>2. mailbox \in Command \union {None} /\ wk \in Worker /\ fault \in BOOLEAN
      BY <1>1, <2>2
    <3>3. QED
      BY <2>3, <3>1, <3>2 DEF TransportTypeOK
  <2>5. chk \in [Slots -> Deadline]
    BY <1>1 DEF Deadline
  <2>6. QED
    BY <1>1, <1>2, <2>1, <2>4, <2>5 DEF TypeOK, Queue
<1>6. ValidRestore(jobs) /\ ValidRestore(nvs) /\ SavedBeforeActing
  BY <1>1, <1>2 DEF ValidRestore, SavedBeforeActing
<1>7. SessionHeld /\ StageStaysBorrowed /\ ~Listening
  BY <1>1 DEF SessionHeld, StageStaysBorrowed, Listening, Open
<1>8. MailHeld
  BY <1>1, <1>4 DEF MailHeld
<1>9. Answered /\ ViewsHeld
  BY <1>1, <1>4, <1>7 DEF Answered, ViewsHeld
<1>10. TagsHeld
  BY <1>1, <1>3, <1>7, <1>9 DEF TagsHeld
<1>11. QED
  BY <1>5, <1>6, <1>7, <1>8, <1>10 DEF IInv

\* Doing nothing disturbs nothing.
LEMMA StutterTags ==
  ASSUME IInv, TagsHeld, UNCHANGED vars PROVE IInv' /\ TagsHeld'
<1>1. UNCHANGED ctlVars /\ UNCHANGED <<mailbox, events, wk, fault, inbox, dev>>
  BY DEF vars, transportVars
<1>2. TransportTypeOK'
  BY <1>1 DEF IInv, TypeOK, TransportTypeOK
<1>3. Here' = Here /\ TheTag' = TheTag /\ TheRelease' = TheRelease
  BY <1>1, ControlStays
<1>4. MailHeld'
  BY <1>1, <1>3 DEF IInv, MailHeld
<1>5. IInv'
  BY <1>1, <1>2, <1>4, TransportKeeps DEF IInv, SessionHeld
<1>6. TagsHeld'
  BY <1>1, HeardTags
<1>7. QED
  BY <1>5, <1>6

\* Every step keeps what is held of the controller, the worker and the tags.
LEMMA NextTags ==
  ASSUME IInv, TagsHeld, [Next]_vars PROVE IInv' /\ TagsHeld'
<1>1. CASE ApiStep
  BY <1>1, ApiTags
<1>2. CASE LoopStep
  BY <1>2, LoopTags
<1>3. CASE ClockStep
  BY <1>3, ClockTags
<1>4. CASE \E saved \in BOOLEAN : Restart(saved)
  BY <1>4, RestartTags
<1>5. CASE WorkerStep /\ UNCHANGED ctlVars
  BY <1>5, WorkerTags
<1>6. CASE TagStep /\ UNCHANGED ctlVars
  BY <1>6, ServesTags, RebootsTags, ConfirmsTags DEF TagStep
<1>7. CASE UNCHANGED vars
  BY <1>7, StutterTags
<1>8. QED
  BY <1>1, <1>2, <1>3, <1>4, <1>5, <1>6, <1>7 DEF Next

\* The invariant of the controller, its worker and its tags.
THEOREM InvariantHolds == Spec => [](IInv /\ TagsHeld)
<1>1. Init => IInv /\ TagsHeld
  BY InitHeld
<1>2. IInv /\ TagsHeld /\ [Next]_vars => (IInv /\ TagsHeld)'
  BY NextTags
<1>3. QED
  BY <1>1, <1>2, PTL DEF Spec

\* Every variable keeps its type: in particular no job gets more attempts than
\* its budget, and the worker's events fit their queue.
THEOREM TypeCorrect == Spec => []TypeOK
<1>1. IInv /\ TagsHeld => TypeOK
  BY DEF IInv
<1>2. QED
  BY <1>1, InvariantHolds, PTL

\* Until a write fails the controller acts on what it saved.
THEOREM SnapshotAgrees == Spec => []SavedBeforeActing
<1>1. IInv /\ TagsHeld => SavedBeforeActing
  BY DEF IInv
<1>2. QED
  BY <1>1, InvariantHolds, PTL

\* Memory and snapshot always pass valid_restore(): with one live job per tag
\* and every trial in a phase that leads to an inspection, no restart finds
\* the updater locked out.
THEOREM AlwaysRestorable == Spec => []SnapshotRestorable
<1>1. IInv /\ TagsHeld => SnapshotRestorable
  BY DEF IInv, SnapshotRestorable
<1>2. QED
  BY <1>1, InvariantHolds, PTL

\* The stage buffer holds the session's release while a session reads it.
THEOREM StageStays == Spec => []StageStaysBorrowed
<1>1. IInv /\ TagsHeld => StageStaysBorrowed
  BY DEF IInv
<1>2. QED
  BY <1>1, InvariantHolds, PTL

\* The worker serves the session's tag, and is at rest between two sessions.
THEOREM WorkerOwned == Spec => []SessionOwnsWorker
<1>1. IInv /\ TagsHeld => SessionOwnsWorker
  BY DEF IInv, SessionHeld, MailHeld, TheTag, SessionOwnsWorker
<1>2. QED
  BY <1>1, InvariantHolds, PTL

\* No tag is left on an unconfirmed image, or about to get one, that the
\* snapshot does not know of.
THEOREM TrialsTracked == Spec => []ArmedTracked
<1>1. ASSUME IInv, TagsHeld PROVE ArmedTracked
  <2>1. ASSUME NEW t \in Tags, dev[t].ours
        PROVE  Owns(t, IF dev[t].pending THEN dev[t].other ELSE dev[t].active)
    <3>1. SlotsHeld(nvs, t, dev[t])
      BY <1>1 DEF TagsHeld
    <3>2. QED
      BY <2>1, <3>1, OwnsIs DEF SlotsHeld
  <2>2. ASSUME NEW t \in Tags, inbox[t] # None, inbox[t].smp = "Trial"
        PROVE  Owns(t, inbox[t].rel)
    <3>1. RequestHeld(nvs, t, dev[t], inbox[t])
      BY <1>1, <2>2 DEF TagsHeld
    <3>2. QED
      BY <2>2, <3>1, OwnsIs DEF RequestHeld
  <2>3. ASSUME mailbox # None, mailbox.smp = "Trial" PROVE Owns(mailbox.tag, mailbox.rel)
    <3>1. RequestHeld(nvs, TheTag, dev[TheTag], mailbox)
      BY <1>1, <2>3 DEF TagsHeld
    <3>2. mailbox.tag = TheTag
      BY <1>1, <2>3 DEF IInv, MailHeld
    <3>3. QED
      BY <2>3, <3>1, <3>2, OwnsIs DEF RequestHeld
  <2>4. QED
    BY <2>1, <2>2, <2>3 DEF ArmedTracked
<1>2. QED
  BY <1>1, InvariantHolds, PTL

-----------------------------------------------------------------------------
(* What a step makes of the snapshot and of the mailbox                    *)

\* The tag of the session runs its release, confirmed, or is free of it.
RunsIt == dev[TheTag].active = TheRelease /\ dev[TheTag].conf

FreeOfIt == dev[TheTag].active # TheRelease /\ ~dev[TheTag].ours

\* A handler stores a job that is under way, an outcome that the tag has shown,
\* or what an operator or a restart made of it.
SnapshotMoves ==
  \/ nvs' = nvs
  \/ \E s \in Used(jobs) : \E over \in {{}, {"Cancelled"}} : Leads(Db, Db', s, over)
  \/ active # 0 /\ Leads(Db, Db', Here, {"Successful"}) /\ RunsIt
  \/ active # 0 /\ Leads(Db, Db', Here, {"Failed"}) /\ jobs[Here].trial /\ FreeOfIt
  \/ \E tag \in Tags : QueueJob(tag)
  \/ \E s \in Used(jobs) : RetryJob(s)
  \/ nvs' = RestoredQueue(nvs)

\* Of the commands that change a tag, a session only submits those for its own
\* job, whose trial cannot have begun.
MailMoves ==
  \/ mailbox' \in {mailbox, None}
  \/ ~mailbox'.fresh \/ mailbox'.smp \notin {"Upload", "Trial"}
  \/ Listening /\ ~jobs[Here].trial /\ mailbox'.tag = TheTag /\ mailbox'.rel = TheRelease

Moves == dev' = dev /\ SnapshotMoves /\ MailMoves

\* A session that ends submits a disconnect, if anything.
LEMMA EndsMoves ==
  ASSUME IInv, NEW s \in Used(jobs), NEW evs \in EventQueue, NEW over, Ends(s, evs, over)
  PROVE  Leads(Db, Db', s, over) /\ dev' = dev /\ MailMoves
<1>1. PICK accepted \in BOOLEAN, cmd \in Command :
        Submit(evs, accepted, cmd) /\ cmd.smp = "TagStatus"
  BY DEF Ends
<1>2. /\ dev' = dev /\ (accepted => mailbox' = cmd)
      /\ ~accepted /\ mailbox' # None => ~mailbox'.fresh
  BY <1>1, SubmitLeaves
<1>3. Leads(Db, Db', s, over)
  BY DEF Ends
<1>4. QED
  BY <1>1, <1>2, <1>3 DEF MailMoves

\* One that asks submits its question.
LEMMA AsksMoves ==
  ASSUME IInv, NEW s \in Used(jobs), NEW evs \in EventQueue, NEW kind, NEW smp, Asks(s, evs, kind, smp)
  PROVE  /\ Leads(Db, Db', s, {}) /\ dev' = dev
         /\ mailbox'.smp = smp /\ mailbox'.tag = jobs[s].tag /\ mailbox'.rel = jobs[s].rel
<1>1. PICK cmd \in Command :
        /\ Submit(evs, TRUE, cmd)
        /\ cmd.smp = smp /\ cmd.tag = jobs[s].tag /\ cmd.rel = jobs[s].rel
  BY DEF Asks
<1>2. dev' = dev /\ mailbox' = cmd
  BY <1>1, SubmitLeaves
<1>3. Leads(Db, Db', s, {})
  BY DEF Asks
<1>4. QED
  BY <1>1, <1>2, <1>3

\* An answer leads to an outcome only when the tag has shown it.
LEMMA AnswersMoves ==
  ASSUME IInv, TagsHeld, InSession, ~Overdue, events # <<>>, Answers(Head(events), Tail(events))
  PROVE  Moves
<1> DEFINE e == Head(events) evs == Tail(events) f == dev[TheTag]
<1>0. ~disabled
  BY DEF Overdue
<1>1. /\ Listening /\ active # 0 /\ Here \in Used(jobs)
      /\ TheTag = jobs[Here].tag /\ TheRelease = jobs[Here].rel
  BY <1>0, ListeningHere
<1>2. evs \in EventQueue /\ (Reports(e) => ViewHolds(f, e.reply.img, jobs[Here]))
  BY <1>0, HeadTold
<1>3. jobs[Here] \in Job /\ Legal(jobs[Here])
  BY <1>1, UsedHere
<1> HIDE DEF e, evs, f
<1>4. CASE Ends(Here, evs, {})
  BY <1>1, <1>2, <1>4, EndsMoves DEF Moves, SnapshotMoves
<1>5. CASE FindsInstalled(e, evs)
  <2>1. Leads(Db, Db', Here, {"Successful"}) /\ dev' = dev /\ MailMoves
    BY <1>1, <1>2, <1>5, EndsMoves DEF FindsInstalled
  <2>2. RunsIt
    BY <1>1, <1>2, <1>5 DEF FindsInstalled, ViewHolds, RunsIt, f
  <2>3. QED
    BY <1>1, <2>1, <2>2 DEF Moves, SnapshotMoves
<1>6. CASE FindsAnother(e, evs)
  <2>1. Leads(Db, Db', Here, {"Failed"}) /\ jobs[Here].trial /\ dev' = dev /\ MailMoves
    BY <1>1, <1>2, <1>6, EndsMoves DEF FindsAnother
  <2>2. FreeOfIt
    BY <1>1, <1>2, <1>6 DEF FindsAnother, ViewHolds, FreeOfIt, f
  <2>3. QED
    BY <1>1, <2>1, <2>2 DEF Moves, SnapshotMoves
<1>7. CASE SendsBlock(e, evs)
  <2>1. Asks(Here, evs, "Exchange", "Upload") /\ ~jobs[Here].trial
    BY <1>7 DEF SendsBlock
  <2>2. QED
    BY <1>1, <1>2, <2>1, AsksMoves DEF Moves, SnapshotMoves, MailMoves
<1>8. CASE SendsTrial(e, evs)
  <2>1. Asks(Here, evs, "Exchange", "Trial") /\ jobs[Here].phase = "Uploading"
    BY <1>8 DEF SendsTrial
  <2>2. ~jobs[Here].trial
    BY <1>3, <2>1 DEF Legal
  <2>3. QED
    BY <1>1, <1>2, <2>1, <2>2, AsksMoves DEF Moves, SnapshotMoves, MailMoves
<1>9. CASE AsksMore(e.kind = "Reply", evs)
  <2>1. PICK kind \in {"Security", "Exchange"} :
          \E smp \in {"TagStatus", "ImageList", "Reset"} : Asks(Here, evs, kind, smp)
    BY <1>9 DEF AsksMore
  <2>2. PICK smp \in {"TagStatus", "ImageList", "Reset"} : Asks(Here, evs, kind, smp)
    BY <2>1
  <2>3. QED
    BY <1>1, <1>2, <2>2, AsksMoves DEF Moves, SnapshotMoves, MailMoves
<1>10. CASE Polls(e, evs)
  BY <1>1, <1>10 DEF Polls, Moves, SnapshotMoves, MailMoves
<1>11. QED
  BY <1>4, <1>5, <1>6, <1>7, <1>8, <1>9, <1>10 DEF Answers, e, evs

\* What the API does.
LEMMA ApiMoves ==
  ASSUME IInv, ApiStep PROVE Moves
<1>1. CASE \E tag \in Tags : QueueJob(tag)
  <2>1. dev' = dev /\ mailbox' = mailbox
    BY <1>1 DEF QueueJob, transportVars
  <2>2. QED
    BY <1>1, <2>1 DEF Moves, SnapshotMoves, MailMoves
<1>2. CASE \E s \in Used(jobs) : RetryJob(s)
  <2>1. dev' = dev /\ mailbox' = mailbox
    BY <1>2 DEF RetryJob, transportVars
  <2>2. QED
    BY <1>2, <2>1 DEF Moves, SnapshotMoves, MailMoves
<1>3. ASSUME NEW s \in Used(jobs), CancelJob(s) PROVE Moves
  <2> DEFINE over == IF jobs[s].trial THEN {} ELSE {"Cancelled"}
  <2>1. Leads(Db, Db', s, over)
    BY <1>3, CancelJobLeads
  <2>2. Ends(s, events, over) \/ UNCHANGED transportVars
    BY <1>3, CancelJobKeeps
  <2>3. over \in {{}, {"Cancelled"}}
    OBVIOUS
  <2> HIDE DEF over
  <2>4. dev' = dev /\ MailMoves
    <3>1. CASE Ends(s, events, over)
      BY <3>1, EndsMoves, Typed DEF IInv
    <3>2. CASE UNCHANGED transportVars
      BY <3>2 DEF transportVars, MailMoves
    <3>3. QED
      BY <2>2, <3>1, <3>2
  <2>5. QED
    BY <2>1, <2>3, <2>4 DEF Moves, SnapshotMoves
<1>4. CASE StageBegin \/ StageEnd
  <2>1. dev' = dev /\ mailbox' = mailbox /\ nvs' = nvs
    BY <1>4 DEF StageBegin, StageEnd, transportVars, jobVars
  <2>2. QED
    BY <2>1 DEF Moves, SnapshotMoves, MailMoves
<1>5. QED
  BY <1>1, <1>2, <1>3, <1>4 DEF ApiStep

\* What the main loop does.
LEMMA LoopMoves ==
  ASSUME IInv, TagsHeld, LoopStep PROVE Moves
<1>0. events \in EventQueue
  BY Typed DEF IInv
<1>1. ASSUME NEW s \in Used(jobs), Ends(s, events, {}) PROVE Moves
  BY <1>0, <1>1, EndsMoves DEF Moves, SnapshotMoves
<1>2. ASSUME NEW s \in Used(jobs), NEW kind, NEW smp \in {"TagStatus", "ImageList", "Reset"},
             Asks(s, events, kind, smp)
      PROVE  Moves
  BY <1>0, <1>2, AsksMoves DEF Moves, SnapshotMoves, MailMoves
<1>3. ASSUME UNCHANGED <<mailbox, nvs, dev>> PROVE Moves
  BY <1>3 DEF Moves, SnapshotMoves, MailMoves
<1>4. CASE CloseDisabled \/ SessionOverdue \/ PollAgain
  <2>1. Here \in Used(jobs)
    BY <1>4, HereUsed DEF CloseDisabled, SessionOverdue, PollAgain, InSession
  <2>2. Ends(Here, events, {}) \/ AsksMore(TRUE, events)
    BY <1>4, CloseDisabledKeeps, SessionOverdueKeeps, PollAgainKeeps
  <2>3. CASE AsksMore(TRUE, events)
    <3>1. PICK kind \in {"Security", "Exchange"} :
            \E smp \in {"TagStatus", "ImageList", "Reset"} : Asks(Here, events, kind, smp)
      BY <2>3 DEF AsksMore
    <3>2. QED
      BY <1>2, <2>1, <3>1
  <2>4. QED
    BY <1>1, <2>1, <2>2, <2>3
<1>5. CASE HandleEvent
  <2>1. CASE InSession /\ ~Overdue /\ Answers(Head(events), Tail(events))
    BY <1>5, <2>1, HandleEventSplit, AnswersMoves
  <2>2. CASE FinishClose(Head(events), Tail(events))
    BY <1>3, <2>2 DEF FinishClose, jobVars
  <2>3. CASE DropEvent(Head(events), Tail(events))
    BY <1>3, <2>3 DEF DropEvent, ctlVars, jobVars
  <2>4. QED
    BY <1>5, <2>1, <2>2, <2>3, HandleEventSplit
<1>6. CASE DisconnectOverdue
  BY <1>3, <1>6 DEF DisconnectOverdue, transportVars
<1>7. CASE RetryDisconnect
  <2>1. active # 0 /\ nvs' = nvs
    BY <1>7 DEF RetryDisconnect, Closing, jobVars
  <2>2. PICK accepted \in BOOLEAN :
          Submit(events, accepted, Cmd("Disconnect", "TagStatus", jobs[Here]))
    BY <1>7 DEF RetryDisconnect
  <2> DEFINE cmd == Cmd("Disconnect", "TagStatus", jobs[Here])
  <2>3. cmd \in Command /\ cmd.smp = "TagStatus"
    BY <2>1, HereUsed, UsedHere, CmdType DEF Kinds, Smps
  <2> HIDE DEF cmd
  <2>4. Submit(events, accepted, cmd)
    BY <2>2 DEF cmd
  <2>5. /\ dev' = dev /\ (accepted => mailbox' = cmd)
        /\ ~accepted /\ mailbox' # None => ~mailbox'.fresh
    BY <1>0, <2>3, <2>4, SubmitLeaves
  <2>6. QED
    BY <2>1, <2>3, <2>5 DEF Moves, SnapshotMoves, MailMoves
<1>8. ASSUME NEW s \in Used(jobs), Idles(s) PROVE Moves
  <2>1. Leads(Db, Db', s, {}) /\ dev' = dev /\ mailbox' = mailbox
    BY <1>8 DEF Idles, transportVars
  <2>2. QED
    BY <2>1 DEF Moves, SnapshotMoves, MailMoves
<1>9. ASSUME NEW s \in Used(jobs), ExpireCheck(s) \/ Defer(s) \/ Start(s) PROVE Moves
  <2>1. \/ Idles(s) \/ Ends(s, events, {})
        \/ Asks(s, events, "Connect", "TagStatus")
    BY <1>9, ExpireCheckIdles, DeferIdles, StartBegins
  <2>2. QED
    BY <1>1, <1>2, <1>8, <2>1
<1>10. QED
  BY <1>4, <1>5, <1>6, <1>7, <1>9 DEF LoopStep

\* What any step does: those of the tags leave the controller alone.
LEMMA NextMoves ==
  ASSUME IInv, TagsHeld, [Next]_vars
  PROVE  Moves \/ (TagStep /\ UNCHANGED ctlVars /\ MailMoves)
<1>1. CASE ApiStep
  BY <1>1, ApiMoves
<1>2. CASE LoopStep
  BY <1>2, LoopMoves
<1>3. CASE ClockStep
  BY <1>3, ClockKeeps DEF Moves, SnapshotMoves, MailMoves, transportVars
<1>4. ASSUME NEW saved \in BOOLEAN, Restart(saved) PROVE Moves
  BY <1>4, RestartKeeps DEF Moves, SnapshotMoves, MailMoves
<1>5. CASE WorkerStep /\ UNCHANGED ctlVars
  <2>1. mailbox' \in {mailbox, None} /\ dev' = dev
    BY <1>5 DEF WorkerStep, TakeCommand, TakeConnect, TakeDisconnect, TakeSecurity, TakeExchange,
                Opened, Secured, Replied, WorkerFails, Quiesced, Acknowledge, FaultLatches
  <2>2. nvs' = nvs
    BY <1>5 DEF ctlVars, jobVars
  <2>3. QED
    BY <2>1, <2>2 DEF Moves, SnapshotMoves, MailMoves
<1>6. CASE TagStep /\ UNCHANGED ctlVars
  <2>1. mailbox' = mailbox
    BY <1>6 DEF TagStep, TagServes, TagReboots, TagConfirms
  <2>2. QED
    BY <1>6, <2>1 DEF MailMoves
<1>7. CASE UNCHANGED vars
  BY <1>7 DEF vars, ctlVars, jobVars, transportVars, Moves, SnapshotMoves, MailMoves
<1>8. QED
  BY <1>1, <1>2, <1>3, <1>4, <1>5, <1>6, <1>7 DEF Next

-----------------------------------------------------------------------------
(* Outcomes, budgets and repetitions                                       *)

\* The job of a saved slot, but for its transfer offset and its clock.
SameJob(j, k) ==
  /\ k.id = j.id /\ k.tag = j.tag /\ k.rel = j.rel
  /\ k.phase = j.phase /\ k.trial = j.trial /\ k.attempts = j.attempts

\* Only the job in slot s of a snapshot went on, or came to an outcome.
Led(q, r, s, over) ==
  /\ s \in Used(q) /\ Used(r) = Used(q)
  /\ \A o \in Used(q) \ {s} : SameJob(q[o], r[o])
  /\ r[s].id = q[s].id /\ r[s].tag = q[s].tag /\ r[s].rel = q[s].rel
  /\ q[s].attempts <= r[s].attempts
  /\ \/ SameJob(q[s], r[s])
     \/ Live(q[s]) /\ (Live(r[s]) \/ r[s].phase \in over) /\ (q[s].trial => r[s].trial)

\* While writes succeed, a slot of the snapshot holds what its queue holds.
LEMMA SavedJob ==
  ASSUME IInv, ~disabled, NEW s \in Slots
  PROVE  /\ s \in Used(jobs) <=> s \in Used(nvs)
         /\ s \in Used(nvs) => SameJob(nvs[s], jobs[s])
<1>1. Sound(Db) /\ ~Db.disabled /\ Db.jobs = jobs /\ Db.nvs = nvs
  BY DbSound DEF Db
<1>2. QED
  BY <1>1, SavedSlot DEF SameJob

\* What a handler stores, seen from the snapshot.
LEMMA LedSlots ==
  ASSUME IInv, NEW s \in Used(jobs), NEW over, Leads(Db, Db', s, over), nvs' # nvs
  PROVE  ~disabled /\ Led(nvs, nvs', s, over)
<1>1. Db.jobs = jobs /\ Db.nvs = nvs /\ Db.disabled = disabled /\ (Db').nvs = nvs'
  BY DEF Db
<1>2. ~disabled /\ \E m \in Job : Keeps(jobs[s], m, over) /\ nvs' = [jobs EXCEPT ![s] = m]
  BY <1>1 DEF Leads
<1>3. PICK m \in Job : Keeps(jobs[s], m, over) /\ nvs' = [jobs EXCEPT ![s] = m]
  BY <1>2
<1>4. s \in Slots /\ jobs[s] \in Job /\ Legal(jobs[s]) /\ jobs \in Queue
  BY UsedHere, Typed DEF IInv
<1>5. /\ m # None /\ m.id = jobs[s].id /\ m.tag = jobs[s].tag /\ m.rel = jobs[s].rel
      /\ jobs[s].attempts <= m.attempts /\ (jobs[s].trial => m.trial)
  BY <1>3, <1>4, KeepsLegal
<1>6. \/ m = jobs[s]
      \/ Live(jobs[s]) /\ (Live(m) \/ m.phase \in over)
  BY <1>3 DEF Keeps, Follows
<1>7. nvs'[s] = m /\ \A o \in Slots \ {s} : nvs'[o] = jobs[o]
  BY <1>3, <1>4 DEF Queue
<1>8. Used(nvs') = Used(jobs) /\ Used(jobs) = Used(nvs)
  <2>1. Used(jobs) = Used(nvs)
    BY <1>2, SavedJob DEF Used
  <2>2. Used(nvs') = Used(jobs)
    BY <1>5, <1>7 DEF Used
  <2>3. QED
    BY <2>1, <2>2
<1>9. \A o \in Used(nvs) \ {s} : SameJob(nvs[o], nvs'[o])
  BY <1>2, <1>7, SavedJob DEF Used
<1>10. SameJob(nvs[s], jobs[s])
  BY <1>2, <1>4, <1>8, SavedJob
<1>11. \/ SameJob(nvs[s], m)
       \/ Live(nvs[s]) /\ (Live(m) \/ m.phase \in over) /\ (nvs[s].trial => m.trial)
  BY <1>5, <1>6, <1>10 DEF SameJob, Live
<1>12. QED
  BY <1>2, <1>5, <1>7, <1>8, <1>9, <1>10, <1>11 DEF Led, SameJob

\* What queue() and retry() store.
LEMMA PutSlots ==
  ASSUME IInv, NEW s, NEW k, Puts(s, k), nvs' # nvs
  PROVE  /\ ~disabled /\ s \in Slots /\ k # None /\ nvs'[s] = k
         /\ Used(nvs') = Used(nvs) \union {s} /\ Used(nvs) = Used(jobs)
         /\ \A o \in Used(nvs) \ {s} : SameJob(nvs[o], nvs'[o])
         /\ s \in Used(nvs) => SameJob(nvs[s], jobs[s])
<1>1. nvs' = [jobs EXCEPT ![s] = k]
  BY PutsKeeps
<1>2. ~disabled /\ s \in Slots /\ k \in Job /\ jobs \in Queue
  BY Typed DEF Puts, IInv
<1>3. k # None /\ nvs'[s] = k /\ \A o \in Slots \ {s} : nvs'[o] = jobs[o]
  BY <1>1, <1>2 DEF Queue
<1>4. Used(nvs) = Used(jobs)
  BY <1>2, SavedJob DEF Used
<1>5. Used(nvs') = Used(jobs) \union {s}
  BY <1>2, <1>3 DEF Used
<1>6. \A o \in Used(nvs) \ {s} : SameJob(nvs[o], nvs'[o])
  BY <1>2, <1>3, SavedJob DEF Used
<1>7. s \in Used(nvs) => SameJob(nvs[s], jobs[s])
  BY <1>2, SavedJob
<1>8. QED
  BY <1>2, <1>3, <1>4, <1>5, <1>6, <1>7

\* What a restart stores: outcomes and budgets are what they were.
LEMMA RestoredSlots ==
  ASSUME IInv, NEW s \in Used(nvs)
  PROVE  LET r == RestoredQueue(nvs)
         IN  /\ Used(r) = Used(nvs) /\ s \in Slots
             /\ r[s].id = nvs[s].id /\ r[s].tag = nvs[s].tag /\ r[s].rel = nvs[s].rel
             /\ r[s].trial = nvs[s].trial /\ r[s].attempts = nvs[s].attempts
             /\ Live(r[s]) <=> Live(nvs[s])
             /\ ~Live(nvs[s]) => r[s].phase = nvs[s].phase
<1>0. nvs \in Queue /\ ValidRestore(nvs)
  BY Typed DEF IInv
<1>1. s \in Slots /\ nvs[s] \in Job /\ nvs[s] # None /\ Legal(nvs[s])
  BY <1>0, UsedLegal DEF Queue
<1>2. Used(RestoredQueue(nvs)) = Used(nvs)
  BY <1>0, RestoredSound
<1>3. RestoredQueue(nvs)[s] = Restored(nvs[s], 0)
  BY <1>1 DEF RestoredQueue
<1>4. /\ Restored(nvs[s], 0).id = nvs[s].id
      /\ Restored(nvs[s], 0).tag = nvs[s].tag
      /\ Restored(nvs[s], 0).rel = nvs[s].rel
      /\ Restored(nvs[s], 0).trial = nvs[s].trial
      /\ Live(Restored(nvs[s], 0)) <=> Live(nvs[s])
  BY <1>1, RestoredLegal
<1>5. Restored(nvs[s], 0).attempts = nvs[s].attempts
  BY <1>1 DEF Restored, Job
<1>6. ~Live(nvs[s]) => Restored(nvs[s], 0).phase = nvs[s].phase
  BY <1>1 DEF Restored, AfterRestart, Job, Live, Terminal
<1>7. QED
  BY <1>1, <1>2, <1>3, <1>4, <1>5, <1>6

\* A job of the queue that waits for the operator waits in the snapshot, too.
LEMMA PutWaits ==
  ASSUME IInv, NEW s, NEW k, Puts(s, k), nvs' # nvs,
         NEW o \in Used(nvs), nvs'[o].id = nvs[o].id
  PROVE  nvs[o].phase \in {"NeedsRelease", "NeedsAction"} \/ SameJob(nvs[o], nvs'[o])
<1>1. /\ nvs'[s] = k /\ Used(nvs) = Used(jobs)
      /\ \A p \in Used(nvs) \ {s} : SameJob(nvs[p], nvs'[p])
      /\ s \in Used(nvs) => SameJob(nvs[s], jobs[s])
  BY PutSlots
<1>2. CASE o # s
  BY <1>1, <1>2
<1>3. CASE o = s
  BY <1>1, <1>3 DEF Puts, SameJob
<1>4. QED
  BY <1>2, <1>3

\* Success is claimed for a tag that was seen to run the release, confirmed;
\* what a restart or an operator does claims nothing.
LEMMA SuccessMoves ==
  ASSUME IInv, SnapshotMoves, NEW s \in Used(nvs'), nvs'[s].phase = "Successful"
  PROVE  \/ s \in Used(nvs) /\ nvs[s].id = nvs'[s].id /\ nvs[s].phase = "Successful"
         \/ dev[nvs'[s].tag].active = nvs'[s].rel /\ dev[nvs'[s].tag].conf
<1> DEFINE Was == s \in Used(nvs) /\ nvs[s].id = nvs'[s].id /\ nvs[s].phase = "Successful"
<1>0. ~Live(nvs'[s])
  BY DEF Live, Terminal
<1>1. ASSUME NEW o, NEW over, Led(nvs, nvs', o, over), ~Was
      PROVE  s = o /\ "Successful" \in over /\ s \in Used(nvs)
  BY <1>0, <1>1 DEF Led, SameJob
<1>2. CASE nvs' = nvs
  BY <1>2
<1>3. ASSUME NEW o \in Used(jobs), NEW over \in {{}, {"Cancelled"}}, Leads(Db, Db', o, over), nvs' # nvs
      PROVE  Was
  <2>1. Led(nvs, nvs', o, over)
    BY <1>3, LedSlots
  <2>2. QED
    BY <1>1, <1>3, <2>1
<1>4. CASE active # 0 /\ Leads(Db, Db', Here, {"Successful"}) /\ RunsIt /\ nvs' # nvs
  <2>1. Here \in Used(jobs) /\ Here \in Slots
    BY <1>4, HereUsed, UsedHere
  <2>2. ~disabled /\ Led(nvs, nvs', Here, {"Successful"})
    BY <1>4, <2>1, LedSlots
  <2>3. CASE ~Was
    <3>1. s = Here /\ s \in Used(nvs)
      BY <1>1, <2>2, <2>3
    <3>2. nvs'[s].tag = nvs[s].tag /\ nvs'[s].rel = nvs[s].rel
      BY <2>2, <3>1 DEF Led
    <3>3. nvs[s].tag = TheTag /\ nvs[s].rel = TheRelease
      BY <2>1, <2>2, <3>1, SavedJob DEF SameJob, TheTag, TheRelease
    <3>4. QED
      BY <1>4, <3>2, <3>3 DEF RunsIt
  <2>4. QED
    BY <2>3
<1>5. CASE active # 0 /\ Leads(Db, Db', Here, {"Failed"}) /\ nvs' # nvs
  <2>1. Here \in Used(jobs)
    BY <1>5, HereUsed
  <2>2. Led(nvs, nvs', Here, {"Failed"})
    BY <1>5, <2>1, LedSlots
  <2>3. QED
    BY <1>1, <2>2
<1>6. ASSUME NEW o, NEW k, Puts(o, k), nvs' # nvs PROVE Was
  <2>1. /\ nvs'[o] = k /\ Used(nvs') = Used(nvs) \union {o}
        /\ \A p \in Used(nvs) \ {o} : SameJob(nvs[p], nvs'[p])
    BY <1>6, PutSlots
  <2>2. s # o
    BY <1>0, <1>6, <2>1 DEF Puts
  <2>3. QED
    BY <2>1, <2>2 DEF SameJob
<1>7. CASE (\E tag \in Tags : QueueJob(tag)) /\ nvs' # nvs
  BY <1>6, <1>7, QueueJobPuts
<1>8. CASE (\E o \in Used(jobs) : RetryJob(o)) /\ nvs' # nvs
  BY <1>6, <1>8, RetryJobPuts
<1>9. CASE nvs' = RestoredQueue(nvs)
  <2>0. nvs \in Queue /\ ValidRestore(nvs)
    BY Typed DEF IInv
  <2>1. s \in Used(nvs)
    BY <1>9, <2>0, RestoredSound
  <2>2. QED
    BY <1>0, <1>9, <2>1, RestoredSlots
<1>10. QED
  BY <1>2, <1>3, <1>4, <1>5, <1>7, <1>8, <1>9 DEF SnapshotMoves

\* Success is only ever claimed for a tag that runs the release, confirmed.
THEOREM SuccessTrue == Spec => SuccessIsTrue
<1>1. IInv /\ TagsHeld /\ [Next]_vars =>
        [\A s \in Used(nvs)' :
           nvs'[s].phase = "Successful" =>
             \/ s \in Used(nvs) /\ nvs[s].id = nvs'[s].id /\ nvs[s].phase = "Successful"
             \/ dev[nvs'[s].tag].active = nvs'[s].rel /\ dev[nvs'[s].tag].conf]_vars
  <2> SUFFICES ASSUME IInv, TagsHeld, [Next]_vars,
                      NEW s \in Used(nvs'), nvs'[s].phase = "Successful"
               PROVE  \/ s \in Used(nvs) /\ nvs[s].id = nvs'[s].id /\ nvs[s].phase = "Successful"
                      \/ dev[nvs'[s].tag].active = nvs'[s].rel /\ dev[nvs'[s].tag].conf
    OBVIOUS
  <2>1. SnapshotMoves
    BY NextMoves DEF Moves, SnapshotMoves, ctlVars, jobVars
  <2>2. QED
    BY <2>1, SuccessMoves
<1>2. QED
  BY <1>1, InvariantHolds, PTL DEF Spec, SuccessIsTrue

\* Once the snapshot says that a trial of a job may have begun, no block and no
\* second trial is sent for it, whatever happens to the session or the anchor.
THEOREM NeverReplayed == Spec => TrialNeverReplayed
<1>1. IInv /\ TagsHeld /\ [Next]_vars =>
        [mailbox' \notin {mailbox, None} /\ mailbox'.fresh
                                         /\ mailbox'.smp \in {"Upload", "Trial"} =>
           ~Owns(mailbox'.tag, mailbox'.rel)]_vars
  <2> SUFFICES ASSUME IInv, TagsHeld, [Next]_vars, mailbox' \notin {mailbox, None},
                      mailbox'.fresh, mailbox'.smp \in {"Upload", "Trial"}
               PROVE  ~Owns(mailbox'.tag, mailbox'.rel)
    OBVIOUS
  <2>1. MailMoves
    BY NextMoves DEF Moves
  <2>2. Listening /\ ~jobs[Here].trial /\ mailbox'.tag = TheTag
    BY <2>1 DEF MailMoves
  <2>3. \A rel : ~OwnedIn(nvs, TheTag, rel)
    BY <2>2, OwnerIsHere
  <2>4. QED
    BY <2>2, <2>3, OwnsIs
<1>2. QED
  BY <1>1, InvariantHolds, PTL DEF Spec, TrialNeverReplayed

\* Attempts are only given back to a job that waits for the operator.
LEMMA BudgetMoves ==
  ASSUME IInv, IInv', SnapshotMoves, NEW s \in Used(nvs), nvs'[s] # None,
         nvs'[s].id = nvs[s].id, nvs'[s].attempts < nvs[s].attempts
  PROVE  nvs[s].phase \in {"NeedsRelease", "NeedsAction"}
<1>0. nvs[s].attempts \in Nat /\ nvs'[s].attempts \in Nat
  <2>1. nvs \in Queue /\ nvs' \in Queue
    BY DEF IInv, TypeOK, Queue
  <2>2. nvs[s] \in Job /\ nvs'[s] \in Job
    BY <2>1 DEF Queue, Used
  <2>3. QED
    BY <2>2 DEF Job
<1>1. nvs'[s].attempts # nvs[s].attempts /\ nvs' # nvs
  BY <1>0
<1>2. \A o, over : ~Led(nvs, nvs', o, over)
  <2> SUFFICES ASSUME NEW o, NEW over, Led(nvs, nvs', o, over) PROVE FALSE
    OBVIOUS
  <2>1. s # o => nvs'[s].attempts = nvs[s].attempts
    BY DEF Led, SameJob
  <2>2. s = o => nvs[s].attempts <= nvs'[s].attempts
    BY DEF Led
  <2>3. QED
    BY <1>0, <1>1, <2>1, <2>2
<1>3. ASSUME NEW o \in Used(jobs), NEW over PROVE ~Leads(Db, Db', o, over)
  BY <1>1, <1>2, <1>3, LedSlots
<1>4. ASSUME NEW o, NEW k, Puts(o, k) PROVE nvs[s].phase \in {"NeedsRelease", "NeedsAction"}
  BY <1>1, <1>4, PutWaits DEF SameJob
<1>5. CASE \E tag \in Tags : QueueJob(tag)
  BY <1>4, <1>5, QueueJobPuts
<1>6. CASE \E o \in Used(jobs) : RetryJob(o)
  BY <1>4, <1>6, RetryJobPuts
<1>7. active # 0 => Here \in Used(jobs)
  BY HereUsed
<1>8. nvs' # RestoredQueue(nvs)
  BY <1>1, RestoredSlots
<1>9. QED
  BY <1>1, <1>3, <1>5, <1>6, <1>7, <1>8 DEF SnapshotMoves

\* Connection attempts are a budget that only an operator renews.
THEOREM BudgetKept == Spec => BudgetOnlyByOperator
<1>1. IInv /\ TagsHeld /\ [Next]_vars =>
        [\A s \in Used(nvs) : nvs'[s] # None /\ nvs'[s].id = nvs[s].id
                              /\ nvs'[s].attempts < nvs[s].attempts =>
           nvs[s].phase \in {"NeedsRelease", "NeedsAction"}]_vars
  <2> SUFFICES ASSUME IInv, TagsHeld, [Next]_vars, NEW s \in Used(nvs),
                      nvs'[s] # None, nvs'[s].id = nvs[s].id,
                      nvs'[s].attempts < nvs[s].attempts
               PROVE  nvs[s].phase \in {"NeedsRelease", "NeedsAction"}
    OBVIOUS
  <2>1. SnapshotMoves
    BY NextMoves DEF Moves, SnapshotMoves, ctlVars, jobVars
  <2>2. QED
    BY <2>1, NextTags, BudgetMoves
<1>2. QED
  BY <1>1, InvariantHolds, PTL DEF Spec, BudgetOnlyByOperator

-----------------------------------------------------------------------------
(* The promise: what the tags run                                          *)

\* A trial that is owned is one of a release.
LEMMA OwnedRelease ==
  ASSUME NEW q \in Queue, NEW t, NEW rel, OwnedIn(q, t, rel) PROVE rel \in Releases
<1>1. PICK s \in Used(q) : q[s].rel = rel
  BY DEF OwnedIn
<1>2. q[s] \in Job
  BY DEF Queue, Used
<1>3. QED
  BY <1>1, <1>2 DEF Job

\* What a tag runs is an image of the promise.
LEMMA RunsImage ==
  ASSUME NEW q \in Queue, NEW t, NEW f \in Flash, SlotsHeld(q, t, f)
  PROVE  /\ RunsOn(f) \in Promise!Image
         /\ RunsOn(f).runs = f.active /\ RunsOn(f).sure = f.conf
         /\ RunsOn(f).back = (IF f.conf THEN None ELSE f.other)
         /\ RunsOn(f).trial = (IF ~f.ours THEN None ELSE IF f.pending THEN f.other ELSE f.active)
         /\ RunsOn(f).foreign = (f.pending /\ ~f.ours)
<1> DEFINE back == IF f.conf THEN None ELSE f.other
           trial == IF ~f.ours THEN None ELSE IF f.pending THEN f.other ELSE f.active
           foreign == f.pending /\ ~f.ours
<1>1. f.active \in Releases \union {Factory} /\ f.conf \in BOOLEAN
  BY DEF Flash, Images
<1>2. back \in Releases \union {Factory, None}
  BY DEF SlotsHeld, Revertible, Images
<1>3. trial \in Releases \union {None}
  BY OwnedRelease DEF SlotsHeld
<1>4. foreign \in BOOLEAN
  BY DEF Flash
<1>5. RunsOn(f) = [runs |-> f.active, sure |-> f.conf, back |-> back, trial |-> trial,
                   foreign |-> foreign]
  BY DEF RunsOn
<1> HIDE DEF back, trial, foreign
<1>6. /\ RunsOn(f) \in Promise!Image
      /\ RunsOn(f).runs = f.active /\ RunsOn(f).sure = f.conf /\ RunsOn(f).back = back
      /\ RunsOn(f).trial = trial /\ RunsOn(f).foreign = foreign
  BY <1>1, <1>2, <1>3, <1>4, <1>5 DEF Promise!Image
<1>7. QED
  BY <1>6 DEF back, trial, foreign

\* What a reboot makes of it: a trial begins, or falls back.
LEMMA BootedRuns ==
  ASSUME NEW q \in Queue, NEW t, NEW f \in Flash, SlotsHeld(q, t, f), Booted(f) # f
  PROVE  LET m == RunsOn(f)
             n == RunsOn(Booted(f))
         IN  \/ /\ m.sure
                /\ \E r \in (IF m.foreign THEN Releases ELSE {m.trial} \ {None}) :
                     n = [m EXCEPT !.runs = r, !.sure = FALSE, !.back = m.runs, !.foreign = FALSE]
             \/ /\ ~m.sure
                /\ n = [m EXCEPT !.runs = m.back, !.sure = TRUE, !.back = None, !.trial = None]
<1> DEFINE g == Booted(f) m == RunsOn(f) n == RunsOn(g)
<1>0. Revertible(f) /\ (f.pending => f.conf)
  BY DEF SlotsHeld, Revertible
<1>1. ~g.pending /\ (f.conf /\ ~f.pending => g = f)
  BY <1>0, BootedSlots
<1>2. /\ m \in Promise!Image /\ m.runs = f.active /\ m.sure = f.conf
      /\ m.back = (IF f.conf THEN None ELSE f.other)
      /\ m.trial = (IF ~f.ours THEN None ELSE IF f.pending THEN f.other ELSE f.active)
      /\ m.foreign = (f.pending /\ ~f.ours)
  BY RunsImage
<1>3. /\ n \in Promise!Image /\ n.runs = g.active /\ n.sure = g.conf
      /\ n.back = (IF g.conf THEN None ELSE g.other)
      /\ n.trial = (IF ~g.ours THEN None ELSE IF g.pending THEN g.other ELSE g.active)
      /\ n.foreign = (g.pending /\ ~g.ours)
  BY BootedHeld, RunsImage
<1>4. g.conf \in BOOLEAN /\ g.pending \in BOOLEAN /\ f.conf \in BOOLEAN /\ f.pending \in BOOLEAN
  BY BootedHeld DEF Flash
<1>5. CASE f.pending
  <2>1. f.other \in Releases /\ f.off = ImageSize
    BY <1>5, OwnedRelease DEF SlotsHeld
  <2>2. Bootable(f) /\ f.conf /\ f.other # None
    BY <1>0, <1>5, <2>1 DEF Bootable, Images
  <2>3. g.active = f.other /\ g.other = f.active /\ ~g.conf /\ g.ours = f.ours
    BY <1>0, <1>5, <2>2, BootedSlots
  <2>4. f.other \in (IF m.foreign THEN Releases ELSE {m.trial} \ {None})
    BY <1>2, <1>5, <2>1, <2>2
  <2>5. /\ n.runs = f.other /\ n.sure = FALSE /\ n.back = m.runs /\ n.trial = m.trial
        /\ n.foreign = FALSE
    BY <1>1, <1>2, <1>3, <1>4, <1>5, <2>3
  <2> HIDE DEF g, m, n
  <2>6. n = [m EXCEPT !.runs = f.other, !.sure = FALSE, !.back = m.runs, !.foreign = FALSE]
    BY <1>2, <1>3, <2>5 DEF Promise!Image
  <2>7. QED
    BY <1>2, <2>2, <2>4, <2>6 DEF g, m, n
<1>6. CASE ~f.conf
  <2>1. f.pending = FALSE /\ f.conf = FALSE
    BY <1>0, <1>4, <1>6
  <2>2. g.conf = TRUE /\ ~g.ours /\ g.active = f.other /\ g.pending = FALSE
    BY <1>0, <1>1, <1>4, <1>6, BootedSlots
  <2>3. ~m.sure /\ m.foreign = FALSE /\ m.back = f.other
    BY <1>2, <2>1
  <2>4. /\ n.runs = m.back /\ n.sure = TRUE /\ n.back = None /\ n.trial = None
        /\ n.foreign = m.foreign
    BY <1>3, <2>2, <2>3
  <2> HIDE DEF g, m, n
  <2>5. n = [m EXCEPT !.runs = m.back, !.sure = TRUE, !.back = None, !.trial = None]
    BY <1>2, <1>3, <2>4 DEF Promise!Image
  <2>6. QED
    BY <2>3, <2>5 DEF g, m, n
<1>7. QED
  BY <1>1, <1>5, <1>6

\* What a confirmation makes of it.
LEMMA ConfirmedRuns ==
  ASSUME NEW q \in Queue, NEW t, NEW f \in Flash, SlotsHeld(q, t, f), ~f.conf
  PROVE  LET m == RunsOn(f)
         IN  ~m.sure /\ RunsOn(Confirmed(f)) = [m EXCEPT !.sure = TRUE, !.back = None, !.trial = None]
<1> DEFINE g == Confirmed(f) m == RunsOn(f) n == RunsOn(g)
<1>1. f.pending = FALSE
  BY DEF SlotsHeld, Revertible, Flash
<1>2. g.conf = TRUE /\ g.ours = FALSE
  BY DEF Confirmed, Flash
<1>3. g.pending = f.pending /\ g.active = f.active
  BY DEF Confirmed, Flash
<1>4. g \in Flash /\ SlotsHeld(q, t, g)
  BY ConfirmedHeld
<1>5. m \in Promise!Image /\ m.runs = f.active /\ ~m.sure /\ m.foreign = FALSE
  BY <1>1, RunsImage
<1>6. /\ n \in Promise!Image /\ n.runs = m.runs /\ n.sure = TRUE /\ n.back = None
      /\ n.trial = None /\ n.foreign = m.foreign
  <2> HIDE DEF g
  <2>1. QED
    BY <1>1, <1>2, <1>3, <1>4, <1>5, RunsImage
<1> HIDE DEF g, m, n
<1>7. n = [m EXCEPT !.sure = TRUE, !.back = None, !.trial = None]
  BY <1>5, <1>6 DEF Promise!Image
<1>8. QED
  BY <1>5, <1>7 DEF g, m, n

\* Blocks do not change what a plain tag runs.
LEMMA WrittenRuns ==
  ASSUME NEW q \in Queue, NEW t, NEW f \in Flash, SlotsHeld(q, t, f), NEW rel, Plain(f, rel),
         NEW g \in Flash, g.conf, ~g.pending, g.active = f.active, g.ours = f.ours
  PROVE  RunsOn(g) = RunsOn(f)
<1>1. f.conf = TRUE /\ f.pending = FALSE /\ f.ours = FALSE
  BY DEF SlotsHeld, Plain, Flash
<1>2. g.conf = TRUE /\ g.pending = FALSE /\ g.ours = FALSE
  BY <1>1 DEF Flash
<1>3. QED
  BY <1>1, <1>2 DEF RunsOn

-----------------------------------------------------------------------------
(* The promise: the ledger                                                 *)

\* What Ledger says, of any snapshot.
LedgerOf(q) ==
  [i \in 1..IdMax |->
     IF i \in IdsOf(q) THEN Outcome(q[SlotOf(q, i)])
     ELSE [tag |-> None, rel |-> None,
           st |-> IF \E k \in IdsOf(q) : k > i THEN "gone" ELSE "unused"]]

\* Where a request stands, by its job.
LEMMA OutcomeIs ==
  ASSUME NEW j \in Job, Legal(j)
  PROVE  /\ Outcome(j) = [tag |-> j.tag, rel |-> j.rel, st |-> Outcome(j).st]
         /\ Outcome(j).tag = j.tag /\ Outcome(j).rel = j.rel
         /\ Live(j) => Outcome(j).st = IF j.trial THEN "armed" ELSE "open"
         /\ ~Live(j) => Outcome(j).st \in Promise!Over
         /\ j.phase = "Successful" => Outcome(j).st = "done"
         /\ j.phase = "Failed" => Outcome(j).st = "failed"
         /\ j.phase = "Cancelled" => Outcome(j).st = "cancelled" /\ ~j.trial
BY DEF Outcome, Live, Terminal, Legal, Promise!Over

\* The tag, the release, the trial and the outcome are all there is to it.
LEMMA OutcomeSame ==
  ASSUME NEW j, NEW k, k.tag = j.tag, k.rel = j.rel, k.trial = j.trial, Live(k) <=> Live(j),
         ~Live(j) => k.phase = j.phase
  PROVE  Outcome(k) = Outcome(j)
BY DEF Outcome, Live, Terminal

\* The entry of a job in a slot.
LEMMA EntryIs ==
  ASSUME NEW q \in Queue, ValidRestore(q), NEW s \in Used(q)
  PROVE  /\ q[s].id \in 1..IdMax /\ q[s].id \in IdsOf(q)
         /\ LedgerOf(q)[q[s].id] = Outcome(q[s])
<1>1. s \in Slots /\ q[s] \in Job
  BY UsedLegal DEF Queue
<1>2. q[s].id \in 1..IdMax /\ q[s].id \in IdsOf(q)
  BY <1>1 DEF Job, IdsOf
<1>3. SlotOf(q, q[s].id) = s
  BY SlotOfId
<1>4. LedgerOf(q)[q[s].id] = Outcome(q[SlotOf(q, q[s].id)])
  <2> DEFINE i == q[s].id
  <2>1. i \in 1..IdMax /\ i \in IdsOf(q)
    BY <1>2
  <2> HIDE DEF i
  <2>2. LedgerOf(q)[i] = Outcome(q[SlotOf(q, i)])
    BY <2>1 DEF LedgerOf
  <2>3. QED
    BY <2>2 DEF i
<1>5. QED
  BY <1>2, <1>3, <1>4

\* Pending entries are those of live jobs.
LEMMA PendingIs ==
  ASSUME NEW q \in Queue, ValidRestore(q), NEW i \in 1..IdMax,
         LedgerOf(q)[i].st \in Promise!Pending
  PROVE  \E s \in Used(q) : q[s].id = i /\ Live(q[s]) /\ LedgerOf(q)[i].tag = q[s].tag
<1>1. i \in IdsOf(q)
  <2>1. ASSUME i \notin IdsOf(q) PROVE FALSE
    <3>1. LedgerOf(q)[i].st \in {"gone", "unused"}
      BY <2>1 DEF LedgerOf
    <3>2. QED
      BY <3>1 DEF Promise!Pending
  <2>2. QED
    BY <2>1
<1>2. PICK s \in Used(q) : q[s].id = i
  BY <1>1 DEF IdsOf
<1>3. LedgerOf(q)[i] = Outcome(q[s])
  BY <1>2, EntryIs
<1>4. q[s] \in Job /\ Legal(q[s])
  BY UsedLegal DEF Queue
<1>5. Live(q[s]) /\ Outcome(q[s]).tag = q[s].tag
  BY <1>3, <1>4, OutcomeIs DEF Promise!Pending, Promise!Over
<1>6. QED
  BY <1>2, <1>3, <1>5

\* A snapshot with the same ids has the same entries where it has the same
\* outcomes.
LEMMA LedgerSame ==
  ASSUME NEW q \in Queue, NEW r \in Queue, ValidRestore(q), ValidRestore(r), Used(r) = Used(q),
         \A s \in Used(q) : r[s].id = q[s].id,
         NEW i \in 1..IdMax, \A s \in Used(q) : q[s].id = i => Outcome(r[s]) = Outcome(q[s])
  PROVE  LedgerOf(r)[i] = LedgerOf(q)[i]
<1>1. IdsOf(r) = IdsOf(q)
  BY DEF IdsOf
<1>2. CASE i \in IdsOf(q)
  <2>1. PICK s \in Used(q) : q[s].id = i
    BY <1>2 DEF IdsOf
  <2>2. s \in Used(r) /\ r[s].id = i
    BY <2>1
  <2>3. LedgerOf(r)[i] = Outcome(r[s])
    BY <2>2, EntryIs
  <2>4. LedgerOf(q)[i] = Outcome(q[s])
    BY <2>1, EntryIs
  <2>5. QED
    BY <2>1, <2>3, <2>4
<1>3. CASE i \notin IdsOf(q)
  BY <1>1, <1>3 DEF LedgerOf
<1>4. QED
  BY <1>2, <1>3

\* Nothing of the ledger changes if no outcome does.
LEMMA LedgerSteady ==
  ASSUME NEW q \in Queue, NEW r \in Queue, ValidRestore(q), ValidRestore(r), Used(r) = Used(q),
         \A s \in Used(q) : r[s].id = q[s].id /\ Outcome(r[s]) = Outcome(q[s])
  PROVE  LedgerOf(r) = LedgerOf(q)
<1>1. \A i \in 1..IdMax : LedgerOf(r)[i] = LedgerOf(q)[i]
  BY LedgerSame
<1>2. QED
  BY <1>1 DEF LedgerOf

\* One entry gets another state if one job does.
LEMMA LedgerSettles ==
  ASSUME NEW q \in Queue, NEW r \in Queue, ValidRestore(q), ValidRestore(r), NEW s \in Used(q),
         Used(r) = Used(q), r[s].id = q[s].id, r[s].tag = q[s].tag, r[s].rel = q[s].rel,
         \A o \in Used(q) \ {s} : r[o].id = q[o].id /\ Outcome(r[o]) = Outcome(q[o])
  PROVE  LedgerOf(r) = [LedgerOf(q) EXCEPT ![q[s].id].st = Outcome(r[s]).st]
<1> DEFINE i == q[s].id
<1>1. i \in 1..IdMax /\ LedgerOf(q)[i] = Outcome(q[s]) /\ LedgerOf(r)[i] = Outcome(r[s])
  BY EntryIs
<1>2. q[s] \in Job /\ Legal(q[s]) /\ r[s] \in Job /\ Legal(r[s])
  BY UsedLegal DEF Queue
<1>3. /\ Outcome(q[s]) = [tag |-> q[s].tag, rel |-> q[s].rel, st |-> Outcome(q[s]).st]
      /\ Outcome(r[s]) = [tag |-> q[s].tag, rel |-> q[s].rel, st |-> Outcome(r[s]).st]
  BY <1>2, OutcomeIs
<1>4. \A o \in Used(q) : r[o].id = q[o].id
  OBVIOUS
<1>5. ASSUME NEW k \in 1..IdMax \ {i} PROVE LedgerOf(r)[k] = LedgerOf(q)[k]
  <2>1. \A o \in Used(q) : q[o].id = k => Outcome(r[o]) = Outcome(q[o])
    OBVIOUS
  <2>2. QED
    BY <1>4, <2>1, LedgerSame
<1> DEFINE to == Outcome(r[s]).st e == [LedgerOf(q)[i] EXCEPT !.st = to]
<1>6. LedgerOf(r)[i] = e
  <2> DEFINE from == Outcome(q[s]).st
  <2>1. /\ LedgerOf(q)[i] = [tag |-> q[s].tag, rel |-> q[s].rel, st |-> from]
        /\ LedgerOf(r)[i] = [tag |-> q[s].tag, rel |-> q[s].rel, st |-> to]
    BY <1>1, <1>3
  <2> HIDE DEF from, to, i
  <2>2. QED
    BY <2>1
<1>7. \A k \in 1..IdMax : LedgerOf(r)[k] = [LedgerOf(q) EXCEPT ![i] = e][k]
  <2> HIDE DEF e, i
  <2>1. QED
    BY <1>1, <1>5, <1>6 DEF LedgerOf
<1>8. LedgerOf(r) = [LedgerOf(q) EXCEPT ![i] = e]
  <2> HIDE DEF e, i
  <2>1. QED
    BY <1>7 DEF LedgerOf
<1>9. QED
  BY <1>8

\* The ledger of a state is that of its snapshot.
LEMMA LedgerIs == Ledger = LedgerOf(nvs) /\ Ledger' = LedgerOf(nvs')
BY DEF Ledger, LedgerOf

\* The snapshot is one that may be restored, before a step and after it.
LEMMA SnapshotIs ==
  ASSUME IInv PROVE nvs \in Queue /\ ValidRestore(nvs)
BY Typed DEF IInv

\* What a handler stores moves one entry on, as far as the tag has shown.
LEMMA LedPromise ==
  ASSUME IInv, IInv', dev' = dev, NEW s, NEW over, Led(nvs, nvs', s, over),
         over \in {{}, {"Cancelled"}, {"Successful"}, {"Failed"}},
         over = {"Successful"} => dev[nvs[s].tag].active = nvs[s].rel /\ dev[nvs[s].tag].conf,
         over = {"Failed"} => /\ nvs[s].trial
                              /\ dev[nvs[s].tag].active # nvs[s].rel /\ ~dev[nvs[s].tag].ours
  PROVE  Promise!Step \/ Ledger' = Ledger
<1> DEFINE q == nvs r == nvs' i == q[s].id
<1>1. q \in Queue /\ ValidRestore(q) /\ r \in Queue /\ ValidRestore(r)
  BY SnapshotIs DEF IInv, TypeOK, Queue
<1>2. /\ s \in Used(q) /\ Used(r) = Used(q)
      /\ \A o \in Used(q) \ {s} : SameJob(q[o], r[o])
      /\ r[s].id = q[s].id /\ r[s].tag = q[s].tag /\ r[s].rel = q[s].rel
      /\ \/ SameJob(q[s], r[s])
         \/ Live(q[s]) /\ (Live(r[s]) \/ r[s].phase \in over) /\ (q[s].trial => r[s].trial)
  BY DEF Led
<1>3. Ledger = LedgerOf(q) /\ Ledger' = LedgerOf(r)
  BY LedgerIs
<1>4. i \in 1..IdMax /\ Ledger[i] = Outcome(q[s])
  BY <1>1, <1>2, <1>3, EntryIs
<1>5. q[s] \in Job /\ Legal(q[s]) /\ r[s] \in Job /\ Legal(r[s]) /\ q[s].tag \in Tags
  BY <1>1, <1>2, UsedLegal DEF Queue, Job
<1>6. Ledger[i].tag = q[s].tag /\ Ledger[i].rel = q[s].rel
  BY <1>4, <1>5, OutcomeIs
<1> HIDE DEF q, r, i
<1>7. ASSUME NEW j, NEW k, SameJob(j, k) PROVE k.id = j.id /\ Outcome(k) = Outcome(j)
  BY <1>7, OutcomeSame DEF SameJob, Live
<1>8. \A o \in Used(q) \ {s} : r[o].id = q[o].id /\ Outcome(r[o]) = Outcome(q[o])
  BY <1>2, <1>7
<1>9. CASE Outcome(r[s]) = Outcome(q[s])
  <2>1. LedgerOf(r) = LedgerOf(q)
    BY <1>1, <1>2, <1>8, <1>9, LedgerSteady
  <2>2. QED
    BY <1>3, <2>1
<1>10. Ledger' = [Ledger EXCEPT ![i].st = Outcome(r[s]).st]
  BY <1>1, <1>2, <1>3, <1>8, LedgerSettles DEF i
<1>11. ASSUME NEW from, NEW to, Ledger[i].st \in from, Outcome(r[s]).st = to
       PROVE  Promise!Settle(i, from, to)
  BY <1>10, <1>11 DEF Promise!Settle
<1>12. CASE Live(q[s]) /\ Live(r[s])
  <2>1. CASE ~q[s].trial /\ r[s].trial
    <3>1. Ledger[i].st = "open" /\ Outcome(r[s]).st = "armed"
      BY <1>4, <1>5, <1>12, <2>1, OutcomeIs
    <3>2. Promise!Arm(i)
      BY <1>11, <3>1 DEF Promise!Arm
    <3>3. QED
      BY <1>4, <3>2 DEF Promise!Step
  <2>2. CASE q[s].trial = r[s].trial
    BY <1>2, <1>9, <1>12, <2>2, OutcomeSame
  <2>3. QED
    BY <1>2, <1>5, <1>7, <1>9, <2>1, <2>2 DEF Job
<1>13. CASE Live(q[s]) /\ r[s].phase \in over /\ (q[s].trial => r[s].trial)
  <2>1. Ledger[i].st = IF q[s].trial THEN "armed" ELSE "open"
    BY <1>4, <1>5, <1>13, OutcomeIs
  <2>2. CASE over = {"Cancelled"}
    <3>1. r[s].phase = "Cancelled"
      BY <1>13, <2>2
    <3>2. Outcome(r[s]).st = "cancelled" /\ ~r[s].trial
      BY <1>5, <3>1, OutcomeIs
    <3>3. Ledger[i].st = "open"
      BY <1>13, <2>1, <3>2
    <3>4. Promise!Cancel(i)
      BY <1>11, <3>2, <3>3 DEF Promise!Cancel
    <3>5. QED
      BY <1>4, <3>4 DEF Promise!Step
  <2>3. CASE over = {"Successful"}
    <3>1. r[s].phase = "Successful"
      BY <1>13, <2>3
    <3>2. Outcome(r[s]).st = "done"
      BY <1>5, <3>1, OutcomeIs
    <3>3. Promise!Settle(i, {"open", "armed"}, "done")
      BY <1>11, <2>1, <3>2
    <3>4. dev[q[s].tag].active = q[s].rel /\ dev[q[s].tag].conf
      BY <2>3 DEF q
    <3>5. /\ [t \in Tags |-> RunsOn(dev[t])][Ledger[i].tag].runs = Ledger[i].rel
          /\ [t \in Tags |-> RunsOn(dev[t])][Ledger[i].tag].sure
      BY <1>5, <1>6, <3>4 DEF RunsOn
    <3>6. Promise!Succeed(i)
      BY <3>3, <3>5 DEF Promise!Succeed
    <3>7. QED
      BY <1>4, <3>6 DEF Promise!Step
  <2>4. CASE over = {"Failed"}
    <3>1. r[s].phase = "Failed" /\ q[s].trial
      BY <1>13, <2>4 DEF q
    <3>2. Outcome(r[s]).st = "failed"
      BY <1>5, <3>1, OutcomeIs
    <3>3. Promise!Settle(i, {"armed"}, "failed")
      BY <1>11, <2>1, <3>1, <3>2
    <3>4. dev[q[s].tag].active # q[s].rel /\ ~dev[q[s].tag].ours
      BY <2>4 DEF q
    <3>5. /\ [t \in Tags |-> RunsOn(dev[t])][Ledger[i].tag].runs # Ledger[i].rel
          /\ [t \in Tags |-> RunsOn(dev[t])][Ledger[i].tag].trial = None
      BY <1>5, <1>6, <3>4 DEF RunsOn
    <3>6. Promise!Fail(i)
      BY <3>3, <3>5 DEF Promise!Fail
    <3>7. QED
      BY <1>4, <3>6 DEF Promise!Step
  <2>5. QED
    BY <1>13, <2>2, <2>3, <2>4
<1>14. QED
  BY <1>2, <1>7, <1>9, <1>12, <1>13

\* queue() opens a request; the outcome it evicts is not remembered any more.
LEMMA QueueJobPromise ==
  ASSUME IInv, IInv', NEW tag \in Tags, QueueJob(tag), nvs' # nvs
  PROVE  Promise!Step
<1> DEFINE q == nvs r == nvs'
<1>1. PICK s \in Slots, k \in Job :
        /\ Puts(s, k) /\ ~k.trial /\ (s \in Used(jobs) => ~Live(jobs[s]))
        /\ \A o \in Used(jobs) : jobs[o].id # k.id /\ (Live(jobs[o]) => jobs[o].tag # k.tag)
        /\ \A i \in IdsOf(jobs) : i < k.id
        /\ \A i \in 1..(k.id - 1) : \E m \in IdsOf(jobs) : i <= m
  BY QueueJobPuts
<1>2. q \in Queue /\ ValidRestore(q) /\ r \in Queue /\ ValidRestore(r)
  BY SnapshotIs DEF IInv, TypeOK, Queue
<1>3. /\ ~disabled /\ r[s] = k /\ Used(r) = Used(q) \union {s} /\ Used(q) = Used(jobs)
      /\ \A o \in Used(q) \ {s} : SameJob(q[o], r[o])
  BY <1>1, PutSlots
<1>4. \A o \in Used(q) : SameJob(q[o], jobs[o])
  <2>1. \A o \in Used(q) : o \in Slots
    BY DEF Used
  <2>2. QED
    BY <1>3, <2>1, SavedJob
<1>5. Ledger = LedgerOf(q) /\ Ledger' = LedgerOf(r) /\ dev' = dev
  BY LedgerIs DEF QueueJob, transportVars
<1>6. IdsOf(jobs) = IdsOf(q)
  BY <1>3, <1>4 DEF IdsOf, SameJob
<1> DEFINE i == k.id
<1>7. i \in 1..IdMax /\ k.tag \in Tags /\ k.rel \in Releases /\ Legal(k) /\ Live(k)
  BY <1>1 DEF Job, Puts
<1> HIDE DEF q, r, i
<1>8. IdsOf(q) \in SUBSET (1..IdMax) /\ IdsOf(r) \in SUBSET (1..IdMax)
  BY <1>2, EntryIs DEF IdsOf
<1>9. /\ \A m \in IdsOf(q) : m < i
      /\ \A n \in 1..(i - 1) : \E m \in IdsOf(q) : n <= m
  BY <1>1, <1>6 DEF i
<1>10. \A n \in IdsOf(r) : n = i \/ n \in IdsOf(q)
  BY <1>3 DEF IdsOf, SameJob, i
<1>11. i \in IdsOf(r) /\ i \notin IdsOf(q)
  <2>1. i \in IdsOf(r)
    BY <1>3 DEF IdsOf, i
  <2>2. QED
    BY <1>7, <1>9, <2>1
<1>12. Ledger[i] = Promise!Unused
  <2>1. ~ \E m \in IdsOf(q) : m > i
    BY <1>7, <1>8, <1>9
  <2>2. QED
    BY <1>5, <1>7, <1>11, <2>1 DEF LedgerOf, Promise!Unused
<1>13. ASSUME NEW n \in 1..IdMax, Ledger[n].st \in Promise!Pending PROVE Ledger[n].tag # k.tag
  <2>1. PICK o \in Used(q) : q[o].id = n /\ Live(q[o]) /\ Ledger[n].tag = q[o].tag
    BY <1>2, <1>5, <1>13, PendingIs
  <2>2. QED
    BY <1>1, <1>3, <1>4, <2>1 DEF SameJob, Live
<1> DEFINE lost == IF s \in Used(q) THEN {q[s].id} ELSE {}
<1>14. lost \in SUBSET {n \in 1..IdMax : Ledger[n].st \in Promise!Over}
  <2>1. CASE s \in Used(q)
    <3>1. q[s] \in Job /\ Legal(q[s]) /\ ~Live(q[s])
      BY <1>1, <1>2, <1>3, <1>4, <2>1, UsedLegal DEF Queue, SameJob, Live
    <3>2. Ledger[q[s].id] = Outcome(q[s]) /\ q[s].id \in 1..IdMax
      BY <1>2, <1>5, <2>1, EntryIs
    <3>3. QED
      BY <2>1, <3>1, <3>2, OutcomeIs
  <2>2. QED
    BY <2>1
<1>15. Ledger'[i] = [tag |-> k.tag, rel |-> k.rel, st |-> "open"]
  <2>1. s \in Used(r) /\ r[s].id = i
    BY <1>3 DEF i
  <2>2. Ledger'[i] = Outcome(k)
    BY <1>2, <1>3, <1>5, <2>1, EntryIs
  <2>3. Outcome(k) = [tag |-> k.tag, rel |-> k.rel, st |-> Outcome(k).st] /\ Outcome(k).st = "open"
    BY <1>1, <1>7, OutcomeIs
  <2>4. QED
    BY <2>2, <2>3
<1>16. ASSUME NEW n \in 1..IdMax, n # i, n \in lost PROVE Ledger'[n] = Promise!Gone
  <2>1. s \in Used(q) /\ n = q[s].id /\ n \in IdsOf(q)
    BY <1>16 DEF IdsOf
  <2>2. \A o \in Used(q) \ {s} : q[o].id # q[s].id
    BY <1>2, <2>1 DEF ValidRestore
  <2>3. \A o \in Used(r) : r[o].id # n
    BY <1>3, <1>16, <2>1, <2>2 DEF SameJob, i
  <2>4. n \notin IdsOf(r)
    BY <2>3 DEF IdsOf
  <2>5. n < i
    BY <1>9, <2>1
  <2>6. \E m \in IdsOf(r) : m > n
    BY <1>7, <1>11, <2>5
  <2>7. QED
    BY <1>5, <2>4, <2>6 DEF LedgerOf, Promise!Gone
<1>17. ASSUME NEW n \in 1..IdMax, n # i, n \notin lost PROVE Ledger'[n] = Ledger[n]
  <2>1. CASE n \in IdsOf(q)
    <3>1. PICK o \in Used(q) : q[o].id = n
      BY <2>1 DEF IdsOf
    <3>2. o # s
      BY <1>17, <3>1
    <3>3. o \in Used(r) /\ SameJob(q[o], r[o])
      BY <1>3, <3>1, <3>2
    <3>4. r[o].id = n /\ Outcome(r[o]) = Outcome(q[o])
      BY <3>1, <3>3, OutcomeSame DEF SameJob, Live
    <3>5. QED
      BY <1>2, <1>5, <3>1, <3>3, <3>4, EntryIs
  <2>2. CASE n \notin IdsOf(q)
    <3>1. n \notin IdsOf(r)
      BY <1>10, <1>17, <2>2
    <3>2. (\E m \in IdsOf(q) : m > n) => (\E m \in IdsOf(r) : m > n)
      BY <1>7, <1>8, <1>9, <1>11
    <3>3. (\E m \in IdsOf(r) : m > n) => (\E m \in IdsOf(q) : m > n)
      <4>1. ASSUME NEW m \in IdsOf(r), m > n PROVE \E p \in IdsOf(q) : p > n
        <5>1. CASE m \in IdsOf(q)
          BY <4>1, <5>1
        <5>2. CASE m = i
          <6>1. n \in 1..(i - 1)
            BY <1>7, <4>1, <5>2
          <6>2. PICK p \in IdsOf(q) : n <= p
            BY <1>9, <6>1
          <6>3. p # n /\ p \in 1..IdMax
            BY <1>8, <2>2, <6>2
          <6>4. QED
            BY <6>2, <6>3
        <5>3. QED
          BY <1>10, <4>1, <5>1, <5>2
      <4>2. QED
        BY <4>1
    <3>4. QED
      BY <1>5, <2>2, <3>1, <3>2, <3>3 DEF LedgerOf
  <2>3. QED
    BY <2>1, <2>2
<1> HIDE DEF lost
<1>18. Ledger' = [n \in 1..IdMax |-> IF n = i THEN [tag |-> k.tag, rel |-> k.rel, st |-> "open"]
                                     ELSE IF n \in lost THEN Promise!Gone ELSE Ledger[n]]
  <2>1. Ledger' = [n \in 1..IdMax |-> Ledger'[n]]
    BY <1>5 DEF LedgerOf
  <2>2. QED
    BY <1>15, <1>16, <1>17, <2>1
<1>19. Promise!Open(i, k.tag, k.rel)
  BY <1>5, <1>12, <1>13, <1>14, <1>18 DEF Promise!Open
<1>20. QED
  BY <1>7, <1>19 DEF Promise!Step

\* retry() settles nothing.
LEMMA RetryJobPromise ==
  ASSUME IInv, IInv', NEW s \in Used(jobs), RetryJob(s), nvs' # nvs
  PROVE  Ledger' = Ledger
<1> DEFINE q == nvs r == nvs' k == Retried(jobs[s], 0)
<1>1. q \in Queue /\ ValidRestore(q) /\ r \in Queue /\ ValidRestore(r)
  BY SnapshotIs DEF IInv, TypeOK, Queue
<1>2. Puts(s, k) /\ k.trial = jobs[s].trial
  BY RetryJobPuts
<1>3. Live(jobs[s]) /\ k.id = jobs[s].id
  <2>1. jobs[s] \in Job
    BY UsedHere
  <2>2. QED
    BY <2>1 DEF RetryJob, CanRetry, Live, Terminal, Retried, Job
<1> HIDE DEF k
<1>4. /\ r[s] = k /\ Used(r) = Used(q) \union {s} /\ Used(q) = Used(jobs)
      /\ \A o \in Used(q) \ {s} : SameJob(q[o], r[o])
      /\ SameJob(q[s], jobs[s])
  BY <1>2, PutSlots
<1>5. k.tag = jobs[s].tag /\ k.rel = jobs[s].rel /\ Live(k)
  BY <1>2, <1>3 DEF Puts
<1> HIDE DEF q, r
<1>6. r[s].id = q[s].id /\ Outcome(r[s]) = Outcome(q[s])
  BY <1>2, <1>3, <1>4, <1>5, OutcomeSame DEF SameJob, Live
<1>7. ASSUME NEW o \in Used(q) \ {s} PROVE r[o].id = q[o].id /\ Outcome(r[o]) = Outcome(q[o])
  BY <1>4, <1>7, OutcomeSame DEF SameJob, Live
<1>8. LedgerOf(r) = LedgerOf(q)
  BY <1>1, <1>4, <1>6, <1>7, LedgerSteady
<1>9. QED
  BY <1>8, LedgerIs DEF q, r

\* A restart does not, either.
LEMMA RestartPromise ==
  ASSUME IInv, IInv', nvs' = RestoredQueue(nvs)
  PROVE  Ledger' = Ledger
<1>1. nvs \in Queue /\ ValidRestore(nvs) /\ nvs' \in Queue /\ ValidRestore(nvs')
  BY SnapshotIs DEF IInv, TypeOK, Queue
<1>2. Used(nvs') = Used(nvs)
  BY <1>1, RestoredSound
<1>3. ASSUME NEW s \in Used(nvs)
      PROVE  nvs'[s].id = nvs[s].id /\ Outcome(nvs'[s]) = Outcome(nvs[s])
  <2>1. /\ nvs'[s].id = nvs[s].id /\ nvs'[s].tag = nvs[s].tag /\ nvs'[s].rel = nvs[s].rel
        /\ nvs'[s].trial = nvs[s].trial /\ (Live(nvs'[s]) <=> Live(nvs[s]))
        /\ ~Live(nvs[s]) => nvs'[s].phase = nvs[s].phase
    BY RestoredSlots
  <2>2. QED
    BY <2>1, OutcomeSame
<1>4. LedgerOf(nvs') = LedgerOf(nvs)
  BY <1>1, <1>2, <1>3, LedgerSteady
<1>5. QED
  BY <1>4, LedgerIs

-----------------------------------------------------------------------------
(* The promise, step by step                                               *)

\* A step of one tag changes what that tag runs.
LEMMA TurnRuns ==
  ASSUME IInv, NEW t \in Tags, NEW g, dev' = [dev EXCEPT ![t] = g]
  PROVE  /\ [u \in Tags |-> RunsOn(dev[u])][t] = RunsOn(dev[t])
         /\ [u \in Tags |-> RunsOn(dev'[u])]
              = [[u \in Tags |-> RunsOn(dev[u])] EXCEPT ![t] = RunsOn(g)]
<1>1. dev \in [Tags -> Flash]
  BY Typed DEF IInv
<1>2. dev'[t] = g /\ \A u \in Tags \ {t} : dev'[u] = dev[u]
  BY <1>1
<1>3. \A u \in Tags : RunsOn(dev'[u]) = IF u = t THEN RunsOn(g) ELSE RunsOn(dev[u])
  BY <1>2
<1>4. QED
  BY <1>3

\* A step of a tag leaves the ledger alone.
LEMMA LedgerStays ==
  ASSUME UNCHANGED ctlVars PROVE Ledger' = Ledger
BY LedgerIs DEF ctlVars, jobVars

\* A reboot tries what is pending, or falls back.
LEMMA BootPromise ==
  ASSUME IInv, TagsHeld, UNCHANGED ctlVars, NEW t \in Tags, Booted(dev[t]) # dev[t],
         dev' = [dev EXCEPT ![t] = Booted(dev[t])]
  PROVE  Promise!Step
<1> DEFINE image == [u \in Tags |-> RunsOn(dev[u])]
           turned == [u \in Tags |-> RunsOn(dev'[u])]
           m == RunsOn(dev[t])
           n == RunsOn(Booted(dev[t]))
<1>1. dev[t] \in Flash /\ SlotsHeld(nvs, t, dev[t]) /\ nvs \in Queue
  BY TagNow, SnapshotIs
<1>2. \/ /\ m.sure
         /\ \E r \in (IF m.foreign THEN Releases ELSE {m.trial} \ {None}) :
              n = [m EXCEPT !.runs = r, !.sure = FALSE, !.back = m.runs, !.foreign = FALSE]
      \/ /\ ~m.sure
         /\ n = [m EXCEPT !.runs = m.back, !.sure = TRUE, !.back = None, !.trial = None]
  BY <1>1, BootedRuns
<1>3. image[t] = m /\ turned = [image EXCEPT ![t] = n]
  BY TurnRuns
<1>4. Ledger' = Ledger
  BY LedgerStays
<1> HIDE DEF m, n
<1>5. CASE m.sure
  <2>1. PICK r \in (IF m.foreign THEN Releases ELSE {m.trial} \ {None}) :
          n = [m EXCEPT !.runs = r, !.sure = FALSE, !.back = m.runs, !.foreign = FALSE]
    BY <1>2, <1>5
  <2>2. turned = [image EXCEPT ![t] = [m EXCEPT !.runs = r, !.sure = FALSE,
                                                !.back = m.runs, !.foreign = FALSE]]
    BY <1>3, <2>1
  <2>3. Promise!Try(t)
    BY <1>3, <1>4, <1>5, <2>1, <2>2 DEF Promise!Try
  <2>4. QED
    BY <2>3 DEF Promise!Step
<1>6. CASE ~m.sure
  <2>1. turned = [image EXCEPT ![t] = [m EXCEPT !.runs = m.back, !.sure = TRUE,
                                                !.back = None, !.trial = None]]
    BY <1>2, <1>3, <1>6
  <2>2. Promise!FallBack(t)
    BY <1>3, <1>4, <1>6, <2>1 DEF Promise!FallBack
  <2>3. QED
    BY <2>2 DEF Promise!Step
<1>7. QED
  BY <1>5, <1>6

\* The tag confirms what it runs.
LEMMA ConfirmPromise ==
  ASSUME IInv, TagsHeld, UNCHANGED ctlVars, NEW t \in Tags, TagConfirms(t) PROVE Promise!Step
<1> DEFINE image == [u \in Tags |-> RunsOn(dev[u])]
           turned == [u \in Tags |-> RunsOn(dev'[u])]
           m == RunsOn(dev[t])
           n == RunsOn(Confirmed(dev[t]))
<1>1. dev[t] \in Flash /\ SlotsHeld(nvs, t, dev[t]) /\ nvs \in Queue
  BY TagNow, SnapshotIs
<1>2. ~dev[t].conf /\ dev' = [dev EXCEPT ![t] = Confirmed(dev[t])]
  BY Typed DEF IInv, TagConfirms
<1>3. ~m.sure /\ n = [m EXCEPT !.sure = TRUE, !.back = None, !.trial = None]
  BY <1>1, <1>2, ConfirmedRuns
<1>4. image[t] = m /\ turned = [image EXCEPT ![t] = n]
  BY <1>2, TurnRuns
<1>5. Ledger' = Ledger
  BY LedgerStays
<1> HIDE DEF m, n
<1>6. turned = [image EXCEPT ![t] = [m EXCEPT !.sure = TRUE, !.back = None, !.trial = None]]
  BY <1>3, <1>4
<1>7. Promise!Confirm(t)
  BY <1>3, <1>4, <1>5, <1>6 DEF Promise!Confirm
<1>8. QED
  BY <1>7 DEF Promise!Step

\* The tag agrees to a trial that the snapshot owns.
LEMMA AgreePromise ==
  ASSUME IInv, TagsHeld, UNCHANGED ctlVars, NEW t \in Tags, NEW rel,
         OwnedIn(nvs, t, rel), Armable(dev[t], rel),
         NEW g \in Flash, SlotsHeld(nvs, t, g), g = [dev[t] EXCEPT !.pending = TRUE, !.ours = TRUE],
         dev' = [dev EXCEPT ![t] = g]
  PROVE  Promise!Step
<1> DEFINE image == [u \in Tags |-> RunsOn(dev[u])]
           turned == [u \in Tags |-> RunsOn(dev'[u])]
           m == RunsOn(dev[t])
           n == RunsOn(g)
<1>1. dev[t] \in Flash /\ SlotsHeld(nvs, t, dev[t]) /\ nvs \in Queue /\ ValidRestore(nvs)
  BY TagNow, SnapshotIs
<1> DEFINE f == dev[t]
<1>2. /\ f.conf = TRUE /\ f.pending = FALSE /\ f.other = rel
      /\ g.pending = TRUE /\ g.ours = TRUE
      /\ g.conf = f.conf /\ g.other = f.other /\ g.active = f.active
  BY <1>1 DEF Armable, Plain, Flash
<1>3. image[t] = m /\ turned = [image EXCEPT ![t] = n]
  BY TurnRuns
<1> HIDE DEF f
<1>4. /\ m \in Promise!Image /\ m.runs = f.active /\ m.sure = TRUE /\ m.back = None
      /\ m.foreign = FALSE
  BY <1>1, <1>2, RunsImage DEF f
<1>5. /\ n \in Promise!Image /\ n.runs = m.runs /\ n.sure = TRUE /\ n.back = None
      /\ n.trial = rel /\ n.foreign = FALSE
  BY <1>1, <1>2, <1>4, RunsImage
<1>6. PICK s \in Used(nvs) : Live(nvs[s]) /\ nvs[s].trial /\ nvs[s].tag = t /\ nvs[s].rel = rel
  BY DEF OwnedIn
<1> DEFINE i == nvs[s].id
<1>7. i \in 1..IdMax /\ Ledger[i] = Outcome(nvs[s])
  BY <1>1, EntryIs, LedgerIs
<1>8. nvs[s] \in Job /\ Legal(nvs[s])
  BY <1>1, UsedLegal DEF Queue
<1>9. Ledger[i].st = "armed" /\ Ledger[i].tag = t /\ Ledger[i].rel = rel
  BY <1>6, <1>7, <1>8, OutcomeIs
<1>10. Ledger' = Ledger
  BY LedgerStays
<1> HIDE DEF m, n, i
<1>11. n = [m EXCEPT !.trial = rel]
  BY <1>4, <1>5 DEF Promise!Image
<1>12. turned = [image EXCEPT ![t].trial = rel]
  BY <1>3, <1>11
<1>13. Promise!Agree(i)
  BY <1>3, <1>4, <1>9, <1>10, <1>12 DEF Promise!Agree
<1>14. QED
  BY <1>7, <1>13 DEF Promise!Step

\* The tag serves a request: at most it agrees to a trial, or reboots.
LEMMA ServePromise ==
  ASSUME IInv, TagsHeld, UNCHANGED ctlVars, NEW t \in Tags, TagServes(t)
  PROVE  Promise!Step \/ UNCHANGED <<Ledger, [u \in Tags |-> RunsOn(dev[u])]>>
<1> DEFINE f == dev[t] r == inbox[t] image == [u \in Tags |-> RunsOn(dev[u])]
           turned == [u \in Tags |-> RunsOn(dev'[u])]
<1>1. f \in Flash /\ SlotsHeld(nvs, t, f) /\ nvs \in Queue
  BY TagNow, SnapshotIs
<1>2. r # None /\ r \in Request /\ RequestHeld(nvs, t, f, r)
  BY TagNow DEF TagServes
<1>3. PICK a \in Served(f, r.smp, r.rel, r.off) : dev' = [dev EXCEPT ![t] = a.flash]
  BY DEF TagServes
<1> DEFINE g == a.flash
<1> HIDE DEF f, r
<1>4. g \in Flash /\ SlotsHeld(nvs, t, g)
  BY <1>1, <1>2, <1>3, ServedHeld
<1>5. \/ g = f
      \/ g = Booted(f)
      \/ /\ Plain(f, r.rel) /\ g.conf /\ ~g.pending
         /\ g.active = f.active /\ g.ours = f.ours
      \/ /\ r.smp = "Trial" /\ Armable(f, r.rel)
         /\ g = [f EXCEPT !.pending = TRUE, !.ours = TRUE]
  <2>1. Revertible(f)
    BY <1>1 DEF SlotsHeld
  <2>2. /\ r.smp = "Upload" => Plain(f, r.rel) /\ r.off < ImageSize
        /\ r.smp = "Trial" => Armable(f, r.rel)
    BY <1>2 DEF RequestHeld
  <2>3. QED
    BY <1>1, <1>2, <1>3, <2>1, <2>2, ServedSlots
<1>6. image[t] = RunsOn(f) /\ turned = [image EXCEPT ![t] = RunsOn(g)]
  BY <1>3, TurnRuns DEF f
<1>7. Ledger' = Ledger
  BY LedgerStays
<1> HIDE DEF g
<1>8. CASE RunsOn(g) = RunsOn(f)
  <2>1. turned = image
    BY <1>6, <1>8
  <2>2. QED
    BY <1>7, <2>1
<1>9. CASE g = Booted(f) /\ g # f
  BY <1>3, <1>9, BootPromise DEF f, g
<1>10. CASE /\ Plain(f, r.rel) /\ g.conf /\ ~g.pending
            /\ g.active = f.active /\ g.ours = f.ours
  BY <1>1, <1>4, <1>8, <1>10, WrittenRuns
<1>11. CASE /\ r.smp = "Trial" /\ Armable(f, r.rel)
            /\ g = [f EXCEPT !.pending = TRUE, !.ours = TRUE]
  <2>1. OwnedIn(nvs, t, r.rel)
    BY <1>2, <1>11 DEF RequestHeld
  <2>2. QED
    BY <1>3, <1>4, <1>11, <2>1, AgreePromise DEF f, g
<1>12. QED
  BY <1>5, <1>8, <1>9, <1>10, <1>11

\* A step of the controller opens, arms or settles one request, or none.
LEMMA MovesPromise ==
  ASSUME IInv, IInv', Moves
  PROVE  Promise!Step \/ UNCHANGED <<Ledger, [u \in Tags |-> RunsOn(dev[u])]>>
<1>1. dev' = dev /\ SnapshotMoves
  BY DEF Moves
<1>2. UNCHANGED [u \in Tags |-> RunsOn(dev[u])]
  BY <1>1
<1>3. CASE nvs' = nvs
  BY <1>2, <1>3, LedgerIs
<1>4. ASSUME nvs' # nvs, NEW s \in Used(jobs), NEW over \in {{}, {"Cancelled"}}, Leads(Db, Db', s, over)
      PROVE  Promise!Step \/ Ledger' = Ledger
  <2>1. Led(nvs, nvs', s, over)
    BY <1>4, LedSlots
  <2>2. over # {"Successful"} /\ over # {"Failed"}
    BY <1>4
  <2>3. QED
    BY <1>1, <1>4, <2>1, <2>2, LedPromise
<1>5. ASSUME nvs' # nvs, active # 0, NEW over \in {{"Successful"}, {"Failed"}},
             Leads(Db, Db', Here, over),
             over = {"Successful"} => RunsIt,
             over = {"Failed"} => jobs[Here].trial /\ FreeOfIt
      PROVE  Promise!Step \/ Ledger' = Ledger
  <2>1. Here \in Used(jobs) /\ Here \in Slots
    BY <1>5, HereUsed, UsedHere
  <2>2. ~disabled /\ Led(nvs, nvs', Here, over)
    BY <1>5, <2>1, LedSlots
  <2>3. SameJob(nvs[Here], jobs[Here])
    BY <2>1, <2>2, SavedJob DEF Led
  <2>4. nvs[Here].tag = TheTag /\ nvs[Here].rel = TheRelease /\ nvs[Here].trial = jobs[Here].trial
    BY <2>3 DEF SameJob, TheTag, TheRelease
  <2>5. over = {"Successful"} =>
          dev[nvs[Here].tag].active = nvs[Here].rel /\ dev[nvs[Here].tag].conf
    BY <1>5, <2>4 DEF RunsIt
  <2>6. over = {"Failed"} =>
          /\ nvs[Here].trial
          /\ dev[nvs[Here].tag].active # nvs[Here].rel /\ ~dev[nvs[Here].tag].ours
    BY <1>5, <2>4 DEF FreeOfIt
  <2>7. QED
    BY <1>1, <1>5, <2>2, <2>5, <2>6, LedPromise
<1>6. CASE nvs' # nvs
  <2>1. CASE \E s \in Used(jobs) : \E over \in {{}, {"Cancelled"}} : Leads(Db, Db', s, over)
    BY <1>2, <1>4, <1>6, <2>1
  <2>2. CASE active # 0 /\ Leads(Db, Db', Here, {"Successful"}) /\ RunsIt
    <3>1. {"Successful"} # {"Failed"}
      OBVIOUS
    <3>2. QED
      BY <1>2, <1>5, <1>6, <2>2, <3>1
  <2>3. CASE active # 0 /\ Leads(Db, Db', Here, {"Failed"}) /\ jobs[Here].trial /\ FreeOfIt
    <3>1. {"Failed"} # {"Successful"}
      OBVIOUS
    <3>2. QED
      BY <1>2, <1>5, <1>6, <2>3, <3>1
  <2>4. CASE \E tag \in Tags : QueueJob(tag)
    BY <1>6, <2>4, QueueJobPromise
  <2>5. CASE \E s \in Used(jobs) : RetryJob(s)
    BY <1>2, <1>6, <2>5, RetryJobPromise
  <2>6. CASE nvs' = RestoredQueue(nvs)
    BY <1>2, <2>6, RestartPromise
  <2>7. QED
    BY <1>1, <1>6, <2>1, <2>2, <2>3, <2>4, <2>5, <2>6 DEF SnapshotMoves
<1>7. QED
  BY <1>3, <1>6

\* Initially nothing was asked for, and no tag has a trial of this anchor.
LEMMA InitPromise == ASSUME Init PROVE Promise!Init
<1> DEFINE image == [u \in Tags |-> RunsOn(dev[u])]
<1>1. nvs = [s \in Slots |-> None] /\ dev \in [Tags -> Found]
  BY DEF Init
<1>2. nvs \in Queue /\ Used(nvs) = {} /\ IdsOf(nvs) = {}
  BY <1>1 DEF Queue, Used, IdsOf
<1>3. Ledger = [i \in 1..IdMax |-> Promise!Unused]
  BY <1>2 DEF Ledger, Promise!Unused
<1>4. ASSUME NEW t \in Tags
      PROVE  /\ RunsOn(dev[t]) \in Promise!Image /\ RunsOn(dev[t]).trial = None
             /\ RunsOn(dev[t]).sure <=> RunsOn(dev[t]).back = None
  <2> DEFINE f == dev[t]
  <2>1. f \in Flash /\ SlotsHeld(nvs, t, f)
    BY <1>1, FoundHeld
  <2>2. ~ \E rel : OwnedIn(nvs, t, rel)
    BY <1>2 DEF OwnedIn
  <2> HIDE DEF f
  <2>3. ~f.ours /\ (~f.conf => f.other = Factory)
    BY <2>1, <2>2 DEF SlotsHeld
  <2>4. /\ RunsOn(f) \in Promise!Image
        /\ RunsOn(f).sure = f.conf /\ RunsOn(f).back = (IF f.conf THEN None ELSE f.other)
        /\ RunsOn(f).trial = (IF ~f.ours THEN None ELSE IF f.pending THEN f.other ELSE f.active)
    BY <1>2, <2>1, RunsImage
  <2>5. Factory # None
    OBVIOUS
  <2>6. QED
    BY <2>3, <2>4, <2>5 DEF f
<1>5. image \in [Tags -> Promise!Image]
  BY <1>4
<1>6. QED
  BY <1>3, <1>4, <1>5 DEF Promise!Init

\* What the snapshot says of the requests and what the tags run is what the
\* updater promises: no trial without a request that says so, a fallback to
\* the image before it, and outcomes that are true, over every failed write,
\* lost reply and restart.
THEOREM PromiseKept == Spec => KeepsPromise
<1>1. Init => Promise!Init
  BY InitPromise
<1>2. IInv /\ TagsHeld /\ [Next]_vars => [Promise!Next]_(Promise!vars)
  <2> SUFFICES ASSUME IInv, TagsHeld, [Next]_vars
               PROVE  Promise!Step \/ UNCHANGED <<Ledger, [u \in Tags |-> RunsOn(dev[u])]>>
    BY DEF Promise!Next, Promise!vars
  <2>1. IInv'
    BY NextTags
  <2>2. CASE Moves
    BY <2>1, <2>2, MovesPromise
  <2>3. CASE TagStep /\ UNCHANGED ctlVars
    <3>1. PICK t \in Tags : TagServes(t) \/ TagReboots(t) \/ TagConfirms(t)
      BY <2>3 DEF TagStep
    <3>2. CASE TagServes(t)
      BY <2>3, <3>2, ServePromise
    <3>3. CASE TagReboots(t)
      <4>1. Booted(dev[t]) # dev[t] /\ dev' = [dev EXCEPT ![t] = Booted(dev[t])]
        BY <3>3, Typed DEF IInv, TagReboots
      <4>2. QED
        BY <2>3, <4>1, BootPromise
    <3>4. CASE TagConfirms(t)
      BY <2>3, <3>4, ConfirmPromise
    <3>5. QED
      BY <3>1, <3>2, <3>3, <3>4
  <2>4. QED
    BY <2>2, <2>3, NextMoves
<1>3. QED
  BY <1>1, <1>2, InvariantHolds, PTL DEF Spec, KeepsPromise, Promise!Spec

=============================================================================
