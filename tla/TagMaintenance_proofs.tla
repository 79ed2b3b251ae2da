------------------------ MODULE TagMaintenance_proofs ------------------------
(***************************************************************************)
(* Proofs about TagMaintenance: for any lengths of the window, the         *)
(* cooldown, the observation and the others, a window is not cut short,    *)
(* windows stay apart, and only a healthy image is confirmed.              *)
(***************************************************************************)
EXTENDS TagMaintenance, TLAPS

\* The lengths, one by one
LEMMA Lengths ==
  /\ Window \in Nat /\ Window > 0 /\ Idle \in Nat /\ Idle > 0
  /\ Cooldown \in Nat /\ Cooldown > 0 /\ Pairing \in Nat /\ Pairing > 0
  /\ Attempts \in Nat /\ Attempts > 0 /\ AuthTime \in Nat /\ AuthTime > 0
  /\ Observe \in Nat /\ Observe > 0 /\ Gap \in Nat /\ Gap > 0
  /\ Feed \in Nat /\ Feed > 0 /\ Watchdog \in Nat /\ Watchdog > 0
BY MaintenanceAssumption DEF MaintenanceAssumption

\* Zero is an age of every kind, and what may be left.
LEMMA Zero ==
  /\ 0 \in 0..Window + Cooldown /\ 0 \in 0..Idle + Cooldown /\ 0 \in 0..Attempts
  /\ 0 \in 0..Cooldown /\ 0 \in 0..Pairing /\ 0 \in 0..AuthTime
  /\ 0 \in 0..Feed /\ 0 \in 0..Gap + 1 /\ 0 \in 0..Observe /\ 0 \in 0..Watchdog
BY Lengths

-----------------------------------------------------------------------------
(* The inductive invariant                                                 *)

\* An open window was used within its length: only Allowed lets a command
\* count.  In a closed one, what is left of the cooldown and the time since
\* the window was used make up for the whole of it, however late its end was
\* discovered; with connections left, counted from that end.
AccessKept(a) ==
  /\ a.open => a.start <= a.activity + Window
  /\ ~a.open => a.activity + a.cool >= Cooldown
  /\ ~a.open /\ a.attempts < Attempts =>
       a.activity + a.cool >= Idle + Cooldown \/ a.start + a.cool >= Window + Cooldown

\* The observation of the code goes on only while every look was good.
TrialKept == policy.watching => policy.healthy /\ well >= policy.observed

IInv == TypeOK /\ AccessKept(access) /\ TrialKept

-----------------------------------------------------------------------------
(* The window: what each function of ota_access.h makes of it              *)

\* Why a window may close
Over(a) == a.start >= Window \/ a.activity >= Idle

\* When a new window may open
Apart(a) ==
  /\ a.activity >= Cooldown
  /\ a.attempts < Attempts => a.activity >= Idle + Cooldown \/ a.start >= Window + Cooldown

\* The access changes from a to b as it may, but for a restart of the tag.
AccessStep(a, b) ==
  /\ b \in Access /\ AccessKept(b)
  /\ a.open /\ ~b.open => Over(a) \/ b.attempts >= Attempts
  /\ b.open /\ b.start = 0 /\ a.start # 0 => Apart(a)

\* An access that does not change makes a step.
LEMMA SameAccess ==
  ASSUME NEW a \in Access, AccessKept(a)
  PROVE  AccessStep(a, a)
BY DEF AccessStep

\* br_ota_expire() closes a window that is over, its cooldown counted from its
\* end, and leaves any other alone.
LEMMA ExpiredStep ==
  ASSUME NEW a \in Access, AccessKept(a)
  PROVE  /\ AccessStep(a, Expired(a))
         /\ Expired(a).open => Expired(a) = a /\ Allowed(a)
         /\ ~Expired(a).open => Expired(a).start = a.start
         /\ ~Expired(a).open /\ Expired(a).cool = 0 => Apart(a)
<1>1. CASE ~a.open \/ Allowed(a)
  <2>1. Expired(a) = a
    BY <1>1 DEF Expired
  <2>2. ~a.open /\ a.cool = 0 => Apart(a)
    BY DEF AccessKept, Apart, Access
  <2>3. QED
    BY <1>1, <2>1, <2>2, SameAccess
<1>2. CASE a.open /\ ~Allowed(a)
  <2> DEFINE b == Expired(a)
  <2>1. b = [a EXCEPT !.open = FALSE, !.pair = 0,
                      !.cool = IF EndsAgo(a) < Cooldown THEN Cooldown - EndsAgo(a) ELSE 0]
    BY <1>2 DEF Expired
  <2>2. /\ a.start \in Nat /\ a.activity \in Nat /\ a.start <= a.activity + Window
        /\ a.start <= Window + Cooldown /\ a.activity <= Idle + Cooldown
    BY <1>2 DEF Access, AccessKept
  <2>3. Over(a)
    BY <1>2, Lengths DEF Over, Allowed, Elapsed, Access
  <2>4. /\ EndsAgo(a) \in 0..Cooldown /\ a.activity >= EndsAgo(a)
        /\ \/ EndsAgo(a) = a.start - Window
           \/ EndsAgo(a) = a.activity - Idle
    BY <2>2, <2>3, Lengths DEF EndsAgo, Over
  <2>5. /\ b.cool \in 0..Cooldown /\ EndsAgo(a) + b.cool >= Cooldown
        /\ ~b.open /\ b.start = a.start /\ b.activity = a.activity /\ b.attempts = a.attempts
    BY <2>1, <2>4, Lengths DEF Access
  <2>6. b \in Access
    BY <2>1, <2>5, Zero DEF Access
  <2>7. AccessKept(b)
    BY <2>2, <2>4, <2>5, Lengths DEF AccessKept
  <2>8. b.cool = 0 => Apart(a)
    BY <2>2, <2>4, <2>5, Lengths DEF Apart
  <2>9. QED
    BY <2>3, <2>5, <2>6, <2>7, <2>8 DEF AccessStep
<1>3. QED
  BY <1>1, <1>2

\* After br_ota_expire() and no cooldown, a window is open, or opens apart.
LEMMA OpenedStep ==
  ASSUME NEW a \in Access, AccessKept(a), Expired(a).cool = 0 \/ Expired(a).open
  PROVE  LET o == Opened(Expired(a)) IN
           /\ AccessStep(a, o) /\ o.open /\ Allowed(o)
           /\ \A p \in 0..Pairing : LET q == [o EXCEPT !.pair = p] IN
                AccessStep(a, q) /\ q.open /\ Allowed(q)
<1> DEFINE e == Expired(a) o == Opened(e)
<1>1. CASE e.open
  <2>1. e = a /\ o = a /\ a.open /\ Allowed(a)
    BY <1>1, ExpiredStep DEF Opened
  <2>2. AccessStep(a, o)
    BY <2>1, SameAccess
  <2>3. ASSUME NEW p \in 0..Pairing
        PROVE  AccessStep(a, [a EXCEPT !.pair = p]) /\ Allowed([a EXCEPT !.pair = p])
    BY <2>1, <2>2 DEF AccessStep, AccessKept, Allowed, Elapsed, Access
  <2>4. QED
    BY <2>1, <2>2, <2>3 DEF Access
<1>2. CASE ~e.open
  <2>1. Apart(a) /\ e \in Access
    BY <1>2, ExpiredStep DEF AccessStep
  <2>2. o = [e EXCEPT !.open = TRUE, !.attempts = 0, !.start = 0, !.activity = 0]
    BY <1>2 DEF Opened
  <2>3. o \in Access /\ o.open /\ o.start = 0 /\ o.activity = 0
    BY <2>1, <2>2, Zero DEF Access
  <2>4. AccessStep(a, o) /\ Allowed(o)
    BY <2>1, <2>3, Lengths DEF AccessStep, AccessKept, Allowed, Elapsed
  <2>5. ASSUME NEW p \in 0..Pairing
        PROVE  AccessStep(a, [o EXCEPT !.pair = p]) /\ Allowed([o EXCEPT !.pair = p])
               /\ [o EXCEPT !.pair = p].open
    <3> DEFINE q == [o EXCEPT !.pair = p]
    <3>1. q \in Access /\ q.open /\ q.start = 0 /\ q.activity = 0
      BY <2>3 DEF Access
    <3>2. QED
      BY <2>1, <3>1, Lengths DEF AccessStep, AccessKept, Allowed, Elapsed
  <2>6. QED
    BY <2>3, <2>4, <2>5
<1>3. QED
  BY <1>1, <1>2

\* br_ota_local() opens a window that is then not over.
LEMMA LocalStep ==
  ASSUME NEW a \in Access, AccessKept(a)
  PROVE  AccessStep(a, Expired(Local(a)))
<1> DEFINE e == Expired(a) l == Local(a)
<1>1. e \in Access /\ AccessStep(a, e)
  BY ExpiredStep DEF AccessStep
<1>2. CASE e.cool > 0
  <2>1. l = e
    BY <1>2 DEF Local
  <2>2. Expired(e) = e
    BY ExpiredStep DEF Expired
  <2>3. QED
    BY <1>1, <2>1, <2>2
<1>3. CASE e.cool = 0
  <2>1. l = [Opened(e) EXCEPT !.pair = Pairing]
    BY <1>3 DEF Local
  <2>2. AccessStep(a, l) /\ Allowed(l)
    BY <1>3, <2>1, OpenedStep, Lengths
  <2>3. QED
    BY <2>2 DEF Expired
<1>4. QED
  BY <1>1, <1>2, <1>3 DEF Access

\* br_ota_attempt() counts a connection in a window that is not over.
LEMMA AttemptStep ==
  ASSUME NEW a \in Access, AccessKept(a), NEW known \in BOOLEAN
  PROVE  /\ Attempt(a, known).ok \in BOOLEAN
         /\ AccessStep(a, Attempt(a, known).access)
         /\ Attempt(a, known).ok => Allowed(Attempt(a, known).access)
<1> DEFINE e == Expired(a) o == Opened(e) r == Attempt(a, known)
<1>1. e \in Access /\ AccessStep(a, e)
  BY ExpiredStep DEF AccessStep
<1>2. CASE e.cool > 0 \/ (~known /\ ~PairingAllowed(e))
  <2>1. r = [ok |-> FALSE, access |-> e]
    BY <1>2 DEF Attempt
  <2>2. QED
    BY <1>1, <2>1
<1>3. CASE ~(e.cool > 0 \/ (~known /\ ~PairingAllowed(e)))
  <2>1. e.cool = 0
    BY <1>1, <1>3 DEF Access
  <2>2. AccessStep(a, o) /\ o \in Access /\ o.open /\ Allowed(o)
    BY <2>1, OpenedStep DEF AccessStep
  <2>3. CASE o.attempts >= Attempts
    <3>1. r = [ok |-> FALSE, access |-> o]
      BY <1>3, <2>3 DEF Attempt
    <3>2. QED
      BY <2>2, <3>1
  <2>4. CASE ~(o.attempts >= Attempts)
    <3> DEFINE b == [o EXCEPT !.attempts = @ + 1]
    <3>1. r = [ok |-> TRUE, access |-> b]
      BY <1>3, <2>4 DEF Attempt
    <3>2. /\ b \in Access /\ b.open
          /\ b.start = o.start /\ b.activity = o.activity
      BY <2>2, <2>4, Lengths DEF Access
    <3>3. AccessStep(a, b) /\ Allowed(b)
      BY <2>2, <3>2 DEF AccessStep, AccessKept, Allowed, Elapsed
    <3>4. QED
      BY <3>1, <3>3
  <2>5. QED
    BY <2>3, <2>4
<1>4. QED
  BY <1>2, <1>3

\* br_ota_end_attempt() closes the window after its last connection.
LEMMA EndAttemptStep ==
  ASSUME NEW a \in Access, AccessKept(a)
  PROVE  AccessStep(a, EndAttempt(a))
<1> DEFINE e == Expired(a)
<1>1. e \in Access /\ AccessStep(a, e)
  BY ExpiredStep DEF AccessStep
<1>2. CASE e.open /\ e.attempts >= Attempts
  <2> DEFINE b == [e EXCEPT !.open = FALSE, !.pair = 0, !.cool = Cooldown]
  <2>1. EndAttempt(a) = b
    BY <1>2 DEF EndAttempt
  <2>2. /\ b \in Access /\ ~b.open /\ b.cool = Cooldown
        /\ b.attempts >= Attempts /\ b.activity \in Nat
    <3>1. e \in Access /\ Cooldown \in 0..Cooldown
      BY <1>1, Lengths
    <3>2. b \in Access /\ ~b.open /\ b.cool = Cooldown /\ b.attempts = e.attempts
      BY <3>1, Zero DEF Access
    <3>3. b.activity = e.activity /\ e.activity \in 0..Idle + Cooldown
      BY <3>1 DEF Access
    <3>4. QED
      BY <1>2, <3>2, <3>3, Lengths
  <2> HIDE DEF b
  <2>3. AccessKept(b)
    BY <2>2, Lengths DEF AccessKept, Access
  <2>4. QED
    BY <2>1, <2>2, <2>3 DEF AccessStep
<1>3. CASE ~(e.open /\ e.attempts >= Attempts)
  BY <1>1, <1>3 DEF EndAttempt
<1>4. QED
  BY <1>2, <1>3

-----------------------------------------------------------------------------
(* The steps                                                               *)

\* What the theorems say of a step
GoodStep ==
  /\ AccessStep(access, access')
  /\ policy.trial /\ ~policy'.trial => well' >= Observe

\* The Bluetooth callbacks change the access alone, by ota_access.h.
LEMMA CallbackKeeps == ASSUME IInv, Callback PROVE IInv' /\ GoodStep
<1>1. access \in Access /\ AccessKept(access) /\ TypeOK /\ TrialKept
  BY DEF IInv, TypeOK
<1>2. SUFFICES AccessStep(access, access') /\ peer' \in Peer
               /\ (peer'.authorized => peer'.here /\ peer'.admitted) /\ Others
  <2>1. TypeOK' /\ AccessKept(access') /\ TrialKept'
    BY <1>1, <1>2 DEF TypeOK, AccessStep, TrialKept, Others
  <2>2. GoodStep
    BY <1>2 DEF GoodStep, Others
  <2>3. QED
    BY <2>1, <2>2 DEF IInv
<1>3. NoPeer \in Peer
  BY Zero DEF NoPeer, Peer
<1>4. ASSUME NEW known \in BOOLEAN, Connects(known)
      PROVE  AccessStep(access, access') /\ peer' \in Peer
             /\ (peer'.authorized => peer'.here /\ peer'.admitted) /\ Others
  <2> DEFINE r == Attempt(access, known)
  <2>1. r.ok \in BOOLEAN /\ (~r.ok) \in BOOLEAN /\ AccessStep(access, r.access)
    BY <1>1, AttemptStep
  <2>2. /\ access' = r.access /\ Others
        /\ peer' = [NoPeer EXCEPT !.here = TRUE, !.admitted = r.ok, !.dropped = ~r.ok]
    BY <1>4 DEF Connects
  <2>3. peer' \in Peer /\ ~peer'.authorized
    BY <1>3, <2>1, <2>2 DEF Peer, NoPeer
  <2>4. QED
    BY <2>1, <2>2, <2>3
<1>5. ASSUME NEW known \in BOOLEAN, ConnectFails(known)
      PROVE  AccessStep(access, access') /\ peer' \in Peer
             /\ (peer'.authorized => peer'.here /\ peer'.admitted) /\ Others
  <2> DEFINE r == Attempt(access, known) b == r.access
  <2>1. AccessStep(access, b) /\ (r.ok => Allowed(b))
    BY <1>1, AttemptStep
  <2>2. ASSUME r.ok PROVE AccessStep(access, EndAttempt(b))
    <3>1. b \in Access /\ AccessKept(b) /\ b.open /\ Expired(b) = b
      BY <2>1, <2>2 DEF AccessStep, Allowed, Expired
    <3>2. AccessStep(b, EndAttempt(b))
      BY <3>1, EndAttemptStep
    <3>3. \/ EndAttempt(b) = b
          \/ ~EndAttempt(b).open /\ EndAttempt(b).attempts >= Attempts
      BY <3>1 DEF EndAttempt, Access
    <3>4. QED
      BY <2>1, <3>2, <3>3 DEF AccessStep
  <2>3. QED
    BY <1>1, <1>5, <2>1, <2>2 DEF ConnectFails, TypeOK
<1>6. ASSUME NEW secure \in BOOLEAN, Secures(secure)
      PROVE  AccessStep(access, access') /\ peer' \in Peer
             /\ (peer'.authorized => peer'.here /\ peer'.admitted) /\ Others
  <2> DEFINE ok == peer.admitted /\ secure /\ Allowed(access)
  <2>1. ok \in BOOLEAN /\ (peer.dropped \/ ~ok) \in BOOLEAN
    OBVIOUS
  <2>2. peer' = [peer EXCEPT !.authorized = ok, !.dropped = (@ \/ ~ok)] /\ peer.here /\ peer \in Peer
    BY <1>1, <1>6 DEF Secures, TypeOK
  <2>3. peer' \in Peer /\ peer'.here = peer.here /\ peer'.admitted = peer.admitted /\ peer'.authorized = ok
    BY <2>1, <2>2 DEF Peer
  <2>4. QED
    BY <1>1, <1>6, <2>2, <2>3, SameAccess DEF Secures
<1>7. CASE Command
  <2> DEFINE e == Expired(access) b == [e EXCEPT !.activity = 0]
  <2>1. e \in Access /\ AccessStep(access, e)
    BY <1>1, ExpiredStep DEF AccessStep
  <2>2. ASSUME Allowed(e) PROVE AccessStep(access, b)
    <3>1. e.open /\ e.start < Window /\ e.start \in Nat
      BY <2>1, <2>2 DEF Allowed, Elapsed, Access
    <3>2. b \in Access /\ b.open /\ b.start = e.start /\ b.activity = 0
      BY <2>1, <3>1, Zero DEF Access
    <3>3. AccessKept(b)
      BY <3>1, <3>2, Lengths DEF AccessKept
    <3>4. QED
      BY <2>1, <3>1, <3>2, <3>3 DEF AccessStep
  <2>3. QED
    BY <1>1, <1>7, <2>1, <2>2 DEF Command, TypeOK
<1>8. CASE Disconnected
  BY <1>1, <1>3, <1>8, EndAttemptStep DEF Disconnected, NoPeer
<1>9. QED
  BY <1>4, <1>5, <1>6, <1>7, <1>8 DEF Callback

\* A look at the trial: its observation goes on only over good looks, and it
\* is not ready for less.
LEMMA LookKeeps ==
  ASSUME IInv, NEW healthy \in BOOLEAN
  PROVE  LET p == Progress(Health(policy, healthy))
             w == IF healthy /\ policy.healthy /\ policy.progress <= Gap THEN well ELSE 0
         IN  /\ p \in Policy /\ p.trial = policy.trial
             /\ w \in 0..Observe
             /\ p.watching => p.healthy /\ w >= p.observed
             /\ Ready(p) => w >= Observe
<1> DEFINE h == Health(policy, healthy) p == Progress(h)
           w == IF healthy /\ policy.healthy /\ policy.progress <= Gap THEN well ELSE 0
           fresh == healthy /\ policy.progress <= Gap
<1>1. policy \in Policy /\ well \in 0..Observe /\ TrialKept
  BY DEF IInv, TypeOK
<1>2. fresh \in BOOLEAN /\ w \in 0..Observe
  BY <1>1, Zero
<1>3. /\ h = [policy EXCEPT !.healthy = healthy, !.watching = fresh,
                            !.observed = IF fresh /\ ~policy.watching THEN 0 ELSE @]
  BY DEF Health
<1>4. /\ h \in Policy /\ h.trial = policy.trial /\ h.healthy = healthy /\ h.watching = fresh
      /\ h.progress = policy.progress
      /\ fresh /\ ~policy.watching => h.observed = 0
      /\ fresh /\ policy.watching => h.observed = policy.observed
  <2> HIDE DEF fresh
  <2> DEFINE o == IF fresh /\ ~policy.watching THEN 0 ELSE policy.observed
  <2>1. o \in 0..Observe
    BY <1>1, Zero DEF Policy
  <2>2. h = [policy EXCEPT !.healthy = healthy, !.watching = fresh, !.observed = o]
    BY <1>3
  <2> HIDE DEF o, h
  <2>3. /\ h \in Policy /\ h.trial = policy.trial /\ h.healthy = healthy /\ h.watching = fresh
        /\ h.progress = policy.progress /\ h.observed = o
    BY <1>1, <1>2, <2>1, <2>2 DEF Policy
  <2>4. QED
    BY <2>3 DEF o
<1> DEFINE again == h.healthy /\ (~h.watching \/ h.progress > Gap)
<1>5. p = [h EXCEPT !.watching = @ \/ again, !.observed = IF again THEN 0 ELSE @,
                    !.progress = 0]
  BY DEF Progress
<1>6. /\ p \in Policy /\ p.trial = h.trial /\ p.healthy = healthy
      /\ p.watching = (h.watching \/ again)
      /\ again => p.observed = 0
      /\ ~again => p.observed = h.observed
  <2>1. /\ again \in BOOLEAN /\ (h.watching \/ again) \in BOOLEAN
        /\ (IF again THEN 0 ELSE h.observed) \in 0..Observe
    BY <1>4, Zero DEF Policy
  <2> HIDE DEF again, h
  <2>2. QED
    BY <1>4, <1>5, <2>1, Zero DEF Policy
<1>7. p.watching => p.healthy /\ w >= p.observed
  <2> SUFFICES ASSUME p.watching PROVE p.healthy /\ w >= p.observed
    OBVIOUS
  <2>1. healthy
    BY <1>4, <1>6 DEF again, fresh
  <2>2. CASE again \/ ~policy.watching
    <3>1. p.observed = 0
      BY <1>4, <1>6, <2>2
    <3> HIDE DEF p, w
    <3>2. QED
      BY <1>2, <1>6, <2>1, <3>1, Lengths
  <2>3. CASE ~again /\ policy.watching
    <3>1. fresh /\ p.observed = policy.observed
      BY <1>4, <1>6, <2>1, <2>3 DEF again, fresh
    <3>2. policy.healthy /\ well >= policy.observed
      BY <1>1, <2>3 DEF TrialKept
    <3>3. QED
      BY <1>6, <2>1, <3>1, <3>2 DEF fresh
  <2>4. QED
    BY <2>2, <2>3
<1>8. Ready(p) => w >= Observe
  <2> SUFFICES ASSUME Ready(p) PROVE w >= Observe
    OBVIOUS
  <2>1. p.watching /\ p.observed >= Observe /\ p.observed \in 0..Observe
    BY <1>6 DEF Ready, Policy
  <2>2. w >= p.observed
    BY <1>7, <2>1
  <2> HIDE DEF p, w
  <2>3. QED
    BY <1>2, <2>1, <2>2, Lengths
<1>9. QED
  BY <1>2, <1>4, <1>6, <1>7, <1>8

\* A turn of the main loop
LEMMA PollKeeps == ASSUME IInv, PollStep PROVE IInv' /\ GoodStep
<1>1. PICK local \in BOOLEAN, healthy \in BOOLEAN, written \in BOOLEAN : Poll(local, healthy, written)
  BY DEF PollStep
<1> DEFINE p == Progress(Health(policy, healthy))
           ready == Ready(p) /\ written
           next == [p EXCEPT !.trial = @ /\ ~ready]
           a == Expired(IF local THEN Local(access) ELSE access)
<1>2. access \in Access /\ AccessKept(access) /\ TypeOK
  BY DEF IInv, TypeOK
<1>3. access' = a /\ AccessStep(access, a)
  BY <1>1, <1>2, ExpiredStep, LocalStep DEF Poll
<1>4. peer' \in Peer /\ (peer'.authorized => peer'.here /\ peer'.admitted)
  <2>1. peer' = [peer EXCEPT !.dropped = @ \/ (peer.here /\ Drop(a))]
    BY <1>1 DEF Poll
  <2>2. QED
    BY <1>2, <2>1 DEF TypeOK, Peer
<1>5. /\ p \in Policy /\ p.trial = policy.trial
      /\ well' \in 0..Observe
      /\ p.watching => p.healthy /\ well' >= p.observed
      /\ Ready(p) => well' >= Observe
  BY <1>1, LookKeeps DEF Poll
<1>6. policy' = next /\ next \in Policy /\ next.watching = p.watching /\ next.healthy = p.healthy
      /\ next.observed = p.observed /\ next.trial = (p.trial /\ ~ready)
  <2>1. policy' = next
    BY <1>1 DEF Poll
  <2>2. (p.trial /\ ~ready) \in BOOLEAN
    OBVIOUS
  <2>3. QED
    BY <1>5, <2>1, <2>2 DEF Policy
<1>7. fed' \in 0..Watchdog
  BY <1>1, <1>2, Zero DEF Poll, TypeOK
<1>8. IInv'
  BY <1>3, <1>4, <1>5, <1>6, <1>7 DEF IInv, TypeOK, TrialKept, AccessStep
<1>9. GoodStep
  BY <1>3, <1>5, <1>6 DEF GoodStep
<1>10. QED
  BY <1>8, <1>9

\* The tag starts, at first or again.
LEMMA StartedHolds ==
  ASSUME NEW trial \in BOOLEAN
  PROVE  /\ Closed \in Access /\ AccessKept(Closed) /\ NoPeer \in Peer /\ ~NoPeer.authorized
         /\ Started(trial) \in Policy /\ ~Started(trial).watching
<1>1. Closed \in Access /\ AccessKept(Closed)
  <2>1. Window + Cooldown \in 0..Window + Cooldown /\ Idle + Cooldown \in 0..Idle + Cooldown
    BY Lengths
  <2>2. Closed \in Access
    BY <2>1, Zero DEF Closed, Access
  <2>3. AccessKept(Closed)
    BY Lengths DEF Closed, AccessKept
  <2>4. QED
    BY <2>2, <2>3
<1>2. NoPeer \in Peer /\ ~NoPeer.authorized
  BY Zero DEF NoPeer, Peer
<1>3. Started(trial) \in Policy /\ ~Started(trial).watching
  BY Zero DEF Started, Policy
<1>4. QED
  BY <1>1, <1>2, <1>3

LEMMA BootKeeps == ASSUME NEW trial \in BOOLEAN, Boots(trial) PROVE IInv' /\ Rebooted
<1>1. IInv'
  BY StartedHolds, Zero DEF Boots, IInv, TypeOK, TrialKept
<1>2. Rebooted
  BY DEF Boots, Rebooted
<1>3. QED
  BY <1>1, <1>2

\* What is left of a cooldown goes down as the ages go up, and the ages are
\* counted far enough.
LEMMA OlderAccess ==
  ASSUME NEW a \in Access, AccessKept(a)
  PROVE  LET b == [a EXCEPT !.start = Older(@, Window + Cooldown),
                            !.activity = Older(@, Idle + Cooldown),
                            !.cool = IF @ > 0 THEN @ - 1 ELSE 0,
                            !.pair = IF @ > 0 THEN @ - 1 ELSE 0]
         IN  AccessStep(a, b)
<1> DEFINE b == [a EXCEPT !.start = Older(@, Window + Cooldown),
                          !.activity = Older(@, Idle + Cooldown),
                          !.cool = IF @ > 0 THEN @ - 1 ELSE 0,
                          !.pair = IF @ > 0 THEN @ - 1 ELSE 0]
<1>1. /\ b \in Access /\ b.open = a.open /\ b.attempts = a.attempts
      /\ b.start = Older(a.start, Window + Cooldown)
      /\ b.activity = Older(a.activity, Idle + Cooldown)
      /\ b.cool = IF a.cool > 0 THEN a.cool - 1 ELSE 0
  <2> DEFINE s == Older(a.start, Window + Cooldown)
             v == Older(a.activity, Idle + Cooldown)
             c == IF a.cool > 0 THEN a.cool - 1 ELSE 0
             r == IF a.pair > 0 THEN a.pair - 1 ELSE 0
  <2>1. /\ s \in 0..Window + Cooldown /\ v \in 0..Idle + Cooldown
        /\ c \in 0..Cooldown /\ r \in 0..Pairing
    BY Lengths DEF Access, Older
  <2>2. b = [a EXCEPT !.start = s, !.activity = v, !.cool = c, !.pair = r]
    OBVIOUS
  <2> HIDE DEF s, v, c, r, b
  <2>3. /\ b \in Access /\ b.open = a.open /\ b.attempts = a.attempts
        /\ b.start = s /\ b.activity = v /\ b.cool = c
    BY <2>1, <2>2 DEF Access
  <2>4. QED
    BY <2>3 DEF s, v, c
<1>2. a.start \in 0..Window + Cooldown /\ a.activity \in 0..Idle + Cooldown /\ a.cool \in 0..Cooldown
  BY DEF Access
<1>3. b.start # 0
  BY <1>1, <1>2, Lengths DEF Older
<1>4. AccessKept(b)
  BY <1>1, <1>2, Lengths DEF AccessKept, Older
<1>5. QED
  BY <1>1, <1>3, <1>4 DEF AccessStep

LEMMA TickKeeps == ASSUME IInv, Tick PROVE IInv' /\ (GoodStep \/ Rebooted)
<1>1. CASE fed + 1 >= Watchdog
  BY <1>1, BootKeeps DEF Tick
<1>2. CASE ~(fed + 1 >= Watchdog)
  <2>1. TypeOK /\ AccessKept(access) /\ TrialKept
    BY DEF IInv
  <2>2. AccessStep(access, access')
    BY <1>2, <2>1, OlderAccess DEF Tick, TypeOK
  <2>3. peer' \in Peer /\ (peer'.authorized => peer'.here /\ peer'.admitted)
    BY <1>2, <2>1, Lengths DEF Tick, TypeOK, Peer, Older
  <2>4. /\ policy' = [policy EXCEPT !.boot = Older(@, Feed), !.progress = Older(@, Gap + 1),
                        !.observed = IF policy.watching THEN Older(@, Observe) ELSE @]
        /\ fed' = fed + 1 /\ well' = Older(well, Observe)
    BY <1>2 DEF Tick
  <2>5. /\ policy' \in Policy /\ policy'.trial = policy.trial
        /\ policy'.watching = policy.watching /\ policy'.healthy = policy.healthy
        /\ policy.watching => policy'.observed = Older(policy.observed, Observe)
    <3> DEFINE b == Older(policy.boot, Feed)
               g == Older(policy.progress, Gap + 1)
               o == IF policy.watching THEN Older(policy.observed, Observe) ELSE policy.observed
    <3>1. b \in 0..Feed /\ g \in 0..Gap + 1 /\ o \in 0..Observe /\ policy \in Policy
      BY <2>1, Lengths DEF TypeOK, Policy, Older
    <3>2. policy' = [policy EXCEPT !.boot = b, !.progress = g, !.observed = o]
      BY <2>4
    <3> HIDE DEF b, g, o
    <3>3. /\ policy' \in Policy /\ policy'.trial = policy.trial
          /\ policy'.watching = policy.watching /\ policy'.healthy = policy.healthy
          /\ policy'.observed = o
      BY <3>1, <3>2 DEF Policy
    <3>4. QED
      BY <3>3 DEF o
  <2>6. well' \in 0..Observe /\ fed' \in 0..Watchdog
    BY <1>2, <2>1, <2>4, Lengths DEF TypeOK, Older
  <2>7. TrialKept'
    BY <2>1, <2>4, <2>5 DEF TrialKept, TypeOK, Policy, Older
  <2>8. IInv'
    BY <2>2, <2>3, <2>5, <2>6, <2>7 DEF IInv, TypeOK, AccessStep
  <2>9. GoodStep
    BY <2>2, <2>5 DEF GoodStep
  <2>10. QED
    BY <2>8, <2>9
<1>3. QED
  BY <1>1, <1>2

-----------------------------------------------------------------------------
(* The theorems                                                            *)

LEMMA InitHolds == Init => IInv
BY StartedHolds, Zero DEF Init, IInv, TypeOK, TrialKept

\* The invariant is inductive, and every step that is not a restart is good.
LEMMA StepKeeps == IInv /\ [Next]_vars => IInv' /\ (GoodStep \/ Rebooted \/ UNCHANGED vars)
<1> SUFFICES ASSUME IInv, [Next]_vars PROVE IInv' /\ (GoodStep \/ Rebooted \/ UNCHANGED vars)
  OBVIOUS
<1>1. CASE UNCHANGED vars
  BY <1>1 DEF vars, IInv, TypeOK, TrialKept
<1>2. CASE Callback \/ PollStep \/ Tick
  BY <1>2, CallbackKeeps, PollKeeps, TickKeeps
<1>3. CASE \E trial \in BOOLEAN : Boots(trial)
  BY <1>3, BootKeeps
<1>4. QED
  BY <1>1, <1>2, <1>3 DEF Next

\* Every reachable state satisfies the inductive invariant.
THEOREM InvariantHolds == Spec => []IInv
BY InitHolds, StepKeeps, PTL DEF Spec

\* The types hold: what is left of a cooldown is never more than a cooldown,
\* and a peer that was not admitted is never authorized.
THEOREM TypeCorrect == Spec => []TypeOK
<1>1. IInv => TypeOK
  BY DEF IInv
<1>2. QED
  BY <1>1, InvariantHolds, PTL

\* However the callbacks and the loop interleave, a window closes only when
\* its time is up, nothing was asked for, or its last connection has ended.
THEOREM WindowNeverCutShort == Spec => NeverCutShort
<1> DEFINE A == access.open /\ ~access'.open /\ ~Rebooted =>
             access.start >= Window \/ access.activity >= Idle \/ access'.attempts >= Attempts
<1>1. IInv /\ [Next]_vars => [A]_vars
  <2> SUFFICES ASSUME IInv, [Next]_vars PROVE A \/ UNCHANGED vars
    OBVIOUS
  <2>1. GoodStep \/ Rebooted \/ UNCHANGED vars
    BY StepKeeps
  <2>2. QED
    BY <2>1 DEF GoodStep, AccessStep, Over
<1>2. QED
  BY <1>1, InvariantHolds, PTL DEF Spec, NeverCutShort

\* Between two windows lies the cooldown, counted from the true end of the
\* first, whoever discovers it and when.
THEOREM WindowsStayApart == Spec => WindowsApart
<1> DEFINE A == access'.open /\ access'.start = 0 /\ access.start # 0 =>
             /\ access.activity >= Cooldown
             /\ access.attempts < Attempts =>
                  access.activity >= Idle + Cooldown \/ access.start >= Window + Cooldown
<1>1. IInv /\ [Next]_vars => [A]_vars
  <2> SUFFICES ASSUME IInv, [Next]_vars PROVE A \/ UNCHANGED vars
    OBVIOUS
  <2>1. GoodStep \/ Rebooted \/ UNCHANGED vars
    BY StepKeeps
  <2>2. Rebooted => ~access'.open
    BY DEF Rebooted, Closed
  <2>3. QED
    BY <2>1, <2>2 DEF GoodStep, AccessStep, Apart
<1>2. QED
  BY <1>1, InvariantHolds, PTL DEF Spec, WindowsApart

\* An image confirms itself only after every look at it, none late, found it
\* healthy for the whole observation.
THEOREM OnlyHealthyConfirmed == Spec => ConfirmedOnlyHealthy
<1> DEFINE A == policy.trial /\ ~policy'.trial => Rebooted \/ well' >= Observe
<1>1. IInv /\ [Next]_vars => [A]_vars
  <2> SUFFICES ASSUME IInv, [Next]_vars PROVE A \/ UNCHANGED vars
    OBVIOUS
  <2>1. GoodStep \/ Rebooted \/ UNCHANGED vars
    BY StepKeeps
  <2>2. QED
    BY <2>1 DEF GoodStep
<1>2. QED
  BY <1>1, InvariantHolds, PTL DEF Spec, ConfirmedOnlyHealthy

=============================================================================
