---------------------------- MODULE TagMaintenance ----------------------------
(***************************************************************************)
(* A tag while it may be maintained over Bluetooth: who may connect and    *)
(* for how long (ota_access.h), whether a new image on trial is healthy    *)
(* enough to be confirmed (update_policy.c), and ota_runtime.c, which      *)
(* calls both from the Bluetooth callbacks and from the main loop's        *)
(* br_ota_poll(), under one lock.                                          *)
(*                                                                         *)
(* A time is kept as its age: how long ago it was, counted as far as the   *)
(* code tells ages apart.  All ages grow together with the hardware's      *)
(* clock.  Advertising shows only in what its result does to the health.   *)
(***************************************************************************)
EXTENDS Integers

CONSTANTS
  Window,     \* maintenance lasts at most (600 s)
  Idle,       \* and ends when nothing is asked for (60 s)
  Cooldown,   \* then there is none (60 s)
  Pairing,    \* a local request lets new peers pair (60 s)
  Attempts,   \* connections in one window (3)
  AuthTime,   \* a peer has to be secured within (10 s)
  Observe,    \* a trial has to be healthy for (30 s)
  Gap,        \* with looks at it no further apart than (6 s)
  Feed,       \* a trial is given (90 s)
  Watchdog    \* the hardware resets a tag that was not fed

ASSUME MaintenanceAssumption ==
  /\ {Window, Idle, Cooldown, Pairing, Attempts, AuthTime} \subseteq Nat \ {0}
  /\ {Observe, Gap, Feed, Watchdog} \subseteq Nat \ {0}

VARIABLES
  access,  \* br_ota_access
  peer,    \* the connection
  policy,  \* br_update_policy: the trial
  fed,     \* age of the watchdog's last feed
  well     \* observed: for how long every look found the trial healthy

vars == <<access, peer, policy, fed, well>>

Older(age, cap) == IF age < cap THEN age + 1 ELSE age

\* start, activity   ages of start_ms and activity_ms
\* cool, pair        what is left until cooldown_until_ms, pairing_until_ms
Access == [open : BOOLEAN, start : 0..Window + Cooldown, activity : 0..Idle + Cooldown,
           attempts : 0..Attempts, cool : 0..Cooldown, pair : 0..Pairing]

Closed == [open |-> FALSE, start |-> Window + Cooldown, activity |-> Idle + Cooldown, attempts |-> 0,
           cool |-> 0, pair |-> 0]

\* admitted  peer_admitted   authorized   since  age of connected_ms
\* dropped   a disconnect was requested
Peer == [here : BOOLEAN, admitted : BOOLEAN, authorized : BOOLEAN,
         since : 0..AuthTime, dropped : BOOLEAN]

NoPeer == [here |-> FALSE, admitted |-> FALSE, authorized |-> FALSE,
           since |-> 0, dropped |-> FALSE]

\* boot, progress, observed   ages of boot_ms, last_progress_ms and
\* observation_start_ms; watching is observing_health
Policy == [trial : BOOLEAN, boot : 0..Feed, progress : 0..Gap + 1,
           watching : BOOLEAN, observed : 0..Observe, healthy : BOOLEAN]

\* br_update_policy_init()
Started(trial) == [trial |-> trial, boot |-> 0, progress |-> 0, watching |-> FALSE,
                   observed |-> 0, healthy |-> FALSE]

Init ==
  /\ access = Closed /\ peer = NoPeer
  /\ policy \in {Started(trial) : trial \in BOOLEAN}
  /\ fed = 0 /\ well = 0

-----------------------------------------------------------------------------
(* ota_access.h                                                            *)

\* (bug) The time is read before the lock, and a callback runs in between:
\* the difference of unsigned times wraps.
ElapsedBeforeLock(age) == IF age = 0 THEN Window + Idle ELSE age - 1

\* now - then, of unsigned times
Elapsed(age) == age

Allowed(a) == a.open /\ Elapsed(a.start) < Window /\ Elapsed(a.activity) < Idle

\* (bug) The cooldown counts from the last activity.
EndsAgoOfActivity(a) == a.activity

\* How long ago the window came to its end, by its length or by idleness
EndsAgo(a) == IF a.start - Window > a.activity - Idle
              THEN a.start - Window ELSE a.activity - Idle

\* br_ota_expire(): the cooldown counts from the end, not from its discovery.
Expired(a) ==
  IF ~a.open \/ Allowed(a) THEN a
  ELSE [a EXCEPT !.open = FALSE, !.pair = 0,
                 !.cool = IF EndsAgo(a) < Cooldown THEN Cooldown - EndsAgo(a) ELSE 0]

PairingAllowed(a) == Allowed(a) /\ a.pair > 0

Opened(a) == IF a.open THEN a
             ELSE [a EXCEPT !.open = TRUE, !.attempts = 0, !.start = 0, !.activity = 0]

\* br_ota_local(): a button or the jig
Local(a) == LET e == Expired(a) IN
  IF e.cool > 0 THEN e ELSE [Opened(e) EXCEPT !.pair = Pairing]

\* br_ota_attempt(): a bonded peer opens the window itself.
Attempt(a, known) ==
  LET e == Expired(a)
      o == Opened(e)
  IN  IF e.cool > 0 \/ (~known /\ ~PairingAllowed(e))
      THEN [ok |-> FALSE, access |-> e]
      ELSE IF o.attempts >= Attempts THEN [ok |-> FALSE, access |-> o]
      ELSE [ok |-> TRUE, access |-> [o EXCEPT !.attempts = @ + 1]]

\* br_ota_end_attempt()
EndAttempt(a) == LET e == Expired(a) IN
  IF e.open /\ e.attempts >= Attempts
  THEN [e EXCEPT !.open = FALSE, !.pair = 0, !.cool = Cooldown]
  ELSE e

-----------------------------------------------------------------------------
(* Bluetooth callbacks                                                     *)

Others == UNCHANGED <<policy, fed, well>>

\* connected(); a peer that is not admitted is told to go at once.
Connects(known) ==
  /\ ~peer.here
  /\ LET r == Attempt(access, known) IN
       /\ access' = r.access
       /\ peer' = [NoPeer EXCEPT !.here = TRUE, !.admitted = r.ok, !.dropped = ~r.ok]
  /\ Others

\* connected() with an error
ConnectFails(known) ==
  /\ ~peer.here
  /\ LET r == Attempt(access, known) IN
       access' = IF r.ok THEN EndAttempt(r.access) ELSE r.access
  /\ UNCHANGED peer /\ Others

\* security_changed() to level 4, or short of it
Secures(secure) ==
  /\ peer.here
  /\ LET ok == peer.admitted /\ secure /\ Allowed(access) IN
       peer' = [peer EXCEPT !.authorized = ok, !.dropped = @ \/ ~ok]
  /\ UNCHANGED access /\ Others

\* command_check(): only an authorized peer's command counts as activity.
Command ==
  /\ peer.here
  /\ LET e == Expired(access) IN
       access' = IF peer.authorized /\ Allowed(e) THEN [e EXCEPT !.activity = 0] ELSE e
  /\ UNCHANGED peer /\ Others

Disconnected ==
  /\ peer.here
  /\ peer' = NoPeer
  /\ access' = EndAttempt(access)
  /\ Others

-----------------------------------------------------------------------------
(* The main loop                                                           *)

\* (bug) An unhealthy look is remembered, and the observation goes on.
HealthKept(p, healthy) ==
  LET late == p.progress > Gap
      begins == healthy /\ ~late /\ ~p.watching
  IN  [p EXCEPT !.healthy = healthy,
                !.watching = (@ /\ ~late) \/ begins,
                !.observed = IF begins THEN 0 ELSE @]

\* br_update_policy_health(): one unhealthy or late look ends the observation.
Health(p, healthy) ==
  LET fresh == healthy /\ p.progress <= Gap
  IN  [p EXCEPT !.healthy = healthy, !.watching = fresh,
                !.observed = IF fresh /\ ~p.watching THEN 0 ELSE @]

\* br_update_policy_progress()
Progress(p) ==
  LET again == p.healthy /\ (~p.watching \/ p.progress > Gap)
  IN  [p EXCEPT !.watching = @ \/ again, !.observed = IF again THEN 0 ELSE @,
                !.progress = 0]

\* br_update_policy_confirmation_ready(), with progress just made
Ready(p) == p.trial /\ p.healthy /\ p.watching /\ p.observed >= Observe

\* (bug) A trial is fed for ever.
FeedAny(p) == TRUE

MayFeed(p) == ~p.trial \/ p.boot < Feed

\* (bug) Only a peer that is not secured in time is dropped.
DropUnsecured(a) == ~peer.authorized /\ peer.since >= AuthTime

Drop(a) ==
  \/ ~peer.authorized /\ peer.since >= AuthTime
  \/ peer.authorized /\ ~Allowed(a)

\* br_ota_poll(): a local request, expiry, the connection, advertising (whose
\* result is part of healthy), the trial and the watchdog.  Confirming may fail.
Poll(local, healthy, written) ==
  LET a == Expired(IF local THEN Local(access) ELSE access)
      p == Progress(Health(policy, healthy))
      next == [p EXCEPT !.trial = @ /\ ~(Ready(p) /\ written)]
  IN  /\ access' = a
      /\ peer' = [peer EXCEPT !.dropped = @ \/ (peer.here /\ Drop(a))]
      /\ policy' = next
      /\ fed' = IF MayFeed(next) THEN 0 ELSE fed
      /\ well' = IF healthy /\ policy.healthy /\ policy.progress <= Gap THEN well ELSE 0

\* The tag starts: a new image on trial, or the confirmed one.  A trial that
\* was not confirmed is not started twice.
Boots(trial) ==
  /\ trial => ~policy.trial
  /\ access' = Closed /\ peer' = NoPeer
  /\ policy' = Started(trial)
  /\ fed' = 0 /\ well' = 0

\* Time passes; a watchdog that was not fed falls back to the confirmed image.
Tick ==
  IF fed + 1 >= Watchdog THEN Boots(FALSE)
  ELSE
  /\ access' = [access EXCEPT !.start = Older(@, Window + Cooldown),
                              !.activity = Older(@, Idle + Cooldown),
                              !.cool = IF @ > 0 THEN @ - 1 ELSE 0,
                              !.pair = IF @ > 0 THEN @ - 1 ELSE 0]
  /\ peer' = IF peer.here THEN [peer EXCEPT !.since = Older(@, AuthTime)] ELSE peer
  /\ policy' = [policy EXCEPT !.boot = Older(@, Feed), !.progress = Older(@, Gap + 1),
                              !.observed = IF policy.watching THEN Older(@, Observe) ELSE @]
  /\ fed' = fed + 1
  /\ well' = Older(well, Observe)

Callback ==
  \/ \E known \in BOOLEAN : Connects(known) \/ ConnectFails(known)
  \/ \E secure \in BOOLEAN : Secures(secure)
  \/ Command \/ Disconnected

PollStep == \E local, healthy, written \in BOOLEAN : Poll(local, healthy, written)

Next == Callback \/ PollStep \/ Tick \/ \E trial \in BOOLEAN : Boots(trial)

Spec == Init /\ [][Next]_vars

\* The clock runs, in hardware.
ClockRuns == WF_vars(Tick)

\* The main loop polls, and the stack carries out a disconnect.
LoopRuns == WF_vars(PollStep) /\ WF_vars(Disconnected /\ peer.dropped)

FairSpec == Spec /\ ClockRuns /\ LoopRuns

-----------------------------------------------------------------------------
(* Properties                                                              *)

\* Every variable has its type; a cooldown is never longer than it should be,
\* and only an admitted peer is authorized.
TypeOK ==
  /\ access \in Access /\ peer \in Peer /\ policy \in Policy
  /\ fed \in 0..Watchdog /\ well \in 0..Observe
  /\ peer.authorized => peer.here /\ peer.admitted

Rebooted == access' = Closed /\ policy' \in {Started(trial) : trial \in BOOLEAN}

\* A window is closed only when its time is up, nothing was asked for, or the
\* last connection it allows has ended; never because two threads read the
\* clock in another order than they took the lock.
NeverCutShort ==
  [][access.open /\ ~access'.open /\ ~Rebooted =>
       access.start >= Window \/ access.activity >= Idle \/ access'.attempts >= Attempts]_vars

\* Between two windows lies the cooldown, counted from the true end of the
\* first, whoever discovers it and when.
WindowsApart ==
  [][access'.open /\ access'.start = 0 /\ access.start # 0 =>
       /\ access.activity >= Cooldown
       /\ access.attempts < Attempts =>
            access.activity >= Idle + Cooldown \/ access.start >= Window + Cooldown]_vars

\* An image confirms itself only after every look at it, none late, found it
\* healthy for the whole observation.
ConfirmedOnlyHealthy ==
  [][policy.trial /\ ~policy'.trial => Rebooted \/ well' >= Observe]_vars

\* A trial ends, confirmed or reverted, by the clock alone: also when the main
\* loop hangs, when the image never gets healthy and when confirming fails.
TrialSettles == policy.trial ~> ~policy.trial

\* No peer stays for ever, whatever it does, while the main loop polls.
ConnectionEnds == peer.here ~> ~peer.here

=============================================================================
