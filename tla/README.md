# BinRange in TLA+

BinRange tells whether wheelie bins made it to the kerb, and back. Battery *tags*
on the bins range over UWB against a mains-powered *anchor* (ESP32); the anchor
publishes to MQTT/Home Assistant and, over Bluetooth, updates the tags'
firmware and their motion settings. This directory holds TLA+ models of the
code under `src/firmware`, configurations for TLC and proofs for TLAPS.

What can do lasting harm is the remote update: it runs unattended, over a lossy
radio, across restarts of both ends, and a tag that does not come back is a
trip to the bin. The models start there.

## Inventory

| Part (under `src/firmware/`) | State | Operations | Hard behaviour | Correct when |
|---|---|---|---|---|
| Job and queue, `anchor/src/core/update_job` | jobs with phase, attempts, acknowledged offset, trial flag; next id | transition, progress, attempt, retry, cancel, error, complete, enqueue with eviction, restore | long legal sequences, restart, id exhaustion | a queue restores; no live work, trial or outcome is lost; ids are unique |
| Update controller, `core/update_controller` | the open session, what it awaits, deadlines, cooldown, confirmation deadlines per slot, disabled | queue, cancel, retry, loop, handle, begin; commission | stale events, timeouts racing answers, failed saves, restarts between any two steps | a trial is always known durably, never repeated; success is true; sessions end |
| Storage, `core/update_storage`, `update_store` | snapshot, staged release, staging and borrowed flags | checkpoint, restore, stage begin/write/finish/abort, acquire/release | failed writes, buffer replaced in use | the buffer stays while it is read; old or new snapshot after a failed write |
| Glue, `tag_updater` | staging | guards around the API and the loop | faults while a session is open | a fault never strands a session |
| BLE worker, `update_ble` | mailbox, event queue, session step, fault | one task: connect, secure, exchange, close | second thread, full queues, lost links, late callbacks | a session is over only when the link is physically closed |
| SMP codec, `core/smp_codec` | none | encode, assemble, accept an upload offset | stalled or rewinding receivers | an upload ends |
| Tag slots and trial, `k4w-tag/src/ota_runtime`, `update_policy` | two image slots, trial health | upload, test, reset, confirm, revert, watchdog | reboot at any time | an unhealthy trial falls back |
| Tag maintenance, `ota_access.h` | window, activity, attempts, cooldown | local, attempt, activity, expire | time sampled by several threads | access is bounded and comes back |
| Motion settings, `core/motion_controller`, `k4w-tag/src/motion_settings` | requests per tag; revisions on the tag | request, forget, read, write, verify | a new request during a write, a write that timed out | what is reported as applied is applied |
| Motion and tip policy, `motion_policy`, `tip_policy`, `tip_monitor` | deadlines, orientation, counts | update, report, sample, save | failing saves, restarts upside down | no tip is lost or counted twice |
| Registry, freshness, publisher | tags, last reports, bursts | hear, adopt, forget, publish | clock wrap, compaction | absence is reported and latched |
| MQTT link, diagnostics, discovery | connection, slots of pending discovery and deletions | connect, publish, delete | reconnects, bounded slots | retained entities follow adoption |
| Admin, web | sessions, failures, upload | login, upload, finish | interrupted uploads, clock wrap | exactly one abort or finish per upload |
| Formats (`update_snapshot`, `update_manifest`, `update_image`), identity, pages, `main` | none over time | encode, parse, render | | the repository's fixture tests |

Interaction: web and MQTT handlers call the glue between two turns of the main
loop, on the same task. The loop drives the controller, which talks to the
worker task only through a one-slot mailbox and a queue of four events. The
worker talks to one tag at a time. The controller saves a snapshot before each
step whose repetition would be harmful, and `begin()` recovers from it.

`PROJECT.json` lists every component with its status and every hazard with the
line where it bites and the properties that watch it.

## Modules

| Module | Models | Extends |
|---|---|---|
| `UpdateJob` | one job: a record; the edges and the policy helpers of `update_job.cpp` as operators, the queue's slot choice, `valid_restore` | library only |
| `UpdateQueue` | `UpdateQueue` as callers may use it in any order, with `restore` | `UpdateJob` |
| `UpdateJob_proofs` | lemmas: what the policy helpers make of a job | `UpdateJob`, `TLAPS` |
| `UpdateQueue_proofs` | theorems about `UpdateQueue` | `UpdateQueue`, `UpdateJob_proofs` |
| `TagSlots` | the two image slots of a tag: uploads, test requests, boots, reverts | `UpdateJob` |
| `UpdateTransport` | the worker task, its mailbox and event queue, the tags' requests | `TagSlots` |
| `UpdateController` | firmware work of the controller with storage and glue, over the worker; restarts | `UpdateTransport` |
| `UpdatePromise` | abstract: what an operator may rely on | library only |
| `UpdateController_proofs` | theorems about `UpdateController` and its tags, and that it implements `UpdatePromise` | `UpdateController`, `UpdateJob_proofs` |
| `MotionSettings` | commissioning and settings work of the controller; the settings revisions of the tag | library only |
| `MotionSettings_proofs` | theorems about `MotionSettings` | `MotionSettings`, `TLAPS` |
| `TagMaintenance` | the tag's maintenance window, trial health and watchdog | library only |
| `TagMaintenance_proofs` | theorems about `TagMaintenance` | `TagMaintenance`, `TLAPS` |
| `TipCounter` | tip detection and its persistent count | library only |
| `TipCounter_proofs` | theorems about `TipCounter` | `TipCounter`, `TLAPS` |
| `WebUploads` | uploads of a release and of the anchor's firmware, the stage buffer byte for byte, the other writer of firmware | library only |
| `WebUploads_proofs` | theorems about `WebUploads` | `WebUploads`, `TLAPS` |
| `TagPresence` | registry, freshness and publishing of a tag's state | library only |
| `RetainedEntities` | retained discovery and state of `motion_mqtt` and `update_mqtt` | library only |
| `RetainedEntities_proofs` | theorems about `RetainedEntities` | `RetainedEntities`, `TLAPS` |
| `MqttLink` | when the anchor tries to reach its broker | library only |
| `MC...` | the instances for TLC: symmetry, initial states, state constraints | |

`UpdateJob` holds no variables, so that queue and controller use the same
definitions of the phases; a mistake there shows in both. The modules below
`UpdatePromise` share no state with those above: the controller's `busy()` keeps
firmware, pairing and settings sessions apart, so that a firmware session is
one flag in `MotionSettings` (`updating`), and the registry tells the updater
only whether a tag is adopted (`adopted`). `WebUploads` knows of the controller
whether a session is open (`busy`), whether it reads the stage buffer
(`borrowed`) and which releases live jobs need (`live`); in turn
`UpdateController` knows of uploads only that one is open and how it ended.

### How state corresponds

*Queue and controller.* `jobs` is `queue_`; slot order is insertion order as in
the code. `nvs` is the last snapshot. `ses` collects `await_`, `pending_smp_`,
`disconnect_submitted_` and what of `deadline_` and `session_started_` has
passed; `chk[s]` is `checking_until_[s]`; `borrowed` is `stage_borrowed_`.
`mailbox`, `events`, `wk` are `pending_command_`, `events_` and `step_`,
`current_`, `want_disconnect_ack_` of the worker. `inbox[t]` is a request that
reached the tag and is not served yet, `dev[t]` its slots.

*Settings.* `motion` is `motion_`, `ses` the fields `motion_active_` to
`motion_forgetting_`, `pairing` those that begin with `pairing_`; `paired` and
`durable` are `associations_` in memory and in the snapshot. On the tag,
`dev[t].saved` is `br_motion_settings.wanted`, `current` says that `applying` is
the present `revision`, and `running` is what the main loop reports by.

*Maintenance.* `access`, `policy`, `peer` are the statics of `ota_runtime.c`; each
timestamp is kept as its age, up to the largest limit the code compares it with.

*Tips.* `s` is `br_tip_state`, `m` `br_tip_monitor`, `saved` the flash record.

*Uploads.* `up` is the statics of `update_web.cpp`, `adm` the
`AdminUploadSession`, `st` the glue's `staging` with the stage of
`UpdateStorage`, `buf` its bytes. `req` and `file` say where the server is in a
request. `story` is no state of the code: it follows what came and says whether
the request deserves to be accepted.

*Presence and entities.* `reg` is the registry, `sent` `anchor_discovery_sent`,
`seen` `was_connected` or `motion_connected`; `disc` and `del` are the slots of
discovery and deletion by tag; `retained` is the broker's.

### How actions correspond

Each API call is one action; so is each branch of `handle()`, with every save
and command it makes, and each part of `loop()`: deadlines, one event, the
closing session, the next job. Splitting the loop there only adds
interleavings. The worker's actions are the commands it takes and the changes
of `step_` in `handle(Note)`, `fail`, `closing`. In `TagMaintenance` an action
is a callback or a poll under the lock; in `TipCounter` one update; in
`RetainedEntities` one turn of the loop, which sends one packet; in
`WebUploads` one callback of the web server, or the parts of the main loop
between requests; in `TagPresence` a whole turn of `publisher_loop()`.

### Abstractions

* **Time.** In controller and settings a deadline is a flag that may rise at
  any moment once set (`ses.due`, `ses.late`, `chk[s] = "due"`, `cooling`; in
  `MotionSettings` a session may fail at any moment). Every order of timeouts
  and answers is covered, more than the real constants allow. `UpdateQueue`
  keeps the timestamp of a job, as its guards read it. `TagMaintenance`,
  `TagPresence` and `MqttLink` count: the first in ages on a clock that does
  not wrap (`k_uptime_get`), the others modulo a short `Wrap`. In `TagPresence` an
  age goes on round the clock once it is past a full turn, so that the code
  sees it wrapped and the properties see whether that much time has passed.
* **Saves.** A checkpoint succeeds, or fails leaving the old or the new
  snapshot; a failure disables the updater as in the code. Where a handler saves
  twice the two are one step, yet the snapshot between them is reachable: the
  second save may fail leaving the first, and a restart may follow.
* **Ids.** Job ids are numbers up to `IdMax`, and running out is modelled in
  `UpdateQueue`. In `UpdateController` the next id is one above the highest known
  one, which `IdsAccounted` justifies. Operation and session ids are only
  compared with the latest, so a command carries `fresh`, and an event of an
  older one becomes `StaleEvent` in its place. Their exhaustion after 2^32
  commands is left out.
* **Data.** A release is a model value; an image is a release, the shipped
  `Factory` image or `Corrupt`; an upload has `ImageSize` blocks. Eviction among
  finished jobs is a free choice in the controller, by timestamp in `UpdateQueue`.
  The five motion settings are two, `idle` and `moving`: the other three travel
  as one of these does that nobody asked to change.
* **The tag is permissive.** It serves any request it can, answers with an
  error whenever it likes, confirms or reboots at any time, and serves a request
  after the anchor gave up. So what holds, holds because of the anchor. Slots and
  boots belong to MCUboot and MCUmgr, which are not in the repository's own
  sources; they are marked external. A newer request overwrites an unserved one.
* **The worker** may fail in each working step and latch a fault at any time.
  Service discovery and write fragments are part of one step. Its `failure_sent_`
  is dropped: a closing session does not fail again. `MotionSettings` uses what
  the run `controller_tags` shows of it: a disconnect is acknowledged when
  nothing of the session can reach a tag any more.
* **Settings of a tag** are written by this anchor only. `Idle`, `Successful` and
  `Failed` pairing are one state, as `pairing_success_` says what is reported.
* **Maintenance.** Advertising shows only in what its result does to the
  health of a trial. A poll reads the clock and the state under one lock.
* **Samples** fall in three classes of the angle between gravity and the
  learned reference: within 45 degrees, under 90, over 90; exactly 90 is left
  out. A tag is calibrated while its bin stands.
* **Entities.** One of the two publishers is followed at a time (`who`), as they
  share only registry and connection. The order in which slots are served is
  free. Each has its own number of topics; `Last` and the state stand for them.
* **Uploads.** A callback is authorised or not, each time anew; a block is of
  one release, or of none. Hashes and structure are right when every block is.
  Files of a request follow one another, as the parser does not nest them; it
  may give up at any point. The requests to queue and cancel are steps between
  requests, as they touch no upload. Live jobs are the set of their releases.
  The flash library accepts one image at a time.
* **Targets** of the queue are a tag and a board, and callers of `UpdateQueue`
  combine them freely. In `UpdateController` each tag has one board
  (`Associated`): `commission()` refuses another (`update_controller.cpp:170-178`),
  and nothing removes an association. That tags are commissioned in the course
  of time is left to `MotionSettings`. In the instances a board has the name of
  its tag.
* **Presence.** A timeout is configured in seconds and looked at in
  milliseconds: `Scale` ticks of a clock that wraps at `Wrap` make a second, and
  the product wraps as in the code. 0 stands for the `Default`. A packet may be
  refused on a connection that is up. At most `Lag` passes between two turns of the loop. Wall clock,
  burst statistics and the telemetry in a state are left out.
* **Connections.** `client.connected()` may go on saying yes after a connection
  is lost ("dying"); what is published then is lost. A new connection may find
  another broker, or one that lost what it retained.

### Definitions marked (bug)

Each such operator stands just before the definition it would replace and is a
mistake one could make there. `PROJECT.json` pairs each property with one, and
TLC finds the property violated under the same configuration: evidence that the
bounds let the interesting case happen. They are used by no specification.

## Runs

| Run | Configuration | Distinct states | Question |
|---|---|---|---|
| `queue` | 2 tags, 2 boards, 2 slots, 4 ids, 2 attempts, symmetric | 1.1 M | Does any order of operations, evictions and restarts lose something, or lead to a queue that does not restore? |
| `controller` | 1 tag, 2 blocks, 2 attempts, 2 events, 2 ids | 1.8 M | Do trials, deadlines and snapshots agree, whatever fails? |
| `controller_releases` | 2 releases, 2 ids, no worker fault, symmetric | 0.37 M | Is it the right release throughout, is success true, and does all of it implement `UpdatePromise`? |
| `controller_tags` | 2 tags, 2 slots, saves may fail, symmetric | 1.3 M | Can one session reach into the next, or two tags' jobs make a queue that does not restore? |
| `controller_progress` | 1 tag, 1 slot, 2 ids, the other bounds 1, tags as shipped, fairness | 0.26 M | Does everything end? |
| `motion` | 1 tag, paired or not, 2 slots, 2 values, 2 requests, fairness | 0.65 M | Is what is called known in force, and every request served? |
| `maintenance` | the code's limits in proportion, fairness | 0.18 M | Do windows last, stay apart and end, and do trials settle? |
| `tips` | 3 tips, 4 faults, a counter that saturates at 2, fairness | 16 k | Does the count follow the bin? |
| `uploads` | 2 releases of 2 blocks, symmetric | 49 k | Can callbacks in any order leave something open, half written or wrongly accepted? |
| `entities` | 2 tags and room for 1, 2 topics, 3 commands, 3 faults, fairness | 0.35 M | Does the broker retain what it should? |
| `presence` | 1 tag, a clock of 6 ticks, 2 timeouts it can count and 1 it cannot, 2 exchanges queued, 2 faults | 6.9 M | Is a tag missing exactly when it is, and does the broker say so? |
| `link` | a clock of 16 ticks | | a disagreement between comments and code (below) |

*Bounds.* Two tags are the least for a session to be confused with another,
two releases for a wrong one, two slots for eviction with live work beside it;
two ids in one slot make a job follow a finished one, also in
`controller_progress`, where it may find the deadline of the job before it. Two
boards let a caller of the queue give a tag a second one. Two blocks give a first,
a middle and a last offset to resume from, and `Corrupt` a transfer that went
wrong. Two attempts separate a retry from an exhausted budget (the code has
three), two events make the queue reorderable and fillable (the code has four),
and two stalled replies separate one from too many (three). The sweeping runs
cannot take all of these at once: `controller` has every fault with one tag and
one release, the two narrower runs add releases and tags.

In `motion` two requests let a second meet the first in each of its phases, or
a pairing precede a request; a spare slot lets a wrong slot be chosen. A tag's
settings depend on no other tag. In `maintenance` every limit keeps its order
to the others (a window holds two idle times, a trial is fed for two
observations, a watchdog period is an observation). In `tips` three tips pass
the saturation, and calibration takes two samples. In `uploads` two blocks have
a buffer that is partly overwritten, and a third would be too many. In `entities` two tags
compete for one place in the registry and among the deletions. In `presence` an
age reaches twice the clock's turn, so that every silence is seen before and
after a wrap; its
timeouts are one, two and four seconds of two ticks each, so that the last wraps. One restart, one lost connection, one refused packet and one other broker each
fit the faults, with a second to follow.

*Constraints.* `Up` leaves `controller_tags` the failed saves, as another job's
save may disable the updater under an open session. `NoFault` keeps
`controller_releases` without latched worker faults and without what follows a
save that failed under an open session: both only stop things, and `controller`
has them. `Enabled` stops `controller_progress` at a disabled updater, which
both its properties allow as an end; a restart finds the old or the new
snapshot then, as it does just before or after a save that succeeds.
`ShippedSpec` starts it from tags as they were shipped. `CurrentSpec` restricts the tags' first images in
`controller_tags`; `Spec` also starts from tags on trial, or with a trial
pending, by another anchor. `CHECK_DEADLOCK FALSE` in `motion` and `entities`
allows for the end of the bounded requests and faults.

### Properties

Each module states its types in `TypeOK`. The runs `controller` and
`tips` check it, where it bounds attempts, offsets and counters; it is proved
for those two, `UpdateQueue`, `MotionSettings`, `WebUploads` and `RetainedEntities`, and
serves the reader in the others.

About the queue: `Restorable`, `IdsNeverReused`, `LiveNeverLost`,
`OutcomeFinal`, `TrialNeverForgotten`. Two checks of the queue do not agree:
`enqueue()` refuses a second live job of the same tag *and* board
(`update_job.cpp:186-189`), `valid_restore()` two live jobs of one tag whatever
their boards (`:264-266`). A caller that gives one tag live jobs for two boards
gets a queue that does not restore, so `Restorable` says that a queue restores if
no caller did that (`OneBoardPerTag`). `RestartRefused` is the reboot that finds
such a queue, and the other properties except the work it throws away
(`Unrestorable`). That the anchor never gets there is a property of the
controller, `SnapshotRestorable`.

About firmware work: `SnapshotRestorable` - what the anchor has, in memory and
in the snapshot, can be saved and restored, as `queue()` wants one live job per
tag and a tag keeps the board it is associated with. `ArmedTracked` - a trial the anchor armed, or still has to
ask for, belongs to a durable live job. `StageStaysBorrowed` - the buffer is not
replaced while it is read. `SessionOwnsWorker` - a session is over only when the
worker is at rest. `SavedBeforeActing` - what the controller works with is
saved. `SuccessIsTrue` - success means running and confirmed.
`TrialNeverReplayed` - no upload or trial request for a job whose trial may be
armed. `BudgetOnlyByOperator` - attempts are not renewed by failures or restarts.

`KeepsPromise` maps the snapshot to a ledger of requests (open, armed, done,
failed, cancelled, gone) and the slots to what each tag runs, and shows that
every step is one of `UpdatePromise`: a request goes forward only, is armed
before its tag can be on trial, is done only when the tag runs it for certain,
is cancelled only if nothing was armed, and a tag tries only an image of an
armed request and has one to fall back to.

About pairing and settings: `KnownIsInForce` - what is shown as known is saved
on the tag and what it works by. `ForgottenIsGone` - a tag that is not adopted
leaves nothing but a closing session. `PairedForGood` - what is worked for
survives a restart. `PatchKeepsTheRest` - a write changes only what was asked.
`NoRequestLost` - a value asked for is replaced, in force or reported failed.

About the tag: `NeverCutShort`, `WindowsApart`, `ConfirmedOnlyHealthy` (windows
and trials, see above), `CountsRealTips` - no tip is invented, `PublishedIsSaved`
- a restart takes nothing back that was published as ready.

About uploads: `StagedIsWhole` - what counts as staged, or is being read, is in
the buffer, whole. `LiveKeepsRelease` - a staged release that a live job needs
outlives every upload. `NothingLeftOpen` - a stage is open, a partition taken or
the radio stopped only while somebody uploads, and never beside a tag's session.
`AnswerIsTrue` - accepted is exactly what was one complete file, in time, with
every callback authorised.

About the broker: `AbsenceIsTrue` - a tag is missing after its silence and not
before, also when the clock wrapped meanwhile. It is said of timeouts whose
milliseconds fit the clock (up to 49.7 days, `Fits`); of a longer one it is wrong
(see *Findings*).
`BrokerAgrees` - the broker retains what was last found. The loop does not look
at the answer of `mqtt_publish()`, so a packet that is refused on a connection
that lives is not repeated: the property leaves out a tag whose last state was
refused, until its next change, burst or connection. `OrphansExplained` - what is left of a forgotten
tag is about to be removed, or its removal was cut short by a full table, a
dying connection or a restart, which the code does not make up for.

### Progress and fairness

`SessionEnds` and `JobsSettle` assume strong fairness of the loop's steps, as
the main loop runs again after each API call and an API call could disable a
step in between, and weak fairness of the clocks and of an upload in progress,
which is aborted when its request ends (`update_web_request_end`). Nothing is
assumed of the worker, the radio or the tag: they may stop for ever. A session then ends in `disabled`, which is what the code does
and says. `JobsSettle` holds if the anchor restarts finitely often, and leaves
out a disabled or faulted updater, which an operator restarts.

`RequestsServed` assumes the same of the loop and its deadlines. Starting a
settings session is strongly fair: firmware work goes first in each turn, but a
job has a budget of attempts, so that firmware does not hold the controller
whenever it is free.

`TrialSettles` assumes the hardware clock alone: it resets a tag whose watchdog
was not fed. `ConnectionEnds` needs the main loop to poll and the stack to carry
out a disconnect; that a poll comes before the watchdog's period is over (20 s,
against a cooldown of 60 s) is what the watchdog enforces.

`BinFollowed` assumes sampling and saving go on, with the faults bounded.
`EntitiesSettle` assumes that a dead connection is found out, that one comes back, and
that the loop turns from tag to tag, as the cursors of both publishers do. It
leaves out a connection that was lost and replaced within one turn of the loop
(`missed`): the loops never see it down and publish nothing again. `BrokerAgrees`
leaves it out too.

### Findings

`mqttlink.cpp:99` compares the clock with `next_attempt_ms` as signed 32-bit
integers. That time is set when an attempt is made and not while connected, and
`mqtt_reconnect_now()` sets it to 0 ("retry immediately"). Between half a turn
and a full turn of `millis()` later, that is 24.9 to 49.7 days, it lies in the future:
an anchor that loses its broker then, is given new settings, or whose Wi-Fi comes
back, does not try for up to 24.9 days. The run `link` shows the last case, of an
anchor that was never connected: Wi-Fi is away from boot for half a turn of the clock, and
when it comes back the time of the next attempt is still the 0 of
`mqtt_begin()`, which counts as not yet due. A connection lost after half a turn, or
`mqtt_reconnect_now()` in the second half of one, meet the same comparison.

`freshness.cpp:13` computes the timeout of a tag as `stale_after_s * 1000UL`, in 32
bits, and the handler of an adoption takes any number of seconds
(`publisher.cpp:199-201`). Above 4294967 s, 49.7 days, the product wraps, and a tag is
reported missing, or stale, long before its timeout, where `docs/mqtt.md:43`
says that a tag never heard "starts unknown, then alarms at timeout". The
model has this, as the run `presence` has a timeout of four seconds on a clock
that wraps after three: without `Fits` TLC finds `AbsenceIsTrue` violated by a tag
that was adopted with that timeout, never heard, and is missing after one
second. Nobody should want so long a timeout, so this stays a condition of the
property.

The two checks of `UpdateQueue` that do not agree (see *Properties*) are a limit
of that class rather than a fault of the anchor: its only caller keeps one live
job per tag.

A smaller difference was met while modelling. `update_job.h:80` says a cancelled
job without a possible trial is Cancelled, but `update_cancel` refuses one that
is in Checking, as `allowed_edge` has no such edge. A job gets there without a
trial when the tag already runs the wanted image unconfirmed. It is harmless:
the check has a deadline, after which the job can be cancelled.

Another limit shows where `SlotsAssumption` is needed. `inspect_or_upload` looks at
the running image before it looks for a pending one (`update_controller.cpp:428`
and `:441`). If a tag already runs the wanted release, confirmed, and another
anchor has put a trial on it that waits for a reboot, the job is Successful even
if the tag boots into that trial before the outcome is saved. The models find
such a trial only on a tag that runs what it shipped with, so the case needs a
release that is the shipped image; with `Factory` among `Releases` TLC finds
`SuccessIsTrue` violated so. Two anchors updating one tag is not an arrangement that
the repository's documents describe.

## Proofs

`UpdateQueue_proofs`. It proves, for every set of tags, boards and releases, every number of
slots, ids, attempts and blocks (`JobAssumption`, `NoneAssumption`,
`QueueAssumption`, which TLC evaluates on every run of the queue), each property
that the run `queue` checks, `TypeOK`, and `IdsAccounted`: the next id is above every
remembered one.

The argument. A job `k` *follows* `j` when it is about the same work, legal by
the standards of `valid_restore`, and keeps a possible trial. One lemma per
policy helper shows that what it makes follows what it got. The inductive
invariant is `IInv == TypeOK /\ Consistent /\ IdsAccounted`. `Consistent` is what
`enqueue()` and the helpers keep whatever a caller asks: unique ids, one live job
for a tag *and* board, a trial only in phases that lead to an inspection. With
`OneBoardPerTag` it gives `Restorable` (`ConsistentRestorable`), which is not
inductive itself: it says nothing of a queue that has a tag with two boards, from
which a finished job leads back to one that must restore. That ids stay unique
when a job is added needs the next id to be above all, and that `restore()` finds
such an id again needs the type of the queue. `SameJobs` is what job operations
and a successful restart have in common, and one lemma shows it enough for
`Consistent`; `RefusedForBoards` shows that a restart is refused for no other
reason than a tag with two boards. `NextIdAfterCorrect` shows what
`restore()` computes, choosing the largest id by the well-foundedness of the
naturals. The action properties follow from `IInv` and the same lemmas, without
a further induction.

`TipCounter_proofs`. It proves, for every number of tips, faults and thresholds
(`TipAssumption`), the safety properties that the run `tips` checks. Neither
`CountsRealTips` nor `PublishedIsSaved` is inductive: that a tip is counted
once rests on what the tag knows of the bin when it is armed, and that what is
published is saved rests on memory, record and flash being related also while a
save is outstanding or has failed. The inductive invariant is therefore
`IInv == TypeOK /\ CountsRealTips /\ BinKnown /\ RecordsAgree`. `BinKnown` says
that a tipped bin was not upright since, and that one still to be calibrated
stands. `RecordsAgree` says how the counter in memory, the published count and the
flash record are ordered, when they are equal, and that a tag that could not
load its record stays out. One lemma describes a sample,
one a save, and each action follows from the two.

`UpdateController_proofs`. It proves, for every set of tags and releases, every
number of jobs, ids, attempts, blocks and stalled replies and every length of
the event queue, each safety property that the four runs of the controller
check, and that it implements `UpdatePromise`. Besides the assumptions on the
numbers, all positive, this needs `AssociatedAssumption`: a tag
has one board, which stays, and `SlotsAssumption`: what the tags shipped with
is none of the releases offered, and `None` is neither a tag nor an image. That
no release is `Factory` is a restriction, not a mere convention (see *Findings*).

The argument has three layers. The first part of the module is about the anchor
alone. It sums each handler up: it ends the session (`Ends`), asks the tag
something (`Asks`), answers an event (`Answers`) or leaves the session be, and
what it stores *leads* the job of one slot on (`Leads`). With these, the
invariant of the anchor, `IInv`, is preserved: the queue and the snapshot
restore (`SnapshotRestorable`, the theorem `AlwaysRestorable`) and agree
(`SavedBeforeActing`), an open session works for a job that is
under way, so that no API call can take its slot (`SessionHeld`), and at most
one thing is fresh - a command that waits, the one being served, or one event -
so that the event that ends a session finds the worker at rest (`MailHeld`).
`SessionOwnsWorker` and `StageStaysBorrowed` follow, or are parts of it.

The second part adds the tags. `ArmedTracked` says nothing of a block on
its way to a tag, or of what a session believes about a tag whose answer may be
old, so that it is far from inductive. `TagsHeld` is: the slots of a tag fit the
snapshot (`SlotsHeld`: a trial of this anchor is owned, before the reboot and
after it, and can be reverted); a request that waits or was sent fits the slots
it will find (`RequestHeld`: a block finds a confirmed tag that runs something
else, a trial request finds the whole release); nothing is on its way to a tag
whose answer is on its way back (`Answered`), so that an answer that the session
will read still says what it has to about the tag, though the tag may have
rebooted meanwhile (`ViewsHeld`). `SavedSlot`, `OwnsStays` and `RestoredOwns`
carry ownership over each save, each failed save and each restart.

`SuccessTrue`, `NeverReplayed` and `BudgetKept` are about steps. `NextMoves` says
once what a step makes of the snapshot and of the mailbox; the three follow.
`PromiseKept` is built from the same: where a handler leads a job on, one entry
of the ledger is armed or settled, or nothing changes (`LedPromise`);
`queue()` opens one, and may forget an outcome (`QueueJobPromise`); a retry and a
restart change nothing. What a reboot, a confirmation or a trial request makes
of the slots is `Try`, `FallBack`, `Confirm` or `Agree` (`BootPromise`,
`ConfirmPromise`, `AgreePromise`). `UpdatePromise` is a safety specification;
that requests are settled in the end is `JobsSettle`.

`MotionSettings_proofs`. It proves, for every number of tags, slots, values and
requests, each safety property of the run `motion`. `KnownIsInForce` rests on
where a write can still be: `WritesUnknown` says that one on its way makes the
settings of its tag unknown, `AnswerIsLatest` that an answer belongs to the
latest request with nothing changed since, `SessionHeld` that a session that
reads or verifies has no write on its way, and `AppliesSaved` relates the tag's
revisions to what it saved. `PairedForGood` needs `PairedSaved`: while saves
succeed, memory and snapshot name the same tags. `NoRequestLost` needs
`ClosingTold`: a session that closes was cut short, has failed, or did all it was asked.

`WebUploads_proofs`. It proves, for every set of releases and every image size,
what the run `uploads` checks. The invariant relates the three places that keep
an upload (`StageHeld`, `PartitionHeld`), and the flags of each kind of upload to
what really came (`ReleaseTold`, `FirmwareTold`): `AnswerIsTrue` is about the end
of a request, and these say why the flags tell the truth until then.

`RetainedEntities_proofs`. It proves, for every number of tags, topics and slots,
that neither table overflows and `OrphansExplained`. That a removal leaves nothing
behind needs `RemovalAhead`: what it has passed is gone, as nothing is announced
while it runs. `Counted` keeps the tables finite, for `Cardinality` to count.

`TagMaintenance_proofs`. It proves, for every length of the window, the cooldown,
the observation and the others (`MaintenanceAssumption`), the three safety
properties of the run `maintenance`. `WindowsApart` compares the true end of a
window with the start of the next, while the code only stores how long to wait.
`AccessKept` relates the two: in a closed window, what is left of the cooldown and
the age of the last use make up for the whole cooldown, however late the end was
discovered; that holds because an open window was used within its length, as only
`Allowed` lets a command count. `NeverCutShort` and `WindowsApart` are parts of
`AccessStep`, which each function of `ota_access.h` is shown to make.
`ConfirmedOnlyHealthy` needs `TrialKept`: the code's observation is never longer
than the time for which every look was good.

Each inductive invariant was checked by TLC as an invariant of the component's
configuration before it was proved.

Only model-checked: `TagPresence`, whose properties follow a queue through a
recursive function (`Drained`), so that each statement about a turn of the loop
takes an induction of its own; `MqttLink`, whose property fails; and the liveness properties
(`SessionEnds`, `JobsSettle`, `RequestsServed`, `TrialSettles`,
`ConnectionEnds`, `BinFollowed`, `EntitiesSettle`), as liveness under fairness is
out of the prover's reach.

## Not modelled

About 24 of the 40 thousand lines of the repository's implementation are two
copies of the vendor's DW3000 driver (`shared/Dw3000`, `test-rig/lib/Dw3000`):
tables of registers and accesses to them. Of the rest the following is left out.

* *Radio and ranging*, on both ends: correct or not by the timing of the
  hardware. Only the bounded queue of finished exchanges is in `TagPresence`.
* *Byte formats* (`update_snapshot`, `update_manifest`, `update_image`,
  `smp_codec` but for the accepted offset, `protocol.c`, topics and payloads):
  pure conversions, which the repository's fixtures test.
* *Motion policy*: arithmetic on intervals within one call.
* *Login*: the limit on failed logins, the stored credentials, headers and
  digests. `WebUploads` takes a callback as authorised or not.
* *Pages and configuration handlers* of the web UI, Wi-Fi, the statistics, and
  the publisher's own discovery and commands.
* *BLE identity*: one read or creation of a stored address; and the passkey and
  the bond of a pairing.
* *The tag emulator, the probe and the test rig*: tools, not deployed.

## Plan

Done: all modules named above; proofs of every safety property of `UpdateQueue`,
`UpdateController` with the refinement of `UpdatePromise`, `MotionSettings`,
`WebUploads`, `RetainedEntities`, `TagMaintenance` and `TipCounter`.

Next, a proof: `AbsenceIsTrue` of `TagPresence` over the clock that wraps, then
`BrokerAgrees`.

Then, models: the limit on failed logins over a clock that wraps, the
publisher's main entities, motion policy.
