------------------------------ MODULE WebUploads ------------------------------
(***************************************************************************)
(* The two uploads of the anchor's web server, one request at a time: a    *)
(* release for the tags, which update_web.cpp and tag_updater.cpp receive  *)
(* into the stage buffer of update_storage.cpp, and the anchor's own       *)
(* firmware, which AdminUploadSession of admin_policy.cpp receives into    *)
(* its spare partition while ranging is suspended.                         *)
(*                                                                         *)
(* A request is handled within one call of handleClient(), so the main     *)
(* loop does not go on before it is over; but it may end anywhere, as the  *)
(* parser gives up without calling anyone.  The server, the flash library  *)
(* and ArduinoOTA, the third writer of firmware, are modelled by what the  *)
(* code here can see of them.                                              *)
(***************************************************************************)
EXTENDS Naturals

CONSTANTS
  Releases,  \* releases for the tags
  Corrupt,   \* a block of no release
  None,      \* no release, or an empty block
  Blocks     \* the size of an image

ASSUME UploadAssumption == Blocks \in Nat \ {0} /\ {None, Corrupt} \cap Releases = {}

VARIABLES
  req,       \* what the main loop is in: none, a request, ArduinoOTA or a restart
  file,      \* the parser is in a file, between files or done with them
  up,        \* upload_started and so on; late: 60 s since its start
  adm,       \* the AdminUploadSession; late: 30 s since its last activity
  st,        \* the flag of the glue and the stage of UpdateStorage
  buf,       \* stage_bytes_
  live,      \* releases of live jobs
  busy,      \* a session of the controller is open
  borrowed,  \* and reads from the stage buffer
  ready,     \* the updater is available and not disabled
  flash,     \* the flash library: idle, open, selected
  ranging,   \* the radio task: off, running, suspended
  story,     \* the request so far, as it should be judged
  answer     \* what its final handler answered

webVars == <<req, file, story, answer>>
stageVars == <<up, st, buf>>
anchorVars == <<adm, flash, ranging>>
updaterVars == <<live, busy, borrowed, ready>>
vars == <<webVars, stageVars, anchorVars, updaterVars>>

Contents == Releases \union {Corrupt}

Upload == [started : BOOLEAN, ended : BOOLEAN, failed : BOOLEAN, late : BOOLEAN]
AdminSession == [active : BOOLEAN, suspended : BOOLEAN, ended : BOOLEAN, failed : BOOLEAN,
                 finalized : BOOLEAN, bytes : BOOLEAN, late : BOOLEAN]
Stage == [staging : BOOLEAN, active : BOOLEAN, valid : BOOLEAN, received : 0..Blocks,
          receiving : Releases \union {None}, staged : Releases \union {None}]

NoUpload == [started |-> FALSE, ended |-> FALSE, failed |-> FALSE, late |-> FALSE]
NoSession == [active |-> FALSE, suspended |-> FALSE, ended |-> FALSE, failed |-> FALSE,
              finalized |-> FALSE, bytes |-> FALSE, late |-> FALSE]
NoStage == [staging |-> FALSE, active |-> FALSE, valid |-> FALSE, received |-> 0,
            receiving |-> None, staged |-> None]

Init ==
  /\ req = "none" /\ file = "none" /\ story = "new" /\ answer = "none"
  /\ up = NoUpload /\ adm = NoSession /\ st = NoStage
  /\ buf \in [1..Blocks -> Contents]
  /\ live = {} /\ busy = FALSE /\ borrowed = FALSE /\ ready = TRUE
  /\ flash = "idle" /\ ranging = "off"

-----------------------------------------------------------------------------
(* UpdateStorage and its glue                                              *)

\* (bug) A staged release may be replaced while a job waits for it.
CanStageOver ==
  /\ ready /\ ~busy /\ ~st.staging
  /\ ~st.active /\ ~borrowed

\* tag_updater_stage_begin() and stage_begin()
CanStage ==
  /\ ready /\ ~busy /\ ~st.staging
  /\ ~st.active /\ ~borrowed /\ ~(st.valid /\ st.staged \in live)

\* (bug) The old release counts as staged until the new one is.
BegunOver(r) == [st EXCEPT !.staging = TRUE, !.active = TRUE, !.receiving = r,
                           !.received = 0]

Begun(r) == [st EXCEPT !.staging = TRUE, !.active = TRUE, !.receiving = r,
                       !.received = 0, !.valid = FALSE]

\* tag_updater_stage_abort()
Aborted ==
  IF ~st.staging THEN st
  ELSE IF borrowed THEN [st EXCEPT !.staging = FALSE]
  ELSE [st EXCEPT !.staging = FALSE, !.active = FALSE, !.valid = FALSE, !.received = 0]

Room == st.staging /\ st.active /\ ~borrowed /\ st.received < Blocks

\* stage_finish(): both hashes are those of the manifest.
Whole == st.received = Blocks /\ \A i \in 1..Blocks : buf[i] = st.receiving

Finished ==
  IF st.active /\ ~borrowed /\ Whole
  THEN [st EXCEPT !.staging = FALSE, !.active = FALSE, !.received = 0,
                  !.staged = st.receiving, !.valid = TRUE]
  ELSE [st EXCEPT !.staging = FALSE, !.active = FALSE, !.received = 0, !.valid = FALSE]

-----------------------------------------------------------------------------
(* Requests for a release: upload() and uploaded() of update_web.cpp       *)

\* fail_upload()
FailUpload(u) == up' = [u EXCEPT !.failed = TRUE] /\ st' = Aborted

\* One image file, after a manifest that parses
ReleaseStart(auth, what, r) ==
  /\ req = "release" /\ file = "none"
  /\ file' = "in"
  /\ LET u == [up EXCEPT !.started = TRUE]
     IN  \/ /\ ~auth \/ up.started \/ what = "bad name"
            /\ FailUpload(up)
         \/ /\ auth /\ ~up.started
            /\ what = "bad manifest" \/ (what = "fine" /\ ~CanStage)
            /\ FailUpload(u)
         \/ /\ auth /\ ~up.started /\ what = "fine" /\ CanStage
            /\ up' = u /\ st' = Begun(r)
  /\ story' = IF story = "new" /\ auth /\ what = "fine" /\ CanStage THEN "open" ELSE "spoilt"
  /\ UNCHANGED <<req, answer, buf, anchorVars, updaterVars>>

\* A block c of the file, or an empty one
ReleaseWrite(auth, c) ==
  /\ req = "release" /\ file = "in"
  /\ LET taken == c = None \/ Room
         fine == auth /\ ~up.failed /\ up.started /\ ~up.ended /\ ~up.late /\ st.active /\ taken
     IN  /\ \/ auth /\ up.failed /\ UNCHANGED stageVars
            \/ fine /\ c = None /\ UNCHANGED stageVars
            \/ /\ fine /\ c # None
               /\ buf' = [buf EXCEPT ![st.received + 1] = c]
               /\ st' = [st EXCEPT !.received = @ + 1]
               /\ UNCHANGED up
            \/ ~fine /\ ~(auth /\ up.failed) /\ FailUpload(up) /\ UNCHANGED buf
         /\ story' = IF story = "open" /\ auth /\ ~up.late /\ taken THEN "open" ELSE "spoilt"
  /\ UNCHANGED <<req, file, answer, anchorVars, updaterVars>>

ReleaseEnd(auth) ==
  /\ req = "release" /\ file = "in"
  /\ file' = "none"
  /\ \/ ~auth /\ FailUpload(up)
     \/ auth /\ (~up.started \/ up.ended) /\ FailUpload([up EXCEPT !.ended = TRUE])
     \/ auth /\ up.started /\ ~up.ended /\ up' = [up EXCEPT !.ended = TRUE] /\ UNCHANGED st
  /\ story' = IF story = "open" /\ auth THEN "closed" ELSE "spoilt"
  /\ UNCHANGED <<req, answer, buf, anchorVars, updaterVars>>

\* The final handler, with the fields it expects or others
ReleaseDone(auth, fields) ==
  /\ req = "release" /\ file = "none"
  /\ file' = "over"
  /\ LET fine == auth /\ up.started /\ up.ended /\ ~up.failed /\ fields /\ ~up.late
     IN  /\ st' = IF fine /\ st.staging THEN Finished ELSE Aborted
         /\ answer' = IF fine /\ st.staging /\ st'.valid THEN "ok" ELSE "failed"
         /\ story' = IF story = "closed" /\ auth /\ fields /\ ~up.late /\ Whole
                     THEN "good" ELSE "spoilt"
  /\ UNCHANGED <<req, up, buf, anchorVars, updaterVars>>

-----------------------------------------------------------------------------
(* Requests for the anchor's firmware: AdminUploadSession and webui.cpp    *)

Resumed == IF ranging = "suspended" THEN "running" ELSE ranging

\* fail(): abort() and resume() of the flash library and the radio, once
FailSession ==
  IF adm.failed THEN UNCHANGED anchorVars
  ELSE /\ adm' = [adm EXCEPT !.active = FALSE, !.ended = FALSE, !.suspended = FALSE,
                             !.failed = TRUE]
       /\ flash' = IF adm.suspended THEN "idle" ELSE flash
       /\ ranging' = IF adm.suspended THEN Resumed ELSE ranging

\* HttpUpdateIo::suspend()
Suspends == ~busy /\ ~st.staging

Fresh == ~adm.active /\ ~adm.ended /\ ~adm.failed /\ ~adm.finalized

\* start(); begins: the flash library accepts, which it does once.
FirmwareStart(auth, begins) ==
  /\ req = "firmware" /\ file = "none"
  /\ begins => flash = "idle"
  /\ file' = "in"
  /\ LET fine == Fresh /\ auth /\ Suspends
     IN  /\ \/ ~fine /\ FailSession
            \/ /\ fine /\ ~begins
               /\ adm' = [adm EXCEPT !.failed = TRUE]
               /\ UNCHANGED <<flash, ranging>>
            \/ /\ fine /\ begins
               /\ adm' = [adm EXCEPT !.suspended = TRUE, !.active = TRUE, !.late = FALSE]
               /\ flash' = "open"
               /\ ranging' = IF ranging = "running" THEN "suspended" ELSE ranging
         /\ story' = IF story = "new" /\ auth /\ Suspends /\ begins THEN "open" ELSE "spoilt"
  /\ UNCHANGED <<req, answer, stageVars, updaterVars>>

\* write(), of some bytes or of none; ok: the flash library took them.
FirmwareWrite(auth, some, ok) ==
  /\ req = "firmware" /\ file = "in"
  /\ LET fine == auth /\ adm.active /\ ~adm.failed /\ ~adm.late /\ ok
     IN  /\ \/ ~fine /\ FailSession
            \/ /\ fine /\ adm' = [adm EXCEPT !.bytes = @ \/ some, !.late = FALSE]
               /\ UNCHANGED <<flash, ranging>>
         /\ story' = IF story \in {"open", "filled"} /\ auth /\ ~adm.late /\ ok
                     THEN (IF some THEN "filled" ELSE story) ELSE "spoilt"
  /\ UNCHANGED <<req, file, answer, stageVars, updaterVars>>

\* end()
FirmwareEnd(auth) ==
  /\ req = "firmware" /\ file = "in"
  /\ file' = "none"
  /\ LET fine == auth /\ adm.active /\ ~adm.failed /\ ~adm.late /\ adm.bytes
     IN  /\ \/ ~fine /\ FailSession
            \/ /\ fine
               /\ adm' = [adm EXCEPT !.active = FALSE, !.ended = TRUE, !.late = FALSE]
               /\ UNCHANGED <<flash, ranging>>
         /\ story' = IF story = "filled" /\ auth /\ ~adm.late THEN "closed" ELSE "spoilt"
  /\ UNCHANGED <<req, answer, stageVars, updaterVars>>

\* (bug) An upload is finished however long ago its file ended.
FinalizesLate == adm.ended /\ ~adm.failed /\ ~adm.finalized /\ ~adm.active

Finalizes == adm.ended /\ ~adm.failed /\ ~adm.finalized /\ ~adm.active /\ ~adm.late

\* handle_update_done() and finalize(); ok: the image is selected to boot.
FirmwareDone(auth, ok) ==
  /\ req = "firmware" /\ file = "none"
  /\ file' = "over"
  /\ LET fine == auth /\ Finalizes /\ ok
     IN  /\ req' = IF fine THEN "restarting" ELSE req
         /\ \/ ~fine /\ FailSession
            \/ /\ fine
               /\ adm' = [adm EXCEPT !.finalized = TRUE, !.ended = FALSE, !.suspended = FALSE]
               /\ flash' = "selected" /\ UNCHANGED ranging
         /\ answer' = IF fine THEN "ok" ELSE "failed"
         /\ story' = IF story = "closed" /\ auth /\ ~adm.late /\ ok THEN "good" ELSE "spoilt"
  /\ UNCHANGED <<stageVars, updaterVars>>

-----------------------------------------------------------------------------
(* Requests begin and end                                                  *)

\* The connection is lost within a file: the last callback of the request.
FileAborted ==
  /\ req \in {"release", "firmware"} /\ file = "in"
  /\ file' = "over" /\ story' = "spoilt"
  /\ \/ req = "release" /\ FailUpload(up) /\ UNCHANGED anchorVars
     \/ req = "firmware" /\ FailSession /\ UNCHANGED <<up, st>>
  /\ UNCHANGED <<req, answer, buf, updaterVars>>

\* clear() at both ends of an AdminUploadScope
Clear ==
  /\ adm' = NoSession
  /\ flash' = IF adm.suspended /\ ~adm.failed THEN "idle" ELSE flash
  /\ ranging' = IF adm.suspended /\ ~adm.failed THEN Resumed ELSE ranging

\* webui_loop() with a request
RequestBegins(kind) ==
  /\ req = "none"
  /\ req' = kind /\ file' = "none" /\ story' = "new" /\ answer' = "none"
  /\ up' = NoUpload /\ Clear
  /\ UNCHANGED <<st, buf, updaterVars>>

\* (bug) The stage is left as it is when the parser gives up.
RequestDropped ==
  /\ req \in {"release", "firmware"}
  /\ req' = "none" /\ file' = "none" /\ story' = "new" /\ answer' = "none"
  /\ Clear
  /\ UNCHANGED <<up, st, buf, updaterVars>>

\* update_web_request_end(), wherever the parser got to
RequestEnds ==
  /\ req \in {"release", "firmware"}
  /\ req' = "none" /\ file' = "none" /\ story' = "new" /\ answer' = "none"
  /\ st' = Aborted /\ Clear
  /\ UNCHANGED <<up, buf, updaterVars>>

TimePasses ==
  /\ \/ /\ req = "release" /\ up.started
        /\ up' = [up EXCEPT !.late = TRUE] /\ UNCHANGED adm
     \/ /\ req = "firmware"
        /\ adm.active \/ adm.ended
        /\ adm' = [adm EXCEPT !.late = TRUE] /\ UNCHANGED up
  /\ UNCHANGED <<webVars, st, buf, flash, ranging, updaterVars>>

-----------------------------------------------------------------------------
(* The rest of the main loop                                               *)

\* ArduinoOTA.handle(), from onStart() to onError()
OtaStarts ==
  /\ req = "none" /\ ~busy /\ ~st.staging
  /\ req' = "ota" /\ flash' = "open"
  /\ ranging' = IF ranging = "running" THEN "suspended" ELSE ranging
  /\ UNCHANGED <<file, story, answer, stageVars, adm, updaterVars>>

OtaFails ==
  /\ req = "ota"
  /\ req' = "none" /\ flash' = "idle" /\ ranging' = Resumed
  /\ UNCHANGED <<file, story, answer, stageVars, adm, updaterVars>>

\* maybe_start_radio()
RangingStarts ==
  /\ req = "none" /\ ranging = "off"
  /\ ranging' = "running"
  /\ UNCHANGED <<webVars, stageVars, adm, flash, updaterVars>>

\* tag_updater_queue()
QueueJob ==
  /\ req = "none" /\ ready /\ ~st.staging /\ st.valid
  /\ live' = live \union {st.staged}
  /\ UNCHANGED <<webVars, stageVars, anchorVars, busy, borrowed, ready>>

\* The loop of the controller opens a session, lends it the stage buffer for
\* the release of its job, and closes it; a job may be settled by then.
Session ==
  /\ req = "none" /\ ~st.staging
  /\ \/ ready /\ ~busy /\ busy' = TRUE /\ UNCHANGED <<live, borrowed>>
     \/ /\ ready /\ busy /\ ~borrowed /\ st.valid /\ st.staged \in live
        /\ borrowed' = TRUE /\ UNCHANGED <<live, busy>>
     \/ busy /\ busy' = FALSE /\ borrowed' = FALSE /\ live' \in SUBSET live
  /\ UNCHANGED <<webVars, stageVars, anchorVars, ready>>

\* tag_updater_cancel()
Cancel ==
  /\ req = "none" /\ ready
  /\ \E r \in live : live' = live \ {r}
  /\ UNCHANGED <<webVars, stageVars, anchorVars, busy, borrowed, ready>>

\* A save fails, or the worker, which runs beside the requests.
Disabled ==
  /\ ready /\ ready' = FALSE
  /\ UNCHANGED <<webVars, stageVars, anchorVars, live, busy, borrowed>>

\* The anchor restarts, on purpose or not: the buffer is not cleared when it
\* is allocated, and jobs that live are restored.
Restart ==
  /\ req' = "none" /\ file' = "none" /\ story' = "new" /\ answer' = "none"
  /\ up' = NoUpload /\ adm' = NoSession /\ st' = NoStage
  /\ buf' \in [1..Blocks -> Contents]
  /\ busy' = FALSE /\ borrowed' = FALSE /\ ready' = TRUE
  /\ flash' = "idle" /\ ranging' = "off"
  /\ UNCHANGED live

ReleaseRequest ==
  \E auth \in BOOLEAN :
    \/ \E what \in {"fine", "bad name", "bad manifest"}, r \in Releases :
         ReleaseStart(auth, what, r)
    \/ \E c \in Contents \union {None} : ReleaseWrite(auth, c)
    \/ ReleaseEnd(auth)
    \/ \E fields \in BOOLEAN : ReleaseDone(auth, fields)

FirmwareRequest ==
  \E auth, ok \in BOOLEAN :
    \/ FirmwareStart(auth, ok)
    \/ \E some \in BOOLEAN : FirmwareWrite(auth, some, ok)
    \/ FirmwareEnd(auth)
    \/ FirmwareDone(auth, ok)

Next ==
  \/ ReleaseRequest
  \/ FirmwareRequest
  \/ FileAborted
  \/ TimePasses
  \/ \E kind \in {"release", "firmware"} : RequestBegins(kind)
  \/ RequestEnds
  \/ OtaStarts
  \/ OtaFails
  \/ RangingStarts
  \/ QueueJob
  \/ Session
  \/ Cancel
  \/ Disabled
  \/ Restart

Spec == Init /\ [][Next]_vars

-----------------------------------------------------------------------------
(* Properties                                                              *)

\* Every variable has its type; no more is received than was announced.
TypeOK ==
  /\ req \in {"none", "release", "firmware", "ota", "restarting"} /\ file \in {"none", "in", "over"}
  /\ up \in Upload /\ adm \in AdminSession /\ st \in Stage
  /\ buf \in [1..Blocks -> Contents]
  /\ live \subseteq Releases /\ {busy, borrowed, ready} \subseteq BOOLEAN
  /\ flash \in {"idle", "open", "selected"} /\ ranging \in {"off", "running", "suspended"}
  /\ story \in {"new", "open", "filled", "closed", "spoilt", "good"}
  /\ answer \in {"none", "ok", "failed"}

\* What counts as staged, or is being read by a session, is in the buffer, every
\* block of it, however many uploads started to overwrite it.
StagedIsWhole == st.valid \/ borrowed => \A i \in 1..Blocks : buf[i] = st.staged

\* A staged release that a live job needs stays, however many uploads are
\* tried, refused or broken off; only a restart loses it.
LiveKeepsRelease ==
  [][st.valid /\ st.staged \in live =>
       (st'.valid /\ st'.staged = st.staged) \/ st' = NoStage]_vars

\* A stage is only open while its request lasts, the spare partition taken and
\* the radio stopped only while somebody writes the firmware, and never beside
\* a session of a tag: however a request ends - the parser may call nobody.
NothingLeftOpen ==
  /\ st.staging \/ st.active => req = "release" /\ ~busy
  /\ flash = "open" => req \in {"firmware", "ota"} /\ ~busy
  /\ ranging = "suspended" => req \in {"firmware", "ota", "restarting"} /\ ~busy

\* An upload is accepted exactly if it was one file, complete, in time, with
\* every callback authorised; then the image is the one to boot, or staged.
AnswerIsTrue ==
  /\ answer # "none" => (answer = "ok" <=> story = "good")
  /\ flash = "selected" <=> answer = "ok" /\ req = "restarting"

=============================================================================
