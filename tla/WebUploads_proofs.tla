--------------------------- MODULE WebUploads_proofs ---------------------------
(***************************************************************************)
(* Proofs about WebUploads: for any releases and any size of an image, what *)
(* counts as staged is whole, nothing stays open behind a request, and an  *)
(* upload is answered as it went.                                          *)
(***************************************************************************)
EXTENDS WebUploads, TLAPS

-----------------------------------------------------------------------------
(* The inductive invariant                                                 *)

\* The glue and the storage agree about a stage that is open; while it is,
\* nothing counts as staged.  Only a session borrows the buffer.
StageHeld ==
  /\ st.staging <=> st.active
  /\ st.staging => ~st.valid /\ st.receiving \in Releases
  /\ st.valid => st.staged \in Releases
  /\ borrowed => busy

\* The session of an upload has suspended ranging, and has the spare partition
\* open, from its start to its end, and nothing else has within its request.
PartitionHeld ==
  /\ adm.suspended <=> adm.active \/ adm.ended
  /\ ~(adm.active /\ adm.ended)
  /\ adm.suspended => req = "firmware" /\ flash = "open" /\ ~adm.failed /\ ~adm.finalized
  /\ req = "firmware" /\ (flash = "open" \/ ranging = "suspended") => adm.suspended

\* A request is answered when its file is over; only a firmware that was
\* accepted makes the anchor restart.
Answered ==
  /\ req \in {"none", "ota"} => answer = "none"
  /\ req = "restarting" => answer = "ok"
  /\ answer # "none" => file = "over"

\* The flags of the upload of a release tell how it went.
ReleaseTold ==
  req = "release" =>
    /\ file = "in" =>
         /\ story \in {"open", "spoilt"}
         /\ story = "open" => up.started /\ ~up.ended /\ ~up.failed /\ st.staging
    /\ file = "none" =>
         /\ story \in {"new", "closed", "spoilt"}
         /\ story = "new" => ~up.started /\ ~up.ended /\ ~up.failed /\ ~st.staging
         /\ story = "closed" => up.started /\ up.ended /\ ~up.failed /\ st.staging
    /\ story = "spoilt" /\ file # "over" => up.failed

\* So do those of the upload of the anchor's firmware.
FirmwareTold ==
  req = "firmware" =>
    /\ file = "in" =>
         /\ story \in {"open", "filled", "spoilt"}
         /\ story # "spoilt" => adm.active /\ (adm.bytes <=> story = "filled")
    /\ file = "none" =>
         /\ story \in {"new", "closed", "spoilt"}
         /\ story = "new" => Fresh /\ ~adm.bytes
         /\ story = "closed" => adm.ended
    /\ story = "spoilt" /\ file # "over" => adm.failed

IInv ==
  /\ TypeOK /\ StagedIsWhole /\ NothingLeftOpen /\ AnswerIsTrue
  /\ StageHeld /\ PartitionHeld /\ Answered /\ ReleaseTold /\ FirmwareTold

-----------------------------------------------------------------------------
(* The parts of the state                                                  *)

\* An image has a block at least.
LEMMA Sizes == Blocks \in Nat /\ 0 \in 0..Blocks
  BY UploadAssumption DEF UploadAssumption

\* The anchor starts with nothing open.
LEMMA InitHolds == ASSUME Init PROVE IInv
<1>1. TypeOK
  <2>1. 0 \in 0..Blocks
    BY Sizes
  <2>2. up \in Upload /\ adm \in AdminSession /\ st \in Stage
    BY <2>1, Zenon DEF Init, Upload, AdminSession, Stage, NoUpload, NoSession, NoStage
  <2>3. QED
    BY <2>2 DEF Init, TypeOK
<1>2. ~st.staging /\ ~st.active /\ ~st.valid
  BY DEF Init, NoStage
<1>3. ~adm.active /\ ~adm.suspended /\ ~adm.ended
  BY DEF Init, NoSession
<1>4. QED
  BY <1>1, <1>2, <1>3 DEF Init, IInv, StagedIsWhole, NothingLeftOpen, AnswerIsTrue, StageHeld,
     PartitionHeld, Answered, ReleaseTold, FirmwareTold

\* An aborted stage is closed, and what counts as staged does so still.
LEMMA AbortedCloses ==
  ASSUME IInv
  PROVE  /\ Aborted \in Stage /\ ~Aborted.staging /\ ~Aborted.active
         /\ Aborted.staged = st.staged /\ (Aborted.valid => st.valid)
         /\ ~st.staging => Aborted = st
<1>1. st \in Stage /\ 0 \in 0..Blocks
  BY Sizes DEF IInv, TypeOK
<1>2. CASE ~st.staging
  BY <1>1, <1>2 DEF Aborted, IInv, StageHeld
<1>3. CASE st.staging
  <2>1. ~borrowed
    BY <1>3 DEF IInv, StageHeld, NothingLeftOpen
  <2>2. Aborted = [st EXCEPT !.staging = FALSE, !.active = FALSE, !.valid = FALSE, !.received = 0]
    BY <1>3, <2>1 DEF Aborted
  <2>3. Aborted \in Stage
    BY <1>1, <2>2, Zenon DEF Stage
  <2>4. QED
    BY <1>1, <1>3, <2>2, <2>3 DEF Stage
<1>4. QED
  BY <1>2, <1>3

\* A refused callback spoils the upload and leaves the anchor's side alone.
LEMMA FailUploadCloses ==
  ASSUME IInv, NEW u \in Upload, FailUpload(u)
  PROVE  /\ up' \in Upload /\ up'.failed
         /\ st' \in Stage /\ ~st'.staging /\ ~st'.active
         /\ st'.staged = st.staged /\ (st'.valid => st.valid)
<1>1. up' = [u EXCEPT !.failed = TRUE] /\ st' = Aborted
  BY DEF FailUpload
<1>2. up' \in Upload /\ up'.failed
  BY <1>1, Zenon DEF Upload
<1>3. QED
  BY <1>1, <1>2, AbortedCloses

\* What a callback of the upload of a release has to keep.
LEMMA ReleaseKeeps ==
  ASSUME IInv, req = "release", answer = "none",
         UNCHANGED <<req, answer, anchorVars, updaterVars>>,
         file' \in {"none", "in", "over"}, story' \in {"new", "open", "closed", "spoilt"},
         up' \in Upload, st' \in Stage, buf' \in [1..Blocks -> Contents],
         st'.staging => ~busy, StageHeld', StagedIsWhole', ReleaseTold'
  PROVE  IInv'
<1>1. TypeOK'
  BY DEF IInv, TypeOK, anchorVars, updaterVars
<1>2. NothingLeftOpen'
  BY DEF IInv, NothingLeftOpen, StageHeld, anchorVars, updaterVars
<1>3. AnswerIsTrue' /\ Answered' /\ PartitionHeld' /\ FirmwareTold'
  BY DEF IInv, AnswerIsTrue, Answered, PartitionHeld, FirmwareTold, anchorVars, updaterVars
<1>4. QED
  BY <1>1, <1>2, <1>3 DEF IInv

\* So does a callback that is refused.
LEMMA RefusedKeeps ==
  ASSUME IInv, req = "release", answer = "none",
         UNCHANGED <<req, answer, buf, anchorVars, updaterVars>>,
         file' \in {"none", "in", "over"}, story' = "spoilt",
         NEW u \in Upload, FailUpload(u)
  PROVE  IInv'
<1>1. /\ up' \in Upload /\ up'.failed
      /\ st' \in Stage /\ ~st'.staging /\ ~st'.active
      /\ st'.staged = st.staged /\ (st'.valid => st.valid)
  BY FailUploadCloses
<1>2. buf' \in [1..Blocks -> Contents]
  BY DEF IInv, TypeOK
<1>3. StageHeld' /\ StagedIsWhole' /\ ReleaseTold'
  BY <1>1 DEF IInv, StageHeld, StagedIsWhole, ReleaseTold, updaterVars
<1>4. QED
  BY <1>1, <1>2, <1>3, ReleaseKeeps

-----------------------------------------------------------------------------
(* The upload of a release                                                 *)

\* upload(), UPLOAD_FILE_START: only a manifest that may be staged opens a stage.
LEMMA ReleaseStartKeeps ==
  ASSUME IInv, NEW auth \in BOOLEAN, NEW what \in {"fine", "bad name", "bad manifest"},
         NEW r \in Releases, ReleaseStart(auth, what, r)
  PROVE  IInv'
<1> DEFINE u == [up EXCEPT !.started = TRUE]
<1>1. /\ req = "release" /\ file = "none" /\ file' = "in" /\ answer = "none"
      /\ UNCHANGED <<req, answer, buf, anchorVars, updaterVars>>
      /\ buf \in [1..Blocks -> Contents] /\ up \in Upload /\ st \in Stage
  BY DEF ReleaseStart, IInv, TypeOK, Answered
<1>2. u \in Upload /\ u.started /\ u.ended = up.ended /\ u.failed = up.failed
  BY <1>1, Zenon DEF Upload
<1> HIDE DEF u
<1>3. \/ (~auth \/ up.started \/ what = "bad name") /\ FailUpload(up)
      \/ /\ auth /\ ~up.started
         /\ what = "bad manifest" \/ (what = "fine" /\ ~CanStage)
         /\ FailUpload(u)
      \/ auth /\ ~up.started /\ what = "fine" /\ CanStage /\ up' = u /\ st' = Begun(r)
  BY DEF ReleaseStart, u
<1>4. story' = IF story = "new" /\ auth /\ what = "fine" /\ CanStage THEN "open" ELSE "spoilt"
  BY DEF ReleaseStart
<1>5. story = "new" => ~up.started /\ ~up.ended /\ ~up.failed
  BY <1>1 DEF IInv, ReleaseTold
<1>6. CASE FailUpload(up) /\ (~auth \/ up.started \/ what = "bad name")
  BY <1>1, <1>4, <1>5, <1>6, RefusedKeeps
<1>7. CASE (FailUpload(u) /\ what = "bad manifest") \/ (what = "fine" /\ ~CanStage /\ FailUpload(u))
  BY <1>1, <1>2, <1>4, <1>7, RefusedKeeps
<1>8. CASE auth /\ ~up.started /\ what = "fine" /\ CanStage /\ up' = u /\ st' = Begun(r)
  <2>1. /\ st' \in Stage /\ st'.staging /\ st'.active /\ ~st'.valid /\ st'.receiving = r
    <3>1. 0 \in 0..Blocks
      BY Sizes
    <3>2. QED
      BY <1>1, <1>8, <3>1, Zenon DEF Begun, Stage
  <2>2. ~busy /\ ~borrowed
    BY <1>8 DEF CanStage
  <2>3. StageHeld' /\ StagedIsWhole'
    BY <1>1, <2>1, <2>2 DEF StageHeld, StagedIsWhole, updaterVars
  <2>4. story = "spoilt" \/ story = "closed" => up.failed \/ up.started
    BY <1>1 DEF IInv, ReleaseTold
  <2>5. ReleaseTold'
    BY <1>1, <1>2, <1>4, <1>5, <1>8, <2>1, <2>4 DEF IInv, ReleaseTold
  <2>6. QED
    BY <1>1, <1>2, <1>4, <1>8, <2>1, <2>2, <2>3, <2>5, ReleaseKeeps
<1>9. QED
  BY <1>3, <1>6, <1>7, <1>8

\* upload(), UPLOAD_FILE_WRITE: a block goes into a buffer that nothing relies on.
LEMMA ReleaseWriteKeeps ==
  ASSUME IInv, NEW auth \in BOOLEAN, NEW c \in Contents \union {None}, ReleaseWrite(auth, c)
  PROVE  IInv'
<1> DEFINE taken == c = None \/ Room
           fine == auth /\ ~up.failed /\ up.started /\ ~up.ended /\ ~up.late /\ st.active /\ taken
<1>1. /\ req = "release" /\ file = "in" /\ file' = "in" /\ answer = "none"
      /\ UNCHANGED <<req, answer, anchorVars, updaterVars>>
      /\ buf \in [1..Blocks -> Contents] /\ up \in Upload /\ st \in Stage
  BY DEF ReleaseWrite, IInv, TypeOK, Answered
<1>2. story' = IF story = "open" /\ auth /\ ~up.late /\ taken THEN "open" ELSE "spoilt"
  BY DEF ReleaseWrite
<1>3. story # "open" => up.failed
  BY <1>1 DEF IInv, ReleaseTold
<1>4. story = "open" => up.started /\ ~up.ended /\ ~up.failed /\ st.staging /\ st.active
  BY <1>1 DEF IInv, ReleaseTold, StageHeld
<1>5. \/ auth /\ up.failed /\ UNCHANGED stageVars
      \/ fine /\ c = None /\ UNCHANGED stageVars
      \/ /\ fine /\ c # None
         /\ buf' = [buf EXCEPT ![st.received + 1] = c]
         /\ st' = [st EXCEPT !.received = @ + 1]
         /\ UNCHANGED up
      \/ ~fine /\ ~(auth /\ up.failed) /\ FailUpload(up) /\ UNCHANGED buf
  BY Zenon DEF ReleaseWrite
<1>6. CASE UNCHANGED stageVars /\ (up.failed \/ fine)
  <2>1. st' = st /\ up' = up /\ buf' = buf
    BY <1>6 DEF stageVars
  <2>2. StageHeld' /\ StagedIsWhole' /\ (st'.staging => ~busy)
    BY <1>1, <2>1 DEF IInv, StageHeld, StagedIsWhole, NothingLeftOpen, updaterVars
  <2>3. story' \in {"open", "spoilt"} /\ (story' = "open" => story = "open")
        /\ (story' = "spoilt" => up.failed)
    BY <1>2, <1>3, <1>6
  <2>4. ReleaseTold'
    BY <1>1, <1>4, <2>1, <2>3 DEF ReleaseTold
  <2>5. QED
    BY <1>1, <2>1, <2>2, <2>3, <2>4, ReleaseKeeps
<1>7. CASE /\ fine /\ c # None
           /\ buf' = [buf EXCEPT ![st.received + 1] = c]
           /\ st' = [st EXCEPT !.received = @ + 1]
           /\ UNCHANGED up
  <2>1. Room /\ st.received \in 0..Blocks /\ Blocks \in Nat
    BY <1>1, <1>7, Sizes DEF Stage
  <2>2. st.received + 1 \in 0..Blocks /\ st.received + 1 \in 1..Blocks
    BY <2>1 DEF Room
  <2>3. /\ st' \in Stage /\ st'.staging = st.staging /\ st'.active = st.active
        /\ st'.valid = st.valid /\ st'.staged = st.staged /\ st'.receiving = st.receiving
    BY <1>1, <1>7, <2>2, Zenon DEF Stage
  <2>4. buf' \in [1..Blocks -> Contents]
    BY <1>1, <1>7, <2>2
  <2>5. ~borrowed /\ ~st.valid /\ st.staging /\ ~busy
    BY <2>1 DEF Room, IInv, StageHeld, NothingLeftOpen
  <2>6. StageHeld' /\ StagedIsWhole'
    BY <1>1, <2>3, <2>5 DEF IInv, StageHeld, StagedIsWhole, updaterVars
  <2>7. story' = "open" /\ story = "open"
    BY <1>2, <1>3, <1>7
  <2>8. ReleaseTold'
    BY <1>1, <1>4, <1>7, <2>3, <2>5, <2>7 DEF ReleaseTold
  <2>9. QED
    BY <1>1, <1>7, <2>3, <2>4, <2>5, <2>6, <2>7, <2>8, ReleaseKeeps
<1>8. CASE ~fine /\ ~(auth /\ up.failed) /\ FailUpload(up) /\ UNCHANGED buf
  <2>1. story' = "spoilt"
    BY <1>2, <1>4, <1>8
  <2>2. QED
    BY <1>1, <1>8, <2>1, RefusedKeeps
<1>9. QED
  BY <1>5, <1>6, <1>7, <1>8

\* upload(), UPLOAD_FILE_END
LEMMA ReleaseEndKeeps ==
  ASSUME IInv, NEW auth \in BOOLEAN, ReleaseEnd(auth)
  PROVE  IInv'
<1> DEFINE u == [up EXCEPT !.ended = TRUE]
<1>1. /\ req = "release" /\ file = "in" /\ file' = "none" /\ answer = "none"
      /\ UNCHANGED <<req, answer, buf, anchorVars, updaterVars>>
      /\ buf \in [1..Blocks -> Contents] /\ up \in Upload /\ st \in Stage
  BY DEF ReleaseEnd, IInv, TypeOK, Answered
<1>2. u \in Upload /\ u.ended /\ u.started = up.started /\ u.failed = up.failed
  BY <1>1, Zenon DEF Upload
<1> HIDE DEF u
<1>3. \/ ~auth /\ FailUpload(up)
      \/ auth /\ (~up.started \/ up.ended) /\ FailUpload(u)
      \/ auth /\ up.started /\ ~up.ended /\ up' = u /\ UNCHANGED st
  BY DEF ReleaseEnd, u
<1>4. story' = IF story = "open" /\ auth THEN "closed" ELSE "spoilt"
  BY DEF ReleaseEnd
<1>5. /\ story # "open" => up.failed
      /\ story = "open" => up.started /\ ~up.ended /\ ~up.failed /\ st.staging
  BY <1>1 DEF IInv, ReleaseTold
<1>6. CASE ~auth /\ FailUpload(up)
  BY <1>1, <1>4, <1>6, RefusedKeeps
<1>7. CASE auth /\ (~up.started \/ up.ended) /\ FailUpload(u)
  BY <1>1, <1>2, <1>4, <1>5, <1>7, RefusedKeeps
<1>8. CASE auth /\ up.started /\ ~up.ended /\ up' = u /\ UNCHANGED st
  <2>1. StageHeld' /\ StagedIsWhole' /\ (st'.staging => ~busy)
    BY <1>1, <1>8 DEF IInv, StageHeld, StagedIsWhole, NothingLeftOpen, updaterVars
  <2>2. ReleaseTold'
    BY <1>1, <1>2, <1>4, <1>5, <1>8 DEF ReleaseTold
  <2>3. QED
    BY <1>1, <1>2, <1>4, <1>8, <2>1, <2>2, ReleaseKeeps
<1>9. QED
  BY <1>3, <1>6, <1>7, <1>8

\* uploaded(): the answer is that of stage_finish().
LEMMA ReleaseDoneKeeps ==
  ASSUME IInv, NEW auth \in BOOLEAN, NEW fields \in BOOLEAN, ReleaseDone(auth, fields)
  PROVE  IInv'
<1> DEFINE fine == auth /\ up.started /\ up.ended /\ ~up.failed /\ fields /\ ~up.late
<1>1. /\ req = "release" /\ file = "none" /\ file' = "over" /\ answer = "none"
      /\ UNCHANGED <<req, up, buf, anchorVars, updaterVars>>
      /\ buf \in [1..Blocks -> Contents] /\ up \in Upload /\ st \in Stage
  BY DEF ReleaseDone, IInv, TypeOK, Answered
<1>2. /\ st' = IF fine /\ st.staging THEN Finished ELSE Aborted
      /\ answer' = IF fine /\ st.staging /\ st'.valid THEN "ok" ELSE "failed"
      /\ story' = IF story = "closed" /\ auth /\ fields /\ ~up.late /\ Whole
                  THEN "good" ELSE "spoilt"
  BY DEF ReleaseDone
<1>3. /\ story = "closed" <=> up.started /\ up.ended /\ ~up.failed
      /\ story = "closed" => st.staging
  BY <1>1 DEF IInv, ReleaseTold
<1>4. st.staging => st.active /\ ~borrowed /\ ~busy
  BY DEF IInv, StageHeld, NothingLeftOpen
<1>5. /\ st' \in Stage /\ ~st'.staging /\ ~st'.active
      /\ st'.valid \/ borrowed => \A i \in 1..Blocks : buf[i] = st'.staged
      /\ fine /\ st.staging => (st'.valid <=> Whole)
      /\ st'.valid => st'.staged \in Releases
  <2>1. CASE ~(fine /\ st.staging)
    BY <1>2, <2>1, AbortedCloses DEF IInv, StagedIsWhole, StageHeld
  <2>2. CASE fine /\ st.staging /\ Whole
    <3>1. st' = [st EXCEPT !.staging = FALSE, !.active = FALSE, !.received = 0,
                           !.staged = st.receiving, !.valid = TRUE]
      BY <1>2, <1>4, <2>2 DEF Finished
    <3>2. 0 \in 0..Blocks
      BY Sizes
    <3>3. /\ st' \in Stage /\ ~st'.staging /\ ~st'.active
          /\ st'.valid /\ st'.staged = st.receiving
      BY <1>1, <3>1, <3>2, Zenon DEF Stage
    <3>4. QED
      BY <2>2, <3>3 DEF Whole, IInv, StageHeld
  <2>3. CASE fine /\ st.staging /\ ~Whole
    <3>1. st' = [st EXCEPT !.staging = FALSE, !.active = FALSE, !.received = 0, !.valid = FALSE]
      BY <1>2, <2>3 DEF Finished
    <3>2. 0 \in 0..Blocks
      BY Sizes
    <3>3. st' \in Stage /\ ~st'.staging /\ ~st'.active /\ ~st'.valid
      BY <1>1, <3>1, <3>2, Zenon DEF Stage
    <3>4. QED
      BY <1>4, <2>3, <3>3
  <2>4. QED
    BY <2>1, <2>2, <2>3
<1>6. TypeOK'
  BY <1>1, <1>2, <1>5 DEF IInv, TypeOK, anchorVars, updaterVars
<1>7. StagedIsWhole' /\ StageHeld'
  BY <1>1, <1>5 DEF IInv, StagedIsWhole, StageHeld, updaterVars
<1>8. NothingLeftOpen' /\ PartitionHeld'
  BY <1>1, <1>5 DEF IInv, NothingLeftOpen, PartitionHeld, anchorVars, updaterVars
<1>9. AnswerIsTrue'
  <2>1. answer' \in {"ok", "failed"} /\ (answer' = "ok" <=> story' = "good")
    BY <1>2, <1>3, <1>5
  <2>2. QED
    BY <1>1, <2>1 DEF IInv, AnswerIsTrue, anchorVars
<1>10. Answered' /\ ReleaseTold' /\ FirmwareTold'
  BY <1>1 DEF Answered, ReleaseTold, FirmwareTold
<1>11. QED
  BY <1>6, <1>7, <1>8, <1>9, <1>10 DEF IInv

-----------------------------------------------------------------------------
(* The upload of the anchor's firmware                                     *)

\* A session fails once, and leaves nothing suspended or open behind.
LEMMA FailSessionCloses ==
  ASSUME IInv, req = "firmware", FailSession
  PROVE  /\ adm' \in AdminSession /\ adm'.failed
         /\ ~adm'.active /\ ~adm'.ended /\ ~adm'.suspended
         /\ flash' \in {"idle", "open", "selected"} /\ flash' # "open"
         /\ flash' = "selected" => flash = "selected"
         /\ ranging' \in {"off", "running"}
<1>1. adm \in AdminSession /\ req # "restarting"
  BY DEF IInv, TypeOK
<1>2. CASE adm.failed
  <2>1. UNCHANGED anchorVars
    BY <1>2 DEF FailSession
  <2>2. ~adm.suspended /\ ~adm.active /\ ~adm.ended
    BY <1>2 DEF IInv, PartitionHeld
  <2>3. flash # "open" /\ ranging # "suspended"
    BY <2>2 DEF IInv, PartitionHeld
  <2>4. QED
    BY <1>1, <1>2, <2>1, <2>2, <2>3 DEF IInv, TypeOK, anchorVars
<1>3. CASE ~adm.failed
  <2>1. /\ adm' = [adm EXCEPT !.active = FALSE, !.ended = FALSE, !.suspended = FALSE,
                              !.failed = TRUE]
        /\ flash' = IF adm.suspended THEN "idle" ELSE flash
        /\ ranging' = IF adm.suspended THEN Resumed ELSE ranging
    BY <1>3 DEF FailSession
  <2>2. /\ adm' \in AdminSession /\ adm'.failed
        /\ ~adm'.active /\ ~adm'.ended /\ ~adm'.suspended
    BY <1>1, <2>1, Zenon DEF AdminSession
  <2>3. QED
    BY <2>1, <2>2 DEF IInv, TypeOK, PartitionHeld, Resumed
<1>4. QED
  BY <1>2, <1>3

\* What a callback of the upload of the firmware has to keep.
LEMMA FirmwareKeeps ==
  ASSUME IInv, req = "firmware", answer = "none",
         UNCHANGED <<req, answer, stageVars, updaterVars>>,
         file' \in {"none", "in", "over"},
         story' \in {"new", "open", "filled", "closed", "spoilt"},
         adm' \in AdminSession, flash' \in {"idle", "open"},
         ranging' \in {"off", "running", "suspended"},
         flash' = "open" \/ ranging' = "suspended" => ~busy,
         PartitionHeld', FirmwareTold'
  PROVE  IInv'
<1>1. TypeOK'
  BY DEF IInv, TypeOK, stageVars, updaterVars
<1>2. NothingLeftOpen'
  BY DEF IInv, NothingLeftOpen, stageVars, updaterVars
<1>3. StagedIsWhole' /\ AnswerIsTrue' /\ Answered' /\ StageHeld' /\ ReleaseTold'
  BY DEF IInv, StagedIsWhole, AnswerIsTrue, Answered, StageHeld, ReleaseTold, stageVars,
     updaterVars
<1>4. QED
  BY <1>1, <1>2, <1>3 DEF IInv

\* The flash library is not at the end of an upload while a request goes on.
LEMMA NotSelected == ASSUME IInv, req # "restarting" PROVE flash \in {"idle", "open"}
  BY DEF IInv, TypeOK, AnswerIsTrue

\* So does a callback that fails.
LEMMA FailedKeeps ==
  ASSUME IInv, req = "firmware", answer = "none", FailSession,
         UNCHANGED <<req, answer, stageVars, updaterVars>>,
         file' \in {"none", "in", "over"}, story' = "spoilt"
  PROVE  IInv'
<1>1. /\ adm' \in AdminSession /\ adm'.failed
      /\ ~adm'.active /\ ~adm'.ended /\ ~adm'.suspended
      /\ flash' = "idle" /\ ranging' \in {"off", "running"}
  BY FailSessionCloses, NotSelected
<1>2. PartitionHeld' /\ FirmwareTold'
  BY <1>1 DEF PartitionHeld, FirmwareTold
<1>3. QED
  BY <1>1, <1>2, FirmwareKeeps

\* AdminUploadSession::start()
LEMMA FirmwareStartKeeps ==
  ASSUME IInv, NEW auth \in BOOLEAN, NEW begins \in BOOLEAN, FirmwareStart(auth, begins)
  PROVE  IInv'
<1> DEFINE fine == Fresh /\ auth /\ Suspends
<1>1. /\ req = "firmware" /\ file = "none" /\ file' = "in" /\ answer = "none"
      /\ UNCHANGED <<req, answer, stageVars, updaterVars>>
      /\ adm \in AdminSession
  BY DEF FirmwareStart, IInv, TypeOK, Answered
<1>2. story' = IF story = "new" /\ auth /\ Suspends /\ begins THEN "open" ELSE "spoilt"
  BY DEF FirmwareStart
<1>3. \/ ~fine /\ FailSession
      \/ fine /\ ~begins /\ adm' = [adm EXCEPT !.failed = TRUE] /\ UNCHANGED <<flash, ranging>>
      \/ /\ fine /\ begins
         /\ adm' = [adm EXCEPT !.suspended = TRUE, !.active = TRUE, !.late = FALSE]
         /\ flash' = "open"
         /\ ranging' = IF ranging = "running" THEN "suspended" ELSE ranging
  BY DEF FirmwareStart
<1>4. /\ story \in {"new", "closed", "spoilt"}
      /\ story = "new" => Fresh /\ ~adm.bytes
      /\ story = "closed" => adm.ended
      /\ story = "spoilt" => adm.failed
  BY <1>1 DEF IInv, FirmwareTold
<1>5. CASE ~fine /\ FailSession
  BY <1>1, <1>2, <1>4, <1>5, FailedKeeps
<1>6. CASE fine /\ ~begins /\ adm' = [adm EXCEPT !.failed = TRUE] /\ UNCHANGED <<flash, ranging>>
  <2>1. ~adm.active /\ ~adm.ended /\ ~adm.suspended
    BY <1>6 DEF Fresh, IInv, PartitionHeld
  <2>2. /\ adm' \in AdminSession /\ adm'.failed
        /\ ~adm'.active /\ ~adm'.ended /\ ~adm'.suspended
    BY <1>1, <1>6, <2>1, Zenon DEF AdminSession
  <2>3. flash = "idle" /\ ranging \in {"off", "running"}
    BY <1>1, <2>1, NotSelected DEF IInv, TypeOK, PartitionHeld
  <2>4. PartitionHeld' /\ FirmwareTold'
    BY <1>1, <1>2, <1>6, <2>2, <2>3 DEF PartitionHeld, FirmwareTold
  <2>5. QED
    BY <1>1, <1>2, <1>6, <2>2, <2>3, <2>4, FirmwareKeeps
<1>7. CASE /\ fine /\ begins
           /\ adm' = [adm EXCEPT !.suspended = TRUE, !.active = TRUE, !.late = FALSE]
           /\ flash' = "open"
           /\ ranging' = IF ranging = "running" THEN "suspended" ELSE ranging
  <2>1. /\ adm' \in AdminSession /\ adm'.suspended /\ adm'.active
        /\ adm'.ended = adm.ended /\ adm'.failed = adm.failed
        /\ adm'.finalized = adm.finalized /\ adm'.bytes = adm.bytes
    BY <1>1, <1>7, Zenon DEF AdminSession
  <2>2. ~adm.ended /\ ~adm.failed /\ ~adm.finalized /\ story = "new"
    BY <1>4, <1>7 DEF Fresh
  <2>3. ~busy /\ story' = "open" /\ ~adm.bytes
    BY <1>2, <1>4, <1>7, <2>2 DEF Suspends
  <2>4. PartitionHeld' /\ FirmwareTold'
    BY <1>1, <1>7, <2>1, <2>2, <2>3 DEF PartitionHeld, FirmwareTold
  <2>5. ranging' \in {"off", "running", "suspended"}
    BY <1>7 DEF IInv, TypeOK
  <2>6. QED
    BY <1>1, <1>7, <2>1, <2>3, <2>4, <2>5, FirmwareKeeps
<1>8. QED
  BY <1>3, <1>5, <1>6, <1>7

\* AdminUploadSession::write()
LEMMA FirmwareWriteKeeps ==
  ASSUME IInv, NEW auth \in BOOLEAN, NEW some \in BOOLEAN, NEW ok \in BOOLEAN,
         FirmwareWrite(auth, some, ok)
  PROVE  IInv'
<1> DEFINE fine == auth /\ adm.active /\ ~adm.failed /\ ~adm.late /\ ok
<1>1. /\ req = "firmware" /\ file = "in" /\ file' = "in" /\ answer = "none"
      /\ UNCHANGED <<req, answer, stageVars, updaterVars>>
      /\ adm \in AdminSession
  BY DEF FirmwareWrite, IInv, TypeOK, Answered
<1>2. story' = IF story \in {"open", "filled"} /\ auth /\ ~adm.late /\ ok
               THEN (IF some THEN "filled" ELSE story) ELSE "spoilt"
  BY DEF FirmwareWrite
<1>3. \/ ~fine /\ FailSession
      \/ /\ fine /\ adm' = [adm EXCEPT !.bytes = @ \/ some, !.late = FALSE]
         /\ UNCHANGED <<flash, ranging>>
  BY DEF FirmwareWrite
<1>4. /\ story \in {"open", "filled", "spoilt"}
      /\ story # "spoilt" => adm.active /\ (adm.bytes <=> story = "filled")
      /\ story = "spoilt" => adm.failed
  BY <1>1 DEF IInv, FirmwareTold
<1>5. adm.active => adm.suspended /\ ~adm.failed
  BY DEF IInv, PartitionHeld
<1>6. CASE ~fine /\ FailSession
  <2>1. story' = "spoilt"
    BY <1>2, <1>4, <1>5, <1>6
  <2>2. QED
    BY <1>1, <1>6, <2>1, FailedKeeps
<1>7. CASE /\ fine /\ adm' = [adm EXCEPT !.bytes = @ \/ some, !.late = FALSE]
           /\ UNCHANGED <<flash, ranging>>
  <2>1. /\ adm' \in AdminSession /\ adm'.active = adm.active
        /\ adm'.suspended = adm.suspended /\ adm'.ended = adm.ended
        /\ adm'.failed = adm.failed /\ adm'.finalized = adm.finalized
        /\ adm'.bytes <=> adm.bytes \/ some
    BY <1>1, <1>7, Zenon DEF AdminSession
  <2>2. /\ story' \in {"open", "filled"}
        /\ story' = "filled" <=> adm.bytes \/ some
    BY <1>2, <1>4, <1>7
  <2>3. PartitionHeld' /\ FirmwareTold'
    BY <1>1, <1>7, <2>1, <2>2 DEF IInv, PartitionHeld, FirmwareTold
  <2>4. flash \in {"idle", "open"} /\ ranging \in {"off", "running", "suspended"} /\ ~busy
    BY <1>1, <1>5, <1>7, NotSelected DEF IInv, TypeOK, NothingLeftOpen, PartitionHeld
  <2>5. QED
    BY <1>1, <1>7, <2>1, <2>2, <2>3, <2>4, FirmwareKeeps
<1>8. QED
  BY <1>3, <1>6, <1>7

\* AdminUploadSession::end()
LEMMA FirmwareEndKeeps ==
  ASSUME IInv, NEW auth \in BOOLEAN, FirmwareEnd(auth)
  PROVE  IInv'
<1> DEFINE fine == auth /\ adm.active /\ ~adm.failed /\ ~adm.late /\ adm.bytes
<1>1. /\ req = "firmware" /\ file = "in" /\ file' = "none" /\ answer = "none"
      /\ UNCHANGED <<req, answer, stageVars, updaterVars>>
      /\ adm \in AdminSession
  BY DEF FirmwareEnd, IInv, TypeOK, Answered
<1>2. story' = IF story = "filled" /\ auth /\ ~adm.late THEN "closed" ELSE "spoilt"
  BY DEF FirmwareEnd
<1>3. \/ ~fine /\ FailSession
      \/ /\ fine /\ adm' = [adm EXCEPT !.active = FALSE, !.ended = TRUE, !.late = FALSE]
         /\ UNCHANGED <<flash, ranging>>
  BY DEF FirmwareEnd
<1>4. /\ story \in {"open", "filled", "spoilt"}
      /\ story # "spoilt" => adm.active /\ (adm.bytes <=> story = "filled")
      /\ story = "spoilt" => adm.failed
  BY <1>1 DEF IInv, FirmwareTold
<1>5. adm.active => adm.suspended /\ ~adm.failed
  BY DEF IInv, PartitionHeld
<1>6. CASE ~fine /\ FailSession
  <2>1. story' = "spoilt"
    BY <1>2, <1>4, <1>5, <1>6
  <2>2. QED
    BY <1>1, <1>6, <2>1, FailedKeeps
<1>7. CASE /\ fine /\ adm' = [adm EXCEPT !.active = FALSE, !.ended = TRUE, !.late = FALSE]
           /\ UNCHANGED <<flash, ranging>>
  <2>1. /\ adm' \in AdminSession /\ ~adm'.active /\ adm'.ended
        /\ adm'.suspended = adm.suspended
        /\ adm'.failed = adm.failed /\ adm'.finalized = adm.finalized
    BY <1>1, <1>7, Zenon DEF AdminSession
  <2>2. story' = "closed" /\ adm.suspended
    BY <1>2, <1>4, <1>5, <1>7
  <2>3. PartitionHeld' /\ FirmwareTold'
    BY <1>1, <1>7, <2>1, <2>2 DEF IInv, PartitionHeld, FirmwareTold
  <2>4. flash \in {"idle", "open"} /\ ranging \in {"off", "running", "suspended"} /\ ~busy
    BY <1>1, <2>2, NotSelected DEF IInv, TypeOK, NothingLeftOpen, PartitionHeld
  <2>5. QED
    BY <1>1, <1>7, <2>1, <2>2, <2>3, <2>4, FirmwareKeeps
<1>8. QED
  BY <1>3, <1>6, <1>7

\* AdminUploadSession::finalize(): the partition is selected if all went well.
LEMMA FirmwareDoneKeeps ==
  ASSUME IInv, NEW auth \in BOOLEAN, NEW ok \in BOOLEAN, FirmwareDone(auth, ok)
  PROVE  IInv'
<1> DEFINE fine == auth /\ Finalizes /\ ok
<1>1. /\ req = "firmware" /\ file = "none" /\ file' = "over" /\ answer = "none"
      /\ UNCHANGED <<stageVars, updaterVars>>
      /\ adm \in AdminSession /\ ~st.staging /\ ~st.active
  BY DEF FirmwareDone, IInv, TypeOK, Answered, NothingLeftOpen
<1>2. /\ req' = IF fine THEN "restarting" ELSE req
      /\ answer' = IF fine THEN "ok" ELSE "failed"
      /\ story' = IF story = "closed" /\ auth /\ ~adm.late /\ ok THEN "good" ELSE "spoilt"
  BY DEF FirmwareDone
<1>3. \/ ~fine /\ FailSession
      \/ /\ fine
         /\ adm' = [adm EXCEPT !.finalized = TRUE, !.ended = FALSE, !.suspended = FALSE]
         /\ flash' = "selected" /\ UNCHANGED ranging
  BY DEF FirmwareDone
<1>4. story = "closed" <=> adm.ended /\ ~adm.failed /\ ~adm.finalized /\ ~adm.active
  BY <1>1 DEF IInv, FirmwareTold, PartitionHeld, Fresh
<1>5. answer' = "ok" <=> story' = "good"
  BY <1>2, <1>4 DEF Finalizes
<1>6. /\ adm' \in AdminSession /\ ~adm'.active /\ ~adm'.ended /\ ~adm'.suspended
      /\ ~fine => flash' = "idle" /\ ranging' \in {"off", "running"}
      /\ fine => flash' = "selected" /\ ranging' = ranging
  <2>1. CASE ~fine /\ FailSession
    BY <1>1, <2>1, FailSessionCloses, NotSelected
  <2>2. CASE /\ fine
             /\ adm' = [adm EXCEPT !.finalized = TRUE, !.ended = FALSE, !.suspended = FALSE]
             /\ flash' = "selected" /\ UNCHANGED ranging
    <3>1. ~adm.active
      BY <2>2 DEF Finalizes
    <3>2. adm' \in AdminSession /\ ~adm'.active /\ ~adm'.ended /\ ~adm'.suspended
      BY <1>1, <2>2, <3>1, Zenon DEF AdminSession
    <3>3. QED
      BY <2>2, <3>2
  <2>3. QED
    BY <1>3, <2>1, <2>2
<1>7. fine => adm.suspended /\ ~busy
  BY <1>1 DEF IInv, PartitionHeld, NothingLeftOpen, Finalizes
<1> HIDE DEF fine
<1>8. TypeOK'
  BY <1>1, <1>2, <1>6 DEF IInv, TypeOK, stageVars, updaterVars
<1>9. StagedIsWhole' /\ StageHeld'
  BY <1>1 DEF IInv, StagedIsWhole, StageHeld, stageVars, updaterVars
<1>10. NothingLeftOpen'
  BY <1>1, <1>2, <1>6, <1>7 DEF IInv, NothingLeftOpen, stageVars, updaterVars
<1>11. AnswerIsTrue'
  BY <1>1, <1>2, <1>5, <1>6 DEF AnswerIsTrue
<1>12. PartitionHeld' /\ Answered' /\ ReleaseTold' /\ FirmwareTold'
  BY <1>1, <1>2, <1>6 DEF PartitionHeld, Answered, ReleaseTold, FirmwareTold
<1>13. QED
  BY <1>8, <1>9, <1>10, <1>11, <1>12 DEF IInv

-----------------------------------------------------------------------------
(* Requests begin and end                                                  *)

\* UPLOAD_FILE_ABORTED, of either upload
LEMMA FileAbortedKeeps == ASSUME IInv, FileAborted PROVE IInv'
<1>1. /\ file = "in" /\ file' = "over" /\ story' = "spoilt" /\ answer = "none"
      /\ UNCHANGED <<req, answer, buf, updaterVars>> /\ up \in Upload
  BY DEF FileAborted, IInv, Answered, TypeOK
<1>2. CASE req = "release" /\ FailUpload(up) /\ UNCHANGED anchorVars
  BY <1>1, <1>2, RefusedKeeps
<1>3. CASE req = "firmware" /\ FailSession /\ UNCHANGED <<up, st>>
  BY <1>1, <1>3, FailedKeeps DEF stageVars
<1>4. QED
  BY <1>2, <1>3 DEF FileAborted

\* However far a request got, nothing is open once its scope is left.
LEMMA ClearCloses ==
  ASSUME IInv, req \in {"none", "release", "firmware"}, Clear
  PROVE  /\ adm' \in AdminSession /\ Fresh' /\ ~adm'.suspended /\ ~adm'.bytes
         /\ flash' = "idle" /\ ranging' \in {"off", "running"}
<1>1. /\ adm' = NoSession
      /\ flash' = IF adm.suspended /\ ~adm.failed THEN "idle" ELSE flash
      /\ ranging' = IF adm.suspended /\ ~adm.failed THEN Resumed ELSE ranging
  BY DEF Clear
<1>2. adm' \in AdminSession /\ Fresh' /\ ~adm'.suspended /\ ~adm'.bytes
  BY <1>1 DEF NoSession, AdminSession, Fresh
<1>3. adm.suspended => ~adm.failed
  BY DEF IInv, PartitionHeld
<1>4. ~adm.suspended => flash = "idle" /\ ranging \in {"off", "running"}
  <2>1. flash \in {"idle", "open"} /\ ranging \in {"off", "running", "suspended"}
    BY NotSelected DEF IInv, TypeOK
  <2>2. ~adm.suspended => flash # "open" /\ ranging # "suspended"
    BY DEF IInv, PartitionHeld, NothingLeftOpen
  <2>3. QED
    BY <2>1, <2>2
<1>5. Resumed \in {"off", "running"}
  BY DEF Resumed, IInv, TypeOK
<1>6. QED
  BY <1>1, <1>2, <1>3, <1>4, <1>5

\* A request finds nothing open, and opens nothing by itself.
LEMMA RequestBeginsKeeps ==
  ASSUME IInv, NEW kind \in {"release", "firmware"}, RequestBegins(kind) PROVE IInv'
<1>1. /\ req = "none" /\ req' = kind /\ file' = "none" /\ story' = "new" /\ answer' = "none"
      /\ up' = NoUpload /\ UNCHANGED <<st, buf, updaterVars>>
  BY DEF RequestBegins
<1>2. /\ adm' \in AdminSession /\ Fresh' /\ ~adm'.suspended /\ ~adm'.bytes
      /\ flash' = "idle" /\ ranging' \in {"off", "running"}
  BY <1>1, ClearCloses DEF RequestBegins
<1>3. up' \in Upload /\ ~up'.started /\ ~up'.ended /\ ~up'.failed
  BY <1>1 DEF NoUpload, Upload
<1>4. ~st.staging /\ ~st.active
  BY <1>1 DEF IInv, NothingLeftOpen
<1>5. TypeOK'
  BY <1>1, <1>2, <1>3 DEF IInv, TypeOK, updaterVars
<1>6. StagedIsWhole' /\ StageHeld' /\ NothingLeftOpen' /\ AnswerIsTrue' /\ Answered'
  BY <1>1, <1>2, <1>4 DEF IInv, StagedIsWhole, StageHeld, NothingLeftOpen, AnswerIsTrue, Answered,
     updaterVars
<1>7. PartitionHeld' /\ ReleaseTold' /\ FirmwareTold'
  BY <1>1, <1>2, <1>3, <1>4 DEF PartitionHeld, ReleaseTold, FirmwareTold, Fresh
<1>8. QED
  BY <1>5, <1>6, <1>7 DEF IInv

\* A request ends anywhere and leaves nothing open.
LEMMA RequestEndsKeeps == ASSUME IInv, RequestEnds PROVE IInv'
<1>1. /\ req \in {"release", "firmware"} /\ st' = Aborted
      /\ req' = "none" /\ file' = "none" /\ story' = "new" /\ answer' = "none"
      /\ UNCHANGED <<up, buf, updaterVars>>
  BY DEF RequestEnds
<1>2. /\ adm' \in AdminSession /\ Fresh' /\ ~adm'.suspended
      /\ flash' = "idle" /\ ranging' \in {"off", "running"}
  BY <1>1, ClearCloses DEF RequestEnds
<1>3. /\ st' \in Stage /\ ~st'.staging /\ ~st'.active
      /\ st'.staged = st.staged /\ (st'.valid => st.valid)
  BY <1>1, AbortedCloses
<1>4. TypeOK'
  BY <1>1, <1>2, <1>3 DEF IInv, TypeOK, updaterVars
<1>5. StagedIsWhole' /\ StageHeld' /\ NothingLeftOpen' /\ AnswerIsTrue' /\ Answered'
  BY <1>1, <1>2, <1>3 DEF IInv, StagedIsWhole, StageHeld, NothingLeftOpen, AnswerIsTrue, Answered,
     updaterVars
<1>6. PartitionHeld' /\ ReleaseTold' /\ FirmwareTold'
  BY <1>1, <1>2 DEF PartitionHeld, ReleaseTold, FirmwareTold, Fresh
<1>7. QED
  BY <1>4, <1>5, <1>6 DEF IInv

\* An upload that takes too long is still told as it went.
LEMMA TimePassesKeeps == ASSUME IInv, TimePasses PROVE IInv'
<1>1. /\ UNCHANGED <<webVars, st, buf, flash, ranging, updaterVars>>
      /\ up \in Upload /\ adm \in AdminSession
  BY DEF TimePasses, IInv, TypeOK
<1>2. /\ up' \in Upload
      /\ up'.started = up.started /\ up'.ended = up.ended /\ up'.failed = up.failed
  BY <1>1, Zenon DEF TimePasses, Upload
<1>3. /\ adm' \in AdminSession /\ adm'.active = adm.active /\ adm'.suspended = adm.suspended
      /\ adm'.ended = adm.ended /\ adm'.failed = adm.failed
      /\ adm'.finalized = adm.finalized /\ adm'.bytes = adm.bytes
  BY <1>1, Zenon DEF TimePasses, AdminSession
<1>4. TypeOK' /\ StagedIsWhole' /\ NothingLeftOpen' /\ AnswerIsTrue' /\ StageHeld' /\ Answered'
  BY <1>1, <1>2, <1>3 DEF IInv, TypeOK, StagedIsWhole, NothingLeftOpen, AnswerIsTrue, StageHeld,
     Answered, webVars, updaterVars
<1>5. PartitionHeld' /\ ReleaseTold' /\ FirmwareTold'
  BY <1>1, <1>2, <1>3 DEF IInv, PartitionHeld, ReleaseTold, FirmwareTold, Fresh, webVars
<1>6. QED
  BY <1>4, <1>5 DEF IInv

-----------------------------------------------------------------------------
(* The rest of the main loop                                               *)

\* Between requests, only the flash library and the radio change hands ...
LEMMA OtaKeeps == ASSUME IInv, OtaStarts \/ OtaFails \/ RangingStarts PROVE IInv'
<1>1. /\ UNCHANGED <<file, story, answer, stageVars, adm, updaterVars>>
      /\ req \in {"none", "ota"} /\ req' \in {"none", "ota"} /\ answer = "none"
      /\ ~st.staging /\ ~st.active
  BY DEF OtaStarts, OtaFails, RangingStarts, IInv, Answered, NothingLeftOpen, webVars
<1>2. /\ flash' \in {"idle", "open"} /\ ranging' \in {"off", "running", "suspended"}
      /\ flash' = "open" \/ ranging' = "suspended" => req' = "ota" /\ ~busy
  BY <1>1, NotSelected
     DEF OtaStarts, OtaFails, RangingStarts, IInv, TypeOK, NothingLeftOpen, Resumed, webVars
<1>3. ~adm.suspended /\ ~adm.active /\ ~adm.ended
  BY <1>1 DEF IInv, PartitionHeld
<1>4. TypeOK'
  BY <1>1, <1>2 DEF IInv, TypeOK, stageVars, updaterVars
<1>5. StagedIsWhole' /\ StageHeld' /\ NothingLeftOpen' /\ AnswerIsTrue' /\ Answered'
  BY <1>1, <1>2 DEF IInv, StagedIsWhole, StageHeld, NothingLeftOpen, AnswerIsTrue, Answered,
     stageVars, updaterVars
<1>6. PartitionHeld' /\ ReleaseTold' /\ FirmwareTold'
  BY <1>1, <1>2, <1>3 DEF PartitionHeld, ReleaseTold, FirmwareTold
<1>7. QED
  BY <1>4, <1>5, <1>6 DEF IInv

\* ... or jobs and sessions of the tags change.
LEMMA UpdaterKeeps ==
  ASSUME IInv, QueueJob \/ Session \/ Cancel \/ Disabled PROVE IInv'
<1>1. UNCHANGED <<webVars, stageVars, anchorVars>>
  BY DEF QueueJob, Session, Cancel, Disabled
<1>2. /\ live' \subseteq Releases
      /\ busy' \in BOOLEAN /\ borrowed' \in BOOLEAN /\ ready' \in BOOLEAN
      /\ borrowed' => busy' /\ (borrowed \/ st.valid)
      /\ busy' => busy \/ req = "none"
  <2>1. CASE QueueJob
    BY <2>1 DEF QueueJob, IInv, TypeOK, StageHeld
  <2>2. CASE Session
    <3>1. /\ ready' = ready /\ req = "none" /\ {busy, borrowed, ready} \subseteq BOOLEAN
          /\ live \subseteq Releases /\ (borrowed => busy)
      BY <2>2 DEF Session, IInv, TypeOK, StageHeld
    <3>2. CASE busy' = TRUE /\ ~busy /\ UNCHANGED <<live, borrowed>>
      BY <3>1, <3>2
    <3>3. CASE busy /\ ~borrowed /\ st.valid /\ borrowed' = TRUE /\ UNCHANGED <<live, busy>>
      BY <3>1, <3>3
    <3>4. CASE busy' = FALSE /\ borrowed' = FALSE /\ live' \in SUBSET live
      BY <3>1, <3>4
    <3>5. QED
      BY <2>2, <3>2, <3>3, <3>4 DEF Session
  <2>3. CASE Cancel
    BY <2>3 DEF Cancel, IInv, TypeOK, StageHeld
  <2>4. CASE Disabled
    BY <2>4 DEF Disabled, IInv, TypeOK, StageHeld
  <2>5. QED
    BY <2>1, <2>2, <2>3, <2>4
<1>3. TypeOK'
  BY <1>1, <1>2 DEF IInv, TypeOK, webVars, stageVars, anchorVars
<1>4. StagedIsWhole' /\ StageHeld'
  BY <1>1, <1>2 DEF IInv, StagedIsWhole, StageHeld, stageVars
<1>5. NothingLeftOpen'
  BY <1>1, <1>2 DEF IInv, NothingLeftOpen, webVars, stageVars, anchorVars
<1>6. AnswerIsTrue' /\ PartitionHeld' /\ Answered' /\ ReleaseTold' /\ FirmwareTold'
  BY <1>1 DEF IInv, AnswerIsTrue, PartitionHeld, Answered, ReleaseTold, FirmwareTold, Fresh,
     webVars, stageVars, anchorVars
<1>7. QED
  BY <1>3, <1>4, <1>5, <1>6 DEF IInv

\* The anchor comes up with nothing open, whatever its memory holds.
LEMMA RestartKeeps == ASSUME IInv, Restart PROVE IInv'
<1>1. /\ req' = "none" /\ file' = "none" /\ story' = "new" /\ answer' = "none"
      /\ up' = NoUpload /\ adm' = NoSession /\ st' = NoStage
      /\ buf' \in [1..Blocks -> Contents] /\ UNCHANGED live
      /\ busy' = FALSE /\ borrowed' = FALSE /\ ready' = TRUE
      /\ flash' = "idle" /\ ranging' = "off"
  BY DEF Restart
<1>2. up' \in Upload /\ adm' \in AdminSession /\ st' \in Stage
  BY <1>1, Sizes, Zenon DEF Upload, AdminSession, Stage, NoUpload, NoSession, NoStage
<1>3. TypeOK'
  BY <1>1, <1>2 DEF IInv, TypeOK
<1>4. ~st'.staging /\ ~st'.active /\ ~st'.valid
  BY <1>1 DEF NoStage
<1>5. ~adm'.active /\ ~adm'.suspended /\ ~adm'.ended
  BY <1>1 DEF NoSession
<1>6. QED
  BY <1>1, <1>3, <1>4, <1>5 DEF IInv, StagedIsWhole, NothingLeftOpen, AnswerIsTrue, StageHeld,
     PartitionHeld, Answered, ReleaseTold, FirmwareTold

\* A step that changes nothing keeps the invariant.
LEMMA StutterKeeps == ASSUME IInv, UNCHANGED vars PROVE IInv'
  BY DEF vars, webVars, stageVars, anchorVars, updaterVars, IInv, TypeOK, StagedIsWhole,
     NothingLeftOpen, AnswerIsTrue, StageHeld, PartitionHeld, Answered, ReleaseTold, FirmwareTold,
     Fresh

-----------------------------------------------------------------------------
(* The theorems                                                            *)

\* Every step of the web server and of the main loop keeps the invariant.
THEOREM InvariantHolds == Spec => []IInv
<1>1. Init => IInv
  BY InitHolds
<1>2. IInv /\ [Next]_vars => IInv'
  <2> SUFFICES ASSUME IInv, [Next]_vars PROVE IInv'
    OBVIOUS
  <2>1. CASE ReleaseRequest
    BY <2>1, ReleaseStartKeeps, ReleaseWriteKeeps, ReleaseEndKeeps, ReleaseDoneKeeps
       DEF ReleaseRequest
  <2>2. CASE FirmwareRequest
    BY <2>2, FirmwareStartKeeps, FirmwareWriteKeeps, FirmwareEndKeeps, FirmwareDoneKeeps
       DEF FirmwareRequest
  <2>3. CASE FileAborted \/ TimePasses
    BY <2>3, FileAbortedKeeps, TimePassesKeeps
  <2>4. CASE \E kind \in {"release", "firmware"} : RequestBegins(kind)
    BY <2>4, RequestBeginsKeeps
  <2>5. CASE RequestEnds
    BY <2>5, RequestEndsKeeps
  <2>6. CASE OtaStarts \/ OtaFails \/ RangingStarts
    BY <2>6, OtaKeeps
  <2>7. CASE QueueJob \/ Session \/ Cancel \/ Disabled
    BY <2>7, UpdaterKeeps
  <2>8. CASE Restart
    BY <2>8, RestartKeeps
  <2>9. CASE UNCHANGED vars
    BY <2>9, StutterKeeps
  <2>10. QED
    BY <2>1, <2>2, <2>3, <2>4, <2>5, <2>6, <2>7, <2>8, <2>9 DEF Next
<1>3. QED
  BY <1>1, <1>2, PTL DEF Spec

\* UploadState, AdminUploadSession and UpdateStorage keep their types; no more
\* is received into the stage buffer than was announced.
THEOREM TypeCorrect == Spec => []TypeOK
<1>1. IInv => TypeOK
  BY DEF IInv
<1>2. QED
  BY <1>1, InvariantHolds, PTL

\* stage_begin() to stage_finish(): what is staged or lent is whole.
THEOREM StagedWhole == Spec => []StagedIsWhole
<1>1. IInv => StagedIsWhole
  BY DEF IInv
<1>2. QED
  BY <1>1, InvariantHolds, PTL

\* update_web_request_end() and AdminUploadScope leave nothing open.
THEOREM NothingStaysOpen == Spec => []NothingLeftOpen
<1>1. IInv => NothingLeftOpen
  BY DEF IInv
<1>2. QED
  BY <1>1, InvariantHolds, PTL

\* The final handlers accept exactly the uploads that went well.
THEOREM AnswersAreTrue == Spec => []AnswerIsTrue
<1>1. IInv => AnswerIsTrue
  BY DEF IInv
<1>2. QED
  BY <1>1, InvariantHolds, PTL

\* No step of any request takes a staged release from a job that lives.
THEOREM LiveKeeps == Spec => LiveKeepsRelease
<1>1. IInv /\ [Next]_vars =>
        [st.valid /\ st.staged \in live =>
           (st'.valid /\ st'.staged = st.staged) \/ st' = NoStage]_vars
  <2> SUFFICES ASSUME IInv, Next, st.valid, st.staged \in live
               PROVE  (st'.valid /\ st'.staged = st.staged) \/ st' = NoStage
    OBVIOUS
  <2>1. ~st.staging /\ Aborted = st
    BY AbortedCloses DEF IInv, StageHeld
  <2>2. ASSUME NEW u, FailUpload(u) PROVE st' = st
    BY <2>1, <2>2 DEF FailUpload
  <2>3. CASE ReleaseRequest
    <3>1. ASSUME NEW auth \in BOOLEAN, NEW what \in {"fine", "bad name", "bad manifest"},
                 NEW r \in Releases, ReleaseStart(auth, what, r)
          PROVE  st' = st
      BY <2>2, <3>1 DEF ReleaseStart, CanStage
    <3>2. ASSUME NEW auth \in BOOLEAN, NEW c \in Contents \union {None}, ReleaseWrite(auth, c)
          PROVE  st' = st
      BY <2>1, <2>2, <3>2 DEF ReleaseWrite, Room, stageVars
    <3>3. ASSUME NEW auth \in BOOLEAN, ReleaseEnd(auth) PROVE st' = st
      BY <2>2, <3>3 DEF ReleaseEnd
    <3>4. ASSUME NEW auth \in BOOLEAN, NEW fields \in BOOLEAN, ReleaseDone(auth, fields)
          PROVE  st' = st
      BY <2>1, <3>4 DEF ReleaseDone
    <3>5. QED
      BY <2>3, <3>1, <3>2, <3>3, <3>4 DEF ReleaseRequest
  <2>4. CASE FirmwareRequest
    BY <2>4 DEF FirmwareRequest, FirmwareStart, FirmwareWrite, FirmwareEnd, FirmwareDone, stageVars
  <2>5. CASE FileAborted \/ RequestEnds
    BY <2>1, <2>2, <2>5 DEF FileAborted, RequestEnds
  <2>6. CASE Restart
    BY <2>6 DEF Restart
  <2>7. CASE TimePasses \/ (\E kind \in {"release", "firmware"} : RequestBegins(kind))
    BY <2>7 DEF TimePasses, RequestBegins
  <2>8. CASE OtaStarts \/ OtaFails \/ RangingStarts \/ QueueJob \/ Session \/ Cancel \/ Disabled
    BY <2>8 DEF OtaStarts, OtaFails, RangingStarts, QueueJob, Session, Cancel, Disabled, stageVars
  <2>9. QED
    BY <2>3, <2>4, <2>5, <2>6, <2>7, <2>8 DEF Next
<1>2. QED
  BY <1>1, InvariantHolds, PTL DEF Spec, LiveKeepsRelease

=============================================================================
