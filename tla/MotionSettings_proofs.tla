------------------------ MODULE MotionSettings_proofs ------------------------
(***************************************************************************)
(* Proofs about MotionSettings: for any tags, any lengths of an interval,  *)
(* any number of slots and of requests, what the anchor calls known is in  *)
(* force on the tag, a forgotten tag leaves nothing behind, a pairing that *)
(* is reported survives a restart, and no request is lost.                 *)
(***************************************************************************)
EXTENDS MotionSettings, TLAPS

-----------------------------------------------------------------------------
(* The inductive invariant                                                 *)

IsWrite(r) == r # None /\ r.smp = "ConfigWrite"

\* A slot without a tag is blank.  The slot of the session has one, and only
\* a session has anything on the air.
SlotsHeld ==
  /\ \A s \in Slots : motion[s].tag = None => motion[s] = Blank
  /\ ses.slot # NoSlot => motion[ses.slot].tag # None
  /\ ses.slot = NoSlot => air = None

\* Tags with a slot, and the tag of a successful pairing, are paired, and a
\* pairing that goes on has a tag; so long as every save succeeds the snapshot
\* has just the tags that are paired.
PairedSaved ==
  /\ \A s \in Slots : motion[s].tag # None => motion[s].tag \in paired
  /\ pairing.ok => pairing.tag \in paired
  /\ pairing.await # "None" => pairing.tag # None
  /\ ~disabled => paired = durable

\* A write that may still be served makes the settings of its tag unknown.
WritesUnknown ==
  /\ \A t \in Tags : IsWrite(inbox[t]) =>
       /\ inbox[t].config \in Config
       /\ \A s \in Slots : motion[s].tag = t => ~motion[s].known
  /\ IsWrite(air) => air.config \in Config /\ ~motion[ses.slot].known

\* What a tag says it applied, or took last, is what it has saved.
AppliesSaved ==
  \A t \in Tags : dev[t].current \/ ~dev[t].pending => dev[t].running = dev[t].saved

\* An answer is the one to the latest request, and nothing was changed since.
AnswerIsLatest ==
  answer # None =>
    /\ Open /\ ses.await = "Reply" /\ air = None /\ inbox[SessionTag] = None
    /\ answer.config = dev[SessionTag].saved
    /\ ~answer.pending => dev[SessionTag].running \in {None, dev[SessionTag].saved}

\* A session verifies what it was asked to set; while it reads or verifies no
\* write is on its way.
SessionHeld ==
  Open =>
    /\ ses.verifying =>
         ses.target \in Config /\ \A f \in Fields : ses.patch[f] # None => ses.target[f] = ses.patch[f]
    /\ ses.smp = "ConfigWrite" => ses.verifying
    /\ ses.await = "Poll" => ses.verifying /\ ses.smp = "TagStatus"
    /\ ses.await \in {"Connected", "Secured"} => ses.smp = "TagStatus" /\ ~ses.verifying
    /\ ses.smp = "ConfigRead" \/ (ses.verifying /\ ses.smp = "TagStatus") =>
         ~IsWrite(air) /\ ~IsWrite(inbox[SessionTag])
    /\ ses.verifying /\ ses.smp = "TagStatus" => dev[SessionTag].saved = ses.target

\* A session that closes was cut short, failed, or did what it was asked.
ClosingTold ==
  Closing =>
    \/ ses.forgetting \/ disabled \/ motion[ses.slot].phase = "Failed"
    \/ /\ motion[ses.slot].known
       /\ \A f \in Fields : ses.patch[f] # None => motion[ses.slot].config[f] = ses.patch[f]

IInv ==
  /\ TypeOK /\ KnownIsInForce /\ ForgottenIsGone /\ PairedForGood
  /\ SlotsHeld /\ PairedSaved /\ WritesUnknown /\ AppliesSaved
  /\ AnswerIsLatest /\ SessionHeld /\ ClosingTold

-----------------------------------------------------------------------------
(* The parts of the state                                                  *)

\* No slot is the one of a session that is not open.
LEMMA Constants == NoSlot \notin Slots /\ None \notin Tags /\ None \notin Values
  BY MotionAssumption DEF MotionAssumption, NoSlot, Slots

\* The parts of a slot
LEMMA SlotParts ==
  ASSUME NEW m \in MotionSlot
  PROVE  /\ m.tag \in Tags \cup {None} /\ m.phase \in Phases /\ m.known \in BOOLEAN
         /\ m.config \in Config \cup {None} /\ m.patch \in Patch /\ m.queued \in BOOLEAN
  BY Zenon DEF MotionSlot

\* The parts of a session
LEMMA SessionParts ==
  ASSUME NEW se \in Session
  PROVE  /\ se.slot \in Slots \cup {NoSlot} /\ se.patch \in Patch
         /\ se.target \in Config \cup {None} /\ se.verifying \in BOOLEAN
         /\ se.forgetting \in BOOLEAN /\ se.sub \in BOOLEAN
         /\ se.await \in {"None", "Connected", "Secured", "Reply", "Poll", "Disconnected"}
         /\ se.smp \in {"TagStatus", "ConfigRead", "ConfigWrite"}
  BY Zenon DEF Session

\* The parts of the settings of a tag
LEMMA SettingsParts ==
  ASSUME NEW d \in Settings
  PROVE  /\ d.saved \in Config /\ d.running \in Config \cup {None} /\ d.taken \in BOOLEAN
         /\ d.pending \in BOOLEAN /\ d.current \in BOOLEAN
  BY Zenon DEF Settings

\* What the types say of each variable
LEMMA Types ==
  ASSUME TypeOK
  PROVE  /\ motion \in [Slots -> MotionSlot] /\ ses \in Session /\ pairing \in Pairing
         /\ paired \subseteq Tags /\ durable \subseteq Tags
         /\ updating \in BOOLEAN /\ cooling \in BOOLEAN /\ disabled \in BOOLEAN
         /\ adopted \in [Tags -> BOOLEAN] /\ air \in Request \cup {None}
         /\ answer \in [pending : BOOLEAN, config : Config] \cup {None}
         /\ inbox \in [Tags -> Request \cup {None}] /\ dev \in [Tags -> Settings]
         /\ asks \in 0..AskMax
  BY DEF TypeOK

\* Nothing is asked of a blank slot or session.
LEMMA BlankTypes ==
  /\ Nothing \in Patch /\ Blank \in MotionSlot /\ NoSession \in Session /\ NoPairing \in Pairing
  /\ \A f \in Fields : Nothing[f] = None
<1>1. Nothing \in Patch /\ \A f \in Fields : Nothing[f] = None
  BY DEF Nothing, Patch
<1>2. Blank \in MotionSlot
  BY <1>1, Zenon DEF Blank, MotionSlot, Phases
<1>3. NoSession \in Session
  BY <1>1, Zenon DEF NoSession, Session
<1>4. NoPairing \in Pairing
  BY Zenon DEF NoPairing, Pairing
<1>5. QED
  BY <1>1, <1>2, <1>3, <1>4

\* A patch sets the fields it gives and keeps the others.
LEMMA PatchedSets ==
  ASSUME NEW base, NEW p \in Patch
  PROVE  /\ base \in Config => Patched(base, p) \in Config
         /\ base \in Patch => Patched(base, p) \in Patch
         /\ \A f \in Fields : Patched(base, p)[f] = IF p[f] = None THEN base[f] ELSE p[f]
  BY Constants DEF Patched, Patch, Config

\* close() changes nothing of a session but that it is closing.
LEMMA ClosedSession ==
  ASSUME NEW se \in Session, NEW x \in Closed(se)
  PROVE  /\ x \in Session /\ x.await = "Disconnected"
         /\ x.slot = se.slot /\ x.patch = se.patch /\ x.target = se.target
         /\ x.verifying = se.verifying /\ x.forgetting = se.forgetting /\ x.smp = se.smp
<1>1. CASE se.await = "Disconnected" /\ x = se
  BY <1>1
<1>2. ASSUME NEW taken \in BOOLEAN, x = [se EXCEPT !.await = "Disconnected", !.sub = taken]
      PROVE  /\ x \in Session /\ x.await = "Disconnected"
             /\ x.slot = se.slot /\ x.patch = se.patch /\ x.target = se.target
             /\ x.verifying = se.verifying /\ x.forgetting = se.forgetting /\ x.smp = se.smp
  BY <1>2, Zenon DEF Session
<1>3. QED
  BY <1>1, <1>2 DEF Closed

\* Nor does pairing_close() of a pairing.
LEMMA ClosedPairing ==
  ASSUME NEW p \in Pairing, NEW x \in Closed(p)
  PROVE  x \in Pairing /\ x.tag = p.tag /\ x.ok = p.ok
<1>1. CASE x = p
  BY <1>1
<1>2. ASSUME NEW taken \in BOOLEAN, x = [p EXCEPT !.await = "Disconnected", !.sub = taken]
      PROVE  x \in Pairing /\ x.tag = p.tag /\ x.ok = p.ok
  BY <1>2, Zenon DEF Pairing
<1>3. QED
  BY <1>1, <1>2 DEF Closed

\* A tag that starts has its saved settings before it.
LEMMA BootedTypes ==
  ASSUME NEW c \in Config
  PROVE  /\ Booted(c) \in Settings /\ Booted(c).saved = c /\ Booted(c).running = None
         /\ ~Booted(c).current /\ Booted(c).pending
  BY Zenon DEF Booted, Settings

\* The anchor and its tags start with nothing asked.
LEMMA InitHolds == ASSUME Init PROVE IInv
<1>1. /\ motion = [s \in Slots |-> Blank] /\ ses = NoSession /\ pairing = NoPairing
      /\ paired \in SUBSET Tags /\ durable = paired
      /\ updating = FALSE /\ cooling = FALSE /\ disabled = FALSE
      /\ adopted = [t \in Tags |-> TRUE] /\ air = None /\ answer = None
      /\ inbox = [t \in Tags |-> None] /\ dev \in [Tags -> {Booted(c) : c \in Config}]
      /\ asks = 0
  BY DEF Init
<1>2. ASSUME NEW t \in Tags
      PROVE  dev[t] \in Settings /\ ~dev[t].current /\ dev[t].pending
  <2>1. PICK c \in Config : dev[t] = Booted(c)
    BY <1>1
  <2>2. QED
    BY <2>1, BootedTypes
<1>3. dev \in [Tags -> Settings]
  BY <1>1, <1>2
<1>4. 0 \in 0..AskMax
  BY MotionAssumption DEF MotionAssumption
<1>5. TypeOK
  BY <1>1, <1>3, <1>4, BlankTypes DEF TypeOK
<1>6. \A s \in Slots : motion[s] = Blank /\ Blank.tag = None /\ ~Blank.known
  BY <1>1 DEF Blank
<1>7. /\ ses.slot = NoSlot /\ ~pairing.ok
  BY <1>1 DEF NoSession, NoPairing
<1>8. KnownIsInForce /\ ForgottenIsGone /\ PairedForGood /\ SlotsHeld /\ PairedSaved
  BY <1>1, <1>6, <1>7 DEF KnownIsInForce, ForgottenIsGone, PairedForGood, SlotsHeld, PairedSaved,
     NoPairing
<1>9. WritesUnknown /\ AppliesSaved /\ AnswerIsLatest /\ SessionHeld /\ ClosingTold
  BY <1>1, <1>2, <1>7 DEF WritesUnknown, AppliesSaved, AnswerIsLatest, SessionHeld, ClosingTold,
     IsWrite, Open, Closing
<1>10. QED
  BY <1>5, <1>8, <1>9 DEF IInv

-----------------------------------------------------------------------------
(* What moves the slot of a session                                        *)

\* Slot s becomes k: the anchor claims to know no more than it may, puts no
\* write on the air beside it, and forgets the tag of no other slot.
MovesSlot(s, k) ==
  /\ motion' = [motion EXCEPT ![s] = k] /\ k.tag = motion[s].tag /\ k.tag # None
  /\ ses' \in Session /\ ses'.slot = s /\ ses.slot \in {s, NoSlot}
  /\ UNCHANGED <<pairVars, updating, disabled, inbox, dev, asks>> /\ cooling' \in BOOLEAN
  /\ adopted' \in [Tags -> BOOLEAN]
  /\ \A t \in Tags : t = k.tag \/ adopted'[t] = adopted[t]
  /\ ~adopted'[k.tag] => ses'.await = "Disconnected" /\ ses'.forgetting /\ ~k.queued
  /\ air' \in Request \cup {None}
  /\ answer' \in [pending : BOOLEAN, config : Config] \cup {None}
  /\ k.known => \/ motion[s].known /\ k.config = motion[s].config
                \/ /\ ~IsWrite(inbox[k.tag]) /\ dev[k.tag].saved = k.config
                   /\ dev[k.tag].running \in {None, k.config}
  /\ IsWrite(air') => air'.config \in Config /\ ~k.known

\* A step of the session, or one that gives it up, keeps the invariant if the
\* rest is told as it is.
LEMMA SlotMoves ==
  ASSUME IInv, NEW s \in Slots, NEW k \in MotionSlot, MovesSlot(s, k),
         AnswerIsLatest', SessionHeld', ClosingTold'
  PROVE  IInv'
<1> USE DEF MovesSlot
<1>1. /\ motion \in [Slots -> MotionSlot] /\ motion' \in [Slots -> MotionSlot]
      /\ motion'[s] = k /\ \A r \in Slots \ {s} : motion'[r] = motion[r]
      /\ \A r \in Slots : motion'[r].tag = motion[r].tag
      /\ ses'.slot # NoSlot /\ k.tag \in Tags
  BY Constants, Types, SlotParts DEF IInv
<1>2. TypeOK'
  BY <1>1, Types DEF IInv, TypeOK, pairVars
<1>3. KnownIsInForce'
  <2> SUFFICES ASSUME NEW r \in Slots, motion'[r].known
               PROVE  /\ dev[motion'[r].tag].saved = motion'[r].config
                      /\ dev[motion'[r].tag].running \in {None, motion'[r].config}
    BY DEF KnownIsInForce
  <2>1. CASE motion[r].known /\ motion'[r].config = motion[r].config
    BY <1>1, <2>1 DEF IInv, KnownIsInForce
  <2>2. CASE r = s /\ ~(motion[s].known /\ k.config = motion[s].config)
    BY <1>1, <2>2
  <2>3. QED
    BY <1>1, <2>1, <2>2
<1>4. ForgottenIsGone'
  <2> SUFFICES ASSUME NEW r \in Slots, motion'[r].tag # None
               PROVE  /\ \A q \in Slots \ {r} : motion'[q].tag # motion'[r].tag
                      /\ ~adopted'[motion'[r].tag] =>
                           ses'.slot = r /\ ses'.await = "Disconnected" /\ ses'.forgetting
                           /\ ~motion'[r].queued
    BY DEF ForgottenIsGone
  <2>1. \A q \in Slots \ {r} : motion[q].tag # motion[r].tag
    BY <1>1 DEF IInv, ForgottenIsGone
  <2>2. CASE r = s
    BY <1>1, <2>1, <2>2
  <2>3. CASE r # s
    <3>1. motion[r].tag # k.tag /\ motion[r].tag \in Tags
      BY <1>1, <2>1, <2>3, SlotParts
    <3>2. ses.slot # r
      BY <2>3, Constants
    <3>3. adopted[motion[r].tag]
      BY <1>1, <3>2 DEF IInv, ForgottenIsGone
    <3>4. QED
      BY <1>1, <2>1, <3>1, <3>3
  <2>4. QED
    BY <2>2, <2>3
<1>5. PairedForGood' /\ SlotsHeld' /\ PairedSaved'
  <2>1. \A r \in Slots : motion'[r].tag = None => motion'[r] = Blank
    BY <1>1 DEF IInv, SlotsHeld
  <2>2. QED
    BY <1>1, <2>1 DEF IInv, PairedForGood, SlotsHeld, PairedSaved, pairVars
<1>6. WritesUnknown'
  <2>1. ASSUME NEW t \in Tags, IsWrite(inbox[t]), NEW r \in Slots, motion'[r].tag = t
        PROVE  ~motion'[r].known
    <3>1. ~motion[r].known
      BY <1>1, <2>1 DEF IInv, WritesUnknown
    <3>2. QED
      BY <1>1, <2>1, <3>1
  <2>2. QED
    BY <1>1, <2>1 DEF IInv, WritesUnknown, IsWrite
<1>7. AppliesSaved'
  BY DEF IInv, AppliesSaved
<1>8. QED
  BY <1>2, <1>3, <1>4, <1>5, <1>6, <1>7 DEF IInv

\* The slot of the session is one of a tag; while the session is open the tag
\* is adopted.
LEMMA SessionSlot ==
  ASSUME IInv, ses.slot # NoSlot
  PROVE  /\ ses.slot \in Slots /\ motion[ses.slot] \in MotionSlot
         /\ motion[ses.slot].tag \in Tags /\ motion[ses.slot].tag # None
         /\ Open => adopted[motion[ses.slot].tag]
<1>1. ses.slot \in Slots /\ motion[ses.slot] \in MotionSlot /\ motion[ses.slot].tag # None
  BY Types, SessionParts DEF IInv, SlotsHeld
<1>2. motion[ses.slot].tag \in Tags
  BY <1>1, SlotParts
<1>3. QED
  BY <1>1, <1>2 DEF IInv, ForgottenIsGone, Open

\* motion_fail() and motion_forget() of the tag of the session
LEMMA FailKeeps ==
  ASSUME IInv, NEW se \in Session, NEW k \in MotionSlot, se.slot \in Slots,
         ses.slot \in {se.slot, NoSlot},
         k.tag = motion[se.slot].tag, k.tag # None,
         k.known => motion[se.slot].known, k.config = motion[se.slot].config,
         UNCHANGED <<pairVars, updating, disabled, inbox, dev, asks>>,
         adopted' \in [Tags -> BOOLEAN], \A t \in Tags : t = k.tag \/ adopted'[t] = adopted[t],
         ~adopted'[k.tag] => se.forgetting /\ ~k.queued,
         Fail(se, k)
  PROVE  IInv'
<1> DEFINE x == FailedSlot(se, k)
<1>1. /\ motion' = [motion EXCEPT ![se.slot] = x]
      /\ ses' \in Closed(se) /\ cooling' \in BOOLEAN /\ answer' = None /\ air' = air
  BY Types DEF Fail, IInv
<1>2. /\ x \in MotionSlot /\ x.tag = k.tag /\ x.config = k.config /\ x.queued = k.queued
      /\ x.phase = "Failed" /\ (x.known => k.known)
  BY Zenon DEF FailedSlot, MotionSlot, Phases
<1> HIDE DEF x
<1>3. /\ ses' \in Session /\ ses'.slot = se.slot /\ ses'.await = "Disconnected"
      /\ ses'.forgetting = se.forgetting
  BY <1>1, ClosedSession
<1>4. air' \in Request \cup {None} /\ (IsWrite(air') => air'.config \in Config /\ ~x.known)
  <2>1. CASE ses.slot = NoSlot
    BY <1>1, <2>1 DEF IInv, SlotsHeld, IsWrite
  <2>2. CASE ses.slot = se.slot
    BY <1>1, <1>2, <2>2, Types DEF IInv, WritesUnknown
  <2>3. QED
    BY <2>1, <2>2
<1>5. AnswerIsLatest' /\ SessionHeld'
  BY <1>1, <1>3 DEF AnswerIsLatest, SessionHeld, Open
<1>6. motion'[se.slot] = x
  BY <1>1, Types DEF IInv
<1>7. ClosingTold'
  BY <1>2, <1>3, <1>6 DEF ClosingTold
<1>8. MovesSlot(se.slot, x)
  BY <1>1, <1>2, <1>3, <1>4 DEF MovesSlot
<1>9. QED
  BY <1>2, <1>5, <1>7, <1>8, SlotMoves

\* motion_send(), with what the session may send
LEMMA ExchangeKeeps ==
  ASSUME IInv, Open, NEW se \in Session, NEW k \in MotionSlot,
         NEW smp \in {"TagStatus", "ConfigRead", "ConfigWrite"},
         se.slot = ses.slot, k.tag = motion[ses.slot].tag, k.config = motion[ses.slot].config,
         k.known => motion[ses.slot].known,
         se.verifying =>
           se.target \in Config /\ \A f \in Fields : se.patch[f] # None => se.target[f] = se.patch[f],
         smp = "ConfigWrite" => se.verifying /\ ~k.known,
         smp = "ConfigRead" \/ (se.verifying /\ smp = "TagStatus") => ~IsWrite(inbox[SessionTag]),
         se.verifying /\ smp = "TagStatus" => dev[SessionTag].saved = se.target,
         UNCHANGED <<pairVars, updating, disabled, adopted, inbox, dev, asks>>,
         Exchange(se, k, smp)
  PROVE  IInv'
<1>1. /\ ses.slot \in Slots /\ ses.slot # NoSlot /\ k.tag \in Tags /\ k.tag # None
      /\ adopted \in [Tags -> BOOLEAN] /\ adopted[k.tag]
      /\ motion \in [Slots -> MotionSlot]
  BY SessionSlot, Types DEF Open, IInv
<1>2. CASE Fail(se, k)
  BY <1>1, <1>2, FailKeeps
<1>3. CASE /\ motion' = [motion EXCEPT ![se.slot] = k]
           /\ ses' = [se EXCEPT !.await = "Reply", !.smp = smp]
           /\ air' = [smp |-> smp, config |-> IF smp = "ConfigWrite" THEN se.target ELSE None]
           /\ answer' = None /\ cooling' = cooling
  <2>1. /\ ses' \in Session /\ ses'.slot = se.slot /\ ses'.await = "Reply" /\ ses'.smp = smp
        /\ ses'.verifying = se.verifying /\ ses'.target = se.target /\ ses'.patch = se.patch
    BY <1>3, Zenon DEF Session
  <2>2. /\ air' \in Request \cup {None} /\ air'.smp = smp
        /\ IsWrite(air') => air'.config \in Config /\ ~k.known /\ smp = "ConfigWrite"
    <3>1. se.target \in Config \cup {None}
      BY SessionParts
    <3>2. QED
      BY <1>3, <3>1 DEF Request, IsWrite
  <2>3. cooling' \in BOOLEAN
    BY <1>3, Types DEF IInv
  <2>4. AnswerIsLatest' /\ ClosingTold'
    BY <1>3, <2>1 DEF AnswerIsLatest, ClosingTold, Closing
  <2>5. SessionTag' = SessionTag
    BY <1>1, <1>3, <2>1 DEF SessionTag
  <2>6. SessionHeld'
    BY <2>1, <2>2, <2>5 DEF SessionHeld
  <2>7. MovesSlot(se.slot, k)
    BY <1>1, <1>3, <2>1, <2>2, <2>3 DEF MovesSlot
  <2>8. QED
    BY <1>1, <2>4, <2>6, <2>7, SlotMoves
<1>4. QED
  BY <1>2, <1>3 DEF Exchange

-----------------------------------------------------------------------------
(* The session                                                             *)

\* motion_start() takes over what was asked for the slot, or fails it.
LEMMA StartKeeps == ASSUME IInv, Start PROVE IInv'
<1>1. /\ ses.slot = NoSlot /\ air = None /\ answer = None
      /\ motion \in [Slots -> MotionSlot] /\ adopted \in [Tags -> BOOLEAN]
      /\ UNCHANGED <<pairVars, updating, disabled, adopted, inbox, dev, asks>>
  BY Types DEF Start, Busy, Rest, IInv, SlotsHeld, AnswerIsLatest, Open
<1>2. PICK s \in Slots :
        /\ motion[s].queued
        /\ LET se == [NoSession EXCEPT !.slot = s, !.patch = motion[s].patch,
                                       !.await = "Connected"]
               m == [motion[s] EXCEPT !.patch = Nothing, !.queued = FALSE, !.phase = "Reading"]
           IN  \/ /\ motion' = [motion EXCEPT ![s] = m]
                  /\ ses' = se
                  /\ UNCHANGED <<cooling, air, answer>>
               \/ Fail(se, m)
  BY DEF Start
<1> DEFINE se == [NoSession EXCEPT !.slot = s, !.patch = motion[s].patch, !.await = "Connected"]
           m == [motion[s] EXCEPT !.patch = Nothing, !.queued = FALSE, !.phase = "Reading"]
<1>3. motion[s] \in MotionSlot /\ motion[s].patch \in Patch
  BY <1>1, SlotParts
<1>4. /\ se \in Session /\ se.slot = s /\ se.await = "Connected" /\ se.smp = "TagStatus"
      /\ ~se.verifying
  BY <1>3, BlankTypes, Zenon DEF NoSession, Session
<1>5. /\ m \in MotionSlot /\ m.tag = motion[s].tag /\ m.config = motion[s].config
      /\ m.known = motion[s].known
  BY <1>3, BlankTypes, Zenon DEF MotionSlot, Phases
<1>6. m.tag # None /\ m.tag \in Tags
  <2>1. motion[s] # Blank
    BY <1>2 DEF Blank
  <2>2. QED
    BY <1>3, <1>5, <2>1, SlotParts DEF IInv, SlotsHeld
<1>7. adopted[m.tag]
  BY <1>1, <1>5, <1>6, Constants DEF IInv, ForgottenIsGone
<1>8. Fail(se, m) \/ (motion' = [motion EXCEPT ![s] = m] /\ ses' = se
                      /\ UNCHANGED <<cooling, air, answer>>)
  BY <1>2
<1> HIDE DEF se, m
<1>9. CASE Fail(se, m)
  BY <1>1, <1>4, <1>5, <1>6, <1>7, <1>9, FailKeeps
<1>10. CASE motion' = [motion EXCEPT ![s] = m] /\ ses' = se /\ UNCHANGED <<cooling, air, answer>>
  <2>1. MovesSlot(s, m)
    BY <1>1, <1>4, <1>5, <1>6, <1>7, <1>10, Types DEF IInv, MovesSlot, IsWrite
  <2>2. AnswerIsLatest' /\ SessionHeld' /\ ClosingTold'
    BY <1>1, <1>4, <1>10 DEF AnswerIsLatest, SessionHeld, ClosingTold, Closing
  <2>3. QED
    BY <1>5, <2>1, <2>2, SlotMoves
<1>11. QED
  BY <1>8, <1>9, <1>10

\* A step of an open session that only waits for something else
LEMMA WaitKeeps ==
  ASSUME IInv, Open, NEW await \in {"Secured", "Poll"},
         ses' = [ses EXCEPT !.await = await], answer' = None,
         await = "Secured" => ses.await = "Connected",
         await = "Poll" => ses.verifying /\ ses.smp = "TagStatus",
         UNCHANGED <<motion, cooling, air>>, Rest
  PROVE  IInv'
<1>1. /\ ses \in Session /\ motion \in [Slots -> MotionSlot] /\ ses.slot \in Slots
      /\ ses.slot # NoSlot /\ SessionTag # None /\ SessionTag \in Tags /\ adopted[SessionTag]
      /\ motion[ses.slot] \in MotionSlot
  BY SessionSlot, Types DEF Open, IInv, SessionTag
<1>2. /\ ses' \in Session /\ ses'.slot = ses.slot /\ ses'.smp = ses.smp /\ ses'.await = await
      /\ ses'.verifying = ses.verifying /\ ses'.target = ses.target /\ ses'.patch = ses.patch
  BY <1>1, Zenon DEF Session
<1>3. motion' = [motion EXCEPT ![ses.slot] = motion[ses.slot]]
  BY <1>1
<1>4. MovesSlot(ses.slot, motion[ses.slot])
  BY <1>1, <1>2, <1>3, Types DEF MovesSlot, Rest, IInv, WritesUnknown, SessionTag
<1>5. AnswerIsLatest' /\ ClosingTold'
  BY <1>2 DEF AnswerIsLatest, ClosingTold, Closing
<1>6. SessionHeld'
  BY <1>2 DEF IInv, SessionHeld, SessionTag, Rest
<1>7. QED
  BY <1>1, <1>4, <1>5, <1>6, SlotMoves

\* The slot of an open session
LEMMA OpenSlot ==
  ASSUME IInv, Open
  PROVE  /\ ses \in Session /\ ses.slot \in Slots /\ ses.slot # NoSlot
         /\ motion \in [Slots -> MotionSlot] /\ motion[ses.slot] \in MotionSlot
         /\ SessionTag = motion[ses.slot].tag /\ SessionTag \in Tags /\ SessionTag # None
         /\ adopted \in [Tags -> BOOLEAN] /\ adopted[SessionTag]
  BY SessionSlot, Types DEF Open, IInv, SessionTag

\* The worker is connected, or has a secure link.
LEMMA ConnectedKeeps == ASSUME IInv, Connected \/ Secured PROVE IInv'
<1>1. CASE Connected
  <2>1. answer = None
    BY <1>1 DEF Connected, IInv, AnswerIsLatest
  <2>2. QED
    BY <1>1, <2>1, WaitKeeps DEF Connected
<1>2. CASE Secured
  <2>1. Open /\ ~ses.verifying
    BY <1>2 DEF Secured, IInv, SessionHeld
  <2>2. QED
    BY <1>2, <2>1, OpenSlot, ExchangeKeeps DEF Secured, Rest
<1>3. QED
  BY <1>1, <1>2

\* handle_motion(): of a status
LEMMA HandleStatusKeeps == ASSUME IInv, HandleStatus PROVE IInv'
<1>1. /\ Open /\ answer # None /\ ses.smp = "TagStatus" /\ Rest
      /\ air = None /\ inbox[SessionTag] = None
      /\ ~answer.pending => dev[SessionTag].running \in {None, dev[SessionTag].saved}
  BY DEF HandleStatus, Replied, IInv, AnswerIsLatest
<1>2. CASE ~ses.verifying /\ Exchange(ses, motion[ses.slot], "ConfigRead")
  BY <1>1, <1>2, OpenSlot, ExchangeKeeps DEF Rest, IsWrite
<1>3. CASE /\ ses.verifying /\ answer.pending /\ ses' = [ses EXCEPT !.await = "Poll"]
           /\ answer' = None /\ UNCHANGED <<motion, cooling, air>>
  BY <1>1, <1>3, WaitKeeps
<1>4. CASE /\ ses.verifying /\ ~answer.pending
           /\ motion' = [motion EXCEPT ![ses.slot] =
                [@ EXCEPT !.config = ses.target, !.known = TRUE,
                          !.phase = IF motion[ses.slot].queued THEN "Queued" ELSE "Applied"]]
           /\ ses' \in Closed(ses) /\ answer' = None /\ UNCHANGED <<cooling, air>>
  <2> DEFINE k == [motion[ses.slot] EXCEPT !.config = ses.target, !.known = TRUE,
                     !.phase = IF motion[ses.slot].queued THEN "Queued" ELSE "Applied"]
  <2>1. /\ ses.target \in Config /\ dev[SessionTag].saved = ses.target
        /\ \A f \in Fields : ses.patch[f] # None => ses.target[f] = ses.patch[f]
    BY <1>1, <1>4 DEF IInv, SessionHeld
  <2>2. /\ ses.slot \in Slots /\ motion[ses.slot] \in MotionSlot
        /\ motion \in [Slots -> MotionSlot] /\ ses \in Session
    BY <1>1, OpenSlot
  <2>3. /\ k \in MotionSlot /\ k.tag = SessionTag /\ k.config = ses.target /\ k.known
    BY <2>1, <2>2, Zenon DEF MotionSlot, Phases, SessionTag
  <2>4. motion' = [motion EXCEPT ![ses.slot] = k]
    BY <1>4, <2>2
  <2> HIDE DEF k
  <2>5. /\ ses' \in Session /\ ses'.await = "Disconnected" /\ ses'.slot = ses.slot
        /\ ses'.patch = ses.patch
    BY <1>4, <2>2, ClosedSession
  <2>6. MovesSlot(ses.slot, k)
    BY <1>1, <1>4, <2>1, <2>3, <2>4, <2>5, OpenSlot, Types DEF IInv, MovesSlot, Rest, IsWrite
  <2>7. AnswerIsLatest' /\ SessionHeld'
    BY <1>4, <2>5 DEF AnswerIsLatest, SessionHeld, Open
  <2>8. ClosingTold'
    <3>1. motion'[ses.slot] = k
      BY <2>2, <2>4
    <3>2. QED
      BY <2>1, <2>3, <2>5, <3>1 DEF ClosingTold
  <2>9. QED
    BY <2>2, <2>3, <2>6, <2>7, <2>8, SlotMoves
<1>5. QED
  BY <1>1, <1>2, <1>3, <1>4 DEF HandleStatus

\* handle_motion(): of the settings that the tag has saved
LEMMA HandleReadKeeps == ASSUME IInv, HandleRead PROVE IInv'
<1> DEFINE m == motion[ses.slot]
           target == TargetOf
           se == [ses EXCEPT !.target = target, !.verifying = TRUE]
<1>1. /\ Open /\ answer # None /\ ses.smp = "ConfigRead"
      /\ UNCHANGED <<pairVars, updating, disabled, adopted, inbox, dev, asks>>
      /\ air = None /\ inbox[SessionTag] = None /\ answer.config = dev[SessionTag].saved
  BY DEF HandleRead, Replied, IInv, AnswerIsLatest, Rest
<1>2. /\ ses \in Session /\ ses.slot \in Slots /\ m \in MotionSlot /\ ses.patch \in Patch
      /\ m.tag = SessionTag /\ m.tag # None
  BY <1>1, OpenSlot, SessionParts
<1>3. answer.config \in Config
  BY <1>1, Types DEF IInv
<1>4. target \in Config /\ \A f \in Fields : ses.patch[f] # None => target[f] = ses.patch[f]
  BY <1>2, <1>3, PatchedSets DEF TargetOf
<1>5. /\ se \in Session /\ se.slot = ses.slot /\ se.verifying /\ se.target = target
      /\ se.patch = ses.patch
  BY <1>2, <1>4, Zenon DEF Session
<1>6. ~IsWrite(inbox[SessionTag])
  BY <1>1 DEF IsWrite
<1>7. \/ /\ ses.verifying /\ answer.config = ses.target /\ Exchange(ses, m, "TagStatus")
      \/ Fail(ses, m)
      \/ /\ answer.config = target
         /\ Exchange(se, [m EXCEPT !.phase = "Verifying"], "TagStatus")
      \/ Exchange(se, [m EXCEPT !.phase = "Writing", !.known = FALSE], "ConfigWrite")
  BY DEF HandleRead
<1>8. ses.verifying =>
        ses.target \in Config /\ \A f \in Fields : ses.patch[f] # None => ses.target[f] = ses.patch[f]
  BY <1>1 DEF IInv, SessionHeld
<1> HIDE DEF target, se
<1>9. CASE ses.verifying /\ answer.config = ses.target /\ Exchange(ses, m, "TagStatus")
  BY <1>1, <1>2, <1>6, <1>8, <1>9, ExchangeKeeps
<1>10. CASE Fail(ses, m)
  BY <1>1, <1>2, <1>10, OpenSlot, FailKeeps
<1>11. CASE answer.config = target /\ Exchange(se, [m EXCEPT !.phase = "Verifying"], "TagStatus")
  <2> DEFINE k == [m EXCEPT !.phase = "Verifying"]
  <2>1. k \in MotionSlot /\ k.tag = m.tag /\ k.config = m.config /\ k.known = m.known
    BY <1>2, Zenon DEF MotionSlot, Phases
  <2> HIDE DEF k
  <2>2. Exchange(se, k, "TagStatus")
    BY <1>11 DEF k
  <2>3. QED
    BY <1>1, <1>2, <1>4, <1>5, <1>6, <1>11, <2>1, <2>2, ExchangeKeeps
<1>12. CASE Exchange(se, [m EXCEPT !.phase = "Writing", !.known = FALSE], "ConfigWrite")
  <2> DEFINE k == [m EXCEPT !.phase = "Writing", !.known = FALSE]
  <2>1. k \in MotionSlot /\ k.tag = m.tag /\ k.config = m.config /\ ~k.known
    BY <1>2, Zenon DEF MotionSlot, Phases
  <2> HIDE DEF k
  <2>2. Exchange(se, k, "ConfigWrite")
    BY <1>12 DEF k
  <2>3. QED
    BY <1>1, <1>2, <1>4, <1>5, <1>6, <2>1, <2>2, ExchangeKeeps
<1>13. QED
  BY <1>7, <1>9, <1>10, <1>11, <1>12

\* handle_motion(): of a write that was acknowledged
LEMMA HandleWriteKeeps == ASSUME IInv, HandleWrite PROVE IInv'
<1> DEFINE k == [motion[ses.slot] EXCEPT !.phase = "Verifying"]
<1>1. /\ Open /\ answer # None /\ ses.smp = "ConfigWrite" /\ inbox[SessionTag] = None
      /\ UNCHANGED <<pairVars, updating, disabled, adopted, inbox, dev, asks>>
  BY DEF HandleWrite, Replied, IInv, AnswerIsLatest, Rest
<1>2. Exchange(ses, k, "ConfigRead")
  BY DEF HandleWrite
<1>3. /\ k \in MotionSlot /\ k.tag = motion[ses.slot].tag
      /\ k.config = motion[ses.slot].config /\ k.known = motion[ses.slot].known
  BY <1>1, OpenSlot, Zenon DEF MotionSlot, Phases
<1> HIDE DEF k
<1>4. ses.verifying =>
        ses.target \in Config /\ \A f \in Fields : ses.patch[f] # None => ses.target[f] = ses.patch[f]
  BY <1>1 DEF IInv, SessionHeld
<1>5. QED
  BY <1>1, <1>2, <1>3, <1>4, OpenSlot, ExchangeKeeps DEF IsWrite

\* The status is asked again, or the session gives up.
LEMMA PollAgainKeeps == ASSUME IInv, PollAgain PROVE IInv'
<1>1. /\ Open /\ ses.verifying /\ Exchange(ses, motion[ses.slot], "TagStatus")
      /\ UNCHANGED <<pairVars, updating, disabled, adopted, inbox, dev, asks>>
      /\ ~IsWrite(inbox[SessionTag]) /\ dev[SessionTag].saved = ses.target
      /\ ses.target \in Config /\ \A f \in Fields : ses.patch[f] # None => ses.target[f] = ses.patch[f]
  BY DEF PollAgain, Rest, IInv, SessionHeld
<1>2. QED
  BY <1>1, OpenSlot, ExchangeKeeps

\* A session that fails
LEMMA SessionFailsKeeps == ASSUME IInv, SessionFails PROVE IInv'
<1>1. /\ Open /\ Fail(ses, motion[ses.slot])
      /\ UNCHANGED <<pairVars, updating, disabled, adopted, inbox, dev, asks>>
  BY DEF SessionFails, Rest
<1>2. QED
  BY <1>1, OpenSlot, FailKeeps

\* close() of a disabled updater, and its disconnect
LEMMA CloseKeeps == ASSUME IInv, CloseDisabled \/ DisconnectTaken PROVE IInv'
<1>1. /\ ses.slot # NoSlot /\ UNCHANGED <<motion, cooling, air>>
      /\ UNCHANGED <<pairVars, updating, disabled, adopted, inbox, dev, asks>>
  BY DEF CloseDisabled, DisconnectTaken, Open, Closing, Rest
<1>2. /\ ses \in Session /\ ses.slot \in Slots /\ motion[ses.slot] \in MotionSlot
      /\ motion[ses.slot].tag \in Tags /\ motion[ses.slot].tag # None
      /\ Open => adopted[motion[ses.slot].tag]
  BY <1>1, SessionSlot, Types DEF IInv
<1>3. /\ ses' \in Session /\ ses'.slot = ses.slot /\ ses'.await = "Disconnected"
      /\ ses'.forgetting = ses.forgetting /\ ses'.patch = ses.patch
  <2>1. CASE CloseDisabled
    BY <1>2, <2>1, ClosedSession DEF CloseDisabled
  <2>2. CASE DisconnectTaken
    <3>1. ses.await = "Disconnected" /\ ses' = [ses EXCEPT !.sub = TRUE]
      BY <2>2 DEF DisconnectTaken, Closing
    <3>2. QED
      BY <1>2, <3>1, Zenon DEF Session
  <2>3. QED
    BY <2>1, <2>2
<1>4. answer' = None
  BY DEF CloseDisabled, DisconnectTaken, Closing, Open, IInv, AnswerIsLatest
<1>5. MovesSlot(ses.slot, motion[ses.slot])
  <2>1. motion' = [motion EXCEPT ![ses.slot] = motion[ses.slot]]
    BY <1>1, <1>2, Types DEF IInv
  <2>2. ~adopted[motion[ses.slot].tag] => ses.forgetting /\ ~motion[ses.slot].queued
    BY <1>2 DEF IInv, ForgottenIsGone
  <2>3. QED
    BY <1>1, <1>2, <1>3, <1>4, <2>1, <2>2, Types DEF MovesSlot, IInv, WritesUnknown
<1>6. AnswerIsLatest' /\ SessionHeld'
  BY <1>3, <1>4 DEF AnswerIsLatest, SessionHeld, Open
<1>7. ClosingTold'
  <2>1. CASE CloseDisabled
    BY <1>1, <2>1 DEF CloseDisabled, ClosingTold, pairVars
  <2>2. CASE DisconnectTaken
    BY <1>1, <1>3, <2>2 DEF DisconnectTaken, ClosingTold, Closing, IInv
  <2>3. QED
    BY <2>1, <2>2
<1>8. QED
  BY <1>2, <1>5, <1>6, <1>7, SlotMoves

\* When no session is left, the invariant is about the slots alone.
LEMMA NoSessionKeeps ==
  ASSUME TypeOK', KnownIsInForce', PairedForGood', PairedSaved', AppliesSaved',
         \A s \in Slots : motion'[s].tag = None => motion'[s] = Blank,
         \A s \in Slots : motion'[s].tag # None => adopted'[motion'[s].tag],
         \A s \in Slots : motion'[s].tag # None =>
            \A r \in Slots \ {s} : motion'[r].tag # motion'[s].tag,
         \A t \in Tags : IsWrite(inbox'[t]) =>
            /\ inbox'[t].config \in Config
            /\ \A s \in Slots : motion'[s].tag = t => ~motion'[s].known,
         ses' = NoSession, air' = None, answer' = None
  PROVE  IInv'
<1>1. ses'.slot = NoSlot
  BY DEF NoSession
<1>2. ForgottenIsGone' /\ SlotsHeld'
  BY <1>1 DEF ForgottenIsGone, SlotsHeld
<1>3. WritesUnknown' /\ AnswerIsLatest' /\ SessionHeld' /\ ClosingTold'
  BY <1>1 DEF WritesUnknown, AnswerIsLatest, SessionHeld, ClosingTold, Open, Closing, IsWrite
<1>4. QED
  BY <1>2, <1>3 DEF IInv

\* finish_close() clears the slot of a forgotten tag.
LEMMA FinishCloseKeeps == ASSUME IInv, FinishClose PROVE IInv'
<1> DEFINE k == Released(motion[ses.slot])
<1>1. /\ ses.slot # NoSlot /\ ses.await = "Disconnected" /\ ses' = NoSession /\ air' = None
      /\ motion' = [motion EXCEPT ![ses.slot] = k] /\ UNCHANGED <<cooling, answer>>
      /\ UNCHANGED <<pairVars, updating, disabled, adopted, inbox, dev, asks>>
  BY DEF FinishClose, Closing, Rest
<1>2. /\ motion \in [Slots -> MotionSlot] /\ ses.slot \in Slots
      /\ \A s \in Slots : motion[s] \in MotionSlot /\ motion[s].tag \in Tags \cup {None}
  BY <1>1, SessionSlot, Types, SlotParts DEF IInv
<1>3. k = IF ses.forgetting THEN Blank ELSE motion[ses.slot]
  BY DEF Released
<1> HIDE DEF k
<1>4. answer' = None
  BY <1>1 DEF IInv, AnswerIsLatest, Open
<1>5. /\ motion' \in [Slots -> MotionSlot]
      /\ \A s \in Slots : motion'[s] = IF s = ses.slot /\ ses.forgetting THEN Blank ELSE motion[s]
  BY <1>1, <1>2, <1>3, BlankTypes
<1>6. Blank.tag = None /\ ~Blank.known
  BY DEF Blank
<1>7. TypeOK'
  BY <1>1, <1>4, <1>5, Types, BlankTypes DEF IInv, TypeOK, pairVars
<1>8. \A s \in Slots : motion'[s].tag # None => motion'[s] = motion[s]
  BY <1>5, <1>6
<1>9. \A s \in Slots : motion'[s].tag = None => motion'[s] = Blank
  BY <1>5 DEF IInv, SlotsHeld
<1>10. KnownIsInForce' /\ PairedForGood' /\ PairedSaved' /\ AppliesSaved'
  BY <1>1, <1>6, <1>8, <1>9 DEF IInv, KnownIsInForce, PairedForGood, PairedSaved, AppliesSaved, pairVars
<1>11. ASSUME NEW s \in Slots, motion'[s].tag # None
       PROVE  /\ adopted'[motion'[s].tag]
              /\ \A r \in Slots \ {s} : motion'[r].tag # motion'[s].tag
  <2>1. motion'[s] = motion[s] /\ ~(s = ses.slot /\ ses.forgetting)
    BY <1>5, <1>6, <1>11
  <2>2. adopted[motion[s].tag] /\ \A r \in Slots \ {s} : motion[r].tag # motion[s].tag
    BY <1>11, <2>1 DEF IInv, ForgottenIsGone
  <2>3. QED
    BY <1>1, <1>5, <1>6, <1>11, <2>1, <2>2
<1>12. \A t \in Tags : IsWrite(inbox'[t]) =>
         /\ inbox'[t].config \in Config
         /\ \A s \in Slots : motion'[s].tag = t => ~motion'[s].known
  BY <1>1, <1>5, <1>6 DEF IInv, WritesUnknown
<1>13. QED
  BY <1>1, <1>4, <1>7, <1>9, <1>10, <1>11, <1>12, NoSessionKeeps

\* A restart of the anchor loses the slots, and nothing that is paired.
LEMMA AnchorRestartsKeeps == ASSUME IInv, AnchorRestarts PROVE IInv'
<1>1. /\ motion' = [s \in Slots |-> Blank] /\ ses' = NoSession /\ pairing' = NoPairing
      /\ paired' = durable /\ durable' = durable
      /\ updating' = FALSE /\ cooling' = FALSE /\ disabled' = FALSE
      /\ air' = None /\ answer' = None /\ UNCHANGED <<adopted, inbox, dev, asks>>
  BY DEF AnchorRestarts
<1>2. /\ \A s \in Slots : motion'[s] = Blank
      /\ Blank.tag = None /\ ~Blank.known /\ ~NoPairing.ok
      /\ NoPairing.await = "None"
  BY <1>1 DEF Blank, NoPairing
<1>3. TypeOK'
  BY <1>1, Types, BlankTypes DEF IInv, TypeOK
<1>4. KnownIsInForce' /\ PairedForGood' /\ PairedSaved' /\ AppliesSaved'
  BY <1>1, <1>2 DEF IInv, KnownIsInForce, PairedForGood, PairedSaved, AppliesSaved
<1>5. \A t \in Tags : IsWrite(inbox'[t]) => inbox'[t].config \in Config
  BY <1>1 DEF IInv, WritesUnknown
<1>6. QED
  BY <1>1, <1>2, <1>3, <1>4, <1>5, NoSessionKeeps

-----------------------------------------------------------------------------
(* Requests                                                                *)

\* motion_request() merges into the slot of the tag, or takes a blank one that
\* no session is about to clear.
LEMMA AskMotionKeeps ==
  ASSUME IInv, NEW t \in Tags, NEW p \in Patch, AskMotion(t, p) PROVE IInv'
<1>1. /\ adopted[t] /\ t \in paired /\ ~disabled
      /\ asks < AskMax /\ asks' = asks + 1
      /\ UNCHANGED <<ses, pairVars, updating, cooling, disabled, adopted, air, answer, inbox, dev>>
  BY DEF AskMotion
<1>2. PICK s \in SlotFor(t) :
        /\ ~(ses.slot = s /\ ses.forgetting)
        /\ LET m == [motion[s] EXCEPT !.tag = t, !.patch = Patched(@, p), !.queued = TRUE,
                                      !.phase = IF ses.slot = s THEN @ ELSE "Queued"]
           IN  motion' = [motion EXCEPT ![s] = m]
  BY DEF AskMotion
<1> DEFINE k == [motion[s] EXCEPT !.tag = t, !.patch = Patched(@, p), !.queued = TRUE,
                   !.phase = IF ses.slot = s THEN @ ELSE "Queued"]
<1>3. /\ s \in Slots
      /\ motion[s].tag = t \/ (motion[s].tag = None /\ s # ses.slot
                               /\ \A r \in Slots : motion[r].tag # t)
  BY DEF SlotFor
<1>4. /\ motion \in [Slots -> MotionSlot] /\ motion[s] \in MotionSlot /\ t # None
      /\ asks \in 0..AskMax
  BY <1>3, Types, Constants DEF IInv
<1>5. Patched(motion[s].patch, p) \in Patch
  BY <1>4, SlotParts, PatchedSets
<1>6. /\ k \in MotionSlot /\ k.tag = t /\ k.known = motion[s].known /\ k.config = motion[s].config
      /\ ses.slot = s => k.phase = motion[s].phase
  BY <1>4, <1>5, Zenon DEF MotionSlot, Phases
<1>7. motion' = [motion EXCEPT ![s] = k]
  BY <1>2
<1> HIDE DEF k
<1>8. /\ motion' \in [Slots -> MotionSlot] /\ motion'[s] = k
      /\ \A r \in Slots \ {s} : motion'[r] = motion[r]
      /\ motion[s].tag = None => ~motion[s].known
  <2>1. motion[s].tag = None => ~motion[s].known
    BY <1>3 DEF IInv, SlotsHeld, Blank
  <2>2. QED
    BY <1>3, <1>4, <1>6, <1>7, <2>1
<1>9. TypeOK'
  <2>1. asks' \in 0..AskMax
    BY <1>1, <1>4, MotionAssumption DEF MotionAssumption
  <2>2. QED
    BY <1>1, <1>8, <2>1, Types DEF IInv, TypeOK, pairVars
<1>10. KnownIsInForce'
  <2> SUFFICES ASSUME NEW r \in Slots, motion'[r].known
               PROVE  /\ dev[motion'[r].tag].saved = motion'[r].config
                      /\ dev[motion'[r].tag].running \in {None, motion'[r].config}
    BY <1>1 DEF KnownIsInForce
  <2>1. /\ motion[r].known /\ motion'[r].tag = motion[r].tag
        /\ motion'[r].config = motion[r].config
    BY <1>3, <1>6, <1>8
  <2>2. QED
    BY <2>1 DEF IInv, KnownIsInForce
<1>11. ForgottenIsGone'
  <2> SUFFICES ASSUME NEW r \in Slots, motion'[r].tag # None
               PROVE  /\ \A q \in Slots \ {r} : motion'[q].tag # motion'[r].tag
                      /\ ~adopted[motion'[r].tag] =>
                           ses.slot = r /\ ses.await = "Disconnected" /\ ses.forgetting
                           /\ ~motion'[r].queued
    BY <1>1 DEF ForgottenIsGone
  <2>1. \A q \in Slots \ {s} : motion[q].tag # t
    BY <1>3, <1>4 DEF IInv, ForgottenIsGone
  <2>2. CASE r = s
    BY <1>1, <1>6, <1>8, <2>1, <2>2
  <2>3. CASE r # s
    BY <1>6, <1>8, <2>1, <2>3 DEF IInv, ForgottenIsGone
  <2>4. QED
    BY <2>2, <2>3
<1>12. PairedForGood' /\ SlotsHeld' /\ PairedSaved'
  <2>1. \A r \in Slots : motion'[r].tag # None => motion'[r].tag \in paired
    BY <1>1, <1>6, <1>8 DEF IInv, PairedSaved
  <2>2. \A r \in Slots : motion'[r].tag = None => motion'[r] = Blank
    BY <1>4, <1>6, <1>8 DEF IInv, SlotsHeld
  <2>3. ses.slot # NoSlot => motion'[ses.slot].tag # None
    BY <1>4, <1>6, <1>8, SessionSlot DEF IInv, SlotsHeld
  <2>4. QED
    BY <1>1, <2>1, <2>2, <2>3 DEF IInv, PairedForGood, SlotsHeld, PairedSaved, pairVars
<1>13. WritesUnknown'
  <2>1. ASSUME NEW u \in Tags, IsWrite(inbox[u]), NEW r \in Slots, motion'[r].tag = u
        PROVE  ~motion'[r].known
    BY <1>3, <1>6, <1>8, <2>1 DEF IInv, WritesUnknown
  <2>2. IsWrite(air) => ~motion'[ses.slot].known
    <3>1. IsWrite(air) => ses.slot \in Slots /\ ~motion[ses.slot].known
      BY SessionSlot DEF IInv, WritesUnknown, SlotsHeld, IsWrite
    <3>2. QED
      BY <1>6, <1>8, <3>1
  <2>3. QED
    BY <1>1, <2>1, <2>2 DEF IInv, WritesUnknown, IsWrite
<1>14. ses.slot # NoSlot =>
         /\ SessionTag' = SessionTag
         /\ motion'[ses.slot].known = motion[ses.slot].known
         /\ motion'[ses.slot].config = motion[ses.slot].config
         /\ motion'[ses.slot].phase = motion[ses.slot].phase
  BY <1>1, <1>3, <1>6, <1>8, SessionSlot DEF SessionTag
<1>15. AppliesSaved' /\ AnswerIsLatest' /\ SessionHeld' /\ ClosingTold'
  BY <1>1, <1>14 DEF IInv, AppliesSaved, AnswerIsLatest, SessionHeld, ClosingTold, Open, Closing,
     IsWrite
<1>16. QED
  BY <1>9, <1>10, <1>11, <1>12, <1>13, <1>15 DEF IInv

\* motion_forget() blanks the slot, or leaves that to the session.
LEMMA ForgetKeeps == ASSUME IInv, NEW t \in Tags, Forget(t) PROVE IInv'
<1>1. /\ adopted' = [adopted EXCEPT ![t] = FALSE]
      /\ UNCHANGED <<pairVars, updating, disabled, inbox, dev, asks>>
      /\ motion \in [Slots -> MotionSlot] /\ adopted \in [Tags -> BOOLEAN]
      /\ ses \in Session /\ t # None
  BY Types, Constants DEF Forget, IInv
<1>2. adopted' \in [Tags -> BOOLEAN] /\ \A u \in Tags : u = t \/ adopted'[u] = adopted[u]
  BY <1>1
<1>3. CASE ses.slot # NoSlot /\ SessionTag = t
  <2> DEFINE se == [ses EXCEPT !.forgetting = TRUE]
             k == [motion[ses.slot] EXCEPT !.queued = FALSE]
  <2>1. Fail(se, k)
    BY <1>3 DEF Forget, ForgetActive
  <2>2. ses.slot \in Slots /\ motion[ses.slot] \in MotionSlot /\ motion[ses.slot].tag = t
    BY <1>3, SessionSlot DEF SessionTag
  <2>3. se \in Session /\ se.slot = ses.slot /\ se.forgetting
    BY <1>1, Zenon DEF Session
  <2>4. /\ k \in MotionSlot /\ k.tag = t /\ ~k.queued
        /\ k.known = motion[ses.slot].known /\ k.config = motion[ses.slot].config
    BY <2>2, Zenon DEF MotionSlot
  <2> HIDE DEF se, k
  <2>5. QED
    BY <1>1, <1>2, <2>1, <2>2, <2>3, <2>4, FailKeeps
<1>4. CASE ~(ses.slot # NoSlot /\ SessionTag = t)
  <2>1. /\ motion' = [s \in Slots |-> IF motion[s].tag = t THEN Blank ELSE motion[s]]
        /\ UNCHANGED <<ses, cooling, air, answer>>
    BY <1>4 DEF Forget
  <2>2. Blank.tag = None /\ ~Blank.known
    BY DEF Blank
  <2>3. \A s \in Slots : /\ motion'[s].tag # None => motion'[s] = motion[s] /\ motion[s].tag # t
                         /\ motion'[s].tag = None => motion'[s] = Blank
    BY <2>1, <2>2 DEF IInv, SlotsHeld
  <2>4. ses.slot # NoSlot => motion'[ses.slot] = motion[ses.slot] /\ SessionTag' = SessionTag
    BY <1>4, <2>1, SessionSlot DEF SessionTag
  <2>5. TypeOK'
    <3>1. motion' \in [Slots -> MotionSlot]
      BY <1>1, <2>1, BlankTypes
    <3>2. QED
      BY <1>1, <1>2, <2>1, <3>1, Types DEF IInv, TypeOK, pairVars
  <2>6. KnownIsInForce'
    <3>1. \A s \in Slots : motion'[s].known => motion'[s] = motion[s]
      BY <2>1, <2>2
    <3>2. QED
      BY <1>1, <3>1 DEF IInv, KnownIsInForce
  <2>7. ForgottenIsGone'
    <3> SUFFICES ASSUME NEW r \in Slots, motion'[r].tag # None
                 PROVE  /\ \A q \in Slots \ {r} : motion'[q].tag # motion'[r].tag
                        /\ ~adopted'[motion'[r].tag] =>
                             ses.slot = r /\ ses.await = "Disconnected" /\ ses.forgetting
                             /\ ~motion'[r].queued
      BY <2>1 DEF ForgottenIsGone
    <3>1. /\ motion'[r] = motion[r] /\ motion[r].tag # t /\ motion[r].tag \in Tags
          /\ motion[r].tag # None
      BY <1>1, <2>3, SlotParts
    <3>2. \A q \in Slots \ {r} : motion'[q].tag # motion'[r].tag
      BY <2>3, <3>1 DEF IInv, ForgottenIsGone
    <3>3. adopted'[motion'[r].tag] = adopted[motion[r].tag]
      BY <1>2, <3>1
    <3>4. QED
      BY <3>1, <3>2, <3>3 DEF IInv, ForgottenIsGone
  <2>8. PairedForGood' /\ PairedSaved' /\ SlotsHeld'
    BY <1>1, <2>1, <2>3, <2>4 DEF IInv, PairedForGood, PairedSaved, SlotsHeld, pairVars
  <2>9. WritesUnknown'
    <3>1. \A s \in Slots : motion'[s].tag \in Tags => motion'[s] = motion[s]
      BY <2>3, Constants
    <3>2. \A u \in Tags, s \in Slots : motion'[s].tag = u => motion'[s] = motion[s]
      BY <3>1
    <3>3. IsWrite(air) => ses.slot # NoSlot
      BY DEF IInv, SlotsHeld, IsWrite
    <3>4. QED
      BY <1>1, <2>1, <2>4, <3>2, <3>3 DEF IInv, WritesUnknown, IsWrite
  <2>10. AppliesSaved' /\ AnswerIsLatest' /\ SessionHeld' /\ ClosingTold'
    BY <1>1, <2>1, <2>4 DEF IInv, AppliesSaved, AnswerIsLatest, SessionHeld, ClosingTold, Open,
       Closing, IsWrite
  <2>11. QED
    BY <2>5, <2>6, <2>7, <2>8, <2>9, <2>10 DEF IInv
<1>5. QED
  BY <1>3, <1>4

-----------------------------------------------------------------------------
(* What leaves slots, session and tags alone                               *)

\* A step keeps the invariant if nothing is forgotten, nothing that was paired
\* is lost, and what it pairs is saved.
LEMMA FrameKeeps ==
  ASSUME IInv, UNCHANGED <<motion, ses, air, answer, inbox, dev>>, TypeOK',
         disabled => disabled', paired \subseteq paired', paired' \subseteq durable',
         pairing'.ok => pairing'.tag \in paired', pairing'.await # "None" => pairing'.tag # None,
         ~disabled' => paired' = durable',
         \A t \in Tags : adopted[t] => adopted'[t]
  PROVE  IInv'
<1>1. \A s \in Slots : motion[s].tag # None => motion[s].tag \in Tags
  BY Types, SlotParts DEF IInv
<1>2. KnownIsInForce' /\ ForgottenIsGone'
  BY <1>1 DEF IInv, KnownIsInForce, ForgottenIsGone
<1>3. PairedForGood' /\ PairedSaved' /\ SlotsHeld'
  BY DEF IInv, PairedForGood, PairedSaved, SlotsHeld
<1>4. WritesUnknown' /\ AppliesSaved' /\ AnswerIsLatest' /\ SessionHeld' /\ ClosingTold'
  BY DEF IInv, WritesUnknown, AppliesSaved, AnswerIsLatest, SessionHeld, ClosingTold, Open,
     Closing, SessionTag
<1>5. QED
  BY <1>2, <1>3, <1>4 DEF IInv

\* A tag is adopted.
LEMMA AdoptKeeps == ASSUME IInv, NEW t \in Tags, Adopt(t) PROVE IInv'
<1>1. /\ adopted' = [adopted EXCEPT ![t] = TRUE]
      /\ UNCHANGED <<motion, ses, pairVars, updating, cooling, disabled, air, answer, inbox, dev, asks>>
  BY DEF Adopt
<1>2. adopted' \in [Tags -> BOOLEAN] /\ \A u \in Tags : adopted[u] => adopted'[u]
  BY <1>1, Types DEF IInv
<1>3. TypeOK'
  BY <1>1, <1>2, Types DEF IInv, TypeOK, pairVars
<1>4. QED
  BY <1>1, <1>2, <1>3, FrameKeeps DEF IInv, PairedForGood, PairedSaved, pairVars

\* The next command of a pairing is queued, or the pairing closes.
LEMMA PairNextTypes ==
  ASSUME NEW p \in Pairing, NEW await \in {"Connected", "Secured", "Reply"}, PairNext(p, await)
  PROVE  pairing' \in Pairing /\ pairing'.tag = p.tag /\ pairing'.ok = p.ok
<1>1. CASE pairing' = [p EXCEPT !.await = await]
  BY <1>1, Zenon DEF Pairing
<1>2. CASE pairing' \in Closed(p)
  BY <1>2, ClosedPairing
<1>3. QED
  BY <1>1, <1>2 DEF PairNext

\* A step of a pairing that pairs nothing
LEMMA PairWaits ==
  ASSUME IInv, pairing' \in Pairing, asks' \in 0..AskMax,
         pairing'.ok => pairing.ok /\ pairing'.tag = pairing.tag,
         pairing'.await # "None" => pairing'.tag # None,
         UNCHANGED <<paired, durable, disabled>>, PairRest
  PROVE  IInv'
<1>1. UNCHANGED <<motion, ses, updating, cooling, adopted, air, answer, inbox, dev>>
  BY DEF PairRest
<1>2. TypeOK'
  BY <1>1, Types DEF IInv, TypeOK
<1>3. QED
  BY <1>1, <1>2, FrameKeeps DEF IInv, PairedForGood, PairedSaved

\* commission()
LEMMA CommissionKeeps == ASSUME IInv, NEW t \in Tags, Commission(t) PROVE IInv'
<1> DEFINE p == [NoPairing EXCEPT !.tag = t]
<1>1. /\ PairNext(p, "Connected") /\ asks < AskMax /\ asks' = asks + 1
      /\ UNCHANGED <<paired, durable, disabled>> /\ PairRest
  BY DEF Commission
<1>2. p \in Pairing /\ ~p.ok /\ p.tag # None
  BY Constants, Zenon DEF NoPairing, Pairing
<1> HIDE DEF p
<1>3. pairing' \in Pairing /\ ~pairing'.ok /\ pairing'.tag # None
  BY <1>1, <1>2, PairNextTypes
<1>4. asks' \in 0..AskMax
  BY <1>1, Types, MotionAssumption DEF IInv, MotionAssumption
<1>5. QED
  BY <1>1, <1>3, <1>4, PairWaits

\* pairing_loop() up to the answer of the tag, and after it
LEMMA PairingWaits ==
  ASSUME IInv, \/ PairConnected \/ PairSecured \/ PairFails \/ PairCloseDisabled
               \/ PairDisconnectTaken \/ PairFinishClose
  PROVE  IInv'
<1>1. /\ UNCHANGED <<paired, durable, disabled, asks>> /\ PairRest
      /\ pairing \in Pairing /\ asks \in 0..AskMax
  BY Types DEF PairConnected, PairSecured, PairFails, PairCloseDisabled, PairDisconnectTaken,
     PairFinishClose, IInv
<1>2. /\ pairing' \in Pairing
      /\ pairing'.ok => pairing.ok /\ pairing'.tag = pairing.tag
      /\ pairing'.await # "None" => pairing'.tag # None
  <2>1. CASE PairConnected \/ PairSecured
    <3>1. PICK await \in {"Connected", "Secured", "Reply"} : PairNext(pairing, await)
      BY <2>1 DEF PairConnected, PairSecured
    <3>2. pairing.tag # None
      BY <2>1 DEF PairConnected, PairSecured, IInv, PairedSaved
    <3>3. QED
      BY <1>1, <3>1, <3>2, PairNextTypes
  <2>2. CASE PairFails \/ PairCloseDisabled
    <3>1. pairing' \in Closed(pairing) /\ pairing.tag # None
      BY <2>2 DEF PairFails, PairCloseDisabled, IInv, PairedSaved
    <3>2. QED
      BY <1>1, <3>1, ClosedPairing
  <2>3. CASE PairDisconnectTaken
    <3>1. pairing' = [pairing EXCEPT !.sub = TRUE] /\ pairing.tag # None
      BY <2>3 DEF PairDisconnectTaken, IInv, PairedSaved
    <3>2. pairing' \in Pairing /\ pairing'.tag = pairing.tag /\ pairing'.ok = pairing.ok
      BY <1>1, <3>1, Zenon DEF Pairing
    <3>3. QED
      BY <3>1, <3>2
  <2>4. CASE PairFinishClose
    BY <2>4, BlankTypes DEF PairFinishClose, NoPairing
  <2>5. QED
    BY <2>1, <2>2, <2>3, <2>4
<1>3. QED
  BY <1>1, <1>2, PairWaits

\* The tag is paired and the snapshot has it, or it is not.
LEMMA PairedKeeps == ASSUME IInv, Paired PROVE IInv'
<1> DEFINE p == [pairing EXCEPT !.ok = TRUE]
<1>1. /\ pairing.await = "Reply" /\ ~disabled /\ Associated(pairing.tag) /\ UNCHANGED asks
      /\ UNCHANGED <<motion, ses, updating, cooling, adopted, air, answer, inbox, dev>>
      /\ paired = durable /\ pairing \in Pairing /\ paired \subseteq Tags
  BY Types DEF Paired, PairRest, IInv, PairedSaved
<1>2. p \in Pairing /\ p.ok /\ p.tag = pairing.tag
  BY <1>1, Zenon DEF Pairing
<1> HIDE DEF p
<1>3. \/ /\ paired' = paired \cup {pairing.tag} /\ durable' = paired \cup {pairing.tag}
         /\ disabled' = disabled /\ pairing' \in Closed(p)
      \/ /\ paired' = paired /\ durable' \in {durable, paired \cup {pairing.tag}}
         /\ disabled' = TRUE /\ pairing' \in Closed(pairing)
  BY <1>1 DEF Associated, p
<1>4. /\ pairing' \in Pairing /\ pairing'.tag = pairing.tag
      /\ pairing'.ok => pairing.ok \/ paired' = paired \cup {pairing.tag}
  BY <1>1, <1>2, <1>3, ClosedPairing
<1>5. pairing.tag \in Tags
  <2>1. pairing.tag # None
    BY <1>1 DEF IInv, PairedSaved
  <2>2. QED
    BY <1>1, <2>1, Zenon DEF Pairing
<1>6. TypeOK'
  BY <1>1, <1>3, <1>4, <1>5, Types DEF IInv, TypeOK
<1>7. pairing'.await # "None" => pairing'.tag # None
  BY <1>4, <1>5, Constants
<1>8. QED
  BY <1>1, <1>3, <1>4, <1>6, <1>7, FrameKeeps DEF IInv, PairedSaved

\* Settings sessions, pairings and updates come and go, or the updater is
\* disabled.
LEMMA ControllerKeeps ==
  ASSUME IInv, DisconnectOverdue \/ SaveFails \/ CoolDown \/ UpdateStarts \/ UpdateEnds
  PROVE  IInv'
<1>1. UNCHANGED <<motion, ses, pairVars, adopted, air, answer, inbox, dev, asks>>
  BY DEF DisconnectOverdue, SaveFails, Disable, CoolDown, UpdateStarts, UpdateEnds
<1>2. /\ updating' \in BOOLEAN /\ cooling' \in BOOLEAN /\ disabled' \in BOOLEAN
      /\ disabled => disabled'
  <2>1. updating \in BOOLEAN /\ cooling \in BOOLEAN /\ disabled \in BOOLEAN
    BY Types DEF IInv
  <2>2. CASE Disable
    BY <2>1, <2>2 DEF Disable
  <2>3. CASE CoolDown
    BY <2>1, <2>3 DEF CoolDown
  <2>4. CASE UpdateStarts
    BY <2>1, <2>4 DEF UpdateStarts
  <2>5. CASE UpdateEnds
    BY <2>1, <2>5 DEF UpdateEnds
  <2>6. QED
    BY <2>2, <2>3, <2>4, <2>5 DEF DisconnectOverdue, SaveFails
<1>3. TypeOK'
  BY <1>1, <1>2, Types DEF IInv, TypeOK, pairVars
<1>4. QED
  BY <1>1, <1>2, <1>3, FrameKeeps DEF IInv, PairedForGood, PairedSaved, pairVars

-----------------------------------------------------------------------------
(* The tag                                                                 *)

\* The request on the air reaches the tag of the session.
LEMMA DeliveredKeeps == ASSUME IInv, Delivered PROVE IInv'
<1>1. /\ ses.slot # NoSlot /\ air # None /\ air' = None
      /\ inbox' = [inbox EXCEPT ![SessionTag] = air]
      /\ UNCHANGED anchorVars /\ UNCHANGED <<answer, dev, asks>>
  BY DEF Delivered
<1>2. /\ SessionTag \in Tags /\ ses.slot \in Slots /\ inbox \in [Tags -> Request \cup {None}]
      /\ air \in Request \cup {None}
  BY <1>1, SessionSlot, Types DEF IInv, SessionTag
<1>3. TypeOK'
  BY <1>1, <1>2, Types DEF IInv, TypeOK, anchorVars, pairVars
<1>4. inbox'[SessionTag] = air /\ \A t \in Tags : t = SessionTag \/ inbox'[t] = inbox[t]
  BY <1>1, <1>2
<1>5. WritesUnknown'
  <2>1. IsWrite(air) =>
          air.config \in Config /\ \A s \in Slots : motion[s].tag = SessionTag => ~motion[s].known
    <3>1. \A s \in Slots : motion[s].tag = SessionTag => s = ses.slot
      BY <1>2, Constants DEF IInv, ForgottenIsGone, SessionTag
    <3>2. QED
      BY <3>1 DEF IInv, WritesUnknown
  <2>2. QED
    BY <1>1, <1>4, <2>1 DEF IInv, WritesUnknown, IsWrite, anchorVars
<1>6. SessionTag' = SessionTag
  BY <1>1 DEF SessionTag, anchorVars
<1>7. answer' = None
  BY <1>1 DEF IInv, AnswerIsLatest
<1>8. KnownIsInForce' /\ ForgottenIsGone' /\ PairedForGood' /\ SlotsHeld' /\ PairedSaved'
  BY <1>1 DEF IInv, KnownIsInForce, ForgottenIsGone, PairedForGood, SlotsHeld, PairedSaved,
     anchorVars, pairVars
<1>9. AppliesSaved' /\ AnswerIsLatest' /\ SessionHeld' /\ ClosingTold'
  BY <1>1, <1>4, <1>6, <1>7 DEF IInv, AppliesSaved, AnswerIsLatest, SessionHeld, ClosingTold,
     Open, Closing, IsWrite, anchorVars, pairVars
<1>10. QED
  BY <1>3, <1>5, <1>8, <1>9 DEF IInv

\* A tag that neither saves nor answers keeps the invariant if it runs by what
\* it has saved, or starts again.
LEMMA TagMoves ==
  ASSUME IInv, NEW t \in Tags, NEW d \in Settings, TagOnly,
         dev' = [dev EXCEPT ![t] = d], d.saved = dev[t].saved,
         d.running \in {dev[t].running, None, d.saved},
         d.current \/ ~d.pending => d.running = d.saved,
         inbox' \in {inbox, [inbox EXCEPT ![t] = None]}
  PROVE  IInv'
<1>1. UNCHANGED anchorVars /\ UNCHANGED <<air, answer, asks>>
  BY DEF TagOnly
<1>2. /\ dev \in [Tags -> Settings] /\ inbox \in [Tags -> Request \cup {None}]
      /\ dev' \in [Tags -> Settings] /\ inbox' \in [Tags -> Request \cup {None}]
      /\ \A u \in Tags : /\ dev'[u].saved = dev[u].saved
                         /\ dev'[u].running \in {dev[u].running, None, dev[u].saved}
                         /\ inbox'[u] \in {inbox[u], None}
  BY Types DEF IInv
<1>3. \A s \in Slots : motion[s].known => motion[s].tag \in Tags
  BY Types, SlotParts DEF IInv, SlotsHeld, Blank
<1>4. ses.slot # NoSlot => SessionTag \in Tags
  BY SessionSlot DEF SessionTag
<1>5. SessionTag' = SessionTag
  BY <1>1 DEF SessionTag, anchorVars
<1>6. TypeOK'
  BY <1>1, <1>2, Types DEF IInv, TypeOK, anchorVars, pairVars
<1>7. KnownIsInForce'
  BY <1>1, <1>2, <1>3 DEF IInv, KnownIsInForce, anchorVars
<1>8. WritesUnknown' /\ AppliesSaved'
  <2>1. AppliesSaved'
    BY <1>2 DEF IInv, AppliesSaved
  <2>2. QED
    BY <1>1, <1>2, <2>1 DEF IInv, WritesUnknown, IsWrite, anchorVars
<1>9. AnswerIsLatest' /\ SessionHeld'
  BY <1>1, <1>2, <1>4, <1>5 DEF IInv, AnswerIsLatest, SessionHeld, Open, IsWrite, anchorVars
<1>10. ForgottenIsGone' /\ PairedForGood' /\ SlotsHeld' /\ PairedSaved' /\ ClosingTold'
  BY <1>1 DEF IInv, ForgottenIsGone, PairedForGood, SlotsHeld, PairedSaved, ClosingTold, Closing,
     anchorVars, pairVars
<1>11. QED
  BY <1>6, <1>7, <1>8, <1>9, <1>10 DEF IInv

\* The main loop of the tag takes settings and acknowledges them.
LEMMA TakesKeeps ==
  ASSUME IInv, NEW t \in Tags, TakeConfig(t) \/ ConfigApplied(t) \/ TagReboots(t)
  PROVE  IInv'
<1>1. /\ TagOnly /\ dev \in [Tags -> Settings] /\ dev[t] \in Settings /\ dev[t].saved \in Config
      /\ dev[t].running \in Config \cup {None}
      /\ dev[t].current \/ ~dev[t].pending => dev[t].running = dev[t].saved
  BY Types, SettingsParts DEF TakeConfig, ConfigApplied, TagReboots, IInv, AppliesSaved
<1>2. CASE TakeConfig(t)
  <2> DEFINE d == [dev[t] EXCEPT !.taken = TRUE, !.current = TRUE, !.running = dev[t].saved]
  <2>1. dev' = [dev EXCEPT ![t] = d] /\ inbox' = inbox
    BY <1>1, <1>2, Zenon DEF TakeConfig
  <2>2. d \in Settings /\ d.saved = dev[t].saved /\ d.running = d.saved
    BY <1>1, Zenon DEF Settings
  <2> HIDE DEF d
  <2>3. QED
    BY <1>1, <2>1, <2>2, TagMoves
<1>3. CASE ConfigApplied(t)
  <2> DEFINE d == Applied(dev[t])
  <2>1. dev' = [dev EXCEPT ![t] = d] /\ inbox' = inbox
    BY <1>3 DEF ConfigApplied
  <2>2. /\ d \in Settings /\ d.saved = dev[t].saved /\ d.running = dev[t].running
        /\ d.current = dev[t].current /\ (~d.pending => ~dev[t].pending \/ dev[t].current)
    BY <1>1, Zenon DEF Applied, Settings
  <2> HIDE DEF d
  <2>3. QED
    BY <1>1, <2>1, <2>2, TagMoves
<1>4. CASE TagReboots(t)
  <2> DEFINE d == Booted(dev[t].saved)
  <2>1. dev' = [dev EXCEPT ![t] = d] /\ inbox' = [inbox EXCEPT ![t] = None]
    BY <1>4 DEF TagReboots
  <2>2. /\ d \in Settings /\ d.saved = dev[t].saved /\ d.running = None
        /\ ~d.current /\ d.pending
    BY <1>1, BootedTypes
  <2> HIDE DEF d
  <2>3. QED
    BY <1>1, <2>1, <2>2, TagMoves
<1>5. QED
  BY <1>2, <1>3, <1>4

\* The tag serves a request, perhaps a write that was given up long ago.
LEMMA TagServesKeeps == ASSUME IInv, NEW t \in Tags, TagServes(t) PROVE IInv'
<1>1. PICK ok \in BOOLEAN :
        LET d == IF ok /\ inbox[t].smp = "ConfigWrite"
                 THEN Saved(dev[t], inbox[t].config) ELSE dev[t]
        IN  /\ dev' = [dev EXCEPT ![t] = d]
            /\ \/ answer' = answer
               \/ /\ ok /\ Open /\ ses.await = "Reply" /\ SessionTag = t /\ air = None
                  /\ answer' = [pending |-> d.pending, config |-> d.saved]
  BY DEF TagServes
<1> DEFINE writes == ok /\ inbox[t].smp = "ConfigWrite"
           d == IF writes THEN Saved(dev[t], inbox[t].config) ELSE dev[t]
<1>2. /\ inbox[t] # None /\ inbox' = [inbox EXCEPT ![t] = None]
      /\ UNCHANGED anchorVars /\ UNCHANGED <<air, asks>>
  BY DEF TagServes
<1>3. /\ dev \in [Tags -> Settings] /\ inbox \in [Tags -> Request \cup {None}]
      /\ dev[t] \in Settings
  BY Types DEF IInv
<1>4. writes => IsWrite(inbox[t])
  BY <1>2 DEF IsWrite
<1>5. writes => inbox[t].config \in Config /\ \A s \in Slots : motion[s].tag = t => ~motion[s].known
  BY <1>4 DEF IInv, WritesUnknown
<1>6. /\ d \in Settings /\ (d.current \/ ~d.pending => d.running = d.saved)
      /\ ~writes => d = dev[t]
  <2>1. CASE writes
    <3>1. d = [dev[t] EXCEPT !.saved = inbox[t].config, !.current = FALSE, !.pending = TRUE]
      BY <2>1 DEF Saved
    <3>2. d \in Settings /\ ~d.current /\ d.pending
      BY <1>3, <1>5, <2>1, <3>1, Zenon DEF Settings
    <3>3. QED
      BY <2>1, <3>2
  <2>2. CASE ~writes
    BY <1>3, <2>2 DEF IInv, AppliesSaved
  <2>3. QED
    BY <2>1, <2>2
<1>7. /\ dev' = [dev EXCEPT ![t] = d]
      /\ \/ answer' = answer
         \/ /\ Open /\ ses.await = "Reply" /\ SessionTag = t /\ air = None
            /\ answer' = [pending |-> d.pending, config |-> d.saved]
  BY <1>1
<1>8. writes \in BOOLEAN
  BY <1>3, <1>2 DEF Request
<1> HIDE DEF d, writes
<1>9. /\ dev' \in [Tags -> Settings] /\ dev'[t] = d
      /\ inbox' \in [Tags -> Request \cup {None}] /\ inbox'[t] = None
      /\ \A u \in Tags : u # t => dev'[u] = dev[u] /\ inbox'[u] = inbox[u]
  BY <1>2, <1>3, <1>6, <1>7
<1>10. /\ SessionTag' = SessionTag /\ (Open' <=> Open)
       /\ ses.slot # NoSlot => SessionTag \in Tags
  BY <1>2, SessionSlot DEF SessionTag, Open, anchorVars
<1>11. TypeOK'
  <2>1. d.pending \in BOOLEAN /\ d.saved \in Config
    BY <1>6, SettingsParts
  <2>2. answer' \in [pending : BOOLEAN, config : Config] \cup {None}
    BY <1>7, <2>1, Types DEF IInv
  <2>3. QED
    BY <1>2, <1>9, <2>2, Types DEF IInv, TypeOK, anchorVars, pairVars
<1>12. KnownIsInForce'
  <2> SUFFICES ASSUME NEW s \in Slots, motion[s].known
               PROVE  /\ dev'[motion[s].tag].saved = motion[s].config
                      /\ dev'[motion[s].tag].running \in {None, motion[s].config}
    BY <1>2 DEF KnownIsInForce, anchorVars
  <2>1. motion[s].tag \in Tags
    BY Types, SlotParts DEF IInv, SlotsHeld, Blank
  <2>2. dev'[motion[s].tag] = dev[motion[s].tag]
    BY <1>5, <1>6, <1>9, <2>1
  <2>3. QED
    BY <2>2 DEF IInv, KnownIsInForce
<1>13. WritesUnknown' /\ AppliesSaved'
  <2>1. AppliesSaved'
    BY <1>6, <1>9 DEF IInv, AppliesSaved
  <2>2. QED
    BY <1>2, <1>9, <2>1 DEF IInv, WritesUnknown, IsWrite, anchorVars
<1>14. AnswerIsLatest'
  <2>1. CASE answer' = answer /\ answer # None
    <3>1. Open /\ inbox[SessionTag] = None
      BY <2>1 DEF IInv, AnswerIsLatest
    <3>2. SessionTag \in Tags /\ SessionTag # t
      BY <1>2, <1>10, <3>1 DEF Open
    <3>3. dev'[SessionTag] = dev[SessionTag] /\ inbox'[SessionTag] = None
      BY <1>9, <3>1, <3>2
    <3>4. QED
      BY <1>2, <1>10, <2>1, <3>3 DEF IInv, AnswerIsLatest, anchorVars
  <2>2. CASE /\ Open /\ ses.await = "Reply" /\ SessionTag = t /\ air = None
             /\ answer' = [pending |-> d.pending, config |-> d.saved]
    BY <1>2, <1>6, <1>9, <1>10, <2>2 DEF AnswerIsLatest, anchorVars
  <2>3. CASE answer' = None
    BY <2>3 DEF AnswerIsLatest
  <2>4. QED
    BY <1>7, <2>1, <2>2, <2>3
<1>15. SessionHeld'
  <2> SUFFICES ASSUME Open PROVE SessionHeld'
    BY <1>10 DEF SessionHeld
  <2>1. SessionTag \in Tags
    BY <1>10 DEF Open
  <2>2. IsWrite(inbox'[SessionTag]) => IsWrite(inbox[SessionTag])
    BY <1>9, <2>1 DEF IsWrite
  <2>3. CASE SessionTag = t /\ writes
    BY <1>2, <1>4, <2>3 DEF IInv, SessionHeld, anchorVars
  <2>4. CASE ~(SessionTag = t /\ writes)
    <3>1. dev'[SessionTag] = dev[SessionTag]
      BY <1>6, <1>9, <2>1, <2>4
    <3>2. QED
      BY <1>2, <1>10, <2>2, <3>1 DEF IInv, SessionHeld, anchorVars
  <2>5. QED
    BY <2>3, <2>4
<1>16. ForgottenIsGone' /\ PairedForGood' /\ SlotsHeld' /\ PairedSaved' /\ ClosingTold'
  BY <1>2 DEF IInv, ForgottenIsGone, PairedForGood, SlotsHeld, PairedSaved, ClosingTold, Closing,
     anchorVars, pairVars
<1>17. QED
  BY <1>11, <1>12, <1>13, <1>14, <1>15, <1>16 DEF IInv

\* A step that changes nothing keeps the invariant.
LEMMA StutterKeeps == ASSUME IInv, UNCHANGED vars PROVE IInv'
<1>1. UNCHANGED <<motion, ses, air, answer, inbox, dev, pairing, paired, durable, updating,
                  cooling, disabled, adopted, asks>>
  BY DEF vars, anchorVars, pairVars
<1>2. TypeOK'
  BY <1>1 DEF IInv, TypeOK
<1>3. QED
  BY <1>1, <1>2, FrameKeeps DEF IInv, PairedForGood, PairedSaved

-----------------------------------------------------------------------------
(* The theorems                                                            *)

\* A step of the settings session
LEMMA SessionStepKeeps == ASSUME IInv, SessionStep PROVE IInv'
  BY StartKeeps, ConnectedKeeps, HandleStatusKeeps, HandleReadKeeps, HandleWriteKeeps,
     PollAgainKeeps, SessionFailsKeeps, CloseKeeps, FinishCloseKeeps DEF SessionStep

\* The inductive invariant holds in every reachable state.
THEOREM InvariantHolds == Spec => []IInv
<1>1. Init => IInv
  BY InitHolds
<1>2. IInv /\ [Next]_vars => IInv'
  <2> SUFFICES ASSUME IInv, [Next]_vars PROVE IInv'
    OBVIOUS
  <2>1. CASE Ask
    BY <2>1, AskMotionKeeps, ForgetKeeps, AdoptKeeps, CommissionKeeps DEF Ask
  <2>2. CASE PairingStep
    BY <2>2, PairingWaits, PairedKeeps DEF PairingStep
  <2>3. CASE SessionStep
    BY <2>3, SessionStepKeeps
  <2>4. CASE ControllerStep
    BY <2>4, ControllerKeeps, AnchorRestartsKeeps DEF ControllerStep
  <2>5. CASE TagStep
    BY <2>5, DeliveredKeeps, TagServesKeeps, TakesKeeps DEF TagStep
  <2>6. CASE UNCHANGED vars
    BY <2>6, StutterKeeps
  <2>7. QED
    BY <2>1, <2>2, <2>3, <2>4, <2>5, <2>6 DEF Next
<1>3. QED
  BY <1>1, <1>2, PTL DEF Spec

\* Every variable of the controller and of the tags keeps its type.
THEOREM TypeCorrect == Spec => []TypeOK
<1>1. IInv => TypeOK
  BY DEF IInv
<1>2. QED
  BY <1>1, InvariantHolds, PTL

\* handle_motion() calls known only what the tag has saved and works by.
THEOREM KnownInForce == Spec => []KnownIsInForce
<1>1. IInv => KnownIsInForce
  BY DEF IInv
<1>2. QED
  BY <1>1, InvariantHolds, PTL

\* motion_forget() and finish_close() leave nothing of a tag.
THEOREM ForgottenGone == Spec => []ForgottenIsGone
<1>1. IInv => ForgottenIsGone
  BY DEF IInv
<1>2. QED
  BY <1>1, InvariantHolds, PTL

\* commission() keeps what it reports as paired.
THEOREM PairedKept == Spec => []PairedForGood
<1>1. IInv => PairedForGood
  BY DEF IInv
<1>2. QED
  BY <1>1, InvariantHolds, PTL

-----------------------------------------------------------------------------
(* What a step may never do                                                *)

\* What a failure and an exchange leave of the requests
LEMMA FailPatches ==
  ASSUME IInv, NEW se \in Session, NEW k \in MotionSlot, se.slot \in Slots, Fail(se, k)
  PROVE  /\ motion'[se.slot].patch = k.patch
         /\ \A r \in Slots \ {se.slot} : motion'[r] = motion[r]
         /\ ses'.slot = se.slot /\ ses'.patch = se.patch /\ air' = air
<1>1. /\ motion' = [motion EXCEPT ![se.slot] = FailedSlot(se, k)] /\ ses' \in Closed(se)
      /\ air' = air /\ motion \in [Slots -> MotionSlot]
  BY Types DEF Fail, IInv
<1>2. FailedSlot(se, k).patch = k.patch
  BY Zenon DEF FailedSlot, MotionSlot
<1>3. QED
  BY <1>1, <1>2, ClosedSession

\* An exchange sends what the session wants, or fails.
LEMMA ExchangePatches ==
  ASSUME IInv, NEW se \in Session, NEW k \in MotionSlot, se.slot \in Slots,
         NEW smp \in {"TagStatus", "ConfigRead", "ConfigWrite"}, Exchange(se, k, smp)
  PROVE  /\ motion'[se.slot].patch = k.patch
         /\ \A r \in Slots \ {se.slot} : motion'[r] = motion[r]
         /\ ses'.slot = se.slot /\ ses'.patch = se.patch
         /\ \/ air' = air
            \/ air'.smp = smp /\ (smp = "ConfigWrite" => air'.config = se.target)
<1>1. CASE Fail(se, k)
  BY <1>1, FailPatches
<1>2. CASE /\ motion' = [motion EXCEPT ![se.slot] = k]
           /\ ses' = [se EXCEPT !.await = "Reply", !.smp = smp]
           /\ air' = [smp |-> smp, config |-> IF smp = "ConfigWrite" THEN se.target ELSE None]
  <2>1. ses'.slot = se.slot /\ ses'.patch = se.patch
    BY <1>2, Zenon DEF Session
  <2>2. QED
    BY <1>2, <2>1, Types DEF IInv
<1>3. QED
  BY <1>1, <1>2 DEF Exchange

\* No request moves.
Unmoved ==
  /\ \A s \in Slots : motion'[s].patch = motion[s].patch
  /\ ses'.slot = ses.slot /\ ses'.patch = ses.patch

\* No request moves in a step of a session that is open; only HandleRead()
\* sends a write.
LEMMA OpenSteps ==
  ASSUME IInv, \/ Connected \/ Secured \/ HandleStatus \/ HandleRead \/ HandleWrite
               \/ PollAgain \/ SessionFails
  PROVE  Unmoved /\ (air' = air \/ air'.smp # "ConfigWrite" \/ HandleRead)
<1> USE DEF Unmoved
<1>1. Open
  BY DEF Connected, Secured, HandleStatus, HandleRead, HandleWrite, PollAgain, SessionFails, Replied
<1>2. /\ ses \in Session /\ ses.slot \in Slots /\ motion \in [Slots -> MotionSlot]
      /\ motion[ses.slot] \in MotionSlot
  BY <1>1, OpenSlot
<1> DEFINE m == motion[ses.slot]
<1>3. ASSUME NEW k \in MotionSlot, k.patch = m.patch, NEW se \in Session,
             se.slot = ses.slot, se.patch = ses.patch,
             NEW smp \in {"TagStatus", "ConfigRead", "ConfigWrite"},
             Exchange(se, k, smp) \/ Fail(se, k)
      PROVE  Unmoved /\ (air' = air \/ air'.smp = smp)
  BY <1>2, <1>3, ExchangePatches, FailPatches
<1>4. CASE Connected
  <2>1. ses' = [ses EXCEPT !.await = "Secured"] /\ UNCHANGED <<motion, air>>
    BY <1>4 DEF Connected
  <2>2. ses'.slot = ses.slot /\ ses'.patch = ses.patch
    BY <1>2, <2>1, Zenon DEF Session
  <2>3. QED
    BY <2>1, <2>2
<1>5. CASE Secured \/ PollAgain \/ SessionFails
  <2>1. Exchange(ses, m, "TagStatus") \/ Fail(ses, m)
    BY <1>5 DEF Secured, PollAgain, SessionFails
  <2>2. Unmoved /\ (air' = air \/ air'.smp = "TagStatus")
    BY <1>2, <1>3, <2>1
  <2>3. QED
    BY <2>2
<1>6. CASE HandleStatus
  <2>1. CASE Exchange(ses, m, "ConfigRead")
    <3>1. Unmoved /\ (air' = air \/ air'.smp = "ConfigRead")
      BY <1>2, <1>3, <2>1
    <3>2. QED
      BY <3>1
  <2>2. CASE ses' = [ses EXCEPT !.await = "Poll"] /\ UNCHANGED <<motion, air>>
    <3>1. ses'.slot = ses.slot /\ ses'.patch = ses.patch
      BY <1>2, <2>2, Zenon DEF Session
    <3>2. QED
      BY <2>2, <3>1
  <2>3. CASE /\ motion' = [motion EXCEPT ![ses.slot] =
                  [@ EXCEPT !.config = ses.target, !.known = TRUE,
                            !.phase = IF motion[ses.slot].queued THEN "Queued" ELSE "Applied"]]
             /\ ses' \in Closed(ses) /\ UNCHANGED air
    <3> DEFINE k == [m EXCEPT !.config = ses.target, !.known = TRUE,
                              !.phase = IF m.queued THEN "Queued" ELSE "Applied"]
    <3>1. motion' = [motion EXCEPT ![ses.slot] = k]
      BY <1>2, <2>3
    <3>2. k.patch = m.patch
      BY <1>2, Zenon DEF MotionSlot
    <3> HIDE DEF k
    <3>3. QED
      BY <1>2, <2>3, <3>1, <3>2, ClosedSession
  <2>4. QED
    BY <1>6, <2>1, <2>2, <2>3 DEF HandleStatus
<1>7. CASE HandleWrite
  <2> DEFINE k == [m EXCEPT !.phase = "Verifying"]
  <2>1. k \in MotionSlot /\ k.patch = m.patch
    BY <1>2, Zenon DEF MotionSlot, Phases
  <2>2. Exchange(ses, k, "ConfigRead")
    BY <1>7 DEF HandleWrite
  <2> HIDE DEF k
  <2>3. Unmoved /\ (air' = air \/ air'.smp = "ConfigRead")
    BY <1>2, <1>3, <2>1, <2>2
  <2>4. QED
    BY <2>3
<1>8. CASE HandleRead
  <2> DEFINE se == [ses EXCEPT !.target = TargetOf, !.verifying = TRUE]
             j == [m EXCEPT !.phase = "Verifying"]
             k == [m EXCEPT !.phase = "Writing", !.known = FALSE]
  <2>1. \/ Exchange(ses, m, "TagStatus") \/ Fail(ses, m)
        \/ Exchange(se, j, "TagStatus") \/ Exchange(se, k, "ConfigWrite")
    BY <1>8 DEF HandleRead
  <2>2. TargetOf \in Config
    <3>1. answer # None /\ ses.patch \in Patch
      BY <1>2, <1>8, SessionParts DEF HandleRead, Replied
    <3>2. QED
      BY <3>1, Types, PatchedSets DEF TargetOf, IInv
  <2>3. se \in Session /\ se.slot = ses.slot /\ se.patch = ses.patch
    BY <1>2, <2>2, Zenon DEF Session
  <2>4. j \in MotionSlot /\ j.patch = m.patch /\ k \in MotionSlot /\ k.patch = m.patch
    BY <1>2, Zenon DEF MotionSlot, Phases
  <2> HIDE DEF se, j, k
  <2>5. QED
    BY <1>2, <1>3, <1>8, <2>1, <2>3, <2>4
<1>9. QED
  BY <1>4, <1>5, <1>6, <1>7, <1>8

\* The write that HandleRead() sends has what the tag answered, with the patch.
LEMMA WriteKeepsTheRest ==
  ASSUME IInv, HandleRead, air' # air, air'.smp = "ConfigWrite",
         NEW f \in Fields, ses.patch[f] = None
  PROVE  air'.config[f] = dev[SessionTag].saved[f]
<1> DEFINE m == motion[ses.slot]
           se == [ses EXCEPT !.target = TargetOf, !.verifying = TRUE]
           j == [m EXCEPT !.phase = "Verifying"]
           k == [m EXCEPT !.phase = "Writing", !.known = FALSE]
<1>1. /\ answer # None /\ ses \in Session /\ ses.slot \in Slots /\ m \in MotionSlot
      /\ answer.config = dev[SessionTag].saved
  BY OpenSlot DEF HandleRead, Replied, IInv, AnswerIsLatest
<1>2. answer.config \in Config /\ ses.patch \in Patch
  BY <1>1, Types, SessionParts DEF IInv
<1>3. TargetOf \in Config /\ TargetOf[f] = answer.config[f]
  BY <1>2, PatchedSets DEF TargetOf
<1>4. \/ Exchange(ses, m, "TagStatus") \/ Fail(ses, m)
      \/ Exchange(se, j, "TagStatus") \/ Exchange(se, k, "ConfigWrite")
  BY DEF HandleRead
<1>5. se \in Session /\ se.slot = ses.slot /\ se.target = TargetOf
  BY <1>1, <1>3, Zenon DEF Session
<1>6. j \in MotionSlot /\ k \in MotionSlot
  BY <1>1, Zenon DEF MotionSlot, Phases
<1> HIDE DEF se, j, k
<1>7. air'.config = TargetOf
  BY <1>1, <1>4, <1>5, <1>6, FailPatches, ExchangePatches
<1>8. QED
  BY <1>1, <1>3, <1>7

\* HandleRead() keeps the fields that nobody asked to change.
THEOREM PatchKeeps == Spec => PatchKeepsTheRest
<1>1. IInv /\ [Next]_vars =>
        [air' # None /\ air' # air /\ air'.smp = "ConfigWrite" =>
           \A f \in Fields : ses.patch[f] = None =>
             air'.config[f] = dev[SessionTag].saved[f]]_vars
  <2> SUFFICES ASSUME IInv, Next, air' # None, air' # air, air'.smp = "ConfigWrite",
                      NEW f \in Fields, ses.patch[f] = None
               PROVE  air'.config[f] = dev[SessionTag].saved[f]
    OBVIOUS
  <2>1. HandleRead => air'.config[f] = dev[SessionTag].saved[f]
    BY WriteKeepsTheRest
  <2>2. CASE \/ Connected \/ Secured \/ HandleStatus \/ HandleRead \/ HandleWrite
             \/ PollAgain \/ SessionFails
    BY <2>1, <2>2, OpenSteps
  <2>3. CASE Start
    BY <2>3 DEF Start, Fail
  <2>4. CASE CloseDisabled \/ DisconnectTaken \/ FinishClose
    BY <2>4 DEF CloseDisabled, DisconnectTaken, FinishClose
  <2>5. CASE Ask
    BY <2>5 DEF Ask, AskMotion, Forget, ForgetActive, Fail, Adopt, Commission, PairRest
  <2>6. CASE PairingStep
    BY <2>6 DEF PairingStep, PairConnected, PairSecured, Paired, PairFails, PairCloseDisabled,
       PairDisconnectTaken, PairFinishClose, PairRest
  <2>7. CASE ControllerStep
    BY <2>7 DEF ControllerStep, DisconnectOverdue, SaveFails, Disable, CoolDown, UpdateStarts,
       UpdateEnds, AnchorRestarts
  <2>8. CASE TagStep
    BY <2>8 DEF TagStep, Delivered, TagServes, TakeConfig, ConfigApplied, TagReboots, TagOnly
  <2>9. QED
    BY <2>2, <2>3, <2>4, <2>5, <2>6, <2>7, <2>8 DEF Next, SessionStep
<1>2. QED
  BY <1>1, InvariantHolds, PTL DEF Spec, PatchKeepsTheRest

\* Then the newest value of every field stays what it was.
LEMMA NewestStays ==
  ASSUME Unmoved, NEW s \in Slots, NEW f \in Fields
  PROVE  Newest(s, f)' = Newest(s, f)
  BY DEF Unmoved, Newest

\* motion_start() hands what was asked to the session.
LEMMA StartHandsOver ==
  ASSUME IInv, Start, NEW s \in Slots, NEW f \in Fields
  PROVE  Newest(s, f)' = Newest(s, f)
<1>1. ses.slot = NoSlot /\ motion \in [Slots -> MotionSlot]
  BY Types DEF Start, Busy, IInv
<1>2. PICK q \in Slots :
        LET se == [NoSession EXCEPT !.slot = q, !.patch = motion[q].patch,
                                    !.await = "Connected"]
            m == [motion[q] EXCEPT !.patch = Nothing, !.queued = FALSE, !.phase = "Reading"]
        IN  \/ /\ motion' = [motion EXCEPT ![q] = m]
               /\ ses' = se
            \/ Fail(se, m)
  BY DEF Start
<1> DEFINE se == [NoSession EXCEPT !.slot = q, !.patch = motion[q].patch, !.await = "Connected"]
           m == [motion[q] EXCEPT !.patch = Nothing, !.queued = FALSE, !.phase = "Reading"]
<1>3. motion[q] \in MotionSlot /\ motion[q].patch \in Patch
  BY <1>1, SlotParts
<1>4. se \in Session /\ se.slot = q /\ se.patch = motion[q].patch
  BY <1>3, BlankTypes, Zenon DEF NoSession, Session
<1>5. m \in MotionSlot /\ m.patch = Nothing
  BY <1>3, BlankTypes, Zenon DEF MotionSlot, Phases
<1>6. Fail(se, m) \/ (motion' = [motion EXCEPT ![q] = m] /\ ses' = se)
  BY <1>2
<1> HIDE DEF se, m
<1>7. /\ motion'[q].patch = Nothing /\ \A r \in Slots \ {q} : motion'[r] = motion[r]
      /\ ses'.slot = q /\ ses'.patch = motion[q].patch
  BY <1>1, <1>4, <1>5, <1>6, FailPatches
<1>8. q # NoSlot /\ Nothing[f] = None
  BY Constants, BlankTypes
<1>9. QED
  BY <1>1, <1>7, <1>8, Constants DEF Newest

\* motion_request() replaces only what it is given, and counts as asking.
LEMMA AskReplaces ==
  ASSUME IInv, NEW t \in Tags, NEW p \in Patch, AskMotion(t, p), NEW s \in Slots, NEW f \in Fields
  PROVE  Newest(s, f)' = Newest(s, f) \/ (Newest(s, f)' # None /\ asks' # asks)
<1>1. asks' = asks + 1 /\ asks \in Nat /\ UNCHANGED ses
  BY Types, MotionAssumption DEF AskMotion, IInv, MotionAssumption
<1>2. PICK q \in SlotFor(t) :
        LET m == [motion[q] EXCEPT !.tag = t, !.patch = Patched(@, p), !.queued = TRUE,
                                   !.phase = IF ses.slot = q THEN @ ELSE "Queued"]
        IN  motion' = [motion EXCEPT ![q] = m]
  BY DEF AskMotion
<1> DEFINE k == [motion[q] EXCEPT !.tag = t, !.patch = Patched(@, p), !.queued = TRUE,
                   !.phase = IF ses.slot = q THEN @ ELSE "Queued"]
<1>3. /\ q \in Slots /\ motion \in [Slots -> MotionSlot] /\ motion[q] \in MotionSlot
      /\ motion' = [motion EXCEPT ![q] = k]
  BY <1>2, Types DEF IInv, SlotFor
<1>4. k.patch = Patched(motion[q].patch, p)
  BY <1>3, Zenon DEF MotionSlot
<1> HIDE DEF k
<1>5. /\ motion'[q].patch[f] = IF p[f] = None THEN motion[q].patch[f] ELSE p[f]
      /\ \A r \in Slots \ {q} : motion'[r] = motion[r]
  BY <1>3, <1>4, PatchedSets
<1>6. CASE s = q /\ p[f] # None
  BY <1>1, <1>5, <1>6 DEF Newest
<1>7. CASE ~(s = q /\ p[f] # None)
  BY <1>1, <1>5, <1>7 DEF Newest
<1>8. QED
  BY <1>6, <1>7

\* motion_forget() blanks a slot or leaves the requests as they are.
LEMMA ForgetMoves ==
  ASSUME IInv, NEW t \in Tags, Forget(t), NEW s \in Slots, NEW f \in Fields
  PROVE  Newest(s, f)' = Newest(s, f) \/ motion'[s].tag = None
<1>1. CASE ses.slot # NoSlot /\ SessionTag = t
  <2> DEFINE se == [ses EXCEPT !.forgetting = TRUE]
             k == [motion[ses.slot] EXCEPT !.queued = FALSE]
  <2>1. Fail(se, k)
    BY <1>1 DEF Forget, ForgetActive
  <2>2. ses \in Session /\ ses.slot \in Slots /\ motion[ses.slot] \in MotionSlot
    BY <1>1, SessionSlot, Types DEF IInv
  <2>3. se \in Session /\ se.slot = ses.slot /\ se.patch = ses.patch
    BY <2>2, Zenon DEF Session
  <2>4. k \in MotionSlot /\ k.patch = motion[ses.slot].patch
    BY <2>2, Zenon DEF MotionSlot
  <2> HIDE DEF se, k
  <2>5. Unmoved
    BY <2>1, <2>2, <2>3, <2>4, FailPatches DEF Unmoved
  <2>6. QED
    BY <2>5, NewestStays
<1>2. CASE ~(ses.slot # NoSlot /\ SessionTag = t)
  <2>1. /\ motion' = [r \in Slots |-> IF motion[r].tag = t THEN Blank ELSE motion[r]]
        /\ UNCHANGED ses
    BY <1>2 DEF Forget
  <2>2. Blank.tag = None
    BY DEF Blank
  <2>3. QED
    BY <2>1, <2>2 DEF Newest
<1>3. QED
  BY <1>1, <1>2

\* finish_close() drops only what the session did, or failed to do.
LEMMA FinishCloseDrops ==
  ASSUME IInv, FinishClose, NEW s \in Slots, NEW f \in Fields, Newest(s, f) # None,
         Newest(s, f)' # Newest(s, f), ~disabled, motion'[s].tag # None
  PROVE  /\ Newest(s, f)' = None
         /\ \/ motion[s].phase = "Failed"
            \/ motion[s].known /\ motion[s].config[f] = Newest(s, f)
<1>1. /\ Closing /\ ses' = NoSession
      /\ motion' = [motion EXCEPT ![ses.slot] = IF ses.forgetting THEN Blank ELSE motion[ses.slot]]
  BY DEF FinishClose, Released
<1>2. ses.slot \in Slots /\ motion \in [Slots -> MotionSlot]
  BY <1>1, SessionSlot, Types DEF IInv, Closing
<1>3. ses'.slot = NoSlot /\ NoSlot # s /\ Blank.tag = None
  BY <1>1, Constants DEF NoSession, Blank
<1>4. motion'[s] = motion[s] /\ (s = ses.slot => ~ses.forgetting)
  BY <1>1, <1>2, <1>3
<1>5. s = ses.slot /\ motion[s].patch[f] = None /\ Newest(s, f)' = None
  BY <1>3, <1>4 DEF Newest
<1>6. Newest(s, f) = ses.patch[f]
  BY <1>5 DEF Newest
<1>7. QED
  BY <1>1, <1>4, <1>5, <1>6 DEF IInv, ClosingTold

\* motion_request() to finish_close(): what was accepted is accounted for.
THEOREM NothingLost == Spec => NoRequestLost
<1> DEFINE Accounted(s, f) ==
             Newest(s, f) # None /\ Newest(s, f)' # Newest(s, f) =>
               \/ Newest(s, f)' # None /\ asks' # asks
               \/ /\ Newest(s, f)' = None
                  /\ \/ motion[s].phase = "Failed"
                     \/ motion[s].known /\ motion[s].config[f] = Newest(s, f)
               \/ motion'[s].tag = None
               \/ disabled
<1>1. IInv /\ [Next]_vars =>
        [\A s \in Slots, f \in Fields :
           LET old == Newest(s, f) new == Newest(s, f)'
           IN  old # None /\ new # old =>
                 \/ new # None /\ asks' # asks
                 \/ new = None /\ \/ motion[s].phase = "Failed"
                                  \/ motion[s].known /\ motion[s].config[f] = old
                 \/ motion'[s].tag = None
                 \/ disabled]_vars
  <2> SUFFICES ASSUME IInv, Next, NEW s \in Slots, NEW f \in Fields
               PROVE  Accounted(s, f)
    OBVIOUS
  <2>1. CASE Unmoved
    BY <2>1, NewestStays
  <2>2. CASE \/ Connected \/ Secured \/ HandleStatus \/ HandleRead \/ HandleWrite
             \/ PollAgain \/ SessionFails
    BY <2>1, <2>2, OpenSteps
  <2>3. CASE Start
    BY <2>3, StartHandsOver
  <2>4. CASE CloseDisabled \/ DisconnectTaken
    <3>1. ses \in Session /\ UNCHANGED motion
      BY <2>4, Types DEF CloseDisabled, DisconnectTaken, IInv
    <3>2. ses'.slot = ses.slot /\ ses'.patch = ses.patch
      <4>1. CASE ses' \in Closed(ses)
        BY <3>1, <4>1, ClosedSession
      <4>2. CASE ses' = [ses EXCEPT !.sub = TRUE]
        BY <3>1, <4>2, Zenon DEF Session
      <4>3. QED
        BY <2>4, <4>1, <4>2 DEF CloseDisabled, DisconnectTaken
    <3>3. QED
      BY <2>1, <3>1, <3>2 DEF Unmoved
  <2>5. CASE FinishClose
    BY <2>5, FinishCloseDrops
  <2>6. CASE Ask
    <3>1. CASE \E t \in Tags, p \in Patch : AskMotion(t, p)
      BY <3>1, AskReplaces
    <3>2. CASE \E t \in Tags : Forget(t)
      BY <3>2, ForgetMoves
    <3>3. CASE \E t \in Tags : Adopt(t) \/ Commission(t)
      BY <2>1, <3>3 DEF Adopt, Commission, PairRest, Unmoved
    <3>4. QED
      BY <2>6, <3>1, <3>2, <3>3 DEF Ask
  <2>7. CASE PairingStep
    BY <2>1, <2>7 DEF PairingStep, PairConnected, PairSecured, Paired, PairFails,
       PairCloseDisabled, PairDisconnectTaken, PairFinishClose, PairRest, Unmoved
  <2>8. CASE AnchorRestarts
    BY <2>8 DEF AnchorRestarts, Blank
  <2>9. CASE DisconnectOverdue \/ SaveFails \/ CoolDown \/ UpdateStarts \/ UpdateEnds
    BY <2>1, <2>9 DEF DisconnectOverdue, SaveFails, Disable, CoolDown, UpdateStarts, UpdateEnds,
       Unmoved
  <2>10. CASE TagStep
    BY <2>1, <2>10 DEF TagStep, Delivered, TagServes, TakeConfig, ConfigApplied, TagReboots,
       TagOnly, anchorVars, Unmoved
  <2>11. QED
    BY <2>2, <2>3, <2>4, <2>5, <2>6, <2>7, <2>8, <2>9, <2>10 DEF Next, SessionStep, ControllerStep
<1>2. QED
  BY <1>1, InvariantHolds, PTL DEF Spec, NoRequestLost

=============================================================================
