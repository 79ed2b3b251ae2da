---------------------------- MODULE MotionSettings ----------------------------
(***************************************************************************)
(* How an anchor is paired with its tags and changes their reporting       *)
(* intervals: motion_controller.cpp with the parts of                      *)
(* update_controller.cpp that commission a tag and that open and close     *)
(* sessions, and on the tag motion_settings.c, the handlers that read and  *)
(* save, and the main loop that applies what was saved.                    *)
(*                                                                         *)
(* The five motion settings are an idle and a moving interval here; the    *)
(* other three travel as an interval does that nobody asked to change.     *)
(* The worker is reduced to what UpdateTransport shows of it: only answers *)
(* to the latest operation count, and a disconnect is acknowledged when    *)
(* nothing of the session can reach the tag any more.                      *)
(***************************************************************************)
EXTENDS Naturals, FiniteSets

CONSTANTS
  Tags,
  Values,  \* lengths of an interval
  NSlots,  \* UPDATE_SNAPSHOT_MAX_ASSOCIATIONS: of motion_ and of associations_
  AskMax,  \* bound: requests made of the anchor
  None

ASSUME MotionAssumption ==
  /\ NSlots \in Nat \ {0} /\ AskMax \in Nat
  /\ None \notin Tags \cup Values \cup [{"idle", "moving"} -> Values]

VARIABLES
  motion,    \* slot -> what the anchor wants and knows of a tag
  ses,       \* the open settings session
  pairing,   \* the open pairing session
  paired,    \* tags of associations_
  durable,   \* tags of the associations in the snapshot
  updating,  \* a firmware session holds the controller
  cooling,   \* now < cooldown_until_
  disabled,
  adopted,   \* tag -> adopted in the registry
  air,       \* a request on its way to the session's tag
  answer,    \* the reply to the session's latest request
  inbox,     \* tag -> a request it has received and not served
  dev,       \* tag -> its settings
  asks       \* requests made, up to AskMax

pairVars == <<pairing, paired, durable>>
anchorVars == <<motion, ses, pairVars, updating, cooling, disabled, adopted>>
vars == <<anchorVars, air, answer, inbox, dev, asks>>

Fields == {"idle", "moving"}
Config == [Fields -> Values]
Patch == [Fields -> Values \cup {None}]
Nothing == [f \in Fields |-> None]
Slots == 1..NSlots
NoSlot == 0

\* base with the fields of p that are given
Patched(base, p) == [f \in Fields |-> IF p[f] = None THEN base[f] ELSE p[f]]

Phases == {"Unknown", "Queued", "Reading", "Writing", "Verifying", "Applied", "Failed"}

MotionSlot == [tag : Tags \cup {None}, phase : Phases, known : BOOLEAN,
               config : Config \cup {None}, patch : Patch, queued : BOOLEAN]

Blank == [tag |-> None, phase |-> "Unknown", known |-> FALSE, config |-> None,
          patch |-> Nothing, queued |-> FALSE]

\* slot    motion_active_          patch  motion_idle_, motion_moving_
\* sub     disconnect_submitted_   smp    pending_smp_
Session == [slot : Slots \cup {NoSlot}, patch : Patch, target : Config \cup {None},
            verifying : BOOLEAN, forgetting : BOOLEAN, sub : BOOLEAN,
            await : {"None", "Connected", "Secured", "Reply", "Poll", "Disconnected"},
            smp : {"TagStatus", "ConfigRead", "ConfigWrite"}]

NoSession == [slot |-> NoSlot, patch |-> Nothing, target |-> None, verifying |-> FALSE,
              forgetting |-> FALSE, sub |-> FALSE, await |-> "None", smp |-> "TagStatus"]

\* ok  pairing_success_, which is reported when the session is over
Pairing == [tag : Tags \cup {None}, ok : BOOLEAN, sub : BOOLEAN,
            await : {"None", "Connected", "Secured", "Reply", "Disconnected"}]

NoPairing == [tag |-> None, ok |-> FALSE, sub |-> FALSE, await |-> "None"]

Request == [smp : {"TagStatus", "ConfigRead", "ConfigWrite"}, config : Config \cup {None}]

\* saved    the wanted settings, the same in RAM and in flash
\* running  what the main loop reports by; None while it starts
\* taken    the main loop took settings and has not acknowledged them
\* current  applying = revision: nothing was saved since it took them
Settings == [saved : Config, running : Config \cup {None}, taken : BOOLEAN,
             pending : BOOLEAN, current : BOOLEAN]

\* The settings after a start: the record read from flash is to be applied.
Booted(saved) == [saved |-> saved, running |-> None, taken |-> FALSE,
                  pending |-> TRUE, current |-> FALSE]

PairingActive == pairing.await # "None"
Busy == ses.slot # NoSlot \/ PairingActive \/ updating
Open == ses.slot # NoSlot /\ ses.await # "Disconnected"
SessionTag == motion[ses.slot].tag

-----------------------------------------------------------------------------
Init ==
  /\ motion = [s \in Slots |-> Blank]
  /\ ses = NoSession
  /\ pairing = NoPairing
  /\ paired \in SUBSET Tags /\ Cardinality(paired) <= NSlots /\ durable = paired
  /\ updating = FALSE /\ cooling = FALSE /\ disabled = FALSE
  /\ adopted = [t \in Tags |-> TRUE]
  /\ air = None /\ answer = None
  /\ inbox = [t \in Tags |-> None]
  /\ dev \in [Tags -> {Booted(c) : c \in Config}]
  /\ asks = 0

(* Requests                                                                *)

\* The slot of the tag, or else the first free one; none when all are taken.
SlotFor(t) ==
  LET own == {s \in Slots : motion[s].tag = t}
      free == {s \in Slots : motion[s].tag = None /\ s # ses.slot}
      usable == IF own # {} THEN own ELSE free
  IN  {s \in usable : \A r \in usable : s <= r}

\* motion_request() of an interval, of both, or of none: a plain read, which
\* adds nothing to work that is queued or under way.
AskMotion(t, p) ==
  /\ adopted[t] /\ t \in paired /\ ~disabled /\ asks < AskMax
  /\ \E s \in SlotFor(t) :
       /\ ~(ses.slot = s /\ ses.forgetting)
       /\ p = Nothing => ~motion[s].queued /\ ses.slot # s
       /\ LET m == [motion[s] EXCEPT !.tag = t, !.patch = Patched(@, p), !.queued = TRUE,
                                     !.phase = IF ses.slot = s THEN @ ELSE "Queued"]
          IN  motion' = [motion EXCEPT ![s] = m]
  /\ asks' = asks + 1
  /\ UNCHANGED <<ses, pairVars, updating, cooling, disabled, adopted, air, answer, inbox, dev>>

\* close(): from now on no answer counts; the disconnect is submitted if the
\* worker's mailbox has room.
Closed(se) ==
  IF se.await = "Disconnected" THEN {se}
  ELSE {[se EXCEPT !.await = "Disconnected", !.sub = taken] : taken \in BOOLEAN}

\* (bug) A failed request is queued again.
FailedAndReplayed(se, m) ==
  [m EXCEPT !.phase = "Failed", !.queued = TRUE,
            !.known = @ /\ ~se.verifying /\ se.smp # "ConfigWrite"]

\* After an attempted write the previous value is not authoritative.
FailedSlot(se, m) ==
  [m EXCEPT !.phase = "Failed",
            !.known = @ /\ ~se.verifying /\ se.smp # "ConfigWrite"]

\* motion_fail()
Fail(se, m) ==
  /\ motion' = [motion EXCEPT ![se.slot] = FailedSlot(se, m)]
  /\ ses' \in Closed(se)
  /\ cooling' = IF se.await = "Disconnected" THEN cooling ELSE TRUE
  /\ answer' = None
  /\ air' = air

\* (bug) The session of a forgotten tag is only failed.
FailForgotten(s) == Fail(ses, motion[s])

\* motion_forget() of the tag of the session keeps its slot until the worker
\* has let go of it.
ForgetActive(s) ==
  Fail([ses EXCEPT !.forgetting = TRUE], [motion[s] EXCEPT !.queued = FALSE])

Forget(t) ==
  /\ adopted[t]
  /\ adopted' = [adopted EXCEPT ![t] = FALSE]
  /\ IF ses.slot # NoSlot /\ SessionTag = t
     THEN ForgetActive(ses.slot)
     ELSE /\ motion' = [s \in Slots |-> IF motion[s].tag = t THEN Blank ELSE motion[s]]
          /\ UNCHANGED <<ses, cooling, air, answer>>
  /\ UNCHANGED <<pairVars, updating, disabled, inbox, dev, asks>>

Adopt(t) ==
  /\ ~adopted[t]
  /\ adopted' = [adopted EXCEPT ![t] = TRUE]
  /\ UNCHANGED <<motion, ses, pairVars, updating, cooling, disabled, air, answer, inbox, dev, asks>>

-----------------------------------------------------------------------------
(* The session                                                             *)

Rest == UNCHANGED <<pairVars, updating, disabled, adopted, inbox, dev, asks>>

\* motion_send(): an exchange, or the failure to queue it
Exchange(se, m, smp) ==
  \/ /\ motion' = [motion EXCEPT ![se.slot] = m]
     /\ ses' = [se EXCEPT !.await = "Reply", !.smp = smp]
     /\ air' = [smp |-> smp, config |-> IF smp = "ConfigWrite" THEN se.target ELSE None]
     /\ answer' = None
     /\ cooling' = cooling
  \/ Fail(se, m)

\* motion_start() of the first queued slot, after the firmware jobs
Start ==
  /\ ~Busy /\ ~cooling /\ ~disabled
  /\ \E s \in Slots :
       /\ motion[s].queued /\ \A r \in Slots : motion[r].queued => s <= r
       /\ LET se == [NoSession EXCEPT !.slot = s, !.patch = motion[s].patch,
                                      !.await = "Connected"]
              m == [motion[s] EXCEPT !.patch = Nothing, !.queued = FALSE, !.phase = "Reading"]
          IN  \/ /\ motion' = [motion EXCEPT ![s] = m]
                 /\ ses' = se
                 /\ UNCHANGED <<cooling, air, answer>>
              \/ Fail(se, m)
  /\ Rest

Connected ==
  /\ Open /\ ~disabled /\ ses.await = "Connected"
  /\ ses' = [ses EXCEPT !.await = "Secured"]
  /\ UNCHANGED <<motion, cooling, air, answer>> /\ Rest

Secured ==
  /\ Open /\ ~disabled /\ ses.await = "Secured"
  /\ Exchange(ses, motion[ses.slot], "TagStatus")
  /\ Rest

Replied(smp) == Open /\ ~disabled /\ ses.await = "Reply" /\ ses.smp = smp /\ answer # None

\* The first status only identifies the tag.  A later one says whether the
\* settings are in force; what was asked meanwhile waits for a session of its own.
HandleStatus ==
  /\ Replied("TagStatus")
  /\ \/ /\ ~ses.verifying
        /\ Exchange(ses, motion[ses.slot], "ConfigRead")
     \/ /\ ses.verifying /\ answer.pending
        /\ ses' = [ses EXCEPT !.await = "Poll"]
        /\ answer' = None
        /\ UNCHANGED <<motion, cooling, air>>
     \/ /\ ses.verifying /\ ~answer.pending
        /\ motion' = [motion EXCEPT ![ses.slot] =
             [@ EXCEPT !.config = ses.target, !.known = TRUE,
                       !.phase = IF motion[ses.slot].queued THEN "Queued" ELSE "Applied"]]
        /\ ses' \in Closed(ses)
        /\ answer' = None
        /\ UNCHANGED <<cooling, air>>
  /\ Rest

\* (bug) The fields nobody asked for are left at a default.
TargetOfDefaults == Patched([f \in Fields |-> CHOOSE v \in Values : TRUE], ses.patch)

\* The whole record that will be saved: what the tag has, with the patch
TargetOf == Patched(answer.config, ses.patch)

HandleRead ==
  /\ Replied("ConfigRead")
  /\ LET m == motion[ses.slot]
         target == TargetOf
         se == [ses EXCEPT !.target = target, !.verifying = TRUE]
     IN  \/ /\ ses.verifying /\ answer.config = ses.target
            /\ Exchange(ses, m, "TagStatus")
         \/ /\ ses.verifying /\ answer.config # ses.target
            /\ Fail(ses, m)
         \/ /\ ~ses.verifying /\ answer.config = target
            /\ Exchange(se, [m EXCEPT !.phase = "Verifying"], "TagStatus")
         \/ /\ ~ses.verifying /\ answer.config # target
            /\ Exchange(se, [m EXCEPT !.phase = "Writing", !.known = FALSE], "ConfigWrite")
  /\ Rest

HandleWrite ==
  /\ Replied("ConfigWrite")
  /\ Exchange(ses, [motion[ses.slot] EXCEPT !.phase = "Verifying"], "ConfigRead")
  /\ Rest

\* Two seconds after a status that said pending
PollAgain ==
  /\ Open /\ ~disabled /\ ses.await = "Poll"
  /\ Exchange(ses, motion[ses.slot], "TagStatus")
  /\ Rest

\* A deadline passes, the worker reports a failure, the link is not secure,
\* the tag is another one, refuses, or has a sensor error.
SessionFails ==
  /\ Open /\ ~disabled
  /\ Fail(ses, motion[ses.slot])
  /\ Rest

CloseDisabled ==
  /\ Open /\ disabled
  /\ ses' \in Closed(ses)
  /\ answer' = None
  /\ UNCHANGED <<motion, cooling, air>> /\ Rest

Closing == ses.slot # NoSlot /\ ses.await = "Disconnected"

DisconnectTaken ==
  /\ Closing /\ ~ses.sub
  /\ ses' = [ses EXCEPT !.sub = TRUE]
  /\ UNCHANGED <<motion, cooling, air, answer>> /\ Rest

\* (bug) The slot is released with whatever was asked of it meanwhile.
ReleasedAll(m) == IF ses.forgetting THEN Blank ELSE [m EXCEPT !.patch = Nothing, !.queued = FALSE]

Released(m) == IF ses.forgetting THEN Blank ELSE m

\* finish_close(), on the acknowledgment of a worker that is at rest
FinishClose ==
  /\ Closing /\ ses.sub
  /\ motion' = [motion EXCEPT ![ses.slot] = Released(@)]
  /\ ses' = NoSession
  /\ air' = None
  /\ UNCHANGED <<cooling, answer>> /\ Rest

-----------------------------------------------------------------------------
(* Commissioning                                                           *)

PairRest == UNCHANGED <<motion, ses, updating, cooling, adopted, air, answer, inbox, dev>>

\* submit() of the next command, or pairing_fail() when it cannot be queued
PairNext(p, await) ==
  pairing' \in {[p EXCEPT !.await = await]} \cup Closed(p)

\* tag_updater_pair() and commission(): a tag already paired is paired again.
Commission(t) ==
  /\ adopted[t] /\ ~Busy /\ ~disabled /\ asks < AskMax
  /\ t \in paired \/ Cardinality(paired) < NSlots
  /\ PairNext([NoPairing EXCEPT !.tag = t], "Connected")
  /\ asks' = asks + 1
  /\ UNCHANGED <<paired, durable, disabled>> /\ PairRest

PairConnected ==
  /\ pairing.await = "Connected" /\ ~disabled
  /\ PairNext(pairing, "Secured")
  /\ UNCHANGED <<paired, durable, disabled, asks>> /\ PairRest

PairSecured ==
  /\ pairing.await = "Secured" /\ ~disabled
  /\ PairNext(pairing, "Reply")
  /\ UNCHANGED <<paired, durable, disabled, asks>> /\ PairRest

\* (bug) Success does not wait for the snapshot.
AssociatedUnsaved(t) ==
  /\ paired' = paired \cup {t}
  /\ durable' \in {durable, durable \cup {t}}
  /\ disabled' \in {disabled, TRUE}
  /\ pairing' \in Closed([pairing EXCEPT !.ok = TRUE])

\* The association is saved before success is claimed, and taken back when it
\* is not; the failed write disables the updater and left either snapshot.
Associated(t) ==
  \/ /\ paired' = paired \cup {t} /\ durable' = paired \cup {t}
     /\ disabled' = disabled
     /\ pairing' \in Closed([pairing EXCEPT !.ok = TRUE])
  \/ /\ paired' = paired /\ durable' \in {durable, paired \cup {t}}
     /\ disabled' = TRUE
     /\ pairing' \in Closed(pairing)

\* The tag names itself as the one to be paired.
Paired ==
  /\ pairing.await = "Reply" /\ ~disabled
  /\ Associated(pairing.tag)
  /\ UNCHANGED asks /\ PairRest

\* A deadline, a failure, a link that is not secure, another tag
PairFails ==
  /\ pairing.await \in {"Connected", "Secured", "Reply"} /\ ~disabled
  /\ pairing' \in Closed(pairing)
  /\ UNCHANGED <<paired, durable, disabled, asks>> /\ PairRest

PairCloseDisabled ==
  /\ pairing.await \in {"Connected", "Secured", "Reply"} /\ disabled
  /\ pairing' \in Closed(pairing)
  /\ UNCHANGED <<paired, durable, disabled, asks>> /\ PairRest

PairDisconnectTaken ==
  /\ pairing.await = "Disconnected" /\ ~pairing.sub
  /\ pairing' = [pairing EXCEPT !.sub = TRUE]
  /\ UNCHANGED <<paired, durable, disabled, asks>> /\ PairRest

\* pairing_finish_close(), which reports the outcome
PairFinishClose ==
  /\ pairing.await = "Disconnected" /\ pairing.sub
  /\ pairing' = NoPairing
  /\ UNCHANGED <<paired, durable, disabled, asks>> /\ PairRest

-----------------------------------------------------------------------------
(* The rest of the controller                                              *)

Disable ==
  /\ ~disabled
  /\ disabled' = TRUE
  /\ UNCHANGED <<motion, ses, pairVars, updating, cooling, adopted, air, answer, inbox, dev, asks>>

\* The worker does not acknowledge the disconnect.
DisconnectOverdue == (Closing \/ pairing.await = "Disconnected") /\ Disable

\* A snapshot cannot be saved.
SaveFails == Disable

CoolDown ==
  /\ cooling
  /\ cooling' = FALSE
  /\ UNCHANGED <<motion, ses, pairVars, updating, disabled, adopted, air, answer, inbox, dev, asks>>

UpdateStarts ==
  /\ ~Busy /\ ~cooling /\ ~disabled /\ paired # {}
  /\ updating' = TRUE
  /\ UNCHANGED <<motion, ses, pairVars, cooling, disabled, adopted, air, answer, inbox, dev, asks>>

UpdateEnds ==
  /\ updating
  /\ updating' = FALSE
  /\ cooling' \in {cooling, TRUE}
  /\ UNCHANGED <<motion, ses, pairVars, disabled, adopted, air, answer, inbox, dev, asks>>

\* Pending commands are volatile; the adoption is a retained message.
AnchorRestarts ==
  /\ motion' = [s \in Slots |-> Blank]
  /\ ses' = NoSession
  /\ pairing' = NoPairing /\ paired' = durable /\ durable' = durable
  /\ updating' = FALSE /\ cooling' = FALSE /\ disabled' = FALSE
  /\ air' = None /\ answer' = None
  /\ UNCHANGED <<adopted, inbox, dev, asks>>

-----------------------------------------------------------------------------
(* The tag                                                                 *)

\* A newer request takes the place of one that was not served.
Delivered ==
  /\ ses.slot # NoSlot /\ air # None
  /\ inbox' = [inbox EXCEPT ![SessionTag] = air]
  /\ air' = None
  /\ UNCHANGED anchorVars /\ UNCHANGED <<answer, dev, asks>>

Saved(d, c) == [d EXCEPT !.saved = c, !.current = FALSE, !.pending = TRUE]

\* A request is served, perhaps long after the anchor gave up; it may be refused
\* and a write may fail.  The answer, if it gets through, says how things are.
TagServes(t) ==
  /\ inbox[t] # None
  /\ inbox' = [inbox EXCEPT ![t] = None]
  /\ \E ok \in BOOLEAN :
       LET d == IF ok /\ inbox[t].smp = "ConfigWrite"
                THEN Saved(dev[t], inbox[t].config) ELSE dev[t]
       IN  /\ dev' = [dev EXCEPT ![t] = d]
           /\ \/ answer' = answer
              \/ /\ ok /\ Open /\ ses.await = "Reply" /\ SessionTag = t /\ air = None
                 /\ answer' = [pending |-> d.pending, config |-> d.saved]
  /\ UNCHANGED anchorVars /\ UNCHANGED <<air, asks>>

TagOnly == UNCHANGED anchorVars /\ UNCHANGED <<air, answer, asks>>

\* br_power_take_config() in the main loop, which then works by what it took,
\* whatever becomes of the sensor
TakeConfig(t) ==
  /\ dev[t].pending /\ ~dev[t].taken
  /\ dev' = [dev EXCEPT ![t].taken = TRUE, ![t].current = TRUE, ![t].running = dev[t].saved]
  /\ UNCHANGED inbox /\ TagOnly

\* (bug) Applied, whichever revision that was.
AppliedAny(d) == [d EXCEPT !.taken = FALSE, !.pending = FALSE]

\* br_motion_settings_applied()
Applied(d) == [d EXCEPT !.taken = FALSE, !.pending = @ /\ ~d.current]

ConfigApplied(t) ==
  /\ dev[t].taken
  /\ dev' = [dev EXCEPT ![t] = Applied(@)]
  /\ UNCHANGED inbox /\ TagOnly

TagReboots(t) ==
  /\ dev' = [dev EXCEPT ![t] = Booted(@.saved)]
  /\ inbox' = [inbox EXCEPT ![t] = None]
  /\ TagOnly

-----------------------------------------------------------------------------
Ask ==
  \E t \in Tags : (\E p \in Patch : AskMotion(t, p)) \/ Forget(t) \/ Adopt(t) \/ Commission(t)

PairingStep ==
  \/ PairConnected \/ PairSecured \/ Paired \/ PairFails \/ PairCloseDisabled
  \/ PairDisconnectTaken \/ PairFinishClose

SessionStep ==
  \/ Start \/ Connected \/ Secured \/ HandleStatus \/ HandleRead \/ HandleWrite
  \/ PollAgain \/ SessionFails \/ CloseDisabled \/ DisconnectTaken \/ FinishClose

ControllerStep ==
  \/ DisconnectOverdue \/ SaveFails \/ CoolDown \/ UpdateStarts \/ UpdateEnds
  \/ AnchorRestarts

TagStep ==
  \/ Delivered
  \/ \E t \in Tags : TagServes(t) \/ TakeConfig(t) \/ ConfigApplied(t) \/ TagReboots(t)

Next == Ask \/ PairingStep \/ SessionStep \/ ControllerStep \/ TagStep

Spec == Init /\ [][Next]_vars

\* The main loop runs on and its clock advances; nothing is assumed of worker,
\* radio and tag.  A firmware session ends, and as its job has a budget of
\* attempts, firmware cannot keep the controller whenever it is free.
Fairness ==
  /\ SF_vars(Start)
  /\ WF_vars(SessionFails) /\ WF_vars(PairFails) /\ WF_vars(DisconnectOverdue)
  /\ WF_vars(CoolDown) /\ WF_vars(UpdateEnds)

FairSpec == Spec /\ Fairness

-----------------------------------------------------------------------------
(* Properties                                                              *)

\* Every variable has its type.
TypeOK ==
  /\ motion \in [Slots -> MotionSlot]
  /\ ses \in Session
  /\ pairing \in Pairing /\ paired \subseteq Tags /\ durable \subseteq Tags
  /\ {updating, cooling, disabled} \subseteq BOOLEAN
  /\ adopted \in [Tags -> BOOLEAN]
  /\ air \in Request \cup {None}
  /\ answer \in [pending : BOOLEAN, config : Config] \cup {None}
  /\ inbox \in [Tags -> Request \cup {None}]
  /\ dev \in [Tags -> Settings]
  /\ asks \in 0..AskMax

\* What the anchor calls known is what the tag has saved and works by, even
\* with an older write still on its way or a newer one saved while the tag
\* applied the last ("An uncertain write makes them unknown", mqtt.md).
KnownIsInForce ==
  \A s \in Slots : motion[s].known =>
    LET d == dev[motion[s].tag]
    IN  d.saved = motion[s].config /\ d.running \in {None, motion[s].config}

\* A tag that is no longer adopted leaves nothing behind but the session that
\* is closing, which will clear its slot ("Removing adoption cancels queued
\* settings work", mqtt.md); adopted again meanwhile it still has one slot.
ForgottenIsGone ==
  \A s \in Slots : motion[s].tag # None =>
    /\ \A r \in Slots \ {s} : motion[r].tag # motion[s].tag
    /\ ~adopted[motion[s].tag] =>
         ses.slot = s /\ ses.await = "Disconnected" /\ ses.forgetting /\ ~motion[s].queued

\* What the anchor works for, and a pairing it reports as successful, survive
\* a restart, also when the snapshot could not be saved.
PairedForGood ==
  /\ paired \subseteq durable
  /\ pairing.ok => pairing.tag \in durable
  /\ \A s \in Slots : motion[s].tag # None => motion[s].tag \in durable

\* A write replaces the whole record, and keeps what the tag has saved of
\* each field that nobody asked to change.
PatchKeepsTheRest ==
  [][air' # None /\ air' # air /\ air'.smp = "ConfigWrite" =>
       \A f \in Fields : ses.patch[f] = None =>
         air'.config[f] = dev[SessionTag].saved[f]]_vars

\* The value last asked of a field: queued, or carried by the session.
Newest(s, f) ==
  IF motion[s].patch[f] # None THEN motion[s].patch[f]
  ELSE IF ses.slot = s THEN ses.patch[f] ELSE None

\* A value that was accepted is replaced by a newer one, known to be in force,
\* reported as failed, or its tag was forgotten; also when it was asked while
\* another session of the tag was being verified or closed.
NoRequestLost ==
  [][\A s \in Slots, f \in Fields :
       LET old == Newest(s, f) new == Newest(s, f)'
       IN  old # None /\ new # old =>
             \/ new # None /\ asks' # asks
             \/ new = None /\ \/ motion[s].phase = "Failed"
                              \/ motion[s].known /\ motion[s].config[f] = old
             \/ motion'[s].tag = None
             \/ disabled]_vars

\* A request is taken up, whatever becomes of the sessions before it, unless
\* the updater disables itself.
RequestsServed ==
  \A s \in Slots : motion[s].queued ~> ~motion[s].queued \/ disabled

=============================================================================
