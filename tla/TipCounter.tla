------------------------------ MODULE TipCounter ------------------------------
(***************************************************************************)
(* How a tag counts the times its bin is tipped: tip_policy.c, which turns *)
(* samples of gravity into events, and tip_monitor.c, which reads the      *)
(* sensor and saves each event before it is published, over failing reads, *)
(* failing saves and restarts in any position.                             *)
(*                                                                         *)
(* A sample says how the bin is held against the upright it learned: "up"  *)
(* (within 45 degrees), "side" (under 90) or "down".  Of time it matters   *)
(* whether a sample follows the last one within 120 ms, which it does when *)
(* sampling is fast, or starts anew.                                       *)
(***************************************************************************)
EXTENDS Naturals

CONSTANTS
  Calibrate,  \* samples that make a reference (50)
  Invert,     \* samples that make a tip (3)
  Rearm,      \* samples that make the bin upright again (5)
  CountMax,   \* where the counter saturates (UINT32_MAX)
  TipMax,     \* bound: times the bin is really tipped
  FaultMax    \* bound: late, shaken or failed samples, failed saves, restarts

ASSUME TipAssumption ==
  /\ {Calibrate, Invert, Rearm, CountMax} \subseteq Nat \ {0}
  /\ {TipMax, FaultMax} \subseteq Nat

VARIABLES
  s,       \* br_tip_state
  m,       \* br_tip_monitor
  saved,   \* the record in flash
  moving,  \* what the motion policy says
  pos,     \* how the bin is held
  tips,    \* how often it was really tipped
  wasUp,   \* it was upright since it was last tipped
  faults   \* how many of those so far

vars == <<s, m, saved, moving, pos, tips, wasUp, faults>>
world == <<moving, pos, tips, wasUp>>

Record == [calibrated : BOOLEAN, count : 0..CountMax]

State == [record : Record, armed : BOOLEAN, fast : BOOLEAN,
          calibration : 0..Calibrate, inverted : 0..Invert, upright : 0..Rearm]

\* wait  now < next_save
Monitor == [committed : 0..CountMax, healthy : BOOLEAN, dirty : BOOLEAN,
            error : BOOLEAN, loadError : BOOLEAN, wait : BOOLEAN]

NoRecord == [calibrated |-> FALSE, count |-> 0]

\* (bug) A tag that learned its reference starts armed.
StartsArmed(r) == [record |-> r, armed |-> r.calibrated, fast |-> FALSE, calibration |-> 0,
                   inverted |-> 0, upright |-> 0]

\* br_tip_init(): a bin that is inverted has to be upright first.
Starts(r) == [record |-> r, armed |-> FALSE, fast |-> FALSE, calibration |-> 0,
              inverted |-> 0, upright |-> 0]

\* br_tip_monitor_init(), with a record that loads or does not
Boot(r, bad) ==
  LET loaded == IF bad THEN NoRecord ELSE r
  IN  /\ s' = Starts(loaded)
      /\ m' = [committed |-> loaded.count, healthy |-> FALSE, dirty |-> FALSE,
               error |-> bad, loadError |-> bad, wait |-> FALSE]

Init ==
  /\ saved \in {[calibrated |-> c, count |-> 0] : c \in BOOLEAN}
  /\ s = Starts(saved)
  /\ m = [committed |-> 0, healthy |-> FALSE, dirty |-> FALSE,
          error |-> FALSE, loadError |-> FALSE, wait |-> FALSE]
  /\ moving \in BOOLEAN /\ pos = "up" /\ tips = 0 /\ wasUp = TRUE /\ faults = 0

-----------------------------------------------------------------------------
(* tip_policy.c                                                            *)

\* br_tip_invalid()
Invalid(t) == [t EXCEPT !.calibration = 0, !.inverted = 0, !.upright = 0]

\* A tipped bin: upright again after enough samples in a row.  It is sampled
\* fast from the moment it comes back over 90 degrees.
Unarmed(t, p) ==
  IF p # "up" THEN [t EXCEPT !.upright = 0, !.inverted = 0, !.fast = p = "side"]
  ELSE IF t.upright + 1 < Rearm
       THEN [t EXCEPT !.upright = @ + 1, !.inverted = 0, !.fast = TRUE]
       ELSE [t EXCEPT !.armed = TRUE, !.upright = 0, !.inverted = 0, !.fast = FALSE]

\* (bug) A bin that leans is not sampled any faster.
LeansSlowly(p) == FALSE

Leans(p) == p # "up"

\* (bug) The counter does not saturate.
ArmedUnbounded(t, p) ==
  IF p # "down" THEN [t EXCEPT !.upright = 0, !.inverted = 0, !.fast = Leans(p)]
  ELSE IF t.inverted + 1 < Invert
       THEN [t EXCEPT !.upright = 0, !.inverted = @ + 1, !.fast = Leans(p)]
       ELSE [t EXCEPT !.upright = 0, !.inverted = 0, !.fast = FALSE, !.armed = FALSE,
                      !.record.count = @ + 1]

\* An upright bin: tipped after enough samples in a row past 90 degrees.
Armed(t, p) ==
  IF p # "down" THEN [t EXCEPT !.upright = 0, !.inverted = 0, !.fast = Leans(p)]
  ELSE IF t.inverted + 1 < Invert
       THEN [t EXCEPT !.upright = 0, !.inverted = @ + 1, !.fast = Leans(p)]
       ELSE [t EXCEPT !.upright = 0, !.inverted = 0, !.fast = FALSE, !.armed = FALSE,
                      !.record.count = IF @ = CountMax THEN @ ELSE @ + 1]

\* The reference is learned while nothing moves.
Learning(t) ==
  IF moving THEN Invalid(t)
  ELSE IF t.calibration + 1 < Calibrate THEN [t EXCEPT !.calibration = @ + 1]
  ELSE [t EXCEPT !.calibration = @ + 1, !.record.calibrated = TRUE, !.armed = TRUE]

\* br_tip_sample() in time, late, or of a bin that is shaken: not of gravity
Sampled(t, p, how) ==
  LET u == IF how = "in time" THEN t ELSE Invalid(t)
  IN  IF how = "shaken" THEN u
      ELSE IF ~u.record.calibrated THEN Learning(u)
      ELSE IF u.armed THEN Armed(u, p) ELSE Unarmed(u, p)

\* br_tip_interval(): in time for the next sample to count with this one
Fast == moving \/ ~s.record.calibrated \/ s.fast

-----------------------------------------------------------------------------
(* tip_monitor.c                                                           *)

\* (bug) The record counts as saved whatever the save returned.
SavedAnyway(mon, t, ok) == [mon EXCEPT !.dirty = FALSE, !.committed = t.record.count,
                                       !.error = ~ok, !.wait = FALSE]

\* The end of br_tip_monitor_update(): what a save does to the monitor
SaveDone(mon, t, ok) ==
  IF ok THEN [mon EXCEPT !.dirty = FALSE, !.committed = t.record.count,
                         !.error = FALSE, !.wait = FALSE]
  ELSE [mon EXCEPT !.error = TRUE, !.wait = TRUE]

\* A save that fails may have written the record all the same.
Saves(mon, t) ==
  \/ /\ ~mon.dirty \/ mon.wait
     /\ m' = mon /\ UNCHANGED saved
  \/ /\ mon.dirty /\ ~mon.wait
     /\ m' = SaveDone(mon, t, TRUE) /\ saved' = t.record

SaveFails(mon, t) ==
  /\ mon.dirty /\ ~mon.wait /\ faults < FaultMax
  /\ m' = SaveDone(mon, t, FALSE)
  /\ saved' \in {saved, t.record}
  /\ faults' = faults + 1

\* br_tip_monitor_update() with a sample, then the save it calls for
Update(how) ==
  LET t == Sampled(s, pos, how)
      changed == t.record # s.record
      mon == [m EXCEPT !.healthy = TRUE, !.error = @ /\ m.dirty,
                       !.dirty = @ \/ changed, !.wait = @ /\ ~changed]
      fault == IF how = "shaken" \/ (how = "late" /\ Fast) THEN 1 ELSE 0
  IN  /\ ~m.loadError
      /\ how = "in time" => Fast
      /\ faults + fault <= FaultMax
      /\ s' = t
      /\ \/ Saves(mon, t) /\ faults' = faults + fault
         \/ fault = 0 /\ SaveFails(mon, t)
      /\ UNCHANGED world

\* The sensor cannot be read, or has had nothing new for too long.
ReadFails ==
  /\ ~m.loadError /\ faults < FaultMax
  /\ s' = Invalid(s)
  /\ Saves([m EXCEPT !.healthy = FALSE, !.error = TRUE], s)
  /\ faults' = faults + 1
  /\ UNCHANGED world

\* A second after a failed save; between samples it is tried by itself.
RetrySave ==
  /\ m.dirty /\ m.wait
  /\ \/ Saves([m EXCEPT !.wait = FALSE], s) /\ UNCHANGED faults
     \/ SaveFails([m EXCEPT !.wait = FALSE], s)
  /\ UNCHANGED s /\ UNCHANGED world

\* br_tip_monitor_ready()
TipReady == s.record.calibrated /\ m.healthy /\ ~m.dirty /\ ~m.error

-----------------------------------------------------------------------------
(* The bin and the tag's restarts                                          *)

\* A tag is installed upright: the bin stays so until its reference is known.
Move(p) ==
  /\ pos # p /\ s.record.calibrated
  /\ p = "down" /\ wasUp => tips < TipMax
  /\ pos' = p
  /\ tips' = IF p = "down" /\ wasUp THEN tips + 1 ELSE tips
  /\ wasUp' = (p = "up" \/ (wasUp /\ p # "down"))
  /\ UNCHANGED <<s, m, saved, moving, faults>>

MotionChanges ==
  /\ moving' = ~moving
  /\ UNCHANGED <<s, m, saved, pos, tips, wasUp, faults>>

\* The flash may not be readable.
Reboots ==
  /\ pos = "up" \/ saved.calibrated
  /\ faults < FaultMax
  /\ \E bad \in BOOLEAN : Boot(saved, bad)
  /\ faults' = faults + 1
  /\ UNCHANGED saved /\ UNCHANGED world

Samples == \E how \in {"in time", "late", "shaken"} : Update(how)

Next == Samples \/ ReadFails \/ RetrySave \/ MotionChanges \/ Reboots
        \/ \E p \in {"up", "side", "down"} : Move(p)

Spec == Init /\ [][Next]_vars

\* The main loop goes on sampling and saving, and faults cease.
FairSpec == Spec /\ WF_vars(Samples) /\ WF_vars(RetrySave)

-----------------------------------------------------------------------------
(* Properties                                                              *)

\* Every variable has its type; the counter saturates.
TypeOK ==
  /\ s \in State /\ m \in Monitor /\ saved \in Record
  /\ moving \in BOOLEAN /\ pos \in {"up", "side", "down"} /\ wasUp \in BOOLEAN
  /\ tips \in 0..TipMax /\ faults \in 0..FaultMax

\* The tag never counts more than there was: not when the bin hovers about the
\* threshold, nor when it restarts upside down, nor when a save is repeated.
CountsRealTips ==
  /\ s.record.count <= tips /\ saved.count <= tips
  /\ s.armed /\ ~wasUp => s.record.count < tips

\* What is published is saved: a restart does not take it back, and a tag that
\* says its counter is ready has nothing to lose.
PublishedIsSaved ==
  /\ ~m.loadError => m.committed <= saved.count
  /\ TipReady => saved = s.record /\ m.committed = saved.count

\* A bin that stays tipped is counted, also when it was tipped too slowly for
\* the motion interrupt; one that stays upright is armed again; and what was
\* counted is published, unless the tag restarts before it is saved.
BinFollowed ==
  /\ pos = "down" /\ s.armed ~> pos # "down" \/ ~s.armed
  /\ pos = "up" /\ ~s.armed ~> pos # "up" \/ s.armed \/ m.loadError \/ ~s.record.calibrated
  /\ m.committed < s.record.count ~> m.committed = s.record.count

=============================================================================
