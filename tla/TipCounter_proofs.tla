-------------------------- MODULE TipCounter_proofs --------------------------
(***************************************************************************)
(* Proofs about TipCounter: for every threshold, any number of tips and of *)
(* faults no tip is invented, and what is published as ready is saved.     *)
(***************************************************************************)
EXTENDS TipCounter, TLAPS

\* What the thresholds allow
LEMMA Constants ==
  /\ Calibrate \in Nat /\ Calibrate > 0 /\ Invert \in Nat /\ Invert > 0
  /\ Rearm \in Nat /\ Rearm > 0 /\ CountMax \in Nat /\ CountMax > 0
  /\ TipMax \in Nat /\ FaultMax \in Nat
<1>1. Calibrate \in Nat \ {0} /\ Invert \in Nat \ {0} /\ Rearm \in Nat \ {0} /\ CountMax \in Nat \ {0}
  BY TipAssumption DEF TipAssumption
<1>2. TipMax \in Nat /\ FaultMax \in Nat
  BY TipAssumption DEF TipAssumption
<1>3. QED
  BY <1>1, <1>2

\* Every counter may start at zero.
LEMMA Zeros ==
  /\ 0 \in 0..Calibrate /\ 0 \in 0..Invert /\ 0 \in 0..Rearm
  /\ 0 \in 0..CountMax /\ 0 \in 0..TipMax /\ 0 \in 0..FaultMax
  BY Constants

\* Counting towards a limit, and past it
LEMMA Up ==
  ASSUME NEW a \in Nat, NEW x \in 0..a, x < a \/ x + 1 < a
  PROVE  x + 1 \in 0..a
  OBVIOUS

\* The number of faults keeps within its bound.
LEMMA StaysBelow ==
  ASSUME NEW a \in Nat, NEW x \in 0..a, NEW f \in {0, 1}, NEW y,
         (y = x + f /\ x + f <= a) \/ (y = x + 1 /\ x < a)
  PROVE  y \in 0..a
  OBVIOUS

\* The counter stops at its largest value.
LEMMA Saturates ==
  ASSUME NEW x \in 0..CountMax, NEW n, n = IF x = CountMax THEN x ELSE x + 1
  PROVE  /\ n \in 0..CountMax /\ n \in {x, x + 1}
         /\ \A y \in Nat : x < y => n <= y
  BY Constants

\* The parts of a state
LEMMA StateParts ==
  ASSUME NEW t \in State
  PROVE  /\ t.record \in Record /\ t.record.count \in 0..CountMax
         /\ t.record.calibrated \in BOOLEAN /\ t.armed \in BOOLEAN /\ t.fast \in BOOLEAN
         /\ t.calibration \in 0..Calibrate /\ t.inverted \in 0..Invert
         /\ t.upright \in 0..Rearm
  BY Zenon DEF State, Record

\* What the types leave of the variables
LEMMA Types ==
  ASSUME TypeOK
  PROVE  /\ s \in State /\ m \in Monitor /\ saved \in Record
         /\ moving \in BOOLEAN /\ pos \in {"up", "side", "down"} /\ wasUp \in BOOLEAN
         /\ tips \in 0..TipMax /\ tips \in Nat /\ faults \in 0..FaultMax
         /\ saved.count \in 0..CountMax /\ saved.count \in Nat
         /\ saved.calibrated \in BOOLEAN
         /\ m.committed \in 0..CountMax /\ m.committed \in Nat
         /\ s.record.count \in Nat
<1>1. /\ s \in State /\ m \in Monitor /\ saved \in Record
      /\ moving \in BOOLEAN /\ pos \in {"up", "side", "down"} /\ wasUp \in BOOLEAN
      /\ tips \in 0..TipMax /\ faults \in 0..FaultMax
  BY Zenon DEF TypeOK
<1>2. /\ saved.count \in 0..CountMax /\ saved.calibrated \in BOOLEAN
      /\ m.committed \in 0..CountMax /\ s.record.count \in 0..CountMax
  BY <1>1, StateParts, Zenon DEF Record, Monitor
<1>3. tips \in Nat /\ saved.count \in Nat /\ m.committed \in Nat /\ s.record.count \in Nat
  BY <1>1, <1>2, Constants
<1>4. QED
  BY <1>1, <1>2, <1>3

-----------------------------------------------------------------------------
(* The inductive invariant                                                 *)

\* The bin was not upright since it is tipped, and stays upright until its
\* reference is learned.
BinKnown ==
  /\ pos = "down" => ~wasUp
  /\ pos = "up" => wasUp
  /\ ~s.record.calibrated /\ ~m.loadError => pos = "up"
  /\ ~s.record.calibrated => s.calibration < Calibrate

\* The record in memory, what was committed and the record in flash agree
\* unless a save is due, and a tag that could not load its record stays out.
RecordsAgree ==
  /\ m.loadError => ~m.healthy /\ ~m.dirty
  /\ ~m.loadError => /\ m.committed <= saved.count
                     /\ m.committed <= s.record.count
                     /\ ~m.dirty => saved = s.record /\ m.committed = s.record.count

IInv == TypeOK /\ CountsRealTips /\ BinKnown /\ RecordsAgree

\* The properties follow from the invariant.
LEMMA IInvImplies == IInv => PublishedIsSaved
  BY DEF IInv, RecordsAgree, PublishedIsSaved, TipReady, TypeOK, State, Record, Monitor

\* br_tip_monitor_init() on a tag that is installed
LEMMA InitHolds == Init => IInv
<1> SUFFICES ASSUME Init PROVE IInv
  OBVIOUS
<1>1. PICK c \in BOOLEAN : saved = [calibrated |-> c, count |-> 0]
  BY DEF Init
<1>2. TypeOK
  <2>1. saved \in Record
    BY <1>1, Zeros, Zenon DEF Record
  <2>2. s \in State
    BY <2>1, Zeros, Zenon DEF Init, State, Starts
  <2>3. m \in Monitor
    BY Zeros, Zenon DEF Init, Monitor
  <2>4. QED
    BY <2>1, <2>2, <2>3, Zeros, Zenon DEF Init, TypeOK
<1>3. CountsRealTips /\ BinKnown /\ RecordsAgree
  <2>1. /\ saved.count = 0 /\ s.record = saved /\ ~s.armed /\ s.calibration = 0
        /\ m.committed = 0 /\ ~m.dirty /\ ~m.loadError /\ tips = 0 /\ pos = "up" /\ wasUp
    BY <1>1, Zenon DEF Init, Starts
  <2>2. QED
    BY <2>1, Constants DEF CountsRealTips, BinKnown, RecordsAgree
<1>4. QED
  BY <1>2, <1>3 DEF IInv

-----------------------------------------------------------------------------
(* A sample                                                                *)

\* t is what a sample may make of the state u.
Follows(u, t) ==
  /\ t \in State
  /\ t.record.count \in {u.record.count, u.record.count + 1}
  /\ t.record.count <= tips
  /\ t.armed /\ ~wasUp => t.record.count < tips
  /\ u.record.calibrated => t.record.calibrated
  /\ ~t.record.calibrated => t.calibration < Calibrate

\* An invalid sample only forgets the samples before it.
LEMMA InvalidFollows ==
  ASSUME NEW u \in State, u.record.count <= tips,
         u.armed /\ ~wasUp => u.record.count < tips
  PROVE  Follows(u, Invalid(u))
<1>0. 0 \in 0..Calibrate /\ 0 \in 0..Invert /\ 0 \in 0..Rearm
  BY Constants
<1>1. Invalid(u) \in State
  BY <1>0, Zenon DEF Invalid, State
<1>2. /\ Invalid(u).record = u.record /\ Invalid(u).armed = u.armed
      /\ Invalid(u).calibration = 0
  BY DEF Invalid, State
<1>3. 0 < Calibrate /\ u.record.count \in Nat
  BY Constants DEF State, Record
<1>4. QED
  BY <1>1, <1>2, <1>3 DEF Follows

\* A sample counts a tip only if there was one.
LEMMA SampledFollows ==
  ASSUME IInv, ~m.loadError, NEW how \in {"in time", "late", "shaken"}
  PROVE  Follows(s, Sampled(s, pos, how))
<1> DEFINE u == IF how = "in time" THEN s ELSE Invalid(s)
<1>0. /\ s \in State /\ pos \in {"up", "side", "down"} /\ tips \in Nat
      /\ moving \in BOOLEAN /\ wasUp \in BOOLEAN
  BY Types DEF IInv
<1>1. Follows(s, Invalid(s)) /\ Follows(s, s)
  BY <1>0, InvalidFollows DEF IInv, CountsRealTips, BinKnown, Follows
<1>2. /\ u \in State /\ u.record = s.record /\ u.armed = s.armed
      /\ ~u.record.calibrated => u.calibration < Calibrate
  <2>1. CASE how = "in time"
    BY <1>0, <2>1 DEF IInv, BinKnown
  <2>2. CASE how # "in time"
    <3>1. Invalid(s).record = s.record /\ Invalid(s).armed = s.armed
      BY <1>0, Zenon DEF Invalid, State
    <3>2. QED
      BY <1>1, <2>2, <3>1 DEF Follows
  <2>3. QED
    BY <2>1, <2>2
<1>3. Follows(s, u)
  BY <1>1
<1>4. /\ u.record.count <= tips
      /\ u.armed /\ ~wasUp => u.record.count < tips
      /\ u.record.count \in 0..CountMax /\ u.record.calibrated \in BOOLEAN
      /\ u.calibration \in 0..Calibrate /\ u.inverted \in 0..Invert /\ u.upright \in 0..Rearm
      /\ u.armed \in BOOLEAN /\ u.fast \in BOOLEAN
  BY <1>2, StateParts DEF IInv, CountsRealTips
<1> HIDE DEF u
<1>5. CASE how = "shaken"
  BY <1>3, <1>5 DEF Sampled, u
<1>6. CASE how # "shaken" /\ ~u.record.calibrated
  <2>1. Sampled(s, pos, how) = Learning(u)
    BY <1>6 DEF Sampled, u
  <2>2. pos = "up" /\ wasUp
    BY <1>2, <1>6 DEF IInv, BinKnown
  <2>3. CASE moving
    <3>1. Follows(u, Invalid(u))
      BY <1>2, <1>4, InvalidFollows
    <3>2. QED
      BY <1>2, <2>1, <2>3, <3>1 DEF Learning, Follows
  <2>4. CASE ~moving /\ u.calibration + 1 < Calibrate
    <3>1. Learning(u) = [u EXCEPT !.calibration = @ + 1]
      BY <2>4 DEF Learning
    <3> u.calibration + 1 \in 0..Calibrate
      BY <1>4, <2>4, Constants, Up, Zenon
    <3>2. Learning(u) \in State
      BY <1>2, <3>1, Zenon DEF State
    <3>3. /\ Learning(u).record = s.record /\ Learning(u).armed = s.armed
          /\ Learning(u).calibration = u.calibration + 1
      BY <1>2, <3>1 DEF State
    <3>4. QED
      BY <1>2, <1>4, <2>1, <2>2, <2>4, <3>2, <3>3 DEF Follows
  <2>5. CASE ~moving /\ ~(u.calibration + 1 < Calibrate)
    <3>1. Learning(u) = [u EXCEPT !.calibration = @ + 1, !.record.calibrated = TRUE, !.armed = TRUE]
      BY <2>5 DEF Learning
    <3>2. u.calibration + 1 \in 0..Calibrate
      <4>1. u.calibration < Calibrate /\ u.calibration \in 0..Calibrate
        BY <1>2, <1>4, <1>6, Zenon
      <4>2. QED
        BY <4>1, Constants, Up, Zenon
    <3>3. Learning(u) \in State
      BY <1>2, <1>4, <3>1, <3>2 DEF State, Record
    <3>4. /\ Learning(u).record.count = s.record.count /\ Learning(u).record.calibrated
      <4>1. u.record \in Record
        BY <1>2, StateParts
      <4>2. Learning(u).record = [u.record EXCEPT !.calibrated = TRUE]
        BY <1>2, <3>1, Zenon DEF State
      <4>3. QED
        BY <1>2, <4>1, <4>2, Zenon DEF Record
    <3>5. QED
      BY <1>2, <1>4, <2>1, <2>2, <3>3, <3>4 DEF Follows
  <2>6. QED
    BY <1>0, <2>3, <2>4, <2>5
<1>7. CASE how # "shaken" /\ u.record.calibrated /\ u.armed
  <2>1. Sampled(s, pos, how) = Armed(u, pos)
    BY <1>7 DEF Sampled, u
  <2>2. CASE pos # "down"
    <3>1. Armed(u, pos) = [u EXCEPT !.upright = 0, !.inverted = 0, !.fast = Leans(pos)]
      BY <2>2 DEF Armed
    <3>2. Armed(u, pos) \in State
      BY <1>2, <3>1, Zeros, Zenon DEF State, Leans
    <3>3. Armed(u, pos).record = s.record /\ Armed(u, pos).armed = s.armed
      BY <1>2, <3>1 DEF State
    <3>4. QED
      BY <1>2, <1>4, <1>7, <2>1, <3>2, <3>3 DEF Follows
  <2>3. CASE pos = "down" /\ u.inverted + 1 < Invert
    <3>1. Armed(u, pos) = [u EXCEPT !.upright = 0, !.inverted = @ + 1, !.fast = Leans(pos)]
      BY <2>3 DEF Armed
    <3> u.inverted + 1 \in 0..Invert
      BY <1>4, <2>3, Constants, Up, Zenon
    <3>2. Armed(u, pos) \in State
      BY <1>2, <3>1, Zeros, Zenon DEF State, Leans
    <3>3. Armed(u, pos).record = s.record /\ Armed(u, pos).armed = s.armed
      BY <1>2, <3>1 DEF State
    <3>4. QED
      BY <1>2, <1>4, <1>7, <2>1, <3>2, <3>3 DEF Follows
  <2>4. CASE pos = "down" /\ ~(u.inverted + 1 < Invert)
    <3> DEFINE n == IF u.record.count = CountMax THEN u.record.count ELSE u.record.count + 1
    <3>1. Armed(u, pos) = [u EXCEPT !.upright = 0, !.inverted = 0, !.fast = FALSE,
                                    !.armed = FALSE, !.record.count = n]
      BY <2>4 DEF Armed
    <3>2. /\ n \in 0..CountMax /\ n \in {u.record.count, u.record.count + 1}
          /\ \A y \in Nat : u.record.count < y => n <= y
      BY <1>4, Saturates, Zenon
    <3>3. n <= tips
      BY <1>0, <1>4, <1>7, <2>4, <3>2, Zenon DEF IInv, BinKnown
    <3> HIDE DEF n
    <3>4. Armed(u, pos) \in State
      <4>1. [u.record EXCEPT !.count = n] \in Record
        BY <1>2, <3>2, StateParts, Zenon DEF Record
      <4>2. QED
        BY <1>2, <3>1, <4>1, Zeros, Zenon DEF State
    <3>5. /\ Armed(u, pos).record.count = n /\ ~Armed(u, pos).armed
          /\ Armed(u, pos).record.calibrated
      <4>1. u.record \in Record
        BY <1>2, StateParts
      <4>2. /\ Armed(u, pos).record = [u.record EXCEPT !.count = n]
            /\ ~Armed(u, pos).armed
        BY <1>2, <3>1, Zenon DEF State
      <4>3. QED
        BY <1>7, <4>1, <4>2, Zenon DEF Record
    <3>6. QED
      BY <1>2, <2>1, <3>2, <3>3, <3>4, <3>5 DEF Follows
  <2>5. QED
    BY <2>2, <2>3, <2>4
<1>8. CASE how # "shaken" /\ u.record.calibrated /\ ~u.armed
  <2>1. Sampled(s, pos, how) = Unarmed(u, pos)
    BY <1>8 DEF Sampled, u
  <2>2. Unarmed(u, pos) \in State
    <3>1. CASE pos # "up"
      BY <1>2, <3>1, Zeros, Zenon DEF Unarmed, State
    <3>2. CASE pos = "up" /\ u.upright + 1 < Rearm
      <4>1. u.upright + 1 \in 0..Rearm
        BY <1>4, <3>2, Constants, Up, Zenon
      <4>2. QED
        BY <1>2, <3>2, <4>1, Zeros, Zenon DEF Unarmed, State
    <3>3. CASE pos = "up" /\ ~(u.upright + 1 < Rearm)
      BY <1>2, <3>3, Zeros, Zenon DEF Unarmed, State
    <3>4. QED
      BY <3>1, <3>2, <3>3, Zenon
  <2>3. /\ Unarmed(u, pos).record = s.record
        /\ Unarmed(u, pos).armed => pos = "up"
    BY <1>2, <1>8 DEF Unarmed, State
  <2>4. QED
    BY <1>2, <1>4, <1>8, <2>1, <2>2, <2>3 DEF Follows, IInv, BinKnown
<1>9. QED
  BY <1>5, <1>6, <1>7, <1>8 DEF State, Record

-----------------------------------------------------------------------------
(* A save                                                                  *)

\* What a save, done or failed, leaves of monitor and flash: they agree with
\* the record t unless a save is still due.
LEMMA SaveKeeps ==
  ASSUME NEW mon \in Monitor, NEW t \in State, saved \in Record,
         mon.committed <= saved.count, mon.committed <= t.record.count,
         ~mon.dirty => saved = t.record /\ mon.committed = t.record.count,
         Saves(mon, t) \/ SaveFails(mon, t)
  PROVE  /\ m' \in Monitor /\ saved' \in {saved, t.record}
         /\ m'.loadError = mon.loadError
         /\ m'.committed <= saved'.count /\ m'.committed <= t.record.count
         /\ ~m'.dirty => saved' = t.record /\ m'.committed = t.record.count
<1>0. t.record \in Record /\ t.record.count \in 0..CountMax
  BY DEF State, Record
<1>1. CASE m' = mon /\ saved' = saved
  BY <1>1
<1>2. CASE m' = SaveDone(mon, t, TRUE) /\ saved' = t.record
  <2>1. m' \in Monitor
    BY <1>0, <1>2 DEF SaveDone, Monitor
  <2>2. m'.committed = t.record.count /\ m'.loadError = mon.loadError
    BY <1>2 DEF SaveDone, Monitor
  <2>3. t.record.count <= t.record.count
    BY <1>0, Constants
  <2>4. QED
    BY <1>2, <2>1, <2>2, <2>3, Zenon
<1>3. CASE mon.dirty /\ m' = SaveDone(mon, t, FALSE) /\ saved' \in {saved, t.record}
  <2>1. m' \in Monitor
    BY <1>3 DEF SaveDone, Monitor
  <2>2. m'.committed = mon.committed /\ m'.loadError = mon.loadError /\ m'.dirty = mon.dirty
    BY <1>3 DEF SaveDone, Monitor
  <2>3. QED
    BY <1>3, <2>1, <2>2
<1>4. QED
  BY <1>1, <1>2, <1>3 DEF Saves, SaveFails

\* So a step that samples or saves keeps the invariant.
LEMMA SavingKeeps ==
  ASSUME IInv, ~m.loadError, NEW t \in State, Follows(s, t), NEW mon \in Monitor,
         ~mon.loadError, mon.committed = m.committed,
         ~mon.dirty => ~m.dirty /\ t.record = s.record,
         Saves(mon, t) \/ SaveFails(mon, t),
         s' = t, faults' \in 0..FaultMax, UNCHANGED world
  PROVE  IInv'
<1>0. /\ s \in State /\ saved \in Record /\ m \in Monitor /\ tips \in Nat
      /\ saved.count \in 0..CountMax /\ s.record.count \in 0..CountMax
      /\ t.record \in Record /\ t.record.count \in 0..CountMax
      /\ m.committed \in 0..CountMax
  BY DEF IInv, TypeOK, State, Record, Monitor
<1>1. /\ mon.committed <= saved.count /\ mon.committed <= t.record.count
      /\ ~mon.dirty => saved = t.record /\ mon.committed = t.record.count
  BY <1>0 DEF IInv, RecordsAgree, Follows
<1>2. /\ m' \in Monitor /\ saved' \in {saved, t.record} /\ ~m'.loadError
      /\ m'.committed <= saved'.count /\ m'.committed <= t.record.count
      /\ ~m'.dirty => saved' = t.record /\ m'.committed = t.record.count
  BY <1>0, <1>1, SaveKeeps
<1>3. TypeOK'
  BY <1>0, <1>2 DEF IInv, TypeOK, world
<1>4. CountsRealTips'
  BY <1>0, <1>2 DEF IInv, CountsRealTips, Follows, world
<1>5. BinKnown'
  BY <1>2 DEF IInv, BinKnown, Follows, world
<1>6. RecordsAgree'
  BY <1>2 DEF RecordsAgree
<1>7. QED
  BY <1>3, <1>4, <1>5, <1>6 DEF IInv

-----------------------------------------------------------------------------
(* The steps                                                               *)

\* br_tip_monitor_update() with a sample
LEMMA UpdateKeeps ==
  ASSUME IInv, NEW how \in {"in time", "late", "shaken"}, Update(how)
  PROVE  IInv'
<1> DEFINE t == Sampled(s, pos, how)
           changed == t.record # s.record
           mon == [m EXCEPT !.healthy = TRUE, !.error = @ /\ m.dirty,
                            !.dirty = @ \/ changed, !.wait = @ /\ ~changed]
           fault == IF how = "shaken" \/ (how = "late" /\ Fast) THEN 1 ELSE 0
<1>1. /\ ~m.loadError /\ faults + fault <= FaultMax /\ s' = t
      /\ \/ Saves(mon, t) /\ faults' = faults + fault
         \/ fault = 0 /\ SaveFails(mon, t)
      /\ UNCHANGED world
  BY DEF Update
<1>2. Follows(s, t) /\ t \in State
  BY <1>1, SampledFollows DEF Follows
<1>3. faults \in 0..FaultMax /\ m \in Monitor /\ fault \in {0, 1}
  BY DEF IInv, TypeOK
<1>4. faults' \in 0..FaultMax
  <2>1. \/ faults' = faults + fault /\ faults + fault <= FaultMax
        \/ faults' = faults + 1 /\ faults < FaultMax
    BY <1>1, Zenon DEF SaveFails
  <2> HIDE DEF fault
  <2>2. QED
    BY <1>3, <2>1, Constants, StaysBelow, Zenon
<1> HIDE DEF t, fault
<1>5. changed \in BOOLEAN
  OBVIOUS
<1>6. /\ mon \in Monitor /\ ~mon.loadError /\ mon.committed = m.committed
      /\ ~mon.dirty => ~m.dirty /\ ~changed
  BY <1>1, <1>3, <1>5 DEF Monitor
<1> HIDE DEF mon
<1>7. QED
  BY <1>1, <1>2, <1>4, <1>6, SavingKeeps

\* br_tip_monitor_update() without one
LEMMA ReadFailsKeeps == ASSUME IInv, ReadFails PROVE IInv'
<1> DEFINE mon == [m EXCEPT !.healthy = FALSE, !.error = TRUE]
<1>1. /\ s \in State /\ m \in Monitor /\ faults \in 0..FaultMax
  BY DEF IInv, TypeOK
<1>2. Follows(s, Invalid(s)) /\ Invalid(s) \in State /\ Invalid(s).record = s.record
  BY <1>1, InvalidFollows DEF IInv, CountsRealTips, Follows, Invalid, State
<1>3. /\ mon \in Monitor /\ mon.loadError = m.loadError
      /\ mon.committed = m.committed /\ mon.dirty = m.dirty
  BY <1>1 DEF Monitor
<1>4. /\ ~m.loadError /\ s' = Invalid(s) /\ Saves(mon, s)
      /\ faults < FaultMax /\ faults' = faults + 1 /\ UNCHANGED world
  BY Zenon DEF ReadFails
<1>5. faults' \in 0..FaultMax
  BY <1>1, <1>4, Constants
<1>6. Saves(mon, Invalid(s))
  BY <1>2, <1>4 DEF Saves, SaveDone
<1> HIDE DEF mon
<1>7. QED
  BY <1>2, <1>3, <1>4, <1>6, <1>5, SavingKeeps

\* br_tip_monitor_update() a second after a failed save
LEMMA RetrySaveKeeps == ASSUME IInv, RetrySave PROVE IInv'
<1> DEFINE mon == [m EXCEPT !.wait = FALSE]
<1>1. s \in State /\ m \in Monitor /\ faults \in 0..FaultMax
  BY DEF IInv, TypeOK
<1>2. Follows(s, s)
  BY <1>1 DEF IInv, CountsRealTips, BinKnown, Follows
<1>3. /\ mon \in Monitor /\ mon.loadError = m.loadError
      /\ mon.committed = m.committed /\ mon.dirty = m.dirty
  BY <1>1 DEF Monitor
<1>4. /\ m.dirty /\ s' = s /\ UNCHANGED world
      /\ Saves(mon, s) \/ SaveFails(mon, s)
      /\ faults' = faults \/ (faults < FaultMax /\ faults' = faults + 1)
  BY Zenon DEF RetrySave, SaveFails
<1>5. faults' \in 0..FaultMax
  BY <1>1, <1>4, Constants
<1>6. ~m.loadError
  BY <1>4 DEF IInv, RecordsAgree
<1> HIDE DEF mon
<1>7. QED
  BY <1>1, <1>2, <1>3, <1>4, <1>6, <1>5, SavingKeeps

\* The bin moves.
LEMMA MoveKeeps ==
  ASSUME IInv, NEW p \in {"up", "side", "down"}, Move(p) PROVE IInv'
<1>0. /\ tips \in 0..TipMax /\ wasUp \in BOOLEAN /\ s \in State
      /\ saved \in Record /\ s.record.count \in 0..CountMax /\ saved.count \in 0..CountMax
  BY DEF IInv, TypeOK, State, Record
<1>1. /\ UNCHANGED <<s, m, saved, moving, faults>> /\ pos' = p /\ s.record.calibrated
      /\ tips' = IF p = "down" /\ wasUp THEN tips + 1 ELSE tips
      /\ wasUp' = (p = "up" \/ (wasUp /\ p # "down"))
      /\ p = "down" /\ wasUp => tips < TipMax
  BY DEF Move
<1>2. TypeOK'
  <2>1. tips' \in 0..TipMax
    <3>1. CASE p = "down" /\ wasUp
      BY <1>0, <1>1, <3>1, Constants
    <3>2. CASE ~(p = "down" /\ wasUp)
      BY <1>0, <1>1, <3>2, Zenon
    <3>3. QED
      BY <3>1, <3>2
  <2>2. wasUp' \in BOOLEAN /\ pos' \in {"up", "side", "down"}
    BY <1>1, Zenon
  <2>3. QED
    BY <1>1, <2>1, <2>2, Zenon DEF IInv, TypeOK
<1>3. CountsRealTips'
  BY <1>0, <1>1 DEF IInv, CountsRealTips
<1>4. BinKnown'
  BY <1>1 DEF BinKnown
<1>5. RecordsAgree'
  BY <1>1 DEF IInv, RecordsAgree
<1>6. QED
  BY <1>2, <1>3, <1>4, <1>5 DEF IInv

\* br_tip_monitor_init() after a restart
LEMMA RebootsKeeps == ASSUME IInv, Reboots PROVE IInv'
<1>1. PICK bad \in BOOLEAN : Boot(saved, bad)
  BY DEF Reboots
<1> DEFINE r == IF bad THEN NoRecord ELSE saved
<1>2. /\ r \in Record /\ saved \in Record /\ r.count \in 0..CountMax /\ r.count <= saved.count
      /\ saved.count \in Nat /\ tips \in Nat
  <2>1. CASE bad
    <3>1. r \in Record /\ r.count = 0
      BY <2>1, Zeros, Zenon DEF NoRecord, Record
    <3>2. QED
      BY <3>1, Types, Constants DEF IInv
  <2>2. CASE ~bad
    <3>1. r = saved
      BY <2>2
    <3>2. QED
      BY <3>1, Types, Constants DEF IInv
  <2>3. QED
    BY <2>1, <2>2
<1>3. /\ s' = Starts(r)
      /\ m' = [committed |-> r.count, healthy |-> FALSE, dirty |-> FALSE,
               error |-> bad, loadError |-> bad, wait |-> FALSE]
  BY <1>1 DEF Boot
<1>4. /\ UNCHANGED saved /\ UNCHANGED world
      /\ pos = "up" \/ saved.calibrated
      /\ faults < FaultMax /\ faults' = faults + 1
  BY Zenon DEF Reboots
<1>5. faults' \in 0..FaultMax
  BY <1>4, Types, Constants DEF IInv
<1>6. bad \/ r = saved
  OBVIOUS
<1> HIDE DEF r
<1>7. /\ s' \in State /\ s'.record = r /\ ~s'.armed /\ s'.calibration = 0
  BY <1>2, <1>3, Zeros, Zenon DEF Starts, State
<1>8. /\ m' \in Monitor /\ m'.committed = r.count /\ m'.loadError = bad
      /\ ~m'.healthy /\ ~m'.dirty
  BY <1>2, <1>3 DEF Monitor
<1>9. TypeOK'
  BY <1>4, <1>7, <1>8, <1>5 DEF IInv, TypeOK, world
<1>10. CountsRealTips'
  BY <1>2, <1>4, <1>7 DEF IInv, CountsRealTips, world
<1>11. BinKnown'
  <2>1. 0 < Calibrate
    BY Constants
  <2>2. QED
    BY <1>4, <1>6, <1>7, <1>8, <2>1, Zenon DEF IInv, BinKnown, world
<1>12. RecordsAgree'
  BY <1>2, <1>4, <1>6, <1>7, <1>8 DEF RecordsAgree
<1>13. QED
  BY <1>9, <1>10, <1>11, <1>12 DEF IInv

\* The motion policy changes its mind, or nothing happens.
LEMMA MotionKeeps ==
  ASSUME IInv, MotionChanges \/ UNCHANGED vars PROVE IInv'
<1>1. UNCHANGED <<s, m, saved, pos, tips, wasUp, faults>> /\ moving' \in BOOLEAN
  BY DEF IInv, TypeOK, MotionChanges, vars
<1>2. QED
  BY <1>1 DEF IInv, TypeOK, CountsRealTips, BinKnown, RecordsAgree

\* The inductive invariant holds in every reachable state.
THEOREM InvariantHolds == Spec => []IInv
<1>1. Init => IInv
  BY InitHolds
<1>2. IInv /\ [Next]_vars => IInv'
  <2> SUFFICES ASSUME IInv, [Next]_vars PROVE IInv'
    OBVIOUS
  <2>1. CASE Samples
    BY <2>1, UpdateKeeps DEF Samples
  <2>2. CASE ReadFails
    BY <2>2, ReadFailsKeeps
  <2>3. CASE RetrySave
    BY <2>3, RetrySaveKeeps
  <2>4. CASE Reboots
    BY <2>4, RebootsKeeps
  <2>5. CASE \E p \in {"up", "side", "down"} : Move(p)
    BY <2>5, MoveKeeps
  <2>6. CASE MotionChanges \/ UNCHANGED vars
    BY <2>6, MotionKeeps
  <2>7. QED
    BY <2>1, <2>2, <2>3, <2>4, <2>5, <2>6 DEF Next
<1>3. QED
  BY <1>1, <1>2, PTL DEF Spec

\* tip_policy.c and tip_monitor.c keep their records within their types.
THEOREM TypeCorrect == Spec => []TypeOK
<1>1. IInv => TypeOK
  BY DEF IInv
<1>2. QED
  BY <1>1, InvariantHolds, PTL

\* br_tip_sample() never counts a tip that was not.
THEOREM TipsAreReal == Spec => []CountsRealTips
<1>1. IInv => CountsRealTips
  BY DEF IInv
<1>2. QED
  BY <1>1, InvariantHolds, PTL

\* What br_tip_monitor_ready() lets be published is in flash.
THEOREM ReadyIsSaved == Spec => []PublishedIsSaved
  BY IInvImplies, InvariantHolds, PTL

=============================================================================
