------------------------ MODULE RetainedEntities_proofs ------------------------
(***************************************************************************)
(* Proofs about RetainedEntities: for any number of tags, of entities and  *)
(* of slots, the tables do not overflow and what the broker retains of a   *)
(* tag that is not adopted is explained.                                   *)
(***************************************************************************)
EXTENDS RetainedEntities, FiniteSetTheorems, TLAPS

-----------------------------------------------------------------------------
(* The inductive invariant                                                 *)

\* A removal goes from topic to topic, and nothing is announced meanwhile: it
\* leaves nothing behind, of an adopted tag neither.
RemovalAhead ==
  \A t \in Tags : del[t] # None /\ t \notin orphan =>
    \A topic \in retained[t] : topic >= del[t]

\* The tables are finite, so that they can be counted.
Counted == IsFiniteSet(Known(reg)) /\ IsFiniteSet(Deleting)

IInv == TypeOK /\ Counted /\ RemovalAhead /\ OrphansExplained

-----------------------------------------------------------------------------
(* Counting                                                                *)

\* A table that loses entries, or gains one when there is room, does not
\* overflow.
LEMMA Counts ==
  ASSUME NEW A, NEW B, NEW t, IsFiniteSet(A), Cardinality(A) <= NSlots,
         \/ B \subseteq A
         \/ B \subseteq A \union {t} /\ Cardinality(A) < NSlots
  PROVE  IsFiniteSet(B) /\ Cardinality(B) <= NSlots
<1>1. Cardinality(A) \in Nat /\ NSlots \in Nat
  BY FS_CardinalityType, EntityAssumption
<1>2. CASE B \subseteq A
  <2>1. IsFiniteSet(B) /\ Cardinality(B) <= Cardinality(A)
    BY <1>2, FS_Subset
  <2>2. QED
    BY <1>1, <2>1, FS_CardinalityType
<1>3. CASE B \subseteq A \union {t} /\ Cardinality(A) < NSlots
  <2>1. /\ IsFiniteSet(A \union {t})
        /\ Cardinality(A \union {t}) = IF t \in A THEN Cardinality(A) ELSE Cardinality(A) + 1
    BY FS_AddElement
  <2>2. IsFiniteSet(B) /\ Cardinality(B) <= Cardinality(A \union {t})
    BY <1>3, <2>1, FS_Subset
  <2>3. QED
    BY <1>1, <1>3, <2>1, <2>2, FS_CardinalityType
<1>4. QED
  BY <1>2, <1>3

\* A change of the registry that adds no tag, or t when there is room, keeps
\* its table.
LEMMA RegistryHolds ==
  ASSUME IInv, NEW t \in Tags,
         \/ Known(reg)' \subseteq Known(reg)
         \/ Known(reg)' \subseteq Known(reg) \union {t} /\ Cardinality(Known(reg)) < NSlots
  PROVE  IsFiniteSet(Known(reg))' /\ (Cardinality(Known(reg)) <= NSlots)'
<1> DEFINE A == Known(reg) B == Known(reg)'
<1>1. IsFiniteSet(A) /\ Cardinality(A) <= NSlots
  BY DEF IInv, TypeOK, Counted
<1>2. \/ B \subseteq A
      \/ B \subseteq A \union {t} /\ Cardinality(A) < NSlots
  OBVIOUS
<1> HIDE DEF A, B
<1>3. IsFiniteSet(B) /\ Cardinality(B) <= NSlots
  BY <1>1, <1>2, Counts
<1>4. QED
  BY <1>3 DEF B

\* The same of the removals that wait.
LEMMA RemovalsHold ==
  ASSUME IInv, NEW t \in Tags,
         \/ Deleting' \subseteq Deleting
         \/ Deleting' \subseteq Deleting \union {t} /\ Cardinality(Deleting) < NSlots
  PROVE  IsFiniteSet(Deleting)' /\ (Cardinality(Deleting) <= NSlots)'
<1> DEFINE A == Deleting B == Deleting'
<1>1. IsFiniteSet(A) /\ Cardinality(A) <= NSlots
  BY DEF IInv, TypeOK, Counted
<1>2. \/ B \subseteq A
      \/ B \subseteq A \union {t} /\ Cardinality(A) < NSlots
  OBVIOUS
<1> HIDE DEF A, B
<1>3. IsFiniteSet(B) /\ Cardinality(B) <= NSlots
  BY <1>1, <1>2, Counts
<1>4. QED
  BY <1>3 DEF B

\* A step that leaves both tables alone keeps them.
LEMMA TablesHold ==
  ASSUME IInv, reg' = reg, del' = del
  PROVE  /\ Counted'
         /\ (Cardinality(Known(reg)) <= NSlots)' /\ (Cardinality(Deleting) <= NSlots)'
BY DEF IInv, TypeOK, Counted, Known, Deleting

-----------------------------------------------------------------------------
(* The steps                                                               *)

\* What a reconnection leaves of the announcements is of their type.
LEMMA AfreshType ==
  ASSUME IInv PROVE Afresh(disc) \in [Tags -> Topics \cup {None}]
BY EntityAssumption DEF IInv, TypeOK, Afresh, Topics

\* Registry::touch()
LEMMA HearKeeps == ASSUME IInv, NEW t \in Tags, Hear(t) PROVE IInv'
<1> USE DEF IInv
<1>1. Known(reg)' \subseteq Known(reg) \union {t}
  BY DEF Hear, TypeOK, Known
<1>2. IsFiniteSet(Known(reg))' /\ (Cardinality(Known(reg)) <= NSlots)'
  BY <1>1, RegistryHolds DEF Hear
<1>3. IsFiniteSet(Deleting)' /\ (Cardinality(Deleting) <= NSlots)'
  BY DEF Hear, TypeOK, Counted, Deleting
<1>4. TypeOK' /\ Counted'
  BY <1>2, <1>3 DEF Hear, TypeOK, Counted, broker
<1>5. RemovalAhead' /\ OrphansExplained'
  BY DEF Hear, TypeOK, RemovalAhead, OrphansExplained, broker
<1>6. QED
  BY <1>4, <1>5

\* Registry::adopt()
LEMMA AdoptKeeps == ASSUME IInv, NEW t \in Tags, Adopt(t) PROVE IInv'
<1> USE DEF IInv
<1>1. \/ Known(reg)' \subseteq Known(reg)
      \/ Known(reg)' \subseteq Known(reg) \union {t} /\ Cardinality(Known(reg)) < NSlots
  BY DEF Adopt, TypeOK, Known
<1>2. IsFiniteSet(Known(reg))' /\ (Cardinality(Known(reg)) <= NSlots)'
  BY <1>1, RegistryHolds
<1>3. IsFiniteSet(Deleting)' /\ (Cardinality(Deleting) <= NSlots)'
  BY DEF Adopt, TypeOK, Counted, Deleting
<1>4. TypeOK' /\ Counted'
  BY <1>2, <1>3 DEF Adopt, TypeOK, Counted, bounds
<1>5. RemovalAhead' /\ OrphansExplained'
  BY DEF Adopt, TypeOK, RemovalAhead, OrphansExplained, bounds
<1>6. QED
  BY <1>4, <1>5

\* A tag is forgotten: its removal is made when there is room.
LEMMA ForgetKeeps == ASSUME IInv, NEW t \in Tags, Forget(t) PROVE IInv'
<1> USE DEF IInv
<1>1. IsFiniteSet(Known(reg))' /\ (Cardinality(Known(reg)) <= NSlots)'
  <2>1. Known(reg)' \subseteq Known(reg)
    BY DEF Forget, TypeOK, Known
  <2>2. QED
    BY <2>1, RegistryHolds
<1>2. IsFiniteSet(Deleting)' /\ (Cardinality(Deleting) <= NSlots)'
  <2>1. CASE del[t] = None /\ Room
    <3>1. Deleting' \subseteq Deleting \union {t}
      BY <2>1 DEF Forget, TypeOK, Deleting
    <3>2. QED
      BY <2>1, <3>1, RemovalsHold DEF Room
  <2>2. CASE ~(del[t] = None /\ Room)
    BY <2>2 DEF Forget, TypeOK, Counted, Deleting
  <2>3. QED
    BY <2>1, <2>2
<1>3. TypeOK' /\ Counted'
  <2>1. del' \in [Tags -> Topics \cup {None}] /\ orphan' \subseteq Tags
    BY EntityAssumption DEF Forget, TypeOK, Topics
  <2>2. QED
    BY <1>1, <1>2, <2>1 DEF Forget, TypeOK, Counted, bounds
<1>4. retained' = retained /\ reg' = [reg EXCEPT ![t] = "none"]
  BY DEF Forget
<1>5. CASE del[t] = None /\ Room
  <2>1. del' = [del EXCEPT ![t] = 0] /\ orphan' = orphan \ {t}
    BY <1>5 DEF Forget
  <2>2. ASSUME NEW u \in Tags, u # t
        PROVE  del'[u] = del[u] /\ (u \in orphan' <=> u \in orphan) /\ reg'[u] = reg[u]
    BY <1>4, <2>1, <2>2 DEF TypeOK
  <2>3. del'[t] = 0 /\ 0 # None /\ \A topic \in retained[t] : topic >= 0
    BY <2>1, EntityAssumption DEF TypeOK, Topics
  <2>4. QED
    BY <1>3, <1>4, <2>2, <2>3 DEF RemovalAhead, OrphansExplained
<1>6. CASE ~(del[t] = None /\ Room)
  <2>1. /\ del' = del /\ orphan \subseteq orphan'
        /\ del[t] = None => t \in orphan'
    BY <1>6 DEF Forget
  <2>2. \A u \in Tags \ {t} : reg'[u] = reg[u]
    BY <1>4 DEF TypeOK
  <2>3. QED
    BY <1>3, <1>4, <2>1, <2>2 DEF RemovalAhead, OrphansExplained
<1>7. QED
  BY <1>5, <1>6

\* One topic of a removal: it is gone from the broker, or lost on a dying
\* connection, which is remembered.
LEMMA RemoveKeeps == ASSUME IInv, NEW t \in Tags, Remove(t) PROVE IInv'
<1> USE DEF IInv
<1>1. del[t] \in Topics
  BY DEF Remove, TypeOK
<1>2. /\ NextStep(del[t]) \in Topics \cup {None}
      /\ NextStep(del[t]) # None => NextStep(del[t]) = del[t] + 1
      /\ NextStep(del[t]) = None => del[t] = Last
  BY <1>1, EntityAssumption DEF NextStep, Topics
<1>3. del' = [del EXCEPT ![t] = NextStep(del[t])] /\ reg' = reg
  BY DEF Remove
<1>4. del' \in [Tags -> Topics \cup {None}]
  BY <1>2, <1>3 DEF TypeOK
<1>5. IsFiniteSet(Deleting)' /\ (Cardinality(Deleting) <= NSlots)'
  <2>1. Deleting' \subseteq Deleting
    BY <1>3 DEF Remove, TypeOK, Deleting
  <2>2. QED
    BY <2>1, RemovalsHold
<1>6. IsFiniteSet(Known(reg))' /\ (Cardinality(Known(reg)) <= NSlots)'
  BY <1>3 DEF TypeOK, Counted, Known
<1>7. retained' \in [Tags -> SUBSET Topics] /\ orphan' \subseteq Tags
  BY DEF Remove, TypeOK
<1>8. TypeOK' /\ Counted'
  BY <1>4, <1>5, <1>6, <1>7, AfreshType DEF Remove, TypeOK, Counted, bounds
<1>9. \A u \in Tags \ {t} : /\ del'[u] = del[u] /\ retained'[u] = retained[u]
                            /\ u \in orphan' <=> u \in orphan
  BY <1>3 DEF Remove, TypeOK
<1>10. t \notin orphan' => /\ t \notin orphan
                           /\ \A topic \in retained'[t] : topic \in retained[t] /\ topic # del[t]
  BY DEF Remove, TypeOK
<1>11. t \notin orphan' => \A topic \in retained'[t] : del'[t] # None /\ topic >= del'[t]
  <2> SUFFICES ASSUME t \notin orphan', NEW topic \in retained'[t]
               PROVE  del'[t] # None /\ topic >= del'[t]
    OBVIOUS
  <2>1. topic \in Topics /\ topic # del[t] /\ topic >= del[t]
    BY <1>10 DEF RemovalAhead, TypeOK, Remove
  <2>2. del[t] \in Nat /\ topic \in Nat /\ topic <= Last /\ Last \in Nat
    BY <1>1, <2>1, EntityAssumption DEF Topics
  <2>3. del'[t] = NextStep(del[t])
    BY <1>3 DEF TypeOK
  <2>4. QED
    BY <1>2, <2>1, <2>2, <2>3
<1>12. QED
  BY <1>3, <1>8, <1>9, <1>11 DEF RemovalAhead, OrphansExplained

\* One entity or the state of an adopted tag, while no removal waits.
LEMMA AnnounceKeeps ==
  ASSUME IInv, NEW t \in Tags, NEW topic \in Topics, Announces(t, topic),
         Deleting = {}, reg[t] = "adopted", disc' \in [Tags -> Topics \cup {None}]
  PROVE  IInv'
<1> USE DEF IInv
<1>1. reg' = reg /\ del' = del /\ orphan' = orphan /\ \A u \in Tags : del[u] = None
  BY DEF Announces, Deleting
<1>2. /\ retained' \in [Tags -> SUBSET Topics]
      /\ \A u \in Tags \ {t} : retained'[u] = retained[u]
  BY DEF Announces, TypeOK
<1>3. TypeOK' /\ Counted'
  BY <1>1, <1>2, TablesHold DEF Announces, TypeOK, bounds
<1>4. RemovalAhead' /\ OrphansExplained'
  BY <1>1, <1>2 DEF RemovalAhead, OrphansExplained
<1>5. QED
  BY <1>3, <1>4

\* motion_mqtt.cpp and update_mqtt.cpp announce the next entity of a tag.
LEMMA DiscoverKeeps == ASSUME IInv, NEW t \in Tags, Discover(t) PROVE IInv'
<1> DEFINE d == Afresh(disc)
           step == IF d[t] = None THEN 0 ELSE d[t]
<1>1. d \in [Tags -> Topics \cup {None}]
  BY AfreshType
<1>2. /\ step < Last /\ disc' = [d EXCEPT ![t] = step + 1] /\ Announces(t, step)
      /\ Deleting = {} /\ reg[t] = "adopted"
  BY DEF Discover
<1> HIDE DEF d
<1>3. step \in Topics /\ step + 1 \in Topics
  BY <1>1, <1>2, EntityAssumption DEF Topics
<1> HIDE DEF step
<1>4. disc' \in [Tags -> Topics \cup {None}]
  BY <1>1, <1>2, <1>3
<1>5. QED
  BY <1>2, <1>3, <1>4, AnnounceKeeps

\* The state follows the entities.
LEMMA ReportKeeps == ASSUME IInv, NEW t \in Tags, Report(t) PROVE IInv'
<1>1. Last \in Topics
  BY EntityAssumption DEF Topics
<1>2. Announces(t, Last) /\ Deleting = {} /\ reg[t] = "adopted" /\ disc' = Afresh(disc)
  BY DEF Report
<1>3. QED
  BY <1>1, <1>2, AfreshType, AnnounceKeeps

\* Everything else leaves the registry, the removals and what is retained
\* alone, but for a broker that has kept nothing and a restart.
LEMMA WorldKeeps ==
  ASSUME IInv,
         \/ Disconnected \/ Quiet \/ Refused \/ Fails \/ Dies \/ Connects
         \/ \E t \in Tags, on \in BOOLEAN : Configures(t, on)
  PROVE  IInv'
<1> USE DEF IInv
<1>1. reg' = reg /\ del' = del
  BY DEF Disconnected, Quiet, Refused, Fails, Dies, Connects, Configures, anchor
<1>2. disc' \in [Tags -> Topics \cup {None}]
  BY AfreshType DEF TypeOK, Disconnected, Quiet, Refused, Fails, Dies, Connects, Configures, anchor
<1>3. /\ {seen, missed}' \subseteq BOOLEAN /\ link' \in {"up", "dying", "down"}
      /\ mail' \in [Tags -> {"adopt", "forget", None}]
  BY DEF TypeOK, NoTag, Disconnected, Quiet, Refused, Fails, Dies, Connects, Configures, anchor, broker
<1>4. /\ wanted' \in [Tags -> BOOLEAN]
      /\ \/ retained' = retained /\ orphan' = orphan
         \/ retained' = [t \in Tags |-> {}] /\ orphan' = {}
  BY DEF TypeOK, Disconnected, Quiet, Refused, Fails, Dies, Connects, Configures, anchor, broker
<1>5. TypeOK' /\ Counted'
  BY <1>1, <1>2, <1>3, <1>4, TablesHold DEF TypeOK
<1>6. RemovalAhead' /\ OrphansExplained'
  BY <1>1, <1>4 DEF RemovalAhead, OrphansExplained
<1>7. QED
  BY <1>5, <1>6

\* A blank registry, without removals.
LEMMA BlankTables ==
  ASSUME NEW r, NEW d, r = [t \in Tags |-> "none"], d = NoTag
  PROVE  /\ {t \in Tags : r[t] # "none"} = {} /\ {t \in Tags : d[t] # None} = {}
         /\ IsFiniteSet({}) /\ Cardinality({}) <= NSlots
BY FS_EmptySet, EntityAssumption DEF NoTag

\* A restart forgets removals: what is left of them is counted as cut short.
LEMMA RestartKeeps == ASSUME IInv, Restarts PROVE IInv'
<1> USE DEF IInv
<1>1. Known(reg)' = {} /\ Deleting' = {} /\ IsFiniteSet({}) /\ Cardinality({}) <= NSlots
  BY BlankTables DEF Restarts, Known, Deleting
<1>2. TypeOK' /\ Counted'
  BY <1>1 DEF TypeOK, Counted, Restarts, NoTag
<1>3. RemovalAhead' /\ OrphansExplained'
  BY DEF RemovalAhead, OrphansExplained, Restarts, NoTag
<1>4. QED
  BY <1>2, <1>3

-----------------------------------------------------------------------------
(* The theorems                                                            *)

\* Nothing is known, announced or waiting at first.
LEMMA InitHolds == Init => IInv
<1> SUFFICES ASSUME Init PROVE IInv
  OBVIOUS
<1>1. Known(reg) = {} /\ Deleting = {} /\ IsFiniteSet({}) /\ Cardinality({}) <= NSlots
  BY BlankTables DEF Init, Known, Deleting
<1>2. TypeOK /\ Counted
  BY <1>1 DEF Init, NoTag, TypeOK, Counted
<1>3. RemovalAhead /\ OrphansExplained
  BY DEF Init, NoTag, RemovalAhead, OrphansExplained
<1>4. QED
  BY <1>2, <1>3 DEF IInv

\* The invariant is inductive.
LEMMA StepKeeps == IInv /\ [Next]_vars => IInv'
<1> SUFFICES ASSUME IInv, [Next]_vars PROVE IInv'
  OBVIOUS
<1>1. CASE Loop
  BY <1>1, WorldKeeps, RemoveKeeps, DiscoverKeeps, ReportKeeps DEF Loop
<1>2. CASE Messages
  BY <1>2, AdoptKeeps, ForgetKeeps DEF Messages
<1>3. CASE World
  BY <1>3, WorldKeeps, RestartKeeps, HearKeeps DEF World
<1>4. CASE UNCHANGED vars
  BY <1>4 DEF vars, IInv, TypeOK, Counted, Known, Deleting, RemovalAhead, OrphansExplained
<1>5. QED
  BY <1>1, <1>2, <1>3, <1>4 DEF Next

\* Every reachable state satisfies the inductive invariant.
THEOREM InvariantHolds == Spec => []IInv
BY InitHolds, StepKeeps, PTL DEF Spec

\* The types hold, and neither the registry nor the table of removals
\* overflows, whatever is heard, adopted and forgotten.
THEOREM TypeCorrect == Spec => []TypeOK
<1>1. IInv => TypeOK
  BY DEF IInv
<1>2. QED
  BY <1>1, InvariantHolds, PTL

\* What the broker retains of a tag that is not adopted is about to be removed,
\* but for what a full table, a dying connection or a restart made the anchor
\* forget.
THEOREM OrphansAreExplained == Spec => []OrphansExplained
<1>1. IInv => OrphansExplained
  BY DEF IInv
<1>2. QED
  BY <1>1, InvariantHolds, PTL

=============================================================================
