--------------------------- MODULE RetainedEntities ---------------------------
(***************************************************************************)
(* What an anchor keeps announced of its tags on the MQTT broker:          *)
(* motion_mqtt.cpp and update_mqtt.cpp, which announce a tag's entities    *)
(* one packet per turn of the main loop and remove them when the tag is    *)
(* forgotten, over the registry, a connection that fails, a broker that    *)
(* may be replaced, and restarts of the anchor.                            *)
(*                                                                         *)
(* The two share nothing but the registry and the connection, so that a    *)
(* behaviour follows one of them.  A tag has Last entities, topics         *)
(* 0..Last-1, and a state, topic Last.                                     *)
(***************************************************************************)
EXTENDS Naturals, FiniteSets

CONSTANTS
  Tags,
  NSlots,    \* REGISTRY_MAX_TAGS: tags known, and removals that can wait
  Last,      \* entities of a tag (5)
  OpMax,     \* bound: what the operator does
  FaultMax,  \* bound: lost connections, refused packets, restarts
  None

ASSUME EntityAssumption ==
  /\ NSlots \in Nat \ {0} /\ Last \in Nat \ {0} /\ {OpMax, FaultMax} \subseteq Nat
  /\ None \notin 0..Last

VARIABLES
  who,       \* "motion" or "update"
  reg,       \* tag -> what the registry has of it
  disc,      \* tag -> entities announced over this connection, if it has a slot
  del,       \* tag -> topics removed so far, if its removal waits
  seen,      \* motion_connected, was_connected
  link,      \* "dying": lost, and client.connected() does not know it yet
  mail,      \* tag -> a config message on its way to the anchor
  wanted,    \* tag -> the broker retains a config for it
  retained,  \* tag -> its topics the broker retains
  missed,    \* a connection was replaced before the loop saw it end
  orphan,    \* tags whose removal was cut short
  ops, faults

anchor == <<reg, disc, del, seen>>
broker == <<mail, wanted, retained>>
bounds == <<ops, faults>>
vars == <<who, reg, disc, del, seen, link, mail, wanted, retained, missed, orphan, ops, faults>>

Topics == 0..Last
NoTag == [t \in Tags |-> None]
Known(r) == {t \in Tags : r[t] # "none"}
Deleting == {t \in Tags : del[t] # None}

Init ==
  /\ who \in {"motion", "update"}
  /\ reg = [t \in Tags |-> "none"] /\ disc = NoTag /\ del = NoTag
  /\ seen = FALSE /\ link = "down" /\ mail = NoTag
  /\ wanted \in [Tags -> BOOLEAN]
  /\ retained = [t \in Tags |-> {}]
  /\ missed = FALSE /\ orphan = {} /\ ops = 0 /\ faults = 0

-----------------------------------------------------------------------------
(* The registry                                                            *)

\* Registry::touch() of a tag that was never heard
Hear(t) ==
  /\ reg[t] = "none" /\ Cardinality(Known(reg)) < NSlots
  /\ reg' = [reg EXCEPT ![t] = "heard"]
  /\ UNCHANGED <<who, disc, del, seen, link, missed, orphan>>
  /\ UNCHANGED broker /\ UNCHANGED bounds

\* Registry::adopt(), refused when the registry is full of others
Adopt(t) ==
  /\ mail[t] = "adopt"
  /\ reg' = IF reg[t] # "none" \/ Cardinality(Known(reg)) < NSlots
            THEN [reg EXCEPT ![t] = "adopted"] ELSE reg
  /\ mail' = [mail EXCEPT ![t] = None]
  /\ UNCHANGED <<who, disc, del, seen, link, wanted, retained, missed, orphan>>
  /\ UNCHANGED bounds

Room == Cardinality(Deleting) < NSlots

\* update_mqtt_forget(), motion_mqtt_forget() and Registry::forget().  A removal
\* that waits goes on; one for which there is no room is not made.
Forget(t) ==
  /\ mail[t] = "forget"
  /\ mail' = [mail EXCEPT ![t] = None]
  /\ reg' = [reg EXCEPT ![t] = "none"]
  /\ disc' = [disc EXCEPT ![t] = None]
  /\ IF del[t] = None /\ Room
     THEN del' = [del EXCEPT ![t] = 0] /\ orphan' = orphan \ {t}
     ELSE del' = del /\ orphan' = IF del[t] = None THEN orphan \cup {t} ELSE orphan
  /\ UNCHANGED <<who, seen, link, wanted, retained, missed>> /\ UNCHANGED bounds

-----------------------------------------------------------------------------
(* The loops.  A packet that is refused is tried again; one that a dying    *)
(* connection accepts is lost.                                             *)

Disconnected ==
  /\ link = "down" /\ seen
  /\ seen' = FALSE /\ missed' = FALSE
  /\ UNCHANGED <<who, reg, disc, del, link, orphan>>
  /\ UNCHANGED broker /\ UNCHANGED bounds

\* (bug) What was announced over the last connection is not announced again.
KeepsAnnounced(d) == d

\* After a reconnection everything is announced afresh.
Afresh(d) == IF seen THEN d ELSE [t \in Tags |-> IF d[t] = None THEN None ELSE 0]

\* A turn with nothing to send, or whose packet is refused
Quiet ==
  /\ link # "down" /\ ~seen
  /\ Deleting = {} /\ \A t \in Tags : reg[t] # "adopted"
  /\ seen' = TRUE /\ disc' = Afresh(disc)
  /\ UNCHANGED <<who, reg, del, link, missed, orphan>>
  /\ UNCHANGED broker /\ UNCHANGED bounds

Refused ==
  /\ link # "down" /\ faults < FaultMax
  /\ faults' = faults + 1
  /\ seen' = TRUE /\ disc' = Afresh(disc)
  /\ UNCHANGED <<who, reg, del, link, missed, orphan, ops>> /\ UNCHANGED broker

\* (bug) The state of the tag is not removed with its entities.
LeavesState(step) == IF step + 1 = Last THEN None ELSE step + 1

NextStep(step) == IF step = Last THEN None ELSE step + 1

Remove(t) ==
  /\ link # "down" /\ del[t] # None
  /\ seen' = TRUE /\ disc' = Afresh(disc)
  /\ del' = [del EXCEPT ![t] = NextStep(del[t])]
  /\ IF link = "up"
     THEN retained' = [retained EXCEPT ![t] = @ \ {del[t]}] /\ UNCHANGED orphan
     ELSE /\ orphan' = IF del[t] \in retained[t] THEN orphan \cup {t} ELSE orphan
          /\ UNCHANGED retained
  /\ UNCHANGED <<who, reg, link, mail, wanted, missed>> /\ UNCHANGED bounds

Announces(t, topic) ==
  /\ retained' = IF link = "up" THEN [retained EXCEPT ![t] = @ \cup {topic}] ELSE retained
  /\ seen' = TRUE
  /\ UNCHANGED <<who, reg, del, link, mail, wanted, missed, orphan>> /\ UNCHANGED bounds

\* Entities of an adopted tag wait for every removal.
Discover(t) ==
  /\ link # "down" /\ Deleting = {} /\ reg[t] = "adopted"
  /\ LET d == Afresh(disc)
         step == IF d[t] = None THEN 0 ELSE d[t]
     IN  /\ step < Last
         /\ disc' = [d EXCEPT ![t] = step + 1]
         /\ Announces(t, step)

\* The state follows a tag's entities, with update_mqtt those of every tag.
MayReport(t, d) ==
  /\ d[t] = Last
  /\ who = "update" => \A u \in Tags : reg[u] = "adopted" => d[u] = Last

Report(t) ==
  /\ link # "down" /\ Deleting = {} /\ reg[t] = "adopted"
  /\ MayReport(t, Afresh(disc))
  /\ disc' = Afresh(disc)
  /\ Announces(t, Last)

-----------------------------------------------------------------------------
(* The connection, the broker and its operator                             *)

\* client.connected() goes on saying yes for a while, or finds out at once.
Fails ==
  /\ link = "up" /\ faults < FaultMax
  /\ faults' = faults + 1
  /\ link' \in {"dying", "down"}
  /\ mail' = NoTag
  /\ UNCHANGED <<who, wanted, retained, missed, orphan, ops>> /\ UNCHANGED anchor

Dies ==
  /\ link = "dying" /\ link' = "down"
  /\ UNCHANGED <<who, missed, orphan>> /\ UNCHANGED anchor
  /\ UNCHANGED broker /\ UNCHANGED bounds

\* on_connect(): the subscription brings the retained configs.  The broker may
\* be another one, or have kept nothing.
Connects ==
  /\ link = "down" /\ link' = "up"
  /\ missed' = (missed \/ seen)
  /\ \/ /\ mail' = [t \in Tags |-> IF wanted[t] THEN "adopt" ELSE None]
        /\ UNCHANGED <<wanted, retained, orphan, ops>>
     \/ /\ ops < OpMax /\ ops' = ops + 1
        /\ wanted' = [t \in Tags |-> FALSE] /\ retained' = [t \in Tags |-> {}]
        /\ mail' = NoTag /\ orphan' = {}
  /\ UNCHANGED <<who, faults>> /\ UNCHANGED anchor

\* The operator adopts or forgets a tag.  An empty config is not retained: only
\* an anchor that is connected learns of it.
Configures(t, on) ==
  /\ ops < OpMax /\ ops' = ops + 1
  /\ mail[t] = None
  /\ wanted' = [wanted EXCEPT ![t] = on]
  /\ mail' = IF link = "up" THEN [mail EXCEPT ![t] = IF on THEN "adopt" ELSE "forget"]
             ELSE mail
  /\ UNCHANGED <<who, link, retained, missed, orphan, faults>> /\ UNCHANGED anchor

Restarts ==
  /\ faults < FaultMax /\ faults' = faults + 1
  /\ reg' = [t \in Tags |-> "none"] /\ disc' = NoTag /\ del' = NoTag
  /\ seen' = FALSE /\ link' = "down" /\ mail' = NoTag
  /\ missed' = FALSE
  /\ orphan' = {t \in Tags : retained[t] # {}}
  /\ UNCHANGED <<who, wanted, retained, ops>>

-----------------------------------------------------------------------------
Loop == Disconnected \/ Quiet \/ Refused \/ \E t \in Tags : Remove(t) \/ Discover(t) \/ Report(t)

Messages == \E t \in Tags : Adopt(t) \/ Forget(t)

World == Fails \/ Dies \/ Connects \/ Restarts
         \/ \E t \in Tags : Hear(t) \/ \E on \in BOOLEAN : Configures(t, on)

Next == Loop \/ Messages \/ World

Spec == Init /\ [][Next]_vars

\* The main loop runs on, and turns from tag to tag (motion_cursor, the state
\* cursor); a lost connection is found out and comes back.
Fairness ==
  /\ WF_vars(Dies) /\ WF_vars(Connects)
  /\ \A t \in Tags : WF_vars(Remove(t)) /\ WF_vars(Discover(t)) /\ WF_vars(Report(t))

FairSpec == Spec /\ Fairness

-----------------------------------------------------------------------------
(* Properties                                                              *)

\* Every variable has its type, and neither table overflows.
TypeOK ==
  /\ reg \in [Tags -> {"none", "heard", "adopted"}]
  /\ disc \in [Tags -> Topics \cup {None}] /\ del \in [Tags -> Topics \cup {None}]
  /\ {seen, missed} \subseteq BOOLEAN /\ link \in {"up", "dying", "down"}
  /\ mail \in [Tags -> {"adopt", "forget", None}] /\ wanted \in [Tags -> BOOLEAN]
  /\ retained \in [Tags -> SUBSET Topics] /\ orphan \subseteq Tags
  /\ Cardinality(Known(reg)) <= NSlots /\ Cardinality(Deleting) <= NSlots

\* What the broker still retains of a tag that is not adopted is about to be
\* removed, whatever was adopted and forgotten meanwhile ("removes retained
\* settings discovery/state", mqtt.md), but for a removal for which there
\* was no room, that a dying connection lost, or that a restart forgot.
OrphansExplained ==
  \A t \in Tags : reg[t] # "adopted" /\ t \notin orphan =>
    \A topic \in retained[t] : del[t] # None /\ topic >= del[t]

\* Removals come to an end, and a tag that stays adopted has all its entities
\* and its state on the broker, over lost packets, other broker or restart,
\* unless a connection was replaced without the loop seeing it end.
EntitiesSettle ==
  \A t \in Tags :
    /\ del[t] # None ~> del[t] = None
    /\ <>[](reg[t] = "adopted") => <>[](retained[t] = Topics \/ missed)

=============================================================================
