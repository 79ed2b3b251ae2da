------------------------------ MODULE TagPresence ------------------------------
(***************************************************************************)
(* What an anchor tells of a tag's presence: the queue of exchanges filled *)
(* by the ranging task, the registry, freshness.cpp over a millisecond     *)
(* clock that wraps, and publisher_loop(), which publishes a state after a *)
(* burst, when freshness changes, and for every tag on a new connection.   *)
(*                                                                         *)
(* A time is kept as its age, which goes on round the clock once it is     *)
(* past a full one: the code sees it modulo Wrap, the properties see       *)
(* whether that much time has really passed.                               *)
(***************************************************************************)
EXTENDS Naturals, FiniteSets, Sequences

CONSTANTS
  Tags,
  Wrap,      \* the clock counts modulo this (2^32 ms)
  Scale,     \* ticks of the clock in a second (1000)
  Limits,    \* what an adoption may say of stale_after_s, in seconds (0 is Default)
  Default,   \* DEFAULT_STALE_AFTER_S_CORE
  Moving,    \* kMovingStaleMs
  Burst,     \* BURST_IDLE_MS
  NSlots,    \* REGISTRY_MAX_TAGS
  QMax,      \* length of the ranging queue
  Lag,       \* bound: time between two turns of the loop
  FaultMax,  \* bound: lost connections, refused packets, other brokers, restarts
  None

ASSUME PresenceAssumption ==
  /\ Wrap \in Nat /\ Scale \in Nat \ {0}
  /\ Default \in Limits /\ Limits \subseteq Nat \ {0}
  /\ Moving \in 1..Wrap - 1 /\ {Burst, Lag, QMax, NSlots, FaultMax} \subseteq Nat

VARIABLES
  queue,     \* evt_q: exchanges that the loop has not seen
  reg,       \* tag -> its record in the registry, or None
  sent,      \* anchor_discovery_sent
  lag,       \* how long ago the loop had its last turn
  link,      \* "dying": lost, and client.connected() does not know it yet
  retained,  \* tag -> the state that the broker retains
  told,      \* tags a state was published of since they were adopted
  refused,   \* tags whose last state mqtt_publish() refused
  missed,    \* a connection was replaced before the loop saw it end
  faults

anchor == <<queue, reg, sent, lag>>
broker == <<retained, told, refused>>
vars == <<queue, reg, sent, lag, link, retained, told, refused, missed, faults>>

Ages == 0..2 * Wrap - 1

Older(age) == IF age = 2 * Wrap - 1 THEN Wrap ELSE age + 1

\* motion  motion_known and moving
Motions == {"unknown", "still", "moving"}

\* silent  age of last_seen_ms    held  age of adopted_ms
\* absent  absence_known and absent
TagRecord == [adopted : BOOLEAN, heard : BOOLEAN, silent : Ages, held : Ages,
              limit : Limits, motion : Motions, stale : BOOLEAN,
              absent : {"unknown", "no", "yes"}, pending : BOOLEAN]

\* A tag that is heard for the first time
Sighted(delay) ==
  [adopted |-> FALSE, heard |-> TRUE, silent |-> delay, held |-> 0, limit |-> Default,
   motion |-> "unknown", stale |-> FALSE, absent |-> "no", pending |-> FALSE]

RangeEvent == [tag : Tags, motion : Motions, delay : 0..Lag]

Known(r) == {t \in Tags : r[t] # None}
Adopted(r) == {t \in Known(r) : r[t].adopted}

\* now - then, of unsigned times
Elapsed(age) == age % Wrap

Init ==
  /\ queue = <<>> /\ reg = [t \in Tags |-> None] /\ sent = FALSE /\ lag = 0
  /\ link = "down"
  /\ retained = [t \in Tags |-> None] /\ told = {}
  /\ refused = {} /\ missed = FALSE /\ faults = 0

-----------------------------------------------------------------------------
(* freshness.cpp                                                           *)

\* The timeout in milliseconds is an unsigned number like the time itself.
AbsenceMs(r) == (r.limit * Scale) % Wrap

\* (bug) A tag that is absent is looked at like any other.
FreshnessUnlatched(r, latched) ==
  LET e == Elapsed(IF r.heard THEN r.silent ELSE r.held)
  IN  [r EXCEPT
        !.stale = ~r.heard \/ e >= (IF r.motion = "moving" THEN Moving ELSE AbsenceMs(r)),
        !.absent = IF e >= AbsenceMs(r) THEN "yes" ELSE IF r.heard THEN "no" ELSE "unknown"]

\* tag_freshness(), written back by update_tag_freshness()
Freshness(r, latched) ==
  LET e == Elapsed(IF r.heard THEN r.silent ELSE r.held)
  IN  IF latched THEN [r EXCEPT !.stale = TRUE, !.absent = "yes"]
      ELSE [r EXCEPT
        !.stale = ~r.heard \/ e >= (IF r.motion = "moving" THEN Moving ELSE AbsenceMs(r)),
        !.absent = IF e >= AbsenceMs(r) THEN "yes" ELSE IF r.heard THEN "no" ELSE "unknown"]

-----------------------------------------------------------------------------
(* registry.cpp                                                            *)

Room(r) == Cardinality(Known(r)) < NSlots

\* publisher_on_message() of a config; the broker repeats what it retains.
Adopt(t, limit) ==
  /\ link = "up"
  /\ reg[t] # None \/ Room(reg)
  /\ LET r == IF reg[t] = None THEN [Sighted(0) EXCEPT !.heard = FALSE] ELSE reg[t]
     IN  reg' = [reg EXCEPT ![t] =
           IF r.adopted THEN [r EXCEPT !.limit = limit]
           ELSE [r EXCEPT !.limit = limit, !.adopted = TRUE, !.held = 0,
                          !.absent = IF r.heard THEN "no" ELSE "unknown"]]
  /\ UNCHANGED <<queue, sent, lag, link, missed, faults>> /\ UNCHANGED broker

\* Registry::forget(); the state it published stays with the broker.
Forget(t) ==
  /\ link = "up" /\ reg[t] # None
  /\ reg' = [reg EXCEPT ![t] = None]
  /\ told' = told \ {t} /\ refused' = refused \ {t}
  /\ UNCHANGED <<queue, sent, lag, link, retained, missed, faults>>

-----------------------------------------------------------------------------
(* publisher_loop()                                                        *)

\* One event: Registry::touch(), and for an adopted tag its news, which alone
\* clear an absence.
Drain(r, e) ==
  IF r[e.tag] = None
  THEN IF Room(r) THEN [r EXCEPT ![e.tag] = Sighted(e.delay)] ELSE r
  ELSE [r EXCEPT ![e.tag] =
    IF ~@.adopted THEN [@ EXCEPT !.heard = TRUE, !.silent = e.delay]
    ELSE Freshness([@ EXCEPT !.heard = TRUE, !.silent = e.delay, !.motion = e.motion,
                             !.pending = TRUE], FALSE)]

Drained ==
  LET after[n \in 0..Len(queue)] == IF n = 0 THEN reg ELSE Drain(after[n - 1], queue[n])
  IN  after[Len(queue)]

\* A tag that has gone quiet briefly: its burst is published.
BurstEnded(r) == r.pending /\ Elapsed(r.silent) > Burst

Settled(r) == {t \in Adopted(r) : ~r[t].pending}

\* A tag without a burst under way, or whose burst has ended, is looked at.
Looked(r) ==
  LET flushed == IF BurstEnded(r) THEN [r EXCEPT !.pending = FALSE] ELSE r
  IN  IF flushed.adopted /\ ~flushed.pending
      THEN Freshness(flushed, flushed.absent = "yes") ELSE flushed

\* What a tag's state says of its presence
Shown(r) == [stale |-> r.stale, absent |-> r.absent]

Changed(old, new) == Shown(new) # Shown(old)

\* (bug) A new connection brings nothing but what changes.
NothingRepublished(r) == {}

\* On a new connection, states that may have been lost are published again.
Republished(r) == IF link # "down" /\ ~sent THEN Settled(r) ELSE {}

\* Packets that mqtt_publish() may refuse while the connection lives: the loop
\* does not look at the answer.
MayRefuse(published) ==
  IF link = "up" /\ faults < FaultMax THEN SUBSET published ELSE {{}}

\* publisher_loop(): drained and new are the registry between its parts.
Turn ==
  \E drained \in {Drained} :
  \E new \in {[t \in Tags |-> IF drained[t] = None THEN None ELSE Looked(drained[t])]} :
  LET news == {t \in Settled(new) : BurstEnded(drained[t]) \/ Changed(drained[t], new[t])}
      published == news \cup Republished(new)
  IN  \E lost \in MayRefuse(published) :
        /\ queue' = <<>> /\ lag' = 0
        /\ sent' = (link # "down")
        /\ missed' = (missed /\ link # "down")
        /\ UNCHANGED link
        /\ reg' = new
        /\ retained' = [t \in Tags |-> IF link = "up" /\ t \in published \ lost
                                       THEN Shown(new[t]) ELSE retained[t]]
        /\ told' = told \cup published
        /\ refused' = (refused \ published) \cup lost
        /\ faults' = IF lost = {} THEN faults ELSE faults + 1

-----------------------------------------------------------------------------
(* The ranging task, the clock, the connection and restarts                *)

QueueRoom == Len(queue) < QMax

\* A full queue drops the exchange.
Exchange(t, motion) ==
  /\ QueueRoom
  /\ queue' = Append(queue, [tag |-> t, motion |-> motion, delay |-> 0])
  /\ UNCHANGED <<reg, sent, lag, link, missed, faults>> /\ UNCHANGED broker

Tick ==
  /\ lag < Lag
  /\ lag' = lag + 1
  /\ queue' = [i \in DOMAIN queue |-> [queue[i] EXCEPT !.delay = @ + 1]]
  /\ reg' = [t \in Tags |->
       IF reg[t] = None THEN None
       ELSE [reg[t] EXCEPT !.silent = IF reg[t].heard THEN Older(@) ELSE 0,
                           !.held = IF reg[t].adopted THEN Older(@) ELSE 0]]
  /\ UNCHANGED <<sent, link, missed, faults>> /\ UNCHANGED broker

\* client.connected() goes on saying yes for a while, or finds out at once.
Fails ==
  /\ link = "up" /\ faults < FaultMax
  /\ faults' = faults + 1
  /\ link' \in {"dying", "down"}
  /\ UNCHANGED <<missed>> /\ UNCHANGED anchor /\ UNCHANGED broker

Dies ==
  /\ link = "dying" /\ link' = "down"
  /\ UNCHANGED <<missed, faults>> /\ UNCHANGED anchor /\ UNCHANGED broker

\* To the same broker, or to one that retains nothing
Connects ==
  /\ link = "down" /\ link' = "up"
  /\ missed' = (missed \/ sent)
  /\ \/ UNCHANGED <<retained, faults>>
     \/ /\ faults < FaultMax /\ faults' = faults + 1
        /\ retained' = [t \in Tags |-> None]
  /\ UNCHANGED <<told, refused>> /\ UNCHANGED anchor

Restarts ==
  /\ faults < FaultMax /\ faults' = faults + 1
  /\ queue' = <<>> /\ reg' = [t \in Tags |-> None] /\ sent' = FALSE /\ lag' = 0
  /\ link' = "down" /\ missed' = FALSE
  /\ told' = {} /\ refused' = {}
  /\ UNCHANGED retained

-----------------------------------------------------------------------------
Configures == \E t \in Tags : Forget(t) \/ \E limit \in Limits : Adopt(t, limit)

World ==
  \/ Tick \/ Fails \/ Dies \/ Connects \/ Restarts
  \/ \E t \in Tags, motion \in Motions : Exchange(t, motion)

Next == Turn \/ Configures \/ World

Spec == Init /\ [][Next]_vars

-----------------------------------------------------------------------------
(* Properties                                                              *)

\* Every variable has its type, and the registry does not overflow.
TypeOK ==
  /\ queue \in Seq(RangeEvent) /\ Len(queue) <= QMax
  /\ reg \in [Tags -> TagRecord \cup {None}] /\ Cardinality(Known(reg)) <= NSlots
  /\ {sent, missed} \subseteq BOOLEAN /\ lag \in 0..Lag
  /\ link \in {"up", "dying", "down"} /\ told \subseteq Adopted(reg)
  /\ refused \subseteq told /\ faults \in 0..FaultMax
  /\ retained \in [Tags -> [stale : BOOLEAN, absent : {"unknown", "no", "yes"}] \cup {None}]

Timeout(r) == r.limit * Scale

\* A timeout that the clock can count, with time for the loop to see it pass
\* (up to 49.7 days)
Fits(r) == Timeout(r) + Lag < Wrap

\* A tag that was not heard for its timeout, nor adopted within it
Overdue(r) == r.held >= Timeout(r) + Lag /\ (r.heard => r.silent >= Timeout(r))

Raised(t) == reg'[t].absent = "yes" /\ (reg[t] # None => reg[t].absent # "yes")

SilenceOf(r) == IF r.heard THEN r.silent ELSE r.held

\* After each turn of the loop a tag is missing that was not heard for its
\* timeout, however often the clock wrapped, and no tag is reported missing
\* that was ("raised absence clears only after a real reception", mqtt.md).
\* It is said of timeouts that the clock can count.
AbsenceIsTrue ==
  [][\A t \in Adopted(reg') :
       LET r == reg'[t] IN
         /\ Overdue(r) /\ Fits(r) /\ ~r.pending /\ r.absent # "yes" => ~Turn
         /\ Raised(t) /\ Fits(r) => SilenceOf(r) >= Timeout(r)]_vars

\* What the broker retains of a tag is what the anchor last found, also what
\* was found while the connection was lost without the anchor knowing.  A state
\* that was refused on a live connection is left out, until the next one of
\* the tag: nobody publishes it again.
BrokerAgrees ==
  [][\A t \in (Settled(reg') \cap told') \ refused' :
       link = "up" /\ ~missed /\ retained'[t] # Shown(reg'[t]) => ~Turn]_vars

=============================================================================
