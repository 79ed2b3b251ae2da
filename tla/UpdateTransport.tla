--------------------------- MODULE UpdateTransport ---------------------------
(***************************************************************************)
(* The BLE worker task of update_ble.cpp between the update controller and *)
(* the tags: a one-slot command mailbox, a bounded event queue, and one    *)
(* session at a time, which ends only when the link is physically closed.  *)
(* The worker runs concurrently with the controller's main loop.           *)
(*                                                                         *)
(* Operation and session ids are never reused, so all that matters of an   *)
(* id is whether it is still the controller's latest one: the field        *)
(* "fresh".  Submitting a command makes everything outstanding stale.      *)
(* Commissioning, GATT discovery and write fragments are left out.         *)
(***************************************************************************)
EXTENDS TagSlots, Sequences

CONSTANT EventMax   \* depth of events_ (4)

ASSUME EventAssumption == EventMax \in Nat \ {0}

VARIABLES
  mailbox,  \* pending_command_: a command or None
  events,   \* events_: what the controller has still to poll
  wk,       \* the worker's session
  fault,    \* a latched worker fault
  inbox,    \* tag -> the request it has received and not yet served
  dev       \* tag -> its image slots

transportVars == <<mailbox, events, wk, fault, inbox, dev>>

Kinds == {"Connect", "Security", "Exchange", "Disconnect"}
Smps == {"TagStatus", "ImageList", "Upload", "Trial", "Reset"}
Steps == {"Idle", "Opening", "Connected", "Securing", "Ready", "Writing",
          "Replied", "Closing", "Quiet"}

Command == [kind : Kinds, smp : Smps, off : 0..ImageSize,
            tag : Tags, rel : Releases, fresh : BOOLEAN]

Request == [smp : Smps, off : 0..ImageSize, rel : Releases]

Reply == [ok : BOOLEAN, off : 0..ImageSize, img : Flash \union {None}]

Event == [kind : {"Connected", "Secured", "Reply", "Disconnected", "Failed", "Stale"},
          transient : BOOLEAN, reply : Reply \union {None}]

\* What is left of an event once its operation is not the latest: it takes
\* its place in the queue until the controller drops it.
StaleEvent == [kind |-> "Stale", transient |-> FALSE, reply |-> None]

\* step    where the session is; Writing: request sent, Replied: answer held
\* tag     the tag of current_, the command being served
\* fresh   current_ is the controller's latest operation
\* ack     want_disconnect_ack_
\* lost    the physical link is gone and the worker has not noticed yet
Worker == [step : Steps, tag : Tags \union {None}, fresh : BOOLEAN,
           ack : BOOLEAN, lost : BOOLEAN, reply : Reply \union {None}]

AtRest == [step |-> "Idle", tag |-> None, fresh |-> FALSE, ack |-> FALSE,
           lost |-> FALSE, reply |-> None]

TransportTypeOK ==
  /\ mailbox \in Command \union {None}
  /\ events \in Seq(Event) /\ Len(events) <= EventMax
  /\ wk \in Worker
  /\ fault \in BOOLEAN
  /\ inbox \in [Tags -> Request \union {None}]
  /\ dev \in [Tags -> Flash]

TransportInit ==
  /\ mailbox = None
  /\ events = <<>>
  /\ wk = AtRest
  /\ fault = FALSE
  /\ inbox = [t \in Tags |-> None]

-----------------------------------------------------------------------------
(* Helpers                                                                 *)

\* emit(): an event carries the id of the command being served; a full queue
\* drops it and latches a fault.
Emit(kind, transient, reply) ==
  IF Len(events) < EventMax
  THEN /\ events' = Append(events, IF ~wk.fresh THEN StaleEvent ELSE
                           [kind |-> kind, transient |-> transient, reply |-> reply])
       /\ fault' = fault
  ELSE events' = events /\ fault' = TRUE

\* close(): the session is being torn down; nothing more is served.
Closed(w) == IF w.step \in {"Closing", "Quiet"} THEN w
             ELSE [w EXCEPT !.step = "Closing", !.lost = FALSE, !.reply = None]

Working == {"Opening", "Connected", "Securing", "Ready", "Writing", "Replied"}

-----------------------------------------------------------------------------
(* The worker's task, run()                                                *)

\* command(): take the mailbox.  A command that does not fit the session is
\* dropped without an event; the controller's deadline covers that.
TakeConnect ==
  /\ mailbox # None /\ mailbox.kind = "Connect"
  /\ mailbox' = None
  /\ wk' = IF wk.step = "Idle" /\ ~fault
           THEN [AtRest EXCEPT !.step = "Opening", !.tag = mailbox.tag, !.fresh = mailbox.fresh]
           ELSE wk
  /\ UNCHANGED <<events, fault, inbox, dev>>

\* A disconnect is idempotent, and acknowledged even when nothing is open.
TakeDisconnect ==
  /\ mailbox # None /\ mailbox.kind = "Disconnect"
  /\ mailbox' = None
  /\ wk' = IF wk.step = "Idle"
           THEN [AtRest EXCEPT !.step = "Quiet", !.fresh = mailbox.fresh, !.ack = TRUE]
           ELSE [Closed(wk) EXCEPT !.fresh = mailbox.fresh, !.ack = TRUE]
  /\ UNCHANGED <<events, fault, inbox, dev>>

TakeSecurity ==
  /\ mailbox # None /\ mailbox.kind = "Security"
  /\ mailbox' = None
  /\ wk' = IF wk.step = "Connected" /\ ~fault
           THEN [wk EXCEPT !.step = "Securing", !.fresh = mailbox.fresh]
           ELSE wk
  /\ UNCHANGED <<events, fault, inbox, dev>>

\* The request may be the first thing the tag hears since an older link: what
\* it had not served by then is lost.
TakeExchange ==
  /\ mailbox # None /\ mailbox.kind = "Exchange"
  /\ mailbox' = None
  /\ IF wk.step = "Ready" /\ ~fault
     THEN /\ wk' = [wk EXCEPT !.step = "Writing", !.fresh = mailbox.fresh]
          /\ inbox' = IF wk.lost THEN inbox ELSE
              [inbox EXCEPT ![wk.tag] = [smp |-> mailbox.smp, off |-> mailbox.off,
                                         rel |-> mailbox.rel]]
     ELSE UNCHANGED <<wk, inbox>>
  /\ UNCHANGED <<events, fault, dev>>

Opened ==
  /\ wk.step = "Opening"
  /\ wk' = [wk EXCEPT !.step = "Connected"]
  /\ Emit("Connected", FALSE, None)
  /\ UNCHANGED <<mailbox, inbox, dev>>

\* Encryption with the stored bond, discovery and subscription are done.
Secured ==
  /\ wk.step = "Securing" /\ ~wk.lost
  /\ wk' = [wk EXCEPT !.step = "Ready"]
  /\ Emit("Secured", FALSE, None)
  /\ UNCHANGED <<mailbox, inbox, dev>>

\* reply_if_complete(): a reply that finds no room closes the session.
Replied ==
  /\ wk.step = "Replied"
  /\ Emit("Reply", FALSE, wk.reply)
  /\ wk' = IF Len(events) < EventMax THEN [wk EXCEPT !.step = "Ready", !.reply = None]
           ELSE Closed(wk)
  /\ UNCHANGED <<mailbox, inbox, dev>>

\* fail(): a lost link, a refused bond, a protocol error, a worker deadline
\* or a latched fault ends the session.  It reports once, as a closing session
\* does not fail again.
WorkerFails(transient) ==
  /\ wk.step \in Working
  /\ wk' = Closed(wk)
  /\ Emit("Failed", transient, None)
  /\ UNCHANGED <<mailbox, inbox, dev>>

\* closing(): the link is physically gone and the host's queue is drained.
Quiesced ==
  /\ wk.step = "Closing"
  /\ wk' = [wk EXCEPT !.step = "Quiet"]
  /\ UNCHANGED <<mailbox, events, fault, inbox, dev>>

\* The acknowledgment waits for room in the event queue.
Acknowledge ==
  /\ wk.step = "Quiet" /\ wk.ack
  /\ Emit("Disconnected", FALSE, None)
  /\ wk' = IF Len(events) < EventMax THEN AtRest ELSE wk
  /\ UNCHANGED <<mailbox, inbox, dev>>

\* set_fault() for a bond store, identity, queue or disconnect error.
FaultLatches ==
  /\ ~fault
  /\ fault' = TRUE
  /\ UNCHANGED <<mailbox, events, wk, inbox, dev>>

-----------------------------------------------------------------------------
(* The tag                                                                 *)

\* The tag serves its request, possibly after the anchor stopped waiting.  A
\* reset drops the link; its reply may or may not get out first.
TagServes(t) ==
  /\ inbox[t] # None
  /\ \E a \in Served(dev[t], inbox[t].smp, inbox[t].rel, inbox[t].off) :
       LET reset == a.ok /\ inbox[t].smp = "Reset"
           heard == [wk EXCEPT !.step = "Replied", !.lost = reset,
                               !.reply = [ok |-> a.ok, off |-> a.off, img |-> a.img]]
       IN  /\ dev' = [dev EXCEPT ![t] = a.flash]
           /\ IF wk.step = "Writing" /\ wk.tag = t /\ ~wk.lost
              THEN \/ wk' = heard
                   \/ reset /\ wk' = [wk EXCEPT !.lost = TRUE]
              ELSE wk' = wk
  /\ inbox' = [inbox EXCEPT ![t] = None]
  /\ UNCHANGED <<mailbox, events, fault>>

\* The tag reboots by itself (power, watchdog, failed trial).
TagReboots(t) ==
  /\ Booted(dev[t]) # dev[t]
  /\ dev' = [dev EXCEPT ![t] = Booted(@)]
  /\ wk' = IF wk.step \in Working \ {"Opening"} /\ wk.tag = t
           THEN [wk EXCEPT !.lost = TRUE] ELSE wk
  /\ inbox' = [inbox EXCEPT ![t] = None]
  /\ UNCHANGED <<mailbox, events, fault>>

\* Healthy for long enough: the tag confirms what it runs.
TagConfirms(t) ==
  /\ ~dev[t].conf
  /\ dev' = [dev EXCEPT ![t] = Confirmed(@)]
  /\ UNCHANGED <<mailbox, events, wk, fault, inbox>>

TakeCommand == TakeConnect \/ TakeDisconnect \/ TakeSecurity \/ TakeExchange

WorkerStep ==
  \/ TakeCommand
  \/ Opened \/ Secured \/ Replied
  \/ \E transient \in BOOLEAN : WorkerFails(transient)
  \/ Quiesced \/ Acknowledge \/ FaultLatches

TagStep ==
  \E t \in Tags : TagServes(t) \/ TagReboots(t) \/ TagConfirms(t)

=============================================================================
