--------------------------- MODULE UpdatePromise ---------------------------
(***************************************************************************)
(* What the updater promises, without sessions, queues or transfers: a     *)
(* ledger of requests and the images the tags run.  No tag is ever put on  *)
(* trial without a request that says so, a trial falls back to the image   *)
(* before it, and an outcome says what the tag really runs.                *)
(***************************************************************************)
EXTENDS Integers

CONSTANTS Tags, Releases, Factory, IdMax, None

VARIABLES
  ledger,  \* request id -> the request and what became of it
  image    \* tag -> what it runs

vars == <<ledger, image>>

Pending == {"open", "armed"}

Over == {"done", "failed", "cancelled"}

Entry == [tag : Tags, rel : Releases, st : Pending \union Over]

\* An id not used yet, and one whose outcome is not remembered any more.
Unused == [tag |-> None, rel |-> None, st |-> "unused"]

Gone == [tag |-> None, rel |-> None, st |-> "gone"]

\* runs, sure   the running image, and whether it is confirmed
\* back         what an unconfirmed image falls back to
\* trial        the release this anchor has put on trial
\* foreign      another anchor's trial is waiting for a reboot
Image == [runs : Releases \union {Factory}, sure : BOOLEAN,
          back : Releases \union {Factory, None},
          trial : Releases \union {None}, foreign : BOOLEAN]

Init ==
  /\ ledger = [i \in 1..IdMax |-> Unused]
  /\ image \in [Tags -> Image]
  /\ \A t \in Tags : image[t].trial = None /\ (image[t].sure <=> image[t].back = None)

\* A request for a tag with no other pending one; old outcomes may go.
Open(i, t, r) ==
  /\ ledger[i] = Unused
  /\ \A k \in 1..IdMax : ledger[k].st \in Pending => ledger[k].tag # t
  /\ \E lost \in SUBSET {k \in 1..IdMax : ledger[k].st \in Over} :
       ledger' = [k \in 1..IdMax |-> IF k = i THEN [tag |-> t, rel |-> r, st |-> "open"]
                                     ELSE IF k \in lost THEN Gone ELSE ledger[k]]
  /\ image' = image

Settle(i, from, to) ==
  /\ ledger[i].st \in from
  /\ ledger' = [ledger EXCEPT ![i].st = to]
  /\ image' = image

Arm(i) == Settle(i, {"open"}, "armed")

Cancel(i) == Settle(i, {"open"}, "cancelled")

Succeed(i) ==
  /\ Settle(i, {"open", "armed"}, "done")
  /\ image[ledger[i].tag].runs = ledger[i].rel /\ image[ledger[i].tag].sure

Fail(i) ==
  /\ Settle(i, {"armed"}, "failed")
  /\ image[ledger[i].tag].runs # ledger[i].rel /\ image[ledger[i].tag].trial = None

\* The tag agrees to try the release, for a request that is armed.
Agree(i) ==
  /\ ledger[i].st = "armed"
  /\ image[ledger[i].tag].sure
  /\ image' = [image EXCEPT ![ledger[i].tag].trial = ledger[i].rel]
  /\ ledger' = ledger

Try(t) ==
  /\ image[t].sure
  /\ \E r \in (IF image[t].foreign THEN Releases ELSE {image[t].trial} \ {None}) :
       image' = [image EXCEPT ![t] = [@ EXCEPT !.runs = r, !.sure = FALSE,
                                             !.back = image[t].runs, !.foreign = FALSE]]
  /\ ledger' = ledger

Confirm(t) ==
  /\ ~image[t].sure
  /\ image' = [image EXCEPT ![t] = [@ EXCEPT !.sure = TRUE, !.back = None, !.trial = None]]
  /\ ledger' = ledger

FallBack(t) ==
  /\ ~image[t].sure
  /\ image' = [image EXCEPT ![t] = [@ EXCEPT !.runs = image[t].back, !.sure = TRUE,
                                             !.back = None, !.trial = None]]
  /\ ledger' = ledger

Step ==
  \/ \E i \in 1..IdMax :
       \/ \E t \in Tags, r \in Releases : Open(i, t, r)
       \/ Arm(i) \/ Cancel(i) \/ Succeed(i) \/ Fail(i) \/ Agree(i)
  \/ \E t \in Tags : Try(t) \/ Confirm(t) \/ FallBack(t)

\* A step changes what is asked for or what a tag runs; the rest is stuttering.
Next == vars' # vars /\ Step

Spec == Init /\ [][Next]_vars

=============================================================================
