------------------------------ MODULE TagSlots ------------------------------
(***************************************************************************)
(* The two image slots of a tag, as the updater's requests and the boot    *)
(* loader change them.  The slots are kept by MCUboot and MCUmgr, which    *)
(* are libraries; the tag firmware configures and drives them.  The tag    *)
(* is permissive on purpose: it obeys any request it can, so what is safe  *)
(* is safe because of the anchor.                                          *)
(***************************************************************************)
EXTENDS UpdateJob

CONSTANTS
  Factory,   \* the image the tags shipped with
  Corrupt    \* a full-length upload whose hash is not the release's

\* What the tags shipped with is none of the releases the anchor offers, and
\* None is no tag and no image.
ASSUME SlotsAssumption == Factory \notin Releases /\ None \notin Tags \union Releases \union {Factory}

Images == Releases \union {Factory}

\* active, conf   the running image and whether it is confirmed
\* other, off     the inactive slot's image and how many blocks it has
\* pending        a test swap is requested for the next boot
\* ours           the pending or running trial was armed by this anchor
Flash == [active  : Images,
          conf    : BOOLEAN,
          other   : Images \union {Corrupt, None},
          off     : 0..ImageSize,
          pending : BOOLEAN,
          ours    : BOOLEAN]

Bootable(f) == f.other \in Images /\ f.off = ImageSize

Swapped(f, conf) ==
  [f EXCEPT !.active = f.other, !.other = f.active, !.off = ImageSize,
            !.conf = conf, !.pending = FALSE]

\* MCUboot: a pending valid image is tried, an unconfirmed one is reverted.
Booted(f) ==
  IF f.pending /\ Bootable(f) THEN Swapped(f, FALSE)
  ELSE IF f.pending THEN [f EXCEPT !.pending = FALSE, !.ours = FALSE]
  ELSE IF ~f.conf THEN [Swapped(f, TRUE) EXCEPT !.ours = FALSE]
  ELSE f

\* The tag's own health check confirms the running image.
Confirmed(f) == [f EXCEPT !.conf = TRUE, !.ours = FALSE]

\* What the tag reports of its slots.
View(f) == [f EXCEPT !.ours = FALSE]

\* Block n of a release reaches the inactive slot; the last one shows whether
\* the transfer was intact.
Written(f, rel, n) ==
  IF n + 1 < ImageSize THEN {[f EXCEPT !.other = rel, !.off = n + 1]}
  ELSE {[f EXCEPT !.other = r, !.off = n + 1] : r \in {rel, Corrupt}}

\* An upload request at offset n: offset 0 opens the transfer, which may
\* resume one the tag remembers; a later offset must be the next one.  The tag
\* answers with the offset it wants next, and may have made no progress.
Uploads(f, rel, n) ==
  IF n = 0
  THEN Written(f, rel, 0) \union
       (IF f.other = rel /\ f.off \in 1..(ImageSize - 1) THEN {f} ELSE {})
  ELSE IF f.other = rel /\ f.off = n THEN Written(f, rel, n) \union {f} ELSE {f}

Answer(f, off, img) == [flash |-> f, ok |-> TRUE, off |-> off, img |-> img]

\* Every way the tag may serve a request.
Served(f, smp, rel, n) ==
  {[flash |-> f, ok |-> FALSE, off |-> 0, img |-> None]} \union
  CASE smp = "TagStatus" -> {Answer(f, 0, None)}
    [] smp = "ImageList" -> {Answer(f, 0, View(f)), Answer(f, 0, None)}
    [] smp = "Upload"    -> {Answer(g, g.off, None) : g \in Uploads(f, rel, n)}
    [] smp = "Trial"     -> IF f.off = ImageSize
                            THEN {Answer([f EXCEPT !.pending = TRUE, !.ours = TRUE], 0, None)}
                            ELSE {}
    [] smp = "Reset"     -> {Answer(Booted(f), 0, None)}

=============================================================================
