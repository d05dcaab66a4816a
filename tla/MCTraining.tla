----------------------------- MODULE MCTraining -----------------------------
(***************************************************************************)
(* Windows of two batches, an update from two, three updates.  The second  *)
(* update starts in the middle of the stream, validation and checkpoint    *)
(* fall due at its end and once more after the last; the byte limit holds  *)
(* one window and one batch, so that a window waits for bytes while the    *)
(* one before is consumed.                                                 *)
(***************************************************************************)
EXTENDS Training

(* Batches of one and of two units by turns.                               *)
Alternating(b) == 1 + (b % 2)
=============================================================================
