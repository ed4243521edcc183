------------------------------ MODULE Firmware ------------------------------
(***************************************************************************)
(* What over-the-air updates with rollback promise, independently of slots *)
(* and boot records: the device runs an image that has proved itself, or   *)
(* tries another one; an image on trial that does not prove itself before  *)
(* the next restart is left, for one that had.                             *)
(***************************************************************************)
CONSTANT Images   \* kinds of image; "good" ones come up, others do not

VARIABLES runs, onTrial

Init == runs = "good" /\ onTrial = FALSE

Try      == ~onTrial /\ runs' \in Images /\ onTrial' = TRUE
Confirm  == onTrial /\ runs = "good" /\ onTrial' = FALSE /\ UNCHANGED runs
Rollback == onTrial /\ runs' = "good" /\ onTrial' = FALSE

Spec == Init /\ [][Try \/ Confirm \/ Rollback]_<<runs, onTrial>>
=============================================================================
