------------------------------ MODULE MCSlotMap ------------------------------
(***************************************************************************)
(* Two values in up to three slots, each vacated up to twice: slots are    *)
(* reused in every order and every stale key of every generation is tried. *)
(***************************************************************************)
EXTENDS SlotMap
=============================================================================
