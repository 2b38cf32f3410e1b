------------------------------ MODULE MCServer ------------------------------
(***************************************************************************)
(* One project file of every kind beside the empty one.  Batches of two    *)
(* steps are shorter than the three idle steps before a sleep, as in the   *)
(* code (64 and 256).                                                      *)
(***************************************************************************)
EXTENDS Server
=============================================================================
