----------------------------- MODULE MCPrograms -----------------------------
(* Programs of a few nested blocks: every construct in every other one.       *)
EXTENDS Programs
=============================================================================
