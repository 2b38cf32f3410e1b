----------------------------- MODULE MCTerminal -----------------------------
(***************************************************************************)
(* Two processes that ask two questions, answered with up to two characters:*)
(* questions queue up, and outlive the process that asked.                 *)
(***************************************************************************)
EXTENDS Terminal
=============================================================================
