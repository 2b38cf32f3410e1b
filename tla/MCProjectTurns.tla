--------------------------- MODULE MCProjectTurns ---------------------------
(***************************************************************************)
(* A green flag script and the receiver of a message, either of which may  *)
(* broadcast and wait: every order in which they take their turns.         *)
(***************************************************************************)
EXTENDS MCProject

MCScripts ==
  << HatOf("OnFlag", AnyName, 1),
     HatOf("LocalMessage", "m", 2) >>
MCNewHats == {}
MCKey == 1 .. 9
=============================================================================
