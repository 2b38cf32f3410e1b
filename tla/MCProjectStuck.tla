--------------------------- MODULE MCProjectStuck ---------------------------
(***************************************************************************)
(* One script listens to a network message.  A message that arrives in the *)
(* call in which the script ends the one before is left with no process.   *)
(***************************************************************************)
EXTENDS MCProject

MCScripts ==
  << HatOf("NetworkMessage", "m", 1) >>
MCNewHats == {}
MCKey == 1 .. 10
=============================================================================
