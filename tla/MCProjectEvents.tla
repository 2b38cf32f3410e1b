-------------------------- MODULE MCProjectEvents ---------------------------
(***************************************************************************)
(* A green flag script, a key script, a custom event script whose contexts *)
(* may wait, and two entities that listen to the same network message, of  *)
(* which they may hold two each: the input of user, host and network       *)
(* between any two steps, what it leaves in context queues, and how that   *)
(* leaves them.  The processes fork, and the host adds one that belongs to *)
(* no script.                                                              *)
(*                                                                         *)
(* The content of a message is only compared, so the two contents may be   *)
(* exchanged.                                                              *)
(***************************************************************************)
EXTENDS MCProject

MCScripts ==
  << HatOf("OnFlag", AnyName, 1),
     HatOf("NetworkMessage", "m", 1),
     HatOf("NetworkMessage", "m", 2),
     HatOf("Custom", "m", 2),
     HatOf("OnKey", "a", 1) >>
MCNewHats == {}
MCKey == 1 .. 18
MCSymmetry == Permutations(Data)
=============================================================================
