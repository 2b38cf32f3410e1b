------------------------- MODULE MCProjectEntities --------------------------
(***************************************************************************)
(* A sprite with one script, which broadcasts with and without wait to one *)
(* or all of itself and its clones; the receivers broadcast and clone as   *)
(* well, and may be the sender.  The host adds a second script to the      *)
(* sprite at any time.                                                     *)
(*                                                                         *)
(* Five scripts are what it takes for a clone of a clone to get two of     *)
(* them that do not lie side by side: the first clone gets the second      *)
(* script, the host adds the third to the sprite, and the clone of that    *)
(* clone copies the first and the third.                                   *)
(***************************************************************************)
EXTENDS MCProject

MCScripts == << HatOf("LocalMessage", AnyName, 1) >>
MCNewHats == {HatOf("OnClone", AnyName, 1)}
MCKey == 1 .. 19
=============================================================================
