------------------------------ MODULE MCReplies ------------------------------
(***************************************************************************)
(* Two processes and two requests: of one process after the other's or of  *)
(* the same process, to two scripts that may each reply.  Replies race each*)
(* other, the time-out, the stop of the process that waits, and its next   *)
(* request.                                                                *)
(***************************************************************************)
EXTENDS Replies
=============================================================================
