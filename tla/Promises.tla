------------------------------ MODULE Promises ------------------------------
(***************************************************************************)
(* What the scripts of a project may rely on when they send a message and  *)
(* wait for the reply: a request ends at most once; it ends with a reply   *)
(* that a receiver gave to this very request, with an error that such a    *)
(* reply causes, or with none; a receiver replies to a request at most     *)
(* once, whoever else replies.                                             *)
(***************************************************************************)
CONSTANTS RequestId, Script, NoValue

VARIABLES
  fate,     \* unused, waiting, and then answered, failed, empty or stopped
  got,      \* the reply an answered request ended with
  replied   \* how often a receiver has replied to a request

vars == <<fate, got, replied>>

Init ==
  /\ fate = [id \in RequestId |-> "unused"]
  /\ got = [id \in RequestId |-> NoValue]
  /\ replied = [x \in Script \X RequestId |-> 0]

Ask(id) ==
  /\ fate[id] = "unused"
  /\ fate' = [fate EXCEPT ![id] = "waiting"]
  /\ UNCHANGED <<got, replied>>

Reply(s, id) ==
  /\ fate[id] # "unused"
  /\ replied[<<s, id>>] = 0
  /\ replied' = [replied EXCEPT ![<<s, id>>] = 1]
  /\ UNCHANGED <<fate, got>>

Answer(s, id) ==
  /\ fate[id] = "waiting"
  /\ replied[<<s, id>>] = 1
  /\ fate' = [fate EXCEPT ![id] = "answered"]
  /\ got' = [got EXCEPT ![id] = s]
  /\ UNCHANGED replied

\* A reply has come that is no value: an error in place of an answer.
Fail(s, id) ==
  /\ fate[id] = "waiting"
  /\ replied[<<s, id>>] = 1
  /\ fate' = [fate EXCEPT ![id] = "failed"]
  /\ UNCHANGED <<got, replied>>

GiveUp(id, end) ==
  /\ fate[id] = "waiting"
  /\ fate' = [fate EXCEPT ![id] = end]
  /\ UNCHANGED <<got, replied>>

Next ==
  \E id \in RequestId :
    \/ Ask(id)
    \/ \E s \in Script : Reply(s, id) \/ Answer(s, id) \/ Fail(s, id)
    \/ \E end \in {"empty", "stopped"} : GiveUp(id, end)

Spec == Init /\ [][Next]_vars
=============================================================================
