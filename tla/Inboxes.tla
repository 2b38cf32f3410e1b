------------------------------ MODULE Inboxes ------------------------------
(***************************************************************************)
(* What a project promises the scripts of network messages: each handles   *)
(* every message of its name once, one at a time and in order of arrival,  *)
(* and all of them hear of a message at the same time.  Only a stop loses  *)
(* messages.  Nothing is said of processes, their keys or their turns.     *)
(***************************************************************************)
EXTENDS Sequences

CONSTANTS
  Box,      \* the scripts
  Listens,  \* the message name each of them takes
  Message,  \* records with a name and data
  None      \* no message is being handled

VARIABLES
  pending,  \* per script, the data of the messages it has yet to handle
  handling  \* per script, the data of the message it is handling

vars == <<pending, handling>>

Init ==
  /\ pending = [b \in Box |-> <<>>]
  /\ handling = [b \in Box |-> None]

\* In one call a script hears of what arrived, may finish the message it was
\* handling, and may take up the oldest one left, which it may finish as well.
Handle(b, arrived) ==
  LET all == pending[b] \o arrived
  IN  \/ pending'[b] = all /\ handling'[b] \in {handling[b], None}
      \/ /\ all # <<>>
         /\ pending'[b] = Tail(all)
         /\ handling'[b] \in {Head(all), None}

Deliver(m) ==
  \A b \in Box : Handle(b, IF Listens[b] = m.name THEN <<m.data>> ELSE <<>>)

Proceed == \A b \in Box : Handle(b, <<>>)

Stop ==
  /\ pending' = [b \in Box |-> <<>>]
  /\ handling' = [b \in Box |-> None]

Next ==
  \/ \E m \in Message : Deliver(m)
  \/ Proceed
  \/ Stop

Spec == Init /\ [][Next]_vars
=============================================================================
