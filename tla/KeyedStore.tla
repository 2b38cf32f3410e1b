----------------------------- MODULE KeyedStore -----------------------------
(***************************************************************************)
(* What a generational container promises its users: insertion returns a   *)
(* key that was never issued before, and a key that has lost its value     *)
(* never reaches a value again.  Nothing is said of slots or generations.  *)
(***************************************************************************)
CONSTANTS Key, Value, None

VARIABLES
  live,    \* the keys that reach a value, with the value
  issued,  \* every key an insertion has returned so far
  ret      \* what the last call returned

vars == <<live, issued, ret>>

Lookup(k) == IF k \in DOMAIN live THEN live[k] ELSE None

Init ==
  /\ live = [k \in {} |-> None]
  /\ issued = {}
  /\ ret = None

Insert(v) ==
  \E k \in Key \ issued :
    /\ live' = [j \in DOMAIN live \union {k} |-> IF j = k THEN v ELSE live[j]]
    /\ issued' = issued \union {k}
    /\ ret' = k

Remove(k) ==
  /\ live' = [j \in DOMAIN live \ {k} |-> live[j]]
  /\ ret' = Lookup(k)
  /\ UNCHANGED issued

Clear ==
  /\ live' = [k \in {} |-> None]
  /\ ret' = None
  /\ UNCHANGED issued

Get(k) ==
  /\ ret' = Lookup(k)
  /\ UNCHANGED <<live, issued>>

Assign(k, v) ==
  /\ live' = [j \in DOMAIN live |-> IF j = k THEN v ELSE live[j]]
  /\ ret' = Lookup(k)
  /\ UNCHANGED issued

Next ==
  \/ \E v \in Value : Insert(v)
  \/ \E k \in Key : Remove(k) \/ Get(k)
  \/ \E k \in Key, v \in Value : Assign(k, v)
  \/ Clear

Spec == Init /\ [][Next]_vars
=============================================================================
