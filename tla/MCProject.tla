----------------------------- MODULE MCProject -----------------------------
(***************************************************************************)
(* What the model-checking instances of Project share.  Process keys are   *)
(* opaque: the scheduler stores and compares them and nothing else, so two *)
(* states that differ by a renaming of keys go on alike.  View renames the *)
(* keys in the order in which the state mentions them, and is used by the  *)
(* runs that check safety only.                                            *)
(***************************************************************************)
EXTENDS Project

HatOf(type, name, entity) == [event |-> [type |-> type, name |-> name],
                              entity |-> entity]

ProcessAt(n) ==
  IF proj.queue[n] \in Live(proj) THEN proj.processes[proj.queue[n]]
                                  ELSE NewProcess(0)

\* Every key the state mentions, and NoKey first.
Mentioned ==
  <<NoKey>> \o proj.queue
    \o [i \in DOMAIN proj.scripts |-> proj.scripts[i].process]
    \o [n \in DOMAIN proj.queue |-> ProcessAt(n).barrier]

Renamed ==
  LET keys == Mentioned
  IN  [n \in DOMAIN keys |->
         CHOOSE a \in 1 .. n : /\ keys[a] = keys[n]
                               /\ \A b \in 1 .. a - 1 : keys[b] # keys[n]]

View ==
  << Renamed,
     [n \in DOMAIN proj.queue |->
        <<proj.queue[n] \in Live(proj), [ProcessAt(n) EXCEPT !.barrier = NoKey]>>],
     [i \in DOMAIN proj.scripts |-> [proj.scripts[i] EXCEPT !.process = NoKey]],
     Cardinality(Live(proj)), roots >>
=============================================================================
