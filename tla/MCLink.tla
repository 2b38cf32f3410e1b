------------------------------- MODULE MCLink -------------------------------
(***************************************************************************)
(* All programs of four instructions with an address of code; an address   *)
(* of code, a string and a number; or none: and all of three instructions, *)
(* some of them located.  The numbers are the greatest and the least of    *)
(* their types.  A byte holds one bit of a number, so that addresses have  *)
(* up to seven bytes and shrink in several rounds.  With two cycles some   *)
(* programs run out of them, as larger ones may with the three of the code.*)
(***************************************************************************)
EXTENDS Link, SequencesExt

MCDataPos == (0 :> 0) @@ (1 :> 5)

Number(to) ==
  CASE to = 0 -> Integer(-Half)
    [] to = 1 -> Integer(Half - 1)
    [] to = 2 -> Integer(-1)
    [] to = 3 -> Plain(Word - 1)

Operands(size) ==
  {<<>>}
  \union {<<CodeRef(to)>> : to \in 0 .. size - 1}
  \union {<<Number(to), CodeRef(to), DataRef(1), Plain(2)>> : to \in 0 .. size - 1}

\* The words of instructions with the given operands.
Words(ins) == FlattenSeq([n \in DOMAIN ins |-> <<Op(n - 1)>> \o ins[n]])

\* Locations, with tokens of one to three bytes.
Located == <<<<-1>>, <<2, 0>>, <<0, -1, 4>>>>

MCPrograms ==
  {[words |-> Words(ins), locs |-> <<>>] : ins \in [1 .. 4 -> Operands(4)]}
  \union {[words |-> Words(ins), locs |-> [n \in D |-> Located[n]]] :
           ins \in [1 .. 3 -> Operands(3)], D \in SUBSET (1 .. 2)}
  \union {[words |-> <<>>, locs |-> <<>>]}
=============================================================================
