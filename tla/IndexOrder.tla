----------------------------- MODULE IndexOrder -----------------------------
(***************************************************************************)
(* A loop over the indices of a vector that acts on some of them visits    *)
(* those in increasing order.  InOrder lists a finite set of numbers in    *)
(* the order such a loop reaches them; it stands for the `for` loops over  *)
(* project scripts (project.rs), over slots (slotmap.rs) and over the      *)
(* positions of locations, in their map's order (bytecode.rs).             *)
(***************************************************************************)
EXTENDS Naturals, Sequences, FiniteSets

Rank(R, i) == Cardinality({j \in R : j < i}) + 1

InOrder(R) == [n \in 1 .. Cardinality(R) |-> CHOOSE i \in R : Rank(R, i) = n]
=============================================================================
