------------------------------ MODULE Verifier ------------------------------
(***************************************************************************)
(* What bytecode has to be like for the interpreter to be safe.  Nothing   *)
(* at run time checks it: that no instruction finds the value stack, the   *)
(* handlers or the warp blocks in another condition than it expects rests  *)
(* on how the compiler of bytecode.rs nests its code.                      *)
(*                                                                         *)
(* A shape says what an instruction finds, relative to the frame it runs   *)
(* in: the number of values, the depth of warp blocks, and the try blocks  *)
(* around it, each with its handler's position and the values and warp     *)
(* blocks it was entered with.  Code is verified by a function from its    *)
(* reachable positions to their shapes.                                    *)
(***************************************************************************)
EXTENDS Instructions, SequencesExt

TryBlock == [pos : Nat, values : Nat, warp : Nat]
Shapes == [values : Nat, warp : Nat, handlers : Seq(TryBlock)]

\* What the first instruction of a script, a function or a closure finds.
Entry == [values |-> 0, warp |-> 0, handlers |-> <<>>]

\* What ins leaves for the instruction after it, if it found s.
After(ins, s) ==
  [values |-> s.values - ins.pops + ins.pushes,
   warp |-> CASE ins.op = "WarpStart" -> s.warp + 1
              [] ins.op = "WarpStop" -> s.warp - 1
              [] OTHER -> s.warp,
   handlers |-> CASE ins.op = "PushHandler" ->
                       Append(s.handlers, [pos |-> ins.to, values |-> s.values, warp |-> s.warp])
                  [] ins.op = "PopHandler" -> Front(s.handlers)
                  [] OTHER -> s.handlers]

\* What it leaves for its target. A handler is still there when it is run.
AtTarget(ins, s) ==
  CASE ins.op = "Call" -> Entry
    [] ins.op = "ListPopFirstOrElse" -> [s EXCEPT !.values = @ - 1]
    [] OTHER -> After(ins, s)

GoesOn(ins) == ins.op \notin {"Jump", "Return", "Throw"}

\* The instruction finds what it needs, and an error leaves at least the values
\* that the try block around it was entered with.
Supplied(ins, s) ==
  /\ ins.needs <= s.values
  /\ ins.op = "WarpStop" => s.warp > 0
  /\ ins.op = "PopHandler" => s.handlers # <<>>
  /\ ins.fails /\ s.handlers # <<>> => Last(s.handlers).values <= s.values - ins.pops

\* Wherever the instruction at p goes on finds what it expects.
Flows(code, shape, p) ==
  /\ GoesOn(code[p]) =>
       p + 1 \in DOMAIN shape /\ shape[p + 1] = After(code[p], shape[p])
  /\ code[p].op \in Jumps =>
       code[p].to \in DOMAIN shape /\ shape[code[p].to] = AtTarget(code[p], shape[p])

\* The handler of the innermost try block finds the values and the warp blocks that
\* the block was entered with, and itself on the handler stack.
Handled(shape, p) ==
  shape[p].handlers # <<>> =>
    LET try == Last(shape[p].handlers)
    IN /\ try.pos \in DOMAIN shape
       /\ shape[try.pos] = [values |-> try.values, warp |-> try.warp,
                            handlers |-> shape[p].handlers]

Verified(code, shape, entries) ==
  /\ DOMAIN shape \subseteq DOMAIN code
  /\ \A p \in DOMAIN shape :
       /\ shape[p] \in Shapes
       /\ Supplied(code[p], shape[p]) /\ Flows(code, shape, p) /\ Handled(shape, p)
  /\ \A p \in entries : p \in DOMAIN shape /\ shape[p] = Entry

\* The shapes from first to last of code with these entries, if it is such that each
\* other instruction is reached first from one before it, as the compiler's is. (If two
\* ways to an instruction leave it different shapes, it gets one of them and the code
\* does not verify.)
Inferred(code, entries, first, last) ==
  LET Found(shape, p) ==
        LET next == IF GoesOn(code[p]) THEN {p + 1} ELSE {}
            target == IF code[p].op \in Jumps THEN {code[p].to} ELSE {}
        IN [q \in DOMAIN shape \cup ((next \cup target) \cap first .. last) |->
              IF q \in DOMAIN shape THEN shape[q]
              ELSE IF q \in next THEN After(code[p], shape[p])
              ELSE AtTarget(code[p], shape[p])]
      shapes[p \in first - 1 .. last] ==
        IF p < first THEN [q \in entries |-> Entry]
        ELSE LET before == shapes[p - 1]
             IN IF p \in DOMAIN before THEN Found(before, p) ELSE before
  IN shapes[last]
=============================================================================
