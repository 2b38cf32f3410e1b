------------------------------ MODULE CodeShape ------------------------------
(***************************************************************************)
(* The interpreter on code that verifies.  Shape gives what each reachable *)
(* instruction finds, relative to the frame it runs in (see Verifier); the *)
(* invariants say that the stacks of a running process are always what the *)
(* shape of the code says, in every frame.                                 *)
(***************************************************************************)
EXTENDS Process, Verifier

CONSTANT Shape

ASSUME ShapeAssumption == Verified(Code, Shape, Starts \cup Closures)

-----------------------------------------------------------------------------
\* Where frame i is: the last frame at the position of the process, the others
\* at the instruction that called the next one.
PosOf(i) == IF i = Len(call_stack) THEN pos ELSE call_stack[i + 1].called_from

\* The values that the instruction frame i is at has taken already: the operands
\* of a call that has not returned, or of a request that has no answer yet.
Taken(i) ==
  IF i < Len(call_stack) \/ defer # NoDefer THEN Code[PosOf(i)].pops ELSE 0

\* Where the part of frame i on the value stack, on the handler stack and on the
\* count of warp blocks ends.
ValuesEnd(i) == IF i = Len(call_stack) THEN value_stack ELSE call_stack[i + 1].value_stack_size
HandlersEnd(i) == IF i = Len(call_stack) THEN Len(handler_stack) ELSE call_stack[i + 1].handler_stack_size
WarpEnd(i) == IF i = Len(call_stack) THEN warp_counter ELSE call_stack[i + 1].warp_counter

\* Each frame has on the stacks what the nesting of the code says at its position:
\* the operands of unfinished expressions and loops, a handler for each try block
\* around it, and the warp blocks around it.
FrameBalanced(i) ==
  LET s == Shape[PosOf(i)] f == call_stack[i] IN
  /\ PosOf(i) \in DOMAIN Shape
  /\ ValuesEnd(i) = f.value_stack_size + s.values - Taken(i)
  /\ WarpEnd(i) = f.warp_counter + s.warp
  /\ HandlersEnd(i) = f.handler_stack_size + Len(s.handlers)
  /\ \A j \in 1 .. Len(s.handlers) :
       handler_stack[f.handler_stack_size + j] =
         [pos |-> s.handlers[j].pos, warp_counter |-> f.warp_counter + s.handlers[j].warp,
          call_stack_size |-> i, value_stack_size |-> f.value_stack_size + s.handlers[j].values]

\* While a process runs, its stacks are what the nesting of blocks in the code
\* says, in every frame: errors, returns and calls, in any order and depth, leave
\* no value, no handler and no warp block behind and take none away.
Balanced ==
  running /\ ~Panicked /\ answer # "consumed"
    => \A i \in 1 .. Len(call_stack) : FrameBalanced(i)

\* A running process never takes a value, a handler or a frame that is not there,
\* and never leaves the code: no unwrap(), drain() or debug_assert of step() fails
\* on code that verifies. (A host that steps a process that has ended gets there.)
StackSafe == running => outcome # "Panic"
=============================================================================
