------------------------------ MODULE MCProcess ------------------------------
(* Functions, a script and closures whose blocks are nested in each other:    *)
(* loops, warp and try blocks, calls in both, errors, and waits for answers.  *)
EXTENDS CodeShape

C == INSTANCE Compiler

\* A function that calls itself and catches what the call throws.
Recursive ==
  C!TryCatch(C!If(C!Value, C!Warp(C!Action(<<C!Variable, C!CallFn(1, <<C!Value>>, 1)>>))),
             C!ThrowValue(C!Variable))
    \o C!TryCatch(C!Report(C!Variable), C!Action(<<C!Variable>>))

\* A script: a call in a warped loop, a request in a try block, a broadcast.
Main ==
  C!Warp(C!Repeat(C!Value, C!TryCatch(C!Run(C!CallFn(0, <<C!Value>>, 1)), <<>>)))
    \o C!TryCatch(C!If(C!Rpc(<<C!Value>>, FALSE), C!SendTo(C!Value, <<>>, TRUE)), C!Wait(C!Value))

\* A script that works with closures, and answers a message.
Other ==
  C!ForeachLoop(C!Map(C!Closure, C!Variable), C!TryCatch(C!Reply(C!Value), C!Run(C!Rpc(<<>>, TRUE))))
    \o C!Run(C!NetworkMessageReply(<<>>, C!Value)) \o C!Fork(C!Closure, <<>>)

\* A closure that may call one, in a loop and in a try block.
Body == C!Repeat(C!Value, C!TryCatch(C!Warp(C!Run(C!CallTheClosure(C!Variable, <<>>))), <<>>))

Units == <<C!Unit(0, Recursive), C!Unit(0, Main), C!Unit(0, Other), C!Unit(1, Body)>>
First(i) == C!StartOf(Units, i)
MCCode == C!Linked(Units)
MCStarts == {First(2), First(3)}
MCClosures == {First(4)}
UnitShape(i) == Inferred(MCCode, {First(i)}, First(i), First(i + 1) - 1)
MCShape == UnitShape(1) @@ UnitShape(2) @@ UnitShape(3) @@ UnitShape(4)
=============================================================================
