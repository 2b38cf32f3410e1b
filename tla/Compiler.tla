------------------------------ MODULE Compiler ------------------------------
(***************************************************************************)
(* The code that bytecode.rs emits for blocks, as operators from the code  *)
(* of a block's parts to the code of the block.  Targets of jumps are      *)
(* relative here, so that code can be put together in any place; Linked    *)
(* makes them positions.  The parts are expressions (which leave one       *)
(* value), lists of expressions, and statements (which leave none).        *)
(***************************************************************************)
EXTENDS Instructions, SequencesExt

\* append_simple_ins: the operands in order, then the instruction.
SimpleIns(exprs, ins) == FlattenSeq(exprs) \o <<ins>>

\* append_variadic_op: the items of a literal list, or an expression that has one.
Variadic(exprs, ins) == SimpleIns(exprs, ins)

-----------------------------------------------------------------------------
\* Expressions.

Value == <<PushLiteral>>
Variable == <<PushLookup>>
Closure == <<MakeClosure>>

\* Every expression whose code is its operands and one instruction.
Operation(exprs) == SimpleIns(exprs, Operator(Len(exprs)))

Conditional(condition, then, otherwise) ==
  condition \o <<ConditionalJump(Len(then) + 2)>> \o then
    \o <<Jump(Len(otherwise) + 1)>> \o otherwise

\* Or and And, which leave the first operand if it decides.
ShortCircuit(left, right) ==
  left \o <<DupeValue(0), ConditionalJump(Len(right) + 2), PopValue>> \o right \o <<Operator(1)>>

\* The upvars of the function are declared first.
CallFn(upvars, args, function) ==
  [i \in 1 .. upvars |-> DeclareLocal] \o SimpleIns(args, Call(function, Len(args)))

CallTheClosure(closure, args) == closure \o SimpleIns(args, CallClosure(Len(args)))

\* With new_entity, which the instruction takes along with the closure.
CallForEntity(new_entity, closure, args) ==
  new_entity \o closure \o SimpleIns(args, Effect("CallClosure", Len(args) + 2, 1))

Rpc(args, soft) == SimpleIns(args, CallRpc(Len(args), soft))

\* The name of the call is an operand too.
Syscall(name, args, soft) == SimpleIns(<<name>> \o args, CallRpc(Len(args) + 1, soft))

NetworkMessageReply(values, target) ==
  SimpleIns(Append(values, target), SendNetworkMessage(Len(values) + 1, TRUE))

CloneOf(target) == target \o <<CloneEntity>>

\* A copy of the input list is worked off; the result is exchanged with what lies
\* under it at the end.
Map(f, list) ==
  f \o list \o
  <<VariadicOp(1), VariadicOp(0),
    DupeValue(2), DupeValue(2), ListPopFirstOrElse(6),
      CallClosure(1), DupeValue(1), Change(2), Simple("Yield"), Jump(-7),
    SwapValues(1, 3), PopValue, PopValue, PopValue>>

Keep(f, list) ==
  f \o list \o
  <<VariadicOp(1), VariadicOp(0),
    DupeValue(1), ListPopFirstOrElse(11),
      DupeValue(3), DupeValue(1), CallClosure(1), ConditionalJump(4),
        DupeValue(1), Change(2), Jump(2),
        PopValue,
      Simple("Yield"), Jump(-11),
    SwapValues(0, 2), PopValue, PopValue>>

FindFirst(f, list) ==
  f \o list \o
  <<VariadicOp(1),
    DupeValue(0), ListPopFirstOrElse(8),
      DupeValue(2), DupeValue(1), CallClosure(1), ConditionalJump(5),
      PopValue, Simple("Yield"), Jump(-8),
    PushLiteral,
    SwapValues(0, 2), PopValue, PopValue>>

Combine(list, f) ==
  list \o <<VariadicOp(1)>> \o f \o
  <<DupeValue(1), ListPopFirstOrElse(10),
    DupeValue(1), DupeValue(3), ListPopFirstOrElse(5),
      SwapValues(1, 2), CallClosure(2), Simple("Yield"), Jump(-6),
    PopValue, Jump(2),
    PushLiteral,
    SwapValues(0, 2), PopValue, PopValue>>

-----------------------------------------------------------------------------
\* Statements.

\* Every statement that is its operands and one instruction without a result.
Action(exprs) == SimpleIns(exprs, Change(Len(exprs)))
SystemCommand(exprs) == SimpleIns(exprs, Command(Len(exprs)))
Declare(vars) == [i \in 1 .. vars |-> DeclareLocal]

Report(value) == value \o <<Return>>
ThrowValue(error) == error \o <<Throw>>
Wait(seconds) == seconds \o <<Sleep>>
SendTo(msg_type, targets, wait) ==
  SimpleIns(<<msg_type>> \o targets, SendLocalMessage(Len(targets) + 1, wait))
SendMessage(values, target) ==
  SimpleIns(Append(values, target), SendNetworkMessage(Len(values) + 1, FALSE))
Reply(value) == value \o <<SendNetworkReply>>
Fork(closure, args) == closure \o SimpleIns(args, ForkClosure(Len(args)))

\* Say and Think for some time: the text, the time, and an empty text.
SayFor(content, duration) ==
  content \o <<Command(1)>> \o duration \o <<Sleep, PushLiteral, Command(1)>>

\* A call whose result is not used: CallFn, RunClosure, RunRpc, Clone, ...
Run(expr) == expr \o <<PopValue>>

Warp(stmts) == <<Simple("WarpStart")>> \o stmts \o <<Simple("WarpStop")>>

InfLoop(stmts) == stmts \o <<Simple("Yield"), Jump(-(Len(stmts) + 1))>>

WaitUntil(condition) ==
  condition \o <<ConditionalJump(3), Simple("Yield"), Jump(-(Len(condition) + 2))>>

UntilLoop(condition, stmts) ==
  condition \o <<ConditionalJump(Len(stmts) + 3)>> \o stmts
    \o <<Simple("Yield"), Jump(-(Len(condition) + Len(stmts) + 2))>>

\* Mutant of Repeat: the number of turns stays.
RepeatLeavingTurns(times, stmts) ==
  times \o <<DupeValue(0), PushLiteral, Operator(2), ConditionalJump(Len(stmts) + 5)>>
    \o stmts \o <<PushLiteral, Operator(2), Simple("Yield"), Jump(-(Len(stmts) + 7))>>

\* The number of turns left stays on the value stack.
Repeat(times, stmts) ==
  times \o <<DupeValue(0), PushLiteral, Operator(2), ConditionalJump(Len(stmts) + 5)>>
    \o stmts \o
    <<PushLiteral, Operator(2), Simple("Yield"), Jump(-(Len(stmts) + 7)),
      PopValue>>

\* The step, the variable and the number of turns left stay on the value stack.
ForLoop(start, stop, stmts) ==
  <<DeclareLocal>> \o start \o <<Operator(1)>> \o stop \o
  <<Operator(1), DupeValue(1), DupeValue(1), Operator(2), ConditionalJump(3),
      PushLiteral, Jump(2), PushLiteral,
    SwapValues(0, 2), SwapValues(0, 1), DupeValue(1), Operator(2), Operator(1),
    DupeValue(0), PushLiteral, Operator(2), ConditionalJump(Len(stmts) + 12),
      DupeValue(1), Assign>> \o stmts \o
  <<PushLiteral, Operator(2), DupeValue(1), DupeValue(3), Operator(2),
      SwapValues(0, 2), PopValue, Simple("Yield"), Jump(-(Len(stmts) + 14)),
    PopValue, PopValue, PopValue>>

\* The rest of the list stays on the value stack.
ForeachLoop(items, stmts) ==
  <<DeclareLocal>> \o items \o
  <<VariadicOp(1), DupeValue(0), ListPopFirstOrElse(Len(stmts) + 4), Assign>>
    \o stmts \o
  <<Simple("Yield"), Jump(-(Len(stmts) + 4)), PopValue>>

If(condition, then) == condition \o <<ConditionalJump(Len(then) + 1)>> \o then

IfElse(condition, then, otherwise) == Conditional(condition, then, otherwise)

\* Mutant of TryCatch: the handler does not pop itself.
TryCatchOnce(code, handler) ==
  <<PushHandler(Len(code) + 3)>> \o code \o <<PopHandler, Jump(Len(handler) + 1)>> \o handler

\* Either way the handler is popped: at the end of the code, or as the first
\* thing the handler does.
TryCatch(code, handler) ==
  <<PushHandler(Len(code) + 3)>> \o code \o
  <<PopHandler, Jump(Len(handler) + 2), PopHandler>> \o handler

-----------------------------------------------------------------------------
\* A function, a script or a closure: append_stmts_ret.
Unit(upvars, stmts) ==
  [i \in 1 .. upvars |-> InitUpvar] \o stmts \o <<PushLiteral, Return>>

\* Where unit i of a list of units starts.
StartOf(units, i) == Len(FlattenSeq(SubSeq(units, 1, i - 1))) + 1

\* compile() and link(): the units one after the other, with positions for
\* targets; a call names the unit of its function.
Linked(units) ==
  LET code == FlattenSeq(units)
  IN [p \in DOMAIN code |->
        CASE code[p].op = "Call" -> [code[p] EXCEPT !.to = StartOf(units, @)]
          [] code[p].op \in Jumps \ {"Call"} -> [code[p] EXCEPT !.to = p + @]
          [] OTHER -> code[p]]
=============================================================================
