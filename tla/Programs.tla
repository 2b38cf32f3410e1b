------------------------------ MODULE Programs ------------------------------
(***************************************************************************)
(* Programs of growing size and the code the compiler makes of them: an    *)
(* expression and a list of statements, each of which is nested in another *)
(* block, or used as a part of one, in each step. The statements become    *)
(* units, which may call each other: functions, scripts and closures.      *)
(***************************************************************************)
EXTENDS Compiler, Verifier

CONSTANTS
  MaxBlocks,  \* bound: blocks of a program
  MaxUnits    \* units of a program

ASSUME SizeAssumption == MaxBlocks \in Nat /\ MaxUnits \in Nat \ {0}

VARIABLES
  expr,   \* ByteCodeBuilder::ins, after append_expr
  stmts,  \* and after append_stmt, once for each statement
  units,  \* the units that are complete
  blocks  \* how many blocks they are made of

vars == <<expr, stmts, units, blocks>>

Init == expr = Value /\ stmts = <<>> /\ units = <<>> /\ blocks = 0

AddBlock == blocks < MaxBlocks /\ blocks' = blocks + 1
AppendExpr(code) == AddBlock /\ expr' = code /\ UNCHANGED <<stmts, units>>
AppendStmt(code) == AddBlock /\ stmts' = code /\ UNCHANGED <<expr, units>>

Operands ==
  \/ AppendExpr(Variable) \/ AppendExpr(Closure)
  \/ AppendExpr(Operation(<<expr, Value>>))
  \/ AppendExpr(CloneOf(expr))

Conditionals ==
  \/ AppendExpr(Conditional(Variable, expr, Value))
  \/ AppendExpr(Conditional(expr, Value, expr))
  \/ AppendExpr(ShortCircuit(expr, Variable))
  \/ AppendExpr(ShortCircuit(Variable, expr))

\* The function that is called is any unit, the one that calls it, or one that is
\* compiled later, among them.
Calls ==
  \/ \E upvars \in 0 .. 1, function \in 1 .. MaxUnits :
       AppendExpr(CallFn(upvars, <<expr, Value>>, function))
  \/ AppendExpr(CallTheClosure(Closure, <<expr>>))
  \/ AppendExpr(CallForEntity(Variable, Closure, <<expr>>))
  \/ \E soft \in BOOLEAN : AppendExpr(Rpc(<<expr>>, soft))
  \/ AppendExpr(Syscall(expr, <<Value>>, FALSE))
  \/ AppendExpr(NetworkMessageReply(<<expr>>, Value))

ListLoops ==
  \/ AppendExpr(Map(Closure, expr)) \/ AppendExpr(Map(expr, Variable))
  \/ AppendExpr(Keep(Closure, expr)) \/ AppendExpr(Keep(expr, Variable))
  \/ AppendExpr(FindFirst(Closure, expr)) \/ AppendExpr(FindFirst(expr, Variable))
  \/ AppendExpr(Combine(expr, Closure)) \/ AppendExpr(Combine(Variable, expr))

Actions ==
  \/ AppendStmt(stmts \o Action(<<expr>>)) \/ AppendStmt(stmts \o SystemCommand(<<expr>>))
  \/ AppendStmt(stmts \o Declare(1)) \/ AppendStmt(stmts \o Run(expr))
  \/ AppendStmt(stmts \o Wait(expr)) \/ AppendStmt(stmts \o SayFor(expr, Value))
  \/ AppendStmt(stmts \o Reply(expr)) \/ AppendStmt(stmts \o SendMessage(<<Value>>, expr))
  \/ \E wait \in BOOLEAN : AppendStmt(stmts \o SendTo(Value, <<expr>>, wait))
  \/ AppendStmt(stmts \o Fork(Closure, <<expr>>))

Leaves == AppendStmt(stmts \o Report(expr)) \/ AppendStmt(stmts \o ThrowValue(expr))

Blocks ==
  \/ AppendStmt(Warp(stmts))
  \/ AppendStmt(If(expr, stmts))
  \/ AppendStmt(IfElse(expr, stmts, Action(<<Value>>))) \/ AppendStmt(IfElse(Variable, Run(expr), stmts))
  \/ AppendStmt(TryCatch(stmts, Action(<<expr>>))) \/ AppendStmt(TryCatch(Run(expr), stmts))

Loops ==
  \/ AppendStmt(InfLoop(stmts))
  \/ AppendStmt(stmts \o WaitUntil(expr))
  \/ AppendStmt(UntilLoop(expr, stmts))
  \/ AppendStmt(Repeat(expr, stmts))
  \/ AppendStmt(ForLoop(expr, Value, stmts)) \/ AppendStmt(ForLoop(Value, expr, stmts))
  \/ AppendStmt(ForeachLoop(expr, stmts))

AppendUnit ==
  /\ AddBlock
  /\ Len(units) + 1 < MaxUnits
  /\ \E upvars \in 0 .. 1 : units' = Append(units, Unit(upvars, stmts))
  /\ stmts' = <<>>
  /\ UNCHANGED expr

Next ==
  \/ Operands \/ Conditionals \/ Calls \/ ListLoops \/ Actions \/ Leaves \/ Blocks \/ Loops
  \/ AppendUnit

Spec == Init /\ [][Next]_vars

-----------------------------------------------------------------------------
\* The program whose current unit is the one given; those to come are empty.
Program(unit) ==
  [i \in 1 .. MaxUnits |-> CASE i <= Len(units)     -> units[i]
                             [] i = Len(units) + 1  -> unit
                             [] i > Len(units) + 1  -> Unit(0, <<>>)]

\* Where the current unit starts, and where the units of a program do.
Here(program) == StartOf(program, Len(units) + 1)
Entries(program) == {StartOf(program, i) : i \in 1 .. MaxUnits}

\* What the instructions of a program find.
ShapeOf(program) ==
  LET code == Linked(program) IN Inferred(code, Entries(program), 1, Len(code))
Verifies(program) == Verified(Linked(program), ShapeOf(program), Entries(program))

Script == Program(Unit(0, stmts))

\* Whatever is nested in whatever, and whichever unit calls which, the bytecode of a
\* program verifies: all ways to an instruction leave it the same stacks, and no
\* instruction and no error takes what is not there.
CompiledCodeVerifies == Verifies(Script)

\* The statements leave nothing behind: where they end, if their end is reached,
\* no value, try block or warp block of theirs is left.
StatementsLeaveNothing ==
  LET shape == ShapeOf(Script)
      end == Here(Script) + Len(stmts)
  IN end \in DOMAIN shape => shape[end] = Entry

\* An expression leaves exactly its value, and what it does in between (calls and
\* loops over lists among it) verifies too.
ExpressionsLeaveOneValue ==
  LET program == Program(expr \o <<Return>>)
      shape == ShapeOf(program)
      end == Here(program) + Len(expr)
  IN /\ Verifies(program)
     /\ end \in DOMAIN shape /\ shape[end] = [Entry EXCEPT !.values = 1]

\* Whatever is nested in it, a construct leaves the stacks as those around it count
\* on: loops keep their counters and lists on the value stack and reach for them by
\* constant offsets, which a value too many or too few would shift.
NestedCodeLeavesItsResult == StatementsLeaveNothing /\ ExpressionsLeaveOneValue
=============================================================================
