---------------------------- MODULE Instructions ----------------------------
(* The bytecode instructions, by what they do to the control state of a       *)
(* process. An instruction is a record:                                       *)
(*   op             how the interpreter treats it;                            *)
(*   needs          how many values it expects on the value stack;            *)
(*   pops, pushes   how many values it consumes and, if it succeeds, leaves;  *)
(*   fails          whether it can end in an error;                           *)
(*   soft           whether an error of its request is pushed as a value;     *)
(*   waits          whether it always waits for an answer;                    *)
(*   to             its target, if it has one.                                *)
(* Values themselves are left out: which of the outcomes an instruction has   *)
(* is a choice of the model. An instruction has one address, whatever the     *)
(* number of bytes that encode it.                                            *)
EXTENDS Integers, Sequences

\* Instructions that go on with the next one and report "Normal" ("Op") or
\* the ProcessStep they are named after.
Reports == {"Watcher", "Pause", "Broadcast", "Fork", "CreatedClone"}
Plain == {"Op"} \cup Reports

\* Instructions that may leave the process waiting for an answer.
Deferring == {"Request", "BroadcastAndWait", "Sleep", "SendNetworkMessage"}

\* Instructions with a target.
Jumps == {"Jump", "ConditionalJump", "ListPopFirstOrElse", "Call", "PushHandler"}

Ops == Plain \cup Deferring \cup Jumps \cup
       {"Yield", "WarpStart", "WarpStop", "CallClosure", "Return", "PopHandler",
        "Throw", "SendNetworkReply"}

Fields == [op : Ops, needs : Nat, pops : Nat, pushes : Nat, fails : BOOLEAN,
           soft : BOOLEAN, waits : BOOLEAN, to : Int]

\* An instruction takes only what it needs; the fields of those that the
\* interpreter treats in a way of their own are fixed.
Built(ins) ==
  /\ ins.pops <= ins.needs
  /\ ins.op \in Deferring \cup {"Call", "CallClosure", "Throw", "SendNetworkReply"} => ins.fails
  /\ ins.op \in {"Call", "CallClosure", "ListPopFirstOrElse"} => ins.pushes = 1
  /\ ins.op \in {"ConditionalJump", "ListPopFirstOrElse", "Return", "Throw", "SendNetworkReply"}
       => ins.pops = 1
  /\ ins.op \in {"ConditionalJump", "SendNetworkReply"} => ins.pushes = 0
  /\ ins.op \in {"Yield", "Jump", "WarpStart", "WarpStop", "PushHandler", "PopHandler"}
       => ins.pops = 0 /\ ins.pushes = 0
  /\ ins.soft => ins.op = "Request" /\ ins.pushes = 1

Instruction == {ins \in Fields : Built(ins)}

Simple(op) == [op |-> op, needs |-> 0, pops |-> 0, pushes |-> 0, fails |-> FALSE,
               soft |-> FALSE, waits |-> FALSE, to |-> 0]

\* op, which consumes p values and leaves q.
Effect(op, p, q) == [Simple(op) EXCEPT !.needs = p, !.pops = p, !.pushes = q, !.fails = TRUE]

\* PushBool, PushInt, PushString, ...: a literal, which is always there.
PushLiteral == [Simple("Op") EXCEPT !.pushes = 1]

\* PushVariable, PushEntity, PushTimer, ...: a value that may be missing.
PushLookup == Effect("Op", 0, 1)

PopValue == [Simple("Op") EXCEPT !.needs = 1, !.pops = 1]
DupeValue(i) == [Simple("Op") EXCEPT !.needs = i + 1, !.pushes = 1]
SwapValues(i, j) == [Simple("Op") EXCEPT !.needs = IF i > j THEN i + 1 ELSE j + 1]

\* TypeQuery, ToBool, UnaryOp, ListRev, ...: n operands to a result.
Operator(n) == Effect("Op", n, 1)

\* VariadicOp: n values, or for Dynamic the one list that has them.
VariadicOp(n) == Operator(n)

\* ListInsert, ListAssign, ListRemove, ...: n operands, no result.
Change(n) == Effect("Op", n, 0)

\* Assign and BinaryOpAssign.
Assign == Change(1)

\* DeclareLocal, which cannot fail, and InitUpvar, which can.
DeclareLocal == Simple("Op")
InitUpvar == Effect("Op", 0, 0)

Jump(to) == [Simple("Jump") EXCEPT !.to = to]
ConditionalJump(to) == [Effect("ConditionalJump", 1, 0) EXCEPT !.to = to]
ListPopFirstOrElse(to) == [Effect("ListPopFirstOrElse", 1, 1) EXCEPT !.to = to]
PushHandler(to) == [Simple("PushHandler") EXCEPT !.to = to]

\* The result that a call pushes is pushed by the Return that ends it.
Call(to, params) == [Effect("Call", params, 1) EXCEPT !.to = to]
CallClosure(args) == Effect("CallClosure", args + 1, 1)
ForkClosure(args) == Effect("Fork", args + 1, 0)

\* MakeClosure looks its captures up.
MakeClosure == PushLookup

PopHandler == Simple("PopHandler")
Return == [Simple("Return") EXCEPT !.needs = 1, !.pops = 1]
Throw == Effect("Throw", 1, 0)

\* CallRpc and Syscall, whose errors are soft or hard as the settings say.
CallRpc(args, soft) == [Effect("Request", args, 1) EXCEPT !.soft = soft]

\* UnknownBlock and PushProperty.
UnknownBlock(args) == Effect("Request", args, 1)

\* Ask, whose answer goes to last_answer, and the commands (Print, SetProperty,
\* GotoXY, ...).
Command(args) == Effect("Request", args, 0)

SendLocalMessage(args, wait) ==
  Effect(IF wait THEN "BroadcastAndWait" ELSE "Broadcast", args, 0)
Sleep == Effect("Sleep", 1, 0)
SendNetworkMessage(args, expect_reply) ==
  [Effect("SendNetworkMessage", args, IF expect_reply THEN 1 ELSE 0)
     EXCEPT !.waits = expect_reply]
SendNetworkReply == Effect("SendNetworkReply", 1, 0)
CloneEntity == Effect("CreatedClone", 1, 1)
Watcher == Effect("Watcher", 0, 0)
=============================================================================
