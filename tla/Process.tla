------------------------------- MODULE Process -------------------------------
(***************************************************************************)
(* The interpreter of process.rs: one process, which executes one          *)
(* instruction in each call of step().  Kept is the control state: the     *)
(* position, the call stack, the number of values on the value stack, the  *)
(* error handlers, the depth of warp blocks and the operation the process  *)
(* is deferred on.  A frame and a handler remember the sizes the stacks    *)
(* had, and Return and errors cut the stacks back to them.                 *)
(*                                                                         *)
(* The answer to a deferred operation comes from outside at any time.  A   *)
(* step that finds it there resumes the process and executes the next      *)
(* instruction in the same call.                                           *)
(***************************************************************************)
EXTENDS Instructions, SequencesExt

CONSTANTS
  Code,         \* the bytecode: a sequence of instructions
  Starts,       \* the entry points of scripts
  Closures,     \* the entry points of closures
  MaxCallDepth, \* Settings::max_call_depth
  MaxFrames     \* bound: frames on the call stack, those of closures included

ASSUME CodeAssumption == Code \in Seq(Instruction)
ASSUME EntryAssumption == Starts \cup Closures \subseteq 1 .. Len(Code)
ASSUME DepthAssumption == MaxCallDepth \in Nat /\ MaxFrames \in Nat

VARIABLES
  start_pos, pos, running,
  barrier, reply_key,  \* whether the process holds one
  warp_counter,
  call_stack,
  value_stack,         \* the number of values
  handler_stack,
  defer,
  answer,              \* the state of the key that defer holds
  outcome              \* what the last call of step() returned

control == <<warp_counter, call_stack, handler_stack>>
held == <<running, barrier, reply_key>>
waiting == <<defer, answer>>
vars == <<start_pos, pos, held, control, value_stack, waiting, outcome>>

NoPos == 0  \* usize::MAX
CallStackEntry == [called_from : Int, return_to : Int, warp_counter : Nat,
                   value_stack_size : Nat, handler_stack_size : Nat]
Handler == [pos : Int, warp_counter : Nat, call_stack_size : Nat \ {0}, value_stack_size : Nat]
Defer == [kind : Deferring, aft_pos : Int, pushes : Nat, soft : BOOLEAN]
NoDefer == [kind |-> "None"]
Answers == {"none", "pending", "ok", "err", "consumed"}
Outcomes == {"None", "Normal", "Yield", "Terminate", "Err", "Panic", "PollPanic"} \cup Reports

\* The fields of a process have their types.
TypeOK ==
  /\ start_pos \in Starts
  /\ pos \in Int
  /\ running \in BOOLEAN /\ barrier \in BOOLEAN /\ reply_key \in BOOLEAN
  /\ warp_counter \in Nat /\ value_stack \in Nat
  /\ call_stack \in Seq(CallStackEntry) /\ call_stack # <<>>
  /\ handler_stack \in Seq(Handler)
  /\ defer \in Defer \cup {NoDefer} /\ answer \in Answers
  /\ outcome \in Outcomes

RootFrame == [called_from |-> NoPos, return_to |-> NoPos, warp_counter |-> 0,
              value_stack_size |-> 0, handler_stack_size |-> 0]

\* Process::new. The position is 0 in the code, the address of the first instruction.
Init ==
  /\ start_pos \in Starts
  /\ pos = 1
  /\ running = FALSE /\ barrier = FALSE /\ reply_key = FALSE
  /\ warp_counter = 0
  /\ call_stack = <<RootFrame>>
  /\ value_stack = 0
  /\ handler_stack = <<>>
  /\ defer = NoDefer /\ answer = "none"
  /\ outcome = "None"

Panicked == outcome \in {"Panic", "PollPanic"}

\* The context may bring a barrier (a broadcast) or a reply key (a network message).
Initialize(context_barrier, context_reply_key) ==
  /\ ~Panicked
  /\ pos' = start_pos
  /\ running' = TRUE /\ barrier' = context_barrier /\ reply_key' = context_reply_key
  /\ warp_counter' = 0
  /\ call_stack' = SubSeq(call_stack, 1, 1)
  /\ value_stack' = 0
  /\ handler_stack' = <<>>
  /\ defer' = NoDefer /\ answer' = "none"
  /\ outcome' = "None"
  /\ UNCHANGED start_pos

-----------------------------------------------------------------------------
\* The answer to the deferred operation, from outside the process: a request, a
\* command or a message may fail; time passes and barriers are dropped.
Complete ==
  /\ answer = "pending"
  /\ answer' \in IF defer.kind \in {"Request", "SendNetworkMessage"} THEN {"ok", "err"} ELSE {"ok"}
  /\ UNCHANGED <<start_pos, pos, held, control, value_stack, defer, outcome>>

\* Nothing in step() looks at running: a host may call it on any process.
Stepped == ~Panicked

\* The process may execute an instruction: it is not deferred, or no longer.
Resumes == answer = "ok" \/ (answer = "err" /\ defer.soft)
Ready == Stepped /\ (defer = NoDefer \/ Resumes)

\* Mutant of Height: forgets to push the answer.
HeightWithoutAnswer == value_stack

\* The instruction and the value stack that a ready process goes on with.
At == IF defer = NoDefer THEN pos ELSE defer.aft_pos
Height == IF defer = NoDefer THEN value_stack ELSE value_stack + defer.pushes
Current == Code[At]
Top == Last(call_stack)

\* What panics: code that is not there, values, handlers or frames that are not
\* there, and (in a debug build) a warp counter below zero.
Missing ==
  \/ Height < Current.needs
  \/ Current.op = "WarpStop" /\ warp_counter = 0
  \/ Current.op = "PopHandler" /\ handler_stack = <<>>
  \/ /\ Current.op = "Return"
     /\ \/ Height - 1 < Top.value_stack_size
        \/ Len(handler_stack) < Top.handler_stack_size

Panic(result) ==
  /\ outcome' = result
  /\ UNCHANGED <<start_pos, pos, held, control, value_stack, waiting>>

Executable == At \in DOMAIN Code /\ ~Missing

StepPanics == Ready /\ ~Executable /\ Panic("Panic")

Executes(ops) ==
  /\ Ready /\ Executable /\ Current.op \in ops
  /\ UNCHANGED start_pos

\* The process is no longer deferred.
Continues == defer' = NoDefer /\ answer' = "none"

Returns(result) == outcome' = result /\ UNCHANGED held

\* Go on at position to with the given number of values.
GoTo(to, height) == pos' = to /\ value_stack' = height

\* Mutant of Ends: forgets the barrier.
EndsHoldingTheBarrier(result) ==
  running' = FALSE /\ reply_key' = FALSE /\ outcome' = result /\ UNCHANGED barrier

\* The process ends, and drops what it holds.
Ends(result) == running' = FALSE /\ barrier' = FALSE /\ reply_key' = FALSE /\ outcome' = result

\* Mutant of Catch: drains the frame of the handler too.
CatchWithoutFrame(h) ==
  /\ warp_counter' = h.warp_counter
  /\ call_stack' = SubSeq(call_stack, 1, h.call_stack_size - 1)
  /\ GoTo(h.pos, h.value_stack_size)
  /\ outcome' = "Normal"
  /\ UNCHANGED <<running, barrier, handler_stack>>

\* Mutant of Catch: forgets the warp counter.
CatchInWarp(h) ==
  /\ call_stack' = SubSeq(call_stack, 1, h.call_stack_size)
  /\ GoTo(h.pos, h.value_stack_size)
  /\ outcome' = "Normal"
  /\ UNCHANGED <<running, barrier, warp_counter, handler_stack>>

\* A handler gets the process; it stays on the handler stack.
Catch(h) ==
  /\ warp_counter' = h.warp_counter
  /\ call_stack' = SubSeq(call_stack, 1, h.call_stack_size)
  /\ GoTo(h.pos, h.value_stack_size)
  /\ outcome' = "Normal"
  /\ UNCHANGED <<running, barrier, handler_stack>>

\* The end of step() for an error at position at: the innermost handler catches it;
\* without one the process ends.
Fail(at, height, key) ==
  IF handler_stack = <<>>
  THEN Ends("Err") /\ GoTo(at, height) /\ UNCHANGED control
  ELSE LET h == Last(handler_stack)
       IN IF h.call_stack_size > Len(call_stack) \/ h.value_stack_size > height
          THEN /\ outcome' = "Panic" /\ reply_key' = key
               /\ GoTo(at, height)
               /\ UNCHANGED <<running, barrier, control>>
          ELSE Catch(h) /\ reply_key' = key

\* An instruction fails after it took some of its operands.
Fails ==
  /\ Current.fails
  /\ \E k \in 0 .. Current.pops : Fail(At, Height - k, reply_key)
  /\ Continues

-----------------------------------------------------------------------------
\* step() of a process whose answer is not there yet.
PollPending ==
  /\ Stepped /\ answer = "pending"
  /\ Returns("Yield")
  /\ UNCHANGED <<start_pos, pos, control, value_stack, waiting>>

\* The answer is an error that is not turned into a value. The process keeps its
\* defer, with a key that is consumed.
PollFails ==
  /\ Stepped /\ answer = "err" /\ ~defer.soft
  /\ Fail(pos, value_stack, reply_key)
  /\ answer' = "consumed"
  /\ UNCHANGED <<start_pos, defer>>

PollConsumed == Stepped /\ answer = "consumed" /\ Panic("PollPanic")

ExecutePlain ==
  /\ Executes(Plain)
  /\ \/ Fails
     \/ /\ GoTo(At + 1, Height - Current.pops + Current.pushes)
        /\ Returns(IF Current.op = "Op" THEN "Normal" ELSE Current.op)
        /\ Continues /\ UNCHANGED control

Yield ==
  /\ Executes({"Yield"})
  /\ GoTo(At + 1, Height)
  /\ Returns(IF warp_counter = 0 THEN "Yield" ELSE "Normal")
  /\ Continues /\ UNCHANGED control

Warp ==
  /\ Executes({"WarpStart", "WarpStop"})
  /\ GoTo(At + 1, Height)
  /\ warp_counter' = IF Current.op = "WarpStart" THEN warp_counter + 1 ELSE warp_counter - 1
  /\ Returns("Normal") /\ Continues /\ UNCHANGED <<call_stack, handler_stack>>

JumpTo ==
  /\ Executes({"Jump"})
  /\ GoTo(Current.to, Height)
  /\ Returns("Normal") /\ Continues /\ UNCHANGED control

JumpIf ==
  /\ Executes({"ConditionalJump"})
  /\ \/ Fails
     \/ /\ \E to \in {Current.to, At + 1} : GoTo(to, Height - 1)
        /\ Returns("Normal") /\ Continues /\ UNCHANGED control

PopFirst ==
  /\ Executes({"ListPopFirstOrElse"})
  /\ \/ Fails
     \/ /\ GoTo(At + 1, Height) \/ GoTo(Current.to, Height - 1)
        /\ Returns("Normal") /\ Continues /\ UNCHANGED control

\* A frame for the callee, without the values that become its locals.
Enter(to) ==
  /\ call_stack' = Append(call_stack,
       [called_from |-> At, return_to |-> At + 1, warp_counter |-> warp_counter,
        value_stack_size |-> Height - Current.pops,
        handler_stack_size |-> Len(handler_stack)])
  /\ GoTo(to, Height - Current.pops)
  /\ Returns("Normal") /\ Continues /\ UNCHANGED <<warp_counter, handler_stack>>

CallFunction ==
  /\ Executes({"Call"})
  /\ IF Len(call_stack) >= MaxCallDepth
     THEN Fail(At, Height, reply_key) /\ Continues
     ELSE Enter(Current.to)

CallTheClosure ==
  /\ Executes({"CallClosure"})
  /\ \/ Fails
     \/ Len(call_stack) < MaxFrames /\ \E to \in Closures : Enter(to)

ReturnFrom ==
  /\ Executes({"Return"})
  /\ warp_counter' = Top.warp_counter
  /\ handler_stack' = SubSeq(handler_stack, 1, Top.handler_stack_size)
  /\ IF Len(call_stack) > 1
     THEN /\ call_stack' = Front(call_stack)
          /\ GoTo(Top.return_to, Top.value_stack_size + 1)
          /\ Returns("Normal")
     ELSE /\ GoTo(Top.return_to, Top.value_stack_size)
          /\ Ends("Terminate") /\ UNCHANGED call_stack
  /\ Continues

PushTheHandler ==
  /\ Executes({"PushHandler"})
  /\ handler_stack' = Append(handler_stack,
       [pos |-> Current.to, warp_counter |-> warp_counter,
        call_stack_size |-> Len(call_stack), value_stack_size |-> Height])
  /\ GoTo(At + 1, Height)
  /\ Returns("Normal") /\ Continues /\ UNCHANGED <<warp_counter, call_stack>>

PopTheHandler ==
  /\ Executes({"PopHandler"})
  /\ handler_stack' = Front(handler_stack)
  /\ GoTo(At + 1, Height)
  /\ Returns("Normal") /\ Continues /\ UNCHANGED <<warp_counter, call_stack>>

ThrowError ==
  /\ Executes({"Throw"})
  /\ Fail(At, Height - 1, reply_key)
  /\ Continues

-----------------------------------------------------------------------------
\* The process waits at the instruction until the answer is there.
Wait(result) ==
  /\ defer' = [kind |-> Current.op, aft_pos |-> At + 1,
               pushes |-> Current.pushes, soft |-> Current.soft]
  /\ answer' = "pending"
  /\ GoTo(At, Height - Current.pops)
  /\ Returns(result) /\ UNCHANGED control

\* The instruction is done in this step.
Done(result) ==
  /\ GoTo(At + 1, Height - Current.pops + Current.pushes)
  /\ Returns(result) /\ Continues /\ UNCHANGED control

\* perform_request and perform_command: the system answers at once or later. A
\* soft error is pushed in place of the result. A command with nothing to do
\* (the costume is set already) is one that succeeds.
PerformRequest ==
  /\ Executes({"Request"})
  /\ Fails \/ Done("Normal") \/ Wait("Normal")

\* A message to the process's own project. The one that does not wait is Plain.
BroadcastAndWait ==
  /\ Executes({"BroadcastAndWait"})
  /\ Fails \/ Wait("Broadcast")

\* A time that is not positive is no wait, but a yield.
SleepFor ==
  /\ Executes({"Sleep"})
  /\ Fails \/ Done("Yield") \/ Wait("Normal")

\* A message to other clients. The system gives a key exactly if a reply is expected.
SendMessage ==
  /\ Executes({"SendNetworkMessage"})
  /\ Fails \/ IF Current.waits THEN Wait("Normal") ELSE Done("Normal")

\* The first reply takes the key; the system may refuse it after that.
SendReply ==
  /\ Executes({"SendNetworkReply"})
  /\ \/ Fails
     \/ Fail(At, Height - 1, FALSE) /\ reply_key /\ Continues
     \/ /\ GoTo(At + 1, Height - 1)
        /\ reply_key' = FALSE /\ outcome' = "Normal"
        /\ Continues /\ UNCHANGED <<running, barrier, control>>

Step ==
  \/ StepPanics \/ PollPending \/ PollFails \/ PollConsumed
  \/ ExecutePlain \/ Yield \/ Warp \/ JumpTo \/ JumpIf \/ PopFirst
  \/ CallFunction \/ CallTheClosure \/ ReturnFrom
  \/ PushTheHandler \/ PopTheHandler \/ ThrowError
  \/ PerformRequest \/ BroadcastAndWait \/ SleepFor \/ SendMessage \/ SendReply

Next ==
  \/ \E b, r \in BOOLEAN : Initialize(b, r)
  \/ Complete
  \/ Step

Spec == Init /\ [][Next]_vars

-----------------------------------------------------------------------------
\* A process holds its barrier, which a broadcast may wait for, and the key of the
\* message it is to reply to only as long as it runs, however it ends.
HoldsOnlyWhileRunning == barrier \/ reply_key => running

\* What the documentation says. An error of a request ends a process at most, not
\* the whole VM (Settings, ErrorScheme::Hard).
HardErrorsSpareTheVM == running => outcome # "PollPanic"
=============================================================================
