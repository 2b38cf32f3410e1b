# NetsBlox VM in TLA+

A verification development for the `netsblox-vm` crate: TLA+ modules translated
from its source, TLC configurations that check them on small instances, and
proofs that TLAPS checks for every value of the constants.

Paths below are relative to the repository (`src/slotmap.rs` is the file
`src/slotmap.rs` of the crate).

## 1. The system

A project is a set of *entities* (the stage and its sprites), each with
*scripts*. A script starts at a hat block, which names the *event* that starts
it. The crate compiles a project's blocks to bytecode and runs it: a **project**
owns **processes**, one for each script that is running, and gives them turns in
round-robin order. Everything inside a project is single-threaded; concurrency
is between processes (interleaved at instruction granularity), and between the
project and the threads of its host (network, HTTP server, terminal).

| component | file | state | operations |
|---|---|---|---|
| Slot map | `src/slotmap.rs` | slots with a generation each, free list, count | insert, remove, clear, get, get_mut, iterators |
| Project scheduler | `src/project.rs` | processes (slot map), process queue, scripts with their process and waiting contexts | from_init, add_script, input (start, stop, key, custom event), step |
| Idle action | `src/project.rs` | a counter | consume, trigger |
| Process interpreter | `src/process.rs` | position, frames, values, handlers, warp counter, the operation it is deferred on | new, initialize, step |
| Barriers | `src/runtime.rs` | the handles that exist | clone, drop, is_completed |
| Asynchronous results | `src/runtime.rs`, `src/std_system.rs` | pending, completed, consumed | complete, poll |
| Messages and replies | `src/std_system.rs` | reply table with time stamps, two channels | send, receive, reply, poll a reply, time out |
| Server and terminal loops | `src/cli.rs` | command channel, pause flag, questions asked at the terminal | HTTP handlers, the program's loop |
| Bytecode | `src/bytecode.rs` | code, data, addresses to relocate | compile, link (shrink), encode, decode |
| Values, symbol tables | `src/runtime.rs` | data | conversions, lookups |

### How they interact

* The host calls `Project::input` and `Project::step`; nothing happens between
  calls. A call of `step` receives at most one network message from the system,
  takes keys off the process queue until one is live, lets that process execute
  one instruction, and handles the `ProcessStep` it returns: the process goes to
  the front (it goes on), to the back (it yielded), or is removed (it ended);
  forks are pushed to the back, clones get scripts, broadcasts restart scripts.
* The queue, the scripts and the barriers hold process keys or handles by value.
  Nobody is told when a process is removed: holders find out when the slot map
  returns nothing for the key. That is sound only because a key never comes back
  to life, which is what the slot map's generations are for.
* A script has at most one process. What should start it while it is busy either
  restarts it (start, clone, broadcast), or is put into its `context_queue`
  (network messages, custom events), or is ignored (keys). Contexts that wait are
  consumed when a process ends or yields, and *before* anything new is scheduled;
  `AllContextsConsumer` does that at most once in a call.
* A broadcast that waits hands each receiver a clone of a barrier. The sender is
  blocked until all of them are dropped.
* Requests, commands and replies are polled by the process that waits for them;
  threads of the host complete them at any time.
* A message that wants a reply gets an entry in a table that the project's thread and
  the thread that reads the web socket share. The poll of the process that waits
  removes the entry; if that process is stopped, nobody does.
* The server has two threads: one answers the editor over HTTP, one runs the
  project. They share a channel of commands, the pause flag, the output and error
  buffers and the text of the current project. In a terminal a single loop reads keys,
  passes inputs on, steps the project and redraws the prompt.

### What is hard

Listed with their lines in `PROJECT.json` under `hazards`. In short: stale keys
(slot reuse, removed processes still queued); the order of waiting and new
contexts across many call sites; a message delivered in the very call in which
the receiving script ends; the backlog limit; wait cycles of broadcasts; the
round robin under front and back pushes; fairness; failures of deferred
operations inside error handlers; the sizes that returns and handlers cut the
stacks back to; replies against their timeout; the server's threads; address
relocation.

### What makes each component correct

* Slot map: it implements a keyed store; a dead key stays dead; the free list and
  the count are exact.
* Scheduler: every live process has exactly one place in the queue; the round
  robin is kept and everybody gets a turn; a script owns its process; waiting
  contexts go first; messages are handled once each and in order; backlogs are
  bounded; waits are never circular; a sender resumes when its receivers are done.
* Process: stacks are cut back to what they were; an operation is polled until
  it completes and never after; what a process holds (a barrier, a reply key) is
  dropped when it ends.
* Replies: every request ends once, with the reply that was read first, with an error if it cannot be
  converted, or with none; the table does not grow with requests that were answered; receivers reply once.
* Server: a project that pauses itself stays paused until somebody resumes it; what was
  reported is handed out once, in order; the last project that loads is the one that
  runs; commands are taken while it is paused; an idle thread sleeps.
* Terminal: an answer is what was typed for its question; whoever waits can be
  answered; the prompt that is shown is the current one.
* Bytecode: decoding inverts encoding; linking ends, and every address and every
  location is right; compiled code keeps the interpreter's stacks in balance.

## 2. Modules

| module | what it is |
|---|---|
| `KeyedStore` | abstract: values under keys, a key is issued once |
| `SlotMap` | `src/slotmap.rs`; implements `KeyedStore` |
| `IndexOrder` | a set of indices as the increasing sequence a loop visits them in |
| `Project` | `src/project.rs` with what it needs of processes and barriers; implements `Inboxes` |
| `Inboxes` | abstract: what the scripts of network messages are promised |
| `Instructions` | the bytecode instructions, by what they do to the control state of a process |
| `Process` | `src/process.rs`: the interpreter |
| `Verifier` | analysis: what code has to be like for the interpreter to be safe |
| `CodeShape` | `Process` on code that verifies, and the invariants of its stacks |
| `Compiler` | `src/bytecode.rs`: the code of every expression and statement |
| `Programs` | programs of growing size and the code the compiler makes of them |
| `Replies` | `src/std_system.rs`: messages that wait for a reply; implements `Promises` |
| `Promises` | abstract: what scripts may rely on when they wait for a reply |
| `Server` | `src/cli.rs`, `run_server`: the HTTP thread and the program thread; the idle action of `src/project.rs` |
| `Terminal` | `src/cli.rs`, `run_proj_tty`: the loop that runs a project in a terminal |
| `Varint` | `src/bytecode.rs`: variable-width integers |
| `Locations` | `src/bytecode.rs`: the table from positions in the code to blocks |
| `Link` | `src/bytecode.rs`, `finalize`: from instructions to bytes, with relocation and shrinking |
| `SlotMapProofs`, `ProjectProofs`, `ProcessProofs`, `ProgramsProofs`, `RepliesProofs`, `ServerProofs`, `TerminalProofs`, `LinkProofs` | theorems |
| `MCSlotMap`, `MCProject*`, `MCProcess`, `MCPrograms`, `MCReplies`, `MCServer`, `MCTerminal`, `MCLink` | instances for TLC |

### SlotMap

`slots`, `empty_slots` and `num_values` are the fields of the struct; `ret` is the
result of the last call. An action is a call: `Insert` (`InsertReuse` pops the free
list, `InsertGrow` appends a slot), `Remove` (which increments the generation),
`Clear` (every occupied slot, in index order), `Get`, `GetMut`. `MaxSlots` and
`MaxGeneration` bound the growth, in the guards of `InsertGrow` and of the actions
that vacate a slot. The slot map refines `KeyedStore` under the mapping that reads
`live` as the values found under keys and `issued` as the keys whose generation
was reached.

### Project

`proj` has the fields of `State`: the processes (a function on the live keys), the
process queue, and the scripts in order. `roots` records the entities: an entity is
a number, and `roots` gives the original a clone descends from. One action is one
call of `input`, `step` or `add_script`, all loops included. The loops over scripts
are written as set operations on the scripts they apply to; the only thing an
iteration writes that another reads is the queue, which grows in script order
(`InOrder`).

Of a process only `running`, the barrier it holds, whether it waits on its own
barrier, what it was started with and its entity are kept. Which `ProcessStep` it
takes next is left open, except that a process whose barrier is still held can only
yield (`Blocked`). The outcomes are the actions `StepWait`, `StepYield`,
`StepNormal` (also watchers and pauses), `StepFork`, `StepClone`, `StepBroadcast`,
`StepEnd` (termination and errors), and `StepIdle` when no process is left. Each
starts from `Received`, the state after an optional message, and `Turn`, which
takes the stale keys and the process off the queue. `DoOnce(s, did_it, ..)` is
`AllContextsConsumer`: `did_it` is TRUE after a delivery.

A key is an opaque number. `insert()` returns a key that was never issued
before, as shown of `SlotMap`; here, to keep the state space finite, it returns a
key that nothing in the project holds any more. Which one does not matter, so it
is the smallest (`KeySupply`).

Left out: the bytecode position of a script, the symbol tables, errors' contents,
`KeyUp` (not implemented by the code), and `ProcessStep::Idle`, which `step`
declares unreachable. `add_script` without an event creates a process that is
never initialized; the model has it as a live process that is not running.

### Inboxes

For each script of a network message: the data of the messages it has yet to
handle, and of the one it is handling. In one call it may hear of what arrived,
finish what it is handling and take up the oldest message left. `Project`
implements it: `pending` is the script's context queue, `handling` the data of its
process while that lives.

### Instructions, Process

An instruction is a record of what it does to the control state: how many values it
needs, takes and leaves, whether it can fail, whether it may leave the process waiting,
its target. `Instructions` has a constructor for each kind, from the arms of `step_impl`.
The values themselves, variables and entities are left out: where the code looks at one
(a condition, a type, an index, a failing conversion) the model has a choice.

`Process` has the fields of the struct that remain: `start_pos`, `pos`, `running`, `barrier`
and `reply_key` (whether it holds one), `warp_counter`, `call_stack`, `handler_stack`, the
*number* of values on the value stack, and `defer`. A frame and a handler have the sizes
they remember. `answer` is the state of the `AsyncResult` behind the key in `defer` (a barrier
and a sleep are answers too), and `outcome` is what the last `step()` returned, a panic
included. Positions are those of instructions, not of bytes.

An action is one call: `Initialize`, or one outcome of `step()`: a poll that finds nothing
(`PollPending`), a hard error (`PollFails`) or a consumed key (`PollConsumed`), a panic over
the stacks (`StepPanics`), or an instruction. If the answer is there, `step()` takes it and
executes the next instruction in the same call, so every instruction is stated at `At` and
`Height`, the position and the height with the answer taken. `Fail` is the end of `step()`
for an error: the innermost handler gets the process and *stays* on the handler stack (the
handler's code begins with `PopHandler`); without one the process ends. `Fails` lets an
instruction fail after it took any part of its operands. `Complete` is the other side: the
system completes what was asked for at any time.

`max_call_depth` is tested where the code tests it: by calls of functions. `MaxFrames`
bounds what closures push, in the guard of `CallTheClosure`. The state after `Initialize` is one
that a project, a fork, or any other host can reach: it may happen at any time, also
while the process waits.

### Verifier, Compiler, Programs

Nothing checks bytecode at run time. What the interpreter relies on, that code is
nested so that each instruction finds the same stacks on every way to it, is a
property of the compiler. `Verifier` states it: a *shape* gives for each reachable
position the values, warp blocks and try blocks the instruction finds, relative to its
frame; `Verified` says that every instruction has what it needs and leaves what its
successors expect, and that an error never leaves fewer values than the try block around
it was entered with. `Process` is proved safe for any code with such a shape, and
that the compiler emits such code is checked, and proved, of `Programs`.

`Compiler` has one operator per block, from the code of its parts to its code, instruction by
instruction as `append_expr` and `append_stmt` push them. Blocks that compile to their operands
and one instruction share an operator (`Operation`, `Action`, `SystemCommand`). Targets are
relative to the instruction; `Linked` makes them positions, and calls of units the starts of these.
`Programs` starts from a value and an empty script. Each step nests what it has in one more
block, or makes the statements a unit (`append_stmts_ret`: a function, a script or a closure) and
begins another. `Program(unit)` is the program with `unit` as its current one, the units to come being
empty; any unit may call any other, itself and those to come included, so calls are recursive and
mutual and go both ways in the code.

### Replies, Promises

`message_replies` is the reply table; an entry has its age in ticks instead of a time
stamp, and an age of `Timeout` stands for every later one. `send_message` is two
actions, since the reader thread may run between the release of the table's lock
(`InsertEntry`) and the sending (`SendRequest`). `PollReply` is `poll_reply` with what the process
makes of its result: it goes on with the reply (`Answered`) or without one (`TimedOut`), or the reply is one
that `Value::from_json` does not convert, a null (`Failed`). The error of the last ends the process, or a
handler catches it and `defer` stays, for an entry that is gone; the next poll of it unwraps a
missing entry (`PollPanics`). It panics under the lock of the table, so neither thread gets at the table afterwards.
Which replies are nulls and whether there is a handler is left open. `ReceiveReply` is the reader thread, `ReceiveRequest` and `SendReply` the
receiving project, in which every script that hears the message has a clone of the
reply key. `Stop` is a process that is stopped or restarted while it waits. `network` is a set:
messages are reordered, delayed and lost (nothing is assumed to be received), but not
repeated. Identifiers are UUIDs in the code; here an identifier is given out once.

`Promises` has the view of the scripts: a request ends once, with a reply that a
receiver gave to this very request, with an error or with none, and a receiver replies at most once.

### Server

One action is one access to the state that the threads share. The program thread's arms
access it in a fixed order, so the accesses an arm has yet to make are a sequence,
`todo`, and `Access` does the first of them. Everything else of an arm only touches what
the thread owns and is one action: `TakeInput`, `TakeProject`, `NoMoreCommands`,
`CheckRunning`, `Step`, `Wake`. What a step prints or reports is an access too (`Reports`). `EndHttp` is the end of the HTTP thread, which drops the shared
state and hangs up the channel; from then on the weak reference of the program thread
yields nothing. `Panic` is the `unwrap` of that reference. A pull takes the two buffers
one after the other (`PullOutput`, `PullErrors`). The pause flag is a relaxed atomic; as it is
the only variable of its kind and the channel and the buffers are under locks, it is treated as
sequentially consistent. Of a project it matters whether its file can be parsed, compiled
and, if not, whether the error has a place; and whether it is busy. The handlers that only
read are left out.

### Terminal

`pc` is where an iteration is: reading events, passing the inputs to the project,
stepping, drawing. A character is the question that was the oldest when it was typed, so an
answer shows for which questions it was typed. `answers` has the `AsyncResult` behind
each question's key. `screen` is the prompt that was drawn last; `scrolled` remembers that
something was printed over it since.

### Varint, Locations, Link

`EncodeIn` and `DecodeU64` are the loops of `encode_u64` and `decode_u64` byte by byte, with the
width of a byte's group, of a word and of a signed number as constants, and words that wrap.
A program is a sequence of words: the opcode of an instruction, then its operands, up to the next
opcode (`WellFormed`). `Link` has one action per phase of `finalize`: `AppendWord` (the loop over
instructions, a word at a time), `Resolve` (addresses of instructions become positions), `Shrink`
(`apply_shrinking_plan`: the code moves, then the addresses are rewritten), `Measure` (the plan of
a further round) and `CondenseLocations`. Bytes are moved as the code moves them, with
`copy_within`. The loop of `lookup` ends at a zero; it is a function of as many passes as the table
has bytes, which `TokensAreRead` shows to be enough. Assertions and lookups that may fail lead to `pc = "panic"`. The string pool is
another crate (`bin-pool`): where each string ends up is the constant `DataPos`. Code stays shorter
than the greatest number of a word: that bound is in the guard of `AppendWord`. An operand
is an address of code, a string, an unsigned or a signed number; the other operands of the
code (registers, flags, types) are literal bytes that nothing moves or changes.

## 3. Runs

| run | question | bounds | states |
|---|---|---|---|
| `slotmap` | free list and count, dead keys, refinement of `KeyedStore` | 3 slots, generations up to 2, 2 values | 3071 |
| `events` | own processes, what waits and how long, nothing left waiting when newer work begins, messages in order, start spares others | five scripts: two of one message, a start hat, a key hat, a custom event with limits 0 and 1; messages with two data, two contexts waiting; a process that belongs to no script | 97903 |
| `entities` | one place in the queue, round robin, wait cycles, scripts of clones | up to five scripts on a sprite, clones and clones of clones; receivers that may send; a forked process | 177305 |
| `turns` | everybody gets a turn, released senders resume | two scripts, a sender and a receiver, fairness | 901 |
| `process` | stacks in every frame, panics, what an ended process holds | four compiled units: a recursive function with a catch that throws again, two scripts, a closure that calls closures; 4 frames | 2382 |
| `programs` | nesting of every construct in every other one, calls between units | 3 blocks, 2 units | 124803 |
| `replies` | replies against time-out, stops and each other; refinement of `Promises`; every wait ends | two processes, two requests, two scripts that reply, time-out after 2 ticks | 18303 |
| `server` | reports, the project that runs, pause, commands, sleep, end | five project files, 2 commands, 2 steps a batch, 3 idle steps to a sleep | 761650 |
| `terminal` | answers and questions, the prompt, waiting processes | two processes, two questions, two characters, one input an iteration | 32000 |
| `link` | code, addresses and locations after every round of shrinking | all programs of 4 instructions over 9 kinds and of 3 with locations; 1 bit a byte, words of 7 bits, 2 rounds | 158758 |
| `stuck` | the `debug_assert!` of `step` | one script | violated |
| `hard_errors` | an error of a request never panics the VM | as `process`, 3 frames | violated |

The bounds of `Project`, each in a guard: `MaxScripts` (scripts, those of clones
included), `MaxLength` (nothing new is begun while the process queue is longer:
`MayBegin`), `MaxPending` (contexts a script holds when a message is delivered:
`MayReceive`), `MaxOthers` (processes that belong to no script when one is forked:
`MayFork`), `MaxTargets` (entities a broadcast lists, unless it goes to all: `TargetSets`; 1 where
scripts hear broadcasts). With them stale keys, restarts of running scripts, self-broadcasts,
messages at busy scripts, forks with contexts waiting and clones of clones all occur; every action and every
outcome of a step fires in some run. `KeysSuffice` guards `Next` so that a call finds
enough keys; the sets of keys were chosen so large that it is true in every
reachable state of every run, so it cuts nothing off.

`entities` begins with one script on the sprite and the host may add a second one. Five scripts allow, in
this order, a clone (with one script), the second script of the sprite, and a clone of the clone, which
copies both; the script of the first clone lies between them. A copy that took the scripts of
the sprite's other clones along would show. No script of this run hears network
messages, and `Data` is empty, so that no message is handed out twice to nobody.

In `events` the two data of messages may be exchanged (`SYMMETRY`): they are only stored and
compared. As it is combined with the view, the number of states varies a little from run to run.

`process` runs code put together by `Compiler`, in which calls, warp blocks, loops and try
blocks are nested in each other across frames, so that errors unwind through returns,
handlers and warp blocks of several frames; four frames let a closure called in a handler's
reach call another one. Every action fires; the panics of `Fail` never do. `programs` needs three blocks
to put a block between two others, with each operand of a block being nested in turn, and two units for
calls of an earlier unit, of a later one and of the unit itself.

`replies` lets one process ask twice or two processes ask once each, and two scripts
reply to each request, so that a late reply meets an entry that was filled, removed, or is
another request's. `server` has batches that are shorter than the idle count, as the code has
(64 and 256), so that the count survives a batch. `MaxReports` bounds the errors of a project, in the
guard of the step that reports one. In `link` a byte holds one bit of a number, so four
instructions give addresses of one to seven bytes, which take several rounds to settle; with two
rounds some programs run out of them, as larger ones can with the three of the code. The numbers are
the least and greatest of their types.

The safety runs of `Project` use the `VIEW` of `MCProject`, which renames keys in the order the
state mentions them. Keys are only stored and compared, so states that differ by a
renaming have the same futures up to renaming, and no property names a particular
key. The run of liveness properties uses no view.

`CHECK_DEADLOCK FALSE` is used where a system may stop: a server or a terminal that was
quit, a program that is linked, a process that has ended for good, and where a bound is used up.

### Fairness

* `Project`: weak fairness of `GiveUpTurn`, that is: the host goes on calling `step` (both loops
  of `src/cli.rs` do), and a process does not keep the turn for ever. Compiled loops yield in
  every iteration (`src/bytecode.rs`, `InfLoop`, `UntilLoop`, `Repeat` and the others end in
  `Yield`); a warp block that loops for ever does starve everybody, which the code accepts.
  Nothing is assumed about messages, user input, forks or the end of any process.
* `Replies`: weak fairness of each process' `PollReply`, `PollPanics` and `SendRequest` (it gets its turns) and of
  `Tick` (time passes). Nothing is assumed of receivers, the reader thread and the network.
* `Server`: weak fairness of the program thread. Nothing is assumed of the editor.
* `Terminal`: weak fairness of the loop's phases, where `NoMoreEvents` says that the user does not
  type for ever without a pause; strong fairness of each `Poll`, the turns of `Project`.

### The findings

`stuck`: a message may be delivered in the call in which the receiving script's
process ends. Its context was queued, because the process was still running, and
`did_it` was set before, so the consumption that follows the end of a process is
skipped. If that process was the last one, the next `step` finds an empty queue
and a context that waits: the `debug_assert!` of `src/project.rs:296` fails, and in a
release build the message stays unhandled until something else starts a process.
Run `events` shows what still holds: no message is lost or reordered.

`hard_errors`: a request that is waited for ends in a hard error, and a try block catches it.
`step_impl` left before it reset `defer`, so the handler's first step polls a key that is
consumed and hits `panic!()`. The documentation of `ErrorScheme::Hard` (`src/runtime.rs:1099`)
promises that such an error ends the process at most. This is why `Balanced` leaves out the
state between the caught error and the panic: the process goes on at the handler, but
`defer` belongs to the request. The run has a request, whose key is consumed. A reply that cannot be
converted goes the same way (`src/process.rs:395`): `Replies` has its part, where the entry is removed and the unwrap in
`poll_reply` (`src/std_system.rs:421`) panics. `WaitersAreKnown` says that this is the only way to that panic, and
`EveryWaitEnds` makes an exception for it.

### Other behaviour to know of

These were met while modelling and are in the models as the code has them. No run is
devoted to them.

* `max_call_depth` (`src/runtime.rs:1107`) is tested by `Call` only; `CallClosure`
  (`src/process.rs:972`) pushes a frame without the test. `Process` tests it where the code does
  and bounds what closures push by `MaxFrames`.
* `ProcessStep::Idle` is documented (`src/process.rs:111`) but never returned: `step()` on a
  process that was never started or has ended executes what is at its position. `Project` removes
  processes that end, but `add_script` without an event queues one that was never started (`AddProcess`); nothing in
  the crate calls it so. `StackSafe` and `Balanced` are about running processes.
* If the HTTP thread ends while a project file is still queued, the program thread panics at
  `weak_state.upgrade().unwrap()` (`src/cli.rs:478` and `:490`) instead of ending. `Panic` in `Server`;
  `EveryCommandIsTaken` and `ServerEnds` take it for an end.
* The message of a runtime error is printed over the prompt without a redraw
  (`src/cli.rs:269`), unlike a printed value. `scrolled` in `Terminal`.
* A process that is stopped while it waits for a reply leaves its entry in the reply table
  (`OnlyTheStoppedLinger`), and one that is stopped while it waits for an answer leaves its question in the
  terminal's queue, to be answered for nobody.
* `stop_all` removes processes but not their keys from the process queue (`src/project.rs:135`), and
  network messages wait without a limit (`src/project.rs:289`).
* A toggle of the pause flag that was meant as a pause and comes after the project has paused itself resumes it
  (`src/cli.rs:447`), and a pull between the two writes of a runtime error hands out the summary of the error before
  its message (`src/cli.rs:410`). `PauseHoldsUntilResumed` and `PulledOnceInOrder` allow both.
* A message that is in flight when the server's project is replaced reaches the new project,
  since both share the system.

## 4. Proofs

All for every value of the constants that satisfies the named assumptions.

* `SlotMapProofs`: `Spec => []Inv` with `Inv == TypeOK /\ FreeListExact /\ CountExact`,
  proved action by action. It is inductive as it stands; `CountExact` needs
  `FreeListExact`, because an insert that pops the free list is only known to fill a
  vacant slot by it.
  Every step maps to a step of `KeyedStore` or a stutter
  (`SlotMapImplementsStore`), hence a dead key stays dead (`DeadKeysTheorem`).

* `ProjectProofs`: `Spec => []Inv` for the scheduler (`InvHolds`), and from it `[]TypeOK`,
  `[]EveryProcessQueuedOnce`, `[]ScriptsOwnTheirProcesses`,
  `[]OnlyEventsAndMessagesWait`, `[]BacklogBounded`, `[]SomeProcessCanGoOn`,
  `StartSparesOthers`, `HandlesInOrder`, `OnlyTheFirstIsPassed`, `WaitingContextsGoFirst` and
  `[]ClonesMirrorRoots`. It begins with what loops over indices rest on: `InOrder` enumerates a finite set
  completely and in increasing order (`InOrderProperties`); what concatenating injective sequences preserves.

The invariant of the scheduler is `Good(proj, {}) /\ Waits(proj) /\ Grounded(proj) /\
Quiet(proj)` with the type of `roots`.
`Good(s, out)` says of any state `s`, also one in the middle of a call, that its fields
are typed (`IsState`), that every live process except those of `out` is in the queue,
those of `out` are not, and no key is there twice (`Queued`), and that scripts own their
processes (`Owned`). The parameter `out` is what makes the argument go through: a step
takes the process whose turn it is off the queue, runs a sequence of operations in which
`Queued` does not hold with `out = {}`, and pushes it back at the end. Each operation
(`InsertProcess`, `RemoveProcesses`, `StopAll`, `ConsumeContexts`, `Schedule`, ..) has one
lemma about an arbitrary `Good(s, out)`, stated by a predicate that relates the state
before to the state after (`Inserted`, `Stopped`, `Consumed`, `Scheduled`, ..); the lemma
of a call (`StartKept`, `BroadcastKept`, ..) chains those in the order of the code.

`Waits` bounds the contexts of custom events by a limit of the host, which needs the
assumption that `MaxQueues` is not empty (`QueueAssumption`) and nothing else of it.

`Grounded` is why broadcasts that wait cannot deadlock: any set of processes has a member
whose barrier no other member holds. Taken for the set of all live processes, and with
`Quiet` (contexts that are left waiting hold no barrier), it gives `SomeProcessCanGoOn`;
it is stated for every set because processes end in any order. That it is kept needs a
fact about the middle of a call, `Unheld(s, out)`: nothing holds the barrier of a key that
the call may still give to a new process. At the start of a call this holds because `Held`
counts barriers, and a broadcast adds only the barrier of the process whose turn it is, which
is in `out`. So a process that is begun is one whose barrier nobody holds, and it serves
as the member `Grounded` asks for in every set it is in.

That the scheduler implements `Inboxes` (`HandlesInOrder`) rests on what each operation does to one
script: it leaves it alone (`Calm`), has it take up its oldest context (`Takes`), may end what it
handles (`Quits`), or queues a context at it (`Gets`). A call is at most one delivery
(`Told`) followed by `Onward`, in which scripts of network messages (those not in `Deaf`)
do no more than that; after a delivery `do_once` has been called already, so they do not
take up a second context. `HearsMaps` then takes each script's part to `Handle` of `Inboxes`, and
`CallCases` says that every call is a delivery, none, or a stop. The invariant it adds
is that scripts keep their hats (`HatsStay`), and it needs that a hat of network messages names
its messages (`MessageAssumption`): then a step that receives nothing delivers nothing.

The order of the queue needs no further invariant but a normal form of calls. `Runs(r, did_it)` says
that from `r`, the state in which a message has been delivered or the state before the call, the call
takes at most one process off the queue, drains the waiting contexts, begins the processes of the scripts
it restarts, and puts the one it took at the front, at the back or nowhere (`Course`): every `..Kept`
lemma concludes it of its call. `Unfolds` is the part in which `do_once` and `Restart` insert
processes: the queue grows at its end only (`Extends`), by the waiting scripts in their order and then by
the restarted ones. `RoundRobin` then needs that the queue has no key twice (`Queued`), so that to
stand in front of another key is to stand at a smaller place; `WaitersGoFirst` that a call which begins anything newer, a fork
included, drains all that waits at idle scripts before it (`CourseLeads`, `RunsLead`, and `DeliveredLead` for a call
that delivers a message, where `do_once` ran before anything was begun). Which processes are newer takes care:
a process that runs for a context which waited is none. Where an event interrupts a script, its process may
be new although a context waited there, since that context is dropped; `InterruptLeads` shows that what waits at
the other scripts goes before it all the same.

`ClonesMirrorRoots` is not inductive either, since it does not say that roots are originals, nor that no
script has an entity that is still to come, to whose hats the copies would be added. `Mirror` adds
both; `HatsGrow` says what scripts at the end of the vector do to the hats of an entity, `HatsCopied` that
the copies are, in their order, the hats of the root. That a project comes without clones is an
assumption (`OriginalsAssumption`).

`Owned` alone is not inductive: that a script that is restarted does not take over
the process of another one needs that the key it gets is `Fresh`, i.e. in no slot, in no
queue and with no script, and that the keys given to different scripts in one call differ
(`Distinct`, `Unused`). `SupplyKeys` derives that from `KeysSuffice`; this is where the
proof relies on what `SlotMap` guarantees. `Queued` in turn needs `Owned`: a context is
consumed by a script that is not running, and `Owned` says that its process is then dead, so
that no process is pushed to the queue a second time.

The assumptions are the named ones of `Project`: scripts fit `MaxScripts`, originals are
entities and the only ones that have scripts at first, keys are a finite set of numbers without `NoKey`, limits are numbers, hats of network messages
name their messages. `KeysSuffice`
is not an assumption of the theorems but a guard of `Next`: a call that would run out of
keys is outside the model.

* `ProcessProofs`: `Spec => []TypeOK`, `[]HoldsOnlyWhileRunning` for all code;
  `Spec => []StackSafe` and `[]Balanced` for all code that verifies (`ShapeAssumption`), any
  number of frames and any nesting.

`Balanced` speaks of the position a process is at; the invariant behind it, `Stacks(cs, hs, p,
height, warp)`, speaks of any stacks and the instruction `p` that is to be executed on them,
so that it can be applied to the stacks a step leaves. It consists of `Fits` for
the last frame (its values, warp blocks and handlers end where the shape at `p` says), of
`Called` for every other (it fits the instruction that called the next one), and of
`Rising` (recorded sizes never go down along the call stack). What steps do to stacks has
one lemma each: `Moved`, `HandlerPushed`, `HandlerPopped`, `Entered`, `Returned`, `Caught`, `RootStacks`.
`Caught` is the hard one. The innermost handler may belong to a frame far below; it
is found as the last frame whose handlers do not begin at the top (`HandlersFrame`), and
the shape at that frame's call says where the handler resumes and with what; `Rising` gives that
the values of the frames above do not reach below it. `IInv` adds that a process that waits is at
a deferring instruction that has taken its operands (`DeferredHere`, `Awaited`), and leaves out
processes that have ended, panicked, or hold a consumed key. `NothingMissing` derives from it
that the guard of `StepPanics` is false.

That the compiler's code satisfies `ShapeAssumption` is what `ProgramsProofs` shows of the programs of
`Programs`, of any size and of any number of units, with the starts of all units as entries
(`ScriptsAreVerifiedCode`). For the code that `process` runs TLC evaluates the assumption.

* `ProgramsProofs`: `Spec => []CompiledCodeVerifies` and `[]NestedCodeLeavesItsResult` of `Programs`, for
  programs of any size and any number of units that call each other, every construct nested in every
  other one to any depth (`MaxBlocks` and `MaxUnits` may be any numbers, the latter positive); and
  `ScriptsAreVerifiedCode`, which says of the whole program what `ProcessProofs` assumes.

`Verified` speaks of whole code with absolute targets, and a program that grows has other code
everywhere; so neither property is inductive. The invariant, `ProgramFits`, is about relocatable
code instead: `Fits(F, code, m, n, mode)` says that wherever `code` is placed in a text, and whatever
values, warp and try blocks are there already (at least `m` values, which no try block around counts
on), there are shapes for its positions that begin with what is there and end with `m` values taken
and `n` left (`Covers`). In mode `"ends"` the end is reached; mode `"may"` allows code that returns,
throws or loops for ever. It is a type system for code, and each construct of the compiler has a typing lemma in which its
parts are arbitrary code that fits (`ConditionalFits`, `MapFits`, `TryCatchFits`, `ForFits`, ..), so nesting
needs no induction over programs: `ProgramFits` is preserved by one lemma per disjunct of
`Next`. `SequenceFits` joins the shapes of two parts; in the loops (`LoopAround`) the jump back has to find
what the head of the loop found, which is where a value too many on the stack, or an offset that is off by one,
would make the proof fail. `TryCatchFits` needs that code in a try block never takes what the
block was entered with, hence the condition on try blocks in `Ready`.

Three steps lead from there to the properties. In linked code the units lie one after the other,
each from its start on, and a call goes to the start of the unit it names (`UnitsLie`,
`LinkedFacts`); `Linked` is a flattening with the library's recursive definition, whose facts are derived
by induction over the number of units (`FlattenIs`). Since the ranges of the units are disjoint, the
shapes that cover them make one shape of the whole (`ProgramVerifies`): the shape at the start of
every unit is `Entry`, which is what a call from any other unit finds there, so that a unit can be typed
before the ones it calls exist. Shapes of the whole in which every position
but the entries is reached from an earlier one are `Closed` (`WholeIsClosed`); and `Inferred`,
which goes through the code once, finds exactly those (`InferredAgrees`, `InferredVerifies`).
The inductions over positions and over units go by the least number for which the claim fails (`Induction`).


* `RepliesProofs`: `Spec => []TypeOK`, `[]WaitersAreKnown` (with its exception), `[]OnlyTheStoppedLinger`, `FirstReplyWins` and
  `ImplementsPromise`, for any number of processes, scripts and requests and any time-out.

The invariant is `TypeOK /\ Waiters /\ Unused /\ OnTheWay /\ Replied /\ Filled`. `Waiters` ties
processes and table together in both directions, but for the processes that wait for a reply which was read and not
converted. `FirstReplyWins` needs `Filled`: an entry has
the reply that was read first. The step of the refinement that sends a reply needs that
the holder of a reply key has not replied before; this fails if a request could be heard
a second time, which `OnTheWay` excludes: while a request is on its way nobody holds a key to it
or has replied to it.

* `ServerProofs`: `Spec => []PulledOnceInOrder`, `[]LastGoodProjectRuns` and `PauseHoldsUntilResumed`, for any
  files, any number of commands and reports, and batches of any size.

The invariant adds to them the forms `todo` can have (`TodoForms`), that the editor is given the
project that runs unless the store is still to come (`Shown`), and `Held`: after the project has paused
itself the thread is out of the batch and the flag is down, *or about to be*. The last part is
what a toggle between the step and the store attacks; it holds since every toggle ends the
pause.

* `TerminalProofs`: `Spec => []WaitersAreAsking`, `[]TextAnswersItsQuestion` and `[]ScreenIsCurrent`, for any
  number of processes, questions, characters and inputs.

Its invariant says that the queue has exactly the pending questions, each once (`Queued`): so the
question that is answered leaves the queue, none other is affected, and none is pending
without being in the queue. `Typed` and `Waiting` say the rest position by position.

* `LinkProofs`: `Spec => []CodeReadsAsCompiled`, `[]StopsWhenSmallest` and `[]ErrorsAreLocated`, for programs of any
  size, any width of numbers and of the groups in their bytes (`WidthAssumption`: with room for signed numbers and
  for a group), any data (`DataAssumption`: positions that fit a word) and any number of rounds (`CyclesAssumption`).
  Of the programs `ProgramsAssumption` says `WellFormed` (what the compiler hands over are instructions in order,
  addresses of instructions that exist, and numbers that fit their types) and `WellLocated` (locations are of
  instructions that exist, and the differences of their tokens fit an `isize`; the code casts
  `tok - base_token + 1` to a `u64`).

It begins with numbers: what `EncodeIn` writes is `Stored` (groups with a flag, then the rest), of any size that
has room; what is stored is read by `DecodeU64` with its value and its size (`StoredIsRead`), whatever the word
wraps; and `Blocks` is the least such size and grows with the number (`BlocksAre`, `BlocksGrow`). The powers of two this
needs come from counting subsets (`PowerStep`), as the library states nothing about exponentiation.

Reading the code word by word does not survive a step of the linker as it is, since between two rounds
bytes are left over and addresses are of a code that is still to move. The invariant, `LinkInv`, says where
each word is (`at`, a `Layout`) and what it carries in how many bytes (`Coded`), with one form for each phase: `Appended`
(the first words, with addresses of the greatest size that carry the number of their target), `Sized` (every address
carries the position its target has now, in its smallest size at the front of its room, and
the plan has the places and both sizes), `Settled` (every word fills its room and
carries what it is meant to). The loops are recursive functions; `LoopIs` gives the state after each pass by
induction over the passes, and each loop has an invariant of its own: `Resolved`, `Measured`, `Moved`,
`Readdressing`. That the moves in place do not overwrite what is still to be moved is `CodeMoves`: words
move to the front only and keep their order (`Packed`, `Shrinking`, `MovedToFront`), so a copy never reaches a word
behind it. `ReaddressOne` needs that instructions begin at different positions, before and after
(`HeadsApart`), so that an old address names one instruction, and that the address to write is not longer
than the one it replaces, since instructions have only moved to the front (`NewAddress`). For `StopsWhenSmallest` the
invariant remembers that a round that saved nothing has found every address at its smallest size and left the
code as it was (`NothingSaved`).

`ErrorsAreLocated` rests on the same invariant. The table's loops (`Condense`, `AppendTokens`, `ReadTokens`) are
recursive functions like those of the linker. `CondenseIs` shows that the table lists the positions in their order, each
with a place from which the data has its tokens and a zero behind them (`Tabled`, `ListedFrom`), which appending
further locations does not disturb (`StillListed`); `TokensAreRead` that the loop of `lookup`
reads them back and stops; `LookupIs` that the location found is the first behind a position. That it is the
one of the instruction around the position needs that instructions are in the code in their order (`HeadsAscend`);
`LocatedInv` adds to `LinkInv` what the table is of.

Model-checked only:

* Liveness: `TurnComes`, `ReleasedSendersResume`, `EveryWaitEnds`, `EveryCommandIsTaken`, `IdleServerSleeps`,
  `ServerEnds`, `AnswersAreHeard`. Fairness and `ENABLED` are outside what the prover handles.

## 5. Plan

In this order; all of it is done but for what is named as left.

1. `SlotMap` with its refinement and proofs.
2. `Project` with `Inboxes`, which it implements (`HandlesInOrder`).
3. `ProjectProofs`: all safety properties of `Project`.
4. `Process`, `Compiler`, `Verifier`, `Programs`, `ProcessProofs`, `ProgramsProofs`. Left: that
   `Process` implements what `Project` assumes of a process (a refinement to an abstract process that runs,
   waits on a barrier and ends).
5. `Replies` and `Promises` with `RepliesProofs`.
6. `Server` with `ServerProofs`, `Terminal` with `TerminalProofs`.
7. `Varint`, `Locations` and `Link` with `LinkProofs`. Left: captures of closures and init info in `Compiler`.

## 6. Not modelled

Values, symbol tables, conversions and the arithmetic of blocks (data without a
protocol); parsing of projects (another crate); RPCs, sockets, time and random numbers
as such; the text of messages; command-line arguments, file access and the dump mode;
`run_proj_non_tty`, which is the terminal's loop without input; the JavaScript extension
and its template.
