------------------------------- MODULE Server -------------------------------
(***************************************************************************)
(* The execution server of cli.rs (run_server).  The HTTP thread answers   *)
(* the editor: it queues commands, toggles the pause flag and hands out    *)
(* what was printed.  The program thread takes the commands, replaces the  *)
(* project and steps it in batches.  They share the state below, and each  *)
(* access to it is a step of its own.  The HTTP thread runs one handler at *)
(* a time; of the handlers, those that only read are left out.             *)
(*                                                                         *)
(* Of a project it matters whether it can be loaded, whether it has        *)
(* anything to run, and what its steps report.                             *)
(***************************************************************************)
EXTENDS Integers, Sequences

CONSTANTS
  Content,          \* the project files an editor may send
  Located,          \* those the parser rejects at a block it can name
  Parsed,           \* those it accepts
  Loadable,         \* those that compile as well
  EmptyProject,     \* the project the server begins with
  StepsPerIoIter,   \* STEPS_PER_IO_ITER
  MaxYields,        \* YIELDS_BEFORE_IDLE_SLEEP
  MaxCommands,      \* bound: commands sent
  MaxReports        \* bound: lines printed when a step may print another

ASSUME ContentAssumption ==
  /\ Parsed \subseteq Content
  /\ Located \subseteq Content \ Parsed
  /\ Loadable \subseteq Parsed
  /\ EmptyProject \in Loadable
ASSUME BoundAssumption ==
  /\ StepsPerIoIter \in Nat \ {0}
  /\ MaxYields \in Nat \ {0}
  /\ MaxCommands \in Nat
  /\ MaxReports \in Nat

VARIABLES
  serving,       \* the HTTP thread runs, and with it lives the shared state
  running,       \* State::running, the pause flag
  sent,          \* the commands sent so far; the channel holds the last ones
  handled,       \* how many of them the program thread has taken
  current_proj,  \* State::current_proj
  output,        \* State::output, a sequence of lines
  errors,        \* State::errors, a sequence of summaries
  pull,          \* whether /pull is between taking output and taking errors
  pc,            \* where the program thread is in its loop
  todo,          \* what it does to the shared state before it goes on
  steps,         \* the steps of the current batch
  env,           \* the project it runs: its content, and if it is busy
  count,         \* IdleAction::count
  asleep,        \* it runs the idle action, which sleeps
  seen,          \* history: the lines and the summaries pulled so far
  reported,      \* history: the number of lines and summaries so far
  halted         \* history: paused by the project and not resumed since

http == <<serving, sent, pull>>
reports == <<output, errors, seen, reported>>
flags == <<running, halted>>
loop == <<handled, pc, steps, env, count, asleep>>
vars == <<http, reports, flags, loop, current_proj, todo>>

Project(c) == [type |-> "SetProject", content |-> c]
Input(i) == [type |-> "Input", input |-> i]
Command == {Project(c) : c \in Content} \union {Input("start"), Input("stop")}

Pending == SubSeq(sent, handled + 1, Len(sent))

Init ==
  /\ serving = TRUE
  /\ running = TRUE
  /\ sent = <<>> /\ handled = 0
  /\ current_proj = EmptyProject
  /\ output = <<>> /\ errors = <<>>
  /\ pull = "idle"
  /\ pc = "input" /\ todo = <<>> /\ steps = 0
  /\ env = [content |-> EmptyProject, busy |-> FALSE]
  /\ count = 0 /\ asleep = FALSE
  /\ seen = [lines |-> <<>>, errors |-> <<>>]
  /\ reported = [lines |-> 0, errors |-> 0]
  /\ halted = FALSE
-----------------------------------------------------------------------------
(* The HTTP thread.                                                        *)

\* set_project and send_input
Send(command) ==
  /\ serving /\ pull = "idle"
  /\ Len(sent) < MaxCommands
  /\ sent' = Append(sent, command)
  /\ UNCHANGED <<serving, pull, reports, flags, loop, current_proj, todo>>

TogglePaused ==
  /\ serving /\ pull = "idle"
  /\ running' = ~ running
  /\ halted' = FALSE
  /\ UNCHANGED <<http, reports, loop, current_proj, todo>>

PullOutput ==
  /\ serving /\ pull = "idle"
  /\ pull' = "errors"
  /\ output' = <<>>
  /\ seen' = [seen EXCEPT !.lines = @ \o output]
  /\ UNCHANGED <<serving, sent, errors, reported, flags, loop, current_proj, todo>>

\* Mutant of PullErrors: the buffer is copied, not taken.
PullErrorsCopying ==
  /\ pull = "errors"
  /\ pull' = "idle"
  /\ seen' = [seen EXCEPT !.errors = @ \o errors]
  /\ UNCHANGED <<serving, sent, output, errors, reported,
                 flags, loop, current_proj, todo>>

PullErrors ==
  /\ pull = "errors"
  /\ pull' = "idle"
  /\ errors' = <<>>
  /\ seen' = [seen EXCEPT !.errors = @ \o errors]
  /\ UNCHANGED <<serving, sent, output, reported, flags, loop, current_proj, todo>>

\* run_http returns: the shared state is dropped, the channel hangs up.
EndHttp ==
  /\ serving /\ pull = "idle"
  /\ serving' = FALSE
  /\ UNCHANGED <<sent, pull, reports, flags, loop, current_proj, todo>>
-----------------------------------------------------------------------------
(* The program thread.                                                     *)

\* Accesses to the shared state, in the order the code makes them.

WriteLine ==
  /\ output' = Append(output, reported.lines + 1)
  /\ reported' = [reported EXCEPT !.lines = @ + 1]
  /\ UNCHANGED <<errors, seen, flags, current_proj>>

WriteError ==
  /\ errors' = Append(errors, reported.errors + 1)
  /\ reported' = [reported EXCEPT !.errors = @ + 1]
  /\ UNCHANGED <<output, seen, flags, current_proj>>

StoreRunning ==
  /\ running' = TRUE /\ halted' = FALSE
  /\ UNCHANGED <<reports, current_proj>>

StorePaused ==
  /\ running' = FALSE
  /\ UNCHANGED <<halted, reports, current_proj>>

StoreProject ==
  /\ current_proj' = env.content
  /\ UNCHANGED <<reports, flags>>

\* The state is gone by the time it is accessed: nothing to do.
Access ==
  /\ todo # <<>>
  /\ todo' = Tail(todo)
  /\ \/ serving /\ Head(todo) = "line" /\ WriteLine
     \/ serving /\ Head(todo) = "error" /\ WriteError
     \/ serving /\ Head(todo) = "resume" /\ StoreRunning
     \/ serving /\ Head(todo) = "pause" /\ StorePaused
     \/ serving /\ Head(todo) = "project" /\ StoreProject
     \/ ~ serving /\ UNCHANGED <<reports, flags, current_proj>>
  /\ UNCHANGED <<http, loop>>

At(label) == pc = label /\ todo = <<>> /\ ~ asleep

Take ==
  /\ At("input")
  /\ Pending # <<>>
  /\ handled' = handled + 1

\* ServerCommand::Input: a start lets the flag be set before the project is told.
TakeInput ==
  /\ Take
  /\ LET command == Head(Pending) IN
       /\ command.type = "Input"
       /\ \/ /\ command.input = "start"
             /\ todo' = <<"resume">>
             /\ \E busy \in {env.busy, TRUE} : env' = [env EXCEPT !.busy = busy]
          \/ /\ command.input = "stop"
             /\ todo' = <<>>
             /\ env' = [env EXCEPT !.busy = FALSE]
  /\ UNCHANGED <<http, reports, flags, current_proj, pc, steps, count, asleep>>

\* Mutant of TakeProject: the project the editor is given is not replaced.
TakeProjectOnly ==
  /\ Take
  /\ LET command == Head(Pending)
         c == command.content
     IN  /\ command.type = "SetProject"
         /\ env' = IF c \in Loadable THEN [content |-> c, busy |-> FALSE]
                                    ELSE env
         /\ todo' = IF c \in Located THEN <<"error", "line">> ELSE <<"line">>
  /\ UNCHANGED <<http, reports, flags, current_proj, pc, steps, count, asleep>>

\* ServerCommand::SetProject: the project is replaced if it can be loaded.
TakeProject ==
  /\ Take
  /\ LET command == Head(Pending)
         c == command.content
     IN  /\ command.type = "SetProject"
         /\ serving \/ c \notin Parsed \union Located
         /\ env' = IF c \in Loadable THEN [content |-> c, busy |-> FALSE]
                                    ELSE env
         /\ todo' = CASE c \in Loadable -> <<"line", "project">>
                      [] c \in Parsed \ Loadable -> <<"line", "line">>
                      [] c \in Located -> <<"error", "line">>
                      [] OTHER -> <<"line">>
  /\ UNCHANGED <<http, reports, flags, current_proj, pc, steps, count, asleep>>

\* The arms of TakeProject for a file that was parsed, or rejected at a place, unwrap the
\* weak reference to the shared state.
Panic ==
  /\ At("input")
  /\ Pending # <<>>
  /\ Head(Pending).type = "SetProject"
  /\ Head(Pending).content \in Parsed \union Located
  /\ ~ serving
  /\ pc' = "panicked"
  /\ UNCHANGED <<http, reports, flags, current_proj, todo,
                 handled, steps, env, count, asleep>>

\* Mutant of NoMoreCommands: a hung-up channel is an empty one.
NoMoreCommandsYet ==
  /\ At("input")
  /\ Pending = <<>>
  /\ pc' = "check"
  /\ UNCHANGED <<http, reports, flags, current_proj, todo,
                 handled, steps, env, count, asleep>>

\* The channel is empty: go on, or end if nobody can send any more.
NoMoreCommands ==
  /\ At("input")
  /\ Pending = <<>>
  /\ pc' = IF serving THEN "check" ELSE "ended"
  /\ UNCHANGED <<http, reports, flags, current_proj, todo,
                 handled, steps, env, count, asleep>>

\* Mutant of CheckRunning: a paused thread waits for the flag only.
CheckUntilRunning ==
  /\ At("check")
  /\ IF serving /\ ~ running
       THEN asleep' = TRUE /\ UNCHANGED <<pc, steps>>
       ELSE pc' = "step" /\ steps' = 0 /\ UNCHANGED asleep
  /\ UNCHANGED <<http, reports, flags, current_proj, todo, handled, env, count>>

\* Mutant of CheckRunning: a new count for every batch.
CheckAndCountAnew ==
  /\ At("check")
  /\ count' = 0
  /\ IF serving /\ ~ running
       THEN pc' = "input" /\ asleep' = TRUE /\ UNCHANGED steps
       ELSE pc' = "step" /\ steps' = 0 /\ UNCHANGED asleep
  /\ UNCHANGED <<http, reports, flags, current_proj, todo, handled, env>>

CheckRunning ==
  /\ At("check")
  /\ IF serving /\ ~ running
       THEN /\ pc' = "input"
            /\ count' = 0
            /\ asleep' = TRUE
            /\ UNCHANGED steps
       ELSE /\ pc' = "step"
            /\ steps' = 0
            /\ UNCHANGED <<count, asleep>>
  /\ UNCHANGED <<http, reports, flags, current_proj, todo, handled, env>>

\* IdleAction::consume
Consume(result) ==
  IF result \in {"Idle", "Yield", "Pause"}
    THEN LET trigger == count + 1 >= MaxYields
         IN  /\ count' = IF trigger THEN 0 ELSE count + 1
             /\ asleep' = trigger
    ELSE count' = 0 /\ asleep' = FALSE

\* What Project::step may return, and whether the project is busy afterwards:
\* a message may wake it, and whatever ends its last process leaves it idle.
Outcome ==
  IF env.busy
    THEN [result : {"Normal", "Yield", "Pause"}, busy : {TRUE}]
           \union [result : {"ProcessTerminated", "Error"}, busy : BOOLEAN]
    ELSE {[result |-> "Idle", busy |-> FALSE], [result |-> "Normal", busy |-> TRUE]}

\* What is done to the shared state for a result: an error is reported, and a
\* step that goes on may have printed a value.
Reports(result) ==
  IF result = "Error" THEN {<<"line", "error">>}
  ELSE IF result = "Normal" /\ env.busy THEN {<<>>, <<"line">>}
  ELSE {<<>>}

\* Mutant of Step: a pause does not leave the batch.
StepOn ==
  /\ At("step")
  /\ \E o \in Outcome :
       /\ env' = [env EXCEPT !.busy = o.busy]
       /\ halted' = (halted \/ (o.result = "Pause" /\ serving))
       /\ todo' \in IF o.result = "Pause" THEN {<<"pause">>} ELSE Reports(o.result)
       /\ todo' # <<>> => o.result = "Pause" \/ reported.lines < MaxReports
       /\ Consume(o.result)
  /\ steps' = (steps + 1) % StepsPerIoIter
  /\ pc' = IF steps' = 0 THEN "input" ELSE "step"
  /\ UNCHANGED <<http, reports, running, current_proj, handled>>

\* One iteration of the batch.  A pause leaves it, unless the state is gone.
Step ==
  /\ At("step")
  /\ \E o \in Outcome :
       /\ env' = [env EXCEPT !.busy = o.busy]
       /\ halted' = (halted \/ (o.result = "Pause" /\ serving))
       /\ IF o.result = "Pause" /\ serving
            THEN /\ pc' = "input"
                 /\ todo' = <<"pause">>
                 /\ UNCHANGED <<steps, count, asleep>>
            ELSE /\ steps' = (steps + 1) % StepsPerIoIter
                 /\ pc' = IF steps' = 0 THEN "input" ELSE "step"
                 /\ todo' \in Reports(o.result)
                 /\ todo' # <<>> => reported.lines < MaxReports
                 /\ Consume(o.result)
  /\ UNCHANGED <<http, reports, running, current_proj, handled>>

\* thread::sleep returns.
Wake ==
  /\ asleep
  /\ asleep' = FALSE
  /\ UNCHANGED <<http, reports, flags, current_proj, todo,
                 handled, pc, steps, env, count>>
-----------------------------------------------------------------------------
HttpNext ==
  \/ \E command \in Command : Send(command)
  \/ TogglePaused
  \/ PullOutput
  \/ PullErrors
  \/ EndHttp

ProgramNext ==
  \/ Access
  \/ TakeInput
  \/ TakeProject
  \/ Panic
  \/ NoMoreCommands
  \/ CheckRunning
  \/ Step
  \/ Wake

Next == HttpNext \/ ProgramNext

\* The program thread is never held up for good: its locks are held for a
\* moment, its sleep is short, and a step of the project returns.
Spec == Init /\ [][Next]_vars
FairSpec == Spec /\ WF_vars(ProgramNext)
-----------------------------------------------------------------------------
\* The numbers from 1 to n, in order.
UpTo(n) == [i \in 1 .. n |-> i]

\* Every line and every error summary is handed out by exactly one pull, in
\* the order they were reported, although a pull takes the two buffers one
\* after the other while the program thread goes on filling them.
PulledOnceInOrder ==
  /\ seen.lines \o output = UpTo(reported.lines)
  /\ seen.errors \o errors = UpTo(reported.errors)

\* The last of the first n commands that loads a project.
LastGood(n) ==
  LET good == {i \in 1 .. n : /\ sent[i].type = "SetProject"
                              /\ sent[i].content \in Loadable}
  IN  IF good = {} THEN EmptyProject
      ELSE sent[CHOOSE i \in good : \A j \in good : j <= i].content

\* "keeping previous project": the project that runs, and the one the editor
\* is given when it asks, is the last one sent that could be loaded, whatever
\* was sent in between and whatever became of it.
LastGoodProjectRuns ==
  /\ env.content = LastGood(handled)
  /\ serving /\ todo = <<>> => current_proj = env.content

\* A project that has paused itself takes no step until the flag is toggled
\* or a start command is taken: not in the same batch, and not in a later one.
PauseHoldsUntilResumed ==
  [][serving /\ halted /\ pc = "step" => UNCHANGED <<env, steps>>]_vars

\* Every command is taken, also while the program is paused or asleep, unless
\* the program thread has panicked.
EveryCommandIsTaken ==
  \A n \in 1 .. MaxCommands :
    Len(sent) >= n ~> handled >= n \/ pc = "panicked"

\* With nothing to run, the thread sleeps again and again instead of spinning.
IdleServerSleeps ==
  <>[](~ env.busy) => []<>(asleep \/ pc \in {"ended", "panicked"})

\* When the HTTP thread ends the program thread ends too, paused or not.
ServerEnds == ~ serving ~> pc \in {"ended", "panicked"}

=============================================================================
