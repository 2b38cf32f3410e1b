------------------------------ MODULE Terminal ------------------------------
(***************************************************************************)
(* The loop of cli.rs that runs a project in a terminal (run_proj_tty).    *)
(* Each iteration reads all key presses, passes the inputs they make to    *)
(* the project, steps it some times and redraws the prompt if that is due. *)
(* A process that asks for input leaves a question in a queue; while there *)
(* are questions, what is typed is the answer to the first of them.        *)
(*                                                                         *)
(* Questions are numbered as they are asked.  Of a character it is kept    *)
(* which question was first when it was typed.                             *)
(***************************************************************************)
EXTENDS Integers, Sequences, SequencesExt

CONSTANTS
  Proc,            \* the processes of the project
  StepsPerIoIter,  \* STEPS_PER_IO_ITER
  MaxQuestions,    \* bound: questions asked
  MaxText,         \* bound: characters typed for one answer
  MaxInputs        \* bound: inputs for the project in one iteration

ASSUME BoundAssumption ==
  /\ StepsPerIoIter \in Nat \ {0}
  /\ {MaxQuestions, MaxText, MaxInputs} \subseteq Nat

VARIABLES
  input_queries,   \* the questions that wait for an answer, oldest first
  input_value,     \* what has been typed so far
  input_sequence,  \* the inputs read in this iteration
  update_flag,     \* the prompt is to be redrawn
  answers,         \* what is behind the key of each question asked
  defer,           \* the question each process waits for; 0 if none
  pc, steps,       \* where the loop is
  screen,          \* the prompt that was drawn last
  scrolled         \* history: something was printed over it since

io == <<input_queries, input_value, input_sequence>>
view == <<screen, scrolled>>
vars == <<io, update_flag, answers, defer, pc, steps, view>>

Question == 1 .. MaxQuestions
Asked == DOMAIN answers
InInputMode == input_queries # <<>>

Prompt ==
  IF InInputMode THEN [query |-> Head(input_queries), text |-> input_value]
                 ELSE [query |-> 0, text |-> <<>>]

Init ==
  /\ input_queries = <<>> /\ input_value = <<>> /\ input_sequence = <<>>
  /\ update_flag = FALSE
  /\ answers = <<>>
  /\ defer = [p \in Proc |-> 0]
  /\ pc = "read" /\ steps = 0
  /\ screen = [query |-> 0, text |-> <<>>] /\ scrolled = FALSE
-----------------------------------------------------------------------------
(* Reading events, until there are none.                                   *)

PushInput(input) ==
  /\ Len(input_sequence) < MaxInputs
  /\ input_sequence' = Append(input_sequence, input)
  /\ UNCHANGED <<input_queries, input_value, update_flag>>

PressEsc == PushInput("Stop")

PressChar ==
  \/ /\ InInputMode
     /\ Len(input_value) < MaxText
     /\ input_value' = Append(input_value, Head(input_queries))
     /\ update_flag' = TRUE
     /\ UNCHANGED <<input_queries, input_sequence>>
  \/ /\ ~ InInputMode
     /\ PushInput("KeyDown")

PressArrow ==
  /\ ~ InInputMode
  /\ PushInput("KeyDown")

\* Mutant of PressBackspace: nothing is redrawn.
PressBackspaceSilently ==
  /\ InInputMode
  /\ input_value # <<>>
  /\ input_value' = Front(input_value)
  /\ UNCHANGED <<input_queries, input_sequence, update_flag>>

PressBackspace ==
  /\ InInputMode
  /\ input_value # <<>>
  /\ input_value' = Front(input_value)
  /\ update_flag' = TRUE
  /\ UNCHANGED <<input_queries, input_sequence>>

Resize ==
  /\ update_flag' = TRUE
  /\ UNCHANGED io

\* Mutant of PressEnter: the text is copied, not taken.
PressEnterCopying ==
  /\ InInputMode
  /\ input_queries' = Tail(input_queries)
  /\ answers' = [answers EXCEPT ![Head(input_queries)] =
                   [state |-> "Completed", text |-> input_value]]
  /\ update_flag' = TRUE
  /\ UNCHANGED <<input_value, input_sequence, defer, pc, steps, view>>

\* Mutant of PressEnter: an empty answer is dropped with its question.
PressEnterUnlessEmpty ==
  /\ InInputMode
  /\ input_queries' = Tail(input_queries)
  /\ answers' = IF input_value = <<>> THEN answers
                ELSE [answers EXCEPT ![Head(input_queries)] =
                        [state |-> "Completed", text |-> input_value]]
  /\ input_value' = <<>>
  /\ update_flag' = TRUE
  /\ UNCHANGED <<input_sequence, defer, pc, steps, view>>

PressEnter ==
  /\ InInputMode
  /\ input_queries' = Tail(input_queries)
  /\ answers' = [answers EXCEPT ![Head(input_queries)] =
                   [state |-> "Completed", text |-> input_value]]
  /\ input_value' = <<>>
  /\ update_flag' = TRUE
  /\ UNCHANGED <<input_sequence, defer, pc, steps, view>>

ReadEvent ==
  /\ pc = "read"
  /\ \/ /\ PressEsc \/ PressChar \/ PressArrow \/ PressBackspace \/ Resize
        /\ UNCHANGED <<answers, defer, pc, steps, view>>
     \/ PressEnter

\* Ctrl-C
Quit ==
  /\ pc = "read"
  /\ pc' = "ended"
  /\ UNCHANGED <<io, update_flag, answers, defer, steps, view>>

\* Mutant of NoMoreEvents: the first event of an iteration is waited for.
NoMoreEventsAfterOne ==
  /\ pc = "read"
  /\ update_flag \/ input_sequence # <<>>
  /\ pc' = "input"
  /\ UNCHANGED <<io, update_flag, answers, defer, steps, view>>

NoMoreEvents ==
  /\ pc = "read"
  /\ pc' = "input"
  /\ UNCHANGED <<io, update_flag, answers, defer, steps, view>>

\* Project::input for each: a stop ends every process, a key restarts some.
PassInputs ==
  /\ pc = "input"
  /\ \E restarted \in SUBSET Proc :
       /\ input_sequence = <<>> => restarted = {}
       /\ "Stop" \in Range(input_sequence) => restarted = Proc
       /\ defer' = [p \in Proc |-> IF p \in restarted THEN 0 ELSE defer[p]]
  /\ input_sequence' = <<>>
  /\ pc' = "step" /\ steps' = 0
  /\ UNCHANGED <<input_queries, input_value, update_flag, answers, view>>
-----------------------------------------------------------------------------
(* Stepping the project.                                                   *)

Stepped ==
  /\ pc = "step"
  /\ steps' = steps + 1
  /\ pc' = IF steps' = StepsPerIoIter THEN "draw" ELSE "step"
  /\ UNCHANGED <<input_value, input_sequence, screen>>

\* Request::Input
Ask(p) ==
  /\ Stepped
  /\ defer[p] = 0
  /\ Len(answers) < MaxQuestions
  /\ LET q == Len(answers) + 1
     IN  /\ answers' = Append(answers, [state |-> "Pending", text |-> <<>>])
         /\ input_queries' = Append(input_queries, q)
         /\ defer' = [defer EXCEPT ![p] = q]
  /\ update_flag' = TRUE
  /\ UNCHANGED scrolled

\* A process that waits polls its key.
Poll(p) ==
  /\ Stepped
  /\ defer[p] # 0
  /\ IF answers[defer[p]].state = "Completed"
       THEN /\ answers' = [answers EXCEPT ![defer[p]].state = "Consumed"]
            /\ defer' = [defer EXCEPT ![p] = 0]
       ELSE UNCHANGED <<answers, defer>>
  /\ UNCHANGED <<input_queries, update_flag, scrolled>>

\* A process that waits is stopped or restarted by another one.
Abandon(p) ==
  /\ Stepped
  /\ defer[p] # 0
  /\ defer' = [defer EXCEPT ![p] = 0]
  /\ UNCHANGED <<input_queries, answers, update_flag, scrolled>>

\* Command::Print scrolls the prompt away, and has it redrawn.
PrintValue ==
  /\ Stepped
  /\ scrolled' = TRUE
  /\ update_flag' = TRUE
  /\ UNCHANGED <<input_queries, answers, defer>>

\* The message of a runtime error does so too, but has nothing redrawn.
PrintError ==
  /\ Stepped
  /\ scrolled' = TRUE
  /\ UNCHANGED <<input_queries, answers, update_flag, defer>>

OtherStep ==
  /\ Stepped
  /\ UNCHANGED <<input_queries, answers, update_flag, defer, scrolled>>

Draw ==
  /\ pc = "draw"
  /\ IF update_flag THEN screen' = Prompt /\ scrolled' = FALSE
                    ELSE UNCHANGED view
  /\ update_flag' = FALSE
  /\ pc' = "read"
  /\ UNCHANGED <<io, answers, defer, steps>>

StepProject ==
  \/ \E p \in Proc : Ask(p) \/ Poll(p) \/ Abandon(p)
  \/ PrintValue
  \/ PrintError
  \/ OtherStep

Next == ReadEvent \/ Quit \/ NoMoreEvents \/ PassInputs \/ StepProject \/ Draw

\* The user does not type for ever without a pause, and the scheduler gives
\* every process its turn.
Fairness ==
  /\ WF_vars(NoMoreEvents)
  /\ WF_vars(PassInputs)
  /\ WF_vars(StepProject)
  /\ WF_vars(Draw)
  /\ \A p \in Proc : SF_vars(Poll(p))

Spec == Init /\ [][Next]_vars
FairSpec == Spec /\ Fairness
-----------------------------------------------------------------------------
\* What is on the screen is the oldest question with what has been typed, or
\* an update is due, or the message of a runtime error was printed over it:
\* no change of the queue or the text goes by without a redraw.
ScreenIsCurrent == update_flag \/ scrolled \/ screen = Prompt

\* An answer is made of what was typed while its question was the oldest one,
\* that is, of nothing that was typed for a question before it or as a key for
\* the project; and there is text only while there are questions.
TextAnswersItsQuestion ==
  /\ \A q \in Asked : Range(answers[q].text) \subseteq {q}
  /\ InInputMode => Range(input_value) \subseteq {Head(input_queries)}
  /\ ~ InInputMode => input_value = <<>>

\* A process that waits has its question in the queue, unanswered, or its
\* answer has been given and not been consumed; no two wait for the same one.
\* So its poll cannot find the key consumed, and no answer can be lost.
WaitersAreAsking ==
  \A p \in Proc : defer[p] # 0 =>
    /\ \/ answers[defer[p]].state = "Pending" /\ defer[p] \in Range(input_queries)
       \/ answers[defer[p]].state = "Completed"
    /\ \A r \in Proc \ {p} : defer[r] # defer[p]

\* A process whose question has been answered goes on, or is stopped.
AnswersAreHeard ==
  \A p \in Proc, q \in Question :
    defer[p] = q /\ answers[q].state = "Completed"
      ~> defer[p] # q \/ pc = "ended"
=============================================================================
