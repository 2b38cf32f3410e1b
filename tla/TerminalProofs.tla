--------------------------- MODULE TerminalProofs ---------------------------
(***************************************************************************)
(* Proofs about module Terminal, for any number of processes, questions,   *)
(* characters and inputs: whoever waits can be answered, an answer is what *)
(* was typed for its question, and the prompt shown is the current one.    *)
(***************************************************************************)
EXTENDS Terminal, SequenceTheorems, TLAPS

Answer == [state : {"Pending", "Completed", "Consumed"}, text : Seq(Nat)]

Types ==
  /\ input_queries \in Seq(Nat)
  /\ input_value \in Seq(Nat)
  /\ answers \in Seq(Answer)
  /\ defer \in [Proc -> Nat]

\* The questions in the queue are the pending ones, each of them once.
Queued ==
  /\ \A k \in 1 .. Len(input_queries) :
       /\ input_queries[k] \in 1 .. Len(answers)
       /\ answers[input_queries[k]].state = "Pending"
  /\ \A j, k \in 1 .. Len(input_queries) :
       input_queries[j] = input_queries[k] => j = k
  /\ \A q \in 1 .. Len(answers) : answers[q].state = "Pending" =>
       \E k \in 1 .. Len(input_queries) : input_queries[k] = q

\* Each process waits for a question of its own, whose answer it has not had.
Waiting ==
  /\ \A p \in Proc : defer[p] # 0 =>
       /\ defer[p] \in 1 .. Len(answers)
       /\ answers[defer[p]].state # "Consumed"
  /\ \A p, r \in Proc : defer[p] # 0 /\ defer[p] = defer[r] => p = r

\* Every character was typed while its question was the first.
Typed ==
  /\ \A q \in 1 .. Len(answers) :
       \A i \in 1 .. Len(answers[q].text) : answers[q].text[i] = q
  /\ \A i \in 1 .. Len(input_value) :
       input_queries # <<>> /\ input_value[i] = Head(input_queries)

IInv == Types /\ Queued /\ Waiting /\ Typed /\ ScreenIsCurrent
-----------------------------------------------------------------------------
LEMMA InitIInv == Init => IInv
<1> SUFFICES ASSUME Init PROVE IInv
  OBVIOUS
<1>1. Types
  BY EmptySeq DEF Init, Types
<1>2. Queued /\ Waiting /\ Typed
  BY DEF Init, Queued, Waiting, Typed
<1>3. ScreenIsCurrent
  BY DEF Init, ScreenIsCurrent, Prompt, InInputMode
<1> QED
  BY <1>1, <1>2, <1>3 DEF IInv

LEMMA HeadOfQueue ==
  ASSUME Types, input_queries # <<>>
  PROVE  /\ Len(input_queries) \in Nat \ {0}
         /\ Head(input_queries) = input_queries[1]
         /\ Head(input_queries) \in Nat
         /\ Tail(input_queries) \in Seq(Nat)
         /\ Len(Tail(input_queries)) = Len(input_queries) - 1
         /\ \A k \in 1 .. Len(input_queries) - 1 :
              Tail(input_queries)[k] = input_queries[k + 1]
BY HeadTailProperties, EmptySeq DEF Types

LEMMA AnswerType ==
  ASSUME Types, NEW q \in 1 .. Len(answers)
  PROVE  /\ answers[q].state \in {"Pending", "Completed", "Consumed"}
         /\ answers[q].text \in Seq(Nat)
<1>1. answers[q] \in Answer
  BY ElementOfSeq DEF Types
<1> QED
  BY <1>1 DEF Answer

\* What leaves questions, answers and text alone.
LEMMA NothingChanged ==
  ASSUME IInv, UNCHANGED <<input_queries, input_value, answers>>,
         defer' \in [Proc -> Nat],
         \A p \in Proc : defer'[p] \in {0, defer[p]},
         ScreenIsCurrent'
  PROVE  IInv'
<1>1. Types' /\ Queued' /\ Typed'
  BY DEF IInv, Types, Queued, Typed
<1>2. Waiting'
  BY DEF IInv, Waiting
<1> QED
  BY <1>1, <1>2 DEF IInv

LEMMA SamePrompt ==
  ASSUME ScreenIsCurrent, UNCHANGED <<input_queries, input_value, screen>>,
         update_flag \/ scrolled => update_flag' \/ scrolled'
  PROVE  ScreenIsCurrent'
BY DEF ScreenIsCurrent, Prompt, InInputMode

LEMMA PushKept ==
  ASSUME IInv, NEW input, PushInput(input), UNCHANGED <<answers, defer, pc, steps, view>>
  PROVE  IInv'
<1>1. ScreenIsCurrent'
  BY SamePrompt DEF PushInput, view, IInv
<1> QED
  BY <1>1, NothingChanged DEF PushInput, IInv, Types

LEMMA ResizeKept ==
  ASSUME IInv, Resize, UNCHANGED <<answers, defer, pc, steps, view>>
  PROVE  IInv'
<1>1. ScreenIsCurrent'
  BY DEF Resize, ScreenIsCurrent
<1> QED
  BY <1>1, NothingChanged DEF Resize, io, IInv, Types

\* A character more or less of the text for the first question.
LEMMA TextKept ==
  ASSUME IInv, UNCHANGED <<input_queries, answers, defer>>, update_flag',
         input_value' \in Seq(Nat),
         \A i \in 1 .. Len(input_value') :
           input_queries # <<>> /\ input_value'[i] = Head(input_queries)
  PROVE  IInv'
BY DEF IInv, Types, Queued, Waiting, Typed, ScreenIsCurrent

LEMMA CharKept ==
  ASSUME IInv, PressChar, UNCHANGED <<answers, defer, pc, steps, view>>
  PROVE  IInv'
<1>1. CASE ~ InInputMode /\ PushInput("KeyDown")
  BY <1>1, PushKept
<1>2. CASE /\ InInputMode
           /\ input_value' = Append(input_value, Head(input_queries))
           /\ update_flag'
           /\ UNCHANGED <<input_queries, input_sequence>>
  <2>1. input_queries # <<>> /\ Head(input_queries) \in Nat
    BY <1>2, HeadOfQueue DEF InInputMode, IInv
  <2>2. input_value' \in Seq(Nat) /\ Len(input_value') = Len(input_value) + 1
    BY <1>2, <2>1, AppendProperties DEF IInv, Types
  <2>3. \A i \in 1 .. Len(input_value') : input_value'[i] = Head(input_queries)
    BY <1>2, <2>1, <2>2, AppendProperties DEF IInv, Types, Typed
  <2> QED
    BY <1>2, <2>1, <2>2, <2>3, TextKept
<1> QED
  BY <1>1, <1>2 DEF PressChar

LEMMA BackspaceKept ==
  ASSUME IInv, PressBackspace, UNCHANGED <<answers, defer, pc, steps, view>>
  PROVE  IInv'
<1>1. input_value \in Seq(Nat) /\ Len(input_value) \in Nat \ {0}
  BY EmptySeq DEF PressBackspace, IInv, Types
<1>2. input_value' = SubSeq(input_value, 1, Len(input_value) - 1)
  BY DEF PressBackspace, Front
<1>3. /\ input_value' \in Seq(Nat) /\ Len(input_value') = Len(input_value) - 1
      /\ \A i \in 1 .. Len(input_value) - 1 : input_value'[i] = input_value[i]
  <2> DEFINE n == Len(input_value) - 1
  <2>1. n \in Nat /\ n <= Len(input_value)
    BY <1>1
  <2> HIDE DEF n
  <2>2. /\ SubSeq(input_value, 1, n) \in Seq(Nat)
        /\ Len(SubSeq(input_value, 1, n)) = n
        /\ \A i \in 1 .. n : SubSeq(input_value, 1, n)[i] = input_value[i]
    BY <1>1, <2>1
  <2> QED
    BY <1>2, <2>2 DEF n
<1>4. \A i \in 1 .. Len(input_value') :
        input_queries # <<>> /\ input_value'[i] = Head(input_queries)
  BY <1>1, <1>3 DEF IInv, Typed
<1> QED
  BY <1>3, <1>4, TextKept DEF PressBackspace

LEMMA EnterKept ==
  ASSUME IInv, PressEnter
  PROVE  IInv'
<1> DEFINE q == Head(input_queries)
           done == [state |-> "Completed", text |-> input_value]
<1>1. /\ Len(input_queries) \in Nat \ {0}
      /\ q = input_queries[1] /\ q \in Nat
      /\ input_queries' = Tail(input_queries) /\ input_queries' \in Seq(Nat)
      /\ Len(input_queries') = Len(input_queries) - 1
      /\ \A k \in 1 .. Len(input_queries) - 1 : input_queries'[k] = input_queries[k + 1]
  BY HeadOfQueue DEF PressEnter, InInputMode, IInv
<1>2. q \in 1 .. Len(answers) /\ answers \in Seq(Answer) /\ done \in Answer
  BY <1>1 DEF IInv, Types, Queued, Answer
<1>3. answers' = [answers EXCEPT ![q] = done]
  BY DEF PressEnter
<1> HIDE DEF q, done
<1>4. /\ answers' \in Seq(Answer) /\ Len(answers') = Len(answers)
      /\ answers'[q] = done
      /\ \A r \in 1 .. Len(answers) : r # q => answers'[r] = answers[r]
  BY <1>2, <1>3, ExceptSeq
<1>5. done.state = "Completed" /\ done.text = input_value
  BY DEF done
<1>6. input_value' = <<>> /\ update_flag' /\ defer' = defer
  BY DEF PressEnter
<1>7. Types'
  BY <1>1, <1>4, <1>6, EmptySeq DEF IInv, Types
<1>8. Queued'
  <2>1. \A k \in 1 .. Len(input_queries') : input_queries[k + 1] # q
    BY <1>1 DEF IInv, Queued
  <2>2. \A k \in 1 .. Len(input_queries') :
          /\ input_queries'[k] \in 1 .. Len(answers')
          /\ answers'[input_queries'[k]].state = "Pending"
    BY <1>1, <1>4, <2>1 DEF IInv, Queued
  <2>3. \A j, k \in 1 .. Len(input_queries') : input_queries'[j] = input_queries'[k] => j = k
    <3> SUFFICES ASSUME NEW j \in 1 .. Len(input_queries'),
                        NEW k \in 1 .. Len(input_queries'),
                        input_queries'[j] = input_queries'[k]
                 PROVE  j = k
      OBVIOUS
    <3>1. j + 1 \in 1 .. Len(input_queries) /\ k + 1 \in 1 .. Len(input_queries)
      BY <1>1
    <3>2. input_queries[j + 1] = input_queries[k + 1]
      BY <1>1
    <3>3. j + 1 = k + 1
      BY <3>1, <3>2 DEF IInv, Queued
    <3> QED
      BY <3>3
  <2>4. ASSUME NEW r \in 1 .. Len(answers'), answers'[r].state = "Pending"
        PROVE  \E k \in 1 .. Len(input_queries') : input_queries'[k] = r
    <3>1. r # q /\ answers[r].state = "Pending" /\ r \in 1 .. Len(answers)
      BY <1>4, <1>5, <2>4
    <3>2. PICK k \in 1 .. Len(input_queries) : input_queries[k] = r
      BY <3>1 DEF IInv, Queued
    <3>3. k # 1
      BY <1>1, <3>1, <3>2
    <3>4. k - 1 \in 1 .. Len(input_queries') /\ input_queries'[k - 1] = r
      BY <1>1, <3>2, <3>3
    <3> QED
      BY <3>4
  <2> QED
    BY <2>2, <2>3, <2>4 DEF Queued
<1>9. Waiting'
  BY <1>4, <1>5, <1>6 DEF IInv, Waiting
<1>10. Typed'
  <2>1. \A i \in 1 .. Len(input_value) : input_value[i] = q
    BY DEF IInv, Typed, q
  <2>2. \A r \in 1 .. Len(answers') :
          \A i \in 1 .. Len(answers'[r].text) : answers'[r].text[i] = r
    BY <1>4, <1>5, <2>1 DEF IInv, Typed
  <2>3. 1 .. Len(input_value') = {}
    BY <1>6
  <2> QED
    BY <2>2, <2>3 DEF Typed
<1> QED
  BY <1>6, <1>7, <1>8, <1>9, <1>10 DEF IInv, ScreenIsCurrent
-----------------------------------------------------------------------------
LEMMA AskKept ==
  ASSUME IInv, NEW p \in Proc, Ask(p)
  PROVE  IInv'
<1> DEFINE q == Len(answers) + 1
           new == [state |-> "Pending", text |-> <<>>]
<1>1. /\ answers' = Append(answers, new)
      /\ input_queries' = Append(input_queries, q)
      /\ defer' = [defer EXCEPT ![p] = q]
      /\ update_flag' /\ input_value' = input_value
  BY DEF Ask, Stepped
<1>2. q \in Nat \ {0} /\ new \in Answer /\ q = Len(answers) + 1
  BY EmptySeq, LenProperties DEF IInv, Types, Answer
<1>3. new.state = "Pending" /\ new.text = <<>> /\ Len(new.text) = 0
  OBVIOUS
<1> HIDE DEF q, new
<1>4. /\ answers' \in Seq(Answer) /\ Len(answers') = q /\ answers'[q] = new
      /\ \A r \in 1 .. Len(answers) : answers'[r] = answers[r]
  BY <1>1, <1>2, AppendProperties DEF IInv, Types
<1>5. /\ input_queries' \in Seq(Nat)
      /\ Len(input_queries) \in Nat
      /\ Len(input_queries') = Len(input_queries) + 1
      /\ input_queries'[Len(input_queries) + 1] = q
      /\ \A k \in 1 .. Len(input_queries) : input_queries'[k] = input_queries[k]
  BY <1>1, <1>2, AppendProperties, LenProperties DEF IInv, Types
<1>6. Len(answers) \in Nat
  BY LenProperties DEF IInv, Types
<1>7. Types'
  BY <1>1, <1>2, <1>4, <1>5 DEF IInv, Types
<1>8. Queued'
  <2>1. \A k \in 1 .. Len(input_queries) :
          input_queries[k] \in 1 .. Len(answers) /\ input_queries[k] # q
    BY <1>2, <1>6 DEF IInv, Queued
  <2>2. \A k \in 1 .. Len(input_queries') :
          /\ input_queries'[k] \in 1 .. Len(answers')
          /\ answers'[input_queries'[k]].state = "Pending"
    <3> SUFFICES ASSUME NEW k \in 1 .. Len(input_queries')
                 PROVE  /\ input_queries'[k] \in 1 .. Len(answers')
                        /\ answers'[input_queries'[k]].state = "Pending"
      OBVIOUS
    <3>1. CASE k = Len(input_queries) + 1
      BY <1>2, <1>3, <1>4, <1>5, <3>1
    <3>2. CASE k \in 1 .. Len(input_queries)
      BY <1>2, <1>4, <1>5, <1>6, <2>1, <3>2 DEF IInv, Queued
    <3> QED
      BY <1>5, <3>1, <3>2
  <2>3. \A j, k \in 1 .. Len(input_queries') : input_queries'[j] = input_queries'[k] => j = k
    <3> SUFFICES ASSUME NEW j \in 1 .. Len(input_queries'),
                        NEW k \in 1 .. Len(input_queries'),
                        input_queries'[j] = input_queries'[k]
                 PROVE  j = k
      OBVIOUS
    <3>1. /\ j \in 1 .. Len(input_queries) \/ j = Len(input_queries) + 1
          /\ k \in 1 .. Len(input_queries) \/ k = Len(input_queries) + 1
      BY <1>5
    <3>2. CASE j \in 1 .. Len(input_queries) /\ k \in 1 .. Len(input_queries)
      BY <1>5, <3>2 DEF IInv, Queued
    <3>3. CASE j = Len(input_queries) + 1 /\ k \in 1 .. Len(input_queries)
      BY <1>5, <2>1, <3>3
    <3>4. CASE j \in 1 .. Len(input_queries) /\ k = Len(input_queries) + 1
      BY <1>5, <2>1, <3>4
    <3> QED
      BY <3>1, <3>2, <3>3, <3>4
  <2>4. ASSUME NEW r \in 1 .. Len(answers'), answers'[r].state = "Pending"
        PROVE  \E k \in 1 .. Len(input_queries') : input_queries'[k] = r
    <3>1. CASE r = q
      BY <1>5, <3>1
    <3>2. CASE r \in 1 .. Len(answers)
      <4>1. PICK k \in 1 .. Len(input_queries) : input_queries[k] = r
        BY <1>4, <2>4, <3>2 DEF IInv, Queued
      <4> QED
        BY <1>5, <4>1
    <3> QED
      BY <1>2, <1>4, <1>6, <3>1, <3>2
  <2> QED
    BY <2>2, <2>3, <2>4 DEF Queued
<1>9. Waiting'
  <2>1. defer'[p] = q /\ \A r \in Proc \ {p} : defer'[r] = defer[r]
    BY <1>1 DEF IInv, Types
  <2>2. \A r \in Proc : defer[r] # 0 => defer[r] \in 1 .. Len(answers) /\ defer[r] # q
    BY <1>2, <1>6 DEF IInv, Waiting
  <2>3. q \in 1 .. Len(answers') /\ answers'[q].state # "Consumed"
    BY <1>2, <1>3, <1>4
  <2>4. \A r \in Proc \ {p} : defer'[r] # 0 =>
          defer'[r] \in 1 .. Len(answers') /\ answers'[defer'[r]].state # "Consumed"
    BY <1>2, <1>4, <1>6, <2>1, <2>2 DEF IInv, Waiting
  <2>5. \A x, r \in Proc : defer'[x] # 0 /\ defer'[x] = defer'[r] => x = r
    BY <1>2, <2>1, <2>2 DEF IInv, Waiting
  <2> QED
    BY <2>1, <2>3, <2>4, <2>5 DEF Waiting
<1>10. Typed'
  <2>1. \A r \in 1 .. Len(answers') :
          \A i \in 1 .. Len(answers'[r].text) : answers'[r].text[i] = r
    <3> SUFFICES ASSUME NEW r \in 1 .. Len(answers')
                 PROVE  \A i \in 1 .. Len(answers'[r].text) : answers'[r].text[i] = r
      OBVIOUS
    <3>1. CASE r = q
      BY <1>3, <1>4, <3>1
    <3>2. CASE r \in 1 .. Len(answers)
      BY <1>4, <3>2 DEF IInv, Typed
    <3> QED
      BY <1>2, <1>4, <1>6, <3>1, <3>2
  <2>2. ASSUME NEW i \in 1 .. Len(input_value')
        PROVE  input_queries' # <<>> /\ input_value'[i] = Head(input_queries')
    <3>1. input_queries # <<>> /\ input_value'[i] = Head(input_queries)
      BY <1>1, <2>2 DEF IInv, Typed
    <3>2. input_queries' # <<>> /\ Head(input_queries') = Head(input_queries)
      <4>1. Len(input_queries) \in Nat \ {0} /\ Head(input_queries) = input_queries[1]
        BY <3>1, HeadOfQueue DEF IInv
      <4>2. input_queries'[1] = input_queries[1] /\ input_queries' # <<>>
        BY <1>5, <4>1
      <4>3. Head(input_queries') = input_queries'[1]
        BY <1>5, <4>2
      <4> QED
        BY <4>1, <4>2, <4>3
    <3> QED
      BY <3>1, <3>2
  <2> QED
    BY <2>1, <2>2 DEF Typed
<1> QED
  BY <1>1, <1>7, <1>8, <1>9, <1>10 DEF IInv, ScreenIsCurrent

LEMMA PollKept ==
  ASSUME IInv, NEW p \in Proc, Poll(p)
  PROVE  IInv'
<1> DEFINE q == defer[p]
<1>1. UNCHANGED <<input_queries, input_value, update_flag, view>>
  BY DEF Poll, Stepped, view
<1>2. ScreenIsCurrent'
  BY <1>1, SamePrompt DEF view, IInv
<1>3. CASE answers[q].state # "Completed"
  BY <1>1, <1>2, <1>3, NothingChanged DEF Poll, IInv, Types
<1>4. CASE answers[q].state = "Completed"
  <2>1. q \in 1 .. Len(answers) /\ answers \in Seq(Answer) /\ answers[q] \in Answer
    BY ElementOfSeq DEF Poll, IInv, Types, Waiting
  <2>2. /\ answers' = [answers EXCEPT ![q] = [answers[q] EXCEPT !.state = "Consumed"]]
        /\ defer' = [defer EXCEPT ![p] = 0]
    BY <1>4 DEF Poll
  <2>3. /\ [answers[q] EXCEPT !.state = "Consumed"] \in Answer
        /\ [answers[q] EXCEPT !.state = "Consumed"].state = "Consumed"
        /\ [answers[q] EXCEPT !.state = "Consumed"].text = answers[q].text
    BY <2>1 DEF Answer
  <2> HIDE DEF q
  <2>4. /\ answers' \in Seq(Answer) /\ Len(answers') = Len(answers)
        /\ answers'[q].state = "Consumed" /\ answers'[q].text = answers[q].text
        /\ \A r \in 1 .. Len(answers) : r # q => answers'[r] = answers[r]
    BY <2>1, <2>2, <2>3, ExceptSeq
  <2>5. defer'[p] = 0 /\ \A r \in Proc \ {p} : defer'[r] = defer[r]
    BY <2>2 DEF IInv, Types
  <2>6. Types'
    BY <1>1, <2>2, <2>4 DEF IInv, Types
  <2>7. Queued'
    BY <1>1, <1>4, <2>4 DEF IInv, Queued
  <2>8. Waiting'
    <3>1. \A r \in Proc \ {p} : defer[r] # 0 => defer[r] # q
      BY DEF Poll, IInv, Waiting, q
    <3>2. \A r \in Proc \ {p} : defer'[r] # 0 =>
            defer'[r] \in 1 .. Len(answers') /\ answers'[defer'[r]].state # "Consumed"
      BY <2>4, <2>5, <3>1 DEF IInv, Waiting
    <3>3. \A x, r \in Proc : defer'[x] # 0 /\ defer'[x] = defer'[r] => x = r
      BY <2>5 DEF IInv, Waiting
    <3> QED
      BY <2>5, <3>2, <3>3 DEF Waiting
  <2>9. Typed'
    <3>1. \A r \in 1 .. Len(answers') : answers'[r].text = answers[r].text
      BY <2>4
    <3> QED
      BY <1>1, <2>4, <3>1 DEF IInv, Typed
  <2> QED
    BY <1>2, <2>6, <2>7, <2>8, <2>9 DEF IInv
<1> QED
  BY <1>3, <1>4

LEMMA StepKept ==
  ASSUME IInv, StepProject
  PROVE  IInv'
<1>1. CASE \E p \in Proc : Abandon(p)
  <2>1. PICK p \in Proc : Abandon(p)
    BY <1>1
  <2>2. ScreenIsCurrent'
    BY <2>1, SamePrompt DEF Abandon, Stepped, IInv
  <2>3. defer' \in [Proc -> Nat] /\ \A r \in Proc : defer'[r] \in {0, defer[r]}
    BY <2>1 DEF Abandon, IInv, Types
  <2> QED
    BY <2>1, <2>2, <2>3, NothingChanged DEF Abandon, Stepped
<1>2. CASE PrintValue \/ PrintError \/ OtherStep
  <2>1. UNCHANGED <<input_queries, input_value, answers, defer, screen>>
    BY <1>2 DEF PrintValue, PrintError, OtherStep, Stepped
  <2>2. ScreenIsCurrent'
    BY <1>2, <2>1, SamePrompt DEF PrintValue, PrintError, OtherStep, IInv
  <2> QED
    BY <2>1, <2>2, NothingChanged DEF IInv, Types
<1> QED
  BY <1>1, <1>2, AskKept, PollKept DEF StepProject

LEMMA NextIInv == IInv /\ [Next]_vars => IInv'
<1> SUFFICES ASSUME IInv, [Next]_vars PROVE IInv'
  OBVIOUS
<1>1. CASE ReadEvent
  BY <1>1, PushKept, CharKept, BackspaceKept, ResizeKept, EnterKept
  DEF ReadEvent, PressEsc, PressArrow
<1>2. CASE Quit \/ NoMoreEvents
  <2>1. UNCHANGED <<io, update_flag, answers, defer, view>>
    BY <1>2 DEF Quit, NoMoreEvents
  <2>2. ScreenIsCurrent'
    BY <2>1, SamePrompt DEF io, view, IInv
  <2> QED
    BY <2>1, <2>2, NothingChanged DEF io, IInv, Types
<1>3. CASE PassInputs
  <2>1. UNCHANGED <<input_queries, input_value, update_flag, answers, view>>
    BY <1>3 DEF PassInputs
  <2>2. PICK restarted \in SUBSET Proc :
          defer' = [p \in Proc |-> IF p \in restarted THEN 0 ELSE defer[p]]
    BY <1>3 DEF PassInputs
  <2>3. defer' \in [Proc -> Nat] /\ \A p \in Proc : defer'[p] \in {0, defer[p]}
    BY <2>2 DEF IInv, Types
  <2>4. ScreenIsCurrent'
    BY <2>1, SamePrompt DEF view, IInv
  <2> QED
    BY <2>1, <2>3, <2>4, NothingChanged
<1>4. CASE StepProject
  BY <1>4, StepKept
<1>5. CASE Draw
  <2>1. UNCHANGED <<input_queries, input_value, answers, defer>>
    BY <1>5 DEF Draw, io
  <2>2. ScreenIsCurrent'
    BY <1>5, <2>1 DEF Draw, view, IInv, ScreenIsCurrent, Prompt, InInputMode
  <2> QED
    BY <2>1, <2>2, NothingChanged DEF IInv, Types
<1>6. CASE UNCHANGED vars
  <2>1. UNCHANGED <<io, update_flag, answers, defer, view>>
    BY <1>6 DEF vars
  <2>2. ScreenIsCurrent'
    BY <2>1, SamePrompt DEF io, view, IInv
  <2> QED
    BY <2>1, <2>2, NothingChanged DEF io, IInv, Types
<1> QED
  BY <1>1, <1>2, <1>3, <1>4, <1>5, <1>6 DEF Next
-----------------------------------------------------------------------------
\* The invariant of the questions, the answers and the prompt.
THEOREM TerminalInvariant == Spec => []IInv
BY InitIInv, NextIInv, PTL DEF Spec

\* Every process that waits for an answer has its question in the queue, or
\* its answer ready (cli.rs, input_queries): it cannot be forgotten.
THEOREM WaitersTheorem == Spec => []WaitersAreAsking
<1>1. ASSUME IInv PROVE WaitersAreAsking
  <2> SUFFICES ASSUME NEW p \in Proc, defer[p] # 0
               PROVE  /\ \/ /\ answers[defer[p]].state = "Pending"
                            /\ defer[p] \in Range(input_queries)
                         \/ answers[defer[p]].state = "Completed"
                      /\ \A r \in Proc \ {p} : defer[r] # defer[p]
    BY DEF WaitersAreAsking
  <2>1. defer[p] \in 1 .. Len(answers) /\ answers[defer[p]].state # "Consumed"
    BY <1>1 DEF IInv, Waiting
  <2>2. answers[defer[p]].state \in {"Pending", "Completed", "Consumed"}
    BY <1>1, <2>1, AnswerType DEF IInv
  <2>3. ASSUME answers[defer[p]].state = "Pending"
        PROVE  defer[p] \in Range(input_queries)
    <3>1. PICK k \in 1 .. Len(input_queries) : input_queries[k] = defer[p]
      BY <1>1, <2>1, <2>3 DEF IInv, Queued
    <3>2. k \in DOMAIN input_queries
      BY <1>1, LenProperties DEF IInv, Types
    <3> QED
      BY <3>1, <3>2 DEF Range
  <2>4. \A r \in Proc \ {p} : defer[r] # defer[p]
    BY <1>1 DEF IInv, Waiting
  <2> QED
    BY <2>1, <2>2, <2>3, <2>4
<1> QED
  BY <1>1, TerminalInvariant, PTL

\* What is typed becomes the answer to the question it was typed for.
THEOREM TextTheorem == Spec => []TextAnswersItsQuestion
<1>1. ASSUME IInv PROVE TextAnswersItsQuestion
  <2>1. \A q \in Asked : Range(answers[q].text) \subseteq {q}
    <3> SUFFICES ASSUME NEW q \in Asked PROVE Range(answers[q].text) \subseteq {q}
      OBVIOUS
    <3>1. q \in 1 .. Len(answers)
      BY <1>1, LenProperties DEF IInv, Types, Asked
    <3>2. answers[q].text \in Seq(Nat)
      BY <1>1, <3>1, AnswerType DEF IInv
    <3>3. \A i \in DOMAIN answers[q].text : answers[q].text[i] = q
      BY <1>1, <3>1, <3>2, LenProperties DEF IInv, Typed
    <3> QED
      BY <3>3 DEF Range
  <2>2. \A i \in DOMAIN input_value :
          input_queries # <<>> /\ input_value[i] = Head(input_queries)
    BY <1>1, LenProperties DEF IInv, Types, Typed
  <2>3. InInputMode => Range(input_value) \subseteq {Head(input_queries)}
    BY <2>2 DEF Range
  <2>4. ~ InInputMode => input_value = <<>>
    <3>1. input_value # <<>> => 1 \in DOMAIN input_value
      BY <1>1, EmptySeq, LenProperties DEF IInv, Types
    <3> QED
      BY <2>2, <3>1 DEF InInputMode
  <2> QED
    BY <2>1, <2>3, <2>4 DEF TextAnswersItsQuestion
<1> QED
  BY <1>1, TerminalInvariant, PTL

\* No change of the queue or of the text goes by without a redraw.
THEOREM ScreenTheorem == Spec => []ScreenIsCurrent
<1>1. IInv => ScreenIsCurrent
  BY DEF IInv
<1> QED
  BY <1>1, TerminalInvariant, PTL
=============================================================================
