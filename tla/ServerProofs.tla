---------------------------- MODULE ServerProofs ----------------------------
(***************************************************************************)
(* Proofs about module Server, for any files, any number of commands and   *)
(* reports and batches of any size: what an editor pulls, which project    *)
(* runs, and that a pause holds.                                           *)
(***************************************************************************)
EXTENDS Server, SequenceTheorems, TLAPS

Types ==
  /\ sent \in Seq(Command)
  /\ handled \in Nat /\ handled <= Len(sent)
  /\ output \in Seq(Nat) /\ errors \in Seq(Nat)
  /\ seen \in [lines : Seq(Nat), errors : Seq(Nat)]
  /\ reported \in [lines : Nat, errors : Nat]
  /\ env \in [content : Loadable, busy : BOOLEAN]

\* What is left of what an arm of the loop does to the shared state.
TodoForms ==
  {<<>>, <<"line">>, <<"error">>, <<"line", "line">>, <<"error", "line">>,
   <<"line", "error">>, <<"line", "project">>, <<"project">>,
   <<"resume">>, <<"pause">>}

\* The editor is given the project that runs, or the store is still to come.
Shown ==
  serving /\ todo \notin {<<"line", "project">>, <<"project">>}
    => current_proj = env.content

\* A project that has paused itself is out of its batch, and the flag is down
\* or about to be.
Held == serving /\ halted => pc # "step" /\ (todo = <<"pause">> \/ ~ running)
-----------------------------------------------------------------------------
(* Sequences.                                                              *)

LEMMA UpToType ==
  ASSUME NEW n \in Nat
  PROVE  UpTo(n) \in Seq(Nat) /\ Len(UpTo(n)) = n
BY DEF UpTo

LEMMA UpToNext ==
  ASSUME NEW n \in Nat
  PROVE  Append(UpTo(n), n + 1) = UpTo(n + 1)
<1>1. UpTo(n) \in Seq(Nat) /\ Len(UpTo(n)) = n /\ UpTo(n + 1) \in Seq(Nat)
      /\ Len(UpTo(n + 1)) = n + 1
  BY UpToType
<1>2. Append(UpTo(n), n + 1) \in Seq(Nat) /\ Len(Append(UpTo(n), n + 1)) = n + 1
  BY <1>1, AppendProperties
<1>3. ASSUME NEW i \in 1 .. n + 1
      PROVE  Append(UpTo(n), n + 1)[i] = UpTo(n + 1)[i]
  <2>1. CASE i = n + 1
    BY <1>1, <2>1 DEF UpTo
  <2>2. CASE i \in 1 .. n
    BY <1>1, <2>2 DEF UpTo
  <2>3. i = n + 1 \/ i \in 1 .. n
    OBVIOUS
  <2> QED
    BY <2>1, <2>2, <2>3
<1> QED
  BY <1>1, <1>2, <1>3, SeqEqual

LEMMA ConcatAppend ==
  ASSUME NEW s \in Seq(Nat), NEW t \in Seq(Nat), NEW e \in Nat
  PROVE  s \o Append(t, e) = Append(s \o t, e)
<1>1. Append(t, e) = t \o <<e>> /\ Append(s \o t, e) = (s \o t) \o <<e>>
  BY AppendIsConcat, ConcatProperties
<1> QED
  BY <1>1, ConcatAssociative, <<e>> \in Seq(Nat)

\* One more report keeps the buffer and what was pulled complete.
LEMMA ReportKept ==
  ASSUME NEW s \in Seq(Nat), NEW t \in Seq(Nat), NEW n \in Nat,
         s \o t = UpTo(n)
  PROVE  s \o Append(t, n + 1) = UpTo(n + 1)
<1>1. n + 1 \in Nat
  OBVIOUS
<1> DEFINE e == n + 1
<1>2. e \in Nat
  BY <1>1
<1> HIDE DEF e
<1>3. s \o Append(t, e) = Append(s \o t, e)
  BY <1>2, ConcatAppend
<1>4. s \o Append(t, e) = Append(UpTo(n), e)
  BY <1>3
<1> QED
  BY <1>4, UpToNext DEF e

LEMMA PullKept ==
  ASSUME NEW s \in Seq(Nat), NEW t \in Seq(Nat)
  PROVE  (s \o t) \o <<>> = s \o t /\ s \o t \in Seq(Nat)
BY ConcatProperties, ConcatEmptySeq

LEMMA NextCommand ==
  ASSUME Types, Pending # <<>>
  PROVE  handled + 1 \in 1 .. Len(sent) /\ Head(Pending) = sent[handled + 1]
<1>1. handled + 1 <= Len(sent)
  BY DEF Types, Pending
<1> QED
  BY <1>1 DEF Types, Pending
-----------------------------------------------------------------------------
(* The last command that loads a project.                                  *)

GoodAmong(s, n) ==
  {i \in 1 .. n : s[i].type = "SetProject" /\ s[i].content \in Loadable}

LastOf(good) == CHOOSE i \in good : \A j \in good : j <= i

LastGoodOf(s, n) ==
  IF GoodAmong(s, n) = {} THEN EmptyProject
  ELSE s[LastOf(GoodAmong(s, n))].content

LEMMA LastGoodIs == \A n : LastGood(n) = LastGoodOf(sent, n)
BY Zenon DEF LastGood, LastGoodOf, GoodAmong, LastOf


\* Of the commands taken, none loads a project or one of them is the last to.
HasLast(s, n) ==
  GoodAmong(s, n) = {} \/ \E m \in GoodAmong(s, n) : \A j \in GoodAmong(s, n) : j <= m

\* The commands sent later do not matter.
LEMMA LastGoodStays ==
  ASSUME NEW s \in Seq(Command), NEW c \in Command, NEW n \in Nat, n <= Len(s),
         HasLast(s, n)
  PROVE  LastGoodOf(Append(s, c), n) = LastGoodOf(s, n) /\ HasLast(Append(s, c), n)
<1>1. \A i \in 1 .. n : Append(s, c)[i] = s[i]
  OBVIOUS
<1>2. GoodAmong(Append(s, c), n) = GoodAmong(s, n)
  BY <1>1 DEF GoodAmong
<1>3. HasLast(Append(s, c), n)
  BY <1>2 DEF HasLast
<1>4. CASE GoodAmong(s, n) = {}
  BY <1>2, <1>3, <1>4 DEF LastGoodOf
<1>5. CASE GoodAmong(s, n) # {}
  <2>1. LastOf(GoodAmong(s, n)) \in GoodAmong(s, n)
    BY <1>5 DEF HasLast, LastOf
  <2>2. LastOf(GoodAmong(s, n)) \in 1 .. n
    BY <2>1 DEF GoodAmong
  <2> QED
    BY <1>1, <1>2, <1>3, <1>5, <2>2 DEF LastGoodOf
<1> QED
  BY <1>4, <1>5

\* A command that loads a project is the last to do so when it is taken ...
LEMMA GoodTaken ==
  ASSUME NEW s, NEW n \in Nat,
         s[n + 1].type = "SetProject", s[n + 1].content \in Loadable
  PROVE  LastGoodOf(s, n + 1) = s[n + 1].content /\ HasLast(s, n + 1)
<1>1. n + 1 \in GoodAmong(s, n + 1) /\ \A j \in GoodAmong(s, n + 1) : j <= n + 1
  BY DEF GoodAmong
<1>2. GoodAmong(s, n + 1) \subseteq Nat
  BY DEF GoodAmong
<1>3. ASSUME NEW i \in GoodAmong(s, n + 1), \A j \in GoodAmong(s, n + 1) : j <= i
      PROVE  i = n + 1
  BY <1>1, <1>2, <1>3
<1>4. LastOf(GoodAmong(s, n + 1)) = n + 1
  BY <1>1, <1>3 DEF LastOf
<1> QED
  BY <1>1, <1>4 DEF LastGoodOf, HasLast

\* ... and any other one changes nothing.
LEMMA OtherTaken ==
  ASSUME NEW s, NEW n \in Nat, HasLast(s, n),
         ~ (s[n + 1].type = "SetProject" /\ s[n + 1].content \in Loadable)
  PROVE  LastGoodOf(s, n + 1) = LastGoodOf(s, n) /\ HasLast(s, n + 1)
<1>1. GoodAmong(s, n + 1) = GoodAmong(s, n)
  BY DEF GoodAmong
<1> QED
  BY <1>1 DEF LastGoodOf, HasLast
-----------------------------------------------------------------------------
(* The invariant, action by action.                                        *)

Running == env.content = LastGoodOf(sent, handled) /\ HasLast(sent, handled)

IInv ==
  /\ Types
  /\ todo \in TodoForms
  /\ PulledOnceInOrder
  /\ Running
  /\ Shown
  /\ Held

LEMMA InitIInv == Init => IInv
<1> SUFFICES ASSUME Init PROVE IInv
  OBVIOUS
<1>1. Types /\ todo \in TodoForms
  BY ContentAssumption DEF Init, Types, TodoForms
<1>2. UpTo(0) = <<>>
  BY UpToType, EmptySeq
<1>3. PulledOnceInOrder
  BY <1>2 DEF Init, PulledOnceInOrder
<1>4. Running
  BY DEF Init, Running, LastGoodOf, HasLast, GoodAmong
<1> QED
  BY <1>1, <1>3, <1>4 DEF Init, IInv, Shown, Held

LEMMA SendKept ==
  ASSUME IInv, NEW command \in Command, Send(command)
  PROVE  IInv'
<1> USE DEF Send, reports, flags, loop
<1>1. Types'
  BY AppendProperties DEF IInv, Types
<1>2. Running'
  BY LastGoodStays DEF IInv, Types, Running
<1> QED
  BY <1>1, <1>2 DEF IInv, PulledOnceInOrder, Shown, Held

LEMMA ToggleKept ==
  ASSUME IInv, TogglePaused
  PROVE  IInv'
BY DEF TogglePaused, http, reports, loop, IInv, Types, PulledOnceInOrder, Running,
       Shown, Held

LEMMA PullKeepsInv ==
  ASSUME IInv, PullOutput \/ PullErrors
  PROVE  IInv'
<1> USE DEF flags, loop
<1>1. CASE PullOutput
  <2>1. /\ seen'.lines = seen.lines \o output /\ seen'.errors = seen.errors
        /\ seen'.lines \in Seq(Nat) /\ seen'.lines \o output' = seen.lines \o output
    BY <1>1, PullKept DEF PullOutput, IInv, Types
  <2>2. Types'
    <3>1. seen' \in [lines : Seq(Nat), errors : Seq(Nat)]
      BY <1>1, PullKept DEF PullOutput, IInv, Types
    <3> QED
      BY <1>1, <3>1, EmptySeq DEF PullOutput, IInv, Types
  <2>3. PulledOnceInOrder'
    BY <1>1, <2>1 DEF PullOutput, IInv, PulledOnceInOrder
  <2> QED
    BY <1>1, <2>2, <2>3 DEF PullOutput, IInv, Running, Shown, Held
<1>2. CASE PullErrors
  <2>1. /\ seen'.errors = seen.errors \o errors /\ seen'.lines = seen.lines
        /\ seen'.errors \in Seq(Nat) /\ seen'.errors \o errors' = seen.errors \o errors
    BY <1>2, PullKept DEF PullErrors, IInv, Types
  <2>2. Types'
    <3>1. seen' \in [lines : Seq(Nat), errors : Seq(Nat)]
      BY <1>2, PullKept DEF PullErrors, IInv, Types
    <3> QED
      BY <1>2, <3>1, EmptySeq DEF PullErrors, IInv, Types
  <2>3. PulledOnceInOrder'
    BY <1>2, <2>1 DEF PullErrors, IInv, PulledOnceInOrder
  <2> QED
    BY <1>2, <2>2, <2>3 DEF PullErrors, IInv, Running, Shown, Held
<1> QED
  BY <1>1, <1>2

LEMMA EndHttpKept ==
  ASSUME IInv, EndHttp
  PROVE  IInv'
BY DEF EndHttp, reports, flags, loop, IInv, Types, PulledOnceInOrder, Running, Shown, Held

LEMMA TodoTail ==
  ASSUME todo \in TodoForms, todo # <<>>
  PROVE  /\ Tail(todo) \in TodoForms
         /\ Head(todo) = "project" => todo = <<"project">>
         /\ Tail(todo) = <<"pause">> => FALSE
         /\ todo = <<"line", "project">> => Tail(todo) = <<"project">>
         /\ Tail(todo) = <<"project">> => todo = <<"line", "project">>
         /\ Tail(todo) # <<"line", "project">>
         /\ todo = <<"pause">> => Head(todo) = "pause"
<1>1. ASSUME NEW a
      PROVE  Tail(<<a>>) = <<>> /\ Head(<<a>>) = a /\ Len(<<a>>) = 1
  OBVIOUS
<1>2. ASSUME NEW a, NEW b
      PROVE  Tail(<<a, b>>) = <<b>> /\ Head(<<a, b>>) = a /\ Len(<<a, b>>) = 2
  OBVIOUS
<1>3. CASE \E a \in {"line", "error", "project", "resume", "pause"} : todo = <<a>>
  <2>1. Tail(todo) = <<>>
    BY <1>1, <1>3
  <2>2. Len(todo) = 1 /\ Len(<<"line", "project">>) = 2 /\ Len(<<>>) = 0
        /\ Len(<<"pause">>) = 1 /\ Len(<<"project">>) = 1
    BY <1>1, <1>2, <1>3
  <2>3. Head(todo) = "project" => todo = <<"project">>
    BY <1>1, <1>3
  <2>4. todo = <<"pause">> => Head(todo) = "pause"
    BY <1>1
  <2>5. <<>> \in TodoForms
    BY DEF TodoForms
  <2>6. /\ <<>> # <<"pause">> /\ <<>> # <<"project">> /\ <<>> # <<"line", "project">>
        /\ todo # <<"line", "project">>
    BY <2>2
  <2> QED
    BY <2>1, <2>3, <2>4, <2>5, <2>6
<1>4. CASE \E a \in {"line", "error"} : todo \in {<<a, "line">>, <<a, "error">>}
  <2>1. PICK b \in {"line", "error"} : Tail(todo) = <<b>>
    BY <1>2, <1>4
  <2>2. Tail(todo) \in TodoForms
    BY <2>1 DEF TodoForms
  <2>3. Head(todo) \in {"line", "error"}
    BY <1>2, <1>4
  <2>4. Tail(todo) # <<"pause">> /\ Tail(todo) # <<"project">>
    BY <2>1
  <2>5. Len(Tail(todo)) = 1 /\ Len(<<"line", "project">>) = 2
    BY <1>1, <1>2, <2>1
  <2>6. Tail(todo) # <<"line", "project">>
    <3>1. Len(Tail(todo)) # Len(<<"line", "project">>)
      <4>1. 1 # 2
        OBVIOUS
      <4> QED
        BY <2>5, <4>1, ZenonT(30)
    <3> QED
      BY <3>1, ZenonT(30)
  <2>7. Tail(<<"line", "project">>) = <<"project">> /\ Head(<<"pause">>) = "pause"
    BY <1>1, <1>2
  <2> QED
    BY <2>2, <2>3, <2>4, <2>6, <2>7
<1>5. CASE todo = <<"line", "project">>
  <2>1. Tail(todo) = <<"project">> /\ Head(todo) = "line"
    BY <1>2, <1>5
  <2>2. <<"project">>[1] = "project" /\ <<"pause">>[1] = "pause"
        /\ Len(<<"project">>) = 1 /\ Len(<<"line", "project">>) = 2
        /\ Len(<<"pause">>) = 1
    BY <1>1, <1>2
  <2>3. <<"project">> \in TodoForms
    BY DEF TodoForms
  <2> QED
    BY <1>5, <2>1, <2>2, <2>3
<1> QED
  BY <1>3, <1>4, <1>5 DEF TodoForms

LEMMA AccessKept ==
  ASSUME IInv, Access
  PROVE  IInv'
<1> USE DEF http, loop
<1>1. Tail(todo) \in TodoForms /\ todo # <<>> /\ todo' = Tail(todo)
  BY TodoTail DEF IInv, Access
<1>2. Types' /\ PulledOnceInOrder'
  <2>1. CASE serving /\ Head(todo) = "line" /\ WriteLine
    <3>1. Append(output, reported.lines + 1) \in Seq(Nat)
      BY AppendProperties DEF IInv, Types
    <3>2. seen.lines \o Append(output, reported.lines + 1) = UpTo(reported.lines + 1)
      BY ReportKept DEF IInv, Types, PulledOnceInOrder
    <3>3. /\ UNCHANGED <<sent, handled, env, seen, errors>>
          /\ output' = Append(output, reported.lines + 1)
          /\ reported' = [reported EXCEPT !.lines = @ + 1]
      BY <2>1 DEF Access, WriteLine
    <3>4. /\ reported' \in [lines : Nat, errors : Nat]
          /\ reported'.lines = reported.lines + 1
          /\ reported'.errors = reported.errors
      <4>1. reported \in [lines : Nat, errors : Nat]
        BY DEF IInv, Types
      <4> QED
        BY <3>3, <4>1
    <3>5. Types'
      BY <3>1, <3>3, <3>4 DEF IInv, Types
    <3>6. PulledOnceInOrder'
      BY <3>2, <3>3, <3>4 DEF IInv, PulledOnceInOrder
    <3> QED
      BY <3>5, <3>6
  <2>2. CASE serving /\ Head(todo) = "error" /\ WriteError
    <3>1. Append(errors, reported.errors + 1) \in Seq(Nat)
      BY AppendProperties DEF IInv, Types
    <3>2. seen.errors \o Append(errors, reported.errors + 1) = UpTo(reported.errors + 1)
      BY ReportKept DEF IInv, Types, PulledOnceInOrder
    <3>3. /\ UNCHANGED <<sent, handled, env, seen, output>>
          /\ errors' = Append(errors, reported.errors + 1)
          /\ reported' = [reported EXCEPT !.errors = @ + 1]
      BY <2>2 DEF Access, WriteError
    <3>4. /\ reported' \in [lines : Nat, errors : Nat]
          /\ reported'.errors = reported.errors + 1
          /\ reported'.lines = reported.lines
      BY <3>3 DEF IInv, Types
    <3>5. Types'
      BY <3>1, <3>3, <3>4 DEF IInv, Types
    <3>6. PulledOnceInOrder'
      BY <3>2, <3>3, <3>4 DEF IInv, PulledOnceInOrder
    <3> QED
      BY <3>5, <3>6
  <2>3. CASE UNCHANGED reports
    BY <2>3 DEF Access, reports, IInv, Types, PulledOnceInOrder
  <2> QED
    BY <2>1, <2>2, <2>3 DEF Access, StoreRunning, StorePaused, StoreProject
<1>3. Running'
  BY DEF Access, IInv, Running
<1>4. Shown'
  BY <1>1, TodoTail
  DEF Access, WriteLine, WriteError, StoreRunning, StorePaused, StoreProject, IInv, Shown
<1>5. Held'
  BY <1>1, TodoTail
  DEF Access, WriteLine, WriteError, StoreRunning, StorePaused, StoreProject, flags,
      IInv, Held
<1> QED
  BY <1>1, <1>2, <1>3, <1>4, <1>5 DEF IInv

LEMMA TakeInputKept ==
  ASSUME IInv, TakeInput
  PROVE  IInv'
<1> USE DEF http, reports, flags
<1>1. handled + 1 \in 1 .. Len(sent) /\ sent[handled + 1].type = "Input"
  BY NextCommand DEF IInv, TakeInput, Take
<1>2. handled' = handled + 1 /\ todo = <<>> /\ todo' \in {<<>>, <<"resume">>}
  BY DEF TakeInput, Take, At
<1>3. env' \in [content : Loadable, busy : BOOLEAN] /\ env'.content = env.content
  BY DEF TakeInput, IInv, Types
<1>4. Types'
  BY <1>1, <1>2, <1>3 DEF TakeInput, IInv, Types
<1>5. Running'
  BY <1>1, <1>2, <1>3, OtherTaken DEF TakeInput, IInv, Types, Running
<1>6. Held'
  BY <1>2 DEF TakeInput, IInv, Held
<1> QED
  BY <1>2, <1>3, <1>4, <1>5, <1>6
  DEF TakeInput, IInv, PulledOnceInOrder, Shown, TodoForms

LEMMA TakeProjectKept ==
  ASSUME IInv, TakeProject
  PROVE  IInv'
<1> USE DEF http, reports, flags
<1> DEFINE c == sent[handled + 1].content
<1>1. handled + 1 \in 1 .. Len(sent) /\ Head(Pending) = sent[handled + 1]
  BY NextCommand DEF IInv, TakeProject, Take
<1>2. handled' = handled + 1 /\ todo = <<>> /\ sent[handled + 1].type = "SetProject"
  BY <1>1 DEF TakeProject, Take, At
<1>3. env' = IF c \in Loadable THEN [content |-> c, busy |-> FALSE] ELSE env
  BY <1>1 DEF TakeProject
<1>4. todo' = CASE c \in Loadable -> <<"line", "project">>
                [] c \in Parsed \ Loadable -> <<"line", "line">>
                [] c \in Located -> <<"error", "line">>
                [] OTHER -> <<"line">>
  BY <1>1 DEF TakeProject
<1>5. Types'
  BY <1>1, <1>2, <1>3 DEF TakeProject, IInv, Types
<1>6. Running'
  <2>1. CASE c \in Loadable
    BY <1>2, <1>3, <2>1, GoodTaken DEF TakeProject, IInv, Types, Running
  <2>2. CASE c \notin Loadable
    BY <1>2, <1>3, <2>2, OtherTaken DEF TakeProject, IInv, Types, Running
  <2> QED
    BY <2>1, <2>2
<1>7. todo' \in {<<"line", "project">>, <<"line", "line">>, <<"error", "line">>, <<"line">>}
      /\ (c \in Loadable => todo' = <<"line", "project">>)
  BY <1>4, ContentAssumption
<1>8. Shown'
  BY <1>2, <1>3, <1>7 DEF TakeProject, IInv, Shown
<1>9. Held'
  BY <1>2 DEF TakeProject, Take, At, IInv, Held
<1> QED
  BY <1>5, <1>6, <1>7, <1>8, <1>9 DEF TakeProject, IInv, PulledOnceInOrder, TodoForms

LEMMA LoopKept ==
  ASSUME IInv, Panic \/ NoMoreCommands \/ CheckRunning \/ Wake
  PROVE  IInv'
<1> USE DEF http, reports, flags
<1>1. UNCHANGED <<http, reports, flags, current_proj, todo, handled, env>>
  BY DEF Panic, NoMoreCommands, CheckRunning, Wake
<1>2. Types' /\ PulledOnceInOrder' /\ Running' /\ Shown'
  BY <1>1 DEF IInv, Types, PulledOnceInOrder, Running, Shown
<1>3. Held'
  BY <1>1 DEF Panic, NoMoreCommands, CheckRunning, Wake, At, IInv, Held
<1> QED
  BY <1>1, <1>2, <1>3 DEF IInv

LEMMA StepKept ==
  ASSUME IInv, Step
  PROVE  IInv'
<1> USE DEF http, reports
<1>1. PICK o \in Outcome :
        /\ env' = [env EXCEPT !.busy = o.busy]
        /\ halted' = (halted \/ (o.result = "Pause" /\ serving))
        /\ IF o.result = "Pause" /\ serving
             THEN pc' = "input" /\ todo' = <<"pause">>
             ELSE todo' \in Reports(o.result)
  BY DEF Step
<1>2. o.busy \in BOOLEAN
  <2>1. CASE env.busy
    <3>1. \/ o \in [result : {"Normal", "Yield", "Pause"}, busy : {TRUE}]
          \/ o \in [result : {"ProcessTerminated", "Error"}, busy : BOOLEAN]
      BY <2>1 DEF Outcome
    <3> QED
      BY <3>1
  <2>2. CASE ~ env.busy
    <3>1. o \in {[result |-> "Idle", busy |-> FALSE], [result |-> "Normal", busy |-> TRUE]}
      BY <2>2 DEF Outcome
    <3>2. CASE o = [result |-> "Idle", busy |-> FALSE]
      BY <3>2, o.busy = FALSE
    <3>3. CASE o = [result |-> "Normal", busy |-> TRUE]
      BY <3>3, o.busy = TRUE
    <3> QED
      BY <3>1, <3>2, <3>3
  <2> QED
    BY <2>1, <2>2
<1>3. UNCHANGED <<sent, handled, serving, running, current_proj, reports>>
      /\ todo = <<>> /\ pc = "step"
  BY DEF Step, At
<1>4. env' \in [content : Loadable, busy : BOOLEAN] /\ env'.content = env.content
  BY <1>1, <1>2 DEF IInv, Types
<1>5. Types' /\ PulledOnceInOrder' /\ Running'
  BY <1>3, <1>4 DEF IInv, Types, PulledOnceInOrder, Running
<1>6. todo' \in {<<>>, <<"pause">>, <<"line">>, <<"line", "error">>}
  BY <1>1 DEF Reports
<1>7. Shown'
  BY <1>3, <1>4, <1>6 DEF IInv, Shown
<1>8. Held'
  BY <1>1, <1>3 DEF IInv, Held
<1> QED
  BY <1>5, <1>6, <1>7, <1>8 DEF IInv, TodoForms

LEMMA NextIInv == IInv /\ [Next]_vars => IInv'
<1> SUFFICES ASSUME IInv, [Next]_vars PROVE IInv'
  OBVIOUS
<1>1. CASE HttpNext
  BY <1>1, SendKept, ToggleKept, PullKeepsInv, EndHttpKept DEF HttpNext
<1>2. CASE ProgramNext
  BY <1>2, AccessKept, TakeInputKept, TakeProjectKept, LoopKept, StepKept DEF ProgramNext
<1>3. CASE UNCHANGED vars
  BY <1>3 DEF vars, http, reports, flags, loop, IInv, Types, PulledOnceInOrder, Running,
              Shown, Held
<1> QED
  BY <1>1, <1>2, <1>3 DEF Next
-----------------------------------------------------------------------------
\* The invariant of the shared state and of the loop that uses it.
THEOREM ServerInvariant == Spec => []IInv
BY InitIInv, NextIInv, PTL DEF Spec

\* What /pull hands out (cli.rs) is complete, in order and never repeated.
THEOREM PulledTheorem == Spec => []PulledOnceInOrder
<1>1. IInv => PulledOnceInOrder
  BY DEF IInv
<1> QED
  BY <1>1, ServerInvariant, PTL

\* "keeping previous project": the project that runs, and the one that is
\* handed to the editor, is the last one that could be loaded.
THEOREM LastGoodTheorem == Spec => []LastGoodProjectRuns
<1>1. IInv => LastGoodProjectRuns
  BY LastGoodIs DEF IInv, Running, Shown, LastGoodProjectRuns
<1> QED
  BY <1>1, ServerInvariant, PTL

\* A pause of the project holds until somebody resumes it, whatever toggles
\* and commands race the store of the flag.
THEOREM PauseTheorem == Spec => PauseHoldsUntilResumed
<1>1. IInv => (serving /\ halted /\ pc = "step" => UNCHANGED <<env, steps>>)
  BY DEF IInv, Held
<1> QED
  BY <1>1, ServerInvariant, PTL DEF PauseHoldsUntilResumed
=============================================================================
