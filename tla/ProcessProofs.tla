---------------------------- MODULE ProcessProofs ----------------------------
(***************************************************************************)
(* A running process is balanced, and never panics over its stacks, for    *)
(* all code that verifies.  The invariant is Stacks: the frames with their *)
(* handlers, seen from the instruction that is to be executed next.  Each  *)
(* thing that instructions do to the stacks has a lemma.                   *)
(***************************************************************************)
EXTENDS CodeShape, FiniteSetTheorems, SequenceTheorems, WellFoundedInduction, TLAPS

\* A set of numbers that is not empty has a least member.
LEMMA LeastMember ==
  ASSUME NEW R \in SUBSET Nat, R # {}
  PROVE  \E n \in R : \A m \in R : n <= m
<1>1. PICK n \in R : \A m \in R : ~ (<<m, n>> \in OpToRel(<, Nat))
  BY NatLessThanWellFounded, WFMin
<1>2. \A m \in R : m \in Nat /\ n \in Nat /\ ~ (m < n)
  BY <1>1 DEF OpToRel
<1> QED
  BY <1>2

\* A sequence's positions and elements.
LEMMA SequenceFacts ==
  ASSUME NEW S, NEW q \in Seq(S)
  PROVE  /\ DOMAIN q = 1 .. Len(q) /\ Len(q) \in Nat
         /\ \A i \in DOMAIN q : q[i] \in S
OBVIOUS

HandlerOf(f, i, try) ==
  [pos |-> try.pos, warp_counter |-> f.warp_counter + try.warp,
   call_stack_size |-> i, value_stack_size |-> f.value_stack_size + try.values]

\* Frame i of cs has what the instruction at p is to find, if its values end at
\* height, its handlers at top and its warp blocks at warp.
Fits(cs, hs, i, p, height, top, warp) ==
  /\ p \in DOMAIN Shape
  /\ height = cs[i].value_stack_size + Shape[p].values
  /\ warp = cs[i].warp_counter + Shape[p].warp
  /\ top = cs[i].handler_stack_size + Len(Shape[p].handlers)
  /\ \A j \in 1 .. Len(Shape[p].handlers) :
       hs[cs[i].handler_stack_size + j] = HandlerOf(cs[i], i, Shape[p].handlers[j])

\* Frame i was called by the frame under it.
Called(cs, hs, i) ==
  LET f == cs[i] IN
  /\ f.return_to = f.called_from + 1
  /\ Code[f.called_from].op \in {"Call", "CallClosure"}
  /\ Fits(cs, hs, i - 1, f.called_from, f.value_stack_size + Code[f.called_from].pops,
          f.handler_stack_size, f.warp_counter)

Rising(cs) ==
  \A i, j \in 1 .. Len(cs) :
    i <= j => /\ cs[i].value_stack_size <= cs[j].value_stack_size
              /\ cs[i].handler_stack_size <= cs[j].handler_stack_size

\* The frames under the last one.
Frames(cs, hs) ==
  /\ cs \in Seq(CallStackEntry) /\ cs # <<>> /\ hs \in Seq(Handler)
  /\ cs[1] = RootFrame
  /\ Rising(cs)
  /\ \A i \in 2 .. Len(cs) : Called(cs, hs, i)

\* All frames, if the instruction at p is the next one and finds height values.
Stacks(cs, hs, p, height, warp) ==
  Frames(cs, hs) /\ Fits(cs, hs, Len(cs), p, height, Len(hs), warp)

-----------------------------------------------------------------------------
(* The code.                                                               *)

\* What verification says of an instruction.
LEMMA CodeFacts ==
  ASSUME NEW p \in DOMAIN Shape
  PROVE  /\ p \in DOMAIN Code /\ p \in Int /\ Code[p] \in Instruction
         /\ Shape[p] \in Shapes
         /\ Shape[p].values \in Nat /\ Shape[p].warp \in Nat
         /\ Shape[p].handlers \in Seq(TryBlock)
         /\ Built(Code[p]) /\ Supplied(Code[p], Shape[p])
         /\ Flows(Code, Shape, p) /\ Handled(Shape, p)
<1>1. /\ DOMAIN Shape \subseteq DOMAIN Code /\ Shape[p] \in Shapes
      /\ Supplied(Code[p], Shape[p])
      /\ Flows(Code, Shape, p) /\ Handled(Shape, p)
  BY ShapeAssumption DEF Verified
<1>2. p \in DOMAIN Code /\ p \in Int /\ Code[p] \in Instruction
  BY <1>1, CodeAssumption, SequenceFacts
<1>3. Shape[p].values \in Nat /\ Shape[p].warp \in Nat /\ Shape[p].handlers \in Seq(TryBlock)
  BY <1>1 DEF Shapes
<1>4. Built(Code[p])
  BY <1>2 DEF Instruction
<1> QED
  BY <1>1, <1>2, <1>3, <1>4

\* The fields of an instruction.
LEMMA InstructionFacts ==
  ASSUME NEW ins \in Instruction
  PROVE  /\ ins.op \in Ops /\ ins.needs \in Nat /\ ins.pops \in Nat /\ ins.pushes \in Nat
         /\ ins.fails \in BOOLEAN /\ ins.soft \in BOOLEAN /\ ins.to \in Int
         /\ ins.pops <= ins.needs /\ Built(ins)
BY DEF Instruction, Fields, Built

\* The fields of a frame.
LEMMA FrameFacts ==
  ASSUME NEW f \in CallStackEntry
  PROVE  /\ f.called_from \in Int /\ f.return_to \in Int /\ f.warp_counter \in Nat
         /\ f.value_stack_size \in Nat /\ f.handler_stack_size \in Nat
BY DEF CallStackEntry

\* The fields of a handler.
LEMMA HandlerFacts ==
  ASSUME NEW h \in Handler
  PROVE  /\ h.pos \in Int /\ h.warp_counter \in Nat /\ h.call_stack_size \in Nat \ {0}
         /\ h.value_stack_size \in Nat
BY DEF Handler

\* The fields of a try block.
LEMMA TryFacts ==
  ASSUME NEW try \in TryBlock
  PROVE  try.pos \in Nat /\ try.values \in Nat /\ try.warp \in Nat
BY DEF TryBlock

-----------------------------------------------------------------------------
(* Sequences.                                                              *)

\* The first n elements.
LEMMA Prefix ==
  ASSUME NEW S, NEW s \in Seq(S), NEW n \in 0 .. Len(s)
  PROVE  /\ SubSeq(s, 1, n) \in Seq(S) /\ Len(SubSeq(s, 1, n)) = n
         /\ \A i \in 1 .. n : SubSeq(s, 1, n)[i] = s[i]
<1>1. n \in Nat /\ Len(s) \in Nat /\ \A i \in 1 .. n : s[i] \in S
  BY SequenceFacts
<1> QED
  BY <1>1, SubSeqProperties

\* One more element.
LEMMA Extended ==
  ASSUME NEW S, NEW s \in Seq(S), NEW e \in S
  PROVE  /\ Append(s, e) \in Seq(S) /\ Len(Append(s, e)) = Len(s) + 1
         /\ \A i \in 1 .. Len(s) : Append(s, e)[i] = s[i]
         /\ Append(s, e)[Len(s) + 1] = e
BY AppendProperties

\* All but the last element, and the last.
LEMMA FrontLast ==
  ASSUME NEW S, NEW s \in Seq(S), s # <<>>
  PROVE  /\ Len(s) \in Nat \ {0}
         /\ Last(s) = s[Len(s)] /\ Last(s) \in S
         /\ Front(s) = SubSeq(s, 1, Len(s) - 1)
<1>1. Len(s) \in Nat \ {0}
  BY EmptySeq
<1> QED
  BY <1>1, SequenceFacts DEF Last, Front

-----------------------------------------------------------------------------
(* Frames.                                                                 *)

\* Frame i fits as long as it stays the same, and the handlers up to its own.
LEMMA FitsElsewhere ==
  ASSUME NEW cs \in Seq(CallStackEntry), NEW cs2, NEW hs, NEW hs2,
         NEW i \in 1 .. Len(cs), cs2[i] = cs[i],
         NEW p, NEW height, NEW top, NEW warp,
         Fits(cs, hs, i, p, height, top, warp),
         \A k \in 1 .. top : hs2[k] = hs[k]
  PROVE  Fits(cs2, hs2, i, p, height, top, warp)
<1> DEFINE tries == Shape[p].handlers
           base == cs[i].handler_stack_size
<1>1. /\ p \in DOMAIN Shape
      /\ height = cs[i].value_stack_size + Shape[p].values
      /\ warp = cs[i].warp_counter + Shape[p].warp
      /\ top = base + Len(tries)
      /\ \A j \in 1 .. Len(tries) : hs[base + j] = HandlerOf(cs[i], i, tries[j])
  BY DEF Fits
<1>2. Len(tries) \in Nat
  BY <1>1, CodeFacts, SequenceFacts
<1>3. base \in Nat
  BY SequenceFacts, FrameFacts
<1>4. \A j \in 1 .. Len(tries) : base + j \in 1 .. top
  <2> HIDE DEF base, tries
  <2> QED
    BY <1>1, <1>2, <1>3
<1>5. \A j \in 1 .. Len(tries) : hs2[base + j] = hs[base + j]
  BY <1>4
<1> QED
  BY <1>1, <1>5 DEF Fits

\* The first m frames are frames, if the handlers under the m-th stay.
LEMMA FramesKept ==
  ASSUME NEW cs, NEW hs, Frames(cs, hs),
         NEW m \in 1 .. Len(cs),
         NEW cs2 \in Seq(CallStackEntry), Len(cs2) = m,
         \A i \in 1 .. m : cs2[i] = cs[i],
         NEW hs2 \in Seq(Handler),
         \A k \in 1 .. cs[m].handler_stack_size : hs2[k] = hs[k]
  PROVE  Frames(cs2, hs2)
<1>1. /\ cs \in Seq(CallStackEntry) /\ cs # <<>> /\ hs \in Seq(Handler)
      /\ cs[1] = RootFrame /\ Rising(cs)
      /\ \A i \in 2 .. Len(cs) : Called(cs, hs, i)
  BY DEF Frames
<1>2. Len(cs) \in Nat /\ m \in Nat /\ m >= 1 /\ m <= Len(cs)
  BY <1>1, SequenceFacts
<1>3. cs2 # <<>> /\ cs2[1] = RootFrame
  BY <1>1, <1>2, EmptySeq
<1>4. Rising(cs2)
  <2>1. SUFFICES ASSUME NEW i \in 1 .. m, NEW j \in 1 .. m, i <= j
                 PROVE  /\ cs2[i].value_stack_size <= cs2[j].value_stack_size
                        /\ cs2[i].handler_stack_size <= cs2[j].handler_stack_size
    BY Zenon DEF Rising
  <2>2. i \in 1 .. Len(cs) /\ j \in 1 .. Len(cs) /\ cs2[i] = cs[i] /\ cs2[j] = cs[j]
    BY <1>2
  <2> QED
    BY <1>1, <2>1, <2>2, Zenon DEF Rising
<1>5. ASSUME NEW i \in 2 .. m PROVE Called(cs2, hs2, i)
  <2> DEFINE f == cs[i]
             height == f.value_stack_size + Code[f.called_from].pops
  <2>1. i \in 1 .. m /\ i - 1 \in 1 .. m /\ i \in 2 .. Len(cs) /\ i - 1 \in 1 .. Len(cs)
    BY <1>2
  <2>2. /\ f.return_to = f.called_from + 1
        /\ Code[f.called_from].op \in {"Call", "CallClosure"}
        /\ Fits(cs, hs, i - 1, f.called_from, height, f.handler_stack_size, f.warp_counter)
    BY <1>1, <2>1 DEF Called
  <2>3. f.handler_stack_size <= cs[m].handler_stack_size
    BY <1>1, <1>2, <2>1 DEF Rising
  <2>4. f.handler_stack_size \in Nat /\ cs[m].handler_stack_size \in Nat
    BY <1>1, <1>2, <2>1, SequenceFacts, FrameFacts
  <2>5. \A k \in 1 .. f.handler_stack_size : hs2[k] = hs[k]
    BY <2>3, <2>4
  <2>6. cs2[i - 1] = cs[i - 1] /\ cs2[i] = f
    BY <2>1
  <2>7. Fits(cs2, hs2, i - 1, f.called_from, height, f.handler_stack_size, f.warp_counter)
    BY <1>1, <2>1, <2>2, <2>5, <2>6, FitsElsewhere, SMTT(20)
  <2> QED
    BY <2>2, <2>6, <2>7 DEF Called
<1> QED
  BY <1>1, <1>3, <1>4, <1>5 DEF Frames

\* The frames, their number, and the sizes of the last one.
LEMMA StacksFacts ==
  ASSUME NEW cs, NEW hs, NEW p, NEW height, NEW warp, Stacks(cs, hs, p, height, warp)
  PROVE  /\ cs \in Seq(CallStackEntry) /\ hs \in Seq(Handler) /\ cs # <<>>
         /\ Len(cs) \in Nat \ {0} /\ Len(hs) \in Nat
         /\ Last(cs) = cs[Len(cs)] /\ Last(cs) \in CallStackEntry
         /\ p \in DOMAIN Shape
         /\ height = Last(cs).value_stack_size + Shape[p].values
         /\ warp = Last(cs).warp_counter + Shape[p].warp
         /\ Len(hs) = Last(cs).handler_stack_size + Len(Shape[p].handlers)
         /\ height \in Nat /\ warp \in Nat
<1>1. /\ cs \in Seq(CallStackEntry) /\ hs \in Seq(Handler) /\ cs # <<>>
      /\ Fits(cs, hs, Len(cs), p, height, Len(hs), warp)
  BY DEF Stacks, Frames
<1>2. /\ Len(cs) \in Nat \ {0} /\ Len(hs) \in Nat
      /\ Last(cs) = cs[Len(cs)] /\ Last(cs) \in CallStackEntry
  BY <1>1, FrontLast, SequenceFacts
<1>3. /\ p \in DOMAIN Shape
      /\ height = Last(cs).value_stack_size + Shape[p].values
      /\ warp = Last(cs).warp_counter + Shape[p].warp
      /\ Len(hs) = Last(cs).handler_stack_size + Len(Shape[p].handlers)
  BY <1>1, <1>2 DEF Fits
<1>4. height \in Nat /\ warp \in Nat
  <2>1. Last(cs).value_stack_size \in Nat /\ Last(cs).warp_counter \in Nat
    BY <1>2, FrameFacts
  <2>2. Shape[p].values \in Nat /\ Shape[p].warp \in Nat
    BY <1>3, CodeFacts
  <2> QED
    BY <1>3, <2>1, <2>2
<1> QED
  BY <1>1, <1>2, <1>3, <1>4

\* A process that was just initialized.
LEMMA RootStacks ==
  ASSUME NEW p \in DOMAIN Shape, Shape[p] = Entry
  PROVE  Stacks(<<RootFrame>>, <<>>, p, 0, 0)
<1> DEFINE cs == <<RootFrame>>
<1>1. RootFrame \in CallStackEntry
  BY DEF RootFrame, CallStackEntry, NoPos
<1>2. /\ cs \in Seq(CallStackEntry) /\ cs # <<>> /\ Len(cs) = 1 /\ cs[1] = RootFrame
      /\ <<>> \in Seq(Handler) /\ Len(<<>>) = 0
  BY <1>1
<1>3. /\ RootFrame.value_stack_size = 0 /\ RootFrame.handler_stack_size = 0
      /\ RootFrame.warp_counter = 0
  BY DEF RootFrame
<1>4. /\ Shape[p].values = 0 /\ Shape[p].warp = 0 /\ Len(Shape[p].handlers) = 0
  BY DEF Entry
<1> HIDE DEF cs
<1>5. Rising(cs)
  BY <1>2, <1>3 DEF Rising
<1>6. \A i \in 2 .. Len(cs) : Called(cs, <<>>, i)
  BY <1>2
<1>7. Fits(cs, <<>>, Len(cs), p, 0, Len(<<>>), 0)
  BY <1>2, <1>3, <1>4 DEF Fits
<1>8. Stacks(cs, <<>>, p, 0, 0)
  BY <1>2, <1>5, <1>6, <1>7 DEF Stacks, Frames
<1> QED
  BY <1>8 DEF cs

\* The same frames and handlers at another instruction.
LEMMA Moved ==
  ASSUME NEW cs, NEW hs, NEW p, NEW height, NEW warp, Stacks(cs, hs, p, height, warp),
         NEW q \in DOMAIN Shape, Shape[q].handlers = Shape[p].handlers
  PROVE  Stacks(cs, hs, q, height - Shape[p].values + Shape[q].values,
                warp - Shape[p].warp + Shape[q].warp)
<1> DEFINE n == Len(cs)
<1>1. Fits(cs, hs, n, p, height, Len(hs), warp) /\ Frames(cs, hs)
  BY DEF Stacks
<1>2. /\ p \in DOMAIN Shape
      /\ height = cs[n].value_stack_size + Shape[p].values
      /\ warp = cs[n].warp_counter + Shape[p].warp
  BY <1>1 DEF Fits
<1>3. n \in Nat \ {0} /\ cs[n] \in CallStackEntry
  BY StacksFacts
<1>4. cs[n].value_stack_size \in Nat /\ cs[n].warp_counter \in Nat
  BY <1>3, FrameFacts
<1>5. /\ Shape[p].values \in Nat /\ Shape[p].warp \in Nat
      /\ Shape[q].values \in Nat /\ Shape[q].warp \in Nat
  BY <1>2, CodeFacts
<1>6. /\ height - Shape[p].values + Shape[q].values = cs[n].value_stack_size + Shape[q].values
      /\ warp - Shape[p].warp + Shape[q].warp = cs[n].warp_counter + Shape[q].warp
  BY <1>2, <1>4, <1>5, SMTT(20)
<1>7. Fits(cs, hs, n, q, height - Shape[p].values + Shape[q].values, Len(hs),
           warp - Shape[p].warp + Shape[q].warp)
  BY <1>1, <1>6, Zenon DEF Fits
<1> QED
  BY <1>1, <1>7 DEF Stacks

\* The frames under the last one do not depend on the handlers of the last one.
LEMMA FramesBelow ==
  ASSUME NEW cs, NEW hs, NEW p, NEW height, NEW warp, Stacks(cs, hs, p, height, warp),
         NEW hs2 \in Seq(Handler),
         \A k \in 1 .. Last(cs).handler_stack_size : hs2[k] = hs[k]
  PROVE  Frames(cs, hs2)
<1>1. Frames(cs, hs) /\ cs \in Seq(CallStackEntry) /\ Last(cs) = cs[Len(cs)] /\ Len(cs) \in Nat \ {0}
  BY StacksFacts DEF Stacks
<1>2. Len(cs) \in 1 .. Len(cs) /\ \A i \in 1 .. Len(cs) : cs[i] = cs[i]
  BY <1>1
<1> QED
  BY <1>1, <1>2, FramesKept

\* A handler for a try block that begins.
LEMMA HandlerPushed ==
  ASSUME NEW cs, NEW hs, NEW p, NEW height, NEW warp, Stacks(cs, hs, p, height, warp),
         NEW to \in Nat, NEW q \in DOMAIN Shape,
         Shape[q] = [values |-> Shape[p].values, warp |-> Shape[p].warp,
                     handlers |-> Append(Shape[p].handlers,
                       [pos |-> to, values |-> Shape[p].values, warp |-> Shape[p].warp])]
  PROVE  Stacks(cs, Append(hs, [pos |-> to, warp_counter |-> warp,
                                call_stack_size |-> Len(cs), value_stack_size |-> height]),
                q, height, warp)
<1> DEFINE n == Len(cs)
           f == cs[n]
           try == [pos |-> to, values |-> Shape[p].values, warp |-> Shape[p].warp]
           h == [pos |-> to, warp_counter |-> warp, call_stack_size |-> n, value_stack_size |-> height]
           tries == Shape[p].handlers
           tries2 == Shape[q].handlers
           hs2 == Append(hs, h)
<1>1. /\ Len(hs) = f.handler_stack_size + Len(tries) /\ p \in DOMAIN Shape
      /\ \A j \in 1 .. Len(tries) : hs[f.handler_stack_size + j] = HandlerOf(f, n, tries[j])
      /\ height = f.value_stack_size + Shape[p].values
      /\ warp = f.warp_counter + Shape[p].warp
  BY DEF Stacks, Fits
<1>2. /\ n \in Nat \ {0} /\ f \in CallStackEntry /\ hs \in Seq(Handler) /\ Len(hs) \in Nat
      /\ height \in Nat /\ warp \in Nat /\ Last(cs) = f
  BY StacksFacts
<1>3. /\ f.handler_stack_size \in Nat
  BY <1>2, FrameFacts
<1>4. tries \in Seq(TryBlock) /\ Shape[p].values \in Nat /\ Shape[p].warp \in Nat
  BY <1>1, CodeFacts
<1>5. try \in TryBlock /\ h \in Handler
  BY <1>2, <1>4 DEF TryBlock, Handler
<1>6. Shape[q].values = Shape[p].values /\ Shape[q].warp = Shape[p].warp /\ tries2 = Append(tries, try)
  OBVIOUS
<1>7. h = HandlerOf(f, n, try)
  BY <1>1, <1>2, <1>4 DEF HandlerOf
<1> HIDE DEF try, h, tries, tries2
<1>8. /\ Len(tries2) = Len(tries) + 1 /\ tries2[Len(tries) + 1] = try /\ Len(tries) \in Nat
      /\ \A j \in 1 .. Len(tries) : tries2[j] = tries[j]
  BY <1>4, <1>5, <1>6, Extended, SequenceFacts
<1>9. /\ hs2 \in Seq(Handler) /\ Len(hs2) = Len(hs) + 1 /\ hs2[Len(hs) + 1] = h
      /\ \A k \in 1 .. Len(hs) : hs2[k] = hs[k]
  BY <1>2, <1>5, Extended
<1> HIDE DEF hs2, n, f
<1>10. \A k \in 1 .. f.handler_stack_size : hs2[k] = hs[k]
  <2>1. Len(tries) \in Nat
    BY <1>8
  <2>2. \A k \in 1 .. f.handler_stack_size : k \in 1 .. Len(hs)
    BY <1>1, <1>3, <2>1
  <2> QED
    BY <1>9, <2>2
<1>11. Frames(cs, hs2)
  BY <1>2, <1>9, <1>10, FramesBelow
<1>12. ASSUME NEW j \in 1 .. Len(tries2)
       PROVE  hs2[f.handler_stack_size + j] = HandlerOf(f, n, tries2[j])
  <2>1. CASE j = Len(tries) + 1
    <3>1. Len(hs) = f.handler_stack_size + Len(tries) /\ Len(tries) \in Nat
      BY <1>1, <1>8
    <3> DEFINE k == f.handler_stack_size
               m == Len(tries)
    <3>2. k \in Nat /\ m \in Nat /\ Len(hs) = k + m /\ j = m + 1
      BY <1>3, <2>1, <3>1
    <3> HIDE DEF k, m
    <3>3. k + j = Len(hs) + 1
      BY <3>2
    <3>4. f.handler_stack_size + j = Len(hs) + 1
      BY <3>3 DEF k
    <3> QED
      BY <1>7, <1>8, <1>9, <2>1, <3>4
  <2>2. CASE j # Len(tries) + 1
    <3>1. j \in 1 .. Len(tries)
      BY <1>8, <2>2
    <3>2. f.handler_stack_size + j \in 1 .. Len(hs)
      BY <1>1, <1>3, <1>8, <3>1
    <3> QED
      BY <1>1, <1>8, <1>9, <3>1, <3>2
  <2> QED
    BY <2>1, <2>2
<1>13. Len(hs2) = f.handler_stack_size + Len(tries2)
  BY <1>1, <1>3, <1>8, <1>9, SMTT(20)
<1>14. Fits(cs, hs2, n, q, height, Len(hs2), warp)
  BY <1>1, <1>6, <1>12, <1>13 DEF Fits, n, f, tries2
<1> QED
  BY <1>11, <1>14 DEF Stacks, n, hs2, h

\* The handler of a try block is popped.
LEMMA HandlerPopped ==
  ASSUME NEW cs, NEW hs, NEW p, NEW height, NEW warp, Stacks(cs, hs, p, height, warp),
         Shape[p].handlers # <<>>,
         NEW q \in DOMAIN Shape,
         Shape[q] = [values |-> Shape[p].values, warp |-> Shape[p].warp,
                     handlers |-> Front(Shape[p].handlers)]
  PROVE  Stacks(cs, Front(hs), q, height, warp)
<1> DEFINE n == Len(cs)
           f == cs[n]
           tries == Shape[p].handlers
           tries2 == Shape[q].handlers
           hs2 == Front(hs)
<1>1. /\ Len(hs) = f.handler_stack_size + Len(tries) /\ p \in DOMAIN Shape
      /\ \A j \in 1 .. Len(tries) : hs[f.handler_stack_size + j] = HandlerOf(f, n, tries[j])
      /\ height = f.value_stack_size + Shape[p].values
      /\ warp = f.warp_counter + Shape[p].warp
  BY DEF Stacks, Fits
<1>2. /\ n \in Nat \ {0} /\ f \in CallStackEntry /\ hs \in Seq(Handler) /\ Len(hs) \in Nat
      /\ Last(cs) = f
  BY StacksFacts
<1>3. /\ f.handler_stack_size \in Nat
  BY <1>2, FrameFacts
<1>4. tries \in Seq(TryBlock) /\ tries # <<>>
  BY <1>1, CodeFacts
<1>5. Shape[q].values = Shape[p].values /\ Shape[q].warp = Shape[p].warp /\ tries2 = Front(tries)
  OBVIOUS
<1> HIDE DEF tries, tries2
<1>6. /\ Len(tries) \in Nat \ {0} /\ tries2 = SubSeq(tries, 1, Len(tries) - 1)
  BY <1>4, <1>5, FrontLast
<1>7. Len(tries) - 1 \in 0 .. Len(tries)
  BY <1>6
<1>8. /\ Len(tries2) = Len(tries) - 1
      /\ \A j \in 1 .. Len(tries) - 1 : tries2[j] = tries[j]
  BY <1>4, <1>6, <1>7, Prefix
<1> HIDE DEF hs2, n, f
<1>9. Len(hs) = f.handler_stack_size + Len(tries)
  BY <1>1
<1>10. Len(hs) - 1 \in 0 .. Len(hs) /\ Len(hs) # 0
  BY <1>3, <1>6, <1>9
<1>11. hs2 = SubSeq(hs, 1, Len(hs) - 1)
  BY <1>2, <1>10, FrontLast, EmptySeq DEF hs2
<1>12. /\ hs2 \in Seq(Handler) /\ Len(hs2) = Len(hs) - 1
       /\ \A k \in 1 .. Len(hs) - 1 : hs2[k] = hs[k]
  BY <1>2, <1>10, <1>11, Prefix
<1>13. \A k \in 1 .. f.handler_stack_size : k \in 1 .. Len(hs) - 1
  BY <1>3, <1>6, <1>9
<1>14. Frames(cs, hs2)
  BY <1>2, <1>12, <1>13, FramesBelow
<1>15. ASSUME NEW j \in 1 .. Len(tries2)
       PROVE  hs2[f.handler_stack_size + j] = HandlerOf(f, n, tries2[j])
  <2>1. j \in 1 .. Len(tries) /\ j \in 1 .. Len(tries) - 1
    BY <1>6, <1>8
  <2>2. f.handler_stack_size + j \in 1 .. Len(hs) - 1
    BY <1>3, <1>6, <1>9, <2>1
  <2> QED
    BY <1>1, <1>8, <1>12, <2>1, <2>2
<1>16. Len(hs2) = f.handler_stack_size + Len(tries2)
  BY <1>3, <1>6, <1>8, <1>9, <1>12
<1>17. Fits(cs, hs2, n, q, height, Len(hs2), warp)
  BY <1>1, <1>5, <1>15, <1>16 DEF Fits, n, f, tries2
<1> QED
  BY <1>14, <1>17 DEF Stacks, n, hs2

\* A frame for a callee.
LEMMA Entered ==
  ASSUME NEW cs, NEW hs, NEW p, NEW height, NEW warp, Stacks(cs, hs, p, height, warp),
         Code[p].op \in {"Call", "CallClosure"},
         NEW to \in DOMAIN Shape, Shape[to] = Entry
  PROVE  Stacks(Append(cs, [called_from |-> p, return_to |-> p + 1, warp_counter |-> warp,
                            value_stack_size |-> height - Code[p].pops,
                            handler_stack_size |-> Len(hs)]),
                hs, to, height - Code[p].pops, warp)
<1> DEFINE n == Len(cs)
           base == height - Code[p].pops
           f == [called_from |-> p, return_to |-> p + 1, warp_counter |-> warp,
                 value_stack_size |-> base, handler_stack_size |-> Len(hs)]
           cs2 == Append(cs, f)
<1>1. /\ cs \in Seq(CallStackEntry) /\ hs \in Seq(Handler)
      /\ n \in Nat \ {0} /\ Len(hs) \in Nat /\ p \in DOMAIN Shape
      /\ Last(cs) = cs[n] /\ cs[n] \in CallStackEntry
      /\ height = cs[n].value_stack_size + Shape[p].values
      /\ Len(hs) = cs[n].handler_stack_size + Len(Shape[p].handlers)
      /\ height \in Nat /\ warp \in Nat
  BY StacksFacts
<1>2. /\ Code[p] \in Instruction /\ p \in Int /\ Code[p].needs <= Shape[p].values
      /\ Shape[p].values \in Nat /\ Len(Shape[p].handlers) \in Nat
  BY <1>1, CodeFacts, SequenceFacts DEF Supplied
<1>3. Code[p].pops \in Nat /\ Code[p].needs \in Nat /\ Code[p].pops <= Code[p].needs
  BY <1>2, InstructionFacts
<1>4. cs[n].value_stack_size \in Nat /\ cs[n].handler_stack_size \in Nat
  BY <1>1, FrameFacts
<1>5. base \in Nat /\ cs[n].value_stack_size <= base /\ cs[n].handler_stack_size <= Len(hs)
  <2> DEFINE v == cs[n].value_stack_size
             k == cs[n].handler_stack_size
             here == Shape[p].values
             tries == Len(Shape[p].handlers)
             taken == Code[p].pops
             needed == Code[p].needs
  <2>1. /\ v \in Nat /\ k \in Nat /\ here \in Nat /\ tries \in Nat /\ taken \in Nat /\ needed \in Nat
        /\ taken <= needed /\ needed <= here /\ height = v + here /\ Len(hs) = k + tries
        /\ base = height - taken
    BY <1>1, <1>2, <1>3, <1>4
  <2> HIDE DEF v, k, here, tries, taken, needed, base
  <2>2. base \in Nat /\ v <= base /\ k <= Len(hs)
    BY <2>1
  <2> QED
    BY <2>2 DEF v, k
<1> HIDE DEF base
<1>6. f \in CallStackEntry
  BY <1>1, <1>2, <1>5 DEF CallStackEntry
<1>7. /\ f.called_from = p /\ f.return_to = p + 1 /\ f.warp_counter = warp
      /\ f.value_stack_size = base /\ f.handler_stack_size = Len(hs)
  OBVIOUS
<1> HIDE DEF f
<1>8. /\ cs2 \in Seq(CallStackEntry) /\ Len(cs2) = n + 1 /\ cs2[n + 1] = f
      /\ \A i \in 1 .. n : cs2[i] = cs[i]
  BY <1>1, <1>6, Extended
<1> HIDE DEF cs2, n
<1>9. /\ cs[1] = RootFrame /\ Rising(cs) /\ \A i \in 2 .. n : Called(cs, hs, i)
      /\ Fits(cs, hs, n, p, height, Len(hs), warp)
  BY DEF Stacks, Frames, n
<1>10. Rising(cs2)
  <2>1. SUFFICES ASSUME NEW i \in 1 .. n + 1, NEW j \in 1 .. n + 1, i <= j
                 PROVE  /\ cs2[i].value_stack_size <= cs2[j].value_stack_size
                        /\ cs2[i].handler_stack_size <= cs2[j].handler_stack_size
    BY <1>8, Zenon DEF Rising
  <2>2. \A a \in 1 .. n : /\ cs[a].value_stack_size \in Nat /\ cs[a].handler_stack_size \in Nat
                          /\ cs[a].value_stack_size <= cs[n].value_stack_size
                          /\ cs[a].handler_stack_size <= cs[n].handler_stack_size
    <3>1. SUFFICES ASSUME NEW a \in 1 .. n
                   PROVE  /\ cs[a].value_stack_size \in Nat /\ cs[a].handler_stack_size \in Nat
                          /\ cs[a].value_stack_size <= cs[n].value_stack_size
                          /\ cs[a].handler_stack_size <= cs[n].handler_stack_size
      BY Zenon
    <3>2. a \in 1 .. Len(cs) /\ n \in 1 .. Len(cs) /\ a <= n
      BY <1>1 DEF n
    <3>3. cs[a] \in CallStackEntry
      BY <1>1, <3>2, SequenceFacts
    <3> QED
      BY <1>9, <3>2, <3>3, FrameFacts DEF Rising
  <2>3. CASE j \in 1 .. n
    <3>1. i \in 1 .. n /\ i \in 1 .. Len(cs) /\ j \in 1 .. Len(cs)
      BY <1>1, <2>1, <2>3 DEF n
    <3>2. cs2[i] = cs[i] /\ cs2[j] = cs[j]
      BY <1>8, <2>3, <3>1
    <3> QED
      BY <1>9, <2>1, <3>1, <3>2, Zenon DEF Rising
  <2>4. CASE j = n + 1 /\ i \in 1 .. n
    <3>1. cs2[i] = cs[i] /\ cs2[j] = f
      BY <1>8, <2>4
    <3> DEFINE v == cs[i].value_stack_size
               k == cs[i].handler_stack_size
               vn == cs[n].value_stack_size
               kn == cs[n].handler_stack_size
    <3>2. v \in Nat /\ k \in Nat /\ v <= vn /\ k <= kn
      BY <2>2, <2>4
    <3>3. vn \in Nat /\ kn \in Nat /\ vn <= base /\ kn <= Len(hs)
      BY <1>4, <1>5
    <3> HIDE DEF v, k, vn, kn
    <3>4. v <= base /\ k <= Len(hs)
      BY <1>1, <1>5, <3>2, <3>3
    <3> QED
      BY <1>7, <3>1, <3>4 DEF v, k
  <2>5. CASE j = n + 1 /\ i = n + 1
    BY <1>5, <1>7, <1>8, <1>1, <2>5
  <2> QED
    BY <1>1, <2>3, <2>4, <2>5
<1>11. ASSUME NEW i \in 2 .. n + 1 PROVE Called(cs2, hs, i)
  <2>1. CASE i \in 2 .. n
    <3> DEFINE g == cs[i]
               above == g.value_stack_size + Code[g.called_from].pops
    <3>1. i - 1 \in 1 .. Len(cs) /\ i \in 1 .. n /\ i - 1 \in 1 .. n
      BY <1>1, <2>1 DEF n
    <3>2. cs2[i] = g /\ cs2[i - 1] = cs[i - 1]
      BY <1>8, <3>1
    <3>3. /\ g.return_to = g.called_from + 1 /\ Code[g.called_from].op \in {"Call", "CallClosure"}
          /\ Fits(cs, hs, i - 1, g.called_from, above, g.handler_stack_size, g.warp_counter)
      BY <1>9, <2>1 DEF Called
    <3> HIDE DEF g, above
    <3>4. Fits(cs2, hs, i - 1, g.called_from, above, g.handler_stack_size, g.warp_counter)
      BY <1>1, <3>1, <3>2, <3>3, FitsElsewhere, SMTT(20)
    <3> QED
      BY <3>2, <3>3, <3>4 DEF Called, above
  <2>2. CASE i = n + 1
    <3>1. cs2[i] = f /\ i - 1 = n /\ n \in 1 .. Len(cs) /\ cs2[n] = cs[n]
      BY <1>1, <1>8, <2>2 DEF n
    <3>2. Fits(cs2, hs, n, p, height, Len(hs), warp)
      BY <1>1, <1>9, <3>1, FitsElsewhere
    <3>3. base + Code[p].pops = height
      BY <1>1, <1>3 DEF base
    <3> QED
      BY <1>7, <3>1, <3>2, <3>3 DEF Called
  <2> QED
    BY <1>1, <2>1, <2>2
<1>12. cs2 # <<>> /\ cs2[1] = RootFrame
  <2>1. 1 \in 1 .. n /\ n + 1 # 0
    BY <1>1
  <2> QED
    BY <1>8, <1>9, <2>1, EmptySeq
<1>13. Fits(cs2, hs, n + 1, to, base, Len(hs), warp)
  <2>1. Shape[to].values = 0 /\ Shape[to].warp = 0 /\ Len(Shape[to].handlers) = 0
    BY DEF Entry
  <2> QED
    BY <1>1, <1>5, <1>7, <1>8, <2>1 DEF Fits
<1> QED
  BY <1>1, <1>8, <1>10, <1>11, <1>12, <1>13 DEF Stacks, Frames, cs2, f, base, n

\* The caller goes on, with the result.
LEMMA Returned ==
  ASSUME NEW cs, NEW hs, NEW p, NEW height, NEW warp, Stacks(cs, hs, p, height, warp),
         Len(cs) > 1
  PROVE  Stacks(Front(cs), SubSeq(hs, 1, Last(cs).handler_stack_size), Last(cs).return_to,
                Last(cs).value_stack_size + 1, Last(cs).warp_counter)
<1> DEFINE n == Len(cs)
           f == cs[n]
           p0 == f.called_from
           cs2 == Front(cs)
           hs2 == SubSeq(hs, 1, f.handler_stack_size)
           above == f.value_stack_size + Code[p0].pops
<1>1. /\ cs \in Seq(CallStackEntry) /\ hs \in Seq(Handler) /\ cs # <<>>
      /\ n \in Nat \ {0} /\ Len(hs) \in Nat /\ Last(cs) = f /\ f \in CallStackEntry
      /\ Len(hs) = f.handler_stack_size + Len(Shape[p].handlers) /\ p \in DOMAIN Shape
  BY StacksFacts
<1>2. /\ f.handler_stack_size \in Nat /\ f.value_stack_size \in Nat /\ f.warp_counter \in Nat
      /\ p0 \in Int
  BY <1>1, FrameFacts
<1>3. Frames(cs, hs) /\ Rising(cs) /\ Called(cs, hs, n)
  BY <1>1 DEF Stacks, Frames
<1>4. /\ f.return_to = p0 + 1 /\ Code[p0].op \in {"Call", "CallClosure"}
      /\ Fits(cs, hs, n - 1, p0, above, f.handler_stack_size, f.warp_counter)
  BY <1>3 DEF Called
<1>5. n - 1 \in 1 .. n /\ n \in 1 .. n /\ n - 1 <= n /\ n - 1 \in 0 .. n
  BY <1>1
<1>6. /\ cs2 \in Seq(CallStackEntry) /\ Len(cs2) = n - 1
      /\ \A i \in 1 .. n - 1 : cs2[i] = cs[i]
  <2>1. cs2 = SubSeq(cs, 1, n - 1)
    BY <1>1, FrontLast
  <2>2. n - 1 \in 0 .. Len(cs)
    BY <1>5
  <2> HIDE DEF cs2, n
  <2> QED
    BY <1>1, <2>1, <2>2, Prefix
<1>7. f.handler_stack_size \in 0 .. Len(hs)
  <2>1. Len(Shape[p].handlers) \in Nat
    BY <1>1, CodeFacts, SequenceFacts
  <2> QED
    BY <1>1, <1>2, <2>1
<1>8. /\ hs2 \in Seq(Handler) /\ Len(hs2) = f.handler_stack_size
      /\ \A k \in 1 .. f.handler_stack_size : hs2[k] = hs[k]
  BY <1>1, <1>7, Prefix
<1> HIDE DEF cs2, hs2
<1>9. cs[n - 1].handler_stack_size <= f.handler_stack_size
  BY <1>3, <1>5 DEF Rising
<1>10. cs[n - 1] \in CallStackEntry /\ cs[n - 1].handler_stack_size \in Nat
  BY <1>1, <1>5, SequenceFacts, FrameFacts
<1> DEFINE below == cs[n - 1].handler_stack_size
<1>11. \A k \in 1 .. below : hs2[k] = hs[k]
  <2> HIDE DEF below
  <2>1. below \in Nat /\ below <= f.handler_stack_size
    BY <1>9, <1>10 DEF below
  <2>2. \A k \in 1 .. below : k \in 1 .. f.handler_stack_size
    BY <1>2, <2>1
  <2> QED
    BY <1>8, <2>2
<1>12. Frames(cs2, hs2)
  <2>1. n - 1 \in 1 .. Len(cs)
    BY <1>5
  <2> QED
    BY <1>3, <1>6, <1>8, <1>11, <2>1, FramesKept, SMTT(20)
<1>13. Fits(cs2, hs2, n - 1, p0, above, f.handler_stack_size, f.warp_counter)
  <2>1. n - 1 \in 1 .. Len(cs) /\ cs2[n - 1] = cs[n - 1]
    BY <1>1, <1>5, <1>6
  <2> DEFINE m == n - 1
             top == f.handler_stack_size
             blocks == f.warp_counter
  <2>2. /\ Fits(cs, hs, m, p0, above, top, blocks)
        /\ \A k \in 1 .. top : hs2[k] = hs[k]
    BY <1>4, <1>8
  <2>3. m \in 1 .. Len(cs) /\ cs2[m] = cs[m]
    BY <2>1
  <2> HIDE DEF above, p0, m, top, blocks
  <2>4. Fits(cs2, hs2, m, p0, above, top, blocks)
    BY <1>1, <2>2, <2>3, FitsElsewhere
  <2> QED
    BY <2>4 DEF m, top, blocks
<1>14. Stacks(cs2, hs2, p0, above, f.warp_counter)
  BY <1>6, <1>8, <1>12, <1>13 DEF Stacks
<1> DEFINE q == p0 + 1
<1>15. p0 \in DOMAIN Shape
  BY <1>4 DEF Fits
<1>16. /\ q \in DOMAIN Shape /\ Shape[q].handlers = Shape[p0].handlers
       /\ Shape[q].warp = Shape[p0].warp
       /\ Shape[q].values = Shape[p0].values - Code[p0].pops + 1
  <2>1. Flows(Code, Shape, p0) /\ Built(Code[p0])
    BY <1>15, CodeFacts
  <2>2. q \in DOMAIN Shape /\ Shape[q] = After(Code[p0], Shape[p0])
    BY <1>4, <2>1 DEF Flows, GoesOn
  <2>3. Code[p0].pushes = 1
    BY <1>4, <2>1 DEF Built
  <2> QED
    BY <1>4, <2>2, <2>3, SMTT(20) DEF After
<1>17. Stacks(cs2, hs2, q, above - Shape[p0].values + Shape[q].values,
              f.warp_counter - Shape[p0].warp + Shape[q].warp)
  BY <1>14, <1>16, Moved
<1>18. /\ above - Shape[p0].values + Shape[q].values = f.value_stack_size + 1
       /\ f.warp_counter - Shape[p0].warp + Shape[q].warp = f.warp_counter
  <2> DEFINE v == Shape[p0].values
             w == Shape[p0].warp
             taken == Code[p0].pops
             size == f.value_stack_size
             blocks == f.warp_counter
  <2>1. v \in Nat /\ w \in Nat /\ taken \in Nat /\ size \in Nat /\ blocks \in Nat
    BY <1>2, <1>15, CodeFacts, InstructionFacts
  <2>2. Shape[q].values = v - taken + 1 /\ Shape[q].warp = w /\ above = size + taken
    BY <1>16
  <2> HIDE DEF v, w, taken, size, blocks, above, q
  <2>3. above - v + Shape[q].values = size + 1 /\ blocks - w + Shape[q].warp = blocks
    BY <2>1, <2>2
  <2> QED
    BY <2>3 DEF v, w, size, blocks
<1> QED
  BY <1>1, <1>4, <1>17, <1>18 DEF cs2, hs2

\* The frame that the innermost handler belongs to, and where it is.
LEMMA HandlersFrame ==
  ASSUME NEW cs, NEW hs, NEW p, NEW height, NEW warp, Stacks(cs, hs, p, height, warp),
         hs # <<>>
  PROVE  \E i, p2, height2, warp2 :
           /\ i \in 1 .. Len(cs)
           /\ Fits(cs, hs, i, p2, height2, Len(hs), warp2)
           /\ cs[i].handler_stack_size < Len(hs)
           /\ \/ i = Len(cs) /\ p2 = p /\ height2 = height
              \/ /\ Code[p2].op \in {"Call", "CallClosure"}
                 /\ height2 - Code[p2].pops <= Last(cs).value_stack_size
<1> DEFINE n == Len(cs)
           L == Len(hs)
           R == {d \in 0 .. n - 1 : cs[n - d].handler_stack_size < L}
<1>1. /\ cs \in Seq(CallStackEntry) /\ hs \in Seq(Handler)
      /\ n \in Nat \ {0} /\ L \in Nat /\ Last(cs) = cs[n] /\ p \in DOMAIN Shape
      /\ L = cs[n].handler_stack_size + Len(Shape[p].handlers)
  BY StacksFacts
<1>2. L > 0
  BY <1>1, EmptySeq
<1>3. Rising(cs) /\ cs[1] = RootFrame /\ Fits(cs, hs, n, p, height, L, warp)
      /\ \A i \in 2 .. n : Called(cs, hs, i)
  BY DEF Stacks, Frames
<1>4. \A i \in 1 .. n : cs[i] \in CallStackEntry
  BY <1>1, SequenceFacts
<1>5. PICK d \in R : \A m \in R : d <= m
  <2>1. n - 1 \in R
    <3>1. n - (n - 1) = 1 /\ n - 1 \in 0 .. n - 1
      BY <1>1
    <3>2. cs[1].handler_stack_size < L
      BY <1>2, <1>3 DEF RootFrame
    <3> QED
      BY <3>1, <3>2
  <2>2. R \in SUBSET Nat /\ R \subseteq 0 .. n - 1
    OBVIOUS
  <2>3. IsFiniteSet(R)
    <3>1. 0 \in Int /\ n - 1 \in Int
      BY <1>1
    <3>2. IsFiniteSet(0 .. n - 1)
      BY <3>1, FS_Interval
    <3> HIDE DEF R
    <3> QED
      BY <2>2, <3>2, FS_Subset
  <2> QED
    BY <2>1, <2>2, <2>3, LeastMember
<1> DEFINE i == n - d
<1>6. d \in 0 .. n - 1 /\ cs[i].handler_stack_size < L
  OBVIOUS
<1>7. i \in 1 .. n
  BY <1>1, <1>6
<1>8. CASE d = 0
  <2>1. i = n
    BY <1>1, <1>8
  <2> QED
    BY <1>3, <1>6, <1>7, <2>1
<1>9. CASE d # 0
  <2> DEFINE g == cs[i + 1]
             k == g.handler_stack_size
  <2>1. d - 1 \notin R
    BY <1>5, <1>6, <1>9
  <2>2. n - (d - 1) = i + 1 /\ d - 1 \in 0 .. n - 1 /\ i + 1 \in 2 .. n /\ i + 1 \in 1 .. n /\ n \in 1 .. n
    BY <1>1, <1>6, <1>9
  <2>3. g \in CallStackEntry /\ k \in Nat /\ ~ (k < L)
    BY <1>4, <2>1, <2>2, FrameFacts
  <2>4. k <= cs[n].handler_stack_size /\ g.value_stack_size <= cs[n].value_stack_size
    BY <1>3, <2>2 DEF Rising
  <2>5. cs[n].handler_stack_size \in Nat /\ cs[n].handler_stack_size <= L
    <3>1. cs[n].handler_stack_size \in Nat
      BY <1>4, <2>2, FrameFacts
    <3>2. Len(Shape[p].handlers) \in Nat
      BY <1>1, CodeFacts, SequenceFacts
    <3> QED
      BY <1>1, <3>1, <3>2
  <2>6. k = L
    <3> DEFINE l == cs[n].handler_stack_size
    <3> HIDE DEF k, l
    <3>1. l \in Nat /\ l <= L /\ k <= l
      BY <2>4, <2>5 DEF k, l
    <3> QED
      BY <1>1, <2>3, <3>1
  <2> DEFINE p2 == g.called_from
             height2 == g.value_stack_size + Code[p2].pops
  <2>7. Called(cs, hs, i + 1)
    BY <1>3, <2>2
  <2>8. (i + 1) - 1 = i
    BY <1>1, <1>6
  <2>9. /\ Code[p2].op \in {"Call", "CallClosure"}
        /\ Fits(cs, hs, i, p2, height2, L, g.warp_counter)
    BY <2>6, <2>7, <2>8 DEF Called
  <2>10. height2 - Code[p2].pops <= Last(cs).value_stack_size
    <3>1. p2 \in DOMAIN Shape
      BY <2>9 DEF Fits
    <3>2. Code[p2].pops \in Nat
      BY <3>1, CodeFacts, InstructionFacts
    <3>3. g.value_stack_size \in Nat
      BY <2>3, FrameFacts
    <3>4. height2 - Code[p2].pops = g.value_stack_size
      BY <3>2, <3>3
    <3> QED
      BY <1>1, <2>4, <3>4
  <2> HIDE DEF i, p2, height2, g, R
  <2> QED
    BY <1>6, <1>7, <2>9, <2>10
<1> QED
  BY <1>8, <1>9

\* An error: its handler, if there is one, is still on the stacks and gets what it
\* is to find.
LEMMA Caught ==
  ASSUME NEW cs, NEW hs, NEW p, NEW height, NEW warp, Stacks(cs, hs, p, height, warp),
         hs # <<>>,
         Code[p].fails,
         NEW left \in Int, height - Code[p].pops <= left
  PROVE  /\ Last(hs).call_stack_size <= Len(cs) /\ Last(hs).value_stack_size <= left
         /\ Stacks(SubSeq(cs, 1, Last(hs).call_stack_size), hs, Last(hs).pos,
                   Last(hs).value_stack_size, Last(hs).warp_counter)
<1> DEFINE n == Len(cs)
           L == Len(hs)
           h == Last(hs)
<1>1. /\ cs \in Seq(CallStackEntry) /\ hs \in Seq(Handler) /\ Last(cs) \in CallStackEntry
      /\ n \in Nat \ {0} /\ L \in Nat /\ Last(cs) = cs[n] /\ p \in DOMAIN Shape
      /\ height = Last(cs).value_stack_size + Shape[p].values
      /\ Frames(cs, hs) /\ Rising(cs)
  BY StacksFacts DEF Stacks, Frames
<1>2. PICK i, p2, height2, warp2 :
        /\ i \in 1 .. n
        /\ Fits(cs, hs, i, p2, height2, L, warp2)
        /\ cs[i].handler_stack_size < L
        /\ \/ i = n /\ p2 = p /\ height2 = height
           \/ /\ Code[p2].op \in {"Call", "CallClosure"}
              /\ height2 - Code[p2].pops <= Last(cs).value_stack_size
  BY HandlersFrame
<1> DEFINE f == cs[i]
           tries == Shape[p2].handlers
           try == Last(tries)
           q == try.pos
           cs2 == SubSeq(cs, 1, i)
<1>3. /\ p2 \in DOMAIN Shape
      /\ height2 = f.value_stack_size + Shape[p2].values
      /\ warp2 = f.warp_counter + Shape[p2].warp
      /\ L = f.handler_stack_size + Len(tries)
      /\ \A j \in 1 .. Len(tries) : hs[f.handler_stack_size + j] = HandlerOf(f, i, tries[j])
  BY <1>2 DEF Fits
<1>4. /\ f \in CallStackEntry /\ f.handler_stack_size \in Nat /\ f.value_stack_size \in Nat
      /\ f.warp_counter \in Nat
  BY <1>1, <1>2, SequenceFacts, FrameFacts
<1>5. /\ tries \in Seq(TryBlock) /\ Len(tries) \in Nat
      /\ Shape[p2].values \in Nat /\ Shape[p2].warp \in Nat
      /\ Code[p2] \in Instruction /\ Code[p2].pops \in Nat
      /\ Supplied(Code[p2], Shape[p2]) /\ Handled(Shape, p2) /\ Built(Code[p2])
  BY <1>3, CodeFacts, SequenceFacts, InstructionFacts
<1>6. Len(tries) # 0
  <2> DEFINE k == f.handler_stack_size
             m == Len(tries)
  <2>1. L = k + m /\ k \in Nat /\ k < L
    BY <1>2, <1>3, <1>4
  <2> HIDE DEF k, L
  <2> QED
    BY <2>1
<1>7. /\ tries # <<>> /\ Len(tries) \in 1 .. Len(tries) /\ try = tries[Len(tries)] /\ try \in TryBlock
  <2> HIDE DEF tries
  <2>1. tries # <<>>
    BY <1>6
  <2> QED
    BY <1>5, <1>6, <2>1, FrontLast
<1>8. h = HandlerOf(f, i, try)
  <2>1. hs[f.handler_stack_size + Len(tries)] = HandlerOf(f, i, tries[Len(tries)])
    BY <1>3, <1>7
  <2>2. h = hs[L]
    BY <1>1, FrontLast
  <2> HIDE DEF try, tries, h, L
  <2> QED
    BY <1>3, <1>7, <2>1, <2>2
<1>9. /\ h.pos = q /\ h.warp_counter = f.warp_counter + try.warp /\ h.call_stack_size = i
      /\ h.value_stack_size = f.value_stack_size + try.values
  BY <1>8 DEF HandlerOf
<1>10. /\ q \in DOMAIN Shape /\ Shape[q].values = try.values /\ Shape[q].warp = try.warp
       /\ Shape[q].handlers = tries
  BY <1>5, <1>7 DEF Handled
<1>11. try.values \in Nat /\ try.warp \in Nat
  BY <1>7, TryFacts
<1>12. i \in 0 .. n /\ i <= n /\ i \in 1 .. n
  BY <1>1, <1>2
<1>13. /\ cs2 \in Seq(CallStackEntry) /\ Len(cs2) = i
       /\ \A k \in 1 .. i : cs2[k] = cs[k]
  BY <1>1, <1>12, Prefix
<1> HIDE DEF cs2
<1>14. Frames(cs2, hs)
  <2>1. \A k \in 1 .. cs[i].handler_stack_size : hs[k] = hs[k]
    OBVIOUS
  <2> QED
    BY <1>1, <1>12, <1>13, <2>1, FramesKept
<1>15. Fits(cs2, hs, i, p2, height2, L, warp2)
  <2>1. cs2[i] = cs[i] /\ \A k \in 1 .. L : hs[k] = hs[k]
    BY <1>1, <1>2, <1>13
  <2> HIDE DEF L
  <2> QED
    BY <1>1, <1>2, <1>12, <2>1, FitsElsewhere
<1>16. Stacks(cs2, hs, p2, height2, warp2)
  BY <1>13, <1>14, <1>15 DEF Stacks
<1>17. Stacks(cs2, hs, q, height2 - Shape[p2].values + Shape[q].values,
              warp2 - Shape[p2].warp + Shape[q].warp)
  BY <1>10, <1>16, Moved
<1>18. /\ height2 - Shape[p2].values + Shape[q].values = h.value_stack_size
       /\ warp2 - Shape[p2].warp + Shape[q].warp = h.warp_counter
  <2> DEFINE v == Shape[p2].values
             w == Shape[p2].warp
             size == f.value_stack_size
             blocks == f.warp_counter
             v2 == try.values
             w2 == try.warp
  <2>1. /\ v \in Nat /\ w \in Nat /\ size \in Nat /\ blocks \in Nat /\ v2 \in Nat /\ w2 \in Nat
        /\ height2 = size + v /\ warp2 = blocks + w
    BY <1>3, <1>4, <1>5, <1>11
  <2>2. Shape[q].values = v2 /\ Shape[q].warp = w2 /\ h.value_stack_size = size + v2
        /\ h.warp_counter = blocks + w2
    BY <1>9, <1>10
  <2> HIDE DEF v, w, size, blocks, v2, w2, q, h
  <2>3. height2 - v + Shape[q].values = h.value_stack_size /\ warp2 - w + Shape[q].warp = h.warp_counter
    BY <2>1, <2>2
  <2> QED
    BY <2>3 DEF v, w
<1>19. h.value_stack_size <= height2 - Code[p2].pops
  <2>1. Code[p2].fails
    BY <1>2, <1>5 DEF Built
  <2>2. try.values <= Shape[p2].values - Code[p2].pops
    BY <1>5, <1>7, <2>1 DEF Supplied
  <2> DEFINE v == Shape[p2].values
             taken == Code[p2].pops
             size == f.value_stack_size
             v2 == try.values
  <2>3. /\ v \in Nat /\ taken \in Nat /\ size \in Nat /\ v2 \in Nat
        /\ height2 = size + v /\ v2 <= v - taken /\ h.value_stack_size = size + v2
    BY <1>3, <1>4, <1>5, <1>9, <1>11, <2>2
  <2> HIDE DEF v, taken, size, v2, h
  <2>4. h.value_stack_size <= height2 - taken
    BY <2>3
  <2> QED
    BY <2>4 DEF taken
<1>20. h.value_stack_size <= left
  <2> DEFINE taken == Code[p2].pops
             size == h.value_stack_size
             last == Last(cs).value_stack_size
             v == Shape[p].values
             needed == Code[p].needs
             taken0 == Code[p].pops
  <2>1. size \in Nat /\ height2 \in Nat /\ taken \in Nat /\ last \in Nat
    <3>1. size \in Nat
      BY <1>4, <1>9, <1>11
    <3>2. taken \in Nat
      BY <1>5
    <3>3. height2 \in Nat
      <4> DEFINE a == f.value_stack_size
                 b == Shape[p2].values
      <4>1. a \in Nat /\ b \in Nat /\ height2 = a + b
        BY <1>3, <1>4, <1>5
      <4> HIDE DEF a, b
      <4> QED
        BY <4>1
    <3>4. last \in Nat
      BY <1>1, FrameFacts
    <3> QED
      BY <3>1, <3>2, <3>3, <3>4
  <2>2. /\ v \in Nat /\ needed \in Nat /\ taken0 \in Nat /\ taken0 <= needed /\ needed <= v
        /\ height = last + v
    BY <1>1, CodeFacts, InstructionFacts DEF Supplied
  <2>3. \/ height2 = height /\ taken = taken0
        \/ height2 - taken <= last
    BY <1>2
  <2>4. size <= height2 - taken /\ height - taken0 <= left
    BY <1>19
  <2> HIDE DEF taken, size, last, v, needed, taken0
  <2>5. size <= left
    BY <2>1, <2>2, <2>3, <2>4
  <2> QED
    BY <2>5 DEF size
<1> QED
  BY <1>9, <1>12, <1>17, <1>18, <1>20 DEF cs2

-----------------------------------------------------------------------------
(* What holds of all processes, whether they run or not.                   *)

ControlOK ==
  /\ pos \in Int /\ value_stack \in Nat /\ warp_counter \in Nat
  /\ call_stack \in Seq(CallStackEntry) /\ call_stack # <<>> /\ call_stack[1] = RootFrame
  /\ handler_stack \in Seq(Handler)

HeldOK ==
  /\ running \in BOOLEAN /\ barrier \in BOOLEAN /\ reply_key \in BOOLEAN
  /\ HoldsOnlyWhileRunning
  /\ outcome \in Outcomes

WaitingOK ==
  /\ start_pos \in Starts
  /\ defer \in Defer \cup {NoDefer} /\ answer \in Answers
  /\ defer = NoDefer <=> answer = "none"

Basic == ControlOK /\ HeldOK /\ WaitingOK

\* The last frame, and a process that has an operation to wait for.
LEMMA BasicFacts ==
  ASSUME Basic
  PROVE  /\ Len(call_stack) \in Nat \ {0} /\ Len(handler_stack) \in Nat
         /\ Top \in CallStackEntry /\ Top = call_stack[Len(call_stack)]
         /\ defer # NoDefer => /\ defer \in Defer /\ defer.aft_pos \in Int
                               /\ defer.pushes \in Nat /\ defer.soft \in BOOLEAN
         /\ At \in Int /\ Height \in Nat
<1>1. /\ Len(call_stack) \in Nat \ {0} /\ Len(handler_stack) \in Nat
      /\ Top \in CallStackEntry /\ Top = call_stack[Len(call_stack)]
  BY FrontLast, SequenceFacts DEF Basic, ControlOK, Top
<1>2. defer # NoDefer => /\ defer \in Defer /\ defer.aft_pos \in Int
                         /\ defer.pushes \in Nat /\ defer.soft \in BOOLEAN
  BY DEF Basic, WaitingOK, Defer
<1>3. At \in Int /\ Height \in Nat
  BY <1>2 DEF Basic, ControlOK, At, Height
<1> QED
  BY <1>1, <1>2, <1>3

\* The instruction that is executed, and what it leaves of the values.
LEMMA CurrentFacts ==
  ASSUME Basic, Executable
  PROVE  /\ Current \in Instruction /\ Current.needs <= Height
         /\ Current.pops \in Nat /\ Current.pushes \in Nat /\ Current.pops <= Height
         /\ Current.soft \in BOOLEAN /\ Current.to \in Int
         /\ Built(Current)
         /\ Height - Current.pops \in Nat
         /\ \A k \in 0 .. Current.pops : Height - k \in Nat
<1>1. Current \in Instruction
  BY CodeAssumption, SequenceFacts DEF Executable, Current
<1>2. /\ Current.needs \in Nat /\ Current.pops \in Nat /\ Current.pushes \in Nat
      /\ Current.soft \in BOOLEAN /\ Current.to \in Int /\ Current.pops <= Current.needs
      /\ Built(Current)
  BY <1>1, InstructionFacts
<1>3. Height \in Nat /\ ~ (Height < Current.needs)
  BY BasicFacts DEF Executable, Missing
<1> DEFINE pops == Current.pops
           needs == Current.needs
<1>4. pops \in Nat /\ needs \in Nat /\ pops <= needs /\ ~ (Height < needs)
  BY <1>2, <1>3
<1> HIDE DEF pops, needs
<1>5. needs <= Height /\ pops <= Height /\ Height - pops \in Nat /\ \A k \in 0 .. pops : Height - k \in Nat
  BY <1>3, <1>4
<1> QED
  BY <1>1, <1>2, <1>5 DEF pops, needs

\* An error leaves the control state as it should be, caught or not.
LEMMA FailBasic ==
  ASSUME Basic, NEW at \in Int, NEW height \in Nat, NEW key \in BOOLEAN, key => reply_key,
         Fail(at, height, key)
  PROVE  ControlOK' /\ HeldOK'
<1>1. CASE handler_stack = <<>>
  <2>1. /\ running' = FALSE /\ barrier' = FALSE /\ reply_key' = FALSE /\ outcome' = "Err"
        /\ pos' = at /\ value_stack' = height
        /\ UNCHANGED control
    BY <1>1 DEF Fail, Ends, Catch, GoTo
  <2> QED
    BY <2>1 DEF Basic, ControlOK, HeldOK, HoldsOnlyWhileRunning, Outcomes, control
<1>2. CASE handler_stack # <<>>
  <2> DEFINE h == Last(handler_stack)
  <2>1. h \in Handler
    BY <1>2, FrontLast DEF Basic, ControlOK
  <2>2. /\ h.pos \in Int /\ h.warp_counter \in Nat /\ h.call_stack_size \in Nat \ {0}
        /\ h.value_stack_size \in Nat
    BY <2>1, HandlerFacts
  <2>3. CASE h.call_stack_size > Len(call_stack) \/ h.value_stack_size > height
    <3>1. /\ outcome' = "Panic" /\ reply_key' = key /\ pos' = at /\ value_stack' = height
          /\ UNCHANGED <<running, barrier, control>>
      BY <1>2, <2>3 DEF Fail, Ends, Catch, GoTo
    <3> QED
      BY <3>1 DEF Basic, ControlOK, HeldOK, HoldsOnlyWhileRunning, Outcomes, control
  <2>4. CASE ~ (h.call_stack_size > Len(call_stack) \/ h.value_stack_size > height)
    <3> DEFINE m == h.call_stack_size
    <3>1. /\ warp_counter' = h.warp_counter /\ call_stack' = SubSeq(call_stack, 1, m)
          /\ pos' = h.pos /\ value_stack' = h.value_stack_size
          /\ outcome' = "Normal" /\ reply_key' = key
          /\ UNCHANGED <<running, barrier, handler_stack>>
      BY <1>2, <2>4 DEF Fail, Ends, Catch, GoTo
    <3>2. m \in 0 .. Len(call_stack) /\ 1 \in 1 .. m /\ m # 0
      BY <2>2, <2>4, BasicFacts
    <3> HIDE DEF m, h
    <3>3. /\ call_stack' \in Seq(CallStackEntry) /\ Len(call_stack') = m
          /\ call_stack'[1] = call_stack[1]
      BY <3>1, <3>2, Prefix DEF Basic, ControlOK
    <3>4. call_stack' # <<>>
      BY <3>2, <3>3
    <3>5. ControlOK'
      BY <2>2, <3>1, <3>3, <3>4 DEF Basic, ControlOK
    <3>6. HeldOK'
      BY <3>1 DEF Basic, HeldOK, HoldsOnlyWhileRunning, Outcomes
    <3> QED
      BY <3>5, <3>6
  <2> QED
    BY <2>3, <2>4
<1> QED
  BY <1>1, <1>2

\* A process that is not deferred.
LEMMA ContinuesBasic ==
  ASSUME Basic, Continues, UNCHANGED start_pos
  PROVE  WaitingOK'
BY DEF Basic, WaitingOK, Continues, Answers

\* What a step returns does not change what the process holds.
LEMMA ReturnsBasic ==
  ASSUME Basic, NEW result \in Outcomes, Returns(result)
  PROVE  HeldOK'
BY DEF Basic, HeldOK, HoldsOnlyWhileRunning, Returns, held

\* Only the position and the number of values change.
LEMMA GoToBasic ==
  ASSUME Basic, NEW to \in Int, NEW height \in Nat, GoTo(to, height), UNCHANGED control
  PROVE  ControlOK'
BY DEF Basic, ControlOK, GoTo, control

\* An instruction that fails.
LEMMA FailsBasic ==
  ASSUME Basic, Executable, Fails, UNCHANGED start_pos
  PROVE  Basic'
<1>1. PICK k \in 0 .. Current.pops : Fail(At, Height - k, reply_key)
  BY DEF Fails
<1>2. At \in Int /\ Height - k \in Nat /\ reply_key \in BOOLEAN
  BY BasicFacts, CurrentFacts DEF Basic, HeldOK
<1>3. ControlOK' /\ HeldOK'
  BY <1>1, <1>2, FailBasic
<1>4. WaitingOK'
  BY ContinuesBasic DEF Fails
<1> QED
  BY <1>3, <1>4 DEF Basic

\* An instruction that only goes on, with some number of values.
LEMMA GoesBasic ==
  ASSUME Basic, NEW to \in Int, NEW height \in Nat, NEW result \in Outcomes,
         GoTo(to, height), Returns(result), Continues, UNCHANGED control, UNCHANGED start_pos
  PROVE  Basic'
BY GoToBasic, ReturnsBasic, ContinuesBasic DEF Basic

\* A process that waits for an answer.
LEMMA WaitBasic ==
  ASSUME Basic, Executable, Current.op \in Deferring, NEW result \in Outcomes, Wait(result),
         UNCHANGED start_pos
  PROVE  Basic'
<1>1. At \in Int /\ Height - Current.pops \in Nat
  BY BasicFacts, CurrentFacts
<1>2. GoTo(At, Height - Current.pops) /\ Returns(result) /\ UNCHANGED control
  BY DEF Wait
<1>3. ControlOK' /\ HeldOK'
  BY <1>1, <1>2, GoToBasic, ReturnsBasic
<1>4. Current.pushes \in Nat /\ Current.soft \in BOOLEAN
  BY CurrentFacts
<1>5. defer' \in Defer /\ defer' # NoDefer /\ answer' = "pending"
  BY <1>1, <1>4 DEF Wait, Defer, NoDefer, Deferring
<1>6. WaitingOK'
  BY <1>5 DEF WaitingOK, Basic, Answers
<1> QED
  BY <1>3, <1>6 DEF Basic

\* An instruction that is done in the step.
LEMMA DoneBasic ==
  ASSUME Basic, Executable, NEW result \in Outcomes, Done(result), UNCHANGED start_pos
  PROVE  Basic'
<1>1. At + 1 \in Int /\ Height - Current.pops + Current.pushes \in Nat
  BY BasicFacts, CurrentFacts, SMTT(20)
<1>2. /\ GoTo(At + 1, Height - Current.pops + Current.pushes) /\ Returns(result)
      /\ Continues /\ UNCHANGED control
  BY DEF Done
<1> QED
  BY <1>1, <1>2, GoesBasic

LEMMA ResultsAreOutcomes ==
  /\ {"Normal", "Yield", "Terminate", "Err", "Panic", "PollPanic"} \cup Reports \subseteq Outcomes
  /\ \A op \in Plain : op # "Op" => op \in Outcomes
  /\ "Broadcast" \in Outcomes
BY DEF Outcomes, Reports, Plain

\* Calls that panic, and polls.
LEMMA PollsBasic ==
  ASSUME Basic, StepPanics \/ PollPending \/ PollFails \/ PollConsumed
  PROVE  Basic'
<1>1. ASSUME NEW result \in {"Panic", "PollPanic"}, Panic(result) PROVE Basic'
  BY <1>1, ResultsAreOutcomes DEF Panic, Basic, ControlOK, HeldOK, WaitingOK, HoldsOnlyWhileRunning,
     held, control, waiting
<1>2. CASE PollPending
  BY <1>2, ResultsAreOutcomes DEF PollPending, Returns, Basic, ControlOK, HeldOK, WaitingOK,
     HoldsOnlyWhileRunning, held, control, waiting
<1>3. CASE PollFails
  <2>1. pos \in Int /\ value_stack \in Nat /\ reply_key \in BOOLEAN /\ Fail(pos, value_stack, reply_key)
    BY <1>3 DEF PollFails, Basic, ControlOK, HeldOK
  <2>2. ControlOK' /\ HeldOK'
    BY <2>1, FailBasic
  <2>3. WaitingOK'
    BY <1>3 DEF PollFails, Basic, WaitingOK, Answers
  <2> QED
    BY <2>2, <2>3 DEF Basic
<1> QED
  BY <1>1, <1>2, <1>3 DEF StepPanics, PollConsumed

\* Instructions that touch neither frames nor handlers.
LEMMA SimpleBasic ==
  ASSUME Basic, ExecutePlain \/ Yield \/ JumpTo \/ JumpIf \/ PopFirst
  PROVE  Basic'
<1>1. Executable /\ UNCHANGED start_pos
  BY DEF ExecutePlain, Yield, JumpTo, JumpIf, PopFirst, Executes
<1>2. /\ At + 1 \in Int /\ Height \in Nat /\ Current.to \in Int
      /\ Height - Current.pops + Current.pushes \in Nat
  BY <1>1, BasicFacts, CurrentFacts, SMTT(20)
<1>3. CASE Fails
  BY <1>1, <1>3, FailsBasic
<1>4. CASE ExecutePlain /\ ~ Fails
  <2> DEFINE result == IF Current.op = "Op" THEN "Normal" ELSE Current.op
  <2>1. /\ GoTo(At + 1, Height - Current.pops + Current.pushes) /\ Returns(result)
        /\ Continues /\ UNCHANGED control
    BY <1>4 DEF ExecutePlain
  <2>2. result \in Outcomes
    BY <1>4, ResultsAreOutcomes DEF ExecutePlain, Executes
  <2> QED
    BY <1>1, <1>2, <2>1, <2>2, GoesBasic
<1>5. CASE Yield
  <2> DEFINE result == IF warp_counter = 0 THEN "Yield" ELSE "Normal"
  <2>1. /\ GoTo(At + 1, Height) /\ Returns(result) /\ Continues /\ UNCHANGED control
        /\ result \in Outcomes
    BY <1>5, ResultsAreOutcomes DEF Yield
  <2> QED
    BY <1>1, <1>2, <2>1, GoesBasic
<1>6. CASE JumpTo
  <2>1. /\ GoTo(Current.to, Height) /\ Returns("Normal") /\ Continues /\ UNCHANGED control
        /\ "Normal" \in Outcomes
    BY <1>6, ResultsAreOutcomes DEF JumpTo
  <2> QED
    BY <1>1, <1>2, <2>1, GoesBasic
<1>7. CASE JumpIf /\ ~ Fails
  <2>1. PICK to \in {Current.to, At + 1} : GoTo(to, Height - 1)
    BY <1>7 DEF JumpIf
  <2>2. /\ Returns("Normal") /\ Continues /\ UNCHANGED control /\ "Normal" \in Outcomes
    BY <1>7, ResultsAreOutcomes DEF JumpIf
  <2>3. Height - 1 \in Nat
    <3>1. Current.pops = 1
      BY <1>1, <1>7, CurrentFacts DEF JumpIf, Executes, Built
    <3> QED
      BY <1>1, <3>1, CurrentFacts
  <2> QED
    BY <1>1, <1>2, <2>1, <2>2, <2>3, GoesBasic
<1>8. CASE PopFirst /\ ~ Fails
  <2>1. PICK to \in {Current.to, At + 1}, height \in {Height, Height - 1} : GoTo(to, height)
    BY <1>8 DEF PopFirst
  <2>2. /\ Returns("Normal") /\ Continues /\ UNCHANGED control /\ "Normal" \in Outcomes
    BY <1>8, ResultsAreOutcomes DEF PopFirst
  <2>3. height \in Nat
    <3>1. Current.pops = 1
      BY <1>1, <1>8, CurrentFacts DEF PopFirst, Executes, Built
    <3>2. Height - 1 \in Nat
      BY <1>1, <3>1, CurrentFacts
    <3> QED
      BY <1>2, <3>2
  <2> QED
    BY <1>1, <1>2, <2>1, <2>2, <2>3, GoesBasic
<1> QED
  BY <1>3, <1>4, <1>5, <1>6, <1>7, <1>8

\* Calls and returns.
LEMMA CallsBasic ==
  ASSUME Basic, CallFunction \/ CallTheClosure \/ ReturnFrom
  PROVE  Basic'
<1>1. Executable /\ UNCHANGED start_pos
  BY DEF CallFunction, CallTheClosure, ReturnFrom, Ends, Executes
<1>2. /\ At \in Int /\ Height \in Nat /\ Current.to \in Int /\ Height - Current.pops \in Nat
      /\ Len(handler_stack) \in Nat /\ reply_key \in BOOLEAN
  BY <1>1, BasicFacts, CurrentFacts DEF Basic, HeldOK
<1>3. ASSUME NEW to \in Int, Enter(to) PROVE Basic'
  <2> DEFINE f == [called_from |-> At, return_to |-> At + 1, warp_counter |-> warp_counter,
                   value_stack_size |-> Height - Current.pops,
                   handler_stack_size |-> Len(handler_stack)]
  <2>1. /\ call_stack' = Append(call_stack, f) /\ GoTo(to, Height - Current.pops)
        /\ Returns("Normal") /\ Continues /\ UNCHANGED <<warp_counter, handler_stack>>
    BY <1>3 DEF Enter
  <2>2. f \in CallStackEntry
    BY <1>2 DEF CallStackEntry, Basic, ControlOK
  <2> HIDE DEF f
  <2>3. 1 \in 1 .. Len(call_stack) /\ call_stack \in Seq(CallStackEntry)
    BY BasicFacts DEF Basic, ControlOK
  <2>4. /\ call_stack' \in Seq(CallStackEntry) /\ call_stack' # <<>>
        /\ call_stack'[1] = call_stack[1]
    BY <2>1, <2>2, <2>3, Extended, AppendProperties
  <2>5. ControlOK'
    BY <1>2, <1>3, <2>1, <2>4 DEF GoTo, Basic, ControlOK
  <2>6. HeldOK' /\ WaitingOK'
    BY <1>1, <2>1, ReturnsBasic, ContinuesBasic, ResultsAreOutcomes
  <2> QED
    BY <2>5, <2>6 DEF Basic
<1>4. CASE CallFunction
  <2>1. CASE Fail(At, Height, reply_key) /\ Continues
    <3>1. ControlOK' /\ HeldOK'
      BY <1>2, <2>1, FailBasic
    <3>2. WaitingOK'
      BY <1>1, <2>1, ContinuesBasic
    <3> QED
      BY <3>1, <3>2 DEF Basic
  <2> QED
    BY <1>2, <1>3, <1>4, <2>1 DEF CallFunction
<1>5. CASE CallTheClosure
  <2>1. CASE Fails
    BY <1>1, <2>1, FailsBasic
  <2>2. ASSUME NEW to \in Closures, Enter(to) PROVE Basic'
    <3>1. to \in Int
      BY EntryAssumption
    <3> QED
      BY <1>3, <2>2, <3>1
  <2> QED
    BY <1>5, <2>1, <2>2 DEF CallTheClosure
<1>6. CASE ReturnFrom
  <2>1. /\ Top \in CallStackEntry /\ Len(call_stack) \in Nat \ {0} /\ Len(handler_stack) \in Nat
    BY BasicFacts
  <2>2. /\ Top.return_to \in Int /\ Top.warp_counter \in Nat /\ Top.value_stack_size \in Nat
        /\ Top.handler_stack_size \in Nat
    BY <2>1, FrameFacts
  <2>3. Top.handler_stack_size \in 0 .. Len(handler_stack)
    BY <1>6, <2>1, <2>2 DEF ReturnFrom, Ends, Executes, Executable, Missing
  <2>4. /\ handler_stack' \in Seq(Handler) /\ warp_counter' \in Nat
    BY <1>6, <2>2, <2>3, Prefix DEF ReturnFrom, Ends, Basic, ControlOK
  <2>5. WaitingOK'
    BY <1>1, <1>6, ContinuesBasic DEF ReturnFrom, Ends
  <2>6. CASE Len(call_stack) > 1
    <3> DEFINE m == Len(call_stack) - 1
    <3>1. call_stack' = Front(call_stack) /\ GoTo(Top.return_to, Top.value_stack_size + 1) /\ Returns("Normal")
      BY <1>6, <2>6 DEF ReturnFrom, Ends
    <3>2. m \in 0 .. Len(call_stack) /\ m # 0 /\ 1 \in 1 .. m
      <4> DEFINE c == Len(call_stack)
      <4>1. c \in Nat /\ c > 1
        BY <2>1, <2>6
      <4> HIDE DEF c
      <4>2. c - 1 \in 0 .. c /\ c - 1 # 0 /\ 1 \in 1 .. c - 1
        BY <4>1
      <4> QED
        BY <4>2 DEF c
    <3>3. call_stack' = SubSeq(call_stack, 1, m)
      BY <3>1, FrontLast DEF Basic, ControlOK
    <3> HIDE DEF m
    <3>4. /\ call_stack' \in Seq(CallStackEntry) /\ Len(call_stack') = m
          /\ call_stack'[1] = call_stack[1]
      BY <3>2, <3>3, Prefix DEF Basic, ControlOK
    <3>5. call_stack' # <<>>
      BY <3>2, <3>4
    <3>6. ControlOK'
      BY <2>2, <2>4, <3>1, <3>4, <3>5 DEF GoTo, Basic, ControlOK
    <3>7. HeldOK'
      BY <3>1, ReturnsBasic, ResultsAreOutcomes
    <3> QED
      BY <2>5, <3>6, <3>7 DEF Basic
  <2>7. CASE ~ (Len(call_stack) > 1)
    <3>1. /\ GoTo(Top.return_to, Top.value_stack_size)
          /\ running' = FALSE /\ barrier' = FALSE /\ reply_key' = FALSE
          /\ outcome' = "Terminate" /\ UNCHANGED call_stack
      BY <1>6, <2>7 DEF ReturnFrom, Ends
    <3>2. ControlOK'
      BY <2>2, <2>4, <3>1 DEF GoTo, Basic, ControlOK
    <3>3. HeldOK'
      BY <3>1, ResultsAreOutcomes DEF HeldOK, HoldsOnlyWhileRunning
    <3> QED
      BY <2>5, <3>2, <3>3 DEF Basic
  <2> QED
    BY <2>6, <2>7
<1> QED
  BY <1>4, <1>5, <1>6

\* Warp and try blocks.
LEMMA BlocksBasic ==
  ASSUME Basic, Warp \/ PushTheHandler \/ PopTheHandler
  PROVE  Basic'
<1>1. Executable /\ UNCHANGED start_pos
  BY DEF Warp, PushTheHandler, PopTheHandler, Executes
<1>2. /\ At + 1 \in Int /\ Height \in Nat /\ Current.to \in Int
      /\ Len(call_stack) \in Nat \ {0} /\ Len(handler_stack) \in Nat
  BY <1>1, BasicFacts, CurrentFacts
<1>3. GoTo(At + 1, Height) /\ Returns("Normal") /\ Continues /\ UNCHANGED call_stack
  BY DEF Warp, PushTheHandler, PopTheHandler
<1>4. HeldOK' /\ WaitingOK'
  BY <1>1, <1>3, ReturnsBasic, ContinuesBasic, ResultsAreOutcomes
<1>5. CASE Warp
  <2>1. warp_counter' \in Nat /\ UNCHANGED handler_stack
    BY <1>5 DEF Warp, Executes, Executable, Missing, Basic, ControlOK
  <2>2. ControlOK'
    BY <1>2, <1>3, <2>1 DEF GoTo, Basic, ControlOK
  <2> QED
    BY <1>4, <2>2 DEF Basic
<1>6. CASE PushTheHandler
  <2> DEFINE h == [pos |-> Current.to, warp_counter |-> warp_counter,
                   call_stack_size |-> Len(call_stack), value_stack_size |-> Height]
  <2>1. handler_stack' = Append(handler_stack, h) /\ UNCHANGED warp_counter
    BY <1>6 DEF PushTheHandler
  <2>2. h \in Handler
    BY <1>2 DEF Handler, Basic, ControlOK
  <2> HIDE DEF h
  <2>3. handler_stack' \in Seq(Handler)
    BY <2>1, <2>2, Extended DEF Basic, ControlOK
  <2>4. ControlOK'
    BY <1>2, <1>3, <2>1, <2>3 DEF GoTo, Basic, ControlOK
  <2> QED
    BY <1>4, <2>4 DEF Basic
<1>7. CASE PopTheHandler
  <2>1. handler_stack' = Front(handler_stack) /\ UNCHANGED warp_counter /\ handler_stack # <<>>
    BY <1>7 DEF PopTheHandler, Executes, Executable, Missing
  <2>2. Len(handler_stack) \in Nat \ {0} /\ handler_stack' = SubSeq(handler_stack, 1, Len(handler_stack) - 1)
    BY <2>1, FrontLast DEF Basic, ControlOK
  <2>3. Len(handler_stack) - 1 \in 0 .. Len(handler_stack)
    BY <2>2
  <2>4. handler_stack' \in Seq(Handler)
    BY <2>2, <2>3, Prefix DEF Basic, ControlOK
  <2>5. ControlOK'
    BY <1>2, <1>3, <2>1, <2>4 DEF GoTo, Basic, ControlOK
  <2> QED
    BY <1>4, <2>5 DEF Basic
<1> QED
  BY <1>5, <1>6, <1>7

\* Requests, messages and errors.
LEMMA RequestsBasic ==
  ASSUME Basic,
         ThrowError \/ PerformRequest \/ BroadcastAndWait \/ SleepFor \/ SendMessage \/ SendReply
  PROVE  Basic'
<1>1. Executable /\ UNCHANGED start_pos
  BY DEF ThrowError, PerformRequest, BroadcastAndWait, SleepFor, SendMessage, SendReply, Executes
<1>2. CASE Fails
  BY <1>1, <1>2, FailsBasic
<1>3. CASE (PerformRequest \/ BroadcastAndWait \/ SleepFor \/ SendMessage) /\ ~ Fails
  <2>1. Current.op \in Deferring
    BY <1>3 DEF PerformRequest, BroadcastAndWait, SleepFor, SendMessage, Executes, Deferring
  <2>2. \E result \in {"Normal", "Yield", "Broadcast"} : Wait(result) \/ Done(result)
    BY <1>3 DEF PerformRequest, BroadcastAndWait, SleepFor, SendMessage
  <2>3. {"Normal", "Yield", "Broadcast"} \subseteq Outcomes
    BY ResultsAreOutcomes
  <2> QED
    BY <1>1, <2>1, <2>2, <2>3, WaitBasic, DoneBasic
<1>4. CASE (ThrowError \/ SendReply) /\ ~ Fails
  <2>1. Continues /\ WaitingOK'
    BY <1>1, <1>4, ContinuesBasic DEF ThrowError, SendReply
  <2>2. Current.pops = 1
    BY <1>1, <1>4, CurrentFacts DEF ThrowError, SendReply, Executes, Built
  <2>3. /\ Height - 1 \in Nat /\ At \in Int /\ At + 1 \in Int
        /\ reply_key \in BOOLEAN /\ FALSE \in BOOLEAN
    BY <1>1, <2>2, BasicFacts, CurrentFacts DEF Basic, HeldOK
  <2>4. CASE Fail(At, Height - 1, reply_key) \/ (Fail(At, Height - 1, FALSE) /\ reply_key)
    <3>1. ControlOK' /\ HeldOK'
      BY <2>3, <2>4, FailBasic
    <3> QED
      BY <2>1, <3>1 DEF Basic
  <2>5. CASE /\ GoTo(At + 1, Height - 1) /\ reply_key' = FALSE /\ outcome' = "Normal"
             /\ UNCHANGED <<running, barrier, control>>
    <3>1. ControlOK'
      BY <2>3, <2>5, GoToBasic
    <3>2. HeldOK'
      BY <2>5, ResultsAreOutcomes DEF Basic, HeldOK, HoldsOnlyWhileRunning
    <3> QED
      BY <2>1, <3>1, <3>2 DEF Basic
  <2> QED
    BY <1>4, <2>4, <2>5 DEF ThrowError, SendReply
<1> QED
  BY <1>2, <1>3, <1>4

\* A process that is initialized, and answers from outside.
LEMMA OutsideBasic ==
  ASSUME Basic, (\E b, r \in BOOLEAN : Initialize(b, r)) \/ Complete
  PROVE  Basic'
<1>1. ASSUME NEW b \in BOOLEAN, NEW r \in BOOLEAN, Initialize(b, r) PROVE Basic'
  <2>1. 1 \in 0 .. Len(call_stack) /\ 1 \in 1 .. 1
    BY BasicFacts
  <2>2. /\ call_stack' \in Seq(CallStackEntry) /\ Len(call_stack') = 1
        /\ call_stack'[1] = call_stack[1]
    BY <1>1, <2>1, Prefix DEF Initialize, Basic, ControlOK
  <2>3. ControlOK'
    BY <1>1, <2>2, EntryAssumption DEF Initialize, Basic, ControlOK, WaitingOK
  <2>4. HeldOK'
    BY <1>1 DEF Initialize, HeldOK, HoldsOnlyWhileRunning, Outcomes
  <2>5. WaitingOK'
    BY <1>1 DEF Initialize, Basic, WaitingOK, Answers
  <2> QED
    BY <2>3, <2>4, <2>5 DEF Basic
<1>2. CASE Complete
  <2>1. /\ answer = "pending" /\ answer' \in {"ok", "err"} /\ UNCHANGED defer
        /\ UNCHANGED <<start_pos, pos, held, control, value_stack, outcome>>
    BY <1>2 DEF Complete
  <2>2. ControlOK' /\ HeldOK'
    BY <2>1 DEF Basic, ControlOK, HeldOK, HoldsOnlyWhileRunning, control, held
  <2>3. WaitingOK'
    BY <2>1 DEF Basic, WaitingOK, Answers
  <2> QED
    BY <2>2, <2>3 DEF Basic
<1> QED
  BY <1>1, <1>2

LEMMA StepBasic ==
  ASSUME Basic, Step
  PROVE  Basic'
BY PollsBasic, SimpleBasic, CallsBasic, BlocksBasic, RequestsBasic DEF Step

LEMMA InitBasic == Init => Basic
<1> SUFFICES ASSUME Init PROVE Basic
  OBVIOUS
<1>1. RootFrame \in CallStackEntry
  BY DEF RootFrame, CallStackEntry, NoPos
<1>2. ControlOK
  BY <1>1 DEF Init, ControlOK
<1>3. HeldOK /\ WaitingOK
  BY DEF Init, HeldOK, HoldsOnlyWhileRunning, WaitingOK, Outcomes, Answers
<1> QED
  BY <1>2, <1>3 DEF Basic

LEMMA StutterBasic ==
  ASSUME Basic, UNCHANGED vars
  PROVE  Basic'
BY DEF vars, held, control, waiting, Basic, ControlOK, HeldOK, WaitingOK, HoldsOnlyWhileRunning

\* The control state of a process keeps its shape, whatever the code and the order in
\* which the host and the system call and answer it.
THEOREM BasicHolds == Spec => []Basic
<1>1. Basic /\ [Next]_vars => Basic'
  BY StepBasic, OutsideBasic, StutterBasic DEF Next
<1> QED
  BY InitBasic, <1>1, PTL DEF Spec

\* The type invariant of a process.
THEOREM ProcessTypeCorrect == Spec => []TypeOK
<1>1. Basic => TypeOK
  BY DEF Basic, ControlOK, HeldOK, WaitingOK, TypeOK
<1> QED
  BY BasicHolds, <1>1, PTL

\* However a process ends, it drops its barrier and its reply key.
THEOREM DropsWhatItHolds == Spec => []HoldsOnlyWhileRunning
<1>1. Basic => HoldsOnlyWhileRunning
  BY DEF Basic, HeldOK
<1> QED
  BY BasicHolds, <1>1, PTL

-----------------------------------------------------------------------------
(* Running processes are balanced.                                         *)

Sane == running /\ ~Panicked /\ answer # "consumed"

\* The values that the deferred instruction took.
Awaited == IF defer = NoDefer THEN 0 ELSE Code[pos].pops

DeferredHere ==
  defer # NoDefer => /\ defer.aft_pos = pos + 1
                     /\ Code[pos].op \in Deferring
                     /\ defer.pushes = Code[pos].pushes

Balance ==
  Sane => /\ DeferredHere
          /\ Stacks(call_stack, handler_stack, pos, value_stack + Awaited, warp_counter)

\* The inductive invariant.
IInv == Basic /\ StackSafe /\ Balance

\* The stacks at the next instruction are what it is to find.
LEMMA StacksHere ==
  ASSUME IInv, Ready, running
  PROVE  Stacks(call_stack, handler_stack, At, Height, warp_counter)
<1>1. Sane /\ Basic
  BY DEF IInv, Ready, Stepped, Resumes, Basic, WaitingOK, Sane
<1>2. DeferredHere /\ Stacks(call_stack, handler_stack, pos, value_stack + Awaited, warp_counter)
  BY <1>1 DEF IInv, Balance
<1>3. CASE defer = NoDefer
  <2>1. At = pos /\ Height = value_stack /\ value_stack + Awaited = value_stack
    BY <1>1, <1>3 DEF At, Height, Awaited, Basic, ControlOK
  <2> QED
    BY <1>2, <2>1
<1>4. CASE defer # NoDefer
  <2> DEFINE ins == Code[pos]
             s == Shape[pos]
             q == pos + 1
  <2>1. /\ At = q /\ Height = value_stack + ins.pushes /\ ins.op \in Deferring
        /\ value_stack + Awaited = value_stack + ins.pops
    BY <1>2, <1>4 DEF At, Height, Awaited, DeferredHere
  <2>2. pos \in DOMAIN Shape
    BY <1>2, StacksFacts
  <2>3. /\ ins \in Instruction /\ s.values \in Nat /\ s.warp \in Nat /\ Flows(Code, Shape, pos)
    BY <2>2, CodeFacts
  <2>4. ins.pops \in Nat /\ ins.pushes \in Nat
    BY <2>3, InstructionFacts
  <2>5. q \in DOMAIN Shape /\ Shape[q] = After(ins, s)
    BY <2>1, <2>3 DEF Flows, GoesOn, Deferring
  <2>6. /\ Shape[q].handlers = s.handlers /\ Shape[q].warp = s.warp
        /\ Shape[q].values = s.values - ins.pops + ins.pushes
    BY <2>1, <2>5 DEF After, Deferring
  <2>7. Stacks(call_stack, handler_stack, q,
               (value_stack + Awaited) - s.values + Shape[q].values,
               warp_counter - s.warp + Shape[q].warp)
    <3>1. q \in DOMAIN Shape /\ Shape[q].handlers = Shape[pos].handlers
      BY <2>5, <2>6
    <3> DEFINE height == value_stack + Awaited
    <3>2. Stacks(call_stack, handler_stack, pos, height, warp_counter)
      BY <1>2
    <3> HIDE DEF q, height
    <3>3. Stacks(call_stack, handler_stack, q, height - Shape[pos].values + Shape[q].values,
                 warp_counter - Shape[pos].warp + Shape[q].warp)
      BY <3>1, <3>2, Moved
    <3> QED
      BY <3>3 DEF q, height
  <2>8. value_stack \in Nat /\ warp_counter \in Nat
    BY <1>1 DEF Basic, ControlOK
  <2>9. /\ (value_stack + Awaited) - s.values + Shape[q].values = Height
        /\ warp_counter - s.warp + Shape[q].warp = warp_counter
    <3> DEFINE a == ins.pops
               b == ins.pushes
               v == s.values
               w == s.warp
               height == value_stack + Awaited
    <3>1. /\ a \in Nat /\ b \in Nat /\ v \in Nat /\ w \in Nat /\ height = value_stack + a
          /\ Shape[q].values = v - a + b /\ Shape[q].warp = w /\ Height = value_stack + b
      BY <2>1, <2>3, <2>4, <2>6
    <3> HIDE DEF a, b, v, w, q, height
    <3>2. height - v + Shape[q].values = Height /\ warp_counter - w + Shape[q].warp = warp_counter
      BY <2>8, <3>1
    <3> QED
      BY <3>2 DEF v, w, q, height
  <2> QED
    BY <2>1, <2>7, <2>9
<1> QED
  BY <1>3, <1>4

\* The instruction finds what it needs.
LEMMA NothingMissing ==
  ASSUME IInv, Ready, running
  PROVE  Executable
<1> DEFINE s == Shape[At]
           values == s.values
           size == Top.value_stack_size
           tries == Len(s.handlers)
           below == Top.handler_stack_size
           needs == Current.needs
<1>1. Stacks(call_stack, handler_stack, At, Height, warp_counter)
  BY StacksHere
<1>2. /\ At \in DOMAIN Shape /\ Top \in CallStackEntry
      /\ Height = size + values /\ warp_counter = Top.warp_counter + s.warp
      /\ Len(handler_stack) = below + tries
      /\ Height \in Nat /\ Len(handler_stack) \in Nat
  BY <1>1, StacksFacts DEF Top
<1>3. /\ At \in DOMAIN Code /\ Current \in Instruction /\ Supplied(Current, s) /\ Built(Current)
      /\ values \in Nat /\ s.warp \in Nat /\ s.handlers \in Seq(TryBlock) /\ tries \in Nat
  BY <1>2, CodeFacts, SequenceFacts DEF Current
<1>4. /\ size \in Nat /\ below \in Nat /\ Top.warp_counter \in Nat
      /\ needs \in Nat /\ Current.pops \in Nat /\ Current.pops <= needs /\ needs <= values
  BY <1>2, <1>3, FrameFacts, InstructionFacts DEF Supplied
<1>5. ~ (Height < needs)
  <2> HIDE DEF values, size, needs
  <2> QED
    BY <1>2, <1>3, <1>4
<1>6. ~ (Current.op = "WarpStop" /\ warp_counter = 0)
  <2>1. Current.op = "WarpStop" => s.warp > 0
    BY <1>3 DEF Supplied
  <2> QED
    BY <1>2, <1>3, <1>4, <2>1
<1>7. ~ (Current.op = "PopHandler" /\ handler_stack = <<>>)
  <2>1. SUFFICES ASSUME Current.op = "PopHandler" PROVE handler_stack # <<>>
    OBVIOUS
  <2>2. s.handlers # <<>>
    BY <1>3, <2>1 DEF Supplied
  <2>3. tries # 0
    BY <1>3, <2>2, EmptySeq
  <2>4. Len(handler_stack) # 0
    <3> HIDE DEF tries, below
    <3> QED
      BY <1>2, <1>3, <1>4, <2>3
  <2> QED
    BY <2>4
<1>8. Current.op = "Return" => /\ ~ (Height - 1 < Top.value_stack_size)
                               /\ ~ (Len(handler_stack) < Top.handler_stack_size)
  <2>1. Current.op = "Return" => Current.pops = 1
    BY <1>3 DEF Built
  <2> HIDE DEF values, size, needs, tries, below
  <2>2. Current.op = "Return" => ~ (Height - 1 < size) /\ ~ (Len(handler_stack) < below)
    BY <1>2, <1>3, <1>4, <2>1
  <2> QED
    BY <2>2 DEF size, below
<1> QED
  BY <1>3, <1>5, <1>6, <1>7, <1>8 DEF Executable, Missing

\* No step starts a process.
LEMMA StepStartsNothing ==
  ASSUME Step, running' \in BOOLEAN
  PROVE  running' => running
<1>1. ASSUME NEW at, NEW height, NEW key, Fail(at, height, key) PROVE running' => running
  BY <1>1 DEF Fail, Ends, Catch
<1>2. ASSUME NEW result, Returns(result) PROVE running' => running
  BY <1>2 DEF Returns, held
<1>3. Fails => (running' => running)
  BY <1>1 DEF Fails
<1>4. ASSUME NEW result, Wait(result) \/ Done(result) PROVE running' => running
  BY <1>2, <1>4 DEF Wait, Done
<1>5. ASSUME NEW result, Panic(result) PROVE running' => running
  BY <1>5 DEF Panic, held
<1>6. ASSUME NEW to, Enter(to) PROVE running' => running
  BY <1>2, <1>6 DEF Enter
<1>7. CASE StepPanics \/ PollPending \/ PollFails \/ PollConsumed
  BY <1>1, <1>2, <1>5, <1>7 DEF StepPanics, PollPending, PollFails, PollConsumed
<1>8. CASE ExecutePlain \/ Yield \/ Warp \/ JumpTo \/ JumpIf \/ PopFirst
  BY <1>2, <1>3, <1>8 DEF ExecutePlain, Yield, Warp, JumpTo, JumpIf, PopFirst
<1>9. CASE CallFunction \/ CallTheClosure \/ ReturnFrom \/ PushTheHandler \/ PopTheHandler \/ ThrowError
  BY <1>1, <1>2, <1>3, <1>6, <1>9
     DEF CallFunction, CallTheClosure, ReturnFrom, Ends, PushTheHandler, PopTheHandler, ThrowError
<1>10. CASE PerformRequest \/ BroadcastAndWait \/ SleepFor \/ SendMessage \/ SendReply
  BY <1>1, <1>3, <1>4, <1>10
     DEF PerformRequest, BroadcastAndWait, SleepFor, SendMessage, SendReply
<1> QED
  BY <1>7, <1>8, <1>9, <1>10 DEF Step

\* A process that goes on, with its stacks as they should be.
LEMMA Settled ==
  ASSUME Basic', Continues, outcome' # "Panic",
         Stacks(call_stack', handler_stack', pos', value_stack', warp_counter')
  PROVE  StackSafe' /\ Balance'
<1>1. defer' = NoDefer /\ Awaited' = 0
  BY DEF Continues, Awaited
<1>2. value_stack' + Awaited' = value_stack'
  <2>1. value_stack' \in Nat
    BY DEF Basic, ControlOK
  <2>2. \A n \in Nat : n + 0 = n
    OBVIOUS
  <2> QED
    BY <1>1, <2>1, <2>2
<1>3. DeferredHere'
  BY <1>1 DEF DeferredHere
<1> QED
  BY <1>2, <1>3 DEF StackSafe, Balance

\* An error of the instruction at p, which has taken no more than its operands.
LEMMA FailStacks ==
  ASSUME Basic, NEW p, NEW height0,
         Stacks(call_stack, handler_stack, p, height0, warp_counter),
         Code[p].fails,
         NEW height \in Int, height0 - Code[p].pops <= height,
         NEW at, NEW key, Fail(at, height, key)
  PROVE  \/ running' = FALSE
         \/ /\ outcome' # "Panic"
            /\ Stacks(call_stack', handler_stack', pos', value_stack', warp_counter')
<1>1. CASE handler_stack = <<>>
  BY <1>1 DEF Fail, Ends, Catch
<1>2. CASE handler_stack # <<>>
  <2> DEFINE h == Last(handler_stack)
  <2>1. /\ h.call_stack_size <= Len(call_stack) /\ h.value_stack_size <= height
        /\ Stacks(SubSeq(call_stack, 1, h.call_stack_size), handler_stack, h.pos,
                  h.value_stack_size, h.warp_counter)
    BY <1>2, Caught
  <2>2. h.call_stack_size \in Nat \ {0} /\ h.value_stack_size \in Nat /\ Len(call_stack) \in Nat
    BY <1>2, FrontLast, HandlerFacts, BasicFacts DEF Basic, ControlOK
  <2>3. ~ (h.call_stack_size > Len(call_stack) \/ h.value_stack_size > height)
    BY <2>1, <2>2
  <2>4. /\ warp_counter' = h.warp_counter /\ call_stack' = SubSeq(call_stack, 1, h.call_stack_size)
        /\ pos' = h.pos /\ value_stack' = h.value_stack_size
        /\ outcome' = "Normal" /\ handler_stack' = handler_stack
    BY <1>2, <2>3 DEF Fail, Ends, Catch, GoTo
  <2> QED
    BY <2>1, <2>4
<1> QED
  BY <1>1, <1>2

\* What a running process has when it executes an instruction.
LEMMA HereFacts ==
  ASSUME IInv, Ready, running
  PROVE  /\ Stacks(call_stack, handler_stack, At, Height, warp_counter)
         /\ At \in DOMAIN Shape /\ At \in Int /\ Height \in Nat /\ warp_counter \in Nat
         /\ Current = Code[At] /\ Current \in Instruction /\ Built(Current)
         /\ Current.pops \in Nat /\ Current.pushes \in Nat
         /\ Shape[At].values \in Nat /\ Shape[At].warp \in Nat
         /\ Shape[At].handlers \in Seq(TryBlock)
         /\ Supplied(Current, Shape[At]) /\ Flows(Code, Shape, At)
<1>1. Stacks(call_stack, handler_stack, At, Height, warp_counter)
  BY StacksHere
<1>2. At \in DOMAIN Shape /\ Height \in Nat /\ warp_counter \in Nat
  BY <1>1, StacksFacts
<1>3. Current = Code[At]
  BY DEF Current
<1> QED
  BY <1>1, <1>2, <1>3, CodeFacts, InstructionFacts

\* An error of the current instruction.
LEMMA FailsHere ==
  ASSUME IInv, Ready, running, Basic', Continues, Current.fails,
         NEW height \in Int, Height - Current.pops <= height,
         NEW key, Fail(At, height, key)
  PROVE  running' => StackSafe' /\ Balance'
<1>1. \/ running' = FALSE
      \/ /\ outcome' # "Panic"
         /\ Stacks(call_stack', handler_stack', pos', value_stack', warp_counter')
  <2>1. /\ Basic /\ Stacks(call_stack, handler_stack, At, Height, warp_counter)
        /\ Code[At].fails /\ Height - Code[At].pops <= height
    BY HereFacts DEF IInv
  <2> QED
    BY <2>1, FailStacks
<1> QED
  BY <1>1, Settled

LEMMA FailsBalanced ==
  ASSUME IInv, Ready, running, Basic', Fails
  PROVE  running' => StackSafe' /\ Balance'
<1>1. PICK k \in 0 .. Current.pops : Fail(At, Height - k, reply_key)
  BY DEF Fails
<1>2. Current.fails /\ Continues
  BY DEF Fails
<1>3. Height - k \in Int /\ Height - Current.pops <= Height - k
  <2> DEFINE pops == Current.pops
  <2>1. pops \in Nat /\ Height \in Nat /\ k \in 0 .. pops
    BY HereFacts
  <2> HIDE DEF pops
  <2>2. Height - k \in Int /\ Height - pops <= Height - k
    BY <2>1
  <2> QED
    BY <2>2 DEF pops
<1> QED
  BY <1>1, <1>2, <1>3, FailsHere

\* The process goes on at q, with the same frames and handlers.
LEMMA GoesTo ==
  ASSUME IInv, Ready, running, Basic', Continues, outcome' # "Panic",
         NEW q \in DOMAIN Shape, Shape[q].handlers = Shape[At].handlers,
         NEW height, GoTo(q, height),
         height = Height - Shape[At].values + Shape[q].values,
         warp_counter' = warp_counter - Shape[At].warp + Shape[q].warp,
         UNCHANGED <<call_stack, handler_stack>>
  PROVE  StackSafe' /\ Balance'
<1>1. Stacks(call_stack, handler_stack, q, height, warp_counter')
  BY HereFacts, Moved
<1>2. Stacks(call_stack', handler_stack', pos', value_stack', warp_counter')
  BY <1>1 DEF GoTo
<1> QED
  BY <1>2, Settled

\* Instructions that go on with the next one and leave blocks as they are.
InBlock == Ops \ {"Jump", "Return", "Throw", "WarpStart", "WarpStop", "PushHandler", "PopHandler"}

LEMMA NextFinds ==
  ASSUME IInv, Ready, running, Current.op \in InBlock
  PROVE  /\ At + 1 \in DOMAIN Shape /\ Shape[At + 1].handlers = Shape[At].handlers
         /\ Shape[At + 1].warp = Shape[At].warp
         /\ Height - Current.pops + Current.pushes = Height - Shape[At].values + Shape[At + 1].values
         /\ warp_counter = warp_counter - Shape[At].warp + Shape[At + 1].warp
<1> DEFINE v == Shape[At].values
           w == Shape[At].warp
           a == Current.pops
           b == Current.pushes
           q == At + 1
<1>1. q \in DOMAIN Shape /\ Shape[q] = After(Current, Shape[At])
  BY HereFacts DEF Flows, GoesOn, InBlock
<1>2. /\ Shape[q].handlers = Shape[At].handlers /\ Shape[q].warp = w
      /\ Shape[q].values = v - a + b
  BY <1>1 DEF After, InBlock
<1>3. v \in Nat /\ w \in Nat /\ a \in Nat /\ b \in Nat /\ Height \in Nat /\ warp_counter \in Nat
  BY HereFacts
<1> HIDE DEF v, w, a, b, q
<1>4. Height - a + b = Height - v + Shape[q].values /\ warp_counter = warp_counter - w + Shape[q].warp
  BY <1>2, <1>3
<1> QED
  BY <1>1, <1>2, <1>4 DEF v, w, a, b, q

\* The next instruction, in the same block.
LEMMA GoesOnBalanced ==
  ASSUME IInv, Ready, running, Basic', Continues, outcome' # "Panic", Current.op \in InBlock,
         GoTo(At + 1, Height - Current.pops + Current.pushes), UNCHANGED control
  PROVE  StackSafe' /\ Balance'
<1> DEFINE q == At + 1
           height == Height - Current.pops + Current.pushes
<1>1. /\ q \in DOMAIN Shape /\ Shape[q].handlers = Shape[At].handlers
      /\ height = Height - Shape[At].values + Shape[q].values
      /\ warp_counter' = warp_counter - Shape[At].warp + Shape[q].warp
      /\ GoTo(q, height) /\ UNCHANGED <<call_stack, handler_stack>>
  BY NextFinds DEF control
<1> HIDE DEF q, height
<1> QED
  BY <1>1, GoesTo

\* The target of a jump, in the same block.
LEMMA TargetFinds ==
  ASSUME IInv, Ready, running, Current.op \in {"Jump", "ConditionalJump", "ListPopFirstOrElse"},
         NEW left, left = IF Current.op = "Jump" THEN Height ELSE Height - 1
  PROVE  /\ Current.to \in DOMAIN Shape /\ Shape[Current.to].handlers = Shape[At].handlers
         /\ left = Height - Shape[At].values + Shape[Current.to].values
         /\ warp_counter = warp_counter - Shape[At].warp + Shape[Current.to].warp
<1> DEFINE v == Shape[At].values
           w == Shape[At].warp
           k == IF Current.op = "Jump" THEN 0 ELSE 1
           q == Current.to
<1>1. q \in DOMAIN Shape /\ Shape[q] = AtTarget(Current, Shape[At])
  BY HereFacts DEF Flows, Jumps
<1>2. v \in Nat /\ w \in Nat /\ Height \in Nat /\ warp_counter \in Nat /\ Built(Current)
  BY HereFacts
<1>3. Shape[q].handlers = Shape[At].handlers /\ Shape[q].warp = w /\ Shape[q].values = v - k
  <2>1. CASE Current.op = "ListPopFirstOrElse"
    <3>1. Shape[q] = [Shape[At] EXCEPT !.values = Shape[At].values - 1]
      BY <1>1, <2>1 DEF AtTarget
    <3>2. Shape[At] \in Shapes
      BY HereFacts, CodeFacts
    <3> QED
      BY <2>1, <3>1, <3>2 DEF Shapes
  <2>2. CASE Current.op \in {"Jump", "ConditionalJump"}
    <3>1. Current.pops = k /\ Current.pushes = 0
      BY <1>2, <2>2 DEF Built
    <3>2. Shape[q] = After(Current, Shape[At])
      BY <1>1, <2>2 DEF AtTarget
    <3>3. /\ Shape[q].handlers = Shape[At].handlers /\ Shape[q].warp = w
          /\ Shape[q].values = v - k + 0
      BY <2>2, <3>1, <3>2 DEF After
    <3>4. k \in Nat
      OBVIOUS
    <3> HIDE DEF v, k
    <3>5. v - k + 0 = v - k
      BY <1>2, <3>4
    <3> QED
      BY <3>3, <3>5
  <2> QED
    BY <2>1, <2>2
<1>4. left = Height - k /\ k \in Nat
  <2>1. Height - 0 = Height
    BY <1>2
  <2> QED
    BY <2>1
<1> HIDE DEF v, w, k, q
<1>5. left = Height - v + Shape[q].values /\ warp_counter = warp_counter - w + Shape[q].warp
  BY <1>2, <1>3, <1>4
<1> QED
  BY <1>1, <1>3, <1>5 DEF v, w, q

\* The process jumps.
LEMMA JumpBalanced ==
  ASSUME IInv, Ready, running, Basic', Continues, outcome' # "Panic",
         Current.op \in {"Jump", "ConditionalJump", "ListPopFirstOrElse"},
         NEW left, left = IF Current.op = "Jump" THEN Height ELSE Height - 1,
         GoTo(Current.to, left), UNCHANGED control
  PROVE  StackSafe' /\ Balance'
<1> DEFINE q == Current.to
<1>1. /\ q \in DOMAIN Shape /\ Shape[q].handlers = Shape[At].handlers
      /\ left = Height - Shape[At].values + Shape[q].values
      /\ warp_counter' = warp_counter - Shape[At].warp + Shape[q].warp
      /\ GoTo(q, left) /\ UNCHANGED <<call_stack, handler_stack>>
  BY TargetFinds DEF control
<1> HIDE DEF q
<1> QED
  BY <1>1, GoesTo

-----------------------------------------------------------------------------
(* One lemma for each group of actions.                                    *)

\* A step of a process that waits.
LEMMA PollsBalanced ==
  ASSUME IInv, running, Basic', StepPanics \/ PollPending \/ PollFails \/ PollConsumed
  PROVE  running' => StackSafe' /\ Balance'
<1>1. CASE StepPanics
  BY <1>1, NothingMissing DEF StepPanics
<1>2. CASE PollPending
  <2>1. /\ outcome' = "Yield" /\ UNCHANGED <<running, call_stack, handler_stack, warp_counter>>
        /\ UNCHANGED <<pos, value_stack, defer, answer>> /\ Sane
    BY <1>2 DEF PollPending, Returns, held, control, waiting, Stepped, Sane
  <2>2. DeferredHere /\ Stacks(call_stack, handler_stack, pos, value_stack + Awaited, warp_counter)
    BY <2>1 DEF IInv, Balance
  <2>3. Awaited' = Awaited /\ DeferredHere'
    BY <2>1, <2>2 DEF Awaited, DeferredHere
  <2>4. Stacks(call_stack', handler_stack', pos', value_stack' + Awaited', warp_counter')
    BY <2>1, <2>2, <2>3
  <2> QED
    BY <2>1, <2>3, <2>4 DEF StackSafe, Balance
<1>3. CASE PollFails
  <2> DEFINE height0 == value_stack + Awaited
  <2>1. Fail(pos, value_stack, reply_key) /\ answer' = "consumed" /\ Sane /\ defer # NoDefer
    BY <1>3 DEF PollFails, Stepped, Sane, IInv, Basic, WaitingOK
  <2>2. DeferredHere /\ Stacks(call_stack, handler_stack, pos, height0, warp_counter)
    BY <2>1 DEF IInv, Balance
  <2>3. pos \in DOMAIN Shape /\ Code[pos].op \in Deferring
    BY <2>1, <2>2, StacksFacts DEF DeferredHere
  <2>4. Code[pos].fails /\ Code[pos].pops \in Nat
    BY <2>3, CodeFacts, InstructionFacts DEF Built
  <2>5. value_stack \in Int /\ value_stack \in Nat
    BY DEF IInv, Basic, ControlOK
  <2>6. height0 - Code[pos].pops <= value_stack
    <3> DEFINE k == Code[pos].pops
    <3>1. height0 = value_stack + k /\ k \in Nat
      BY <2>1, <2>4 DEF Awaited
    <3> HIDE DEF k, height0
    <3>2. height0 - k <= value_stack
      BY <2>5, <3>1
    <3> QED
      BY <3>2 DEF k
  <2>7. running' = FALSE \/ outcome' # "Panic"
    <3> HIDE DEF height0
    <3> QED
      BY <2>1, <2>2, <2>4, <2>5, <2>6, FailStacks DEF IInv
  <2> QED
    BY <2>1, <2>7 DEF StackSafe, Balance, Sane
<1>4. CASE PollConsumed
  BY <1>4 DEF PollConsumed, Panic, StackSafe, Balance, Sane, Panicked
<1> QED
  BY <1>1, <1>2, <1>3, <1>4

\* Instructions that leave the blocks as they are.
LEMMA SimpleBalanced ==
  ASSUME IInv, running, Basic', ExecutePlain \/ Yield \/ JumpTo \/ JumpIf \/ PopFirst
  PROVE  running' => StackSafe' /\ Balance'
<1>1. CASE ExecutePlain
  <2>1. Ready /\ Current.op \in Plain
    BY <1>1 DEF ExecutePlain, Executes
  <2>2. CASE Fails
    BY <2>1, <2>2, FailsBalanced
  <2>3. CASE /\ GoTo(At + 1, Height - Current.pops + Current.pushes)
             /\ Returns(IF Current.op = "Op" THEN "Normal" ELSE Current.op)
             /\ Continues /\ UNCHANGED control
    <3>1. outcome' # "Panic" /\ Current.op \in InBlock
      BY <2>1, <2>3 DEF Returns, Plain, Reports, InBlock, Ops
    <3> QED
      BY <2>1, <2>3, <3>1, GoesOnBalanced
  <2> QED
    BY <1>1, <2>2, <2>3 DEF ExecutePlain
<1>2. CASE Yield
  <2>1. Ready /\ Current.op = "Yield" /\ Current.op \in InBlock
    BY <1>2 DEF Yield, Executes, InBlock, Ops
  <2>2. Height - Current.pops + Current.pushes = Height
    <3>1. Current.pops = 0 /\ Current.pushes = 0 /\ Height \in Nat
      BY <2>1, HereFacts DEF Built
    <3>2. Height - 0 + 0 = Height
      BY <3>1
    <3> QED
      BY <3>1, <3>2
  <2>3. /\ GoTo(At + 1, Height - Current.pops + Current.pushes)
        /\ Continues /\ UNCHANGED control /\ outcome' # "Panic"
    BY <1>2, <2>2 DEF Yield, Returns
  <2> QED
    BY <2>1, <2>3, GoesOnBalanced
<1>3. CASE JumpTo
  <2>1. /\ Ready /\ Current.op = "Jump" /\ GoTo(Current.to, Height)
        /\ Continues /\ UNCHANGED control /\ outcome' # "Panic"
    BY <1>3 DEF JumpTo, Executes, Returns
  <2> QED
    BY <2>1, JumpBalanced
<1>4. CASE JumpIf
  <2>1. Ready /\ Current.op = "ConditionalJump" /\ Current.op \in InBlock
    BY <1>4 DEF JumpIf, Executes, InBlock, Ops, Jumps
  <2>2. CASE Fails
    BY <2>1, <2>2, FailsBalanced
  <2>3. CASE ~Fails
    <3>1. /\ GoTo(Current.to, Height - 1) \/ GoTo(At + 1, Height - 1)
          /\ Continues /\ UNCHANGED control /\ outcome' # "Panic"
      BY <1>4, <2>3 DEF JumpIf, Returns
    <3>2. Height - Current.pops + Current.pushes = Height - 1
      <4>1. Current.pops = 1 /\ Current.pushes = 0 /\ Height \in Nat
        BY <2>1, HereFacts DEF Built
      <4>2. Height - 1 + 0 = Height - 1
        BY <4>1
      <4> QED
        BY <4>1, <4>2
    <3>3. CASE GoTo(Current.to, Height - 1)
      BY <2>1, <3>1, <3>3, JumpBalanced
    <3>4. CASE GoTo(At + 1, Height - 1)
      <4>1. GoTo(At + 1, Height - Current.pops + Current.pushes)
        BY <3>2, <3>4
      <4> QED
        BY <2>1, <3>1, <4>1, GoesOnBalanced
    <3> QED
      BY <3>1, <3>3, <3>4
  <2> QED
    BY <2>2, <2>3
<1>5. CASE PopFirst
  <2>1. Ready /\ Current.op = "ListPopFirstOrElse" /\ Current.op \in InBlock
    BY <1>5 DEF PopFirst, Executes, InBlock, Ops, Jumps
  <2>2. CASE Fails
    BY <2>1, <2>2, FailsBalanced
  <2>3. CASE ~Fails
    <3>1. /\ GoTo(At + 1, Height) \/ GoTo(Current.to, Height - 1)
          /\ Continues /\ UNCHANGED control /\ outcome' # "Panic"
      BY <1>5, <2>3 DEF PopFirst, Returns
    <3>2. Height - Current.pops + Current.pushes = Height
      <4>1. Current.pops = 1 /\ Current.pushes = 1 /\ Height \in Nat
        BY <2>1, HereFacts DEF Built
      <4>2. Height - 1 + 1 = Height
        BY <4>1
      <4> QED
        BY <4>1, <4>2
    <3>3. CASE GoTo(Current.to, Height - 1)
      BY <2>1, <3>1, <3>3, JumpBalanced
    <3>4. CASE GoTo(At + 1, Height)
      <4>1. GoTo(At + 1, Height - Current.pops + Current.pushes)
        BY <3>2, <3>4
      <4> QED
        BY <2>1, <3>1, <4>1, GoesOnBalanced
    <3> QED
      BY <3>1, <3>3, <3>4
  <2> QED
    BY <2>2, <2>3
<1> QED
  BY <1>1, <1>2, <1>3, <1>4, <1>5

\* Blocks that begin and end: warp blocks and try blocks.
LEMMA BlocksBalanced ==
  ASSUME IInv, running, Basic', Warp \/ PushTheHandler \/ PopTheHandler
  PROVE  running' => StackSafe' /\ Balance'
<1> DEFINE s == Shape[At]
           q == At + 1
<1>1. /\ Ready /\ Continues /\ outcome' # "Panic" /\ GoTo(q, Height)
      /\ Current.op \in {"WarpStart", "WarpStop", "PushHandler", "PopHandler"}
  BY DEF Warp, PushTheHandler, PopTheHandler, Executes, Returns
<1>2. Stacks(call_stack, handler_stack, At, Height, warp_counter)
  BY <1>1, StacksHere
<1>3. q \in DOMAIN Shape /\ Shape[q] = After(Current, s)
  BY <1>1, HereFacts DEF Flows, GoesOn
<1>4. s.values - Current.pops + Current.pushes = s.values
  <2>1. Current.pops = 0 /\ Current.pushes = 0 /\ s.values \in Nat
    BY <1>1, HereFacts DEF Built
  <2> DEFINE v == s.values
  <2>2. v \in Nat
    BY <2>1
  <2> HIDE DEF v
  <2>3. v - 0 + 0 = v
    BY <2>2
  <2> QED
    BY <2>1, <2>3 DEF v
<1>5. CASE Warp
  <2>1. /\ Current.op \in {"WarpStart", "WarpStop"}
        /\ warp_counter' = IF Current.op = "WarpStart" THEN warp_counter + 1 ELSE warp_counter - 1
        /\ UNCHANGED <<call_stack, handler_stack>>
    BY <1>5 DEF Warp, Executes
  <2>2. /\ Shape[q].handlers = s.handlers /\ Shape[q].values = s.values
        /\ Shape[q].warp = IF Current.op = "WarpStart" THEN s.warp + 1 ELSE s.warp - 1
    BY <1>3, <1>4, <2>1 DEF After
  <2>3. s.warp \in Nat /\ s.values \in Nat /\ warp_counter \in Nat /\ Height \in Nat
    BY <1>1, HereFacts
  <2>4. Height = Height - Shape[At].values + Shape[q].values
    <3> DEFINE v == Shape[At].values
    <3>1. v \in Nat /\ Shape[q].values = v
      BY <2>2, <2>3
    <3> HIDE DEF v, q
    <3>2. Height = Height - v + Shape[q].values
      BY <2>3, <3>1
    <3> QED
      BY <3>2 DEF v
  <2>5. warp_counter' = warp_counter - Shape[At].warp + Shape[q].warp
    <3> DEFINE w == Shape[At].warp
               d == IF Current.op = "WarpStart" THEN 1 ELSE 0 - 1
    <3>1. w \in Nat /\ Shape[q].warp = w + d /\ warp_counter' = warp_counter + d /\ d \in Int
      <4>1. w - 1 = w + (0 - 1) /\ warp_counter - 1 = warp_counter + (0 - 1)
        <5>1. w \in Nat
          BY <2>3
        <5> HIDE DEF w
        <5> QED
          BY <2>3, <5>1
      <4> QED
        BY <2>1, <2>2, <2>3, <4>1
    <3> HIDE DEF w, d, q
    <3>2. warp_counter' = warp_counter - w + Shape[q].warp
      BY <2>3, <3>1
    <3> QED
      BY <3>2 DEF w
  <2>6. Shape[q].handlers = Shape[At].handlers
    BY <2>2
  <2> HIDE DEF q
  <2> QED
    BY <1>1, <1>3, <2>1, <2>4, <2>5, <2>6, GoesTo
<1>6. CASE PushTheHandler
  <2> DEFINE to == Current.to
             h == [pos |-> to, warp_counter |-> warp_counter,
                   call_stack_size |-> Len(call_stack), value_stack_size |-> Height]
  <2>1. /\ Current.op = "PushHandler" /\ handler_stack' = Append(handler_stack, h)
        /\ UNCHANGED <<warp_counter, call_stack>>
    BY <1>6 DEF PushTheHandler, Executes
  <2>2. Shape[q] = [values |-> s.values, warp |-> s.warp,
                    handlers |-> Append(s.handlers,
                      [pos |-> to, values |-> s.values, warp |-> s.warp])]
    BY <1>3, <1>4, <2>1 DEF After
  <2>3. to \in Nat
    <3>1. to \in DOMAIN Shape
      BY <1>1, <2>1, HereFacts DEF Flows, Jumps
    <3>2. to \in DOMAIN Code /\ Code \in Seq(Instruction)
      BY <3>1, CodeFacts, CodeAssumption
    <3> QED
      BY <3>2, SequenceFacts
  <2> HIDE DEF q, to
  <2>4. Stacks(call_stack, Append(handler_stack, h), q, Height, warp_counter)
    BY <1>2, <1>3, <2>2, <2>3, HandlerPushed
  <2>5. Stacks(call_stack', handler_stack', pos', value_stack', warp_counter')
    BY <1>1, <2>1, <2>4 DEF GoTo
  <2> QED
    BY <1>1, <2>5, Settled
<1>7. CASE PopTheHandler
  <2>1. /\ Current.op = "PopHandler" /\ handler_stack' = Front(handler_stack)
        /\ UNCHANGED <<warp_counter, call_stack>>
    BY <1>7 DEF PopTheHandler, Executes
  <2>2. Shape[q] = [values |-> s.values, warp |-> s.warp, handlers |-> Front(s.handlers)]
    BY <1>3, <1>4, <2>1 DEF After
  <2>3. s.handlers # <<>>
    BY <1>1, <2>1, HereFacts DEF Supplied
  <2> HIDE DEF q
  <2>4. Stacks(call_stack, Front(handler_stack), q, Height, warp_counter)
    BY <1>2, <1>3, <2>2, <2>3, HandlerPopped
  <2>5. Stacks(call_stack', handler_stack', pos', value_stack', warp_counter')
    BY <1>1, <2>1, <2>4 DEF GoTo
  <2> QED
    BY <1>1, <2>5, Settled
<1> QED
  BY <1>5, <1>6, <1>7

\* A frame for a callee.
LEMMA EnterBalanced ==
  ASSUME IInv, Ready, running, Basic', Current.op \in {"Call", "CallClosure"},
         NEW to \in DOMAIN Shape, Shape[to] = Entry, Enter(to)
  PROVE  StackSafe' /\ Balance'
<1> DEFINE f == [called_from |-> At, return_to |-> At + 1, warp_counter |-> warp_counter,
                 value_stack_size |-> Height - Current.pops,
                 handler_stack_size |-> Len(handler_stack)]
<1>1. /\ call_stack' = Append(call_stack, f) /\ GoTo(to, Height - Current.pops)
      /\ UNCHANGED <<warp_counter, handler_stack>> /\ Continues /\ outcome' # "Panic"
  BY DEF Enter, Returns
<1>2. Stacks(call_stack, handler_stack, At, Height, warp_counter) /\ Current = Code[At]
  BY HereFacts
<1>3. Stacks(Append(call_stack, f), handler_stack, to, Height - Current.pops, warp_counter)
  BY <1>2, Entered
<1>4. Stacks(call_stack', handler_stack', pos', value_stack', warp_counter')
  BY <1>1, <1>3 DEF GoTo
<1> QED
  BY <1>1, <1>4, Settled

LEMMA CallsBalanced ==
  ASSUME IInv, running, Basic', CallFunction \/ CallTheClosure \/ ReturnFrom \/ ThrowError
  PROVE  running' => StackSafe' /\ Balance'
<1>1. CASE CallFunction
  <2>1. Ready /\ Current.op = "Call"
    BY <1>1 DEF CallFunction, Executes
  <2>2. CASE Fail(At, Height, reply_key) /\ Continues
    <3>1. Current.fails /\ Height \in Int /\ Height - Current.pops <= Height
      <4> DEFINE k == Current.pops
      <4>1. k \in Nat /\ Height \in Nat /\ Current.fails
        BY <2>1, HereFacts DEF Built
      <4> HIDE DEF k
      <4>2. Height \in Int /\ Height - k <= Height
        BY <4>1
      <4> QED
        BY <4>1, <4>2 DEF k
    <3> QED
      BY <2>1, <2>2, <3>1, FailsHere
  <2>3. CASE Enter(Current.to)
    <3>1. Current.to \in DOMAIN Shape /\ Shape[Current.to] = Entry
      BY <2>1, HereFacts DEF Flows, Jumps, AtTarget
    <3> QED
      BY <2>1, <2>3, <3>1, EnterBalanced
  <2> QED
    BY <1>1, <2>2, <2>3 DEF CallFunction
<1>2. CASE CallTheClosure
  <2>1. Ready /\ Current.op = "CallClosure"
    BY <1>2 DEF CallTheClosure, Executes
  <2>2. CASE Fails
    BY <2>1, <2>2, FailsBalanced
  <2>3. CASE ~Fails
    <3>1. PICK to \in Closures : Enter(to)
      BY <1>2, <2>3 DEF CallTheClosure
    <3>2. to \in DOMAIN Shape /\ Shape[to] = Entry
      BY ShapeAssumption DEF Verified
    <3> QED
      BY <2>1, <3>1, <3>2, EnterBalanced
  <2> QED
    BY <2>2, <2>3
<1>3. CASE ReturnFrom
  <2>1. /\ Ready /\ warp_counter' = Top.warp_counter /\ Continues
        /\ handler_stack' = SubSeq(handler_stack, 1, Top.handler_stack_size)
    BY <1>3 DEF ReturnFrom, Ends, Executes
  <2>2. CASE Len(call_stack) > 1
    <3>1. /\ call_stack' = Front(call_stack) /\ outcome' # "Panic"
          /\ GoTo(Top.return_to, Top.value_stack_size + 1)
      BY <1>3, <2>2 DEF ReturnFrom, Ends, Returns
    <3>2. Stacks(Front(call_stack), SubSeq(handler_stack, 1, Top.handler_stack_size),
                 Top.return_to, Top.value_stack_size + 1, Top.warp_counter)
      BY <2>1, <2>2, StacksHere, Returned DEF Top
    <3>3. Stacks(call_stack', handler_stack', pos', value_stack', warp_counter')
      BY <2>1, <3>1, <3>2 DEF GoTo
    <3> QED
      BY <2>1, <3>1, <3>3, Settled
  <2>3. CASE ~ (Len(call_stack) > 1)
    BY <1>3, <2>3 DEF ReturnFrom, Ends
  <2> QED
    BY <2>2, <2>3
<1>4. CASE ThrowError
  <2>1. Ready /\ Current.op = "Throw" /\ Continues /\ Fail(At, Height - 1, reply_key)
    BY <1>4 DEF ThrowError, Executes
  <2>2. Current.pops = 1 /\ Current.fails /\ Height \in Nat
    BY <2>1, HereFacts DEF Built
  <2>3. Height - 1 \in Int /\ Height - 1 <= Height - 1
    BY <2>2
  <2> QED
    BY <2>1, <2>2, <2>3, FailsHere
<1> QED
  BY <1>1, <1>2, <1>3, <1>4

\* The process waits, at an instruction that has taken its operands.
LEMMA WaitBalanced ==
  ASSUME IInv, Ready, running, Basic', Current.op \in Deferring,
         NEW result, Wait(result), result # "Panic"
  PROVE  StackSafe' /\ Balance'
<1> DEFINE k == Current.pops
           d == [kind |-> Current.op, aft_pos |-> At + 1,
                 pushes |-> Current.pushes, soft |-> Current.soft]
<1>1. /\ defer' = d /\ pos' = At /\ value_stack' = Height - k /\ outcome' = result
      /\ UNCHANGED <<warp_counter, call_stack, handler_stack>>
  BY DEF Wait, GoTo, Returns, control
<1>2. Current = Code[At] /\ k \in Nat /\ Height \in Nat
  BY HereFacts
<1>3. d # NoDefer
  <2>1. d.kind \in Deferring /\ NoDefer.kind = "None"
    BY DEF NoDefer
  <2>2. d.kind # NoDefer.kind
    BY <2>1 DEF Deferring
  <2> QED
    BY <2>2
<1>4. DeferredHere'
  BY <1>1, <1>2 DEF DeferredHere
<1>5. value_stack' + Awaited' = Height
  <2>1. Awaited' = k
    BY <1>1, <1>2, <1>3 DEF Awaited
  <2>2. Height - k + k = Height /\ (Height - k) + k = Height
    <3> HIDE DEF k
    <3> QED
      BY <1>2
  <2> QED
    BY <1>1, <2>1, <2>2
<1>6. Stacks(call_stack', handler_stack', pos', value_stack' + Awaited', warp_counter')
  BY <1>1, <1>5, HereFacts
<1> QED
  BY <1>1, <1>4, <1>6 DEF StackSafe, Balance

\* The instruction is done at once.
LEMMA DoneBalanced ==
  ASSUME IInv, Ready, running, Basic', Current.op \in Deferring,
         NEW result, Done(result), result # "Panic"
  PROVE  StackSafe' /\ Balance'
<1>1. Current.op \in InBlock
  BY DEF Deferring, InBlock, Ops
<1>2. /\ GoTo(At + 1, Height - Current.pops + Current.pushes)
      /\ outcome' # "Panic" /\ Continues /\ UNCHANGED control
  BY DEF Done, Returns
<1> QED
  BY <1>1, <1>2, GoesOnBalanced

LEMMA RequestsBalanced ==
  ASSUME IInv, running, Basic',
         PerformRequest \/ BroadcastAndWait \/ SleepFor \/ SendMessage \/ SendReply
  PROVE  running' => StackSafe' /\ Balance'
<1>1. CASE PerformRequest
  <2>1. Ready /\ Current.op \in Deferring /\ (Fails \/ Done("Normal") \/ Wait("Normal"))
    BY <1>1 DEF PerformRequest, Executes, Deferring
  <2> QED
    BY <2>1, FailsBalanced, DoneBalanced, WaitBalanced
<1>2. CASE BroadcastAndWait
  <2>1. Ready /\ Current.op \in Deferring /\ (Fails \/ Wait("Broadcast"))
    BY <1>2 DEF BroadcastAndWait, Executes, Deferring
  <2> QED
    BY <2>1, FailsBalanced, WaitBalanced
<1>3. CASE SleepFor
  <2>1. Ready /\ Current.op \in Deferring /\ (Fails \/ Done("Yield") \/ Wait("Normal"))
    BY <1>3 DEF SleepFor, Executes, Deferring
  <2> QED
    BY <2>1, FailsBalanced, DoneBalanced, WaitBalanced
<1>4. CASE SendMessage
  <2>1. Ready /\ Current.op \in Deferring /\ (Fails \/ Done("Normal") \/ Wait("Normal"))
    BY <1>4 DEF SendMessage, Executes, Deferring
  <2> QED
    BY <2>1, FailsBalanced, DoneBalanced, WaitBalanced
<1>5. CASE SendReply
  <2>1. Ready /\ Current.op = "SendNetworkReply" /\ Current.op \in InBlock
    BY <1>5 DEF SendReply, Executes, InBlock, Ops
  <2>2. Current.pops = 1 /\ Current.pushes = 0 /\ Current.fails /\ Height \in Nat
    BY <2>1, HereFacts DEF Built
  <2>3. Height - 1 \in Int /\ Height - 1 <= Height - 1 /\ Height - 1 + 0 = Height - 1
    BY <2>2
  <2>4. CASE Fails
    BY <2>1, <2>4, FailsBalanced
  <2>5. CASE Fail(At, Height - 1, FALSE) /\ Continues
    BY <2>1, <2>2, <2>3, <2>5, FailsHere
  <2>6. CASE /\ GoTo(At + 1, Height - 1) /\ outcome' = "Normal"
             /\ Continues /\ UNCHANGED control
    <3>1. GoTo(At + 1, Height - Current.pops + Current.pushes)
      BY <2>2, <2>3, <2>6
    <3> QED
      BY <2>1, <2>6, <3>1, GoesOnBalanced
  <2> QED
    BY <1>5, <2>4, <2>5, <2>6 DEF SendReply
<1> QED
  BY <1>1, <1>2, <1>3, <1>4, <1>5

-----------------------------------------------------------------------------
(* The theorems.                                                           *)

LEMMA StepKeeps ==
  ASSUME IInv, Step
  PROVE  IInv'
<1>1. Basic'
  BY StepBasic DEF IInv
<1>2. running' => StackSafe' /\ Balance'
  <2>1. running' => running
    BY <1>1, StepStartsNothing DEF Basic, HeldOK
  <2>2. CASE running
    BY <1>1, <2>2, PollsBalanced, SimpleBalanced, BlocksBalanced, CallsBalanced, RequestsBalanced
       DEF Step
  <2> QED
    BY <2>1, <2>2
<1> QED
  BY <1>1, <1>2 DEF IInv, StackSafe, Balance, Sane

LEMMA OutsideKeeps ==
  ASSUME IInv, (\E b, r \in BOOLEAN : Initialize(b, r)) \/ Complete
  PROVE  IInv'
<1>1. Basic'
  BY OutsideBasic DEF IInv
<1>2. ASSUME NEW b \in BOOLEAN, NEW r \in BOOLEAN, Initialize(b, r) PROVE StackSafe' /\ Balance'
  <2>1. call_stack' = <<RootFrame>>
    <3>1. 1 \in 0 .. Len(call_stack) /\ 1 \in 1 .. 1 /\ call_stack \in Seq(CallStackEntry)
          /\ call_stack[1] = RootFrame
      BY BasicFacts DEF IInv, Basic, ControlOK
    <3>2. /\ call_stack' \in Seq(CallStackEntry) /\ Len(call_stack') = 1
          /\ call_stack'[1] = RootFrame
      BY <1>2, <3>1, Prefix DEF Initialize
    <3> QED
      BY <3>2
  <2>2. start_pos \in DOMAIN Shape /\ Shape[start_pos] = Entry
    BY ShapeAssumption DEF Verified, IInv, Basic, WaitingOK
  <2>3. Stacks(<<RootFrame>>, <<>>, start_pos, 0, 0)
    BY <2>2, RootStacks
  <2>4. Stacks(call_stack', handler_stack', pos', value_stack', warp_counter')
    BY <1>2, <2>1, <2>3 DEF Initialize
  <2>5. Continues /\ outcome' # "Panic"
    BY <1>2 DEF Initialize, Continues
  <2> QED
    BY <1>1, <2>4, <2>5, Settled
<1>3. CASE Complete
  <2>1. /\ UNCHANGED <<running, outcome, pos, defer, value_stack>>
        /\ UNCHANGED <<call_stack, handler_stack, warp_counter>>
        /\ answer = "pending"
    BY <1>3 DEF Complete, held, control
  <2>2. StackSafe'
    BY <2>1 DEF IInv, StackSafe
  <2>3. Sane' => DeferredHere
                 /\ Stacks(call_stack, handler_stack, pos, value_stack + Awaited, warp_counter)
    BY <2>1 DEF IInv, Balance, Sane, Panicked
  <2>4. Awaited' = Awaited /\ (DeferredHere => DeferredHere')
    BY <2>1 DEF Awaited, DeferredHere
  <2>5. Balance'
    BY <2>1, <2>3, <2>4 DEF Balance
  <2> QED
    BY <1>1, <2>2, <2>5 DEF IInv
<1> QED
  BY <1>1, <1>2, <1>3 DEF IInv

LEMMA IInvHolds == Spec => []IInv
<1>1. Init => IInv
  BY InitBasic DEF Init, IInv, StackSafe, Balance, Sane
<1>2. IInv /\ [Next]_vars => IInv'
  <2> SUFFICES ASSUME IInv, [Next]_vars PROVE IInv'
    OBVIOUS
  <2>1. CASE UNCHANGED vars
    <3>1. Basic'
      BY <2>1, StutterBasic DEF IInv
    <3>2. StackSafe' /\ Balance'
      BY <2>1 DEF vars, held, control, waiting, IInv, StackSafe, Balance, Sane, Panicked,
                  Awaited, DeferredHere
    <3> QED
      BY <3>1, <3>2 DEF IInv
  <2> QED
    BY <2>1, StepKeeps, OutsideKeeps DEF Next
<1> QED
  BY <1>1, <1>2, PTL DEF Spec

\* A running process never panics over its stacks.
THEOREM StacksAreSafe == Spec => []StackSafe
<1>1. IInv => StackSafe
  BY DEF IInv
<1> QED
  BY IInvHolds, <1>1, PTL

\* What Fits says of a frame, in the words of Balanced.
LEMMA FitsIsBalanced ==
  ASSUME NEW i \in Int,
         Shape[PosOf(i)].values \in Nat, ValuesEnd(i) \in Int, Taken(i) \in Nat,
         Fits(call_stack, handler_stack, i, PosOf(i), ValuesEnd(i) + Taken(i),
              HandlersEnd(i), WarpEnd(i)),
         call_stack[i].value_stack_size \in Nat
  PROVE  FrameBalanced(i)
<1> DEFINE v == Shape[PosOf(i)].values
           end == ValuesEnd(i)
           k == Taken(i)
           size == call_stack[i].value_stack_size
<1>1. end + k = size + v /\ v \in Nat /\ end \in Int /\ k \in Nat /\ size \in Nat
  BY DEF Fits
<1> HIDE DEF v, end, k, size
<1>2. \A a, b, c, d \in Int : a + b = c + d => a = c + d - b
  OBVIOUS
<1>3. end = size + v - k
  BY <1>1, <1>2
<1> QED
  BY <1>3 DEF Fits, HandlerOf, FrameBalanced, v, end, k, size

\* A running process has on its stacks what the nesting of its code says.
THEOREM StacksAreBalanced == Spec => []Balanced
<1>1. IInv => Balanced
  <2> SUFFICES ASSUME IInv, Sane, NEW i \in 1 .. Len(call_stack) PROVE FrameBalanced(i)
    BY DEF Balanced, Sane
  <2> DEFINE n == Len(call_stack)
  <2>1. /\ DeferredHere
        /\ Stacks(call_stack, handler_stack, pos, value_stack + Awaited, warp_counter)
    BY DEF IInv, Balance
  <2>2. /\ n \in Nat \ {0} /\ i \in Int /\ call_stack[i] \in CallStackEntry
        /\ value_stack \in Nat /\ call_stack \in Seq(CallStackEntry)
    BY BasicFacts, SequenceFacts DEF IInv, Basic, ControlOK
  <2>3. call_stack[i].value_stack_size \in Nat
    BY <2>2, FrameFacts
  <2>4. CASE i = n
    <3>1. /\ PosOf(i) = pos /\ ValuesEnd(i) = value_stack /\ HandlersEnd(i) = Len(handler_stack)
          /\ WarpEnd(i) = warp_counter /\ Taken(i) = Awaited
      BY <2>2, <2>4 DEF PosOf, ValuesEnd, HandlersEnd, WarpEnd, Taken, Awaited
    <3>2. Fits(call_stack, handler_stack, i, pos, value_stack + Awaited, Len(handler_stack),
               warp_counter)
      BY <2>1, <2>4 DEF Stacks
    <3>3. pos \in DOMAIN Shape
      BY <3>2 DEF Fits
    <3>4. Shape[pos].values \in Nat /\ Awaited \in Nat
      BY <3>3, CodeFacts, InstructionFacts DEF Awaited
    <3>5. /\ Shape[PosOf(i)].values \in Nat /\ ValuesEnd(i) \in Int /\ Taken(i) \in Nat
          /\ Fits(call_stack, handler_stack, i, PosOf(i), ValuesEnd(i) + Taken(i),
                  HandlersEnd(i), WarpEnd(i))
      BY <2>2, <3>1, <3>2, <3>4
    <3> QED
      BY <2>2, <2>3, <3>5, FitsIsBalanced
  <2>5. CASE i # n
    <3> DEFINE j == i + 1
               f == call_stack[j]
    <3>1. i < n /\ j \in 2 .. n /\ j \in 1 .. n /\ j - 1 = i
      BY <2>2, <2>5
    <3>2. Called(call_stack, handler_stack, j)
      BY <2>1, <3>1 DEF Stacks, Frames
    <3>3. f \in CallStackEntry /\ f.value_stack_size \in Nat
      BY <2>2, <3>1, SequenceFacts, FrameFacts
    <3>4. Fits(call_stack, handler_stack, i, f.called_from,
               f.value_stack_size + Code[f.called_from].pops, f.handler_stack_size, f.warp_counter)
      BY <3>1, <3>2 DEF Called
    <3>5. /\ PosOf(i) = f.called_from /\ ValuesEnd(i) = f.value_stack_size
          /\ HandlersEnd(i) = f.handler_stack_size /\ WarpEnd(i) = f.warp_counter
          /\ Taken(i) = Code[f.called_from].pops
      BY <2>5, <3>1 DEF PosOf, ValuesEnd, HandlersEnd, WarpEnd, Taken
    <3>6. f.called_from \in DOMAIN Shape
      BY <3>4 DEF Fits
    <3>7. Shape[f.called_from].values \in Nat /\ Code[f.called_from].pops \in Nat
      BY <3>6, CodeFacts, InstructionFacts
    <3> HIDE DEF f, j
    <3> QED
      BY <2>2, <2>3, <3>3, <3>4, <3>5, <3>7, FitsIsBalanced
  <2> QED
    BY <2>4, <2>5
<1> QED
  BY IInvHolds, <1>1, PTL
=============================================================================
