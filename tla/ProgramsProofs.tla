---------------------------- MODULE ProgramsProofs ----------------------------
(***************************************************************************)
(* Compiled code verifies, for programs of any size.  Fits is a type       *)
(* system for code: code that takes m values and leaves n can stand        *)
(* anywhere where m values are, within any loops, try and warp blocks.     *)
(* There is a lemma for each construct of the compiler: it fits if its     *)
(* parts do, whatever these are.  Then a program that grows keeps fitting, *)
(* and code that fits has shapes, which are those that Inferred finds.     *)
(***************************************************************************)
EXTENDS Programs, FiniteSetTheorems, SequenceTheorems, WellFoundedInduction, TLAPS

\* Instructions whose calls are of the units in F.
Ins(F) == {ins \in Instruction : ins.op = "Call" => ins.to \in F}

\* What goes elsewhere in the same frame.
Moving == Jumps \ {"Call"}

\* at is the instruction ins in linked code, at position p.
Located(ins, p, at) ==
  /\ at.op = ins.op /\ at.needs = ins.needs /\ at.pops = ins.pops
  /\ at.pushes = ins.pushes /\ at.fails = ins.fails
  /\ ins.op \in Moving => at.to = p + ins.to

\* The linked code text has code from position x on.
Placed(text, x, code) ==
  \A i \in DOMAIN code : Located(code[i], x + i - 1, text[x + i - 1])

\* The instruction at q goes on at p.
Leads(text, q, p) ==
  \/ GoesOn(text[q]) /\ p = q + 1
  \/ text[q].op \in Moving /\ p = text[q].to

\* The instruction at p of verified code (but for calls), in try blocks that
\* are outside, whose handlers are hs, or that sh speaks of.
Fine(text, sh, hs, p) ==
  /\ Supplied(text[p], sh[p])
  /\ GoesOn(text[p]) =>
       p + 1 \in DOMAIN sh /\ sh[p + 1] = After(text[p], sh[p])
  /\ text[p].op \in Moving =>
       text[p].to \in DOMAIN sh /\ sh[text[p].to] = AtTarget(text[p], sh[p])
  /\ sh[p].handlers = hs \/ Handled(sh, p)

\* An earlier instruction goes on at p.
Reached(text, sh, p) == \E q \in DOMAIN sh : q < p /\ Leads(text, q, p)

\* sh are the shapes of the code from x up to y, if it finds s; it leaves t,
\* if its end is reached at all; in mode "ends", it is.
Covers(text, x, y, sh, s, t, mode) ==
  /\ DOMAIN sh \subseteq x .. y
  /\ x \in DOMAIN sh /\ sh[x] = s
  /\ y \in DOMAIN sh => sh[y] = t
  /\ mode = "ends" => y \in DOMAIN sh
  /\ \A p \in DOMAIN sh : /\ sh[p] \in Shapes
                          /\ p = x \/ Reached(text, sh, p)
                          /\ p = y \/ Fine(text, sh, s.handlers, p)

\* There are m values that the try blocks around do not count on.
Ready(s, m) ==
  /\ m <= s.values
  /\ s.handlers # <<>> => Last(s.handlers).values <= s.values - m

\* s, when m values have been taken and n left.
Leaving(s, m, n) ==
  [values |-> s.values - m + n, warp |-> s.warp, handlers |-> s.handlers]

\* Wherever it stands, code that finds m values takes them and leaves n.
Fits(F, code, m, n, mode) ==
  /\ code \in Seq(Ins(F)) /\ m \in Nat /\ n \in Nat
  /\ \A text : \A x \in Nat, s \in Shapes :
       Placed(text, x, code) /\ Ready(s, m) =>
         \E sh : Covers(text, x, x + Len(code), sh, s, Leaving(s, m, n), mode)
-----------------------------------------------------------------------------
(* Shapes and places.                                                      *)

\* A try block's values are a number.
LEMMA LastValues ==
  ASSUME NEW s \in Shapes, s.handlers # <<>>
  PROVE  Last(s.handlers) \in TryBlock /\ Last(s.handlers).values \in Nat
<1>1. s.handlers \in Seq(TryBlock)
  BY DEF Shapes
<1>2. Last(s.handlers) \in TryBlock
  BY <1>1 DEF Last
<1> QED
  BY <1>2 DEF TryBlock

\* Who finds m values finds fewer.
LEMMA ReadyLess ==
  ASSUME NEW s \in Shapes, NEW m \in Nat, Ready(s, m), NEW k \in Nat, k <= m
  PROVE  Ready(s, k)
<1>1. s.values \in Nat /\ m <= s.values
  BY DEF Ready, Shapes
<1>2. s.handlers # <<>> => Last(s.handlers).values <= s.values - k
  <2>1. SUFFICES ASSUME s.handlers # <<>>
                 PROVE  Last(s.handlers).values <= s.values - k
    OBVIOUS
  <2>2. /\ Last(s.handlers).values \in Nat
        /\ Last(s.handlers).values <= s.values - m
    BY <2>1, LastValues DEF Ready
  <2> QED
    BY <1>1, <2>2
<1> QED
  BY <1>1, <1>2 DEF Ready

\* What code leaves is a shape, and the next code finds it.
LEMMA LeavingFacts ==
  ASSUME NEW s \in Shapes, NEW m \in Nat, NEW n \in Nat, Ready(s, m)
  PROVE  /\ Leaving(s, m, n) \in Shapes /\ Ready(Leaving(s, m, n), n)
         /\ Leaving(s, m, n).values = s.values - m + n
         /\ Leaving(s, m, n).warp = s.warp
         /\ Leaving(s, m, n).handlers = s.handlers
         /\ Leaving(s, m, m) = s
         /\ \A k \in Nat : Leaving(Leaving(s, m, n), n, k) = Leaving(s, m, k)
<1>1. s.values \in Nat /\ s.warp \in Nat /\ s.handlers \in Seq(TryBlock)
  BY DEF Shapes
<1>2. m <= s.values
  BY DEF Ready
<1>3. s = [values |-> s.values, warp |-> s.warp, handlers |-> s.handlers]
  BY DEF Shapes
<1>4. \A a, b \in Nat : a <= s.values => s.values - a + b \in Nat
  BY <1>1
<1>5. Leaving(s, m, n) \in Shapes
  BY <1>1, <1>2, <1>4 DEF Leaving, Shapes
<1>6. (s.values - m + n) - n = s.values - m /\ n <= s.values - m + n
  BY <1>1, <1>2
<1>7. Ready(Leaving(s, m, n), n)
  BY <1>6 DEF Ready, Leaving
<1>8. Leaving(s, m, m) = s
  <2>1. s.values - m + m = s.values
    BY <1>1
  <2> QED
    BY <1>3, <2>1 DEF Leaving
<1>9. \A k \in Nat : Leaving(Leaving(s, m, n), n, k) = Leaving(s, m, k)
  BY <1>6 DEF Leaving
<1> QED
  BY <1>5, <1>7, <1>8, <1>9 DEF Leaving

\* Code that takes more values and puts them back leaves the same.
LEMMA LeavingSame ==
  ASSUME NEW s \in Shapes, NEW m \in Nat, NEW n \in Nat, NEW p \in Nat, NEW q \in Nat,
         m <= p, p + n = q + m, Ready(s, p)
  PROVE  Ready(s, m) /\ Leaving(s, p, q) = Leaving(s, m, n)
<1>1. Ready(s, m)
  BY ReadyLess
<1>2. s.values - p + q = s.values - m + n
  <2>1. s.values \in Nat /\ p + n = q + m
    BY DEF Shapes
  <2>2. \A v, a, b, c, d \in Nat : a + d = b + c => v - a + b = v - c + d
    OBVIOUS
  <2> QED
    BY <2>1, <2>2
<1> QED
  BY <1>1, <1>2 DEF Leaving

\* In particular when one value is taken.
LEMMA LeavingOne ==
  ASSUME NEW s \in Shapes, NEW l \in Nat, Ready(s, l + 1)
  PROVE  /\ Ready(s, 1)
         /\ Leaving(s, 1, 0) = Leaving(s, l + 1, l)
         /\ \A k \in Nat : Leaving(s, 1, k) = Leaving(s, l + 1, l + k)
<1>1. s.values - 1 + 0 = s.values - (l + 1) + l
  BY DEF Shapes
<1>2. \A k \in Nat : s.values - 1 + k = s.values - (l + 1) + (l + k)
  BY DEF Shapes
<1>3. Ready(s, 1)
  BY ReadyLess
<1> QED
  BY <1>1, <1>2, <1>3 DEF Leaving

\* The type and the length of a concatenation.
LEMMA ConcatFacts ==
  ASSUME NEW S, NEW a \in Seq(S), NEW b \in Seq(S)
  PROVE  a \o b \in Seq(S) /\ Len(a \o b) = Len(a) + Len(b) /\ Len(a \o b) \in Nat
OBVIOUS

\* The type and the length of code with one more instruction.
LEMMA OneMore ==
  ASSUME NEW S, NEW a \in Seq(S), NEW e \in S
  PROVE  a \o <<e>> \in Seq(S) /\ Len(a \o <<e>>) = Len(a) + 1
OBVIOUS

\* Code of two parts is placed where the parts are, one after the other.
LEMMA PlacedConcat ==
  ASSUME NEW S, NEW a \in Seq(S), NEW b \in Seq(S), NEW text, NEW x \in Nat,
         Placed(text, x, a \o b)
  PROVE  Placed(text, x, a) /\ Placed(text, x + Len(a), b)
<1>1. /\ Len(a) \in Nat /\ Len(b) \in Nat
      /\ DOMAIN a = 1 .. Len(a) /\ DOMAIN b = 1 .. Len(b)
      /\ DOMAIN (a \o b) = 1 .. Len(a) + Len(b)
      /\ \A i \in DOMAIN a : (a \o b)[i] = a[i]
      /\ \A i \in DOMAIN b : (a \o b)[Len(a) + i] = b[i]
  OBVIOUS
<1>2. ASSUME NEW i \in DOMAIN a
      PROVE  Located(a[i], x + i - 1, text[x + i - 1])
  <2>1. i \in DOMAIN (a \o b)
    BY <1>1
  <2> QED
    BY <1>1, <2>1 DEF Placed
<1>3. ASSUME NEW i \in DOMAIN b
      PROVE  Located(b[i], (x + Len(a)) + i - 1, text[(x + Len(a)) + i - 1])
  <2> DEFINE j == Len(a) + i
  <2>1. j \in DOMAIN (a \o b) /\ x + j - 1 = (x + Len(a)) + i - 1
    BY <1>1
  <2>2. Located((a \o b)[j], x + j - 1, text[x + j - 1])
    BY <2>1 DEF Placed
  <2>3. (a \o b)[j] = b[i]
    BY <1>1
  <2> HIDE DEF j
  <2> QED
    BY <2>1, <2>2, <2>3
<1> QED
  BY <1>2, <1>3 DEF Placed

\* The place of a single instruction.
LEMMA PlacedOne ==
  ASSUME NEW ins, NEW text, NEW x \in Nat, Placed(text, x, <<ins>>)
  PROVE  Located(ins, x, text[x])
<1>1. 1 \in DOMAIN <<ins>> /\ <<ins>>[1] = ins /\ x + 1 - 1 = x
  OBVIOUS
<1> QED
  BY <1>1 DEF Placed

\* More shapes leave those that there are in order.
Within(f, h) == \A p \in DOMAIN f : p \in DOMAIN h /\ h[p] = f[p]

\* What shapes reach is reached in shapes that extend them,
LEMMA ReachedWithin ==
  ASSUME NEW text, NEW f, NEW h, Within(f, h), NEW p, Reached(text, f, p)
  PROVE  Reached(text, h, p)
BY DEF Within, Reached

\* what is verified stays so,
LEMMA FineWithin ==
  ASSUME NEW text, NEW f, NEW h, Within(f, h), NEW hs, NEW p \in DOMAIN f,
         Fine(text, f, hs, p)
  PROVE  Fine(text, h, hs, p)
<1>1. h[p] = f[p]
  BY DEF Within
<1>2. Handled(f, p) => Handled(h, p)
  BY <1>1 DEF Handled, Within
<1> QED
  BY <1>1, <1>2 DEF Fine, Within

\* and so does what they cover, but for where it begins and ends.
LEMMA CoversWithin ==
  ASSUME NEW text, NEW x, NEW y, NEW f, NEW h, NEW s, NEW t, NEW mode,
         Covers(text, x, y, f, s, t, mode), Within(f, h)
  PROVE  \A p \in DOMAIN f : /\ h[p] \in Shapes
                             /\ p = x \/ Reached(text, h, p)
                             /\ p = y \/ Fine(text, h, s.handlers, p)
<1> TAKE p \in DOMAIN f
<1>1. h[p] = f[p]
  BY DEF Within
<1>2. /\ f[p] \in Shapes
      /\ p = x \/ Reached(text, f, p)
      /\ p = y \/ Fine(text, f, s.handlers, p)
  BY DEF Covers
<1> QED
  BY <1>1, <1>2, ReachedWithin, FineWithin

\* Code in front of code.
LEMMA CoversJoin ==
  ASSUME NEW text, NEW x \in Nat, NEW y \in Nat, NEW z \in Nat, x <= y, y <= z,
         NEW f, NEW g, NEW s, NEW t, NEW u, NEW mode,
         Covers(text, x, y, f, s, t, mode), y \in DOMAIN f => Covers(text, y, z, g, t, u, mode),
         t.handlers = s.handlers
  PROVE  \E h : /\ Covers(text, x, z, h, s, u, mode)
                /\ y \in DOMAIN f => y \in DOMAIN h /\ h[y] = t
                /\ y \in DOMAIN h /\ y < z => y \in DOMAIN f
<1>1. CASE y \notin DOMAIN f
  <2>1. Covers(text, x, z, f, s, u, mode)
    <3>1. DOMAIN f \subseteq x .. y
      BY DEF Covers
    <3>2. DOMAIN f \subseteq x .. z
      BY <3>1
    <3>3. z \notin DOMAIN f
      BY <1>1, <3>1
    <3>4. mode # "ends"
      BY <1>1 DEF Covers
    <3> QED
      BY <1>1, <3>2, <3>3, <3>4 DEF Covers
  <2> QED
    BY <1>1, <2>1
<1>2. CASE y \in DOMAIN f
  <2> DEFINE h == [p \in DOMAIN f \union DOMAIN g |->
                     IF p \in DOMAIN f THEN f[p] ELSE g[p]]
  <2>1. /\ DOMAIN f \subseteq x .. y /\ DOMAIN g \subseteq y .. z
        /\ y \in DOMAIN g /\ g[y] = t /\ f[y] = t /\ x \in DOMAIN f /\ f[x] = s
        /\ z \in DOMAIN g => g[z] = u
        /\ mode = "ends" => z \in DOMAIN g
    BY <1>2 DEF Covers
  <2>2. Within(f, h)
    BY DEF Within
  <2>3. Within(g, h)
    <3>1. ASSUME NEW p \in DOMAIN g, p \in DOMAIN f PROVE f[p] = g[p]
      <4>1. p = y
        BY <2>1, <3>1
      <4> QED
        BY <2>1, <4>1
    <3> QED
      BY <3>1 DEF Within
  <2>4. DOMAIN h = DOMAIN f \union DOMAIN g
    OBVIOUS
  <2> HIDE DEF h
  <2>5. \A p \in DOMAIN f : /\ h[p] \in Shapes
                            /\ p = x \/ Reached(text, h, p)
                            /\ p = y \/ Fine(text, h, s.handlers, p)
    BY <2>2, CoversWithin
  <2>6. \A p \in DOMAIN g : /\ h[p] \in Shapes
                            /\ p = y \/ Reached(text, h, p)
                            /\ p = z \/ Fine(text, h, s.handlers, p)
    BY <1>2, <2>3, CoversWithin
  <2>7. \A p \in DOMAIN h : /\ h[p] \in Shapes
                            /\ p = x \/ Reached(text, h, p)
                            /\ p = z \/ Fine(text, h, s.handlers, p)
    <3> TAKE p \in DOMAIN h
    <3>1. CASE p = y
      BY <1>2, <2>1, <2>5, <2>6, <3>1
    <3>2. CASE p # y
      BY <2>4, <2>5, <2>6, <3>2
    <3> QED
      BY <3>1, <3>2
  <2>8. DOMAIN h \subseteq x .. z
    BY <2>1, <2>4
  <2>9. h[x] = s /\ x \in DOMAIN h /\ y \in DOMAIN h /\ h[y] = t
    BY <1>2, <2>1, <2>2 DEF Within
  <2>10. z \in DOMAIN h => h[z] = u
    <3>1. SUFFICES ASSUME z \in DOMAIN h PROVE h[z] = u
      OBVIOUS
    <3>2. z \in DOMAIN g
      <4>1. CASE z \in DOMAIN f
        <5>1. z = y
          BY <2>1, <4>1
        <5> QED
          BY <2>1, <5>1
      <4> QED
        BY <2>4, <3>1, <4>1
    <3> QED
      BY <2>1, <2>3, <3>2 DEF Within
  <2>11. mode = "ends" => z \in DOMAIN h
    BY <2>1, <2>4
  <2>12. Covers(text, x, z, h, s, u, mode)
    BY <2>7, <2>8, <2>9, <2>10, <2>11 DEF Covers
  <2> QED
    BY <1>2, <2>9, <2>12
<1> QED
  BY <1>1, <1>2
\* What Append puts at the end is the last, and the rest is in front of it.
LEMMA FrontAndLast ==
  ASSUME NEW S, NEW hs \in Seq(S), NEW e \in S
  PROVE  /\ Append(hs, e) \in Seq(S) /\ Append(hs, e) # <<>>
         /\ Last(Append(hs, e)) = e /\ Front(Append(hs, e)) = hs
<1> DEFINE t == Append(hs, e)
<1>1. /\ t \in Seq(S) /\ Len(t) = Len(hs) + 1 /\ t[Len(hs) + 1] = e /\ Len(hs) \in Nat
      /\ \A i \in 1 .. Len(hs) : t[i] = hs[i]
  OBVIOUS
<1>2. t # <<>> /\ Last(t) = e
  BY <1>1 DEF Last
<1>3. Front(t) = hs
  <2>1. Front(t) = [i \in 1 .. Len(hs) |-> t[i]]
    BY <1>1 DEF Front
  <2>2. hs = [i \in 1 .. Len(hs) |-> hs[i]]
    OBVIOUS
  <2> QED
    BY <1>1, <2>1, <2>2
<1> QED
  BY <1>1, <1>2, <1>3
-----------------------------------------------------------------------------
(* What instructions do.                                                   *)

\* The fields of an instruction.
LEMMA InstructionFacts ==
  ASSUME NEW ins \in Instruction
  PROVE  /\ ins.op \in Ops /\ ins.needs \in Nat /\ ins.pops \in Nat
         /\ ins.pushes \in Nat /\ ins.fails \in BOOLEAN /\ ins.to \in Int
         /\ ins.pops <= ins.needs
BY DEF Instruction, Built, Fields

\* An instruction that finds enough finds what it needs.
LEMMA Enough ==
  ASSUME NEW ins \in Instruction, NEW p, NEW at, Located(ins, p, at),
         NEW s \in Shapes, Ready(s, ins.needs), ins.op \notin {"WarpStop", "PopHandler"}
  PROVE  Supplied(at, s)
<1>1. ins.needs \in Nat /\ ins.pops \in Nat /\ ins.pops <= ins.needs
  BY InstructionFacts
<1>2. s.handlers # <<>> => Last(s.handlers).values <= s.values - at.pops
  <2>1. SUFFICES ASSUME s.handlers # <<>>
                 PROVE  Last(s.handlers).values <= s.values - ins.pops
    BY DEF Located
  <2>2. Last(s.handlers).values \in Nat /\ s.values \in Nat
    BY <2>1, LastValues DEF Shapes
  <2>3. Last(s.handlers).values <= s.values - ins.needs
    BY <2>1 DEF Ready
  <2> QED
    BY <1>1, <2>2, <2>3
<1> QED
  BY <1>2 DEF Supplied, Located, Ready

\* Instructions that only go on with the next one, in the same try and warp blocks.
Straight == Ops \ (Moving \cup {"WarpStart", "WarpStop", "PopHandler", "Return", "Throw"})

\* An instruction that only goes on fits by its numbers of values.
LEMMA StraightFits ==
  ASSUME NEW F, NEW ins \in Ins(F), ins.op \in Straight, NEW m \in Nat, NEW n \in Nat,
         ins.needs <= m, n = m - ins.pops + ins.pushes
  PROVE  Fits(F, <<ins>>, m, n, "ends")
<1>1. /\ ins \in Instruction /\ <<ins>> \in Seq(Ins(F)) /\ Len(<<ins>>) = 1
  BY DEF Ins
<1>2. /\ ins.needs \in Nat /\ ins.pops \in Nat /\ ins.pops <= ins.needs
      /\ ins.pushes \in Nat
  BY <1>1, InstructionFacts
<1> SUFFICES ASSUME NEW text, NEW x \in Nat, NEW s \in Shapes,
                    Placed(text, x, <<ins>>), Ready(s, m)
             PROVE  \E sh : Covers(text, x, x + 1, sh, s, Leaving(s, m, n), "ends")
  BY <1>1 DEF Fits
<1> DEFINE t == Leaving(s, m, n)
           h == [p \in {x, x + 1} |-> IF p = x THEN s ELSE t]
           at == text[x]
<1>3. t \in Shapes /\ t.values = s.values - m + n
  BY LeavingFacts
<1>4. Located(ins, x, at)
  BY PlacedOne
<1>5. s.values \in Nat /\ m <= s.values
  BY DEF Shapes, Ready
<1>6. Supplied(at, s)
  <2>1. Ready(s, ins.needs)
    BY <1>2, ReadyLess
  <2> QED
    BY <1>1, <1>4, <2>1, Enough DEF Straight
<1>7. After(at, s) = t /\ GoesOn(at) /\ at.op \notin Moving
  <2>1. /\ at.op = ins.op /\ at.pops = ins.pops /\ at.pushes = ins.pushes
        /\ at.op \notin {"WarpStart", "WarpStop", "PopHandler", "Return", "Throw"}
        /\ at.op \notin Moving
    BY <1>4 DEF Located, Straight
  <2>2. at.op # "PushHandler" /\ at.op # "Jump"
    BY <2>1 DEF Moving, Jumps
  <2>3. s.values - at.pops + at.pushes = s.values - m + n
    BY <1>2, <1>5, <2>1
  <2> QED
    BY <2>1, <2>2, <2>3 DEF After, Leaving, GoesOn
<1>8. x # x + 1 /\ x < x + 1
  OBVIOUS
<1>9. /\ DOMAIN h = {x, x + 1} /\ h[x] = s /\ h[x + 1] = t
  BY <1>8
<1> HIDE DEF h, t, at
<1>10. Fine(text, h, s.handlers, x)
  BY <1>6, <1>7, <1>9 DEF Fine, at
<1>11. Reached(text, h, x + 1)
  BY <1>7, <1>8, <1>9 DEF Reached, Leads, at
<1>12. Covers(text, x, x + 1, h, s, t, "ends")
  BY <1>3, <1>9, <1>10, <1>11 DEF Covers
<1> QED
  BY <1>12 DEF t

\* Return and Throw, after which anything may be.
LEMMA LeaveFits ==
  ASSUME NEW F, NEW ins \in Ins(F), ins.op \in {"Return", "Throw"},
         NEW m \in Nat, NEW n \in Nat, ins.needs <= m
  PROVE  Fits(F, <<ins>>, m, n, "may")
<1>1. /\ ins \in Instruction /\ <<ins>> \in Seq(Ins(F)) /\ Len(<<ins>>) = 1
  BY DEF Ins
<1>2. ins.needs \in Nat
  BY <1>1, InstructionFacts
<1> SUFFICES ASSUME NEW text, NEW x \in Nat, NEW s \in Shapes,
                    Placed(text, x, <<ins>>), Ready(s, m)
             PROVE  \E sh : Covers(text, x, x + 1, sh, s, Leaving(s, m, n), "may")
  BY <1>1 DEF Fits
<1> DEFINE t == Leaving(s, m, n)
           h == [p \in {x} |-> s]
           at == text[x]
<1>4. Located(ins, x, at)
  BY PlacedOne
<1>6. Supplied(at, s)
  <2>1. Ready(s, ins.needs)
    BY <1>2, ReadyLess
  <2> QED
    BY <1>1, <1>4, <2>1, Enough
<1>7. ~ GoesOn(at) /\ at.op \notin Moving
  BY <1>4 DEF Located, GoesOn, Moving, Jumps
<1>9. DOMAIN h = {x} /\ h[x] = s /\ x \in x .. x + 1 /\ x + 1 # x
  OBVIOUS
<1> HIDE DEF h, t, at
<1>10. Fine(text, h, s.handlers, x)
  BY <1>6, <1>7, <1>9 DEF Fine, at
<1>12. Covers(text, x, x + 1, h, s, t, "may")
  BY <1>9, <1>10 DEF Covers
<1> QED
  BY <1>12 DEF t

\* No code at all.
LEMMA EmptyFits ==
  ASSUME NEW F, NEW m \in Nat
  PROVE  Fits(F, <<>>, m, m, "ends")
<1>1. <<>> \in Seq(Ins(F)) /\ Len(<<>>) = 0
  OBVIOUS
<1> SUFFICES ASSUME NEW text, NEW x \in Nat, NEW s \in Shapes, Ready(s, m)
             PROVE  \E sh : Covers(text, x, x, sh, s, Leaving(s, m, m), "ends")
  <2>1. \A x \in Nat : x + Len(<<>>) = x
    BY <1>1
  <2> QED
    BY <1>1, <2>1 DEF Fits
<1> DEFINE h == [p \in {x} |-> s]
<1>2. DOMAIN h = {x} /\ h[x] = s /\ x \in x .. x
  OBVIOUS
<1>3. Leaving(s, m, m) = s
  BY LeavingFacts
<1> HIDE DEF h
<1>4. Covers(text, x, x, h, s, s, "ends")
  BY <1>2 DEF Covers
<1> QED
  BY <1>3, <1>4

\* What code does with the values it finds it does with more under them.
LEMMA FrameFits ==
  ASSUME NEW F, NEW code, NEW m, NEW n, NEW mode, Fits(F, code, m, n, mode),
         NEW k \in Nat
  PROVE  Fits(F, code, m + k, n + k, mode)
<1>1. m \in Nat /\ n \in Nat /\ m + k \in Nat /\ n + k \in Nat
  BY DEF Fits
<1>2. ASSUME NEW s \in Shapes, Ready(s, m + k)
      PROVE  Ready(s, m) /\ Leaving(s, m + k, n + k) = Leaving(s, m, n)
  <2>1. m <= m + k /\ (m + k) + n = (n + k) + m
    BY <1>1
  <2> QED
    BY <1>1, <1>2, <2>1, LeavingSame
<1> QED
  BY <1>1, <1>2 DEF Fits

\* Code that ends is code that may end.
LEMMA MayFits ==
  ASSUME NEW F, NEW code, NEW m, NEW n, NEW mode, Fits(F, code, m, n, "ends")
  PROVE  Fits(F, code, m, n, mode)
<1>1. ASSUME NEW text, NEW x, NEW y, NEW sh, NEW s, NEW t, Covers(text, x, y, sh, s, t, "ends")
      PROVE  Covers(text, x, y, sh, s, t, mode)
  BY <1>1 DEF Covers
<1> QED
  BY <1>1 DEF Fits

\* One after the other.
LEMMA SequenceFits ==
  ASSUME NEW F, NEW a, NEW b, NEW m, NEW n, NEW k, NEW mode,
         Fits(F, a, m, n, mode), Fits(F, b, n, k, mode)
  PROVE  Fits(F, a \o b, m, k, mode)
<1>1. /\ a \in Seq(Ins(F)) /\ b \in Seq(Ins(F)) /\ m \in Nat /\ n \in Nat /\ k \in Nat
  BY DEF Fits
<1>2. /\ a \o b \in Seq(Ins(F)) /\ Len(a \o b) = Len(a) + Len(b)
      /\ Len(a) \in Nat /\ Len(b) \in Nat
  BY <1>1
<1> SUFFICES ASSUME NEW text, NEW x \in Nat, NEW s \in Shapes,
                    Placed(text, x, a \o b), Ready(s, m)
             PROVE  \E sh : Covers(text, x, x + Len(a \o b), sh, s, Leaving(s, m, k), mode)
  BY <1>1, <1>2 DEF Fits
<1> DEFINE y == x + Len(a)
           z == y + Len(b)
           t == Leaving(s, m, n)
           u == Leaving(s, m, k)
<1>3. Placed(text, x, a) /\ Placed(text, y, b)
  BY <1>1, PlacedConcat
<1>4. t \in Shapes /\ Ready(t, n) /\ Leaving(t, n, k) = u /\ t.handlers = s.handlers
  BY <1>1, LeavingFacts
<1>5. y \in Nat /\ z \in Nat /\ x <= y /\ y <= z /\ z = x + Len(a \o b)
  BY <1>2
<1>6. PICK f : Covers(text, x, y, f, s, t, mode)
  BY <1>3 DEF Fits
<1>7. PICK g : Covers(text, y, z, g, t, u, mode)
  BY <1>3, <1>4, <1>5 DEF Fits
<1> HIDE DEF t, u, y, z
<1>8. \E h : Covers(text, x, z, h, s, u, mode)
  BY <1>4, <1>5, <1>6, <1>7, CoversJoin
<1> QED
  BY <1>5, <1>8 DEF u
-----------------------------------------------------------------------------
(* What goes elsewhere.                                                    *)

\* ConditionalJump and ListPopFirstOrElse: one value is taken; an item is left
\* for the next instruction by the latter, and nothing at the target d ahead.
Exit(ins, k, d) ==
  \/ ins = ConditionalJump(d) /\ k = 0
  \/ ins = ListPopFirstOrElse(d) /\ k = 1

\* The two ways to make instructions.
LEMMA SimpleFacts ==
  ASSUME NEW o \in Ops
  PROVE  /\ Simple(o) \in Fields /\ Simple(o).op = o /\ Simple(o).needs = 0
         /\ Simple(o).pops = 0 /\ Simple(o).pushes = 0 /\ ~ Simple(o).fails
         /\ ~ Simple(o).soft /\ Simple(o).to = 0
BY DEF Simple, Fields

\* The fields of an instruction that takes and leaves values.
LEMMA EffectFacts ==
  ASSUME NEW o \in Ops, NEW p \in Nat, NEW q \in Nat
  PROVE  /\ Effect(o, p, q) \in Fields /\ Effect(o, p, q).op = o
         /\ Effect(o, p, q).needs = p /\ Effect(o, p, q).pops = p
         /\ Effect(o, p, q).pushes = q /\ Effect(o, p, q).fails
         /\ ~ Effect(o, p, q).soft /\ Effect(o, p, q).to = 0
<1>1. Simple(o) \in Fields
  BY SimpleFacts
<1>2. Effect(o, p, q) \in Fields
  BY <1>1 DEF Effect, Fields
<1> QED
  BY <1>2 DEF Effect, Simple

\* They stay when it gets a target.
LEMMA WithTarget ==
  ASSUME NEW r \in Fields, NEW d \in Int
  PROVE  LET e == [r EXCEPT !.to = d]
         IN /\ e \in Fields /\ e.op = r.op /\ e.needs = r.needs /\ e.pops = r.pops
            /\ e.pushes = r.pushes /\ e.fails = r.fails /\ e.soft = r.soft /\ e.to = d
BY DEF Fields

\* The operations, as a set without parts.
LEMMA OpsAre ==
  Ops = {"Op", "Watcher", "Pause", "Broadcast", "Fork", "CreatedClone", "Request",
         "BroadcastAndWait", "Sleep", "SendNetworkMessage", "Jump", "ConditionalJump",
         "ListPopFirstOrElse", "Call", "PushHandler", "Yield", "WarpStart", "WarpStop",
         "CallClosure", "Return", "PopHandler", "Throw", "SendNetworkReply"}
BY DEF Ops, Plain, Reports, Deferring, Jumps

\* The fields of a conditional exit.
LEMMA ExitFacts ==
  ASSUME NEW ins, NEW k, NEW d \in Int, Exit(ins, k, d)
  PROVE  /\ ins \in Instruction /\ ins.op \in {"ConditionalJump", "ListPopFirstOrElse"}
         /\ ins.needs = 1 /\ ins.pops = 1 /\ ins.pushes = k /\ ins.to = d /\ k \in Nat
         /\ ins.op = "ConditionalJump" => k = 0
         /\ \A F : ins \in Ins(F)
<1>1. "ConditionalJump" \in Ops /\ "ListPopFirstOrElse" \in Ops
  BY OpsAre
<1>2. CASE ins = ConditionalJump(d) /\ k = 0
  <2> DEFINE r == Effect("ConditionalJump", 1, 0)
  <2>1. /\ r \in Fields /\ r.op = "ConditionalJump" /\ r.needs = 1 /\ r.pops = 1
        /\ r.pushes = 0 /\ r.fails /\ ~ r.soft
    BY <1>1, EffectFacts
  <2>2. /\ ins \in Fields /\ ins.op = "ConditionalJump" /\ ins.needs = 1 /\ ins.pops = 1
        /\ ins.pushes = 0 /\ ins.fails /\ ~ ins.soft /\ ins.to = d
    BY <1>2, <2>1, WithTarget DEF ConditionalJump
  <2>3. ins \in Instruction
    BY <2>2 DEF Instruction, Built, Deferring
  <2> QED
    BY <1>2, <2>2, <2>3 DEF Ins
<1>3. CASE ins = ListPopFirstOrElse(d) /\ k = 1
  <2> DEFINE r == Effect("ListPopFirstOrElse", 1, 1)
  <2>1. /\ r \in Fields /\ r.op = "ListPopFirstOrElse" /\ r.needs = 1 /\ r.pops = 1
        /\ r.pushes = 1 /\ r.fails /\ ~ r.soft
    BY <1>1, EffectFacts
  <2>2. /\ ins \in Fields /\ ins.op = "ListPopFirstOrElse" /\ ins.needs = 1 /\ ins.pops = 1
        /\ ins.pushes = 1 /\ ins.fails /\ ~ ins.soft /\ ins.to = d
    BY <1>3, <2>1, WithTarget DEF ListPopFirstOrElse
  <2>3. ins \in Instruction
    BY <2>2 DEF Instruction, Built, Deferring
  <2> QED
    BY <1>3, <2>2, <2>3 DEF Ins
<1> QED
  BY <1>2, <1>3 DEF Exit

\* A conditional exit is verified when both its ways find what it leaves.
LEMMA ExitFine ==
  ASSUME NEW ins, NEW k, NEW d \in Int, Exit(ins, k, d),
         NEW text, NEW p \in Nat, Located(ins, p, text[p]),
         NEW h, NEW r \in Shapes, Ready(r, 1), p \in DOMAIN h, h[p] = r,
         p + 1 \in DOMAIN h, h[p + 1] = Leaving(r, 1, k),
         p + d \in DOMAIN h, h[p + d] = Leaving(r, 1, 0)
  PROVE  Fine(text, h, r.handlers, p) /\ Leads(text, p, p + 1) /\ Leads(text, p, p + d)
<1> DEFINE at == text[p]
<1>1. /\ ins \in Instruction /\ ins.op \in {"ConditionalJump", "ListPopFirstOrElse"}
      /\ ins.needs = 1 /\ ins.pops = 1 /\ ins.pushes = k /\ ins.to = d /\ k \in Nat
      /\ ins.op = "ConditionalJump" => k = 0
  BY ExitFacts
<1>2. /\ at.op = ins.op /\ at.pops = 1 /\ at.pushes = k /\ at.to = p + d
      /\ at.op \in Moving
  BY <1>1 DEF Located, Moving, Jumps
<1>3. Supplied(at, r)
  BY <1>1, Enough
<1>4. r.values \in Nat /\ r = [values |-> r.values, warp |-> r.warp, handlers |-> r.handlers]
  BY DEF Shapes
<1>5. After(at, r) = Leaving(r, 1, k) /\ GoesOn(at)
  BY <1>1, <1>2 DEF After, Leaving, GoesOn
<1>6. AtTarget(at, r) = Leaving(r, 1, 0)
  <2>1. CASE at.op = "ListPopFirstOrElse"
    <3>1. AtTarget(at, r) = [r EXCEPT !.values = @ - 1]
      BY <2>1 DEF AtTarget
    <3>2. r.values - 1 = r.values - 1 + 0
      BY <1>4
    <3>3. [r EXCEPT !.values = @ - 1] =
            [values |-> r.values - 1, warp |-> r.warp, handlers |-> r.handlers]
      BY <1>4
    <3> QED
      BY <3>1, <3>2, <3>3 DEF Leaving
  <2>2. CASE at.op = "ConditionalJump"
    BY <1>1, <1>2, <1>5, <2>2 DEF AtTarget
  <2> QED
    BY <1>1, <1>2, <2>1, <2>2
<1> HIDE DEF at
<1> QED
  BY <1>2, <1>3, <1>5, <1>6 DEF Fine, Leads, at

\* The fields of a jump.
LEMMA JumpFacts ==
  ASSUME NEW d \in Int
  PROVE  /\ Jump(d) \in Instruction /\ Jump(d).op = "Jump" /\ Jump(d).needs = 0
         /\ Jump(d).pops = 0 /\ Jump(d).pushes = 0 /\ Jump(d).to = d
         /\ \A F : Jump(d) \in Ins(F)
<1>1. "Jump" \in Ops
  BY OpsAre
<1>2. LET r == Simple("Jump")
      IN /\ r \in Fields /\ r.op = "Jump" /\ r.needs = 0 /\ r.pops = 0
         /\ r.pushes = 0 /\ ~ r.fails /\ ~ r.soft
  BY <1>1, SimpleFacts
<1>3. /\ Jump(d) \in Fields /\ Jump(d).op = "Jump" /\ Jump(d).needs = 0
      /\ Jump(d).pops = 0 /\ Jump(d).pushes = 0 /\ ~ Jump(d).fails
      /\ ~ Jump(d).soft /\ Jump(d).to = d
  BY <1>2, WithTarget DEF Jump
<1>4. Jump(d) \in Instruction
  BY <1>3 DEF Instruction, Built, Deferring
<1> QED
  BY <1>3, <1>4 DEF Ins

\* A jump is verified when its target finds what the jump found.
LEMMA JumpFine ==
  ASSUME NEW d \in Int, NEW text, NEW p \in Nat, Located(Jump(d), p, text[p]),
         NEW h, NEW r \in Shapes, Ready(r, 0), p \in DOMAIN h, h[p] = r,
         p + d \in DOMAIN h, h[p + d] = r
  PROVE  Fine(text, h, r.handlers, p) /\ Leads(text, p, p + d)
<1> DEFINE at == text[p]
<1>1. /\ Jump(d) \in Instruction /\ Jump(d).op = "Jump" /\ Jump(d).needs = 0
      /\ Jump(d).pops = 0 /\ Jump(d).pushes = 0 /\ Jump(d).to = d
  BY JumpFacts
<1>2. /\ at.op = "Jump" /\ at.pops = 0 /\ at.pushes = 0 /\ at.to = p + d
      /\ at.op \in Moving
  BY <1>1 DEF Located, Moving, Jumps
<1>3. Supplied(at, r)
  BY <1>1, Enough
<1>4. r.values \in Nat /\ r = [values |-> r.values, warp |-> r.warp, handlers |-> r.handlers]
  BY DEF Shapes
<1>5. AtTarget(at, r) = r /\ ~ GoesOn(at)
  <2>1. r.values - 0 + 0 = r.values
    BY <1>4
  <2> QED
    BY <1>2, <1>4, <2>1 DEF AtTarget, After, GoesOn
<1> HIDE DEF at
<1> QED
  BY <1>2, <1>3, <1>5 DEF Fine, Leads, at

\* One of two, and on behind both.
LEMMA BranchFits ==
  ASSUME NEW F, NEW ins, NEW k, NEW a, NEW b, NEW m \in Nat, NEW n \in Nat, NEW mode,
         Exit(ins, k, Len(a) + 2), Fits(F, a, m + k, n, mode), Fits(F, b, m, n, mode)
  PROVE  Fits(F, <<ins>> \o a \o <<Jump(Len(b) + 1)>> \o b, m + 1, n, mode)
<1> DEFINE jump == Jump(Len(b) + 1)
           code == <<ins>> \o a \o <<jump>> \o b
<1>1. a \in Seq(Ins(F)) /\ b \in Seq(Ins(F)) /\ Len(a) \in Nat /\ Len(b) \in Nat
  BY DEF Fits
<1>2. ins \in Ins(F) /\ jump \in Ins(F) /\ k \in Nat
  BY <1>1, ExitFacts, JumpFacts
<1> HIDE DEF jump
<1>3. /\ <<ins>> \in Seq(Ins(F)) /\ <<ins>> \o a \in Seq(Ins(F))
      /\ <<jump>> \in Seq(Ins(F)) /\ <<ins>> \o a \o <<jump>> \in Seq(Ins(F))
      /\ code \in Seq(Ins(F))
      /\ Len(<<ins>>) = 1 /\ Len(<<ins>> \o a) = 1 + Len(a)
      /\ Len(<<ins>> \o a \o <<jump>>) = Len(a) + 2 /\ Len(code) = Len(a) + 2 + Len(b)
  BY <1>1, <1>2
<1> SUFFICES ASSUME NEW text, NEW x \in Nat, NEW s \in Shapes,
                    Placed(text, x, code), Ready(s, m + 1)
             PROVE  \E sh : Covers(text, x, x + Len(code), sh, s, Leaving(s, m + 1, n), mode)
  BY <1>3 DEF Fits, jump
<1> DEFINE x1 == x + 1
           y1 == x + (1 + Len(a))
           x2 == x + (Len(a) + 2)
           y == x2 + Len(b)
           ta == Leaving(s, 1, k)
           tb == Leaving(s, 1, 0)
           t == Leaving(s, m + 1, n)
<1>4. /\ x1 \in Nat /\ y1 \in Nat /\ x2 \in Nat /\ y \in Nat
      /\ x < x1 /\ x1 <= y1 /\ y1 < x2 /\ x2 <= y /\ x2 = y1 + 1
      /\ y1 = x1 + Len(a) /\ y = x + Len(code) /\ y = y1 + (Len(b) + 1)
      /\ x2 = x + (Len(a) + 2) /\ x1 = x + 1
  BY <1>1, <1>3
<1>5. /\ Placed(text, x, <<ins>> \o a \o <<jump>>) /\ Placed(text, x2, b)
  BY <1>1, <1>3, PlacedConcat
<1>6. /\ Placed(text, x, <<ins>> \o a) /\ Placed(text, y1, <<jump>>)
  BY <1>3, <1>5, PlacedConcat
<1>7. Placed(text, x, <<ins>>) /\ Placed(text, x1, a)
  BY <1>1, <1>3, <1>6, PlacedConcat
<1>8. Located(ins, x, text[x]) /\ Located(jump, y1, text[y1])
  BY <1>4, <1>6, <1>7, PlacedOne
<1>9. /\ Ready(s, 1) /\ Ready(s, m + 1)
      /\ ta \in Shapes /\ tb \in Shapes /\ t \in Shapes
      /\ ta.handlers = s.handlers /\ tb.handlers = s.handlers /\ t.handlers = s.handlers
      /\ ta = Leaving(s, m + 1, m + k) /\ tb = Leaving(s, m + 1, m)
      /\ Ready(t, 0)
  <2>1. Ready(s, 1)
    BY ReadyLess
  <2>2. /\ m + 1 \in Nat /\ m + k \in Nat /\ 1 <= m + 1
        /\ (m + 1) + k = (m + k) + 1 /\ (m + 1) + 0 = m + 1
    BY <1>2
  <2>3. ta = Leaving(s, m + 1, m + k)
    BY <1>2, <2>2, LeavingSame
  <2>4. tb = Leaving(s, m + 1, m)
    BY <2>2, LeavingSame
  <2>5. t \in Shapes /\ t.handlers = s.handlers /\ Ready(t, n)
    BY LeavingFacts
  <2>6. Ready(t, 0)
    BY <2>5, ReadyLess
  <2> QED
    BY <1>2, <2>1, <2>3, <2>4, <2>5, <2>6, LeavingFacts
<1>10. /\ Ready(ta, m + k) /\ Leaving(ta, m + k, n) = t
       /\ Ready(tb, m) /\ Leaving(tb, m, n) = t
  BY <1>2, <1>9, LeavingFacts
<1>11. PICK f : Covers(text, x1, y1, f, ta, t, mode)
  BY <1>4, <1>7, <1>9, <1>10 DEF Fits
<1>12. PICK g : Covers(text, x2, y, g, tb, t, mode)
  BY <1>4, <1>5, <1>9, <1>10 DEF Fits
<1>13. /\ DOMAIN f \subseteq x1 .. y1 /\ x1 \in DOMAIN f /\ f[x1] = ta
       /\ y1 \in DOMAIN f => f[y1] = t
       /\ DOMAIN g \subseteq x2 .. y /\ x2 \in DOMAIN g /\ g[x2] = tb
       /\ y \in DOMAIN g => g[y] = t
       /\ mode = "ends" => y \in DOMAIN g
  BY <1>11, <1>12 DEF Covers
<1> HIDE DEF x1, y1, x2, y, ta, tb, t, code
<1>14. /\ x \notin DOMAIN f /\ x \notin DOMAIN g /\ x # y /\ y \notin DOMAIN f
       /\ \A p \in DOMAIN f : p \notin DOMAIN g
  <2>1. x \notin x1 .. y1 /\ x \notin x2 .. y /\ x # y /\ y \notin x1 .. y1
    BY <1>4
  <2>2. \A p \in x1 .. y1 : p \notin x2 .. y
    BY <1>4
  <2> QED
    BY <1>13, <2>1, <2>2
<1> DEFINE D == {x} \union DOMAIN f \union DOMAIN g
                    \union (IF y1 \in DOMAIN f THEN {y} ELSE {})
           h == [p \in D |-> IF p = x THEN s ELSE IF p \in DOMAIN f THEN f[p]
                             ELSE IF p \in DOMAIN g THEN g[p] ELSE t]
<1>15. /\ DOMAIN h = D /\ h[x] = s
       /\ Within(f, h) /\ Within(g, h)
       /\ y \in D => h[y] = t
  BY <1>13, <1>14 DEF Within
<1> HIDE DEF h
<1>16. /\ x \in D /\ x1 \in D /\ h[x1] = ta /\ x2 \in D /\ h[x2] = tb
       /\ y1 \in DOMAIN f => y1 \in D /\ h[y1] = t /\ y \in D
       /\ D \subseteq x .. y
       /\ mode = "ends" => y \in D
  <2>1. x \in D /\ x1 \in D /\ x2 \in D
    BY <1>13
  <2>2. y1 \in DOMAIN f => y1 \in D /\ y \in D
    BY <1>13
  <2>3. mode = "ends" => y \in D
    BY <1>13
  <2>4. h[x1] = ta /\ h[x2] = tb /\ (y1 \in DOMAIN f => h[y1] = t)
    BY <1>13, <1>15 DEF Within
  <2>5. D \subseteq x .. y
    <3>1. x \in x .. y /\ y \in x .. y /\ x1 .. y1 \subseteq x .. y /\ x2 .. y \subseteq x .. y
      BY <1>4
    <3> QED
      BY <1>13, <3>1
  <2> QED
    BY <2>1, <2>2, <2>3, <2>4, <2>5
<1> HIDE DEF D
<1>17. /\ Fine(text, h, s.handlers, x) /\ Reached(text, h, x1) /\ Reached(text, h, x2)
  <2>1. Fine(text, h, s.handlers, x) /\ Leads(text, x, x1) /\ Leads(text, x, x2)
    BY <1>1, <1>4, <1>8, <1>9, <1>15, <1>16, ExitFine DEF ta, tb
  <2>2. x < x2
    BY <1>4
  <2> QED
    BY <1>4, <1>15, <1>16, <2>1, <2>2 DEF Reached
<1>18. y1 \in DOMAIN f => Fine(text, h, s.handlers, y1) /\ Reached(text, h, y)
  <2>1. SUFFICES ASSUME y1 \in DOMAIN f
                 PROVE  Fine(text, h, s.handlers, y1) /\ Reached(text, h, y)
    OBVIOUS
  <2>2. Fine(text, h, t.handlers, y1) /\ Leads(text, y1, y)
    <3> DEFINE d == Len(b) + 1
    <3>1. d \in Int /\ y1 + d = y /\ y1 \in Nat /\ Located(Jump(d), y1, text[y1])
      BY <1>1, <1>4, <1>8 DEF jump
    <3>2. /\ y1 \in DOMAIN h /\ h[y1] = t /\ y \in DOMAIN h /\ h[y] = t
          /\ t \in Shapes /\ Ready(t, 0)
      BY <1>9, <1>15, <1>16, <2>1
    <3> HIDE DEF d
    <3> QED
      BY <3>1, <3>2, JumpFine
  <2>3. y1 < y
    BY <1>4
  <2> QED
    BY <1>9, <1>15, <1>16, <2>1, <2>2, <2>3 DEF Reached
<1>19. \A p \in DOMAIN f : /\ h[p] \in Shapes
                           /\ p = x1 \/ Reached(text, h, p)
                           /\ p = y1 \/ Fine(text, h, s.handlers, p)
  BY <1>9, <1>11, <1>15, CoversWithin
<1>20. \A p \in DOMAIN g : /\ h[p] \in Shapes
                           /\ p = x2 \/ Reached(text, h, p)
                           /\ p = y \/ Fine(text, h, s.handlers, p)
  BY <1>9, <1>12, <1>15, CoversWithin
<1>21. ASSUME NEW p \in D
       PROVE  /\ h[p] \in Shapes
              /\ p = x \/ Reached(text, h, p)
              /\ p = y \/ Fine(text, h, s.handlers, p)
  <2>1. CASE p = x
    BY <1>15, <1>17, <2>1
  <2>2. CASE p \in DOMAIN f
    BY <1>17, <1>18, <1>19, <2>2
  <2>3. CASE p \in DOMAIN g
    BY <1>17, <1>20, <2>3
  <2>4. CASE y1 \in DOMAIN f /\ p = y
    BY <1>9, <1>15, <1>16, <1>18, <2>4
  <2> QED
    BY <2>1, <2>2, <2>3, <2>4 DEF D
<1>22. Covers(text, x, y, h, s, t, mode)
  BY <1>15, <1>16, <1>21 DEF Covers
<1> QED
  BY <1>4, <1>22 DEF t

\* Code that is skipped or not.
LEMMA SkipFits ==
  ASSUME NEW F, NEW ins, NEW k, NEW a, NEW m \in Nat, NEW mode,
         Exit(ins, k, Len(a) + 1), Fits(F, a, m + k, m, mode)
  PROVE  Fits(F, <<ins>> \o a, m + 1, m, "ends")
<1> DEFINE code == <<ins>> \o a
<1>1. a \in Seq(Ins(F)) /\ Len(a) \in Nat
  BY DEF Fits
<1>2. ins \in Ins(F) /\ k \in Nat
  BY <1>1, ExitFacts
<1>3. /\ <<ins>> \in Seq(Ins(F)) /\ code \in Seq(Ins(F))
      /\ Len(<<ins>>) = 1 /\ Len(code) = 1 + Len(a) /\ m + 1 \in Nat
  BY <1>1, <1>2
<1> SUFFICES ASSUME NEW text, NEW x \in Nat, NEW s \in Shapes,
                    Placed(text, x, code), Ready(s, m + 1)
             PROVE  \E sh : Covers(text, x, x + Len(code), sh, s, Leaving(s, m + 1, m), "ends")
  BY <1>3 DEF Fits
<1> DEFINE x1 == x + 1
           y == x1 + Len(a)
           ta == Leaving(s, 1, k)
           t == Leaving(s, m + 1, m)
<1>4. /\ x1 \in Nat /\ y \in Nat /\ x < x1 /\ x1 <= y /\ y = x + Len(code)
      /\ x1 = x + 1 /\ y = x + (Len(a) + 1) /\ Len(a) + 1 \in Int
  BY <1>1, <1>3
<1>5. Placed(text, x, <<ins>>) /\ Placed(text, x1, a)
  BY <1>1, <1>3, PlacedConcat
<1>6. Located(ins, x, text[x])
  BY <1>5, PlacedOne
<1>7. /\ Ready(s, 1) /\ ta \in Shapes /\ t \in Shapes
      /\ ta.handlers = s.handlers /\ t = Leaving(s, 1, 0)
      /\ Ready(ta, m + k) /\ Leaving(ta, m + k, m) = t
  <2>1. Ready(s, 1)
    BY ReadyLess
  <2>2. /\ m + 1 \in Nat /\ m + k \in Nat /\ 1 <= m + 1
        /\ (m + 1) + k = (m + k) + 1 /\ (m + 1) + 0 = m + 1
    BY <1>2
  <2>3. ta = Leaving(s, m + 1, m + k)
    BY <1>2, <2>2, LeavingSame
  <2>4. t = Leaving(s, 1, 0)
    BY <2>2, LeavingSame
  <2>5. Ready(ta, m + k) /\ Leaving(ta, m + k, m) = t
    BY <1>2, <2>3, LeavingFacts
  <2> QED
    BY <1>2, <2>1, <2>4, <2>5, LeavingFacts
<1>8. PICK f : Covers(text, x1, y, f, ta, t, mode)
  BY <1>4, <1>5, <1>7 DEF Fits
<1>9. /\ DOMAIN f \subseteq x1 .. y /\ x1 \in DOMAIN f /\ f[x1] = ta
      /\ y \in DOMAIN f => f[y] = t
  BY <1>8 DEF Covers
<1> HIDE DEF x1, y, ta, t, code
<1>10. x \notin DOMAIN f /\ x # y
  <2>1. x \notin x1 .. y /\ x # y
    BY <1>4
  <2> QED
    BY <1>9, <2>1
<1> DEFINE D == {x, y} \union DOMAIN f
           h == [p \in D |-> IF p = x THEN s ELSE IF p \in DOMAIN f THEN f[p] ELSE t]
<1>11. /\ DOMAIN h = D /\ h[x] = s /\ Within(f, h) /\ h[y] = t
  BY <1>9, <1>10 DEF Within
<1> HIDE DEF h
<1>12. /\ x \in D /\ y \in D /\ x1 \in D /\ h[x1] = ta /\ D \subseteq x .. y
  BY <1>4, <1>9, <1>11 DEF Within
<1>13. /\ Fine(text, h, s.handlers, x) /\ Reached(text, h, x1) /\ Reached(text, h, y)
  <2>1. Fine(text, h, s.handlers, x) /\ Leads(text, x, x1) /\ Leads(text, x, y)
    BY <1>4, <1>6, <1>7, <1>11, <1>12, ExitFine DEF ta
  <2>2. x < y
    BY <1>4
  <2> QED
    BY <1>4, <1>11, <1>12, <2>1, <2>2 DEF Reached
<1>14. \A p \in DOMAIN f : /\ h[p] \in Shapes
                           /\ p = x1 \/ Reached(text, h, p)
                           /\ p = y \/ Fine(text, h, s.handlers, p)
  BY <1>7, <1>8, <1>11, CoversWithin
<1>15. ASSUME NEW p \in D
       PROVE  /\ h[p] \in Shapes
              /\ p = x \/ Reached(text, h, p)
              /\ p = y \/ Fine(text, h, s.handlers, p)
  BY <1>7, <1>11, <1>13, <1>14
<1> HIDE DEF D
<1>16. Covers(text, x, y, h, s, t, "ends")
  BY <1>11, <1>12, <1>15 DEF Covers
<1> QED
  BY <1>4, <1>16 DEF t

\* A loop: as long as the code c does not lead to the exit, once more.
LEMMA WhileFits ==
  ASSUME NEW F, NEW ins, NEW k, NEW c, NEW a, NEW m \in Nat, NEW l \in Nat, NEW mode,
         Exit(ins, k, Len(a) + 2), Fits(F, c, m, l + 1, "ends"), Fits(F, a, l + k, m, mode)
  PROVE  Fits(F, c \o <<ins>> \o a \o <<Jump(-(Len(c) + Len(a) + 1))>>, m, l, "ends")
<1> DEFINE jump == Jump(-(Len(c) + Len(a) + 1))
           code == c \o <<ins>> \o a \o <<jump>>
<1>1. /\ c \in Seq(Ins(F)) /\ a \in Seq(Ins(F)) /\ Len(c) \in Nat /\ Len(a) \in Nat
      /\ -(Len(c) + Len(a) + 1) \in Int /\ Len(a) + 2 \in Int
  BY DEF Fits
<1>2. ins \in Ins(F) /\ jump \in Ins(F) /\ k \in Nat
  BY <1>1, ExitFacts, JumpFacts
<1> HIDE DEF jump
<1>3. /\ <<ins>> \in Seq(Ins(F)) /\ c \o <<ins>> \in Seq(Ins(F))
      /\ <<jump>> \in Seq(Ins(F)) /\ c \o <<ins>> \o a \in Seq(Ins(F))
      /\ code \in Seq(Ins(F))
      /\ Len(<<ins>>) = 1 /\ Len(c \o <<ins>>) = Len(c) + 1
      /\ Len(c \o <<ins>> \o a) = Len(c) + 1 + Len(a)
      /\ Len(code) = Len(c) + 1 + Len(a) + 1
  BY <1>1, <1>2
<1> SUFFICES ASSUME NEW text, NEW x \in Nat, NEW s \in Shapes,
                    Placed(text, x, code), Ready(s, m)
             PROVE  \E sh : Covers(text, x, x + Len(code), sh, s, Leaving(s, m, l), "ends")
  BY <1>3 DEF Fits, jump
<1> DEFINE q == x + Len(c)
           x1 == x + (Len(c) + 1)
           y1 == x + (Len(c) + 1 + Len(a))
           y == y1 + 1
           u == Leaving(s, m, l + 1)
           ta == Leaving(u, 1, k)
           t == Leaving(s, m, l)
<1>4. /\ q \in Nat /\ x1 \in Nat /\ y1 \in Nat /\ y \in Nat
      /\ x <= q /\ q < x1 /\ x1 <= y1 /\ y1 < y
      /\ y = x + Len(code) /\ x1 = q + 1 /\ y1 = x1 + Len(a) /\ y = q + (Len(a) + 2)
      /\ x = y1 + (-(Len(c) + Len(a) + 1)) /\ q = x + Len(c)
  BY <1>1, <1>3
<1>5. /\ Placed(text, x, c \o <<ins>> \o a) /\ Placed(text, y1, <<jump>>)
  BY <1>3, PlacedConcat
<1>6. /\ Placed(text, x, c \o <<ins>>) /\ Placed(text, x1, a)
  BY <1>1, <1>3, <1>5, PlacedConcat
<1>7. Placed(text, x, c) /\ Placed(text, q, <<ins>>)
  BY <1>1, <1>3, <1>6, PlacedConcat
<1>8. Located(ins, q, text[q]) /\ Located(jump, y1, text[y1])
  BY <1>4, <1>5, <1>7, PlacedOne
<1>9. /\ u \in Shapes /\ ta \in Shapes /\ t \in Shapes
      /\ u.handlers = s.handlers /\ ta.handlers = s.handlers
      /\ Ready(u, 1) /\ t = Leaving(u, 1, 0) /\ Ready(s, 0)
      /\ Ready(ta, l + k) /\ Leaving(ta, l + k, m) = s
  <2>1. /\ l + 1 \in Nat /\ l + k \in Nat /\ 1 <= l + 1
        /\ (l + 1) + k = (l + k) + 1 /\ (l + 1) + 0 = l + 1
    BY <1>2
  <2>2. /\ u \in Shapes /\ Ready(u, l + 1) /\ u.handlers = s.handlers
        /\ t \in Shapes /\ Leaving(u, l + 1, l) = t /\ Leaving(u, l + 1, m) = s
    BY <2>1, LeavingFacts
  <2> HIDE DEF u
  <2>3. Ready(u, 1) /\ ta = Leaving(u, l + 1, l + k)
    BY <1>2, <2>1, <2>2, LeavingSame
  <2>4. t = Leaving(u, 1, 0)
    <3>1. Leaving(u, l + 1, l) = Leaving(u, 1, 0)
      BY <2>2, LeavingOne
    <3> QED
      BY <2>2, <3>1
  <2>5. ta \in Shapes /\ ta.handlers = s.handlers
    BY <1>2, <2>2, <2>3, LeavingFacts
  <2>6. Ready(ta, l + k) /\ Leaving(ta, l + k, m) = s
    <3>1. Leaving(u, l + 1, m) = s
      BY <2>2
    <3> HIDE DEF ta
    <3> QED
      BY <2>1, <2>2, <2>3, <3>1, LeavingFacts
  <2>7. Ready(s, 0)
    BY ReadyLess
  <2> QED
    BY <2>2, <2>3, <2>4, <2>5, <2>6, <2>7
<1>11. PICK f : Covers(text, x, q, f, s, u, "ends")
  BY <1>7 DEF Fits
<1>12. PICK g : Covers(text, x1, y1, g, ta, s, mode)
  BY <1>4, <1>6, <1>9 DEF Fits
<1>13. /\ DOMAIN f \subseteq x .. q /\ x \in DOMAIN f /\ f[x] = s
       /\ q \in DOMAIN f /\ f[q] = u
       /\ DOMAIN g \subseteq x1 .. y1 /\ x1 \in DOMAIN g /\ g[x1] = ta
       /\ y1 \in DOMAIN g => g[y1] = s
  BY <1>11, <1>12 DEF Covers
<1> HIDE DEF q, x1, y1, y, u, ta, t, code
<1>14. y \notin DOMAIN f /\ y \notin DOMAIN g /\ \A p \in DOMAIN f : p \notin DOMAIN g
  <2>1. y \notin x .. q /\ y \notin x1 .. y1
    BY <1>4
  <2>2. \A p \in x .. q : p \notin x1 .. y1
    BY <1>4
  <2> QED
    BY <1>13, <2>1, <2>2
<1> DEFINE D == DOMAIN f \union DOMAIN g \union {y}
           h == [p \in D |-> IF p \in DOMAIN f THEN f[p]
                             ELSE IF p \in DOMAIN g THEN g[p] ELSE t]
<1>15. DOMAIN h = D /\ Within(f, h) /\ Within(g, h) /\ h[y] = t
  BY <1>13, <1>14 DEF Within
<1> HIDE DEF h
<1>16. /\ x \in D /\ h[x] = s /\ q \in D /\ h[q] = u /\ x1 \in D /\ h[x1] = ta
       /\ y1 \in DOMAIN g => y1 \in D /\ h[y1] = s
       /\ y \in D
  BY <1>13, <1>15 DEF Within
<1>17. D \subseteq x .. y
  <2>1. x .. q \subseteq x .. y /\ x1 .. y1 \subseteq x .. y /\ y \in x .. y
    BY <1>4
  <2> QED
    BY <1>13, <2>1
<1>18. /\ Fine(text, h, s.handlers, q) /\ Reached(text, h, x1) /\ Reached(text, h, y)
  <2>1. Fine(text, h, u.handlers, q) /\ Leads(text, q, x1) /\ Leads(text, q, y)
    <3> DEFINE d == Len(a) + 2
    <3>1. d \in Int /\ Exit(ins, k, d) /\ q \in Nat /\ Located(ins, q, text[q])
      BY <1>1, <1>4, <1>8
    <3>2. x1 = q + 1 /\ y = q + d
      BY <1>4
    <3>3. /\ u \in Shapes /\ Ready(u, 1) /\ q \in DOMAIN h /\ h[q] = u
          /\ x1 \in DOMAIN h /\ h[x1] = Leaving(u, 1, k)
          /\ y \in DOMAIN h /\ h[y] = Leaving(u, 1, 0)
      BY <1>9, <1>15, <1>16 DEF ta
    <3> HIDE DEF d
    <3> QED
      BY ONLY <3>1, <3>2, <3>3, ExitFine
  <2>2. q < x1 /\ q < y
    BY <1>4
  <2> QED
    BY <1>9, <1>15, <1>16, <2>1, <2>2 DEF Reached
<1>19. y1 \in DOMAIN g => Fine(text, h, s.handlers, y1)
  <2>1. SUFFICES ASSUME y1 \in DOMAIN g
                 PROVE  Fine(text, h, s.handlers, y1)
    OBVIOUS
  <2> DEFINE d == -(Len(c) + Len(a) + 1)
  <2>2. d \in Int /\ y1 + d = x /\ y1 \in Nat /\ Located(Jump(d), y1, text[y1])
    BY <1>1, <1>4, <1>8 DEF jump
  <2>3. /\ y1 \in DOMAIN h /\ h[y1] = s /\ x \in DOMAIN h /\ h[x] = s /\ Ready(s, 0)
    BY <1>9, <1>15, <1>16, <2>1
  <2> HIDE DEF d
  <2> QED
    BY <2>2, <2>3, JumpFine
<1>20. \A p \in DOMAIN f : /\ h[p] \in Shapes
                           /\ p = x \/ Reached(text, h, p)
                           /\ p = q \/ Fine(text, h, s.handlers, p)
  BY <1>11, <1>15, CoversWithin
<1>21. \A p \in DOMAIN g : /\ h[p] \in Shapes
                           /\ p = x1 \/ Reached(text, h, p)
                           /\ p = y1 \/ Fine(text, h, s.handlers, p)
  BY <1>9, <1>12, <1>15, CoversWithin
<1>22. ASSUME NEW p \in D
       PROVE  /\ h[p] \in Shapes
              /\ p = x \/ Reached(text, h, p)
              /\ p = y \/ Fine(text, h, s.handlers, p)
  <2>1. CASE p \in DOMAIN f
    BY <1>18, <1>20, <2>1
  <2>2. CASE p \in DOMAIN g
    BY <1>18, <1>19, <1>21, <2>2
  <2>3. CASE p = y
    BY <1>9, <1>15, <1>18, <2>3
  <2> QED
    BY <2>1, <2>2, <2>3 DEF D
<1> HIDE DEF D
<1>23. Covers(text, x, y, h, s, t, "ends")
  BY <1>15, <1>16, <1>17, <1>22 DEF Covers
<1> QED
  BY <1>4, <1>23 DEF t

\* A loop without an exit.
LEMMA LoopFits ==
  ASSUME NEW F, NEW a, NEW m \in Nat, NEW n \in Nat, NEW mode, Fits(F, a, m, m, mode)
  PROVE  Fits(F, a \o <<Jump(-Len(a))>>, m, n, "may")
<1> DEFINE jump == Jump(-Len(a))
           code == a \o <<jump>>
<1>1. a \in Seq(Ins(F)) /\ Len(a) \in Nat /\ -Len(a) \in Int
  BY DEF Fits
<1>2. jump \in Ins(F)
  BY <1>1, JumpFacts
<1> HIDE DEF jump
<1>3. /\ <<jump>> \in Seq(Ins(F)) /\ code \in Seq(Ins(F))
      /\ Len(<<jump>>) = 1 /\ Len(code) = Len(a) + 1
  BY <1>1, <1>2
<1> SUFFICES ASSUME NEW text, NEW x \in Nat, NEW s \in Shapes,
                    Placed(text, x, code), Ready(s, m)
             PROVE  \E sh : Covers(text, x, x + Len(code), sh, s, Leaving(s, m, n), "may")
  BY <1>3 DEF Fits, jump
<1> DEFINE q == x + Len(a)
           y == q + 1
           t == Leaving(s, m, n)
<1>4. /\ q \in Nat /\ y \in Nat /\ x <= q /\ q < y
      /\ y = x + Len(code) /\ q + (-Len(a)) = x /\ q = x + Len(a)
  BY <1>1, <1>3
<1>5. Placed(text, x, a) /\ Placed(text, q, <<jump>>)
  BY <1>1, <1>3, PlacedConcat
<1>6. Located(jump, q, text[q])
  BY <1>4, <1>5, PlacedOne
<1>7. Leaving(s, m, m) = s /\ Ready(s, 0)
  BY LeavingFacts, ReadyLess
<1>8. PICK f : Covers(text, x, q, f, s, s, mode)
  BY <1>5, <1>7 DEF Fits
<1> HIDE DEF q, y, t, code
<1>9. /\ DOMAIN f \subseteq x .. q /\ x \in DOMAIN f /\ f[x] = s
      /\ q \in DOMAIN f => f[q] = s
      /\ \A p \in DOMAIN f : /\ f[p] \in Shapes
                             /\ p = x \/ Reached(text, f, p)
                             /\ p = q \/ Fine(text, f, s.handlers, p)
  BY <1>8 DEF Covers
<1>10. q \in DOMAIN f => Fine(text, f, s.handlers, q)
  <2>1. SUFFICES ASSUME q \in DOMAIN f
                 PROVE  Fine(text, f, s.handlers, q)
    OBVIOUS
  <2> DEFINE d == -Len(a)
  <2>2. d \in Int /\ q + d = x /\ q \in Nat /\ Located(Jump(d), q, text[q])
    BY <1>1, <1>4, <1>6 DEF jump
  <2> HIDE DEF d
  <2> QED
    BY <1>7, <1>9, <2>1, <2>2, JumpFine
<1>11. DOMAIN f \subseteq x .. y /\ y \notin DOMAIN f
  <2>1. x .. q \subseteq x .. y /\ y \notin x .. q
    BY <1>4
  <2> QED
    BY <1>9, <2>1
<1>12. Covers(text, x, y, f, s, t, "may")
  BY <1>9, <1>10, <1>11 DEF Covers
<1> QED
  BY <1>4, <1>12 DEF t

\* A loop with two exits: the code d follows the first, and the second leads behind it.
LEMMA SearchFits ==
  ASSUME NEW F, NEW ins, NEW k, NEW out, NEW j, NEW a, NEW b, NEW c, NEW d,
         NEW m \in Nat, NEW l \in Nat, NEW r \in Nat, NEW mode,
         Exit(ins, k, Len(a) + Len(b) + 3), Exit(out, j, Len(b) + Len(d) + 2),
         Fits(F, c, m, l + 1, "ends"), Fits(F, a, l + k, r + 1, "ends"),
         Fits(F, b, r + j, m, mode), Fits(F, d, l, r, "ends")
  PROVE  Fits(F, c \o <<ins>> \o a \o <<out>> \o b
                   \o <<Jump(-(Len(c) + Len(a) + Len(b) + 2))>> \o d, m, r, "ends")
<1> DEFINE jump == Jump(-(Len(c) + Len(a) + Len(b) + 2))
           code1 == c \o <<ins>>
           code2 == code1 \o a
           code3 == code2 \o <<out>>
           code4 == code3 \o b
           code5 == code4 \o <<jump>>
           code == code5 \o d
<1>1. /\ a \in Seq(Ins(F)) /\ b \in Seq(Ins(F)) /\ c \in Seq(Ins(F)) /\ d \in Seq(Ins(F))
      /\ Len(a) \in Nat /\ Len(b) \in Nat /\ Len(c) \in Nat /\ Len(d) \in Nat
      /\ -(Len(c) + Len(a) + Len(b) + 2) \in Int
      /\ Len(a) + Len(b) + 3 \in Int /\ Len(b) + Len(d) + 2 \in Int
  BY DEF Fits
<1>2. ins \in Ins(F) /\ out \in Ins(F) /\ jump \in Ins(F) /\ k \in Nat /\ j \in Nat
  BY <1>1, ExitFacts, JumpFacts
<1> HIDE DEF jump
<1>3. /\ <<ins>> \in Seq(Ins(F)) /\ <<out>> \in Seq(Ins(F)) /\ <<jump>> \in Seq(Ins(F))
      /\ Len(<<ins>>) = 1 /\ Len(<<out>>) = 1 /\ Len(<<jump>>) = 1
  BY <1>2
<1>4. /\ code1 \in Seq(Ins(F)) /\ Len(code1) = Len(c) + 1
      /\ code2 \in Seq(Ins(F)) /\ Len(code2) = Len(code1) + Len(a)
      /\ code3 \in Seq(Ins(F)) /\ Len(code3) = Len(code2) + 1
  <2>1. code1 \in Seq(Ins(F)) /\ Len(code1) = Len(c) + 1
    BY <1>1, <1>2, OneMore
  <2> HIDE DEF code1
  <2>2. code2 \in Seq(Ins(F)) /\ Len(code2) = Len(code1) + Len(a)
    BY <1>1, <2>1, ConcatFacts
  <2> HIDE DEF code2
  <2>3. code3 \in Seq(Ins(F)) /\ Len(code3) = Len(code2) + 1
    BY <1>2, <2>2, OneMore
  <2> QED
    BY <2>1, <2>2, <2>3
<1> HIDE DEF code1, code2, code3
<1>5. /\ code4 \in Seq(Ins(F)) /\ Len(code4) = Len(code3) + Len(b)
      /\ code5 \in Seq(Ins(F)) /\ Len(code5) = Len(code4) + 1
      /\ code \in Seq(Ins(F)) /\ Len(code) = Len(code5) + Len(d)
  <2>1. code4 \in Seq(Ins(F)) /\ Len(code4) = Len(code3) + Len(b)
    BY <1>1, <1>4, ConcatFacts
  <2> HIDE DEF code4
  <2>2. code5 \in Seq(Ins(F)) /\ Len(code5) = Len(code4) + 1
    BY <1>2, <2>1, OneMore
  <2> HIDE DEF code5
  <2>3. code \in Seq(Ins(F)) /\ Len(code) = Len(code5) + Len(d)
    BY <1>1, <2>2, ConcatFacts
  <2> QED
    BY <2>1, <2>2, <2>3
<1> HIDE DEF code4, code5, code
<1>6. /\ Len(code1) \in Nat /\ Len(code2) \in Nat /\ Len(code3) \in Nat
      /\ Len(code4) \in Nat /\ Len(code5) \in Nat /\ Len(code) \in Nat
  BY <1>4, <1>5
<1> SUFFICES ASSUME NEW text, NEW x \in Nat, NEW s \in Shapes,
                    Placed(text, x, code), Ready(s, m)
             PROVE  \E sh : Covers(text, x, x + Len(code), sh, s, Leaving(s, m, r), "ends")
  BY <1>5 DEF Fits, jump, code, code1, code2, code3, code4, code5
<1> DEFINE q == x + Len(c)
           x1 == x + Len(code1)
           q2 == x + Len(code2)
           x2 == x + Len(code3)
           y1 == x + Len(code4)
           x3 == x + Len(code5)
           y == x3 + Len(d)
           u == Leaving(s, m, l + 1)
           ta == Leaving(u, 1, k)
           v == Leaving(s, m, r + 1)
           tb == Leaving(v, 1, j)
           w == Leaving(s, m, l)
           t == Leaving(s, m, r)
<1>9. /\ q \in Nat /\ x1 \in Nat /\ q2 \in Nat /\ x2 \in Nat /\ y1 \in Nat /\ x3 \in Nat
      /\ y \in Nat
      /\ x <= q /\ q < x1 /\ x1 <= q2 /\ q2 < x2 /\ x2 <= y1 /\ y1 < x3 /\ x3 <= y
  <2>1. /\ q \in Nat /\ x1 \in Nat /\ q2 \in Nat /\ x2 \in Nat /\ y1 \in Nat
        /\ x3 \in Nat /\ y \in Nat
    <3>1. \A a1, b1 \in Nat : a1 + b1 \in Nat
      OBVIOUS
    <3>2. Len(c) \in Nat /\ Len(d) \in Nat
      BY <1>1
    <3> QED
      BY ONLY x \in Nat, <1>6, <3>1, <3>2, Zenon DEF q, x1, q2, x2, y1, x3, y
  <2>2. x <= q /\ q < x1 /\ x1 <= q2 /\ q2 < x2
    <3>1. q = x + Len(c) /\ x1 = q + 1 /\ q2 = x1 + Len(a) /\ x2 = q2 + 1
      BY <1>1, <1>4, <1>6
    <3> HIDE DEF q, x1, q2, x2
    <3>2. /\ q \in Nat /\ x1 \in Nat /\ q2 \in Nat /\ x2 \in Nat
          /\ Len(c) \in Nat /\ Len(a) \in Nat
      BY <1>1, <2>1
    <3>3. x <= q /\ x1 <= q2
      BY ONLY x \in Nat, <3>1, <3>2
    <3>4. q < x1 /\ q2 < x2
      BY ONLY <3>1, <3>2
    <3> QED
      BY <3>3, <3>4
  <2>3. x2 <= y1 /\ y1 < x3 /\ x3 <= y
    <3>1. y1 = x2 + Len(b) /\ x3 = y1 + 1 /\ y = x3 + Len(d)
      BY <1>1, <1>5, <1>6
    <3> HIDE DEF x2, y1, x3, y
    <3>2. /\ x2 \in Nat /\ y1 \in Nat /\ x3 \in Nat /\ y \in Nat
          /\ Len(b) \in Nat /\ Len(d) \in Nat
      BY <1>1, <2>1
    <3>3. x2 <= y1 /\ x3 <= y
      BY ONLY <3>1, <3>2
    <3>4. y1 < x3
      BY ONLY <3>1, <3>2
    <3> QED
      BY <3>3, <3>4
  <2> QED
    BY <2>1, <2>2, <2>3
<1>10. /\ x1 = q + 1 /\ q2 = x1 + Len(a) /\ x2 = q2 + 1
       /\ y1 = x2 + Len(b) /\ x3 = y1 + 1 /\ y = x + Len(code)
       /\ x3 = q + (Len(a) + Len(b) + 3) /\ y = q2 + (Len(b) + Len(d) + 2)
       /\ x = y1 + (-(Len(c) + Len(a) + Len(b) + 2))
  <2>1. x1 = q + 1 /\ q2 = x1 + Len(a) /\ x2 = q2 + 1
    BY <1>1, <1>4, <1>6
  <2>2. y1 = x2 + Len(b) /\ x3 = y1 + 1 /\ y = x3 + Len(d) /\ y = x + Len(code)
    BY <1>1, <1>5, <1>6
  <2>3. q = x + Len(c)
    OBVIOUS
  <2> HIDE DEF q, x1, q2, x2, y1, x3, y
  <2>4. /\ x3 = q + (Len(a) + Len(b) + 3) /\ y = q2 + (Len(b) + Len(d) + 2)
        /\ x = y1 + (-(Len(c) + Len(a) + Len(b) + 2))
    BY <1>1, <1>9, <2>1, <2>2, <2>3
  <2> QED
    BY <2>1, <2>2, <2>4
<1>11. /\ Placed(text, x, code5) /\ Placed(text, x3, d)
  BY <1>1, <1>5, PlacedConcat DEF code
<1>12. /\ Placed(text, x, code4) /\ Placed(text, y1, <<jump>>)
  BY <1>3, <1>5, <1>11, PlacedConcat DEF code5
<1>13. /\ Placed(text, x, code3) /\ Placed(text, x2, b)
  BY <1>1, <1>4, <1>12, PlacedConcat DEF code4
<1>14. /\ Placed(text, x, code2) /\ Placed(text, q2, <<out>>)
  BY <1>3, <1>4, <1>13, PlacedConcat DEF code3
<1>15. /\ Placed(text, x, code1) /\ Placed(text, x1, a)
  BY <1>1, <1>4, <1>14, PlacedConcat DEF code2
<1>16. Placed(text, x, c) /\ Placed(text, q, <<ins>>)
  BY <1>1, <1>3, <1>15, PlacedConcat DEF code1
<1>17. /\ Located(ins, q, text[q]) /\ Located(out, q2, text[q2])
       /\ Located(jump, y1, text[y1])
  BY <1>9, <1>12, <1>14, <1>16, PlacedOne
<1>18. /\ u \in Shapes /\ ta \in Shapes /\ u.handlers = s.handlers
       /\ ta.handlers = s.handlers /\ w \in Shapes /\ w.handlers = s.handlers
       /\ Ready(u, 1) /\ w = Leaving(u, 1, 0)
       /\ Ready(ta, l + k) /\ Leaving(ta, l + k, r + 1) = v
       /\ Ready(w, l) /\ Leaving(w, l, r) = t
  <2>1. l + 1 \in Nat /\ r + 1 \in Nat /\ l + k \in Nat
    BY <1>2
  <2>2. /\ u \in Shapes /\ Ready(u, l + 1) /\ u.handlers = s.handlers
        /\ Leaving(u, l + 1, l) = w /\ Leaving(u, l + 1, r + 1) = v
    BY <2>1, LeavingFacts
  <2>3. w \in Shapes /\ Ready(w, l) /\ w.handlers = s.handlers /\ Leaving(w, l, r) = t
    BY LeavingFacts
  <2> HIDE DEF u, v, w, t
  <2>4. /\ Ready(u, 1) /\ w = Leaving(u, 1, 0) /\ ta = Leaving(u, l + 1, l + k)
    BY <1>2, <2>2, LeavingOne
  <2>5. ta \in Shapes /\ ta.handlers = s.handlers
    BY <1>2, <2>2, <2>4, LeavingFacts
  <2> HIDE DEF ta
  <2>6. Ready(ta, l + k) /\ Leaving(ta, l + k, r + 1) = v
    BY <2>1, <2>2, <2>4, LeavingFacts
  <2> QED
    BY <2>2, <2>3, <2>4, <2>5, <2>6
<1>19. /\ v \in Shapes /\ tb \in Shapes /\ v.handlers = s.handlers
       /\ tb.handlers = s.handlers /\ t \in Shapes
       /\ Ready(v, 1) /\ t = Leaving(v, 1, 0) /\ Ready(s, 0)
       /\ Ready(tb, r + j) /\ Leaving(tb, r + j, m) = s
  <2>1. r + 1 \in Nat /\ r + j \in Nat
    BY <1>2
  <2>2. /\ v \in Shapes /\ Ready(v, r + 1) /\ v.handlers = s.handlers
        /\ t \in Shapes /\ Leaving(v, r + 1, r) = t /\ Leaving(v, r + 1, m) = s
    BY <2>1, LeavingFacts
  <2> HIDE DEF v, t
  <2>3. /\ Ready(v, 1) /\ t = Leaving(v, 1, 0) /\ tb = Leaving(v, r + 1, r + j)
    BY <1>2, <2>2, LeavingOne
  <2>4. tb \in Shapes /\ tb.handlers = s.handlers
    BY <1>2, <2>2, <2>3, LeavingFacts
  <2> HIDE DEF tb
  <2>5. Ready(tb, r + j) /\ Leaving(tb, r + j, m) = s
    BY <2>1, <2>2, <2>3, LeavingFacts
  <2>6. Ready(s, 0)
    BY ReadyLess
  <2> QED
    BY <2>2, <2>3, <2>4, <2>5, <2>6
<1>21. PICK f : Covers(text, x, q, f, s, u, "ends")
  BY <1>16 DEF Fits
<1>22. PICK g : Covers(text, x1, q2, g, ta, v, "ends")
  BY <1>9, <1>10, <1>15, <1>18 DEF Fits
<1>23. PICK e : Covers(text, x2, y1, e, tb, s, mode)
  BY <1>9, <1>10, <1>13, <1>19 DEF Fits
<1>24. PICK z : Covers(text, x3, y, z, w, t, "ends")
  BY <1>9, <1>11, <1>18 DEF Fits
<1>25. /\ DOMAIN f \subseteq x .. q /\ x \in DOMAIN f /\ f[x] = s
       /\ q \in DOMAIN f /\ f[q] = u
       /\ DOMAIN g \subseteq x1 .. q2 /\ x1 \in DOMAIN g /\ g[x1] = ta
       /\ q2 \in DOMAIN g /\ g[q2] = v
  BY <1>21, <1>22 DEF Covers
<1>26. /\ DOMAIN e \subseteq x2 .. y1 /\ x2 \in DOMAIN e /\ e[x2] = tb
       /\ y1 \in DOMAIN e => e[y1] = s
       /\ DOMAIN z \subseteq x3 .. y /\ x3 \in DOMAIN z /\ z[x3] = w
       /\ y \in DOMAIN z /\ z[y] = t
  BY <1>23, <1>24 DEF Covers
<1> HIDE DEF q, x1, q2, x2, y1, x3, y, u, ta, v, tb, w, t
<1>27. /\ \A p \in DOMAIN f : p \notin DOMAIN g /\ p \notin DOMAIN e /\ p \notin DOMAIN z
       /\ \A p \in DOMAIN g : p \notin DOMAIN e /\ p \notin DOMAIN z
       /\ \A p \in DOMAIN e : p \notin DOMAIN z
  <2>1. \A p \in x .. q : p \notin x1 .. q2 /\ p \notin x2 .. y1 /\ p \notin x3 .. y
    BY <1>9
  <2>2. \A p \in x1 .. q2 : p \notin x2 .. y1 /\ p \notin x3 .. y
    BY <1>9
  <2>3. \A p \in x2 .. y1 : p \notin x3 .. y
    BY <1>9
  <2> QED
    BY <1>25, <1>26, <2>1, <2>2, <2>3
<1> DEFINE D == DOMAIN f \union DOMAIN g \union DOMAIN e \union DOMAIN z
           h == [p \in D |-> IF p \in DOMAIN f THEN f[p]
                             ELSE IF p \in DOMAIN g THEN g[p]
                             ELSE IF p \in DOMAIN e THEN e[p] ELSE z[p]]
<1>28. DOMAIN h = D /\ Within(f, h) /\ Within(g, h) /\ Within(e, h) /\ Within(z, h)
  BY <1>27 DEF Within
<1> HIDE DEF h
<1>29. /\ x \in D /\ h[x] = s /\ q \in D /\ h[q] = u /\ x1 \in D /\ h[x1] = ta
       /\ q2 \in D /\ h[q2] = v /\ x2 \in D /\ h[x2] = tb
       /\ y1 \in DOMAIN e => y1 \in D /\ h[y1] = s
       /\ x3 \in D /\ h[x3] = w /\ y \in D /\ h[y] = t
  BY <1>25, <1>26, <1>28 DEF Within
<1>30. D \subseteq x .. y
  <2>1. /\ x .. q \subseteq x .. y /\ x1 .. q2 \subseteq x .. y
        /\ x2 .. y1 \subseteq x .. y /\ x3 .. y \subseteq x .. y
    BY <1>9
  <2> QED
    BY <1>25, <1>26, <2>1
<1>31. /\ Fine(text, h, s.handlers, q) /\ Reached(text, h, x1) /\ Reached(text, h, x3)
  <2>1. Fine(text, h, u.handlers, q) /\ Leads(text, q, x1) /\ Leads(text, q, x3)
    <3> DEFINE o == Len(a) + Len(b) + 3
    <3>1. o \in Int /\ Exit(ins, k, o) /\ q \in Nat /\ Located(ins, q, text[q])
      BY <1>1, <1>9, <1>17
    <3>2. x1 = q + 1 /\ x3 = q + o
      BY <1>10
    <3>3. /\ u \in Shapes /\ Ready(u, 1) /\ q \in DOMAIN h /\ h[q] = u
          /\ x1 \in DOMAIN h /\ h[x1] = Leaving(u, 1, k)
          /\ x3 \in DOMAIN h /\ h[x3] = Leaving(u, 1, 0)
      BY <1>18, <1>28, <1>29 DEF ta
    <3> HIDE DEF o
    <3> QED
      BY ONLY <3>1, <3>2, <3>3, ExitFine
  <2>2. q < x1 /\ q < x3
    BY <1>9
  <2> QED
    BY <1>18, <1>28, <1>29, <2>1, <2>2 DEF Reached
<1>32. /\ Fine(text, h, s.handlers, q2) /\ Reached(text, h, x2) /\ Reached(text, h, y)
  <2>1. Fine(text, h, v.handlers, q2) /\ Leads(text, q2, x2) /\ Leads(text, q2, y)
    <3> DEFINE o == Len(b) + Len(d) + 2
    <3>1. o \in Int /\ Exit(out, j, o) /\ q2 \in Nat /\ Located(out, q2, text[q2])
      BY <1>1, <1>9, <1>17
    <3>2. x2 = q2 + 1 /\ y = q2 + o
      BY <1>10
    <3>3. /\ v \in Shapes /\ Ready(v, 1) /\ q2 \in DOMAIN h /\ h[q2] = v
          /\ x2 \in DOMAIN h /\ h[x2] = Leaving(v, 1, j)
          /\ y \in DOMAIN h /\ h[y] = Leaving(v, 1, 0)
      BY <1>19, <1>28, <1>29 DEF tb
    <3> HIDE DEF o
    <3> QED
      BY ONLY <3>1, <3>2, <3>3, ExitFine
  <2>2. q2 < x2 /\ q2 < y
    BY <1>9
  <2> QED
    BY <1>19, <1>28, <1>29, <2>1, <2>2 DEF Reached
<1>33. y1 \in DOMAIN e => Fine(text, h, s.handlers, y1)
  <2>1. SUFFICES ASSUME y1 \in DOMAIN e
                 PROVE  Fine(text, h, s.handlers, y1)
    OBVIOUS
  <2> DEFINE o == -(Len(c) + Len(a) + Len(b) + 2)
  <2>2. o \in Int /\ y1 + o = x /\ y1 \in Nat /\ Located(Jump(o), y1, text[y1])
    BY <1>1, <1>9, <1>10, <1>17 DEF jump
  <2>3. /\ y1 \in DOMAIN h /\ h[y1] = s /\ x \in DOMAIN h /\ h[x] = s /\ Ready(s, 0)
    BY <1>19, <1>28, <1>29, <2>1
  <2> HIDE DEF o
  <2> QED
    BY <2>2, <2>3, JumpFine
<1>34. \A p \in DOMAIN f : /\ h[p] \in Shapes
                           /\ p = x \/ Reached(text, h, p)
                           /\ p = q \/ Fine(text, h, s.handlers, p)
  BY <1>21, <1>28, CoversWithin
<1>35. \A p \in DOMAIN g : /\ h[p] \in Shapes
                           /\ p = x1 \/ Reached(text, h, p)
                           /\ p = q2 \/ Fine(text, h, s.handlers, p)
  BY <1>18, <1>22, <1>28, CoversWithin
<1>36. \A p \in DOMAIN e : /\ h[p] \in Shapes
                           /\ p = x2 \/ Reached(text, h, p)
                           /\ p = y1 \/ Fine(text, h, s.handlers, p)
  BY <1>19, <1>23, <1>28, CoversWithin
<1>37. \A p \in DOMAIN z : /\ h[p] \in Shapes
                           /\ p = x3 \/ Reached(text, h, p)
                           /\ p = y \/ Fine(text, h, s.handlers, p)
  BY <1>18, <1>24, <1>28, CoversWithin
<1>38. ASSUME NEW p \in D
       PROVE  /\ h[p] \in Shapes
              /\ p = x \/ Reached(text, h, p)
              /\ p = y \/ Fine(text, h, s.handlers, p)
  <2>1. CASE p \in DOMAIN f
    BY <1>31, <1>34, <2>1
  <2>2. CASE p \in DOMAIN g
    BY <1>31, <1>32, <1>35, <2>2
  <2>3. CASE p \in DOMAIN e
    BY <1>32, <1>33, <1>36, <2>3
  <2>4. CASE p \in DOMAIN z
    BY <1>31, <1>37, <2>4
  <2> QED
    BY <2>1, <2>2, <2>3, <2>4 DEF D
<1> HIDE DEF D
<1>39. Covers(text, x, y, h, s, t, "ends")
  BY <1>28, <1>29, <1>30, <1>38 DEF Covers
<1> QED
  BY <1>10, <1>39 DEF t

\* Instructions that only go on, in any place.
LEMMA StepCovers ==
  ASSUME NEW text, NEW x \in Nat, NEW s \in Shapes, NEW t \in Shapes,
         Supplied(text[x], s), GoesOn(text[x]), text[x].op \notin Moving,
         After(text[x], s) = t
  PROVE  \E h : \A mode : Covers(text, x, x + 1, h, s, t, mode)
<1> DEFINE h == [p \in {x, x + 1} |-> IF p = x THEN s ELSE t]
<1>1. x # x + 1 /\ x < x + 1 /\ {x, x + 1} \subseteq x .. x + 1
  OBVIOUS
<1>2. DOMAIN h = {x, x + 1} /\ h[x] = s /\ h[x + 1] = t
  BY <1>1
<1> HIDE DEF h
<1>3. Fine(text, h, s.handlers, x)
  BY <1>2 DEF Fine
<1>4. Reached(text, h, x + 1)
  BY <1>1, <1>2 DEF Reached, Leads
<1> SUFFICES ASSUME NEW mode PROVE Covers(text, x, x + 1, h, s, t, mode)
  OBVIOUS
<1> QED
  BY <1>1, <1>2, <1>3, <1>4 DEF Covers

\* An instruction for a block: it neither takes nor leaves values.
LEMMA BlockFacts ==
  ASSUME NEW o \in {"WarpStart", "WarpStop", "PopHandler", "PushHandler"}, NEW d \in Int
  PROVE  LET ins == [Simple(o) EXCEPT !.to = d]
         IN /\ ins \in Instruction /\ ins.op = o /\ ins.needs = 0 /\ ins.pops = 0
            /\ ins.pushes = 0 /\ ~ ins.fails /\ ins.to = d
            /\ \A F : ins \in Ins(F)
<1> DEFINE ins == [Simple(o) EXCEPT !.to = d]
<1>1. o \in Ops
  BY OpsAre
<1>2. /\ Simple(o) \in Fields /\ Simple(o).op = o /\ Simple(o).needs = 0
      /\ Simple(o).pops = 0 /\ Simple(o).pushes = 0 /\ ~ Simple(o).fails
      /\ ~ Simple(o).soft
  BY <1>1, SimpleFacts
<1>3. /\ ins \in Fields /\ ins.op = o /\ ins.needs = 0 /\ ins.pops = 0
      /\ ins.pushes = 0 /\ ~ ins.fails /\ ~ ins.soft /\ ins.to = d
  BY <1>2, WithTarget
<1> HIDE DEF ins
<1>4. ins \in Instruction
  BY <1>3 DEF Instruction, Built, Deferring
<1>5. \A F : ins \in Ins(F)
  BY <1>3, <1>4 DEF Ins
<1> QED
  BY <1>3, <1>4, <1>5 DEF ins

\* The fields of what enters or leaves a block.
LEMMA BlockIns ==
  ASSUME NEW o \in {"WarpStart", "WarpStop", "PopHandler"}
  PROVE  LET ins == Simple(o)
         IN /\ ins \in Instruction /\ ins.op = o /\ ins.needs = 0 /\ ins.pops = 0
            /\ ins.pushes = 0 /\ ~ ins.fails
            /\ \A F : ins \in Ins(F)
<1> DEFINE ins == Simple(o)
<1>1. o \in Ops
  BY OpsAre
<1>2. /\ ins \in Fields /\ ins.op = o /\ ins.needs = 0 /\ ins.pops = 0
      /\ ins.pushes = 0 /\ ~ ins.fails /\ ~ ins.soft
  BY <1>1, SimpleFacts
<1> HIDE DEF ins
<1>3. ins \in Instruction
  BY <1>2 DEF Instruction, Built, Deferring
<1>4. \A F : ins \in Ins(F)
  BY <1>2, <1>3 DEF Ins
<1> QED
  BY <1>2, <1>3, <1>4 DEF ins

\* Within a warp block.
LEMMA WarpFits ==
  ASSUME NEW F, NEW a, NEW m \in Nat, NEW n \in Nat, NEW mode, Fits(F, a, m, n, mode)
  PROVE  Fits(F, <<Simple("WarpStart")>> \o a \o <<Simple("WarpStop")>>, m, n, mode)
<1> DEFINE start == Simple("WarpStart")
           stop == Simple("WarpStop")
           code1 == <<start>> \o a
           code == code1 \o <<stop>>
<1>1. a \in Seq(Ins(F)) /\ Len(a) \in Nat
  BY DEF Fits
<1>2. /\ start \in Ins(F) /\ start.op = "WarpStart" /\ start.needs = 0
      /\ start.pops = 0 /\ start.pushes = 0 /\ ~ start.fails
  BY BlockIns
<1>3. /\ stop \in Ins(F) /\ stop.op = "WarpStop" /\ stop.needs = 0
      /\ stop.pops = 0 /\ stop.pushes = 0 /\ ~ stop.fails
  BY BlockIns
<1> HIDE DEF start, stop
<1>4. /\ <<start>> \in Seq(Ins(F)) /\ <<stop>> \in Seq(Ins(F)) /\ Len(<<start>>) = 1
      /\ code1 \in Seq(Ins(F)) /\ Len(code1) = 1 + Len(a)
      /\ code \in Seq(Ins(F)) /\ Len(code) = Len(a) + 2
  BY <1>1, <1>2, <1>3
<1> HIDE DEF code
<1> SUFFICES ASSUME NEW text, NEW x \in Nat, NEW s \in Shapes,
                    Placed(text, x, code), Ready(s, m)
             PROVE  \E sh : Covers(text, x, x + Len(code), sh, s, Leaving(s, m, n), mode)
  BY <1>4 DEF Fits, code, start, stop
<1> DEFINE x1 == x + 1
           q == x + (1 + Len(a))
           y == q + 1
           s1 == [values |-> s.values, warp |-> s.warp + 1, handlers |-> s.handlers]
           t1 == Leaving(s1, m, n)
           t == Leaving(s, m, n)
<1>5. /\ x1 \in Nat /\ q \in Nat /\ y \in Nat /\ x <= x1 /\ x1 <= q /\ x <= q /\ q <= y
      /\ q = x1 + Len(a) /\ y = x + Len(code)
  BY <1>1, <1>4
<1>6. Placed(text, x, code1) /\ Placed(text, q, <<stop>>)
  BY <1>4, PlacedConcat DEF code
<1>7. Placed(text, x, <<start>>) /\ Placed(text, x1, a)
  BY <1>1, <1>4, <1>6, PlacedConcat
<1>8. Located(start, x, text[x]) /\ Located(stop, q, text[q])
  BY <1>5, <1>6, <1>7, PlacedOne
<1>9. s.values \in Nat /\ s.warp \in Nat /\ s.handlers \in Seq(TryBlock)
  BY DEF Shapes
<1>10. s1 \in Shapes /\ s1.handlers = s.handlers /\ Ready(s1, m)
  BY <1>9 DEF Shapes, Ready
<1>11. t \in Shapes /\ t.handlers = s.handlers
  BY LeavingFacts
<1>12. t1 \in Shapes /\ t1.handlers = s.handlers /\ t1.warp = s.warp + 1
  <2>1. s1.warp = s.warp + 1
    OBVIOUS
  <2> HIDE DEF s1
  <2> QED
    BY <1>10, <2>1, LeavingFacts
<1>13. t1.values \in Nat /\ t.values = t1.values /\ t.warp = s.warp
  BY <1>12, LeavingFacts DEF Shapes, Leaving
<1> HIDE DEF t1, t
<1>14. \E h : \A e : Covers(text, x, x1, h, s, s1, e)
  <2>1. /\ text[x].op = "WarpStart" /\ text[x].needs = 0 /\ text[x].pops = 0
        /\ text[x].pushes = 0 /\ ~ text[x].fails
    BY <1>2, <1>8 DEF Located
  <2>2. Supplied(text[x], s)
    BY <1>9, <2>1 DEF Supplied
  <2>3. After(text[x], s) = s1
    <3>1. s.values - 0 + 0 = s.values
      BY <1>9
    <3> QED
      BY <2>1, <3>1 DEF After
  <2>4. GoesOn(text[x]) /\ text[x].op \notin Moving
    BY <2>1 DEF GoesOn, Moving, Jumps
  <2> HIDE DEF s1
  <2> QED
    BY <1>10, <2>2, <2>3, <2>4, StepCovers
<1> HIDE DEF s1
<1>15. \E h : Covers(text, x1, q, h, s1, t1, mode)
  BY <1>5, <1>7, <1>10 DEF Fits, t1
<1>16. \E h : \A e : Covers(text, q, y, h, t1, t, e)
  <2>1. /\ text[q].op = "WarpStop" /\ text[q].needs = 0 /\ text[q].pops = 0
        /\ text[q].pushes = 0 /\ ~ text[q].fails
    BY <1>3, <1>8 DEF Located
  <2>2. Supplied(text[q], t1)
    BY <1>9, <1>12, <1>13, <2>1 DEF Supplied
  <2>3. After(text[q], t1) = t
    <3>1. t1.values - 0 + 0 = t1.values /\ t1.warp - 1 = t.warp
      BY <1>9, <1>12, <1>13
    <3>2. t = [values |-> t.values, warp |-> t.warp, handlers |-> t.handlers]
      BY <1>11 DEF Shapes
    <3> QED
      BY <1>11, <1>12, <1>13, <2>1, <3>1, <3>2 DEF After
  <2>4. GoesOn(text[q]) /\ text[q].op \notin Moving
    BY <2>1 DEF GoesOn, Moving, Jumps
  <2> QED
    BY <1>5, <1>11, <1>12, <2>2, <2>3, <2>4, StepCovers
<1> HIDE DEF x1, q, y
<1>17. \E h : Covers(text, x, q, h, s, t1, mode)
  <2>1. PICK f : Covers(text, x, x1, f, s, s1, mode)
    BY <1>14
  <2>2. PICK g : Covers(text, x1, q, g, s1, t1, mode)
    BY <1>15
  <2> QED
    BY <1>5, <1>10, <2>1, <2>2, CoversJoin
<1>18. \E h : Covers(text, x, y, h, s, t, mode)
  <2>1. PICK f : Covers(text, x, q, f, s, t1, mode)
    BY <1>17
  <2>2. PICK g : Covers(text, q, y, g, t1, t, mode)
    BY <1>16
  <2> QED
    BY <1>5, <1>12, <2>1, <2>2, CoversJoin
<1> QED
  BY <1>5, <1>18 DEF t

\* A try block and its handler, which finds the values, the warp blocks and the try
\* blocks that PushHandler found, and itself.
LEMMA TryFits ==
  ASSUME NEW F, NEW a, NEW b, NEW goes, NEW mode, Fits(F, a, 0, 0, goes), Fits(F, b, 0, 0, mode)
  PROVE  Fits(F, <<PushHandler(Len(a) + 3)>> \o a
                   \o <<PopHandler, Jump(Len(b) + 2), PopHandler>> \o b, 0, 0, mode)
<1> DEFINE push == PushHandler(Len(a) + 3)
           drop == PopHandler
           jump == Jump(Len(b) + 2)
           code1 == <<push>> \o a
           code2 == code1 \o <<drop>>
           code3 == code2 \o <<jump>>
           code4 == code3 \o <<drop>>
           code == code4 \o b
<1>1. /\ a \in Seq(Ins(F)) /\ b \in Seq(Ins(F)) /\ Len(a) \in Nat /\ Len(b) \in Nat
      /\ Len(a) + 3 \in Int /\ Len(b) + 2 \in Int
  BY DEF Fits
<1>2. /\ push \in Ins(F) /\ push.op = "PushHandler" /\ push.needs = 0
      /\ push.pops = 0 /\ push.pushes = 0 /\ ~ push.fails /\ push.to = Len(a) + 3
  BY <1>1, BlockFacts DEF PushHandler
<1>3. /\ drop \in Ins(F) /\ drop.op = "PopHandler" /\ drop.needs = 0
      /\ drop.pops = 0 /\ drop.pushes = 0 /\ ~ drop.fails
  BY BlockIns DEF PopHandler
<1>4. jump \in Ins(F)
  BY <1>1, JumpFacts
<1> HIDE DEF push, drop, jump
<1>5. <<push>> \o a \o <<drop, jump, drop>> \o b = code
  BY <1>1, <1>2, <1>3, <1>4
<1>6. /\ <<push>> \in Seq(Ins(F)) /\ <<drop>> \in Seq(Ins(F)) /\ <<jump>> \in Seq(Ins(F))
      /\ Len(<<push>>) = 1
  BY <1>2, <1>3, <1>4
<1>7. /\ code1 \in Seq(Ins(F)) /\ Len(code1) = Len(a) + 1
      /\ code2 \in Seq(Ins(F)) /\ Len(code2) = Len(a) + 2
      /\ code3 \in Seq(Ins(F)) /\ Len(code3) = Len(a) + 3
      /\ code4 \in Seq(Ins(F)) /\ Len(code4) = Len(a) + 4
      /\ code \in Seq(Ins(F)) /\ Len(code) = Len(a) + 4 + Len(b)
  <2>1. code1 \in Seq(Ins(F)) /\ Len(code1) = Len(a) + 1
    BY <1>1, <1>6
  <2> HIDE DEF code1
  <2>2. code2 \in Seq(Ins(F)) /\ Len(code2) = Len(a) + 2
    BY <1>1, <1>3, <2>1, OneMore
  <2> HIDE DEF code2
  <2>3. code3 \in Seq(Ins(F)) /\ Len(code3) = Len(a) + 3
    BY <1>1, <1>4, <2>2, OneMore
  <2> HIDE DEF code3
  <2>4. code4 \in Seq(Ins(F)) /\ Len(code4) = Len(a) + 4
    BY <1>1, <1>3, <2>3, OneMore
  <2> HIDE DEF code4
  <2>5. code \in Seq(Ins(F)) /\ Len(code) = Len(a) + 4 + Len(b)
    BY <1>1, <2>4, ConcatFacts
  <2> QED
    BY <2>1, <2>2, <2>3, <2>4, <2>5
<1> HIDE DEF code1, code2, code3, code4, code
<1> SUFFICES ASSUME NEW text, NEW x \in Nat, NEW s \in Shapes,
                    Placed(text, x, code), Ready(s, 0)
             PROVE  \E sh : Covers(text, x, x + Len(code), sh, s, Leaving(s, 0, 0), mode)
  BY <1>5, <1>7 DEF Fits, push, drop, jump
<1> DEFINE x1 == x + 1
           q == x + (Len(a) + 1)
           j == x + (Len(a) + 2)
           e == x + (Len(a) + 3)
           x2 == x + (Len(a) + 4)
           y == x2 + Len(b)
           block == [pos |-> e, values |-> s.values, warp |-> s.warp]
           s1 == [values |-> s.values, warp |-> s.warp, handlers |-> Append(s.handlers, block)]
<1>8. /\ x1 \in Nat /\ q \in Nat /\ j \in Nat /\ e \in Nat /\ x2 \in Nat /\ y \in Nat
      /\ x < x1 /\ x1 <= q /\ q < j /\ j < e /\ e < x2 /\ x2 <= y
      /\ x1 = x + 1 /\ q = x1 + Len(a) /\ j = q + 1 /\ x2 = e + 1 /\ e = x + (Len(a) + 3)
      /\ y = x2 + Len(b) /\ y = x + Len(code) /\ y = j + (Len(b) + 2)
  BY <1>1, <1>7
<1>9. Placed(text, x, code4) /\ Placed(text, x2, b)
  BY <1>1, <1>7, PlacedConcat DEF code
<1>10. Placed(text, x, code3) /\ Placed(text, e, <<drop>>)
  BY <1>6, <1>7, <1>9, PlacedConcat DEF code4
<1>11. Placed(text, x, code2) /\ Placed(text, j, <<jump>>)
  BY <1>6, <1>7, <1>10, PlacedConcat DEF code3
<1>12. Placed(text, x, code1) /\ Placed(text, q, <<drop>>)
  BY <1>6, <1>7, <1>11, PlacedConcat DEF code2
<1>13. Placed(text, x, <<push>>) /\ Placed(text, x1, a)
  BY <1>1, <1>6, <1>12, PlacedConcat DEF code1
<1>14. /\ Located(push, x, text[x]) /\ Located(drop, q, text[q]) /\ Located(jump, j, text[j])
       /\ Located(drop, e, text[e])
  BY <1>8, <1>10, <1>11, <1>12, <1>13, PlacedOne
<1>15. s.values \in Nat /\ s.warp \in Nat /\ s.handlers \in Seq(TryBlock)
  BY DEF Shapes
<1>16. block \in TryBlock
  BY <1>8, <1>15 DEF TryBlock
<1>17. /\ s1 \in Shapes /\ s1.handlers # <<>> /\ Last(s1.handlers) = block
       /\ Front(s1.handlers) = s.handlers /\ s1.values = s.values /\ s1.warp = s.warp
       /\ Ready(s1, 0) /\ s1.handlers = Append(s.handlers, block)
  <2> DEFINE hs == Append(s.handlers, block)
  <2>1. hs \in Seq(TryBlock) /\ hs # <<>> /\ Last(hs) = block /\ Front(hs) = s.handlers
    BY <1>15, <1>16, FrontAndLast
  <2>2. s1.handlers = hs /\ s1.values = s.values /\ s1.warp = s.warp
    OBVIOUS
  <2>3. block.values = s.values /\ s.values <= s.values - 0
    BY <1>15
  <2> HIDE DEF hs, block
  <2>4. s1 \in Shapes
    BY <1>15, <2>1 DEF Shapes, hs
  <2>5. Ready(s1, 0)
    BY <1>15, <2>1, <2>2, <2>3 DEF Ready
  <2> QED
    BY <2>1, <2>2, <2>4, <2>5 DEF hs
<1>18. block.pos = e /\ block.values = s.values /\ block.warp = s.warp
  OBVIOUS
<1>19. s1 = [values |-> block.values, warp |-> block.warp, handlers |-> s1.handlers]
  OBVIOUS
<1>20. Leaving(s, 0, 0) = s
  BY LeavingFacts
<1>21. Leaving(s1, 0, 0) = s1
  <2> HIDE DEF s1
  <2> QED
    BY <1>17, LeavingFacts
<1> HIDE DEF s1, block
<1>22. PICK f : Covers(text, x1, q, f, s1, s1, goes)
  BY <1>8, <1>13, <1>17, <1>21 DEF Fits
<1>23. PICK g : Covers(text, x2, y, g, s, s, mode)
  BY <1>8, <1>9, <1>20 DEF Fits
<1>24. /\ DOMAIN f \subseteq x1 .. q /\ x1 \in DOMAIN f /\ f[x1] = s1
       /\ q \in DOMAIN f => f[q] = s1
       /\ DOMAIN g \subseteq x2 .. y /\ x2 \in DOMAIN g /\ g[x2] = s
       /\ y \in DOMAIN g => g[y] = s
       /\ mode = "ends" => y \in DOMAIN g
  BY <1>22, <1>23 DEF Covers
<1> HIDE DEF x1, q, j, e, x2, y
<1>25. /\ x \notin DOMAIN f /\ x \notin DOMAIN g /\ e \notin DOMAIN f /\ e \notin DOMAIN g
       /\ j \notin DOMAIN f /\ j \notin DOMAIN g /\ y \notin DOMAIN f
       /\ \A p \in DOMAIN f : p \notin DOMAIN g
       /\ x # e /\ x # j /\ x # y /\ e # j /\ e # y
  <2>1. /\ x \notin x1 .. q /\ e \notin x1 .. q /\ j \notin x1 .. q /\ y \notin x1 .. q
    BY <1>8
  <2>2. /\ x \notin x2 .. y /\ e \notin x2 .. y /\ j \notin x2 .. y
    BY <1>8
  <2>3. \A p \in x1 .. q : p \notin x2 .. y
    BY <1>8
  <2>4. x # e /\ x # j /\ x # y /\ e # j /\ e # y
    BY <1>8
  <2> QED
    BY <1>24, <2>1, <2>2, <2>3, <2>4
<1> DEFINE after == IF q \in DOMAIN f THEN {j, y} ELSE {}
           D == {x, e} \union DOMAIN f \union DOMAIN g \union after
           h == [p \in D |-> IF p = e THEN s1 ELSE IF p \in DOMAIN f THEN f[p] ELSE
                             IF p \in DOMAIN g THEN g[p] ELSE s]
<1>26. /\ DOMAIN h = D /\ h[x] = s /\ h[e] = s1
       /\ Within(f, h) /\ Within(g, h)
       /\ y \in D => h[y] = s
       /\ j \in D => h[j] = s
  BY <1>24, <1>25 DEF Within
<1> HIDE DEF h
<1>27. /\ x \in D /\ e \in D /\ x1 \in D /\ h[x1] = s1 /\ x2 \in D /\ h[x2] = s
       /\ q \in DOMAIN f => q \in D /\ h[q] = s1 /\ j \in D /\ y \in D
       /\ mode = "ends" => y \in D
  BY <1>24, <1>26 DEF Within
<1>28. D \subseteq x .. y
  <2>1. /\ x .. y \subseteq x .. y /\ x1 .. q \subseteq x .. y /\ x2 .. y \subseteq x .. y
        /\ x \in x .. y /\ e \in x .. y /\ j \in x .. y /\ y \in x .. y
    BY <1>8
  <2> QED
    BY <1>24, <2>1
<1>29. \A p : h[p].handlers = s1.handlers => Handled(h, p)
  BY <1>17, <1>18, <1>19, <1>26, <1>27 DEF Handled
<1>30. Fine(text, h, s.handlers, x) /\ Reached(text, h, x1) /\ Reached(text, h, e)
  <2>1. /\ text[x].op = "PushHandler" /\ text[x].needs = 0 /\ text[x].pops = 0
        /\ text[x].pushes = 0 /\ ~ text[x].fails /\ text[x].to = e
    BY <1>2, <1>8, <1>14 DEF Located, Moving, Jumps
  <2>2. Supplied(text[x], s)
    BY <1>15, <2>1 DEF Supplied
  <2>3. After(text[x], s) = s1
    <3>1. s.values - 0 + 0 = s.values
      BY <1>15
    <3> QED
      BY <2>1, <3>1 DEF After, s1, block
  <2>4. /\ GoesOn(text[x]) /\ text[x].op \in Moving /\ AtTarget(text[x], s) = s1
    BY <2>1, <2>3 DEF GoesOn, Moving, Jumps, AtTarget
  <2>5. Fine(text, h, s.handlers, x)
    BY <1>8, <1>26, <1>27, <2>1, <2>2, <2>3, <2>4 DEF Fine
  <2>6. x < x1 /\ x < e
    BY <1>8
  <2> QED
    BY <1>8, <1>26, <1>27, <2>1, <2>4, <2>5, <2>6 DEF Reached, Leads
<1>31. ASSUME NEW p \in Nat, Located(drop, p, text[p]), p \in D, h[p] = s1,
              p + 1 \in D, h[p + 1] = s
       PROVE  Fine(text, h, s.handlers, p) /\ Reached(text, h, p + 1)
  <2>1. /\ text[p].op = "PopHandler" /\ text[p].needs = 0 /\ text[p].pops = 0
        /\ text[p].pushes = 0 /\ ~ text[p].fails
    BY <1>3, <1>31 DEF Located
  <2>2. Supplied(text[p], s1)
    BY <1>15, <1>17, <2>1 DEF Supplied
  <2>3. After(text[p], s1) = s
    <3>1. s.values - 0 + 0 = s.values
      BY <1>15
    <3>2. s = [values |-> s.values, warp |-> s.warp, handlers |-> s.handlers]
      BY DEF Shapes
    <3> QED
      BY <1>17, <2>1, <3>1, <3>2 DEF After
  <2>4. GoesOn(text[p]) /\ text[p].op \notin Moving
    BY <2>1 DEF GoesOn, Moving, Jumps
  <2>5. Handled(h, p)
    BY <1>29, <1>31
  <2>6. Fine(text, h, s.handlers, p)
    BY <1>26, <1>31, <2>2, <2>3, <2>4, <2>5 DEF Fine
  <2>7. p < p + 1
    OBVIOUS
  <2> QED
    BY <1>26, <1>31, <2>4, <2>6, <2>7 DEF Reached, Leads
<1>32. Fine(text, h, s.handlers, e) /\ Reached(text, h, x2)
  BY <1>8, <1>14, <1>26, <1>27, <1>31
<1>33. q \in DOMAIN f => /\ Fine(text, h, s.handlers, q) /\ Reached(text, h, j)
                         /\ Fine(text, h, s.handlers, j) /\ Reached(text, h, y)
  <2>1. SUFFICES ASSUME q \in DOMAIN f
                 PROVE  /\ Fine(text, h, s.handlers, q) /\ Reached(text, h, j)
                        /\ Fine(text, h, s.handlers, j) /\ Reached(text, h, y)
    OBVIOUS
  <2>2. Fine(text, h, s.handlers, q) /\ Reached(text, h, j)
    BY <1>8, <1>14, <1>26, <1>27, <1>31, <2>1
  <2>3. Fine(text, h, s.handlers, j) /\ Leads(text, j, y)
    <3> DEFINE d == Len(b) + 2
    <3>1. d \in Int /\ j + d = y /\ j \in Nat /\ Located(Jump(d), j, text[j])
      BY <1>1, <1>8, <1>14 DEF jump
    <3>2. /\ j \in DOMAIN h /\ h[j] = s /\ y \in DOMAIN h /\ h[y] = s
      BY <1>26, <1>27, <2>1
    <3> HIDE DEF d
    <3> QED
      BY <3>1, <3>2, JumpFine
  <2>4. j < y
    BY <1>8
  <2> QED
    BY <1>26, <1>27, <2>1, <2>2, <2>3, <2>4 DEF Reached
<1>34. \A p \in DOMAIN f : /\ h[p] \in Shapes
                           /\ p = x1 \/ Reached(text, h, p)
                           /\ p = q \/ Fine(text, h, s1.handlers, p)
  BY <1>22, <1>26, CoversWithin
<1>35. \A p : Fine(text, h, s1.handlers, p) => Fine(text, h, s.handlers, p)
  BY <1>29 DEF Fine
<1>36. \A p \in DOMAIN g : /\ h[p] \in Shapes
                           /\ p = x2 \/ Reached(text, h, p)
                           /\ p = y \/ Fine(text, h, s.handlers, p)
  BY <1>23, <1>26, CoversWithin
<1>37. ASSUME NEW p \in D
       PROVE  /\ h[p] \in Shapes
              /\ p = x \/ Reached(text, h, p)
              /\ p = y \/ Fine(text, h, s.handlers, p)
  <2>1. CASE p = x
    BY <1>26, <1>30, <2>1
  <2>2. CASE p = e
    BY <1>17, <1>26, <1>30, <1>32, <2>2
  <2>3. CASE p \in DOMAIN f
    BY <1>30, <1>33, <1>34, <1>35, <2>3
  <2>4. CASE p \in DOMAIN g
    BY <1>32, <1>36, <2>4
  <2>5. CASE q \in DOMAIN f /\ p \in {j, y}
    BY <1>26, <1>27, <1>33, <2>5
  <2> QED
    BY <2>1, <2>2, <2>3, <2>4, <2>5 DEF D
<1> HIDE DEF D
<1>38. Covers(text, x, y, h, s, s, mode)
  BY <1>26, <1>27, <1>28, <1>37 DEF Covers
<1> QED
  BY <1>8, <1>20, <1>38
-----------------------------------------------------------------------------
(* Single instructions.                                                    *)

\* An instruction that the compiler builds fits alone, in any mode.
LEMMA OneFits ==
  ASSUME NEW F, NEW ins \in Fields, Built(ins), ins.op \in Straight, ins.op # "Call",
         NEW m \in Nat, NEW n \in Nat, ins.needs <= m, n = m - ins.pops + ins.pushes, NEW mode
  PROVE  Fits(F, <<ins>>, m, n, mode)
<1>1. ins \in Ins(F)
  BY DEF Ins, Instruction
<1> QED
  BY <1>1, StraightFits, MayFits

\* An instruction that takes p values and leaves q.
LEMMA EffectFits ==
  ASSUME NEW F, NEW o \in Straight, NEW p \in Nat, NEW q \in Nat,
         o = "CallClosure" => q = 1, o = "SendNetworkReply" => p = 1 /\ q = 0,
         o \notin {"Yield", "Call"},
         NEW m \in Nat, NEW n \in Nat, p <= m, n = m - p + q, NEW mode
  PROVE  Fits(F, <<Effect(o, p, q)>>, m, n, mode)
<1> DEFINE ins == Effect(o, p, q)
<1>1. o \in Ops
  BY DEF Straight
<1>2. /\ ins \in Fields /\ ins.op = o /\ ins.needs = p /\ ins.pops = p
      /\ ins.pushes = q /\ ins.fails /\ ~ ins.soft
  BY <1>1, EffectFacts
<1> HIDE DEF ins
<1>3. Built(ins)
  BY <1>2 DEF Built, Straight, Moving, Jumps
<1> QED
  BY <1>2, <1>3, OneFits DEF ins

\* The operations that only go on.
LEMMA OpIsStraight ==
  {"Op", "Watcher", "Pause", "Broadcast", "Fork", "CreatedClone", "Request",
   "BroadcastAndWait", "Sleep", "SendNetworkMessage", "Yield", "CallClosure",
   "SendNetworkReply"} \subseteq Straight
BY OpsAre DEF Straight, Moving, Jumps

\* A literal.
LEMMA PushFits ==
  ASSUME NEW F, NEW m \in Nat, NEW n \in Nat, n = m + 1, NEW mode
  PROVE  Fits(F, <<PushLiteral>>, m, n, mode)
<1> DEFINE ins == PushLiteral
<1>1. "Op" \in Ops /\ "Op" \in Straight
  BY OpsAre, OpIsStraight
<1>2. Simple("Op") \in Fields
  BY <1>1, SimpleFacts
<1>3. /\ ins \in Fields /\ ins.op = "Op" /\ ins.needs = 0 /\ ins.pops = 0 /\ ins.pushes = 1
      /\ ~ ins.soft
  BY <1>2 DEF PushLiteral, Fields, Simple
<1> HIDE DEF ins
<1>4. Built(ins)
  BY <1>3 DEF Built, Deferring
<1> QED
  BY <1>1, <1>3, <1>4, OneFits DEF ins

\* Dropping a value.
LEMMA PopFits ==
  ASSUME NEW F, NEW m \in Nat, NEW n \in Nat, m = n + 1, NEW mode
  PROVE  Fits(F, <<PopValue>>, m, n, mode)
<1> DEFINE ins == PopValue
<1>1. "Op" \in Ops /\ "Op" \in Straight
  BY OpsAre, OpIsStraight
<1>2. Simple("Op") \in Fields
  BY <1>1, SimpleFacts
<1>3. /\ ins \in Fields /\ ins.op = "Op" /\ ins.needs = 1 /\ ins.pops = 1 /\ ins.pushes = 0
      /\ ~ ins.soft
  BY <1>2 DEF PopValue, Fields, Simple
<1> HIDE DEF ins
<1>4. Built(ins)
  BY <1>3 DEF Built, Deferring
<1> QED
  BY <1>1, <1>3, <1>4, OneFits DEF ins

\* Copying a value from under i others.
LEMMA DupeFits ==
  ASSUME NEW F, NEW i \in Nat, NEW m \in Nat, NEW n \in Nat, i < m, n = m + 1, NEW mode
  PROVE  Fits(F, <<DupeValue(i)>>, m, n, mode)
<1> DEFINE ins == DupeValue(i)
<1>1. "Op" \in Ops /\ "Op" \in Straight
  BY OpsAre, OpIsStraight
<1>2. Simple("Op") \in Fields /\ i + 1 \in Nat
  BY <1>1, SimpleFacts
<1>3. /\ ins \in Fields /\ ins.op = "Op" /\ ins.needs = i + 1 /\ ins.pops = 0
      /\ ins.pushes = 1 /\ ~ ins.soft
  BY <1>2 DEF DupeValue, Fields, Simple
<1> HIDE DEF ins
<1>4. Built(ins)
  BY <1>2, <1>3 DEF Built, Deferring
<1> QED
  BY <1>1, <1>3, <1>4, OneFits DEF ins

\* Exchanging two values.
LEMMA SwapFits ==
  ASSUME NEW F, NEW i \in Nat, NEW j \in Nat, NEW m \in Nat, i < m, j < m, NEW mode
  PROVE  Fits(F, <<SwapValues(i, j)>>, m, m, mode)
<1> DEFINE ins == SwapValues(i, j)
           need == IF i > j THEN i + 1 ELSE j + 1
<1>1. "Op" \in Ops /\ "Op" \in Straight
  BY OpsAre, OpIsStraight
<1>2. Simple("Op") \in Fields /\ need \in Nat /\ need <= m
  BY <1>1, SimpleFacts
<1>3. ins = [Simple("Op") EXCEPT !.needs = need]
  BY DEF SwapValues
<1> HIDE DEF need
<1>4. /\ ins \in Fields /\ ins.op = "Op" /\ ins.needs = need /\ ins.pops = 0
      /\ ins.pushes = 0 /\ ~ ins.soft
  BY <1>2, <1>3 DEF Fields, Simple
<1> HIDE DEF ins
<1>5. Built(ins)
  BY <1>2, <1>4 DEF Built, Deferring
<1>6. m - 0 + 0 = m
  OBVIOUS
<1> QED
  BY <1>1, <1>2, <1>4, <1>5, <1>6, OneFits DEF ins

\* Declarations and Yield, which do not touch the values.
LEMMA SimpleFits ==
  ASSUME NEW F, NEW o \in {"Op", "Yield"}, NEW m \in Nat, NEW mode
  PROVE  Fits(F, <<Simple(o)>>, m, m, mode)
<1> DEFINE ins == Simple(o)
<1>1. o \in Ops /\ o \in Straight
  BY OpsAre, OpIsStraight
<1>2. /\ ins \in Fields /\ ins.op = o /\ ins.needs = 0 /\ ins.pops = 0
      /\ ins.pushes = 0 /\ ~ ins.soft
  BY <1>1, SimpleFacts
<1> HIDE DEF ins
<1>3. Built(ins)
  BY <1>2 DEF Built, Deferring
<1>4. m - 0 + 0 = m
  OBVIOUS
<1> QED
  BY <1>1, <1>2, <1>3, <1>4, OneFits DEF ins

\* A pair as a concatenation.
LEMMA PairIs ==
  ASSUME NEW a, NEW b
  PROVE  <<a, b>> = <<a>> \o <<b>>
<1> DEFINE S == {a, b}
           s == <<a>>
<1>1. s \in Seq(S) /\ b \in S
  OBVIOUS
<1>2. <<a, b>> = Append(s, b)
  OBVIOUS
<1> HIDE DEF s, S
<1>3. s \o <<b>> = Append(s, b)
  BY <1>1
<1> QED
  BY <1>2, <1>3 DEF s

\* Two instructions,
LEMMA PairFits ==
  ASSUME NEW F, NEW a, NEW b, NEW m, NEW n, NEW k, NEW mode,
         Fits(F, <<a>>, m, n, mode), Fits(F, <<b>>, n, k, mode)
  PROVE  Fits(F, <<a, b>>, m, k, mode)
<1>1. <<a, b>> = <<a>> \o <<b>>
  BY PairIs
<1> QED
  BY <1>1, SequenceFits

\* three,
LEMMA TripleFits ==
  ASSUME NEW F, NEW a, NEW b, NEW c, NEW m, NEW n, NEW k, NEW l, NEW mode,
         Fits(F, <<a>>, m, n, mode), Fits(F, <<b>>, n, k, mode), Fits(F, <<c>>, k, l, mode)
  PROVE  Fits(F, <<a, b, c>>, m, l, mode)
<1>1. <<a, b, c>> = <<a, b>> \o <<c>>
  OBVIOUS
<1>2. Fits(F, <<a, b>>, m, k, mode)
  BY PairFits
<1> QED
  BY <1>1, <1>2, SequenceFits

\* and four.
LEMMA QuadFits ==
  ASSUME NEW F, NEW a, NEW b, NEW c, NEW d, NEW m, NEW n, NEW k, NEW l, NEW o, NEW mode,
         Fits(F, <<a>>, m, n, mode), Fits(F, <<b>>, n, k, mode), Fits(F, <<c>>, k, l, mode),
         Fits(F, <<d>>, l, o, mode)
  PROVE  Fits(F, <<a, b, c, d>>, m, o, mode)
<1>1. <<a, b, c, d>> = <<a, b, c>> \o <<d>>
  OBVIOUS
<1>2. Fits(F, <<a, b, c>>, m, l, mode)
  BY TripleFits
<1> QED
  BY <1>1, <1>2, SequenceFits

\* Operators and instructions without a result, by the number of their operands.
LEMMA OperatorFits ==
  ASSUME NEW F, NEW p \in Nat, NEW m \in Nat, NEW n \in Nat, p <= m, n = m - p + 1, NEW mode
  PROVE  Fits(F, <<Operator(p)>>, m, n, mode)
<1>1. "Op" \in Straight
  BY OpIsStraight
<1> QED
  BY <1>1, EffectFits DEF Operator

\* An action that takes p values.
LEMMA ChangeFits ==
  ASSUME NEW F, NEW p \in Nat, NEW m \in Nat, NEW n \in Nat, p <= m, n = m - p, NEW mode
  PROVE  Fits(F, <<Change(p)>>, m, n, mode)
<1>1. "Op" \in Straight /\ n = m - p + 0
  BY OpIsStraight
<1> QED
  BY <1>1, EffectFits DEF Change

\* A closure is called with p values and leaves one.
LEMMA CallClosureFits ==
  ASSUME NEW F, NEW p \in Nat, NEW m \in Nat, NEW n \in Nat, p + 1 <= m, n = m - p, NEW mode
  PROVE  Fits(F, <<CallClosure(p)>>, m, n, mode)
<1>1. "CallClosure" \in Straight /\ p + 1 \in Nat /\ n = m - (p + 1) + 1
  BY OpIsStraight
<1> QED
  BY <1>1, EffectFits DEF CallClosure

\* An expression in any place, and a statement.
LEMMA ExpressionFits ==
  ASSUME NEW F, NEW e, Fits(F, e, 0, 1, "ends"), NEW m \in Nat, NEW n, n = m + 1, NEW mode
  PROVE  Fits(F, e, m, n, mode)
<1>1. Fits(F, e, 0 + m, 1 + m, "ends")
  BY FrameFits
<1>2. 0 + m = m /\ 1 + m = n
  OBVIOUS
<1> QED
  BY <1>1, <1>2, MayFits

\* A statement fits above any number of values.
LEMMA StatementFits ==
  ASSUME NEW F, NEW c, Fits(F, c, 0, 0, "may"), NEW m \in Nat
  PROVE  Fits(F, c, m, m, "may")
<1>1. Fits(F, c, 0 + m, 0 + m, "may")
  BY FrameFits
<1>2. 0 + m = m
  OBVIOUS
<1> QED
  BY <1>1, <1>2

\* The code of one operand,
LEMMA FlattenOne ==
  ASSUME NEW a
  PROVE  FlattenSeq(<<a>>) = a
<1> DEFINE seqs == <<a>>
           G(g) == g = [i \in 1 .. Len(seqs) |-> IF i = 1 THEN seqs[i] ELSE g[i - 1] \o seqs[i]]
           f == CHOOSE g : G(g)
<1>1. Len(seqs) = 1 /\ seqs[1] = a
  OBVIOUS
<1> HIDE DEF seqs
<1>2. \E g : G(g)
  <2>1. G([i \in 1 .. 1 |-> a])
    BY <1>1
  <2> QED
    BY <2>1
<1>3. G(f)
  BY <1>2
<1>4. f[1] = a
  BY <1>1, <1>3
<1>5. FlattenSeq(seqs) = f[Len(seqs)]
  BY <1>1 DEF FlattenSeq
<1> QED
  BY <1>1, <1>4, <1>5 DEF seqs

\* and of two.
LEMMA FlattenTwo ==
  ASSUME NEW a, NEW b
  PROVE  FlattenSeq(<<a, b>>) = a \o b
<1> DEFINE seqs == <<a, b>>
           G(g) == g = [i \in 1 .. Len(seqs) |-> IF i = 1 THEN seqs[i] ELSE g[i - 1] \o seqs[i]]
           f == CHOOSE g : G(g)
<1>1. Len(seqs) = 2 /\ seqs[1] = a /\ seqs[2] = b
  OBVIOUS
<1> HIDE DEF seqs
<1>2. \E g : G(g)
  <2> DEFINE h == [i \in 1 .. 2 |-> IF i = 1 THEN a ELSE a \o b]
  <2>1. h = [i \in 1 .. Len(seqs) |-> IF i = 1 THEN seqs[i] ELSE h[i - 1] \o seqs[i]]
    BY <1>1
  <2> QED
    BY <2>1
<1>3. G(f)
  BY <1>2
<1>4. f[2] = a \o b
  <2>1. f = [i \in 1 .. 2 |-> IF i = 1 THEN seqs[i] ELSE f[i - 1] \o seqs[i]]
    BY <1>1, <1>3
  <2> HIDE DEF f
  <2>2. f[1] = a
    BY <1>1, <2>1
  <2>3. \A i \in 1 .. 2 : f[i] = IF i = 1 THEN seqs[i] ELSE f[i - 1] \o seqs[i]
    BY <2>1
  <2>4. 2 \in 1 .. 2 /\ 2 # 1 /\ 2 - 1 = 1
    OBVIOUS
  <2> QED
    BY <1>1, <2>2, <2>3, <2>4
<1>5. FlattenSeq(seqs) = f[Len(seqs)]
  BY <1>1 DEF FlattenSeq
<1> QED
  BY <1>1, <1>4, <1>5 DEF seqs

-----------------------------------------------------------------------------
(* Loops over lists.                                                       *)

\* map (ast::ExprKind::Map): the list that is read and the one that is built stay under f.
LEMMA MapFits ==
  ASSUME NEW F, NEW f, NEW list, Fits(F, f, 0, 1, "ends"), Fits(F, list, 0, 1, "ends")
  PROVE  Fits(F, Map(f, list), 0, 1, "ends")
<1> DEFINE head == <<VariadicOp(1), VariadicOp(0)>>
           c == <<DupeValue(2), DupeValue(2)>>
           exit == ListPopFirstOrElse(6)
           a == <<CallClosure(1), DupeValue(1), Change(2), Simple("Yield")>>
           loop == c \o <<exit>> \o a \o <<Jump(-7)>>
           tail == <<SwapValues(1, 3), PopValue, PopValue, PopValue>>
<1>1. Fits(F, list, 1, 2, "ends")
  BY ExpressionFits
<1>2. Fits(F, head, 2, 3, "ends")
  <2>1. Fits(F, <<VariadicOp(1)>>, 2, 2, "ends")
    BY OperatorFits DEF VariadicOp
  <2>2. Fits(F, <<VariadicOp(0)>>, 2, 3, "ends")
    BY OperatorFits DEF VariadicOp
  <2> QED
    BY <2>1, <2>2, PairFits
<1>3. Fits(F, c, 3, 5, "ends")
  <2>1. Fits(F, <<DupeValue(2)>>, 3, 4, "ends")
    BY DupeFits
  <2>2. Fits(F, <<DupeValue(2)>>, 4, 5, "ends")
    BY DupeFits
  <2> QED
    BY <2>1, <2>2, PairFits
<1>4. Fits(F, a, 5, 3, "ends")
  <2>1. Fits(F, <<CallClosure(1)>>, 5, 4, "ends")
    BY CallClosureFits
  <2>2. Fits(F, <<DupeValue(1)>>, 4, 5, "ends")
    BY DupeFits
  <2>3. Fits(F, <<Change(2)>>, 5, 3, "ends")
    BY ChangeFits
  <2>4. Fits(F, <<Simple("Yield")>>, 3, 3, "ends")
    BY SimpleFits
  <2> QED
    BY <2>1, <2>2, <2>3, <2>4, QuadFits
<1>5. Fits(F, loop, 3, 4, "ends")
  <2>1. Len(c) = 2 /\ Len(a) = 4
    OBVIOUS
  <2> HIDE DEF c, a
  <2>2. Exit(exit, 1, Len(a) + 2) /\ -(Len(c) + Len(a) + 1) = -7 /\ 4 + 1 = 5
    BY <2>1 DEF Exit
  <2> HIDE DEF exit
  <2> QED
    BY <1>3, <1>4, <2>2, WhileFits
<1>6. Fits(F, tail, 4, 1, "ends")
  <2>1. Fits(F, <<SwapValues(1, 3)>>, 4, 4, "ends")
    BY SwapFits
  <2>2. Fits(F, <<PopValue>>, 4, 3, "ends")
    BY PopFits
  <2>3. Fits(F, <<PopValue>>, 3, 2, "ends")
    BY PopFits
  <2>4. Fits(F, <<PopValue>>, 2, 1, "ends")
    BY PopFits
  <2> QED
    BY <2>1, <2>2, <2>3, <2>4, QuadFits
<1>7. Map(f, list) = f \o list \o (head \o loop \o tail)
  <2>1. <<VariadicOp(1), VariadicOp(0),
          DupeValue(2), DupeValue(2), ListPopFirstOrElse(6),
            CallClosure(1), DupeValue(1), Change(2), Simple("Yield"), Jump(-7),
          SwapValues(1, 3), PopValue, PopValue, PopValue>> = head \o loop \o tail
    OBVIOUS
  <2> HIDE DEF head, loop, tail
  <2> QED
    BY <2>1 DEF Map
<1> HIDE DEF head, loop, tail
<1>8. Fits(F, f \o list, 0, 2, "ends")
  BY <1>1, SequenceFits
<1>9. Fits(F, head \o loop \o tail, 2, 1, "ends")
  BY <1>2, <1>5, <1>6, SequenceFits
<1> QED
  BY <1>7, <1>8, <1>9, SequenceFits

\* keep (ast::ExprKind::Keep): the item stays as well, until f has said if it is kept.
LEMMA KeepFits ==
  ASSUME NEW F, NEW f, NEW list, Fits(F, f, 0, 1, "ends"), Fits(F, list, 0, 1, "ends")
  PROVE  Fits(F, Keep(f, list), 0, 1, "ends")
<1> DEFINE head == <<VariadicOp(1), VariadicOp(0)>>
           c == <<DupeValue(1)>>
           exit == ListPopFirstOrElse(11)
           call == <<DupeValue(3), DupeValue(1), CallClosure(1)>>
           keep == <<DupeValue(1), Change(2)>>
           drop == <<PopValue>>
           choice == <<ConditionalJump(4)>> \o keep \o <<Jump(2)>> \o drop
           yield == <<Simple("Yield")>>
           a == call \o choice \o yield
           loop == c \o <<exit>> \o a \o <<Jump(-11)>>
           tail == <<SwapValues(0, 2), PopValue, PopValue>>
<1>1. Fits(F, list, 1, 2, "ends")
  BY ExpressionFits
<1>2. Fits(F, head, 2, 3, "ends")
  <2>1. Fits(F, <<VariadicOp(1)>>, 2, 2, "ends")
    BY OperatorFits DEF VariadicOp
  <2>2. Fits(F, <<VariadicOp(0)>>, 2, 3, "ends")
    BY OperatorFits DEF VariadicOp
  <2> QED
    BY <2>1, <2>2, PairFits
<1>3. Fits(F, c, 3, 4, "ends")
  BY DupeFits
<1>4. Fits(F, a, 4, 3, "ends") /\ Len(a) = 9
  <2>1. Fits(F, call, 4, 5, "ends")
    <3>1. Fits(F, <<DupeValue(3)>>, 4, 5, "ends")
      <4>1. 3 \in Nat /\ 4 \in Nat /\ 5 \in Nat /\ 3 < 4 /\ 5 = 4 + 1
        OBVIOUS
      <4> QED
        BY ONLY <4>1, DupeFits
    <3>2. Fits(F, <<DupeValue(1)>>, 5, 6, "ends")
      BY DupeFits
    <3>3. Fits(F, <<CallClosure(1)>>, 6, 5, "ends")
      BY CallClosureFits
    <3> QED
      BY <3>1, <3>2, <3>3, TripleFits
  <2>2. Fits(F, keep, 4, 3, "ends")
    <3>1. Fits(F, <<DupeValue(1)>>, 4, 5, "ends")
      BY DupeFits
    <3>2. Fits(F, <<Change(2)>>, 5, 3, "ends")
      BY ChangeFits
    <3> QED
      BY <3>1, <3>2, PairFits
  <2>3. Fits(F, drop, 4, 3, "ends")
    BY PopFits
  <2>4. Fits(F, choice, 5, 3, "ends")
    <3>1. Len(keep) = 2 /\ Len(drop) = 1
      OBVIOUS
    <3> HIDE DEF keep, drop
    <3>2. Exit(ConditionalJump(4), 0, Len(keep) + 2) /\ Len(drop) + 1 = 2 /\ 4 + 0 = 4 /\ 4 + 1 = 5
      BY <3>1 DEF Exit
    <3> QED
      BY <2>2, <2>3, <3>2, BranchFits
  <2>5. Fits(F, yield, 3, 3, "ends")
    BY SimpleFits
  <2>6. Len(a) = 9
    OBVIOUS
  <2> HIDE DEF call, choice, yield
  <2> QED
    BY <2>1, <2>4, <2>5, <2>6, SequenceFits
<1>5. Fits(F, loop, 3, 3, "ends")
  <2>1. Len(c) = 1
    OBVIOUS
  <2> HIDE DEF c, a
  <2>2. Exit(exit, 1, Len(a) + 2) /\ -(Len(c) + Len(a) + 1) = -11 /\ 3 + 1 = 4
    BY <1>4, <2>1 DEF Exit
  <2> HIDE DEF exit
  <2> QED
    BY <1>3, <1>4, <2>2, WhileFits
<1>6. Fits(F, tail, 3, 1, "ends")
  <2>1. Fits(F, <<SwapValues(0, 2)>>, 3, 3, "ends")
    BY SwapFits
  <2>2. Fits(F, <<PopValue>>, 3, 2, "ends")
    BY PopFits
  <2>3. Fits(F, <<PopValue>>, 2, 1, "ends")
    BY PopFits
  <2> QED
    BY <2>1, <2>2, <2>3, TripleFits
<1>7. Keep(f, list) = f \o list \o (head \o loop \o tail)
  <2>1. <<VariadicOp(1), VariadicOp(0),
          DupeValue(1), ListPopFirstOrElse(11),
            DupeValue(3), DupeValue(1), CallClosure(1), ConditionalJump(4),
              DupeValue(1), Change(2), Jump(2),
              PopValue,
            Simple("Yield"), Jump(-11),
          SwapValues(0, 2), PopValue, PopValue>> = head \o loop \o tail
    OBVIOUS
  <2> HIDE DEF head, loop, tail
  <2> QED
    BY <2>1 DEF Keep
<1> HIDE DEF head, loop, tail
<1>8. Fits(F, f \o list, 0, 2, "ends")
  BY <1>1, SequenceFits
<1>9. Fits(F, head \o loop \o tail, 2, 1, "ends")
  BY <1>2, <1>5, <1>6, SequenceFits
<1> QED
  BY <1>7, <1>8, <1>9, SequenceFits

\* find first (ast::ExprKind::FindFirst): left with the item, or at the end of the list.
LEMMA FindFirstFits ==
  ASSUME NEW F, NEW f, NEW list, Fits(F, f, 0, 1, "ends"), Fits(F, list, 0, 1, "ends")
  PROVE  Fits(F, FindFirst(f, list), 0, 1, "ends")
<1> DEFINE head == <<VariadicOp(1)>>
           c == <<DupeValue(0)>>
           exit == ListPopFirstOrElse(8)
           a == <<DupeValue(2), DupeValue(1), CallClosure(1)>>
           out == ConditionalJump(5)
           b == <<PopValue, Simple("Yield")>>
           d == <<PushLiteral>>
           loop == c \o <<exit>> \o a \o <<out>> \o b \o <<Jump(-8)>> \o d
           tail == <<SwapValues(0, 2), PopValue, PopValue>>
<1>1. Fits(F, list, 1, 2, "ends")
  BY ExpressionFits
<1>2. Fits(F, head, 2, 2, "ends")
  BY OperatorFits DEF VariadicOp
<1>3. Fits(F, c, 2, 3, "ends")
  BY DupeFits
<1>4. Fits(F, a, 3, 4, "ends")
  <2>1. Fits(F, <<DupeValue(2)>>, 3, 4, "ends")
    BY DupeFits
  <2>2. Fits(F, <<DupeValue(1)>>, 4, 5, "ends")
    BY DupeFits
  <2>3. Fits(F, <<CallClosure(1)>>, 5, 4, "ends")
    BY CallClosureFits
  <2> QED
    BY <2>1, <2>2, <2>3, TripleFits
<1>5. Fits(F, b, 3, 2, "ends")
  <2>1. Fits(F, <<PopValue>>, 3, 2, "ends")
    BY PopFits
  <2>2. Fits(F, <<Simple("Yield")>>, 2, 2, "ends")
    BY SimpleFits
  <2> QED
    BY <2>1, <2>2, PairFits
<1>6. Fits(F, d, 2, 3, "ends")
  BY PushFits
<1>7. Fits(F, loop, 2, 3, "ends")
  <2>1. Len(c) = 1 /\ Len(a) = 3 /\ Len(b) = 2 /\ Len(d) = 1
    OBVIOUS
  <2> HIDE DEF a, b, c, d
  <2>2. /\ Exit(exit, 1, Len(a) + Len(b) + 3) /\ Exit(out, 0, Len(b) + Len(d) + 2)
        /\ -(Len(c) + Len(a) + Len(b) + 2) = -8
        /\ 2 + 1 = 3 /\ 3 + 1 = 4 /\ 3 + 0 = 3
    BY <2>1 DEF Exit
  <2> HIDE DEF exit, out
  <2> QED
    BY <1>3, <1>4, <1>5, <1>6, <2>2, SearchFits
<1>8. Fits(F, tail, 3, 1, "ends")
  <2>1. Fits(F, <<SwapValues(0, 2)>>, 3, 3, "ends")
    BY SwapFits
  <2>2. Fits(F, <<PopValue>>, 3, 2, "ends")
    BY PopFits
  <2>3. Fits(F, <<PopValue>>, 2, 1, "ends")
    BY PopFits
  <2> QED
    BY <2>1, <2>2, <2>3, TripleFits
<1>9. FindFirst(f, list) = f \o list \o (head \o loop \o tail)
  <2>1. <<VariadicOp(1),
          DupeValue(0), ListPopFirstOrElse(8),
            DupeValue(2), DupeValue(1), CallClosure(1), ConditionalJump(5),
            PopValue, Simple("Yield"), Jump(-8),
          PushLiteral,
          SwapValues(0, 2), PopValue, PopValue>> = head \o loop \o tail
    OBVIOUS
  <2> HIDE DEF head, loop, tail
  <2> QED
    BY <2>1 DEF FindFirst
<1> HIDE DEF head, loop, tail
<1>10. Fits(F, f \o list, 0, 2, "ends")
  BY <1>1, SequenceFits
<1>11. Fits(F, head \o loop \o tail, 2, 1, "ends")
  BY <1>2, <1>7, <1>8, SequenceFits
<1> QED
  BY <1>9, <1>10, <1>11, SequenceFits

\* combine (ast::ExprKind::Combine): of an empty list, of one item and of more.
LEMMA CombineFits ==
  ASSUME NEW F, NEW f, NEW list, Fits(F, f, 0, 1, "ends"), Fits(F, list, 0, 1, "ends")
  PROVE  Fits(F, Combine(list, f), 0, 1, "ends")
<1> DEFINE head == <<VariadicOp(1)>>
           first == <<DupeValue(1)>>
           exit == ListPopFirstOrElse(5)
           c == <<DupeValue(1), DupeValue(3)>>
           a == <<SwapValues(1, 2), CallClosure(2), Simple("Yield")>>
           loop == c \o <<exit>> \o a \o <<Jump(-6)>>
           drop == <<PopValue>>
           some == loop \o drop
           none == <<PushLiteral>>
           choice == <<ListPopFirstOrElse(10)>> \o some \o <<Jump(2)>> \o none
           tail == <<SwapValues(0, 2), PopValue, PopValue>>
<1>1. Fits(F, f, 1, 2, "ends")
  BY ExpressionFits
<1>2. Fits(F, head, 1, 1, "ends") /\ Fits(F, first, 2, 3, "ends")
  BY OperatorFits, DupeFits DEF VariadicOp
<1>3. Fits(F, c, 3, 5, "ends")
  <2>1. Fits(F, <<DupeValue(1)>>, 3, 4, "ends")
    BY DupeFits
  <2>2. Fits(F, <<DupeValue(3)>>, 4, 5, "ends")
    <3>1. 3 \in Nat /\ 4 \in Nat /\ 5 \in Nat /\ 3 < 4 /\ 5 = 4 + 1
      OBVIOUS
    <3> QED
      BY ONLY <3>1, DupeFits
  <2> QED
    BY <2>1, <2>2, PairFits
<1>4. Fits(F, a, 5, 3, "ends")
  <2>1. Fits(F, <<SwapValues(1, 2)>>, 5, 5, "ends")
    BY SwapFits
  <2>2. Fits(F, <<CallClosure(2)>>, 5, 3, "ends")
    BY CallClosureFits
  <2>3. Fits(F, <<Simple("Yield")>>, 3, 3, "ends")
    BY SimpleFits
  <2> QED
    BY <2>1, <2>2, <2>3, TripleFits
<1>5. Fits(F, loop, 3, 4, "ends")
  <2>1. Len(c) = 2 /\ Len(a) = 3
    OBVIOUS
  <2> HIDE DEF c, a
  <2>2. Exit(exit, 1, Len(a) + 2) /\ -(Len(c) + Len(a) + 1) = -6 /\ 4 + 1 = 5
    BY <2>1 DEF Exit
  <2> HIDE DEF exit
  <2> QED
    BY <1>3, <1>4, <2>2, WhileFits
<1>6. Fits(F, some, 3, 3, "ends") /\ Len(some) = 8
  <2>1. Len(some) = 8
    OBVIOUS
  <2>2. Fits(F, drop, 4, 3, "ends")
    BY PopFits
  <2> HIDE DEF loop, drop
  <2> QED
    BY <1>5, <2>1, <2>2, SequenceFits
<1>7. Fits(F, choice, 3, 3, "ends")
  <2>1. Fits(F, none, 2, 3, "ends") /\ Len(none) = 1
    BY PushFits
  <2> HIDE DEF some, none
  <2>2. /\ Exit(ListPopFirstOrElse(10), 1, Len(some) + 2)
        /\ Len(none) + 1 = 2 /\ 2 + 1 = 3
    BY <1>6, <2>1 DEF Exit
  <2> QED
    BY <1>6, <2>1, <2>2, BranchFits
<1>8. Fits(F, tail, 3, 1, "ends")
  <2>1. Fits(F, <<SwapValues(0, 2)>>, 3, 3, "ends")
    BY SwapFits
  <2>2. Fits(F, <<PopValue>>, 3, 2, "ends")
    BY PopFits
  <2>3. Fits(F, <<PopValue>>, 2, 1, "ends")
    BY PopFits
  <2> QED
    BY <2>1, <2>2, <2>3, TripleFits
<1>9. Combine(list, f) = list \o head \o f \o (first \o choice \o tail)
  <2>1. <<DupeValue(1), ListPopFirstOrElse(10),
          DupeValue(1), DupeValue(3), ListPopFirstOrElse(5),
            SwapValues(1, 2), CallClosure(2), Simple("Yield"), Jump(-6),
          PopValue, Jump(2),
          PushLiteral,
          SwapValues(0, 2), PopValue, PopValue>> = first \o choice \o tail
    OBVIOUS
  <2> HIDE DEF first, choice, tail
  <2> QED
    BY <2>1 DEF Combine
<1> HIDE DEF head, first, choice, tail
<1>10. Fits(F, list \o head \o f, 0, 2, "ends")
  BY <1>1, <1>2, SequenceFits
<1>11. Fits(F, first \o choice \o tail, 2, 1, "ends")
  BY <1>2, <1>7, <1>8, SequenceFits
<1> QED
  BY <1>9, <1>10, <1>11, SequenceFits

-----------------------------------------------------------------------------
(* Instructions after their operands.                                      *)

\* Reading a variable.
LEMMA LookupFits ==
  ASSUME NEW F, NEW m \in Nat, NEW n \in Nat, n = m + 1, NEW mode
  PROVE  Fits(F, <<PushLookup>>, m, n, mode)
<1>1. "Op" \in Straight /\ n = m - 0 + 1 /\ 0 <= m
  BY OpIsStraight
<1> QED
  BY <1>1, EffectFits DEF PushLookup

\* A call of a unit, whose Return leaves the result.
LEMMA CallFits ==
  ASSUME NEW F, NEW u \in Nat, u \in F, NEW p \in Nat, NEW m \in Nat, NEW n \in Nat,
         p <= m, n = m - p + 1, NEW mode
  PROVE  Fits(F, <<Call(u, p)>>, m, n, mode)
<1> DEFINE r == Effect("Call", p, 1)
           ins == Call(u, p)
<1>1. "Call" \in Ops /\ "Call" \in Straight
  BY OpsAre DEF Straight, Moving, Jumps
<1>2. /\ r \in Fields /\ r.op = "Call" /\ r.needs = p /\ r.pops = p
      /\ r.pushes = 1 /\ r.fails /\ ~ r.soft
  BY <1>1, EffectFacts
<1>3. ins = [r EXCEPT !.to = u]
  BY DEF Call
<1> HIDE DEF r, ins
<1>4. /\ ins \in Fields /\ ins.op = "Call" /\ ins.needs = p /\ ins.pops = p
      /\ ins.pushes = 1 /\ ins.fails /\ ~ ins.soft /\ ins.to = u
  BY <1>2, <1>3, WithTarget
<1>5. ins \in Ins(F)
  BY <1>4 DEF Ins, Instruction, Built
<1> QED
  BY <1>1, <1>4, <1>5, StraightFits, MayFits DEF ins

\* A request leaves its answer.
LEMMA RequestFits ==
  ASSUME NEW F, NEW soft \in BOOLEAN, NEW p \in Nat, NEW m \in Nat, NEW n \in Nat,
         p <= m, n = m - p + 1, NEW mode
  PROVE  Fits(F, <<CallRpc(p, soft)>>, m, n, mode)
<1> DEFINE r == Effect("Request", p, 1)
           ins == CallRpc(p, soft)
<1>1. "Request" \in Ops /\ "Request" \in Straight
  BY OpsAre, OpIsStraight
<1>2. /\ r \in Fields /\ r.op = "Request" /\ r.needs = p /\ r.pops = p
      /\ r.pushes = 1 /\ r.fails
  BY <1>1, EffectFacts
<1>3. ins = [r EXCEPT !.soft = soft]
  BY DEF CallRpc
<1> HIDE DEF r, ins
<1>4. /\ ins \in Fields /\ ins.op = "Request" /\ ins.needs = p /\ ins.pops = p
      /\ ins.pushes = 1 /\ ins.fails
  BY <1>2, <1>3 DEF Fields
<1>5. Built(ins)
  BY <1>4 DEF Built
<1> QED
  BY <1>1, <1>4, <1>5, OneFits DEF ins

\* A network message, which leaves the reply if it is waited for.
LEMMA NetworkMessageFits ==
  ASSUME NEW F, NEW wait \in BOOLEAN, NEW p \in Nat, NEW m \in Nat, NEW n \in Nat,
         p <= m, n = m - p + (IF wait THEN 1 ELSE 0), NEW mode
  PROVE  Fits(F, <<SendNetworkMessage(p, wait)>>, m, n, mode)
<1> DEFINE q == IF wait THEN 1 ELSE 0
           r == Effect("SendNetworkMessage", p, q)
           ins == SendNetworkMessage(p, wait)
<1>1. "SendNetworkMessage" \in Ops /\ "SendNetworkMessage" \in Straight /\ q \in Nat
  BY OpsAre, OpIsStraight
<1>2. n = m - p + q /\ ins = [r EXCEPT !.waits = wait]
  BY DEF SendNetworkMessage
<1> HIDE DEF q
<1>3. /\ r \in Fields /\ r.op = "SendNetworkMessage" /\ r.needs = p /\ r.pops = p
      /\ r.pushes = q /\ r.fails /\ ~ r.soft
  BY <1>1, EffectFacts
<1> HIDE DEF r, ins
<1>4. /\ ins \in Fields /\ ins.op = "SendNetworkMessage" /\ ins.needs = p /\ ins.pops = p
      /\ ins.pushes = q /\ ins.fails /\ ~ ins.soft
  BY <1>2, <1>3 DEF Fields
<1>5. Built(ins)
  BY <1>4 DEF Built
<1> QED
  BY <1>1, <1>2, <1>4, <1>5, OneFits DEF ins

\* A command of the system.
LEMMA CommandFits ==
  ASSUME NEW F, NEW p \in Nat, NEW m \in Nat, NEW n \in Nat, p <= m, n = m - p, NEW mode
  PROVE  Fits(F, <<Command(p)>>, m, n, mode)
<1>1. "Request" \in Straight /\ n = m - p + 0
  BY OpIsStraight
<1> QED
  BY <1>1, EffectFits DEF Command

\* A broadcast.
LEMMA LocalMessageFits ==
  ASSUME NEW F, NEW wait \in BOOLEAN, NEW p \in Nat, NEW m \in Nat, NEW n \in Nat,
         p <= m, n = m - p, NEW mode
  PROVE  Fits(F, <<SendLocalMessage(p, wait)>>, m, n, mode)
<1> DEFINE o == IF wait THEN "BroadcastAndWait" ELSE "Broadcast"
<1>1. o \in Straight /\ n = m - p + 0 /\ o \notin {"CallClosure", "SendNetworkReply", "Yield", "Call"}
  BY OpIsStraight
<1>2. SendLocalMessage(p, wait) = Effect(o, p, 0)
  BY DEF SendLocalMessage
<1> HIDE DEF o
<1> QED
  BY <1>1, <1>2, EffectFits

\* Waiting for a time.
LEMMA SleepFits ==
  ASSUME NEW F, NEW m \in Nat, NEW n \in Nat, m = n + 1, NEW mode
  PROVE  Fits(F, <<Sleep>>, m, n, mode) /\ Fits(F, <<SendNetworkReply>>, m, n, mode)
<1>1. "Sleep" \in Straight /\ "SendNetworkReply" \in Straight /\ n = m - 1 + 0 /\ 1 <= m
  BY OpIsStraight
<1> QED
  BY <1>1, EffectFits DEF Sleep, SendNetworkReply

\* Making a clone.
LEMMA CloneFits ==
  ASSUME NEW F, NEW m \in Nat, 1 <= m, NEW mode
  PROVE  Fits(F, <<CloneEntity>>, m, m, mode)
<1>1. "CreatedClone" \in Straight /\ m = m - 1 + 1
  BY OpIsStraight
<1> QED
  BY <1>1, EffectFits DEF CloneEntity

\* Launching a closure.
LEMMA ForkFits ==
  ASSUME NEW F, NEW p \in Nat, NEW m \in Nat, NEW n \in Nat, p + 1 <= m, n = m - (p + 1), NEW mode
  PROVE  Fits(F, <<ForkClosure(p)>>, m, n, mode)
<1>1. "Fork" \in Straight /\ p + 1 \in Nat /\ n = m - (p + 1) + 0
  BY OpIsStraight
<1> QED
  BY <1>1, EffectFits DEF ForkClosure

\* Calling a closure for an entity.
LEMMA EntityCallFits ==
  ASSUME NEW F, NEW p \in Nat, NEW m \in Nat, NEW n \in Nat, p <= m, n = m - p + 1, NEW mode
  PROVE  Fits(F, <<Effect("CallClosure", p, 1)>>, m, n, mode)
<1>1. "CallClosure" \in Straight
  BY OpIsStraight
<1> QED
  BY <1>1, EffectFits

\* append_simple_ins, with one operand and with two.
LEMMA OneOperandFits ==
  ASSUME NEW F, NEW a, Fits(F, a, 0, 1, "ends"), NEW ins, NEW m \in Nat, NEW n,
         Fits(F, <<ins>>, m + 1, n, "ends")
  PROVE  Fits(F, SimpleIns(<<a>>, ins), m, n, "ends")
<1>1. Fits(F, a, m, m + 1, "ends")
  BY ExpressionFits
<1>2. SimpleIns(<<a>>, ins) = a \o <<ins>>
  BY FlattenOne DEF SimpleIns
<1> QED
  BY <1>1, <1>2, SequenceFits

\* An instruction after two operands.
LEMMA TwoOperandsFit ==
  ASSUME NEW F, NEW a, Fits(F, a, 0, 1, "ends"), NEW b, Fits(F, b, 0, 1, "ends"),
         NEW ins, NEW n, Fits(F, <<ins>>, 2, n, "ends")
  PROVE  Fits(F, SimpleIns(<<a, b>>, ins), 0, n, "ends")
<1>1. Fits(F, b, 1, 2, "ends")
  BY ExpressionFits
<1>2. SimpleIns(<<a, b>>, ins) = a \o b \o <<ins>>
  BY FlattenTwo DEF SimpleIns
<1> QED
  BY <1>1, <1>2, SequenceFits

-----------------------------------------------------------------------------
(* Expressions.                                                            *)

\* Expressions without parts.
LEMMA AtomsFit ==
  ASSUME NEW F
  PROVE  /\ Fits(F, Value, 0, 1, "ends") /\ Fits(F, Variable, 0, 1, "ends")
         /\ Fits(F, Closure, 0, 1, "ends")
<1>1. 1 = 0 + 1
  OBVIOUS
<1> QED
  BY <1>1, PushFits, LookupFits DEF Value, Variable, Closure, MakeClosure

\* A choice of expressions or of statements.
LEMMA ConditionalFits ==
  ASSUME NEW F, NEW c, Fits(F, c, 0, 1, "ends"), NEW a, NEW b, NEW n, NEW mode,
         Fits(F, a, 0, n, mode), Fits(F, b, 0, n, mode)
  PROVE  Fits(F, Conditional(c, a, b), 0, n, mode)
<1> DEFINE ins == ConditionalJump(Len(a) + 2)
           jump == <<Jump(Len(b) + 1)>>
<1>1. n \in Nat /\ c \in Seq(Ins(F)) /\ a \in Seq(Ins(F)) /\ b \in Seq(Ins(F))
  BY DEF Fits
<1>2. Exit(ins, 0, Len(a) + 2) /\ 0 + 0 = 0 /\ 0 + 1 = 1
  BY DEF Exit
<1> HIDE DEF ins
<1>3. Fits(F, <<ins>> \o a \o jump \o b, 1, n, mode)
  BY <1>1, <1>2, BranchFits
<1>4. Fits(F, c \o (<<ins>> \o a \o jump \o b), 0, n, mode)
  BY <1>3, MayFits, SequenceFits
<1>5. Conditional(c, a, b) = c \o (<<ins>> \o a \o jump \o b)
  <2>1. ins \in Ins(F) /\ Jump(Len(b) + 1) \in Ins(F)
    BY <1>1, <1>2, ExitFacts, JumpFacts
  <2> DEFINE S == Ins(F)
             i == <<ins>>
  <2>2. c \in Seq(S) /\ i \in Seq(S) /\ a \in Seq(S) /\ jump \in Seq(S) /\ b \in Seq(S)
    BY <1>1, <2>1
  <2>3. Conditional(c, a, b) = c \o i \o a \o jump \o b
    BY DEF Conditional, ins
  <2> HIDE DEF S, i, jump
  <2> DEFINE x == i \o a
             y == x \o jump
  <2>4. x \in Seq(S)
    BY <2>2
  <2>5. c \o (i \o a) = c \o i \o a
    <3>1. c \in Seq(S) /\ i \in Seq(S) /\ a \in Seq(S)
      BY <2>2
    <3> QED
      BY ONLY <3>1, SMTT(30)
  <2> HIDE DEF x
  <2>6. y \in Seq(S)
    BY <2>2, <2>4
  <2> HIDE DEF y
  <2>7. c \o (x \o jump) = c \o x \o jump
    <3>1. c \in Seq(S) /\ x \in Seq(S) /\ jump \in Seq(S)
      BY <2>2, <2>4
    <3> QED
      BY ONLY <3>1, SMTT(30)
  <2>8. c \o (y \o b) = c \o y \o b
    <3>1. c \in Seq(S) /\ y \in Seq(S) /\ b \in Seq(S)
      BY <2>2, <2>6
    <3> QED
      BY ONLY <3>1, SMTT(30)
  <2> QED
    BY ONLY <2>3, <2>5, <2>7, <2>8, Zenon DEF i, x, y
<1> QED
  BY <1>4, <1>5

\* and, or: the left value is left when the right one is skipped.
LEMMA ShortCircuitFits ==
  ASSUME NEW F, NEW a, Fits(F, a, 0, 1, "ends"), NEW b, Fits(F, b, 0, 1, "ends")
  PROVE  Fits(F, ShortCircuit(a, b), 0, 1, "ends")
<1> DEFINE dupe == <<DupeValue(0)>>
           exit == ConditionalJump(Len(b) + 2)
           drop == <<PopValue>>
           bool == <<Operator(1)>>
           c == drop \o b
           skip == <<exit>> \o c
<1>1. a \in Seq(Ins(F)) /\ b \in Seq(Ins(F))
  BY DEF Fits
<1>2. Fits(F, dupe, 1, 2, "ends") /\ Fits(F, drop, 1, 0, "ends") /\ Fits(F, bool, 1, 1, "ends")
  BY DupeFits, PopFits, OperatorFits
<1>3. dupe \in Seq(Ins(F)) /\ drop \in Seq(Ins(F)) /\ bool \in Seq(Ins(F)) /\ Len(drop) = 1
  BY <1>2 DEF Fits
<1>4. ShortCircuit(a, b) = a \o (dupe \o <<exit>> \o drop) \o b \o bool
  <2>1. <<DupeValue(0), exit, PopValue>> = dupe \o <<exit>> \o drop
    OBVIOUS
  <2> HIDE DEF dupe, drop, bool, exit
  <2> QED
    BY <2>1 DEF ShortCircuit, exit, bool
<1> HIDE DEF dupe, drop, bool
<1>5. Fits(F, c, 1, 1, "ends") /\ Len(c) = Len(b) + 1
  <2>1. Len(c) = Len(drop) + Len(b)
    BY <1>1, <1>3, ConcatFacts
  <2>2. Len(drop) + Len(b) = Len(b) + 1
    BY <1>1, <1>3
  <2> QED
    BY <1>2, <2>1, <2>2, SequenceFits
<1> HIDE DEF c
<1>6. Exit(exit, 0, Len(c) + 1) /\ 1 + 0 = 1 /\ 1 + 1 = 2 /\ Len(c) + 1 \in Int
  BY <1>1, <1>5 DEF Exit
<1>7. <<exit>> \in Seq(Ins(F))
  BY <1>6, ExitFacts
<1> HIDE DEF exit
<1>8. Fits(F, skip, 2, 1, "ends")
  BY <1>5, <1>6, SkipFits
<1>9. ShortCircuit(a, b) = a \o dupe \o skip \o bool
  <2> DEFINE S == Ins(F)
             i == <<exit>>
  <2> HIDE DEF S, i
  <2>1. a \in Seq(S) /\ b \in Seq(S) /\ dupe \in Seq(S) /\ i \in Seq(S) /\ drop \in Seq(S)
        /\ bool \in Seq(S)
    BY <1>1, <1>3, <1>7 DEF S, i
  <2> DEFINE x == dupe \o i
             y == a \o dupe
             z == i \o drop
  <2>2. x \in Seq(S) /\ y \in Seq(S) /\ z \in Seq(S)
    BY <2>1, ConcatFacts
  <2>3. a \o (dupe \o i) = a \o dupe \o i
    <3>1. a \in Seq(S) /\ dupe \in Seq(S) /\ i \in Seq(S)
      BY <2>1
    <3> QED
      BY ONLY <3>1, SMTT(30)
  <2>4. i \o (drop \o b) = i \o drop \o b
    <3>1. i \in Seq(S) /\ drop \in Seq(S) /\ b \in Seq(S)
      BY <2>1
    <3> QED
      BY ONLY <3>1, SMTT(30)
  <2> HIDE DEF x, y, z
  <2>5. a \o (x \o drop) = a \o x \o drop
    <3>1. a \in Seq(S) /\ x \in Seq(S) /\ drop \in Seq(S)
      BY <2>1, <2>2
    <3> QED
      BY ONLY <3>1, SMTT(30)
  <2>6. y \o (i \o drop) = y \o i \o drop
    <3>1. y \in Seq(S) /\ i \in Seq(S) /\ drop \in Seq(S)
      BY <2>1, <2>2
    <3> QED
      BY ONLY <3>1, SMTT(30)
  <2>7. y \o (z \o b) = y \o z \o b
    <3>1. y \in Seq(S) /\ z \in Seq(S) /\ b \in Seq(S)
      BY <2>1, <2>2
    <3> QED
      BY ONLY <3>1, SMTT(30)
  <2> QED
    BY ONLY <1>4, <2>3, <2>4, <2>5, <2>6, <2>7, Zenon DEF i, c, x, y, z, skip
<1> HIDE DEF skip
<1> QED
  BY <1>2, <1>8, <1>9, SequenceFits

\* Declaring variables.
LEMMA DeclareFits ==
  ASSUME NEW F, NEW k \in 0 .. 1, NEW m \in Nat, NEW mode
  PROVE  Fits(F, [i \in 1 .. k |-> DeclareLocal], m, m, mode)
<1>1. CASE k = 0
  <2>1. [i \in 1 .. k |-> DeclareLocal] = <<>>
    BY <1>1
  <2> QED
    BY <2>1, EmptyFits, MayFits
<1>2. CASE k = 1
  <2>1. [i \in 1 .. k |-> DeclareLocal] = <<DeclareLocal>>
    BY <1>2
  <2> QED
    BY <2>1, SimpleFits DEF DeclareLocal
<1> QED
  BY <1>1, <1>2

\* Operators, and making a clone.
LEMMA OperationFits ==
  ASSUME NEW F, NEW a, Fits(F, a, 0, 1, "ends"), NEW b, Fits(F, b, 0, 1, "ends")
  PROVE  Fits(F, Operation(<<a, b>>), 0, 1, "ends") /\ Fits(F, CloneOf(a), 0, 1, "ends")
<1>1. Fits(F, <<Operator(2)>>, 2, 1, "ends") /\ Fits(F, <<CloneEntity>>, 1, 1, "ends")
  BY OperatorFits, CloneFits
<1>2. Len(<<a, b>>) = 2
  OBVIOUS
<1> QED
  BY <1>1, <1>2, TwoOperandsFit, SequenceFits DEF Operation, CloneOf

\* Calling a function of the unit, with its upvars and arguments.
LEMMA CallFnFits ==
  ASSUME NEW F, NEW u \in Nat, u \in F, NEW k \in 0 .. 1, NEW a, Fits(F, a, 0, 1, "ends"),
         NEW b, Fits(F, b, 0, 1, "ends")
  PROVE  Fits(F, CallFn(k, <<a, b>>, u), 0, 1, "ends")
<1>1. Fits(F, <<Call(u, 2)>>, 2, 1, "ends")
  BY CallFits
<1>2. Len(<<a, b>>) = 2
  OBVIOUS
<1>3. Fits(F, [i \in 1 .. k |-> DeclareLocal], 0, 0, "ends")
  BY DeclareFits
<1>4. Fits(F, SimpleIns(<<a, b>>, Call(u, 2)), 0, 1, "ends")
  BY <1>1, TwoOperandsFit
<1> QED
  BY <1>2, <1>3, <1>4, SequenceFits DEF CallFn

\* Calling a closure, launching one, and calling one for an entity.
LEMMA ClosureCallsFit ==
  ASSUME NEW F, NEW c, Fits(F, c, 0, 1, "ends"), NEW a, Fits(F, a, 0, 1, "ends")
  PROVE  /\ Fits(F, CallTheClosure(c, <<a>>), 0, 1, "ends")
         /\ Fits(F, Fork(c, <<a>>), 0, 0, "ends")
         /\ \A e : Fits(F, e, 0, 1, "ends") =>
              Fits(F, CallForEntity(e, c, <<a>>), 0, 1, "ends")
<1>1. Len(<<a>>) = 1
  OBVIOUS
<1>2. Fits(F, SimpleIns(<<a>>, CallClosure(1)), 1, 1, "ends")
  <2>1. Fits(F, <<CallClosure(1)>>, 1 + 1, 1, "ends")
    BY CallClosureFits
  <2> QED
    BY <2>1, OneOperandFits
<1>3. Fits(F, SimpleIns(<<a>>, ForkClosure(1)), 1, 0, "ends")
  <2>1. Fits(F, <<ForkClosure(1)>>, 1 + 1, 0, "ends")
    BY ForkFits
  <2> QED
    BY <2>1, OneOperandFits
<1>4. ASSUME NEW e, Fits(F, e, 0, 1, "ends")
      PROVE  Fits(F, CallForEntity(e, c, <<a>>), 0, 1, "ends")
  <2>1. Fits(F, <<Effect("CallClosure", 3, 1)>>, 2 + 1, 1, "ends")
    BY EntityCallFits
  <2>2. Fits(F, SimpleIns(<<a>>, Effect("CallClosure", 3, 1)), 2, 1, "ends")
    BY <2>1, OneOperandFits
  <2>3. Fits(F, c, 1, 2, "ends")
    BY ExpressionFits
  <2>4. Fits(F, e \o c, 0, 2, "ends")
    BY <1>4, <2>3, SequenceFits
  <2>5. CallForEntity(e, c, <<a>>) = e \o c \o SimpleIns(<<a>>, Effect("CallClosure", 3, 1))
    BY <1>1 DEF CallForEntity
  <2> QED
    BY <2>2, <2>4, <2>5, SequenceFits
<1> QED
  BY <1>1, <1>2, <1>3, <1>4, SequenceFits DEF CallTheClosure, Fork

\* Requests and messages, whether they are waited for or not.
LEMMA RequestsFit ==
  ASSUME NEW F, NEW a, Fits(F, a, 0, 1, "ends"), NEW b, Fits(F, b, 0, 1, "ends"),
         NEW soft \in BOOLEAN
  PROVE  /\ Fits(F, Rpc(<<a>>, soft), 0, 1, "ends")
         /\ Fits(F, Syscall(a, <<b>>, soft), 0, 1, "ends")
         /\ Fits(F, NetworkMessageReply(<<a>>, b), 0, 1, "ends")
         /\ Fits(F, SendMessage(<<a>>, b), 0, 0, "ends")
         /\ Fits(F, SendTo(a, <<b>>, soft), 0, 0, "ends")
<1>1. Len(<<a>>) = 1 /\ Len(<<b>>) = 1 /\ 1 + 1 = 2 /\ 0 + 1 = 1
  OBVIOUS
<1>2. <<a>> \o <<b>> = <<a, b>> /\ Append(<<a>>, b) = <<a, b>>
  <2>1. <<a, b>> = Append(<<a>>, b)
    OBVIOUS
  <2> QED
    BY <2>1, PairIs
<1>3. /\ Fits(F, <<CallRpc(1, soft)>>, 1, 1, "ends")
      /\ Fits(F, <<CallRpc(2, soft)>>, 2, 1, "ends")
  BY RequestFits
<1>4. /\ Fits(F, <<SendNetworkMessage(2, TRUE)>>, 2, 1, "ends")
      /\ Fits(F, <<SendNetworkMessage(2, FALSE)>>, 2, 0, "ends")
  <2>1. /\ 2 \in Nat /\ 1 \in Nat /\ 0 \in Nat /\ 2 <= 2
        /\ 1 = 2 - 2 + (IF TRUE THEN 1 ELSE 0) /\ 0 = 2 - 2 + (IF FALSE THEN 1 ELSE 0)
        /\ TRUE \in BOOLEAN /\ FALSE \in BOOLEAN
    OBVIOUS
  <2>2. Fits(F, <<SendNetworkMessage(2, TRUE)>>, 2, 1, "ends")
    BY ONLY <2>1, NetworkMessageFits
  <2>3. Fits(F, <<SendNetworkMessage(2, FALSE)>>, 2, 0, "ends")
    BY ONLY <2>1, NetworkMessageFits
  <2> QED
    BY <2>2, <2>3
<1>5. Fits(F, <<SendLocalMessage(2, soft)>>, 2, 0, "ends")
  <2>1. 2 \in Nat /\ 0 \in Nat /\ 2 <= 2 /\ 0 = 2 - 2
    OBVIOUS
  <2> QED
    BY <2>1, LocalMessageFits
<1>6. Fits(F, Rpc(<<a>>, soft), 0, 1, "ends")
  BY <1>1, <1>3, OneOperandFits DEF Rpc
<1> QED
  BY <1>1, <1>2, <1>3, <1>4, <1>5, <1>6, TwoOperandsFit
     DEF Syscall, NetworkMessageReply, SendMessage, SendTo

-----------------------------------------------------------------------------
(* Statements.                                                             *)

\* Statements of a single action.
LEMMA ActionsFit ==
  ASSUME NEW F, NEW a, Fits(F, a, 0, 1, "ends")
  PROVE  /\ Fits(F, Action(<<a>>), 0, 0, "ends") /\ Fits(F, SystemCommand(<<a>>), 0, 0, "ends")
         /\ Fits(F, Declare(1), 0, 0, "ends") /\ Fits(F, Run(a), 0, 0, "ends")
         /\ Fits(F, Wait(a), 0, 0, "ends") /\ Fits(F, Reply(a), 0, 0, "ends")
<1>1. Len(<<a>>) = 1 /\ 0 + 1 = 1
  OBVIOUS
<1>2. /\ Fits(F, <<Change(1)>>, 1, 0, "ends") /\ Fits(F, <<Command(1)>>, 1, 0, "ends")
      /\ Fits(F, <<PopValue>>, 1, 0, "ends") /\ Fits(F, <<Sleep>>, 1, 0, "ends")
      /\ Fits(F, <<SendNetworkReply>>, 1, 0, "ends")
  BY ChangeFits, CommandFits, PopFits, SleepFits
<1>3. Fits(F, Declare(1), 0, 0, "ends")
  BY DeclareFits DEF Declare
<1>4. Fits(F, Action(<<a>>), 0, 0, "ends") /\ Fits(F, SystemCommand(<<a>>), 0, 0, "ends")
  BY <1>1, <1>2, OneOperandFits DEF Action, SystemCommand
<1> QED
  BY <1>2, <1>3, <1>4, SequenceFits DEF Run, Wait, Reply

\* say for secs: the statements that say, wait and say nothing.
LEMMA SayForFits ==
  ASSUME NEW F, NEW a, Fits(F, a, 0, 1, "ends"), NEW b, Fits(F, b, 0, 1, "ends")
  PROVE  Fits(F, SayFor(a, b), 0, 0, "ends")
<1>1. /\ Fits(F, <<Command(1)>>, 1, 0, "ends") /\ Fits(F, <<Sleep>>, 1, 0, "ends")
      /\ Fits(F, <<PushLiteral>>, 0, 1, "ends")
  BY CommandFits, SleepFits, PushFits
<1>2. Fits(F, <<Sleep, PushLiteral, Command(1)>>, 1, 0, "ends")
  BY <1>1, TripleFits
<1> QED
  BY <1>1, <1>2, SequenceFits DEF SayFor

\* The fields of what ends a script.
LEMMA LeaveFacts ==
  ASSUME NEW F
  PROVE  /\ Return \in Ins(F) /\ Return.op = "Return" /\ Return.needs = 1 /\ ~ Return.fails
         /\ Throw \in Ins(F) /\ Throw.op = "Throw" /\ Throw.needs = 1
<1> DEFINE back == Return
           error == Throw
<1>1. "Return" \in Ops /\ "Throw" \in Ops
  BY OpsAre
<1>2. back \in Ins(F) /\ back.op = "Return" /\ back.needs = 1 /\ ~ back.fails
  <2>1. Simple("Return") \in Fields
    BY <1>1, SimpleFacts
  <2>2. /\ back \in Fields /\ back.op = "Return" /\ back.needs = 1 /\ back.pops = 1
        /\ back.pushes = 0 /\ ~ back.soft /\ ~ back.fails
    BY <2>1 DEF Return, Fields, Simple
  <2> HIDE DEF back
  <2>3. Built(back)
    BY <2>2 DEF Built, Deferring
  <2> QED
    BY <2>2, <2>3 DEF Ins, Instruction
<1>3. error \in Ins(F) /\ error.op = "Throw" /\ error.needs = 1
  <2>1. /\ error \in Fields /\ error.op = "Throw" /\ error.needs = 1 /\ error.pops = 1
        /\ error.pushes = 0 /\ error.fails /\ ~ error.soft
    BY <1>1, EffectFacts DEF Throw
  <2> HIDE DEF error
  <2>2. Built(error)
    BY <2>1 DEF Built, Deferring
  <2> QED
    BY <2>1, <2>2 DEF Ins, Instruction
<1> QED
  BY <1>2, <1>3

\* Report and Throw, after which nothing of the list is run.
LEMMA LeavesFit ==
  ASSUME NEW F, NEW a, Fits(F, a, 0, 1, "ends")
  PROVE  Fits(F, Report(a), 0, 0, "may") /\ Fits(F, ThrowValue(a), 0, 0, "may")
<1> DEFINE back == Return
           error == Throw
<1>1. /\ back \in Ins(F) /\ back.op = "Return" /\ back.needs = 1
      /\ error \in Ins(F) /\ error.op = "Throw" /\ error.needs = 1
  BY LeaveFacts
<1> HIDE DEF back, error
<1>2. Fits(F, <<back>>, 1, 0, "may") /\ Fits(F, <<error>>, 1, 0, "may")
  BY <1>1, LeaveFits
<1>3. Fits(F, a, 0, 1, "may")
  BY MayFits
<1> QED
  BY <1>2, <1>3, SequenceFits DEF Report, ThrowValue, back, error

\* if, without else.
LEMMA IfFits ==
  ASSUME NEW F, NEW c, Fits(F, c, 0, 1, "ends"), NEW a, Fits(F, a, 0, 0, "may")
  PROVE  Fits(F, If(c, a), 0, 0, "may")
<1> DEFINE exit == ConditionalJump(Len(a) + 1)
           skip == <<exit>> \o a
<1>1. a \in Seq(Ins(F)) /\ c \in Seq(Ins(F))
  BY DEF Fits
<1>2. Exit(exit, 0, Len(a) + 1) /\ 0 + 0 = 0 /\ 0 + 1 = 1 /\ Len(a) + 1 \in Int
  BY <1>1 DEF Exit
<1>3. <<exit>> \in Seq(Ins(F))
  BY <1>2, ExitFacts
<1> HIDE DEF exit
<1>4. Fits(F, skip, 1, 0, "ends")
  BY <1>2, SkipFits
<1>5. If(c, a) = c \o skip
  <2> DEFINE S == Ins(F)
             i == <<exit>>
  <2>1. c \in Seq(S) /\ i \in Seq(S) /\ a \in Seq(S)
    BY <1>1, <1>3
  <2> HIDE DEF S, i
  <2>2. c \o (i \o a) = c \o i \o a
    BY ONLY <2>1
  <2> QED
    BY <2>2 DEF If, i, exit
<1> HIDE DEF skip
<1> QED
  BY <1>4, <1>5, SequenceFits, MayFits

\* try catch: the block and the handler leave what was there, whether the block ends or not.
LEMMA TryCatchFits ==
  ASSUME NEW F, NEW a, NEW b, NEW mode, Fits(F, a, 0, 0, mode), Fits(F, b, 0, 0, "may")
  PROVE  Fits(F, TryCatch(a, b), 0, 0, "may")
BY TryFits DEF TryCatch

-----------------------------------------------------------------------------
(* Loops.                                                                  *)

\* The statements s of a loop stand between instructions b and e of its own, in
\* code that starts with h and ends with t.
LEMMA LoopAround ==
  ASSUME NEW F, NEW ins, NEW k, NEW h, NEW c, NEW b, NEW s, NEW e, NEW t,
         NEW m \in Nat, NEW l \in Nat, NEW d \in Nat, NEW n \in Nat,
         Fits(F, h, 0, m, "ends"), Fits(F, c, m, l + 1, "ends"), Fits(F, b, l + k, d, "ends"),
         Fits(F, s, d, d, "may"), Fits(F, e, d, m, "ends"), Fits(F, t, l, n, "ends"),
         Exit(ins, k, Len(b) + Len(s) + Len(e) + 2)
  PROVE  Fits(F, h \o (c \o <<ins>> \o b) \o s
                   \o (e \o <<Jump(-(Len(c) + Len(b) + Len(s) + Len(e) + 1))>> \o t), 0, n, "ends")
<1> DEFINE jump == Jump(-(Len(c) + Len(b) + Len(s) + Len(e) + 1))
           S == Ins(F)
           x == <<ins>>
           j == <<jump>>
           ds == b \o s
           a == ds \o e
           p == c \o x
           q == h \o p
           pa == p \o a
           w == pa \o j
<1>1. /\ h \in Seq(S) /\ c \in Seq(S) /\ b \in Seq(S) /\ s \in Seq(S) /\ e \in Seq(S)
      /\ t \in Seq(S)
  BY DEF Fits
<1> HIDE DEF S
<1>2. /\ Len(c) \in Nat /\ Len(b) \in Nat /\ Len(s) \in Nat /\ Len(e) \in Nat
  BY <1>1
<1>3. ins \in S /\ jump \in S
  <2>1. Len(b) + Len(s) + Len(e) + 2 \in Int /\ -(Len(c) + Len(b) + Len(s) + Len(e) + 1) \in Int
    BY <1>2
  <2> QED
    BY <2>1, ExitFacts, JumpFacts DEF S
<1>4. x \in Seq(S) /\ j \in Seq(S)
  BY <1>3
<1> HIDE DEF x, j
<1>5. ds \in Seq(S) /\ p \in Seq(S) /\ Len(ds) = Len(b) + Len(s)
  BY <1>1, <1>4, ConcatFacts
<1> HIDE DEF ds, p
<1>6. a \in Seq(S) /\ q \in Seq(S) /\ Len(a) = Len(ds) + Len(e)
  BY <1>1, <1>5, ConcatFacts
<1> HIDE DEF a, q
<1>7. pa \in Seq(S)
  BY <1>5, <1>6, ConcatFacts
<1> HIDE DEF pa
<1>8. Fits(F, a, l + k, m, "may")
  <2>1. Fits(F, b, l + k, d, "may") /\ Fits(F, e, d, m, "may")
    BY MayFits
  <2>2. Fits(F, ds, l + k, d, "may")
    BY <2>1, SequenceFits DEF ds
  <2> QED
    BY <2>1, <2>2, SequenceFits DEF a
<1>9. Fits(F, w, m, l, "ends")
  <2>1. Len(b) + Len(s) + Len(e) + 2 = Len(a) + 2
    BY <1>2, <1>5, <1>6
  <2>2. Exit(ins, k, Len(a) + 2)
    BY <2>1
  <2>3. -(Len(c) + Len(b) + Len(s) + Len(e) + 1) = -(Len(c) + Len(a) + 1)
    BY <1>2, <1>5, <1>6
  <2>4. w = c \o <<ins>> \o a \o <<Jump(-(Len(c) + Len(a) + 1))>>
    BY <2>3, Zenon DEF pa, p, x, j
  <2> QED
    BY <1>8, <2>2, <2>4, WhileFits
<1> HIDE DEF w
<1>10. Fits(F, h \o w \o t, 0, n, "ends")
  BY <1>9, SequenceFits
<1>11. h \o (c \o x \o b) \o s \o (e \o j \o t) = h \o w \o t
  <2> DEFINE ej == e \o j
             qd == q \o ds
             qb == q \o b
             qa == q \o a
  <2>1. ej \in Seq(S) /\ qd \in Seq(S)
    BY <1>1, <1>4, <1>5, <1>6, ConcatFacts
  <2>2. qb \in Seq(S)
    BY <1>1, <1>6, ConcatFacts
  <2>3. qa \in Seq(S)
    BY <1>6, ConcatFacts
  <2> HIDE DEF ej, qd, qb, qa
  <2>4. h \o (p \o b) = h \o p \o b
    <3>1. h \in Seq(S) /\ p \in Seq(S) /\ b \in Seq(S)
      BY <1>1, <1>4, <1>5, <1>6, <1>7, <2>1, <2>2, <2>3
    <3> QED
      BY ONLY <3>1, SMTT(30)
  <2>5. q \o (b \o s) = q \o b \o s
    <3>1. q \in Seq(S) /\ b \in Seq(S) /\ s \in Seq(S)
      BY <1>1, <1>4, <1>5, <1>6, <1>7, <2>1, <2>2, <2>3
    <3> QED
      BY ONLY <3>1, SMTT(30)
  <2>6. qd \o (ej \o t) = qd \o ej \o t
    <3>1. qd \in Seq(S) /\ ej \in Seq(S) /\ t \in Seq(S)
      BY <1>1, <1>4, <1>5, <1>6, <1>7, <2>1, <2>2, <2>3
    <3> QED
      BY ONLY <3>1, SMTT(30)
  <2>7. qd \o (e \o j) = qd \o e \o j
    <3>1. qd \in Seq(S) /\ e \in Seq(S) /\ j \in Seq(S)
      BY <1>1, <1>4, <1>5, <1>6, <1>7, <2>1, <2>2, <2>3
    <3> QED
      BY ONLY <3>1, SMTT(30)
  <2>8. q \o (ds \o e) = q \o ds \o e
    <3>1. q \in Seq(S) /\ ds \in Seq(S) /\ e \in Seq(S)
      BY <1>1, <1>4, <1>5, <1>6, <1>7, <2>1, <2>2, <2>3
    <3> QED
      BY ONLY <3>1, SMTT(30)
  <2>9. h \o (p \o a) = h \o p \o a
    <3>1. h \in Seq(S) /\ p \in Seq(S) /\ a \in Seq(S)
      BY <1>1, <1>4, <1>5, <1>6, <1>7, <2>1, <2>2, <2>3
    <3> QED
      BY ONLY <3>1, SMTT(30)
  <2>10. h \o (pa \o j) = h \o pa \o j
    <3>1. h \in Seq(S) /\ pa \in Seq(S) /\ j \in Seq(S)
      BY <1>1, <1>4, <1>5, <1>6, <1>7, <2>1, <2>2, <2>3
    <3> QED
      BY ONLY <3>1, SMTT(30)
  <2>11. h \o (c \o x \o b) \o s = qd
    BY ONLY <2>4, <2>5, Zenon DEF qd, q, p, ds
  <2>12. qd \o ej = h \o pa \o j
    BY ONLY <2>7, <2>8, <2>9, Zenon DEF ej, qd, a, q, pa
  <2> QED
    BY ONLY <2>6, <2>10, <2>11, <2>12, Zenon DEF ej, w
<1> QED
  BY ONLY <1>10, <1>11, Zenon DEF x, j, jump

\* The same, with instructions g between h and the loop.
LEMMA LoopAfter ==
  ASSUME NEW F, NEW ins, NEW k, NEW h, NEW g, NEW c, NEW b, NEW s, NEW e, NEW t, NEW r,
         NEW m \in Nat, NEW l \in Nat, NEW d \in Nat, NEW n \in Nat,
         Fits(F, h, 0, r, "ends"), Fits(F, g, r, m, "ends"),
         Fits(F, c, m, l + 1, "ends"), Fits(F, b, l + k, d, "ends"),
         Fits(F, s, d, d, "may"), Fits(F, e, d, m, "ends"), Fits(F, t, l, n, "ends"),
         Exit(ins, k, Len(b) + Len(s) + Len(e) + 2)
  PROVE  Fits(F, h \o (g \o c \o <<ins>> \o b) \o s
                   \o (e \o <<Jump(-(Len(c) + Len(b) + Len(s) + Len(e) + 1))>> \o t), 0, n, "ends")
<1> DEFINE S == Ins(F)
           x == <<ins>>
           rest == e \o <<Jump(-(Len(c) + Len(b) + Len(s) + Len(e) + 1))>> \o t
<1>1. /\ h \in Seq(S) /\ g \in Seq(S) /\ c \in Seq(S) /\ b \in Seq(S)
  BY DEF Fits
<1>2. x \in Seq(S)
  <2>1. Len(b) + Len(s) + Len(e) + 2 \in Int
    BY DEF Fits
  <2> QED
    BY <2>1, ExitFacts
<1>3. Fits(F, h \o g, 0, m, "ends")
  BY SequenceFits
<1>4. Fits(F, (h \o g) \o (c \o <<ins>> \o b) \o s \o rest, 0, n, "ends")
  BY <1>3, LoopAround
<1> HIDE DEF S, x, rest
<1>5. h \o (g \o c \o x \o b) = (h \o g) \o (c \o x \o b)
  <2> DEFINE hg == h \o g
             gc == g \o c
             gcx == gc \o x
             cx == c \o x
  <2>1. hg \in Seq(S) /\ gc \in Seq(S) /\ cx \in Seq(S)
    BY <1>1, <1>2, ConcatFacts
  <2> HIDE DEF gc
  <2>2. gcx \in Seq(S)
    BY <1>1, <1>2, <2>1, ConcatFacts
  <2> HIDE DEF hg, gcx, cx
  <2>3. h \o (g \o c) = h \o g \o c
    <3>1. h \in Seq(S) /\ g \in Seq(S) /\ c \in Seq(S)
      BY <1>1, <1>2, <2>1, <2>2
    <3> QED
      BY ONLY <3>1, SMTT(30)
  <2>4. h \o (gc \o x) = h \o gc \o x
    <3>1. h \in Seq(S) /\ gc \in Seq(S) /\ x \in Seq(S)
      BY <1>1, <1>2, <2>1, <2>2
    <3> QED
      BY ONLY <3>1, SMTT(30)
  <2>5. h \o (gcx \o b) = h \o gcx \o b
    <3>1. h \in Seq(S) /\ gcx \in Seq(S) /\ b \in Seq(S)
      BY <1>1, <1>2, <2>1, <2>2
    <3> QED
      BY ONLY <3>1, SMTT(30)
  <2>6. hg \o (c \o x) = hg \o c \o x
    <3>1. hg \in Seq(S) /\ c \in Seq(S) /\ x \in Seq(S)
      BY <1>1, <1>2, <2>1, <2>2
    <3> QED
      BY ONLY <3>1, SMTT(30)
  <2>7. hg \o (cx \o b) = hg \o cx \o b
    <3>1. hg \in Seq(S) /\ cx \in Seq(S) /\ b \in Seq(S)
      BY <1>1, <1>2, <2>1, <2>2
    <3> QED
      BY ONLY <3>1, SMTT(30)
  <2> QED
    BY ONLY <2>3, <2>4, <2>5, <2>6, <2>7, Zenon DEF hg, gc, gcx, cx
<1> QED
  BY ONLY <1>4, <1>5, Zenon DEF x, rest

\* repeat: the counter stays under the body and is dropped at the end.
LEMMA RepeatFits ==
  ASSUME NEW F, NEW times, Fits(F, times, 0, 1, "ends"), NEW s, Fits(F, s, 0, 0, "may")
  PROVE  Fits(F, Repeat(times, s), 0, 0, "ends")
<1> DEFINE ins == ConditionalJump(Len(s) + 5)
           jump == Jump(-(Len(s) + 7))
           c == <<DupeValue(0), PushLiteral, Operator(2)>>
           b == <<>>
           e == <<PushLiteral, Operator(2), Simple("Yield")>>
           t == <<PopValue>>
<1>1. Len(s) \in Nat
  BY DEF Fits
<1>2. /\ Fits(F, <<DupeValue(0)>>, 1, 2, "ends") /\ Fits(F, <<PushLiteral>>, 2, 3, "ends")
      /\ Fits(F, <<Operator(2)>>, 3, 2, "ends") /\ Fits(F, <<PushLiteral>>, 1, 2, "ends")
      /\ Fits(F, <<Operator(2)>>, 2, 1, "ends") /\ Fits(F, <<Simple("Yield")>>, 1, 1, "ends")
  BY DupeFits, PushFits, OperatorFits, SimpleFits
<1>3. Fits(F, c, 1, 2, "ends") /\ Fits(F, e, 1, 1, "ends") /\ Fits(F, t, 1, 0, "ends")
  BY <1>2, TripleFits, PopFits
<1>4. Fits(F, b, 1, 1, "ends") /\ Fits(F, s, 1, 1, "may")
  BY EmptyFits, StatementFits
<1>5. Len(c) = 3 /\ Len(b) = 0 /\ Len(e) = 3
  OBVIOUS
<1>6. /\ <<DupeValue(0), PushLiteral, Operator(2), ins>> = c \o <<ins>> \o b
      /\ <<PushLiteral, Operator(2), Simple("Yield"), jump, PopValue>> = e \o <<jump>> \o t
  OBVIOUS
<1> HIDE DEF c, b, e, t
<1>7. /\ Exit(ins, 0, Len(b) + Len(s) + Len(e) + 2) /\ 1 + 0 = 1 /\ 1 + 1 = 2
      /\ -(Len(c) + Len(b) + Len(s) + Len(e) + 1) = -(Len(s) + 7)
  <2>1. Len(b) + Len(s) + Len(e) + 2 = Len(s) + 5
    BY <1>1, <1>5
  <2> QED
    BY <1>1, <1>5, <2>1 DEF Exit
<1> HIDE DEF ins
<1>8. Fits(F, times \o (c \o <<ins>> \o b) \o s \o (e \o <<jump>> \o t), 0, 0, "ends")
  BY <1>3, <1>4, <1>7, LoopAround
<1>9. Repeat(times, s) = times \o (c \o <<ins>> \o b) \o s \o (e \o <<jump>> \o t)
  BY <1>6 DEF Repeat, ins
<1> QED
  BY <1>8, <1>9

\* for each: the rest of the list stays under the body.
LEMMA ForeachFits ==
  ASSUME NEW F, NEW items, Fits(F, items, 0, 1, "ends"), NEW s, Fits(F, s, 0, 0, "may")
  PROVE  Fits(F, ForeachLoop(items, s), 0, 0, "ends")
<1> DEFINE ins == ListPopFirstOrElse(Len(s) + 4)
           jump == Jump(-(Len(s) + 4))
           declare == <<DeclareLocal>>
           h == declare \o items
           g == <<VariadicOp(1)>>
           c == <<DupeValue(0)>>
           b == <<Assign>>
           e == <<Simple("Yield")>>
           t == <<PopValue>>
<1>1. Len(s) \in Nat
  BY DEF Fits
<1>2. Fits(F, declare, 0, 0, "ends")
  BY SimpleFits DEF DeclareLocal
<1>3. Fits(F, h, 0, 1, "ends")
  <2> HIDE DEF declare
  <2> QED
    BY <1>2, SequenceFits
<1>4. /\ Fits(F, g, 1, 1, "ends") /\ Fits(F, c, 1, 2, "ends") /\ Fits(F, b, 2, 1, "ends")
      /\ Fits(F, e, 1, 1, "ends") /\ Fits(F, t, 1, 0, "ends")
  BY OperatorFits, DupeFits, ChangeFits, SimpleFits, PopFits DEF VariadicOp, Assign
<1>5. Fits(F, s, 1, 1, "may")
  BY StatementFits
<1>6. Len(c) = 1 /\ Len(b) = 1 /\ Len(e) = 1
  OBVIOUS
<1>7. /\ <<VariadicOp(1), DupeValue(0), ins, Assign>> = g \o c \o <<ins>> \o b
      /\ <<Simple("Yield"), jump, PopValue>> = e \o <<jump>> \o t
  OBVIOUS
<1> HIDE DEF g, c, b, e, t
<1>8. /\ Exit(ins, 1, Len(b) + Len(s) + Len(e) + 2) /\ 1 + 1 = 2
      /\ -(Len(c) + Len(b) + Len(s) + Len(e) + 1) = -(Len(s) + 4)
  <2>1. Len(s) \in Nat
    BY <1>1
  <2>2. Len(b) + Len(s) + Len(e) + 2 = Len(s) + 4
    BY ONLY <1>6, <2>1
  <2>3. -(Len(c) + Len(b) + Len(s) + Len(e) + 1) = -(Len(s) + 4)
    BY ONLY <1>6, <2>1
  <2>4. 1 + 1 = 2
    OBVIOUS
  <2>5. Exit(ins, 1, Len(b) + Len(s) + Len(e) + 2)
    BY ONLY <2>2, Zenon DEF Exit, ins
  <2> QED
    BY ONLY <2>3, <2>4, <2>5, Zenon
<1> HIDE DEF ins, h
<1>9. Fits(F, h \o (g \o c \o <<ins>> \o b) \o s \o (e \o <<jump>> \o t), 0, 0, "ends")
  BY <1>3, <1>4, <1>5, <1>8, LoopAfter, ZenonT(60)
<1>10. ForeachLoop(items, s) = h \o (g \o c \o <<ins>> \o b) \o s \o (e \o <<jump>> \o t)
  <2> HIDE DEF declare
  <2> QED
    BY <1>7 DEF ForeachLoop, ins, h, declare
<1> QED
  BY <1>9, <1>10

\* for: the step, the variable and the number of turns left stay under the body.
LEMMA ForFits ==
  ASSUME NEW F, NEW start, Fits(F, start, 0, 1, "ends"), NEW stop, Fits(F, stop, 0, 1, "ends"),
         NEW s, Fits(F, s, 0, 0, "may")
  PROVE  Fits(F, ForLoop(start, stop, s), 0, 0, "ends")
<1> DEFINE ins == ConditionalJump(Len(s) + 12)
           jump == Jump(-(Len(s) + 14))
           declare == <<DeclareLocal>>
           number == <<Operator(1)>>
           h == declare \o start \o number \o stop
           g1 == <<Operator(1), DupeValue(1), DupeValue(1), Operator(2)>>
           one == <<PushLiteral>>
           choice == <<ConditionalJump(3)>> \o one \o <<Jump(2)>> \o one
           g2 == <<SwapValues(0, 2), SwapValues(0, 1), DupeValue(1)>>
           g3 == <<Operator(2), Operator(1)>>
           g == g1 \o choice \o g2 \o g3
           c == <<DupeValue(0), PushLiteral, Operator(2)>>
           b == <<DupeValue(1), Assign>>
           e1 == <<PushLiteral, Operator(2), DupeValue(1), DupeValue(3)>>
           e2 == <<Operator(2), SwapValues(0, 2), PopValue, Simple("Yield")>>
           e == e1 \o e2
           t == <<PopValue, PopValue, PopValue>>
<1>1. Len(s) \in Nat
  BY DEF Fits
<1>2. /\ Fits(F, <<Operator(1)>>, 1, 1, "ends") /\ Fits(F, <<Operator(1)>>, 2, 2, "ends")
      /\ Fits(F, <<Operator(1)>>, 3, 3, "ends") /\ Fits(F, <<Operator(2)>>, 4, 3, "ends")
      /\ Fits(F, <<Operator(2)>>, 5, 4, "ends")
  <2>1. Fits(F, <<Operator(1)>>, 1, 1, "ends")
    BY OperatorFits
  <2>2. Fits(F, <<Operator(1)>>, 2, 2, "ends")
    BY OperatorFits
  <2>3. Fits(F, <<Operator(1)>>, 3, 3, "ends")
    BY OperatorFits
  <2>4. Fits(F, <<Operator(2)>>, 4, 3, "ends")
    BY OperatorFits
  <2>5. Fits(F, <<Operator(2)>>, 5, 4, "ends")
    <3>1. 2 \in Nat /\ 5 \in Nat /\ 4 \in Nat /\ 2 <= 5 /\ 4 = 5 - 2 + 1
      OBVIOUS
    <3> QED
      BY ONLY <3>1, OperatorFits
  <2> QED
    BY <2>1, <2>2, <2>3, <2>4, <2>5
<1>3. /\ Fits(F, <<DupeValue(1)>>, 2, 3, "ends") /\ Fits(F, <<DupeValue(1)>>, 3, 4, "ends")
      /\ Fits(F, <<DupeValue(0)>>, 3, 4, "ends")
  <2>1. Fits(F, <<DupeValue(1)>>, 2, 3, "ends")
    BY DupeFits
  <2>2. Fits(F, <<DupeValue(1)>>, 3, 4, "ends")
    BY DupeFits
  <2>3. Fits(F, <<DupeValue(0)>>, 3, 4, "ends")
    BY DupeFits
  <2> QED
    BY <2>1, <2>2, <2>3
<1>4. Fits(F, <<DupeValue(3)>>, 4, 5, "ends")
  <2>1. 3 \in Nat /\ 4 \in Nat /\ 5 \in Nat /\ 3 < 4 /\ 5 = 4 + 1
    OBVIOUS
  <2> QED
    BY ONLY <2>1, DupeFits
<1>5. /\ Fits(F, <<PushLiteral>>, 2, 3, "ends") /\ Fits(F, <<PushLiteral>>, 3, 4, "ends")
      /\ Fits(F, <<PushLiteral>>, 4, 5, "ends")
  BY PushFits
<1>6. /\ Fits(F, <<SwapValues(0, 2)>>, 3, 3, "ends") /\ Fits(F, <<SwapValues(0, 1)>>, 3, 3, "ends")
      /\ Fits(F, <<SwapValues(0, 2)>>, 4, 4, "ends")
  BY SwapFits
<1>7. /\ Fits(F, <<PopValue>>, 4, 3, "ends") /\ Fits(F, <<PopValue>>, 3, 2, "ends")
      /\ Fits(F, <<PopValue>>, 2, 1, "ends") /\ Fits(F, <<PopValue>>, 1, 0, "ends")
  BY PopFits
<1>8. Fits(F, declare, 0, 0, "ends")
  BY SimpleFits DEF DeclareLocal
<1>9. Fits(F, h, 0, 2, "ends")
  <2>1. Fits(F, stop, 1, 2, "ends")
    BY ExpressionFits
  <2> HIDE DEF declare
  <2>2. Fits(F, declare \o start, 0, 1, "ends")
    BY <1>8, SequenceFits
  <2>3. Fits(F, declare \o start \o number, 0, 1, "ends")
    BY <1>2, <2>2, SequenceFits
  <2> HIDE DEF number
  <2> QED
    BY <2>1, <2>3, SequenceFits
<1>10. Fits(F, g, 2, 3, "ends")
  <2>1. Fits(F, g1, 2, 3, "ends")
    BY <1>2, <1>3, QuadFits
  <2>2. Fits(F, g2, 3, 4, "ends")
    BY <1>3, <1>6, TripleFits
  <2>3. Fits(F, g3, 4, 3, "ends")
    BY <1>2, PairFits
  <2>4. Fits(F, one, 2, 3, "ends") /\ Len(one) = 1
    BY <1>5
  <2> HIDE DEF g1, g2, g3, one
  <2>5. Exit(ConditionalJump(3), 0, Len(one) + 2) /\ Len(one) + 1 = 2 /\ 2 + 0 = 2 /\ 2 + 1 = 3
    BY <2>4 DEF Exit
  <2>6. Fits(F, choice, 3, 3, "ends")
    BY <2>4, <2>5, BranchFits
  <2> HIDE DEF choice
  <2>7. Fits(F, g1 \o choice \o g2, 2, 4, "ends")
    BY <2>1, <2>2, <2>6, SequenceFits
  <2> QED
    BY <2>3, <2>7, SequenceFits
<1>11. Fits(F, c, 3, 4, "ends")
  BY <1>2, <1>3, <1>5, TripleFits
<1>12. Fits(F, b, 3, 3, "ends")
  <2>1. Fits(F, <<Assign>>, 4, 3, "ends")
    BY ChangeFits DEF Assign
  <2> QED
    BY <1>3, <2>1, PairFits
<1>13. Fits(F, e, 3, 3, "ends")
  <2>1. Fits(F, e1, 3, 5, "ends")
    BY <1>2, <1>3, <1>4, <1>5, QuadFits
  <2>2. Fits(F, <<Simple("Yield")>>, 3, 3, "ends")
    BY SimpleFits
  <2>3. Fits(F, e2, 5, 3, "ends")
    BY <1>2, <1>6, <1>7, <2>2, QuadFits
  <2> HIDE DEF e1, e2
  <2> QED
    BY <2>1, <2>3, SequenceFits
<1>14. Fits(F, t, 3, 0, "ends")
  BY <1>7, TripleFits
<1>15. Fits(F, s, 3, 3, "may")
  BY StatementFits
<1>16. Len(c) = 3 /\ Len(b) = 2 /\ Len(e) = 8
  BY SMTT(30)
<1>17. <<Operator(1), DupeValue(1), DupeValue(1), Operator(2), ConditionalJump(3),
           PushLiteral, Jump(2), PushLiteral,
         SwapValues(0, 2), SwapValues(0, 1), DupeValue(1), Operator(2), Operator(1),
         DupeValue(0), PushLiteral, Operator(2), ins,
           DupeValue(1), Assign>> = g \o c \o <<ins>> \o b
  BY SMTT(60)
<1>18. <<PushLiteral, Operator(2), DupeValue(1), DupeValue(3), Operator(2),
           SwapValues(0, 2), PopValue, Simple("Yield"), jump,
         PopValue, PopValue, PopValue>> = e \o <<jump>> \o t
  BY SMTT(60)
<1> HIDE DEF g, c, b, e, t
<1>19. /\ Exit(ins, 0, Len(b) + Len(s) + Len(e) + 2) /\ 3 + 1 = 4 /\ 3 + 0 = 3
       /\ -(Len(c) + Len(b) + Len(s) + Len(e) + 1) = -(Len(s) + 14)
  <2>1. Len(s) \in Nat
    BY <1>1
  <2>2. Len(b) + Len(s) + Len(e) + 2 = Len(s) + 12
    BY ONLY <1>16, <2>1
  <2>3. -(Len(c) + Len(b) + Len(s) + Len(e) + 1) = -(Len(s) + 14)
    BY ONLY <1>16, <2>1
  <2>4. 3 + 1 = 4 /\ 3 + 0 = 3
    OBVIOUS
  <2>5. Exit(ins, 0, Len(b) + Len(s) + Len(e) + 2)
    BY ONLY <2>2, Zenon DEF Exit, ins
  <2> QED
    BY ONLY <2>3, <2>4, <2>5, Zenon
<1> HIDE DEF ins, h
<1>20. Fits(F, h \o (g \o c \o <<ins>> \o b) \o s \o (e \o <<jump>> \o t), 0, 0, "ends")
  BY <1>9, <1>10, <1>11, <1>12, <1>13, <1>14, <1>15, <1>19, LoopAfter, ZenonT(60)
<1>21. ForLoop(start, stop, s)
         = h \o (g \o c \o <<ins>> \o b) \o s \o (e \o <<jump>> \o t)
  <2> HIDE DEF declare, number
  <2> QED
    BY <1>17, <1>18 DEF ForLoop, ins, h, declare, number
<1> QED
  BY <1>20, <1>21

\* repeat until.
LEMMA UntilFits ==
  ASSUME NEW F, NEW c, Fits(F, c, 0, 1, "ends"), NEW s, Fits(F, s, 0, 0, "may")
  PROVE  Fits(F, UntilLoop(c, s), 0, 0, "ends")
<1> DEFINE ins == ConditionalJump(Len(s) + 3)
           jump == Jump(-(Len(c) + Len(s) + 2))
           S == Ins(F)
           x == <<ins>>
           yield == <<Simple("Yield")>>
           j == <<jump>>
           a == s \o yield
<1>1. Len(s) \in Nat /\ Len(c) \in Nat /\ s \in Seq(S) /\ c \in Seq(S)
  BY DEF Fits
<1>2. Fits(F, yield, 0, 0, "may") /\ Len(yield) = 1
  BY SimpleFits
<1>3. yield \in Seq(S)
  BY <1>2 DEF Fits
<1> HIDE DEF yield
<1>4. Fits(F, a, 0, 0, "may") /\ Len(a) = Len(s) + Len(yield)
  BY <1>1, <1>2, <1>3, SequenceFits, ConcatFacts
<1> HIDE DEF a
<1>5. /\ Exit(ins, 0, Len(a) + 2) /\ Len(a) + 2 \in Int /\ 0 + 1 = 1 /\ 0 + 0 = 0
      /\ -(Len(c) + Len(a) + 1) = -(Len(c) + Len(s) + 2) /\ -(Len(c) + Len(s) + 2) \in Int
  <2>1. Len(a) + 2 = Len(s) + 3
    BY <1>1, <1>2, <1>4
  <2> QED
    BY <1>1, <1>2, <1>4, <2>1 DEF Exit
<1>6. ins \in S /\ jump \in S
  BY <1>5, ExitFacts, JumpFacts
<1>7. UntilLoop(c, s) = c \o <<ins>> \o s \o <<Simple("Yield"), jump>>
  BY DEF UntilLoop
<1>8. <<Simple("Yield"), jump>> = yield \o j
  BY PairIs DEF yield
<1> HIDE DEF ins
<1>9. Fits(F, c \o <<ins>> \o a \o <<jump>>, 0, 0, "ends")
  BY <1>4, <1>5, WhileFits
<1>10. c \o x \o s \o (yield \o j) = c \o x \o a \o j
  <2>1. x \in Seq(S) /\ j \in Seq(S)
    BY <1>6
  <2> HIDE DEF S, x, j
  <2> DEFINE cx == c \o x
             cxs == cx \o s
  <2>2. cx \in Seq(S)
    BY <1>1, <2>1, ConcatFacts
  <2> HIDE DEF cx
  <2>3. cxs \in Seq(S)
    BY <1>1, <2>2, ConcatFacts
  <2> HIDE DEF cxs
  <2>4. cxs \o (yield \o j) = cxs \o yield \o j
    <3>1. cxs \in Seq(S) /\ yield \in Seq(S) /\ j \in Seq(S)
      BY <1>3, <2>1, <2>3
    <3> QED
      BY ONLY <3>1, SMTT(30)
  <2>5. cx \o (s \o yield) = cx \o s \o yield
    <3>1. cx \in Seq(S) /\ s \in Seq(S) /\ yield \in Seq(S)
      BY <1>1, <1>3, <2>2
    <3> QED
      BY ONLY <3>1, SMTT(30)
  <2> QED
    BY ONLY <2>4, <2>5, Zenon DEF a, cxs, cx
<1> HIDE DEF jump
<1> QED
  BY ONLY <1>7, <1>8, <1>9, <1>10, Zenon DEF x, j

\* wait until.
LEMMA WaitUntilFits ==
  ASSUME NEW F, NEW c, Fits(F, c, 0, 1, "ends")
  PROVE  Fits(F, WaitUntil(c), 0, 0, "ends")
<1> DEFINE ins == ConditionalJump(3)
           jump == Jump(-(Len(c) + 2))
           S == Ins(F)
           x == <<ins>>
           yield == <<Simple("Yield")>>
           j == <<jump>>
<1>1. Len(c) \in Nat /\ c \in Seq(S)
  BY DEF Fits
<1>2. Fits(F, yield, 0, 0, "may") /\ Len(yield) = 1
  BY SimpleFits
<1>3. yield \in Seq(S)
  BY <1>2 DEF Fits
<1>4. WaitUntil(c) = c \o <<ins, Simple("Yield"), jump>>
  BY DEF WaitUntil
<1>5. <<ins, Simple("Yield"), jump>> = x \o yield \o j
  <2> DEFINE y == Simple("Yield")
             two == <<ins, y>>
  <2> HIDE DEF ins, jump, y
  <2>1. <<ins, y, jump>> = two \o <<jump>>
    OBVIOUS
  <2>2. two = <<ins>> \o <<y>>
    BY PairIs
  <2> HIDE DEF two
  <2> QED
    BY ONLY <2>1, <2>2, Zenon DEF y, x, j, yield
<1> HIDE DEF yield
<1>6. /\ Exit(ins, 0, Len(yield) + 2) /\ Len(yield) + 2 \in Int /\ 0 + 1 = 1 /\ 0 + 0 = 0
      /\ -(Len(c) + Len(yield) + 1) = -(Len(c) + 2) /\ -(Len(c) + 2) \in Int
  BY <1>1, <1>2 DEF Exit
<1>7. ins \in S /\ jump \in S
  BY <1>6, ExitFacts, JumpFacts
<1> HIDE DEF ins
<1>8. Fits(F, c \o <<ins>> \o yield \o <<jump>>, 0, 0, "ends")
  BY <1>2, <1>6, WhileFits
<1>9. c \o (x \o yield \o j) = c \o x \o yield \o j
  <2>1. x \in Seq(S) /\ j \in Seq(S)
    BY <1>7
  <2> HIDE DEF S, x, j
  <2> DEFINE xy == x \o yield
  <2>2. xy \in Seq(S)
    BY <1>3, <2>1, ConcatFacts
  <2> HIDE DEF xy
  <2>3. c \o (xy \o j) = c \o xy \o j
    <3>1. c \in Seq(S) /\ xy \in Seq(S) /\ j \in Seq(S)
      BY <1>1, <2>1, <2>2
    <3> QED
      BY ONLY <3>1, SMTT(30)
  <2>4. c \o (x \o yield) = c \o x \o yield
    <3>1. c \in Seq(S) /\ x \in Seq(S) /\ yield \in Seq(S)
      BY <1>1, <1>3, <2>1
    <3> QED
      BY ONLY <3>1, SMTT(30)
  <2> QED
    BY ONLY <2>3, <2>4, Zenon DEF xy
<1> HIDE DEF jump
<1> QED
  BY ONLY <1>4, <1>5, <1>8, <1>9, Zenon DEF x, j

\* forever: its end is not reached.
LEMMA InfLoopFits ==
  ASSUME NEW F, NEW s, Fits(F, s, 0, 0, "may")
  PROVE  Fits(F, InfLoop(s), 0, 0, "may")
<1> DEFINE jump == Jump(-(Len(s) + 1))
           S == Ins(F)
           yield == <<Simple("Yield")>>
           j == <<jump>>
           a == s \o yield
<1>1. Len(s) \in Nat /\ s \in Seq(S)
  BY DEF Fits
<1>2. Fits(F, yield, 0, 0, "may") /\ Len(yield) = 1
  BY SimpleFits
<1>3. yield \in Seq(S)
  BY <1>2 DEF Fits
<1>4. <<Simple("Yield"), jump>> = yield \o j
  BY PairIs
<1> HIDE DEF yield
<1>5. Fits(F, a, 0, 0, "may") /\ Len(a) = Len(s) + Len(yield)
  BY <1>1, <1>2, <1>3, SequenceFits, ConcatFacts
<1> HIDE DEF a
<1>6. -Len(a) = -(Len(s) + 1) /\ -(Len(s) + 1) \in Int
  BY <1>1, <1>2, <1>5
<1>7. jump \in S
  BY <1>6, JumpFacts
<1>8. Fits(F, a \o <<jump>>, 0, 0, "may")
  BY <1>5, <1>6, LoopFits
<1>9. InfLoop(s) = s \o <<Simple("Yield"), jump>>
  BY DEF InfLoop
<1>10. s \o (yield \o j) = s \o yield \o j
  <2>1. s \in Seq(S) /\ yield \in Seq(S) /\ j \in Seq(S)
    BY <1>1, <1>3, <1>7
  <2> HIDE DEF S, j
  <2> QED
    BY ONLY <2>1
<1> HIDE DEF jump
<1> QED
  BY ONLY <1>4, <1>8, <1>9, <1>10, Zenon DEF a, j
-----------------------------------------------------------------------------
(* The shapes that are inferred.                                           *)

\* Induction over the numbers, for a set.
LEMMA Induction ==
  ASSUME NEW S, 0 \in S, \A n \in Nat : n \in S => n + 1 \in S
  PROVE  Nat \subseteq S
<1> SUFFICES ASSUME Nat \ S # {} PROVE FALSE
  OBVIOUS
<1>1. PICK l \in Nat \ S : \A m \in Nat \ S : ~ (<<m, l>> \in OpToRel(<, Nat))
  BY NatLessThanWellFounded, WFMin
<1>2. \A m \in Nat \ S : ~ (m < l)
  BY <1>1 DEF OpToRel
<1>3. l # 0 /\ l \in Nat
  BY <1>1
<1>4. l - 1 \in Nat /\ (l - 1) + 1 = l /\ l - 1 < l
  BY <1>3
<1>5. l - 1 \in S
  BY <1>2, <1>4
<1> QED
  BY <1>1, <1>4, <1>5

\* Where the instruction at q goes on.
Ways(code, q) ==
  (IF GoesOn(code[q]) THEN {q + 1} ELSE {})
    \cup (IF code[q].op \in Jumps THEN {code[q].to} ELSE {})

\* sh are shapes of verified code up to last, each of which is an entry's or is reached
\* from one before it.
Closed(code, sh, entries, last) ==
  /\ DOMAIN sh \subseteq 1 .. last
  /\ entries \subseteq DOMAIN sh
  /\ \A p \in entries : sh[p] = Entry
  /\ \A p \in DOMAIN sh :
       /\ sh[p] \in Shapes
       /\ Supplied(code[p], sh[p]) /\ Flows(code, sh, p) /\ Handled(sh, p)
       /\ p \in entries \/ \E q \in DOMAIN sh : q < p /\ p \in Ways(code, q)

\* What Inferred adds to the shapes so far at p, where it starts, and a step of it.
Found(code, last, shape, p) ==
  LET next == IF GoesOn(code[p]) THEN {p + 1} ELSE {}
      target == IF code[p].op \in Jumps THEN {code[p].to} ELSE {}
  IN [q \in DOMAIN shape \cup ((next \cup target) \cap 1 .. last) |->
        IF q \in DOMAIN shape THEN shape[q]
        ELSE IF q \in next THEN After(code[p], shape[p])
        ELSE AtTarget(code[p], shape[p])]

Start(entries) == [q \in entries |-> Entry]

Follows(code, last, before, p) ==
  IF p \in DOMAIN before THEN Found(code, last, before, p) ELSE before

\* g holds the shapes so far, up to n.
Shaping(code, entries, last, n, g) ==
  g = [p \in 0 .. n |-> IF p < 1 THEN Start(entries) ELSE Follows(code, last, g[p - 1], p)]

\* There are shapes up to every position.
LEMMA InferredExists ==
  ASSUME NEW code, NEW entries, NEW last \in Nat, NEW k \in Nat
  PROVE  \E g : Shaping(code, entries, last, k, g)
<1> DEFINE G(n, g) == Shaping(code, entries, last, n, g)
           S == {n \in Nat : \E g : G(n, g)}
           start == Start(entries)
<1>1. 0 \in S
  <2> DEFINE g == [p \in 0 .. 0 |-> start]
  <2>1. g = [p \in 0 .. 0 |-> IF p < 1 THEN start ELSE Follows(code, last, g[p - 1], p)]
    OBVIOUS
  <2> QED
    BY <2>1 DEF Shaping
<1> HIDE DEF start
<1>2. ASSUME NEW n \in Nat, n \in S PROVE n + 1 \in S
  <2>1. PICK g : G(n, g)
    BY <1>2
  <2> DEFINE h == [p \in 0 .. n + 1 |->
                     IF p = n + 1 THEN Follows(code, last, g[n], n + 1) ELSE g[p]]
             r == [p \in 0 .. n + 1 |->
                     IF p < 1 THEN start ELSE Follows(code, last, h[p - 1], p)]
  <2>2. \A p \in 0 .. n : g[p] = IF p < 1 THEN start ELSE Follows(code, last, g[p - 1], p)
    BY <2>1 DEF Shaping, start
  <2>3. \A p \in 0 .. n : h[p] = g[p]
    OBVIOUS
  <2>4. h[n + 1] = Follows(code, last, g[n], n + 1)
    OBVIOUS
  <2> HIDE DEF h
  <2>5. \A p \in 0 .. n + 1 :
          h[p] = IF p < 1 THEN start ELSE Follows(code, last, h[p - 1], p)
    <3> TAKE p \in 0 .. n + 1
    <3>1. CASE p = n + 1
      <4>1. p - 1 = n /\ n \in 0 .. n /\ ~ (p < 1)
        BY <3>1
      <4> QED
        BY <2>3, <2>4, <3>1, <4>1
    <3>2. CASE p # n + 1
      <4>1. p \in 0 .. n /\ (p < 1 \/ p - 1 \in 0 .. n)
        BY <3>2
      <4> QED
        BY <2>2, <2>3, <4>1
    <3> QED
      BY <3>1, <3>2
  <2>6. h = r
    <3>1. h = [p \in 0 .. n + 1 |-> h[p]]
      BY DEF h
    <3> QED
      BY <2>5, <3>1
  <2>7. G(n + 1, h)
    BY <2>6 DEF Shaping, start
  <2> QED
    BY <2>7
<1> HIDE DEF S
<1>3. k \in S
  BY <1>1, <1>2, Induction
<1> QED
  BY <1>3 DEF S

\* The shapes that are inferred, step by step.
LEMMA InferredUnfolds ==
  ASSUME NEW code, NEW entries, NEW last \in Nat
  PROVE  \E g : /\ Inferred(code, entries, 1, last) = g[last] /\ g[0] = Start(entries)
                /\ \A p \in 1 .. last : g[p] = Follows(code, last, g[p - 1], p)
<1> DEFINE f == CHOOSE g : Shaping(code, entries, last, last, g)
<1>1. \E g : Shaping(code, entries, last, last, g)
  BY InferredExists, Zenon
<1>2. Shaping(code, entries, last, last, f)
  BY <1>1, Zenon
<1>3. Inferred(code, entries, 1, last) = f[last]
  <2>1. 1 - 1 = 0
    OBVIOUS
  <2> QED
    BY <2>1 DEF Inferred, Shaping, Follows, Found, Start
<1> HIDE DEF f
<1>4. \A p \in 0 .. last :
        f[p] = IF p < 1 THEN Start(entries) ELSE Follows(code, last, f[p - 1], p)
  BY <1>2 DEF Shaping
<1>5. 0 \in 0 .. last /\ 0 < 1
  OBVIOUS
<1>6. \A p \in 1 .. last : p \in 0 .. last /\ ~ (p < 1)
  OBVIOUS
<1>7. f[0] = Start(entries)
  BY <1>4, <1>5
<1>8. \A p \in 1 .. last : f[p] = Follows(code, last, f[p - 1], p)
  BY <1>4, <1>6
<1> QED
  BY <1>3, <1>7, <1>8

\* Inferred finds the shapes, whichever they are.
LEMMA InferredAgrees ==
  ASSUME NEW code, NEW entries, NEW last \in Nat, NEW sh, Closed(code, sh, entries, last)
  PROVE  /\ DOMAIN Inferred(code, entries, 1, last) = DOMAIN sh
         /\ \A p \in DOMAIN sh : Inferred(code, entries, 1, last)[p] = sh[p]
<1>1. PICK g : /\ Inferred(code, entries, 1, last) = g[last] /\ g[0] = Start(entries)
               /\ \A p \in 1 .. last : g[p] = Follows(code, last, g[p - 1], p)
  BY InferredUnfolds
<1>2. /\ DOMAIN sh \subseteq 1 .. last /\ entries \subseteq DOMAIN sh
      /\ \A p \in entries : sh[p] = Entry
      /\ \A p \in DOMAIN sh : Flows(code, sh, p)
      /\ \A p \in DOMAIN sh : p \in entries \/ \E q \in DOMAIN sh : q < p /\ p \in Ways(code, q)
  BY DEF Closed
<1>3. \A p \in DOMAIN sh : Ways(code, p) \subseteq DOMAIN sh
  BY <1>2 DEF Ways, Flows
<1> DEFINE I(p) == /\ DOMAIN g[p] \subseteq DOMAIN sh /\ entries \subseteq DOMAIN g[p]
                   /\ \A q \in DOMAIN g[p] : g[p][q] = sh[q]
                   /\ \A q \in DOMAIN sh : q <= p => Ways(code, q) \subseteq DOMAIN g[p]
           S == {p \in Nat : p <= last => I(p)}
<1>4. 0 \in S
  <2>1. DOMAIN g[0] = entries /\ \A q \in entries : g[0][q] = Entry
    BY <1>1 DEF Start
  <2>2. \A q \in DOMAIN sh : ~ (q <= 0)
    BY <1>2
  <2> QED
    BY <1>2, <2>1, <2>2
<1>5. ASSUME NEW p \in Nat, p \in S PROVE p + 1 \in S
  <2> SUFFICES ASSUME p + 1 <= last PROVE I(p + 1)
    OBVIOUS
  <2> DEFINE n == p + 1
             before == g[p]
             after == g[n]
  <2>1. I(p) /\ n \in 1 .. last /\ n - 1 = p
    BY <1>5
  <2>2. after = Follows(code, last, before, n)
    BY <1>1, <2>1
  <2>3. /\ DOMAIN before \subseteq DOMAIN sh /\ entries \subseteq DOMAIN before
        /\ \A q \in DOMAIN before : before[q] = sh[q]
        /\ \A q \in DOMAIN sh : q <= p => Ways(code, q) \subseteq DOMAIN before
    BY <2>1
  <2>4. \A q \in DOMAIN sh : q <= n => q <= p \/ q = n
    BY <1>2
  <2>5. \A q \in DOMAIN sh : q < n => q <= p
    BY <1>2
  <2> HIDE DEF before, after, n
  <2>6. n \in DOMAIN sh => n \in DOMAIN before
    BY <1>2, <2>3, <2>5
  <2>7. CASE n \in DOMAIN before
    <3>1. after = Found(code, last, before, n)
      BY <2>2, <2>7 DEF Follows
    <3>2. n \in DOMAIN sh /\ before[n] = sh[n] /\ Ways(code, n) \subseteq DOMAIN sh
      BY <1>3, <2>3, <2>7
    <3>3. Ways(code, n) \cap 1 .. last = Ways(code, n)
      BY <1>2, <3>2
    <3>4. /\ DOMAIN after = DOMAIN before \cup Ways(code, n)
          /\ \A q \in DOMAIN before : after[q] = before[q]
          /\ \A q \in DOMAIN after \ DOMAIN before :
               after[q] = IF GoesOn(code[n]) /\ q = n + 1 THEN After(code[n], before[n])
                          ELSE AtTarget(code[n], before[n])
      <4>1. after = [q \in DOMAIN before \cup (Ways(code, n) \cap 1 .. last) |->
                       IF q \in DOMAIN before THEN before[q]
                       ELSE IF GoesOn(code[n]) /\ q = n + 1 THEN After(code[n], before[n])
                       ELSE AtTarget(code[n], before[n])]
        BY <3>1 DEF Found, Ways
      <4> QED
        BY <3>3, <4>1
    <3>5. ASSUME NEW q \in DOMAIN after PROVE after[q] = sh[q]
      <4>1. CASE q \in DOMAIN before
        BY <2>3, <3>4, <4>1
      <4>2. CASE q \notin DOMAIN before
        <5>1. q \in Ways(code, n)
          BY <3>4, <4>2
        <5>2. Flows(code, sh, n)
          BY <1>2, <3>2
        <5>3. CASE GoesOn(code[n]) /\ q = n + 1
          BY <3>2, <3>4, <4>2, <5>2, <5>3 DEF Flows
        <5>4. CASE ~ (GoesOn(code[n]) /\ q = n + 1)
          <6>1. code[n].op \in Jumps /\ q = code[n].to
            BY <5>1, <5>4 DEF Ways
          <6> QED
            BY <3>2, <3>4, <4>2, <5>2, <5>4, <6>1 DEF Flows
        <5> QED
          BY <5>3, <5>4
      <4> QED
        BY <4>1, <4>2
    <3>6. ASSUME NEW q \in DOMAIN sh, q <= n PROVE Ways(code, q) \subseteq DOMAIN after
      BY <2>3, <2>4, <3>4, <3>6
    <3> QED
      BY <2>3, <3>2, <3>4, <3>5, <3>6 DEF n, after
  <2>8. CASE n \notin DOMAIN before
    <3>1. after = before
      BY <2>2, <2>8 DEF Follows
    <3>2. \A q \in DOMAIN sh : q <= n => q <= p
      BY <2>4, <2>6, <2>8
    <3> QED
      BY <2>3, <3>1, <3>2 DEF n, after
  <2> QED
    BY <2>7, <2>8
<1> HIDE DEF S
<1>6. last \in S
  BY <1>4, <1>5, Induction
<1>7. I(last)
  BY <1>6 DEF S
<1>8. \A q \in DOMAIN sh : q <= last
  BY <1>2
<1>9. DOMAIN sh \subseteq DOMAIN g[last]
  BY <1>2, <1>7, <1>8
<1> QED
  BY <1>1, <1>7, <1>9

\* Hence they verify the code, if any shapes do.
LEMMA InferredVerifies ==
  ASSUME NEW code, NEW S, code \in Seq(S), NEW sh, NEW entries,
         Closed(code, sh, entries, Len(code))
  PROVE  Verified(code, Inferred(code, entries, 1, Len(code)), entries)
<1> DEFINE h == Inferred(code, entries, 1, Len(code))
<1>1. Len(code) \in Nat /\ DOMAIN code = 1 .. Len(code)
  OBVIOUS
<1>2. DOMAIN h = DOMAIN sh /\ \A p \in DOMAIN sh : h[p] = sh[p]
  BY <1>1, InferredAgrees
<1> HIDE DEF h
<1>3. /\ DOMAIN sh \subseteq 1 .. Len(code)
      /\ \A p \in entries : p \in DOMAIN sh /\ sh[p] = Entry
      /\ \A p \in DOMAIN sh : /\ sh[p] \in Shapes /\ Supplied(code[p], sh[p])
                               /\ Flows(code, sh, p) /\ Handled(sh, p)
  BY DEF Closed
<1>4. ASSUME NEW p \in DOMAIN h
      PROVE  h[p] \in Shapes /\ Supplied(code[p], h[p]) /\ Flows(code, h, p) /\ Handled(h, p)
  <2>1. h[p] = sh[p] /\ p \in DOMAIN sh
    BY <1>2, <1>4
  <2>2. Flows(code, h, p)
    BY <1>2, <1>3, <2>1 DEF Flows
  <2>3. Handled(h, p)
    BY <1>2, <1>3, <2>1 DEF Handled
  <2> QED
    BY <1>3, <2>1, <2>2, <2>3
<1>5. DOMAIN h \subseteq DOMAIN code /\ \A p \in entries : p \in DOMAIN h /\ h[p] = Entry
  BY <1>1, <1>2, <1>3
<1> QED
  BY <1>4, <1>5 DEF Verified, h
-----------------------------------------------------------------------------
(* Units one after the other.                                              *)

\* f holds the first units put together, up to n of them.
Flat(seqs, n, f) ==
  f = [i \in 1 .. n |-> IF i = 1 THEN seqs[i] ELSE f[i - 1] \o seqs[i]]

\* Any number of them can be put together.
LEMMA FlatExists ==
  ASSUME NEW seqs, NEW n \in Nat
  PROVE  \E f : Flat(seqs, n, f)
<1> DEFINE S == {m \in Nat : \E f : Flat(seqs, m, f)}
<1>1. 0 \in S
  <2> DEFINE f == [i \in 1 .. 0 |-> seqs]
  <2>1. f = [i \in 1 .. 0 |-> IF i = 1 THEN seqs[i] ELSE f[i - 1] \o seqs[i]]
    OBVIOUS
  <2> QED
    BY <2>1 DEF Flat
<1>2. ASSUME NEW m \in Nat, m \in S PROVE m + 1 \in S
  <2>1. PICK f : Flat(seqs, m, f)
    BY <1>2
  <2> DEFINE step(g, i) == IF i = 1 THEN seqs[i] ELSE g[i - 1] \o seqs[i]
             h == [i \in 1 .. m + 1 |-> IF i = m + 1 THEN step(f, i) ELSE f[i]]
             r == [i \in 1 .. m + 1 |-> step(h, i)]
  <2>2. \A i \in 1 .. m : f[i] = step(f, i)
    BY <2>1 DEF Flat
  <2>3. /\ \A i \in 1 .. m : h[i] = f[i]
        /\ h[m + 1] = step(f, m + 1)
    <3>1. m + 1 \in 1 .. m + 1 /\ \A i \in 1 .. m : i \in 1 .. m + 1 /\ i # m + 1
      OBVIOUS
    <3> HIDE DEF step
    <3> QED
      BY <3>1
  <2>4. h = [i \in 1 .. m + 1 |-> h[i]]
    OBVIOUS
  <2> HIDE DEF h
  <2>5. \A i \in 1 .. m + 1 : i # 1 => i - 1 \in 1 .. m
    OBVIOUS
  <2>6. \A i \in 1 .. m + 1 : step(h, i) = step(f, i)
    BY <2>3, <2>5
  <2>7. \A i \in 1 .. m + 1 : i \in 1 .. m \/ i = m + 1
    OBVIOUS
  <2>8. \A i \in 1 .. m + 1 : h[i] = step(f, i)
    BY <2>2, <2>3, <2>7
  <2>9. \A i \in 1 .. m + 1 : h[i] = step(h, i)
    BY <2>6, <2>8
  <2>10. h = r
    BY <2>4, <2>9
  <2>11. Flat(seqs, m + 1, h)
    BY <2>10 DEF Flat
  <2> QED
    BY <2>11
<1> HIDE DEF S
<1>3. n \in S
  BY <1>1, <1>2, Induction
<1> QED
  BY <1>3 DEF S

\* FlattenSeq puts them together.
LEMMA FlattenIs ==
  ASSUME NEW seqs, NEW n \in Nat \ {0}, Len(seqs) = n, NEW f,
         \A i \in 1 .. n : f[i] = IF i = 1 THEN seqs[i] ELSE f[i - 1] \o seqs[i]
  PROVE  FlattenSeq(seqs) = f[n]
<1> DEFINE g == CHOOSE h : Flat(seqs, n, h)
<1>1. \E h : Flat(seqs, n, h)
  BY FlatExists
<1>2. Flat(seqs, n, g)
  BY <1>1, Zenon
<1>3. FlattenSeq(seqs) = g[n]
  BY DEF FlattenSeq, Flat
<1> HIDE DEF g
<1>4. \A i \in 1 .. n : g[i] = IF i = 1 THEN seqs[i] ELSE g[i - 1] \o seqs[i]
  BY <1>2 DEF Flat
<1> DEFINE S == {i \in Nat : i \in 1 .. n => g[i] = f[i]}
<1>5. 0 \in S
  OBVIOUS
<1>6. ASSUME NEW i \in Nat, i \in S PROVE i + 1 \in S
  <2>1. SUFFICES ASSUME i + 1 \in 1 .. n PROVE g[i + 1] = f[i + 1]
    OBVIOUS
  <2>2. CASE i = 0
    BY <1>4, <2>1, <2>2
  <2>3. CASE i # 0
    <3>1. i \in 1 .. n /\ (i + 1) - 1 = i /\ i + 1 # 1
      BY <2>1, <2>3
    <3>2. g[i] = f[i]
      BY <1>6, <3>1
    <3> QED
      BY <1>4, <2>1, <3>1, <3>2
  <2> QED
    BY <2>2, <2>3
<1> HIDE DEF S
<1>7. n \in S
  BY <1>5, <1>6, Induction
<1> QED
  BY <1>3, <1>7 DEF S

\* The first units are what the ones before them are, and one more.
LEMMA FlattenSteps ==
  ASSUME NEW S, NEW seqs \in Seq(Seq(S))
  PROVE  LET upto(i) == FlattenSeq(SubSeq(seqs, 1, i))
         IN /\ upto(0) = <<>> /\ upto(Len(seqs)) = FlattenSeq(seqs)
            /\ \A i \in 0 .. Len(seqs) - 1 : upto(i + 1) = upto(i) \o seqs[i + 1]
<1> DEFINE n == Len(seqs)
           part(i) == SubSeq(seqs, 1, i)
<1>1. n \in Nat
  OBVIOUS
<1>2. \A i \in 0 .. n : Len(part(i)) = i /\ \A j \in 1 .. i : part(i)[j] = seqs[j]
  OBVIOUS
<1>3. part(0) = <<>> /\ part(n) = seqs
  OBVIOUS
<1>4. \A i \in 1 .. n : seqs[i] \in Seq(S)
  OBVIOUS
<1> HIDE DEF n, part
<1>5. PICK f : Flat(seqs, n, f)
  BY <1>1, FlatExists
<1>6. \A i \in 1 .. n : f[i] = IF i = 1 THEN seqs[i] ELSE f[i - 1] \o seqs[i]
  BY <1>5 DEF Flat
<1>7. ASSUME NEW i \in 1 .. n PROVE FlattenSeq(part(i)) = f[i]
  <2> DEFINE p == part(i)
  <2>1. i \in Nat \ {0} /\ Len(p) = i /\ i \in 0 .. n
    BY <1>1, <1>2
  <2>2. \A j \in 1 .. i : f[j] = IF j = 1 THEN p[j] ELSE f[j - 1] \o p[j]
    <3>1. \A j \in 1 .. i : p[j] = seqs[j] /\ j \in 1 .. n
      BY <1>1, <1>2, <2>1
    <3> QED
      BY <1>6, <3>1
  <2> HIDE DEF p
  <2>3. FlattenSeq(p) = f[i]
    BY <2>1, <2>2, FlattenIs
  <2> QED
    BY <2>3 DEF p
<1>8. FlattenSeq(part(0)) = <<>>
  BY <1>3 DEF FlattenSeq
<1>9. ASSUME NEW i \in 0 .. n - 1
      PROVE  FlattenSeq(part(i + 1)) = FlattenSeq(part(i)) \o seqs[i + 1]
  <2>1. i + 1 \in 1 .. n
    BY <1>1
  <2>2. CASE i = 0
    <3>1. FlattenSeq(part(1)) = seqs[1] /\ seqs[1] \in Seq(S)
      BY <1>4, <1>6, <1>7, <2>1, <2>2
    <3>2. <<>> \o seqs[1] = seqs[1]
      BY <3>1
    <3>3. i + 1 = 1
      BY <2>2
    <3> QED
      BY <1>8, <2>2, <3>1, <3>2, <3>3
  <2>3. CASE i # 0
    <3>1. i \in 1 .. n /\ (i + 1) - 1 = i /\ i + 1 # 1
      BY <1>1, <2>3
    <3> QED
      BY <1>6, <1>7, <2>1, <3>1
  <2> QED
    BY <2>2, <2>3
<1> QED
  BY <1>3, <1>8, <1>9 DEF n, part

\* Where units are in code: the parts of one of them, and each of them after the others.
Lies(program, code, i) ==
  /\ StartOf(program, i) \in Nat \ {0}
  /\ StartOf(program, i) + Len(program[i]) <= Len(code) + 1
  /\ \A j \in 1 .. Len(program[i]) : code[StartOf(program, i) + j - 1] = program[i][j]
  /\ \A k \in 1 .. i - 1 : StartOf(program, k) + Len(program[k]) <= StartOf(program, i)

\* Every position of the code is in one of the first n units.
Filled(program, code, n) ==
  \A p \in 1 .. Len(code) : \E i \in 1 .. n :
    \E j \in 1 .. Len(program[i]) : p = StartOf(program, i) + j - 1

\* The units are in the code one after the other, and there is nothing else in it.
LEMMA UnitsLie ==
  ASSUME NEW S, NEW program \in Seq(Seq(S))
  PROVE  LET code == FlattenSeq(program)
         IN /\ code \in Seq(S) /\ \A i \in 1 .. Len(program) : Lies(program, code, i)
            /\ Filled(program, code, Len(program))
<1> DEFINE n == Len(program)
           upto(i) == FlattenSeq(SubSeq(program, 1, i))
           start(i) == StartOf(program, i)
           J(m) == /\ upto(m) \in Seq(S) /\ \A i \in 1 .. m : Lies(program, upto(m), i)
                   /\ Filled(program, upto(m), m)
           T == {m \in Nat : m <= n => J(m)}
<1>1. n \in Nat
  OBVIOUS
<1>2. /\ upto(0) = <<>> /\ upto(n) = FlattenSeq(program)
      /\ \A i \in 0 .. n - 1 : upto(i + 1) = upto(i) \o program[i + 1]
  BY FlattenSteps
<1>3. \A i \in 1 .. n : program[i] \in Seq(S)
  OBVIOUS
<1>4. \A m \in Nat : start(m + 1) = Len(upto(m)) + 1
  <2>1. \A m \in Nat : (m + 1) - 1 = m
    OBVIOUS
  <2> QED
    BY <2>1 DEF StartOf
<1> HIDE DEF upto, n
<1>5. 0 \in T
  <2>1. upto(0) \in Seq(S) /\ 1 .. Len(upto(0)) = {} /\ 1 .. 0 = {}
    <3>1. <<>> \in Seq(S) /\ Len(<<>>) = 0 /\ 1 .. 0 = {}
      OBVIOUS
    <3> QED
      BY <1>2, <3>1, Zenon
  <2> DEFINE a == upto(0)
  <2>2. Filled(program, a, 0)
    <3> HIDE DEF a
    <3> QED
      BY <2>1 DEF Filled, a
  <2>3. J(0)
    BY <2>1, <2>2
  <2> HIDE DEF J
  <2> QED
    BY <2>3
<1>6. ASSUME NEW m \in Nat, m \in T PROVE m + 1 \in T
  <2> SUFFICES ASSUME m + 1 <= n PROVE J(m + 1)
    OBVIOUS
  <2> DEFINE a == upto(m)
             b == program[m + 1]
             c == upto(m + 1)
             l == Len(a)
  <2>1. J(m) /\ m \in 0 .. n - 1 /\ m + 1 \in 1 .. n
    BY <1>1, <1>6
  <2>2. a \in Seq(S) /\ b \in Seq(S) /\ c = a \o b
    BY <1>2, <1>3, <2>1
  <2>3. /\ l \in Nat /\ Len(b) \in Nat /\ c \in Seq(S) /\ Len(c) = l + Len(b)
        /\ \A p \in 1 .. l : c[p] = a[p]
        /\ \A j \in 1 .. Len(b) : c[l + j] = b[j]
    <3> HIDE DEF a, b, c
    <3> QED
      BY <2>2 DEF l
  <2>4. start(m + 1) = l + 1
    BY <1>4 DEF l, a
  <2>5. (\A i \in 1 .. m : Lies(program, a, i)) /\ Filled(program, a, m)
    BY <2>1 DEF a
  <2>6. \A i \in 1 .. m : Len(program[i]) \in Nat
    <3>1. \A i \in 1 .. m : i \in 1 .. n
      BY <1>1, <2>1
    <3> QED
      BY <1>3, <3>1
  <2> HIDE DEF a, b, c, l
  <2>7. ASSUME NEW i \in 1 .. m PROVE Lies(program, c, i)
    <3> DEFINE s == start(i)
               k == Len(program[i])
    <3>1. /\ s \in Nat \ {0} /\ s + k <= l + 1 /\ k \in Nat
          /\ \A j \in 1 .. k : a[s + j - 1] = program[i][j]
          /\ \A h \in 1 .. i - 1 : StartOf(program, h) + Len(program[h]) <= s
      BY <2>5, <2>6 DEF Lies, l
    <3>2. s + k <= Len(c) + 1 /\ \A j \in 1 .. k : s + j - 1 \in 1 .. l
      <4> HIDE DEF s, k
      <4> QED
        BY <2>3, <3>1
    <3>3. \A j \in 1 .. k : c[s + j - 1] = program[i][j]
      BY <2>3, <3>1, <3>2
    <3> QED
      BY <3>1, <3>2, <3>3 DEF Lies
  <2>8. Lies(program, c, m + 1)
    <3>1. l + 1 \in Nat \ {0} /\ (l + 1) + Len(b) <= Len(c) + 1
      BY <2>3
    <3>2. \A j \in 1 .. Len(b) : (l + 1) + j - 1 = l + j
      BY <2>3
    <3>3. \A k \in 1 .. (m + 1) - 1 : StartOf(program, k) + Len(program[k]) <= l + 1
      <4>1. (m + 1) - 1 = m
        OBVIOUS
      <4> QED
        BY <2>5, <4>1 DEF Lies, l
    <3> QED
      BY <2>3, <2>4, <3>1, <3>2, <3>3 DEF Lies, b
  <2>9. ASSUME NEW p \in 1 .. Len(c)
        PROVE  \E i \in 1 .. m + 1 : \E j \in 1 .. Len(program[i]) : p = StartOf(program, i) + j - 1
    <3>1. CASE p <= l
      <4>1. p \in 1 .. Len(a)
        BY <2>3, <3>1 DEF l
      <4>2. PICK i \in 1 .. m : \E j \in 1 .. Len(program[i]) : p = StartOf(program, i) + j - 1
        BY <2>5, <4>1 DEF Filled
      <4>3. i \in 1 .. m + 1
        OBVIOUS
      <4> QED
        BY <4>2, <4>3
    <3>2. CASE ~ (p <= l)
      <4>1. p - l \in 1 .. Len(b) /\ p = (l + 1) + (p - l) - 1
        BY <2>3, <3>2
      <4>2. m + 1 \in 1 .. m + 1
        OBVIOUS
      <4> QED
        BY <2>4, <4>1, <4>2 DEF b
    <3> QED
      BY <3>1, <3>2
  <2>10. \A i \in 1 .. m + 1 : i \in 1 .. m \/ i = m + 1
    OBVIOUS
  <2> QED
    BY <2>3, <2>7, <2>8, <2>9, <2>10 DEF Filled, c
<1> HIDE DEF T
<1>7. n \in T
  BY <1>1, <1>5, <1>6, Induction
<1>8. J(n)
  BY <1>1, <1>7 DEF T
<1> QED
  BY <1>2, <1>8 DEF n
-----------------------------------------------------------------------------
(* Linked code.                                                            *)

\* Where units that are put together start.
StartsOf(program) == {StartOf(program, i) : i \in 1 .. Len(program)}

\* The linked code of units that call each other.
LEMMA LinkedFacts ==
  ASSUME NEW program, program \in Seq(Seq(Ins(1 .. Len(program))))
  PROVE  LET text == Linked(program)
         IN /\ text \in Seq(Instruction) /\ Len(text) = Len(FlattenSeq(program))
            /\ \A i \in 1 .. Len(program) : Placed(text, StartOf(program, i), program[i])
            /\ \A p \in 1 .. Len(text) : text[p].op = "Call" => text[p].to \in StartsOf(program)
<1> DEFINE F == 1 .. Len(program)
           text == Linked(program)
           u == FlattenSeq(program)
<1>1. u \in Seq(Ins(F)) /\ \A i \in 1 .. Len(program) : Lies(program, u, i)
  BY UnitsLie
<1>2. \A i \in 1 .. Len(program) : StartOf(program, i) \in Int /\ StartOf(program, i) \in StartsOf(program)
  BY <1>1 DEF Lies, StartsOf
<1> HIDE DEF u
<1>3. DOMAIN u = 1 .. Len(u) /\ Len(u) \in Nat
  BY <1>1
<1>4. \A p \in 1 .. Len(u) : u[p] \in Instruction /\ (u[p].op = "Call" => u[p].to \in F)
  BY <1>1 DEF Ins
<1>5. text = [p \in 1 .. Len(u) |->
                CASE u[p].op = "Call" -> [u[p] EXCEPT !.to = StartOf(program, u[p].to)]
                  [] u[p].op \in Moving -> [u[p] EXCEPT !.to = p + u[p].to]
                  [] OTHER -> u[p]]
  BY <1>3 DEF Linked, Moving, u
<1> HIDE DEF text
<1>6. ASSUME NEW p \in 1 .. Len(u)
      PROVE  /\ text[p] \in Instruction /\ Located(u[p], p, text[p])
             /\ text[p].op = "Call" => text[p].to \in StartsOf(program)
  <2> DEFINE ins == u[p]
             at == text[p]
             start == StartOf(program, ins.to)
  <2>1. ins \in Instruction /\ ins \in Fields /\ Built(ins)
    BY <1>4 DEF Instruction
  <2>2. p \in Int /\ "Call" \notin Moving /\ (ins.op = "Call" => ins.to \in F)
    BY <1>4 DEF Moving
  <2>3. /\ ins.op = "Call" => at = [ins EXCEPT !.to = start]
        /\ ins.op \in Moving => at = [ins EXCEPT !.to = p + ins.to]
        /\ ins.op # "Call" /\ ins.op \notin Moving => at = ins
    BY <1>5, <2>2
  <2>4. ins.op = "Call" => start \in Int /\ start \in StartsOf(program)
    BY <1>2, <2>2
  <2> HIDE DEF ins, at, start
  <2>5. CASE ins.op = "Call"
    <3>1. at = [ins EXCEPT !.to = start] /\ start \in Int
      BY <2>3, <2>4, <2>5
    <3>2. /\ at \in Fields /\ at.op = ins.op /\ at.needs = ins.needs /\ at.pops = ins.pops
          /\ at.pushes = ins.pushes /\ at.fails = ins.fails /\ at.soft = ins.soft /\ at.to = start
      BY <2>1, <3>1, WithTarget
    <3>3. Built(at)
      BY <2>1, <3>2 DEF Built
    <3> QED
      BY <2>2, <2>4, <2>5, <3>2, <3>3 DEF Located, Instruction, ins, at
  <2>6. CASE ins.op \in Moving
    <3>1. at = [ins EXCEPT !.to = p + ins.to] /\ p + ins.to \in Int
      BY <2>1, <2>2, <2>3, <2>6 DEF Fields
    <3>2. /\ at \in Fields /\ at.op = ins.op /\ at.needs = ins.needs /\ at.pops = ins.pops
          /\ at.pushes = ins.pushes /\ at.fails = ins.fails /\ at.soft = ins.soft
          /\ at.to = p + ins.to
      BY <2>1, <3>1, WithTarget
    <3>3. Built(at)
      BY <2>1, <3>2 DEF Built
    <3> QED
      BY <2>2, <2>6, <3>2, <3>3 DEF Located, Instruction, ins, at
  <2>7. CASE ins.op # "Call" /\ ins.op \notin Moving
    BY <2>1, <2>3, <2>7 DEF Located, Instruction, ins, at
  <2> QED
    BY <2>5, <2>6, <2>7
<1>7. text \in Seq(Instruction) /\ Len(text) = Len(u)
  <2>1. text \in [1 .. Len(u) -> Instruction]
    BY <1>5, <1>6
  <2> QED
    BY <1>3, <2>1
<1>8. ASSUME NEW i \in 1 .. Len(program) PROVE Placed(text, StartOf(program, i), program[i])
  <2> DEFINE x == StartOf(program, i)
             b == program[i]
  <2>1. /\ x \in Nat \ {0} /\ x + Len(b) <= Len(u) + 1
        /\ \A j \in 1 .. Len(b) : u[x + j - 1] = b[j]
    BY <1>1 DEF Lies
  <2>2. DOMAIN b = 1 .. Len(b) /\ Len(b) \in Nat
    OBVIOUS
  <2> HIDE DEF x, b
  <2>3. \A j \in 1 .. Len(b) : x + j - 1 \in 1 .. Len(u)
    BY <1>3, <2>1, <2>2
  <2>4. \A j \in 1 .. Len(b) : Located(b[j], x + j - 1, text[x + j - 1])
    BY <1>6, <2>1, <2>3
  <2>5. Placed(text, x, b)
    BY <2>2, <2>4 DEF Placed
  <2> QED
    BY <2>5 DEF x, b
<1> QED
  BY <1>6, <1>7, <1>8 DEF text, u

\* f are the shapes of unit i of the units in text: its code leaves a value for the
\* Return that it ends with.
Whole(program, text, i, f) ==
  LET last == StartOf(program, i) + Len(program[i]) - 1
  IN /\ Covers(text, StartOf(program, i), last, f, Entry, [Entry EXCEPT !.values = 1], "may")
     /\ text[last].op = "Return" /\ text[last].needs = 1 /\ ~ text[last].fails

\* Its instructions find what they expect, in the shapes of all units.
LEMMA WholeIsClosed ==
  ASSUME NEW program, NEW text, NEW i \in 1 .. Len(program), NEW f, Whole(program, text, i, f),
         NEW sh, Within(f, sh),
         \A p \in StartsOf(program) : p \in DOMAIN sh /\ sh[p] = Entry,
         NEW p \in DOMAIN f, text[p].op = "Call" => text[p].to \in StartsOf(program)
  PROVE  /\ sh[p] \in Shapes
         /\ Supplied(text[p], sh[p]) /\ Flows(text, sh, p) /\ Handled(sh, p)
         /\ p \in StartsOf(program) \/ \E q \in DOMAIN sh : q < p /\ p \in Ways(text, q)
<1> DEFINE x == StartOf(program, i)
           y == x + Len(program[i]) - 1
           one == [Entry EXCEPT !.values = 1]
<1>1. /\ Covers(text, x, y, f, Entry, one, "may")
      /\ text[y].op = "Return" /\ text[y].needs = 1 /\ ~ text[y].fails
  BY DEF Whole
<1>2. x \in StartsOf(program)
  BY DEF StartsOf
<1> HIDE DEF x, y
<1>3. /\ sh[p] \in Shapes
      /\ p = x \/ Reached(text, sh, p)
      /\ p = y \/ Fine(text, sh, <<>>, p)
  <2>1. Entry.handlers = <<>>
    BY DEF Entry
  <2> HIDE DEF one
  <2> QED
    BY <1>1, <2>1, CoversWithin
<1>4. p = y => sh[p] = one
  BY <1>1 DEF Covers, Within
<1>5. CASE p = y
  <2>1. sh[p].values = 1 /\ sh[p].handlers = <<>>
    BY <1>4, <1>5 DEF Entry
  <2>2. Supplied(text[p], sh[p]) /\ Flows(text, sh, p) /\ Handled(sh, p)
    BY <1>1, <1>5, <2>1 DEF Supplied, Flows, Handled, GoesOn, Jumps
  <2> QED
    BY <1>2, <1>3, <2>2 DEF Reached, Leads, Ways, Moving
<1>6. CASE p # y
  <2>1. Fine(text, sh, <<>>, p)
    BY <1>3, <1>6
  <2>2. Flows(text, sh, p)
    <3>1. CASE text[p].op = "Call"
      <4>1. text[p].to \in StartsOf(program) /\ AtTarget(text[p], sh[p]) = Entry
        BY <3>1 DEF AtTarget
      <4> QED
        BY <2>1, <4>1 DEF Fine, Flows
    <3>2. CASE text[p].op # "Call"
      BY <2>1, <3>2 DEF Fine, Flows, Moving
    <3> QED
      BY <3>1, <3>2
  <2>3. Handled(sh, p)
    BY <2>1 DEF Fine, Handled
  <2>4. Supplied(text[p], sh[p])
    BY <2>1 DEF Fine
  <2> QED
    BY <1>2, <1>3, <2>2, <2>3, <2>4 DEF Reached, Leads, Ways, Moving
<1> QED
  BY <1>5, <1>6

\* What a script finds, and what it leaves when its value is taken.
LEMMA EntryFacts ==
  LET one == [Entry EXCEPT !.values = 1]
  IN /\ Entry \in Shapes /\ one \in Shapes /\ Ready(Entry, 0)
     /\ Leaving(Entry, 0, 0) = Entry /\ Leaving(Entry, 0, 1) = one
<1> DEFINE one == [Entry EXCEPT !.values = 1]
<1>1. Entry.values = 0 /\ Entry.warp = 0 /\ Entry.handlers = <<>>
  BY DEF Entry
<1>2. one = [values |-> 1, warp |-> 0, handlers |-> <<>>]
  BY DEF Entry
<1>3. <<>> \in Seq(TryBlock)
  OBVIOUS
<1>4. Entry \in Shapes
  BY <1>3 DEF Entry, Shapes
<1>5. one \in Shapes
  <2>1. [values |-> 1, warp |-> 0, handlers |-> <<>>] \in Shapes
    BY <1>3 DEF Shapes
  <2> QED
    BY ONLY <1>2, <2>1, Zenon
<1>6. Ready(Entry, 0)
  BY <1>1 DEF Ready
<1>7. Leaving(Entry, 0, 0) = Entry
  <2>1. 0 - 0 + 0 = 0
    OBVIOUS
  <2> QED
    BY <1>1, <2>1 DEF Leaving, Entry
<1>8. Leaving(Entry, 0, 1) = one
  <2>1. 0 - 0 + 1 = 1
    OBVIOUS
  <2>2. Leaving(Entry, 0, 1) = [values |-> 1, warp |-> 0, handlers |-> <<>>]
    BY <1>1, <2>1 DEF Leaving
  <2> QED
    BY <1>2, <2>2
<1> QED
  BY <1>4, <1>5, <1>6, <1>7, <1>8

\* Code that leaves a value, and the Return that takes it.
IsUnit(F, u) == \E body : Fits(F, body, 0, 1, "may") /\ u = body \o <<Return>>

\* Its type and its length,
LEMMA UnitFacts ==
  ASSUME NEW F, NEW body, Fits(F, body, 0, 1, "may")
  PROVE  /\ body \o <<Return>> \in Seq(Ins(F)) /\ Len(body) \in Nat
         /\ Len(body \o <<Return>>) = Len(body) + 1
<1>1. body \in Seq(Ins(F)) /\ Return \in Ins(F) /\ Len(body) \in Nat
  BY LeaveFacts DEF Fits
<1> QED
  BY <1>1, OneMore

\* and its last instruction, wherever it stands.
LEMMA UnitPlaced ==
  ASSUME NEW F, NEW body, Fits(F, body, 0, 1, "may"),
         NEW text, NEW x \in Nat, Placed(text, x, body \o <<Return>>)
  PROVE  /\ Placed(text, x, body)
         /\ text[x + Len(body)].op = "Return" /\ text[x + Len(body)].needs = 1
         /\ ~ text[x + Len(body)].fails
<1>1. body \in Seq(Ins(F)) /\ Return \in Ins(F) /\ Len(body) \in Nat
  BY LeaveFacts DEF Fits
<1>2. <<Return>> \in Seq(Ins(F))
  BY <1>1
<1>3. Placed(text, x, body) /\ Placed(text, x + Len(body), <<Return>>)
  BY <1>1, <1>2, PlacedConcat
<1>4. Located(Return, x + Len(body), text[x + Len(body)])
  BY <1>1, <1>3, PlacedOne
<1>5. Return.op = "Return" /\ Return.needs = 1 /\ ~ Return.fails
  BY LeaveFacts
<1> QED
  BY <1>3, <1>4, <1>5 DEF Located

\* A unit has shapes, wherever it stands.
LEMMA UnitIsWhole ==
  ASSUME NEW F, NEW program, NEW text, NEW i, StartOf(program, i) \in Nat,
         Placed(text, StartOf(program, i), program[i]), IsUnit(F, program[i])
  PROVE  \E f : Whole(program, text, i, f)
<1> DEFINE x == StartOf(program, i)
           u == program[i]
<1>1. PICK body : Fits(F, body, 0, 1, "may") /\ u = body \o <<Return>>
  BY DEF IsUnit
<1>2. /\ Placed(text, x, body)
      /\ text[x + Len(body)].op = "Return" /\ text[x + Len(body)].needs = 1
      /\ ~ text[x + Len(body)].fails
      /\ Len(body) \in Nat /\ Len(u) = Len(body) + 1
  <2>1. x \in Nat /\ Placed(text, x, u)
    OBVIOUS
  <2>2. Placed(text, x, body \o <<Return>>) /\ u = body \o <<Return>>
    BY <1>1, <2>1
  <2> HIDE DEF x, u
  <2>3. Len(body) \in Nat /\ Len(u) = Len(body) + 1
    BY <1>1, <2>2, UnitFacts
  <2> QED
    BY <1>1, <2>1, <2>2, <2>3, UnitPlaced
<1>3. PICK f : Covers(text, x, x + Len(body), f, Entry, Leaving(Entry, 0, 1), "may")
  <2>1. x \in Nat /\ Entry \in Shapes /\ Ready(Entry, 0) /\ Placed(text, x, body)
    BY <1>2, EntryFacts
  <2> HIDE DEF x
  <2> QED
    BY <1>1, <2>1 DEF Fits
<1>4. Leaving(Entry, 0, 1) = [Entry EXCEPT !.values = 1]
  BY EntryFacts
<1>5. x + Len(u) - 1 = x + Len(body)
  BY <1>2
<1> HIDE DEF x, u
<1> QED
  BY <1>2, <1>3, <1>4, <1>5 DEF Whole, x, u

\* The units of a program verify together, and what one of them finds depends on
\* that unit only.
LEMMA ProgramVerifies ==
  ASSUME NEW program, program \in Seq(Seq(Ins(1 .. Len(program)))),
         \A i \in 1 .. Len(program) : IsUnit(1 .. Len(program), program[i]),
         NEW k \in 1 .. Len(program), NEW f, Whole(program, Linked(program), k, f)
  PROVE  LET code == Linked(program)
             shape == Inferred(code, StartsOf(program), 1, Len(code))
         IN /\ Verified(code, shape, StartsOf(program))
            /\ \A p \in StartOf(program, k) .. StartOf(program, k) + Len(program[k]) - 1 :
                 /\ p \in DOMAIN shape <=> p \in DOMAIN f
                 /\ p \in DOMAIN f => shape[p] = f[p]
<1> DEFINE n == Len(program)
           F == 1 .. n
           code == Linked(program)
           last == Len(code)
           start(i) == StartOf(program, i)
           end(i) == start(i) + Len(program[i]) - 1
           entries == StartsOf(program)
           shape == Inferred(code, entries, 1, last)
<1>1. /\ code \in Seq(Instruction) /\ last = Len(FlattenSeq(program))
      /\ \A i \in 1 .. n : Placed(code, start(i), program[i])
      /\ \A p \in 1 .. last : code[p].op = "Call" => code[p].to \in entries
  BY LinkedFacts
<1>2. \A i \in 1 .. n : Lies(program, FlattenSeq(program), i)
  BY UnitsLie
<1>3. last \in Nat /\ n \in Nat
  BY <1>1
<1>4. ASSUME NEW i \in 1 .. n
      PROVE  /\ start(i) \in Nat \ {0} /\ Len(program[i]) \in Nat \ {0}
             /\ end(i) \in Int /\ end(i) <= last
  <2>1. start(i) \in Nat \ {0} /\ start(i) + Len(program[i]) <= last + 1
    BY <1>1, <1>2 DEF Lies
  <2>2. Len(program[i]) \in Nat \ {0}
    <3>1. PICK body : Fits(F, body, 0, 1, "may") /\ program[i] = body \o <<Return>>
      BY DEF IsUnit
    <3>2. Len(body) \in Nat /\ Len(program[i]) = Len(body) + 1
      BY <3>1, UnitFacts
    <3>3. \A l \in Nat : l + 1 \in Nat \ {0}
      OBVIOUS
    <3> QED
      BY ONLY <3>2, <3>3
  <2>3. \A a, l \in Nat \ {0}, m \in Nat :
          a + l <= m + 1 => a + l - 1 \in Int /\ a + l - 1 <= m
    OBVIOUS
  <2> HIDE DEF start, last
  <2> QED
    BY ONLY <1>3, <2>1, <2>2, <2>3 DEF end
<1>5. ASSUME NEW i \in 1 .. n, NEW j \in 1 .. n, i < j PROVE end(i) < start(j)
  <2>1. i \in 1 .. j - 1
    BY <1>5
  <2>2. start(i) + Len(program[i]) <= start(j)
    BY <1>2, <2>1 DEF Lies
  <2>3. start(i) \in Nat /\ start(j) \in Nat /\ Len(program[i]) \in Nat
    BY <1>4
  <2>4. \A a, b, l \in Nat : a + l <= b => a + l - 1 < b
    OBVIOUS
  <2> HIDE DEF start
  <2> QED
    BY ONLY <2>2, <2>3, <2>4 DEF end
<1>6. ASSUME NEW i \in 1 .. n PROVE \E g : Whole(program, code, i, g)
  <2>1. start(i) \in Nat /\ Placed(code, start(i), program[i])
    BY <1>1, <1>4
  <2>2. IsUnit(F, program[i])
    OBVIOUS
  <2> HIDE DEF F, code
  <2> QED
    BY <2>1, <2>2, UnitIsWhole
<1> DEFINE c == [i \in 1 .. n |-> IF i = k THEN f ELSE CHOOSE g : Whole(program, code, i, g)]
<1>7. \A i \in 1 .. n : Whole(program, code, i, c[i])
  <2>1. ASSUME NEW i \in 1 .. n PROVE Whole(program, code, i, CHOOSE g : Whole(program, code, i, g))
    BY <1>6, Zenon
  <2> QED
    BY <2>1
<1>8. c[k] = f
  OBVIOUS
<1> HIDE DEF c
<1>9. \A i \in 1 .. n : DOMAIN c[i] \subseteq start(i) .. end(i)
  BY <1>7 DEF Whole, Covers
<1>10. ASSUME NEW i \in 1 .. n PROVE start(i) \in DOMAIN c[i] /\ c[i][start(i)] = Entry
  BY <1>7 DEF Whole, Covers
<1> HIDE DEF start, end, n, code, F
<1>11. ASSUME NEW i \in 1 .. n, NEW j \in 1 .. n, NEW p \in start(i) .. end(i),
              p \in start(j) .. end(j)
       PROVE  i = j
  <2>1. i < j \/ j < i \/ i = j
    BY <1>3
  <2>2. /\ i < j => end(i) < start(j)
        /\ j < i => end(j) < start(i)
    BY <1>5
  <2>3. start(i) \in Int /\ start(j) \in Int /\ end(i) \in Int /\ end(j) \in Int
    BY <1>4
  <2>4. \A a, b, d, e \in Int : \A q \in a .. b : q \in d .. e => ~ (b < d) /\ ~ (e < a)
    OBVIOUS
  <2> QED
    BY ONLY <1>11, <2>1, <2>2, <2>3, <2>4
<1> DEFINE all == UNION {DOMAIN c[i] : i \in 1 .. n}
           unit(p) == CHOOSE i \in 1 .. n : p \in DOMAIN c[i]
           sh == [p \in all |-> c[unit(p)][p]]
<1>12. ASSUME NEW i \in 1 .. n, NEW p \in DOMAIN c[i] PROVE p \in all /\ unit(p) = i
  <2>1. unit(p) \in 1 .. n /\ p \in DOMAIN c[unit(p)]
    <3>1. \E j \in 1 .. n : p \in DOMAIN c[j]
      BY <1>12
    <3> QED
      BY <3>1, Zenon
  <2> HIDE DEF unit
  <2>2. p \in start(i) .. end(i) /\ p \in start(unit(p)) .. end(unit(p))
    BY <1>9, <2>1
  <2> QED
    BY <1>11, <2>1, <2>2
<1>13. \A i \in 1 .. n : Within(c[i], sh)
  <2>1. ASSUME NEW i \in 1 .. n, NEW p \in DOMAIN c[i] PROVE p \in DOMAIN sh /\ sh[p] = c[i][p]
    BY <1>12
  <2> HIDE DEF sh
  <2> QED
    BY <2>1 DEF Within
<1>14. \A p \in DOMAIN sh : \E i \in 1 .. n : p \in DOMAIN c[i]
  OBVIOUS
<1> HIDE DEF sh, all, unit
<1>15. \A p \in entries : p \in DOMAIN sh /\ sh[p] = Entry
  <2>1. ASSUME NEW i \in 1 .. n PROVE start(i) \in DOMAIN sh /\ sh[start(i)] = Entry
    BY <1>10, <1>13 DEF Within
  <2> QED
    BY <2>1 DEF StartsOf, start, n
<1>16. DOMAIN sh \subseteq 1 .. last
  <2>1. ASSUME NEW p \in DOMAIN sh PROVE p \in 1 .. last
    <3>1. PICK i \in 1 .. n : p \in DOMAIN c[i]
      BY <1>14
    <3>2. p \in start(i) .. end(i) /\ start(i) \in Nat \ {0} /\ end(i) <= last
      BY <1>4, <1>9, <3>1
    <3>3. end(i) \in Int
      BY <1>4
    <3> HIDE DEF last
    <3> QED
      BY <1>3, <3>2, <3>3
  <2> QED
    BY <2>1
<1> HIDE DEF last, entries
<1>17. ASSUME NEW p \in DOMAIN sh
       PROVE  /\ sh[p] \in Shapes
              /\ Supplied(code[p], sh[p]) /\ Flows(code, sh, p) /\ Handled(sh, p)
              /\ p \in entries \/ \E q \in DOMAIN sh : q < p /\ p \in Ways(code, q)
  <2>1. PICK i \in 1 .. n : p \in DOMAIN c[i]
    BY <1>14
  <2>2. code[p].op = "Call" => code[p].to \in entries
    BY <1>1, <1>16
  <2>3. Whole(program, code, i, c[i]) /\ Within(c[i], sh)
    BY <1>7, <1>13
  <2> QED
    BY <1>15, <2>1, <2>2, <2>3, WholeIsClosed DEF entries, n
<1>18. Closed(code, sh, entries, last)
  BY <1>15, <1>16, <1>17 DEF Closed
<1>19. Verified(code, shape, entries)
  BY <1>1, <1>18, InferredVerifies DEF last
<1>20. DOMAIN shape = DOMAIN sh /\ \A p \in DOMAIN sh : shape[p] = sh[p]
  BY <1>3, <1>18, InferredAgrees
<1> HIDE DEF shape
<1>21. ASSUME NEW p \in start(k) .. end(k)
       PROVE  /\ p \in DOMAIN shape <=> p \in DOMAIN f
              /\ p \in DOMAIN f => shape[p] = f[p]
  <2>1. k \in 1 .. n
    BY DEF n
  <2>2. ASSUME p \in DOMAIN sh PROVE p \in DOMAIN f
    <3>1. PICK i \in 1 .. n : p \in DOMAIN c[i]
      BY <1>14, <2>2
    <3>2. i = k
      BY <1>9, <1>11, <2>1, <3>1
    <3> QED
      BY <1>8, <3>1, <3>2
  <2>3. p \in DOMAIN f => p \in DOMAIN sh /\ sh[p] = f[p]
    BY <1>8, <1>13, <2>1 DEF Within
  <2> QED
    BY <1>20, <2>2, <2>3
<1> QED
  BY <1>19, <1>21 DEF shape, last, code, entries, start, end
-----------------------------------------------------------------------------
(* Functions, scripts and closures.                                        *)

\* Taking the captured variables.
LEMMA UpvarsFit ==
  ASSUME NEW F, NEW k \in 0 .. 1, NEW mode
  PROVE  Fits(F, [i \in 1 .. k |-> InitUpvar], 0, 0, mode)
<1>1. CASE k = 0
  <2>1. [i \in 1 .. k |-> InitUpvar] = <<>>
    BY <1>1
  <2> QED
    BY <2>1, EmptyFits, MayFits
<1>2. CASE k = 1
  <2>1. [i \in 1 .. k |-> InitUpvar] = <<InitUpvar>>
    BY <1>2
  <2>2. "Op" \in Straight /\ 0 - 0 + 0 = 0 /\ 0 <= 0
    BY OpIsStraight
  <2>3. Fits(F, <<InitUpvar>>, 0, 0, mode)
    BY <2>2, EffectFits DEF InitUpvar
  <2> QED
    BY <2>1, <2>3
<1> QED
  BY <1>1, <1>2

\* The code of a unit is that of its statements, between the captured variables and
\* the literal and the Return that end it.
LEMMA UnitIs ==
  ASSUME NEW S, NEW k \in 0 .. 1, NEW s \in Seq(S), [i \in 1 .. k |-> InitUpvar] \in Seq(S),
         PushLiteral \in S, Return \in S
  PROVE  /\ Unit(k, s) = ([i \in 1 .. k |-> InitUpvar] \o (s \o <<PushLiteral>>)) \o <<Return>>
         /\ k = 0 => Unit(k, s) = (s \o <<PushLiteral>>) \o <<Return>>
<1> DEFINE u == [i \in 1 .. k |-> InitUpvar]
           a == <<PushLiteral>>
           b == <<Return>>
           end == <<PushLiteral, Return>>
<1>1. u \in Seq(S) /\ s \in Seq(S) /\ a \in Seq(S) /\ b \in Seq(S) /\ s \o a \in Seq(S)
  <2>1. a \in Seq(S) /\ b \in Seq(S)
    OBVIOUS
  <2> HIDE DEF u, a, b
  <2> QED
    BY <2>1 DEF u
<1>2. end = a \o b
  BY PairIs
<1>3. Unit(k, s) = (u \o s) \o end
  BY DEF Unit
<1>4. k = 0 => u = <<>>
  OBVIOUS
<1> HIDE DEF u, a, b, end
<1>5. u \o s \in Seq(S)
  BY ONLY <1>1
<1>6. (u \o s) \o (a \o b) = ((u \o s) \o a) \o b
  BY ONLY <1>1, <1>5, SMTT(30)
<1>7. (u \o s) \o a = u \o (s \o a)
  BY ONLY <1>1, SMTT(30)
<1>8. Unit(k, s) = (u \o (s \o a)) \o b
  BY ONLY <1>2, <1>3, <1>6, <1>7, Zenon
<1>9. <<>> \o (s \o a) = s \o a
  BY ONLY <1>1, SMTT(30)
<1>10. k = 0 => Unit(k, s) = (s \o a) \o b
  BY ONLY <1>4, <1>8, <1>9, Zenon
<1> QED
  BY <1>8, <1>10 DEF u, a, b

\* A literal in the place of statements' value: what statements leave is left for it.
LEMMA LiteralFits ==
  ASSUME NEW F
  PROVE  /\ Fits(F, <<PushLiteral>>, 0, 1, "may") /\ <<PushLiteral>> \in Seq(Ins(F))
         /\ PushLiteral \in Ins(F)
<1> DEFINE l == <<PushLiteral>>
<1>1. Fits(F, l, 0, 1, "may")
  BY PushFits
<1>2. l \in Seq(Ins(F))
  BY <1>1 DEF Fits
<1>3. Len(l) = 1 /\ l[1] = PushLiteral
  OBVIOUS
<1> HIDE DEF l
<1>4. l[1] \in Ins(F)
  BY <1>2, <1>3
<1> QED
  BY <1>1, <1>2, <1>3, <1>4 DEF l

\* Statements make a unit.
LEMMA StatementsMakeUnit ==
  ASSUME NEW F, NEW k \in 0 .. 1, NEW s, Fits(F, s, 0, 0, "may")
  PROVE  IsUnit(F, Unit(k, s)) /\ Unit(k, s) \in Seq(Ins(F))
<1> DEFINE u == [i \in 1 .. k |-> InitUpvar]
           body == u \o (s \o <<PushLiteral>>)
<1>1. Fits(F, u, 0, 0, "may")
  BY UpvarsFit
<1>2. Fits(F, s \o <<PushLiteral>>, 0, 1, "may")
  BY LiteralFits, SequenceFits
<1> HIDE DEF u
<1>3. Fits(F, body, 0, 1, "may")
  BY <1>1, <1>2, SequenceFits
<1>4. u \in Seq(Ins(F)) /\ s \in Seq(Ins(F)) /\ PushLiteral \in Ins(F) /\ Return \in Ins(F)
  BY <1>1, LiteralFits, LeaveFacts DEF Fits
<1>5. Unit(k, s) = body \o <<Return>>
  BY <1>4, UnitIs DEF u
<1> HIDE DEF body
<1> QED
  BY <1>3, <1>5, UnitFacts DEF IsUnit

\* So does an expression.
LEMMA ExpressionMakesUnit ==
  ASSUME NEW F, NEW e, Fits(F, e, 0, 1, "ends")
  PROVE  IsUnit(F, e \o <<Return>>) /\ e \o <<Return>> \in Seq(Ins(F))
<1>1. Fits(F, e, 0, 1, "may")
  BY MayFits
<1> QED
  BY <1>1, UnitFacts DEF IsUnit

\* What a Return finds at the end of a unit.
OneValue == [Entry EXCEPT !.values = 1]

\* u is the code and a Return.
Returns(code, u) == u = code \o <<Return>>

\* The shapes of an expression in the place of a unit.
LEMMA ExpressionIsWhole ==
  ASSUME NEW F, NEW program, NEW text, NEW k, NEW e, Fits(F, e, 0, 1, "ends"),
         Returns(e, program[k]), StartOf(program, k) \in Nat,
         Placed(text, StartOf(program, k), program[k])
  PROVE  \E f : /\ Whole(program, text, k, f)
                /\ StartOf(program, k) + Len(e) \in DOMAIN f
                /\ f[StartOf(program, k) + Len(e)] = OneValue
<1> DEFINE x == StartOf(program, k)
           u == program[k]
           one == OneValue
<1>1. Fits(F, e, 0, 1, "may")
  BY MayFits
<1>2. x \in Nat /\ Placed(text, x, e \o <<Return>>) /\ u = e \o <<Return>>
  BY DEF Returns
<1>3. Entry \in Shapes /\ Ready(Entry, 0) /\ Leaving(Entry, 0, 1) = one
  BY EntryFacts DEF OneValue
<1> HIDE DEF x, u, one
<1>4. /\ Placed(text, x, e)
      /\ text[x + Len(e)].op = "Return" /\ text[x + Len(e)].needs = 1
      /\ ~ text[x + Len(e)].fails
  BY <1>1, <1>2, UnitPlaced
<1>5. Len(e) \in Nat /\ Len(u) = Len(e) + 1
  BY <1>1, <1>2, UnitFacts
<1>6. PICK f : Covers(text, x, x + Len(e), f, Entry, Leaving(Entry, 0, 1), "ends")
  BY <1>2, <1>3, <1>4 DEF Fits
<1>7. /\ Covers(text, x, x + Len(e), f, Entry, one, "may")
      /\ x + Len(e) \in DOMAIN f /\ f[x + Len(e)] = one
  BY <1>3, <1>6 DEF Covers
<1>8. x + Len(u) - 1 = x + Len(e)
  BY <1>2, <1>5
<1>9. Whole(program, text, k, f)
  BY <1>4, <1>7, <1>8 DEF Whole, x, u, one, OneValue
<1> QED
  BY <1>7, <1>9 DEF x, one

\* The shapes of statements: they leave nothing for the literal after them.
LEMMA StatementsAreWhole ==
  ASSUME NEW F, NEW program, NEW text, NEW k, NEW s, Fits(F, s, 0, 0, "may"),
         program[k] = Unit(0, s), StartOf(program, k) \in Nat,
         Placed(text, StartOf(program, k), program[k])
  PROVE  \E f : /\ Whole(program, text, k, f)
                /\ StartOf(program, k) + Len(s) \in DOMAIN f =>
                     f[StartOf(program, k) + Len(s)] = Entry
<1> DEFINE S == Ins(F)
           x == StartOf(program, k)
           u == program[k]
           l == <<PushLiteral>>
           one == [Entry EXCEPT !.values = 1]
           y == x + Len(s)
<1>1. s \in Seq(S) /\ Len(s) \in Nat
  BY DEF Fits
<1>2. Fits(F, l, 0, 1, "may") /\ l \in Seq(S)
  BY LiteralFits
<1>3. u = (s \o l) \o <<Return>>
  <2>1. [i \in 1 .. 0 |-> InitUpvar] \in Seq(S)
    OBVIOUS
  <2>2. PushLiteral \in S /\ Return \in S /\ 0 \in 0 .. 1
    BY LiteralFits, LeaveFacts
  <2> QED
    BY <1>1, <2>1, <2>2, UnitIs
<1>4. Fits(F, s \o l, 0, 1, "may")
  BY <1>2, SequenceFits
<1>5. x \in Nat /\ Placed(text, x, u)
  OBVIOUS
<1>6. /\ Entry \in Shapes /\ Ready(Entry, 0) /\ Leaving(Entry, 0, 0) = Entry
      /\ Leaving(Entry, 0, 1) = one
  BY EntryFacts
<1>7. Len(l) = 1
  OBVIOUS
<1> HIDE DEF x, u, l, one
<1>8. /\ Placed(text, x, s \o l)
      /\ text[x + Len(s \o l)].op = "Return" /\ text[x + Len(s \o l)].needs = 1
      /\ ~ text[x + Len(s \o l)].fails
  BY <1>3, <1>4, <1>5, UnitPlaced
<1>9. Placed(text, x, s) /\ Placed(text, y, l)
  BY <1>1, <1>2, <1>5, <1>8, PlacedConcat
<1>10. /\ Len(s \o l) = Len(s) + 1 /\ Len(u) = Len(s \o l) + 1
  <2>1. Len(s \o l) = Len(s) + 1
    BY <1>1, <1>2, <1>7, ConcatFacts
  <2>2. Len(u) = Len(s \o l) + 1
    BY <1>3, <1>4, UnitFacts
  <2> QED
    BY <2>1, <2>2
<1>11. /\ y \in Nat /\ y + 1 \in Nat /\ x <= y /\ y < y + 1
       /\ x + Len(s \o l) = y + 1 /\ x + Len(u) - 1 = y + 1
  BY <1>1, <1>5, <1>10
<1> HIDE DEF y
<1>12. PICK f : Covers(text, x, y, f, Entry, Entry, "may")
  <2>1. PICK f : Covers(text, x, x + Len(s), f, Entry, Leaving(Entry, 0, 0), "may")
    BY <1>5, <1>6, <1>9 DEF Fits
  <2> QED
    BY <1>6, <2>1 DEF y
<1>13. PICK g : Covers(text, y, y + 1, g, Entry, one, "may")
  <2>1. PICK g : Covers(text, y, y + Len(l), g, Entry, Leaving(Entry, 0, 1), "may")
    BY <1>2, <1>6, <1>9, <1>11 DEF Fits
  <2> QED
    BY <1>6, <1>7, <2>1
<1>14. PICK h : /\ Covers(text, x, y + 1, h, Entry, one, "may")
                /\ y \in DOMAIN f => y \in DOMAIN h /\ h[y] = Entry
                /\ y \in DOMAIN h /\ y < y + 1 => y \in DOMAIN f
  BY <1>5, <1>11, <1>12, <1>13, CoversJoin
<1>15. y \in DOMAIN h => h[y] = Entry
  BY <1>11, <1>14
<1>16. Whole(program, text, k, h)
  BY <1>8, <1>11, <1>14 DEF Whole, x, u, one
<1> QED
  BY <1>15, <1>16 DEF x, y
-----------------------------------------------------------------------------
(* Programs.                                                               *)

\* What the constructs preserve, whichever the compiler nests in which: the
\* expression leaves a value and its end is reached, and the statements leave nothing;
\* the units call units of the program.
Functions == 1 .. MaxUnits

ProgramFits ==
  /\ Fits(Functions, expr, 0, 1, "ends")
  /\ Fits(Functions, stmts, 0, 0, "may")
  /\ units \in Seq(Seq(Ins(Functions))) /\ Len(units) < MaxUnits
  /\ \A i \in 1 .. Len(units) : IsUnit(Functions, units[i])

\* The programs that the model starts with, a literal and no statement.
LEMMA InitFits == Init => ProgramFits
<1>1. Fits(Functions, Value, 0, 1, "ends")
  BY AtomsFit
<1>2. Fits(Functions, <<>>, 0, 0, "ends")
  BY EmptyFits
<1>3. Fits(Functions, <<>>, 0, 0, "may")
  BY <1>2, MayFits
<1>4. <<>> \in Seq(Seq(Ins(Functions))) /\ Len(<<>>) = 0 /\ 1 .. 0 = {}
  OBVIOUS
<1>5. 0 < MaxUnits
  BY SizeAssumption
<1> QED
  BY <1>1, <1>3, <1>4, <1>5 DEF Init, ProgramFits

\* A program that grows by an expression, or by statements, that fit.
LEMMA GrowsFitting ==
  ASSUME ProgramFits
  PROVE  /\ \A code : Fits(Functions, code, 0, 1, "ends") /\ AppendExpr(code) => ProgramFits'
         /\ \A code : Fits(Functions, code, 0, 0, "may") /\ AppendStmt(code) => ProgramFits'
         /\ \A code : Fits(Functions, code, 0, 0, "ends") /\ AppendStmt(code) => ProgramFits'
         /\ \A code : Fits(Functions, code, 0, 0, "ends") /\ AppendStmt(stmts \o code) => ProgramFits'
         /\ \A code : Fits(Functions, code, 0, 0, "may") /\ AppendStmt(stmts \o code) => ProgramFits'
<1>1. ASSUME NEW code, Fits(Functions, code, 0, 1, "ends"), AppendExpr(code)
      PROVE  ProgramFits'
  BY <1>1 DEF AppendExpr, ProgramFits, Functions
<1>2. ASSUME NEW code, Fits(Functions, code, 0, 0, "may"), AppendStmt(code)
      PROVE  ProgramFits'
  BY <1>2 DEF AppendStmt, ProgramFits, Functions
<1>3. ASSUME NEW code, Fits(Functions, code, 0, 0, "ends") PROVE Fits(Functions, code, 0, 0, "may")
  BY <1>3, MayFits
<1>4. ASSUME NEW code, Fits(Functions, code, 0, 0, "may")
      PROVE  Fits(Functions, stmts \o code, 0, 0, "may")
  BY <1>4, SequenceFits DEF ProgramFits
<1> QED
  BY <1>1, <1>2, <1>3, <1>4

\* The statements that become a unit.
LEMMA UnitGrowsFitting == ProgramFits /\ AppendUnit => ProgramFits'
<1> SUFFICES ASSUME ProgramFits, AppendUnit PROVE ProgramFits'
  OBVIOUS
<1> DEFINE S == Seq(Ins(Functions))
           n == Len(units)
<1>1. PICK k \in 0 .. 1 : units' = Append(units, Unit(k, stmts))
  BY DEF AppendUnit
<1> DEFINE u == Unit(k, stmts)
<1>2. IsUnit(Functions, u) /\ u \in S
  BY StatementsMakeUnit DEF ProgramFits
<1>3. /\ units \in Seq(S) /\ n + 1 < MaxUnits /\ stmts' = <<>> /\ expr' = expr
      /\ \A i \in 1 .. n : IsUnit(Functions, units[i])
  BY DEF AppendUnit, ProgramFits
<1> HIDE DEF u, S
<1>4. /\ units' \in Seq(S) /\ Len(units') = n + 1 /\ units'[n + 1] = u
      /\ \A i \in 1 .. n : units'[i] = units[i]
  BY <1>1, <1>2, <1>3 DEF u
<1>5. \A i \in 1 .. n + 1 : i \in 1 .. n \/ i = n + 1
  OBVIOUS
<1>6. \A i \in 1 .. Len(units') : IsUnit(Functions, units'[i])
  BY <1>2, <1>3, <1>4, <1>5
<1>7. Fits(Functions, <<>>, 0, 0, "may")
  BY EmptyFits, MayFits
<1>8. Fits(Functions, expr, 0, 1, "ends")
  BY DEF ProgramFits
<1> HIDE DEF n
<1> QED
  BY <1>3, <1>4, <1>6, <1>7, <1>8 DEF ProgramFits, Functions, S

\* Each construct of the compiler, put around the program or added to it.
LEMMA NextFits == ProgramFits /\ [Next]_vars => ProgramFits'
<1> SUFFICES ASSUME ProgramFits, [Next]_vars PROVE ProgramFits'
  OBVIOUS
<1>e. Fits(Functions, expr, 0, 1, "ends") /\ Fits(Functions, stmts, 0, 0, "may")
  BY DEF ProgramFits
<1>a. /\ Fits(Functions, Value, 0, 1, "ends") /\ Fits(Functions, Variable, 0, 1, "ends")
      /\ Fits(Functions, Closure, 0, 1, "ends")
  BY AtomsFit
<1>o. ASSUME NEW a, Fits(Functions, a, 0, 1, "ends")
      PROVE  /\ Fits(Functions, Action(<<a>>), 0, 0, "ends")
             /\ Fits(Functions, Action(<<a>>), 0, 0, "may")
             /\ Fits(Functions, SystemCommand(<<a>>), 0, 0, "ends")
             /\ Fits(Functions, Declare(1), 0, 0, "ends")
             /\ Fits(Functions, Run(a), 0, 0, "ends") /\ Fits(Functions, Run(a), 0, 0, "may")
             /\ Fits(Functions, Wait(a), 0, 0, "ends") /\ Fits(Functions, Reply(a), 0, 0, "ends")
  <2>1. /\ Fits(Functions, Action(<<a>>), 0, 0, "ends") /\ Fits(Functions, SystemCommand(<<a>>), 0, 0, "ends")
        /\ Fits(Functions, Declare(1), 0, 0, "ends") /\ Fits(Functions, Run(a), 0, 0, "ends")
        /\ Fits(Functions, Wait(a), 0, 0, "ends") /\ Fits(Functions, Reply(a), 0, 0, "ends")
    BY <1>o, ActionsFit
  <2>2. Fits(Functions, Action(<<a>>), 0, 0, "may") /\ Fits(Functions, Run(a), 0, 0, "may")
    BY <2>1, MayFits
  <2> QED
    BY <2>1, <2>2
<1>1. CASE Operands
  <2>1. Fits(Functions, Operation(<<expr, Value>>), 0, 1, "ends") /\ Fits(Functions, CloneOf(expr), 0, 1, "ends")
    BY <1>e, <1>a, OperationFits
  <2> QED
    BY <1>1, <1>a, <2>1, GrowsFitting DEF Operands
<1>2. CASE Conditionals
  <2>1. /\ Fits(Functions, Conditional(Variable, expr, Value), 0, 1, "ends")
        /\ Fits(Functions, Conditional(expr, Value, expr), 0, 1, "ends")
    BY <1>e, <1>a, ConditionalFits
  <2>2. /\ Fits(Functions, ShortCircuit(expr, Variable), 0, 1, "ends")
        /\ Fits(Functions, ShortCircuit(Variable, expr), 0, 1, "ends")
    BY <1>e, <1>a, ShortCircuitFits
  <2> QED
    BY <1>2, <2>1, <2>2, GrowsFitting DEF Conditionals
<1>3. CASE Calls
  <2>1. \A upvars \in 0 .. 1, function \in 1 .. MaxUnits :
          Fits(Functions, CallFn(upvars, <<expr, Value>>, function), 0, 1, "ends")
    <3>1. \A function \in 1 .. MaxUnits : function \in Nat /\ function \in Functions
      BY DEF Functions
    <3> QED
      BY <1>e, <1>a, <3>1, CallFnFits
  <2>2. /\ Fits(Functions, CallTheClosure(Closure, <<expr>>), 0, 1, "ends")
        /\ Fits(Functions, CallForEntity(Variable, Closure, <<expr>>), 0, 1, "ends")
    BY <1>e, <1>a, ClosureCallsFit
  <2>3. \A soft \in BOOLEAN : Fits(Functions, Rpc(<<expr>>, soft), 0, 1, "ends")
    BY <1>e, <1>a, RequestsFit
  <2>4. /\ Fits(Functions, Syscall(expr, <<Value>>, FALSE), 0, 1, "ends")
        /\ Fits(Functions, NetworkMessageReply(<<expr>>, Value), 0, 1, "ends")
    BY <1>e, <1>a, RequestsFit
  <2> QED
    BY <1>3, <2>1, <2>2, <2>3, <2>4, GrowsFitting DEF Calls
<1>4. CASE ListLoops
  <2>1. Fits(Functions, Map(Closure, expr), 0, 1, "ends") /\ Fits(Functions, Map(expr, Variable), 0, 1, "ends")
    BY <1>e, <1>a, MapFits
  <2>2. Fits(Functions, Keep(Closure, expr), 0, 1, "ends") /\ Fits(Functions, Keep(expr, Variable), 0, 1, "ends")
    BY <1>e, <1>a, KeepFits
  <2>3. /\ Fits(Functions, FindFirst(Closure, expr), 0, 1, "ends")
        /\ Fits(Functions, FindFirst(expr, Variable), 0, 1, "ends")
    BY <1>e, <1>a, FindFirstFits
  <2>4. /\ Fits(Functions, Combine(expr, Closure), 0, 1, "ends")
        /\ Fits(Functions, Combine(Variable, expr), 0, 1, "ends")
    BY <1>e, <1>a, CombineFits
  <2> QED
    BY <1>4, <2>1, <2>2, <2>3, <2>4, GrowsFitting DEF ListLoops
<1>5. CASE Actions
  <2>1. Fits(Functions, SayFor(expr, Value), 0, 0, "ends")
    BY <1>e, <1>a, SayForFits
  <2>2. Fits(Functions, SendMessage(<<Value>>, expr), 0, 0, "ends")
    BY <1>e, <1>a, RequestsFit
  <2>3. \A wait \in BOOLEAN : Fits(Functions, SendTo(Value, <<expr>>, wait), 0, 0, "ends")
    BY <1>e, <1>a, RequestsFit
  <2>4. Fits(Functions, Fork(Closure, <<expr>>), 0, 0, "ends")
    BY <1>e, <1>a, ClosureCallsFit
  <2>5. /\ Fits(Functions, Action(<<expr>>), 0, 0, "ends")
        /\ Fits(Functions, SystemCommand(<<expr>>), 0, 0, "ends")
        /\ Fits(Functions, Declare(1), 0, 0, "ends") /\ Fits(Functions, Run(expr), 0, 0, "ends")
        /\ Fits(Functions, Wait(expr), 0, 0, "ends") /\ Fits(Functions, Reply(expr), 0, 0, "ends")
    BY <1>e, <1>o
  <2> QED
    BY <1>5, <2>1, <2>2, <2>3, <2>4, <2>5, GrowsFitting DEF Actions
<1>6. CASE Leaves
  <2>1. Fits(Functions, Report(expr), 0, 0, "may") /\ Fits(Functions, ThrowValue(expr), 0, 0, "may")
    BY <1>e, LeavesFit
  <2> QED
    BY <1>6, <2>1, GrowsFitting DEF Leaves
<1>7. CASE Blocks
  <2>1. Fits(Functions, Warp(stmts), 0, 0, "may")
    <3>1. 0 \in Nat
      OBVIOUS
    <3> QED
      BY <1>e, <3>1, WarpFits DEF Warp
  <2>2. Fits(Functions, If(expr, stmts), 0, 0, "may")
    BY <1>e, IfFits
  <2>3. /\ Fits(Functions, IfElse(expr, stmts, Action(<<Value>>)), 0, 0, "may")
        /\ Fits(Functions, IfElse(Variable, Run(expr), stmts), 0, 0, "may")
    BY <1>e, <1>a, <1>o, ConditionalFits DEF IfElse
  <2>4. /\ Fits(Functions, TryCatch(stmts, Action(<<expr>>)), 0, 0, "may")
        /\ Fits(Functions, TryCatch(Run(expr), stmts), 0, 0, "may")
    BY <1>e, <1>o, TryCatchFits
  <2> QED
    BY <1>7, <2>1, <2>2, <2>3, <2>4, GrowsFitting DEF Blocks
<1>8. CASE Loops
  <2>1. Fits(Functions, InfLoop(stmts), 0, 0, "may")
    BY <1>e, InfLoopFits
  <2>2. Fits(Functions, WaitUntil(expr), 0, 0, "ends")
    BY <1>e, WaitUntilFits
  <2>3. Fits(Functions, UntilLoop(expr, stmts), 0, 0, "ends")
    BY <1>e, UntilFits
  <2>4. Fits(Functions, Repeat(expr, stmts), 0, 0, "ends")
    BY <1>e, RepeatFits
  <2>5. /\ Fits(Functions, ForLoop(expr, Value, stmts), 0, 0, "ends")
        /\ Fits(Functions, ForLoop(Value, expr, stmts), 0, 0, "ends")
    BY <1>e, <1>a, ForFits
  <2>6. Fits(Functions, ForeachLoop(expr, stmts), 0, 0, "ends")
    BY <1>e, ForeachFits
  <2> QED
    BY <1>8, <2>1, <2>2, <2>3, <2>4, <2>5, <2>6, GrowsFitting DEF Loops
<1>9. CASE AppendUnit
  BY <1>9, UnitGrowsFitting
<1>10. CASE UNCHANGED vars
  BY <1>10 DEF vars, ProgramFits, Functions
<1> QED
  BY <1>1, <1>2, <1>3, <1>4, <1>5, <1>6, <1>7, <1>8, <1>9, <1>10 DEF Next

\* The program with a unit in the place of the current one.
LEMMA ProgramFacts ==
  ASSUME ProgramFits, NEW u, IsUnit(Functions, u), u \in Seq(Ins(Functions))
  PROVE  LET program == Program(u)
             k == Len(units) + 1
         IN /\ Len(program) = MaxUnits /\ program \in Seq(Seq(Ins(1 .. Len(program))))
            /\ \A i \in 1 .. Len(program) : IsUnit(1 .. Len(program), program[i])
            /\ k \in 1 .. Len(program) /\ program[k] = u
            /\ Entries(program) = StartsOf(program)
<1> DEFINE S == Seq(Ins(Functions))
           program == Program(u)
           n == Len(units)
           none == Unit(0, <<>>)
<1>1. IsUnit(Functions, none) /\ none \in S
  <2>1. Fits(Functions, <<>>, 0, 0, "may") /\ 0 \in 0 .. 1
    BY EmptyFits, MayFits
  <2> QED
    BY <2>1, StatementsMakeUnit
<1>2. MaxUnits \in Nat /\ n \in Nat /\ n < MaxUnits
  BY SizeAssumption DEF ProgramFits
<1>3. \A i \in 1 .. n : IsUnit(Functions, units[i]) /\ units[i] \in S
  BY DEF ProgramFits
<1> HIDE DEF none, S, n
<1>4. program = [i \in 1 .. MaxUnits |-> CASE i <= n     -> units[i]
                                           [] i = n + 1  -> u
                                           [] i > n + 1  -> none]
  BY DEF Program, n, none
<1> HIDE DEF program
<1>5. ASSUME NEW i \in 1 .. MaxUnits
      PROVE  IsUnit(Functions, program[i]) /\ program[i] \in S
  <2>1. \/ i \in 1 .. n /\ i <= n
        \/ i = n + 1 /\ ~ (i <= n)
        \/ i > n + 1 /\ ~ (i <= n) /\ i # n + 1
    BY <1>2
  <2>2. /\ i <= n => program[i] = units[i]
        /\ ~ (i <= n) /\ i = n + 1 => program[i] = u
        /\ ~ (i <= n) /\ i # n + 1 /\ i > n + 1 => program[i] = none
    BY <1>2, <1>4
  <2>3. u \in S
    BY DEF S
  <2> QED
    BY <1>1, <1>3, <2>1, <2>2, <2>3
<1>6. n + 1 \in 1 .. MaxUnits /\ ~ (n + 1 <= n)
  BY <1>2
<1>7. program[n + 1] = u
  BY <1>4, <1>6
<1>8. program \in Seq(S) /\ Len(program) = MaxUnits
  <2>1. program \in [1 .. MaxUnits -> S]
    BY <1>4, <1>5
  <2> QED
    BY <1>2, <2>1
<1>9. Entries(program) = StartsOf(program)
  BY <1>8 DEF Entries, StartsOf
<1> QED
  BY <1>5, <1>6, <1>7, <1>8, <1>9 DEF S, program, n, Functions

\* The program verifies with any unit in that place, and with any shapes of it.
LEMMA UnitVerifies ==
  ASSUME ProgramFits, NEW u, IsUnit(Functions, u), u \in Seq(Ins(Functions)),
         NEW f, Whole(Program(u), Linked(Program(u)), Len(units) + 1, f)
  PROVE  /\ Verifies(Program(u))
         /\ \A d \in 0 .. Len(u) - 1 :
              LET p == Here(Program(u)) + d
              IN /\ p \in DOMAIN ShapeOf(Program(u)) <=> p \in DOMAIN f
                 /\ p \in DOMAIN f => ShapeOf(Program(u))[p] = f[p]
<1> DEFINE program == Program(u)
           k == Len(units) + 1
           x == Here(program)
           code == Linked(program)
           shape == Inferred(code, StartsOf(program), 1, Len(code))
<1>1. /\ program \in Seq(Seq(Ins(1 .. Len(program))))
      /\ \A i \in 1 .. Len(program) : IsUnit(1 .. Len(program), program[i])
      /\ k \in 1 .. Len(program) /\ program[k] = u
      /\ Entries(program) = StartsOf(program)
  BY ProgramFacts
<1>2. x = StartOf(program, k)
  BY DEF Here
<1>3. Whole(program, code, k, f)
  OBVIOUS
<1> HIDE DEF program, k, x
<1>4. /\ Verified(code, shape, StartsOf(program))
      /\ \A p \in x .. x + Len(u) - 1 :
           /\ p \in DOMAIN shape <=> p \in DOMAIN f
           /\ p \in DOMAIN f => shape[p] = f[p]
  BY <1>1, <1>2, <1>3, ProgramVerifies
<1>5. ShapeOf(program) = shape
  BY <1>1 DEF ShapeOf
<1>6. x \in Nat
  BY <1>1, <1>2, UnitsLie DEF Lies
<1>7. Len(u) \in Nat
  OBVIOUS
<1> HIDE DEF shape, code
<1>8. Verifies(program)
  BY <1>1, <1>4, <1>5 DEF Verifies, code
<1>9. ASSUME NEW d \in 0 .. Len(u) - 1
      PROVE  /\ x + d \in DOMAIN shape <=> x + d \in DOMAIN f
             /\ x + d \in DOMAIN f => shape[x + d] = f[x + d]
  <2>1. x + d \in x .. x + Len(u) - 1
    BY <1>6, <1>7
  <2> QED
    BY <1>4, <2>1
<1> QED
  BY <1>5, <1>8, <1>9 DEF program, x

\* Where the current unit is.
LEMMA HerePlaced ==
  ASSUME ProgramFits, NEW u, IsUnit(Functions, u), u \in Seq(Ins(Functions))
  PROVE  LET program == Program(u)
             k == Len(units) + 1
         IN /\ StartOf(program, k) \in Nat /\ program[k] = u
            /\ Linked(program) \in Seq(Instruction)
            /\ Placed(Linked(program), StartOf(program, k), program[k])
<1> DEFINE program == Program(u)
           k == Len(units) + 1
<1>1. /\ program \in Seq(Seq(Ins(1 .. Len(program)))) /\ k \in 1 .. Len(program)
      /\ program[k] = u
  BY ProgramFacts
<1> HIDE DEF program, k
<1>2. StartOf(program, k) \in Nat
  BY <1>1, UnitsLie DEF Lies
<1>3. Linked(program) \in Seq(Instruction) /\ Placed(Linked(program), StartOf(program, k), program[k])
  BY <1>1, LinkedFacts
<1> QED
  BY <1>1, <1>2, <1>3 DEF program, k

\* The program with the current statements as a unit.
LEMMA StatementsVerify ==
  ASSUME ProgramFits
  PROVE  /\ Linked(Script) \in Seq(Instruction)
         /\ CompiledCodeVerifies /\ StatementsLeaveNothing
<1> DEFINE u == Unit(0, stmts)
           k == Len(units) + 1
           shape == ShapeOf(Script)
           x == Here(Script)
<1>1. Fits(Functions, stmts, 0, 0, "may") /\ 0 \in 0 .. 1
  BY DEF ProgramFits
<1>2. IsUnit(Functions, u) /\ u \in Seq(Ins(Functions))
  BY <1>1, StatementsMakeUnit
<1>3. Script = Program(u)
  BY DEF Script
<1>4. Len(stmts) \in 0 .. Len(u) - 1
  <2>1. stmts \in Seq(Ins(Functions)) /\ PushLiteral \in Ins(Functions)
        /\ Return \in Ins(Functions)
    BY <1>1, LiteralFits, LeaveFacts DEF Fits
  <2>2. [i \in 1 .. 0 |-> InitUpvar] \in Seq(Ins(Functions))
    OBVIOUS
  <2>3. u = (stmts \o <<PushLiteral>>) \o <<Return>>
    BY <1>1, <2>1, <2>2, UnitIs
  <2>4. /\ stmts \o <<PushLiteral>> \in Seq(Ins(Functions))
        /\ Len(stmts \o <<PushLiteral>>) = Len(stmts) + 1
    BY <2>1, OneMore
  <2>5. Len(u) = Len(stmts \o <<PushLiteral>>) + 1
    BY <2>1, <2>3, <2>4, OneMore
  <2>6. Len(stmts) \in Nat
    BY <2>1
  <2> HIDE DEF u
  <2> QED
    BY <2>4, <2>5, <2>6
<1> HIDE DEF u
<1>5. /\ StartOf(Script, k) \in Nat /\ Script[k] = u /\ Linked(Script) \in Seq(Instruction)
      /\ Placed(Linked(Script), StartOf(Script, k), Script[k])
  BY <1>2, <1>3, HerePlaced
<1>6. PICK f : /\ Whole(Script, Linked(Script), k, f)
               /\ StartOf(Script, k) + Len(stmts) \in DOMAIN f =>
                    f[StartOf(Script, k) + Len(stmts)] = Entry
  BY <1>1, <1>5, StatementsAreWhole DEF u
<1>7. /\ Verifies(Script)
      /\ \A d \in 0 .. Len(u) - 1 : /\ x + d \in DOMAIN shape <=> x + d \in DOMAIN f
                                    /\ x + d \in DOMAIN f => shape[x + d] = f[x + d]
  BY <1>2, <1>3, <1>6, UnitVerifies
<1>8. x = StartOf(Script, k)
  BY DEF Here
<1> HIDE DEF x, shape, k
<1>9. x + Len(stmts) \in DOMAIN shape => shape[x + Len(stmts)] = Entry
  BY <1>4, <1>6, <1>7, <1>8
<1> QED
  BY <1>5, <1>7, <1>9 DEF CompiledCodeVerifies, StatementsLeaveNothing, x, shape

\* The program with the current expression as a unit.
LEMMA ExpressionVerifies ==
  ASSUME ProgramFits
  PROVE  ExpressionsLeaveOneValue
<1> DEFINE u == expr \o <<Return>>
           k == Len(units) + 1
           program == Program(u)
           shape == ShapeOf(program)
           x == Here(program)
           one == OneValue
<1>1. Fits(Functions, expr, 0, 1, "ends")
  BY DEF ProgramFits
<1>2. IsUnit(Functions, u) /\ u \in Seq(Ins(Functions))
  BY <1>1, ExpressionMakesUnit
<1>3. Len(expr) \in 0 .. Len(u) - 1
  <2>1. Fits(Functions, expr, 0, 1, "may")
    BY <1>1, MayFits
  <2>2. Len(expr) \in Nat /\ Len(u) = Len(expr) + 1
    BY <2>1, UnitFacts
  <2> HIDE DEF u
  <2> QED
    BY <2>2
<1>4. /\ StartOf(program, k) \in Nat /\ program[k] = u
      /\ Placed(Linked(program), StartOf(program, k), program[k])
  BY <1>2, HerePlaced
<1>5. PICK f : /\ Whole(program, Linked(program), k, f)
               /\ StartOf(program, k) + Len(expr) \in DOMAIN f
               /\ f[StartOf(program, k) + Len(expr)] = one
  <2>1. Returns(expr, program[k])
    BY <1>4 DEF Returns
  <2>2. StartOf(program, k) \in Nat /\ Placed(Linked(program), StartOf(program, k), program[k])
    BY <1>4
  <2> DEFINE text == Linked(program)
  <2> HIDE DEF program, k, u, text
  <2>3. Placed(text, StartOf(program, k), program[k])
    BY <2>2 DEF text
  <2>4. \E f : /\ Whole(program, text, k, f)
               /\ StartOf(program, k) + Len(expr) \in DOMAIN f
               /\ f[StartOf(program, k) + Len(expr)] = one
    BY <1>1, <2>1, <2>2, <2>3, ExpressionIsWhole
  <2> QED
    BY <2>4 DEF text
<1>6. /\ Verifies(program)
      /\ \A d \in 0 .. Len(u) - 1 : /\ x + d \in DOMAIN shape <=> x + d \in DOMAIN f
                                    /\ x + d \in DOMAIN f => shape[x + d] = f[x + d]
  <2> HIDE DEF u
  <2> QED
    BY <1>2, <1>5, UnitVerifies
<1>7. x = StartOf(program, k)
  BY DEF Here
<1> HIDE DEF x, shape, k, program, u, one
<1>8. x + Len(expr) \in DOMAIN shape /\ shape[x + Len(expr)] = one
  BY <1>3, <1>5, <1>6, <1>7
<1> QED
  BY <1>6, <1>8 DEF ExpressionsLeaveOneValue, OneValue, x, shape, program, u, one

\* Every program of the compiler is of parts that fit, whatever is nested in
\* whatever and however deep (ByteCodeBuilder::append_expr and append_stmt).
THEOREM ProgramsFit == Spec => []ProgramFits
<1> QED
  BY InitFits, NextFits, PTL DEF Spec

\* The code of a program verifies, for any number of units and whichever calls which:
\* all ways to an instruction leave it the same stacks, and no instruction and no
\* error takes what is not there.
THEOREM ProgramsVerify == Spec => []CompiledCodeVerifies
<1>1. ProgramFits => CompiledCodeVerifies
  BY StatementsVerify
<1> QED
  BY <1>1, ProgramsFit, PTL

\* A construct leaves the stacks as those around it count on, for every program:
\* statements nothing, and an expression exactly its value.
THEOREM ProgramsLeaveTheirResult == Spec => []NestedCodeLeavesItsResult
<1>1. ProgramFits => NestedCodeLeavesItsResult
  BY StatementsVerify, ExpressionVerifies DEF NestedCodeLeavesItsResult
<1> QED
  BY <1>1, ProgramsFit, PTL

\* The linked code of every program consists of instructions that the interpreter has,
\* and there are shapes by which it verifies, with the starts of all its units for
\* entries: what Process and CodeShape assume of the code that is run.
THEOREM ScriptsAreVerifiedCode ==
  Spec => [](/\ Linked(Script) \in Seq(Instruction)
             /\ \E shape : Verified(Linked(Script), shape, Entries(Script)))
<1>1. ProgramFits => /\ Linked(Script) \in Seq(Instruction)
                     /\ \E shape : Verified(Linked(Script), shape, Entries(Script))
  BY StatementsVerify DEF CompiledCodeVerifies, Verifies
<1> QED
  BY <1>1, ProgramsFit, PTL
=============================================================================
