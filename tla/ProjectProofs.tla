---------------------------- MODULE ProjectProofs ----------------------------
(***************************************************************************)
(* Safety of the scheduler for any number of scripts, keys and entities.   *)
(* Each operation on scripts has a lemma that says what it keeps of        *)
(* Good(s, out): a state s in which every live process, except those of    *)
(* `out`, has one place in the queue.  Within a call `out` holds the       *)
(* process whose turn it is; between calls it is empty.  The lemmas also   *)
(* say what becomes of a single script, from which it follows at the end   *)
(* that the scheduler implements module Inboxes.                           *)
(***************************************************************************)
EXTENDS Project, FiniteSetTheorems, SequenceTheorems, TLAPS

-----------------------------------------------------------------------------
(* Indices in order.                                                       *)

\* A larger member has a larger rank; ranks run up to the size of the set.
LEMMA RankProperties ==
  ASSUME NEW R \in SUBSET Nat, IsFiniteSet(R), NEW i \in R
  PROVE  /\ Rank(R, i) \in 1 .. Cardinality(R)
         /\ \A j \in R : i < j => Rank(R, i) < Rank(R, j)
<1> DEFINE Below(k) == {m \in R : m < k}
<1>1. ASSUME NEW k \in R
      PROVE  IsFiniteSet(Below(k)) /\ Cardinality(Below(k)) \in Nat
  BY FS_Subset, FS_CardinalityType, Below(k) \in SUBSET R
<1>2. Cardinality(R) \in Nat
  BY FS_CardinalityType
<1>3. /\ IsFiniteSet(Below(i) \union {i})
      /\ Cardinality(Below(i) \union {i}) = Cardinality(Below(i)) + 1
  BY <1>1, FS_AddElement, i \notin Below(i)
<1>4. Cardinality(Below(i) \union {i}) <= Cardinality(R)
  BY FS_Subset, Below(i) \union {i} \in SUBSET R
<1>5. ASSUME NEW j \in R, i < j
      PROVE  Cardinality(Below(i) \union {i}) <= Cardinality(Below(j))
  <2>1. /\ i \in Nat /\ j \in Nat
        /\ \A m \in R : m \in Nat
    OBVIOUS
  <2>2. \A m \in R : m < i => m < j
    BY <2>1, <1>5
  <2>3. Below(i) \union {i} \in SUBSET Below(j)
    BY <2>2, <1>5
  <2> QED
    BY <2>3, <1>1, FS_Subset
<1>6. \A k \in R : Rank(R, k) = Cardinality(Below(k)) + 1
  BY DEF Rank
<1> HIDE DEF Below
<1>7. Rank(R, i) \in 1 .. Cardinality(R)
  BY <1>1, <1>2, <1>3, <1>4, <1>6
<1>8. ASSUME NEW j \in R, i < j
      PROVE  Rank(R, i) < Rank(R, j)
  <2>1. /\ Cardinality(Below(i)) \in Nat /\ Cardinality(Below(j)) \in Nat
        /\ Cardinality(Below(i)) + 1 <= Cardinality(Below(j))
    BY <1>1, <1>3, <1>5, <1>8
  <2> QED
    BY <1>6, <2>1
<1> QED
  BY <1>7, <1>8

\* Every rank up to the size of the set is somebody's.
LEMMA RankIsOnto ==
  ASSUME NEW R \in SUBSET Nat, IsFiniteSet(R), NEW n \in 1 .. Cardinality(R)
  PROVE  \E i \in R : Rank(R, i) = n
<1> DEFINE f == [i \in R |-> Rank(R, i)]
           T == 1 .. Cardinality(R)
<1>1. Cardinality(R) \in Nat
  BY FS_CardinalityType
<1>2. IsFiniteSet(T) /\ Cardinality(T) = Cardinality(R)
  BY <1>1, FS_Interval
<1>3. f \in [R -> T]
  BY RankProperties
<1>4. ASSUME NEW i \in R, NEW j \in R, f[i] = f[j]
      PROVE  i = j
  <2>1. /\ i < j => Rank(R, i) < Rank(R, j)
        /\ j < i => Rank(R, j) < Rank(R, i)
        /\ Rank(R, i) \in Nat /\ Rank(R, j) \in Nat
    BY RankProperties, <1>1
  <2> QED
    BY <1>4, <2>1
<1>5. f \in Injection(R, T)
  BY <1>3, <1>4 DEF Injection, IsInjective
<1>6. f \in Surjection(R, T)
  BY <1>2, <1>5, FS_Injection
<1> QED
  BY <1>6 DEF Surjection

\* InOrder(R) enumerates R in increasing order.
THEOREM InOrderProperties ==
  ASSUME NEW R \in SUBSET Nat, IsFiniteSet(R)
  PROVE  /\ Cardinality(R) \in Nat
         /\ InOrder(R) \in [1 .. Cardinality(R) -> R]
         /\ \A a, b \in 1 .. Cardinality(R) :
              a < b => InOrder(R)[a] < InOrder(R)[b]
         /\ \A i \in R : \E a \in 1 .. Cardinality(R) : InOrder(R)[a] = i
<1> DEFINE N == Cardinality(R)
           q == InOrder(R)
<1>1. N \in Nat
  BY FS_CardinalityType
<1>2. \A n \in 1 .. N : q[n] \in R /\ Rank(R, q[n]) = n
  BY RankIsOnto DEF InOrder
<1>3. q \in [1 .. N -> R]
  BY <1>2 DEF InOrder
<1> HIDE DEF N, q
<1>4. ASSUME NEW a \in 1 .. N, NEW b \in 1 .. N, a < b
      PROVE  q[a] < q[b]
  <2>1. q[b] < q[a] => Rank(R, q[b]) < Rank(R, q[a])
    BY <1>2, RankProperties
  <2>2. Rank(R, q[a]) = a /\ Rank(R, q[b]) = b /\ a # b
    BY <1>1, <1>2, <1>4
  <2>3. q[a] # q[b] /\ q[a] \in Nat /\ q[b] \in Nat
    BY <1>2, <2>2
  <2> QED
    BY <1>1, <1>4, <2>1, <2>2, <2>3
<1>5. ASSUME NEW i \in R
      PROVE  \E a \in 1 .. N : q[a] = i
  <2>1. Rank(R, i) \in 1 .. N
    BY RankProperties DEF N
  <2>2. q[Rank(R, i)] \in R /\ Rank(R, q[Rank(R, i)]) = Rank(R, i)
    BY <1>2, <2>1
  <2>3. /\ q[Rank(R, i)] < i => Rank(R, q[Rank(R, i)]) < Rank(R, i)
        /\ i < q[Rank(R, i)] => Rank(R, i) < Rank(R, q[Rank(R, i)])
    BY <2>2, RankProperties
  <2>4. q[Rank(R, i)] \in Nat /\ i \in Nat
    BY <2>2
  <2>5. Rank(R, i) \in Int
    BY <2>1
  <2>6. q[Rank(R, i)] = i
    BY <2>2, <2>3, <2>4, <2>5
  <2> QED
    BY <2>1, <2>6
<1> QED
  BY <1>1, <1>3, <1>4, <1>5 DEF N, q

\* The same, in the vocabulary of sequences.
LEMMA InOrderSequence ==
  ASSUME NEW R \in SUBSET Nat, IsFiniteSet(R)
  PROVE  /\ InOrder(R) \in Seq(R)
         /\ \A a, b \in DOMAIN InOrder(R) : InOrder(R)[a] = InOrder(R)[b] => a = b
         /\ \A i \in R : \E a \in DOMAIN InOrder(R) : InOrder(R)[a] = i
         /\ \A a, b \in DOMAIN InOrder(R) : InOrder(R)[a] < InOrder(R)[b] <=> a < b
<1> DEFINE N == Cardinality(R)
           q == InOrder(R)
<1>1. /\ N \in Nat /\ q \in [1 .. N -> R]
      /\ \A a, b \in 1 .. N : a < b => q[a] < q[b]
      /\ \A i \in R : \E a \in 1 .. N : q[a] = i
  BY InOrderProperties
<1> HIDE DEF N, q
<1>2. q \in Seq(R) /\ DOMAIN q = 1 .. N
  BY <1>1
<1>3. \A a \in 1 .. N : q[a] \in Nat
  BY <1>1
<1>4. ASSUME NEW a \in 1 .. N, NEW b \in 1 .. N, q[a] = q[b]
      PROVE  a = b
  <2>1. ~ (q[a] < q[b]) /\ ~ (q[b] < q[a])
    BY <1>3, <1>4
  <2>2. ~ (a < b) /\ ~ (b < a)
    BY <1>1, <2>1
  <2> QED
    BY <1>1, <2>2
<1>5. ASSUME NEW a \in 1 .. N, NEW b \in 1 .. N
      PROVE  q[a] < q[b] <=> a < b
  <2>1. a < b \/ b < a \/ a = b
    BY <1>1
  <2>2. b < a => ~ (q[a] < q[b])
    BY <1>1, <1>3
  <2>3. b < a \/ a = b => ~ (a < b)
    BY <1>1
  <2>4. a = b => ~ (q[a] < q[b])
    BY <1>3
  <2> QED
    BY <1>1, <2>1, <2>2, <2>3, <2>4
<1> QED
  BY <1>1, <1>2, <1>4, <1>5 DEF q

\* A member stands at its rank.
LEMMA PlaceIsRank ==
  ASSUME NEW R \in SUBSET Nat, IsFiniteSet(R), NEW i \in R
  PROVE  Rank(R, i) \in DOMAIN InOrder(R) /\ InOrder(R)[Rank(R, i)] = i
<1> DEFINE n == Rank(R, i)
           j == InOrder(R)[n]
<1>1. n \in 1 .. Cardinality(R) /\ Cardinality(R) \in Nat
  BY RankProperties, FS_CardinalityType
<1>2. j \in R /\ Rank(R, j) = n /\ n \in DOMAIN InOrder(R)
  BY <1>1, RankIsOnto DEF InOrder
<1>3. /\ i < j => n < Rank(R, j)
      /\ j < i => Rank(R, j) < n
  BY <1>2, RankProperties
<1> HIDE DEF n, j
<1>4. ~ (i < j) /\ ~ (j < i)
  BY <1>1, <1>2, <1>3
<1>5. i = j
  BY <1>2, <1>4
<1> QED
  BY <1>2, <1>5 DEF n, j

\* Larger members leave those before them where they are.
LEMMA InOrderGrows ==
  ASSUME NEW T \in SUBSET Nat, IsFiniteSet(T), NEW S \in SUBSET T,
         \A i \in S, j \in T \ S : i < j
  PROVE  \A n \in DOMAIN InOrder(S) :
           n \in DOMAIN InOrder(T) /\ InOrder(T)[n] = InOrder(S)[n]
<1>1. S \in SUBSET Nat /\ IsFiniteSet(S)
  BY FS_Subset
<1> SUFFICES ASSUME NEW n \in DOMAIN InOrder(S)
             PROVE  n \in DOMAIN InOrder(T) /\ InOrder(T)[n] = InOrder(S)[n]
  OBVIOUS
<1> DEFINE i == InOrder(S)[n]
<1>2. i \in S /\ Rank(S, i) = n
  BY <1>1, RankIsOnto DEF InOrder
<1> HIDE DEF i
<1>3. {j \in T : j < i} = {j \in S : j < i}
  <2>1. ASSUME NEW j \in T, j < i PROVE j \in S
    <3>1. i \in Nat /\ j \in Nat
      BY <1>1, <1>2
    <3>2. ~ (i < j)
      BY <2>1, <3>1
    <3> QED
      BY <1>2, <3>2
  <2> QED
    BY <2>1
<1>4. Rank(T, i) = n
  BY <1>2, <1>3 DEF Rank
<1>5. i \in T
  BY <1>2
<1>6. n \in DOMAIN InOrder(T) /\ InOrder(T)[n] = i
  BY <1>4, <1>5, PlaceIsRank
<1> QED
  BY <1>6 DEF i

\* An interval is in order as it is.
LEMMA InOrderInterval ==
  ASSUME NEW a \in Nat, NEW k \in Nat
  PROVE  /\ DOMAIN InOrder(a + 1 .. a + k) = 1 .. k
         /\ \A n \in 1 .. k : InOrder(a + 1 .. a + k)[n] = a + n
<1> DEFINE R == a + 1 .. a + k
<1>1. IsFiniteSet(R) /\ Cardinality(R) = k /\ R \in SUBSET Nat
  <2>1. a + 1 \in Int /\ a + k \in Int
    OBVIOUS
  <2>2. /\ IsFiniteSet(R)
        /\ Cardinality(R) = IF a + 1 > a + k THEN 0 ELSE (a + k) - (a + 1) + 1
    BY <2>1, FS_Interval
  <2>3. (IF a + 1 > a + k THEN 0 ELSE (a + k) - (a + 1) + 1) = k
    OBVIOUS
  <2> QED
    BY <2>2, <2>3
<1>2. ASSUME NEW n \in 1 .. k
      PROVE  a + n \in R /\ Rank(R, a + n) = n
  <2>1. {j \in R : j < a + n} = a + 1 .. a + (n - 1)
    OBVIOUS
  <2>2. a + 1 \in Int /\ a + (n - 1) \in Int
    OBVIOUS
  <2>3. Cardinality(a + 1 .. a + (n - 1)) =
          IF a + 1 > a + (n - 1) THEN 0 ELSE (a + (n - 1)) - (a + 1) + 1
    BY <2>2, FS_Interval
  <2>4. (IF a + 1 > a + (n - 1) THEN 0 ELSE (a + (n - 1)) - (a + 1) + 1) = n - 1
    OBVIOUS
  <2>5. Cardinality({j \in R : j < a + n}) = n - 1
    BY <2>1, <2>3, <2>4
  <2>6. (n - 1) + 1 = n /\ a + n \in R
    OBVIOUS
  <2> HIDE DEF R
  <2> QED
    BY <2>5, <2>6 DEF Rank
<1> HIDE DEF R
<1>3. DOMAIN InOrder(R) = 1 .. k
  BY <1>1 DEF InOrder
<1>4. \A n \in 1 .. k : InOrder(R)[n] = a + n
  BY <1>1, <1>2, PlaceIsRank
<1> QED
  BY <1>3, <1>4 DEF R

\* The positions of a concatenation are those of its parts.
LEMMA ConcatPositions ==
  ASSUME NEW S, NEW s \in Seq(S), NEW t \in Seq(S)
  PROVE  /\ s \o t \in Seq(S)
         /\ DOMAIN s = 1 .. Len(s) /\ DOMAIN t = 1 .. Len(t)
         /\ DOMAIN (s \o t) = 1 .. Len(s) + Len(t)
         /\ Len(s) \in Nat /\ Len(t) \in Nat
         /\ \A a \in DOMAIN s : a \in DOMAIN (s \o t) /\ (s \o t)[a] = s[a]
         /\ \A b \in DOMAIN t : /\ Len(s) + b \in DOMAIN (s \o t)
                                /\ (s \o t)[Len(s) + b] = t[b]
         /\ \A a \in DOMAIN (s \o t) :
              \/ a \in DOMAIN s
              \/ \E b \in DOMAIN t : a = Len(s) + b
<1>1. /\ s \o t \in Seq(S) /\ Len(s \o t) = Len(s) + Len(t)
      /\ \A a \in 1 .. Len(s) + Len(t) :
           (s \o t)[a] = IF a <= Len(s) THEN s[a] ELSE t[a - Len(s)]
      /\ Len(s) \in Nat /\ Len(t) \in Nat
      /\ DOMAIN s = 1 .. Len(s) /\ DOMAIN t = 1 .. Len(t)
      /\ DOMAIN (s \o t) = 1 .. Len(s) + Len(t)
  BY ConcatProperties, LenProperties
<1>2. \A a \in 1 .. Len(s) : a \in 1 .. Len(s) + Len(t) /\ a <= Len(s)
  BY <1>1
<1>3. \A b \in 1 .. Len(t) : /\ Len(s) + b \in 1 .. Len(s) + Len(t)
                             /\ ~ (Len(s) + b <= Len(s))
                             /\ (Len(s) + b) - Len(s) = b
  BY <1>1
<1>4. \A a \in 1 .. Len(s) + Len(t) :
        a \in 1 .. Len(s) \/ (a - Len(s) \in 1 .. Len(t) /\ a = Len(s) + (a - Len(s)))
  BY <1>1
<1> QED
  BY <1>1, <1>2, <1>3, <1>4

\* Concatenating sequences that repeat nothing and share nothing.
LEMMA ConcatInjective ==
  ASSUME NEW S, NEW s \in Seq(S), NEW t \in Seq(S),
         \A a, b \in DOMAIN s : s[a] = s[b] => a = b,
         \A a, b \in DOMAIN t : t[a] = t[b] => a = b,
         \A a \in DOMAIN s, b \in DOMAIN t : s[a] # t[b]
  PROVE  \A a, b \in DOMAIN (s \o t) : (s \o t)[a] = (s \o t)[b] => a = b
<1> SUFFICES ASSUME NEW a \in DOMAIN (s \o t), NEW b \in DOMAIN (s \o t),
                    (s \o t)[a] = (s \o t)[b]
             PROVE  a = b
  OBVIOUS
<1>1. CASE a \in DOMAIN s /\ b \in DOMAIN s
  BY <1>1, ConcatPositions
<1>2. CASE a \in DOMAIN s /\ b \notin DOMAIN s
  BY <1>2, ConcatPositions
<1>3. CASE a \notin DOMAIN s /\ b \in DOMAIN s
  BY <1>3, ConcatPositions
<1>4. CASE a \notin DOMAIN s /\ b \notin DOMAIN s
  <2>1. PICK c \in DOMAIN t : a = Len(s) + c
    BY <1>4, ConcatPositions
  <2>2. PICK d \in DOMAIN t : b = Len(s) + d
    BY <1>4, ConcatPositions
  <2>3. t[c] = t[d]
    BY <2>1, <2>2, ConcatPositions
  <2> QED
    BY <2>1, <2>2, <2>3
<1> QED
  BY <1>1, <1>2, <1>3, <1>4

\* Every element of a concatenation is an element of one of its parts.
LEMMA ConcatSources ==
  ASSUME NEW S, NEW s \in Seq(S), NEW t \in Seq(S)
  PROVE  \A a \in DOMAIN (s \o t) : \/ \E b \in DOMAIN s : s[b] = (s \o t)[a]
                                  \/ \E b \in DOMAIN t : t[b] = (s \o t)[a]
BY ConcatPositions

\* Every element of a part is an element of the concatenation.
LEMMA ConcatKeepsFirst ==
  ASSUME NEW S, NEW s \in Seq(S), NEW t \in Seq(S)
  PROVE  \A b \in DOMAIN s : \E a \in DOMAIN (s \o t) : (s \o t)[a] = s[b]
BY ConcatPositions

LEMMA ConcatKeepsSecond ==
  ASSUME NEW S, NEW s \in Seq(S), NEW t \in Seq(S)
  PROVE  \A b \in DOMAIN t : \E a \in DOMAIN (s \o t) : (s \o t)[a] = t[b]
<1>1. \A b \in DOMAIN t : /\ Len(s) + b \in DOMAIN (s \o t)
                          /\ (s \o t)[Len(s) + b] = t[b]
  BY ConcatPositions
<1> QED
  BY <1>1

\* A non-empty finite set of numbers has a least member.
LEMMA LeastMember ==
  ASSUME NEW R \in SUBSET Nat, IsFiniteSet(R), R # {}
  PROVE  \E n \in R : \A m \in R : n <= m
<1> DEFINE N == Cardinality(R)
           q == InOrder(R)
<1>1. /\ N \in Nat /\ q \in [1 .. N -> R]
      /\ \A a, b \in 1 .. N : a < b => q[a] < q[b]
      /\ \A i \in R : \E a \in 1 .. N : q[a] = i
  BY InOrderProperties
<1> HIDE DEF N, q
<1>2. 1 \in 1 .. N
  <2>1. PICK i \in R : TRUE
    OBVIOUS
  <2>2. PICK a \in 1 .. N : q[a] = i
    BY <1>1
  <2> QED
    BY <1>1, <2>2
<1>3. ASSUME NEW m \in R PROVE q[1] <= m
  <2>1. PICK a \in 1 .. N : q[a] = m
    BY <1>1
  <2>2. a = 1 \/ 1 < a
    BY <1>1
  <2>3. q[1] \in Nat /\ m \in Nat
    BY <1>1, <1>2
  <2> QED
    BY <1>1, <1>2, <2>1, <2>2, <2>3
<1> QED
  BY <1>1, <1>2, <1>3

\* A function on 1 .. n is a sequence.
LEMMA FunctionIsSequence ==
  ASSUME NEW S, NEW n \in Nat, NEW f \in [1 .. n -> S]
  PROVE  f \in Seq(S)
OBVIOUS

\* A sequence's positions and elements.
LEMMA SequenceFacts ==
  ASSUME NEW S, NEW q \in Seq(S)
  PROVE  /\ DOMAIN q = 1 .. Len(q) /\ Len(q) \in Nat
         /\ \A i \in DOMAIN q : q[i] \in S
OBVIOUS

-----------------------------------------------------------------------------
(* States.                                                                 *)

InQueue(q, k) == \E n \in DOMAIN q : q[n] = k
Once(q) == \A a, b \in DOMAIN q : q[a] = q[b] => a = b

\* r is q and what was pushed behind it.
Heads(q, r) == \A n \in DOMAIN q : n \in DOMAIN r /\ r[n] = q[n]

Fields == {"processes", "queue", "scripts"}

IsState(s) ==
  /\ DOMAIN s = Fields
  /\ Live(s) \subseteq Key
  /\ s.processes \in [Live(s) -> Process]
  /\ s.queue \in Seq(Key)
  /\ s.scripts \in Seq(Script)
  /\ Len(s.scripts) <= MaxScripts

Queued(s, out) ==
  /\ \A k \in Live(s) : k \in out \/ InQueue(s.queue, k)
  /\ \A k \in out : ~ InQueue(s.queue, k)
  /\ Once(s.queue)

Owned(s) ==
  \A i \in DOMAIN s.scripts :
    LET k == s.scripts[i].process
    IN  k # NoKey =>
          /\ \A j \in DOMAIN s.scripts : s.scripts[j].process = k => i = j
          /\ k \in Live(s) => /\ s.processes[k].running
                              /\ s.processes[k].entity = s.scripts[i].entity

Good(s, out) == IsState(s) /\ Queued(s, out) /\ Owned(s) /\ out \subseteq Key

\* A key that nothing in s refers to as a process.
Fresh(s, k) ==
  /\ k \notin Live(s)
  /\ ~ InQueue(s.queue, k)
  /\ \A i \in DOMAIN s.scripts : s.scripts[i].process # k

\* The keys that the call in progress may give to new processes: nothing holds
\* them in the state it began in, neither as a process nor as a barrier.
Reserved == Free(proj)

\* The keys that scripts of R are to be run under: fresh, and one for each.
Spare(s, out, keys, R) ==
  \A i \in R : /\ keys[i] \in Key /\ keys[i] \notin out /\ Fresh(s, keys[i])
              /\ keys[i] \in Reserved
              /\ \A j \in R : keys[i] = keys[j] => i = j

\* Contexts wait only at scripts of these events.
Patient == {"Custom", "NetworkMessage"}

\* In any set of processes one holds no barrier that another of them waits on:
\* whom a process waits for began later than it did itself.
Grounded(s) ==
  \A S \in SUBSET Live(s) :
    S # {} => \E k \in S : \A j \in S : s.processes[j].barrier # k

\* Contexts hold no barrier where they may be left waiting.
Quiet(s) ==
  \A i \in DOMAIN s.scripts : \A n \in DOMAIN s.scripts[i].context_queue :
    s.scripts[i].event.type \in Patient =>
      s.scripts[i].context_queue[n].barrier = NoKey

\* In the middle of a call, moreover, nothing holds the barrier of a process that
\* the call may yet begin; those of `out` are begun already.
Unheld(s, out) ==
  /\ \A j \in Live(s) : s.processes[j].barrier \notin Reserved \ out
  /\ \A i \in DOMAIN s.scripts : \A n \in DOMAIN s.scripts[i].context_queue :
       s.scripts[i].context_queue[n].barrier \notin Reserved \ out

Rooted(s, out) == Grounded(s) /\ Quiet(s) /\ Unheld(s, out)

\* A context that may be scheduled at the scripts of R.
Fits(s, R, context, out) ==
  /\ context.barrier \notin Reserved \ out
  /\ \A i \in R : s.scripts[i].event.type \in Patient => context.barrier = NoKey

\* Contexts of t wait where they waited in s.
KeepsContexts(s, t) ==
  \A i \in DOMAIN t.scripts :
    \/ t.scripts[i].context_queue = <<>>
    \/ /\ i \in DOMAIN s.scripts /\ t.scripts[i].event = s.scripts[i].event
       /\ \A n \in DOMAIN t.scripts[i].context_queue :
            \E m \in DOMAIN s.scripts[i].context_queue :
              t.scripts[i].context_queue[n] = s.scripts[i].context_queue[m]

LEMMA PlainFits ==
  ASSUME NEW s, NEW R, NEW context, context.barrier = NoKey, NEW out
  PROVE  Fits(s, R, context, out)
BY KeyAssumption DEF Fits, Reserved, Free

\* Fewer processes, with the barriers they had.
LEMMA StaysGrounded ==
  ASSUME NEW s, NEW t, Grounded(s), Live(t) \subseteq Live(s),
         \A j \in Live(t) : t.processes[j].barrier = s.processes[j].barrier
  PROVE  Grounded(t)
BY DEF Grounded

\* Operations that neither begin processes nor schedule contexts.
LEMMA StaysRooted ==
  ASSUME NEW s, NEW t, NEW out, Rooted(s, out), Live(t) \subseteq Live(s),
         \A j \in Live(t) : t.processes[j].barrier = s.processes[j].barrier,
         KeepsContexts(s, t)
  PROVE  Rooted(t, out)
<1>1. ASSUME NEW i \in DOMAIN t.scripts, NEW n \in DOMAIN t.scripts[i].context_queue
      PROVE  /\ i \in DOMAIN s.scripts /\ t.scripts[i].event = s.scripts[i].event
             /\ \E m \in DOMAIN s.scripts[i].context_queue :
                  t.scripts[i].context_queue[n] = s.scripts[i].context_queue[m]
  <2>1. t.scripts[i].context_queue # <<>>
    <3>1. DOMAIN <<>> = {}
      OBVIOUS
    <3> QED
      BY <1>1, <3>1
  <2> QED
    BY <2>1 DEF KeepsContexts
<1>2. Grounded(t)
  BY StaysGrounded DEF Rooted
<1>3. Quiet(t)
  BY <1>1 DEF Rooted, Quiet
<1>4. Unheld(t, out)
  BY <1>1 DEF Rooted, Unheld
<1> QED
  BY <1>2, <1>3, <1>4 DEF Rooted

\* The most frequent case: the scripts are not touched.
LEMMA SameScriptsRooted ==
  ASSUME NEW s, NEW t, NEW out, Rooted(s, out), Live(t) \subseteq Live(s),
         \A j \in Live(t) : t.processes[j].barrier = s.processes[j].barrier,
         t.scripts = s.scripts
  PROVE  Rooted(t, out)
BY StaysGrounded DEF Rooted, Quiet, Unheld

\* What a script is handling, and the steps of one script from s to t: nothing
\* happens to it, it takes up its oldest context, or it may end what it handles.
Taken(s, i) ==
  LET k == s.scripts[i].process
  IN  IF k \in Live(s) THEN s.processes[k].data ELSE NoData

Calm(s, t, i) ==
  /\ t.scripts[i].context_queue = s.scripts[i].context_queue
  /\ Taken(t, i) = Taken(s, i)
  /\ IsRunning(t, i) = IsRunning(s, i)

Takes(s, t, i) ==
  /\ s.scripts[i].context_queue # <<>>
  /\ t.scripts[i].context_queue = Tail(s.scripts[i].context_queue)
  /\ Taken(t, i) = Head(s.scripts[i].context_queue).data

Quits(s, t, i) ==
  /\ t.scripts[i].context_queue = s.scripts[i].context_queue
  /\ Taken(t, i) \in {Taken(s, i), NoData}
-----------------------------------------------------------------------------
(* The queue.                                                              *)

\* What a concatenation of queues holds.
LEMMA QueueConcat ==
  ASSUME NEW S, NEW q \in Seq(S), NEW r \in Seq(S)
  PROVE  /\ q \o r \in Seq(S)
         /\ \A k : InQueue(q \o r, k) <=> InQueue(q, k) \/ InQueue(r, k)
         /\ Once(q) /\ Once(r) /\ (\A k : ~ (InQueue(q, k) /\ InQueue(r, k)))
              => Once(q \o r)
         /\ Heads(q, q \o r)
<1>1. q \o r \in Seq(S)
  BY ConcatPositions
<1>2. ASSUME NEW k PROVE InQueue(q \o r, k) <=> InQueue(q, k) \/ InQueue(r, k)
  <2>1. InQueue(q \o r, k) => InQueue(q, k) \/ InQueue(r, k)
    BY ConcatSources DEF InQueue
  <2>2. InQueue(q, k) => InQueue(q \o r, k)
    BY ConcatKeepsFirst DEF InQueue
  <2>3. InQueue(r, k) => InQueue(q \o r, k)
    BY ConcatKeepsSecond DEF InQueue
  <2> QED
    BY <2>1, <2>2, <2>3
<1>3. ASSUME Once(q), Once(r), \A k : ~ (InQueue(q, k) /\ InQueue(r, k))
      PROVE  Once(q \o r)
  <2>1. \A a \in DOMAIN q, b \in DOMAIN r : q[a] # r[b]
    BY <1>3 DEF InQueue
  <2>2. /\ \A a, b \in DOMAIN q : q[a] = q[b] => a = b
        /\ \A a, b \in DOMAIN r : r[a] = r[b] => a = b
    BY <1>3 DEF Once
  <2>3. \A a, b \in DOMAIN (q \o r) : (q \o r)[a] = (q \o r)[b] => a = b
    BY <2>1, <2>2, ConcatInjective
  <2> QED
    BY <2>3 DEF Once
<1>4. Heads(q, q \o r)
  BY ConcatPositions DEF Heads
<1> QED
  BY <1>1, <1>2, <1>3, <1>4

\* One key pushed to either end.
LEMMA QueuePush ==
  ASSUME NEW S, NEW q \in Seq(S), NEW k \in S
  PROVE  /\ <<k>> \o q \in Seq(S) /\ Append(q, k) \in Seq(S)
         /\ \A j : InQueue(<<k>> \o q, j) <=> InQueue(q, j) \/ j = k
         /\ \A j : InQueue(Append(q, k), j) <=> InQueue(q, j) \/ j = k
         /\ Once(q) /\ ~ InQueue(q, k) => Once(<<k>> \o q) /\ Once(Append(q, k))
<1>1. /\ <<k>> \in Seq(S) /\ Once(<<k>>)
      /\ \A j : InQueue(<<k>>, j) <=> j = k
  BY DEF Once, InQueue
<1>2. /\ <<k>> \o q \in Seq(S)
      /\ \A j : InQueue(<<k>> \o q, j) <=> InQueue(<<k>>, j) \/ InQueue(q, j)
      /\ Once(q) /\ ~ InQueue(q, k) => Once(<<k>> \o q)
  BY <1>1, QueueConcat
<1>3. /\ q \o <<k>> \in Seq(S)
      /\ \A j : InQueue(q \o <<k>>, j) <=> InQueue(q, j) \/ InQueue(<<k>>, j)
      /\ Once(q) /\ ~ InQueue(q, k) => Once(q \o <<k>>)
  BY <1>1, QueueConcat
<1>4. Append(q, k) = q \o <<k>>
  OBVIOUS
<1> QED
  BY <1>1, <1>2, <1>3, <1>4

\* What is left when everything up to position n is popped.
LEMMA QueuePop ==
  ASSUME NEW S, NEW q \in Seq(S), NEW n \in DOMAIN q
  PROVE  LET r == SubSeq(q, n + 1, Len(q))
         IN  /\ r \in Seq(S)
             /\ \A k : InQueue(r, k) => InQueue(q, k)
             /\ \A k : InQueue(q, k) => InQueue(r, k) \/ \E a \in 1 .. n : q[a] = k
             /\ Once(q) => Once(r) /\ ~ InQueue(r, q[n])
<1> DEFINE r == SubSeq(q, n + 1, Len(q))
<1>1. n \in 1 .. Len(q) /\ Len(q) \in Nat /\ DOMAIN q = 1 .. Len(q)
  OBVIOUS
<1>2. /\ r \in Seq(S) /\ Len(r) = Len(q) - n /\ DOMAIN r = 1 .. Len(q) - n
      /\ \A a \in 1 .. Len(q) - n : r[a] = q[n + a]
  <2>1. \A a \in n + 1 .. Len(q) : q[a] \in S
    BY <1>1
  <2> QED
    BY <1>1, <2>1
<1> HIDE DEF r
<1>3. \A a \in DOMAIN r : n + a \in DOMAIN q /\ r[a] = q[n + a] /\ a \in Nat /\ a > 0
  BY <1>1, <1>2
<1>4. ASSUME NEW b \in DOMAIN q, b \notin 1 .. n
      PROVE  b - n \in DOMAIN r /\ r[b - n] = q[b]
  <2>1. b - n \in 1 .. Len(q) - n /\ n + (b - n) = b
    BY <1>1, <1>4
  <2> QED
    BY <1>2, <2>1
<1>5. \A k : InQueue(r, k) => InQueue(q, k)
  BY <1>3 DEF InQueue
<1>6. \A k : InQueue(q, k) => InQueue(r, k) \/ \E a \in 1 .. n : q[a] = k
  BY <1>4 DEF InQueue
<1>7. ASSUME Once(q) PROVE Once(r) /\ ~ InQueue(r, q[n])
  <2>1. \A a, b \in DOMAIN r : n + a = n + b => a = b
    BY <1>3
  <2>2. \A a \in DOMAIN r : n + a # n
    BY <1>1, <1>3
  <2>3. \A a, b \in DOMAIN r : r[a] = r[b] => n + a = n + b
    BY <1>3, <1>7 DEF Once
  <2>4. \A a \in DOMAIN r : r[a] # q[n]
    BY <1>3, <1>7, <2>2 DEF Once
  <2> QED
    BY <2>1, <2>3, <2>4 DEF Once, InQueue
<1> QED
  BY <1>2, <1>5, <1>6, <1>7 DEF r
-----------------------------------------------------------------------------
(* Operations on one part of the state.                                    *)

\* A script keeps its contexts and its process, which goes on as it was.
LEMMA StaysCalm ==
  ASSUME NEW s, NEW t, NEW i,
         t.scripts[i].context_queue = s.scripts[i].context_queue,
         t.scripts[i].process = s.scripts[i].process,
         s.scripts[i].process \in Live(t) <=> s.scripts[i].process \in Live(s),
         \A j \in Live(s) \intersect Live(t) :
           j = s.scripts[i].process =>
             /\ t.processes[j].data = s.processes[j].data
             /\ t.processes[j].running = s.processes[j].running
  PROVE  Calm(s, t, i)
BY DEF Calm, Taken, IsRunning

\* What EXCEPT on one field of a state does.
LEMMA FieldUpdate ==
  ASSUME NEW s, DOMAIN s = Fields, NEW x
  PROVE  /\ LET t == [s EXCEPT !.processes = x]
            IN  DOMAIN t = Fields /\ t.processes = x /\ t.queue = s.queue
                /\ t.scripts = s.scripts
         /\ LET t == [s EXCEPT !.queue = x]
            IN  DOMAIN t = Fields /\ t.processes = s.processes /\ t.queue = x
                /\ t.scripts = s.scripts
         /\ LET t == [s EXCEPT !.scripts = x]
            IN  DOMAIN t = Fields /\ t.processes = s.processes /\ t.queue = s.queue
                /\ t.scripts = x
BY DEF Fields

\* A process out of the queue is pushed to either end.
LEMMA PushGood ==
  ASSUME NEW s, NEW out, Good(s, out), NEW k \in out
  PROVE  Good(PushFront(s, k), out \ {k}) /\ Good(PushBack(s, k), out \ {k})
<1>1. /\ s.queue \in Seq(Key) /\ k \in Key /\ DOMAIN s = Fields
      /\ ~ InQueue(s.queue, k) /\ Once(s.queue)
  BY DEF Good, IsState, Queued
<1> DEFINE F == <<k>> \o s.queue
           B == Append(s.queue, k)
<1>2. /\ F \in Seq(Key) /\ B \in Seq(Key) /\ Once(F) /\ Once(B)
      /\ \A j : InQueue(F, j) <=> InQueue(s.queue, j) \/ j = k
      /\ \A j : InQueue(B, j) <=> InQueue(s.queue, j) \/ j = k
  BY <1>1, QueuePush
<1>3. /\ PushFront(s, k) = [s EXCEPT !.queue = F]
      /\ PushBack(s, k) = [s EXCEPT !.queue = B]
  BY <1>1 DEF PushFront, PushBack, Fields
<1> HIDE DEF F, B
<1>4. ASSUME NEW q \in Seq(Key), Once(q),
             \A j : InQueue(q, j) <=> InQueue(s.queue, j) \/ j = k
      PROVE  Good([s EXCEPT !.queue = q], out \ {k})
  <2> DEFINE t == [s EXCEPT !.queue = q]
  <2>1. /\ DOMAIN t = Fields /\ t.processes = s.processes
        /\ t.queue = q /\ t.scripts = s.scripts
    BY <1>1, FieldUpdate
  <2> HIDE DEF t
  <2>2. IsState(t)
    BY <2>1 DEF Good, IsState, Live
  <2>3. Queued(t, out \ {k})
    BY <1>4, <2>1 DEF Good, Queued, Live
  <2>4. Owned(t)
    BY <2>1 DEF Good, Owned, Live
  <2> QED
    BY <2>2, <2>3, <2>4 DEF Good, t
<1> QED
  BY <1>2, <1>3, <1>4

\* The first live process is taken off the queue, with the stale keys before it.
LEMMA TurnGood ==
  ASSUME NEW s, Good(s, {}), NEW n \in FirstLive(s)
  PROVE  /\ Good(Turn(s, n), {s.queue[n]})
         /\ s.queue[n] \in Live(Turn(s, n))
         /\ Live(Turn(s, n)) = Live(s) /\ Turn(s, n).scripts = s.scripts
         /\ \A j \in Live(s) :
              /\ Turn(s, n).processes[j].barrier = s.processes[j].barrier
              /\ Turn(s, n).processes[j].data = s.processes[j].data
              /\ Turn(s, n).processes[j].running = s.processes[j].running
         /\ \A k : Fresh(s, k) => Fresh(Turn(s, n), k) /\ k # s.queue[n]
<1> DEFINE k == s.queue[n]
           q == SubSeq(s.queue, n + 1, Len(s.queue))
           P == [j \in Live(s) |->
                   IF j = k THEN [s.processes[j] EXCEPT !.waiting = FALSE]
                            ELSE s.processes[j]]
           u == [s EXCEPT !.queue = q]
           t == [u EXCEPT !.processes = P]
<1>1. /\ n \in DOMAIN s.queue /\ k \in Live(s) /\ s.queue \in Seq(Key)
      /\ \A a \in 1 .. n - 1 : s.queue[a] \notin Live(s)
      /\ DOMAIN s = Fields /\ n \in Nat /\ n > 0
  BY DEF FirstLive, Good, IsState
<1>2. /\ q \in Seq(Key) /\ Once(q) /\ ~ InQueue(q, k)
      /\ \A j : InQueue(q, j) => InQueue(s.queue, j)
      /\ \A j : InQueue(s.queue, j) => InQueue(q, j) \/ \E a \in 1 .. n : s.queue[a] = j
  <2>1. Once(s.queue)
    BY DEF Good, Queued
  <2> QED
    BY <1>1, <2>1, QueuePop
<1>3. \A a \in 1 .. n : a = n \/ a \in 1 .. n - 1
  BY <1>1
<1> HIDE DEF q, P, k
<1>4. /\ DOMAIN u = Fields /\ u.processes = s.processes
      /\ u.queue = q /\ u.scripts = s.scripts
  BY <1>1, FieldUpdate
<1> HIDE DEF u
<1>5. /\ DOMAIN t = Fields /\ t.processes = P
      /\ t.queue = q /\ t.scripts = s.scripts
  BY <1>4, FieldUpdate
<1>6. Turn(s, n) = t
  BY <1>4 DEF Turn, SetWaiting, Live, P, q, k, u
<1> HIDE DEF t
<1>7. /\ DOMAIN P = Live(s)
      /\ \A j \in Live(s) : /\ P[j] \in Process
                            /\ P[j].running = s.processes[j].running
                            /\ P[j].entity = s.processes[j].entity
                            /\ P[j].barrier = s.processes[j].barrier
                            /\ P[j].data = s.processes[j].data
  <2>1. ASSUME NEW j \in Live(s)
        PROVE  /\ P[j] \in Process
               /\ P[j].running = s.processes[j].running
               /\ P[j].entity = s.processes[j].entity
               /\ P[j].barrier = s.processes[j].barrier
               /\ P[j].data = s.processes[j].data
    <3>1. s.processes[j] \in Process
      BY DEF Good, IsState
    <3> QED
      BY <3>1 DEF P, Process
  <2> QED
    BY <2>1 DEF P
<1>8. Live(t) = Live(s)
  BY <1>5, <1>7 DEF Live
<1>9. IsState(t)
  <2>1. P \in [Live(t) -> Process]
    BY <1>7, <1>8 DEF P
  <2> QED
    BY <1>2, <1>5, <1>8, <2>1 DEF Good, IsState
<1>10. Queued(t, {k})
  <2>1. \A j \in Live(s) : InQueue(s.queue, j)
    BY DEF Good, Queued
  <2>2. \A j \in Live(s) : j = k \/ InQueue(q, j)
    BY <1>1, <1>2, <1>3, <2>1 DEF k
  <2> QED
    BY <1>2, <1>5, <1>8, <2>2 DEF Queued
<1>11. Owned(t)
  BY <1>5, <1>7, <1>8 DEF Good, Owned
<1>12. \A j : Fresh(s, j) => Fresh(t, j) /\ j # k
  BY <1>1, <1>2, <1>5, <1>8 DEF Fresh
<1> QED
  BY <1>1, <1>6, <1>7, <1>8, <1>5, <1>9, <1>10, <1>11, <1>12 DEF Good, k, IsState

\* What insert does to the processes.
Inserted(s, t, out, k) ==
  /\ Good(t, out \union {k})
  /\ Live(t) = Live(s) \union {k}
  /\ t.scripts = s.scripts /\ t.queue = s.queue
  /\ \A j \in Live(s) : t.processes[j] = s.processes[j]
  /\ \A j : Fresh(s, j) /\ j # k => Fresh(t, j)
  /\ \A i \in DOMAIN s.scripts : Calm(s, t, i)

\* A process under a fresh key joins those out of the queue.
LEMMA InsertGood ==
  ASSUME NEW s, NEW out, Good(s, out), NEW k \in Key, Fresh(s, k),
         NEW p \in Process
  PROVE  /\ Inserted(s, InsertProcess(s, k, p), out, k)
         /\ InsertProcess(s, k, p).processes[k] = p
<1> DEFINE P == [j \in Live(s) \union {k} |-> IF j = k THEN p ELSE s.processes[j]]
           t == [s EXCEPT !.processes = P]
<1>1. DOMAIN s = Fields /\ InsertProcess(s, k, p) = t /\ k \notin Live(s)
  BY DEF Good, IsState, InsertProcess, Fresh
<1>2. /\ DOMAIN P = Live(s) \union {k} /\ P[k] = p
      /\ \A j \in Live(s) : P[j] = s.processes[j]
  BY <1>1
<1>3. P \in [Live(s) \union {k} -> Process]
  BY <1>2 DEF Good, IsState
<1> HIDE DEF P
<1>4. /\ DOMAIN t = Fields /\ t.processes = P
      /\ t.queue = s.queue /\ t.scripts = s.scripts
  BY <1>1, FieldUpdate
<1> HIDE DEF t
<1>5. Live(t) = Live(s) \union {k}
  BY <1>2, <1>4 DEF Live
<1>6. IsState(t)
  BY <1>3, <1>4, <1>5 DEF Good, IsState
<1>7. Queued(t, out \union {k})
  BY <1>4, <1>5 DEF Good, Queued, Fresh
<1>8. Owned(t)
  <2>1. \A i \in DOMAIN s.scripts : s.scripts[i].process # k
    BY DEF Fresh
  <2> QED
    BY <1>2, <1>4, <1>5, <2>1 DEF Good, Owned
<1>9. \A j : Fresh(s, j) /\ j # k => Fresh(t, j)
  BY <1>4, <1>5 DEF Fresh
<1>10. \A i \in DOMAIN s.scripts : Calm(s, t, i)
  BY <1>2, <1>4, <1>5, StaysCalm DEF Fresh
<1> QED
  BY <1>1, <1>2, <1>4, <1>5, <1>6, <1>7, <1>8, <1>9, <1>10 DEF Good, Inserted

\* Processes are removed; their keys may stay in the queue and with scripts.
LEMMA RemoveGood ==
  ASSUME NEW s, NEW out, Good(s, out), NEW K
  PROVE  LET t == RemoveProcesses(s, K)
         IN  /\ Good(t, out)
             /\ Live(t) = Live(s) \ K
             /\ t.scripts = s.scripts /\ t.queue = s.queue
             /\ \A j \in Live(t) : t.processes[j] = s.processes[j]
             /\ \A j : Fresh(s, j) => Fresh(t, j)
<1> DEFINE P == [j \in Live(s) \ K |-> s.processes[j]]
           t == [s EXCEPT !.processes = P]
<1>1. DOMAIN s = Fields /\ RemoveProcesses(s, K) = t
  BY DEF Good, IsState, RemoveProcesses
<1>2. /\ DOMAIN P = Live(s) \ K
      /\ \A j \in Live(s) \ K : P[j] = s.processes[j]
  OBVIOUS
<1>3. P \in [Live(s) \ K -> Process]
  BY DEF Good, IsState
<1> HIDE DEF P
<1>4. /\ DOMAIN t = Fields /\ t.processes = P
      /\ t.queue = s.queue /\ t.scripts = s.scripts
  BY <1>1, FieldUpdate
<1> HIDE DEF t
<1>5. Live(t) = Live(s) \ K
  BY <1>2, <1>4 DEF Live
<1>6. IsState(t)
  BY <1>3, <1>4, <1>5 DEF Good, IsState
<1>7. Queued(t, out)
  BY <1>4, <1>5 DEF Good, Queued
<1>8. Owned(t)
  BY <1>2, <1>4, <1>5 DEF Good, Owned
<1>9. \A j : Fresh(s, j) => Fresh(t, j)
  BY <1>4, <1>5 DEF Fresh
<1> QED
  BY <1>1, <1>2, <1>4, <1>5, <1>6, <1>7, <1>8, <1>9 DEF Good

\* A process waits or ceases to wait.
LEMMA SetWaitingGood ==
  ASSUME NEW s, NEW out, Good(s, out), NEW k, NEW waiting \in BOOLEAN
  PROVE  LET t == SetWaiting(s, k, waiting)
         IN  /\ Good(t, out)
             /\ Live(t) = Live(s)
             /\ t.scripts = s.scripts /\ t.queue = s.queue
             /\ \A j \in Live(s) :
                  /\ t.processes[j].barrier = s.processes[j].barrier
                  /\ t.processes[j].data = s.processes[j].data
                  /\ t.processes[j].running = s.processes[j].running
             /\ \A j : Fresh(s, j) => Fresh(t, j)
<1> DEFINE P == [j \in Live(s) |->
                   IF j = k THEN [s.processes[j] EXCEPT !.waiting = waiting]
                            ELSE s.processes[j]]
           t == [s EXCEPT !.processes = P]
<1>1. DOMAIN s = Fields /\ SetWaiting(s, k, waiting) = t
  BY DEF Good, IsState, SetWaiting
<1>2. ASSUME NEW j \in Live(s)
      PROVE  /\ P[j] \in Process
             /\ P[j].running = s.processes[j].running
             /\ P[j].entity = s.processes[j].entity
             /\ P[j].barrier = s.processes[j].barrier
             /\ P[j].data = s.processes[j].data
  <2>1. s.processes[j] \in Process
    BY DEF Good, IsState
  <2> QED
    BY <2>1 DEF Process
<1>3. P \in [Live(s) -> Process] /\ DOMAIN P = Live(s)
  BY <1>2
<1> HIDE DEF P
<1>4. /\ DOMAIN t = Fields /\ t.processes = P
      /\ t.queue = s.queue /\ t.scripts = s.scripts
  BY <1>1, FieldUpdate
<1> HIDE DEF t
<1>5. Live(t) = Live(s)
  BY <1>3, <1>4 DEF Live
<1>6. IsState(t)
  BY <1>3, <1>4, <1>5 DEF Good, IsState
<1>7. Queued(t, out)
  BY <1>4, <1>5 DEF Good, Queued
<1>8. Owned(t)
  BY <1>2, <1>4, <1>5 DEF Good, Owned
<1>9. \A j : Fresh(s, j) => Fresh(t, j)
  BY <1>4, <1>5 DEF Fresh
<1>10. \A j \in Live(s) : /\ t.processes[j].barrier = s.processes[j].barrier
                         /\ t.processes[j].data = s.processes[j].data
                         /\ t.processes[j].running = s.processes[j].running
  BY <1>2, <1>4
<1> QED
  BY <1>1, <1>4, <1>5, <1>6, <1>7, <1>8, <1>9, <1>10 DEF Good

\* Scripts are rewritten, but their hats stay, and their processes stay or
\* are forgotten.
LEMMA RescriptGood ==
  ASSUME NEW s, NEW out, Good(s, out), NEW f,
         DOMAIN f = DOMAIN s.scripts,
         \A i \in DOMAIN s.scripts :
           /\ f[i] \in Script
           /\ f[i].entity = s.scripts[i].entity
           /\ f[i].process \in {s.scripts[i].process, NoKey},
         f \in Seq(Script)
  PROVE  LET t == [s EXCEPT !.scripts = f]
         IN  /\ Good(t, out)
             /\ Live(t) = Live(s)
             /\ t.scripts = f /\ t.queue = s.queue /\ t.processes = s.processes
             /\ \A j \in Key : Fresh(s, j) => Fresh(t, j)
<1> DEFINE t == [s EXCEPT !.scripts = f]
<1>1. DOMAIN s = Fields /\ s.scripts \in Seq(Script)
  BY DEF Good, IsState
<1>2. Len(f) = Len(s.scripts)
  BY <1>1
<1>3. /\ DOMAIN t = Fields /\ t.processes = s.processes
      /\ t.queue = s.queue /\ t.scripts = f
  BY <1>1, FieldUpdate
<1> HIDE DEF t
<1>4. Live(t) = Live(s)
  BY <1>3 DEF Live
<1>5. IsState(t)
  BY <1>2, <1>3, <1>4 DEF Good, IsState
<1>6. Queued(t, out)
  BY <1>3, <1>4 DEF Good, Queued
<1>7. Owned(t)
  BY <1>3, <1>4 DEF Good, Owned
<1>8. \A j \in Key : Fresh(s, j) => Fresh(t, j)
  BY <1>3, <1>4, KeyAssumption DEF Fresh
<1> QED
  BY <1>3, <1>4, <1>5, <1>6, <1>7, <1>8 DEF Good, t
-----------------------------------------------------------------------------
(* Operations on scripts.                                                  *)

SameHats(s, t) ==
  /\ DOMAIN t.scripts = DOMAIN s.scripts
  /\ \A i \in DOMAIN s.scripts : /\ t.scripts[i].event = s.scripts[i].event
                                /\ t.scripts[i].entity = s.scripts[i].entity

\* What the scripts of a state are.
LEMMA ScriptFacts ==
  ASSUME NEW s, NEW out, Good(s, out)
  PROVE  /\ s.scripts \in Seq(Script) /\ DOMAIN s.scripts = 1 .. Len(s.scripts)
         /\ DOMAIN s.scripts \subseteq Nat /\ IsFiniteSet(DOMAIN s.scripts)
         /\ DOMAIN s.scripts \subseteq 1 .. MaxScripts
         /\ \A i \in DOMAIN s.scripts :
              /\ s.scripts[i] \in Script
              /\ s.scripts[i].context_queue \in Seq(Context)
              /\ s.scripts[i].process \in Key \union {NoKey}
              /\ s.scripts[i].entity \in Nat
<1>1. s.scripts \in Seq(Script) /\ Len(s.scripts) <= MaxScripts
  BY DEF Good, IsState
<1>2. DOMAIN s.scripts = 1 .. Len(s.scripts) /\ Len(s.scripts) \in Nat
  BY <1>1
<1>3. \A i \in DOMAIN s.scripts : s.scripts[i] \in Script
  BY <1>1
<1>4. IsFiniteSet(1 .. Len(s.scripts))
  BY <1>2, FS_Interval
<1>5. 1 .. Len(s.scripts) \subseteq 1 .. MaxScripts
  BY <1>1, <1>2, ScriptAssumption
<1>6. \A i \in DOMAIN s.scripts :
        /\ s.scripts[i].context_queue \in Seq(Context)
        /\ s.scripts[i].process \in Key \union {NoKey}
        /\ s.scripts[i].entity \in Nat
  BY <1>3 DEF Script
<1> QED
  BY <1>1, <1>2, <1>3, <1>4, <1>5, <1>6

\* A function on a state's scripts with scripts as values is a sequence.
LEMMA ScriptSequence ==
  ASSUME NEW s, NEW out, Good(s, out), NEW f,
         f = [i \in DOMAIN s.scripts |-> f[i]],
         \A i \in DOMAIN s.scripts : f[i] \in Script
  PROVE  f \in Seq(Script) /\ DOMAIN f = DOMAIN s.scripts
<1>1. DOMAIN s.scripts = 1 .. Len(s.scripts) /\ Len(s.scripts) \in Nat
  BY ScriptFacts
<1>2. f \in [1 .. Len(s.scripts) -> Script]
  BY <1>1
<1> QED
  BY <1>1, <1>2

\* What stop_all does to the scripts of R.
Stopped(s, t, out, R) ==
  /\ Good(t, out)
  /\ SameHats(s, t)
  /\ \A i \in DOMAIN s.scripts :
       t.scripts[i].context_queue =
         IF i \in R THEN <<>> ELSE s.scripts[i].context_queue
  /\ Live(t) \subseteq Live(s) /\ t.queue = s.queue
  /\ \A j \in Live(s) : (\A i \in R : s.scripts[i].process # j) =>
       j \in Live(t) /\ t.processes[j] = s.processes[j]
  /\ \A i \in DOMAIN s.scripts :
       t.scripts[i].process \in {s.scripts[i].process, NoKey}
  /\ \A j \in Key : Fresh(s, j) => Fresh(t, j)
  /\ Rooted(s, out) => Rooted(t, out)
  /\ \A i \in DOMAIN s.scripts : i \notin R => Calm(s, t, i)
  /\ \A i \in R : s.scripts[i].process \notin Live(t)

\* Stopped scripts lose their processes and contexts, and nothing else is lost.
LEMMA StopAllGood ==
  ASSUME NEW s, NEW out, Good(s, out), NEW R \in SUBSET DOMAIN s.scripts
  PROVE  Stopped(s, StopAll(s, R), out, R)
<1> DEFINE K == {s.scripts[i].process : i \in R}
           u == RemoveProcesses(s, K)
           f == [i \in DOMAIN s.scripts |->
                  IF i \in R THEN [s.scripts[i] EXCEPT !.process = NoKey,
                                                      !.context_queue = <<>>]
                            ELSE s.scripts[i]]
           t == [u EXCEPT !.scripts = f]
<1>1. /\ Good(u, out) /\ Live(u) = Live(s) \ K
      /\ u.scripts = s.scripts /\ u.queue = s.queue
      /\ \A j \in Live(u) : u.processes[j] = s.processes[j]
      /\ \A j : Fresh(s, j) => Fresh(u, j)
  BY RemoveGood
<1>2. StopAll(s, R) = t
  BY DEF StopAll
<1>3. ASSUME NEW i \in DOMAIN s.scripts
      PROVE  /\ f[i] \in Script
             /\ f[i].entity = s.scripts[i].entity
             /\ f[i].event = s.scripts[i].event
             /\ f[i].process \in {s.scripts[i].process, NoKey}
             /\ i \notin R => f[i].process = s.scripts[i].process
             /\ f[i].context_queue =
                  IF i \in R THEN <<>> ELSE s.scripts[i].context_queue
  <2>1. s.scripts[i] \in Script
    BY ScriptFacts
  <2>2. CASE i \in R
    <3> DEFINE q == <<>>
               z == s.scripts[i]
               p == NoKey
               x == [z EXCEPT !.process = p, !.context_queue = q]
    <3>1. f[i] = x
      BY <2>2
    <3>2. q \in Seq(Context) /\ z \in Script /\ p \in Key \union {NoKey}
      BY <2>1
    <3> HIDE DEF q, z, p, f, u
    <3>3. /\ x \in Script /\ x.process = p /\ x.context_queue = q
          /\ x.entity = z.entity /\ x.event = z.event
      BY <3>2 DEF Script
    <3> HIDE DEF x
    <3> QED
      BY <2>2, <3>1, <3>3 DEF q, z, p
  <2>3. CASE i \notin R
    BY <2>1, <2>3
  <2> QED
    BY <2>2, <2>3
<1>4. f \in Seq(Script) /\ DOMAIN f = DOMAIN s.scripts
  BY <1>3, ScriptSequence
<1> HIDE DEF f, u
<1>5. /\ Good(t, out) /\ Live(t) = Live(u)
      /\ t.scripts = f /\ t.queue = u.queue /\ t.processes = u.processes
      /\ \A j \in Key : Fresh(u, j) => Fresh(t, j)
  BY <1>1, <1>3, <1>4, RescriptGood
<1> HIDE DEF t
<1>6. \A j \in Live(s) : (\A i \in R : s.scripts[i].process # j) =>
        j \in Live(t) /\ t.processes[j] = s.processes[j]
  BY <1>1, <1>5
<1>7. SameHats(s, t)
  BY <1>3, <1>4, <1>5 DEF SameHats
<1>8. Rooted(s, out) => Rooted(t, out)
  <2>1. KeepsContexts(s, t)
    BY <1>3, <1>4, <1>5, <1>7 DEF KeepsContexts, SameHats
  <2>2. /\ Live(t) \subseteq Live(s)
        /\ \A j \in Live(t) : t.processes[j].barrier = s.processes[j].barrier
    BY <1>1, <1>5
  <2> QED
    BY <2>1, <2>2, StaysRooted
<1>9. ASSUME NEW i \in DOMAIN s.scripts, i \notin R
      PROVE  Calm(s, t, i)
  <2> DEFINE k == s.scripts[i].process
  <2>1. k \in Live(s) => k \notin K
    <3>1. Live(s) \subseteq Key
      BY DEF Good, IsState
    <3> QED
      BY <1>9, <3>1, KeyAssumption DEF Good, Owned
  <2>2. k \in Live(t) <=> k \in Live(s)
    BY <1>1, <1>5, <2>1
  <2> HIDE DEF k
  <2>3. \A j \in Live(t) : t.processes[j] = s.processes[j]
    BY <1>1, <1>5
  <2> QED
    BY <1>3, <1>5, <1>9, <2>2, <2>3, StaysCalm DEF k
<1> QED
  BY <1>1, <1>2, <1>3, <1>4, <1>5, <1>6, <1>7, <1>8, <1>9 DEF Stopped

\* What push_back of a context does to the scripts of R.
Pushed(s, t, out, R, context) ==
  /\ Good(t, out)
  /\ SameHats(s, t)
  /\ \A i \in DOMAIN s.scripts :
       /\ t.scripts[i].context_queue =
            IF i \in R THEN Append(s.scripts[i].context_queue, context)
                      ELSE s.scripts[i].context_queue
       /\ t.scripts[i].process = s.scripts[i].process
  /\ Live(t) = Live(s) /\ t.queue = s.queue /\ t.processes = s.processes
  /\ \A j \in Key : Fresh(s, j) => Fresh(t, j)
  /\ Rooted(s, out) /\ Fits(s, R, context, out) => Rooted(t, out)

\* A context is queued at every script of R.
LEMMA PushContextsGood ==
  ASSUME NEW s, NEW out, Good(s, out), NEW R \in SUBSET DOMAIN s.scripts,
         NEW context \in Context
  PROVE  Pushed(s, PushContexts(s, R, context), out, R, context)
<1> DEFINE f == [i \in DOMAIN s.scripts |->
                  IF i \in R
                    THEN [s.scripts[i] EXCEPT !.context_queue = Append(@, context)]
                    ELSE s.scripts[i]]
           t == [s EXCEPT !.scripts = f]
<1>1. PushContexts(s, R, context) = t
  BY DEF PushContexts
<1>2. ASSUME NEW i \in DOMAIN s.scripts
      PROVE  /\ f[i] \in Script
             /\ f[i].entity = s.scripts[i].entity
             /\ f[i].event = s.scripts[i].event
             /\ f[i].process = s.scripts[i].process
             /\ f[i].context_queue =
                  IF i \in R THEN Append(s.scripts[i].context_queue, context)
                            ELSE s.scripts[i].context_queue
  <2>1. s.scripts[i] \in Script /\ s.scripts[i].context_queue \in Seq(Context)
    BY ScriptFacts
  <2>2. Append(s.scripts[i].context_queue, context) \in Seq(Context)
    BY <2>1
  <2> QED
    BY <2>1, <2>2 DEF Script
<1>3. f \in Seq(Script) /\ DOMAIN f = DOMAIN s.scripts
  BY <1>2, ScriptSequence
<1> HIDE DEF f
<1>4. /\ Good(t, out) /\ Live(t) = Live(s)
      /\ t.scripts = f /\ t.queue = s.queue /\ t.processes = s.processes
      /\ \A j \in Key : Fresh(s, j) => Fresh(t, j)
  BY <1>2, <1>3, RescriptGood
<1>5. SameHats(s, t)
  BY <1>2, <1>3, <1>4 DEF SameHats
<1>6. ASSUME Rooted(s, out), Fits(s, R, context, out) PROVE Rooted(t, out)
  <2>1. ASSUME NEW i \in DOMAIN s.scripts,
               NEW n \in DOMAIN f[i].context_queue
        PROVE  /\ f[i].context_queue[n].barrier \notin Reserved \ out
               /\ f[i].event.type \in Patient =>
                    f[i].context_queue[n].barrier = NoKey
    <3> DEFINE q == s.scripts[i].context_queue
    <3>1. \A m \in DOMAIN q :
            /\ q[m].barrier \notin Reserved \ out
            /\ s.scripts[i].event.type \in Patient => q[m].barrier = NoKey
      BY <1>6 DEF Rooted, Quiet, Unheld
    <3>2. CASE i \notin R
      BY <1>2, <2>1, <3>1, <3>2
    <3>3. CASE i \in R
      <4>1. q \in Seq(Context) /\ n \in DOMAIN Append(q, context)
            /\ f[i].context_queue[n] = Append(q, context)[n]
        BY <1>2, <2>1, <3>3, ScriptFacts
      <4> HIDE DEF q
      <4>2. \/ n \in DOMAIN q /\ Append(q, context)[n] = q[n]
            \/ Append(q, context)[n] = context
        BY <4>1
      <4>3. /\ context.barrier \notin Reserved \ out
            /\ s.scripts[i].event.type \in Patient => context.barrier = NoKey
        BY <1>6, <3>3 DEF Fits
      <4> QED
        BY <1>2, <3>1, <4>1, <4>2, <4>3
    <3> QED
      BY <3>2, <3>3
  <2> HIDE DEF t
  <2>2. Grounded(t)
    BY <1>4, <1>6, StaysGrounded DEF Rooted
  <2>3. \A j \in Live(t) : t.processes[j].barrier \notin Reserved \ out
    BY <1>4, <1>6 DEF Rooted, Unheld
  <2> QED
    BY <1>3, <1>4, <2>1, <2>2, <2>3 DEF Rooted, Quiet, Unheld
<1> QED
  BY <1>1, <1>2, <1>3, <1>4, <1>5, <1>6 DEF Pushed

\* What is left of a list that loses its last element.
LEMMA FrontFacts ==
  ASSUME NEW S, NEW q \in Seq(S), q # <<>>
  PROVE  /\ Front(q) \in Seq(S) /\ Len(Front(q)) = Len(q) - 1
         /\ \A n \in DOMAIN Front(q) : n \in DOMAIN q /\ Front(q)[n] = q[n]
<1> DEFINE n == Len(q) - 1
<1>1. n \in Nat /\ n <= Len(q)
  OBVIOUS
<1>2. \A i \in 1 .. n : q[i] \in S
  BY <1>1
<1> HIDE DEF n
<1>3. SubSeq(q, 1, n) \in Seq(S) /\ Len(SubSeq(q, 1, n)) = n
  BY <1>1, <1>2
<1>4. ASSUME NEW i \in DOMAIN SubSeq(q, 1, n)
      PROVE  i \in DOMAIN q /\ SubSeq(q, 1, n)[i] = q[i]
  <2>1. i \in 1 .. n
    BY <1>3, <1>4
  <2> QED
    BY <1>1, <1>2, <2>1
<1> QED
  BY <1>3, <1>4 DEF Front, n

\* What the limit does to the scripts of R.
Dropped(s, t, out, R, max_queue) ==
  /\ Good(t, out)
  /\ SameHats(s, t)
  /\ \A i \in DOMAIN s.scripts :
       /\ t.scripts[i].process = s.scripts[i].process
       /\ LET q == s.scripts[i].context_queue
          IN  IF i \in R /\ Len(q) > max_queue
                THEN Len(t.scripts[i].context_queue) = Len(q) - 1
                ELSE t.scripts[i].context_queue = q
  /\ Live(t) = Live(s) /\ t.queue = s.queue /\ t.processes = s.processes
  /\ \A j \in Key : Fresh(s, j) => Fresh(t, j)
  /\ Rooted(s, out) => Rooted(t, out)

\* The newest context is dropped where there are more than max_queue.
LEMMA DropBeyondGood ==
  ASSUME NEW s, NEW out, Good(s, out), NEW R \in SUBSET DOMAIN s.scripts,
         NEW max_queue \in Nat
  PROVE  Dropped(s, DropBeyond(s, R, max_queue), out, R, max_queue)
<1> DEFINE f == [i \in DOMAIN s.scripts |->
                  LET q == s.scripts[i].context_queue
                  IN  IF i \in R /\ Len(q) > max_queue
                        THEN [s.scripts[i] EXCEPT !.context_queue = Front(q)]
                        ELSE s.scripts[i]]
           t == [s EXCEPT !.scripts = f]
<1>1. DropBeyond(s, R, max_queue) = t
  BY DEF DropBeyond
<1>2. ASSUME NEW i \in DOMAIN s.scripts
      PROVE  /\ f[i] \in Script
             /\ f[i].entity = s.scripts[i].entity
             /\ f[i].event = s.scripts[i].event
             /\ f[i].process = s.scripts[i].process
             /\ LET q == s.scripts[i].context_queue
                IN  IF i \in R /\ Len(q) > max_queue
                      THEN Len(f[i].context_queue) = Len(q) - 1
                      ELSE f[i].context_queue = q
             /\ \A n \in DOMAIN f[i].context_queue :
                  /\ n \in DOMAIN s.scripts[i].context_queue
                  /\ f[i].context_queue[n] = s.scripts[i].context_queue[n]
  <2> DEFINE q == s.scripts[i].context_queue
  <2>1. s.scripts[i] \in Script /\ q \in Seq(Context)
    BY ScriptFacts
  <2>2. CASE i \in R /\ Len(q) > max_queue
    <3>1. q # <<>>
      BY <2>1, <2>2
    <3>2. /\ Front(q) \in Seq(Context) /\ Len(Front(q)) = Len(q) - 1
          /\ \A n \in DOMAIN Front(q) : n \in DOMAIN q /\ Front(q)[n] = q[n]
      BY <2>1, <3>1, FrontFacts
    <3>3. f[i] = [s.scripts[i] EXCEPT !.context_queue = Front(q)]
      BY <2>2
    <3> HIDE DEF f
    <3>4. f[i].context_queue = Front(q)
      BY <2>1, <3>3 DEF Script
    <3>5. /\ f[i].entity = s.scripts[i].entity
          /\ f[i].event = s.scripts[i].event
          /\ f[i].process = s.scripts[i].process
      BY <2>1, <3>3 DEF Script
    <3>6. f[i] \in Script
      BY <2>1, <3>2, <3>3 DEF Script
    <3> QED
      BY <2>2, <3>2, <3>4, <3>5, <3>6
  <2>3. CASE ~ (i \in R /\ Len(q) > max_queue)
    BY <2>1, <2>3
  <2> QED
    BY <2>2, <2>3
<1>3. f \in Seq(Script) /\ DOMAIN f = DOMAIN s.scripts
  <2>1. f = [i \in DOMAIN s.scripts |-> f[i]]
    OBVIOUS
  <2>2. \A i \in DOMAIN s.scripts : f[i] \in Script
    BY <1>2
  <2> HIDE DEF f
  <2> QED
    BY <2>1, <2>2, ScriptSequence
<1> HIDE DEF f
<1>4. /\ Good(t, out) /\ Live(t) = Live(s)
      /\ t.scripts = f /\ t.queue = s.queue /\ t.processes = s.processes
      /\ \A j \in Key : Fresh(s, j) => Fresh(t, j)
  BY <1>2, <1>3, RescriptGood
<1>5. SameHats(s, t)
  BY <1>2, <1>3, <1>4 DEF SameHats
<1>6. Rooted(s, out) => Rooted(t, out)
  <2>1. KeepsContexts(s, t)
    BY <1>2, <1>3, <1>4, <1>5 DEF KeepsContexts, SameHats
  <2> HIDE DEF t
  <2> QED
    BY <1>4, <2>1, StaysRooted
<1> QED
  BY <1>1, <1>2, <1>3, <1>4, <1>5, <1>6 DEF Dropped

\* A ready script holds a stale key or none: its process would be running.
LEMMA ReadyTakesNewKey ==
  ASSUME NEW s, NEW out, Good(s, out), NEW i \in Ready(s), NEW keys
  PROVE  /\ i \in DOMAIN s.scripts
         /\ s.scripts[i].context_queue # <<>>
         /\ s.scripts[i].process \notin Live(s)
         /\ TargetKey(s, i, keys) = keys[i]
<1>1. i \in DOMAIN s.scripts /\ s.scripts[i].context_queue # <<>> /\ ~ IsRunning(s, i)
  BY DEF Ready
<1>2. Live(s) \subseteq Key
  BY DEF Good, IsState
<1>3. s.scripts[i].process \in Live(s) => s.processes[s.scripts[i].process].running
  BY <1>1, <1>2, KeyAssumption DEF Good, Owned
<1>4. s.scripts[i].process \notin Live(s)
  BY <1>1, <1>3 DEF IsRunning
<1> QED
  BY <1>1, <1>4 DEF TargetKey

\* A process that is begun is running and is the entity's it is begun for.
LEMMA BegunProcess ==
  ASSUME NEW entity \in Nat, NEW context \in Context
  PROVE  LET p == Initialized(NewProcess(entity), context)
         IN  /\ p \in Process /\ p.running /\ p.entity = entity
             /\ p.barrier = context.barrier /\ p.data = context.data
BY DEF Initialized, NewProcess, Process, Context, Payload

\* What consume_context does to the scripts of R, all of them ready.
Consumed(s, t, out, R, keys) ==
  /\ Good(t, out)
  /\ SameHats(s, t)
  /\ \A i \in DOMAIN s.scripts :
       t.scripts[i].context_queue =
         IF i \in R THEN Tail(s.scripts[i].context_queue)
                   ELSE s.scripts[i].context_queue
  /\ Live(t) = Live(s) \union {keys[i] : i \in R}
  /\ \A j \in Live(s) : t.processes[j] = s.processes[j]
  /\ \A i \in DOMAIN s.scripts :
       t.scripts[i].process = IF i \in R THEN keys[i]
                                       ELSE s.scripts[i].process
  /\ \A j \in Key : Fresh(s, j) /\ (\A i \in R : keys[i] # j) => Fresh(t, j)
  /\ Rooted(s, out) => Rooted(t, out)
  /\ \A i \in DOMAIN s.scripts :
       IF i \in R THEN ~ IsRunning(s, i) /\ Takes(s, t, i) /\ IsRunning(t, i)
                 ELSE Calm(s, t, i)
  /\ Heads(s.queue, t.queue)
  /\ \A i \in R : /\ keys[i] \in Reserved /\ keys[i] \notin Live(s)
                  /\ ~ InQueue(s.queue, keys[i]) /\ InQueue(t.queue, keys[i])
  /\ \A i, j \in R : i < j => Before(t.queue, keys[i], keys[j])

\* Ready scripts consume a context each, under the keys they are given.
LEMMA ConsumeGood ==
  ASSUME NEW s, NEW out, Good(s, out), NEW R \in SUBSET Ready(s),
         NEW keys, Spare(s, out, keys, R)
  PROVE  Consumed(s, ConsumeContexts(s, R, keys), out, R, keys)
<1> DEFINE t       == ConsumeContexts(s, R, keys)
           order   == InOrder(R)
           started == {keys[i] : i \in R}
           begun(i) == Initialized(NewProcess(s.scripts[i].entity),
                                   Head(s.scripts[i].context_queue))
           tail    == [n \in DOMAIN order |-> keys[order[n]]]
           f       == [i \in DOMAIN s.scripts |->
                         IF i \in R
                           THEN [s.scripts[i] EXCEPT !.process = keys[i],
                                                     !.context_queue = Tail(@)]
                           ELSE s.scripts[i]]
           P       == [k \in Live(s) \union started |->
                         IF k \in started
                           THEN begun(CHOOSE i \in R : keys[i] = k)
                           ELSE s.processes[k]]
<1>1. ASSUME NEW i \in R
      PROVE  /\ i \in DOMAIN s.scripts /\ i \in 1 .. MaxScripts /\ i \in Nat
             /\ s.scripts[i].context_queue # <<>>
             /\ TargetKey(s, i, keys) = keys[i]
             /\ keys[i] \in Key /\ keys[i] \notin out
             /\ Fresh(s, keys[i])
  <2>1. i \in DOMAIN s.scripts /\ s.scripts[i].context_queue # <<>>
        /\ TargetKey(s, i, keys) = keys[i]
    BY ReadyTakesNewKey
  <2>2. i \in 1 .. MaxScripts /\ i \in Nat
    BY <2>1, ScriptFacts, ScriptAssumption
  <2> QED
    BY <2>1, <2>2 DEF Spare
<1>2. \A i, j \in R : keys[i] = keys[j] => i = j
  BY DEF Spare
<1>3. /\ order \in Seq(R) /\ \A n \in DOMAIN order : order[n] \in R
      /\ \A a, b \in DOMAIN order : order[a] = order[b] => a = b
      /\ \A i \in R : \E a \in DOMAIN order : order[a] = i
      /\ \A a, b \in DOMAIN order : order[a] < order[b] => a < b
  <2>1. R \in SUBSET Nat /\ R \in SUBSET DOMAIN s.scripts
    BY <1>1
  <2>2. IsFiniteSet(R)
    BY <2>1, ScriptFacts, FS_Subset
  <2> QED
    BY <2>1, <2>2, InOrderSequence
<1>4. /\ DOMAIN t = Fields /\ t.processes = P
      /\ t.queue = s.queue \o tail /\ t.scripts = f
  <2> DEFINE target == [i \in R |-> TargetKey(s, i, keys)]
             targets == {target[i] : i \in R}
             origin(k) == CHOOSE i \in R : target[i] = k
             source(k) == CHOOSE i \in R : keys[i] = k
             tP == [k \in Live(s) \union targets |->
                      IF k \in targets THEN begun(origin(k)) ELSE s.processes[k]]
             tq == [n \in DOMAIN order |-> target[order[n]]]
             tf == [i \in DOMAIN s.scripts |->
                      IF i \in R
                        THEN [s.scripts[i] EXCEPT !.process = target[i],
                                                  !.context_queue = Tail(@)]
                        ELSE s.scripts[i]]
  <2>1. \A i \in R : target[i] = keys[i]
    BY <1>1
  <2>2. targets = started
    BY <2>1
  <2>3. \A k : origin(k) = source(k)
    BY <2>1
  <2>4. tq = tail
    BY <1>3, <2>1
  <2>5. tf = f
    BY <2>1
  <2>6. tP = P
    <3>1. P = [k \in Live(s) \union started |->
                 IF k \in started THEN begun(source(k)) ELSE s.processes[k]]
      OBVIOUS
    <3> HIDE DEF targets, started, origin, source, begun, P
    <3> QED
      BY <2>2, <2>3, <3>1
  <2>7. t = [processes |-> tP, queue |-> s.queue \o tq, scripts |-> tf]
    BY DEF ConsumeContexts
  <2> HIDE DEF tP, tq, tf, P, tail, f, t
  <2> QED
    BY <2>4, <2>5, <2>6, <2>7 DEF Fields
<1> HIDE DEF order, t
<1>5. /\ tail \in Seq(Key)
      /\ \A k : InQueue(tail, k) <=> k \in started
      /\ Once(tail)
      /\ \A i, j \in R : i < j => Before(tail, keys[i], keys[j])
  <2>1. DOMAIN order = 1 .. Len(order) /\ Len(order) \in Nat
    BY <1>3
  <2>2. \A n \in DOMAIN order : tail[n] = keys[order[n]] /\ tail[n] \in Key
    BY <1>1, <1>3
  <2>3. tail \in Seq(Key) /\ DOMAIN tail = DOMAIN order
    BY <2>1, <2>2
  <2> HIDE DEF tail
  <2>4. Once(tail)
    BY <1>2, <1>3, <2>2, <2>3 DEF Once
  <2>5. \A k : InQueue(tail, k) => k \in started
    BY <1>3, <2>2, <2>3 DEF InQueue
  <2>6. \A k : k \in started => InQueue(tail, k)
    BY <1>3, <2>2, <2>3 DEF InQueue
  <2>7. ASSUME NEW i \in R, NEW j \in R, i < j
        PROVE  Before(tail, keys[i], keys[j])
    <3>1. PICK a \in DOMAIN order : order[a] = i
      BY <1>3
    <3>2. PICK b \in DOMAIN order : order[b] = j
      BY <1>3
    <3>3. a < b
      BY <1>3, <2>7, <3>1, <3>2
    <3> QED
      BY <2>2, <2>3, <3>1, <3>2, <3>3 DEF Before
  <2> QED
    BY <2>3, <2>4, <2>5, <2>6, <2>7
<1> HIDE DEF tail
<1>6. ASSUME NEW i \in DOMAIN s.scripts
      PROVE  /\ f[i] \in Script
             /\ f[i].entity = s.scripts[i].entity
             /\ f[i].event = s.scripts[i].event
             /\ f[i].process = IF i \in R THEN keys[i] ELSE s.scripts[i].process
             /\ f[i].context_queue =
                  IF i \in R THEN Tail(s.scripts[i].context_queue)
                            ELSE s.scripts[i].context_queue
  <2>1. s.scripts[i] \in Script /\ s.scripts[i].context_queue \in Seq(Context)
    BY ScriptFacts
  <2>2. CASE i \in R
    <3> DEFINE q == Tail(s.scripts[i].context_queue)
               z == s.scripts[i]
               k == keys[i]
               x == [z EXCEPT !.process = k, !.context_queue = q]
    <3>1. f[i] = x
      BY <2>2
    <3>2. q \in Seq(Context) /\ z \in Script /\ k \in Key
      BY <1>1, <2>1, <2>2
    <3> HIDE DEF q, z, k, f, P
    <3>3. /\ x \in Script /\ x.process = k /\ x.context_queue = q
          /\ x.entity = z.entity /\ x.event = z.event
      BY <3>2 DEF Script
    <3> HIDE DEF x
    <3> QED
      BY <2>2, <3>1, <3>3 DEF q, z, k
  <2>3. CASE i \notin R
    BY <2>1, <2>3
  <2> QED
    BY <2>2, <2>3
<1>7. f \in Seq(Script) /\ DOMAIN f = DOMAIN s.scripts /\ Len(f) <= MaxScripts
  <2>1. f \in Seq(Script) /\ DOMAIN f = DOMAIN s.scripts
    BY <1>6, ScriptSequence
  <2>2. s.scripts \in Seq(Script) /\ Len(s.scripts) <= MaxScripts
    BY DEF Good, IsState
  <2> HIDE DEF f
  <2> QED
    BY <2>1, <2>2
<1> HIDE DEF f
<1>8. /\ DOMAIN P = Live(s) \union started
      /\ \A k \in Live(s) : k \notin started /\ P[k] = s.processes[k]
      /\ \A i \in R :
           /\ P[keys[i]] \in Process
           /\ P[keys[i]].running
           /\ P[keys[i]].entity = s.scripts[i].entity
           /\ P[keys[i]].barrier = Head(s.scripts[i].context_queue).barrier
           /\ P[keys[i]].data = Head(s.scripts[i].context_queue).data
      /\ P \in [Live(s) \union started -> Process]
  <2>1. \A k \in Live(s) : k \notin started
    BY <1>1 DEF Fresh
  <2>2. ASSUME NEW i \in R
        PROVE  /\ P[keys[i]] \in Process
               /\ P[keys[i]].running
               /\ P[keys[i]].entity = s.scripts[i].entity
               /\ P[keys[i]].barrier = Head(s.scripts[i].context_queue).barrier
               /\ P[keys[i]].data = Head(s.scripts[i].context_queue).data
    <3>1. (CHOOSE j \in R : keys[j] = keys[i]) = i
      BY <1>2
    <3>2. P[keys[i]] = begun(i)
      BY <3>1
    <3>3. s.scripts[i].entity \in Nat /\ Head(s.scripts[i].context_queue) \in Context
      <4>1. /\ s.scripts[i].context_queue \in Seq(Context)
            /\ s.scripts[i].context_queue # <<>> /\ s.scripts[i].entity \in Nat
        BY <1>1, ScriptFacts
      <4> QED
        BY <4>1
    <3> HIDE DEF P
    <3> QED
      BY <3>2, <3>3, BegunProcess
  <2>3. \A k \in Live(s) : P[k] = s.processes[k] /\ P[k] \in Process
    <3>1. \A k \in Live(s) : s.processes[k] \in Process
      BY DEF Good, IsState
    <3> QED
      BY <2>1, <3>1
  <2>4. \A k \in started : P[k] \in Process
    BY <2>2
  <2>5. P = [k \in Live(s) \union started |-> P[k]]
    OBVIOUS
  <2> HIDE DEF P
  <2> QED
    BY <2>1, <2>2, <2>3, <2>4, <2>5
<1> HIDE DEF P
<1>10. Live(t) = Live(s) \union started
  BY <1>8, <1>4 DEF Live
<1>11. /\ t.queue \in Seq(Key) /\ Once(t.queue)
       /\ \A k : InQueue(t.queue, k) <=> InQueue(s.queue, k) \/ k \in started
  <2>1. s.queue \in Seq(Key) /\ Once(s.queue)
    BY DEF Good, IsState, Queued
  <2>2. \A k : ~ (InQueue(s.queue, k) /\ InQueue(tail, k))
    BY <1>1, <1>5 DEF Fresh
  <2> QED
    BY <1>5, <1>4, <2>1, <2>2, QueueConcat
<1>12. IsState(t)
  <2>1. Live(t) \subseteq Key
    BY <1>1, <1>10 DEF Good, IsState
  <2> QED
    BY <1>7, <1>8, <1>4, <1>10, <1>11, <2>1 DEF IsState
<1>13. Queued(t, out)
  BY <1>1, <1>10, <1>11 DEF Good, Queued
<1>14. Owned(t)
  <2> SUFFICES ASSUME NEW i \in DOMAIN s.scripts, f[i].process # NoKey
               PROVE  /\ \A j \in DOMAIN s.scripts : f[j].process = f[i].process => i = j
                      /\ f[i].process \in Live(t) =>
                           /\ P[f[i].process].running
                           /\ P[f[i].process].entity = f[i].entity
    BY <1>7, <1>4 DEF Owned
  <2>1. \A a \in R, j \in DOMAIN s.scripts : s.scripts[j].process # keys[a]
    BY <1>1 DEF Fresh
  <2>2. CASE i \in R
    <3>1. f[i].process = keys[i]
      BY <1>6, <2>2
    <3>2. \A j \in DOMAIN s.scripts : f[j].process = keys[i] => i = j
      BY <1>2, <1>6, <2>1, <2>2
    <3> QED
      BY <1>6, <1>8, <2>2, <3>1, <3>2
  <2>3. CASE i \notin R
    <3>1. f[i].process = s.scripts[i].process
      BY <1>6, <2>3
    <3>2. f[i].process \notin started
      BY <2>1, <3>1
    <3>3. \A j \in DOMAIN s.scripts : f[j].process = f[i].process => i = j
      BY <1>6, <2>1, <3>1, <3>2 DEF Good, Owned
    <3>4. f[i].process \in Live(t) => f[i].process \in Live(s)
      BY <1>10, <3>2
    <3> QED
      BY <1>6, <1>8, <3>1, <3>3, <3>4 DEF Good, Owned
  <2> QED
    BY <2>2, <2>3
<1>15. \A j \in Key : Fresh(s, j) /\ (\A i \in R : keys[i] # j) => Fresh(t, j)
  <2> SUFFICES ASSUME NEW j \in Key, Fresh(s, j), \A i \in R : keys[i] # j
               PROVE  Fresh(t, j)
    OBVIOUS
  <2>1. j \notin started
    OBVIOUS
  <2>2. \A i \in DOMAIN s.scripts : f[i].process # j
    BY <1>6 DEF Fresh
  <2> QED
    BY <1>7, <1>4, <1>10, <1>11, <2>1, <2>2 DEF Fresh
<1>16. SameHats(s, t)
  BY <1>6, <1>7, <1>4 DEF SameHats
<1>17. ASSUME Rooted(s, out) PROVE Rooted(t, out)
  <2>1. ASSUME NEW i \in DOMAIN s.scripts,
               NEW n \in DOMAIN f[i].context_queue
        PROVE  /\ f[i].context_queue[n].barrier \notin Reserved \ out
               /\ f[i].event.type \in Patient =>
                    f[i].context_queue[n].barrier = NoKey
    <3> DEFINE q == s.scripts[i].context_queue
    <3>1. \A m \in DOMAIN q :
            /\ q[m].barrier \notin Reserved \ out
            /\ s.scripts[i].event.type \in Patient => q[m].barrier = NoKey
      BY <1>17 DEF Rooted, Quiet, Unheld
    <3>2. CASE i \notin R
      BY <1>6, <2>1, <3>1, <3>2
    <3>3. CASE i \in R
      <4>1. q \in Seq(Context) /\ q # <<>> /\ n \in DOMAIN Tail(q)
            /\ f[i].context_queue[n] = Tail(q)[n]
        BY <1>1, <1>6, <2>1, <3>3, ScriptFacts
      <4> HIDE DEF q
      <4>2. n + 1 \in DOMAIN q /\ Tail(q)[n] = q[n + 1]
        BY <4>1
      <4> QED
        BY <1>6, <3>1, <4>1, <4>2
    <3> QED
      BY <3>2, <3>3
  <2>2. ASSUME NEW i \in R
        PROVE  /\ keys[i] \in Reserved \ out
               /\ P[keys[i]].barrier \notin Reserved \ out
    <3> DEFINE q == s.scripts[i].context_queue
    <3>1. q \in Seq(Context) /\ q # <<>>
      BY <1>1, ScriptFacts
    <3>2. Head(q) = q[1] /\ 1 \in DOMAIN q
      BY <3>1
    <3>3. q[1].barrier \notin Reserved \ out
      BY <1>1, <1>17, <3>2 DEF Rooted, Unheld
    <3> QED
      BY <1>8, <3>2, <3>3 DEF Spare
  <2>3. ASSUME NEW j \in Live(t)
        PROVE  P[j].barrier \notin Reserved \ out
    <3>1. CASE j \in started
      BY <2>2, <3>1
    <3>2. CASE j \in Live(s)
      BY <1>8, <1>17, <3>2 DEF Rooted, Unheld
    <3> QED
      BY <1>10, <3>1, <3>2
  <2>4. \A j \in started : j \in Reserved \ out
    BY <2>2
  <2> HIDE DEF started
  <2>5. ASSUME NEW S \in SUBSET Live(t), S # {}
        PROVE  \E k \in S : \A j \in S : P[j].barrier # k
    <3>1. CASE S \intersect started # {}
      <4>1. PICK k \in S : k \in started
        BY <3>1
      <4>2. \A j \in S : P[j].barrier # k
        BY <2>3, <2>4, <4>1
      <4> QED
        BY <4>2
    <3>2. CASE S \intersect started = {}
      <4>1. S \in SUBSET Live(s)
        BY <1>10, <3>2
      <4>2. PICK k \in S : \A j \in S : s.processes[j].barrier # k
        BY <1>17, <2>5, <4>1 DEF Rooted, Grounded
      <4> QED
        BY <1>8, <4>1, <4>2
    <3> QED
      BY <3>1, <3>2
  <2>6. Grounded(t)
    BY <1>4, <2>5 DEF Grounded
  <2> QED
    BY <1>4, <1>7, <2>1, <2>3, <2>6 DEF Rooted, Quiet, Unheld
<1>18. ASSUME NEW i \in DOMAIN s.scripts
       PROVE  IF i \in R THEN ~ IsRunning(s, i) /\ Takes(s, t, i) /\ IsRunning(t, i)
                        ELSE Calm(s, t, i)
  <2>1. CASE i \in R
    <3>1. t.scripts[i].process = keys[i] /\ keys[i] \in Live(t)
      BY <1>4, <1>6, <1>10, <2>1
    <3>2. t.scripts[i].context_queue = Tail(s.scripts[i].context_queue)
      BY <1>4, <1>6, <2>1
    <3>3. /\ t.processes[keys[i]].running
          /\ t.processes[keys[i]].data = Head(s.scripts[i].context_queue).data
      BY <1>4, <1>8, <2>1
    <3>4. ~ IsRunning(s, i)
      BY <2>1 DEF Ready
    <3> QED
      BY <1>1, <2>1, <3>1, <3>2, <3>3, <3>4 DEF Takes, Taken, IsRunning
  <2>2. CASE i \notin R
    <3> DEFINE k == s.scripts[i].process
    <3>1. k \notin started
      BY <1>1 DEF Fresh
    <3>2. k \in Live(t) <=> k \in Live(s)
      BY <1>10, <3>1
    <3> HIDE DEF k, started
    <3>3. \A j \in Live(s) : t.processes[j] = s.processes[j]
      BY <1>4, <1>8
    <3>4. /\ t.scripts[i].context_queue = s.scripts[i].context_queue
          /\ t.scripts[i].process = k
      BY <1>4, <1>6, <2>2 DEF k
    <3> QED
      BY <2>2, <3>2, <3>3, <3>4, StaysCalm DEF k
  <2> QED
    BY <2>1, <2>2
<1>19. /\ Heads(s.queue, t.queue)
       /\ \A k : InQueue(tail, k) => InQueue(t.queue, k)
       /\ \A j, k : Before(tail, j, k) => Before(t.queue, j, k)
  <2>1. s.queue \in Seq(Key)
    BY DEF Good, IsState
  <2>2. Heads(s.queue, t.queue) /\ \A k : InQueue(tail, k) => InQueue(t.queue, k)
    BY <1>4, <1>5, <2>1, QueueConcat
  <2> DEFINE q == s.queue \o tail
  <2>3. \A b \in DOMAIN tail : Len(s.queue) + b \in DOMAIN q /\ q[Len(s.queue) + b] = tail[b]
    BY <1>5, <2>1, ConcatPositions
  <2>4. Len(s.queue) \in Nat /\ DOMAIN tail \subseteq Nat
    BY <1>5, <2>1
  <2> HIDE DEF q
  <2>5. ASSUME NEW j, NEW k, Before(tail, j, k)
        PROVE  Before(q, j, k)
    <3>1. PICK a \in DOMAIN tail, b \in DOMAIN tail : a < b /\ tail[a] = j /\ tail[b] = k
      BY <2>5 DEF Before
    <3>2. Len(s.queue) + a < Len(s.queue) + b
      BY <2>4, <3>1
    <3> QED
      BY <2>3, <3>1, <3>2 DEF Before
  <2> QED
    BY <1>4, <2>2, <2>5 DEF q
<1>20. \A i \in R : /\ keys[i] \in Reserved /\ keys[i] \notin Live(s)
                    /\ ~ InQueue(s.queue, keys[i]) /\ InQueue(t.queue, keys[i])
  <2>1. \A i \in R : keys[i] \in started
    BY DEF started
  <2> QED
    BY <1>1, <1>5, <1>19, <2>1 DEF Spare, Fresh
<1>21. \A i, j \in R : i < j => Before(t.queue, keys[i], keys[j])
  BY <1>5, <1>19
<1> QED
  BY <1>6, <1>8, <1>4, <1>10, <1>12, <1>13, <1>14, <1>15, <1>16, <1>17, <1>18,
     <1>19, <1>20, <1>21
     DEF t, Good, started, Consumed

\* What is kept of s when scripts of it start processes.
Extends(s, t) ==
  /\ SameHats(s, t)
  /\ Live(s) \subseteq Live(t)
  /\ \A j \in Live(s) : t.processes[j] = s.processes[j]
  /\ Heads(s.queue, t.queue)
  /\ \A k \in Live(t) \ Live(s) : k \in Reserved /\ ~ InQueue(s.queue, k)
  /\ \A i \in DOMAIN s.scripts :
       IsRunning(s, i) => t.scripts[i].process = s.scripts[i].process

\* What is kept is kept by one operation after another.
LEMMA ExtendsOnward ==
  ASSUME NEW s, NEW t, NEW u, Extends(s, t), Extends(t, u)
  PROVE  Extends(s, u)
<1>1. \A i \in DOMAIN s.scripts :
        IsRunning(s, i) => /\ IsRunning(t, i)
                           /\ t.scripts[i].process = s.scripts[i].process
  BY DEF Extends, IsRunning
<1>2. Heads(s.queue, u.queue)
  BY DEF Extends, Heads
<1>3. \A k : InQueue(s.queue, k) => InQueue(t.queue, k)
  BY DEF Extends, Heads, InQueue
<1>4. \A k \in Live(u) \ Live(s) : k \in Reserved /\ ~ InQueue(s.queue, k)
  BY <1>3 DEF Extends
<1> QED
  BY <1>1, <1>2, <1>4 DEF Extends, SameHats

\* Hats stay hats.
LEMMA SameHatsOnward ==
  ASSUME NEW s, NEW t, NEW u, SameHats(s, t)
  PROVE  /\ SameHats(t, u) => SameHats(s, u)
         /\ Extends(t, u) => SameHats(s, u)
         /\ u.scripts = t.scripts => SameHats(s, u)
BY DEF SameHats, Extends

LEMMA ExtendsItself ==
  ASSUME NEW s
  PROVE  Extends(s, s)
BY DEF Extends, SameHats, Heads

\* Every ready script of s, and no other, is begun anew in t, in script order.
Begins(s, t) ==
  /\ \A i \in Ready(s) : /\ t.scripts[i].process \in Live(t) \ Live(s)
                         /\ InQueue(t.queue, t.scripts[i].process)
                         /\ IsRunning(t, i)
  /\ \A k \in Live(t) \ Live(s) : \E i \in Ready(s) : t.scripts[i].process = k
  /\ \A i, j \in Ready(s) :
       i < j => Before(t.queue, t.scripts[i].process, t.scripts[j].process)

\* No more contexts than some limit of the host.
Short(q) == \E max \in MaxQueues : Len(q) <= max

LEMMA ShortEmpty == Short(<<>>)
<1>1. PICK max \in MaxQueues : max \in Nat
  BY QueueAssumption
<1>2. Len(<<>>) <= max
  BY <1>1
<1> QED
  BY <1>2 DEF Short

LEMMA ShortLess ==
  ASSUME NEW q \in Seq(Context), NEW r \in Seq(Context),
         \/ Len(r) = 0
         \/ Len(r) \in MaxQueues
         \/ Short(q) /\ Len(r) <= Len(q)
  PROVE  Short(r)
<1>1. CASE Short(q) /\ Len(r) <= Len(q)
  <2>1. PICK max \in MaxQueues : Len(q) <= max
    BY <1>1 DEF Short
  <2>2. Len(q) \in Nat /\ Len(r) \in Nat /\ max \in Nat
    BY QueueAssumption
  <2>3. Len(r) <= max
    BY <1>1, <2>1, <2>2
  <2> QED
    BY <2>3 DEF Short
<1>2. CASE Len(r) = 0
  BY <1>2, ShortEmpty, r = <<>>
<1>3. CASE Len(r) \in MaxQueues
  BY <1>3, Len(r) <= Len(r) DEF Short
<1> QED
  BY <1>1, <1>2, <1>3

\* Contexts wait only at scripts of patient events, and at those of custom events
\* no more of them than the host asked for.
Waits(s) ==
  \A i \in DOMAIN s.scripts :
    /\ s.scripts[i].event.type \notin Patient => s.scripts[i].context_queue = <<>>
    /\ s.scripts[i].event.type = "Custom" => Short(s.scripts[i].context_queue)

\* What do_once does to the scripts.
Drained(s, t, out, did_it, keys) ==
  /\ Good(t, out)
  /\ Extends(s, t)
  /\ Waits(s) => Waits(t)
  /\ Rooted(s, out) => Rooted(t, out)
  /\ \A i \in DOMAIN s.scripts :
       \/ Calm(s, t, i)
       \/ ~ did_it /\ Takes(s, t, i) /\ IsRunning(t, i)
  /\ \A i \in DOMAIN s.scripts :
       \/ t.scripts[i].process = s.scripts[i].process
       \/ ~ did_it /\ t.scripts[i].process = keys[i]
  /\ \A j \in Key :
       Fresh(s, j) /\ (did_it \/ \A i \in DOMAIN s.scripts : keys[i] # j)
         => Fresh(t, j)
  /\ IF did_it THEN t = s ELSE Begins(s, t)

\* do_once consumes every script's first waiting context, or nothing.
LEMMA DoOnceGood ==
  ASSUME NEW s, NEW out, Good(s, out), NEW did_it \in BOOLEAN, NEW keys,
         did_it \/ Spare(s, out, keys, DOMAIN s.scripts)
  PROVE  Drained(s, DoOnce(s, did_it, keys), out, did_it, keys)
<1>1. CASE did_it
  BY <1>1, ExtendsItself DEF DoOnce, Drained, Calm
<1>2. CASE ~ did_it
  <2> DEFINE R == Ready(s)
             t == ConsumeContexts(s, R, keys)
  <2>1. DoOnce(s, did_it, keys) = t
    BY <1>2 DEF DoOnce, ConsumeAll
  <2>2. R \in SUBSET Ready(s) /\ R \in SUBSET DOMAIN s.scripts
    BY DEF Ready
  <2>3. Spare(s, out, keys, R)
    BY <1>2, <2>2 DEF Spare
  <2> HIDE DEF R
  <2>4. /\ Good(t, out) /\ SameHats(s, t)
        /\ \A i \in DOMAIN s.scripts :
             t.scripts[i].context_queue =
               IF i \in R THEN Tail(s.scripts[i].context_queue)
                         ELSE s.scripts[i].context_queue
        /\ Live(t) = Live(s) \union {keys[i] : i \in R}
        /\ \A j \in Live(s) : t.processes[j] = s.processes[j]
        /\ \A i \in DOMAIN s.scripts :
             t.scripts[i].process = IF i \in R THEN keys[i]
                                             ELSE s.scripts[i].process
        /\ \A j \in Key : Fresh(s, j) /\ (\A i \in R : keys[i] # j) => Fresh(t, j)
        /\ Rooted(s, out) => Rooted(t, out)
        /\ \A i \in DOMAIN s.scripts :
             IF i \in R THEN ~ IsRunning(s, i) /\ Takes(s, t, i) /\ IsRunning(t, i)
                       ELSE Calm(s, t, i)
        /\ Heads(s.queue, t.queue)
        /\ \A i \in R : /\ keys[i] \in Reserved /\ keys[i] \notin Live(s)
                        /\ ~ InQueue(s.queue, keys[i]) /\ InQueue(t.queue, keys[i])
        /\ \A i, j \in R : i < j => Before(t.queue, keys[i], keys[j])
    <3>1. Consumed(s, t, out, R, keys)
      BY <2>2, <2>3, ConsumeGood
    <3> HIDE DEF t
    <3> QED
      BY <3>1 DEF Consumed
  <2>5. \A i \in R : s.scripts[i].context_queue # <<>>
    BY DEF R, Ready
  <2> HIDE DEF t
  <2>6. Extends(s, t)
    BY <2>4 DEF Extends
  <2>7. Waits(s) => Waits(t)
    <3> SUFFICES ASSUME Waits(s), NEW i \in DOMAIN t.scripts
                 PROVE  /\ t.scripts[i].event.type \notin Patient =>
                             t.scripts[i].context_queue = <<>>
                        /\ t.scripts[i].event.type = "Custom" =>
                             Short(t.scripts[i].context_queue)
      BY DEF Waits
    <3>1. i \in DOMAIN s.scripts /\ t.scripts[i].event = s.scripts[i].event
      BY <2>4 DEF SameHats
    <3>2. CASE i \notin R
      BY <2>4, <3>1, <3>2 DEF Waits
    <3>3. CASE i \in R
      <4> DEFINE q == s.scripts[i].context_queue
      <4>1. q \in Seq(Context) /\ q # <<>>
        BY <2>5, <3>1, <3>3, ScriptFacts
      <4>2. t.scripts[i].context_queue = Tail(q)
        BY <2>4, <3>1, <3>3
      <4>3. s.scripts[i].event.type \in Patient
        BY <3>1, <4>1 DEF Waits
      <4>4. s.scripts[i].event.type = "Custom" => Short(q)
        BY <3>1 DEF Waits
      <4> HIDE DEF q
      <4>5. Tail(q) \in Seq(Context) /\ Len(Tail(q)) <= Len(q)
        BY <4>1
      <4>6. Short(q) => Short(Tail(q))
        BY <4>1, <4>5, ShortLess
      <4> QED
        BY <3>1, <4>2, <4>3, <4>4, <4>6
    <3> QED
      BY <3>2, <3>3
  <2>8. Begins(s, t)
    <3>1. \A i \in R : t.scripts[i].process = keys[i] /\ i \in DOMAIN s.scripts
      BY <2>2, <2>4
    <3>2. R = Ready(s)
      BY DEF R
    <3> QED
      BY <2>4, <3>1, <3>2 DEF Begins
  <2> QED
    BY <1>2, <2>1, <2>2, <2>4, <2>6, <2>7, <2>8 DEF Drained
<1> QED
  BY <1>1, <1>2

\* A context is queued at a script, which may take up its oldest one if it is idle.
Gets(s, t, i, context) ==
  LET all == Append(s.scripts[i].context_queue, context)
  IN  \/ t.scripts[i].context_queue = all /\ Taken(t, i) = Taken(s, i)
      \/ /\ ~ IsRunning(s, i)
         /\ t.scripts[i].context_queue = Tail(all) /\ Taken(t, i) = Head(all).data

\* What schedule without a limit does to the scripts of R.
ScheduledAll(s, t, out, R, context, keys) ==
  /\ Good(t, out)
  /\ Extends(s, t)
  /\ \A i \in DOMAIN s.scripts :
       /\ i \notin R =>
            t.scripts[i].context_queue = s.scripts[i].context_queue
       /\ i \in R /\ s.scripts[i].context_queue = <<>> =>
            Len(t.scripts[i].context_queue) \in {0, 1}
       /\ i \in R => LET n == Len(s.scripts[i].context_queue)
                     IN  Len(t.scripts[i].context_queue) \in {n, n + 1}
  /\ \A j \in Key :
       Fresh(s, j) /\ (\A i \in R : keys[i] # j) => Fresh(t, j)
  /\ Rooted(s, out) /\ Fits(s, R, context, out) => Rooted(t, out)
  /\ \A i \in DOMAIN s.scripts :
       IF i \in R THEN Gets(s, t, i, context) ELSE Calm(s, t, i)
  /\ Live(t) \subseteq Live(s) \union {keys[i] : i \in R}

\* A context is scheduled at every script of R, at none or at one more of
\* which it is then left waiting.
LEMMA ScheduleUnlimitedGood ==
  ASSUME NEW s, NEW out, Good(s, out), NEW R \in SUBSET DOMAIN s.scripts,
         NEW context \in Context, NEW keys, Spare(s, out, keys, R)
  PROVE  ScheduledAll(s, ScheduleUnlimited(s, R, context, keys), out, R, context, keys)
<1> DEFINE u == PushContexts(s, R, context)
           A == Ready(u) \intersect R
           t == ConsumeContexts(u, A, keys)
<1>1. /\ Good(u, out) /\ SameHats(s, u)
      /\ \A i \in DOMAIN s.scripts :
           /\ u.scripts[i].context_queue =
                IF i \in R THEN Append(s.scripts[i].context_queue, context)
                          ELSE s.scripts[i].context_queue
           /\ u.scripts[i].process = s.scripts[i].process
      /\ Live(u) = Live(s) /\ u.queue = s.queue /\ u.processes = s.processes
      /\ \A j \in Key : Fresh(s, j) => Fresh(u, j)
      /\ Rooted(s, out) /\ Fits(s, R, context, out) => Rooted(u, out)
  <2>1. Pushed(s, u, out, R, context)
    BY PushContextsGood
  <2> HIDE DEF u
  <2> QED
    BY <2>1 DEF Pushed
<1>2. ScheduleUnlimited(s, R, context, keys) = t
  BY DEF ScheduleUnlimited
<1> HIDE DEF u
<1>3. A \in SUBSET Ready(u) /\ A \in SUBSET R
  OBVIOUS
<1>4. Spare(u, out, keys, A)
  BY <1>1, <1>3 DEF Spare
<1> HIDE DEF A
<1>5. /\ Good(t, out) /\ SameHats(u, t)
      /\ \A i \in DOMAIN u.scripts :
           t.scripts[i].context_queue =
             IF i \in A THEN Tail(u.scripts[i].context_queue)
                       ELSE u.scripts[i].context_queue
      /\ Live(t) = Live(u) \union {keys[i] : i \in A}
      /\ \A j \in Live(u) : t.processes[j] = u.processes[j]
      /\ \A j \in Key : Fresh(u, j) /\ (\A i \in A : keys[i] # j) => Fresh(t, j)
      /\ Rooted(u, out) => Rooted(t, out)
      /\ \A i \in DOMAIN u.scripts :
           IF i \in A THEN ~ IsRunning(u, i) /\ Takes(u, t, i) ELSE Calm(u, t, i)
      /\ \A i \in DOMAIN u.scripts :
           i \notin A => t.scripts[i].process = u.scripts[i].process
      /\ Heads(u.queue, t.queue)
      /\ \A i \in A : keys[i] \in Reserved /\ ~ InQueue(u.queue, keys[i])
  <2>1. Consumed(u, t, out, A, keys)
    BY <1>1, <1>3, <1>4, ConsumeGood
  <2> HIDE DEF t
  <2> QED
    BY <2>1 DEF Consumed
<1> HIDE DEF t
<1>6. Extends(s, t)
  <2>1. \A i \in DOMAIN s.scripts :
          IsRunning(s, i) => t.scripts[i].process = s.scripts[i].process
    BY <1>1, <1>5 DEF SameHats, IsRunning
  <2>2. \A k \in Live(t) \ Live(s) : k \in Reserved /\ ~ InQueue(s.queue, k)
    BY <1>1, <1>5
  <2> QED
    BY <1>1, <1>5, <2>1, <2>2 DEF Extends, SameHats
<1>7. ASSUME NEW i \in R, s.scripts[i].context_queue = <<>>
      PROVE  Len(t.scripts[i].context_queue) \in {0, 1}
  <2>1. u.scripts[i].context_queue = <<context>>
    <3>1. u.scripts[i].context_queue = Append(<<>>, context)
      BY <1>1, <1>7
    <3>2. Append(<<>>, context) = <<context>>
      OBVIOUS
    <3> QED
      BY <3>1, <3>2
  <2>2. t.scripts[i].context_queue \in {<<context>>, Tail(<<context>>)}
    BY <1>1, <1>5, <2>1 DEF SameHats
  <2>3. Len(<<context>>) = 1 /\ Len(Tail(<<context>>)) = 0
    OBVIOUS
  <2> QED
    BY <2>2, <2>3
<1>8. \A i \in DOMAIN s.scripts : i \notin R =>
        t.scripts[i].context_queue = s.scripts[i].context_queue
  BY <1>1, <1>3, <1>5 DEF SameHats
<1>9. ASSUME NEW i \in R
      PROVE  LET n == Len(s.scripts[i].context_queue)
             IN  Len(t.scripts[i].context_queue) \in {n, n + 1}
  <2> DEFINE q == s.scripts[i].context_queue
  <2>1. q \in Seq(Context)
    BY ScriptFacts
  <2>2. t.scripts[i].context_queue \in {Append(q, context), Tail(Append(q, context))}
    BY <1>1, <1>5, <1>9 DEF SameHats
  <2> HIDE DEF q
  <2>3. /\ Len(Append(q, context)) = Len(q) + 1 /\ Len(q) \in Nat
        /\ Append(q, context) \in Seq(Context) /\ Append(q, context) # <<>>
    BY <2>1, AppendProperties
  <2>4. Len(Tail(Append(q, context))) = Len(q)
    BY <2>3, HeadTailProperties
  <2> QED
    BY <2>2, <2>3, <2>4 DEF q
<1>10. ASSUME NEW i \in DOMAIN s.scripts
       PROVE  IF i \in R THEN Gets(s, t, i, context) ELSE Calm(s, t, i)
  <2>1. i \in DOMAIN u.scripts
    BY <1>1 DEF SameHats
  <2>2. Taken(u, i) = Taken(s, i) /\ IsRunning(u, i) = IsRunning(s, i)
    BY <1>1 DEF Taken, IsRunning
  <2>3. CASE i \in A
    <3>1. i \in R
      BY <1>3, <2>3
    <3>2. /\ ~ IsRunning(u, i)
          /\ t.scripts[i].context_queue = Tail(u.scripts[i].context_queue)
          /\ Taken(t, i) = Head(u.scripts[i].context_queue).data
      BY <1>5, <2>1, <2>3 DEF Takes
    <3> QED
      BY <1>1, <2>2, <3>1, <3>2 DEF Gets
  <2>4. CASE i \notin A
    <3>1. Calm(u, t, i)
      BY <1>5, <2>1, <2>4
    <3> QED
      BY <1>1, <2>2, <3>1 DEF Calm, Gets
  <2> QED
    BY <2>3, <2>4
<1>11. Live(t) \subseteq Live(s) \union {keys[i] : i \in R}
  BY <1>1, <1>3, <1>5
<1> QED
  BY <1>1, <1>2, <1>3, <1>5, <1>6, <1>7, <1>8, <1>9, <1>10, <1>11 DEF ScheduledAll

\* What schedule with a limit does to the scripts of R.
Scheduled(s, t, out, R, context, max_queue, keys) ==
  /\ Good(t, out)
  /\ Extends(s, t)
  /\ \A i \in DOMAIN s.scripts :
       /\ i \notin R =>
            t.scripts[i].context_queue = s.scripts[i].context_queue
       /\ i \in R /\ s.scripts[i].context_queue = <<>> /\ max_queue = 0
            => t.scripts[i].context_queue = <<>>
       /\ i \in R =>
            \/ Len(t.scripts[i].context_queue) <= max_queue
            \/ Len(t.scripts[i].context_queue) <= Len(s.scripts[i].context_queue)
  /\ \A j \in Key :
       Fresh(s, j) /\ (\A i \in R : keys[i] # j) => Fresh(t, j)
  /\ Rooted(s, out) /\ Fits(s, R, context, out) => Rooted(t, out)
  /\ \A i \in DOMAIN s.scripts : i \notin R => Calm(s, t, i)
  /\ Live(t) \subseteq Live(s) \union {keys[i] : i \in R}

\* With a limit, the context that is one too many is dropped; with the limit 0
\* none is left where none was waiting.
LEMMA ScheduleGood ==
  ASSUME NEW s, NEW out, Good(s, out), NEW R \in SUBSET DOMAIN s.scripts,
         NEW context \in Context, NEW max_queue \in Nat,
         NEW keys, Spare(s, out, keys, R)
  PROVE  Scheduled(s, Schedule(s, R, context, max_queue, keys), out, R, context,
                   max_queue, keys)
<1> DEFINE u == ScheduleUnlimited(s, R, context, keys)
           t == DropBeyond(u, R, max_queue)
<1>1. /\ Good(u, out) /\ Extends(s, u)
      /\ \A i \in DOMAIN s.scripts :
           /\ i \notin R => u.scripts[i].context_queue = s.scripts[i].context_queue
           /\ i \in R /\ s.scripts[i].context_queue = <<>> =>
                Len(u.scripts[i].context_queue) \in {0, 1}
           /\ i \in R => LET n == Len(s.scripts[i].context_queue)
                         IN  Len(u.scripts[i].context_queue) \in {n, n + 1}
      /\ \A j \in Key : Fresh(s, j) /\ (\A i \in R : keys[i] # j) => Fresh(u, j)
      /\ Rooted(s, out) /\ Fits(s, R, context, out) => Rooted(u, out)
      /\ \A i \in DOMAIN s.scripts : i \notin R => Calm(s, u, i)
      /\ Live(u) \subseteq Live(s) \union {keys[i] : i \in R}
  <2>1. ScheduledAll(s, u, out, R, context, keys)
    BY ScheduleUnlimitedGood
  <2> HIDE DEF u
  <2> QED
    BY <2>1 DEF ScheduledAll
<1>2. Schedule(s, R, context, max_queue, keys) = t
  BY DEF Schedule
<1> HIDE DEF u
<1>3. R \in SUBSET DOMAIN u.scripts
  BY <1>1 DEF Extends, SameHats
<1>4. /\ Good(t, out) /\ SameHats(u, t)
      /\ \A i \in DOMAIN u.scripts :
           LET q == u.scripts[i].context_queue
           IN  IF i \in R /\ Len(q) > max_queue
                 THEN Len(t.scripts[i].context_queue) = Len(q) - 1
                 ELSE t.scripts[i].context_queue = q
      /\ \A i \in DOMAIN u.scripts : t.scripts[i].process = u.scripts[i].process
      /\ Live(t) = Live(u) /\ t.queue = u.queue /\ t.processes = u.processes
      /\ \A j \in Key : Fresh(u, j) => Fresh(t, j)
      /\ Rooted(u, out) => Rooted(t, out)
  <2>1. Dropped(u, t, out, R, max_queue)
    BY <1>1, <1>3, DropBeyondGood
  <2> HIDE DEF t
  <2> QED
    BY <2>1 DEF Dropped
<1> HIDE DEF t
<1>5. Extends(s, t)
  BY <1>1, <1>4 DEF Extends, SameHats, IsRunning
<1>6. \A i \in DOMAIN s.scripts : i \notin R =>
        t.scripts[i].context_queue = s.scripts[i].context_queue
  BY <1>1, <1>4 DEF Extends, SameHats
<1>7. ASSUME NEW i \in R, s.scripts[i].context_queue = <<>>, max_queue = 0
      PROVE  t.scripts[i].context_queue = <<>>
  <2> DEFINE q == u.scripts[i].context_queue
             r == t.scripts[i].context_queue
  <2>1. Len(q) \in {0, 1}
    BY <1>1, <1>7
  <2>2. IF Len(q) > 0 THEN Len(r) = Len(q) - 1 ELSE r = q
    BY <1>3, <1>4, <1>7
  <2>3. i \in DOMAIN t.scripts
    BY <1>3, <1>4 DEF SameHats
  <2>4. r \in Seq(Context)
    BY <1>4, <2>3, ScriptFacts
  <2> HIDE DEF q, r
  <2>5. Len(r) = 0
    <3>1. CASE Len(q) = 0
      BY <2>2, <3>1
    <3>2. CASE Len(q) = 1
      BY <2>2, <3>2
    <3> QED
      BY <2>1, <3>1, <3>2
  <2>6. r = <<>>
    BY <2>4, <2>5
  <2> QED
    BY <2>6 DEF r
<1>8. ASSUME NEW i \in R
      PROVE  \/ Len(t.scripts[i].context_queue) <= max_queue
             \/ Len(t.scripts[i].context_queue) <= Len(s.scripts[i].context_queue)
  <2> DEFINE a == Len(s.scripts[i].context_queue)
             b == Len(u.scripts[i].context_queue)
             c == Len(t.scripts[i].context_queue)
  <2>1. a \in Nat
    BY ScriptFacts
  <2>2. b \in {a, a + 1}
    BY <1>1
  <2>3. IF b > max_queue THEN c = b - 1 ELSE c = b
    BY <1>3, <1>4, <1>8
  <2> HIDE DEF a, b, c
  <2>4. c <= max_queue \/ c <= a
    BY <2>1, <2>2, <2>3
  <2> QED
    BY <2>4 DEF a, c
<1>9. ASSUME NEW i \in DOMAIN s.scripts, i \notin R
      PROVE  Calm(s, t, i)
  <2>1. i \in DOMAIN u.scripts /\ Calm(s, u, i)
    BY <1>1, <1>9 DEF Extends, SameHats
  <2>2. Calm(u, t, i)
    BY <1>4, <1>9, <2>1, StaysCalm
  <2> QED
    BY <2>1, <2>2 DEF Calm
<1> QED
  BY <1>1, <1>2, <1>4, <1>5, <1>6, <1>7, <1>8, <1>9 DEF Scheduled
-----------------------------------------------------------------------------
(* The keys of a call.                                                     *)

\* Reserved keys, no two the same.
Distinct(u) ==
  LET I == 1 .. MaxScripts
  IN  /\ u.fork \in Key /\ u.fork \in Reserved
      /\ \A i \in I : /\ u.consume[i] \in Key /\ u.consume[i] \in Reserved
                      /\ u.start[i] \in Key /\ u.start[i] \in Reserved
      /\ \A i, j \in I : /\ u.consume[i] = u.consume[j] => i = j
                         /\ u.start[i] = u.start[j] => i = j
                         /\ u.consume[i] # u.start[j]
      /\ \A i \in I : u.fork # u.consume[i] /\ u.fork # u.start[i]

\* Which of them are still unused: those that start the scripts of R, and those
\* that consume contexts until do_once did it.
Unused(s, out, u, did_it, R) ==
  /\ did_it \/ \A i \in 1 .. MaxScripts : /\ Fresh(s, u.consume[i])
                                        /\ u.consume[i] \notin out
  /\ \A i \in R : Fresh(s, u.start[i]) /\ u.start[i] \notin out

\* Nothing holds a key that is free.
LEMMA FreeIsFresh ==
  ASSUME NEW s, Good(s, {}), NEW k \in Free(s)
  PROVE  k \in Key /\ Fresh(s, k)
<1>1. k \in Key /\ k \notin Held(s)
  BY DEF Free
<1>2. k \notin Live(s) /\ k \notin Range(s.queue)
      /\ k \notin {s.scripts[i].process : i \in DOMAIN s.scripts}
  BY <1>1 DEF Held
<1>3. ~ InQueue(s.queue, k)
  BY <1>2 DEF InQueue, Range
<1> QED
  BY <1>1, <1>2, <1>3 DEF Fresh

\* Enough free keys supply a call.
LEMMA SupplyKeys ==
  ASSUME Good(proj, {}), Cardinality(Free(proj)) >= 2 * MaxScripts + 1
  PROVE  /\ Distinct(KeySupply(proj))
         /\ Unused(proj, {}, KeySupply(proj), FALSE, 1 .. MaxScripts)
         /\ Fresh(proj, KeySupply(proj).fork)
<1> DEFINE F == Free(proj)
           free == InOrder(F)
           I == 1 .. MaxScripts
           u == KeySupply(proj)
<1>1. F \in SUBSET Nat /\ IsFiniteSet(F) /\ MaxScripts \in Nat
  BY KeyAssumption, ScriptAssumption, FS_Subset DEF Free
<1>2. /\ Cardinality(F) \in Nat
      /\ free \in [1 .. Cardinality(F) -> F]
      /\ \A a, b \in 1 .. Cardinality(F) : a < b => free[a] < free[b]
  BY <1>1, InOrderProperties
<1> DEFINE N == Cardinality(F)
<1>3. N \in Nat /\ N >= 2 * MaxScripts + 1
  BY <1>2
<1> HIDE DEF F, free, N
<1>4. ASSUME NEW a \in 1 .. N
      PROVE  /\ free[a] \in F /\ free[a] \in Key /\ free[a] \in Nat
             /\ free[a] \in Reserved /\ Fresh(proj, free[a])
  <2>1. free[a] \in F
    BY <1>2, <1>4 DEF N
  <2> QED
    BY <1>1, <2>1, FreeIsFresh DEF F, Reserved
<1>5. ASSUME NEW a \in 1 .. N, NEW b \in 1 .. N, free[a] = free[b]
      PROVE  a = b
  <2>1. free[a] \in Nat /\ free[b] \in Nat /\ a \in Nat /\ b \in Nat
    BY <1>3, <1>4
  <2>2. ~ free[a] < free[b] /\ ~ free[b] < free[a]
    BY <1>5, <2>1
  <2>3. ~ a < b /\ ~ b < a
    BY <1>2, <2>2 DEF N
  <2> QED
    BY <2>1, <2>3
<1>6. \A i \in I : i \in 1 .. N /\ MaxScripts + i \in 1 .. N
  BY <1>1, <1>3
<1>7. 2 * MaxScripts + 1 \in 1 .. N
  BY <1>1, <1>3
<1>8. /\ u.fork = free[2 * MaxScripts + 1]
      /\ \A i \in I : u.consume[i] = free[i] /\ u.start[i] = free[MaxScripts + i]
  BY DEF KeySupply, free, F
<1> HIDE DEF u
<1>9. \A i \in I : /\ u.consume[i] \in Key /\ Fresh(proj, u.consume[i])
                   /\ u.start[i] \in Key /\ Fresh(proj, u.start[i])
                   /\ u.consume[i] \in Reserved /\ u.start[i] \in Reserved
  BY <1>4, <1>6, <1>8
<1>10. u.fork \in Key /\ u.fork \in Reserved /\ Fresh(proj, u.fork)
  BY <1>4, <1>7, <1>8
<1>11. ASSUME NEW i \in I, NEW j \in I
       PROVE  /\ u.consume[i] = u.consume[j] => i = j
              /\ u.start[i] = u.start[j] => i = j
              /\ u.consume[i] # u.start[j]
  <2>1. i \in Nat /\ j \in Nat /\ i <= MaxScripts /\ j >= 1
    BY <1>1
  <2>2. i # MaxScripts + j /\ (MaxScripts + i = MaxScripts + j => i = j)
    BY <1>1, <2>1
  <2>3. u.consume[i] = u.consume[j] => i = j
    BY <1>5, <1>6, <1>8
  <2>4. u.start[i] = u.start[j] => MaxScripts + i = MaxScripts + j
    BY <1>5, <1>6, <1>8
  <2>5. u.consume[i] = u.start[j] => i = MaxScripts + j
    BY <1>5, <1>6, <1>8
  <2> QED
    BY <2>2, <2>3, <2>4, <2>5
<1>12. ASSUME NEW i \in I
       PROVE  u.fork # u.consume[i] /\ u.fork # u.start[i]
  <2>1. 2 * MaxScripts + 1 # i /\ 2 * MaxScripts + 1 # MaxScripts + i
    BY <1>1
  <2>2. u.fork = u.consume[i] => 2 * MaxScripts + 1 = i
    BY <1>5, <1>6, <1>7, <1>8
  <2>3. u.fork = u.start[i] => 2 * MaxScripts + 1 = MaxScripts + i
    <3> DEFINE a == 2 * MaxScripts + 1
               b == MaxScripts + i
    <3>1. a \in 1 .. N /\ b \in 1 .. N
      BY <1>6, <1>7
    <3>2. u.fork = free[a] /\ u.start[i] = free[b]
      BY <1>8
    <3> HIDE DEF a, b
    <3>3. u.fork = u.start[i] => a = b
      BY <1>5, <3>1, <3>2
    <3> QED
      BY <3>3 DEF a, b
  <2> QED
    BY <2>1, <2>2, <2>3
<1>13. Distinct(u)
  BY <1>9, <1>10, <1>11, <1>12 DEF Distinct
<1>14. Unused(proj, {}, u, FALSE, I)
  BY <1>9 DEF Unused
<1> QED
  BY <1>10, <1>13, <1>14 DEF u

\* do_once takes none of the keys that start scripts or fork.
LEMMA DrainSpares ==
  ASSUME NEW s, NEW t, NEW out, NEW did_it \in BOOLEAN, NEW u, Distinct(u),
         NEW R \in SUBSET (1 .. MaxScripts), Unused(s, out, u, did_it, R),
         Good(s, out), Drained(s, t, out, did_it, u.consume)
  PROVE  /\ Spare(t, out, u.start, R)
         /\ Fresh(s, u.fork) => Fresh(t, u.fork)
<1>1. DOMAIN s.scripts \subseteq 1 .. MaxScripts
  BY ScriptFacts
<1>2. ASSUME NEW i \in R
      PROVE  /\ u.start[i] \in Key /\ u.start[i] \notin out
             /\ Fresh(t, u.start[i]) /\ u.start[i] \in Reserved
             /\ \A j \in R : u.start[i] = u.start[j] => i = j
  <2>1. /\ u.start[i] \in Key /\ u.start[i] \in Reserved
        /\ Fresh(s, u.start[i]) /\ u.start[i] \notin out
    BY DEF Distinct, Unused
  <2>2. \A j \in DOMAIN s.scripts : u.consume[j] # u.start[i]
    BY <1>1 DEF Distinct
  <2>3. Fresh(t, u.start[i])
    BY <2>1, <2>2 DEF Drained
  <2>4. \A j \in R : u.start[i] = u.start[j] => i = j
    BY DEF Distinct
  <2> QED
    BY <2>1, <2>3, <2>4
<1>3. Fresh(s, u.fork) => Fresh(t, u.fork)
  <2>1. u.fork \in Key /\ \A j \in DOMAIN s.scripts : u.consume[j] # u.fork
    BY <1>1 DEF Distinct
  <2> QED
    BY <2>1 DEF Drained
<1> QED
  BY <1>2, <1>3 DEF Spare

\* The keys for do_once.
LEMMA ConsumeSpare ==
  ASSUME NEW s, NEW out, NEW did_it \in BOOLEAN, NEW u, Distinct(u), NEW R,
         Unused(s, out, u, did_it, R), Good(s, out)
  PROVE  did_it \/ Spare(s, out, u.consume, DOMAIN s.scripts)
<1>1. DOMAIN s.scripts \subseteq 1 .. MaxScripts
  BY ScriptFacts
<1> QED
  BY <1>1 DEF Distinct, Unused, Spare

\* Contexts wait where they waited and at scripts of patient events, at those
\* of custom events up to the limit.
LEMMA ScheduledWaits ==
  ASSUME NEW s, NEW t, NEW out, NEW R, NEW max_queue \in Nat, NEW keys,
         NEW context, Good(s, out),
         Scheduled(s, t, out, R, context, max_queue, keys), Waits(s),
         \/ max_queue = 0
         \/ /\ max_queue \in MaxQueues
            /\ \A i \in R : s.scripts[i].event.type \in Patient
  PROVE  Waits(t)
<1> SUFFICES ASSUME NEW i \in DOMAIN t.scripts
             PROVE  /\ t.scripts[i].event.type \notin Patient =>
                         t.scripts[i].context_queue = <<>>
                    /\ t.scripts[i].event.type = "Custom" =>
                         Short(t.scripts[i].context_queue)
  BY DEF Waits
<1>1. /\ i \in DOMAIN s.scripts /\ t.scripts[i].event = s.scripts[i].event
      /\ Good(t, out)
  BY DEF Scheduled, Extends, SameHats
<1>2. t.scripts[i].event.type \notin Patient => t.scripts[i].context_queue = <<>>
  BY <1>1 DEF Scheduled, Waits
<1>3. CASE i \notin R
  BY <1>1, <1>2, <1>3 DEF Scheduled, Waits
<1>4. ASSUME i \in R, s.scripts[i].event.type = "Custom"
      PROVE  Short(t.scripts[i].context_queue)
  <2> DEFINE q == s.scripts[i].context_queue
             r == t.scripts[i].context_queue
  <2>1. q \in Seq(Context) /\ r \in Seq(Context)
    BY <1>1, ScriptFacts
  <2>2. Len(r) <= max_queue \/ Len(r) <= Len(q)
    BY <1>1, <1>4 DEF Scheduled
  <2>3. Short(q)
    BY <1>1, <1>4 DEF Waits
  <2> SUFFICES Short(r)
    OBVIOUS
  <2> HIDE DEF q, r
  <2>4. CASE Len(r) <= Len(q)
    BY <2>1, <2>3, <2>4, ShortLess
  <2>5. CASE Len(r) <= max_queue /\ max_queue = 0
    <3>1. Len(r) = 0
      BY <2>1, <2>5
    <3> QED
      BY <2>1, <3>1, ShortLess
  <2>6. CASE Len(r) <= max_queue /\ max_queue \in MaxQueues
    BY <2>6 DEF Short
  <2> QED
    BY <2>2, <2>4, <2>5, <2>6
<1> QED
  BY <1>1, <1>2, <1>3, <1>4

\* Stopping scripts leaves no context waiting.
LEMMA StoppedWaits ==
  ASSUME NEW s, NEW t, NEW out, NEW R, Stopped(s, t, out, R), Waits(s)
  PROVE  Waits(t)
BY ShortEmpty DEF Stopped, Waits, SameHats

\* The scripts that are not in R: they are left alone, or with did_it FALSE they
\* take up a context, or they may end what they handle.
Stays(s, t, R) ==
  \A i \in DOMAIN s.scripts :
    /\ i \in DOMAIN t.scripts /\ t.scripts[i].event = s.scripts[i].event
    /\ i \notin R => Calm(s, t, i)

Onward(s, t, did_it, R) ==
  \A i \in DOMAIN s.scripts :
    /\ i \in DOMAIN t.scripts /\ t.scripts[i].event = s.scripts[i].event
    /\ i \notin R => Quits(s, t, i) \/ (~ did_it /\ Takes(s, t, i))

\* Of two parts of a call, one leaves the other scripts alone.
LEMMA OnwardStays ==
  ASSUME NEW s, NEW t, NEW u, NEW did_it, NEW R
  PROVE  /\ Stays(s, t, R) /\ Onward(t, u, did_it, R) => Onward(s, u, did_it, R)
         /\ Onward(s, t, did_it, R) /\ Stays(t, u, R) => Onward(s, u, did_it, R)
         /\ Onward(s, t, TRUE, R) /\ Onward(t, u, did_it, R) => Onward(s, u, did_it, R)
         /\ Stays(s, t, R) => Onward(s, t, did_it, R)
BY DEF Stays, Onward, Calm, Takes, Quits

\* The more scripts are set aside, the less is said.
LEMMA SetAside ==
  ASSUME NEW s, NEW t, NEW did_it, NEW R, NEW Q, R \subseteq Q
  PROVE  /\ Stays(s, t, R) => Stays(s, t, Q)
         /\ Onward(s, t, did_it, R) => Onward(s, t, did_it, Q)
BY DEF Stays, Onward

\* Only the scripts of R are stopped, or have a context scheduled.
LEMMA OthersStay ==
  ASSUME NEW s, NEW t, NEW out, NEW R, NEW context, NEW max_queue, NEW keys
  PROVE  /\ Stopped(s, t, out, R) => Stays(s, t, R)
         /\ Scheduled(s, t, out, R, context, max_queue, keys) => Stays(s, t, R)
BY DEF Stopped, Scheduled, Extends, SameHats, Stays

\* do_once leaves scripts alone or has them take up a context.
LEMMA DrainedOnward ==
  ASSUME NEW s, NEW t, NEW out, NEW did_it, NEW keys, NEW R,
         Drained(s, t, out, did_it, keys)
  PROVE  Onward(s, t, did_it, R)
BY DEF Drained, Extends, SameHats, Onward, Calm, Quits

\* What becomes of the processes and the queue alone does not disturb a script.
LEMMA SameScriptsStay ==
  ASSUME NEW s, NEW t, NEW R, t.scripts = s.scripts, Live(t) = Live(s),
         \A j \in Live(s) : /\ t.processes[j].data = s.processes[j].data
                            /\ t.processes[j].running = s.processes[j].running
  PROVE  Stays(s, t, R)
BY StaysCalm DEF Stays

\* What stop_all and a schedule without waiting do to the scripts of R.
Restarted(s, t, out, R, context) ==
  /\ Good(t, out)
  /\ SameHats(s, t)
  /\ Waits(s) => Waits(t)
  /\ Rooted(s, out) /\ Fits(s, R, context, out) => Rooted(t, out)
  /\ \A j \in Live(s) : (\A i \in R : s.scripts[i].process # j) =>
       j \in Live(t) /\ t.processes[j] = s.processes[j]

\* The scripts of R are restarted; no process of another script is touched.
LEMMA RestartGood ==
  ASSUME NEW s, NEW out, Good(s, out), NEW R \in SUBSET DOMAIN s.scripts,
         NEW context \in Context, NEW did_it \in BOOLEAN,
         NEW u, Distinct(u), Unused(s, out, u, did_it, R)
  PROVE  /\ Restarted(s, Restart(s, R, context, did_it, u), out, R, context)
         /\ Onward(s, Restart(s, R, context, did_it, u), did_it, R)
<1>1. CASE R = {}
  BY <1>1 DEF Restart, Restarted, SameHats, Onward, Quits
<1>2. CASE R # {}
  <2> DEFINE d == DoOnce(s, did_it, u.consume)
             e == StopAll(d, R)
             t == Schedule(e, R, context, 0, u.start)
  <2>1. Restart(s, R, context, did_it, u) = t
    BY <1>2 DEF Restart
  <2>2. R \in SUBSET (1 .. MaxScripts)
    BY ScriptFacts
  <2>3. Drained(s, d, out, did_it, u.consume)
    BY ConsumeSpare, DoOnceGood
  <2> HIDE DEF d
  <2>4. Spare(d, out, u.start, R)
    BY <2>2, <2>3, DrainSpares
  <2>5. Good(d, out) /\ R \in SUBSET DOMAIN d.scripts
    BY <2>3 DEF Drained, Extends, SameHats
  <2>6. Stopped(d, e, out, R)
    BY <2>5, StopAllGood
  <2> HIDE DEF e
  <2>7. /\ Good(e, out) /\ R \in SUBSET DOMAIN e.scripts
        /\ Spare(e, out, u.start, R)
    BY <2>4, <2>5, <2>6 DEF Stopped, SameHats, Spare
  <2>8. Scheduled(e, t, out, R, context, 0, u.start)
    BY <2>7, ScheduleGood
  <2> HIDE DEF t
  <2>9. SameHats(s, t)
    BY <2>3, <2>6, <2>8 DEF Drained, Stopped, Scheduled, Extends, SameHats
  <2>10. Waits(s) => Waits(t)
    <3>1. Waits(s) => Waits(d)
      BY <2>3 DEF Drained
    <3>2. Waits(d) => Waits(e)
      BY <2>6, StoppedWaits
    <3>3. Waits(e) => Waits(t)
      BY <2>7, <2>8, 0 \in Nat, ScheduledWaits
    <3> QED
      BY <3>1, <3>2, <3>3
  <2>11. ASSUME NEW j \in Live(s), \A i \in R : s.scripts[i].process # j
         PROVE  j \in Live(t) /\ t.processes[j] = s.processes[j]
    <3>1. j \in Live(d) /\ d.processes[j] = s.processes[j]
      BY <2>3 DEF Drained, Extends
    <3>2. \A i \in R : d.scripts[i].process # j
      <4>1. ASSUME NEW i \in R, ~ did_it
            PROVE  u.consume[i] # j
        BY <2>2, <4>1 DEF Unused, Fresh
      <4> QED
        BY <2>3, <2>11, <4>1 DEF Drained
    <3>3. j \in Live(e) /\ e.processes[j] = s.processes[j]
      BY <2>6, <3>1, <3>2 DEF Stopped
    <3> QED
      BY <2>8, <3>3 DEF Scheduled, Extends
  <2>12. Good(t, out)
    BY <2>8 DEF Scheduled
  <2>13. Rooted(s, out) /\ Fits(s, R, context, out) => Rooted(t, out)
    <3>1. Rooted(s, out) => Rooted(d, out)
      BY <2>3 DEF Drained
    <3>2. Rooted(d, out) => Rooted(e, out)
      BY <2>6 DEF Stopped
    <3>3. SameHats(s, e)
      BY <2>3, <2>6 DEF Drained, Stopped, Extends, SameHats
    <3>4. Fits(s, R, context, out) => Fits(e, R, context, out)
      BY <3>3 DEF Fits, SameHats
    <3> QED
      BY <2>8, <3>1, <3>2, <3>4 DEF Scheduled
  <2>14. Onward(s, t, did_it, R)
    <3>1. Onward(s, d, did_it, R)
      BY <2>3, DrainedOnward
    <3>2. Stays(d, e, R)
      BY <2>6 DEF Stopped, SameHats, Stays
    <3>3. Stays(e, t, R)
      BY <2>8 DEF Scheduled, Extends, SameHats, Stays
    <3> QED
      BY <3>1, <3>2, <3>3, OnwardStays
  <2> QED
    BY <2>1, <2>9, <2>10, <2>11, <2>12, <2>13, <2>14 DEF Restarted
<1> QED
  BY <1>1, <1>2

\* What appending scripts does to the scripts.
Grown(s, t, out, added) ==
  /\ Good(t, out)
  /\ Live(t) = Live(s)
  /\ \A j \in Key : Fresh(s, j) => Fresh(t, j)
  /\ Waits(s) => Waits(t)
  /\ Rooted(s, out) => Rooted(t, out)
  /\ Stays(s, t, {})
  /\ DOMAIN t.scripts = 1 .. Len(s.scripts) + Len(added)
  /\ \A i \in DOMAIN s.scripts : t.scripts[i] = s.scripts[i]
  /\ \A i \in DOMAIN t.scripts :
       i \in DOMAIN s.scripts \/ t.scripts[i].context_queue = <<>>
  /\ t.queue = s.queue /\ t.processes = s.processes
  /\ t.scripts = s.scripts \o added

\* Scripts are added, none of them started.
LEMMA GrowGood ==
  ASSUME NEW s, NEW out, Good(s, out), NEW added \in Seq(Script),
         Len(s.scripts) + Len(added) <= MaxScripts,
         \A c \in DOMAIN added : /\ added[c].process = NoKey
                                 /\ added[c].context_queue = <<>>
  PROVE  Grown(s, [s EXCEPT !.scripts = @ \o added], out, added)
<1> DEFINE f == s.scripts \o added
           t == [s EXCEPT !.scripts = f]
<1>1. DOMAIN s = Fields /\ s.scripts \in Seq(Script)
  BY DEF Good, IsState
<1>2. /\ f \in Seq(Script) /\ DOMAIN f = 1 .. Len(s.scripts) + Len(added)
      /\ DOMAIN s.scripts = 1 .. Len(s.scripts)
      /\ Len(s.scripts) \in Nat /\ Len(added) \in Nat
      /\ \A i \in DOMAIN s.scripts : i \in DOMAIN f /\ f[i] = s.scripts[i]
  BY <1>1, ConcatPositions
<1>3. \A i \in DOMAIN f : \/ i \in DOMAIN s.scripts /\ f[i] = s.scripts[i]
                          \/ f[i].process = NoKey /\ f[i].context_queue = <<>>
  <2> SUFFICES ASSUME NEW i \in DOMAIN f, i \notin DOMAIN s.scripts
               PROVE  \E c \in DOMAIN added : f[i] = added[c]
    BY <1>2
  <2>1. i - Len(s.scripts) \in DOMAIN added /\ f[i] = added[i - Len(s.scripts)]
    BY <1>1, <1>2
  <2> QED
    BY <2>1
<1>4. Len(f) <= MaxScripts
  BY <1>2
<1> HIDE DEF f
<1>5. /\ DOMAIN t = Fields /\ t.processes = s.processes
      /\ t.queue = s.queue /\ t.scripts = f
  BY <1>1, FieldUpdate
<1> HIDE DEF t
<1>6. Live(t) = Live(s)
  BY <1>5 DEF Live
<1>7. IsState(t)
  BY <1>2, <1>4, <1>5, <1>6 DEF Good, IsState
<1>8. Queued(t, out)
  BY <1>5, <1>6 DEF Good, Queued
<1>9. Owned(t)
  <2> SUFFICES ASSUME NEW i \in DOMAIN f, f[i].process # NoKey
               PROVE  LET k == f[i].process
                      IN  /\ \A j \in DOMAIN f : f[j].process = k => i = j
                          /\ k \in Live(s) =>
                               /\ s.processes[k].running
                               /\ s.processes[k].entity = f[i].entity
    BY <1>5, <1>6 DEF Owned
  <2>1. i \in DOMAIN s.scripts /\ f[i] = s.scripts[i]
    BY <1>3
  <2>2. \A j \in DOMAIN f : f[j].process = f[i].process =>
          j \in DOMAIN s.scripts /\ f[j] = s.scripts[j]
    BY <1>3
  <2> QED
    BY <2>1, <2>2 DEF Good, Owned
<1>10. \A j \in Key : Fresh(s, j) => Fresh(t, j)
  BY <1>3, <1>5, <1>6, KeyAssumption DEF Fresh
<1>11. Waits(s) => Waits(t)
  BY <1>3, <1>5, ShortEmpty DEF Waits
<1>12. t = [s EXCEPT !.scripts = @ \o added]
  BY DEF t, f
<1>13. Rooted(s, out) => Rooted(t, out)
  <2>1. KeepsContexts(s, t)
    BY <1>3, <1>5 DEF KeepsContexts
  <2> QED
    BY <1>5, <1>6, <2>1, StaysRooted
<1>14. Stays(s, t, {})
  BY <1>2, <1>5, <1>6, StaysCalm DEF Stays
<1>15. t.scripts = s.scripts \o added
  BY <1>5 DEF f
<1> QED
  BY <1>15, <1>2, <1>3, <1>5, <1>6, <1>7, <1>8, <1>9, <1>10, <1>11, <1>12, <1>13, <1>14
     DEF Good, Grown

\* What a call does from s to t once do_once is over: new processes join the
\* back, and of the old ones only those of scripts of R go.
After(s, t, R) ==
  /\ Heads(s.queue, t.queue)
  /\ \A k \in Live(t) \ Live(s) : k \in Reserved /\ ~ InQueue(s.queue, k)
  /\ \A i \in DOMAIN s.scripts :
       IF i \in R
         THEN ~ (/\ s.scripts[i].process \in Live(t)
                 /\ InQueue(s.queue, s.scripts[i].process))
         ELSE IsRunning(s, i) => /\ IsRunning(t, i)
                                 /\ t.scripts[i].process = s.scripts[i].process

\* Operations that follow do_once.
LEMMA AfterExtends ==
  ASSUME NEW s, NEW t, Extends(s, t)
  PROVE  After(s, t, {})
BY DEF Extends, After, IsRunning

LEMMA AfterStopped ==
  ASSUME NEW s, NEW t, NEW out, NEW R, Stopped(s, t, out, R)
  PROVE  After(s, t, R)
<1>1. ASSUME NEW i \in DOMAIN s.scripts, i \notin R, IsRunning(s, i)
      PROVE  IsRunning(t, i) /\ t.scripts[i].process = s.scripts[i].process
  <2>1. IsRunning(t, i)
    BY <1>1 DEF Stopped, Calm
  <2>2. t.scripts[i].process \in Live(t) /\ Live(t) \subseteq Key
    BY <2>1 DEF IsRunning, Stopped, Good, IsState
  <2>3. t.scripts[i].process # NoKey
    BY <2>2, KeyAssumption
  <2> QED
    BY <2>1, <2>3 DEF Stopped
<1>2. Heads(s.queue, t.queue) /\ Live(t) \subseteq Live(s)
  BY DEF Stopped, Heads
<1> QED
  BY <1>1, <1>2 DEF Stopped, After

LEMMA AfterGrown ==
  ASSUME NEW s, NEW t, NEW out, NEW added, Grown(s, t, out, added)
  PROVE  After(s, t, {})
BY DEF Grown, After, Heads, IsRunning

\* Scheduling comes last.
LEMMA ThenExtends ==
  ASSUME NEW s, NEW t, NEW u, NEW R, After(s, t, R), Extends(t, u),
         DOMAIN s.scripts \subseteq DOMAIN t.scripts
  PROVE  After(s, u, R)
<1>1. Heads(s.queue, u.queue)
  BY DEF After, Extends, Heads
<1>2. \A k : InQueue(s.queue, k) => InQueue(t.queue, k)
  BY DEF After, Heads, InQueue
<1>3. \A k \in Live(u) \ Live(s) : k \in Reserved /\ ~ InQueue(s.queue, k)
  BY <1>2 DEF After, Extends
<1>4. ASSUME NEW i \in DOMAIN s.scripts, i \notin R, IsRunning(s, i)
      PROVE  IsRunning(u, i) /\ u.scripts[i].process = s.scripts[i].process
  <2>1. IsRunning(t, i) /\ t.scripts[i].process = s.scripts[i].process
    BY <1>4 DEF After
  <2> QED
    BY <2>1 DEF Extends, IsRunning
<1>5. ASSUME NEW i \in DOMAIN s.scripts, i \in R
      PROVE  ~ (/\ s.scripts[i].process \in Live(u)
                /\ InQueue(s.queue, s.scripts[i].process))
  BY <1>2, <1>5 DEF After, Extends
<1> QED
  BY <1>1, <1>3, <1>4, <1>5 DEF After

\* A call gets from s to t: do_once leaves d, unless nothing new is begun at all.
Unfolds(s, did_it, R, d, t) ==
  /\ IF did_it THEN d = s ELSE Begins(s, d) \/ Live(t) \subseteq Live(s)
  /\ Extends(s, d)
  /\ d.queue \in Seq(Key)
  /\ After(d, t, R)

LEMMA DrainUnfolds ==
  ASSUME NEW s, NEW d, NEW out, NEW did_it, NEW keys,
         Drained(s, d, out, did_it, keys), NEW R, NEW t, After(d, t, R)
  PROVE  Unfolds(s, did_it, R, d, t)
BY DEF Drained, Unfolds, Good, IsState

\* A call that begins nothing.
LEMMA UnfoldsItself ==
  ASSUME NEW s, NEW out, Good(s, out), NEW did_it
  PROVE  Unfolds(s, did_it, {}, s, s)
BY ExtendsItself, AfterExtends DEF Unfolds, Good, IsState

\* A restart in these terms.
LEMMA RestartUnfolds ==
  ASSUME NEW s, NEW out, Good(s, out), NEW R \in SUBSET DOMAIN s.scripts,
         NEW context \in Context, NEW did_it \in BOOLEAN,
         NEW u, Distinct(u), Unused(s, out, u, did_it, R)
  PROVE  \E d : Unfolds(s, did_it, R, d, Restart(s, R, context, did_it, u))
<1>1. CASE R = {}
  <2>1. Restart(s, R, context, did_it, u) = s
    BY <1>1 DEF Restart
  <2>3. Unfolds(s, did_it, R, s, s)
    BY <1>1, UnfoldsItself
  <2> QED
    BY <2>1, <2>3
<1>2. CASE R # {}
  <2> DEFINE d == DoOnce(s, did_it, u.consume)
             e == StopAll(d, R)
             t == Schedule(e, R, context, 0, u.start)
  <2>1. Restart(s, R, context, did_it, u) = t
    BY <1>2 DEF Restart
  <2>2. R \in SUBSET (1 .. MaxScripts)
    BY ScriptFacts
  <2>3. Drained(s, d, out, did_it, u.consume)
    BY ConsumeSpare, DoOnceGood
  <2> HIDE DEF d
  <2>4. Spare(d, out, u.start, R)
    BY <2>2, <2>3, DrainSpares
  <2>5. Good(d, out) /\ R \in SUBSET DOMAIN d.scripts
    BY <2>3 DEF Drained, Extends, SameHats
  <2>6. Stopped(d, e, out, R)
    BY <2>5, StopAllGood
  <2> HIDE DEF e
  <2>7. /\ Good(e, out) /\ R \in SUBSET DOMAIN e.scripts
        /\ Spare(e, out, u.start, R) /\ DOMAIN e.scripts = DOMAIN d.scripts
    BY <2>4, <2>5, <2>6 DEF Stopped, SameHats, Spare
  <2>8. Scheduled(e, t, out, R, context, 0, u.start)
    BY <2>7, ScheduleGood
  <2> HIDE DEF t
  <2>9. After(d, t, R)
    <3>1. After(d, e, R)
      BY <2>6, AfterStopped
    <3>2. Extends(e, t)
      BY <2>8 DEF Scheduled
    <3> QED
      BY <2>7, <3>1, <3>2, ThenExtends
  <2>10. Unfolds(s, did_it, R, d, t)
    BY <2>3, <2>9, DrainUnfolds
  <2> QED
    BY <2>1, <2>10
<1> QED
  BY <1>1, <1>2
-----------------------------------------------------------------------------
(* The inductive invariant, and each call on it.                           *)

Inv ==
  /\ Good(proj, {})
  /\ Waits(proj)
  /\ Grounded(proj)
  /\ Quiet(proj)
  /\ roots \in Seq(1 .. MaxScripts)

\* What every call leaves of it.
Kept(s) == Good(s, {}) /\ Waits(s) /\ Grounded(s) /\ Quiet(s)

\* The keys of q stand in r in the same order, from position a + 1 and b + 1 on.
Shifted(q, a, r, b) ==
  \A m \in DOMAIN q : m > a => (m - a) + b \in DOMAIN r /\ r[(m - a) + b] = q[m]

\* The course of a call from state r on.  The process at position n of the queue
\* has its turn (none has for n = 0), which leaves w, perhaps with a new process
\* x; do_once makes it d; what the call begins or stops makes it t; and a push in
\* front (c = 1) or behind ends the call.
Course(r, did_it, n, x, R, w, d, t, c) ==
  /\ Shifted(r.queue, n, w.queue, 0)
  /\ w.scripts = r.scripts
  /\ Live(w) \subseteq Live(r) \union {x}
  /\ \A i \in DOMAIN r.scripts : IsRunning(w, i) => IsRunning(r, i)
  /\ \/ \A i \in DOMAIN r.scripts : IsRunning(r, i) => IsRunning(w, i)
     \/ t = d
  /\ IF did_it THEN d = w
               ELSE Begins(w, d) \/ Live(t) \subseteq Live(r)
  /\ Extends(w, d)
  /\ d.queue \in Seq(Key) /\ ~ InQueue(d.queue, x)
  /\ After(d, t, R)
  /\ \A i \in R : i \in Ready(proj) => ~ did_it /\ Interrupted(i)
  /\ Live(proj') = Live(t) /\ proj'.scripts = t.scripts
  /\ Shifted(t.queue, 0, proj'.queue, c)
  /\ \/ c = 0
     \/ c = 1 /\ n \in DOMAIN r.queue /\ proj'.queue[1] = r.queue[n]

Runs(r, did_it) ==
  \/ Live(proj') = {}
  \/ \E n \in FirstLive(r) \union {0} : \E x, R, w, d, t, c :
       Course(r, did_it, n, x, R, w, d, t, c)

LEMMA RunsCourse ==
  ASSUME NEW r, NEW did_it, NEW n \in FirstLive(r) \union {0}, NEW x, NEW R,
         NEW w, NEW d, NEW t, NEW c, Course(r, did_it, n, x, R, w, d, t, c)
  PROVE  Runs(r, did_it)
BY DEF Runs

\* What a push at either end does to the places in a queue.
LEMMA PushShifts ==
  ASSUME NEW s, NEW k, NEW out, Good(s, out), k \in out
  PROVE  /\ Shifted(s.queue, 0, PushFront(s, k).queue, 1)
         /\ PushFront(s, k).queue[1] = k
         /\ Shifted(s.queue, 0, PushBack(s, k).queue, 0)
         /\ Live(PushFront(s, k)) = Live(s) /\ Live(PushBack(s, k)) = Live(s)
         /\ PushFront(s, k).scripts = s.scripts /\ PushBack(s, k).scripts = s.scripts
<1> DEFINE F == <<k>> \o s.queue
           B == Append(s.queue, k)
<1>1. s.queue \in Seq(Key) /\ DOMAIN s = Fields /\ k \in Key
  BY DEF Good, IsState
<1>2. /\ PushFront(s, k) = [s EXCEPT !.queue = F]
      /\ PushBack(s, k) = [s EXCEPT !.queue = B]
  BY <1>1 DEF PushFront, PushBack, Fields
<1>3. \A m \in DOMAIN s.queue : /\ m \in Nat /\ m > 0
                               /\ m + 1 \in DOMAIN F /\ F[m + 1] = s.queue[m]
                               /\ m \in DOMAIN B /\ B[m] = s.queue[m]
  BY <1>1
<1>4. F[1] = k
  BY <1>1
<1> HIDE DEF F, B
<1>5. /\ PushFront(s, k).queue = F /\ PushBack(s, k).queue = B
      /\ PushFront(s, k).processes = s.processes
      /\ PushBack(s, k).processes = s.processes
      /\ PushFront(s, k).scripts = s.scripts /\ PushBack(s, k).scripts = s.scripts
  BY <1>1, <1>2, FieldUpdate
<1>6. Shifted(s.queue, 0, F, 1) /\ Shifted(s.queue, 0, B, 0)
  <2>1. \A m \in DOMAIN s.queue : (m - 0) + 1 = m + 1 /\ (m - 0) + 0 = m
    BY <1>3
  <2> QED
    BY <1>3, <2>1 DEF Shifted
<1> QED
  BY <1>4, <1>5, <1>6 DEF Live

\* A turn moves every process behind the one it is given.
LEMMA TurnShifts ==
  ASSUME NEW s, Good(s, {}), NEW n \in FirstLive(s)
  PROVE  Shifted(s.queue, n, Turn(s, n).queue, 0)
<1> DEFINE q == SubSeq(s.queue, n + 1, Len(s.queue))
<1>1. s.queue \in Seq(Key) /\ DOMAIN s = Fields /\ n \in DOMAIN s.queue
  BY DEF Good, IsState, FirstLive
<1>2. \A m \in DOMAIN s.queue :
        m > n => (m - n) + 0 \in DOMAIN q /\ q[(m - n) + 0] = s.queue[m]
  <2>1. DOMAIN s.queue = 1 .. Len(s.queue) /\ Len(s.queue) \in Nat /\ n \in Nat
    BY <1>1
  <2>2. \A a \in n + 1 .. Len(s.queue) : s.queue[a] \in Key
    BY <1>1, <2>1
  <2>3. /\ DOMAIN q = 1 .. Len(s.queue) - n
        /\ \A a \in 1 .. Len(s.queue) - n : q[a] = s.queue[n + a]
    BY <1>1, <2>1, <2>2
  <2> SUFFICES ASSUME NEW m \in DOMAIN s.queue, m > n
               PROVE  (m - n) + 0 \in DOMAIN q /\ q[(m - n) + 0] = s.queue[m]
    OBVIOUS
  <2>4. (m - n) + 0 \in 1 .. Len(s.queue) - n /\ n + ((m - n) + 0) = m
    BY <2>1
  <2> QED
    BY <2>3, <2>4
<1> HIDE DEF q
<1>3. Turn(s, n).queue = q
  <2> DEFINE u == [s EXCEPT !.queue = q]
  <2>1. u.queue = q /\ DOMAIN u = Fields
    BY <1>1, FieldUpdate
  <2>2. Turn(s, n) = SetWaiting(u, s.queue[n], FALSE)
    BY DEF Turn, q
  <2> HIDE DEF u
  <2> QED
    BY <2>1, <2>2, FieldUpdate DEF SetWaiting
<1> QED
  BY <1>2, <1>3 DEF Shifted

\* A process has its turn, and returns to the queue at the end of the call.
HadTurn(r, n, w) ==
  /\ Shifted(r.queue, n, w.queue, 0)
  /\ w.scripts = r.scripts /\ Live(w) = Live(r)
  /\ \A i \in DOMAIN r.scripts : IsRunning(w, i) = IsRunning(r, i)

LEMMA TurnRuns ==
  ASSUME NEW r, NEW did_it, NEW n \in FirstLive(r), NEW R, NEW w, NEW d, NEW t,
         NEW out, Good(t, out), r.queue[n] \in out, HadTurn(r, n, w),
         Unfolds(w, did_it, R, d, t),
         \A i \in R : i \in Ready(proj) => ~ did_it /\ Interrupted(i),
         \/ proj' = PushFront(t, r.queue[n])
         \/ proj' = PushBack(t, r.queue[n])
  PROVE  Runs(r, did_it)
<1>1. PICK c \in {0, 1} :
        /\ Live(proj') = Live(t) /\ proj'.scripts = t.scripts
        /\ Shifted(t.queue, 0, proj'.queue, c)
        /\ c = 0 \/ (c = 1 /\ proj'.queue[1] = r.queue[n])
  BY PushShifts
<1>2. n \in DOMAIN r.queue
  BY DEF FirstLive
<1>3. /\ Shifted(r.queue, n, w.queue, 0) /\ w.scripts = r.scripts
      /\ Live(w) = Live(r)
      /\ \A i \in DOMAIN r.scripts : IsRunning(w, i) = IsRunning(r, i)
  BY DEF HadTurn
<1>4. /\ IF did_it THEN d = w ELSE Begins(w, d) \/ Live(t) \subseteq Live(w)
      /\ Extends(w, d) /\ d.queue \in Seq(Key) /\ After(d, t, R)
  BY DEF Unfolds
<1>5. ~ InQueue(d.queue, NoKey)
  BY <1>4, KeyAssumption DEF InQueue
<1>6. IF did_it THEN d = w ELSE Begins(w, d) \/ Live(t) \subseteq Live(r)
  BY <1>3, <1>4
<1>7. Course(r, did_it, n, NoKey, R, w, d, t, c)
  BY <1>1, <1>2, <1>3, <1>4, <1>5, <1>6 DEF Course
<1> QED
  BY <1>7, RunsCourse

\* A turn that touches neither the scripts nor the queue any further.
LEMMA StillHadTurn ==
  ASSUME NEW r, NEW n, NEW s, NEW w, HadTurn(r, n, s), w.scripts = s.scripts,
         w.queue = s.queue, Live(w) = Live(s),
         \A j \in Live(s) : w.processes[j].running = s.processes[j].running
  PROVE  HadTurn(r, n, w)
BY DEF HadTurn, IsRunning

\* Input gives nobody a turn.
LEMMA InputCourse ==
  ASSUME Inv, NEW d, NEW R, Unfolds(proj, FALSE, R, d, proj'),
         \A i \in R : i \in Ready(proj) => Interrupted(i), Good(proj', {}),
         NEW n, n = 0
  PROVE  Course(proj, FALSE, n, NoKey, R, proj, d, proj', n)
<1>1. /\ Begins(proj, d) \/ Live(proj') \subseteq Live(proj)
      /\ Extends(proj, d) /\ d.queue \in Seq(Key) /\ After(d, proj', R)
  BY DEF Unfolds
<1>2. ~ InQueue(d.queue, NoKey)
  BY <1>1, KeyAssumption DEF InQueue
<1>3. Shifted(proj.queue, 0, proj.queue, 0) /\ Shifted(proj'.queue, 0, proj'.queue, 0)
  BY DEF Inv, Good, IsState, Shifted
<1> QED
  BY <1>1, <1>2, <1>3 DEF Course

LEMMA InputRuns ==
  ASSUME Inv, NEW d, NEW R, Unfolds(proj, FALSE, R, d, proj'),
         \A i \in R : i \in Ready(proj) => Interrupted(i), Good(proj', {})
  PROVE  Runs(proj, FALSE)
<1> DEFINE n == 0
<1>1. Course(proj, FALSE, n, NoKey, R, proj, d, proj', n)
  <2>1. n = 0
    OBVIOUS
  <2> HIDE DEF n
  <2> QED
    BY <2>1, InputCourse
<1> QED
  BY <1>1, RunsCourse

LEMMA DrainingRuns ==
  ASSUME Inv, NEW d, Unfolds(proj, FALSE, {}, d, proj'), Good(proj', {})
  PROVE  Runs(proj, FALSE)
<1> DEFINE none == {}
<1>1. \A i \in none : i \in Ready(proj) => Interrupted(i)
  OBVIOUS
<1>2. Unfolds(proj, FALSE, none, d, proj')
  OBVIOUS
<1> HIDE DEF none
<1> QED
  BY <1>1, <1>2, InputRuns

\* A step that stops no script.
LEMMA SparingRuns ==
  ASSUME NEW r, NEW did_it, NEW n \in FirstLive(r), NEW w, NEW d, NEW t,
         NEW out, Good(t, out), r.queue[n] \in out, HadTurn(r, n, w),
         Unfolds(w, did_it, {}, d, t),
         \/ proj' = PushFront(t, r.queue[n])
         \/ proj' = PushBack(t, r.queue[n])
  PROVE  Runs(r, did_it)
<1> DEFINE none == {}
<1>1. \A i \in none : i \in Ready(proj) => ~ did_it /\ Interrupted(i)
  OBVIOUS
<1>2. Unfolds(w, did_it, none, d, t)
  OBVIOUS
<1> HIDE DEF none
<1> QED
  BY <1>1, <1>2, TurnRuns

\* Where nothing waits, no script is ready.
LEMMA NoneReady ==
  ASSUME Inv, NEW R, \A i \in R : proj.scripts[i].event.type \notin Patient
  PROVE  \A i \in R : i \notin Ready(proj)
BY DEF Inv, Waits, Ready

\* Who is behind the process that had its turn stays there.
LEMMA CoursePlaces ==
  ASSUME NEW r, NEW did_it, NEW n \in Nat, NEW x, NEW R, NEW w, NEW d, NEW t,
         NEW c, Course(r, did_it, n, x, R, w, d, t, c), Good(r, {})
  PROVE  Shifted(r.queue, n, proj'.queue, c)
<1>1. DOMAIN r.queue \subseteq Nat /\ c \in {0, 1}
  BY DEF Good, IsState, Course
<1>2. /\ Shifted(r.queue, n, w.queue, 0) /\ Heads(w.queue, d.queue)
      /\ Heads(d.queue, t.queue) /\ Shifted(t.queue, 0, proj'.queue, c)
  BY DEF Course, Extends, After
<1> SUFFICES ASSUME NEW m \in DOMAIN r.queue, m > n
             PROVE  (m - n) + c \in DOMAIN proj'.queue /\ proj'.queue[(m - n) + c] = r.queue[m]
  BY DEF Shifted
<1>3. (m - n) + 0 \in DOMAIN w.queue /\ w.queue[(m - n) + 0] = r.queue[m]
  BY <1>2 DEF Shifted
<1>4. m - n \in Nat /\ m - n > 0 /\ (m - n) + 0 = m - n
  BY <1>1
<1>5. m - n \in DOMAIN t.queue /\ t.queue[m - n] = r.queue[m]
  BY <1>2, <1>3, <1>4 DEF Heads
<1>6. ((m - n) - 0) + c = (m - n) + c
  BY <1>1, <1>4
<1> QED
  BY <1>2, <1>4, <1>5, <1>6 DEF Shifted

\* Round robin, as a relation of two states.
InTurn ==
  \A a, b \in Live(proj) \intersect Live(proj') :
    Before(proj.queue, a, b) /\ Before(proj'.queue, b, a) =>
      \E n \in FirstLive(proj) : proj.queue[n] = a

LEMMA RunsInTurn ==
  ASSUME Inv, Good(proj', {}), NEW r, Good(r, {}), Extends(proj, r), NEW did_it,
         Runs(r, did_it)
  PROVE  InTurn
<1> SUFFICES ASSUME NEW a \in Live(proj) \intersect Live(proj'),
                    NEW b \in Live(proj) \intersect Live(proj'),
                    Before(proj.queue, a, b), Before(proj'.queue, b, a)
             PROVE  \E n \in FirstLive(proj) : proj.queue[n] = a
  BY DEF InTurn
<1>1. PICK n \in FirstLive(r) \union {0} : \E x, R, w, d, t, c :
        Course(r, did_it, n, x, R, w, d, t, c)
  BY DEF Runs
<1>2. /\ r.queue \in Seq(Key) /\ proj.queue \in Seq(Key) /\ proj'.queue \in Seq(Key)
      /\ Once(proj'.queue) /\ Heads(proj.queue, r.queue) /\ Live(proj) \subseteq Live(r)
  BY DEF Inv, Good, IsState, Queued, Extends
<1>3. /\ DOMAIN r.queue \subseteq Nat \ {0} /\ DOMAIN proj.queue \subseteq Nat \ {0}
      /\ DOMAIN proj'.queue \subseteq Nat
      /\ DOMAIN proj.queue = 1 .. Len(proj.queue) /\ Len(proj.queue) \in Nat
      /\ n \in Nat
  BY <1>2 DEF FirstLive
<1>4. PICK c \in {0, 1} : Shifted(r.queue, n, proj'.queue, c)
  <2>1. PICK x, R, w, d, t, c : Course(r, did_it, n, x, R, w, d, t, c)
    BY <1>1
  <2>2. Shifted(r.queue, n, proj'.queue, c)
    BY <1>3, <2>1, CoursePlaces
  <2> QED
    BY <2>1, <2>2 DEF Course
<1>5. PICK ma \in DOMAIN proj.queue, mb \in DOMAIN proj.queue :
        ma < mb /\ proj.queue[ma] = a /\ proj.queue[mb] = b
  BY DEF Before
<1>6. /\ ma \in DOMAIN r.queue /\ r.queue[ma] = a /\ mb \in DOMAIN r.queue
      /\ r.queue[mb] = b
  BY <1>2, <1>5 DEF Heads
<1>7. n <= ma
  <2>1. CASE n = 0
    BY <1>3, <2>1
  <2>2. CASE n \in FirstLive(r)
    <3>1. ma \notin 1 .. n - 1
      BY <1>2, <1>6, <2>2 DEF FirstLive
    <3> QED
      BY <1>3, <1>5, <3>1
  <2> QED
    BY <2>1, <2>2
<1>8. CASE n < ma
  <2> DEFINE pa == (ma - n) + c
             pb == (mb - n) + c
  <2>1. /\ pa \in DOMAIN proj'.queue /\ proj'.queue[pa] = a
        /\ pb \in DOMAIN proj'.queue /\ proj'.queue[pb] = b
    BY <1>3, <1>4, <1>5, <1>6, <1>8 DEF Shifted
  <2>2. pa < pb
    BY <1>3, <1>5
  <2> HIDE DEF pa, pb
  <2>3. PICK qb \in DOMAIN proj'.queue, qa \in DOMAIN proj'.queue :
          qb < qa /\ proj'.queue[qb] = b /\ proj'.queue[qa] = a
    BY DEF Before
  <2>4. qa = pa /\ qb = pb
    BY <1>2, <2>1, <2>3 DEF Once
  <2> QED
    BY <1>3, <2>2, <2>3, <2>4
<1>9. CASE n = ma
  <2>1. n \in FirstLive(r)
    BY <1>3, <1>9
  <2>2. \A e \in 1 .. n - 1 : e \in DOMAIN proj.queue
    BY <1>3, <1>9
  <2>3. \A e \in 1 .. n - 1 : proj.queue[e] \notin Live(proj)
    BY <1>2, <2>1, <2>2 DEF FirstLive, Heads
  <2> QED
    BY <1>5, <1>9, <2>3 DEF FirstLive
<1> QED
  BY <1>3, <1>7, <1>8, <1>9

\* Who is not in d's queue yet is behind those who are.
LEMMA CourseBehind ==
  ASSUME NEW r, NEW did_it, NEW n, NEW x, NEW R, NEW w, NEW d, NEW t, NEW c,
         Course(r, did_it, n, x, R, w, d, t, c), Good(proj', {}),
         NEW f, InQueue(d.queue, f), NEW k \in Live(proj'), ~ InQueue(d.queue, k),
         n \in DOMAIN r.queue => r.queue[n] # k
  PROVE  Before(proj'.queue, f, k)
<1>1. /\ d.queue \in Seq(Key) /\ Heads(d.queue, t.queue)
      /\ Shifted(t.queue, 0, proj'.queue, c)
      /\ c = 0 \/ (c = 1 /\ proj'.queue[1] # k)
  <2>1. /\ d.queue \in Seq(Key) /\ After(d, t, R)
        /\ Shifted(t.queue, 0, proj'.queue, c)
        /\ \/ c = 0
           \/ c = 1 /\ n \in DOMAIN r.queue /\ proj'.queue[1] = r.queue[n]
    BY DEF Course
  <2>2. Heads(d.queue, t.queue)
    BY ONLY <2>1 DEF After
  <2> QED
    BY <2>1, <2>2
<1>2. /\ DOMAIN d.queue = 1 .. Len(d.queue) /\ Len(d.queue) \in Nat
      /\ proj'.queue \in Seq(Key) /\ DOMAIN proj'.queue \subseteq Nat \ {0}
  BY <1>1 DEF Good, IsState
<1>3. ASSUME NEW m \in DOMAIN d.queue
      PROVE  m + c \in DOMAIN proj'.queue /\ proj'.queue[m + c] = d.queue[m]
  <2>1. m \in DOMAIN t.queue /\ t.queue[m] = d.queue[m]
    BY <1>1 DEF Heads
  <2>2. m > 0 /\ (m - 0) + c = m + c
    BY <1>1, <1>2
  <2> QED
    BY <1>1, <2>1, <2>2 DEF Shifted
<1>4. PICK a \in DOMAIN d.queue : d.queue[a] = f
  BY DEF InQueue
<1>5. PICK b \in DOMAIN proj'.queue : proj'.queue[b] = k
  BY DEF Good, Queued, InQueue
<1>6. a + c < b
  <2> SUFFICES ASSUME b <= a + c PROVE FALSE
    BY <1>1, <1>2, <1>4, <1>5
  <2>1. CASE b <= c
    BY <1>1, <1>2, <1>5, <2>1
  <2>2. CASE b > c
    <3>1. b - c \in DOMAIN d.queue /\ (b - c) + c = b
      BY <1>1, <1>2, <1>4, <1>5, <2>2
    <3>2. d.queue[b - c] = k
      BY <1>3, <1>5, <3>1
    <3> QED
      BY <3>1, <3>2 DEF InQueue
  <2> QED
    BY <1>1, <1>2, <1>5, <2>1, <2>2
<1> QED
  BY <1>3, <1>4, <1>5, <1>6 DEF Before

\* The process begun for script i is new, and is queued before process k.
Led(i, k) ==
  LET first == proj'.scripts[i].process
  IN  /\ first \notin {NoKey, proj.scripts[i].process}
      /\ HasTurnAtOnce(i) \/ Before(proj'.queue, first, k)

\* The contexts that waited go first, as a relation of two states.
WaitersLead ==
  \A i \in Ready(proj), k \in Live(proj') \ Live(proj) :
    /\ \A j \in DOMAIN proj.scripts :
         proj.scripts[j].context_queue # <<>> => proj'.scripts[j].process # k
    /\ ~ Interrupted(i)
    => Led(i, k)

\* A key that a call is given is not the one a script remembers.
LEMMA GivenKeys ==
  ASSUME Inv, NEW k \in Reserved, NEW i \in DOMAIN proj.scripts
  PROVE  k \notin {NoKey, proj.scripts[i].process}
<1>1. k \in Key /\ k \notin Held(proj)
  BY DEF Reserved, Free
<1> QED
  BY <1>1, KeyAssumption DEF Held

\* In a call that delivers no message, if no script that is spared by it runs k
\* for a context that waited.
LEMMA CourseLeads ==
  ASSUME Inv, Good(proj', {}), NEW n \in FirstLive(proj) \union {0},
         NEW x, NEW R, NEW w, NEW d, NEW t, NEW c,
         Course(proj, FALSE, n, x, R, w, d, t, c),
         NEW i \in Ready(proj) \ R, NEW k \in Live(proj') \ Live(proj),
         \A j \in DOMAIN proj.scripts \ R :
           proj.scripts[j].context_queue # <<>> => proj'.scripts[j].process # k
  PROVE  Led(i, k)
<1> DEFINE first == proj'.scripts[i].process
<1>1. /\ w.scripts = proj.scripts /\ Live(w) \subseteq Live(proj) \union {x}
      /\ \A j \in DOMAIN proj.scripts : IsRunning(w, j) => IsRunning(proj, j)
      /\ Begins(w, d) \/ Live(t) \subseteq Live(proj)
      /\ Extends(w, d) /\ ~ InQueue(d.queue, x)
      /\ After(d, t, R)
      /\ Live(proj') = Live(t) /\ proj'.scripts = t.scripts
  BY DEF Course
<1>2. Begins(w, d) /\ k \in Live(t)
  BY <1>1
<1>3. i \in Ready(w) /\ i \in DOMAIN proj.scripts
      /\ \A j \in Ready(w) : /\ j \in DOMAIN proj.scripts /\ j \in DOMAIN d.scripts
                             /\ proj.scripts[j].context_queue # <<>>
  BY <1>1 DEF Ready, Extends, SameHats
<1>4. /\ InQueue(d.queue, d.scripts[i].process)
      /\ d.scripts[i].process \in Live(d) \ Live(w)
      /\ first = d.scripts[i].process
  BY <1>1, <1>2, <1>3 DEF Begins, After
<1>5. first \notin {NoKey, proj.scripts[i].process}
  <2>1. first \in Reserved
    BY <1>1, <1>4 DEF Extends
  <2> QED
    BY <1>3, <2>1, GivenKeys
<1>6. ~ InQueue(d.queue, k)
  <2> SUFFICES ASSUME InQueue(d.queue, k) PROVE FALSE
    OBVIOUS
  <2>1. k \in Live(d) \ Live(w)
    BY <1>1, <1>2 DEF After
  <2>2. PICK j \in Ready(w) : d.scripts[j].process = k /\ IsRunning(d, j)
    BY <1>2, <2>1 DEF Begins
  <2>3. j \notin R
    BY <1>1, <1>2, <1>3, <2>2 DEF After
  <2>4. t.scripts[j].process = k
    BY <1>1, <1>3, <2>2, <2>3 DEF After
  <2> QED
    BY <1>1, <1>3, <2>3, <2>4
<1>7. n \in DOMAIN proj.queue => proj.queue[n] # k
  <2>1. proj.queue \in Seq(Key)
    BY DEF Inv, Good, IsState
  <2>2. 0 \notin DOMAIN proj.queue
    BY <2>1
  <2> QED
    BY <2>2 DEF FirstLive
<1>8. Before(proj'.queue, d.scripts[i].process, k)
  BY <1>4, <1>6, <1>7, CourseBehind
<1> QED
  BY <1>4, <1>5, <1>8 DEF Led

LEMMA RunsLead ==
  ASSUME Inv, Good(proj', {}), Runs(proj, FALSE)
  PROVE  WaitersLead
<1> SUFFICES ASSUME NEW i \in Ready(proj), NEW k \in Live(proj') \ Live(proj),
                    \A j \in DOMAIN proj.scripts :
                      proj.scripts[j].context_queue # <<>> =>
                        proj'.scripts[j].process # k,
                    ~ Interrupted(i)
             PROVE  Led(i, k)
  BY DEF WaitersLead
<1>1. PICK n \in FirstLive(proj) \union {0} : \E x, R, w, d, t, c :
        Course(proj, FALSE, n, x, R, w, d, t, c)
  BY DEF Runs
<1>2. PICK x, R, w, d, t, c : Course(proj, FALSE, n, x, R, w, d, t, c)
  BY <1>1
<1>3. i \notin R
  BY <1>2 DEF Course
<1> QED
  BY <1>2, <1>3, CourseLeads

\* In a call that delivers a message the contexts are consumed before it is
\* received, which leads from proj over e to r.
LEMMA DeliveredLead ==
  ASSUME Inv, Good(proj', {}), NEW e, Good(e, {}), Begins(proj, e), Extends(proj, e),
         NEW r, Good(r, {}), Extends(e, r), Runs(r, TRUE)
  PROVE  WaitersLead
<1> DEFINE first(i) == proj'.scripts[i].process
<1> SUFFICES ASSUME NEW i \in Ready(proj), NEW k \in Live(proj') \ Live(proj),
                    \A j \in DOMAIN proj.scripts :
                      proj.scripts[j].context_queue # <<>> => first(j) # k
             PROVE  Led(i, k)
  BY DEF WaitersLead
<1> DEFINE f == e.scripts[i].process
<1>1. PICK n \in FirstLive(r) \union {0} : \E x, R, w, d, t, c :
        Course(r, TRUE, n, x, R, w, d, t, c)
  BY DEF Runs
<1>2. PICK x, R, w, d, t, c : Course(r, TRUE, n, x, R, w, d, t, c)
  BY <1>1
<1>3. /\ w.scripts = r.scripts /\ Live(w) \subseteq Live(r) \union {x}
      /\ \/ \A j \in DOMAIN r.scripts : IsRunning(r, j) => IsRunning(w, j)
         \/ t = w
      /\ Shifted(r.queue, n, w.queue, 0)
      /\ ~ InQueue(w.queue, x) /\ d = w
      /\ After(w, t, R)
      /\ \A j \in R : j \notin Ready(proj)
      /\ Live(proj') = Live(t) /\ proj'.scripts = t.scripts
  BY <1>2 DEF Course
<1>4. ASSUME NEW j \in Ready(proj)
      PROVE  /\ e.scripts[j].process \in Live(r) \ Live(proj)
             /\ e.scripts[j].process \in Live(e)
             /\ ~ InQueue(proj.queue, e.scripts[j].process)
             /\ InQueue(e.queue, e.scripts[j].process)
             /\ t.scripts[j].process = e.scripts[j].process
             /\ j \in DOMAIN proj.scripts /\ proj.scripts[j].context_queue # <<>>
  <2>1. j \in DOMAIN proj.scripts /\ proj.scripts[j].context_queue # <<>>
    BY DEF Ready
  <2>2. j \in DOMAIN e.scripts /\ j \in DOMAIN r.scripts
    BY <2>1 DEF Extends, SameHats
  <2>3. /\ e.scripts[j].process \in Live(e) \ Live(proj)
        /\ InQueue(e.queue, e.scripts[j].process) /\ IsRunning(e, j)
    BY DEF Begins
  <2>4. r.scripts[j].process = e.scripts[j].process /\ IsRunning(r, j)
    BY <2>2, <2>3 DEF Extends, IsRunning
  <2>5. t.scripts[j].process = r.scripts[j].process
    <3>1. CASE t = w
      BY <1>3, <3>1
    <3>2. CASE IsRunning(w, j)
      BY <1>3, <2>2, <3>2 DEF After
    <3> QED
      BY <1>3, <2>2, <2>4, <3>1, <3>2
  <2> QED
    BY <2>1, <2>3, <2>4, <2>5 DEF Extends
<1>5. first(i) = f /\ f \in Live(r)
  BY <1>3, <1>4
<1>14. first(i) \notin {NoKey, proj.scripts[i].process}
  <2>1. f \in Live(e) \ Live(proj) /\ i \in DOMAIN proj.scripts
    BY <1>4
  <2>2. f \in Reserved
    BY <2>1 DEF Extends
  <2> QED
    BY <1>5, <2>1, <2>2, GivenKeys
<1> SUFFICES ASSUME ~ HasTurnAtOnce(i) PROVE Before(proj'.queue, first(i), k)
  BY <1>14 DEF Led
<1>6. /\ r.queue \in Seq(Key) /\ proj.queue \in Seq(Key) /\ e.queue \in Seq(Key)
      /\ Once(r.queue) /\ Once(e.queue) /\ Heads(e.queue, r.queue)
      /\ Heads(proj.queue, r.queue) /\ Live(proj) \subseteq Live(r)
      /\ Live(e) \subseteq Live(r)
  BY DEF Inv, Good, IsState, Queued, Extends, Heads
<1>7. /\ DOMAIN r.queue \subseteq Nat \ {0} /\ DOMAIN proj.queue \subseteq Nat \ {0}
      /\ DOMAIN proj.queue = 1 .. Len(proj.queue) /\ Len(proj.queue) \in Nat
      /\ DOMAIN e.queue = 1 .. Len(e.queue) /\ Len(e.queue) \in Nat
      /\ n \in Nat
  BY <1>6 DEF FirstLive
<1>8. PICK m1 \in DOMAIN e.queue : e.queue[m1] = f
  BY <1>4 DEF InQueue
<1>9. m1 \in DOMAIN r.queue /\ r.queue[m1] = f /\ m1 \in Nat /\ m1 > 0
  BY <1>6, <1>7, <1>8 DEF Heads
<1>10. n < m1
  <2>1. n <= m1
    <3>1. CASE n = 0
      BY <1>9, <3>1
    <3>2. CASE n \in FirstLive(r)
      <4>1. m1 \notin 1 .. n - 1
        BY <1>5, <1>9, <3>2 DEF FirstLive
      <4> QED
        BY <1>7, <1>9, <4>1
    <3> QED
      BY <3>1, <3>2
  <2> SUFFICES ASSUME n = m1 PROVE FALSE
    BY <1>7, <1>9, <2>1
  <2>2. n \in FirstLive(r)
    BY <1>9
  <2>3. ASSUME NEW a \in DOMAIN r.queue, r.queue[a] \in Live(r)
        PROVE  n <= a
    <3>1. a \notin 1 .. n - 1
      BY <2>2, <2>3 DEF FirstLive
    <3> QED
      BY <1>7, <3>1
  <2>4. FirstLive(proj) = {}
    <3> SUFFICES ASSUME NEW a \in FirstLive(proj) PROVE FALSE
      OBVIOUS
    <3>1. a \in DOMAIN proj.queue /\ proj.queue[a] \in Live(proj)
      BY DEF FirstLive
    <3>2. a \in DOMAIN r.queue /\ r.queue[a] \in Live(r)
      BY <1>6, <3>1 DEF Heads
    <3>3. n \in DOMAIN proj.queue
      BY <1>7, <1>9, <2>3, <3>1, <3>2
    <3>4. proj.queue[n] = f
      BY <1>6, <1>9, <3>3 DEF Heads
    <3> QED
      BY <1>4, <3>3, <3>4 DEF InQueue
  <2>5. ASSUME NEW j \in Ready(proj) PROVE i <= j
    <3>1. i \in Nat /\ j \in Nat
      <4>1. DOMAIN proj.scripts \subseteq Nat
        BY ScriptFacts DEF Inv
      <4> QED
        BY <1>4, <4>1
    <3> SUFFICES ASSUME j < i PROVE FALSE
      BY <3>1
    <3>2. Before(e.queue, e.scripts[j].process, f)
      BY DEF Begins
    <3>3. PICK a \in DOMAIN e.queue, b \in DOMAIN e.queue :
            a < b /\ e.queue[a] = e.scripts[j].process /\ e.queue[b] = f
      BY <3>2 DEF Before
    <3>4. b = m1
      BY <1>6, <1>8, <3>3 DEF Once
    <3>5. a \in DOMAIN r.queue /\ r.queue[a] \in Live(r)
      BY <1>4, <1>6, <3>3 DEF Heads
    <3> QED
      BY <1>7, <2>3, <3>3, <3>4, <3>5
  <2> QED
    BY <2>4, <2>5 DEF HasTurnAtOnce
<1>11. Shifted(r.queue, n, proj'.queue, c) /\ c \in {0, 1}
  BY <1>2, <1>7, CoursePlaces DEF Course
<1>12. CASE k \in Live(r)
  <2>1. k \notin Live(e)
    <3> SUFFICES ASSUME k \in Live(e) PROVE FALSE
      OBVIOUS
    <3>1. PICK j \in Ready(proj) : e.scripts[j].process = k
      BY DEF Begins
    <3> QED
      BY <1>3, <1>4, <3>1
  <2>2. ~ InQueue(e.queue, k)
    BY <1>12, <2>1 DEF Extends
  <2>3. PICK m2 \in DOMAIN r.queue : r.queue[m2] = k
    BY <1>12 DEF Good, Queued, InQueue
  <2>4. m1 < m2
    <3>1. m2 \notin DOMAIN e.queue
      BY <1>6, <2>2, <2>3 DEF Heads, InQueue
    <3> QED
      BY <1>7, <1>8, <2>3, <3>1
  <2> DEFINE p1 == (m1 - n) + c
             p2 == (m2 - n) + c
  <2>5. /\ p1 \in DOMAIN proj'.queue /\ proj'.queue[p1] = f
        /\ p2 \in DOMAIN proj'.queue /\ proj'.queue[p2] = k
    BY <1>7, <1>9, <1>10, <1>11, <2>3, <2>4 DEF Shifted
  <2>6. p1 < p2
    BY <1>7, <1>9, <1>11, <2>3, <2>4
  <2> HIDE DEF p1, p2
  <2> QED
    BY <1>5, <2>5, <2>6 DEF Before
<1>13. CASE k \notin Live(r)
  <2>1. ~ InQueue(d.queue, k)
    BY <1>3, <1>13 DEF After
  <2>2. InQueue(d.queue, f)
    BY <1>3, <1>9, <1>10 DEF Shifted, InQueue
  <2>3. n \in DOMAIN r.queue => r.queue[n] # k
    <3>1. 0 \notin DOMAIN r.queue
      BY <1>7
    <3> QED
      BY <1>13, <3>1 DEF FirstLive
  <2>4. Before(proj'.queue, f, k)
    <3> HIDE DEF f
    <3> QED
      BY <1>2, <2>1, <2>2, <2>3, CourseBehind
  <2> QED
    BY <1>5, <2>4
<1> QED
  BY <1>12, <1>13

\* A call begins with keys whose barriers nothing holds: Held counts barriers.
LEMMA InvRooted ==
  ASSUME Inv
  PROVE  Rooted(proj, {})
<1>1. ASSUME NEW j \in Live(proj)
      PROVE  proj.processes[j].barrier \notin Reserved
  BY DEF Reserved, Free, Held
<1>2. ASSUME NEW i \in DOMAIN proj.scripts,
             NEW n \in DOMAIN proj.scripts[i].context_queue
      PROVE  proj.scripts[i].context_queue[n].barrier \notin Reserved
  <2>1. proj.scripts[i].context_queue[n] \in Range(proj.scripts[i].context_queue)
    BY DEF Range
  <2> QED
    BY <2>1 DEF Reserved, Free, Held
<1> QED
  BY <1>1, <1>2 DEF Inv, Rooted, Unheld

\* When processes are begun, nothing holds the barriers of fewer keys.
LEMMA RootedWeaker ==
  ASSUME NEW s, NEW out, Rooted(s, {})
  PROVE  Rooted(s, out)
BY DEF Rooted, Unheld

\* A process without a barrier is begun under a reserved key.
LEMMA InsertRooted ==
  ASSUME NEW s, NEW t, NEW out, NEW k \in Reserved \ out, Rooted(s, out),
         Inserted(s, t, out, k), t.processes[k].barrier = NoKey
  PROVE  Rooted(t, out \union {k})
<1>1. k # NoKey /\ NoKey \notin Reserved
  BY KeyAssumption DEF Reserved, Free
<1>2. /\ Live(t) = Live(s) \union {k} /\ t.scripts = s.scripts
      /\ \A j \in Live(s) : t.processes[j] = s.processes[j]
  BY DEF Inserted
<1>3. \A j \in Live(t) : t.processes[j].barrier \notin Reserved \ out
  BY <1>1, <1>2 DEF Rooted, Unheld
<1>4. ASSUME NEW S \in SUBSET Live(t), S # {}
      PROVE  \E m \in S : \A j \in S : t.processes[j].barrier # m
  <2>1. CASE k \in S
    BY <1>3, <2>1
  <2>2. CASE k \notin S
    <3>1. S \in SUBSET Live(s)
      BY <1>2, <2>2
    <3>2. PICK m \in S : \A j \in S : s.processes[j].barrier # m
      BY <1>4, <3>1 DEF Rooted, Grounded
    <3> QED
      BY <1>2, <3>1, <3>2
  <2> QED
    BY <2>1, <2>2
<1>5. Grounded(t)
  BY <1>4 DEF Grounded
<1> QED
  BY <1>2, <1>3, <1>5 DEF Rooted, Quiet, Unheld

Msgs == Message \union {NoMessage}

\* The scripts that take no network messages.
Deaf ==
  {i \in DOMAIN proj.scripts : proj.scripts[i].event.type # "NetworkMessage"}

\* The keys of a call are fresh and distinct.
LEMMA CallSupply ==
  ASSUME Inv, KeysSuffice
  PROVE  /\ Distinct(KeySupply(proj))
         /\ Unused(proj, {}, KeySupply(proj), FALSE, 1 .. MaxScripts)
         /\ Fresh(proj, KeySupply(proj).fork)
         /\ Rooted(proj, {})
BY InvRooted, SupplyKeys DEF Inv, KeysSuffice

\* What becomes, from s to t, of a script of network messages that the contexts
\* `arrived` are queued at: as Inboxes says of a call.
Hears(s, t, i, arrived) ==
  LET all == s.scripts[i].context_queue \o arrived
  IN  \/ /\ t.scripts[i].context_queue = all
         /\ Taken(t, i) \in {Taken(s, i), NoData}
      \/ /\ all # <<>>
         /\ t.scripts[i].context_queue = Tail(all)
         /\ Taken(t, i) \in {Head(all).data, NoData}

\* The call in progress queues a context at the scripts of R, and has got to t.
Told(t, R, context) ==
  \A i \in DOMAIN proj.scripts :
    /\ i \in DOMAIN t.scripts /\ t.scripts[i].event = proj.scripts[i].event
    /\ proj.scripts[i].event.type = "NetworkMessage" =>
         Hears(proj, t, i, IF i \in R THEN <<context>> ELSE <<>>)

\* A context is queued at a script after do_once.
LEMMA DrainedGets ==
  ASSUME NEW s, NEW d, NEW t, NEW i, NEW context \in Context,
         s.scripts[i].context_queue \in Seq(Context),
         Calm(s, d, i) \/ (Takes(s, d, i) /\ IsRunning(d, i)),
         Gets(d, t, i, context)
  PROVE  Hears(s, t, i, <<context>>)
<1> DEFINE q == s.scripts[i].context_queue
<1>1. q \in Seq(Context)
  OBVIOUS
<1> HIDE DEF q
<1>2. q \o <<context>> = Append(q, context) /\ Append(q, context) # <<>>
  <2>1. Len(Append(q, context)) = Len(q) + 1 /\ Len(q) \in Nat
    BY <1>1
  <2>2. Len(<<>>) = 0
    OBVIOUS
  <2>3. q \o <<context>> = Append(q, context)
    BY <1>1
  <2> QED
    BY <2>1, <2>2, <2>3
<1>3. CASE Calm(s, d, i)
  BY <1>2, <1>3 DEF Calm, Gets, Hears, q
<1>4. CASE Takes(s, d, i) /\ IsRunning(d, i)
  <2>1. /\ t.scripts[i].context_queue = Append(Tail(q), context)
        /\ Taken(t, i) = Head(q).data /\ q # <<>>
    BY <1>4 DEF Takes, Gets, q
  <2>2. /\ Append(Tail(q), context) = Tail(Append(q, context))
        /\ Head(Append(q, context)) = Head(q)
    BY <1>1, <2>1
  <2> QED
    BY <1>2, <2>1, <2>2 DEF Hears, q
<1> QED
  BY <1>3, <1>4

\* No context is queued at it.
LEMMA OnwardHears ==
  ASSUME NEW s, NEW t, NEW i, s.scripts[i].context_queue \in Seq(Context),
         Quits(s, t, i) \/ Takes(s, t, i)
  PROVE  Hears(s, t, i, <<>>)
<1> DEFINE q == s.scripts[i].context_queue
<1>1. q \o <<>> = q
  <2> HIDE DEF q
  <2> QED
    BY DEF q
<1> QED
  BY <1>1 DEF Quits, Takes, Hears

\* What a message that is received leaves for the rest of the step.
Prepared(r, u, did_it, R) ==
  /\ Good(r, {})
  /\ Waits(r)
  /\ Rooted(r, {})
  /\ Extends(proj, r)
  /\ Fresh(r, u.fork)
  /\ Unused(r, {}, u, did_it, R)

\* By r, do_once has begun the ready scripts of the state the call began in.
Begun(r) ==
  \E d : Good(d, {}) /\ Begins(proj, d) /\ Extends(proj, d) /\ Extends(d, r)

\* Receiving a message uses the keys of the scripts that receive it.
LEMMA ReceivedGood ==
  ASSUME Inv, KeysSuffice, NEW msg \in Msgs
  PROVE  LET u == KeySupply(proj)
             r == Received(msg, u)
             R == Receivers(proj, msg)
         IN  /\ Prepared(r, u, Delivered(msg), (1 .. MaxScripts) \ R)
             /\ Told(r, R, [data |-> msg.data, barrier |-> NoKey])
             /\ ~ Delivered(msg) => r = proj
             /\ Delivered(msg) => Begun(r)
<1> DEFINE u == KeySupply(proj)
           d == ConsumeAll(proj, u.consume)
           R == Receivers(proj, msg)
           I == 1 .. MaxScripts
           context == [data |-> msg.data, barrier |-> NoKey]
           r == ScheduleUnlimited(d, R, context, u.start)
<1>1. Distinct(u) /\ Unused(proj, {}, u, FALSE, I) /\ Fresh(proj, u.fork)
      /\ Good(proj, {}) /\ Waits(proj) /\ Rooted(proj, {})
  BY CallSupply DEF Inv
<1> HIDE DEF u
<1>2. CASE ~ Delivered(msg)
  <2>1. Received(msg, u) = proj
    BY <1>2 DEF Received
  <2>2. Unused(proj, {}, u, FALSE, I \ R)
    BY <1>1 DEF Unused
  <2>3. Extends(proj, proj)
    BY ExtendsItself
  <2>4. Delivered(msg) = FALSE /\ R = {}
    BY <1>2 DEF Delivered
  <2>5. Told(proj, R, context)
    <3>1. \A i \in DOMAIN proj.scripts :
            proj.scripts[i].context_queue \in Seq(Context) /\ Quits(proj, proj, i)
      BY <1>1, ScriptFacts DEF Script, Quits
    <3> QED
      BY <2>4, <3>1, OnwardHears DEF Told
  <2> QED
    BY <1>1, <1>2, <2>1, <2>2, <2>3, <2>4, <2>5 DEF Prepared, u
<1>3. CASE Delivered(msg)
  <2>1. Received(msg, u) = r
    BY <1>3 DEF Received
  <2>2. R \in SUBSET DOMAIN proj.scripts /\ R \in SUBSET I
    BY <1>1, ScriptFacts DEF Receivers
  <2>3. d = DoOnce(proj, FALSE, u.consume)
    BY DEF DoOnce
  <2>4. Drained(proj, d, {}, FALSE, u.consume)
    BY <1>1, <2>3, ConsumeSpare, DoOnceGood
  <2>5. Spare(d, {}, u.start, I) /\ Fresh(d, u.fork)
    <3>1. I \in SUBSET (1 .. MaxScripts)
      OBVIOUS
    <3> HIDE DEF d, I
    <3> QED
      BY <1>1, <2>4, <3>1, DrainSpares
  <2>6. Good(d, {}) /\ R \in SUBSET DOMAIN d.scripts /\ Waits(d) /\ Extends(proj, d)
    BY <1>1, <2>2, <2>4 DEF Drained, Extends, SameHats
  <2>7. context \in Context
    BY DEF Msgs, Message, NoMessage, Context, Payload
  <2>8. Spare(d, {}, u.start, R)
    BY <2>2, <2>5 DEF Spare
  <2> HIDE DEF d, context
  <2>9. ScheduledAll(d, r, {}, R, context, u.start)
    BY <2>6, <2>7, <2>8, ScheduleUnlimitedGood
  <2> HIDE DEF r
  <2>10. Good(r, {}) /\ Extends(proj, r)
    BY <2>6, <2>9, ExtendsOnward DEF ScheduledAll
  <2>11. Waits(r)
    <3>1. \A i \in R : d.scripts[i].event.type = "NetworkMessage"
      BY <2>2, <2>6 DEF Receivers, Extends, SameHats
    <3> HIDE DEF R
    <3> QED
      BY <2>6, <2>9, <3>1 DEF ScheduledAll, Waits, Patient, Extends, SameHats
  <2>12. Fresh(r, u.fork)
    <3>1. u.fork \in Key /\ \A i \in R : u.start[i] # u.fork
      BY <1>1, <2>2 DEF Distinct
    <3> QED
      BY <2>5, <2>9, <3>1 DEF ScheduledAll
  <2>13. Unused(r, {}, u, TRUE, I \ R)
    <3>1. ASSUME NEW i \in I \ R
          PROVE  Fresh(r, u.start[i])
      <4>1. u.start[i] \in Key /\ \A j \in R : u.start[j] # u.start[i]
        BY <1>1, <2>2 DEF Distinct
      <4>2. Fresh(d, u.start[i])
        BY <2>5 DEF Spare
      <4> QED
        BY <2>9, <4>1, <4>2 DEF ScheduledAll
    <3> QED
      BY <3>1 DEF Unused
  <2>14. Delivered(msg) = TRUE
    BY <1>3 DEF Delivered
  <2>15. Rooted(r, {})
    <3>1. Fits(d, R, context, {})
      BY PlainFits DEF context
    <3> QED
      BY <1>1, <2>4, <2>9, <3>1 DEF Drained, ScheduledAll
  <2>16. Told(r, R, context)
    <3> SUFFICES ASSUME NEW i \in DOMAIN proj.scripts
                 PROVE  /\ i \in DOMAIN r.scripts
                        /\ r.scripts[i].event = proj.scripts[i].event
                        /\ Hears(proj, r, i, IF i \in R THEN <<context>> ELSE <<>>)
      BY DEF Told
    <3>1. /\ i \in DOMAIN r.scripts /\ r.scripts[i].event = proj.scripts[i].event
          /\ i \in DOMAIN d.scripts
      BY <2>6, <2>10 DEF Extends, SameHats
    <3>2. /\ proj.scripts[i].context_queue \in Seq(Context)
      BY <1>1, ScriptFacts DEF Script
    <3>3. Calm(proj, d, i) \/ (Takes(proj, d, i) /\ IsRunning(d, i))
      BY <2>4 DEF Drained
    <3>4. IF i \in R THEN Gets(d, r, i, context) ELSE Calm(d, r, i)
      BY <2>9, <3>1 DEF ScheduledAll
    <3>5. CASE i \in R
      BY <2>7, <3>1, <3>2, <3>3, <3>4, <3>5, DrainedGets
    <3>6. CASE i \notin R
      <4>1. Quits(proj, r, i) \/ Takes(proj, r, i)
        BY <3>3, <3>4, <3>6 DEF Calm, Takes, Quits
      <4> QED
        BY <3>1, <3>2, <3>6, <4>1, OnwardHears
    <3> QED
      BY <3>5, <3>6
  <2>17. Begun(r)
    <3>1. Begins(proj, d) /\ Extends(d, r)
      BY <2>4, <2>9 DEF Drained, ScheduledAll
    <3> QED
      BY <2>6, <3>1 DEF Begun
  <2> HIDE DEF I, R
  <2> QED
    BY <2>1, <2>10, <2>11, <2>12, <2>13, <2>14, <2>15, <2>16, <2>17
       DEF Prepared, I, R, u, context
<1> QED
  BY <1>2, <1>3

\* In a call that delivers no message, do_once is all that happens to the
\* scripts of network messages, and the end of a process.
LEMMA InputTold ==
  ASSUME Inv, NEW t, Onward(proj, t, FALSE, Deaf), NEW context
  PROVE  Told(t, {}, context)
<1> SUFFICES ASSUME NEW i \in DOMAIN proj.scripts,
                    proj.scripts[i].event.type = "NetworkMessage"
             PROVE  Hears(proj, t, i, <<>>)
  BY DEF Told, Onward
<1>1. Quits(proj, t, i) \/ Takes(proj, t, i)
  BY DEF Deaf, Onward
<1>2. proj.scripts[i].context_queue \in Seq(Context)
  BY ScriptFacts DEF Inv, Script
<1> QED
  BY <1>1, <1>2, OnwardHears

\* A process k takes its turn in s: it is live and out of the queue.
OnTurn(s, k, u, did_it, R) ==
  /\ Good(s, {k})
  /\ k \in Live(s) /\ k \in Key
  /\ Waits(s)
  /\ Rooted(s, {})
  /\ SameHats(proj, s)
  /\ Fresh(s, u.fork) /\ u.fork # k
  /\ Unused(s, {k}, u, did_it, R)
  /\ Distinct(u)
  /\ did_it \in BOOLEAN

\* After the message, the first live process of the queue is given its turn.
LEMMA TurnTaken ==
  ASSUME Inv, KeysSuffice, NEW msg \in Msgs,
         NEW n \in FirstLive(Received(msg, KeySupply(proj)))
  PROVE  LET u == KeySupply(proj)
             r == Received(msg, u)
         IN  OnTurn(Turn(r, n), r.queue[n], u, Delivered(msg),
                    (1 .. MaxScripts) \ Receivers(proj, msg))
<1> DEFINE u == KeySupply(proj)
           r == Received(msg, u)
           s == Turn(r, n)
           k == r.queue[n]
           R == (1 .. MaxScripts) \ Receivers(proj, msg)
<1>1. Prepared(r, u, Delivered(msg), R)
  BY ReceivedGood
<1>2. Distinct(u)
  BY CallSupply
<1> HIDE DEF r, u
<1>3. n \in FirstLive(r)
  BY DEF r, u
<1>4. Good(r, {})
  BY <1>1 DEF Prepared
<1>5. /\ Good(s, {k}) /\ k \in Live(s)
      /\ Live(s) = Live(r) /\ s.scripts = r.scripts
      /\ \A j \in Live(s) : s.processes[j].barrier = r.processes[j].barrier
      /\ \A j : Fresh(r, j) => Fresh(s, j) /\ j # k
  BY <1>3, <1>4, TurnGood
<1> HIDE DEF s, k
<1>6. k \in Key
  BY <1>5 DEF Good
<1>7. Waits(s) /\ SameHats(proj, s)
  BY <1>1, <1>5 DEF Prepared, Waits, Extends, SameHats
<1>8. Fresh(s, u.fork) /\ u.fork # k
  BY <1>1, <1>5 DEF Prepared
<1>9. Unused(s, {k}, u, Delivered(msg), R)
  BY <1>1, <1>5 DEF Prepared, Unused
<1>10. Delivered(msg) \in BOOLEAN
  BY DEF Delivered
<1>11. Rooted(s, {})
  BY <1>1, <1>5, SameScriptsRooted DEF Prepared
<1> QED
  BY <1>2, <1>5, <1>6, <1>7, <1>8, <1>9, <1>10, <1>11 DEF OnTurn, r, u, s, k

\* The process whose turn it was returns to the queue.
LEMMA BackInQueue ==
  ASSUME NEW s, NEW k, Good(s, {k}), Waits(s), NEW out, Rooted(s, out)
  PROVE  /\ Kept(PushFront(s, k)) /\ Kept(PushBack(s, k))
         /\ \A R : Stays(s, PushFront(s, k), R) /\ Stays(s, PushBack(s, k), R)
<1>1. Good(PushFront(s, k), {k} \ {k}) /\ Good(PushBack(s, k), {k} \ {k})
  BY PushGood
<1>2. {k} \ {k} = {}
  OBVIOUS
<1>3. DOMAIN s = Fields
  BY DEF Good, IsState
<1>4. /\ PushFront(s, k).scripts = s.scripts /\ PushBack(s, k).scripts = s.scripts
      /\ PushFront(s, k).processes = s.processes
      /\ PushBack(s, k).processes = s.processes
  BY <1>3, FieldUpdate DEF PushFront, PushBack
<1>5. ASSUME NEW t, t.scripts = s.scripts, t.processes = s.processes
      PROVE  Waits(t) /\ Grounded(t) /\ Quiet(t)
  BY <1>5 DEF Waits, Rooted, Grounded, Quiet, Live
<1>6. ASSUME NEW t, t.scripts = s.scripts, t.processes = s.processes, NEW R
      PROVE  Stays(s, t, R)
  BY <1>6, SameScriptsStay DEF Live
<1> QED
  BY <1>1, <1>2, <1>4, <1>5, <1>6 DEF Kept

\* do_once on behalf of a call whose keys are u.
LEMMA DrainGood ==
  ASSUME NEW s, NEW out, Good(s, out), Waits(s), Rooted(s, out),
         NEW did_it \in BOOLEAN,
         NEW u, Distinct(u), NEW R \in SUBSET (1 .. MaxScripts),
         Unused(s, out, u, did_it, R)
  PROVE  LET t == DoOnce(s, did_it, u.consume)
         IN  /\ Good(t, out) /\ Waits(t) /\ Rooted(t, out) /\ Extends(s, t)
             /\ Spare(t, out, u.start, R)
             /\ Fresh(s, u.fork) => Fresh(t, u.fork)
             /\ \A Q : Onward(s, t, did_it, Q)
             /\ did_it \/ Begins(s, t)
             /\ \A Q, v : After(t, v, Q) => Unfolds(s, did_it, Q, t, v)
<1> DEFINE t == DoOnce(s, did_it, u.consume)
<1>1. Drained(s, t, out, did_it, u.consume)
  BY ConsumeSpare, DoOnceGood
<1> HIDE DEF t
<1>2. Spare(t, out, u.start, R) /\ (Fresh(s, u.fork) => Fresh(t, u.fork))
  BY <1>1, DrainSpares
<1>3. /\ Good(t, out) /\ Waits(t) /\ Rooted(t, out) /\ Extends(s, t)
      /\ did_it \/ Begins(s, t)
  BY <1>1 DEF Drained
<1>4. \A Q : Onward(s, t, did_it, Q)
  BY <1>1, DrainedOnward
<1>5. \A Q, v : After(t, v, Q) => Unfolds(s, did_it, Q, t, v)
  BY <1>1, DrainUnfolds
<1> QED
  BY <1>2, <1>3, <1>4, <1>5 DEF t

\* A new project has no process and no context.
LEMMA InitInv == Init => Inv
<1> SUFFICES ASSUME Init PROVE Inv
  OBVIOUS
<1> DEFINE f == [i \in DOMAIN InitScripts |-> NewScript(InitScripts[i])]
           P == [k \in {} |-> NewProcess(0)]
<1>1. proj = [processes |-> P, queue |-> <<>>, scripts |-> f]
  BY DEF Init
<1>2. /\ DOMAIN InitScripts = 1 .. Len(InitScripts) /\ Len(InitScripts) \in Nat
      /\ \A i \in DOMAIN InitScripts : InitScripts[i] \in Hat
  BY ScriptAssumption
<1>3. ASSUME NEW i \in DOMAIN InitScripts
      PROVE  f[i] \in Script /\ f[i].process = NoKey /\ f[i].context_queue = <<>>
  <2>1. InitScripts[i].event \in Event /\ InitScripts[i].entity \in Nat
    BY <1>2, ScriptAssumption DEF Hat
  <2>2. <<>> \in Seq(Context)
    OBVIOUS
  <2> QED
    BY <2>1, <2>2 DEF NewScript, Script
<1>4. f \in Seq(Script) /\ Len(f) <= MaxScripts
  <2>1. f \in [1 .. Len(InitScripts) -> Script]
    BY <1>2, <1>3
  <2>2. Len(f) = Len(InitScripts)
    BY <1>2
  <2> QED
    BY <1>2, <2>1, <2>2, ScriptAssumption
<1>5. DOMAIN P = {} /\ P \in [{} -> Process]
  OBVIOUS
<1>6. /\ DOMAIN proj = Fields /\ proj.processes = P
      /\ proj.queue = <<>> /\ proj.scripts = f /\ DOMAIN f = DOMAIN InitScripts
  BY <1>1 DEF Fields
<1> HIDE DEF f, P
<1>7. Live(proj) = {}
  BY <1>5, <1>6 DEF Live
<1>8. IsState(proj)
  BY <1>4, <1>5, <1>6, <1>7 DEF IsState
<1>9. Queued(proj, {})
  BY <1>6, <1>7 DEF Queued, Once
<1>10. Owned(proj)
  BY <1>3, <1>6 DEF Owned
<1>11. Waits(proj)
  BY <1>3, <1>6, ShortEmpty DEF Waits
<1>12. Grounded(proj)
  BY <1>7 DEF Grounded
<1>13. Quiet(proj)
  <2>1. DOMAIN <<>> = {}
    OBVIOUS
  <2> QED
    BY <1>3, <1>6, <2>1 DEF Quiet
<1>14. roots \in Seq(1 .. MaxScripts)
  <2>1. Originals \in Nat /\ 1 .. Originals \subseteq 1 .. MaxScripts
    BY OriginalsAssumption, ScriptAssumption
  <2>2. roots \in [1 .. Originals -> 1 .. MaxScripts]
    BY <2>1 DEF Init
  <2> QED
    BY <2>1, <2>2, FunctionIsSequence
<1> QED
  BY <1>8, <1>9, <1>10, <1>11, <1>12, <1>13, <1>14 DEF Inv, Good

\* The contexts that calls schedule are contexts.
LEMMA ContextsUsed ==
  /\ DefaultContext \in Context
  /\ \A data \in Data \union Locals : [data |-> data, barrier |-> NoKey] \in Context
  /\ \A name \in Name, k \in Key \union {NoKey} :
       [data |-> name, barrier |-> k] \in Context
BY DEF DefaultContext, Context, Payload

LEMMA DefaultFits ==
  ASSUME NEW s, NEW R, NEW out
  PROVE  Fits(s, R, DefaultContext, out)
BY PlainFits DEF DefaultContext

\* Hats are indices of scripts.
LEMMA HatsAreScripts ==
  ASSUME NEW s, NEW type, NEW name
  PROVE  Hats(s, type, name) \in SUBSET DOMAIN s.scripts
BY DEF Hats

\* A start restarts the start hats' scripts and keeps the invariant.
LEMMA StartKept ==
  ASSUME Inv, KeysSuffice, InputStart
  PROVE  /\ Kept(proj')
         /\ Restarted(proj, proj', {}, Hats(proj, "OnFlag", AnyName), DefaultContext)
         /\ Onward(proj, proj', FALSE, Deaf) /\ Runs(proj, FALSE)
<1> DEFINE u == KeySupply(proj)
           R == Hats(proj, "OnFlag", AnyName)
<1>1. Distinct(u) /\ Unused(proj, {}, u, FALSE, 1 .. MaxScripts)
  BY CallSupply
<1>2. Good(proj, {}) /\ Waits(proj) /\ Rooted(proj, {})
  BY InvRooted DEF Inv
<1>3. R \in SUBSET DOMAIN proj.scripts /\ R \in SUBSET (1 .. MaxScripts)
  BY <1>2, HatsAreScripts, ScriptFacts
<1>4. proj' = Restart(proj, R, DefaultContext, FALSE, u)
  BY DEF InputStart
<1>8. R \subseteq Deaf
  BY DEF Hats, Deaf
<1>10. \A i \in R : i \notin Ready(proj)
  <2>1. \A i \in R : proj.scripts[i].event.type \notin Patient
    BY DEF Hats, Patient
  <2> QED
    BY <2>1, NoneReady
<1> HIDE DEF u, R
<1>5. Unused(proj, {}, u, FALSE, R)
  BY <1>1, <1>3 DEF Unused
<1>6. /\ Restarted(proj, proj', {}, R, DefaultContext)
      /\ Onward(proj, proj', FALSE, R)
  BY <1>1, <1>2, <1>3, <1>4, <1>5, RestartGood, ContextsUsed
<1>7. Rooted(proj', {})
  BY <1>6, InvRooted, DefaultFits DEF Restarted
<1>9. Onward(proj, proj', FALSE, Deaf)
  BY <1>6, <1>8, SetAside
<1>11. PICK d : Unfolds(proj, FALSE, R, d, proj')
  <2>1. \E d : Unfolds(proj, FALSE, R, d, Restart(proj, R, DefaultContext, FALSE, u))
    BY <1>1, <1>2, <1>3, <1>5, RestartUnfolds, ContextsUsed
  <2> QED
    BY <1>4, <2>1
<1>12. Runs(proj, FALSE)
  BY <1>6, <1>10, <1>11, InputRuns DEF Restarted
<1> QED
  BY <1>2, <1>6, <1>7, <1>9, <1>12 DEF Restarted, Kept, Rooted, R

\* A key press keeps the invariant: what cannot start at once is dropped.
LEMMA KeyDownKept ==
  ASSUME Inv, KeysSuffice, NEW key \in KeyCode, InputKeyDown(key)
  PROVE  Kept(proj') /\ Onward(proj, proj', FALSE, Deaf) /\ Runs(proj, FALSE)
         /\ SameHats(proj, proj')
<1> DEFINE u == KeySupply(proj)
           R == Hats(proj, "OnKey", key)
           d == DoOnce(proj, FALSE, u.consume)
<1>1. Distinct(u) /\ Unused(proj, {}, u, FALSE, 1 .. MaxScripts)
  BY CallSupply
<1>2. Good(proj, {}) /\ Waits(proj) /\ Rooted(proj, {})
  BY InvRooted DEF Inv
<1>3. R \in SUBSET DOMAIN proj.scripts /\ R \in SUBSET (1 .. MaxScripts)
  BY <1>2, HatsAreScripts, ScriptFacts
<1>4. proj' = Schedule(d, R, DefaultContext, 0, u.start)
  BY DEF InputKeyDown, DoOnce
<1>11. R \subseteq Deaf
  BY DEF Hats, Deaf
<1> HIDE DEF u, R
<1>5. Unused(proj, {}, u, FALSE, R)
  BY <1>1, <1>3 DEF Unused
<1>6. /\ Good(d, {}) /\ Waits(d) /\ Rooted(d, {})
      /\ Extends(proj, d) /\ Spare(d, {}, u.start, R)
      /\ Onward(proj, d, FALSE, Deaf)
      /\ \A Q, v : After(d, v, Q) => Unfolds(proj, FALSE, Q, d, v)
  BY <1>1, <1>2, <1>3, <1>5, DrainGood
<1> HIDE DEF d
<1>7. R \in SUBSET DOMAIN d.scripts
  BY <1>3, <1>6 DEF Extends, SameHats
<1>8. Scheduled(d, proj', {}, R, DefaultContext, 0, u.start)
  BY <1>4, <1>6, <1>7, ScheduleGood, ContextsUsed
<1>9. Waits(proj')
  BY <1>6, <1>8, ScheduledWaits
<1>10. Rooted(proj', {})
  BY <1>6, <1>8, DefaultFits DEF Scheduled
<1>12. Onward(proj, proj', FALSE, Deaf)
  <2>1. Stays(d, proj', Deaf)
    BY <1>8, <1>11, OthersStay, SetAside
  <2> QED
    BY <1>6, <2>1, OnwardStays
<1>13. Runs(proj, FALSE)
  <2>1. Extends(d, proj') /\ Good(proj', {})
    BY <1>8 DEF Scheduled
  <2> QED
    <3>1. Unfolds(proj, FALSE, {}, d, proj')
      BY <1>6, <2>1, AfterExtends
    <3> QED
      BY <2>1, <3>1, DrainingRuns
<1>14. SameHats(proj, proj')
  BY <1>6, <1>8, SameHatsOnward DEF Extends, Scheduled
<1> QED
  BY <1>8, <1>9, <1>10, <1>12, <1>13, <1>14 DEF Scheduled, Kept, Rooted

\* A custom event keeps the invariant, whatever its limit.
LEMMA CustomEventKept ==
  ASSUME Inv, KeysSuffice, NEW name \in Name, NEW data \in Locals,
         NEW interrupt \in BOOLEAN, NEW max_queue \in MaxQueues,
         InputCustomEvent(name, data, interrupt, max_queue)
  PROVE  /\ Kept(proj') /\ Onward(proj, proj', FALSE, Deaf) /\ Runs(proj, FALSE)
         /\ SameHats(proj, proj')
         /\ interrupt => \E d : Unfolds(proj, FALSE, Hats(proj, "Custom", name), d, proj')
<1> DEFINE u == KeySupply(proj)
           R == Hats(proj, "Custom", name)
           d == DoOnce(proj, FALSE, u.consume)
           e == IF interrupt THEN StopAll(d, R) ELSE d
           context == [data |-> data, barrier |-> NoKey]
<1>1. Distinct(u) /\ Unused(proj, {}, u, FALSE, 1 .. MaxScripts)
  BY CallSupply
<1>2. Good(proj, {}) /\ Waits(proj) /\ Rooted(proj, {})
  BY InvRooted DEF Inv
<1>3. /\ R \in SUBSET DOMAIN proj.scripts /\ R \in SUBSET (1 .. MaxScripts)
      /\ \A i \in R : proj.scripts[i].event.type = "Custom"
  BY <1>2, HatsAreScripts, ScriptFacts DEF Hats
<1>4. proj' = Schedule(e, R, context, max_queue, u.start)
  BY DEF InputCustomEvent, DoOnce
<1>5. context \in Context /\ max_queue \in Nat /\ context.barrier = NoKey
  BY ContextsUsed, QueueAssumption
<1>15. R \subseteq Deaf
  BY <1>3 DEF Deaf
<1> DEFINE stopped == IF interrupt THEN R ELSE {}
<1>17. \A i \in stopped : Interrupted(i)
  BY DEF Interrupted
<1> HIDE DEF u, R, context
<1>6. Unused(proj, {}, u, FALSE, R)
  BY <1>1, <1>3 DEF Unused
<1>7. /\ Good(d, {}) /\ Waits(d) /\ Rooted(d, {})
      /\ Extends(proj, d) /\ Spare(d, {}, u.start, R)
      /\ Onward(proj, d, FALSE, Deaf)
      /\ \A Q, v : After(d, v, Q) => Unfolds(proj, FALSE, Q, d, v)
  BY <1>1, <1>2, <1>3, <1>6, DrainGood
<1> HIDE DEF d
<1>8. R \in SUBSET DOMAIN d.scripts
  BY <1>3, <1>7 DEF Extends, SameHats
<1>9. /\ Good(e, {}) /\ Waits(e) /\ Rooted(e, {})
      /\ SameHats(d, e) /\ Spare(e, {}, u.start, R)
      /\ Onward(proj, e, FALSE, Deaf) /\ After(d, e, stopped)
  <2>1. CASE ~ interrupt
    BY <1>7, <2>1, ExtendsItself, AfterExtends DEF SameHats
  <2>2. CASE interrupt
    <3>1. Stopped(d, e, {}, R)
      BY <1>7, <1>8, <2>2, StopAllGood
    <3> HIDE DEF e
    <3>2. Onward(proj, e, FALSE, Deaf)
      BY <1>7, <1>15, <3>1, OthersStay, SetAside, OnwardStays
    <3>3. After(d, e, stopped)
      BY <2>2, <3>1, AfterStopped
    <3> QED
      BY <1>7, <3>1, <3>2, <3>3, StoppedWaits DEF Stopped, Spare
  <2> QED
    BY <2>1, <2>2
<1> HIDE DEF e
<1>10. R \in SUBSET DOMAIN e.scripts
  BY <1>8, <1>9 DEF SameHats
<1>11. Scheduled(e, proj', {}, R, context, max_queue, u.start)
  BY <1>4, <1>5, <1>9, <1>10, ScheduleGood
<1>12. \A i \in R : e.scripts[i].event.type \in Patient
  BY <1>3, <1>7, <1>8, <1>9 DEF Extends, SameHats, Patient
<1>13. Waits(proj')
  BY <1>5, <1>9, <1>11, <1>12, ScheduledWaits
<1>14. Rooted(proj', {})
  BY <1>5, <1>9, <1>11, PlainFits DEF Scheduled
<1>16. Onward(proj, proj', FALSE, Deaf)
  <2>1. Stays(e, proj', Deaf)
    BY <1>11, <1>15, OthersStay, SetAside
  <2> QED
    BY <1>9, <2>1, OnwardStays
<1>20. Extends(e, proj') /\ Good(proj', {})
  BY <1>11 DEF Scheduled
<1>21. Unfolds(proj, FALSE, stopped, d, proj')
  <2>1. After(d, proj', stopped)
    BY <1>9, <1>20, ThenExtends DEF SameHats
  <2> QED
    BY <1>7, <2>1
<1>18. Runs(proj, FALSE)
  <2> HIDE DEF stopped
  <2>1. \A i \in stopped : i \in Ready(proj) => Interrupted(i)
    BY <1>17
  <2> QED
    BY ONLY Inv, <1>20, <1>21, <2>1, InputRuns
<1>22. interrupt => \E v : Unfolds(proj, FALSE, R, v, proj')
  BY <1>21
<1>19. SameHats(proj, proj')
  <2>1. SameHats(proj, d) /\ Extends(e, proj')
    BY <1>7, <1>11 DEF Extends, Scheduled
  <2> QED
    BY <1>9, <2>1, SameHatsOnward
<1> QED
  BY <1>11, <1>13, <1>14, <1>16, <1>18, <1>19, <1>22 DEF Scheduled, Kept, Rooted, R

\* A stop leaves no process, an empty queue and no context.
LEMMA StopKept ==
  ASSUME Inv, InputStop
  PROVE  Kept(proj') /\ Runs(proj, FALSE)
         /\ SameHats(proj, proj')
<1> DEFINE R == DOMAIN proj.scripts
           e == StopAll(proj, R)
           P == [k \in {} |-> NewProcess(0)]
<1>1. Stopped(proj, e, {}, R)
  BY StopAllGood DEF Inv
<1>2. /\ DOMAIN proj' = Fields /\ proj'.processes = P
      /\ proj'.queue = <<>> /\ proj'.scripts = e.scripts
  BY DEF InputStop, Fields
<1>3. DOMAIN P = {} /\ P \in [{} -> Process]
  OBVIOUS
<1> HIDE DEF e, P
<1>4. Live(proj') = {}
  BY <1>2, <1>3 DEF Live
<1>5. IsState(e) /\ Owned(e)
  BY <1>1 DEF Stopped, Good
<1>6. IsState(proj')
  BY <1>2, <1>3, <1>4, <1>5 DEF IsState
<1>7. Queued(proj', {})
  BY <1>2, <1>4 DEF Queued, Once
<1>8. Owned(proj')
  BY <1>2, <1>4, <1>5 DEF Owned
<1>9. Waits(e)
  BY <1>1, StoppedWaits DEF Inv
<1>10. Waits(proj')
  BY <1>2, <1>9 DEF Waits
<1>11. Rooted(e, {})
  BY <1>1, InvRooted DEF Stopped
<1>12. Grounded(proj') /\ Quiet(proj')
  BY <1>2, <1>4, <1>11 DEF Rooted, Grounded, Quiet
<1>13. SameHats(proj, proj')
  BY <1>1, <1>2, SameHatsOnward DEF Stopped
<1> QED
  BY <1>13, <1>4, <1>6, <1>7, <1>8, <1>10, <1>12 DEF Kept, Good, Runs

\* A process that belongs to no script joins the back of the queue.
LEMMA AddProcessKept ==
  ASSUME Inv, KeysSuffice, NEW entity \in Nat, AddProcess(entity)
  PROVE  Kept(proj') /\ Onward(proj, proj', FALSE, Deaf) /\ Runs(proj, FALSE)
         /\ SameHats(proj, proj')
<1> DEFINE u == KeySupply(proj)
           k == u.fork
           p == NewProcess(entity)
           s == InsertProcess(proj, k, p)
           d == DoOnce(s, FALSE, u.consume)
<1>1. /\ Distinct(u) /\ Unused(proj, {}, u, FALSE, 1 .. MaxScripts)
      /\ Fresh(proj, k)
  BY CallSupply
<1>2. Good(proj, {}) /\ Waits(proj) /\ Rooted(proj, {})
  BY InvRooted DEF Inv
<1>3. k \in Key /\ \A i \in 1 .. MaxScripts : u.consume[i] \in Key /\ u.consume[i] # k
  BY <1>1 DEF Distinct
<1>4. p \in Process /\ p.barrier = NoKey
  BY DEF NewProcess, Process, Payload
<1>5. proj' = PushBack(d, k)
  BY DEF AddProcess, DoOnce
<1> HIDE DEF u, p
<1>6. /\ Good(s, {k}) /\ s.scripts = proj.scripts /\ Rooted(s, {k})
      /\ \A j : Fresh(proj, j) /\ j # k => Fresh(s, j)
      /\ Stays(proj, s, Deaf)
      /\ Inserted(proj, s, {}, k)
  <2>1. Inserted(proj, s, {}, k) /\ s.processes[k] = p
    <3> HIDE DEF k
    <3> QED
      BY <1>1, <1>2, <1>3, <1>4, InsertGood
  <2>2. {} \union {k} = {k} /\ k \in Reserved \ {}
    BY <1>1 DEF Distinct
  <2> HIDE DEF s, k
  <2>3. Rooted(s, {} \union {k})
    BY <1>2, <1>4, <2>1, <2>2, InsertRooted
  <2> QED
    BY <2>1, <2>2, <2>3 DEF Inserted, Stays
<1> HIDE DEF s
<1>7. Unused(s, {k}, u, FALSE, {}) /\ Waits(s) /\ {} \in SUBSET (1 .. MaxScripts)
  BY <1>1, <1>2, <1>3, <1>6 DEF Unused, Waits
<1>8. /\ Good(d, {k}) /\ Waits(d) /\ Rooted(d, {k}) /\ Onward(s, d, FALSE, Deaf)
      /\ Begins(s, d)
      /\ \A Q, v : After(d, v, Q) => Unfolds(s, FALSE, Q, d, v)
  BY <1>1, <1>6, <1>7, DrainGood
<1> HIDE DEF d
<1>9. Kept(proj') /\ Stays(d, proj', Deaf)
  BY <1>5, <1>8, BackInQueue
<1>10. Runs(proj, FALSE)
  <2> DEFINE n == 0
  <2>1. After(d, d, {})
    BY ExtendsItself, AfterExtends
  <2>2. Unfolds(s, FALSE, {}, d, d)
    BY <1>8, <2>1
  <2>3. /\ Shifted(d.queue, 0, proj'.queue, 0)
        /\ Live(proj') = Live(d) /\ proj'.scripts = d.scripts
    BY <1>5, <1>8, PushShifts
  <2>4. /\ Live(s) = Live(proj) \union {k} /\ s.queue = proj.queue
        /\ \A i \in DOMAIN proj.scripts : IsRunning(s, i) = IsRunning(proj, i)
    BY <1>6 DEF Inserted, Calm
  <2>5. Shifted(proj.queue, 0, s.queue, 0)
    <3>1. \A m \in DOMAIN proj.queue : (m - 0) + 0 = m
      BY <1>2 DEF Good, IsState
    <3> QED
      BY <2>4, <3>1 DEF Shifted
  <2>6. Extends(s, d) /\ d.queue \in Seq(Key)
    BY <2>2 DEF Unfolds
  <2>8. ~ InQueue(d.queue, k)
    BY <1>8 DEF Good, Queued
  <2>9. Course(proj, FALSE, n, k, {}, s, d, d, n)
    BY <1>6, <2>1, <2>3, <2>4, <2>5, <1>8, <2>6, <2>8 DEF Course
  <2> QED
    BY <2>9, RunsCourse
<1>11. SameHats(proj, proj')
  <2>1. After(d, d, {}) /\ SameHats(proj, proj)
    BY ExtendsItself, AfterExtends DEF Extends
  <2>2. Extends(s, d)
    BY <1>8, <2>1 DEF Unfolds
  <2>3. proj'.scripts = d.scripts
    BY <1>5, <1>8, PushShifts
  <2> QED
    BY <1>6, <2>1, <2>2, <2>3, SameHatsOnward
<1> QED
  BY <1>6, <1>8, <1>9, <1>10, <1>11, OnwardStays

\* The state a step starts from: what the message left, before the turn.
At(msg) == Received(msg, KeySupply(proj))
OnIts(msg, n) == Turn(At(msg), n)
Others(msg) == (1 .. MaxScripts) \ Receivers(proj, msg)

\* What becomes of the scripts of network messages in the rest of the step.
Rest(msg, t) == Onward(At(msg), t, Delivered(msg), Deaf)

\* What every outcome of a step starts from.
LEMMA TurnFacts ==
  ASSUME Inv, KeysSuffice, NEW msg \in Msgs, NEW n \in FirstLive(At(msg))
  PROVE  LET s == OnIts(msg, n)
             k == At(msg).queue[n]
             u == KeySupply(proj)
         IN  /\ OnTurn(s, k, u, Delivered(msg), Others(msg))
             /\ Good(s, {k}) /\ Waits(s) /\ k \in Key
             /\ Rooted(s, {}) /\ Rooted(s, {k})
             /\ Distinct(u) /\ Unused(s, {k}, u, Delivered(msg), Others(msg))
             /\ Delivered(msg) \in BOOLEAN
             /\ Others(msg) \in SUBSET (1 .. MaxScripts)
             /\ Stays(At(msg), s, Deaf) /\ HadTurn(At(msg), n, s)
             /\ SameHats(proj, s)
<1>1. Stays(At(msg), OnIts(msg, n), Deaf) /\ HadTurn(At(msg), n, OnIts(msg, n))
  <2> DEFINE r == At(msg)
             t == Turn(r, n)
  <2>1. Good(r, {})
    BY ReceivedGood DEF At, Prepared
  <2> HIDE DEF r
  <2>2. n \in FirstLive(r)
    BY DEF r
  <2>3. /\ t.scripts = r.scripts /\ Live(t) = Live(r)
        /\ \A j \in Live(r) : /\ t.processes[j].data = r.processes[j].data
                              /\ t.processes[j].running = r.processes[j].running
    <3> HIDE DEF t
    <3>1. /\ Live(Turn(r, n)) = Live(r) /\ Turn(r, n).scripts = r.scripts
          /\ \A j \in Live(r) :
               /\ Turn(r, n).processes[j].barrier = r.processes[j].barrier
               /\ Turn(r, n).processes[j].data = r.processes[j].data
               /\ Turn(r, n).processes[j].running = r.processes[j].running
      BY ONLY <2>1, <2>2, TurnGood, Zenon
    <3> QED
      BY <3>1 DEF t
  <2>5. Shifted(r.queue, n, t.queue, 0)
    BY <2>1, <2>2, TurnShifts
  <2> HIDE DEF t
  <2>6. HadTurn(r, n, t)
    BY <2>3, <2>5 DEF HadTurn, IsRunning
  <2>4. Stays(r, t, Deaf)
    BY <2>3, SameScriptsStay
  <2> QED
    BY <2>4, <2>6 DEF OnIts, r, t
<1> QED
  BY <1>1, TurnTaken, RootedWeaker DEF At, OnIts, Others, OnTurn

\* After the turn has been given, the step does s to t, and a push of the key
\* may end it.
LEMMA RestFacts ==
  ASSUME NEW msg, NEW s, NEW t, NEW u, Stays(At(msg), s, Deaf)
  PROVE  /\ Onward(s, t, Delivered(msg), Deaf) => Rest(msg, t)
         /\ Rest(msg, t) /\ Stays(t, u, Deaf) => Rest(msg, u)
BY OnwardStays DEF Rest

\* The message and the rest of the step together.
LEMMA StepTold ==
  ASSUME Inv, KeysSuffice, NEW msg \in Msgs, NEW t, Rest(msg, t)
  PROVE  Told(t, Receivers(proj, msg), [data |-> msg.data, barrier |-> NoKey])
<1> DEFINE r == At(msg)
           R == Receivers(proj, msg)
           context == [data |-> msg.data, barrier |-> NoKey]
<1>1. Told(r, R, context) /\ (~ Delivered(msg) => r = proj)
  BY ReceivedGood DEF At
<1>2. Onward(r, t, Delivered(msg), Deaf)
  BY DEF Rest
<1> HIDE DEF r, context
<1>3. CASE ~ Delivered(msg)
  <2>1. R = {} /\ Onward(proj, t, FALSE, Deaf)
    BY <1>1, <1>2, <1>3 DEF Delivered, Onward
  <2> QED
    BY <2>1, InputTold DEF context
<1>4. CASE Delivered(msg)
  <2> HIDE DEF R
  <2>1. ASSUME NEW i \in DOMAIN proj.scripts,
               proj.scripts[i].event.type = "NetworkMessage", NEW arrived,
               Hears(proj, r, i, arrived)
        PROVE  Hears(proj, t, i, arrived)
    <3>1. i \in DOMAIN r.scripts /\ i \notin Deaf
      BY <1>1, <2>1 DEF Told, Deaf
    <3>2. Quits(r, t, i)
      BY <1>2, <1>4, <3>1 DEF Onward
    <3> QED
      BY <2>1, <3>2 DEF Hears, Quits
  <2>2. Told(t, R, context)
    BY <1>1, <1>2, <2>1 DEF Told, Onward
  <2> QED
    BY <2>2 DEF R, context
<1> QED
  BY <1>3, <1>4

\* A step that finds no live process empties the queue; there was none to lose.
LEMMA IdleKept ==
  ASSUME Inv, KeysSuffice, NEW msg \in Msgs, StepIdle(msg)
  PROVE  Kept(proj') /\ Rest(msg, proj') /\ Runs(At(msg), Delivered(msg))
         /\ SameHats(proj, proj')
<1> DEFINE r == At(msg)
           t == [r EXCEPT !.queue = <<>>]
<1>1. Good(r, {}) /\ Waits(r) /\ Rooted(r, {}) /\ SameHats(proj, r)
  BY ReceivedGood DEF At, Prepared, Extends
<1>2. FirstLive(r) = {} /\ proj' = t
  BY DEF StepIdle, At
<1>11. Stays(r, r, Deaf)
  BY DEF Stays, Calm
<1>12. Stays(r, t, Deaf) => Rest(msg, t)
  BY <1>11, RestFacts, OnwardStays
<1> HIDE DEF r
<1>3. /\ DOMAIN t = Fields /\ t.processes = r.processes
      /\ t.queue = <<>> /\ t.scripts = r.scripts
  BY <1>1, FieldUpdate DEF Good, IsState
<1> HIDE DEF t
<1>4. Live(r) = {}
  <2> SUFFICES ASSUME NEW k \in Live(r) PROVE FALSE
    OBVIOUS
  <2>1. InQueue(r.queue, k) /\ r.queue \in Seq(Key)
    BY <1>1 DEF Good, IsState, Queued
  <2> DEFINE S == {n \in DOMAIN r.queue : r.queue[n] \in Live(r)}
  <2>2. S \in SUBSET Nat /\ S # {} /\ IsFiniteSet(S)
    <3>1. DOMAIN r.queue = 1 .. Len(r.queue) /\ Len(r.queue) \in Nat
      BY <2>1
    <3>2. IsFiniteSet(DOMAIN r.queue)
      BY <3>1, FS_Interval
    <3>3. S \in SUBSET DOMAIN r.queue
      OBVIOUS
    <3> QED
      BY <2>1, <3>1, <3>2, <3>3, FS_Subset DEF InQueue
  <2>3. PICK n \in S : \A m \in S : n <= m
    BY <2>2, LeastMember
  <2>4. n \in FirstLive(r)
    BY <2>1, <2>2, <2>3 DEF FirstLive
  <2> QED
    BY <1>2, <2>4
<1>5. Live(t) = {}
  BY <1>3, <1>4 DEF Live
<1>6. IsState(t)
  BY <1>1, <1>3, <1>4, <1>5 DEF Good, IsState
<1>7. Queued(t, {})
  BY <1>3, <1>5 DEF Queued, Once
<1>8. Owned(t)
  BY <1>1, <1>3, <1>5 DEF Good, Owned
<1>9. Waits(t)
  BY <1>1, <1>3 DEF Waits
<1>10. Grounded(t) /\ Quiet(t)
  BY <1>1, <1>3 DEF Rooted, Grounded, Quiet, Live
<1>13. Stays(r, t, Deaf)
  BY <1>3, <1>4, <1>5, SameScriptsStay
<1>14. SameHats(proj, t)
  BY <1>1, <1>3, SameHatsOnward
<1> QED
  BY <1>14, <1>2, <1>5, <1>6, <1>7, <1>8, <1>9, <1>10, <1>12, <1>13 DEF Kept, Good, Runs

\* A process that still waits on its barrier goes to the back.
LEMMA WaitKept ==
  ASSUME Inv, KeysSuffice, NEW msg \in Msgs, StepWait(msg)
  PROVE  Kept(proj') /\ Rest(msg, proj') /\ Runs(At(msg), Delivered(msg))
         /\ SameHats(proj, proj')
<1> DEFINE u == KeySupply(proj)
           r == At(msg)
<1>1. PICK n \in FirstLive(r) :
        proj' = PushBack(DoOnce(SetWaiting(OnIts(msg, n), r.queue[n], TRUE),
                                Delivered(msg), u.consume), r.queue[n])
  BY DEF StepWait, At, OnIts
<1> DEFINE k == r.queue[n]
           s == OnIts(msg, n)
           wait == TRUE
           w == SetWaiting(s, k, wait)
           d == DoOnce(w, Delivered(msg), u.consume)
<1>2. /\ Good(s, {k}) /\ Waits(s) /\ Rooted(s, {}) /\ Rooted(s, {k})
      /\ Distinct(u) /\ Unused(s, {k}, u, Delivered(msg), Others(msg))
      /\ Delivered(msg) \in BOOLEAN /\ Others(msg) \in SUBSET (1 .. MaxScripts)
      /\ Stays(At(msg), s, Deaf) /\ HadTurn(r, n, s) /\ SameHats(proj, s)
  BY TurnFacts
<1> HIDE DEF s, u, r
<1>3. /\ Good(w, {k}) /\ w.scripts = s.scripts /\ Live(w) = Live(s)
      /\ \A j \in Live(s) : /\ w.processes[j].barrier = s.processes[j].barrier
                            /\ w.processes[j].data = s.processes[j].data
                            /\ w.processes[j].running = s.processes[j].running
      /\ \A j : Fresh(s, j) => Fresh(w, j)
      /\ w.queue = s.queue
  <2>1. wait \in BOOLEAN
    OBVIOUS
  <2> HIDE DEF k, wait
  <2> QED
    BY <1>2, <2>1, SetWaitingGood
<1>4. proj' = PushBack(d, k)
  BY <1>1 DEF s
<1> HIDE DEF w
<1>5. /\ Waits(w) /\ Unused(w, {k}, u, Delivered(msg), Others(msg))
      /\ Rooted(w, {k})
  BY <1>2, <1>3, SameScriptsRooted DEF Waits, Unused
<1>6. /\ Good(d, {k}) /\ Waits(d) /\ Rooted(d, {k})
      /\ Onward(w, d, Delivered(msg), Deaf)
      /\ \A Q, v : After(d, v, Q) => Unfolds(w, Delivered(msg), Q, d, v)
  BY <1>2, <1>3, <1>5, DrainGood
<1> HIDE DEF d
<1>7. Onward(s, d, Delivered(msg), Deaf)
  BY <1>3, <1>6, SameScriptsStay, OnwardStays
<1>8. Kept(proj') /\ Stays(d, proj', Deaf)
  BY <1>4, <1>6, BackInQueue
<1>9. Runs(r, Delivered(msg))
  <2>1. Unfolds(w, Delivered(msg), {}, d, d)
    BY <1>6, ExtendsItself, AfterExtends
  <2>2. HadTurn(r, n, w)
    BY <1>2, <1>3, StillHadTurn
  <2> QED
    BY <1>4, <1>6, <2>1, <2>2, SparingRuns
<1>10. SameHats(proj, proj')
  <2>1. Extends(w, d)
    BY <1>6, ExtendsItself, AfterExtends DEF Unfolds
  <2>2. proj'.scripts = d.scripts
    BY <1>4, <1>6, PushShifts
  <2> QED
    BY <1>2, <1>3, <2>1, <2>2, SameHatsOnward
<1> QED
  BY <1>2, <1>7, <1>8, <1>9, <1>10, RestFacts DEF r

\* A process that yields goes to the back, behind what do_once began.
LEMMA YieldKept ==
  ASSUME Inv, KeysSuffice, NEW msg \in Msgs, StepYield(msg)
  PROVE  Kept(proj') /\ Rest(msg, proj') /\ Runs(At(msg), Delivered(msg))
         /\ SameHats(proj, proj')
<1> DEFINE u == KeySupply(proj)
           r == At(msg)
<1>1. PICK n \in FirstLive(r) :
        proj' = PushBack(DoOnce(OnIts(msg, n), Delivered(msg), u.consume),
                         r.queue[n])
  BY DEF StepYield, At, OnIts
<1> DEFINE k == r.queue[n]
           s == OnIts(msg, n)
           d == DoOnce(s, Delivered(msg), u.consume)
<1>2. /\ Good(s, {k}) /\ Waits(s) /\ Rooted(s, {}) /\ Rooted(s, {k})
      /\ Distinct(u) /\ Unused(s, {k}, u, Delivered(msg), Others(msg))
      /\ Delivered(msg) \in BOOLEAN /\ Others(msg) \in SUBSET (1 .. MaxScripts)
      /\ Stays(At(msg), s, Deaf) /\ HadTurn(r, n, s) /\ SameHats(proj, s)
  BY TurnFacts
<1> HIDE DEF s, u, r
<1>3. /\ Good(d, {k}) /\ Waits(d) /\ Rooted(d, {k})
      /\ Onward(s, d, Delivered(msg), Deaf)
      /\ \A Q, v : After(d, v, Q) => Unfolds(s, Delivered(msg), Q, d, v)
  BY <1>2, DrainGood
<1>4. proj' = PushBack(d, k)
  BY <1>1 DEF s
<1> HIDE DEF d
<1>5. Kept(proj') /\ Stays(d, proj', Deaf)
  BY <1>3, <1>4, BackInQueue
<1>6. Runs(r, Delivered(msg))
  <2>1. Unfolds(s, Delivered(msg), {}, d, d)
    BY <1>3, ExtendsItself, AfterExtends
  <2> QED
    BY <1>2, <1>3, <1>4, <2>1, SparingRuns
<1>7. SameHats(proj, proj')
  <2>1. Extends(s, d)
    BY <1>3, ExtendsItself, AfterExtends DEF Unfolds
  <2>2. proj'.scripts = d.scripts
    BY <1>3, <1>4, PushShifts
  <2> QED
    BY <1>2, <2>1, <2>2, SameHatsOnward
<1> QED
  BY <1>2, <1>3, <1>5, <1>6, <1>7, RestFacts DEF r

\* A process that goes on returns to the front.
LEMMA NormalKept ==
  ASSUME Inv, KeysSuffice, NEW msg \in Msgs, StepNormal(msg)
  PROVE  Kept(proj') /\ Rest(msg, proj') /\ Runs(At(msg), Delivered(msg))
         /\ SameHats(proj, proj')
<1>1. PICK n \in FirstLive(At(msg)) :
        proj' = PushFront(OnIts(msg, n), At(msg).queue[n])
  BY DEF StepNormal, At, OnIts
<1>2. /\ Good(OnIts(msg, n), {At(msg).queue[n]}) /\ Waits(OnIts(msg, n))
      /\ Rooted(OnIts(msg, n), {At(msg).queue[n]})
      /\ Stays(At(msg), OnIts(msg, n), Deaf)
      /\ HadTurn(At(msg), n, OnIts(msg, n)) /\ SameHats(proj, OnIts(msg, n))
  BY TurnFacts
<1>3. Kept(proj') /\ Stays(OnIts(msg, n), proj', Deaf)
  BY <1>1, <1>2, BackInQueue
<1>4. Onward(OnIts(msg, n), proj', Delivered(msg), Deaf)
  BY <1>3, OnwardStays
<1>5. Runs(At(msg), Delivered(msg))
  <2>1. Unfolds(OnIts(msg, n), Delivered(msg), {}, OnIts(msg, n), OnIts(msg, n))
    BY <1>2, UnfoldsItself
  <2> QED
    BY <1>1, <1>2, <2>1, SparingRuns
<1>6. SameHats(proj, proj')
  BY <1>1, <1>2, PushShifts, SameHatsOnward
<1> QED
  BY <1>2, <1>3, <1>4, <1>5, <1>6, RestFacts

\* A process that ends is removed; its key is in the queue no longer.
LEMMA EndKept ==
  ASSUME Inv, KeysSuffice, NEW msg \in Msgs, StepEnd(msg)
  PROVE  Kept(proj') /\ Rest(msg, proj') /\ Runs(At(msg), Delivered(msg))
         /\ SameHats(proj, proj')
<1> DEFINE u == KeySupply(proj)
           r == At(msg)
<1>1. PICK n \in FirstLive(r) :
        proj' = DoOnce(RemoveProcesses(OnIts(msg, n), {r.queue[n]}),
                       Delivered(msg), u.consume)
  BY DEF StepEnd, At, OnIts
<1> DEFINE k == r.queue[n]
           s == OnIts(msg, n)
           w == RemoveProcesses(s, {k})
           d == DoOnce(w, Delivered(msg), u.consume)
<1>2. /\ Good(s, {k}) /\ Waits(s) /\ Rooted(s, {}) /\ Rooted(s, {k})
      /\ Distinct(u) /\ Unused(s, {k}, u, Delivered(msg), Others(msg))
      /\ Delivered(msg) \in BOOLEAN /\ Others(msg) \in SUBSET (1 .. MaxScripts)
      /\ Stays(At(msg), s, Deaf) /\ HadTurn(r, n, s) /\ SameHats(proj, s)
  BY TurnFacts
<1> HIDE DEF s, u, r
<1>3. /\ Good(w, {k}) /\ w.scripts = s.scripts /\ Live(w) = Live(s) \ {k}
      /\ \A j \in Live(w) : w.processes[j] = s.processes[j]
      /\ \A j : Fresh(s, j) => Fresh(w, j)
      /\ w.queue = s.queue
  BY <1>2, RemoveGood
<1>4. proj' = d
  BY <1>1 DEF s
<1> HIDE DEF w
<1>5. Waits(w) /\ Good(w, {}) /\ Unused(w, {}, u, Delivered(msg), Others(msg))
  BY <1>2, <1>3 DEF Waits, Unused, Good, Queued
<1>6. Rooted(w, {})
  BY <1>2, <1>3, SameScriptsRooted
<1>7. /\ Good(d, {}) /\ Waits(d) /\ Rooted(d, {})
      /\ Onward(w, d, Delivered(msg), Deaf)
      /\ Delivered(msg) \/ Begins(w, d)
      /\ Delivered(msg) => d = w
      /\ \A Q, v : After(d, v, Q) => Unfolds(w, Delivered(msg), Q, d, v)
  BY <1>2, <1>5, <1>6, DrainGood DEF DoOnce
<1>8. Onward(s, w, TRUE, Deaf)
  BY <1>3 DEF Onward, Quits, Taken
<1> HIDE DEF d
<1>9. Rest(msg, d)
  BY <1>2, <1>7, <1>8, OnwardStays, RestFacts
<1>10. Runs(r, Delivered(msg))
  <2>1. /\ Shifted(r.queue, n, s.queue, 0) /\ s.scripts = r.scripts
        /\ Live(s) = Live(r)
        /\ \A i \in DOMAIN r.scripts : IsRunning(s, i) = IsRunning(r, i)
    BY <1>2 DEF HadTurn
  <2>2. /\ Shifted(r.queue, n, w.queue, 0) /\ w.scripts = r.scripts
        /\ Live(w) \subseteq Live(r) \union {NoKey}
        /\ \A i \in DOMAIN r.scripts : IsRunning(w, i) => IsRunning(r, i)
    BY <1>3, <2>1 DEF IsRunning
  <2>3. After(d, d, {})
    BY ExtendsItself, AfterExtends
  <2>4. Extends(w, d) /\ d.queue \in Seq(Key)
    BY <1>7, <2>3 DEF Unfolds
  <2>5. ~ InQueue(d.queue, NoKey)
    BY <2>4, KeyAssumption DEF InQueue
  <2> DEFINE o == 0
  <2>6. Shifted(d.queue, 0, proj'.queue, o)
    <3>1. \A m \in DOMAIN d.queue : (m - 0) + 0 = m
      BY <2>4
    <3> QED
      BY <1>4, <3>1 DEF Shifted
  <2>7. Course(r, Delivered(msg), n, NoKey, {}, w, d, d, o)
    BY <1>4, <1>7, <2>2, <2>3, <2>4, <2>5, <2>6 DEF Course
  <2> QED
    BY <2>7, RunsCourse
<1>11. SameHats(proj, proj')
  <2>1. Extends(w, d)
    BY <1>7, ExtendsItself, AfterExtends DEF Unfolds
  <2> QED
    BY <1>2, <1>3, <1>4, <2>1, SameHatsOnward
<1> QED
  BY <1>4, <1>7, <1>9, <1>10, <1>11 DEF Kept, Rooted, r

\* A fork goes to the back, and the process that forked to the front.
LEMMA ForkKept ==
  ASSUME Inv, KeysSuffice, NEW msg \in Msgs, NEW entity \in Nat,
         StepFork(msg, entity)
  PROVE  Kept(proj') /\ Rest(msg, proj') /\ Runs(At(msg), Delivered(msg))
         /\ SameHats(proj, proj')
<1> DEFINE u == KeySupply(proj)
           r == At(msg)
           c == u.fork
           p == Initialized(NewProcess(entity), DefaultContext)
<1>1. PICK n \in FirstLive(r) :
        proj' = PushFront(PushBack(DoOnce(InsertProcess(OnIts(msg, n), c, p),
                                          Delivered(msg), u.consume), c),
                          r.queue[n])
  BY DEF StepFork, At, OnIts
<1> DEFINE k == r.queue[n]
           s == OnIts(msg, n)
           w == InsertProcess(s, c, p)
           d == DoOnce(w, Delivered(msg), u.consume)
           b == PushBack(d, c)
           out == {k} \union {c}
<1>2. /\ Good(s, {k}) /\ Waits(s) /\ Rooted(s, {k}) /\ Fresh(s, c) /\ c # k
      /\ Distinct(u) /\ Unused(s, {k}, u, Delivered(msg), Others(msg))
      /\ Delivered(msg) \in BOOLEAN /\ Others(msg) \in SUBSET (1 .. MaxScripts)
      /\ Stays(At(msg), s, Deaf) /\ HadTurn(r, n, s) /\ SameHats(proj, s)
  BY TurnFacts DEF OnTurn
<1>3. p \in Process /\ p.barrier = NoKey
  BY BegunProcess, ContextsUsed DEF DefaultContext
<1>4. proj' = PushFront(b, k)
  BY <1>1
<1> HIDE DEF s, u, r, p
<1>5. c \in Key /\ \A i \in 1 .. MaxScripts : /\ u.consume[i] \in Key
                                             /\ u.start[i] \in Key
                                             /\ c # u.consume[i]
                                             /\ c # u.start[i]
  BY <1>2 DEF Distinct
<1>6. Inserted(s, w, {k}, c) /\ w.processes[c] = p
  <2> HIDE DEF c, k
  <2> QED
    BY <1>2, <1>3, <1>5, InsertGood
<1> HIDE DEF w
<1>7. Good(w, out) /\ Waits(w) /\ Rooted(w, out)
  <2>1. c \in Reserved \ {k}
    BY <1>2 DEF Distinct
  <2> HIDE DEF c, k
  <2>2. Rooted(w, {k} \union {c})
    BY <1>2, <1>3, <1>6, <2>1, InsertRooted
  <2> QED
    BY <1>2, <1>6, <2>2 DEF Inserted, Waits, out
<1>8. Unused(w, out, u, Delivered(msg), Others(msg))
  BY <1>2, <1>5, <1>6 DEF Inserted, Unused
<1> HIDE DEF out
<1>9. /\ Good(d, out) /\ Waits(d) /\ Rooted(d, out)
      /\ Onward(w, d, Delivered(msg), Deaf)
      /\ Delivered(msg) \/ Begins(w, d)
      /\ Delivered(msg) => d = w
      /\ \A Q, v : After(d, v, Q) => Unfolds(w, Delivered(msg), Q, d, v)
  BY <1>2, <1>7, <1>8, DrainGood DEF DoOnce
<1> HIDE DEF d
<1>10. Good(b, {k})
  <2>1. c \in out /\ out \ {c} = {k}
    BY <1>2 DEF out
  <2>2. Good(b, out \ {c})
    <3> HIDE DEF c
    <3> QED
      BY <1>9, <2>1, PushGood
  <2> QED
    BY <2>1, <2>2
<1>11. Waits(b) /\ Rooted(b, out) /\ Stays(d, b, Deaf)
  <2>1. b.scripts = d.scripts /\ b.processes = d.processes
    BY <1>9, FieldUpdate DEF PushBack, Good, IsState
  <2>2. Live(b) = Live(d)
    BY <2>1 DEF Live
  <2> QED
    BY <1>9, <2>1, <2>2, SameScriptsRooted, SameScriptsStay DEF Waits
<1>12. Stays(s, w, Deaf)
  BY <1>6 DEF Inserted, Stays
<1> HIDE DEF b
<1>13. Rest(msg, b)
  BY <1>2, <1>9, <1>11, <1>12, OnwardStays, RestFacts
<1>14. Kept(proj') /\ Stays(b, proj', Deaf)
  BY <1>4, <1>10, <1>11, BackInQueue
<1>15. Runs(r, Delivered(msg))
  <2>1. /\ Shifted(r.queue, n, s.queue, 0) /\ s.scripts = r.scripts
        /\ Live(s) = Live(r) /\ n \in DOMAIN r.queue
        /\ \A i \in DOMAIN r.scripts : IsRunning(s, i) = IsRunning(r, i)
    BY <1>2 DEF HadTurn, FirstLive
  <2>2. /\ Shifted(r.queue, n, w.queue, 0) /\ w.scripts = r.scripts
        /\ Live(w) \subseteq Live(r) \union {c}
        /\ \A i \in DOMAIN r.scripts : IsRunning(w, i) = IsRunning(r, i)
    BY <1>6, <2>1 DEF Inserted, Calm
  <2>3. After(d, d, {})
    BY ExtendsItself, AfterExtends
  <2>4. Extends(w, d) /\ d.queue \in Seq(Key)
    BY <1>9, <2>3 DEF Unfolds
  <2>5. ~ InQueue(d.queue, c)
    BY <1>9 DEF Good, Queued, out
  <2> DEFINE o == 1
  <2>6. /\ Live(proj') = Live(d) /\ proj'.scripts = d.scripts
        /\ Shifted(d.queue, 0, proj'.queue, o) /\ proj'.queue[1] = k
    <3>1. /\ Shifted(d.queue, 0, b.queue, 0)
          /\ Live(b) = Live(d) /\ b.scripts = d.scripts
      BY <1>9, PushShifts DEF out, b
    <3>2. /\ Shifted(b.queue, 0, proj'.queue, 1) /\ proj'.queue[1] = k
          /\ Live(proj') = Live(b) /\ proj'.scripts = b.scripts
      BY <1>4, <1>10, PushShifts
    <3>3. \A m \in DOMAIN d.queue : /\ (m - 0) + 0 = m /\ m > 0
                                    /\ (m - 0) + 1 = (m - 0) + o
      BY <2>4
    <3>4. Shifted(d.queue, 0, proj'.queue, o)
      BY <3>1, <3>2, <3>3 DEF Shifted
    <3> QED
      BY <3>1, <3>2, <3>4
  <2>7. Course(r, Delivered(msg), n, c, {}, w, d, d, o)
    BY <1>9, <2>1, <2>2, <2>3, <2>4, <2>5, <2>6 DEF Course
  <2> QED
    BY <2>7, RunsCourse
<1>16. SameHats(proj, proj')
  <2>1. Extends(w, d)
    BY <1>9, ExtendsItself, AfterExtends DEF Unfolds
  <2>2. b.scripts = d.scripts
    BY <1>9, PushShifts DEF out, b
  <2>3. proj'.scripts = b.scripts
    BY <1>4, <1>10, PushShifts
  <2>4. w.scripts = s.scripts
    BY <1>6 DEF Inserted
  <2> QED
    BY <1>2, <2>1, <2>2, <2>3, <2>4, SameHatsOnward
<1> QED
  BY <1>2, <1>13, <1>14, <1>15, <1>16, RestFacts DEF r

\* A broadcast restarts its receivers, its sender perhaps among them.
LEMMA BroadcastKept ==
  ASSUME Inv, KeysSuffice, NEW msg \in Msgs, NEW name \in Name, NEW targets,
         NEW wait \in BOOLEAN, StepBroadcast(msg, name, targets, wait)
  PROVE  Kept(proj') /\ Rest(msg, proj') /\ Runs(At(msg), Delivered(msg))
         /\ SameHats(proj, proj')
<1> DEFINE u == KeySupply(proj)
           r == At(msg)
           hats(s) == {i \in Hats(s, "LocalMessage", name) :
                         s.scripts[i].entity \in targets}
           cx(k) == [data |-> name, barrier |-> IF wait THEN k ELSE NoKey]
           waiting(n) == SetWaiting(OnIts(msg, n), r.queue[n], wait)
<1>1. PICK n \in FirstLive(r) :
        proj' = PushFront(Restart(waiting(n), hats(waiting(n)), cx(r.queue[n]),
                                  Delivered(msg), u), r.queue[n])
  BY DEF StepBroadcast, At, OnIts
<1> DEFINE k == r.queue[n]
           s == OnIts(msg, n)
           w == SetWaiting(s, k, wait)
           R == hats(w)
           context == cx(k)
           t == Restart(w, R, context, Delivered(msg), u)
<1>2. /\ Good(s, {k}) /\ Waits(s) /\ Rooted(s, {k}) /\ k \in Key /\ SameHats(proj, s)
      /\ Distinct(u) /\ Unused(s, {k}, u, Delivered(msg), Others(msg))
      /\ Delivered(msg) \in BOOLEAN /\ Stays(At(msg), s, Deaf)
      /\ HadTurn(r, n, s)
  BY TurnFacts DEF OnTurn
<1>3. proj' = PushFront(t, k)
  BY <1>1
<1>4. context \in Context /\ context.barrier \in {k, NoKey}
  <2>1. (IF wait THEN k ELSE NoKey) \in Key \union {NoKey}
    BY <1>2
  <2> QED
    BY <2>1, ContextsUsed
<1> HIDE DEF s, u, r, context
<1>5. /\ Good(w, {k}) /\ w.scripts = s.scripts /\ Live(w) = Live(s)
      /\ \A j \in Live(s) : /\ w.processes[j].barrier = s.processes[j].barrier
                            /\ w.processes[j].data = s.processes[j].data
                            /\ w.processes[j].running = s.processes[j].running
      /\ \A j : Fresh(s, j) => Fresh(w, j)
      /\ w.queue = s.queue
  BY <1>2, SetWaitingGood
<1> HIDE DEF w
<1>6. /\ R \in SUBSET DOMAIN w.scripts
      /\ \A i \in R : w.scripts[i].event.type = "LocalMessage"
  BY DEF Hats
<1> HIDE DEF R
<1>7. R \subseteq Others(msg) /\ R \subseteq Deaf
  <2>1. R \subseteq 1 .. MaxScripts
    BY <1>5, <1>6, ScriptFacts
  <2>2. \A i \in R : proj.scripts[i].event.type = "LocalMessage"
    BY <1>2, <1>5, <1>6 DEF SameHats
  <2> QED
    BY <1>2, <1>5, <1>6, <2>1, <2>2 DEF Others, Receivers, Deaf, SameHats
<1>8. Waits(w) /\ Unused(w, {k}, u, Delivered(msg), R)
  BY <1>2, <1>5, <1>7 DEF Waits, Unused
<1>9. Restarted(w, t, {k}, R, context) /\ Onward(w, t, Delivered(msg), R)
  BY <1>2, <1>4, <1>5, <1>6, <1>8, RestartGood
<1>10. Rooted(w, {k}) /\ Fits(w, R, context, {k})
  <2>1. Rooted(w, {k})
    BY <1>2, <1>5, SameScriptsRooted
  <2>2. context.barrier \notin Reserved \ {k}
    BY <1>4, KeyAssumption DEF Reserved, Free
  <2>3. \A i \in R : w.scripts[i].event.type \notin Patient
    BY <1>6 DEF Patient
  <2> QED
    BY <2>1, <2>2, <2>3 DEF Fits
<1>11. Good(t, {k}) /\ Waits(t) /\ Rooted(t, {k})
  BY <1>8, <1>9, <1>10 DEF Restarted
<1>14. PICK d : Unfolds(w, Delivered(msg), R, d, t)
  BY <1>2, <1>4, <1>5, <1>6, <1>8, RestartUnfolds
<1> HIDE DEF t
<1>12. Onward(s, t, Delivered(msg), Deaf)
  <2>1. Stays(s, w, Deaf)
    BY <1>5, SameScriptsStay
  <2>2. Onward(w, t, Delivered(msg), Deaf)
    BY <1>7, <1>9, SetAside
  <2> QED
    BY <2>1, <2>2, OnwardStays
<1>13. Kept(proj') /\ Stays(t, proj', Deaf)
  BY <1>3, <1>11, BackInQueue
<1>15. Runs(r, Delivered(msg))
  <2>1. \A i \in R : i \notin Ready(proj)
    <3>1. \A i \in R : proj.scripts[i].event.type \notin Patient
      BY <1>2, <1>5, <1>6 DEF SameHats, Patient
    <3> QED
      BY <3>1, NoneReady
  <2>2. HadTurn(r, n, w)
    BY <1>2, <1>5, StillHadTurn
  <2> QED
    BY <1>3, <1>11, <1>14, <2>1, <2>2, TurnRuns
<1>16. SameHats(proj, proj')
  <2>1. SameHats(w, t)
    BY <1>9 DEF Restarted
  <2>2. proj'.scripts = t.scripts
    BY <1>3, <1>11, PushShifts
  <2> QED
    BY <1>2, <1>5, <2>1, <2>2, SameHatsOnward
<1> QED
  BY <1>2, <1>12, <1>13, <1>15, <1>16, RestFacts DEF r

\* Scripts are added for one entity; the others keep their hats.
AddsFor(e) ==
  /\ \A i \in DOMAIN proj.scripts :
       /\ i \in DOMAIN proj'.scripts
       /\ proj'.scripts[i].event = proj.scripts[i].event
       /\ proj'.scripts[i].entity = proj.scripts[i].entity
  /\ \A i \in DOMAIN proj'.scripts :
       i \in DOMAIN proj.scripts \/ proj'.scripts[i].entity = e

\* They are copies of the scripts of an entity, for a new one.
CopiesHats(root) ==
  LET old    == Len(proj.scripts)
      copied == InOrder({i \in DOMAIN proj.scripts : proj.scripts[i].entity = root})
  IN  /\ DOMAIN proj'.scripts = 1 .. old + Len(copied)
      /\ \A c \in DOMAIN copied :
           /\ proj'.scripts[old + c].event = proj.scripts[copied[c]].event
           /\ proj'.scripts[old + c].entity = Len(roots) + 1

\* A script that is added has neither process nor context.
LEMMA AddScriptKept ==
  ASSUME Inv, NEW hat \in Hat, AddScript(hat)
  PROVE  Kept(proj') /\ Onward(proj, proj', FALSE, Deaf) /\ Runs(proj, FALSE)
         /\ AddsFor(hat.entity)
<1> DEFINE x == NewScript(hat)
           added == <<x>>
           t == [proj EXCEPT !.scripts = @ \o added]
<1>1. /\ Good(proj, {}) /\ Waits(proj) /\ Rooted(proj, {})
      /\ proj.scripts \in Seq(Script)
  BY InvRooted DEF Inv, Good, IsState
<1>2. /\ x \in Script /\ x.process = NoKey /\ x.context_queue = <<>>
      /\ x.entity = hat.entity
  <2>1. hat.event \in Event /\ hat.entity \in Nat
    BY ScriptAssumption DEF Hat
  <2>2. <<>> \in Seq(Context)
    OBVIOUS
  <2> QED
    BY <2>1, <2>2 DEF NewScript, Script
<1>3. proj' = [proj EXCEPT !.scripts = Append(@, x)] /\ Len(proj.scripts) < MaxScripts
  BY DEF AddScript
<1> HIDE DEF x
<1>4. Append(proj.scripts, x) = proj.scripts \o added
  BY <1>1, <1>2
<1>5. proj' = t
  BY <1>3, <1>4
<1>6. /\ added \in Seq(Script) /\ Len(added) = 1 /\ DOMAIN added = {1} /\ added[1] = x
  BY <1>2
<1> HIDE DEF added
<1>7. Len(proj.scripts) + Len(added) <= MaxScripts
  BY <1>1, <1>3, <1>6, ScriptAssumption
<1>8. Good(t, {}) /\ Waits(t) /\ Rooted(t, {}) /\ Stays(proj, t, {})
      /\ Unfolds(proj, FALSE, {}, proj, t)
      /\ t.scripts = proj.scripts \o added
  <2>1. Grown(proj, t, {}, added)
    BY <1>1, <1>2, <1>6, <1>7, GrowGood
  <2> HIDE DEF t
  <2>2. Unfolds(proj, FALSE, {}, proj, t)
    <3>1. After(proj, t, {}) /\ Extends(proj, proj)
      BY <2>1, AfterGrown, ExtendsItself
    <3> QED
      BY <1>1, <2>1, <3>1 DEF Unfolds, Grown, Good, IsState
  <2> QED
    BY <1>1, <2>1, <2>2 DEF Grown
<1> HIDE DEF t
<1>9. Onward(proj, t, FALSE, Deaf)
  BY <1>8, SetAside, OnwardStays
<1>10. Runs(proj, FALSE)
  <2>1. Unfolds(proj, FALSE, {}, proj, proj') /\ Good(proj', {})
    BY <1>5, <1>8
  <2> QED
    BY <2>1, DrainingRuns
<1>11. AddsFor(hat.entity)
  BY <1>1, <1>2, <1>5, <1>6, <1>8, ConcatPositions DEF AddsFor
<1> QED
  BY <1>5, <1>8, <1>9, <1>10, <1>11 DEF Kept, Rooted

\* The scripts of a clone are added; those for the creation of clones are begun.
LEMMA CloneKept ==
  ASSUME Inv, KeysSuffice, NEW msg \in Msgs, NEW root \in Nat, StepClone(msg, root)
  PROVE  Kept(proj') /\ Rest(msg, proj') /\ Runs(At(msg), Delivered(msg))
         /\ AddsFor(Len(roots) + 1) /\ CopiesHats(root)
<1> DEFINE u      == KeySupply(proj)
           r      == At(msg)
           old    == Len(r.scripts)
           copies == {i \in DOMAIN r.scripts : r.scripts[i].entity = root}
           copied == InOrder(copies)
           added  == [c \in DOMAIN copied |->
                        NewScript([event  |-> r.scripts[copied[c]].event,
                                   entity |-> Len(roots) + 1])]
           R      == {i \in old + 1 .. old + Len(added) :
                        added[i - old].event.type = "OnClone"}
           drained(s) == IF R = {} THEN s ELSE DoOnce(s, Delivered(msg), u.consume)
<1>1. PICK n \in FirstLive(r) :
        /\ old + Len(added) <= MaxScripts
        /\ proj' = PushFront(Schedule([drained(OnIts(msg, n)) EXCEPT !.scripts = @ \o added],
                                      R, DefaultContext, 0, u.start),
                             r.queue[n])
  BY DEF StepClone, ScriptsToCopy, At, OnIts
<1> DEFINE k == r.queue[n]
           s == OnIts(msg, n)
           d == drained(s)
           g == [d EXCEPT !.scripts = @ \o added]
           t == Schedule(g, R, DefaultContext, 0, u.start)
<1>2. /\ Good(s, {k}) /\ Waits(s) /\ Rooted(s, {k}) /\ SameHats(proj, s)
      /\ Distinct(u) /\ Unused(s, {k}, u, Delivered(msg), Others(msg))
      /\ Delivered(msg) \in BOOLEAN /\ Others(msg) \in SUBSET (1 .. MaxScripts)
      /\ Stays(At(msg), s, Deaf) /\ HadTurn(r, n, s)
  BY TurnFacts DEF OnTurn
<1>3. proj' = PushFront(t, k)
  BY <1>1
<1>4. /\ Good(r, {}) /\ SameHats(proj, r)
  BY ReceivedGood DEF At, Prepared, Extends
<1>25. copied = InOrder({i \in DOMAIN proj.scripts : proj.scripts[i].entity = root})
  <2>1. copies = {i \in DOMAIN proj.scripts : proj.scripts[i].entity = root}
    BY <1>4 DEF SameHats
  <2> QED
    BY <2>1
<1> HIDE DEF s, u, r
<1>5. /\ copied \in Seq(copies) /\ DOMAIN copied = 1 .. Len(copied)
      /\ Len(copied) \in Nat
      /\ \A c \in DOMAIN copied : copied[c] \in DOMAIN r.scripts
  <2>1. copies \in SUBSET Nat /\ copies \in SUBSET DOMAIN r.scripts
    BY <1>4, ScriptFacts
  <2>2. IsFiniteSet(copies)
    BY <1>4, <2>1, ScriptFacts, FS_Subset
  <2> HIDE DEF copies
  <2>3. copied \in Seq(copies)
    BY <2>1, <2>2, InOrderSequence
  <2> HIDE DEF copied
  <2>4. /\ DOMAIN copied = 1 .. Len(copied) /\ Len(copied) \in Nat
        /\ \A c \in DOMAIN copied : copied[c] \in copies
    BY <2>3, SequenceFacts
  <2> QED
    BY <2>1, <2>3, <2>4
<1> HIDE DEF copied
<1>6. ASSUME NEW c \in DOMAIN copied
      PROVE  /\ added[c] \in Script /\ added[c].process = NoKey
             /\ added[c].context_queue = <<>>
             /\ added[c].event = r.scripts[copied[c]].event
             /\ added[c].entity = Len(roots) + 1
  <2>1. r.scripts[copied[c]].event \in Event
    BY <1>4, <1>5, ScriptFacts DEF Script
  <2>2. Len(roots) + 1 \in Nat
    BY DEF Inv
  <2>3. <<>> \in Seq(Context)
    OBVIOUS
  <2> QED
    BY <2>1, <2>2, <2>3 DEF NewScript, Script
<1>7. added \in Seq(Script) /\ DOMAIN added = DOMAIN copied /\ Len(added) = Len(copied)
  <2>1. added \in [1 .. Len(copied) -> Script]
    BY <1>5, <1>6
  <2>2. added \in Seq(Script)
    BY <1>5, <2>1, FunctionIsSequence
  <2>3. DOMAIN added = 1 .. Len(copied)
    BY <1>5
  <2> HIDE DEF added
  <2> QED
    BY <1>5, <2>2, <2>3
<1> HIDE DEF added
<1>8. /\ DOMAIN r.scripts = 1 .. old /\ DOMAIN s.scripts = 1 .. old /\ old \in Nat
      /\ Len(s.scripts) = old /\ DOMAIN proj.scripts = 1 .. old
  <2>1. r.scripts \in Seq(Script) /\ s.scripts \in Seq(Script)
    BY <1>2, <1>4 DEF Good, IsState
  <2>2. DOMAIN s.scripts = DOMAIN r.scripts /\ DOMAIN r.scripts = DOMAIN proj.scripts
    BY <1>2, <1>4 DEF SameHats
  <2> QED
    BY <2>1, <2>2
<1>9. \A i \in R : i \in Nat /\ i > old /\ i <= old + Len(added)
  BY <1>5, <1>7, <1>8
<1> HIDE DEF R, old
<1>10. R \in SUBSET (1 .. MaxScripts) /\ R \subseteq Others(msg)
  <2>1. R \subseteq 1 .. MaxScripts
    BY <1>1, <1>5, <1>7, <1>8, <1>9, ScriptAssumption
  <2>2. \A i \in R : i \notin DOMAIN proj.scripts
    BY <1>8, <1>9
  <2> QED
    BY <2>1, <2>2 DEF Others, Receivers
<1>11. Unused(s, {k}, u, Delivered(msg), R)
  BY <1>2, <1>10 DEF Unused
<1>12. /\ Good(d, {k}) /\ Waits(d) /\ Rooted(d, {k})
       /\ Extends(s, d) /\ Spare(d, {k}, u.start, R)
       /\ Onward(s, d, Delivered(msg), Deaf)
       /\ R = {} => d = s
       /\ \A v : After(d, v, {}) /\ (R = {} => Live(v) \subseteq Live(s)) =>
                 Unfolds(s, Delivered(msg), {}, d, v)
  <2>1. CASE R = {}
    <3>1. d = s
      BY <2>1
    <3> HIDE DEF d
    <3> QED
      BY <1>2, <2>1, <3>1, ExtendsItself
         DEF Spare, Onward, Quits, Unfolds, Good, IsState
  <2>2. CASE R # {}
    <3>1. d = DoOnce(s, Delivered(msg), u.consume)
      BY <2>2
    <3> HIDE DEF d
    <3>2. /\ Good(d, {k}) /\ Waits(d) /\ Rooted(d, {k})
          /\ Extends(s, d) /\ Spare(d, {k}, u.start, R)
          /\ Onward(s, d, Delivered(msg), Deaf)
          /\ \A Q, v : After(d, v, Q) => Unfolds(s, Delivered(msg), Q, d, v)
      BY <1>2, <1>10, <1>11, <3>1, DrainGood
    <3> QED
      BY ONLY <2>2, <3>2
  <2> QED
    BY <2>1, <2>2
<1> HIDE DEF d
<1>13. Len(d.scripts) = old /\ DOMAIN d.scripts = 1 .. old
  <2>1. d.scripts \in Seq(Script) /\ DOMAIN d.scripts = DOMAIN s.scripts
    BY <1>12 DEF Good, IsState, Extends, SameHats
  <2> QED
    BY <1>8, <2>1
<1>14. Len(d.scripts) + Len(added) <= MaxScripts
  BY <1>1, <1>13
<1>15. \A c \in DOMAIN added : added[c].process = NoKey /\ added[c].context_queue = <<>>
  BY <1>6, <1>7 DEF added
<1>16. /\ Good(g, {k}) /\ Waits(g) /\ Rooted(g, {k})
       /\ DOMAIN g.scripts = 1 .. old + Len(added)
       /\ \A j \in Key : Fresh(d, j) => Fresh(g, j)
       /\ Stays(d, g, {})
       /\ After(d, g, {}) /\ Live(g) = Live(d)
       /\ g.scripts = d.scripts \o added
  <2>1. Grown(d, g, {k}, added)
    BY <1>7, <1>12, <1>14, <1>15, GrowGood
  <2> HIDE DEF g
  <2> QED
    BY <1>12, <1>13, <2>1, AfterGrown DEF Grown
<1> HIDE DEF g
<1>17. R \in SUBSET DOMAIN g.scripts /\ Spare(g, {k}, u.start, R)
  <2>1. R \in SUBSET DOMAIN g.scripts
    BY <1>5, <1>7, <1>8, <1>9, <1>16
  <2> QED
    BY <1>12, <1>16, <2>1 DEF Spare
<1>18. Scheduled(g, t, {k}, R, DefaultContext, 0, u.start)
  BY <1>16, <1>17, ScheduleGood, ContextsUsed
<1> HIDE DEF t
<1>19. Good(t, {k}) /\ Waits(t) /\ Rooted(t, {k})
  <2>1. Waits(t)
    BY <1>16, <1>18, ScheduledWaits
  <2> QED
    BY <1>16, <1>18, <2>1, DefaultFits DEF Scheduled
<1>20. Rest(msg, g)
  BY <1>2, <1>12, <1>16, SetAside, OnwardStays, RestFacts
<1>21. Stays(g, t, R)
  BY <1>18, OthersStay
<1>22. Rest(msg, t)
  <2>1. \A i \in DOMAIN At(msg).scripts : i \in Nat /\ i <= old
    BY <1>8 DEF r
  <2>2. \A i \in DOMAIN At(msg).scripts : i \notin R
    BY <1>8, <1>9, <2>1
  <2> QED
    BY <1>20, <1>21, <2>2 DEF Rest, Onward, Stays, Calm, Takes, Quits
<1>23. Kept(proj') /\ Stays(t, proj', Deaf)
  BY <1>3, <1>19, BackInQueue
<1>24. Runs(r, Delivered(msg))
  <2>1. /\ Extends(g, t)
        /\ Live(t) \subseteq Live(g) \union {u.start[i] : i \in R}
    BY <1>18 DEF Scheduled
  <2>2. After(d, t, {})
    <3>1. DOMAIN d.scripts \subseteq DOMAIN g.scripts
      BY <1>16 DEF Stays
    <3> QED
      BY <1>16, <2>1, <3>1, ThenExtends
  <2>3. R = {} => Live(t) \subseteq Live(s)
    BY <1>12, <1>16, <2>1
  <2>4. Unfolds(s, Delivered(msg), {}, d, t)
    BY <1>12, <2>2, <2>3
  <2> QED
    BY <1>2, <1>3, <1>19, <2>4, SparingRuns
<1>26. /\ DOMAIN proj'.scripts = 1 .. old + Len(added)
       /\ \A i \in 1 .. old : /\ i \in DOMAIN proj'.scripts
                            /\ proj'.scripts[i].event = proj.scripts[i].event
                            /\ proj'.scripts[i].entity = proj.scripts[i].entity
       /\ \A c \in DOMAIN added :
            /\ proj'.scripts[old + c].event = added[c].event
            /\ proj'.scripts[old + c].entity = added[c].entity
  <2>1. SameHats(g, t) /\ SameHats(proj, d) /\ d.scripts \in Seq(Script)
    BY <1>2, <1>12, <1>18, SameHatsOnward DEF Scheduled, Extends, Good, IsState
  <2>2. proj'.scripts = t.scripts
    BY <1>3, <1>19, PushShifts
  <2>3. \A i \in 1 .. old : i \in DOMAIN g.scripts /\ g.scripts[i] = d.scripts[i]
    BY <1>7, <1>13, <1>16, <2>1, ConcatPositions
  <2>4. \A c \in DOMAIN added : /\ old + c \in DOMAIN g.scripts
                               /\ g.scripts[old + c] = added[c]
    BY <1>7, <1>13, <1>16, <2>1, ConcatPositions
  <2>5. /\ DOMAIN t.scripts = DOMAIN g.scripts
        /\ \A i \in DOMAIN g.scripts : /\ t.scripts[i].event = g.scripts[i].event
                                      /\ t.scripts[i].entity = g.scripts[i].entity
        /\ \A i \in DOMAIN proj.scripts :
             /\ d.scripts[i].event = proj.scripts[i].event
             /\ d.scripts[i].entity = proj.scripts[i].entity
    BY <2>1 DEF SameHats
  <2>6. ASSUME NEW i \in 1 .. old
        PROVE  /\ i \in DOMAIN proj'.scripts
               /\ proj'.scripts[i].event = proj.scripts[i].event
               /\ proj'.scripts[i].entity = proj.scripts[i].entity
    BY <1>8, <2>2, <2>3, <2>5
  <2>7. ASSUME NEW c \in DOMAIN added
        PROVE  /\ proj'.scripts[old + c].event = added[c].event
               /\ proj'.scripts[old + c].entity = added[c].entity
    BY <2>2, <2>4, <2>5
  <2> QED
    BY <1>16, <2>2, <2>5, <2>6, <2>7
<1>27. Len(proj.scripts) = old
  <2>1. proj.scripts \in Seq(Script)
    BY DEF Inv, Good, IsState
  <2> QED
    BY <1>8, <2>1
<1>28. CopiesHats(root)
  <2>1. \A c \in DOMAIN copied :
          /\ proj'.scripts[old + c].event = proj.scripts[copied[c]].event
          /\ proj'.scripts[old + c].entity = Len(roots) + 1
    BY <1>4, <1>5, <1>6, <1>7, <1>26 DEF SameHats
  <2> QED
    BY <1>7, <1>25, <1>26, <1>27, <2>1 DEF CopiesHats
<1>29. AddsFor(Len(roots) + 1)
  <2>1. ASSUME NEW i \in DOMAIN proj'.scripts, i \notin DOMAIN proj.scripts
        PROVE  proj'.scripts[i].entity = Len(roots) + 1
    <3>1. i - old \in DOMAIN copied /\ old + (i - old) = i
      BY <1>5, <1>7, <1>8, <1>26, <2>1
    <3> QED
      BY <1>6, <1>7, <1>26, <3>1
  <2> QED
    BY <1>8, <1>26, <2>1 DEF AddsFor
<1> QED
  BY <1>2, <1>22, <1>23, <1>24, <1>28, <1>29, RestFacts DEF r
-----------------------------------------------------------------------------
(* The theorems.                                                           *)

\* Every entity's root is an entity, and clones of clones have its root.
LEMMA RootsTyped ==
  ASSUME Inv, [Next]_vars
  PROVE  roots' \in Seq(1 .. MaxScripts)
<1>1. roots \in Seq(1 .. MaxScripts)
  BY DEF Inv
<1>2. ASSUME NEW msg \in Msgs, NEW e \in Entities, StepClone(msg, roots[e])
      PROVE  roots' \in Seq(1 .. MaxScripts)
  <2>1. roots' = Append(roots, roots[e])
    BY <1>2 DEF StepClone
  <2>2. roots[e] \in 1 .. MaxScripts
    BY <1>1, SequenceFacts DEF Entities
  <2> QED
    BY <1>1, <2>1, <2>2, AppendProperties
<1>3. ASSUME NEW msg \in Msgs, Step(msg)
      PROVE  roots' \in Seq(1 .. MaxScripts)
  BY <1>1, <1>2, <1>3
     DEF Step, StepIdle, StepWait, StepYield, StepNormal, StepFork,
         StepBroadcast, StepEnd
<1>4. Input => roots' = roots
  BY DEF Input, InputStart, InputStop, InputKeyDown, InputCustomEvent, AddProcess
<1>5. ASSUME NEW hat \in NewHats, AddScript(hat) PROVE roots' = roots
  BY <1>5 DEF AddScript
<1> QED
  BY <1>1, <1>3, <1>4, <1>5 DEF Next, Msgs, vars

\* Entities and their roots are numbers.
LEMMA EntityIsNat ==
  ASSUME Inv, NEW e \in Entities
  PROVE  e \in Nat /\ roots[e] \in Nat
<1>1. roots \in Seq(1 .. MaxScripts) /\ e \in 1 .. Len(roots)
  BY DEF Inv, Entities
<1>2. roots[e] \in 1 .. MaxScripts
  BY <1>1, SequenceFacts
<1> QED
  BY <1>1, <1>2, ScriptAssumption

\* Every outcome of a step keeps the invariant.
LEMMA StepKept ==
  ASSUME Inv, KeysSuffice, NEW msg \in Msgs, Step(msg)
  PROVE  Kept(proj') /\ Rest(msg, proj') /\ Runs(At(msg), Delivered(msg))
<1>1. CASE StepIdle(msg)
  BY <1>1, IdleKept
<1>2. CASE StepWait(msg)
  BY <1>2, WaitKept
<1>3. CASE StepYield(msg)
  BY <1>3, YieldKept
<1>4. CASE StepNormal(msg)
  BY <1>4, NormalKept
<1>5. ASSUME NEW e \in Entities, StepFork(msg, e)
      PROVE  Kept(proj') /\ Rest(msg, proj') /\ Runs(At(msg), Delivered(msg))
  BY <1>5, ForkKept, EntityIsNat
<1>6. ASSUME NEW e \in Entities, StepClone(msg, roots[e])
      PROVE  Kept(proj') /\ Rest(msg, proj') /\ Runs(At(msg), Delivered(msg))
  BY <1>6, CloneKept, EntityIsNat
<1>7. ASSUME NEW name \in Name, NEW targets \in TargetSets, NEW wait \in BOOLEAN,
             StepBroadcast(msg, name, targets, wait)
      PROVE  Kept(proj') /\ Rest(msg, proj') /\ Runs(At(msg), Delivered(msg))
  BY <1>7, BroadcastKept
<1>8. CASE StepEnd(msg)
  BY <1>8, EndKept
<1> QED
  BY <1>1, <1>2, <1>3, <1>4, <1>5, <1>6, <1>7, <1>8 DEF Step

\* Inv is inductive.
LEMMA NextInv ==
  ASSUME Inv, [Next]_vars
  PROVE  Inv'
<1>1. CASE UNCHANGED vars
  <2>1. Good(proj', {}) /\ Waits(proj') /\ Grounded(proj') /\ Quiet(proj')
    BY <1>1 DEF vars, Inv
  <2> QED
    BY <2>1, RootsTyped DEF Inv
<1>2. CASE Next
  <2>1. KeysSuffice
    BY <1>2 DEF Next
  <2>2. CASE Input
    <3>1. ASSUME InputStart PROVE Kept(proj')
      BY <2>1, <3>1, StartKept
    <3>2. ASSUME InputStop PROVE Kept(proj')
      BY <3>2, StopKept
    <3>3. ASSUME NEW key \in KeyCode, InputKeyDown(key)
          PROVE  Kept(proj')
      BY <2>1, <3>3, KeyDownKept
    <3>4. ASSUME NEW name \in Name, NEW data \in Locals, NEW interrupt \in BOOLEAN,
                 NEW max \in MaxQueues, InputCustomEvent(name, data, interrupt, max)
          PROVE  Kept(proj')
      BY <2>1, <3>4, CustomEventKept
    <3>5. ASSUME NEW e \in Entities, AddProcess(e)
          PROVE  Kept(proj')
      BY <2>1, <3>5, AddProcessKept, EntityIsNat
    <3>6. Kept(proj')
      BY <2>2, <3>1, <3>2, <3>3, <3>4, <3>5 DEF Input
    <3> QED
      BY <3>6, RootsTyped DEF Kept, Inv
  <2>3. ASSUME NEW hat \in NewHats, AddScript(hat)
        PROVE  Inv'
    BY <2>3, NewHatsAssumption, AddScriptKept, RootsTyped DEF Kept, Inv
  <2>4. ASSUME NEW msg \in Msgs, Step(msg)
        PROVE  Inv'
    BY <2>1, <2>4, StepKept, RootsTyped DEF Kept, Inv
  <2> QED
    BY <1>2, <2>2, <2>3, <2>4 DEF Next, Msgs
<1> QED
  BY <1>1, <1>2

\* How every call runs: after a message has been delivered, or without one.
LEMMA NextRuns ==
  ASSUME Inv, Next
  PROVE  \/ Runs(proj, FALSE)
         \/ \E r : /\ Good(r, {}) /\ Extends(proj, r) /\ Begun(r)
                  /\ Runs(r, TRUE)
<1>1. KeysSuffice
  BY DEF Next
<1>2. CASE Input
  <2>1. ASSUME InputStart PROVE Runs(proj, FALSE)
    BY <1>1, <2>1, StartKept
  <2>2. ASSUME InputStop PROVE Runs(proj, FALSE)
    BY <2>2, StopKept
  <2>3. ASSUME NEW key \in KeyCode, InputKeyDown(key)
        PROVE  Runs(proj, FALSE)
    BY <1>1, <2>3, KeyDownKept
  <2>4. ASSUME NEW name \in Name, NEW data \in Locals, NEW interrupt \in BOOLEAN,
               NEW max \in MaxQueues, InputCustomEvent(name, data, interrupt, max)
        PROVE  Runs(proj, FALSE)
    BY <1>1, <2>4, CustomEventKept
  <2>5. ASSUME NEW e \in Entities, AddProcess(e)
        PROVE  Runs(proj, FALSE)
    BY <1>1, <2>5, AddProcessKept, EntityIsNat
  <2> QED
    BY <1>2, <2>1, <2>2, <2>3, <2>4, <2>5 DEF Input
<1>3. ASSUME NEW hat \in NewHats, AddScript(hat)
      PROVE  Runs(proj, FALSE)
  BY <1>3, NewHatsAssumption, AddScriptKept
<1>4. ASSUME NEW msg \in Msgs, Step(msg)
      PROVE  \/ Runs(proj, FALSE)
             \/ \E r : /\ Good(r, {}) /\ Extends(proj, r) /\ Begun(r)
                      /\ Runs(r, TRUE)
  <2>1. Runs(At(msg), Delivered(msg))
    BY <1>1, <1>4, StepKept
  <2>2. /\ Good(At(msg), {}) /\ Extends(proj, At(msg))
        /\ ~ Delivered(msg) => At(msg) = proj
        /\ Delivered(msg) => Begun(At(msg))
    BY <1>1, ReceivedGood DEF At, Prepared
  <2>3. Delivered(msg) \in BOOLEAN
    BY DEF Delivered
  <2>4. CASE Delivered(msg) = TRUE
    BY <2>1, <2>2, <2>4
  <2>5. CASE Delivered(msg) = FALSE
    BY <2>1, <2>2, <2>5
  <2> QED
    BY <2>3, <2>4, <2>5
<1> QED
  BY <1>1, <1>2, <1>3, <1>4 DEF Next, Msgs

\* A process that stands behind another one in the queue stays there.
LEMMA OnceInOrder ==
  ASSUME NEW q \in Seq(Key), Once(q), NEW a, NEW b, Before(q, a, b), Before(q, b, a)
  PROVE  FALSE
<1>1. DOMAIN q \subseteq Nat
  OBVIOUS
<1>2. PICK m, n \in DOMAIN q : m < n /\ q[m] = a /\ q[n] = b
  BY DEF Before
<1>3. PICK i, j \in DOMAIN q : i < j /\ q[i] = b /\ q[j] = a
  BY DEF Before
<1>4. m = j /\ n = i
  BY <1>2, <1>3 DEF Once
<1> QED
  BY <1>1, <1>2, <1>3, <1>4

LEMMA NextInTurn ==
  ASSUME Inv, [Next]_vars
  PROVE  InTurn
<1>1. CASE UNCHANGED vars
  <2>1. proj' = proj /\ proj.queue \in Seq(Key) /\ Once(proj.queue)
    BY <1>1 DEF vars, Inv, Good, IsState, Queued
  <2> QED
    BY <2>1, OnceInOrder DEF InTurn
<1>2. CASE Next
  <2>1. Good(proj', {}) /\ Good(proj, {}) /\ Extends(proj, proj)
    BY NextInv, ExtendsItself DEF Inv
  <2>2. CASE Runs(proj, FALSE)
    BY <2>1, <2>2, RunsInTurn
  <2>3. ASSUME NEW r, Good(r, {}), Extends(proj, r), Runs(r, TRUE)
        PROVE  InTurn
    BY <2>1, <2>3, RunsInTurn
  <2> QED
    BY <1>2, <2>2, <2>3, NextRuns
<1> QED
  BY <1>1, <1>2

LEMMA NextWaitersLead ==
  ASSUME Inv, [Next]_vars
  PROVE  WaitersLead
<1>1. CASE UNCHANGED vars
  BY <1>1 DEF vars, WaitersLead
<1>2. CASE Next
  <2>1. Good(proj', {})
    BY NextInv DEF Inv
  <2>2. CASE Runs(proj, FALSE)
    BY <2>1, <2>2, RunsLead
  <2>3. ASSUME NEW r, Good(r, {}), Begun(r), Runs(r, TRUE)
        PROVE  WaitersLead
    <3>1. PICK d : Good(d, {}) /\ Begins(proj, d) /\ Extends(proj, d) /\ Extends(d, r)
      BY <2>3 DEF Begun
    <3> QED
      BY <2>1, <2>3, <3>1, DeliveredLead
  <2> QED
    BY <1>2, <2>2, <2>3, NextRuns
<1> QED
  BY <1>1, <1>2

\* The inductive invariant holds in every reachable state.
THEOREM InvHolds == Spec => []Inv
<1>1. Init => Inv
  BY InitInv
<1>2. Inv /\ [Next]_vars => Inv'
  BY NextInv
<1> QED
  BY <1>1, <1>2, PTL DEF Spec

\* The fields always hold what the structs' fields may hold.
THEOREM TypeCorrect == Spec => []TypeOK
<1>1. Inv => TypeOK
  BY DEF Inv, Good, IsState, Fields, TypeOK
<1> QED
  BY <1>1, InvHolds, PTL

\* Between calls, however scripts are started, stopped, restarted and copied,
\* every process has exactly one place in the process queue.
THEOREM ProcessesQueuedOnce == Spec => []EveryProcessQueuedOnce
<1>1. Inv => EveryProcessQueuedOnce
  <2> SUFFICES ASSUME Inv PROVE EveryProcessQueuedOnce
    OBVIOUS
  <2>1. Once(proj.queue) /\ \A k \in Live(proj) : InQueue(proj.queue, k)
    BY DEF Inv, Good, Queued
  <2>2. Live(proj) \subseteq Range(proj.queue)
    BY <2>1 DEF InQueue, Range
  <2>3. IsInjective(proj.queue)
    BY <2>1 DEF Once, IsInjective
  <2> QED
    BY <2>2, <2>3 DEF EveryProcessQueuedOnce
<1> QED
  BY <1>1, InvHolds, PTL

\* A script's process is its own, runs on the script's entity, and is running
\* while it lives: consume_context never initializes a live process anew.
THEOREM ScriptsOwnProcesses == Spec => []ScriptsOwnTheirProcesses
<1>1. Inv => ScriptsOwnTheirProcesses
  BY DEF Inv, Good, Owned, ScriptsOwnTheirProcesses
<1> QED
  BY <1>1, InvHolds, PTL

\* A context never waits at a script that is restarted or that ignores events
\* while it runs, whatever ends, is stopped or is delivered in between.
THEOREM OthersNeverWait == Spec => []OnlyEventsAndMessagesWait
<1>1. Inv => OnlyEventsAndMessagesWait
  BY DEF Inv, Waits, Patient, OnlyEventsAndMessagesWait
<1> QED
  BY <1>1, InvHolds, PTL

\* No script of a custom event holds more waiting contexts than the largest limit
\* the host passes, whichever deliveries, ends, stops and restarts come between.
THEOREM BacklogsAreBounded == Spec => []BacklogBounded
<1>1. Inv => BacklogBounded
  BY DEF Inv, Waits, Short, BacklogBounded
<1> QED
  BY <1>1, InvHolds, PTL

\* As long as there are processes, one of them does not wait: the barrier of a
\* process is only held by processes that were begun after it made it, so no
\* circle of broadcasts that wait can close, and no context that is left waiting
\* holds a barrier.
THEOREM ProcessesCanGoOn == Spec => []SomeProcessCanGoOn
<1>1. Inv => SomeProcessCanGoOn
  <2> SUFFICES ASSUME Inv, Live(proj) # {}
               PROVE  \E k \in Live(proj) : ~ Blocked(proj, k)
    BY DEF SomeProcessCanGoOn
  <2>1. PICK k \in Live(proj) :
          \A j \in Live(proj) : proj.processes[j].barrier # k
    BY DEF Inv, Grounded
  <2>2. k # NoKey
    BY KeyAssumption DEF Inv, Good, IsState
  <2>3. ASSUME NEW i \in DOMAIN proj.scripts,
               NEW c \in Range(proj.scripts[i].context_queue)
        PROVE  c.barrier # k
    <3>1. PICK n \in DOMAIN proj.scripts[i].context_queue :
            c = proj.scripts[i].context_queue[n]
      BY DEF Range
    <3>2. proj.scripts[i].event.type \in Patient
      <4>1. DOMAIN <<>> = {}
        OBVIOUS
      <4> QED
        BY <3>1, <4>1 DEF Inv, Waits
    <3> QED
      BY <2>2, <3>1, <3>2 DEF Inv, Quiet
  <2> QED
    BY <2>1, <2>3 DEF Blocked, BarrierHeld
<1> QED
  BY <1>1, InvHolds, PTL

\* A start leaves alone every process that is not an "on start" script's, also
\* when do_once begins other scripts in the same call.
THEOREM StartsSpareOthers == Spec => StartSparesOthers
<1> DEFINE A == InputStart =>
                  \A k \in Live(proj) :
                    (\A i \in Hats(proj, "OnFlag", AnyName) :
                       proj.scripts[i].process # k) =>
                      k \in Live(proj') /\ proj'.processes[k] = proj.processes[k]
<1>1. Inv /\ [Next]_vars => [A]_vars
  <2> SUFFICES ASSUME Inv, Next, InputStart
               PROVE  A
    OBVIOUS
  <2>1. Restarted(proj, proj', {}, Hats(proj, "OnFlag", AnyName), DefaultContext)
    BY StartKept DEF Next
  <2> QED
    BY <2>1 DEF Restarted
<1> HIDE DEF A
<1>2. Spec => [][A]_vars
  BY <1>1, InvHolds, PTL DEF Spec
<1> QED
  BY <1>2 DEF A, StartSparesOthers

\* Round robin: whatever a call begins, stops, restarts, forks or copies, and
\* also when it delivers a message first, no process passes another one that
\* lives on, except the one that had the turn.
THEOREM RoundRobin == Spec => OnlyTheFirstIsPassed
<1>1. Inv /\ [Next]_vars => [InTurn]_vars
  BY NextInTurn
<1>2. Spec => [][InTurn]_vars
  BY <1>1, InvHolds, PTL DEF Spec
<1> QED
  BY <1>2 DEF InTurn, OnlyTheFirstIsPassed

\* Where an event interrupts scripts, and a context that waited at one of them
\* is not what began process k.
LEMMA InterruptLeads ==
  ASSUME Inv, KeysSuffice, Good(proj', {}), NEW name \in Name, NEW data \in Locals,
         NEW max \in MaxQueues, InputCustomEvent(name, data, TRUE, max),
         NEW j \in Hats(proj, "Custom", name), proj'.scripts[j].process \in Live(proj'),
         NEW i \in Ready(proj), ~ Interrupted(i),
         proj'.scripts[j].process \notin Live(proj)
  PROVE  Led(i, proj'.scripts[j].process)
<1> DEFINE R == Hats(proj, "Custom", name)
           k == proj'.scripts[j].process
           n == 0
<1>1. SameHats(proj, proj') /\ \E d : Unfolds(proj, FALSE, R, d, proj')
  BY CustomEventKept
<1>2. PICK d : Unfolds(proj, FALSE, R, d, proj')
  BY <1>1
<1>3. /\ \A a \in R : Interrupted(a)
      /\ R \subseteq DOMAIN proj.scripts
  BY DEF Interrupted, Hats
<1>4. ASSUME NEW a \in DOMAIN proj.scripts \ R
      PROVE  proj'.scripts[a].process # k
  <2>1. a \in DOMAIN proj'.scripts /\ j \in DOMAIN proj'.scripts /\ a # j
    BY <1>1, <1>3, <1>4 DEF SameHats
  <2>2. k # NoKey
    BY KeyAssumption DEF Good, IsState
  <2> QED
    BY <2>1, <2>2 DEF Good, Owned
<1>5. i \in Ready(proj) \ R /\ k \in Live(proj') \ Live(proj)
  BY <1>3
<1> HIDE DEF R, k
<1>6. Course(proj, FALSE, n, NoKey, R, proj, d, proj', n)
  <2>1. n = 0
    OBVIOUS
  <2> HIDE DEF n
  <2> QED
    BY <1>2, <1>3, <2>1, InputCourse
<1>7. Led(i, k)
  <2>1. n \in FirstLive(proj) \union {0}
    OBVIOUS
  <2> HIDE DEF n
  <2>2. \A a \in DOMAIN proj.scripts \ R :
          proj.scripts[a].context_queue # <<>> => proj'.scripts[a].process # k
    BY <1>4
  <2> QED
    BY ONLY Inv, Good(proj', {}), <1>5, <1>6, <2>1, <2>2, CourseLeads, ZenonT(30)
<1> QED
  BY <1>7 DEF k

\* The comment in project.rs on do_once, of every call: what begins a process
\* leaves no context waiting at an idle script, but begins a process for it and
\* queues that one before.  An event that interrupts the script is apart, and
\* where no process was live the first one has its turn within the call.
THEOREM WaitersGoFirst == Spec => WaitingContextsGoFirst
<1> DEFINE GoFirst ==
      \A i \in Ready(proj), k \in Live(proj') \ Live(proj) :
        ~ Interrupted(i) /\ ~ BegunByWaiting(k) => Led(i, k)
<1>1. Inv /\ [Next]_vars => GoFirst
  <2> SUFFICES ASSUME Inv, [Next]_vars, NEW i \in Ready(proj),
                      NEW k \in Live(proj') \ Live(proj),
                      ~ Interrupted(i), ~ BegunByWaiting(k)
               PROVE  Led(i, k)
    OBVIOUS
  <2>1. Next
    BY DEF vars
  <2>2. KeysSuffice /\ Good(proj', {})
    BY <2>1, NextInv DEF Next, Inv
  <2>3. CASE \E j \in DOMAIN proj.scripts :
               proj'.scripts[j].process = k /\ Interrupted(j)
    <3>1. PICK j \in DOMAIN proj.scripts : proj'.scripts[j].process = k /\ Interrupted(j)
      BY <2>3
    <3>2. PICK name \in Name, data \in Locals, max \in MaxQueues :
            /\ j \in Hats(proj, "Custom", name)
            /\ InputCustomEvent(name, data, TRUE, max)
      BY <3>1 DEF Interrupted
    <3>3. Led(i, proj'.scripts[j].process)
      BY ONLY Inv, <2>2, <3>1, <3>2, InterruptLeads, ~ Interrupted(i),
              k \in Live(proj') \ Live(proj), i \in Ready(proj)
    <3> QED
      BY <3>1, <3>3
  <2>4. CASE ~ \E j \in DOMAIN proj.scripts :
               proj'.scripts[j].process = k /\ Interrupted(j)
    <3>1. \A j \in DOMAIN proj.scripts :
            proj.scripts[j].context_queue # <<>> => proj'.scripts[j].process # k
      BY <2>4 DEF BegunByWaiting
    <3> QED
      BY <3>1, NextWaitersLead DEF WaitersLead
  <2> QED
    BY <2>3, <2>4
<1>2. [][GoFirst]_vars <=> WaitingContextsGoFirst
  BY DEF WaitingContextsGoFirst, Led
<1> HIDE DEF GoFirst
<1> QED
  BY <1>1, <1>2, InvHolds, PTL DEF Spec
-----------------------------------------------------------------------------
(* The hats of entities, in order.                                         *)

HatsIn(f, e) ==
  LET own == InOrder({i \in DOMAIN f : f[i].entity = e})
  IN  [n \in DOMAIN own |-> f[own[n]].event]

\* Scripts that come after all others add to the hats of their entities.
LEMMA HatsGrow ==
  ASSUME NEW f, NEW g, NEW m \in Nat, NEW n \in Nat, DOMAIN f = 1 .. m,
         DOMAIN g = 1 .. n,
         \A i \in DOMAIN f : /\ i \in DOMAIN g /\ g[i].event = f[i].event
                            /\ g[i].entity = f[i].entity,
         NEW e
  PROVE  /\ Heads(HatsIn(f, e), HatsIn(g, e))
         /\ (\A i \in DOMAIN g : i \in DOMAIN f \/ g[i].entity # e) =>
              HatsIn(g, e) = HatsIn(f, e)
<1> DEFINE S == {i \in DOMAIN f : f[i].entity = e}
           T == {i \in DOMAIN g : g[i].entity = e}
           p == InOrder(S)
           q == InOrder(T)
<1>1. S \in SUBSET T /\ T \in SUBSET Nat /\ S \in SUBSET Nat
  OBVIOUS
<1>2. IsFiniteSet(T) /\ IsFiniteSet(S)
  <2>1. IsFiniteSet(1 .. n) /\ T \in SUBSET (1 .. n)
    BY FS_Interval
  <2> HIDE DEF S, T
  <2> QED
    BY <1>1, <2>1, FS_Subset
<1>3. ASSUME NEW i \in S, NEW j \in T \ S
      PROVE  i < j
  <2>1. i \in 1 .. m /\ j \in Nat /\ j \notin 1 .. m /\ j > 0
    OBVIOUS
  <2> QED
    BY <2>1
<1>4. \A a \in DOMAIN p : p[a] \in DOMAIN f
  <2>1. \A a \in DOMAIN p : p[a] \in S
    <3> HIDE DEF S
    <3>1. p \in Seq(S)
      BY <1>1, <1>2, InOrderSequence
    <3> HIDE DEF p
    <3> QED
      BY <3>1, SequenceFacts
  <2> QED
    BY <2>1
<1>5. \A a \in DOMAIN p : a \in DOMAIN q /\ q[a] = p[a]
  <2> HIDE DEF S, T
  <2> QED
    BY <1>1, <1>2, <1>3, InOrderGrows
<1>6. (\A i \in DOMAIN g : i \in DOMAIN f \/ g[i].entity # e) => p = q
  <2> SUFFICES ASSUME \A i \in DOMAIN g : i \in DOMAIN f \/ g[i].entity # e
               PROVE  S = T
    OBVIOUS
  <2> QED
    OBVIOUS
<1>7. /\ HatsIn(f, e) = [a \in DOMAIN p |-> f[p[a]].event]
      /\ HatsIn(g, e) = [a \in DOMAIN q |-> g[q[a]].event]
  BY DEF HatsIn
<1> HIDE DEF p, q
<1>8. Heads(HatsIn(f, e), HatsIn(g, e))
  BY <1>4, <1>5, <1>7 DEF Heads
<1>9. p = q => HatsIn(g, e) = HatsIn(f, e)
  BY <1>4, <1>7
<1> QED
  BY <1>6, <1>8, <1>9

\* They are hats.
LEMMA HatsAreEvents ==
  ASSUME NEW f, NEW m \in Nat, DOMAIN f = 1 .. m,
         \A i \in DOMAIN f : f[i].event \in Event, NEW e
  PROVE  HatsIn(f, e) \in Seq(Event)
<1> DEFINE S == {i \in DOMAIN f : f[i].entity = e}
           p == InOrder(S)
<1>1. S \in SUBSET Nat /\ IsFiniteSet(S) /\ S \in SUBSET DOMAIN f
  <2>1. IsFiniteSet(1 .. m) /\ S \in SUBSET (1 .. m)
    BY FS_Interval
  <2>2. S \in SUBSET Nat /\ S \in SUBSET DOMAIN f
    OBVIOUS
  <2> HIDE DEF S
  <2> QED
    BY <2>1, <2>2, FS_Subset
<1>2. /\ DOMAIN p = 1 .. Len(p) /\ Len(p) \in Nat
      /\ \A a \in DOMAIN p : p[a] \in DOMAIN f
  <2> HIDE DEF S
  <2>1. p \in Seq(S)
    BY <1>1, InOrderSequence
  <2> HIDE DEF p
  <2> QED
    BY <1>1, <2>1, SequenceFacts
<1>3. HatsIn(f, e) = [a \in DOMAIN p |-> f[p[a]].event]
  BY DEF HatsIn
<1> HIDE DEF p
<1>4. HatsIn(f, e) \in [1 .. Len(p) -> Event]
  BY <1>2, <1>3
<1> QED
  BY <1>2, <1>4, FunctionIsSequence

LEMMA HeadsIsPrefix ==
  ASSUME NEW S, NEW p \in Seq(S), NEW q \in Seq(S), Heads(p, q)
  PROVE  IsPrefix(p, q)
<1>1. /\ DOMAIN p = 1 .. Len(p) /\ Len(p) \in Nat
      /\ DOMAIN q = 1 .. Len(q) /\ Len(q) \in Nat
  OBVIOUS
<1>2. \A n \in 1 .. Len(p) : n \in 1 .. Len(q) /\ q[n] = p[n]
  BY <1>1 DEF Heads
<1>3. Len(p) <= Len(q)
  <2>1. CASE Len(p) = 0
    BY <1>1, <2>1
  <2>2. CASE Len(p) > 0
    <3>1. Len(p) \in 1 .. Len(p)
      BY <1>1, <2>2
    <3> QED
      BY <1>1, <1>2, <3>1
  <2> QED
    BY <1>1, <2>1, <2>2
<1>4. SubSeq(p, 1, Len(p)) = SubSeq(q, 1, Len(p))
  BY <1>1, <1>2, <1>3
<1> QED
  BY <1>3, <1>4 DEF IsPrefix

\* The strengthening of ClonesMirrorRoots: roots are originals, and every script
\* belongs to an entity.
Mirror ==
  /\ Originals <= Len(roots)
  /\ \A e \in 1 .. Originals : roots[e] = e
  /\ \A e \in Entities : roots[e] \in 1 .. Originals
  /\ \A i \in DOMAIN proj.scripts : proj.scripts[i].entity \in Entities
  /\ \A e \in Entities :
       /\ Heads(HatsIn(InitScripts, roots[e]), HatsIn(proj.scripts, e))
       /\ (\A hat \in NewHats : hat.entity # e) =>
            Heads(HatsIn(proj.scripts, e), HatsIn(proj.scripts, roots[e]))

\* A new project has no clones.
LEMMA InitMirror == Init => Mirror
<1> SUFFICES ASSUME Init PROVE Mirror
  OBVIOUS
<1>1. /\ Originals \in Nat /\ Originals > 0
      /\ DOMAIN roots = 1 .. Originals /\ Len(roots) = Originals
      /\ \A e \in 1 .. Originals : roots[e] = e
  <2>1. Originals \in Nat /\ Originals > 0
    BY OriginalsAssumption, ScriptAssumption
  <2> QED
    BY <2>1 DEF Init
<1>2. /\ DOMAIN InitScripts = 1 .. Len(InitScripts) /\ Len(InitScripts) \in Nat
      /\ \A i \in DOMAIN InitScripts : InitScripts[i] \in Hat
  BY ScriptAssumption
<1>3. /\ DOMAIN proj.scripts = DOMAIN InitScripts
      /\ \A i \in DOMAIN InitScripts :
           /\ proj.scripts[i].event = InitScripts[i].event
           /\ proj.scripts[i].entity = InitScripts[i].entity
  BY DEF Init, NewScript
<1>4. \A i \in DOMAIN InitScripts : InitScripts[i].entity \in 1 .. Originals
  BY <1>1, <1>2, OriginalsAssumption, ScriptAssumption DEF Hat
<1>5. \A e : HatsIn(proj.scripts, e) = HatsIn(InitScripts, e)
  BY <1>2, <1>3, HatsGrow
<1>6. \A q : Heads(q, q)
  BY DEF Heads
<1> QED
  BY <1>1, <1>3, <1>4, <1>5, <1>6 DEF Mirror, Entities

\* What a call does to scripts and entities.
LEMMA NextAdds ==
  ASSUME Inv, Next
  PROVE  \/ SameHats(proj, proj') /\ roots' = roots
         \/ \E hat \in NewHats :
              hat.entity \in Entities /\ AddsFor(hat.entity) /\ roots' = roots
         \/ \E e \in Entities : /\ AddsFor(Len(roots) + 1) /\ CopiesHats(roots[e])
                               /\ roots' = Append(roots, roots[e])
<1> DEFINE Same == SameHats(proj, proj') /\ roots' = roots
<1>1. KeysSuffice
  BY DEF Next
<1>2. CASE Input
  <2>1. ASSUME InputStart PROVE Same
    BY <1>1, <2>1, StartKept DEF Restarted, InputStart
  <2>2. ASSUME InputStop PROVE Same
    BY <2>2, StopKept DEF InputStop
  <2>3. ASSUME NEW key \in KeyCode, InputKeyDown(key)
        PROVE  Same
    BY <1>1, <2>3, KeyDownKept DEF InputKeyDown
  <2>4. ASSUME NEW name \in Name, NEW data \in Locals, NEW interrupt \in BOOLEAN,
               NEW max \in MaxQueues, InputCustomEvent(name, data, interrupt, max)
        PROVE  Same
    BY <1>1, <2>4, CustomEventKept DEF InputCustomEvent
  <2>5. ASSUME NEW e \in Entities, AddProcess(e)
        PROVE  Same
    BY <1>1, <2>5, AddProcessKept, EntityIsNat DEF AddProcess
  <2> QED
    BY <1>2, <2>1, <2>2, <2>3, <2>4, <2>5 DEF Input
<1>3. ASSUME NEW hat \in NewHats, AddScript(hat)
      PROVE  AddsFor(hat.entity) /\ roots' = roots
  BY <1>3, NewHatsAssumption, AddScriptKept DEF AddScript
<1>4. ASSUME NEW msg \in Msgs, Step(msg)
      PROVE  \/ Same
             \/ \E e \in Entities :
                  /\ AddsFor(Len(roots) + 1) /\ CopiesHats(roots[e])
                  /\ roots' = Append(roots, roots[e])
  <2>1. CASE StepIdle(msg)
    BY <1>1, <2>1, IdleKept DEF StepIdle
  <2>2. CASE StepWait(msg)
    BY <1>1, <2>2, WaitKept DEF StepWait
  <2>3. CASE StepYield(msg)
    BY <1>1, <2>3, YieldKept DEF StepYield
  <2>4. CASE StepNormal(msg)
    BY <1>1, <2>4, NormalKept DEF StepNormal
  <2>5. ASSUME NEW e \in Entities, StepFork(msg, e)
        PROVE  Same
    BY <1>1, <2>5, ForkKept, EntityIsNat DEF StepFork
  <2>6. ASSUME NEW e \in Entities, StepClone(msg, roots[e])
        PROVE  /\ AddsFor(Len(roots) + 1) /\ CopiesHats(roots[e])
               /\ roots' = Append(roots, roots[e])
    BY <1>1, <2>6, CloneKept, EntityIsNat DEF StepClone
  <2>7. ASSUME NEW name \in Name, NEW targets \in TargetSets, NEW wait \in BOOLEAN,
               StepBroadcast(msg, name, targets, wait)
        PROVE  Same
    BY <1>1, <2>7, BroadcastKept DEF StepBroadcast
  <2>8. CASE StepEnd(msg)
    BY <1>1, <2>8, EndKept DEF StepEnd
  <2> HIDE DEF Same
  <2> QED
    BY <1>4, <2>1, <2>2, <2>3, <2>4, <2>5, <2>6, <2>7, <2>8 DEF Step
<1> QED
  BY <1>2, <1>3, <1>4 DEF Next, Msgs

\* The copies make up the hats of the new entity.
LEMMA HatsCopied ==
  ASSUME Inv, Inv', Mirror, NEW root \in Nat, CopiesHats(root),
         AddsFor(Len(roots) + 1)
  PROVE  HatsIn(proj'.scripts, Len(roots) + 1) = HatsIn(proj.scripts, root)
<1> DEFINE f    == proj.scripts
           g    == proj'.scripts
           new  == Len(roots) + 1
           old  == Len(f)
           S    == {i \in DOMAIN f : f[i].entity = root}
           T    == {i \in DOMAIN g : g[i].entity = new}
           p    == InOrder(S)
           q    == InOrder(T)
<1>1. /\ DOMAIN f = 1 .. old /\ old \in Nat
      /\ Len(roots) \in Nat
      /\ \A i \in DOMAIN f : f[i].entity \in 1 .. Len(roots)
  <2>1. f \in Seq(Script) /\ roots \in Seq(1 .. MaxScripts)
    BY DEF Inv, Good, IsState
  <2>2. DOMAIN f = 1 .. old /\ old \in Nat /\ Len(roots) \in Nat
    BY <2>1, SequenceFacts
  <2> QED
    BY <2>2 DEF Mirror, Entities
<1>2. S \in SUBSET Nat /\ IsFiniteSet(S) /\ S \in SUBSET DOMAIN f
  <2>1. old \in Nat => IsFiniteSet(1 .. old)
    <3> HIDE DEF old
    <3> QED
      BY FS_Interval
  <2>2. IsFiniteSet(1 .. old) /\ S \in SUBSET (1 .. old)
    BY <1>1, <2>1
  <2>3. S \in SUBSET Nat /\ S \in SUBSET DOMAIN f
    BY <1>1
  <2> HIDE DEF S
  <2> QED
    BY <2>2, <2>3, FS_Subset
<1>3. /\ DOMAIN p = 1 .. Len(p) /\ Len(p) \in Nat
      /\ \A n \in DOMAIN p : p[n] \in DOMAIN f
  <2> HIDE DEF S
  <2>1. p \in Seq(S)
    BY <1>2, InOrderSequence
  <2> HIDE DEF p
  <2> QED
    BY <1>2, <2>1, SequenceFacts
<1>4. /\ DOMAIN g = 1 .. old + Len(p)
      /\ \A c \in DOMAIN p : /\ g[old + c].event = f[p[c]].event
                            /\ g[old + c].entity = new
  BY DEF CopiesHats
<1>5. \A i \in DOMAIN f : g[i].entity = f[i].entity
  BY DEF AddsFor
<1> HIDE DEF p
<1>6. T = old + 1 .. old + Len(p)
  <2>1. ASSUME NEW i \in T PROVE i \in old + 1 .. old + Len(p)
    <3>1. i \in 1 .. old + Len(p) /\ g[i].entity = new
      BY <1>4
    <3>2. i \notin 1 .. old
      BY <1>1, <1>5, <3>1
    <3> HIDE DEF g, new, T, old
    <3> QED
      BY <1>1, <1>3, <3>1, <3>2
  <2>2. ASSUME NEW i \in old + 1 .. old + Len(p) PROVE i \in T
    <3> DEFINE c == i - old
    <3> HIDE DEF f, g, new, old
    <3>1. c \in 1 .. Len(p) /\ old + c = i /\ i \in 1 .. old + Len(p)
      BY <1>1, <1>3, <2>2
    <3>2. g[i].entity = new /\ i \in DOMAIN g
      BY <1>3, <1>4, <3>1
    <3> QED
      BY <3>2
  <2> HIDE DEF T
  <2> QED
    BY <2>1, <2>2
<1>7. DOMAIN q = 1 .. Len(p) /\ \A n \in 1 .. Len(p) : q[n] = old + n
  <2> HIDE DEF T, old
  <2> QED
    BY <1>1, <1>3, <1>6, InOrderInterval
<1>8. /\ HatsIn(f, root) = [n \in DOMAIN p |-> f[p[n]].event]
      /\ HatsIn(g, new) = [n \in DOMAIN q |-> g[q[n]].event]
  BY DEF HatsIn, p
<1>9. \A n \in DOMAIN p : g[q[n]].event = f[p[n]].event
  <2> HIDE DEF q, f, g, old
  <2> QED
    BY <1>3, <1>4, <1>7
<1>10. HatsIn(g, new) = HatsIn(f, root)
  <2> HIDE DEF q, f, g, new
  <2> QED
    BY <1>3, <1>7, <1>8, <1>9
<1> QED
  BY <1>10

\* Every call keeps the entities' hats in step with their roots'.
LEMMA MirrorNext == Inv /\ Inv' /\ Mirror /\ [Next]_vars => Mirror'
<1> SUFFICES ASSUME Inv, Inv', Mirror, [Next]_vars PROVE Mirror'
  OBVIOUS
<1> DEFINE f == proj.scripts
           g == proj'.scripts
           L == Len(roots)
           H(e) == HatsIn(f, e)
           G(e) == HatsIn(g, e)
<1>1. /\ DOMAIN f = 1 .. Len(f) /\ Len(f) \in Nat
      /\ DOMAIN g = 1 .. Len(g) /\ Len(g) \in Nat
      /\ L \in Nat /\ DOMAIN roots = 1 .. L /\ roots \in Seq(Nat)
      /\ Originals \in Nat
  <2>1. /\ f \in Seq(Script) /\ roots \in Seq(1 .. MaxScripts)
        /\ g \in Seq(Script)
    BY DEF Inv, Good, IsState
  <2>2. MaxScripts \in Nat /\ Originals \in Nat
    BY ScriptAssumption, OriginalsAssumption
  <2>3. roots \in Seq(Nat)
    BY <2>1, <2>2
  <2> HIDE DEF f, g
  <2> QED
    BY <2>1, <2>2, <2>3, SequenceFacts
<1>2. CASE /\ SameHats(proj, proj') /\ roots' = roots
  <2>1. /\ DOMAIN g = DOMAIN f
        /\ \A i \in DOMAIN f : /\ i \in DOMAIN g /\ g[i].event = f[i].event
                              /\ g[i].entity = f[i].entity
    BY <1>2 DEF SameHats
  <2>2. \A e : G(e) = H(e)
    <3> HIDE DEF f, g
    <3> QED
      BY <1>1, <2>1, HatsGrow
  <2> QED
    BY <1>2, <2>1, <2>2 DEF Mirror, Entities
<1>3. ASSUME NEW x, AddsFor(x)
      PROVE  \A e : /\ Heads(H(e), G(e))
                    /\ e # x => G(e) = H(e)
  <2>1. /\ \A i \in DOMAIN f : /\ i \in DOMAIN g /\ g[i].event = f[i].event
                              /\ g[i].entity = f[i].entity
        /\ \A i \in DOMAIN g : i \in DOMAIN f \/ g[i].entity = x
    BY <1>3 DEF AddsFor
  <2> SUFFICES ASSUME NEW e
               PROVE  Heads(H(e), G(e)) /\ (e # x => G(e) = H(e))
    OBVIOUS
  <2>2. e # x => \A i \in DOMAIN g : i \in DOMAIN f \/ g[i].entity # e
    BY <2>1
  <2> HIDE DEF f, g
  <2>3. /\ Heads(H(e), G(e))
        /\ (\A i \in DOMAIN g : i \in DOMAIN f \/ g[i].entity # e) =>
             G(e) = H(e)
    BY ONLY <1>1, <2>1, HatsGrow DEF H, G
  <2> QED
    BY <2>2, <2>3
<1>4. \A o, p, q : Heads(o, p) /\ Heads(p, q) => Heads(o, q)
  BY DEF Heads
<1>5. ASSUME NEW hat \in NewHats, hat.entity \in Entities, AddsFor(hat.entity),
             roots' = roots
      PROVE  Mirror'
  <2>1. \A e : Heads(H(e), G(e)) /\ (e # hat.entity => G(e) = H(e))
    BY <1>3, <1>5
  <2>2. \A i \in DOMAIN g : g[i].entity \in Entities
    BY <1>5 DEF AddsFor, Mirror
  <2>3. ASSUME NEW e \in Entities
        PROVE  /\ Heads(HatsIn(InitScripts, roots[e]), G(e))
               /\ (\A h \in NewHats : h.entity # e) => Heads(G(e), G(roots[e]))
    <3>1. Heads(HatsIn(InitScripts, roots[e]), H(e))
      BY DEF Mirror
    <3>2. ASSUME \A h \in NewHats : h.entity # e
          PROVE  Heads(G(e), G(roots[e]))
      <4>1. Heads(H(e), H(roots[e])) /\ e # hat.entity
        BY <3>2 DEF Mirror
      <4> HIDE DEF H, G
      <4> QED
        BY <1>4, <2>1, <4>1
    <3> HIDE DEF H, G
    <3> QED
      BY <1>4, <2>1, <3>1, <3>2
  <2> QED
    BY <1>5, <2>2, <2>3 DEF Mirror, Entities
<1>6. ASSUME NEW d \in Entities, AddsFor(L + 1), CopiesHats(roots[d]),
             roots' = Append(roots, roots[d])
      PROVE  Mirror'
  <2> DEFINE r == roots[d]
  <2>1. /\ Originals <= L
        /\ \A e \in 1 .. Originals : roots[e] = e
        /\ \A e \in 1 .. L : roots[e] \in 1 .. Originals
        /\ \A i \in DOMAIN f : f[i].entity \in 1 .. L
        /\ r \in 1 .. Originals
    BY <1>6 DEF Mirror, Entities
  <2>2. r \in Nat /\ r \in 1 .. L /\ r # L + 1 /\ roots[r] = r
    <3> HIDE DEF f, r
    <3> QED
      BY <1>1, <2>1
  <2>3. /\ Len(roots') = L + 1 /\ roots'[L + 1] = r
        /\ \A e \in 1 .. L : roots'[e] = roots[e]
    BY <1>1, <1>6, <2>2
  <2>4. \A e : Heads(H(e), G(e)) /\ (e # L + 1 => G(e) = H(e))
    BY <1>3, <1>6
  <2>5. G(L + 1) = H(r)
    BY <1>6, <2>2, HatsCopied
  <2>6. \A i \in DOMAIN g : g[i].entity \in 1 .. L + 1
    <3>1. ASSUME NEW i \in DOMAIN g
          PROVE  \/ g[i].entity \in 1 .. L
                 \/ g[i].entity = L + 1
      BY <1>6, <2>1 DEF AddsFor
    <3> HIDE DEF g, f, L
    <3> QED
      BY <1>1, <3>1
  <2>7. \A e \in 1 .. L : /\ Heads(HatsIn(InitScripts, roots[e]), H(e))
                          /\ (\A hat \in NewHats : hat.entity # e) =>
                               Heads(H(e), H(roots[e]))
    BY DEF Mirror, Entities
  <2>8. \A q : Heads(q, q)
    BY DEF Heads
  <2> HIDE DEF H, G, f, g, r, L
  <2>9. ASSUME NEW e \in 1 .. L + 1
        PROVE  /\ roots'[e] \in 1 .. Originals
               /\ Heads(HatsIn(InitScripts, roots'[e]), G(e))
               /\ (\A hat \in NewHats : hat.entity # e) =>
                    Heads(G(e), G(roots'[e]))
    <3>1. CASE e = L + 1
      <4>1. G(e) = H(r) /\ roots'[e] = r /\ G(r) = H(r)
        BY <2>2, <2>3, <2>4, <2>5, <3>1
      <4>2. Heads(HatsIn(InitScripts, r), H(r))
        BY <2>2, <2>7
      <4> QED
        BY <2>1, <2>8, <4>1, <4>2
    <3>2. CASE e # L + 1
      <4>1. e \in 1 .. L
        BY <1>1, <3>2
      <4>2. /\ roots'[e] = roots[e] /\ roots[e] \in 1 .. Originals
            /\ roots[e] # L + 1
        BY <1>1, <2>1, <2>3, <4>1
      <4>3. G(e) = H(e) /\ G(roots[e]) = H(roots[e])
        BY <2>4, <3>2, <4>2
      <4> QED
        BY <2>7, <4>1, <4>2, <4>3
    <3> QED
      BY <3>1, <3>2
  <2>10. \A e \in 1 .. Originals : roots'[e] = e
    BY <1>1, <2>1, <2>3
  <2>11. Originals <= L + 1
    BY <1>1, <2>1
  <2> QED
    BY <2>3, <2>6, <2>9, <2>10, <2>11 DEF Mirror, Entities, G, g
<1>7. CASE Next
  <2> HIDE DEF f, g, H, G
  <2> QED
    BY <1>2, <1>5, <1>6, <1>7, NextAdds DEF L
<1>8. CASE UNCHANGED vars
  BY <1>2, <1>8 DEF vars, SameHats
<1> QED
  BY <1>7, <1>8

\* ClonesMirrorRoots is a consequence.
LEMMA MirrorImplies == Inv /\ Mirror => ClonesMirrorRoots
<1> SUFFICES ASSUME Inv, Mirror, NEW e \in DOMAIN roots
             PROVE  /\ roots[roots[e]] = roots[e]
                    /\ IsPrefix(InitHatsOf(roots[e]), HatsOf(e))
                    /\ (\A hat \in NewHats : hat.entity # e) =>
                         IsPrefix(HatsOf(e), HatsOf(roots[e]))
  BY DEF ClonesMirrorRoots
<1>1. /\ proj.scripts \in Seq(Script) /\ InitScripts \in Seq(Hat)
      /\ roots \in Seq(1 .. MaxScripts)
  BY ScriptAssumption DEF Inv, Good, IsState
<1>2. e \in Entities
  BY <1>1 DEF Entities
<1>3. /\ DOMAIN proj.scripts = 1 .. Len(proj.scripts)
      /\ Len(proj.scripts) \in Nat
      /\ \A i \in DOMAIN proj.scripts : proj.scripts[i].event \in Event
      /\ DOMAIN InitScripts = 1 .. Len(InitScripts)
      /\ Len(InitScripts) \in Nat
      /\ \A i \in DOMAIN InitScripts : InitScripts[i].event \in Event
  <2>1. ASSUME NEW S, NEW q \in Seq(S), \A h \in S : h.event \in Event
        PROVE  /\ DOMAIN q = 1 .. Len(q) /\ Len(q) \in Nat
               /\ \A i \in DOMAIN q : q[i].event \in Event
    BY <2>1, SequenceFacts
  <2>2. \A h \in Script : h.event \in Event
    BY DEF Script
  <2>3. \A h \in Hat : h.event \in Event
    BY DEF Hat
  <2> HIDE DEF Script, Hat
  <2>4. /\ DOMAIN proj.scripts = 1 .. Len(proj.scripts)
        /\ Len(proj.scripts) \in Nat
        /\ \A i \in DOMAIN proj.scripts : proj.scripts[i].event \in Event
    BY <1>1, <2>1, <2>2
  <2>5. /\ DOMAIN InitScripts = 1 .. Len(InitScripts)
        /\ Len(InitScripts) \in Nat
        /\ \A i \in DOMAIN InitScripts : InitScripts[i].event \in Event
    BY <1>1, <2>1, <2>3
  <2> QED
    BY <2>4, <2>5
<1>4. \A d : /\ HatsIn(proj.scripts, d) \in Seq(Event)
             /\ HatsIn(InitScripts, d) \in Seq(Event)
  BY <1>3, HatsAreEvents
<1>5. /\ \A d : HatsOf(d) = HatsIn(proj.scripts, d)
      /\ \A d : InitHatsOf(d) = HatsIn(InitScripts, d)
  BY DEF HatsOf, InitHatsOf, HatsIn
<1>6. roots[roots[e]] = roots[e]
  BY <1>2 DEF Mirror
<1>7. /\ Heads(HatsIn(InitScripts, roots[e]), HatsIn(proj.scripts, e))
      /\ (\A hat \in NewHats : hat.entity # e) =>
           Heads(HatsIn(proj.scripts, e), HatsIn(proj.scripts, roots[e]))
  BY <1>2 DEF Mirror
<1>8. IsPrefix(HatsIn(InitScripts, roots[e]), HatsIn(proj.scripts, e))
  BY <1>4, <1>7, HeadsIsPrefix
<1>9. (\A hat \in NewHats : hat.entity # e) =>
        IsPrefix(HatsIn(proj.scripts, e), HatsIn(proj.scripts, roots[e]))
  BY <1>4, <1>7, HeadsIsPrefix
<1> QED
  BY <1>5, <1>6, <1>8, <1>9

\* A clone has its root's hats, those the project came with at least, and none
\* of its own unless the host adds some to it: CreatedClone copies the scripts of
\* the root in their order, and nothing ever takes a script away.
THEOREM ClonesMirror == Spec => []ClonesMirrorRoots
<1>1. Inv /\ Mirror /\ [Next]_vars => Inv' /\ Mirror'
  <2>1. Inv /\ [Next]_vars => Inv'
    BY NextInv
  <2> QED
    BY <2>1, MirrorNext
<1> QED
  BY <1>1, InitInv, InitMirror, MirrorImplies, PTL DEF Spec
-----------------------------------------------------------------------------
(* The scheduler implements Inboxes, for the scripts a project comes with. *)

\* The scripts the project came with keep their hats.
HatsStay ==
  \A i \in DOMAIN InitScripts :
    i \in DOMAIN proj.scripts /\ proj.scripts[i].event = InitScripts[i].event

\* What each call other than a stop does to the scripts.
Delivers(msg) ==
  Told(proj', Receivers(proj, msg), [data |-> msg.data, barrier |-> NoKey])
Proceeds == Told(proj', {}, DefaultContext)
Stops ==
  /\ Live(proj') = {}
  /\ \A i \in DOMAIN proj.scripts :
       /\ i \in DOMAIN proj'.scripts
       /\ proj'.scripts[i].event = proj.scripts[i].event
       /\ proj'.scripts[i].context_queue = <<>>

LEMMA StopStops ==
  ASSUME Inv, InputStop
  PROVE  Stops
<1> DEFINE e == StopAll(proj, DOMAIN proj.scripts)
           P == [k \in {} |-> NewProcess(0)]
<1>1. Stopped(proj, e, {}, DOMAIN proj.scripts)
  BY StopAllGood DEF Inv
<1>2. proj'.processes = P /\ proj'.scripts = e.scripts
  BY DEF InputStop
<1>3. DOMAIN P = {}
  OBVIOUS
<1> HIDE DEF e, P
<1>4. Live(proj') = {}
  BY <1>2, <1>3 DEF Live
<1> QED
  BY <1>1, <1>2, <1>4 DEF Stops, Stopped, SameHats

\* Every call delivers a message, delivers none, or stops everything.
LEMMA CallCases ==
  ASSUME Inv, Next
  PROVE  Stops \/ Proceeds \/ \E msg \in Msgs : Delivers(msg)
<1>1. KeysSuffice
  BY DEF Next
<1>2. Onward(proj, proj', FALSE, Deaf) => Proceeds
  BY InputTold DEF Proceeds
<1>3. ASSUME NEW msg \in Msgs, Rest(msg, proj') PROVE Delivers(msg)
  BY <1>1, <1>3, StepTold DEF Delivers
<1>4. CASE Input
  <2>1. InputStart => Onward(proj, proj', FALSE, Deaf)
    BY <1>1, StartKept
  <2>2. InputStop => Stops
    BY StopStops
  <2>3. ASSUME NEW key \in KeyCode, InputKeyDown(key)
        PROVE  Onward(proj, proj', FALSE, Deaf)
    BY <1>1, <2>3, KeyDownKept
  <2>4. ASSUME NEW name \in Name, NEW data \in Locals, NEW interrupt \in BOOLEAN,
               NEW max \in MaxQueues, InputCustomEvent(name, data, interrupt, max)
        PROVE  Onward(proj, proj', FALSE, Deaf)
    BY <1>1, <2>4, CustomEventKept
  <2>5. ASSUME NEW e \in Entities, AddProcess(e)
        PROVE  Onward(proj, proj', FALSE, Deaf)
    BY <1>1, <2>5, AddProcessKept, EntityIsNat
  <2> QED
    BY <1>2, <1>4, <2>1, <2>2, <2>3, <2>4, <2>5 DEF Input
<1>5. ASSUME NEW hat \in NewHats, AddScript(hat)
      PROVE  Proceeds
  BY <1>2, <1>5, NewHatsAssumption, AddScriptKept
<1>6. ASSUME NEW msg \in Msgs, Step(msg)
      PROVE  Delivers(msg)
  BY <1>1, <1>3, <1>6, StepKept
<1> QED
  BY <1>4, <1>5, <1>6 DEF Next, Msgs

\* The data of a sequence of contexts.
Datas(q) == [n \in DOMAIN q |-> q[n].data]

LEMMA DatasFacts ==
  ASSUME NEW q \in Seq(Context)
  PROVE  /\ Datas(q) \in Seq(Payload) /\ Datas(<<>>) = <<>>
         /\ Datas(q) \o <<>> = Datas(q) /\ q \o <<>> = q
         /\ \A c \in Context : /\ Datas(q \o <<c>>) = Datas(q) \o <<c.data>>
                               /\ q \o <<c>> \in Seq(Context)
         /\ q # <<>> => /\ Datas(q) # <<>>
                        /\ Datas(Tail(q)) = Tail(Datas(q))
                        /\ Head(Datas(q)) = Head(q).data
<1>1. /\ DOMAIN q = 1 .. Len(q) /\ Len(q) \in Nat
      /\ \A n \in DOMAIN q : q[n] \in Context
  OBVIOUS
<1>2. Datas(q) \in Seq(Payload) /\ Len(Datas(q)) = Len(q)
  <2>1. Datas(q) \in [1 .. Len(q) -> Payload]
    BY <1>1 DEF Datas, Context
  <2>2. Datas(q) \in Seq(Payload)
    BY <1>1, <2>1, FunctionIsSequence
  <2>3. DOMAIN Datas(q) = 1 .. Len(q)
    BY <1>1 DEF Datas
  <2> QED
    BY <1>1, <2>2, <2>3
<1>3. Datas(<<>>) = <<>> /\ Datas(q) \o <<>> = Datas(q) /\ q \o <<>> = q
  BY <1>2 DEF Datas
<1>4. ASSUME NEW c \in Context
      PROVE  Datas(q \o <<c>>) = Datas(q) \o <<c.data>> /\ q \o <<c>> \in Seq(Context)
  <2> DEFINE l == Datas(q \o <<c>>)
             r == Datas(q) \o <<c.data>>
  <2>1. c.data \in Payload
    BY DEF Context
  <2>2. /\ q \o <<c>> \in Seq(Context) /\ DOMAIN (q \o <<c>>) = 1 .. Len(q) + 1
        /\ \A n \in 1 .. Len(q) + 1 :
             (q \o <<c>>)[n] = IF n <= Len(q) THEN q[n] ELSE c
    BY <1>1
  <2>3. /\ DOMAIN r = 1 .. Len(q) + 1
        /\ \A n \in 1 .. Len(q) + 1 :
             r[n] = IF n <= Len(q) THEN Datas(q)[n] ELSE c.data
    BY <1>1, <1>2, <2>1
  <2>4. \A n \in 1 .. Len(q) : Datas(q)[n] = q[n].data
    BY <1>1 DEF Datas
  <2>5. /\ DOMAIN l = 1 .. Len(q) + 1
        /\ \A n \in 1 .. Len(q) + 1 : l[n] = (q \o <<c>>)[n].data
    BY <2>2 DEF Datas
  <2>6. \A n \in 1 .. Len(q) + 1 : l[n] = r[n]
    BY <1>1, <2>2, <2>3, <2>4, <2>5
  <2>7. l = [n \in 1 .. Len(q) + 1 |-> l[n]]
    BY <2>5 DEF Datas
  <2>8. r \in Seq(Payload) /\ r = [n \in 1 .. Len(q) + 1 |-> r[n]]
    BY <1>2, <2>1, <2>3
  <2> HIDE DEF l, r
  <2>9. l = r
    BY <2>6, <2>7, <2>8
  <2> QED
    BY <2>2, <2>9 DEF l, r
<1>5. ASSUME q # <<>>
      PROVE  /\ Datas(q) # <<>> /\ Datas(Tail(q)) = Tail(Datas(q))
             /\ Head(Datas(q)) = Head(q).data
  <2>1. Len(q) > 0 /\ Len(<<>>) = 0
    BY <1>1, <1>5
  <2>2. Datas(q) # <<>>
    BY <1>2, <2>1
  <2>3. /\ DOMAIN Tail(q) = 1 .. Len(q) - 1
        /\ \A n \in 1 .. Len(q) - 1 : Tail(q)[n] = q[n + 1]
    BY <1>1, <2>1
  <2>4. Tail(Datas(q)) = [n \in 1 .. Len(q) - 1 |-> Datas(q)[n + 1]]
    <3> DEFINE d == Datas(q)
    <3>1. d \in Seq(Payload) /\ Len(d) = Len(q) /\ Len(d) > 0 /\ Len(d) \in Nat
      BY <1>1, <1>2, <2>1
    <3> HIDE DEF d
    <3> DEFINE t == Tail(d)
    <3>2. /\ t \in Seq(Payload) /\ DOMAIN t = 1 .. Len(d) - 1
          /\ \A n \in 1 .. Len(d) - 1 : t[n] = d[n + 1]
      BY <3>1
    <3> HIDE DEF t
    <3>3. t = [n \in 1 .. Len(d) - 1 |-> d[n + 1]]
      BY <3>2
    <3> QED
      BY <3>1, <3>3 DEF d, t
  <2>5. \A n \in 1 .. Len(q) - 1 : Datas(q)[n + 1] = q[n + 1].data
    BY <1>1 DEF Datas
  <2>6. Datas(Tail(q)) = Tail(Datas(q))
    BY <2>3, <2>4, <2>5 DEF Datas
  <2>7. Head(Datas(q)) = Datas(q)[1] /\ Head(q) = q[1] /\ Datas(q)[1] = q[1].data
    BY <1>1, <1>2, <2>1 DEF Datas
  <2> QED
    BY <2>2, <2>6, <2>7
<1> QED
  BY <1>2, <1>3, <1>4, <1>5

\* What a script hears is what Inboxes has it handle.
LEMMA HearsMaps ==
  ASSUME Inv, HatsStay, NEW i \in NetworkScripts, NEW context \in Context, NEW x,
         x = context.data
  PROVE  /\ Hears(proj, proj', i, <<>>) => Network!Handle(i, <<>>)
         /\ Hears(proj, proj', i, <<context>>) => Network!Handle(i, <<x>>)
<1> DEFINE q == proj.scripts[i].context_queue
           p == proj'.scripts[i].context_queue
           pending == [b \in NetworkScripts |->
                         [n \in DOMAIN proj.scripts[b].context_queue |->
                            proj.scripts[b].context_queue[n].data]]
           handling == [b \in NetworkScripts |-> Handled(b)]
<1>1. q \in Seq(Context)
  <2>1. i \in DOMAIN proj.scripts
    BY DEF HatsStay, NetworkScripts
  <2> QED
    BY <2>1, ScriptFacts DEF Inv, Script
<1>2. pending[i] = Datas(q) /\ pending'[i] = Datas(p)
  BY DEF Datas
<1>3. handling[i] = Taken(proj, i) /\ handling'[i] = Taken(proj', i)
  BY DEF Handled, Taken, Live
<1> HIDE DEF q, p, pending, handling
<1>4. ASSUME NEW c, NEW d, NEW all \in Seq(Context), all = q \o c,
             Datas(all) = Datas(q) \o d, Hears(proj, proj', i, c)
      PROVE  LET every == pending[i] \o d
             IN  \/ pending'[i] = every /\ handling'[i] \in {handling[i], NoData}
                 \/ /\ every # <<>>
                    /\ pending'[i] = Tail(every)
                    /\ handling'[i] \in {Head(every), NoData}
  <2>1. \/ p = all /\ Taken(proj', i) \in {Taken(proj, i), NoData}
        \/ /\ all # <<>>
           /\ p = Tail(all) /\ Taken(proj', i) \in {Head(all).data, NoData}
    BY <1>4 DEF Hears, q, p
  <2>2. all # <<>> => /\ Datas(all) # <<>>
                      /\ Datas(Tail(all)) = Tail(Datas(all))
                      /\ Head(Datas(all)) = Head(all).data
    BY DatasFacts
  <2> QED
    BY <1>2, <1>3, <1>4, <2>1, <2>2
<1>5. /\ q \o <<>> = q /\ Datas(q) = Datas(q) \o <<>>
      /\ q \o <<context>> \in Seq(Context)
      /\ Datas(q \o <<context>>) = Datas(q) \o <<x>>
  BY <1>1, DatasFacts
<1> QED
  BY <1>1, <1>4, <1>5 DEF Network!Handle, pending, handling

\* A new project has no message pending and none in progress.
LEMMA InitHears == Init => HatsStay /\ Network!Init
<1> SUFFICES ASSUME Init PROVE HatsStay /\ Network!Init
  OBVIOUS
<1> DEFINE P == [k \in {} |-> NewProcess(0)]
<1>1. /\ proj.processes = P
      /\ proj.scripts = [i \in DOMAIN InitScripts |-> NewScript(InitScripts[i])]
  BY DEF Init
<1>2. DOMAIN P = {}
  OBVIOUS
<1> HIDE DEF P
<1>3. \A i \in DOMAIN InitScripts :
        /\ proj.scripts[i].context_queue = <<>>
        /\ proj.scripts[i].event = InitScripts[i].event
  BY <1>1 DEF NewScript
<1>4. HatsStay
  BY <1>1, <1>3 DEF HatsStay
<1>5. \A i \in NetworkScripts : Handled(i) = NoData
  BY <1>1, <1>2 DEF Handled, Live
<1>6. \A i \in NetworkScripts :
        [n \in DOMAIN proj.scripts[i].context_queue |->
           proj.scripts[i].context_queue[n].data] = <<>>
  <2>1. \A i \in NetworkScripts : proj.scripts[i].context_queue = <<>>
    BY <1>3 DEF NetworkScripts
  <2>2. [n \in DOMAIN <<>> |-> <<>>[n].data] = <<>>
    OBVIOUS
  <2> QED
    BY <2>1, <2>2
<1> QED
  BY <1>4, <1>5, <1>6 DEF Network!Init

\* Every call is a step of Inboxes.
LEMMA CallMaps ==
  ASSUME Inv, HatsStay, [Next]_vars
  PROVE  HatsStay' /\ [Network!Next]_(Network!vars)
<1>1. CASE UNCHANGED vars
  BY <1>1 DEF vars, HatsStay, Network!vars, Handled, Live
<1>2. ASSUME Stops
      PROVE  HatsStay' /\ Network!Stop
  <2>1. HatsStay'
    BY <1>2 DEF Stops, HatsStay
  <2>2. ASSUME NEW i \in NetworkScripts
        PROVE  /\ Handled(i)' = NoData
               /\ [n \in DOMAIN proj'.scripts[i].context_queue |->
                     proj'.scripts[i].context_queue[n].data] = <<>>
    <3>1. proj'.scripts[i].context_queue = <<>>
      BY <1>2 DEF Stops, HatsStay, NetworkScripts
    <3>2. [n \in DOMAIN <<>> |-> <<>>[n].data] = <<>>
      OBVIOUS
    <3>3. Handled(i)' = NoData
      BY <1>2 DEF Stops, Handled, Live
    <3> QED
      BY <3>1, <3>2, <3>3
  <2> QED
    BY <2>1, <2>2 DEF Network!Stop
<1>3. ASSUME NEW R, NEW context \in Context, Told(proj', R, context),
             NEW x, x = context.data
      PROVE  /\ HatsStay'
             /\ \A i \in NetworkScripts :
                  /\ i \in R => Network!Handle(i, <<x>>)
                  /\ i \notin R => Network!Handle(i, <<>>)
  <2>1. HatsStay'
    BY <1>3 DEF Told, HatsStay
  <2>2. ASSUME NEW i \in NetworkScripts
        PROVE  /\ i \in R => Network!Handle(i, <<x>>)
               /\ i \notin R => Network!Handle(i, <<>>)
    <3>1. Hears(proj, proj', i, IF i \in R THEN <<context>> ELSE <<>>)
      BY <1>3 DEF Told, HatsStay, NetworkScripts
    <3>2. CASE i \in R
      <4>1. Hears(proj, proj', i, <<context>>)
        BY <3>1, <3>2
      <4> QED
        BY <1>3, <3>2, <4>1, HearsMaps
    <3>3. CASE i \notin R
      <4>1. Hears(proj, proj', i, <<>>)
        BY <3>1, <3>3
      <4> QED
        BY <1>3, <3>3, <4>1, HearsMaps
    <3> QED
      BY <3>2, <3>3
  <2> QED
    BY <2>1, <2>2
<1>4. ASSUME Proceeds
      PROVE  HatsStay' /\ Network!Proceed
  <2> DEFINE R == {}
  <2>1. /\ Told(proj', R, DefaultContext) /\ DefaultContext \in Context
        /\ NoData = DefaultContext.data
    BY <1>4, ContextsUsed DEF Proceeds, DefaultContext
  <2> HIDE DEF R
  <2>2. /\ HatsStay'
        /\ \A i \in NetworkScripts : i \notin R => Network!Handle(i, <<>>)
    BY <1>3, <2>1
  <2> QED
    BY <2>2 DEF Network!Proceed, R
<1>5. ASSUME NEW msg \in Msgs, Delivers(msg)
      PROVE  HatsStay' /\ (Network!Proceed \/ \E m \in Message : Network!Deliver(m))
  <2> DEFINE R == Receivers(proj, msg)
             context == [data |-> msg.data, barrier |-> NoKey]
  <2>1. context \in Context /\ context.data = msg.data
    BY DEF Msgs, Message, NoMessage, Context, Payload
  <2>2. Told(proj', R, context)
    BY <1>5 DEF Delivers
  <2>3. \A i \in NetworkScripts : i \in R <=> InitScripts[i].event.name = msg.name
    BY DEF HatsStay, NetworkScripts, Receivers
  <2> HIDE DEF R, context
  <2>4. /\ HatsStay'
        /\ \A i \in NetworkScripts :
             /\ i \in R => Network!Handle(i, <<msg.data>>)
             /\ i \notin R => Network!Handle(i, <<>>)
    BY <1>3, <2>1, <2>2
  <2>5. CASE msg \in Message
    <3>1. ASSUME NEW b \in NetworkScripts
          PROVE  Network!Handle(b, IF InitScripts[b].event.name = msg.name
                                     THEN <<msg.data>> ELSE <<>>)
      <4>1. CASE b \in R
        BY <2>3, <2>4, <4>1 DEF Network!Handle
      <4>2. CASE b \notin R
        BY <2>3, <2>4, <4>2 DEF Network!Handle
      <4> QED
        BY <4>1, <4>2
    <3>2. Network!Deliver(msg)
      BY <3>1 DEF Network!Deliver, Network!Handle
    <3> QED
      BY <2>4, <2>5, <3>2
  <2>6. CASE msg = NoMessage
    <3>1. \A i \in NetworkScripts : i \notin R
      BY <2>3, <2>6, MessageAssumption DEF NoMessage, NetworkScripts
    <3>2. \A i \in NetworkScripts : Network!Handle(i, <<>>)
      BY <2>4, <3>1
    <3> QED
      BY <2>4, <3>2 DEF Network!Proceed
  <2> QED
    BY <2>5, <2>6 DEF Msgs
<1>6. CASE Next
  BY <1>2, <1>4, <1>5, <1>6, CallCases DEF Network!Next
<1> QED
  BY <1>1, <1>6

\* The scripts of network messages handle every message of their name once, one
\* at a time and in order of arrival, all of them hear of it in the same call, and
\* only a stop loses any: whatever user input, broadcasts, forks, clones and ends
\* of processes come in between.
THEOREM ProjectImplementsInboxes == Spec => HandlesInOrder
<1>1. Init => HatsStay /\ Network!Init
  BY InitHears
<1>2. Inv /\ HatsStay /\ [Next]_vars => HatsStay' /\ [Network!Next]_(Network!vars)
  BY CallMaps
<1> QED
  BY <1>1, <1>2, InvHolds, PTL DEF Spec, HandlesInOrder, Network!Spec
=============================================================================
