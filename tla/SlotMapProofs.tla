---------------------------- MODULE SlotMapProofs ----------------------------
(***************************************************************************)
(* The slot map keeps its free list and its count exact, and implements    *)
(* the keyed store, for any number of slots, generations and values.       *)
(***************************************************************************)
EXTENDS SlotMap, FiniteSetTheorems, SequenceTheorems, TLAPS

-----------------------------------------------------------------------------
(* The indices of slots in order.                                          *)

\* A larger member has a larger rank; ranks run up to the size of the set.
LEMMA RankProperties ==
  ASSUME NEW R \in SUBSET Nat, IsFiniteSet(R), NEW i \in R
  PROVE  /\ Rank(R, i) \in 1 .. Cardinality(R)
         /\ \A j \in R : i < j => Rank(R, i) < Rank(R, j)
<1> DEFINE Below(k) == {m \in R : m < k}
<1>1. ASSUME NEW k \in R
      PROVE  IsFiniteSet(Below(k)) /\ Cardinality(Below(k)) \in Nat
  BY FS_Subset, FS_CardinalityType, Below(k) \in SUBSET R
<1>2. Cardinality(R) \in Nat
  BY FS_CardinalityType
<1>3. /\ IsFiniteSet(Below(i) \union {i})
      /\ Cardinality(Below(i) \union {i}) = Cardinality(Below(i)) + 1
  BY <1>1, FS_AddElement, i \notin Below(i)
<1>4. Cardinality(Below(i) \union {i}) <= Cardinality(R)
  BY FS_Subset, Below(i) \union {i} \in SUBSET R
<1>5. ASSUME NEW j \in R, i < j
      PROVE  Cardinality(Below(i) \union {i}) <= Cardinality(Below(j))
  <2>1. /\ i \in Nat /\ j \in Nat
        /\ \A m \in R : m \in Nat
    OBVIOUS
  <2>2. \A m \in R : m < i => m < j
    BY <2>1, <1>5
  <2>3. Below(i) \union {i} \in SUBSET Below(j)
    BY <2>2, <1>5
  <2> QED
    BY <2>3, <1>1, FS_Subset
<1>6. \A k \in R : Rank(R, k) = Cardinality(Below(k)) + 1
  BY DEF Rank
<1> HIDE DEF Below
<1>7. Rank(R, i) \in 1 .. Cardinality(R)
  BY <1>1, <1>2, <1>3, <1>4, <1>6
<1>8. ASSUME NEW j \in R, i < j
      PROVE  Rank(R, i) < Rank(R, j)
  <2>1. /\ Cardinality(Below(i)) \in Nat /\ Cardinality(Below(j)) \in Nat
        /\ Cardinality(Below(i)) + 1 <= Cardinality(Below(j))
    BY <1>1, <1>3, <1>5, <1>8
  <2> QED
    BY <1>6, <2>1
<1> QED
  BY <1>7, <1>8

\* Every rank up to the size of the set is somebody's.
LEMMA RankIsOnto ==
  ASSUME NEW R \in SUBSET Nat, IsFiniteSet(R), NEW n \in 1 .. Cardinality(R)
  PROVE  \E i \in R : Rank(R, i) = n
<1> DEFINE f == [i \in R |-> Rank(R, i)]
           T == 1 .. Cardinality(R)
<1>1. Cardinality(R) \in Nat
  BY FS_CardinalityType
<1>2. IsFiniteSet(T) /\ Cardinality(T) = Cardinality(R)
  BY <1>1, FS_Interval
<1>3. f \in [R -> T]
  BY RankProperties
<1>4. ASSUME NEW i \in R, NEW j \in R, f[i] = f[j]
      PROVE  i = j
  <2>1. /\ i < j => Rank(R, i) < Rank(R, j)
        /\ j < i => Rank(R, j) < Rank(R, i)
        /\ Rank(R, i) \in Nat /\ Rank(R, j) \in Nat
    BY RankProperties, <1>1
  <2> QED
    BY <1>4, <2>1
<1>5. f \in Injection(R, T)
  BY <1>3, <1>4 DEF Injection, IsInjective
<1>6. f \in Surjection(R, T)
  BY <1>2, <1>5, FS_Injection
<1> QED
  BY <1>6 DEF Surjection

\* InOrder(R) lists each member of R once.
LEMMA InOrderSequence ==
  ASSUME NEW R \in SUBSET Nat, IsFiniteSet(R)
  PROVE  /\ InOrder(R) \in Seq(R)
         /\ \A a, b \in DOMAIN InOrder(R) : InOrder(R)[a] = InOrder(R)[b] => a = b
         /\ \A i \in R : \E a \in DOMAIN InOrder(R) : InOrder(R)[a] = i
<1> DEFINE N == Cardinality(R)
           q == InOrder(R)
<1>1. N \in Nat
  BY FS_CardinalityType
<1>2. \A n \in 1 .. N : q[n] \in R /\ Rank(R, q[n]) = n
  BY RankIsOnto DEF InOrder
<1>3. DOMAIN q = 1 .. N /\ q \in [1 .. N -> R]
  BY <1>2 DEF InOrder
<1> HIDE DEF N, q
<1>4. q \in Seq(R)
  BY <1>1, <1>3
<1>5. \A a, b \in 1 .. N : q[a] = q[b] => a = b
  <2>1. ASSUME NEW a \in 1 .. N, NEW b \in 1 .. N, q[a] = q[b] PROVE a = b
    <3>1. Rank(R, q[a]) = a /\ Rank(R, q[b]) = b
      BY <1>2
    <3> QED
      BY <2>1, <3>1
  <2> QED
    BY <2>1
<1>6. ASSUME NEW i \in R
      PROVE  \E a \in 1 .. N : q[a] = i
  <2> DEFINE r == Rank(R, i)
             j == q[r]
  <2>1. r \in 1 .. N
    BY RankProperties DEF N
  <2>2. j \in R /\ Rank(R, j) = r
    BY <1>2, <2>1
  <2>3. /\ j < i => Rank(R, j) < r
        /\ i < j => r < Rank(R, j)
    BY <2>2, RankProperties
  <2> HIDE DEF r, j
  <2>4. j \in Nat /\ i \in Nat /\ r \in Nat
    <3>1. j \in Nat /\ i \in Nat
      BY <2>2
    <3> QED
      BY <1>1, <2>1, <3>1
  <2>5. ~ (j < i) /\ ~ (i < j)
    BY <2>2, <2>3, <2>4
  <2>6. j = i
    BY <2>4, <2>5
  <2> QED
    BY <2>1, <2>6 DEF j
<1> QED
  BY <1>3, <1>4, <1>5, <1>6 DEF q

\* The positions of a concatenation are those of its parts.
LEMMA ConcatPositions ==
  ASSUME NEW S, NEW s \in Seq(S), NEW t \in Seq(S)
  PROVE  /\ s \o t \in Seq(S)
         /\ DOMAIN s = 1 .. Len(s) /\ DOMAIN t = 1 .. Len(t)
         /\ DOMAIN (s \o t) = 1 .. Len(s) + Len(t)
         /\ Len(s) \in Nat /\ Len(t) \in Nat
         /\ \A a \in DOMAIN s : a \in DOMAIN (s \o t) /\ (s \o t)[a] = s[a]
         /\ \A b \in DOMAIN t : /\ Len(s) + b \in DOMAIN (s \o t)
                                /\ (s \o t)[Len(s) + b] = t[b]
         /\ \A a \in DOMAIN (s \o t) :
              \/ a \in DOMAIN s
              \/ \E b \in DOMAIN t : a = Len(s) + b
<1>1. /\ s \o t \in Seq(S) /\ Len(s \o t) = Len(s) + Len(t)
      /\ \A a \in 1 .. Len(s) + Len(t) :
           (s \o t)[a] = IF a <= Len(s) THEN s[a] ELSE t[a - Len(s)]
      /\ Len(s) \in Nat /\ Len(t) \in Nat
      /\ DOMAIN s = 1 .. Len(s) /\ DOMAIN t = 1 .. Len(t)
      /\ DOMAIN (s \o t) = 1 .. Len(s) + Len(t)
  BY ConcatProperties, LenProperties
<1>2. \A a \in 1 .. Len(s) : a \in 1 .. Len(s) + Len(t) /\ a <= Len(s)
  BY <1>1
<1>3. \A b \in 1 .. Len(t) : /\ Len(s) + b \in 1 .. Len(s) + Len(t)
                             /\ ~ (Len(s) + b <= Len(s))
                             /\ (Len(s) + b) - Len(s) = b
  BY <1>1
<1>4. \A a \in 1 .. Len(s) + Len(t) :
        a \in 1 .. Len(s) \/ (a - Len(s) \in 1 .. Len(t) /\ a = Len(s) + (a - Len(s)))
  BY <1>1
<1> QED
  BY <1>1, <1>2, <1>3, <1>4

\* Concatenating sequences that repeat nothing and share nothing.
LEMMA ConcatInjective ==
  ASSUME NEW S, NEW s \in Seq(S), NEW t \in Seq(S),
         \A a, b \in DOMAIN s : s[a] = s[b] => a = b,
         \A a, b \in DOMAIN t : t[a] = t[b] => a = b,
         \A a \in DOMAIN s, b \in DOMAIN t : s[a] # t[b]
  PROVE  \A a, b \in DOMAIN (s \o t) : (s \o t)[a] = (s \o t)[b] => a = b
<1> SUFFICES ASSUME NEW a \in DOMAIN (s \o t), NEW b \in DOMAIN (s \o t),
                    (s \o t)[a] = (s \o t)[b]
             PROVE  a = b
  OBVIOUS
<1>1. CASE a \in DOMAIN s /\ b \in DOMAIN s
  BY <1>1, ConcatPositions
<1>2. CASE a \in DOMAIN s /\ b \notin DOMAIN s
  BY <1>2, ConcatPositions
<1>3. CASE a \notin DOMAIN s /\ b \in DOMAIN s
  BY <1>3, ConcatPositions
<1>4. CASE a \notin DOMAIN s /\ b \notin DOMAIN s
  <2>1. PICK c \in DOMAIN t : a = Len(s) + c
    BY <1>4, ConcatPositions
  <2>2. PICK d \in DOMAIN t : b = Len(s) + d
    BY <1>4, ConcatPositions
  <2>3. t[c] = t[d]
    BY <2>1, <2>2, ConcatPositions
  <2> QED
    BY <2>1, <2>2, <2>3
<1> QED
  BY <1>1, <1>2, <1>3, <1>4

\* Every element of a concatenation is an element of one of its parts.
LEMMA ConcatSources ==
  ASSUME NEW S, NEW s \in Seq(S), NEW t \in Seq(S)
  PROVE  \A a \in DOMAIN (s \o t) : \/ \E b \in DOMAIN s : s[b] = (s \o t)[a]
                                  \/ \E b \in DOMAIN t : t[b] = (s \o t)[a]
BY ConcatPositions

\* Every element of a part is an element of the concatenation.
LEMMA ConcatKeepsFirst ==
  ASSUME NEW S, NEW s \in Seq(S), NEW t \in Seq(S)
  PROVE  \A b \in DOMAIN s : \E a \in DOMAIN (s \o t) : (s \o t)[a] = s[b]
BY ConcatPositions

LEMMA ConcatKeepsSecond ==
  ASSUME NEW S, NEW s \in Seq(S), NEW t \in Seq(S)
  PROVE  \A b \in DOMAIN t : \E a \in DOMAIN (s \o t) : (s \o t)[a] = t[b]
<1>1. \A b \in DOMAIN t : /\ Len(s) + b \in DOMAIN (s \o t)
                          /\ (s \o t)[Len(s) + b] = t[b]
  BY ConcatPositions
<1> QED
  BY <1>1

-----------------------------------------------------------------------------
(* The invariant.                                                          *)

Inv == TypeOK /\ FreeListExact /\ CountExact

\* The occupied slots are finitely many.
LEMMA OccupiedFinite ==
  ASSUME TypeOK
  PROVE  /\ Occupied \in SUBSET Nat
         /\ IsFiniteSet(Occupied)
         /\ Cardinality(Occupied) \in Nat
<1>1. Occupied \in SUBSET (0 .. Len(slots) - 1) /\ Len(slots) \in Nat
  BY DEF Occupied, TypeOK
<1>2. IsFiniteSet(0 .. Len(slots) - 1)
  BY <1>1, FS_Interval
<1>3. IsFiniteSet(Occupied)
  BY <1>1, <1>2, FS_Subset
<1> QED
  BY <1>1, <1>3, FS_CardinalityType

\* A key that finds a value points at an occupied slot, whose index and
\* generation are the key's.
LEMMA LookupFinds ==
  ASSUME TypeOK, NEW k \in Key, Lookup(k) # None
  PROVE  /\ k[1] \in Occupied
         /\ k[1] + 1 \in DOMAIN slots
         /\ slots[k[1] + 1].generation = k[2]
         /\ Lookup(k) = slots[k[1] + 1].value
BY DEF TypeOK, Key, Lookup, Current, Occupied

\* Writing one slot leaves the others as they were.
LEMMA SlotUpdate ==
  ASSUME TypeOK, NEW n \in DOMAIN slots, NEW e \in Slot
  PROVE  LET t == [slots EXCEPT ![n] = e]
         IN  /\ t \in Seq(Slot) /\ Len(t) = Len(slots) /\ DOMAIN t = DOMAIN slots
             /\ t[n] = e
             /\ \A j \in DOMAIN slots : j # n => t[j] = slots[j]
<1>1. slots \in Seq(Slot) /\ n \in 1 .. Len(slots) /\ DOMAIN slots = 1 .. Len(slots)
  BY DEF TypeOK
<1> DEFINE t == [slots EXCEPT ![n] = e]
<1>2. /\ t \in Seq(Slot) /\ Len(t) = Len(slots)
      /\ \A j \in 1 .. Len(slots) : t[j] = IF j = n THEN e ELSE slots[j]
  BY <1>1, ExceptSeq
<1>3. DOMAIN t = DOMAIN slots
  BY <1>1
<1> QED
  BY <1>1, <1>2, <1>3

\* When one slot is written, only that slot's occupation changes.
LEMMA OccupiedUpdate ==
  ASSUME TypeOK, NEW slot \in 0 .. Len(slots) - 1,
         Len(slots') = Len(slots),
         \A i \in DOMAIN slots : i # slot + 1 => slots'[i] = slots[i]
  PROVE  Occupied' = IF slots'[slot + 1].value # None
                       THEN Occupied \union {slot} ELSE Occupied \ {slot}
<1>1. /\ \A i \in 0 .. Len(slots) - 1 : i + 1 \in DOMAIN slots
      /\ \A i \in 0 .. Len(slots) - 1 : i # slot => i + 1 # slot + 1
  BY DEF TypeOK
<1>2. \A i \in 0 .. Len(slots) - 1 : i # slot => slots'[i + 1] = slots[i + 1]
  BY <1>1
<1> QED
  BY <1>2 DEF Occupied

\* What is left of a list when its last element is popped.
LEMMA PopLast ==
  ASSUME NEW q \in Seq(Nat), Len(q) > 0
  PROVE  LET r == SubSeq(q, 1, Len(q) - 1)
         IN  /\ r \in Seq(Nat) /\ Len(r) = Len(q) - 1
             /\ \A a \in 1 .. Len(q) - 1 : r[a] = q[a]
<1> DEFINE n == Len(q) - 1
<1>1. n \in Nat /\ n <= Len(q)
  OBVIOUS
<1>2. \A i \in 1 .. n : q[i] \in Nat
  BY <1>1
<1> HIDE DEF n
<1>3. /\ SubSeq(q, 1, n) \in Seq(Nat) /\ Len(SubSeq(q, 1, n)) = n
      /\ \A a \in 1 .. n : SubSeq(q, 1, n)[a] = q[a]
  BY <1>1, <1>2
<1> QED
  BY <1>3 DEF n

LEMMA InsertReuseKeepsInv ==
  ASSUME Inv, NEW v \in Value, InsertReuse(v)
  PROVE  Inv'
<1> DEFINE n    == Len(empty_slots)
           slot == empty_slots[n]
<1>1. n \in Nat /\ n > 0 /\ n \in DOMAIN empty_slots
  BY DEF Inv, TypeOK, InsertReuse
<1>2. slot \in (0 .. Len(slots) - 1) \ Occupied
  BY <1>1 DEF Inv, FreeListExact
<1>3. slot + 1 \in DOMAIN slots /\ slot \in Nat
  BY <1>2 DEF Inv, TypeOK
<1>4. /\ slots' = [slots EXCEPT ![slot + 1].value = v]
      /\ empty_slots' = SubSeq(empty_slots, 1, n - 1)
      /\ ret' = <<slot, slots[slot + 1].generation>>
      /\ num_values' = num_values + 1
  BY DEF InsertReuse
<1>5. /\ slots' \in Seq(Slot) /\ Len(slots') = Len(slots)
      /\ slots'[slot + 1].value = v
      /\ \A i \in DOMAIN slots : i # slot + 1 => slots'[i] = slots[i]
  <2> DEFINE e == [slots[slot + 1] EXCEPT !.value = v]
  <2>1. slots[slot + 1] \in Slot
    BY <1>3 DEF Inv, TypeOK
  <2>2. e \in Slot /\ e.value = v
    BY <2>1 DEF Slot
  <2>3. slots' = [slots EXCEPT ![slot + 1] = e]
    BY <1>4
  <2> HIDE DEF e
  <2> QED
    BY <1>3, <2>2, <2>3, SlotUpdate DEF Inv
<1>6. /\ empty_slots' \in Seq(Nat)
      /\ Len(empty_slots') = n - 1
      /\ \A a \in 1 .. n - 1 : empty_slots'[a] = empty_slots[a]
  <2>1. empty_slots \in Seq(Nat) /\ Len(empty_slots) > 0
    BY <1>1 DEF Inv, TypeOK
  <2> QED
    BY <1>4, <2>1, PopLast
<1>7. Occupied' = Occupied \union {slot}
  BY <1>2, <1>5, ValueAssumption, OccupiedUpdate DEF Inv
<1> HIDE DEF slot, n
<1>8. TypeOK'
  <2>1. slots[slot + 1].generation \in 0 .. MaxGeneration
    <3>1. slots[slot + 1] \in Slot
      BY <1>3 DEF Inv, TypeOK
    <3> QED
      BY <3>1 DEF Slot
  <2>2. slot \in 0 .. MaxSlots
    BY <1>2, BoundAssumption DEF Inv, TypeOK
  <2>3. ret' \in Key
    BY <1>4, <2>1, <2>2 DEF Key
  <2> QED
    BY <1>4, <1>5, <1>6, <2>3 DEF Inv, TypeOK
<1>9. FreeListExact'
  <2>1. \A a \in 1 .. n - 1 : empty_slots[a] # slot
    BY <1>1 DEF Inv, FreeListExact, TypeOK, slot
  <2>2. \A a \in DOMAIN empty_slots' : a \in 1 .. n - 1 /\ a \in DOMAIN empty_slots
    <3>1. DOMAIN empty_slots' = 1 .. n - 1
      BY <1>6
    <3>2. DOMAIN empty_slots = 1 .. n
      BY DEF Inv, TypeOK, n
    <3> QED
      BY <1>1, <3>1, <3>2
  <2>3. ASSUME NEW i \in (0 .. Len(slots') - 1) \ Occupied'
        PROVE  \E a \in DOMAIN empty_slots' : empty_slots'[a] = i
    <3>1. i \in (0 .. Len(slots) - 1) \ Occupied /\ i # slot
      BY <2>3, <1>5, <1>7
    <3>2. PICK a \in DOMAIN empty_slots : empty_slots[a] = i
      BY <3>1 DEF Inv, FreeListExact
    <3>3. a \in 1 .. n - 1
      BY <1>1, <3>1, <3>2 DEF Inv, TypeOK, slot, n
    <3>4. a \in DOMAIN empty_slots'
      BY <1>1, <1>6, <3>3
    <3>5. empty_slots'[a] = i
      BY <1>6, <3>2, <3>3
    <3> QED
      BY <3>4, <3>5
  <2>4. \A a \in DOMAIN empty_slots' :
          empty_slots'[a] \in (0 .. Len(slots') - 1) \ Occupied'
    BY <1>5, <1>6, <1>7, <2>1, <2>2 DEF Inv, FreeListExact
  <2>5. \A a, b \in DOMAIN empty_slots' :
          empty_slots'[a] = empty_slots'[b] => a = b
    BY <1>6, <2>2 DEF Inv, FreeListExact
  <2> QED
    BY <2>3, <2>4, <2>5 DEF FreeListExact
<1>10. CountExact'
  BY <1>2, <1>4, <1>7, OccupiedFinite, FS_AddElement DEF Inv, CountExact
<1> QED
  BY <1>8, <1>9, <1>10 DEF Inv

LEMMA InsertGrowKeepsInv ==
  ASSUME Inv, NEW v \in Value, InsertGrow(v)
  PROVE  Inv'
<1> DEFINE e == [value |-> v, generation |-> 0]
           n == Len(slots)
<1>1. e \in Slot /\ n \in Nat
  BY BoundAssumption DEF Slot, Inv, TypeOK
<1>2. /\ empty_slots = <<>> /\ empty_slots' = empty_slots
      /\ n < MaxSlots
      /\ slots' = Append(slots, e)
      /\ ret' = <<n, 0>>
      /\ num_values' = num_values + 1
  BY DEF InsertGrow
<1>3. /\ slots' \in Seq(Slot) /\ Len(slots') = n + 1
      /\ \A i \in 1 .. n : slots'[i] = slots[i]
      /\ slots'[n + 1] = e
  BY <1>1, <1>2, AppendProperties DEF Inv, TypeOK
<1>4. Occupied = 0 .. n - 1
  BY <1>2 DEF Inv, FreeListExact, Occupied
<1>5. Occupied' = Occupied \union {n}
  <2>1. \A i \in 0 .. n - 1 : slots[i + 1].value # None /\ slots'[i + 1] = slots[i + 1]
    <3>1. \A i \in 0 .. n - 1 : i + 1 \in 1 .. n
      BY <1>1
    <3>2. \A i \in Occupied : slots[i + 1].value # None
      BY DEF Occupied
    <3> QED
      BY <1>3, <1>4, <3>1, <3>2
  <2>2. slots'[n + 1].value # None
    BY <1>3, ValueAssumption
  <2>3. 0 .. Len(slots') - 1 = (0 .. n - 1) \union {n}
    BY <1>1, <1>3
  <2> QED
    BY <1>4, <2>1, <2>2, <2>3 DEF Occupied
<1>6. TypeOK'
  <2>1. ret' \in Key
    BY <1>1, <1>2, BoundAssumption DEF Key
  <2> QED
    BY <1>1, <1>2, <1>3, <2>1, BoundAssumption DEF Inv, TypeOK
<1>7. FreeListExact'
  <2>1. (0 .. Len(slots') - 1) \ Occupied' = {}
    BY <1>1, <1>3, <1>4, <1>5
  <2> QED
    BY <1>2, <2>1 DEF FreeListExact
<1>8. CountExact'
  <2>1. n \notin Occupied
    BY <1>1, <1>4
  <2> QED
    BY <2>1, <1>2, <1>5, OccupiedFinite, FS_AddElement DEF Inv, CountExact
<1> QED
  BY <1>6, <1>7, <1>8 DEF Inv

\* What a call returns by looking a key up is a value or None.
LEMMA LookupType ==
  ASSUME TypeOK, NEW k \in Key
  PROVE  Lookup(k) \in Value \union {None}
<1>1. CASE Current(k)
  <2>1. k[1] + 1 \in DOMAIN slots
    BY <1>1 DEF Key, Current, TypeOK
  <2>2. slots[k[1] + 1] \in Slot
    BY <2>1 DEF TypeOK
  <2> QED
    BY <1>1, <2>2 DEF Lookup, Slot
<1>2. CASE ~ Current(k)
  BY <1>2 DEF Lookup
<1> QED
  BY <1>1, <1>2

LEMMA RemoveKeepsInv ==
  ASSUME Inv, NEW k \in Key, Remove(k)
  PROVE  Inv'
<1>1. ret' \in Value \union {None} \union Key
  BY LookupType DEF Remove, Inv
<1>2. CASE Lookup(k) = None
  BY <1>1, <1>2 DEF Remove, Inv, TypeOK, FreeListExact, CountExact, Occupied
<1>3. CASE Lookup(k) # None
  <2> DEFINE slot == k[1]
             n    == Len(empty_slots)
             e    == Vacated(slots[slot + 1])
  <2>1. /\ slot \in Occupied
        /\ slot + 1 \in DOMAIN slots
        /\ slots[slot + 1].generation = k[2]
        /\ slot \in 0 .. Len(slots) - 1 /\ slot \in Nat
    BY <1>3, LookupFinds DEF Inv, Occupied
  <2>2. /\ k[2] < MaxGeneration
        /\ slots' = [slots EXCEPT ![slot + 1] = e]
        /\ empty_slots' = Append(empty_slots, slot)
        /\ num_values' = num_values - 1
    BY <1>3 DEF Remove
  <2>3. e \in Slot /\ e.value = None
    BY <2>1, <2>2, BoundAssumption DEF Vacated, Slot, Key
  <2>4. /\ slots' \in Seq(Slot) /\ Len(slots') = Len(slots)
        /\ slots'[slot + 1] = e
        /\ \A i \in DOMAIN slots : i # slot + 1 => slots'[i] = slots[i]
    BY <2>1, <2>2, <2>3, SlotUpdate DEF Inv
  <2>5. /\ empty_slots' \in Seq(Nat) /\ Len(empty_slots') = n + 1 /\ n \in Nat
        /\ \A a \in 1 .. n : empty_slots'[a] = empty_slots[a]
        /\ empty_slots'[n + 1] = slot
    BY <2>1, <2>2, AppendProperties DEF Inv, TypeOK
  <2>6. Occupied' = Occupied \ {slot}
    BY <2>1, <2>3, <2>4, OccupiedUpdate DEF Inv
  <2>7. CountExact'
    BY <2>1, <2>2, <2>6, OccupiedFinite, FS_RemoveElement DEF Inv, CountExact
  <2>8. TypeOK'
    <3>1. IsFiniteSet(Occupied')
      BY <2>6, OccupiedFinite, FS_RemoveElement DEF Inv
    <3>2. Cardinality(Occupied') \in Nat
      BY <3>1, FS_CardinalityType
    <3>3. num_values' \in Nat
      BY <2>7, <3>2 DEF CountExact
    <3> QED
      BY <1>1, <2>4, <2>5, <3>3 DEF Inv, TypeOK
  <2>9. FreeListExact'
    <3>1. DOMAIN empty_slots = 1 .. n /\ DOMAIN empty_slots' = 1 .. n + 1
      BY <2>5 DEF Inv, TypeOK
    <3>2. \A a \in 1 .. n : empty_slots[a] \in (0 .. Len(slots) - 1) \ Occupied
      BY <3>1 DEF Inv, FreeListExact
    <3>3. (0 .. Len(slots') - 1) \ Occupied' =
            ((0 .. Len(slots) - 1) \ Occupied) \union {slot}
      BY <2>1, <2>4, <2>6
    <3>4. \A a \in 1 .. n + 1 : a \in 1 .. n \/ a = n + 1
      BY <2>5
    <3>5. \A a \in DOMAIN empty_slots' :
            empty_slots'[a] \in (0 .. Len(slots') - 1) \ Occupied'
      BY <2>5, <3>1, <3>2, <3>3, <3>4
    <3>6. \A a, b \in DOMAIN empty_slots' :
            empty_slots'[a] = empty_slots'[b] => a = b
      <4>1. \A a \in 1 .. n : empty_slots[a] # slot
        BY <2>1, <3>2
      <4>2. \A a, b \in 1 .. n : empty_slots[a] = empty_slots[b] => a = b
        BY <3>1 DEF Inv, FreeListExact
      <4> QED
        BY <2>5, <3>1, <3>4, <4>1, <4>2
    <3>7. \A i \in (0 .. Len(slots') - 1) \ Occupied' :
            \E a \in DOMAIN empty_slots' : empty_slots'[a] = i
      <4>1. \A i \in (0 .. Len(slots) - 1) \ Occupied :
              \E a \in 1 .. n : empty_slots[a] = i
        BY <3>1 DEF Inv, FreeListExact
      <4>2. \A a \in 1 .. n : a \in 1 .. n + 1
        BY <2>5
      <4>3. n + 1 \in 1 .. n + 1
        BY <2>5
      <4> QED
        BY <2>5, <3>1, <3>3, <4>1, <4>2, <4>3
    <3> QED
      BY <3>5, <3>6, <3>7 DEF FreeListExact
  <2> QED
    BY <2>7, <2>8, <2>9 DEF Inv
<1> QED
  BY <1>2, <1>3

\* Vacating every occupied slot leaves none, and lists them all as free.
LEMMA ClearKeepsInv ==
  ASSUME Inv, Clear
  PROVE  Inv'
<1> DEFINE order == InOrder(Occupied)
           All   == 0 .. Len(slots) - 1
<1>1. /\ slots' = [m \in DOMAIN slots |->
                     IF m - 1 \in Occupied THEN Vacated(slots[m]) ELSE slots[m]]
      /\ empty_slots' = empty_slots \o order
      /\ num_values' = 0
      /\ ret' = None
      /\ \A i \in Occupied : slots[i + 1].generation < MaxGeneration
  BY DEF Clear
<1>2. /\ order \in Seq(Occupied)
      /\ \A a, b \in DOMAIN order : order[a] = order[b] => a = b
      /\ \A i \in Occupied : \E a \in DOMAIN order : order[a] = i
  BY OccupiedFinite, InOrderSequence DEF Inv
<1>3. /\ \A m \in DOMAIN slots : slots'[m] \in Slot /\ slots'[m].value = None
      /\ DOMAIN slots' = DOMAIN slots
  <2>1. SUFFICES ASSUME NEW m \in DOMAIN slots
                 PROVE  slots'[m] \in Slot /\ slots'[m].value = None
    BY <1>1
  <2>2. /\ slots[m] \in Slot
        /\ m - 1 \in 0 .. Len(slots) - 1 /\ (m - 1) + 1 = m
    BY DEF Inv, TypeOK
  <2>3. CASE m - 1 \in Occupied
    <3>1. slots'[m] = Vacated(slots[m]) /\ slots[m].generation < MaxGeneration
      BY <1>1, <2>2, <2>3
    <3> QED
      BY <2>2, <3>1, BoundAssumption DEF Vacated, Slot
  <2>4. CASE m - 1 \notin Occupied
    BY <1>1, <2>2, <2>4 DEF Occupied
  <2> QED
    BY <2>3, <2>4
<1>4. slots' \in Seq(Slot) /\ Len(slots') = Len(slots)
  <2>1. DOMAIN slots = 1 .. Len(slots) /\ Len(slots) \in Nat
    BY DEF Inv, TypeOK
  <2>2. slots' \in [1 .. Len(slots) -> Slot]
    BY <1>1, <1>3, <2>1
  <2> QED
    BY <2>1, <2>2
<1>5. Occupied' = {}
  <2>1. \A i \in 0 .. Len(slots') - 1 : i + 1 \in DOMAIN slots
    BY <1>4 DEF Inv, TypeOK
  <2> QED
    BY <1>3, <2>1 DEF Occupied
<1>6. order \in Seq(Nat) /\ empty_slots \in Seq(Nat)
  BY <1>2, OccupiedFinite, SeqMonotonic DEF Inv, TypeOK
<1>7. TypeOK'
  <2>1. empty_slots' \in Seq(Nat)
    BY <1>1, <1>6, ConcatPositions
  <2> QED
    BY <1>1, <1>4, <2>1 DEF Inv, TypeOK
<1>8. FreeListExact'
  <2>1. /\ \A a \in DOMAIN empty_slots : empty_slots[a] \in All \ Occupied
        /\ \A a, b \in DOMAIN empty_slots : empty_slots[a] = empty_slots[b] => a = b
        /\ \A i \in All \ Occupied : \E a \in DOMAIN empty_slots : empty_slots[a] = i
        /\ Occupied \subseteq All
    BY DEF Inv, FreeListExact, Occupied
  <2>2. \A a \in DOMAIN order : order[a] \in Occupied
    BY <1>2
  <2> HIDE DEF All, order
  <2>3. \A a, b \in DOMAIN empty_slots' : empty_slots'[a] = empty_slots'[b] => a = b
    <3>1. \A a \in DOMAIN empty_slots, b \in DOMAIN order : empty_slots[a] # order[b]
      BY <2>1, <2>2
    <3>2. /\ \A a, b \in DOMAIN empty_slots : empty_slots[a] = empty_slots[b] => a = b
          /\ \A a, b \in DOMAIN order : order[a] = order[b] => a = b
      BY <1>2, <2>1
    <3> DEFINE Index == Nat
               all   == empty_slots \o order
    <3>3. order \in Seq(Index) /\ empty_slots \in Seq(Index)
      BY <1>6 DEF Index
    <3> HIDE DEF Index
    <3>4. \A a, b \in DOMAIN all : all[a] = all[b] => a = b
      BY <3>1, <3>2, <3>3, ConcatInjective
    <3>5. empty_slots' = all
      BY <1>1 DEF order
    <3> QED
      BY <3>4, <3>5
  <2>4. \A x : (\E a \in DOMAIN empty_slots' : empty_slots'[a] = x) <=> x \in All
    <3>1. /\ \A a \in DOMAIN empty_slots' :
                  \/ \E b \in DOMAIN empty_slots : empty_slots[b] = empty_slots'[a]
                  \/ \E b \in DOMAIN order : order[b] = empty_slots'[a]
          /\ \A b \in DOMAIN empty_slots :
                  \E a \in DOMAIN empty_slots' : empty_slots'[a] = empty_slots[b]
          /\ \A b \in DOMAIN order :
                  \E a \in DOMAIN empty_slots' : empty_slots'[a] = order[b]
      <4> DEFINE Index == Nat
                 all   == empty_slots \o order
      <4>1. order \in Seq(Index) /\ empty_slots \in Seq(Index)
        BY <1>6 DEF Index
      <4> HIDE DEF Index
      <4>2. \A a \in DOMAIN all : \/ \E b \in DOMAIN empty_slots :
                                        empty_slots[b] = all[a]
                                 \/ \E b \in DOMAIN order : order[b] = all[a]
        BY <4>1, ConcatSources
      <4>3. \A b \in DOMAIN empty_slots :
              \E a \in DOMAIN all : all[a] = empty_slots[b]
        BY <4>1, ConcatKeepsFirst
      <4>4. \A b \in DOMAIN order : \E a \in DOMAIN all : all[a] = order[b]
        BY <4>1, ConcatKeepsSecond
      <4>5. empty_slots' = all
        BY <1>1 DEF order
      <4> HIDE DEF all
      <4> QED
        BY <4>2, <4>3, <4>4, <4>5
    <3>2. \A a \in DOMAIN empty_slots' : empty_slots'[a] \in All
      BY <2>1, <2>2, <3>1
    <3>3. ASSUME NEW x \in All
          PROVE  \E a \in DOMAIN empty_slots' : empty_slots'[a] = x
      BY <1>2, <2>1, <3>1
    <3> QED
      BY <3>2, <3>3
  <2>5. All = (0 .. Len(slots') - 1) \ Occupied'
    BY <1>4, <1>5 DEF All
  <2> QED
    BY <2>3, <2>4, <2>5 DEF FreeListExact
<1>9. CountExact'
  BY <1>1, <1>5, FS_EmptySet DEF CountExact
<1> QED
  BY <1>7, <1>8, <1>9 DEF Inv

\* Writing through get_mut() changes no slot's occupation.
LEMMA GetMutKeepsInv ==
  ASSUME Inv, NEW k \in Key, NEW v \in Value, GetMut(k, v)
  PROVE  Inv'
<1>1. /\ ret' \in Value \union {None} \union Key
      /\ empty_slots' = empty_slots /\ num_values' = num_values
  BY LookupType DEF GetMut, Inv
<1>2. CASE Lookup(k) = None
  BY <1>1, <1>2 DEF GetMut, Inv, TypeOK, FreeListExact, CountExact, Occupied
<1>3. CASE Lookup(k) # None
  <2> DEFINE slot == k[1]
             e    == [slots[slot + 1] EXCEPT !.value = v]
  <2>1. /\ slot \in Occupied /\ slot + 1 \in DOMAIN slots
        /\ slot \in 0 .. Len(slots) - 1
    BY <1>3, LookupFinds DEF Inv, Occupied
  <2>2. slots[slot + 1] \in Slot
    BY <2>1 DEF Inv, TypeOK
  <2>3. e \in Slot /\ e.value = v
    BY <2>2 DEF Slot
  <2>4. slots' = [slots EXCEPT ![slot + 1] = e]
    BY <1>3 DEF GetMut
  <2> HIDE DEF e, slot
  <2>5. /\ slots' \in Seq(Slot) /\ Len(slots') = Len(slots)
        /\ slots'[slot + 1] = e
        /\ \A i \in DOMAIN slots : i # slot + 1 => slots'[i] = slots[i]
    BY <2>1, <2>3, <2>4, SlotUpdate DEF Inv
  <2>6. Occupied' = Occupied
    BY <2>1, <2>3, <2>5, ValueAssumption, OccupiedUpdate DEF Inv
  <2> QED
    BY <1>1, <2>5, <2>6 DEF Inv, TypeOK, FreeListExact, CountExact
<1> QED
  BY <1>2, <1>3

LEMMA InitInv == Init => Inv
<1> SUFFICES ASSUME Init PROVE Inv
  OBVIOUS
<1>1. slots = <<>> /\ empty_slots = <<>> /\ num_values = 0 /\ ret = None
  BY DEF Init
<1>2. Occupied = {}
  BY <1>1 DEF Occupied
<1> QED
  BY <1>1, <1>2, FS_EmptySet, BoundAssumption
  DEF Inv, TypeOK, FreeListExact, CountExact

LEMMA StepInv == Inv /\ [Next]_vars => Inv'
<1> SUFFICES ASSUME Inv, [Next]_vars PROVE Inv'
  OBVIOUS
<1>1. ASSUME NEW v \in Value, Insert(v) PROVE Inv'
  BY <1>1, InsertReuseKeepsInv, InsertGrowKeepsInv DEF Insert
<1>2. ASSUME NEW k \in Key, Remove(k) PROVE Inv'
  BY <1>2, RemoveKeepsInv
<1>3. ASSUME NEW k \in Key, Get(k) PROVE Inv'
  BY <1>3, LookupType DEF Get, Inv, TypeOK, FreeListExact, CountExact, Occupied
<1>4. ASSUME NEW k \in Key, NEW v \in Value, GetMut(k, v) PROVE Inv'
  BY <1>4, GetMutKeepsInv
<1>5. CASE Clear
  BY <1>5, ClearKeepsInv
<1>6. CASE UNCHANGED vars
  BY <1>6 DEF vars, Inv, TypeOK, FreeListExact, CountExact, Occupied
<1> QED
  BY <1>1, <1>2, <1>3, <1>4, <1>5, <1>6 DEF Next

\* Type, free list and count are right in every reachable state.
THEOREM SlotMapInvariant == Spec => []Inv
BY InitInv, StepInv, PTL DEF Spec

\* What the run checks of the free list and the count, and the types.
THEOREM FreeListTheorem == Spec => []SlotsExact /\ []TypeOK
<1>1. Inv => SlotsExact /\ TypeOK
  BY DEF Inv, SlotsExact
<1> QED
  BY <1>1, SlotMapInvariant, PTL

-----------------------------------------------------------------------------
(* The keyed store, under the refinement mapping of module SlotMap: the    *)
(* live keys are those of the current generation of an occupied slot.      *)
(* That a dead key stays dead is then a property of the keyed store.       *)

\* The slots hold what they may hold, in the numbering of keys.
LEMMA SlotFacts ==
  ASSUME TypeOK
  PROVE  /\ Len(slots) \in Nat /\ Len(slots) <= MaxSlots
         /\ \A i \in 0 .. Len(slots) - 1 :
              /\ i \in 0 .. MaxSlots
              /\ i + 1 \in DOMAIN slots
              /\ slots[i + 1].value \in Value \union {None}
              /\ slots[i + 1].generation \in 0 .. MaxGeneration
<1>1. /\ Len(slots) \in Nat /\ Len(slots) <= MaxSlots
      /\ \A i \in 0 .. Len(slots) - 1 : i \in 0 .. MaxSlots /\ i + 1 \in DOMAIN slots
  BY BoundAssumption DEF TypeOK
<1>2. \A m \in DOMAIN slots : slots[m] \in Slot
  BY DEF TypeOK
<1> QED
  BY <1>1, <1>2 DEF Slot

\* A key is a slot number with a generation.
LEMMA KeyFacts ==
  ASSUME NEW k \in Key
  PROVE  k = <<k[1], k[2]>> /\ k[1] \in 0 .. MaxSlots /\ k[2] \in 0 .. MaxGeneration
BY DEF Key

\* The live keys are those a lookup finds a value under; the keys issued so
\* far are the live ones and those of an earlier generation of their slot.
LiveView ==
  /\ LiveKeys = {k \in Key : Lookup(k) # None}
  /\ Live = [k \in LiveKeys |-> Lookup(k)]
IssuedView ==
  Issued = {k \in Key : /\ k[1] < Len(slots)
                        /\ \/ k[2] < slots[k[1] + 1].generation
                           \/ Lookup(k) # None}

LEMMA ViewByLookup == TypeOK => LiveView /\ IssuedView
<1> SUFFICES ASSUME TypeOK PROVE LiveView /\ IssuedView
  OBVIOUS
<1>1. ASSUME NEW i \in Occupied
      PROVE  LET k == <<i, slots[i + 1].generation>>
             IN  k \in Key /\ Lookup(k) = slots[i + 1].value /\ Lookup(k) # None
  <2>1. /\ i \in 0 .. Len(slots) - 1 /\ i \in 0 .. MaxSlots
        /\ slots[i + 1].value # None
        /\ slots[i + 1].generation \in 0 .. MaxGeneration
    BY SlotFacts DEF Occupied
  <2>2. i < Len(slots)
    BY <2>1, SlotFacts
  <2> QED
    BY <2>1, <2>2 DEF Key, Lookup, Current
<1>2. ASSUME NEW k \in Key, Lookup(k) # None
      PROVE  k \in LiveKeys
  BY <1>2, LookupFinds, KeyFacts DEF LiveKeys
<1>3. LiveKeys = {k \in Key : Lookup(k) # None}
  BY <1>1, <1>2 DEF LiveKeys
<1>4. \A k \in LiveKeys : slots[k[1] + 1].value = Lookup(k)
  BY <1>1 DEF LiveKeys
<1> QED
  BY <1>3, <1>4 DEF Live, LiveView, IssuedView, Issued

LEMMA NextViewByLookup == TypeOK' => LiveView' /\ IssuedView'
BY ViewByLookup, PTL

\* The mapping takes a lookup of the store to a lookup of the map.
LEMMA StoreLookup ==
  ASSUME TypeOK, NEW k \in Key
  PROVE  Store!Lookup(k) = Lookup(k)
BY ViewByLookup DEF LiveView, Store!Lookup

\* A step that changes what lookup finds under one new key inserts it.
LEMMA MapsToInsert ==
  ASSUME TypeOK, TypeOK', NEW v \in Value, NEW k \in Key \ Issued, ret' = k,
         \A j \in Key : Lookup(j)' = IF j = k THEN v ELSE Lookup(j),
         Issued' = Issued \union {k}
  PROVE  Store!Insert(v)
<1>1. LiveKeys' = LiveKeys \union {k}
  BY ViewByLookup, NextViewByLookup, ValueAssumption DEF LiveView
<1>2. LiveKeys \subseteq Key
  BY ViewByLookup DEF LiveView
<1>3. Live' = [j \in LiveKeys \union {k} |-> IF j = k THEN v ELSE Lookup(j)]
  BY <1>1, <1>2, NextViewByLookup DEF LiveView
<1>4. DOMAIN Live = LiveKeys /\ \A j \in LiveKeys : Live[j] = Lookup(j)
  BY ViewByLookup DEF LiveView
<1>5. Live' = [j \in DOMAIN Live \union {k} |-> IF j = k THEN v ELSE Live[j]]
  BY <1>3, <1>4
<1> QED
  BY <1>5 DEF Store!Insert

LEMMA InsertReuseMaps ==
  ASSUME Inv, Inv', NEW v \in Value, InsertReuse(v)
  PROVE  Store!Insert(v)
<1> DEFINE slot == empty_slots[Len(empty_slots)]
           k    == <<slot, slots[slot + 1].generation>>
<1>1. /\ slots' = [slots EXCEPT ![slot + 1].value = v] /\ ret' = k
      /\ empty_slots # <<>>
  BY DEF InsertReuse
<1>2. slot \in (0 .. Len(slots) - 1) \ Occupied
  <2>1. Len(empty_slots) \in DOMAIN empty_slots
    BY <1>1 DEF Inv, TypeOK
  <2> QED
    BY <2>1 DEF Inv, FreeListExact
<1>3. slot < Len(slots) /\ slot + 1 \in DOMAIN slots /\ slots[slot + 1].value = None
  BY <1>2, SlotFacts DEF Inv, Occupied
<1> HIDE DEF slot
<1>4. k \in Key
  BY <1>2, SlotFacts DEF Inv, Key
<1>5. Lookup(k) = None
  BY <1>3 DEF Lookup
<1>6. k \notin Issued
  BY <1>2, <1>5, SlotFacts, ViewByLookup DEF Inv, IssuedView
<1>7. /\ Len(slots') = Len(slots) /\ DOMAIN slots' = DOMAIN slots
      /\ slots'[slot + 1].value = v
      /\ slots'[slot + 1].generation = slots[slot + 1].generation
      /\ \A m \in DOMAIN slots : m # slot + 1 => slots'[m] = slots[m]
  <2>1. slots[slot + 1] \in Slot
    BY <1>3 DEF Inv, TypeOK
  <2> DEFINE e == [slots[slot + 1] EXCEPT !.value = v]
  <2>2. e \in Slot /\ e.value = v /\ e.generation = slots[slot + 1].generation
    BY <2>1 DEF Slot
  <2>3. slots' = [slots EXCEPT ![slot + 1] = e]
    BY <1>1
  <2> HIDE DEF e
  <2> QED
    BY <1>3, <2>2, <2>3, SlotUpdate DEF Inv
<1>8. ASSUME NEW j \in Key
      PROVE  /\ Lookup(j)' = IF j = k THEN v ELSE Lookup(j)
             /\ j[1] < Len(slots) =>
                  slots'[j[1] + 1].generation = slots[j[1] + 1].generation
  <2>1. j[1] < Len(slots) => j[1] + 1 \in DOMAIN slots
    BY KeyFacts, SlotFacts DEF Inv
  <2>2. CASE j[1] = slot
    BY <1>3, <1>7, <2>2, KeyFacts DEF Lookup, Current
  <2>3. CASE j[1] # slot
    <3>1. j[1] + 1 # slot + 1 /\ j # k
      BY <1>2, <2>3, KeyFacts
    <3> QED
      BY <1>7, <2>1, <3>1 DEF Lookup, Current
  <2> QED
    BY <2>2, <2>3
<1>9. Issued' = Issued \union {k}
  <2>1. k[1] < Len(slots)
    BY <1>3
  <2> QED
    BY <1>4, <1>7, <1>8, <2>1, ViewByLookup, NextViewByLookup, ValueAssumption
    DEF Inv, IssuedView
<1> HIDE DEF k
<1> QED
  BY <1>1, <1>4, <1>6, <1>8, <1>9, MapsToInsert DEF Inv

LEMMA InsertGrowMaps ==
  ASSUME Inv, Inv', NEW v \in Value, InsertGrow(v)
  PROVE  Store!Insert(v)
<1> DEFINE n == Len(slots)
           e == [value |-> v, generation |-> 0]
           k == <<n, 0>>
<1>1. slots' = Append(slots, e) /\ ret' = k /\ n < MaxSlots /\ n \in Nat
  BY SlotFacts DEF InsertGrow, Inv
<1>2. e \in Slot
  BY BoundAssumption DEF Slot
<1>3. /\ Len(slots') = n + 1
      /\ \A i \in 1 .. n : slots'[i] = slots[i]
      /\ slots'[n + 1] = e
  BY <1>1, <1>2, AppendProperties DEF Inv, TypeOK
<1> HIDE DEF e
<1>4. k \in Key
  BY <1>1, BoundAssumption DEF Key
<1>5. Lookup(k) = None /\ k \notin Issued
  BY <1>1, ViewByLookup DEF Inv, IssuedView, Lookup, Current
<1>6. e.value = v /\ e.generation = 0
  BY DEF e
<1>7. ASSUME NEW j \in Key
      PROVE  /\ Lookup(j)' = IF j = k THEN v ELSE Lookup(j)
             /\ j[1] < n => slots'[j[1] + 1].generation = slots[j[1] + 1].generation
             /\ j[1] < n + 1 /\ ~ (j[1] < n) => j[1] = n
  <2>1. j = <<j[1], j[2]>> /\ j[1] \in Nat /\ j[2] \in Nat
    BY KeyFacts, BoundAssumption
  <2>2. CASE j[1] < n
    <3>1. j[1] + 1 \in 1 .. n /\ j # k /\ j[1] < n + 1
      BY <1>1, <2>1, <2>2
    <3> QED
      BY <1>1, <1>3, <2>1, <2>2, <3>1 DEF Lookup, Current
  <2>3. CASE j[1] = n
    <3>1. j[1] < n + 1 /\ ~ (j[1] < n) /\ j[1] + 1 = n + 1
      BY <1>1, <2>3
    <3>2. j = k <=> j[2] = 0
      BY <2>1, <2>3
    <3>3. Lookup(j)' = IF 0 = j[2] THEN v ELSE None
      BY <1>3, <1>6, <3>1 DEF Lookup, Current
    <3>4. Lookup(j) = None
      BY <3>1 DEF Lookup, Current
    <3> QED
      BY <2>3, <3>1, <3>2, <3>3, <3>4
  <2>4. CASE j[1] > n
    <3>1. ~ (j[1] < n + 1) /\ ~ (j[1] < n) /\ j # k
      BY <1>1, <2>1, <2>4
    <3> QED
      BY <1>3, <3>1 DEF Lookup, Current
  <2> QED
    BY <1>1, <2>1, <2>2, <2>3, <2>4
<1>8. Issued' = Issued \union {k}
  <2>1. Issued' \subseteq Issued \union {k}
    <3> SUFFICES ASSUME NEW j \in Issued', j # k
                 PROVE  j \in Issued
      OBVIOUS
    <3>1. /\ j \in Key /\ j[1] < n + 1
          /\ j[2] < slots'[j[1] + 1].generation \/ Lookup(j)' # None
      BY <1>3, NextViewByLookup DEF Inv, IssuedView
    <3>2. CASE j[1] < n
      BY <1>7, <3>1, <3>2, ViewByLookup DEF Inv, IssuedView
    <3>3. CASE j[1] = n
      <4>1. j[2] \in Nat /\ j[1] + 1 = n + 1 /\ ~ (j[1] < n)
        BY <1>1, <3>1, <3>3, KeyFacts, BoundAssumption
      <4>2. Lookup(j)' # None
        BY <1>3, <1>6, <3>1, <4>1
      <4> QED
        BY <1>7, <3>1, <4>1, <4>2 DEF Lookup, Current
    <3> QED
      BY <1>7, <3>1, <3>2, <3>3
  <2>2. Issued \subseteq Issued'
    <3> SUFFICES ASSUME NEW j \in Issued PROVE j \in Issued'
      OBVIOUS
    <3>1. /\ j \in Key /\ j[1] < n
          /\ j[2] < slots[j[1] + 1].generation \/ Lookup(j) # None
      BY ViewByLookup DEF Inv, IssuedView
    <3>2. j[1] < n + 1
      BY <1>1, <3>1, KeyFacts
    <3> QED
      BY <1>3, <1>5, <1>7, <3>1, <3>2, NextViewByLookup, ValueAssumption
      DEF Inv, IssuedView
  <2>3. k \in Issued'
    <3>1. n < n + 1
      BY <1>1
    <3> QED
      BY <1>3, <1>4, <1>7, <3>1, NextViewByLookup, ValueAssumption DEF Inv, IssuedView
  <2> QED
    BY <2>1, <2>2, <2>3
<1> HIDE DEF k
<1> QED
  BY <1>1, <1>4, <1>5, <1>7, <1>8, MapsToInsert DEF Inv

\* When no key changes between issued and not, nothing is issued.
LEMMA SameIssued ==
  ASSUME TypeOK, TypeOK', Len(slots') = Len(slots),
         \A k \in Key : k[1] < Len(slots) =>
           ((k[2] < slots[k[1] + 1].generation \/ Lookup(k) # None) <=>
            (k[2] < slots'[k[1] + 1].generation \/ Lookup(k)' # None))
  PROVE  Issued' = Issued
BY ViewByLookup, NextViewByLookup DEF IssuedView

LEMMA RemoveMaps ==
  ASSUME Inv, Inv', NEW k \in Key, Remove(k)
  PROVE  Store!Remove(k)
<1>1. ret' = Store!Lookup(k)
  BY StoreLookup DEF Remove, Inv
<1>2. DOMAIN Live = LiveKeys /\ \A j \in LiveKeys : Live[j] = Lookup(j)
  BY ViewByLookup DEF Inv, LiveView
<1>3. CASE Lookup(k) = None
  <2>1. slots' = slots /\ k \notin LiveKeys
    BY <1>3, ViewByLookup DEF Remove, Inv, LiveView
  <2>2. Live' = Live /\ Issued' = Issued
    BY <2>1 DEF Live, LiveKeys, Occupied, Issued
  <2>3. Live = [j \in DOMAIN Live \ {k} |-> Live[j]]
    <3>1. DOMAIN Live \ {k} = LiveKeys
      BY <1>2, <2>1
    <3> QED
      BY <1>2, <3>1, ViewByLookup DEF Inv, LiveView
  <2> QED
    BY <1>1, <2>2, <2>3 DEF Store!Remove
<1>4. CASE Lookup(k) # None
  <2> DEFINE slot == k[1]
             e    == Vacated(slots[slot + 1])
  <2>1. /\ slot \in 0 .. Len(slots) - 1 /\ slot + 1 \in DOMAIN slots
        /\ slots[slot + 1].generation = k[2]
    BY <1>4, LookupFinds DEF Inv, Occupied
  <2>2. slots' = [slots EXCEPT ![slot + 1] = e] /\ k[2] < MaxGeneration
    BY <1>4 DEF Remove
  <2>3. e \in Slot /\ e.value = None /\ e.generation = k[2] + 1
    BY <2>1, <2>2, KeyFacts, BoundAssumption DEF Vacated, Slot
  <2>4. /\ Len(slots') = Len(slots)
        /\ slots'[slot + 1] = e
        /\ \A m \in DOMAIN slots : m # slot + 1 => slots'[m] = slots[m]
    BY <2>1, <2>2, <2>3, SlotUpdate DEF Inv
  <2> HIDE DEF e
  <2>5. ASSUME NEW j \in Key
        PROVE  /\ Lookup(j)' = IF j = k THEN None ELSE Lookup(j)
               /\ j[1] < Len(slots) =>
                   ((j[2] < slots[j[1] + 1].generation \/ Lookup(j) # None) <=>
                    (j[2] < slots'[j[1] + 1].generation \/ Lookup(j)' # None))
    <3>1. /\ j = <<j[1], j[2]>> /\ k = <<k[1], k[2]>>
          /\ j[1] \in Nat /\ j[2] \in Nat /\ k[1] \in Nat /\ k[2] \in Nat
      BY KeyFacts, BoundAssumption
    <3>2. CASE j[1] = slot
      <4>1. Lookup(j)' = None
        BY <2>3, <2>4, <3>2 DEF Lookup, Current
      <4>2. j # k => Lookup(j) = None /\ j[2] # k[2]
        BY <2>1, <3>1, <3>2 DEF Lookup, Current
      <4>3. j[2] < k[2] + 1 <=> j[2] < k[2] \/ j[2] = k[2]
        BY <3>1
      <4>4. j[2] = k[2] <=> j = k
        BY <3>1, <3>2
      <4> QED
        BY <1>4, <2>1, <2>3, <2>4, <3>2, <4>1, <4>2, <4>3, <4>4
    <3>3. CASE j[1] # slot
      <4>1. j[1] + 1 # slot + 1 /\ j # k
        BY <3>1, <3>3
      <4>2. j[1] < Len(slots) => j[1] + 1 \in DOMAIN slots
        BY <3>1, SlotFacts DEF Inv
      <4>3. j[1] < Len(slots) => slots'[j[1] + 1] = slots[j[1] + 1]
        BY <2>4, <4>1, <4>2
      <4> QED
        BY <2>4, <4>1, <4>3 DEF Lookup, Current
    <3> QED
      BY <3>2, <3>3
  <2>6. Issued' = Issued
    BY <2>4, <2>5, SameIssued DEF Inv
  <2>7. LiveKeys' = LiveKeys \ {k}
    BY <2>5, ViewByLookup, NextViewByLookup DEF Inv, LiveView
  <2>8. LiveKeys \subseteq Key
    BY ViewByLookup DEF Inv, LiveView
  <2>9. Live' = [j \in LiveKeys \ {k} |-> Lookup(j)]
    BY <2>5, <2>7, <2>8, NextViewByLookup DEF Inv, LiveView
  <2>10. Live' = [j \in DOMAIN Live \ {k} |-> Live[j]]
    BY <1>2, <2>9
  <2> QED
    BY <1>1, <2>6, <2>10 DEF Store!Remove
<1> QED
  BY <1>3, <1>4

\* Clearing leaves no key a lookup could find a value under.
LEMMA ClearMaps ==
  ASSUME Inv, Inv', Clear
  PROVE  Store!Clear
<1>1. /\ slots' = [m \in DOMAIN slots |->
                     IF m - 1 \in Occupied THEN Vacated(slots[m]) ELSE slots[m]]
      /\ ret' = None
  BY DEF Clear
<1>2. Len(slots') = Len(slots) /\ Len(slots) \in Nat
  BY <1>1 DEF Inv, TypeOK
<1>3. ASSUME NEW i \in 0 .. Len(slots) - 1
      PROVE  /\ slots'[i + 1].value = None
             /\ slots'[i + 1].generation =
                   IF i \in Occupied THEN slots[i + 1].generation + 1
                                     ELSE slots[i + 1].generation
             /\ slots[i + 1].generation \in Nat
             /\ i \in Occupied <=> slots[i + 1].value # None
  <2>1. /\ i + 1 \in DOMAIN slots /\ (i + 1) - 1 = i
        /\ slots[i + 1].generation \in Nat
    BY SlotFacts, BoundAssumption DEF Inv
  <2>2. i \in Occupied <=> slots[i + 1].value # None
    BY DEF Occupied
  <2>3. slots'[i + 1] = IF i \in Occupied THEN Vacated(slots[i + 1]) ELSE slots[i + 1]
    BY <1>1, <2>1
  <2> QED
    BY <2>1, <2>2, <2>3 DEF Vacated
<1>4. ASSUME NEW j \in Key
      PROVE  /\ Lookup(j)' = None
             /\ j[1] < Len(slots) =>
                 ((j[2] < slots[j[1] + 1].generation \/ Lookup(j) # None) <=>
                  (j[2] < slots'[j[1] + 1].generation \/ Lookup(j)' # None))
  <2>1. j[1] \in Nat /\ j[2] \in Nat
    BY KeyFacts, BoundAssumption
  <2>2. j[1] < Len(slots) => j[1] \in 0 .. Len(slots) - 1
    BY <1>2, <2>1
  <2>3. Lookup(j)' = None
    BY <1>2, <1>3, <2>2 DEF Lookup, Current
  <2>4. ASSUME j[1] < Len(slots)
        PROVE  (j[2] < slots[j[1] + 1].generation \/ Lookup(j) # None) <=>
               (j[2] < slots'[j[1] + 1].generation)
    <3>1. Lookup(j) # None <=> j[1] \in Occupied /\ j[2] = slots[j[1] + 1].generation
      BY <1>3, <2>2, <2>4 DEF Lookup, Current
    <3> DEFINE g == slots[j[1] + 1].generation
    <3>2. g \in Nat /\ (j[2] < g + 1 <=> j[2] < g \/ j[2] = g)
      <4>1. g \in Nat
        BY <1>3, <2>2, <2>4
      <4> HIDE DEF g
      <4> QED
        BY <2>1, <4>1
    <3>3. slots'[j[1] + 1].generation = IF j[1] \in Occupied THEN g + 1 ELSE g
      BY <1>3, <2>2, <2>4
    <3> HIDE DEF g
    <3>4. (j[2] < g \/ Lookup(j) # None) <=> j[2] < slots'[j[1] + 1].generation
      BY <3>1, <3>2, <3>3 DEF g
    <3> QED
      BY <3>4 DEF g
  <2> QED
    BY <2>3, <2>4
<1>5. Issued' = Issued
  BY <1>2, <1>4, SameIssued DEF Inv
<1>6. LiveKeys' = {}
  BY <1>4, NextViewByLookup DEF Inv, LiveView
<1>7. Live' = [k \in {} |-> None]
  BY <1>6, NextViewByLookup DEF Inv, LiveView
<1> QED
  BY <1>1, <1>5, <1>7 DEF Store!Clear

LEMMA GetMutMaps ==
  ASSUME Inv, Inv', NEW k \in Key, NEW v \in Value, GetMut(k, v)
  PROVE  Store!Assign(k, v)
<1>1. ret' = Store!Lookup(k)
  BY StoreLookup DEF GetMut, Inv
<1>2. DOMAIN Live = LiveKeys /\ \A j \in LiveKeys : Live[j] = Lookup(j)
  BY ViewByLookup DEF Inv, LiveView
<1>3. CASE Lookup(k) = None
  <2>1. slots' = slots /\ k \notin LiveKeys
    BY <1>3, ViewByLookup DEF GetMut, Inv, LiveView
  <2>2. Live' = Live /\ Issued' = Issued
    BY <2>1 DEF Live, LiveKeys, Occupied, Issued
  <2>3. Live = [j \in DOMAIN Live |-> IF j = k THEN v ELSE Live[j]]
    BY <1>2, <2>1, ViewByLookup DEF Inv, LiveView
  <2> QED
    BY <1>1, <2>2, <2>3 DEF Store!Assign
<1>4. CASE Lookup(k) # None
  <2> DEFINE slot == k[1]
             e    == [slots[slot + 1] EXCEPT !.value = v]
  <2>1. /\ slot \in 0 .. Len(slots) - 1 /\ slot + 1 \in DOMAIN slots
        /\ slots[slot + 1].generation = k[2]
        /\ k[1] < Len(slots)
    BY <1>4, LookupFinds, SlotFacts DEF Inv, Occupied
  <2>2. slots[slot + 1] \in Slot
    BY <2>1 DEF Inv, TypeOK
  <2>3. e \in Slot /\ e.value = v /\ e.generation = k[2]
    BY <2>1, <2>2 DEF Slot
  <2>4. slots' = [slots EXCEPT ![slot + 1] = e]
    BY <1>4 DEF GetMut
  <2> HIDE DEF e
  <2>5. /\ Len(slots') = Len(slots)
        /\ slots'[slot + 1] = e
        /\ \A m \in DOMAIN slots : m # slot + 1 => slots'[m] = slots[m]
    BY <2>1, <2>3, <2>4, SlotUpdate DEF Inv
  <2>6. ASSUME NEW j \in Key
        PROVE  /\ Lookup(j)' = IF j = k THEN v ELSE Lookup(j)
               /\ j[1] < Len(slots) =>
                    slots'[j[1] + 1].generation = slots[j[1] + 1].generation
    <3>1. j = <<j[1], j[2]>> /\ k = <<k[1], k[2]>> /\ j[1] \in Nat /\ k[1] \in Nat
      BY KeyFacts, BoundAssumption
    <3>2. CASE j[1] = slot
      <4>1. j = k <=> j[2] = k[2]
        BY <3>1, <3>2
      <4> QED
        BY <2>1, <2>3, <2>5, <3>2, <4>1 DEF Lookup, Current
    <3>3. CASE j[1] # slot
      <4>1. j[1] + 1 # slot + 1 /\ j # k
        BY <3>1, <3>3
      <4>2. j[1] < Len(slots) => j[1] + 1 \in DOMAIN slots
        BY <3>1, SlotFacts DEF Inv
      <4>3. j[1] < Len(slots) => slots'[j[1] + 1] = slots[j[1] + 1]
        BY <2>5, <4>1, <4>2
      <4> QED
        BY <2>5, <4>1, <4>3 DEF Lookup, Current
    <3> QED
      BY <3>2, <3>3
  <2>7. Issued' = Issued
    BY <1>4, <2>5, <2>6, SameIssued, ValueAssumption DEF Inv
  <2>8. LiveKeys' = LiveKeys /\ LiveKeys \subseteq Key
    BY <1>4, <2>6, ViewByLookup, NextViewByLookup, ValueAssumption DEF Inv, LiveView
  <2>9. Live' = [j \in LiveKeys |-> IF j = k THEN v ELSE Lookup(j)]
    BY <2>6, <2>8, NextViewByLookup DEF Inv, LiveView
  <2>10. Live' = [j \in DOMAIN Live |-> IF j = k THEN v ELSE Live[j]]
    BY <1>2, <2>9
  <2> QED
    BY <1>1, <2>7, <2>10 DEF Store!Assign
<1> QED
  BY <1>3, <1>4

LEMMA InitMaps == Init => Store!Init
<1> SUFFICES ASSUME Init PROVE Store!Init
  OBVIOUS
<1>1. slots = <<>> /\ ret = None
  BY DEF Init
<1>2. Occupied = {} /\ LiveKeys = {}
  BY <1>1 DEF Occupied, LiveKeys
<1>3. Issued = {}
  BY <1>1, <1>2, BoundAssumption DEF Issued, Key
<1>4. Live = [k \in {} |-> None]
  BY <1>2 DEF Live
<1> QED
  BY <1>1, <1>3, <1>4 DEF Store!Init

LEMMA StepMaps == Inv /\ Inv' /\ [Next]_vars => [Store!Next]_(Store!vars)
<1> SUFFICES ASSUME Inv, Inv', [Next]_vars
             PROVE  Store!Next \/ UNCHANGED Store!vars
  OBVIOUS
<1>1. ASSUME NEW v \in Value, Insert(v) PROVE Store!Insert(v)
  BY <1>1, InsertReuseMaps, InsertGrowMaps DEF Insert
<1>2. ASSUME NEW k \in Key, Remove(k) PROVE Store!Remove(k)
  BY <1>2, RemoveMaps
<1>3. ASSUME NEW k \in Key, Get(k) PROVE Store!Get(k)
  <2>1. ret' = Store!Lookup(k) /\ slots' = slots
    BY <1>3, StoreLookup DEF Get, Inv
  <2> QED
    BY <2>1 DEF Store!Get, Live, LiveKeys, Occupied, Issued
<1>4. ASSUME NEW k \in Key, NEW v \in Value, GetMut(k, v) PROVE Store!Assign(k, v)
  BY <1>4, GetMutMaps
<1>5. CASE Clear
  BY <1>5, ClearMaps DEF Store!Next
<1>6. CASE UNCHANGED vars
  BY <1>6 DEF vars, Store!vars, Live, LiveKeys, Occupied, Issued
<1> QED
  BY <1>1, <1>2, <1>3, <1>4, <1>5, <1>6 DEF Next, Store!Next

\* Every behaviour of the slot map is, through its live and issued keys, a
\* behaviour of the keyed store, with the same return values.
THEOREM SlotMapImplementsStore == Spec => ImplementsStore
<1>1. Inv /\ [Next]_vars => Inv'
  BY StepInv
<1> QED
  BY InitInv, InitMaps, StepMaps, <1>1, PTL DEF Spec, ImplementsStore, Store!Spec

\* A key that was issued and reaches no value any more never reaches one
\* again, whatever is inserted, removed or cleared afterwards.
THEOREM DeadKeysTheorem == Spec => DeadKeysStayDead
<1> DEFINE Dead == Issued \ LiveKeys
<1>1. DOMAIN Live = LiveKeys
  BY DEF Live
<1>2. (DOMAIN Live = LiveKeys)'
  BY <1>1, PTL
<1>3. [Store!Next]_(Store!vars) => Dead \subseteq Dead'
  <2> SUFFICES ASSUME [Store!Next]_(Store!vars) PROVE Dead \subseteq Dead'
    OBVIOUS
  <2>1. ASSUME NEW v \in Value, Store!Insert(v) PROVE Dead \subseteq Dead'
    BY <1>1, <1>2, <2>1 DEF Store!Insert
  <2>2. ASSUME NEW k \in Key, Store!Remove(k) \/ Store!Get(k)
        PROVE  Dead \subseteq Dead'
    BY <1>1, <1>2, <2>2 DEF Store!Remove, Store!Get
  <2>3. ASSUME NEW k \in Key, NEW v \in Value, Store!Assign(k, v)
        PROVE  Dead \subseteq Dead'
    BY <1>1, <1>2, <2>3 DEF Store!Assign
  <2>4. CASE Store!Clear
    BY <1>1, <1>2, <2>4 DEF Store!Clear
  <2>5. CASE UNCHANGED Store!vars
    BY <1>1, <1>2, <2>5 DEF Store!vars
  <2> QED
    BY <2>1, <2>2, <2>3, <2>4, <2>5 DEF Store!Next
<1>4. Inv /\ Inv' /\ [Next]_vars =>
        [Issued \ LiveKeys \subseteq Issued' \ LiveKeys']_vars
  BY <1>3, StepMaps
<1> QED
  BY <1>4, SlotMapInvariant, PTL DEF Spec, DeadKeysStayDead
=============================================================================
