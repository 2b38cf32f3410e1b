------------------------------ MODULE LinkProofs ------------------------------
(***************************************************************************)
(* Linked code reads as compiled, whatever the program and its addresses,  *)
(* the width of numbers and of their groups, and the rounds of shrinking.  *)
(***************************************************************************)
EXTENDS Link, FiniteSetTheorems, SequenceTheorems, WellFoundedInduction, TLAPS

-----------------------------------------------------------------------------
(* Numbers.                                                                *)

\* A set of numbers that is not empty has a least member.
LEMMA LeastMember ==
  ASSUME NEW R \in SUBSET Nat, R # {}
  PROVE  /\ LeastOf(R) \in R
         /\ \A m \in R : LeastOf(R) <= m
<1>1. PICK n \in R : \A m \in R : ~ (<<m, n>> \in OpToRel(<, Nat))
  BY NatLessThanWellFounded, WFMin
<1>2. \A m \in R : m \in Nat /\ n \in Nat /\ ~ (m < n)
  BY <1>1 DEF OpToRel
<1>3. \E x \in R : \A m \in R : x <= m
  BY <1>2
<1> QED
  BY <1>3 DEF LeastOf

\* Induction over the numbers, for a set.
LEMMA Induction ==
  ASSUME NEW S, 0 \in S, \A n \in Nat : n \in S => n + 1 \in S
  PROVE  Nat \subseteq S
<1> SUFFICES ASSUME Nat \ S # {} PROVE FALSE
  OBVIOUS
<1> DEFINE l == LeastOf(Nat \ S)
<1>1. l \in Nat \ S /\ \A m \in Nat \ S : l <= m
  BY LeastMember
<1> HIDE DEF l
<1>2. l - 1 \in Nat /\ (l - 1) + 1 = l /\ ~ (l <= l - 1)
  BY <1>1
<1> QED
  BY <1>1, <1>2

\* A set of n + 1 elements has twice as many subsets as one of n.
LEMMA PowerStep ==
  ASSUME NEW n \in Nat
  PROVE  2 ^ n \in Nat /\ 2 ^ (n + 1) = 2 * 2 ^ n
<1> DEFINE A == SUBSET (1 .. n)
           B == {s \cup {n + 1} : s \in A}
           f == [s \in A |-> s \cup {n + 1}]
           T == 1 .. n + 1
<1>1. /\ IsFiniteSet(1 .. n) /\ Cardinality(1 .. n) = n
      /\ IsFiniteSet(T) /\ Cardinality(T) = n + 1
  <2>1. 1 \in Int /\ n \in Int /\ n + 1 \in Int
    OBVIOUS
  <2>2. /\ IsFiniteSet(1 .. n) /\ Cardinality(1 .. n) = IF 1 > n THEN 0 ELSE n - 1 + 1
        /\ IsFiniteSet(T) /\ Cardinality(T) = IF 1 > n + 1 THEN 0 ELSE (n + 1) - 1 + 1
    BY <2>1, FS_Interval
  <2>3. (IF 1 > n THEN 0 ELSE n - 1 + 1) = n /\ (IF 1 > n + 1 THEN 0 ELSE (n + 1) - 1 + 1) = n + 1
    OBVIOUS
  <2> QED
    BY <2>2, <2>3
<1>2. /\ IsFiniteSet(A) /\ Cardinality(A) = 2 ^ n
      /\ IsFiniteSet(SUBSET T) /\ Cardinality(SUBSET T) = 2 ^ (n + 1)
  <2>1. IsFiniteSet(A) /\ Cardinality(A) = 2 ^ Cardinality(1 .. n)
    BY <1>1, FS_SUBSET
  <2>2. IsFiniteSet(SUBSET T) /\ Cardinality(SUBSET T) = 2 ^ Cardinality(T)
    BY <1>1, FS_SUBSET
  <2> QED
    BY <1>1, <2>1, <2>2
<1>3. \A s \in A : n + 1 \notin s
  OBVIOUS
<1>4. A \cup B = SUBSET T /\ A \cap B = {}
  <2>1. ASSUME NEW s \in SUBSET T, n + 1 \in s PROVE s \in B
    <3>1. s \ {n + 1} \in A /\ s = (s \ {n + 1}) \cup {n + 1}
      BY <2>1
    <3> HIDE DEF A
    <3> QED
      BY <3>1
  <2>2. \A s \in SUBSET T : n + 1 \notin s => s \in A
    OBVIOUS
  <2>3. \A s \in A : s \in SUBSET T /\ s \cup {n + 1} \in SUBSET T
    OBVIOUS
  <2> HIDE DEF A, T
  <2>4. \A s \in B : s \in SUBSET T /\ n + 1 \in s
    BY <2>3
  <2> HIDE DEF B
  <2>5. A \cup B \subseteq SUBSET T
    BY <2>3, <2>4
  <2>6. SUBSET T \subseteq A \cup B
    BY <2>1, <2>2
  <2> QED
    BY <1>3, <2>4, <2>5, <2>6
<1>5. f \in Bijection(A, B)
  <2> HIDE DEF A
  <2>1. \A s \in A : (s \cup {n + 1}) \ {n + 1} = s
    BY <1>3
  <2>2. \A s, t \in A : f[s] = f[t] => s = t
    BY <2>1
  <2>3. f \in [A -> B] /\ \A t \in B : \E s \in A : f[s] = t
    OBVIOUS
  <2> QED
    BY <2>2, <2>3 DEF Bijection, Injection, Surjection, IsInjective
<1>6. IsFiniteSet(B) /\ Cardinality(B) = Cardinality(A)
  BY <1>2, <1>5, FS_Bijection DEF ExistsBijection
<1>7. Cardinality(A \cup B) = Cardinality(A) + Cardinality(B) - Cardinality(A \cap B)
  BY <1>2, <1>6, FS_Union
<1>8. Cardinality(A) \in Nat /\ Cardinality(A \cap B) = 0
  BY <1>2, <1>4, FS_CardinalityType, FS_EmptySet
<1> HIDE DEF A, B
<1> QED
  BY <1>2, <1>4, <1>6, <1>7, <1>8

\* The powers of two.
LEMMA Powers ==
  /\ 2 ^ 0 = 1
  /\ \A n \in Nat : 2 ^ n \in Nat /\ 2 ^ n >= 1 /\ 2 ^ (n + 1) = 2 * 2 ^ n
  /\ \A m, n \in Nat : 2 ^ (m + n) = 2 ^ m * 2 ^ n
  /\ \A m, n \in Nat : m <= n => 2 ^ m <= 2 ^ n
<1>1. 2 ^ 0 = 1
  OBVIOUS
<1>2. \A n \in Nat : 2 ^ n \in Nat /\ 2 ^ (n + 1) = 2 * 2 ^ n
  BY PowerStep
<1>3. \A n \in Nat : 2 ^ n >= 1
  <2> DEFINE S == {n \in Nat : 2 ^ n >= 1}
  <2>1. 0 \in S
    BY <1>1
  <2>2. \A n \in Nat : n \in S => n + 1 \in S
    BY <1>2
  <2> HIDE DEF S
  <2>3. Nat \subseteq S
    BY <2>1, <2>2, Induction
  <2> QED
    BY <2>3 DEF S
<1>4. ASSUME NEW m \in Nat
      PROVE  \A n \in Nat : 2 ^ (m + n) = 2 ^ m * 2 ^ n
  <2> DEFINE S == {n \in Nat : 2 ^ (m + n) = 2 ^ m * 2 ^ n}
  <2>1. 0 \in S
    <3>1. m + 0 = m /\ 2 ^ m * 1 = 2 ^ m
      BY <1>2
    <3> QED
      BY <1>1, <3>1
  <2>2. ASSUME NEW n \in Nat, n \in S PROVE n + 1 \in S
    <3>1. m + (n + 1) = (m + n) + 1 /\ m + n \in Nat
      OBVIOUS
    <3>2. 2 ^ (m + (n + 1)) = 2 * 2 ^ (m + n)
      BY <1>2, <3>1
    <3>3. 2 ^ (m + (n + 1)) = 2 * (2 ^ m * 2 ^ n)
      BY <2>2, <3>2
    <3>4. \A a, b \in Nat : 2 * (a * b) = a * (2 * b)
      OBVIOUS
    <3>5. 2 ^ (m + (n + 1)) = 2 ^ m * (2 * 2 ^ n)
      BY <1>2, <3>3, <3>4
    <3>6. 2 ^ (m + (n + 1)) = 2 ^ m * 2 ^ (n + 1)
      BY <1>2, <3>5
    <3> QED
      BY <3>6
  <2> HIDE DEF S
  <2>3. Nat \subseteq S
    BY <2>1, <2>2, Induction
  <2> QED
    BY <2>3 DEF S
<1>5. ASSUME NEW m \in Nat, NEW n \in Nat, m <= n
      PROVE  2 ^ m <= 2 ^ n
  <2>1. n - m \in Nat /\ m + (n - m) = n
    BY <1>5
  <2>2. 2 ^ n = 2 ^ m * 2 ^ (n - m)
    BY <1>4, <2>1
  <2>3. \A a, b \in Nat : b >= 1 => a <= a * b
    OBVIOUS
  <2> QED
    BY <1>2, <1>3, <2>1, <2>2, <2>3
<1> QED
  BY <1>1, <1>2, <1>3, <1>4, <1>5

\* Division with a remainder, and what determines it.
LEMMA Division ==
  ASSUME NEW v \in Nat, NEW b \in Nat \ {0}
  PROVE  /\ v \div b \in Nat /\ v % b \in 0 .. b - 1
         /\ v = b * (v \div b) + (v % b)
OBVIOUS

LEMMA DivisionIs ==
  ASSUME NEW v \in Int, NEW b \in Nat \ {0}, NEW q \in Int, NEW r \in 0 .. b - 1, v = b * q + r
  PROVE  v \div b = q /\ v % b = r
<1> DEFINE p == v \div b
           s == v % b
<1>1. p \in Int /\ s \in 0 .. b - 1 /\ v = b * p + s
  OBVIOUS
<1> HIDE DEF p, s
<1>2. \A x, y \in Int : x < y => b * x + b <= b * y
  <2>1. ASSUME NEW x \in Int, NEW y \in Int, x < y PROVE b * x + b <= b * y
    <3>1. y - (x + 1) \in Nat /\ y = (x + 1) + (y - (x + 1))
      BY <2>1
    <3>2. b * y = (b * x + b) + b * (y - (x + 1))
      BY <3>1
    <3>3. b * (y - (x + 1)) \in Nat /\ b * x \in Int
      BY <3>1
    <3> QED
      BY <3>2, <3>3
  <2> QED
    BY <2>1
<1>3. b * p \in Int /\ b * q \in Int
  BY <1>1
<1>4. ~ (p < q) /\ ~ (q < p)
  BY <1>1, <1>2, <1>3
<1>5. p = q
  BY <1>1, <1>4
<1>6. s = r
  BY <1>1, <1>3, <1>5
<1> QED
  BY <1>5, <1>6 DEF p, s

\* Dividing twice, and numbers that are smaller than a product.
LEMMA DividedTwice ==
  ASSUME NEW v \in Nat, NEW a \in Nat \ {0}, NEW b \in Nat \ {0}
  PROVE  /\ a * b \in Nat \ {0}
         /\ (v \div a) \div b = v \div (a * b)
<1> DEFINE x == v \div a
           r == v % a
           y == x \div b
           s == x % b
<1>1. x \in Nat /\ r \in 0 .. a - 1 /\ v = a * x + r
  BY Division
<1> HIDE DEF x, r
<1>2. y \in Nat /\ s \in 0 .. b - 1 /\ x = b * y + s
  BY <1>1, Division
<1> HIDE DEF y, s
<1>3. a * b \in Nat \ {0}
  OBVIOUS
<1>4. v = (a * b) * y + (a * s + r)
  BY <1>1, <1>2
<1>5. a * s + r \in 0 .. (a * b) - 1
  <2>1. a * s \in Nat /\ a * s + a <= a * b
    <3>1. b - (s + 1) \in Nat /\ b = (s + 1) + (b - (s + 1))
      BY <1>2
    <3>2. a * b = (a * s + a) + a * (b - (s + 1))
      BY <1>2, <3>1
    <3>3. a * (b - (s + 1)) \in Nat /\ a * s \in Nat
      BY <1>2, <3>1
    <3> QED
      BY <3>2, <3>3
  <2> QED
    BY <1>1, <1>3, <2>1
<1>6. v \div (a * b) = y
  BY <1>2, <1>3, <1>4, <1>5, DivisionIs
<1> QED
  BY <1>3, <1>6 DEF x, y

LEMMA DivisionBound ==
  ASSUME NEW v \in Nat, NEW a \in Nat \ {0}, NEW b \in Nat, v < a * b
  PROVE  v \div a < b
<1> DEFINE x == v \div a
           r == v % a
<1>1. x \in Nat /\ r \in 0 .. a - 1 /\ v = a * x + r
  BY Division
<1> HIDE DEF x, r
<1>2. ASSUME b <= x PROVE FALSE
  <2>1. x - b \in Nat /\ x = b + (x - b)
    BY <1>1, <1>2
  <2>2. a * x = a * b + a * (x - b)
    BY <2>1
  <2>3. a * (x - b) \in Nat /\ a * b \in Nat
    BY <2>1
  <2> QED
    BY <1>1, <2>2, <2>3
<1> QED
  BY <1>1, <1>2 DEF x

\* A group with its flag, and without.
LEMMA Groups ==
  ASSUME NEW b \in Nat \ {0}, NEW r \in 0 .. b - 1
  PROVE  /\ (r + b) % b = r /\ r % b = r /\ r % (2 * b) = r
<1>1. /\ r + b \in Nat /\ r + b = b * 1 + r /\ r = b * 0 + r /\ r = (2 * b) * 0 + r
      /\ 2 * b \in Nat \ {0} /\ r \in 0 .. (2 * b) - 1 /\ r \in Nat
  OBVIOUS
<1> QED
  BY <1>1, DivisionIs

-----------------------------------------------------------------------------
(* Variable-width integers.                                                *)

\* What is left of a number after some groups.
Rest(val, j) == val \div 2 ^ (GroupBits * j)

\* val is in the data, in the given number of bytes from a position on.
Stored(data, start, val, blocks) ==
  /\ val \in 0 .. Word - 1
  /\ blocks \in Nat \ {0} /\ Blocks(val) <= blocks
  /\ start \in Nat /\ start + blocks <= Len(data)
  /\ \A k \in 1 .. blocks : data[start + k] = EncodeIn(val, blocks)[k]

LEMMA Widths ==
  /\ GroupBits \in Nat \ {0} /\ WordBits \in Nat \ {0} /\ IntBits \in Nat \ {0}
  /\ MaxBlocks \in Nat \ {0} /\ WordBits <= GroupBits * MaxBlocks
  /\ Base \in Nat \ {0} /\ Base >= 2
  /\ Word \in Nat \ {0} /\ Half \in Nat \ {0} /\ 4 * Half <= Word
  /\ \E n \in Nat : Word = 2 * n
<1>1. /\ GroupBits \in Nat \ {0} /\ IntBits \in Nat \ {0}
      /\ WordBits \in Nat /\ WordBits > IntBits /\ WordBits >= GroupBits
      /\ MaxBlocks = (WordBits + GroupBits - 1) \div GroupBits
  BY WidthAssumption
<1>2. MaxBlocks \in Nat \ {0} /\ WordBits <= GroupBits * MaxBlocks
  <2> DEFINE s == WordBits + GroupBits - 1
             r == s % GroupBits
  <2>1. s \in Nat
    BY <1>1
  <2>2. MaxBlocks \in Nat /\ r \in 0 .. GroupBits - 1 /\ s = GroupBits * MaxBlocks + r
    BY <1>1, <2>1, Division
  <2>3. GroupBits * MaxBlocks \in Nat
    BY <1>1, <2>2
  <2> HIDE DEF r
  <2>4. WordBits <= GroupBits * MaxBlocks
    BY <1>1, <2>2, <2>3
  <2>5. MaxBlocks # 0
    BY <1>1, <2>4
  <2> QED
    BY <2>2, <2>4, <2>5
<1>3. Base \in Nat \ {0} /\ Base >= 2
  <2>1. 2 ^ 1 = 2 /\ 2 ^ 1 <= 2 ^ GroupBits /\ 2 ^ GroupBits \in Nat
    BY <1>1, Powers
  <2> QED
    BY <2>1 DEF Base
<1>4. /\ Word \in Nat \ {0} /\ Half \in Nat \ {0} /\ 4 * Half <= Word
      /\ \E n \in Nat : Word = 2 * n
  <2>1. IntBits - 1 \in Nat /\ WordBits - 1 \in Nat /\ (WordBits - 1) + 1 = WordBits
        /\ (IntBits - 1) + 1 = IntBits /\ IntBits <= WordBits - 1
    BY <1>1
  <2>2. /\ 2 ^ (IntBits - 1) \in Nat /\ 2 ^ (IntBits - 1) >= 1
        /\ 2 ^ IntBits = 2 * 2 ^ (IntBits - 1)
        /\ 2 ^ (WordBits - 1) \in Nat /\ 2 ^ IntBits <= 2 ^ (WordBits - 1)
        /\ 2 ^ WordBits = 2 * 2 ^ (WordBits - 1)
    BY <1>1, <2>1, Powers
  <2> QED
    BY <2>2 DEF Word, Half
<1> QED
  BY <1>1, <1>2, <1>3, <1>4

\* The bits of a number suffice, and no fewer do.
LEMMA BitsAre ==
  ASSUME NEW val \in 0 .. Word - 1
  PROVE  /\ Bits(val) \in 0 .. WordBits /\ val < 2 ^ Bits(val)
         /\ \A n \in 0 .. WordBits : val < 2 ^ n => Bits(val) <= n
         /\ val # 0 => Bits(val) >= 1
<1> DEFINE S == {n \in 0 .. WordBits : val < 2 ^ n}
<1>1. S \in SUBSET Nat
  BY Widths
<1>2. WordBits \in S
  BY Widths DEF Word
<1>3. Bits(val) \in S /\ \A n \in S : Bits(val) <= n
  BY <1>1, <1>2, LeastMember DEF Bits
<1>4. val # 0 => Bits(val) # 0
  BY <1>3, Powers
<1> QED
  BY <1>3, <1>4, Widths

\* The bytes of a number are enough for it, at most as many as any number has, and no
\* more than a greater number has.
LEMMA BlocksAre ==
  ASSUME NEW val \in 0 .. Word - 1
  PROVE  /\ Blocks(val) \in 1 .. MaxBlocks
         /\ \A b \in Nat : Blocks(val) <= b => val < 2 ^ (GroupBits * b)
<1> DEFINE g == GroupBits
           bits == Bits(val)
<1>1. bits \in 0 .. WordBits /\ val < 2 ^ bits /\ (val # 0 => bits >= 1)
  BY BitsAre
<1>2. g \in Nat \ {0} /\ WordBits \in Nat
  BY Widths
<1>3. CASE val = 0
  <2>1. Blocks(val) = 1
    BY <1>3 DEF Blocks
  <2>2. ASSUME NEW b \in Nat PROVE val < 2 ^ (g * b)
    <3>1. g * b \in Nat
      BY <1>2
    <3> QED
      BY <1>3, <3>1, Powers
  <2> QED
    BY <2>1, <2>2, Widths
<1>4. CASE val # 0
  <2> DEFINE s == bits + g - 1
             c == s \div g
             r == s % g
             t == WordBits + g - 1
  <2>1. Blocks(val) = c
    BY <1>4 DEF Blocks
  <2> HIDE DEF bits
  <2>2. s \in Nat /\ t \in Nat /\ s <= t /\ s >= g
    BY <1>1, <1>2, <1>4
  <2>3. c \in Nat /\ r \in 0 .. g - 1 /\ s = g * c + r
    BY <1>2, <2>2, Division
  <2>4. MaxBlocks = t \div g
    BY WidthAssumption
  <2>5. MaxBlocks \in Nat /\ t % g \in 0 .. g - 1 /\ t = g * MaxBlocks + (t % g)
    BY <1>2, <2>2, <2>4, Division
  <2> HIDE DEF c, r, s, t, g
  <2>6. g * c \in Nat /\ g * MaxBlocks \in Nat
    BY <1>2, <2>3, <2>5
  <2>7. c # 0
    BY <1>2, <2>2, <2>3
  <2>8. c <= MaxBlocks
    <3>1. SUFFICES ASSUME MaxBlocks < c PROVE FALSE
      BY <2>3, <2>5
    <3>2. c - (MaxBlocks + 1) \in Nat /\ c = (MaxBlocks + 1) + (c - (MaxBlocks + 1))
      BY <2>3, <2>5, <3>1
    <3>3. g * c = (g * MaxBlocks + g) + g * (c - (MaxBlocks + 1))
      BY <1>2, <2>5, <3>2
    <3>4. g * (c - (MaxBlocks + 1)) \in Nat
      BY <1>2, <3>2
    <3> QED
      BY <1>2, <2>2, <2>3, <2>5, <2>6, <3>3, <3>4
  <2>9. ASSUME NEW b \in Nat, c <= b PROVE val < 2 ^ (g * b)
    <3>1. b - c \in Nat /\ b = c + (b - c)
      BY <2>3, <2>9
    <3>2. g * b = g * c + g * (b - c) /\ g * (b - c) \in Nat
      BY <1>2, <2>3, <3>1
    <3>3. bits <= g * b /\ g * b \in Nat /\ bits \in Nat
      <4>1. bits <= g * c
        BY <1>1, <1>2, <2>3, <2>6 DEF s
      <4> QED
        BY <1>1, <1>2, <2>6, <3>2, <4>1
    <3>4. 2 ^ bits <= 2 ^ (g * b) /\ 2 ^ bits \in Nat /\ 2 ^ (g * b) \in Nat
      BY <3>3, Powers
    <3>5. val \in Nat
      BY Widths
    <3> QED
      BY <1>1, <3>4, <3>5
  <2> QED
    BY <2>1, <2>3, <2>5, <2>7, <2>8, <2>9 DEF g
<1> QED
  BY <1>3, <1>4

LEMMA BlocksGrow ==
  ASSUME NEW val \in 0 .. Word - 1, NEW less \in 0 .. val
  PROVE  less \in 0 .. Word - 1 /\ Blocks(less) <= Blocks(val)
<1> DEFINE g == GroupBits
<1>1. less \in 0 .. Word - 1 /\ less \in Nat /\ val \in Nat
  BY Widths
<1>2. /\ Blocks(val) \in Nat /\ Blocks(val) >= 1 /\ g \in Nat \ {0} /\ WordBits \in Nat
  BY BlocksAre, Widths
<1>3. CASE less = 0
  BY <1>1, <1>2, <1>3 DEF Blocks
<1>4. CASE less # 0
  <2> DEFINE m == Bits(less)
             n == Bits(val)
  <2>1. /\ m \in 0 .. WordBits /\ \A k \in 0 .. WordBits : less < 2 ^ k => m <= k
        /\ m >= 1
    BY <1>1, <1>4, BitsAre
  <2>2. n \in 0 .. WordBits /\ val < 2 ^ n /\ n >= 1
    BY <1>1, <1>4, BitsAre
  <2>3. m <= n
    <3>1. n \in Nat
      BY <1>2, <2>2
    <3> HIDE DEF n
    <3>3. 2 ^ n \in Nat
      BY <3>1, Powers
    <3>2. less < 2 ^ n
      BY <1>1, <2>2, <3>3
    <3> QED
      BY <2>1, <2>2, <3>2
  <2>4. Blocks(less) = (m + g - 1) \div g /\ Blocks(val) = (n + g - 1) \div g
    BY <1>1, <1>4 DEF Blocks
  <2> HIDE DEF m, n
  <2> DEFINE a == (m + g - 1) \div g
             b == (n + g - 1) \div g
             r == (m + g - 1) % g
             s == (n + g - 1) % g
  <2>5. m + g - 1 \in Nat /\ n + g - 1 \in Nat /\ m + g - 1 <= n + g - 1
    BY <1>2, <2>1, <2>2, <2>3
  <2>6. /\ a \in Nat /\ r \in 0 .. g - 1 /\ m + g - 1 = g * a + r
        /\ b \in Nat /\ s \in 0 .. g - 1 /\ n + g - 1 = g * b + s
    BY <1>2, <2>5, Division
  <2> HIDE DEF a, b, r, s, g
  <2>7. SUFFICES ASSUME b < a PROVE FALSE
    <3>1. b < a \/ a <= b
      BY <2>6
    <3> QED
      BY <1>1, <2>4, <3>1 DEF a, b
  <2>8. a - (b + 1) \in Nat /\ a = (b + 1) + (a - (b + 1))
    BY <2>6, <2>7
  <2>9. g * a = (g * b + g) + g * (a - (b + 1))
    BY <1>2, <2>6, <2>8
  <2>10. g * (a - (b + 1)) \in Nat /\ g * b \in Nat /\ g * a \in Nat
    BY <1>2, <2>6, <2>8
  <2> QED
    BY <1>2, <2>5, <2>6, <2>9, <2>10
<1> QED
  BY <1>1, <1>3, <1>4

\* Each group that is taken divides by Base.
LEMMA RestStep ==
  ASSUME NEW val \in Nat, NEW j \in Nat
  PROVE  /\ Rest(val, 0) = val
         /\ Rest(val, j) \in Nat /\ Rest(val, j) <= val
         /\ Rest(val, j + 1) = Rest(val, j) \div Base
         /\ Rest(val, j) = Base * Rest(val, j + 1) + (Rest(val, j) % Base)
<1> DEFINE p(k) == 2 ^ (GroupBits * k)
<1>1. GroupBits \in Nat \ {0} /\ Base \in Nat \ {0}
  BY Widths
<1>2. \A k \in Nat : GroupBits * k \in Nat
  BY <1>1
<1>3. \A k \in Nat : p(k) \in Nat \ {0}
  <2>1. ASSUME NEW k \in Nat PROVE p(k) \in Nat \ {0}
    <3>1. GroupBits * k \in Nat
      BY <1>2
    <3>2. p(k) \in Nat /\ p(k) >= 1
      BY <3>1, Powers
    <3> QED
      BY <3>2
  <2> QED
    BY <2>1
<1>4. p(0) = 1
  <2>1. GroupBits * 0 = 0
    BY <1>1
  <2> QED
    BY <2>1, Powers
<1>5. p(j + 1) = p(j) * Base
  <2>1. GroupBits * (j + 1) = GroupBits * j + GroupBits
    BY <1>1
  <2> QED
    BY <1>1, <1>2, <2>1, Powers DEF Base
<1> HIDE DEF p
<1>6. Rest(val, 0) = val
  <2>1. Rest(val, 0) = val \div 1
    BY <1>4 DEF Rest, p
  <2>2. val = 1 * val + 0 /\ 0 \in 0 .. 1 - 1 /\ 1 \in Nat \ {0}
    OBVIOUS
  <2> QED
    BY <2>1, <2>2, DivisionIs
<1>7. Rest(val, j) \in Nat /\ Rest(val, j) <= val
  <2> DEFINE q == val \div p(j)
             r == val % p(j)
  <2>1. q \in Nat /\ r \in Nat /\ val = p(j) * q + r
    <3>1. p(j) \in Nat \ {0}
      BY <1>3
    <3>2. \A c \in Nat \ {0} :
            /\ val \div c \in Nat /\ val % c \in 0 .. c - 1
            /\ val = c * (val \div c) + (val % c)
      BY Division
    <3>3. r \in Nat
      <4>1. p(j) - 1 \in Nat /\ r \in 0 .. p(j) - 1
        BY <3>1, <3>2
      <4> QED
        BY <4>1
    <3> QED
      BY <3>1, <3>2, <3>3
  <2>2. q = Rest(val, j)
    BY DEF Rest, p
  <2> HIDE DEF q, r
  <2>3. \A a \in Nat \ {0}, b \in Nat : b <= a * b
    OBVIOUS
  <2>4. q <= p(j) * q /\ p(j) * q \in Nat
    BY <1>3, <2>1, <2>3
  <2> QED
    BY <2>1, <2>2, <2>4
<1>8. Rest(val, j + 1) = Rest(val, j) \div Base
  <2>1. (val \div p(j)) \div Base = val \div (p(j) * Base)
    BY <1>1, <1>3, DividedTwice
  <2> QED
    BY <1>5, <2>1 DEF Rest, p
<1> QED
  BY <1>1, <1>6, <1>7, <1>8, Division

\* In its last byte there is no more than a group left of a number, and nothing
\* behind it.
LEMMA RestEnds ==
  ASSUME NEW val \in 0 .. Word - 1, NEW blocks \in Nat \ {0}, Blocks(val) <= blocks
  PROVE  Rest(val, blocks - 1) \in 0 .. Base - 1 /\ Rest(val, blocks) = 0
<1>1. val \in Nat /\ blocks - 1 \in Nat /\ (blocks - 1) + 1 = blocks /\ Base \in Nat \ {0}
      /\ GroupBits \in Nat \ {0}
  BY Widths
<1>2. val < 2 ^ (GroupBits * blocks)
  BY BlocksAre
<1>3. GroupBits * blocks = GroupBits * (blocks - 1) + GroupBits /\ GroupBits * (blocks - 1) \in Nat
  BY <1>1
<1>4. 2 ^ (GroupBits * blocks) = 2 ^ (GroupBits * (blocks - 1)) * Base
  <2> PICK a, b : a = GroupBits * (blocks - 1) /\ b = GroupBits
    OBVIOUS
  <2>1. a \in Nat /\ b \in Nat /\ GroupBits * blocks = a + b
    BY <1>1, <1>3
  <2>2. 2 ^ (a + b) = 2 ^ a * 2 ^ b
    BY <2>1, Powers
  <2>3. 2 ^ (GroupBits * blocks) = 2 ^ a * 2 ^ b
    BY <2>1, <2>2, Zenon
  <2> QED
    BY <2>3, Zenon DEF Base
<1>5. 2 ^ (GroupBits * (blocks - 1)) \in Nat \ {0}
  <2>1. 2 ^ (GroupBits * (blocks - 1)) \in Nat /\ 2 ^ (GroupBits * (blocks - 1)) >= 1
    BY <1>3, Powers
  <2> QED
    BY <2>1
<1>6. Rest(val, blocks - 1) < Base
  BY <1>1, <1>2, <1>4, <1>5, DivisionBound DEF Rest
<1>7. Rest(val, blocks - 1) \in 0 .. Base - 1
  BY <1>1, <1>6, RestStep
<1>8. Rest(val, blocks) = Rest(val, blocks - 1) \div Base
  BY <1>1, RestStep
<1>9. Rest(val, blocks - 1) = Base * 0 + Rest(val, blocks - 1)
  BY <1>1, <1>7
<1>10. Rest(val, blocks - 1) \div Base = 0
  BY <1>1, <1>7, <1>9, DivisionIs
<1> QED
  BY <1>7, <1>8, <1>10

\* The bytes of a number: groups with a flag, and a last one without.
LEMMA EncodedBytes ==
  ASSUME NEW val \in 0 .. Word - 1, NEW blocks \in Nat \ {0}, Blocks(val) <= blocks
  PROVE  /\ EncodeIn(val, blocks) \in Seq(Nat) /\ Len(EncodeIn(val, blocks)) = blocks
         /\ \A k \in 1 .. blocks :
              /\ EncodeIn(val, blocks)[k] \in Nat
              /\ EncodeIn(val, blocks)[k] % Base = Rest(val, k - 1) % Base
              /\ EncodeIn(val, blocks)[k] < Base <=> k = blocks
<1> DEFINE e == EncodeIn(val, blocks)
<1>1. val \in Nat /\ Base \in Nat \ {0}
  BY Widths
<1>2. \A k \in 1 .. blocks :
        e[k] = IF k < blocks THEN (Rest(val, k - 1) % Base) + Base
                             ELSE Rest(val, k - 1) % (2 * Base)
  BY DEF EncodeIn, Rest
<1>3. e = [k \in 1 .. blocks |-> e[k]]
  BY DEF EncodeIn
<1> HIDE DEF e
<1>4. ASSUME NEW k \in 1 .. blocks
      PROVE  e[k] \in Nat /\ e[k] % Base = Rest(val, k - 1) % Base /\ (e[k] < Base <=> k = blocks)
  <2>1. k - 1 \in Nat
    OBVIOUS
  <2>2. Rest(val, k - 1) \in Nat
    BY <1>1, <2>1, RestStep
  <2>3. CASE k < blocks
    <3> DEFINE r == Rest(val, k - 1) % Base
    <3>1. r \in 0 .. Base - 1
      BY <1>1, <2>2, Division
    <3>2. e[k] = r + Base
      BY <1>2, <2>3
    <3>3. r % Base = r /\ (r + Base) % Base = r
      BY <1>1, <3>1, Groups
    <3>4. r + Base \in Nat /\ ~ (r + Base < Base) /\ k # blocks
      BY <1>1, <2>3, <3>1
    <3> HIDE DEF r
    <3> QED
      BY <3>2, <3>3, <3>4 DEF r
  <2>4. CASE ~ (k < blocks)
    <3> DEFINE r == Rest(val, k - 1)
    <3>1. k = blocks
      BY <2>4
    <3>2. r \in 0 .. Base - 1
      BY <3>1, RestEnds
    <3>3. r % Base = r /\ r % (2 * Base) = r
      BY <1>1, <3>2, Groups
    <3>4. e[k] = r % (2 * Base)
      BY <1>2, <2>4
    <3> HIDE DEF r
    <3>5. e[k] = r /\ r \in Nat /\ r < Base
      BY <1>1, <3>2, <3>3, <3>4
    <3> QED
      BY <3>1, <3>3, <3>5 DEF r
  <2> QED
    BY <2>3, <2>4
<1>5. e \in Seq(Nat) /\ Len(e) = blocks
  BY <1>3, <1>4
<1> QED
  BY <1>4, <1>5 DEF e

\* from in DecodeU64: what the bytes from each position up to aft hold.
Decoding(data, start, aft, f) ==
  f = [p \in start .. aft |->
        IF p = aft THEN 0 ELSE (f[p + 1] * Base + (data[p + 1] % Base)) % Word]

\* A number that is stored is read.
LEMMA StoredIsRead ==
  ASSUME NEW data, NEW start, NEW val, NEW blocks, Len(data) \in Nat, Stored(data, start, val, blocks)
  PROVE  DecodeU64(data, start) = [val |-> val, aft |-> start + blocks]
<1> DEFINE e == EncodeIn(val, blocks)
           aft == start + blocks
           ends == {p \in start + 1 .. Len(data) : data[p] < Base}
<1>1. /\ val \in 0 .. Word - 1 /\ blocks \in Nat \ {0} /\ Blocks(val) <= blocks
      /\ start \in Nat /\ aft <= Len(data) /\ aft \in Nat
      /\ \A k \in 1 .. blocks : data[start + k] = e[k]
  BY DEF Stored
<1>2. \A k \in 1 .. blocks : /\ e[k] \in Nat /\ e[k] % Base = Rest(val, k - 1) % Base
                             /\ e[k] < Base <=> k = blocks
  BY <1>1, EncodedBytes
<1>3. Base \in Nat \ {0} /\ Word \in Nat \ {0} /\ val \in Nat
  BY <1>1, Widths
<1> HIDE DEF e
<1>4. aft \in ends
  <2>1. blocks \in 1 .. blocks /\ aft \in start + 1 .. Len(data)
    BY <1>1
  <2>2. data[aft] = e[blocks] /\ e[blocks] < Base
    BY <1>1, <1>2, <2>1
  <2> QED
    BY <2>1, <2>2
<1>5. ASSUME NEW p \in ends PROVE aft <= p
  <2>1. SUFFICES ASSUME p < aft PROVE FALSE
    BY <1>1
  <2>2. p - start \in 1 .. blocks /\ start + (p - start) = p /\ p - start # blocks
    BY <1>1, <2>1
  <2>3. data[p] = e[p - start] /\ ~ (e[p - start] < Base)
    BY <1>1, <1>2, <2>2
  <2> QED
    BY <2>3
<1>6. LeastOf(ends) = aft
  <2>1. ends \in SUBSET Nat /\ ends # {}
    <3>1. \A p \in start + 1 .. Len(data) : p \in Nat
      BY <1>1
    <3> QED
      BY <1>4, <3>1
  <2>2. LeastOf(ends) \in ends /\ \A m \in ends : LeastOf(ends) <= m
    BY <2>1, LeastMember
  <2>3. LeastOf(ends) <= aft /\ aft <= LeastOf(ends) /\ LeastOf(ends) \in Nat
    BY <1>4, <1>5, <2>1, <2>2
  <2> QED
    BY <1>1, <2>3
<1>7. \A p \in start .. aft - 1 :
        (Rest(val, p + 1 - start) * Base + (data[p + 1] % Base)) % Word = Rest(val, p - start)
  <2> SUFFICES ASSUME NEW p \in start .. aft - 1
               PROVE (Rest(val, p + 1 - start) * Base + (data[p + 1] % Base)) % Word
                       = Rest(val, p - start)
    OBVIOUS
  <2> DEFINE j == p - start
  <2>1. j \in Nat /\ j + 1 \in 1 .. blocks /\ p + 1 - start = j + 1 /\ start + (j + 1) = p + 1
        /\ (j + 1) - 1 = j
    BY <1>1
  <2> HIDE DEF j
  <2>2. data[p + 1] % Base = Rest(val, j) % Base
    BY <1>1, <1>2, <2>1
  <2>3. /\ Rest(val, j) = Base * Rest(val, j + 1) + (Rest(val, j) % Base)
        /\ Rest(val, j) \in Nat /\ Rest(val, j) <= val /\ Rest(val, j + 1) \in Nat
    <3>1. j + 1 \in Nat
      BY <2>1
    <3> QED
      BY <1>3, <2>1, <3>1, RestStep
  <2>4. Rest(val, j) = Rest(val, j + 1) * Base + (Rest(val, j) % Base)
    <3>1. Base * Rest(val, j + 1) = Rest(val, j + 1) * Base
      BY <1>3, <2>3
    <3> QED
      BY <2>3, <3>1
  <2>5. Rest(val, j) \in 0 .. Word - 1
    BY <1>1, <1>3, <2>3
  <2>6. Rest(val, j) % Word = Rest(val, j)
    BY <1>3, <2>5, Groups
  <2> QED
    BY <2>1, <2>2, <2>4, <2>6 DEF j
<1>8. Rest(val, 0) = val /\ Rest(val, blocks) = 0
  BY <1>1, <1>3, RestStep, RestEnds
<1> DEFINE g == CHOOSE f : Decoding(data, start, aft, f)
<1>9. \E f : Decoding(data, start, aft, f)
  <2> DEFINE f == [p \in start .. aft |-> Rest(val, p - start)]
             h == [p \in start .. aft |->
                    IF p = aft THEN 0 ELSE (f[p + 1] * Base + (data[p + 1] % Base)) % Word]
  <2>1. \A p \in start .. aft : p # aft => p \in start .. aft - 1 /\ p + 1 \in start .. aft
    BY <1>1
  <2>2. f[aft] = 0
    <3>1. aft - start = blocks /\ aft \in start .. aft
      BY <1>1
    <3> QED
      BY <1>8, <3>1
  <2>3. \A p \in start .. aft - 1 :
          (f[p + 1] * Base + (data[p + 1] % Base)) % Word = f[p]
    <3>1. \A p \in start .. aft - 1 : p \in start .. aft /\ p + 1 \in start .. aft
      BY <1>1
    <3>2. \A q \in start .. aft : f[q] = Rest(val, q - start)
      OBVIOUS
    <3> HIDE DEF f, aft
    <3> SUFFICES ASSUME NEW p \in start .. aft - 1
                 PROVE  (f[p + 1] * Base + (data[p + 1] % Base)) % Word = f[p]
      OBVIOUS
    <3>3. f[p] = Rest(val, p - start) /\ f[p + 1] = Rest(val, p + 1 - start)
      BY <1>1, <3>1, <3>2
    <3> QED
      BY <1>7, <3>3
  <2>4. f = [p \in start .. aft |-> f[p]]
    OBVIOUS
  <2> HIDE DEF f
  <2>5. \A p \in start .. aft : h[p] = f[p]
    BY <2>1, <2>2, <2>3
  <2>6. f = h
    BY <2>4, <2>5
  <2>7. Decoding(data, start, aft, f)
    BY <2>6 DEF Decoding
  <2> QED
    BY <2>7
<1>10. Decoding(data, start, aft, g)
  BY <1>9, Zenon
<1>11. DecodeU64(data, start) = [val |-> g[start], aft |-> aft]
  <2>1. ends # {}
    BY <1>4
  <2> HIDE DEF ends
  <2>2. (IF ends = {} THEN Len(data) ELSE LeastOf(ends)) = aft
    BY <1>6, <2>1
  <2> HIDE DEF aft
  <2> QED
    BY <2>2 DEF DecodeU64, Decoding, ends
<1> HIDE DEF g
<1>12. \A p \in start .. aft :
         g[p] = IF p = aft THEN 0 ELSE (g[p + 1] * Base + (data[p + 1] % Base)) % Word
  BY <1>10 DEF Decoding
<1> DEFINE S == {n \in Nat : n <= blocks => g[aft - n] = Rest(val, blocks - n)}
<1>13. 0 \in S
  <2>1. aft - 0 = aft /\ blocks - 0 = blocks /\ aft \in start .. aft
    BY <1>1
  <2> HIDE DEF aft
  <2>2. g[aft] = 0
    BY <1>12, <2>1
  <2> QED
    BY <1>8, <2>1, <2>2
<1>14. ASSUME NEW n \in Nat, n \in S PROVE n + 1 \in S
  <2>1. SUFFICES ASSUME n + 1 <= blocks PROVE g[aft - (n + 1)] = Rest(val, blocks - (n + 1))
    BY <1>14
  <2> DEFINE p == aft - (n + 1)
  <2>2. /\ p \in start .. aft - 1 /\ p \in start .. aft /\ p # aft /\ p + 1 = aft - n
        /\ p - start = blocks - (n + 1) /\ p + 1 - start = blocks - n /\ n <= blocks
    BY <1>1, <2>1
  <2> HIDE DEF p, aft
  <2>3. g[p + 1] = Rest(val, p + 1 - start)
    BY <1>14, <2>2
  <2>4. g[p] = (g[p + 1] * Base + (data[p + 1] % Base)) % Word
    BY <1>12, <2>2
  <2>5. g[p] = Rest(val, p - start)
    BY <1>7, <2>2, <2>3, <2>4
  <2> QED
    BY <2>2, <2>5 DEF p
<1> HIDE DEF S
<1>15. blocks \in S
  BY <1>1, <1>13, <1>14, Induction
<1>16. g[start] = val
  <2>1. blocks <= blocks /\ aft - blocks = start /\ blocks - blocks = 0
    BY <1>1
  <2>2. g[aft - blocks] = Rest(val, blocks - blocks)
    BY <1>1, <1>15, <2>1 DEF S
  <2> QED
    BY <1>8, <2>1, <2>2
<1> QED
  BY <1>11, <1>16

\* A signed number as it is encoded: an even number, or the odd one of its complement.
Raw(val) == IF val >= 0 THEN 2 * val ELSE -2 * val - 1

Signed == -Half .. Half - 1

LEMMA SignedIsEncoded ==
  ASSUME NEW val \in Signed
  PROVE  Raw(val) \in 0 .. Word - 1 /\ EncodeI32(val) = EncodeU64(Raw(val))
<1>1. /\ Word \in Nat \ {0} /\ Half \in Nat \ {0} /\ 4 * Half <= Word
      /\ val \in Int /\ -Half <= val /\ val < Half
  BY Widths DEF Signed
<1>2. PICK n \in Nat : Word = 2 * n
  BY Widths
<1>3. Word \div 2 = n
  <2>1. Word = 2 * n + 0 /\ 2 \in Nat \ {0} /\ 0 \in 0 .. 2 - 1 /\ Word \in Int /\ n \in Int
    BY <1>2
  <2> QED
    BY <2>1, DivisionIs
<1>4. CASE val >= 0
  <2>1. /\ 2 * val = Word * 0 + 2 * val /\ 2 * val \in 0 .. Word - 1 /\ 2 * val \in Int
        /\ 2 * val < n
    BY <1>1, <1>2, <1>4
  <2>2. (2 * val) % Word = 2 * val
    BY <1>1, <2>1, DivisionIs
  <2> QED
    BY <1>3, <1>4, <2>1, <2>2 DEF Raw, EncodeI32
<1>5. CASE ~ (val >= 0)
  <2>1. /\ 2 * val = Word * (-1) + (Word + 2 * val) /\ Word + 2 * val \in 0 .. Word - 1
        /\ 2 * val \in Int /\ -1 \in Int /\ ~ (Word + 2 * val < n)
        /\ Word - 1 - (Word + 2 * val) = -2 * val - 1 /\ -2 * val - 1 \in 0 .. Word - 1
    BY <1>1, <1>2, <1>5
  <2>2. (2 * val) % Word = Word + 2 * val
    BY <1>1, <2>1, DivisionIs
  <2> QED
    BY <1>3, <1>5, <2>1, <2>2 DEF Raw, EncodeI32
<1> QED
  BY <1>4, <1>5

LEMMA SignedIsRead ==
  ASSUME NEW val \in Signed, NEW data, NEW start, NEW blocks, Len(data) \in Nat,
         Stored(data, start, Raw(val), blocks)
  PROVE  DecodeI32(data, start) = [val |-> val, aft |-> start + blocks]
<1> DEFINE raw == Raw(val)
<1>1. DecodeU64(data, start) = [val |-> raw, aft |-> start + blocks]
  BY StoredIsRead
<1>2. Half \in Nat \ {0} /\ val \in Int /\ -Half <= val /\ val < Half
  BY Widths DEF Signed
<1> DEFINE w == IF val >= 0 THEN val ELSE -val - 1
           b == IF val >= 0 THEN 0 ELSE 1
<1>3. /\ raw \in Int /\ raw = 2 * w + b /\ w \in Int /\ b \in 0 .. 2 - 1 /\ 2 \in Nat \ {0}
      /\ w = (2 * Half) * 0 + w /\ w \in 0 .. 2 * Half - 1 /\ 2 * Half \in Nat \ {0}
  BY <1>2 DEF Raw
<1> HIDE DEF raw, w, b
<1>4. raw \div 2 = w /\ raw % 2 = b
  BY <1>3, DivisionIs
<1>5. w % (2 * Half) = w
  BY <1>3, DivisionIs
<1>6. CASE val >= 0
  <2>1. w = val /\ b = 0
    BY <1>6 DEF w, b
  <2> QED
    BY <1>1, <1>2, <1>4, <1>5, <2>1 DEF DecodeI32
<1>7. CASE ~ (val >= 0)
  <2>1. w = -val - 1 /\ b = 1
    BY <1>7 DEF w, b
  <2>2. /\ 2 * Half - 1 - w = 2 * Half + val /\ ~ (2 * Half + val < Half)
        /\ (2 * Half + val) - 2 * Half = val
    BY <1>2, <1>7, <2>1
  <2> QED
    BY <1>1, <1>4, <1>5, <2>1, <2>2 DEF DecodeI32
<1> QED
  BY <1>6, <1>7

-----------------------------------------------------------------------------
(* Words in the code.                                                      *)

\* at[i] is where word i begins, and n words make up the data.
Layout(at, n, data) ==
  /\ n \in Nat /\ data \in Seq(Nat)
  /\ at \in [1 .. n + 1 -> Nat]
  /\ at[1] = 0 /\ at[n + 1] = Len(data)
  /\ \A i \in 1 .. n : at[i] < at[i + 1]

Room(at, i) == at[i + 1] - at[i]

\* Word w is in the data, in size bytes from start on, with the number val.
WordAt(w, data, start, val, size) ==
  IF w.type = "op"
    THEN size = 1 /\ start \in Nat /\ start + 1 <= Len(data) /\ data[start + 1] = Opcode(w.val)
    ELSE Stored(data, start, val, size)

LEMMA LayoutGrows ==
  ASSUME NEW at, NEW n, NEW data, Layout(at, n, data),
         NEW i \in 1 .. n, NEW j \in i + 1 .. n + 1
  PROVE  /\ i + 1 \in 1 .. n + 1 /\ j \in 1 .. n + 1 /\ at[i] \in Nat /\ at[i + 1] \in Nat /\ at[j] \in Nat
         /\ at[i] < at[i + 1] /\ at[i + 1] <= at[j] /\ at[j] <= Len(data) /\ Len(data) \in Nat
<1>1. /\ n \in Nat /\ at \in [1 .. n + 1 -> Nat] /\ \A k \in 1 .. n : at[k] < at[k + 1]
      /\ at[n + 1] = Len(data) /\ Len(data) \in Nat
  BY DEF Layout
<1>2. ASSUME NEW k \in 1 .. n + 1
      PROVE  \A m \in Nat : k + m <= n + 1 => at[k] <= at[k + m]
  <2> DEFINE S == {m \in Nat : k + m <= n + 1 => at[k] <= at[k + m]}
  <2>1. 0 \in S
    <3>1. k + 0 = k /\ at[k] \in Nat
      BY <1>1
    <3> QED
      BY <3>1
  <2>2. ASSUME NEW m \in Nat, m \in S PROVE m + 1 \in S
    <3>1. SUFFICES ASSUME k + (m + 1) <= n + 1 PROVE at[k] <= at[k + (m + 1)]
      OBVIOUS
    <3>2. k + m \in 1 .. n /\ k + (m + 1) = (k + m) + 1 /\ k + m <= n + 1
      BY <1>1, <3>1
    <3>3. /\ at[k] <= at[k + m] /\ at[k + m] < at[(k + m) + 1]
          /\ at[k] \in Nat /\ at[k + m] \in Nat /\ at[(k + m) + 1] \in Nat
      <4>1. k + m \in 1 .. n + 1 /\ (k + m) + 1 \in 1 .. n + 1
        BY <1>1, <3>2
      <4> QED
        BY <1>1, <2>2, <3>2, <4>1
    <3> QED
      BY <3>2, <3>3
  <2> HIDE DEF S
  <2>3. Nat \subseteq S
    BY <2>1, <2>2, Induction
  <2> QED
    BY <2>3 DEF S
<1>3. /\ i \in 1 .. n + 1 /\ i + 1 \in 1 .. n + 1 /\ j \in 1 .. n + 1 /\ j - (i + 1) \in Nat
      /\ (i + 1) + (j - (i + 1)) = j /\ n + 1 - j \in Nat /\ j + (n + 1 - j) = n + 1
      /\ j <= n + 1 /\ n + 1 <= n + 1
  BY <1>1
<1>4. at[i] \in Nat /\ at[i + 1] \in Nat /\ at[j] \in Nat /\ at[i] < at[i + 1]
  BY <1>1, <1>3
<1>5. at[i + 1] <= at[j]
  BY <1>2, <1>3
<1>6. at[j] <= at[n + 1]
  BY <1>2, <1>3
<1> QED
  BY <1>1, <1>3, <1>4, <1>5, <1>6

\* A word begins after the ones before it have ended, and before the end of the data.
LEMMA WordsApart ==
  ASSUME NEW at, NEW n, NEW data, Layout(at, n, data), NEW i \in 1 .. n
  PROVE  /\ at[i] \in Nat /\ at[i + 1] \in Nat /\ at[i] < at[i + 1] /\ at[i + 1] <= Len(data)
         /\ Room(at, i) \in Nat \ {0} /\ at[i] + Room(at, i) = at[i + 1]
         /\ \A j \in 1 .. n : i # j => at[i + 1] <= at[j] \/ at[j + 1] <= at[i]
<1>1. n \in Nat /\ i + 1 \in i + 1 .. n + 1
  BY DEF Layout
<1>2. at[i] \in Nat /\ at[i + 1] \in Nat /\ at[i] < at[i + 1] /\ at[i + 1] <= Len(data)
  BY <1>1, LayoutGrows
<1>3. ASSUME NEW j \in 1 .. n, i # j PROVE at[i + 1] <= at[j] \/ at[j + 1] <= at[i]
  <2>1. j \in i + 1 .. n + 1 \/ i \in j + 1 .. n + 1
    BY <1>1, <1>3
  <2> QED
    BY <2>1, LayoutGrows
<1> QED
  BY <1>2, <1>3 DEF Room

\* Only its own bytes matter for a word.
Copied(data, start, other, there, size) ==
  /\ there \in Nat /\ there + size <= Len(other)
  /\ \A b \in 1 .. size : other[there + b] = data[start + b]

LEMMA WordKept ==
  ASSUME NEW w, NEW data, NEW start, NEW val, NEW size, WordAt(w, data, start, val, size),
         NEW other, NEW there, Copied(data, start, other, there, size)
  PROVE  WordAt(w, other, there, val, size)
<1>0. /\ there \in Nat /\ there + size <= Len(other)
      /\ \A b \in 1 .. size : other[there + b] = data[start + b]
  BY DEF Copied
<1>1. CASE w.type = "op"
  <2>1. 1 \in 1 .. size /\ size = 1
    BY <1>1 DEF WordAt
  <2> QED
    BY <1>0, <1>1, <2>1 DEF WordAt
<1>2. CASE w.type # "op"
  BY <1>0, <1>2 DEF WordAt, Stored
<1> QED
  BY <1>1, <1>2

\* A function on 1 .. n is a sequence.
LEMMA FunctionIsSequence ==
  ASSUME NEW S, NEW n \in Nat, NEW f \in [1 .. n -> S]
  PROVE  f \in Seq(S) /\ Len(f) = n
OBVIOUS

\* Patching does what it should.
LEMMA PatchedIs ==
  ASSUME NEW data \in Seq(Nat), NEW addr \in Nat, NEW buf \in Seq(Nat)
  PROVE  /\ Patched(data, addr, buf) \in Seq(Nat) /\ Len(Patched(data, addr, buf)) = Len(data)
         /\ \A p \in 1 .. Len(data) : p \notin addr + 1 .. addr + Len(buf) =>
              Patched(data, addr, buf)[p] = data[p]
         /\ addr + Len(buf) <= Len(data) => \A b \in 1 .. Len(buf) :
              Patched(data, addr, buf)[addr + b] = buf[b]
<1>0. PICK size \in Nat : size = Len(buf)
  OBVIOUS
<1>1. /\ DOMAIN data = 1 .. Len(data) /\ Len(data) \in Nat
      /\ \A p \in 1 .. Len(data) : data[p] \in Nat
      /\ \A b \in 1 .. size : buf[b] \in Nat
  BY <1>0
<1> DEFINE f == Patched(data, addr, buf)
           at(p) == IF p \in addr + 1 .. addr + size THEN buf[p - addr] ELSE data[p]
<1>2. f = [p \in 1 .. Len(data) |-> at(p)]
  BY <1>0, <1>1 DEF Patched
<1>3. ASSUME NEW p \in 1 .. Len(data) PROVE at(p) \in Nat
  <2>1. p \in addr + 1 .. addr + size => p - addr \in 1 .. size
    BY <1>1
  <2> QED
    BY <1>1, <2>1
<1>4. f \in [1 .. Len(data) -> Nat]
  BY <1>2, <1>3
<1>6. \A p \in 1 .. Len(data) : f[p] = at(p)
  BY <1>2
<1> HIDE DEF f
<1>5. f \in Seq(Nat) /\ Len(f) = Len(data)
  BY <1>1, <1>4, FunctionIsSequence
<1>7. ASSUME addr + size <= Len(data), NEW b \in 1 .. size PROVE f[addr + b] = buf[b]
  <2>1. /\ addr + b \in 1 .. Len(data) /\ addr + b \in addr + 1 .. addr + size
        /\ (addr + b) - addr = b
    BY <1>1, <1>7
  <2> QED
    BY <1>6, <2>1
<1> QED
  BY <1>0, <1>5, <1>6, <1>7 DEF f

\* A number is put somewhere.
IsPut(new, data, start, val, size) ==
  /\ new \in Seq(Nat) /\ Len(new) = Len(data)
  /\ Stored(new, start, val, size)
  /\ \A p \in 1 .. Len(data) : p <= start \/ start + size < p => new[p] = data[p]

LEMMA Put ==
  ASSUME NEW data \in Seq(Nat), NEW start \in Nat, NEW val \in 0 .. Word - 1, NEW size \in Nat, size # 0,
         Blocks(val) <= size, start + size <= Len(data)
  PROVE  IsPut(Patched(data, start, EncodeIn(val, size)), data, start, val, size)
<1> PICK new : new = Patched(data, start, EncodeIn(val, size))
  OBVIOUS
<1> DEFINE buf == EncodeIn(val, size)
<1>1. buf \in Seq(Nat) /\ Len(buf) = size
  BY EncodedBytes
<1>2. new = Patched(data, start, buf)
  OBVIOUS
<1> HIDE DEF buf
<1>3. /\ new \in Seq(Nat) /\ Len(new) = Len(data)
      /\ \A p \in 1 .. Len(data) : p \notin start + 1 .. start + size => new[p] = data[p]
      /\ start + size <= Len(data) => \A b \in 1 .. size : new[start + b] = buf[b]
  <2>1. buf \in Seq(Nat) /\ size \in Nat
    BY <1>1
  <2>2. Patched(data, start, buf) \in Seq(Nat) /\ Len(Patched(data, start, buf)) = Len(data)
    BY <2>1, PatchedIs
  <2>3. \A p \in 1 .. Len(data) : p \notin start + 1 .. start + Len(buf) =>
          Patched(data, start, buf)[p] = data[p]
    BY <2>1, PatchedIs
  <2>4. start + Len(buf) <= Len(data) => \A b \in 1 .. Len(buf) : Patched(data, start, buf)[start + b] = buf[b]
    BY <2>1, PatchedIs
  <2> QED
    BY <1>1, <1>2, <2>2, <2>3, <2>4, Zenon
<1>4. Stored(new, start, val, size)
  BY <1>3 DEF Stored, buf
<1>5. \A p \in 1 .. Len(data) : p <= start \/ start + size < p => p \notin start + 1 .. start + size
  OBVIOUS
<1>6. IsPut(new, data, start, val, size)
  BY <1>3, <1>4, <1>5 DEF IsPut
<1> QED
  BY <1>6

\* The words are in the data, word i with the number val[i] in size[i] bytes.
Coded(words, at, data, val, size) ==
  /\ Layout(at, Len(words), data)
  /\ \A i \in 1 .. Len(words) :
       /\ size[i] \in Nat \ {0} /\ size[i] <= Room(at, i)
       /\ WordAt(words[i], data, at[i], val[i], size[i])

\* A number is put in the place of a word.
LEMMA PutInPlace ==
  ASSUME NEW words, NEW at, NEW data, NEW val, NEW size, Coded(words, at, data, val, size),
         NEW i \in 1 .. Len(words), words[i].type # "op",
         NEW v \in 0 .. Word - 1, NEW s \in Nat, s # 0, Blocks(v) <= s, s <= Room(at, i),
         NEW newVal, newVal[i] = v, NEW newSize, newSize[i] = s,
         \A j \in 1 .. Len(words) : j # i => newVal[j] = val[j] /\ newSize[j] = size[j]
  PROVE  /\ Coded(words, at, Patched(data, at[i], EncodeIn(v, s)), newVal, newSize)
         /\ Len(Patched(data, at[i], EncodeIn(v, s))) = Len(data)
<1> DEFINE n == Len(words)
<1> HIDE DEF n
<1>1. /\ Layout(at, n, data) /\ data \in Seq(Nat) /\ Len(data) \in Nat /\ i \in 1 .. n
      /\ \A j \in 1 .. n : size[j] \in Nat \ {0} /\ size[j] <= Room(at, j)
                           /\ WordAt(words[j], data, at[j], val[j], size[j])
  BY DEF Coded, Layout, n
<1>0. /\ at[i] \in Nat /\ at[i + 1] \in Nat /\ Room(at, i) \in Nat
      /\ at[i] + Room(at, i) = at[i + 1] /\ at[i + 1] <= Len(data)
      /\ \A j \in 1 .. n : i # j => at[i + 1] <= at[j] \/ at[j + 1] <= at[i]
  BY <1>1, WordsApart
<1>2. PICK start \in Nat, room \in Nat, next \in Nat :
        /\ start = at[i] /\ room = Room(at, i) /\ next = at[i + 1]
        /\ start + room = next /\ next <= Len(data)
        /\ \A j \in 1 .. n : i # j => next <= at[j] \/ at[j + 1] <= start
  BY <1>0, Zenon
<1>3. s <= room /\ start + s <= next /\ start + s <= Len(data)
  <2>1. s <= room
    BY <1>2
  <2>2. s \in Nat /\ Len(data) \in Nat
    BY <1>1
  <2> QED
    BY <1>2, <2>1, <2>2, SMTT(40)
<1>4. PICK new : new = Patched(data, start, EncodeIn(v, s))
  OBVIOUS
<1>5. /\ new \in Seq(Nat) /\ Len(new) = Len(data)
      /\ Stored(new, start, v, s)
      /\ \A p \in 1 .. Len(data) : p <= start \/ start + s < p => new[p] = data[p]
  <2>1. IsPut(new, data, start, v, s)
    BY <1>1, <1>3, <1>4, Put
  <2> QED
    BY <2>1 DEF IsPut
<1>6. Layout(at, n, new)
  BY <1>1, <1>5 DEF Layout
<1>7. ASSUME NEW j \in 1 .. n, j # i
      PROVE  WordAt(words[j], new, at[j], val[j], size[j])
  <2>1. PICK from \in Nat, big \in Nat, until \in Nat, small \in Nat :
          /\ from = at[j] /\ big = Room(at, j) /\ until = at[j + 1] /\ small = size[j]
          /\ from + big = until /\ until <= Len(data) /\ small <= big
          /\ next <= from \/ until <= start
    <3>1. /\ at[j] \in Nat /\ at[j + 1] \in Nat /\ at[j + 1] <= Len(data)
          /\ at[j] + Room(at, j) = at[j + 1] /\ Room(at, j) \in Nat
      BY <1>1, WordsApart
    <3>2. size[j] \in Nat /\ size[j] <= Room(at, j)
      BY <1>1
    <3>3. next <= at[j] \/ at[j + 1] <= start
      BY <1>2, <1>7
    <3> QED
      BY <3>1, <3>2, <3>3
  <2>2. ASSUME NEW b \in 1 .. small PROVE new[from + b] = data[from + b]
    <3>1. /\ small <= big /\ from + big = until /\ until <= Len(data) /\ Len(data) \in Nat /\ s \in Nat
          /\ start + s <= next /\ (next <= from \/ until <= start)
      BY <1>1, <1>3, <2>1
    <3>2. from + b \in 1 .. Len(data) /\ (from + b <= start \/ start + s < from + b)
      BY <3>1
    <3> QED
      BY <1>5, <3>2
  <2>3. from + small <= Len(new) /\ WordAt(words[j], data, from, val[j], small)
    <3>1. from + small <= Len(data)
      BY <1>1, <2>1, SMTT(40)
    <3>2. WordAt(words[j], data, at[j], val[j], size[j])
      BY <1>1
    <3> QED
      BY <1>5, <2>1, <3>1, <3>2
  <2>4. WordAt(words[j], new, from, val[j], small)
    <3>1. Copied(data, from, new, from, small)
      BY <2>2, <2>3 DEF Copied
    <3> QED
      BY <2>3, <3>1, WordKept
  <2> QED
    BY <2>1, <2>4
<1>8. ASSUME NEW j \in 1 .. n
      PROVE  /\ newSize[j] \in Nat \ {0} /\ newSize[j] <= Room(at, j)
             /\ WordAt(words[j], new, at[j], newVal[j], newSize[j])
  <2>1. CASE j = i
    BY <1>2, <1>5, <2>1 DEF WordAt
  <2>2. CASE j # i
    BY <1>1, <1>7, <2>2 DEF n
  <2> QED
    BY <2>1, <2>2
<1>9. Coded(words, at, new, newVal, newSize)
  BY <1>6, <1>8 DEF Coded, n
<1> QED
  BY <1>2, <1>4, <1>5, <1>9

\* A word is read with its number and its size.
LEMMA CodedIsRead ==
  ASSUME NEW words, NEW at, NEW data, NEW val, NEW size, Coded(words, at, data, val, size),
         NEW i \in 1 .. Len(words), words[i].type # "op"
  PROVE  /\ at[i] \in Nat /\ size[i] \in Nat /\ val[i] \in 0 .. Word - 1
         /\ DecodeU64(data, at[i]) = [val |-> val[i], aft |-> at[i] + size[i]]
         /\ (at[i] + size[i]) - at[i] = size[i]
<1>1. Len(data) \in Nat /\ Stored(data, at[i], val[i], size[i]) /\ size[i] \in Nat /\ at[i] \in Nat
      /\ val[i] \in 0 .. Word - 1
  BY DEF Coded, Layout, WordAt, Stored
<1> QED
  BY <1>1, StoredIsRead
-----------------------------------------------------------------------------
(* The loops of the linker.                                                *)

\* One pass through a loop: over the addresses to resolve, to measure, to shrink
\* and to readdress, over the words to read, and over sizes to add up; over tokens to
\* append, over locations, and over tokens to read.
Pass(loop, x, o, k) ==
  CASE loop = "resolve"   -> ResolveOne(o, relocate_info[k])
    [] loop = "measure"   -> MeasureOne(o, final_relocates[k])
    [] loop = "shrink"    -> ShrinkOne(o, plan[k])
    [] loop = "readdress" -> Readdressed(o, x[k])
    [] loop = "read"      -> ReadWord(o, program.words[k])
    [] loop = "add"       -> o + x[k]
    [] loop = "tokens"    -> o \o EncodeU64(Token(x.toks[k], x.base))
    [] loop = "condense"  -> AppendLocation(o, x.order[k], x.orig[x.order[k]])
    [] loop = "lookup"    -> ReadToken(x, o)

\* after[k] is what there is after k passes.
Looping(loop, x, first, n, after) ==
  after = [k \in 0 .. n |-> IF k = 0 THEN first ELSE Pass(loop, x, after[k - 1], k)]

LEMMA LoopExists ==
  ASSUME NEW loop, NEW x, NEW first, NEW n \in Nat
  PROVE  \E after : Looping(loop, x, first, n, after)
<1> DEFINE S == {m \in Nat : \E f : Looping(loop, x, first, m, f)}
<1>1. 0 \in S
  <2> DEFINE f == [k \in 0 .. 0 |-> first]
             h == [k \in 0 .. 0 |-> IF k = 0 THEN first ELSE Pass(loop, x, f[k - 1], k)]
  <2>1. f = h
    OBVIOUS
  <2>2. Looping(loop, x, first, 0, f)
    BY <2>1 DEF Looping
  <2> QED
    BY <2>2
<1>2. ASSUME NEW m \in Nat, m \in S PROVE m + 1 \in S
  <2>1. PICK f : Looping(loop, x, first, m, f)
    BY <1>2
  <2> DEFINE step(g, k) == IF k = 0 THEN first ELSE Pass(loop, x, g[k - 1], k)
             h == [k \in 0 .. m + 1 |-> IF k = m + 1 THEN step(f, k) ELSE f[k]]
             r == [k \in 0 .. m + 1 |-> step(h, k)]
  <2>2. \A k \in 0 .. m : f[k] = step(f, k)
    BY <2>1 DEF Looping
  <2>3. /\ \A k \in 0 .. m : h[k] = f[k]
        /\ h[m + 1] = step(f, m + 1)
    <3>1. m + 1 \in 0 .. m + 1 /\ \A k \in 0 .. m : k \in 0 .. m + 1 /\ k # m + 1
      OBVIOUS
    <3> HIDE DEF step
    <3> QED
      BY <3>1
  <2>4. h = [k \in 0 .. m + 1 |-> h[k]]
    OBVIOUS
  <2> HIDE DEF h
  <2>5. \A k \in 0 .. m + 1 : k # 0 => k - 1 \in 0 .. m
    OBVIOUS
  <2>6. \A k \in 0 .. m + 1 : step(h, k) = step(f, k)
    BY <2>3, <2>5
  <2>7. \A k \in 0 .. m + 1 : k \in 0 .. m \/ k = m + 1
    OBVIOUS
  <2>8. \A k \in 0 .. m + 1 : h[k] = step(f, k)
    BY <2>2, <2>3, <2>7
  <2>9. \A k \in 0 .. m + 1 : h[k] = step(h, k)
    BY <2>6, <2>8
  <2>10. h = r
    BY <2>4, <2>9
  <2>11. Looping(loop, x, first, m + 1, h)
    BY <2>10 DEF Looping
  <2> QED
    BY <2>11
<1> HIDE DEF S
<1>3. n \in S
  BY <1>1, <1>2, Induction
<1> QED
  BY <1>3 DEF S

\* What each pass does.
Loops(loop, x, first, n, after) ==
  /\ after[0] = first
  /\ \A k \in Nat : k + 1 <= n => after[k + 1] = Pass(loop, x, after[k], k + 1)

LEMMA LoopIs ==
  ASSUME NEW loop, NEW x, NEW first, NEW n \in Nat, NEW after, Looping(loop, x, first, n, after)
  PROVE  Loops(loop, x, first, n, after)
<1>1. \A k \in 0 .. n : after[k] = IF k = 0 THEN first ELSE Pass(loop, x, after[k - 1], k)
  BY DEF Looping
<1>2. 0 \in 0 .. n
  OBVIOUS
<1>3. ASSUME NEW k \in Nat, k + 1 <= n PROVE after[k + 1] = Pass(loop, x, after[k], k + 1)
  <2>1. k + 1 \in 0 .. n /\ k + 1 # 0 /\ (k + 1) - 1 = k
    BY <1>3
  <2> QED
    BY <1>1, <2>1
<1> QED
  BY <1>1, <1>2, <1>3 DEF Loops

-----------------------------------------------------------------------------
(* The places of some words, in their order.                               *)

Enumerates(idx, S) ==
  /\ idx \in Seq(Nat)
  /\ \A k \in 1 .. Len(idx) : idx[k] \in S
  /\ \A k, l \in 1 .. Len(idx) : k < l => idx[k] < idx[l]
  /\ \A i \in S : \E k \in 1 .. Len(idx) : idx[k] = i

LEMMA EnumeratesNone == Enumerates(<<>>, {})
BY DEF Enumerates

Extended(idx, new, i) ==
  /\ Len(idx) \in Nat /\ Len(new) = Len(idx) + 1
  /\ \A k \in 1 .. Len(idx) : new[k] = idx[k]
  /\ new[Len(idx) + 1] = i

LEMMA EnumeratesNext ==
  ASSUME NEW idx, NEW S, Enumerates(idx, S), NEW i \in Nat, \A j \in S : j < i
  PROVE  Enumerates(Append(idx, i), S \union {i}) /\ Extended(idx, Append(idx, i), i)
<1> DEFINE new == Append(idx, i)
<1>1. idx \in Seq(Nat) /\ Len(idx) \in Nat
  BY DEF Enumerates
<1>2. /\ new \in Seq(Nat) /\ Len(new) = Len(idx) + 1
      /\ \A k \in 1 .. Len(idx) : new[k] = idx[k]
      /\ new[Len(idx) + 1] = i
  BY <1>1
<1> HIDE DEF new
<1>3. \A k \in 1 .. Len(new) : k \in 1 .. Len(idx) \/ k = Len(idx) + 1
  BY <1>1, <1>2
<1>4. \A k \in 1 .. Len(new) : new[k] \in S \union {i}
  BY <1>2, <1>3 DEF Enumerates
<1>5. ASSUME NEW k \in 1 .. Len(new), NEW l \in 1 .. Len(new), k < l PROVE new[k] < new[l]
  <2>1. k \in 1 .. Len(idx)
    BY <1>1, <1>2, <1>5
  <2> QED
    BY <1>2, <1>3, <1>5, <2>1 DEF Enumerates
<1>6. ASSUME NEW j \in S \union {i} PROVE \E k \in 1 .. Len(new) : new[k] = j
  <2>1. \A k \in 1 .. Len(idx) : k \in 1 .. Len(new)
    BY <1>1, <1>2
  <2>2. Len(idx) + 1 \in 1 .. Len(new)
    BY <1>1, <1>2
  <2>3. CASE j \in S
    <3>1. PICK k \in 1 .. Len(idx) : idx[k] = j
      BY <2>3 DEF Enumerates
    <3> QED
      BY <1>2, <2>1, <3>1
  <2>4. CASE j = i
    BY <1>2, <2>2, <2>4
  <2> QED
    BY <2>3, <2>4
<1>7. Enumerates(new, S \union {i})
  BY <1>2, <1>4, <1>5, <1>6 DEF Enumerates
<1> QED
  BY <1>1, <1>2, <1>7 DEF new, Extended

\* The members up to one.
UpTo(idx, k) == {idx[l] : l \in 1 .. k}

LEMMA UpToNext ==
  ASSUME NEW idx, NEW S, Enumerates(idx, S), NEW k \in Nat, k + 1 <= Len(idx)
  PROVE  /\ k + 1 \in 1 .. Len(idx) /\ idx[k + 1] \in S /\ idx[k + 1] \in Nat
         /\ UpTo(idx, k + 1) = UpTo(idx, k) \union {idx[k + 1]}
         /\ \A j \in UpTo(idx, k) : j \in S /\ j < idx[k + 1]
<1>1. k + 1 \in 1 .. Len(idx) /\ Len(idx) \in Nat
  BY DEF Enumerates
<1>2. \A l \in 1 .. k + 1 : l \in 1 .. k \/ l = k + 1
  OBVIOUS
<1>3. \A l \in 1 .. k : l \in 1 .. k + 1 /\ l \in 1 .. Len(idx) /\ l < k + 1
  BY <1>1
<1>4. k + 1 \in 1 .. k + 1
  OBVIOUS
<1>5. UpTo(idx, k + 1) = UpTo(idx, k) \union {idx[k + 1]}
  BY <1>2, <1>3, <1>4 DEF UpTo
<1> QED
  BY <1>1, <1>3, <1>5 DEF UpTo, Enumerates

LEMMA UpToEnds ==
  ASSUME NEW idx, NEW S, Enumerates(idx, S)
  PROVE  /\ UpTo(idx, 0) = {} /\ UpTo(idx, Len(idx)) = S /\ Len(idx) \in Nat
BY DEF UpTo, Enumerates
-----------------------------------------------------------------------------
(* What the words of a program say.                                        *)

\* The numbers that the words are appended with, and those that they have to carry
\* when the instructions begin at the given positions.
Written(words) ==
  [i \in 1 .. Len(words) |-> IF words[i].type = "integer" THEN Raw(words[i].val) ELSE words[i].val]

Meant(words, ins) ==
  [i \in 1 .. Len(words) |->
    CASE words[i].type = "code"    -> ins[words[i].val + 1]
      [] words[i].type = "data"    -> DataPos[words[i].val]
      [] words[i].type = "integer" -> Raw(words[i].val)
      [] words[i].type \in {"op", "plain"} -> words[i].val]

\* ins are the positions of the instructions among the first n words.
Heads(words, n, at, ins) ==
  /\ ins \in Seq(Nat)
  /\ \A i \in 1 .. n : words[i].type = "op" =>
       words[i].val + 1 \in 1 .. Len(ins) /\ ins[words[i].val + 1] = at[i]
  /\ \A m \in 1 .. Len(ins) : \E i \in 1 .. n : words[i] = Op(m - 1)

LEMMA WordIs ==
  ASSUME NEW words, WellFormed(words), NEW i \in 1 .. Len(words)
  PROVE  /\ words[i] = [type |-> words[i].type, val |-> words[i].val]
         /\ words[i].type \in Types /\ words[i].val \in Int
         /\ words[i].type = "op" => words[i].val \in Nat
         /\ words[i].type \in {"code", "data", "plain"} => words[i].val \in 0 .. Word - 1
         /\ words[i].type = "integer" => words[i].val \in Signed
         /\ words[i].type = "data" => words[i].val \in DOMAIN DataPos
         /\ words[i].type = "code" => \E h \in 1 .. Len(words) : words[h] = Op(words[i].val)
<1>1. words \in Seq([type : Types, val : Int]) /\ DOMAIN words = 1 .. Len(words)
  BY DEF WellFormed
<1>2. words[i] \in [type : Types, val : Int]
  BY <1>1, ElementOfSeq
<1> DEFINE w == words[i]
<1>4. w.type \in Types
  BY <1>2
<1>5. CASE w.type = "op"
  BY <1>1, <1>2, <1>5 DEF WellFormed
<1>6. CASE w.type = "code"
  BY <1>1, <1>2, <1>6 DEF WellFormed
<1>7. CASE w.type = "data"
  BY <1>1, <1>2, <1>7 DEF WellFormed
<1>8. CASE w.type = "plain"
  BY <1>1, <1>2, <1>8 DEF WellFormed
<1>9. CASE w.type = "integer"
  BY <1>1, <1>2, <1>9 DEF WellFormed, Signed
<1> QED
  BY <1>4, <1>5, <1>6, <1>7, <1>8, <1>9 DEF Types

\* Instructions are numbered in order.
LEMMA OpsAre ==
  ASSUME NEW words, WellFormed(words), NEW i \in 1 .. Len(words), words[i].type = "op"
  PROVE  /\ words[i].val \in Nat
         /\ words[i].val = 0 \/ \E h \in 1 .. i - 1 : words[h] = Op(words[i].val - 1)
         /\ \A h \in 1 .. i - 1 : words[h].type = "op" => words[h].val < words[i].val
<1>1. words \in Seq([type : Types, val : Int]) /\ DOMAIN words = 1 .. Len(words)
  BY DEF WellFormed
<1> DEFINE w == words[i]
           before == {words[h] : h \in 1 .. i - 1}
<1>2. /\ w.val \in Nat
      /\ w.val = 0 \/ Op(w.val - 1) \in before
      /\ \A o \in before : o.type = "op" => o.val < w.val
  BY <1>1 DEF WellFormed
<1> QED
  BY <1>2

LEMMA OneHead ==
  ASSUME NEW words, WellFormed(words), NEW i \in 1 .. Len(words), NEW h \in 1 .. Len(words),
         words[i].type = "op", words[h] = words[i]
  PROVE  i = h
<1>0. Len(words) \in Nat
  BY DEF WellFormed
<1>1. i < h \/ i = h \/ h < i
  BY <1>0
<1>2. words[h].type = "op" /\ words[h].val = words[i].val /\ words[i].val \in Nat
  BY OpsAre
<1>3. CASE i < h
  <2>1. i \in 1 .. h - 1
    BY <1>0, <1>3
  <2>2. words[i].val < words[h].val
    BY <1>2, <2>1, OpsAre
  <2> QED
    BY <1>2, <2>2
<1>4. CASE h < i
  <2>1. h \in 1 .. i - 1
    BY <1>0, <1>4
  <2>2. words[h].val < words[i].val
    BY <1>2, <2>1, OpsAre
  <2> QED
    BY <1>2, <2>2
<1> QED
  BY <1>1, <1>3, <1>4

\* Instructions begin at different positions.
LEMMA HeadsApart ==
  ASSUME NEW words, WellFormed(words), NEW at, NEW data, Layout(at, Len(words), data),
         NEW ins, Heads(words, Len(words), at, ins), NEW m \in 1 .. Len(ins), NEW k \in 1 .. Len(ins),
         ins[m] = ins[k]
  PROVE  m = k
<1>1. PICK i \in 1 .. Len(words) : words[i] = Op(m - 1)
  BY DEF Heads
<1>2. PICK j \in 1 .. Len(words) : words[j] = Op(k - 1)
  BY DEF Heads
<1>3. words[i].type = "op" /\ words[i].val = m - 1 /\ words[j].type = "op" /\ words[j].val = k - 1
  BY <1>1, <1>2 DEF Op
<1>4. m \in Int /\ k \in Int /\ (m - 1) + 1 = m /\ (k - 1) + 1 = k
  BY DEF Heads
<1>5. ins[m] = at[i] /\ ins[k] = at[j]
  <2>1. \A h \in 1 .. Len(words) : words[h].type = "op" => ins[words[h].val + 1] = at[h]
    BY DEF Heads
  <2>2. words[i].val + 1 = m /\ words[j].val + 1 = k
    BY <1>3, <1>4
  <2>3. ins[words[i].val + 1] = at[i] /\ ins[words[j].val + 1] = at[j]
    BY <1>3, <2>1
  <2> QED
    BY <2>2, <2>3, Zenon
<1>6. i = j
  <2>1. SUFFICES ASSUME i # j PROVE FALSE
    OBVIOUS
  <2>2. /\ at[i] \in Nat /\ at[i + 1] \in Nat /\ at[i] < at[i + 1]
        /\ at[i + 1] <= at[j] \/ at[j + 1] <= at[i]
    BY <2>1, WordsApart
  <2>3. at[j] \in Nat /\ at[j + 1] \in Nat /\ at[j] < at[j + 1]
    BY WordsApart
  <2>4. at[i] = at[j]
    BY <1>5
  <2>5. at[i] < at[i + 1] /\ at[i] < at[j + 1] /\ (at[i + 1] <= at[i] \/ at[j + 1] <= at[i])
    BY <2>2, <2>3, <2>4, Zenon
  <2> QED
    BY <2>2, <2>3, <2>5
<1> QED
  BY <1>3, <1>4, <1>6

\* An address is that of a word that is there.
LEMMA TargetIs ==
  ASSUME NEW words, WellFormed(words), NEW at, NEW ins, Heads(words, Len(words), at, ins),
         NEW i \in 1 .. Len(words), words[i].type = "code"
  PROVE  /\ words[i].val + 1 \in 1 .. Len(ins)
         /\ \E h \in 1 .. Len(words) : /\ words[h] = Op(words[i].val)
                                       /\ ins[words[i].val + 1] = at[h]
<1>1. PICK h \in 1 .. Len(words) : words[h] = Op(words[i].val)
  BY WordIs
<1>2. words[h].type = "op" /\ words[h].val = words[i].val
  BY <1>1 DEF Op
<1> QED
  BY <1>1, <1>2 DEF Heads

LEMMA WrittenIs ==
  ASSUME NEW words, WellFormed(words), NEW i \in 1 .. Len(words), words[i].type # "op"
  PROVE  Written(words)[i] \in 0 .. Word - 1
<1>1. Written(words)[i] = IF words[i].type = "integer" THEN Raw(words[i].val) ELSE words[i].val
  BY DEF Written
<1> QED
  BY <1>1, WordIs, SignedIsEncoded DEF Types

LEMMA MeantIs ==
  ASSUME NEW words, WellFormed(words), NEW ins, NEW i \in 1 .. Len(words)
  PROVE  /\ words[i].type = "code" => Meant(words, ins)[i] = ins[words[i].val + 1]
         /\ words[i].type = "data" => Meant(words, ins)[i] = DataPos[words[i].val]
         /\ words[i].type = "integer" => Meant(words, ins)[i] = Raw(words[i].val)
         /\ words[i].type \in {"op", "plain"} => Meant(words, ins)[i] = words[i].val
         /\ words[i].type \notin {"code", "data"} => Meant(words, ins)[i] = Written(words)[i]
<1>1. Meant(words, ins)[i] =
        CASE words[i].type = "code"    -> ins[words[i].val + 1]
          [] words[i].type = "data"    -> DataPos[words[i].val]
          [] words[i].type = "integer" -> Raw(words[i].val)
          [] words[i].type \in {"op", "plain"} -> words[i].val
  BY DEF Meant
<1>2. Written(words)[i] = IF words[i].type = "integer" THEN Raw(words[i].val) ELSE words[i].val
  BY DEF Written
<1>3. words[i].type \in {"op", "code", "data", "plain", "integer"}
  BY WordIs DEF Types
<1> HIDE DEF Meant, Written
<1> QED
  BY <1>1, <1>2, <1>3

\* An address has room for what it has to carry.
LEMMA MeantFits ==
  ASSUME NEW words, WellFormed(words), NEW at, NEW data, Layout(at, Len(words), data), Len(data) < Word,
         NEW ins, Heads(words, Len(words), at, ins), NEW i \in 1 .. Len(words), words[i].type \in {"code", "data"}
  PROVE  Meant(words, ins)[i] \in 0 .. Word - 1
<1>1. CASE words[i].type = "code"
  <2>1. PICK h \in 1 .. Len(words) : ins[words[i].val + 1] = at[h]
    BY <1>1, TargetIs
  <2>2. at[h] \in Nat /\ at[h + 1] \in Nat /\ at[h] < at[h + 1] /\ at[h + 1] <= Len(data)
    BY WordsApart
  <2>3. Len(data) \in Nat /\ Word \in Nat
    BY Widths DEF Layout
  <2>4. at[h] \in 0 .. Word - 1
    BY <2>2, <2>3
  <2> QED
    BY <1>1, <2>1, <2>4, MeantIs
<1>2. CASE words[i].type = "data"
  <2>1. words[i].val \in DOMAIN DataPos
    BY <1>2, WordIs
  <2>2. Meant(words, ins)[i] = DataPos[words[i].val]
    BY <1>2, MeantIs
  <2>3. DataPos[words[i].val] \in 0 .. Word - 1
    BY <2>1, DataAssumption
  <2> QED
    BY <2>2, <2>3
<1> QED
  BY <1>1, <1>2
-----------------------------------------------------------------------------
(* Appending the words.                                                    *)

LEMMA StoredAlone ==
  ASSUME NEW val \in 0 .. Word - 1, NEW blocks \in Nat \ {0}, Blocks(val) <= blocks,
         NEW e, e = EncodeIn(val, blocks)
  PROVE  e \in Seq(Nat) /\ Len(e) = blocks /\ Stored(e, 0, val, blocks)
<1>1. e \in Seq(Nat) /\ Len(e) = blocks
  BY EncodedBytes
<1>2. 0 + blocks <= Len(e) /\ 0 \in Nat /\ \A k \in 1 .. blocks : 0 + k = k
  BY <1>1
<1>3. \A k \in 1 .. blocks : e[0 + k] = EncodeIn(val, blocks)[k]
  BY <1>2
<1> QED
  BY <1>1, <1>2, <1>3 DEF Stored

LEMMA EncodedIs ==
  ASSUME NEW words, WellFormed(words), NEW i \in 1 .. Len(words), NEW e, e = Encoded(words[i])
  PROVE  /\ e \in Seq(Nat) /\ Len(e) \in Nat \ {0}
         /\ WordAt(words[i], e, 0, Written(words)[i], Len(e))
         /\ words[i].type \in {"code", "data"} => Len(e) = MaxBlocks
<1> DEFINE w == words[i]
           v == Written(words)[i]
<1>1. v = IF w.type = "integer" THEN Raw(w.val) ELSE w.val
  BY DEF Written
<1>2. CASE w.type = "op"
  <2>1. e = <<Opcode(w.val)>>
    BY <1>2 DEF Encoded, Addresses
  <2>2. Opcode(w.val) \in Nat
    <3>1. w.val \in Nat /\ Base \in Nat
      BY <1>2, WordIs, Widths
    <3>2. \A a, b \in Nat : 2 * a * (b + 1) \in Nat
      OBVIOUS
    <3> QED
      BY <3>1, <3>2 DEF Opcode
  <2> HIDE DEF w, v
  <2>3. e \in Seq(Nat) /\ Len(e) = 1 /\ e[1] = Opcode(w.val) /\ 0 + 1 = 1 /\ 0 \in Nat
    BY <2>1, <2>2
  <2>4. WordAt(w, e, 0, v, 1)
    BY <1>2, <2>3 DEF WordAt
  <2> QED
    BY <1>2, <2>3, <2>4 DEF w, v
<1>3. ASSUME NEW b \in Nat \ {0}, w.type # "op", v \in 0 .. Word - 1, Blocks(v) <= b, e = EncodeIn(v, b)
      PROVE  e \in Seq(Nat) /\ Len(e) = b /\ WordAt(w, e, 0, v, b)
  <2>1. e \in Seq(Nat) /\ Len(e) = b /\ Stored(e, 0, v, b)
    BY <1>3, StoredAlone
  <2> HIDE DEF w, v
  <2> QED
    BY <1>3, <2>1 DEF WordAt
<1>4. \A val \in 0 .. Word - 1 : Blocks(val) \in Nat \ {0} /\ Blocks(val) <= MaxBlocks /\ Blocks(val) <= Blocks(val)
  <2>1. MaxBlocks \in Nat
    BY Widths
  <2> QED
    BY <2>1, BlocksAre
<1>5. w.type # "op" => v \in 0 .. Word - 1
  BY WrittenIs
<1>6. CASE w.type \in {"code", "data"}
  <2>1. e = EncodeIn(v, MaxBlocks) /\ MaxBlocks \in Nat \ {0}
    BY <1>1, <1>6, Widths DEF Encoded, Addresses
  <2>2. Blocks(v) <= MaxBlocks
    BY <1>4, <1>5, <1>6
  <2> QED
    BY <1>3, <1>5, <1>6, <2>1, <2>2
<1>7. CASE w.type \in {"plain", "integer"}
  <2>1. e = EncodeIn(v, Blocks(v))
    <3>1. w.type = "integer" => w.val \in Signed
      BY WordIs
    <3>2. CASE w.type = "plain"
      BY <1>1, <3>2 DEF Encoded, EncodeU64, Addresses
    <3>3. CASE w.type = "integer"
      <4>1. e = EncodeI32(w.val)
        BY <3>3 DEF Encoded, Addresses
      <4> QED
        BY <1>1, <3>1, <3>3, <4>1, SignedIsEncoded DEF EncodeU64
    <3> QED
      BY <1>7, <3>2, <3>3
  <2> QED
    BY <1>3, <1>4, <1>5, <1>7, <2>1
<1> QED
  BY <1>2, <1>6, <1>7, WordIs DEF Types

\* A word behind the others.
Longer(at, n, end) == [i \in 1 .. (n + 1) + 1 |-> IF i = (n + 1) + 1 THEN end ELSE at[i]]

IsLonger(at, n, data, e, to, new) ==
  /\ Layout(to, n + 1, new)
  /\ \A i \in 1 .. n : to[i] = at[i] /\ Room(to, i) = Room(at, i)
  /\ to[n + 1] = Len(data) /\ Room(to, n + 1) = Len(e)
  /\ \A w : \A i \in 1 .. n : \A val, size :
       size \in Nat /\ size <= Room(at, i) /\ WordAt(w, data, at[i], val, size)
         => WordAt(w, new, to[i], val, size)
  /\ \A w : \A val : WordAt(w, e, 0, val, Len(e)) => WordAt(w, new, to[n + 1], val, Len(e))

LEMMA LayoutNext ==
  ASSUME NEW at, NEW n, NEW data, Layout(at, n, data), NEW e \in Seq(Nat), Len(e) \in Nat \ {0},
         NEW new, new = data \o e,
         NEW to, to = Longer(at, n, Len(data) + Len(e))
  PROVE  IsLonger(at, n, data, e, to, new)
<1>1. /\ n \in Nat /\ data \in Seq(Nat) /\ Len(data) \in Nat
      /\ at \in [1 .. n + 1 -> Nat] /\ at[1] = 0 /\ at[n + 1] = Len(data)
      /\ \A i \in 1 .. n : at[i] < at[i + 1]
  BY DEF Layout
<1> DEFINE l == Len(data)
           m == Len(e)
<1>2. /\ new \in Seq(Nat) /\ Len(new) = l + m
      /\ \A p \in 1 .. l : new[p] = data[p]
      /\ \A p \in 1 .. m : new[l + p] = e[p]
  BY <1>1
<1>3. l \in Nat /\ m \in Nat \ {0}
  BY <1>1
<1> HIDE DEF l, m
<1>4. /\ \A i \in 1 .. n + 1 : to[i] = at[i]
      /\ to[(n + 1) + 1] = l + m
      /\ to \in [1 .. (n + 1) + 1 -> Nat]
  <2>1. \A i \in 1 .. n + 1 : i \in 1 .. (n + 1) + 1 /\ i # (n + 1) + 1
    BY <1>1
  <2>2. (n + 1) + 1 \in 1 .. (n + 1) + 1 /\ l + m \in Nat
    BY <1>1, <1>3
  <2>3. \A i \in 1 .. (n + 1) + 1 : i # (n + 1) + 1 => i \in 1 .. n + 1 /\ at[i] \in Nat
    BY <1>1
  <2>4. to = [i \in 1 .. (n + 1) + 1 |-> IF i = (n + 1) + 1 THEN l + m ELSE at[i]]
    BY DEF l, m, Longer
  <2>5. \A i \in 1 .. (n + 1) + 1 : to[i] = IF i = (n + 1) + 1 THEN l + m ELSE at[i]
    BY <2>4
  <2>6. \A i \in 1 .. (n + 1) + 1 : to[i] \in Nat
    BY <2>2, <2>3, <2>5
  <2>7. to \in [1 .. (n + 1) + 1 -> Nat]
    BY <2>4, <2>6
  <2> QED
    BY <2>1, <2>2, <2>5, <2>7
<1>5. 1 \in 1 .. n + 1 /\ n + 1 \in 1 .. n + 1 /\ \A i \in 1 .. n : i \in 1 .. n + 1 /\ i + 1 \in 1 .. n + 1
  BY <1>1
<1>6. \A i \in 1 .. n + 1 : i \in 1 .. n \/ i = n + 1
  BY <1>1
<1>7. to[n + 1] = l /\ to[1] = 0 /\ \A i \in 1 .. n : to[i] = at[i] /\ to[i + 1] = at[i + 1]
  BY <1>1, <1>4, <1>5 DEF l
<1>8. \A i \in 1 .. n + 1 : to[i] < to[i + 1]
  <2>1. l < l + m
    BY <1>3
  <2> QED
    BY <1>1, <1>4, <1>6, <1>7, <2>1
<1>9. Layout(to, n + 1, new)
  BY <1>1, <1>2, <1>4, <1>7, <1>8 DEF Layout
<1>10. \A i \in 1 .. n : Room(to, i) = Room(at, i)
  BY <1>7 DEF Room
<1>11. Room(to, n + 1) = m
  BY <1>3, <1>4, <1>7 DEF Room
<1>12. ASSUME NEW w, NEW i \in 1 .. n, NEW val, NEW size, size \in Nat, size <= Room(at, i),
              WordAt(w, data, at[i], val, size)
       PROVE  WordAt(w, new, to[i], val, size)
  <2>0. at[i] \in Nat /\ Room(at, i) \in Nat /\ at[i] + Room(at, i) = at[i + 1] /\ at[i + 1] <= l
    BY WordsApart DEF l
  <2>1. PICK from \in Nat, room \in Nat : from = at[i] /\ room = Room(at, i) /\ from + room <= l
    BY <2>0
  <2>2. /\ from + size <= Len(new)
        /\ \A b \in 1 .. size : from + b \in 1 .. l
    <3>1. size \in Nat /\ size <= room
      BY <1>12, <2>1
    <3>2. Len(new) = l + m /\ l \in Nat /\ m \in Nat /\ from \in Nat /\ room \in Nat /\ from + room <= l
      BY <1>2, <1>3, <2>1
    <3> QED
      BY <3>1, <3>2
  <2>3. WordAt(w, data, from, val, size) /\ to[i] = from
    BY <1>7, <1>12, <2>1
  <2>4. \A b \in 1 .. size : new[from + b] = data[from + b]
    BY <1>2, <2>2
  <2>5. Copied(data, from, new, from, size)
    BY <2>2, <2>4 DEF Copied
  <2> QED
    BY <2>3, <2>5, WordKept
<1>13. ASSUME NEW w, NEW val, WordAt(w, e, 0, val, m) PROVE WordAt(w, new, l, val, m)
  <2>1. l + m <= Len(new) /\ \A b \in 1 .. m : 0 + b = b
    BY <1>2, <1>3
  <2>2. \A b \in 1 .. m : new[l + b] = e[0 + b]
    BY <1>2, <2>1
  <2>3. Copied(e, 0, new, l, m)
    BY <1>3, <2>1, <2>2 DEF Copied
  <2> QED
    BY <1>13, <2>3, WordKept
<1> QED
  BY <1>7, <1>9, <1>10, <1>11, <1>12, <1>13 DEF l, m, IsLonger
LEMMA HeadsNext ==
  ASSUME NEW words, WellFormed(words), NEW n \in Nat, n + 1 \in 1 .. Len(words),
         NEW at, NEW ins, Heads(words, n, at, ins), NEW pos \in Nat,
         NEW to, \A i \in 1 .. n : to[i] = at[i], to[n + 1] = pos,
         NEW new, new = IF words[n + 1].type = "op" THEN Append(ins, pos) ELSE ins
  PROVE  Heads(words, n + 1, to, new)
<1>1. /\ ins \in Seq(Nat) /\ Len(ins) \in Nat
      /\ \A i \in 1 .. n : words[i].type = "op" =>
           words[i].val + 1 \in 1 .. Len(ins) /\ ins[words[i].val + 1] = at[i]
      /\ \A m \in 1 .. Len(ins) : \E i \in 1 .. n : words[i] = Op(m - 1)
  BY DEF Heads
<1>2. \A i \in 1 .. n + 1 : i \in 1 .. n \/ i = n + 1
  OBVIOUS
<1>3. \A i \in 1 .. n : i \in 1 .. n + 1
  OBVIOUS
<1>4. CASE words[n + 1].type # "op"
  BY <1>1, <1>2, <1>3, <1>4 DEF Heads
<1>5. CASE words[n + 1].type = "op"
  <2> DEFINE l == Len(ins)
  <2>1. /\ new \in Seq(Nat) /\ Len(new) = l + 1 /\ new[l + 1] = pos
        /\ \A m \in 1 .. l : new[m] = ins[m]
    BY <1>1, <1>5
  <2> HIDE DEF l
  <2>0. l \in Nat
    BY <1>1 DEF l
  <2>2. words[n + 1].val = l
    <3> DEFINE v == words[n + 1].val
    <3>1. /\ v \in Nat
          /\ v = 0 \/ \E h \in 1 .. n : words[h] = Op(v - 1)
          /\ \A h \in 1 .. n : words[h].type = "op" => words[h].val < v
      <4>1. (n + 1) - 1 = n
        OBVIOUS
      <4> QED
        BY <1>5, <4>1, OpsAre
    <3>2. l # 0 => l - 1 < v
      <4>1. SUFFICES ASSUME l # 0 PROVE l - 1 < v
        OBVIOUS
      <4>2. l \in 1 .. l
        BY <2>0, <4>1
      <4>3. PICK i \in 1 .. n : words[i] = Op(l - 1)
        BY <1>1, <4>2 DEF l
      <4> QED
        BY <3>1, <4>3 DEF Op
    <3>3. v # 0 => v <= l
      <4>1. SUFFICES ASSUME v # 0 PROVE v <= l
        OBVIOUS
      <4>2. PICK h \in 1 .. n : words[h] = Op(v - 1)
        BY <3>1, <4>1
      <4>3. (v - 1) + 1 \in 1 .. l
        BY <1>1, <4>2 DEF Op, l
      <4> QED
        BY <2>0, <3>1, <4>3
    <3> QED
      BY <2>0, <3>1, <3>2, <3>3
  <2>3. /\ l + 1 \in 1 .. l + 1 /\ \A m \in 1 .. l : m \in 1 .. l + 1
        /\ \A m \in 1 .. l + 1 : m \in 1 .. l \/ m = l + 1
        /\ (l + 1) - 1 = l /\ n + 1 \in 1 .. n + 1
    BY <2>0
  <2>4. ASSUME NEW i \in 1 .. n + 1, words[i].type = "op"
        PROVE  words[i].val + 1 \in 1 .. l + 1 /\ new[words[i].val + 1] = to[i]
    <3>1. CASE i = n + 1
      BY <2>1, <2>2, <2>3, <3>1
    <3>2. CASE i \in 1 .. n
      BY <1>1, <2>1, <2>3, <2>4, <3>2 DEF l
    <3> QED
      BY <1>2, <3>1, <3>2
  <2>5. words[n + 1] = Op(l)
    BY <1>5, <2>2, WordIs DEF Op
  <2>6. ASSUME NEW m \in 1 .. l + 1 PROVE \E i \in 1 .. n + 1 : words[i] = Op(m - 1)
    <3>1. CASE m = l + 1
      BY <2>3, <2>5, <3>1
    <3>2. CASE m \in 1 .. l
      BY <1>1, <1>3, <3>2 DEF l
    <3> QED
      BY <2>3, <3>1, <3>2
  <2> QED
    BY <2>1, <2>4, <2>6 DEF Heads
<1> QED
  BY <1>4, <1>5

\* The words of some types among the first n, and the infos about them.
Of(words, n, types) == {i \in 1 .. n : words[i].type \in types}

Infos(info, words, at, idx) ==
  /\ info \in Seq([type : Types, addr : Nat]) /\ Len(info) = Len(idx)
  /\ \A k \in 1 .. Len(idx) : info[k] = [type |-> words[idx[k]].type, addr |-> at[idx[k]]]

\* The first words have been appended, as they are written.
Appended(words, n, at, idx) ==
  /\ n \in 0 .. Len(words) /\ Layout(at, n, code) /\ Len(code) < Word
  /\ \A i \in 1 .. n :
       /\ WordAt(words[i], code, at[i], Written(words)[i], Room(at, i))
       /\ words[i].type \in {"code", "data"} => Room(at, i) = MaxBlocks
  /\ Heads(words, n, at, final_ins_pos)
  /\ Enumerates(idx, Of(words, n, {"code", "data"}))
  /\ Infos(relocate_info, words, at, idx)

LEMMA OfNext ==
  ASSUME NEW words, NEW n \in Nat, NEW types
  PROVE  /\ words[n + 1].type \in types => Of(words, n + 1, types) = Of(words, n, types) \union {n + 1}
         /\ words[n + 1].type \notin types => Of(words, n + 1, types) = Of(words, n, types)
<1>1. n + 1 \in 1 .. n + 1 /\ \A i : i \in 1 .. n + 1 <=> i \in 1 .. n \/ i = n + 1
  OBVIOUS
<1> QED
  BY <1>1 DEF Of

LEMMA InfosNext ==
  ASSUME NEW info, NEW words, NEW at, NEW idx, Infos(info, words, at, idx), NEW to, NEW i \in Nat,
         NEW new, Extended(idx, new, i), \A k \in 1 .. Len(idx) : to[idx[k]] = at[idx[k]],
         words[i].type \in Types, to[i] \in Nat,
         NEW e, e = [type |-> words[i].type, addr |-> to[i]]
  PROVE  Infos(Append(info, e), words, to, new)
<1> DEFINE all == Append(info, e)
           l == Len(idx)
<1>1. /\ info \in Seq([type : Types, addr : Nat]) /\ Len(info) = l
      /\ \A k \in 1 .. l : info[k] = [type |-> words[idx[k]].type, addr |-> at[idx[k]]]
  BY DEF Infos
<1>2. /\ e \in [type : Types, addr : Nat] /\ l \in Nat
      /\ Len(new) = l + 1 /\ new[l + 1] = i
      /\ \A k \in 1 .. l : new[k] = idx[k]
      /\ \A k \in 1 .. l : to[idx[k]] = at[idx[k]]
  BY DEF Extended
<1>3. /\ all \in Seq([type : Types, addr : Nat]) /\ Len(all) = l + 1
      /\ \A k \in 1 .. l : all[k] = info[k]
      /\ all[l + 1] = e
  BY <1>1, <1>2
<1> HIDE DEF all
<1>4. \A k \in 1 .. l + 1 : k \in 1 .. l \/ k = l + 1
  BY <1>2
<1>5. ASSUME NEW k \in 1 .. l + 1
      PROVE  all[k] = [type |-> words[new[k]].type, addr |-> to[new[k]]]
  <2>1. CASE k \in 1 .. l
    <3>1. all[k] = info[k] /\ new[k] = idx[k] /\ to[idx[k]] = at[idx[k]]
      BY <1>2, <1>3, <2>1
    <3>2. info[k] = [type |-> words[idx[k]].type, addr |-> at[idx[k]]]
      BY <1>1, <2>1
    <3> QED
      BY <3>1, <3>2
  <2>2. CASE k = l + 1
    BY <1>2, <1>3, <2>2
  <2> QED
    BY <1>4, <2>1, <2>2
<1>6. Len(new) = l + 1
  BY <1>2
<1> HIDE DEF l
<1>7. Infos(all, words, to, new)
  BY <1>3, <1>5, <1>6 DEF Infos
<1> QED
  BY <1>7 DEF all
LEMMA NothingAppended ==
  ASSUME Init
  PROVE  \E at, idx : Appended(program.words, word, at, idx)
<1> DEFINE words == program.words
           at == [i \in 1 .. 1 |-> 0]
           idx == <<>>
<1>1. code = <<>> /\ word = 0 /\ final_ins_pos = <<>> /\ relocate_info = <<>> /\ WellFormed(words)
  BY ProgramsAssumption DEF Init
<1>2. Len(words) \in Nat
  BY <1>1 DEF WellFormed
<1>3. Layout(at, 0, code) /\ Len(code) < Word
  <2>1. at \in [1 .. 0 + 1 -> Nat] /\ at[1] = 0 /\ at[0 + 1] = 0
    OBVIOUS
  <2>2. code \in Seq(Nat) /\ Len(code) = 0 /\ 0 < Word
    BY <1>1, Widths
  <2> QED
    BY <2>1, <2>2 DEF Layout
<1>4. Heads(words, 0, at, final_ins_pos)
  BY <1>1 DEF Heads
<1>5. Of(words, 0, {"code", "data"}) = {}
  BY DEF Of
<1>6. Infos(relocate_info, words, at, idx)
  <2>1. <<>> \in Seq([type : Types, addr : Nat]) /\ Len(<<>>) = 0
    OBVIOUS
  <2> QED
    BY <1>1, <2>1 DEF Infos
<1> HIDE DEF at, idx
<1>0. 0 \in 0 .. Len(words) /\ \A i \in 1 .. 0 : FALSE
  BY <1>2
<1>7. Appended(words, 0, at, idx)
  BY <1>0, <1>3, <1>4, <1>5, <1>6, EnumeratesNone DEF Appended, idx
<1> QED
  BY <1>1, <1>7

LEMMA AppendWordAppends ==
  ASSUME NEW words, words = program.words, WellFormed(words),
         NEW at, NEW idx, Appended(words, word, at, idx), AppendWord
  PROVE  \E to, new : Appended(words, word, to, new)'
<1> DEFINE n == word
           w == words[n + 1]
           e == Encoded(w)
           l == Len(code)
           m == Len(e)
           isRef == w.type \in {"code", "data"}
<1>1. /\ n < Len(words) /\ l + m < Word /\ code' = code \o e
      /\ final_ins_pos' = IF w.type = "op" THEN Append(final_ins_pos, l) ELSE final_ins_pos
      /\ relocate_info' = IF isRef THEN Append(relocate_info, [type |-> w.type, addr |-> l])
                                   ELSE relocate_info
      /\ word' = n + 1 /\ program' = program
  BY DEF AppendWord, Addresses
<1>2. /\ n \in 0 .. Len(words) /\ Layout(at, n, code)
      /\ \A i \in 1 .. n :
           /\ WordAt(words[i], code, at[i], Written(words)[i], Room(at, i))
           /\ words[i].type \in {"code", "data"} => Room(at, i) = MaxBlocks
      /\ Heads(words, n, at, final_ins_pos)
      /\ Enumerates(idx, Of(words, n, {"code", "data"}))
      /\ Infos(relocate_info, words, at, idx)
  BY DEF Appended
<1>3. n \in Nat /\ n + 1 \in 1 .. Len(words) /\ Len(words) \in Nat
  BY <1>1, <1>2 DEF WellFormed
<1>4. /\ e \in Seq(Nat) /\ m \in Nat \ {0} /\ w.type \in Types
      /\ WordAt(w, e, 0, Written(words)[n + 1], m)
      /\ isRef => m = MaxBlocks
  BY <1>3, EncodedIs, WordIs
<1>5. l \in Nat
  BY <1>2 DEF Layout
<1> HIDE DEF e, m, l, w
<1> PICK to : to = Longer(at, n, l + m)
  OBVIOUS
<1> PICK new : new = IF isRef THEN Append(idx, n + 1) ELSE idx
  OBVIOUS
<1>6. /\ Layout(to, n + 1, code')
      /\ \A i \in 1 .. n : to[i] = at[i] /\ Room(to, i) = Room(at, i)
      /\ to[n + 1] = l /\ Room(to, n + 1) = m
      /\ \A x : \A i \in 1 .. n : \A val, size :
           size \in Nat /\ size <= Room(at, i) /\ WordAt(x, code, at[i], val, size)
             => WordAt(x, code', to[i], val, size)
      /\ \A x : \A val : WordAt(x, e, 0, val, m) => WordAt(x, code', to[n + 1], val, m)
  <2>1. IsLonger(at, n, code, e, to, code')
    BY <1>1, <1>2, <1>4, LayoutNext DEF l, m
  <2> QED
    BY <2>1 DEF IsLonger, l, m
<1>7. Len(code') < Word
  <2>1. Len(code') = l + m
    BY <1>1, <1>2, <1>4 DEF l, m, Layout
  <2> QED
    BY <1>1, <2>1
<1>8. ASSUME NEW i \in 1 .. n + 1
      PROVE  /\ WordAt(words[i], code', to[i], Written(words)[i], Room(to, i))
             /\ words[i].type \in {"code", "data"} => Room(to, i) = MaxBlocks
  <2>1. CASE i = n + 1
    BY <1>4, <1>6, <2>1 DEF w
  <2>2. CASE i \in 1 .. n
    <3>1. Room(at, i) \in Nat /\ Room(at, i) <= Room(at, i)
      BY <1>2, <2>2, WordsApart
    <3> QED
      BY <1>2, <1>6, <2>2, <3>1
  <2> QED
    BY <1>3, <2>1, <2>2
<1>9. Heads(words, n + 1, to, final_ins_pos')
  BY <1>1, <1>2, <1>3, <1>5, <1>6, HeadsNext DEF w
<1>10. idx \in Seq(Nat) /\ Len(idx) \in Nat /\ \A k \in 1 .. Len(idx) : idx[k] \in 1 .. n
  BY <1>2 DEF Enumerates, Of
<1>11. /\ Enumerates(new, Of(words, n + 1, {"code", "data"}))
       /\ Infos(relocate_info', words, to, new)
  <2>1. CASE isRef
    <3>0. \A j \in Of(words, n, {"code", "data"}) : j < n + 1
      BY <1>3 DEF Of
    <3>1. /\ new = Append(idx, n + 1) /\ n + 1 \in Nat
          /\ Of(words, n + 1, {"code", "data"}) = Of(words, n, {"code", "data"}) \union {n + 1}
      <4>1. words[n + 1].type \in {"code", "data"}
        BY <2>1 DEF w
      <4>2. Of(words, n + 1, {"code", "data"}) = Of(words, n, {"code", "data"}) \union {n + 1}
        <5>1. n \in Nat
          BY <1>3
        <5> QED
          BY <4>1, <5>1, OfNext, Zenon
      <4> QED
        BY <1>3, <2>1, <4>2
    <3>2. Enumerates(new, Of(words, n + 1, {"code", "data"})) /\ Extended(idx, new, n + 1)
      BY <1>2, <3>0, <3>1, EnumeratesNext
    <3>3. \A k \in 1 .. Len(idx) : to[idx[k]] = at[idx[k]]
      BY <1>6, <1>10
    <3>4. relocate_info' = Append(relocate_info, [type |-> words[n + 1].type, addr |-> to[n + 1]])
      BY <1>1, <1>6, <2>1 DEF w
    <3>5. words[n + 1].type \in Types /\ to[n + 1] \in Nat
      BY <1>4, <1>5, <1>6 DEF w
    <3>6. PICK info : info = [type |-> words[n + 1].type, addr |-> to[n + 1]]
      OBVIOUS
    <3>7. Infos(Append(relocate_info, info), words, to, new)
      <4>1. /\ Infos(relocate_info, words, at, idx)
            /\ n + 1 \in Nat
            /\ Extended(idx, new, n + 1)
        BY <1>2, <3>1, <3>2
      <4> QED
        BY <4>1, <3>3, <3>5, <3>6, InfosNext, SMTT(40)
    <3> QED
      BY <3>2, <3>4, <3>6, <3>7
  <2>2. CASE ~isRef
    <3>1. new = idx /\ relocate_info' = relocate_info
      BY <1>1, <2>2
    <3>2. Of(words, n + 1, {"code", "data"}) = Of(words, n, {"code", "data"})
      <4>1. PICK types : types = {"code", "data"}
        OBVIOUS
      <4>2. words[n + 1].type \notin types
        BY <2>2, <4>1 DEF w
      <4>3. Of(words, n + 1, types) = Of(words, n, types)
        BY <1>3, <4>2, OfNext, Zenon
      <4> QED
        BY <4>1, <4>3
    <3>3. \A k \in 1 .. Len(idx) : to[idx[k]] = at[idx[k]]
      BY <1>6, <1>10
    <3>4. Infos(relocate_info, words, to, idx)
      BY <1>2, <3>3 DEF Infos
    <3> QED
      BY <1>2, <3>1, <3>2, <3>4
  <2> QED
    BY <2>1, <2>2
<1>12. n + 1 \in 0 .. Len(words)
  BY <1>3
<1>13. Appended(words, word, to, new)'
  BY <1>1, <1>6, <1>7, <1>8, <1>9, <1>11, <1>12 DEF Appended
<1> QED
  BY <1>13
-----------------------------------------------------------------------------
(* Addresses in their smallest sizes, and the plan of the bytes that this  *)
(* saves.                                                                  *)

Mixed(words, done, f, g) == [i \in 1 .. Len(words) |-> IF i \in done THEN f[i] ELSE g[i]]
Rooms(words, at) == [i \in 1 .. Len(words) |-> Room(at, i)]
Smallest(words, val) == [i \in 1 .. Len(words) |-> Blocks(val[i])]

\* Some words carry new numbers in the smallest sizes, the others what they had.
PartlyShort(words, at, data, done, new, old) ==
  Coded(words, at, data, Mixed(words, done, new, old),
        Mixed(words, done, Smallest(words, new), Rooms(words, at)))

LEMMA MixedIs ==
  ASSUME NEW words, NEW done, NEW f, NEW g, NEW i \in 1 .. Len(words)
  PROVE  Mixed(words, done, f, g)[i] = IF i \in done THEN f[i] ELSE g[i]
BY DEF Mixed

IsShortened(words, at, data, done, new, old, i) ==
  /\ at[i] \in Nat /\ Room(at, i) \in Nat /\ Blocks(new[i]) \in Nat
  /\ DecodeU64(data, at[i]) = [val |-> old[i], aft |-> at[i] + Room(at, i)]
  /\ (at[i] + Room(at, i)) - at[i] = Room(at, i)
  /\ Len(EncodeU64(new[i])) = Blocks(new[i])
  /\ PartlyShort(words, at, Patched(data, at[i], EncodeU64(new[i])), done \union {i}, new, old)
  /\ Len(Patched(data, at[i], EncodeU64(new[i]))) = Len(data)

LEMMA ShortenOne ==
  ASSUME NEW words, NEW at, NEW data, NEW done, NEW new, NEW old, PartlyShort(words, at, data, done, new, old),
         NEW i \in 1 .. Len(words), i \notin done, words[i].type # "op",
         new[i] \in 0 .. Word - 1, Blocks(new[i]) <= Room(at, i)
  PROVE  IsShortened(words, at, data, done, new, old, i)
<1> DEFINE val == Mixed(words, done, new, old)
           size == Mixed(words, done, Smallest(words, new), Rooms(words, at))
           val2 == Mixed(words, done \union {i}, new, old)
           size2 == Mixed(words, done \union {i}, Smallest(words, new), Rooms(words, at))
           v == new[i]
           s == Blocks(v)
<1>1. Coded(words, at, data, val, size)
  BY DEF PartlyShort
<1>2. val[i] = old[i] /\ size[i] = Room(at, i)
  BY MixedIs DEF Rooms
<1>3. val2[i] = v /\ size2[i] = s
  BY MixedIs DEF Smallest
<1>4. \A j \in 1 .. Len(words) : j # i => val2[j] = val[j] /\ size2[j] = size[j]
  BY MixedIs
<1>5. s \in Nat \ {0} /\ s <= s
  BY BlocksAre
<1> HIDE DEF val, size, val2, size2
<1>6. /\ at[i] \in Nat /\ Room(at, i) \in Nat
      /\ DecodeU64(data, at[i]) = [val |-> old[i], aft |-> at[i] + Room(at, i)]
      /\ (at[i] + Room(at, i)) - at[i] = Room(at, i)
  BY <1>1, <1>2, CodedIsRead
<1>7. Len(EncodeU64(v)) = s /\ EncodeU64(v) = EncodeIn(v, s)
  BY <1>5, EncodedBytes DEF EncodeU64
<1> HIDE DEF s, v
<1>8. v \in 0 .. Word - 1 /\ Blocks(v) = s /\ s <= Room(at, i)
  BY DEF v, s
<1>9. /\ Coded(words, at, Patched(data, at[i], EncodeIn(v, s)), val2, size2)
      /\ Len(Patched(data, at[i], EncodeIn(v, s))) = Len(data)
  BY <1>1, <1>3, <1>4, <1>5, <1>8, PutInPlace
<1> QED
  BY <1>5, <1>6, <1>7, <1>9 DEF PartlyShort, val2, size2, v, s, IsShortened

IsShort(new, c, p, r, addr, size, val) ==
  new = [code |-> Patched(c, addr, EncodeU64(val)),
         plan |-> Append(p, [addr |-> addr, prev |-> size, new |-> Len(EncodeU64(val))]), relocates |-> r]

LEMMA ShortenIs ==
  ASSUME NEW c, NEW p, NEW r, NEW addr, NEW size, NEW val
  PROVE  IsShort(Shorten([code |-> c, plan |-> p, relocates |-> r], addr, size, val), c, p, r, addr, size, val)
<1> PICK o : o = [code |-> c, plan |-> p, relocates |-> r]
  OBVIOUS
<1>1. ASSUME NEW x, NEW y PROVE [o EXCEPT !.code = x, !.plan = y] = [code |-> x, plan |-> y, relocates |-> r]
  <2>1. [o EXCEPT !.code = x, !.plan = y] = [[o EXCEPT !.code = x] EXCEPT !.plan = y]
    OBVIOUS
  <2>2. [o EXCEPT !.code = x] = [code |-> x, plan |-> p, relocates |-> r]
    OBVIOUS
  <2>3. [[code |-> x, plan |-> p, relocates |-> r] EXCEPT !.plan = y] = [code |-> x, plan |-> y, relocates |-> r]
    OBVIOUS
  <2> QED
    BY <2>1, <2>2, <2>3, Zenon
<1>2. o.code = c /\ o.plan = p
  OBVIOUS
<1>3. Shorten(o, addr, size, val) =
        [o EXCEPT !.code = Patched(c, addr, EncodeU64(val)),
                  !.plan = Append(p, [addr |-> addr, prev |-> size, new |-> Len(EncodeU64(val))])]
  BY <1>2, Zenon DEF Shorten
<1>4. Shorten(o, addr, size, val) =
        [code |-> Patched(c, addr, EncodeU64(val)),
         plan |-> Append(p, [addr |-> addr, prev |-> size, new |-> Len(EncodeU64(val))]), relocates |-> r]
  BY <1>1, <1>3, Zenon
<1> QED
  BY <1>4, Zenon DEF IsShort

LEMMA ShortenAgain ==
  ASSUME NEW c, NEW p, NEW addr, NEW size, NEW val
  PROVE  Shorten([code |-> c, plan |-> p], addr, size, val) =
           [code |-> Patched(c, addr, EncodeU64(val)),
            plan |-> Append(p, [addr |-> addr, prev |-> size, new |-> Len(EncodeU64(val))])]
<1> PICK o : o = [code |-> c, plan |-> p]
  OBVIOUS
<1>1. ASSUME NEW x, NEW y PROVE [o EXCEPT !.code = x, !.plan = y] = [code |-> x, plan |-> y]
  <2>1. [o EXCEPT !.code = x, !.plan = y] = [[o EXCEPT !.code = x] EXCEPT !.plan = y]
    OBVIOUS
  <2>2. [o EXCEPT !.code = x] = [code |-> x, plan |-> p]
    OBVIOUS
  <2>3. [[code |-> x, plan |-> p] EXCEPT !.plan = y] = [code |-> x, plan |-> y]
    OBVIOUS
  <2> QED
    BY <2>1, <2>2, <2>3, Zenon
<1>2. o.code = c /\ o.plan = p
  OBVIOUS
<1>3. Shorten(o, addr, size, val) =
        [o EXCEPT !.code = Patched(c, addr, EncodeU64(val)),
                  !.plan = Append(p, [addr |-> addr, prev |-> size, new |-> Len(EncodeU64(val))])]
  BY <1>2, Zenon DEF Shorten
<1> QED
  BY <1>1, <1>3, Zenon

\* The plan for the first k of some words.
PlanFor(pl, k, at, size, idx) ==
  /\ pl \in Seq([addr : Nat, prev : Nat, new : Nat]) /\ Len(pl) = k
  /\ \A l \in 1 .. k : pl[l] = [addr |-> at[idx[l]], prev |-> Room(at, idx[l]), new |-> size[idx[l]]]

LEMMA PlanForNext ==
  ASSUME NEW pl, NEW k \in Nat, NEW at, NEW size, NEW idx, PlanFor(pl, k, at, size, idx),
         NEW i, i = idx[k + 1], at[i] \in Nat, Room(at, i) \in Nat, size[i] \in Nat
  PROVE  PlanFor(Append(pl, [addr |-> at[i], prev |-> Room(at, i), new |-> size[i]]), k + 1, at, size, idx)
<1> DEFINE e == [addr |-> at[i], prev |-> Room(at, i), new |-> size[i]]
           T == [addr : Nat, prev : Nat, new : Nat]
           all == Append(pl, e)
<1>1. e \in T /\ pl \in Seq(T) /\ Len(pl) = k
  BY DEF PlanFor
<1> HIDE DEF e, T
<1>2. /\ all \in Seq(T) /\ Len(all) = k + 1 /\ all[k + 1] = e
      /\ \A l \in 1 .. k : all[l] = pl[l]
  BY <1>1
<1> HIDE DEF all
<1>3. \A l \in 1 .. k + 1 : l \in 1 .. k \/ l = k + 1
  OBVIOUS
<1>4. ASSUME NEW l \in 1 .. k + 1
      PROVE  all[l] = [addr |-> at[idx[l]], prev |-> Room(at, idx[l]), new |-> size[idx[l]]]
  <2>1. CASE l = k + 1
    BY <1>2, <2>1 DEF e
  <2>2. CASE l \in 1 .. k
    BY <1>2, <2>2 DEF PlanFor
  <2> QED
    BY <1>3, <2>1, <2>2
<1>5. PlanFor(all, k + 1, at, size, idx)
  BY <1>2, <1>4 DEF PlanFor, T
<1> QED
  BY <1>5 DEF all, e

\* The places of some words.
Places(places, at, idx) ==
  /\ places \in Seq(Nat) /\ Len(places) = Len(idx)
  /\ \A k \in 1 .. Len(idx) : places[k] = at[idx[k]]

LEMMA PlacesNext ==
  ASSUME NEW places, NEW at, NEW idx, NEW i \in Nat, Places(places, at, idx), idx \in Seq(Nat), at[i] \in Nat
  PROVE  Places(Append(places, at[i]), at, Append(idx, i))
<1> DEFINE l == Len(idx)
<1>0. PICK a \in Nat : a = at[i]
  OBVIOUS
<1>1. l \in Nat /\ places \in Seq(Nat) /\ Len(places) = l /\ \A k \in 1 .. l : places[k] = at[idx[k]]
  BY DEF Places
<1>2. /\ Append(places, a) \in Seq(Nat) /\ Len(Append(places, a)) = l + 1
      /\ \A k \in 1 .. l : Append(places, a)[k] = places[k]
      /\ Append(places, a)[l + 1] = a
  BY <1>1
<1>3. /\ Len(Append(idx, i)) = l + 1
      /\ \A k \in 1 .. l : Append(idx, i)[k] = idx[k]
      /\ Append(idx, i)[l + 1] = i
  OBVIOUS
<1> HIDE DEF l
<1>4. \A k \in 1 .. l + 1 : k \in 1 .. l \/ k = l + 1
  BY <1>1
<1>5. \A k \in 1 .. l + 1 : Append(places, a)[k] = at[Append(idx, i)[k]]
  BY <1>0, <1>1, <1>2, <1>3, <1>4
<1> QED
  BY <1>0, <1>2, <1>3, <1>5 DEF Places
\* After resolving the first k addresses.
Resolved(words, at, idx, k, o) ==
  \E c, p, r, cw :
    /\ o = [code |-> c, plan |-> p, relocates |-> r]
    /\ PartlyShort(words, at, c, UpTo(idx, k), Meant(words, final_ins_pos), Written(words))
    /\ Len(c) = Len(code)
    /\ PlanFor(p, k, at, Smallest(words, Meant(words, final_ins_pos)), idx)
    /\ Enumerates(cw, {i \in UpTo(idx, k) : words[i].type = "code"})
    /\ Places(r, at, cw)

Relocated(o, addr) == [o EXCEPT !.relocates = Append(@, addr)]

LEMMA ResolveCode ==
  ASSUME NEW o, NEW addr, NEW val, NEW aft, DecodeU64(o.code, addr) = [val |-> val, aft |-> aft]
  PROVE  ResolveOne(o, [type |-> "code", addr |-> addr]) =
           Relocated(Shorten(o, addr, aft - addr, final_ins_pos[val + 1]), addr)
BY SMTT(40) DEF ResolveOne, Relocated

LEMMA ResolveData ==
  ASSUME NEW o, NEW addr, NEW val, NEW aft, DecodeU64(o.code, addr) = [val |-> val, aft |-> aft]
  PROVE  ResolveOne(o, [type |-> "data", addr |-> addr]) = Shorten(o, addr, aft - addr, DataPos[val])
BY DEF ResolveOne

LEMMA RelocateAppended ==
  ASSUME NEW c, NEW p, NEW r, NEW a
  PROVE  Relocated([code |-> c, plan |-> p, relocates |-> r], a) =
           [code |-> c, plan |-> p, relocates |-> Append(r, a)]
BY DEF Relocated

LEMMA ResolveOneResolves ==
  ASSUME NEW words, WellFormed(words), NEW at, NEW idx, Appended(words, Len(words), at, idx),
         NEW k \in Nat, k + 1 <= Len(idx), NEW o, Resolved(words, at, idx, k, o)
  PROVE  Resolved(words, at, idx, k + 1, ResolveOne(o, relocate_info[k + 1]))
<1> DEFINE meant == Meant(words, final_ins_pos)
           old == Written(words)
           least == Smallest(words, meant)
<1>1. PICK c, p, r, cw :
        /\ o = [code |-> c, plan |-> p, relocates |-> r]
        /\ PartlyShort(words, at, c, UpTo(idx, k), meant, old) /\ Len(c) = Len(code)
        /\ PlanFor(p, k, at, least, idx)
        /\ Enumerates(cw, {i \in UpTo(idx, k) : words[i].type = "code"})
        /\ Places(r, at, cw)
  BY DEF Resolved
<1>2. /\ Layout(at, Len(words), code) /\ Len(code) < Word
      /\ \A i \in 1 .. Len(words) : words[i].type \in {"code", "data"} => Room(at, i) = MaxBlocks
      /\ Heads(words, Len(words), at, final_ins_pos)
      /\ Enumerates(idx, Of(words, Len(words), {"code", "data"}))
      /\ Infos(relocate_info, words, at, idx)
  BY DEF Appended
<1>3. PICK i \in 1 .. Len(words) :
        /\ i = idx[k + 1] /\ i \in Nat /\ words[i].type \in {"code", "data"}
        /\ UpTo(idx, k + 1) = UpTo(idx, k) \union {i}
        /\ \A j \in UpTo(idx, k) : j < i
        /\ k + 1 \in 1 .. Len(idx)
  <2>1. /\ k + 1 \in 1 .. Len(idx) /\ idx[k + 1] \in Nat
        /\ idx[k + 1] \in Of(words, Len(words), {"code", "data"})
        /\ UpTo(idx, k + 1) = UpTo(idx, k) \union {idx[k + 1]}
        /\ \A j \in UpTo(idx, k) : j < idx[k + 1]
    BY <1>2, UpToNext
  <2>2. idx[k + 1] \in 1 .. Len(words) /\ words[idx[k + 1]].type \in {"code", "data"}
    BY <2>1 DEF Of
  <2> QED
    BY <2>1, <2>2, Zenon
<1>4. i \notin UpTo(idx, k)
  BY <1>3
<1>5. meant[i] \in 0 .. Word - 1
  BY <1>2, <1>3, MeantFits
<1>6. Blocks(meant[i]) <= Room(at, i)
  <2>1. \A v \in 0 .. Word - 1 : Blocks(v) <= MaxBlocks
    BY BlocksAre
  <2> QED
    BY <1>2, <1>3, <1>5, <2>1
<1>7. relocate_info[k + 1] = [type |-> words[i].type, addr |-> at[i]]
  BY <1>2, <1>3 DEF Infos
<1>8. old[i] = words[i].val
  BY <1>3 DEF Written
<1>9. /\ words[i].type = "code" => meant[i] = final_ins_pos[words[i].val + 1]
      /\ words[i].type = "data" => meant[i] = DataPos[words[i].val]
  BY MeantIs
<1>10. least[i] = Blocks(meant[i])
  BY DEF Smallest
<1> HIDE DEF meant, old, least
<1> DEFINE c2 == Patched(c, at[i], EncodeU64(meant[i]))
<1>11. /\ at[i] \in Nat /\ Room(at, i) \in Nat /\ Blocks(meant[i]) \in Nat
       /\ DecodeU64(c, at[i]) = [val |-> old[i], aft |-> at[i] + Room(at, i)]
       /\ (at[i] + Room(at, i)) - at[i] = Room(at, i)
       /\ Len(EncodeU64(meant[i])) = Blocks(meant[i])
       /\ PartlyShort(words, at, c2, UpTo(idx, k) \union {i}, meant, old)
       /\ Len(c2) = Len(c)
  <2>1. words[i].type # "op"
    BY <1>3
  <2>2. IsShortened(words, at, c, UpTo(idx, k), meant, old, i)
    BY <1>1, <1>4, <1>5, <1>6, <2>1, ShortenOne
  <2> QED
    BY <2>2 DEF IsShortened
<1> DEFINE e == [addr |-> at[i], prev |-> Room(at, i), new |-> least[i]]
           p2 == Append(p, e)
<1>12. PlanFor(p2, k + 1, at, least, idx)
  <2>1. i = idx[k + 1] /\ at[i] \in Nat /\ Room(at, i) \in Nat /\ least[i] \in Nat
    BY <1>3, <1>10, <1>11
  <2>2. PlanFor(p, k, at, least, idx)
    BY <1>1
  <2> QED
    BY <2>1, <2>2, PlanForNext
<1>13. Shorten(o, at[i], Room(at, i), meant[i]) = [code |-> c2, plan |-> p2, relocates |-> r]
  <2>1. Shorten([code |-> c, plan |-> p, relocates |-> r], at[i], Room(at, i), meant[i]) =
          [code |-> Patched(c, at[i], EncodeU64(meant[i])),
           plan |-> Append(p, [addr |-> at[i], prev |-> Room(at, i), new |-> Len(EncodeU64(meant[i]))]),
           relocates |-> r]
    <3>1. IsShort(Shorten([code |-> c, plan |-> p, relocates |-> r], at[i], Room(at, i), meant[i]),
                  c, p, r, at[i], Room(at, i), meant[i])
      BY ShortenIs
    <3> QED
      BY <3>1, Zenon DEF IsShort
  <2>2. Len(EncodeU64(meant[i])) = least[i]
    BY <1>10, <1>11
  <2> QED
    BY <1>1, <2>1, <2>2, Zenon
<1> HIDE DEF c2, e, p2
<1>14. CASE words[i].type = "code"
  <2>1. ResolveOne(o, relocate_info[k + 1]) = [code |-> c2, plan |-> p2, relocates |-> Append(r, at[i])]
    <3>1. o.code = c
      BY <1>1
    <3>2. ResolveOne(o, relocate_info[k + 1]) =
            Relocated(Shorten(o, at[i], Room(at, i), meant[i]), at[i])
      <4>1. DecodeU64(o.code, at[i]) = [val |-> old[i], aft |-> at[i] + Room(at, i)]
        BY <1>11, <3>1
      <4>2. ResolveOne(o, [type |-> "code", addr |-> at[i]]) =
              Relocated(Shorten(o, at[i], (at[i] + Room(at, i)) - at[i], final_ins_pos[old[i] + 1]), at[i])
        BY <4>1, ResolveCode
      <4>3. relocate_info[k + 1] = [type |-> "code", addr |-> at[i]] /\ final_ins_pos[old[i] + 1] = meant[i]
        BY <1>7, <1>8, <1>9, <1>14
      <4> QED
        BY <1>11, <4>2, <4>3, Zenon
    <3> QED
      <4>1. Relocated([code |-> c2, plan |-> p2, relocates |-> r], at[i]) =
              [code |-> c2, plan |-> p2, relocates |-> Append(r, at[i])]
        BY RelocateAppended
      <4> QED
        BY <1>13, <3>2, <4>1, Zenon
  <2>2. {j \in UpTo(idx, k + 1) : words[j].type = "code"} =
          {j \in UpTo(idx, k) : words[j].type = "code"} \union {i}
    BY <1>3, <1>14
  <2>3. Enumerates(Append(cw, i), {j \in UpTo(idx, k + 1) : words[j].type = "code"})
    <3>1. \A j \in {x \in UpTo(idx, k) : words[x].type = "code"} : j < i
      BY <1>3
    <3> QED
      BY <1>1, <1>3, <2>2, <3>1, EnumeratesNext
  <2>4. Places(Append(r, at[i]), at, Append(cw, i))
    <3>1. cw \in Seq(Nat)
      BY <1>1 DEF Enumerates
    <3> QED
      BY <1>1, <1>3, <1>11, <3>1, PlacesNext
  <2> QED
    BY <1>1, <1>3, <1>11, <1>12, <2>1, <2>3, <2>4 DEF Resolved, meant, old, least
<1>15. CASE words[i].type = "data"
  <2>1. ResolveOne(o, relocate_info[k + 1]) = [code |-> c2, plan |-> p2, relocates |-> r]
    <3>1. o.code = c
      BY <1>1
    <3>2. ResolveOne(o, relocate_info[k + 1]) = Shorten(o, at[i], Room(at, i), meant[i])
      <4>1. DecodeU64(o.code, at[i]) = [val |-> old[i], aft |-> at[i] + Room(at, i)]
        BY <1>11, <3>1
      <4>2. ResolveOne(o, [type |-> "data", addr |-> at[i]]) =
              Shorten(o, at[i], (at[i] + Room(at, i)) - at[i], DataPos[old[i]])
        BY <4>1, ResolveData
      <4>3. relocate_info[k + 1] = [type |-> "data", addr |-> at[i]] /\ DataPos[old[i]] = meant[i]
        BY <1>7, <1>8, <1>9, <1>15
      <4> QED
        BY <1>11, <4>2, <4>3, Zenon
    <3> QED
      BY <1>13, <3>2, Zenon
  <2>2. {j \in UpTo(idx, k + 1) : words[j].type = "code"} =
          {j \in UpTo(idx, k) : words[j].type = "code"}
    BY <1>3, <1>15
  <2> QED
    BY <1>1, <1>3, <1>11, <1>12, <2>1, <2>2 DEF Resolved, meant, old, least
<1> QED
  BY <1>3, <1>14, <1>15
\* Addresses have their smallest sizes, the plan says how many bytes they had, and
\* what is not in the plan has all of its bytes.
Sized(words, at, size, planned, pw, cw) ==
  /\ Len(code) < Word
  /\ Coded(words, at, code, Meant(words, final_ins_pos), size)
  /\ Heads(words, Len(words), at, final_ins_pos)
  /\ planned \in SUBSET (1 .. Len(words))
  /\ \A i \in 1 .. Len(words) :
       /\ words[i].type = "code" => i \in planned
       /\ i \in planned => words[i].type # "op"
       /\ i \notin planned => size[i] = Room(at, i)
       /\ words[i].type \in {"code", "data"} => size[i] = Blocks(Meant(words, final_ins_pos)[i])
  /\ Enumerates(pw, planned)
  /\ PlanFor(plan, Len(pw), at, size, pw)
  /\ Enumerates(cw, Of(words, Len(words), {"code"}))
  /\ Places(final_relocates, at, cw)

LEMMA MeantIsFunction ==
  ASSUME NEW words, NEW ins, NEW f, f = Meant(words, ins)
  PROVE  f = [i \in 1 .. Len(words) |-> f[i]]
<1> DEFINE at(i) ==
      CASE words[i].type = "code"    -> ins[words[i].val + 1]
        [] words[i].type = "data"    -> DataPos[words[i].val]
        [] words[i].type = "integer" -> Raw(words[i].val)
        [] words[i].type \in {"op", "plain"} -> words[i].val
<1>1. f = [i \in 1 .. Len(words) |-> at(i)]
  BY DEF Meant
<1> HIDE DEF at
<1> QED
  BY <1>1

AreSized(words, at, data, planned, new, size, pl, idx) ==
  /\ Coded(words, at, data, new, size)
  /\ PlanFor(pl, Len(idx), at, size, idx)
  /\ \A i \in 1 .. Len(words) : size[i] = IF i \in planned THEN Blocks(new[i]) ELSE Room(at, i)

LEMMA ShortIsSized ==
  ASSUME NEW words, NEW at, NEW data, NEW planned \in SUBSET (1 .. Len(words)),
         NEW ins, NEW new, new = Meant(words, ins), NEW old, PartlyShort(words, at, data, planned, new, old),
         \A i \in 1 .. Len(words) : i \notin planned => new[i] = old[i],
         NEW pl, NEW idx, Enumerates(idx, planned),
         PlanFor(pl, Len(idx), at, Smallest(words, new), idx),
         NEW size, size = Mixed(words, planned, Smallest(words, new), Rooms(words, at))
  PROVE  AreSized(words, at, data, planned, new, size, pl, idx)
<1> DEFINE mix == Mixed(words, planned, new, old)
           least == Smallest(words, new)
<1>1. \A i \in 1 .. Len(words) : size[i] = IF i \in planned THEN Blocks(new[i]) ELSE Room(at, i)
  BY MixedIs DEF Smallest, Rooms
<1>2. mix = new
  <2>1. \A i \in 1 .. Len(words) : mix[i] = new[i]
    BY MixedIs
  <2>2. mix = [i \in 1 .. Len(words) |-> mix[i]]
    BY DEF Mixed
  <2>3. new = [i \in 1 .. Len(words) |-> new[i]]
    BY MeantIsFunction
  <2> HIDE DEF mix
  <2> QED
    BY <2>1, <2>2, <2>3
<1>3. Coded(words, at, data, new, size)
  BY <1>2 DEF PartlyShort
<1>4. \A l \in 1 .. Len(idx) : size[idx[l]] = least[idx[l]]
  <2>1. \A i \in planned : least[i] = Blocks(new[i])
    BY DEF Smallest
  <2>2. \A l \in 1 .. Len(idx) : idx[l] \in planned /\ idx[l] \in 1 .. Len(words)
    BY DEF Enumerates
  <2> HIDE DEF least
  <2> QED
    BY <1>1, <2>1, <2>2
<1>5. PlanFor(pl, Len(idx), at, size, idx)
  BY <1>4 DEF PlanFor
<1> QED
  BY <1>1, <1>3, <1>5 DEF AreSized

LEMMA ResolveSizes ==
  ASSUME NEW words, words = program.words, WellFormed(words),
         NEW at, NEW idx, Appended(words, word, at, idx), Resolve
  PROVE  \E size, planned, pw, cw : Sized(words, at, size, planned, pw, cw)'
<1> DEFINE n == Len(relocate_info)
           first == [code |-> code, plan |-> <<>>, relocates |-> <<>>]
           f == CHOOSE f : f = [k \in 0 .. n |-> IF k = 0 THEN first
                                                 ELSE ResolveOne(f[k - 1], relocate_info[k])]
<1>1. /\ word = Len(words)
      /\ code' = f[n].code /\ plan' = f[n].plan /\ final_relocates' = f[n].relocates
      /\ program' = program /\ final_ins_pos' = final_ins_pos
  BY DEF Resolve
<1>2. PICK meant, old : meant = Meant(words, final_ins_pos) /\ old = Written(words)
  OBVIOUS
<1>3. /\ Layout(at, Len(words), code) /\ Len(code) < Word
      /\ \A i \in 1 .. Len(words) : WordAt(words[i], code, at[i], old[i], Room(at, i))
      /\ Heads(words, Len(words), at, final_ins_pos)
      /\ Enumerates(idx, Of(words, Len(words), {"code", "data"}))
      /\ Infos(relocate_info, words, at, idx)
      /\ Appended(words, Len(words), at, idx)
  BY <1>1, <1>2 DEF Appended
<1>4. n \in Nat /\ n = Len(idx)
  BY <1>3, UpToEnds DEF Infos
<1>5. Looping("resolve", 0, first, n, f)
  <2>1. \A g : Looping("resolve", 0, first, n, g) <=>
               g = [k \in 0 .. n |-> IF k = 0 THEN first ELSE ResolveOne(g[k - 1], relocate_info[k])]
    BY DEF Looping, Pass
  <2>2. \E g : g = [k \in 0 .. n |-> IF k = 0 THEN first ELSE ResolveOne(g[k - 1], relocate_info[k])]
    BY <1>4, <2>1, LoopExists
  <2>3. f = [k \in 0 .. n |-> IF k = 0 THEN first ELSE ResolveOne(f[k - 1], relocate_info[k])]
    BY <2>2, Zenon
  <2> QED
    BY <2>1, <2>3
<1> HIDE DEF f
<1>6. /\ f[0] = first
      /\ \A k \in Nat : k + 1 <= n => f[k + 1] = ResolveOne(f[k], relocate_info[k + 1])
  <2>1. \A o, k : Pass("resolve", 0, o, k) = ResolveOne(o, relocate_info[k])
    BY DEF Pass
  <2>2. /\ f[0] = first
        /\ \A k \in Nat : k + 1 <= n => f[k + 1] = Pass("resolve", 0, f[k], k + 1)
    <3> HIDE DEF n, first
    <3>1. Loops("resolve", 0, first, n, f)
      BY <1>4, <1>5, LoopIs
    <3> QED
      BY <3>1 DEF Loops
  <2> QED
    BY <2>1, <2>2
<1>7. Resolved(words, at, idx, 0, first)
  <2>1. UpTo(idx, 0) = {}
    BY DEF UpTo
  <2>2. PartlyShort(words, at, code, {}, meant, old)
    <3>1. \A i \in 1 .. Len(words) : Mixed(words, {}, meant, old)[i] = old[i]
      BY MixedIs
    <3>2. \A i \in 1 .. Len(words) :
            Mixed(words, {}, Smallest(words, meant), Rooms(words, at))[i] = Room(at, i)
      BY MixedIs DEF Rooms
    <3>3. \A i \in 1 .. Len(words) : Room(at, i) \in Nat \ {0} /\ Room(at, i) <= Room(at, i)
      BY <1>3, WordsApart
    <3> QED
      BY <1>3, <3>1, <3>2, <3>3 DEF PartlyShort, Coded
  <2>3. PlanFor(<<>>, 0, at, Smallest(words, meant), idx)
    BY DEF PlanFor
  <2>4. {i \in {} : words[i].type = "code"} = {}
    OBVIOUS
  <2>5. Places(<<>>, at, <<>>)
    BY DEF Places
  <2> QED
    BY <1>2, <2>1, <2>2, <2>3, <2>4, <2>5, EnumeratesNone DEF Resolved
<1> DEFINE S == {k \in Nat : k <= n => Resolved(words, at, idx, k, f[k])}
<1>8. 0 \in S
  BY <1>6, <1>7
<1>9. ASSUME NEW k \in Nat, k \in S PROVE k + 1 \in S
  <2>1. SUFFICES ASSUME k + 1 <= n PROVE Resolved(words, at, idx, k + 1, f[k + 1])
    OBVIOUS
  <2>2. k <= n
    BY <1>4, <2>1
  <2> QED
    BY <1>3, <1>4, <1>6, <1>9, <2>1, <2>2, ResolveOneResolves
<1> HIDE DEF S
<1>10. n \in S
  BY <1>4, <1>8, <1>9, Induction
<1>11. Resolved(words, at, idx, n, f[n]) /\ n <= n
  BY <1>4, <1>10 DEF S
<1>12. PICK planned : planned = Of(words, Len(words), {"code", "data"})
  OBVIOUS
<1>13. PICK c, p, r, cw :
        /\ f[n] = [code |-> c, plan |-> p, relocates |-> r]
        /\ PartlyShort(words, at, c, planned, meant, old) /\ Len(c) = Len(code)
        /\ PlanFor(p, n, at, Smallest(words, meant), idx)
        /\ Enumerates(cw, {i \in planned : words[i].type = "code"})
        /\ Places(r, at, cw)
  <2>1. UpTo(idx, n) = planned
    BY <1>3, <1>4, <1>12, UpToEnds
  <2> QED
    BY <1>2, <1>11, <2>1 DEF Resolved
<1>14. code' = c /\ plan' = p /\ final_relocates' = r
  BY <1>1, <1>13
<1>15. {i \in planned : words[i].type = "code"} = Of(words, Len(words), {"code"})
  BY <1>12 DEF Of
<1>16. /\ planned \in SUBSET (1 .. Len(words))
       /\ \A i \in 1 .. Len(words) : i \in planned <=> words[i].type \in {"code", "data"}
  BY <1>12 DEF Of
<1>17. \A i \in 1 .. Len(words) : i \notin planned => meant[i] = old[i]
  BY <1>2, <1>16, MeantIs
<1>18. PICK size : size = Mixed(words, planned, Smallest(words, meant), Rooms(words, at))
  OBVIOUS
<1>19. /\ Coded(words, at, c, meant, size)
       /\ PlanFor(p, n, at, size, idx)
       /\ \A i \in 1 .. Len(words) : size[i] = IF i \in planned THEN Blocks(meant[i]) ELSE Room(at, i)
  <2>1. AreSized(words, at, c, planned, meant, size, p, idx)
    BY <1>2, <1>3, <1>4, <1>12, <1>13, <1>16, <1>17, <1>18, ShortIsSized
  <2> QED
    BY <1>4, <2>1 DEF AreSized
<1>20. Sized(words, at, size, planned, idx, cw)'
  BY <1>1, <1>2, <1>3, <1>4, <1>12, <1>13, <1>14, <1>15, <1>16, <1>19 DEF Sized
<1> QED
  BY <1>20
\* All words have all of their bytes.
Settled(words, at, cw) ==
  /\ Len(code) < Word
  /\ Coded(words, at, code, Meant(words, final_ins_pos), Rooms(words, at))
  /\ Heads(words, Len(words), at, final_ins_pos)
  /\ \A i \in 1 .. Len(words) :
       words[i].type = "data" => Room(at, i) = Blocks(Meant(words, final_ins_pos)[i])
  /\ Enumerates(cw, Of(words, Len(words), {"code"}))
  /\ Places(final_relocates, at, cw)

\* After measuring the first k addresses.
Measured(words, at, idx, k, o) ==
  \E c, p :
    /\ o = [code |-> c, plan |-> p]
    /\ PartlyShort(words, at, c, UpTo(idx, k), Meant(words, final_ins_pos), Meant(words, final_ins_pos))
    /\ Len(c) = Len(code)
    /\ PlanFor(p, k, at, Smallest(words, Meant(words, final_ins_pos)), idx)

LEMMA SettledIs ==
  ASSUME NEW words, NEW at, NEW cw, Settled(words, at, cw),
         NEW i \in 1 .. Len(words), words[i].type # "op"
  PROVE  /\ Meant(words, final_ins_pos)[i] \in 0 .. Word - 1
         /\ Blocks(Meant(words, final_ins_pos)[i]) <= Room(at, i)
<1> DEFINE meant == Meant(words, final_ins_pos)
           rooms == Rooms(words, at)
<1>1. rooms[i] = Room(at, i)
  BY DEF Rooms
<1>2. Coded(words, at, code, meant, rooms)
  BY DEF Settled
<1> HIDE DEF meant, rooms
<1>3. WordAt(words[i], code, at[i], meant[i], Room(at, i))
  BY <1>1, <1>2 DEF Coded
<1>4. Stored(code, at[i], meant[i], Room(at, i))
  BY <1>3 DEF WordAt
<1> QED
  BY <1>4 DEF Stored, meant

LEMMA MeasureOneMeasures ==
  ASSUME NEW words, WellFormed(words), NEW at, NEW idx, Settled(words, at, idx),
         NEW k \in Nat, k + 1 <= Len(idx), NEW o, Measured(words, at, idx, k, o)
  PROVE  Measured(words, at, idx, k + 1, MeasureOne(o, final_relocates[k + 1]))
<1> DEFINE meant == Meant(words, final_ins_pos)
           least == Smallest(words, meant)
<1>1. PICK c, p :
        /\ o = [code |-> c, plan |-> p]
        /\ PartlyShort(words, at, c, UpTo(idx, k), meant, meant) /\ Len(c) = Len(code)
        /\ PlanFor(p, k, at, least, idx)
  BY DEF Measured
<1>2. Enumerates(idx, Of(words, Len(words), {"code"})) /\ Places(final_relocates, at, idx)
  BY DEF Settled
<1>3. PICK i \in 1 .. Len(words) :
        /\ i = idx[k + 1] /\ i \in Nat /\ words[i].type \in {"code"}
        /\ UpTo(idx, k + 1) = UpTo(idx, k) \union {i}
        /\ \A j \in UpTo(idx, k) : j < i
        /\ k + 1 \in 1 .. Len(idx)
  <2>1. /\ k + 1 \in 1 .. Len(idx) /\ idx[k + 1] \in Nat
        /\ idx[k + 1] \in Of(words, Len(words), {"code"})
        /\ UpTo(idx, k + 1) = UpTo(idx, k) \union {idx[k + 1]}
        /\ \A j \in UpTo(idx, k) : j < idx[k + 1]
    BY <1>2, UpToNext
  <2>2. idx[k + 1] \in 1 .. Len(words) /\ words[idx[k + 1]].type \in {"code"}
    BY <2>1 DEF Of
  <2> QED
    BY <2>1, <2>2, Zenon
<1>4. i \notin UpTo(idx, k) /\ words[i].type # "op"
  BY <1>3
<1>5. meant[i] \in 0 .. Word - 1 /\ Blocks(meant[i]) <= Room(at, i)
  BY <1>4, SettledIs
<1>6. final_relocates[k + 1] = at[i]
  BY <1>2, <1>3 DEF Places
<1>7. least[i] = Blocks(meant[i])
  BY DEF Smallest
<1> HIDE DEF meant, least
<1> DEFINE c2 == Patched(c, at[i], EncodeU64(meant[i]))
<1>8. /\ at[i] \in Nat /\ Room(at, i) \in Nat /\ Blocks(meant[i]) \in Nat
      /\ DecodeU64(c, at[i]) = [val |-> meant[i], aft |-> at[i] + Room(at, i)]
      /\ (at[i] + Room(at, i)) - at[i] = Room(at, i)
      /\ Len(EncodeU64(meant[i])) = Blocks(meant[i])
      /\ PartlyShort(words, at, c2, UpTo(idx, k) \union {i}, meant, meant)
      /\ Len(c2) = Len(c)
  <2>1. IsShortened(words, at, c, UpTo(idx, k), meant, meant, i)
    BY <1>1, <1>4, <1>5, ShortenOne
  <2> QED
    BY <2>1 DEF IsShortened
<1> DEFINE e == [addr |-> at[i], prev |-> Room(at, i), new |-> least[i]]
           p2 == Append(p, e)
<1>9. PlanFor(p2, k + 1, at, least, idx)
  <2>1. i = idx[k + 1] /\ at[i] \in Nat /\ Room(at, i) \in Nat /\ least[i] \in Nat
    BY <1>3, <1>7, <1>8
  <2>2. PlanFor(p, k, at, least, idx)
    BY <1>1
  <2> QED
    BY <2>1, <2>2, PlanForNext, Zenon
<1>10. Shorten(o, at[i], Room(at, i), meant[i]) = [code |-> c2, plan |-> p2]
  <2>1. Shorten([code |-> c, plan |-> p], at[i], Room(at, i), meant[i]) =
          [code |-> Patched(c, at[i], EncodeU64(meant[i])),
           plan |-> Append(p, [addr |-> at[i], prev |-> Room(at, i), new |-> Len(EncodeU64(meant[i]))])]
    <3>1. ASSUME NEW addr, NEW size, NEW val
          PROVE  Shorten([code |-> c, plan |-> p], addr, size, val) =
                   [code |-> Patched(c, addr, EncodeU64(val)),
                    plan |-> Append(p, [addr |-> addr, prev |-> size, new |-> Len(EncodeU64(val))])]
      BY ShortenAgain, SMTT(40)
    <3> QED
      BY <3>1, SMTT(40)
  <2>2. Len(EncodeU64(meant[i])) = least[i]
    BY <1>7, <1>8
  <2> QED
    BY <1>1, <2>1, <2>2, Zenon
<1>11. o.code = c
  BY <1>1
<1> HIDE DEF c2, e, p2
<1>12. MeasureOne(o, final_relocates[k + 1]) = [code |-> c2, plan |-> p2]
  BY <1>6, <1>8, <1>10, <1>11 DEF MeasureOne
<1> QED
  BY <1>1, <1>3, <1>8, <1>9, <1>12 DEF Measured, meant, least

LEMMA MeasureSizes ==
  ASSUME NEW words, words = program.words, WellFormed(words),
         NEW at, NEW idx, Settled(words, at, idx), Measure
  PROVE  \E size, planned, pw, cw : Sized(words, at, size, planned, pw, cw)'
<1> DEFINE n == Len(final_relocates)
           first == [code |-> code, plan |-> <<>>]
           f == CHOOSE f : f = [k \in 0 .. n |-> IF k = 0 THEN first
                                                 ELSE MeasureOne(f[k - 1], final_relocates[k])]
<1>1. /\ code' = f[n].code /\ plan' = f[n].plan
      /\ final_relocates' = final_relocates
      /\ program' = program /\ final_ins_pos' = final_ins_pos
  BY DEF Measure
<1>2. PICK meant : meant = Meant(words, final_ins_pos)
  OBVIOUS
<1>3. /\ Len(code) < Word
      /\ Coded(words, at, code, meant, Rooms(words, at))
      /\ Heads(words, Len(words), at, final_ins_pos)
      /\ \A i \in 1 .. Len(words) : words[i].type = "data" => Room(at, i) = Blocks(meant[i])
      /\ Enumerates(idx, Of(words, Len(words), {"code"}))
      /\ Places(final_relocates, at, idx)
  BY <1>2 DEF Settled
<1>4. n \in Nat /\ n = Len(idx)
  BY <1>3, UpToEnds DEF Places
<1>5. Looping("measure", 0, first, n, f)
  <2>1. \A g : Looping("measure", 0, first, n, g) <=>
               g = [k \in 0 .. n |-> IF k = 0 THEN first ELSE MeasureOne(g[k - 1], final_relocates[k])]
    BY DEF Looping, Pass
  <2>2. \E g : g = [k \in 0 .. n |-> IF k = 0 THEN first ELSE MeasureOne(g[k - 1], final_relocates[k])]
    BY <1>4, <2>1, LoopExists
  <2>3. f = [k \in 0 .. n |-> IF k = 0 THEN first ELSE MeasureOne(f[k - 1], final_relocates[k])]
    BY <2>2, Zenon
  <2> QED
    BY <2>1, <2>3
<1> HIDE DEF f
<1>6. /\ f[0] = first
      /\ \A k \in Nat : k + 1 <= n => f[k + 1] = MeasureOne(f[k], final_relocates[k + 1])
  <2>1. \A o, k : Pass("measure", 0, o, k) = MeasureOne(o, final_relocates[k])
    BY DEF Pass
  <2>2. /\ f[0] = first
        /\ \A k \in Nat : k + 1 <= n => f[k + 1] = Pass("measure", 0, f[k], k + 1)
    <3> HIDE DEF n, first
    <3>1. Loops("measure", 0, first, n, f)
      BY <1>4, <1>5, LoopIs
    <3> QED
      BY <3>1 DEF Loops
  <2> QED
    BY <2>1, <2>2
<1>7. Measured(words, at, idx, 0, first)
  <2>1. UpTo(idx, 0) = {}
    BY DEF UpTo
  <2>2. PartlyShort(words, at, code, {}, meant, meant)
    <3>1. \A i \in 1 .. Len(words) : Mixed(words, {}, meant, meant)[i] = meant[i]
      BY MixedIs
    <3>2. \A i \in 1 .. Len(words) :
            Mixed(words, {}, Smallest(words, meant), Rooms(words, at))[i] = Rooms(words, at)[i]
      BY MixedIs
    <3> QED
      BY <1>3, <3>1, <3>2 DEF PartlyShort, Coded
  <2>3. PlanFor(<<>>, 0, at, Smallest(words, meant), idx)
    BY DEF PlanFor
  <2> QED
    BY <1>2, <2>1, <2>2, <2>3 DEF Measured
<1> DEFINE S == {k \in Nat : k <= n => Measured(words, at, idx, k, f[k])}
<1>8. 0 \in S
  BY <1>6, <1>7
<1>9. ASSUME NEW k \in Nat, k \in S PROVE k + 1 \in S
  <2>1. SUFFICES ASSUME k + 1 <= n PROVE Measured(words, at, idx, k + 1, f[k + 1])
    OBVIOUS
  <2>2. k <= n
    BY <1>4, <2>1
  <2> QED
    BY <1>4, <1>6, <1>9, <2>1, <2>2, MeasureOneMeasures
<1> HIDE DEF S
<1>10. n \in S
  BY <1>4, <1>8, <1>9, Induction
<1>11. Measured(words, at, idx, n, f[n]) /\ n <= n
  BY <1>4, <1>10 DEF S
<1>12. PICK planned : planned = Of(words, Len(words), {"code"})
  OBVIOUS
<1>13. PICK c, p :
        /\ f[n] = [code |-> c, plan |-> p]
        /\ PartlyShort(words, at, c, planned, meant, meant) /\ Len(c) = Len(code)
        /\ PlanFor(p, n, at, Smallest(words, meant), idx)
  <2>1. UpTo(idx, n) = planned
    BY <1>3, <1>4, <1>12, UpToEnds
  <2> QED
    BY <1>2, <1>11, <2>1 DEF Measured
<1>14. code' = c /\ plan' = p
  BY <1>1, <1>13
<1>15. /\ planned \in SUBSET (1 .. Len(words))
       /\ \A i \in 1 .. Len(words) : i \in planned <=> words[i].type = "code"
  BY <1>12 DEF Of
<1>16. PICK size : size = Mixed(words, planned, Smallest(words, meant), Rooms(words, at))
  OBVIOUS
<1>17. /\ Coded(words, at, c, meant, size)
       /\ PlanFor(p, n, at, size, idx)
       /\ \A i \in 1 .. Len(words) : size[i] = IF i \in planned THEN Blocks(meant[i]) ELSE Room(at, i)
  <2>1. AreSized(words, at, c, planned, meant, size, p, idx)
    BY <1>2, <1>3, <1>4, <1>12, <1>13, <1>15, <1>16, ShortIsSized
  <2> QED
    BY <1>4, <2>1 DEF AreSized
<1>18. Sized(words, at, size, planned, idx, idx)'
  BY <1>1, <1>2, <1>3, <1>4, <1>12, <1>13, <1>14, <1>15, <1>17 DEF Sized
<1> QED
  BY <1>18
-----------------------------------------------------------------------------
(* Shrinking: the words move together.                                     *)

\* Positions that ascend.
Ascends(at, n) ==
  n \in Nat /\ at \in [1 .. n + 1 -> Nat] /\ \A i \in 1 .. n : at[i] < at[i + 1]

LEMMA Ascending ==
  ASSUME NEW at, NEW n, Ascends(at, n), NEW i \in 1 .. n, NEW j \in i + 1 .. n + 1
  PROVE  at[i] \in Nat /\ at[i + 1] \in Nat /\ at[j] \in Nat /\ at[i] < at[i + 1] /\ at[i + 1] <= at[j]
<1>1. /\ n \in Nat /\ at \in [1 .. n + 1 -> Nat] /\ \A k \in 1 .. n : at[k] < at[k + 1]
  BY DEF Ascends
<1> DEFINE S == {m \in Nat : (i + 1) + m <= n + 1 => at[i + 1] <= at[(i + 1) + m]}
<1>2. i \in Nat /\ i + 1 \in 1 .. n + 1 /\ i \in 1 .. n + 1 /\ (i + 1) + 0 = i + 1
  BY <1>1
<1>3. at[i + 1] \in Nat /\ at[i] \in Nat /\ at[i] < at[i + 1]
  BY <1>1, <1>2
<1>4. 0 \in S
  BY <1>2, <1>3
<1>5. ASSUME NEW m \in Nat, m \in S PROVE m + 1 \in S
  <2>1. SUFFICES ASSUME (i + 1) + (m + 1) <= n + 1 PROVE at[i + 1] <= at[(i + 1) + (m + 1)]
    OBVIOUS
  <2>2. PICK k \in 1 .. n : k = (i + 1) + m /\ k <= n + 1 /\ (i + 1) + (m + 1) = k + 1
    <3>1. (i + 1) + m \in 1 .. n /\ (i + 1) + m <= n + 1 /\ (i + 1) + (m + 1) = ((i + 1) + m) + 1
      BY <1>1, <1>2, <2>1
    <3> QED
      BY <3>1
  <2>3. k \in 1 .. n + 1 /\ k + 1 \in 1 .. n + 1
    BY <1>1
  <2>4. at[k] \in Nat /\ at[k + 1] \in Nat /\ at[k] < at[k + 1]
    BY <1>1, <2>3
  <2>5. at[i + 1] <= at[k]
    BY <1>5, <2>2
  <2> QED
    BY <1>3, <2>2, <2>4, <2>5
<1> HIDE DEF S
<1>6. Nat \subseteq S
  BY <1>4, <1>5, Induction
<1>7. j - (i + 1) \in Nat /\ (i + 1) + (j - (i + 1)) = j /\ j <= n + 1 /\ j \in 1 .. n + 1
  BY <1>1, <1>2
<1>8. at[i + 1] <= at[j]
  BY <1>6, <1>7 DEF S
<1>9. at[j] \in Nat
  BY <1>1, <1>7
<1> QED
  BY <1>3, <1>8, <1>9

LEMMA AscendingApart ==
  ASSUME NEW at, NEW n, Ascends(at, n), NEW i \in 1 .. n, NEW j \in 1 .. n
  PROVE  /\ at[i] \in Nat /\ at[j] \in Nat
         /\ i < j => at[i] < at[j]
         /\ at[i] = at[j] => i = j
<1>1. n \in Nat
  BY DEF Ascends
<1>2. \A k \in 1 .. n : \A l \in 1 .. n : k < l => at[k] \in Nat /\ at[l] \in Nat /\ at[k] < at[l]
  <2>1. SUFFICES ASSUME NEW k \in 1 .. n, NEW l \in 1 .. n, k < l
                 PROVE  at[k] \in Nat /\ at[l] \in Nat /\ at[k] < at[l]
    OBVIOUS
  <2>2. l \in k + 1 .. n + 1
    BY <1>1, <2>1
  <2>3. at[k] \in Nat /\ at[k + 1] \in Nat /\ at[l] \in Nat /\ at[k] < at[k + 1] /\ at[k + 1] <= at[l]
    BY <2>2, Ascending
  <2> QED
    BY <2>3
<1>3. at[i] \in Nat /\ at[j] \in Nat
  <2>1. i \in 1 .. n + 1 /\ j \in 1 .. n + 1
    BY <1>1
  <2> QED
    BY <2>1 DEF Ascends
<1>4. i < j \/ i = j \/ j < i
  BY <1>1
<1>5. i < j => at[i] < at[j]
  BY <1>2
<1>6. j < i => at[j] < at[i]
  BY <1>2
<1> QED
  BY <1>3, <1>4, <1>5, <1>6

\* Where the words are when they have no more than their sizes.
Packed(nat, n, size) ==
  nat \in [1 .. n + 1 -> Nat] /\ nat[1] = 0 /\ \A i \in 1 .. n : nat[i + 1] = nat[i] + size[i]

LEMMA PackedExists ==
  ASSUME NEW n \in Nat, NEW size, \A i \in 1 .. n : size[i] \in Nat
  PROVE  \E nat : Packed(nat, n, size)
<1>1. PICK f : Looping("add", size, 0, n, f)
  BY LoopExists
<1>2. f[0] = 0 /\ \A k \in Nat : k + 1 <= n => f[k + 1] = f[k] + size[k + 1]
  <2>1. Loops("add", size, 0, n, f)
    BY <1>1, LoopIs
  <2>2. \A o, k : Pass("add", size, o, k) = o + size[k]
    BY DEF Pass
  <2> QED
    BY <2>1, <2>2 DEF Loops
<1> DEFINE S == {k \in Nat : k <= n => f[k] \in Nat}
<1>3. 0 \in S
  BY <1>2
<1>4. ASSUME NEW k \in Nat, k \in S PROVE k + 1 \in S
  <2>1. SUFFICES ASSUME k + 1 <= n PROVE f[k + 1] \in Nat
    OBVIOUS
  <2>2. k + 1 \in 1 .. n /\ k <= n
    BY <2>1
  <2>3. f[k] \in Nat /\ size[k + 1] \in Nat
    BY <1>4, <2>2
  <2> QED
    BY <1>2, <2>1, <2>3
<1> HIDE DEF S
<1>5. Nat \subseteq S
  BY <1>3, <1>4, Induction
<1>6. \A k \in Nat : k <= n => f[k] \in Nat
  BY <1>5 DEF S
<1> DEFINE nat == [i \in 1 .. n + 1 |-> f[i - 1]]
<1>7. \A i \in 1 .. n + 1 : i - 1 \in Nat /\ i - 1 <= n
  OBVIOUS
<1>8. nat \in [1 .. n + 1 -> Nat]
  BY <1>6, <1>7
<1>9. 1 \in 1 .. n + 1 /\ 1 - 1 = 0 /\ nat[1] = f[0]
  OBVIOUS
<1>10. ASSUME NEW i \in 1 .. n PROVE nat[i + 1] = nat[i] + size[i]
  <2>1. /\ i \in 1 .. n + 1 /\ i + 1 \in 1 .. n + 1 /\ (i + 1) - 1 = (i - 1) + 1
        /\ i - 1 \in Nat /\ (i - 1) + 1 <= n /\ (i - 1) + 1 = i
    OBVIOUS
  <2>2. nat[i + 1] = f[(i - 1) + 1] /\ nat[i] = f[i - 1]
    BY <2>1
  <2>3. f[(i - 1) + 1] = f[i - 1] + size[(i - 1) + 1]
    BY <1>2, <2>1
  <2> QED
    BY <2>1, <2>2, <2>3
<1> HIDE DEF nat
<1>11. Packed(nat, n, size)
  BY <1>2, <1>8, <1>9, <1>10 DEF Packed
<1> QED
  BY <1>11

\* Words move to the front, and by the same distance if none between them has shrunk.
Shrinking(at, nat, n, size) ==
  /\ Ascends(at, n) /\ at[1] = 0 /\ Packed(nat, n, size)
  /\ \A i \in 1 .. n : size[i] \in Nat /\ size[i] > 0 /\ size[i] <= Room(at, i)

LEMMA ShrinkingIs ==
  ASSUME NEW at, NEW nat, NEW n, NEW size, Shrinking(at, nat, n, size), NEW i \in 1 .. n
  PROVE  /\ n \in Nat
         /\ at[i] \in Nat /\ at[i + 1] \in Nat /\ nat[i] \in Nat /\ nat[i + 1] \in Nat
         /\ Room(at, i) \in Nat /\ at[i + 1] = at[i] + Room(at, i)
         /\ size[i] \in Nat /\ size[i] > 0 /\ size[i] <= Room(at, i)
         /\ nat[i + 1] = nat[i] + size[i] /\ i + 1 \in 1 .. n + 1
<1>1. /\ n \in Nat /\ at \in [1 .. n + 1 -> Nat] /\ at[i] < at[i + 1]
      /\ nat \in [1 .. n + 1 -> Nat] /\ nat[i + 1] = nat[i] + size[i]
      /\ size[i] \in Nat /\ size[i] > 0 /\ size[i] <= Room(at, i)
  BY DEF Shrinking, Ascends, Packed
<1>2. i \in 1 .. n + 1 /\ i + 1 \in 1 .. n + 1
  BY <1>1
<1>3. at[i] \in Nat /\ at[i + 1] \in Nat /\ nat[i] \in Nat /\ nat[i + 1] \in Nat
  BY <1>1, <1>2
<1>4. Room(at, i) \in Nat /\ at[i + 1] = at[i] + Room(at, i)
  <2>1. \A a, b \in Nat : a < b => b - a \in Nat /\ b = a + (b - a)
    OBVIOUS
  <2> QED
    BY <1>1, <1>3, <2>1 DEF Room
<1> QED
  BY <1>1, <1>2, <1>3, <1>4

LEMMA PackedAscends ==
  ASSUME NEW at, NEW nat, NEW n, NEW size, Shrinking(at, nat, n, size)
  PROVE  Ascends(nat, n)
<1>1. n \in Nat /\ nat \in [1 .. n + 1 -> Nat]
  BY DEF Shrinking, Ascends, Packed
<1>2. ASSUME NEW i \in 1 .. n PROVE nat[i] < nat[i + 1]
  <2>1. nat[i] \in Nat /\ size[i] \in Nat /\ size[i] > 0 /\ nat[i + 1] = nat[i] + size[i]
    BY ShrinkingIs
  <2> QED
    BY <2>1
<1> QED
  BY <1>1, <1>2 DEF Ascends

\* From word e on no word has shrunk, up to word j.
LEMMA SameDistance ==
  ASSUME NEW at, NEW nat, NEW n, NEW size, Shrinking(at, nat, n, size),
         NEW e \in 1 .. n + 1, NEW j \in e .. n + 1,
         \A i \in e .. j - 1 : size[i] = Room(at, i)
  PROVE  at[j] \in Nat /\ nat[j] \in Nat /\ at[e] \in Nat /\ nat[e] \in Nat
         /\ at[j] - nat[j] = at[e] - nat[e]
<1>1. /\ n \in Nat /\ at \in [1 .. n + 1 -> Nat] /\ nat \in [1 .. n + 1 -> Nat]
  BY DEF Shrinking, Ascends, Packed
<1> DEFINE S == {m \in Nat : e + m <= j => at[e + m] - nat[e + m] = at[e] - nat[e]}
<1>2. 0 \in S
  <2>1. e + 0 = e
    BY <1>1
  <2> QED
    BY <2>1
<1>3. ASSUME NEW m \in Nat, m \in S PROVE m + 1 \in S
  <2>1. SUFFICES ASSUME e + (m + 1) <= j PROVE at[e + (m + 1)] - nat[e + (m + 1)] = at[e] - nat[e]
    OBVIOUS
  <2>2. PICK k \in 1 .. n : k = e + m /\ k <= j /\ k \in e .. j - 1 /\ e + (m + 1) = k + 1
    <3>1. e + m \in 1 .. n /\ e + m <= j /\ e + m \in e .. j - 1 /\ e + (m + 1) = (e + m) + 1
      BY <1>1, <2>1
    <3> QED
      BY <3>1
  <2>3. at[k] - nat[k] = at[e] - nat[e]
    BY <1>3, <2>2
  <2>4. /\ at[k] \in Nat /\ nat[k] \in Nat /\ at[k + 1] = at[k] + Room(at, k) /\ Room(at, k) \in Nat
        /\ nat[k + 1] = nat[k] + size[k]
    BY ShrinkingIs
  <2>5. size[k] = Room(at, k)
    BY <2>2
  <2>6. at[k + 1] - nat[k + 1] = at[k] - nat[k]
    BY <2>4, <2>5
  <2> QED
    BY <2>2, <2>3, <2>6
<1> HIDE DEF S
<1>4. Nat \subseteq S
  BY <1>2, <1>3, Induction
<1>5. j - e \in Nat /\ e + (j - e) = j /\ j <= j /\ j \in 1 .. n + 1
  BY <1>1
<1>6. at[j] - nat[j] = at[e] - nat[e]
  BY <1>4, <1>5 DEF S
<1> QED
  BY <1>1, <1>5, <1>6

LEMMA MovedToFront ==
  ASSUME NEW at, NEW nat, NEW n, NEW size, Shrinking(at, nat, n, size), NEW j \in 1 .. n + 1
  PROVE  at[j] \in Nat /\ nat[j] \in Nat /\ nat[j] <= at[j]
<1>1. /\ n \in Nat /\ at \in [1 .. n + 1 -> Nat] /\ nat \in [1 .. n + 1 -> Nat]
      /\ at[1] = 0 /\ nat[1] = 0
  BY DEF Shrinking, Ascends, Packed
<1> DEFINE S == {m \in Nat : 1 + m <= n + 1 => nat[1 + m] <= at[1 + m]}
<1>2. 0 \in S
  BY <1>1
<1>3. ASSUME NEW m \in Nat, m \in S PROVE m + 1 \in S
  <2>1. SUFFICES ASSUME 1 + (m + 1) <= n + 1 PROVE nat[1 + (m + 1)] <= at[1 + (m + 1)]
    OBVIOUS
  <2>2. PICK k \in 1 .. n : k = 1 + m /\ k <= n + 1 /\ 1 + (m + 1) = k + 1
    <3>1. 1 + m \in 1 .. n /\ 1 + m <= n + 1 /\ 1 + (m + 1) = (1 + m) + 1
      BY <1>1, <2>1
    <3> QED
      BY <3>1
  <2>3. nat[k] <= at[k]
    BY <1>3, <2>2
  <2>4. /\ at[k] \in Nat /\ nat[k] \in Nat /\ at[k + 1] = at[k] + Room(at, k) /\ Room(at, k) \in Nat
        /\ nat[k + 1] = nat[k] + size[k] /\ size[k] \in Nat /\ size[k] <= Room(at, k)
    BY ShrinkingIs
  <2> QED
    BY <2>2, <2>3, <2>4
<1> HIDE DEF S
<1>4. Nat \subseteq S
  BY <1>2, <1>3, Induction
<1>5. j - 1 \in Nat /\ 1 + (j - 1) = j /\ j <= n + 1
  BY <1>1
<1>6. nat[j] <= at[j]
  BY <1>4, <1>5 DEF S
<1> QED
  BY <1>1, <1>6

\* What copying does.
IsCopied(new, bytes, from, to, dest) ==
  /\ new \in Seq(Nat) /\ Len(new) = Len(bytes)
  /\ \A p \in 1 .. Len(bytes) :
       new[p] = IF p > dest /\ p <= dest + (to - from) THEN bytes[(p - dest) + from] ELSE bytes[p]

LEMMA CopyIs ==
  ASSUME NEW bytes \in Seq(Nat), NEW from \in Nat, NEW to \in Nat, NEW dest \in Nat,
         from <= to, to <= Len(bytes), dest <= from
  PROVE  IsCopied(CopyWithin(bytes, from, to, dest), bytes, from, to, dest)
<1> DEFINE f == CopyWithin(bytes, from, to, dest)
           at(p) == IF p - dest \in 1 .. to - from THEN bytes[(p - dest) + from] ELSE bytes[p]
<1>1. DOMAIN bytes = 1 .. Len(bytes) /\ Len(bytes) \in Nat /\ \A p \in 1 .. Len(bytes) : bytes[p] \in Nat
  OBVIOUS
<1>2. f = [p \in 1 .. Len(bytes) |-> at(p)]
  BY <1>1 DEF CopyWithin
<1>3. ASSUME NEW p \in 1 .. Len(bytes) PROVE at(p) \in Nat
  <2>1. p - dest \in 1 .. to - from => (p - dest) + from \in 1 .. Len(bytes)
    BY <1>1
  <2> QED
    BY <1>1, <2>1
<1>4. f \in [1 .. Len(bytes) -> Nat]
  BY <1>2, <1>3
<1>5. \A p \in 1 .. Len(bytes) : f[p] = at(p)
  BY <1>2
<1> HIDE DEF f
<1>6. f \in Seq(Nat) /\ Len(f) = Len(bytes)
  BY <1>1, <1>4, FunctionIsSequence
<1>7. \A p \in 1 .. Len(bytes) : p - dest \in 1 .. to - from <=> p > dest /\ p <= dest + (to - from)
  OBVIOUS
<1>8. \A p \in 1 .. Len(bytes) :
        f[p] = IF p > dest /\ p <= dest + (to - from) THEN bytes[(p - dest) + from] ELSE bytes[p]
  BY <1>5, <1>7
<1>9. IsCopied(f, bytes, from, to, dest)
  BY <1>6, <1>8 DEF IsCopied
<1> QED
  BY <1>9 DEF f

\* The words behind the first k of the plan.
Behind(idx, k) == IF k = 0 THEN 1 ELSE idx[k] + 1

LEMMA BehindIs ==
  ASSUME NEW idx, NEW S, Enumerates(idx, S), \A i \in S : i \in Nat /\ i >= 1, NEW k \in Nat, k <= Len(idx)
  PROVE  /\ Behind(idx, k) \in Nat /\ Behind(idx, k) >= 1
         /\ k + 1 <= Len(idx) => /\ idx[k + 1] \in S /\ Behind(idx, k) <= idx[k + 1]
                                 /\ Behind(idx, k + 1) = idx[k + 1] + 1
                                 /\ k + 1 \in 1 .. Len(idx)
                                 /\ \A i \in S : Behind(idx, k) <= i => idx[k + 1] <= i
         /\ k = Len(idx) => \A i \in S : i < Behind(idx, k)
         /\ \A i \in S : Behind(idx, k) <= i => \E l \in 1 .. Len(idx) : idx[l] = i /\ k < l
<1>1. /\ idx \in Seq(Nat) /\ Len(idx) \in Nat
      /\ \A l \in 1 .. Len(idx) : idx[l] \in S /\ idx[l] \in Nat /\ idx[l] >= 1
      /\ \A l, m \in 1 .. Len(idx) : l < m => idx[l] < idx[m]
      /\ \A i \in S : \E l \in 1 .. Len(idx) : idx[l] = i
  BY DEF Enumerates
<1>2. k # 0 => k \in 1 .. Len(idx)
  BY <1>1
<1>3. Behind(idx, k) \in Nat /\ Behind(idx, k) >= 1
  BY <1>1, <1>2 DEF Behind
<1>4. ASSUME NEW i \in S, Behind(idx, k) <= i
      PROVE  \E l \in 1 .. Len(idx) : idx[l] = i /\ k < l
  <2>1. PICK l \in 1 .. Len(idx) : idx[l] = i
    BY <1>1
  <2>2. k < l
    <3>1. SUFFICES ASSUME l <= k PROVE FALSE
      BY <1>1
    <3>2. k # 0 /\ k \in 1 .. Len(idx) /\ (l < k \/ l = k)
      BY <1>1, <1>2, <3>1
    <3>3. idx[l] \in Nat /\ idx[k] \in Nat /\ idx[l] <= idx[k] /\ idx[k] + 1 <= i
      BY <1>1, <1>4, <3>2 DEF Behind
    <3> QED
      BY <2>1, <3>3
  <2> QED
    BY <2>1, <2>2
<1>5. ASSUME k + 1 <= Len(idx)
      PROVE  /\ idx[k + 1] \in S /\ Behind(idx, k) <= idx[k + 1]
             /\ Behind(idx, k + 1) = idx[k + 1] + 1
             /\ k + 1 \in 1 .. Len(idx)
             /\ \A i \in S : Behind(idx, k) <= i => idx[k + 1] <= i
  <2>1. k + 1 \in 1 .. Len(idx) /\ k + 1 # 0 /\ k < k + 1
    BY <1>1, <1>5
  <2>2. idx[k + 1] \in S /\ idx[k + 1] \in Nat /\ idx[k + 1] >= 1
    BY <1>1, <2>1
  <2>3. k # 0 => idx[k] \in Nat /\ idx[k] < idx[k + 1]
    BY <1>1, <1>2, <2>1
  <2>4. Behind(idx, k) <= idx[k + 1]
    BY <2>2, <2>3 DEF Behind
  <2>5. ASSUME NEW i \in S, Behind(idx, k) <= i PROVE idx[k + 1] <= i
    <3>1. PICK l \in 1 .. Len(idx) : idx[l] = i /\ k < l
      BY <1>4, <2>5
    <3>2. k + 1 = l \/ k + 1 < l
      BY <1>1, <3>1
    <3>3. idx[l] \in Nat
      BY <1>1
    <3> QED
      BY <1>1, <2>1, <2>2, <3>1, <3>2, <3>3
  <2> QED
    BY <2>1, <2>2, <2>4, <2>5 DEF Behind
<1>6. ASSUME k = Len(idx), NEW i \in S PROVE i < Behind(idx, k)
  <2>1. SUFFICES ASSUME Behind(idx, k) <= i PROVE FALSE
    BY <1>3
  <2>2. PICK l \in 1 .. Len(idx) : k < l
    BY <1>4, <2>1
  <2> QED
    BY <1>1, <1>6, <2>2
<1> QED
  BY <1>3, <1>4, <1>5, <1>6
\* Instructions behind a position are moved.
InsAfter(ins, pos, saved) ==
  [m \in DOMAIN ins |-> IF final_ins_pos[m] > pos THEN ins[m] - saved ELSE ins[m]]

\* The address at a position is put in its new place.
HolesAfter(holes, pos, new) ==
  [h \in DOMAIN holes |-> IF final_relocates[h] = pos THEN new ELSE holes[h]]

\* A pass of the loop over the plan.
ShrinkFields == {"code", "dest", "src", "shift", "ok", "ins", "holes"}

IsShrunk(z, o, p) ==
  /\ DOMAIN z = ShrinkFields
  /\ z.code = CopyWithin(o.code, o.src, p.addr + p.new, o.dest)
  /\ z.dest = o.dest + p.addr + p.new - o.src
  /\ z.src = p.addr + p.prev
  /\ z.shift = o.shift + (p.prev - p.new)
  /\ z.ok = (o.ok /\ p.prev >= p.new /\ p.addr >= o.src)
  /\ z.ins = InsAfter(o.ins, p.addr, p.prev - p.new)
  /\ z.holes = HolesAfter(o.holes, p.addr, z.dest - p.new)

LEMMA ShrinkOneIs ==
  ASSUME NEW o, DOMAIN o = ShrinkFields, NEW p
  PROVE  IsShrunk(ShrinkOne(o, p), o, p)
<1>1. PICK c, d, s : /\ c = CopyWithin(o.code, o.src, p.addr + p.new, o.dest)
                     /\ d = o.dest + p.addr + p.new - o.src
                     /\ s = p.addr + p.prev
  OBVIOUS
<1>2. PICK moved : moved = [o EXCEPT !.code = c, !.dest = d, !.src = s]
  OBVIOUS
<1>3. MoveCode(o, p) = moved
  BY <1>1, <1>2, Zenon DEF MoveCode
<1>4. /\ DOMAIN moved = ShrinkFields
      /\ moved.code = c /\ moved.dest = d /\ moved.src = s
      /\ moved.shift = o.shift /\ moved.ok = o.ok /\ moved.ins = o.ins /\ moved.holes = o.holes
  BY <1>2 DEF ShrinkFields
<1>5. PICK saved, b, ins, holes :
        /\ saved = p.prev - p.new
        /\ b = (o.ok /\ p.prev >= p.new /\ p.addr >= o.src)
        /\ ins = [n \in DOMAIN o.ins |->
                   IF final_ins_pos[n] > p.addr THEN o.ins[n] - saved ELSE o.ins[n]]
        /\ holes = [k \in DOMAIN o.holes |->
                     IF final_relocates[k] = p.addr THEN d - p.new ELSE o.holes[k]]
  OBVIOUS
<1>6. PICK z : z = [moved EXCEPT !.ok = b, !.shift = o.shift + saved, !.ins = ins, !.holes = holes]
  OBVIOUS
<1>7. ShrinkOne(o, p) = z
  BY <1>3, <1>4, <1>5, <1>6, Zenon DEF ShrinkOne
<1>8. /\ DOMAIN z = ShrinkFields
      /\ z.code = c /\ z.dest = d /\ z.src = s
      /\ z.shift = o.shift + saved /\ z.ok = b /\ z.ins = ins /\ z.holes = holes
  BY <1>4, <1>6 DEF ShrinkFields
<1>9. IsShrunk(z, o, p)
  <2>1. ins = InsAfter(o.ins, p.addr, saved) /\ holes = HolesAfter(o.holes, p.addr, d - p.new)
    BY <1>5, Zenon DEF InsAfter, HolesAfter
  <2> QED
    BY <1>1, <1>5, <1>8, <2>1, Zenon DEF IsShrunk
<1> QED
  BY <1>7, <1>9, Zenon

\* The words before word e have moved, the bytes from it on are still there.
CodeMoved(c, n, at, nat, size, e) ==
  /\ c \in Seq(Nat) /\ Len(c) = Len(code)
  /\ \A i \in 1 .. n : i < e => \A b \in 1 .. size[i] : c[nat[i] + b] = code[at[i] + b]
  /\ \A p \in 1 .. Len(code) : p > at[e] => c[p] = code[p]

\* The next words to move, from e on and before f; only the last one shrinks.
Moving(at, nat, n, size, e, f) ==
  /\ Shrinking(at, nat, n, size)
  /\ code \in Seq(Nat) /\ at[n + 1] = Len(code)
  /\ e \in 1 .. n + 1 /\ f \in e .. n + 1
  /\ \A i \in e .. n : i + 1 < f => size[i] = Room(at, i)

LEMMA CodeMoves ==
  ASSUME NEW at, NEW nat, NEW n, NEW size, NEW e, NEW f, Moving(at, nat, n, size, e, f),
         NEW c, CodeMoved(c, n, at, nat, size, e),
         NEW to, to = at[e] + (nat[f] - nat[e])
  PROVE  CodeMoved(CopyWithin(c, at[e], to, nat[e]), n, at, nat, size, f)
<1>1. /\ c \in Seq(Nat) /\ Len(c) = Len(code) /\ Len(code) \in Nat
      /\ \A i \in 1 .. n : i < e => \A b \in 1 .. size[i] : c[nat[i] + b] = code[at[i] + b]
      /\ \A p \in 1 .. Len(code) : p > at[e] => c[p] = code[p]
  <2>1. code \in Seq(Nat)
    BY DEF Moving
  <2>2. Len(code) \in Nat
    BY <2>1
  <2> QED
    BY <2>2 DEF CodeMoved
<1>0. Shrinking(at, nat, n, size) /\ at[n + 1] = Len(code)
  BY DEF Moving
<1>2. n \in Nat /\ e \in Nat /\ f \in Nat /\ f \in 1 .. n + 1 /\ e \in 1 .. n + 1 /\ e <= f
  BY DEF Shrinking, Ascends, Moving
<1>3. Ascends(at, n) /\ Ascends(nat, n)
  BY <1>0, PackedAscends DEF Shrinking
<1>4. PICK src \in Nat, dest \in Nat, end \in Nat, pos \in Nat, len \in Nat :
        /\ src = at[e] /\ dest = nat[e] /\ end = nat[f] /\ pos = at[f] /\ len = Len(code)
        /\ dest <= src /\ end <= pos
  <2>1. nat[e] \in Nat /\ at[e] \in Nat /\ nat[e] <= at[e]
    BY <1>0, <1>2, MovedToFront
  <2>2. nat[f] \in Nat /\ at[f] \in Nat /\ nat[f] <= at[f]
    BY <1>0, <1>2, MovedToFront
  <2> QED
    BY <1>1, <2>1, <2>2, Zenon
<1>14. src \in Nat /\ dest \in Nat /\ end \in Nat /\ pos \in Nat /\ len \in Nat /\ dest <= src /\ end <= pos
  BY <1>4
<1>13. to = src + (end - dest)
  BY <1>4, Zenon
<1>5. \A i \in 1 .. n : \A j \in 1 .. n + 1 : i < j =>
        /\ at[i] \in Nat /\ at[j] \in Nat /\ nat[i] \in Nat /\ nat[j] \in Nat
        /\ at[i + 1] <= at[j] /\ nat[i + 1] <= nat[j]
  <2>1. SUFFICES ASSUME NEW i \in 1 .. n, NEW j \in 1 .. n + 1, i < j
                 PROVE  /\ at[i] \in Nat /\ at[j] \in Nat /\ nat[i] \in Nat /\ nat[j] \in Nat
                        /\ at[i + 1] <= at[j] /\ nat[i + 1] <= nat[j]
    OBVIOUS
  <2>2. j \in i + 1 .. n + 1
    BY <1>2, <2>1
  <2> QED
    BY <1>3, <2>2, Ascending
<1>6. pos <= len
  <2>1. CASE f = n + 1
    BY <1>0, <1>4, <2>1
  <2>2. CASE f # n + 1
    <3>1. f \in 1 .. n /\ n + 1 \in 1 .. n + 1 /\ f < n + 1
      BY <1>2, <2>2
    <3>2. at[f + 1] <= at[n + 1] /\ at[n + 1] \in Nat
      BY <1>5, <3>1
    <3>3. at[f + 1] = at[f] + Room(at, f) /\ Room(at, f) \in Nat
      BY <3>1, <1>0, ShrinkingIs
    <3> QED
      BY <1>0, <1>4, <3>2, <3>3
  <2> QED
    BY <2>1, <2>2
\* A word that moves now.
<1>7. ASSUME NEW i \in 1 .. n, e <= i, i < f
      PROVE  /\ at[i] \in Nat /\ nat[i] \in Nat /\ size[i] \in Nat
             /\ at[i] - nat[i] = src - dest /\ src <= at[i] /\ dest <= nat[i]
             /\ nat[i] + size[i] <= end /\ at[i] + size[i] <= pos
  <2>1. i \in e .. n + 1
    BY <1>2, <1>7
  <2>2. \A l \in e .. i - 1 : size[l] = Room(at, l)
    <3>1. \A l \in e .. i - 1 : l \in e .. n /\ l + 1 < f
      BY <1>2, <1>7
    <3> QED
      BY <3>1 DEF Moving
  <2>3. at[i] \in Nat /\ nat[i] \in Nat /\ at[i] - nat[i] = at[e] - nat[e]
    <3>1. e \in 1 .. n + 1
      BY <1>2
    <3> QED
      BY <1>0, <2>1, <2>2, <3>1, SameDistance
  <2>4. src <= at[i] /\ dest <= nat[i]
    <3>1. CASE i = e
      BY <1>4, <3>1
    <3>2. CASE i # e
      <4>1. e \in 1 .. n /\ i \in 1 .. n + 1 /\ e < i
        BY <1>2, <1>7, <3>2
      <4>2. at[e + 1] <= at[i]
        BY <1>5, <4>1
      <4>3. at[e + 1] = at[e] + Room(at, e) /\ Room(at, e) \in Nat
        BY <4>1, <1>0, ShrinkingIs
      <4>4. PICK x \in Nat, y \in Nat, next \in Nat, room \in Nat :
              /\ x = at[i] /\ y = nat[i] /\ next = at[e + 1] /\ room = Room(at, e)
              /\ next <= x /\ next = src + room /\ x - y = src - dest
        <5>1. at[e + 1] \in Nat
          BY <4>1, <1>0, ShrinkingIs
        <5> QED
          BY <1>4, <2>3, <4>2, <4>3, <5>1, Zenon
      <4>5. src <= x /\ dest <= y
        BY <1>14, <4>4
      <4> QED
        BY <4>4, <4>5, Zenon
    <3> QED
      BY <3>1, <3>2
  <2>5. /\ size[i] \in Nat /\ nat[i + 1] = nat[i] + size[i] /\ size[i] <= Room(at, i)
        /\ at[i + 1] = at[i] + Room(at, i) /\ Room(at, i) \in Nat
    BY <1>0, ShrinkingIs
  <2>6. nat[i + 1] <= end /\ at[i + 1] <= pos
    BY <1>2, <1>4, <1>5, <1>7
  <2>7. nat[i] + size[i] <= end /\ at[i] + size[i] <= pos
    BY <1>4, <2>3, <2>5, <2>6
  <2> QED
    BY <1>4, <2>3, <2>4, <2>5, <2>7
<1>8. to \in Nat /\ src <= to /\ to <= pos /\ to - src = end - dest /\ dest <= end
  <2>1. CASE f = e
    <3>1. end = dest /\ pos = src
      BY <1>4, <2>1, Zenon
    <3> QED
      BY <1>13, <3>1
  <2>2. CASE f # e
    <3>1. PICK i \in 1 .. n : e <= i /\ i < f /\ i + 1 = f
      <4>1. f - 1 \in 1 .. n /\ e <= f - 1 /\ f - 1 < f /\ (f - 1) + 1 = f
        BY <1>2, <2>2
      <4> QED
        BY <4>1
    <3>2. /\ at[i] \in Nat /\ nat[i] \in Nat /\ size[i] \in Nat
          /\ at[i] - nat[i] = src - dest /\ src <= at[i] /\ dest <= nat[i]
          /\ nat[i] + size[i] <= end /\ at[i] + size[i] <= pos
      BY <1>7, <3>1
    <3>3. end = nat[i] + size[i]
      BY <1>4, <3>1, <1>0, ShrinkingIs
    <3>4. PICK x \in Nat, y \in Nat, z \in Nat :
            /\ x = at[i] /\ y = nat[i] /\ z = size[i] /\ end = y + z
            /\ x - y = src - dest /\ src <= x /\ dest <= y /\ y + z <= end /\ x + z <= pos
      BY <3>2, <3>3, Zenon
    <3>5. /\ src + (end - dest) \in Nat /\ src <= src + (end - dest) /\ src + (end - dest) <= pos
          /\ (src + (end - dest)) - src = end - dest /\ dest <= end
      BY <1>14, <3>4
    <3> QED
      BY <1>13, <3>5, Zenon
  <2> QED
    BY <2>1, <2>2
<1> DEFINE new == CopyWithin(c, src, to, dest)
<1>9. /\ new \in Seq(Nat) /\ Len(new) = len
      /\ \A p \in 1 .. len : new[p] = IF p > dest /\ p <= end THEN c[(p - dest) + src] ELSE c[p]
  <2>1. IsCopied(new, c, src, to, dest)
    BY <1>1, <1>4, <1>6, <1>8, CopyIs, SMTT(40)
  <2>2. dest + (to - src) = end
    BY <1>4, <1>8
  <2> QED
    BY <1>1, <1>4, <2>1, <2>2 DEF IsCopied
<1> HIDE DEF new
<1>10. ASSUME NEW i \in 1 .. n, i < f, NEW b \in 1 .. size[i]
       PROVE  new[nat[i] + b] = code[at[i] + b]
  <2>1. CASE i < e
    <3>1. /\ nat[i] \in Nat /\ size[i] \in Nat /\ nat[i + 1] = nat[i] + size[i]
      BY <1>0, ShrinkingIs
    <3>2. nat[i + 1] <= nat[e]
      BY <1>2, <1>5, <2>1
    <3>5. PICK y \in Nat, z \in Nat : y = nat[i] /\ z = size[i] /\ y + z <= dest
      <4>1. nat[i] + size[i] <= dest
        BY <1>4, <3>1, <3>2
      <4> QED
        BY <3>1, <4>1, Zenon
    <3>6. b \in 1 .. z
      BY <3>5
    <3>7. y + b \in 1 .. len /\ ~ (y + b > dest)
      BY <1>6, <1>8, <1>14, <3>5, <3>6
    <3>3. nat[i] + b \in 1 .. len /\ ~ (nat[i] + b > dest)
      BY <3>5, <3>7, Zenon
    <3>4. new[nat[i] + b] = c[nat[i] + b]
      BY <1>9, <3>3
    <3> QED
      BY <1>1, <2>1, <3>4
  <2>2. CASE ~ (i < e)
    <3>0. e <= i
      BY <1>2, <2>2
    <3>1. PICK x \in Nat, y \in Nat, z \in Nat :
            /\ x = at[i] /\ y = nat[i] /\ z = size[i]
            /\ x - y = src - dest /\ src <= x /\ dest <= y /\ y + z <= end /\ x + z <= pos
      BY <1>7, <1>10, <3>0
    <3>5. b \in 1 .. z
      BY <3>1
    <3>2. /\ y + b \in 1 .. len /\ y + b > dest /\ y + b <= end
          /\ ((y + b) - dest) + src = x + b
          /\ x + b \in 1 .. len /\ x + b > src
      BY <1>6, <1>14, <3>1, <3>5
    <3>3. new[y + b] = c[x + b]
      BY <1>9, <3>2
    <3>4. c[x + b] = code[x + b]
      BY <1>1, <1>4, <3>2
    <3> QED
      BY <3>1, <3>3, <3>4
  <2> QED
    BY <2>1, <2>2
<1>11. ASSUME NEW p \in 1 .. Len(code), p > at[f] PROVE new[p] = code[p]
  <2>1. p > pos /\ ~ (p <= end) /\ p > src
    <3>1. p > pos
      BY <1>4, <1>11, Zenon
    <3> QED
      BY <1>8, <1>14, <3>1
  <2> QED
    BY <1>1, <1>4, <1>9, <2>1
<1>12. CodeMoved(new, n, at, nat, size, f)
  BY <1>4, <1>9, <1>10, <1>11 DEF CodeMoved
<1> QED
  BY <1>4, <1>12 DEF new
\* The instructions before word e have their new positions, the others are where
\* they are if no more words shrink.
InsMoved(ins, words, at, nat, e) ==
  /\ ins = [m \in 1 .. Len(final_ins_pos) |-> ins[m]]
  /\ \A i \in 1 .. Len(words) : words[i].type = "op" =>
       ins[words[i].val + 1] = IF i < e THEN nat[i] ELSE at[i] - (at[e] - nat[e])

\* From word e on no word shrinks up to word i.
LEMMA UnmovedIs ==
  ASSUME NEW at, NEW nat, NEW n, NEW size, NEW e, NEW f, Moving(at, nat, n, size, e, f),
         NEW i \in 1 .. n, e <= i, i < f
  PROVE  at[i] \in Nat /\ nat[i] \in Nat /\ at[i] - nat[i] = at[e] - nat[e] /\ at[i] - (at[e] - nat[e]) = nat[i]
<1>1. n \in Nat /\ e \in Nat /\ e \in 1 .. n + 1 /\ f \in Nat /\ Shrinking(at, nat, n, size)
  BY DEF Moving, Shrinking, Ascends
<1>2. i \in e .. n + 1
  BY <1>1
<1>3. \A l \in e .. i - 1 : size[l] = Room(at, l)
  <2>1. \A l \in e .. i - 1 : l \in e .. n /\ l + 1 < f
    BY <1>1
  <2> QED
    BY <2>1 DEF Moving
<1>4. at[i] \in Nat /\ nat[i] \in Nat /\ at[e] \in Nat /\ nat[e] \in Nat /\ at[i] - nat[i] = at[e] - nat[e]
  BY <1>1, <1>2, <1>3, SameDistance
<1>5. \A a, b, c, d \in Nat : a - b = c - d => a - (c - d) = b
  OBVIOUS
<1> QED
  BY <1>4, <1>5

LEMMA InsMove ==
  ASSUME NEW words, NEW at, NEW nat, NEW size, NEW e, NEW j, Moving(at, nat, Len(words), size, e, j + 1),
         j \in 1 .. Len(words), e <= j,
         Heads(words, Len(words), at, final_ins_pos), NEW ins, InsMoved(ins, words, at, nat, e),
         NEW saved, saved = Room(at, j) - size[j],
         NEW new, new = InsAfter(ins, at[j], saved)
  PROVE  InsMoved(new, words, at, nat, j + 1)
<1> DEFINE n == Len(words)
<1> HIDE DEF n
<1>1. /\ n \in Nat /\ e \in Nat /\ e \in 1 .. n + 1 /\ j \in 1 .. n /\ j \in Nat /\ j + 1 \in 1 .. n + 1
      /\ Shrinking(at, nat, n, size) /\ Moving(at, nat, n, size, e, j + 1)
  BY DEF Moving, Shrinking, Ascends, n
<1>2. DOMAIN ins = 1 .. Len(final_ins_pos)
  BY DEF InsMoved
<1>3. /\ DOMAIN new = 1 .. Len(final_ins_pos)
      /\ new = [m \in 1 .. Len(final_ins_pos) |-> new[m]]
      /\ \A m \in 1 .. Len(final_ins_pos) :
           new[m] = IF final_ins_pos[m] > at[j] THEN ins[m] - saved ELSE ins[m]
  BY <1>2 DEF InsAfter
<1>4. PICK x \in Nat, y \in Nat, s \in Nat, r \in Nat, d \in Int, d2 \in Int :
        /\ x = at[j] /\ y = nat[j] /\ s = size[j] /\ r = Room(at, j) /\ d = at[e] - nat[e]
        /\ d2 = at[j + 1] - nat[j + 1] /\ x - y = d /\ d2 = d + (r - s) /\ saved = r - s
  <2>1. at[j] \in Nat /\ nat[j] \in Nat /\ at[j] - nat[j] = at[e] - nat[e]
    <3>1. e <= j /\ j < j + 1 /\ j \in 1 .. n
      BY <1>1
    <3>2. PICK f : f = j + 1 /\ Moving(at, nat, n, size, e, f)
      BY <1>1
    <3>3. j < f
      BY <3>1, <3>2
    <3> QED
      BY <3>1, <3>2, <3>3, UnmovedIs
  <2>2. /\ size[j] \in Nat /\ Room(at, j) \in Nat
        /\ at[j + 1] = at[j] + Room(at, j) /\ nat[j + 1] = nat[j] + size[j]
    BY <1>1, ShrinkingIs
  <2>4. /\ at[e] - nat[e] \in Int /\ at[j + 1] - nat[j + 1] \in Int
        /\ at[j + 1] - nat[j + 1] = (at[e] - nat[e]) + (Room(at, j) - size[j])
    <3>1. /\ at[j + 1] - nat[j + 1] \in Int /\ at[j] - nat[j] \in Int
          /\ at[j + 1] - nat[j + 1] = (at[j] - nat[j]) + (Room(at, j) - size[j])
      <4>1. PICK x \in Nat, y \in Nat, r \in Nat, s \in Nat :
              /\ x = at[j] /\ y = nat[j] /\ r = Room(at, j) /\ s = size[j]
              /\ at[j + 1] = x + r /\ nat[j + 1] = y + s
        BY <2>1, <2>2, Zenon
      <4>2. (x + r) - (y + s) \in Int /\ x - y \in Int /\ (x + r) - (y + s) = (x - y) + (r - s)
        <5>1. x \in Nat /\ y \in Nat /\ r \in Nat /\ s \in Nat
          BY <4>1, Zenon
        <5> QED
          BY <5>1, SMT
      <4> QED
        BY <4>1, <4>2, Zenon
    <3> QED
      BY <2>1, <3>1, Zenon
  <2> QED
    BY <1>1, <2>1, <2>2, <2>4, Zenon
<1>6. x \in Nat /\ s \in Nat /\ r \in Nat /\ d \in Int /\ d2 = d + (r - s) /\ saved = r - s
  BY <1>4
<1>7. e \in Nat /\ j \in Nat /\ e <= j
  BY <1>1
<1>5. ASSUME NEW i \in 1 .. n, words[i].type = "op"
      PROVE  new[words[i].val + 1] = IF i < j + 1 THEN nat[i] ELSE at[i] - d2
  <2>1. words[i].val + 1 \in 1 .. Len(final_ins_pos) /\ final_ins_pos[words[i].val + 1] = at[i]
    BY <1>5 DEF Heads, n
  <2>2. PICK m \in 1 .. Len(final_ins_pos) : m = words[i].val + 1 /\ final_ins_pos[m] = at[i]
    BY <2>1
  <2>3. ins[m] = IF i < e THEN nat[i] ELSE at[i] - d
    BY <1>4, <1>5, <2>2 DEF InsMoved, n
  <2>4. new[m] = IF at[i] > x THEN ins[m] - saved ELSE ins[m]
    BY <1>3, <1>4, <2>2
  <2>5. /\ i \in Nat /\ at[i] \in Nat
        /\ i < j => at[i] < x
        /\ j < i => x < at[i]
        /\ i = j => at[i] = x
    <3>1. Ascends(at, n)
      BY <1>1 DEF Shrinking
    <3>2. at[i] \in Nat /\ at[j] \in Nat /\ (i < j => at[i] < at[j])
      BY <1>1, <3>1, AscendingApart
    <3>3. j < i => at[j] < at[i]
      BY <1>1, <3>1, AscendingApart
    <3> QED
      BY <1>1, <1>4, <3>2, <3>3
  <2>6. CASE j < i
    <3>1. at[i] > x /\ ~ (i < e) /\ ~ (i < j + 1)
      BY <1>6, <1>7, <2>5, <2>6
    <3>2. new[m] = (at[i] - d) - saved
      BY <2>3, <2>4, <3>1
    <3>3. \A a \in Nat : (a - d) - (r - s) = a - (d + (r - s))
      BY <1>6
    <3> QED
      BY <1>4, <2>2, <2>5, <3>1, <3>2, <3>3
  <2>7. CASE ~ (j < i)
    <3>1. ~ (at[i] > x) /\ i < j + 1
      BY <1>6, <1>7, <2>5, <2>7
    <3>2. CASE i < e
      BY <2>2, <2>3, <2>4, <3>1, <3>2
    <3>3. CASE ~ (i < e)
      <4>1. e <= i
        BY <1>1, <2>5, <3>3
      <4>2. at[i] - (at[e] - nat[e]) = nat[i]
        <5>1. PICK f : f = j + 1 /\ Moving(at, nat, n, size, e, f)
          BY <1>1
        <5>2. i < f
          BY <3>1, <5>1
        <5> QED
          BY <4>1, <5>1, <5>2, UnmovedIs
      <4> QED
        BY <1>4, <2>2, <2>3, <2>4, <3>1, <3>3, <4>2
    <3> QED
      BY <3>2, <3>3
  <2> QED
    BY <2>6, <2>7
<1> QED
  BY <1>3, <1>4, <1>5 DEF InsMoved, n

\* The addresses of code before word e have their new places.
HolesMoved(holes, cw, nat, e) ==
  /\ holes = [h \in 1 .. Len(cw) |-> holes[h]]
  /\ \A h \in 1 .. Len(cw) : holes[h] = IF cw[h] < e THEN nat[cw[h]] ELSE -1

NoneBetween(cw, n, e, j) ==
  \A h \in 1 .. Len(cw) : cw[h] \in 1 .. n /\ (e <= cw[h] => j <= cw[h])

LEMMA HolesMove ==
  ASSUME NEW at, NEW n \in Nat, Ascends(at, n), NEW cw, Places(final_relocates, at, cw),
         NEW e \in Nat, NEW j \in 1 .. n, e <= j,
         NoneBetween(cw, n, e, j),
         NEW nat, NEW holes, HolesMoved(holes, cw, nat, e),
         NEW new, new = HolesAfter(holes, at[j], nat[j])
  PROVE  HolesMoved(new, cw, nat, j + 1)
<1>1. DOMAIN holes = 1 .. Len(cw)
  BY DEF HolesMoved
<1>2. /\ new = [h \in 1 .. Len(cw) |-> new[h]]
      /\ \A h \in 1 .. Len(cw) : new[h] = IF final_relocates[h] = at[j] THEN nat[j] ELSE holes[h]
  BY <1>1 DEF HolesAfter
<1>3. ASSUME NEW h \in 1 .. Len(cw) PROVE new[h] = IF cw[h] < j + 1 THEN nat[cw[h]] ELSE -1
  <2>1. PICK i \in 1 .. n : i = cw[h] /\ (e <= i => j <= i)
    BY DEF NoneBetween
  <2>2. final_relocates[h] = at[i] /\ holes[h] = IF i < e THEN nat[i] ELSE -1
    BY <2>1 DEF Places, HolesMoved
  <2>3. at[i] = at[j] <=> i = j
    BY AscendingApart
  <2>4. new[h] = IF i = j THEN nat[j] ELSE IF i < e THEN nat[i] ELSE -1
    BY <1>2, <2>2, <2>3
  <2>5. i # j => (i < e <=> i < j + 1)
    BY <2>1
  <2>6. i = j => i < j + 1
    OBVIOUS
  <2> QED
    BY <2>1, <2>4, <2>5, <2>6
<1> QED
  BY <1>2, <1>3 DEF HolesMoved
\* After shrinking the addresses before word e.
Moved(words, at, nat, size, cw, e, o) ==
  /\ DOMAIN o = ShrinkFields
  /\ o.dest = nat[e] /\ o.src = at[e] /\ o.shift = at[e] - nat[e] /\ o.ok = TRUE
  /\ CodeMoved(o.code, Len(words), at, nat, size, e)
  /\ InsMoved(o.ins, words, at, nat, e)
  /\ HolesMoved(o.holes, cw, nat, e)

SizedToShrink(words, at, nat, size, planned, pw, cw) ==
  Sized(words, at, size, planned, pw, cw) /\ Shrinking(at, nat, Len(words), size)

LEMMA SizedIs ==
  ASSUME NEW words, NEW at, NEW nat, NEW size, NEW planned, NEW pw, NEW cw,
         SizedToShrink(words, at, nat, size, planned, pw, cw)
  PROVE  /\ Len(words) \in Nat /\ code \in Seq(Nat) /\ at[Len(words) + 1] = Len(code)
         /\ Layout(at, Len(words), code)
         /\ \A i \in planned : i \in 1 .. Len(words) /\ i \in Nat /\ i >= 1
         /\ \A i \in 1 .. Len(words) : i \notin planned => size[i] = Room(at, i)
         /\ Shrinking(at, nat, Len(words), size)
         /\ Ascends(at, Len(words))
         /\ Heads(words, Len(words), at, final_ins_pos)
         /\ Enumerates(pw, planned) /\ PlanFor(plan, Len(pw), at, size, pw)
         /\ Places(final_relocates, at, cw)
         /\ \A h \in 1 .. Len(cw) : cw[h] \in 1 .. Len(words) /\ cw[h] \in planned
<1>1. Sized(words, at, size, planned, pw, cw) /\ Shrinking(at, nat, Len(words), size)
  BY DEF SizedToShrink
<1>2. Coded(words, at, code, Meant(words, final_ins_pos), size) /\ Enumerates(cw, Of(words, Len(words), {"code"}))
  BY <1>1 DEF Sized
<1>3. Layout(at, Len(words), code)
  BY <1>2 DEF Coded
<1>4. Len(words) \in Nat /\ code \in Seq(Nat) /\ at[Len(words) + 1] = Len(code)
  BY <1>3 DEF Layout
<1>5. \A i \in planned : i \in 1 .. Len(words)
  BY <1>1 DEF Sized
<1>6. \A i \in planned : i \in Nat /\ i >= 1
  BY <1>4, <1>5
<1>7. \A h \in 1 .. Len(cw) : cw[h] \in 1 .. Len(words) /\ words[cw[h]].type = "code"
  BY <1>2 DEF Enumerates, Of
<1>8. \A h \in 1 .. Len(cw) : cw[h] \in 1 .. Len(words) /\ cw[h] \in planned
  BY <1>1, <1>7 DEF Sized
<1>9. Ascends(at, Len(words))
  BY <1>1 DEF Shrinking
<1>10. \A i \in 1 .. Len(words) : i \notin planned => size[i] = Room(at, i)
  BY <1>1 DEF Sized
<1>11. /\ Heads(words, Len(words), at, final_ins_pos)
       /\ Enumerates(pw, planned) /\ PlanFor(plan, Len(pw), at, size, pw)
       /\ Places(final_relocates, at, cw)
  BY <1>1 DEF Sized
<1> QED
  BY <1>1, <1>3, <1>4, <1>5, <1>6, <1>8, <1>9, <1>10, <1>11

LEMMA ShrinkOneMoves ==
  ASSUME NEW words, NEW at, NEW nat, NEW size, NEW planned, NEW pw, NEW cw,
         SizedToShrink(words, at, nat, size, planned, pw, cw),
         NEW k \in Nat, k + 1 <= Len(pw), NEW o, Moved(words, at, nat, size, cw, Behind(pw, k), o)
  PROVE  Moved(words, at, nat, size, cw, Behind(pw, k + 1), ShrinkOne(o, plan[k + 1]))
<1> DEFINE n == Len(words)
<1> HIDE DEF n
<1>1. /\ n \in Nat /\ code \in Seq(Nat) /\ at[n + 1] = Len(code)
      /\ \A i \in planned : i \in 1 .. n /\ i \in Nat /\ i >= 1
      /\ \A i \in 1 .. n : i \notin planned => size[i] = Room(at, i)
      /\ Shrinking(at, nat, n, size) /\ Ascends(at, n)
      /\ Heads(words, n, at, final_ins_pos)
      /\ Enumerates(pw, planned) /\ PlanFor(plan, Len(pw), at, size, pw)
      /\ Places(final_relocates, at, cw)
      /\ \A h \in 1 .. Len(cw) : cw[h] \in 1 .. n /\ cw[h] \in planned
  BY SizedIs DEF n
<1>2. PICK e \in Nat, j \in 1 .. n :
        /\ e = Behind(pw, k) /\ j = pw[k + 1] /\ e >= 1 /\ e <= j /\ j \in planned
        /\ Behind(pw, k + 1) = j + 1 /\ k + 1 \in 1 .. Len(pw)
        /\ \A i \in planned : e <= i => j <= i
  <2>0. Len(pw) \in Nat
    BY <1>1, UpToEnds
  <2>1. k <= Len(pw)
    BY <2>0
  <2>2. /\ Behind(pw, k) \in Nat /\ Behind(pw, k) >= 1
        /\ pw[k + 1] \in planned /\ Behind(pw, k) <= pw[k + 1]
        /\ Behind(pw, k + 1) = pw[k + 1] + 1
        /\ k + 1 \in 1 .. Len(pw)
        /\ \A i \in planned : Behind(pw, k) <= i => pw[k + 1] <= i
    BY <1>1, <2>1, BehindIs
  <2> QED
    BY <1>1, <2>2, Zenon
<1>3. plan[k + 1] = [addr |-> at[j], prev |-> Room(at, j), new |-> size[j]]
  BY <1>1, <1>2 DEF PlanFor
<1>4. PICK p : p = plan[k + 1] /\ p.addr = at[j] /\ p.prev = Room(at, j) /\ p.new = size[j]
  BY <1>3
<1>5. j \in Nat /\ j + 1 \in Nat /\ e \in 1 .. n + 1 /\ j + 1 \in e .. n + 1 /\ j < j + 1
  BY <1>1, <1>2
<1>6. Moving(at, nat, n, size, e, j + 1)
  <2>1. ASSUME NEW i \in e .. n, i + 1 < j + 1 PROVE size[i] = Room(at, i)
    <3>1. i \in 1 .. n /\ i < j /\ e <= i
      BY <1>2, <1>5, <2>1
    <3>2. ~ (j <= i)
      BY <1>5, <3>1
    <3> QED
      BY <1>1, <1>2, <3>1, <3>2
  <2> QED
    BY <1>1, <1>5, <2>1 DEF Moving
<1>7. /\ DOMAIN o = ShrinkFields
      /\ o.dest = nat[e] /\ o.src = at[e] /\ o.shift = at[e] - nat[e] /\ o.ok = TRUE
      /\ CodeMoved(o.code, n, at, nat, size, e)
      /\ InsMoved(o.ins, words, at, nat, e)
      /\ HolesMoved(o.holes, cw, nat, e)
  BY <1>2 DEF Moved, n
<1>8. PICK z : z = ShrinkOne(o, p)
  OBVIOUS
<1>9. IsShrunk(z, o, p)
  BY <1>7, <1>8, ShrinkOneIs
<1>17. e \in Nat /\ e >= 1 /\ e <= j /\ n \in Nat
  BY <1>1, <1>2
<1>10. PICK x \in Nat, y \in Nat, s \in Nat, r \in Nat, src \in Nat, dest \in Nat :
        /\ x = at[j] /\ y = nat[j] /\ s = size[j] /\ r = Room(at, j) /\ src = at[e] /\ dest = nat[e]
        /\ at[j + 1] = x + r /\ nat[j + 1] = y + s
        /\ x - y = src - dest /\ s <= r /\ src <= x
  <2>1. /\ at[j] \in Nat /\ nat[j] \in Nat /\ size[j] \in Nat /\ Room(at, j) \in Nat
        /\ at[j + 1] = at[j] + Room(at, j) /\ nat[j + 1] = nat[j] + size[j] /\ size[j] <= Room(at, j)
    BY <1>1, ShrinkingIs
  <2>2. at[j] - nat[j] = at[e] - nat[e]
    BY <1>2, <1>5, <1>6, UnmovedIs
  <2>3. at[e] \in Nat /\ nat[e] \in Nat
    BY <1>1, <1>5, MovedToFront
  <2>4. at[e] <= at[j]
    <3>1. CASE e = j
      BY <2>1, <3>1
    <3>2. CASE e # j
      <4>1. e \in 1 .. n /\ e < j
        BY <1>5, <1>17, <3>2
      <4>2. at[e] < at[j]
        BY <1>1, <4>1, AscendingApart
      <4> QED
        BY <2>1, <2>3, <4>2
    <3> QED
      BY <3>1, <3>2
  <2> QED
    BY <2>1, <2>2, <2>3, <2>4, Zenon
<1>11. /\ x \in Nat /\ y \in Nat /\ s \in Nat /\ r \in Nat /\ src \in Nat /\ dest \in Nat
       /\ x - y = src - dest /\ s <= r /\ src <= x
  BY <1>10
<1>12. /\ dest + x + s - src = y + s /\ x + s = src + ((y + s) - dest)
       /\ (src - dest) + (r - s) = (x + r) - (y + s) /\ r >= s /\ x >= src
       /\ (y + s) - s = y
  BY <1>11
<1>13. /\ z.dest = nat[j + 1] /\ z.src = at[j + 1] /\ z.shift = at[j + 1] - nat[j + 1] /\ z.ok = TRUE
       /\ DOMAIN z = ShrinkFields
  <2>1. /\ DOMAIN z = ShrinkFields
        /\ z.dest = dest + x + s - src
        /\ z.src = x + r
        /\ z.shift = (src - dest) + (r - s)
        /\ z.ok = (TRUE /\ r >= s /\ x >= src)
    BY <1>4, <1>7, <1>9, <1>10, Zenon DEF IsShrunk
  <2> QED
    BY <1>10, <1>12, <2>1
<1>14. CodeMoved(z.code, n, at, nat, size, j + 1)
  <2>1. z.code = CopyWithin(o.code, at[e], x + s, nat[e])
    BY <1>4, <1>7, <1>9, <1>10, Zenon DEF IsShrunk
  <2>2. x + s = at[e] + (nat[j + 1] - nat[e])
    BY <1>10, <1>12, Zenon
  <2> QED
    BY <1>6, <1>7, <2>1, <2>2, CodeMoves
<1>15. InsMoved(z.ins, words, at, nat, j + 1)
  <2>1. z.ins = InsAfter(o.ins, at[j], Room(at, j) - size[j])
    <3>1. z.ins = InsAfter(o.ins, p.addr, p.prev - p.new)
      BY <1>9 DEF IsShrunk
    <3> QED
      BY <1>4, <3>1, Zenon
  <2>2. PICK ins, saved, new : ins = o.ins /\ saved = Room(at, j) - size[j] /\ new = z.ins
    OBVIOUS
  <2>3. new = InsAfter(ins, at[j], saved)
    BY <2>1, <2>2, Zenon
  <2>4. /\ Moving(at, nat, Len(words), size, e, j + 1) /\ j \in 1 .. Len(words)
        /\ Heads(words, Len(words), at, final_ins_pos)
    BY <1>1, <1>6 DEF n
  <2>5. InsMoved(ins, words, at, nat, e)
    BY <1>7, <2>2
  <2>6. saved = Room(at, j) - size[j]
    BY <2>2
  <2>7. InsMoved(new, words, at, nat, j + 1)
    BY <1>17, <2>3, <2>4, <2>5, <2>6, InsMove
  <2> QED
    BY <2>2, <2>7
<1>16. HolesMoved(z.holes, cw, nat, j + 1)
  <2>1. z.dest - p.new = nat[j]
    BY <1>4, <1>10, <1>12, <1>13
  <2>2. z.holes = HolesAfter(o.holes, at[j], nat[j])
    <3>1. z.holes = HolesAfter(o.holes, p.addr, z.dest - p.new)
      BY <1>9 DEF IsShrunk
    <3> QED
      BY <1>4, <2>1, <3>1, Zenon
  <2>3. NoneBetween(cw, n, e, j)
    BY <1>1, <1>2 DEF NoneBetween
  <2> QED
    <3>1. PICK holes, new : holes = o.holes /\ new = z.holes
      OBVIOUS
    <3>2. new = HolesAfter(holes, at[j], nat[j])
      BY <2>2, <3>1, Zenon
    <3>3. HolesMoved(holes, cw, nat, e)
      BY <1>7, <3>1
    <3>4. HolesMoved(new, cw, nat, j + 1)
      <4>1. n \in Nat /\ Ascends(at, n) /\ Places(final_relocates, at, cw)
        BY <1>1
      <4> QED
        BY <1>17, <2>3, <3>2, <3>3, <4>1, HolesMove
    <3> QED
      BY <3>1, <3>4
<1> QED
  BY <1>2, <1>4, <1>8, <1>13, <1>14, <1>15, <1>16 DEF Moved, n
\* When the words have moved, their instructions are where they are now.
LEMMA HeadsMove ==
  ASSUME NEW words, WellFormed(words), NEW at, NEW nat, NEW size, NEW e,
         Moving(at, nat, Len(words), size, e, Len(words) + 1),
         Heads(words, Len(words), at, final_ins_pos), NEW ins, InsMoved(ins, words, at, nat, e)
  PROVE  Heads(words, Len(words), nat, ins) /\ Len(ins) = Len(final_ins_pos)
<1> DEFINE n == Len(words)
<1> HIDE DEF n
<1>1. /\ n \in Nat /\ e \in Nat /\ nat \in [1 .. n + 1 -> Nat]
      /\ Moving(at, nat, n, size, e, n + 1)
  BY DEF Moving, Shrinking, Ascends, Packed, n
<1>2. /\ \A i \in 1 .. n : words[i].type = "op" =>
           words[i].val + 1 \in 1 .. Len(final_ins_pos) /\ final_ins_pos[words[i].val + 1] = at[i]
      /\ \A m \in 1 .. Len(final_ins_pos) : \E i \in 1 .. n : words[i] = Op(m - 1)
      /\ final_ins_pos \in Seq(Nat) /\ Len(final_ins_pos) \in Nat
  BY DEF Heads, n
<1>3. ASSUME NEW i \in 1 .. n, words[i].type = "op" PROVE ins[words[i].val + 1] = nat[i] /\ nat[i] \in Nat
  <2>1. ins[words[i].val + 1] = IF i < e THEN nat[i] ELSE at[i] - (at[e] - nat[e])
    BY <1>3 DEF InsMoved, n
  <2>2. ~ (i < e) => at[i] - (at[e] - nat[e]) = nat[i]
    <3>1. SUFFICES ASSUME ~ (i < e) PROVE at[i] - (at[e] - nat[e]) = nat[i]
      OBVIOUS
    <3>2. e <= i /\ i < n + 1
      BY <1>1, <3>1
    <3>3. PICK f : f = n + 1 /\ Moving(at, nat, n, size, e, f) /\ i < f
      BY <1>1, <3>2
    <3> QED
      BY <3>2, <3>3, UnmovedIs
  <2>3. nat[i] \in Nat
    <3>1. i \in 1 .. n + 1
      BY <1>1
    <3> QED
      BY <1>1, <3>1
  <2> QED
    BY <2>1, <2>2, <2>3
<1>4. ins = [m \in 1 .. Len(final_ins_pos) |-> ins[m]]
  BY DEF InsMoved
<1>5. ASSUME NEW m \in 1 .. Len(final_ins_pos) PROVE ins[m] \in Nat
  <2>1. PICK i \in 1 .. n : words[i] = Op(m - 1)
    BY <1>2
  <2>2. words[i].type = "op" /\ words[i].val = m - 1 /\ (m - 1) + 1 = m
    BY <2>1 DEF Op
  <2>3. ins[words[i].val + 1] \in Nat
    BY <1>3, <2>2
  <2> QED
    BY <2>2, <2>3
<1>6. ins \in Seq(Nat) /\ Len(ins) = Len(final_ins_pos)
  <2>1. ins \in [1 .. Len(final_ins_pos) -> Nat]
    BY <1>4, <1>5
  <2> QED
    BY <1>2, <2>1, FunctionIsSequence
<1>7. Heads(words, n, nat, ins)
  BY <1>2, <1>3, <1>6 DEF Heads
<1> QED
  BY <1>6, <1>7 DEF n

\* The addresses of code are in their new places.
LEMMA PlacesMove ==
  ASSUME NEW cw, NEW S, Enumerates(cw, S), NEW n \in Nat, S \subseteq 1 .. n,
         NEW e \in Nat, \A i \in S : i < e,
         NEW nat \in [1 .. n + 1 -> Nat], NEW holes, HolesMoved(holes, cw, nat, e)
  PROVE  Places(holes, nat, cw)
<1>1. Len(cw) \in Nat /\ \A h \in 1 .. Len(cw) : cw[h] \in S
  BY DEF Enumerates
<1>2. \A i \in S : i \in 1 .. n + 1
  OBVIOUS
<1>3. \A h \in 1 .. Len(cw) : holes[h] = nat[cw[h]] /\ nat[cw[h]] \in Nat
  BY <1>1, <1>2 DEF HolesMoved
<1>4. holes = [h \in 1 .. Len(cw) |-> holes[h]]
  BY DEF HolesMoved
<1>5. holes \in [1 .. Len(cw) -> Nat]
  BY <1>3, <1>4
<1>6. holes \in Seq(Nat) /\ Len(holes) = Len(cw)
  BY <1>1, <1>5, FunctionIsSequence
<1> QED
  BY <1>3, <1>6 DEF Places

\* The code has no more than its words.
LEMMA CodePacks ==
  ASSUME NEW words, NEW at, NEW val, NEW size, Coded(words, at, code, val, size),
         NEW nat, Shrinking(at, nat, Len(words), size),
         NEW c, CodeMoved(c, Len(words), at, nat, size, Len(words) + 1),
         NEW new, new = SubSeq(c, 1, nat[Len(words) + 1])
  PROVE  Coded(words, nat, new, val, size)
<1> DEFINE n == Len(words)
<1> HIDE DEF n
<1>1. /\ Shrinking(at, nat, n, size) /\ n \in Nat /\ nat \in [1 .. n + 1 -> Nat] /\ nat[1] = 0
      /\ at[n + 1] = Len(code)
      /\ \A i \in 1 .. n : size[i] \in Nat \ {0} /\ WordAt(words[i], code, at[i], val[i], size[i])
  BY DEF Coded, Layout, Shrinking, Packed, n
<1>2. /\ c \in Seq(Nat) /\ Len(c) = Len(code)
      /\ \A i \in 1 .. n : i < n + 1 => \A b \in 1 .. size[i] : c[nat[i] + b] = code[at[i] + b]
  BY DEF CodeMoved, n
<1>3. Ascends(nat, n)
  BY <1>1, PackedAscends
<1>4. PICK len \in Nat : len = nat[n + 1] /\ len <= Len(c) /\ new = SubSeq(c, 1, len)
  <2>1. nat[n + 1] \in Nat /\ nat[n + 1] <= at[n + 1]
    <3>1. n + 1 \in 1 .. n + 1
      BY <1>1
    <3> QED
      BY <1>1, <3>1, MovedToFront
  <2>2. new = SubSeq(c, 1, nat[n + 1])
    BY DEF n
  <2> QED
    BY <1>1, <1>2, <2>1, <2>2
<1>5. new \in Seq(Nat) /\ Len(new) = len /\ \A p \in 1 .. len : new[p] = c[p]
  <2>1. Len(c) \in Nat /\ \A p \in 1 .. Len(c) : c[p] \in Nat
    BY <1>2
  <2>2. \A p \in 1 .. len : p \in 1 .. Len(c)
    BY <1>4, <2>1
  <2>3. \A p \in 1 .. len : c[p] \in Nat
    BY <2>1, <2>2
  <2>4. /\ SubSeq(c, 1, len) \in Seq(Nat)
        /\ Len(SubSeq(c, 1, len)) = IF 1 <= len THEN len - 1 + 1 ELSE 0
        /\ \A p \in 1 .. len - 1 + 1 : SubSeq(c, 1, len)[p] = c[1 + p - 1]
    <3>1. 1 \in Int /\ len \in Int
      OBVIOUS
    <3> QED
      BY <2>3, <3>1, SubSeqProperties
  <2>5. (IF 1 <= len THEN len - 1 + 1 ELSE 0) = len /\ len - 1 + 1 = len /\ \A p \in 1 .. len : 1 + p - 1 = p
    OBVIOUS
  <2> QED
    BY <1>4, <2>4, <2>5
<1>6. Layout(nat, n, new)
  BY <1>1, <1>3, <1>4, <1>5 DEF Layout, Ascends
<1>7. ASSUME NEW i \in 1 .. n
      PROVE  size[i] \in Nat \ {0} /\ size[i] <= Room(nat, i) /\ WordAt(words[i], new, nat[i], val[i], size[i])
  <2>1. PICK y \in Nat, s \in Nat : y = nat[i] /\ s = size[i] /\ s # 0 /\ nat[i + 1] = y + s
    <3>1. nat[i] \in Nat /\ size[i] \in Nat /\ nat[i + 1] = nat[i] + size[i]
      <4>1. Shrinking(at, nat, n, size)
        BY <1>1
      <4> QED
        BY <4>1, ShrinkingIs
    <3>2. size[i] # 0
      BY <1>1
    <3> QED
      BY <3>1, <3>2, Zenon
  <2>2. Room(nat, i) = s /\ s <= s
    <3>1. (y + s) - y = s
      OBVIOUS
    <3> QED
      BY <2>1, <3>1 DEF Room
  <2>3. y + s <= len
    <3>1. Layout(nat, n, new) /\ i \in 1 .. n
      BY <1>6
    <3>2. nat[i + 1] <= Len(new)
      BY <3>1, WordsApart
    <3> QED
      BY <1>5, <2>1, <3>2
  <2>4. \A b \in 1 .. s : y + b \in 1 .. len
    BY <2>3
  <2>5. \A b \in 1 .. s : new[y + b] = code[at[i] + b]
    <3>1. i < n + 1
      BY <1>1
    <3> QED
      BY <1>2, <1>5, <2>1, <2>4, <3>1
  <2>6. Copied(code, at[i], new, y, s)
    BY <1>5, <2>3, <2>5 DEF Copied
  <2>7. WordAt(words[i], code, at[i], val[i], s)
    BY <1>1, <2>1
  <2>8. WordAt(words[i], new, y, val[i], s)
    BY <2>6, <2>7, WordKept
  <2> QED
    BY <2>1, <2>2, <2>8
<1> QED
  BY <1>6, <1>7 DEF Coded, n
\* The first loop of the plan and the code behind it.
Packs(words, at, nat, size, cw, o) ==
  /\ DOMAIN o = ShrinkFields /\ o.ok = TRUE
  /\ nat[Len(words) + 1] \in Nat /\ o.shift = Len(code) - nat[Len(words) + 1]
  /\ Coded(words, nat, o.code, Meant(words, final_ins_pos), size)
  /\ Heads(words, Len(words), nat, o.ins) /\ Len(o.ins) = Len(final_ins_pos)
  /\ Places(o.holes, nat, cw)

LEMMA MovedPacks ==
  ASSUME NEW words, WellFormed(words), NEW at, NEW nat, NEW size, NEW planned, NEW pw, NEW cw,
         SizedToShrink(words, at, nat, size, planned, pw, cw),
         NEW o, Moved(words, at, nat, size, cw, Behind(pw, Len(pw)), o),
         NEW m, m = Len(code) - o.shift,
         NEW new, new = [o EXCEPT !.code = SubSeq(CopyWithin(@, o.src, o.src + m - o.dest, o.dest), 1, m)]
  PROVE  Packs(words, at, nat, size, cw, new)
<1> DEFINE n == Len(words)
<1> HIDE DEF n
<1>1. /\ n \in Nat /\ code \in Seq(Nat) /\ at[n + 1] = Len(code) /\ Len(code) \in Nat
      /\ \A i \in planned : i \in 1 .. n /\ i \in Nat /\ i >= 1
      /\ \A i \in 1 .. n : i \notin planned => size[i] = Room(at, i)
      /\ Shrinking(at, nat, n, size)
      /\ Heads(words, n, at, final_ins_pos)
      /\ Enumerates(pw, planned)
      /\ \A h \in 1 .. Len(cw) : cw[h] \in 1 .. n /\ cw[h] \in planned
  BY SizedIs DEF n
<1>2. PICK e \in Nat : e = Behind(pw, Len(pw)) /\ e >= 1 /\ \A i \in planned : i < e
  <2>1. Len(pw) \in Nat /\ Len(pw) <= Len(pw)
    BY <1>1, UpToEnds
  <2>2. /\ Behind(pw, Len(pw)) \in Nat /\ Behind(pw, Len(pw)) >= 1
        /\ \A i \in planned : i < Behind(pw, Len(pw))
    BY <1>1, <2>1, BehindIs
  <2> QED
    BY <2>2
<1>3. e \in 1 .. n + 1
  <2>1. CASE Len(pw) = 0
    <3>1. e = 1
      BY <1>2, <2>1 DEF Behind
    <3> QED
      BY <1>1, <3>1
  <2>2. CASE Len(pw) # 0
    <3>1. Len(pw) \in 1 .. Len(pw)
      BY <1>1, <2>2, UpToEnds
    <3>2. pw[Len(pw)] \in planned
      BY <1>1, <3>1 DEF Enumerates
    <3>3. e = pw[Len(pw)] + 1
      BY <1>2, <2>2 DEF Behind
    <3> QED
      BY <1>1, <3>2, <3>3
  <2> QED
    BY <2>1, <2>2
<1>4. Moving(at, nat, n, size, e, n + 1)
  <2>1. ASSUME NEW i \in e .. n PROVE size[i] = Room(at, i)
    <3>1. i \in 1 .. n /\ ~ (i < e)
      BY <1>1, <1>3
    <3> QED
      BY <1>1, <1>2, <3>1
  <2>2. n + 1 \in e .. n + 1
    BY <1>1, <1>3
  <2> QED
    BY <1>1, <1>3, <2>1, <2>2 DEF Moving
<1>5. /\ DOMAIN o = ShrinkFields
      /\ o.dest = nat[e] /\ o.src = at[e] /\ o.shift = at[e] - nat[e] /\ o.ok = TRUE
      /\ CodeMoved(o.code, n, at, nat, size, e)
      /\ InsMoved(o.ins, words, at, nat, e)
      /\ HolesMoved(o.holes, cw, nat, e)
  BY <1>2 DEF Moved, n
<1>6. PICK src \in Nat, dest \in Nat, end \in Nat, len \in Nat :
        /\ src = at[e] /\ dest = nat[e] /\ end = nat[n + 1] /\ len = Len(code)
        /\ len - end = src - dest
  <2>1. n + 1 \in e .. n + 1 /\ \A i \in e .. (n + 1) - 1 : size[i] = Room(at, i)
    <3>1. n + 1 \in e .. n + 1 /\ (n + 1) - 1 = n
      BY <1>1, <1>3, SMTT(40)
    <3>2. \A i \in e .. n : i \in 1 .. n /\ ~ (i < e)
      BY <1>1, <1>3
    <3> QED
      BY <1>1, <1>2, <3>1, <3>2
  <2>2. /\ at[n + 1] \in Nat /\ nat[n + 1] \in Nat /\ at[e] \in Nat /\ nat[e] \in Nat
        /\ at[n + 1] - nat[n + 1] = at[e] - nat[e]
    <3>1. Shrinking(at, nat, n, size) /\ e \in 1 .. n + 1
      BY <1>1, <1>3
    <3> QED
      BY <2>1, <3>1, SameDistance, SMTT(40)
  <2> QED
    BY <1>1, <2>2, Zenon
<1>7. m = end /\ src + m - dest = src + (end - dest)
  <2>1. m = len - (src - dest)
    BY <1>5, <1>6, Zenon
  <2>2. \A a, b, c, d \in Nat : a - b = c - d => a - (c - d) = b /\ c + b - d = c + (b - d)
    OBVIOUS
  <2>3. len - (src - dest) = end /\ src + end - dest = src + (end - dest)
    BY <1>6, <2>2
  <2> QED
    BY <2>1, <2>3, Zenon
<1>8. PICK c : c = CopyWithin(o.code, src, src + (end - dest), dest)
  OBVIOUS
<1>9. PICK d : d = SubSeq(c, 1, end)
  OBVIOUS
<1>10. new = [o EXCEPT !.code = d]
  BY <1>5, <1>6, <1>7, <1>8, <1>9, Zenon
<1>11. /\ DOMAIN new = ShrinkFields /\ new.ok = TRUE /\ new.shift = o.shift /\ new.code = d
       /\ new.ins = o.ins /\ new.holes = o.holes
  BY <1>5, <1>10 DEF ShrinkFields
<1>12. CodeMoved(c, n, at, nat, size, n + 1)
  <2>1. c = CopyWithin(o.code, at[e], at[e] + (nat[n + 1] - nat[e]), nat[e])
    BY <1>6, <1>8, Zenon
  <2> QED
    BY <1>4, <1>5, <2>1, CodeMoves
<1>13. Coded(words, nat, d, Meant(words, final_ins_pos), size)
  <2>1. Coded(words, at, code, Meant(words, final_ins_pos), size)
    BY DEF SizedToShrink, Sized
  <2>2. /\ Shrinking(at, nat, Len(words), size)
        /\ CodeMoved(c, Len(words), at, nat, size, Len(words) + 1)
        /\ d = SubSeq(c, 1, nat[Len(words) + 1])
    BY <1>1, <1>6, <1>9, <1>12 DEF n
  <2> QED
    BY <2>1, <2>2, CodePacks
<1>14. Heads(words, n, nat, o.ins) /\ Len(o.ins) = Len(final_ins_pos)
  <2>1. Moving(at, nat, Len(words), size, e, Len(words) + 1) /\ Heads(words, Len(words), at, final_ins_pos)
    BY <1>1, <1>4 DEF n
  <2>2. InsMoved(o.ins, words, at, nat, e)
    BY <1>5
  <2>3. Heads(words, Len(words), nat, o.ins) /\ Len(o.ins) = Len(final_ins_pos)
    BY <2>1, <2>2, HeadsMove
  <2> QED
    BY <2>3 DEF n
<1>15. Places(o.holes, nat, cw)
  <2>1. Enumerates(cw, Of(words, n, {"code"}))
    BY DEF SizedToShrink, Sized, n
  <2>2. Of(words, n, {"code"}) \subseteq 1 .. n
    BY DEF Of
  <2>3. \A i \in Of(words, n, {"code"}) : i < e
    <3>1. \A i \in 1 .. n : words[i].type = "code" => i \in planned
      BY DEF SizedToShrink, Sized, n
    <3> QED
      BY <1>2, <3>1 DEF Of
  <2>4. nat \in [1 .. n + 1 -> Nat]
    BY <1>1 DEF Shrinking, Packed
  <2>5. HolesMoved(o.holes, cw, nat, e)
    BY <1>5
  <2> QED
    BY <1>1, <2>1, <2>2, <2>3, <2>4, <2>5, PlacesMove
<1>16. o.shift = Len(code) - nat[n + 1] /\ nat[n + 1] \in Nat
  BY <1>5, <1>6
<1> QED
  BY <1>11, <1>13, <1>14, <1>15, <1>16 DEF Packs, n

LEMMA ShrunkPacks ==
  ASSUME NEW words, WellFormed(words), NEW at, NEW nat, NEW size, NEW planned, NEW pw, NEW cw,
         SizedToShrink(words, at, nat, size, planned, pw, cw)
  PROVE  Packs(words, at, nat, size, cw, Shrunk)
<1> DEFINE n == Len(plan)
           first == [code |-> code, dest |-> 0, src |-> 0, shift |-> 0, ok |-> TRUE,
                     ins |-> final_ins_pos, holes |-> [h \in DOMAIN final_relocates |-> -1]]
           f == CHOOSE f : f = [k \in 0 .. n |-> IF k = 0 THEN first ELSE ShrinkOne(f[k - 1], plan[k])]
           m == Len(code) - f[n].shift
<1>1. Shrunk = [f[n] EXCEPT !.code = SubSeq(CopyWithin(@, f[n].src, f[n].src + m - f[n].dest, f[n].dest), 1, m)]
  BY DEF Shrunk
<1>2. /\ Len(words) \in Nat /\ code \in Seq(Nat)
      /\ Shrinking(at, nat, Len(words), size)
      /\ Heads(words, Len(words), at, final_ins_pos)
      /\ Enumerates(pw, planned) /\ PlanFor(plan, Len(pw), at, size, pw)
      /\ Places(final_relocates, at, cw)
      /\ \A h \in 1 .. Len(cw) : cw[h] \in 1 .. Len(words)
  BY SizedIs
<1>4. n \in Nat /\ n = Len(pw)
  BY <1>2, UpToEnds DEF PlanFor
<1>5. Looping("shrink", 0, first, n, f)
  <2>1. \A g : Looping("shrink", 0, first, n, g) <=>
               g = [k \in 0 .. n |-> IF k = 0 THEN first ELSE ShrinkOne(g[k - 1], plan[k])]
    BY DEF Looping, Pass
  <2>2. \E g : g = [k \in 0 .. n |-> IF k = 0 THEN first ELSE ShrinkOne(g[k - 1], plan[k])]
    BY <1>4, <2>1, LoopExists
  <2>3. f = [k \in 0 .. n |-> IF k = 0 THEN first ELSE ShrinkOne(f[k - 1], plan[k])]
    BY <2>2, Zenon
  <2> QED
    BY <2>1, <2>3
<1> HIDE DEF f
<1>6. /\ f[0] = first
      /\ \A k \in Nat : k + 1 <= n => f[k + 1] = ShrinkOne(f[k], plan[k + 1])
  <2>1. \A o, k : Pass("shrink", 0, o, k) = ShrinkOne(o, plan[k])
    BY DEF Pass
  <2>2. /\ f[0] = first
        /\ \A k \in Nat : k + 1 <= n => f[k + 1] = Pass("shrink", 0, f[k], k + 1)
    <3> HIDE DEF n, first
    <3>1. Loops("shrink", 0, first, n, f)
      BY <1>4, <1>5, LoopIs
    <3> QED
      BY <3>1 DEF Loops
  <2> QED
    BY <2>1, <2>2
<1>7. Moved(words, at, nat, size, cw, Behind(pw, 0), first)
  <2>1. Behind(pw, 0) = 1
    BY DEF Behind
  <2>2. at[1] = 0 /\ nat[1] = 0
    BY <1>2 DEF Shrinking, Packed
  <2>3. /\ DOMAIN first = ShrinkFields
        /\ first.dest = 0 /\ first.src = 0 /\ first.shift = 0 /\ first.ok = TRUE /\ first.code = code
        /\ first.ins = final_ins_pos /\ first.holes = [h \in DOMAIN final_relocates |-> -1]
    BY DEF ShrinkFields
  <2>4. CodeMoved(code, Len(words), at, nat, size, 1)
    <3>1. \A i \in 1 .. Len(words) : ~ (i < 1)
      BY <1>2
    <3> QED
      BY <1>2, <3>1 DEF CodeMoved
  <2>5. InsMoved(final_ins_pos, words, at, nat, 1)
    <3>1. final_ins_pos \in Seq(Nat)
      BY <1>2 DEF Heads
    <3>2. final_ins_pos = [l \in 1 .. Len(final_ins_pos) |-> final_ins_pos[l]]
      BY <3>1
    <3>3. ASSUME NEW i \in 1 .. Len(words), words[i].type = "op"
          PROVE  final_ins_pos[words[i].val + 1] = IF i < 1 THEN nat[i] ELSE at[i] - (at[1] - nat[1])
      <4>1. final_ins_pos[words[i].val + 1] = at[i]
        BY <1>2, <3>3 DEF Heads
      <4>2. at[i] \in Nat
        BY <1>2, ShrinkingIs
      <4>3. \A a \in Nat : a - (0 - 0) = a
        OBVIOUS
      <4>4. ~ (i < 1)
        BY <1>2
      <4> QED
        BY <2>2, <4>1, <4>2, <4>3, <4>4
    <3> QED
      BY <3>2, <3>3 DEF InsMoved
  <2>6. HolesMoved(first.holes, cw, nat, 1)
    <3>1. DOMAIN final_relocates = 1 .. Len(cw)
      BY <1>2 DEF Places
    <3>2. first.holes = [h \in 1 .. Len(cw) |-> -1]
      BY <2>3, <3>1
    <3>3. \A h \in 1 .. Len(cw) : ~ (cw[h] < 1)
      BY <1>2
    <3> HIDE DEF first
    <3>4. \A h \in 1 .. Len(cw) : first.holes[h] = -1
      BY <3>2
    <3>5. first.holes = [h \in 1 .. Len(cw) |-> first.holes[h]]
      BY <3>2
    <3> QED
      BY <3>3, <3>4, <3>5 DEF HolesMoved
  <2> HIDE DEF first
  <2>7. 0 - 0 = 0
    OBVIOUS
  <2> QED
    BY <2>1, <2>2, <2>3, <2>4, <2>5, <2>6, <2>7 DEF Moved
<1> HIDE DEF first
<1> DEFINE S == {k \in Nat : k <= n => Moved(words, at, nat, size, cw, Behind(pw, k), f[k])}
<1>8. 0 \in S
  BY <1>6, <1>7
<1>9. ASSUME NEW k \in Nat, k \in S PROVE k + 1 \in S
  <2>1. SUFFICES ASSUME k + 1 <= n PROVE Moved(words, at, nat, size, cw, Behind(pw, k + 1), f[k + 1])
    OBVIOUS
  <2>2. k <= n
    BY <1>4, <2>1
  <2>3. Moved(words, at, nat, size, cw, Behind(pw, k), f[k]) /\ k + 1 <= Len(pw)
    BY <1>4, <1>9, <2>1, <2>2
  <2>4. Moved(words, at, nat, size, cw, Behind(pw, k + 1), ShrinkOne(f[k], plan[k + 1]))
    BY <2>3, ShrinkOneMoves
  <2> QED
    BY <1>6, <2>1, <2>4
<1> HIDE DEF S
<1>10. n \in S
  BY <1>4, <1>8, <1>9, Induction
<1>11. Moved(words, at, nat, size, cw, Behind(pw, Len(pw)), f[n])
  <2>1. n <= n
    BY <1>4
  <2> QED
    BY <1>4, <1>10, <2>1 DEF S
<1>12. PICK o, l, z : o = f[n] /\ l = m /\ z = Shrunk
  OBVIOUS
<1>13. /\ l = Len(code) - o.shift
       /\ z = [o EXCEPT !.code = SubSeq(CopyWithin(@, o.src, o.src + l - o.dest, o.dest), 1, l)]
       /\ Moved(words, at, nat, size, cw, Behind(pw, Len(pw)), o)
  BY <1>1, <1>11, <1>12, Zenon
<1>14. Packs(words, at, nat, size, cw, z)
  BY <1>13, MovedPacks
<1> QED
  BY <1>12, <1>14
-----------------------------------------------------------------------------
(* Addresses of instructions that have moved.                              *)

ToReaddress(words, at, nat, size, cw, ins) ==
  /\ Len(code) < Word /\ Layout(at, Len(words), code)
  /\ Shrinking(at, nat, Len(words), size)
  /\ Heads(words, Len(words), at, final_ins_pos)
  /\ Heads(words, Len(words), nat, ins)
  /\ Enumerates(cw, Of(words, Len(words), {"code"}))
  /\ \A i \in 1 .. Len(words) :
       words[i].type = "code" => size[i] = Blocks(Meant(words, final_ins_pos)[i])

\* The address of an instruction is the one that it had, and the new one is not longer.
IsNewAddress(words, size, ins, i, m, old, new) ==
  /\ {k \in DOMAIN final_ins_pos : final_ins_pos[k] = old} = {m}
  /\ old = Meant(words, final_ins_pos)[i] /\ new = Meant(words, ins)[i] /\ new = ins[m]
  /\ new \in 0 .. Word - 1 /\ Blocks(new) <= size[i]

LEMMA NewAddress ==
  ASSUME NEW words, WellFormed(words), NEW at, NEW nat, NEW size, NEW cw, NEW ins,
         ToReaddress(words, at, nat, size, cw, ins),
         NEW i \in 1 .. Len(words), words[i].type = "code"
  PROVE  \E m, old, new : IsNewAddress(words, size, ins, i, m, old, new)
<1>1. /\ Len(code) < Word /\ Layout(at, Len(words), code)
      /\ Shrinking(at, nat, Len(words), size)
      /\ Heads(words, Len(words), at, final_ins_pos)
      /\ Heads(words, Len(words), nat, ins)
      /\ size[i] = Blocks(Meant(words, final_ins_pos)[i])
  BY DEF ToReaddress
<1>2. PICK m : m = words[i].val + 1
  OBVIOUS
<1>3. PICK h \in 1 .. Len(words) : words[h] = Op(words[i].val) /\ final_ins_pos[m] = at[h] /\ m \in 1 .. Len(final_ins_pos)
  <2>1. Heads(words, Len(words), at, final_ins_pos)
    BY <1>1
  <2>2. /\ words[i].val + 1 \in 1 .. Len(final_ins_pos)
        /\ \E h \in 1 .. Len(words) : /\ words[h] = Op(words[i].val)
                                      /\ final_ins_pos[words[i].val + 1] = at[h]
    BY <2>1, TargetIs
  <2> QED
    BY <1>2, <2>2, Zenon
<1>4. ins[m] = nat[h]
  <2>1. words[h].type = "op" /\ words[h].val + 1 = m
    BY <1>2, <1>3 DEF Op
  <2> QED
    BY <1>1, <2>1 DEF Heads
<1>5. PICK old, new : old = Meant(words, final_ins_pos)[i] /\ new = Meant(words, ins)[i]
  OBVIOUS
<1>6. old = final_ins_pos[m] /\ new = ins[m]
  BY <1>2, <1>5, MeantIs
<1>7. {k \in DOMAIN final_ins_pos : final_ins_pos[k] = old} = {m}
  <2>1. DOMAIN final_ins_pos = 1 .. Len(final_ins_pos)
    BY <1>1 DEF Heads
  <2>2. \A k \in 1 .. Len(final_ins_pos) : final_ins_pos[k] = final_ins_pos[m] => k = m
    BY <1>1, <1>3, HeadsApart
  <2> QED
    BY <1>3, <1>6, <2>1, <2>2
<1>8. old \in 0 .. Word - 1
  BY <1>1, <1>5, MeantFits
<1>9. nat[h] \in Nat /\ at[h] \in Nat /\ nat[h] <= at[h]
  <2>1. h \in 1 .. Len(words) + 1
    BY <1>1 DEF Layout
  <2> QED
    BY <1>1, <2>1, MovedToFront
<1>10. new \in 0 .. old
  <2>1. old = at[h] /\ new = nat[h]
    BY <1>3, <1>4, <1>6
  <2> QED
    BY <1>9, <2>1
<1>11. new \in 0 .. Word - 1 /\ Blocks(new) <= Blocks(old)
  BY <1>8, <1>10, BlocksGrow
<1>12. IsNewAddress(words, size, ins, i, m, old, new)
  BY <1>1, <1>5, <1>6, <1>7, <1>11 DEF IsNewAddress
<1> QED
  BY <1>12

IsReaddressed(z, o, hole, new, size) == z = [o EXCEPT !.code = Patched(o.code, hole, EncodeIn(new, size))]

LEMMA ReaddressedIs ==
  ASSUME NEW o, NEW hole, NEW old, NEW aft, DecodeU64(o.code, hole) = [val |-> old, aft |-> aft],
         NEW m, {k \in DOMAIN final_ins_pos : final_ins_pos[k] = old} = {m},
         NEW new, new = o.ins[m], NEW size, aft - hole = size, ~ (Blocks(new) > size)
  PROVE  IsReaddressed(Readdressed(o, hole), o, hole, new, size)
<1>1. PICK read : read = DecodeU64(o.code, hole)
  OBVIOUS
<1>2. read.val = old /\ read.aft = aft
  BY <1>1
<1>3. PICK all : all = {k \in DOMAIN final_ins_pos : final_ins_pos[k] = read.val}
  OBVIOUS
<1>4. all = {m}
  BY <1>2, <1>3
<1>5. (CHOOSE k \in all : TRUE) = m /\ all # {}
  BY <1>4
<1>6. Readdressed(o, hole) =
        IF all = {} \/ Blocks(o.ins[CHOOSE k \in all : TRUE]) > read.aft - hole
          THEN [o EXCEPT !.ok = FALSE]
          ELSE [o EXCEPT !.code = Patched(@, hole, EncodeIn(o.ins[CHOOSE k \in all : TRUE], read.aft - hole))]
  BY <1>1, <1>3, Zenon DEF Readdressed
<1>7. Readdressed(o, hole) =
        IF all = {} \/ Blocks(new) > size
          THEN [o EXCEPT !.ok = FALSE]
          ELSE [o EXCEPT !.code = Patched(@, hole, EncodeIn(new, size))]
  BY <1>2, <1>5, <1>6, Zenon
<1>8. Readdressed(o, hole) = [o EXCEPT !.code = Patched(o.code, hole, EncodeIn(new, size))]
  BY <1>5, <1>7, Zenon
<1> QED
  BY <1>8, Zenon DEF IsReaddressed

\* After the first k addresses.
Readdressing(words, nat, size, cw, first, k, o) ==
  /\ DOMAIN o = ShrinkFields /\ o.ok = TRUE
  /\ o.shift = first.shift /\ o.ins = first.ins /\ o.holes = first.holes
  /\ Coded(words, nat, o.code,
           Mixed(words, UpTo(cw, k), Meant(words, first.ins), Meant(words, final_ins_pos)), size)

LEMMA ReaddressOne ==
  ASSUME NEW words, WellFormed(words), NEW at, NEW nat, NEW size, NEW cw, NEW first,
         ToReaddress(words, at, nat, size, cw, first.ins), Places(first.holes, nat, cw),
         NEW k \in Nat, k + 1 <= Len(cw), NEW o, Readdressing(words, nat, size, cw, first, k, o)
  PROVE  Readdressing(words, nat, size, cw, first, k + 1, Readdressed(o, first.holes[k + 1]))
<1> DEFINE was == Meant(words, final_ins_pos)
           is == Meant(words, first.ins)
           val == Mixed(words, UpTo(cw, k), is, was)
           val2 == Mixed(words, UpTo(cw, k + 1), is, was)
<1>1. PICK i \in 1 .. Len(words) :
        /\ i = cw[k + 1] /\ words[i].type = "code"
        /\ UpTo(cw, k + 1) = UpTo(cw, k) \union {i}
        /\ \A j \in UpTo(cw, k) : j < i
        /\ k + 1 \in 1 .. Len(cw)
  <2>0. Enumerates(cw, Of(words, Len(words), {"code"}))
    BY DEF ToReaddress
  <2>1. /\ k + 1 \in 1 .. Len(cw) /\ cw[k + 1] \in Nat
        /\ cw[k + 1] \in Of(words, Len(words), {"code"})
        /\ UpTo(cw, k + 1) = UpTo(cw, k) \union {cw[k + 1]}
        /\ \A j \in UpTo(cw, k) : j < cw[k + 1]
    BY <2>0, UpToNext
  <2>2. cw[k + 1] \in 1 .. Len(words) /\ words[cw[k + 1]].type = "code"
    BY <2>1 DEF Of
  <2> QED
    BY <2>1, <2>2, Zenon
<1>2. first.holes[k + 1] = nat[i]
  BY <1>1 DEF Places
<1>3. i \notin UpTo(cw, k)
  BY <1>1
<1>4. PICK m, old, new : IsNewAddress(words, size, first.ins, i, m, old, new)
  BY <1>1, NewAddress
<1>5. /\ {l \in DOMAIN final_ins_pos : final_ins_pos[l] = old} = {m}
      /\ old = was[i] /\ new = is[i] /\ new = first.ins[m]
      /\ new \in 0 .. Word - 1 /\ Blocks(new) <= size[i]
  BY <1>4 DEF IsNewAddress
<1>6. /\ DOMAIN o = ShrinkFields /\ o.ok = TRUE
      /\ o.shift = first.shift /\ o.ins = first.ins /\ o.holes = first.holes
      /\ Coded(words, nat, o.code, val, size)
  BY DEF Readdressing
<1>7. val[i] = old /\ val2[i] = new
  <2>1. i \in UpTo(cw, k + 1)
    BY <1>1
  <2>2. val[i] = was[i]
    BY <1>3, MixedIs
  <2>3. val2[i] = is[i]
    BY <2>1, MixedIs
  <2> QED
    BY <1>5, <2>2, <2>3
<1>8. \A j \in 1 .. Len(words) : j # i => val2[j] = val[j]
  BY <1>1, MixedIs
<1> HIDE DEF val, val2
<1>9. /\ nat[i] \in Nat /\ size[i] \in Nat
      /\ DecodeU64(o.code, nat[i]) = [val |-> val[i], aft |-> nat[i] + size[i]]
      /\ (nat[i] + size[i]) - nat[i] = size[i]
  <2>1. words[i].type # "op"
    BY <1>1
  <2> QED
    BY <1>6, <2>1, CodedIsRead
<1>10. PICK s \in Nat : s = size[i] /\ s # 0 /\ Blocks(new) <= s /\ s <= Room(nat, i)
  <2>1. size[i] \in Nat \ {0} /\ size[i] <= Room(nat, i)
    BY <1>6 DEF Coded
  <2> QED
    BY <1>5, <2>1
<1>11. Blocks(new) \in Nat
  BY <1>5, BlocksAre
<1>12. PICK z : z = Readdressed(o, nat[i])
  OBVIOUS
<1>13. z = [o EXCEPT !.code = Patched(o.code, nat[i], EncodeIn(new, s))]
  <2>1. DecodeU64(o.code, nat[i]) = [val |-> old, aft |-> nat[i] + size[i]] /\ (nat[i] + size[i]) - nat[i] = s
    BY <1>7, <1>9, <1>10
  <2>2. ~ (Blocks(new) > s)
    BY <1>10, <1>11
  <2>3. new = o.ins[m]
    BY <1>5, <1>6
  <2>4. PICK aft : aft = nat[i] + size[i]
    OBVIOUS
  <2>5. DecodeU64(o.code, nat[i]) = [val |-> old, aft |-> aft] /\ aft - nat[i] = s
    BY <2>1, <2>4, Zenon
  <2>6. IsReaddressed(z, o, nat[i], new, s)
    BY <1>5, <1>12, <2>2, <2>3, <2>5, ReaddressedIs
  <2> QED
    BY <2>6, Zenon DEF IsReaddressed
<1>14. PICK c : c = Patched(o.code, nat[i], EncodeIn(new, s))
  OBVIOUS
<1>15. /\ DOMAIN z = ShrinkFields /\ z.ok = TRUE /\ z.code = c
       /\ z.shift = o.shift /\ z.ins = o.ins /\ z.holes = o.holes
  BY <1>6, <1>13, <1>14 DEF ShrinkFields
<1>16. Coded(words, nat, c, val2, size)
  <2>1. words[i].type # "op"
    BY <1>1
  <2>5. PICK size2 : size2 = size
    OBVIOUS
  <2>2. \A j \in 1 .. Len(words) : j # i => val2[j] = val[j] /\ size2[j] = size[j]
    BY <1>8, <2>5
  <2>3. size2[i] = s /\ val2[i] = new
    BY <1>7, <1>10, <2>5
  <2>6. /\ Coded(words, nat, o.code, val, size) /\ new \in 0 .. Word - 1
        /\ s # 0 /\ Blocks(new) <= s /\ s <= Room(nat, i)
    BY <1>5, <1>6, <1>10
  <2>4. Coded(words, nat, Patched(o.code, nat[i], EncodeIn(new, s)), val2, size2)
    BY <2>1, <2>2, <2>3, <2>6, PutInPlace
  <2> QED
    BY <1>14, <2>4, <2>5
<1>17. Readdressing(words, nat, size, cw, first, k + 1, z)
  BY <1>6, <1>15, <1>16 DEF Readdressing, val2
<1> QED
  BY <1>2, <1>12, <1>17
\* Addresses of code are in their smallest sizes.
AllSmallest(words, at) ==
  \A i \in 1 .. Len(words) : words[i].type = "code" => Room(at, i) = Blocks(Meant(words, final_ins_pos)[i])

LEMMA SizedShrinks ==
  ASSUME NEW words, NEW at, NEW size, NEW planned, NEW pw, NEW cw, Sized(words, at, size, planned, pw, cw)
  PROVE  \E nat : SizedToShrink(words, at, nat, size, planned, pw, cw)
<1>1. Coded(words, at, code, Meant(words, final_ins_pos), size)
  BY DEF Sized
<1>2. /\ Layout(at, Len(words), code) /\ Len(words) \in Nat
      /\ \A i \in 1 .. Len(words) : size[i] \in Nat \ {0} /\ size[i] <= Room(at, i)
  BY <1>1 DEF Coded, Layout
<1>3. PICK nat : Packed(nat, Len(words), size)
  BY <1>2, PackedExists
<1>4. \A i \in 1 .. Len(words) : size[i] \in Nat /\ size[i] > 0 /\ size[i] <= Room(at, i)
  <2>1. \A s \in Nat \ {0} : s \in Nat /\ s > 0
    OBVIOUS
  <2> QED
    BY <1>2, <2>1
<1>5. Ascends(at, Len(words)) /\ at[1] = 0
  BY <1>2 DEF Layout, Ascends
<1>6. Shrinking(at, nat, Len(words), size)
  BY <1>3, <1>4, <1>5 DEF Shrinking
<1> QED
  BY <1>6 DEF SizedToShrink

\* If the code has not become shorter, no word has.
LEMMA NothingSaved ==
  ASSUME NEW at, NEW nat, NEW n, NEW size, Shrinking(at, nat, n, size), at[n + 1] = nat[n + 1],
         NEW i \in 1 .. n + 1
  PROVE  at[i] = nat[i]
<1>1. n \in Nat
  BY DEF Shrinking, Ascends
<1> DEFINE S == {m \in Nat : m <= n => at[(n + 1) - m] = nat[(n + 1) - m]}
<1>2. 0 \in S
  BY <1>1
<1>3. ASSUME NEW m \in Nat, m \in S PROVE m + 1 \in S
  <2>1. SUFFICES ASSUME m + 1 <= n PROVE at[(n + 1) - (m + 1)] = nat[(n + 1) - (m + 1)]
    OBVIOUS
  <2>2. PICK k \in 1 .. n : k = (n + 1) - (m + 1) /\ k + 1 = (n + 1) - m /\ m <= n /\ k \in 1 .. n + 1
    <3>1. /\ (n + 1) - (m + 1) \in 1 .. n /\ ((n + 1) - (m + 1)) + 1 = (n + 1) - m /\ m <= n
          /\ (n + 1) - (m + 1) \in 1 .. n + 1
      BY <1>1, <2>1
    <3> QED
      BY <3>1
  <2>3. at[k + 1] = nat[k + 1]
    BY <1>3, <2>2
  <2>4. /\ at[k] \in Nat /\ nat[k] \in Nat /\ Room(at, k) \in Nat /\ size[k] \in Nat
        /\ at[k + 1] = at[k] + Room(at, k) /\ nat[k + 1] = nat[k] + size[k] /\ size[k] <= Room(at, k)
    BY ShrinkingIs
  <2>5. nat[k] <= at[k]
    BY <2>2, MovedToFront
  <2>6. at[k] = nat[k]
    <3>1. at[k] + Room(at, k) = nat[k] + size[k]
      BY <2>3, <2>4
    <3>2. \A a, b, r, s \in Nat : a + r = b + s /\ s <= r /\ b <= a => a = b
      OBVIOUS
    <3> QED
      BY <2>4, <2>5, <3>1, <3>2
  <2> QED
    BY <2>2, <2>6
<1> HIDE DEF S
<1>4. Nat \subseteq S
  BY <1>2, <1>3, Induction
<1>5. (n + 1) - i \in Nat /\ (n + 1) - i <= n /\ (n + 1) - ((n + 1) - i) = i
  BY <1>1
<1> QED
  BY <1>4, <1>5 DEF S

\* What there is after shrinking.
Shrank(words, nat, cw, size, first, end) ==
  /\ end.ok = TRUE /\ end.ins = first.ins /\ end.holes = first.holes /\ end.shift = first.shift
  /\ Coded(words, nat, end.code, Meant(words, first.ins), size)

LEMMA AllReaddressed ==
  ASSUME NEW words, WellFormed(words), NEW at, NEW nat, NEW size, NEW cw, NEW first,
         ToReaddress(words, at, nat, size, cw, first.ins), Packs(words, at, nat, size, cw, first),
         NEW n, n = Len(first.holes),
         NEW f, Looping("readdress", first.holes, first, n, f)
  PROVE  Shrank(words, nat, cw, size, first, f[n])
<1>1. Places(first.holes, nat, cw) /\ Enumerates(cw, Of(words, Len(words), {"code"}))
  BY DEF Packs, ToReaddress
<1>2. n \in Nat /\ n = Len(cw)
  BY <1>1, UpToEnds DEF Places
<1>3. /\ f[0] = first
      /\ \A k \in Nat : k + 1 <= n => f[k + 1] = Readdressed(f[k], first.holes[k + 1])
  <2>1. \A x, o, k : Pass("readdress", x, o, k) = Readdressed(o, x[k])
    BY DEF Pass
  <2>2. /\ f[0] = first
        /\ \A k \in Nat : k + 1 <= n => f[k + 1] = Pass("readdress", first.holes, f[k], k + 1)
    <3>1. PICK x : x = first.holes
      OBVIOUS
    <3>2. Loops("readdress", x, first, n, f)
      BY <1>2, <3>1, LoopIs
    <3> QED
      BY <3>1, <3>2 DEF Loops
  <2> QED
    BY <2>1, <2>2
<1>4. Readdressing(words, nat, size, cw, first, 0, first)
  <2>1. UpTo(cw, 0) = {}
    BY DEF UpTo
  <2>2. PICK is, was : is = Meant(words, first.ins) /\ was = Meant(words, final_ins_pos)
    OBVIOUS
  <2>3. Mixed(words, {}, is, was) = was
    <3>1. \A i \in 1 .. Len(words) : Mixed(words, {}, is, was)[i] = was[i]
      BY MixedIs
    <3>2. was = [i \in 1 .. Len(words) |-> was[i]]
      BY <2>2, MeantIsFunction
    <3>3. PICK mix : mix = Mixed(words, {}, is, was)
      OBVIOUS
    <3>4. mix = [i \in 1 .. Len(words) |-> mix[i]]
      BY <3>3 DEF Mixed
    <3>5. mix = was
      BY <3>1, <3>2, <3>3, <3>4
    <3> QED
      BY <3>3, <3>5
  <2>4. /\ DOMAIN first = ShrinkFields /\ first.ok = TRUE
        /\ Coded(words, nat, first.code, was, size)
    BY <2>2 DEF Packs
  <2> QED
    BY <2>1, <2>2, <2>3, <2>4 DEF Readdressing
<1> DEFINE S == {k \in Nat : k <= n => Readdressing(words, nat, size, cw, first, k, f[k])}
<1>5. 0 \in S
  BY <1>3, <1>4
<1>6. ASSUME NEW k \in Nat, k \in S PROVE k + 1 \in S
  <2>1. SUFFICES ASSUME k + 1 <= n PROVE Readdressing(words, nat, size, cw, first, k + 1, f[k + 1])
    OBVIOUS
  <2>2. k <= n
    BY <1>2, <2>1
  <2>3. Readdressing(words, nat, size, cw, first, k, f[k]) /\ k + 1 <= Len(cw)
    BY <1>2, <1>6, <2>1, <2>2
  <2>4. Readdressing(words, nat, size, cw, first, k + 1, Readdressed(f[k], first.holes[k + 1]))
    BY <1>1, <2>3, ReaddressOne
  <2> QED
    BY <1>3, <2>1, <2>4
<1> HIDE DEF S
<1>7. n \in S
  BY <1>2, <1>5, <1>6, Induction
<1>8. Readdressing(words, nat, size, cw, first, n, f[n])
  <2>1. n <= n
    BY <1>2
  <2> QED
    BY <1>7, <2>1 DEF S
<1>9. PICK is, was : is = Meant(words, first.ins) /\ was = Meant(words, final_ins_pos)
  OBVIOUS
<1>10. Mixed(words, UpTo(cw, n), is, was) = is
  <2>1. PICK all : all = UpTo(cw, n)
    OBVIOUS
  <2>2. \A i \in 1 .. Len(words) : i \in all <=> words[i].type = "code"
    BY <1>1, <1>2, <2>1, UpToEnds DEF Of
  <2>3. \A i \in 1 .. Len(words) : i \notin all => is[i] = was[i]
    <3>1. \A i \in 1 .. Len(words) : words[i].type # "code" => is[i] = was[i]
      <4>1. SUFFICES ASSUME NEW i \in 1 .. Len(words), words[i].type # "code" PROVE is[i] = was[i]
        OBVIOUS
      <4>2. words[i].type \in {"op", "data", "plain", "integer"}
        BY <4>1, WordIs DEF Types
      <4>3. /\ words[i].type = "data" => is[i] = DataPos[words[i].val] /\ was[i] = DataPos[words[i].val]
            /\ words[i].type \notin {"code", "data"} =>
                 is[i] = Written(words)[i] /\ was[i] = Written(words)[i]
        BY <1>9, MeantIs
      <4> QED
        BY <4>2, <4>3
    <3> QED
      BY <2>2, <3>1
  <2>4. PICK mix : mix = Mixed(words, all, is, was)
    OBVIOUS
  <2>5. \A i \in 1 .. Len(words) : mix[i] = IF i \in all THEN is[i] ELSE was[i]
    BY <2>4, MixedIs
  <2>6. \A i \in 1 .. Len(words) : mix[i] = is[i]
    BY <2>3, <2>5
  <2>7. mix = [i \in 1 .. Len(words) |-> mix[i]] /\ is = [i \in 1 .. Len(words) |-> is[i]]
    BY <1>9, <2>4, MeantIsFunction DEF Mixed
  <2>8. mix = is
    BY <2>6, <2>7
  <2> QED
    BY <2>1, <2>4, <2>8
<1> QED
  BY <1>8, <1>9, <1>10 DEF Readdressing, Shrank
\* Every word has what it has to carry in all of its bytes, and addresses are in their
\* smallest sizes if the code has not become shorter.
IsSettled(words, at, nat, size, cw, first) ==
  /\ Heads(words, Len(words), nat, first.ins) /\ Places(first.holes, nat, cw)
  /\ nat[Len(words) + 1] \in Nat /\ first.shift = Len(code) - nat[Len(words) + 1] /\ first.shift \in Nat
  /\ nat[Len(words) + 1] < Word
  /\ \A i \in 1 .. Len(words) : size[i] = Room(nat, i)
  /\ \A i \in 1 .. Len(words) :
       words[i].type = "data" => size[i] = Blocks(Meant(words, first.ins)[i])
  /\ first.shift = 0 => \A i \in 1 .. Len(words) :
       words[i].type = "code" => size[i] = Blocks(Meant(words, first.ins)[i])

LEMMA ShrunkIsSettled ==
  ASSUME NEW words, WellFormed(words), NEW at, NEW nat, NEW size, NEW planned, NEW pw, NEW cw,
         SizedToShrink(words, at, nat, size, planned, pw, cw),
         NEW first, Packs(words, at, nat, size, cw, first)
  PROVE  /\ ToReaddress(words, at, nat, size, cw, first.ins)
         /\ IsSettled(words, at, nat, size, cw, first)
<1> DEFINE n == Len(words)
<1> HIDE DEF n
<1>1. /\ n \in Nat /\ code \in Seq(Nat) /\ at[n + 1] = Len(code) /\ Layout(at, n, code)
      /\ Shrinking(at, nat, n, size) /\ Heads(words, n, at, final_ins_pos)
  BY SizedIs DEF n
<1>2. /\ Len(code) < Word
      /\ Enumerates(cw, Of(words, n, {"code"}))
      /\ \A i \in 1 .. n :
           words[i].type \in {"code", "data"} => size[i] = Blocks(Meant(words, final_ins_pos)[i])
  BY DEF SizedToShrink, Sized, n
<1>3. /\ nat[n + 1] \in Nat /\ first.shift = Len(code) - nat[n + 1]
      /\ Heads(words, n, nat, first.ins) /\ Places(first.holes, nat, cw)
  BY DEF Packs, n
<1>4. ToReaddress(words, at, nat, size, cw, first.ins)
  BY <1>1, <1>2, <1>3 DEF ToReaddress, n
<1>5. nat[n + 1] <= at[n + 1]
  <2>1. n + 1 \in 1 .. n + 1
    BY <1>1
  <2> QED
    BY <1>1, <2>1, MovedToFront
<1>6. first.shift \in Nat /\ nat[n + 1] < Word
  <2>1. Len(code) \in Nat /\ Word \in Nat
    BY <1>1, Widths
  <2> QED
    BY <1>1, <1>2, <1>3, <1>5, <2>1
<1>7. ASSUME NEW i \in 1 .. n PROVE size[i] = Room(nat, i)
  <2>1. nat[i] \in Nat /\ size[i] \in Nat /\ nat[i + 1] = nat[i] + size[i]
    BY <1>1, ShrinkingIs
  <2>2. \A a, s \in Nat : (a + s) - a = s
    OBVIOUS
  <2> QED
    BY <2>1, <2>2 DEF Room
<1>8. ASSUME NEW i \in 1 .. n, words[i].type = "data"
      PROVE  size[i] = Blocks(Meant(words, first.ins)[i])
  <2>1. /\ Meant(words, first.ins)[i] = DataPos[words[i].val]
        /\ Meant(words, final_ins_pos)[i] = DataPos[words[i].val]
    BY <1>8, MeantIs DEF n
  <2> QED
    BY <1>2, <1>8, <2>1
<1>9. ASSUME first.shift = 0, NEW i \in 1 .. n, words[i].type = "code"
      PROVE  size[i] = Blocks(Meant(words, first.ins)[i])
  <2>1. at[n + 1] = nat[n + 1]
    <3>1. Len(code) \in Nat
      BY <1>1
    <3> QED
      BY <1>1, <1>3, <1>9, <3>1
  <2>2. PICK m : m = words[i].val + 1
    OBVIOUS
  <2>3. PICK h \in 1 .. n : words[h] = Op(words[i].val) /\ final_ins_pos[m] = at[h]
    BY <1>1, <1>9, <2>2, TargetIs, SMTT(40) DEF n
  <2>4. first.ins[m] = nat[h]
    <3>1. words[h].type = "op" /\ words[h].val + 1 = m
      BY <2>2, <2>3 DEF Op
    <3> QED
      BY <1>3, <3>1 DEF Heads
  <2>5. at[h] = nat[h]
    <3>1. h \in 1 .. n + 1
      BY <1>1
    <3> QED
      BY <1>1, <2>1, <3>1, NothingSaved
  <2>6. Meant(words, first.ins)[i] = first.ins[m] /\ Meant(words, final_ins_pos)[i] = final_ins_pos[m]
    BY <1>9, <2>2, MeantIs DEF n
  <2>7. Meant(words, first.ins)[i] = Meant(words, final_ins_pos)[i]
    BY <2>3, <2>4, <2>5, <2>6
  <2> QED
    BY <1>2, <1>9, <2>7
<1>10. IsSettled(words, at, nat, size, cw, first)
  BY <1>3, <1>6, <1>7, <1>8, <1>9 DEF IsSettled, n
<1> QED
  BY <1>4, <1>10

\* Shrinking does not fail, whatever it saves.
LEMMA ShrinkSettles ==
  ASSUME NEW words, words = program.words, WellFormed(words),
         NEW at, NEW size, NEW planned, NEW pw, NEW cw, Sized(words, at, size, planned, pw, cw), Shrink
  PROVE  /\ pc' \in {"measure", "condense"}
         /\ \E to : /\ Settled(words, to, cw)'
                    /\ pc' = "condense" /\ (cycles > 0 \/ delta' = 0) => AllSmallest(words, to)'
<1>1. PICK nat : SizedToShrink(words, at, nat, size, planned, pw, cw)
  BY SizedShrinks
<1>2. PICK first : first = Shrunk /\ Packs(words, at, nat, size, cw, first)
  BY <1>1, ShrunkPacks
<1> DEFINE x == first.holes
           n == Len(x)
           f == CHOOSE f : f = [k \in 0 .. n |-> IF k = 0 THEN first ELSE Readdressed(f[k - 1], x[k])]
<1>3. /\ code' = f[n].code /\ final_ins_pos' = f[n].ins /\ final_relocates' = f[n].holes
      /\ delta' = f[n].shift
      /\ pc' = CASE ~f[n].ok -> "panic"
                 [] f[n].ok /\ Again(f[n].shift) -> "measure"
                 [] f[n].ok /\ ~Again(f[n].shift) -> "condense"
      /\ program' = program
  BY <1>2, Zenon DEF Shrink
<1>4. /\ ToReaddress(words, at, nat, size, cw, first.ins)
      /\ IsSettled(words, at, nat, size, cw, first)
  BY <1>1, <1>2, ShrunkIsSettled
<1>5. n \in Nat
  BY <1>2 DEF Packs, Places
<1>6. Looping("readdress", x, first, n, f)
  <2>1. \A g : Looping("readdress", x, first, n, g) <=>
               g = [k \in 0 .. n |-> IF k = 0 THEN first ELSE Readdressed(g[k - 1], x[k])]
    BY DEF Looping, Pass
  <2>2. \E g : g = [k \in 0 .. n |-> IF k = 0 THEN first ELSE Readdressed(g[k - 1], x[k])]
    BY <1>5, <2>1, LoopExists
  <2>3. f = [k \in 0 .. n |-> IF k = 0 THEN first ELSE Readdressed(f[k - 1], x[k])]
    BY <2>2, Zenon
  <2> QED
    BY <2>1, <2>3
<1> HIDE DEF f
<1>7. PICK end : end = f[n]
  OBVIOUS
<1>8. Shrank(words, nat, cw, size, first, end)
  <2>1. Shrank(words, nat, cw, size, first, f[n])
    BY <1>2, <1>4, <1>6, AllReaddressed
  <2> QED
    BY <1>7, <2>1
<1>9. /\ end.ok = TRUE /\ end.ins = first.ins /\ end.holes = first.holes /\ end.shift = first.shift
      /\ Coded(words, nat, end.code, Meant(words, first.ins), size)
  BY <1>8 DEF Shrank
<1>10. /\ code' = end.code /\ final_ins_pos' = first.ins /\ final_relocates' = first.holes
       /\ delta' = first.shift
  BY <1>3, <1>7, <1>9
<1>11. /\ pc' \in {"measure", "condense"}
       /\ pc' = "condense" => ~Again(first.shift)
  BY <1>3, <1>7, <1>9
<1>12. Enumerates(cw, Of(words, Len(words), {"code"}))
  BY <1>4 DEF ToReaddress
<1>13. /\ Heads(words, Len(words), nat, first.ins) /\ Places(first.holes, nat, cw)
       /\ nat[Len(words) + 1] < Word /\ first.shift \in Nat
       /\ \A i \in 1 .. Len(words) : size[i] = Room(nat, i)
       /\ \A i \in 1 .. Len(words) :
            words[i].type = "data" => size[i] = Blocks(Meant(words, first.ins)[i])
       /\ first.shift = 0 => \A i \in 1 .. Len(words) :
            words[i].type = "code" => size[i] = Blocks(Meant(words, first.ins)[i])
  BY <1>4 DEF IsSettled
<1>14. Coded(words, nat, end.code, Meant(words, first.ins), Rooms(words, nat))
  <2>1. \A i \in 1 .. Len(words) : Rooms(words, nat)[i] = size[i]
    BY <1>13 DEF Rooms
  <2> QED
    BY <1>9, <2>1 DEF Coded
<1>15. Len(end.code) < Word
  BY <1>13, <1>14 DEF Coded, Layout
<1>16. \A i \in 1 .. Len(words) :
         words[i].type = "data" => Room(nat, i) = Blocks(Meant(words, first.ins)[i])
  BY <1>13
<1>17. Settled(words, nat, cw)'
  BY <1>10, <1>12, <1>13, <1>14, <1>15, <1>16 DEF Settled
<1>18. ASSUME pc' = "condense", cycles > 0 \/ delta' = 0 PROVE AllSmallest(words, nat)'
  <2>1. first.shift = 0
    <3>1. cycles > 0 => ~ (first.shift > 0)
      BY <1>11, <1>18 DEF Again
    <3> QED
      BY <1>10, <1>13, <1>18, <3>1
  <2>2. \A i \in 1 .. Len(words) :
          words[i].type = "code" => Room(nat, i) = Blocks(Meant(words, first.ins)[i])
    BY <1>13, <2>1
  <2> QED
    BY <1>10, <2>2 DEF AllSmallest
<1> QED
  BY <1>11, <1>17, <1>18
-----------------------------------------------------------------------------
(* Reading.                                                                *)

LEMMA WordIsRead ==
  ASSUME NEW words, WellFormed(words), NEW at, NEW cw, Settled(words, at, cw),
         NEW i \in 1 .. Len(words)
  PROVE  ReadWord(at[i], words[i]) = at[i + 1]
<1> DEFINE w == words[i]
           meant == Meant(words, final_ins_pos)
<1>1. /\ Coded(words, at, code, meant, Rooms(words, at))
      /\ Heads(words, Len(words), at, final_ins_pos)
  BY DEF Settled
<1>2. Layout(at, Len(words), code) /\ WordAt(w, code, at[i], meant[i], Room(at, i))
  <2>1. Rooms(words, at)[i] = Room(at, i)
    BY DEF Rooms
  <2> QED
    BY <1>1, <2>1 DEF Coded
<1>3. /\ at[i] \in Nat /\ at[i + 1] \in Nat /\ at[i] < at[i + 1] /\ at[i + 1] <= Len(code)
      /\ Room(at, i) \in Nat /\ at[i] + Room(at, i) = at[i + 1]
  BY <1>2, WordsApart
<1>4. Len(code) \in Nat
  BY <1>2 DEF Layout
<1>5. at[i] \in 0 .. Len(code) - 1
  BY <1>3, <1>4
<1>6. /\ w.type \in Types
      /\ w.type = "integer" => w.val \in Signed
  BY WordIs
<1>7. /\ w.type = "code" => meant[i] = final_ins_pos[w.val + 1]
      /\ w.type = "data" => meant[i] = DataPos[w.val]
      /\ w.type = "integer" => meant[i] = Raw(w.val)
      /\ w.type = "plain" => meant[i] = w.val
  BY MeantIs
<1>8. w.type = "op" => w.val + 1 \in 1 .. Len(final_ins_pos) /\ final_ins_pos[w.val + 1] = at[i]
  BY <1>1 DEF Heads
<1> HIDE DEF w, meant
<1>9. CASE w.type = "op"
  <2>1. Room(at, i) = 1 /\ code[at[i] + 1] = Opcode(w.val)
    BY <1>2, <1>9 DEF WordAt
  <2>2. ReadWord(at[i], w) = at[i] + 1
    BY <1>5, <1>8, <1>9, <2>1 DEF ReadWord
  <2> QED
    BY <1>3, <2>1, <2>2 DEF w
<1>10. CASE w.type # "op"
  <2>1. Stored(code, at[i], meant[i], Room(at, i))
    BY <1>2, <1>10 DEF WordAt
  <2>2. DecodeU64(code, at[i]) = [val |-> meant[i], aft |-> at[i] + Room(at, i)]
    BY <1>4, <2>1, StoredIsRead
  <2>3. PICK read : read = DecodeU64(code, at[i]) /\ read.val = meant[i] /\ read.aft = at[i + 1]
    BY <1>3, <2>2
  <2>4. CASE w.type = "code"
    BY <1>5, <1>7, <2>3, <2>4 DEF ReadWord, ReadAs, w
  <2>5. CASE w.type = "data"
    BY <1>5, <1>7, <2>3, <2>5 DEF ReadWord, ReadAs, w
  <2>6. CASE w.type = "plain"
    BY <1>5, <1>7, <2>3, <2>6 DEF ReadWord, ReadAs, w
  <2>7. CASE w.type = "integer"
    <3>1. DecodeI32(code, at[i]) = [val |-> w.val, aft |-> at[i] + Room(at, i)]
      BY <1>4, <1>6, <1>7, <2>1, <2>7, SignedIsRead
    <3>2. PICK int : int = DecodeI32(code, at[i]) /\ int.val = w.val /\ int.aft = at[i + 1]
      BY <1>3, <3>1
    <3> QED
      BY <1>5, <2>7, <3>2 DEF ReadWord, ReadAs, w
  <2> QED
    BY <1>6, <1>10, <2>4, <2>5, <2>6, <2>7 DEF Types
<1> QED
  BY <1>9, <1>10

LEMMA SettledReads ==
  ASSUME NEW at, NEW cw, WellFormed(program.words), Settled(program.words, at, cw)
  PROVE  LET n == Len(program.words)
             aft[i \in 0 .. n] == IF i = 0 THEN 0 ELSE ReadWord(aft[i - 1], program.words[i])
         IN  aft[n] = Len(code)
<1> DEFINE n == Len(program.words)
           f == CHOOSE f : f = [i \in 0 .. n |-> IF i = 0 THEN 0 ELSE ReadWord(f[i - 1], program.words[i])]
<1>1. Layout(at, n, code) /\ n \in Nat /\ at[1] = 0 /\ at[n + 1] = Len(code)
  BY DEF Settled, Coded, Layout
<1>2. Looping("read", 0, 0, n, f)
  <2>1. \A g : Looping("read", 0, 0, n, g) <=>
               g = [i \in 0 .. n |-> IF i = 0 THEN 0 ELSE ReadWord(g[i - 1], program.words[i])]
    BY DEF Looping, Pass
  <2>2. \E g : g = [i \in 0 .. n |-> IF i = 0 THEN 0 ELSE ReadWord(g[i - 1], program.words[i])]
    BY <1>1, <2>1, LoopExists
  <2>3. f = [i \in 0 .. n |-> IF i = 0 THEN 0 ELSE ReadWord(f[i - 1], program.words[i])]
    BY <2>2, Zenon
  <2> QED
    BY <2>1, <2>3
<1> HIDE DEF f
<1>3. /\ f[0] = 0
      /\ \A k \in Nat : k + 1 <= n => f[k + 1] = ReadWord(f[k], program.words[k + 1])
  <2>1. \A o, k : Pass("read", 0, o, k) = ReadWord(o, program.words[k])
    BY DEF Pass
  <2>2. /\ f[0] = 0
        /\ \A k \in Nat : k + 1 <= n => f[k + 1] = Pass("read", 0, f[k], k + 1)
    <3> HIDE DEF n
    <3>1. Loops("read", 0, 0, n, f)
      BY <1>1, <1>2, LoopIs
    <3> QED
      BY <3>1 DEF Loops
  <2> QED
    BY <2>1, <2>2
<1> DEFINE S == {k \in Nat : k <= n => f[k] = at[k + 1]}
<1>4. 0 \in S
  BY <1>1, <1>3
<1>5. ASSUME NEW k \in Nat, k \in S PROVE k + 1 \in S
  <2>1. SUFFICES ASSUME k + 1 <= n PROVE f[k + 1] = at[(k + 1) + 1]
    OBVIOUS
  <2>2. k <= n /\ k + 1 \in 1 .. n
    BY <1>1, <2>1
  <2>3. ReadWord(at[k + 1], program.words[k + 1]) = at[(k + 1) + 1]
    BY <2>2, WordIsRead
  <2> QED
    BY <1>3, <1>5, <2>1, <2>2, <2>3
<1> HIDE DEF S
<1>6. n \in S
  BY <1>1, <1>4, <1>5, Induction
<1>7. f[n] = at[n + 1]
  <2>1. n <= n
    BY <1>1
  <2> QED
    BY <1>6, <2>1 DEF S
<1> QED
  BY <1>1, <1>7 DEF f

LEMMA AddressIsRead ==
  ASSUME NEW words, NEW at, NEW cw, Settled(words, at, cw), AllSmallest(words, at)
  PROVE  \A k \in DOMAIN final_relocates :
           LET read == DecodeU64(code, final_relocates[k])
           IN  read.aft - final_relocates[k] = Blocks(read.val)
<1> SUFFICES ASSUME NEW k \in DOMAIN final_relocates
             PROVE  LET read == DecodeU64(code, final_relocates[k])
                    IN  read.aft - final_relocates[k] = Blocks(read.val)
  OBVIOUS
<1>1. /\ Coded(words, at, code, Meant(words, final_ins_pos), Rooms(words, at))
      /\ Enumerates(cw, Of(words, Len(words), {"code"}))
      /\ Places(final_relocates, at, cw)
  BY DEF Settled
<1>2. k \in 1 .. Len(cw) /\ final_relocates[k] = at[cw[k]]
  BY <1>1 DEF Places
<1>3. PICK i \in 1 .. Len(words) : i = cw[k] /\ words[i].type = "code"
  BY <1>1, <1>2 DEF Enumerates, Of
<1>4. Rooms(words, at)[i] = Blocks(Meant(words, final_ins_pos)[i])
  BY <1>3 DEF Rooms, AllSmallest
<1>5. PICK meant, rooms : meant = Meant(words, final_ins_pos) /\ rooms = Rooms(words, at)
  OBVIOUS
<1>6. /\ DecodeU64(code, at[i]) = [val |-> meant[i], aft |-> at[i] + rooms[i]]
      /\ (at[i] + rooms[i]) - at[i] = rooms[i]
  <2>1. words[i].type # "op" /\ Coded(words, at, code, meant, rooms)
    BY <1>1, <1>3, <1>5
  <2> QED
    BY <2>1, CodedIsRead
<1>7. final_relocates[k] = at[i] /\ rooms[i] = Blocks(meant[i])
  BY <1>2, <1>3, <1>4, <1>5
<1> QED
  BY <1>6, <1>7
-----------------------------------------------------------------------------
(* The linker.                                                             *)

\* A safe state of the linker: the words that it has appended are there, as they
\* were written or as they are meant; addresses that are to shrink have room.
LinkInv ==
  /\ WellFormed(program.words)
  /\ pc \in {"append", "shrink", "measure", "condense", "linked"}
  /\ pc = "append" => \E at, idx : Appended(program.words, word, at, idx)
  /\ pc = "shrink" => \E at, size, planned, pw, cw : Sized(program.words, at, size, planned, pw, cw)
  /\ pc \in {"measure", "condense", "linked"} =>
       \E at, cw :
         /\ Settled(program.words, at, cw)
         /\ pc # "measure" /\ (cycles > 0 \/ delta = 0) => AllSmallest(program.words, at)

LEMMA LinkBegins == Init => LinkInv
<1> SUFFICES ASSUME Init PROVE LinkInv
  OBVIOUS
<1>1. pc = "append" /\ program \in Programs
  BY DEF Init
<1>2. WellFormed(program.words)
  BY <1>1, ProgramsAssumption
<1>3. \E at, idx : Appended(program.words, word, at, idx)
  BY NothingAppended
<1> QED
  BY <1>1, <1>2, <1>3 DEF LinkInv

LEMMA LinkGoesOn == LinkInv /\ [Next]_vars => LinkInv'
<1> SUFFICES ASSUME LinkInv, [Next]_vars PROVE LinkInv'
  OBVIOUS
<1> PICK words : words = program.words
  OBVIOUS
<1>1. /\ WellFormed(words)
      /\ pc = "append" => \E at, idx : Appended(words, word, at, idx)
      /\ pc = "shrink" => \E at, size, planned, pw, cw : Sized(words, at, size, planned, pw, cw)
      /\ pc \in {"measure", "condense", "linked"} =>
           \E at, cw :
             /\ Settled(words, at, cw)
             /\ pc # "measure" /\ (cycles > 0 \/ delta = 0) => AllSmallest(words, at)
  BY DEF LinkInv
<1>2. CASE AppendWord
  <2>1. pc = "append" /\ pc' = "append" /\ program' = program
    BY <1>2 DEF AppendWord
  <2>2. PICK at, idx : Appended(words, word, at, idx)
    BY <1>1, <2>1
  <2>3. PICK to, new : Appended(words, word, to, new)'
    BY <1>1, <1>2, <2>2, AppendWordAppends
  <2>4. Appended(program.words, word, to, new)'
    BY <2>1, <2>3
  <2> QED
    BY <1>1, <2>1, <2>4 DEF LinkInv
<1>3. CASE Resolve
  <2>1. pc = "append" /\ pc' = "shrink" /\ program' = program
    BY <1>3 DEF Resolve
  <2>2. PICK at, idx : Appended(words, word, at, idx)
    BY <1>1, <2>1
  <2>3. PICK size, planned, pw, cw : Sized(words, at, size, planned, pw, cw)'
    BY <1>1, <1>3, <2>2, ResolveSizes
  <2>4. Sized(program.words, at, size, planned, pw, cw)'
    BY <2>1, <2>3
  <2> QED
    BY <1>1, <2>1, <2>4 DEF LinkInv
<1>4. CASE Measure
  <2>1. pc = "measure" /\ pc' = "shrink" /\ program' = program
    BY <1>4 DEF Measure
  <2>2. PICK at, idx : Settled(words, at, idx)
    BY <1>1, <2>1
  <2>3. PICK size, planned, pw, cw : Sized(words, at, size, planned, pw, cw)'
    BY <1>1, <1>4, <2>2, MeasureSizes
  <2>4. Sized(program.words, at, size, planned, pw, cw)'
    BY <2>1, <2>3
  <2> QED
    BY <1>1, <2>1, <2>4 DEF LinkInv
<1>5. CASE Shrink
  <2>1. pc = "shrink" /\ program' = program /\ cycles' = cycles
    BY <1>5 DEF Shrink
  <2>2. PICK at, size, planned, pw, cw : Sized(words, at, size, planned, pw, cw)
    BY <1>1, <2>1
  <2>3. /\ pc' \in {"measure", "condense"}
        /\ \E to : /\ Settled(words, to, cw)'
                   /\ pc' = "condense" /\ (cycles > 0 \/ delta' = 0) => AllSmallest(words, to)'
    BY <1>1, <1>5, <2>2, ShrinkSettles
  <2>4. PICK to : /\ Settled(words, to, cw)'
                  /\ pc' = "condense" /\ (cycles > 0 \/ delta' = 0) => AllSmallest(words, to)'
    BY <2>3
  <2>5. /\ Settled(program.words, to, cw)'
        /\ pc' # "measure" /\ (cycles' > 0 \/ delta' = 0) => AllSmallest(program.words, to)'
    BY <2>1, <2>3, <2>4
  <2> QED
    BY <1>1, <2>1, <2>3, <2>5, SMTT(60) DEF LinkInv
<1>6. CASE CondenseLocations
  <2>1. /\ pc = "condense" /\ pc' = "linked"
        /\ UNCHANGED <<program, word, code, final_ins_pos, relocate_info, final_relocates,
                       plan, delta, cycles>>
    BY <1>6 DEF CondenseLocations
  <2>2. PICK at, cw : Settled(words, at, cw) /\ (cycles > 0 \/ delta = 0 => AllSmallest(words, at))
    BY <1>1, <2>1
  <2>3. Settled(words, at, cw)' /\ (cycles' > 0 \/ delta' = 0 => AllSmallest(words, at)')
    BY <2>1, <2>2 DEF Settled, AllSmallest
  <2>4. Settled(program.words, at, cw)' /\ (cycles' > 0 \/ delta' = 0 => AllSmallest(program.words, at)')
    BY <2>1, <2>3
  <2> QED
    BY <1>1, <2>1, <2>4 DEF LinkInv
<1>7. CASE UNCHANGED vars
  BY <1>7 DEF vars, LinkInv, Appended, Sized, Settled, AllSmallest
<1> QED
  BY <1>2, <1>3, <1>4, <1>5, <1>6, <1>7 DEF Next

LEMMA LinkReads == LinkInv => CodeReadsAsCompiled
<1> SUFFICES ASSUME LinkInv PROVE CodeReadsAsCompiled
  OBVIOUS
<1>1. pc # "panic"
  BY DEF LinkInv
<1>2. ASSUME pc \in {"measure", "condense", "linked"}
      PROVE  LET n == Len(program.words)
                 aft[i \in 0 .. n] == IF i = 0 THEN 0 ELSE ReadWord(aft[i - 1], program.words[i])
             IN  aft[n] = Len(code)
  <2>1. PICK at, cw : WellFormed(program.words) /\ Settled(program.words, at, cw)
    BY <1>2 DEF LinkInv
  <2> QED
    BY <2>1, SettledReads
<1> QED
  BY <1>1, <1>2, Zenon DEF CodeReadsAsCompiled

LEMMA LinkIsSmallest == LinkInv => StopsWhenSmallest
<1> SUFFICES ASSUME LinkInv, pc \in {"condense", "linked"}, cycles > 0 \/ delta = 0
             PROVE  \A k \in DOMAIN final_relocates :
                      LET read == DecodeU64(code, final_relocates[k])
                      IN  read.aft - final_relocates[k] = Blocks(read.val)
  BY DEF StopsWhenSmallest
<1>1. PICK at, cw : Settled(program.words, at, cw) /\ AllSmallest(program.words, at)
  BY DEF LinkInv
<1> QED
  BY <1>1, AddressIsRead

\* Linking (finalize and apply_shrinking_plan in bytecode.rs) moves the code and
\* rewrites addresses in place, round after round; after every round the code reads
\* as it was compiled, and no assertion fails on the way.
THEOREM CodeReads == Spec => []CodeReadsAsCompiled
<1>1. Spec => []LinkInv
  BY LinkBegins, LinkGoesOn, PTL DEF Spec
<1> QED
  BY <1>1, LinkReads, PTL

\* Where finalize stops with rounds left, or with a round that has saved nothing, no
\* address of code can be any shorter.
THEOREM StopsSmallest == Spec => []StopsWhenSmallest
<1>1. Spec => []LinkInv
  BY LinkBegins, LinkGoesOn, PTL DEF Spec
<1> QED
  BY <1>1, LinkIsSmallest, PTL

-----------------------------------------------------------------------------
(* Locations, in the order of their positions.                             *)

\* A larger member has a larger rank; ranks run up to the size of the set.
LEMMA RankProperties ==
  ASSUME NEW R \in SUBSET Nat, IsFiniteSet(R), NEW i \in R
  PROVE  /\ Rank(R, i) \in 1 .. Cardinality(R)
         /\ \A j \in R : i < j => Rank(R, i) < Rank(R, j)
<1> DEFINE Below(k) == {m \in R : m < k}
<1>1. ASSUME NEW k \in R
      PROVE  IsFiniteSet(Below(k)) /\ Cardinality(Below(k)) \in Nat
  BY FS_Subset, FS_CardinalityType, Below(k) \in SUBSET R
<1>2. Cardinality(R) \in Nat
  BY FS_CardinalityType
<1>3. /\ IsFiniteSet(Below(i) \union {i})
      /\ Cardinality(Below(i) \union {i}) = Cardinality(Below(i)) + 1
  BY <1>1, FS_AddElement, i \notin Below(i)
<1>4. Cardinality(Below(i) \union {i}) <= Cardinality(R)
  BY FS_Subset, Below(i) \union {i} \in SUBSET R
<1>5. ASSUME NEW j \in R, i < j
      PROVE  Cardinality(Below(i) \union {i}) <= Cardinality(Below(j))
  <2>1. /\ i \in Nat /\ j \in Nat
        /\ \A m \in R : m \in Nat
    OBVIOUS
  <2>2. \A m \in R : m < i => m < j
    BY <2>1, <1>5
  <2>3. Below(i) \union {i} \in SUBSET Below(j)
    BY <2>2, <1>5
  <2> QED
    BY <2>3, <1>1, FS_Subset
<1>6. \A k \in R : Rank(R, k) = Cardinality(Below(k)) + 1
  BY DEF Rank
<1> HIDE DEF Below
<1>7. Rank(R, i) \in 1 .. Cardinality(R)
  BY <1>1, <1>2, <1>3, <1>4, <1>6
<1>8. ASSUME NEW j \in R, i < j
      PROVE  Rank(R, i) < Rank(R, j)
  <2>1. /\ Cardinality(Below(i)) \in Nat /\ Cardinality(Below(j)) \in Nat
        /\ Cardinality(Below(i)) + 1 <= Cardinality(Below(j))
    BY <1>1, <1>3, <1>5, <1>8
  <2> QED
    BY <1>6, <2>1
<1> QED
  BY <1>7, <1>8

\* Every rank up to the size of the set is somebody's.
LEMMA RankIsOnto ==
  ASSUME NEW R \in SUBSET Nat, IsFiniteSet(R), NEW n \in 1 .. Cardinality(R)
  PROVE  \E i \in R : Rank(R, i) = n
<1> DEFINE f == [i \in R |-> Rank(R, i)]
           T == 1 .. Cardinality(R)
<1>1. Cardinality(R) \in Nat
  BY FS_CardinalityType
<1>2. IsFiniteSet(T) /\ Cardinality(T) = Cardinality(R)
  BY <1>1, FS_Interval
<1>3. f \in [R -> T]
  BY RankProperties
<1>4. ASSUME NEW i \in R, NEW j \in R, f[i] = f[j]
      PROVE  i = j
  <2>1. /\ i < j => Rank(R, i) < Rank(R, j)
        /\ j < i => Rank(R, j) < Rank(R, i)
        /\ Rank(R, i) \in Nat /\ Rank(R, j) \in Nat
    BY RankProperties, <1>1
  <2> QED
    BY <1>4, <2>1
<1>5. f \in Injection(R, T)
  BY <1>3, <1>4 DEF Injection, IsInjective
<1>6. f \in Surjection(R, T)
  BY <1>2, <1>5, FS_Injection
<1> QED
  BY <1>6 DEF Surjection

\* InOrder(R) enumerates R in increasing order.
LEMMA InOrderProperties ==
  ASSUME NEW R \in SUBSET Nat, IsFiniteSet(R)
  PROVE  /\ Cardinality(R) \in Nat
         /\ InOrder(R) \in [1 .. Cardinality(R) -> R]
         /\ \A a, b \in 1 .. Cardinality(R) :
              a < b => InOrder(R)[a] < InOrder(R)[b]
         /\ \A i \in R : \E a \in 1 .. Cardinality(R) : InOrder(R)[a] = i
<1> DEFINE N == Cardinality(R)
           q == InOrder(R)
<1>1. N \in Nat
  BY FS_CardinalityType
<1>2. \A n \in 1 .. N : q[n] \in R /\ Rank(R, q[n]) = n
  BY RankIsOnto DEF InOrder
<1>3. q \in [1 .. N -> R]
  BY <1>2 DEF InOrder
<1> HIDE DEF N, q
<1>4. ASSUME NEW a \in 1 .. N, NEW b \in 1 .. N, a < b
      PROVE  q[a] < q[b]
  <2>1. q[b] < q[a] => Rank(R, q[b]) < Rank(R, q[a])
    BY <1>2, RankProperties
  <2>2. Rank(R, q[a]) = a /\ Rank(R, q[b]) = b /\ a # b
    BY <1>1, <1>2, <1>4
  <2>3. q[a] # q[b] /\ q[a] \in Nat /\ q[b] \in Nat
    BY <1>2, <2>2
  <2> QED
    BY <1>1, <1>4, <2>1, <2>2, <2>3
<1>5. ASSUME NEW i \in R
      PROVE  \E a \in 1 .. N : q[a] = i
  <2>1. Rank(R, i) \in 1 .. N
    BY RankProperties DEF N
  <2>2. q[Rank(R, i)] \in R /\ Rank(R, q[Rank(R, i)]) = Rank(R, i)
    BY <1>2, <2>1
  <2>3. /\ q[Rank(R, i)] < i => Rank(R, q[Rank(R, i)]) < Rank(R, i)
        /\ i < q[Rank(R, i)] => Rank(R, i) < Rank(R, q[Rank(R, i)])
    BY <2>2, RankProperties
  <2>4. q[Rank(R, i)] \in Nat /\ i \in Nat
    BY <2>2
  <2>5. Rank(R, i) \in Int
    BY <2>1
  <2>6. q[Rank(R, i)] = i
    BY <2>2, <2>3, <2>4, <2>5
  <2> QED
    BY <2>1, <2>6
<1> QED
  BY <1>1, <1>3, <1>4, <1>5 DEF N, q

LEMMA InOrderEnumerates ==
  ASSUME NEW R \in SUBSET Nat, IsFiniteSet(R)
  PROVE  Enumerates(InOrder(R), R)
<1> DEFINE N == Cardinality(R)
           q == InOrder(R)
<1>1. /\ N \in Nat /\ q \in [1 .. N -> R]
      /\ \A a, b \in 1 .. N : a < b => q[a] < q[b]
      /\ \A i \in R : \E a \in 1 .. N : q[a] = i
  BY InOrderProperties
<1> HIDE DEF N, q
<1>2. q \in [1 .. N -> Nat]
  BY <1>1
<1>3. q \in Seq(Nat) /\ Len(q) = N
  BY <1>1, <1>2, FunctionIsSequence
<1> QED
  BY <1>1, <1>3 DEF Enumerates, q

\* What is in the data stays there when bytes are appended.
Begins(data, new) ==
  /\ data \in Seq(Nat) /\ new \in Seq(Nat) /\ Len(data) <= Len(new)
  /\ \A p \in 1 .. Len(data) : new[p] = data[p]

LEMMA StillBegins ==
  ASSUME NEW a, NEW b, NEW c, Begins(a, b), Begins(b, c)
  PROVE  Begins(a, c)
<1>1. /\ a \in Seq(Nat) /\ c \in Seq(Nat) /\ Len(a) \in Nat /\ Len(b) \in Nat /\ Len(c) \in Nat
      /\ Len(a) <= Len(b) /\ Len(b) <= Len(c)
      /\ \A p \in 1 .. Len(a) : b[p] = a[p]
      /\ \A p \in 1 .. Len(b) : c[p] = b[p]
  BY DEF Begins
<1>2. Len(a) <= Len(c) /\ \A p \in 1 .. Len(a) : p \in 1 .. Len(b)
  BY <1>1
<1>3. \A p \in 1 .. Len(a) : c[p] = a[p]
  BY <1>1, <1>2
<1> QED
  BY <1>1, <1>2, <1>3 DEF Begins

LEMMA StillStored ==
  ASSUME NEW data, NEW new, Begins(data, new), NEW start, NEW val, NEW blocks, Stored(data, start, val, blocks)
  PROVE  Stored(new, start, val, blocks)
<1> PICK e : e = EncodeIn(val, blocks)
  OBVIOUS
<1>1. /\ val \in 0 .. Word - 1 /\ blocks \in Nat \ {0} /\ Blocks(val) <= blocks
      /\ start \in Nat /\ start + blocks <= Len(data)
      /\ \A k \in 1 .. blocks : data[start + k] = e[k]
  BY DEF Stored
<1>2. /\ Len(data) \in Nat /\ Len(new) \in Nat /\ Len(data) <= Len(new)
      /\ \A p \in 1 .. Len(data) : new[p] = data[p]
  BY DEF Begins
<1>3. start + blocks <= Len(new) /\ \A k \in 1 .. blocks : start + k \in 1 .. Len(data)
  BY <1>1, <1>2
<1>4. \A k \in 1 .. blocks : new[start + k] = e[k]
  BY <1>1, <1>2, <1>3
<1> QED
  BY <1>1, <1>3, <1>4 DEF Stored

LEMMA BytesAppended ==
  ASSUME NEW data \in Seq(Nat), NEW e \in Seq(Nat), NEW new, new = data \o e
  PROVE  /\ new \in Seq(Nat) /\ Len(new) = Len(data) + Len(e) /\ Len(data) \in Nat
         /\ \A p \in 1 .. Len(data) : new[p] = data[p]
         /\ \A k \in 1 .. Len(e) : new[Len(data) + k] = e[k]
<1> PICK l, m : l = Len(data) /\ m = Len(e)
  OBVIOUS
<1>1. l \in Nat /\ m \in Nat
  OBVIOUS
<1>2. /\ new \in Seq(Nat) /\ Len(new) = l + m
      /\ \A p \in 1 .. l + m : new[p] = IF p <= l THEN data[p] ELSE e[p - l]
  BY ConcatProperties
<1>3. \A p \in 1 .. l : p \in 1 .. l + m /\ p <= l
  BY <1>1
<1>4. \A k \in 1 .. m : l + k \in 1 .. l + m /\ ~ (l + k <= l) /\ (l + k) - l = k
  BY <1>1
<1>5. /\ \A p \in 1 .. l : new[p] = data[p]
      /\ \A k \in 1 .. m : new[l + k] = e[k]
  BY <1>2, <1>3, <1>4
<1> QED
  BY <1>1, <1>2, <1>5

\* A number is appended.
IsAppended(new, data, val) ==
  /\ Begins(data, new)
  /\ Stored(new, Len(data), val, Len(new) - Len(data))
  /\ Len(new) = Len(data) + Blocks(val) /\ Blocks(val) \in Nat \ {0}

LEMMA NumberAppended ==
  ASSUME NEW data \in Seq(Nat), NEW val \in 0 .. Word - 1
  PROVE  IsAppended(data \o EncodeU64(val), data, val)
<1> PICK size : size = Blocks(val)
  OBVIOUS
<1> PICK e : e = EncodeIn(val, size)
  OBVIOUS
<1> PICK new : new = data \o e
  OBVIOUS
<1>1. size \in Nat \ {0} /\ Blocks(val) <= size
  BY BlocksAre, Widths
<1>2. e \in Seq(Nat) /\ Len(e) = size
  BY <1>1, EncodedBytes
<1>3. /\ new \in Seq(Nat) /\ Len(new) = Len(data) + size /\ Len(data) \in Nat
      /\ \A p \in 1 .. Len(data) : new[p] = data[p]
      /\ \A k \in 1 .. size : new[Len(data) + k] = e[k]
  BY <1>2, BytesAppended
<1>4. Len(data) <= Len(new) /\ Len(data) + size <= Len(new) /\ Len(new) - Len(data) = size
  BY <1>1, <1>3
<1>5. Begins(data, new)
  BY <1>3, <1>4 DEF Begins
<1>6. Stored(new, Len(data), val, size)
  BY <1>1, <1>3, <1>4 DEF Stored
<1>7. IsAppended(new, data, val)
  BY <1>1, <1>3, <1>4, <1>5, <1>6 DEF IsAppended
<1> QED
  BY <1>7 DEF EncodeU64

\* Tokens are in the data, each from its place to the next one's.
Listed(data, at, n, toks, base) ==
  /\ at \in [1 .. n + 1 -> Nat]
  /\ \A k \in 1 .. n : Stored(data, at[k], Token(toks[k], base), at[k + 1] - at[k])

\* They are there from start on, and a zero behind them.
ListedFrom(data, start, toks, base) ==
  \E at :
    /\ Listed(data, at, Len(toks), toks, base)
    /\ at[1] = start
    /\ Stored(data, at[Len(toks) + 1], 0, Blocks(0))

LEMMA StillListed ==
  ASSUME NEW data, NEW new, Begins(data, new), NEW start, NEW toks, NEW base,
         ListedFrom(data, start, toks, base)
  PROVE  ListedFrom(new, start, toks, base)
<1>1. PICK at : /\ Listed(data, at, Len(toks), toks, base) /\ at[1] = start
                /\ Stored(data, at[Len(toks) + 1], 0, Blocks(0))
  BY DEF ListedFrom
<1>2. Listed(new, at, Len(toks), toks, base)
  BY <1>1, StillStored DEF Listed
<1>3. Stored(new, at[Len(toks) + 1], 0, Blocks(0))
  BY <1>1, StillStored
<1> QED
  BY <1>1, <1>2, <1>3 DEF ListedFrom

\* One more token is listed.
ListedTo(data, first, at, n, toks, base) ==
  /\ Begins(first, data)
  /\ Listed(data, at, n, toks, base)
  /\ at[1] = Len(first) /\ at[n + 1] = Len(data)

LEMMA ListedNext ==
  ASSUME NEW first, NEW data, NEW at, NEW n \in Nat, NEW toks, NEW base,
         ListedTo(data, first, at, n, toks, base),
         Token(toks[n + 1], base) \in 0 .. Word - 1,
         NEW new, new = data \o EncodeU64(Token(toks[n + 1], base))
  PROVE  \E to : ListedTo(new, first, to, n + 1, toks, base)
<1> PICK val : val = Token(toks[n + 1], base)
  OBVIOUS
<1> PICK to : to = [i \in 1 .. (n + 1) + 1 |-> IF i = (n + 1) + 1 THEN Len(new) ELSE at[i]]
  OBVIOUS
<1>1. /\ Begins(first, data) /\ Listed(data, at, n, toks, base)
      /\ at[1] = Len(first) /\ at[n + 1] = Len(data)
      /\ at \in [1 .. n + 1 -> Nat] /\ data \in Seq(Nat)
  BY DEF ListedTo, Listed, Begins
<1>2. IsAppended(new, data, val)
  BY <1>1, NumberAppended
<1>3. Begins(data, new) /\ new \in Seq(Nat) /\ Len(new) \in Nat
  BY <1>2 DEF IsAppended, Begins
<1>4. /\ \A i \in 1 .. n + 1 : to[i] = at[i]
      /\ to[(n + 1) + 1] = Len(new)
  <2>1. \A i \in 1 .. n + 1 : i \in 1 .. (n + 1) + 1 /\ i # (n + 1) + 1
    OBVIOUS
  <2>2. (n + 1) + 1 \in 1 .. (n + 1) + 1
    OBVIOUS
  <2> QED
    BY <2>1, <2>2
<1>5. to \in [1 .. (n + 1) + 1 -> Nat]
  <2>1. \A i \in 1 .. (n + 1) + 1 : i # (n + 1) + 1 => i \in 1 .. n + 1
    OBVIOUS
  <2>2. \A i \in 1 .. (n + 1) + 1 : (IF i = (n + 1) + 1 THEN Len(new) ELSE at[i]) \in Nat
    BY <1>1, <1>3, <2>1
  <2> QED
    BY <2>2
<1>6. ASSUME NEW k \in 1 .. n + 1
      PROVE  Stored(new, to[k], Token(toks[k], base), to[k + 1] - to[k])
  <2>1. CASE k \in 1 .. n
    <3>1. k \in 1 .. n + 1 /\ k + 1 \in 1 .. n + 1
      BY <2>1
    <3>2. to[k] = at[k] /\ to[k + 1] = at[k + 1]
      BY <1>4, <3>1
    <3>3. Stored(data, at[k], Token(toks[k], base), at[k + 1] - at[k])
      BY <1>1, <2>1 DEF Listed
    <3>4. Stored(new, at[k], Token(toks[k], base), at[k + 1] - at[k])
      BY <1>3, <3>3, StillStored
    <3> QED
      BY <3>2, <3>4
  <2>2. CASE k = n + 1
    <3>1. n + 1 \in 1 .. n + 1
      OBVIOUS
    <3>2. to[k] = Len(data) /\ to[k + 1] = Len(new)
      BY <1>1, <1>4, <2>2, <3>1
    <3>3. Stored(new, Len(data), val, Len(new) - Len(data))
      BY <1>2 DEF IsAppended
    <3> QED
      BY <2>2, <3>2, <3>3
  <2> QED
    BY <2>1, <2>2
<1>7. Listed(new, to, n + 1, toks, base)
  BY <1>5, <1>6 DEF Listed
<1>8. Begins(first, new)
  BY <1>1, <1>3, StillBegins
<1>9. to[1] = Len(first)
  <2>1. 1 \in 1 .. n + 1
    OBVIOUS
  <2> QED
    BY <1>1, <1>4, <2>1
<1> QED
  BY <1>4, <1>7, <1>8, <1>9 DEF ListedTo

LEMMA TokensAppended ==
  ASSUME NEW data \in Seq(Nat), NEW toks, Len(toks) \in Nat, NEW base,
         \A k \in 1 .. Len(toks) : Token(toks[k], base) \in 1 .. Word - 1,
         NEW new, new = AppendTokens(data, toks, base)
  PROVE  Begins(data, new) /\ ListedFrom(new, Len(data), toks, base)
<1> DEFINE n == Len(toks)
           f == CHOOSE f : f = [k \in 0 .. n |->
                  IF k = 0 THEN data ELSE f[k - 1] \o EncodeU64(Token(toks[k], base))]
<1> PICK x : x = [toks |-> toks, base |-> base]
  BY Zenon
<1>0. n \in Nat /\ x.toks = toks /\ x.base = base
  OBVIOUS
<1>1. Looping("tokens", x, data, n, f)
  <2> HIDE DEF n
  <2>1. \A o, k : Pass("tokens", x, o, k) = o \o EncodeU64(Token(toks[k], base))
    BY <1>0 DEF Pass
  <2>2. \A g : Looping("tokens", x, data, n, g) <=>
               g = [k \in 0 .. n |-> IF k = 0 THEN data ELSE g[k - 1] \o EncodeU64(Token(toks[k], base))]
    BY <2>1 DEF Looping
  <2>3. \E g : g = [k \in 0 .. n |-> IF k = 0 THEN data ELSE g[k - 1] \o EncodeU64(Token(toks[k], base))]
    BY <1>0, <2>2, LoopExists
  <2>4. f = [k \in 0 .. n |-> IF k = 0 THEN data ELSE f[k - 1] \o EncodeU64(Token(toks[k], base))]
    BY <2>3, Zenon
  <2> QED
    BY <2>2, <2>4, Zenon
<1>2. new = f[n] \o EncodeU64(0)
  BY Zenon DEF AppendTokens
<1> HIDE DEF f
<1>3. /\ f[0] = data
      /\ \A k \in Nat : k + 1 <= n => f[k + 1] = f[k] \o EncodeU64(Token(toks[k + 1], base))
  <2>1. \A o, k : Pass("tokens", x, o, k) = o \o EncodeU64(Token(toks[k], base))
    BY <1>0 DEF Pass
  <2> HIDE DEF n
  <2>2. Loops("tokens", x, data, n, f)
    BY <1>0, <1>1, LoopIs
  <2> QED
    BY <2>1, <2>2 DEF Loops
<1> DEFINE S == {k \in Nat : k <= n => \E at : ListedTo(f[k], data, at, k, toks, base)}
<1>4. 0 \in S
  <2> PICK at : at = [i \in 1 .. 1 |-> Len(data)]
    OBVIOUS
  <2>1. at \in [1 .. 0 + 1 -> Nat] /\ at[1] = Len(data) /\ at[0 + 1] = Len(data)
    OBVIOUS
  <2>2. Begins(data, data)
    BY DEF Begins
  <2>3. Listed(data, at, 0, toks, base)
    BY <2>1 DEF Listed
  <2> QED
    BY <1>3, <2>1, <2>2, <2>3 DEF ListedTo
<1>5. ASSUME NEW k \in Nat, k \in S PROVE k + 1 \in S
  <2>1. SUFFICES ASSUME k + 1 <= n PROVE \E at : ListedTo(f[k + 1], data, at, k + 1, toks, base)
    OBVIOUS
  <2>2. k <= n /\ k + 1 \in 1 .. n
    BY <1>0, <2>1
  <2>3. PICK at : ListedTo(f[k], data, at, k, toks, base)
    BY <1>5, <2>2
  <2>4. Token(toks[k + 1], base) \in 0 .. Word - 1
    <3>1. Token(toks[k + 1], base) \in 1 .. Word - 1
      BY <2>2
    <3> QED
      BY <3>1, Widths
  <2>5. f[k + 1] = f[k] \o EncodeU64(Token(toks[k + 1], base))
    BY <1>3, <2>1
  <2> HIDE DEF n, S
  <2> QED
    BY <2>3, <2>4, <2>5, ListedNext
<1> HIDE DEF S
<1>6. n \in S
  BY <1>0, <1>4, <1>5, Induction
<1> HIDE DEF n
<1>7. PICK at : ListedTo(f[n], data, at, n, toks, base)
  <2>1. n <= n
    BY <1>0
  <2> QED
    BY <1>6, <2>1 DEF S
<1>8. /\ Begins(data, f[n]) /\ Listed(f[n], at, n, toks, base)
      /\ at[1] = Len(data) /\ at[n + 1] = Len(f[n]) /\ f[n] \in Seq(Nat)
  BY <1>7 DEF ListedTo, Begins
<1>9. IsAppended(new, f[n], 0)
  <2>1. 0 \in 0 .. Word - 1
    BY Widths
  <2> QED
    BY <1>2, <1>8, <2>1, NumberAppended
<1>10. Begins(f[n], new) /\ Stored(new, at[n + 1], 0, Blocks(0))
  <2> PICK l, b : l = Len(f[n]) /\ b = Blocks(0)
    OBVIOUS
  <2>1. Begins(f[n], new) /\ Stored(new, l, 0, Len(new) - l) /\ Len(new) = l + b /\ b \in Nat
    BY <1>9 DEF IsAppended
  <2>2. l \in Nat
    BY <1>8
  <2>3. Len(new) - l = b
    BY <2>1, <2>2
  <2> QED
    BY <1>8, <2>1, <2>3
<1>11. Begins(data, new)
  BY <1>8, <1>10, StillBegins
<1>12. Listed(new, at, n, toks, base)
  BY <1>8, <1>10, StillStored DEF Listed
<1>13. ListedFrom(new, Len(data), toks, base)
  BY <1>8, <1>10, <1>12 DEF ListedFrom, n
<1> QED
  BY <1>11, <1>13

TokensFit(orig, base) ==
  /\ base \in Int
  /\ \A pos \in DOMAIN orig :
       /\ orig[pos] \in Seq(Int)
       /\ \A k \in 1 .. Len(orig[pos]) : Token(orig[pos][k], base) \in 1 .. Word - 1

\* The table has the locations of the first k positions.
Tabled(t, order, k, orig, base) ==
  /\ t.base_token = base /\ t.token_data \in Seq(Nat)
  /\ t.locs \in Seq(Nat \X Nat) /\ Len(t.locs) = k
  /\ \A j \in 1 .. k :
       /\ t.locs[j][1] = order[j]
       /\ ListedFrom(t.token_data, t.locs[j][2], orig[order[j]], base)

LEMMA LocationAppended ==
  ASSUME NEW t, NEW order, NEW k \in Nat, NEW orig, NEW base, TokensFit(orig, base),
         Tabled(t, order, k, orig, base), NEW pos \in Nat, pos = order[k + 1], pos \in DOMAIN orig,
         NEW z, z = AppendLocation(t, pos, orig[pos])
  PROVE  Tabled(z, order, k + 1, orig, base)
<1> PICK data, locs : data = t.token_data /\ locs = t.locs
  OBVIOUS
<1> PICK toks : toks = orig[pos]
  OBVIOUS
<1> PICK new : new = AppendTokens(data, toks, base)
  OBVIOUS
<1> PICK e : e = <<pos, Len(data)>>
  OBVIOUS
<1>1. /\ t.base_token = base /\ data \in Seq(Nat) /\ Len(data) \in Nat
      /\ locs \in Seq(Nat \X Nat) /\ Len(locs) = k
      /\ \A j \in 1 .. k : /\ locs[j][1] = order[j]
                           /\ ListedFrom(data, locs[j][2], orig[order[j]], base)
  BY DEF Tabled
<1>2. z = [base_token |-> base, locs |-> Append(locs, e), token_data |-> new]
  BY <1>1 DEF AppendLocation
<1>3. /\ z.base_token = base /\ z.locs = Append(locs, e) /\ z.token_data = new
  BY <1>2
<1>4. Begins(data, new) /\ ListedFrom(new, Len(data), toks, base)
  <2>1. Len(toks) \in Nat /\ \A m \in 1 .. Len(toks) : Token(toks[m], base) \in 1 .. Word - 1
    BY DEF TokensFit
  <2> QED
    BY <1>1, <2>1, TokensAppended
<1>5. e \in Nat \X Nat /\ e[1] = pos /\ e[2] = Len(data)
  BY <1>1
<1>6. /\ z.locs \in Seq(Nat \X Nat) /\ Len(z.locs) = k + 1
      /\ \A j \in 1 .. k : z.locs[j] = locs[j]
      /\ z.locs[k + 1] = e
  <2>1. PICK P : P = Nat \X Nat
    OBVIOUS
  <2>2. locs \in Seq(P) /\ e \in P
    BY <1>1, <1>5, <2>1
  <2>3. /\ Append(locs, e) \in Seq(P) /\ Len(Append(locs, e)) = k + 1
        /\ \A j \in 1 .. k : Append(locs, e)[j] = locs[j]
        /\ Append(locs, e)[k + 1] = e
    BY <1>1, <2>2, AppendProperties
  <2> QED
    BY <1>3, <2>1, <2>3
<1>7. ASSUME NEW j \in 1 .. k + 1
      PROVE  z.locs[j][1] = order[j] /\ ListedFrom(new, z.locs[j][2], orig[order[j]], base)
  <2>1. CASE j \in 1 .. k
    <3>1. z.locs[j] = locs[j] /\ locs[j][1] = order[j]
          /\ ListedFrom(data, locs[j][2], orig[order[j]], base)
      BY <1>1, <1>6, <2>1
    <3>2. ListedFrom(new, locs[j][2], orig[order[j]], base)
      BY <1>4, <3>1, StillListed
    <3> QED
      BY <3>1, <3>2
  <2>2. CASE j = k + 1
    <3>1. order[j] = pos /\ z.locs[j] = e
      BY <1>6, <2>2
    <3>2. ListedFrom(new, e[2], orig[pos], base)
      BY <1>4, <1>5
    <3> QED
      BY <1>5, <3>1, <3>2
  <2> QED
    BY <2>1, <2>2
<1>8. new \in Seq(Nat)
  BY <1>4 DEF Begins
<1> QED
  BY <1>3, <1>6, <1>7, <1>8 DEF Tabled

LEMMA CondenseIs ==
  ASSUME NEW orig, DOMAIN orig \in SUBSET Nat, NEW order, order = InOrder(DOMAIN orig),
         Enumerates(order, DOMAIN orig), NEW base, base = BaseToken(orig), TokensFit(orig, base),
         NEW t, t = Condense(orig)
  PROVE  Tabled(t, order, Len(order), orig, base)
<1> DEFINE n == Len(order)
           first == [base_token |-> base, locs |-> <<>>, token_data |-> <<>>]
           f == CHOOSE f : f = [k \in 0 .. n |->
                  IF k = 0 THEN first ELSE AppendLocation(f[k - 1], order[k], orig[order[k]])]
<1> PICK x : x = [order |-> order, orig |-> orig]
  OBVIOUS
<1>0. n \in Nat /\ x.order = order /\ x.orig = orig
  BY DEF Enumerates
<1>1. Looping("condense", x, first, n, f)
  <2> HIDE DEF first, n
  <2>1. \A o, k : Pass("condense", x, o, k) = AppendLocation(o, order[k], orig[order[k]])
    BY <1>0 DEF Pass
  <2>2. \A g : Looping("condense", x, first, n, g) <=>
               g = [k \in 0 .. n |->
                     IF k = 0 THEN first ELSE AppendLocation(g[k - 1], order[k], orig[order[k]])]
    BY <2>1 DEF Looping
  <2>3. \E g : g = [k \in 0 .. n |->
                     IF k = 0 THEN first ELSE AppendLocation(g[k - 1], order[k], orig[order[k]])]
    BY <1>0, <2>2, LoopExists
  <2>4. f = [k \in 0 .. n |->
              IF k = 0 THEN first ELSE AppendLocation(f[k - 1], order[k], orig[order[k]])]
    BY <2>3, Zenon
  <2> QED
    BY <2>2, <2>4
<1>2. t = f[n]
  BY DEF Condense
<1> HIDE DEF f
<1>3. /\ f[0] = first
      /\ \A k \in Nat : k + 1 <= n => f[k + 1] = AppendLocation(f[k], order[k + 1], orig[order[k + 1]])
  <2>1. \A o, k : Pass("condense", x, o, k) = AppendLocation(o, order[k], orig[order[k]])
    BY <1>0 DEF Pass
  <2> HIDE DEF n, first
  <2>2. Loops("condense", x, first, n, f)
    BY <1>0, <1>1, LoopIs
  <2> QED
    BY <2>1, <2>2 DEF Loops
<1> DEFINE S == {k \in Nat : k <= n => Tabled(f[k], order, k, orig, base)}
<1>4. 0 \in S
  <2>1. first.base_token = base /\ first.locs = <<>> /\ first.token_data = <<>>
    OBVIOUS
  <2>2. <<>> \in Seq(Nat) /\ <<>> \in Seq(Nat \X Nat) /\ Len(<<>>) = 0
    OBVIOUS
  <2> HIDE DEF first
  <2>3. Tabled(first, order, 0, orig, base)
    BY <2>1, <2>2 DEF Tabled
  <2> QED
    BY <1>3, <2>3
<1>5. ASSUME NEW k \in Nat, k \in S PROVE k + 1 \in S
  <2>1. SUFFICES ASSUME k + 1 <= n PROVE Tabled(f[k + 1], order, k + 1, orig, base)
    OBVIOUS
  <2>2. k <= n /\ k + 1 \in 1 .. n
    BY <1>0, <2>1
  <2>3. Tabled(f[k], order, k, orig, base)
    BY <1>5, <2>2
  <2>4. order[k + 1] \in DOMAIN orig /\ order[k + 1] \in Nat
    BY <2>2 DEF Enumerates
  <2>5. f[k + 1] = AppendLocation(f[k], order[k + 1], orig[order[k + 1]])
    BY <1>3, <2>1
  <2> HIDE DEF n, S
  <2> QED
    BY <2>3, <2>4, <2>5, LocationAppended
<1> HIDE DEF S
<1>6. n \in S
  BY <1>0, <1>4, <1>5, Induction
<1>7. n <= n
  BY <1>0
<1> HIDE DEF n
<1>8. Tabled(f[n], order, n, orig, base)
  BY <1>6, <1>7 DEF S
<1> QED
  BY <1>2, <1>8 DEF n

\* What has been read after k tokens; behind the last one nothing more is.
IsRead(o, at, toks, k) ==
  /\ k <= Len(toks) => o = [start |-> at[k + 1], toks |-> SubSeq(toks, 1, k)]
  /\ k > Len(toks) => o = [start |-> at[Len(toks) + 1], toks |-> toks]

LEMMA SubSeqNext ==
  ASSUME NEW toks \in Seq(Int), NEW k \in Nat, k + 1 <= Len(toks)
  PROVE  SubSeq(toks, 1, k + 1) = Append(SubSeq(toks, 1, k), toks[k + 1])
OBVIOUS

LEMMA SubSeqEnds ==
  ASSUME NEW toks \in Seq(Int)
  PROVE  SubSeq(toks, 1, Len(toks)) = toks /\ SubSeq(toks, 1, 0) = <<>>
OBVIOUS

LEMMA TokenIsRead ==
  ASSUME NEW t, t.token_data \in Seq(Nat), t.base_token \in Int, NEW toks \in Seq(Int),
         \A j \in 1 .. Len(toks) : Token(toks[j], t.base_token) \in 1 .. Word - 1,
         NEW at, Listed(t.token_data, at, Len(toks), toks, t.base_token),
         Stored(t.token_data, at[Len(toks) + 1], 0, Blocks(0)),
         NEW k \in Nat, NEW o, IsRead(o, at, toks, k)
  PROVE  IsRead(ReadToken(t, o), at, toks, k + 1)
<1> PICK data, base, n : data = t.token_data /\ base = t.base_token /\ n = Len(toks)
  OBVIOUS
<1>1. /\ n \in Nat /\ data \in Seq(Nat) /\ Len(data) \in Nat /\ base \in Int
      /\ at \in [1 .. n + 1 -> Nat]
      /\ \A j \in 1 .. n : Stored(data, at[j], Token(toks[j], base), at[j + 1] - at[j])
      /\ Stored(data, at[n + 1], 0, Blocks(0))
      /\ \A j \in 1 .. n : Token(toks[j], base) \in 1 .. Word - 1 /\ toks[j] \in Int
  BY DEF Listed
<1>2. CASE k + 1 <= n
  <2>1. k + 1 \in 1 .. n /\ k + 1 \in 1 .. n + 1 /\ (k + 1) + 1 \in 1 .. n + 1 /\ k <= n
    BY <1>1, <1>2
  <2>2. o = [start |-> at[k + 1], toks |-> SubSeq(toks, 1, k)]
    BY <2>1 DEF IsRead
  <2> PICK val, size : val = Token(toks[k + 1], base) /\ size = at[(k + 1) + 1] - at[k + 1]
    OBVIOUS
  <2>3. Stored(data, at[k + 1], val, size)
    BY <1>1, <2>1
  <2>4. DecodeU64(data, at[k + 1]) = [val |-> val, aft |-> at[k + 1] + size]
    BY <1>1, <2>3, StoredIsRead
  <2>5. size \in Nat \ {0} /\ at[k + 1] \in Nat /\ at[(k + 1) + 1] \in Nat
    BY <1>1, <2>1, <2>3 DEF Stored
  <2>6. at[k + 1] + size = at[(k + 1) + 1]
    BY <2>5
  <2>7. val # 0 /\ (val - 1) + base = toks[k + 1]
    BY <1>1, <2>1 DEF Token
  <2>8. o.start = at[k + 1] /\ o.toks = SubSeq(toks, 1, k)
    BY <2>2
  <2> PICK tok : tok = DecodeU64(data, at[k + 1])
    OBVIOUS
  <2>9. tok.val = val /\ tok.aft = at[(k + 1) + 1]
    BY <2>4, <2>6
  <2>10. ReadToken(t, o) = [start |-> at[(k + 1) + 1], toks |-> Append(SubSeq(toks, 1, k), toks[k + 1])]
    BY <2>7, <2>8, <2>9 DEF ReadToken
  <2>11. SubSeq(toks, 1, k + 1) = Append(SubSeq(toks, 1, k), toks[k + 1])
    BY <1>2, SubSeqNext
  <2>12. ~ (k + 1 > n)
    BY <1>1, <1>2
  <2> QED
    BY <2>10, <2>11, <2>12 DEF IsRead
<1>3. CASE ~ (k + 1 <= n)
  <2>1. k + 1 > n /\ (k = n \/ k > n)
    BY <1>1, <1>3
  <2>2. o = [start |-> at[n + 1], toks |-> toks]
    <3>1. CASE k = n
      <4>1. k <= n
        BY <1>1, <3>1
      <4>2. o = [start |-> at[n + 1], toks |-> SubSeq(toks, 1, n)]
        BY <3>1, <4>1 DEF IsRead
      <4> QED
        BY <4>2, SubSeqEnds
    <3>2. CASE k > n
      BY <3>2 DEF IsRead
    <3> QED
      BY <2>1, <3>1, <3>2
  <2>3. DecodeU64(data, at[n + 1]) = [val |-> 0, aft |-> at[n + 1] + Blocks(0)]
    BY <1>1, StoredIsRead
  <2> PICK tok : tok = DecodeU64(data, at[n + 1])
    OBVIOUS
  <2>4. tok.val = 0 /\ o.start = at[n + 1]
    BY <2>2, <2>3
  <2>5. ReadToken(t, o) = o
    BY <2>4 DEF ReadToken
  <2> QED
    BY <1>3, <2>1, <2>2, <2>5 DEF IsRead
<1> QED
  BY <1>2, <1>3

\* The loop of lookup, from a location on.
LEMMA TokensAreRead ==
  ASSUME NEW t, t.token_data \in Seq(Nat), t.base_token \in Int, NEW toks \in Seq(Int),
         \A j \in 1 .. Len(toks) : Token(toks[j], t.base_token) \in 1 .. Word - 1,
         NEW start, ListedFrom(t.token_data, start, toks, t.base_token)
  PROVE  ReadTokens(t, start) = toks
<1> DEFINE n == Len(t.token_data)
           first == [start |-> start, toks |-> <<>>]
           f == CHOOSE f : f = [k \in 0 .. n |-> IF k = 0 THEN first ELSE ReadToken(t, f[k - 1])]
<1>0. n \in Nat
  OBVIOUS
<1>1. Looping("lookup", t, first, n, f)
  <2> HIDE DEF first
  <2>1. \A o, k : Pass("lookup", t, o, k) = ReadToken(t, o)
    BY DEF Pass
  <2>2. \A g : Looping("lookup", t, first, n, g) <=>
               g = [k \in 0 .. n |-> IF k = 0 THEN first ELSE ReadToken(t, g[k - 1])]
    BY <2>1 DEF Looping
  <2>3. \E g : g = [k \in 0 .. n |-> IF k = 0 THEN first ELSE ReadToken(t, g[k - 1])]
    BY <1>0, <2>2, LoopExists
  <2>4. f = [k \in 0 .. n |-> IF k = 0 THEN first ELSE ReadToken(t, f[k - 1])]
    BY <2>3, Zenon
  <2> QED
    BY <2>2, <2>4
<1> SUFFICES f[n].toks = toks
  BY DEF ReadTokens
<1> HIDE DEF f
<1>3. /\ f[0] = first
      /\ \A k \in Nat : k + 1 <= n => f[k + 1] = ReadToken(t, f[k])
  <2>1. \A o, k : Pass("lookup", t, o, k) = ReadToken(t, o)
    BY DEF Pass
  <2> HIDE DEF n, first
  <2>2. Loops("lookup", t, first, n, f)
    BY <1>0, <1>1, LoopIs
  <2> QED
    BY <2>1, <2>2 DEF Loops
<1>4. PICK at : /\ Listed(t.token_data, at, Len(toks), toks, t.base_token) /\ at[1] = start
                /\ Stored(t.token_data, at[Len(toks) + 1], 0, Blocks(0))
  BY DEF ListedFrom
<1> DEFINE S == {k \in Nat : k <= n => IsRead(f[k], at, toks, k)}
<1>5. 0 \in S
  <2>1. SubSeq(toks, 1, 0) = <<>> /\ 0 <= Len(toks) /\ ~ (0 > Len(toks)) /\ 0 + 1 = 1
    BY SubSeqEnds
  <2>2. IsRead(first, at, toks, 0)
    BY <1>4, <2>1 DEF IsRead
  <2> QED
    BY <1>3, <2>2
<1>6. ASSUME NEW k \in Nat, k \in S PROVE k + 1 \in S
  <2>1. SUFFICES ASSUME k + 1 <= n PROVE IsRead(f[k + 1], at, toks, k + 1)
    OBVIOUS
  <2>2. k <= n
    BY <1>0, <2>1
  <2>3. IsRead(f[k], at, toks, k)
    BY <1>6, <2>2
  <2>4. f[k + 1] = ReadToken(t, f[k])
    BY <1>3, <2>1
  <2>5. IsRead(ReadToken(t, f[k]), at, toks, k + 1)
    BY <1>4, <2>3, TokenIsRead
  <2> QED
    BY <2>4, <2>5
<1> HIDE DEF S
<1>7. IsRead(f[n], at, toks, n)
  <2>1. n \in S
    BY <1>0, <1>5, <1>6, Induction
  <2>2. n <= n
    BY <1>0
  <2> QED
    BY <2>1, <2>2 DEF S
\* A token takes a byte at least.
<1>8. n > Len(toks)
  <2> DEFINE m == Len(toks)
             T == {k \in Nat : k <= m => k <= at[k + 1]}
  <2>0. /\ m \in Nat /\ at \in [1 .. m + 1 -> Nat]
        /\ \A j \in 1 .. m : Stored(t.token_data, at[j], Token(toks[j], t.base_token), at[j + 1] - at[j])
    BY <1>4 DEF Listed
  <2>1. 0 \in T
    <3>1. 0 + 1 = 1 /\ 1 \in 1 .. m + 1
      BY <2>0
    <3>2. at[1] \in Nat
      BY <2>0, <3>1
    <3> QED
      BY <3>1, <3>2
  <2>2. ASSUME NEW k \in Nat, k \in T PROVE k + 1 \in T
    <3>1. SUFFICES ASSUME k + 1 <= m PROVE k + 1 <= at[(k + 1) + 1]
      OBVIOUS
    <3>2. k + 1 \in 1 .. m /\ k <= m /\ k + 1 \in 1 .. m + 1 /\ (k + 1) + 1 \in 1 .. m + 1
      BY <2>0, <3>1
    <3>3. at[(k + 1) + 1] - at[k + 1] \in Nat \ {0}
      BY <2>0, <3>2 DEF Stored
    <3>4. at[(k + 1) + 1] \in Nat /\ at[k + 1] \in Nat /\ k <= at[k + 1]
      BY <2>0, <2>2, <3>2
    <3> QED
      BY <3>3, <3>4
  <2> HIDE DEF T
  <2>3. m \in T
    BY <2>0, <2>1, <2>2, Induction
  <2>4. m <= at[m + 1]
    <3>1. m <= m
      BY <2>0
    <3> QED
      BY <2>3, <3>1 DEF T
  <2>5. at[m + 1] \in Nat /\ Blocks(0) \in Nat \ {0} /\ at[m + 1] + Blocks(0) <= n
    BY <1>4 DEF Stored
  <2> QED
    BY <1>0, <2>0, <2>4, <2>5
<1>9. f[n] = [start |-> at[Len(toks) + 1], toks |-> toks]
  BY <1>7, <1>8 DEF IsRead
<1> QED
  BY <1>9

LEMMA LookupIs ==
  ASSUME NEW t, NEW orig, NEW order, Enumerates(order, DOMAIN orig), NEW base, TokensFit(orig, base),
         Tabled(t, order, Len(order), orig, base), NEW pos \in Nat
  PROVE  /\ (\A r \in DOMAIN orig : r <= pos) => Lookup(t, pos) = <<>>
         /\ \A r \in DOMAIN orig :
              r > pos /\ (\A q \in DOMAIN orig : q > pos => r <= q) => Lookup(t, pos) = orig[r]
<1> DEFINE S == {n \in DOMAIN t.locs : t.locs[n][1] >= pos + 1} \union {Len(t.locs) + 1}
           p == LowerBound(t.locs, pos + 1)
<1> PICK n : n = Len(order)
  OBVIOUS
<1>1. /\ n \in Nat /\ \A j \in 1 .. n : order[j] \in DOMAIN orig /\ order[j] \in Nat
      /\ \A j, m \in 1 .. n : j < m => order[j] < order[m]
      /\ \A r \in DOMAIN orig : \E j \in 1 .. n : order[j] = r
  BY DEF Enumerates
<1>2. /\ t.base_token = base /\ t.token_data \in Seq(Nat) /\ DOMAIN t.locs = 1 .. n /\ Len(t.locs) = n
      /\ \A j \in 1 .. n : /\ t.locs[j][1] = order[j]
                           /\ ListedFrom(t.token_data, t.locs[j][2], orig[order[j]], base)
  BY DEF Tabled
<1>3. p = LeastOf(S)
  BY DEF LowerBound
<1>4. S = {j \in 1 .. n : order[j] >= pos + 1} \union {n + 1}
  BY <1>2
<1> HIDE DEF S
<1>5. p \in S /\ \A m \in S : p <= m
  <2>1. S \in SUBSET Nat /\ n + 1 \in S
    BY <1>1, <1>4
  <2> QED
    BY <1>3, <2>1, LeastMember
<1> HIDE DEF p
<1>6. ASSUME \A r \in DOMAIN orig : r <= pos PROVE Lookup(t, pos) = <<>>
  <2>1. \A j \in 1 .. n : ~ (order[j] >= pos + 1)
    BY <1>1, <1>6
  <2>2. p = n + 1
    BY <1>4, <1>5, <2>1
  <2>3. p > Len(t.locs)
    BY <1>1, <1>2, <2>2
  <2> QED
    BY <2>3, Zenon DEF Lookup, p
<1>7. ASSUME NEW r \in DOMAIN orig, r > pos, \A q \in DOMAIN orig : q > pos => r <= q
      PROVE  Lookup(t, pos) = orig[r]
  <2>1. PICK j \in 1 .. n : order[j] = r
    BY <1>1
  <2>2. r \in Nat /\ r >= pos + 1
    BY <1>1, <1>7, <2>1
  <2>3. j \in S
    BY <1>4, <2>1, <2>2
  <2>4. p <= j
    BY <1>5, <2>3
  <2>5. p \in 1 .. n /\ order[p] >= pos + 1
    <3>1. p # n + 1
      BY <1>1, <2>4
    <3> QED
      BY <1>4, <1>5, <3>1
  <2>6. order[p] > pos /\ order[p] \in DOMAIN orig /\ order[p] \in Nat
    BY <1>1, <2>5
  <2>7. r <= order[p]
    BY <1>7, <2>6
  <2>8. p = j
    <3>1. p < j => order[p] < order[j]
      BY <1>1, <2>5
    <3> QED
      BY <1>1, <2>1, <2>2, <2>4, <2>5, <2>6, <2>7, <3>1
  <2>9. ListedFrom(t.token_data, t.locs[p][2], orig[r], base)
    BY <1>2, <2>1, <2>8
  <2>10. ~ (p > Len(t.locs))
    BY <1>1, <1>2, <2>5
  <2>11. /\ orig[r] \in Seq(Int) /\ base \in Int
         /\ \A k \in 1 .. Len(orig[r]) : Token(orig[r][k], base) \in 1 .. Word - 1
    BY DEF TokensFit
  <2> PICK start : start = t.locs[p][2]
    OBVIOUS
  <2> PICK toks : toks = orig[r]
    OBVIOUS
  <2>12. ReadTokens(t, start) = toks
    <3>1. /\ t.token_data \in Seq(Nat) /\ t.base_token \in Int /\ toks \in Seq(Int)
          /\ \A k \in 1 .. Len(toks) : Token(toks[k], t.base_token) \in 1 .. Word - 1
          /\ ListedFrom(t.token_data, start, toks, t.base_token)
      BY <1>2, <2>9, <2>11
    <3> QED
      BY <3>1, TokensAreRead
  <2>13. Lookup(t, pos) = ReadTokens(t, start)
    BY <2>10 DEF Lookup, p
  <2> QED
    BY <2>12, <2>13
<1> QED
  BY <1>6, <1>7
-----------------------------------------------------------------------------
(* The locations of a program.                                             *)

\* Instructions are in the code in their order.
LEMMA HeadsAscend ==
  ASSUME NEW words, WellFormed(words), NEW at, NEW data, Layout(at, Len(words), data),
         NEW ins, Heads(words, Len(words), at, ins), NEW m \in 1 .. Len(ins)
  PROVE  /\ ins[m] \in 0 .. Len(data)
         /\ \A k \in 1 .. Len(ins) : m < k => ins[m] < ins[k]
<1>0. Len(words) \in Nat /\ Len(ins) \in Nat
  BY DEF Heads, WellFormed
<1>1. ASSUME NEW k \in 1 .. Len(ins)
      PROVE  \E i \in 1 .. Len(words) : /\ words[i].type = "op" /\ words[i].val = k - 1
                                        /\ ins[k] = at[i]
  <2>1. PICK i \in 1 .. Len(words) : words[i] = Op(k - 1)
    BY DEF Heads
  <2>2. words[i].type = "op" /\ words[i].val = k - 1 /\ (k - 1) + 1 = k
    BY <1>0, <2>1 DEF Op
  <2>3. ins[k] = at[i]
    BY <2>2 DEF Heads
  <2> QED
    BY <2>2, <2>3
<1>2. PICK i \in 1 .. Len(words) : /\ words[i].type = "op" /\ words[i].val = m - 1
                                   /\ ins[m] = at[i]
  BY <1>1
<1>3. ins[m] \in 0 .. Len(data)
  <2>1. at[i] \in Nat /\ at[i + 1] \in Nat /\ at[i] < at[i + 1] /\ at[i + 1] <= Len(data)
    BY WordsApart
  <2>2. Len(data) \in Nat
    BY DEF Layout
  <2> QED
    BY <1>2, <2>1, <2>2
<1>4. ASSUME NEW k \in 1 .. Len(ins), m < k
      PROVE  ins[m] < ins[k]
  <2>1. PICK j \in 1 .. Len(words) : /\ words[j].type = "op" /\ words[j].val = k - 1
                                     /\ ins[k] = at[j]
    BY <1>1
  <2>2. i # j
    BY <1>0, <1>2, <1>4, <2>1
  <2>3. ~ (j < i)
    <3>1. SUFFICES ASSUME j \in 1 .. i - 1 PROVE FALSE
      BY <1>0
    <3>2. words[j].val < words[i].val
      BY <1>2, <2>1, <3>1, OpsAre
    <3> QED
      BY <1>0, <1>2, <1>4, <2>1, <3>2
  <2>4. j \in i + 1 .. Len(words) + 1
    BY <1>0, <2>2, <2>3
  <2>5. at[i] \in Nat /\ at[i + 1] \in Nat /\ at[j] \in Nat /\ at[i] < at[i + 1] /\ at[i + 1] <= at[j]
    BY <2>4, LayoutGrows
  <2>6. at[i] < at[j]
    BY <2>5
  <2> QED
    BY <1>2, <2>1, <2>6, Zenon
<1> QED
  BY <1>3, <1>4

\* Locations have the positions of their instructions in the code.
AtHeads(orig, locs, ins, len) ==
  /\ DOMAIN orig = {ins[n + 1] : n \in DOMAIN locs}
  /\ \A n \in DOMAIN locs :
       n \in Nat /\ n + 1 \in 1 .. Len(ins) /\ ins[n + 1] \in 0 .. len /\ orig[ins[n + 1]] = locs[n]

LEMMA FinalLocationsAre ==
  ASSUME WellFormed(program.words), WellLocated(program.words, program.locs),
         NEW at, Layout(at, Len(program.words), code),
         Heads(program.words, Len(program.words), at, final_ins_pos)
  PROVE  AtHeads(FinalLocations, program.locs, final_ins_pos, Len(code))
<1> PICK words, locs, ins : words = program.words /\ locs = program.locs /\ ins = final_ins_pos
  OBVIOUS
<1>1. WellFormed(words) /\ Layout(at, Len(words), code) /\ Heads(words, Len(words), at, ins)
  OBVIOUS
<1>2. ASSUME NEW n \in DOMAIN locs
      PROVE  n \in Nat /\ n + 1 \in 1 .. Len(ins)
  <2>1. n \in Nat /\ \E i \in DOMAIN words : words[i] = Op(n)
    BY DEF WellLocated
  <2>2. PICK i \in 1 .. Len(words) : words[i] = Op(n)
    <3>1. DOMAIN words = 1 .. Len(words)
      BY <1>1 DEF WellFormed
    <3> QED
      BY <2>1, <3>1
  <2>3. words[i].type = "op" /\ words[i].val = n
    BY <2>2 DEF Op
  <2> QED
    BY <1>1, <2>1, <2>3 DEF Heads
<1>3. ASSUME NEW n \in DOMAIN locs, NEW m \in DOMAIN locs, ins[m + 1] = ins[n + 1]
      PROVE  m = n
  <2>1. m \in Nat /\ n \in Nat /\ m + 1 \in 1 .. Len(ins) /\ n + 1 \in 1 .. Len(ins)
    BY <1>2
  <2>2. m + 1 = n + 1
    BY <1>1, <1>3, <2>1, HeadsApart
  <2> QED
    BY <2>1, <2>2
<1>4. FinalLocations = [pos \in {ins[n + 1] : n \in DOMAIN locs} |->
                         locs[CHOOSE n \in DOMAIN locs : ins[n + 1] = pos]]
  BY DEF FinalLocations
<1>5. ASSUME NEW n \in DOMAIN locs
      PROVE  FinalLocations[ins[n + 1]] = locs[n]
  <2> DEFINE c == CHOOSE m \in DOMAIN locs : ins[m + 1] = ins[n + 1]
  <2>1. c \in DOMAIN locs /\ ins[c + 1] = ins[n + 1]
    OBVIOUS
  <2>2. c = n
    BY <1>3, <2>1
  <2>3. FinalLocations[ins[n + 1]] = locs[c]
    BY <1>4
  <2> QED
    BY <2>2, <2>3
<1>6. \A n \in DOMAIN locs : ins[n + 1] \in 0 .. Len(code)
  BY <1>1, <1>2, HeadsAscend
<1>7. DOMAIN FinalLocations = {ins[n + 1] : n \in DOMAIN locs}
  BY <1>4
<1>8. AtHeads(FinalLocations, locs, ins, Len(code))
  BY <1>2, <1>5, <1>6, <1>7 DEF AtHeads
<1> QED
  BY <1>8

LEMMA HeadsEnumerated ==
  ASSUME NEW orig, NEW locs, NEW ins, NEW len \in Nat, AtHeads(orig, locs, ins, len)
  PROVE  /\ DOMAIN orig \in SUBSET Nat
         /\ Enumerates(InOrder(DOMAIN orig), DOMAIN orig)
<1>1. DOMAIN orig \subseteq 0 .. len
  BY DEF AtHeads
<1>2. IsFiniteSet(0 .. len)
  BY FS_Interval
<1>3. IsFiniteSet(DOMAIN orig)
  BY <1>1, <1>2, FS_Subset
<1>4. DOMAIN orig \in SUBSET Nat
  BY <1>1
<1> QED
  BY <1>3, <1>4, InOrderEnumerates

\* The least of some integers that are not too far apart.
LEMMA LeastToken ==
  ASSUME NEW T \in SUBSET Int, T # {}, NEW h \in Nat, \A a, b \in T : Token(a, b) < h
  PROVE  /\ LeastOf(T) \in Int
         /\ \A a \in T : Token(a, LeastOf(T)) \in 1 .. h - 1
<1>1. PICK b \in T : TRUE
  OBVIOUS
<1>2. b \in Int /\ \A a \in T : a \in Int /\ (a - (b - h)) + (b - h) = a
  BY <1>1
<1> DEFINE R == {a - (b - h) : a \in T}
<1>3. R \in SUBSET Nat /\ R # {}
  <2>1. ASSUME NEW a \in T PROVE a - (b - h) \in Nat
    <3>1. (b - a) + 1 < h
      BY <1>1 DEF Token
    <3> QED
      BY <1>2, <3>1
  <2> QED
    BY <1>1, <2>1
<1>4. \E x \in T : \A y \in T : x <= y
  <2>1. PICK l : l \in R /\ \A m \in R : l <= m
    BY <1>3, LeastMember
  <2>2. PICK x \in T : l = x - (b - h)
    BY <2>1
  <2>3. \A y \in T : x - (b - h) <= y - (b - h)
    BY <2>1, <2>2
  <2>4. \A y \in T : x <= y
    BY <1>2, <2>3
  <2> QED
    BY <2>4
<1>5. LeastOf(T) \in T /\ \A y \in T : LeastOf(T) <= y
  BY <1>4 DEF LeastOf
<1> PICK l : l = LeastOf(T)
  OBVIOUS
<1>6. ASSUME NEW a \in T PROVE Token(a, l) \in 1 .. h - 1
  <2>1. a \in Int /\ l \in Int /\ l <= a
    BY <1>5
  <2>2. a - l + 1 < h
    BY <1>5 DEF Token
  <2> QED
    BY <2>1, <2>2 DEF Token
<1> QED
  BY <1>5, <1>6

LEMMA LocationsFit ==
  ASSUME NEW words, NEW locs, WellLocated(words, locs),
         NEW orig, NEW ins, NEW len, AtHeads(orig, locs, ins, len)
  PROVE  TokensFit(orig, BaseToken(orig))
<1> PICK h : h = Word \div 2
  OBVIOUS
<1>1. h \in Nat /\ h <= Word /\ Word \in Nat
  <2>1. Word \in Nat /\ \E n \in Nat : Word = 2 * n
    BY Widths
  <2> QED
    BY <2>1
<1>2. /\ \A n \in DOMAIN locs : locs[n] \in Seq(Int)
      /\ \A m, n \in DOMAIN locs : \A j \in DOMAIN locs[m], k \in DOMAIN locs[n] :
           Token(locs[m][j], locs[n][k]) < h
  BY DEF WellLocated
<1>3. \A pos \in DOMAIN orig : \E n \in DOMAIN locs : orig[pos] = locs[n]
  BY DEF AtHeads
<1> DEFINE T == Tokens(orig)
<1>4. \A a \in T : \E n \in DOMAIN locs : \E k \in DOMAIN locs[n] : a = locs[n][k]
  <2>1. \A a \in T : \E pos \in DOMAIN orig : \E k \in DOMAIN orig[pos] : a = orig[pos][k]
    BY DEF Tokens
  <2> HIDE DEF T
  <2> QED
    BY <1>3, <2>1
<1>5. \A pos \in DOMAIN orig : \A k \in DOMAIN orig[pos] : orig[pos][k] \in T
  BY DEF Tokens
<1>6. \A pos \in DOMAIN orig : orig[pos] \in Seq(Int) /\ DOMAIN orig[pos] = 1 .. Len(orig[pos])
  BY <1>2, <1>3
<1>7. BaseToken(orig) = IF T = {} THEN 0 ELSE LeastOf(T)
  BY DEF BaseToken
<1> HIDE DEF T
<1>8. T \in SUBSET Int
  BY <1>2, <1>4
<1>9. \A a, b \in T : Token(a, b) < h
  BY <1>2, <1>4
<1>10. CASE T = {}
  BY <1>5, <1>6, <1>7, <1>10 DEF TokensFit
<1>11. CASE T # {}
  <2>1. /\ BaseToken(orig) \in Int
        /\ \A a \in T : Token(a, BaseToken(orig)) \in 1 .. h - 1
    BY <1>1, <1>7, <1>8, <1>9, <1>11, LeastToken
  <2>2. \A a \in T : Token(a, BaseToken(orig)) \in 1 .. Word - 1
    BY <1>1, <2>1
  <2> QED
    BY <1>5, <1>6, <2>1, <2>2 DEF TokensFit
<1> QED
  BY <1>10, <1>11

\* A safe state of the linker with its table of locations.
LocatedInv ==
  /\ LinkInv
  /\ WellLocated(program.words, program.locs)
  /\ pc = "linked" => locations = Condense(FinalLocations)

LEMMA LocatedBegins == Init => LocatedInv
<1> SUFFICES ASSUME Init PROVE LocatedInv
  OBVIOUS
<1>1. pc = "append" /\ program \in Programs
  BY DEF Init
<1>2. WellLocated(program.words, program.locs)
  BY <1>1, ProgramsAssumption
<1> QED
  BY <1>1, <1>2, LinkBegins DEF LocatedInv

LEMMA LocatedGoesOn == LocatedInv /\ [Next]_vars => LocatedInv'
<1> SUFFICES ASSUME LocatedInv, [Next]_vars PROVE LocatedInv'
  OBVIOUS
<1>1. LinkInv'
  <2>1. LinkInv
    BY DEF LocatedInv
  <2> QED
    BY <2>1, LinkGoesOn, Zenon
<1>2. program' = program
  BY Zenon DEF Next, AppendWord, Resolve, Measure, Shrink, CondenseLocations, vars
<1>3. WellLocated(program.words, program.locs)'
  BY <1>2 DEF LocatedInv, WellLocated
<1>4. ASSUME pc' = "linked"
      PROVE  (locations = Condense(FinalLocations))'
  <2>1. CASE CondenseLocations
    <3>1. /\ locations' = Condense(FinalLocations)
          /\ program' = program /\ final_ins_pos' = final_ins_pos
      BY <2>1 DEF CondenseLocations
    <3>2. FinalLocations' = FinalLocations
      BY <3>1 DEF FinalLocations
    <3> QED
      BY <3>1, <3>2
  <2>2. CASE UNCHANGED vars
    <3>1. /\ locations' = locations /\ pc' = pc
          /\ program' = program /\ final_ins_pos' = final_ins_pos
      BY <2>2 DEF vars
    <3>2. FinalLocations' = FinalLocations
      BY <3>1 DEF FinalLocations
    <3>3. locations = Condense(FinalLocations)
      BY <1>4, <3>1 DEF LocatedInv
    <3> QED
      BY <3>1, <3>2, <3>3
  <2>3. ~ AppendWord /\ ~ Resolve /\ ~ Measure /\ ~ Shrink
    <3>1. ASSUME Shrink PROVE pc' \in {"measure", "condense"}
      <4>1. pc = "shrink"
        BY <3>1, Zenon DEF Shrink
      <4>2. PICK at, size, planned, pw, cw : Sized(program.words, at, size, planned, pw, cw)
        BY <4>1 DEF LocatedInv, LinkInv
      <4>3. WellFormed(program.words)
        BY DEF LocatedInv, LinkInv
      <4> QED
        BY <3>1, <4>2, <4>3, ShrinkSettles
    <3>2. ~ Shrink
      BY <1>4, <3>1
    <3>3. ~ AppendWord /\ ~ Resolve /\ ~ Measure
      BY <1>4, Zenon DEF AppendWord, Resolve, Measure, LocatedInv, LinkInv
    <3> QED
      BY <3>2, <3>3
  <2> QED
    BY <2>1, <2>2, <2>3 DEF Next
<1> QED
  BY <1>1, <1>3, <1>4 DEF LocatedInv

\* The position is within instruction n, and the tokens that are to be found there.
Increasing(ins) ==
  /\ Len(ins) \in Nat
  /\ \A m, k \in 1 .. Len(ins) : ins[m] \in Nat /\ (m < k => ins[m] < ins[k])

Within(ins, n, pos) ==
  /\ n \in 0 .. Len(ins) - 1 /\ pos \in Nat /\ ins[n + 1] <= pos
  /\ n + 1 < Len(ins) => pos < ins[n + 2]

LaterThan(locs, n) == {k \in DOMAIN locs : k > n}

Expected(locs, n) == IF LaterThan(locs, n) = {} THEN <<>> ELSE locs[LeastOf(LaterThan(locs, n))]

LEMMA LookupWithin ==
  ASSUME NEW orig, NEW locs, NEW ins, NEW len \in Nat, AtHeads(orig, locs, ins, len),
         TokensFit(orig, BaseToken(orig)), Increasing(ins), NEW n, NEW pos, Within(ins, n, pos)
  PROVE  Lookup(Condense(orig), pos) = Expected(locs, n)
<1> PICK behind : behind = {k \in DOMAIN locs : k > n}
  OBVIOUS
<1>0. /\ n \in 0 .. Len(ins) - 1 /\ pos \in Nat /\ ins[n + 1] <= pos
      /\ n + 1 < Len(ins) => pos < ins[n + 2]
      /\ Len(ins) \in Nat
      /\ \A m, k \in 1 .. Len(ins) : ins[m] \in Nat /\ (m < k => ins[m] < ins[k])
  BY DEF Within, Increasing
<1> SUFFICES Lookup(Condense(orig), pos) = IF behind = {} THEN <<>> ELSE locs[LeastOf(behind)]
  BY Zenon DEF Expected, LaterThan
<1> PICK t, order, base : t = Condense(orig) /\ order = InOrder(DOMAIN orig) /\ base = BaseToken(orig)
  OBVIOUS
<1>1. DOMAIN orig \in SUBSET Nat /\ Enumerates(order, DOMAIN orig)
  BY HeadsEnumerated
<1>2. Tabled(t, order, Len(order), orig, base)
  BY <1>1, CondenseIs
<1>3. /\ (\A r \in DOMAIN orig : r <= pos) => Lookup(t, pos) = <<>>
      /\ \A r \in DOMAIN orig :
           r > pos /\ (\A q \in DOMAIN orig : q > pos => r <= q) => Lookup(t, pos) = orig[r]
  <2>1. Enumerates(order, DOMAIN orig) /\ TokensFit(orig, base) /\ Tabled(t, order, Len(order), orig, base)
        /\ pos \in Nat
    BY <1>0, <1>1, <1>2
  <2> QED
    BY <2>1, LookupIs, Zenon
<1>4. /\ \A k \in DOMAIN locs : k \in Nat /\ k + 1 \in 1 .. Len(ins) /\ orig[ins[k + 1]] = locs[k]
      /\ \A k \in DOMAIN locs : ins[k + 1] \in DOMAIN orig
      /\ \A r \in DOMAIN orig : \E k \in DOMAIN locs : r = ins[k + 1]
  BY DEF AtHeads
<1>5. n \in Nat /\ n + 1 \in 1 .. Len(ins) /\ ins[n + 1] \in Nat
  <2>1. n \in Nat /\ n + 1 \in 1 .. Len(ins)
    BY <1>0
  <2> QED
    BY <1>0, <2>1
<1>6. ASSUME NEW k \in DOMAIN locs, ~ (k > n)
      PROVE  ins[k + 1] <= pos
  <2>1. k + 1 \in 1 .. Len(ins) /\ (k + 1 < n + 1 \/ k + 1 = n + 1)
    BY <1>0, <1>4, <1>5, <1>6
  <2>2. ins[k + 1] \in Nat /\ ins[k + 1] <= ins[n + 1]
    <3>1. CASE k + 1 = n + 1
      BY <1>5, <3>1
    <3>2. CASE k + 1 < n + 1
      <4>1. ins[k + 1] \in Nat /\ ins[k + 1] < ins[n + 1]
        BY <1>0, <1>5, <2>1, <3>2
      <4> QED
        BY <1>5, <4>1
    <3> QED
      BY <2>1, <3>1, <3>2
  <2> QED
    BY <1>0, <1>5, <2>2
<1>7. CASE behind = {}
  <2>1. \A r \in DOMAIN orig : r <= pos
    BY <1>4, <1>6, <1>7
  <2>2. Lookup(t, pos) = <<>>
    BY <1>3, <2>1
  <2> QED
    BY <1>7, <2>2
<1>8. CASE behind # {}
  <2> PICK l : l = LeastOf(behind)
    OBVIOUS
  <2>1. l \in behind /\ \A k \in behind : l <= k
    <3>1. behind \in SUBSET Nat
      BY <1>4
    <3> QED
      BY <1>8, <3>1, LeastMember
  <2>2. l \in DOMAIN locs /\ l > n /\ l \in Nat /\ l + 1 \in 1 .. Len(ins)
    BY <1>4, <2>1
  <2> PICK r : r = ins[l + 1]
    OBVIOUS
  <2>3. r \in DOMAIN orig /\ orig[r] = locs[l] /\ r \in Nat
    BY <1>0, <1>4, <2>2
  <2>4. r > pos
    <3>1. n + 2 \in 1 .. Len(ins) /\ n + 1 < Len(ins) /\ (l + 1 = n + 2 \/ n + 2 < l + 1)
      BY <1>0, <1>5, <2>2
    <3>2. pos < ins[n + 2] /\ ins[n + 2] \in Nat
      BY <1>0, <3>1
    <3>3. CASE l + 1 = n + 2
      BY <3>2, <3>3
    <3>4. CASE n + 2 < l + 1
      <4>1. ins[n + 2] < ins[l + 1]
        BY <1>0, <2>2, <3>1, <3>4
      <4> QED
        BY <1>0, <2>3, <3>2, <4>1
    <3> QED
      BY <3>1, <3>3, <3>4
  <2>5. ASSUME NEW q \in DOMAIN orig, q > pos PROVE r <= q
    <3>1. PICK k \in DOMAIN locs : q = ins[k + 1]
      BY <1>4
    <3>2. k + 1 \in 1 .. Len(ins) /\ k \in Nat /\ q \in Nat
      BY <1>0, <1>4, <3>1
    <3>3. k > n
      <4>1. SUFFICES ASSUME ~ (k > n) PROVE FALSE
        OBVIOUS
      <4>2. q <= pos
        BY <1>6, <3>1, <4>1
      <4> QED
        BY <1>0, <2>5, <3>2, <4>2
    <3>4. l <= k
      BY <2>1, <3>3
    <3>5. CASE l = k
      BY <2>3, <3>1, <3>5
    <3>6. CASE l # k
      <4>1. l + 1 < k + 1
        BY <2>2, <3>2, <3>4, <3>6
      <4>2. ins[l + 1] < ins[k + 1]
        BY <1>0, <2>2, <3>2, <4>1
      <4> QED
        BY <2>3, <3>1, <3>2, <4>2
    <3> QED
      BY <3>5, <3>6
  <2>6. Lookup(t, pos) = orig[r]
    BY <1>3, <2>3, <2>4, <2>5
  <2> QED
    BY <1>8, <2>3, <2>6
<1> QED
  BY <1>7, <1>8

LEMMA LinkLocates == LocatedInv => ErrorsAreLocated
<1> SUFFICES ASSUME LocatedInv, pc = "linked" PROVE ErrorsAreLocated
  BY DEF ErrorsAreLocated
<1> PICK words, locs, ins, len : /\ words = program.words /\ locs = program.locs
                                 /\ ins = final_ins_pos /\ len = Len(code)
  OBVIOUS
<1>1. /\ WellFormed(words) /\ WellLocated(words, locs) /\ locations = Condense(FinalLocations)
      /\ \E at, cw : Settled(words, at, cw)
  BY DEF LocatedInv, LinkInv
<1>2. PICK at : Layout(at, Len(words), code) /\ Heads(words, Len(words), at, ins)
  BY <1>1 DEF Settled, Coded
<1>3. len \in Nat /\ Len(ins) \in Nat
  BY <1>2 DEF Layout, Heads
<1>4. AtHeads(FinalLocations, locs, ins, len)
  BY <1>1, <1>2, FinalLocationsAre
<1>5. TokensFit(FinalLocations, BaseToken(FinalLocations))
  BY <1>1, <1>4, LocationsFit
<1>6. \A m, k \in 1 .. Len(ins) : ins[m] \in 0 .. len /\ (m < k => ins[m] < ins[k])
  BY <1>1, <1>2, HeadsAscend
<1>7. Increasing(ins)
  BY <1>3, <1>6 DEF Increasing
<1>8. ASSUME NEW n \in 0 .. Len(ins) - 1, NEW end,
             end = (IF n + 1 < Len(ins) THEN ins[n + 2] ELSE len), NEW pos \in ins[n + 1] .. end - 1
      PROVE  Lookup(locations, pos) = Expected(locs, n)
  <2>1. n + 1 \in 1 .. Len(ins) /\ (n + 1 < Len(ins) => n + 2 \in 1 .. Len(ins))
    BY <1>3
  <2>2. ins[n + 1] \in Nat /\ end \in Nat
    BY <1>3, <1>6, <1>8, <2>1
  <2>3. pos \in Nat /\ ins[n + 1] <= pos /\ pos < end
    BY <2>2
  <2>4. n + 1 < Len(ins) => pos < ins[n + 2]
    BY <1>8, <2>3
  <2>5. Within(ins, n, pos)
    BY <2>3, <2>4 DEF Within
  <2> PICK orig : orig = FinalLocations
    OBVIOUS
  <2>6. AtHeads(orig, locs, ins, len) /\ TokensFit(orig, BaseToken(orig)) /\ locations = Condense(orig)
    BY <1>1, <1>4, <1>5
  <2>7. Lookup(Condense(orig), pos) = Expected(locs, n)
    BY <1>3, <1>7, <2>5, <2>6, LookupWithin
  <2> QED
    BY <2>6, <2>7
<1>9. ASSUME NEW n \in 0 .. Len(ins) - 1
      PROVE  \A pos \in ins[n + 1] .. (IF n + 1 < Len(ins) THEN ins[n + 2] ELSE len) - 1 :
               Lookup(locations, pos) = Expected(locs, n)
  BY <1>8
<1> QED
  BY <1>9, Zenon DEF ErrorsAreLocated, Expected, LaterThan

\* A linked program has a table in which an error anywhere within an instruction is
\* found at the block of that instruction (Locations::condense and lookup in
\* bytecode.rs), however far apart the tokens of blocks are.
THEOREM ErrorsLocated == Spec => []ErrorsAreLocated
<1>1. Spec => []LocatedInv
  BY LocatedBegins, LocatedGoesOn, PTL DEF Spec
<1> QED
  BY <1>1, LinkLocates, PTL
=============================================================================
