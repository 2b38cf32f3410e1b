------------------------------- MODULE Varint -------------------------------
(***************************************************************************)
(* Variable-width integers of the bytecode (bytecode.rs).  A number is cut *)
(* into groups of bits, the lowest first; a byte is a group and a flag     *)
(* that says that another byte follows.  Positions count from 0.           *)
(***************************************************************************)
EXTENDS Integers, Sequences

CONSTANTS
  GroupBits,  \* the bits of a number in one byte: 7
  WordBits,   \* the width of a number: 64
  IntBits,    \* the width of a signed number: 32
  MaxBlocks   \* MAX_U64_ENCODED_BYTES: 10

ASSUME WidthAssumption ==
  /\ GroupBits \in Nat \ {0} /\ IntBits \in Nat \ {0}
  /\ WordBits \in Nat /\ WordBits > IntBits /\ WordBits >= GroupBits
  /\ MaxBlocks = (WordBits + GroupBits - 1) \div GroupBits

Base == 2 ^ GroupBits
Word == 2 ^ WordBits
Half == 2 ^ (IntBits - 1)

LeastOf(S) == CHOOSE x \in S : \A y \in S : x <= y

\* The bits that are left without the leading zeros.
Bits(val) == LeastOf({n \in 0 .. WordBits : val < 2 ^ n})

Blocks(val) ==
  IF val = 0 THEN 1 ELSE (Bits(val) + GroupBits - 1) \div GroupBits

\* encode_u64 with a size: the number is shifted by a group for each byte, and
\* the last byte is not masked.
EncodeIn(val, blocks) ==
  [k \in 1 .. blocks |->
    LET rest == val \div 2 ^ (GroupBits * (k - 1))
    IN  IF k < blocks THEN (rest % Base) + Base ELSE rest % (2 * Base)]

\* encode_u64 without a size.
EncodeU64(val) == EncodeIn(val, Blocks(val))

\* decode_u64: the number, and the position after it.
DecodeU64(data, start) ==
  LET ends == {p \in start + 1 .. Len(data) : data[p] < Base}
      aft  == IF ends = {} THEN Len(data) ELSE LeastOf(ends)
      from[p \in start .. aft] ==
        IF p = aft THEN 0
                   ELSE (from[p + 1] * Base + (data[p + 1] % Base)) % Word
  IN  [val |-> from[start], aft |-> aft]

\* A signed number: shifted by one, its low bit a flag for a bitwise not.
EncodeI32(val) ==
  LET shifted == (2 * val) % Word
  IN  EncodeU64(IF shifted < Word \div 2 THEN shifted ELSE Word - 1 - shifted)

DecodeI32(data, start) ==
  LET raw == DecodeU64(data, start)
      v   == (raw.val \div 2) % (2 * Half)
      u   == IF raw.val % 2 = 0 THEN v ELSE 2 * Half - 1 - v
  IN  [val |-> IF u < Half THEN u ELSE u - 2 * Half, aft |-> raw.aft]
=============================================================================
