-------------------------------- MODULE Link --------------------------------
(***************************************************************************)
(* From instructions to bytecode (finalize in bytecode.rs).  Instructions  *)
(* are written with addresses of the greatest size, which are then         *)
(* resolved and shrunk; that moves the code, which may let more addresses  *)
(* shrink, for up to SHRINK_CYCLES rounds.                                 *)
(*                                                                         *)
(* Instructions and positions in the bytecode count from 0.                *)
(***************************************************************************)
EXTENDS Locations

CONSTANTS
  Programs,      \* the programs to link: instructions and their locations
  DataPos,       \* where each string of the pool is in the data section
  SHRINK_CYCLES

\* The words of a program: the opcode of an instruction, whose operands are the
\* words up to the next one; an address of an instruction, or of a string of
\* the pool; a u64; an i32.
Op(n) == [type |-> "op", val |-> n]
CodeRef(to) == [type |-> "code", val |-> to]
DataRef(pool) == [type |-> "data", val |-> pool]
Plain(n) == [type |-> "plain", val |-> n]
Integer(n) == [type |-> "integer", val |-> n]

Types == {"op", "code", "data", "plain", "integer"}

\* Instructions are numbered in order, addresses are of those that there are, and
\* numbers fit their words.
WellFormed(words) ==
  /\ words \in Seq([type : Types, val : Int])
  /\ words # <<>> => words[1] = Op(0)
  /\ \A i \in DOMAIN words :
       LET w == words[i]
           before == {words[h] : h \in 1 .. i - 1}
       IN  CASE w.type = "op"      -> /\ w.val \in Nat
                                      /\ w.val = 0 \/ Op(w.val - 1) \in before
                                      /\ \A o \in before : o.type = "op" => o.val < w.val
             [] w.type = "code"    -> w.val \in 0 .. Word - 1 /\ \E h \in DOMAIN words : words[h] = Op(w.val)
             [] w.type = "data"    -> w.val \in 0 .. Word - 1 /\ w.val \in DOMAIN DataPos
             [] w.type = "plain"   -> w.val \in 0 .. Word - 1
             [] w.type = "integer" -> w.val \in -Half .. Half - 1

\* Locations are of instructions that there are; tokens are integers, whose
\* differences fit an isize.
WellLocated(words, locs) ==
  /\ \A n \in DOMAIN locs : n \in Nat /\ \E i \in DOMAIN words : words[i] = Op(n)
  /\ \A n \in DOMAIN locs : locs[n] \in Seq(Int)
  /\ \A m, n \in DOMAIN locs : \A j \in DOMAIN locs[m], k \in DOMAIN locs[n] :
       Token(locs[m][j], locs[n][k]) < Word \div 2

ASSUME CyclesAssumption == SHRINK_CYCLES \in Nat
ASSUME DataAssumption == \A pool \in DOMAIN DataPos : DataPos[pool] \in 0 .. Word - 1
ASSUME ProgramsAssumption ==
  \A p \in Programs : WellFormed(p.words) /\ WellLocated(p.words, p.locs)

VARIABLES
  program,          \* what is linked
  word,             \* how many of its words have been appended
  code,             \* the bytes
  final_ins_pos,    \* where each instruction begins
  relocate_info,    \* the addresses that instructions were written with
  final_relocates,  \* where in the code the addresses of code are
  plan,             \* shrinking_plan: places of addresses, old and new sizes
  delta,            \* the bytes that the last plan saved
  cycles,           \* the rounds that are left
  locations,        \* the table of locations
  pc

vars == <<program, word, code, final_ins_pos, relocate_info, final_relocates,
          plan, delta, cycles, locations, pc>>

\* The first byte of an instruction; each has its own so that we can tell them
\* apart.
Opcode(n) == 2 * Base * (n + 1)

Init ==
  /\ program \in Programs
  /\ word = 0
  /\ code = <<>>
  /\ final_ins_pos = <<>>
  /\ relocate_info = <<>>
  /\ final_relocates = <<>>
  /\ plan = <<>>
  /\ delta = 0
  /\ cycles = SHRINK_CYCLES
  /\ locations = Condense(<<>>)
  /\ pc = "append"

Addresses == {"code", "data"}

\* BinaryWrite: a number has its smallest size, what the linker has to resolve
\* the greatest.
Encoded(w) ==
  CASE w.type = "op"         -> <<Opcode(w.val)>>
    [] w.type = "plain"      -> EncodeU64(w.val)
    [] w.type = "integer"    -> EncodeI32(w.val)
    [] w.type \in Addresses -> EncodeIn(w.val, MaxBlocks)

\* The loop over instructions: the next word is appended.  Positions in the code
\* are words.
AppendWord ==
  /\ pc = "append" /\ word < Len(program.words)
  /\ LET w == program.words[word + 1]
     IN  /\ Len(code) + Len(Encoded(w)) < Word
         /\ code' = code \o Encoded(w)
         /\ final_ins_pos' = IF w.type = "op" THEN Append(final_ins_pos, Len(code))
                                             ELSE final_ins_pos
         /\ relocate_info' = IF w.type \in Addresses
                              THEN Append(relocate_info, [type |-> w.type, addr |-> Len(code)])
                              ELSE relocate_info
  /\ word' = word + 1
  /\ UNCHANGED <<program, final_relocates, plan, delta, cycles, locations, pc>>

Patched(bytes, addr, buf) ==
  [p \in DOMAIN bytes |->
    IF p \in addr + 1 .. addr + Len(buf) THEN buf[p - addr] ELSE bytes[p]]

\* An address of the given size is put in place in its smallest size; the bytes
\* left over stay until the plan is applied.
Shorten(o, addr, size, val) ==
  LET buf == EncodeU64(val)
  IN  [o EXCEPT !.code = Patched(@, addr, buf),
                !.plan = Append(@, [addr |-> addr, prev |-> size, new |-> Len(buf)])]

\* One address: that of an instruction becomes its address in the code as it is
\* now, and is to be moved; that of a string becomes the one in the data.
ResolveOne(o, info) ==
  LET read == DecodeU64(o.code, info.addr)
      size == read.aft - info.addr
  IN  IF info.type = "code"
        THEN [Shorten(o, info.addr, size, final_ins_pos[read.val + 1]) EXCEPT
               !.relocates = Append(@, info.addr)]
        ELSE Shorten(o, info.addr, size, DataPos[read.val])

\* The loop over relocate_info.
Resolve ==
  /\ pc = "append" /\ word = Len(program.words)
  /\ LET n == Len(relocate_info)
         after[k \in 0 .. n] ==
           IF k = 0 THEN [code |-> code, plan |-> <<>>, relocates |-> <<>>]
                    ELSE ResolveOne(after[k - 1], relocate_info[k])
     IN  /\ code' = after[n].code
         /\ plan' = after[n].plan
         /\ final_relocates' = after[n].relocates
  /\ pc' = "shrink"
  /\ UNCHANGED <<program, word, final_ins_pos, relocate_info, delta, cycles, locations>>

MeasureOne(o, addr) ==
  LET read == DecodeU64(o.code, addr)
  IN  Shorten(o, addr, read.aft - addr, read.val)

\* The plan of a further round: addresses that have become smaller.
Measure ==
  /\ pc = "measure"
  /\ LET n == Len(final_relocates)
         after[k \in 0 .. n] ==
           IF k = 0 THEN [code |-> code, plan |-> <<>>]
                    ELSE MeasureOne(after[k - 1], final_relocates[k])
     IN  /\ code' = after[n].code
         /\ plan' = after[n].plan
  /\ cycles' = cycles - 1
  /\ pc' = "shrink"
  /\ UNCHANGED <<program, word, final_ins_pos, relocate_info, final_relocates, delta,
                 locations>>

\* slice::copy_within.
CopyWithin(bytes, from, to, dest) ==
  [p \in DOMAIN bytes |->
    IF p - dest \in 1 .. to - from THEN bytes[p - dest + from] ELSE bytes[p]]

\* Mutant of MoveCode: goes on behind the new size, not the old one.
MoveCodeOfNewSize(o, p) ==
  [o EXCEPT !.code = CopyWithin(@, o.src, p.addr + p.new, o.dest),
            !.dest = @ + p.addr + p.new - o.src,
            !.src = p.addr + p.new]

\* The code up to an address, with its new size, moves to the front.
MoveCode(o, p) ==
  [o EXCEPT !.code = CopyWithin(@, o.src, p.addr + p.new, o.dest),
            !.dest = @ + p.addr + p.new - o.src,
            !.src = p.addr + p.prev]

\* The loop over the plan: the code, the instructions behind the address, and
\* the address itself move.
ShrinkOne(o, p) ==
  LET saved == p.prev - p.new
      moved == MoveCode(o, p)
  IN  [moved EXCEPT
        !.ok = @ /\ p.prev >= p.new /\ p.addr >= o.src,
        !.shift = @ + saved,
        !.ins = [n \in DOMAIN @ |->
                  IF final_ins_pos[n] > p.addr THEN @[n] - saved ELSE @[n]],
        !.holes = [k \in DOMAIN @ |->
                    IF final_relocates[k] = p.addr THEN moved.dest - p.new ELSE @[k]]]

\* The first loop of apply_shrinking_plan, and the code behind the last address.
Shrunk ==
  LET n == Len(plan)
      after[k \in 0 .. n] ==
        IF k = 0
          THEN [code |-> code, dest |-> 0, src |-> 0, shift |-> 0, ok |-> TRUE,
                ins |-> final_ins_pos, holes |-> [h \in DOMAIN final_relocates |-> -1]]
          ELSE ShrinkOne(after[k - 1], plan[k])
      end  == after[n]
      size == Len(code) - end.shift
  IN  [end EXCEPT !.code = SubSeq(CopyWithin(@, end.src, end.src + size - end.dest, end.dest),
                                  1, size)]

\* The second loop: an address is that of an instruction, which has moved; the
\* new one is written in the size that the old one has.
Readdressed(o, hole) ==
  LET old == DecodeU64(o.code, hole)
      ins == {n \in DOMAIN final_ins_pos : final_ins_pos[n] = old.val}
      new == o.ins[CHOOSE n \in ins : TRUE]
  IN  IF ins = {} \/ Blocks(new) > old.aft - hole
        THEN [o EXCEPT !.ok = FALSE]
        ELSE [o EXCEPT !.code = Patched(@, hole, EncodeIn(new, old.aft - hole))]

\* Mutant of Again: the test for progress is the wrong way round.
AgainIfStuck(shift) ==
  cycles > 0 /\ (cycles = SHRINK_CYCLES \/ shift = 0)

\* Whether there is another round; the first one is never left out.
Again(shift) ==
  cycles > 0 /\ (cycles = SHRINK_CYCLES \/ shift > 0)

\* apply_shrinking_plan.
Shrink ==
  /\ pc = "shrink"
  /\ LET moved == Shrunk
         n == Len(moved.holes)
         after[k \in 0 .. n] ==
           IF k = 0 THEN moved ELSE Readdressed(after[k - 1], moved.holes[k])
         end == after[n]
     IN  /\ code' = end.code
         /\ final_ins_pos' = end.ins
         /\ final_relocates' = end.holes
         /\ delta' = end.shift
         /\ pc' = CASE ~end.ok -> "panic"
                    [] end.ok /\ Again(end.shift) -> "measure"
                    [] end.ok /\ ~Again(end.shift) -> "condense"
  /\ UNCHANGED <<program, word, relocate_info, plan, cycles, locations>>

\* The locations of instructions become locations of positions in the code.
FinalLocations ==
  [pos \in {final_ins_pos[n + 1] : n \in DOMAIN program.locs} |->
    program.locs[CHOOSE n \in DOMAIN program.locs : final_ins_pos[n + 1] = pos]]

CondenseLocations ==
  /\ pc = "condense"
  /\ locations' = Condense(FinalLocations)
  /\ pc' = "linked"
  /\ UNCHANGED <<program, word, code, final_ins_pos, relocate_info, final_relocates,
                 plan, delta, cycles>>

Next ==
  AppendWord \/ Resolve \/ Measure \/ Shrink \/ CondenseLocations

Spec == Init /\ [][Next]_vars
-----------------------------------------------------------------------------
\* Reads a word at a position: the position behind it, or none if this is not
\* the word that was compiled, or if an instruction does not begin where it is
\* said to.
ReadAs(read, val) == IF read.val = val THEN read.aft ELSE -1

ReadWord(pos, w) ==
  CASE pos \notin 0 .. Len(code) - 1 -> -1
    [] pos \in 0 .. Len(code) - 1 /\ w.type = "op" ->
         IF pos = final_ins_pos[w.val + 1] /\ code[pos + 1] = Opcode(w.val) THEN pos + 1 ELSE -1
    [] pos \in 0 .. Len(code) - 1 /\ w.type = "code" ->
         ReadAs(DecodeU64(code, pos), final_ins_pos[w.val + 1])
    [] pos \in 0 .. Len(code) - 1 /\ w.type = "data" -> ReadAs(DecodeU64(code, pos), DataPos[w.val])
    [] pos \in 0 .. Len(code) - 1 /\ w.type = "plain" -> ReadAs(DecodeU64(code, pos), w.val)
    [] pos \in 0 .. Len(code) - 1 /\ w.type = "integer" -> ReadAs(DecodeI32(code, pos), w.val)

\* After every round the code reads as the instructions that were compiled,
\* one behind the other: each with its numbers, up to the limits of their
\* words, with the address of its string, and with the address at which the
\* instruction it refers to begins now.  No assertion of the linker fails on
\* the way, and every address that is to be moved is that of an instruction.
CodeReadsAsCompiled ==
  /\ pc # "panic"
  /\ pc \in {"measure", "condense", "linked"} =>
       LET n == Len(program.words)
           aft[i \in 0 .. n] == IF i = 0 THEN 0 ELSE ReadWord(aft[i - 1], program.words[i])
       IN  aft[n] = Len(code)

\* Unless the linker has run out of rounds while it still saved bytes, no
\* address can be any shorter: the addresses are mutually right at their
\* smallest sizes.
StopsWhenSmallest ==
  pc \in {"condense", "linked"} /\ (cycles > 0 \/ delta = 0) =>
    \A k \in DOMAIN final_relocates :
      LET read == DecodeU64(code, final_relocates[k])
      IN  read.aft - final_relocates[k] = Blocks(read.val)

\* An error anywhere within an instruction is reported at the block that the
\* instruction belongs to: the first whose code ends behind it.
ErrorsAreLocated ==
  pc = "linked" =>
    \A n \in 0 .. Len(final_ins_pos) - 1 :
      LET end    == IF n + 1 < Len(final_ins_pos) THEN final_ins_pos[n + 2] ELSE Len(code)
          behind == {k \in DOMAIN program.locs : k > n}
      IN  \A pos \in final_ins_pos[n + 1] .. end - 1 :
            Lookup(locations, pos) =
              IF behind = {} THEN <<>> ELSE program.locs[LeastOf(behind)]
=============================================================================
