------------------------------- MODULE SlotMap -------------------------------
(***************************************************************************)
(* The generational container of slotmap.rs, which holds the processes of  *)
(* a project.  A slot is reused after its value is gone, under a larger    *)
(* generation, so that a key is a pair <<slot, generation>>; slots are     *)
(* numbered from 0 in keys, as in the code, and from 1 in the sequence.    *)
(***************************************************************************)
EXTENDS Integers, Sequences, FiniteSets, IndexOrder

CONSTANTS
  Value,          \* the values stored
  None,           \* Option::None
  MaxSlots,       \* bound: slots the map may grow to
  MaxGeneration   \* bound: times a slot may be vacated

ASSUME ValueAssumption == None \notin Value
ASSUME BoundAssumption == MaxSlots \in Nat /\ MaxGeneration \in Nat

VARIABLES
  slots,        \* Vec<Slot>: value and generation of each slot
  empty_slots,  \* Vec<usize>: vacant slots, reused last-in first-out
  num_values,   \* the cached number of occupied slots
  ret           \* what the last call returned

vars == <<slots, empty_slots, num_values, ret>>

Slot == [value : Value \union {None}, generation : 0 .. MaxGeneration]

\* Every key that can be issued within the bounds, and some that point past
\* the last slot; callers try all of them.
Key == (0 .. MaxSlots) \X (0 .. MaxGeneration)

\* Mutant of Current: ignores the generation.
InVector(k) == k[1] < Len(slots)

\* The slot a key points at is in the vector and of the key's generation.
Current(k) == k[1] < Len(slots) /\ slots[k[1] + 1].generation = k[2]

Lookup(k) == IF Current(k) THEN slots[k[1] + 1].value ELSE None

Init ==
  /\ slots = <<>>
  /\ empty_slots = <<>>
  /\ num_values = 0
  /\ ret = None

\* Mutant of InsertReuse: the slot starts over at generation 0.
InsertFreshSlot(v) ==
  /\ empty_slots # <<>>
  /\ LET slot == empty_slots[Len(empty_slots)]
     IN  /\ empty_slots' = SubSeq(empty_slots, 1, Len(empty_slots) - 1)
         /\ slots' = [slots EXCEPT ![slot + 1] = [value |-> v, generation |-> 0]]
         /\ ret' = <<slot, 0>>
  /\ num_values' = num_values + 1

\* Mutant of InsertReuse: the free list keeps the slot.
InsertReuseWithoutPop(v) ==
  /\ empty_slots # <<>>
  /\ LET slot == empty_slots[Len(empty_slots)]
     IN  /\ slots' = [slots EXCEPT ![slot + 1].value = v]
         /\ ret' = <<slot, slots[slot + 1].generation>>
  /\ num_values' = num_values + 1
  /\ UNCHANGED empty_slots

\* insert() when a vacant slot is left: the most recently vacated is reused.
InsertReuse(v) ==
  /\ empty_slots # <<>>
  /\ LET slot == empty_slots[Len(empty_slots)]
     IN  /\ empty_slots' = SubSeq(empty_slots, 1, Len(empty_slots) - 1)
         /\ slots' = [slots EXCEPT ![slot + 1].value = v]
         /\ ret' = <<slot, slots[slot + 1].generation>>
  /\ num_values' = num_values + 1

\* insert() when none is left: the vector grows by a slot of generation 0.
InsertGrow(v) ==
  /\ empty_slots = <<>>
  /\ Len(slots) < MaxSlots
  /\ slots' = Append(slots, [value |-> v, generation |-> 0])
  /\ ret' = <<Len(slots), 0>>
  /\ num_values' = num_values + 1
  /\ UNCHANGED empty_slots

Insert(v) == InsertReuse(v) \/ InsertGrow(v)

\* A slot that loses its value also leaves the generation of its keys.
Vacated(slot) == [value |-> None, generation |-> slot.generation + 1]

\* remove(): only a key of the current generation takes the value out.
Remove(k) ==
  /\ ret' = Lookup(k)
  /\ IF Lookup(k) # None
       THEN /\ k[2] < MaxGeneration
            /\ slots' = [slots EXCEPT ![k[1] + 1] = Vacated(@)]
            /\ empty_slots' = Append(empty_slots, k[1])
            /\ num_values' = num_values - 1
       ELSE UNCHANGED <<slots, empty_slots, num_values>>

Occupied == {i \in 0 .. Len(slots) - 1 : slots[i + 1].value # None}

\* clear(): every occupied slot is vacated, in slot order.
Clear ==
  /\ \A i \in Occupied : slots[i + 1].generation < MaxGeneration
  /\ slots' = [n \in DOMAIN slots |->
                 IF n - 1 \in Occupied THEN Vacated(slots[n]) ELSE slots[n]]
  /\ empty_slots' = empty_slots \o InOrder(Occupied)
  /\ num_values' = 0
  /\ ret' = None

Get(k) ==
  /\ ret' = Lookup(k)
  /\ UNCHANGED <<slots, empty_slots, num_values>>

\* get_mut() followed by a write through the reference it returned.
GetMut(k, v) ==
  /\ ret' = Lookup(k)
  /\ slots' = IF Lookup(k) # None
                THEN [slots EXCEPT ![k[1] + 1].value = v] ELSE slots
  /\ UNCHANGED <<empty_slots, num_values>>

Next ==
  \/ \E v \in Value : Insert(v)
  \/ \E k \in Key : Remove(k) \/ Get(k)
  \/ \E k \in Key, v \in Value : GetMut(k, v)
  \/ Clear

Spec == Init /\ [][Next]_vars
-----------------------------------------------------------------------------
\* The variables hold what the struct's fields may hold.
TypeOK ==
  /\ slots \in Seq(Slot)
  /\ Len(slots) <= MaxSlots
  /\ empty_slots \in Seq(Nat)
  /\ num_values \in Nat
  /\ ret \in Value \union {None} \union Key

\* The free list names every vacant slot exactly once and no occupied one.
FreeListExact ==
  /\ \A a \in DOMAIN empty_slots :
        empty_slots[a] \in (0 .. Len(slots) - 1) \ Occupied
  /\ \A a, b \in DOMAIN empty_slots : empty_slots[a] = empty_slots[b] => a = b
  /\ \A i \in (0 .. Len(slots) - 1) \ Occupied :
        \E a \in DOMAIN empty_slots : empty_slots[a] = i

\* The cached counter len() reports is the number of values stored.
CountExact == num_values = Cardinality(Occupied)

\* insert() never overwrites a value (its two debug_assert!s) and never forgets
\* a slot, and len() is right: the invariant() that the tests assert around
\* every call, after every order of calls.
SlotsExact == FreeListExact /\ CountExact

\* Keys that reach a value, and the keys insert() has returned so far.
LiveKeys == {<<i, slots[i + 1].generation>> : i \in Occupied}
Live == [k \in LiveKeys |-> slots[k[1] + 1].value]
Issued == {k \in Key : /\ k[1] < Len(slots)
                       /\ \/ k[2] < slots[k[1] + 1].generation
                          \/ k \in LiveKeys}

\* "It is guaranteed that all future accesses with the removed key will return
\* None" (remove()'s doc): a key once issued and no longer live stays dead,
\* however often its slot is reused or the map cleared.
DeadKeysStayDead == [][Issued \ LiveKeys \subseteq Issued' \ LiveKeys']_vars

\* The map keeps the promise of the keyed store, with its return values.
Store == INSTANCE KeyedStore WITH live <- Live, issued <- Issued
ImplementsStore == Store!Spec
=============================================================================
