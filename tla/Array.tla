------------------------------- MODULE Array --------------------------------
(***************************************************************************)
(* The storage of one JSON array (array.rs): a table with room for size    *)
(* values, of which the first entries are in use.  Growing allocates a     *)
(* second table; what is not copied to it holds whatever the memory held.  *)
(*                                                                         *)
(* An array is used by one thread at a time, so a call is one step.  What  *)
(* becomes of the references is modelled in RefCount; here a call that is  *)
(* refused, for its arguments or for want of memory, changes nothing.      *)
(***************************************************************************)
EXTENDS Integers, Sequences

CONSTANTS
  Values,           \* the values that are stored
  Others,           \* the contents of the other arrays of the program
  InitialCapacity,  \* INITIAL_ARRAY_CAPACITY
  PointerSize,      \* size_of::<*mut json_t>()
  MaxSize,          \* usize::MAX
  Null,
  Garbage           \* what an uninitialised slot holds

ASSUME ValuesAssumption == {Null, Garbage} \cap Values = {}
ASSUME OthersAssumption == Others \subseteq Seq(Values)
ASSUME SizesAssumption ==
  /\ InitialCapacity \in Nat \ {0}
  /\ PointerSize \in Nat \ {0}
  /\ MaxSize \in Nat
  /\ InitialCapacity * PointerSize <= MaxSize

VARIABLES
  size,     \* capacity of the table
  entries,  \* slots in use
  table     \* the slots, indexed from 0

vars == <<size, entries, table>>

Slots == Values \cup {Null, Garbage}

Uninitialised(n) == [i \in 0 .. n - 1 |-> Garbage]

\* array_copy between tables, and array_move inside one: memcpy and memmove.
Copy(dest, dpos, src, spos, count) ==
  [i \in DOMAIN dest |->
     IF i \in dpos .. dpos + count - 1 THEN src[spos + (i - dpos)] ELSE dest[i]]

Store(t, i, v) == [t EXCEPT ![i] = v]

\* json_array()
Init ==
  /\ size = InitialCapacity
  /\ entries = 0
  /\ table = Uninitialised(InitialCapacity)

-----------------------------------------------------------------------------
Larger(a, b) == IF a >= b THEN a ELSE b

\* The tests of array_grow.
Fits(amount) == entries + amount <= size

\* Mutant: the products that are compared with usize::MAX wrap around.
MayGrowWrapping(amount) == entries + amount <= MaxSize

\* checked_add and checked_mul: the sizes array_grow computes are in range.
MayGrow(amount) ==
  /\ entries + amount <= MaxSize
  /\ size + amount <= MaxSize
  /\ size * 2 <= MaxSize
  /\ Larger(size + amount, size * 2) * PointerSize <= MaxSize

GrownSize(amount) == Larger(size + amount, size * 2)

\* The capacity array_grow ends with where it succeeds.
NewSize(amount) == IF Fits(amount) THEN size ELSE GrownSize(amount)

CanHold(amount) == Fits(amount) \/ MayGrow(amount)

\* array_grow(amount, copy_existing = true)
GrownTable(amount) ==
  IF Fits(amount) THEN table
  ELSE Copy(Uninitialised(NewSize(amount)), 0, table, 0, entries)

-----------------------------------------------------------------------------
SetNew(i, v) ==
  /\ i < entries
  /\ table' = Store(table, i, v)
  /\ UNCHANGED <<size, entries>>

AppendNew(v) ==
  /\ CanHold(1)
  /\ size' = NewSize(1)
  /\ table' = Store(GrownTable(1), entries, v)
  /\ entries' = entries + 1

\* Mutant: with a new table the part behind the gap is copied to its old
\* place.
OpenGapShort(i) ==
  IF Fits(1) THEN Copy(table, i + 1, table, i, entries - i)
  ELSE Copy(Uninitialised(NewSize(1)), 0, table, 0, entries)

\* array_grow(1, copy_existing = false): the old table is moved in place, or
\* copied to the new one in two parts that leave the gap.
OpenGap(i) ==
  IF Fits(1) THEN Copy(table, i + 1, table, i, entries - i)
  ELSE Copy(Copy(Uninitialised(NewSize(1)), 0, table, 0, i),
            i + 1, table, i, entries - i)

InsertNew(i, v) ==
  /\ i <= entries
  /\ CanHold(1)
  /\ size' = NewSize(1)
  /\ table' = Store(OpenGap(i), i, v)
  /\ entries' = entries + 1

\* Mutant: nothing is moved when the last value but one is removed.
RemoveMovesLess(i) ==
  /\ i < entries
  /\ LET moved == IF i < entries - 2
                  THEN Copy(table, i, table, i + 1, entries - i - 1) ELSE table
     IN  table' = Store(moved, entries - 1, Null)
  /\ entries' = entries - 1
  /\ UNCHANGED size

Remove(i) ==
  /\ i < entries
  /\ LET moved == IF i < entries - 1
                  THEN Copy(table, i, table, i + 1, entries - i - 1) ELSE table
     IN  table' = Store(moved, entries - 1, Null)
  /\ entries' = entries - 1
  /\ UNCHANGED size

Clear ==
  /\ table' = [i \in DOMAIN table |-> IF i < entries THEN Null ELSE table[i]]
  /\ entries' = 0
  /\ UNCHANGED size

\* The loop of json_array_extend: the other table is read from index 0 while
\* this one is written from start on.
Appended(t, source, count) ==
  [i \in DOMAIN t |-> IF i \in entries .. entries + count - 1
                      THEN source[i - entries] ELSE t[i]]

ExtendOther(o) ==
  /\ CanHold(Len(o))
  /\ size' = NewSize(Len(o))
  /\ table' = Appended(GrownTable(Len(o)), [i \in 0 .. Len(o) - 1 |-> o[i + 1]], Len(o))
  /\ entries' = entries + Len(o)

\* The other array is this one, whose table has been replaced by then.
ExtendSelf ==
  /\ CanHold(entries)
  /\ size' = NewSize(entries)
  /\ table' = Appended(GrownTable(entries), GrownTable(entries), entries)
  /\ entries' = entries + entries

Next ==
  \/ \E i \in 0 .. entries, v \in Values : SetNew(i, v) \/ InsertNew(i, v)
  \/ \E v \in Values : AppendNew(v)
  \/ \E i \in 0 .. entries : Remove(i)
  \/ Clear
  \/ \E o \in Others : ExtendOther(o)
  \/ ExtendSelf

Spec == Init /\ [][Next]_vars

-----------------------------------------------------------------------------
TypeOK ==
  /\ size \in Nat
  /\ entries \in Nat
  /\ table \in [0 .. size - 1 -> Slots]

\* The slots in use lie inside the table and hold values: json_array_get, the
\* loops over an array and delete_array never follow a null pointer or what
\* an uninitialised slot held.
SlotsInUseHoldValues ==
  /\ entries <= size
  /\ \A i \in 0 .. entries - 1 : table[i] \in Values

\* The size of the table in bytes is a usize, so the product that is given to
\* the allocator never wraps to a smaller one.
TableAddressable == size * PointerSize <= MaxSize

\* A slot that is given up forgets its value: no reference to a value that
\* may have been freed stays behind in the table.
NoStaleSlots == \A i \in entries .. size - 1 : table[i] \in {Null, Garbage}

\* The array is the sequence of the values in use.
Contents == [j \in 1 .. entries |-> table[j - 1]]
AsSequence == INSTANCE ValueSequence WITH seq <- Contents
RefinesSequence == AsSequence!Spec

\* Each call does to the sequence what its arguments say.
EachCallRefines ==
  [][/\ \A i \in 0 .. entries, v \in Values :
          /\ SetNew(i, v) => AsSequence!Put(i, v)
          /\ InsertNew(i, v) => AsSequence!Insert(i, v)
     /\ \A v \in Values : AppendNew(v) => AsSequence!Insert(entries, v)
     /\ \A i \in 0 .. entries : Remove(i) => AsSequence!Remove(i)
     /\ Clear => AsSequence!Clear
     /\ \A o \in Others : ExtendOther(o) => AsSequence!Extend(o)
     /\ ExtendSelf => AsSequence!Extend(Contents)]_vars
=============================================================================
