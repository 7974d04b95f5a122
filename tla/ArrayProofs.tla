---------------------------- MODULE ArrayProofs -----------------------------
(***************************************************************************)
(* Proofs about Array, for all values of its constants: its invariants,    *)
(* and that it implements ValueSequence.                                   *)
(***************************************************************************)
EXTENDS Array, SequenceTheorems, TLAPS

\* Each part but the bound on memory needs the first two to be inductive; the
\* bound needs only itself.
Inv == TypeOK /\ SlotsInUseHoldValues /\ TableAddressable /\ NoStaleSlots

\* array_grow makes room for what was asked, and the room is addressable.
LEMMA GrowSuffices ==
  ASSUME Inv, NEW n \in Nat, CanHold(n)
  PROVE  /\ NewSize(n) \in Nat
         /\ size <= NewSize(n)
         /\ entries + n <= NewSize(n)
         /\ NewSize(n) * PointerSize <= MaxSize
  BY SizesAssumption
  DEF Inv, TypeOK, SlotsInUseHoldValues, TableAddressable, CanHold, NewSize,
      MayGrow, Fits, GrownSize, Larger

\* The grown table has the capacity that was computed and keeps every slot in
\* use; behind them nothing is stale.
LEMMA GrowKeeps ==
  ASSUME Inv, NEW n \in Nat, CanHold(n)
  PROVE  /\ GrownTable(n) \in [0 .. NewSize(n) - 1 -> Slots]
         /\ \A i \in 0 .. entries - 1 : GrownTable(n)[i] = table[i]
         /\ \A i \in entries .. NewSize(n) - 1 : GrownTable(n)[i] \in {Null, Garbage}
<1>1. /\ NewSize(n) \in Nat
      /\ size <= NewSize(n)
  BY GrowSuffices
<1>2. CASE Fits(n)
  BY <1>2 DEF Inv, TypeOK, SlotsInUseHoldValues, NoStaleSlots, GrownTable, NewSize
<1>3. CASE ~Fits(n)
  <2>1. GrownTable(n) = Copy(Uninitialised(NewSize(n)), 0, table, 0, entries)
    BY <1>3 DEF GrownTable
  <2>2. GrownTable(n) = [i \in 0 .. NewSize(n) - 1 |->
                           IF i \in 0 .. entries - 1 THEN table[i] ELSE Garbage]
    BY <2>1, <1>1 DEF Copy, Uninitialised, Inv, TypeOK
  <2> QED
    BY <2>2, <1>1 DEF Inv, TypeOK, SlotsInUseHoldValues, Slots
<1> QED BY <1>2, <1>3

\* What InsertNew leaves in the table: the gap is filled and what was behind
\* it has moved one place up, in the old table as in a new one.
LEMMA GapOpens ==
  ASSUME Inv, NEW i \in 0 .. entries, CanHold(1)
  PROVE  /\ OpenGap(i) \in [0 .. NewSize(1) - 1 -> Slots]
         /\ \A j \in 0 .. i - 1 : OpenGap(i)[j] = table[j]
         /\ \A j \in i + 1 .. entries : OpenGap(i)[j] = table[j - 1]
         /\ \A j \in entries + 1 .. NewSize(1) - 1 : OpenGap(i)[j] \in {Null, Garbage}
<1>1. /\ NewSize(1) \in Nat
      /\ size <= NewSize(1)
      /\ entries + 1 <= NewSize(1)
  BY GrowSuffices
<1>2. CASE Fits(1)
  <2>1. OpenGap(i) = [j \in 0 .. size - 1 |->
                        IF j \in i + 1 .. entries THEN table[j - 1] ELSE table[j]]
    BY <1>2 DEF OpenGap, Copy, Inv, TypeOK
  <2>2. NewSize(1) = size
    BY <1>2 DEF NewSize
  <2> QED
    BY <2>1, <2>2, <1>1 DEF Inv, TypeOK, SlotsInUseHoldValues, NoStaleSlots, Slots
<1>3. CASE ~Fits(1)
  <2>1. OpenGap(i) = Copy(Copy(Uninitialised(NewSize(1)), 0, table, 0, i),
                          i + 1, table, i, entries - i)
    BY <1>3 DEF OpenGap
  <2>2. Copy(Uninitialised(NewSize(1)), 0, table, 0, i)
          = [j \in 0 .. NewSize(1) - 1 |->
               IF j \in 0 .. i - 1 THEN table[j] ELSE Garbage]
    BY <1>1 DEF Copy, Uninitialised, Inv, TypeOK
  <2>3. OpenGap(i) = [j \in 0 .. NewSize(1) - 1 |->
                        IF j \in i + 1 .. entries THEN table[j - 1]
                        ELSE IF j \in 0 .. i - 1 THEN table[j] ELSE Garbage]
    <3> DEFINE A == Copy(Uninitialised(NewSize(1)), 0, table, 0, i)
    <3>1. OpenGap(i) = Copy(A, i + 1, table, i, entries - i)
      BY <2>1
    <3>2. DOMAIN A = 0 .. NewSize(1) - 1
      BY <2>2
    <3>3. OpenGap(i) = [j \in 0 .. NewSize(1) - 1 |->
                          IF j \in i + 1 .. i + 1 + (entries - i) - 1
                          THEN table[i + (j - (i + 1))] ELSE A[j]]
      <4> HIDE DEF A
      <4> QED BY <3>1, <3>2 DEF Copy
    <3>4. ASSUME NEW j \in 0 .. NewSize(1) - 1
          PROVE  A[j] = IF j \in 0 .. i - 1 THEN table[j] ELSE Garbage
      BY <2>2
    <3>5. /\ i + 1 + (entries - i) - 1 = entries
          /\ \A j \in i + 1 .. entries : i + (j - (i + 1)) = j - 1
      BY DEF Inv, TypeOK
    <3> HIDE DEF A
    <3> QED BY <3>3, <3>4, <3>5, <1>1
  <2> QED
    BY <2>3, <1>1 DEF Inv, TypeOK, SlotsInUseHoldValues, Slots
<1> QED BY <1>2, <1>3

-----------------------------------------------------------------------------
(* What each call does to the slots.                                       *)

LEMMA AppendKeeps ==
  ASSUME Inv, NEW v \in Values, AppendNew(v)
  PROVE  /\ Inv'
         /\ entries' = entries + 1
         /\ \A i \in 0 .. entries - 1 : table'[i] = table[i]
         /\ table'[entries] = v
<1>1. /\ CanHold(1)
      /\ size' = NewSize(1)
      /\ table' = Store(GrownTable(1), entries, v)
      /\ entries' = entries + 1
  BY DEF AppendNew
<1>2. /\ NewSize(1) \in Nat
      /\ entries + 1 <= NewSize(1)
      /\ NewSize(1) * PointerSize <= MaxSize
  BY <1>1, GrowSuffices
<1>3. /\ GrownTable(1) \in [0 .. NewSize(1) - 1 -> Slots]
      /\ \A i \in 0 .. entries - 1 : GrownTable(1)[i] = table[i]
      /\ \A i \in entries .. NewSize(1) - 1 : GrownTable(1)[i] \in {Null, Garbage}
  BY <1>1, GrowKeeps
<1>4. /\ entries \in Nat
      /\ entries \in 0 .. NewSize(1) - 1
  BY <1>2 DEF Inv, TypeOK
<1>5. /\ table' \in [0 .. NewSize(1) - 1 -> Slots]
      /\ table'[entries] = v
      /\ \A i \in 0 .. NewSize(1) - 1 : i # entries => table'[i] = GrownTable(1)[i]
  BY <1>1, <1>3, <1>4 DEF Store, Slots
<1>6. \A i \in 0 .. entries - 1 : table'[i] = table[i]
  BY <1>2, <1>3, <1>4, <1>5
<1>7. TypeOK' /\ TableAddressable'
  BY <1>1, <1>2, <1>4, <1>5 DEF TypeOK, TableAddressable
<1>8. SlotsInUseHoldValues'
  BY <1>1, <1>2, <1>4, <1>5, <1>6 DEF Inv, SlotsInUseHoldValues
<1>9. NoStaleSlots'
  BY <1>1, <1>2, <1>3, <1>4, <1>5 DEF NoStaleSlots
<1> QED BY <1>1, <1>5, <1>6, <1>7, <1>8, <1>9 DEF Inv

LEMMA InsertKeeps ==
  ASSUME Inv, NEW k \in 0 .. entries, NEW v \in Values, InsertNew(k, v)
  PROVE  /\ Inv'
         /\ entries' = entries + 1
         /\ \A i \in 0 .. k - 1 : table'[i] = table[i]
         /\ table'[k] = v
         /\ \A i \in k + 1 .. entries : table'[i] = table[i - 1]
<1>1. /\ CanHold(1)
      /\ size' = NewSize(1)
      /\ table' = Store(OpenGap(k), k, v)
      /\ entries' = entries + 1
  BY DEF InsertNew
<1>2. /\ NewSize(1) \in Nat
      /\ entries + 1 <= NewSize(1)
      /\ NewSize(1) * PointerSize <= MaxSize
  BY <1>1, GrowSuffices
<1>3. /\ OpenGap(k) \in [0 .. NewSize(1) - 1 -> Slots]
      /\ \A j \in 0 .. k - 1 : OpenGap(k)[j] = table[j]
      /\ \A j \in k + 1 .. entries : OpenGap(k)[j] = table[j - 1]
      /\ \A j \in entries + 1 .. NewSize(1) - 1 : OpenGap(k)[j] \in {Null, Garbage}
  BY <1>1, GapOpens
<1>4. /\ entries \in Nat
      /\ k \in Nat
      /\ k <= entries
      /\ k \in 0 .. NewSize(1) - 1
  BY <1>2 DEF Inv, TypeOK
<1>5. /\ table' \in [0 .. NewSize(1) - 1 -> Slots]
      /\ table'[k] = v
      /\ \A i \in 0 .. NewSize(1) - 1 : i # k => table'[i] = OpenGap(k)[i]
  BY <1>1, <1>3, <1>4 DEF Store, Slots
<1>6. /\ \A i \in 0 .. k - 1 : table'[i] = table[i]
      /\ \A i \in k + 1 .. entries : table'[i] = table[i - 1]
  <2>1. ASSUME NEW i \in 0 .. k - 1
        PROVE  table'[i] = table[i]
    <3>1. i \in 0 .. NewSize(1) - 1 /\ i # k
      BY <1>2, <1>4
    <3> QED BY <3>1, <1>3, <1>5
  <2>2. ASSUME NEW i \in k + 1 .. entries
        PROVE  table'[i] = table[i - 1]
    <3>1. i \in 0 .. NewSize(1) - 1 /\ i # k
      BY <1>2, <1>4
    <3> QED BY <3>1, <1>3, <1>5
  <2> QED BY <2>1, <2>2
<1>7. TypeOK' /\ TableAddressable'
  BY <1>1, <1>2, <1>4, <1>5 DEF TypeOK, TableAddressable
<1>8. SlotsInUseHoldValues'
  <2>1. \A i \in 0 .. entries - 1 : table[i] \in Values
    BY DEF Inv, SlotsInUseHoldValues
  <2>2. ASSUME NEW i \in 0 .. entries
        PROVE  table'[i] \in Values
    <3>1. CASE i < k
      BY <3>1, <2>1, <1>4, <1>6
    <3>2. CASE i = k
      BY <3>2, <1>5
    <3>3. CASE i > k
      BY <3>3, <2>1, <1>4, <1>6
    <3> QED BY <3>1, <3>2, <3>3, <1>4
  <2> QED BY <2>2, <1>1, <1>2, <1>4 DEF SlotsInUseHoldValues
<1>9. NoStaleSlots'
  BY <1>1, <1>2, <1>3, <1>4, <1>5 DEF NoStaleSlots
<1> QED BY <1>1, <1>5, <1>6, <1>7, <1>8, <1>9 DEF Inv

LEMMA SetKeeps ==
  ASSUME Inv, NEW k \in 0 .. entries, NEW v \in Values, SetNew(k, v)
  PROVE  /\ Inv'
         /\ k < entries
         /\ entries' = entries
         /\ \A i \in 0 .. entries - 1 : table'[i] = IF i = k THEN v ELSE table[i]
<1>1. /\ k < entries
      /\ table' = [table EXCEPT ![k] = v]
      /\ size' = size
      /\ entries' = entries
  BY DEF SetNew, Store
<1> QED
  BY <1>1 DEF Inv, TypeOK, SlotsInUseHoldValues, TableAddressable, NoStaleSlots, Slots

LEMMA RemoveKeeps ==
  ASSUME Inv, NEW k \in 0 .. entries, Remove(k)
  PROVE  /\ Inv'
         /\ k < entries
         /\ entries' = entries - 1
         /\ \A i \in 0 .. entries - 2 :
              table'[i] = IF i < k THEN table[i] ELSE table[i + 1]
<1> DEFINE moved == IF k < entries - 1
                    THEN Copy(table, k, table, k + 1, entries - k - 1) ELSE table
<1>1. /\ k < entries
      /\ table' = Store(moved, entries - 1, Null)
      /\ entries' = entries - 1
      /\ size' = size
  BY DEF Remove
<1>2. /\ size \in Nat
      /\ entries \in Nat
      /\ entries <= size
      /\ k \in Nat
      /\ table \in [0 .. size - 1 -> Slots]
      /\ \A i \in 0 .. entries - 1 : table[i] \in Values
      /\ \A i \in entries .. size - 1 : table[i] \in {Null, Garbage}
  BY DEF Inv, TypeOK, SlotsInUseHoldValues, NoStaleSlots
<1>3. moved = [i \in 0 .. size - 1 |->
                 IF i \in k .. entries - 2 THEN table[i + 1] ELSE table[i]]
  <2>1. CASE k < entries - 1
    <3>1. moved = [i \in 0 .. size - 1 |->
                     IF i \in k .. k + (entries - k - 1) - 1
                     THEN table[(k + 1) + (i - k)] ELSE table[i]]
      BY <2>1, <1>2 DEF Copy
    <3>2. /\ k + (entries - k - 1) - 1 = entries - 2
          /\ \A i \in k .. entries - 2 : (k + 1) + (i - k) = i + 1
      BY <1>2
    <3> HIDE DEF moved
    <3> QED BY <3>1, <3>2
  <2>2. CASE ~(k < entries - 1)
    BY <2>2, <1>1, <1>2
  <2> QED BY <2>1, <2>2
<1>4. moved \in [0 .. size - 1 -> Slots]
  <2> HIDE DEF moved
  <2> QED BY <1>2, <1>3 DEF Slots
<1>5. table' = [i \in 0 .. size - 1 |-> IF i = entries - 1 THEN Null ELSE moved[i]]
  <2> HIDE DEF moved
  <2> QED BY <1>1, <1>2, <1>4 DEF Store
<1> HIDE DEF moved
<1>6. \A i \in 0 .. entries - 2 : table'[i] = IF i < k THEN table[i] ELSE table[i + 1]
  BY <1>1, <1>2, <1>3, <1>5
<1>7. TypeOK' /\ TableAddressable'
  BY <1>1, <1>2, <1>4, <1>5 DEF Inv, TypeOK, TableAddressable, Slots
<1>8. SlotsInUseHoldValues'
  BY <1>1, <1>2, <1>6 DEF SlotsInUseHoldValues
<1>9. NoStaleSlots'
  BY <1>1, <1>2, <1>3, <1>5 DEF NoStaleSlots
<1> QED BY <1>1, <1>6, <1>7, <1>8, <1>9 DEF Inv

LEMMA ClearKeeps ==
  ASSUME Inv, Clear
  PROVE  Inv' /\ entries' = 0
  BY DEF Clear, Inv, TypeOK, SlotsInUseHoldValues, TableAddressable, NoStaleSlots, Slots

\* Both forms of json_array_extend write a run of values behind the old ones.
LEMMA ExtendKeeps ==
  ASSUME Inv, NEW n \in Nat, NEW source, CanHold(n),
         \A i \in 0 .. n - 1 : source[i] \in Values,
         size' = NewSize(n), entries' = entries + n,
         table' = Appended(GrownTable(n), source, n)
  PROVE  /\ Inv'
         /\ \A i \in 0 .. entries - 1 : table'[i] = table[i]
         /\ \A i \in entries .. entries + n - 1 : table'[i] = source[i - entries]
<1>1. /\ NewSize(n) \in Nat
      /\ entries + n <= NewSize(n)
      /\ NewSize(n) * PointerSize <= MaxSize
  BY GrowSuffices
<1>2. /\ GrownTable(n) \in [0 .. NewSize(n) - 1 -> Slots]
      /\ \A i \in 0 .. entries - 1 : GrownTable(n)[i] = table[i]
      /\ \A i \in entries .. NewSize(n) - 1 : GrownTable(n)[i] \in {Null, Garbage}
  BY GrowKeeps
<1>3. entries \in Nat
  BY DEF Inv, TypeOK
<1>4. table' = [i \in 0 .. NewSize(n) - 1 |->
                  IF i \in entries .. entries + n - 1
                  THEN source[i - entries] ELSE GrownTable(n)[i]]
  BY <1>2 DEF Appended
<1>5. \A i \in entries .. entries + n - 1 :
        table'[i] = source[i - entries] /\ table'[i] \in Values
  BY <1>1, <1>3, <1>4
<1>6. \A i \in 0 .. entries - 1 : table'[i] = table[i]
  BY SMTT(20), <1>1, <1>2, <1>3, <1>4
<1>7. table' \in [0 .. NewSize(n) - 1 -> Slots]
  BY <1>2, <1>3, <1>4, <1>5 DEF Slots
<1>8. TypeOK' /\ TableAddressable'
  BY <1>1, <1>3, <1>7 DEF TypeOK, TableAddressable
<1>9. SlotsInUseHoldValues'
  BY <1>1, <1>3, <1>5, <1>6 DEF Inv, SlotsInUseHoldValues
<1>10. NoStaleSlots'
  BY <1>1, <1>2, <1>3, <1>4 DEF NoStaleSlots
<1> QED BY <1>5, <1>6, <1>8, <1>9, <1>10 DEF Inv

LEMMA ExtendOtherKeeps ==
  ASSUME Inv, NEW o \in Others, ExtendOther(o)
  PROVE  /\ Inv'
         /\ Len(o) \in Nat
         /\ entries' = entries + Len(o)
         /\ \A i \in 0 .. entries - 1 : table'[i] = table[i]
         /\ \A i \in entries .. entries + Len(o) - 1 : table'[i] = o[i - entries + 1]
<1> DEFINE source == [i \in 0 .. Len(o) - 1 |-> o[i + 1]]
<1>1. o \in Seq(Values)
  BY OthersAssumption
<1>2. /\ Len(o) \in Nat
      /\ \A i \in 0 .. Len(o) - 1 : source[i] \in Values
  BY <1>1
<1>3. /\ CanHold(Len(o))
      /\ size' = NewSize(Len(o))
      /\ entries' = entries + Len(o)
      /\ table' = Appended(GrownTable(Len(o)), source, Len(o))
  BY DEF ExtendOther
<1>4. entries \in Nat
  BY DEF Inv, TypeOK
<1>5. \A i \in entries .. entries + Len(o) - 1 : source[i - entries] = o[i - entries + 1]
  BY <1>2, <1>4
<1> HIDE DEF source
<1>6. /\ Inv'
      /\ \A i \in 0 .. entries - 1 : table'[i] = table[i]
      /\ \A i \in entries .. entries + Len(o) - 1 : table'[i] = source[i - entries]
  BY <1>2, <1>3, ExtendKeeps
<1> QED BY <1>2, <1>3, <1>5, <1>6

LEMMA ExtendSelfKeeps ==
  ASSUME Inv, ExtendSelf
  PROVE  /\ Inv'
         /\ entries' = entries + entries
         /\ \A i \in 0 .. entries - 1 : table'[i] = table[i]
         /\ \A i \in entries .. entries + entries - 1 : table'[i] = table[i - entries]
<1> DEFINE source == GrownTable(entries)
<1>1. entries \in Nat
  BY DEF Inv, TypeOK
<1>2. /\ CanHold(entries)
      /\ size' = NewSize(entries)
      /\ entries' = entries + entries
      /\ table' = Appended(GrownTable(entries), source, entries)
  BY DEF ExtendSelf
<1>3. \A i \in 0 .. entries - 1 : source[i] = table[i]
  BY <1>1, <1>2, GrowKeeps
<1>4. \A i \in 0 .. entries - 1 : source[i] \in Values
  BY <1>3 DEF Inv, SlotsInUseHoldValues
<1> HIDE DEF source
<1>5. /\ Inv'
      /\ \A i \in 0 .. entries - 1 : table'[i] = table[i]
      /\ \A i \in entries .. entries + entries - 1 : table'[i] = source[i - entries]
  BY <1>1, <1>2, <1>4, ExtendKeeps
<1> QED BY <1>1, <1>2, <1>3, <1>5

-----------------------------------------------------------------------------
(* The invariants.                                                         *)

LEMMA InitInv == Init => Inv
  BY SizesAssumption
  DEF Init, Inv, TypeOK, SlotsInUseHoldValues, TableAddressable, NoStaleSlots,
      Uninitialised, Slots

LEMMA StepInv == Inv /\ [Next]_vars => Inv'
<1> SUFFICES ASSUME Inv, [Next]_vars PROVE Inv'
  OBVIOUS
<1>1. ASSUME NEW i \in 0 .. entries, NEW v \in Values, SetNew(i, v) PROVE Inv'
  BY <1>1, SetKeeps
<1>2. ASSUME NEW i \in 0 .. entries, NEW v \in Values, InsertNew(i, v) PROVE Inv'
  BY <1>2, InsertKeeps
<1>3. ASSUME NEW v \in Values, AppendNew(v) PROVE Inv'
  BY <1>3, AppendKeeps
<1>4. ASSUME NEW i \in 0 .. entries, Remove(i) PROVE Inv'
  BY <1>4, RemoveKeeps
<1>5. CASE Clear
  BY <1>5, ClearKeeps
<1>6. ASSUME NEW o \in Others, ExtendOther(o) PROVE Inv'
  BY <1>6, ExtendOtherKeeps
<1>7. CASE ExtendSelf
  BY <1>7, ExtendSelfKeeps
<1>8. CASE UNCHANGED vars
  BY <1>8 DEF vars, Inv, TypeOK, SlotsInUseHoldValues, TableAddressable, NoStaleSlots
<1> QED BY <1>1, <1>2, <1>3, <1>4, <1>5, <1>6, <1>7, <1>8 DEF Next

LEMMA Inductive == Spec => []Inv
  BY InitInv, StepInv, PTL DEF Spec

\* The variables of an array keep their types.
THEOREM Typing == Spec => []TypeOK
<1>1. Inv => TypeOK
  BY DEF Inv
<1> QED BY <1>1, Inductive, PTL

\* No call leaves a slot in use outside the table, null or uninitialised:
\* whatever reads an array reads values.
THEOREM SlotsAreReadable == Spec => []SlotsInUseHoldValues
<1>1. Inv => SlotsInUseHoldValues
  BY DEF Inv
<1> QED BY <1>1, Inductive, PTL

\* The byte size of the table never exceeds a usize: the checked arithmetic of
\* array_grow refuses every growth that would wrap.
THEOREM NoSizeWraps == Spec => []TableAddressable
<1>1. Inv => TableAddressable
  BY DEF Inv
<1> QED BY <1>1, Inductive, PTL

\* Removing, clearing and growing leave no value behind the slots in use.
THEOREM NothingStale == Spec => []NoStaleSlots
<1>1. Inv => NoStaleSlots
  BY DEF Inv
<1> QED BY <1>1, Inductive, PTL

-----------------------------------------------------------------------------
(* The refinement: every call is the call of the same name on a sequence.  *)

LEMMA ContentsLength ==
  ASSUME Inv
  PROVE  /\ entries \in Nat
         /\ Len(Contents) = entries
         /\ Contents \in Seq(Values)
         /\ \A j \in 1 .. entries : Contents[j] = table[j - 1]
<1>1. /\ entries \in Nat
      /\ \A i \in 0 .. entries - 1 : table[i] \in Values
  BY DEF Inv, TypeOK, SlotsInUseHoldValues
<1>2. \A j \in 1 .. entries : j - 1 \in 0 .. entries - 1
  BY <1>1
<1> QED BY <1>1, <1>2 DEF Contents

LEMMA SetRefines ==
  ASSUME Inv, NEW i \in 0 .. entries, NEW v \in Values, SetNew(i, v)
  PROVE  AsSequence!Put(i, v)
<1>1. /\ i < entries
      /\ entries' = entries
      /\ \A k \in 0 .. entries - 1 : table'[k] = IF k = i THEN v ELSE table[k]
  BY SetKeeps
<1>2. /\ entries \in Nat
      /\ Len(Contents) = entries
      /\ Contents = [j \in 1 .. entries |-> table[j - 1]]
  BY ContentsLength DEF Contents
<1>3. Contents' = [j \in 1 .. entries |-> table'[j - 1]]
  BY <1>1 DEF Contents
<1>4. \A j \in 1 .. entries : table'[j - 1] = IF j = i + 1 THEN v ELSE table[j - 1]
  BY <1>1, <1>2
<1>5. Contents' = [Contents EXCEPT ![i + 1] = v]
  BY <1>2, <1>3, <1>4
<1> QED BY <1>1, <1>2, <1>5 DEF AsSequence!Put

LEMMA InsertRefines ==
  ASSUME Inv, NEW i \in 0 .. entries, NEW v \in Values, InsertNew(i, v)
  PROVE  AsSequence!Insert(i, v)
<1>1. /\ entries' = entries + 1
      /\ \A k \in 0 .. i - 1 : table'[k] = table[k]
      /\ table'[i] = v
      /\ \A k \in i + 1 .. entries : table'[k] = table[k - 1]
  BY InsertKeeps
<1>2. /\ entries \in Nat
      /\ Len(Contents) = entries
      /\ \A j \in 1 .. entries : Contents[j] = table[j - 1]
  BY ContentsLength
<1>3. Contents' = [j \in 1 .. entries + 1 |-> table'[j - 1]]
  BY <1>1 DEF Contents
<1>4. ASSUME NEW j \in 1 .. entries + 1
      PROVE  table'[j - 1] = IF j <= i THEN Contents[j]
                             ELSE IF j = i + 1 THEN v ELSE Contents[j - 1]
  <2>1. CASE j <= i
    <3>1. j - 1 \in 0 .. i - 1 /\ j \in 1 .. entries
      BY <2>1, <1>2
    <3> QED BY <2>1, <3>1, <1>1, <1>2
  <2>2. CASE j = i + 1
    BY <2>2, <1>1, <1>2
  <2>3. CASE j > i + 1
    <3>1. /\ j - 1 \in i + 1 .. entries
          /\ j - 1 \in 1 .. entries
          /\ ~(j <= i)
          /\ j # i + 1
      BY <2>3, <1>2
    <3> QED BY <3>1, <1>1, <1>2
  <2> QED BY <2>1, <2>2, <2>3, <1>2
<1> QED BY <1>2, <1>3, <1>4 DEF AsSequence!Insert

LEMMA AppendRefines ==
  ASSUME Inv, NEW v \in Values, AppendNew(v)
  PROVE  AsSequence!Insert(entries, v)
<1>1. /\ entries' = entries + 1
      /\ \A k \in 0 .. entries - 1 : table'[k] = table[k]
      /\ table'[entries] = v
  BY AppendKeeps
<1>2. /\ entries \in Nat
      /\ Len(Contents) = entries
      /\ \A j \in 1 .. entries : Contents[j] = table[j - 1]
  BY ContentsLength
<1>3. Contents' = [j \in 1 .. entries + 1 |-> table'[j - 1]]
  BY <1>1 DEF Contents
<1>4. ASSUME NEW j \in 1 .. entries + 1
      PROVE  table'[j - 1] = IF j <= entries THEN Contents[j]
                             ELSE IF j = entries + 1 THEN v ELSE Contents[j - 1]
  <2>1. CASE j <= entries
    <3>1. j - 1 \in 0 .. entries - 1 /\ j \in 1 .. entries
      BY <2>1, <1>2
    <3> QED BY <2>1, <3>1, <1>1, <1>2
  <2>2. CASE j = entries + 1
    BY <2>2, <1>1, <1>2
  <2> QED BY <2>1, <2>2, <1>2
<1> QED BY <1>2, <1>3, <1>4 DEF AsSequence!Insert

LEMMA RemoveRefines ==
  ASSUME Inv, NEW i \in 0 .. entries, Remove(i)
  PROVE  AsSequence!Remove(i)
<1>1. /\ i < entries
      /\ entries' = entries - 1
      /\ \A k \in 0 .. entries - 2 :
           table'[k] = IF k < i THEN table[k] ELSE table[k + 1]
  BY RemoveKeeps
<1>2. /\ entries \in Nat
      /\ Len(Contents) = entries
      /\ \A j \in 1 .. entries : Contents[j] = table[j - 1]
  BY ContentsLength
<1>3. Contents' = [j \in 1 .. entries - 1 |-> table'[j - 1]]
  BY <1>1 DEF Contents
<1>4. ASSUME NEW j \in 1 .. entries - 1
      PROVE  table'[j - 1] = IF j <= i THEN Contents[j] ELSE Contents[j + 1]
  <2>1. /\ j - 1 \in 0 .. entries - 2
        /\ j \in 1 .. entries
        /\ j + 1 \in 1 .. entries
        /\ (j + 1) - 1 = (j - 1) + 1
        /\ j - 1 < i <=> j <= i
    BY <1>2
  <2> QED BY <2>1, <1>1, <1>2
<1> QED BY <1>1, <1>2, <1>3, <1>4 DEF AsSequence!Remove

LEMMA ClearRefines ==
  ASSUME Inv, Clear
  PROVE  AsSequence!Clear
<1>1. entries' = 0
  BY ClearKeeps
<1> QED BY <1>1 DEF Contents, AsSequence!Clear

\* A run of values written behind the old ones is a concatenation.
LEMMA ExtendRefines ==
  ASSUME Inv, NEW o \in Seq(Values), entries' = entries + Len(o),
         \A i \in 0 .. entries - 1 : table'[i] = table[i],
         \A i \in entries .. entries + Len(o) - 1 : table'[i] = o[i - entries + 1]
  PROVE  AsSequence!Extend(o)
<1>1. /\ entries \in Nat
      /\ Contents \in Seq(Values)
      /\ Len(Contents) = entries
      /\ \A j \in 1 .. entries : Contents[j] = table[j - 1]
      /\ Len(o) \in Nat
  BY ContentsLength
<1>2. Contents' = [j \in 1 .. entries + Len(o) |-> table'[j - 1]]
  BY DEF Contents
<1>3. ASSUME NEW j \in 1 .. entries + Len(o)
      PROVE  table'[j - 1] = IF j <= entries THEN Contents[j] ELSE o[j - entries]
  <2>1. CASE j <= entries
    <3>1. j - 1 \in 0 .. entries - 1 /\ j \in 1 .. entries
      BY <2>1, <1>1
    <3> QED BY <2>1, <3>1, <1>1
  <2>2. CASE ~(j <= entries)
    <3>1. /\ j - 1 \in entries .. entries + Len(o) - 1
          /\ (j - 1) - entries + 1 = j - entries
      BY <2>2, <1>1
    <3> QED BY <2>2, <3>1
  <2> QED BY <2>1, <2>2
<1>4. Contents \o o = [j \in 1 .. entries + Len(o) |->
                         IF j <= entries THEN Contents[j] ELSE o[j - entries]]
  <2>1. /\ Contents \o o \in Seq(Values)
        /\ Len(Contents \o o) = entries + Len(o)
        /\ \A j \in 1 .. entries + Len(o) :
             (Contents \o o)[j] = IF j <= entries THEN Contents[j] ELSE o[j - entries]
    BY <1>1, ConcatProperties
  <2>2. \A s \in Seq(Values) : s = [j \in 1 .. Len(s) |-> s[j]]
    OBVIOUS
  <2> QED BY <2>1, <2>2
<1>5. Contents' = Contents \o o
  BY <1>2, <1>3, <1>4
<1> QED BY <1>5 DEF AsSequence!Extend

LEMMA ExtendOtherRefines ==
  ASSUME Inv, NEW o \in Others, ExtendOther(o)
  PROVE  AsSequence!Extend(o)
<1>1. /\ entries' = entries + Len(o)
      /\ \A i \in 0 .. entries - 1 : table'[i] = table[i]
      /\ \A i \in entries .. entries + Len(o) - 1 : table'[i] = o[i - entries + 1]
  BY ExtendOtherKeeps
<1>2. o \in Seq(Values)
  BY OthersAssumption
<1> QED BY <1>1, <1>2, ExtendRefines

LEMMA ExtendSelfRefines ==
  ASSUME Inv, ExtendSelf
  PROVE  AsSequence!Extend(Contents)
<1>1. /\ entries' = entries + entries
      /\ \A i \in 0 .. entries - 1 : table'[i] = table[i]
      /\ \A i \in entries .. entries + entries - 1 : table'[i] = table[i - entries]
  BY ExtendSelfKeeps
<1>2. /\ entries \in Nat
      /\ Contents \in Seq(Values)
      /\ Len(Contents) = entries
      /\ \A j \in 1 .. entries : Contents[j] = table[j - 1]
  BY ContentsLength
<1>3. ASSUME NEW i \in entries .. entries + entries - 1
      PROVE  table'[i] = Contents[i - entries + 1]
  <2>1. /\ i - entries + 1 \in 1 .. entries
        /\ (i - entries + 1) - 1 = i - entries
    BY <1>2
  <2> QED BY <2>1, <1>1, <1>2
<1> QED BY <1>1, <1>2, <1>3, ExtendRefines

\* Every call does to the sequence of values what its arguments say, with the
\* table moved or not, and when an array is appended to itself.
THEOREM CallsRefine == Spec => EachCallRefines
<1> DEFINE Refines ==
      /\ \A i \in 0 .. entries, v \in Values :
           /\ SetNew(i, v) => AsSequence!Put(i, v)
           /\ InsertNew(i, v) => AsSequence!Insert(i, v)
      /\ \A v \in Values : AppendNew(v) => AsSequence!Insert(entries, v)
      /\ \A i \in 0 .. entries : Remove(i) => AsSequence!Remove(i)
      /\ Clear => AsSequence!Clear
      /\ \A o \in Others : ExtendOther(o) => AsSequence!Extend(o)
      /\ ExtendSelf => AsSequence!Extend(Contents)
<1>1. Inv => Refines
  BY SetRefines, InsertRefines, AppendRefines, RemoveRefines, ClearRefines,
     ExtendOtherRefines, ExtendSelfRefines
<1>2. Inv /\ [Next]_vars => [Refines]_vars
  BY <1>1
<1> QED BY <1>2, Inductive, PTL DEF Spec, EachCallRefines

\* An array is a sequence of values: it starts empty, and every step of Array
\* is a step of ValueSequence or leaves the sequence alone.
THEOREM ArrayIsSequence == Spec => RefinesSequence
<1>1. Init => AsSequence!Init
  BY DEF Init, AsSequence!Init, Contents
<1>2. Inv /\ [Next]_vars => [AsSequence!Next]_Contents
  <2> SUFFICES ASSUME Inv, [Next]_vars
               PROVE  AsSequence!Next \/ UNCHANGED Contents
    OBVIOUS
  <2>1. Len(Contents) = entries
    BY ContentsLength
  <2>2. ASSUME NEW i \in 0 .. entries, NEW v \in Values, SetNew(i, v)
        PROVE  AsSequence!Next
    BY <2>1, <2>2, SetRefines DEF AsSequence!Next
  <2>3. ASSUME NEW i \in 0 .. entries, NEW v \in Values, InsertNew(i, v)
        PROVE  AsSequence!Next
    BY <2>1, <2>3, InsertRefines DEF AsSequence!Next
  <2>4. ASSUME NEW v \in Values, AppendNew(v)
        PROVE  AsSequence!Next
    <3>1. entries \in 0 .. entries
      BY DEF Inv, TypeOK
    <3> QED BY <2>1, <2>4, <3>1, AppendRefines DEF AsSequence!Next
  <2>5. ASSUME NEW i \in 0 .. entries, Remove(i)
        PROVE  AsSequence!Next
    BY <2>1, <2>5, RemoveRefines DEF AsSequence!Next
  <2>6. CASE Clear
    BY <2>6, ClearRefines DEF AsSequence!Next
  <2>7. ASSUME NEW o \in Others, ExtendOther(o)
        PROVE  AsSequence!Next
    BY <2>7, ExtendOtherRefines DEF AsSequence!Next
  <2>8. CASE ExtendSelf
    BY <2>8, ExtendSelfRefines DEF AsSequence!Next
  <2>9. CASE UNCHANGED vars
    BY <2>9 DEF vars, Contents
  <2> QED BY <2>2, <2>3, <2>4, <2>5, <2>6, <2>7, <2>8, <2>9 DEF Next
<1> QED BY <1>1, <1>2, Inductive, PTL DEF Spec, RefinesSequence, AsSequence!Spec
=============================================================================
