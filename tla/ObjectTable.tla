----------------------------- MODULE ObjectTable ----------------------------
(***************************************************************************)
(* One JSON object: the hash table of raw/table.rs with its two intrusive  *)
(* lists, the operations object.rs builds on it, the loops that update an  *)
(* object from another, and the iteration protocol.                        *)
(*                                                                         *)
(* All entries are on one list, table.list, in which each bucket is a run  *)
(* of neighbours given by its first and last entry; a second list, the     *)
(* order list, keeps them as they were inserted.  A doubly linked list is  *)
(* a sequence here and an entry is its key; an insertion that misses a     *)
(* present key shows as a key that is on the list twice.                   *)
(*                                                                         *)
(* An object is used by one thread at a time, so a call is one step; the   *)
(* loops, which run code of the program between two calls or can fail in   *)
(* the middle, are a step per turn.                                        *)
(***************************************************************************)
EXTENDS Integers, FiniteSets, SequencesExt

CONSTANTS
  Keys,          \* the keys the program uses
  Values,        \* the values it stores
  NewValues,     \* those of them that calls for one key store
  Hash,          \* the full hash of each key, under a seed that is settled
  CString,       \* what strlen leaves of a key: it ends at the first NUL
  InitialOrder,  \* INITIAL_TABLE_ORDER
  Others,        \* contents of the objects to update from
  Null

ASSUME HashAssumption == Hash \in [Keys -> Nat]
ASSUME CStringAssumption ==
  CString \in [Keys -> Keys] /\ \A k \in Keys : CString[CString[k]] = CString[k]
ASSUME OrderAssumption == InitialOrder \in Nat \ {0}
ASSUME ValuesAssumption == NewValues \subseteq Values
ASSUME OthersAssumption == \A o \in Others : o \in Seq(Keys \X Values)
ASSUME NullAssumption == Null \notin Keys \cup Values

VARIABLES
  table,    \* RawTable: size, order, buckets, list
  ordered,  \* the order list
  value,    \* the value field of each entry, Null for keys without one
  walk,     \* an iteration of the program over the object
  update    \* an update loop in progress

vars == <<table, ordered, value, walk, update>>

-----------------------------------------------------------------------------
(* RawTable.                                                               *)

\* 1 << n
Power[n \in Nat] == IF n = 0 THEN 1 ELSE 2 * Power[n - 1]

BucketCount(order) == Power[order]
Indexes(t)         == 0 .. BucketCount(t.order) - 1

\* bucket_mut: hash & mask
Index(t, k) == Hash[k] % BucketCount(t.order)

\* first and last point at the list head
EmptyBucket == [first |-> Null, last |-> Null]

ResetBuckets(order) == [i \in 0 .. BucketCount(order) - 1 |-> EmptyBucket]

Position(list, k) == SelectInSeq(list, LAMBDA e : e = k)

\* list_remove
Unlinked(list, k) == RemoveAt(list, Position(list, k))

Neighbour(list, k, d) ==
  LET i == Position(list, k) + d IN IF i \in DOMAIN list THEN list[i] ELSE Null

\* The entries find_in_bucket visits, from first through next up to last.
Chain(t, i) ==
  LET from == Position(t.list, t.buckets[i].first)
      to   == Position(t.list, t.buckets[i].last)
  IN  {t.list[j] : j \in DOMAIN t.list \cap (from .. to)}

\* find_entry; hashes are compared before keys, which the search in the one
\* bucket makes no difference to.
Found(t, k) == t.buckets[Index(t, k)] # EmptyBucket /\ k \in Chain(t, Index(t, k))

\* Mutant: a new entry of a bucket that is not empty goes to the end of the
\* list.
InsertAtTail(t, k) ==
  LET i == Index(t, k)
      b == t.buckets[i]
  IN  [t EXCEPT !.list = Append(@, k), !.buckets[i].first = k, !.size = @ + 1,
                !.buckets[i].last = IF b = EmptyBucket THEN k ELSE @]

\* The first entry of a bucket goes to the end of the list, any other before
\* the present first one.
InsertIntoBucket(t, k) ==
  LET i == Index(t, k)
      b == t.buckets[i]
  IN  IF b = EmptyBucket
      THEN [t EXCEPT !.list = Append(@, k), !.size = @ + 1,
                     !.buckets[i] = [first |-> k, last |-> k]]
      ELSE [t EXCEPT !.list = InsertAt(@, Position(@, b.first), k),
                     !.size = @ + 1, !.buckets[i].first = k]

\* Mutant: an entry that is the last of its bucket leaves last behind.
RemoveKeepsLast(t, k) ==
  LET i == Index(t, k)
      b == t.buckets[i]
      bucket == IF b.first = k /\ b.last = k THEN EmptyBucket
                ELSE IF b.first = k
                     THEN [b EXCEPT !.first = Neighbour(t.list, k, 1)]
                     ELSE b
  IN  [t EXCEPT !.list = Unlinked(@, k), !.size = @ - 1, !.buckets[i] = bucket]

RemoveFromBucket(t, k) ==
  LET i == Index(t, k)
      b == t.buckets[i]
      bucket == CASE b.first = k /\ b.last = k -> EmptyBucket
                  [] b.first = k /\ b.last # k ->
                       [b EXCEPT !.first = Neighbour(t.list, k, 1)]
                  [] b.first # k /\ b.last = k ->
                       [b EXCEPT !.last = Neighbour(t.list, k, -1)]
                  [] OTHER -> b
  IN  [t EXCEPT !.list = Unlinked(@, k), !.size = @ - 1, !.buckets[i] = bucket]

Full(t) == t.size >= BucketCount(t.order)

\* rehash with the new array allocated: every entry is inserted again, in
\* list order.
Rehash(t) ==
  LET order == t.order + 1
      empty == [size |-> 0, order |-> order, buckets |-> ResetBuckets(order),
                list |-> << >>]
  IN  FoldLeft(InsertIntoBucket, empty, t.list)

Cleared(t) == [size |-> 0, order |-> t.order, buckets |-> ResetBuckets(t.order),
               list |-> << >>]

EnsureCapacity(t) == IF Full(t) THEN Rehash(t) ELSE t

-----------------------------------------------------------------------------
NoValues == [k \in Keys |-> Null]

\* No iteration, no update.
NoWalk   == [kind |-> "none", at |-> Null, gone |-> FALSE, next |-> Null,
             due |-> << >>]
NoUpdate == [mode |-> "none", source |-> << >>, self |-> FALSE, i |-> 1,
             before |-> << >>, failed |-> FALSE]

Contents == [i \in DOMAIN ordered |-> <<ordered[i], value[ordered[i]]>>]

\* json_object(), after ensure_seed.
Init ==
  /\ table = [size |-> 0, order |-> InitialOrder,
              buckets |-> ResetBuckets(InitialOrder), list |-> << >>]
  /\ ordered = << >>
  /\ value = NoValues
  /\ walk = NoWalk
  /\ update = NoUpdate

\* Mutant: a key that is set again becomes the newest one.
SetMovesToEnd(k, v, ok) ==
  /\ ok
  /\ LET t == EnsureCapacity(table)
     IN  table' = IF Found(t, k) THEN t ELSE InsertIntoBucket(t, k)
  /\ ordered' = Append(Unlinked(ordered, k), k)
  /\ value' = [value EXCEPT ![k] = v]

\* set_new_nocheck_inner after its argument checks, with the allocations it
\* needs succeeding (ok) or the one of them that is reached failing.
SetInner(k, v, ok) ==
  \/ /\ ~ok
     /\ Full(table)
     /\ UNCHANGED <<table, ordered, value>>
  \/ LET t == EnsureCapacity(table) IN
     /\ table' = IF ok /\ ~Found(t, k) THEN InsertIntoBucket(t, k) ELSE t
     /\ ok \/ ~Found(t, k)
     /\ ordered' = IF ok /\ ~Found(t, k) THEN Append(ordered, k) ELSE ordered
     /\ value' = IF ok THEN [value EXCEPT ![k] = v] ELSE value

NotUpdating == update.mode = "none"

\* The program runs: outside of any loop, or in the body of its own.
ProgramRuns == NotUpdating /\ (walk.kind = "none" \/ walk.at # Null)

\* json_object_setn_new and its variants.  Those that find a NULL or invalid
\* key, a NULL value, or the object itself as the value change nothing.
Set(k, v) ==
  /\ ProgramRuns
  /\ \E ok \in BOOLEAN : SetInner(k, v, ok)
  /\ UNCHANGED <<walk, update>>

\* json_object_deln.  While it iterates, the program deletes only the entry
\* it is at, and only in the loop that is made for it.
Delete(k) ==
  /\ NotUpdating
  /\ walk.kind = "none" \/ (walk.kind = "safe" /\ walk.at = k /\ ~walk.gone)
  /\ Found(table, k)
  /\ table' = RemoveFromBucket(table, k)
  /\ ordered' = Unlinked(ordered, k)
  /\ value' = [value EXCEPT ![k] = Null]
  /\ walk' = IF walk.kind = "safe" THEN [walk EXCEPT !.gone = TRUE] ELSE walk
  /\ UNCHANGED update

Clear ==
  /\ NotUpdating
  /\ walk.kind = "none"
  /\ table' = Cleared(table)
  /\ ordered' = << >>
  /\ value' = NoValues
  /\ UNCHANGED <<walk, update>>

-----------------------------------------------------------------------------
(* json_object_update, _update_existing and _update_missing.               *)

Modes == {"all", "existing", "missing"}

\* The entries of the other object, which may be this one.
Source == IF update.self THEN Contents ELSE update.source

UpdateBegin(mode, self, other) ==
  /\ ProgramRuns
  /\ update' = [mode |-> mode, self |-> self, i |-> 1, before |-> Contents,
                source |-> IF self THEN << >> ELSE other, failed |-> FALSE]
  /\ UNCHANGED <<table, ordered, value, walk>>

\* The key the loop looks up and sets: only update_existing takes the length
\* of the key along, the two others measure it with strlen.
UpdateKey == IF update.mode = "existing" THEN Source[update.i][1]
             ELSE CString[Source[update.i][1]]

\* Mutant: _update_missing takes every key that _update takes.
WantedByAll(k) == update.mode = "existing" => Found(table, k)

Wanted(k) == CASE update.mode = "all"      -> TRUE
               [] update.mode = "existing" -> Found(table, k)
               [] update.mode = "missing"  -> ~Found(table, k)

\* A turn whose set fails is the last one.
UpdateTurn(ok) ==
  /\ ~NotUpdating
  /\ ~update.failed
  /\ update.i <= Len(Source)
  /\ IF Wanted(UpdateKey)
     THEN SetInner(UpdateKey, Source[update.i][2], ok)
     ELSE ok /\ UNCHANGED <<table, ordered, value>>
  /\ update' = IF ok THEN [update EXCEPT !.i = @ + 1] ELSE [update EXCEPT !.failed = TRUE]
  /\ UNCHANGED walk

UpdateEnd ==
  /\ ~NotUpdating
  /\ update.failed \/ update.i > Len(Source)
  /\ update' = NoUpdate
  /\ UNCHANGED <<table, ordered, value, walk>>

-----------------------------------------------------------------------------
(* json_object_foreach, json_object_foreach_safe, and loops written with   *)
(* json_object_iter_at and json_object_iter_next.                          *)

\* An entry taken off the list is linked to itself.
After(k) == IF Contains(ordered, k) THEN Neighbour(ordered, k, 1) ELSE k

\* What a loop that is at k has yet to visit.
Beyond(k) == SubSeq(ordered, Position(ordered, k) + 1, Len(ordered))

WalkBegin(kind, k) ==
  /\ NotUpdating
  /\ walk.kind = "none"
  /\ IF kind = "safe" THEN k = ordered[1] ELSE Found(table, k)
  /\ walk' = [kind |-> kind, at |-> k, gone |-> FALSE,
              next |-> IF kind = "safe" THEN After(k) ELSE Null,
              due |-> Beyond(k)]
  /\ UNCHANGED <<table, ordered, value, update>>

\* json_object_iter_set_new on the iterator of the loop.
IterSet(v) ==
  /\ NotUpdating
  /\ walk.at # Null
  /\ ~walk.gone
  /\ value' = [value EXCEPT ![walk.at] = v]
  /\ UNCHANGED <<table, ordered, walk, update>>

\* Mutant: the loop reads the link of the entry it may have deleted.
WalkStepLate ==
  /\ NotUpdating
  /\ walk.at # Null
  /\ LET to == After(walk.at)
     IN  walk' = [walk EXCEPT !.at = to, !.next = Null, !.gone = FALSE,
                              !.due = IF @ = << >> THEN @ ELSE Tail(@)]
  /\ UNCHANGED <<table, ordered, value, update>>

\* The plain loop reads the link of the entry it leaves; the safe one takes
\* the link it read before the body ran, and reads the next.
WalkStep ==
  /\ NotUpdating
  /\ walk.at # Null
  /\ LET to == IF walk.kind = "safe" THEN walk.next ELSE After(walk.at)
     IN  walk' = [walk EXCEPT
           !.at = to,
           !.gone = FALSE,
           !.next = IF walk.kind = "safe" /\ to # Null THEN After(to) ELSE Null,
           !.due = IF @ = << >> THEN @ ELSE Tail(@)]
  /\ UNCHANGED <<table, ordered, value, update>>

WalkEnd ==
  /\ NotUpdating
  /\ walk.kind # "none"
  /\ walk' = NoWalk
  /\ UNCHANGED <<table, ordered, value, update>>

-----------------------------------------------------------------------------
Next ==
  \/ \E k \in Keys, v \in NewValues : Set(k, v)
  \/ \E k \in Keys : Delete(k)
  \/ Clear
  \/ \E mode \in Modes, o \in Others, self \in BOOLEAN : UpdateBegin(mode, self, o)
  \/ \E ok \in BOOLEAN : UpdateTurn(ok)
  \/ UpdateEnd
  \/ ordered # << >> /\ \E kind \in {"plain", "safe"}, k \in Keys : WalkBegin(kind, k)
  \/ \E v \in NewValues : IterSet(v)
  \/ WalkStep
  \/ WalkEnd

Spec == Init /\ [][Next]_vars

-----------------------------------------------------------------------------
TypeOK ==
  /\ table.size \in Nat
  /\ table.order \in Nat \ {0}
  /\ table.list \in Seq(Keys)
  /\ table.buckets \in [Indexes(table) -> [first : Keys \cup {Null},
                                           last : Keys \cup {Null}]]
  /\ ordered \in Seq(Keys)
  /\ value \in [Keys -> Values \cup {Null}]
  /\ walk.kind \in {"none", "plain", "safe"}
  /\ {walk.at, walk.next} \subseteq Keys \cup {Null}
  /\ walk.gone \in BOOLEAN
  /\ walk.due \in Seq(Keys)
  /\ update.mode \in Modes \cup {"none"}
  /\ update.source \in Seq(Keys \X Values)
  /\ update.before \in Seq(Keys \X Values)

\* The run of neighbours between the two ends of a bucket is exactly the
\* entries whose hash falls in it, through every insertion, deletion and
\* rehash: find_in_bucket misses no entry and walks into no other bucket.
BucketsAreRuns ==
  \A i \in Indexes(table) :
    LET mine == {k \in ToSet(table.list) : Index(table, k) = i}
    IN  IF table.buckets[i] = EmptyBucket THEN mine = {} ELSE Chain(table, i) = mine

\* The two lists hold the same entries, no key twice, and size counts them:
\* json_object_size, lookup, iteration and deletion agree on what the object
\* holds.  (TypeOK is part of it.)
ListsAgree ==
  /\ TypeOK
  /\ IsInjective(table.list)
  /\ IsInjective(ordered)
  /\ ToSet(table.list) = ToSet(ordered)
  /\ ToSet(ordered) = {k \in Keys : value[k] # Null}
  /\ table.size = Len(ordered)

\* A loop never stands on, or goes to, an entry that was freed.
WalkLinksLive ==
  {walk.next} \cup (IF walk.gone THEN {} ELSE {walk.at})
    \subseteq ToSet(ordered) \cup {Null}

\* A loop visits the entries that were there when it began one after the
\* other, in insertion order and none twice, whatever its body replaces or adds
\* and, in the safe loop, deletes; and the plain loop ends only at the end.
WalkVisitsAll ==
  [][walk.at # Null /\ walk'.at # walk.at /\ walk'.kind # "none" =>
       IF walk.due # << >> THEN walk'.at = Head(walk.due)
       ELSE walk.kind = "plain" /\ walk'.at = Null => walk.at = Last(ordered)]_walk

\* What the entry e of the other object has to make of the map m: its key, cut at the
\* first NUL where the loop measures it, has its value in its old place or at the end.
MergeEntry(mode, m, e) ==
  LET k == IF mode = "existing" THEN e[1] ELSE CString[e[1]]
  IN  IF \E i \in DOMAIN m : m[i][1] = k
      THEN [i \in DOMAIN m |-> IF m[i][1] = k /\ mode # "missing"
                               THEN <<k, e[2]>> ELSE m[i]]
      ELSE IF mode = "existing" THEN m ELSE Append(m, <<k, e[2]>>)

\* What an update loop has to arrive at after the entries src.
Merged(before, src, mode) ==
  FoldLeft(LAMBDA m, e : MergeEntry(mode, m, e), before, src)

\* At every turn of an update loop, and after the one that fails, the object is its old
\* contents merged with the entries taken so far: nothing is lost, reordered or half
\* applied, be it updated from itself while the loop adds to it.
UpdateMergesPrefix ==
  update.mode # "none"
    => Contents = Merged(update.before, SubSeq(Source, 1, update.i - 1), update.mode)

\* The object is an insertion-ordered map.
AsMap == INSTANCE OrderedMap WITH map <- Contents
RefinesMap == AsMap!Spec
=============================================================================
