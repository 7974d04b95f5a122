------------------------------ MODULE RefCount ------------------------------
(***************************************************************************)
(* Reference counting and deletion (abi.rs, scalar.rs) under the container *)
(* operations of array.rs and object.rs, by threads that share values.     *)
(*                                                                         *)
(* A reference is a token: Holder holds it (a thread's variable, or a slot *)
(* of a container) and it refers to Target.  A fetch_add or fetch_sub is   *)
(* one step.  json_delete releases the children of a container one at a    *)
(* time, recursively, so a thread keeps the stack of values it is          *)
(* deleting.                                                               *)
(*                                                                         *)
(* The program keeps the two rules of the documentation: it mutates a      *)
(* container from one thread at a time and does not read it meanwhile, and *)
(* it uses a value only through a reference it holds or through one that   *)
(* it borrows, slot by slot, from a container it holds.  A borrowed        *)
(* reference is good while nobody changes the containers it came from.     *)
(***************************************************************************)
EXTENDS Integers, Sequences, FiniteSets

CONSTANTS
  Threads,
  Values,      \* every json_t the program may allocate, and the singletons
  Containers,  \* those that are arrays or objects
  Immortal,    \* true, false and null
  Refs,        \* the references that may exist at once: the bound of the model
  MaxWay,      \* how many containers a borrowed one may be away: a bound, too
  Null

ASSUME SetsAssumption ==
  /\ Containers \subseteq Values
  /\ Immortal \subseteq Values \ Containers
  /\ Threads \cap Values = {}
  /\ Null \notin Values \cup Threads

ASSUME RefsAssumption == IsFiniteSet(Refs)

ASSUME WayAssumption == MaxWay \in Nat

VARIABLES
  rc,      \* the refcount field; not used for Immortal
  phase,   \* life of each value
  holder,  \* who holds each reference
  target,  \* the value it refers to
  stack,   \* the values each thread is deleting, innermost last
  op,      \* a container operation in progress in each thread
  at,      \* the container it works on
  via,     \* the containers it was reached through, and the one it copies
  todo     \* the references it has yet to store or copy

call == <<op, at, via, todo>>
vars == <<rc, phase, holder, target, stack, call>>

Mortal == Values \ Immortal

Phases == {"unborn", "live", "deleting", "freed"}
Ops    == {"none", "store", "remove", "clear", "extend"}

Init ==
  /\ rc = [v \in Values |-> 0]
  /\ phase = [v \in Values |-> IF v \in Immortal THEN "live" ELSE "unborn"]
  /\ holder = [r \in Refs |-> Null]
  /\ target = [r \in Refs |-> Null]
  /\ stack = [t \in Threads |-> << >>]
  /\ op = [t \in Threads |-> "none"]
  /\ at = [t \in Threads |-> Null]
  /\ via = [t \in Threads |-> {}]
  /\ todo = [t \in Threads |-> {}]

-----------------------------------------------------------------------------
RefsTo(v) == {r \in Refs : target[r] = v}
HeldBy(h) == {r \in Refs : holder[r] = h}
Slots(c)  == HeldBy(c)
FreeRefs  == {r \in Refs : target[r] = Null}

\* The tokens that extensions in progress will need are kept for them.
Reserved == {p \in Threads \X Refs : op[p[1]] = "extend" /\ p[2] \in todo[p[1]]}
Spare    == Cardinality(FreeRefs) - Cardinality(Reserved)

Holds(t, v) == \E r \in Refs : holder[r] = t /\ target[r] = v

\* t is outside the library, or is about to leave json_delete.
NotDeleting(t) == stack[t] = << >>
Outside(t)     == NotDeleting(t) /\ op[t] = "none"

\* Another thread mutates c.
MutatedByOther(t, c) == \E u \in Threads \ {t} : at[u] = c

\* Another thread mutates c, copies it or goes through it.
UsedByOther(t, c) == \E u \in Threads \ {t} : at[u] = c \/ c \in via[u]

Passed(w) == {w[i] : i \in DOMAIN w}
Ways      == UNION {[1 .. n -> Containers] : n \in 0 .. MaxWay}

\* The thread gets at c through the containers of w, each borrowed from the
\* one before and the first held by the thread: json_array_get and
\* json_object_get return borrowed references.  With no w it holds c itself.
Reaches(t, w, c) ==
  LET path == Append(w, c)
  IN  /\ Holds(t, path[1])
      /\ \A i \in DOMAIN w :
           /\ \E s \in Slots(path[i]) : target[s] = path[i + 1]
           /\ w[i] # c /\ ~MutatedByOther(t, w[i])

MayMutate(t, w, c) == Reaches(t, w, c) /\ ~UsedByOther(t, c)
MayRead(t, w, c)   == Reaches(t, w, c) /\ ~MutatedByOther(t, c)

\* t is in operation o on c from now on.
Begin(t, o, c, through, refs) ==
  /\ op' = [op EXCEPT ![t] = o]
  /\ at' = [at EXCEPT ![t] = c]
  /\ via' = [via EXCEPT ![t] = through]
  /\ todo' = [todo EXCEPT ![t] = refs]

Top(s) == s[Len(s)]
Pop(s) == SubSeq(s, 1, Len(s) - 1)

-----------------------------------------------------------------------------
\* Tokens are interchangeable, so a new reference is always the same one of
\* the free tokens.
NextRef == CHOOSE r \in Refs : target[r] = Null

\* Mutant: incref is forgotten when a borrowed reference is stored.
GainUncounted(h, v) ==
  /\ FreeRefs # {}
  /\ holder' = [holder EXCEPT ![NextRef] = h]
  /\ target' = [target EXCEPT ![NextRef] = v]
  /\ rc' = rc

\* json_incref: h gains a reference to v.
Gain(h, v) ==
  /\ FreeRefs # {}
  /\ holder' = [holder EXCEPT ![NextRef] = h]
  /\ target' = [target EXCEPT ![NextRef] = v]
  /\ rc' = IF v \in Immortal THEN rc ELSE [rc EXCEPT ![v] = @ + 1]

\* Mutant: the count is read again after fetch_sub, and anything below 2 is
\* taken for the last reference.
ReleaseEarly(t, r) ==
  LET v == target[r]
      last == v \in Mortal /\ rc[v] <= 2
  IN  /\ target' = [target EXCEPT ![r] = Null]
      /\ rc' = IF v \in Immortal THEN rc ELSE [rc EXCEPT ![v] = @ - 1]
      /\ phase' = IF last THEN [phase EXCEPT ![v] = "deleting"] ELSE phase
      /\ stack' = IF last THEN [stack EXCEPT ![t] = Append(@, v)] ELSE stack

\* Mutant: the count reaches 0 and json_delete is not called.
ReleaseLeaks(t, r) ==
  LET v == target[r]
      last == v \in Mortal /\ rc[v] = 1
  IN  /\ target' = [target EXCEPT ![r] = Null]
      /\ rc' = IF v \in Immortal THEN rc ELSE [rc EXCEPT ![v] = @ - 1]
      /\ phase' = IF last THEN [phase EXCEPT ![v] = "deleting"] ELSE phase
      /\ stack' = stack

\* json_decref by thread t of the reference r: the thread whose fetch_sub
\* returns 1 goes on to delete the value.
Release(t, r) ==
  LET v == target[r]
      last == v \in Mortal /\ rc[v] = 1
  IN  /\ target' = [target EXCEPT ![r] = Null]
      /\ rc' = IF v \in Immortal THEN rc ELSE [rc EXCEPT ![v] = @ - 1]
      /\ phase' = IF last THEN [phase EXCEPT ![v] = "deleting"] ELSE phase
      /\ stack' = IF last THEN [stack EXCEPT ![t] = Append(@, v)] ELSE stack

Lose(t, r) ==
  /\ Release(t, r)
  /\ holder' = [holder EXCEPT ![r] = Null]

-----------------------------------------------------------------------------
(* Constructors, json_incref and json_decref.                              *)

\* Every constructor returns a new reference; one that runs out of memory
\* returns NULL and changes nothing.
New(t, v) ==
  /\ Outside(t)
  /\ Spare > 0
  /\ phase[v] = "unborn"
  /\ Gain(t, v)
  /\ phase' = [phase EXCEPT ![v] = "live"]
  /\ UNCHANGED <<stack, call>>

\* The value is one of the singletons, or the thread holds it, or it reads it
\* from a container it gets at.
MayReach(t, v) ==
  \/ v \in Immortal
  \/ Holds(t, v)
  \/ \E w \in Ways, c \in Containers :
       MayRead(t, w, c) /\ \E s \in Slots(c) : target[s] = v

Incref(t, v) ==
  /\ Outside(t)
  /\ Spare > 0
  /\ MayReach(t, v)
  /\ Gain(t, v)
  /\ UNCHANGED <<phase, stack, call>>

\* json_decref, and every setter that steals a reference and then refuses or
\* fails: a NULL key, an index out of range, the container itself as the
\* value, or no memory.
Decref(t, r) ==
  /\ Outside(t)
  /\ holder[r] = t
  /\ Lose(t, r)
  /\ UNCHANGED call

-----------------------------------------------------------------------------
(* Container operations.                                                   *)

\* json_array_append_new, json_array_insert_new, json_object_set_new of a new
\* key: the reference moves into the container.
Give(t, w, c, r) ==
  /\ Outside(t)
  /\ holder[r] = t
  /\ target[r] # c
  /\ MayMutate(t, w, c)
  /\ holder' = [holder EXCEPT ![r] = c]
  /\ UNCHANGED <<rc, phase, target, stack, call>>

\* json_array_set_new, json_object_set_new of a present key: the old value is
\* released first, with all that this may delete, and the slot is overwritten
\* afterwards.
Replace(t, w, c, r, old) ==
  /\ Outside(t)
  /\ holder[r] = t
  /\ target[r] # c
  /\ MayMutate(t, w, c)
  /\ holder[old] = c
  /\ Lose(t, old)
  /\ Begin(t, "store", c, Passed(w), {r})

\* The container must still be there when json_delete returns.
Store(t) ==
  /\ NotDeleting(t)
  /\ op[t] = "store"
  /\ \E r \in todo[t] : holder' = [holder EXCEPT ![r] = at[t]]
  /\ Begin(t, "none", Null, {}, {})
  /\ UNCHANGED <<rc, phase, target, stack>>

\* json_object_iter_set_new: stores, then releases, and is done with the
\* object.  It does not compare the value with it.
IterSet(t, w, c, r, old) ==
  /\ Outside(t)
  /\ holder[r] = t
  /\ MayMutate(t, w, c)
  /\ holder[old] = c
  /\ Release(t, old)
  /\ holder' = [holder EXCEPT ![r] = c, ![old] = Null]
  /\ UNCHANGED call

\* json_array_remove, json_object_del: the value is released before the array
\* moves the slots behind it, counts one entry less and clears the last slot,
\* and before the object frees the entry.
Remove(t, w, c, old) ==
  /\ Outside(t)
  /\ MayMutate(t, w, c)
  /\ holder[old] = c
  /\ Lose(t, old)
  /\ Begin(t, "remove", c, Passed(w), {})

\* json_array_clear, json_object_clear: every slot in turn.
Clear(t, w, c) ==
  /\ Outside(t)
  /\ MayMutate(t, w, c)
  /\ Begin(t, "clear", c, Passed(w), {})
  /\ UNCHANGED <<rc, phase, holder, target, stack>>

ClearSlot(t) ==
  /\ NotDeleting(t)
  /\ op[t] = "clear"
  /\ \E old \in Slots(at[t]) : Lose(t, old)
  /\ UNCHANGED call

\* json_array_extend, once array_grow has succeeded: the loop copies the
\* slots the other array has at the call, which may be the same array, and
\* reads its count of entries until the end.  It does not compare them with
\* the array.
Extend(t, w, c, z, d) ==
  /\ Outside(t)
  /\ MayMutate(t, w, c)
  /\ MayRead(t, z, d)
  /\ Cardinality(Slots(d)) <= Spare
  /\ Begin(t, "extend", c, Passed(w) \cup Passed(z) \cup {d}, Slots(d))
  /\ UNCHANGED <<rc, phase, holder, target, stack>>

ExtendSlot(t) ==
  /\ op[t] = "extend"
  /\ \E s \in todo[t] :
       /\ Gain(at[t], target[s])
       /\ todo' = [todo EXCEPT ![t] = @ \ {s}]
  /\ UNCHANGED <<phase, stack, op, at, via>>

\* What is left is written into the container: the slots behind the removed
\* one, the count of a cleared or extended array.
Finish(t) ==
  /\ NotDeleting(t)
  /\ \/ op[t] = "remove"
     \/ op[t] = "clear" /\ Slots(at[t]) = {}
     \/ op[t] = "extend" /\ todo[t] = {}
  /\ Begin(t, "none", Null, {}, {})
  /\ UNCHANGED <<rc, phase, holder, target, stack>>

-----------------------------------------------------------------------------
(* json_delete.                                                            *)

\* delete_array and delete_object release the children one after the other.
DeleteChild(t) ==
  /\ stack[t] # << >>
  /\ \E s \in Slots(Top(stack[t])) : Lose(t, s)
  /\ UNCHANGED call

Free(t) ==
  /\ stack[t] # << >>
  /\ Slots(Top(stack[t])) = {}
  /\ phase' = [phase EXCEPT ![Top(stack[t])] = "freed"]
  /\ stack' = [stack EXCEPT ![t] = Pop(@)]
  /\ UNCHANGED <<rc, holder, target, call>>

-----------------------------------------------------------------------------
\* What a thread inside the library does next.
InLibrary(t) ==
  \/ DeleteChild(t)
  \/ Free(t)
  \/ Store(t)
  \/ ClearSlot(t)
  \/ ExtendSlot(t)
  \/ Finish(t)

Program(t) ==
  \/ \E v \in Mortal : New(t, v)
  \/ \E v \in Values : Incref(t, v)
  \/ \E r \in Refs : Decref(t, r)
  \/ \E w \in Ways, c \in Containers :
       \/ \E r \in Refs : Give(t, w, c, r) \/ Remove(t, w, c, r)
       \/ \E r, old \in Refs : Replace(t, w, c, r, old) \/ IterSet(t, w, c, r, old)
       \/ \E z \in Ways, d \in Containers : Extend(t, w, c, z, d)
       \/ Clear(t, w, c)

Next == \E t \in Threads : InLibrary(t) \/ Program(t)

Spec == Init /\ [][Next]_vars

\* Nothing in the library blocks: a thread that runs gets to the end of the
\* call it is in.
FairSpec == Spec /\ \A t \in Threads : WF_vars(InLibrary(t))

-----------------------------------------------------------------------------
TypeOK ==
  /\ rc \in [Values -> Nat]
  /\ phase \in [Values -> Phases]
  /\ holder \in [Refs -> Threads \cup Containers \cup {Null}]
  /\ target \in [Refs -> Values \cup {Null}]
  /\ stack \in [Threads -> Seq(Mortal)]
  /\ op \in [Threads -> Ops]
  /\ at \in [Threads -> Containers \cup {Null}]
  /\ via \in [Threads -> SUBSET Containers]
  /\ todo \in [Threads -> SUBSET Refs]

\* The refcount field of every value is the number of references to it,
\* whatever threads, containers and half-done operations hold them.
CountExact == \A v \in Mortal : rc[v] = Cardinality(RefsTo(v))

\* No reference, in a variable or in a slot, refers to a value that is being
\* deleted or has been freed; and no slot belongs to a freed container.
NoUseAfterFree ==
  \A r \in Refs : target[r] # Null =>
    /\ phase[target[r]] = "live"
    /\ holder[r] \in Containers => phase[holder[r]] \in {"live", "deleting"}

\* A value is deleted by one thread, once: json_delete is never entered twice
\* for it, however the last references race.
DeletedOnce ==
  \A t, u \in Threads : \A i \in DOMAIN stack[t], j \in DOMAIN stack[u] :
    stack[t][i] = stack[u][j] => t = u /\ i = j

\* The container of an operation in progress, which the thread may only have
\* borrowed, survives the deletions of the operation and of other threads
\* until the operation's last write to it, and so do the containers it was
\* reached through and the one that is copied: overwriting a slot, moving the
\* slots behind it and counting the entries after json_decref is safe.
ContainerSurvives ==
  \A t \in Threads : op[t] # "none" =>
    \A c \in via[t] \cup {at[t]} : phase[c] = "live"

\* Every value whose last reference is released is freed.
DeletionCompletes ==
  \A v \in Values : phase[v] = "deleting" ~> phase[v] = "freed"
=============================================================================
