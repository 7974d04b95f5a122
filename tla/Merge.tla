-------------------------------- MODULE Merge --------------------------------
(***************************************************************************)
(* json_object_update_recursive, json_equal and json_copy: the walks over  *)
(* one value or two that may share values, with each other and within      *)
(* themselves, or be tied into knots.  The update changes what it walks    *)
(* through, and what it replaces is freed when nothing else refers to it.  *)
(*                                                                         *)
(* The recursion is a stack of frames, a step is one turn of the loop on   *)
(* top.  A frame refers to its containers and holds no reference to them.  *)
(* The program holds one to each of the two arguments.  That a scalar has  *)
(* to be allocated for json_copy is left out.                              *)
(***************************************************************************)
EXTENDS Integers, Sequences, SequencesExt, FiniteSets

CONSTANTS
  Containers,  \* arrays and objects
  Copied,      \* the one of them that json_copy makes
  Leaves,      \* the other values, by their contents
  Keys,
  CString,     \* what strlen leaves of a key: it ends at the first NUL
  Slots,       \* the keys that stand for the indexes of an array
  Graphs,      \* what there is at first: [objects, kids]
  Arguments,   \* pairs of values
  MaxDepth,    \* how many frames the stack of the thread has room for
  Null

ASSUME LeavesAssumption == Containers \cap Leaves = {} /\ Null \notin Containers \cup Leaves
ASSUME CStringAssumption ==
  CString \in [Keys -> Keys] /\ \A k \in Keys : CString[CString[k]] = CString[k]
ASSUME SlotsAssumption == Slots \in Seq(Keys) /\ \A i \in DOMAIN Slots : CString[Slots[i]] = Slots[i]
ASSUME ContainersAssumption == IsFiniteSet(Containers)
ASSUME DepthAssumption == MaxDepth \in Nat

Values == Containers \cup Leaves
Entry == [key : Keys, value : Values]
KidsOf(h, c) == {e.value : e \in ToSet(h[c])} \cap Containers

\* An object has each key once.
ASSUME GraphsAssumption ==
  \A g \in Graphs :
    /\ g.objects \subseteq Containers
    /\ g.kids \in [Containers -> Seq(Entry)]
    /\ \A c \in Containers : \A i, j \in DOMAIN g.kids[c] :
         g.kids[c][i].key = g.kids[c][j].key => i = j

\* Nothing refers to the copy before it is made.
ASSUME CopiedAssumption ==
  /\ Copied \in Containers
  /\ \A g \in Graphs : g.kids[Copied] = << >> /\ \A c \in Containers : Copied \notin KidsOf(g.kids, c)
  /\ Arguments \subseteq (Values \ {Copied}) \X (Values \ {Copied})

VARIABLES
  start,    \* the graph at first
  task,     \* [call, left, right]
  heap,     \* the contents of the containers
  live,     \* the containers that are not freed
  stack,    \* the calls in progress: [left, right, index]
  parents,  \* the PointerSet
  visit,    \* the arguments of a call about to be made: [left, right]
  broken,   \* an allocation has failed
  status    \* "running", "ok", "unequal", "failed", or, where the program is lost,
            \* "overflow" of the stack or "stale" memory read

vars == <<start, task, heap, live, stack, parents, visit, broken, status>>

Objects == start.objects
NoVisit == [left |-> Null, right |-> Null]
Frame(left, right) == [left |-> left, right |-> right, index |-> 1]

Top == Last(stack)
Rest == Front(stack)
Advanced(frames) ==
  IF frames = << >> THEN frames ELSE [frames EXCEPT ![Len(frames)].index = @ + 1]

-----------------------------------------------------------------------------
(* Containers                                                              *)

\* What is left of alive when everything without a reference has been deleted: what is in
\* a knot stays.
Kept(h, alive, held) ==
  UNION {S \in SUBSET alive : S \subseteq held \cup UNION {KidsOf(h, d) : d \in S}}

Held == {task.left, task.right}

\* json_object_get of a C string, json_array_get
Get(c, key) ==
  LET at == {i \in DOMAIN heap[c] : heap[c][i].key = key}
  IN IF at = {} THEN Null ELSE heap[c][CHOOSE i \in at : TRUE].value

\* json_object_setn_new_nocheck of a reference that is taken for it
With(entries, key, value) ==
  IF \E i \in DOMAIN entries : entries[i].key = key
  THEN [i \in DOMAIN entries |->
         IF entries[i].key = key THEN [key |-> key, value |-> value] ELSE entries[i]]
  ELSE Append(entries, [key |-> key, value |-> value])

Set(c, key, value) ==
  /\ heap' = [heap EXCEPT ![c] = With(@, key, value)]
  /\ live' = Kept(heap', live, Held)

Init ==
  /\ start \in Graphs
  /\ task \in [call : {"update", "equal", "copy"}, left : {a[1] : a \in Arguments},
               right : {a[2] : a \in Arguments}]
  /\ <<task.left, task.right>> \in Arguments
  /\ task.call = "copy" => task.right \in Containers /\ task.left = task.right
  /\ heap = start.kids
  /\ live = Kept(heap, Containers \ {Copied}, Held)
  /\ stack = << >>
  /\ parents = {}
  /\ visit = [left |-> task.left, right |-> task.right]
  /\ broken = FALSE
  /\ status = "running"

-----------------------------------------------------------------------------
(* The ways in and out of a level                                          *)

Calling(call) == status = "running" /\ task.call = call /\ visit # NoVisit
InLoop(call) == status = "running" /\ task.call = call /\ stack # << >> /\ visit = NoVisit

\* return -1, or unequal, through all of the levels
Ends(how) ==
  /\ status' = how
  /\ parents' = {}
  /\ visit' = NoVisit
  /\ UNCHANGED stack

\* The loop reads the entry of the container on the right, or its end; what it looks up
\* is in the one on the left.
Exhausted == Top.index > Len(heap[Top.right])
Stale == Top.right \notin live \/ (~Exhausted /\ Top.left \notin live)

ReadsStale ==
  /\ InLoop("update")
  /\ Stale
  /\ status' = "stale"
  /\ UNCHANGED <<start, task, heap, live, stack, parents, visit, broken>>

Overflow ==
  /\ status = "running"
  /\ visit # NoVisit
  /\ Len(stack) = MaxDepth
  /\ Ends("overflow")
  /\ UNCHANGED <<start, task, heap, live, broken>>

\* The level is done and the one below goes on.
Returns ==
  /\ stack' = Advanced(Rest)
  /\ status' = IF Len(stack) = 1 THEN "ok" ELSE "running"
  /\ visit' = NoVisit

-----------------------------------------------------------------------------
(* update_recursive_inner                                                  *)

\* An argument is no object, or the other object is one of the parents.
UpdateRefused ==
  /\ Calling("update")
  /\ ~({visit.left, visit.right} \subseteq Objects) \/ visit.right \in parents
  /\ Ends("failed")
  /\ UNCHANGED <<start, task, heap, live, broken>>

UpdateEnter ==
  /\ Calling("update")
  /\ {visit.left, visit.right} \subseteq Objects
  /\ visit.right \notin parents
  /\ Len(stack) < MaxDepth
  /\ \/ /\ parents' = parents \cup {visit.right}
        /\ stack' = Append(stack, Frame(visit.left, visit.right))
        /\ visit' = NoVisit
        /\ UNCHANGED <<status, broken>>
     \/ /\ Ends("failed")
        /\ broken' = TRUE
  /\ UNCHANGED <<start, task, heap, live>>

Current(e) == Get(Top.left, CString[e.key])

\* Mutant: the object in the other is updated from the one that is there.
IntoSwapped(e) == [left |-> e.value, right |-> Current(e)]

Into(e) == [left |-> Current(e), right |-> e.value]

\* Both values are objects: one is merged into the other.
UpdateDescend ==
  /\ InLoop("update")
  /\ ~Stale
  /\ ~Exhausted
  /\ LET e == heap[Top.right][Top.index]
     IN /\ {Current(e), e.value} \subseteq Objects
        /\ visit' = Into(e)
  /\ UNCHANGED <<start, task, heap, live, stack, parents, broken, status>>

\* Or the value is set.  The setter refuses the object itself, and releases the old value
\* before it writes into the entry.
UpdateSet ==
  /\ InLoop("update")
  /\ ~Stale
  /\ ~Exhausted
  /\ LET e == heap[Top.right][Top.index]
     IN /\ ~({Current(e), e.value} \subseteq Objects)
        /\ \/ /\ e.value # Top.left
              /\ Set(Top.left, e.key, e.value)
              /\ status' = IF Top.left \in live' THEN status ELSE "stale"
              /\ stack' = Advanced(stack)
              /\ UNCHANGED <<parents, visit, broken>>
           \/ /\ e.value = Top.left
              /\ Ends("failed")
              /\ UNCHANGED <<heap, live, broken>>
           \/ /\ Ends("failed")
              /\ broken' = TRUE
              /\ UNCHANGED <<heap, live>>
  /\ UNCHANGED <<start, task>>

UpdateLeave ==
  /\ InLoop("update")
  /\ ~Stale
  /\ Exhausted
  /\ parents' = parents \ {Top.right}
  /\ Returns
  /\ UNCHANGED <<start, task, heap, live, broken>>

-----------------------------------------------------------------------------
(* json_equal, equal_object and equal_array                                *)

SameType(x, y) ==
  \/ x \in Leaves /\ x = y
  \/ {x, y} \subseteq Objects
  \/ {x, y} \subseteq Containers \ Objects

\* Mutant: an object that has all of the other's entries is equal to it.
NotLarger(x, y) == Len(heap[x]) <= Len(heap[y])

SameSize(x, y) == Len(heap[x]) = Len(heap[y])

\* Values of different kinds or sizes are not equal, nor is NULL to any.
EqualRefused ==
  /\ Calling("equal")
  /\ visit.left # visit.right
  /\ ~(SameType(visit.left, visit.right) /\ SameSize(visit.left, visit.right))
  /\ Ends("unequal")
  /\ UNCHANGED <<start, task, heap, live, broken>>

EqualAtOnce ==
  /\ Calling("equal")
  /\ visit.left = visit.right
  /\ stack' = Advanced(stack)
  /\ status' = IF stack = << >> THEN "ok" ELSE status
  /\ visit' = NoVisit
  /\ UNCHANGED <<start, task, heap, live, parents, broken>>

EqualEnter ==
  /\ Calling("equal")
  /\ visit.left # visit.right
  /\ SameType(visit.left, visit.right)
  /\ SameSize(visit.left, visit.right)
  /\ Len(stack) < MaxDepth
  /\ stack' = Append(stack, Frame(visit.left, visit.right))
  /\ visit' = NoVisit
  /\ UNCHANGED <<start, task, heap, live, parents, broken, status>>

\* The loop is over the container on the left.
EqualDescend ==
  /\ InLoop("equal")
  /\ Top.index <= Len(heap[Top.left])
  /\ LET e == heap[Top.left][Top.index]
     IN visit' = [left |-> e.value, right |-> Get(Top.right, CString[e.key])]
  /\ UNCHANGED <<start, task, heap, live, stack, parents, broken, status>>

EqualLeave ==
  /\ InLoop("equal")
  /\ Top.index > Len(heap[Top.left])
  /\ Returns
  /\ UNCHANGED <<start, task, heap, live, parents, broken>>

-----------------------------------------------------------------------------
(* copy_object and copy_array                                              *)

CopyBegin ==
  /\ Calling("copy")
  /\ \/ /\ live' = live \cup {Copied}
        /\ stack' = <<Frame(Copied, task.right)>>
        /\ visit' = NoVisit
        /\ UNCHANGED <<parents, broken, status>>
     \/ /\ Ends("failed")
        /\ broken' = TRUE
        /\ UNCHANGED live
  /\ UNCHANGED <<start, task, heap>>

\* An object's keys are measured with strlen.
CopyEntry ==
  /\ InLoop("copy")
  /\ ~Exhausted
  /\ LET e == heap[Top.right][Top.index]
     IN \/ /\ heap' = [heap EXCEPT ![Copied] = With(@, CString[e.key], e.value)]
           /\ stack' = Advanced(stack)
           /\ UNCHANGED <<live, parents, visit, broken, status>>
        \/ /\ Ends("failed")
           /\ broken' = TRUE
           /\ live' = Kept(heap, live \ {Copied}, Held)
           /\ UNCHANGED heap
  /\ UNCHANGED <<start, task>>

CopyEnd ==
  /\ InLoop("copy")
  /\ Exhausted
  /\ Returns
  /\ UNCHANGED <<start, task, heap, live, parents, broken>>

Next ==
  \/ ReadsStale \/ Overflow
  \/ UpdateRefused \/ UpdateEnter \/ UpdateDescend \/ UpdateSet \/ UpdateLeave
  \/ EqualRefused \/ EqualAtOnce \/ EqualEnter \/ EqualDescend \/ EqualLeave
  \/ CopyBegin \/ CopyEntry \/ CopyEnd

Spec == Init /\ [][Next]_vars

-----------------------------------------------------------------------------
(* What reaches what                                                       *)

IsClosed(h, S) == \A c \in S : KidsOf(h, c) \subseteq S

\* The containers that a walk from v comes to
Reachable(h, v) ==
  {c \in Containers :
     \A S \in SUBSET Containers : {v} \cap Containers \subseteq S /\ IsClosed(h, S) => c \in S}

Below(h, c) == UNION {Reachable(h, d) : d \in KidsOf(h, c)}
Knotted(h, v) == \E c \in Reachable(h, v) : c \in Below(h, c)

\* Nothing below v holds v, and every container below it is in one place.
IsTree(h, v) ==
  LET R == Reachable(h, v)
  IN /\ \A c \in R : v \notin KidsOf(h, c)
     /\ \A c, d \in R : \A i \in DOMAIN h[c], j \in DOMAIN h[d] :
          h[c][i].value \in Containers /\ h[c][i].value = h[d][j].value => c = d /\ i = j

NoNul(h, v) ==
  \A c \in Reachable(h, v) : \A i \in DOMAIN h[c] : CString[h[c][i].key] = h[c][i].key

BothObjects == {task.left, task.right} \subseteq Objects

\* Nobody else has a part of the object that is updated, the other one least of all.
Apart ==
  /\ IsTree(start.kids, task.left)
  /\ Reachable(start.kids, task.left) \cap Reachable(start.kids, task.right) = {}

-----------------------------------------------------------------------------
(* Properties                                                              *)

\* json_object_update_recursive never has more calls in progress than there are containers:
\* the other object of each call is one of the parents of the calls that it makes, whatever
\* the update has done to the graph on the way, so a knot is never walked round twice.
UpdateDepthIsBounded == task.call = "update" => Len(stack) <= Cardinality(Containers)

\* The update reads no memory that is freed and leaves the other object and all below it as
\* they were, although it puts parts of it into the object and goes on from there.
OtherIsKept ==
  task.call = "update" /\ Apart /\ NoNul(start.kids, task.right) =>
    /\ status # "stale"
    /\ \A c \in Reachable(start.kids, task.right) : c \in live /\ heap[c] = start.kids[c]

\* json_object_update_recursive fails only for want of memory when the two have nothing in
\* common and the other one is in no knot.
UpdateFailsForMemory ==
  /\ task.call = "update" /\ status = "failed"
  /\ Apart /\ BothObjects /\ NoNul(start.kids, task.right) /\ ~Knotted(start.kids, task.right)
  => broken

\* json_copy shares the values of the entries, and leaves no copy behind when it fails, which is
\* only for want of memory.  Keys without a NUL are promised.
CopyKeepsPromise ==
  task.call = "copy" =>
    /\ status = "ok" =>
         /\ Copied \in live
         /\ NoNul(start.kids, task.right) => heap[Copied] = start.kids[task.right]
    /\ status = "failed" => broken /\ Copied \notin live
=============================================================================
