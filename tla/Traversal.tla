------------------------------ MODULE Traversal -----------------------------
(***************************************************************************)
(* json_deep_copy and json_dump_callback: the two recursive walks over a   *)
(* value that a program may have tied into a knot.  A set of parents       *)
(* (PointerSet) holds the containers the walk is inside of and stops it    *)
(* when it meets one of them again.                                        *)
(*                                                                         *)
(* The recursion is a stack of frames.  What can fail is an allocation or, *)
(* in a dump, the callback that takes the text; every level then undoes    *)
(* what it has done and fails too.  The text is a sequence of tokens, and  *)
(* white space is left out of it.                                          *)
(***************************************************************************)
EXTENDS Integers, Sequences, SequencesExt, FiniteSets

CONSTANTS
  Containers,  \* arrays and objects
  Objects,     \* those that are objects
  Graphs,      \* the contents of the containers: functions to sequences of values
  Namings,     \* what strlen leaves of the keys of each object, one after the other
  Nothing

Leaves == {"scalar", "literal"}  \* literal: true, false, null

ASSUME ObjectsAssumption == Objects \subseteq Containers
ASSUME LeavesAssumption == Containers \cap Leaves = {}
ASSUME FiniteAssumption == IsFiniteSet(Containers)
ASSUME GraphsAssumption ==
  Graphs \subseteq [Containers -> Seq(Containers \cup Leaves)]
ASSUME NamingsAssumption ==
  \A n \in Namings, g \in Graphs, c \in Objects : DOMAIN g[c] \subseteq DOMAIN n[c]
ASSUME NothingAssumption == Nothing \notin Int \cup Containers \cup Leaves

VARIABLES
  graph,    \* not changed by the walk
  names,    \* nor are the keys, of which a dump writes all and a copy reads these
  root,     \* the argument
  task,     \* "copy", or the flags of a dump
  stack,    \* the calls in progress: [node, index, copy]
  parents,  \* the PointerSet
  visit,    \* the argument of a call about to be made
  result,   \* what a call has returned: a copy, or whether it went well
  heap,     \* the values made by the copy: [of, keys, kids]
  live,     \* those of them that are not freed
  out,      \* the text taken by the callback
  broken,   \* an allocation or the callback has failed
  status

vars == <<graph, names, root, task, stack, parents, visit, result, heap, live, out, broken, status>>

Tasks == {[kind |-> "copy", embed |-> FALSE, any |-> FALSE]}
           \cup [kind : {"dump"}, embed : BOOLEAN, any : BOOLEAN]
Copying == task.kind = "copy"

Failed  == -1  \* for a copy, NULL
Literal == 0   \* the copy of a literal, which is nobody's to release
Done    == 0   \* what do_dump returns when all went well

Top == Last(stack)
Kids == graph[Top.node]
Embedded == task.embed /\ Len(stack) = 1

Init ==
  /\ graph \in Graphs
  /\ root \in Containers \cup Leaves
  /\ task \in Tasks
  /\ names \in IF Copying
              THEN {[c \in Objects |-> SubSeq(n[c], 1, Len(graph[c]))] : n \in Namings}
              ELSE {Nothing}
  /\ stack = << >>
  /\ parents = {}
  /\ visit = Nothing
  /\ result = Nothing
  /\ heap = << >>
  /\ live = {}
  /\ out = << >>
  /\ broken = FALSE
  /\ status = "called"

-----------------------------------------------------------------------------
(* What the calls do                                                       *)

\* A copy and all that it holds are released.
Below(c) ==
  LET tree[n \in Nat] ==
        IF n = Literal THEN {} ELSE {n} \cup UNION {tree[k] : k \in ToSet(heap[n].kids)}
  IN IF c \in {Nothing, Failed} THEN {} ELSE tree[c]

Make(of) ==
  /\ heap' = Append(heap, [of |-> of, keys |-> << >>, kids |-> << >>])
  /\ live' = live \cup {Len(heap) + 1}
Fresh == Len(heap) + 1

\* The place of an item in its container: its index, or its key as a C string.
Label(c, i) == IF c \in Objects THEN names[c][i] ELSE i

\* json_array_append_new and json_object_set_new_nocheck: an item goes to the end,
\* or takes the place of the one with the same key.
Places(cell, label) == {i \in DOMAIN cell.keys : cell.keys[i] = label}
With(cell, label, value) ==
  LET at == Places(cell, label)
  IN IF at = {}
     THEN [cell EXCEPT !.keys = Append(@, label), !.kids = Append(@, value)]
     ELSE [cell EXCEPT !.kids = [i \in DOMAIN @ |-> IF i \in at THEN value ELSE @[i]]]

\* The callback takes the tokens, or refuses one of them; or else it refuses the
\* white space that comes after them.
Taken(tokens) ==
  /\ out' = out \o tokens
  /\ UNCHANGED broken
Refused(tokens) ==
  /\ \E n \in 0 .. Len(tokens) - 1 : out' = out \o SubSeq(tokens, 1, n)
  /\ broken' = TRUE
RefusedOrSpace(tokens) ==
  /\ \E n \in 0 .. Len(tokens) : out' = out \o SubSeq(tokens, 1, n)
  /\ broken' = TRUE

Opening(c) == IF c \in Objects THEN <<"{">> ELSE <<"[">>
Closing(c) == IF c \in Objects THEN <<"}">> ELSE <<"]">>

\* The call returns to the frame that is then on top.
Return(r) == visit' = Nothing /\ result' = r

-----------------------------------------------------------------------------
(* The two functions that a program calls                                  *)

Call ==
  /\ status = "called"
  /\ IF Copying \/ task.any \/ root \in Containers
     THEN /\ visit' = root
          /\ status' = "running"
     ELSE /\ status' = "failed"
          /\ UNCHANGED visit
  /\ UNCHANGED <<graph, names, root, task, stack, parents, result, heap, live, out, broken>>

\* PointerSet::init
CallStarved ==
  /\ status = "called"
  /\ status' = "failed"
  /\ broken' = TRUE
  /\ UNCHANGED <<graph, names, root, task, stack, parents, visit, result, heap, live, out>>

Finish ==
  /\ status = "running"
  /\ stack = << >>
  /\ result # Nothing
  /\ status' = IF result = Failed THEN "failed" ELSE "ok"
  /\ UNCHANGED <<graph, names, root, task, stack, parents, visit, result, heap, live, out, broken>>

-----------------------------------------------------------------------------
(* do_deep_copy and do_dump                                                *)

CopyLeaf ==
  /\ Copying
  /\ visit \in Leaves
  /\ \/ /\ visit = "literal"
        /\ Return(Literal)
        /\ UNCHANGED <<heap, live, broken>>
     \/ /\ visit = "scalar"
        /\ Make("scalar")
        /\ Return(Fresh)
        /\ UNCHANGED broken
     \/ /\ visit = "scalar"
        /\ Return(Failed)
        /\ broken' = TRUE
        /\ UNCHANGED <<heap, live>>
  /\ UNCHANGED <<graph, names, root, task, stack, parents, out, status>>

DumpLeaf ==
  /\ ~Copying
  /\ visit \in Leaves
  /\ \/ Taken(<<visit>>) /\ Return(Done)
     \/ Refused(<<visit>>) /\ Return(Failed)
  /\ UNCHANGED <<graph, names, root, task, stack, parents, heap, live, status>>

MeetsParent == visit \in parents

\* The container is one of the parents.
Knot ==
  /\ visit \in Containers
  /\ MeetsParent
  /\ Return(Failed)
  /\ UNCHANGED <<graph, names, root, task, stack, parents, heap, live, out, broken, status>>

\* JSON_EMBED leaves out the brackets of the outermost container.
OpeningOf(c) == IF task.embed /\ stack = << >> THEN << >> ELSE Opening(c)

\* It becomes one.
Enter ==
  /\ visit \in Containers
  /\ ~MeetsParent
  /\ parents' = parents \cup {visit}
  /\ stack' = Append(stack, [node |-> visit, index |-> 1,
                             copy |-> IF Copying THEN Fresh ELSE Nothing])
  /\ visit' = Nothing
  /\ IF Copying
     THEN Make(visit) /\ UNCHANGED <<out, broken>>
     ELSE /\ Taken(OpeningOf(visit))
          /\ UNCHANGED <<heap, live>>
  /\ UNCHANGED <<graph, names, root, task, result, status>>

\* PointerSet::insert fails, or json_array or json_object does, or the callback:
\* the container is no parent, or no more.
EnterFails ==
  /\ visit \in Containers
  /\ ~MeetsParent
  /\ Return(Failed)
  /\ RefusedOrSpace(IF Copying THEN << >> ELSE OpeningOf(visit))
  /\ UNCHANGED <<graph, names, root, task, stack, parents, heap, live, status>>

-----------------------------------------------------------------------------
(* The loop over the contents of the container on top                      *)

InLoop == status = "running" /\ stack # << >> /\ visit = Nothing

\* Mutant: the parent stays in the set.
LeaveKeepsParent(r) ==
  /\ stack' = Front(stack)
  /\ UNCHANGED parents
  /\ Return(r)

\* return of the frame on top: the parent is taken off the set.
Leave(r) ==
  /\ stack' = Front(stack)
  /\ parents' = parents \ {Top.node}
  /\ Return(r)

\* Mutant: a level that fails returns without releasing its copy.
UnwindLeaks(alive) ==
  /\ Leave(Failed)
  /\ live' = alive

\* A level fails: it releases the copy it was making.
Unwind(alive) ==
  /\ Leave(Failed)
  /\ live' = alive \ Below(Top.copy)

\* The next one is visited.  In an object, its key comes first.
Descend ==
  /\ InLoop
  /\ result = Nothing
  /\ Top.index <= Len(Kids)
  /\ LET key == IF Copying \/ Top.node \notin Objects THEN << >> ELSE <<"key", ":">>
     IN \/ /\ Taken(key)
           /\ visit' = Kids[Top.index]
           /\ UNCHANGED <<stack, parents, result, live>>
        \/ Refused(key) /\ Unwind(live)
  /\ UNCHANGED <<graph, names, root, task, heap, status>>

\* Mutant: a comma comes after every value.
MoreFollow == TRUE

\* There is another one after this.
MoreToCome == Top.index < Len(Kids)

\* What json_decref takes with the item that is replaced.
Displaced(cell, label) == UNION {Below(cell.kids[i]) : i \in Places(cell, label)}

\* The value that came back goes into the copy or is followed by its comma.
Ascend ==
  /\ InLoop
  /\ result \notin {Nothing, Failed}
  /\ stack' = [stack EXCEPT ![Len(stack)].index = @ + 1]
  /\ result' = Nothing
  /\ IF Copying
     THEN LET label == Label(Top.node, Top.index)
          IN  /\ heap' = [heap EXCEPT ![Top.copy] = With(@, label, result)]
              /\ live' = live \ Displaced(heap[Top.copy], label)
              /\ UNCHANGED <<out, broken>>
     ELSE /\ Taken(IF MoreToCome THEN <<",">> ELSE << >>)
          /\ UNCHANGED <<heap, live>>
  /\ UNCHANGED <<graph, names, root, task, parents, visit, status>>

\* The setter releases what it was given and fails, or the callback does.
AscendFails ==
  /\ InLoop
  /\ result \notin {Nothing, Failed}
  /\ RefusedOrSpace(IF ~Copying /\ MoreToCome THEN <<",">> ELSE << >>)
  /\ Unwind(IF Copying THEN live \ Below(result) ELSE live)
  /\ UNCHANGED <<graph, names, root, task, heap, status>>

PassFailure ==
  /\ InLoop
  /\ result = Failed
  /\ Unwind(live)
  /\ UNCHANGED <<graph, names, root, task, heap, out, broken, status>>

\* Mutant: a container with nothing in it has no way out of the loop.
ExhaustedLate == Top.index > Len(Kids) /\ Kids # << >>

Exhausted == Top.index > Len(Kids)

Complete ==
  /\ InLoop
  /\ result = Nothing
  /\ Exhausted
  /\ LET close == IF Copying \/ Embedded THEN << >> ELSE Closing(Top.node)
     IN \/ /\ Taken(close)
           /\ Leave(IF Copying THEN Top.copy ELSE Done)
           /\ UNCHANGED live
        \/ Refused(close) /\ Unwind(live)
  /\ UNCHANGED <<graph, names, root, task, heap, status>>

Next ==
  \/ Call \/ CallStarved \/ Finish
  \/ CopyLeaf \/ DumpLeaf \/ Knot \/ Enter \/ EnterFails
  \/ Descend \/ Ascend \/ AscendFails \/ PassFailure \/ Complete

\* A call runs in one thread until it returns.
Spec == Init /\ [][Next]_vars /\ WF_vars(Next)

-----------------------------------------------------------------------------
(* Properties                                                              *)

\* Every variable has a value of its kind.  The recursion is never deeper than
\* there are containers, knots or not.
TypeOK ==
  /\ task \in Tasks
  /\ Len(stack) <= Cardinality(Containers)
  /\ \A f \in ToSet(stack) :
       /\ f.node \in Containers
       /\ f.index \in 1 .. Len(graph[f.node]) + 1
       /\ f.copy \in live \cup {Nothing}
  /\ parents \subseteq Containers
  /\ visit \in Containers \cup Leaves \cup {Nothing}
  /\ result \in -1 .. Len(heap) \cup {Nothing}
  /\ live \subseteq 1 .. Len(heap)
  /\ broken \in BOOLEAN
  /\ status \in {"called", "running", "ok", "failed"}

\* The set holds the containers the walk is inside of and no others, each of them
\* once on the stack: on every way out of a level, good or bad, the level's own
\* container was taken off, so a container that is shared and not knotted is
\* walked as often as it is met.
ParentsAreStack ==
  /\ parents = {f.node : f \in ToSet(stack)}
  /\ Cardinality(parents) = Len(stack)

\* The containers that can be reached from a value in a graph: the least set that
\* holds those among its contents and, of each that it holds, those among the
\* contents of that.
Inside(g, x) == IF x \in Containers THEN ToSet(g[x]) \cap Containers ELSE {}
IsClosed(g, S) == \A c \in S : Inside(g, c) \subseteq S
Reachable(g, x) ==
  {c \in Containers : \A S \in SUBSET Containers :
     Inside(g, x) \subseteq S /\ IsClosed(g, S) => c \in S}

Tied(g, x) == \E c \in {x} \cup Reachable(g, x) : c \in Reachable(g, c)
Knotted == Tied(graph, root)

\* The walk fails at every knot and, where nothing else fails, only there: shared
\* values are no knots.
StopsAtKnots ==
  /\ status = "ok" => ~Knotted
  /\ status = "failed" /\ ~broken =>
       Knotted \/ (~Copying /\ ~task.any /\ root \in Leaves)

\* The tree that a copy of a value should be.  Of the items with one label, which
\* are the members of an object whose keys agree up to a NUL, the first gives the
\* place and the last the value.
Unfolded(x) ==
  LET First(y, i) == \A j \in 1 .. i - 1 : Label(y, j) # Label(y, i)
      LastLike(y, i) == Max({j \in DOMAIN graph[y] : Label(y, j) = Label(y, i)})
      Kept(y) == SetToSortSeq({i \in DOMAIN graph[y] : First(y, i)}, <)
      tree[y \in Containers \cup Leaves] ==
        IF y \in Leaves THEN [of |-> y, keys |-> << >>, kids |-> << >>]
        ELSE LET kept == Kept(y)
             IN [of |-> y,
                 keys |-> [n \in DOMAIN kept |-> Label(y, kept[n])],
                 kids |-> [n \in DOMAIN kept |-> tree[graph[y][LastLike(y, kept[n])]]]]
  IN tree[x]
CopyUnfolded(c) ==
  LET tree[n \in Nat] ==
        IF n = Literal THEN [of |-> "literal", keys |-> << >>, kids |-> << >>]
        ELSE [of |-> heap[n].of, keys |-> heap[n].keys,
              kids |-> [i \in DOMAIN heap[n].kids |-> tree[heap[n].kids[i]]]]
  IN tree[c]

\* A deep copy is a tree of new values, in which nothing is shared, that unfolds as
\* its original does, but for the members that a NUL in their keys makes one; and at
\* every moment, a failure included, what was made and not released belongs to a call
\* in progress or to the value that is returned: a member that is replaced is gone
\* with all that was copied for it.
\* (TypeOK is part of it.)
CopyIsTree ==
  /\ TypeOK
  /\ live = UNION {Below(f.copy) : f \in ToSet(stack)} \cup Below(result)
  /\ \A n \in live : Cardinality({s \in live \X (1 .. Len(heap)) :
       s[2] \in DOMAIN heap[s[1]].kids /\ heap[s[1]].kids[s[2]] = n}) <= 1
  /\ status = "ok" /\ Copying => CopyUnfolded(result) = Unfolded(root)

\* The text of a value.
Text(x, embed) ==
  LET members(c, text) ==
        FlattenSeq([i \in DOMAIN graph[c] |->
          (IF c \in Objects THEN <<"key", ":">> ELSE << >>)
            \o text[graph[c][i]]
            \o (IF i < Len(graph[c]) THEN <<",">> ELSE << >>)])
      text[y \in Containers \cup Leaves] ==
        IF y \in Leaves THEN <<y>> ELSE Opening(y) \o members(y, text) \o Closing(y)
  IN IF embed /\ x \in Containers THEN members(x, text) ELSE text[x]

\* What the callback has taken is always the beginning of the text of the value,
\* and all of it when the dump returns 0.
DumpIsText ==
  ~Copying /\ ~Knotted =>
    /\ IsPrefix(out, Text(root, task.embed))
    /\ status = "ok" => out = Text(root, task.embed)

\* The walk ends, whatever is knotted.
Terminates == <>(status \in {"ok", "failed"})
=============================================================================
