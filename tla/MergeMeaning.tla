----------------------------- MODULE MergeMeaning -----------------------------
(***************************************************************************)
(* What the three calls of Merge are for, told over the trees that values  *)
(* stand for.  The references are recursive.                               *)
(***************************************************************************)
EXTENDS Merge

-----------------------------------------------------------------------------
(* Trees: [of, entries], the entries being [key, value]                    *)

Kind(v) == IF v \in Leaves THEN v ELSE IF v \in Objects THEN "object" ELSE "array"

RECURSIVE Tree(_, _)
Tree(h, v) ==
  [of |-> Kind(v),
   entries |-> IF v \in Leaves THEN << >>
               ELSE [i \in DOMAIN h[v] |->
                      [key |-> h[v][i].key, value |-> Tree(h, h[v][i].value)]]]

\* Of the tree of an object, the part that the loops have been through.
RECURSIVE Passed(_, _)
Passed(tree, frames) ==
  IF frames = << >> THEN [tree EXCEPT !.entries = << >>]
  ELSE LET i == Head(frames).index
           under == IF Len(frames) = 1 THEN << >>
                    ELSE <<[tree.entries[i] EXCEPT !.value = Passed(@, Tail(frames))]>>
       IN [tree EXCEPT !.entries = SubSeq(@, 1, i - 1) \o under]

\* Object values are merged with the object values they meet, all others replace them.
RECURSIVE Merged(_, _)
Merged(tree, other) ==
  [tree EXCEPT !.entries =
    FoldLeft(LAMBDA entries, e :
               LET met == SelectSeq(entries, LAMBDA f : f.key = CString[e.key])
               IN IF met # << >> /\ {met[1].value.of, e.value.of} = {"object"}
                  THEN With(entries, met[1].key, Merged(met[1].value, e.value))
                  ELSE With(entries, e.key, e.value),
             @, other.entries)]

\* A tree without the order of its entries
RECURSIVE Unordered(_)
Unordered(tree) ==
  [of |-> tree.of, entries |-> {[key |-> e.key, value |-> Unordered(e.value)] : e \in ToSet(tree.entries)}]

-----------------------------------------------------------------------------
(* Properties                                                              *)

Left0 == Tree(start.kids, task.left)
Right0 == Tree(start.kids, task.right)

UpdateKeepsPromise ==
  /\ UpdateDepthIsBounded
  /\ UpdateFailsForMemory
  /\ Apart /\ BothObjects /\ NoNul(start.kids, task.right) /\ ~Knotted(start.kids, task.right) =>
       Tree(heap, task.left) =
         Merged(Left0, IF status = "ok" THEN Right0 ELSE Passed(Right0, stack))

EqualKeepsPromise ==
  /\ status = "overflow" => Knotted(start.kids, task.left) /\ Knotted(start.kids, task.right)
  /\ /\ NoNul(start.kids, task.left)
     /\ \A v \in {task.left, task.right} : ~Knotted(start.kids, v)
     /\ status \in {"ok", "unequal"}
     => (status = "ok") = (Unordered(Left0) = Unordered(Right0))

\* At every moment of json_object_update_recursive the object is what it was, merged with the
\* part of the other that the loops have been through.  It fails only for memory, in the middle
\* and with the object partly merged; on a knot it may fail too, and its recursion is no deeper
\* than there are containers.  json_equal says whether the two stand for the same tree, however their parts are shared, and
\* exhausts the stack only on two knots.  json_copy shares the values of the entries and leaves
\* no copy behind when it fails.  The object that is updated has no part in common with anything,
\* and keys without a NUL are promised.
CallKeepsPromise ==
  CASE task.call = "update" -> UpdateKeepsPromise
    [] task.call = "equal" -> EqualKeepsPromise
    [] task.call = "copy" -> CopyKeepsPromise
=============================================================================
