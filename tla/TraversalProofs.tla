-------------------------- MODULE TraversalProofs ---------------------------
(***************************************************************************)
(* The set of parents is the path of the walk, for all containers and      *)
(* graphs, knots included; and a walk that nothing else stops fails at a   *)
(* knot and only there.                                                    *)
(*                                                                         *)
(* A container enters the set and the stack together, and only when it is  *)
(* not in the set; so none is on the stack twice, and taking off the one   *)
(* on top takes off no other.  The path is then a path of the graph: a     *)
(* container met on it again is in itself, and one that has been left      *)
(* without a failure holds no knot.                                        *)
(***************************************************************************)
EXTENDS Traversal, FiniteSetTheorems, SequenceTheorems, TLAPS

Frames == [node : Containers, index : Nat, copy : Nat \cup {Nothing}]

\* Of the values that the copy makes, only how many there are matters.
IsHeap(h) == \E S : h \in Seq(S)

Types ==
  /\ stack \in Seq(Frames)
  /\ IsHeap(heap)
  /\ result \in Nat \cup {Failed, Nothing}

OnceOnStack ==
  \A i, j \in 1 .. Len(stack) : stack[i].node = stack[j].node => i = j

ParentsOnStack == parents = {stack[i].node : i \in 1 .. Len(stack)}

Path == OnceOnStack /\ ParentsOnStack

IInv == Types /\ Path

-----------------------------------------------------------------------------
(* The three things that happen to the stack.                              *)

LEMMA PushKeepsPath ==
  ASSUME IInv, NEW f \in Frames, f.node \notin parents,
         stack' = Append(stack, f), parents' = parents \cup {f.node}
  PROVE  stack' \in Seq(Frames) /\ Path'
<1> DEFINE n == Len(stack)
<1>1. /\ n \in Nat
      /\ stack' \in Seq(Frames)
      /\ Len(stack') = n + 1
      /\ \A i \in 1 .. n : stack'[i] = stack[i]
      /\ stack'[n + 1] = f
  BY DEF IInv, Types
<1>2. \A i \in 1 .. n : stack[i].node # f.node
  BY DEF IInv, Path, ParentsOnStack
<1>3. OnceOnStack'
  BY <1>1, <1>2 DEF IInv, Path, OnceOnStack
<1>4. {stack'[i].node : i \in 1 .. n + 1} = {stack[i].node : i \in 1 .. n} \cup {f.node}
  <2>1. 1 .. n + 1 = (1 .. n) \cup {n + 1}
    BY <1>1
  <2> HIDE DEF n
  <2> QED
    BY <1>1, <2>1
<1>5. ParentsOnStack'
  BY <1>1, <1>4 DEF IInv, Path, ParentsOnStack
<1> QED
  BY <1>1, <1>3, <1>5 DEF Path

LEMMA LeaveKeepsPath ==
  ASSUME IInv, stack # << >>, NEW r, Leave(r)
  PROVE  stack' \in Seq(Frames) /\ Path'
<1> DEFINE n == Len(stack)
<1>1. /\ n \in Nat \ {0}
      /\ stack' = SubSeq(stack, 1, n - 1)
      /\ parents' = parents \ {stack[n].node}
  BY DEF IInv, Types, Leave, Front, Top, Last
<1>2. /\ stack' \in Seq(Frames)
      /\ Len(stack') = n - 1
      /\ \A i \in 1 .. n - 1 : stack'[i] = stack[i]
  <2>0. n - 1 \in Int /\ \A i \in 1 .. n - 1 : stack[i] \in Frames
    BY <1>1 DEF IInv, Types
  <2> HIDE DEF n
  <2>1. /\ SubSeq(stack, 1, n - 1) \in Seq(Frames)
        /\ Len(SubSeq(stack, 1, n - 1)) = n - 1
        /\ \A i \in 1 .. n - 1 : SubSeq(stack, 1, n - 1)[i] = stack[i]
    BY <1>1, <2>0, SubSeqProperties
  <2> QED
    BY <1>1, <2>1
<1>3. OnceOnStack'
  BY <1>1, <1>2 DEF IInv, Path, OnceOnStack
<1>4. \A i \in 1 .. n - 1 : stack[i].node # stack[n].node
  BY <1>1 DEF IInv, Path, OnceOnStack
<1>5. {stack[i].node : i \in 1 .. n} \ {stack[n].node} = {stack'[i].node : i \in 1 .. n - 1}
  <2>1. 1 .. n = (1 .. n - 1) \cup {n}
    BY <1>1
  <2> HIDE DEF n
  <2> QED
    BY <1>2, <1>4, <2>1
<1>6. ParentsOnStack'
  BY <1>1, <1>2, <1>5 DEF IInv, Path, ParentsOnStack
<1> QED
  BY <1>2, <1>3, <1>6 DEF Path

LEMMA TurnKeepsPath ==
  ASSUME IInv, stack # << >>, UNCHANGED parents,
         stack' = [stack EXCEPT ![Len(stack)].index = @ + 1]
  PROVE  stack' \in Seq(Frames) /\ Path'
<1>1. /\ Len(stack) \in Nat \ {0}
      /\ stack[Len(stack)] \in Frames
  BY DEF IInv, Types
<1>2. [stack[Len(stack)] EXCEPT !.index = @ + 1] \in Frames
  BY <1>1 DEF Frames
<1>3. /\ stack' \in Seq(Frames)
      /\ Len(stack') = Len(stack)
      /\ \A i \in 1 .. Len(stack) : stack'[i].node = stack[i].node
  BY <1>1, <1>2 DEF IInv, Types, Frames
<1> QED
  BY <1>3 DEF IInv, Path, OnceOnStack, ParentsOnStack

-----------------------------------------------------------------------------
(* The values that the copy makes.                                         *)

LEMMA MakeKeepsHeap ==
  ASSUME IInv, NEW of, Make(of)
  PROVE  IsHeap(heap')
<1> DEFINE cell == [of |-> of, keys |-> << >>, kids |-> << >>]
<1>1. PICK S : heap \in Seq(S)
  BY DEF IInv, Types, IsHeap
<1>2. heap' = Append(heap, cell)
  BY DEF Make
<1> HIDE DEF cell
<1>3. heap \in Seq(S \cup {cell})
  BY <1>1
<1>4. heap' \in Seq(S \cup {cell})
  BY <1>2, <1>3
<1> QED
  BY <1>4 DEF IsHeap

LEMMA FreshIsNat ==
  ASSUME IInv
  PROVE  Fresh \in Nat
<1>1. PICK S : heap \in Seq(S)
  BY DEF IInv, Types, IsHeap
<1> QED
  BY <1>1 DEF Fresh

LEMMA PutKeepsHeap ==
  ASSUME IInv, NEW c, NEW cell
  PROVE  IsHeap([heap EXCEPT ![c] = cell])
<1>1. PICK S : heap \in Seq(S)
  BY DEF IInv, Types, IsHeap
<1>2. heap \in Seq(S \cup {cell}) /\ cell \in S \cup {cell}
  BY <1>1
<1>3. CASE c \in 1 .. Len(heap)
  <2>1. [heap EXCEPT ![c] = cell] \in Seq(S \cup {cell})
    BY <1>2, <1>3, ExceptSeq
  <2> QED
    BY <2>1 DEF IsHeap
<1>4. CASE c \notin 1 .. Len(heap)
  <2>1. [heap EXCEPT ![c] = cell] = heap
    BY <1>1, <1>4
  <2> QED
    BY <1>1, <2>1 DEF IsHeap
<1> QED
  BY <1>3, <1>4

-----------------------------------------------------------------------------
LEMMA InitEstablishes == Init => IInv
<1> SUFFICES ASSUME Init PROVE IInv
  OBVIOUS
<1>1. << >> \in Seq(Nat)
  OBVIOUS
<1>2. IsHeap(heap)
  BY <1>1 DEF Init, IsHeap
<1> QED
  BY <1>2 DEF Init, IInv, Types, Path, OnceOnStack, ParentsOnStack

\* A step that leaves the stack and the set alone.
LEMMA QuietKeeps ==
  ASSUME IInv, UNCHANGED <<stack, parents>>, IsHeap(heap'),
         result' \in Nat \cup {Failed, Nothing}
  PROVE  IInv'
  BY DEF IInv, Types, Path, OnceOnStack, ParentsOnStack

\* A level returns.
LEMMA LeaveKeeps ==
  ASSUME IInv, stack # << >>, NEW r \in Nat \cup {Failed, Nothing}, Leave(r),
         UNCHANGED heap
  PROVE  IInv'
<1>1. stack' \in Seq(Frames) /\ Path'
  BY LeaveKeepsPath
<1>2. result' = r
  BY DEF Leave, Return
<1> QED
  BY <1>1, <1>2 DEF IInv, Types

LEMMA NextPreserves == IInv /\ [Next]_vars => IInv'
<1> SUFFICES ASSUME IInv, [Next]_vars PROVE IInv'
  OBVIOUS
<1>1. ASSUME Call \/ CallStarved \/ Finish \/ Knot \/ EnterFails \/ DumpLeaf PROVE IInv'
  <2>1. /\ UNCHANGED <<stack, parents, heap>>
        /\ result' \in {result, Failed, Done}
    BY <1>1 DEF Call, CallStarved, Finish, Knot, EnterFails, DumpLeaf, Return
  <2> QED
    BY <2>1, QuietKeeps DEF IInv, Types, Done
<1>2. ASSUME CopyLeaf PROVE IInv'
  <2>1. UNCHANGED <<stack, parents>>
    BY <1>2 DEF CopyLeaf
  <2>2. IsHeap(heap')
    BY <1>2, MakeKeepsHeap DEF CopyLeaf, IInv, Types
  <2>3. result' \in Nat \cup {Failed, Nothing}
    BY <1>2, FreshIsNat DEF CopyLeaf, Return, Literal
  <2> QED
    BY <2>1, <2>2, <2>3, QuietKeeps
<1>3. ASSUME Enter PROVE IInv'
  <2> DEFINE f == [node |-> visit, index |-> 1,
                   copy |-> IF Copying THEN Fresh ELSE Nothing]
  <2>1. /\ f \in Frames
        /\ f.node = visit
    BY <1>3, FreshIsNat DEF Enter, Frames
  <2>2. /\ visit \notin parents
        /\ stack' = Append(stack, f)
        /\ parents' = parents \cup {visit}
        /\ UNCHANGED result
    BY <1>3 DEF Enter, MeetsParent
  <2>3. stack' \in Seq(Frames) /\ Path'
    <3> HIDE DEF f
    <3> QED
      BY <2>1, <2>2, PushKeepsPath
  <2>4. IsHeap(heap')
    BY <1>3, MakeKeepsHeap DEF Enter, IInv, Types
  <2> QED
    BY <2>2, <2>3, <2>4 DEF IInv, Types
<1>4. ASSUME Descend PROVE IInv'
  <2>1. UNCHANGED heap /\ stack # << >>
    BY <1>4 DEF Descend, InLoop
  <2>2. UNCHANGED <<stack, parents, result>> \/ Leave(Failed)
    BY <1>4 DEF Descend, Unwind
  <2>3. CASE UNCHANGED <<stack, parents, result>>
    BY <2>1, <2>3, QuietKeeps DEF IInv, Types
  <2>4. CASE Leave(Failed)
    BY <2>1, <2>4, LeaveKeeps
  <2> QED
    BY <2>2, <2>3, <2>4
<1>5. ASSUME Ascend PROVE IInv'
  <2>1. /\ stack # << >>
        /\ UNCHANGED parents
        /\ stack' = [stack EXCEPT ![Len(stack)].index = @ + 1]
        /\ result' = Nothing
        /\ result \in Nat
    BY <1>5 DEF Ascend, InLoop, IInv, Types
  <2>2. stack' \in Seq(Frames) /\ Path'
    BY <2>1, TurnKeepsPath
  <2>3. IsHeap(heap')
    <3>1. \/ \E cell : heap' = [heap EXCEPT ![Top.copy] = cell]
          \/ UNCHANGED heap
      BY <1>5 DEF Ascend
    <3>2. CASE UNCHANGED heap
      BY <3>2 DEF IInv, Types
    <3>3. ASSUME NEW cell, heap' = [heap EXCEPT ![Top.copy] = cell]
          PROVE  IsHeap(heap')
      BY <3>3, PutKeepsHeap
    <3> QED
      BY <3>1, <3>2, <3>3
  <2> QED
    BY <2>1, <2>2, <2>3 DEF IInv, Types
<1>6. ASSUME AscendFails \/ PassFailure PROVE IInv'
  <2>1. UNCHANGED heap /\ stack # << >> /\ Leave(Failed)
    BY <1>6 DEF AscendFails, PassFailure, InLoop, Unwind
  <2> QED
    BY <2>1, LeaveKeeps
<1>7. ASSUME Complete PROVE IInv'
  <2>1. UNCHANGED heap /\ stack # << >>
    BY <1>7 DEF Complete, InLoop
  <2>2. Top.copy \in Nat \cup {Nothing}
    <3>1. Len(stack) \in Nat \ {0} /\ stack[Len(stack)] \in Frames
      BY <2>1 DEF IInv, Types
    <3> QED
      BY <3>1 DEF Top, Last, Frames
  <2>3. \E r \in Nat \cup {Failed, Nothing} : Leave(r)
    BY <1>7, <2>2 DEF Complete, Unwind, Done
  <2> QED
    BY <2>1, <2>3, LeaveKeeps
<1>8. CASE UNCHANGED vars
  BY <1>8, QuietKeeps DEF vars, IInv, Types
<1> QED
  BY <1>1, <1>2, <1>3, <1>4, <1>5, <1>6, <1>7, <1>8 DEF Next

-----------------------------------------------------------------------------
\* A sequence without repetitions is as long as the set of its items is large.
LEMMA NodesCounted ==
  ASSUME IInv
  PROVE  IsFiniteSet(parents) /\ Cardinality(parents) = Len(stack)
<1> DEFINE n == Len(stack)
           node == [i \in 1 .. n |-> stack[i].node]
<1>1. n \in Nat
  BY DEF IInv, Types
<1>2. node \in [1 .. n -> parents]
  BY DEF IInv, Path, ParentsOnStack
<1>3. \A i, j \in 1 .. n : node[i] = node[j] => i = j
  BY DEF IInv, Path, OnceOnStack
<1>4. \A p \in parents : \E i \in 1 .. n : node[i] = p
  BY DEF IInv, Path, ParentsOnStack
<1> HIDE DEF n, node
<1>5. node \in Bijection(1 .. n, parents)
  BY <1>2, <1>3, <1>4 DEF Bijection, Injection, Surjection, IsInjective
<1>6. ExistsBijection(1 .. n, parents)
  BY <1>5 DEF ExistsBijection
<1>7. IsFiniteSet(parents) /\ Cardinality(parents) = n
  BY <1>1, <1>6, FS_NatBijection, FS_CountingElements
<1> QED
  BY <1>7 DEF n

THEOREM Inductive == Spec => []IInv
  BY InitEstablishes, NextPreserves, PTL DEF Spec

\* Whatever the values that are copied or dumped contain, PointerSet holds the
\* containers that the recursion of do_deep_copy or do_dump is inside of, and no
\* others, after every good and every failing return.
THEOREM ParentsFollowStack == Spec => []ParentsAreStack
<1>1. IInv => ParentsAreStack
  <2> SUFFICES ASSUME IInv PROVE ParentsAreStack
    OBVIOUS
  <2>1. {f.node : f \in ToSet(stack)} = {stack[i].node : i \in 1 .. Len(stack)}
    BY DEF ToSet, IInv, Types
  <2> QED
    BY <2>1, NodesCounted DEF ParentsAreStack, IInv, Path, ParentsOnStack
<1> QED
  BY <1>1, Inductive, PTL

\* The recursion is never deeper than there are containers, however they are
\* knotted.
DepthBounded == Len(stack) <= Cardinality(Containers)

THEOREM DepthIsBounded == Spec => []DepthBounded
<1>1. IInv => DepthBounded
  <2> SUFFICES ASSUME IInv PROVE DepthBounded
    OBVIOUS
  <2>1. parents \in SUBSET Containers
    <3>1. \A i \in 1 .. Len(stack) : stack[i] \in Frames
      BY DEF IInv, Types
    <3>2. \A f \in Frames : f.node \in Containers
      BY DEF Frames
    <3>3. \A i \in 1 .. Len(stack) : stack[i].node \in Containers
      BY <3>1, <3>2
    <3> QED
      BY <3>3 DEF IInv, Path, ParentsOnStack
  <2>2. Cardinality(parents) <= Cardinality(Containers)
    BY <2>1, FiniteAssumption, FS_Subset
  <2> QED
    BY <2>2, NodesCounted DEF DepthBounded
<1> QED
  BY <1>1, Inductive, PTL
-----------------------------------------------------------------------------
(* What can be reached.                                                    *)

LEMMA ContentsAreReached ==
  ASSUME NEW g, NEW x
  PROVE  Inside(g, x) \subseteq Reachable(g, x)
  BY DEF Reachable, Inside

LEMMA ReachedIsClosed ==
  ASSUME NEW g, NEW x
  PROVE  IsClosed(g, Reachable(g, x))
  BY DEF Reachable, IsClosed, Inside

LEMMA ReachesOn ==
  ASSUME NEW g, NEW x, NEW d \in Reachable(g, x)
  PROVE  Reachable(g, d) \subseteq Reachable(g, x)
<1> DEFINE R == Reachable(g, x)
<1>1. R \in SUBSET Containers
  BY DEF Reachable
<1>2. Inside(g, d) \subseteq R /\ IsClosed(g, R)
  BY ReachedIsClosed DEF IsClosed
<1> HIDE DEF R
<1>3. Reachable(g, d) \subseteq R
  BY <1>1, <1>2 DEF Reachable
<1> QED
  BY <1>3 DEF R

\* What can be reached is reached through one of the contents.
LEMMA ReachesThrough ==
  ASSUME NEW g, NEW x, NEW c \in Reachable(g, x)
  PROVE  \E k \in Inside(g, x) : c \in {k} \cup Reachable(g, k)
<1> DEFINE R == {d \in Containers : \E k \in Inside(g, x) : d \in {k} \cup Reachable(g, k)}
<1>1. Inside(g, x) \subseteq R
  BY DEF Inside
<1>2. IsClosed(g, R)
  <2> SUFFICES ASSUME NEW d \in R, NEW e \in Inside(g, d) PROVE e \in R
    BY DEF IsClosed
  <2>1. PICK k \in Inside(g, x) : d \in {k} \cup Reachable(g, k)
    OBVIOUS
  <2>2. e \in Reachable(g, k)
    BY <2>1, ContentsAreReached, ReachedIsClosed DEF IsClosed
  <2>3. e \in Containers
    BY DEF Inside
  <2> QED
    BY <2>2, <2>3
<1>3. R \in SUBSET Containers
  OBVIOUS
<1> HIDE DEF R
<1>4. c \in R
  BY <1>1, <1>2, <1>3 DEF Reachable
<1> QED
  BY <1>4 DEF R

LEMMA LeavesAreUntied ==
  ASSUME NEW g, NEW x \in Leaves
  PROVE  ~ Tied(g, x)
<1>1. Inside(g, x) = {}
  BY LeavesAssumption DEF Inside
<1>2. Reachable(g, x) = {}
  BY <1>1, ReachesThrough
<1> QED
  BY <1>2 DEF Tied

\* A container whose contents are free of knots is free of knots itself: a cycle
\* through it goes through one of them.
LEMMA UntiedFromContents ==
  ASSUME NEW g, NEW x, \A k \in Inside(g, x) : ~ Tied(g, k)
  PROVE  ~ Tied(g, x)
<1> SUFFICES ASSUME NEW c \in {x} \cup Reachable(g, x), c \in Reachable(g, c) PROVE FALSE
  BY DEF Tied
<1>1. c \in Reachable(g, x)
  OBVIOUS
<1>2. PICK k \in Inside(g, x) : c \in {k} \cup Reachable(g, k)
  BY <1>1, ReachesThrough
<1>3. Tied(g, k)
  BY <1>2 DEF Tied
<1> QED
  BY <1>2, <1>3

-----------------------------------------------------------------------------
(* Where the walk is, and what it has been through.                        *)

IsNextOf(g, f, x) == f.index <= Len(g[f.node]) /\ g[f.node][f.index] = x

\* Each call is about one of the contents of the container that the one below it
\* on the stack is about.
Nested ==
  /\ stack # << >> => stack[1].node = root
  /\ \A i \in 1 .. Len(stack) : stack[i].index \in Nat \ {0}
  /\ \A i \in 1 .. Len(stack) - 1 : IsNextOf(graph, stack[i], stack[i + 1].node)

Lineage ==
  /\ \A i \in 1 .. Len(stack) : stack[i].node \in {root} \cup Reachable(graph, root)
  /\ \A i, j \in 1 .. Len(stack) : i < j => stack[j].node \in Reachable(graph, stack[i].node)

\* There is no knot in what the loops have been through.
UntiedSoFar ==
  \A i \in 1 .. Len(stack) : \A j \in 1 .. Len(graph[stack[i].node]) :
    j < stack[i].index => ~ Tied(graph, graph[stack[i].node][j])

Course == Nested /\ Lineage /\ UntiedSoFar

Asked ==
  visit # Nothing =>
    /\ status = "running"
    /\ result = Nothing
    /\ visit \in Containers \cup Leaves
    /\ stack = << >> => visit = root
    /\ stack # << >> => IsNextOf(graph, stack[Len(stack)], visit)

\* A call that went well met no knot, and one that failed met one, or something
\* else failed.
Answered ==
  /\ result \notin {Nothing, Failed} =>
       /\ stack = << >> => ~ Tied(graph, root)
       /\ stack # << >> =>
            \E x \in Containers \cup Leaves : IsNextOf(graph, stack[Len(stack)], x) /\ ~ Tied(graph, x)
  /\ result = Failed => broken \/ Knotted

Ended ==
  /\ status # "running" => stack = << >> /\ visit = Nothing
  /\ status = "called" => result = Nothing
  /\ StopsAtKnots

Given == graph \in Graphs /\ root \in Containers \cup Leaves

KnotInv == Given /\ Course /\ Asked /\ Answered /\ Ended

\* A step that leaves the stack alone.
LEMMA QuietKeepsCourse ==
  ASSUME Course, UNCHANGED <<graph, root, stack>>
  PROVE  Course'
  BY DEF Course, Nested, Lineage, UntiedSoFar, IsNextOf

LEMMA EnterKeepsCourse ==
  ASSUME IInv, Given, Course, Asked, Enter
  PROVE  Course'
<1> DEFINE n == Len(stack)
           f == [node |-> visit, index |-> 1, copy |-> IF Copying THEN Fresh ELSE Nothing]
<1>1. /\ f.node = visit /\ f.index = 1
      /\ stack' = Append(stack, f)
      /\ UNCHANGED <<graph, root>>
      /\ visit \in Containers /\ visit # Nothing
  BY NothingAssumption DEF Enter
<1>2. /\ n \in Nat
      /\ Len(stack') = n + 1
      /\ \A i \in 1 .. n : stack'[i] = stack[i] /\ stack[i] \in Frames
      /\ stack'[n + 1] = f
  BY <1>1 DEF IInv, Types
<1> HIDE DEF f
<1>3. Nested'
  BY <1>1, <1>2 DEF Course, Nested, Asked, IsNextOf
<1>4. n # 0 => visit \in Reachable(graph, stack[n].node)
  <2> SUFFICES ASSUME n # 0 PROVE visit \in Reachable(graph, stack[n].node)
    OBVIOUS
  <2>1. stack[n].index <= Len(graph[stack[n].node]) /\ graph[stack[n].node][stack[n].index] = visit
    BY <1>1, <1>2 DEF Asked, IsNextOf
  <2>2. stack[n].index \in Nat \ {0} /\ stack[n].node \in Containers
    BY <1>2 DEF Course, Nested, Frames
  <2>3. graph[stack[n].node] \in Seq(Containers \cup Leaves)
    BY <2>2, GraphsAssumption DEF Given
  <2>4. visit \in ToSet(graph[stack[n].node])
    BY <2>1, <2>2, <2>3 DEF ToSet
  <2> QED
    BY <1>1, <2>2, <2>4, ContentsAreReached DEF Inside
<1>5. \A i \in 1 .. n : visit \in Reachable(graph, stack[i].node)
  <2> SUFFICES ASSUME NEW i \in 1 .. n PROVE visit \in Reachable(graph, stack[i].node)
    OBVIOUS
  <2>1. CASE i = n
    BY <1>2, <1>4, <2>1
  <2>2. CASE i # n
    <3>1. stack[n].node \in Reachable(graph, stack[i].node)
      BY <1>2, <2>2 DEF Course, Lineage
    <3> QED
      BY <1>2, <1>4, <3>1, ReachesOn
  <2> QED
    BY <2>1, <2>2
<1>6. visit \in {root} \cup Reachable(graph, root)
  <2>1. CASE n = 0
    BY <1>1, <1>2, <2>1 DEF Asked
  <2>2. CASE n # 0
    <3>1. stack[1].node = root
      BY <1>2, <2>2 DEF Course, Nested
    <3> QED
      BY <1>2, <1>5, <2>2, <3>1
  <2> QED
    BY <2>1, <2>2
<1>7. Lineage'
  <2>1. \A i \in 1 .. n + 1 : stack'[i].node \in {root} \cup Reachable(graph, root)
    BY <1>1, <1>2, <1>6 DEF Course, Lineage
  <2>2. \A i, j \in 1 .. n + 1 : i < j => stack'[j].node \in Reachable(graph, stack'[i].node)
    <3> SUFFICES ASSUME NEW i \in 1 .. n + 1, NEW j \in 1 .. n + 1, i < j
                 PROVE  stack'[j].node \in Reachable(graph, stack'[i].node)
      OBVIOUS
    <3>1. i \in 1 .. n /\ (j \in 1 .. n \/ j = n + 1)
      BY <1>2
    <3> QED
      BY <1>1, <1>2, <1>5, <3>1 DEF Course, Lineage
  <2> QED
    BY <1>1, <1>2, <2>1, <2>2 DEF Lineage
<1>8. UntiedSoFar'
  <2> SUFFICES ASSUME NEW i \in 1 .. n + 1, NEW j \in 1 .. Len(graph[stack'[i].node]),
                      j < stack'[i].index
               PROVE  ~ Tied(graph, graph[stack'[i].node][j])
    BY <1>1, <1>2 DEF UntiedSoFar
  <2>1. i \in 1 .. n
    BY <1>1, <1>2
  <2> QED
    BY <1>2, <2>1 DEF Course, UntiedSoFar
<1> QED
  BY <1>3, <1>7, <1>8 DEF Course

\* What is left of the stack when a level returns.
LEMMA StackLeft ==
  ASSUME IInv, stack # << >>, NEW r, Leave(r)
  PROVE  /\ Len(stack) \in Nat \ {0}
         /\ Len(stack') = Len(stack) - 1
         /\ \A i \in 1 .. Len(stack) - 1 : stack'[i] = stack[i]
<1>1. /\ Len(stack) \in Nat \ {0}
      /\ stack' = SubSeq(stack, 1, Len(stack) - 1)
  BY DEF IInv, Types, Leave, Front
<1>2. /\ Len(stack') = Len(stack) - 1
      /\ \A i \in 1 .. Len(stack) - 1 : stack'[i] = stack[i]
  <2> DEFINE n == Len(stack)
  <2>1. n \in Nat \ {0} /\ n - 1 \in Int /\ \A i \in 1 .. n - 1 : stack[i] \in Frames
    BY <1>1 DEF IInv, Types
  <2> HIDE DEF n
  <2>2. /\ Len(SubSeq(stack, 1, n - 1)) = n - 1
        /\ \A i \in 1 .. n - 1 : SubSeq(stack, 1, n - 1)[i] = stack[i]
    BY <2>1, SubSeqProperties
  <2> QED
    BY <1>1, <2>2 DEF n
<1> QED
  BY <1>1, <1>2

LEMMA LeaveKeepsCourse ==
  ASSUME IInv, Course, stack # << >>, NEW r, Leave(r), UNCHANGED <<graph, root>>
  PROVE  Course'
<1>1. /\ Len(stack) \in Nat \ {0}
      /\ Len(stack') = Len(stack) - 1
      /\ \A i \in 1 .. Len(stack) - 1 : stack'[i] = stack[i]
  BY StackLeft
<1>2. stack' \in Seq(Frames)
  BY LeaveKeepsPath
<1>3. Nested'
  <2>1. stack' # << >> => stack'[1].node = root
    BY <1>1, <1>2 DEF Course, Nested
  <2>2. \A i \in 1 .. Len(stack') : stack'[i].index \in Nat \ {0}
    BY <1>1 DEF Course, Nested
  <2>3. \A i \in 1 .. Len(stack') - 1 : IsNextOf(graph, stack'[i], stack'[i + 1].node)
    <3> SUFFICES ASSUME NEW i \in 1 .. Len(stack') - 1
                 PROVE  IsNextOf(graph, stack'[i], stack'[i + 1].node)
      OBVIOUS
    <3>1. /\ stack'[i] = stack[i] /\ stack'[i + 1] = stack[i + 1]
          /\ i \in 1 .. Len(stack) - 1
      BY <1>1
    <3> QED
      BY <3>1 DEF Course, Nested
  <2> QED
    BY <2>1, <2>2, <2>3 DEF Nested, IsNextOf
<1>4. Lineage'
  BY <1>1 DEF Course, Lineage
<1>5. UntiedSoFar'
  BY <1>1 DEF Course, UntiedSoFar
<1> QED
  BY <1>3, <1>4, <1>5 DEF Course

\* What the value that a level returns to asked for is what the level was about.
LEMMA LeftToAsker ==
  ASSUME IInv, Course, stack # << >>, NEW r, Leave(r), UNCHANGED <<graph, root>>
  PROVE  /\ stack' = << >> => stack[Len(stack)].node = root
         /\ stack' # << >> => IsNextOf(graph, stack'[Len(stack')], stack[Len(stack)].node)
<1>1. /\ Len(stack) \in Nat \ {0}
      /\ Len(stack') = Len(stack) - 1
      /\ \A i \in 1 .. Len(stack) - 1 : stack'[i] = stack[i]
  BY StackLeft
<1>2. stack' \in Seq(Frames)
  BY LeaveKeepsPath
<1>3. CASE Len(stack) = 1
  BY <1>1, <1>2, <1>3 DEF Course, Nested
<1>4. CASE Len(stack) # 1
  <2>1. /\ Len(stack) - 1 \in 1 .. Len(stack) - 1
        /\ stack'[Len(stack')] = stack[Len(stack) - 1]
        /\ (Len(stack) - 1) + 1 = Len(stack)
    BY <1>1, <1>4
  <2>2. IsNextOf(graph, stack[Len(stack) - 1], stack[(Len(stack) - 1) + 1].node)
    BY <2>1 DEF Course, Nested
  <2>3. stack' # << >>
    BY <1>1, <1>2, <1>4
  <2> QED
    BY <2>1, <2>2, <2>3
<1> QED
  BY <1>3, <1>4
LEMMA TurnKeepsCourse ==
  ASSUME IInv, Course, Answered, stack # << >>, result \notin {Nothing, Failed},
         UNCHANGED <<graph, root>>,
         stack' = [stack EXCEPT ![Len(stack)].index = @ + 1]
  PROVE  Course'
<1> DEFINE n == Len(stack)
<1>1. /\ n \in Nat \ {0}
      /\ stack \in Seq(Frames)
      /\ stack[n].index \in Nat \ {0}
  BY DEF IInv, Types, Course, Nested
<1>2. /\ Len(stack') = n
      /\ \A i \in 1 .. n : stack'[i].node = stack[i].node
      /\ \A i \in 1 .. n - 1 : stack'[i] = stack[i]
      /\ stack'[n].index = stack[n].index + 1
  BY <1>1 DEF Frames
<1>3. PICK x \in Containers \cup Leaves : IsNextOf(graph, stack[n], x) /\ ~ Tied(graph, x)
  BY DEF Answered
<1>4. Nested'
  <2>1. stack'[1].node = root
    BY <1>1, <1>2 DEF Course, Nested
  <2>2. \A i \in 1 .. n : stack'[i].index \in Nat \ {0}
    <3> SUFFICES ASSUME NEW i \in 1 .. n PROVE stack'[i].index \in Nat \ {0}
      OBVIOUS
    <3>1. i = n \/ i \in 1 .. n - 1
      BY <1>1
    <3> QED
      BY <1>1, <1>2, <3>1 DEF Course, Nested
  <2>3. \A i \in 1 .. n - 1 : IsNextOf(graph, stack'[i], stack'[i + 1].node)
    BY <1>1, <1>2 DEF Course, Nested
  <2> QED
    BY <1>1, <1>2, <2>1, <2>2, <2>3 DEF Nested, IsNextOf
<1>5. Lineage'
  BY <1>1, <1>2 DEF Course, Lineage
<1>6. UntiedSoFar'
  <2> SUFFICES ASSUME NEW i \in 1 .. n, NEW j \in 1 .. Len(graph[stack[i].node]),
                      j < stack'[i].index
               PROVE  ~ Tied(graph, graph[stack[i].node][j])
    BY <1>1, <1>2 DEF UntiedSoFar
  <2>1. CASE j < stack[i].index
    BY <2>1 DEF Course, UntiedSoFar
  <2>2. CASE ~ (j < stack[i].index)
    <3>1. i = n
      BY <1>1, <1>2, <2>2
    <3>2. j = stack[n].index
      BY <1>1, <1>2, <2>2, <3>1
    <3> QED
      BY <1>3, <3>1, <3>2 DEF IsNextOf
  <2> QED
    BY <2>1, <2>2
<1> QED
  BY <1>4, <1>5, <1>6 DEF Course

-----------------------------------------------------------------------------
(* The steps.                                                              *)

LEMMA InitKnots == Init => KnotInv
  BY NothingAssumption
  DEF Init, KnotInv, Given, Course, Nested, Lineage, UntiedSoFar, Asked, Answered,
      Ended, StopsAtKnots, Failed

\* The container that is visited again is in a knot: it is on the stack, and
\* everything above it there is reached from it.
LEMMA MetAgain ==
  ASSUME IInv, KnotInv, visit \in Containers, visit \in parents
  PROVE  Knotted
<1> DEFINE n == Len(stack)
<1>1. PICK i \in 1 .. n : stack[i].node = visit
  BY DEF IInv, Path, ParentsOnStack
<1>2. /\ n \in Nat \ {0} /\ stack[n] \in Frames /\ visit # Nothing
      /\ \A j \in 1 .. n : j = n \/ j < n
  BY <1>1, NothingAssumption DEF IInv, Types
<1>3. /\ stack[n].index \in Nat \ {0} /\ stack[n].node \in Containers
      /\ stack[n].index <= Len(graph[stack[n].node])
      /\ graph[stack[n].node][stack[n].index] = visit
  BY <1>2 DEF KnotInv, Asked, IsNextOf, Course, Nested, Frames
<1>4. visit \in Reachable(graph, stack[n].node)
  <2>1. graph[stack[n].node] \in Seq(Containers \cup Leaves)
    BY <1>3, GraphsAssumption DEF KnotInv, Given
  <2>2. visit \in ToSet(graph[stack[n].node])
    BY <1>3, <2>1 DEF ToSet
  <2> QED
    BY <1>3, <2>2, ContentsAreReached DEF Inside
<1>5. visit \in Reachable(graph, visit)
  <2>1. CASE i = n
    BY <1>1, <1>4, <2>1
  <2>2. CASE i < n
    <3>1. stack[n].node \in Reachable(graph, visit)
      BY <1>1, <1>2, <2>2 DEF KnotInv, Course, Lineage
    <3> QED
      BY <1>4, <3>1, ReachesOn
  <2> QED
    BY <1>1, <1>2, <2>1, <2>2
<1>6. visit \in {root} \cup Reachable(graph, root)
  BY <1>1 DEF KnotInv, Course, Lineage
<1> QED
  BY <1>5, <1>6 DEF Knotted, Tied

\* A level fails, because something has failed or because of a knot.
LEMMA FailureIsBlamed ==
  ASSUME IInv, KnotInv, stack # << >>, Leave(Failed), UNCHANGED <<graph, root, task>>,
         status = "running", status' = status, broken' \/ Knotted
  PROVE  KnotInv'
<1>1. Course'
  BY LeaveKeepsCourse DEF KnotInv
<1>2. visit' = Nothing /\ result' = Failed /\ Failed # Nothing
  BY NothingAssumption DEF Leave, Return, Failed
<1>3. Asked' /\ Ended'
  BY <1>2 DEF Asked, Ended, StopsAtKnots
<1>4. Answered'
  BY <1>2 DEF Answered, Knotted
<1> QED
  BY <1>1, <1>3, <1>4 DEF KnotInv, Given

\* A value that was visited is returned from, and is not entered.
LEMMA VisitAnswered ==
  ASSUME IInv, KnotInv, visit # Nothing, UNCHANGED <<graph, root, task, stack, status>>,
         NEW r, Return(r),
         r # Failed => visit \in Leaves,
         r = Failed => broken' \/ Knotted
  PROVE  KnotInv'
<1>1. Course'
  BY QuietKeepsCourse DEF KnotInv
<1>2. visit' = Nothing /\ result' = r /\ status = "running"
  BY DEF Return, KnotInv, Asked
<1>3. Asked' /\ Ended'
  BY <1>2 DEF Asked, Ended, StopsAtKnots
<1>4. Answered'
  <2>1. CASE r = Failed
    BY <1>2, <2>1 DEF Answered, Knotted
  <2>2. CASE r # Failed
    <3>1. visit \in Leaves /\ ~ Tied(graph, visit)
      BY <2>2, LeavesAreUntied
    <3>2. stack = << >> => ~ Tied(graph, root)
      BY <3>1 DEF KnotInv, Asked
    <3>3. stack # << >> =>
            \E x \in Containers \cup Leaves : IsNextOf(graph, stack[Len(stack)], x) /\ ~ Tied(graph, x)
      BY <3>1 DEF KnotInv, Asked
    <3> QED
      BY <1>2, <2>2, <3>2, <3>3 DEF Answered
  <2> QED
    BY <2>1, <2>2
<1> QED
  BY <1>1, <1>3, <1>4 DEF KnotInv, Given

\* A level that has been through its contents has met no knot.
LEMMA ThroughIsUntied ==
  ASSUME IInv, KnotInv, stack # << >>,
         stack[Len(stack)].index > Len(graph[stack[Len(stack)].node])
  PROVE  ~ Tied(graph, stack[Len(stack)].node)
<1> DEFINE n == Len(stack)
           c == stack[n].node
<1>1. /\ n \in Nat \ {0} /\ stack[n] \in Frames
      /\ c \in Containers /\ stack[n].index \in Nat \ {0}
  <2>1. n \in Nat \ {0} /\ stack[n] \in Frames
    BY DEF IInv, Types
  <2> QED
    BY <2>1 DEF Frames, KnotInv, Course, Nested
<1>2. graph[c] \in Seq(Containers \cup Leaves)
  BY <1>1, GraphsAssumption DEF KnotInv, Given
<1>3. \A j \in 1 .. Len(graph[c]) : ~ Tied(graph, graph[c][j])
  BY <1>1, <1>2 DEF KnotInv, Course, UntiedSoFar
<1>4. \A k \in Inside(graph, c) : ~ Tied(graph, k)
  BY <1>1, <1>2, <1>3 DEF Inside, ToSet
<1> QED
  BY <1>4, UntiedFromContents
LEMMA KnotStep == IInv /\ KnotInv /\ [Next]_vars => KnotInv'
<1> SUFFICES ASSUME IInv, KnotInv, [Next]_vars PROVE KnotInv'
  OBVIOUS
<1> USE NothingAssumption
<1>1. ASSUME Call PROVE KnotInv'
  <2>1. stack = << >> /\ result = Nothing /\ visit = Nothing /\ UNCHANGED <<graph, root, task, stack, result, broken>>
    BY <1>1 DEF Call, KnotInv, Ended
  <2>2. Course' /\ Given'
    BY <2>1, QuietKeepsCourse DEF KnotInv, Given
  <2>3. Answered'
    BY <2>1 DEF Answered, Failed
  <2>4. CASE visit' = root /\ status' = "running"
    BY <2>1, <2>2, <2>3, <2>4 DEF KnotInv, Given, Asked, Ended, StopsAtKnots
  <2>5. CASE /\ ~ (Copying \/ task.any \/ root \in Containers)
             /\ status' = "failed" /\ UNCHANGED visit
    <3>1. Asked'
      BY <2>1, <2>5 DEF Asked
    <3>2. Ended'
      BY <2>1, <2>5 DEF Ended, StopsAtKnots, Copying, KnotInv, Given
    <3> QED
      BY <2>2, <2>3, <3>1, <3>2 DEF KnotInv
  <2> QED
    BY <1>1, <2>4, <2>5 DEF Call
<1>2. ASSUME CallStarved PROVE KnotInv'
  <2>1. /\ stack = << >> /\ result = Nothing /\ visit = Nothing /\ broken' /\ status' = "failed"
        /\ UNCHANGED <<graph, root, task, stack, result, visit>>
    BY <1>2 DEF CallStarved, KnotInv, Ended
  <2>2. Course' /\ Given'
    BY <2>1, QuietKeepsCourse DEF KnotInv, Given
  <2> QED
    BY <2>1, <2>2 DEF KnotInv, Asked, Answered, Ended, StopsAtKnots, Failed
<1>3. ASSUME Finish PROVE KnotInv'
  <2>1. /\ stack = << >> /\ result # Nothing /\ status = "running"
        /\ status' = (IF result = Failed THEN "failed" ELSE "ok")
        /\ UNCHANGED <<graph, root, task, stack, result, visit, broken>>
    BY <1>3 DEF Finish
  <2>2. visit = Nothing
    BY <2>1 DEF KnotInv, Asked
  <2>3. Course' /\ Given'
    BY <2>1, QuietKeepsCourse DEF KnotInv, Given
  <2>4. Answered' /\ Asked'
    BY <2>1, <2>2 DEF KnotInv, Answered, Asked, Knotted
  <2>5. Ended'
    BY <2>1, <2>2 DEF KnotInv, Answered, Ended, StopsAtKnots, Knotted
  <2> QED
    BY <2>3, <2>4, <2>5 DEF KnotInv
<1>4. ASSUME CopyLeaf PROVE KnotInv'
  <2>1. /\ visit # Nothing /\ visit \in Leaves
        /\ UNCHANGED <<graph, root, task, stack, status>>
    BY <1>4 DEF CopyLeaf, Leaves
  <2>2. \E r : Return(r) /\ (r = Failed => broken')
    <3>1. CASE Return(Literal)
      BY <3>1 DEF Literal, Failed
    <3>2. CASE Return(Fresh)
      BY <3>2 DEF Fresh, Failed, IInv, Types
    <3>3. CASE Return(Failed) /\ broken' = TRUE
      BY <3>3
    <3> QED
      BY <1>4, <3>1, <3>2, <3>3 DEF CopyLeaf
  <2> QED
    BY <2>1, <2>2, VisitAnswered
<1>5. ASSUME DumpLeaf PROVE KnotInv'
  <2>1. /\ visit # Nothing /\ visit \in Leaves
        /\ UNCHANGED <<graph, root, task, stack, status>>
    BY <1>5 DEF DumpLeaf, Leaves
  <2>2. \E r : Return(r) /\ (r = Failed => broken')
    BY <1>5 DEF DumpLeaf, Refused, Done, Failed
  <2> QED
    BY <2>1, <2>2, VisitAnswered
<1>6. ASSUME Knot PROVE KnotInv'
  <2>1. Knotted
    BY <1>6, MetAgain DEF Knot, MeetsParent
  <2>2. /\ visit # Nothing /\ Return(Failed)
        /\ UNCHANGED <<graph, root, task, stack, status>>
    BY <1>6 DEF Knot
  <2> QED
    BY <2>1, <2>2, VisitAnswered
<1>7. ASSUME EnterFails PROVE KnotInv'
  <2>1. /\ visit # Nothing /\ Return(Failed) /\ broken'
        /\ UNCHANGED <<graph, root, task, stack, status>>
    BY <1>7 DEF EnterFails, RefusedOrSpace
  <2> QED
    BY <2>1, VisitAnswered
<1>8. ASSUME Enter PROVE KnotInv'
  <2>1. /\ visit # Nothing /\ visit' = Nothing
        /\ UNCHANGED <<graph, root, task, result, status>>
    BY <1>8 DEF Enter
  <2>2. result = Nothing /\ status = "running"
    BY <2>1 DEF KnotInv, Asked
  <2>3. Course' /\ Given'
    BY <1>8, <2>1, EnterKeepsCourse DEF KnotInv, Given
  <2> QED
    BY <2>1, <2>2, <2>3 DEF KnotInv, Asked, Answered, Ended, StopsAtKnots, Failed
<1>9. ASSUME Descend PROVE KnotInv'
  <2>1. /\ stack # << >> /\ status = "running" /\ visit = Nothing /\ result = Nothing
        /\ UNCHANGED <<graph, root, task, status>>
        /\ stack[Len(stack)].index <= Len(graph[stack[Len(stack)].node])
    BY <1>9 DEF Descend, InLoop, Top, Last, Kids
  <2>2. CASE visit' = Kids[Top.index] /\ UNCHANGED <<stack, parents, result, live, broken>>
    <3>1. Course' /\ Given'
      BY <2>1, <2>2, QuietKeepsCourse DEF KnotInv, Given
    <3>2. /\ visit' = graph[stack[Len(stack)].node][stack[Len(stack)].index]
          /\ visit' \in Containers \cup Leaves
      <4>1. stack[Len(stack)].index \in Nat \ {0} /\ stack[Len(stack)] \in Frames
        BY <2>1 DEF IInv, Types, KnotInv, Course, Nested
      <4>2. graph[stack[Len(stack)].node] \in Seq(Containers \cup Leaves)
        BY <4>1, GraphsAssumption DEF KnotInv, Given, Frames
      <4> QED
        BY <2>1, <2>2, <4>1, <4>2 DEF Kids, Top, Last
    <3>3. Asked'
      BY <2>1, <2>2, <3>2 DEF Asked, IsNextOf
    <3>4. Answered' /\ Ended'
      BY <2>1, <2>2 DEF Answered, Ended, StopsAtKnots, Failed
    <3> QED
      BY <3>1, <3>3, <3>4 DEF KnotInv
  <2>3. CASE Leave(Failed) /\ broken' = TRUE
    BY <2>1, <2>3, FailureIsBlamed
  <2> QED
    BY <1>9, <2>2, <2>3 DEF Descend, Taken, Refused, Unwind
<1>10. ASSUME Ascend PROVE KnotInv'
  <2>1. /\ stack # << >> /\ status = "running" /\ visit = Nothing /\ result \notin {Nothing, Failed}
        /\ UNCHANGED <<graph, root, task, status, visit>>
        /\ stack' = [stack EXCEPT ![Len(stack)].index = @ + 1]
        /\ result' = Nothing
    BY <1>10 DEF Ascend, InLoop
  <2>2. Course' /\ Given'
    BY <2>1, TurnKeepsCourse DEF KnotInv, Given
  <2> QED
    BY <2>1, <2>2 DEF KnotInv, Asked, Answered, Ended, StopsAtKnots, Failed
<1>11. ASSUME AscendFails PROVE KnotInv'
  <2>1. /\ stack # << >> /\ status = "running" /\ Leave(Failed) /\ broken'
        /\ UNCHANGED <<graph, root, task, status>>
    BY <1>11 DEF AscendFails, InLoop, RefusedOrSpace, Unwind
  <2> QED
    BY <2>1, FailureIsBlamed
<1>12. ASSUME PassFailure PROVE KnotInv'
  <2>1. /\ stack # << >> /\ status = "running" /\ Leave(Failed) /\ result = Failed
        /\ UNCHANGED <<graph, root, task, status, broken>>
    BY <1>12 DEF PassFailure, InLoop, Unwind
  <2>2. broken' \/ Knotted
    BY <2>1 DEF KnotInv, Answered
  <2> QED
    BY <2>1, <2>2, FailureIsBlamed
<1>13. ASSUME Complete PROVE KnotInv'
  <2>1. /\ stack # << >> /\ status = "running" /\ visit = Nothing
        /\ UNCHANGED <<graph, root, task, status>>
        /\ stack[Len(stack)].index > Len(graph[stack[Len(stack)].node])
    BY <1>13 DEF Complete, InLoop, Exhausted, Kids, Top, Last
  <2>2. CASE Leave(Failed) /\ broken' = TRUE
    BY <2>1, <2>2, FailureIsBlamed
  <2>3. ASSUME NEW r, Leave(r), UNCHANGED broken, r # Failed PROVE KnotInv'
    <3>1. Course' /\ Given'
      BY <2>1, <2>3, LeaveKeepsCourse DEF KnotInv, Given
    <3>2. visit' = Nothing /\ result' = r
      BY <2>3 DEF Leave, Return
    <3>3. ~ Tied(graph, stack[Len(stack)].node) /\ stack[Len(stack)].node \in Containers
      <4>1. stack[Len(stack)] \in Frames
        BY <2>1 DEF IInv, Types
      <4> QED
        BY <2>1, <4>1, ThroughIsUntied DEF Frames
    <3>4. /\ stack' = << >> => stack[Len(stack)].node = root
          /\ stack' # << >> => IsNextOf(graph, stack'[Len(stack')], stack[Len(stack)].node)
      BY <2>1, <2>3, LeftToAsker DEF KnotInv
    <3>5. Answered'
      <4>1. stack' = << >> => ~ Tied(graph, root)
        BY <3>3, <3>4
      <4>2. stack' # << >> =>
              \E x \in Containers \cup Leaves : IsNextOf(graph, stack'[Len(stack')], x) /\ ~ Tied(graph, x)
        BY <3>3, <3>4
      <4> QED
        BY <2>1, <2>3, <3>2, <4>1, <4>2 DEF Answered, IsNextOf
    <3>6. Asked' /\ Ended'
      BY <2>1, <3>2 DEF Asked, Ended, StopsAtKnots
    <3> QED
      BY <3>1, <3>5, <3>6 DEF KnotInv
  <2>4. Top.copy # Failed /\ Done # Failed
    <3>1. stack[Len(stack)] \in Frames
      BY <2>1 DEF IInv, Types
    <3> QED
      BY <3>1 DEF Top, Last, Frames, Done, Failed
  <2> QED
    BY <1>13, <2>2, <2>3, <2>4 DEF Complete, Taken, Refused, Unwind
<1>14. CASE UNCHANGED vars
  BY <1>14, QuietKeepsCourse
  DEF vars, KnotInv, Given, Asked, Answered, Ended, StopsAtKnots, Knotted, IsNextOf, Copying
<1> QED
  BY <1>1, <1>2, <1>3, <1>4, <1>5, <1>6, <1>7, <1>8, <1>9, <1>10, <1>11, <1>12, <1>13, <1>14
  DEF Next

\* json_deep_copy and json_dump_callback fail at every knot, and where no allocation
\* and no callback fails they fail only there (or refuse a root that is no container):
\* a container that is shared is no reason to stop.
THEOREM FailsAtKnotsOnly == Spec => []StopsAtKnots
<1>1. KnotInv => StopsAtKnots
  BY DEF KnotInv, Ended
<1> QED
  BY <1>1, Inductive, InitKnots, KnotStep, PTL DEF Spec
=============================================================================
