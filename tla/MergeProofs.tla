----------------------------- MODULE MergeProofs -----------------------------
(***************************************************************************)
(* For all graphs of values: json_object_update_recursive never runs out   *)
(* of stack, with knots and with values shared by the two arguments, and   *)
(* although the update changes and frees what it walks through.  When the  *)
(* two have no part in common, it reads nothing freed, leaves the other as *)
(* it was, and, without knots, fails only for want of memory.  json_copy   *)
(* makes a container with the entries of its argument.                     *)
(*                                                                         *)
(* While the call runs, the other objects of the calls in progress are     *)
(* different containers, and PointerSet is the set of them.                *)
(***************************************************************************)
EXTENDS Merge, FiniteSetTheorems, SequenceTheorems, WellFoundedInduction, TLAPS

Calls == [left : Containers, right : Containers, index : Nat \ {0}]

OthersDiffer(frames) ==
  \A i, j \in 1 .. Len(frames) : frames[i].right = frames[j].right => i = j

OthersOf(frames) == {frames[i].right : i \in 1 .. Len(frames)}

Path(frames, set) ==
  /\ frames \in Seq(Calls)
  /\ OthersDiffer(frames)
  /\ set = OthersOf(frames)

\* Objects are containers.  When the call is over, the set is gone and the stack is what it
\* was at that moment.
IInv ==
  /\ Objects \subseteq Containers
  /\ task.call = "update" =>
       /\ Len(stack) \in 0 .. Cardinality(Containers)
       /\ status = "running" => Path(stack, parents)

-----------------------------------------------------------------------------
(* The three things that happen to the stack.                              *)

LEMMA EnterKeepsPath ==
  ASSUME NEW s, NEW set, Path(s, set), NEW f \in Calls, f.right \notin set
  PROVE  Path(Append(s, f), set \cup {f.right})
<1> DEFINE n == Len(s)
           t == Append(s, f)
<1>1. /\ n \in Nat
      /\ t \in Seq(Calls)
      /\ Len(t) = n + 1
      /\ \A i \in 1 .. n : t[i] = s[i]
      /\ t[n + 1] = f
  BY DEF Path
<1>2. \A i \in 1 .. n : s[i].right # f.right
  BY DEF Path, OthersOf
<1> HIDE DEF t
<1>3. OthersDiffer(t)
  BY <1>1, <1>2 DEF Path, OthersDiffer
<1>4. OthersOf(t) = OthersOf(s) \cup {f.right}
  <2>1. 1 .. n + 1 = (1 .. n) \cup {n + 1}
    BY <1>1
  <2> HIDE DEF n
  <2>2. {t[i].right : i \in 1 .. n + 1} = {s[i].right : i \in 1 .. n} \cup {f.right}
    BY <1>1, <2>1
  <2> QED
    BY <1>1, <2>2 DEF OthersOf, n
<1>5. Path(t, set \cup {f.right})
  BY <1>1, <1>3, <1>4 DEF Path
<1> QED
  BY <1>5 DEF t

LEMMA AdvanceKeepsPath ==
  ASSUME NEW s, NEW set, Path(s, set)
  PROVE  Path(Advanced(s), set)
<1>1. CASE s = << >>
  BY <1>1 DEF Advanced
<1>2. CASE s # << >>
  <2> DEFINE last == [s[Len(s)] EXCEPT !.index = @ + 1]
             t == [s EXCEPT ![Len(s)] = last]
  <2>1. Len(s) \in 1 .. Len(s) /\ s[Len(s)] \in Calls
    BY <1>2 DEF Path
  <2>2. last \in Calls /\ last.right = s[Len(s)].right
    BY <2>1 DEF Calls
  <2>3. Advanced(s) = t
    BY <1>2 DEF Advanced
  <2>4. /\ t \in Seq(Calls)
        /\ Len(t) = Len(s)
        /\ \A i \in 1 .. Len(s) : t[i].right = s[i].right
    <3> HIDE DEF last
    <3> QED
      BY <2>1, <2>2 DEF Path
  <2> HIDE DEF t
  <2>5. OthersDiffer(t) /\ OthersOf(t) = OthersOf(s)
    BY <2>4 DEF Path, OthersDiffer, OthersOf
  <2> QED
    BY <2>3, <2>4, <2>5 DEF Path
<1> QED
  BY <1>1, <1>2

LEMMA FrontKeepsPath ==
  ASSUME NEW s, NEW set, Path(s, set), s # << >>
  PROVE  Path(Front(s), set \ {Last(s).right})
<1> DEFINE n == Len(s)
           t == SubSeq(s, 1, n - 1)
<1>1. n \in Nat \ {0} /\ Front(s) = t /\ Last(s) = s[n]
  BY DEF Path, Front, Last
<1>2. /\ t \in Seq(Calls)
      /\ Len(t) = n - 1
      /\ \A i \in 1 .. n - 1 : t[i] = s[i]
  <2>1. n - 1 \in Int /\ \A i \in 1 .. n - 1 : s[i] \in Calls
    BY <1>1 DEF Path
  <2> HIDE DEF n
  <2> QED
    BY <1>1, <2>1, SubSeqProperties
<1> HIDE DEF t
<1>3. OthersDiffer(t)
  BY <1>1, <1>2 DEF Path, OthersDiffer
<1>4. \A i \in 1 .. n - 1 : s[i].right # s[n].right
  BY <1>1 DEF Path, OthersDiffer
<1>5. OthersOf(t) = OthersOf(s) \ {s[n].right}
  <2>1. 1 .. n = (1 .. n - 1) \cup {n}
    BY <1>1
  <2> HIDE DEF n
  <2>2. {t[i].right : i \in 1 .. n - 1} = {s[i].right : i \in 1 .. n} \ {s[n].right}
    BY <1>2, <1>4, <2>1
  <2> QED
    BY <1>2, <2>2 DEF OthersOf, n
<1> QED
  BY <1>1, <1>2, <1>3, <1>5 DEF Path

-----------------------------------------------------------------------------
\* As many calls are in progress as there are parents, which are containers.
LEMMA PathIsShort ==
  ASSUME NEW s, NEW set, Path(s, set)
  PROVE  Len(s) \in 0 .. Cardinality(Containers)
<1> DEFINE n == Len(s)
           other == [i \in 1 .. n |-> s[i].right]
<1>1. n \in Nat
  BY DEF Path
<1>2. other \in [1 .. n -> set]
  BY DEF Path, OthersOf
<1>3. \A i, j \in 1 .. n : other[i] = other[j] => i = j
  BY DEF Path, OthersDiffer
<1>4. \A o \in set : \E i \in 1 .. n : other[i] = o
  BY DEF Path, OthersOf
<1>5. set \subseteq Containers
  <2>1. \A i \in 1 .. n : s[i] \in Calls
    BY DEF Path
  <2>2. \A i \in 1 .. n : s[i].right \in Containers
    BY <2>1 DEF Calls
  <2> QED
    BY <2>2 DEF Path, OthersOf
<1> HIDE DEF n, other
<1>6. ExistsBijection(1 .. n, set)
  BY <1>2, <1>3, <1>4 DEF ExistsBijection, Bijection, Injection, Surjection, IsInjective
<1>7. Cardinality(set) = n
  BY <1>1, <1>6, FS_NatBijection, FS_CountingElements
<1>8. Cardinality(set) <= Cardinality(Containers) /\ Cardinality(Containers) \in Nat
  BY <1>5, ContainersAssumption, FS_Subset, FS_CardinalityType
<1>9. n <= Cardinality(Containers) /\ n \in Nat /\ Cardinality(Containers) \in Nat
  BY <1>1, <1>7, <1>8
<1> QED
  BY <1>9 DEF n

-----------------------------------------------------------------------------
LEMMA InitEstablishes == Init => IInv
<1> SUFFICES ASSUME Init PROVE IInv
  OBVIOUS
<1>1. Objects \subseteq Containers
  BY GraphsAssumption DEF Init, Objects
<1>2. Path(stack, parents)
  BY DEF Init, Path, OthersDiffer, OthersOf
<1>3. Len(stack) \in 0 .. Cardinality(Containers)
  BY <1>2, PathIsShort
<1> QED
  BY <1>1, <1>2, <1>3 DEF IInv

LEMMA NextPreserves == IInv /\ [Next]_vars => IInv'
<1> SUFFICES ASSUME IInv, [Next]_vars PROVE IInv'
  OBVIOUS
<1>1. UNCHANGED <<start, task>> /\ Objects' = Objects
  BY DEF Next, vars, Objects, ReadsStale, Overflow, UpdateRefused, UpdateEnter, UpdateDescend,
     UpdateSet, UpdateLeave, EqualRefused, EqualAtOnce, EqualEnter, EqualDescend, EqualLeave,
     CopyBegin, CopyEntry, CopyEnd
<1>2. SUFFICES ASSUME task.call = "update"
               PROVE  /\ Len(stack') \in 0 .. Cardinality(Containers)
                      /\ status' = "running" => Path(stack', parents')
  BY <1>1 DEF IInv
<1>3. Len(stack) \in 0 .. Cardinality(Containers) /\ (status = "running" => Path(stack, parents))
  BY <1>2 DEF IInv
<1>4. CASE UNCHANGED vars
  BY <1>3, <1>4 DEF vars
<1>5. CASE ReadsStale
  BY <1>3, <1>5 DEF ReadsStale
<1>6. CASE Overflow
  BY <1>3, <1>6 DEF Overflow, Ends
<1>7. CASE UpdateRefused
  BY <1>3, <1>7 DEF UpdateRefused, Ends
<1>8. CASE UpdateEnter
  <2>1. CASE Ends("failed")
    BY <1>3, <2>1 DEF Ends
  <2>2. CASE /\ parents' = parents \cup {visit.right}
             /\ stack' = Append(stack, Frame(visit.left, visit.right))
             /\ UNCHANGED status
    <3> DEFINE f == Frame(visit.left, visit.right)
    <3>1. {visit.left, visit.right} \subseteq Objects /\ visit.right \notin parents
          /\ status = "running"
      BY <1>8 DEF UpdateEnter, Calling
    <3>2. f \in Calls /\ f.right = visit.right
      BY <3>1 DEF Frame, Calls, IInv
    <3> HIDE DEF f
    <3>3. Path(Append(stack, f), parents \cup {f.right})
      BY <1>3, <3>1, <3>2, EnterKeepsPath
    <3>4. Len(Append(stack, f)) \in 0 .. Cardinality(Containers)
      BY <3>3, PathIsShort
    <3> QED
      BY <2>2, <3>2, <3>3, <3>4 DEF f
  <2> QED
    BY <1>8, <2>1, <2>2 DEF UpdateEnter
<1>9. CASE UpdateDescend
  BY <1>3, <1>9 DEF UpdateDescend
<1>10. CASE UpdateSet
  <2>1. CASE Ends("failed")
    BY <1>3, <2>1 DEF Ends
  <2>2. CASE /\ status' \in {status, "stale"}
             /\ stack' = Advanced(stack)
             /\ UNCHANGED parents
    <3>1. status = "running"
      BY <1>10 DEF UpdateSet, InLoop
    <3>2. Path(Advanced(stack), parents)
      BY <1>3, <3>1, AdvanceKeepsPath
    <3>3. Len(Advanced(stack)) \in 0 .. Cardinality(Containers)
      BY <3>2, PathIsShort
    <3> QED
      BY <2>2, <3>2, <3>3
  <2> QED
    BY <1>10, <2>1, <2>2 DEF UpdateSet
<1>11. CASE UpdateLeave
  <2>1. /\ status = "running"
        /\ stack # << >>
        /\ parents' = parents \ {Last(stack).right}
        /\ stack' = Advanced(Front(stack))
        /\ status' \in {"ok", "running"}
    BY <1>11 DEF UpdateLeave, InLoop, Returns, Top, Rest
  <2>2. Path(Front(stack), parents \ {Last(stack).right})
    BY <1>3, <2>1, FrontKeepsPath
  <2>3. Path(Advanced(Front(stack)), parents \ {Last(stack).right})
    BY <2>2, AdvanceKeepsPath
  <2>4. Len(Advanced(Front(stack))) \in 0 .. Cardinality(Containers)
    BY <2>3, PathIsShort
  <2> QED
    BY <2>1, <2>3, <2>4
<1>12. CASE \/ EqualRefused \/ EqualAtOnce \/ EqualEnter \/ EqualDescend \/ EqualLeave
            \/ CopyBegin \/ CopyEntry \/ CopyEnd
  BY <1>2, <1>12 DEF EqualRefused, EqualAtOnce, EqualEnter, EqualDescend, EqualLeave,
     CopyBegin, CopyEntry, CopyEnd, Calling, InLoop
<1> QED
  BY <1>4, <1>5, <1>6, <1>7, <1>8, <1>9, <1>10, <1>11, <1>12 DEF Next

\* json_object_update_recursive has at most as many calls in progress as there are containers,
\* whatever the graph: knots do not make it go round.
THEOREM UpdateIsNoDeeper == Spec => []UpdateDepthIsBounded
<1>1. IInv => UpdateDepthIsBounded
  BY DEF IInv, UpdateDepthIsBounded
<1> QED
  BY <1>1, InitEstablishes, NextPreserves, PTL DEF Spec

-----------------------------------------------------------------------------
(* What a walk reaches.                                                    *)

LEMMA Kid ==
  ASSUME NEW h, NEW c, NEW d
  PROVE  d \in KidsOf(h, c) <=> d \in Containers /\ \E i \in DOMAIN h[c] : h[c][i].value = d
  BY DEF KidsOf, ToSet

LEMMA SelfIsReached ==
  ASSUME NEW h, NEW c \in Containers
  PROVE  c \in Reachable(h, c)
  BY DEF Reachable

LEMMA ReachedIsClosed ==
  ASSUME NEW h, NEW v, NEW c \in Reachable(h, v)
  PROVE  KidsOf(h, c) \subseteq Reachable(h, v)
<1> SUFFICES ASSUME NEW d \in KidsOf(h, c), NEW S \in SUBSET Containers,
                    {v} \cap Containers \subseteq S, IsClosed(h, S)
             PROVE  d \in S
  BY Kid DEF Reachable
<1>1. c \in S
  BY DEF Reachable
<1> QED
  BY <1>1 DEF IsClosed

LEMMA ReachedReaches ==
  ASSUME NEW h, NEW v, NEW c \in Reachable(h, v)
  PROVE  Reachable(h, c) \subseteq Reachable(h, v)
<1>1. IsClosed(h, Reachable(h, v)) /\ Reachable(h, v) \in SUBSET Containers
  BY ReachedIsClosed DEF IsClosed, Reachable
<1> QED
  BY <1>1 DEF Reachable

LEMMA ReachedHasParent ==
  ASSUME NEW h, NEW v, NEW c \in Reachable(h, v), c # v
  PROVE  \E d \in Reachable(h, v) : c \in KidsOf(h, d)
<1> DEFINE R == Reachable(h, v)
           S == {d \in R : d = v \/ \E e \in R : d \in KidsOf(h, e)}
<1>1. S \in SUBSET Containers
  BY DEF Reachable
<1>2. {v} \cap Containers \subseteq S
  BY SelfIsReached
<1>3. IsClosed(h, S)
  BY ReachedIsClosed DEF IsClosed
<1>4. c \in S
  BY <1>1, <1>2, <1>3 DEF Reachable
<1> QED
  BY <1>4

-----------------------------------------------------------------------------
(* What a deletion leaves.                                                 *)

LEMMA HeldIsKept ==
  ASSUME NEW h, NEW alive, NEW held, NEW S \in SUBSET alive,
         \A c \in S : c \in held \/ \E d \in S : c \in KidsOf(h, d)
  PROVE  S \subseteq Kept(h, alive, held)
<1>1. S \subseteq held \cup UNION {KidsOf(h, d) : d \in S}
  OBVIOUS
<1> QED
  BY <1>1 DEF Kept

LEMMA KeptIsAlive ==
  ASSUME NEW h, NEW alive, NEW held
  PROVE  Kept(h, alive, held) \subseteq alive
  BY DEF Kept

LEMMA KeptIsClosed ==
  ASSUME NEW h, NEW alive, NEW held, IsClosed(h, alive)
  PROVE  IsClosed(h, Kept(h, alive, held))
<1> SUFFICES ASSUME NEW c \in Kept(h, alive, held), NEW d \in KidsOf(h, c)
             PROVE  d \in Kept(h, alive, held)
  BY DEF IsClosed
<1>1. PICK S \in SUBSET alive : /\ S \subseteq held \cup UNION {KidsOf(h, b) : b \in S}
                                /\ c \in S
  BY DEF Kept
<1> DEFINE T == S \cup {d}
<1>2. T \in SUBSET alive
  BY <1>1 DEF IsClosed
<1>3. \A b \in T : b \in held \/ \E a \in T : b \in KidsOf(h, a)
  <2>1. d \in KidsOf(h, c) /\ c \in T
    BY <1>1
  <2>2. \A b \in S : b \in held \/ \E a \in S : b \in KidsOf(h, a)
    BY <1>1
  <2> QED
    BY <2>1, <2>2
<1> HIDE DEF T
<1>4. T \subseteq Kept(h, alive, held)
  BY <1>2, <1>3, HeldIsKept
<1> QED
  BY <1>4 DEF T

-----------------------------------------------------------------------------
(* What a setter does to the entries of an object.                         *)

OneEach(s) == \A i, j \in DOMAIN s : s[i].key = s[j].key => i = j

LEMMA SetKeepsOthers ==
  ASSUME NEW s \in Seq(Entry), OneEach(s), NEW key \in Keys, NEW value \in Values
  PROVE  LET t == With(s, key, value)
         IN /\ t \in Seq(Entry)
            /\ OneEach(t)
            /\ \A i \in DOMAIN s : s[i].key # key => i \in DOMAIN t /\ t[i] = s[i]
            /\ \A i \in DOMAIN t : t[i] = [key |-> key, value |-> value]
                                  \/ (i \in DOMAIN s /\ t[i] = s[i])
<1> DEFINE new == [key |-> key, value |-> value]
<1>1. new \in Entry /\ new.key = key
  BY DEF Entry
<1>2. CASE \E i \in DOMAIN s : s[i].key = key
  <2> DEFINE t == [i \in DOMAIN s |-> IF s[i].key = key THEN new ELSE s[i]]
  <2>1. With(s, key, value) = t
    BY <1>2 DEF With
  <2> HIDE DEF new
  <2>2. t \in Seq(Entry) /\ DOMAIN t = DOMAIN s
    BY <1>1
  <2>3. \A i \in DOMAIN s : t[i].key = s[i].key /\ (s[i].key # key => t[i] = s[i])
                            /\ (t[i] = new \/ t[i] = s[i])
    BY <1>1
  <2> HIDE DEF t
  <2>4. OneEach(t)
    BY <2>2, <2>3 DEF OneEach
  <2> QED
    BY <2>1, <2>2, <2>3, <2>4 DEF new
<1>3. CASE ~ \E i \in DOMAIN s : s[i].key = key
  <2> DEFINE t == Append(s, new)
             n == Len(s)
  <2>1. With(s, key, value) = t
    BY <1>3 DEF With
  <2> HIDE DEF new
  <2>2. /\ t \in Seq(Entry) /\ n \in Nat
        /\ DOMAIN s = 1 .. n /\ DOMAIN t = 1 .. n + 1
        /\ \A i \in 1 .. n : t[i] = s[i]
        /\ t[n + 1] = new
    BY <1>1
  <2> HIDE DEF t, n
  <2>3. OneEach(t)
    BY <1>1, <1>3, <2>2 DEF OneEach
  <2> QED
    BY <2>1, <2>2, <2>3 DEF new
<1> QED
  BY <1>2, <1>3

-----------------------------------------------------------------------------
(* The update of an object that has no part in common with the other.      *)

Promised == task.call = "update" /\ Apart /\ NoNul(start.kids, task.right)

Mine == Reachable(start.kids, task.left)
Theirs == Reachable(start.kids, task.right)

\* f is at an entry of the other object whose value is right, and the object has left there,
\* now and at first.
Meet(h, f, left, right) ==
  /\ f.index \in DOMAIN start.kids[f.right]
  /\ LET e == start.kids[f.right][f.index]
         met == [key |-> e.key, value |-> left]
     IN right = e.value /\ met \in ToSet(start.kids[f.left]) /\ met \in ToSet(h[f.left])

\* Each call in progress is for two objects which the one below has found to meet.
Lineage(h, frames) ==
  /\ \A i \in 1 .. Len(frames) : frames[i].left \in Mine /\ frames[i].right \in Theirs
  /\ frames # << >> => frames[1].left = task.left
  /\ \A i \in 1 .. Len(frames) - 1 : Meet(h, frames[i], frames[i + 1].left, frames[i + 1].right)
  /\ \A i, j \in 1 .. Len(frames) : frames[i].left = frames[j].left => i = j

\* What is in the object is from it, or has a key that the loop is past.
FromPast(h, f) ==
  \A e \in ToSet(h[f.left]) :
    \/ e \in ToSet(start.kids[f.left])
    \/ \E m \in DOMAIN start.kids[f.right] : m < f.index /\ start.kids[f.right][m].key = e.key

\* What the object had at first where the other has its entries from the nth on
Ahead(f, n) ==
  {e.value : e \in {d \in ToSet(start.kids[f.left]) :
                     \E m \in DOMAIN start.kids[f.right] :
                       m >= n /\ start.kids[f.right][m].key = d.key}} \cap Containers

Whole(h, y) == \A c \in Reachable(start.kids, y) : h[c] = start.kids[c]

\* The loop on top has yet to see the entry it is at, those below it are in theirs.
AheadIsWhole(h, frames) ==
  \A i \in 1 .. Len(frames) :
    /\ \A y \in Ahead(frames[i], frames[i].index + 1) : Whole(h, y)
    /\ i = Len(frames) => \A y \in Ahead(frames[i], frames[i].index) : Whole(h, y)

Walk(h, alive, frames, call) ==
  /\ Lineage(h, frames)
  /\ \A i \in 1 .. Len(frames) : frames[i].left \in alive /\ FromPast(h, frames[i])
  /\ AheadIsWhole(h, frames)
  /\ frames = << >> => /\ h = start.kids
                       /\ {task.left} \cap Containers \subseteq alive
                       /\ call = [left |-> task.left, right |-> task.right]
  /\ frames # << >> /\ call # NoVisit => Meet(h, frames[Len(frames)], call.left, call.right)

Contents == {s \in Seq(Entry) : OneEach(s)}

KeptInv ==
  /\ start \in Graphs
  /\ {task.left, task.right} \subseteq Values \ {Copied}
  /\ Promised =>
       /\ heap \in [Containers -> Contents]
       /\ live \subseteq Containers
       /\ IsClosed(heap, live)
       /\ Theirs \subseteq live
       /\ \A c \in Containers \ Mine : heap[c] = start.kids[c]
       /\ status # "stale"
       /\ status = "running" => Walk(heap, live, stack, visit)

LEMMA StartIsTyped ==
  ASSUME start \in Graphs
  PROVE  start.kids \in [Containers -> Contents] /\ Objects \subseteq Containers
  BY GraphsAssumption DEF Contents, OneEach, Objects

LEMMA LeastElement ==
  ASSUME NEW S \in SUBSET Nat, S # {}
  PROVE  \E m \in S : \A k \in S : m <= k
<1>1. PICK m \in S : \A k \in S : ~ (<<k, m>> \in OpToRel(<, Nat))
  BY WFMin, NatLessThanWellFounded, Zenon
<1>2. \A k \in S : ~ (k < m)
  BY <1>1 DEF OpToRel
<1> QED
  BY <1>2

\* Two entries of a tree with the same container are one.
LEMMA OnePlace ==
  ASSUME IsTree(start.kids, task.left), NEW c \in Mine, NEW d \in Mine,
         NEW e \in ToSet(start.kids[c]), NEW f \in ToSet(start.kids[d]),
         e.value \in Containers, e.value = f.value
  PROVE  c = d /\ e = f
<1>1. PICK i \in DOMAIN start.kids[c] : e = start.kids[c][i]
  BY DEF ToSet
<1>2. PICK j \in DOMAIN start.kids[d] : f = start.kids[d][j]
  BY DEF ToSet
<1> QED
  BY <1>1, <1>2 DEF IsTree, Mine

LEMMA EntriesAreKids ==
  ASSUME NEW h, NEW c, NEW e \in ToSet(h[c]), e.value \in Containers
  PROVE  e.value \in KidsOf(h, c)
  BY DEF KidsOf

LEMMA KidsAreEntries ==
  ASSUME NEW h, NEW c, NEW d \in KidsOf(h, c)
  PROVE  d \in Containers /\ \E e \in ToSet(h[c]) : e.value = d
  BY DEF KidsOf

LEMMA RootIsNoKid ==
  ASSUME IsTree(start.kids, task.left), NEW c \in Mine
  PROVE  task.left \notin KidsOf(start.kids, c)
  BY DEF IsTree, Mine

\* Where one object meets an entry that is still to come, the one on top is not below.
LEMMA SiblingsApart ==
  ASSUME start \in Graphs, IsTree(start.kids, task.left),
         NEW h, NEW s \in Seq(Calls), Lineage(h, s), NEW i \in 1 .. Len(s),
         NEW y \in Ahead(s[i], s[i].index + 1)
  PROVE  s[Len(s)].left \notin Reachable(start.kids, y)
<1> DEFINE n == Len(s)
           G == start.kids
           Bad == {j \in 1 .. n : s[j].left \in Reachable(G, y)}
<1>0. n \in Nat /\ \A j \in 1 .. n : s[j] \in Calls /\ s[j].index \in Nat
  <2>1. n \in Nat /\ \A j \in 1 .. n : s[j] \in Calls
    OBVIOUS
  <2> QED
    BY <2>1 DEF Calls
<1>1. SUFFICES ASSUME n \in Bad PROVE FALSE
  BY <1>0
<1>2. PICK e \in ToSet(G[s[i].left]), m \in DOMAIN G[s[i].right] :
        y = e.value /\ y \in Containers /\ m >= s[i].index + 1 /\ G[s[i].right][m].key = e.key
  BY DEF Ahead
<1>3. s[i].left \in Mine /\ y \in KidsOf(G, s[i].left)
  BY <1>2, EntriesAreKids DEF Lineage
<1>4. y \in Mine
  BY <1>3, ReachedIsClosed DEF Mine
<1>5. Reachable(G, y) \subseteq Mine
  BY <1>4, ReachedReaches DEF Mine
<1>6. PICK j \in Bad : \A k \in Bad : j <= k
  <2>1. Bad \in SUBSET Nat /\ Bad # {}
    BY <1>0, <1>1
  <2> HIDE DEF Bad
  <2> QED
    BY <2>1, LeastElement
<1>7. s[j].left \in Reachable(G, y) /\ j \in 1 .. n
  BY <1>6
<1>8. \A k \in 1 .. n : s[k].left \in Reachable(G, y) => j <= k
  BY <1>6
<1> HIDE DEF Bad
<1>9. CASE j = 1
  <2>1. s[j].left = task.left
    BY <1>0, <1>7, <1>9 DEF Lineage
  <2>2. s[j].left # y
    BY <1>3, <2>1, RootIsNoKid
  <2>3. PICK d \in Reachable(G, y) : s[j].left \in KidsOf(G, d)
    BY <1>7, <2>2, ReachedHasParent
  <2> QED
    BY <1>5, <2>1, <2>3, RootIsNoKid
<1>10. CASE j # 1
  <2> DEFINE p == j - 1
             g == G[s[p].right][s[p].index]
             met == [key |-> g.key, value |-> s[j].left]
  <2>1. p \in 1 .. n /\ p \in 1 .. n - 1 /\ p + 1 = j
    BY <1>0, <1>7, <1>10
  <2>2. /\ s[p].index \in DOMAIN G[s[p].right]
        /\ met \in ToSet(G[s[p].left])
        /\ s[p].left \in Mine
    BY <2>1 DEF Lineage, Meet
  <2>3. s[p].left \notin Reachable(G, y)
    <3>1. ~ (j <= p)
      BY <1>0, <2>1
    <3> QED
      BY <1>8, <2>1, <3>1
  <2>4. met.value = s[j].left /\ s[j].left \in Containers
    BY <1>5, <1>7 DEF Mine, Reachable
  <2> HIDE DEF met, p
  <2>5. CASE s[j].left # y
    <3>1. PICK d \in Reachable(G, y) : s[j].left \in KidsOf(G, d)
      BY <1>7, <2>5, ReachedHasParent
    <3>2. PICK f \in ToSet(G[d]) : f.value = s[j].left
      BY <3>1, KidsAreEntries
    <3>3. d = s[p].left
      BY <1>5, <2>2, <2>4, <3>1, <3>2, OnePlace
    <3> QED
      BY <2>3, <3>1, <3>3
  <2>6. CASE s[j].left = y
    <3>1. s[p].left = s[i].left /\ met = e
      BY <1>2, <1>3, <2>2, <2>4, <2>6, OnePlace
    <3>2. p = i
      BY <2>1, <3>1 DEF Lineage
    <3>3. g.key = e.key
      BY <3>1 DEF met
    <3>4. s[i].right \in Containers
      BY <1>0 DEF Calls
    <3>5. m = s[i].index
      BY <1>2, <2>2, <3>2, <3>3, <3>4, StartIsTyped DEF Contents, OneEach
    <3> QED
      BY <1>0, <1>2, <3>5
  <2> QED
    BY <2>5, <2>6
<1> QED
  BY <1>9, <1>10

\* The object that the top frame meets is in no frame yet.
LEMMA MetIsNew ==
  ASSUME IsTree(start.kids, task.left),
         NEW h, NEW s \in Seq(Calls), Lineage(h, s), s # << >>,
         NEW left \in Containers, NEW right, Meet(h, s[Len(s)], left, right)
  PROVE  \A i \in 1 .. Len(s) : s[i].left # left
<1> SUFFICES ASSUME NEW i \in 1 .. Len(s), s[i].left = left PROVE FALSE
  OBVIOUS
<1> DEFINE n == Len(s)
           G == start.kids
           met == [key |-> G[s[n].right][s[n].index].key, value |-> left]
<1>1. n \in Nat /\ n \in 1 .. n
  OBVIOUS
<1>2. s[n].left \in Mine /\ met \in ToSet(G[s[n].left]) /\ met.value = left
  BY <1>1 DEF Lineage, Meet
<1> HIDE DEF met
<1>3. CASE i = 1
  <2>1. left = task.left
    BY <1>3 DEF Lineage
  <2>2. left \in KidsOf(G, s[n].left)
    BY <1>2, EntriesAreKids
  <2> QED
    BY <1>2, <2>1, <2>2, RootIsNoKid
<1>4. CASE i # 1
  <2> DEFINE p == i - 1
             old == [key |-> G[s[p].right][s[p].index].key, value |-> s[i].left]
  <2>1. p \in 1 .. n /\ p \in 1 .. n - 1 /\ p + 1 = i /\ p # n
    BY <1>1, <1>4
  <2>2. s[p].left \in Mine /\ old \in ToSet(G[s[p].left]) /\ old.value = left
    BY <2>1 DEF Lineage, Meet
  <2> HIDE DEF old, p
  <2>3. s[p].left = s[n].left
    BY <1>2, <2>2, OnePlace
  <2> QED
    BY <1>1, <2>1, <2>3 DEF Lineage
<1> QED
  BY <1>3, <1>4

LEMMA TheirsAreHeld ==
  \A c \in Theirs : c = task.right \/ \E d \in Theirs : c \in KidsOf(start.kids, d)
  BY ReachedHasParent DEF Theirs

LEMMA SameKids ==
  ASSUME NEW h, NEW g, NEW c, h[c] = g[c]
  PROVE  KidsOf(h, c) = KidsOf(g, c)
  BY DEF KidsOf

LEMMA AdvancedIs ==
  ASSUME NEW s \in Seq(Calls), s # << >>
  PROVE  /\ Advanced(s) \in Seq(Calls)
         /\ Len(Advanced(s)) = Len(s)
         /\ \A i \in 1 .. Len(s) : i # Len(s) => Advanced(s)[i] = s[i]
         /\ Advanced(s)[Len(s)] = [s[Len(s)] EXCEPT !.index = @ + 1]
<1> DEFINE n == Len(s)
           last == [s[n] EXCEPT !.index = @ + 1]
<1>1. n \in 1 .. n /\ s[n] \in Calls
  OBVIOUS
<1>2. last \in Calls
  BY <1>1 DEF Calls
<1>3. Advanced(s) = [s EXCEPT ![n] = last]
  BY DEF Advanced
<1> HIDE DEF last
<1>4. [s EXCEPT ![n] = last] \in Seq(Calls)
  BY <1>1, <1>2
<1> QED
  BY <1>1, <1>3, <1>4 DEF last

\* The top frame goes on to its next entry.
LEMMA TurnKeepsWalk ==
  ASSUME start \in Graphs, NEW h, NEW alive, NEW s \in Seq(Calls), s # << >>, Lineage(h, s),
         \A i \in 1 .. Len(s) : s[i].left \in alive,
         \A i \in 1 .. Len(s) : i # Len(s) => FromPast(h, s[i]),
         FromPast(h, [s[Len(s)] EXCEPT !.index = @ + 1]),
         \A i \in 1 .. Len(s) : \A y \in Ahead(s[i], s[i].index + 1) : Whole(h, y)
  PROVE  Walk(h, alive, Advanced(s), NoVisit)
<1> DEFINE n == Len(s)
           t == Advanced(s)
           last == [s[n] EXCEPT !.index = @ + 1]
<1>1. /\ n \in Nat /\ n \in 1 .. n
      /\ t \in Seq(Calls) /\ Len(t) = n
      /\ \A i \in 1 .. n : i # n => t[i] = s[i]
      /\ t[n] = last
      /\ s[n] \in Calls
  BY AdvancedIs
<1>2. last.left = s[n].left /\ last.right = s[n].right /\ last.index = s[n].index + 1
      /\ s[n].index \in Nat
  BY <1>1 DEF Calls
<1>3. \A i \in 1 .. n : t[i].left = s[i].left /\ t[i].right = s[i].right
  BY <1>1, <1>2
<1> HIDE DEF t, last
<1>4. Lineage(h, t)
  <2>1. ASSUME NEW i \in 1 .. n - 1
        PROVE  Meet(h, t[i], t[i + 1].left, t[i + 1].right)
    <3>1. i \in 1 .. n /\ i # n /\ i + 1 \in 1 .. n
      BY <1>1
    <3>2. t[i] = s[i] /\ t[i + 1].left = s[i + 1].left /\ t[i + 1].right = s[i + 1].right
      BY <1>1, <1>3, <3>1
    <3> QED
      BY <3>2 DEF Lineage
  <2>2. 1 \in 1 .. n /\ t # << >>
    BY <1>1
  <2> QED
    BY <1>1, <1>3, <2>1, <2>2 DEF Lineage
<1>5. \A i \in 1 .. n : t[i].left \in alive /\ FromPast(h, t[i])
  <2>1. ASSUME NEW i \in 1 .. n PROVE t[i].left \in alive
    BY <1>3
  <2>2. ASSUME NEW i \in 1 .. n PROVE FromPast(h, t[i])
    <3>1. CASE i = n
      BY <1>1, <3>1 DEF last
    <3>2. CASE i # n
      BY <1>1, <3>2
    <3> QED
      BY <3>1, <3>2
  <2> QED
    BY <2>1, <2>2
<1>6. AheadIsWhole(h, t)
  <2> SUFFICES ASSUME NEW i \in 1 .. n
               PROVE  /\ \A y \in Ahead(t[i], t[i].index + 1) : Whole(h, y)
                      /\ i = n => \A y \in Ahead(t[i], t[i].index) : Whole(h, y)
    BY <1>1 DEF AheadIsWhole
  <2>1. CASE i # n
    BY <1>1, <2>1
  <2>2. CASE i = n
    <3>1. Ahead(t[n], t[n].index) = Ahead(s[n], s[n].index + 1)
      BY <1>1, <1>2 DEF Ahead
    <3>2. Ahead(t[n], t[n].index + 1) \subseteq Ahead(t[n], t[n].index)
      <4>1. t[n].index \in Nat /\ t[n].right \in Containers
        <5>1. t[n] \in Calls
          BY <1>1
        <5> QED
          BY <5>1 DEF Calls
      <4>2. start.kids[t[n].right] \in Seq(Entry)
        BY <4>1, StartIsTyped DEF Contents
      <4>3. \A m \in DOMAIN start.kids[t[n].right] : m \in Nat
        BY <4>2
      <4>4. \A m \in DOMAIN start.kids[t[n].right] : m >= t[n].index + 1 => m >= t[n].index
        BY <4>1, <4>3
      <4> QED
        BY <4>4 DEF Ahead
    <3> QED
      BY <2>2, <3>1, <3>2
  <2> QED
    BY <2>1, <2>2
<1>7. t # << >>
  BY <1>1
<1>8. Walk(h, alive, t, NoVisit)
  BY <1>1, <1>4, <1>5, <1>6, <1>7 DEF Walk
<1> QED
  BY <1>8 DEF t

-----------------------------------------------------------------------------
(* The steps of the update.                                                *)

LEMMA KeptInvAtFirst == Init => KeptInv
<1> SUFFICES ASSUME Init PROVE KeptInv
  OBVIOUS
<1>1. start \in Graphs /\ heap = start.kids /\ status = "running" /\ stack = << >>
      /\ visit = [left |-> task.left, right |-> task.right]
      /\ live = Kept(heap, Containers \ {Copied}, Held)
  BY DEF Init
<1>2. {task.left, task.right} \subseteq Values \ {Copied}
  BY CopiedAssumption DEF Init
<1>3. heap \in [Containers -> Contents]
  BY <1>1, StartIsTyped
<1>4. \A c \in Containers : Copied \notin KidsOf(heap, c)
  BY <1>1, CopiedAssumption
<1>5. IsClosed(heap, Containers \ {Copied})
  BY <1>4, KidsAreEntries DEF IsClosed
<1>6. IsClosed(heap, live) /\ live \subseteq Containers
  BY <1>1, <1>5, KeptIsClosed, KeptIsAlive
<1> DEFINE S == Theirs \cup ({task.left} \cap Containers)
<1>7. S \subseteq live
  <2>1. Copied \notin Theirs /\ Theirs \subseteq Containers
    BY <1>1, <1>2, <1>4, TheirsAreHeld DEF Theirs, Reachable
  <2>2. S \in SUBSET (Containers \ {Copied})
    BY <1>2, <2>1
  <2>3. \A c \in S : c \in Held \/ \E d \in S : c \in KidsOf(heap, d)
    BY <1>1, TheirsAreHeld DEF Held
  <2> HIDE DEF S
  <2> QED
    BY <1>1, <2>2, <2>3, HeldIsKept
<1>8. Walk(heap, live, stack, visit)
  <2>1. 1 .. Len(stack) = {} /\ 1 .. Len(stack) - 1 = {}
    BY <1>1
  <2>2. Lineage(heap, stack) /\ AheadIsWhole(heap, stack)
    BY <1>1, <2>1 DEF Lineage, AheadIsWhole
  <2> QED
    BY <1>1, <1>7, <2>1, <2>2 DEF Walk
<1> QED
  BY <1>1, <1>2, <1>3, <1>6, <1>7, <1>8 DEF KeptInv

LEMMA RunningIsTyped ==
  ASSUME IInv, task.call = "update", status = "running"
  PROVE  stack \in Seq(Calls)
  BY DEF IInv, Path

\* What the top frame is at, is in the other object as it was, and in use.
LEMMA NothingIsStale ==
  ASSUME IInv, KeptInv, Promised, InLoop("update")
  PROVE  /\ stack \in Seq(Calls) /\ Walk(heap, live, stack, NoVisit)
         /\ Len(stack) \in 1 .. Len(stack) /\ Top = stack[Len(stack)]
         /\ Top \in Calls /\ Top.left \in Mine /\ Top.right \in Theirs
         /\ heap[Top.right] = start.kids[Top.right]
         /\ start.kids[Top.right] \in Contents /\ heap[Top.left] \in Contents
         /\ ~Stale
<1>1. task.call = "update" /\ status = "running" /\ stack # << >> /\ visit = NoVisit
  BY DEF InLoop, Promised
<1>2. stack \in Seq(Calls) /\ Walk(heap, live, stack, NoVisit)
  BY <1>1, RunningIsTyped DEF KeptInv
<1>3. Len(stack) \in 1 .. Len(stack) /\ Top = stack[Len(stack)]
  BY <1>1, <1>2 DEF Top, Last
<1>4. Top \in Calls /\ Top.left \in Mine /\ Top.right \in Theirs /\ Top.left \in live
  BY <1>2, <1>3 DEF Walk, Lineage
<1>5. Top.right \in Containers \ Mine /\ Top.right \in live /\ Top.left \in Containers
  BY <1>4 DEF KeptInv, Promised, Apart, Mine, Theirs, Reachable
<1>6. heap[Top.right] = start.kids[Top.right]
  BY <1>5 DEF KeptInv
<1>7. start.kids[Top.right] \in Contents /\ heap[Top.left] \in Contents
  BY <1>5, StartIsTyped DEF KeptInv
<1> QED
  BY <1>2, <1>3, <1>4, <1>5, <1>6, <1>7 DEF Stale

\* The entry that the loop is at
LEMMA EntryIsTheirs ==
  ASSUME IInv, KeptInv, Promised, InLoop("update"), ~Exhausted
  PROVE  LET e == heap[Top.right][Top.index]
         IN /\ Top.index \in DOMAIN start.kids[Top.right]
            /\ e = start.kids[Top.right][Top.index]
            /\ e \in Entry /\ CString[e.key] = e.key
            /\ e.value \in Containers => e.value \in Theirs
<1>1. /\ Top \in Calls /\ Top.right \in Theirs
      /\ heap[Top.right] = start.kids[Top.right]
      /\ start.kids[Top.right] \in Seq(Entry)
  BY NothingIsStale DEF Contents
<1>2. Top.index \in Nat \ {0} /\ ~ (Top.index > Len(heap[Top.right]))
  BY <1>1 DEF Calls, Exhausted
<1>3. Top.index \in DOMAIN start.kids[Top.right]
  BY <1>1, <1>2
<1> DEFINE e == start.kids[Top.right][Top.index]
<1>4. e \in Entry
  BY <1>1, <1>3
<1>5. CString[e.key] = e.key
  BY <1>1, <1>3 DEF Promised, NoNul, Theirs
<1>6. e.value \in Containers => e.value \in Theirs
  BY <1>1, <1>3, Kid, ReachedIsClosed DEF Theirs
<1> QED
  BY <1>1, <1>3, <1>4, <1>5, <1>6

\* One object enters the call that two objects which meet are given to.
LEMMA EnterKeepsKept ==
  ASSUME IInv, KeptInv, Promised, Calling("update"), status = "running",
         {visit.left, visit.right} \subseteq Objects,
         NEW t, t = Append(stack, Frame(visit.left, visit.right))
  PROVE  Walk(heap, live, t, NoVisit)
<1> DEFINE n == Len(stack)
           G == start.kids
           f == Frame(visit.left, visit.right)
<1>1. /\ stack \in Seq(Calls) /\ n \in Nat /\ start \in Graphs
      /\ Walk(heap, live, stack, visit) /\ IsClosed(heap, live)
      /\ visit # NoVisit /\ IsTree(G, task.left)
  BY RunningIsTyped DEF KeptInv, Promised, Calling, Apart
<1>2. visit.left \in Containers /\ visit.right \in Containers
  BY <1>1, StartIsTyped
<1>3. f \in Calls /\ f.left = visit.left /\ f.right = visit.right /\ f.index = 1
  BY <1>2 DEF Frame, Calls
<1>4. stack # << >> => n \in 1 .. n /\ Meet(heap, stack[n], f.left, f.right)
  BY <1>1, <1>3 DEF Walk
<1>5. stack = << >> => f.left = task.left /\ f.right = task.right /\ heap = G
  BY <1>1, <1>3 DEF Walk
<1> HIDE DEF f
<1>6. /\ t \in Seq(Calls) /\ Len(t) = n + 1
      /\ \A i \in 1 .. n : t[i] = stack[i]
      /\ t[n + 1] = f
  BY <1>1, <1>3 DEF f
<1>7. f.left \in Mine /\ f.right \in Theirs /\ f.left \in live
  <2>1. CASE stack = << >>
    BY <1>1, <1>2, <1>3, <1>5, <2>1, SelfIsReached DEF Mine, Theirs, Walk
  <2>2. CASE stack # << >>
    <3>1. /\ stack[n].left \in Mine /\ stack[n].right \in Theirs /\ stack[n].left \in live
      BY <1>1, <1>4, <2>2 DEF Walk, Lineage
    <3>2. /\ f.left \in KidsOf(G, stack[n].left)
          /\ f.left \in KidsOf(heap, stack[n].left)
          /\ f.right \in KidsOf(G, stack[n].right)
      <4> DEFINE e == G[stack[n].right][stack[n].index]
                 met == [key |-> e.key, value |-> f.left]
      <4>1. /\ stack[n].index \in DOMAIN G[stack[n].right]
            /\ f.right = e.value
            /\ met \in ToSet(G[stack[n].left])
            /\ met \in ToSet(heap[stack[n].left])
        BY <1>4, <2>2 DEF Meet
      <4>2. met.value = f.left /\ f.left \in Containers /\ f.right \in Containers
        BY <1>2, <1>3
      <4>3. e \in ToSet(G[stack[n].right])
        BY <4>1 DEF ToSet
      <4> HIDE DEF e, met
      <4> QED
        BY <4>1, <4>2, <4>3, EntriesAreKids
    <3> QED
      BY <1>1, <3>1, <3>2, ReachedIsClosed DEF Mine, Theirs, IsClosed
  <2> QED
    BY <2>1, <2>2
<1>8. Whole(heap, f.left)
  <2>1. CASE stack = << >>
    BY <1>5, <2>1 DEF Whole
  <2>2. CASE stack # << >>
    <3>1. stack[n].index \in Nat
      <4>1. stack[n] \in Calls
        BY <1>1, <1>4, <2>2
      <4> QED
        BY <4>1 DEF Calls
    <3>2. f.left \in Ahead(stack[n], stack[n].index)
      <4> DEFINE e == G[stack[n].right][stack[n].index]
                 met == [key |-> e.key, value |-> f.left]
      <4>1. /\ stack[n].index \in DOMAIN G[stack[n].right]
            /\ met \in ToSet(G[stack[n].left])
        BY <1>4, <2>2 DEF Meet
      <4>2. met.value = f.left /\ met.key = e.key /\ f.left \in Containers
        BY <1>2, <1>3
      <4>3. stack[n].index >= stack[n].index
        BY <3>1
      <4> HIDE DEF met
      <4> QED
        BY <4>1, <4>2, <4>3 DEF Ahead
    <3> QED
      BY <1>1, <1>4, <2>2, <3>2 DEF Walk, AheadIsWhole
  <2> QED
    BY <2>1, <2>2
<1>9. Lineage(heap, t)
  <2>1. \A i \in 1 .. n + 1 : t[i].left \in Mine /\ t[i].right \in Theirs
    BY <1>1, <1>6, <1>7 DEF Walk, Lineage
  <2>2. t[1].left = task.left
    <3>1. CASE stack = << >>
      BY <1>5, <1>6, <3>1
    <3>2. CASE stack # << >>
      BY <1>1, <1>4, <1>6, <3>2 DEF Walk, Lineage
    <3> QED
      BY <3>1, <3>2
  <2>3. ASSUME NEW i \in 1 .. n
        PROVE  Meet(heap, t[i], t[i + 1].left, t[i + 1].right)
    <3>1. CASE i = n
      BY <1>1, <1>4, <1>6, <3>1
    <3>2. CASE i # n
      <4>1. i \in 1 .. n - 1 /\ i + 1 \in 1 .. n
        BY <1>1, <3>2
      <4>2. Meet(heap, stack[i], stack[i + 1].left, stack[i + 1].right)
        BY <1>1, <4>1 DEF Walk, Lineage
      <4> QED
        BY <1>6, <4>1, <4>2
    <3> QED
      BY <3>1, <3>2
  <2>4. \A i \in 1 .. n : stack[i].left # f.left
    <3>1. stack # << >> => \A i \in 1 .. Len(stack) : stack[i].left # f.left
      BY <1>1, <1>2, <1>3, <1>4, MetIsNew DEF Walk
    <3> QED
      BY <1>1, <3>1
  <2>5. \A i, j \in 1 .. n + 1 : t[i].left = t[j].left => i = j
    <3>1. \A i, j \in 1 .. n : t[i].left = t[j].left => i = j
      BY <1>1, <1>6 DEF Walk, Lineage
    <3>2. \A i \in 1 .. n + 1 : i = n + 1 \/ i \in 1 .. n
      BY <1>1
    <3> QED
      BY <1>6, <2>4, <3>1, <3>2
  <2>6. n + 1 - 1 = n
    BY <1>1
  <2> QED
    BY <1>6, <2>1, <2>2, <2>3, <2>5, <2>6 DEF Lineage
<1>10. \A i \in 1 .. n + 1 : t[i].left \in live /\ FromPast(heap, t[i])
  <2>1. FromPast(heap, f)
    <3>1. heap[f.left] = G[f.left]
      BY <1>2, <1>3, <1>8, SelfIsReached DEF Whole
    <3> QED
      BY <3>1 DEF FromPast
  <2> QED
    BY <1>1, <1>6, <1>7, <2>1 DEF Walk
<1>11. AheadIsWhole(heap, t)
  <2>1. \A m : \A y \in Ahead(f, m) : Whole(heap, y)
    <3> SUFFICES ASSUME NEW m, NEW y \in Ahead(f, m) PROVE Whole(heap, y)
      OBVIOUS
    <3>1. y \in KidsOf(G, f.left)
      BY EntriesAreKids DEF Ahead
    <3>2. f.left \in Reachable(G, f.left)
      BY <1>2, <1>3, SelfIsReached
    <3>3. y \in Reachable(G, f.left)
      BY <3>1, <3>2, ReachedIsClosed
    <3>4. Reachable(G, y) \subseteq Reachable(G, f.left)
      BY <3>3, ReachedReaches
    <3> QED
      BY <1>8, <3>4 DEF Whole
  <2>2. \A i \in 1 .. n : \A y \in Ahead(stack[i], stack[i].index + 1) : Whole(heap, y)
    BY <1>1 DEF Walk, AheadIsWhole
  <2>3. ASSUME NEW i \in 1 .. n + 1
        PROVE  /\ \A y \in Ahead(t[i], t[i].index + 1) : Whole(heap, y)
               /\ i = n + 1 => \A y \in Ahead(t[i], t[i].index) : Whole(heap, y)
    <3>1. CASE i = n + 1
      BY <1>6, <2>1, <3>1
    <3>2. CASE i # n + 1
      BY <1>1, <1>6, <2>2, <3>2
    <3> QED
      BY <3>1, <3>2
  <2> QED
    BY <1>6, <2>3 DEF AheadIsWhole
<1>12. t # << >>
  BY <1>1, <1>6
<1> QED
  BY <1>6, <1>9, <1>10, <1>11, <1>12 DEF Walk

\* An entry of the other object is put into the object on top.
LEMMA SetKeepsKept ==
  ASSUME IInv, KeptInv, Promised, InLoop("update"), ~Exhausted,
         Set(Top.left, heap[Top.right][Top.index].key, heap[Top.right][Top.index].value)
  PROVE  /\ heap' \in [Containers -> Contents]
         /\ live' \subseteq Containers
         /\ IsClosed(heap', live')
         /\ Theirs \subseteq live'
         /\ \A c \in Containers \ Mine : heap'[c] = start.kids[c]
         /\ Top.left \in live'
         /\ Walk(heap', live', Advanced(stack), NoVisit)
<1> DEFINE n == Len(stack)
           G == start.kids
           c == Top.left
           e == heap[Top.right][Top.index]
           new == [key |-> e.key, value |-> e.value]
           after == With(heap[c], e.key, e.value)
<1>1. /\ stack \in Seq(Calls) /\ n \in 1 .. n /\ n \in Nat /\ stack # << >>
      /\ Walk(heap, live, stack, NoVisit)
      /\ Top = stack[n] /\ Top \in Calls /\ c \in Mine /\ c \in Containers
      /\ Top.right \in Theirs /\ Top.right \in Containers
      /\ heap[c] \in Contents
  BY NothingIsStale DEF Mine, Theirs, Reachable, InLoop
<1>2. /\ Top.index \in DOMAIN G[Top.right]
      /\ e = G[Top.right][Top.index]
      /\ e.key \in Keys /\ e.value \in Values
      /\ e.value \in Containers => e.value \in Theirs
  BY EntryIsTheirs DEF Entry
<1>3. /\ start \in Graphs /\ IsTree(G, task.left)
      /\ Mine \cap Theirs = {}
      /\ heap \in [Containers -> Contents] /\ live \subseteq Containers /\ IsClosed(heap, live)
      /\ Theirs \subseteq live
      /\ \A d \in Containers \ Mine : heap[d] = G[d]
  BY DEF KeptInv, Promised, Apart, Mine, Theirs
<1>4. heap' = [heap EXCEPT ![c] = after] /\ live' = Kept(heap', live, Held)
  BY DEF Set
<1> HIDE DEF c, e
<1>5. /\ after \in Contents
      /\ \A i \in DOMAIN heap[c] : heap[c][i].key # e.key => i \in DOMAIN after /\ after[i] = heap[c][i]
      /\ \A i \in DOMAIN after : after[i] = new \/ (i \in DOMAIN heap[c] /\ after[i] = heap[c][i])
  <2>1. heap[c] \in Seq(Entry) /\ OneEach(heap[c])
    BY <1>1 DEF Contents
  <2> HIDE DEF Contents, new
  <2>2. /\ after \in Seq(Entry) /\ OneEach(after)
        /\ \A i \in DOMAIN heap[c] : heap[c][i].key # e.key => i \in DOMAIN after /\ after[i] = heap[c][i]
        /\ \A i \in DOMAIN after : after[i] = new \/ (i \in DOMAIN heap[c] /\ after[i] = heap[c][i])
    BY <1>2, <2>1, SetKeepsOthers DEF new
  <2> QED
    BY <2>2 DEF Contents
<1> HIDE DEF after
<1>6. heap' \in [Containers -> Contents] /\ heap'[c] = after
      /\ \A d \in Containers : d # c => heap'[d] = heap[d]
  BY <1>1, <1>3, <1>4, <1>5
<1>7. \A d \in Containers \ Mine : heap'[d] = G[d]
  BY <1>1, <1>3, <1>6
<1>8. IsClosed(heap', live)
  <2> SUFFICES ASSUME NEW d \in live, NEW k \in KidsOf(heap', d) PROVE k \in live
    BY DEF IsClosed
  <2>1. CASE d = c
    <3>1. PICK i \in DOMAIN after : after[i].value = k /\ k \in Containers
      BY <1>6, <2>1, Kid
    <3>2. CASE after[i] = new
      BY <1>2, <1>3, <3>1, <3>2
    <3>3. CASE i \in DOMAIN heap[c] /\ after[i] = heap[c][i]
      BY <1>3, <2>1, <3>1, <3>3, Kid DEF IsClosed
    <3> QED
      BY <1>5, <3>1, <3>2, <3>3
  <2>2. CASE d # c
    BY <1>3, <1>6, <2>2, SameKids DEF IsClosed
  <2> QED
    BY <2>1, <2>2
<1>9. live' \subseteq live /\ IsClosed(heap', live')
  BY <1>4, <1>8, KeptIsClosed, KeptIsAlive
<1>10. \A i \in 1 .. n : i # n => stack[i].left # c /\ stack[i].left \in Containers
  BY <1>1 DEF Walk, Lineage, Mine, Reachable, c
<1>11. Lineage(heap', stack)
  <2>1. ASSUME NEW i \in 1 .. n - 1
        PROVE  Meet(heap', stack[i], stack[i + 1].left, stack[i + 1].right)
    <3>1. i \in 1 .. n /\ i # n
      BY <1>1
    <3>2. heap'[stack[i].left] = heap[stack[i].left]
      BY <1>6, <1>10, <3>1
    <3> QED
      BY <1>1, <3>2 DEF Walk, Lineage, Meet
  <2> QED
    BY <1>1, <2>1 DEF Walk, Lineage
<1> DEFINE Lefts == {stack[i].left : i \in 1 .. n}
           S == Theirs \cup Lefts
<1>12. S \subseteq live'
  <2>1. S \in SUBSET live
    BY <1>1, <1>3 DEF Walk
  <2>2. ASSUME NEW d \in Theirs PROVE d \in Held \/ \E b \in S : d \in KidsOf(heap', b)
    <3>1. ASSUME NEW b \in Theirs PROVE KidsOf(heap', b) = KidsOf(G, b)
      <4>1. b \in Containers \ Mine
        BY <1>3, <3>1
      <4> QED
        BY <1>7, <4>1, SameKids
    <3> QED
      BY <3>1, TheirsAreHeld DEF Held
  <2>3. ASSUME NEW i \in 1 .. n
        PROVE  stack[i].left \in Held \/ \E b \in S : stack[i].left \in KidsOf(heap', b)
    <3>1. CASE i = 1
      BY <1>1, <3>1 DEF Walk, Lineage, Held
    <3>2. CASE i # 1
      <4> DEFINE p == i - 1
                 g == G[stack[p].right][stack[p].index]
                 met == [key |-> g.key, value |-> stack[i].left]
      <4>1. p \in 1 .. n - 1 /\ p \in 1 .. n /\ p + 1 = i
        BY <1>1, <3>2
      <4>2. met \in ToSet(heap'[stack[p].left]) /\ met.value = stack[i].left
        BY <1>11, <4>1 DEF Lineage, Meet
      <4>3. stack[i].left \in Containers
        BY <1>1, <1>10 DEF c
      <4> HIDE DEF met, p
      <4>4. stack[i].left \in KidsOf(heap', stack[p].left)
        BY <4>2, <4>3, EntriesAreKids
      <4> QED
        BY <4>1, <4>4
    <3> QED
      BY <3>1, <3>2
  <2>4. \A d \in S : d \in Held \/ \E b \in S : d \in KidsOf(heap', b)
    BY <2>2, <2>3
  <2> HIDE DEF S
  <2> QED
    BY <1>4, <2>1, <2>4, HeldIsKept
<1>13. \A i \in 1 .. n : stack[i].left \in live'
  BY <1>12
<1>14. \A i \in 1 .. n : i # n => FromPast(heap', stack[i])
  BY <1>1, <1>6, <1>10 DEF Walk, FromPast
<1>15. FromPast(heap', [stack[n] EXCEPT !.index = @ + 1])
  <2> DEFINE f == [stack[n] EXCEPT !.index = @ + 1]
  <2>1. f.left = c /\ f.right = Top.right /\ f.index = Top.index + 1 /\ Top.index \in Nat
    BY <1>1 DEF Calls, c
  <2> HIDE DEF f
  <2>2. \A m \in DOMAIN G[Top.right] : m \in Nat
    BY <1>1, <1>3, StartIsTyped DEF Contents
  <2> SUFFICES ASSUME NEW d \in ToSet(after)
               PROVE  \/ d \in ToSet(G[c])
                      \/ \E m \in DOMAIN G[Top.right] :
                           m < Top.index + 1 /\ G[Top.right][m].key = d.key
    BY <1>6, <2>1 DEF FromPast, f
  <2>3. CASE d = new
    BY <1>2, <2>1, <2>2, <2>3
  <2>4. CASE d \in ToSet(heap[c])
    <3>1. FromPast(heap, Top)
      BY <1>1 DEF Walk
    <3>2. \/ d \in ToSet(G[c])
          \/ \E m \in DOMAIN G[Top.right] : m < Top.index /\ G[Top.right][m].key = d.key
      BY <2>4, <3>1 DEF FromPast, c
    <3> QED
      BY <2>1, <2>2, <3>2
  <2> QED
    BY <1>5, <2>3, <2>4 DEF ToSet
<1>16. ASSUME NEW i \in 1 .. n, NEW y \in Ahead(stack[i], stack[i].index + 1)
       PROVE  Whole(heap', y)
  <2>1. Whole(heap, y)
    BY <1>1 DEF Walk, AheadIsWhole
  <2>2. c \notin Reachable(G, y)
    BY <1>1, <1>3, SiblingsApart DEF Walk, c
  <2> QED
    BY <1>6, <2>1, <2>2 DEF Whole, Reachable
<1>17. Walk(heap', live', Advanced(stack), NoVisit)
  BY <1>1, <1>3, <1>11, <1>13, <1>14, <1>15, <1>16, TurnKeepsWalk
<1> QED
  BY <1>1, <1>3, <1>6, <1>7, <1>9, <1>12, <1>13, <1>17 DEF c

\* The two objects that the loop finds meet: its key is not past, so the object's is its own.
LEMMA DescendKeepsKept ==
  ASSUME IInv, KeptInv, Promised, InLoop("update"), ~Exhausted,
         LET e == heap[Top.right][Top.index] IN {Current(e), e.value} \subseteq Objects
  PROVE  LET e == heap[Top.right][Top.index] IN Meet(heap, Top, Current(e), e.value)
<1> DEFINE G == start.kids
           c == Top.left
           e == heap[Top.right][Top.index]
           at == {i \in DOMAIN heap[c] : heap[c][i].key = CString[e.key]}
<1>1. /\ Top \in Calls /\ c \in Mine /\ FromPast(heap, Top)
      /\ G[Top.right] \in Contents /\ heap[c] \in Contents
  BY NothingIsStale DEF Walk
<1>2. /\ Top.index \in DOMAIN G[Top.right]
      /\ e = G[Top.right][Top.index] /\ CString[e.key] = e.key
  BY EntryIsTheirs
<1>3. Current(e) # Null
  BY LeavesAssumption, StartIsTyped DEF KeptInv
<1>4. PICK i \in DOMAIN heap[c] : heap[c][i].key = e.key /\ Current(e) = heap[c][i].value
  <2>1. Current(e) = IF at = {} THEN Null ELSE heap[c][CHOOSE i \in at : TRUE].value
    BY DEF Current, Get
  <2>2. at # {}
    BY <1>3, <2>1
  <2>3. (CHOOSE i \in at : TRUE) \in at
    BY <2>2
  <2> QED
    BY <1>2, <2>1, <2>2, <2>3
<1> DEFINE met == [key |-> e.key, value |-> Current(e)]
<1>5. heap[c][i] = met /\ met \in ToSet(heap[c]) /\ met.key = e.key
  <2>1. heap[c][i] \in Entry
    BY <1>1 DEF Contents
  <2> QED
    BY <1>4, <2>1 DEF Entry, ToSet
<1> HIDE DEF met
<1>6. met \in ToSet(G[c])
  <2>1. ASSUME NEW m \in DOMAIN G[Top.right], m < Top.index, G[Top.right][m].key = met.key
        PROVE  FALSE
    <3>1. m = Top.index
      BY <1>1, <1>2, <1>5, <2>1 DEF Contents, OneEach
    <3> QED
      BY <1>1, <2>1, <3>1 DEF Calls
  <2> QED
    BY <1>1, <1>5, <2>1 DEF FromPast
<1> QED
  BY <1>2, <1>5, <1>6 DEF Meet, met

\* A loop is done: the frame below goes on.
LEMMA LeaveKeepsKept ==
  ASSUME IInv, KeptInv, Promised, InLoop("update"), Rest # << >>
  PROVE  Walk(heap, live, Advanced(Rest), NoVisit)
<1> DEFINE n == Len(stack)
           s == Front(stack)
<1>1. /\ stack \in Seq(Calls) /\ n \in Nat \ {0} /\ start \in Graphs
      /\ Walk(heap, live, stack, NoVisit)
  BY NothingIsStale DEF KeptInv
<1>2. /\ s \in Seq(Calls)
      /\ Len(s) = n - 1
      /\ \A i \in 1 .. n - 1 : s[i] = stack[i]
  <2>1. s = SubSeq(stack, 1, n - 1)
    BY DEF Front
  <2>2. n - 1 \in Int /\ \A i \in 1 .. n - 1 : stack[i] \in Calls
    BY <1>1
  <2> HIDE DEF n, s
  <2> QED
    BY <1>1, <2>1, <2>2, SubSeqProperties
<1>3. Rest = s /\ s # << >> /\ n - 1 \in 1 .. n - 1
  BY <1>1, <1>2 DEF Rest
<1> HIDE DEF s
<1>4. Lineage(heap, s)
  <2>1. \A i \in 1 .. (n - 1) - 1 : i \in 1 .. n - 1 /\ i + 1 \in 1 .. n - 1
    BY <1>1
  <2>2. \A i \in 1 .. n - 1 : i \in 1 .. n
    BY <1>1
  <2>3. 1 \in 1 .. n - 1
    BY <1>1, <1>3
  <2>4. /\ \A i \in 1 .. n : stack[i].left \in Mine /\ stack[i].right \in Theirs
        /\ stack[1].left = task.left
        /\ \A i \in 1 .. n - 1 : Meet(heap, stack[i], stack[i + 1].left, stack[i + 1].right)
        /\ \A i, j \in 1 .. n : stack[i].left = stack[j].left => i = j
    BY <1>1 DEF Walk, Lineage
  <2>5. \A i \in 1 .. (n - 1) - 1 : Meet(heap, s[i], s[i + 1].left, s[i + 1].right)
    BY <1>2, <2>1, <2>4
  <2> QED
    BY <1>2, <2>2, <2>3, <2>4, <2>5 DEF Lineage
<1>5. \A i \in 1 .. n - 1 :
        /\ s[i].left \in live /\ FromPast(heap, s[i])
        /\ \A y \in Ahead(s[i], s[i].index + 1) : Whole(heap, y)
  BY <1>1, <1>2 DEF Walk, AheadIsWhole
<1>6. FromPast(heap, [s[n - 1] EXCEPT !.index = @ + 1])
  <2> DEFINE f == s[n - 1]
             g == [f EXCEPT !.index = @ + 1]
  <2>1. f \in Calls
    BY <1>2, <1>3
  <2>2. g.left = f.left /\ g.right = f.right /\ g.index = f.index + 1 /\ f.index \in Nat
        /\ f.right \in Containers
    BY <2>1 DEF Calls
  <2>3. FromPast(heap, f)
    BY <1>3, <1>5
  <2> HIDE DEF f, g
  <2>4. start.kids[f.right] \in Seq(Entry)
    BY <1>1, <2>2, StartIsTyped DEF Contents
  <2>5. \A m \in DOMAIN start.kids[f.right] : m < f.index => m < f.index + 1
    BY <2>2, <2>4
  <2>6. FromPast(heap, g)
    BY <2>2, <2>3, <2>5 DEF FromPast
  <2> QED
    BY <2>6 DEF f, g
<1>7. Walk(heap, live, Advanced(s), NoVisit)
  BY <1>1, <1>2, <1>3, <1>4, <1>5, <1>6, TurnKeepsWalk
<1> QED
  BY <1>3, <1>7

LEMMA KeptInvKept == IInv /\ KeptInv /\ [Next]_vars => KeptInv'
<1> SUFFICES ASSUME IInv, KeptInv, [Next]_vars PROVE KeptInv'
  OBVIOUS
<1>1. UNCHANGED <<start, task>>
  BY DEF Next, vars, ReadsStale, Overflow, UpdateRefused, UpdateEnter, UpdateDescend,
     UpdateSet, UpdateLeave, EqualRefused, EqualAtOnce, EqualEnter, EqualDescend, EqualLeave,
     CopyBegin, CopyEntry, CopyEnd
<1>2. SUFFICES ASSUME Promised
               PROVE  /\ heap' \in [Containers -> Contents]
                      /\ live' \subseteq Containers
                      /\ IsClosed(heap', live')
                      /\ Theirs \subseteq live'
                      /\ \A c \in Containers \ Mine : heap'[c] = start.kids[c]
                      /\ status' # "stale"
                      /\ status' = "running" => Walk(heap', live', stack', visit')
  <2>1. start' = start /\ task' = task
    BY <1>1
  <2>2. (Promised' <=> Promised) /\ Theirs' = Theirs /\ Mine' = Mine
    BY <2>1 DEF Promised, Apart, IsTree, NoNul, Theirs, Mine
  <2>3. Walk(heap, live, stack, visit)' <=> Walk(heap', live', stack', visit')
    BY <2>1, <2>2 DEF Walk, Lineage, Meet, FromPast, Ahead, AheadIsWhole, Whole, NoVisit
  <2> QED
    BY <2>1, <2>2, <2>3 DEF KeptInv
<1>3. /\ heap \in [Containers -> Contents]
      /\ live \subseteq Containers
      /\ IsClosed(heap, live)
      /\ Theirs \subseteq live
      /\ \A c \in Containers \ Mine : heap[c] = start.kids[c]
      /\ status # "stale"
      /\ status = "running" => Walk(heap, live, stack, visit)
  BY <1>2 DEF KeptInv
<1>4. CASE UNCHANGED vars
  BY <1>3, <1>4 DEF vars
<1>5. CASE ReadsStale
  BY <1>2, <1>5, NothingIsStale DEF ReadsStale
<1>6. CASE Overflow \/ UpdateRefused
  BY <1>3, <1>6 DEF Overflow, UpdateRefused, Ends
<1>7. CASE UpdateEnter
  <2>1. UNCHANGED <<heap, live>>
    BY <1>7 DEF UpdateEnter
  <2>2. CASE Ends("failed")
    BY <1>3, <2>1, <2>2 DEF Ends
  <2>3. CASE /\ stack' = Append(stack, Frame(visit.left, visit.right))
             /\ visit' = NoVisit
             /\ UNCHANGED status
    <3>1. Calling("update") /\ status = "running" /\ {visit.left, visit.right} \subseteq Objects
      BY <1>7 DEF UpdateEnter, Calling
    <3>2. Walk(heap, live, stack', NoVisit)
      BY <1>2, <2>3, <3>1, EnterKeepsKept
    <3> QED
      BY <1>3, <2>1, <2>3, <3>2
  <2> QED
    BY <1>7, <2>2, <2>3 DEF UpdateEnter
<1>8. CASE UpdateDescend
  <2> DEFINE e == heap[Top.right][Top.index]
  <2>1. /\ InLoop("update") /\ ~Exhausted
        /\ {Current(e), e.value} \subseteq Objects
        /\ visit' = [left |-> Current(e), right |-> e.value]
        /\ UNCHANGED <<heap, live, stack, status>>
    BY <1>8 DEF UpdateDescend, Into
  <2>2. Meet(heap, Top, Current(e), e.value)
    BY <1>2, <2>1, DescendKeepsKept
  <2>3. Top = stack[Len(stack)] /\ stack # << >> /\ Walk(heap, live, stack, NoVisit)
    BY <1>2, <2>1, NothingIsStale DEF InLoop
  <2>4. visit'.left = Current(e) /\ visit'.right = e.value
    BY <2>1
  <2>5. Walk(heap, live, stack, visit')
    <3> HIDE DEF e
    <3> QED
      BY <2>2, <2>3, <2>4 DEF Walk
  <2> QED
    BY <1>3, <2>1, <2>5
<1>9. CASE UpdateSet
  <2> DEFINE e == heap[Top.right][Top.index]
  <2>1. InLoop("update") /\ ~Exhausted /\ status = "running" /\ visit = NoVisit
    BY <1>9 DEF UpdateSet, InLoop
  <2>2. CASE /\ Set(Top.left, e.key, e.value)
             /\ status' = IF Top.left \in live' THEN status ELSE "stale"
             /\ stack' = Advanced(stack)
             /\ UNCHANGED <<parents, visit, broken>>
    BY <1>2, <2>1, <2>2, SetKeepsKept
  <2>3. CASE Ends("failed") /\ UNCHANGED <<heap, live>>
    BY <1>3, <2>3 DEF Ends
  <2> QED
    BY <1>9, <2>2, <2>3 DEF UpdateSet
<1>10. CASE UpdateLeave
  <2>1. /\ InLoop("update")
        /\ UNCHANGED <<heap, live>>
        /\ stack' = Advanced(Rest) /\ visit' = NoVisit
        /\ status' = IF Len(stack) = 1 THEN "ok" ELSE "running"
    BY <1>10 DEF UpdateLeave, Returns
  <2>2. CASE Len(stack) = 1
    BY <1>3, <2>1, <2>2
  <2>3. CASE Len(stack) # 1
    <3>1. stack \in Seq(Calls) /\ Len(stack) \in Nat \ {0}
      BY <1>2, <2>1, NothingIsStale
    <3>2. Len(SubSeq(stack, 1, Len(stack) - 1)) # 0
      <4> DEFINE n == Len(stack)
      <4>1. n \in Nat \ {0, 1} /\ \A i \in 1 .. n - 1 : stack[i] \in Calls
        BY <2>3, <3>1
      <4>2. n - 1 \in Nat \ {0}
        BY <4>1
      <4> HIDE DEF n
      <4>3. Len(SubSeq(stack, 1, n - 1)) = n - 1
        BY <3>1, <4>1, <4>2, SubSeqProperties
      <4> QED
        BY <4>2, <4>3 DEF n
    <3>3. Rest # << >>
      BY <3>2 DEF Rest, Front
    <3>4. Walk(heap, live, stack', NoVisit)
      BY <1>2, <2>1, <3>3, LeaveKeepsKept
    <3> QED
      BY <1>3, <2>1, <2>3, <3>4
  <2> QED
    BY <2>2, <2>3
<1>11. CASE \/ EqualRefused \/ EqualAtOnce \/ EqualEnter \/ EqualDescend \/ EqualLeave
            \/ CopyBegin \/ CopyEntry \/ CopyEnd
  BY <1>2, <1>11 DEF EqualRefused, EqualAtOnce, EqualEnter, EqualDescend, EqualLeave,
     CopyBegin, CopyEntry, CopyEnd, Calling, InLoop, Promised
<1> QED
  BY <1>4, <1>5, <1>6, <1>7, <1>8, <1>9, <1>10, <1>11 DEF Next

\* json_object_update_recursive reads nothing that is freed, frees nothing of the other object and
\* does not change it, when the two have no part in common.
THEOREM UpdateLeavesTheOther == Spec => []OtherIsKept
<1>1. KeptInv => OtherIsKept
  <2> SUFFICES ASSUME KeptInv, Promised
               PROVE  /\ status # "stale"
                      /\ \A c \in Theirs : c \in live /\ heap[c] = start.kids[c]
    BY DEF OtherIsKept, Promised, Theirs
  <2>1. Theirs \subseteq Containers \ Mine
    BY DEF Promised, Apart, Theirs, Mine, Reachable
  <2> QED
    BY <2>1 DEF KeptInv
<1> QED
  BY <1>1, InitEstablishes, NextPreserves, KeptInvAtFirst, KeptInvKept, PTL DEF Spec

-----------------------------------------------------------------------------
(* What the update fails for.                                              *)

FailInv ==
  Promised /\ BothObjects /\ ~Knotted(start.kids, task.right) =>
    /\ status = "running" /\ visit # NoVisit => {visit.left, visit.right} \subseteq Objects
    /\ status = "failed" => broken

\* The other object of a call in progress is that of the one before, or below it.
LEMMA OthersDescend ==
  ASSUME NEW h, NEW s \in Seq(Calls), Lineage(h, s), NEW i \in 1 .. Len(s)
  PROVE  \A j \in i .. Len(s) :
           s[j].right = s[i].right \/ s[j].right \in Below(start.kids, s[i].right)
<1> DEFINE n == Len(s)
           G == start.kids
           B == Below(G, s[i].right)
           Bad == {j \in i .. n : ~ (s[j].right = s[i].right \/ s[j].right \in B)}
<1> SUFFICES ASSUME Bad # {} PROVE FALSE
  OBVIOUS
<1>1. i \in Nat \ {0} /\ n \in Nat
  OBVIOUS
<1>2. PICK j \in Bad : \A k \in Bad : j <= k
  <2>1. Bad \in SUBSET Nat
    BY <1>1
  <2> HIDE DEF Bad
  <2> QED
    BY <2>1, LeastElement
<1>3. j # i /\ j \in i .. n
  BY <1>2
<1> DEFINE p == j - 1
<1>4. p \in i .. n /\ p \in 1 .. n - 1 /\ p + 1 = j /\ ~ (j <= p)
  BY <1>1, <1>3
<1>5. s[p].right = s[i].right \/ s[p].right \in B
  BY <1>2, <1>4
<1>6. s[j].right \in KidsOf(G, s[p].right)
  <2>1. Meet(h, s[p], s[j].left, s[j].right)
    BY <1>4 DEF Lineage
  <2>2. s[j] \in Calls
    BY <1>1, <1>3
  <2>3. s[j].right \in Containers
    BY <2>2 DEF Calls
  <2> QED
    BY <2>1, <2>3, Kid DEF Meet
<1> HIDE DEF p
<1>7. CASE s[p].right = s[i].right
  <2>1. s[j].right \in Containers
    BY <1>6, KidsAreEntries
  <2>2. s[j].right \in B
    BY <1>6, <1>7, <2>1, SelfIsReached DEF Below
  <2> QED
    BY <1>2, <2>2
<1>8. CASE s[p].right \in B
  <2>1. PICK d \in KidsOf(G, s[i].right) : s[p].right \in Reachable(G, d)
    BY <1>8 DEF Below
  <2>2. s[j].right \in Reachable(G, d)
    BY <1>6, <2>1, ReachedIsClosed
  <2> QED
    BY <1>2, <2>1, <2>2 DEF Below
<1> QED
  BY <1>5, <1>7, <1>8

\* An object that is one of the parents would hold itself.
LEMMA ParentIsKnot ==
  ASSUME IInv, KeptInv, Promised, Calling("update"), visit.right \in parents
  PROVE  Knotted(start.kids, task.right)
<1> DEFINE n == Len(stack)
           G == start.kids
<1>1. status = "running" /\ task.call = "update" /\ visit # NoVisit
  BY DEF Calling
<1>2. /\ Walk(heap, live, stack, visit) /\ Path(stack, parents)
      /\ stack \in Seq(Calls) /\ n \in Nat
  BY <1>1 DEF KeptInv, IInv, Path
<1>3. PICK i \in 1 .. n : stack[i].right = visit.right
  BY <1>2 DEF Path, OthersOf
<1>4. stack # << >> /\ n \in i .. n
  BY <1>2, <1>3
<1>5. visit.right \in Theirs /\ visit.right \in Containers
  BY <1>2, <1>3 DEF Walk, Lineage, Theirs, Reachable
<1>6. visit.right \in KidsOf(G, stack[n].right)
  BY <1>1, <1>2, <1>4, <1>5, Kid DEF Walk, Meet
<1>7. stack[n].right = visit.right \/ stack[n].right \in Below(G, visit.right)
  BY <1>2, <1>3, <1>4, OthersDescend DEF Walk
<1>8. visit.right \in Below(G, visit.right)
  <2>1. CASE stack[n].right = visit.right
    BY <1>5, <1>6, <2>1, SelfIsReached DEF Below
  <2>2. CASE stack[n].right \in Below(G, visit.right)
    <3>1. PICK d \in KidsOf(G, visit.right) : stack[n].right \in Reachable(G, d)
      BY <2>2 DEF Below
    <3>2. visit.right \in Reachable(G, d)
      BY <1>6, <3>1, ReachedIsClosed
    <3> QED
      BY <3>1, <3>2 DEF Below
  <2> QED
    BY <1>7, <2>1, <2>2
<1> QED
  BY <1>5, <1>8 DEF Knotted, Theirs

LEMMA FailInvAtFirst == Init => FailInv
  BY DEF Init, FailInv, BothObjects

LEMMA FailInvKept == IInv /\ KeptInv /\ FailInv /\ [Next]_vars => FailInv'
<1> SUFFICES ASSUME IInv, KeptInv, FailInv, [Next]_vars PROVE FailInv'
  OBVIOUS
<1>1. start' = start /\ task' = task
  BY DEF Next, vars, ReadsStale, Overflow, UpdateRefused, UpdateEnter, UpdateDescend,
     UpdateSet, UpdateLeave, EqualRefused, EqualAtOnce, EqualEnter, EqualDescend, EqualLeave,
     CopyBegin, CopyEntry, CopyEnd
<1>2. SUFFICES ASSUME Promised, BothObjects, ~Knotted(start.kids, task.right)
               PROVE  /\ status' = "running" /\ visit' # NoVisit => {visit'.left, visit'.right} \subseteq Objects
                      /\ status' = "failed" => broken'
  BY <1>1 DEF FailInv, Promised, Apart, IsTree, NoNul, BothObjects, Objects, NoVisit
<1>3. /\ status = "running" /\ visit # NoVisit => {visit.left, visit.right} \subseteq Objects
      /\ status = "failed" => broken
  BY <1>2 DEF FailInv
<1>4. CASE UNCHANGED vars
  BY <1>3, <1>4 DEF vars, NoVisit
<1>5. CASE ReadsStale \/ Overflow
  BY <1>3, <1>5 DEF ReadsStale, Overflow, Ends
<1>6. CASE UpdateRefused
  <2>1. Calling("update") /\ (visit.right \in parents \/ ~ ({visit.left, visit.right} \subseteq Objects))
    BY <1>6 DEF UpdateRefused
  <2>2. {visit.left, visit.right} \subseteq Objects
    BY <1>3, <2>1 DEF Calling
  <2> QED
    BY <1>2, <2>1, <2>2, ParentIsKnot
<1>7. CASE UpdateEnter
  BY <1>3, <1>7 DEF UpdateEnter, Ends, Calling
<1>8. CASE UpdateDescend
  <2> DEFINE e == heap[Top.right][Top.index]
  <2>1. /\ InLoop("update")
        /\ {Current(e), e.value} \subseteq Objects
        /\ visit' = [left |-> Current(e), right |-> e.value]
        /\ UNCHANGED <<broken, status>>
    BY <1>8 DEF UpdateDescend, Into
  <2> QED
    BY <2>1 DEF InLoop
<1>9. CASE UpdateSet
  <2> DEFINE e == heap[Top.right][Top.index]
  <2>1. InLoop("update") /\ ~Exhausted /\ status = "running" /\ visit = NoVisit
    BY <1>9 DEF UpdateSet, InLoop
  <2>2. e.value # Top.left
    <3>1. e.value \in Containers => e.value \in Theirs
      BY <1>2, <2>1, EntryIsTheirs
    <3>2. Top.left \in Mine /\ Top.left \in Containers
      BY <1>2, <2>1, NothingIsStale DEF Mine, Reachable
    <3> QED
      BY <1>2, <3>1, <3>2 DEF Promised, Apart, Mine, Theirs
  <2>3. \/ status' \in {status, "stale"} /\ visit' = visit
        \/ Ends("failed") /\ broken' = TRUE
    BY <1>9, <2>2 DEF UpdateSet
  <2> QED
    BY <2>1, <2>3 DEF Ends
<1>10. CASE UpdateLeave
  BY <1>10 DEF UpdateLeave, Returns
<1>11. CASE \/ EqualRefused \/ EqualAtOnce \/ EqualEnter \/ EqualDescend \/ EqualLeave
            \/ CopyBegin \/ CopyEntry \/ CopyEnd
  BY <1>2, <1>11 DEF EqualRefused, EqualAtOnce, EqualEnter, EqualDescend, EqualLeave,
     CopyBegin, CopyEntry, CopyEnd, Calling, InLoop, Promised
<1> QED
  BY <1>4, <1>5, <1>6, <1>7, <1>8, <1>9, <1>10, <1>11 DEF Next

\* json_object_update_recursive fails only for want of memory, when the two objects have no part in
\* common and the other is in no knot.
THEOREM UpdateFailsOnlyForMemory == Spec => []UpdateFailsForMemory
<1>1. FailInv => UpdateFailsForMemory
  BY DEF FailInv, UpdateFailsForMemory, Promised
<1> QED
  BY <1>1, InitEstablishes, NextPreserves, KeptInvAtFirst, KeptInvKept, FailInvAtFirst, FailInvKept,
     PTL DEF Spec

-----------------------------------------------------------------------------
(* The shallow copy.                                                       *)

\* The copy has the first count entries.
HasFirst(count) ==
  NoNul(start.kids, task.right) =>
    /\ count \in 0 .. Len(start.kids[task.right])
    /\ heap[Copied] \in Seq(Entry)
    /\ Len(heap[Copied]) = count
    /\ \A i \in 1 .. count : heap[Copied][i] = start.kids[task.right][i]

CopyInv ==
  /\ start \in Graphs
  /\ task.call = "copy" =>
       /\ task.right \in Containers \ {Copied}
       /\ \A c \in Containers \ {Copied} : heap[c] = start.kids[c]
       /\ heap \in [Containers -> Seq(Entry)]
       /\ status = "running" /\ visit # NoVisit => HasFirst(0) /\ Copied \notin live
       /\ status = "running" /\ visit = NoVisit =>
            /\ Len(stack) = 1 /\ stack \in Seq(Calls)
            /\ stack[1].right = task.right
            /\ HasFirst(stack[1].index - 1) /\ Copied \in live
       /\ status = "ok" => Copied \in live /\ HasFirst(Len(start.kids[task.right]))
       /\ status = "failed" => broken /\ Copied \notin live

LEMMA OnlyFrameIsCall ==
  ASSUME NEW s \in Seq(Calls), Len(s) = 1
  PROVE  s[1] \in Calls
  OBVIOUS

LEMMA CopyInvAtFirst == Init => CopyInv
<1> SUFFICES ASSUME Init, task.call = "copy" PROVE CopyInv
  BY DEF Init, CopyInv
<1>1. /\ start \in Graphs /\ heap = start.kids /\ status = "running"
      /\ visit = [left |-> task.left, right |-> task.right]
      /\ live = Kept(heap, Containers \ {Copied}, Held)
      /\ task.right \in Containers
  BY DEF Init
<1>2. task.right # Copied
  BY CopiedAssumption DEF Init
<1>3. heap \in [Containers -> Seq(Entry)] /\ heap[Copied] = << >>
  BY <1>1, CopiedAssumption, GraphsAssumption
<1>4. Copied \notin live
  BY <1>1, KeptIsAlive
<1>5. visit # NoVisit
  BY <1>1, LeavesAssumption DEF NoVisit
<1>6. HasFirst(0)
  <2>1. start.kids[task.right] \in Seq(Entry)
    BY <1>1, <1>3
  <2>2. Len(start.kids[task.right]) \in Nat
    BY <2>1
  <2> QED
    BY <1>3, <2>2 DEF HasFirst
<1> QED
  BY <1>1, <1>2, <1>3, <1>4, <1>5, <1>6 DEF CopyInv

\* One more entry is copied.
LEMMA EntryIsCopied ==
  ASSUME start \in Graphs, task.right \in Containers \ {Copied},
         heap \in [Containers -> Seq(Entry)], heap[task.right] = start.kids[task.right],
         NEW n \in 1 .. Len(start.kids[task.right]), HasFirst(n - 1),
         NEW e, e = start.kids[task.right][n],
         heap' = [heap EXCEPT ![Copied] = With(@, CString[e.key], e.value)],
         start' = start, task' = task
  PROVE  /\ heap' \in [Containers -> Seq(Entry)]
         /\ HasFirst(n)'
<1> DEFINE G == start.kids[task.right]
           new == [key |-> CString[e.key], value |-> e.value]
           s == heap[Copied]
           t == With(s, CString[e.key], e.value)
<1>1. /\ G \in Seq(Entry) /\ OneEach(G) /\ Copied \in Containers /\ s \in Seq(Entry)
      /\ n \in Nat \ {0} /\ n \in DOMAIN G /\ n - 1 \in Nat
  BY StartIsTyped, CopiedAssumption DEF Contents
<1>2. e \in Entry /\ e.key \in Keys /\ e.value \in Values /\ CString[e.key] \in Keys
  <2>1. e \in Entry
    BY <1>1
  <2> QED
    BY <2>1, CStringAssumption DEF Entry
<1>3. new \in Entry
  BY <1>2 DEF Entry
<1> HIDE DEF G
<1>4. t \in Seq(Entry)
  <2> DEFINE u == [i \in DOMAIN s |-> IF s[i].key = CString[e.key] THEN new ELSE s[i]]
  <2>1. t = u \/ t = Append(s, new)
    BY DEF With
  <2> HIDE DEF new, t, s
  <2>2. u \in Seq(Entry)
    <3>1. DOMAIN s = 1 .. Len(s) /\ Len(s) \in Nat /\ \A i \in DOMAIN s : s[i] \in Entry
      BY <1>1
    <3>2. \A i \in DOMAIN s : u[i] \in Entry
      BY <1>3, <3>1
    <3>3. u \in [1 .. Len(s) -> Entry]
      BY <3>1, <3>2
    <3> HIDE DEF u
    <3> QED
      BY <3>1, <3>3, IsASeq
  <2>3. Append(s, new) \in Seq(Entry)
    BY <1>1, <1>3
  <2> HIDE DEF u
  <2> QED
    BY <2>1, <2>2, <2>3
<1>5. ASSUME NoNul(start.kids, task.right)
      PROVE  Len(t) = n /\ \A i \in 1 .. n : t[i] = G[i]
  <2>1. /\ Len(s) = n - 1
        /\ \A i \in 1 .. n - 1 : s[i] = G[i]
    BY <1>5 DEF HasFirst, G
  <2>2. CString[e.key] = e.key
    BY <1>1, <1>5, SelfIsReached DEF NoNul, G
  <2>3. e = G[n]
    BY DEF G
  <2>4. \A i \in 1 .. n - 1 : i \in DOMAIN G /\ i # n
    BY <1>1
  <2>5. DOMAIN s = 1 .. n - 1
    BY <1>1, <2>1
  <2>6. ~ \E i \in DOMAIN s : s[i].key = CString[e.key]
    BY <1>1, <2>1, <2>2, <2>3, <2>4, <2>5 DEF OneEach
  <2>7. t = Append(s, new)
    BY <2>6 DEF With
  <2>8. new = e
    BY <1>2, <2>2 DEF Entry
  <2>9. Len(t) = n /\ t[n] = e /\ \A i \in 1 .. n - 1 : t[i] = s[i]
    <3> HIDE DEF new, s, t
    <3> QED
      BY <1>1, <1>2, <2>1, <2>7, <2>8
  <2> HIDE DEF t, s
  <2>10. \A i \in 1 .. n : i = n \/ i \in 1 .. n - 1
    BY <1>1
  <2> QED
    BY <2>1, <2>3, <2>9, <2>10
<1> HIDE DEF t
<1>6. heap' = [heap EXCEPT ![Copied] = t]
  BY DEF t
<1>7. heap' \in [Containers -> Seq(Entry)] /\ heap'[Copied] = t
  BY <1>1, <1>4, <1>6
<1>8. HasFirst(n)'
  <2>1. n \in 0 .. Len(G)
    BY <1>1
  <2>2. NoNul(start.kids, task.right)' => NoNul(start.kids, task.right)
    BY DEF NoNul
  <2> QED
    BY <1>4, <1>5, <1>7, <2>1, <2>2 DEF HasFirst, G
<1> QED
  BY <1>7, <1>8

LEMMA CopyInvKept == CopyInv /\ [Next]_vars => CopyInv'
<1> SUFFICES ASSUME CopyInv, [Next]_vars PROVE CopyInv'
  OBVIOUS
<1>1. start' = start /\ task' = task
  BY DEF Next, vars, ReadsStale, Overflow, UpdateRefused, UpdateEnter, UpdateDescend,
     UpdateSet, UpdateLeave, EqualRefused, EqualAtOnce, EqualEnter, EqualDescend, EqualLeave,
     CopyBegin, CopyEntry, CopyEnd
<1> DEFINE G == start.kids[task.right]
<1>2. CASE task.call # "copy"
  BY <1>1, <1>2 DEF CopyInv
<1>3. SUFFICES ASSUME task.call = "copy"
               PROVE  CopyInv'
  BY <1>2
<1>4. /\ start \in Graphs /\ task.right \in Containers \ {Copied}
      /\ \A c \in Containers \ {Copied} : heap[c] = start.kids[c]
      /\ heap \in [Containers -> Seq(Entry)]
      /\ heap[task.right] = G /\ G \in Seq(Entry)
  BY <1>3 DEF CopyInv
<1>5. \A m : heap' = heap => (HasFirst(m)' <=> HasFirst(m))
  BY <1>1 DEF HasFirst, NoNul
<1> HIDE DEF G
<1>6. CASE UNCHANGED vars
  BY <1>1, <1>5, <1>6 DEF vars, CopyInv, NoVisit
<1>7. CASE Overflow
  BY <1>1, <1>3, <1>7 DEF Overflow, Ends, CopyInv
<1>8. CASE CopyBegin
  <2>1. status = "running" /\ visit # NoVisit /\ UNCHANGED heap
    BY <1>8 DEF CopyBegin, Calling
  <2>2. HasFirst(0) /\ Copied \notin live
    BY <1>3, <2>1 DEF CopyInv
  <2>3. CASE Ends("failed") /\ broken' = TRUE /\ live' = live
    BY <1>1, <1>4, <2>1, <2>2, <2>3 DEF CopyInv, Ends
  <2>4. CASE /\ live' = live \cup {Copied}
             /\ stack' = <<Frame(Copied, task.right)>>
             /\ visit' = NoVisit
             /\ UNCHANGED status
    <3>1. /\ Frame(Copied, task.right) \in Calls
          /\ Frame(Copied, task.right).right = task.right
          /\ Frame(Copied, task.right).index = 1
      BY <1>4, CopiedAssumption DEF Frame, Calls
    <3>2. /\ Len(stack') = 1 /\ stack' \in Seq(Calls)
          /\ stack'[1].right = task.right /\ stack'[1].index - 1 = 0
      BY <2>4, <3>1
    <3>3. HasFirst(0)'
      BY <1>5, <2>1, <2>2
    <3> QED
      BY <1>1, <1>4, <2>1, <2>4, <3>2, <3>3 DEF CopyInv
  <2> QED
    BY <1>8, <2>3, <2>4 DEF CopyBegin
<1>9. ASSUME InLoop("copy")
      PROVE  /\ status = "running" /\ visit = NoVisit
             /\ Len(stack) = 1 /\ stack \in Seq(Calls) /\ Top = stack[1]
             /\ Top.right = task.right /\ Top.index \in Nat \ {0}
             /\ HasFirst(Top.index - 1) /\ Copied \in live
  <2>1. /\ status = "running" /\ visit = NoVisit
        /\ Len(stack) = 1 /\ stack \in Seq(Calls)
        /\ stack[1].right = task.right
        /\ HasFirst(stack[1].index - 1) /\ Copied \in live
    BY <1>3, <1>9 DEF CopyInv, InLoop
  <2>2. Top = stack[1]
    BY <2>1 DEF Top, Last
  <2>3. stack[1] \in Calls
    BY <2>1, OnlyFrameIsCall
  <2> QED
    BY <2>1, <2>2, <2>3 DEF Calls
<1>10. CASE CopyEntry
  <2>1. InLoop("copy") /\ ~Exhausted
    BY <1>10 DEF CopyEntry
  <2> PICK n : n = Top.index
    OBVIOUS
  <2>2. n \in 1 .. Len(G) /\ Top.right = task.right /\ HasFirst(n - 1)
    BY <1>4, <1>9, <2>1 DEF Exhausted
  <2> PICK e : e = G[n]
    OBVIOUS
  <2>3. CASE /\ heap' = [heap EXCEPT ![Copied] = With(@, CString[e.key], e.value)]
             /\ stack' = Advanced(stack)
             /\ UNCHANGED <<live, visit, status>>
    <3>1. heap' \in [Containers -> Seq(Entry)] /\ HasFirst(n)'
      BY <1>1, <1>4, <2>2, <2>3, EntryIsCopied DEF G
    <3>2. stack \in Seq(Calls) /\ Len(stack) = 1 /\ Top = stack[1]
      BY <1>9, <2>1
    <3>3. stack # << >>
      BY <2>1 DEF InLoop
    <3>4. /\ Len(stack') = 1 /\ stack' \in Seq(Calls)
          /\ stack'[1] = [stack[1] EXCEPT !.index = @ + 1]
      BY <2>3, <3>2, <3>3, AdvancedIs
    <3>5. stack[1] \in Calls
      BY <3>2, OnlyFrameIsCall
    <3>6. stack'[1].right = task.right /\ stack'[1].index - 1 = n
      BY <2>2, <3>2, <3>4, <3>5 DEF Calls
    <3>7. \A c \in Containers \ {Copied} : heap'[c] = start.kids[c]
      BY <1>4, <2>3
    <3>8. status' = "running" /\ visit' = NoVisit /\ Copied \in live'
      BY <1>9, <2>1, <2>3
    <3>9. HasFirst(stack[1].index - 1)'
      BY <3>1, <3>6 DEF HasFirst
    <3> QED
      BY <1>1, <1>4, <3>1, <3>4, <3>6, <3>7, <3>8, <3>9 DEF CopyInv, NoVisit
  <2>4. CASE /\ Ends("failed") /\ broken' = TRUE
             /\ live' = Kept(heap, live \ {Copied}, Held)
             /\ UNCHANGED heap
    <3>1. Copied \notin live'
      BY <2>4, KeptIsAlive
    <3> QED
      BY <1>1, <1>4, <2>4, <3>1 DEF CopyInv, Ends
  <2>5. e = heap[Top.right][Top.index]
    BY <1>4, <2>2
  <2> QED
    BY <1>10, <2>3, <2>4, <2>5 DEF CopyEntry
<1>11. CASE CopyEnd
  <2>1. InLoop("copy") /\ Exhausted /\ UNCHANGED <<heap, live>> /\ Returns
    BY <1>11 DEF CopyEnd
  <2>2. status' = "ok" /\ Copied \in live'
    BY <1>9, <2>1 DEF Returns
  <2>3. HasFirst(Len(G))
    <3>1. Top.index > Len(G) /\ Top.index \in Nat /\ Len(G) \in Nat
      BY <1>4, <1>9, <2>1 DEF Exhausted
    <3>2. HasFirst(Top.index - 1)
      BY <1>9, <2>1
    <3>3. CASE NoNul(start.kids, task.right)
      <4>1. Top.index - 1 = Len(G)
        BY <3>1, <3>2, <3>3 DEF HasFirst, G
      <4> QED
        BY <3>2, <4>1
    <3>4. CASE ~NoNul(start.kids, task.right)
      BY <3>4 DEF HasFirst
    <3> QED
      BY <3>3, <3>4
  <2>4. HasFirst(Len(G))'
    BY <1>5, <2>1, <2>3, <1>1 DEF HasFirst, NoNul, G
  <2> QED
    BY <1>1, <1>4, <2>1, <2>2, <2>4 DEF CopyInv, G
<1>12. CASE \/ ReadsStale \/ UpdateRefused \/ UpdateEnter \/ UpdateDescend \/ UpdateSet \/ UpdateLeave
            \/ EqualRefused \/ EqualAtOnce \/ EqualEnter \/ EqualDescend \/ EqualLeave
  BY <1>3, <1>12 DEF ReadsStale, UpdateRefused, UpdateEnter, UpdateDescend, UpdateSet, UpdateLeave,
     EqualRefused, EqualAtOnce, EqualEnter, EqualDescend, EqualLeave, Calling, InLoop
<1> QED
  BY <1>6, <1>7, <1>8, <1>10, <1>11, <1>12 DEF Next

\* json_copy makes a container with the entries of its argument, or fails for want of memory and
\* leaves nothing behind.
THEOREM CopyIsShared == Spec => []CopyKeepsPromise
<1>1. CopyInv => CopyKeepsPromise
  <2> SUFFICES ASSUME CopyInv, task.call = "copy" PROVE CopyKeepsPromise
    BY DEF CopyKeepsPromise
  <2>1. ASSUME status = "ok", NoNul(start.kids, task.right)
        PROVE  heap[Copied] = start.kids[task.right]
    <3>1. /\ HasFirst(Len(start.kids[task.right]))
          /\ start.kids[task.right] \in Seq(Entry)
      BY <2>1, GraphsAssumption DEF CopyInv
    <3>2. /\ heap[Copied] \in Seq(Entry)
          /\ Len(heap[Copied]) = Len(start.kids[task.right])
          /\ \A i \in 1 .. Len(heap[Copied]) : heap[Copied][i] = start.kids[task.right][i]
      BY <2>1, <3>1 DEF HasFirst
    <3> QED
      BY <3>1, <3>2
  <2> QED
    BY <2>1 DEF CopyInv, CopyKeepsPromise
<1> QED
  BY <1>1, CopyInvAtFirst, CopyInvKept, PTL DEF Spec
=============================================================================
