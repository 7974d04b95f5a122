--------------------------- MODULE RefCountProofs ---------------------------
(***************************************************************************)
(* Safety of reference counting for any numbers of threads, values and     *)
(* references.                                                             *)
(*                                                                         *)
(* The counts are exact because every step that creates or drops a token   *)
(* changes the field by one; a value with a token is therefore live; and   *)
(* the value a thread deletes is one no token refers to, which makes the   *)
(* deletion private to that thread.                                        *)
(***************************************************************************)
EXTENDS RefCount, FiniteSetTheorems, SequenceTheorems, TLAPS

Tokens == \A r \in Refs : holder[r] = Null <=> target[r] = Null

PhaseCount ==
  /\ \A v \in Mortal : phase[v] = "live" <=> rc[v] > 0
  /\ \A v \in Immortal : phase[v] = "live"

SlotsAlive ==
  \A r \in Refs : holder[r] \in Containers =>
    phase[holder[r]] \in {"live", "deleting"}

Stacked ==
  /\ \A t \in Threads : \A i \in DOMAIN stack[t] : phase[stack[t][i]] = "deleting"
  /\ DeletedOnce

\* What keeps a container while t works: a token of t itself, or a slot of a
\* container it goes through.
Keeps(t, c) == \E q \in Refs : target[q] = c /\ holder[q] \in via[t] \cup {t}

\* What a thread in the middle of a container operation relies on.
OpHolds(t) ==
  /\ op[t] = "none" => at[t] = Null /\ via[t] = {} /\ todo[t] = {}
  /\ op[t] # "none" =>
       /\ at[t] \in Containers
       /\ \A c \in via[t] \cup {at[t]} : Keeps(t, c)
  /\ op[t] \in {"store", "remove", "clear"} => at[t] \notin via[t]
  /\ op[t] = "store" =>
       \E r \in Refs : todo[t] = {r} /\ holder[r] = t
  /\ op[t] \in {"remove", "clear"} => todo[t] = {}
  /\ op[t] = "extend" =>
       /\ stack[t] = << >>
       /\ \A s \in todo[t] : holder[s] \in via[t]

\* The program's rule: nobody else uses a container while it is mutated.
Exclusive ==
  \A t, u \in Threads : t # u /\ at[u] # Null =>
    at[t] # at[u] /\ at[u] \notin via[t]

Operations == (\A t \in Threads : OpHolds(t)) /\ Exclusive

IInv ==
  /\ TypeOK
  /\ Tokens
  /\ CountExact
  /\ PhaseCount
  /\ SlotsAlive
  /\ Stacked
  /\ Operations

-----------------------------------------------------------------------------
(* Counting references.                                                    *)

LEMMA RefsFinite ==
  ASSUME NEW v
  PROVE  /\ IsFiniteSet(RefsTo(v))
         /\ Cardinality(RefsTo(v)) \in Nat
         /\ Cardinality(RefsTo(v)) = 0 <=> RefsTo(v) = {}
  <1>1. RefsTo(v) \in SUBSET Refs
    BY DEF RefsTo
  <1>2. IsFiniteSet(RefsTo(v))
    BY <1>1, RefsAssumption, FS_Subset
  <1>3. QED
    BY <1>2, FS_CardinalityType, FS_EmptySet

\* A gained token is a free one, and it is counted.
LEMMA GainCounts ==
  ASSUME TypeOK, CountExact, NEW h \in Threads \cup Containers,
         NEW v \in Values, Gain(h, v)
  PROVE  /\ NextRef \in Refs
         /\ target[NextRef] = Null
         /\ rc' \in [Values -> Nat]
         /\ holder' \in [Refs -> Threads \cup Containers \cup {Null}]
         /\ target' \in [Refs -> Values \cup {Null}]
         /\ CountExact'
  <1>1. NextRef \in Refs /\ target[NextRef] = Null
    BY DEF Gain, FreeRefs, NextRef
  <1>2. rc' \in [Values -> Nat]
    BY DEF Gain, TypeOK
  <1>3. /\ holder' \in [Refs -> Threads \cup Containers \cup {Null}]
        /\ target' \in [Refs -> Values \cup {Null}]
    BY <1>1 DEF Gain, TypeOK
  <1>4. ASSUME NEW w \in Mortal
        PROVE  rc'[w] = Cardinality(RefsTo(w)')
    <2>1. w \in Values /\ w # Null /\ rc[w] = Cardinality(RefsTo(w))
      BY SetsAssumption DEF Mortal, CountExact
    <2>2. CASE w = v
      <3>1. RefsTo(w)' = RefsTo(w) \cup {NextRef} /\ NextRef \notin RefsTo(w)
        BY <1>1, <2>1, <2>2 DEF Gain, RefsTo, TypeOK
      <3>2. Cardinality(RefsTo(w)') = Cardinality(RefsTo(w)) + 1
        BY <3>1, RefsFinite, FS_AddElement
      <3>3. rc'[w] = rc[w] + 1
        BY <2>1, <2>2 DEF Gain, TypeOK, Mortal
      <3>4. QED
        BY <2>1, <3>2, <3>3
    <2>3. CASE w # v
      <3>1. RefsTo(w)' = RefsTo(w)
        BY <1>1, <2>1, <2>3 DEF Gain, RefsTo, TypeOK
      <3>2. rc'[w] = rc[w]
        BY <2>1, <2>3 DEF Gain, TypeOK
      <3>3. QED
        BY <2>1, <3>1, <3>2
    <2>4. QED
      BY <2>2, <2>3
  <1>5. QED
    BY <1>1, <1>2, <1>3, <1>4 DEF CountExact

\* A value some token refers to is live.
LEMMA ReferredIsLive ==
  ASSUME TypeOK, CountExact, PhaseCount, NEW r \in Refs, target[r] # Null
  PROVE  /\ target[r] \in Values
         /\ phase[target[r]] = "live"
         /\ target[r] \in Mortal => rc[target[r]] > 0
  <1>1. target[r] \in Values
    BY DEF TypeOK
  <1>2. CASE target[r] \in Mortal
    <2>1. RefsTo(target[r]) # {}
      BY DEF RefsTo
    <2>2. rc[target[r]] > 0
      BY <1>2, <2>1, RefsFinite DEF CountExact
    <2>3. QED
      BY <1>1, <1>2, <2>2 DEF PhaseCount
  <1>3. CASE target[r] \notin Mortal
    BY <1>1, <1>3 DEF Mortal, PhaseCount
  <1>4. QED
    BY <1>2, <1>3

\* What a released reference leaves behind.
LEMMA ReleaseCounts ==
  ASSUME TypeOK, CountExact, PhaseCount, Stacked,
         NEW t \in Threads, NEW r \in Refs, target[r] # Null, Release(t, r)
  PROVE  /\ rc' \in [Values -> Nat]
         /\ phase' \in [Values -> Phases]
         /\ target' \in [Refs -> Values \cup {Null}]
         /\ stack' \in [Threads -> Seq(Mortal)]
         /\ CountExact'
         /\ PhaseCount'
         /\ Stacked'
         /\ \A c \in Values : phase[c] \in {"live", "deleting"} =>
              phase'[c] \in {"live", "deleting"}
         /\ \A u \in Threads \ {t} : stack'[u] = stack[u]
         /\ \A q \in Refs \ {r} : target'[q] = target[q]
         /\ target'[r] = Null
  <1> DEFINE v == target[r]
             last == v \in Mortal /\ rc[v] = 1
  <1>1. v \in Values /\ v # Null /\ phase[v] = "live" /\ (v \in Mortal => rc[v] > 0)
    BY ReferredIsLive
  <1>2. rc' \in [Values -> Nat]
    BY <1>1 DEF Release, TypeOK, Mortal
  <1>3. phase' \in [Values -> Phases]
    BY <1>1 DEF Release, TypeOK, Phases
  <1>4. /\ target' \in [Refs -> Values \cup {Null}]
        /\ target'[r] = Null
        /\ \A q \in Refs \ {r} : target'[q] = target[q]
    BY DEF Release, TypeOK
  <1>5. last => Append(stack[t], v) \in Seq(Mortal)
    BY DEF TypeOK
  <1>6. /\ stack' \in [Threads -> Seq(Mortal)]
        /\ \A u \in Threads \ {t} : stack'[u] = stack[u]
    BY <1>5 DEF Release, TypeOK
  <1>7. CountExact'
    <2> SUFFICES ASSUME NEW w \in Mortal
                 PROVE  rc'[w] = Cardinality(RefsTo(w)')
      BY DEF CountExact
    <2>1. w \in Values /\ w # Null /\ rc[w] = Cardinality(RefsTo(w))
      BY SetsAssumption DEF Mortal, CountExact
    <2>2. CASE w = v
      <3>1. RefsTo(w)' = RefsTo(w) \ {r} /\ r \in RefsTo(w)
        BY <1>4, <2>1, <2>2 DEF RefsTo
      <3>2. Cardinality(RefsTo(w)') = Cardinality(RefsTo(w)) - 1
        BY <3>1, RefsFinite, FS_RemoveElement
      <3>3. rc'[w] = rc[w] - 1
        BY <2>1, <2>2 DEF Release, TypeOK, Mortal
      <3>4. QED
        BY <2>1, <3>2, <3>3
    <2>3. CASE w # v
      <3>1. RefsTo(w)' = RefsTo(w)
        BY <1>4, <2>1, <2>3 DEF RefsTo
      <3>2. rc'[w] = rc[w]
        BY <2>1, <2>3 DEF Release, TypeOK
      <3>3. QED
        BY <2>1, <3>1, <3>2
    <2>4. QED
      BY <2>2, <2>3
  <1>8. PhaseCount'
    <2>1. ASSUME NEW w \in Mortal
          PROVE  phase'[w] = "live" <=> rc'[w] > 0
      <3>1. w \in Values /\ rc[w] \in Nat /\ (phase[w] = "live" <=> rc[w] > 0)
        BY DEF TypeOK, Mortal, PhaseCount
      <3>2. CASE w = v
        <4>1. rc'[w] = rc[w] - 1
          BY <3>1, <3>2 DEF Release, TypeOK, Mortal
        <4>2. phase'[w] = IF rc[w] = 1 THEN "deleting" ELSE phase[w]
          BY <3>1, <3>2 DEF Release, TypeOK
        <4>3. QED
          BY <1>1, <3>1, <3>2, <4>1, <4>2
      <3>3. CASE w # v
        BY <3>1, <3>3 DEF Release, TypeOK
      <3>4. QED
        BY <3>2, <3>3
    <2>2. ASSUME NEW w \in Immortal
          PROVE  phase'[w] = "live"
      BY <2>2, SetsAssumption DEF Release, TypeOK, Mortal, PhaseCount
    <2>3. QED
      BY <2>1, <2>2 DEF PhaseCount
  <1>9. Stacked'
    <2>1. CASE ~last
      BY <2>1 DEF Release, Stacked, DeletedOnce
    <2>2. CASE last
      <3>1. \A u \in Threads : \A i \in DOMAIN stack[u] : stack[u][i] # v
        BY <1>1 DEF Stacked
      <3>2. /\ DOMAIN stack'[t] = 1 .. Len(stack[t]) + 1
            /\ DOMAIN stack[t] = 1 .. Len(stack[t])
            /\ Len(stack[t]) \in Nat
            /\ \A i \in 1 .. Len(stack[t]) : stack'[t][i] = stack[t][i]
            /\ stack'[t][Len(stack[t]) + 1] = v
        BY <1>1, <2>2, <1>5 DEF Release, TypeOK
      <3>3. phase' = [phase EXCEPT ![v] = "deleting"]
        BY <2>2 DEF Release
      <3>4. ASSUME NEW u \in Threads, NEW i \in DOMAIN stack'[u]
            PROVE  phase'[stack'[u][i]] = "deleting"
        <4>1. \A w \in Values : phase[w] = "deleting" => phase'[w] = "deleting"
          BY <3>3 DEF TypeOK
        <4>2. \A x \in Threads : \A j \in DOMAIN stack[x] :
                stack[x][j] \in Values /\ phase[stack[x][j]] = "deleting"
          BY DEF Stacked, TypeOK, Mortal
        <4>3. CASE u # t
          BY <1>6, <4>1, <4>2, <4>3
        <4>4. CASE u = t /\ i # Len(stack[t]) + 1
          BY <3>2, <4>1, <4>2, <4>4
        <4>5. CASE u = t /\ i = Len(stack[t]) + 1
          BY <1>1, <3>2, <3>3, <4>5 DEF TypeOK
        <4>6. QED
          BY <4>3, <4>4, <4>5
      <3>5. DeletedOnce'
        <4> SUFFICES ASSUME NEW x \in Threads, NEW u \in Threads,
                            NEW i \in DOMAIN stack'[x], NEW j \in DOMAIN stack'[u],
                            stack'[x][i] = stack'[u][j]
                     PROVE  x = u /\ i = j
          BY DEF DeletedOnce
        <4>1. \A y \in Threads : \A k : k \in DOMAIN stack'[y] =>
                \/ k \in DOMAIN stack[y] /\ stack'[y][k] = stack[y][k]
                \/ y = t /\ k = Len(stack[t]) + 1 /\ stack'[y][k] = v
          BY <1>6, <3>2
        <4>2. QED
          BY <3>1, <4>1 DEF Stacked, DeletedOnce
      <3>6. QED
        BY <3>4, <3>5 DEF Stacked
    <2>3. QED
      BY <2>1, <2>2
  <1>10. \A c \in Values : phase[c] \in {"live", "deleting"} =>
           phase'[c] \in {"live", "deleting"}
    BY DEF Release, TypeOK
  <1>11. QED
    BY <1>2, <1>3, <1>4, <1>6, <1>7, <1>8, <1>9, <1>10

-----------------------------------------------------------------------------
(* Operations in progress.                                                 *)

\* An operation is not disturbed by a step that leaves alone what its thread
\* holds and the slots of the containers it goes through.
LEMMA OpHoldsKept ==
  ASSUME IInv, NEW u \in Threads,
         op'[u] = op[u], at'[u] = at[u], via'[u] = via[u], todo'[u] = todo[u],
         op[u] # "none" =>
           /\ \A r \in Refs : holder[r] \in via[u] \cup {u} =>
                holder'[r] = holder[r] /\ target'[r] = target[r]
           /\ op[u] = "extend" => stack'[u] = stack[u]
  PROVE  OpHolds(u)'
  <1>1. OpHolds(u) /\ todo[u] \subseteq Refs
    BY DEF IInv, TypeOK, Operations
  <1>2. CASE op[u] = "none"
    BY <1>1, <1>2 DEF OpHolds
  <1>3. CASE op[u] # "none"
    <2>1. ASSUME NEW c \in via[u] \cup {at[u]} PROVE Keeps(u, c)'
      <3>1. PICK q \in Refs : target[q] = c /\ holder[q] \in via[u] \cup {u}
        BY <1>1, <1>3, <2>1 DEF OpHolds, Keeps
      <3>2. target'[q] = c /\ holder'[q] \in via'[u] \cup {u}
        BY <1>3, <3>1
      <3>3. QED
        BY <3>2 DEF Keeps
    <2>2. op[u] = "store" => \E r \in Refs : todo'[u] = {r} /\ holder'[r] = u
      BY <1>1, <1>3 DEF OpHolds
    <2>3. op[u] = "extend" => \A s \in todo'[u] : holder'[s] \in via'[u]
      BY <1>1, <1>3 DEF OpHolds
    <2>4. QED
      BY <1>1, <1>3, <2>1, <2>2, <2>3 DEF OpHolds
  <1>4. QED
    BY <1>2, <1>3

LEMMA OperationsKept ==
  ASSUME IInv, UNCHANGED call,
         \A u \in Threads : op[u] # "none" =>
           /\ \A r \in Refs : holder[r] \in via[u] \cup {u} =>
                holder'[r] = holder[r] /\ target'[r] = target[r]
           /\ op[u] = "extend" => stack'[u] = stack[u]
  PROVE  Operations'
  <1>1. \A u \in Threads : OpHolds(u)'
    BY OpHoldsKept DEF call
  <1>2. Exclusive'
    BY DEF IInv, Operations, Exclusive, call
  <1>3. QED
    BY <1>1, <1>2 DEF Operations

\* What an operation goes through and works on is referred to, hence live.
LEMMA KeptIsLive ==
  ASSUME IInv, NEW u \in Threads, op[u] # "none", NEW c \in via[u] \cup {at[u]}
  PROVE  c \in Containers /\ phase[c] = "live"
  <1>1. c \in Containers /\ Keeps(u, c)
    BY DEF IInv, TypeOK, Operations, OpHolds
  <1>2. PICK q \in Refs : target[q] = c
    BY <1>1 DEF Keeps
  <1>3. QED
    BY <1>1, <1>2, ReferredIsLive, SetsAssumption DEF IInv

LEMMA ViaIsLive ==
  ASSUME IInv, NEW u \in Threads, NEW c \in via[u]
  PROVE  op[u] # "none" /\ c \in Containers /\ phase[c] = "live"
  <1>1. op[u] # "none"
    BY DEF IInv, Operations, OpHolds
  <1>2. QED
    BY <1>1, KeptIsLive

LEMMA AtIsLive ==
  ASSUME IInv, NEW u \in Threads, op[u] # "none"
  PROVE  at[u] \in Containers /\ phase[at[u]] = "live"
  BY KeptIsLive

\* A token that an operation has yet to store or to copy is held by its thread
\* or by a container it goes through.
LEMMA TodoHeld ==
  ASSUME IInv, NEW u \in Threads, NEW s \in todo[u]
  PROVE  s \in Refs /\ holder[s] # Null /\ holder[s] \in via[u] \cup {u}
  <1>1. /\ s \in Refs /\ op[u] \in {"store", "extend"}
        /\ holder[s] \in via[u] \cup {u}
    BY DEF IInv, TypeOK, Operations, OpHolds, Ops
  <1>2. \A c \in via[u] : c \in Containers
    BY DEF IInv, TypeOK
  <1>3. QED
    BY <1>1, <1>2, SetsAssumption

-----------------------------------------------------------------------------
(* Getting at a container.                                                 *)

\* Whoever holds a value or reaches a container can rely on it being live.
LEMMA HeldIsLive ==
  ASSUME IInv, NEW v \in Values, NEW q \in Refs, target[q] = v
  PROVE  phase[v] = "live"
  BY ReferredIsLive, SetsAssumption DEF IInv

\* Every container on the way is referred to by the thread or by a slot of
\* one on the way.
LEMMA WayKeeps ==
  ASSUME IInv, NEW t \in Threads, NEW w \in Ways, NEW c \in Containers,
         Reaches(t, w, c)
  PROVE  /\ Passed(w) \subseteq Containers
         /\ c \notin Passed(w)
         /\ \A x \in Passed(w) : ~MutatedByOther(t, x)
         /\ \A x \in Passed(w) \cup {c} :
              \E q \in Refs : target[q] = x /\ holder[q] \in Passed(w) \cup {t}
  <1> DEFINE path == Append(w, c)
  <1>1. PICK n \in 0 .. MaxWay : w \in [1 .. n -> Containers]
    BY DEF Ways
  <1>2. n \in Nat /\ DOMAIN w = 1 .. n /\ w \in Seq(Containers) /\ Len(w) = n
    BY <1>1, WayAssumption
  <1>3. /\ \A i \in 1 .. n : path[i] = w[i]
        /\ path[n + 1] = c
    BY <1>2
  <1>4. /\ Holds(t, path[1])
        /\ \A i \in 1 .. n :
             /\ \E s \in Slots(path[i]) : target[s] = path[i + 1]
             /\ w[i] # c /\ ~MutatedByOther(t, w[i])
    BY <1>2 DEF Reaches
  <1> HIDE DEF path
  <1>5. \A i \in 1 .. n : w[i] \in Containers
    BY <1>1
  <1>6. ASSUME NEW j \in 1 .. n + 1
        PROVE  \E q \in Refs : target[q] = path[j] /\ holder[q] \in Passed(w) \cup {t}
    <2>1. CASE j = 1
      BY <1>4, <2>1 DEF Holds
    <2>2. CASE j # 1
      <3>1. j - 1 \in 1 .. n /\ (j - 1) + 1 = j
        BY <1>2, <2>2
      <3>2. PICK s \in Slots(path[j - 1]) : target[s] = path[j]
        BY <1>4, <3>1
      <3>3. path[j - 1] \in Passed(w)
        BY <1>2, <1>3, <3>1 DEF Passed
      <3>4. QED
        BY <3>2, <3>3 DEF Slots, HeldBy
    <2>3. QED
      BY <2>1, <2>2
  <1>7. ASSUME NEW x \in Passed(w) \cup {c}
        PROVE  \E j \in 1 .. n + 1 : path[j] = x
    <2>1. CASE x = c
      BY <1>2, <1>3, <2>1
    <2>2. CASE x \in Passed(w)
      BY <1>2, <1>3, <2>2 DEF Passed
    <2>3. QED
      BY <2>1, <2>2
  <1>8. /\ Passed(w) \subseteq Containers
        /\ c \notin Passed(w)
        /\ \A x \in Passed(w) : ~MutatedByOther(t, x)
    BY <1>2, <1>4, <1>5 DEF Passed
  <1>9. \A x \in Passed(w) \cup {c} :
          \E q \in Refs : target[q] = x /\ holder[q] \in Passed(w) \cup {t}
    BY <1>6, <1>7
  <1>10. QED
    BY <1>8, <1>9

LEMMA ReachedIsLive ==
  ASSUME IInv, NEW t \in Threads, NEW w \in Ways, NEW c \in Containers,
         Reaches(t, w, c)
  PROVE  phase[c] = "live"
  <1>1. PICK q \in Refs : target[q] = c
    BY WayKeeps
  <1>2. QED
    BY <1>1, HeldIsLive, SetsAssumption

-----------------------------------------------------------------------------
(* Steps that gain a reference.                                            *)

LEMMA GainStep ==
  ASSUME IInv, NEW t \in Threads, NEW v \in Values, Gain(t, v),
         UNCHANGED <<stack, call>>
  PROVE  /\ Tokens' /\ CountExact' /\ Operations'
         /\ rc' \in [Values -> Nat]
         /\ holder' \in [Refs -> Threads \cup Containers \cup {Null}]
         /\ target' \in [Refs -> Values \cup {Null}]
         /\ \A r \in Refs : holder'[r] \in Containers => holder'[r] = holder[r]
  <1>1. /\ NextRef \in Refs
        /\ target[NextRef] = Null
        /\ rc' \in [Values -> Nat]
        /\ holder' \in [Refs -> Threads \cup Containers \cup {Null}]
        /\ target' \in [Refs -> Values \cup {Null}]
        /\ CountExact'
    BY GainCounts DEF IInv
  <1>2. holder[NextRef] = Null
    BY <1>1 DEF IInv, Tokens
  <1>3. /\ holder'[NextRef] = t /\ target'[NextRef] = v
        /\ \A r \in Refs \ {NextRef} : holder'[r] = holder[r] /\ target'[r] = target[r]
    BY <1>1 DEF Gain, IInv, TypeOK
  <1>4. Tokens'
    BY <1>3, SetsAssumption DEF IInv, Tokens
  <1>5. ASSUME NEW u \in Threads, op[u] # "none"
        PROVE  /\ \A r \in Refs : holder[r] \in via[u] \cup {u} =>
                    holder'[r] = holder[r] /\ target'[r] = target[r]
               /\ op[u] = "extend" => stack'[u] = stack[u]
    <2>1. Null \notin via[u] \cup {u}
      BY SetsAssumption DEF IInv, TypeOK
    <2>2. QED
      BY <1>2, <1>3, <2>1
  <1>6. Operations'
    BY <1>5, OperationsKept
  <1>7. QED
    BY <1>1, <1>3, <1>4, <1>6, SetsAssumption

LEMMA NewStep ==
  ASSUME IInv, NEW t \in Threads, NEW v \in Mortal, New(t, v)
  PROVE  IInv'
  <1> v \in Values
    BY DEF Mortal
  <1>1. Gain(t, v) /\ UNCHANGED <<stack, call>>
    BY DEF New
  <1>2. /\ Tokens' /\ CountExact' /\ Operations'
        /\ rc' \in [Values -> Nat]
        /\ holder' \in [Refs -> Threads \cup Containers \cup {Null}]
        /\ target' \in [Refs -> Values \cup {Null}]
        /\ \A r \in Refs : holder'[r] \in Containers => holder'[r] = holder[r]
    BY <1>1, GainStep
  <1>3. phase[v] = "unborn" /\ phase' = [phase EXCEPT ![v] = "live"]
    BY DEF New
  <1>4. TypeOK'
    BY <1>1, <1>2, <1>3 DEF IInv, TypeOK, Phases, call
  <1>5. PhaseCount'
    BY <1>1, <1>3 DEF IInv, TypeOK, PhaseCount, Gain, Mortal
  <1>6. SlotsAlive'
    BY <1>2, <1>3, SetsAssumption DEF IInv, TypeOK, SlotsAlive
  <1>7. Stacked'
    BY <1>1, <1>3 DEF IInv, TypeOK, Stacked, DeletedOnce
  <1>8. QED
    BY <1>2, <1>4, <1>5, <1>6, <1>7 DEF IInv

\* Whatever a thread reaches is live.
LEMMA ReachIsLive ==
  ASSUME IInv, NEW t \in Threads, NEW v \in Values, MayReach(t, v)
  PROVE  phase[v] = "live"
  <1>1. CASE v \in Immortal
    BY <1>1 DEF IInv, PhaseCount
  <1>2. CASE \E q \in Refs : target[q] = v
    <2>1. v # Null
      BY SetsAssumption
    <2>2. QED
      BY <1>2, <2>1, ReferredIsLive DEF IInv
  <1>3. QED
    BY <1>1, <1>2 DEF MayReach, Holds, Slots, HeldBy

LEMMA IncrefStep ==
  ASSUME IInv, NEW t \in Threads, NEW v \in Values, Incref(t, v)
  PROVE  IInv'
  <1>1. Gain(t, v) /\ phase' = phase /\ UNCHANGED <<stack, call>>
    BY DEF Incref
  <1>2. /\ Tokens' /\ CountExact' /\ Operations'
        /\ rc' \in [Values -> Nat]
        /\ holder' \in [Refs -> Threads \cup Containers \cup {Null}]
        /\ target' \in [Refs -> Values \cup {Null}]
        /\ \A r \in Refs : holder'[r] \in Containers => holder'[r] = holder[r]
    BY <1>1, GainStep
  <1>3. phase[v] = "live"
    BY ReachIsLive DEF Incref
  <1>4. TypeOK'
    BY <1>1, <1>2 DEF IInv, TypeOK, call
  <1>5. PhaseCount'
    BY <1>1, <1>3 DEF IInv, TypeOK, PhaseCount, Gain, Mortal
  <1>6. SlotsAlive'
    BY <1>1, <1>2 DEF IInv, SlotsAlive
  <1>7. Stacked'
    BY <1>1 DEF IInv, Stacked, DeletedOnce
  <1>8. QED
    BY <1>2, <1>4, <1>5, <1>6, <1>7 DEF IInv

-----------------------------------------------------------------------------
(* Steps that lose a reference.                                            *)

\* Everything but the operations in progress.
Counting ==
  /\ rc \in [Values -> Nat]
  /\ phase \in [Values -> Phases]
  /\ holder \in [Refs -> Threads \cup Containers \cup {Null}]
  /\ target \in [Refs -> Values \cup {Null}]
  /\ stack \in [Threads -> Seq(Mortal)]
  /\ Tokens
  /\ CountExact
  /\ PhaseCount
  /\ SlotsAlive
  /\ Stacked

LEMMA LoseStep ==
  ASSUME IInv, NEW t \in Threads, NEW r \in Refs, target[r] # Null, Release(t, r),
         holder' \in [Refs -> Threads \cup Containers \cup {Null}],
         holder'[r] = Null,
         \A q \in Refs \ {r} : holder'[q] = Null <=> holder[q] = Null,
         \A q \in Refs : holder'[q] \in Containers =>
           holder'[q] = holder[q] \/ phase[holder'[q]] = "live"
  PROVE  Counting'
  <1>1. /\ rc' \in [Values -> Nat]
        /\ phase' \in [Values -> Phases]
        /\ target' \in [Refs -> Values \cup {Null}]
        /\ stack' \in [Threads -> Seq(Mortal)]
        /\ CountExact' /\ PhaseCount' /\ Stacked'
        /\ \A c \in Values : phase[c] \in {"live", "deleting"} =>
             phase'[c] \in {"live", "deleting"}
        /\ \A q \in Refs \ {r} : target'[q] = target[q]
        /\ target'[r] = Null
    BY ReleaseCounts DEF IInv
  <1>2. Tokens'
    BY <1>1 DEF IInv, Tokens
  <1>3. SlotsAlive'
    BY <1>1, SetsAssumption DEF IInv, SlotsAlive
  <1>4. QED
    BY <1>1, <1>2, <1>3 DEF Counting

LEMMA CountingSuffices ==
  IInv <=> /\ Counting
           /\ op \in [Threads -> Ops]
           /\ at \in [Threads -> Containers \cup {Null}]
           /\ via \in [Threads -> SUBSET Containers]
           /\ todo \in [Threads -> SUBSET Refs]
           /\ Operations
  BY DEF Counting, IInv, TypeOK

\* Losing a reference on which no operation in progress depends leaves the
\* operations and the counts as they should be.
LEMMA LoseUnused ==
  ASSUME IInv, NEW t \in Threads, NEW r \in Refs, holder[r] # Null, Lose(t, r),
         holder[r] \in Threads => op[holder[r]] = "none",
         \A u \in Threads : holder[r] \notin via[u]
  PROVE  /\ Counting'
         /\ \A u \in Threads \ {t} : stack'[u] = stack[u]
         /\ \A q \in Refs \ {r} : holder'[q] = holder[q] /\ target'[q] = target[q]
         /\ \A u \in Threads : op[u] # "none" =>
              \A q \in Refs : holder[q] \in via[u] \cup {u} =>
                holder'[q] = holder[q] /\ target'[q] = target[q]
  <1>1. target[r] # Null
    BY DEF IInv, Tokens
  <1>2. /\ holder' = [holder EXCEPT ![r] = Null]
        /\ target' = [target EXCEPT ![r] = Null]
        /\ Release(t, r)
    BY DEF Lose, Release
  <1>3. Counting'
    <2>1. /\ holder' \in [Refs -> Threads \cup Containers \cup {Null}]
          /\ holder'[r] = Null
          /\ \A q \in Refs \ {r} : holder'[q] = holder[q]
      BY <1>2 DEF IInv, TypeOK
    <2>2. \A q \in Refs : holder'[q] \in Containers => holder'[q] = holder[q]
      BY <2>1, SetsAssumption
    <2>3. QED
      BY <1>1, <1>2, <2>1, <2>2, LoseStep
  <1>4. \A u \in Threads \ {t} : stack'[u] = stack[u]
    BY <1>1, <1>2, ReleaseCounts DEF IInv
  <1>5. \A q \in Refs \ {r} : holder'[q] = holder[q] /\ target'[q] = target[q]
    BY <1>2 DEF IInv, TypeOK
  <1>6. QED
    BY <1>3, <1>4, <1>5

\* ... and no operation begins or ends with it.
LEMMA LoseAside ==
  ASSUME IInv, NEW t \in Threads, NEW r \in Refs, holder[r] # Null, Lose(t, r),
         UNCHANGED call,
         holder[r] \in Threads => op[holder[r]] = "none",
         \A u \in Threads : holder[r] \notin via[u],
         op[t] # "extend"
  PROVE  IInv'
  <1>1. /\ Counting'
        /\ \A u \in Threads \ {t} : stack'[u] = stack[u]
        /\ \A u \in Threads : op[u] # "none" =>
             \A q \in Refs : holder[q] \in via[u] \cup {u} =>
               holder'[q] = holder[q] /\ target'[q] = target[q]
    BY LoseUnused
  <1>2. Operations'
    BY <1>1, OperationsKept
  <1>3. QED
    BY <1>1, <1>2, CountingSuffices DEF Counting, IInv, TypeOK, call

LEMMA DecrefStep ==
  ASSUME IInv, NEW t \in Threads, NEW r \in Refs, Decref(t, r)
  PROVE  IInv'
  <1>1. /\ op[t] = "none" /\ holder[r] = t /\ Lose(t, r)
        /\ UNCHANGED call
    BY DEF Decref, Outside
  <1>2. \A u \in Threads : via[u] \subseteq Containers
    BY DEF IInv, TypeOK
  <1>3. t \notin Containers /\ t # Null
    BY SetsAssumption
  <1>4. QED
    BY <1>1, <1>2, <1>3, LoseAside

\* Nobody goes through a container that a thread may mutate.
LEMMA MutableUnused ==
  ASSUME IInv, NEW t \in Threads, op[t] = "none", NEW w \in Ways,
         NEW c \in Containers, MayMutate(t, w, c)
  PROVE  /\ \A u \in Threads : c \notin via[u] /\ at[u] # c
         /\ phase[c] = "live"
         /\ c \notin Threads /\ c # Null
  <1>1. at[t] = Null /\ via[t] = {}
    BY DEF IInv, Operations, OpHolds
  <1>2. \A u \in Threads \ {t} : c \notin via[u] /\ at[u] # c
    BY DEF MayMutate, UsedByOther
  <1>3. phase[c] = "live"
    BY ReachedIsLive DEF MayMutate
  <1>4. QED
    BY <1>1, <1>2, <1>3, SetsAssumption

\* Replace and Remove: the operation begins with a release from its own
\* container, which is not on the way to it.
LEMMA ReleasingBegins ==
  ASSUME IInv, NEW t \in Threads, op[t] = "none", NEW w \in Ways,
         NEW c \in Containers, MayMutate(t, w, c),
         NEW old \in Refs, holder[old] = c, Lose(t, old),
         NEW o \in {"store", "remove"}, NEW refs \in SUBSET Refs,
         Begin(t, o, c, Passed(w), refs),
         o = "store" => \E r \in Refs : refs = {r} /\ holder[r] = t,
         o = "remove" => refs = {}
  PROVE  IInv'
  <1>1. /\ \A u \in Threads : c \notin via[u] /\ at[u] # c
        /\ c \notin Threads /\ c # Null
    BY MutableUnused
  <1>2. /\ Counting'
        /\ \A u \in Threads \ {t} : stack'[u] = stack[u]
        /\ \A q \in Refs \ {old} : holder'[q] = holder[q] /\ target'[q] = target[q]
        /\ \A u \in Threads : op[u] # "none" =>
             \A q \in Refs : holder[q] \in via[u] \cup {u} =>
               holder'[q] = holder[q] /\ target'[q] = target[q]
    BY <1>1, LoseUnused
  <1>3. /\ Passed(w) \subseteq Containers
        /\ c \notin Passed(w)
        /\ \A x \in Passed(w) : ~MutatedByOther(t, x)
        /\ \A x \in Passed(w) \cup {c} :
             \E q \in Refs : target[q] = x /\ holder[q] \in Passed(w) \cup {t}
    BY WayKeeps DEF MayMutate
  <1>4. /\ op' \in [Threads -> Ops] /\ at' \in [Threads -> Containers \cup {Null}]
        /\ via' \in [Threads -> SUBSET Containers]
        /\ todo' \in [Threads -> SUBSET Refs]
    BY <1>3 DEF Begin, IInv, TypeOK, Ops
  <1>5. /\ op'[t] = o /\ at'[t] = c /\ via'[t] = Passed(w) /\ todo'[t] = refs
        /\ \A u \in Threads \ {t} : /\ op'[u] = op[u] /\ at'[u] = at[u]
                                    /\ via'[u] = via[u] /\ todo'[u] = todo[u]
    BY DEF Begin, IInv, TypeOK
  <1>6. ASSUME NEW u \in Threads PROVE OpHolds(u)'
    <2>1. CASE u = t
      <3>1. ASSUME NEW x \in Passed(w) \cup {c} PROVE Keeps(t, x)'
        <4>1. PICK q \in Refs : target[q] = x /\ holder[q] \in Passed(w) \cup {t}
          BY <1>3
        <4>2. q # old
          BY <1>1, <1>3, <4>1
        <4>3. QED
          BY <1>2, <1>5, <4>1, <4>2 DEF Keeps
      <3>2. o = "store" => \E r \in Refs : refs = {r} /\ holder'[r] = t
        BY <1>1, <1>2
      <3>3. QED
        BY <1>3, <1>5, <2>1, <3>1, <3>2 DEF OpHolds
    <2>2. CASE u # t
      BY <1>2, <1>5, <2>2, OpHoldsKept
    <2>3. QED
      BY <2>1, <2>2
  <1>7. Exclusive'
    <2>1. \A u \in Threads \ {t} : at[u] \notin Passed(w)
      BY <1>3 DEF MutatedByOther
    <2>2. QED
      BY <1>1, <1>5, <2>1 DEF IInv, Operations, Exclusive
  <1>8. QED
    BY <1>2, <1>4, <1>6, <1>7, CountingSuffices
    DEF Operations, Counting, IInv, TypeOK

LEMMA RemoveStep ==
  ASSUME IInv, NEW t \in Threads, NEW w \in Ways, NEW c \in Containers,
         NEW old \in Refs, Remove(t, w, c, old)
  PROVE  IInv'
  BY ReleasingBegins DEF Remove, Outside

LEMMA ReplaceStep ==
  ASSUME IInv, NEW t \in Threads, NEW w \in Ways, NEW c \in Containers,
         NEW r \in Refs, NEW old \in Refs, Replace(t, w, c, r, old)
  PROVE  IInv'
  <1>1. {r} \in SUBSET Refs
    OBVIOUS
  <1>2. QED
    BY <1>1, ReleasingBegins DEF Replace, Outside

LEMMA ClearSlotStep ==
  ASSUME IInv, NEW t \in Threads, ClearSlot(t)
  PROVE  IInv'
  <1>1. PICK old \in Slots(at[t]) : Lose(t, old)
    BY DEF ClearSlot
  <1>2. op[t] = "clear" /\ UNCHANGED call
    BY DEF ClearSlot
  <1>3. old \in Refs /\ at[t] \in Containers /\ holder[old] = at[t]
    BY <1>1, <1>2, AtIsLive DEF Slots, HeldBy
  <1>4. \A u \in Threads : holder[old] \notin via[u]
    BY <1>2, <1>3, SetsAssumption DEF IInv, Operations, Exclusive, OpHolds
  <1>5. QED
    BY <1>1, <1>2, <1>3, <1>4, LoseAside, SetsAssumption

\* Nobody goes through a value that is being deleted: it is not live.
LEMMA DeleteChildStep ==
  ASSUME IInv, NEW t \in Threads, DeleteChild(t)
  PROVE  IInv'
  <1>1. PICK s \in Slots(Top(stack[t])) : Lose(t, s)
    BY DEF DeleteChild
  <1>2. stack[t] # << >> /\ UNCHANGED call
    BY DEF DeleteChild
  <1>3. Len(stack[t]) \in DOMAIN stack[t] /\ stack[t] \in Seq(Mortal)
    BY <1>2 DEF IInv, TypeOK
  <1>4. Top(stack[t]) \in Mortal /\ phase[Top(stack[t])] = "deleting"
    BY <1>3 DEF Top, IInv, Stacked
  <1>5. /\ s \in Refs /\ holder[s] = Top(stack[t])
        /\ holder[s] \notin Threads /\ holder[s] # Null /\ holder[s] \in Containers
    BY <1>4, SetsAssumption DEF Slots, HeldBy, Mortal, IInv, TypeOK
  <1>6. \A u \in Threads : holder[s] \notin via[u]
    BY <1>4, <1>5, ViaIsLive
  <1>7. op[t] # "extend"
    BY <1>2 DEF IInv, Operations, OpHolds
  <1>8. QED
    BY <1>1, <1>2, <1>5, <1>6, <1>7, LoseAside

LEMMA IterSetStep ==
  ASSUME IInv, NEW t \in Threads, NEW w \in Ways, NEW c \in Containers,
         NEW r \in Refs, NEW old \in Refs, IterSet(t, w, c, r, old)
  PROVE  IInv'
  <1>1. /\ op[t] = "none" /\ holder[r] = t /\ MayMutate(t, w, c) /\ holder[old] = c
        /\ Release(t, old) /\ UNCHANGED call
        /\ holder' = [holder EXCEPT ![r] = c, ![old] = Null]
    BY DEF IterSet, Outside
  <1>2. /\ phase[c] = "live" /\ \A u \in Threads : c \notin via[u]
        /\ c \notin Threads /\ c # Null /\ old # r /\ t # Null
    BY <1>1, MutableUnused, SetsAssumption
  <1>3. target[old] # Null
    BY <1>1, <1>2 DEF IInv, Tokens
  <1>4. /\ holder' \in [Refs -> Threads \cup Containers \cup {Null}]
        /\ holder'[old] = Null /\ holder'[r] = c
        /\ \A q \in Refs \ {r, old} : holder'[q] = holder[q]
    BY <1>1, <1>2 DEF IInv, TypeOK
  <1>5. Counting'
    <2>1. \A q \in Refs \ {old} : holder'[q] = Null <=> holder[q] = Null
      BY <1>1, <1>2, <1>4
    <2>2. \A q \in Refs : holder'[q] \in Containers =>
            holder'[q] = holder[q] \/ phase[holder'[q]] = "live"
      BY <1>2, <1>4, SetsAssumption
    <2>3. QED
      BY <1>1, <1>3, <1>4, <2>1, <2>2, LoseStep
  <1>6. /\ \A u \in Threads \ {t} : stack'[u] = stack[u]
        /\ \A q \in Refs \ {old} : target'[q] = target[q]
    BY <1>1, <1>3, ReleaseCounts DEF IInv
  <1>7. \A u \in Threads : via[u] \subseteq Containers /\ t \notin via[u]
    BY SetsAssumption DEF IInv, TypeOK
  <1>8. ASSUME NEW u \in Threads, op[u] # "none"
        PROVE  /\ \A q \in Refs : holder[q] \in via[u] \cup {u} =>
                    holder'[q] = holder[q] /\ target'[q] = target[q]
               /\ op[u] = "extend" => stack'[u] = stack[u]
    BY <1>1, <1>2, <1>4, <1>6, <1>7, <1>8
  <1>9. Operations'
    BY <1>1, <1>8, OperationsKept
  <1>10. QED
    BY <1>1, <1>5, <1>9, CountingSuffices DEF IInv, TypeOK, Counting, call

-----------------------------------------------------------------------------
(* Steps that move references or start and end operations.                 *)

LEMMA GiveStep ==
  ASSUME IInv, NEW t \in Threads, NEW w \in Ways, NEW c \in Containers,
         NEW r \in Refs, Give(t, w, c, r)
  PROVE  IInv'
  <1>1. /\ op[t] = "none" /\ holder[r] = t /\ MayMutate(t, w, c)
        /\ holder' = [holder EXCEPT ![r] = c]
        /\ UNCHANGED <<rc, phase, target, stack, call>>
    BY DEF Give, Outside
  <1>2. phase[c] = "live" /\ c # Null /\ t # Null
    BY <1>1, MutableUnused, SetsAssumption
  <1>3. /\ holder' \in [Refs -> Threads \cup Containers \cup {Null}]
        /\ holder'[r] = c
        /\ \A q \in Refs \ {r} : holder'[q] = holder[q]
    BY <1>1 DEF IInv, TypeOK
  <1>4. TypeOK' /\ CountExact' /\ PhaseCount' /\ Stacked'
    BY <1>1, <1>3
    DEF IInv, TypeOK, CountExact, RefsTo, PhaseCount, Stacked, DeletedOnce, call
  <1>5. Tokens'
    BY <1>1, <1>2, <1>3 DEF IInv, Tokens
  <1>6. SlotsAlive'
    BY <1>1, <1>2, <1>3 DEF IInv, SlotsAlive
  <1>7. \A u \in Threads : t \notin via[u]
    BY SetsAssumption DEF IInv, TypeOK
  <1>8. Operations'
    <2>1. ASSUME NEW u \in Threads, op[u] # "none"
          PROVE  /\ \A q \in Refs : holder[q] \in via[u] \cup {u} =>
                      holder'[q] = holder[q] /\ target'[q] = target[q]
                 /\ op[u] = "extend" => stack'[u] = stack[u]
      BY <1>1, <1>3, <1>7, <2>1
    <2>2. QED
      BY <1>1, <2>1, OperationsKept
  <1>9. QED
    BY <1>4, <1>5, <1>6, <1>8 DEF IInv

LEMMA FreeStep ==
  ASSUME IInv, NEW t \in Threads, Free(t)
  PROVE  IInv'
  <1> DEFINE v == Top(stack[t])
             n == Len(stack[t])
  <1>1. /\ stack[t] # << >> /\ Slots(v) = {}
        /\ phase' = [phase EXCEPT ![v] = "freed"]
        /\ stack' = [stack EXCEPT ![t] = Pop(@)]
        /\ UNCHANGED <<rc, holder, target, call>>
    BY DEF Free
  <1>2. /\ stack[t] \in Seq(Mortal) /\ n \in Nat \ {0}
        /\ DOMAIN stack[t] = 1 .. n /\ v = stack[t][n]
    BY <1>1 DEF IInv, TypeOK, Top
  <1>3. v \in Mortal /\ v \in Values /\ phase[v] = "deleting"
    BY <1>2 DEF IInv, Stacked, Mortal
  <1>4. /\ Pop(stack[t]) \in Seq(Mortal)
        /\ DOMAIN Pop(stack[t]) = 1 .. n - 1
        /\ \A i \in 1 .. n - 1 : Pop(stack[t])[i] = stack[t][i]
    BY <1>2, SubSeqProperties DEF Pop
  <1>5. TypeOK'
    BY <1>1, <1>3, <1>4 DEF IInv, TypeOK, Phases, call
  <1>6. Tokens' /\ CountExact'
    BY <1>1 DEF IInv, Tokens, CountExact, RefsTo
  <1>7. PhaseCount'
    BY <1>1, <1>3 DEF IInv, TypeOK, PhaseCount, Mortal
  <1>8. SlotsAlive'
    BY <1>1 DEF IInv, TypeOK, SlotsAlive, Slots, HeldBy
  <1>9. \A y \in Threads : \A k : k \in DOMAIN stack'[y] =>
          /\ k \in DOMAIN stack[y] /\ stack'[y][k] = stack[y][k]
          /\ stack[y][k] # v
    <2>1. ASSUME NEW y \in Threads, NEW k \in DOMAIN stack'[y]
          PROVE  /\ k \in DOMAIN stack[y] /\ stack'[y][k] = stack[y][k]
                 /\ y = t => k # n
      <3>1. CASE y # t
        BY <1>1, <2>1, <3>1 DEF IInv, TypeOK
      <3>2. CASE y = t
        <4>1. stack'[t] = Pop(stack[t])
          BY <1>1 DEF IInv, TypeOK
        <4>2. k \in 1 .. n - 1
          BY <1>4, <2>1, <3>2, <4>1
        <4>3. QED
          BY <1>2, <1>4, <3>2, <4>1, <4>2
      <3>3. QED
        BY <3>1, <3>2
    <2>2. QED
      BY <1>2, <2>1 DEF IInv, Stacked, DeletedOnce
  <1>10. Stacked'
    <2>1. \A y \in Threads : \A k \in DOMAIN stack[y] : stack[y][k] \in Values
      BY DEF IInv, TypeOK, Mortal
    <2>2. ASSUME NEW y \in Threads, NEW k \in DOMAIN stack'[y]
          PROVE  phase'[stack'[y][k]] = "deleting"
      <3>1. /\ k \in DOMAIN stack[y] /\ stack'[y][k] = stack[y][k]
            /\ stack[y][k] # v
        BY <1>9
      <3>2. stack[y][k] \in Values /\ phase[stack[y][k]] = "deleting"
        BY <2>1, <3>1 DEF IInv, Stacked
      <3>3. QED
        BY <1>1, <3>1, <3>2 DEF IInv, TypeOK
    <2>3. DeletedOnce'
      BY <1>9 DEF IInv, Stacked, DeletedOnce
    <2>4. QED
      BY <2>2, <2>3 DEF Stacked
  <1>11. op[t] # "extend"
    BY <1>1 DEF IInv, Operations, OpHolds
  <1>12. Operations'
    BY <1>1, <1>11, OperationsKept DEF IInv, TypeOK
  <1>13. QED
    BY <1>5, <1>6, <1>7, <1>8, <1>10, <1>12 DEF IInv

\* Steps that change neither counts nor tokens.
LEMMA SameCounting ==
  ASSUME IInv, UNCHANGED <<rc, phase, holder, target, stack>>
  PROVE  Counting'
  BY DEF IInv, TypeOK, Counting, Tokens, CountExact, RefsTo, PhaseCount,
         SlotsAlive, Stacked, DeletedOnce

\* What every step that begins or ends an operation without touching a token
\* has in common.
LEMMA BeginStep ==
  ASSUME IInv, NEW t \in Threads, NEW o \in Ops, NEW c \in Containers \cup {Null},
         NEW through \in SUBSET Containers, NEW refs \in SUBSET Refs,
         Begin(t, o, c, through, refs), UNCHANGED <<rc, phase, holder, target, stack>>
  PROVE  /\ Counting'
         /\ op' \in [Threads -> Ops]
         /\ at' \in [Threads -> Containers \cup {Null}]
         /\ via' \in [Threads -> SUBSET Containers]
         /\ todo' \in [Threads -> SUBSET Refs]
         /\ op'[t] = o /\ at'[t] = c /\ via'[t] = through /\ todo'[t] = refs
         /\ \A u \in Threads \ {t} : /\ op'[u] = op[u] /\ at'[u] = at[u]
                                     /\ via'[u] = via[u] /\ todo'[u] = todo[u]
                                     /\ OpHolds(u)'
  <1>1. Counting'
    BY SameCounting
  <1>2. /\ op' \in [Threads -> Ops]
        /\ at' \in [Threads -> Containers \cup {Null}]
        /\ via' \in [Threads -> SUBSET Containers]
        /\ todo' \in [Threads -> SUBSET Refs]
        /\ op'[t] = o /\ at'[t] = c /\ via'[t] = through /\ todo'[t] = refs
    BY DEF Begin, IInv, TypeOK
  <1>3. ASSUME NEW u \in Threads \ {t}
        PROVE  /\ op'[u] = op[u] /\ at'[u] = at[u]
               /\ via'[u] = via[u] /\ todo'[u] = todo[u]
               /\ OpHolds(u)'
    <2>1. /\ op'[u] = op[u] /\ at'[u] = at[u]
          /\ via'[u] = via[u] /\ todo'[u] = todo[u]
      BY DEF Begin, IInv, TypeOK
    <2>2. QED
      BY <2>1, OpHoldsKept
  <1>4. QED
    BY <1>1, <1>2, <1>3

LEMMA ClearStep ==
  ASSUME IInv, NEW t \in Threads, NEW w \in Ways, NEW c \in Containers, Clear(t, w, c)
  PROVE  IInv'
  <1>1. /\ op[t] = "none" /\ MayMutate(t, w, c)
        /\ Begin(t, "clear", c, Passed(w), {})
        /\ UNCHANGED <<rc, phase, holder, target, stack>>
    BY DEF Clear, Outside
  <1>2. /\ Passed(w) \subseteq Containers
        /\ c \notin Passed(w)
        /\ \A x \in Passed(w) : ~MutatedByOther(t, x)
        /\ \A x \in Passed(w) \cup {c} :
             \E q \in Refs : target[q] = x /\ holder[q] \in Passed(w) \cup {t}
    BY <1>1, WayKeeps DEF MayMutate
  <1>3. /\ Counting'
        /\ op' \in [Threads -> Ops]
        /\ at' \in [Threads -> Containers \cup {Null}]
        /\ via' \in [Threads -> SUBSET Containers]
        /\ todo' \in [Threads -> SUBSET Refs]
        /\ op'[t] = "clear" /\ at'[t] = c /\ via'[t] = Passed(w) /\ todo'[t] = {}
        /\ \A u \in Threads \ {t} : /\ at'[u] = at[u] /\ via'[u] = via[u]
                                    /\ OpHolds(u)'
    <2>1. "clear" \in Ops /\ Passed(w) \in SUBSET Containers /\ {} \in SUBSET Refs
      BY <1>2 DEF Ops
    <2>2. QED
      BY <1>1, <2>1, BeginStep
  <1>4. OpHolds(t)'
    BY <1>1, <1>2, <1>3 DEF OpHolds, Keeps
  <1>5. Exclusive'
    <2>1. \A u \in Threads : c \notin via[u] /\ at[u] # c
      BY <1>1, MutableUnused
    <2>2. \A u \in Threads \ {t} : at[u] \notin Passed(w)
      BY <1>2 DEF MutatedByOther
    <2>3. QED
      BY <1>3, <2>1, <2>2 DEF IInv, Operations, Exclusive
  <1>6. QED
    BY <1>3, <1>4, <1>5, CountingSuffices
    DEF Operations, Counting, IInv, TypeOK

LEMMA ExtendStep ==
  ASSUME IInv, NEW t \in Threads, NEW w \in Ways, NEW c \in Containers,
         NEW z \in Ways, NEW d \in Containers, Extend(t, w, c, z, d)
  PROVE  IInv'
  <1> DEFINE through == Passed(w) \cup Passed(z) \cup {d}
  <1>1. /\ op[t] = "none" /\ stack[t] = << >>
        /\ MayMutate(t, w, c) /\ MayRead(t, z, d)
        /\ Begin(t, "extend", c, through, Slots(d))
        /\ UNCHANGED <<rc, phase, holder, target, stack>>
    BY DEF Extend, Outside, NotDeleting
  <1>2. /\ Passed(w) \subseteq Containers
        /\ \A x \in Passed(w) : ~MutatedByOther(t, x)
        /\ \A x \in Passed(w) \cup {c} :
             \E q \in Refs : target[q] = x /\ holder[q] \in Passed(w) \cup {t}
    BY <1>1, WayKeeps DEF MayMutate
  <1>3. /\ Passed(z) \subseteq Containers
        /\ \A x \in Passed(z) \cup {d} : ~MutatedByOther(t, x)
        /\ \A x \in Passed(z) \cup {d} :
             \E q \in Refs : target[q] = x /\ holder[q] \in Passed(z) \cup {t}
    BY <1>1, WayKeeps DEF MayRead
  <1>4. through \in SUBSET Containers /\ Slots(d) \in SUBSET Refs
    BY <1>2, <1>3 DEF Slots, HeldBy
  <1>5. /\ Counting'
        /\ op' \in [Threads -> Ops]
        /\ at' \in [Threads -> Containers \cup {Null}]
        /\ via' \in [Threads -> SUBSET Containers]
        /\ todo' \in [Threads -> SUBSET Refs]
        /\ op'[t] = "extend" /\ at'[t] = c /\ via'[t] = through /\ todo'[t] = Slots(d)
        /\ \A u \in Threads \ {t} : /\ at'[u] = at[u] /\ via'[u] = via[u]
                                    /\ OpHolds(u)'
    <2> HIDE DEF through
    <2>1. QED
      BY <1>1, <1>4, BeginStep DEF Ops
  <1>6. OpHolds(t)'
    <2>1. ASSUME NEW x \in through \cup {c} PROVE Keeps(t, x)'
      <3>1. PICK q \in Refs : target[q] = x /\ holder[q] \in through \cup {t}
        BY <1>2, <1>3, <2>1
      <3>2. QED
        BY <1>1, <1>5, <3>1 DEF Keeps
    <2>2. \A s \in Slots(d) : holder'[s] \in through
      BY <1>1 DEF Slots, HeldBy
    <2>3. stack'[t] = << >>
      BY <1>1
    <2> HIDE DEF through
    <2>4. QED
      BY <1>5, <2>1, <2>2, <2>3 DEF OpHolds
  <1>7. Exclusive'
    <2>1. \A u \in Threads : c \notin via[u] /\ at[u] # c
      BY <1>1, MutableUnused
    <2>2. \A u \in Threads \ {t} : at[u] \notin through
      BY <1>2, <1>3 DEF MutatedByOther
    <2> HIDE DEF through
    <2>3. QED
      BY <1>5, <2>1, <2>2 DEF IInv, Operations, Exclusive
  <1>8. QED
    BY <1>5, <1>6, <1>7, CountingSuffices
    DEF Operations, Counting, IInv, TypeOK

\* An operation that ends leaves nothing to keep.
LEMMA EndStep ==
  ASSUME IInv, NEW t \in Threads, Begin(t, "none", Null, {}, {})
  PROVE  /\ op' \in [Threads -> Ops]
         /\ at' \in [Threads -> Containers \cup {Null}]
         /\ via' \in [Threads -> SUBSET Containers]
         /\ todo' \in [Threads -> SUBSET Refs]
         /\ \A u \in Threads \ {t} : /\ op'[u] = op[u] /\ at'[u] = at[u]
                                     /\ via'[u] = via[u] /\ todo'[u] = todo[u]
         /\ OpHolds(t)'
         /\ Exclusive'
  <1>1. /\ op' \in [Threads -> Ops]
        /\ at' \in [Threads -> Containers \cup {Null}]
        /\ via' \in [Threads -> SUBSET Containers]
        /\ todo' \in [Threads -> SUBSET Refs]
        /\ op'[t] = "none" /\ at'[t] = Null /\ via'[t] = {} /\ todo'[t] = {}
    BY DEF Begin, IInv, TypeOK, Ops
  <1>2. \A u \in Threads \ {t} : /\ op'[u] = op[u] /\ at'[u] = at[u]
                                 /\ via'[u] = via[u] /\ todo'[u] = todo[u]
    BY DEF Begin, IInv, TypeOK
  <1>3. OpHolds(t)'
    BY <1>1 DEF OpHolds
  <1>4. Exclusive'
    BY <1>1, <1>2 DEF IInv, Operations, Exclusive
  <1>5. QED
    BY <1>1, <1>2, <1>3, <1>4

LEMMA FinishStep ==
  ASSUME IInv, NEW t \in Threads, Finish(t)
  PROVE  IInv'
  <1>1. /\ Begin(t, "none", Null, {}, {})
        /\ UNCHANGED <<rc, phase, holder, target, stack>>
    BY DEF Finish
  <1>2. Counting'
    BY <1>1, SameCounting
  <1>3. /\ op' \in [Threads -> Ops]
        /\ at' \in [Threads -> Containers \cup {Null}]
        /\ via' \in [Threads -> SUBSET Containers]
        /\ todo' \in [Threads -> SUBSET Refs]
        /\ \A u \in Threads \ {t} : /\ op'[u] = op[u] /\ at'[u] = at[u]
                                    /\ via'[u] = via[u] /\ todo'[u] = todo[u]
        /\ OpHolds(t)'
        /\ Exclusive'
    BY <1>1, EndStep
  <1>4. \A u \in Threads \ {t} : OpHolds(u)'
    BY <1>1, <1>3, OpHoldsKept
  <1>5. QED
    BY <1>2, <1>3, <1>4, CountingSuffices
    DEF Operations, Counting, IInv, TypeOK

LEMMA StoreStep ==
  ASSUME IInv, NEW t \in Threads, Store(t)
  PROVE  IInv'
  <1>1. PICK r \in todo[t] : holder' = [holder EXCEPT ![r] = at[t]]
    BY DEF Store
  <1>2. /\ op[t] = "store"
        /\ Begin(t, "none", Null, {}, {})
        /\ UNCHANGED <<rc, phase, target, stack>>
    BY DEF Store
  <1>3. r \in Refs /\ todo[t] = {r} /\ holder[r] = t /\ t # Null
    BY <1>1, <1>2, SetsAssumption DEF IInv, Operations, OpHolds
  <1>4. at[t] \in Containers /\ phase[at[t]] = "live" /\ at[t] # Null
    BY <1>2, AtIsLive, SetsAssumption
  <1>5. /\ holder' \in [Refs -> Threads \cup Containers \cup {Null}]
        /\ holder'[r] = at[t]
        /\ \A q \in Refs \ {r} : holder'[q] = holder[q]
    BY <1>1, <1>3, <1>4 DEF IInv, TypeOK
  <1>6. Counting'
    <2>1. CountExact' /\ PhaseCount' /\ Stacked'
      BY <1>2 DEF IInv, CountExact, RefsTo, PhaseCount, Stacked, DeletedOnce
    <2>2. Tokens' /\ SlotsAlive'
      BY <1>2, <1>3, <1>4, <1>5 DEF IInv, Tokens, SlotsAlive
    <2>3. QED
      BY <1>2, <1>5, <2>1, <2>2 DEF Counting, IInv, TypeOK
  <1>7. /\ op' \in [Threads -> Ops]
        /\ at' \in [Threads -> Containers \cup {Null}]
        /\ via' \in [Threads -> SUBSET Containers]
        /\ todo' \in [Threads -> SUBSET Refs]
        /\ \A u \in Threads \ {t} : /\ op'[u] = op[u] /\ at'[u] = at[u]
                                    /\ via'[u] = via[u] /\ todo'[u] = todo[u]
        /\ OpHolds(t)'
        /\ Exclusive'
    BY <1>2, EndStep
  <1>8. ASSUME NEW u \in Threads \ {t} PROVE OpHolds(u)'
    <2>1. t \notin via[u] \cup {u}
      BY SetsAssumption DEF IInv, TypeOK
    <2>2. \A q \in Refs : holder[q] \in via[u] \cup {u} =>
            holder'[q] = holder[q] /\ target'[q] = target[q]
      BY <1>2, <1>3, <1>5, <2>1
    <2>3. stack'[u] = stack[u]
      BY <1>2
    <2>4. QED
      BY <1>7, <2>2, <2>3, OpHoldsKept
  <1>9. QED
    BY <1>6, <1>7, <1>8, CountingSuffices
    DEF Operations, Counting, IInv, TypeOK

LEMMA ExtendSlotStep ==
  ASSUME IInv, NEW t \in Threads, ExtendSlot(t)
  PROVE  IInv'
  <1>1. PICK s \in todo[t] : /\ Gain(at[t], target[s])
                             /\ todo' = [todo EXCEPT ![t] = @ \ {s}]
    BY DEF ExtendSlot
  <1>2. op[t] = "extend" /\ UNCHANGED <<phase, stack, op, at, via>>
    BY DEF ExtendSlot
  <1>3. at[t] \in Containers /\ phase[at[t]] = "live" /\ at[t] # Null
    BY <1>2, AtIsLive, SetsAssumption
  <1>4. s \in Refs /\ target[s] \in Values /\ phase[target[s]] = "live"
    BY <1>1, TodoHeld, ReferredIsLive DEF IInv, Tokens
  <1>5. /\ NextRef \in Refs
        /\ target[NextRef] = Null
        /\ rc' \in [Values -> Nat]
        /\ holder' \in [Refs -> Threads \cup Containers \cup {Null}]
        /\ target' \in [Refs -> Values \cup {Null}]
        /\ CountExact'
    BY <1>1, <1>3, <1>4, GainCounts DEF IInv
  <1>6. /\ holder[NextRef] = Null
        /\ holder'[NextRef] = at[t] /\ target'[NextRef] = target[s] /\ target[s] # Null
        /\ \A r \in Refs \ {NextRef} : holder'[r] = holder[r] /\ target'[r] = target[r]
    BY <1>1, <1>4, <1>5, SetsAssumption DEF Gain, IInv, TypeOK, Tokens
  <1>7. Counting'
    <2>1. Tokens' /\ SlotsAlive'
      BY <1>2, <1>3, <1>6 DEF IInv, Tokens, SlotsAlive
    <2>2. PhaseCount'
      BY <1>1, <1>2, <1>4 DEF IInv, TypeOK, PhaseCount, Gain, Mortal
    <2>3. Stacked'
      BY <1>2 DEF IInv, Stacked, DeletedOnce
    <2>4. QED
      BY <1>2, <1>5, <2>1, <2>2, <2>3 DEF Counting, IInv, TypeOK
  <1>8. todo' \in [Threads -> SUBSET Refs] /\ \A u \in Threads \ {t} : todo'[u] = todo[u]
    BY <1>1 DEF IInv, TypeOK
  <1>9. ASSUME NEW u \in Threads
        PROVE  \A q \in Refs : holder[q] \in via[u] \cup {u} =>
                 holder'[q] = holder[q] /\ target'[q] = target[q]
    <2>1. Null \notin via[u] \cup {u}
      BY SetsAssumption DEF IInv, TypeOK
    <2>2. QED
      BY <1>6, <2>1
  <1>10. ASSUME NEW u \in Threads PROVE OpHolds(u)'
    <2>1. CASE u # t
      BY <1>2, <1>8, <1>9, <2>1, OpHoldsKept
    <2>2. CASE u = t
      <3>1. OpHolds(t) /\ todo[t] \subseteq Refs
        BY DEF IInv, TypeOK, Operations
      <3>2. todo'[t] = todo[t] \ {s}
        BY <1>1 DEF IInv, TypeOK
      <3>3. \A q \in todo'[t] : holder'[q] \in via'[t]
        BY <1>2, <1>9, <3>1, <3>2 DEF OpHolds
      <3>4. ASSUME NEW c \in via[t] \cup {at[t]} PROVE Keeps(t, c)'
        <4>1. PICK q \in Refs : target[q] = c /\ holder[q] \in via[t] \cup {t}
          BY <1>2, <3>1 DEF OpHolds, Keeps
        <4>2. QED
          BY <1>2, <1>9, <4>1 DEF Keeps
      <3>5. QED
        BY <1>2, <2>2, <3>1, <3>3, <3>4 DEF OpHolds
    <2>3. QED
      BY <2>1, <2>2
  <1>11. Exclusive'
    BY <1>2 DEF IInv, Operations, Exclusive
  <1>12. QED
    BY <1>2, <1>7, <1>8, <1>10, <1>11, CountingSuffices
    DEF Operations, Counting, IInv, TypeOK

-----------------------------------------------------------------------------
(* The theorems.                                                           *)

LEMMA InitEstablishes == Init => IInv
  <1> SUFFICES ASSUME Init PROVE IInv
    OBVIOUS
  <1>1. TypeOK
    BY DEF Init, TypeOK, Phases, Ops
  <1>2. Tokens /\ SlotsAlive
    BY SetsAssumption DEF Init, Tokens, SlotsAlive
  <1>3. CountExact
    <2>1. \A v \in Mortal : v \in Values /\ v # Null
      BY SetsAssumption DEF Mortal
    <2>2. \A v \in Mortal : RefsTo(v) = {}
      BY <2>1 DEF Init, RefsTo
    <2>3. QED
      BY <2>1, <2>2, FS_EmptySet DEF Init, CountExact
  <1>4. PhaseCount
    BY SetsAssumption DEF Init, PhaseCount, Mortal
  <1>5. Stacked
    BY DEF Init, Stacked, DeletedOnce
  <1>6. Operations
    BY DEF Init, Operations, OpHolds, Exclusive
  <1>7. QED
    BY <1>1, <1>2, <1>3, <1>4, <1>5, <1>6 DEF IInv

LEMMA NextPreserves == IInv /\ [Next]_vars => IInv'
  <1> SUFFICES ASSUME IInv, [Next]_vars PROVE IInv'
    OBVIOUS
  <1>1. ASSUME NEW t \in Threads, InLibrary(t) PROVE IInv'
    BY <1>1, DeleteChildStep, FreeStep, StoreStep, ClearSlotStep,
       ExtendSlotStep, FinishStep DEF InLibrary
  <1>2. ASSUME NEW t \in Threads, Program(t) PROVE IInv'
    <2>1. CASE \E v \in Mortal : New(t, v)
      BY <2>1, NewStep
    <2>2. CASE \E v \in Values : Incref(t, v)
      BY <2>2, IncrefStep
    <2>3. CASE \E r \in Refs : Decref(t, r)
      BY <2>3, DecrefStep
    <2>4. ASSUME NEW w \in Ways, NEW c \in Containers,
                 \E r \in Refs : Give(t, w, c, r) \/ Remove(t, w, c, r)
          PROVE  IInv'
      BY <2>4, GiveStep, RemoveStep
    <2>5. ASSUME NEW w \in Ways, NEW c \in Containers,
                 \E r, old \in Refs : Replace(t, w, c, r, old) \/ IterSet(t, w, c, r, old)
          PROVE  IInv'
      BY <2>5, ReplaceStep, IterSetStep
    <2>6. ASSUME NEW w \in Ways, NEW c \in Containers,
                 \/ Clear(t, w, c)
                 \/ \E z \in Ways, d \in Containers : Extend(t, w, c, z, d)
          PROVE  IInv'
      BY <2>6, ClearStep, ExtendStep
    <2>7. QED
      BY <1>2, <2>1, <2>2, <2>3, <2>4, <2>5, <2>6 DEF Program
  <1>3. CASE UNCHANGED vars
    <2>1. Counting'
      BY <1>3, SameCounting DEF vars
    <2>2. Operations'
      BY <1>3, OperationsKept DEF vars
    <2>3. QED
      BY <1>3, <2>1, <2>2, CountingSuffices DEF vars, call, IInv, TypeOK, Counting
  <1>4. QED
    BY <1>1, <1>2, <1>3 DEF Next

THEOREM Inductive == Spec => []IInv
  BY InitEstablishes, NextPreserves, PTL DEF Spec

\* The state of the model is always well typed.
THEOREM Typing == Spec => []TypeOK
  BY Inductive, PTL DEF IInv

\* The refcount field of every array, object, string or number is the number
\* of references that exist to it (incref and decref of abi.rs, and every
\* container operation that moves, copies or drops a reference).
THEOREM ExactCounts == Spec => []CountExact
  BY Inductive, PTL DEF IInv

\* No variable and no slot ever refers to a deleted value, and no slot
\* outlives its container.
THEOREM ReferencesAreValid == Spec => []NoUseAfterFree
  <1>1. IInv => NoUseAfterFree
    <2> SUFFICES ASSUME IInv, NEW r \in Refs, target[r] # Null
                 PROVE  /\ phase[target[r]] = "live"
                        /\ holder[r] \in Containers => phase[holder[r]] \in {"live", "deleting"}
      BY DEF NoUseAfterFree
    <2>1. phase[target[r]] = "live"
      BY ReferredIsLive DEF IInv
    <2>2. QED
      BY <2>1 DEF IInv, SlotsAlive
  <1>2. QED
    BY <1>1, Inductive, PTL

\* json_delete is entered once for a value, by one thread.
THEOREM NoDoubleDelete == Spec => []DeletedOnce
  BY Inductive, PTL DEF IInv, Stacked

\* No container operation loses its container, even a borrowed one, nor one it
\* was reached through or copies, to the deletions it causes itself or to
\* those of other threads, before its last write to it.
THEOREM OperationsAreSafe == Spec => []ContainerSurvives
  <1>1. IInv => ContainerSurvives
    BY KeptIsLive DEF ContainerSurvives
  <1>2. QED
    BY <1>1, Inductive, PTL
=============================================================================
