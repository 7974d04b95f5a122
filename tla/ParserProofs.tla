---------------------------- MODULE ParserProofs ----------------------------
(***************************************************************************)
(* What parse_json owns, for inputs of any length, any depth bound, and    *)
(* whatever allocation fails: its stack is bounded, and every key text and *)
(* every value it has made is in one place, from which it is freed once.   *)
(*                                                                         *)
(* A frame has a key only between a key and the end of its value, so what  *)
(* is popped has none.  A value is in a frame, in pending, or in a value   *)
(* that was made before it; so what lies below a value ends, and deleting  *)
(* the bottom frame and what is pending deletes everything.                *)
(*                                                                         *)
(* And what it reports: the first error, with a token that fits it, and    *)
(* none when it succeeds at the end of the input.                          *)
(***************************************************************************)
EXTENDS Parser, FiniteSetTheorems, SequenceTheorems, WellFoundedInduction, TLAPS

Keyless == {"ExpectFirstValueOrEnd", "ExpectCommaOrEnd", "ExpectFirstKeyOrEnd", "ExpectKey"}
States == Keyless \cup {"ExpectValue", "ExpectColon"}
Frames == [node : Nat, state : States, key : Strings \cup {NoKey}]

Items == [key : Strings \cup {NoKey}, value : Nat]
Nodes == [kind : Strings \cup Numbers \cup {"array", "object"}, items : Seq(Items)]

Types ==
  /\ frames \in Seq(Frames)
  /\ heap \in Seq(Nodes)
  /\ pending \in Nat \cup {NoValue}

KeylessHaveNone == \A i \in 1 .. Len(frames) : frames[i].state \in Keyless => frames[i].key = NoKey

IInv ==
  /\ Types
  /\ DepthBounded
  /\ KeyTextsOwned
  /\ KeylessHaveNone
  /\ status \in {"trailer", "ok", "failed"} => frames = << >>

-----------------------------------------------------------------------------
(* Which frames have a key                                                 *)

LEMMA KeyedFinite ==
  ASSUME NEW s \in Seq(Frames)
  PROVE  /\ Keyed(s) \subseteq 1 .. Len(s)
         /\ IsFiniteSet(Keyed(s))
         /\ Cardinality(Keyed(s)) \in Nat
<1>1. Keyed(s) \subseteq 1 .. Len(s)
  BY DEF Keyed
<1>2. IsFiniteSet(1 .. Len(s))
  BY FS_Interval
<1>3. IsFiniteSet(Keyed(s))
  BY <1>1, <1>2, FS_Subset
<1> QED
  BY <1>1, <1>3, FS_CardinalityType

LEMMA KeyedEmpty ==
  Keyed(<< >>) = {} /\ Cardinality(Keyed(<< >>)) = 0
<1>1. Keyed(<< >>) = {}
  BY DEF Keyed
<1> QED
  BY <1>1, FS_EmptySet

LEMMA KeyedPush ==
  ASSUME NEW s \in Seq(Frames), NEW f \in Frames, f.key = NoKey
  PROVE  Keyed(Append(s, f)) = Keyed(s)
<1> DEFINE t == Append(s, f)
<1>1. /\ Len(s) \in Nat
      /\ DOMAIN s = 1 .. Len(s)
      /\ DOMAIN t = 1 .. Len(s) + 1
      /\ \A i \in 1 .. Len(s) : t[i] = s[i]
      /\ t[Len(s) + 1] = f
  OBVIOUS
<1> HIDE DEF t
<1>2. Keyed(t) = Keyed(s)
  BY <1>1 DEF Keyed
<1> QED
  BY <1>2 DEF t

LEMMA FrontOf ==
  ASSUME NEW s \in Seq(Frames), s # << >>
  PROVE  /\ Front(s) \in Seq(Frames)
         /\ Len(Front(s)) = Len(s) - 1
         /\ \A i \in 1 .. Len(s) - 1 : Front(s)[i] = s[i]
         /\ Last(s) = s[Len(s)] /\ Last(s) \in Frames
<1> DEFINE n == Len(s)
<1>1. n \in Nat \ {0} /\ Front(s) = SubSeq(s, 1, n - 1) /\ Last(s) = s[n] /\ s[n] \in Frames
  BY DEF Front, Last
<1>2. n - 1 \in Int /\ \A i \in 1 .. n - 1 : s[i] \in Frames
  BY <1>1
<1> HIDE DEF n
<1>3. /\ SubSeq(s, 1, n - 1) \in Seq(Frames)
      /\ Len(SubSeq(s, 1, n - 1)) = n - 1
      /\ \A i \in 1 .. n - 1 : SubSeq(s, 1, n - 1)[i] = s[i]
  BY <1>1, <1>2, SubSeqProperties
<1> QED
  BY <1>1, <1>3 DEF n

LEMMA KeyedPop ==
  ASSUME NEW s \in Seq(Frames), s # << >>, Last(s).key = NoKey
  PROVE  Keyed(Front(s)) = Keyed(s)
<1> DEFINE n == Len(s)
           t == Front(s)
<1>1. /\ n \in Nat \ {0}
      /\ DOMAIN s = 1 .. n
      /\ DOMAIN t = 1 .. n - 1
      /\ \A i \in 1 .. n - 1 : t[i] = s[i]
      /\ s[n].key = NoKey
  BY FrontOf
<1> HIDE DEF n, t
<1>2. Keyed(t) = Keyed(s)
  BY <1>1 DEF Keyed
<1> QED
  BY <1>2 DEF t

\* What TopTo does to the stack.
LEMMA TopToKeeps ==
  ASSUME IInv, frames # << >>, NEW state \in States, NEW key \in Strings \cup {NoKey}
  PROVE  LET t == TopTo(state, key) n == Len(frames)
         IN /\ t \in Seq(Frames)
            /\ n \in Nat \ {0} /\ Len(t) = n
            /\ \A i \in 1 .. n - 1 : t[i] = frames[i]
            /\ t[n].state = state /\ t[n].key = key
            /\ Keyed(t) = IF key = NoKey THEN Keyed(frames) \ {n} ELSE Keyed(frames) \cup {n}
<1> DEFINE n == Len(frames)
           top == [frames[n] EXCEPT !.state = state, !.key = key]
           t == [frames EXCEPT ![n] = top]
<1>1. frames \in Seq(Frames) /\ n \in Nat \ {0} /\ frames[n] \in Frames
  BY DEF IInv, Types
<1>2. top \in Frames /\ top.state = state /\ top.key = key
  BY <1>1 DEF Frames
<1>3. TopTo(state, key) = t
  BY <1>1 DEF TopTo, Frames
<1> HIDE DEF top
<1>4. /\ t \in Seq(Frames)
      /\ Len(t) = n
      /\ DOMAIN t = 1 .. n /\ DOMAIN frames = 1 .. n
      /\ \A i \in 1 .. n - 1 : t[i] = frames[i]
      /\ t[n] = top
  BY <1>1, <1>2
<1> HIDE DEF t, n
<1>5. Keyed(t) = IF key = NoKey THEN Keyed(frames) \ {n} ELSE Keyed(frames) \cup {n}
  BY <1>1, <1>2, <1>4 DEF Keyed
<1> QED
  BY <1>1, <1>2, <1>3, <1>4, <1>5 DEF n

\* The key text of the frame on top is freed.
LEMMA OneLess ==
  ASSUME IInv, frames # << >>
  PROVE  Cardinality(Keyed(frames) \ {Len(frames)}) = KeyTextsLeft
<1> DEFINE n == Len(frames)
           mine == {f \in {Top} : f.key # NoKey}
<1>1. /\ frames \in Seq(Frames) /\ n \in Nat \ {0} /\ Top = frames[n]
      /\ DOMAIN frames = 1 .. n
  BY DEF IInv, Types, Top, Last
<1>2. IsFiniteSet(Keyed(frames)) /\ Cardinality(Keyed(frames)) = keyTexts /\ keyTexts \in Nat
  BY <1>1, KeyedFinite DEF IInv, KeyTextsOwned
<1>3. CASE Top.key = NoKey
  <2>1. n \notin Keyed(frames) /\ mine = {}
    BY <1>1, <1>3 DEF Keyed
  <2>2. Keyed(frames) \ {n} = Keyed(frames)
    BY <2>1
  <2>3. Cardinality(Keyed(frames) \ {n}) = keyTexts
    BY <1>2, <2>2, Zenon
  <2>4. Cardinality(mine) = 0
    BY <2>1, FS_EmptySet
  <2>5. KeyTextsLeft = keyTexts - Cardinality(mine)
    BY DEF KeyTextsLeft
  <2> HIDE DEF mine
  <2> QED
    BY <1>2, <2>3, <2>4, <2>5
<1>4. CASE Top.key # NoKey
  <2>1. n \in Keyed(frames) /\ mine = {Top}
    BY <1>1, <1>4 DEF Keyed
  <2>2. Cardinality(mine) = 1
    BY <2>1, FS_Singleton
  <2>3. Cardinality(Keyed(frames) \ {n}) = Cardinality(Keyed(frames)) - 1
    BY <1>2, <2>1, FS_RemoveElement
  <2>4. KeyTextsLeft = keyTexts - Cardinality(mine)
    BY DEF KeyTextsLeft
  <2> HIDE DEF mine
  <2> QED
    BY <1>2, <2>2, <2>3, <2>4
<1> QED
  BY <1>3, <1>4

-----------------------------------------------------------------------------
(* The values                                                              *)

\* An item put into a container leaves a list of items.
LEMMA PutIsTyped ==
  ASSUME NEW items \in Seq(Items), NEW key \in Strings \cup {NoKey}, NEW r \in Nat
  PROVE  Put(items, key, r) \in Seq(Items)
<1>1. [key |-> key, value |-> r] \in Items
  BY DEF Items
<1>2. CASE Present(items, key) = {}
  BY <1>1, <1>2 DEF Put
<1>3. CASE Present(items, key) # {}
  <2> DEFINE new == [i \in DOMAIN items |->
                       IF i \in Present(items, key) THEN [items[i] EXCEPT !.value = r] ELSE items[i]]
  <2>1. \A i \in 1 .. Len(items) : items[i] \in Items /\ [items[i] EXCEPT !.value = r] \in Items
    <3>1. \A i \in 1 .. Len(items) : items[i] \in Items
      OBVIOUS
    <3>2. \A m \in Items : [m EXCEPT !.value = r] \in Items
      BY DEF Items
    <3> QED
      BY <3>1, <3>2
  <2>2. Len(items) \in Nat /\ DOMAIN items = 1 .. Len(items)
    OBVIOUS
  <2>3. new \in [1 .. Len(items) -> Items]
    BY <2>1, <2>2
  <2>4. new \in Seq(Items)
    BY <2>2, <2>3
  <2> QED
    BY <1>3, <2>4 DEF Put
<1> QED
  BY <1>2, <1>3

\* A value that is made is a node, under a number that is not yet taken.
LEMMA MadeIsTyped ==
  ASSUME IInv, NEW node \in Nodes, Make(node)
  PROVE  heap' \in Seq(Nodes) /\ Fresh \in Nat
BY DEF IInv, Types, Make, Fresh

LEMMA NodeIsTyped ==
  ASSUME NEW kind \in Strings \cup Numbers \cup {"array", "object"}
  PROVE  Node(kind) \in Nodes
BY DEF Node, Nodes

-----------------------------------------------------------------------------
(* What a value holds                                                      *)

ValuesIn(h, n) == {h[n].items[j].value : j \in 1 .. Len(h[n].items)} \ {Literal}

HoldsAll(h, S) == \A n \in S : ValuesIn(h, n) \subseteq S

\* The least set with r that holds what its members hold.
Held(h, r) ==
  {m \in 1 .. Len(h) : \A S \in SUBSET (1 .. Len(h)) :
     {r} \ {Literal} \subseteq S /\ HoldsAll(h, S) => m \in S}

\* What a value holds was made after it.
Grown(h) ==
  /\ h \in Seq(Nodes)
  /\ \A n \in 1 .. Len(h) : ValuesIn(h, n) \subseteq n + 1 .. Len(h)

LEMMA HeldIsLeast ==
  ASSUME NEW h, NEW r, NEW S \in SUBSET (1 .. Len(h)),
         {r} \ {Literal} \subseteq S, HoldsAll(h, S)
  PROVE  Held(h, r) \subseteq S
  BY DEF Held

LEMMA HeldHoldsAll ==
  ASSUME NEW h, Grown(h), NEW r \in 0 .. Len(h)
  PROVE  /\ Held(h, r) \in SUBSET (1 .. Len(h))
         /\ {r} \ {Literal} \subseteq Held(h, r)
         /\ HoldsAll(h, Held(h, r))
<1>1. Held(h, r) \in SUBSET (1 .. Len(h))
  BY DEF Held
<1>2. {r} \ {Literal} \subseteq Held(h, r)
  BY DEF Held, Literal, Grown
<1>3. ASSUME NEW n \in Held(h, r), NEW v \in ValuesIn(h, n) PROVE v \in Held(h, r)
  <2>1. n \in 1 .. Len(h) /\ v \in 1 .. Len(h)
    BY DEF Held, Grown
  <2>2. ASSUME NEW S \in SUBSET (1 .. Len(h)), {r} \ {Literal} \subseteq S, HoldsAll(h, S)
        PROVE  v \in S
    <3>1. n \in S
      BY <2>2, HeldIsLeast
    <3> QED
      BY <2>2, <3>1 DEF HoldsAll
  <2> QED
    BY <2>1, <2>2 DEF Held
<1> QED
  BY <1>1, <1>2, <1>3 DEF HoldsAll

\* Each member but r is held by a member.
LEMMA HeldByMember ==
  ASSUME NEW h, Grown(h), NEW r \in 0 .. Len(h), NEW m \in Held(h, r), m # r
  PROVE  \E n \in Held(h, r) : m \in ValuesIn(h, n)
<1> SUFFICES ASSUME \A n \in Held(h, r) : m \notin ValuesIn(h, n) PROVE FALSE
  OBVIOUS
<1> DEFINE S == Held(h, r) \ {m}
<1>1. /\ S \in SUBSET (1 .. Len(h)) /\ {r} \ {Literal} \subseteq S
      /\ HoldsAll(h, S)
  BY HeldHoldsAll DEF HoldsAll
<1>2. m \notin S
  OBVIOUS
<1> HIDE DEF S
<1> QED
  BY <1>1, <1>2, HeldIsLeast

LEMMA LiteralHoldsNothing ==
  ASSUME NEW h, Grown(h)
  PROVE  Held(h, Literal) = {}
<1>1. {} \in SUBSET (1 .. Len(h)) /\ {Literal} \ {Literal} \subseteq {} /\ HoldsAll(h, {})
  BY DEF HoldsAll
<1> QED
  BY <1>1, HeldIsLeast

LEMMA HeldUnfolds ==
  ASSUME NEW h, Grown(h), NEW n \in 1 .. Len(h)
  PROVE  Held(h, n) = {n} \cup UNION {Held(h, v) : v \in ValuesIn(h, n)}
<1> DEFINE S == {n} \cup UNION {Held(h, v) : v \in ValuesIn(h, n)}
<1>1. ValuesIn(h, n) \subseteq 1 .. Len(h) /\ n # Literal
  BY DEF Grown, Literal
<1>2. \A v \in ValuesIn(h, n) : /\ Held(h, v) \in SUBSET (1 .. Len(h)) /\ v \in Held(h, v)
                                /\ HoldsAll(h, Held(h, v))
  <2> SUFFICES ASSUME NEW v \in ValuesIn(h, n)
               PROVE  /\ Held(h, v) \in SUBSET (1 .. Len(h)) /\ v \in Held(h, v)
                      /\ HoldsAll(h, Held(h, v))
    OBVIOUS
  <2>1. v \in 0 .. Len(h) /\ v # Literal
    BY <1>1 DEF Literal
  <2> QED
    BY <2>1, HeldHoldsAll
<1>3. S \in SUBSET (1 .. Len(h)) /\ {n} \ {Literal} \subseteq S
  BY <1>2
<1>4. HoldsAll(h, S)
  BY <1>2 DEF HoldsAll
<1>5. Held(h, n) \subseteq S
  <2> HIDE DEF S
  <2> QED
    BY <1>3, <1>4, HeldIsLeast
<1>6. n \in Held(h, n) /\ HoldsAll(h, Held(h, n)) /\ Held(h, n) \in SUBSET (1 .. Len(h))
  <2>1. n \in 0 .. Len(h)
    OBVIOUS
  <2> QED
    BY <1>1, <2>1, HeldHoldsAll
<1>7. ASSUME NEW v \in ValuesIn(h, n) PROVE Held(h, v) \subseteq Held(h, n)
  <2>1. v \in Held(h, n)
    BY <1>6 DEF HoldsAll
  <2> QED
    BY <1>6, <2>1, HeldIsLeast
<1> QED
  BY <1>5, <1>6, <1>7

LEMMA LeastNumber ==
  ASSUME NEW S \in SUBSET Nat, S # {}
  PROVE  \E x \in S : \A y \in S : x <= y
<1>1. PICK x \in S : \A y \in S : ~ (<<y, x>> \in OpToRel(<, Nat))
  BY WFMin, NatLessThanWellFounded, Zenon
<1>2. \A y \in S : ~ (y < x)
  BY <1>1 DEF OpToRel
<1> QED
  BY <1>2

\* The recursion of json_delete, over values that hold only what was made later,
\* frees what is held.
Deletion(h, f) ==
  f = [n \in 0 .. Len(h) |->
         IF n = Literal THEN {} ELSE {n} \cup UNION {f[i.value] : i \in ToSet(h[n].items)}]

DeletionUnfolded(h, f) ==
  /\ f[Literal] = {}
  /\ \A n \in 1 .. Len(h) : f[n] = {n} \cup UNION {f[v] : v \in ValuesIn(h, n)}

LEMMA ItemsOf ==
  ASSUME NEW h, Grown(h), NEW n \in 1 .. Len(h), NEW f, f[Literal] = {}, NEW x
  PROVE  (\E i \in ToSet(h[n].items) : x \in f[i.value]) <=> (\E v \in ValuesIn(h, n) : x \in f[v])
<1>1. h[n].items \in Seq(Items)
  <2>1. h[n] \in Nodes
    BY DEF Grown
  <2> QED
    BY <2>1 DEF Nodes
<1>2. ToSet(h[n].items) = {h[n].items[j] : j \in 1 .. Len(h[n].items)}
  BY <1>1 DEF ToSet
<1>3. ASSUME NEW i \in ToSet(h[n].items), x \in f[i.value] PROVE \E v \in ValuesIn(h, n) : x \in f[v]
  <2>1. PICK j \in 1 .. Len(h[n].items) : i = h[n].items[j]
    BY <1>2
  <2>2. i.value # Literal
    BY <1>3
  <2>3. i.value \in ValuesIn(h, n)
    BY <2>1, <2>2 DEF ValuesIn
  <2> QED
    BY <1>3, <2>3
<1>4. ASSUME NEW v \in ValuesIn(h, n), x \in f[v] PROVE \E i \in ToSet(h[n].items) : x \in f[i.value]
  <2>1. PICK j \in 1 .. Len(h[n].items) : v = h[n].items[j].value
    BY DEF ValuesIn
  <2>2. h[n].items[j] \in ToSet(h[n].items)
    BY <1>2
  <2> QED
    BY <1>4, <2>1, <2>2
<1> QED
  BY <1>3, <1>4

LEMMA DeletionUnfolds ==
  ASSUME NEW h, Grown(h), NEW f, Deletion(h, f)
  PROVE  DeletionUnfolded(h, f)
<1>0. Len(h) \in Nat
  BY DEF Grown
<1>1. f[Literal] = {}
  BY <1>0 DEF Deletion, Literal
<1>2. ASSUME NEW n \in 1 .. Len(h)
      PROVE  f[n] = {n} \cup UNION {f[v] : v \in ValuesIn(h, n)}
  <2>1. n \in 0 .. Len(h) /\ n # Literal
    BY DEF Literal
  <2>2. f[n] = {n} \cup UNION {f[i.value] : i \in ToSet(h[n].items)}
    BY <2>1 DEF Deletion
  <2>3. \A x : (\E i \in ToSet(h[n].items) : x \in f[i.value]) <=> (\E v \in ValuesIn(h, n) : x \in f[v])
    BY <1>1, ItemsOf
  <2> QED
    BY <2>2, <2>3
<1> QED
  BY <1>1, <1>2 DEF DeletionUnfolded

LEMMA DeletionExists ==
  ASSUME NEW h, Grown(h)
  PROVE  Deletion(h, [n \in 0 .. Len(h) |-> Held(h, n)])
<1> DEFINE f == [n \in 0 .. Len(h) |-> Held(h, n)]
<1>0. Len(h) \in Nat
  BY DEF Grown
<1>1. f[Literal] = {}
  BY <1>0, LiteralHoldsNothing DEF Literal
<1>2. ASSUME NEW n \in 0 .. Len(h)
      PROVE  f[n] = IF n = Literal THEN {}
                    ELSE {n} \cup UNION {f[i.value] : i \in ToSet(h[n].items)}
  <2>1. CASE n = Literal
    BY <1>1, <2>1
  <2>2. CASE n # Literal
    <3>1. n \in 1 .. Len(h)
      BY <2>2 DEF Literal
    <3>2. ValuesIn(h, n) \subseteq 0 .. Len(h)
      BY <3>1 DEF Grown
    <3>3. Held(h, n) = {n} \cup UNION {Held(h, v) : v \in ValuesIn(h, n)}
      BY <3>1, HeldUnfolds
    <3>4. \A v \in ValuesIn(h, n) : f[v] = Held(h, v)
      BY <3>2
    <3>5. f[n] = Held(h, n)
      OBVIOUS
    <3> HIDE DEF f
    <3>6. UNION {f[v] : v \in ValuesIn(h, n)} = UNION {Held(h, v) : v \in ValuesIn(h, n)}
      BY <3>4
    <3>7. \A x : (\E i \in ToSet(h[n].items) : x \in f[i.value]) <=> (\E v \in ValuesIn(h, n) : x \in f[v])
      BY <1>1, <3>1, ItemsOf
    <3>8. UNION {f[i.value] : i \in ToSet(h[n].items)} = UNION {f[v] : v \in ValuesIn(h, n)}
      <4> DEFINE A == UNION {f[i.value] : i \in ToSet(h[n].items)}
                 B == UNION {f[v] : v \in ValuesIn(h, n)}
      <4>1. \A x : x \in A <=> x \in B
        BY <3>7
      <4> HIDE DEF A, B
      <4>2. A = B
        BY <4>1
      <4> QED
        BY <4>2 DEF A, B
    <3> QED
      BY <2>2, <3>3, <3>5, <3>6, <3>8, Zenon
  <2> QED
    BY <2>1, <2>2
<1>3. f = [n \in 0 .. Len(h) |-> f[n]]
  OBVIOUS
<1> HIDE DEF f
<1>4. Deletion(h, f)
  BY <1>2, <1>3 DEF Deletion
<1> QED
  BY <1>4 DEF f

\* Values hold what was made later only, so no two functions do.
LEMMA DeletionIsUnique ==
  ASSUME NEW h, Grown(h), NEW f, NEW g, DeletionUnfolded(h, f), DeletionUnfolded(h, g),
         NEW n \in 0 .. Len(h)
  PROVE  f[n] = g[n]
<1> SUFFICES ASSUME f[n] # g[n] PROVE FALSE
  OBVIOUS
<1> DEFINE D == {k \in Nat : k <= Len(h) /\ f[Len(h) - k] # g[Len(h) - k]}
<1>0. Len(h) \in Nat
  BY DEF Grown
<1>1. Len(h) - n \in D
  <2>1. Len(h) - n \in Nat /\ Len(h) - (Len(h) - n) = n /\ Len(h) - n <= Len(h)
    BY <1>0
  <2> QED
    BY <2>1
<1>2. PICK x \in D : \A y \in D : x <= y
  BY <1>1, LeastNumber
<1> DEFINE m == Len(h) - x
<1>3. m \in 0 .. Len(h) /\ f[m] # g[m] /\ x \in Nat
  BY <1>0, <1>2
<1>4. m \in 1 .. Len(h)
  <2>1. m # 0
    BY <1>3 DEF DeletionUnfolded, Literal
  <2> HIDE DEF m, D
  <2> QED
    BY <1>0, <1>3, <2>1
<1>5. ASSUME NEW v \in ValuesIn(h, m) PROVE f[v] = g[v]
  <2>1. v \in m + 1 .. Len(h)
    BY <1>4 DEF Grown
  <2>2. /\ Len(h) - v \in Nat /\ Len(h) - v <= Len(h) /\ ~ (x <= Len(h) - v)
        /\ Len(h) - (Len(h) - v) = v
    BY <1>0, <1>3, <2>1
  <2>3. Len(h) - v \notin D
    BY <1>2, <2>2
  <2> QED
    BY <2>2, <2>3
<1> HIDE DEF m, D
<1>6. UNION {f[v] : v \in ValuesIn(h, m)} = UNION {g[v] : v \in ValuesIn(h, m)}
  BY <1>5
<1> QED
  BY <1>3, <1>4, <1>6 DEF DeletionUnfolded

LEMMA BelowIsHeld ==
  ASSUME Grown(heap), NEW r \in 0 .. Len(heap)
  PROVE  Below(r) = Held(heap, r)
<1> DEFINE f == CHOOSE t : Deletion(heap, t)
           g == [n \in 0 .. Len(heap) |-> Held(heap, n)]
<1>1. Deletion(heap, g)
  BY DeletionExists
<1>2. Deletion(heap, f)
  <2> HIDE DEF g
  <2> QED
    BY <1>1
<1>3. DeletionUnfolded(heap, f) /\ DeletionUnfolded(heap, g)
  <2> HIDE DEF f, g
  <2> QED
    BY <1>1, <1>2, DeletionUnfolds
<1>4. f[r] = g[r]
  <2> HIDE DEF f, g
  <2> QED
    BY <1>3, DeletionIsUnique
<1>5. r # NoValue
  BY NoValueAssumption
<1>6. Below(r) = f[r]
  BY <1>5 DEF Below, Deletion
<1> QED
  BY <1>4, <1>6

-----------------------------------------------------------------------------
(* The steps                                                               *)

LEMMA TopIsFrame ==
  ASSUME IInv, frames # << >>
  PROVE  /\ Top \in Frames
         /\ Top = frames[Len(frames)]
         /\ Len(frames) \in 1 .. Len(frames)
         /\ Top.state \in Keyless => Top.key = NoKey
BY DEF IInv, Types, KeylessHaveNone, Top, Last

LEMMA KeyTextsAreFinite ==
  ASSUME IInv
  PROVE  /\ IsFiniteSet(Keyed(frames))
         /\ keyTexts = Cardinality(Keyed(frames))
         /\ keyTexts \in Nat
BY KeyedFinite DEF IInv, Types, KeyTextsOwned

\* cleanup_frames, given frames that have as many keys as there are texts, frees all.
LEMMA GivingUp ==
  ASSUME IInv, NEW code, NEW fs \in Seq(Frames), NEW child, NEW held, NEW alive,
         held = Cardinality(Keyed(fs)), GiveUp(code, fs, child, held, alive)
  PROVE  IInv'
<1>1. held - Cardinality(Keyed(fs)) = 0
  BY KeyedFinite
<1>2. /\ frames' = << >> /\ pending' = NoValue /\ heap' = heap
      /\ keyTexts' = 0 /\ status' = "failed"
  BY <1>1 DEF GiveUp
<1>3. MaxDepth \in Nat /\ Len(<< >>) = 0
  BY BoundsAssumption
<1>4. DepthBounded'
  BY <1>2, <1>3 DEF DepthBounded
<1>5. KeyTextsOwned'
  BY <1>2, KeyedEmpty DEF KeyTextsOwned
<1>6. Types' /\ KeylessHaveNone'
  BY <1>2, <1>3 DEF IInv, Types, KeylessHaveNone
<1> QED
  BY <1>2, <1>4, <1>5, <1>6 DEF IInv

LEMMA Failing ==
  ASSUME IInv, NEW code, Fail(code)
  PROVE  IInv'
<1>1. frames \in Seq(Frames) /\ keyTexts = Cardinality(Keyed(frames))
  BY KeyTextsAreFinite DEF IInv, Types
<1> QED
  BY <1>1, GivingUp DEF Fail

\* The stack is as it was.
LEMMA SameFrames ==
  ASSUME IInv, UNCHANGED <<frames, keyTexts>>,
         heap' \in Seq(Nodes), pending' \in Nat \cup {NoValue},
         status' \in {"trailer", "ok", "failed"} => frames = << >>
  PROVE  IInv'
BY DEF IInv, Types, DepthBounded, KeyTextsOwned, KeylessHaveNone, Keyed

\* The frame on top goes on with this state and key.
LEMMA NewTop ==
  ASSUME IInv, frames # << >>, NEW state \in States, NEW key \in Strings \cup {NoKey},
         state \in Keyless => key = NoKey,
         frames' = TopTo(state, key), keyTexts' = Cardinality(Keyed(TopTo(state, key))),
         heap' \in Seq(Nodes), pending' \in Nat \cup {NoValue}, status' = "running"
  PROVE  IInv'
<1> DEFINE n == Len(frames)
<1>1. /\ frames' \in Seq(Frames)
      /\ n \in Nat \ {0} /\ Len(frames') = n
      /\ \A i \in 1 .. n - 1 : frames'[i] = frames[i]
      /\ frames'[n].state = state /\ frames'[n].key = key
  BY TopToKeeps
<1>2. Types' /\ DepthBounded' /\ KeyTextsOwned'
  BY <1>1 DEF IInv, Types, DepthBounded, KeyTextsOwned
<1>3. KeylessHaveNone'
  <2> SUFFICES ASSUME NEW i \in 1 .. n, frames'[i].state \in Keyless
               PROVE  frames'[i].key = NoKey
    BY <1>1 DEF KeylessHaveNone
  <2>1. CASE i = n
    BY <1>1, <2>1
  <2>2. CASE i # n
    BY <1>1, <2>2 DEF IInv, KeylessHaveNone
  <2> QED
    BY <2>1, <2>2
<1> QED
  BY <1>2, <1>3 DEF IInv

-----------------------------------------------------------------------------
(* The invariant                                                           *)

LEMMA InitIsFine == Init => IInv
<1> SUFFICES ASSUME Init PROVE IInv
  OBVIOUS
<1>1. frames = << >> /\ pending = NoValue /\ heap = << >> /\ keyTexts = 0 /\ status = "start"
  BY DEF Init
<1>2. MaxDepth \in Nat /\ Len(<< >>) = 0
  BY BoundsAssumption
<1>3. DepthBounded
  BY <1>1, <1>2 DEF DepthBounded
<1>4. KeyTextsOwned
  BY <1>1, KeyedEmpty DEF KeyTextsOwned
<1>5. Types /\ KeylessHaveNone
  BY <1>1, <1>2 DEF Types, KeylessHaveNone
<1> QED
  BY <1>1, <1>3, <1>4, <1>5 DEF IInv

LEMMA CloseIsFine == ASSUME IInv, Close PROVE IInv'
<1> DEFINE n == Len(frames)
<1>1. /\ frames # << >> /\ status = "running" /\ Top.key = NoKey /\ Top \in Frames
      /\ frames' = Front(frames) /\ pending' = Top.node
      /\ UNCHANGED <<heap, keyTexts, status>>
  BY TopIsFrame DEF Close, InState, Reading, Keyless
<1>2. frames \in Seq(Frames) /\ n \in Nat \ {0} /\ n <= MaxDepth /\ MaxDepth \in Nat
  BY <1>1, BoundsAssumption DEF IInv, Types, DepthBounded
<1>3. /\ frames' \in Seq(Frames)
      /\ Len(frames') = n - 1
      /\ \A i \in 1 .. n - 1 : frames'[i] = frames[i]
  BY <1>1, <1>2, FrontOf
<1>4. Keyed(Front(frames)) = Keyed(frames)
  BY <1>1, <1>2, KeyedPop DEF Top
<1>5. Cardinality(Keyed(frames')) = Cardinality(Keyed(frames))
  BY <1>1, <1>4, Zenon
<1>6. KeyTextsOwned'
  BY <1>1, <1>5, KeyTextsAreFinite DEF KeyTextsOwned
<1>7. Types' /\ DepthBounded'
  BY <1>1, <1>2, <1>3 DEF IInv, Types, DepthBounded, Frames
<1>8. KeylessHaveNone'
  BY <1>2, <1>3 DEF IInv, KeylessHaveNone
<1> QED
  BY <1>1, <1>6, <1>7, <1>8 DEF IInv

LEMMA CommaIsFine == ASSUME IInv, Comma PROVE IInv'
<1> DEFINE n == Len(frames)
           state == IF KindOfTop = "array" THEN "ExpectValue" ELSE "ExpectKey"
<1>1. /\ frames # << >> /\ status = "running" /\ Top.key = NoKey /\ Top = frames[n]
      /\ frames' = TopTo(state, NoKey)
      /\ UNCHANGED <<heap, pending, keyTexts, status>>
  BY TopIsFrame DEF Comma, InState, Reading, Keyless
<1>2. state \in States
  BY DEF States, Keyless
<1>3. n \notin Keyed(frames)
  BY <1>1 DEF Keyed
<1>4. Keyed(TopTo(state, NoKey)) = Keyed(frames) \ {n}
  BY <1>1, <1>2, TopToKeeps
<1>5. Keyed(TopTo(state, NoKey)) = Keyed(frames)
  BY <1>3, <1>4
<1>6. Cardinality(Keyed(TopTo(state, NoKey))) = Cardinality(Keyed(frames))
  BY <1>5, Zenon
<1>7. keyTexts' = Cardinality(Keyed(TopTo(state, NoKey)))
  BY <1>1, <1>6, KeyTextsAreFinite
<1>8. heap' \in Seq(Nodes) /\ pending' \in Nat \cup {NoValue} /\ status' = "running"
  BY <1>1 DEF IInv, Types
<1> HIDE DEF state
<1> QED
  BY <1>1, <1>2, <1>7, <1>8, NewTop

LEMMA KeyIsFine == ASSUME IInv, Key PROVE IInv'
<1> DEFINE n == Len(frames)
<1>1. /\ frames # << >> /\ status = "running" /\ Top.key = NoKey /\ Top = frames[n]
      /\ token \in Strings
  BY TopIsFrame DEF Key, InState, Reading, Keyless
<1>2. CASE \E code : Fail(code)
  BY <1>2, Failing
<1>3. CASE /\ frames' = TopTo("ExpectColon", token)
           /\ keyTexts' = keyTexts + 1
           /\ UNCHANGED <<pending, heap, status>>
  <2>1. token # NoKey /\ "ExpectColon" \in States \ Keyless
    BY <1>1, StringsAssumption DEF States, Keyless
  <2>2. n \notin Keyed(frames)
    BY <1>1 DEF Keyed
  <2>3. Keyed(TopTo("ExpectColon", token)) = Keyed(frames) \cup {n}
    BY <1>1, <2>1, TopToKeeps
  <2>4. Cardinality(Keyed(frames) \cup {n}) = Cardinality(Keyed(frames)) + 1
    BY <2>2, KeyTextsAreFinite, FS_AddElement
  <2>5. Cardinality(Keyed(TopTo("ExpectColon", token))) = Cardinality(Keyed(frames)) + 1
    BY <2>3, <2>4, Zenon
  <2>6. keyTexts' = Cardinality(Keyed(TopTo("ExpectColon", token)))
    BY <1>3, <2>5, KeyTextsAreFinite
  <2>7. heap' \in Seq(Nodes) /\ pending' \in Nat \cup {NoValue} /\ status' = "running"
    BY <1>1, <1>3 DEF IInv, Types
  <2> QED
    BY <1>1, <1>3, <2>1, <2>6, <2>7, NewTop
<1> QED
  BY <1>2, <1>3 DEF Key

LEMMA ColonIsFine == ASSUME IInv, Colon PROVE IInv'
<1> DEFINE n == Len(frames)
<1>1. /\ frames # << >> /\ status = "running" /\ Top = frames[n] /\ Top \in Frames
      /\ n \in Nat \ {0}
  BY TopIsFrame DEF Colon, InState, Reading
<1>2. CASE Fail(Syntax)
  BY <1>2, Failing
<1>3. CASE /\ frames' = TopTo("ExpectValue", Top.key)
           /\ UNCHANGED <<pending, heap, keyTexts, status>>
  <2> DEFINE key == Top.key
  <2>1. /\ key \in Strings \cup {NoKey}
        /\ "ExpectValue" \in States \ Keyless
    BY <1>1 DEF Frames, States, Keyless
  <2>2. n \in Keyed(frames) <=> key # NoKey
    BY <1>1 DEF Keyed
  <2> HIDE DEF key
  <2>3. Keyed(TopTo("ExpectValue", key)) =
          IF key = NoKey THEN Keyed(frames) \ {n} ELSE Keyed(frames) \cup {n}
    BY <1>1, <2>1, TopToKeeps
  <2>4. Keyed(TopTo("ExpectValue", key)) = Keyed(frames)
    BY <2>2, <2>3
  <2>5. Cardinality(Keyed(TopTo("ExpectValue", key))) = Cardinality(Keyed(frames))
    BY <2>4, Zenon
  <2>6. keyTexts' = Cardinality(Keyed(TopTo("ExpectValue", key)))
    BY <1>3, <2>5, KeyTextsAreFinite
  <2>7. heap' \in Seq(Nodes) /\ pending' \in Nat \cup {NoValue} /\ status' = "running"
    BY <1>1, <1>3 DEF IInv, Types
  <2> QED
    BY <1>1, <1>3, <2>1, <2>6, <2>7, NewTop DEF key
<1> QED
  BY <1>2, <1>3 DEF Colon

LEMMA PushIsFine == ASSUME IInv, PushScalar \/ PushLiteral \/ PushContainer PROVE IInv'
<1>1. status = "running"
  BY DEF PushScalar, PushLiteral, PushContainer, ExpectsValue, InState, Reading
<1>2. CASE \E code : Fail(code)
  BY <1>2, Failing
<1>3. CASE PushScalar /\ ~ \E code : Fail(code)
  <2>1. /\ Node(token) \in Nodes /\ Make(Node(token)) /\ pending' = Fresh
        /\ UNCHANGED <<frames, keyTexts, status>>
    BY <1>3, NodeIsTyped DEF PushScalar
  <2>2. heap' \in Seq(Nodes) /\ pending' \in Nat
    BY <2>1, MadeIsTyped
  <2> QED
    BY <1>1, <2>1, <2>2, SameFrames
<1>4. CASE PushLiteral
  <2>1. pending' \in Nat /\ UNCHANGED <<frames, heap, keyTexts, status>>
    BY <1>4 DEF PushLiteral, Literal
  <2>2. heap' \in Seq(Nodes)
    BY <2>1 DEF IInv, Types
  <2> QED
    BY <1>1, <2>1, <2>2, SameFrames
<1>5. CASE PushContainer /\ ~ \E code : Fail(code)
  <2> DEFINE n == Len(frames)
             new(kind) == [node |-> Fresh, key |-> NoKey,
                           state |-> IF kind = "array" THEN "ExpectFirstValueOrEnd"
                                     ELSE "ExpectFirstKeyOrEnd"]
  <2>1. PICK kind \in {"array", "object"} :
          /\ Make(Node(kind)) /\ n < MaxDepth
          /\ frames' = Append(frames, new(kind))
          /\ UNCHANGED <<pending, keyTexts, status>>
    BY <1>5 DEF PushContainer, MayNest
  <2>2. heap' \in Seq(Nodes) /\ Fresh \in Nat
    BY <2>1, NodeIsTyped, MadeIsTyped
  <2> DEFINE f == new(kind)
  <2>3. f \in Frames /\ f.key = NoKey
    BY <2>2 DEF Frames, States, Keyless
  <2> HIDE DEF f
  <2>4. frames \in Seq(Frames) /\ MaxDepth \in Nat /\ frames' = Append(frames, f)
    BY <2>1, BoundsAssumption DEF IInv, Types, f
  <2>5. /\ frames' \in Seq(Frames) /\ n \in Nat /\ Len(frames') = n + 1
        /\ \A i \in 1 .. n : frames'[i] = frames[i]
        /\ frames'[n + 1] = f
    BY <2>3, <2>4
  <2>6. Keyed(frames') = Keyed(frames)
    BY <2>3, <2>4, KeyedPush
  <2>7. Cardinality(Keyed(frames')) = Cardinality(Keyed(frames))
    BY <2>6, Zenon
  <2>8. KeyTextsOwned'
    BY <2>1, <2>7, KeyTextsAreFinite DEF KeyTextsOwned
  <2>9. Types' /\ DepthBounded'
    BY <2>1, <2>2, <2>4, <2>5 DEF IInv, Types, DepthBounded
  <2>10. KeylessHaveNone'
    BY <2>3, <2>5 DEF IInv, KeylessHaveNone
  <2> QED
    BY <1>1, <2>1, <2>8, <2>9, <2>10 DEF IInv
<1> QED
  BY <1>2, <1>3, <1>4, <1>5

\* The value goes into the container, and the text of its key is freed.
LEMMA AttachIsFine == ASSUME IInv, Attach PROVE IInv'
<1> DEFINE n == Len(frames)
           t == TopTo("ExpectCommaOrEnd", NoKey)
           put == Put(heap[Top.node].items, Top.key, pending)
<1>1. /\ frames # << >> /\ status = "running" /\ pending # NoValue
      /\ frames' = t /\ keyTexts' = KeyTextsLeft /\ pending' = NoValue /\ status' = "running"
      /\ heap' = [heap EXCEPT ![Top.node].items = put]
  BY DEF Attach
<1>2. "ExpectCommaOrEnd" \in States
  BY DEF States, Keyless
<1>3. Keyed(t) = Keyed(frames) \ {n}
  BY <1>1, <1>2, TopToKeeps
<1>4. Cardinality(Keyed(t)) = Cardinality(Keyed(frames) \ {n})
  BY <1>3, Zenon
<1>5. keyTexts' = Cardinality(Keyed(t))
  BY <1>1, <1>4, OneLess
<1>6. heap' \in Seq(Nodes)
  <2>1. heap \in Seq(Nodes) /\ pending \in Nat /\ Top.key \in Strings \cup {NoKey}
    BY <1>1, TopIsFrame DEF IInv, Types, Frames
  <2>2. CASE Top.node \notin DOMAIN heap
    <3> DEFINE r == Top.node
    <3>1. heap' = [heap EXCEPT ![r] = put]
      BY <1>1, <2>2
    <3>2. heap = [i \in DOMAIN heap |-> heap[i]] /\ r \notin DOMAIN heap
      BY <2>1, <2>2
    <3> HIDE DEF r, put
    <3>3. heap' = heap
      BY <3>1, <3>2
    <3> QED
      BY <2>1, <3>3
  <2>3. CASE Top.node \in DOMAIN heap
    <3>1. heap[Top.node] \in Nodes
      BY <2>1, <2>3
    <3>2. put \in Seq(Items)
      BY <2>1, <3>1, PutIsTyped DEF Nodes
    <3> HIDE DEF put
    <3>3. [heap[Top.node] EXCEPT !.items = put] \in Nodes
      BY <3>1, <3>2 DEF Nodes
    <3> DEFINE node == [heap[Top.node] EXCEPT !.items = put]
    <3>4. heap' = [heap EXCEPT ![Top.node] = node]
      BY <1>1
    <3> HIDE DEF node
    <3> QED
      BY <2>1, <2>3, <3>3, <3>4 DEF node
  <2> QED
    BY <2>2, <2>3
<1> HIDE DEF t
<1> QED
  BY <1>1, <1>2, <1>5, <1>6, NewTop DEF t

\* The text of the key is freed before the other frames are cleaned up.
LEMMA AttachFailsIsFine == ASSUME IInv, AttachFails PROVE IInv'
<1> DEFINE n == Len(frames)
           t == TopTo(Top.state, NoKey)
<1>1. /\ frames # << >>
      /\ GiveUp("out_of_memory", t, pending, KeyTextsLeft, live \ Below(pending))
  BY DEF AttachFails
<1>2. Top.state \in States
  BY <1>1, TopIsFrame DEF Frames
<1>3. t \in Seq(Frames) /\ Keyed(t) = Keyed(frames) \ {n}
  BY <1>1, <1>2, TopToKeeps
<1>4. Cardinality(Keyed(t)) = Cardinality(Keyed(frames) \ {n})
  BY <1>3, Zenon
<1>5. KeyTextsLeft = Cardinality(Keyed(t))
  BY <1>1, <1>4, OneLess
<1> HIDE DEF t
<1> QED
  BY <1>1, <1>3, <1>5, GivingUp

LEMMA CheckEndIsFine == ASSUME IInv, CheckEnd PROVE IInv'
<1>1. frames = << >> /\ << >> \in Seq(Frames)
  BY DEF CheckEnd, IInv
<1>2. CASE GiveUp("end_of_input_expected", << >>, pending, keyTexts, live)
  <2>1. keyTexts = Cardinality(Keyed(<< >>))
    BY <1>1, KeyTextsAreFinite
  <2> QED
    BY <1>1, <1>2, <2>1, GivingUp
<1>3. CASE UNCHANGED <<frames, pending, heap, keyTexts>>
  BY <1>1, <1>3, SameFrames DEF IInv, Types
<1> QED
  BY <1>2, <1>3 DEF CheckEnd

LEMMA StepIsFine == IInv /\ [Next]_vars => IInv'
<1> SUFFICES ASSUME IInv, [Next]_vars PROVE IInv'
  OBVIOUS
<1>1. heap \in Seq(Nodes) /\ pending \in Nat \cup {NoValue}
  BY DEF IInv, Types
<1>2. CASE Start
  BY <1>1, <1>2, SameFrames DEF Start
<1>3. CASE CheckRoot
  <2>1. CASE Fail(Syntax)
    BY <2>1, Failing
  <2>2. CASE ~ Fail(Syntax)
    BY <1>1, <1>3, <2>2, SameFrames DEF CheckRoot
  <2> QED
    BY <2>1, <2>2
<1>4. CASE NoCommaOrEnd \/ NoKeyHere \/ PushUnexpected
  BY <1>4, Failing DEF NoCommaOrEnd, NoKeyHere, PushUnexpected
<1>5. CASE Complete
  BY <1>1, <1>5, SameFrames DEF Complete
<1>6. CASE UNCHANGED vars
  BY <1>1, <1>6, SameFrames DEF vars, IInv
<1> QED
  BY <1>2, <1>3, <1>4, <1>5, <1>6, CloseIsFine, CommaIsFine, KeyIsFine, ColonIsFine,
     PushIsFine, AttachIsFine, AttachFailsIsFine, CheckEndIsFine DEF Next

LEMMA Inductive == Spec => []IInv
<1> QED
  BY InitIsFine, StepIsFine, PTL DEF Spec

-----------------------------------------------------------------------------
(* Who owns the values                                                     *)

KeysDiffer(items) ==
  \A i, j \in 1 .. Len(items) : items[i].key = items[j].key /\ items[i].key # NoKey => i = j

Made ==
  /\ Grown(heap)
  /\ live \subseteq 1 .. Len(heap)
  /\ \A n \in 1 .. Len(heap) : KeysDiffer(heap[n].items)

\* A frame's value was made after those of the frames below it, and the value that
\* is complete after all of them.
Rising ==
  /\ \A i \in 1 .. Len(frames) : frames[i].node \in live
  /\ \A i, j \in 1 .. Len(frames) : i < j => frames[i].node < frames[j].node
  /\ pending \notin {NoValue, Literal} =>
       pending \in live /\ \A i \in 1 .. Len(frames) : frames[i].node < pending

\* What is in a container is not freed, and nowhere else.
ItemsLive ==
  \A n \in live : \A j \in 1 .. Len(heap[n].items) :
    heap[n].items[j].value # Literal =>
      /\ heap[n].items[j].value \in live
      /\ heap[n].items[j].value # pending
      /\ \A i \in 1 .. Len(frames) : frames[i].node # heap[n].items[j].value

InOnePlace ==
  \A n, m \in live : \A i \in 1 .. Len(heap[n].items), j \in 1 .. Len(heap[m].items) :
    heap[n].items[i].value = heap[m].items[j].value /\ heap[n].items[i].value # Literal =>
      n = m /\ i = j

IsItem(r) == \E n \in live : \E j \in 1 .. Len(heap[n].items) : heap[n].items[j].value = r

NoneLost ==
  \A r \in live : (\E i \in 1 .. Len(frames) : frames[i].node = r) \/ pending = r \/ IsItem(r)

Idle == status \in {"start", "root", "failed"} => frames = << >> /\ pending = NoValue

OwnInv == Made /\ Rising /\ ItemsLive /\ InOnePlace /\ NoneLost /\ Idle

LEMMA HeapTypes ==
  ASSUME Grown(heap), NEW n \in 1 .. Len(heap)
  PROVE  /\ heap[n] \in Nodes
         /\ heap[n].items \in Seq(Items)
         /\ \A j \in 1 .. Len(heap[n].items) :
              /\ heap[n].items[j] \in Items
              /\ heap[n].items[j].value # Literal => heap[n].items[j].value \in n + 1 .. Len(heap)
<1>1. heap[n] \in Nodes
  BY DEF Grown
<1>2. heap[n].items \in Seq(Items)
  BY <1>1 DEF Nodes
<1>3. ASSUME NEW j \in 1 .. Len(heap[n].items), heap[n].items[j].value # Literal
      PROVE  heap[n].items[j].value \in n + 1 .. Len(heap)
  BY <1>3 DEF Grown, ValuesIn
<1> QED
  BY <1>1, <1>2, <1>3

LEMMA LiveHoldsAll == OwnInv => HoldsAll(heap, live)
  BY DEF OwnInv, ItemsLive, HoldsAll, ValuesIn

\* What the deletion of a value frees.
LEMMA DeletesHeld ==
  ASSUME OwnInv, NEW r \in live \cup {Literal}
  PROVE  /\ Below(r) \subseteq live
         /\ r # Literal => r \in Below(r)
         /\ HoldsAll(heap, Below(r))
         /\ \A m \in Below(r) : m # r => \E n \in Below(r) : m \in ValuesIn(heap, n)
<1>1. Grown(heap) /\ live \in SUBSET (1 .. Len(heap)) /\ Len(heap) \in Nat
  BY DEF OwnInv, Made, Grown
<1>2. r \in 0 .. Len(heap)
  BY <1>1 DEF Literal
<1>3. Below(r) = Held(heap, r)
  BY <1>1, <1>2, BelowIsHeld
<1>4. {r} \ {Literal} \subseteq live /\ HoldsAll(heap, live)
  BY LiveHoldsAll
<1>5. Held(heap, r) \subseteq live
  BY <1>1, <1>4, HeldIsLeast
<1>6. {r} \ {Literal} \subseteq Held(heap, r) /\ HoldsAll(heap, Held(heap, r))
  BY <1>1, <1>2, HeldHoldsAll
<1>7. \A m \in Held(heap, r) : m # r => \E n \in Held(heap, r) : m \in ValuesIn(heap, n)
  BY <1>1, <1>2, HeldByMember
<1> QED
  BY <1>3, <1>5, <1>6, <1>7

\* cleanup_frames releases everything, be the frames' states and keys what they are.
LEMMA CleanupFreesAll ==
  ASSUME IInv, OwnInv, NEW fs \in Seq(Frames), Len(fs) = Len(frames),
         \A i \in 1 .. Len(frames) : fs[i].node = frames[i].node
  PROVE  ReleasedBy(fs, pending) = live
<1> DEFINE R == ReleasedBy(fs, pending)
<1>1. /\ Len(frames) \in Nat /\ ToSet(fs) = {fs[i] : i \in 1 .. Len(frames)}
      /\ \A i \in 1 .. Len(frames) : frames[i].node \in live
  BY DEF IInv, Types, ToSet, OwnInv, Rising
<1>2. \A x : x \in R <=> \/ x \in Below(pending)
                         \/ \E i \in 1 .. Len(frames) : x \in Below(frames[i].node)
  BY <1>1 DEF ReleasedBy
<1>3. pending \in live \cup {Literal, NoValue}
  BY DEF OwnInv, Rising
<1>4. Below(NoValue) = {}
  BY DEF Below
<1> HIDE DEF R
<1>5. R \subseteq live
  BY <1>1, <1>2, <1>3, <1>4, DeletesHeld
<1>6. ASSUME live \ R # {} PROVE FALSE
  <2>1. live \ R \in SUBSET Nat
    BY DEF OwnInv, Made
  <2>2. PICK r \in live \ R : \A y \in live \ R : r <= y
    BY <1>6, <2>1, LeastNumber
  <2>3. r \in 1 .. Len(heap) /\ r # Literal
    BY DEF OwnInv, Made, Literal
  <2>4. CASE \E i \in 1 .. Len(frames) : frames[i].node = r
    BY <1>1, <1>2, <2>3, <2>4, DeletesHeld
  <2>5. CASE pending = r
    BY <1>2, <2>3, <2>5, DeletesHeld
  <2>6. CASE IsItem(r)
    <3>1. PICK n \in live : \E j \in 1 .. Len(heap[n].items) : heap[n].items[j].value = r
      BY <2>6 DEF IsItem
    <3>2. PICK j \in 1 .. Len(heap[n].items) : heap[n].items[j].value = r
      BY <3>1
    <3>3. n \in 1 .. Len(heap) /\ r \in n + 1 .. Len(heap) /\ r \in ValuesIn(heap, n)
      BY <2>3, <3>2, HeapTypes DEF OwnInv, Made, ValuesIn
    <3>4. n \in R
      BY <2>2, <3>3
    <3>5. r \in R
      <4>1. CASE n \in Below(pending)
        BY <1>2, <1>3, <1>4, <3>3, <4>1, DeletesHeld DEF HoldsAll
      <4>2. ASSUME NEW i \in 1 .. Len(frames), n \in Below(frames[i].node) PROVE r \in R
        BY <1>1, <1>2, <3>3, <4>2, DeletesHeld DEF HoldsAll
      <4> QED
        BY <1>2, <3>4, <4>1, <4>2
    <3> QED
      BY <3>5
  <2> QED
    BY <2>4, <2>5, <2>6 DEF OwnInv, NoneLost
<1> QED
  BY <1>5, <1>6 DEF R

\* The values stay where they are.
LEMMA StayOwned ==
  ASSUME OwnInv, Len(frames') = Len(frames),
         \A i \in 1 .. Len(frames) : frames'[i].node = frames[i].node,
         UNCHANGED <<pending, heap, live>>, Idle'
  PROVE  OwnInv'
<1>1. Made'
  BY DEF OwnInv, Made
<1>2. Rising'
  BY DEF OwnInv, Rising
<1>3. ItemsLive' /\ InOnePlace'
  BY DEF OwnInv, ItemsLive, InOnePlace
<1>4. NoneLost'
  BY DEF OwnInv, NoneLost, IsItem
<1> QED
  BY <1>1, <1>2, <1>3, <1>4 DEF OwnInv

LEMMA GivingUpOwns ==
  ASSUME IInv, OwnInv, NEW code, NEW fs \in Seq(Frames), NEW held, NEW alive \in SUBSET live,
         Len(fs) = Len(frames), \A i \in 1 .. Len(frames) : fs[i].node = frames[i].node,
         GiveUp(code, fs, pending, held, alive)
  PROVE  OwnInv'
<1>1. live' = {}
  BY CleanupFreesAll DEF GiveUp
<1>2. frames' = << >> /\ pending' = NoValue /\ UNCHANGED heap
  BY DEF GiveUp
<1> QED
  BY <1>1, <1>2
  DEF OwnInv, Made, Rising, ItemsLive, InOnePlace, NoneLost, Idle

LEMMA FailingOwns ==
  ASSUME IInv, OwnInv, pending = NoValue, NEW code, Fail(code)
  PROVE  OwnInv'
<1>1. frames \in Seq(Frames) /\ live \in SUBSET live
  BY DEF IInv, Types
<1> QED
  BY <1>1, GivingUpOwns DEF Fail

LEMMA CloseOwns == ASSUME IInv, OwnInv, Close PROVE OwnInv'
<1> DEFINE n == Len(frames)
<1>1. /\ frames # << >> /\ status = "running" /\ pending = NoValue
      /\ frames' = Front(frames) /\ pending' = Top.node
      /\ UNCHANGED <<heap, live, status>>
  BY DEF Close, InState, Reading
<1>2. /\ frames \in Seq(Frames) /\ n \in Nat \ {0} /\ Top = frames[n]
      /\ Len(frames') = n - 1
      /\ \A i \in 1 .. n - 1 : frames'[i] = frames[i]
  BY <1>1, FrontOf DEF IInv, Types, Top
<1>3. pending' = frames[n].node /\ pending' \in live
  BY <1>1, <1>2 DEF OwnInv, Rising
<1>4. Rising'
  BY <1>1, <1>2, <1>3 DEF OwnInv, Rising
<1>5. ItemsLive' /\ InOnePlace'
  BY <1>1, <1>2, <1>3 DEF OwnInv, ItemsLive, InOnePlace
<1>6. NoneLost'
  <2> SUFFICES ASSUME NEW r \in live, ~ IsItem(r), pending' # r
               PROVE  \E i \in 1 .. Len(frames') : frames'[i].node = r
    BY <1>1 DEF NoneLost, IsItem
  <2>1. r \in 1 .. Len(heap) /\ r # NoValue
    BY NoValueAssumption DEF OwnInv, Made
  <2>2. PICK i \in 1 .. n : frames[i].node = r
    BY <1>1, <2>1 DEF OwnInv, NoneLost
  <2>3. i \in 1 .. n - 1
    BY <1>2, <1>3, <2>2
  <2> QED
    BY <1>2, <2>2, <2>3
<1>7. Made' /\ Idle'
  BY <1>1 DEF OwnInv, Made, Idle
<1> QED
  BY <1>4, <1>5, <1>6, <1>7 DEF OwnInv

\* A value is made, with nothing in it.
LEMMA MakeAdds ==
  ASSUME IInv, OwnInv, NEW kind \in Strings \cup Numbers \cup {"array", "object"}, Make(Node(kind))
  PROVE  /\ Len(heap) \in Nat /\ Fresh = Len(heap) + 1 /\ Len(heap') = Fresh
         /\ live' = live \cup {Fresh}
         /\ \A n \in 1 .. Len(heap) : heap'[n] = heap[n]
         /\ heap'[Fresh].items = << >>
         /\ Made'
<1> DEFINE node == Node(kind)
<1>1. /\ node \in Nodes /\ node.items = << >> /\ heap \in Seq(Nodes)
      /\ heap' = Append(heap, node) /\ live' = live \cup {Fresh}
  BY NodeIsTyped DEF Node, Make, IInv, Types
<1> HIDE DEF node
<1>2. /\ Len(heap) \in Nat /\ Fresh = Len(heap) + 1 /\ Len(heap') = Fresh
      /\ heap' \in Seq(Nodes)
      /\ \A n \in 1 .. Len(heap) : heap'[n] = heap[n]
      /\ heap'[Fresh] = node
  BY <1>1 DEF Fresh
<1>3. \A n \in 1 .. Len(heap') : n \in 1 .. Len(heap) \/ n = Fresh
  BY <1>2
<1>4. Len(heap'[Fresh].items) = 0
  BY <1>1, <1>2
<1>5. Grown(heap')
  <2> SUFFICES ASSUME NEW n \in 1 .. Len(heap'), NEW v \in ValuesIn(heap', n)
               PROVE  v \in n + 1 .. Len(heap')
    BY <1>2 DEF Grown
  <2>1. n \in 1 .. Len(heap)
    BY <1>3, <1>4 DEF ValuesIn
  <2>2. v \in ValuesIn(heap, n)
    BY <1>2, <2>1 DEF ValuesIn
  <2>3. v \in n + 1 .. Len(heap)
    BY <2>1, <2>2 DEF OwnInv, Made, Grown
  <2> QED
    BY <1>2, <2>3
<1>6. \A n \in 1 .. Len(heap') : KeysDiffer(heap'[n].items)
  BY <1>2, <1>3, <1>4 DEF OwnInv, Made, KeysDiffer
<1>7. live' \subseteq 1 .. Len(heap')
  <2>1. live \subseteq 1 .. Len(heap)
    BY DEF OwnInv, Made
  <2>2. 1 .. Len(heap) \subseteq 1 .. Len(heap') /\ Fresh \in 1 .. Len(heap')
    BY <1>2
  <2>3. live' = live \cup {Fresh}
    BY <1>1
  <2> QED
    BY <2>1, <2>2, <2>3
<1> QED
  BY <1>1, <1>2, <1>5, <1>6, <1>7 DEF Made

\* It becomes the pending value, or that of a new frame.
LEMMA MadeIsOwned ==
  ASSUME IInv, OwnInv, pending = NoValue, status' = "running",
         NEW kind \in Strings \cup Numbers \cup {"array", "object"}, Make(Node(kind)),
         \/ pending' = Fresh /\ UNCHANGED frames
         \/ /\ UNCHANGED pending
            /\ \E f \in Frames : f.node = Fresh /\ frames' = Append(frames, f)
  PROVE  OwnInv'
<1> DEFINE n == Len(frames)
<1>1. /\ Len(heap) \in Nat /\ Fresh = Len(heap) + 1 /\ Len(heap') = Fresh
      /\ live' = live \cup {Fresh}
      /\ \A k \in 1 .. Len(heap) : heap'[k] = heap[k]
      /\ Len(heap'[Fresh].items) = 0
      /\ Made'
  BY MakeAdds
<1>2. /\ frames \in Seq(Frames) /\ n \in Nat
      /\ live \subseteq 1 .. Len(heap) /\ Fresh \notin live
      /\ \A i \in 1 .. n : frames[i].node \in live /\ frames[i].node < Fresh
      /\ Fresh # NoValue /\ Fresh # Literal
  <2>1. live \subseteq 1 .. Len(heap) /\ \A i \in 1 .. n : frames[i].node \in live
    BY DEF OwnInv, Made, Rising
  <2>2. \A k \in 1 .. Len(heap) : k < Fresh
    BY <1>1
  <2>3. Fresh \in Nat /\ Fresh # 0 /\ Fresh \notin 1 .. Len(heap)
    BY <1>1
  <2>4. frames \in Seq(Frames) /\ n \in Nat
    BY DEF IInv, Types
  <2>5. Fresh # NoValue
    BY <2>3, NoValueAssumption
  <2> HIDE DEF n
  <2> QED
    BY <2>1, <2>2, <2>3, <2>4, <2>5 DEF Literal
<1>3. \/ pending' = Fresh /\ Len(frames') = n /\ \A i \in 1 .. n : frames'[i] = frames[i]
      \/ /\ pending' = NoValue /\ Len(frames') = n + 1 /\ frames'[n + 1].node = Fresh
         /\ \A i \in 1 .. n : frames'[i] = frames[i]
  BY <1>2
<1>4. \A i \in 1 .. Len(frames') : i \in 1 .. n \/ (i = n + 1 /\ frames'[i].node = Fresh)
  BY <1>2, <1>3
<1>5. Rising'
  <2>1. \A i \in 1 .. Len(frames') : frames'[i].node \in live'
    BY <1>1, <1>2, <1>3, <1>4
  <2>2. \A i, j \in 1 .. Len(frames') : i < j => frames'[i].node < frames'[j].node
    <3> SUFFICES ASSUME NEW i \in 1 .. Len(frames'), NEW j \in 1 .. Len(frames'), i < j
                 PROVE  frames'[i].node < frames'[j].node
      OBVIOUS
    <3>1. i \in 1 .. n
      BY <1>2, <1>3, <1>4
    <3>2. CASE j \in 1 .. n
      BY <1>3, <3>1, <3>2 DEF OwnInv, Rising
    <3>3. CASE j \notin 1 .. n
      BY <1>2, <1>3, <1>4, <3>1, <3>3
    <3> QED
      BY <3>2, <3>3
  <2>3. pending' \notin {NoValue, Literal} =>
          pending' \in live' /\ \A i \in 1 .. Len(frames') : frames'[i].node < pending'
    BY <1>1, <1>2, <1>3
  <2> QED
    BY <2>1, <2>2, <2>3 DEF Rising
<1>6. \A k \in live' : \A j \in 1 .. Len(heap'[k].items) :
        /\ k \in live /\ j \in 1 .. Len(heap[k].items) /\ heap'[k].items[j] = heap[k].items[j]
  BY <1>1, <1>2
<1>7. ItemsLive'
  <2> SUFFICES ASSUME NEW k \in live', NEW j \in 1 .. Len(heap'[k].items),
                      heap'[k].items[j].value # Literal
               PROVE  /\ heap'[k].items[j].value \in live'
                      /\ heap'[k].items[j].value # pending'
                      /\ \A i \in 1 .. Len(frames') : frames'[i].node # heap'[k].items[j].value
    BY DEF ItemsLive
  <2> DEFINE v == heap'[k].items[j].value
  <2>1. /\ v = heap[k].items[j].value /\ v \in live
        /\ \A i \in 1 .. n : frames[i].node # v
    BY <1>6 DEF OwnInv, ItemsLive
  <2> HIDE DEF v
  <2>2. v # Fresh /\ v # NoValue
    BY SMTT(20), <1>2, <2>1, NoValueAssumption
  <2>3. v \in live' /\ v # pending' /\ \A i \in 1 .. Len(frames') : frames'[i].node # v
    BY <1>1, <1>3, <1>4, <2>1, <2>2
  <2> QED
    BY <2>3 DEF v
<1>8. InOnePlace'
  <2> SUFFICES ASSUME NEW k \in live', NEW m \in live', NEW i \in 1 .. Len(heap'[k].items),
                      NEW j \in 1 .. Len(heap'[m].items),
                      heap'[k].items[i].value = heap'[m].items[j].value,
                      heap'[k].items[i].value # Literal
               PROVE  k = m /\ i = j
    BY DEF InOnePlace
  <2>1. /\ k \in live /\ i \in 1 .. Len(heap[k].items) /\ heap'[k].items[i] = heap[k].items[i]
        /\ m \in live /\ j \in 1 .. Len(heap[m].items) /\ heap'[m].items[j] = heap[m].items[j]
    BY <1>6
  <2> QED
    BY SMTT(20), <2>1 DEF OwnInv, InOnePlace
<1>9. NoneLost'
  <2> SUFFICES ASSUME NEW r \in live'
               PROVE  (\E i \in 1 .. Len(frames') : frames'[i].node = r) \/ pending' = r \/ IsItem(r)'
    BY DEF NoneLost, IsItem
  <2>1. CASE r = Fresh
    BY <1>2, <1>3, <2>1
  <2>2. CASE r \in live
    <3>1. r # NoValue
      BY <1>2, <2>2, NoValueAssumption
    <3>2. (\E i \in 1 .. n : frames[i].node = r) \/ IsItem(r)
      BY <2>2, <3>1 DEF OwnInv, NoneLost
    <3>3. CASE \E i \in 1 .. n : frames[i].node = r
      BY <1>2, <1>3, <3>3
    <3>4. CASE IsItem(r)
      <4>1. PICK k \in live : \E j \in 1 .. Len(heap[k].items) : heap[k].items[j].value = r
        BY <3>4 DEF IsItem
      <4>2. k \in live' /\ heap'[k] = heap[k]
        BY <1>1, <1>2, <4>1
      <4> QED
        BY <4>1, <4>2 DEF IsItem
    <3> QED
      BY <3>2, <3>3, <3>4
  <2> QED
    BY <1>1, <2>1, <2>2
<1> QED
  BY <1>1, <1>5, <1>7, <1>8, <1>9 DEF OwnInv, Idle

\* Put changes one place, the one behind the last or the one that is present.
LEMMA PutShape ==
  ASSUME NEW items \in Seq(Items), KeysDiffer(items), NEW key \in Strings \cup {NoKey}, NEW r \in Nat
  PROVE  \E k \in 1 .. Len(items) + 1 :
           /\ Len(Put(items, key, r)) = IF k <= Len(items) THEN Len(items) ELSE Len(items) + 1
           /\ \A j \in 1 .. Len(items) : j # k => Put(items, key, r)[j] = items[j]
           /\ Put(items, key, r)[k].value = r
           /\ Present(items, key) = IF k <= Len(items) THEN {k} ELSE {}
           /\ KeysDiffer(Put(items, key, r))
<1> DEFINE n == Len(items)
           put == Put(items, key, r)
<1>1. /\ n \in Nat /\ DOMAIN items = 1 .. n
      /\ \A j \in 1 .. n : items[j] \in Items
  OBVIOUS
<1>2. CASE Present(items, key) = {}
  <2> DEFINE new == [key |-> key, value |-> r]
  <2>1. put = Append(items, new) /\ new.key = key /\ new.value = r
    BY <1>2 DEF Put
  <2> HIDE DEF put, new
  <2>2. /\ Len(put) = n + 1
        /\ \A j \in 1 .. n : put[j] = items[j]
        /\ put[n + 1] = new
    BY <1>1, <2>1
  <2>3. \A j \in 1 .. n : key = NoKey \/ items[j].key # key
    BY <1>1, <1>2 DEF Present
  <2>4. KeysDiffer(put)
    <3> SUFFICES ASSUME NEW i \in 1 .. n + 1, NEW j \in 1 .. n + 1,
                        put[i].key = put[j].key, put[i].key # NoKey
                 PROVE  i = j
      BY <2>2 DEF KeysDiffer
    <3>1. (i \in 1 .. n \/ i = n + 1) /\ (j \in 1 .. n \/ j = n + 1)
      BY <1>1
    <3>2. CASE i \in 1 .. n /\ j \in 1 .. n
      BY <2>2, <3>2 DEF KeysDiffer
    <3>3. CASE i = n + 1 \/ j = n + 1
      BY <2>1, <2>2, <2>3, <3>1, <3>3
    <3> QED
      BY <3>1, <3>2, <3>3
  <2>5. n + 1 \in 1 .. n + 1 /\ ~ (n + 1 <= n)
    BY <1>1
  <2>6. \A j \in 1 .. n : j # n + 1
    BY <1>1
  <2> HIDE DEF n
  <2> QED
    BY <1>2, <2>1, <2>2, <2>4, <2>5, <2>6 DEF put, n
<1>3. CASE Present(items, key) # {}
  <2>1. PICK k \in 1 .. n : items[k].key = key /\ key # NoKey
    BY <1>1, <1>3 DEF Present
  <2>2. Present(items, key) = {k}
    BY <1>1, <2>1 DEF Present, KeysDiffer
  <2>3. put = [i \in 1 .. n |-> IF i = k THEN [items[i] EXCEPT !.value = r] ELSE items[i]]
    BY <1>1, <1>3, <2>2 DEF Put
  <2> HIDE DEF put
  <2>4. /\ Len(put) = n
        /\ \A j \in 1 .. n : j # k => put[j] = items[j]
        /\ put[k] = [items[k] EXCEPT !.value = r]
    BY <1>1, <2>3
  <2>5. put[k].value = r /\ put[k].key = items[k].key
    BY <1>1, <2>4 DEF Items
  <2>6. \A j \in 1 .. n : put[j].key = items[j].key
    BY <2>4, <2>5
  <2>7. KeysDiffer(put)
    BY <2>4, <2>6 DEF KeysDiffer
  <2>8. k \in 1 .. n + 1 /\ k <= n
    BY <1>1
  <2> HIDE DEF n
  <2> QED
    BY <2>2, <2>4, <2>5, <2>7, <2>8 DEF put, n
<1> QED
  BY <1>2, <1>3

LEMMA AttachOwns == ASSUME IInv, OwnInv, Attach PROVE OwnInv'
<1> DEFINE n == Len(frames)
           T == Top.node
           items == heap[T].items
           put == Put(items, Top.key, pending)
           R == UNION {Below(items[i].value) : i \in Present(items, Top.key)}
<1>1. /\ frames # << >> /\ status = "running" /\ status' = "running"
      /\ pending # NoValue /\ pending' = NoValue
      /\ frames' = TopTo("ExpectCommaOrEnd", NoKey)
      /\ heap' = [heap EXCEPT ![T].items = put]
      /\ live' = live \ R
  BY DEF Attach
<1>2. /\ frames \in Seq(Frames) /\ heap \in Seq(Nodes) /\ pending \in Nat
      /\ n \in Nat \ {0} /\ Top = frames[n] /\ Top \in Frames
      /\ live \subseteq 1 .. Len(heap)
  BY <1>1, TopIsFrame DEF IInv, Types, OwnInv, Made
<1>3. T \in live /\ T \in 1 .. Len(heap)
  <2>1. n \in 1 .. n
    BY <1>2
  <2>2. frames[n].node \in live
    BY <2>1 DEF OwnInv, Rising
  <2> QED
    BY <1>2, <2>2
<1>4. /\ heap[T] \in Nodes /\ items \in Seq(Items) /\ KeysDiffer(items)
  BY <1>3, HeapTypes DEF OwnInv, Made
<1>5. PICK k \in 1 .. Len(items) + 1 :
        /\ Len(put) = IF k <= Len(items) THEN Len(items) ELSE Len(items) + 1
        /\ \A j \in 1 .. Len(items) : j # k => put[j] = items[j]
        /\ put[k].value = pending
        /\ Present(items, Top.key) = IF k <= Len(items) THEN {k} ELSE {}
        /\ KeysDiffer(put)
  <2>1. Top.key \in Strings \cup {NoKey}
    BY <1>2 DEF Frames
  <2> HIDE DEF items
  <2> QED
    BY <1>2, <1>4, <2>1, PutShape
<1>6. put \in Seq(Items)
  <2>1. Top.key \in Strings \cup {NoKey}
    BY <1>2 DEF Frames
  <2> QED
    BY <1>2, <1>4, <2>1, PutIsTyped
<1> HIDE DEF put
<1>7. /\ Len(heap') = Len(heap) /\ heap' \in Seq(Nodes)
      /\ \A m \in 1 .. Len(heap) : m # T => heap'[m] = heap[m]
      /\ heap'[T].items = put
  <2> DEFINE node == [heap[T] EXCEPT !.items = put]
  <2>1. node \in Nodes /\ node.items = put
    BY <1>4, <1>6 DEF Nodes
  <2>2. heap' = [heap EXCEPT ![T] = node]
    BY <1>1
  <2> HIDE DEF node
  <2> QED
    BY <1>2, <1>3, <2>1, <2>2
\* The places of the values: one is new, and the others are as they were.
<1>8. \A m \in live : \A j \in 1 .. Len(heap'[m].items) :
        \/ m = T /\ j = k /\ heap'[m].items[j].value = pending
        \/ /\ ~ (m = T /\ j = k)
           /\ j \in 1 .. Len(heap[m].items) /\ heap'[m].items[j] = heap[m].items[j]
  <2> SUFFICES ASSUME NEW m \in live, NEW j \in 1 .. Len(heap'[m].items)
               PROVE  \/ m = T /\ j = k /\ heap'[m].items[j].value = pending
                      \/ /\ ~ (m = T /\ j = k)
                         /\ j \in 1 .. Len(heap[m].items) /\ heap'[m].items[j] = heap[m].items[j]
    OBVIOUS
  <2>1. CASE m # T
    <3>1. heap'[m] = heap[m]
      BY <1>2, <1>7, <2>1
    <3> QED
      BY <2>1, <3>1
  <2>2. CASE m = T
    <3>1. j \in 1 .. Len(put) /\ heap'[m].items = put
      BY <1>7, <2>2
    <3>2. CASE j = k
      BY <1>5, <2>2, <3>1, <3>2
    <3>3. CASE j # k
      <4>1. j \in 1 .. Len(items)
        <5>1. Len(items) \in Nat
          BY <1>4
        <5> HIDE DEF items
        <5> QED
          BY <1>5, <3>1, <3>3, <5>1
      <4> QED
        BY <1>5, <2>2, <3>1, <3>3, <4>1
    <3> QED
      BY <3>2, <3>3
  <2> QED
    BY <2>1, <2>2
<1>9. \A m \in live : \A j \in 1 .. Len(heap[m].items) :
        ~ (m = T /\ j = k) => j \in 1 .. Len(heap'[m].items) /\ heap'[m].items[j] = heap[m].items[j]
  <2> SUFFICES ASSUME NEW m \in live, NEW j \in 1 .. Len(heap[m].items), ~ (m = T /\ j = k)
               PROVE  j \in 1 .. Len(heap'[m].items) /\ heap'[m].items[j] = heap[m].items[j]
    OBVIOUS
  <2>1. CASE m # T
    <3>1. heap'[m] = heap[m]
      BY <1>2, <1>7, <2>1
    <3> QED
      BY <3>1
  <2>2. CASE m = T
    <3>1. j \in 1 .. Len(items) /\ j # k /\ heap'[m].items = put /\ Len(items) \in Nat
      BY <1>4, <1>7, <2>2
    <3>2. j \in 1 .. Len(put)
      <4> HIDE DEF items
      <4> QED
        BY <1>5, <3>1
    <3> QED
      BY <1>5, <2>2, <3>1, <3>2
  <2> QED
    BY <2>1, <2>2
<1>10. k \in 1 .. Len(heap'[T].items) /\ heap'[T].items[k].value = pending
  <2>1. Len(items) \in Nat
    BY <1>4
  <2> HIDE DEF items
  <2> QED
    BY <1>5, <1>7, <2>1
\* What is freed: the value that was in the place, if one was, with all it holds.
<1>11. /\ R \subseteq live
       /\ \A m \in R : ValuesIn(heap, m) \subseteq R
       /\ \A m \in R : m # Literal /\ (\/ k \in 1 .. Len(items) /\ m = items[k].value
                                       \/ \E p \in R : m \in ValuesIn(heap, p))
       /\ k \in 1 .. Len(items) /\ items[k].value # Literal => items[k].value \in R
  <2>0. Len(items) \in Nat
    BY <1>4
  <2>1. CASE k <= Len(items)
    <3> DEFINE old == items[k].value
    <3>1. R = Below(old)
      BY <1>5, <2>1
    <3>2. k \in 1 .. Len(items)
      <4> HIDE DEF items
      <4> QED
        BY <2>0, <2>1
    <3>3. old \in live \cup {Literal}
      BY <1>3, <3>2 DEF OwnInv, ItemsLive
    <3> HIDE DEF R, old
    <3>4. /\ Below(old) \subseteq live
          /\ old # Literal => old \in Below(old)
          /\ HoldsAll(heap, Below(old))
          /\ \A m \in Below(old) : m # old => \E p \in Below(old) : m \in ValuesIn(heap, p)
      BY <3>3, DeletesHeld
    <3>5. \A m \in live : m # Literal
      BY <1>2 DEF Literal
    <3> QED
      BY <3>1, <3>2, <3>4, <3>5 DEF HoldsAll, old
  <2>2. CASE ~ (k <= Len(items))
    <3>1. R = {}
      BY <1>5, <2>2
    <3>2. k \notin 1 .. Len(items)
      <4> HIDE DEF items
      <4> QED
        BY <2>0, <2>2
    <3> QED
      BY <3>1, <3>2
  <2> QED
    BY <2>1, <2>2
<1> HIDE DEF R
\* Each value freed was in a container: in this place or in one that is freed too.
<1>12. \A v \in R : \E m \in live : \E j \in 1 .. Len(heap[m].items) :
         heap[m].items[j].value = v /\ (m \in R \/ (m = T /\ j = k))
  <2> SUFFICES ASSUME NEW v \in R
               PROVE  \E m \in live : \E j \in 1 .. Len(heap[m].items) :
                        heap[m].items[j].value = v /\ (m \in R \/ (m = T /\ j = k))
    OBVIOUS
  <2>1. CASE k \in 1 .. Len(items) /\ v = items[k].value
    BY <1>3, <2>1
  <2>2. CASE \E p \in R : v \in ValuesIn(heap, p)
    BY <1>11, <2>2 DEF ValuesIn
  <2> QED
    BY <1>11, <2>1, <2>2
<1>13. /\ \A i \in 1 .. n : frames[i].node \notin R
       /\ pending \notin R
  <2>1. ASSUME NEW v \in R PROVE v # pending /\ \A i \in 1 .. n : frames[i].node # v
    <3>1. v # Literal
      BY <1>11
    <3>2. PICK m \in live : \E j \in 1 .. Len(heap[m].items) : heap[m].items[j].value = v
      BY <1>12
    <3>3. PICK j \in 1 .. Len(heap[m].items) : heap[m].items[j].value = v
      BY <3>2
    <3> QED
      BY <3>1, <3>3 DEF OwnInv, ItemsLive
  <2> QED
    BY <2>1
<1>14. T \notin R
  BY <1>2, <1>13
<1>15. ASSUME NEW m \in live \ R, NEW j \in 1 .. Len(heap[m].items), ~ (m = T /\ j = k),
              heap[m].items[j].value # Literal
       PROVE  heap[m].items[j].value \in live \ R
  <2>1. heap[m].items[j].value \in live
    BY <1>15 DEF OwnInv, ItemsLive
  <2>2. ASSUME heap[m].items[j].value \in R PROVE FALSE
    <3>1. PICK p \in live : \E i \in 1 .. Len(heap[p].items) :
            heap[p].items[i].value = heap[m].items[j].value /\ (p \in R \/ (p = T /\ i = k))
      BY <1>12, <2>2
    <3>2. PICK i \in 1 .. Len(heap[p].items) :
            heap[p].items[i].value = heap[m].items[j].value /\ (p \in R \/ (p = T /\ i = k))
      BY <3>1
    <3>3. p = m /\ i = j
      BY <1>15, <3>2 DEF OwnInv, InOnePlace
    <3> QED
      BY <1>15, <3>2, <3>3
  <2> QED
    BY <2>1, <2>2
<1>16. /\ Len(frames') = n
       /\ \A i \in 1 .. n : frames'[i].node = frames[i].node
  <2>1. "ExpectCommaOrEnd" \in States
    BY DEF States, Keyless
  <2>2. frames' = [frames EXCEPT ![n].state = "ExpectCommaOrEnd", ![n].key = NoKey]
    BY <1>1 DEF TopTo
  <2>3. frames[n] \in Frames
    BY <1>2
  <2> QED
    BY <1>2, <2>1, <2>2, <2>3 DEF Frames
<1>17. Made'
  <2>1. \A m \in 1 .. Len(heap') : ValuesIn(heap', m) \subseteq m + 1 .. Len(heap')
    <3> SUFFICES ASSUME NEW m \in 1 .. Len(heap), NEW v \in ValuesIn(heap', m)
                 PROVE  v \in m + 1 .. Len(heap)
      BY <1>7
    <3>1. CASE m # T
      <4>1. v \in ValuesIn(heap, m)
        BY <1>7, <3>1 DEF ValuesIn
      <4> QED
        BY <4>1 DEF OwnInv, Made, Grown
    <3>2. CASE m = T
      <4>1. PICK j \in 1 .. Len(heap'[m].items) : heap'[m].items[j].value = v /\ v # Literal
        BY DEF ValuesIn
      <4>2. CASE j = k /\ v = pending
        <5>1. pending \in live /\ frames[n].node < pending
          BY <1>1, <1>2, <4>1, <4>2 DEF OwnInv, Rising
        <5>2. pending \in 1 .. Len(heap) /\ m < pending
          BY <1>2, <3>2, <5>1
        <5> QED
          BY <4>2, <5>2
      <4>3. CASE j \in 1 .. Len(heap[m].items) /\ heap'[m].items[j] = heap[m].items[j]
        <5>1. v \in ValuesIn(heap, m)
          BY <4>1, <4>3 DEF ValuesIn
        <5> QED
          BY <5>1 DEF OwnInv, Made, Grown
      <4> QED
        BY <1>3, <1>8, <3>2, <4>1, <4>2, <4>3
    <3> QED
      BY <3>1, <3>2
  <2>2. \A m \in 1 .. Len(heap') : KeysDiffer(heap'[m].items)
    BY <1>5, <1>7 DEF OwnInv, Made
  <2>3. live' \subseteq 1 .. Len(heap')
    BY <1>1, <1>2, <1>7
  <2> QED
    BY <1>7, <2>1, <2>2, <2>3 DEF Made, Grown
<1>18. Rising'
  BY <1>1, <1>13, <1>16 DEF OwnInv, Rising
<1>19. ItemsLive'
  <2> SUFFICES ASSUME NEW m \in live \ R, NEW j \in 1 .. Len(heap'[m].items),
                      heap'[m].items[j].value # Literal
               PROVE  /\ heap'[m].items[j].value \in live \ R
                      /\ heap'[m].items[j].value # NoValue
                      /\ \A i \in 1 .. n : frames[i].node # heap'[m].items[j].value
    BY <1>1, <1>16 DEF ItemsLive
  <2>1. CASE heap'[m].items[j].value = pending
    <3>1. pending \in live /\ \A i \in 1 .. n : frames[i].node < pending /\ frames[i].node \in Nat
      BY <1>1, <1>2, <2>1 DEF OwnInv, Rising
    <3>2. \A i \in 1 .. n : frames[i].node # pending
      BY <1>2, <3>1
    <3> QED
      BY <1>1, <1>13, <2>1, <3>1, <3>2
  <2>2. CASE /\ ~ (m = T /\ j = k) /\ j \in 1 .. Len(heap[m].items)
             /\ heap'[m].items[j] = heap[m].items[j]
    <3>1. heap[m].items[j].value \in live \ R
      BY <1>15, <2>2
    <3>2. \A i \in 1 .. n : frames[i].node # heap[m].items[j].value
      BY <2>2 DEF OwnInv, ItemsLive
    <3>3. heap[m].items[j].value # NoValue
      BY <1>2, <3>1, NoValueAssumption
    <3> QED
      BY <2>2, <3>1, <3>2, <3>3
  <2> QED
    BY <1>8, <2>1, <2>2
<1>20. InOnePlace'
  <2> SUFFICES ASSUME NEW m \in live, NEW p \in live, NEW i \in 1 .. Len(heap'[m].items),
                      NEW j \in 1 .. Len(heap'[p].items),
                      heap'[m].items[i].value = heap'[p].items[j].value,
                      heap'[m].items[i].value # Literal
               PROVE  m = p /\ i = j
    <3>1. live' \subseteq live
      BY <1>1
    <3> HIDE DEF T, items, n
    <3> QED
      BY <3>1 DEF InOnePlace
  <2>1. CASE m = T /\ i = k
    <3>1. heap'[m].items[i].value = pending
      BY <1>10, <2>1
    <3>2. CASE p = T /\ j = k
      BY <2>1, <3>2
    <3>3. CASE ~ (p = T /\ j = k)
      <4>1. j \in 1 .. Len(heap[p].items) /\ heap'[p].items[j] = heap[p].items[j]
        BY <1>8, <3>3
      <4> QED
        BY <3>1, <4>1 DEF OwnInv, ItemsLive
    <3> QED
      BY <3>2, <3>3
  <2>2. CASE ~ (m = T /\ i = k)
    <3>1. i \in 1 .. Len(heap[m].items) /\ heap'[m].items[i] = heap[m].items[i]
      BY <1>8, <2>2
    <3>2. CASE p = T /\ j = k
      <4>1. heap'[p].items[j].value = pending
        BY <1>10, <3>2
      <4> QED
        BY <3>1, <4>1 DEF OwnInv, ItemsLive
    <3>3. CASE ~ (p = T /\ j = k)
      <4>1. j \in 1 .. Len(heap[p].items) /\ heap'[p].items[j] = heap[p].items[j]
        BY <1>8, <3>3
      <4> QED
        BY <3>1, <4>1 DEF OwnInv, InOnePlace
    <3> QED
      BY <3>2, <3>3
  <2> QED
    BY <2>1, <2>2
<1>21. NoneLost'
  <2> SUFFICES ASSUME NEW r \in live \ R
               PROVE  \/ \E i \in 1 .. n : frames[i].node = r
                      \/ \E m \in live \ R : \E j \in 1 .. Len(heap'[m].items) : heap'[m].items[j].value = r
    BY <1>1, <1>16 DEF NoneLost, IsItem
  <2>1. CASE pending = r
    BY <1>3, <1>10, <1>14, <2>1
  <2>2. CASE IsItem(r)
    <3>1. PICK m \in live : \E j \in 1 .. Len(heap[m].items) : heap[m].items[j].value = r
      BY <2>2 DEF IsItem
    <3>2. PICK j \in 1 .. Len(heap[m].items) : heap[m].items[j].value = r
      BY <3>1
    <3>3. r # Literal
      BY <1>2 DEF Literal
    <3>4. m \notin R
      BY <1>11, <3>2, <3>3 DEF ValuesIn
    <3>5. ~ (m = T /\ j = k)
      BY <1>11, <3>2, <3>3
    <3> QED
      BY <1>9, <3>2, <3>4, <3>5
  <2> QED
    BY <2>1, <2>2 DEF OwnInv, NoneLost
<1> QED
  BY <1>1, <1>17, <1>18, <1>19, <1>20, <1>21 DEF OwnInv, Idle

LEMMA InitOwns == Init => OwnInv
<1> SUFFICES ASSUME Init PROVE OwnInv
  OBVIOUS
<1>1. frames = << >> /\ pending = NoValue /\ heap = << >> /\ live = {}
  BY DEF Init
<1>2. << >> \in Seq(Nodes) /\ Len(<< >>) = 0
  OBVIOUS
<1>3. Made
  BY <1>1, <1>2 DEF Made, Grown
<1>4. Rising /\ ItemsLive /\ InOnePlace /\ NoneLost /\ Idle
  BY <1>1, <1>2 DEF Rising, ItemsLive, InOnePlace, NoneLost, Idle
<1> QED
  BY <1>3, <1>4 DEF OwnInv

\* The frame on top changes its state and key only.
LEMMA TopToOwns ==
  ASSUME IInv, OwnInv, frames # << >>, NEW state \in States, NEW key \in Strings \cup {NoKey},
         frames' = TopTo(state, key), UNCHANGED <<pending, heap, live, status>>, status = "running"
  PROVE  OwnInv'
<1>1. frames \in Seq(Frames) /\ Len(frames) \in Nat \ {0} /\ frames[Len(frames)] \in Frames
  BY DEF IInv, Types
<1>2. frames' = [frames EXCEPT ![Len(frames)].state = state, ![Len(frames)].key = key]
  BY DEF TopTo
<1>3. Len(frames') = Len(frames) /\ \A i \in 1 .. Len(frames) : frames'[i].node = frames[i].node
  BY <1>1, <1>2 DEF Frames
<1> QED
  BY <1>3, StayOwned DEF Idle

LEMMA OwnStep == IInv /\ OwnInv /\ [Next]_vars => OwnInv'
<1> SUFFICES ASSUME IInv, OwnInv, [Next]_vars PROVE OwnInv'
  OBVIOUS
<1>1. CASE Start
  BY <1>1, StayOwned DEF Start, OwnInv, Idle
<1>2. CASE CheckRoot
  <2>1. pending = NoValue
    BY <1>2 DEF CheckRoot, OwnInv, Idle
  <2>2. CASE Fail(Syntax)
    BY <2>1, <2>2, FailingOwns
  <2>3. CASE status' = "running" /\ UNCHANGED <<frames, pending, heap, live>>
    BY <2>3, StayOwned DEF Idle
  <2> QED
    BY <1>2, <2>2, <2>3 DEF CheckRoot
<1>3. CASE Close
  BY <1>3, CloseOwns
<1>4. CASE Comma
  <2> DEFINE state == IF KindOfTop = "array" THEN "ExpectValue" ELSE "ExpectKey"
  <2>1. /\ frames # << >> /\ status = "running" /\ frames' = TopTo(state, NoKey)
        /\ UNCHANGED <<heap, pending, live, status>>
    BY <1>4 DEF Comma, InState, Reading
  <2>2. state \in States
    BY DEF States, Keyless
  <2> HIDE DEF state
  <2> QED
    BY <2>1, <2>2, TopToOwns
<1>5. CASE NoCommaOrEnd \/ NoKeyHere \/ PushUnexpected
  BY <1>5, FailingOwns
  DEF NoCommaOrEnd, NoKeyHere, PushUnexpected, ExpectsValue, InState, Reading
<1>6. CASE Key
  <2>1. frames # << >> /\ status = "running" /\ pending = NoValue /\ token \in Strings
    BY <1>6 DEF Key, InState, Reading
  <2>2. CASE \E code : Fail(code)
    BY <2>1, <2>2, FailingOwns
  <2>3. CASE frames' = TopTo("ExpectColon", token) /\ UNCHANGED <<pending, heap, live, status>>
    <3>1. "ExpectColon" \in States
      BY DEF States
    <3> QED
      BY <2>1, <2>3, <3>1, TopToOwns
  <2> QED
    BY <1>6, <2>2, <2>3 DEF Key
<1>7. CASE Colon
  <2>1. frames # << >> /\ status = "running" /\ pending = NoValue
    BY <1>7 DEF Colon, InState, Reading
  <2>2. CASE Fail(Syntax)
    BY <2>1, <2>2, FailingOwns
  <2>3. CASE frames' = TopTo("ExpectValue", Top.key) /\ UNCHANGED <<pending, heap, live, status>>
    <3>1. "ExpectValue" \in States /\ Top.key \in Strings \cup {NoKey}
      BY <2>1, TopIsFrame DEF States, Frames
    <3> QED
      BY <2>1, <2>3, <3>1, TopToOwns
  <2> QED
    BY <1>7, <2>2, <2>3 DEF Colon
<1>8. CASE PushScalar \/ PushLiteral \/ PushContainer
  <2>1. status = "running" /\ pending = NoValue
    BY <1>8 DEF PushScalar, PushLiteral, PushContainer, ExpectsValue, InState, Reading
  <2>2. CASE \E code : Fail(code)
    BY <2>1, <2>2, FailingOwns
  <2>3. CASE PushScalar /\ ~ \E code : Fail(code)
    <3>1. /\ token \in Strings \cup Numbers /\ Make(Node(token)) /\ pending' = Fresh
          /\ UNCHANGED <<frames, status>>
      BY <2>3 DEF PushScalar
    <3> QED
      BY <2>1, <3>1, MadeIsOwned
  <2>4. CASE PushLiteral
    <3>1. pending' = Literal /\ UNCHANGED <<frames, heap, live, status>>
      BY <2>4 DEF PushLiteral
    <3>2. \A r \in live : r # Literal /\ r # NoValue
      BY NoValueAssumption DEF OwnInv, Made, Literal
    <3>3. Rising' /\ Made' /\ Idle' /\ InOnePlace'
      <4>1. Rising'
        BY <3>1 DEF OwnInv, Rising
      <4>2. Made'
        BY <3>1 DEF OwnInv, Made
      <4>3. InOnePlace'
        BY <3>1 DEF OwnInv, InOnePlace
      <4>4. Idle'
        BY <2>1, <3>1 DEF Idle
      <4> QED
        BY <4>1, <4>2, <4>3, <4>4
    <3>4. ItemsLive' /\ NoneLost'
      BY <2>1, <3>1, <3>2 DEF OwnInv, ItemsLive, NoneLost, IsItem
    <3> QED
      BY <3>3, <3>4 DEF OwnInv
  <2>5. CASE PushContainer /\ ~ \E code : Fail(code)
    <3> DEFINE new(kind) == [node |-> Fresh, key |-> NoKey,
                             state |-> IF kind = "array" THEN "ExpectFirstValueOrEnd"
                                       ELSE "ExpectFirstKeyOrEnd"]
    <3>1. PICK kind \in {"array", "object"} :
            /\ Make(Node(kind))
            /\ frames' = Append(frames, new(kind))
            /\ UNCHANGED <<pending, status>>
      BY <2>5 DEF PushContainer
    <3>2. Fresh \in Nat
      BY DEF IInv, Types, Fresh
    <3>3. new(kind) \in Frames /\ new(kind).node = Fresh
      BY <3>2 DEF Frames, States, Keyless
    <3> HIDE DEF new
    <3> QED
      BY <2>1, <3>1, <3>3, MadeIsOwned
  <2> QED
    BY <1>8, <2>2, <2>3, <2>4, <2>5
<1>9. CASE Attach
  BY <1>9, AttachOwns
<1>10. CASE AttachFails
  <2> DEFINE t == TopTo(Top.state, NoKey)
  <2>1. /\ frames # << >> /\ pending \in Nat
        /\ GiveUp("out_of_memory", t, pending, KeyTextsLeft, live \ Below(pending))
    BY <1>10 DEF AttachFails, IInv, Types
  <2>2. Top.state \in States /\ frames \in Seq(Frames) /\ Len(frames) \in Nat \ {0}
        /\ frames[Len(frames)] \in Frames
    BY <2>1, TopIsFrame DEF Frames, IInv, Types
  <2>3. /\ t \in Seq(Frames) /\ Len(t) = Len(frames)
        /\ \A i \in 1 .. Len(frames) : t[i].node = frames[i].node
    <3>1. t \in Seq(Frames) /\ Len(t) = Len(frames)
      BY <2>1, <2>2, TopToKeeps
    <3>2. \A i \in 1 .. Len(frames) : t[i].node = frames[i].node
      BY <2>2 DEF TopTo, Frames
    <3> QED
      BY <3>1, <3>2
  <2>4. live \ Below(pending) \in SUBSET live
    OBVIOUS
  <2> HIDE DEF t
  <2> QED
    BY <2>1, <2>3, <2>4, GivingUpOwns
<1>11. CASE Complete
  BY <1>11, StayOwned DEF Complete, Idle
<1>12. CASE CheckEnd
  <2>1. CASE UNCHANGED <<frames, pending, heap, live>> /\ status' = "ok"
    BY <2>1, StayOwned DEF Idle
  <2>2. CASE GiveUp("end_of_input_expected", << >>, pending, keyTexts, live)
    <3>1. frames = << >> /\ << >> \in Seq(Frames) /\ live \in SUBSET live
      BY <1>12 DEF CheckEnd, IInv
    <3> QED
      BY <2>2, <3>1, GivingUpOwns
  <2> QED
    BY <1>12, <2>1, <2>2 DEF CheckEnd
<1>13. CASE UNCHANGED vars
  BY <1>13, StayOwned DEF vars, OwnInv, Idle
<1> QED
  BY <1>1, <1>2, <1>3, <1>4, <1>5, <1>6, <1>7, <1>8, <1>9, <1>10, <1>11, <1>12, <1>13
  DEF Next

-----------------------------------------------------------------------------
(* The other variables                                                     *)

Codes == {"none", "lexical", "syntax", "premature_end", "stack_overflow", "null_character",
          "null_byte_in_key", "duplicate_key", "end_of_input_expected", "out_of_memory"}

Ambient ==
  /\ flags \in FlagSets
  /\ input \in Seq(Tokens)
  /\ overreleased \in BOOLEAN
  /\ err \in Codes
  /\ status \in {"start", "root", "running", "trailer", "ok", "failed"}

LEMMA ScanIsTyped ==
  ASSUME Ambient, Scan
  PROVE  input' \in Seq(Tokens) /\ err' \in Codes
<1>1. NextTokens \subseteq Tokens
  BY DEF NextTokens, Tokens, Junk
<1> QED
  BY <1>1 DEF Ambient, Scan, Reported, Codes

LEMMA GivingUpIsTyped ==
  ASSUME Ambient, NEW code \in Codes, NEW fs, NEW child, NEW held, NEW alive,
         GiveUp(code, fs, child, held, alive)
  PROVE  Ambient'
  BY DEF Ambient, GiveUp, Reported

LEMMA InitIsTyped == Init => Ambient
<1> SUFFICES ASSUME Init PROVE Ambient
  OBVIOUS
<1>1. input \in Seq(Tokens)
  BY DEF Init
<1>2. overreleased \in BOOLEAN
  BY Zenon DEF Init
<1> QED
  BY <1>1, <1>2 DEF Init, Ambient, Codes

LEMMA AmbientStep == Ambient /\ [Next]_vars => Ambient'
<1> SUFFICES ASSUME Ambient, [Next]_vars PROVE Ambient'
  OBVIOUS
<1>1. \A code \in Codes : Fail(code) => Ambient'
  BY GivingUpIsTyped DEF Fail
<1>2. Syntax \in Codes
  BY DEF Syntax, Codes
<1>3. CASE Start \/ Comma \/ Attach \/ Complete
  BY <1>3, ScanIsTyped DEF Start, Comma, Attach, Complete, Ambient
<1>4. CASE CheckRoot \/ NoCommaOrEnd \/ NoKeyHere \/ PushUnexpected \/ Colon
  BY <1>1, <1>2, <1>4, ScanIsTyped
  DEF CheckRoot, NoCommaOrEnd, NoKeyHere, PushUnexpected, Colon, Ambient
<1>5. CASE Close \/ PushLiteral
  BY <1>5 DEF Close, PushLiteral, Ambient
<1>6. CASE Key
  BY <1>1, <1>6, ScanIsTyped DEF Key, Ambient, Codes
<1>7. CASE PushScalar \/ PushContainer
  BY <1>1, <1>7, ScanIsTyped DEF PushScalar, PushContainer, Ambient, Codes
<1>8. CASE AttachFails
  BY <1>8, GivingUpIsTyped DEF AttachFails, Codes
<1>9. CASE CheckEnd
  BY <1>9, GivingUpIsTyped DEF CheckEnd, Codes, Ambient
<1>10. CASE UNCHANGED vars
  BY <1>10 DEF vars, Ambient
<1> QED
  BY <1>3, <1>4, <1>5, <1>6, <1>7, <1>8, <1>9, <1>10 DEF Next

-----------------------------------------------------------------------------
(* The first error, and what it is about                                   *)

BadTokens == {"broken", "number_before_bad_byte"}

\* The tokens in front of the last one.
Behind == ToSet(Front(input))

\* Every key was a token, which is not the last one any more.
KeysRead ==
  /\ \A i \in 1 .. Len(frames) : frames[i].key \in Behind \cup {NoKey}
  /\ \A n \in 1 .. Len(heap) : \A j \in 1 .. Len(heap[n].items) :
       heap[n].items[j].key \in Behind \cup {NoKey}

\* Until parse_json gives up, only the lexer has reported anything.
OnlyLexical ==
  /\ err = "lexical" <=> ToSet(input) \cap BadTokens # {}
  /\ status # "failed" => err \in {"none", "lexical"}

Causes ==
  /\ KeysRead
  /\ OnlyLexical
  /\ status = "start" <=> input = << >>
  /\ FirstErrorStays

LEMMA ReadsOn ==
  ASSUME Ambient, Scan
  PROVE  /\ input' # << >>
         /\ Behind' = ToSet(input)
         /\ Behind \subseteq Behind'
         /\ input # << >> => token \in Behind'
<1> DEFINE n == Len(input)
<1>1. input \in Seq(Tokens) /\ n \in Nat
  BY DEF Ambient
<1>2. PICK t \in NextTokens : input' = Append(input, t)
  BY DEF Scan
<1>3. t \in Tokens
  BY DEF NextTokens, Tokens, Junk
<1>4. input' # << >> /\ Front(input') = input
  BY <1>1, <1>2, <1>3 DEF Front
<1>5. Behind' = ToSet(input)
  BY <1>4 DEF Behind
<1>6. Behind \subseteq ToSet(input)
  <2>1. CASE n = 0
    BY <1>1, <2>1 DEF Behind, ToSet, Front
  <2>2. CASE n > 0
    <3>1. /\ n - 1 \in Int /\ 1 .. n - 1 \subseteq 1 .. n
          /\ \A i \in 1 .. n - 1 : input[i] \in Tokens
      BY <1>1, <2>2
    <3>2. /\ DOMAIN Front(input) = 1 .. n - 1
          /\ \A i \in 1 .. n - 1 : Front(input)[i] = input[i]
      BY <1>1, <3>1, SubSeqProperties DEF Front
    <3> QED
      BY <1>1, <3>1, <3>2 DEF Behind, ToSet
  <2> QED
    BY <1>1, <2>1, <2>2
<1>7. input # << >> => token \in ToSet(input)
  BY <1>1 DEF ToSet, Last, token
<1> QED
  BY <1>4, <1>5, <1>6, <1>7

LEMMA ReadsLexical ==
  ASSUME Ambient, OnlyLexical, status # "failed", Scan
  PROVE  /\ err' = "lexical" <=> ToSet(input') \cap BadTokens # {}
         /\ err' \in {"none", "lexical"}
<1>1. input \in Seq(Tokens)
  BY DEF Ambient
<1>2. PICK t \in NextTokens :
        /\ input' = Append(input, t)
        /\ err' = IF t \in BadTokens THEN Reported("lexical") ELSE err
  BY DEF Scan, BadTokens
<1>3. t \in Tokens
  BY DEF NextTokens, Tokens, Junk
<1>4. ToSet(input') = ToSet(input) \cup {t}
  <2> DEFINE n == Len(input)
  <2>1. /\ n \in Nat /\ DOMAIN input = 1 .. n /\ DOMAIN input' = 1 .. n + 1
        /\ \A i \in 1 .. n : input'[i] = input[i]
        /\ input'[n + 1] = t
    BY <1>1, <1>2, <1>3
  <2> QED
    BY <2>1 DEF ToSet
<1>5. err \in {"none", "lexical"}
  BY DEF OnlyLexical
<1>6. CASE t \in BadTokens
  BY <1>2, <1>4, <1>5, <1>6 DEF Reported
<1>7. CASE t \notin BadTokens
  BY <1>2, <1>4, <1>7, <1>5 DEF OnlyLexical
<1> QED
  BY <1>6, <1>7

\* A turn that reads a token, and keeps the keys or takes one of what was read.
LEMMA ReadingNames ==
  ASSUME Ambient, Causes, status \in {"start", "root", "running", "trailer"}, Scan,
         status' \in {"root", "running", "trailer"}, KeysRead'
  PROVE  Causes'
<1>1. status # "failed" /\ status' # "failed"
  OBVIOUS
<1>2. OnlyLexical'
  BY <1>1, ReadsLexical DEF Causes, OnlyLexical
<1> QED
  BY <1>1, <1>2, ReadsOn DEF Causes, FirstErrorStays

\* A turn that reads none.
LEMMA StayingNames ==
  ASSUME Causes, UNCHANGED <<input, err>>, status # "start", status # "failed",
         status' # "start", status' # "failed", KeysRead'
  PROVE  Causes'
  BY DEF Causes, OnlyLexical, FirstErrorStays

\* The end, with the first error.
LEMMA GivingUpNames ==
  ASSUME IInv, Causes, status \notin {"start", "failed"},
         NEW code \in Codes \ {"none", "lexical"},
         code = "premature_end" => token \in {"eof", "nul"},
         code = "null_character" => token \in NulStrings,
         code = "duplicate_key" => token \in Behind,
         NEW fs, NEW child, NEW held, NEW alive, GiveUp(code, fs, child, held, alive)
  PROVE  Causes'
<1>1. /\ status' = "failed" /\ frames' = << >> /\ heap' = heap /\ input' = input
      /\ err' = Reported(code)
  BY DEF GiveUp
<1>2. KeysRead'
  BY <1>1 DEF Causes, KeysRead, Behind
<1>3. CASE err = "none"
  <2>1. err' = code
    BY <1>1, <1>3 DEF Reported
  <2>2. ToSet(input) \cap BadTokens = {}
    BY <1>3 DEF Causes, OnlyLexical
  <2>3. token' = token /\ Behind' = Behind /\ ToSet(input') = ToSet(input)
    BY <1>1 DEF token, Behind
  <2>4. FirstErrorStays'
    BY <2>1, <2>2, <2>3 DEF FirstErrorStays, BadTokens, Behind
  <2> QED
    BY <1>1, <1>2, <1>3, <2>1, <2>4 DEF Causes, OnlyLexical
<1>4. CASE err = "lexical"
  <2>1. err' = err
    BY <1>1, <1>4 DEF Reported
  <2>2. FirstErrorStays'
    BY <1>1, <1>4, <2>1 DEF FirstErrorStays, Causes, OnlyLexical, BadTokens
  <2> QED
    BY <1>1, <1>2, <1>4, <2>1, <2>2 DEF Causes, OnlyLexical
<1> QED
  BY <1>3, <1>4 DEF Causes, OnlyLexical

LEMMA FailingNames ==
  ASSUME IInv, Causes, status \notin {"start", "failed"},
         NEW code \in Codes \ {"none", "lexical"},
         code = "premature_end" => token \in {"eof", "nul"},
         code = "null_character" => token \in NulStrings,
         code = "duplicate_key" => token \in Behind,
         Fail(code)
  PROVE  Causes'
  BY GivingUpNames DEF Fail

LEMMA SyntaxNames ==
  ASSUME IInv, Causes, status \notin {"start", "failed"}, Fail(Syntax)
  PROVE  Causes'
<1>1. /\ Syntax \in Codes \ {"none", "lexical", "null_character", "duplicate_key"}
      /\ Syntax = "premature_end" => token \in {"eof", "nul"}
  BY DEF Syntax, Codes
<1>2. PICK code : code = Syntax
  OBVIOUS
<1> QED
  BY <1>1, <1>2, FailingNames

\* A new state for the frame on top, with no key, its own or one that was read.
LEMMA NewTopRead ==
  ASSUME IInv, KeysRead, Behind \subseteq Behind', frames # << >>, UNCHANGED heap,
         NEW state \in States, NEW key \in Strings \cup {NoKey}, key \in Behind' \cup {NoKey},
         frames' = TopTo(state, key)
  PROVE  KeysRead'
<1> DEFINE n == Len(frames)
<1>1. /\ n \in Nat \ {0} /\ Len(frames') = n
      /\ \A i \in 1 .. n - 1 : frames'[i] = frames[i]
      /\ frames'[n].key = key
  BY TopToKeeps
<1>2. ASSUME NEW i \in 1 .. Len(frames') PROVE frames'[i].key \in Behind' \cup {NoKey}
  <2>1. CASE i = n
    BY <1>1, <2>1
  <2>2. CASE i # n
    <3>1. i \in 1 .. n - 1 /\ i \in 1 .. n
      BY <1>1, <2>2
    <3> QED
      BY <1>1, <3>1 DEF KeysRead
  <2> QED
    BY <2>1, <2>2
<1> QED
  BY <1>2 DEF KeysRead

\* The frame on top is that of a value with items.
LEMMA TopIsNode ==
  ASSUME IInv, OwnInv, frames # << >>
  PROVE  Top.node \in 1 .. Len(heap) /\ heap[Top.node] \in Nodes /\ heap[Top.node].items \in Seq(Items)
<1>1. Top = frames[Len(frames)] /\ Len(frames) \in 1 .. Len(frames)
  BY TopIsFrame
<1>2. Top.node \in 1 .. Len(heap)
  BY <1>1 DEF OwnInv, Made, Rising
<1>3. heap[Top.node] \in Nodes
  BY <1>2 DEF IInv, Types
<1> QED
  BY <1>2, <1>3 DEF Nodes

\* Put brings in no key but the one it is given.
LEMMA PutKeys ==
  ASSUME NEW items \in Seq(Items), NEW key \in Strings \cup {NoKey}, NEW r \in Nat, NEW S,
         key \in S, \A j \in 1 .. Len(items) : items[j].key \in S
  PROVE  \A j \in 1 .. Len(Put(items, key, r)) : Put(items, key, r)[j].key \in S
<1> DEFINE n == Len(items)
<1>1. n \in Nat /\ DOMAIN items = 1 .. n /\ \A j \in 1 .. n : items[j] \in Items
  OBVIOUS
<1>2. CASE Present(items, key) = {}
  <2> DEFINE put == Append(items, [key |-> key, value |-> r])
  <2>1. /\ Put(items, key, r) = put /\ Len(put) = n + 1
        /\ \A j \in 1 .. n : put[j] = items[j]
        /\ put[n + 1].key = key
    BY <1>1, <1>2 DEF Put
  <2>2. \A j \in 1 .. n + 1 : j \in 1 .. n \/ j = n + 1
    BY <1>1
  <2> HIDE DEF put
  <2> QED
    BY <2>1, <2>2
<1>3. CASE Present(items, key) # {}
  <2> DEFINE put == [j \in DOMAIN items |->
                       IF j \in Present(items, key) THEN [items[j] EXCEPT !.value = r] ELSE items[j]]
  <2>1. \A item \in Items : [item EXCEPT !.value = r].key = item.key
    BY DEF Items
  <2>2. Put(items, key, r) = put
    BY <1>3 DEF Put
  <2>3. \A j \in 1 .. n : put[j].key = items[j].key
    BY <1>1, <2>1
  <2>4. DOMAIN put = 1 .. n
    BY <1>1
  <2>5. Len(put) = n
    BY <1>1, <2>4
  <2> HIDE DEF put
  <2> QED
    BY <2>2, <2>3, <2>5
<1> QED
  BY <1>2, <1>3

LEMMA KeyNames ==
  ASSUME IInv, OwnInv, Ambient, Causes, Key PROVE Causes'
<1>1. frames # << >> /\ status = "running" /\ token \in Strings /\ input # << >>
  BY DEF Key, InState, Reading, Causes
<1>2. CASE Fail("null_byte_in_key")
  BY <1>1, <1>2, FailingNames DEF Codes
<1>3. CASE /\ Present(heap[Top.node].items, token) # {}
           /\ Fail("duplicate_key")
  <2> DEFINE items == heap[Top.node].items
  <2>1. Top = frames[Len(frames)] /\ Len(frames) \in 1 .. Len(frames)
    BY <1>1, TopIsFrame
  <2>2. Top.node \in 1 .. Len(heap) /\ items \in Seq(Items)
    BY <2>1, TopIsNode
  <2>3. PICK i \in 1 .. Len(items) : items[i].key = token /\ token # NoKey
    BY <1>3, <2>2 DEF Present
  <2>4. token \in Behind
    BY <2>2, <2>3 DEF Causes, KeysRead
  <2> QED
    BY <1>1, <1>3, <2>4, FailingNames DEF Codes
<1>4. CASE /\ frames' = TopTo("ExpectColon", token) /\ Scan
           /\ UNCHANGED <<heap, status>>
  <2>1. token \in Behind' /\ Behind \subseteq Behind'
    BY <1>1, <1>4, ReadsOn
  <2>2. "ExpectColon" \in States
    BY DEF States
  <2>3. KeysRead'
    BY <1>1, <1>4, <2>1, <2>2, NewTopRead DEF Causes
  <2> QED
    BY <1>1, <1>4, <2>3, ReadingNames
<1> QED
  BY <1>2, <1>3, <1>4 DEF Key

\* A value that is made has no keys yet.
LEMMA MakeRead ==
  ASSUME IInv, NEW kind, Make(Node(kind))
  PROVE  /\ Len(heap') = Len(heap) + 1
         /\ \A n \in 1 .. Len(heap) : heap'[n] = heap[n]
         /\ Len(heap'[Len(heap) + 1].items) = 0
<1>1. heap \in Seq(Nodes) /\ heap' = Append(heap, Node(kind))
  BY DEF IInv, Types, Make
<1>2. Node(kind).items = << >> /\ Len(<< >>) = 0
  BY DEF Node
<1> HIDE DEF Node
<1>3. /\ Len(heap) \in Nat /\ Len(heap') = Len(heap) + 1
      /\ \A n \in 1 .. Len(heap) : heap'[n] = heap[n]
      /\ heap'[Len(heap) + 1] = Node(kind)
  BY <1>1
<1> QED
  BY <1>2, <1>3

LEMMA MadeRead ==
  ASSUME IInv, KeysRead, NEW kind, Make(Node(kind)), Behind \subseteq Behind'
  PROVE  \A n \in 1 .. Len(heap') : \A j \in 1 .. Len(heap'[n].items) :
           heap'[n].items[j].key \in Behind' \cup {NoKey}
<1>1. Len(heap) \in Nat
  BY DEF IInv, Types
<1>2. \A n \in 1 .. Len(heap') : n \in 1 .. Len(heap) \/ n = Len(heap) + 1
  BY <1>1, MakeRead
<1> QED
  BY <1>1, <1>2, MakeRead DEF KeysRead

LEMMA PushNames ==
  ASSUME IInv, Ambient, Causes, PushScalar \/ PushLiteral \/ PushContainer \/ PushUnexpected
  PROVE  Causes'
<1>1. status = "running"
  BY DEF PushScalar, PushLiteral, PushContainer, PushUnexpected, ExpectsValue, InState, Reading
<1>2. CASE \/ token \in NulStrings /\ Fail("null_character")
           \/ Fail("out_of_memory") \/ Fail("stack_overflow")
  BY <1>1, <1>2, FailingNames DEF Codes
<1>3. CASE Fail(Syntax)
  BY <1>1, <1>3, SyntaxNames
<1>4. CASE Make(Node(token)) /\ UNCHANGED <<input, frames, err, status>>
  <2>1. Behind' = Behind
    BY <1>4 DEF Behind
  <2>2. KeysRead'
    BY <1>4, <2>1, MadeRead DEF Causes, KeysRead
  <2> QED
    BY <1>1, <1>4, <2>2, StayingNames
<1>5. CASE PushLiteral
  <2>1. KeysRead'
    BY <1>5 DEF PushLiteral, Causes, KeysRead, Behind
  <2> QED
    BY <1>1, <1>5, <2>1, StayingNames DEF PushLiteral
<1>6. ASSUME NEW kind, NEW f, f.key = NoKey, Make(Node(kind)), frames' = Append(frames, f), Scan,
             UNCHANGED status
      PROVE  Causes'
  <2>1. Behind \subseteq Behind'
    BY <1>6, ReadsOn
  <2>2. frames \in Seq(Frames) /\ Len(frames) \in Nat
    BY DEF IInv, Types
  <2>3. /\ Len(frames') = Len(frames) + 1 /\ frames'[Len(frames) + 1].key = NoKey
        /\ \A i \in 1 .. Len(frames) : frames'[i] = frames[i]
    BY <1>6, <2>2
  <2>4. \A i \in 1 .. Len(frames) + 1 : i \in 1 .. Len(frames) \/ i = Len(frames) + 1
    BY <2>2
  <2>5. KeysRead'
    BY <1>6, <2>1, <2>3, <2>4, MadeRead DEF Causes, KeysRead
  <2> QED
    BY <1>1, <1>6, <2>5, ReadingNames
<1>7. PushContainer => \/ \E kind, f : /\ f.key = NoKey /\ Make(Node(kind))
                                       /\ frames' = Append(frames, f) /\ Scan /\ UNCHANGED status
                       \/ Fail("out_of_memory") \/ Fail("stack_overflow")
  BY Zenon DEF PushContainer
<1>8. PushScalar => \/ token \in NulStrings /\ Fail("null_character")
                    \/ Fail("out_of_memory")
                    \/ Make(Node(token)) /\ UNCHANGED <<input, frames, err, status>>
  BY DEF PushScalar
<1>9. PushUnexpected => Fail(Syntax)
  BY DEF PushUnexpected
<1> QED
  BY <1>2, <1>3, <1>4, <1>5, <1>6, <1>7, <1>8, <1>9

LEMMA AttachNames ==
  ASSUME IInv, OwnInv, Ambient, Causes, Attach
  PROVE  Causes'
<1> DEFINE put == Put(heap[Top.node].items, Top.key, pending)
           Read == Behind' \cup {NoKey}
<1>1. /\ frames # << >> /\ status = "running" /\ status' = "running" /\ pending # NoValue /\ Scan
      /\ frames' = TopTo("ExpectCommaOrEnd", NoKey)
      /\ heap' = [heap EXCEPT ![Top.node].items = put]
  BY DEF Attach
<1>2. Behind \subseteq Behind'
  BY <1>1, ReadsOn
<1>3. /\ Top.node \in 1 .. Len(heap) /\ heap[Top.node] \in Nodes
      /\ heap[Top.node].items \in Seq(Items) /\ pending \in Nat /\ heap \in Seq(Nodes)
  BY <1>1, TopIsNode DEF IInv, Types
<1>4. Top.key \in Strings \cup {NoKey} /\ Top.key \in Read
  <2>1. Top \in Frames /\ Top = frames[Len(frames)] /\ Len(frames) \in 1 .. Len(frames)
    BY <1>1, TopIsFrame
  <2> QED
    BY <1>2, <2>1 DEF Frames, Causes, KeysRead
<1>5. \A j \in 1 .. Len(heap[Top.node].items) : heap[Top.node].items[j].key \in Read
  BY <1>2, <1>3 DEF Causes, KeysRead
<1>6. \A j \in 1 .. Len(put) : put[j].key \in Read
  BY <1>3, <1>4, <1>5, PutKeys
<1> HIDE DEF put
<1>7. /\ Len(heap') = Len(heap) /\ heap'[Top.node].items = put
      /\ \A n \in 1 .. Len(heap) : n # Top.node => heap'[n] = heap[n]
  BY <1>1, <1>3 DEF Nodes
<1>8. \A n \in 1 .. Len(heap') : \A j \in 1 .. Len(heap'[n].items) : heap'[n].items[j].key \in Read
  BY <1>2, <1>6, <1>7 DEF Causes, KeysRead
<1>9. \A i \in 1 .. Len(frames') : frames'[i].key \in Read
  <2>1. "ExpectCommaOrEnd" \in States
    BY DEF States, Keyless
  <2>2. /\ Len(frames') = Len(frames) /\ Len(frames) \in Nat
        /\ \A i \in 1 .. Len(frames) - 1 : frames'[i] = frames[i]
        /\ frames'[Len(frames)].key = NoKey
    BY <1>1, <2>1, TopToKeeps
  <2>3. \A i \in 1 .. Len(frames) : i \in 1 .. Len(frames) - 1 \/ i = Len(frames)
    BY <2>2
  <2> QED
    BY <1>2, <2>2, <2>3 DEF Causes, KeysRead
<1>10. KeysRead'
  BY <1>8, <1>9 DEF KeysRead
<1> QED
  BY <1>1, <1>10, ReadingNames

LEMMA CauseStep == IInv /\ OwnInv /\ Ambient /\ Causes /\ [Next]_vars => Causes'
<1> SUFFICES ASSUME IInv, OwnInv, Ambient, Causes, [Next]_vars PROVE Causes'
  OBVIOUS
<1>1. CASE Start
  <2>1. Behind \subseteq Behind'
    BY <1>1, ReadsOn DEF Start
  <2>2. KeysRead'
    BY <1>1, <2>1 DEF Start, Causes, KeysRead
  <2> QED
    BY <1>1, <2>2, ReadingNames DEF Start
<1>2. CASE CheckRoot
  <2>1. status = "root"
    BY <1>2 DEF CheckRoot
  <2>2. CASE Fail(Syntax)
    BY <2>1, <2>2, SyntaxNames
  <2>3. CASE status' = "running" /\ UNCHANGED <<input, frames, heap, err>>
    BY <2>1, <2>3, StayingNames DEF Causes, KeysRead, Behind
  <2> QED
    BY <1>2, <2>2, <2>3 DEF CheckRoot
<1>3. CASE Close
  <2>1. /\ status = "running" /\ frames # << >> /\ frames' = Front(frames)
        /\ UNCHANGED <<input, heap, err, status>>
    BY <1>3 DEF Close, InState, Reading
  <2>2. /\ Len(frames') = Len(frames) - 1 /\ Len(frames) \in Nat
        /\ \A i \in 1 .. Len(frames) - 1 : frames'[i] = frames[i]
    BY <2>1, FrontOf DEF IInv, Types
  <2>3. KeysRead'
    BY <2>1, <2>2 DEF Causes, KeysRead, Behind
  <2> QED
    BY <2>1, <2>3, StayingNames
<1>4. CASE Comma
  <2> DEFINE state == IF KindOfTop = "array" THEN "ExpectValue" ELSE "ExpectKey"
  <2>1. /\ status = "running" /\ frames # << >> /\ frames' = TopTo(state, NoKey) /\ Scan
        /\ UNCHANGED <<heap, status>>
    BY <1>4 DEF Comma, InState, Reading
  <2>2. state \in States
    BY DEF States, Keyless
  <2> HIDE DEF state
  <2>3. KeysRead'
    BY <2>1, <2>2, ReadsOn, NewTopRead DEF Causes
  <2> QED
    BY <2>1, <2>3, ReadingNames
<1>5. CASE NoCommaOrEnd \/ NoKeyHere
  <2>1. status = "running" /\ Fail(Syntax)
    BY <1>5 DEF NoCommaOrEnd, NoKeyHere, InState, Reading
  <2> QED
    BY <2>1, SyntaxNames
<1>6. CASE Colon
  <2>1. status = "running" /\ frames # << >>
    BY <1>6 DEF Colon, InState, Reading
  <2>2. CASE Fail(Syntax)
    BY <2>1, <2>2, SyntaxNames
  <2>3. CASE frames' = TopTo("ExpectValue", Top.key) /\ Scan /\ UNCHANGED <<heap, status>>
    <3>1. Behind \subseteq Behind'
      BY <2>3, ReadsOn
    <3>2. Top.key \in Strings \cup {NoKey} /\ Top.key \in Behind' \cup {NoKey}
      BY <2>1, <3>1, TopIsFrame DEF Frames, Causes, KeysRead
    <3>3. "ExpectValue" \in States
      BY DEF States
    <3>4. KeysRead'
      BY <2>1, <2>3, <3>1, <3>2, <3>3, NewTopRead DEF Causes
    <3> QED
      BY <2>1, <2>3, <3>4, ReadingNames
  <2> QED
    BY <1>6, <2>2, <2>3 DEF Colon
<1>7. CASE AttachFails
  BY <1>7, GivingUpNames DEF AttachFails, Codes
<1>8. CASE Complete
  <2>1. status = "running" /\ UNCHANGED <<frames, heap>>
    BY <1>8 DEF Complete
  <2>2. CASE status' = "ok" /\ UNCHANGED <<input, err>>
    BY <2>1, <2>2, StayingNames DEF Causes, KeysRead, Behind
  <2>3. CASE status' = "trailer" /\ Scan
    BY <2>1, <2>3, ReadsOn, ReadingNames DEF Causes, KeysRead
  <2> QED
    BY <1>8, <2>2, <2>3 DEF Complete
<1>9. CASE CheckEnd
  <2>1. status = "trailer"
    BY <1>9 DEF CheckEnd
  <2>2. CASE status' = "ok" /\ UNCHANGED <<input, frames, heap, err>>
    BY <2>1, <2>2, StayingNames DEF Causes, KeysRead, Behind
  <2>3. CASE GiveUp("end_of_input_expected", << >>, pending, keyTexts, live)
    BY <2>1, <2>3, GivingUpNames DEF Codes
  <2> QED
    BY <1>9, <2>2, <2>3 DEF CheckEnd
<1>10. CASE UNCHANGED vars
  <2>1. token' = token /\ Behind' = Behind /\ UNCHANGED <<input, frames, heap, err, status>>
    BY <1>10 DEF vars, token, Behind
  <2> QED
    BY <2>1 DEF Causes, KeysRead, OnlyLexical, FirstErrorStays, Behind
<1> QED
  BY <1>1, <1>2, <1>3, <1>4, <1>5, <1>6, <1>7, <1>8, <1>9, <1>10, KeyNames, PushNames, AttachNames
  DEF Next

-----------------------------------------------------------------------------
(* A bad token is the last one                                             *)

\* As long as the call goes on, what the lexer has reported is the last token, or
\* the byte behind it, and what is broken is no end of a value.
BadIsLast ==
  status # "failed" =>
    /\ ToSet(input) \cap BadTokens # {} => token \in BadTokens
    /\ status = "running" /\ pending # NoValue => token # "broken"

\* What is open is a container.
OpenAreContainers ==
  \A i \in 1 .. Len(frames) :
    frames[i].node \in 1 .. Len(heap) /\ heap[frames[i].node].kind \in {"array", "object"}

LEMMA SameOpen ==
  ASSUME OpenAreContainers, Len(frames') <= Len(frames), Len(frames) \in Nat, Len(frames') \in Nat,
         \A i \in 1 .. Len(frames') : frames'[i].node = frames[i].node,
         Len(heap') >= Len(heap), Len(heap) \in Nat, Len(heap') \in Nat,
         \A n \in 1 .. Len(heap) : heap'[n].kind = heap[n].kind
  PROVE  OpenAreContainers'
<1> SUFFICES ASSUME NEW i \in 1 .. Len(frames')
             PROVE  frames'[i].node \in 1 .. Len(heap') /\ heap'[frames'[i].node].kind \in {"array", "object"}
  BY DEF OpenAreContainers
<1>1. i \in 1 .. Len(frames) /\ frames'[i].node = frames[i].node
  OBVIOUS
<1>2. frames[i].node \in 1 .. Len(heap) /\ heap[frames[i].node].kind \in {"array", "object"}
  BY <1>1 DEF OpenAreContainers
<1> QED
  BY <1>1, <1>2

LEMMA NoneOpen == frames' = << >> => OpenAreContainers'
  BY DEF OpenAreContainers

LEMMA SameTopOpen ==
  ASSUME IInv, OpenAreContainers, frames # << >>, NEW state, NEW key, frames' = TopTo(state, key),
         Len(heap') >= Len(heap), Len(heap') \in Nat, \A n \in 1 .. Len(heap) : heap'[n].kind = heap[n].kind
  PROVE  OpenAreContainers'
<1>1. frames \in Seq(Frames) /\ Len(frames) \in Nat /\ heap \in Seq(Nodes) /\ Len(heap) \in Nat
  BY DEF IInv, Types
<1>2. \A f \in Frames : [f EXCEPT !.state = state, !.key = key].node = f.node
  BY DEF Frames
<1>3. /\ Len(frames') = Len(frames)
      /\ \A i \in 1 .. Len(frames) : frames'[i].node = frames[i].node
  BY <1>1, <1>2 DEF TopTo, Frames
<1> QED
  BY <1>1, <1>3, SameOpen

LEMMA OpenStep ==
  IInv /\ OwnInv /\ OpenAreContainers /\ [Next]_vars => OpenAreContainers'
<1> SUFFICES ASSUME IInv, OwnInv, OpenAreContainers, [Next]_vars PROVE OpenAreContainers'
  OBVIOUS
<1>1. frames \in Seq(Frames) /\ Len(frames) \in Nat /\ heap \in Seq(Nodes) /\ Len(heap) \in Nat
  BY DEF IInv, Types
<1>2. ASSUME UNCHANGED <<frames, heap>> PROVE OpenAreContainers'
  BY <1>2 DEF OpenAreContainers
<1>3. ASSUME NEW code, Fail(code) PROVE OpenAreContainers'
  BY <1>3, NoneOpen DEF Fail, GiveUp
<1>4. CASE Start \/ CheckRoot \/ PushLiteral \/ Complete \/ CheckEnd \/ UNCHANGED vars
  BY <1>2, <1>3, <1>4, NoneOpen DEF Start, CheckRoot, PushLiteral, Complete, CheckEnd, GiveUp, vars
<1>5. CASE Close
  <2>1. frames # << >> /\ frames' = Front(frames) /\ heap' = heap
    BY <1>5 DEF Close, InState
  <2>2. /\ Len(Front(frames)) = Len(frames) - 1 /\ Front(frames) \in Seq(Frames)
        /\ \A i \in 1 .. Len(frames) - 1 : Front(frames)[i] = frames[i]
    BY <1>1, <2>1, FrontOf
  <2>3. Len(frames') = Len(frames) - 1 /\ Len(frames') \in Nat
    BY <2>1, <2>2
  <2>4. \A i \in 1 .. Len(frames') : frames'[i] = frames[i]
    BY <2>1, <2>2, <2>3
  <2> QED
    BY <1>1, <2>1, <2>3, <2>4, SameOpen
<1>6. CASE Comma \/ Key \/ Colon
  <2>1. frames # << >>
    BY <1>6 DEF Comma, Key, Colon, InState
  <2>2. ASSUME NEW state, NEW key, frames' = TopTo(state, key), UNCHANGED heap
        PROVE  OpenAreContainers'
    BY <1>1, <2>1, <2>2, SameTopOpen
  <2> QED
    BY <1>3, <1>6, <2>2 DEF Comma, Key, Colon
<1>7. CASE NoCommaOrEnd \/ NoKeyHere \/ PushUnexpected
  BY <1>3, <1>7 DEF NoCommaOrEnd, NoKeyHere, PushUnexpected
<1>8. ASSUME NEW kind, Make(Node(kind))
      PROVE  /\ Len(heap') = Len(heap) + 1
             /\ \A n \in 1 .. Len(heap) : heap'[n].kind = heap[n].kind
             /\ heap'[Len(heap) + 1].kind = kind
  <2> DEFINE node == Node(kind)
  <2>1. heap' = Append(heap, node) /\ node.kind = kind
    BY <1>8 DEF Make, Node
  <2> HIDE DEF node
  <2> QED
    BY <1>1, <2>1
<1>9. CASE PushScalar
  <2>1. CASE Make(Node(token)) /\ UNCHANGED frames
    BY <1>1, <1>8, <2>1, SameOpen
  <2> QED
    BY <1>3, <1>9, <2>1 DEF PushScalar
<1>10. CASE PushContainer
  <2>1. ASSUME NEW kind \in {"array", "object"}, NEW f, Make(Node(kind)), f.node = Fresh,
               frames' = Append(frames, f)
        PROVE  OpenAreContainers'
    <3>1. /\ Len(frames') = Len(frames) + 1 /\ frames'[Len(frames) + 1].node = Len(heap) + 1
          /\ \A i \in 1 .. Len(frames) : frames'[i] = frames[i]
      BY <1>1, <2>1 DEF Fresh
    <3>2. \A i \in 1 .. Len(frames) + 1 : i \in 1 .. Len(frames) \/ i = Len(frames) + 1
      BY <1>1
    <3> QED
      BY <1>1, <1>8, <2>1, <3>1, <3>2 DEF OpenAreContainers
  <2>2. \/ \E kind \in {"array", "object"} : \E f :
             f.node = Fresh /\ Make(Node(kind)) /\ frames' = Append(frames, f)
        \/ \E code : Fail(code)
    BY <1>10, Zenon DEF PushContainer
  <2> QED
    BY <1>3, <2>1, <2>2
<1>11. CASE Attach
  <2> DEFINE put == Put(heap[Top.node].items, Top.key, pending)
  <2>1. /\ frames # << >> /\ frames' = TopTo("ExpectCommaOrEnd", NoKey)
        /\ heap' = [heap EXCEPT ![Top.node].items = put]
    BY <1>11 DEF Attach
  <2> HIDE DEF put
  <2>2. \A n \in 1 .. Len(heap) : heap'[n].kind = heap[n].kind
    BY <1>1, <2>1 DEF Nodes
  <2>3. Len(heap') = Len(heap)
    BY <1>1, <2>1
  <2> QED
    BY <1>1, <2>1, <2>2, <2>3, SameTopOpen
<1>12. CASE AttachFails
  BY <1>12, NoneOpen DEF AttachFails, GiveUp
<1> QED
  BY <1>4, <1>5, <1>6, <1>7, <1>9, <1>10, <1>11, <1>12 DEF Next

LEMMA ReadsBadLast ==
  ASSUME Ambient, Scan, ToSet(input) \cap BadTokens # {} => token = "number_before_bad_byte"
  PROVE  ToSet(input') \cap BadTokens # {} => token' \in BadTokens
<1>1. input \in Seq(Tokens)
  BY DEF Ambient
<1>2. PICK t \in NextTokens : input' = Append(input, t)
  BY DEF Scan
<1>3. t \in Tokens
  BY DEF NextTokens, Tokens, Junk
<1>4. ToSet(input') = ToSet(input) \cup {t} /\ token' = t
  <2> DEFINE n == Len(input)
  <2>1. /\ n \in Nat /\ DOMAIN input = 1 .. n /\ DOMAIN input' = 1 .. n + 1 /\ Len(input') = n + 1
        /\ \A i \in 1 .. n : input'[i] = input[i]
        /\ input'[n + 1] = t
    BY <1>1, <1>2, <1>3
  <2> QED
    BY <2>1 DEF ToSet, token, Last
<1>5. CASE input = << >>
  <2>1. ToSet(input) = {}
    BY <1>5 DEF ToSet
  <2> QED
    BY <1>4, <2>1
<1>6. CASE input # << >> /\ token = "number_before_bad_byte"
  BY <1>2, <1>4, <1>6 DEF NextTokens, BadTokens
<1>7. CASE ToSet(input) \cap BadTokens = {}
  BY <1>4, <1>7
<1> QED
  BY <1>5, <1>6, <1>7

\* A turn that goes on to the next token was about a good one.
LEMMA ReadingBadLast ==
  ASSUME Ambient, BadIsLast, Scan, token # "broken" \/ input = << >>, status # "failed",
         status' \in {"root", "trailer"} \/ pending' = NoValue
  PROVE  BadIsLast'
<1>1. ToSet(input) \cap BadTokens # {} => token = "number_before_bad_byte"
  <2>1. CASE input = << >>
    BY <2>1 DEF ToSet
  <2>2. CASE token # "broken"
    BY <2>2 DEF BadIsLast, BadTokens
  <2> QED
    BY <2>1, <2>2
<1> QED
  BY <1>1, ReadsBadLast DEF BadIsLast

LEMMA BadLastStep ==
  IInv /\ OwnInv /\ Ambient /\ Causes /\ OpenAreContainers /\ BadIsLast /\ [Next]_vars => BadIsLast'
<1> SUFFICES ASSUME IInv, OwnInv, Ambient, Causes, OpenAreContainers, BadIsLast, [Next]_vars PROVE BadIsLast'
  OBVIOUS
<1>0. UNCHANGED input => token' = token /\ ToSet(input') = ToSet(input)
  BY DEF token
<1>1. ASSUME NEW code, Fail(code) PROVE BadIsLast'
  BY <1>1 DEF Fail, GiveUp, BadIsLast
<1>2. CASE Start
  <2>1. input = << >>
    BY <1>2 DEF Start, Causes
  <2> QED
    BY <1>2, <2>1, ReadingBadLast DEF Start
<1>3. CASE CheckRoot
  <2>1. pending = NoValue
    BY <1>3 DEF CheckRoot, OwnInv, Idle
  <2>2. CASE UNCHANGED <<input, pending>> /\ status = "root"
    BY <1>0, <2>1, <2>2 DEF BadIsLast
  <2> QED
    BY <1>1, <1>3, <2>2 DEF CheckRoot
<1>4. CASE Close
  <2>1. /\ UNCHANGED <<input, status>> /\ status = "running" /\ token \in {"]", "}"}
    <3>1. frames # << >>
      BY <1>4 DEF Close, InState
    <3>2. KindOfTop \in {"array", "object"}
      BY <3>1, TopIsFrame DEF OpenAreContainers, KindOfTop
    <3>3. Closer[KindOfTop] \in {"]", "}"}
      BY <3>2 DEF Closer
    <3> QED
      BY <1>4, <3>3 DEF Close, InState, Reading
  <2> QED
    BY <1>0, <2>1 DEF BadIsLast
<1>5. CASE Comma
  BY <1>5, ReadingBadLast DEF Comma, InState, Reading
<1>6. CASE NoCommaOrEnd \/ NoKeyHere \/ PushUnexpected
  BY <1>1, <1>6 DEF NoCommaOrEnd, NoKeyHere, PushUnexpected
<1>7. \A t \in Strings : t # "broken"
  BY TokensAssumption DEF Junk
<1>8. CASE Key
  <2>1. token # "broken" /\ pending = NoValue /\ status # "failed"
    BY <1>7, <1>8 DEF Key, InState, Reading
  <2>2. CASE Scan /\ UNCHANGED pending
    BY <2>1, <2>2, ReadingBadLast
  <2> QED
    BY <1>1, <1>8, <2>2 DEF Key
<1>9. CASE Colon
  <2>1. pending = NoValue /\ status # "failed"
    BY <1>9 DEF Colon, InState, Reading
  <2>2. CASE token = ":" /\ Scan /\ UNCHANGED pending
    BY <2>1, <2>2, ReadingBadLast
  <2> QED
    BY <1>1, <1>9, <2>2 DEF Colon
<1>10. CASE PushScalar \/ PushLiteral
  <2>1. token # "broken" /\ status = "running"
    BY <1>7, <1>10 DEF PushScalar, PushLiteral, Numbers, ExpectsValue, InState, Reading
  <2>2. CASE UNCHANGED <<input, status>>
    BY <1>0, <2>1, <2>2 DEF BadIsLast
  <2> QED
    BY <1>1, <1>10, <2>2 DEF PushScalar, PushLiteral
<1>11. CASE PushContainer
  <2>1. token # "broken" /\ pending = NoValue /\ status # "failed"
    BY <1>11 DEF PushContainer, Containers, ExpectsValue, InState, Reading
  <2>2. CASE Scan /\ UNCHANGED pending
    BY <2>1, <2>2, ReadingBadLast
  <2> QED
    BY <1>1, <1>11, <2>2 DEF PushContainer
<1>12. CASE Attach
  <2>1. token # "broken" /\ Scan /\ pending' = NoValue /\ status # "failed"
    BY <1>12 DEF Attach, BadIsLast
  <2> QED
    BY <2>1, ReadingBadLast
<1>13. CASE AttachFails
  BY <1>13 DEF AttachFails, GiveUp, BadIsLast
<1>14. CASE Complete
  <2>1. token # "broken" /\ status = "running"
    BY <1>14 DEF Complete, BadIsLast
  <2>2. CASE status' = "ok" /\ UNCHANGED input
    BY <1>0, <2>1, <2>2 DEF BadIsLast
  <2>3. CASE status' = "trailer" /\ Scan
    BY <2>1, <2>3, ReadingBadLast
  <2> QED
    BY <1>14, <2>2, <2>3 DEF Complete
<1>15. CASE CheckEnd
  <2>1. CASE UNCHANGED input /\ status' = "ok" /\ status = "trailer"
    BY <1>0, <2>1 DEF BadIsLast
  <2>2. CASE status' = "failed"
    BY <2>2 DEF BadIsLast
  <2> QED
    BY <1>15, <2>1, <2>2 DEF CheckEnd, GiveUp
<1>16. CASE UNCHANGED vars
  BY <1>0, <1>16 DEF vars, BadIsLast
<1> QED
  BY <1>2, <1>3, <1>4, <1>5, <1>6, <1>8, <1>9, <1>10, <1>11, <1>12, <1>13, <1>14, <1>15, <1>16 DEF Next

\* parse_json ends well at the end of the input, or where it may stop before it.
AtEnd == status = "ok" => "disable_eof_check" \in flags \/ token = "eof"

LEMMA CheckedStep ==
  ASSUME AtEnd, [Next]_vars PROVE AtEnd'
<1>1. CASE status' = "ok" /\ status = "running" /\ "disable_eof_check" \in flags /\ flags' = flags
  BY <1>1 DEF AtEnd
<1>2. CASE status' = "ok" /\ token = "eof" /\ UNCHANGED <<flags, input>>
  BY <1>2 DEF AtEnd, token
<1>3. CASE status' # "ok"
  BY <1>3 DEF AtEnd
<1>4. CASE UNCHANGED vars
  BY <1>4 DEF AtEnd, vars, token
<1>5. ASSUME Next, status' = "ok" PROVE Complete \/ CheckEnd
  BY <1>5 DEF Next, Start, CheckRoot, Close, Comma, NoCommaOrEnd, Key, NoKeyHere, Colon,
     PushScalar, PushLiteral, PushContainer, PushUnexpected, Attach, AttachFails, Fail, GiveUp,
     InState, Reading, ExpectsValue
<1> QED
  BY <1>1, <1>2, <1>3, <1>4, <1>5 DEF Complete, CheckEnd, GiveUp

-----------------------------------------------------------------------------
(* From the invariant to the property                                      *)

LEMMA TypesFollow == IInv /\ OwnInv /\ Ambient => TypeOK
<1> SUFFICES ASSUME IInv, OwnInv, Ambient PROVE TypeOK
  OBVIOUS
<1>1. ToSet(input) \subseteq Tokens
  BY DEF Ambient, ToSet
<1>2. \A f \in ToSet(frames) : FrameOK(f)
  <2>0. frames \in Seq(Frames) /\ live \subseteq 1 .. Len(heap)
    BY DEF IInv, Types, OwnInv, Made
  <2>1. \A i \in 1 .. Len(frames) : frames[i] \in Frames /\ frames[i].node \in 1 .. Len(heap)
    <3>1. \A i \in 1 .. Len(frames) : frames[i] \in Frames
      BY <2>0
    <3>2. \A i \in 1 .. Len(frames) : frames[i].node \in live
      BY DEF OwnInv, Rising
    <3> QED
      BY <2>0, <3>1, <3>2
  <2>2. ToSet(frames) = {frames[i] : i \in 1 .. Len(frames)}
    BY DEF IInv, Types, ToSet
  <2> QED
    BY <2>1, <2>2 DEF Frames, FrameOK, States, Keyless
<1>3. pending \in 0 .. Len(heap) \cup {NoValue}
  <2>1. Len(heap) \in Nat /\ live \subseteq 1 .. Len(heap)
    BY DEF IInv, Types, OwnInv, Made
  <2>2. pending \in live \cup {NoValue, 0}
    BY DEF OwnInv, Rising, Literal
  <2> QED
    BY <2>1, <2>2
<1>4. \A n \in ToSet(heap) : \A i \in ToSet(n.items) :
        i.key \in Strings \cup {NoKey} /\ i.value \in 0 .. Len(heap)
  <2> SUFFICES ASSUME NEW m \in 1 .. Len(heap), NEW i \in ToSet(heap[m].items)
               PROVE  i.key \in Strings \cup {NoKey} /\ i.value \in 0 .. Len(heap)
    BY DEF IInv, Types, ToSet
  <2>1. /\ heap[m].items \in Seq(Items)
        /\ \A j \in 1 .. Len(heap[m].items) :
             /\ heap[m].items[j] \in Items
             /\ heap[m].items[j].value # Literal => heap[m].items[j].value \in m + 1 .. Len(heap)
    BY HeapTypes DEF OwnInv, Made
  <2>2. PICK j \in 1 .. Len(heap[m].items) : i = heap[m].items[j]
    BY <2>1 DEF ToSet
  <2>3. i \in Items /\ (i.value # 0 => i.value \in m + 1 .. Len(heap))
    BY <2>1, <2>2 DEF Literal
  <2>4. Len(heap) \in Nat
    BY DEF IInv, Types
  <2> QED
    BY <2>3, <2>4 DEF Items
<1>5. keyTexts \in Nat
  BY KeyTextsAreFinite
<1> QED
  BY <1>1, <1>2, <1>3, <1>4, <1>5 DEF TypeOK, Ambient, Codes, OwnInv, Made

LEMMA OneOwner ==
  ASSUME IInv, OwnInv, NEW r \in live
  PROVE  Cardinality(Owners(r)) = 1
<1> DEFINE A == {<<"frame", i>> : i \in {j \in DOMAIN frames : frames[j].node = r}}
           B == {<<"pending", 0>> : p \in {pending} \cap {r}}
           C == UNION {{<<n, i>> : i \in {j \in DOMAIN heap[n].items : heap[n].items[j].value = r}} :
                         n \in live}
<1>1. Owners(r) = A \cup B \cup C
  BY DEF Owners
<1>2. /\ Len(frames) \in Nat /\ DOMAIN frames = 1 .. Len(frames)
      /\ \A n \in live : DOMAIN heap[n].items = 1 .. Len(heap[n].items)
      /\ r # Literal /\ r # NoValue
  <2>1. \A n \in live : n \in 1 .. Len(heap) /\ heap[n].items \in Seq(Items)
    BY HeapTypes DEF OwnInv, Made
  <2>2. r \in Nat \ {0}
    BY DEF OwnInv, Made
  <2>3. frames \in Seq(Frames)
    BY DEF IInv, Types
  <2> QED
    BY <2>1, <2>2, <2>3, NoValueAssumption DEF Literal
<1>3. \A i \in 1 .. Len(frames) : frames[i].node = r => pending # r /\ ~ IsItem(r)
  BY SMTT(20), <1>2 DEF OwnInv, Rising, ItemsLive, IsItem, Made
<1>4. pending = r => ~ IsItem(r)
  BY <1>2 DEF OwnInv, ItemsLive, IsItem
<1>5. ~ IsItem(r) => C = {}
  BY <1>2 DEF IsItem
<1>6. \E o : Owners(r) = {o}
  <2>1. CASE \E i \in 1 .. Len(frames) : frames[i].node = r
    <3>1. PICK i \in 1 .. Len(frames) : frames[i].node = r
      BY <2>1
    <3>2. \A j \in 1 .. Len(frames) : frames[j].node = r => j = i
      <4> SUFFICES ASSUME NEW j \in 1 .. Len(frames), frames[j].node = r PROVE j = i
        OBVIOUS
      <4>1. r \in Nat /\ ~ (r < r)
        BY DEF OwnInv, Made
      <4>2. ~ (i < j) /\ ~ (j < i)
        BY <3>1, <4>1 DEF OwnInv, Rising
      <4> QED
        BY <1>2, <4>2
    <3>3. A = {<<"frame", i>>}
      BY <1>2, <3>1, <3>2
    <3>4. B = {} /\ C = {}
      BY <1>3, <1>5, <3>1
    <3> HIDE DEF A, B, C
    <3> QED
      BY <1>1, <3>3, <3>4
  <2>2. CASE pending = r
    <3>1. A = {} /\ C = {}
      BY <1>2, <1>3, <1>4, <1>5, <2>2
    <3>2. B = {<<"pending", 0>>}
      BY <2>2
    <3> HIDE DEF A, B, C
    <3> QED
      BY <1>1, <3>1, <3>2
  <2>3. CASE IsItem(r)
    <3>1. A = {} /\ B = {}
      BY <1>2, <1>3, <1>4, <2>3
    <3>2. PICK n \in live : \E j \in 1 .. Len(heap[n].items) : heap[n].items[j].value = r
      BY <2>3 DEF IsItem
    <3>3. PICK j \in 1 .. Len(heap[n].items) : heap[n].items[j].value = r
      BY <3>2
    <3>4. \A m \in live : \A i \in 1 .. Len(heap[m].items) :
            heap[m].items[i].value = r => m = n /\ i = j
      BY SMTT(20), <1>2, <3>3 DEF OwnInv, InOnePlace
    <3>5. \A o \in C : o = <<n, j>>
      BY <1>2, <3>4
    <3>6. <<n, j>> \in C
      BY <1>2, <3>3
    <3> HIDE DEF A, B, C
    <3> QED
      BY <1>1, <3>1, <3>5, <3>6
  <2> QED
    BY <2>1, <2>2, <2>3 DEF OwnInv, NoneLost
<1> QED
  BY <1>6, FS_Singleton

-----------------------------------------------------------------------------
(* The theorems                                                            *)

\* push_value_frame never lets the stack of parse_json grow beyond
\* JSON_PARSER_MAX_DEPTH frames, however long the input is.
THEOREM StackIsBounded == Spec => []DepthBounded
<1>1. IInv => DepthBounded
  BY DEF IInv
<1> QED
  BY <1>1, Inductive, PTL

\* After every turn of parse_json, also one that ends it for want of memory, there
\* is one key text allocated for every frame with a key, and no other.
THEOREM KeyTextsAreOwned == Spec => []KeyTextsOwned
<1>1. IInv => KeyTextsOwned
  BY DEF IInv
<1> QED
  BY <1>1, Inductive, PTL

\* When parse_json has returned, every key text it took from the lexer is freed.
THEOREM NoKeyTextLeft == Spec => [](status \in {"ok", "failed"} => keyTexts = 0)
<1>1. IInv => (status \in {"ok", "failed"} => keyTexts = 0)
  <2> SUFFICES ASSUME IInv, status \in {"ok", "failed"} PROVE keyTexts = 0
    OBVIOUS
  <2>1. frames = << >>
    BY DEF IInv
  <2> QED
    BY <2>1, KeyedEmpty, KeyTextsAreFinite
<1> QED
  BY <1>1, Inductive, PTL

\* After every turn of parse_json each value that is not freed has one owner, a frame,
\* pending, or the container it is in, all that is not freed is owned by the parser,
\* and so are the key texts: for inputs of any length, any depth bound and any flags,
\* and wherever an allocation fails.
THEOREM ParserLeaksNothing == Spec => []NothingLeaks
<1>1. IInv /\ OwnInv /\ Ambient => NothingLeaks
  <2> SUFFICES ASSUME IInv, OwnInv, Ambient PROVE NothingLeaks
    OBVIOUS
  <2>1. live = ReleasedBy(frames, pending)
    BY CleanupFreesAll DEF IInv, Types
  <2>2. \A r \in live : Cardinality(Owners(r)) = 1
    BY OneOwner
  <2> QED
    BY <2>1, <2>2, TypesFollow DEF NothingLeaks, IInv
<1> QED
  BY <1>1, InitIsTyped, Inductive, InitOwns, OwnStep, AmbientStep, PTL DEF Spec

\* For inputs of any length, any depth bound and any flags, and wherever an allocation
\* fails: what parse_json reports is the first error that was met.  It is one of the
\* lexer if and only if the lexer has met one, an early end only at the end or at a NUL
\* byte, and a key is called a duplicate only if it was read before.
THEOREM FirstErrorIsReported == Spec => []FirstErrorStays
<1>1. Init => Causes
  BY DEF Init, Causes, KeysRead, OnlyLexical, FirstErrorStays, ToSet
<1>2. Causes => FirstErrorStays
  BY DEF Causes
<1> QED
  BY <1>1, <1>2, InitIsTyped, Inductive, InitOwns, OwnStep, AmbientStep, CauseStep, PTL DEF Spec

\* For inputs of any length, any depth bound and any flags, and wherever an allocation
\* fails: unless it may stop before the end, parse_json succeeds only at the end of the
\* input, and then neither it nor the lexer has reported an error, although the lexer
\* may have reported one with a token that is good.
THEOREM SuccessLeavesNoError == Spec => []SuccessIsQuiet
<1>1. Init => Causes /\ OpenAreContainers /\ BadIsLast /\ AtEnd
  BY DEF Init, Causes, KeysRead, OnlyLexical, FirstErrorStays, OpenAreContainers, BadIsLast, AtEnd, ToSet
<1>2. Causes /\ BadIsLast /\ AtEnd => SuccessIsQuiet
  <2> SUFFICES ASSUME Causes, BadIsLast, AtEnd, status = "ok", "disable_eof_check" \notin flags
               PROVE  token = "eof" /\ err = "none"
    BY DEF SuccessIsQuiet
  <2>1. token = "eof"
    BY DEF AtEnd
  <2>2. ToSet(input) \cap BadTokens = {}
    BY <2>1 DEF BadIsLast, BadTokens
  <2> QED
    BY <2>1, <2>2 DEF Causes, OnlyLexical
<1>3. AtEnd /\ [Next]_vars => AtEnd'
  BY CheckedStep
<1> QED
  BY <1>1, <1>2, <1>3, InitIsTyped, Inductive, InitOwns, OwnStep, AmbientStep, CauseStep, OpenStep,
     BadLastStep, PTL DEF Spec
=============================================================================
