-------------------------- MODULE ObjectTableProofs -------------------------
(***************************************************************************)
(* That every bucket of the hash table stays one run of the list, that the *)
(* two lists of an object agree, that a loop over it visits what it has to *)
(* and never a freed entry, that an update merges the other object entry   *)
(* by entry, and that all of it together is an insertion-ordered map: for  *)
(* every set of keys and values, every hash function and every initial     *)
(* order.                                                                  *)
(*                                                                         *)
(* The argument goes from the lists (what inserting at and removing from a *)
(* position does) over the table (insert_into_bucket, remove_from_bucket   *)
(* and rehash keep it well-formed) to the steps, and from there to the     *)
(* theorems.                                                               *)
(*                                                                         *)
(* The last part is about the seed of the hash function, the one thing in  *)
(* object.rs that threads share.                                           *)
(***************************************************************************)
EXTENDS ObjectTable, HashSeed, SequenceTheorems, WellFoundedInduction, TLAPS

-----------------------------------------------------------------------------
(* Induction over the natural numbers, as a statement about a set: the     *)
(* induction theorems of the library have an operator as a parameter.      *)

LEMMA InductionOverSet ==
  ASSUME NEW S, 0 \in S, \A n \in Nat : n \in S => n + 1 \in S
  PROVE  Nat \subseteq S
<1> SUFFICES ASSUME Nat \ S # {} PROVE FALSE
  OBVIOUS
<1>1. PICK x \in Nat \ S : \A y \in Nat \ S : ~ (<<y, x>> \in OpToRel(<, Nat))
  BY WFMin, NatLessThanWellFounded, Zenon
<1>2. x # 0 /\ x - 1 \in Nat /\ x - 1 \notin S
  OBVIOUS
<1>3. <<x - 1, x>> \in OpToRel(<, Nat)
  BY <1>2 DEF OpToRel
<1> QED
  BY <1>1, <1>2, <1>3

\* The functions that agree with Power up to n: there is one for each n.
Powers(n) == {g \in [0 .. n -> Nat \ {0}] : /\ g[0] = 1
                                            /\ \A i \in 1 .. n : g[i] = 2 * g[i - 1]}

LEMMA PowersExist == \A n \in Nat : Powers(n) # {}
<1> DEFINE S == {n \in Nat : Powers(n) # {}}
<1>1. 0 \in S
  <2>1. [i \in 0 .. 0 |-> 1] \in Powers(0)
    BY DEF Powers
  <2> QED
    BY <2>1
<1>2. ASSUME NEW n \in Nat, n \in S PROVE n + 1 \in S
  <2>1. PICK g : g \in Powers(n)
    BY <1>2
  <2> DEFINE h == [i \in 0 .. n + 1 |-> IF i = n + 1 THEN 2 * g[n] ELSE g[i]]
  <2>2. h \in [0 .. n + 1 -> Nat \ {0}] /\ h[0] = 1
    BY <2>1 DEF Powers
  <2>3. ASSUME NEW i \in 1 .. n + 1 PROVE h[i] = 2 * h[i - 1]
    BY <2>1, <2>3 DEF Powers
  <2>4. h \in Powers(n + 1)
    BY <2>2, <2>3 DEF Powers
  <2> QED
    BY <2>4
<1> HIDE DEF S
<1>3. Nat \subseteq S
  BY <1>1, <1>2, InductionOverSet
<1> QED
  BY <1>3 DEF S

LEMMA PowersAgree ==
  ASSUME NEW m \in Nat, NEW n \in Nat, NEW g \in Powers(m), NEW h \in Powers(n)
  PROVE  \A i \in Nat : i <= m /\ i <= n => g[i] = h[i]
<1> DEFINE S == {i \in Nat : i <= m /\ i <= n => g[i] = h[i]}
<1>1. 0 \in S
  BY DEF Powers
<1>2. ASSUME NEW i \in Nat, i \in S PROVE i + 1 \in S
  <2> SUFFICES ASSUME i + 1 <= m, i + 1 <= n PROVE g[i + 1] = h[i + 1]
    OBVIOUS
  <2>1. g[i + 1] = 2 * g[(i + 1) - 1] /\ h[i + 1] = 2 * h[(i + 1) - 1]
    BY DEF Powers
  <2> QED
    BY <1>2, <2>1
<1> HIDE DEF S
<1>3. Nat \subseteq S
  BY <1>1, <1>2, InductionOverSet
<1> QED
  BY <1>3 DEF S

\* 1 << n is a positive number.
LEMMA PowerIsPositive == \A n \in Nat : Power[n] \in Nat \ {0}
<1> DEFINE p == [n \in Nat |-> (CHOOSE g : g \in Powers(n))[n]]
           D(g) == [n \in Nat |-> IF n = 0 THEN 1 ELSE 2 * g[n - 1]]
<1>1. \A n \in Nat : (CHOOSE g : g \in Powers(n)) \in Powers(n)
  BY PowersExist
<1>2. ASSUME NEW n \in Nat
      PROVE  p[n] \in Nat \ {0} /\ p[n] = IF n = 0 THEN 1 ELSE 2 * p[n - 1]
  <2> DEFINE g == CHOOSE f : f \in Powers(n)
             h == CHOOSE f : f \in Powers(n - 1)
  <2>1. g \in Powers(n) /\ p[n] = g[n]
    BY <1>1
  <2>2. CASE n = 0
    BY <2>1, <2>2 DEF Powers
  <2>3. CASE n # 0
    <3>1. n - 1 \in Nat
      BY <2>3
    <3>2. h \in Powers(n - 1) /\ p[n - 1] = h[n - 1]
      BY <1>1, <3>1
    <3> HIDE DEF p, g, h
    <3>3. g[n - 1] = h[n - 1]
      BY <2>1, <3>1, <3>2, PowersAgree
    <3>4. g[n] = 2 * g[n - 1] /\ g[n] \in Nat \ {0}
      BY <2>1, <2>3, <3>1 DEF Powers
    <3> QED
      BY <2>1, <2>3, <3>2, <3>3, <3>4
  <2> QED
    BY <2>2, <2>3
<1>3. p = D(p)
  <2> HIDE DEF p
  <2>1. p = [n \in Nat |-> p[n]]
    BY DEF p
  <2> QED
    BY <1>2, <2>1
<1> HIDE DEF p
<1>4. Power = CHOOSE g : g = D(g)
  BY DEF Power
<1> HIDE DEF D
<1>5. Power = D(Power)
  BY <1>3, <1>4
<1> USE DEF D
<1> DEFINE S == {n \in Nat : Power[n] \in Nat \ {0}}
<1>6. \A n \in Nat : Power[n] = IF n = 0 THEN 1 ELSE 2 * Power[n - 1]
  BY <1>5
<1>7. 0 \in S /\ \A n \in Nat : n \in S => n + 1 \in S
  BY <1>6
<1> HIDE DEF S
<1>8. Nat \subseteq S
  BY <1>7, InductionOverSet
<1> QED
  BY <1>8 DEF S

-----------------------------------------------------------------------------
(* Lists without duplicates, position by position                          *)

\* The one position of an entry of the list.
LEMMA PositionAt ==
  ASSUME NEW S, NEW s \in Seq(S), IsInjective(s), NEW p \in 1 .. Len(s)
  PROVE  Position(s, s[p]) = p
<1> DEFINE I == {i \in 1 .. Len(s) : s[i] = s[p]}
<1>1. DOMAIN s = 1 .. Len(s)
  OBVIOUS
<1>2. I = {p}
  BY <1>1 DEF IsInjective
<1>3. Position(s, s[p]) = IF I # {} THEN Min(I) ELSE 0
  BY DEF Position, SelectInSeq
<1> HIDE DEF I
<1>4. Min(I) = p
  BY <1>2 DEF Min
<1> QED
  BY <1>2, <1>3, <1>4

\* r is the list s with k put in at position p.
Opened(s, p, k, r) ==
  /\ r \in Seq(Keys) /\ Len(r) = Len(s) + 1
  /\ \A j \in 1 .. Len(s) + 1 :
       r[j] = IF j < p THEN s[j] ELSE IF j = p THEN k ELSE s[j - 1]

LEMMA InsertedAt ==
  ASSUME NEW S, NEW s \in Seq(S), NEW p \in 1 .. Len(s) + 1, NEW k \in S
  PROVE  /\ InsertAt(s, p, k) \in Seq(S)
         /\ Len(InsertAt(s, p, k)) = Len(s) + 1
         /\ \A j \in 1 .. Len(s) + 1 :
              InsertAt(s, p, k)[j] = IF j < p THEN s[j] ELSE IF j = p THEN k ELSE s[j - 1]
<1> DEFINE n == Len(s)
           a == SubSeq(s, 1, p - 1)
           b == SubSeq(s, p, n)
           c == a \o <<k>>
<1>1. n \in Nat /\ p \in Nat \ {0} /\ \A j \in 1 .. n : s[j] \in S
  OBVIOUS
<1>2. /\ a \in Seq(S) /\ Len(a) = p - 1
      /\ \A j \in 1 .. p - 1 : a[j] = s[j]
  BY <1>1, SubSeqProperties
<1>3. /\ b \in Seq(S) /\ Len(b) = n + 1 - p
      /\ \A j \in 1 .. n + 1 - p : b[j] = s[p + j - 1]
  BY <1>1, SubSeqProperties
<1>4. <<k>> \in Seq(S) /\ Len(<<k>>) = 1 /\ <<k>>[1] = k
  OBVIOUS
<1>5. InsertAt(s, p, k) = c \o b
  BY DEF InsertAt
<1> HIDE DEF a, b
<1>6. /\ c \in Seq(S) /\ Len(c) = p
      /\ \A j \in 1 .. p : c[j] = IF j < p THEN s[j] ELSE k
  BY <1>1, <1>2, <1>4, ConcatProperties
<1> HIDE DEF c
<1>7. /\ c \o b \in Seq(S) /\ Len(c \o b) = Len(c) + Len(b)
      /\ \A j \in 1 .. Len(c) + Len(b) : (c \o b)[j] = IF j <= Len(c) THEN c[j] ELSE b[j - Len(c)]
  BY <1>3, <1>6, ConcatProperties
<1>8. ASSUME NEW j \in 1 .. n + 1
      PROVE  (c \o b)[j] = IF j < p THEN s[j] ELSE IF j = p THEN k ELSE s[j - 1]
  <2>1. CASE j <= p
    BY <1>1, <1>3, <1>6, <1>7, <2>1
  <2>2. CASE j > p
    <3>1. j - p \in 1 .. n + 1 - p /\ p + (j - p) - 1 = j - 1
      BY <1>1, <2>2
    <3>2. b[j - p] = s[j - 1]
      BY <1>3, <3>1
    <3> QED
      BY <1>1, <1>3, <1>6, <1>7, <2>2, <3>2
  <2>3. j <= p \/ j > p
    BY <1>1
  <2> QED
    BY <2>1, <2>2, <2>3
<1> QED
  BY <1>1, <1>3, <1>5, <1>6, <1>7, <1>8

LEMMA InsertOpens ==
  ASSUME NEW s \in Seq(Keys), NEW p \in 1 .. Len(s) + 1, NEW k \in Keys
  PROVE  Opened(s, p, k, InsertAt(s, p, k))
<1>1. /\ InsertAt(s, p, k) \in Seq(Keys)
      /\ Len(InsertAt(s, p, k)) = Len(s) + 1
      /\ \A j \in 1 .. Len(s) + 1 :
           InsertAt(s, p, k)[j] = IF j < p THEN s[j] ELSE IF j = p THEN k ELSE s[j - 1]
  BY InsertedAt
<1> QED
  BY <1>1 DEF Opened

LEMMA AppendOpens ==
  ASSUME NEW s \in Seq(Keys), NEW k \in Keys
  PROVE  Opened(s, Len(s) + 1, k, Append(s, k))
<1> DEFINE n == Len(s)
           r == Append(s, k)
<1>1. /\ n \in Nat /\ r \in Seq(Keys) /\ Len(r) = n + 1
      /\ \A j \in 1 .. n : r[j] = s[j]
      /\ r[n + 1] = k
  BY AppendProperties
<1> HIDE DEF n, r
<1>2. \A j \in 1 .. n + 1 :
        r[j] = IF j < n + 1 THEN s[j] ELSE IF j = n + 1 THEN k ELSE s[j - 1]
  <2> TAKE j \in 1 .. n + 1
  <2>1. CASE j = n + 1
    BY <1>1, <2>1
  <2>2. CASE j \in 1 .. n
    BY <1>1, <2>2
  <2> QED
    BY <1>1, <2>1, <2>2
<1> QED
  BY <1>1, <1>2 DEF Opened, n, r

LEMMA RemovedAt ==
  ASSUME NEW S, NEW s \in Seq(S), NEW p \in 1 .. Len(s)
  PROVE  /\ RemoveAt(s, p) \in Seq(S)
         /\ Len(RemoveAt(s, p)) = Len(s) - 1
         /\ \A j \in 1 .. Len(s) - 1 : RemoveAt(s, p)[j] = IF j < p THEN s[j] ELSE s[j + 1]
<1> DEFINE n == Len(s)
           a == SubSeq(s, 1, p - 1)
           b == SubSeq(s, p + 1, n)
<1>1. n \in Nat /\ p \in Nat \ {0} /\ \A j \in 1 .. n : s[j] \in S
  OBVIOUS
<1>2. /\ a \in Seq(S) /\ Len(a) = p - 1
      /\ \A j \in 1 .. p - 1 : a[j] = s[j]
  BY <1>1, SubSeqProperties
<1>3. /\ b \in Seq(S) /\ Len(b) = n - p
      /\ \A j \in 1 .. n - p : b[j] = s[p + j]
  <2>1. /\ b \in Seq(S)
        /\ Len(b) = IF p + 1 <= n THEN n - (p + 1) + 1 ELSE 0
        /\ \A j \in 1 .. n - (p + 1) + 1 : b[j] = s[p + 1 + j - 1]
    BY <1>1, SubSeqProperties
  <2> HIDE DEF b
  <2> QED
    BY <1>1, <2>1
<1>4. RemoveAt(s, p) = a \o b
  BY DEF RemoveAt
<1> HIDE DEF a, b
<1>5. /\ a \o b \in Seq(S) /\ Len(a \o b) = Len(a) + Len(b)
      /\ \A j \in 1 .. Len(a) + Len(b) : (a \o b)[j] = IF j <= Len(a) THEN a[j] ELSE b[j - Len(a)]
  BY <1>2, <1>3, ConcatProperties
<1>6. ASSUME NEW j \in 1 .. n - 1
      PROVE  (a \o b)[j] = IF j < p THEN s[j] ELSE s[j + 1]
  <2>1. CASE j < p
    BY <1>1, <1>2, <1>3, <1>5, <2>1
  <2>2. CASE j >= p
    <3>1. j - (p - 1) \in 1 .. n - p /\ p + (j - (p - 1)) = j + 1
      BY <1>1, <2>2
    <3>2. b[j - (p - 1)] = s[j + 1]
      BY <1>3, <3>1
    <3> QED
      BY <1>1, <1>2, <1>3, <1>5, <2>2, <3>2
  <2>3. j < p \/ j >= p
    BY <1>1
  <2> QED
    BY <2>1, <2>2, <2>3
<1> QED
  BY <1>1, <1>2, <1>3, <1>4, <1>5, <1>6

-----------------------------------------------------------------------------
(* The table                                                               *)

Bucket == [first : Keys \cup {Null}, last : Keys \cup {Null}]
BucketArrays == UNION {[0 .. n -> Bucket] : n \in Nat}
Tables == [size : Nat, order : Nat \ {0}, buckets : BucketArrays, list : Seq(Keys)]

\* The entries at the positions from a to b are those of bucket i.
IsRun(t, i, a, b) ==
  /\ a \in 1 .. Len(t.list) /\ b \in 1 .. Len(t.list) /\ a <= b
  /\ t.buckets[i] = [first |-> t.list[a], last |-> t.list[b]]
  /\ \A j \in 1 .. Len(t.list) : Index(t, t.list[j]) = i <=> a <= j /\ j <= b

NoneIn(t, i) == \A j \in 1 .. Len(t.list) : Index(t, t.list[j]) # i

BucketOK(t, i) ==
  \/ t.buckets[i] = EmptyBucket /\ NoneIn(t, i)
  \/ \E a, b \in 1 .. Len(t.list) : IsRun(t, i, a, b)

WellFormed(t) ==
  /\ t \in Tables
  /\ t.buckets \in [Indexes(t) -> Bucket]
  /\ IsInjective(t.list)
  /\ t.size = Len(t.list)
  /\ \A i \in Indexes(t) : BucketOK(t, i)

LEMMA IndexInRange ==
  ASSUME NEW t, t.order \in Nat, NEW k \in Keys
  PROVE  /\ BucketCount(t.order) \in Nat \ {0}
         /\ Index(t, k) \in Indexes(t)
<1>1. BucketCount(t.order) \in Nat \ {0}
  BY PowerIsPositive DEF BucketCount
<1>2. Hash[k] \in Nat
  BY HashAssumption
<1> QED
  BY <1>1, <1>2 DEF Index, Indexes

\* The bucket of k is empty, or k precedes its first entry.
LEMMA InsertedFields ==
  ASSUME NEW t \in Tables, t.buckets \in [Indexes(t) -> Bucket], NEW k \in Keys
  PROVE  LET r == InsertIntoBucket(t, k)
             i == Index(t, k)
             b == t.buckets[i]
         IN  /\ r.size = t.size + 1 /\ r.order = t.order
             /\ b = EmptyBucket =>
                  /\ r.list = Append(t.list, k)
                  /\ r.buckets = [t.buckets EXCEPT ![i] = [first |-> k, last |-> k]]
             /\ b # EmptyBucket =>
                  /\ r.list = InsertAt(t.list, Position(t.list, b.first), k)
                  /\ r.buckets = [t.buckets EXCEPT ![i] = [first |-> k, last |-> b.last]]
             /\ r = [size |-> r.size, order |-> r.order, buckets |-> r.buckets, list |-> r.list]
<1> DEFINE r == InsertIntoBucket(t, k)
           i == Index(t, k)
           b == t.buckets[i]
<1>1. i \in Indexes(t) /\ b \in Bucket
  BY IndexInRange DEF Tables
<1>2. CASE b = EmptyBucket
  <2>1. r = [t EXCEPT !.list = Append(@, k), !.size = @ + 1, !.buckets[i] = [first |-> k, last |-> k]]
    BY <1>2 DEF InsertIntoBucket
  <2> QED
    BY <1>2, <2>1 DEF Tables
<1>3. CASE b # EmptyBucket
  <2>1. r = [t EXCEPT !.list = InsertAt(@, Position(@, b.first), k), !.size = @ + 1,
                      !.buckets[i].first = k]
    BY <1>3 DEF InsertIntoBucket
  <2>2. [b EXCEPT !.first = k] = [first |-> k, last |-> b.last]
    BY <1>1 DEF Bucket
  <2>3. r = [t EXCEPT !.list = InsertAt(@, Position(@, b.first), k), !.size = @ + 1,
                      !.buckets[i] = [first |-> k, last |-> b.last]]
    BY <2>1, <2>2
  <2> QED
    BY <1>3, <2>3 DEF Tables
<1> QED
  BY <1>2, <1>3

\* The entries of a well-formed table, and the bucket each of them is in.
LEMMA TableFacts ==
  ASSUME NEW t, WellFormed(t)
  PROVE  /\ t \in Tables /\ t.list \in Seq(Keys) /\ Len(t.list) \in Nat
         /\ t.order \in Nat \ {0} /\ t.size = Len(t.list)
         /\ DOMAIN t.list = 1 .. Len(t.list)
         /\ \A j \in 1 .. Len(t.list) : t.list[j] \in Keys /\ Index(t, t.list[j]) \in Indexes(t)
         /\ ToSet(t.list) = {t.list[j] : j \in 1 .. Len(t.list)}
<1>1. t \in Tables
  BY DEF WellFormed
<1>2. t.list \in Seq(Keys) /\ t.order \in Nat \ {0}
  BY <1>1 DEF Tables
<1>3. \A j \in 1 .. Len(t.list) : t.list[j] \in Keys
  BY <1>2
<1>4. \A j \in 1 .. Len(t.list) : Index(t, t.list[j]) \in Indexes(t)
  BY <1>2, <1>3, IndexInRange
<1> QED
  BY <1>1, <1>2, <1>3, <1>4 DEF WellFormed, ToSet

\* A bucket is empty, or its first entry is where its run begins.
LEMMA BucketCases ==
  ASSUME NEW t, WellFormed(t), NEW i \in Indexes(t)
  PROVE  /\ t.buckets[i] = EmptyBucket => NoneIn(t, i)
         /\ t.buckets[i] # EmptyBucket => \E a, b \in 1 .. Len(t.list) : IsRun(t, i, a, b)
<1>1. BucketOK(t, i)
  BY DEF WellFormed
<1>2. \A a, b \in 1 .. Len(t.list) : IsRun(t, i, a, b) => t.buckets[i] # EmptyBucket
  BY TableFacts, NullAssumption DEF IsRun, EmptyBucket
<1> QED
  BY <1>1, <1>2 DEF BucketOK

\* insert_into_bucket at a position p of the list: the runs that begin at p or
\* behind it move by one, and no run of another bucket is cut.
LEMMA InsertKeepsRun ==
  ASSUME NEW t, WellFormed(t), NEW r, NEW k \in Keys, NEW p \in 1 .. Len(t.list) + 1,
         r.order = t.order, Opened(t.list, p, k, r.list),
         NEW m \in Indexes(t), m # Index(t, k), r.buckets[m] = t.buckets[m],
         NEW a \in 1 .. Len(t.list), NEW b \in 1 .. Len(t.list), IsRun(t, m, a, b),
         ~ (a < p /\ p <= b)
  PROVE  BucketOK(r, m)
<1> DEFINE n == Len(t.list)
           c == IF a < p THEN a ELSE a + 1
           d == IF b < p THEN b ELSE b + 1
<1>1. n \in Nat /\ a \in 1 .. n /\ b \in 1 .. n /\ a <= b /\ p \in 1 .. n + 1
  BY TableFacts DEF IsRun
<1> USE DEF Opened
<1>2. c \in 1 .. n + 1 /\ d \in 1 .. n + 1 /\ c <= d
  BY <1>1
<1>3. \A j \in 1 .. n : r.list[IF j < p THEN j ELSE j + 1] = t.list[j]
  <2> TAKE j \in 1 .. n
  <2>1. CASE j < p
    BY <1>1, <2>1
  <2>2. CASE ~ (j < p)
    <3>1. j + 1 \in 1 .. n + 1 /\ ~ (j + 1 < p) /\ j + 1 # p /\ (j + 1) - 1 = j
      BY <1>1, <2>2
    <3>2. r.list[j + 1] = t.list[(j + 1) - 1]
      BY <3>1
    <3> QED
      BY <2>2, <3>1, <3>2
  <2> QED
    BY <2>1, <2>2
<1>4. r.buckets[m] = [first |-> r.list[c], last |-> r.list[d]]
  BY <1>1, <1>3 DEF IsRun
<1>5. \A x : Index(r, x) = Index(t, x)
  BY DEF Index
<1>6. ASSUME NEW j \in 1 .. n + 1
      PROVE  Index(r, r.list[j]) = m <=> c <= j /\ j <= d
  <2>1. CASE j < p
    <3>1. j \in 1 .. n /\ r.list[j] = t.list[j]
      BY <1>1, <2>1
    <3>2. Index(t, t.list[j]) = m <=> a <= j /\ j <= b
      BY <3>1 DEF IsRun
    <3>3. (a <= j /\ j <= b) <=> (c <= j /\ j <= d)
      BY <1>1, <2>1
    <3> QED
      BY <1>5, <3>1, <3>2, <3>3
  <2>2. CASE j = p
    <3>1. r.list[j] = k /\ Index(r, k) # m
      BY <1>5, <2>2
    <3>2. ~ (c <= j /\ j <= d)
      BY <1>1, <2>2
    <3> QED
      BY <3>1, <3>2
  <2>3. CASE j > p
    <3>1. j - 1 \in 1 .. n /\ r.list[j] = t.list[j - 1]
      BY SMTT(20), <1>1, <2>3
    <3>2. Index(t, t.list[j - 1]) = m <=> a <= j - 1 /\ j - 1 <= b
      BY <3>1 DEF IsRun
    <3>3. (a <= j - 1 /\ j - 1 <= b) <=> (c <= j /\ j <= d)
      BY <1>1, <2>3
    <3> QED
      BY <1>5, <3>1, <3>2, <3>3
  <2>4. j < p \/ j = p \/ j > p
    BY <1>1
  <2> QED
    BY <2>1, <2>2, <2>3, <2>4
<1> HIDE DEF c, d
<1>7. IsRun(r, m, c, d)
  BY <1>1, <1>2, <1>4, <1>6 DEF IsRun
<1> QED
  BY <1>1, <1>2, <1>7 DEF BucketOK

\* A key that is not in the table.
LEMMA InsertKeepsInjective ==
  ASSUME NEW s \in Seq(Keys), IsInjective(s), NEW k \in Keys, k \notin ToSet(s),
         NEW p \in 1 .. Len(s) + 1, NEW r, Opened(s, p, k, r)
  PROVE  /\ IsInjective(r)
         /\ ToSet(r) = ToSet(s) \cup {k}
<1> DEFINE n == Len(s)
<1>1. n \in Nat /\ p \in 1 .. n + 1 /\ DOMAIN s = 1 .. n /\ DOMAIN r = 1 .. n + 1
  BY DEF Opened
<1> USE DEF Opened
<1>2. \A j \in 1 .. n : s[j] # k
  BY <1>1 DEF ToSet
<1>3. \A i, j \in 1 .. n : s[i] = s[j] => i = j
  BY <1>1 DEF IsInjective
<1> DEFINE from(j) == IF j < p THEN j ELSE j - 1
<1>4. /\ \A j \in 1 .. n + 1 : j # p => from(j) \in 1 .. n /\ r[j] = s[from(j)]
      /\ r[p] = k
      /\ \A i, j \in 1 .. n + 1 : i # p /\ j # p /\ from(i) = from(j) => i = j
  BY <1>1
<1> HIDE DEF from
<1>5. ASSUME NEW i \in 1 .. n + 1, NEW j \in 1 .. n + 1, r[i] = r[j] PROVE i = j
  <2>1. CASE i = p /\ j = p
    BY <2>1
  <2>2. CASE i = p /\ j # p
    BY <1>2, <1>4, <1>5, <2>2
  <2>3. CASE i # p /\ j = p
    BY <1>2, <1>4, <1>5, <2>3
  <2>4. CASE i # p /\ j # p
    <3>1. from(i) = from(j)
      BY <1>3, <1>4, <1>5, <2>4
    <3> QED
      BY <1>4, <2>4, <3>1
  <2> QED
    BY <2>1, <2>2, <2>3, <2>4
<1>6. IsInjective(r)
  BY <1>1, <1>5 DEF IsInjective
<1>7. ToSet(r) \subseteq ToSet(s) \cup {k}
  BY <1>1, <1>4 DEF ToSet
<1>8. ASSUME NEW j \in 1 .. n PROVE \E i \in 1 .. n + 1 : r[i] = s[j]
  <2>1. CASE j < p
    BY <1>1, <2>1
  <2>2. CASE j >= p
    <3>1. j + 1 \in 1 .. n + 1 /\ r[j + 1] = s[(j + 1) - 1]
      BY <1>1, <2>2
    <3> QED
      BY <3>1
  <2>3. j < p \/ j >= p
    BY <1>1
  <2> QED
    BY <2>1, <2>2, <2>3
<1>9. ToSet(s) \cup {k} \subseteq ToSet(r)
  <2>1. k \in ToSet(r)
    BY <1>1, <1>4 DEF ToSet
  <2>2. ToSet(s) \subseteq ToSet(r)
    BY <1>1, <1>8 DEF ToSet
  <2> QED
    BY <2>1, <2>2
<1> QED
  BY <1>6, <1>7, <1>9

LEMMA SameIndexes ==
  ASSUME NEW t, NEW r, r.order = t.order
  PROVE  Indexes(r) = Indexes(t) /\ \A x : Index(r, x) = Index(t, x)
BY DEF Indexes, Index

\* A new key goes where its bucket is, and every bucket stays a run.
LEMMA InsertWorks ==
  ASSUME NEW t, WellFormed(t), NEW k \in Keys, k \notin ToSet(t.list)
  PROVE  LET r == InsertIntoBucket(t, k)
         IN  /\ WellFormed(r)
             /\ r.order = t.order
             /\ ToSet(r.list) = ToSet(t.list) \cup {k}
<1> DEFINE r == InsertIntoBucket(t, k)
           i == Index(t, k)
           e == t.buckets[i]
           n == Len(t.list)
<1>1. /\ t \in Tables /\ t.buckets \in [Indexes(t) -> Bucket] /\ n \in Nat
      /\ i \in Indexes(t) /\ t.size = n /\ IsInjective(t.list) /\ t.list \in Seq(Keys)
  BY TableFacts, IndexInRange DEF WellFormed
<1>2. /\ r.size = t.size + 1 /\ r.order = t.order
      /\ e = EmptyBucket =>
           /\ r.list = Append(t.list, k)
           /\ r.buckets = [t.buckets EXCEPT ![i] = [first |-> k, last |-> k]]
      /\ e # EmptyBucket =>
           /\ r.list = InsertAt(t.list, Position(t.list, e.first), k)
           /\ r.buckets = [t.buckets EXCEPT ![i] = [first |-> k, last |-> e.last]]
      /\ r = [size |-> r.size, order |-> r.order, buckets |-> r.buckets, list |-> r.list]
  BY <1>1, InsertedFields
<1> HIDE DEF r, i, e
<1>3. Indexes(r) = Indexes(t) /\ \A x : Index(r, x) = Index(t, x)
  BY <1>2, SameIndexes
<1>4. ASSUME NEW x \in Keys \cup {Null}, r.buckets = [t.buckets EXCEPT ![i] = [first |-> k, last |-> x]],
             r.list \in Seq(Keys)
      PROVE  r \in Tables /\ r.buckets \in [Indexes(r) -> Bucket]
  <2>1. [first |-> k, last |-> x] \in Bucket
    BY DEF Bucket
  <2>2. r.buckets \in [Indexes(t) -> Bucket]
    BY <1>1, <1>4, <2>1
  <2>3. r.buckets \in BucketArrays
    <3>1. BucketCount(t.order) - 1 \in Nat
      BY <1>1, PowerIsPositive DEF BucketCount, Tables
    <3> QED
      BY <2>2, <3>1 DEF BucketArrays, Indexes
  <2>4. r.size \in Nat /\ r.order \in Nat \ {0}
    BY <1>1, <1>2 DEF Tables
  <2>5. r \in Tables
    BY <1>2, <1>4, <2>3, <2>4 DEF Tables
  <2> QED
    BY <1>3, <2>2, <2>5
<1>5. \A m \in Indexes(t) : m # i => r.buckets[m] = t.buckets[m]
  BY <1>1, <1>2
<1>6. ASSUME NEW p \in 1 .. n + 1, Opened(t.list, p, k, r.list),
             NEW m \in Indexes(t), m # i,
             \A a, b \in 1 .. n : IsRun(t, m, a, b) => ~ (a < p /\ p <= b)
      PROVE  BucketOK(r, m)
  <2>1. r.buckets[m] = t.buckets[m]
    BY <1>5, <1>6
  <2>2. CASE t.buckets[m] = EmptyBucket
    <3>1. NoneIn(t, m)
      BY <2>2, BucketCases
    <3>2. ASSUME NEW j \in 1 .. n + 1 PROVE Index(r, r.list[j]) # m
      <4>1. CASE j = p
        BY <1>3, <1>6, <4>1 DEF i, Opened
      <4>2. CASE j < p
        BY <1>1, <1>3, <1>6, <3>1, <4>2 DEF NoneIn, Opened
      <4>3. CASE j > p
        <5>1. j - 1 \in 1 .. n /\ r.list[j] = t.list[j - 1]
          BY <1>1, <1>6, <4>3 DEF Opened
        <5> QED
          BY <1>3, <3>1, <5>1 DEF NoneIn
      <4>4. j < p \/ j = p \/ j > p
        BY <1>1
      <4> QED
        BY <4>1, <4>2, <4>3, <4>4
    <3> QED
      BY <1>6, <2>1, <2>2, <3>2 DEF BucketOK, NoneIn, Opened
  <2>3. CASE t.buckets[m] # EmptyBucket
    <3>1. PICK a, b \in 1 .. n : IsRun(t, m, a, b)
      BY <2>3, BucketCases
    <3> QED
      BY <1>2, <1>6, <2>1, <3>1, InsertKeepsRun DEF i
  <2> QED
    BY <2>2, <2>3
<1>7. CASE e = EmptyBucket
  <2> DEFINE p == n + 1
  <2>1. p \in 1 .. n + 1 /\ r.list = Append(t.list, k)
    BY <1>1, <1>2, <1>7
  <2>2. Opened(t.list, p, k, r.list)
    BY <1>1, <2>1, AppendOpens
  <2>3. IsInjective(r.list) /\ ToSet(r.list) = ToSet(t.list) \cup {k}
    BY <1>1, <2>1, <2>2, InsertKeepsInjective
  <2>4. \A m \in Indexes(t), a, b \in 1 .. n : IsRun(t, m, a, b) => ~ (a < p /\ p <= b)
    BY <1>1
  <2>5. r.buckets = [t.buckets EXCEPT ![i] = [first |-> k, last |-> k]] /\ r.buckets[i] = [first |-> k, last |-> k]
    BY <1>1, <1>2, <1>7
  <2>6. IsRun(r, i, n + 1, n + 1)
    <3> /\ \A j \in 1 .. n : r.list[j] = t.list[j]
        /\ r.list[n + 1] = k /\ Len(r.list) = n + 1
      BY SMTT(20), <1>1, <2>2 DEF Opened
    <3>1. NoneIn(t, i)
      BY <1>1, <1>7, BucketCases DEF e
    <3>2. ASSUME NEW j \in 1 .. n + 1
          PROVE  Index(r, r.list[j]) = i <=> n + 1 <= j /\ j <= n + 1
      <4>1. CASE j = n + 1
        BY <1>1, <1>3, <2>1, <4>1 DEF i
      <4>2. CASE j \in 1 .. n
        BY <1>1, <1>3, <2>1, <3>1, <4>2 DEF NoneIn
      <4> QED
        BY <1>1, <4>1, <4>2
    <3> QED
      BY <1>1, <2>1, <2>5, <3>2 DEF IsRun
  <2> HIDE DEF p
  <2>7. \A m \in Indexes(r) : BucketOK(r, m)
    <3> SUFFICES ASSUME NEW m \in Indexes(t) PROVE BucketOK(r, m)
      BY <1>3
    <3>1. CASE m = i
      BY <1>1, <2>1, <2>2, <2>6, <3>1 DEF BucketOK, IsRun
    <3>2. CASE m # i
      BY <1>6, <2>1, <2>2, <2>4, <3>2
    <3> QED
      BY <3>1, <3>2
  <2>8. r \in Tables /\ r.buckets \in [Indexes(r) -> Bucket]
    BY <1>4, <2>2, <2>5 DEF Opened
  <2> QED
    BY <1>1, <1>2, <2>2, <2>3, <2>7, <2>8 DEF WellFormed, Opened, r
<1>8. CASE e # EmptyBucket
  <2>1. PICK a, b \in 1 .. n : IsRun(t, i, a, b)
    BY <1>1, <1>8, BucketCases DEF e
  <2>2. /\ e.first = t.list[a] /\ e.last = t.list[b] /\ a <= b
        /\ \A j \in 1 .. n : Index(t, t.list[j]) = i <=> a <= j /\ j <= b
    BY <2>1 DEF IsRun, e
  <2>3. Position(t.list, e.first) = a
    BY <1>1, <2>2, PositionAt
  <2>4. a \in 1 .. n + 1 /\ Opened(t.list, a, k, r.list)
    <3>1. a \in 1 .. n + 1 /\ r.list = InsertAt(t.list, a, k)
      BY <1>1, <1>2, <1>8, <2>3
    <3> QED
      BY <1>1, <3>1, InsertOpens
  <2>5. IsInjective(r.list) /\ ToSet(r.list) = ToSet(t.list) \cup {k}
    BY <1>1, <2>4, InsertKeepsInjective
  <2>6. ASSUME NEW m \in Indexes(t), m # i, NEW c \in 1 .. n, NEW d \in 1 .. n, IsRun(t, m, c, d)
        PROVE  ~ (c < a /\ a <= d)
    BY <1>1, <2>2, <2>6 DEF IsRun
  <2>7. /\ r.buckets = [t.buckets EXCEPT ![i] = [first |-> k, last |-> e.last]]
        /\ r.buckets[i] = [first |-> k, last |-> t.list[b]]
        /\ e.last \in Keys \cup {Null}
    BY <1>1, <1>2, <1>8, <2>2
  <2>8. IsRun(r, i, a, b + 1)
    <3>1. /\ a \in 1 .. n + 1 /\ b + 1 \in 1 .. n + 1 /\ a <= b + 1
          /\ r.list[a] = k /\ r.list[b + 1] = t.list[b]
      <4>1. b + 1 \in 1 .. n + 1 /\ ~ (b + 1 < a) /\ b + 1 # a /\ (b + 1) - 1 = b
        BY <1>1, <2>2
      <4>2. r.list[b + 1] = t.list[(b + 1) - 1]
        BY <2>4, <4>1 DEF Opened
      <4> QED
        BY <1>1, <2>2, <2>4, <4>1, <4>2 DEF Opened
    <3>2. ASSUME NEW j \in 1 .. n + 1
          PROVE  Index(r, r.list[j]) = i <=> a <= j /\ j <= b + 1
      <4>1. CASE j = a
        BY <1>1, <1>3, <2>2, <3>1, <4>1 DEF i
      <4>2. CASE j < a
        <5>1. j \in 1 .. n /\ r.list[j] = t.list[j]
          BY <1>1, <2>4, <4>2 DEF Opened
        <5>2. ~ (a <= j)
          BY <1>1, <4>2
        <5> QED
          BY <1>3, <2>2, <5>1, <5>2
      <4>3. CASE j > a
        <5>1. j - 1 \in 1 .. n /\ r.list[j] = t.list[j - 1]
          BY <1>1, <2>4, <4>3 DEF Opened
        <5>2. (a <= j /\ j <= b + 1) <=> (a <= j - 1 /\ j - 1 <= b)
          BY <1>1, <4>3
        <5> QED
          BY <1>3, <2>2, <5>1, <5>2
      <4>4. j < a \/ j = a \/ j > a
        BY <1>1
      <4> QED
        BY <4>1, <4>2, <4>3, <4>4
    <3>3. r.buckets[i] = [first |-> r.list[a], last |-> r.list[b + 1]]
      BY <2>7, <3>1
    <3> QED
      BY <2>4, <3>1, <3>2, <3>3 DEF IsRun, Opened
  <2>9. \A m \in Indexes(r) : BucketOK(r, m)
    <3> SUFFICES ASSUME NEW m \in Indexes(t) PROVE BucketOK(r, m)
      BY <1>3
    <3>1. CASE m = i
      <4>1. a \in 1 .. Len(r.list) /\ b + 1 \in 1 .. Len(r.list)
        BY <2>8 DEF IsRun
      <4> QED
        BY <2>8, <3>1, <4>1 DEF BucketOK
    <3>2. CASE m # i
      BY <1>6, <2>4, <2>6, <3>2
    <3> QED
      BY <3>1, <3>2
  <2>10. r \in Tables /\ r.buckets \in [Indexes(r) -> Bucket]
    BY <1>4, <2>4, <2>7 DEF Opened
  <2> QED
    BY <1>1, <1>2, <2>4, <2>5, <2>9, <2>10 DEF WellFormed, Opened, r
<1> QED
  BY <1>7, <1>8

\* r is the list s without what is at position p.
Closed(s, p, r) ==
  /\ r \in Seq(Keys) /\ Len(r) = Len(s) - 1
  /\ \A j \in 1 .. Len(s) - 1 : r[j] = IF j < p THEN s[j] ELSE s[j + 1]

\* list_remove takes out the one entry it is given.
LEMMA UnlinkCloses ==
  ASSUME NEW s \in Seq(Keys), IsInjective(s), NEW p \in 1 .. Len(s)
  PROVE  Closed(s, p, Unlinked(s, s[p]))
<1>1. Position(s, s[p]) = p
  BY PositionAt
<1>2. Unlinked(s, s[p]) = RemoveAt(s, p)
  BY <1>1 DEF Unlinked
<1> QED
  BY <1>2, RemovedAt DEF Closed

LEMMA CloseKeepsInjective ==
  ASSUME NEW s \in Seq(Keys), IsInjective(s), NEW p \in 1 .. Len(s), NEW r, Closed(s, p, r)
  PROVE  /\ IsInjective(r)
         /\ ToSet(r) = ToSet(s) \ {s[p]}
<1> DEFINE n == Len(s)
           from(j) == IF j < p THEN j ELSE j + 1
<1>1. n \in Nat /\ p \in 1 .. n /\ DOMAIN s = 1 .. n /\ DOMAIN r = 1 .. n - 1
  BY DEF Closed
<1>2. \A i, j \in 1 .. n : s[i] = s[j] => i = j
  BY <1>1 DEF IsInjective
<1>3. /\ \A j \in 1 .. n - 1 : from(j) \in 1 .. n /\ from(j) # p /\ r[j] = s[from(j)]
      /\ \A i, j \in 1 .. n - 1 : from(i) = from(j) => i = j
  BY <1>1 DEF Closed
<1>4. \A i \in 1 .. n : i # p => \E j \in 1 .. n - 1 : from(j) = i
  <2> SUFFICES ASSUME NEW i \in 1 .. n, i # p PROVE \E j \in 1 .. n - 1 : from(j) = i
    OBVIOUS
  <2>1. CASE i < p
    <3>1. i \in 1 .. n - 1 /\ from(i) = i
      BY <1>1, <2>1
    <3> QED
      BY <3>1
  <2>2. CASE i > p
    <3>1. i - 1 \in 1 .. n - 1 /\ ~ (i - 1 < p) /\ (i - 1) + 1 = i
      BY <1>1, <2>2
    <3> QED
      BY <3>1
  <2>3. i < p \/ i > p
    BY <1>1
  <2> QED
    BY <2>1, <2>2, <2>3
<1> HIDE DEF from
<1>5. ASSUME NEW i \in 1 .. n - 1, NEW j \in 1 .. n - 1, r[i] = r[j] PROVE i = j
  <2>1. from(i) = from(j)
    BY <1>2, <1>3, <1>5
  <2> QED
    BY <1>3, <2>1
<1>6. IsInjective(r)
  BY <1>1, <1>5 DEF IsInjective
<1>7. ToSet(r) \subseteq ToSet(s) \ {s[p]}
  <2> SUFFICES ASSUME NEW j \in 1 .. n - 1 PROVE r[j] \in ToSet(s) \ {s[p]}
    BY <1>1 DEF ToSet
  <2>1. from(j) \in 1 .. n /\ from(j) # p /\ r[j] = s[from(j)]
    BY <1>3
  <2>2. s[from(j)] # s[p]
    BY <1>2, <2>1
  <2> QED
    BY <1>1, <2>1, <2>2 DEF ToSet
<1>8. ToSet(s) \ {s[p]} \subseteq ToSet(r)
  <2> SUFFICES ASSUME NEW i \in 1 .. n, i # p PROVE s[i] \in ToSet(r)
    BY <1>1 DEF ToSet
  <2>1. PICK j \in 1 .. n - 1 : from(j) = i
    BY <1>4
  <2>2. r[j] = s[i]
    BY <1>3, <2>1
  <2> QED
    BY <1>1, <2>2 DEF ToSet
<1> QED
  BY <1>6, <1>7, <1>8

\* remove_from_bucket: the runs behind position p move by one.
LEMMA RemoveKeepsRun ==
  ASSUME NEW t, WellFormed(t), NEW r, NEW p \in 1 .. Len(t.list),
         r.order = t.order, Closed(t.list, p, r.list),
         NEW m \in Indexes(t), m # Index(t, t.list[p]), r.buckets[m] = t.buckets[m],
         NEW a \in 1 .. Len(t.list), NEW b \in 1 .. Len(t.list), IsRun(t, m, a, b)
  PROVE  BucketOK(r, m)
<1> DEFINE n == Len(t.list)
           c == IF a < p THEN a ELSE a - 1
           d == IF b < p THEN b ELSE b - 1
<1>1. n \in Nat /\ a \in 1 .. n /\ b \in 1 .. n /\ a <= b /\ p \in 1 .. n
  BY TableFacts DEF IsRun
<1>2. ~ (a <= p /\ p <= b)
  BY <1>1 DEF IsRun
<1>3. c \in 1 .. n - 1 /\ d \in 1 .. n - 1 /\ c <= d
  BY <1>1, <1>2
<1> DEFINE R == r.list
           L == t.list
<1>0. /\ Len(R) = n - 1
      /\ \A j \in 1 .. n - 1 : (j < p => R[j] = L[j]) /\ (j >= p => R[j] = L[j + 1])
  <2>1. \A j \in 1 .. n - 1 : R[j] = IF j < p THEN L[j] ELSE L[j + 1]
    BY DEF Closed
  <2> HIDE DEF R, L
  <2>2. \A j \in 1 .. n - 1 : j >= p <=> ~ (j < p)
    BY <1>1
  <2>3. Len(R) = n - 1
    BY DEF R, L, Closed
  <2> QED
    BY <2>1, <2>2, <2>3
<1>4. \A j \in 1 .. n : j # p => r.list[IF j < p THEN j ELSE j - 1] = t.list[j]
  <2> SUFFICES ASSUME NEW j \in 1 .. n, j # p
               PROVE  r.list[IF j < p THEN j ELSE j - 1] = t.list[j]
    OBVIOUS
  <2>1. CASE j < p
    <3>1. j \in 1 .. n - 1
      BY <1>1, <2>1
    <3> QED
      BY <1>0, <2>1, <3>1
  <2>2. CASE ~ (j < p)
    <3>1. j - 1 \in 1 .. n - 1 /\ j - 1 >= p /\ (j - 1) + 1 = j
      BY <1>1, <2>2
    <3>2. r.list[j - 1] = t.list[(j - 1) + 1]
      BY <1>0, <3>1
    <3> QED
      BY <2>2, <3>1, <3>2
  <2> QED
    BY <2>1, <2>2
<1>5. r.buckets[m] = [first |-> r.list[c], last |-> r.list[d]]
  <2>1. a # p /\ b # p
    BY <1>1, <1>2
  <2>2. R[c] = L[a] /\ R[d] = L[b]
    BY <1>4, <2>1
  <2>3. r.buckets[m] = [first |-> L[a], last |-> L[b]]
    BY DEF IsRun
  <2> HIDE DEF c, d, R, L
  <2>4. r.buckets[m] = [first |-> R[c], last |-> R[d]]
    BY <2>2, <2>3
  <2> QED
    BY <2>4 DEF R
<1>6. \A x : Index(r, x) = Index(t, x)
  BY DEF Index
<1>7. ASSUME NEW j \in 1 .. n - 1
      PROVE  Index(r, r.list[j]) = m <=> c <= j /\ j <= d
  <2>1. CASE j < p
    <3>1. j \in 1 .. n /\ r.list[j] = t.list[j]
      BY <1>0, <1>1, <2>1
    <3>2. Index(t, t.list[j]) = m <=> a <= j /\ j <= b
      BY <3>1 DEF IsRun
    <3>3. (a <= j /\ j <= b) <=> (c <= j /\ j <= d)
      BY <1>1, <1>2, <2>1
    <3> QED
      BY <1>6, <3>1, <3>2, <3>3
  <2>2. CASE j >= p
    <3>1. j + 1 \in 1 .. n /\ r.list[j] = t.list[j + 1]
      BY <1>0, <1>1, <2>2
    <3>2. Index(t, t.list[j + 1]) = m <=> a <= j + 1 /\ j + 1 <= b
      BY <3>1 DEF IsRun
    <3>3. (a <= j + 1 /\ j + 1 <= b) <=> (c <= j /\ j <= d)
      BY <1>1, <1>2, <2>2
    <3> QED
      BY <1>6, <3>1, <3>2, <3>3
  <2>3. j < p \/ j >= p
    BY <1>1
  <2> QED
    BY <2>1, <2>2, <2>3
<1> HIDE DEF c, d
<1>8. IsRun(r, m, c, d)
  BY <1>0, <1>1, <1>3, <1>5, <1>7 DEF IsRun
<1> QED
  BY <1>0, <1>1, <1>3, <1>8 DEF BucketOK

\* What remove_from_bucket makes of the bucket of k.
Shrunk(t, k) ==
  LET b == t.buckets[Index(t, k)]
  IN  CASE b.first = k /\ b.last = k -> EmptyBucket
        [] b.first = k /\ b.last # k -> [b EXCEPT !.first = Neighbour(t.list, k, 1)]
        [] b.first # k /\ b.last = k -> [b EXCEPT !.last = Neighbour(t.list, k, -1)]
        [] OTHER -> b

LEMMA RemovedFields ==
  ASSUME NEW t \in Tables, t.buckets \in [Indexes(t) -> Bucket], NEW k \in Keys
  PROVE  LET r == RemoveFromBucket(t, k)
         IN  /\ r.size = t.size - 1 /\ r.order = t.order
             /\ r.list = Unlinked(t.list, k)
             /\ r.buckets = [t.buckets EXCEPT ![Index(t, k)] = Shrunk(t, k)]
             /\ r = [size |-> r.size, order |-> r.order, buckets |-> r.buckets, list |-> r.list]
<1> DEFINE r == RemoveFromBucket(t, k)
<1>1. r = [t EXCEPT !.list = Unlinked(@, k), !.size = @ - 1, !.buckets[Index(t, k)] = Shrunk(t, k)]
  BY DEF RemoveFromBucket, Shrunk
<1> QED
  BY <1>1 DEF Tables

LEMMA ClosedFacts ==
  ASSUME NEW s \in Seq(Keys), NEW p \in 1 .. Len(s), NEW r, Closed(s, p, r)
  PROVE  /\ r \in Seq(Keys) /\ Len(r) = Len(s) - 1
         /\ \A j \in 1 .. Len(s) - 1 : (j < p => r[j] = s[j]) /\ (j >= p => r[j] = s[j + 1])
<1>1. \A j \in 1 .. Len(s) - 1 : j >= p <=> ~ (j < p)
  OBVIOUS
<1> QED
  BY <1>1 DEF Closed

\* A bucket that has lost its entry at position p.
LEMMA ShrunkIsRun ==
  ASSUME NEW t, WellFormed(t), NEW p \in 1 .. Len(t.list),
         NEW r, r.order = t.order, Closed(t.list, p, r.list),
         r.buckets[Index(t, t.list[p])] = Shrunk(t, t.list[p])
  PROVE  /\ Shrunk(t, t.list[p]) \in Bucket
         /\ BucketOK(r, Index(t, t.list[p]))
<1> DEFINE n == Len(t.list)
           L == t.list
           R == r.list
           k == L[p]
           i == Index(t, k)
           e == t.buckets[i]
<1>1. /\ n \in Nat /\ L \in Seq(Keys) /\ i \in Indexes(t) /\ k \in Keys
      /\ \A x, y \in 1 .. n : L[x] = L[y] => x = y
      /\ IsInjective(L) /\ DOMAIN L = 1 .. n
      /\ \A j \in 1 .. n : L[j] \in Keys
  BY TableFacts DEF WellFormed, IsInjective
<1>2. /\ Len(R) = n - 1
      /\ \A j \in 1 .. n - 1 : (j < p => R[j] = L[j]) /\ (j >= p => R[j] = L[j + 1])
  <2>1. L \in Seq(Keys) /\ p \in 1 .. Len(L) /\ Closed(L, p, R)
    BY <1>1
  <2>2. n = Len(L)
    OBVIOUS
  <2> HIDE DEF L, R, n
  <2>3. /\ Len(R) = Len(L) - 1
        /\ \A j \in 1 .. Len(L) - 1 : (j < p => R[j] = L[j]) /\ (j >= p => R[j] = L[j + 1])
    BY <2>1, ClosedFacts
  <2> QED
    BY <2>2, <2>3
<1>3. \A x : Index(r, x) = Index(t, x)
  BY SameIndexes
<1>4. ~ NoneIn(t, i)
  BY <1>1 DEF NoneIn
<1>5. PICK a, b \in 1 .. n : IsRun(t, i, a, b)
  BY <1>1, <1>4, BucketCases
<1>6. /\ a <= b /\ e = [first |-> L[a], last |-> L[b]]
      /\ \A j \in 1 .. n : Index(t, L[j]) = i <=> a <= j /\ j <= b
  BY <1>5 DEF IsRun
<1>7. a <= p /\ p <= b
  BY <1>6
<1>8. Position(L, k) = p
  BY <1>1, PositionAt
<1>9. (e.first = k <=> p = a) /\ (e.last = k <=> p = b)
  BY <1>1, <1>6
<1>10. /\ p + 1 <= n => Neighbour(L, k, 1) = L[p + 1]
       /\ p - 1 >= 1 => Neighbour(L, k, -1) = L[p - 1]
  BY <1>1, <1>8 DEF Neighbour
<1>11. r.buckets[i] = Shrunk(t, k)
  OBVIOUS
<1>12. Shrunk(t, k) = CASE e.first = k /\ e.last = k -> EmptyBucket
                        [] e.first = k /\ e.last # k -> [e EXCEPT !.first = Neighbour(L, k, 1)]
                        [] e.first # k /\ e.last = k -> [e EXCEPT !.last = Neighbour(L, k, -1)]
                        [] OTHER -> e
  BY DEF Shrunk
<1> HIDE DEF L, R, k, i, e
<1>13. CASE a = b
  <2>1. Shrunk(t, k) = EmptyBucket
    BY <1>7, <1>9, <1>12, <1>13
  <2>2. NoneIn(r, i)
    <3> SUFFICES ASSUME NEW j \in 1 .. n - 1 PROVE Index(t, R[j]) # i
      BY <1>2, <1>3 DEF NoneIn, R
    <3>1. CASE j < p
      <4>1. j \in 1 .. n /\ R[j] = L[j] /\ ~ (a <= j)
        BY <1>2, <1>7, <1>13, <3>1
      <4> QED
        BY <1>6, <4>1
    <3>2. CASE j >= p
      <4>1. j + 1 \in 1 .. n /\ R[j] = L[j + 1] /\ ~ (j + 1 <= b)
        BY <1>2, <1>7, <1>13, <3>2
      <4> QED
        BY <1>6, <4>1
    <3>3. j < p \/ j >= p
      OBVIOUS
    <3> QED
      BY <3>1, <3>2, <3>3
  <2>3. EmptyBucket \in Bucket
    BY DEF EmptyBucket, Bucket
  <2> QED
    BY <1>11, <2>1, <2>2, <2>3 DEF BucketOK, i, k, L
<1>14. CASE a # b
  <2>1. b - 1 \in 1 .. n - 1 /\ a \in 1 .. n - 1 /\ a <= b - 1
    BY <1>1, <1>6, <1>14
  <2>2. R[b - 1] = IF p = b THEN L[b - 1] ELSE L[b]
    <3>1. CASE p = b
      BY <1>2, <2>1, <3>1
    <3>2. CASE p # b
      <4>1. b - 1 >= p /\ (b - 1) + 1 = b
        BY <1>7, <3>2
      <4>2. R[b - 1] = L[(b - 1) + 1]
        BY <1>2, <2>1, <4>1
      <4> QED
        BY <3>2, <4>1, <4>2
    <3> QED
      BY <3>1, <3>2
  <2>3. R[a] = IF p = a THEN L[a + 1] ELSE L[a]
    <3>1. CASE p = a
      BY <1>2, <2>1, <3>1
    <3>2. CASE p # a
      <4>1. a < p
        BY <1>7, <3>2
      <4> QED
        BY <1>2, <2>1, <3>2, <4>1
    <3> QED
      BY <3>1, <3>2
  <2>4. Shrunk(t, k) = [first |-> R[a], last |-> R[b - 1]]
    <3>1. CASE p = a
      <4>1. Shrunk(t, k) = [e EXCEPT !.first = Neighbour(L, k, 1)]
        BY <1>9, <1>12, <1>14, <3>1
      <4>2. Neighbour(L, k, 1) = L[a + 1]
        BY <1>6, <1>10, <1>14, <3>1
      <4>3. R[a] = L[a + 1] /\ R[b - 1] = L[b]
        BY <1>14, <2>2, <2>3, <3>1
      <4> QED
        BY <1>6, <4>1, <4>2, <4>3
    <3>2. CASE p = b
      <4>1. Shrunk(t, k) = [e EXCEPT !.last = Neighbour(L, k, -1)]
        BY <1>9, <1>12, <1>14, <3>2
      <4>2. Neighbour(L, k, -1) = L[b - 1]
        BY <1>6, <1>10, <1>14, <3>2
      <4>3. R[a] = L[a] /\ R[b - 1] = L[b - 1]
        BY <1>14, <2>2, <2>3, <3>2
      <4> QED
        BY <1>6, <4>1, <4>2, <4>3
    <3>3. CASE p # a /\ p # b
      <4>1. Shrunk(t, k) = e
        BY <1>9, <1>12, <3>3
      <4> QED
        BY <1>6, <2>2, <2>3, <3>3, <4>1
    <3> QED
      BY <3>1, <3>2, <3>3
  <2>5. R[a] \in Keys /\ R[b - 1] \in Keys
    <3>1. a + 1 \in 1 .. n /\ b - 1 \in 1 .. n
      BY <1>1, <2>1
    <3> QED
      BY <1>1, <2>2, <2>3, <3>1 DEF L
  <2>6. Shrunk(t, k) \in Bucket
    BY <2>4, <2>5 DEF Bucket
  <2>7. ASSUME NEW j \in 1 .. n - 1
        PROVE  Index(r, R[j]) = i <=> a <= j /\ j <= b - 1
    <3>1. CASE j < p
      <4>1. j \in 1 .. n /\ R[j] = L[j]
        BY <1>2, <3>1
      <4>2. (a <= j /\ j <= b) <=> (a <= j /\ j <= b - 1)
        BY <1>7, <3>1
      <4> QED
        BY <1>3, <1>6, <4>1, <4>2
    <3>2. CASE j >= p
      <4>1. j + 1 \in 1 .. n /\ R[j] = L[j + 1]
        BY <1>2, <3>2
      <4>2. (a <= j + 1 /\ j + 1 <= b) <=> (a <= j /\ j <= b - 1)
        BY <1>7, <3>2
      <4> QED
        BY <1>3, <1>6, <4>1, <4>2
    <3>3. j < p \/ j >= p
      OBVIOUS
    <3> QED
      BY <3>1, <3>2, <3>3
  <2>8. r.buckets[i] = [first |-> R[a], last |-> R[b - 1]]
    BY <1>11, <2>4
  <2>9. IsRun(r, i, a, b - 1)
    BY <1>2, <2>1, <2>7, <2>8 DEF IsRun, R
  <2>10. a \in 1 .. Len(r.list) /\ b - 1 \in 1 .. Len(r.list)
    BY <2>9 DEF IsRun
  <2>11. BucketOK(r, i)
    BY <2>9, <2>10 DEF BucketOK
  <2> QED
    BY <2>6, <2>11 DEF i, k, L
<1> QED
  BY <1>13, <1>14

\* An entry of the table is taken out, and every bucket stays a run.
LEMMA RemoveWorks ==
  ASSUME NEW t, WellFormed(t), NEW k \in ToSet(t.list)
  PROVE  LET r == RemoveFromBucket(t, k)
         IN  /\ WellFormed(r)
             /\ r.order = t.order
             /\ r.size = t.size - 1
             /\ ToSet(r.list) = ToSet(t.list) \ {k}
<1> DEFINE r == RemoveFromBucket(t, k)
           n == Len(t.list)
           i == Index(t, k)
<1>1. PICK p \in 1 .. n : k = t.list[p]
  <2>1. ToSet(t.list) = {t.list[j] : j \in 1 .. n}
    BY TableFacts
  <2> QED
    BY <2>1
<1>2. /\ t \in Tables /\ t.buckets \in [Indexes(t) -> Bucket] /\ n \in Nat
      /\ i \in Indexes(t) /\ t.size = n /\ IsInjective(t.list) /\ t.list \in Seq(Keys)
      /\ k \in Keys /\ p \in 1 .. n
  BY <1>1, TableFacts DEF WellFormed
<1>3. /\ r.size = t.size - 1 /\ r.order = t.order
      /\ r.list = Unlinked(t.list, k)
      /\ r.buckets = [t.buckets EXCEPT ![i] = Shrunk(t, k)]
      /\ r = [size |-> r.size, order |-> r.order, buckets |-> r.buckets, list |-> r.list]
  BY <1>2, RemovedFields
<1> HIDE DEF r
<1>4. Closed(t.list, p, r.list)
  BY <1>1, <1>2, <1>3, UnlinkCloses
<1>5. Len(r.list) = n - 1 /\ r.list \in Seq(Keys)
  BY <1>4 DEF Closed
<1>6. IsInjective(r.list) /\ ToSet(r.list) = ToSet(t.list) \ {k}
  BY <1>1, <1>2, <1>4, CloseKeepsInjective
<1>7. r.buckets[i] = Shrunk(t, k) /\ \A m \in Indexes(t) : m # i => r.buckets[m] = t.buckets[m]
  BY <1>2, <1>3
<1>8. Indexes(r) = Indexes(t) /\ \A x : Index(r, x) = Index(t, x)
  BY <1>3, SameIndexes
<1>9. Shrunk(t, k) \in Bucket /\ BucketOK(r, i)
  BY <1>1, <1>2, <1>3, <1>4, <1>7, ShrunkIsRun
<1>10. ASSUME NEW m \in Indexes(t), m # i PROVE BucketOK(r, m)
  <2>1. r.buckets[m] = t.buckets[m]
    BY <1>7, <1>10
  <2>2. CASE t.buckets[m] = EmptyBucket
    <3>1. NoneIn(t, m)
      BY <2>2, BucketCases
    <3>2. ASSUME NEW j \in 1 .. n - 1 PROVE Index(r, r.list[j]) # m
      <4>1. PICK x \in 1 .. n : r.list[j] = t.list[x]
        <5>1. j \in 1 .. n /\ j + 1 \in 1 .. n
          BY <1>2
        <5> QED
          BY <1>4, <5>1 DEF Closed
      <4> QED
        BY <1>8, <3>1, <4>1 DEF NoneIn
    <3> QED
      BY <1>5, <2>1, <2>2, <3>2 DEF BucketOK, NoneIn
  <2>3. CASE t.buckets[m] # EmptyBucket
    <3>1. PICK a, b \in 1 .. n : IsRun(t, m, a, b)
      BY <2>3, BucketCases
    <3> QED
      BY <1>1, <1>2, <1>3, <1>4, <1>10, <2>1, <3>1, RemoveKeepsRun
  <2> QED
    BY <2>2, <2>3
<1>11. r.buckets \in [Indexes(t) -> Bucket]
  BY <1>2, <1>3, <1>9
<1>12. r.buckets \in BucketArrays
  <2>1. BucketCount(t.order) - 1 \in Nat
    BY <1>2, PowerIsPositive DEF BucketCount, Tables
  <2> QED
    BY <1>11, <2>1 DEF BucketArrays, Indexes
<1>13. r \in Tables
  <2>1. r.size \in Nat /\ r.order \in Nat \ {0}
    BY <1>2, <1>3 DEF Tables
  <2> QED
    BY <1>3, <1>5, <1>12, <2>1 DEF Tables
<1>14. \A m \in Indexes(r) : BucketOK(r, m)
  BY <1>8, <1>9, <1>10
<1>15. WellFormed(r)
  BY <1>2, <1>3, <1>5, <1>6, <1>8, <1>11, <1>13, <1>14 DEF WellFormed
<1> QED
  BY <1>3, <1>6, <1>15 DEF r

\* The entries from first to last of a bucket are those whose hash is in it.
LEMMA ChainIsBucket ==
  ASSUME NEW t, WellFormed(t), NEW i \in Indexes(t), t.buckets[i] # EmptyBucket
  PROVE  Chain(t, i) = {k \in ToSet(t.list) : Index(t, k) = i}
<1> DEFINE n == Len(t.list)
<1>1. PICK a, b \in 1 .. n : IsRun(t, i, a, b)
  BY BucketCases
<1>2. /\ n \in Nat /\ t.list \in Seq(Keys) /\ DOMAIN t.list = 1 .. n /\ IsInjective(t.list)
      /\ ToSet(t.list) = {t.list[j] : j \in 1 .. n}
  BY TableFacts DEF WellFormed
<1>3. /\ t.buckets[i].first = t.list[a] /\ t.buckets[i].last = t.list[b]
      /\ \A j \in 1 .. n : Index(t, t.list[j]) = i <=> a <= j /\ j <= b
  BY <1>1 DEF IsRun
<1>4. Position(t.list, t.buckets[i].first) = a /\ Position(t.list, t.buckets[i].last) = b
  BY <1>2, <1>3, PositionAt
<1>5. Chain(t, i) = {t.list[j] : j \in 1 .. n \cap (a .. b)}
  BY <1>2, <1>4 DEF Chain
<1>6. \A j \in 1 .. n : j \in 1 .. n \cap (a .. b) <=> Index(t, t.list[j]) = i
  BY <1>2, <1>3
<1>7. 1 .. n \cap (a .. b) = {j \in 1 .. n : Index(t, t.list[j]) = i}
  BY <1>6
<1> QED
  BY <1>2, <1>5, <1>7

\* find_entry finds the entries of the table and no other.
LEMMA FoundIff ==
  ASSUME NEW t, WellFormed(t), NEW k \in Keys
  PROVE  Found(t, k) <=> k \in ToSet(t.list)
<1> DEFINE i == Index(t, k)
<1>1. i \in Indexes(t)
  BY TableFacts, IndexInRange
<1>2. CASE t.buckets[i] = EmptyBucket
  <2>1. NoneIn(t, i)
    BY <1>1, <1>2, BucketCases
  <2>2. k \notin ToSet(t.list)
    <3>1. ToSet(t.list) = {t.list[j] : j \in 1 .. Len(t.list)}
      BY TableFacts
    <3> QED
      BY <2>1, <3>1 DEF NoneIn
  <2> QED
    BY <1>2, <2>2 DEF Found
<1>3. CASE t.buckets[i] # EmptyBucket
  <2>1. Chain(t, i) = {x \in ToSet(t.list) : Index(t, x) = i}
    BY <1>1, <1>3, ChainIsBucket
  <2> QED
    BY <1>3, <2>1 DEF Found
<1> QED
  BY <1>2, <1>3

\* A table whose buckets have just been reset.
LEMMA ResetIsWellFormed ==
  ASSUME NEW order \in Nat \ {0}
  PROVE  LET t == [size |-> 0, order |-> order, buckets |-> ResetBuckets(order), list |-> << >>]
         IN  /\ WellFormed(t)
             /\ ToSet(t.list) = {}
<1> DEFINE t == [size |-> 0, order |-> order, buckets |-> ResetBuckets(order), list |-> << >>]
<1>1. BucketCount(order) - 1 \in Nat
  BY PowerIsPositive DEF BucketCount
<1>2. EmptyBucket \in Bucket
  BY DEF EmptyBucket, Bucket
<1>3. /\ t.list = << >> /\ t.size = 0 /\ t.order = order
      /\ t.buckets = [i \in 0 .. BucketCount(order) - 1 |-> EmptyBucket]
      /\ Indexes(t) = 0 .. BucketCount(order) - 1
  BY DEF ResetBuckets, Indexes
<1>4. t.buckets \in [Indexes(t) -> Bucket]
  BY <1>2, <1>3
<1>5. t.buckets \in BucketArrays
  BY <1>1, <1>3, <1>4 DEF BucketArrays
<1>6. t \in Tables
  <2>1. << >> \in Seq(Keys)
    OBVIOUS
  <2> QED
    BY <1>3, <1>5, <2>1 DEF Tables
<1> HIDE DEF t
<1>7. Len(t.list) = 0 /\ DOMAIN t.list = {}
  BY <1>3
<1>8. \A i \in Indexes(t) : BucketOK(t, i)
  BY <1>3, <1>7 DEF BucketOK, NoneIn
<1>9. IsInjective(t.list) /\ ToSet(t.list) = {}
  BY <1>7 DEF IsInjective, ToSet
<1>10. WellFormed(t)
  BY <1>3, <1>4, <1>6, <1>7, <1>8, <1>9 DEF WellFormed
<1> QED
  BY <1>9, <1>10 DEF t

-----------------------------------------------------------------------------
(* Loops that FoldLeft stands for: that of rehash inserts one entry after  *)
(* the other, those of the updates merge one entry after the other.        *)

LEMMA MaxIsLast ==
  ASSUME NEW k \in Nat, NEW s \in SUBSET (1 .. k + 1), k + 1 \in s
  PROVE  Max(s) = k + 1
<1>1. \A x \in s : k + 1 >= x
  OBVIOUS
<1>2. \A x \in s : (\A y \in s : x >= y) => x = k + 1
  OBVIOUS
<1> QED
  BY <1>1, <1>2 DEF Max

\* What a turn makes of x, in the loop of rehash or in that of an update.
Turn(loop, x, e) ==
  IF loop = "rehash" THEN InsertIntoBucket(x, e) ELSE MergeEntry(loop, x, e)

\* g holds, for each set of positions of L up to n, what the turns for these
\* positions make of base.
Turns(loop, L, base, n, g) ==
  g = [s \in SUBSET (1 .. n) |->
         IF s = {} THEN base ELSE Turn(loop, g[s \ {Max(s)}], L[Max(s)])]

LEMMA TurnsExist ==
  ASSUME NEW loop, NEW L, NEW base
  PROVE  \A n \in Nat : \E g : Turns(loop, L, base, n, g)
<1> DEFINE S == {n \in Nat : \E g : Turns(loop, L, base, n, g)}
<1>1. 0 \in S
  <2> DEFINE g == [s \in SUBSET (1 .. 0) |-> base]
  <2>1. \A s \in SUBSET (1 .. 0) : s = {}
    OBVIOUS
  <2>2. Turns(loop, L, base, 0, g)
    BY <2>1, Zenon DEF Turns
  <2> QED
    BY <2>2
<1>2. ASSUME NEW n \in Nat, n \in S PROVE n + 1 \in S
  <2>1. PICK g : Turns(loop, L, base, n, g)
    BY <1>2
  <2> DEFINE step(f, s) == IF s = {} THEN base ELSE Turn(loop, f[s \ {Max(s)}], L[Max(s)])
             h == [s \in SUBSET (1 .. n + 1) |->
                     IF n + 1 \in s THEN Turn(loop, g[s \ {n + 1}], L[n + 1]) ELSE g[s]]
  <2>2. \A s \in SUBSET (1 .. n) : g[s] = step(g, s)
    <3> HIDE DEF step
    <3>1. g = [s \in SUBSET (1 .. n) |-> step(g, s)]
      BY <2>1 DEF Turns, step
    <3> QED
      BY <3>1, Zenon
  <2>3. \A s \in SUBSET (1 .. n + 1) : n + 1 \notin s => s \in SUBSET (1 .. n) /\ h[s] = g[s]
    OBVIOUS
  <2>4. ASSUME NEW s \in SUBSET (1 .. n + 1) PROVE h[s] = step(h, s)
    <3>1. CASE n + 1 \in s
      <4>1. Max(s) = n + 1 /\ s # {}
        BY <3>1, MaxIsLast
      <4>2. s \ {n + 1} \in SUBSET (1 .. n + 1) /\ n + 1 \notin s \ {n + 1}
        OBVIOUS
      <4>3. h[s \ {n + 1}] = g[s \ {n + 1}]
        BY <2>3, <4>2
      <4>4. h[s] = Turn(loop, g[s \ {n + 1}], L[n + 1])
        BY <3>1
      <4> HIDE DEF h
      <4> QED
        BY <4>1, <4>3, <4>4
    <3>2. CASE n + 1 \notin s
      <4>1. s \in SUBSET (1 .. n) /\ h[s] = g[s]
        BY <2>3, <3>2
      <4>2. h[s \ {Max(s)}] = g[s \ {Max(s)}]
        <5>1. s \ {Max(s)} \in SUBSET (1 .. n + 1) /\ n + 1 \notin s \ {Max(s)}
          BY <3>2
        <5> QED
          BY <2>3, <5>1
      <4>3. g[s] = step(g, s)
        BY <2>2, <4>1
      <4> HIDE DEF h
      <4> QED
        BY <4>1, <4>2, <4>3
    <3> QED
      BY <3>1, <3>2
  <2>5. h = [s \in SUBSET (1 .. n + 1) |-> step(h, s)]
    <3> HIDE DEF step
    <3>1. h = [s \in SUBSET (1 .. n + 1) |-> h[s]]
      BY Zenon
    <3> HIDE DEF h
    <3> QED
      BY <2>4, <3>1, Zenon
  <2> HIDE DEF h
  <2>6. Turns(loop, L, base, n + 1, h)
    BY <2>5 DEF Turns
  <2> QED
    BY <2>6
<1> HIDE DEF S
<1>3. Nat \subseteq S
  BY <1>1, <1>2, InductionOverSet
<1> QED
  BY <1>3 DEF S

\* The tables the loop of rehash goes through.
Inserts(L, base, n, g) ==
  g = [s \in SUBSET (1 .. n) |->
         IF s = {} THEN base ELSE InsertIntoBucket(g[s \ {Max(s)}], L[Max(s)])]

\* What FoldLeft stands for.
LEMMA FoldInserts ==
  ASSUME NEW L \in Seq(Keys), NEW base
  PROVE  \E g : /\ Inserts(L, base, Len(L), g)
                /\ FoldLeft(InsertIntoBucket, base, L) = g[1 .. Len(L)]
<1> DEFINE g == CHOOSE f : Inserts(L, base, Len(L), f)
<1>1. Inserts(L, base, Len(L), g)
  <2>1. Len(L) \in Nat
    OBVIOUS
  <2>2. PICK f : Turns("rehash", L, base, Len(L), f)
    BY <2>1, TurnsExist, Zenon
  <2>3. Inserts(L, base, Len(L), f)
    BY <2>2 DEF Turns, Turn, Inserts
  <2> QED
    BY <2>3, Zenon
<1>2. DOMAIN L = 1 .. Len(L)
  OBVIOUS
<1>3. FoldLeft(InsertIntoBucket, base, L) = g[DOMAIN L]
  BY <1>2 DEF FoldLeft, MapThenFoldSet, Inserts
<1> QED
  BY <1>1, <1>2, <1>3

\* The entries up to position j of the list have been inserted.
Inserted(L, base, g, j) ==
  /\ WellFormed(g[1 .. j])
  /\ g[1 .. j].order = base.order
  /\ g[1 .. j].size = j
  /\ ToSet(g[1 .. j].list) = {L[x] : x \in 1 .. j}

LEMMA RehashTurns ==
  ASSUME NEW L \in Seq(Keys), IsInjective(L), NEW base, WellFormed(base), base.list = << >>,
         NEW g, Inserts(L, base, Len(L), g)
  PROVE  \A j \in Nat : j <= Len(L) => Inserted(L, base, g, j)
<1> DEFINE n == Len(L)
           S == {j \in Nat : j <= n => Inserted(L, base, g, j)}
           turn(s) == IF s = {} THEN base ELSE InsertIntoBucket(g[s \ {Max(s)}], L[Max(s)])
<1>1. /\ n \in Nat /\ \A x \in 1 .. n : L[x] \in Keys
      /\ \A x, y \in 1 .. n : L[x] = L[y] => x = y
  BY DEF IsInjective
<1>2. \A s \in SUBSET (1 .. n) : g[s] = turn(s)
  <2> HIDE DEF turn
  <2>1. g = [s \in SUBSET (1 .. n) |-> turn(s)]
    BY DEF Inserts, turn
  <2> QED
    BY <2>1, Zenon
<1>3. 0 \in S
  <2>1. 1 .. 0 = {} /\ 1 .. 0 \in SUBSET (1 .. n)
    OBVIOUS
  <2>2. g[1 .. 0] = base
    BY <1>2, <2>1
  <2>3. base.size = 0 /\ ToSet(base.list) = {}
    <3>1. base.size = Len(base.list)
      BY DEF WellFormed
    <3> QED
      BY <3>1 DEF ToSet
  <2>4. {L[x] : x \in 1 .. 0} = {}
    BY <2>1
  <2> HIDE DEF turn, n
  <2> QED
    BY <2>2, <2>3, <2>4 DEF Inserted
<1>4. ASSUME NEW j \in Nat, j \in S PROVE j + 1 \in S
  <2> SUFFICES ASSUME j + 1 <= n PROVE Inserted(L, base, g, j + 1)
    OBVIOUS
  <2> DEFINE before == g[1 .. j]
             k == L[j + 1]
  <2>1. Inserted(L, base, g, j) /\ j + 1 \in 1 .. n
    BY <1>1, <1>4
  <2>2. /\ 1 .. j + 1 \in SUBSET (1 .. n) /\ 1 .. j + 1 # {}
        /\ (1 .. j + 1) \ {j + 1} = 1 .. j /\ Max(1 .. j + 1) = j + 1
    <3>1. Max(1 .. j + 1) = j + 1
      <4>1. 1 .. j + 1 \in SUBSET (1 .. j + 1) /\ j + 1 \in 1 .. j + 1
        OBVIOUS
      <4> QED
        BY <4>1, MaxIsLast
    <3>2. (1 .. j + 1) \ {j + 1} = 1 .. j
      OBVIOUS
    <3>3. 1 .. j + 1 \in SUBSET (1 .. n) /\ 1 .. j + 1 # {}
      <4> HIDE DEF n
      <4>1. j + 1 \in 1 .. j + 1
        OBVIOUS
      <4>2. \A x \in 1 .. j + 1 : x \in 1 .. n
        BY <1>1
      <4> QED
        BY <4>1, <4>2
    <3> QED
      BY <3>1, <3>2, <3>3
  <2>3. g[1 .. j + 1] = InsertIntoBucket(before, k)
    BY <1>2, <2>2
  <2>4. k \in Keys /\ k \notin {L[x] : x \in 1 .. j}
    BY <1>1, <2>1
  <2>5. k \notin ToSet(before.list)
    <3>1. ToSet(before.list) = {L[x] : x \in 1 .. j}
      BY <2>1 DEF Inserted
    <3> HIDE DEF before, k
    <3> QED
      BY <2>4, <3>1
  <2>6. /\ WellFormed(g[1 .. j + 1])
        /\ g[1 .. j + 1].order = before.order
        /\ ToSet(g[1 .. j + 1].list) = ToSet(before.list) \cup {k}
    <3> HIDE DEF k
    <3>1. WellFormed(before)
      BY <2>1 DEF Inserted
    <3> HIDE DEF before
    <3> QED
      BY <2>3, <2>4, <2>5, <3>1, InsertWorks
  <2>7. g[1 .. j + 1].size = j + 1
    <3>1. WellFormed(before) /\ before.size = j
      BY <2>1 DEF Inserted
    <3> HIDE DEF before, k
    <3>2. before \in Tables /\ before.buckets \in [Indexes(before) -> Bucket]
      BY <3>1 DEF WellFormed
    <3>3. InsertIntoBucket(before, k).size = before.size + 1
      BY <2>4, <3>2, InsertedFields
    <3> QED
      BY <2>3, <3>1, <3>3
  <2>8. {L[x] : x \in 1 .. j + 1} = {L[x] : x \in 1 .. j} \cup {k}
    <3>1. \A x : x \in 1 .. j + 1 <=> x \in 1 .. j \/ x = j + 1
      OBVIOUS
    <3> QED
      BY <3>1
  <2>9. ToSet(g[1 .. j + 1].list) = {L[x] : x \in 1 .. j + 1}
    <3>1. ToSet(before.list) = {L[x] : x \in 1 .. j}
      BY <2>1 DEF Inserted
    <3> HIDE DEF before, k
    <3> QED
      BY <2>6, <2>8, <3>1
  <2>10. before.order = base.order
    BY <2>1 DEF Inserted
  <2> HIDE DEF before, k
  <2> QED
    BY <2>6, <2>7, <2>9, <2>10 DEF Inserted
<1> HIDE DEF S
<1>5. Nat \subseteq S
  BY <1>3, <1>4, InductionOverSet
<1> QED
  BY <1>5 DEF S

LEMMA RehashWorks ==
  ASSUME NEW t, WellFormed(t)
  PROVE  /\ WellFormed(Rehash(t))
         /\ Rehash(t).size = t.size
         /\ Rehash(t).order = t.order + 1
         /\ ToSet(Rehash(t).list) = ToSet(t.list)
<1> DEFINE L == t.list
           n == Len(L)
           base == [size |-> 0, order |-> t.order + 1, buckets |-> ResetBuckets(t.order + 1),
                    list |-> << >>]
<1>1. L \in Seq(Keys) /\ IsInjective(L) /\ n \in Nat /\ t.size = n /\ t.order + 1 \in Nat \ {0}
  BY TableFacts DEF WellFormed
<1>2. ToSet(L) = {L[j] : j \in 1 .. n}
  BY TableFacts
<1>3. WellFormed(base) /\ base.list = << >> /\ base.order = t.order + 1
  BY <1>1, ResetIsWellFormed
<1>4. Rehash(t) = FoldLeft(InsertIntoBucket, base, L)
  BY DEF Rehash
<1> HIDE DEF base, L
<1>5. PICK g : Inserts(L, base, n, g) /\ FoldLeft(InsertIntoBucket, base, L) = g[1 .. n]
  BY <1>1, FoldInserts
<1>6. Inserted(L, base, g, n)
  BY <1>1, <1>3, <1>5, RehashTurns
<1>7. Rehash(t) = g[1 .. n]
  BY <1>4, <1>5
<1> HIDE DEF n
<1> QED
  BY <1>1, <1>2, <1>3, <1>6, <1>7 DEF Inserted, L

\* ensure_capacity keeps the entries.
LEMMA EnsureWorks ==
  ASSUME NEW t, WellFormed(t)
  PROVE  /\ WellFormed(EnsureCapacity(t))
         /\ EnsureCapacity(t).size = t.size
         /\ ToSet(EnsureCapacity(t).list) = ToSet(t.list)
BY RehashWorks DEF EnsureCapacity

-----------------------------------------------------------------------------
(* The two lists and the values                                            *)

EntriesOK ==
  /\ WellFormed(table)
  /\ ordered \in Seq(Keys)
  /\ IsInjective(ordered)
  /\ \A k \in Keys : k \in ToSet(table.list) <=> k \in ToSet(ordered)
  /\ table.size = Len(ordered)
  /\ value \in [Keys -> Values \cup {Null}]
  /\ \A k \in Keys : k \in ToSet(ordered) <=> value[k] # Null

LEMMA AppendToInjective ==
  ASSUME NEW s \in Seq(Keys), IsInjective(s), NEW k \in Keys, k \notin ToSet(s)
  PROVE  /\ Append(s, k) \in Seq(Keys)
         /\ IsInjective(Append(s, k))
         /\ Len(Append(s, k)) = Len(s) + 1
         /\ \A x \in Keys : x \in ToSet(Append(s, k)) <=> x \in ToSet(s) \/ x = k
         /\ \A j \in 1 .. Len(s) : Append(s, k)[j] = s[j]
         /\ Append(s, k)[Len(s) + 1] = k
<1> DEFINE r == Append(s, k)
           p == Len(s) + 1
<1>1. Opened(s, p, k, r)
  BY AppendOpens
<1>2. p \in 1 .. Len(s) + 1
  OBVIOUS
<1>3. /\ r \in Seq(Keys) /\ Len(r) = Len(s) + 1
      /\ \A j \in 1 .. Len(s) : r[j] = s[j]
      /\ r[Len(s) + 1] = k
  BY AppendProperties
<1> HIDE DEF r, p
<1>4. IsInjective(r) /\ ToSet(r) = ToSet(s) \cup {k}
  BY <1>1, <1>2, InsertKeepsInjective
<1>5. \A x \in Keys : x \in ToSet(r) <=> x \in ToSet(s) \/ x = k
  BY <1>4, Zenon
<1> QED
  BY <1>3, <1>4, <1>5 DEF r

\* One key is set: nothing changes, a present key takes the value, or a new key
\* goes to the end of the order list.
SetOutcome(k, v) ==
  \/ ordered' = ordered /\ value' = value
  \/ /\ k \in ToSet(ordered)
     /\ ordered' = ordered
     /\ value' = [value EXCEPT ![k] = v]
  \/ /\ k \notin ToSet(ordered)
     /\ ordered' = Append(ordered, k)
     /\ value' = [value EXCEPT ![k] = v]

LEMMA SetInnerWorks ==
  ASSUME EntriesOK, NEW k \in Keys, NEW v \in Values, NEW ok \in BOOLEAN, SetInner(k, v, ok)
  PROVE  /\ EntriesOK'
         /\ SetOutcome(k, v)
<1> DEFINE t == EnsureCapacity(table)
<1> USE DEF EntriesOK
<1>1. /\ WellFormed(t) /\ t.size = Len(ordered)
      /\ \A x \in Keys : x \in ToSet(t.list) <=> x \in ToSet(ordered)
  <2>1. WellFormed(table)
    OBVIOUS
  <2>2. /\ WellFormed(t) /\ t.size = table.size
        /\ ToSet(t.list) = ToSet(table.list)
    BY <2>1, EnsureWorks
  <2> HIDE DEF t
  <2>3. \A x : x \in ToSet(t.list) <=> x \in ToSet(table.list)
    BY <2>2
  <2> QED
    BY <2>2, <2>3
<1>2. Found(t, k) <=> k \in ToSet(ordered)
  BY <1>1, FoundIff
<1>3. v # Null
  BY NullAssumption
<1> HIDE DEF t
<1>4. CASE ~ ok /\ UNCHANGED <<table, ordered, value>>
  BY <1>4 DEF SetOutcome
<1>5. CASE /\ table' = IF ok /\ ~Found(t, k) THEN InsertIntoBucket(t, k) ELSE t
           /\ ok \/ ~Found(t, k)
           /\ ordered' = IF ok /\ ~Found(t, k) THEN Append(ordered, k) ELSE ordered
           /\ value' = IF ok THEN [value EXCEPT ![k] = v] ELSE value
  <2>1. CASE ~ ok
    <3>1. table' = t /\ ordered' = ordered /\ value' = value
      BY <1>5, <2>1
    <3> QED
      BY <1>1, <3>1 DEF SetOutcome
  <2>2. CASE ok /\ Found(t, k)
    <3>1. table' = t /\ ordered' = ordered /\ value' = [value EXCEPT ![k] = v]
      BY <1>5, <2>2
    <3>2. k \in ToSet(ordered)
      BY <1>2, <2>2
    <3>3. \A x \in Keys : value'[x] = IF x = k THEN v ELSE value[x]
      BY <3>1
    <3> QED
      BY <1>1, <1>3, <3>1, <3>2, <3>3 DEF SetOutcome
  <2>3. CASE ok /\ ~ Found(t, k)
    <3>1. /\ table' = InsertIntoBucket(t, k) /\ ordered' = Append(ordered, k)
          /\ value' = [value EXCEPT ![k] = v]
      BY <1>5, <2>3
    <3>2. k \notin ToSet(ordered) /\ k \notin ToSet(t.list)
      BY <1>1, <1>2, <2>3
    <3>3. WellFormed(table') /\ ToSet(table'.list) = ToSet(t.list) \cup {k}
      BY <1>1, <3>1, <3>2, InsertWorks
    <3>4. table'.size = Len(ordered) + 1
      <4>1. t \in Tables /\ t.buckets \in [Indexes(t) -> Bucket]
        BY <1>1 DEF WellFormed
      <4> QED
        BY ZenonT(30), <1>1, <3>1, <4>1, InsertedFields
    <3>5. \A x \in Keys : x \in ToSet(table'.list) <=> x \in ToSet(t.list) \/ x = k
      BY <3>3, Zenon
    <3>6. /\ ordered' \in Seq(Keys) /\ IsInjective(ordered') /\ Len(ordered') = Len(ordered) + 1
          /\ \A x \in Keys : x \in ToSet(ordered') <=> x \in ToSet(ordered) \/ x = k
      BY <3>1, <3>2, AppendToInjective
    <3>7. /\ value' \in [Keys -> Values \cup {Null}]
          /\ \A x \in Keys : value'[x] = IF x = k THEN v ELSE value[x]
      BY <3>1
    <3>8. SetOutcome(k, v)
      BY <3>1, <3>2 DEF SetOutcome
    <3> QED
      BY <1>1, <1>3, <3>3, <3>4, <3>5, <3>6, <3>7, <3>8
  <2> QED
    BY <2>1, <2>2, <2>3
<1> QED
  BY <1>4, <1>5 DEF SetInner, t

\* The entry at position p of the order list is taken out.
DeleteOutcome(p) ==
  /\ Closed(ordered, p, ordered')
  /\ IsInjective(ordered')
  /\ \A x \in Keys : x \in ToSet(ordered') <=> x \in ToSet(ordered) /\ x # ordered[p]
  /\ value' = [value EXCEPT ![ordered[p]] = Null]

LEMMA DeleteWorks ==
  ASSUME EntriesOK, NEW k \in Keys, Delete(k)
  PROVE  /\ EntriesOK'
         /\ \E p \in 1 .. Len(ordered) : ordered[p] = k /\ DeleteOutcome(p)
<1> USE DEF EntriesOK
<1>1. /\ Found(table, k)
      /\ table' = RemoveFromBucket(table, k)
      /\ ordered' = Unlinked(ordered, k)
      /\ value' = [value EXCEPT ![k] = Null]
  BY DEF Delete
<1>2. k \in ToSet(table.list) /\ k \in ToSet(ordered)
  BY <1>1, FoundIff
<1>3. PICK p \in 1 .. Len(ordered) : ordered[p] = k
  BY <1>2 DEF ToSet
<1>4. Closed(ordered, p, ordered')
  BY <1>1, <1>3, UnlinkCloses
<1>5. IsInjective(ordered') /\ ToSet(ordered') = ToSet(ordered) \ {k}
  BY <1>3, <1>4, CloseKeepsInjective
<1>6. \A x \in Keys : x \in ToSet(ordered') <=> x \in ToSet(ordered) /\ x # k
  BY <1>5, Zenon
<1>7. /\ WellFormed(table') /\ table'.size = table.size - 1
      /\ ToSet(table'.list) = ToSet(table.list) \ {k}
  BY <1>1, <1>2, RemoveWorks
<1>8. \A x \in Keys : x \in ToSet(table'.list) <=> x \in ToSet(table.list) /\ x # k
  BY <1>7, Zenon
<1>9. ordered' \in Seq(Keys) /\ Len(ordered') = Len(ordered) - 1
  BY <1>4 DEF Closed
<1>10. /\ value' \in [Keys -> Values \cup {Null}]
       /\ \A x \in Keys : value'[x] = IF x = k THEN Null ELSE value[x]
  BY <1>1
<1>11. DeleteOutcome(p)
  BY <1>1, <1>3, <1>4, <1>5, <1>6 DEF DeleteOutcome
<1>12. EntriesOK'
  BY <1>5, <1>6, <1>7, <1>8, <1>9, <1>10
<1> QED
  BY <1>3, <1>11, <1>12

LEMMA ClearWorks ==
  ASSUME EntriesOK, Clear
  PROVE  EntriesOK'
<1>1. table.order \in Nat \ {0}
  BY TableFacts DEF EntriesOK
<1>2. WellFormed(table') /\ ToSet(table'.list) = {} /\ table'.size = 0
  BY <1>1, ResetIsWellFormed DEF Clear, Cleared
<1>3. ordered' = << >> /\ value' = [k \in Keys |-> Null]
  BY DEF Clear, NoValues
<1>4. ordered' \in Seq(Keys) /\ IsInjective(ordered') /\ Len(ordered') = 0 /\ ToSet(ordered') = {}
  BY <1>3 DEF IsInjective, ToSet
<1> QED
  BY <1>2, <1>3, <1>4 DEF EntriesOK

LEMMA InitEntries == Init => EntriesOK
<1> SUFFICES ASSUME Init PROVE EntriesOK
  OBVIOUS
<1>1. WellFormed(table) /\ ToSet(table.list) = {} /\ table.size = 0
  BY OrderAssumption, ResetIsWellFormed DEF Init
<1>2. ordered = << >> /\ value = [k \in Keys |-> Null]
  BY DEF Init, NoValues
<1>3. ordered \in Seq(Keys) /\ IsInjective(ordered) /\ Len(ordered) = 0 /\ ToSet(ordered) = {}
  BY <1>2 DEF IsInjective, ToSet
<1> QED
  BY <1>1, <1>2, <1>3 DEF EntriesOK

\* The pairs of the object, in insertion order.
LEMMA ContentsFacts ==
  ASSUME EntriesOK
  PROVE  /\ Contents \in Seq(Keys \X Values)
         /\ Len(Contents) = Len(ordered)
         /\ DOMAIN Contents = 1 .. Len(ordered)
         /\ \A i \in 1 .. Len(ordered) :
              /\ Contents[i] = <<ordered[i], value[ordered[i]]>>
              /\ ordered[i] \in Keys /\ ordered[i] \in ToSet(ordered)
              /\ value[ordered[i]] \in Values
<1> DEFINE n == Len(ordered)
<1>1. n \in Nat /\ DOMAIN ordered = 1 .. n /\ \A i \in 1 .. n : ordered[i] \in Keys
  BY DEF EntriesOK
<1>2. \A i \in 1 .. n : ordered[i] \in ToSet(ordered)
  BY <1>1 DEF ToSet
<1>3. \A i \in 1 .. n : value[ordered[i]] \in Values
  BY <1>1, <1>2 DEF EntriesOK
<1>4. Contents = [i \in 1 .. n |-> <<ordered[i], value[ordered[i]]>>]
  BY <1>1 DEF Contents
<1>5. \A i \in 1 .. n : <<ordered[i], value[ordered[i]]>> \in Keys \X Values
  BY <1>1, <1>3
<1>6. Contents \in [1 .. n -> Keys \X Values]
  BY <1>4, <1>5
<1>7. Contents \in Seq(Keys \X Values) /\ Len(Contents) = n
  BY <1>1, <1>6
<1> QED
  BY <1>1, <1>2, <1>3, <1>4, <1>7

-----------------------------------------------------------------------------
(* The iteration                                                           *)

Walks == [kind : {"none", "plain", "safe"}, at : Keys \cup {Null}, gone : BOOLEAN,
          next : Keys \cup {Null}, due : Seq(Keys)]

\* What the loop has yet to visit is on the order list from position q on, and
\* the entry it is at is the one before.
Ahead(q) ==
  /\ q \in 1 .. Len(ordered) + 1
  /\ q + Len(walk.due) <= Len(ordered) + 1
  /\ \A j \in 1 .. Len(walk.due) : walk.due[j] = ordered[q + j - 1]
  /\ ~ walk.gone => q > 1 /\ ordered[q - 1] = walk.at

WalkOK ==
  /\ walk \in Walks
  /\ walk.kind = "none" => walk.at = Null
  /\ walk.at = Null => walk.next = Null /\ ~ walk.gone
  /\ walk.kind = "plain" => ~ walk.gone /\ walk.next = Null
  /\ walk.at # Null => \E q \in 1 .. Len(ordered) + 1 : Ahead(q)
  /\ walk.kind = "safe" /\ walk.at # Null /\ walk.due # << >> => walk.next = walk.due[1]
  /\ walk.next # Null => walk.next \in ToSet(ordered)
  /\ ~ walk.gone /\ walk.next # Null => walk.next # walk.at

\* The link to the next entry of an entry of the list.
LEMMA NeighbourAt ==
  ASSUME NEW s \in Seq(Keys), IsInjective(s), NEW p \in 1 .. Len(s)
  PROVE  Neighbour(s, s[p], 1) = IF p < Len(s) THEN s[p + 1] ELSE Null
<1>1. Position(s, s[p]) = p /\ DOMAIN s = 1 .. Len(s)
  BY PositionAt
<1>2. Neighbour(s, s[p], 1) = IF p + 1 \in 1 .. Len(s) THEN s[p + 1] ELSE Null
  BY <1>1 DEF Neighbour
<1> QED
  BY <1>2

\* Where the loop goes from position p of the list, and what it finds there.
LEMMA AfterAt ==
  ASSUME EntriesOK, NEW p \in 1 .. Len(ordered)
  PROVE  /\ After(ordered[p]) = IF p < Len(ordered) THEN ordered[p + 1] ELSE Null
         /\ After(ordered[p]) # Null => After(ordered[p]) \in ToSet(ordered)
         /\ After(ordered[p]) # ordered[p]
         /\ Beyond(ordered[p]) \in Seq(Keys)
         /\ Len(Beyond(ordered[p])) = Len(ordered) - p
         /\ \A j \in 1 .. Len(ordered) - p : Beyond(ordered[p])[j] = ordered[p + j]
<1> DEFINE n == Len(ordered)
<1>1. /\ ordered \in Seq(Keys) /\ IsInjective(ordered) /\ n \in Nat /\ DOMAIN ordered = 1 .. n
      /\ \A i \in 1 .. n : ordered[i] \in Keys
      /\ \A i, j \in 1 .. n : ordered[i] = ordered[j] => i = j
  BY DEF EntriesOK, IsInjective
<1>2. Contains(ordered, ordered[p])
  BY <1>1 DEF Contains
<1>3. After(ordered[p]) = IF p < n THEN ordered[p + 1] ELSE Null
  BY <1>1, <1>2, NeighbourAt DEF After
<1>4. After(ordered[p]) # ordered[p] /\ (After(ordered[p]) # Null => After(ordered[p]) \in ToSet(ordered))
  <2>1. CASE p < n
    <3>1. p + 1 \in 1 .. n
      BY <1>1, <2>1
    <3>2. ordered[p + 1] \in ToSet(ordered) /\ ordered[p + 1] # ordered[p]
      BY <1>1, <3>1 DEF ToSet
    <3> QED
      BY <1>3, <2>1, <3>2
  <2>2. CASE ~ (p < n)
    BY <1>1, <1>3, <2>2, NullAssumption
  <2> QED
    BY <2>1, <2>2
<1>6. Position(ordered, ordered[p]) = p
  BY <1>1, PositionAt
<1>7. Beyond(ordered[p]) = SubSeq(ordered, p + 1, n)
  BY <1>6 DEF Beyond
<1>8. /\ SubSeq(ordered, p + 1, n) \in Seq(Keys)
      /\ Len(SubSeq(ordered, p + 1, n)) = n - p
      /\ \A j \in 1 .. n - p : SubSeq(ordered, p + 1, n)[j] = ordered[p + j]
  <2> DEFINE b == SubSeq(ordered, p + 1, n)
  <2>1. /\ b \in Seq(Keys)
        /\ Len(b) = IF p + 1 <= n THEN n - (p + 1) + 1 ELSE 0
        /\ \A j \in 1 .. n - (p + 1) + 1 : b[j] = ordered[p + 1 + j - 1]
    BY <1>1, SubSeqProperties
  <2> HIDE DEF b
  <2>2. /\ b \in Seq(Keys) /\ Len(b) = n - p
        /\ \A j \in 1 .. n - p : b[j] = ordered[p + j]
    <3>1. p \in 1 .. n
      OBVIOUS
    <3> HIDE DEF n
    <3>2. \A j \in 1 .. n - p : j \in 1 .. n - (p + 1) + 1 /\ p + 1 + j - 1 = p + j
      BY <1>1, <3>1
    <3>3. \A j \in 1 .. n - p : b[j] = ordered[p + j]
      BY <2>1, <3>2
    <3>4. Len(b) = n - p
      BY <1>1, <2>1, <3>1
    <3> QED
      BY <2>1, <3>3, <3>4
  <2> QED
    BY <2>2 DEF b
<1> QED
  BY <1>3, <1>4, <1>7, <1>8

\* The loop begins at, or goes to, position p.
LEMMA WalkArrives ==
  ASSUME EntriesOK, NEW p \in 1 .. Len(ordered), UNCHANGED ordered,
         NEW kind \in {"plain", "safe"}, NEW due \in Seq(Keys),
         p + Len(due) <= Len(ordered),
         \A j \in 1 .. Len(due) : due[j] = ordered[p + j],
         walk' = [kind |-> kind, at |-> ordered[p], gone |-> FALSE,
                  next |-> IF kind = "safe" THEN After(ordered[p]) ELSE Null, due |-> due]
  PROVE  WalkOK'
<1> DEFINE n == Len(ordered)
           a == After(ordered[p])
<1>1. /\ n \in Nat /\ DOMAIN ordered = 1 .. n
      /\ \A i \in 1 .. n : ordered[i] \in Keys /\ ordered[i] \in ToSet(ordered)
  BY DEF EntriesOK, ToSet
<1>2. /\ a = IF p < n THEN ordered[p + 1] ELSE Null
      /\ a # Null => a \in ToSet(ordered)
      /\ a # ordered[p]
  BY AfterAt
<1> HIDE DEF a, n
<1>3. a \in Keys \cup {Null}
  BY <1>1, <1>2 DEF n
<1>4. /\ walk'.kind = kind /\ walk'.at = ordered[p] /\ walk'.gone = FALSE /\ walk'.due = due
      /\ walk'.next = IF kind = "safe" THEN a ELSE Null
      /\ walk' \in Walks
  BY <1>1, <1>3 DEF Walks, a, n
<1>5. ordered[p] # Null
  BY <1>1, NullAssumption DEF n
<1>6. Ahead(p + 1)'
  <2>1. p + 1 \in 1 .. n + 1 /\ (p + 1) - 1 = p /\ p + 1 > 1
    BY <1>1 DEF n
  <2>2. (p + 1) + Len(due) <= n + 1
    BY <1>1 DEF n
  <2>3. \A j \in 1 .. Len(due) : due[j] = ordered[(p + 1) + j - 1]
    <3> TAKE j \in 1 .. Len(due)
    <3>1. p + j = (p + 1) + j - 1
      BY <1>1 DEF n
    <3> QED
      BY <3>1
  <2> QED
    BY <1>4, <2>1, <2>2, <2>3 DEF Ahead, n
<1>7. due # << >> => a = due[1]
  <2> SUFFICES ASSUME due # << >> PROVE a = due[1]
    OBVIOUS
  <2>1. Len(due) \in Nat /\ Len(due) # 0
    OBVIOUS
  <2>2. p < n /\ due[1] = ordered[p + 1]
    BY <1>1, <2>1 DEF n
  <2> QED
    BY <1>2, <2>2
<1>8. \E q \in 1 .. Len(ordered') + 1 : Ahead(q)'
  <2>1. p + 1 \in 1 .. Len(ordered') + 1
    BY <1>1 DEF n
  <2> QED
    BY <1>6, <2>1
<1> QED
  BY <1>2, <1>4, <1>5, <1>7, <1>8, <1>1 DEF WalkOK

\* Setting a key moves no entry.
LEMMA SetKeepsWalk ==
  ASSUME EntriesOK, WalkOK, NEW k \in Keys, NEW v, SetOutcome(k, v), walk' = walk
  PROVE  WalkOK'
<1>1. /\ Len(ordered) \in Nat /\ Len(ordered') \in Nat /\ Len(ordered) <= Len(ordered')
      /\ \A j \in 1 .. Len(ordered) : ordered'[j] = ordered[j]
      /\ \A x \in Keys : x \in ToSet(ordered) => x \in ToSet(ordered')
  <2>1. CASE ordered' = ordered
    BY <2>1 DEF EntriesOK
  <2>2. CASE k \notin ToSet(ordered) /\ ordered' = Append(ordered, k)
    BY <2>2, AppendToInjective DEF EntriesOK
  <2> QED
    BY <2>1, <2>2 DEF SetOutcome
<1>2. ASSUME NEW q \in 1 .. Len(ordered) + 1, Ahead(q)
      PROVE  q \in 1 .. Len(ordered') + 1 /\ Ahead(q)'
  <2>1. /\ q + Len(walk.due) <= Len(ordered) + 1
        /\ \A j \in 1 .. Len(walk.due) : walk.due[j] = ordered[q + j - 1]
        /\ ~ walk.gone => q > 1 /\ ordered[q - 1] = walk.at
    BY <1>2 DEF Ahead
  <2>2. walk.due \in Seq(Keys) /\ Len(walk.due) \in Nat
    BY DEF WalkOK, Walks
  <2>3. q \in 1 .. Len(ordered') + 1 /\ q + Len(walk.due) <= Len(ordered') + 1
    BY <1>1, <2>1, <2>2
  <2>4. ASSUME NEW j \in 1 .. Len(walk.due) PROVE walk.due[j] = ordered'[q + j - 1]
    <3>1. q + j - 1 \in 1 .. Len(ordered)
      BY <1>1, <2>1, <2>2
    <3> QED
      BY <1>1, <2>1, <3>1
  <2>5. ~ walk.gone => q > 1 /\ ordered'[q - 1] = walk.at
    <3> SUFFICES ASSUME ~ walk.gone PROVE q > 1 /\ ordered'[q - 1] = walk.at
      OBVIOUS
    <3>1. q > 1 /\ q - 1 \in 1 .. Len(ordered) /\ ordered[q - 1] = walk.at
      BY <1>1, <2>1
    <3> QED
      BY <1>1, <3>1
  <2> QED
    BY <2>3, <2>4, <2>5 DEF Ahead
<1>3. walk.at # Null => \E q \in 1 .. Len(ordered') + 1 : Ahead(q)'
  <2> SUFFICES ASSUME walk.at # Null PROVE \E q \in 1 .. Len(ordered') + 1 : Ahead(q)'
    OBVIOUS
  <2>1. PICK q \in 1 .. Len(ordered) + 1 : Ahead(q)
    BY DEF WalkOK
  <2> QED
    BY <1>2, <2>1
<1>4. walk.next # Null => walk.next \in ToSet(ordered')
  <2>1. walk.next \in Keys \cup {Null}
    BY DEF WalkOK, Walks
  <2> QED
    BY <1>1, <2>1 DEF WalkOK
<1> QED
  BY <1>3, <1>4 DEF WalkOK

\* The entry the loop is at is deleted.
LEMMA DeleteKeepsWalk ==
  ASSUME EntriesOK, WalkOK, NEW k \in Keys, Delete(k)
  PROVE  WalkOK'
<1>1. PICK p \in 1 .. Len(ordered) : ordered[p] = k /\ DeleteOutcome(p)
  BY DeleteWorks
<1>2. /\ Len(ordered') = Len(ordered) - 1 /\ Len(ordered) \in Nat
      /\ \A j \in 1 .. Len(ordered) - 1 : j >= p => ordered'[j] = ordered[j + 1]
  <2>1. ordered \in Seq(Keys) /\ Closed(ordered, p, ordered')
    BY <1>1 DEF DeleteOutcome, EntriesOK
  <2> QED
    BY <2>1, ClosedFacts
<1>3. CASE walk.kind = "none" /\ walk' = walk
  <2>1. walk.at = Null /\ walk.next = Null
    BY <1>3 DEF WalkOK
  <2> QED
    BY <1>3, <2>1 DEF WalkOK
<1>4. CASE /\ walk.kind = "safe" /\ walk.at = k /\ ~ walk.gone
           /\ walk' = [walk EXCEPT !.gone = TRUE]
  <2>1. /\ walk'.kind = "safe" /\ walk'.at = k /\ walk'.gone = TRUE
        /\ walk'.next = walk.next /\ walk'.due = walk.due /\ walk' \in Walks
        /\ walk.due \in Seq(Keys) /\ Len(walk.due) \in Nat /\ k # Null
    <3>1. walk \in Walks
      BY DEF WalkOK
    <3>2. k # Null
      BY NullAssumption
    <3>3. walk.due \in Seq(Keys) /\ Len(walk.due) \in Nat
      BY <3>1 DEF Walks
    <3>4. walk' \in Walks
      BY <1>4, <3>1 DEF Walks
    <3>5. /\ walk'.kind = walk.kind /\ walk'.at = walk.at /\ walk'.gone = TRUE
          /\ walk'.next = walk.next /\ walk'.due = walk.due
      BY <1>4, <3>1 DEF Walks
    <3> QED
      BY <1>4, <3>2, <3>3, <3>4, <3>5
  <2>2. PICK q \in 1 .. Len(ordered) + 1 : Ahead(q)
    BY <1>4, <2>1 DEF WalkOK
  <2>3. /\ q > 1 /\ ordered[q - 1] = k
        /\ q + Len(walk.due) <= Len(ordered) + 1
        /\ \A j \in 1 .. Len(walk.due) : walk.due[j] = ordered[q + j - 1]
    BY <1>4, <2>2 DEF Ahead
  <2>4. q - 1 = p
    <3>1. \A i, j \in 1 .. Len(ordered) : ordered[i] = ordered[j] => i = j
      BY DEF EntriesOK, IsInjective
    <3>2. q - 1 \in 1 .. Len(ordered)
      BY <1>2, <2>3
    <3> QED
      BY <1>1, <2>3, <3>1, <3>2
  <2>5. p + Len(walk.due) <= Len(ordered') + 1 /\ p \in 1 .. Len(ordered') + 1
    BY <1>2, <2>1, <2>3, <2>4
  <2>6. ASSUME NEW j \in 1 .. Len(walk.due) PROVE walk.due[j] = ordered'[p + j - 1]
    <3>1. q + j - 1 = (p + j - 1) + 1 /\ p + j - 1 \in 1 .. Len(ordered) - 1 /\ p + j - 1 >= p
      BY <1>2, <2>1, <2>3, <2>4
    <3>2. walk.due[j] = ordered[(p + j - 1) + 1]
      BY <2>3, <3>1
    <3> QED
      BY <1>2, <3>1, <3>2
  <2>7. Ahead(p)'
    BY <2>1, <2>5, <2>6 DEF Ahead
  <2>8. walk.next # Null => walk.next \in ToSet(ordered')
    <3>1. walk.next # Null => walk.next \in ToSet(ordered) /\ walk.next # k /\ walk.next \in Keys
      BY <1>4 DEF WalkOK, Walks
    <3> QED
      BY <1>1, <3>1 DEF DeleteOutcome
  <2>9. walk.due # << >> => walk.next = walk.due[1]
    BY <1>4, <2>1 DEF WalkOK
  <2> QED
    BY <2>1, <2>5, <2>7, <2>8, <2>9 DEF WalkOK
<1> QED
  BY <1>3, <1>4 DEF Delete

\* Where the loop is, and what it finds when it leaves.
LEMMA WalkStepGoes ==
  ASSUME EntriesOK, WalkOK, WalkStep
  PROVE  /\ walk'.at = Null \/ \E p \in 1 .. Len(ordered) :
              /\ walk'.at = ordered[p]
              /\ p + Len(walk'.due) <= Len(ordered)
              /\ \A j \in 1 .. Len(walk'.due) : walk'.due[j] = ordered[p + j]
         /\ walk.due # << >> => walk'.at = Head(walk.due)
         /\ walk.due = << >> /\ walk.kind = "plain" /\ walk'.at = Null
              => Len(ordered) > 0 /\ walk.at = ordered[Len(ordered)]
<1> DEFINE n == Len(ordered)
           D == walk.due
           to == IF walk.kind = "safe" THEN walk.next ELSE After(walk.at)
<1>1. /\ n \in Nat /\ D \in Seq(Keys) /\ Len(D) \in Nat /\ walk.at # Null
      /\ walk.kind \in {"plain", "safe"} /\ \A i \in 1 .. n : ordered[i] # Null
  BY NullAssumption DEF WalkOK, Walks, WalkStep, EntriesOK
<1>2. /\ walk'.at = to
      /\ walk'.due = IF D = << >> THEN D ELSE Tail(D)
  BY DEF WalkStep, WalkOK, Walks
<1>3. PICK q \in 1 .. n + 1 : Ahead(q)
  BY <1>1 DEF WalkOK
<1>4. /\ q + Len(D) <= n + 1
      /\ \A j \in 1 .. Len(D) : D[j] = ordered[q + j - 1]
      /\ ~ walk.gone => q > 1 /\ ordered[q - 1] = walk.at
  BY <1>3 DEF Ahead
<1>5. walk.kind = "plain" => q - 1 \in 1 .. n /\ walk.at = ordered[q - 1]
                             /\ to = IF q <= n THEN ordered[q] ELSE Null
  <2> SUFFICES ASSUME walk.kind = "plain"
               PROVE  q - 1 \in 1 .. n /\ walk.at = ordered[q - 1]
                      /\ to = IF q <= n THEN ordered[q] ELSE Null
    OBVIOUS
  <2>1. q - 1 \in 1 .. n /\ walk.at = ordered[q - 1]
    BY <1>1, <1>4 DEF WalkOK
  <2>2. After(ordered[q - 1]) = IF q - 1 < n THEN ordered[(q - 1) + 1] ELSE Null
    BY <2>1, AfterAt
  <2>3. (q - 1 < n <=> q <= n) /\ (q - 1) + 1 = q
    BY <1>1
  <2> QED
    BY <2>1, <2>2, <2>3
<1> HIDE DEF to, D, n
<1>6. CASE D # << >>
  <2>1. /\ Len(D) >= 1 /\ Len(Tail(D)) = Len(D) - 1 /\ Head(D) = D[1]
        /\ \A j \in 1 .. Len(D) - 1 : Tail(D)[j] = D[j + 1]
    BY <1>1, <1>6, HeadTailProperties
  <2>2. q \in 1 .. n /\ D[1] = ordered[q]
    <3>1. q + 1 - 1 = q /\ 1 \in 1 .. Len(D) /\ q <= n
      BY <1>1, <1>4, <2>1
    <3>2. D[1] = ordered[q + 1 - 1]
      BY <1>4, <3>1
    <3> QED
      BY <1>1, <3>1, <3>2
  <2>3. to = D[1]
    <3>1. CASE walk.kind = "safe"
      BY <1>1, <1>6, <3>1 DEF to, D, WalkOK
    <3>2. CASE walk.kind = "plain"
      BY <1>1, <1>5, <2>2, <3>2
    <3> QED
      BY <1>1, <3>1, <3>2
  <2>4. walk'.at = ordered[q] /\ walk'.due = Tail(D)
    BY <1>2, <1>6, <2>2, <2>3
  <2>5. q + Len(Tail(D)) <= n
    BY <1>1, <1>4, <2>1
  <2>6. ASSUME NEW j \in 1 .. Len(Tail(D)) PROVE Tail(D)[j] = ordered[q + j]
    <3>1. j + 1 \in 1 .. Len(D) /\ q + (j + 1) - 1 = q + j /\ j \in 1 .. Len(D) - 1
      BY <1>1, <2>1
    <3>2. D[j + 1] = ordered[q + (j + 1) - 1]
      BY <1>4, <3>1
    <3> QED
      BY <2>1, <3>1, <3>2
  <2> QED
    BY <1>2, <1>6, <2>1, <2>2, <2>3, <2>4, <2>5, <2>6 DEF D, n
<1>7. CASE D = << >>
  <2>1. walk'.due = << >> /\ Len(walk'.due) = 0
    BY <1>2, <1>7
  <2>2. to = Null \/ \E p \in 1 .. n : to = ordered[p]
    <3>1. CASE walk.kind = "safe"
      <4>1. walk.next # Null => \E p \in 1 .. n : walk.next = ordered[p]
        BY <1>1 DEF WalkOK, ToSet, EntriesOK, n
      <4> QED
        BY <3>1, <4>1 DEF to
    <3>2. CASE walk.kind = "plain"
      BY <1>1, <1>5, <3>2
    <3> QED
      BY <1>1, <3>1, <3>2
  <2>3. walk'.at = Null \/ \E p \in 1 .. n :
          /\ walk'.at = ordered[p]
          /\ p + Len(walk'.due) <= n
          /\ \A j \in 1 .. Len(walk'.due) : walk'.due[j] = ordered[p + j]
    <3>1. 1 .. Len(walk'.due) = {}
      BY <2>1
    <3>2. \A p \in 1 .. n : p + Len(walk'.due) <= n
      BY <1>1, <2>1
    <3> QED
      BY <1>2, <2>2, <3>1, <3>2
  <2>4. walk.kind = "plain" /\ walk'.at = Null => n > 0 /\ walk.at = ordered[n]
    <3> SUFFICES ASSUME walk.kind = "plain", walk'.at = Null PROVE n > 0 /\ walk.at = ordered[n]
      OBVIOUS
    <3>1. q = n + 1
      BY <1>1, <1>2, <1>5
    <3> QED
      BY <1>1, <1>5, <3>1
  <2> QED
    BY <1>7, <2>3, <2>4 DEF D, n
<1> QED
  BY <1>6, <1>7

LEMMA WalkStepKeepsWalk ==
  ASSUME EntriesOK, WalkOK, WalkStep
  PROVE  WalkOK'
<1> DEFINE to == IF walk.kind = "safe" THEN walk.next ELSE After(walk.at)
           due == IF walk.due = << >> THEN walk.due ELSE Tail(walk.due)
           next == IF walk.kind = "safe" /\ to # Null THEN After(to) ELSE Null
<1>1. walk \in Walks /\ walk.kind \in {"plain", "safe"} /\ walk.due \in Seq(Keys)
  BY DEF WalkOK, Walks, WalkStep
<1>2. walk' = [kind |-> walk.kind, at |-> to, gone |-> FALSE, next |-> next, due |-> due]
  <2>1. walk' = [walk EXCEPT !.at = to, !.gone = FALSE, !.next = next, !.due = due]
    BY DEF WalkStep
  <2> HIDE DEF to, due, next
  <2> QED
    BY <1>1, <2>1 DEF Walks
<1>3. due \in Seq(Keys)
  <2>1. walk.due # << >> => Tail(walk.due) \in Seq(Keys)
    BY <1>1
  <2> QED
    BY <1>1, <2>1
<1>4. UNCHANGED ordered
  BY DEF WalkStep
<1>5. CASE walk'.at = Null
  <2>1. to = Null /\ next = Null
    <3>1. to = Null
      BY <1>2, <1>5
    <3> HIDE DEF to
    <3> QED
      BY <3>1
  <2> HIDE DEF to, due, next
  <2>2. walk' \in Walks
    BY <1>1, <1>2, <1>3, <2>1 DEF Walks
  <2> QED
    BY <1>2, <2>1, <2>2 DEF WalkOK
<1>6. ASSUME NEW p \in 1 .. Len(ordered), walk'.at = ordered[p],
             p + Len(walk'.due) <= Len(ordered),
             \A j \in 1 .. Len(walk'.due) : walk'.due[j] = ordered[p + j]
      PROVE  WalkOK'
  <2>1. to = ordered[p] /\ to # Null
    <3>1. ordered[p] # Null
      BY NullAssumption DEF EntriesOK
    <3> HIDE DEF to, due, next
    <3> QED
      BY <1>2, <1>6, <3>1
  <2>2. next = IF walk.kind = "safe" THEN After(ordered[p]) ELSE Null
    <3> HIDE DEF to
    <3> QED
      BY <2>1
  <2> HIDE DEF to, due, next
  <2>3. walk'.due = due
    BY <1>2
  <2> QED
    BY <1>1, <1>2, <1>3, <1>4, <1>6, <2>1, <2>2, <2>3, WalkArrives
<1> QED
  BY <1>5, <1>6, WalkStepGoes

LEMMA WalkBeginWorks ==
  ASSUME EntriesOK, ordered # << >>, NEW kind \in {"plain", "safe"}, NEW k \in Keys,
         WalkBegin(kind, k)
  PROVE  WalkOK'
<1>1. ordered \in Seq(Keys) /\ Len(ordered) \in Nat /\ Len(ordered) >= 1
  BY DEF EntriesOK
<1>2. PICK p \in 1 .. Len(ordered) : k = ordered[p]
  <2>1. CASE kind = "safe"
    BY <1>1, <2>1 DEF WalkBegin
  <2>2. CASE kind = "plain"
    <3>1. k \in ToSet(ordered)
      BY <2>2, FoundIff DEF WalkBegin, EntriesOK
    <3> QED
      BY <1>1, <3>1 DEF ToSet
  <2> QED
    BY <2>1, <2>2
<1> DEFINE due == Beyond(k)
<1>3. /\ due \in Seq(Keys) /\ Len(due) = Len(ordered) - p
      /\ \A j \in 1 .. Len(ordered) - p : due[j] = ordered[p + j]
  BY <1>2, AfterAt
<1>4. /\ UNCHANGED ordered
      /\ walk' = [kind |-> kind, at |-> ordered[p], gone |-> FALSE,
                  next |-> IF kind = "safe" THEN After(ordered[p]) ELSE Null, due |-> due]
  BY <1>2 DEF WalkBegin
<1> HIDE DEF due
<1>5. p + Len(due) <= Len(ordered)
  BY <1>1, <1>3
<1> QED
  BY <1>3, <1>4, <1>5, WalkArrives

LEMMA NoWalkIsOK == walk = NoWalk => WalkOK
<1> SUFFICES ASSUME walk = NoWalk PROVE WalkOK
  OBVIOUS
<1>1. << >> \in Seq(Keys)
  OBVIOUS
<1>2. walk \in Walks
  BY <1>1 DEF Walks, NoWalk
<1> QED
  BY <1>2 DEF WalkOK, NoWalk

-----------------------------------------------------------------------------
(* The update loops                                                        *)

Updates == [mode : Modes \cup {"none"}, source : Seq(Keys \X Values), self : BOOLEAN,
            i : Nat \ {0}, before : Seq(Keys \X Values), failed : BOOLEAN]

IInv == EntriesOK /\ WalkOK /\ update \in Updates

\* What a turn of the loop looks up and sets.
LEMMA TurnFacts ==
  ASSUME EntriesOK, update \in Updates, update.i <= Len(Source)
  PROVE  /\ Source \in Seq(Keys \X Values)
         /\ UpdateKey \in Keys
         /\ Source[update.i][2] \in Values
<1>1. Source \in Seq(Keys \X Values)
  BY ContentsFacts DEF Source, Updates
<1>2. update.i \in 1 .. Len(Source)
  BY <1>1 DEF Updates
<1>3. Source[update.i] \in Keys \X Values
  BY <1>1, <1>2
<1>4. CString[Source[update.i][1]] \in Keys
  BY <1>3, CStringAssumption
<1> QED
  BY <1>1, <1>3, <1>4 DEF UpdateKey

-----------------------------------------------------------------------------
(* The steps                                                               *)

\* What a step does to the entries of the object.
EntryStep ==
  \/ UNCHANGED <<ordered, value>>
  \/ \E k \in Keys, v \in Values : SetOutcome(k, v)
  \/ \E p \in 1 .. Len(ordered) : DeleteOutcome(p)
  \/ ordered' = << >>

LEMMA SetStep ==
  ASSUME IInv, NEW k \in Keys, NEW v \in NewValues, Set(k, v)
  PROVE  IInv' /\ EntryStep
<1>1. v \in Values
  BY ValuesAssumption
<1>2. PICK ok \in BOOLEAN : SetInner(k, v, ok)
  BY DEF Set
<1>3. EntriesOK' /\ SetOutcome(k, v)
  BY <1>1, <1>2, SetInnerWorks DEF IInv
<1>4. UNCHANGED <<walk, update>>
  BY DEF Set
<1>5. WalkOK'
  BY <1>3, <1>4, SetKeepsWalk DEF IInv
<1> QED
  BY <1>1, <1>3, <1>4, <1>5 DEF IInv, EntryStep

LEMMA DeleteStep ==
  ASSUME IInv, NEW k \in Keys, Delete(k)
  PROVE  IInv' /\ EntryStep
<1>1. EntriesOK' /\ \E p \in 1 .. Len(ordered) : DeleteOutcome(p)
  BY DeleteWorks DEF IInv
<1>2. WalkOK'
  BY DeleteKeepsWalk DEF IInv
<1>3. UNCHANGED update
  BY DEF Delete
<1> QED
  BY <1>1, <1>2, <1>3 DEF IInv, EntryStep

LEMMA ClearStep ==
  ASSUME IInv, Clear
  PROVE  IInv' /\ EntryStep
<1>1. EntriesOK'
  BY ClearWorks DEF IInv
<1>2. /\ walk' = walk /\ update' = update /\ ordered' = << >>
      /\ walk.kind = "none"
  BY DEF Clear
<1>3. WalkOK'
  BY <1>2 DEF IInv, WalkOK
<1> QED
  BY <1>1, <1>2, <1>3 DEF IInv, EntryStep

LEMMA IterSetStep ==
  ASSUME IInv, NEW v \in NewValues, IterSet(v)
  PROVE  IInv' /\ EntryStep
<1> DEFINE k == walk.at
<1>1. v \in Values /\ v # Null
  BY ValuesAssumption, NullAssumption
<1>2. /\ UNCHANGED <<table, ordered, walk, update>>
      /\ value' = [value EXCEPT ![k] = v] /\ k # Null /\ ~ walk.gone
  BY DEF IterSet
<1>3. k \in Keys /\ k \in ToSet(ordered)
  <2>1. PICK q \in 1 .. Len(ordered) + 1 : Ahead(q)
    BY <1>2 DEF IInv, WalkOK
  <2>2. q > 1 /\ ordered[q - 1] = k
    BY <1>2, <2>1 DEF Ahead
  <2>3. q - 1 \in 1 .. Len(ordered) /\ ordered \in Seq(Keys)
    BY <2>2 DEF IInv, EntriesOK
  <2> QED
    BY <2>2, <2>3 DEF ToSet
<1> HIDE DEF k
<1>4. SetOutcome(k, v)
  BY <1>2, <1>3 DEF SetOutcome
<1>5. WalkOK'
  BY <1>2, <1>3, <1>4, SetKeepsWalk DEF IInv
<1>6. EntriesOK'
  <2>1. value' \in [Keys -> Values \cup {Null}] /\ \A x \in Keys : value'[x] = IF x = k THEN v ELSE value[x]
    BY <1>1, <1>2, <1>3 DEF IInv, EntriesOK
  <2> QED
    BY <1>1, <1>2, <1>3, <2>1 DEF IInv, EntriesOK
<1> QED
  BY <1>1, <1>2, <1>3, <1>4, <1>5, <1>6 DEF IInv, EntryStep

LEMMA UpdateTurnStep ==
  ASSUME IInv, NEW ok \in BOOLEAN, UpdateTurn(ok)
  PROVE  IInv' /\ EntryStep
<1>1. update.i <= Len(Source) /\ walk' = walk
  BY DEF UpdateTurn
<1>2. UpdateKey \in Keys /\ Source[update.i][2] \in Values
  BY <1>1, TurnFacts DEF IInv
<1>3. update' \in Updates
  <2>1. [update EXCEPT !.failed = TRUE] \in Updates
    BY DEF IInv, Updates
  <2>2. [update EXCEPT !.i = @ + 1] \in Updates
    <3>1. update \in Updates /\ update.i + 1 \in Nat \ {0}
      BY DEF IInv, Updates
    <3> QED
      BY <3>1 DEF Updates
  <2>3. update' = IF ok THEN [update EXCEPT !.i = @ + 1] ELSE [update EXCEPT !.failed = TRUE]
    BY DEF UpdateTurn
  <2> QED
    BY <2>1, <2>2, <2>3
<1>4. CASE SetInner(UpdateKey, Source[update.i][2], ok)
  <2>1. EntriesOK' /\ SetOutcome(UpdateKey, Source[update.i][2])
    BY <1>2, <1>4, SetInnerWorks DEF IInv
  <2>2. WalkOK'
    BY <1>1, <1>2, <2>1, SetKeepsWalk DEF IInv
  <2> QED
    BY <1>2, <1>3, <2>1, <2>2 DEF IInv, EntryStep
<1>5. CASE UNCHANGED <<table, ordered, value>>
  BY <1>1, <1>3, <1>5 DEF IInv, EntryStep, EntriesOK, WalkOK, Ahead
<1> QED
  BY <1>4, <1>5 DEF UpdateTurn

LEMMA UpdateBeginStep ==
  ASSUME IInv, NEW mode \in Modes, NEW o \in Others, NEW self \in BOOLEAN,
         UpdateBegin(mode, self, o)
  PROVE  IInv' /\ EntryStep
<1>1. UNCHANGED <<table, ordered, value, walk>>
  BY DEF UpdateBegin
<1>2. update' \in Updates
  <2>1. Contents \in Seq(Keys \X Values)
    BY ContentsFacts DEF IInv
  <2>2. o \in Seq(Keys \X Values) /\ << >> \in Seq(Keys \X Values)
    BY OthersAssumption
  <2> HIDE DEF Contents
  <2> QED
    BY <2>1, <2>2 DEF UpdateBegin, Updates
<1> QED
  BY <1>1, <1>2 DEF IInv, EntryStep, EntriesOK, WalkOK, Ahead

LEMMA WalkSteps ==
  ASSUME IInv, NEW kind \in {"plain", "safe"}, NEW k \in Keys,
         \/ ordered # << >> /\ WalkBegin(kind, k)
         \/ WalkStep
  PROVE  IInv' /\ EntryStep
<1>1. UNCHANGED <<table, ordered, value, update>>
  BY DEF WalkBegin, WalkStep
<1>2. EntriesOK' /\ update' \in Updates
  BY <1>1 DEF IInv, EntriesOK
<1>3. WalkOK'
  <2>1. CASE ordered # << >> /\ WalkBegin(kind, k)
    BY <2>1, WalkBeginWorks DEF IInv
  <2>2. CASE WalkStep
    BY <2>2, WalkStepKeepsWalk DEF IInv
  <2> QED
    BY <2>1, <2>2
<1> QED
  BY <1>1, <1>2, <1>3 DEF IInv, EntryStep

LEMMA StepWorks == IInv /\ [Next]_vars => IInv' /\ EntryStep
<1> SUFFICES ASSUME IInv, [Next]_vars PROVE IInv' /\ EntryStep
  OBVIOUS
<1>1. ASSUME NEW k \in Keys, NEW v \in NewValues, Set(k, v) PROVE IInv' /\ EntryStep
  BY <1>1, SetStep
<1>2. ASSUME NEW k \in Keys, Delete(k) PROVE IInv' /\ EntryStep
  BY <1>2, DeleteStep
<1>3. CASE Clear
  BY <1>3, ClearStep
<1>4. ASSUME NEW mode \in Modes, NEW o \in Others, NEW self \in BOOLEAN, UpdateBegin(mode, self, o)
      PROVE  IInv' /\ EntryStep
  BY <1>4, UpdateBeginStep
<1>5. ASSUME NEW ok \in BOOLEAN, UpdateTurn(ok) PROVE IInv' /\ EntryStep
  BY <1>5, UpdateTurnStep
<1>6. CASE UpdateEnd
  <2>1. UNCHANGED <<table, ordered, value, walk>> /\ update' = NoUpdate
    BY <1>6 DEF UpdateEnd
  <2>2. NoUpdate \in Updates
    <3>1. << >> \in Seq(Keys \X Values)
      OBVIOUS
    <3> QED
      BY <3>1 DEF NoUpdate, Updates
  <2> QED
    BY <2>1, <2>2 DEF IInv, EntryStep, EntriesOK, WalkOK, Ahead
<1>7. ASSUME NEW kind \in {"plain", "safe"}, NEW k \in Keys, ordered # << >>, WalkBegin(kind, k)
      PROVE  IInv' /\ EntryStep
  BY <1>7, WalkSteps
<1>8. ASSUME NEW v \in NewValues, IterSet(v) PROVE IInv' /\ EntryStep
  BY <1>8, IterSetStep
<1>9. CASE WalkStep
  <2>1. PICK k \in Keys : k = walk.at
    BY <1>9 DEF WalkStep, IInv, WalkOK, Walks
  <2> QED
    BY <1>9, WalkSteps
<1>10. CASE WalkEnd
  <2>1. WalkOK'
    <3>1. walk' = NoWalk
      BY <1>10 DEF WalkEnd
    <3>2. [kind |-> "none", at |-> Null, gone |-> FALSE, next |-> Null, due |-> << >>] \in Walks
      BY DEF Walks
    <3> QED
      BY <3>1, <3>2 DEF NoWalk, WalkOK
  <2>2. UNCHANGED <<table, ordered, value, update>>
    BY <1>10 DEF WalkEnd
  <2> QED
    BY <2>1, <2>2 DEF IInv, EntriesOK, EntryStep
<1>11. CASE UNCHANGED vars
  BY <1>11 DEF vars, IInv, EntryStep, EntriesOK, WalkOK, Ahead
<1> QED
  BY <1>1, <1>2, <1>3, <1>4, <1>5, <1>6, <1>7, <1>8, <1>9, <1>10, <1>11 DEF Next

-----------------------------------------------------------------------------
LEMMA InitIInv == Init => IInv
<1> SUFFICES ASSUME Init PROVE IInv
  OBVIOUS
<1>1. EntriesOK /\ WalkOK
  BY InitEntries, NoWalkIsOK DEF Init
<1>2. update \in Updates
  <2>1. << >> \in Seq(Keys \X Values)
    OBVIOUS
  <2> QED
    BY <2>1 DEF Init, NoUpdate, Updates
<1> QED
  BY <1>1, <1>2 DEF IInv

\* Through every call and in every turn of a loop each bucket is one run of the
\* list, the two lists hold the same entries and a loop knows where it is.
THEOREM Inductive == Spec => []IInv
<1>1. Init => IInv
  BY InitIInv
<1>2. IInv /\ [Next]_vars => IInv'
  BY StepWorks
<1> QED
  BY <1>1, <1>2, PTL DEF Spec

LEMMA TypesFollow == IInv => TypeOK
<1> SUFFICES ASSUME IInv PROVE TypeOK
  OBVIOUS
<1>1. /\ table \in Tables /\ table.buckets \in [Indexes(table) -> Bucket]
      /\ ordered \in Seq(Keys) /\ value \in [Keys -> Values \cup {Null}]
  BY DEF IInv, EntriesOK, WellFormed
<1>2. /\ table.size \in Nat /\ table.order \in Nat \ {0} /\ table.list \in Seq(Keys)
      /\ table.buckets \in [Indexes(table) -> [first : Keys \cup {Null}, last : Keys \cup {Null}]]
  BY <1>1 DEF Tables, Bucket
<1>3. walk \in Walks
  BY DEF IInv, WalkOK
<1>4. /\ walk.kind \in {"none", "plain", "safe"}
      /\ {walk.at, walk.next} \subseteq Keys \cup {Null}
      /\ walk.gone \in BOOLEAN
      /\ walk.due \in Seq(Keys)
  BY <1>3 DEF Walks
<1>5. /\ update.mode \in Modes \cup {"none"}
      /\ update.source \in Seq(Keys \X Values)
      /\ update.before \in Seq(Keys \X Values)
  BY DEF IInv, Updates
<1> QED
  BY <1>1, <1>2, <1>4, <1>5 DEF TypeOK

\* find_in_bucket walks over the entries of its bucket and no other, for every hash
\* function, every number of entries and after every sequence of calls.
THEOREM Buckets == Spec => []BucketsAreRuns
<1>1. IInv => BucketsAreRuns
  <2> SUFFICES ASSUME IInv, NEW i \in Indexes(table)
               PROVE  LET mine == {k \in ToSet(table.list) : Index(table, k) = i}
                      IN  IF table.buckets[i] = EmptyBucket THEN mine = {}
                          ELSE Chain(table, i) = mine
    BY DEF BucketsAreRuns
  <2>1. WellFormed(table)
    BY DEF IInv, EntriesOK
  <2>2. CASE table.buckets[i] = EmptyBucket
    <3>1. NoneIn(table, i)
      BY <2>1, <2>2, BucketCases
    <3>2. ToSet(table.list) = {table.list[j] : j \in 1 .. Len(table.list)}
      BY <2>1, TableFacts
    <3> QED
      BY <2>2, <3>1, <3>2 DEF NoneIn
  <2>3. CASE table.buckets[i] # EmptyBucket
    BY <2>1, <2>3, ChainIsBucket
  <2> QED
    BY <2>2, <2>3
<1> QED
  BY <1>1, Inductive, PTL

\* Lookup, which goes through the buckets, and iteration, which goes through the order
\* list, see the same entries, and size counts them.
THEOREM Lists == Spec => []ListsAgree
<1>1. IInv => ListsAgree
  <2> SUFFICES ASSUME IInv PROVE ListsAgree
    OBVIOUS
  <2>1. TypeOK
    BY TypesFollow
  <2>2. /\ IsInjective(table.list) /\ IsInjective(ordered) /\ table.size = Len(ordered)
        /\ \A k \in Keys : k \in ToSet(table.list) <=> k \in ToSet(ordered)
        /\ \A k \in Keys : k \in ToSet(ordered) <=> value[k] # Null
        /\ table.list \in Seq(Keys) /\ ordered \in Seq(Keys)
    BY TableFacts DEF IInv, EntriesOK, WellFormed
  <2>3. ToSet(table.list) \subseteq Keys /\ ToSet(ordered) \subseteq Keys
    BY <2>2 DEF ToSet
  <2>4. ToSet(table.list) = ToSet(ordered)
    BY <2>2, <2>3
  <2>5. ToSet(ordered) = {k \in Keys : value[k] # Null}
    BY <2>2, <2>3
  <2> QED
    BY <2>1, <2>2, <2>4, <2>5 DEF ListsAgree
<1> QED
  BY <1>1, Inductive, PTL

\* A loop over the object holds no pointer to an entry that was freed: the one it is at
\* is there or was deleted by its body, and the one it goes to next is there.
THEOREM Links == Spec => []WalkLinksLive
<1>1. IInv => WalkLinksLive
  <2> SUFFICES ASSUME IInv PROVE WalkLinksLive
    OBVIOUS
  <2>1. ASSUME ~ walk.gone, walk.at # Null PROVE walk.at \in ToSet(ordered)
    <3>1. PICK q \in 1 .. Len(ordered) + 1 : Ahead(q)
      BY <2>1 DEF IInv, WalkOK
    <3>2. q > 1 /\ ordered[q - 1] = walk.at
      BY <2>1, <3>1 DEF Ahead
    <3>3. q - 1 \in 1 .. Len(ordered) /\ ordered \in Seq(Keys)
      BY <3>2 DEF IInv, EntriesOK
    <3> QED
      BY <3>2, <3>3 DEF ToSet
  <2>2. walk.next # Null => walk.next \in ToSet(ordered)
    BY DEF IInv, WalkOK
  <2> QED
    BY <2>1, <2>2 DEF WalkLinksLive
<1> QED
  BY <1>1, Inductive, PTL

\* A loop misses none of the entries that were there when it began, visits none twice
\* and keeps their order, for objects of any size and whatever its body does.
THEOREM Visits == Spec => WalkVisitsAll
<1> DEFINE Goes == walk.at # Null /\ walk'.at # walk.at /\ walk'.kind # "none" =>
                     IF walk.due # << >> THEN walk'.at = Head(walk.due)
                     ELSE walk.kind = "plain" /\ walk'.at = Null => walk.at = Last(ordered)
<1>1. IInv /\ [Next]_vars => [Goes]_walk
  <2> SUFFICES ASSUME IInv, [Next]_vars, walk.at # Null, walk'.at # walk.at, walk'.kind # "none"
               PROVE  IF walk.due # << >> THEN walk'.at = Head(walk.due)
                      ELSE walk.kind = "plain" /\ walk'.at = Null => walk.at = Last(ordered)
    OBVIOUS
  <2>1. WalkStep
    <3>1. walk \in Walks /\ walk.kind # "none"
      BY DEF IInv, WalkOK
    <3>2. walk' # walk /\ walk' # NoWalk
      BY DEF NoWalk
    <3>3. \A k \in Keys : ~ Delete(k)
      BY <3>1 DEF Delete, Walks
    <3> QED
      BY <3>1, <3>2, <3>3 DEF Next, vars, Set, Clear, UpdateBegin, UpdateTurn, UpdateEnd,
                               WalkBegin, IterSet, WalkEnd
  <2>2. /\ walk.due # << >> => walk'.at = Head(walk.due)
        /\ walk.due = << >> /\ walk.kind = "plain" /\ walk'.at = Null
             => Len(ordered) > 0 /\ walk.at = ordered[Len(ordered)]
    BY <2>1, WalkStepGoes DEF IInv
  <2> QED
    BY <2>2 DEF Last
<1> QED
  BY <1>1, Inductive, PTL DEF Spec, WalkVisitsAll

-----------------------------------------------------------------------------
(* The object is an insertion-ordered map                                  *)

\* One pair for each entry.
PairsOfEntries ==
  /\ Contents \in Seq(Keys \X Values)
  /\ Len(Contents) = Len(ordered)
  /\ \A i \in 1 .. Len(ordered) : Contents[i] = <<ordered[i], value[ordered[i]]>>
  /\ ordered = << >> => Contents = << >>

LEMMA ContentsNow == EntriesOK => PairsOfEntries
<1> SUFFICES ASSUME EntriesOK PROVE PairsOfEntries
  OBVIOUS
<1>1. /\ Contents \in Seq(Keys \X Values) /\ Len(Contents) = Len(ordered)
      /\ \A i \in 1 .. Len(ordered) : Contents[i] = <<ordered[i], value[ordered[i]]>>
  BY ContentsFacts
<1> HIDE DEF Contents
<1>2. ordered = << >> => Contents = << >>
  BY <1>1, EmptySeq
<1> QED
  BY <1>1, <1>2 DEF PairsOfEntries

\* The same in the state after a step.
LEMMA ContentsNext == EntriesOK' => PairsOfEntries'
BY ContentsNow, PTL

LEMMA KeysOfContents ==
  ASSUME EntriesOK, NEW k \in Keys
  PROVE  k \in AsMap!KeysOf(Contents) <=> k \in ToSet(ordered)
<1>1. /\ DOMAIN Contents = 1 .. Len(ordered)
      /\ \A i \in 1 .. Len(ordered) : Contents[i] = <<ordered[i], value[ordered[i]]>>
  BY ContentsFacts
<1>2. ToSet(ordered) = {ordered[i] : i \in 1 .. Len(ordered)}
  BY DEF EntriesOK, ToSet
<1> HIDE DEF Contents
<1> QED
  BY <1>1, <1>2 DEF AsMap!KeysOf

\* A present key takes the new value and keeps its place.
LEMMA OverwriteContents ==
  ASSUME EntriesOK, EntriesOK', NEW k \in ToSet(ordered), NEW v \in Values,
         ordered' = ordered, value' = [value EXCEPT ![k] = v]
  PROVE  Contents' = [i \in DOMAIN Contents |->
                        IF Contents[i][1] = k THEN <<k, v>> ELSE Contents[i]]
<1> DEFINE n == Len(ordered)
           r == [i \in DOMAIN Contents |-> IF Contents[i][1] = k THEN <<k, v>> ELSE Contents[i]]
<1>1. /\ n \in Nat /\ DOMAIN Contents = 1 .. n
      /\ \A i \in 1 .. n : /\ Contents[i] = <<ordered[i], value[ordered[i]]>>
                           /\ ordered[i] \in Keys /\ value[ordered[i]] \in Values
  BY ContentsFacts DEF EntriesOK
<1>2. k \in Keys
  BY <1>1 DEF EntriesOK, ToSet
<1>3. /\ Contents' \in Seq(Keys \X Values)
      /\ Len(Contents') = n
      /\ \A i \in 1 .. n : Contents'[i] = <<ordered[i], value'[ordered[i]]>>
  BY ContentsNext DEF PairsOfEntries
<1>4. r \in Seq(Keys \X Values) /\ Len(r) = n
  <2>1. r \in [1 .. n -> Keys \X Values]
    BY <1>1, <1>2
  <2> HIDE DEF r
  <2> QED
    BY <1>1, <2>1
<1>5. ASSUME NEW i \in 1 .. n PROVE Contents'[i] = r[i]
  <2>1. value'[ordered[i]] = IF ordered[i] = k THEN v ELSE value[ordered[i]]
    BY <1>1, <1>2 DEF EntriesOK
  <2>2. r[i] = IF ordered[i] = k THEN <<k, v>> ELSE <<ordered[i], value[ordered[i]]>>
    BY <1>1
  <2> HIDE DEF r, Contents
  <2> QED
    BY <1>3, <2>1, <2>2
<1> HIDE DEF r, Contents
<1>6. Contents' = r
  BY <1>3, <1>4, <1>5, SeqEqual
<1> QED
  BY <1>6 DEF r

\* A new key goes to the end.
LEMMA AppendContents ==
  ASSUME EntriesOK, EntriesOK', NEW k \in Keys, k \notin ToSet(ordered), NEW v \in Values,
         ordered' = Append(ordered, k), value' = [value EXCEPT ![k] = v]
  PROVE  Contents' = Append(Contents, <<k, v>>)
<1> DEFINE n == Len(ordered)
           r == Append(Contents, <<k, v>>)
<1>1. /\ n \in Nat /\ Contents \in Seq(Keys \X Values) /\ Len(Contents) = n
      /\ \A i \in 1 .. n : /\ Contents[i] = <<ordered[i], value[ordered[i]]>>
                           /\ ordered[i] \in Keys
  BY ContentsFacts DEF EntriesOK
<1>2. /\ Contents' \in Seq(Keys \X Values)
      /\ Len(Contents') = Len(ordered')
      /\ \A i \in 1 .. Len(ordered') : Contents'[i] = <<ordered'[i], value'[ordered'[i]]>>
  BY ContentsNext DEF PairsOfEntries
<1>3. /\ r \in Seq(Keys \X Values) /\ Len(r) = n + 1
      /\ \A i \in 1 .. n : r[i] = Contents[i]
      /\ r[n + 1] = <<k, v>>
  <2> HIDE DEF Contents
  <2> QED
    BY <1>1, AppendProperties
<1>4. /\ Len(ordered') = n + 1
      /\ \A i \in 1 .. n : ordered'[i] = ordered[i]
      /\ ordered'[n + 1] = k
  BY AppendToInjective DEF EntriesOK
<1>5. \A x \in Keys : value'[x] = IF x = k THEN v ELSE value[x]
  BY DEF EntriesOK
<1> HIDE DEF r, Contents
<1>6. ASSUME NEW i \in 1 .. n + 1 PROVE Contents'[i] = r[i]
  <2>1. Contents'[i] = <<ordered'[i], value'[ordered'[i]]>>
    BY <1>2, <1>4
  <2>2. CASE i = n + 1
    BY <1>3, <1>4, <1>5, <2>1, <2>2
  <2>3. CASE i \in 1 .. n
    <3>1. ordered[i] # k
      BY SMTT(20), <1>1, <2>3 DEF ToSet, EntriesOK
    <3> QED
      BY <1>1, <1>3, <1>4, <1>5, <2>1, <2>3, <3>1
  <2> QED
    BY <1>1, <2>2, <2>3
<1>7. Contents' = r
  BY <1>2, <1>3, <1>4, <1>6, SeqEqual
<1> QED
  BY <1>7 DEF r

LEMMA SetRefines ==
  ASSUME EntriesOK, EntriesOK', NEW k \in Keys, NEW v \in Values, SetOutcome(k, v)
  PROVE  AsMap!Next \/ UNCHANGED Contents
<1>1. CASE ordered' = ordered /\ value' = value
  BY <1>1 DEF Contents
<1>2. CASE k \in ToSet(ordered) /\ ordered' = ordered /\ value' = [value EXCEPT ![k] = v]
  <2>1. k \in AsMap!KeysOf(Contents)
    BY <1>2, KeysOfContents
  <2>2. AsMap!Overwrite(k, v)
    BY <1>2, <2>1, OverwriteContents DEF AsMap!Overwrite
  <2> QED
    BY <2>2 DEF AsMap!Next
<1>3. CASE k \notin ToSet(ordered) /\ ordered' = Append(ordered, k) /\ value' = [value EXCEPT ![k] = v]
  <2>1. k \notin AsMap!KeysOf(Contents)
    BY <1>3, KeysOfContents
  <2>2. AsMap!Insert(k, v)
    BY <1>3, <2>1, AppendContents DEF AsMap!Insert
  <2> QED
    BY <2>2 DEF AsMap!Next
<1> QED
  BY <1>1, <1>2, <1>3 DEF SetOutcome

LEMMA DeleteRefines ==
  ASSUME EntriesOK, EntriesOK', NEW p \in 1 .. Len(ordered), DeleteOutcome(p)
  PROVE  AsMap!Next
<1> DEFINE n == Len(ordered)
           k == ordered[p]
           r == RemoveAt(Contents, p)
<1>1. /\ n \in Nat /\ Contents \in Seq(Keys \X Values) /\ Len(Contents) = n
      /\ DOMAIN Contents = 1 .. n
      /\ \A i \in 1 .. n : /\ Contents[i] = <<ordered[i], value[ordered[i]]>>
                           /\ ordered[i] \in Keys
      /\ \A i, j \in 1 .. n : ordered[i] = ordered[j] => i = j
  BY ContentsFacts DEF EntriesOK, IsInjective
<1>2. /\ Contents' \in Seq(Keys \X Values)
      /\ Len(Contents') = Len(ordered')
      /\ \A i \in 1 .. Len(ordered') : Contents'[i] = <<ordered'[i], value'[ordered'[i]]>>
  BY ContentsNext DEF PairsOfEntries
<1>3. /\ Len(ordered') = n - 1
      /\ \A j \in 1 .. n - 1 : ordered'[j] = IF j < p THEN ordered[j] ELSE ordered[j + 1]
  BY DEF DeleteOutcome, Closed
<1>4. \A x \in Keys : x # k => value'[x] = value[x]
  BY DEF DeleteOutcome, EntriesOK
<1>5. /\ r \in Seq(Keys \X Values) /\ Len(r) = n - 1
      /\ \A j \in 1 .. n - 1 : r[j] = IF j < p THEN Contents[j] ELSE Contents[j + 1]
  <2>1. Contents \in Seq(Keys \X Values) /\ Len(Contents) = n /\ p \in 1 .. Len(Contents)
    BY <1>1
  <2> HIDE DEF Contents
  <2> QED
    BY <2>1, RemovedAt
<1> HIDE DEF r, Contents
<1>6. ASSUME NEW j \in 1 .. n - 1 PROVE Contents'[j] = r[j]
  <2> DEFINE i == IF j < p THEN j ELSE j + 1
  <2>1. i \in 1 .. n /\ i # p
    BY <1>1
  <2>2. ordered'[j] = ordered[i] /\ r[j] = Contents[i]
    BY <1>3, <1>5
  <2> HIDE DEF i
  <2>3. ordered[i] # k /\ ordered[i] \in Keys
    BY <1>1, <2>1
  <2>4. Contents'[j] = <<ordered'[j], value'[ordered'[j]]>>
    BY <1>2, <1>3
  <2> QED
    BY <1>1, <1>4, <2>1, <2>2, <2>3, <2>4
<1>7. Contents' = r
  BY <1>2, <1>3, <1>5, <1>6, SeqEqual
<1>8. AsMap!Delete(k)
  <2>1. p \in DOMAIN Contents /\ Contents[p][1] = k
    BY <1>1
  <2> QED
    BY <1>7, <2>1 DEF AsMap!Delete, AsMap!RemoveAt, RemoveAt, r
<1> QED
  BY <1>1, <1>8 DEF AsMap!Next

\* Buckets, links, the rehash and the loops cannot be seen: every step is one of the map
\* that remembers the order its keys were inserted in, or changes nothing in it.
THEOREM Refines == Spec => RefinesMap
<1>1. Init => AsMap!Init
  BY InitEntries, ContentsNow DEF Init, AsMap!Init, PairsOfEntries
<1>2. IInv /\ IInv' /\ EntryStep => AsMap!Next \/ UNCHANGED Contents
  <2> SUFFICES ASSUME IInv, IInv', EntryStep PROVE AsMap!Next \/ UNCHANGED Contents
    OBVIOUS
  <2>1. EntriesOK /\ EntriesOK'
    BY DEF IInv
  <2>2. CASE UNCHANGED <<ordered, value>>
    BY <2>2 DEF Contents
  <2>3. CASE \E k \in Keys, v \in Values : SetOutcome(k, v)
    BY <2>1, <2>3, SetRefines
  <2>4. CASE \E p \in 1 .. Len(ordered) : DeleteOutcome(p)
    BY <2>1, <2>4, DeleteRefines
  <2>5. CASE ordered' = << >>
    <3>1. Contents' = << >>
      BY <2>1, <2>5, ContentsNext DEF PairsOfEntries
    <3> QED
      BY <3>1 DEF AsMap!Next, AsMap!Clear
  <2> QED
    BY <2>2, <2>3, <2>4, <2>5 DEF EntryStep
<1>3. IInv /\ [Next]_vars => [AsMap!Next]_Contents
  BY <1>2, StepWorks
<1> QED
  BY <1>1, <1>3, Inductive, PTL DEF Spec, RefinesMap, AsMap!Spec

-----------------------------------------------------------------------------
(* The update loops merge one entry after the other                        *)

Pairs == Keys \X Values

Cut(mode, k) == IF mode = "existing" THEN k ELSE CString[k]

Has(m, k) == \E i \in 1 .. Len(m) : m[i][1] = k

LEMMA PairFacts ==
  ASSUME NEW e \in Pairs, NEW mode
  PROVE  e[1] \in Keys /\ e[2] \in Values /\ Cut(mode, e[1]) \in Keys /\ e = <<e[1], e[2]>>
BY CStringAssumption DEF Pairs, Cut

\* r is what setting key k to v makes of the map m, position by position.
SetIn(mode, m, k, v, r) ==
  /\ r \in Seq(Pairs)
  /\ Has(m, k) => /\ Len(r) = Len(m)
                  /\ \A i \in 1 .. Len(m) :
                       r[i] = IF m[i][1] = k /\ mode # "missing" THEN <<k, v>> ELSE m[i]
  /\ ~ Has(m, k) /\ mode = "existing" => r = m
  /\ ~ Has(m, k) /\ mode # "existing" =>
       /\ r = Append(m, <<k, v>>)
       /\ Len(r) = Len(m) + 1
       /\ \A i \in 1 .. Len(m) : r[i] = m[i]
       /\ r[Len(m) + 1] = <<k, v>>

LEMMA MergeSets ==
  ASSUME NEW mode, NEW m \in Seq(Pairs), NEW e \in Pairs
  PROVE  SetIn(mode, m, Cut(mode, e[1]), e[2], MergeEntry(mode, m, e))
<1> DEFINE k == Cut(mode, e[1])
           r == MergeEntry(mode, m, e)
           n == Len(m)
           o == [i \in 1 .. n |-> IF m[i][1] = k /\ mode # "missing" THEN <<k, e[2]>> ELSE m[i]]
           a == Append(m, <<k, e[2]>>)
<1>1. /\ n \in Nat /\ DOMAIN m = 1 .. n /\ \A i \in 1 .. n : m[i] \in Pairs
      /\ k \in Keys /\ <<k, e[2]>> \in Pairs
  BY PairFacts DEF Pairs
<1>2. r = IF Has(m, k) THEN o ELSE IF mode = "existing" THEN m ELSE a
  BY <1>1 DEF MergeEntry, Has, Cut
<1>3. o \in Seq(Pairs) /\ Len(o) = n
  <2>1. o \in [1 .. n -> Pairs]
    BY <1>1
  <2> HIDE DEF o
  <2> QED
    BY <1>1, <2>1
<1>4. /\ a \in Seq(Pairs) /\ Len(a) = n + 1
      /\ \A i \in 1 .. n : a[i] = m[i]
      /\ a[n + 1] = <<k, e[2]>>
  <2> HIDE DEF k
  <2> QED
    BY <1>1, AppendProperties
<1>5. \A i \in 1 .. n : o[i] = IF m[i][1] = k /\ mode # "missing" THEN <<k, e[2]>> ELSE m[i]
  OBVIOUS
<1> HIDE DEF o, a, r, k
<1> QED
  BY <1>2, <1>3, <1>4, <1>5 DEF SetIn, n, r, k, a

\* f[j] is what the entries of src up to position j make of the map.
Merging(mode, before, src, f) ==
  /\ f[0] = before
  /\ \A j \in 1 .. Len(src) : f[j] = MergeEntry(mode, f[j - 1], src[j])

LEMMA MergingExists ==
  ASSUME NEW mode \in Modes, NEW before, NEW src \in Seq(Pairs)
  PROVE  \E f : /\ Merging(mode, before, src, f)
                /\ Merged(before, src, mode) = f[Len(src)]
<1> DEFINE n == Len(src)
           goes(h) == h = [s \in SUBSET (1 .. n) |->
                             IF s = {} THEN before
                             ELSE MergeEntry(mode, h[s \ {Max(s)}], src[Max(s)])]
           g == CHOOSE h : goes(h)
           f == [j \in 0 .. n |-> g[1 .. j]]
<1>1. n \in Nat /\ DOMAIN src = 1 .. n
  OBVIOUS
<1>2. goes(g)
  <2>1. PICK h : Turns(mode, src, before, n, h)
    BY <1>1, TurnsExist, Zenon
  <2>2. mode # "rehash"
    BY DEF Modes
  <2>3. goes(h)
    BY <2>1, <2>2 DEF Turns, Turn
  <2> QED
    BY <2>3, Zenon
<1>3. Merged(before, src, mode) = g[DOMAIN src]
  BY <1>1 DEF Merged, FoldLeft, MapThenFoldSet
<1> HIDE DEF g
<1>4. \A s \in SUBSET (1 .. n) :
        g[s] = IF s = {} THEN before ELSE MergeEntry(mode, g[s \ {Max(s)}], src[Max(s)])
  <2> DEFINE turn(s) == IF s = {} THEN before
                        ELSE MergeEntry(mode, g[s \ {Max(s)}], src[Max(s)])
  <2>1. g = [s \in SUBSET (1 .. n) |-> turn(s)]
    BY <1>2
  <2> HIDE DEF turn, n
  <2>2. \A s \in SUBSET (1 .. n) : g[s] = turn(s)
    BY <2>1, Zenon
  <2> QED
    BY <2>2 DEF turn
<1> HIDE DEF goes
<1>5. f[0] = before
  <2>1. 1 .. 0 = {} /\ 1 .. 0 \in SUBSET (1 .. n)
    OBVIOUS
  <2>2. f[0] = g[1 .. 0]
    BY <1>1
  <2> QED
    BY <1>4, <2>1, <2>2
<1>6. ASSUME NEW j \in 1 .. n PROVE f[j] = MergeEntry(mode, f[j - 1], src[j])
  <2>1. Max(1 .. j) = j
    <3>1. /\ j - 1 \in Nat /\ (j - 1) + 1 = j
          /\ 1 .. j \in SUBSET (1 .. (j - 1) + 1) /\ (j - 1) + 1 \in 1 .. j
      BY <1>1
    <3> QED
      BY <3>1, MaxIsLast
  <2>2. 1 .. j \in SUBSET (1 .. n) /\ 1 .. j # {} /\ (1 .. j) \ {j} = 1 .. j - 1
    <3>1. \A x \in 1 .. j : x \in 1 .. n
      BY <1>1
    <3>2. j \in 1 .. j
      BY <1>1
    <3>3. \A x : x \in (1 .. j) \ {j} <=> x \in 1 .. j - 1
      BY <1>1
    <3> QED
      BY <3>1, <3>2, <3>3
  <2>3. f[j] = g[1 .. j] /\ f[j - 1] = g[1 .. j - 1]
    BY <1>1
  <2> HIDE DEF f
  <2> QED
    BY <1>4, <2>1, <2>2, <2>3
<1>7. Merged(before, src, mode) = f[n]
  BY <1>1, <1>3
<1>8. Merging(mode, before, src, f)
  BY <1>5, <1>6 DEF Merging
<1> QED
  BY <1>7, <1>8

LEMMA MergingTyped ==
  ASSUME NEW mode, NEW before \in Seq(Pairs), NEW src \in Seq(Pairs), NEW f,
         Merging(mode, before, src, f)
  PROVE  \A j \in Nat : j <= Len(src) => f[j] \in Seq(Pairs)
<1> DEFINE S == {j \in Nat : j <= Len(src) => f[j] \in Seq(Pairs)}
<1>1. 0 \in S
  BY DEF Merging
<1>2. ASSUME NEW j \in Nat, j \in S PROVE j + 1 \in S
  <2> SUFFICES ASSUME j + 1 <= Len(src) PROVE f[j + 1] \in Seq(Pairs)
    OBVIOUS
  <2>1. j + 1 \in 1 .. Len(src) /\ src[j + 1] \in Pairs /\ (j + 1) - 1 = j
    OBVIOUS
  <2>2. f[j] \in Seq(Pairs)
    BY <1>2, <2>1
  <2>3. f[j + 1] = MergeEntry(mode, f[j], src[j + 1])
    BY <2>1 DEF Merging
  <2> QED
    BY ZenonT(30), <2>1, <2>2, <2>3, MergeSets DEF SetIn
<1> HIDE DEF S
<1>3. Nat \subseteq S
  BY <1>1, <1>2, InductionOverSet
<1> QED
  BY <1>3 DEF S

\* The same keys in the same places, with the same values but for the keys in C.
SameBut(m, r, C) ==
  /\ m \in Seq(Pairs) /\ r \in Seq(Pairs) /\ Len(m) = Len(r)
  /\ \A i \in 1 .. Len(m) : m[i][1] = r[i][1] /\ (m[i][1] \notin C => m[i] = r[i])

\* Two entries of the same key, that is in C where their values differ.
LEMMA MergeKeepsSameBut ==
  ASSUME NEW mode, NEW C, NEW m, NEW r, SameBut(m, r, C), NEW d \in Pairs, NEW e \in Pairs,
         d = e \/ (d[1] = e[1] /\ Cut(mode, d[1]) \in C)
  PROVE  SameBut(MergeEntry(mode, m, d), MergeEntry(mode, r, e), C)
<1> DEFINE k == Cut(mode, d[1])
           x == MergeEntry(mode, m, d)
           y == MergeEntry(mode, r, e)
           n == Len(m)
<1>1. /\ m \in Seq(Pairs) /\ r \in Seq(Pairs) /\ n = Len(r) /\ n \in Nat
      /\ \A i \in 1 .. n : m[i][1] = r[i][1] /\ (m[i][1] \notin C => m[i] = r[i])
  BY DEF SameBut
<1>2. Cut(mode, e[1]) = k /\ (d = e \/ k \in C)
  OBVIOUS
<1>3. Has(m, k) <=> Has(r, k)
  BY <1>1 DEF Has
<1>4. SetIn(mode, m, k, d[2], x)
  BY <1>1, MergeSets
<1>5. SetIn(mode, r, k, e[2], y)
  BY <1>1, <1>2, MergeSets
<1> HIDE DEF x, y, k, n
<1>6. CASE Has(m, k)
  <2>1. ASSUME NEW i \in 1 .. n PROVE x[i][1] = y[i][1] /\ (x[i][1] \notin C => x[i] = y[i])
    <3>1. /\ x[i] = IF m[i][1] = k /\ mode # "missing" THEN <<k, d[2]>> ELSE m[i]
          /\ y[i] = IF r[i][1] = k /\ mode # "missing" THEN <<k, e[2]>> ELSE r[i]
      BY <1>1, <1>3, <1>4, <1>5, <1>6 DEF SetIn, n
    <3>2. CASE m[i][1] = k /\ mode # "missing"
      BY <1>1, <1>2, <3>1, <3>2
    <3>3. CASE ~ (m[i][1] = k /\ mode # "missing")
      BY <1>1, <3>1, <3>3
    <3> QED
      BY <3>2, <3>3
  <2> QED
    BY <1>1, <1>3, <1>4, <1>5, <1>6, <2>1 DEF SetIn, SameBut, x, y, n
<1>7. CASE ~ Has(m, k) /\ mode = "existing"
  <2>1. x = m /\ y = r
    BY <1>3, <1>4, <1>5, <1>7 DEF SetIn
  <2> QED
    BY <2>1 DEF x, y
<1>8. CASE ~ Has(m, k) /\ mode # "existing"
  <2>1. /\ Len(x) = n + 1 /\ x[n + 1] = <<k, d[2]>> /\ \A i \in 1 .. n : x[i] = m[i]
        /\ Len(y) = n + 1 /\ y[n + 1] = <<k, e[2]>> /\ \A i \in 1 .. n : y[i] = r[i]
    BY <1>1, <1>3, <1>4, <1>5, <1>8 DEF SetIn, n
  <2>2. ASSUME NEW i \in 1 .. n + 1 PROVE x[i][1] = y[i][1] /\ (x[i][1] \notin C => x[i] = y[i])
    <3>1. CASE i = n + 1
      BY <1>2, <2>1, <3>1
    <3>2. CASE i \in 1 .. n
      BY <1>1, <2>1, <3>2
    <3> QED
      BY <1>1, <3>1, <3>2
  <2> QED
    BY <1>4, <1>5, <2>1, <2>2 DEF SetIn, SameBut, x, y
<1> QED
  BY <1>6, <1>7, <1>8

\* Two sources that differ at most in the values of entries whose keys are cut to
\* keys in C.
Alike(mode, s, r, n, C) ==
  \A j \in 1 .. n : s[j] = r[j] \/ (s[j][1] = r[j][1] /\ Cut(mode, s[j][1]) \in C)

LEMMA MergingAlike ==
  ASSUME NEW mode, NEW before \in Seq(Pairs), NEW C, NEW n \in Nat,
         NEW s \in Seq(Pairs), NEW r \in Seq(Pairs), n <= Len(s), n <= Len(r),
         NEW f, Merging(mode, before, s, f), NEW g, Merging(mode, before, r, g),
         Alike(mode, s, r, n, C)
  PROVE  SameBut(f[n], g[n], C)
<1> DEFINE S == {j \in Nat : j <= n => SameBut(f[j], g[j], C)}
<1>1. 0 \in S
  BY DEF Merging, SameBut
<1>2. ASSUME NEW j \in Nat, j \in S PROVE j + 1 \in S
  <2> SUFFICES ASSUME j + 1 <= n PROVE SameBut(f[j + 1], g[j + 1], C)
    OBVIOUS
  <2>1. /\ j + 1 \in 1 .. n /\ j + 1 \in 1 .. Len(s) /\ j + 1 \in 1 .. Len(r)
        /\ s[j + 1] \in Pairs /\ r[j + 1] \in Pairs /\ (j + 1) - 1 = j
    OBVIOUS
  <2>2. SameBut(f[j], g[j], C)
    BY <1>2, <2>1
  <2>3. f[j + 1] = MergeEntry(mode, f[j], s[j + 1]) /\ g[j + 1] = MergeEntry(mode, g[j], r[j + 1])
    BY <2>1 DEF Merging
  <2>4. s[j + 1] = r[j + 1] \/ (s[j + 1][1] = r[j + 1][1] /\ Cut(mode, s[j + 1][1]) \in C)
    BY <2>1 DEF Alike
  <2> QED
    BY <2>1, <2>2, <2>3, <2>4, MergeKeepsSameBut
<1> HIDE DEF S
<1>3. Nat \subseteq S
  BY <1>1, <1>2, InductionOverSet
<1> QED
  BY <1>3 DEF S

LEMMA SameButNone ==
  ASSUME NEW m, NEW r, SameBut(m, r, {})
  PROVE  m = r
<1>1. m \in Seq(Pairs) /\ r \in Seq(Pairs) /\ Len(m) = Len(r) /\ \A i \in 1 .. Len(m) : m[i] = r[i]
  BY DEF SameBut
<1> QED
  BY <1>1, SeqEqual

\* A value that is about to be overwritten makes no difference.
LEMMA OverwriteAbsorbs ==
  ASSUME NEW m, NEW r, NEW e \in Pairs, SameBut(m, r, {Cut("all", e[1])})
  PROVE  MergeEntry("all", m, e) = MergeEntry("all", r, e)
<1> DEFINE k == Cut("all", e[1])
           x == MergeEntry("all", m, e)
           y == MergeEntry("all", r, e)
           n == Len(m)
<1>1. /\ m \in Seq(Pairs) /\ r \in Seq(Pairs) /\ n = Len(r) /\ n \in Nat
      /\ \A i \in 1 .. n : m[i][1] = r[i][1] /\ (m[i][1] # k => m[i] = r[i])
  BY DEF SameBut
<1>2. CASE ~ Has(m, k)
  <2>1. \A i \in 1 .. n : m[i] = r[i]
    BY <1>1, <1>2 DEF Has
  <2>2. m = r
    BY <1>1, <2>1, SeqEqual
  <2> QED
    BY <2>2
<1>3. CASE Has(m, k)
  <2>1. Has(r, k)
    BY <1>1, <1>3 DEF Has
  <2>2. /\ x \in Seq(Pairs) /\ Len(x) = n
        /\ \A i \in 1 .. n : x[i] = IF m[i][1] = k THEN <<k, e[2]>> ELSE m[i]
    <3>1. SetIn("all", m, k, e[2], x)
      BY <1>1, MergeSets
    <3> HIDE DEF x, k
    <3> QED
      BY <1>1, <1>3, <3>1 DEF SetIn
  <2>3. /\ y \in Seq(Pairs) /\ Len(y) = n
        /\ \A i \in 1 .. n : y[i] = IF r[i][1] = k THEN <<k, e[2]>> ELSE r[i]
    <3>1. SetIn("all", r, k, e[2], y)
      BY <1>1, MergeSets
    <3> HIDE DEF y, k
    <3> QED
      BY <1>1, <2>1, <3>1 DEF SetIn
  <2> HIDE DEF x, y, k, n
  <2>4. \A i \in 1 .. n : x[i] = y[i]
    BY <1>1, <2>2, <2>3
  <2>5. x = y
    BY <2>2, <2>3, <2>4, SeqEqual
  <2> QED
    BY <2>5 DEF x, y
<1> QED
  BY <1>2, <1>3

\* One more entry e of the source r, whose entries before it are those of s, but for
\* values that the update writes over when it comes to e.
LEMMA MergedMore ==
  ASSUME NEW mode \in Modes, NEW before \in Seq(Pairs), NEW s \in Seq(Pairs),
         NEW r \in Seq(Pairs), Len(r) = Len(s) + 1, NEW e \in Pairs, e = r[Len(s) + 1],
         NEW C, Alike(mode, s, r, Len(s), C), C = {} \/ (mode = "all" /\ C = {Cut(mode, e[1])})
  PROVE  Merged(before, r, mode) = MergeEntry(mode, Merged(before, s, mode), e)
<1> DEFINE n == Len(s)
<1>1. PICK f : Merging(mode, before, s, f) /\ Merged(before, s, mode) = f[n]
  BY MergingExists
<1>2. PICK g : Merging(mode, before, r, g) /\ Merged(before, r, mode) = g[n + 1]
  BY MergingExists
<1>3. n \in Nat /\ n + 1 \in 1 .. Len(r) /\ (n + 1) - 1 = n /\ n <= Len(r) /\ n <= Len(s)
  OBVIOUS
<1>4. g[n + 1] = MergeEntry(mode, g[n], e)
  <2>1. g[n + 1] = MergeEntry(mode, g[(n + 1) - 1], r[n + 1])
    BY <1>2, <1>3 DEF Merging
  <2> QED
    BY <1>3, <2>1
<1> HIDE DEF n
<1>5. CASE C = {}
  <2>1. SameBut(f[n], g[n], C)
    BY <1>1, <1>2, <1>3, MergingAlike DEF n
  <2>2. f[n] = g[n]
    BY <1>5, <2>1, SameButNone
  <2> QED
    BY <1>1, <1>2, <1>4, <2>2
<1>6. CASE mode = "all" /\ C = {Cut(mode, e[1])}
  <2>1. SameBut(f[n], g[n], C)
    BY <1>1, <1>2, <1>3, MergingAlike DEF n
  <2>2. MergeEntry(mode, f[n], e) = MergeEntry(mode, g[n], e)
    BY <1>6, <2>1, OverwriteAbsorbs
  <2> QED
    BY <1>1, <1>2, <1>4, <2>2
<1> QED
  BY <1>5, <1>6

LEMMA MergedNone ==
  ASSUME NEW mode \in Modes, NEW before
  PROVE  Merged(before, << >>, mode) = before
<1>1. << >> \in Seq(Pairs) /\ Len(<< >>) = 0
  OBVIOUS
<1>2. PICK f : Merging(mode, before, << >>, f) /\ Merged(before, << >>, mode) = f[Len(<< >>)]
  BY <1>1, MergingExists
<1> QED
  BY <1>1, <1>2 DEF Merging

-----------------------------------------------------------------------------
(* The object under an update                                              *)

LEMMA HasContents ==
  ASSUME EntriesOK, NEW k \in Keys
  PROVE  /\ Has(Contents, k) <=> k \in ToSet(ordered)
         /\ Found(table, k) <=> k \in ToSet(ordered)
<1>1. /\ Len(Contents) = Len(ordered)
      /\ \A i \in 1 .. Len(ordered) : Contents[i] = <<ordered[i], value[ordered[i]]>>
  BY ContentsFacts
<1>2. k \in ToSet(ordered) <=> \E i \in 1 .. Len(ordered) : ordered[i] = k
  BY DEF EntriesOK, ToSet
<1> HIDE DEF Contents
<1>3. Has(Contents, k) <=> k \in ToSet(ordered)
  BY <1>1, <1>2 DEF Has
<1>4. Found(table, k) <=> k \in ToSet(ordered)
  BY FoundIff DEF EntriesOK
<1> QED
  BY <1>3, <1>4

\* A set that does not fail.
LEMMA SetInnerDoes ==
  ASSUME EntriesOK, NEW k \in Keys, NEW v \in Values, SetInner(k, v, TRUE)
  PROVE  /\ k \in ToSet(ordered) => ordered' = ordered
         /\ k \notin ToSet(ordered) => ordered' = Append(ordered, k)
         /\ value' = [value EXCEPT ![k] = v]
<1> DEFINE t == EnsureCapacity(table)
<1>1. WellFormed(t) /\ ToSet(t.list) = ToSet(table.list)
  BY EnsureWorks DEF EntriesOK
<1>2. /\ ordered' = IF ~Found(t, k) THEN Append(ordered, k) ELSE ordered
      /\ value' = [value EXCEPT ![k] = v]
  BY DEF SetInner
<1> HIDE DEF t
<1>3. Found(t, k) <=> k \in ToSet(t.list)
  BY <1>1, FoundIff
<1>4. k \in ToSet(t.list) <=> k \in ToSet(ordered)
  <2>1. k \in ToSet(table.list) <=> k \in ToSet(ordered)
    BY DEF EntriesOK
  <2> QED
    BY <1>1, <2>1, Zenon
<1> QED
  BY <1>2, <1>3, <1>4

\* A turn that does not fail merges the entry it is at.
LEMMA TurnMerges ==
  ASSUME IInv, update.mode \in Modes, UpdateTurn(TRUE)
  PROVE  Contents' = MergeEntry(update.mode, Contents, Source[update.i])
<1> DEFINE mode == update.mode
           e == Source[update.i]
           k == UpdateKey
<1>1. EntriesOK /\ EntriesOK' /\ update \in Updates /\ update.i <= Len(Source)
  BY UpdateTurnStep DEF IInv, UpdateTurn
<1>2. /\ k \in Keys /\ e[2] \in Values /\ Source \in Seq(Pairs)
      /\ k = Cut(mode, e[1])
  BY <1>1, TurnFacts DEF UpdateKey, Cut, Pairs
<1>3. e \in Pairs
  BY <1>1, <1>2 DEF Updates
<1>4. Contents \in Seq(Pairs) /\ DOMAIN Contents = 1 .. Len(Contents)
  BY <1>1, ContentsFacts DEF Pairs
<1>5. /\ Has(Contents, k) <=> k \in ToSet(ordered)
      /\ Found(table, k) <=> k \in ToSet(ordered)
  BY <1>1, <1>2, HasContents
<1>6. /\ Wanted(k) => SetInner(k, e[2], TRUE)
      /\ ~ Wanted(k) => UNCHANGED <<table, ordered, value>>
  BY DEF UpdateTurn
<1>7. /\ mode = "existing" => (Wanted(k) <=> Found(table, k))
      /\ mode = "missing" => (Wanted(k) <=> ~ Found(table, k))
      /\ mode = "all" => Wanted(k)
  BY DEF Wanted
<1>8. mode \in {"all", "existing", "missing"}
  BY DEF Modes
<1>9. MergeEntry(mode, Contents, e) =
        IF Has(Contents, k)
        THEN [i \in DOMAIN Contents |-> IF Contents[i][1] = k /\ mode # "missing"
                                        THEN <<k, e[2]>> ELSE Contents[i]]
        ELSE IF mode = "existing" THEN Contents ELSE Append(Contents, <<k, e[2]>>)
  <2>1. k = IF mode = "existing" THEN e[1] ELSE CString[e[1]]
    BY <1>2 DEF Cut
  <2> HIDE DEF k, e, mode, Contents
  <2> QED
    BY <1>4, <2>1 DEF MergeEntry, Has
<1> HIDE DEF k, e, mode
<1>10. CASE Wanted(k) /\ k \in ToSet(ordered)
  <2>1. ordered' = ordered /\ value' = [value EXCEPT ![k] = e[2]]
    BY <1>1, <1>2, <1>6, <1>10, SetInnerDoes
  <2>2. Contents' = [i \in DOMAIN Contents |->
                       IF Contents[i][1] = k THEN <<k, e[2]>> ELSE Contents[i]]
    BY <1>1, <1>2, <1>10, <2>1, OverwriteContents
  <2>3. mode # "missing" /\ Has(Contents, k)
    BY <1>5, <1>7, <1>10
  <2> HIDE DEF Contents
  <2> QED
    BY <1>9, <2>2, <2>3 DEF mode, e
<1>11. CASE Wanted(k) /\ k \notin ToSet(ordered)
  <2>1. ordered' = Append(ordered, k) /\ value' = [value EXCEPT ![k] = e[2]]
    BY <1>1, <1>2, <1>6, <1>11, SetInnerDoes
  <2>2. Contents' = Append(Contents, <<k, e[2]>>)
    BY <1>1, <1>2, <1>11, <2>1, AppendContents
  <2>3. mode # "existing" /\ ~ Has(Contents, k)
    BY <1>5, <1>7, <1>11
  <2> HIDE DEF Contents
  <2> QED
    BY <1>9, <2>2, <2>3 DEF mode, e
<1>12. CASE ~ Wanted(k)
  <2>1. Contents' = Contents
    BY <1>6, <1>12 DEF Contents
  <2>2. \/ mode = "existing" /\ ~ Has(Contents, k)
        \/ mode = "missing" /\ Has(Contents, k)
    BY <1>5, <1>7, <1>8, <1>12
  <2> HIDE DEF Contents
  <2>3. Contents = [i \in DOMAIN Contents |-> Contents[i]]
    BY <1>4
  <2> QED
    BY <1>9, <2>1, <2>2, <2>3 DEF mode, e
<1> QED
  BY <1>10, <1>11, <1>12

\* An update in progress has taken the entries before position i.
MergesOK ==
  update.mode # "none" =>
    /\ update.i <= Len(Source) + 1
    /\ Contents = Merged(update.before, SubSeq(Source, 1, update.i - 1), update.mode)

\* The source after the turn, which is the object itself when it is updated from
\* itself: its entries up to the one the loop is at are what they were, but for
\* values that this turn writes over.
LEMMA SourceAfter ==
  ASSUME IInv, update.mode \in Modes, UpdateTurn(TRUE)
  PROVE  LET i == update.i
             e == Source[i]
             mode == update.mode
         IN  /\ Source' \in Seq(Pairs) /\ Len(Source) <= Len(Source')
             /\ Source'[i] = e
             /\ \/ Alike(mode, Source, Source', i - 1, {})
                \/ mode = "all" /\ Alike(mode, Source, Source', i - 1, {Cut(mode, e[1])})
<1> DEFINE i == update.i
           e == Source[i]
           mode == update.mode
           k == Cut(mode, e[1])
<1>1. /\ EntriesOK /\ EntriesOK' /\ update \in Updates /\ i <= Len(Source)
      /\ update' = [update EXCEPT !.i = @ + 1]
  BY UpdateTurnStep DEF IInv, UpdateTurn
<1>2. Source \in Seq(Pairs) /\ i \in 1 .. Len(Source) /\ e \in Pairs /\ e = <<e[1], e[2]>>
  <2>1. Source \in Seq(Pairs) /\ i \in Nat \ {0}
    BY <1>1, TurnFacts DEF Pairs, Updates
  <2>2. i \in 1 .. Len(Source)
    BY <1>1, <2>1
  <2>3. e \in Pairs
    BY <2>1, <2>2
  <2> HIDE DEF e, i
  <2> QED
    BY <2>1, <2>2, <2>3, PairFacts
<1>3. update'.self = update.self /\ update'.source = update.source
  BY <1>1 DEF Updates
<1>4. CASE ~ update.self
  <2>1. Source' = Source
    BY <1>3, <1>4 DEF Source
  <2> HIDE DEF e, i, mode
  <2>2. Alike(mode, Source, Source', i - 1, {})
    BY <2>1 DEF Alike
  <2>3. Len(Source) <= Len(Source')
    BY <1>2, <2>1
  <2> QED
    BY <1>2, <2>1, <2>2, <2>3 DEF e, i, mode
<1>5. CASE update.self
  <2>1. Source = Contents /\ Source' = Contents'
    BY <1>3, <1>5 DEF Source
  <2> DEFINE m == Source
             r == Source'
             n == Len(m)
  <2>2. r = MergeEntry(mode, m, e)
    BY <2>1, TurnMerges
  <2> HIDE DEF e, mode
  <2>3. SetIn(mode, m, k, e[2], r)
    BY <1>2, <2>2, MergeSets
  <2>4. n \in Nat /\ i \in 1 .. n /\ m[i] = e /\ m[i] = <<e[1], e[2]>>
    BY <1>2 DEF e
  <2>5. \A x, y \in 1 .. n : m[x][1] = m[y][1] => x = y
    <3>1. Len(Contents) = Len(ordered)
      BY <1>1, ContentsFacts
    <3>2. \A x \in 1 .. Len(ordered) : Contents[x][1] = ordered[x]
      BY <1>1, ContentsFacts
    <3>3. \A x, y \in 1 .. Len(ordered) : ordered[x] = ordered[y] => x = y
      BY <1>1 DEF EntriesOK, IsInjective
    <3> HIDE DEF Contents
    <3> QED
      BY <2>1, <3>1, <3>2, <3>3
  <2> HIDE DEF k, m, r, n, i
  <2>6. /\ r \in Seq(Pairs) /\ n <= Len(r)
        /\ \A j \in 1 .. n : \/ r[j] = m[j]
                             \/ mode # "missing" /\ m[j][1] = k /\ r[j] = <<k, e[2]>>
    <3>1. CASE Has(m, k)
      BY <2>3, <2>4, <3>1 DEF SetIn, n
    <3>2. CASE ~ Has(m, k) /\ mode = "existing"
      BY <2>3, <2>4, <3>2 DEF SetIn, n
    <3>3. CASE ~ Has(m, k) /\ mode # "existing"
      BY <2>3, <2>4, <3>3 DEF SetIn, n
    <3> QED
      BY <3>1, <3>2, <3>3
  <2>7. r[i] = e
    BY <2>4, <2>6
  <2>8. mode \in {"all", "existing", "missing"}
    BY DEF Modes, mode
  <2>9. CASE mode = "missing"
    <3>1. Alike(mode, m, r, i - 1, {})
      BY <2>4, <2>6, <2>9 DEF Alike
    <3> QED
      BY <2>6, <2>7, <3>1 DEF m, r, n, i, e, mode
  <2>10. CASE mode = "existing"
    <3>1. k = e[1]
      BY <2>10 DEF k, Cut
    <3>2. ASSUME NEW j \in 1 .. i - 1 PROVE m[j] = r[j]
      <4>1. j \in 1 .. n /\ j # i
        BY <2>4
      <4>2. m[j][1] # e[1]
        BY <2>4, <2>5, <4>1
      <4> QED
        BY <2>6, <3>1, <4>1, <4>2
    <3>3. Alike(mode, m, r, i - 1, {})
      BY <3>2 DEF Alike
    <3> QED
      BY <2>6, <2>7, <3>3 DEF m, r, n, i, e, mode
  <2>11. CASE mode = "all"
    <3>1. Cut(mode, k) = k
      <4>1. e[1] \in Keys
        BY <1>2, PairFacts
      <4> QED
        BY <2>11, <4>1, CStringAssumption DEF k, Cut
    <3>2. ASSUME NEW j \in 1 .. i - 1
          PROVE  m[j] = r[j] \/ (m[j][1] = r[j][1] /\ Cut(mode, m[j][1]) \in {k})
      <4>1. j \in 1 .. n
        BY <2>4
      <4> QED
        BY <2>6, <3>1, <4>1
    <3>3. Alike(mode, m, r, i - 1, {k})
      BY <3>2 DEF Alike
    <3> QED
      BY <2>6, <2>7, <2>11, <3>3 DEF m, r, n, i, e, mode, k
  <2> QED
    BY <2>8, <2>9, <2>10, <2>11
<1> QED
  BY <1>4, <1>5

LEMMA TurnKeepsMerges ==
  ASSUME IInv, MergesOK, update.mode \in Modes, UpdateTurn(TRUE)
  PROVE  MergesOK'
<1> DEFINE i == update.i
           mode == update.mode
           before == update.before
           e == Source[i]
           S == Source
           R == Source'
           s == SubSeq(S, 1, i - 1)
           r == SubSeq(R, 1, i)
<1>1. /\ EntriesOK /\ update \in Updates /\ i <= Len(S)
      /\ update' = [update EXCEPT !.i = @ + 1]
  BY DEF IInv, UpdateTurn
<1>2. /\ S \in Seq(Pairs) /\ i \in Nat \ {0} /\ before \in Seq(Pairs) /\ Len(S) \in Nat
      /\ i \in 1 .. Len(S) /\ e \in Pairs
  <2>1. S \in Seq(Pairs) /\ i \in Nat \ {0} /\ before \in Seq(Pairs)
    BY <1>1, TurnFacts DEF Pairs, Updates
  <2> HIDE DEF S, i, before
  <2>2. i \in 1 .. Len(S) /\ Len(S) \in Nat
    BY <1>1, <2>1
  <2>3. S[i] \in Pairs
    BY <2>1, <2>2
  <2> QED
    BY <2>1, <2>2, <2>3 DEF e, S
<1>3. /\ R \in Seq(Pairs) /\ Len(S) <= Len(R) /\ R[i] = e
      /\ \/ Alike(mode, S, R, i - 1, {})
         \/ mode = "all" /\ Alike(mode, S, R, i - 1, {Cut(mode, e[1])})
  BY SourceAfter
<1>4. Contents = Merged(before, s, mode)
  BY DEF MergesOK, Modes
<1>5. Contents' = MergeEntry(mode, Contents, e)
  BY TurnMerges
<1>6. /\ update'.mode = mode /\ update'.before = before /\ update'.i = i + 1
  BY <1>1 DEF Updates
<1> HIDE DEF i, mode, before, S, R, e
<1>7. /\ s \in Seq(Pairs) /\ Len(s) = i - 1
      /\ \A j \in 1 .. i - 1 : s[j] = S[j]
  BY <1>2, SubSeqProperties
<1>8. /\ r \in Seq(Pairs) /\ Len(r) = i
      /\ \A j \in 1 .. i : r[j] = R[j]
  <2>1. i \in 1 .. Len(R) /\ Len(R) \in Nat
    BY <1>2, <1>3
  <2> QED
    BY <1>2, <1>3, <2>1, SubSeqProperties
<1> HIDE DEF s, r
<1>9. \A C : Alike(mode, S, R, i - 1, C) => Alike(mode, s, r, i - 1, C)
  <2> SUFFICES ASSUME NEW C, Alike(mode, S, R, i - 1, C), NEW j \in 1 .. i - 1
               PROVE  s[j] = r[j] \/ (s[j][1] = r[j][1] /\ Cut(mode, s[j][1]) \in C)
    BY DEF Alike
  <2>1. s[j] = S[j] /\ r[j] = R[j]
    BY <1>2, <1>7, <1>8
  <2>2. S[j] = R[j] \/ (S[j][1] = R[j][1] /\ Cut(mode, S[j][1]) \in C)
    BY DEF Alike
  <2> QED
    BY <2>1, <2>2
<1>10. Merged(before, r, mode) = MergeEntry(mode, Merged(before, s, mode), e)
  <2>1. Len(r) = Len(s) + 1 /\ Len(s) + 1 = i /\ e = r[Len(s) + 1]
    BY <1>2, <1>3, <1>7, <1>8
  <2>2. PICK C : /\ Alike(mode, s, r, Len(s), C)
                 /\ C = {} \/ (mode = "all" /\ C = {Cut(mode, e[1])})
    BY <1>3, <1>7, <1>9
  <2>3. mode \in Modes
    BY DEF mode
  <2>4. s \in Seq(Pairs) /\ r \in Seq(Pairs) /\ before \in Seq(Pairs) /\ e \in Pairs
    BY <1>2, <1>7, <1>8
  <2> QED
    BY <2>1, <2>2, <2>3, <2>4, MergedMore
<1>11. Contents' = Merged(before, r, mode)
  BY <1>4, <1>5, <1>10
<1>12. update'.i <= Len(R) + 1 /\ update'.i - 1 = i
  BY <1>2, <1>3, <1>6
<1> QED
  BY <1>6, <1>11, <1>12 DEF MergesOK, r, R

LEMMA BeginKeepsMerges ==
  ASSUME IInv, NEW mode \in Modes, NEW self \in BOOLEAN, NEW o \in Others,
         UpdateBegin(mode, self, o)
  PROVE  MergesOK'
<1>1. /\ update'.mode = mode /\ update'.i = 1 /\ update'.before = Contents
      /\ Contents' = Contents
  BY DEF UpdateBegin, Contents
<1>2. Source' \in Seq(Pairs)
  <2>1. Contents \in Seq(Pairs)
    BY ContentsFacts DEF IInv, Pairs
  <2>2. update'.self => Source' = Contents'
    BY DEF Source
  <2>3. ~ update'.self => Source' = o
    BY DEF Source, UpdateBegin
  <2>4. o \in Seq(Pairs)
    BY OthersAssumption DEF Pairs
  <2> QED
    BY <1>1, <2>1, <2>2, <2>3, <2>4
<1>3. SubSeq(Source', 1, 0) = << >>
  BY <1>2, SubSeqEmpty
<1>4. update'.i <= Len(Source') + 1 /\ update'.i - 1 = 0
  BY <1>1, <1>2
<1>5. Merged(Contents, << >>, mode) = Contents
  BY MergedNone
<1> HIDE DEF Contents
<1> QED
  BY <1>1, <1>3, <1>4, <1>5 DEF MergesOK

\* At every turn of an update the object is its old contents merged with the entries
\* taken so far, for contents of any size and also when it is updated from itself.
THEOREM Merges == Spec => []UpdateMergesPrefix
<1>1. Init => MergesOK
  BY DEF Init, NoUpdate, MergesOK
<1>2. IInv /\ MergesOK /\ [Next]_vars => MergesOK'
  <2> SUFFICES ASSUME IInv, MergesOK, [Next]_vars PROVE MergesOK'
    OBVIOUS
  <2>1. CASE update' = update /\ update.mode = "none"
    BY <2>1 DEF MergesOK
  <2>2. ASSUME NEW mode \in Modes, NEW o \in Others, NEW self \in BOOLEAN, UpdateBegin(mode, self, o)
        PROVE  MergesOK'
    BY <2>2, BeginKeepsMerges
  <2>3. CASE update' = NoUpdate
    BY <2>3 DEF NoUpdate, MergesOK
  <2>4. CASE UpdateTurn(TRUE)
    <3>1. update.mode \in Modes
      BY <2>4 DEF UpdateTurn, NotUpdating, IInv, Updates
    <3> QED
      BY <2>4, <3>1, TurnKeepsMerges
  <2>5. CASE UNCHANGED vars
    BY <2>5 DEF vars, MergesOK, Source, Contents
  <2>6. \A k \in Keys, v \in NewValues : Set(k, v) => update' = update /\ update.mode = "none"
    BY DEF Set, ProgramRuns, NotUpdating
  <2>7. \A k \in Keys : Delete(k) => update' = update /\ update.mode = "none"
    BY DEF Delete, NotUpdating
  <2>8. Clear \/ WalkStep \/ WalkEnd => update' = update /\ update.mode = "none"
    BY DEF Clear, WalkStep, WalkEnd, NotUpdating
  <2>9. \A kind, k : WalkBegin(kind, k) => update' = update /\ update.mode = "none"
    BY DEF WalkBegin, NotUpdating
  <2>10. \A v \in NewValues : IterSet(v) => update' = update /\ update.mode = "none"
    BY DEF IterSet, NotUpdating
  <2>11. UpdateEnd => update' = NoUpdate
    BY DEF UpdateEnd
  <2>12. CASE UpdateTurn(FALSE)
    <3>1. UNCHANGED <<ordered, value>>
      BY <2>12 DEF UpdateTurn, SetInner
    <3>2. update' = [update EXCEPT !.failed = TRUE] /\ update \in Updates
      BY <2>12 DEF UpdateTurn, IInv
    <3>3. /\ update'.mode = update.mode /\ update'.i = update.i /\ update'.before = update.before
          /\ update'.self = update.self /\ update'.source = update.source
      BY <3>2 DEF Updates
    <3> QED
      BY <3>1, <3>3 DEF MergesOK, Source, Contents
  <2> QED
    BY <2>1, <2>2, <2>3, <2>4, <2>5, <2>6, <2>7, <2>8, <2>9, <2>10, <2>11, <2>12 DEF Next
<1>3. MergesOK => UpdateMergesPrefix
  BY DEF MergesOK, UpdateMergesPrefix
<1> QED
  BY <1>1, <1>2, <1>3, Inductive, PTL DEF Spec

-----------------------------------------------------------------------------
(* The hash seed, for any number of threads and any width of the seed      *)

\* Until the other threads run, Main is alone in the library and is the only
\* thread that owns anything; it tries to seed only an unseeded process.
MainAlone ==
  ~spawned =>
    /\ ~autoseeded
    /\ \A t \in Threads \ {Main} : pc[t] = "idle" /\ ~object[t]
    /\ pc[Main] \in {"cas", "store"} => seed = 0

\* After an autoseed no thread is past the early return of ensure_seed.
NobodySeeds ==
  autoseeded =>
    /\ seed # 0
    /\ \A t \in Threads : pc[t] \in {"idle", "load", "return"}

\* The seed is in place from the store on, in every thread.
SeededFromStore ==
  \A t \in Threads : pc[t] \in {"clear", "return"} \/ object[t] => seed # 0

\* Keys live in objects, and unless threads race for the seed they are
\* hashed under the seed in force.
KeysUnderSeed ==
  /\ \A t \in Threads : ~object[t] => stored[t] = {}
  /\ ~spawned \/ autoseeded => \A t \in Threads : stored[t] \subseteq {seed}

SeedInv ==
  /\ SeedTypeOK
  /\ OneInitialiser
  /\ MainAlone
  /\ NobodySeeds
  /\ SeededFromStore
  /\ KeysUnderSeed

-----------------------------------------------------------------------------
LEMMA SeedInitially == SeedInit => SeedInv
  <1> SUFFICES ASSUME SeedInit PROVE SeedInv
    OBVIOUS
  <1> USE DEF SeedInit
  <1>1. SeedTypeOK
    <2>1. 0 \in Seeds
      BY SeedSpaceAssumption DEF Seeds
    <2>2. "idle" \in PCs
      BY DEF PCs
    <2>3. QED
      BY <2>1, <2>2 DEF SeedTypeOK
  <1>2. OneInitialiser /\ MainAlone /\ NobodySeeds /\ SeededFromStore
    BY ThreadsAssumption
    DEF OneInitialiser, Seeding, MainAlone, NobodySeeds, SeededFromStore
  <1>3. KeysUnderSeed
    BY DEF KeysUnderSeed
  <1>4. QED
    BY <1>1, <1>2, <1>3 DEF SeedInv

\* The types are preserved by every step.
LEMMA SeedTypeStep == SeedTypeOK /\ [SeedNext]_seedVars => SeedTypeOK'
  <1> SUFFICES ASSUME SeedTypeOK, [SeedNext]_seedVars PROVE SeedTypeOK'
    OBVIOUS
  <1> USE SeedSpaceAssumption, ThreadsAssumption
      DEF SeedTypeOK, Seeds, PCs, Seeding, Moves
  <1>1. CASE Spawn
    BY <1>1 DEF Spawn
  <1>2. ASSUME NEW t \in Threads, CallObject(t) PROVE SeedTypeOK'
    BY <1>2 DEF CallObject
  <1>3. ASSUME NEW t \in Threads, CallSeed(t) PROVE SeedTypeOK'
    <2>1. PICK a \in 0 .. MaxArg : arg' = [arg EXCEPT ![t] = a % SeedSpace]
      BY <1>3 DEF CallSeed
    <2>2. a \in Nat /\ a % SeedSpace \in 0 .. SeedSpace - 1
      BY MaxArgAssumption
    <2>3. QED
      BY <1>3, <2>1, <2>2 DEF CallSeed
  <1>4. ASSUME NEW t \in Threads, LoadSeed(t) PROVE SeedTypeOK'
    BY <1>4 DEF LoadSeed
  <1>5. ASSUME NEW t \in Threads, CompareExchange(t) PROVE SeedTypeOK'
    BY <1>5 DEF CompareExchange
  <1>6. ASSUME NEW t \in Threads, StoreSeed(t) PROVE SeedTypeOK'
    BY <1>6 DEF StoreSeed
  <1>7. ASSUME NEW t \in Threads, ClearInitializing(t) PROVE SeedTypeOK'
    BY <1>7 DEF ClearInitializing
  <1>8. ASSUME NEW t \in Threads, Spin(t) PROVE SeedTypeOK'
    BY <1>8 DEF Spin
  <1>9. ASSUME NEW t \in Threads, Return(t) PROVE SeedTypeOK'
    BY <1>9 DEF Return
  <1>10. ASSUME NEW t \in Threads, SetKey(t) PROVE SeedTypeOK'
    <2>1. HashSeedInUse \in Seeds \ {0}
      BY DEF HashSeedInUse
    <2>2. QED
      BY <1>10, <2>1 DEF SetKey
  <1>11. ASSUME NEW t \in Threads, DelKey(t) PROVE SeedTypeOK'
    BY <1>11 DEF DelKey
  <1>12. ASSUME NEW t \in Threads, DropObject(t) PROVE SeedTypeOK'
    BY <1>12 DEF DropObject
  <1>13. CASE UNCHANGED seedVars
    BY <1>13 DEF seedVars
  <1>14. QED
    BY <1>1, <1>2, <1>3, <1>4, <1>5, <1>6, <1>7, <1>8, <1>9, <1>10, <1>11,
       <1>12, <1>13 DEF SeedNext, EnsureSeed

\* The flag stays a lock.  Only the steps that move a thread into or out of
\* the critical section touch it.
LEMMA InitialiserStep ==
  SeedTypeOK /\ OneInitialiser /\ [SeedNext]_seedVars => OneInitialiser'
  <1> SUFFICES ASSUME SeedTypeOK, OneInitialiser, [SeedNext]_seedVars PROVE OneInitialiser'
    OBVIOUS
  <1> USE DEF SeedTypeOK, OneInitialiser, Seeding, Moves
  <1>1. ASSUME NEW t \in Threads, CompareExchange(t) PROVE OneInitialiser'
    BY <1>1 DEF CompareExchange
  <1>2. ASSUME NEW t \in Threads, StoreSeed(t) PROVE OneInitialiser'
    BY <1>2 DEF StoreSeed
  <1>3. ASSUME NEW t \in Threads, ClearInitializing(t) PROVE OneInitialiser'
    BY <1>3 DEF ClearInitializing
  <1>4. ASSUME NEW t \in Threads,
               CallObject(t) \/ CallSeed(t) \/ LoadSeed(t) \/ Spin(t) \/ Return(t)
        PROVE  OneInitialiser'
    BY <1>4 DEF CallObject, CallSeed, LoadSeed, Spin, Return
  <1>5. ASSUME NEW t \in Threads, SetKey(t) \/ DelKey(t) \/ DropObject(t)
        PROVE  OneInitialiser'
    BY <1>5 DEF SetKey, DelKey, DropObject
  <1>6. CASE Spawn \/ UNCHANGED seedVars
    BY <1>6 DEF Spawn, seedVars
  <1>7. QED
    BY <1>1, <1>2, <1>3, <1>4, <1>5, <1>6 DEF SeedNext, EnsureSeed

\* The rest of the invariant, action by action.
LEMMA SeedStep ==
  SeedInv /\ [SeedNext]_seedVars =>
    MainAlone' /\ NobodySeeds' /\ SeededFromStore' /\ KeysUnderSeed'
  <1> DEFINE Goal == MainAlone /\ NobodySeeds /\ SeededFromStore /\ KeysUnderSeed
  <1> SUFFICES ASSUME SeedInv, [SeedNext]_seedVars PROVE Goal'
    OBVIOUS
  <1> USE ThreadsAssumption, SeedSpaceAssumption
      DEF SeedInv, SeedTypeOK, Seeds, PCs, Seeding, MainAlone, NobodySeeds,
          SeededFromStore, KeysUnderSeed, Moves
  <1>1. CASE Spawn
    BY <1>1 DEF Spawn
  <1>2. ASSUME NEW t \in Threads, CallObject(t) PROVE Goal'
    BY <1>2 DEF CallObject, Running
  <1>3. ASSUME NEW t \in Threads, CallSeed(t) PROVE Goal'
    BY <1>3 DEF CallSeed, Running
  <1>4. ASSUME NEW t \in Threads, LoadSeed(t) PROVE Goal'
    BY <1>4 DEF LoadSeed
  <1>5. ASSUME NEW t \in Threads, CompareExchange(t) PROVE Goal'
    BY <1>5 DEF CompareExchange
  <1>6. ASSUME NEW t \in Threads, StoreSeed(t) PROVE Goal'
    <2>1. ~autoseeded /\ seed' # 0
      BY <1>6 DEF StoreSeed
    <2>2. ~spawned => t = Main /\ seed = 0
      BY <1>6 DEF StoreSeed
    <2>3. ~spawned => \A u \in Threads : stored[u] = {}
      BY <2>2
    <2>4. QED
      BY <1>6, <2>1, <2>2, <2>3 DEF StoreSeed
  <1>7. ASSUME NEW t \in Threads, ClearInitializing(t) PROVE Goal'
    BY <1>7 DEF ClearInitializing
  <1>8. ASSUME NEW t \in Threads, Spin(t) PROVE Goal'
    BY <1>8 DEF Spin
  <1>9. ASSUME NEW t \in Threads, Return(t) PROVE Goal'
    BY <1>9 DEF Return
  <1>10. ASSUME NEW t \in Threads, SetKey(t) PROVE Goal'
    BY <1>10 DEF SetKey, HashSeedInUse
  <1>11. ASSUME NEW t \in Threads, DelKey(t) PROVE Goal'
    BY <1>11 DEF DelKey
  <1>12. ASSUME NEW t \in Threads, DropObject(t) PROVE Goal'
    BY <1>12 DEF DropObject
  <1>13. CASE UNCHANGED seedVars
    BY <1>13 DEF seedVars
  <1>14. QED
    BY <1>1, <1>2, <1>3, <1>4, <1>5, <1>6, <1>7, <1>8, <1>9, <1>10, <1>11,
       <1>12, <1>13 DEF SeedNext, EnsureSeed

\* SeedInv is inductive.
THEOREM SeedInductive == SeedSpec => []SeedInv
  <1>1. SeedInv /\ [SeedNext]_seedVars => SeedInv'
    BY SeedTypeStep, InitialiserStep, SeedStep DEF SeedInv
  <1>2. QED
    BY SeedInitially, <1>1, PTL DEF SeedSpec

\* The state of the protocol is always well typed: in particular a stored
\* seed fits a u32.
THEOREM SeedTyping == SeedSpec => []SeedTypeOK
  BY SeedInductive, PTL DEF SeedInv

\* HASH_SEED_INITIALIZING is a lock around the seeding code, for any number
\* of threads (object.rs, ensure_seed).
THEOREM InitialiserExclusion == SeedSpec => []OneInitialiser
  BY SeedInductive, PTL DEF SeedInv

\* No call of ensure_seed returns, and no object exists, before the process
\* is seeded (object.rs, json_object and hash_key_bytes).
THEOREM Seeded == SeedSpec => []ReturnsSeeded
  <1>1. SeedInv => ReturnsSeeded
    BY DEF SeedInv, SeededFromStore, ReturnsSeeded
  <1>2. QED
    BY <1>1, SeedInductive, PTL

\* The recommendation of the thread-safety page is sufficient: a seed created
\* before the other threads run is final.
THEOREM AutoseedIsFinal == SeedSpec => AutoseedFreezesSeed
  <1>1. SeedInv /\ [SeedNext]_seedVars => [autoseeded => seed' = seed]_seedVars
    <2> SUFFICES ASSUME SeedInv, [SeedNext]_seedVars, autoseeded PROVE seed' = seed
      OBVIOUS
    <2>1. \A t \in Threads : ~StoreSeed(t)
      BY DEF SeedInv, NobodySeeds, StoreSeed, Moves
    <2>2. QED
      BY <2>1 DEF SeedNext, EnsureSeed, Spawn, CallObject, CallSeed, LoadSeed,
                  CompareExchange, ClearInitializing, Spin, Return, SetKey,
                  DelKey, DropObject, seedVars
  <1>2. QED
    BY <1>1, SeedInductive, PTL DEF SeedSpec, AutoseedFreezesSeed

\* ... and then every key stays findable under the hash it was stored with.
THEOREM AutoseedKeepsKeys == SeedSpec => []AutoseededKeysFindable
  <1>1. SeedInv => AutoseededKeysFindable
    BY DEF SeedInv, KeysUnderSeed, AutoseededKeysFindable
  <1>2. QED
    BY <1>1, SeedInductive, PTL
=============================================================================
