-------------------------- MODULE PackUnpackProofs ---------------------------
(***************************************************************************)
(* What json_pack owns, and what json_unpack lends, for any formats and    *)
(* arguments.                                                              *)
(*                                                                         *)
(* The invariant of json_pack is Packs:                                    *)
(*   Control     types, the containers begun, and what each phase of the   *)
(*               call has to do with the rest of its state;                *)
(*   InStep      the packer is beside the shim that has listed the         *)
(*               arguments, so that each is taken for the token that it    *)
(*               was passed for;                                           *)
(*   Holding     every value not freed is in one place, in a container or  *)
(*               in the hands of the call, and made after what holds it;   *)
(*   Counted     the references to each argument are those of its place;   *)
(*   BuffersFit  each buffer is that of a key or of a text being joined.   *)
(* The first parts are about the shim alone: its run through a format, and *)
(* that the packer's scanner goes where the shim's has been.  Then comes   *)
(* what a value holds: the recursion of json_delete reaches the least set  *)
(* that is closed under holding.                                           *)
(*                                                                         *)
(* The invariant of json_unpack is Unpacks, built the same way on the walk *)
(* of its own shim: UnpackInStep puts the two beside each other, so that   *)
(* the argument taken for an 'O' is the target of that 'O', and Lending    *)
(* counts what is lent by what is written.                                 *)
(***************************************************************************)
EXTENDS PackUnpack, FiniteSetTheorems, SequenceTheorems, WellFoundedInduction, TLAPS

-----------------------------------------------------------------------------
(* The scanner: where it goes depends only on where it is.                 *)

Formats == {f \in Seq(STRING) : f # << >> /\ \A i \in DOMAIN f : f[i] # "end"}

NextPlace(f, p) == IF p > Len(f) THEN p ELSE SkipFrom(f, p + 1)

\* The scanner is at a token, or in front of the first, and one token at most has been
\* pushed back.
Sane(f, s) ==
  /\ s \in [prev : Nat, tok : Nat, ahead : Nat, index : Nat]
  /\ s.tok <= Len(f) + 1
  /\ LET last == IF s.ahead = 0 THEN s.tok ELSE s.ahead
     IN s.index = IF last > Len(f) THEN last ELSE last + 1
  /\ s.ahead # 0 => s.ahead = NextPlace(f, s.tok)

LEMMA LeastNumber ==
  ASSUME NEW S \in SUBSET Nat, S # {}
  PROVE  \E x \in S : \A y \in S : x <= y
<1>1. PICK x \in S : \A y \in S : ~ (<<y, x>> \in OpToRel(<, Nat))
  BY WFMin, NatLessThanWellFounded, Zenon
<1>2. \A y \in S : ~ (y < x)
  BY <1>1 DEF OpToRel
<1> QED
  BY <1>2

LEMMA SkipsBlanks ==
  ASSUME NEW f \in Formats, NEW i \in 1 .. Len(f) + 1
  PROVE  SkipFrom(f, i) \in i .. Len(f) + 1
<1> DEFINE S == {p \in Nat : p >= i /\ p <= Len(f) + 1 /\ CharOf(f, p) \notin Blanks}
<1>0. f \in Seq(STRING) /\ Len(f) \in Nat /\ DOMAIN f = 1 .. Len(f)
  BY DEF Formats
<1>1. Len(f) + 1 \in S
  <2>1. Len(f) + 1 \notin DOMAIN f
    BY <1>0
  <2>2. CharOf(f, Len(f) + 1) = "end"
    BY <2>1 DEF CharOf
  <2>3. "end" \notin Blanks
    BY DEF Blanks
  <2>4. Len(f) + 1 \in Nat /\ Len(f) + 1 >= i
    BY <1>0
  <2> QED
    BY <2>2, <2>3, <2>4
<1>2. PICK p \in S : \A q \in S : p <= q
  BY <1>1, LeastNumber
<1>3. p \in i .. Len(f) + 1 /\ CharOf(f, p) \notin Blanks
  BY <1>0, <1>2
<1>4. ASSUME NEW q \in i .. p - 1 PROVE f[q] \in Blanks
  <2>1. q \in Nat /\ q >= i /\ q <= Len(f) + 1 /\ ~ (p <= q) /\ q \in DOMAIN f
    BY <1>0, <1>3
  <2>2. CharOf(f, q) \in Blanks
    BY <1>2, <2>1
  <2> QED
    BY <2>1, <2>2 DEF CharOf
<1> HIDE DEF S
<1> QED
  BY <1>3, <1>4 DEF SkipFrom

LEMMA NextPlaceIsBehind ==
  ASSUME NEW f \in Formats, NEW p \in 0 .. Len(f) + 1
  PROVE  /\ NextPlace(f, p) \in 1 .. Len(f) + 1
         /\ p <= Len(f) => p < NextPlace(f, p)
<1>0. Len(f) \in Nat
  BY DEF Formats
<1>1. CASE p > Len(f)
  BY <1>0, <1>1 DEF NextPlace
<1>2. CASE p <= Len(f)
  <2>1. p + 1 \in 1 .. Len(f) + 1
    BY <1>0, <1>2
  <2>2. SkipFrom(f, p + 1) \in p + 1 .. Len(f) + 1
    BY <2>1, SkipsBlanks
  <2>3. NextPlace(f, p) = SkipFrom(f, p + 1)
    BY <1>0, <1>2 DEF NextPlace
  <2> QED
    BY <1>0, <2>2, <2>3
<1> QED
  BY <1>0, <1>1, <1>2

LEMMA StartIsSane ==
  ASSUME NEW f \in Formats
  PROVE  Sane(f, ScanStart)
<1>1. Len(f) \in Nat \ {0}
  BY DEF Formats
<1> QED
  BY <1>1 DEF Sane, ScanStart

LEMMA AdvancedIsSane ==
  ASSUME NEW f \in Formats, NEW s, Sane(f, s)
  PROVE  /\ Sane(f, Advanced(f, s))
         /\ Advanced(f, s).tok = NextPlace(f, s.tok)
         /\ Advanced(f, s).prev = s.tok
         /\ Advanced(f, s).ahead = 0
<1> DEFINE a == Advanced(f, s)
<1>0. Len(f) \in Nat \ {0} /\ DOMAIN f = 1 .. Len(f) /\ \A i \in 1 .. Len(f) : f[i] # "end"
  BY DEF Formats
<1>1. /\ s.prev \in Nat /\ s.tok \in 0 .. Len(f) + 1 /\ s.ahead \in Nat /\ s.index \in Nat
      /\ s = [prev |-> s.prev, tok |-> s.tok, ahead |-> s.ahead, index |-> s.index]
  BY <1>0 DEF Sane
<1>2. NextPlace(f, s.tok) \in 1 .. Len(f) + 1
  BY <1>1, NextPlaceIsBehind
<1>3. CASE s.ahead # 0
  <2>1. a = [prev |-> s.tok, tok |-> s.ahead, ahead |-> 0, index |-> s.index]
    BY <1>1, <1>3 DEF Advanced
  <2>2. s.ahead = NextPlace(f, s.tok) /\ s.index = IF s.ahead > Len(f) THEN s.ahead ELSE s.ahead + 1
    BY <1>3 DEF Sane
  <2> HIDE DEF a
  <2> QED
    BY <1>0, <1>1, <1>2, <2>1, <2>2 DEF a, Sane
<1>4. CASE s.ahead = 0 /\ s.tok > Len(f)
  <2>1. s.tok = Len(f) + 1 /\ s.index = Len(f) + 1 /\ s.tok \notin DOMAIN f
    BY <1>0, <1>1, <1>4 DEF Sane
  <2>2. CharOf(f, s.tok) = "end" /\ s.index > Len(f)
    BY <1>0, <2>1 DEF CharOf
  <2>3. a = [prev |-> s.tok, tok |-> s.tok, ahead |-> 0, index |-> s.index]
    BY <1>1, <1>4, <2>2 DEF Advanced
  <2>4. NextPlace(f, s.tok) = s.tok
    BY <1>4 DEF NextPlace
  <2> HIDE DEF a
  <2> QED
    BY <1>0, <1>1, <1>4, <2>1, <2>3, <2>4 DEF a, Sane
<1>5. CASE s.ahead = 0 /\ s.tok <= Len(f)
  <2>1. s.index = s.tok + 1
    BY <1>0, <1>1, <1>5 DEF Sane
  <2>2. ~ (CharOf(f, s.tok) = "end" /\ s.index > Len(f))
    <3>1. CASE s.tok = 0
      BY <1>0, <2>1, <3>1
    <3>2. CASE s.tok # 0
      <4>1. s.tok \in DOMAIN f
        BY <1>0, <1>1, <1>5, <3>2
      <4> QED
        BY <1>0, <4>1 DEF CharOf
    <3> QED
      BY <3>1, <3>2
  <2>3. SkipFrom(f, s.index) = NextPlace(f, s.tok)
    BY <1>0, <1>1, <1>5, <2>1 DEF NextPlace
  <2>4. a = [prev |-> s.tok, tok |-> NextPlace(f, s.tok), ahead |-> 0,
             index |-> IF NextPlace(f, s.tok) > Len(f) THEN NextPlace(f, s.tok)
                       ELSE NextPlace(f, s.tok) + 1]
    BY <1>5, <2>2, <2>3 DEF Advanced
  <2> HIDE DEF a
  <2> QED
    BY <1>0, <1>1, <1>2, <2>4 DEF a, Sane
<1> QED
  BY <1>0, <1>1, <1>3, <1>4, <1>5

LEMMA LookedIsSane ==
  ASSUME NEW f \in Formats, NEW s, Sane(f, s)
  PROVE  /\ Sane(f, PushedBack(Advanced(f, s)))
         /\ PushedBack(Advanced(f, s)).tok = s.tok
<1> DEFINE a == Advanced(f, s)
<1>0. Len(f) \in Nat
  BY DEF Formats
<1>1. /\ Sane(f, a) /\ a.tok = NextPlace(f, s.tok) /\ a.prev = s.tok /\ a.ahead = 0
      /\ s.tok \in 0 .. Len(f) + 1
  BY <1>0, AdvancedIsSane DEF Sane
<1>2. a.tok \in 1 .. Len(f) + 1
  BY <1>1, NextPlaceIsBehind
<1> HIDE DEF a
<1>3. /\ PushedBack(a) \in [prev : Nat, tok : Nat, ahead : Nat, index : Nat]
      /\ PushedBack(a).tok = s.tok /\ PushedBack(a).ahead = a.tok /\ PushedBack(a).index = a.index
  BY <1>1 DEF PushedBack, Sane
<1>4. Sane(f, PushedBack(a))
  BY <1>0, <1>1, <1>2, <1>3 DEF Sane
<1> QED
  BY <1>3, <1>4 DEF a

-----------------------------------------------------------------------------
(* The shim, step by step                                                  *)

Scans == [prev : Nat, tok : Nat, ahead : Nat, index : Nat]
Kinds == {"CSTR", "INT", "SIZE", "DOUBLE", "JSON", "STRING", "JSON_INT", "KEY"}
Sources == {"s", "+", "#", "%", "b", "i", "I", "f", "F", "o", "O"}
Entries == [kind : Kinds, from : Sources]
Brackets == {"{", "["}
Ats == {"value", "items", "string", "key", "part", "key-part", "done", "stop"}

ShimOK(f, m) ==
  /\ m \in [scan : Scans, open : Seq(Brackets), at : Ats, strict : BOOLEAN, list : Seq(Entries)]
  /\ Sane(f, m.scan)

\* Where the shim is and what it has listed.
ShimIs(f, m, tok, open, at, list) ==
  ShimOK(f, m) /\ m.scan.tok = tok /\ m.open = open /\ m.at = at /\ m.list = list

\* It has been through a value that ends at tok.
ShimPast(f, m, tok, open, list) ==
  IF open = << >> THEN ShimOK(f, m) /\ m.at = "done" /\ m.list = list
  ELSE ShimIs(f, m, NextPlace(f, tok), open, "items", list)

ShimStopped(f, m, list) == ShimOK(f, m) /\ m.at = "stop" /\ m.list = list

LEMMA MovesTo ==
  ASSUME NEW f, NEW m, ShimOK(f, m), NEW s, Sane(f, s)
  PROVE  /\ ShimOK(f, [m EXCEPT !.scan = s])
         /\ [m EXCEPT !.scan = s].scan = s
         /\ [m EXCEPT !.scan = s].open = m.open
         /\ [m EXCEPT !.scan = s].at = m.at
         /\ [m EXCEPT !.scan = s].strict = m.strict
         /\ [m EXCEPT !.scan = s].list = m.list
<1>1. s \in Scans
  BY DEF Sane, Scans
<1> QED
  BY <1>1 DEF ShimOK

LEMMA TurnsTo ==
  ASSUME NEW f, NEW m, ShimOK(f, m), NEW a \in Ats
  PROVE  /\ ShimOK(f, [m EXCEPT !.at = a])
         /\ [m EXCEPT !.at = a].scan = m.scan
         /\ [m EXCEPT !.at = a].open = m.open
         /\ [m EXCEPT !.at = a].at = a
         /\ [m EXCEPT !.at = a].strict = m.strict
         /\ [m EXCEPT !.at = a].list = m.list
  BY DEF ShimOK

LEMMA Emits ==
  ASSUME NEW f, NEW m, ShimOK(f, m), NEW kind \in Kinds, NEW from \in Sources
  PROVE  /\ ShimOK(f, Emitted(m, kind, from))
         /\ Emitted(m, kind, from).scan = m.scan
         /\ Emitted(m, kind, from).open = m.open
         /\ Emitted(m, kind, from).at = m.at
         /\ Emitted(m, kind, from).strict = m.strict
         /\ Emitted(m, kind, from).list = Append(m.list, [kind |-> kind, from |-> from])
<1> DEFINE e == [kind |-> kind, from |-> from]
<1>1. e \in Entries
  BY DEF Entries
<1> HIDE DEF e
<1>2. Append(m.list, e) \in Seq(Entries)
  BY <1>1 DEF ShimOK
<1>3. Emitted(m, kind, from) = [m EXCEPT !.list = Append(@, e)]
  BY DEF Emitted, e
<1>4. /\ ShimOK(f, Emitted(m, kind, from))
      /\ Emitted(m, kind, from).list = Append(m.list, e)
  BY <1>2, <1>3 DEF ShimOK
<1>5. /\ Emitted(m, kind, from).scan = m.scan
      /\ Emitted(m, kind, from).open = m.open
      /\ Emitted(m, kind, from).at = m.at
      /\ Emitted(m, kind, from).strict = m.strict
  BY <1>3 DEF ShimOK
<1> QED
  BY <1>4, <1>5 DEF e

LEMMA ValueIsDone ==
  ASSUME NEW f \in Formats, NEW m, ShimOK(f, m)
  PROVE  ShimPast(f, ShimValueDone(f, m), m.scan.tok, m.open, m.list)
<1>1. CASE m.open = << >>
  <2>1. ShimValueDone(f, m) = [m EXCEPT !.at = "done"]
    BY <1>1 DEF ShimValueDone
  <2>2. "done" \in Ats
    BY DEF Ats
  <2>3. LET t == [m EXCEPT !.at = "done"] IN ShimOK(f, t) /\ t.at = "done" /\ t.list = m.list
    BY <2>2, TurnsTo
  <2> QED
    BY <1>1, <2>1, <2>3 DEF ShimPast
<1>2. CASE m.open # << >>
  <2> DEFINE t == [m EXCEPT !.at = "items"]
  <2>1. /\ ShimOK(f, t) /\ t.scan = m.scan /\ t.open = m.open /\ t.at = "items" /\ t.list = m.list
    <3>1. "items" \in Ats
      BY DEF Ats
    <3> QED
      BY <3>1, TurnsTo
  <2>2. ShimValueDone(f, m) = [t EXCEPT !.scan = Advanced(f, m.scan)]
    BY <1>2 DEF ShimValueDone, ShimOK
  <2>3. Sane(f, Advanced(f, m.scan)) /\ Advanced(f, m.scan).tok = NextPlace(f, m.scan.tok)
    BY AdvancedIsSane DEF ShimOK
  <2> HIDE DEF t
  <2> QED
    BY <1>2, <2>1, <2>2, <2>3, MovesTo DEF ShimPast, ShimIs
<1> QED
  BY <1>1, <1>2

Entry(kind, from) == [kind |-> kind, from |-> from]

\* The character behind a place.
Behind(f, p) == CharOf(f, NextPlace(f, p))

LEMMA PlainStringGoes ==
  ASSUME NEW f \in Formats, NEW m, ShimOK(f, m), m.at \in {"string", "key"}
  PROVE  LET r == ShimPlainString(f, m)
             tok == m.scan.tok
             list == Append(m.list, Entry("CSTR", "s"))
         IN IF Behind(f, tok) \in Modifiers
            THEN ShimIs(f, r, tok, m.open, IF m.at = "key" THEN "key-part" ELSE "part", m.list)
            ELSE IF m.at = "key" THEN ShimIs(f, r, NextPlace(f, tok), m.open, "value", list)
            ELSE ShimPast(f, r, tok, m.open, list)
<1> DEFINE r == ShimPlainString(f, m)
           tok == m.scan.tok
           list == Append(m.list, Entry("CSTR", "s"))
           a == Advanced(f, m.scan)
           back == [m EXCEPT !.scan = PushedBack(a)]
           done == Emitted(back, "CSTR", "s")
<1>1. /\ Sane(f, a) /\ a.tok = NextPlace(f, tok)
      /\ Sane(f, PushedBack(a)) /\ PushedBack(a).tok = tok
  BY AdvancedIsSane, LookedIsSane DEF ShimOK
<1>2. /\ ShimOK(f, back) /\ back.scan = PushedBack(a) /\ back.open = m.open
      /\ back.at = m.at /\ back.list = m.list
  BY <1>1, MovesTo
<1>3. "CSTR" \in Kinds /\ "s" \in Sources
  BY DEF Kinds, Sources
<1>4. /\ ShimOK(f, done) /\ done.scan.tok = tok /\ done.open = m.open
      /\ done.at = m.at /\ done.list = list
  <2> HIDE DEF back
  <2> QED
    BY <1>1, <1>2, <1>3, Emits DEF Entry
<1>5. CASE Behind(f, tok) \in Modifiers
  <2> DEFINE at == IF m.at = "key" THEN "key-part" ELSE "part"
  <2>1. r = [m EXCEPT !.at = at, !.scan = PushedBack(a)]
    BY <1>1, <1>5 DEF ShimPlainString, Behind
  <2>2. at \in Ats
    BY DEF Ats
  <2>3. PushedBack(a) \in Scans
    BY <1>1 DEF Sane, Scans
  <2> HIDE DEF at, a, r
  <2>4. /\ ShimOK(f, r) /\ r.scan = PushedBack(a) /\ r.open = m.open /\ r.at = at /\ r.list = m.list
    BY <1>1, <2>1, <2>2, <2>3 DEF ShimOK
  <2> QED
    BY <1>1, <1>5, <2>4 DEF ShimIs, at, r
<1>6. CASE Behind(f, tok) \notin Modifiers /\ m.at = "key"
  <2> DEFINE v == [done EXCEPT !.at = "value"]
  <2>1. r = [done EXCEPT !.at = "value", !.scan = Advanced(f, @)]
    BY <1>1, <1>6 DEF ShimPlainString, Behind
  <2>2. "value" \in Ats
    BY DEF Ats
  <2> HIDE DEF done
  <2>3. /\ ShimOK(f, v) /\ v.scan = done.scan /\ v.open = m.open /\ v.at = "value" /\ v.list = list
    BY <1>4, <2>2, TurnsTo
  <2>4. r = [v EXCEPT !.scan = Advanced(f, v.scan)]
    BY <2>1, <2>3
  <2>5. Sane(f, Advanced(f, v.scan)) /\ Advanced(f, v.scan).tok = NextPlace(f, tok)
    BY <1>4, <2>3, AdvancedIsSane DEF ShimOK
  <2> HIDE DEF v, r
  <2>6. ShimIs(f, r, NextPlace(f, tok), m.open, "value", list)
    BY <2>3, <2>4, <2>5, MovesTo DEF ShimIs
  <2> QED
    BY <1>6, <2>6 DEF r
<1>7. CASE Behind(f, tok) \notin Modifiers /\ m.at # "key"
  <2>1. r = ShimValueDone(f, done)
    BY <1>1, <1>7 DEF ShimPlainString, Behind
  <2> HIDE DEF done, r
  <2>2. ShimPast(f, r, tok, m.open, list)
    BY <1>4, <2>1, ValueIsDone
  <2> QED
    BY <1>7, <2>2 DEF r
<1> QED
  BY <1>5, <1>6, <1>7

\* Where a part of a string that is at tok ends, and what is listed for it.
PartEnd(f, tok) ==
  IF Behind(f, tok) \in DOMAIN LengthKind THEN NextPlace(f, tok) ELSE tok
PartList(f, tok, list) ==
  LET text == Append(list, Entry("CSTR", "+"))
      c == Behind(f, tok)
  IN IF c \in DOMAIN LengthKind THEN Append(text, Entry(LengthKind[c], c)) ELSE text

LEMMA PartGoes ==
  ASSUME NEW f \in Formats, NEW m, ShimOK(f, m), m.at \in {"part", "key-part"}
  PROVE  LET r == ShimPart(f, m)
             tok == m.scan.tok
             end == PartEnd(f, tok)
             list == PartList(f, tok, m.list)
         IN IF Behind(f, end) = "+" THEN ShimIs(f, r, NextPlace(f, end), m.open, m.at, list)
            ELSE IF m.at = "key-part" THEN ShimIs(f, r, NextPlace(f, end), m.open, "value", list)
            ELSE ShimPast(f, r, end, m.open, list)
<1> DEFINE r == ShimPart(f, m)
           tok == m.scan.tok
           end == PartEnd(f, tok)
           list == PartList(f, tok, m.list)
           text == Emitted(m, "CSTR", "+")
           s == Advanced(f, m.scan)
           c == CharOf(f, s.tok)
           measured == IF c \in DOMAIN LengthKind
                       THEN Emitted([text EXCEPT !.scan = s], LengthKind[c], c)
                       ELSE [text EXCEPT !.scan = PushedBack(s)]
           t == Advanced(f, measured.scan)
           read == [measured EXCEPT !.scan = IF CharOf(f, t.tok) = "+" THEN t ELSE PushedBack(t)]
<1>1. /\ Sane(f, s) /\ s.tok = NextPlace(f, tok)
      /\ Sane(f, PushedBack(s)) /\ PushedBack(s).tok = tok
      /\ c = Behind(f, tok)
  BY AdvancedIsSane, LookedIsSane DEF ShimOK, Behind
<1>2. "CSTR" \in Kinds /\ "+" \in Sources
  BY DEF Kinds, Sources
<1>3. /\ ShimOK(f, text) /\ text.open = m.open /\ text.at = m.at
      /\ text.list = Append(m.list, Entry("CSTR", "+"))
  BY <1>2, Emits DEF Entry
<1>4. /\ ShimOK(f, measured) /\ measured.scan.tok = end
      /\ measured.open = m.open /\ measured.at = m.at /\ measured.list = list
  <2>1. CASE c \in DOMAIN LengthKind
    <3> DEFINE u == [text EXCEPT !.scan = s]
    <3> HIDE DEF text, s
    <3>1. ShimOK(f, u) /\ u.scan = s /\ u.open = m.open /\ u.at = m.at /\ u.list = text.list
      BY <1>1, <1>3, MovesTo
    <3>2. c \in {"#", "%"} /\ LengthKind[c] \in Kinds /\ c \in Sources
      BY <2>1 DEF LengthKind, Kinds, Sources
    <3>3. measured = Emitted(u, LengthKind[c], c)
      BY <2>1
    <3>4. end = s.tok /\ list = Append(text.list, Entry(LengthKind[c], c))
      BY <1>1, <1>3, <2>1 DEF PartEnd, PartList
    <3> HIDE DEF u, measured, end, list, c
    <3> QED
      BY <3>1, <3>2, <3>3, <3>4, Emits DEF Entry
  <2>2. CASE c \notin DOMAIN LengthKind
    <3> HIDE DEF text, s
    <3>1. measured = [text EXCEPT !.scan = PushedBack(s)]
      BY <2>2
    <3>2. end = tok /\ list = text.list
      BY <1>1, <1>3, <2>2 DEF PartEnd, PartList
    <3> HIDE DEF measured, end, list, c
    <3> QED
      BY <1>1, <1>3, <3>1, <3>2, MovesTo
  <2> QED
    BY <2>1, <2>2
<1> DEFINE more == CharOf(f, t.tok) = "+"
<1>5. r = IF more THEN read
          ELSE IF m.at = "key-part" THEN [read EXCEPT !.at = "value", !.scan = Advanced(f, @)]
          ELSE ShimValueDone(f, read)
  BY DEF ShimPart
<1> HIDE DEF r, end, list, measured, text, s, c
<1>6. /\ Sane(f, t) /\ t.tok = NextPlace(f, end)
      /\ Sane(f, PushedBack(t)) /\ PushedBack(t).tok = end
      /\ more <=> Behind(f, end) = "+"
  BY <1>4, AdvancedIsSane, LookedIsSane DEF ShimOK, Behind
<1>7. /\ ShimOK(f, read) /\ read.scan.tok = (IF more THEN NextPlace(f, end) ELSE end)
      /\ read.open = m.open /\ read.at = m.at /\ read.list = list
  <2>1. CASE more
    BY <1>4, <1>6, <2>1, MovesTo
  <2>2. CASE ~more
    BY <1>4, <1>6, <2>2, MovesTo
  <2> QED
    BY <2>1, <2>2
<1> HIDE DEF read, t
<1>8. CASE more
  BY <1>5, <1>6, <1>7, <1>8 DEF ShimIs, r, end, list
<1>9. CASE ~more /\ m.at = "key-part"
  <2> DEFINE v == [read EXCEPT !.at = "value"]
  <2>1. "value" \in Ats
    BY DEF Ats
  <2>2. /\ ShimOK(f, v) /\ v.scan = read.scan /\ v.open = m.open /\ v.at = "value" /\ v.list = list
    BY <1>7, <2>1, TurnsTo
  <2>3. r = [v EXCEPT !.scan = Advanced(f, v.scan)]
    BY <1>5, <1>9, <2>2
  <2>4. Sane(f, Advanced(f, v.scan)) /\ Advanced(f, v.scan).tok = NextPlace(f, end)
    BY <1>7, <1>9, <2>2, AdvancedIsSane DEF ShimOK
  <2> HIDE DEF v
  <2>5. ShimIs(f, r, NextPlace(f, end), m.open, "value", list)
    BY <2>2, <2>3, <2>4, MovesTo DEF ShimIs
  <2> QED
    BY <1>6, <1>9, <2>5 DEF r, end, list
<1>10. CASE ~more /\ m.at # "key-part"
  <2>1. r = ShimValueDone(f, read)
    BY <1>5, <1>10
  <2>2. ShimPast(f, r, end, m.open, list)
    BY <1>7, <1>10, <2>1, ValueIsDone
  <2> QED
    BY <1>6, <1>10, <2>2 DEF r, end, list
<1> QED
  BY <1>8, <1>9, <1>10

\* The place of an optional mark behind tok, or else tok.
MarkEnd(f, tok) == IF Behind(f, tok) \in {"?", "*"} THEN NextPlace(f, tok) ELSE tok

LEMMA StopsThere ==
  ASSUME NEW f, NEW m, ShimOK(f, m)
  PROVE  ShimStopped(f, ShimStop(m), m.list)
<1>1. "stop" \in Ats
  BY DEF Ats
<1> QED
  BY <1>1, TurnsTo DEF ShimStop, ShimStopped

\* marshal_pack_value at a string.
LEMMA StringValueGoes ==
  ASSUME NEW f \in Formats, NEW m, ShimOK(f, m), m.at = "value", CharOf(f, m.scan.tok) = "s"
  PROVE  LET r == PackShimStep(f, m)
             tok == m.scan.tok
             end == MarkEnd(f, tok)
         IN IF Behind(f, end) \in Modifiers
            THEN IF Behind(f, tok) \in {"?", "*"} THEN ShimStopped(f, r, m.list)
                 ELSE ShimIs(f, r, tok, m.open, "part", m.list)
            ELSE ShimPast(f, r, end, m.open, Append(m.list, Entry("CSTR", "s")))
<1> DEFINE r == PackShimStep(f, m)
           tok == m.scan.tok
           end == MarkEnd(f, tok)
           list == Append(m.list, Entry("CSTR", "s"))
           s == Advanced(f, m.scan)
           marked == CharOf(f, s.tok) \in {"?", "*"}
           past == [m EXCEPT !.scan = IF marked THEN s ELSE PushedBack(s)]
           u == [past EXCEPT !.at = "string"]
<1>1. /\ Sane(f, s) /\ s.tok = NextPlace(f, tok)
      /\ Sane(f, PushedBack(s)) /\ PushedBack(s).tok = tok
      /\ marked <=> Behind(f, tok) \in {"?", "*"}
      /\ CharOf(f, Advanced(f, s).tok) = Behind(f, s.tok)
  BY AdvancedIsSane, LookedIsSane DEF ShimOK, Behind
<1>2. r = IF marked /\ CharOf(f, Advanced(f, s).tok) \in Modifiers THEN ShimStop(m)
          ELSE ShimPlainString(f, u)
  BY DEF PackShimStep, ShimValue, ShimArg
<1> HIDE DEF r
<1>3. /\ ShimOK(f, past) /\ past.scan.tok = end /\ past.open = m.open /\ past.list = m.list
  <2>1. CASE marked
    <3>1. past = [m EXCEPT !.scan = s] /\ end = s.tok
      BY <1>1, <2>1 DEF MarkEnd
    <3> HIDE DEF past, s, end
    <3> QED
      BY <1>1, <3>1, MovesTo
  <2>2. CASE ~marked
    <3>1. past = [m EXCEPT !.scan = PushedBack(s)] /\ end = tok
      BY <1>1, <2>2 DEF MarkEnd
    <3> HIDE DEF past, s, end
    <3> QED
      BY <1>1, <3>1, MovesTo
  <2> QED
    BY <2>1, <2>2
<1>4. "string" \in Ats
  BY DEF Ats
<1>5. /\ ShimOK(f, u) /\ u.scan.tok = end /\ u.open = m.open /\ u.at = "string" /\ u.list = m.list
  <2> HIDE DEF past, end
  <2> QED
    BY <1>3, <1>4, TurnsTo
<1>6. marked => end = s.tok
  BY <1>1 DEF MarkEnd
<1>7. ~marked => end = tok
  BY <1>1 DEF MarkEnd
<1> HIDE DEF u, past, end, s
<1>8. CASE Behind(f, end) \in Modifiers /\ marked
  BY <1>1, <1>2, <1>6, <1>8, StopsThere DEF r, end
<1>9. CASE Behind(f, end) \in Modifiers /\ ~marked
  <2>1. r = ShimPlainString(f, u)
    BY <1>2, <1>9
  <2>2. ShimIs(f, r, end, m.open, "part", m.list)
    BY <1>5, <1>9, <2>1, PlainStringGoes
  <2> QED
    BY <1>1, <1>7, <1>9, <2>2 DEF r, end
<1>10. CASE Behind(f, end) \notin Modifiers
  <2>1. r = ShimPlainString(f, u)
    BY <1>1, <1>2, <1>6, <1>10
  <2>2. ShimPast(f, r, end, m.open, list)
    BY <1>5, <1>10, <2>1, PlainStringGoes
  <2> QED
    BY <1>10, <2>2 DEF r, end
<1> QED
  BY <1>8, <1>9, <1>10

LEMMA OpenGoes ==
  ASSUME NEW f \in Formats, NEW m, ShimOK(f, m), CharOf(f, m.scan.tok) \in Brackets
  PROVE  ShimIs(f, ShimOpen(f, m), NextPlace(f, m.scan.tok),
                Append(m.open, CharOf(f, m.scan.tok)), "items", m.list)
<1> DEFINE c == CharOf(f, m.scan.tok)
           a == Advanced(f, m.scan)
<1>1. Sane(f, a) /\ a.tok = NextPlace(f, m.scan.tok) /\ a \in Scans
  BY AdvancedIsSane DEF ShimOK, Sane, Scans
<1>2. Append(m.open, c) \in Seq(Brackets) /\ "items" \in Ats
  BY DEF ShimOK, Ats
<1>3. ShimOpen(f, m) = [m EXCEPT !.open = Append(@, c), !.at = "items", !.scan = Advanced(f, @)]
  BY DEF ShimOpen
<1> HIDE DEF a, c
<1>4. ShimOpen(f, m) = [m EXCEPT !.open = Append(m.open, c), !.at = "items", !.scan = a]
  BY <1>3 DEF ShimOK, a
<1> QED
  BY <1>1, <1>2, <1>4 DEF ShimIs, ShimOK, c

LEMMA CloseGoes ==
  ASSUME NEW f \in Formats, NEW m, ShimOK(f, m), m.open # << >>
  PROVE  ShimPast(f, ShimClose(f, m), m.scan.tok, Front(m.open), m.list)
<1> DEFINE u == [m EXCEPT !.open = Front(@), !.strict = FALSE]
<1>1. Front(m.open) \in Seq(Brackets)
  BY DEF Front, ShimOK
<1>2. /\ ShimOK(f, u) /\ u.scan = m.scan /\ u.open = Front(m.open) /\ u.list = m.list
  BY <1>1 DEF ShimOK
<1>3. ShimClose(f, m) = ShimValueDone(f, u)
  BY DEF ShimClose
<1> HIDE DEF u
<1> QED
  BY <1>2, <1>3, ValueIsDone

\* marshal_pack_value at anything else.
LEMMA PackValueGoes ==
  ASSUME NEW f \in Formats, NEW m, ShimOK(f, m), m.at = "value"
  PROVE  LET r == PackShimStep(f, m)
             tok == m.scan.tok
             c == CharOf(f, tok)
         IN /\ c \in Brackets =>
                 ShimIs(f, r, NextPlace(f, tok), Append(m.open, c), "items", m.list)
            /\ c = "n" => ShimPast(f, r, tok, m.open, m.list)
            /\ c \in DOMAIN ShimArg =>
                 ShimPast(f, r, tok, m.open, Append(m.list, Entry(ShimArg[c], c)))
            /\ c \in {"o", "O"} =>
                 ShimPast(f, r, MarkEnd(f, tok), m.open, Append(m.list, Entry("JSON", c)))
            /\ c \notin Brackets \cup {"s", "n", "o", "O"} \cup DOMAIN ShimArg =>
                 ShimStopped(f, r, m.list)
<1> DEFINE r == PackShimStep(f, m)
           tok == m.scan.tok
           c == CharOf(f, tok)
           end == MarkEnd(f, tok)
           s == Advanced(f, m.scan)
           marked == CharOf(f, s.tok) \in {"?", "*"}
           past == [m EXCEPT !.scan = IF marked THEN s ELSE PushedBack(s)]
<1>1. r = ShimValue(f, m)
  BY DEF PackShimStep
<1>2. DOMAIN ShimArg = {"b", "i", "I", "f"}
  BY DEF ShimArg
<1>3. ASSUME c \in Brackets
      PROVE  ShimIs(f, r, NextPlace(f, tok), Append(m.open, c), "items", m.list)
  <2>1. r = ShimOpen(f, m)
    BY <1>1, <1>2, <1>3 DEF ShimValue, Brackets
  <2> QED
    BY <1>3, <2>1, OpenGoes
<1>4. ASSUME c = "n" PROVE ShimPast(f, r, tok, m.open, m.list)
  <2>1. r = ShimValueDone(f, m)
    BY <1>1, <1>2, <1>4 DEF ShimValue
  <2> QED
    BY <2>1, ValueIsDone
<1>5. ASSUME c \in DOMAIN ShimArg
      PROVE  ShimPast(f, r, tok, m.open, Append(m.list, Entry(ShimArg[c], c)))
  <2> DEFINE e == Emitted(m, ShimArg[c], c)
  <2>1. r = ShimValueDone(f, e)
    BY <1>1, <1>2, <1>5 DEF ShimValue
  <2>2. ShimArg[c] \in Kinds /\ c \in Sources
    BY <1>2, <1>5 DEF ShimArg, Kinds, Sources
  <2>3. ShimOK(f, e) /\ e.scan = m.scan /\ e.open = m.open /\ e.list = Append(m.list, Entry(ShimArg[c], c))
    BY <2>2, Emits DEF Entry
  <2> HIDE DEF e, r, c
  <2> QED
    BY <2>1, <2>3, ValueIsDone
<1>6. ASSUME c \in {"o", "O"}
      PROVE  ShimPast(f, r, end, m.open, Append(m.list, Entry("JSON", c)))
  <2>1. /\ Sane(f, s) /\ s.tok = NextPlace(f, tok)
        /\ Sane(f, PushedBack(s)) /\ PushedBack(s).tok = tok
        /\ marked <=> Behind(f, tok) \in {"?", "*"}
    BY AdvancedIsSane, LookedIsSane DEF ShimOK, Behind
  <2>2. /\ ShimOK(f, past) /\ past.scan.tok = end /\ past.open = m.open /\ past.list = m.list
    <3>1. CASE marked
      <4>1. past = [m EXCEPT !.scan = s] /\ end = s.tok
        BY <2>1, <3>1 DEF MarkEnd
      <4> HIDE DEF past, s, end
      <4> QED
        BY <2>1, <4>1, MovesTo
    <3>2. CASE ~marked
      <4>1. past = [m EXCEPT !.scan = PushedBack(s)] /\ end = tok
        BY <2>1, <3>2 DEF MarkEnd
      <4> HIDE DEF past, s, end
      <4> QED
        BY <2>1, <4>1, MovesTo
    <3> QED
      BY <3>1, <3>2
  <2> DEFINE e == Emitted(past, "JSON", c)
  <2>3. r = ShimValueDone(f, e)
    BY <1>1, <1>2, <1>6 DEF ShimValue
  <2>4. "JSON" \in Kinds /\ c \in Sources
    BY <1>6 DEF Kinds, Sources
  <2> HIDE DEF past, r, c, end
  <2>5. ShimOK(f, e) /\ e.scan = past.scan /\ e.open = m.open /\ e.list = Append(m.list, Entry("JSON", c))
    BY <2>2, <2>4, Emits DEF Entry
  <2> HIDE DEF e
  <2> QED
    BY <2>2, <2>3, <2>5, ValueIsDone
<1>7. ASSUME c \notin Brackets \cup {"s", "n", "o", "O"} \cup DOMAIN ShimArg
      PROVE  ShimStopped(f, r, m.list)
  <2>1. r = ShimStop(m)
    BY <1>1, <1>2, <1>7 DEF ShimValue, Brackets
  <2> QED
    BY <2>1, StopsThere
<1> HIDE DEF r, c, end
<1>8. /\ c \in Brackets => ShimIs(f, r, NextPlace(f, tok), Append(m.open, c), "items", m.list)
      /\ c = "n" => ShimPast(f, r, tok, m.open, m.list)
      /\ c \in DOMAIN ShimArg => ShimPast(f, r, tok, m.open, Append(m.list, Entry(ShimArg[c], c)))
      /\ c \in {"o", "O"} => ShimPast(f, r, end, m.open, Append(m.list, Entry("JSON", c)))
      /\ c \notin Brackets \cup {"s", "n", "o", "O"} \cup DOMAIN ShimArg => ShimStopped(f, r, m.list)
  BY <1>3, <1>4, <1>5, <1>6, <1>7
<1> QED
  BY <1>8 DEF r, c, end

\* marshal_pack_object and marshal_pack_array.
LEMMA PackItemsGo ==
  ASSUME NEW f \in Formats, NEW m, ShimOK(f, m), m.at = "items", m.open # << >>
  PROVE  LET r == PackShimStep(f, m)
             tok == m.scan.tok
             c == CharOf(f, tok)
             of == Last(m.open)
         IN IF c = Closes(of) THEN ShimPast(f, r, tok, Front(m.open), m.list)
            ELSE IF c = "end" \/ (of = "{" /\ c # "s") THEN ShimStopped(f, r, m.list)
            ELSE IF of = "[" THEN ShimIs(f, r, tok, m.open, "value", m.list)
            ELSE IF Behind(f, tok) \in Modifiers THEN ShimIs(f, r, tok, m.open, "key-part", m.list)
            ELSE ShimIs(f, r, NextPlace(f, tok), m.open, "value", Append(m.list, Entry("CSTR", "s")))
<1> DEFINE r == PackShimStep(f, m)
           tok == m.scan.tok
           c == CharOf(f, tok)
           of == Last(m.open)
           list == Append(m.list, Entry("CSTR", "s"))
<1>1. of \in Brackets
  BY DEF ShimOK, Last
<1>2. r = ShimItems(f, m)
  BY DEF PackShimStep
<1>3. CASE c = Closes(of)
  <2>1. r = ShimClose(f, m)
    BY <1>2, <1>3 DEF ShimItems
  <2> QED
    BY <1>3, <2>1, CloseGoes
<1>4. CASE c # Closes(of) /\ (c = "end" \/ (of = "{" /\ c # "s"))
  <2>1. r = ShimStop(m)
    BY <1>2, <1>4 DEF ShimItems
  <2> QED
    BY <1>4, <2>1, StopsThere
<1>5. CASE c # Closes(of) /\ c # "end" /\ of = "["
  <2>1. r = [m EXCEPT !.at = "value"]
    BY <1>2, <1>5 DEF ShimItems
  <2>2. "value" \in Ats
    BY DEF Ats
  <2>3. ShimIs(f, r, tok, m.open, "value", m.list)
    BY <2>1, <2>2, TurnsTo DEF ShimIs
  <2> QED
    BY <1>5, <2>3
<1>6. CASE c # Closes(of) /\ c = "s" /\ of = "{"
  <2> DEFINE u == [m EXCEPT !.at = "key"]
  <2>1. r = ShimPlainString(f, u)
    BY <1>2, <1>6 DEF ShimItems
  <2>2. "key" \in Ats
    BY DEF Ats
  <2>3. ShimOK(f, u) /\ u.scan = m.scan /\ u.open = m.open /\ u.at = "key" /\ u.list = m.list
    BY <2>2, TurnsTo
  <2> HIDE DEF u, r
  <2>4. IF Behind(f, tok) \in Modifiers THEN ShimIs(f, r, tok, m.open, "key-part", m.list)
        ELSE ShimIs(f, r, NextPlace(f, tok), m.open, "value", list)
    BY <2>1, <2>3, PlainStringGoes
  <2> QED
    BY <1>6, <2>4 DEF r
<1> QED
  BY <1>1, <1>3, <1>4, <1>5, <1>6 DEF Brackets

LEMMA ShimRests ==
  ASSUME NEW f, NEW m, m.at \in {"done", "stop"}
  PROVE  PackShimStep(f, m) = m
  BY DEF PackShimStep

\* What has been listed stays.
Extends(a, b) ==
  /\ a \in Seq(Entries) /\ b \in Seq(Entries)
  /\ Len(a) <= Len(b)
  /\ \A i \in 1 .. Len(a) : b[i] = a[i]

LEMMA ListingExtends ==
  ASSUME NEW a \in Seq(Entries), NEW e \in Entries
  PROVE  Append(a, e) \in Seq(Entries) /\ Extends(a, Append(a, e))
  BY DEF Extends

LEMMA ExtendsFurther ==
  ASSUME NEW a, NEW b, NEW c, Extends(a, b), Extends(b, c)
  PROVE  Extends(a, c)
  BY DEF Extends

\* The places of a shim that is not at an end: open brackets where it is among items.
ShimShape(m) ==
  /\ m.at \in {"value", "items", "part", "key-part", "done", "stop"}
  /\ m.at \in {"items", "key-part"} => m.open # << >>

LEMMA PartListExtends ==
  ASSUME NEW f, NEW tok, NEW list \in Seq(Entries)
  PROVE  Extends(list, PartList(f, tok, list))
<1> DEFINE c == Behind(f, tok)
           text == Append(list, Entry("CSTR", "+"))
<1>1. Entry("CSTR", "+") \in Entries
  BY DEF Entry, Entries, Kinds, Sources
<1>2. text \in Seq(Entries) /\ Extends(list, text)
  BY <1>1, ListingExtends
<1>3. CASE c \in DOMAIN LengthKind
  <2>1. Entry(LengthKind[c], c) \in Entries
    BY <1>3 DEF Entry, Entries, Kinds, Sources, LengthKind
  <2>2. PartList(f, tok, list) = Append(text, Entry(LengthKind[c], c))
    BY <1>3 DEF PartList
  <2> HIDE DEF text
  <2>3. Extends(text, Append(text, Entry(LengthKind[c], c)))
    BY <1>2, <2>1, ListingExtends
  <2> QED
    BY <1>2, <2>2, <2>3, ExtendsFurther
<1>4. CASE c \notin DOMAIN LengthKind
  BY <1>2, <1>4 DEF PartList
<1> QED
  BY <1>3, <1>4

LEMMA PastExtends ==
  ASSUME NEW f, NEW r, NEW tok, NEW open, NEW list, NEW more,
         Extends(list, more), ShimPast(f, r, tok, open, more)
  PROVE  ShimOK(f, r) /\ ShimShape(r) /\ Extends(list, r.list)
  BY DEF ShimPast, ShimIs, ShimShape

LEMMA PackShimExtends ==
  ASSUME NEW f \in Formats, NEW m, ShimOK(f, m), ShimShape(m)
  PROVE  LET r == PackShimStep(f, m)
         IN ShimOK(f, r) /\ ShimShape(r) /\ Extends(m.list, r.list)
<1> DEFINE r == PackShimStep(f, m)
           tok == m.scan.tok
           c == CharOf(f, tok)
<1>1. m.list \in Seq(Entries) /\ m.open \in Seq(Brackets) /\ Extends(m.list, m.list)
  BY DEF ShimOK, Extends
<1>2. DOMAIN ShimArg = {"b", "i", "I", "f"}
  BY DEF ShimArg
<1>3. /\ Entry("CSTR", "s") \in Entries
      /\ c \in {"o", "O"} => Entry("JSON", c) \in Entries
      /\ c \in DOMAIN ShimArg => Entry(ShimArg[c], c) \in Entries
  BY DEF Entry, Entries, Kinds, Sources, ShimArg
<1>4. \A e \in Entries : Extends(m.list, Append(m.list, e))
  BY <1>1, ListingExtends
<1>5. CASE m.at = "value" /\ c = "s"
  <2> DEFINE end == MarkEnd(f, tok)
  <2>1. \/ ShimStopped(f, r, m.list)
        \/ ShimIs(f, r, tok, m.open, "part", m.list)
        \/ ShimPast(f, r, end, m.open, Append(m.list, Entry("CSTR", "s")))
    BY <1>5, StringValueGoes
  <2> HIDE DEF r, end
  <2>2. ShimOK(f, r) /\ ShimShape(r) /\ Extends(m.list, r.list)
    BY <1>1, <1>3, <1>4, <2>1, PastExtends DEF ShimStopped, ShimIs, ShimShape
  <2> QED
    BY <2>2 DEF r
<1>6. CASE m.at = "value" /\ c # "s"
  <2> DEFINE end == MarkEnd(f, tok)
  <2>1. \/ ShimIs(f, r, NextPlace(f, tok), Append(m.open, c), "items", m.list) /\ c \in Brackets
        \/ ShimPast(f, r, tok, m.open, m.list)
        \/ ShimPast(f, r, tok, m.open, Append(m.list, Entry(ShimArg[c], c))) /\ c \in DOMAIN ShimArg
        \/ ShimPast(f, r, end, m.open, Append(m.list, Entry("JSON", c))) /\ c \in {"o", "O"}
        \/ ShimStopped(f, r, m.list)
    BY <1>6, PackValueGoes
  <2>2. c \in Brackets => Append(m.open, c) # << >>
    BY <1>1
  <2> HIDE DEF r, end, c
  <2>3. ShimOK(f, r) /\ ShimShape(r) /\ Extends(m.list, r.list)
    BY <1>1, <1>3, <1>4, <2>1, <2>2, PastExtends DEF ShimStopped, ShimIs, ShimShape
  <2> QED
    BY <2>3 DEF r
<1>7. CASE m.at = "items"
  <2>1. m.open # << >>
    BY <1>7 DEF ShimShape
  <2>2. \/ ShimPast(f, r, tok, Front(m.open), m.list)
        \/ ShimStopped(f, r, m.list)
        \/ ShimIs(f, r, tok, m.open, "value", m.list)
        \/ ShimIs(f, r, tok, m.open, "key-part", m.list)
        \/ ShimIs(f, r, NextPlace(f, tok), m.open, "value", Append(m.list, Entry("CSTR", "s")))
    BY <1>7, <2>1, PackItemsGo
  <2> HIDE DEF r
  <2>3. ShimOK(f, r) /\ ShimShape(r) /\ Extends(m.list, r.list)
    BY <1>1, <1>3, <1>4, <2>1, <2>2, PastExtends DEF ShimStopped, ShimIs, ShimShape
  <2> QED
    BY <2>3 DEF r
<1>8. CASE m.at \in {"part", "key-part"}
  <2> DEFINE end == PartEnd(f, tok)
             list == PartList(f, tok, m.list)
  <2>1. r = ShimPart(f, m)
    BY <1>8 DEF PackShimStep
  <2>2. \/ ShimIs(f, r, NextPlace(f, end), m.open, m.at, list)
        \/ ShimIs(f, r, NextPlace(f, end), m.open, "value", list)
        \/ ShimPast(f, r, end, m.open, list)
    BY <1>8, <2>1, PartGoes
  <2>3. Extends(m.list, list)
    BY <1>1, PartListExtends
  <2>4. m.at = "key-part" => m.open # << >>
    BY DEF ShimShape
  <2> HIDE DEF r, end, list
  <2>5. ShimOK(f, r) /\ ShimShape(r) /\ Extends(m.list, r.list)
    BY <1>1, <1>8, <2>2, <2>3, <2>4, PastExtends DEF ShimIs, ShimShape
  <2> QED
    BY <2>5 DEF r
<1>9. CASE m.at \in {"done", "stop"}
  BY <1>1, <1>9, ShimRests
<1> QED
  BY <1>5, <1>6, <1>7, <1>8, <1>9 DEF ShimShape

-----------------------------------------------------------------------------
(* The shim's walk through a format: what FoldLeft stands for              *)

LEMMA InductionOverSet ==
  ASSUME NEW S \in SUBSET Nat, 0 \in S, \A j \in S : j + 1 \in S
  PROVE  S = Nat
<1> DEFINE T == Nat \ S
<1>1. ASSUME T # {} PROVE FALSE
  <2>1. PICK x \in T : \A y \in T : x <= y
    BY <1>1, LeastNumber
  <2>2. x # 0 /\ x - 1 \in Nat /\ ~ (x <= x - 1)
    BY <2>1
  <2>3. x - 1 \in S
    BY <2>1, <2>2
  <2>4. (x - 1) + 1 \in S
    BY <2>3
  <2> QED
    BY <2>1, <2>4
<1> QED
  BY <1>1

LEMMA MaxIsLast ==
  ASSUME NEW k \in Nat, NEW s \in SUBSET (1 .. k + 1), k + 1 \in s
  PROVE  Max(s) = k + 1
<1>1. \A x \in s : k + 1 >= x
  OBVIOUS
<1>2. \A x \in s : (\A y \in s : x >= y) => x = k + 1
  OBVIOUS
<1> QED
  BY <1>1, <1>2 DEF Max

Calls == {"pack", "unpack", "validate"}
Turn(call, f, m) ==
  IF call = "pack" THEN PackShimStep(f, m) ELSE UnpackShimStep(call = "validate", f, m)

Steps(f) == 3 * Len(f) + 1

Walks(call, f, n, g) ==
  g = [s \in SUBSET (1 .. n) |-> IF s = {} THEN ShimStart(f) ELSE Turn(call, f, g[s \ {Max(s)}])]

LEMMA WalksExist ==
  ASSUME NEW call, NEW f
  PROVE  \A n \in Nat : \E g : Walks(call, f, n, g)
<1> DEFINE S == {n \in Nat : \E g : Walks(call, f, n, g)}
<1>1. 0 \in S
  <2> DEFINE g == [s \in SUBSET (1 .. 0) |-> ShimStart(f)]
  <2>1. \A s \in SUBSET (1 .. 0) : s = {}
    OBVIOUS
  <2>2. Walks(call, f, 0, g)
    BY <2>1, Zenon DEF Walks
  <2> QED
    BY <2>2
<1>2. ASSUME NEW n \in Nat, n \in S PROVE n + 1 \in S
  <2>1. PICK g : Walks(call, f, n, g)
    BY <1>2
  <2> DEFINE step(w, s) == IF s = {} THEN ShimStart(f) ELSE Turn(call, f, w[s \ {Max(s)}])
             h == [s \in SUBSET (1 .. n + 1) |->
                     IF n + 1 \in s THEN Turn(call, f, g[s \ {n + 1}]) ELSE g[s]]
  <2>2. \A s \in SUBSET (1 .. n) : g[s] = step(g, s)
    <3> HIDE DEF step
    <3>1. g = [s \in SUBSET (1 .. n) |-> step(g, s)]
      BY <2>1 DEF Walks, step
    <3> QED
      BY <3>1, Zenon
  <2>3. \A s \in SUBSET (1 .. n + 1) : n + 1 \notin s => s \in SUBSET (1 .. n) /\ h[s] = g[s]
    OBVIOUS
  <2>4. ASSUME NEW s \in SUBSET (1 .. n + 1) PROVE h[s] = step(h, s)
    <3>1. CASE n + 1 \in s
      <4>1. Max(s) = n + 1 /\ s # {}
        BY <3>1, MaxIsLast
      <4>2. s \ {n + 1} \in SUBSET (1 .. n + 1) /\ n + 1 \notin s \ {n + 1}
        OBVIOUS
      <4>3. h[s \ {n + 1}] = g[s \ {n + 1}]
        BY <2>3, <4>2
      <4>4. h[s] = Turn(call, f, g[s \ {n + 1}])
        BY <3>1
      <4> HIDE DEF h
      <4> QED
        BY <4>1, <4>3, <4>4
    <3>2. CASE n + 1 \notin s
      <4>1. s \in SUBSET (1 .. n) /\ h[s] = g[s]
        BY <2>3, <3>2
      <4>2. h[s \ {Max(s)}] = g[s \ {Max(s)}]
        <5>1. s \ {Max(s)} \in SUBSET (1 .. n + 1) /\ n + 1 \notin s \ {Max(s)}
          BY <3>2
        <5> QED
          BY <2>3, <5>1
      <4>3. g[s] = step(g, s)
        BY <2>2, <4>1
      <4> HIDE DEF h
      <4> QED
        BY <4>1, <4>2, <4>3
    <3> QED
      BY <3>1, <3>2
  <2>5. h = [s \in SUBSET (1 .. n + 1) |-> step(h, s)]
    <3> HIDE DEF step
    <3>1. h = [s \in SUBSET (1 .. n + 1) |-> h[s]]
      BY Zenon
    <3> HIDE DEF h
    <3> QED
      BY <2>4, <3>1, Zenon
  <2> HIDE DEF h
  <2>6. Walks(call, f, n + 1, h)
    BY <2>5 DEF Walks
  <2> QED
    BY <2>6
<1> HIDE DEF S
<1>3. Nat \subseteq S
  <2>1. S \in SUBSET Nat
    BY DEF S
  <2> QED
    BY <1>1, <1>2, <2>1, InductionOverSet
<1> QED
  BY <1>3 DEF S

\* The states of the shim, one after the other.
IsRun(call, f, run) ==
  /\ run[0] = ShimStart(f)
  /\ \A j \in 1 .. Steps(f) : run[j] = Turn(call, f, run[j - 1])

LEMMA WalkIsRun ==
  ASSUME NEW call, NEW f \in Formats, NEW g, Walks(call, f, Steps(f), g)
  PROVE  IsRun(call, f, [j \in 0 .. Steps(f) |-> g[1 .. j]])
<1> DEFINE n == Steps(f)
           run == [j \in 0 .. n |-> g[1 .. j]]
<1>1. n \in Nat
  BY DEF Steps, Formats
<1>2. \A s \in SUBSET (1 .. n) :
        g[s] = IF s = {} THEN ShimStart(f) ELSE Turn(call, f, g[s \ {Max(s)}])
  <2> DEFINE turn(s) == IF s = {} THEN ShimStart(f) ELSE Turn(call, f, g[s \ {Max(s)}])
  <2>1. g = [s \in SUBSET (1 .. n) |-> turn(s)]
    BY DEF Walks
  <2> HIDE DEF turn, n
  <2>2. \A s \in SUBSET (1 .. n) : g[s] = turn(s)
    BY <2>1, Zenon
  <2> QED
    BY <2>2 DEF turn
<1> HIDE DEF n
<1>3. run[0] = ShimStart(f)
  <2>1. 1 .. 0 = {} /\ 1 .. 0 \in SUBSET (1 .. n)
    OBVIOUS
  <2>2. run[0] = g[1 .. 0]
    BY <1>1
  <2> QED
    BY <1>2, <2>1, <2>2
<1>4. ASSUME NEW j \in 1 .. n PROVE run[j] = Turn(call, f, run[j - 1])
  <2>1. Max(1 .. j) = j
    <3>1. /\ j - 1 \in Nat /\ (j - 1) + 1 = j
          /\ 1 .. j \in SUBSET (1 .. (j - 1) + 1) /\ (j - 1) + 1 \in 1 .. j
      BY <1>1
    <3> QED
      BY <3>1, MaxIsLast
  <2>2. 1 .. j \in SUBSET (1 .. n) /\ 1 .. j # {} /\ (1 .. j) \ {j} = 1 .. j - 1
    <3>1. \A x \in 1 .. j : x \in 1 .. n
      BY <1>1
    <3>2. j \in 1 .. j
      BY <1>1
    <3>3. \A x : x \in (1 .. j) \ {j} <=> x \in 1 .. j - 1
      BY <1>1
    <3> QED
      BY <3>1, <3>2, <3>3
  <2>3. run[j] = g[1 .. j] /\ run[j - 1] = g[1 .. j - 1]
    BY <1>1
  <2> HIDE DEF run
  <2> QED
    BY <1>2, <2>1, <2>2, <2>3
<1> HIDE DEF run
<1>5. IsRun(call, f, run)
  BY <1>3, <1>4 DEF IsRun, n
<1> QED
  BY <1>5 DEF run, n

LEMMA PackKindsAreListed ==
  ASSUME NEW f \in Formats
  PROVE  \E run : IsRun("pack", f, run) /\ PackKinds(f) = run[Steps(f)].list
<1> DEFINE n == Steps(f)
           src == [i \in 1 .. n |-> i]
           goes(h) == h = [s \in SUBSET (1 .. n) |->
                             IF s = {} THEN ShimStart(f) ELSE PackShimStep(f, h[s \ {Max(s)}])]
           g == CHOOSE h : goes(h)
           run == [j \in 0 .. n |-> g[1 .. j]]
<1>1. n \in Nat
  BY DEF Steps, Formats
<1>2. goes(g)
  <2>1. PICK h : Walks("pack", f, n, h)
    BY <1>1, WalksExist, Zenon
  <2>2. goes(h)
    BY <2>1 DEF Walks, Turn
  <2> QED
    BY <2>2, Zenon
<1>3. PackKinds(f) = g[DOMAIN src].list
  <2>1. f # << >>
    BY DEF Formats
  <2> QED
    BY <2>1 DEF PackKinds, Listed, FoldLeft, MapThenFoldSet, Steps
<1>4. DOMAIN src = 1 .. n
  OBVIOUS
<1> HIDE DEF g
<1>5. Walks("pack", f, n, g)
  BY <1>2 DEF Walks, Turn
<1> HIDE DEF goes
<1>6. IsRun("pack", f, run)
  BY <1>5, WalkIsRun
<1>7. run[n] = g[1 .. n]
  BY <1>1
<1> HIDE DEF run
<1> QED
  BY <1>3, <1>4, <1>6, <1>7

\* The walk of the shim of json_pack through a format, and what it lists in the end.
TheRun(f) == CHOOSE run : IsRun("pack", f, run) /\ PackKinds(f) = run[Steps(f)].list

LEMMA TheRunIsRun ==
  ASSUME NEW f \in Formats
  PROVE  /\ Steps(f) \in Nat
         /\ TheRun(f)[0] = ShimStart(f)
         /\ \A j \in 0 .. Steps(f) : j < Steps(f) => TheRun(f)[j + 1] = PackShimStep(f, TheRun(f)[j])
         /\ PackKinds(f) = TheRun(f)[Steps(f)].list
<1> DEFINE run == TheRun(f)
           n == Steps(f)
<1>1. IsRun("pack", f, run) /\ PackKinds(f) = run[Steps(f)].list
  BY PackKindsAreListed, Zenon DEF TheRun
<1>2. n \in Nat
  BY DEF Steps, Formats
<1> HIDE DEF run
<1>3. ASSUME NEW j \in 0 .. n, j < n PROVE run[j + 1] = PackShimStep(f, run[j])
  <2> DEFINE i == j + 1
  <2>1. i \in 1 .. n /\ i - 1 = j
    BY <1>2, <1>3
  <2> HIDE DEF i, n
  <2>2. run[i] = Turn("pack", f, run[i - 1])
    BY <1>1, <2>1 DEF IsRun, n
  <2>3. run[i] = PackShimStep(f, run[j])
    BY <2>1, <2>2 DEF Turn
  <2> QED
    BY <2>3 DEF i
<1> QED
  BY <1>1, <1>2, <1>3 DEF IsRun, run

LEMMA StartIsThere ==
  ASSUME NEW f \in Formats
  PROVE  /\ ShimOK(f, ShimStart(f)) /\ ShimShape(ShimStart(f))
         /\ ShimIs(f, ShimStart(f), Advanced(f, ScanStart).tok, << >>, "value", << >>)
<1>1. Sane(f, Advanced(f, ScanStart))
  BY StartIsSane, AdvancedIsSane
<1>2. Advanced(f, ScanStart) \in Scans /\ "value" \in Ats
  BY <1>1 DEF Sane, Scans, Ats
<1> DEFINE a == Advanced(f, ScanStart)
<1>3. ShimStart(f) = [scan |-> a, open |-> << >>, at |-> "value", strict |-> FALSE, list |-> << >>]
  BY DEF ShimStart
<1> HIDE DEF a
<1>4. << >> \in Seq(Brackets) /\ << >> \in Seq(Entries)
  OBVIOUS
<1>5. ShimStart(f) \in [scan : Scans, open : Seq(Brackets), at : Ats, strict : BOOLEAN, list : Seq(Entries)]
  BY <1>2, <1>3, <1>4 DEF a
<1>6. /\ ShimStart(f).scan = a /\ ShimStart(f).open = << >>
      /\ ShimStart(f).at = "value" /\ ShimStart(f).list = << >>
  BY <1>3
<1> QED
  BY <1>1, <1>5, <1>6 DEF ShimOK, ShimShape, ShimIs, a

LEMMA RunIsOK ==
  ASSUME NEW f \in Formats, NEW j \in 0 .. Steps(f)
  PROVE  ShimOK(f, TheRun(f)[j]) /\ ShimShape(TheRun(f)[j])
<1> DEFINE run == TheRun(f)
           n == Steps(f)
           S == {i \in Nat : i <= n => ShimOK(f, run[i]) /\ ShimShape(run[i])}
<1>1. /\ n \in Nat /\ run[0] = ShimStart(f)
      /\ \A i \in 0 .. n : i < n => run[i + 1] = PackShimStep(f, run[i])
  BY TheRunIsRun
<1> HIDE DEF run, n
<1>2. 0 \in S
  BY <1>1, StartIsThere
<1>3. ASSUME NEW i \in S PROVE i + 1 \in S
  <2> SUFFICES ASSUME i + 1 <= n PROVE ShimOK(f, run[i + 1]) /\ ShimShape(run[i + 1])
    OBVIOUS
  <2>1. i \in 0 .. n /\ i < n /\ ShimOK(f, run[i]) /\ ShimShape(run[i])
    BY <1>1
  <2>2. run[i + 1] = PackShimStep(f, run[i])
    BY <1>1, <2>1
  <2> QED
    BY <2>1, <2>2, PackShimExtends
<1>4. S \in SUBSET Nat
  OBVIOUS
<1> HIDE DEF S
<1>5. S = Nat
  BY <1>2, <1>3, <1>4, InductionOverSet
<1> QED
  BY <1>1, <1>5 DEF S, run, n

LEMMA RunExtends ==
  ASSUME NEW f \in Formats, NEW j \in 0 .. Steps(f)
  PROVE  Extends(TheRun(f)[j].list, PackKinds(f))
<1> DEFINE run == TheRun(f)
           n == Steps(f)
           S == {k \in Nat : j + k <= n => Extends(run[j].list, run[j + k].list)}
<1>1. /\ n \in Nat /\ j \in 0 .. n
      /\ \A i \in 0 .. n : i < n => run[i + 1] = PackShimStep(f, run[i])
      /\ PackKinds(f) = run[n].list
  BY TheRunIsRun
<1>2. \A i \in 0 .. n : ShimOK(f, run[i]) /\ ShimShape(run[i])
  BY RunIsOK
<1> HIDE DEF run, n
<1>3. 0 \in S
  <2>1. run[j].list \in Seq(Entries) /\ j + 0 = j
    BY <1>1, <1>2 DEF ShimOK
  <2> QED
    BY <2>1 DEF Extends
<1>4. ASSUME NEW k \in S PROVE k + 1 \in S
  <2> DEFINE i == j + k
  <2> SUFFICES ASSUME j + (k + 1) <= n PROVE Extends(run[j].list, run[j + (k + 1)].list)
    OBVIOUS
  <2>1. i \in 0 .. n /\ i < n /\ Extends(run[j].list, run[i].list) /\ j + (k + 1) = i + 1
    BY <1>1
  <2> HIDE DEF i
  <2>2. run[i + 1] = PackShimStep(f, run[i])
    BY <1>1, <2>1
  <2>3. Extends(run[i].list, run[i + 1].list)
    BY <1>2, <2>1, <2>2, PackShimExtends
  <2> QED
    BY <2>1, <2>3, ExtendsFurther
<1>5. S \in SUBSET Nat
  OBVIOUS
<1> HIDE DEF S
<1>6. S = Nat
  BY <1>3, <1>4, <1>5, InductionOverSet
<1>7. n - j \in Nat /\ j + (n - j) = n /\ n <= n
  BY <1>1
<1>8. n - j \in S
  BY <1>6, <1>7
<1> QED
  BY <1>1, <1>7, <1>8 DEF S, run

LEMMA RunRests ==
  ASSUME NEW f \in Formats, NEW j \in 0 .. Steps(f), TheRun(f)[j].at \in {"done", "stop"}
  PROVE  PackKinds(f) = TheRun(f)[j].list
<1> DEFINE run == TheRun(f)
           n == Steps(f)
           S == {k \in Nat : j + k <= n => run[j + k] = run[j]}
<1>1. /\ n \in Nat /\ j \in 0 .. n
      /\ \A i \in 0 .. n : i < n => run[i + 1] = PackShimStep(f, run[i])
      /\ PackKinds(f) = run[n].list
      /\ run[j].at \in {"done", "stop"}
  BY TheRunIsRun
<1> HIDE DEF run, n
<1>3. 0 \in S
  BY <1>1
<1>4. ASSUME NEW k \in S PROVE k + 1 \in S
  <2> DEFINE i == j + k
  <2> SUFFICES ASSUME j + (k + 1) <= n PROVE run[j + (k + 1)] = run[j]
    OBVIOUS
  <2>1. i \in 0 .. n /\ i < n /\ run[i] = run[j] /\ j + (k + 1) = i + 1
    BY <1>1
  <2> HIDE DEF i
  <2>2. run[i + 1] = PackShimStep(f, run[i])
    BY <1>1, <2>1
  <2> QED
    BY <1>1, <2>1, <2>2, ShimRests
<1>5. S \in SUBSET Nat
  OBVIOUS
<1> HIDE DEF S
<1>6. S = Nat
  BY <1>3, <1>4, <1>5, InductionOverSet
<1>7. n - j \in Nat /\ j + (n - j) = n /\ n <= n
  BY <1>1
<1>8. n - j \in S
  BY <1>6, <1>7
<1> QED
  BY <1>1, <1>7, <1>8 DEF S, run

-----------------------------------------------------------------------------
(* The state of the packer                                                 *)

Bytes == {"a", "b", "lead", "trail", "NULL"}
Texts == Seq(Bytes)
Chars == STRING \cup {"end", "no"}

Values == {"none", "literal", "node", "given"} \X Nat
Kids == [key : Texts, value : Values]
Makes == {"{", "[", "integer", "real", "string"}
Nodes == [of : Makes, text : Texts, kids : Seq(Kids)]
Begun == [of : Brackets, node : Nat, key : Texts, own : BOOLEAN, opt : Chars]
Strings == [use : {"none", "value", "key"}, mark : {"no", "?", "*"}, text : Texts]

Typed ==
  /\ heap \in Seq(Nodes)
  /\ stack \in Seq(Begun)
  /\ str \in Strings
  /\ ret \in Values

\* The arguments are those that the format asks for, each with a value of its kind.
ArgsFit ==
  /\ Len(args) \in Nat /\ DOMAIN args = 1 .. Len(args)
  /\ taken \in 0 .. Len(args)
  /\ fmt \in Formats =>
       /\ Len(args) = Len(PackKinds(fmt))
       /\ \A k \in 1 .. Len(args) :
            args[k].kind = PackKinds(fmt)[k].kind /\ args[k].from = PackKinds(fmt)[k].from
  /\ \A k \in 1 .. Len(args) :
       /\ args[k].kind = "CSTR" => args[k].value \in Texts
       /\ args[k].kind = "JSON" => args[k].value \in {None, Given(k)}

\* A container begun is what it is begun as.
Fit(h, s) ==
  \A i \in 1 .. Len(s) : s[i].node \in 1 .. Len(h) /\ h[s[i].node].of = s[i].of
LevelsFit == Fit(heap, stack)

\* What the phases of the call have to do with the rest of its state.
Phased ==
  /\ pc \in PackPhases
  /\ fmt # << >> => fmt \in Formats /\ Sane(fmt, scan)
  /\ pc \notin {"call", "packed"} => fmt # << >>
  /\ pc \in {"string", "parts", "joined"} => str.use # "none"
  /\ pc \in {"string", "parts", "joined"} /\ str.use = "key" =>
       stack # << >> /\ ~Last(stack).own /\ str.mark = "no"
  /\ pc = "items" => stack # << >> /\ ~Last(stack).own
  /\ pc \in {"call", "packed"} => stack = << >>
  /\ ret # None => pc \in {"back", "packed"}

Control == Typed /\ ArgsFit /\ LevelsFit /\ Phased

LEMMA FrontAndLast ==
  ASSUME NEW S, NEW s \in Seq(S), s # << >>
  PROVE  /\ Len(s) \in Nat \ {0}
         /\ Front(s) \in Seq(S)
         /\ Len(Front(s)) = Len(s) - 1
         /\ \A i \in 1 .. Len(s) - 1 : Front(s)[i] = s[i]
         /\ Last(s) = s[Len(s)] /\ Last(s) \in S
<1> DEFINE n == Len(s)
<1>1. n \in Nat \ {0} /\ Front(s) = SubSeq(s, 1, n - 1) /\ Last(s) = s[n] /\ s[n] \in S
  BY DEF Front, Last
<1>2. n - 1 \in Int /\ \A i \in 1 .. n - 1 : s[i] \in S
  BY <1>1
<1> HIDE DEF n
<1>3. /\ SubSeq(s, 1, n - 1) \in Seq(S)
      /\ Len(SubSeq(s, 1, n - 1)) = n - 1
      /\ \A i \in 1 .. n - 1 : SubSeq(s, 1, n - 1)[i] = s[i]
  BY <1>1, <1>2, SubSeqProperties
<1> QED
  BY <1>1, <1>3 DEF n

LEMMA PutAt ==
  ASSUME NEW S, NEW s \in Seq(S), NEW n \in 1 .. Len(s), NEW x \in S
  PROVE  LET t == [s EXCEPT ![n] = x]
         IN /\ t \in Seq(S) /\ Len(t) = Len(s) /\ t[n] = x
            /\ \A i \in 1 .. Len(s) : i # n => t[i] = s[i]
  BY ExceptSeq

\* The same containers, whatever their keys.
SameLevels(s, t) ==
  Len(t) = Len(s) /\ \A i \in 1 .. Len(s) : t[i].of = s[i].of /\ t[i].node = s[i].node

Keyed(s, key, own, opt) ==
  [s EXCEPT ![Len(s)].key = key, ![Len(s)].own = own, ![Len(s)].opt = opt]
Marked(s, opt) == [s EXCEPT ![Len(s)].opt = opt]

LEMMA NewKey ==
  ASSUME NEW s \in Seq(Begun), s # << >>, NEW key \in Texts, NEW own \in BOOLEAN, NEW opt \in Chars
  PROVE  LET t == Keyed(s, key, own, opt)
         IN /\ t \in Seq(Begun) /\ t # << >>
            /\ SameLevels(s, t)
            /\ Last(t).own = own
            /\ \A i \in 1 .. Len(s) : t[i].own = IF i = Len(s) THEN own ELSE s[i].own
<1> DEFINE n == Len(s)
           top == [s[n] EXCEPT !.key = key, !.own = own, !.opt = opt]
           t == [s EXCEPT ![n] = top]
<1>1. n \in Nat \ {0} /\ s[n] \in Begun /\ DOMAIN s = 1 .. n
  OBVIOUS
<1>2. top \in Begun /\ top.of = s[n].of /\ top.node = s[n].node /\ top.own = own
  BY <1>1 DEF Begun
<1>3. Keyed(s, key, own, opt) = t
  BY <1>1 DEF Begun, Keyed
<1> HIDE DEF top
<1>4. t \in Seq(Begun) /\ Len(t) = n /\ t[n] = top /\ \A i \in 1 .. n - 1 : t[i] = s[i]
  <2>1. n \in 1 .. Len(s)
    BY <1>1
  <2>2. /\ t \in Seq(Begun) /\ Len(t) = Len(s) /\ t[n] = top
        /\ \A i \in 1 .. Len(s) : i # n => t[i] = s[i]
    BY <1>2, <2>1, PutAt
  <2>3. n \in Nat
    BY <1>1
  <2> HIDE DEF t, n
  <2>4. \A i \in 1 .. n - 1 : i \in 1 .. Len(s) /\ i # n
    BY <2>3 DEF n
  <2> QED
    BY <2>2, <2>4 DEF n
<1> HIDE DEF t, n
<1>5. Last(t) = top /\ t # << >>
  BY <1>1, <1>4 DEF Last
<1>6. SameLevels(s, t)
  BY <1>1, <1>2, <1>4 DEF SameLevels, n
<1>7. \A i \in 1 .. n : t[i].own = IF i = n THEN own ELSE s[i].own
  BY <1>1, <1>2, <1>4
<1> QED
  BY <1>2, <1>3, <1>4, <1>5, <1>6, <1>7 DEF n

LEMMA NewMark ==
  ASSUME NEW s \in Seq(Begun), s # << >>, NEW opt \in Chars
  PROVE  LET t == Marked(s, opt)
         IN /\ t \in Seq(Begun) /\ t # << >>
            /\ SameLevels(s, t)
            /\ Last(t).own = Last(s).own
            /\ \A i \in 1 .. Len(s) : t[i].own = s[i].own
<1> DEFINE n == Len(s)
           top == [s[n] EXCEPT !.opt = opt]
           t == [s EXCEPT ![n] = top]
<1>1. n \in Nat \ {0} /\ s[n] \in Begun /\ DOMAIN s = 1 .. n /\ Last(s) = s[n]
  BY DEF Last
<1>2. top \in Begun /\ top.of = s[n].of /\ top.node = s[n].node /\ top.own = s[n].own
  BY <1>1 DEF Begun
<1>3. Marked(s, opt) = t
  BY <1>1 DEF Begun, Marked
<1> HIDE DEF top
<1>4. t \in Seq(Begun) /\ Len(t) = n /\ t[n] = top /\ \A i \in 1 .. n - 1 : t[i] = s[i]
  <2>1. n \in 1 .. Len(s)
    BY <1>1
  <2>2. /\ t \in Seq(Begun) /\ Len(t) = Len(s) /\ t[n] = top
        /\ \A i \in 1 .. Len(s) : i # n => t[i] = s[i]
    BY <1>2, <2>1, PutAt
  <2>3. n \in Nat
    BY <1>1
  <2> HIDE DEF t, n
  <2>4. \A i \in 1 .. n - 1 : i \in 1 .. Len(s) /\ i # n
    BY <2>3 DEF n
  <2> QED
    BY <2>2, <2>4 DEF n
<1> HIDE DEF t, n
<1>5. Last(t) = top /\ t # << >>
  BY <1>1, <1>4 DEF Last
<1>6. SameLevels(s, t)
  BY <1>1, <1>2, <1>4 DEF SameLevels, n
<1>7. \A i \in 1 .. n : t[i].own = s[i].own
  BY <1>1, <1>2, <1>4
<1> QED
  BY <1>1, <1>2, <1>3, <1>4, <1>5, <1>6, <1>7 DEF n

\* Where the scanner goes.
LEMMA ScannerGoes ==
  ASSUME NEW f \in Formats, NEW s, Sane(f, s)
  PROVE  LET a == Advanced(f, s)
             b == PushedBack(a)
             c == PushedBack(Advanced(f, a))
             d == PushedBack(Advanced(f, Advanced(f, b)))
         IN /\ Sane(f, a) /\ a.tok = NextPlace(f, s.tok) /\ CharOf(f, a.tok) = Behind(f, s.tok)
            /\ Sane(f, b) /\ b.tok = s.tok
            /\ Sane(f, c) /\ c.tok = NextPlace(f, s.tok)
            /\ Advanced(f, b).tok = NextPlace(f, s.tok)
            /\ Sane(f, d) /\ d.tok = NextPlace(f, s.tok)
<1> DEFINE a == Advanced(f, s)
           b == PushedBack(a)
           e == Advanced(f, b)
<1>1. Sane(f, a) /\ a.tok = NextPlace(f, s.tok)
  BY AdvancedIsSane
<1>2. Sane(f, b) /\ b.tok = s.tok
  BY LookedIsSane
<1> HIDE DEF a
<1>3. Sane(f, PushedBack(Advanced(f, a))) /\ PushedBack(Advanced(f, a)).tok = a.tok
  BY <1>1, LookedIsSane
<1> HIDE DEF b
<1>4. Sane(f, e) /\ e.tok = NextPlace(f, b.tok)
  BY <1>2, AdvancedIsSane
<1> HIDE DEF e
<1>5. Sane(f, PushedBack(Advanced(f, e))) /\ PushedBack(Advanced(f, e)).tok = e.tok
  BY <1>4, LookedIsSane
<1> QED
  BY <1>1, <1>2, <1>3, <1>4, <1>5 DEF a, b, e, Behind

LEMMA CharsAreTyped ==
  ASSUME NEW f \in Formats, NEW p
  PROVE  CharOf(f, p) \in Chars
<1>1. \A i \in DOMAIN f : f[i] \in STRING
  BY DEF Formats
<1> QED
  BY <1>1 DEF CharOf, Chars

\* The scanner in a phase in which the format is read.
LEMMA Reading ==
  ASSUME Control, fmt # << >>
  PROVE  /\ fmt \in Formats /\ Sane(fmt, scan)
         /\ Sane(fmt, NextToken(scan)) /\ NextToken(scan).tok = NextPlace(fmt, scan.tok)
         /\ LookAhead = Behind(fmt, scan.tok) /\ LookAhead \in Chars
         /\ Sane(fmt, Looked) /\ Looked.tok = scan.tok
         /\ \A marks : /\ Sane(fmt, PastMark(marks))
                       /\ PastMark(marks).tok = IF LookAhead \in marks THEN NextPlace(fmt, scan.tok)
                                                ELSE scan.tok
         /\ Token \in Chars
<1>1. fmt \in Formats /\ Sane(fmt, scan)
  BY DEF Control, Phased
<1>2. /\ Sane(fmt, NextToken(scan)) /\ NextToken(scan).tok = NextPlace(fmt, scan.tok)
      /\ LookAhead = Behind(fmt, scan.tok)
      /\ Sane(fmt, Looked) /\ Looked.tok = scan.tok
  BY <1>1, ScannerGoes DEF NextToken, LookAhead, Looked, TokenOf
<1>3. LookAhead \in Chars /\ Token \in Chars
  BY <1>1, CharsAreTyped DEF LookAhead, Token, TokenOf
<1>4. ASSUME NEW marks
      PROVE  /\ Sane(fmt, PastMark(marks))
             /\ PastMark(marks).tok = IF LookAhead \in marks THEN NextPlace(fmt, scan.tok)
                                      ELSE scan.tok
  BY <1>2 DEF PastMark
<1> QED
  BY <1>1, <1>2, <1>3, <1>4

-----------------------------------------------------------------------------
(* The steps keep the state of the packer in order.                        *)

LEMMA ValuesAreTyped ==
  /\ None \in Values /\ Null \in Values /\ True \in Values
  /\ \A n \in Nat : Node(n) \in Values /\ Given(n) \in Values
  /\ \A n \in Nat : Node(n) # None /\ Given(n) # None
  BY DEF Values, None, Null, True, Node, Given

LEMMA TextsAreTyped ==
  NoText \in Texts /\ NoKey \in Texts /\ NoString \in Strings
  BY DEF Texts, Bytes, NoText, NoKey, NoString, Strings

LEMMA KindsAreTyped ==
  ASSUME fmt \in Formats \/ fmt = << >>
  PROVE  PackKinds(fmt) \in Seq(Entries)
<1>1. CASE fmt \in Formats
  <2>1. Steps(fmt) \in 0 .. Steps(fmt) /\ PackKinds(fmt) = TheRun(fmt)[Steps(fmt)].list
    BY <1>1, TheRunIsRun
  <2> QED
    BY <1>1, <2>1, RunIsOK DEF ShimOK
<1>2. CASE fmt = << >>
  BY <1>2 DEF PackKinds
<1> QED
  BY <1>1, <1>2

\* The values of arguments, by their kinds.
LEMMA ValuesOfKinds ==
  ASSUME NEW kind, NEW k
  PROVE  /\ kind = "CSTR" => OddToPack(kind) = OddText /\ Plain(kind, k) = <<"a">>
         /\ kind = "JSON" => OddToPack(kind) = {None} /\ Plain(kind, k) = Given(k)
  BY DEF OddToPack, Plain

LEMMA ArgsAreFit ==
  ASSUME NEW kinds \in Seq(Entries), NEW a \in ArgsOf(kinds, OddToPack)
  PROVE  /\ Len(a) = Len(kinds) /\ DOMAIN a = 1 .. Len(kinds)
         /\ \A k \in 1 .. Len(kinds) :
              /\ a[k].kind = kinds[k].kind /\ a[k].from = kinds[k].from
              /\ a[k].kind = "CSTR" => a[k].value \in Texts
              /\ a[k].kind = "JSON" => a[k].value \in {None, Given(k)}
<1> DEFINE n == Len(kinds)
<1>1. n \in Nat /\ DOMAIN kinds = 1 .. n
  OBVIOUS
<1> DEFINE Odds(O) == {v \in [O -> UNION {OddToPack(kinds[k].kind) : k \in O}] :
                         \A k \in O : v[k] \in OddToPack(kinds[k].kind)}
           With(v) == [k \in DOMAIN kinds |->
                         [kind |-> kinds[k].kind, from |-> kinds[k].from,
                          value |-> IF k \in DOMAIN v THEN v[k] ELSE Plain(kinds[k].kind, k)]]
<1>a. PICK O \in SUBSET DOMAIN kinds : a \in {With(v) : v \in Odds(O)}
  BY DEF ArgsOf
<1>b. PICK v \in Odds(O) : a = With(v)
  BY <1>a
<1>2. /\ DOMAIN v = O /\ \A k \in O : v[k] \in OddToPack(kinds[k].kind)
      /\ a = With(v)
  BY <1>b
<1> HIDE DEF Odds
<1> HIDE DEF n
<1>3. DOMAIN a = 1 .. n
  BY <1>1, <1>2
<1>4. Len(a) = n
  <2> DEFINE S == {a[k] : k \in 1 .. n}
  <2>1. a \in [1 .. n -> S]
    <3>1. a = [k \in 1 .. n |-> a[k]]
      BY <1>1, <1>2
    <3> HIDE DEF S
    <3> QED
      BY <3>1 DEF S
  <2> HIDE DEF S
  <2>2. a \in Seq(S)
    BY <1>1, <2>1
  <2> QED
    BY <1>1, <1>3, <2>2
<1>5. ASSUME NEW k \in 1 .. n
      PROVE  /\ a[k].kind = kinds[k].kind /\ a[k].from = kinds[k].from
             /\ a[k].kind = "CSTR" => a[k].value \in Texts
             /\ a[k].kind = "JSON" => a[k].value \in {None, Given(k)}
  <2> DEFINE kind == kinds[k].kind
  <2>1. /\ a[k].kind = kind /\ a[k].from = kinds[k].from
        /\ a[k].value = IF k \in O THEN v[k] ELSE Plain(kind, k)
    BY <1>1, <1>2
  <2>2. k \in O => v[k] \in OddToPack(kind)
    BY <1>2
  <2> HIDE DEF kind
  <2>3. ASSUME kind = "CSTR" PROVE a[k].value \in Texts
    <3>1. OddToPack(kind) = OddText /\ Plain(kind, k) = <<"a">>
      BY <2>3, ValuesOfKinds
    <3>2. OddText \subseteq Texts /\ <<"a">> \in Texts
      BY DEF OddText, Texts, Bytes, NoText
    <3> QED
      BY <2>1, <2>2, <3>1, <3>2
  <2>4. ASSUME kind = "JSON" PROVE a[k].value \in {None, Given(k)}
    <3>1. OddToPack(kind) = {None} /\ Plain(kind, k) = Given(k)
      BY <2>4, ValuesOfKinds
    <3> QED
      BY <2>1, <2>2, <3>1
  <2> QED
    BY <2>1, <2>3, <2>4 DEF kind
<1> QED
  BY <1>3, <1>4, <1>5 DEF n

LEMMA InitIsInOrder == Init => Control
<1> SUFFICES ASSUME Init PROVE Control
  OBVIOUS
<1>1. /\ pc = "call" /\ fmt \in PackFormats /\ args \in ArgsOf(PackKinds(fmt), OddToPack)
      /\ taken = 0 /\ scan = ScanStart /\ heap = << >> /\ stack = << >> /\ str = NoString /\ ret = None
  BY DEF Init
<1>2. fmt \in Formats \/ fmt = << >>
  BY <1>1, FormatsAssumption DEF Formats
<1>3. PackKinds(fmt) \in Seq(Entries)
  BY <1>2, KindsAreTyped
<1>4. Typed
  BY <1>1, ValuesAreTyped, TextsAreTyped DEF Typed
<1>5. ArgsFit
  BY <1>1, <1>3, ArgsAreFit DEF ArgsFit
<1>6. LevelsFit
  BY <1>1 DEF LevelsFit, Fit
<1>7. Phased
  <2>1. fmt # << >> => fmt \in Formats /\ Sane(fmt, scan)
    BY <1>1, <1>2, StartIsSane
  <2> QED
    BY <1>1, <2>1 DEF Phased, PackPhases
<1> QED
  BY <1>4, <1>5, <1>6, <1>7 DEF Control

\* The values made stay what they are.
Grows(h, g) ==
  /\ Len(h) <= Len(g)
  /\ \A n \in 1 .. Len(h) : g[n].of = h[n].of

LEMMA LevelsStayFit ==
  ASSUME NEW h \in Seq(Nodes), NEW g \in Seq(Nodes), NEW s \in Seq(Begun), NEW t,
         Fit(h, s), Grows(h, g),
         SameLevels(s, t) \/ (s # << >> /\ t = Front(s))
  PROVE  Fit(g, t)
<1>1. Len(h) \in Nat /\ Len(g) \in Nat
  OBVIOUS
<1>2. CASE SameLevels(s, t)
  BY <1>1, <1>2 DEF Fit, SameLevels, Grows
<1>3. CASE s # << >> /\ t = Front(s)
  <2>1. /\ Len(s) \in Nat /\ Len(t) = Len(s) - 1
        /\ \A i \in 1 .. Len(s) - 1 : t[i] = s[i]
    BY <1>3, FrontAndLast
  <2>2. ASSUME NEW i \in 1 .. Len(t)
        PROVE  t[i].node \in 1 .. Len(g) /\ g[t[i].node].of = t[i].of
    <3>1. i \in 1 .. Len(s) /\ t[i] = s[i]
      BY <2>1
    <3>2. s[i].node \in 1 .. Len(h) /\ h[s[i].node].of = s[i].of
      BY <3>1 DEF Fit
    <3> DEFINE m == s[i].node
    <3>3. m \in 1 .. Len(h)
      BY <3>2
    <3> HIDE DEF m
    <3>4. g[m].of = h[m].of /\ m \in 1 .. Len(g)
      BY <1>1, <3>3 DEF Grows
    <3> QED
      BY <3>1, <3>2, <3>4 DEF m
  <2> QED
    BY <2>2 DEF Fit
<1> QED
  BY <1>2, <1>3

LEMMA AppendGoes ==
  ASSUME NEW h \in Seq(Nodes), NEW node \in Nodes
  PROVE  LET g == Append(h, node)
         IN /\ g \in Seq(Nodes) /\ Grows(h, g)
            /\ Len(h) \in Nat /\ Len(g) = Len(h) + 1
            /\ \A n \in 1 .. Len(h) : g[n] = h[n]
            /\ g[Len(h) + 1] = node
<1> DEFINE g == Append(h, node)
<1>1. Len(h) \in Nat
  OBVIOUS
<1>2. /\ g \in Seq(Nodes)
      /\ Len(g) = Len(h) + 1
      /\ \A n \in 1 .. Len(h) : g[n] = h[n]
      /\ g[Len(h) + 1] = node
  BY <1>1
<1> HIDE DEF g
<1>3. Grows(h, g)
  BY <1>1, <1>2 DEF Grows
<1> QED
  BY <1>1, <1>2, <1>3 DEF g

MadeNode(of, text) == [of |-> of, text |-> text, kids |-> << >>]

LEMMA NodesAreTyped ==
  ASSUME NEW kind \in Makes, NEW text \in Texts
  PROVE  /\ MadeNode(kind, text) \in Nodes
         /\ MadeNode(kind, text).of = kind /\ MadeNode(kind, text).kids = << >>
  BY DEF MadeNode, Nodes

\* The heap with one value more.
GrowsBy(of) ==
  /\ heap' \in Seq(Nodes) /\ Grows(heap, heap')
  /\ Len(heap') = Len(heap) + 1
  /\ \A n \in 1 .. Len(heap) : heap'[n] = heap[n]
  /\ heap'[Len(heap) + 1].of = of /\ heap'[Len(heap) + 1].kids = << >>
  /\ live' = live \cup {Len(heap) + 1}
  /\ Fresh = Node(Len(heap) + 1) /\ Fresh \in Values /\ Fresh # None

LEMMA MakeGoes ==
  ASSUME NEW kind \in Makes, NEW text \in Texts
  PROVE  Control /\ Make(kind, text) => GrowsBy(kind)
<1>0. SUFFICES ASSUME Control, Make(kind, text) PROVE GrowsBy(kind)
  OBVIOUS
<1> DEFINE node == MadeNode(kind, text)
<1>1. heap \in Seq(Nodes)
  BY <1>0 DEF Control, Typed
<1>2. heap' = Append(heap, node) /\ live' = live \cup {Len(heap) + 1}
  BY <1>0 DEF Make, MadeNode
<1>3. node \in Nodes /\ node.of = kind /\ node.kids = << >>
  BY NodesAreTyped
<1> HIDE DEF node
<1>4. /\ heap' \in Seq(Nodes) /\ Grows(heap, heap')
      /\ Len(heap) \in Nat /\ Len(heap') = Len(heap) + 1
      /\ \A n \in 1 .. Len(heap) : heap'[n] = heap[n]
      /\ heap'[Len(heap) + 1] = node
  BY <1>1, <1>2, <1>3, AppendGoes
<1>5. Len(heap) + 1 \in Nat
  BY <1>4
<1>6. Fresh = Node(Len(heap) + 1) /\ Fresh \in Values /\ Fresh # None
  BY <1>5, ValuesAreTyped DEF Fresh
<1> QED
  BY <1>2, <1>3, <1>4, <1>6 DEF GrowsBy

LEMMA WithMemberIsTyped ==
  ASSUME NEW kids \in Seq(Kids), NEW key \in Texts, NEW x \in Values
  PROVE  WithMember(kids, key, x) \in Seq(Kids)
<1> DEFINE kid == [key |-> key, value |-> x]
<1>1. kid \in Kids
  BY DEF Kids
<1> HIDE DEF kid
<1>2. CASE Same(key, kids) = {}
  BY <1>1, <1>2 DEF WithMember, kid
<1>3. CASE Same(key, kids) # {}
  <2> DEFINE t == [i \in DOMAIN kids |-> IF i \in Same(key, kids) THEN kid ELSE kids[i]]
  <2>1. WithMember(kids, key, x) = t
    BY <1>3 DEF WithMember, kid
  <2>2. Len(kids) \in Nat /\ DOMAIN kids = 1 .. Len(kids) /\ \A i \in 1 .. Len(kids) : kids[i] \in Kids
    OBVIOUS
  <2>3. t \in [1 .. Len(kids) -> Kids]
    BY <1>1, <2>2
  <2> HIDE DEF t
  <2> QED
    BY <2>1, <2>2, <2>3
<1> QED
  BY <1>2, <1>3

LEMMA TopIsBegun ==
  ASSUME Control, stack # << >>
  PROVE  /\ Top = stack[Len(stack)] /\ Top \in Begun
         /\ Len(stack) \in Nat \ {0}
         /\ Top.node \in 1 .. Len(heap) /\ heap[Top.node].of = Top.of
         /\ heap[Top.node] \in Nodes
<1>1. stack \in Seq(Begun) /\ heap \in Seq(Nodes) /\ Fit(heap, stack)
  BY DEF Control, Typed, LevelsFit
<1>2. Top = stack[Len(stack)] /\ Top \in Begun /\ Len(stack) \in Nat \ {0}
  BY <1>1, FrontAndLast DEF Top
<1> QED
  BY <1>1, <1>2 DEF Fit

\* A value is put into a container.
WithKids(h, n, kids) == [h EXCEPT ![n] = [h[n] EXCEPT !.kids = kids]]

LEMMA KidsGo ==
  ASSUME NEW h \in Seq(Nodes), NEW n \in 1 .. Len(h), NEW kids \in Seq(Kids)
  PROVE  LET g == WithKids(h, n, kids)
         IN /\ g \in Seq(Nodes) /\ Grows(h, g)
            /\ Len(g) = Len(h)
            /\ \A m \in 1 .. Len(h) : m # n => g[m] = h[m]
            /\ g[n].of = h[n].of
            /\ g[n].kids = kids
<1> DEFINE node == [h[n] EXCEPT !.kids = kids]
           g == WithKids(h, n, kids)
<1>1. h[n] \in Nodes
  OBVIOUS
<1>2. node \in Nodes /\ node.of = h[n].of /\ node.kids = kids
  BY <1>1 DEF Nodes
<1>3. g = [h EXCEPT ![n] = node]
  BY DEF WithKids
<1> HIDE DEF node, g
<1>4. /\ g \in Seq(Nodes) /\ Len(g) = Len(h) /\ g[n] = node
      /\ \A m \in 1 .. Len(h) : m # n => g[m] = h[m]
  BY <1>2, <1>3, PutAt
<1>5. Grows(h, g)
  <2>1. Len(h) \in Nat
    OBVIOUS
  <2> QED
    BY <1>2, <1>4, <2>1 DEF Grows
<1> QED
  BY <1>2, <1>4, <1>5 DEF g

PutKids ==
  IF Top.of = "{" THEN WithMember(heap[Top.node].kids, Top.key, ret)
  ELSE Append(heap[Top.node].kids, [key |-> NoKey, value |-> ret])

LEMMA PutKidsAreTyped ==
  ASSUME Control, stack # << >>
  PROVE  PutKids \in Seq(Kids)
<1>1. ret \in Values /\ heap[Top.node] \in Nodes /\ Top \in Begun
  BY TopIsBegun DEF Control, Typed
<1>2. heap[Top.node].kids \in Seq(Kids) /\ Top.key \in Texts
  BY <1>1 DEF Nodes, Begun
<1>3. [key |-> NoKey, value |-> ret] \in Kids
  BY <1>1, TextsAreTyped DEF Kids
<1>4. WithMember(heap[Top.node].kids, Top.key, ret) \in Seq(Kids)
  BY <1>1, <1>2, WithMemberIsTyped
<1>5. Append(heap[Top.node].kids, [key |-> NoKey, value |-> ret]) \in Seq(Kids)
  BY <1>2, <1>3
<1> QED
  BY <1>4, <1>5, Zenon DEF PutKids

LEMMA PutGoes ==
  ASSUME Control, stack # << >>, heap' = WithKids(heap, Top.node, PutKids)
  PROVE  /\ heap' \in Seq(Nodes) /\ Grows(heap, heap')
         /\ Len(heap') = Len(heap)
         /\ \A m \in 1 .. Len(heap) : m # Top.node => heap'[m] = heap[m]
         /\ heap'[Top.node].of = heap[Top.node].of
         /\ heap'[Top.node].kids = PutKids
<1>1. heap \in Seq(Nodes)
  BY DEF Control, Typed
<1>2. Top.node \in 1 .. Len(heap)
  BY TopIsBegun
<1>3. PutKids \in Seq(Kids)
  BY PutKidsAreTyped
<1> QED
  BY <1>1, <1>2, <1>3, KidsGo

\* What a step has to do with the state, whatever the phase it leads to.
Steady ==
  /\ fmt' = fmt /\ args' = args /\ taken' \in 0 .. Len(args)
  /\ heap' \in Seq(Nodes) /\ Grows(heap, heap')
  /\ stack' \in Seq(Begun)
  /\ SameLevels(stack, stack') \/ (stack # << >> /\ stack' = Front(stack))
  /\ str' \in Strings
  /\ ret' \in Values

LEMMA SteadyStaysInOrder ==
  ASSUME Control, Steady, Phased'
  PROVE  Control'
<1>1. Typed'
  BY DEF Typed, Steady
<1>2. ArgsFit'
  BY DEF Control, ArgsFit, Steady
<1>3. LevelsFit'
  <2>1. Fit(heap', stack')
    BY LevelsStayFit DEF Control, Typed, LevelsFit, Steady
  <2> QED
    BY <2>1 DEF LevelsFit
<1> QED
  BY <1>1, <1>2, <1>3 DEF Control

\* A call of pack returns.
LEMMA ReturnsInOrder ==
  ASSUME Control, Steady, fmt # << >>, pc' = "back", Sane(fmt, scan')
  PROVE  Control'
<1>1. Phased'
  BY DEF Phased, Control, PackPhases, Steady
<1> QED
  BY <1>1, SteadyStaysInOrder

\* What most of the steps leave as it is.
LEMMA SteadyWhereItIs ==
  ASSUME Control, fmt' = fmt, args' = args,
         taken' = taken \/ TakeArg,
         heap' = heap, stack' = stack
  PROVE  /\ taken' \in 0 .. Len(args)
         /\ heap' \in Seq(Nodes) /\ Grows(heap, heap')
         /\ stack' \in Seq(Begun) /\ SameLevels(stack, stack')
<1>1. taken' \in 0 .. Len(args)
  BY DEF Control, ArgsFit, TakeArg
<1>2. heap' \in Seq(Nodes) /\ stack' \in Seq(Begun)
  BY DEF Control, Typed
<1>3. Grows(heap, heap') /\ SameLevels(stack, stack')
  BY <1>2 DEF Control, Typed, Grows, SameLevels
<1> QED
  BY <1>1, <1>2, <1>3

LEMMA BeginsInOrder ==
  Control /\ (PackCall \/ PackCallStarved) => Control'
<1>1. ASSUME Control, PackCall PROVE Control'
  <2>1. Steady
    BY <1>1, SteadyWhereItIs DEF PackCall, Steady, Control, Typed
  <2>2. Phased'
    <3>1. fmt' = fmt /\ stack' = stack /\ ret' = ret /\ pc = "call"
      BY <1>1 DEF PackCall
    <3>2. CASE fmt = << >>
      BY <1>1, <3>1, <3>2 DEF PackCall, Phased, Control, PackPhases
    <3>3. CASE fmt # << >>
      <4>1. fmt \in Formats /\ scan' = Advanced(fmt, ScanStart) /\ pc' = "value"
        BY <1>1, <3>1, <3>3 DEF PackCall, Control, Phased, NextToken
      <4>2. Sane(fmt, scan')
        BY <4>1, StartIsSane, AdvancedIsSane
      <4>3. ret = None
        BY <1>1, <3>1 DEF Control, Phased
      <4> QED
        BY <3>1, <3>3, <4>1, <4>2, <4>3 DEF Phased, PackPhases
    <3> QED
      BY <3>2, <3>3
  <2> QED
    BY <1>1, <2>1, <2>2, SteadyStaysInOrder
<1>2. ASSUME Control, PackCallStarved PROVE Control'
  <2>1. Steady
    BY <1>2, SteadyWhereItIs DEF PackCallStarved, Starve, Steady, Control, Typed
  <2>2. Phased'
    BY <1>2 DEF PackCallStarved, Phased, Control, PackPhases
  <2> QED
    BY <1>2, <2>1, <2>2, SteadyStaysInOrder
<1> QED
  BY <1>1, <1>2

LEMMA FinishesInOrder ==
  Control /\ PackFinish => Control'
<1> SUFFICES ASSUME Control, PackFinish PROVE Control'
  OBVIOUS
<1>1. /\ fmt' = fmt /\ args' = args /\ taken' = taken /\ heap' = heap /\ stack' = stack
      /\ str' = str /\ pc' = "packed" /\ stack = << >> /\ pc = "back"
      /\ ret' \in {None, ret}
      /\ scan' \in {scan, NextToken(scan)}
  BY DEF PackFinish
<1>2. fmt # << >> /\ fmt \in Formats
  BY <1>1 DEF Control, Phased
<1>3. Steady
  <2>1. ret' \in Values /\ str' \in Strings
    BY <1>1, ValuesAreTyped DEF Control, Typed
  <2> QED
    BY <1>1, <2>1, SteadyWhereItIs DEF Steady
<1>4. Sane(fmt, scan')
  BY <1>1, <1>2, Reading DEF Control, Phased
<1>5. Phased'
  BY <1>1, <1>2, <1>4 DEF Phased, PackPhases
<1> QED
  BY <1>3, <1>5, SteadyStaysInOrder

LEMMA PlainValuesInOrder ==
  Control /\ (NullValue \/ BooleanValue \/ RefValue \/ Unexpected) => Control'
<1> SUFFICES ASSUME Control, NullValue \/ BooleanValue \/ RefValue \/ Unexpected PROVE Control'
  OBVIOUS
<1>1. /\ fmt' = fmt /\ args' = args /\ heap' = heap /\ stack' = stack
      /\ str' = str /\ pc' = "back" /\ pc = "value"
      /\ taken' = taken \/ TakeArg
      /\ scan' \in {scan, PastMark({"?", "*"})}
  BY DEF NullValue, BooleanValue, RefValue, Unexpected, TakeOf, Return
<1>2. fmt # << >> /\ fmt \in Formats
  BY <1>1 DEF Control, Phased
<1>3. ret' \in Values
  <2>1. CASE RefValue
    <3> DEFINE value == IF Fits("JSON") THEN args[taken + 1].value ELSE None
    <3>1. value \in Values
      <4>1. CASE Fits("JSON")
        <5>1. taken + 1 \in 1 .. Len(args) /\ args[taken + 1].kind = "JSON"
          BY <4>1 DEF Fits, Control, ArgsFit
        <5>2. args[taken + 1].value \in {None, Given(taken + 1)}
          BY <5>1 DEF Control, ArgsFit
        <5> QED
          BY <4>1, <5>1, <5>2, ValuesAreTyped
      <4> QED
        BY <4>1, ValuesAreTyped
    <3>2. ret' \in {Null, value}
      BY <2>1 DEF RefValue, Return
    <3> HIDE DEF value
    <3> QED
      BY <3>1, <3>2, ValuesAreTyped
  <2> QED
    BY <2>1, ValuesAreTyped DEF NullValue, BooleanValue, Unexpected, Return
<1>4. Steady
  <2>1. str' \in Strings
    BY <1>1 DEF Control, Typed
  <2> QED
    BY <1>1, <1>3, <2>1, SteadyWhereItIs DEF Steady
<1>5. Sane(fmt, scan')
  BY <1>1, <1>2, Reading DEF Control, Phased
<1> QED
  BY <1>1, <1>2, <1>4, <1>5, ReturnsInOrder

\* Grows with a value that is made.
LEMMA MadeInOrder ==
  ASSUME Control, NEW kind \in Makes, NEW text \in Texts, Make(kind, text), stack' = stack
  PROVE  /\ heap' \in Seq(Nodes) /\ Grows(heap, heap') /\ Fresh \in Values
         /\ stack' \in Seq(Begun) /\ SameLevels(stack, stack')
<1>1. GrowsBy(kind)
  BY MakeGoes
<1>2. heap' \in Seq(Nodes) /\ Grows(heap, heap') /\ Fresh \in Values
  BY <1>1 DEF GrowsBy
<1>3. stack' \in Seq(Begun) /\ SameLevels(stack, stack')
  BY DEF Control, Typed, SameLevels
<1> QED
  BY <1>2, <1>3

LEMMA TakesInOrder ==
  ASSUME Control, TakeArg
  PROVE  taken' \in 0 .. Len(args)
  BY DEF Control, ArgsFit, TakeArg

LEMMA NumberInOrder ==
  Control /\ NumberValue => Control'
<1> SUFFICES ASSUME Control, NumberValue PROVE Control'
  OBVIOUS
<1>1. /\ fmt' = fmt /\ args' = args /\ stack' = stack /\ str' = str /\ scan' = scan
      /\ pc = "value" /\ TakeArg /\ pc' = "back"
      /\ \/ Make(NumberType(Token), << >>) /\ ret' = Fresh
         \/ heap' = heap /\ ret' = None
  BY DEF NumberValue, Return
<1>2. fmt # << >> /\ Sane(fmt, scan')
  BY <1>1 DEF Control, Phased
<1>3. str' \in Strings /\ taken' \in 0 .. Len(args)
  BY <1>1, TakesInOrder DEF Control, Typed
<1>4. Steady
  <2>1. CASE Make(NumberType(Token), << >>) /\ ret' = Fresh
    <3>1. NumberType(Token) \in Makes /\ << >> \in Texts
      BY DEF NumberType, Makes, Texts
    <3>2. /\ heap' \in Seq(Nodes) /\ Grows(heap, heap') /\ Fresh \in Values
          /\ stack' \in Seq(Begun) /\ SameLevels(stack, stack')
      BY <1>1, <2>1, <3>1, MadeInOrder
    <3>3. ret' \in Values
      BY <2>1, <3>2
    <3> QED
      BY <1>1, <1>3, <3>2, <3>3 DEF Steady
  <2>2. CASE heap' = heap /\ ret' = None
    BY <1>1, <1>3, <2>2, SteadyWhereItIs, ValuesAreTyped DEF Steady
  <2> QED
    BY <1>1, <2>1, <2>2
<1> QED
  BY <1>1, <1>2, <1>4, ReturnsInOrder

LEMMA StringBegunInOrder ==
  Control /\ (StringValue \/ NextKey) => Control'
<1> SUFFICES ASSUME Control, StringValue \/ NextKey PROVE Control'
  OBVIOUS
<1>0. /\ NextKey => /\ fmt' = fmt /\ args' = args /\ heap' = heap /\ stack' = stack
                     /\ taken' = taken /\ ret' = ret /\ pc' = "string" /\ pc = "items"
                     /\ scan' = scan
      /\ NextKey => str' = String("key", "no")
  BY Zenon DEF NextKey
<1>1. /\ fmt' = fmt /\ args' = args /\ heap' = heap /\ stack' = stack /\ taken' = taken
      /\ ret' = ret /\ pc' = "string" /\ pc \in {"value", "items"}
      /\ scan' \in {scan, PastMark({"?", "*"})}
  BY <1>0 DEF StringValue
<1>2. fmt # << >> /\ fmt \in Formats /\ Sane(fmt, scan')
  BY <1>1, Reading DEF Control, Phased
<1>3. str' \in Strings /\ str'.use \in {"value", "key"}
      /\ (str'.use = "key" => NextKey /\ str'.mark = "no")
  <2>1. CASE NextKey
    <3>1. str' = [use |-> "key", mark |-> "no", text |-> << >>] /\ << >> \in Texts
      BY <1>0, <2>1 DEF String, Texts
    <3> QED
      BY <2>1, <3>1 DEF Strings
  <2>2. CASE StringValue
    <3>1. /\ str' = [use |-> "value", mark |-> MarkIn({"?", "*"}), text |-> << >>]
          /\ << >> \in Texts /\ MarkIn({"?", "*"}) \in {"no", "?", "*"}
      BY <2>2 DEF StringValue, String, MarkIn, Texts
    <3> QED
      BY <3>1 DEF Strings
  <2> QED
    BY <2>1, <2>2
<1>4. Steady
  BY <1>1, <1>3, SteadyWhereItIs DEF Steady, Control, Typed
<1>5. Phased'
  <2>1. ret = None
    BY <1>1 DEF Control, Phased
  <2>2. NextKey => stack # << >> /\ ~Last(stack).own
    BY <1>0 DEF Control, Phased
  <2> QED
    BY <1>1, <1>2, <1>3, <2>1, <2>2 DEF Phased, PackPhases
<1> QED
  BY <1>4, <1>5, SteadyStaysInOrder

\* The end of a string, which was a value or a key.
LEMMA StringReadInOrder ==
  ASSUME Control, pc \in {"string", "joined"}, fmt' = fmt, args' = args, taken' \in 0 .. Len(args),
         NEW text \in Texts, NEW own \in BOOLEAN, NEW s, Sane(fmt, s), NEW fails, NEW lost,
         StringRead(text, own, s, fails, lost)
  PROVE  Control'
<1>0. fmt # << >> /\ fmt \in Formats
  BY DEF Control, Phased
<1>1. str' = NoString /\ str' \in Strings
  BY TextsAreTyped DEF StringRead
<1>2. CASE str.use = "key"
  <2>1. /\ scan' = PushedBack(NextToken(NextToken(s)))
        /\ stack' = [stack EXCEPT ![Len(stack)].key = text, ![Len(stack)].own = own,
                          ![Len(stack)].opt = TokenOf(NextToken(NextToken(s)))]
        /\ pc' = "value" /\ ret' = ret /\ heap' = heap
    BY <1>2 DEF StringRead
  <2>2. stack # << >> /\ ret = None
    BY <1>2 DEF Control, Phased
  <2>3. TokenOf(NextToken(NextToken(s))) \in Chars
    BY <1>0, CharsAreTyped DEF TokenOf
  <2>4. stack \in Seq(Begun)
    BY DEF Control, Typed
  <2>5. stack' \in Seq(Begun) /\ SameLevels(stack, stack')
    <3> DEFINE opt == TokenOf(NextToken(NextToken(s)))
    <3>1. stack' = Keyed(stack, text, own, opt)
      BY <2>1 DEF Keyed
    <3>2. opt \in Chars
      BY <2>3
    <3> HIDE DEF opt
    <3>3. LET t == Keyed(stack, text, own, opt)
          IN t \in Seq(Begun) /\ SameLevels(stack, t)
      BY <2>2, <2>4, <3>2, NewKey
    <3> QED
      BY <3>1, <3>3
  <2>6. Steady
    <3>1. heap' \in Seq(Nodes) /\ Grows(heap, heap') /\ ret' \in Values
      BY <2>1 DEF Control, Typed, Grows
    <3> QED
      BY <1>1, <2>5, <3>1 DEF Steady
  <2>7. Sane(fmt, scan')
    BY <1>0, <2>1, ScannerGoes DEF NextToken
  <2>8. Phased'
    BY <1>0, <2>1, <2>2, <2>7 DEF Phased, PackPhases
  <2> QED
    BY <2>6, <2>8, SteadyStaysInOrder
<1>3. CASE str.use # "key"
  <2>1. /\ scan' = s /\ stack' = stack /\ pc' = "back"
        /\ \/ ret' \in {Null, None} /\ heap' = heap
           \/ Make("string", text) /\ ret' = Fresh
    BY <1>3 DEF StringRead, Return
  <2>2. Steady
    <3>1. CASE ret' \in {Null, None} /\ heap' = heap
      <4>1. heap' \in Seq(Nodes) /\ Grows(heap, heap') /\ stack' \in Seq(Begun) /\ SameLevels(stack, stack')
        BY <2>1, <3>1 DEF Control, Typed, Grows, SameLevels
      <4>2. ret' \in Values
        BY <3>1, ValuesAreTyped
      <4> QED
        BY <1>1, <4>1, <4>2 DEF Steady
    <3>2. CASE Make("string", text) /\ ret' = Fresh
      <4>0. "string" \in Makes
        BY Zenon DEF Makes
      <4>1. /\ heap' \in Seq(Nodes) /\ Grows(heap, heap') /\ Fresh \in Values
            /\ stack' \in Seq(Begun) /\ SameLevels(stack, stack')
        BY <2>1, <3>2, <4>0, MadeInOrder
      <4>2. ret' \in Values
        BY <3>2, <4>1
      <4> QED
        BY <1>1, <4>1, <4>2 DEF Steady
    <3> QED
      BY <2>1, <3>1, <3>2
  <2> QED
    BY <1>0, <2>1, <2>2, ReturnsInOrder
<1> QED
  BY <1>2, <1>3

\* The text of an argument.
LEMMA ArgumentIsText ==
  ASSUME Control
  PROVE  (IF Fits("CSTR") THEN args[taken + 1].value ELSE NoText) \in Texts
<1>1. ASSUME Fits("CSTR") PROVE args[taken + 1].value \in Texts
  <2>1. taken + 1 \in 1 .. Len(args) /\ args[taken + 1].kind = "CSTR"
    BY <1>1 DEF Fits, Control, ArgsFit
  <2> QED
    BY <2>1 DEF Control, ArgsFit
<1> QED
  BY <1>1, TextsAreTyped

LEMMA PlainStringInOrder ==
  Control /\ (PlainString \/ OptionalWithModifier) => Control'
<1>1. ASSUME Control, PlainString PROVE Control'
  <2> DEFINE text == IF Fits("CSTR") THEN args[taken + 1].value ELSE NoText
             bad == text # NoText /\ ~IsUtf8(text)
             fails == failed \/ ~Fits("CSTR") \/ (text = NoText /\ ~Optional) \/ bad
             read == IF bad THEN NoText ELSE text
  <2>1. /\ pc = "string" /\ TakeArg /\ fmt' = fmt /\ args' = args
        /\ StringRead(read, FALSE, Looked, fails, 0)
    BY <1>1 DEF PlainString
  <2>2. text \in Texts
    BY <1>1, ArgumentIsText
  <2> HIDE DEF text, bad, fails
  <2>3. read \in Texts
    BY <2>2, TextsAreTyped
  <2> HIDE DEF read
  <2>4. Sane(fmt, Looked)
    BY <1>1, <2>1, Reading DEF Control, Phased
  <2>5. taken' \in 0 .. Len(args)
    BY <1>1, <2>1, TakesInOrder
  <2> QED
    BY <1>1, <2>1, <2>3, <2>4, <2>5, StringReadInOrder
<1>2. ASSUME Control, OptionalWithModifier PROVE Control'
  <2>1. /\ pc = "string" /\ taken' = taken /\ fmt' = fmt /\ args' = args
        /\ StringRead(NoText, FALSE, Looked, TRUE, 0)
    BY <1>2 DEF OptionalWithModifier
  <2>2. Sane(fmt, Looked)
    BY <1>2, <2>1, Reading DEF Control, Phased
  <2>3. taken' \in 0 .. Len(args)
    BY <1>2, <2>1 DEF Control, ArgsFit
  <2> QED
    BY <1>2, <2>1, <2>2, <2>3, TextsAreTyped, StringReadInOrder
<1> QED
  BY <1>1, <1>2

LEMMA JoinStartInOrder ==
  Control /\ JoinStart => Control'
<1> SUFFICES ASSUME Control, JoinStart PROVE Control'
  OBVIOUS
<1>1. /\ pc = "string" /\ fmt' = fmt /\ args' = args /\ taken' = taken
      /\ fmt # << >> /\ Sane(fmt, Looked)
  <2>1. pc = "string" /\ fmt' = fmt /\ args' = args /\ taken' = taken
    BY DEF JoinStart
  <2> QED
    BY <2>1, Reading DEF Control, Phased
<1>2. CASE StringRead(NoText, FALSE, Looked, TRUE, 1)
  <2>1. taken' \in 0 .. Len(args)
    BY <1>1 DEF Control, ArgsFit
  <2> QED
    BY <1>1, <1>2, <2>1, TextsAreTyped, StringReadInOrder
<1>3. CASE /\ pc' = "parts" /\ scan' = Looked /\ str' = str /\ stack' = stack /\ ret' = ret /\ heap' = heap
  <2>1. Steady
    BY <1>1, <1>3, SteadyWhereItIs DEF Steady, Control, Typed
  <2>2. Phased'
    BY <1>1, <1>3 DEF Phased, Control, PackPhases
  <2> QED
    BY <2>1, <2>2, SteadyStaysInOrder
<1>4. StringRead(NoText, FALSE, Looked, TRUE, 1)
      \/ /\ pc' = "parts" /\ scan' = Looked /\ str' = str /\ stack' = stack /\ ret' = ret /\ heap' = heap
  <2>1. JoinStart => \/ pc' = "parts" /\ scan' = Looked /\ UNCHANGED <<stack, str, ret, heap>>
                     \/ StringRead(NoText, FALSE, Looked, TRUE, 1)
    BY DEF JoinStart, StringRead
  <2> QED
    BY <2>1
<1> QED
  BY <1>2, <1>3, <1>4

LEMMA JoinPartInOrder ==
  Control /\ JoinPart => Control'
<1> SUFFICES ASSUME Control, JoinPart PROVE Control'
  OBVIOUS
<1> DEFINE text == IF Fits("CSTR") THEN args[taken + 1].value ELSE NoText
           s == NextToken(scan)
           measured == TokenOf(s) \in DOMAIN LengthKind
           x == IF measured THEN s ELSE PushedBack(s)
           t == NextToken(x)
<1>1. /\ pc = "parts" /\ fmt' = fmt /\ args' = args /\ heap' = heap /\ stack' = stack /\ ret' = ret
      /\ pc' \in {"parts", "joined"}
      /\ taken' = IF measured /\ taken + 1 < Len(args) THEN taken + 2
                  ELSE IF taken < Len(args) THEN taken + 1 ELSE taken
      /\ scan' \in {t, PushedBack(t)}
      /\ str' = str \/ str' = [str EXCEPT !.text = @ \o text]
  BY DEF JoinPart
<1>2. fmt # << >> /\ fmt \in Formats /\ Sane(fmt, scan)
  BY <1>1 DEF Control, Phased
<1>3. Sane(fmt, scan')
  <2>1. Sane(fmt, x)
    BY <1>2, ScannerGoes DEF NextToken
  <2> HIDE DEF x
  <2> QED
    BY <1>1, <1>2, <2>1, ScannerGoes DEF NextToken
<1>4. taken' \in 0 .. Len(args)
  <2> HIDE DEF measured
  <2> QED
    BY <1>1 DEF Control, ArgsFit
<1>5. str' \in Strings /\ str'.use = str.use /\ str'.mark = str.mark
  <2>1. text \in Texts
    BY ArgumentIsText
  <2>2. str \in Strings /\ str.text \in Texts
    BY DEF Control, Typed, Strings
  <2> HIDE DEF text
  <2>3. str.text \o text \in Texts
    BY <2>1, <2>2 DEF Texts
  <2>4. [str EXCEPT !.text = str.text \o text] \in Strings
    BY <2>2, <2>3 DEF Strings
  <2> QED
    BY <1>1, <2>2, <2>4 DEF Strings
<1> HIDE DEF text, s, measured, x, t
<1>6. Steady
  <2>1. heap' \in Seq(Nodes) /\ Grows(heap, heap') /\ stack' \in Seq(Begun) /\ SameLevels(stack, stack')
    BY <1>1 DEF Control, Typed, Grows, SameLevels
  <2>2. ret' \in Values
    BY <1>1 DEF Control, Typed
  <2> QED
    BY <1>1, <1>4, <1>5, <2>1, <2>2 DEF Steady
<1>7. Phased'
  BY <1>1, <1>2, <1>3, <1>5 DEF Phased, Control, PackPhases
<1> QED
  BY <1>6, <1>7, SteadyStaysInOrder

LEMMA JoinEndInOrder ==
  Control /\ JoinEnd => Control'
<1> SUFFICES ASSUME Control, JoinEnd PROVE Control'
  OBVIOUS
<1> DEFINE bad == ~failed /\ ~IsUtf8(str.text)
           text == IF failed \/ bad THEN NoText ELSE str.text
           own == ~failed /\ ~bad
           fails == failed \/ bad
<1>1. /\ pc = "joined" /\ fmt' = fmt /\ args' = args /\ taken' = taken
      /\ StringRead(text, own, scan, fails, 0)
  BY DEF JoinEnd
<1>2. text \in Texts /\ Sane(fmt, scan) /\ taken' \in 0 .. Len(args)
  BY <1>1, TextsAreTyped DEF Control, Typed, Strings, ArgsFit, Phased
<1>3. own \in BOOLEAN
  OBVIOUS
<1> HIDE DEF bad, text, own, fails
<1> QED
  BY <1>1, <1>2, <1>3, StringReadInOrder

\* A container that is begun.
NewFrame(of, node) == [of |-> of, node |-> node, key |-> NoText, own |-> FALSE, opt |-> "no"]

LEMMA FramesAreTyped ==
  ASSUME NEW of \in Brackets, NEW node \in Nat
  PROVE  /\ NewFrame(of, node) \in Begun
         /\ NewFrame(of, node).of = of /\ NewFrame(of, node).node = node
         /\ NewFrame(of, node).own = FALSE
<1>1. NoText \in Texts /\ "no" \in Chars
  BY TextsAreTyped DEF Chars
<1> QED
  BY <1>1 DEF NewFrame, Begun

LEMMA BracketsAreMade ==
  /\ Brackets \subseteq Makes
  /\ Open => Token \in Brackets
  BY Zenon DEF Brackets, Makes, Open

\* The two ways a container is begun.
LEMMA OpenIs ==
  ASSUME Open
  PROVE  /\ pc = "value" /\ fmt' = fmt /\ args' = args /\ taken' = taken /\ str' = str
         /\ failed' = failed /\ buffers' = buffers /\ held' = held /\ err' = err
         /\ \/ /\ Make(Token, << >>)
               /\ stack' = Append(stack, NewFrame(Token, Len(heap) + 1))
               /\ scan' = NextToken(scan) /\ pc' = "items" /\ ret' = ret /\ strayed' = strayed
            \/ /\ strayed' = TRUE /\ pc' = "back" /\ ret' = None
               /\ scan' = scan /\ stack' = stack /\ heap' = heap /\ live' = live
<1>1. Open =>
         /\ pc = "value" /\ fmt' = fmt /\ args' = args /\ taken' = taken /\ str' = str
         /\ failed' = failed /\ buffers' = buffers /\ held' = held /\ err' = err
         /\ \/ /\ Make(Token, << >>)
               /\ stack' = Append(stack, NewFrame(Token, Len(heap) + 1))
               /\ scan' = NextToken(scan) /\ pc' = "items" /\ ret' = ret /\ strayed' = strayed
            \/ /\ strayed' = TRUE /\ pc' = "back" /\ ret' = None
               /\ scan' = scan /\ stack' = stack /\ heap' = heap /\ live' = live
  BY Zenon DEF Open, NewFrame, Return
<1> QED
  BY <1>1

LEMMA LevelsStayFitAbove ==
  ASSUME NEW h \in Seq(Nodes), NEW g \in Seq(Nodes), NEW s \in Seq(Begun), NEW frame \in Begun,
         Fit(h, s), Grows(h, g),
         frame.node \in 1 .. Len(g), g[frame.node].of = frame.of
  PROVE  Fit(g, Append(s, frame))
<1>1. Fit(g, s)
  BY LevelsStayFit DEF SameLevels
<1>2. /\ Len(Append(s, frame)) = Len(s) + 1 /\ Append(s, frame)[Len(s) + 1] = frame
      /\ \A i \in 1 .. Len(s) : Append(s, frame)[i] = s[i]
  OBVIOUS
<1>3. \A i \in 1 .. Len(s) + 1 : i \in 1 .. Len(s) \/ i = Len(s) + 1
  OBVIOUS
<1> QED
  BY <1>1, <1>2, <1>3 DEF Fit

LEMMA OpenInOrder ==
  Control /\ Open => Control'
<1> SUFFICES ASSUME Control, Open PROVE Control'
  OBVIOUS
<1>1. /\ pc = "value" /\ fmt' = fmt /\ args' = args /\ taken' = taken /\ str' = str
      /\ fmt # << >> /\ fmt \in Formats /\ ret = None /\ Sane(fmt, scan)
  BY OpenIs DEF Control, Phased
<1>2. CASE /\ Make(Token, << >>)
           /\ stack' = Append(stack, NewFrame(Token, Len(heap) + 1))
           /\ scan' = NextToken(scan) /\ pc' = "items" /\ ret' = ret
  <2>1. Token \in Brackets /\ Token \in Makes /\ << >> \in Texts
    BY BracketsAreMade DEF Texts
  <2>2. GrowsBy(Token)
    BY <1>2, <2>1, MakeGoes
  <2> DEFINE frame == NewFrame(Token, Len(heap) + 1)
  <2>3. Len(heap) + 1 \in Nat /\ stack \in Seq(Begun) /\ heap \in Seq(Nodes)
    BY DEF Control, Typed
  <2>4. frame \in Begun /\ frame.of = Token /\ frame.node = Len(heap) + 1 /\ frame.own = FALSE
    BY <2>1, <2>3, FramesAreTyped
  <2> HIDE DEF frame
  <2>5. /\ stack' = Append(stack, frame) /\ stack' \in Seq(Begun) /\ stack' # << >>
        /\ Last(stack') = frame
    <3>1. stack' = Append(stack, frame)
      BY <1>2 DEF frame
    <3> QED
      BY <2>3, <2>4, <3>1 DEF Last
  <2>6. Typed'
    BY <1>1, <1>2, <2>2, <2>5 DEF GrowsBy, Typed, Control
  <2>7. ArgsFit'
    BY <1>1 DEF Control, ArgsFit
  <2>8. LevelsFit'
    <3>1. frame.node \in 1 .. Len(heap') /\ heap'[frame.node].of = frame.of
      BY <2>2, <2>3, <2>4 DEF GrowsBy
    <3>2. Fit(heap', Append(stack, frame))
      BY <2>2, <2>3, <2>4, <3>1, LevelsStayFitAbove DEF GrowsBy, Control, LevelsFit
    <3> QED
      BY <2>5, <3>2 DEF LevelsFit
  <2>9. Phased'
    <3>1. Sane(fmt, scan')
      BY <1>1, <1>2, ScannerGoes DEF NextToken
    <3> QED
      BY <1>1, <1>2, <2>4, <2>5, <3>1 DEF Phased, PackPhases
  <2> QED
    BY <2>6, <2>7, <2>8, <2>9 DEF Control
<1>3. CASE /\ pc' = "back" /\ ret' = None
           /\ scan' = scan /\ stack' = stack /\ heap' = heap
  <2>1. Steady
    BY <1>1, <1>3, SteadyWhereItIs, ValuesAreTyped DEF Steady, Control, Typed
  <2> QED
    BY <1>1, <1>3, <2>1, ReturnsInOrder
<1> QED
  BY <1>2, <1>3, OpenIs

\* A level ends.
LEMMA LevelEndsInOrder ==
  Control /\ (Close \/ Broken) => Control'
<1> SUFFICES ASSUME Control, Close \/ Broken PROVE Control'
  OBVIOUS
<1>1. /\ pc = "items" /\ fmt' = fmt /\ args' = args /\ taken' = taken /\ str' = str
      /\ scan' = scan /\ heap' = heap /\ stack' = Front(stack) /\ pc' = "back"
      /\ ret' = None \/ ret' = Node(Top.node)
  <2>1. Close =>
        /\ pc = "items" /\ fmt' = fmt /\ args' = args /\ taken' = taken /\ str' = str
        /\ scan' = scan /\ heap' = heap /\ stack' = Front(stack) /\ pc' = "back"
        /\ ret' = None \/ ret' = Node(Top.node)
    BY DEF Close, Return
  <2>2. Broken =>
        /\ pc = "items" /\ fmt' = fmt /\ args' = args /\ taken' = taken /\ str' = str
        /\ scan' = scan /\ heap' = heap /\ stack' = Front(stack) /\ pc' = "back"
        /\ ret' = None
    BY Zenon DEF Broken, Return
  <2> QED
    BY <2>1, <2>2
<1>2. stack # << >> /\ fmt # << >> /\ Sane(fmt, scan')
  BY <1>1 DEF Control, Phased
<1>3. Steady
  <2>1. stack' \in Seq(Begun)
    BY <1>1, <1>2, FrontAndLast DEF Control, Typed
  <2>2. Top.node \in Nat
    BY <1>2, TopIsBegun
  <2>3. ret' \in Values
    BY <1>1, <2>2, ValuesAreTyped
  <2>4. heap' \in Seq(Nodes) /\ Grows(heap, heap') /\ str' \in Strings /\ taken' \in 0 .. Len(args)
    BY <1>1 DEF Control, Typed, Grows, ArgsFit
  <2> QED
    BY <1>1, <1>2, <2>1, <2>3, <2>4 DEF Steady
<1> QED
  BY <1>1, <1>2, <1>3, ReturnsInOrder

LEMMA NextItemInOrder ==
  Control /\ NextItem => Control'
<1> SUFFICES ASSUME Control, NextItem PROVE Control'
  OBVIOUS
<1>1. /\ pc = "items" /\ fmt' = fmt /\ args' = args /\ taken' = taken /\ str' = str
      /\ heap' = heap /\ ret' = ret /\ pc' = "value" /\ scan' = Looked
      /\ stack' = Marked(stack, LookAhead)
  BY Zenon DEF NextItem, Marked
<1>2. stack # << >> /\ fmt # << >> /\ ret = None
  BY <1>1 DEF Control, Phased
<1>3. Sane(fmt, scan') /\ LookAhead \in Chars
  BY <1>1, <1>2, Reading
<1>4. stack' \in Seq(Begun) /\ SameLevels(stack, stack')
  BY <1>1, <1>2, <1>3, NewMark DEF Control, Typed
<1>5. Steady
  <2>1. heap' \in Seq(Nodes) /\ Grows(heap, heap') /\ str' \in Strings /\ ret' \in Values
        /\ taken' \in 0 .. Len(args)
    BY <1>1 DEF Control, Typed, Grows, ArgsFit
  <2> QED
    BY <1>1, <1>4, <2>1 DEF Steady
<1>6. Phased'
  BY <1>1, <1>2, <1>3 DEF Phased, Control, PackPhases
<1> QED
  BY <1>5, <1>6, SteadyStaysInOrder

\* What came back has been dealt with.
LEMMA ItemDoneInOrder ==
  ASSUME Control, ItemDone, pc = "back", stack # << >>, heap' \in Seq(Nodes), Grows(heap, heap')
  PROVE  Control'
<1>1. /\ fmt' = fmt /\ args' = args /\ taken' = taken /\ str' = str
      /\ scan' = NextToken(scan) /\ pc' = "items" /\ ret' = None
      /\ stack' = Keyed(stack, NoText, FALSE, "no")
  BY DEF ItemDone, Keyed
<1>2. fmt # << >> /\ Sane(fmt, scan')
  BY <1>1, Reading DEF Control, Phased
<1>3. stack' \in Seq(Begun) /\ SameLevels(stack, stack') /\ stack' # << >> /\ ~Last(stack').own
  <2>1. NoText \in Texts /\ "no" \in Chars /\ stack \in Seq(Begun)
    BY TextsAreTyped DEF Chars, Control, Typed
  <2>2. LET t == Keyed(stack, NoText, FALSE, "no")
        IN t \in Seq(Begun) /\ SameLevels(stack, t) /\ t # << >> /\ Last(t).own = FALSE
    BY <2>1, NewKey
  <2> QED
    BY <1>1, <2>2
<1>4. Steady
  <2>1. str' \in Strings /\ ret' \in Values /\ taken' \in 0 .. Len(args)
    BY <1>1, ValuesAreTyped DEF Control, Typed, ArgsFit
  <2> QED
    BY <1>1, <1>3, <2>1 DEF Steady
<1>5. Phased'
  BY <1>1, <1>2, <1>3, Reading DEF Phased, Control, PackPhases
<1> QED
  BY <1>4, <1>5, SteadyStaysInOrder

PutOut == IF Top.of = "{" THEN Replaced(Contents, Top.key) ELSE {}

LEMMA PutIs ==
  ASSUME Control, Put
  PROVE  /\ pc = "back" /\ stack # << >> /\ ret # None /\ ~failed /\ ItemDone
         /\ \/ /\ heap' = WithKids(heap, Top.node, PutKids)
               /\ Release(PutOut)
               /\ failed' = failed
            \/ /\ heap' = heap
               /\ Release({ret})
<1>1. Put =>
         /\ pc = "back" /\ stack # << >> /\ ret # None /\ ~failed /\ ItemDone
         /\ \/ /\ heap' = WithKids(heap, Top.node, PutKids)
               /\ Release(PutOut)
               /\ failed' = failed
            \/ /\ heap' = heap
               /\ Release({ret})
  BY Zenon DEF Put, WithKids, PutKids, PutOut
<1> QED
  BY Zenon, <1>1

LEMMA ItemsInOrder ==
  Control /\ (NothingCame \/ CameAfterError \/ Put) => Control'
<1> SUFFICES ASSUME Control, NothingCame \/ CameAfterError \/ Put PROVE Control'
  OBVIOUS
<1>1. pc = "back" /\ stack # << >> /\ ItemDone
      /\ (heap' = heap \/ heap' = WithKids(heap, Top.node, PutKids))
  <2>1. CASE NothingCame
    <3>1. NothingCame => pc = "back" /\ stack # << >> /\ ItemDone /\ heap' = heap
      BY Zenon DEF NothingCame
    <3> QED
      BY <2>1, <3>1
  <2>2. CASE CameAfterError
    BY <2>2 DEF CameAfterError
  <2>3. CASE Put
    BY <2>3, PutIs
  <2> QED
    BY <2>1, <2>2, <2>3
<1>2. heap' \in Seq(Nodes) /\ Grows(heap, heap')
  <2>1. CASE heap' = heap
    BY <2>1 DEF Control, Typed, Grows
  <2>2. CASE heap' = WithKids(heap, Top.node, PutKids)
    BY <1>1, <2>2, PutGoes
  <2> QED
    BY <1>1, <2>1, <2>2
<1> QED
  BY <1>1, <1>2, ItemDoneInOrder

\* Every step of the call keeps its state in order.
LEMMA PackStaysInOrder ==
  ASSUME Control, PackNext
  PROVE  Control'
<1>1. CASE PackCall \/ PackCallStarved
  BY <1>1, BeginsInOrder
<1>2. CASE PackFinish
  BY <1>2, FinishesInOrder
<1>3. CASE NullValue \/ BooleanValue \/ RefValue \/ Unexpected
  BY <1>3, PlainValuesInOrder
<1>4. CASE NumberValue
  BY <1>4, NumberInOrder
<1>5. CASE StringValue \/ NextKey
  BY <1>5, StringBegunInOrder
<1>6. CASE PlainString \/ OptionalWithModifier
  BY <1>6, PlainStringInOrder
<1>7. CASE JoinStart
  BY <1>7, JoinStartInOrder
<1>8. CASE JoinPart
  BY <1>8, JoinPartInOrder
<1>9. CASE JoinEnd
  BY <1>9, JoinEndInOrder
<1>10. CASE Open
  BY <1>10, OpenInOrder
<1>11. CASE Close \/ Broken
  BY <1>11, LevelEndsInOrder
<1>12. CASE NextItem
  BY <1>12, NextItemInOrder
<1>13. CASE NothingCame \/ CameAfterError \/ Put
  BY <1>13, ItemsInOrder
<1> QED
  BY <1>1, <1>2, <1>3, <1>4, <1>5, <1>6, <1>7, <1>8, <1>9, <1>10, <1>11, <1>12, <1>13 DEF PackNext

-----------------------------------------------------------------------------
(* The packer and the shim go through the format side by side.             *)

Curly(bracket) == bracket = "{"

OpensOf(s) == [i \in 1 .. Len(s) |-> s[i].of]

LEMMA OpensOfBegun ==
  ASSUME NEW s \in Seq(Begun)
  PROVE  /\ OpensOf(s) \in Seq(Brackets) /\ Len(OpensOf(s)) = Len(s)
         /\ \A i \in 1 .. Len(s) : OpensOf(s)[i] = s[i].of
<1>1. ASSUME NEW i \in 1 .. Len(s) PROVE s[i].of \in Brackets
  <2>1. s[i] \in Begun
    OBVIOUS
  <2> QED
    BY <2>1 DEF Begun
<1> QED
  BY <1>1 DEF OpensOf

LEMMA OpensStay ==
  ASSUME NEW s \in Seq(Begun), NEW t \in Seq(Begun), SameLevels(s, t)
  PROVE  OpensOf(t) = OpensOf(s)
  BY DEF SameLevels, OpensOf

LEMMA OpensGrow ==
  ASSUME NEW s \in Seq(Begun), NEW frame \in Begun
  PROVE  OpensOf(Append(s, frame)) = Append(OpensOf(s), frame.of)
<1> DEFINE t == Append(s, frame)
           a == OpensOf(t)
           b == Append(OpensOf(s), frame.of)
<1>1. t \in Seq(Begun) /\ Len(t) = Len(s) + 1 /\ t[Len(s) + 1] = frame
      /\ \A i \in 1 .. Len(s) : t[i] = s[i]
  OBVIOUS
<1> HIDE DEF t
<1>2. a \in Seq(Brackets) /\ Len(a) = Len(t) /\ \A i \in 1 .. Len(t) : a[i] = t[i].of
  BY <1>1, OpensOfBegun
<1>3. /\ OpensOf(s) \in Seq(Brackets) /\ Len(OpensOf(s)) = Len(s)
      /\ \A i \in 1 .. Len(s) : OpensOf(s)[i] = s[i].of
  BY OpensOfBegun
<1>4. frame.of \in Brackets
  BY DEF Begun
<1>5. /\ b \in Seq(Brackets) /\ Len(b) = Len(s) + 1 /\ b[Len(s) + 1] = frame.of
      /\ \A i \in 1 .. Len(s) : b[i] = s[i].of
  BY <1>3, <1>4
<1> HIDE DEF a, b
<1>6. \A i \in 1 .. Len(s) + 1 : i \in 1 .. Len(s) \/ i = Len(s) + 1
  OBVIOUS
<1>7. \A i \in 1 .. Len(a) : a[i] = b[i]
  BY <1>1, <1>2, <1>5, <1>6
<1>8. a = b
  BY <1>1, <1>2, <1>5, <1>7
<1> QED
  BY <1>8 DEF a, b, t

LEMMA OpensShrink ==
  ASSUME NEW s \in Seq(Begun), s # << >>
  PROVE  /\ OpensOf(Front(s)) = Front(OpensOf(s))
         /\ OpensOf(s) # << >> /\ Last(OpensOf(s)) = Last(s).of
<1>1. /\ OpensOf(s) \in Seq(Brackets) /\ Len(OpensOf(s)) = Len(s)
      /\ \A i \in 1 .. Len(s) : OpensOf(s)[i] = s[i].of
  BY OpensOfBegun
<1>2. /\ Len(s) \in Nat \ {0} /\ Front(s) \in Seq(Begun) /\ Len(Front(s)) = Len(s) - 1
      /\ \A i \in 1 .. Len(s) - 1 : Front(s)[i] = s[i]
      /\ Last(s) = s[Len(s)]
  BY FrontAndLast
<1>3. OpensOf(s) # << >>
  BY <1>1, <1>2
<1>4. /\ Front(OpensOf(s)) \in Seq(Brackets) /\ Len(Front(OpensOf(s))) = Len(s) - 1
      /\ \A i \in 1 .. Len(s) - 1 : Front(OpensOf(s))[i] = OpensOf(s)[i]
      /\ Last(OpensOf(s)) = OpensOf(s)[Len(s)]
  BY <1>1, <1>3, FrontAndLast
<1>5. /\ OpensOf(Front(s)) \in Seq(Brackets) /\ Len(OpensOf(Front(s))) = Len(s) - 1
      /\ \A i \in 1 .. Len(s) - 1 : OpensOf(Front(s))[i] = Front(s)[i].of
  BY <1>2, OpensOfBegun
<1>6. \A i \in 1 .. Len(s) - 1 : i \in 1 .. Len(s)
  BY <1>2
<1>7. \A i \in 1 .. Len(s) - 1 : OpensOf(Front(s))[i] = Front(OpensOf(s))[i]
  BY <1>1, <1>2, <1>4, <1>5, <1>6
<1>8. OpensOf(Front(s)) = Front(OpensOf(s))
  BY <1>4, <1>5, <1>7
<1>9. Last(OpensOf(s)) = Last(s).of
  BY <1>1, <1>2, <1>4
<1> QED
  BY <1>3, <1>8, <1>9

\* The shim in a bracket, by the kind of the bracket.
LEMMA ItemsGo ==
  ASSUME NEW f \in Formats, NEW m, ShimOK(f, m), m.at = "items", m.open # << >>
  PROVE  LET r == PackShimStep(f, m)
             tok == m.scan.tok
             c == CharOf(f, tok)
             of == Last(m.open)
         IN /\ c = Closes(of) => ShimPast(f, r, tok, Front(m.open), m.list)
            /\ c # Closes(of) /\ (c = "end" \/ (Curly(of) /\ c # "s")) => ShimStopped(f, r, m.list)
            /\ c # Closes(of) /\ c # "end" /\ ~Curly(of) =>
                 ShimIs(f, r, tok, m.open, "value", m.list)
            /\ c = "s" /\ Curly(of) =>
                 IF Behind(f, tok) \in Modifiers
                 THEN ShimIs(f, r, tok, m.open, "key-part", m.list)
                 ELSE ShimIs(f, r, NextPlace(f, tok), m.open, "value",
                             Append(m.list, Entry("CSTR", "s")))
<1> DEFINE of == Last(m.open)
           c == CharOf(f, m.scan.tok)
<1>1. of \in Brackets
  BY FrontAndLast DEF ShimOK
<1>2. /\ of \in {"{", "["} /\ (Curly(of) => of = "{") /\ (~Curly(of) => of = "[")
  BY Zenon, <1>1 DEF Brackets, Curly
<1>3. c = "s" => c # Closes(of) /\ c # "end"
  BY Zenon DEF Closes
<1>4. Curly(of) => of # "["
  BY Zenon DEF Curly
<1> QED
  BY Zenon, <1>2, <1>3, <1>4, PackItemsGo DEF Curly

OnRun(f, m) == \E n \in 0 .. Steps(f) : m = TheRun(f)[n]

LEMMA RunIsListed ==
  ASSUME NEW f \in Formats, NEW m, OnRun(f, m)
  PROVE  /\ ShimOK(f, m) /\ ShimShape(m) /\ Extends(m.list, PackKinds(f))
         /\ m.at \in {"done", "stop"} => m.list = PackKinds(f)
         /\ m.list = PackKinds(f) \/ OnRun(f, PackShimStep(f, m))
<1>1. PICK n \in 0 .. Steps(f) : m = TheRun(f)[n]
  BY DEF OnRun
<1>2. /\ ShimOK(f, m) /\ ShimShape(m) /\ Extends(m.list, PackKinds(f))
  BY <1>1, RunIsOK, RunExtends
<1>3. m.at \in {"done", "stop"} => m.list = PackKinds(f)
  BY <1>1, RunRests
<1>4. CASE n = Steps(f)
  BY <1>1, <1>2, <1>3, <1>4, TheRunIsRun
<1>5. CASE n # Steps(f)
  <2>1. Steps(f) \in Nat /\ n + 1 \in 0 .. Steps(f) /\ n < Steps(f)
    BY <1>5, TheRunIsRun
  <2>2. TheRun(f)[n + 1] = PackShimStep(f, TheRun(f)[n])
    BY <2>1, TheRunIsRun
  <2>3. OnRun(f, PackShimStep(f, m))
    BY <1>1, <2>1, <2>2 DEF OnRun
  <2> QED
    BY <1>2, <1>3, <2>3
<1> QED
  BY <1>4, <1>5

\* Where the shim is in each phase of the packer, with what it has listed taken.
At(f, m, p, s, n, tok, open) ==
  /\ n = Len(m.list)
  /\ p \in {"value", "items"} => ShimIs(f, m, tok, open, p, m.list)
  /\ p = "string" /\ s.use = "key" =>
       ShimIs(f, m, tok, open, "items", m.list) /\ Curly(Last(open)) /\ CharOf(f, tok) = "s"
  /\ p = "string" /\ s.use # "key" =>
       /\ ShimIs(f, m, m.scan.tok, open, "value", m.list)
       /\ CharOf(f, m.scan.tok) = "s"
       /\ tok = MarkEnd(f, m.scan.tok)
       /\ s.mark = IF Behind(f, m.scan.tok) \in {"?", "*"} THEN Behind(f, m.scan.tok) ELSE "no"
  /\ p = "parts" =>
       ShimIs(f, m, tok, open, IF s.use = "key" THEN "key-part" ELSE "part", m.list)
  /\ p = "joined" =>
       IF s.use = "key" THEN ShimIs(f, m, NextPlace(f, tok), open, "value", m.list)
       ELSE ShimPast(f, m, tok, open, m.list)
  /\ p = "back" => ShimPast(f, m, tok, open, m.list)

\* Each argument is taken for the place in the format that it was passed for.
Beside == \E m : OnRun(fmt, m) /\ At(fmt, m, pc, str, taken, scan.tok, OpensOf(stack))
InStep ==
  /\ pc = "call" => taken = 0
  /\ pc \notin {"call", "packed"} /\ ~strayed => taken = Len(args) \/ Beside

LEMMA ListedAreTheArguments ==
  ASSUME Control, fmt # << >>, NEW m, OnRun(fmt, m)
  PROVE  /\ Len(m.list) \in Nat /\ Len(m.list) <= Len(args)
         /\ \A k \in 1 .. Len(m.list) :
              args[k].kind = m.list[k].kind /\ args[k].from = m.list[k].from
         /\ m.at \in {"done", "stop"} => Len(m.list) = Len(args)
<1>1. fmt \in Formats
  BY DEF Control, Phased
<1>2. Extends(m.list, PackKinds(fmt)) /\ (m.at \in {"done", "stop"} => m.list = PackKinds(fmt))
  BY <1>1, RunIsListed
<1>3. /\ Len(args) = Len(PackKinds(fmt))
      /\ \A k \in 1 .. Len(args) :
           args[k].kind = PackKinds(fmt)[k].kind /\ args[k].from = PackKinds(fmt)[k].from
  BY <1>1 DEF Control, ArgsFit
<1> QED
  BY <1>2, <1>3 DEF Extends

\* The place of the shim before a step, and after it, while there are arguments left.
LEMMA Onward ==
  ASSUME Control, InStep, pc \notin {"call", "packed"}, ~strayed, taken # Len(args)
  PROVE  \E m : /\ At(fmt, m, pc, str, taken, scan.tok, OpensOf(stack))
                /\ OnRun(fmt, m) /\ OnRun(fmt, PackShimStep(fmt, m))
                /\ ShimOK(fmt, m) /\ m.at \notin {"done", "stop"}
                /\ ~ShimStopped(fmt, PackShimStep(fmt, m), m.list)
<1>0. fmt # << >> /\ fmt \in Formats
  BY DEF Control, Phased
<1>1. PICK m : OnRun(fmt, m) /\ At(fmt, m, pc, str, taken, scan.tok, OpensOf(stack))
  BY DEF InStep, Beside
<1>2. taken = Len(m.list)
  BY <1>1 DEF At
<1>3. m.list # PackKinds(fmt)
  BY <1>0, <1>2 DEF Control, ArgsFit
<1>4. ShimOK(fmt, m) /\ m.at \notin {"done", "stop"} /\ OnRun(fmt, PackShimStep(fmt, m))
  BY <1>0, <1>1, <1>3, RunIsListed
<1>5. ~ShimStopped(fmt, PackShimStep(fmt, m), m.list)
  <2>1. ASSUME ShimStopped(fmt, PackShimStep(fmt, m), m.list) PROVE FALSE
    <3>1. PackShimStep(fmt, m).list = PackKinds(fmt)
      BY <1>0, <1>4, <2>1, RunIsListed DEF ShimStopped
    <3> QED
      BY <1>3, <2>1, <3>1 DEF ShimStopped
  <2> QED
    BY <2>1
<1> QED
  BY <1>1, <1>4, <1>5

\* What is known of the shim in front of a step, and what is to be shown behind it.
AtNow(m) ==
  /\ At(fmt, m, pc, str, taken, scan.tok, OpensOf(stack))
  /\ OnRun(fmt, m) /\ OnRun(fmt, PackShimStep(fmt, m))
  /\ ShimOK(fmt, m) /\ m.at \notin {"done", "stop"}
  /\ ~ShimStopped(fmt, PackShimStep(fmt, m), m.list)
AtThen(r) == OnRun(fmt, r) /\ At(fmt, r, pc', str', taken', scan'.tok, OpensOf(stack'))

\* What is taken was passed for what takes it.
TakesRight ==
  \A k \in 1 .. Len(args) : taken < k /\ k <= taken' =>
    IF pc = "value" /\ Token \in {"o", "O"}
    THEN k = taken + 1 /\ args[k].kind = "JSON" /\ args[k].from = Token
    ELSE args[k].kind # "JSON"

Moves ==
  /\ pc \notin {"call", "packed"} /\ pc' # "call"
  /\ fmt' = fmt /\ args' = args
  /\ taken' \in Nat /\ taken <= taken' /\ taken' <= Len(args)
  /\ ~strayed' => ~strayed

LEMMA MovesInStep ==
  ASSUME Control, InStep, Moves,
         \A m : AtNow(m) /\ ~strayed' /\ taken < Len(args) => TakesRight /\ \E r : AtThen(r)
  PROVE  InStep' /\ (~strayed' => TakesRight)
<1>0. taken \in 0 .. Len(args) /\ Len(args) \in Nat
  BY DEF Control, ArgsFit
<1>1. CASE strayed'
  BY <1>1 DEF InStep, Moves
<1>2. CASE ~strayed' /\ taken = Len(args)
  <2>1. taken' = Len(args')
    BY <1>0, <1>2 DEF Moves
  <2>2. TakesRight
    BY <1>0, <1>2 DEF Moves, TakesRight
  <2> QED
    BY <2>1, <2>2 DEF InStep, Moves
<1>3. CASE ~strayed' /\ taken # Len(args)
  <2>1. PICK m : AtNow(m)
    BY <1>3, Onward DEF AtNow, Moves
  <2>2. TakesRight /\ \E r : AtThen(r)
    BY <1>0, <1>3, <2>1
  <2>3. Beside'
    BY <2>2 DEF AtThen, Beside, Moves
  <2> QED
    BY <2>2, <2>3 DEF InStep, Moves
<1> QED
  BY <1>1, <1>2, <1>3

LEMMA MovesByOne ==
  ASSUME Control, pc \notin {"call", "packed"}, pc' # "call", fmt' = fmt, args' = args,
         TakeArg \/ taken' = taken, ~strayed' => ~strayed
  PROVE  Moves /\ (TakeArg /\ taken < Len(args) => taken' = taken + 1)
  BY DEF Moves, TakeArg, Control, ArgsFit

LEMMA TakesNothing ==
  ASSUME Control, taken' = taken
  PROVE  TakesRight
  BY DEF Control, ArgsFit, TakesRight

LEMMA TakesListed ==
  ASSUME Control, fmt # << >>, ~(pc = "value" /\ Token \in {"o", "O"}),
         NEW r, OnRun(fmt, r), taken' = Len(r.list),
         \A k \in 1 .. Len(r.list) : taken < k => r.list[k].kind # "JSON"
  PROVE  TakesRight
<1>1. \A k \in 1 .. Len(r.list) : args[k].kind = r.list[k].kind
  BY ListedAreTheArguments
<1>2. Len(r.list) \in Nat
  BY ListedAreTheArguments
<1> QED
  BY <1>1, <1>2 DEF TakesRight, Control, ArgsFit

\* What one entry more is.
LEMMA OneEntryMore ==
  ASSUME NEW list \in Seq(Entries), NEW kind \in Kinds, NEW from \in Sources
  PROVE  LET more == Append(list, Entry(kind, from))
         IN /\ Len(more) = Len(list) + 1 /\ Len(list) \in Nat
            /\ more[Len(list) + 1].kind = kind /\ more[Len(list) + 1].from = from
            /\ \A k \in 1 .. Len(more) : Len(list) < k => k = Len(list) + 1
            /\ more \in Seq(Entries)
<1>1. Entry(kind, from) \in Entries /\ Entry(kind, from).kind = kind /\ Entry(kind, from).from = from
  BY DEF Entry, Entries
<1> HIDE DEF Entry
<1> QED
  BY <1>1

\* What is there when a value is read.
LEMMA AtValue ==
  ASSUME NEW m, AtNow(m), pc = "value"
  PROVE  /\ ShimOK(fmt, m) /\ m.at = "value" /\ m.scan.tok = scan.tok
         /\ m.open = OpensOf(stack) /\ taken = Len(m.list) /\ m.list \in Seq(Entries)
         /\ OnRun(fmt, PackShimStep(fmt, m))
         /\ ~ShimStopped(fmt, PackShimStep(fmt, m), m.list)
  BY DEF AtNow, At, ShimIs, ShimOK

LEMMA SameOpens ==
  ASSUME Control, stack' = stack
  PROVE  OpensOf(stack') = OpensOf(stack)
  OBVIOUS

\* A value that takes no argument, or one.
LEMMA ReturnsInStep ==
  ASSUME Control, InStep, pc = "value", pc' = "back", fmt' = fmt, args' = args, stack' = stack,
         ~strayed' => ~strayed,
         scan'.tok = IF Token \in {"o", "O"} THEN MarkEnd(fmt, scan.tok) ELSE scan.tok,
         \/ Token = "n" /\ taken' = taken
         \/ Token \in DOMAIN ShimArg /\ TakeArg
         \/ Token \in {"o", "O"} /\ TakeArg
         \/ Token \notin Brackets \cup {"s", "n", "o", "O"} \cup DOMAIN ShimArg /\ taken' = taken
  PROVE  InStep' /\ (~strayed' => TakesRight)
<1>0. fmt # << >> /\ fmt \in Formats
  BY DEF Control, Phased
<1>1. Moves /\ (TakeArg /\ taken < Len(args) => taken' = taken + 1)
  BY MovesByOne
<1>2. ASSUME NEW m, AtNow(m), taken < Len(args)
      PROVE  TakesRight /\ \E r : AtThen(r)
  <2> DEFINE r == PackShimStep(fmt, m)
             c == CharOf(fmt, scan.tok)
  <2>1. /\ ShimOK(fmt, m) /\ m.at = "value" /\ m.scan.tok = scan.tok
        /\ m.open = OpensOf(stack) /\ taken = Len(m.list) /\ m.list \in Seq(Entries)
        /\ OnRun(fmt, r) /\ ~ShimStopped(fmt, r, m.list)
    BY <1>2, AtValue
  <2>2. c = Token
    BY DEF Token, TokenOf
  <2>3. /\ c = "n" => ShimPast(fmt, r, scan.tok, m.open, m.list)
        /\ c \in DOMAIN ShimArg =>
             ShimPast(fmt, r, scan.tok, m.open, Append(m.list, Entry(ShimArg[c], c)))
        /\ c \in {"o", "O"} =>
             ShimPast(fmt, r, MarkEnd(fmt, scan.tok), m.open, Append(m.list, Entry("JSON", c)))
        /\ c \notin Brackets \cup {"s", "n", "o", "O"} \cup DOMAIN ShimArg =>
             ShimStopped(fmt, r, m.list)
    BY <1>0, <2>1, PackValueGoes
  <2> HIDE DEF r, c
  <2>4. \A list : ShimPast(fmt, r, scan'.tok, m.open, list) /\ taken' = Len(list) => r.list = list /\ AtThen(r)
    <3>1. ASSUME NEW list, ShimPast(fmt, r, scan'.tok, m.open, list), taken' = Len(list)
          PROVE  r.list = list /\ AtThen(r)
      <4>1. r.list = list
        BY <3>1 DEF ShimPast, ShimIs
      <4>2. At(fmt, r, "back", str', taken', scan'.tok, OpensOf(stack'))
        BY <2>1, <3>1, <4>1 DEF At
      <4> QED
        BY <2>1, <4>1, <4>2 DEF AtThen
    <3> QED
      BY <3>1
  <2>5. CASE Token = "n" /\ taken' = taken
    <3>1. AtThen(r)
      BY <2>1, <2>2, <2>3, <2>4, <2>5
    <3> QED
      BY <2>5, <3>1, TakesNothing
  <2>6. CASE Token \in DOMAIN ShimArg /\ TakeArg
    <3>1. ShimArg[c] \in Kinds \ {"JSON"} /\ c \in Sources /\ Token \notin {"o", "O"}
      BY <2>2, <2>6 DEF ShimArg, Kinds, Sources
    <3> DEFINE list == Append(m.list, Entry(ShimArg[c], c))
    <3>2. /\ Len(list) = Len(m.list) + 1
          /\ list[Len(m.list) + 1].kind = ShimArg[c]
          /\ \A k \in 1 .. Len(list) : Len(m.list) < k => k = Len(m.list) + 1
      BY <2>1, <3>1, OneEntryMore
    <3>3. ShimPast(fmt, r, scan'.tok, m.open, list)
      BY <2>2, <2>3, <2>6, <3>1
    <3> HIDE DEF list
    <3>4. taken' = Len(list)
      BY <1>1, <1>2, <2>1, <2>6, <3>2
    <3>5. r.list = list /\ AtThen(r)
      BY <2>4, <3>3, <3>4
    <3>6. TakesRight
      BY <1>0, <2>1, <3>1, <3>2, <3>4, <3>5, TakesListed
    <3> QED
      BY <3>5, <3>6
  <2>7. CASE Token \in {"o", "O"} /\ TakeArg
    <3>1. c \in Sources /\ "JSON" \in Kinds
      BY <2>2, <2>7 DEF Sources, Kinds
    <3> DEFINE list == Append(m.list, Entry("JSON", c))
    <3>2. /\ Len(list) = Len(m.list) + 1 /\ Len(m.list) \in Nat
          /\ list[Len(m.list) + 1].kind = "JSON" /\ list[Len(m.list) + 1].from = c
      BY <2>1, <3>1, OneEntryMore
    <3>3. ShimPast(fmt, r, scan'.tok, m.open, list)
      BY <2>2, <2>3, <2>7
    <3> HIDE DEF list
    <3>4. taken' = Len(list)
      BY <1>1, <1>2, <2>1, <2>7, <3>2
    <3>5. r.list = list /\ AtThen(r)
      BY <2>4, <3>3, <3>4
    <3>6. TakesRight
      <4>1. \A k \in 1 .. Len(list) : args[k].kind = list[k].kind /\ args[k].from = list[k].from
        BY <1>0, <2>1, <3>5, ListedAreTheArguments
      <4>2. args[taken + 1].kind = "JSON" /\ args[taken + 1].from = Token
        BY <2>1, <2>2, <3>2, <4>1
      <4>3. \A k \in 1 .. Len(args) : taken < k /\ k <= taken' => k = taken + 1
        BY <2>1, <3>2, <3>4
      <4> QED
        BY <2>7, <4>2, <4>3 DEF TakesRight
    <3> QED
      BY <3>5, <3>6
  <2>8. CASE Token \notin Brackets \cup {"s", "n", "o", "O"} \cup DOMAIN ShimArg
    BY <2>1, <2>2, <2>3, <2>8
  <2> QED
    BY <2>5, <2>6, <2>7, <2>8
<1> QED
  BY <1>1, <1>2, MovesInStep

LEMMA ValuesInStep ==
  ASSUME Control, InStep, NullValue \/ BooleanValue \/ NumberValue \/ RefValue \/ Unexpected
  PROVE  InStep' /\ (~strayed' => TakesRight)
<1>1. /\ pc = "value" /\ pc' = "back" /\ fmt' = fmt /\ args' = args /\ stack' = stack
      /\ strayed' = strayed
  BY DEF NullValue, BooleanValue, NumberValue, RefValue, Unexpected, Return
<1>2. fmt # << >>
  BY <1>1 DEF Control, Phased
<1>3. DOMAIN ShimArg = {"b", "i", "I", "f"}
  BY DEF ShimArg
<1>4. CASE NullValue
  <2>1. Token = "n" /\ taken' = taken /\ scan' = scan
    BY <1>4 DEF NullValue
  <2> QED
    BY <1>1, <2>1, ReturnsInStep
<1>5. CASE BooleanValue \/ NumberValue
  <2>1. Token \in DOMAIN ShimArg /\ TakeArg /\ scan' = scan
    BY <1>3, <1>5 DEF BooleanValue, NumberValue, NumberKind, TakeOf
  <2>2. Token \notin {"o", "O"}
    BY <1>3, <2>1
  <2> QED
    BY <1>1, <2>1, <2>2, ReturnsInStep
<1>6. CASE RefValue
  <2>1. Token \in {"o", "O"} /\ TakeArg /\ scan' = PastMark({"?", "*"})
    BY <1>6 DEF RefValue
  <2>2. scan'.tok = MarkEnd(fmt, scan.tok)
    BY <1>2, <2>1, Reading DEF MarkEnd
  <2> QED
    BY <1>1, <2>1, <2>2, ReturnsInStep
<1>7. CASE Unexpected
  <2>1. /\ Token \notin Brackets \cup {"s", "n", "o", "O"} \cup DOMAIN ShimArg
        /\ taken' = taken /\ scan' = scan /\ Token \notin {"o", "O"}
    BY Zenon, <1>3, <1>7 DEF Unexpected, ValueStarters, Brackets
  <2> QED
    BY <1>1, <2>1, ReturnsInStep
<1> QED
  BY <1>4, <1>5, <1>6, <1>7

LEMMA CallInStep ==
  ASSUME Control, InStep, PackCall \/ PackCallStarved \/ PackFinish
  PROVE  InStep' /\ (~strayed' => TakesRight)
<1>1. fmt' = fmt /\ args' = args /\ taken' = taken /\ stack' = stack /\ strayed' = strayed
      /\ str' = str
  BY DEF PackCall, PackCallStarved, PackFinish
<1>2. TakesRight
  BY <1>1, TakesNothing
<1>3. CASE pc' = "packed"
  BY <1>2, <1>3 DEF InStep
<1>4. CASE pc' # "packed"
  <2>1. pc = "call" /\ pc' = "value" /\ fmt # << >> /\ scan' = NextToken(ScanStart)
    BY <1>4 DEF PackCall, PackCallStarved, PackFinish
  <2>2. fmt \in Formats /\ stack = << >> /\ taken = 0
    BY <2>1 DEF Control, Phased, InStep
  <2>3. OpensOf(stack') = << >>
    BY <1>1, <2>2 DEF OpensOf
  <2> DEFINE m == ShimStart(fmt)
  <2>4. ShimIs(fmt, m, scan'.tok, << >>, "value", << >>)
    BY <2>1, <2>2, StartIsThere DEF NextToken
  <2>5. OnRun(fmt, m)
    <3>1. Steps(fmt) \in Nat /\ TheRun(fmt)[0] = ShimStart(fmt) /\ 0 \in 0 .. Steps(fmt)
      BY <2>2, TheRunIsRun
    <3> QED
      BY <3>1 DEF OnRun
  <2> HIDE DEF m
  <2>6. AtThen(m)
    <3>1. m.list = << >>
      BY <2>4 DEF ShimIs
    <3> QED
      BY <1>1, <2>1, <2>2, <2>3, <2>4, <2>5, <3>1 DEF AtThen, At
  <2>7. Beside'
    BY <1>1, <2>6 DEF Beside, AtThen
  <2> QED
    BY <1>2, <2>1, <2>7 DEF InStep
<1> QED
  BY <1>3, <1>4

LEMMA StringBegunInStep ==
  ASSUME Control, InStep, StringValue \/ NextKey
  PROVE  InStep' /\ (~strayed' => TakesRight)
<1>1. CASE StringValue
  <2>1. /\ pc = "value" /\ pc' = "string" /\ fmt' = fmt /\ args' = args /\ taken' = taken
        /\ stack' = stack /\ strayed' = strayed /\ Token = "s"
        /\ scan' = PastMark({"?", "*"}) /\ str' = String("value", MarkIn({"?", "*"}))
    BY <1>1 DEF StringValue
  <2>2. fmt # << >>
    BY <2>1 DEF Control, Phased
  <2>3. /\ str'.use = "value"
        /\ str'.mark = IF Behind(fmt, scan.tok) \in {"?", "*"} THEN Behind(fmt, scan.tok) ELSE "no"
        /\ scan'.tok = MarkEnd(fmt, scan.tok)
    BY <2>1, <2>2, Reading DEF MarkEnd, String, MarkIn
  <2>4. Moves
    BY <2>1, MovesByOne
  <2>5. ASSUME NEW m, AtNow(m) PROVE AtThen(m)
    <3>1. ShimIs(fmt, m, scan.tok, OpensOf(stack), "value", m.list) /\ taken = Len(m.list)
          /\ OnRun(fmt, m)
      BY <2>1, <2>5 DEF AtNow, At
    <3>2. m.scan.tok = scan.tok
      BY <3>1 DEF ShimIs
    <3>3. CharOf(fmt, m.scan.tok) = "s"
      BY <2>1, <3>2 DEF Token, TokenOf
    <3> QED
      BY <2>1, <2>3, <3>1, <3>2, <3>3 DEF AtThen, At
  <2>6. TakesRight
    BY <2>1, TakesNothing
  <2> QED
    BY <2>4, <2>5, <2>6, MovesInStep
<1>2. CASE NextKey
  <2>1. /\ pc = "items" /\ pc' = "string" /\ fmt' = fmt /\ args' = args /\ taken' = taken
        /\ stack' = stack /\ strayed' = strayed /\ Token = "s" /\ Curly(Top.of)
        /\ scan' = scan /\ str' = String("key", "no")
    BY Zenon, <1>2 DEF NextKey, Curly
  <2>2. stack # << >>
    BY <2>1 DEF Control, Phased
  <2>3. str'.use = "key"
    BY <2>1 DEF String
  <2>4. Moves
    BY <2>1, MovesByOne
  <2>5. Curly(Last(OpensOf(stack)))
    BY <2>1, <2>2, OpensShrink DEF Control, Typed, Top
  <2>6. ASSUME NEW m, AtNow(m) PROVE AtThen(m)
    <3>1. ShimIs(fmt, m, scan.tok, OpensOf(stack), "items", m.list) /\ taken = Len(m.list)
          /\ OnRun(fmt, m)
      BY <2>1, <2>6 DEF AtNow, At
    <3>2. CharOf(fmt, scan.tok) = "s"
      BY <2>1 DEF Token, TokenOf
    <3> QED
      BY <2>1, <2>3, <2>5, <3>1, <3>2 DEF AtThen, At
  <2>7. TakesRight
    BY <2>1, TakesNothing
  <2> QED
    BY <2>4, <2>6, <2>7, MovesInStep
<1> QED
  BY <1>1, <1>2

\* Where the end of a string leads to.
LEMMA StringReadLeads ==
  ASSUME Control, pc \in {"string", "joined"},
         NEW text \in Texts, NEW own \in BOOLEAN, NEW s, Sane(fmt, s), NEW fails, NEW lost,
         StringRead(text, own, s, fails, lost)
  PROVE  /\ str.use = "key" => pc' = "value" /\ scan'.tok = NextPlace(fmt, s.tok)
         /\ str.use # "key" => pc' = "back" /\ scan'.tok = s.tok
         /\ OpensOf(stack') = OpensOf(stack)
<1>0. fmt # << >> /\ fmt \in Formats /\ stack \in Seq(Begun)
  BY DEF Control, Phased, Typed
<1>1. CASE str.use = "key"
  <2> DEFINE opt == TokenOf(NextToken(NextToken(s)))
  <2>1. /\ scan' = PushedBack(NextToken(NextToken(s)))
        /\ stack' = Keyed(stack, text, own, opt)
        /\ pc' = "value"
    BY <1>1 DEF StringRead, Keyed
  <2>2. stack # << >>
    BY <1>1 DEF Control, Phased
  <2>3. opt \in Chars
    BY <1>0, CharsAreTyped DEF TokenOf
  <2> HIDE DEF opt
  <2>4. stack' \in Seq(Begun) /\ SameLevels(stack, stack')
    <3>1. LET t == Keyed(stack, text, own, opt)
          IN t \in Seq(Begun) /\ SameLevels(stack, t)
      BY <1>0, <2>2, <2>3, NewKey
    <3> QED
      BY <2>1, <3>1
  <2>5. scan'.tok = NextPlace(fmt, s.tok)
    BY <1>0, <2>1, ScannerGoes DEF NextToken
  <2> QED
    BY <1>0, <1>1, <2>1, <2>4, <2>5, OpensStay
<1>2. CASE str.use # "key"
  BY <1>2 DEF StringRead, Return
<1> QED
  BY <1>1, <1>2

\* Where the shim is while the packer is in front of a string.
LEMMA AtString ==
  ASSUME Control, NEW m, AtNow(m), pc = "string"
  PROVE  LET r == PackShimStep(fmt, m)
             tok == scan.tok
             open == OpensOf(stack)
         IN /\ ShimOK(fmt, m) /\ taken = Len(m.list) /\ m.list \in Seq(Entries) /\ OnRun(fmt, r)
            /\ str.use = "key" =>
                 IF LookAhead \in Modifiers THEN ShimIs(fmt, r, tok, open, "key-part", m.list)
                 ELSE ShimIs(fmt, r, NextPlace(fmt, tok), open, "value",
                             Append(m.list, Entry("CSTR", "s")))
            /\ str.use # "key" =>
                 IF LookAhead \in Modifiers
                 THEN ~Optional /\ ShimIs(fmt, r, tok, open, "part", m.list)
                 ELSE ShimPast(fmt, r, tok, open, Append(m.list, Entry("CSTR", "s")))
<1> DEFINE r == PackShimStep(fmt, m)
           open == OpensOf(stack)
<1>0. fmt # << >> /\ fmt \in Formats /\ stack \in Seq(Begun) /\ LookAhead = Behind(fmt, scan.tok)
  BY Reading DEF Control, Phased, Typed
<1>1. /\ ShimOK(fmt, m) /\ taken = Len(m.list) /\ m.list \in Seq(Entries) /\ OnRun(fmt, r)
      /\ ~ShimStopped(fmt, r, m.list)
  BY DEF AtNow, At, ShimOK
<1>2. ASSUME str.use = "key"
      PROVE  IF LookAhead \in Modifiers THEN ShimIs(fmt, r, scan.tok, open, "key-part", m.list)
             ELSE ShimIs(fmt, r, NextPlace(fmt, scan.tok), open, "value",
                         Append(m.list, Entry("CSTR", "s")))
  <2>1. /\ ShimIs(fmt, m, scan.tok, open, "items", m.list)
        /\ Curly(Last(open)) /\ CharOf(fmt, scan.tok) = "s"
    BY <1>2 DEF AtNow, At
  <2>2. open # << >>
    BY <1>0, <1>2, OpensShrink DEF Control, Phased
  <2>3. m.at = "items" /\ m.open = open /\ m.scan.tok = scan.tok
    BY <2>1 DEF ShimIs
  <2> HIDE DEF r, open
  <2>4. IF Behind(fmt, m.scan.tok) \in Modifiers
        THEN ShimIs(fmt, r, m.scan.tok, m.open, "key-part", m.list)
        ELSE ShimIs(fmt, r, NextPlace(fmt, m.scan.tok), m.open, "value",
                    Append(m.list, Entry("CSTR", "s")))
    BY <1>0, <1>1, <2>1, <2>2, <2>3, ItemsGo DEF r
  <2> QED
    BY <1>0, <2>3, <2>4
<1>3. ASSUME str.use # "key"
      PROVE  IF LookAhead \in Modifiers
             THEN ~Optional /\ ShimIs(fmt, r, scan.tok, open, "part", m.list)
             ELSE ShimPast(fmt, r, scan.tok, open, Append(m.list, Entry("CSTR", "s")))
  <2> DEFINE at == m.scan.tok
  <2>1. /\ ShimIs(fmt, m, at, open, "value", m.list)
        /\ CharOf(fmt, at) = "s"
        /\ scan.tok = MarkEnd(fmt, at)
        /\ str.mark = IF Behind(fmt, at) \in {"?", "*"} THEN Behind(fmt, at) ELSE "no"
    BY <1>3 DEF AtNow, At
  <2>2. m.at = "value" /\ m.open = open
    BY <2>1 DEF ShimIs
  <2> HIDE DEF r, open, at
  <2>3. IF Behind(fmt, MarkEnd(fmt, at)) \in Modifiers
        THEN IF Behind(fmt, at) \in {"?", "*"} THEN ShimStopped(fmt, r, m.list)
             ELSE ShimIs(fmt, r, at, m.open, "part", m.list)
        ELSE ShimPast(fmt, r, MarkEnd(fmt, at), m.open, Append(m.list, Entry("CSTR", "s")))
    BY <1>0, <1>1, <2>1, <2>2, StringValueGoes DEF r, at
  <2>4. CASE LookAhead \in Modifiers
    <3>1. Behind(fmt, at) \notin {"?", "*"} /\ ShimIs(fmt, r, at, m.open, "part", m.list)
      BY <1>0, <1>1, <2>1, <2>3, <2>4 DEF r
    <3>2. scan.tok = at /\ ~Optional
      BY <2>1, <3>1 DEF MarkEnd, Optional
    <3> QED
      BY <2>2, <2>4, <3>1, <3>2
  <2>5. CASE LookAhead \notin Modifiers
    BY <1>0, <2>1, <2>2, <2>3, <2>5
  <2> QED
    BY <2>4, <2>5
<1> QED
  BY <1>1, <1>2, <1>3

LEMMA PlainStringInStep ==
  ASSUME Control, InStep, PlainString
  PROVE  InStep' /\ (~strayed' => TakesRight)
<1> DEFINE text == IF Fits("CSTR") THEN args[taken + 1].value ELSE NoText
           bad == text # NoText /\ ~IsUtf8(text)
           fails == failed \/ ~Fits("CSTR") \/ (text = NoText /\ ~Optional) \/ bad
           read == IF bad THEN NoText ELSE text
<1>1. /\ pc = "string" /\ TakeArg /\ fmt' = fmt /\ args' = args /\ strayed' = strayed
      /\ StringRead(read, FALSE, Looked, fails, 0) /\ LookAhead \notin Modifiers
  BY DEF PlainString
<1>2. read \in Texts
  BY ArgumentIsText, TextsAreTyped
<1> HIDE DEF text, bad, fails, read
<1>3. Sane(fmt, Looked) /\ Looked.tok = scan.tok /\ fmt # << >>
  BY <1>1, Reading DEF Control, Phased
<1>4. /\ str.use = "key" => pc' = "value" /\ scan'.tok = NextPlace(fmt, scan.tok)
      /\ str.use # "key" => pc' = "back" /\ scan'.tok = scan.tok
      /\ OpensOf(stack') = OpensOf(stack)
  BY <1>1, <1>2, <1>3, StringReadLeads
<1>5. Moves /\ (TakeArg /\ taken < Len(args) => taken' = taken + 1)
  BY <1>1, <1>4, MovesByOne
<1>6. ASSUME NEW m, AtNow(m), taken < Len(args)
      PROVE  TakesRight /\ \E r : AtThen(r)
  <2> DEFINE r == PackShimStep(fmt, m)
             list == Append(m.list, Entry("CSTR", "s"))
  <2>1. /\ taken = Len(m.list) /\ m.list \in Seq(Entries) /\ OnRun(fmt, r)
        /\ str.use = "key" => ShimIs(fmt, r, NextPlace(fmt, scan.tok), OpensOf(stack), "value", list)
        /\ str.use # "key" => ShimPast(fmt, r, scan.tok, OpensOf(stack), list)
    BY <1>1, <1>6, AtString
  <2>2. /\ Len(list) = Len(m.list) + 1
        /\ list[Len(m.list) + 1].kind = "CSTR"
        /\ \A k \in 1 .. Len(list) : Len(m.list) < k => k = Len(m.list) + 1
    BY <2>1, OneEntryMore DEF Kinds, Sources
  <2> HIDE DEF r, list
  <2>3. r.list = list
    BY <2>1 DEF ShimPast, ShimIs
  <2>4. taken' = Len(list)
    BY <1>1, <1>5, <1>6, <2>1, <2>2
  <2>5. AtThen(r)
    BY <1>4, <2>1, <2>3, <2>4 DEF AtThen, At
  <2>6. TakesRight
    BY <1>1, <1>3, <2>1, <2>2, <2>3, <2>4, TakesListed
  <2> QED
    BY <2>5, <2>6
<1> QED
  BY <1>5, <1>6, MovesInStep

LEMMA ModifierInStep ==
  ASSUME Control, InStep, OptionalWithModifier \/ JoinStart
  PROVE  InStep' /\ (~strayed' => TakesRight)
<1>1. /\ pc = "string" /\ fmt' = fmt /\ args' = args /\ taken' = taken /\ LookAhead \in Modifiers
      /\ ~strayed' => ~strayed
  <2>1. strayed' = strayed \/ strayed' = TRUE
    BY Zenon DEF OptionalWithModifier, JoinStart
  <2>2. ~strayed' => ~strayed
    BY <2>1
  <2>3. OptionalWithModifier \/ JoinStart =>
          pc = "string" /\ fmt' = fmt /\ args' = args /\ taken' = taken /\ LookAhead \in Modifiers
    BY Zenon DEF OptionalWithModifier, JoinStart
  <2> QED
    BY Zenon, <2>2, <2>3
<1>2. Sane(fmt, Looked) /\ Looked.tok = scan.tok /\ fmt # << >>
  BY <1>1, Reading DEF Control, Phased
<1>3. pc' # "call"
  <2>1. OptionalWithModifier \/ JoinStart => pc' \in {"parts", "value", "back"}
    BY DEF OptionalWithModifier, JoinStart, StringRead, Return
  <2> QED
    BY <2>1
<1>4. Moves /\ TakesRight
  BY <1>1, <1>3, MovesByOne, TakesNothing
<1>5. ASSUME NEW m, AtNow(m), ~strayed'
      PROVE  \E r : AtThen(r)
  <2> DEFINE r == PackShimStep(fmt, m)
  <2>1. /\ taken = Len(m.list) /\ OnRun(fmt, r)
        /\ str.use = "key" => ShimIs(fmt, r, scan.tok, OpensOf(stack), "key-part", m.list)
        /\ str.use # "key" => ~Optional /\ ShimIs(fmt, r, scan.tok, OpensOf(stack), "part", m.list)
    BY <1>1, <1>5, AtString
  <2>2. ~Optional
    BY <1>1, <2>1 DEF Control, Phased, Optional
  <2>3. pc' = "parts" /\ scan' = Looked /\ stack' = stack /\ str' = str
    BY <1>5, <2>2 DEF OptionalWithModifier, JoinStart
  <2> HIDE DEF r
  <2>4. r.list = m.list
    BY <2>1 DEF ShimIs
  <2>5. AtThen(r)
    BY <1>1, <1>2, <2>1, <2>3, <2>4 DEF AtThen, At
  <2> QED
    BY <2>5
<1> QED
  BY <1>4, <1>5, MovesInStep

LEMMA JoinPartInStep ==
  ASSUME Control, InStep, JoinPart
  PROVE  InStep' /\ (~strayed' => TakesRight)
<1> DEFINE s == NextToken(scan)
           measured == TokenOf(s) \in DOMAIN LengthKind
           x == IF measured THEN s ELSE PushedBack(s)
           t == NextToken(x)
           more == TokenOf(t) = "+"
           tok == scan.tok
           end == PartEnd(fmt, tok)
<1>1. /\ pc = "parts" /\ fmt' = fmt /\ args' = args /\ stack' = stack /\ strayed' = strayed
      /\ pc' = IF more THEN "parts" ELSE "joined"
      /\ taken' = IF measured /\ taken + 1 < Len(args) THEN taken + 2
                  ELSE IF taken < Len(args) THEN taken + 1 ELSE taken
      /\ scan' = IF more THEN t ELSE PushedBack(t)
      /\ str' = str \/ str' = [str EXCEPT !.text = @ \o
                                IF Fits("CSTR") THEN args[taken + 1].value ELSE NoText]
  BY DEF JoinPart
<1>2. fmt # << >> /\ fmt \in Formats /\ Sane(fmt, scan)
  BY <1>1 DEF Control, Phased
<1>3. measured <=> Behind(fmt, tok) \in DOMAIN LengthKind
  BY <1>2, ScannerGoes DEF NextToken, TokenOf
<1>4. Sane(fmt, x) /\ x.tok = end
  BY <1>2, <1>3, ScannerGoes DEF NextToken, PartEnd
<1>5. str'.use = str.use
  BY <1>1 DEF Control, Typed, Strings
<1> HIDE DEF x, end, s, measured
<1>6. /\ more <=> Behind(fmt, end) = "+"
      /\ t.tok = NextPlace(fmt, end) /\ PushedBack(t).tok = end
  BY <1>2, <1>4, ScannerGoes DEF NextToken, TokenOf
<1> HIDE DEF t, more
<1>7. Moves
  BY <1>1 DEF Moves, Control, ArgsFit
<1>8. ASSUME NEW m, AtNow(m), taken < Len(args)
      PROVE  TakesRight /\ \E r : AtThen(r)
  <2> DEFINE r == PackShimStep(fmt, m)
             list == PartList(fmt, tok, m.list)
             at == IF str.use = "key" THEN "key-part" ELSE "part"
  <2>1. /\ ShimIs(fmt, m, tok, OpensOf(stack), at, m.list)
        /\ taken = Len(m.list) /\ m.list \in Seq(Entries) /\ OnRun(fmt, r)
    BY <1>1, <1>8 DEF AtNow, At, ShimOK
  <2>2. m.at = at /\ m.scan.tok = tok /\ m.open = OpensOf(stack) /\ ShimOK(fmt, m)
    BY <2>1 DEF ShimIs
  <2>3. r = ShimPart(fmt, m)
    BY <2>2 DEF PackShimStep
  <2>4. IF Behind(fmt, end) = "+" THEN ShimIs(fmt, r, NextPlace(fmt, end), m.open, m.at, list)
        ELSE IF m.at = "key-part" THEN ShimIs(fmt, r, NextPlace(fmt, end), m.open, "value", list)
        ELSE ShimPast(fmt, r, end, m.open, list)
    BY <1>2, <2>2, <2>3, PartGoes DEF end
  <2>5. /\ Len(m.list) \in Nat
        /\ Len(list) = IF measured THEN Len(m.list) + 2 ELSE Len(m.list) + 1
        /\ \A k \in 1 .. Len(list) : Len(m.list) < k => list[k].kind # "JSON"
    <3> DEFINE one == Append(m.list, Entry("CSTR", "+"))
               c == Behind(fmt, tok)
    <3>1. /\ Len(one) = Len(m.list) + 1 /\ Len(m.list) \in Nat /\ one \in Seq(Entries)
          /\ one[Len(m.list) + 1].kind = "CSTR"
          /\ \A k \in 1 .. Len(one) : Len(m.list) < k => k = Len(m.list) + 1
      BY <2>1, OneEntryMore DEF Kinds, Sources
    <3>2. list = IF measured THEN Append(one, Entry(LengthKind[c], c)) ELSE one
      BY <1>3 DEF PartList
    <3>3. CASE ~measured
      BY <3>1, <3>2, <3>3
    <3>4. CASE measured
      <4>1. LengthKind[c] \in Kinds \ {"JSON"} /\ c \in Sources
        BY <1>3, <3>4 DEF LengthKind, Kinds, Sources
      <4> DEFINE two == Append(one, Entry(LengthKind[c], c))
      <4>2. /\ Len(two) = Len(one) + 1 /\ two[Len(one) + 1].kind = LengthKind[c]
            /\ \A k \in 1 .. Len(two) : Len(one) < k => k = Len(one) + 1
        BY <3>1, <4>1, OneEntryMore
      <4>3. \A k \in 1 .. Len(one) : two[k] = one[k]
        BY <3>1
      <4> HIDE DEF one
      <4>4. list = two
        BY <3>2, <3>4
      <4> HIDE DEF two, list, c
      <4>5. \A k \in 1 .. Len(two) : Len(m.list) < k => two[k].kind # "JSON"
        BY <3>1, <4>1, <4>2, <4>3
      <4> QED
        BY <3>1, <3>4, <4>2, <4>4, <4>5
    <3> QED
      BY <3>3, <3>4
  <2> HIDE DEF r, list
  <2>6. r.list = list
    BY <2>4 DEF ShimPast, ShimIs
  <2>7. Len(list) <= Len(args)
    BY <1>2, <2>1, <2>6, ListedAreTheArguments DEF r
  <2>8. taken' = Len(list)
    BY <1>1, <1>8, <2>1, <2>5, <2>7 DEF Control, ArgsFit
  <2>9. AtThen(r)
    <3>1. str'.use = "key" <=> at = "key-part"
      BY <1>5
    <3> HIDE DEF at
    <3>2. CASE Behind(fmt, end) = "+"
      <4>1. pc' = "parts" /\ scan'.tok = NextPlace(fmt, end)
        BY <1>1, <1>6, <3>2
      <4>2. ShimIs(fmt, r, scan'.tok, OpensOf(stack'), IF str'.use = "key" THEN "key-part" ELSE "part", r.list)
        BY <1>1, <1>5, <2>2, <2>4, <2>6, <3>2, <4>1 DEF at
      <4> QED
        BY <2>1, <2>6, <2>8, <4>1, <4>2 DEF AtThen, At, r
    <3>3. CASE Behind(fmt, end) # "+"
      <4>1. pc' = "joined" /\ scan'.tok = end
        BY <1>1, <1>6, <3>3
      <4>2. IF str'.use = "key" THEN ShimIs(fmt, r, NextPlace(fmt, scan'.tok), OpensOf(stack'), "value", r.list)
            ELSE ShimPast(fmt, r, scan'.tok, OpensOf(stack'), r.list)
        BY <1>1, <2>2, <2>4, <2>6, <3>1, <3>3, <4>1
      <4> QED
        BY <2>1, <2>6, <2>8, <4>1, <4>2 DEF AtThen, At, r
    <3> QED
      BY <3>2, <3>3
  <2>10. TakesRight
    BY <1>1, <1>2, <2>1, <2>5, <2>6, <2>8, TakesListed DEF r
  <2> QED
    BY <2>9, <2>10
<1> QED
  BY <1>7, <1>8, MovesInStep

LEMMA JoinEndInStep ==
  ASSUME Control, InStep, JoinEnd
  PROVE  InStep' /\ (~strayed' => TakesRight)
<1> DEFINE bad == ~failed /\ ~IsUtf8(str.text)
           text == IF failed \/ bad THEN NoText ELSE str.text
           own == ~failed /\ ~bad
           fails == failed \/ bad
<1>1. /\ pc = "joined" /\ fmt' = fmt /\ args' = args /\ taken' = taken /\ strayed' = strayed
      /\ StringRead(text, own, scan, fails, 0)
  BY DEF JoinEnd
<1>2. text \in Texts /\ Sane(fmt, scan) /\ own \in BOOLEAN
  BY <1>1, TextsAreTyped DEF Control, Typed, Strings, Phased
<1> HIDE DEF bad, text, own, fails
<1>3. /\ str.use = "key" => pc' = "value" /\ scan'.tok = NextPlace(fmt, scan.tok)
      /\ str.use # "key" => pc' = "back" /\ scan'.tok = scan.tok
      /\ OpensOf(stack') = OpensOf(stack)
  BY <1>1, <1>2, StringReadLeads
<1>4. Moves /\ TakesRight
  BY <1>1, <1>3, MovesByOne, TakesNothing
<1>5. ASSUME NEW m, AtNow(m)
      PROVE  AtThen(m)
  <2>1. /\ taken = Len(m.list) /\ OnRun(fmt, m)
        /\ str.use = "key" =>
             ShimIs(fmt, m, NextPlace(fmt, scan.tok), OpensOf(stack), "value", m.list)
        /\ str.use # "key" => ShimPast(fmt, m, scan.tok, OpensOf(stack), m.list)
    BY <1>1, <1>5 DEF AtNow, At
  <2> QED
    BY <1>1, <1>3, <2>1 DEF AtThen, At
<1> QED
  BY <1>4, <1>5, MovesInStep

LEMMA OpenInStep ==
  ASSUME Control, InStep, Open
  PROVE  InStep' /\ (~strayed' => TakesRight)
<1>1. /\ pc = "value" /\ fmt' = fmt /\ args' = args /\ taken' = taken /\ pc' \in {"items", "back"}
      /\ ~strayed' => ~strayed
  <2>1. strayed' = strayed \/ strayed' = TRUE
    BY OpenIs
  <2>2. ~strayed' => ~strayed
    BY <2>1
  <2> QED
    BY <2>2, OpenIs
<1>2. fmt # << >> /\ fmt \in Formats /\ stack \in Seq(Begun) /\ Len(heap) + 1 \in Nat
  BY <1>1 DEF Control, Phased, Typed
<1>3. Moves /\ TakesRight
  BY <1>1, MovesByOne, TakesNothing
<1>4. Token \in Brackets
  BY BracketsAreMade
<1>5. ASSUME NEW m, AtNow(m), ~strayed'
      PROVE  \E r : AtThen(r)
  <2> DEFINE r == PackShimStep(fmt, m)
             frame == NewFrame(Token, Len(heap) + 1)
  <2>1. /\ ShimOK(fmt, m) /\ m.at = "value" /\ m.scan.tok = scan.tok
        /\ m.open = OpensOf(stack) /\ taken = Len(m.list)
        /\ OnRun(fmt, r)
    BY <1>1, <1>5, AtValue
  <2>2. CharOf(fmt, m.scan.tok) = Token
    BY <2>1 DEF Token, TokenOf
  <2>3. ShimIs(fmt, r, NextPlace(fmt, scan.tok), Append(m.open, Token), "items", m.list)
    BY <1>2, <1>4, <2>1, <2>2, PackValueGoes
  <2>4. stack' = Append(stack, frame) /\ scan' = NextToken(scan) /\ pc' = "items"
    BY <1>5, OpenIs
  <2>5. frame \in Begun /\ frame.of = Token
    BY <1>2, <1>4, FramesAreTyped
  <2> HIDE DEF r, frame
  <2>6. OpensOf(stack') = Append(OpensOf(stack), Token)
    BY <1>2, <2>4, <2>5, OpensGrow
  <2>7. scan'.tok = NextPlace(fmt, scan.tok)
    BY <1>2, <2>4, Reading
  <2>8. r.list = m.list
    BY <2>3 DEF ShimIs
  <2>9. AtThen(r)
    BY <1>1, <2>1, <2>3, <2>4, <2>6, <2>7, <2>8 DEF AtThen, At
  <2> QED
    BY <2>9
<1> QED
  BY <1>3, <1>5, MovesInStep

\* Where the shim is while the packer is among the items of a bracket.
LEMMA AtItems ==
  ASSUME Control, NEW m, AtNow(m), pc = "items"
  PROVE  LET r == PackShimStep(fmt, m)
         IN /\ taken = Len(m.list) /\ OnRun(fmt, m) /\ OnRun(fmt, r)
            /\ stack # << >> /\ stack \in Seq(Begun)
            /\ Token = Closes(Top.of) =>
                 ShimPast(fmt, r, scan.tok, OpensOf(Front(stack)), m.list)
            /\ Token # Closes(Top.of) => ~FormatOver /\ ~(Curly(Top.of) /\ Token # "s")
            /\ Token # Closes(Top.of) /\ ~Curly(Top.of) =>
                 ShimIs(fmt, r, scan.tok, OpensOf(stack), "value", m.list)
<1> DEFINE r == PackShimStep(fmt, m)
           open == OpensOf(stack)
<1>1. fmt \in Formats /\ stack # << >> /\ stack \in Seq(Begun)
  BY DEF Control, Phased, Typed
<1>2. /\ ShimOK(fmt, m) /\ ShimIs(fmt, m, scan.tok, open, "items", m.list)
      /\ taken = Len(m.list) /\ OnRun(fmt, m) /\ OnRun(fmt, r) /\ ~ShimStopped(fmt, r, m.list)
  BY DEF AtNow, At
<1>3. m.at = "items" /\ m.open = open /\ m.scan.tok = scan.tok /\ CharOf(fmt, m.scan.tok) = Token
  BY <1>2 DEF ShimIs, Token, TokenOf
<1>4. open # << >> /\ Last(open) = Top.of /\ Front(open) = OpensOf(Front(stack))
  BY <1>1, OpensShrink DEF Top
<1> HIDE DEF r, open
<1>5. /\ Token = Closes(Top.of) => ShimPast(fmt, r, scan.tok, Front(open), m.list)
      /\ Token # Closes(Top.of) /\ (Token = "end" \/ (Curly(Top.of) /\ Token # "s")) =>
           ShimStopped(fmt, r, m.list)
      /\ Token # Closes(Top.of) /\ Token # "end" /\ ~Curly(Top.of) =>
                 ShimIs(fmt, r, scan.tok, open, "value", m.list)
  BY <1>1, <1>2, <1>3, <1>4, ItemsGo DEF r
<1> QED
  BY <1>1, <1>2, <1>4, <1>5 DEF FormatOver, r, open

LEMMA LevelsInStep ==
  ASSUME Control, InStep, Close \/ Broken \/ NextItem
  PROVE  InStep' /\ (~strayed' => TakesRight)
<1>1. /\ Close => /\ pc = "items" /\ fmt' = fmt /\ args' = args /\ taken' = taken
                  /\ strayed' = strayed /\ scan' = scan /\ stack' = Front(stack) /\ pc' = "back"
                  /\ Token = Closes(Top.of)
      /\ Broken => /\ pc = "items" /\ fmt' = fmt /\ args' = args /\ taken' = taken
                   /\ strayed' = strayed /\ pc' = "back"
                   /\ Token # Closes(Top.of) /\ (FormatOver \/ (Curly(Top.of) /\ Token # "s"))
      /\ NextItem => /\ pc = "items" /\ fmt' = fmt /\ args' = args /\ taken' = taken
                     /\ strayed' = strayed /\ scan' = Looked /\ pc' = "value"
                     /\ stack' = Marked(stack, LookAhead)
                     /\ Token # Closes(Top.of) /\ ~Curly(Top.of)
  BY Zenon DEF Close, Broken, NextItem, Return, Curly, Marked, Closes
<1>2. Moves /\ TakesRight
  BY <1>1, MovesByOne, TakesNothing
<1>3. ASSUME NEW m, AtNow(m) PROVE \E r : AtThen(r)
  <2> DEFINE r == PackShimStep(fmt, m)
  <2>1. /\ taken = Len(m.list) /\ OnRun(fmt, r)
        /\ stack # << >> /\ stack \in Seq(Begun)
        /\ Token = Closes(Top.of) =>
             ShimPast(fmt, r, scan.tok, OpensOf(Front(stack)), m.list)
        /\ Token # Closes(Top.of) => ~FormatOver /\ ~(Curly(Top.of) /\ Token # "s")
        /\ Token # Closes(Top.of) /\ ~Curly(Top.of) =>
             ShimIs(fmt, r, scan.tok, OpensOf(stack), "value", m.list)
    BY <1>1, <1>3, AtItems
  <2> HIDE DEF r
  <2>2. CASE Close
    <3>1. ShimPast(fmt, r, scan'.tok, OpensOf(stack'), m.list)
      BY <1>1, <2>1, <2>2
    <3>2. r.list = m.list
      BY <3>1 DEF ShimPast, ShimIs
    <3>3. AtThen(r)
      BY <1>1, <2>1, <2>2, <3>1, <3>2 DEF AtThen, At
    <3> QED
      BY <3>3
  <2>3. CASE NextItem
    <3>1. fmt # << >>
      BY <1>1, <2>3 DEF Control, Phased
    <3>2. LookAhead \in Chars /\ Looked.tok = scan.tok
      BY <3>1, Reading
    <3>3. stack' \in Seq(Begun) /\ SameLevels(stack, stack')
      BY <1>1, <2>1, <2>3, <3>2, NewMark
    <3>4. OpensOf(stack') = OpensOf(stack)
      BY <2>1, <3>3, OpensStay
    <3>5. ShimIs(fmt, r, scan'.tok, OpensOf(stack'), "value", m.list)
      BY <1>1, <2>1, <2>3, <3>2, <3>4
    <3>6. r.list = m.list
      BY <3>5 DEF ShimIs
    <3>7. AtThen(r)
      BY <1>1, <2>1, <2>3, <3>5, <3>6 DEF AtThen, At
    <3> QED
      BY <3>7
  <2> QED
    BY <1>1, <2>1, <2>2, <2>3
<1> QED
  BY <1>2, <1>3, MovesInStep

\* What the steps after a value have in common.
LEMMA ItemDoneLeads ==
  ASSUME Control, ItemDone, pc = "back", stack # << >>
  PROVE  /\ fmt' = fmt /\ args' = args /\ taken' = taken /\ str' = str /\ strayed' = strayed
         /\ pc' = "items" /\ ret' = None /\ scan'.tok = NextPlace(fmt, scan.tok)
         /\ stack' \in Seq(Begun) /\ SameLevels(stack, stack')
         /\ \A i \in 1 .. Len(stack) : stack'[i].own = IF i = Len(stack) THEN FALSE ELSE stack[i].own
         /\ buffers' = buffers - IF Top.own THEN 1 ELSE 0
<1>1. /\ fmt' = fmt /\ args' = args /\ taken' = taken /\ str' = str /\ strayed' = strayed
      /\ scan' = NextToken(scan) /\ pc' = "items" /\ ret' = None
      /\ stack' = Keyed(stack, NoText, FALSE, "no")
      /\ buffers' = buffers - IF Top.own THEN 1 ELSE 0
  BY DEF ItemDone, Keyed
<1>2. fmt # << >>
  BY DEF Control, Phased
<1>3. scan'.tok = NextPlace(fmt, scan.tok)
  BY <1>1, <1>2, Reading
<1>4. NoText \in Texts /\ "no" \in Chars /\ stack \in Seq(Begun)
  BY TextsAreTyped DEF Chars, Control, Typed
<1>5. LET t == Keyed(stack, NoText, FALSE, "no")
      IN /\ t \in Seq(Begun) /\ SameLevels(stack, t)
         /\ \A i \in 1 .. Len(stack) : t[i].own = IF i = Len(stack) THEN FALSE ELSE stack[i].own
  BY <1>4, NewKey
<1> QED
  BY <1>1, <1>3, <1>5

LEMMA ItemDoneInStep ==
  ASSUME Control, InStep, ItemDone, pc = "back", stack # << >>
  PROVE  InStep' /\ (~strayed' => TakesRight)
<1>1. /\ fmt' = fmt /\ args' = args /\ taken' = taken /\ str' = str /\ strayed' = strayed
      /\ pc' = "items" /\ scan'.tok = NextPlace(fmt, scan.tok)
      /\ stack' \in Seq(Begun) /\ SameLevels(stack, stack')
  BY ItemDoneLeads
<1>2. stack \in Seq(Begun) /\ OpensOf(stack) # << >>
  BY OpensShrink DEF Control, Typed
<1>3. OpensOf(stack') = OpensOf(stack)
  BY <1>1, <1>2, OpensStay
<1>4. Moves /\ TakesRight
  BY <1>1, MovesByOne, TakesNothing
<1>5. ASSUME NEW m, AtNow(m) PROVE AtThen(m)
  <2>1. ShimPast(fmt, m, scan.tok, OpensOf(stack), m.list) /\ taken = Len(m.list) /\ OnRun(fmt, m)
    BY <1>5 DEF AtNow, At
  <2>2. ShimIs(fmt, m, NextPlace(fmt, scan.tok), OpensOf(stack), "items", m.list)
    BY <1>2, <2>1 DEF ShimPast
  <2> QED
    BY <1>1, <1>3, <2>1, <2>2 DEF AtThen, At
<1> QED
  BY <1>4, <1>5, MovesInStep

LEMMA BackIsDone ==
  ASSUME NothingCame \/ CameAfterError \/ Put
  PROVE  pc = "back" /\ stack # << >> /\ ItemDone
<1>1. NothingCame => pc = "back" /\ stack # << >> /\ ItemDone
  BY Zenon DEF NothingCame
<1>2. CameAfterError => pc = "back" /\ stack # << >> /\ ItemDone
  BY Zenon DEF CameAfterError
<1>3. Put => pc = "back" /\ stack # << >> /\ ItemDone
  BY Zenon DEF Put
<1> QED
  BY <1>1, <1>2, <1>3

\* Every step keeps the packer beside the shim, and takes what was passed for it.
LEMMA PackStaysInStep ==
  ASSUME Control, InStep, PackNext
  PROVE  InStep' /\ (~strayed' => TakesRight)
<1>1. CASE PackCall \/ PackCallStarved \/ PackFinish
  BY <1>1, CallInStep
<1>2. CASE NullValue \/ BooleanValue \/ NumberValue \/ RefValue \/ Unexpected
  BY <1>2, ValuesInStep
<1>3. CASE StringValue \/ NextKey
  BY <1>3, StringBegunInStep
<1>4. CASE PlainString
  BY <1>4, PlainStringInStep
<1>5. CASE OptionalWithModifier \/ JoinStart
  BY <1>5, ModifierInStep
<1>6. CASE JoinPart
  BY <1>6, JoinPartInStep
<1>7. CASE JoinEnd
  BY <1>7, JoinEndInStep
<1>8. CASE Open
  BY <1>8, OpenInStep
<1>9. CASE Close \/ Broken \/ NextItem
  BY <1>9, LevelsInStep
<1>10. CASE NothingCame \/ CameAfterError \/ Put
  <2>1. pc = "back" /\ stack # << >> /\ ItemDone
    BY <1>10, BackIsDone
  <2> QED
    BY <2>1, ItemDoneInStep
<1> QED
  BY <1>1, <1>2, <1>3, <1>4, <1>5, <1>6, <1>7, <1>8, <1>9, <1>10 DEF PackNext

-----------------------------------------------------------------------------
(* What a value holds                                                      *)

IsNode(x) == x[1] = "node"
Real(x) == x[1] \in {"node", "given"}
Reals == {x \in Values : Real(x)}

LEMMA ValuesAre ==
  /\ \A n \in Nat : /\ Node(n) \in Values /\ IsNode(Node(n)) /\ Real(Node(n)) /\ Node(n)[2] = n
                    /\ Given(n) \in Values /\ ~IsNode(Given(n)) /\ Real(Given(n)) /\ Given(n)[2] = n
  /\ \A x \in Values : /\ IsNode(x) => x[2] \in Nat /\ x = Node(x[2]) /\ Real(x)
                       /\ Real(x) /\ ~IsNode(x) => x[2] \in Nat /\ x = Given(x[2])
  /\ \A x \in {None, Null, True} : x \in Values /\ ~Real(x) /\ ~IsNode(x)
  BY DEF Values, Node, Given, IsNode, Real, None, Null, True

ValuesIn(h, n) == {h[n].kids[j].value : j \in 1 .. Len(h[n].kids)}

LEMMA ValuesInAreValues ==
  ASSUME NEW h \in Seq(Nodes), NEW n \in 1 .. Len(h)
  PROVE  /\ h[n].kids \in Seq(Kids) /\ Len(h[n].kids) \in Nat
         /\ \A j \in 1 .. Len(h[n].kids) : h[n].kids[j].value \in Values /\ h[n].kids[j].key \in Texts
         /\ ValuesIn(h, n) \subseteq Values
<1>1. h[n] \in Nodes
  OBVIOUS
<1>2. h[n].kids \in Seq(Kids)
  BY <1>1 DEF Nodes
<1>3. ASSUME NEW j \in 1 .. Len(h[n].kids)
      PROVE  h[n].kids[j].value \in Values /\ h[n].kids[j].key \in Texts
  <2>1. h[n].kids[j] \in Kids
    BY <1>2
  <2> QED
    BY <2>1 DEF Kids
<1> QED
  BY <1>2, <1>3 DEF ValuesIn

HoldsAll(h, S) == \A n \in 1 .. Len(h) : Node(n) \in S => ValuesIn(h, n) \subseteq S

\* The least set with x that holds what its members hold.
Held(h, x) ==
  {v \in Values : \A S \in SUBSET Values : x \in S /\ HoldsAll(h, S) => v \in S}

\* What a value holds was made after it.
Grown(h) ==
  /\ h \in Seq(Nodes)
  /\ \A n \in 1 .. Len(h) : \A v \in ValuesIn(h, n) : IsNode(v) => v[2] \in n + 1 .. Len(h)

LEMMA HeldIsLeast ==
  ASSUME NEW h, NEW x, NEW S \in SUBSET Values, x \in S, HoldsAll(h, S)
  PROVE  Held(h, x) \subseteq S
  BY DEF Held

LEMMA HeldHoldsAll ==
  ASSUME NEW h \in Seq(Nodes), NEW x \in Values
  PROVE  Held(h, x) \in SUBSET Values /\ x \in Held(h, x) /\ HoldsAll(h, Held(h, x))
<1>1. Held(h, x) \in SUBSET Values /\ x \in Held(h, x)
  BY DEF Held
<1>2. ASSUME NEW n \in 1 .. Len(h), Node(n) \in Held(h, x), NEW v \in ValuesIn(h, n)
      PROVE  v \in Held(h, x)
  <2>1. v \in Values
    BY ValuesInAreValues
  <2>2. ASSUME NEW S \in SUBSET Values, x \in S, HoldsAll(h, S) PROVE v \in S
    <3>1. Node(n) \in S
      BY <1>2, <2>2, HeldIsLeast
    <3> QED
      BY <2>2, <3>1 DEF HoldsAll
  <2> QED
    BY <2>1, <2>2 DEF Held
<1> QED
  BY <1>1, <1>2 DEF HoldsAll

\* Each member but x is held by a member.
LEMMA HeldByMember ==
  ASSUME NEW h \in Seq(Nodes), NEW x \in Values, NEW v \in Held(h, x), v # x
  PROVE  \E n \in 1 .. Len(h) : Node(n) \in Held(h, x) /\ v \in ValuesIn(h, n)
<1> SUFFICES ASSUME \A n \in 1 .. Len(h) : Node(n) \in Held(h, x) => v \notin ValuesIn(h, n)
             PROVE  FALSE
  OBVIOUS
<1> DEFINE S == Held(h, x) \ {v}
<1>1. S \in SUBSET Values /\ x \in S /\ HoldsAll(h, S)
  BY HeldHoldsAll DEF HoldsAll
<1>2. v \notin S
  OBVIOUS
<1> HIDE DEF S
<1> QED
  BY <1>1, <1>2, HeldIsLeast

\* What is no container holds nothing but itself.
LEMMA OthersHoldThemselves ==
  ASSUME NEW h \in Seq(Nodes), NEW x \in Values, ~IsNode(x)
  PROVE  Held(h, x) = {x}
<1>1. \A n \in 1 .. Len(h) : Node(n) # x
  BY ValuesAre
<1>2. {x} \in SUBSET Values /\ x \in {x} /\ HoldsAll(h, {x})
  BY <1>1 DEF HoldsAll
<1> QED
  BY <1>2, HeldIsLeast, HeldHoldsAll

LEMMA HeldUnfolds ==
  ASSUME NEW h, Grown(h), NEW n \in 1 .. Len(h)
  PROVE  Held(h, Node(n)) =
           {Node(n)} \cup UNION {IF IsNode(v) THEN Held(h, Node(v[2])) ELSE {v} : v \in ValuesIn(h, n)}
<1> DEFINE S == {Node(n)} \cup UNION {Held(h, v) : v \in ValuesIn(h, n)}
<1>0. h \in Seq(Nodes) /\ Node(n) \in Values /\ n \in Nat
  BY ValuesAre DEF Grown
<1>1. ValuesIn(h, n) \subseteq Values
  BY <1>0, ValuesInAreValues
<1>2. \A v \in ValuesIn(h, n) : Held(h, v) \in SUBSET Values /\ v \in Held(h, v) /\ HoldsAll(h, Held(h, v))
  BY <1>0, <1>1, HeldHoldsAll
<1>3. S \in SUBSET Values /\ Node(n) \in S
  BY <1>0, <1>2
<1>4. HoldsAll(h, S)
  <2>1. ASSUME NEW m \in 1 .. Len(h), Node(m) \in S, NEW w \in ValuesIn(h, m) PROVE w \in S
    <3>1. CASE Node(m) = Node(n)
      <4>1. m = n
        BY <1>0, <3>1, ValuesAre
      <4> QED
        BY <1>2, <2>1, <4>1
    <3>2. CASE Node(m) # Node(n)
      <4>1. PICK v \in ValuesIn(h, n) : Node(m) \in Held(h, v)
        BY <2>1, <3>2
      <4>2. w \in Held(h, v)
        BY <1>2, <2>1, <4>1 DEF HoldsAll
      <4> QED
        BY <4>2
    <3> QED
      BY <3>1, <3>2
  <2> HIDE DEF S
  <2> QED
    BY <2>1 DEF HoldsAll
<1>5. Held(h, Node(n)) \subseteq S
  <2> HIDE DEF S
  <2> QED
    BY <1>3, <1>4, HeldIsLeast
<1>6. Node(n) \in Held(h, Node(n)) /\ HoldsAll(h, Held(h, Node(n))) /\ Held(h, Node(n)) \in SUBSET Values
  BY <1>0, HeldHoldsAll
<1>7. ASSUME NEW v \in ValuesIn(h, n) PROVE Held(h, v) \subseteq Held(h, Node(n))
  <2>1. v \in Held(h, Node(n))
    BY <1>6 DEF HoldsAll
  <2> QED
    BY <1>6, <2>1, HeldIsLeast
<1>8. Held(h, Node(n)) = S
  BY <1>5, <1>6, <1>7
<1>9. \A v \in ValuesIn(h, n) : Held(h, v) = IF IsNode(v) THEN Held(h, Node(v[2])) ELSE {v}
  BY <1>0, <1>1, ValuesAre, OthersHoldThemselves
<1>10. {Held(h, v) : v \in ValuesIn(h, n)}
       = {IF IsNode(v) THEN Held(h, Node(v[2])) ELSE {v} : v \in ValuesIn(h, n)}
  BY <1>9
<1> QED
  BY <1>8, <1>10

\* The recursion of json_delete, over values that hold only what was made later,
\* comes to what is held.
Deletion(h, f) ==
  f = [n \in 1 .. Len(h) |->
         {Node(n)} \cup UNION {IF v[1] = "node" THEN f[v[2]] ELSE {v} :
                               v \in {k.value : k \in ToSet(h[n].kids)}}]

Unfolding(h, f, n) ==
  {Node(n)} \cup UNION {IF IsNode(v) THEN f[v[2]] ELSE {v} : v \in ValuesIn(h, n)}

LEMMA KidsAre ==
  ASSUME NEW h \in Seq(Nodes), NEW n \in 1 .. Len(h)
  PROVE  {k.value : k \in ToSet(h[n].kids)} = ValuesIn(h, n)
<1>1. h[n].kids \in Seq(Kids)
  BY ValuesInAreValues
<1>2. ToSet(h[n].kids) = {h[n].kids[j] : j \in 1 .. Len(h[n].kids)}
  BY <1>1 DEF ToSet
<1> QED
  BY <1>2 DEF ValuesIn

LEMMA DeletionUnfolds ==
  ASSUME NEW h \in Seq(Nodes), NEW f, Deletion(h, f), NEW n \in 1 .. Len(h)
  PROVE  f[n] = Unfolding(h, f, n)
<1>1. f[n] = {Node(n)} \cup UNION {IF v[1] = "node" THEN f[v[2]] ELSE {v} :
                                   v \in {k.value : k \in ToSet(h[n].kids)}}
  BY DEF Deletion
<1>2. {k.value : k \in ToSet(h[n].kids)} = ValuesIn(h, n)
  BY KidsAre
<1> QED
  BY <1>1, <1>2, Zenon DEF Unfolding, IsNode

LEMMA DeletionExists ==
  ASSUME NEW h, Grown(h)
  PROVE  Deletion(h, [n \in 1 .. Len(h) |-> Held(h, Node(n))])
<1> DEFINE f == [n \in 1 .. Len(h) |-> Held(h, Node(n))]
<1>0. h \in Seq(Nodes)
  BY DEF Grown
<1>1. ASSUME NEW n \in 1 .. Len(h)
      PROVE  f[n] = {Node(n)} \cup UNION {IF v[1] = "node" THEN f[v[2]] ELSE {v} :
                                          v \in {k.value : k \in ToSet(h[n].kids)}}
  <2>1. {k.value : k \in ToSet(h[n].kids)} = ValuesIn(h, n)
    BY <1>0, KidsAre
  <2>2. Held(h, Node(n)) =
           {Node(n)} \cup UNION {IF IsNode(v) THEN Held(h, Node(v[2])) ELSE {v} : v \in ValuesIn(h, n)}
    BY HeldUnfolds
  <2>3. \A v \in ValuesIn(h, n) : IsNode(v) => f[v[2]] = Held(h, Node(v[2]))
    BY <1>0 DEF Grown
  <2>4. f[n] = Held(h, Node(n))
    OBVIOUS
  <2> HIDE DEF f
  <2>5. {IF IsNode(v) THEN Held(h, Node(v[2])) ELSE {v} : v \in ValuesIn(h, n)}
        = {IF v[1] = "node" THEN f[v[2]] ELSE {v} : v \in ValuesIn(h, n)}
    BY <2>3 DEF IsNode
  <2> QED
    BY <2>1, <2>2, <2>4, <2>5, Zenon
<1>2. f = [n \in 1 .. Len(h) |-> f[n]]
  OBVIOUS
<1> HIDE DEF f
<1>3. Deletion(h, f)
  BY <1>1, <1>2 DEF Deletion
<1> QED
  BY <1>3 DEF f

\* Values hold what was made later only, so no two functions do.
LEMMA DeletionIsUnique ==
  ASSUME NEW h, Grown(h), NEW f, NEW g,
         \A n \in 1 .. Len(h) : f[n] = Unfolding(h, f, n) /\ g[n] = Unfolding(h, g, n),
         NEW n \in 1 .. Len(h)
  PROVE  f[n] = g[n]
<1> SUFFICES ASSUME f[n] # g[n] PROVE FALSE
  OBVIOUS
<1> DEFINE D == {k \in Nat : k < Len(h) /\ f[Len(h) - k] # g[Len(h) - k]}
<1>0. Len(h) \in Nat
  BY DEF Grown
<1>1. Len(h) - n \in D
  <2>1. Len(h) - n \in Nat /\ Len(h) - (Len(h) - n) = n /\ Len(h) - n < Len(h)
    BY <1>0
  <2> QED
    BY <2>1
<1>2. PICK x \in D : \A y \in D : x <= y
  BY <1>1, LeastNumber
<1> DEFINE m == Len(h) - x
<1>3. m \in 1 .. Len(h) /\ f[m] # g[m] /\ x \in Nat
  BY <1>0, <1>2
<1>4. ASSUME NEW v \in ValuesIn(h, m), IsNode(v) PROVE f[v[2]] = g[v[2]]
  <2>1. v[2] \in m + 1 .. Len(h)
    BY <1>3, <1>4 DEF Grown
  <2>2. /\ Len(h) - v[2] \in Nat /\ Len(h) - v[2] < Len(h) /\ ~ (x <= Len(h) - v[2])
        /\ Len(h) - (Len(h) - v[2]) = v[2]
    BY <1>0, <1>3, <2>1
  <2>3. Len(h) - v[2] \notin D
    BY <1>2, <2>2
  <2> QED
    BY <2>2, <2>3
<1> HIDE DEF m, D
<1>5. {IF IsNode(v) THEN f[v[2]] ELSE {v} : v \in ValuesIn(h, m)}
      = {IF IsNode(v) THEN g[v[2]] ELSE {v} : v \in ValuesIn(h, m)}
  BY <1>4
<1>6. Unfolding(h, f, m) = Unfolding(h, g, m)
  BY <1>5, Zenon DEF Unfolding
<1> QED
  BY <1>3, <1>6

\* What json_decref reaches from a reference that is the last.
Reached(x) == IF Real(x) THEN Held(heap, x) ELSE {}

LEMMA BelowIsReached ==
  ASSUME Grown(heap), NEW x \in Values, IsNode(x) => x[2] \in 1 .. Len(heap)
  PROVE  Below(x) \cap Reals = Reached(x) \cap Reals /\ Below(x) \subseteq Values
<1> DEFINE f == CHOOSE t : Deletion(heap, t)
           g == [n \in 1 .. Len(heap) |-> Held(heap, Node(n))]
<1>0. heap \in Seq(Nodes)
  BY DEF Grown
<1>1. Deletion(heap, g)
  BY DeletionExists
<1>2. Deletion(heap, f)
  <2> HIDE DEF g
  <2> QED
    BY <1>1
<1>3. ASSUME NEW n \in 1 .. Len(heap)
      PROVE  f[n] = Unfolding(heap, f, n) /\ g[n] = Unfolding(heap, g, n)
  <2> HIDE DEF f, g
  <2> QED
    BY <1>0, <1>1, <1>2, DeletionUnfolds
<1>4. CASE IsNode(x)
  <2>1. x[2] \in 1 .. Len(heap) /\ x = Node(x[2]) /\ Real(x)
    BY <1>4, ValuesAre
  <2>2. f[x[2]] = g[x[2]]
    <3> HIDE DEF f, g
    <3> QED
      BY <1>3, <2>1, DeletionIsUnique
  <2>3. g[x[2]] = Held(heap, x)
    BY <2>1
  <2>4. Below(x) = f[x[2]]
    BY <1>4 DEF Below, Deletion, IsNode
  <2> HIDE DEF f, g
  <2>5. Held(heap, x) \subseteq Values
    BY <1>0, HeldHoldsAll
  <2> QED
    BY <2>1, <2>2, <2>3, <2>4, <2>5 DEF Reached
<1>5. CASE ~IsNode(x)
  <2>1. Below(x) = {x} \ {None, Null, True}
    BY <1>5 DEF Below, IsNode
  <2>2. Held(heap, x) = {x}
    BY <1>0, <1>5, OthersHoldThemselves
  <2>3. CASE Real(x)
    <3>1. x \notin {None, Null, True}
      BY <2>3, ValuesAre
    <3> QED
      BY <2>1, <2>2, <2>3, <3>1 DEF Reached
  <2>4. CASE ~Real(x)
    <3>1. {x} \cap Reals = {}
      BY <2>4 DEF Reals
    <3> QED
      BY <3>1, <2>1, <2>4 DEF Reached
  <2> QED
    BY <2>3, <2>4
<1> QED
  BY <1>4, <1>5

-----------------------------------------------------------------------------
(* Who owns what: h are the values made, L those of them that are not      *)
(* freed, R those that the call has in its hands.                          *)

InPlace(h, L, R, y) == y \in R \/ \E n \in L : y \in ValuesIn(h, n)

Owned(h, L, R) ==
  /\ Grown(h)
  /\ L \subseteq 1 .. Len(h)
  /\ R \subseteq Reals
  /\ \A x \in R : IsNode(x) => x[2] \in L
  /\ \A n \in L : \A v \in ValuesIn(h, n) : v \notin R /\ (IsNode(v) => v[2] \in L)
  /\ \A n, m \in L : \A i \in 1 .. Len(h[n].kids), j \in 1 .. Len(h[m].kids) :
       h[n].kids[i].value = h[m].kids[j].value /\ Real(h[n].kids[i].value) => n = m /\ i = j
  /\ \A n \in L : Node(n) \in R \/ \E m \in L : Node(n) \in ValuesIn(h, m)

LEMMA OwnedIs ==
  ASSUME NEW h, NEW L, NEW R, Owned(h, L, R)
  PROVE  /\ Grown(h) /\ h \in Seq(Nodes) /\ Len(h) \in Nat
         /\ L \subseteq 1 .. Len(h) /\ L \subseteq Nat
         /\ R \subseteq Values /\ \A x \in R : Real(x) /\ (IsNode(x) => x[2] \in L)
         /\ \A n \in L : /\ Node(n) \in Values /\ ValuesIn(h, n) \subseteq Values
                         /\ \A v \in ValuesIn(h, n) : v \notin R /\ (IsNode(v) => v[2] \in L)
         /\ \A n, m \in L : \A v \in ValuesIn(h, n) : v \in ValuesIn(h, m) /\ Real(v) => n = m
<1>1. Grown(h) /\ h \in Seq(Nodes) /\ Len(h) \in Nat
  BY DEF Owned, Grown
<1>2. L \subseteq 1 .. Len(h) /\ L \subseteq Nat
  BY <1>1 DEF Owned
<1>3. R \subseteq Values /\ \A x \in R : Real(x) /\ (IsNode(x) => x[2] \in L)
  BY DEF Owned, Reals
<1>4. ASSUME NEW n \in L
      PROVE  /\ Node(n) \in Values /\ ValuesIn(h, n) \subseteq Values
             /\ \A v \in ValuesIn(h, n) : v \notin R /\ (IsNode(v) => v[2] \in L)
  BY <1>1, <1>2, ValuesAre, ValuesInAreValues DEF Owned
<1>5. ASSUME NEW n \in L, NEW m \in L, NEW v \in ValuesIn(h, n), v \in ValuesIn(h, m), Real(v)
      PROVE  n = m
  <2>1. PICK i \in 1 .. Len(h[n].kids) : h[n].kids[i].value = v
    BY DEF ValuesIn
  <2>2. PICK j \in 1 .. Len(h[m].kids) : h[m].kids[j].value = v
    BY <1>5 DEF ValuesIn
  <2> QED
    BY <1>5, <2>1, <2>2 DEF Owned
<1> QED
  BY <1>1, <1>2, <1>3, <1>4, <1>5

\* What is held by a value that is not freed is not freed.
LEMMA HeldIsLive ==
  ASSUME NEW h, NEW L, NEW R, Owned(h, L, R), NEW x \in Values, IsNode(x) => x[2] \in L
  PROVE  \A v \in Held(h, x) : IsNode(v) => v[2] \in L
<1> DEFINE S == {v \in Values : IsNode(v) => v[2] \in L}
<1>1. S \in SUBSET Values /\ x \in S
  OBVIOUS
<1>2. HoldsAll(h, S)
  <2>1. ASSUME NEW n \in 1 .. Len(h), Node(n) \in S, NEW v \in ValuesIn(h, n) PROVE v \in S
    <3>1. n \in L
      BY <2>1, ValuesAre, OwnedIs
    <3> QED
      BY <3>1, OwnedIs
  <2> HIDE DEF S
  <2> QED
    BY <2>1 DEF HoldsAll
<1>3. Held(h, x) \subseteq S
  <2> HIDE DEF S
  <2> QED
    BY <1>1, <1>2, HeldIsLeast
<1> QED
  BY <1>3

\* A root that is released: what it holds goes, and nothing else.
Without(L, gone) == {n \in L : Node(n) \notin gone}

LEMMA ReleasedIsOutOfPlace ==
  ASSUME NEW h, NEW L, NEW R, Owned(h, L, R), NEW x \in R,
         NEW y \in Values, Real(y)
  PROVE  LET gone == Held(h, x)
         IN /\ y \in gone => InPlace(h, L, R, y) /\ ~InPlace(h, Without(L, gone), R \ {x}, y)
            /\ y \notin gone => (InPlace(h, L, R, y) <=> InPlace(h, Without(L, gone), R \ {x}, y))
<1> DEFINE gone == Held(h, x)
           K == Without(L, gone)
           Q == R \ {x}
<1>0. /\ h \in Seq(Nodes) /\ L \subseteq 1 .. Len(h) /\ x \in Values /\ (IsNode(x) => x[2] \in L)
      /\ \A n \in L : \A v \in ValuesIn(h, n) : v \notin R /\ (IsNode(v) => v[2] \in L)
      /\ \A n, m \in L : \A v \in ValuesIn(h, n) : v \in ValuesIn(h, m) /\ Real(v) => n = m
      /\ L \subseteq Nat
  BY OwnedIs
<1>1. gone \in SUBSET Values /\ x \in gone /\ HoldsAll(h, gone)
  BY <1>0, HeldHoldsAll
<1>2. \A v \in gone : IsNode(v) => v[2] \in L
  BY <1>0, HeldIsLive
<1>3. \A v \in gone : v # x => \E n \in 1 .. Len(h) : Node(n) \in gone /\ v \in ValuesIn(h, n)
  BY <1>0, HeldByMember
<1>4. \A n \in 1 .. Len(h) : Node(n) \in gone => n \in L
  BY <1>2, ValuesAre
<1>5. ASSUME y \in gone
      PROVE  InPlace(h, L, R, y) /\ ~InPlace(h, K, Q, y)
  <2>1. CASE y = x
    BY <1>0, <2>1 DEF InPlace, Without
  <2>2. CASE y # x
    <3>1. PICK n \in L : Node(n) \in gone /\ y \in ValuesIn(h, n)
      BY <1>3, <1>4, <1>5, <2>2
    <3>2. \A m \in K : y \notin ValuesIn(h, m)
      BY <1>0, <3>1 DEF Without
    <3> QED
      BY <1>0, <3>1, <3>2 DEF InPlace
  <2> QED
    BY <2>1, <2>2
<1>6. ASSUME y \notin gone
      PROVE  InPlace(h, L, R, y) <=> InPlace(h, K, Q, y)
  <2>1. y # x
    BY <1>1, <1>6
  <2>2. \A n \in L : y \in ValuesIn(h, n) => n \in K
    BY <1>0, <1>1, <1>6 DEF HoldsAll, Without
  <2>3. K \subseteq L
    BY DEF Without
  <2> HIDE DEF gone, K
  <2> QED
    BY <2>1, <2>2, <2>3 DEF InPlace
<1> QED
  BY <1>5, <1>6

LEMMA ReleaseOwns ==
  ASSUME NEW h, NEW L, NEW R, Owned(h, L, R), NEW x \in R
  PROVE  Owned(h, Without(L, Held(h, x)), R \ {x})
<1> DEFINE gone == Held(h, x)
           K == Without(L, gone)
           Q == R \ {x}
<1>0. /\ Grown(h) /\ h \in Seq(Nodes) /\ L \subseteq 1 .. Len(h)
      /\ R \subseteq Values /\ \A z \in R : Real(z) /\ (IsNode(z) => z[2] \in L)
      /\ \A n \in L : /\ Node(n) \in Values /\ ValuesIn(h, n) \subseteq Values
                      /\ \A v \in ValuesIn(h, n) : v \notin R /\ (IsNode(v) => v[2] \in L)
      /\ \A n, m \in L : \A v \in ValuesIn(h, n) : v \in ValuesIn(h, m) /\ Real(v) => n = m
  BY OwnedIs
<1>1. x \in gone /\ HoldsAll(h, gone)
  BY <1>0, HeldHoldsAll
<1>2. ASSUME NEW y \in Values, Real(y)
      PROVE  /\ y \in gone => ~InPlace(h, K, Q, y)
             /\ y \notin gone => (InPlace(h, L, R, y) <=> InPlace(h, K, Q, y))
  BY <1>2, ReleasedIsOutOfPlace
<1>3. K \subseteq L /\ \A n \in L : n \in K <=> Node(n) \notin gone
  BY DEF Without
<1>4. ASSUME NEW y \in Values, IsNode(y), InPlace(h, K, Q, y) PROVE y[2] \in K
  <2>1. Real(y) /\ y = Node(y[2])
    BY <1>4, ValuesAre
  <2>2. y \notin gone
    BY <1>2, <1>4, <2>1
  <2>3. InPlace(h, L, R, y)
    BY <1>2, <1>4, <2>1, <2>2
  <2>4. y[2] \in L
    BY <1>0, <1>4, <2>3 DEF InPlace
  <2> HIDE DEF gone, K
  <2> QED
    BY <1>3, <2>1, <2>2, <2>4
<1> HIDE DEF gone, K
<1>5. \A z \in Q : IsNode(z) => z[2] \in K
  BY <1>0, <1>4 DEF InPlace
<1>6. \A n \in K : \A v \in ValuesIn(h, n) : v \notin Q /\ (IsNode(v) => v[2] \in K)
  BY <1>0, <1>3, <1>4 DEF InPlace
<1>7. \A n, m \in K : \A i \in 1 .. Len(h[n].kids), j \in 1 .. Len(h[m].kids) :
        h[n].kids[i].value = h[m].kids[j].value /\ Real(h[n].kids[i].value) => n = m /\ i = j
  BY <1>3 DEF Owned
<1>8. ASSUME NEW n \in K PROVE Node(n) \in Q \/ \E m \in K : Node(n) \in ValuesIn(h, m)
  <2>1. n \in L /\ Node(n) \notin gone /\ Node(n) \in Values /\ n \in Nat
    BY <1>0, <1>3
  <2>2. InPlace(h, L, R, Node(n))
    BY <2>1 DEF Owned, InPlace
  <2>3. Real(Node(n))
    BY <2>1, ValuesAre
  <2>4. InPlace(h, K, Q, Node(n))
    BY <1>2, <2>1, <2>2, <2>3
  <2> QED
    BY <2>4 DEF InPlace
<1>9. K \subseteq 1 .. Len(h) /\ Q \subseteq Reals
  BY <1>0, <1>3 DEF Reals
<1>10. Owned(h, K, Q)
  BY <1>0, <1>5, <1>6, <1>7, <1>8, <1>9 DEF Owned
<1> QED
  BY <1>10 DEF K, gone

\* A value is made, and is in the hands of the call.
LEMMA MakeOwns ==
  ASSUME NEW h, NEW L, NEW R, Owned(h, L, R),
         NEW g \in Seq(Nodes), Len(g) = Len(h) + 1,
         \A n \in 1 .. Len(h) : g[n] = h[n], g[Len(h) + 1].kids = << >>
  PROVE  LET K == L \cup {Len(h) + 1}
             Q == R \cup {Node(Len(h) + 1)}
         IN /\ Owned(g, K, Q)
            /\ \A y \in Values : ~IsNode(y) => (InPlace(h, L, R, y) <=> InPlace(g, K, Q, y))
<1> DEFINE new == Len(h) + 1
           K == L \cup {new}
           Q == R \cup {Node(new)}
<1>0. /\ h \in Seq(Nodes) /\ Len(h) \in Nat /\ L \subseteq 1 .. Len(h) /\ L \subseteq Nat
      /\ R \subseteq Values /\ \A x \in R : Real(x) /\ (IsNode(x) => x[2] \in L)
      /\ \A n \in L : /\ ValuesIn(h, n) \subseteq Values
                      /\ \A v \in ValuesIn(h, n) : v \notin R /\ (IsNode(v) => v[2] \in L)
  BY OwnedIs
<1>1. new \in Nat /\ new \notin 1 .. Len(h) /\ Len(g) = new /\ \A n \in 1 .. new : n = new \/ n \in 1 .. Len(h)
  BY <1>0
<1>2. ValuesIn(g, new) = {} /\ Len(g[new].kids) = 0
  BY DEF ValuesIn
<1>3. \A n \in 1 .. Len(h) : ValuesIn(g, n) = ValuesIn(h, n) /\ g[n].kids = h[n].kids
  BY DEF ValuesIn
<1>4. Node(new) \in Values /\ Real(Node(new)) /\ IsNode(Node(new)) /\ Node(new)[2] = new
  BY <1>1, ValuesAre
<1> HIDE DEF new
<1>5. Grown(g)
  <2>1. ASSUME NEW n \in 1 .. Len(g), NEW v \in ValuesIn(g, n), IsNode(v)
        PROVE  v[2] \in n + 1 .. Len(g)
    <3>1. n \in 1 .. Len(h) /\ v \in ValuesIn(h, n)
      BY <1>1, <1>2, <1>3, <2>1
    <3>2. v[2] \in n + 1 .. Len(h)
      BY <2>1, <3>1 DEF Owned, Grown
    <3>3. Len(h) <= Len(g)
      BY <1>0
    <3> QED
      BY <1>0, <1>1, <3>1, <3>2, <3>3
  <2> QED
    BY <2>1 DEF Grown
<1>6. \A n \in K : (n \in L /\ n \in 1 .. Len(h)) \/ n = new
  BY <1>0
<1>7. ASSUME NEW n \in K, NEW v \in ValuesIn(g, n)
      PROVE  v \notin Q /\ (IsNode(v) => v[2] \in K)
  <2>1. n \in L /\ v \in ValuesIn(h, n) /\ v \in Values
    BY <1>0, <1>2, <1>3, <1>6, <1>7
  <2>2. v # Node(new)
    BY <1>0, <1>1, <1>4, <2>1
  <2> QED
    BY <1>0, <2>1, <2>2
<1>8. \A n, m \in K : \A i \in 1 .. Len(g[n].kids), j \in 1 .. Len(g[m].kids) :
        g[n].kids[i].value = g[m].kids[j].value /\ Real(g[n].kids[i].value) => n = m /\ i = j
  <2>1. \A n \in K : n = new => 1 .. Len(g[n].kids) = {}
    BY <1>2
  <2>2. \A n, m \in L : \A i \in 1 .. Len(g[n].kids), j \in 1 .. Len(g[m].kids) :
        g[n].kids[i].value = g[m].kids[j].value /\ Real(g[n].kids[i].value) => n = m /\ i = j
    <3>1. \A n, m \in L : \A i \in 1 .. Len(h[n].kids), j \in 1 .. Len(h[m].kids) :
            h[n].kids[i].value = h[m].kids[j].value /\ Real(h[n].kids[i].value) => n = m /\ i = j
      BY DEF Owned
    <3>2. \A n \in L : g[n].kids = h[n].kids
      BY <1>0, <1>3
    <3>3. ASSUME NEW n \in L, NEW m \in L, NEW i \in 1 .. Len(g[n].kids), NEW j \in 1 .. Len(g[m].kids),
                 g[n].kids[i].value = g[m].kids[j].value, Real(g[n].kids[i].value)
          PROVE  n = m /\ i = j
      <4>1. g[n].kids = h[n].kids /\ g[m].kids = h[m].kids
        BY <3>2
      <4>2. i \in 1 .. Len(h[n].kids) /\ j \in 1 .. Len(h[m].kids)
        BY <4>1
      <4>3. h[n].kids[i].value = h[m].kids[j].value /\ Real(h[n].kids[i].value)
        BY <3>3, <4>1
      <4>4. \A a \in 1 .. Len(h[n].kids), b \in 1 .. Len(h[m].kids) :
              h[n].kids[a].value = h[m].kids[b].value /\ Real(h[n].kids[a].value) => n = m /\ a = b
        BY <3>1, Zenon
      <4> QED
        BY <4>2, <4>3, <4>4, Zenon
    <3> QED
      BY <3>3
  <2> QED
    BY <1>6, <2>1, <2>2
<1>9. \A n \in K : Node(n) \in Q \/ \E m \in K : Node(n) \in ValuesIn(g, m)
  <2>1. ASSUME NEW n \in L PROVE Node(n) \in Q \/ \E m \in K : Node(n) \in ValuesIn(g, m)
    <3>1. Node(n) \in R \/ \E m \in L : Node(n) \in ValuesIn(h, m)
      BY DEF Owned
    <3> QED
      BY <1>0, <1>3, <3>1
  <2> QED
    BY <1>6, <2>1
<1>10. K \subseteq 1 .. Len(g) /\ Q \subseteq Reals
  <2>1. 1 .. Len(h) \subseteq 1 .. new /\ new \in 1 .. new
    BY <1>0, <1>1 DEF new
  <2>2. K \subseteq 1 .. Len(g)
    BY <1>0, <1>1, <2>1
  <2> QED
    BY <1>0, <1>4, <2>2 DEF Reals
<1>11. \A x \in Q : IsNode(x) => x[2] \in K
  BY <1>0, <1>4
<1>12. Owned(g, K, Q)
  BY <1>5, <1>7, <1>8, <1>9, <1>10, <1>11 DEF Owned
<1>13. ASSUME NEW y \in Values, ~IsNode(y) PROVE InPlace(h, L, R, y) <=> InPlace(g, K, Q, y)
  BY <1>0, <1>2, <1>3, <1>4, <1>6, <1>13 DEF InPlace
<1> QED
  BY <1>12, <1>13 DEF new

\* A reference is taken to a value that is nowhere yet.
LEMMA TakeOwns ==
  ASSUME NEW h, NEW L, NEW R, Owned(h, L, R),
         NEW x \in Values, Real(x), ~IsNode(x), ~InPlace(h, L, R, x)
  PROVE  /\ Owned(h, L, R \cup {x})
         /\ \A y \in Values : InPlace(h, L, R \cup {x}, y) <=> y = x \/ InPlace(h, L, R, y)
<1>1. \A n \in L : x \notin ValuesIn(h, n)
  BY DEF InPlace
<1>2. R \cup {x} \subseteq Reals /\ \A z \in R \cup {x} : IsNode(z) => z[2] \in L
  BY DEF Owned, Reals
<1>3. Owned(h, L, R \cup {x})
  BY <1>1, <1>2 DEF Owned
<1> QED
  BY <1>3 DEF InPlace

\* A root, or what is no reference, becomes a kid, at a place that is new or that of
\* a kid which, if it is anything to be released, becomes a root for that.
Displaced(kids, i) == {w \in Reals : i \in 1 .. Len(kids) /\ w = kids[i].value}

Placing(h, g, n, i, x) ==
  /\ g \in Seq(Nodes) /\ Len(g) = Len(h)
  /\ \A m \in 1 .. Len(h) : m # n => g[m] = h[m]
  /\ i \in 1 .. Len(g[n].kids) /\ g[n].kids[i].value = x
  /\ 1 .. Len(g[n].kids) = 1 .. Len(h[n].kids) \cup {i}
  /\ \A j \in 1 .. Len(g[n].kids) : j # i => g[n].kids[j].value = h[n].kids[j].value

LEMMA PutOwns ==
  ASSUME NEW h, NEW L, NEW R, Owned(h, L, R),
         NEW n \in L, NEW x \in Values, Real(x) => x \in R, IsNode(x) => n < x[2],
         NEW g, NEW i, Placing(h, g, n, i, x)
  PROVE  LET Q == (R \ {x}) \cup Displaced(h[n].kids, i)
         IN /\ Owned(g, L, Q)
            /\ \A y \in Values : Real(y) => (InPlace(h, L, R, y) <=> InPlace(g, L, Q, y))
<1> USE DEF Placing
<1> DEFINE Out == Displaced(h[n].kids, i)
           Q == (R \ {x}) \cup Out
<1>0. /\ h \in Seq(Nodes) /\ Len(h) \in Nat /\ L \subseteq 1 .. Len(h) /\ L \subseteq Nat
      /\ R \subseteq Values /\ \A z \in R : Real(z) /\ (IsNode(z) => z[2] \in L)
      /\ \A m \in L : /\ ValuesIn(h, m) \subseteq Values
                      /\ \A v \in ValuesIn(h, m) : v \notin R /\ (IsNode(v) => v[2] \in L)
      /\ IsNode(x) => Real(x)
  BY OwnedIs, ValuesAre
\* The kids are the same but for that one.
<1>1. ASSUME NEW m \in L, NEW j \in 1 .. Len(g[m].kids)
      PROVE  \/ m = n /\ j = i /\ g[m].kids[j].value = x
             \/ /\ ~ (m = n /\ j = i)
                /\ j \in 1 .. Len(h[m].kids) /\ g[m].kids[j].value = h[m].kids[j].value
  <2>1. CASE m = n
    BY <2>1
  <2>2. CASE m # n
    <3>1. g[m] = h[m]
      BY <1>0, <2>2
    <3> QED
      BY <2>2, <3>1
  <2> QED
    BY <2>1, <2>2
<1>2. ASSUME NEW m \in L, NEW j \in 1 .. Len(h[m].kids), ~ (m = n /\ j = i)
      PROVE  j \in 1 .. Len(g[m].kids) /\ g[m].kids[j].value = h[m].kids[j].value
  <2>1. CASE m = n
    BY <1>2, <2>1
  <2>2. CASE m # n
    <3>1. g[m] = h[m]
      BY <1>0, <2>2
    <3> QED
      BY <3>1
  <2> QED
    BY <2>1, <2>2
<1>3. \A w \in Out : /\ w \in Values /\ Real(w)
                     /\ i \in 1 .. Len(h[n].kids) /\ w = h[n].kids[i].value /\ w \in ValuesIn(h, n)
  BY DEF Displaced, Reals, ValuesIn
<1>4. \A m \in L : \A j \in 1 .. Len(h[m].kids) :
        /\ h[m].kids[j].value \in ValuesIn(h, m) /\ h[m].kids[j].value \in Values
        /\ Real(x) => h[m].kids[j].value # x
  BY <1>0 DEF ValuesIn
<1>5. \A p, m \in L : \A k \in 1 .. Len(h[p].kids), j \in 1 .. Len(h[m].kids) :
        h[p].kids[k].value = h[m].kids[j].value /\ Real(h[p].kids[k].value) => p = m /\ k = j
  BY DEF Owned
<1>6. i \in 1 .. Len(h[n].kids) /\ Real(h[n].kids[i].value) => h[n].kids[i].value \in Out
  BY <1>4 DEF Displaced, Reals
<1>7. Out \subseteq Reals /\ R \subseteq Reals
  BY <1>0 DEF Displaced, Reals
<1> HIDE DEF Out
<1>8. Grown(g)
  <2>1. ASSUME NEW m \in 1 .. Len(g), NEW v \in ValuesIn(g, m), IsNode(v)
        PROVE  v[2] \in m + 1 .. Len(g)
    <3>1. CASE m # n
      <4>1. g[m] = h[m] /\ m \in 1 .. Len(h)
        BY <3>1
      <4>2. v \in ValuesIn(h, m)
        BY <4>1 DEF ValuesIn
      <4> QED
        BY <2>1, <4>1, <4>2 DEF Owned, Grown
    <3>2. CASE m = n
      <4>1. PICK j \in 1 .. Len(g[n].kids) : v = g[n].kids[j].value
        BY <3>2 DEF ValuesIn
      <4>2. CASE j = i
        <5>1. v = x /\ x[2] \in L /\ x[2] \in 1 .. Len(h) /\ n < x[2] /\ n \in Nat
          BY <1>0, <2>1, <4>1, <4>2
        <5> QED
          BY <1>0, <3>2, <5>1
      <4>3. CASE j # i
        <5>1. v \in ValuesIn(h, n)
          BY <1>1, <4>1, <4>3 DEF ValuesIn
        <5> QED
          BY <1>0, <2>1, <3>2, <5>1 DEF Owned, Grown
      <4> QED
        BY <4>2, <4>3
    <3> QED
      BY <3>1, <3>2
  <2> QED
    BY <2>1 DEF Grown
<1>9. ASSUME NEW m \in L, NEW j \in 1 .. Len(g[m].kids)
      PROVE  /\ g[m].kids[j].value \notin Q
             /\ IsNode(g[m].kids[j].value) => g[m].kids[j].value[2] \in L
  <2>1. CASE m = n /\ j = i /\ g[m].kids[j].value = x
    BY <1>0, <1>3, <2>1
  <2>2. CASE /\ ~ (m = n /\ j = i)
             /\ j \in 1 .. Len(h[m].kids) /\ g[m].kids[j].value = h[m].kids[j].value
    <3> DEFINE w == h[m].kids[j].value
    <3>1. w \notin R /\ (IsNode(w) => w[2] \in L)
      BY <1>0, <1>4, <2>2
    <3>2. w \notin Out
      <4>1. SUFFICES ASSUME w \in Out PROVE FALSE
        OBVIOUS
      <4>2. Real(w) /\ i \in 1 .. Len(h[n].kids) /\ w = h[n].kids[i].value
        BY <1>3, <4>1
      <4> QED
        BY <1>5, <2>2, <4>2
    <3> QED
      BY <2>2, <3>1, <3>2
  <2> QED
    BY <1>1, <2>1, <2>2
<1>10. ASSUME NEW p \in L, NEW m \in L, NEW k \in 1 .. Len(g[p].kids), NEW j \in 1 .. Len(g[m].kids),
              g[p].kids[k].value = g[m].kids[j].value, Real(g[p].kids[k].value)
       PROVE  p = m /\ k = j
  <2>1. \/ p = n /\ k = i /\ g[p].kids[k].value = x
        \/ k \in 1 .. Len(h[p].kids) /\ g[p].kids[k].value = h[p].kids[k].value
    BY <1>1
  <2>2. \/ m = n /\ j = i /\ g[m].kids[j].value = x
        \/ j \in 1 .. Len(h[m].kids) /\ g[m].kids[j].value = h[m].kids[j].value
    BY <1>1
  <2>3. CASE g[p].kids[k].value = x
    BY <1>4, <1>10, <2>1, <2>2, <2>3
  <2>4. CASE g[p].kids[k].value # x
    <3>1. k \in 1 .. Len(h[p].kids) /\ g[p].kids[k].value = h[p].kids[k].value
      BY <2>1, <2>4
    <3>2. j \in 1 .. Len(h[m].kids) /\ g[m].kids[j].value = h[m].kids[j].value
      BY <1>10, <2>2, <2>4
    <3>3. h[p].kids[k].value = h[m].kids[j].value /\ Real(h[p].kids[k].value)
      BY <1>10, <3>1, <3>2
    <3> HIDE DEF Placing
    <3> QED
      BY <1>5, <3>1, <3>2, <3>3, Zenon
  <2> QED
    BY <2>3, <2>4
<1>11. ASSUME NEW y \in Values, Real(y)
       PROVE  InPlace(h, L, R, y) <=> InPlace(g, L, Q, y)
  <2>1. ASSUME NEW m \in L, y \in ValuesIn(h, m) PROVE InPlace(g, L, Q, y)
    <3>1. PICK j \in 1 .. Len(h[m].kids) : y = h[m].kids[j].value
      BY <2>1 DEF ValuesIn
    <3>2. CASE m = n /\ j = i
      BY <1>6, <1>11, <3>1, <3>2 DEF InPlace
    <3>3. CASE ~ (m = n /\ j = i)
      <4>1. y \in ValuesIn(g, m)
        BY <1>2, <3>1, <3>3 DEF ValuesIn
      <4> QED
        BY <4>1 DEF InPlace
    <3> QED
      BY <3>2, <3>3
  <2>2. x \in ValuesIn(g, n)
    BY DEF ValuesIn
  <2>3. ASSUME y \in R PROVE InPlace(g, L, Q, y)
    BY <2>2, <2>3 DEF InPlace
  <2>4. ASSUME NEW m \in L, y \in ValuesIn(g, m) PROVE InPlace(h, L, R, y)
    <3>1. PICK j \in 1 .. Len(g[m].kids) : y = g[m].kids[j].value
      BY <2>4 DEF ValuesIn
    <3>2. y = x \/ y \in ValuesIn(h, m)
      BY <1>1, <3>1 DEF ValuesIn
    <3> QED
      BY <1>11, <3>2 DEF InPlace
  <2>5. ASSUME y \in Q PROVE InPlace(h, L, R, y)
    BY <1>3, <2>5 DEF InPlace
  <2> QED
    BY <2>1, <2>3, <2>4, <2>5 DEF InPlace
<1>12. ASSUME NEW m \in L PROVE Node(m) \in Q \/ \E p \in L : Node(m) \in ValuesIn(g, p)
  <2>1. Node(m) \in Values /\ Real(Node(m))
    BY <1>0, ValuesAre
  <2>2. InPlace(h, L, R, Node(m))
    BY DEF Owned, InPlace
  <2> QED
    BY <1>11, <2>1, <2>2 DEF InPlace
<1>13. \A z \in Q : IsNode(z) => z[2] \in L
  BY <1>0, <1>3
<1>14. \A m \in L : \A v \in ValuesIn(g, m) : v \notin Q /\ (IsNode(v) => v[2] \in L)
  BY <1>9 DEF ValuesIn
<1>15. L \subseteq 1 .. Len(g) /\ Q \subseteq Reals
  BY <1>0, <1>7
<1>16. Owned(g, L, Q)
  <2>1. \A p, m \in L : \A k \in 1 .. Len(g[p].kids), j \in 1 .. Len(g[m].kids) :
          g[p].kids[k].value = g[m].kids[j].value /\ Real(g[p].kids[k].value) => p = m /\ k = j
    BY <1>10
  <2>2. \A m \in L : Node(m) \in Q \/ \E p \in L : Node(m) \in ValuesIn(g, p)
    BY <1>12
  <2> HIDE DEF Q
  <2> QED
    BY <1>8, <1>13, <1>14, <1>15, <2>1, <2>2, Zenon DEF Owned
<1> QED
  BY <1>11, <1>16 DEF Out

\* A kid that is replaced holds the same before and after, as it holds what was made later.
LEMMA HeldLater ==
  ASSUME NEW h, Grown(h), NEW g \in Seq(Nodes), Len(g) = Len(h),
         NEW n \in Nat, \A m \in 1 .. Len(h) : m # n => g[m] = h[m],
         NEW x \in Values, IsNode(x) => n < x[2]
  PROVE  Held(g, x) = Held(h, x)
<1>0. h \in Seq(Nodes) /\ Len(h) \in Nat
  BY DEF Grown
<1> DEFINE S == {v \in Values : IsNode(v) => n < v[2]}
<1>1. Held(h, x) \subseteq S
  <2>1. S \in SUBSET Values /\ x \in S
    OBVIOUS
  <2>2. HoldsAll(h, S)
    <3>1. ASSUME NEW m \in 1 .. Len(h), Node(m) \in S, NEW v \in ValuesIn(h, m) PROVE v \in S
      <4>1. n < m /\ v \in Values
        BY <1>0, <3>1, ValuesAre, ValuesInAreValues
      <4>2. IsNode(v) => v[2] \in m + 1 .. Len(h)
        BY DEF Grown
      <4> QED
        BY <1>0, <4>1, <4>2
    <3> HIDE DEF S
    <3> QED
      BY <3>1 DEF HoldsAll
  <2> HIDE DEF S
  <2> QED
    BY <2>1, <2>2, HeldIsLeast
<1>2. Node(n) \notin Held(h, x)
  BY <1>1, ValuesAre
<1> HIDE DEF S
<1>3. \A m \in 1 .. Len(h) : m # n => ValuesIn(g, m) = ValuesIn(h, m)
  BY DEF ValuesIn
<1>4. Held(g, x) \subseteq Held(h, x)
  <2>1. Held(h, x) \in SUBSET Values /\ x \in Held(h, x) /\ HoldsAll(h, Held(h, x))
    BY <1>0, HeldHoldsAll
  <2>2. HoldsAll(g, Held(h, x))
    BY <1>2, <1>3, <2>1 DEF HoldsAll
  <2> QED
    BY <2>1, <2>2, HeldIsLeast
<1>5. Held(h, x) \subseteq Held(g, x)
  <2>1. Held(g, x) \in SUBSET Values /\ x \in Held(g, x) /\ HoldsAll(g, Held(g, x))
    BY HeldHoldsAll
  <2>2. HoldsAll(h, Held(g, x))
    BY <1>2, <1>3, <1>4, <2>1 DEF HoldsAll
  <2> QED
    BY <2>1, <2>2, HeldIsLeast
<1> QED
  BY <1>4, <1>5

\* What is in place is what the call has in its hands holds.
LEMMA PlacesAreHeld ==
  ASSUME NEW h, NEW L, NEW R, Owned(h, L, R), NEW y \in Values, Real(y)
  PROVE  InPlace(h, L, R, y) <=> \E x \in R : y \in Held(h, x)
<1>0. /\ h \in Seq(Nodes) /\ Len(h) \in Nat /\ L \subseteq 1 .. Len(h) /\ L \subseteq Nat
      /\ R \subseteq Values /\ \A z \in R : Real(z) /\ (IsNode(z) => z[2] \in L)
      /\ \A m \in L : /\ Node(m) \in Values /\ ValuesIn(h, m) \subseteq Values
                      /\ \A v \in ValuesIn(h, m) : v \notin R /\ (IsNode(v) => v[2] \in L)
  BY OwnedIs
<1>1. \A x \in R : Held(h, x) \in SUBSET Values /\ x \in Held(h, x) /\ HoldsAll(h, Held(h, x))
  BY <1>0, HeldHoldsAll
<1>2. ASSUME NEW x \in R, y \in Held(h, x) PROVE InPlace(h, L, R, y)
  <2> DEFINE S == {v \in Values : Real(v) => InPlace(h, L, R, v)}
  <2>1. S \in SUBSET Values /\ x \in S
    BY <1>0 DEF InPlace
  <2>2. ASSUME NEW m \in 1 .. Len(h), Node(m) \in S, NEW v \in ValuesIn(h, m) PROVE v \in S
    <3>1. Real(Node(m)) /\ IsNode(Node(m)) /\ Node(m)[2] = m
      BY <1>0, ValuesAre
    <3>2. InPlace(h, L, R, Node(m))
      BY <2>2, <3>1
    <3>3. m \in L
      BY <1>0, <3>1, <3>2 DEF InPlace
    <3> QED
      BY <1>0, <3>3 DEF InPlace
  <2> HIDE DEF S
  <2>3. HoldsAll(h, S)
    BY <2>2 DEF HoldsAll
  <2>4. y \in S
    BY <1>2, <2>1, <2>3, HeldIsLeast
  <2> QED
    BY <2>4 DEF S
\* The first node that no root holds would be held by one before it.
<1>3. ASSUME NEW n \in L PROVE \E x \in R : Node(n) \in Held(h, x)
  <2>1. SUFFICES ASSUME \A x \in R : Node(n) \notin Held(h, x) PROVE FALSE
    OBVIOUS
  <2> DEFINE D == {m \in L : \A x \in R : Node(m) \notin Held(h, x)}
  <2>2. n \in D /\ D \in SUBSET Nat
    BY <1>0, <2>1
  <2> HIDE DEF D
  <2>3. PICK m \in D : \A k \in D : m <= k
    BY <2>2, LeastNumber
  <2>4. m \in L /\ \A x \in R : Node(m) \notin Held(h, x)
    BY <2>3 DEF D
  <2>5. Node(m) \notin R
    BY <1>1, <2>4
  <2>6. PICK p \in L : Node(m) \in ValuesIn(h, p)
    BY <2>4, <2>5 DEF Owned
  <2>7. p < m
    <3>1. IsNode(Node(m)) /\ Node(m)[2] = m /\ p \in 1 .. Len(h) /\ m \in Nat /\ p \in Nat
      BY <1>0, <2>4, ValuesAre
    <3>2. m \in p + 1 .. Len(h)
      BY <2>6, <3>1 DEF Owned, Grown
    <3> QED
      BY <1>0, <3>1, <3>2
  <2>8. PICK x \in R : Node(p) \in Held(h, x)
    <3>1. p \notin D
      BY <1>0, <2>2, <2>3, <2>7
    <3> QED
      BY <3>1 DEF D
  <2>9. Node(m) \in Held(h, x)
    BY <1>0, <1>1, <2>6, <2>8 DEF HoldsAll
  <2> QED
    BY <2>4, <2>9
<1>4. ASSUME InPlace(h, L, R, y) PROVE \E x \in R : y \in Held(h, x)
  <2>1. CASE y \in R
    BY <1>1, <2>1
  <2>2. CASE \E n \in L : y \in ValuesIn(h, n)
    <3>1. PICK n \in L : y \in ValuesIn(h, n)
      BY <2>2
    <3>2. PICK x \in R : Node(n) \in Held(h, x)
      BY <1>3
    <3>3. y \in Held(h, x)
      BY <1>0, <1>1, <3>1, <3>2 DEF HoldsAll
    <3> QED
      BY <3>3
  <2> QED
    BY <1>4, <2>1, <2>2 DEF InPlace
<1> QED
  BY <1>2, <1>4

-----------------------------------------------------------------------------
(* What the call has in its hands: the containers begun, each made after   *)
(* the one around it, and what was returned, made after them all.          *)

RootsOf(s, r) == {Node(s[i].node) : i \in 1 .. Len(s)} \cup {x \in {r} : Real(x)}
Ranked(s, r) ==
  /\ \A i, j \in 1 .. Len(s) : i < j => s[i].node < s[j].node
  /\ IsNode(r) => \A i \in 1 .. Len(s) : s[i].node < r[2]

Roots == RootsOf(stack, ret)

LEMMA RootsAre ==
  ASSUME NEW s \in Seq(Begun), NEW r \in Values
  PROVE  /\ ~Real(r) => RootsOf(s, r) = RootsOf(s, None)
         /\ Real(r) => RootsOf(s, r) = RootsOf(s, None) \cup {r}
         /\ Real(r) /\ Ranked(s, r) => r \notin RootsOf(s, None)
         /\ ~Real(r) /\ Ranked(s, None) => Ranked(s, r)
         /\ Ranked(s, r) => Ranked(s, None)
         /\ RootsOf(s, None) = {Node(s[i].node) : i \in 1 .. Len(s)}
<1>1. ~Real(None) /\ ~IsNode(None)
  BY ValuesAre
<1>2. RootsOf(s, None) = {Node(s[i].node) : i \in 1 .. Len(s)}
  BY <1>1 DEF RootsOf
<1>3. ~Real(r) => RootsOf(s, r) = RootsOf(s, None)
  BY <1>2 DEF RootsOf
<1>4. Real(r) => RootsOf(s, r) = RootsOf(s, None) \cup {r}
  BY <1>2 DEF RootsOf
<1>5. ASSUME Real(r), Ranked(s, r), r \in RootsOf(s, None) PROVE FALSE
  <2>1. PICK i \in 1 .. Len(s) : r = Node(s[i].node)
    BY <1>2, <1>5
  <2>2. s[i] \in Begun
    OBVIOUS
  <2>3. s[i].node \in Nat
    BY <2>2 DEF Begun
  <2>4. IsNode(r) /\ r[2] = s[i].node
    BY <2>1, <2>3, ValuesAre
  <2> QED
    BY <1>5, <2>3, <2>4 DEF Ranked
<1>6. (~Real(r) => ~IsNode(r)) /\ (Ranked(s, r) => Ranked(s, None))
  BY <1>1 DEF Real, IsNode, Ranked
<1>7. ~Real(r) /\ Ranked(s, None) => Ranked(s, r)
  BY <1>6 DEF Ranked
<1> QED
  BY <1>2, <1>3, <1>4, <1>5, <1>6, <1>7

LEMMA SameRoots ==
  ASSUME NEW s, NEW t, SameLevels(s, t), NEW r
  PROVE  RootsOf(t, r) = RootsOf(s, r) /\ (Ranked(s, r) => Ranked(t, r))
  BY DEF SameLevels, RootsOf, Ranked

LEMMA FrontRoots ==
  ASSUME NEW s \in Seq(Begun), s # << >>, Ranked(s, None)
  PROVE  /\ RootsOf(s, None) = RootsOf(Front(s), None) \cup {Node(Last(s).node)}
         /\ Node(Last(s).node) \notin RootsOf(Front(s), None)
         /\ Ranked(Front(s), None) /\ Ranked(Front(s), Node(Last(s).node))
         /\ Last(s).node \in Nat
<1> DEFINE t == Front(s)
           n == Len(s)
<1>1. /\ n \in Nat \ {0} /\ t \in Seq(Begun) /\ Len(t) = n - 1
      /\ \A i \in 1 .. n - 1 : t[i] = s[i]
      /\ Last(s) = s[n] /\ Last(s) \in Begun
  BY FrontAndLast
<1> DEFINE x == Node(s[n].node)
<1>2. /\ RootsOf(s, None) = {Node(s[i].node) : i \in 1 .. n}
      /\ RootsOf(t, None) = {Node(t[i].node) : i \in 1 .. n - 1}
  BY <1>1, RootsAre, ValuesAreTyped
<1>3. \A i \in 1 .. n : s[i] \in Begun /\ s[i].node \in Nat
  <2>1. \A f \in Begun : f.node \in Nat
    BY DEF Begun
  <2>2. \A i \in 1 .. n : s[i] \in Begun
    OBVIOUS
  <2> QED
    BY <2>1, <2>2
<1>4. \A i, j \in 1 .. n : i < j => s[i].node < s[j].node
  BY DEF Ranked
<1>5. x \in Values /\ IsNode(x) /\ x[2] = s[n].node /\ s[n].node \in Nat
  BY <1>1, <1>3, ValuesAre
<1> HIDE DEF t, n
<1>6. \A i \in 1 .. n : i = n \/ i \in 1 .. n - 1
  BY <1>1
<1>7. \A i \in 1 .. n - 1 : i \in 1 .. n /\ i < n /\ t[i] = s[i]
  BY <1>1
<1>8. RootsOf(s, None) = RootsOf(t, None) \cup {x}
  <2>1. RootsOf(t, None) = {Node(s[i].node) : i \in 1 .. n - 1}
    BY <1>2, <1>7
  <2> QED
    BY <1>1, <1>2, <1>6, <1>7, <2>1
<1>9. Ranked(t, x)
  <2>1. \A i, j \in 1 .. n - 1 : i < j => t[i].node < t[j].node
    BY <1>4, <1>7
  <2>2. \A i \in 1 .. n - 1 : t[i].node < x[2]
    <3>1. n \in 1 .. n
      BY <1>1
    <3> QED
      BY <1>4, <1>5, <1>7, <3>1
  <2> QED
    BY <1>1, <2>1, <2>2 DEF Ranked
<1>10. x \notin RootsOf(t, None) /\ Ranked(t, None)
  BY <1>1, <1>5, <1>9, RootsAre DEF Real, IsNode
<1> QED
  BY <1>1, <1>5, <1>8, <1>9, <1>10 DEF t, n

LEMMA AppendRoots ==
  ASSUME NEW s \in Seq(Begun), NEW frame \in Begun, Ranked(s, None),
         \A i \in 1 .. Len(s) : s[i].node < frame.node
  PROVE  LET t == Append(s, frame)
         IN RootsOf(t, None) = RootsOf(s, None) \cup {Node(frame.node)} /\ Ranked(t, None)
<1> DEFINE t == Append(s, frame)
           n == Len(s)
<1>1. n \in Nat /\ t \in Seq(Begun) /\ Len(t) = n + 1 /\ t[n + 1] = frame /\ \A i \in 1 .. n : t[i] = s[i]
  OBVIOUS
<1>2. \A i, j \in 1 .. n : i < j => s[i].node < s[j].node
  BY DEF Ranked
<1>3. /\ RootsOf(s, None) = {Node(s[i].node) : i \in 1 .. n}
      /\ RootsOf(t, None) = {Node(t[i].node) : i \in 1 .. n + 1}
  BY <1>1, RootsAre, ValuesAreTyped
<1>4. \A i \in 1 .. n : s[i].node < frame.node
  OBVIOUS
<1> HIDE DEF t, n
<1>5. \A i \in 1 .. n + 1 : i = n + 1 \/ i \in 1 .. n
  BY <1>1
<1>6. \A i \in 1 .. n : i \in 1 .. n + 1
  BY <1>1
<1>7. RootsOf(t, None) = RootsOf(s, None) \cup {Node(frame.node)}
  <2>1. RootsOf(s, None) = {Node(t[i].node) : i \in 1 .. n}
    BY <1>1, <1>3
  <2>2. n + 1 \in 1 .. n + 1 /\ t[n + 1] = frame
    BY <1>1
  <2> QED
    BY <1>3, <1>5, <1>6, <2>1, <2>2
<1>8. \A i, j \in 1 .. n + 1 : i < j => t[i].node < t[j].node
  <2>1. ASSUME NEW i \in 1 .. n + 1, NEW j \in 1 .. n + 1, i < j PROVE t[i].node < t[j].node
    <3>1. i \in 1 .. n
      BY <1>1, <2>1
    <3>2. CASE j = n + 1
      BY <1>1, <1>4, <3>1, <3>2
    <3>3. CASE j # n + 1
      BY <1>1, <1>2, <1>5, <2>1, <3>1, <3>3
    <3> QED
      BY <3>2, <3>3
  <2> QED
    BY <2>1
<1>9. Ranked(t, None)
  <2>1. ~IsNode(None)
    BY ValuesAre
  <2> QED
    BY <1>1, <1>8, <2>1 DEF Ranked
<1> QED
  BY <1>7, <1>9 DEF t

-----------------------------------------------------------------------------
(* What is owned, and the references to the arguments                      *)

Placed(k) == InPlace(heap, live, Roots, Given(k))
\* The references to an argument but for the one of what is in the value.
Spare(k) == held[k] - (IF Placed(k) THEN 1 ELSE 0)

\* The members of an object have different keys.
Apart(h) ==
  \A n \in 1 .. Len(h) : Curly(h[n].of) =>
    \A i, j \in 1 .. Len(h[n].kids) : h[n].kids[i].key = h[n].kids[j].key => i = j

Holding ==
  /\ Owned(heap, live, Roots)
  /\ Ranked(stack, ret)
  /\ Apart(heap)
  /\ held \in [1 .. Len(args) -> Int]
  /\ \A k \in Nat : Placed(k) => k \in 1 .. taken

Counted ==
  ~strayed =>
    \A k \in 1 .. Len(args) : args[k].kind = "JSON" /\ args[k].value # None =>
      Spare(k) = IF k <= taken /\ args[k].from = "o" THEN 0 ELSE 1

\* What a step does that takes no reference.
Balanced ==
  /\ Owned(heap, live, Roots)'
  /\ Ranked(stack, ret)'
  /\ Apart(heap)'
  /\ held' \in [1 .. Len(args) -> Int]
  /\ \A k \in Nat : Placed(k)' => Placed(k)
  /\ \A k \in 1 .. Len(args) : Spare(k)' = Spare(k)

LEMMA BalancedHolds ==
  ASSUME Control, Holding, Counted, Balanced, args' = args,
         taken' \in 0 .. Len(args), taken <= taken',
         strayed => strayed',
         ~strayed' => \A k \in taken + 1 .. taken' : args[k].kind # "JSON"
  PROVE  Holding' /\ Counted'
<1>1. Len(args) \in Nat /\ taken \in 0 .. Len(args)
  BY DEF Control, ArgsFit
<1>2. \A k \in Nat : Placed(k)' => k \in 1 .. taken'
  BY <1>1 DEF Holding, Balanced
<1>3. Holding'
  BY <1>2 DEF Holding, Balanced
<1>4. ASSUME ~strayed', NEW k \in 1 .. Len(args), args[k].kind = "JSON", args[k].value # None
      PROVE  Spare(k)' = IF k <= taken' /\ args[k].from = "o" THEN 0 ELSE 1
  <2>1. Spare(k)' = Spare(k)
    BY DEF Balanced
  <2>2. Spare(k) = IF k <= taken /\ args[k].from = "o" THEN 0 ELSE 1
    BY <1>4 DEF Counted
  <2>3. k <= taken' <=> k <= taken
    BY <1>1, <1>4
  <2> QED
    BY <2>1, <2>2, <2>3
<1>5. Counted'
  BY <1>4 DEF Counted
<1> QED
  BY <1>3, <1>5

\* Nothing is made and nothing released.
LEMMA RestsBalanced ==
  ASSUME Control, Holding, heap' = heap, live' = live, held' = held,
         stack' \in Seq(Begun), ret' \in Values,
         Roots' = Roots, Ranked(stack, ret)'
  PROVE  Balanced
<1>1. Owned(heap, live, Roots)' /\ Apart(heap)' /\ held' \in [1 .. Len(args) -> Int]
  BY DEF Holding
<1>2. ASSUME NEW k PROVE Placed(k)' = Placed(k) /\ Spare(k)' = Spare(k)
  <2>1. Placed(k)' <=> Placed(k)
    BY DEF Placed
  <2> QED
    BY <2>1 DEF Placed, Spare
<1> QED
  BY <1>1, <1>2 DEF Balanced

LEMMA LevelsBalanced ==
  ASSUME Control, Holding, heap' = heap, live' = live, held' = held,
         SameLevels(stack, stack'), stack' \in Seq(Begun),
         ret' = ret \/ (~Real(ret) /\ ~Real(ret')), ret' \in Values
  PROVE  Balanced
<1>1. stack \in Seq(Begun) /\ ret \in Values
  BY DEF Control, Typed
<1>2. RootsOf(stack', ret') = RootsOf(stack, ret') /\ (Ranked(stack, ret') => Ranked(stack', ret'))
  BY SameRoots
<1>3. RootsOf(stack, ret') = RootsOf(stack, ret) /\ Ranked(stack, ret')
  BY <1>1, RootsAre DEF Holding
<1> QED
  BY <1>2, <1>3, RestsBalanced DEF Roots

\* A value is made, for what is returned or for a container begun.
LEMMA MakesBalanced ==
  ASSUME Control, Holding, NEW kind \in Makes, GrowsBy(kind), held' = held, ~Real(ret),
         stack' \in Seq(Begun), ret' \in Values,
         Roots' = Roots \cup {Fresh}, Ranked(stack, ret)'
  PROVE  Balanced
<1> DEFINE new == Len(heap) + 1
<1>1. /\ heap' \in Seq(Nodes) /\ Len(heap') = Len(heap) + 1
      /\ \A n \in 1 .. Len(heap) : heap'[n] = heap[n]
      /\ heap'[new].kids = << >>
      /\ live' = live \cup {new} /\ Fresh = Node(new)
  BY DEF GrowsBy
<1>2. Owned(heap, live, Roots)
  BY DEF Holding
<1>3. /\ Owned(heap', live \cup {new}, Roots \cup {Node(new)})
      /\ \A y \in Values : ~IsNode(y) =>
           (InPlace(heap, live, Roots, y) <=> InPlace(heap', live \cup {new}, Roots \cup {Node(new)}, y))
  BY <1>1, <1>2, MakeOwns
<1>4. Owned(heap', live', Roots')
  BY <1>1, <1>3
<1>5. ASSUME NEW k \in Nat PROVE Placed(k)' <=> Placed(k)
  <2>1. Given(k) \in Values /\ ~IsNode(Given(k))
    BY ValuesAre
  <2>2. Placed(k)' <=> InPlace(heap', live', Roots', Given(k))
    BY DEF Placed
  <2> QED
    BY <1>1, <1>3, <2>1, <2>2 DEF Placed
<1>6. Apart(heap')
  <2>1. heap \in Seq(Nodes) /\ Len(heap) \in Nat /\ Len(heap'[new].kids) = 0
    BY <1>1 DEF Control, Typed
  <2>2. \A n \in 1 .. Len(heap') : n \in 1 .. Len(heap) \/ n = new
    BY <1>1, <2>1
  <2>3. \A n \in 1 .. Len(heap) : Curly(heap[n].of) =>
          \A i, j \in 1 .. Len(heap[n].kids) : heap[n].kids[i].key = heap[n].kids[j].key => i = j
    BY DEF Holding, Apart
  <2>4. 1 .. Len(heap'[new].kids) = {}
    BY <2>1
  <2>5. ASSUME NEW n \in 1 .. Len(heap'), Curly(heap'[n].of)
        PROVE  \A i, j \in 1 .. Len(heap'[n].kids) : heap'[n].kids[i].key = heap'[n].kids[j].key => i = j
    <3>1. CASE n = new
      BY <2>4, <3>1
    <3>2. CASE n \in 1 .. Len(heap)
      <4>1. heap'[n] = heap[n]
        BY <1>1, <3>2
      <4> QED
        BY <2>3, <2>5, <3>2, <4>1
    <3> QED
      BY <2>2, <3>1, <3>2
  <2> QED
    BY <2>5 DEF Apart
<1>7. held' \in [1 .. Len(args) -> Int] /\ Len(args) \in Nat
  BY DEF Holding, Control, ArgsFit
<1>8. ASSUME NEW k \in 1 .. Len(args) PROVE Spare(k)' = Spare(k)
  <2>1. k \in Nat
    BY <1>7
  <2>2. Placed(k)' <=> Placed(k)
    BY <1>5, <2>1
  <2> QED
    BY <2>2 DEF Spare
<1> QED
  BY <1>4, <1>5, <1>6, <1>7, <1>8 DEF Balanced

\* A release, of what may hold no reference at all.
LEMMA ReleaseIs ==
  ASSUME Control, Holding, NEW x \in Values, IsNode(x) => x[2] \in 1 .. Len(heap), Release({x})
  PROVE  /\ live' = IF Real(x) THEN Without(live, Held(heap, x)) ELSE live
         /\ held' \in [1 .. Len(args) -> Int]
         /\ \A k \in 1 .. Len(args) :
              held'[k] = held[k] - (IF Real(x) /\ Given(k) \in Held(heap, x) THEN 1 ELSE 0)
<1>1. Grown(heap) /\ live \subseteq Nat /\ held \in [1 .. Len(args) -> Int] /\ Len(args) \in Nat
  BY OwnedIs DEF Holding, Control, ArgsFit
<1>2. Below(x) \cap Reals = Reached(x) \cap Reals
  BY <1>1, BelowIsReached
<1> DEFINE gone == Below(x)
<1>3. UNION {Below(y) : y \in {x}} = gone
  OBVIOUS
<1>4. /\ live' = {n \in live : Node(n) \notin gone}
      /\ held' = [k \in DOMAIN held |-> held[k] - IF Given(k) \in gone THEN 1 ELSE 0]
  BY <1>3 DEF Release
<1> HIDE DEF gone
<1>5. \A y \in Reals : y \in gone <=> Real(x) /\ y \in Held(heap, x)
  BY <1>2 DEF gone, Reached
<1>6. \A n \in Nat : Node(n) \in Reals /\ Given(n) \in Reals
  BY ValuesAre DEF Reals
<1>7. live' = IF Real(x) THEN Without(live, Held(heap, x)) ELSE live
  BY <1>1, <1>4, <1>5, <1>6 DEF Without
<1>8. DOMAIN held = 1 .. Len(args) /\ \A k \in 1 .. Len(args) : held[k] \in Int /\ k \in Nat
  BY <1>1
<1>9. held' = [k \in 1 .. Len(args) |-> held[k] - IF Given(k) \in gone THEN 1 ELSE 0]
  BY <1>4, <1>8
<1>10. held' \in [1 .. Len(args) -> Int]
  BY <1>8, <1>9
<1>11. ASSUME NEW k \in 1 .. Len(args)
       PROVE  held'[k] = held[k] - (IF Real(x) /\ Given(k) \in Held(heap, x) THEN 1 ELSE 0)
  <2>1. Given(k) \in gone <=> Real(x) /\ Given(k) \in Held(heap, x)
    BY <1>5, <1>6, <1>8
  <2> QED
    BY <1>9, <2>1
<1> QED
  BY <1>7, <1>10, <1>11

LEMMA ReleaseOfNothingIs ==
  ASSUME Control, Holding, Release({})
  PROVE  live' = live /\ held' = held
<1>1. UNION {Below(x) : x \in {}} = {}
  OBVIOUS
<1>2. live' = {n \in live : Node(n) \notin {}} /\ held' = [k \in DOMAIN held |-> held[k] - 0]
  BY <1>1 DEF Release
<1>3. held \in [1 .. Len(args) -> Int]
  BY DEF Holding
<1> QED
  BY <1>2, <1>3

\* What a release does to what is held.
LEMMA GoneIsBalanced ==
  ASSUME NEW h, NEW L, NEW R, Owned(h, L, R), NEW x \in R
  PROVE  LET K == Without(L, Held(h, x))
             Q == R \ {x}
         IN /\ Owned(h, K, Q)
            /\ \A k \in Nat : InPlace(h, K, Q, Given(k)) => InPlace(h, L, R, Given(k))
            /\ \A k \in Nat : \A c \in Int :
                 (c - (IF Given(k) \in Held(h, x) THEN 1 ELSE 0)) - (IF InPlace(h, K, Q, Given(k)) THEN 1 ELSE 0)
                 = c - (IF InPlace(h, L, R, Given(k)) THEN 1 ELSE 0)
<1> DEFINE gone == Held(h, x)
           K == Without(L, gone)
           Q == R \ {x}
<1>1. Owned(h, K, Q)
  BY ReleaseOwns
<1>2. ASSUME NEW k \in Nat
      PROVE  /\ Given(k) \in gone => InPlace(h, L, R, Given(k)) /\ ~InPlace(h, K, Q, Given(k))
             /\ Given(k) \notin gone => (InPlace(h, L, R, Given(k)) <=> InPlace(h, K, Q, Given(k)))
  <2>1. Given(k) \in Values /\ Real(Given(k))
    BY ValuesAre
  <2> QED
    BY <2>1, ReleasedIsOutOfPlace
<1> HIDE DEF gone, K, Q
<1>3. ASSUME NEW k \in Nat, NEW c \in Int
      PROVE  (c - (IF Given(k) \in gone THEN 1 ELSE 0)) - (IF InPlace(h, K, Q, Given(k)) THEN 1 ELSE 0)
             = c - (IF InPlace(h, L, R, Given(k)) THEN 1 ELSE 0)
  BY <1>2
<1>4. \A k \in Nat : InPlace(h, K, Q, Given(k)) => InPlace(h, L, R, Given(k))
  BY <1>2
<1> QED
  BY <1>1, <1>3, <1>4 DEF gone, K, Q

LEMMA ReleaseBalanced ==
  ASSUME Control, Holding, NEW x \in Values, Real(x) => x \in Roots, Release({x}), heap' = heap,
         stack' \in Seq(Begun), ret' \in Values,
         Roots' = Roots \ {x}, Ranked(stack, ret)'
  PROVE  Balanced
<1>1. Owned(heap, live, Roots) /\ Len(args) \in Nat /\ held \in [1 .. Len(args) -> Int] /\ Apart(heap')
  BY DEF Holding, Control, ArgsFit
<1>2. IsNode(x) => x[2] \in 1 .. Len(heap)
  BY <1>1, ValuesAre, OwnedIs
<1>3. /\ live' = IF Real(x) THEN Without(live, Held(heap, x)) ELSE live
      /\ held' \in [1 .. Len(args) -> Int]
      /\ \A k \in 1 .. Len(args) :
           held'[k] = held[k] - (IF Real(x) /\ Given(k) \in Held(heap, x) THEN 1 ELSE 0)
  BY <1>2, ReleaseIs
<1>4. CASE Real(x)
  <2> DEFINE K == Without(live, Held(heap, x))
             Q == Roots \ {x}
  <2>1. /\ Owned(heap, K, Q)
        /\ \A k \in Nat : InPlace(heap, K, Q, Given(k)) => InPlace(heap, live, Roots, Given(k))
        /\ \A k \in Nat : \A c \in Int :
             (c - (IF Given(k) \in Held(heap, x) THEN 1 ELSE 0)) - (IF InPlace(heap, K, Q, Given(k)) THEN 1 ELSE 0)
             = c - (IF InPlace(heap, live, Roots, Given(k)) THEN 1 ELSE 0)
    BY <1>1, <1>4, GoneIsBalanced
  <2>2. live' = K /\ Roots' = Q
    BY <1>3, <1>4
  <2> HIDE DEF K, Q
  <2>3. Owned(heap, live, Roots)'
    BY <2>1, <2>2
  <2>4. ASSUME NEW k PROVE Placed(k)' <=> InPlace(heap, K, Q, Given(k))
    BY <2>2 DEF Placed
  <2>5. \A k \in Nat : Placed(k)' => Placed(k)
    BY <2>1, <2>4 DEF Placed
  <2>6. ASSUME NEW k \in 1 .. Len(args) PROVE Spare(k)' = Spare(k)
    <3>1. k \in Nat /\ held[k] \in Int
      BY <1>1
    <3>2. held'[k] = held[k] - (IF Given(k) \in Held(heap, x) THEN 1 ELSE 0)
      BY <1>3, <1>4
    <3>3. (held[k] - (IF Given(k) \in Held(heap, x) THEN 1 ELSE 0)) - (IF InPlace(heap, K, Q, Given(k)) THEN 1 ELSE 0)
          = held[k] - (IF InPlace(heap, live, Roots, Given(k)) THEN 1 ELSE 0)
      BY <2>1, <3>1
    <3>4. Spare(k)' = held'[k] - (IF InPlace(heap, K, Q, Given(k)) THEN 1 ELSE 0)
      BY <2>4 DEF Spare
    <3> QED
      BY <3>2, <3>3, <3>4 DEF Spare, Placed
  <2> QED
    BY <1>1, <1>3, <2>3, <2>5, <2>6 DEF Balanced
<1>5. CASE ~Real(x)
  <2>1. live' = live /\ \A k \in 1 .. Len(args) : held'[k] = held[k]
    BY <1>1, <1>3, <1>5
  <2>2. held' = held
    BY <1>1, <1>3, <2>1
  <2>3. Roots' = Roots
    BY <1>1, <1>5, OwnedIs
  <2> QED
    BY <2>1, <2>2, <2>3, RestsBalanced
<1> QED
  BY <1>4, <1>5

\* The kids of the container around what is put into it, and what is displaced by it.
TakesMember(kids, key, x) ==
  LET new == WithMember(kids, key, x)
  IN \E i \in 1 .. Len(new) :
       /\ new[i].value = x
       /\ 1 .. Len(new) = 1 .. Len(kids) \cup {i}
       /\ \A j \in 1 .. Len(new) : j # i => new[j].value = kids[j].value
       /\ \A p, q \in 1 .. Len(new) : new[p].key = new[q].key => p = q
       /\ \/ i \in 1 .. Len(kids) /\ Replaced(kids, key) = {kids[i].value}
          \/ i \notin 1 .. Len(kids) /\ Replaced(kids, key) = {}

LEMMA MemberIsPut ==
  ASSUME NEW kids \in Seq(Kids), NEW key \in Texts, NEW x \in Values,
         \A i, j \in 1 .. Len(kids) : kids[i].key = kids[j].key => i = j
  PROVE  TakesMember(kids, key, x)
<1> DEFINE kid == [key |-> key, value |-> x]
           new == WithMember(kids, key, x)
           n == Len(kids)
<1>1. n \in Nat /\ DOMAIN kids = 1 .. n /\ kid.key = key /\ kid.value = x
  OBVIOUS
<1> HIDE DEF kid
<1>2. Same(key, kids) = {i \in 1 .. n : kids[i].key = key}
  BY <1>1 DEF Same
<1>3. CASE Same(key, kids) = {}
  <2>1. new = Append(kids, kid)
    BY <1>3 DEF WithMember, kid
  <2> HIDE DEF new
  <2>2. Len(new) = n + 1 /\ new[n + 1] = kid /\ \A j \in 1 .. n : new[j] = kids[j]
    BY <2>1
  <2> HIDE DEF n
  <2>3. n + 1 \in 1 .. Len(new) /\ n + 1 \notin 1 .. n /\ 1 .. Len(new) = 1 .. n \cup {n + 1}
    BY <1>1, <2>2
  <2>4. \A j \in 1 .. Len(new) : j # n + 1 => j \in 1 .. n /\ new[j] = kids[j] /\ new[j].key # key
    BY <1>2, <1>3, <2>2, <2>3
  <2>5. \A p, q \in 1 .. n : kids[p].key = kids[q].key => p = q
    BY DEF n
  <2>6. \A p, q \in 1 .. Len(new) : new[p].key = new[q].key => p = q
    BY <1>1, <2>2, <2>4, <2>5
  <2>7. Replaced(kids, key) = {}
    BY <1>3 DEF Replaced
  <2>8. new[n + 1].value = x
    BY <1>1, <2>2
  <2> QED
    BY <2>3, <2>4, <2>6, <2>7, <2>8 DEF n, new, TakesMember
<1>4. CASE Same(key, kids) # {}
  <2>1. PICK i \in 1 .. n : kids[i].key = key
    BY <1>2, <1>4
  <2>2. Same(key, kids) = {i}
    BY <1>2, <2>1
  <2>3. new = [j \in 1 .. n |-> IF j = i THEN kid ELSE kids[j]]
    BY <1>1, <1>4, <2>2 DEF WithMember, kid
  <2>4. new \in Seq(Kids)
    BY WithMemberIsTyped
  <2> HIDE DEF new
  <2>5. Len(new) = n
    BY <1>1, <2>3, <2>4
  <2>6. new[i] = kid /\ \A j \in 1 .. n : j # i => new[j] = kids[j]
    BY <2>3
  <2>7. Replaced(kids, key) = {kids[i].value}
    BY <2>2 DEF Replaced
  <2>8. \A p, q \in 1 .. n : kids[p].key = kids[q].key => p = q
    OBVIOUS
  <2> HIDE DEF n
  <2>9. \A p \in 1 .. n : new[p].key = kids[p].key
    BY <1>1, <2>1, <2>6
  <2>10. \A p, q \in 1 .. n : new[p].key = new[q].key => p = q
    BY <2>8, <2>9
  <2>11. i \in 1 .. Len(new) /\ new[i].value = x /\ 1 .. Len(new) = 1 .. n \cup {i}
    BY <1>1, <2>5, <2>6
  <2>12. \A j \in 1 .. Len(new) : j # i => new[j].value = kids[j].value
    BY <2>5, <2>6
  <2>13. \A p, q \in 1 .. Len(new) : new[p].key = new[q].key => p = q
    BY <2>5, <2>10
  <2> QED
    BY <2>7, <2>11, <2>12, <2>13 DEF n, new, TakesMember
<1> QED
  BY <1>3, <1>4

LEMMA ItemIsPut ==
  ASSUME NEW kids \in Seq(Kids), NEW kid \in Kids
  PROVE  LET new == Append(kids, kid)
         IN \E i \in 1 .. Len(new) :
              /\ new[i].value = kid.value
              /\ 1 .. Len(new) = 1 .. Len(kids) \cup {i}
              /\ \A j \in 1 .. Len(new) : j # i => new[j].value = kids[j].value
              /\ i \notin 1 .. Len(kids)
<1> DEFINE new == Append(kids, kid)
           n == Len(kids)
<1>1. n \in Nat /\ Len(new) = n + 1 /\ new[n + 1] = kid /\ \A j \in 1 .. n : new[j] = kids[j]
  OBVIOUS
<1> HIDE DEF new, n
<1>2. n + 1 \in 1 .. Len(new) /\ n + 1 \notin 1 .. n /\ 1 .. Len(new) = 1 .. n \cup {n + 1}
  BY <1>1
<1>3. \A j \in 1 .. Len(new) : j # n + 1 => new[j].value = kids[j].value
  BY <1>1, <1>2
<1>4. new[n + 1].value = kid.value
  BY <1>1
<1> QED
  BY <1>2, <1>3, <1>4 DEF new, n

LEMMA PutKidsAre ==
  ASSUME Control, Holding, stack # << >>
  PROVE  LET kids == heap[Top.node].kids
         IN \E i \in 1 .. Len(PutKids) :
              /\ PutKids[i].value = ret
              /\ 1 .. Len(PutKids) = 1 .. Len(kids) \cup {i}
              /\ \A j \in 1 .. Len(PutKids) : j # i => PutKids[j].value = kids[j].value
              /\ Curly(heap[Top.node].of) =>
                   \A p, q \in 1 .. Len(PutKids) : PutKids[p].key = PutKids[q].key => p = q
              /\ \/ i \in 1 .. Len(kids) /\ PutOut = {kids[i].value}
                 \/ i \notin 1 .. Len(kids) /\ PutOut = {}
<1> DEFINE kids == heap[Top.node].kids
           kid == [key |-> NoKey, value |-> ret]
<1>1. /\ Top.node \in 1 .. Len(heap) /\ heap[Top.node].of = Top.of
      /\ heap[Top.node] \in Nodes /\ Top \in Begun /\ ret \in Values
  BY TopIsBegun DEF Control, Typed
<1>2. kids \in Seq(Kids) /\ Top.key \in Texts
  BY <1>1 DEF Nodes, Begun
<1>3. kid \in Kids /\ kid.value = ret
  BY <1>1, TextsAreTyped DEF Kids
<1>4. /\ PutKids = IF Curly(Top.of) THEN WithMember(kids, Top.key, ret) ELSE Append(kids, kid)
      /\ PutOut = IF Curly(Top.of) THEN Replaced(kids, Top.key) ELSE {}
  BY Zenon DEF PutKids, PutOut, Curly, Contents
<1>5. CASE Curly(Top.of)
  <2>1. \A p, q \in 1 .. Len(kids) : kids[p].key = kids[q].key => p = q
    BY <1>1, <1>5 DEF Holding, Apart
  <2> HIDE DEF kids
  <2>2. PutKids = WithMember(kids, Top.key, ret) /\ PutOut = Replaced(kids, Top.key)
    BY <1>4, <1>5
  <2>3. kids \in Seq(Kids) /\ Top.key \in Texts /\ ret \in Values
    BY <1>1, <1>2
  <2>4. TakesMember(kids, Top.key, ret)
    BY <2>1, <2>3, MemberIsPut
  <2> QED
    BY <2>2, <2>4 DEF TakesMember, kids
<1>6. CASE ~Curly(Top.of)
  <2>1. PutKids = Append(kids, kid) /\ PutOut = {}
    BY <1>4, <1>6
  <2> HIDE DEF kids, kid
  <2>2. PICK i \in 1 .. Len(PutKids) :
              /\ PutKids[i].value = kid.value
              /\ 1 .. Len(PutKids) = 1 .. Len(kids) \cup {i}
              /\ \A j \in 1 .. Len(PutKids) : j # i => PutKids[j].value = kids[j].value
              /\ i \notin 1 .. Len(kids)
    BY <1>2, <1>3, <2>1, ItemIsPut
  <2> QED
    BY <1>1, <1>3, <1>6, <2>1, <2>2 DEF kids
<1> QED
  BY <1>5, <1>6

\* What a setter does that has taken the value.
LEMMA PutBalanced ==
  ASSUME Control, Holding, stack # << >>, ret # None,
         heap' = WithKids(heap, Top.node, PutKids), Release(PutOut), ItemDone
  PROVE  Balanced
<1> DEFINE n == Top.node
           kids == heap[n].kids
           Q == Roots \ {ret}
<1>1. /\ Owned(heap, live, Roots) /\ Ranked(stack, ret) /\ Apart(heap)
      /\ Len(args) \in Nat /\ held \in [1 .. Len(args) -> Int]
      /\ heap \in Seq(Nodes) /\ stack \in Seq(Begun) /\ ret \in Values
  BY DEF Holding, Control, ArgsFit, Typed
<1>2. /\ Top = stack[Len(stack)] /\ Len(stack) \in Nat \ {0}
      /\ n \in 1 .. Len(heap) /\ n \in Nat
  BY TopIsBegun
<1>3. /\ heap' \in Seq(Nodes) /\ Len(heap') = Len(heap)
      /\ \A m \in 1 .. Len(heap) : m # n => heap'[m] = heap[m]
      /\ heap'[n].of = heap[n].of /\ heap'[n].kids = PutKids
  BY PutGoes
<1>4. PICK i \in 1 .. Len(PutKids) :
        /\ PutKids[i].value = ret
        /\ 1 .. Len(PutKids) = 1 .. Len(kids) \cup {i}
        /\ \A j \in 1 .. Len(PutKids) : j # i => PutKids[j].value = kids[j].value
        /\ Curly(heap[n].of) =>
             \A p, q \in 1 .. Len(PutKids) : PutKids[p].key = PutKids[q].key => p = q
        /\ \/ i \in 1 .. Len(kids) /\ PutOut = {kids[i].value}
           \/ i \notin 1 .. Len(kids) /\ PutOut = {}
  BY PutKidsAre
\* What is left in the hands of the call.
<1>5. Roots' = RootsOf(stack, None) /\ Ranked(stack, ret)'
  <2>1. stack' = Keyed(stack, NoText, FALSE, "no") /\ ret' = None
    BY DEF ItemDone, Keyed
  <2>2. SameLevels(stack, stack')
    <3>1. NoText \in Texts /\ "no" \in Chars
      BY TextsAreTyped DEF Chars
    <3>2. LET t == Keyed(stack, NoText, FALSE, "no") IN SameLevels(stack, t)
      BY <1>1, <3>1, NewKey
    <3> QED
      BY <2>1, <3>2
  <2>3. RootsOf(stack', None) = RootsOf(stack, None) /\ (Ranked(stack, None) => Ranked(stack', None))
    BY <2>2, SameRoots
  <2> QED
    BY <1>1, <2>1, <2>3, RootsAre DEF Roots
<1>6. RootsOf(stack, None) = Q
  <2>1. \A x \in RootsOf(stack, None) : Real(x)
    <3>1. RootsOf(stack, None) \subseteq Roots
      BY <1>1, RootsAre DEF Roots
    <3> QED
      BY <1>1, <3>1, OwnedIs
  <2> QED
    BY <1>1, <2>1, RootsAre DEF Roots
<1>7. Real(ret) => ret \in Roots
  BY <1>1, RootsAre DEF Roots
<1>8. n \in live
  <2>1. Len(stack) \in 1 .. Len(stack)
    BY <1>2
  <2>2. Node(n) \in RootsOf(stack, None)
    BY <1>1, <1>2, <2>1, RootsAre
  <2>3. Node(n) \in Roots
    BY <1>6, <2>2
  <2> QED
    BY <1>1, <1>2, <2>3, OwnedIs, ValuesAre
<1>9. IsNode(ret) => n < ret[2]
  <2>1. Len(stack) \in 1 .. Len(stack)
    BY <1>2
  <2> QED
    BY <1>1, <1>2, <2>1 DEF Ranked
<1> DEFINE Out == Displaced(kids, i)
           P == Q \cup Out
\* The value is put in its place.
<1>10. /\ Owned(heap', live, P)
       /\ \A y \in Values : Real(y) => (InPlace(heap, live, Roots, y) <=> InPlace(heap', live, P, y))
  <2> DEFINE g == heap'
  <2>1. Placing(heap, g, n, i, ret)
    BY <1>3, <1>4 DEF Placing
  <2> HIDE DEF g, n
  <2>2. Owned(heap, live, Roots) /\ n \in live /\ ret \in Values
    BY <1>1, <1>8
  <2>3. LET S == (Roots \ {ret}) \cup Displaced(heap[n].kids, i)
        IN /\ Owned(g, live, S)
           /\ \A y \in Values : Real(y) => (InPlace(heap, live, Roots, y) <=> InPlace(g, live, S, y))
    BY <1>7, <1>9, <2>1, <2>2, PutOwns
  <2> QED
    BY <2>3 DEF g
<1>11. Apart(heap')
  <2>1. ASSUME NEW m \in 1 .. Len(heap'), Curly(heap'[m].of)
        PROVE  \A p, q \in 1 .. Len(heap'[m].kids) : heap'[m].kids[p].key = heap'[m].kids[q].key => p = q
    <3>1. CASE m = n
      BY <1>3, <1>4, <2>1, <3>1
    <3>2. CASE m # n
      <4>1. heap'[m] = heap[m] /\ m \in 1 .. Len(heap)
        BY <1>3, <3>2
      <4> QED
        BY <1>1, <2>1, <4>1 DEF Apart
    <3> QED
      BY <3>1, <3>2
  <2> QED
    BY <2>1 DEF Apart
<1>12. kids \in Seq(Kids) /\ \A j \in 1 .. Len(kids) : kids[j].value \in Values /\ kids[j].value \in ValuesIn(heap, n)
  BY <1>1, <1>2, ValuesInAreValues DEF ValuesIn
<1> HIDE DEF n, kids, Q
<1>13. ASSUME NEW k PROVE Placed(k)' <=> InPlace(heap', live', Q, Given(k))
  BY <1>5, <1>6 DEF Placed
<1>14. CASE PutOut = {} \/ \E v \in Values : PutOut = {v} /\ ~Real(v)
  <2>1. Out = {}
    <3>1. CASE i \notin 1 .. Len(kids)
      BY <3>1 DEF Displaced
    <3>2. CASE i \in 1 .. Len(kids)
      <4>1. ~Real(kids[i].value)
        BY <1>4, <1>14, <3>2
      <4> QED
        BY <4>1 DEF Displaced, Reals
    <3> QED
      BY <3>1, <3>2
  <2>2. live' = live /\ held' = held
    <3>1. CASE PutOut = {}
      BY <3>1, ReleaseOfNothingIs
    <3>2. CASE \E v \in Values : PutOut = {v} /\ ~Real(v)
      <4>1. PICK v \in Values : PutOut = {v} /\ ~Real(v)
        BY <3>2
      <4>2. ~IsNode(v) /\ Release({v})
        BY <4>1, ValuesAre
      <4>3. /\ live' = live /\ held' \in [1 .. Len(args) -> Int]
            /\ \A k \in 1 .. Len(args) : held'[k] = held[k] - (IF FALSE THEN 1 ELSE 0)
        BY <4>1, <4>2, ReleaseIs
      <4>4. \A k \in 1 .. Len(args) : held'[k] = held[k]
        BY <1>1, <4>3
      <4> QED
        BY <1>1, <4>3, <4>4
    <3> QED
      BY <1>14, <3>1, <3>2
  <2>3. P = Q
    BY <2>1
  <2> HIDE DEF P, Out
  <2>4. Owned(heap, live, Roots)'
    BY <1>5, <1>6, <1>10, <2>2, <2>3
  <2>5. ASSUME NEW k \in Nat PROVE Placed(k)' <=> Placed(k)
    <3>1. Given(k) \in Values /\ Real(Given(k))
      BY ValuesAre
    <3> QED
      BY <1>10, <1>13, <2>2, <2>3, <3>1 DEF Placed
  <2>6. ASSUME NEW k \in 1 .. Len(args) PROVE Spare(k)' = Spare(k)
    <3>1. k \in Nat
      BY <1>1
    <3>2. Placed(k)' <=> Placed(k)
      BY <2>5, <3>1
    <3> QED
      BY <2>2, <3>2 DEF Spare
  <2> QED
    BY <1>1, <1>5, <1>11, <2>2, <2>4, <2>5, <2>6 DEF Balanced
<1>15. CASE \E v \in Values : PutOut = {v} /\ Real(v)
  <2>1. PICK v \in Values : PutOut = {v} /\ Real(v)
    BY <1>15
  <2>2. i \in 1 .. Len(kids) /\ v = kids[i].value /\ v \in ValuesIn(heap, n)
    BY <1>4, <1>12, <2>1
  <2>3. Out = {v}
    BY <2>1, <2>2 DEF Displaced, Reals
  <2>4. IsNode(v) => n < v[2] /\ v[2] \in 1 .. Len(heap)
    BY <1>1, <1>2, <2>2 DEF Owned, Grown
  <2>5. Held(heap', v) = Held(heap, v)
    <3> DEFINE g == heap'
    <3>1. Grown(heap) /\ g \in Seq(Nodes) /\ Len(g) = Len(heap) /\ \A m \in 1 .. Len(heap) : m # n => g[m] = heap[m]
      BY <1>1, <1>3, OwnedIs
    <3> HIDE DEF g
    <3>2. Held(g, v) = Held(heap, v)
      BY <1>2, <2>1, <2>4, <3>1, HeldLater
    <3> QED
      BY <3>2 DEF g
  <2>6. /\ live' = Without(live, Held(heap', v))
        /\ held' \in [1 .. Len(args) -> Int]
        /\ \A k \in 1 .. Len(args) : held'[k] = held[k] - (IF Given(k) \in Held(heap', v) THEN 1 ELSE 0)
    <3>1. Release({v})
      BY <2>1
    <3> QED
      BY <2>1, <2>4, <2>5, <3>1, ReleaseIs
  <2>7. v \in P /\ P \ {v} = Q
    <3>1. v \notin Roots
      BY <1>1, <1>8, <2>2, OwnedIs
    <3> QED
      BY <2>3, <3>1 DEF Q
  <2> HIDE DEF P, Out
  <2>8. /\ Owned(heap', live', Q)
        /\ \A k \in Nat : InPlace(heap', live', Q, Given(k)) => InPlace(heap', live, P, Given(k))
        /\ \A k \in Nat : \A c \in Int :
             (c - (IF Given(k) \in Held(heap', v) THEN 1 ELSE 0)) - (IF InPlace(heap', live', Q, Given(k)) THEN 1 ELSE 0)
             = c - (IF InPlace(heap', live, P, Given(k)) THEN 1 ELSE 0)
    <3> DEFINE g == heap'
    <3>1. Owned(g, live, P) /\ live' = Without(live, Held(g, v))
      BY <1>10, <2>6
    <3> HIDE DEF g
    <3>2. LET K == Without(live, Held(g, v))
              S == P \ {v}
          IN /\ Owned(g, K, S)
             /\ \A k \in Nat : InPlace(g, K, S, Given(k)) => InPlace(g, live, P, Given(k))
             /\ \A k \in Nat : \A c \in Int :
                  (c - (IF Given(k) \in Held(g, v) THEN 1 ELSE 0)) - (IF InPlace(g, K, S, Given(k)) THEN 1 ELSE 0)
                  = c - (IF InPlace(g, live, P, Given(k)) THEN 1 ELSE 0)
      BY <2>7, <3>1, GoneIsBalanced
    <3> QED
      BY <2>7, <3>1, <3>2 DEF g
  <2>9. Owned(heap, live, Roots)'
    BY <1>5, <1>6, <2>8
  <2>10. ASSUME NEW k \in Nat PROVE InPlace(heap', live, P, Given(k)) <=> Placed(k)
    <3>1. Given(k) \in Values /\ Real(Given(k))
      BY ValuesAre
    <3> QED
      BY <1>10, <3>1 DEF Placed
  <2>11. \A k \in Nat : Placed(k)' => Placed(k)
    BY <1>13, <2>8, <2>10
  <2>12. ASSUME NEW k \in 1 .. Len(args) PROVE Spare(k)' = Spare(k)
    <3>1. k \in Nat /\ held[k] \in Int
      BY <1>1
    <3>2. held'[k] = held[k] - (IF Given(k) \in Held(heap', v) THEN 1 ELSE 0)
      BY <2>6
    <3>3. (held[k] - (IF Given(k) \in Held(heap', v) THEN 1 ELSE 0)) - (IF InPlace(heap', live', Q, Given(k)) THEN 1 ELSE 0)
          = held[k] - (IF InPlace(heap', live, P, Given(k)) THEN 1 ELSE 0)
      BY <2>8, <3>1
    <3>4. Spare(k)' = held'[k] - (IF InPlace(heap', live', Q, Given(k)) THEN 1 ELSE 0)
      BY <1>13 DEF Spare
    <3>5. Spare(k) = held[k] - (IF InPlace(heap', live, P, Given(k)) THEN 1 ELSE 0)
      BY <2>10, <3>1 DEF Spare
    <3> QED
      BY <3>2, <3>3, <3>4, <3>5
  <2> QED
    BY <1>5, <1>11, <2>6, <2>9, <2>11, <2>12 DEF Balanced
<1> QED
  BY <1>4, <1>12, <1>14, <1>15

-----------------------------------------------------------------------------
(* Each step but that of 'o' and 'O' is balanced.                          *)

LEMMA NothingIsReturned ==
  ASSUME Control, pc \notin {"back", "packed"}
  PROVE  ret = None /\ ~Real(ret)
  BY ValuesAre DEF Control, Phased

LEMMA FreshIsLast ==
  ASSUME Control, Holding, ~Real(ret)
  PROVE  /\ RootsOf(stack, Fresh) = Roots \cup {Fresh} /\ Ranked(stack, Fresh)
         /\ RootsOf(stack, None) = Roots /\ Ranked(stack, None)
<1>1. stack \in Seq(Begun) /\ ret \in Values /\ Len(heap) \in Nat /\ Ranked(stack, ret)
  BY DEF Control, Typed, Holding
<1>2. Fresh \in Values /\ Real(Fresh) /\ IsNode(Fresh) /\ Fresh[2] = Len(heap) + 1
  BY <1>1, ValuesAre DEF Fresh
<1>3. RootsOf(stack, None) = Roots /\ Ranked(stack, None)
  BY <1>1, RootsAre DEF Roots
<1>4. RootsOf(stack, Fresh) = Roots \cup {Fresh}
  BY <1>1, <1>2, <1>3, RootsAre
<1>5. \A i \in 1 .. Len(stack) : stack[i].node < Len(heap) + 1
  BY <1>1 DEF Control, LevelsFit, Fit
<1>6. Ranked(stack, Fresh)
  BY <1>2, <1>3, <1>5 DEF Ranked
<1> QED
  BY <1>3, <1>4, <1>6

LEMMA ReturnsBalanced ==
  ASSUME Control, Holding, Control', heap' = heap, live' = live, held' = held, stack' = stack,
         ret' = ret \/ (ret = None /\ ret' \in {None, Null, True})
  PROVE  Balanced
<1>1. SameLevels(stack, stack') /\ stack' \in Seq(Begun) /\ ret' \in Values
  BY DEF SameLevels, Control, Typed
<1>2. ret' = ret \/ (~Real(ret) /\ ~Real(ret'))
  BY ValuesAre
<1> QED
  BY <1>1, <1>2, LevelsBalanced

LEMMA FreshBalanced ==
  ASSUME Control, Holding, Control', ~Real(ret), held' = held, stack' = stack, ret' = Fresh,
         NEW kind \in Makes, NEW text \in Texts, Make(kind, text)
  PROVE  Balanced
<1>1. GrowsBy(kind)
  BY MakeGoes
<1>2. Roots' = Roots \cup {Fresh} /\ Ranked(stack, ret)'
  <2>1. RootsOf(stack', ret') = Roots \cup {Fresh} /\ Ranked(stack', ret')
    BY FreshIsLast
  <2> QED
    BY <2>1 DEF Roots
<1>3. stack' \in Seq(Begun) /\ ret' \in Values
  BY DEF Control, Typed
<1> QED
  BY <1>1, <1>2, <1>3, MakesBalanced

LEMMA PlainStepsBalanced ==
  ASSUME Control, Holding, Control',
         PackCall \/ PackCallStarved \/ NullValue \/ BooleanValue \/ Unexpected \/ StringValue
           \/ NextKey \/ JoinPart
  PROVE  Balanced
<1>1. CASE PackCall \/ PackCallStarved \/ StringValue \/ JoinPart
  <2>1. heap' = heap /\ live' = live /\ held' = held /\ stack' = stack /\ ret' = ret
    BY <1>1 DEF PackCall, PackCallStarved, StringValue, JoinPart
  <2> QED
    BY <2>1, ReturnsBalanced
<1>2. CASE NextKey
  <2>1. NextKey => heap' = heap /\ live' = live /\ held' = held /\ stack' = stack /\ ret' = ret
    BY Zenon DEF NextKey
  <2> QED
    BY <1>2, <2>1, ReturnsBalanced
<1>3. CASE NullValue \/ BooleanValue \/ Unexpected
  <2>1. /\ heap' = heap /\ live' = live /\ held' = held /\ stack' = stack
        /\ ret' \in {None, Null, True} /\ pc = "value"
    BY <1>3 DEF NullValue, BooleanValue, Unexpected, Return, TakeOf
  <2>2. ret = None
    BY <2>1, NothingIsReturned
  <2> QED
    BY <2>1, <2>2, ReturnsBalanced
<1> QED
  BY <1>1, <1>2, <1>3

LEMMA NumberBalanced ==
  ASSUME Control, Holding, Control', NumberValue
  PROVE  Balanced
<1>1. /\ stack' = stack /\ pc = "value" /\ held' = held
      /\ \/ Make(NumberType(Token), << >>) /\ ret' = Fresh
         \/ heap' = heap /\ live' = live /\ ret' = None
  BY DEF NumberValue, Return
<1>2. ret = None /\ ~Real(ret)
  BY <1>1, NothingIsReturned
<1>3. CASE Make(NumberType(Token), << >>) /\ ret' = Fresh
  <2>1. NumberType(Token) \in Makes /\ << >> \in Texts
    BY DEF NumberType, Makes, Texts
  <2> QED
    BY <1>1, <1>2, <1>3, <2>1, FreshBalanced
<1>4. CASE heap' = heap /\ live' = live /\ ret' = None
  BY <1>1, <1>2, <1>4, ReturnsBalanced
<1> QED
  BY <1>1, <1>3, <1>4

LEMMA StringReadBalanced ==
  ASSUME Control, Holding, Control', pc \in {"string", "joined"},
         NEW text \in Texts, NEW own \in BOOLEAN, NEW s, Sane(fmt, s), NEW fails, NEW lost,
         StringRead(text, own, s, fails, lost)
  PROVE  Balanced
<1>0. fmt \in Formats /\ ret = None /\ ~Real(ret)
  BY NothingIsReturned DEF Control, Phased
<1>1. CASE str.use = "key"
  <2> DEFINE opt == TokenOf(NextToken(NextToken(s)))
  <2>1. /\ stack' = Keyed(stack, text, own, opt)
        /\ ret' = ret /\ heap' = heap /\ live' = live /\ held' = held
    BY <1>1 DEF StringRead, Keyed
  <2>2. opt \in Chars
    BY <1>0, CharsAreTyped DEF TokenOf
  <2> HIDE DEF opt
  <2>3. stack # << >> /\ stack \in Seq(Begun)
    BY <1>1 DEF Control, Phased, Typed
  <2>4. LET t == Keyed(stack, text, own, opt)
        IN t \in Seq(Begun) /\ SameLevels(stack, t)
    BY <2>2, <2>3, NewKey
  <2>5. ret' \in Values
    BY DEF Control, Typed
  <2> QED
    BY <2>1, <2>4, <2>5, LevelsBalanced
<1>2. CASE str.use # "key"
  <2>1. /\ stack' = stack /\ held' = held
        /\ \/ ret' \in {Null, None} /\ heap' = heap /\ live' = live
           \/ Make("string", text) /\ ret' = Fresh
    BY <1>2 DEF StringRead, Return
  <2>2. CASE ret' \in {Null, None} /\ heap' = heap /\ live' = live
    BY <1>0, <2>1, <2>2, ReturnsBalanced
  <2>3. CASE Make("string", text) /\ ret' = Fresh
    <3>1. "string" \in Makes
      BY Zenon DEF Makes
    <3> QED
      BY <1>0, <2>1, <2>3, <3>1, FreshBalanced
  <2> QED
    BY <2>1, <2>2, <2>3
<1> QED
  BY <1>1, <1>2

LEMMA StringsBalanced ==
  ASSUME Control, Holding, Control', PlainString \/ OptionalWithModifier \/ JoinStart \/ JoinEnd
  PROVE  Balanced
<1>0. pc \in {"string", "joined"} /\ fmt # << >> /\ Sane(fmt, scan) /\ Sane(fmt, Looked)
  <2>1. pc \in {"string", "joined"}
    BY DEF PlainString, OptionalWithModifier, JoinStart, JoinEnd
  <2> QED
    BY <2>1, Reading DEF Control, Phased
<1>1. CASE PlainString
  <2> DEFINE text == IF Fits("CSTR") THEN args[taken + 1].value ELSE NoText
             bad == text # NoText /\ ~IsUtf8(text)
             fails == failed \/ ~Fits("CSTR") \/ (text = NoText /\ ~Optional) \/ bad
             read == IF bad THEN NoText ELSE text
  <2>1. StringRead(read, FALSE, Looked, fails, 0)
    BY <1>1 DEF PlainString
  <2>2. text \in Texts
    BY ArgumentIsText
  <2> HIDE DEF text, bad, fails
  <2>3. read \in Texts
    BY <2>2, TextsAreTyped
  <2> HIDE DEF read
  <2> QED
    BY <1>0, <2>1, <2>3, StringReadBalanced
<1>2. CASE OptionalWithModifier
  <2>1. StringRead(NoText, FALSE, Looked, TRUE, 0) /\ NoText \in Texts
    BY <1>2, TextsAreTyped DEF OptionalWithModifier
  <2> QED
    BY <1>0, <2>1, StringReadBalanced
<1>3. CASE JoinStart
  <2>1. \/ UNCHANGED <<stack, ret, heap, live, held>>
        \/ StringRead(NoText, FALSE, Looked, TRUE, 1)
    BY <1>3 DEF JoinStart
  <2>2. CASE UNCHANGED <<stack, ret, heap, live, held>>
    BY <2>2, ReturnsBalanced
  <2>3. CASE StringRead(NoText, FALSE, Looked, TRUE, 1)
    BY <1>0, <2>3, TextsAreTyped, StringReadBalanced
  <2> QED
    BY <2>1, <2>2, <2>3
<1>4. CASE JoinEnd
  <2> DEFINE bad == ~failed /\ ~IsUtf8(str.text)
             text == IF failed \/ bad THEN NoText ELSE str.text
             own == ~failed /\ ~bad
             fails == failed \/ bad
  <2>1. StringRead(text, own, scan, fails, 0)
    BY <1>4 DEF JoinEnd
  <2>2. text \in Texts
    BY TextsAreTyped DEF Control, Typed, Strings
  <2>3. own \in BOOLEAN
    OBVIOUS
  <2> HIDE DEF bad, text, own, fails
  <2> QED
    BY <1>0, <2>1, <2>2, <2>3, StringReadBalanced
<1> QED
  BY <1>1, <1>2, <1>3, <1>4

LEMMA OpenBalanced ==
  ASSUME Control, Holding, Control', Open
  PROVE  Balanced
<1>1. /\ pc = "value" /\ held' = held
      /\ \/ /\ Make(Token, << >>)
            /\ stack' = Append(stack, NewFrame(Token, Len(heap) + 1)) /\ ret' = ret
         \/ ret' = None /\ stack' = stack /\ heap' = heap /\ live' = live
  BY OpenIs
<1>2. ret = None /\ ~Real(ret)
  BY <1>1, NothingIsReturned
<1>3. CASE /\ Make(Token, << >>)
           /\ stack' = Append(stack, NewFrame(Token, Len(heap) + 1)) /\ ret' = ret
  <2> DEFINE frame == NewFrame(Token, Len(heap) + 1)
  <2>1. Token \in Brackets /\ Token \in Makes /\ << >> \in Texts
    BY BracketsAreMade DEF Texts
  <2>2. GrowsBy(Token)
    BY <2>1, <1>3, MakeGoes
  <2>3. stack \in Seq(Begun) /\ Len(heap) + 1 \in Nat /\ Len(heap) \in Nat
    BY DEF Control, Typed
  <2>4. frame \in Begun /\ frame.node = Len(heap) + 1
    BY <2>1, <2>3, FramesAreTyped
  <2>5. \A i \in 1 .. Len(stack) : stack[i].node < Len(heap) + 1
    BY <2>3 DEF Control, LevelsFit, Fit
  <2>6. stack' = Append(stack, frame)
    BY <1>3
  <2> HIDE DEF frame
  <2>7. RootsOf(stack, None) = Roots /\ Ranked(stack, None)
    BY <1>2, FreshIsLast
  <2>8. RootsOf(stack', None) = Roots \cup {Node(Len(heap) + 1)} /\ Ranked(stack', None)
    BY <2>3, <2>4, <2>5, <2>6, <2>7, AppendRoots
  <2>9. Roots' = Roots \cup {Fresh} /\ Ranked(stack, ret)'
    BY <1>2, <1>3, <2>8 DEF Roots, Fresh
  <2>10. stack' \in Seq(Begun) /\ ret' \in Values
    BY DEF Control, Typed
  <2> QED
    BY <1>1, <1>2, <2>1, <2>2, <2>9, <2>10, MakesBalanced
<1>4. CASE ret' = None /\ stack' = stack /\ heap' = heap /\ live' = live
  BY <1>1, <1>2, <1>4, ReturnsBalanced
<1> QED
  BY <1>1, <1>3, <1>4

LEMMA LevelEndsBalanced ==
  ASSUME Control, Holding, Control', Close \/ Broken
  PROVE  Balanced
<1> DEFINE x == Node(Top.node)
<1>1. /\ pc = "items" /\ heap' = heap /\ stack' = Front(stack)
      /\ \/ Release({x}) /\ ret' = None
         \/ live' = live /\ held' = held /\ ret' = x
  <2>1. Close => /\ pc = "items" /\ heap' = heap /\ stack' = Front(stack)
                 /\ \/ Release({x}) /\ ret' = None
                    \/ live' = live /\ held' = held /\ ret' = x
    BY Zenon DEF Close, Return, ReleaseNothing
  <2>2. Broken => /\ pc = "items" /\ heap' = heap /\ stack' = Front(stack)
                  /\ Release({x}) /\ ret' = None
    BY Zenon DEF Broken, Return
  <2> QED
    BY <2>1, <2>2
<1>2. stack # << >> /\ ret = None /\ ~Real(ret) /\ stack \in Seq(Begun)
  BY <1>1, NothingIsReturned DEF Control, Phased, Typed
<1>3. RootsOf(stack, None) = Roots /\ Ranked(stack, None)
  BY <1>2, FreshIsLast
<1>4. /\ Roots = RootsOf(stack', None) \cup {x} /\ x \notin RootsOf(stack', None)
      /\ Ranked(stack', None) /\ Ranked(stack', x) /\ x \in Values /\ Real(x)
  <2>1. /\ RootsOf(stack, None) = RootsOf(Front(stack), None) \cup {x}
        /\ x \notin RootsOf(Front(stack), None)
        /\ Ranked(Front(stack), None) /\ Ranked(Front(stack), x)
        /\ Top.node \in Nat
    BY <1>2, <1>3, FrontRoots DEF Top
  <2> QED
    BY <1>1, <1>3, <2>1, ValuesAre
<1>5. stack' \in Seq(Begun) /\ ret' \in Values
  BY DEF Control, Typed
<1> HIDE DEF x
<1>6. CASE Release({x}) /\ ret' = None
  <2>1. Roots' = Roots \ {x} /\ Ranked(stack, ret)'
    BY <1>4, <1>6 DEF Roots
  <2> QED
    BY <1>1, <1>4, <1>5, <1>6, <2>1, ReleaseBalanced
<1>7. CASE live' = live /\ held' = held /\ ret' = x
  <2>1. RootsOf(stack', x) = RootsOf(stack', None) \cup {x}
    BY <1>4, <1>5, RootsAre
  <2>2. Roots' = Roots /\ Ranked(stack, ret)'
    BY <1>4, <1>7, <2>1 DEF Roots
  <2> QED
    BY <1>1, <1>5, <1>7, <2>2, RestsBalanced
<1> QED
  BY <1>1, <1>6, <1>7

LEMMA NextItemBalanced ==
  ASSUME Control, Holding, Control', NextItem
  PROVE  Balanced
<1>1. NextItem => /\ pc = "items" /\ heap' = heap /\ live' = live /\ held' = held /\ ret' = ret
                  /\ stack' = Marked(stack, LookAhead)
  BY Zenon DEF NextItem, Marked
<1>2. stack # << >> /\ fmt # << >> /\ stack \in Seq(Begun)
  BY <1>1 DEF Control, Phased, Typed
<1>3. LookAhead \in Chars
  BY <1>1, <1>2, Reading
<1>4. SameLevels(stack, stack') /\ stack' \in Seq(Begun) /\ ret' \in Values
  BY <1>1, <1>2, <1>3, NewMark DEF Control, Typed
<1> QED
  BY <1>1, <1>4, LevelsBalanced

LEMMA ItemDoneIs ==
  ASSUME Control, stack # << >>, ItemDone
  PROVE  /\ ret' = None /\ SameLevels(stack, stack')
         /\ Roots' = RootsOf(stack, None)
         /\ Ranked(stack, ret) => Ranked(stack, ret)'
<1>1. stack' = Keyed(stack, NoText, FALSE, "no") /\ ret' = None
  BY DEF ItemDone, Keyed
<1>2. SameLevels(stack, stack')
  <2>1. NoText \in Texts /\ "no" \in Chars /\ stack \in Seq(Begun)
    BY TextsAreTyped DEF Chars, Control, Typed
  <2>2. LET t == Keyed(stack, NoText, FALSE, "no") IN SameLevels(stack, t)
    BY <2>1, NewKey
  <2> QED
    BY <1>1, <2>2
<1>3. RootsOf(stack', None) = RootsOf(stack, None) /\ (Ranked(stack, None) => Ranked(stack', None))
  BY <1>2, SameRoots
<1>4. Ranked(stack, ret) => Ranked(stack, None)
  BY RootsAre DEF Control, Typed
<1> QED
  BY <1>1, <1>2, <1>3, <1>4 DEF Roots

\* What was returned is released.
LEMMA ReturnedBalanced ==
  ASSUME Control, Holding, Control', Release({ret}), heap' = heap,
         Roots' = RootsOf(stack, None), Ranked(stack, ret)'
  PROVE  Balanced
<1>1. ret \in Values /\ stack \in Seq(Begun) /\ stack' \in Seq(Begun) /\ ret' \in Values
  BY DEF Control, Typed
<1>2. Ranked(stack, ret) /\ Owned(heap, live, Roots)
  BY DEF Holding
<1>3. Real(ret) => ret \in Roots
  BY <1>1, RootsAre DEF Roots
<1>4. RootsOf(stack, None) = Roots \ {ret}
  <2>1. CASE Real(ret)
    BY <1>1, <1>2, <2>1, RootsAre DEF Roots
  <2>2. CASE ~Real(ret)
    BY <1>1, <1>2, <2>2, OwnedIs, RootsAre DEF Roots
  <2> QED
    BY <2>1, <2>2
<1> QED
  BY <1>1, <1>3, <1>4, ReleaseBalanced

LEMMA ItemsBalanced ==
  ASSUME Control, Holding, Control', NothingCame \/ CameAfterError \/ Put
  PROVE  Balanced
<1>1. CASE NothingCame
  <2>1. NothingCame => /\ stack # << >> /\ ret = None /\ ItemDone
                       /\ heap' = heap /\ live' = live /\ held' = held
    BY Zenon DEF NothingCame
  <2>2. ret' = ret /\ SameLevels(stack, stack')
    BY <1>1, <2>1, ItemDoneIs
  <2>3. stack' \in Seq(Begun) /\ ret' \in Values
    BY DEF Control, Typed
  <2> QED
    BY <1>1, <2>1, <2>2, <2>3, LevelsBalanced
<1>2. CASE CameAfterError
  <2>1. stack # << >> /\ ItemDone /\ Release({ret}) /\ heap' = heap
    BY <1>2 DEF CameAfterError, ReleasesAfterError
  <2>2. Roots' = RootsOf(stack, None) /\ Ranked(stack, ret)'
    BY <2>1, ItemDoneIs DEF Holding
  <2> QED
    BY <2>1, <2>2, ReturnedBalanced
<1>3. CASE Put
  <2>1. /\ stack # << >> /\ ret # None /\ ItemDone
        /\ \/ heap' = WithKids(heap, Top.node, PutKids) /\ Release(PutOut)
           \/ heap' = heap /\ Release({ret})
    BY <1>3, PutIs
  <2>2. CASE heap' = WithKids(heap, Top.node, PutKids) /\ Release(PutOut)
    BY <2>1, <2>2, PutBalanced
  <2>3. CASE heap' = heap /\ Release({ret})
    <3>1. Roots' = RootsOf(stack, None) /\ Ranked(stack, ret)'
      BY <2>1, ItemDoneIs DEF Holding
    <3> QED
      BY <2>3, <3>1, ReturnedBalanced
  <2> QED
    BY <2>1, <2>2, <2>3
<1> QED
  BY <1>1, <1>2, <1>3

LEMMA FinishBalanced ==
  ASSUME Control, Holding, Control', PackFinish
  PROVE  Balanced
<1>1. /\ stack' = stack /\ heap' = heap
      /\ \/ ret' = ret /\ live' = live /\ held' = held
         \/ ret' = None /\ Release({ret})
  BY DEF PackFinish
<1>2. CASE ret' = ret /\ live' = live /\ held' = held
  BY <1>1, <1>2, ReturnsBalanced
<1>3. CASE ret' = None /\ Release({ret})
  <2>1. Ranked(stack, None)
    BY RootsAre DEF Holding, Control, Typed
  <2>2. Roots' = RootsOf(stack, None) /\ Ranked(stack, ret)'
    BY <1>1, <1>3, <2>1 DEF Roots
  <2> QED
    BY <1>1, <1>3, <2>2, ReturnedBalanced
<1> QED
  BY <1>1, <1>2, <1>3

\* 'o' and 'O'
LEMMA RefHolds ==
  ASSUME Control, Holding, Counted, Control', RefValue, ~strayed' => TakesRight
  PROVE  Holding' /\ Counted'
<1> DEFINE value == IF Fits("JSON") THEN args[taken + 1].value ELSE None
<1>1. /\ pc = "value" /\ heap' = heap /\ live' = live /\ stack' = stack /\ args' = args
      /\ strayed' = strayed /\ TakeArg /\ Token \in {"o", "O"}
      /\ held' = IF value # None /\ Token = "O" THEN [held EXCEPT ![value[2]] = @ + 1] ELSE held
      /\ value # None => ret' = value
      /\ value = None => ret' \in {None, Null}
  BY DEF RefValue, Return
<1>2. /\ Len(args) \in Nat /\ taken \in 0 .. Len(args) /\ taken' \in 0 .. Len(args) /\ taken <= taken'
      /\ taken < Len(args) => taken' = taken + 1
      /\ \A k \in 1 .. Len(args) : args[k].kind = "JSON" => args[k].value \in {None, Given(k)}
      /\ held \in [1 .. Len(args) -> Int]
      /\ stack \in Seq(Begun) /\ ret' \in Values
  BY <1>1 DEF Control, ArgsFit, TakeArg, Holding, Typed
<1>3. ret = None /\ ~Real(ret)
  BY <1>1, NothingIsReturned
<1>4. value # None => /\ taken + 1 \in 1 .. Len(args) /\ args[taken + 1].kind = "JSON"
                      /\ value = Given(taken + 1) /\ args[taken + 1].value # None
  <2>1. Fits("JSON") => taken + 1 \in 1 .. Len(args) /\ args[taken + 1].kind = "JSON"
    BY <1>2 DEF Fits
  <2> QED
    BY <1>2, <2>1
\* Any argument that is taken is the next, and taken as what it was passed for.
<1>5. ASSUME ~strayed', NEW k \in 1 .. Len(args), args[k].kind = "JSON", ~ (k <= taken), k <= taken'
      PROVE  k = taken + 1 /\ args[k].from = Token
  <2> HIDE DEF value
  <2>1. taken < k /\ TakesRight
    BY <1>2, <1>5
  <2>2. pc = "value" /\ Token \in {"o", "O"}
    BY <1>1
  <2> QED
    BY <1>5, <2>1, <2>2 DEF TakesRight
<1>6. CASE value = None
  <2>1. held' = held /\ ret' \in {None, Null}
    BY <1>1, <1>6
  <2>2. Balanced
    BY <1>1, <1>3, <2>1, ReturnsBalanced
  <2>3. Holding'
    <3>1. \A k \in Nat : Placed(k)' => k \in 1 .. taken'
      BY <1>2, <2>2 DEF Holding, Balanced
    <3> QED
      BY <1>1, <2>2, <3>1 DEF Holding, Balanced
  <2>4. ASSUME ~strayed', NEW k \in 1 .. Len(args), args[k].kind = "JSON", args[k].value # None
        PROVE  Spare(k)' = IF k <= taken' /\ args[k].from = "o" THEN 0 ELSE 1
    <3>1. Spare(k)' = Spare(k)
      BY <2>2 DEF Balanced
    <3>2. Spare(k) = IF k <= taken /\ args[k].from = "o" THEN 0 ELSE 1
      BY <1>1, <2>4 DEF Counted
    <3>3. k <= taken' => k <= taken
      <4>1. SUFFICES ASSUME k <= taken', ~ (k <= taken) PROVE FALSE
        OBVIOUS
      <4>2. k = taken + 1
        BY <1>5, <2>4, <4>1
      <4>3. Fits("JSON")
        BY <1>2, <2>4, <4>2 DEF Fits
      <4> QED
        BY <1>6, <2>4, <4>2, <4>3
    <3>4. k <= taken => k <= taken'
      BY <1>2
    <3> QED
      BY <3>1, <3>2, <3>3, <3>4
  <2>5. Counted'
    BY <1>1, <2>4 DEF Counted
  <2> QED
    BY <2>3, <2>5
<1>7. CASE value # None
  <2> DEFINE t == taken + 1
  <2>1. /\ t \in 1 .. Len(args) /\ t \in Nat /\ taken' = t /\ ret' = Given(t)
        /\ args[t].kind = "JSON" /\ args[t].value # None
        /\ held' = IF Token = "O" THEN [held EXCEPT ![t] = @ + 1] ELSE held
    <3>1. taken + 1 \in 1 .. Len(args) /\ value = Given(taken + 1)
      BY <1>4, <1>7
    <3>2. taken + 1 \in Nat /\ taken < Len(args) /\ Given(taken + 1)[2] = taken + 1
      BY <1>2, <3>1, ValuesAre
    <3> HIDE DEF value
    <3>3. held' = IF Token = "O" THEN [held EXCEPT ![taken + 1] = @ + 1] ELSE held
      BY <1>1, <1>7, <3>1, <3>2
    <3> QED
      BY <1>1, <1>2, <1>4, <1>7, <3>1, <3>2, <3>3
  <2>2. ~Placed(t) /\ ~ (t <= taken)
    BY <1>2, <2>1 DEF Holding
  <2>3. Given(t) \in Values /\ Real(Given(t)) /\ ~IsNode(Given(t))
    BY <2>1, ValuesAre
  <2>4. Owned(heap, live, Roots) /\ Ranked(stack, None) /\ RootsOf(stack, None) = Roots
    BY <1>3, FreshIsLast DEF Holding
  <2>5. Roots' = Roots \cup {Given(t)} /\ Ranked(stack, ret)'
    <3>1. RootsOf(stack, Given(t)) = RootsOf(stack, None) \cup {Given(t)}
      BY <1>2, <2>3, RootsAre
    <3>2. Ranked(stack, Given(t))
      BY <2>3, <2>4 DEF Ranked
    <3> QED
      BY <1>1, <2>1, <2>4, <3>1, <3>2 DEF Roots
  <2>6. /\ Owned(heap, live, Roots \cup {Given(t)})
        /\ \A y \in Values : InPlace(heap, live, Roots \cup {Given(t)}, y) <=> y = Given(t) \/ InPlace(heap, live, Roots, y)
    BY <2>2, <2>3, <2>4, TakeOwns DEF Placed
  <2>7. ASSUME NEW k \in Nat PROVE Placed(k)' <=> k = t \/ Placed(k)
    <3>1. Given(k) \in Values /\ (Given(k) = Given(t) <=> k = t)
      BY <2>1, ValuesAre
    <3> QED
      BY <1>1, <2>5, <2>6, <3>1 DEF Placed
  <2> HIDE DEF value, t
  <2>8. held' \in [1 .. Len(args) -> Int]
    BY <1>2, <2>1
  <2>9. Owned(heap, live, Roots)'
    BY <1>1, <2>5, <2>6
  <2>10. \A k \in Nat : Placed(k)' => k \in 1 .. taken'
    BY <1>2, <2>1, <2>7 DEF Holding
  <2>11. Holding'
    BY <1>1, <2>5, <2>8, <2>9, <2>10 DEF Holding
  <2>12. ASSUME ~strayed', NEW k \in 1 .. Len(args), args[k].kind = "JSON", args[k].value # None
         PROVE  Spare(k)' = IF k <= taken' /\ args[k].from = "o" THEN 0 ELSE 1
    <3>1. k \in Nat /\ held[k] \in Int
      BY <1>2
    <3>2. Spare(k) = IF k <= taken /\ args[k].from = "o" THEN 0 ELSE 1
      BY <1>1, <2>12 DEF Counted
    <3>3. Placed(k)' <=> k = t \/ Placed(k)
      BY <2>7, <3>1
    <3>4. CASE k # t
      <4>1. held'[k] = held[k]
        BY <1>2, <2>1, <3>4
      <4>2. Spare(k)' = Spare(k)
        BY <3>3, <3>4, <4>1 DEF Spare
      <4>3. k <= taken' <=> k <= taken
        BY <1>2, <2>1, <3>4 DEF t
      <4> QED
        BY <3>2, <4>2, <4>3
    <3>5. CASE k = t
      <4>1. args[k].from = Token /\ k <= taken'
        BY <1>2, <1>5, <2>1, <2>2, <2>12, <3>5
      <4>2. Spare(k) = 1 /\ held[k] = 1
        BY <2>2, <3>1, <3>2, <3>5 DEF Spare
      <4>3. Spare(k)' = held'[k] - 1
        BY <3>3, <3>5 DEF Spare
      <4>4. held'[k] = IF Token = "O" THEN 2 ELSE 1
        BY <1>2, <2>1, <3>5, <4>2
      <4> QED
        BY <1>1, <4>1, <4>3, <4>4
    <3> QED
      BY <3>4, <3>5
  <2>13. Counted'
    BY <1>1, <2>12 DEF Counted
  <2> QED
    BY <2>11, <2>13
<1> QED
  BY <1>6, <1>7

\* Every step but that of 'o' and 'O' takes no argument of either.
LEMMA OthersTakeRight ==
  ASSUME Control, PackNext, ~RefValue
  PROVE  /\ args' = args /\ (strayed => strayed') /\ taken <= taken'
         /\ taken' # taken => ~ (pc = "value" /\ Token \in {"o", "O"})
<1> DEFINE Takes == \/ taken' = taken
                    \/ taken <= taken' /\ ~ (pc = "value" /\ Token \in {"o", "O"})
           Goes == args' = args /\ (strayed' = strayed \/ strayed' = TRUE) /\ Takes
<1>0. taken \in Nat /\ Len(args) \in Nat
  BY DEF Control, ArgsFit
<1>1. TakeArg => taken <= taken'
  BY <1>0 DEF TakeArg
<1>2. ASSUME PackCall \/ PackCallStarved \/ PackFinish \/ NullValue \/ Unexpected \/ StringValue
           \/ OptionalWithModifier \/ JoinEnd
     PROVE  Goes
  <2>1. args' = args /\ strayed' = strayed /\ taken' = taken
    BY <1>2, Zenon DEF PackCall, PackCallStarved, PackFinish, NullValue, Unexpected, StringValue,
                       OptionalWithModifier, JoinEnd
  <2> QED
    BY <2>1
<1>3. ASSUME JoinStart
     PROVE  Goes
  <2>1. args' = args /\ (strayed' = strayed \/ strayed' = TRUE) /\ taken' = taken
    BY <1>3, Zenon DEF JoinStart
  <2> QED
    BY <2>1
<1>4. ASSUME BooleanValue \/ NumberValue
     PROVE  Goes
  <2>1. args' = args /\ strayed' = strayed /\ TakeArg
    BY <1>4, Zenon DEF BooleanValue, NumberValue, TakeOf
  <2>2. Token \notin {"o", "O"}
    BY <1>4 DEF BooleanValue, NumberValue, NumberKind
  <2> QED
    BY <1>1, <2>1, <2>2
<1>5. ASSUME PlainString
     PROVE  Goes
  <2>1. args' = args /\ strayed' = strayed /\ TakeArg /\ pc = "string"
    BY <1>5, Zenon DEF PlainString
  <2> QED
    BY <1>1, <2>1
<1>6. ASSUME JoinPart
     PROVE  Goes
  <2>1. args' = args /\ strayed' = strayed /\ pc = "parts"
    BY <1>6, Zenon DEF JoinPart
  <2>2. taken' \in {taken, taken + 1, taken + 2}
    BY <1>6 DEF JoinPart
  <2> QED
    BY <1>0, <2>1, <2>2
<1>7. ASSUME Open
     PROVE  Goes
  <2>1. args' = args /\ (strayed' = strayed \/ strayed' = TRUE) /\ taken' = taken
    BY <1>7, Zenon, OpenIs
  <2> QED
    BY <2>1
<1>8. ASSUME Close \/ Broken \/ NextKey \/ NextItem
     PROVE  Goes
  <2>1. args' = args /\ strayed' = strayed /\ taken' = taken
    BY <1>8, Zenon DEF Close, Broken, NextKey, NextItem
  <2> QED
    BY <2>1
<1>9. ASSUME NothingCame \/ CameAfterError \/ Put
     PROVE  Goes
  <2>1. pc = "back" /\ stack # << >> /\ ItemDone
    BY <1>9, BackIsDone
  <2>2. args' = args /\ strayed' = strayed /\ taken' = taken
    BY <2>1, ItemDoneLeads, Zenon
  <2> QED
    BY <2>2
<1>10. Goes
  <2> HIDE DEF Goes
  <2> QED
    BY <1>2, <1>3, <1>4, <1>5, <1>6, <1>7, <1>8, <1>9, Zenon DEF PackNext
<1>11. strayed => strayed'
  BY <1>10, Zenon
<1>12. args' = args /\ Takes
  BY <1>10, Zenon
<1>13. /\ taken <= taken'
       /\ taken' # taken => ~ (pc = "value" /\ Token \in {"o", "O"})
  BY <1>0, <1>12
<1> QED
  BY <1>11, <1>12, <1>13, Zenon

LEMMA PackStaysHolding ==
  ASSUME Control, InStep, Holding, Counted, PackNext
  PROVE  Holding' /\ Counted'
<1>1. Control' /\ (~strayed' => TakesRight)
  BY PackStaysInOrder, PackStaysInStep
<1>2. CASE RefValue
  BY <1>1, <1>2, RefHolds
<1>3. CASE ~RefValue
  <2>1. Balanced
    <3>1. CASE PackCall \/ PackCallStarved \/ NullValue \/ BooleanValue \/ Unexpected \/ StringValue
                 \/ NextKey \/ JoinPart
      BY <1>1, <3>1, PlainStepsBalanced
    <3>2. CASE NumberValue
      BY <1>1, <3>2, NumberBalanced
    <3>3. CASE PlainString \/ OptionalWithModifier \/ JoinStart \/ JoinEnd
      BY <1>1, <3>3, StringsBalanced
    <3>4. CASE Open
      BY <1>1, <3>4, OpenBalanced
    <3>5. CASE Close \/ Broken
      BY <1>1, <3>5, LevelEndsBalanced
    <3>6. CASE NextItem
      BY <1>1, <3>6, NextItemBalanced
    <3>7. CASE NothingCame \/ CameAfterError \/ Put
      BY <1>1, <3>7, ItemsBalanced
    <3>8. CASE PackFinish
      BY <1>1, <3>8, FinishBalanced
    <3> QED
      BY <1>3, <3>1, <3>2, <3>3, <3>4, <3>5, <3>6, <3>7, <3>8 DEF PackNext
  <2>2. /\ args' = args /\ (strayed => strayed') /\ taken <= taken'
        /\ taken' # taken => ~ (pc = "value" /\ Token \in {"o", "O"})
    BY <1>3, OthersTakeRight
  <2>3. taken' \in 0 .. Len(args) /\ Len(args) \in Nat /\ taken \in 0 .. Len(args)
    BY <1>1, <2>2 DEF Control, ArgsFit
  <2>4. ~strayed' => \A k \in taken + 1 .. taken' : args[k].kind # "JSON"
    <3>1. ASSUME ~strayed', NEW k \in taken + 1 .. taken' PROVE args[k].kind # "JSON"
      <4>1. k \in 1 .. Len(args) /\ taken < k /\ k <= taken' /\ taken' # taken
        BY <2>3
      <4>2. TakesRight /\ ~ (pc = "value" /\ Token \in {"o", "O"})
        BY <1>1, <2>2, <3>1, <4>1
      <4> QED
        BY <4>1, <4>2 DEF TakesRight
    <3> QED
      BY <3>1
  <2> QED
    BY <2>1, <2>2, <2>3, <2>4, BalancedHolds
<1> QED
  BY <1>2, <1>3

-----------------------------------------------------------------------------
(* The texts of the keys, and of the string that is joined                 *)

Owners(s) == {i \in 1 .. Len(s) : s[i].own}
Joining(phase) == IF phase \in {"parts", "joined"} THEN 1 ELSE 0
BuffersFit == buffers = Cardinality(Owners(stack)) + Joining(pc)

LEMMA OwnersAre ==
  ASSUME NEW s \in Seq(Begun)
  PROVE  IsFiniteSet(Owners(s)) /\ Cardinality(Owners(s)) \in Nat
<1>1. Len(s) \in Nat
  OBVIOUS
<1>2. IsFiniteSet(1 .. Len(s)) /\ Owners(s) \subseteq 1 .. Len(s)
  BY <1>1, FS_Interval DEF Owners
<1> QED
  BY <1>2, FS_Subset, FS_CardinalityType

\* The last of them is another.
LEMMA LastOwner ==
  ASSUME NEW s \in Seq(Begun), NEW t \in Seq(Begun), s # << >>, Len(t) = Len(s), NEW own \in BOOLEAN,
         \A i \in 1 .. Len(s) : t[i].own = IF i = Len(s) THEN own ELSE s[i].own
  PROVE  Cardinality(Owners(t))
         = (Cardinality(Owners(s)) - (IF Last(s).own THEN 1 ELSE 0)) + (IF own THEN 1 ELSE 0)
<1> DEFINE n == Len(s)
           rest == {i \in 1 .. n : i # n /\ s[i].own}
<1>1. n \in Nat \ {0} /\ n \in 1 .. n /\ Last(s) = s[n]
  BY DEF Last
<1>2. IsFiniteSet(rest) /\ Cardinality(rest) \in Nat /\ n \notin rest
  <2>1. IsFiniteSet(1 .. n) /\ rest \subseteq 1 .. n
    BY <1>1, FS_Interval
  <2> HIDE DEF rest
  <2>2. IsFiniteSet(rest) /\ Cardinality(rest) \in Nat
    BY <2>1, FS_Subset, FS_CardinalityType
  <2> QED
    BY <2>2 DEF rest
<1>3. Owners(s) = IF Last(s).own THEN rest \cup {n} ELSE rest
  BY <1>1 DEF Owners
<1>4. Owners(t) = IF own THEN rest \cup {n} ELSE rest
  BY <1>1 DEF Owners
<1> HIDE DEF rest, n
<1>5. Cardinality(rest \cup {n}) = Cardinality(rest) + 1
  BY <1>2, FS_AddElement
<1>6. Cardinality(Owners(s)) = Cardinality(rest) + (IF Last(s).own THEN 1 ELSE 0)
  BY <1>2, <1>3, <1>5
<1>7. Cardinality(Owners(t)) = Cardinality(rest) + (IF own THEN 1 ELSE 0)
  BY <1>2, <1>4, <1>5
<1> DEFINE a == IF Last(s).own THEN 1 ELSE 0
           b == IF own THEN 1 ELSE 0
<1>8. a \in Int /\ b \in Int
  OBVIOUS
<1> HIDE DEF a, b
<1>9. Cardinality(Owners(s)) = Cardinality(rest) + a /\ Cardinality(Owners(t)) = Cardinality(rest) + b
  BY <1>6, <1>7 DEF a, b
<1>10. Cardinality(Owners(t)) = (Cardinality(Owners(s)) - a) + b
  BY <1>2, <1>8, <1>9
<1> QED
  BY <1>10 DEF a, b

LEMMA SameOwners ==
  ASSUME NEW s, NEW t, Len(t) = Len(s), \A i \in 1 .. Len(s) : t[i].own = s[i].own
  PROVE  Owners(t) = Owners(s)
  BY DEF Owners

LEMMA OneOwnerLess ==
  ASSUME NEW s \in Seq(Begun), s # << >>, ~Last(s).own
  PROVE  Owners(Front(s)) = Owners(s)
<1>1. /\ Len(s) \in Nat \ {0} /\ Len(Front(s)) = Len(s) - 1
      /\ \A i \in 1 .. Len(s) - 1 : Front(s)[i] = s[i]
      /\ Last(s) = s[Len(s)]
  BY FrontAndLast
<1> DEFINE n == Len(s)
<1>2. \A i \in 1 .. n : i = n \/ i \in 1 .. n - 1
  BY <1>1
<1>3. \A i \in 1 .. n - 1 : i \in 1 .. n
  BY <1>1
<1>4. Owners(Front(s)) = {i \in 1 .. n - 1 : s[i].own}
  BY <1>1 DEF Owners
<1>5. Owners(s) = {i \in 1 .. n - 1 : s[i].own}
  <2> HIDE DEF n
  <2>1. Owners(s) = {i \in 1 .. n : s[i].own} /\ ~s[n].own
    BY <1>1 DEF Owners, n
  <2> QED
    BY <1>2, <1>3, <2>1
<1> QED
  BY <1>4, <1>5

LEMMA OneOwnerMore ==
  ASSUME NEW s \in Seq(Begun), NEW frame \in Begun, ~frame.own
  PROVE  Owners(Append(s, frame)) = Owners(s)
<1> DEFINE t == Append(s, frame)
           n == Len(s)
<1>1. n \in Nat /\ Len(t) = n + 1 /\ t[n + 1] = frame /\ \A i \in 1 .. n : t[i] = s[i]
  OBVIOUS
<1> HIDE DEF t
<1>2. Owners(s) = {i \in 1 .. n : s[i].own} /\ Owners(t) = {i \in 1 .. n + 1 : t[i].own}
  BY <1>1 DEF Owners
<1> HIDE DEF n
<1>3. \A i \in 1 .. n + 1 : i = n + 1 \/ i \in 1 .. n
  BY <1>1
<1>4. \A i \in 1 .. n : i \in 1 .. n + 1
  BY <1>1
<1> QED
  BY <1>1, <1>2, <1>3, <1>4 DEF t

\* A key whose text was joined is freed with the frame that has it.
LEMMA StringReadBuffers ==
  ASSUME Control, pc \in {"string", "joined"},
         NEW text \in Texts, NEW own \in BOOLEAN, NEW s, Sane(fmt, s), NEW fails, NEW lost,
         StringRead(text, own, s, fails, lost)
  PROVE  /\ pc' \notin {"parts", "joined"}
         /\ Cardinality(Owners(stack'))
            = Cardinality(Owners(stack)) + (IF str.use = "key" /\ own THEN 1 ELSE 0)
<1>0. fmt # << >> /\ fmt \in Formats /\ stack \in Seq(Begun) /\ Cardinality(Owners(stack)) \in Nat
  BY OwnersAre DEF Control, Phased, Typed
<1>1. CASE str.use = "key"
  <2> DEFINE opt == TokenOf(NextToken(NextToken(s)))
  <2>1. stack' = Keyed(stack, text, own, opt) /\ pc' = "value"
    BY <1>1 DEF StringRead, Keyed
  <2>2. stack # << >> /\ ~Last(stack).own
    BY <1>1 DEF Control, Phased
  <2>3. opt \in Chars
    BY <1>0, CharsAreTyped DEF TokenOf
  <2> HIDE DEF opt
  <2>4. /\ stack' \in Seq(Begun) /\ Len(stack') = Len(stack)
        /\ \A i \in 1 .. Len(stack) : stack'[i].own = IF i = Len(stack) THEN own ELSE stack[i].own
    <3>1. LET t == Keyed(stack, text, own, opt)
          IN /\ t \in Seq(Begun) /\ SameLevels(stack, t)
             /\ \A i \in 1 .. Len(stack) : t[i].own = IF i = Len(stack) THEN own ELSE stack[i].own
      BY <1>0, <2>2, <2>3, NewKey
    <3> QED
      BY <2>1, <3>1 DEF SameLevels
  <2> DEFINE t == stack'
  <2>5. /\ t \in Seq(Begun) /\ Len(t) = Len(stack)
        /\ \A i \in 1 .. Len(stack) : t[i].own = IF i = Len(stack) THEN own ELSE stack[i].own
    BY <2>4
  <2> HIDE DEF t
  <2>6. Cardinality(Owners(t)) = (Cardinality(Owners(stack)) - (IF Last(stack).own THEN 1 ELSE 0))
                                  + (IF own THEN 1 ELSE 0)
    BY <1>0, <2>2, <2>5, LastOwner
  <2>7. Cardinality(Owners(t)) = Cardinality(Owners(stack)) + (IF own THEN 1 ELSE 0)
    BY <1>0, <2>2, <2>6
  <2> QED
    BY <1>1, <2>1, <2>7 DEF t
<1>2. CASE str.use # "key"
  <2>1. pc' = "back" /\ stack' = stack
    BY <1>2 DEF StringRead, Return
  <2> QED
    BY <1>0, <1>2, <2>1
<1> QED
  BY <1>1, <1>2

LEMMA StringsBuffersFit ==
  ASSUME Control, BuffersFit, PlainString \/ OptionalWithModifier \/ JoinStart \/ JoinEnd
  PROVE  BuffersFit'
<1>0. stack \in Seq(Begun) /\ Cardinality(Owners(stack)) \in Nat
  BY OwnersAre DEF Control, Typed
<1>1. CASE PlainString
  <2> DEFINE text == IF Fits("CSTR") THEN args[taken + 1].value ELSE NoText
             bad == text # NoText /\ ~IsUtf8(text)
             fails == failed \/ ~Fits("CSTR") \/ (text = NoText /\ ~Optional) \/ bad
             read == IF bad THEN NoText ELSE text
  <2>1. pc = "string" /\ buffers' = buffers /\ StringRead(read, FALSE, Looked, fails, 0)
    BY <1>1 DEF PlainString
  <2>2. text \in Texts
    BY ArgumentIsText
  <2> HIDE DEF text, bad, fails
  <2>3. read \in Texts
    BY <2>2, TextsAreTyped
  <2> HIDE DEF read
  <2>4. Sane(fmt, Looked)
    BY <2>1, Reading DEF Control, Phased
  <2>5. pc' \notin {"parts", "joined"} /\ Cardinality(Owners(stack')) = Cardinality(Owners(stack)) + 0
    BY <2>1, <2>3, <2>4, StringReadBuffers
  <2> QED
    BY <1>0, <2>1, <2>5 DEF BuffersFit, Joining
<1>2. CASE OptionalWithModifier
  <2>1. pc = "string" /\ buffers' = buffers /\ StringRead(NoText, FALSE, Looked, TRUE, 0)
    BY <1>2 DEF OptionalWithModifier
  <2>2. Sane(fmt, Looked)
    BY <2>1, Reading DEF Control, Phased
  <2>3. pc' \notin {"parts", "joined"} /\ Cardinality(Owners(stack')) = Cardinality(Owners(stack)) + 0
    BY <2>1, <2>2, TextsAreTyped, StringReadBuffers
  <2> QED
    BY <1>0, <2>1, <2>3 DEF BuffersFit, Joining
<1>3. CASE JoinStart
  <2>1. JoinStart =>
          /\ pc = "string"
          /\ \/ pc' = "parts" /\ buffers' = buffers + 1 /\ stack' = stack
             \/ StringRead(NoText, FALSE, Looked, TRUE, 1) /\ buffers' = buffers
    BY Zenon DEF JoinStart
  <2>2. Sane(fmt, Looked)
    BY <1>3, <2>1, Reading DEF Control, Phased
  <2>3. CASE pc' = "parts" /\ buffers' = buffers + 1 /\ stack' = stack
    BY <1>0, <1>3, <2>1, <2>3 DEF BuffersFit, Joining
  <2>4. CASE StringRead(NoText, FALSE, Looked, TRUE, 1) /\ buffers' = buffers
    <3>1. pc' \notin {"parts", "joined"} /\ Cardinality(Owners(stack')) = Cardinality(Owners(stack)) + 0
      BY <1>3, <2>1, <2>2, <2>4, TextsAreTyped, StringReadBuffers
    <3> QED
      BY <1>0, <1>3, <2>1, <2>4, <3>1 DEF BuffersFit, Joining
  <2> QED
    BY <1>3, <2>1, <2>3, <2>4
<1>4. CASE JoinEnd
  <2> DEFINE bad == ~failed /\ ~IsUtf8(str.text)
             text == IF failed \/ bad THEN NoText ELSE str.text
             own == ~failed /\ ~bad
             fails == failed \/ bad
  <2>1. /\ pc = "joined" /\ StringRead(text, own, scan, fails, 0)
        /\ buffers' = buffers - IF str.use = "key" /\ own THEN 0 ELSE 1
    BY <1>4 DEF JoinEnd
  <2>2. text \in Texts /\ Sane(fmt, scan)
    BY <2>1, TextsAreTyped DEF Control, Typed, Strings, Phased
  <2>3. own \in BOOLEAN
    OBVIOUS
  <2> HIDE DEF bad, text, own, fails
  <2>4. /\ pc' \notin {"parts", "joined"}
        /\ Cardinality(Owners(stack'))
           = Cardinality(Owners(stack)) + (IF str.use = "key" /\ own THEN 1 ELSE 0)
    BY <2>1, <2>2, <2>3, StringReadBuffers
  <2>5. Joining(pc) = 1 /\ Joining(pc') = 0
    BY <2>1, <2>4 DEF Joining
  <2>6. buffers = Cardinality(Owners(stack)) + 1
    BY <2>5 DEF BuffersFit
  <2>7. buffers' = Cardinality(Owners(stack')) + 0
    <3>1. CASE str.use = "key" /\ own
      BY <1>0, <2>1, <2>4, <2>6, <3>1
    <3>2. CASE ~(str.use = "key" /\ own)
      BY <1>0, <2>1, <2>4, <2>6, <3>2
    <3> QED
      BY <3>1, <3>2
  <2> QED
    BY <2>5, <2>7 DEF BuffersFit
<1> QED
  BY <1>1, <1>2, <1>3, <1>4

LEMMA LevelsBuffersFit ==
  ASSUME Control, BuffersFit, Open \/ Close \/ Broken \/ NextItem
  PROVE  BuffersFit'
<1>0. stack \in Seq(Begun)
  BY DEF Control, Typed
<1>1. CASE Open
  <2>1. /\ pc = "value" /\ pc' \in {"items", "back"} /\ buffers' = buffers
        /\ stack' = stack \/ stack' = Append(stack, NewFrame(Token, Len(heap) + 1))
    BY <1>1, OpenIs
  <2> DEFINE frame == NewFrame(Token, Len(heap) + 1)
  <2>2. frame \in Begun /\ ~frame.own
    <3>1. Token \in Brackets /\ Len(heap) + 1 \in Nat
      BY <1>1, BracketsAreMade DEF Control, Typed
    <3> QED
      BY <3>1, FramesAreTyped
  <2> HIDE DEF frame
  <2>3. stack' = stack \/ stack' = Append(stack, frame)
    BY <2>1 DEF frame
  <2>4. Owners(stack') = Owners(stack)
    BY <1>0, <2>2, <2>3, OneOwnerMore
  <2> QED
    BY <2>1, <2>4 DEF BuffersFit, Joining
<1>2. CASE Close \/ Broken
  <2>1. Close => pc = "items" /\ stack' = Front(stack) /\ pc' = "back" /\ buffers' = buffers
    BY Zenon DEF Close, Return
  <2>2. Broken => pc = "items" /\ stack' = Front(stack) /\ pc' = "back" /\ buffers' = buffers
    BY Zenon DEF Broken, Return
  <2>3. pc = "items" /\ stack' = Front(stack) /\ pc' = "back" /\ buffers' = buffers
    BY <1>2, <2>1, <2>2
  <2>4. stack # << >> /\ ~Last(stack).own
    BY <2>3 DEF Control, Phased
  <2>5. Owners(stack') = Owners(stack)
    BY <1>0, <2>3, <2>4, OneOwnerLess
  <2> QED
    BY <2>3, <2>5 DEF BuffersFit, Joining
<1>3. CASE NextItem
  <2>1. NextItem => /\ pc = "items" /\ pc' = "value" /\ buffers' = buffers
                    /\ stack' = Marked(stack, LookAhead)
    BY Zenon DEF NextItem, Marked
  <2>2. stack # << >> /\ LookAhead \in Chars
    BY <1>3, <2>1, Reading DEF Control, Phased
  <2>3. LET t == Marked(stack, LookAhead)
        IN SameLevels(stack, t) /\ \A i \in 1 .. Len(stack) : t[i].own = stack[i].own
    BY <1>0, <2>2, NewMark
  <2>4. Len(stack') = Len(stack) /\ \A i \in 1 .. Len(stack) : stack'[i].own = stack[i].own
    BY <1>3, <2>1, <2>3 DEF SameLevels
  <2>5. Owners(stack') = Owners(stack)
    BY <2>4, SameOwners
  <2> QED
    BY <1>3, <2>1, <2>5 DEF BuffersFit, Joining
<1> QED
  BY <1>1, <1>2, <1>3

LEMMA ItemsBuffersFit ==
  ASSUME Control, BuffersFit, NothingCame \/ CameAfterError \/ Put
  PROVE  BuffersFit'
<1>0. stack \in Seq(Begun) /\ Cardinality(Owners(stack)) \in Nat
  BY OwnersAre DEF Control, Typed
<1>1. pc = "back" /\ stack # << >> /\ ItemDone
  BY BackIsDone
<1> DEFINE t == stack'
<1>2. /\ pc' = "items" /\ t \in Seq(Begun) /\ SameLevels(stack, t)
      /\ \A i \in 1 .. Len(stack) : t[i].own = IF i = Len(stack) THEN FALSE ELSE stack[i].own
      /\ buffers' = buffers - IF Top.own THEN 1 ELSE 0
  BY <1>1, ItemDoneLeads
<1> HIDE DEF t
<1>3. Cardinality(Owners(t)) = (Cardinality(Owners(stack)) - (IF Last(stack).own THEN 1 ELSE 0))
                                + (IF FALSE THEN 1 ELSE 0)
  BY <1>0, <1>1, <1>2, LastOwner DEF SameLevels
<1>4. buffers = Cardinality(Owners(stack)) + 0
  BY <1>1 DEF BuffersFit, Joining
<1>5. buffers' = Cardinality(Owners(t)) + 0
  <2>1. CASE Last(stack).own
    BY <1>0, <1>2, <1>3, <1>4, <2>1 DEF Top
  <2>2. CASE ~Last(stack).own
    BY <1>0, <1>2, <1>3, <1>4, <2>2 DEF Top
  <2> QED
    BY <2>1, <2>2
<1>6. Joining(pc') = 0
  BY <1>2 DEF Joining
<1> QED
  BY <1>5, <1>6 DEF BuffersFit, t

\* Every step counts the buffers that the keys and the text that is joined have.
LEMMA PackStaysBuffered ==
  ASSUME Control, BuffersFit, PackNext
  PROVE  BuffersFit'
<1>1. CASE PlainString \/ OptionalWithModifier \/ JoinStart \/ JoinEnd
  BY <1>1, StringsBuffersFit
<1>2. CASE Open \/ Close \/ Broken \/ NextItem
  BY <1>2, LevelsBuffersFit
<1>3. CASE NothingCame \/ CameAfterError \/ Put
  BY <1>3, ItemsBuffersFit
<1> DEFINE Apart0 == /\ buffers' = buffers /\ stack' = stack
                     /\ pc \notin {"parts", "joined"} /\ pc' \notin {"parts", "joined"}
<1>4. CASE \/ PackCall \/ PackCallStarved \/ PackFinish \/ NullValue \/ BooleanValue \/ RefValue
           \/ Unexpected \/ StringValue \/ NextKey
  <2>1. Apart0
    <3>1. ASSUME PackCall \/ PackCallStarved \/ PackFinish
          PROVE  Apart0
      BY <3>1 DEF PackCall, PackCallStarved, PackFinish
    <3>2. ASSUME NullValue \/ BooleanValue \/ RefValue PROVE Apart0
      BY <3>2 DEF NullValue, BooleanValue, RefValue, Return
    <3>3. Unexpected => Apart0
      BY Zenon DEF Unexpected, Return
    <3>4. ASSUME StringValue PROVE Apart0
      BY <3>4 DEF StringValue
    <3>5. ASSUME NextKey PROVE Apart0
      <4>1. NextKey => buffers' = buffers /\ stack' = stack /\ pc = "items" /\ pc' = "string"
        BY Zenon DEF NextKey
      <4> QED
        BY <3>5, <4>1
    <3> HIDE DEF Apart0
    <3> QED
      BY <1>4, <3>1, <3>2, <3>3, <3>4, <3>5, Zenon
  <2> QED
    BY <2>1 DEF BuffersFit, Joining
<1>5. CASE NumberValue
  <2>1. buffers' = buffers /\ stack' = stack /\ pc = "value" /\ pc' = "back"
    BY <1>5 DEF NumberValue, Return
  <2> QED
    BY <2>1 DEF BuffersFit, Joining
<1>6. CASE JoinPart
  <2>1. buffers' = buffers /\ stack' = stack /\ pc = "parts" /\ pc' \in {"parts", "joined"}
    BY <1>6 DEF JoinPart
  <2> QED
    BY <2>1 DEF BuffersFit, Joining
<1> QED
  BY <1>1, <1>2, <1>3, <1>4, <1>5, <1>6 DEF PackNext

-----------------------------------------------------------------------------
(* Nothing is lost, and nothing released twice                             *)

\* What is in the hands of the call, by the places it is in.
LEMMA InHandIsPlaced ==
  ASSUME Control, Holding, NEW y \in Values, Real(y)
  PROVE  y \in InHand <=> InPlace(heap, live, Roots, y)
<1>1. /\ stack \in Seq(Begun) /\ ret \in Values /\ heap \in Seq(Nodes) /\ Len(heap) \in Nat
      /\ Owned(heap, live, Roots) /\ Grown(heap) /\ live \subseteq 1 .. Len(heap)
      /\ \A x \in Roots : IsNode(x) => x[2] \in live
  BY DEF Control, Typed, Holding, Owned, Grown
<1>2. Roots = {Node(stack[i].node) : i \in 1 .. Len(stack)} \cup {x \in {ret} : Real(x)}
  BY DEF Roots, RootsOf
<1>3. y \in Reals
  BY DEF Reals
<1>4. ASSUME NEW x \in Roots
      PROVE  x \in Values /\ (y \in Below(x) <=> y \in Held(heap, x))
  <2>1. x \in Values /\ Real(x) /\ (IsNode(x) => x[2] \in 1 .. Len(heap))
    BY <1>1 DEF Owned, Reals
  <2>2. Below(x) \cap Reals = Reached(x) \cap Reals
    BY <1>1, <2>1, BelowIsReached
  <2>3. Reached(x) = Held(heap, x)
    BY <2>1 DEF Reached
  <2> QED
    BY <1>3, <2>1, <2>2, <2>3
<1>5. ASSUME ~Real(ret) PROVE y \notin Below(ret)
  <2>1. ~IsNode(ret)
    BY <1>5 DEF Real, IsNode
  <2>2. Below(ret) \cap Reals = Reached(ret) \cap Reals
    BY <1>1, <2>1, BelowIsReached
  <2>3. Reached(ret) = {}
    BY <1>5 DEF Reached
  <2> QED
    BY <1>3, <2>2, <2>3
<1>6. pc \notin {"back", "packed"} => ret = None /\ ~Real(ret)
  BY ValuesAre DEF Control, Phased
<1>7. y \in InHand <=> y \in Below(ret) \/ \E i \in 1 .. Len(stack) : y \in Below(Node(stack[i].node))
  <2>1. ToSet(stack) = {stack[i] : i \in 1 .. Len(stack)}
    BY <1>1 DEF ToSet
  <2>2. y \in UNION {Below(Node(f.node)) : f \in ToSet(stack)}
        <=> \E i \in 1 .. Len(stack) : y \in Below(Node(stack[i].node))
    BY <2>1
  <2> QED
    BY <1>5, <1>6, <2>2 DEF InHand
<1>8. y \in InHand <=> \E x \in Roots : y \in Held(heap, x)
  <2>1. ASSUME NEW x \in Roots, y \in Held(heap, x) PROVE y \in InHand
    BY <1>2, <1>4, <1>7, <2>1
  <2>2. ASSUME y \in InHand PROVE \E x \in Roots : y \in Held(heap, x)
    <3>1. CASE y \in Below(ret)
      <4>1. ret \in Roots
        BY <1>2, <1>5, <3>1
      <4> QED
        BY <1>4, <3>1, <4>1
    <3>2. CASE \E i \in 1 .. Len(stack) : y \in Below(Node(stack[i].node))
      <4>1. PICK i \in 1 .. Len(stack) : y \in Below(Node(stack[i].node))
        BY <3>2
      <4>2. Node(stack[i].node) \in Roots
        BY <1>2
      <4> QED
        BY <1>4, <4>1, <4>2
    <3> QED
      BY <1>7, <2>2, <3>1, <3>2
  <2> QED
    BY <2>1, <2>2
<1>9. InPlace(heap, live, Roots, y) <=> \E x \in Roots : y \in Held(heap, x)
  BY <1>1, PlacesAreHeld
<1> QED
  BY <1>8, <1>9

\* Only values are in the hands of the call.
LEMMA InHandAreValues ==
  ASSUME Control, Holding
  PROVE  InHand \subseteq Values
<1>1. /\ stack \in Seq(Begun) /\ ret \in Values /\ Grown(heap) /\ live \subseteq 1 .. Len(heap)
      /\ \A x \in Roots : IsNode(x) => x[2] \in live
  BY DEF Control, Typed, Holding, Owned
<1>2. Roots = {Node(stack[i].node) : i \in 1 .. Len(stack)} \cup {x \in {ret} : Real(x)}
  BY DEF Roots, RootsOf
<1>3. Below(ret) \subseteq Values
  <2>1. IsNode(ret) => ret[2] \in 1 .. Len(heap)
    BY <1>1, <1>2 DEF Real, IsNode
  <2> QED
    BY <1>1, <2>1, BelowIsReached
<1>4. ASSUME NEW f \in ToSet(stack) PROVE Below(Node(f.node)) \subseteq Values
  <2>1. PICK i \in 1 .. Len(stack) : f = stack[i]
    BY <1>1 DEF ToSet
  <2>2. Node(f.node) \in Roots
    BY <1>2, <2>1
  <2>3. Node(f.node) \in Values
    BY <2>2 DEF Holding, Owned, Reals
  <2> QED
    BY <1>1, <2>2, <2>3, BelowIsReached
<1> QED
  BY <1>3, <1>4 DEF InHand

LEMMA HoldingOwns ==
  ASSUME Control, Holding, Counted, BuffersFit
  PROVE  PackOwns
<1>1. {Node(n) : n \in live} = {x \in InHand : x[1] = "node"}
  <2>0. Owned(heap, live, Roots) /\ live \subseteq Nat
    BY OwnedIs DEF Holding
  <2>1. ASSUME NEW n \in live PROVE Node(n) \in InHand /\ Node(n)[1] = "node"
    <3>1. n \in Nat /\ Node(n) \in Values /\ Real(Node(n)) /\ IsNode(Node(n))
      BY <2>0, ValuesAre
    <3>2. InPlace(heap, live, Roots, Node(n))
      BY <2>0 DEF Owned, InPlace
    <3> QED
      BY <3>1, <3>2, InHandIsPlaced DEF IsNode
  <2>2. ASSUME NEW x \in InHand, x[1] = "node" PROVE \E n \in live : x = Node(n)
    <3>1. x \in Values /\ IsNode(x) /\ Real(x)
      BY <2>2, InHandAreValues DEF IsNode, Real
    <3>2. InPlace(heap, live, Roots, x)
      BY <3>1, InHandIsPlaced
    <3>3. x[2] \in live
      BY <2>0, <3>1, <3>2 DEF Owned, InPlace
    <3> QED
      BY <3>1, <3>3, ValuesAre
  <2> QED
    BY <2>1, <2>2
<1>2. ~strayed => \A k \in DOMAIN args :
        args[k].kind = "JSON" /\ args[k].value # None =>
          held[k] = (IF k <= taken /\ args[k].from = "o" THEN 0 ELSE 1)
                      + (IF Given(k) \in InHand THEN 1 ELSE 0)
  <2>0. Len(args) \in Nat /\ DOMAIN args = 1 .. Len(args) /\ held \in [1 .. Len(args) -> Int]
    BY DEF Control, ArgsFit, Holding
  <2>1. ASSUME ~strayed, NEW k \in 1 .. Len(args), args[k].kind = "JSON", args[k].value # None
        PROVE  held[k] = (IF k <= taken /\ args[k].from = "o" THEN 0 ELSE 1)
                           + (IF Given(k) \in InHand THEN 1 ELSE 0)
    <3> DEFINE spent == IF k <= taken /\ args[k].from = "o" THEN 0 ELSE 1
    <3>1. held[k] \in Int /\ spent \in Int
      BY <2>0
    <3>2. held[k] - (IF Placed(k) THEN 1 ELSE 0) = spent
      BY <2>1 DEF Counted, Spare
    <3>3. Given(k) \in Values /\ Real(Given(k))
      BY <2>0, ValuesAre
    <3>4. Placed(k) <=> Given(k) \in InHand
      BY <3>3, InHandIsPlaced DEF Placed
    <3> HIDE DEF spent
    <3>5. held[k] = spent + (IF Given(k) \in InHand THEN 1 ELSE 0)
      <4>1. CASE Placed(k)
        BY <3>1, <3>2, <3>4, <4>1
      <4>2. CASE ~Placed(k)
        BY <3>1, <3>2, <3>4, <4>2
      <4> QED
        BY <4>1, <4>2
    <3> QED
      BY <3>5 DEF spent
  <2> QED
    BY <2>0, <2>1
<1>3. buffers = Cardinality({i \in DOMAIN stack : stack[i].own})
                  + (IF pc \in {"parts", "joined"} THEN 1 ELSE 0)
  <2>1. DOMAIN stack = 1 .. Len(stack)
    BY DEF Control, Typed
  <2> QED
    BY <2>1 DEF BuffersFit, Owners, Joining
<1> QED
  BY <1>1, <1>2, <1>3, Zenon DEF PackOwns

\* What is true of json_pack from its call to its end.
Packs == Control /\ InStep /\ Holding /\ Counted /\ BuffersFit

LEMMA PackBegins ==
  Init => Packs
<1> SUFFICES ASSUME Init PROVE Packs
  OBVIOUS
<1>1. Control
  BY InitIsInOrder
<1>2. /\ pc = "call" /\ taken = 0 /\ heap = << >> /\ live = {} /\ buffers = 0 /\ stack = << >>
      /\ ret = None /\ held = [k \in DOMAIN args |-> 1]
  BY DEF Init
<1>3. InStep
  BY <1>2 DEF InStep
<1>4. ~Real(None) /\ ~IsNode(None)
  BY ValuesAre
<1>5. Roots = {} /\ Ranked(stack, ret)
  BY <1>2, <1>4 DEF Roots, RootsOf, Ranked
<1>6. Grown(heap) /\ Apart(heap)
  BY <1>2 DEF Grown, Apart
<1>7. Owned(heap, live, Roots)
  BY <1>2, <1>5, <1>6 DEF Owned
<1>8. \A k : ~Placed(k)
  BY <1>2, <1>5 DEF Placed, InPlace
<1>9. held = [k \in 1 .. Len(args) |-> 1]
  BY <1>1, <1>2 DEF Control, ArgsFit
<1>10. Holding
  BY <1>5, <1>6, <1>7, <1>8, <1>9 DEF Holding
<1>11. Counted
  BY <1>2, <1>8, <1>9 DEF Counted, Spare
<1>12. BuffersFit
  <2>1. Owners(stack) = {}
    BY <1>2 DEF Owners
  <2>2. Cardinality(Owners(stack)) = 0
    BY <2>1, FS_EmptySet
  <2> QED
    BY <1>2, <2>2 DEF BuffersFit, Joining
<1> QED
  BY <1>1, <1>3, <1>10, <1>11, <1>12 DEF Packs

LEMMA PacksStays ==
  ASSUME Packs, PackNext
  PROVE  Packs'
<1>1. Control' /\ InStep'
  BY PackStaysInOrder, PackStaysInStep DEF Packs
<1>2. Holding' /\ Counted'
  BY PackStaysHolding DEF Packs
<1>3. BuffersFit'
  BY PackStaysBuffered DEF Packs
<1> QED
  BY <1>1, <1>2, <1>3 DEF Packs

\* The phases of json_unpack.
UnpackPhases == {"unpack", "match", "matched", "level", "unpacked"}

LEMMA UnpackStaysUnpacking ==
  ASSUME UnpackNext
  PROVE  pc \in UnpackPhases /\ pc' \in UnpackPhases
<1> DEFINE Goes == pc \in UnpackPhases /\ pc' \in UnpackPhases
<1>1. ASSUME UnpackCall \/ UnpackCallStarved \/ UnpackFinish PROVE Goes
  BY <1>1 DEF UnpackCall, UnpackCallStarved, UnpackFinish, Fails, FailsAfter, UnpackPhases
<1>2. ASSUME NoMatch \/ NullMatch \/ TargetMatch PROVE Goes
  <2>1. NoMatch \/ NullMatch \/ TargetMatch => pc = "match" /\ pc' \in {"matched", "unpacked"}
    <3>1. NoMatch => pc = "match" /\ pc' = "unpacked"
      BY Zenon DEF NoMatch, Fails, FailsAfter
    <3>2. NullMatch => pc = "match" /\ pc' = "matched"
      BY Zenon DEF NullMatch
    <3>3. TargetMatch => pc = "match" /\ pc' = "matched"
      BY Zenon DEF TargetMatch
    <3> QED
      BY <3>1, <3>2, <3>3
  <2> QED
    BY <1>2, <2>1 DEF UnpackPhases
<1>3. ASSUME StringMatch PROVE Goes
  BY <1>3 DEF StringMatch, FailsAtTarget, FailsAfter, UnpackPhases
<1>4. ASSUME OpenMatch \/ OpenStarved PROVE Goes
  <2>1. OpenMatch => pc = "match" /\ pc' = "level"
    BY Zenon DEF OpenMatch
  <2>2. OpenStarved => pc = "match" /\ pc' = "unpacked"
    BY Zenon DEF OpenStarved, Fails, FailsAfter
  <2> QED
    BY <1>4, <2>1, <2>2 DEF UnpackPhases
<1>5. ASSUME StrictMark \/ BrokenLevel PROVE Goes
  <2>1. StrictMark => pc = "level" /\ pc' = pc
    BY Zenon DEF StrictMark, InLevel
  <2>2. BrokenLevel => pc = "level" /\ pc' = "unpacked"
    BY Zenon DEF BrokenLevel, InLevel, Fails, FailsAfter
  <2> QED
    BY <1>5, <2>1, <2>2 DEF UnpackPhases
<1>6. ASSUME MatchMember \/ MatchItem PROVE Goes
  <2>1. MatchMember => pc = "level" /\ (pc' = "match" \/ pc' = "unpacked")
    BY Zenon DEF MatchMember, InLevel, Fails, FailsAfter
  <2>2. MatchItem => pc = "level" /\ (pc' = "match" \/ pc' = "unpacked")
    BY Zenon DEF MatchItem, InLevel, Fails, FailsAfter
  <2> QED
    BY <1>6, <2>1, <2>2 DEF UnpackPhases
<1>7. ASSUME Matched \/ CloseMatch PROVE Goes
  <2>1. Matched => pc = "matched" /\ pc' = "level"
    BY Zenon DEF Matched
  <2>2. CloseMatch => pc = "level" /\ (pc' = "matched" \/ pc' = "unpacked")
    BY Zenon DEF CloseMatch, Fails, FailsAfter
  <2> QED
    BY <1>7, <2>1, <2>2 DEF UnpackPhases
<1> QED
  BY <1>1, <1>2, <1>3, <1>4, <1>5, <1>6, <1>7 DEF UnpackNext

LEMMA PackNeedsItsPhases ==
  ASSUME PackNext
  PROVE  pc \in PackPhases
<1> DEFINE Goes == pc \in PackPhases
<1>0. \A x : x \in {"call", "value", "string", "parts", "joined", "items", "back"} => x \in PackPhases
  BY DEF PackPhases
<1>1. ASSUME PackCall \/ PackCallStarved \/ PackFinish PROVE Goes
  BY <1>0, <1>1 DEF PackCall, PackCallStarved, PackFinish
<1>2. ASSUME \/ NullValue \/ BooleanValue \/ NumberValue \/ RefValue \/ Unexpected
             \/ StringValue \/ Open
      PROVE  Goes
  <2>1. pc = "value"
    BY <1>2, Zenon DEF NullValue, BooleanValue, NumberValue, RefValue, Unexpected, StringValue, Open
  <2> QED
    BY <1>0, <2>1
<1>3. ASSUME PlainString \/ OptionalWithModifier \/ JoinStart \/ JoinPart \/ JoinEnd PROVE Goes
  <2>1. pc = "string" \/ pc = "parts" \/ pc = "joined"
    BY <1>3, Zenon DEF PlainString, OptionalWithModifier, JoinStart, JoinPart, JoinEnd
  <2> QED
    BY <1>0, <2>1
<1>4. ASSUME Close \/ Broken \/ NextKey \/ NextItem PROVE Goes
  <2>1. pc = "items"
    BY <1>4, Zenon DEF Close, Broken, NextKey, NextItem
  <2> QED
    BY <1>0, <2>1
<1>5. ASSUME NothingCame \/ CameAfterError \/ Put PROVE Goes
  BY <1>0, <1>5, BackIsDone
<1> HIDE DEF Goes
<1>6. Goes
  BY <1>1, <1>2, <1>3, <1>4, <1>5, Zenon DEF PackNext
<1> QED
  BY <1>6 DEF Goes

LEMMA NotBoth ==
  PackPhases \cap UnpackPhases = {}
  BY DEF PackPhases, UnpackPhases

\* The state of json_pack while it is called: afterwards nothing is said of it.
PackInv == pc \in PackPhases => Packs

LEMMA PackInvHolds ==
  ASSUME PackInv, [Next]_vars
  PROVE  PackInv'
<1>1. CASE Packing
  <2>1. PackNext
    BY <1>1 DEF Packing
  <2>2. pc \in PackPhases
    BY <2>1, PackNeedsItsPhases
  <2> QED
    BY <2>1, <2>2, PacksStays DEF PackInv
<1>2. CASE ThenUnpack
  <2>1. pc' = "unpack"
    BY <1>2 DEF ThenUnpack
  <2> QED
    BY <2>1 DEF PackInv, PackPhases
<1>3. CASE Unpacking
  <2>1. pc' \in UnpackPhases
    BY <1>3, UnpackStaysUnpacking DEF Unpacking
  <2> QED
    BY <2>1, NotBoth DEF PackInv
<1>4. CASE UNCHANGED vars
  <2>0. /\ pc' = pc /\ fmt' = fmt /\ args' = args /\ taken' = taken /\ scan' = scan
        /\ heap' = heap /\ live' = live /\ buffers' = buffers
        /\ stack' = stack /\ str' = str /\ ret' = ret /\ strayed' = strayed /\ held' = held
    BY <1>4, Zenon DEF vars, formatVars, packVars
  <2>1. Control => Control'
    BY <2>0 DEF Control, Typed, ArgsFit, LevelsFit, Phased
  <2>2. InStep => InStep'
    BY <2>0, Zenon DEF InStep, Beside
  <2>3. Holding => Holding'
    BY <2>0 DEF Holding, Placed, Roots
  <2>4. Counted => Counted'
    BY <2>0, Zenon DEF Counted, Spare, Placed, Roots
  <2>5. BuffersFit => BuffersFit'
    BY <2>0 DEF BuffersFit
  <2> QED
    BY <2>0, <2>1, <2>2, <2>3, <2>4, <2>5, Zenon DEF PackInv, Packs
<1> QED
  BY <1>1, <1>2, <1>3, <1>4 DEF Next

\* On no way through json_pack, whatever the format, the arguments and the allocations
\* that fail, is a value that was made or a buffer lost or freed while it is in use, and
\* no reference of an argument is lost, or released twice, while the packer reads
\* each for the token it was passed for.
THEOREM PackLosesNothing == Spec => []PackOwns
<1>1. Init => PackInv
  BY PackBegins DEF PackInv
<1>2. PackInv /\ [Next]_vars => PackInv'
  BY PackInvHolds
<1>3. PackInv => PackOwns
  <2>1. ASSUME Packs PROVE PackOwns
    BY <2>1, HoldingOwns DEF Packs
  <2> QED
    BY <2>1, Zenon DEF PackInv, PackOwns
<1> QED
  BY <1>1, <1>2, <1>3, PTL DEF Spec

-----------------------------------------------------------------------------
(* The shim of json_unpack, step by step                                   *)

UnpackIs(f, m, tok, open, at, list, strict) == ShimIs(f, m, tok, open, at, list) /\ m.strict = strict
UnpackPast(f, m, tok, open, list, strict) == ShimPast(f, m, tok, open, list) /\ m.strict = strict

\* Where a target ends, what is listed for it, and where the value of a key begins.
\* Nothing is listed for a call that only validates, v.
TargetEnd(v, f, tok) ==
  IF ~v /\ CharOf(f, tok) = "s" /\ Behind(f, tok) = "%" THEN NextPlace(f, tok) ELSE tok
TargetList(v, f, tok, list) ==
  LET c == CharOf(f, tok)
      target == Append(list, Entry(TargetKind[c], c))
  IN IF v THEN list
     ELSE IF c = "s" /\ Behind(f, tok) = "%" THEN Append(target, Entry("SIZE", "%"))
     ELSE target
KeyEnd(f, tok) == IF Behind(f, tok) = "?" THEN NextPlace(f, tok) ELSE tok

Targets == {"s", "i", "I", "b", "f", "F", "o", "O"}

LEMMA TargetsAre ==
  /\ DOMAIN TargetKind = Targets
  /\ \A c \in Targets : TargetKind[c] \in Kinds /\ c \in Sources
  /\ TargetKind["s"] = "STRING"
  /\ \A c \in Targets : TargetKind[c] = "JSON" <=> c \in {"o", "O"}
<1>1. DOMAIN TargetKind = Targets
  BY DEF TargetKind, Targets
<1>2. ASSUME NEW c \in Targets
      PROVE  /\ TargetKind[c] \in Kinds /\ c \in Sources
             /\ TargetKind[c] = "JSON" <=> c \in {"o", "O"}
  BY DEF TargetKind, Targets, Kinds, Sources
<1>3. TargetKind["s"] = "STRING"
  BY DEF TargetKind
<1> QED
  BY <1>1, <1>2, <1>3

LEMMA DoneAsStrict ==
  ASSUME NEW f, NEW m, ShimOK(f, m)
  PROVE  ShimValueDone(f, m).strict = m.strict
<1>1. CASE m.open = << >>
  BY <1>1 DEF ShimValueDone, ShimOK
<1>2. CASE m.open # << >>
  <2>1. ShimValueDone(f, m) = [m EXCEPT !.at = "items", !.scan = Advanced(f, @)]
    BY <1>2 DEF ShimValueDone
  <2> QED
    BY <2>1 DEF ShimOK
<1> QED
  BY <1>1, <1>2

\* marshal_unpack_value at a target.
LEMMA TargetGoes ==
  ASSUME NEW v \in BOOLEAN, NEW f \in Formats, NEW m, ShimOK(f, m), CharOf(f, m.scan.tok) \in Targets
  PROVE  LET t == ShimTarget(f, m, v)
         IN /\ ShimOK(f, t) /\ t.open = m.open /\ t.strict = m.strict
            /\ t.scan.tok = TargetEnd(v, f, m.scan.tok)
            /\ t.list = TargetList(v, f, m.scan.tok, m.list)
<1> DEFINE tok == m.scan.tok
           c == CharOf(f, tok)
           s == Advanced(f, m.scan)
           target == Emitted(m, TargetKind[c], c)
           more == Append(m.list, Entry(TargetKind[c], c))
           t == ShimTarget(f, m, v)
<1>1. CASE v
  <2>1. t = m
    BY <1>1 DEF ShimTarget
  <2> QED
    BY <1>1, <2>1 DEF TargetEnd, TargetList
<1>2. CASE ~v
  <2>0. c \in Targets
    OBVIOUS
  <2>1. /\ ShimOK(f, target) /\ target.scan = m.scan /\ target.open = m.open
        /\ target.strict = m.strict /\ target.list = more
    BY TargetsAre, Emits DEF Entry
  <2>2. /\ Sane(f, s) /\ s.tok = NextPlace(f, tok)
        /\ Sane(f, PushedBack(s)) /\ PushedBack(s).tok = tok
        /\ CharOf(f, s.tok) = Behind(f, tok)
    BY AdvancedIsSane, LookedIsSane DEF ShimOK, Behind
  <2>3. t = IF c # "s" THEN target
            ELSE IF CharOf(f, s.tok) = "%" THEN Emitted([target EXCEPT !.scan = s], "SIZE", "%")
            ELSE [target EXCEPT !.scan = PushedBack(s)]
    BY <1>2 DEF ShimTarget
  <2>4. /\ TargetEnd(v, f, tok) = IF c = "s" /\ Behind(f, tok) = "%" THEN NextPlace(f, tok) ELSE tok
        /\ TargetList(v, f, tok, m.list) = IF c = "s" /\ Behind(f, tok) = "%"
                                           THEN Append(more, Entry("SIZE", "%")) ELSE more
    BY <1>2 DEF TargetEnd, TargetList
  <2> HIDE DEF target, t, s, more, c
  <2>5. ASSUME c # "s"
      PROVE  /\ ShimOK(f, t) /\ t.open = m.open /\ t.strict = m.strict
             /\ t.scan.tok = TargetEnd(v, f, tok)
             /\ t.list = TargetList(v, f, tok, m.list)
    BY <2>1, <2>3, <2>4, <2>5
  <2>6. ASSUME c = "s" /\ Behind(f, tok) = "%"
      PROVE  /\ ShimOK(f, t) /\ t.open = m.open /\ t.strict = m.strict
             /\ t.scan.tok = TargetEnd(v, f, tok)
             /\ t.list = TargetList(v, f, tok, m.list)
    <3> DEFINE u == [target EXCEPT !.scan = s]
    <3>1. /\ ShimOK(f, u) /\ u.scan = s /\ u.open = m.open /\ u.strict = m.strict /\ u.list = more
      BY <2>1, <2>2, MovesTo
    <3>2. t = Emitted(u, "SIZE", "%")
      BY <2>2, <2>3, <2>6
    <3>3. "SIZE" \in Kinds /\ "%" \in Sources
      BY DEF Kinds, Sources
    <3> HIDE DEF u
    <3>4. /\ ShimOK(f, t) /\ t.scan = s /\ t.open = m.open /\ t.strict = m.strict
          /\ t.list = Append(more, Entry("SIZE", "%"))
      BY <3>1, <3>2, <3>3, Emits DEF Entry
    <3> QED
      BY <2>2, <2>4, <2>6, <3>4
  <2>7. ASSUME c = "s" /\ Behind(f, tok) # "%"
      PROVE  /\ ShimOK(f, t) /\ t.open = m.open /\ t.strict = m.strict
             /\ t.scan.tok = TargetEnd(v, f, tok)
             /\ t.list = TargetList(v, f, tok, m.list)
    <3>1. t = [target EXCEPT !.scan = PushedBack(s)]
      BY <2>2, <2>3, <2>7
    <3>2. /\ ShimOK(f, t) /\ t.scan = PushedBack(s) /\ t.open = m.open /\ t.strict = m.strict
          /\ t.list = more
      BY <2>1, <2>2, <3>1, MovesTo
    <3> QED
      BY <2>2, <2>4, <2>7, <3>2
  <2>8. /\ ShimOK(f, t) /\ t.open = m.open /\ t.strict = m.strict
        /\ t.scan.tok = TargetEnd(v, f, tok)
        /\ t.list = TargetList(v, f, tok, m.list)
    BY <2>5, <2>6, <2>7
  <2> QED
    BY <2>8 DEF t
<1> QED
  BY <1>1, <1>2

\* marshal_unpack_value
LEMMA UnpackValueGoes ==
  ASSUME NEW v \in BOOLEAN, NEW f \in Formats, NEW m, ShimOK(f, m), m.at = "value"
  PROVE  LET r == UnpackShimStep(v, f, m)
             tok == m.scan.tok
             c == CharOf(f, tok)
         IN /\ c \in Brackets =>
                 UnpackIs(f, r, NextPlace(f, tok), Append(m.open, c), "items", m.list, m.strict)
            /\ c = "n" => UnpackPast(f, r, tok, m.open, m.list, m.strict)
            /\ c \in Targets =>
                 UnpackPast(f, r, TargetEnd(v, f, tok), m.open, TargetList(v, f, tok, m.list), m.strict)
            /\ c \notin Brackets \cup {"n"} \cup Targets => ShimStopped(f, r, m.list)
<1> DEFINE r == UnpackShimStep(v, f, m)
           tok == m.scan.tok
           c == CharOf(f, tok)
<1>0. DOMAIN TargetKind = Targets
  BY TargetsAre
<1>1. ASSUME c \in Brackets
      PROVE  UnpackIs(f, r, NextPlace(f, tok), Append(m.open, c), "items", m.list, m.strict)
  <2>1. r = ShimOpen(f, m)
    BY <1>0, <1>1 DEF UnpackShimStep, Brackets, Targets
  <2>2. ShimOpen(f, m).strict = m.strict
    BY DEF ShimOpen, ShimOK
  <2>3. ShimIs(f, ShimOpen(f, m), NextPlace(f, tok), Append(m.open, c), "items", m.list)
    BY <1>1, OpenGoes
  <2> HIDE DEF r, c
  <2> QED
    BY <2>1, <2>2, <2>3 DEF UnpackIs, r, c
<1>2. ASSUME c = "n" PROVE UnpackPast(f, r, tok, m.open, m.list, m.strict)
  <2>1. r = ShimValueDone(f, m)
    BY <1>0, <1>2 DEF UnpackShimStep, Targets
  <2> QED
    BY <2>1, ValueIsDone, DoneAsStrict, Zenon DEF UnpackPast
<1>3. ASSUME c \in Targets
      PROVE  UnpackPast(f, r, TargetEnd(v, f, tok), m.open, TargetList(v, f, tok, m.list), m.strict)
  <2> DEFINE t == ShimTarget(f, m, v)
  <2>1. c \notin {"{", "[", "n"}
    BY <1>3 DEF Targets
  <2>2. r = ShimValueDone(f, t)
    BY <1>0, <1>3, <2>1 DEF UnpackShimStep
  <2>3. /\ ShimOK(f, t) /\ t.open = m.open /\ t.strict = m.strict
        /\ t.scan.tok = TargetEnd(v, f, tok)
        /\ t.list = TargetList(v, f, tok, m.list)
    BY <1>3, TargetGoes
  <2> HIDE DEF t, r, c
  <2>4. ShimPast(f, r, t.scan.tok, t.open, t.list) /\ r.strict = t.strict
    BY <2>2, <2>3, ValueIsDone, DoneAsStrict
  <2> QED
    BY <2>3, <2>4 DEF UnpackPast, r, c
<1>4. ASSUME c \notin Brackets \cup {"n"} \cup Targets PROVE ShimStopped(f, r, m.list)
  <2>1. r = ShimStop(m)
    BY <1>0, <1>4 DEF UnpackShimStep, Brackets
  <2> QED
    BY <2>1, StopsThere
<1> HIDE DEF r, c
<1>5. /\ c \in Brackets => UnpackIs(f, r, NextPlace(f, tok), Append(m.open, c), "items", m.list, m.strict)
      /\ c = "n" => UnpackPast(f, r, tok, m.open, m.list, m.strict)
      /\ c \in Targets =>
           UnpackPast(f, r, TargetEnd(v, f, tok), m.open, TargetList(v, f, tok, m.list), m.strict)
      /\ c \notin Brackets \cup {"n"} \cup Targets => ShimStopped(f, r, m.list)
  BY <1>1, <1>2, <1>3, <1>4
<1> QED
  BY <1>5 DEF r, c

\* marshal_unpack_object and marshal_unpack_array.
LEMMA UnpackItemsGo ==
  ASSUME NEW v \in BOOLEAN, NEW f \in Formats, NEW m, ShimOK(f, m), m.at = "items", m.open # << >>
  PROVE  LET r == UnpackShimStep(v, f, m)
             tok == m.scan.tok
             c == CharOf(f, tok)
             of == Last(m.open)
         IN IF c = Closes(of) THEN UnpackPast(f, r, tok, Front(m.open), m.list, FALSE)
            ELSE IF m.strict \/ c = "end" THEN ShimStopped(f, r, m.list)
            ELSE IF c \in {"!", "*"} THEN UnpackIs(f, r, NextPlace(f, tok), m.open, "items", m.list, TRUE)
            ELSE IF of = "[" THEN UnpackIs(f, r, tok, m.open, "value", m.list, FALSE)
            ELSE IF c = "s" THEN UnpackIs(f, r, NextPlace(f, KeyEnd(f, tok)), m.open, "value",
                                          Append(m.list, Entry("KEY", "s")), FALSE)
            ELSE ShimStopped(f, r, m.list)
<1> DEFINE r == UnpackShimStep(v, f, m)
           tok == m.scan.tok
           c == CharOf(f, tok)
           of == Last(m.open)
           s == Advanced(f, m.scan)
           key == Emitted(m, "KEY", "s")
           list == Append(m.list, Entry("KEY", "s"))
<1>0. r = ShimUnpackItems(f, m)
  BY DEF UnpackShimStep
<1>1. m.strict \in BOOLEAN
  BY DEF ShimOK
<1>2. Sane(f, s) /\ s.tok = NextPlace(f, tok) /\ CharOf(f, s.tok) = Behind(f, tok)
  BY AdvancedIsSane DEF ShimOK, Behind
<1>3. CASE c = Closes(of)
  <2>1. r = ShimClose(f, m)
    BY <1>0, <1>3 DEF ShimUnpackItems
  <2>2. ShimPast(f, r, tok, Front(m.open), m.list)
    BY <2>1, CloseGoes
  <2> DEFINE u == [m EXCEPT !.open = Front(@), !.strict = FALSE]
  <2>3. ShimOK(f, u) /\ u.strict = FALSE
    <3>1. Front(m.open) \in Seq(Brackets)
      BY DEF Front, ShimOK
    <3> QED
      BY <3>1 DEF ShimOK
  <2>4. r = ShimValueDone(f, u)
    BY <2>1 DEF ShimClose
  <2> HIDE DEF u, r
  <2>5. r.strict = FALSE
    BY <2>3, <2>4, DoneAsStrict
  <2> QED
    BY <1>3, <2>2, <2>5 DEF UnpackPast, r
<1>4. CASE c # Closes(of) /\ (m.strict \/ c = "end")
  <2>1. r = ShimStop(m)
    BY <1>0, <1>4 DEF ShimUnpackItems
  <2> QED
    BY <1>4, <2>1, StopsThere
<1>5. CASE c # Closes(of) /\ ~(m.strict \/ c = "end") /\ c \in {"!", "*"}
  <2>1. r = [m EXCEPT !.strict = TRUE, !.scan = s]
    BY <1>0, <1>5 DEF ShimUnpackItems
  <2>2. s \in Scans
    BY <1>2 DEF Sane, Scans
  <2> HIDE DEF s, r, c
  <2>3. UnpackIs(f, r, NextPlace(f, tok), m.open, "items", m.list, TRUE)
    BY <1>2, <2>1, <2>2 DEF UnpackIs, ShimIs, ShimOK
  <2> QED
    BY <1>5, <2>3 DEF r, c
<1>6. CASE c # Closes(of) /\ ~(m.strict \/ c = "end") /\ c \notin {"!", "*"} /\ of = "["
  <2>1. r = [m EXCEPT !.at = "value"]
    BY <1>0, <1>6 DEF ShimUnpackItems
  <2>2. "value" \in Ats
    BY DEF Ats
  <2>3. UnpackIs(f, r, tok, m.open, "value", m.list, FALSE)
    BY <1>1, <1>6, <2>1, <2>2, TurnsTo DEF UnpackIs, ShimIs
  <2> QED
    BY <1>6, <2>3
<1>7. CASE c # Closes(of) /\ ~(m.strict \/ c = "end") /\ of # "[" /\ c = "s"
  <2> DEFINE t == IF CharOf(f, s.tok) = "?" THEN Advanced(f, s) ELSE s
  <2>1. r = [key EXCEPT !.at = "value", !.scan = t]
    BY <1>0, <1>7 DEF ShimUnpackItems
  <2>2. /\ ShimOK(f, key) /\ key.open = m.open /\ key.strict = m.strict /\ key.list = list
    <3>1. "KEY" \in Kinds /\ "s" \in Sources
      BY DEF Kinds, Sources
    <3> QED
      BY <3>1, Emits DEF Entry
  <2>3. Sane(f, Advanced(f, s)) /\ Advanced(f, s).tok = NextPlace(f, s.tok)
    BY <1>2, AdvancedIsSane
  <2> HIDE DEF s, key, list
  <2>4. Sane(f, t) /\ t.tok = NextPlace(f, KeyEnd(f, tok))
    BY <1>2, <2>3 DEF KeyEnd
  <2>5. t \in Scans /\ "value" \in Ats
    BY <2>4 DEF Sane, Scans, Ats
  <2> HIDE DEF t, r, c
  <2>6. UnpackIs(f, r, NextPlace(f, KeyEnd(f, tok)), m.open, "value", list, FALSE)
    BY <1>1, <1>7, <2>1, <2>2, <2>4, <2>5 DEF UnpackIs, ShimIs, ShimOK
  <2> QED
    BY <1>7, <2>6 DEF r, c, list
<1>8. CASE c # Closes(of) /\ ~(m.strict \/ c = "end") /\ c \notin {"!", "*"} /\ of # "[" /\ c # "s"
  <2>1. r = ShimStop(m)
    BY <1>0, <1>8 DEF ShimUnpackItems
  <2> QED
    BY <1>8, <2>1, StopsThere
<1> QED
  BY <1>3, <1>4, <1>5, <1>6, <1>7, <1>8

LEMMA UnpackShimRests ==
  ASSUME NEW v, NEW f, NEW m, m.at \in {"done", "stop"}
  PROVE  UnpackShimStep(v, f, m) = m
  BY DEF UnpackShimStep

LEMMA TargetListExtends ==
  ASSUME NEW v \in BOOLEAN, NEW f, NEW tok, CharOf(f, tok) \in Targets, NEW list \in Seq(Entries)
  PROVE  Extends(list, TargetList(v, f, tok, list))
<1> DEFINE c == CharOf(f, tok)
           e == Entry(TargetKind[c], c)
           target == Append(list, e)
           size == Entry("SIZE", "%")
<1>1. e \in Entries
  BY TargetsAre DEF Entry, Entries
<1>2. size \in Entries
  BY DEF Entry, Entries, Kinds, Sources
<1>3. \/ TargetList(v, f, tok, list) = list
      \/ TargetList(v, f, tok, list) = Append(target, size)
      \/ TargetList(v, f, tok, list) = target
  BY DEF TargetList
<1> HIDE DEF e, size
<1>4. target \in Seq(Entries) /\ Extends(list, target)
  BY <1>1, ListingExtends
<1>5. Extends(target, Append(target, size))
  BY <1>2, <1>4, ListingExtends
<1>6. Extends(list, list)
  BY DEF Extends
<1> QED
  BY <1>3, <1>4, <1>5, <1>6, ExtendsFurther

\* Behind a place that is in the format is another.
LEMMA EndsAreBehind ==
  ASSUME NEW v, NEW f \in Formats, NEW tok \in 0 .. Len(f)
  PROVE  /\ Len(f) \in Nat
         /\ NextPlace(f, tok) \in tok + 1 .. Len(f) + 1
         /\ TargetEnd(v, f, tok) \in tok .. Len(f)
         /\ KeyEnd(f, tok) \in tok .. Len(f)
         /\ \A p \in tok .. Len(f) : NextPlace(f, p) \in tok + 1 .. Len(f) + 1
<1>1. Len(f) \in Nat /\ DOMAIN f = 1 .. Len(f)
  BY DEF Formats
<1>2. ASSUME NEW p \in tok .. Len(f) PROVE NextPlace(f, p) \in tok + 1 .. Len(f) + 1
  <2>1. p \in 0 .. Len(f) + 1 /\ p <= Len(f)
    BY <1>1
  <2>2. NextPlace(f, p) \in 1 .. Len(f) + 1 /\ p < NextPlace(f, p)
    BY <2>1, NextPlaceIsBehind
  <2> QED
    BY <1>1, <2>1, <2>2
<1>3. NextPlace(f, tok) \in tok + 1 .. Len(f) + 1
  BY <1>1, <1>2
<1>4. Behind(f, tok) \in {"%", "?"} => NextPlace(f, tok) \in tok .. Len(f)
  <2>1. Behind(f, tok) \in {"%", "?"} => NextPlace(f, tok) \in DOMAIN f
    BY DEF Behind, CharOf
  <2> QED
    BY <1>1, <1>3, <2>1
<1>5. tok \in tok .. Len(f)
  BY <1>1
<1> QED
  BY <1>1, <1>2, <1>3, <1>4, <1>5 DEF TargetEnd, KeyEnd

\* The places of this shim.
UnpackShape(m) ==
  /\ m.at \in {"value", "items", "done", "stop"}
  /\ m.at = "items" => m.open # << >>

\* It has not taken more than two steps for a place.
Paced(n, m) ==
  /\ m.at = "value" => n <= 2 * m.scan.tok
  /\ m.at = "items" => n < 2 * m.scan.tok

\* What it leaves behind a value that ends at a place from tok on.
LEMMA PastIsPaced ==
  ASSUME NEW f \in Formats, NEW r, NEW tok \in 0 .. Len(f), NEW end \in tok .. Len(f), NEW open,
         NEW list, NEW more, NEW strict, NEW n \in Nat, n <= 2 * tok,
         Extends(list, more), UnpackPast(f, r, end, open, more, strict)
  PROVE  ShimOK(f, r) /\ UnpackShape(r) /\ Extends(list, r.list) /\ Paced(n + 1, r)
<1>1. Len(f) \in Nat /\ NextPlace(f, end) \in tok + 1 .. Len(f) + 1
  BY EndsAreBehind
<1>2. CASE open = << >>
  BY <1>2 DEF UnpackPast, ShimPast, UnpackShape, Paced
<1>3. CASE open # << >>
  <2>1. /\ ShimOK(f, r) /\ r.scan.tok = NextPlace(f, end) /\ r.open = open /\ r.at = "items"
        /\ r.list = more
    BY <1>3 DEF UnpackPast, ShimPast, ShimIs
  <2>2. n + 1 < 2 * NextPlace(f, end)
    BY <1>1
  <2> QED
    BY <1>3, <2>1, <2>2 DEF UnpackShape, Paced
<1> QED
  BY <1>2, <1>3

LEMMA IsPaced ==
  ASSUME NEW f \in Formats, NEW r, NEW tok \in 0 .. Len(f), NEW at \in {"value", "items"}, NEW open,
         open # << >>, NEW list, NEW more, NEW strict, NEW n \in Nat, n <= 2 * tok, NEW place \in Nat,
         place > tok \/ (place = tok /\ at = "value" /\ n < 2 * tok),
         Extends(list, more), UnpackIs(f, r, place, open, at, more, strict)
  PROVE  ShimOK(f, r) /\ UnpackShape(r) /\ Extends(list, r.list) /\ Paced(n + 1, r)
<1>1. /\ ShimOK(f, r) /\ r.scan.tok = place /\ r.open = open /\ r.at = at /\ r.list = more
  BY DEF UnpackIs, ShimIs
<1>2. CASE place > tok
  <2>1. n + 1 < 2 * place
    BY <1>2
  <2> QED
    BY <1>1, <2>1 DEF UnpackShape, Paced
<1>3. CASE place = tok /\ at = "value" /\ n < 2 * tok
  <2>1. n + 1 <= 2 * place
    BY <1>3
  <2> QED
    BY <1>1, <1>3, <2>1 DEF UnpackShape, Paced
<1> QED
  BY <1>2, <1>3

LEMMA StoppedIsPaced ==
  ASSUME NEW f, NEW r, NEW list \in Seq(Entries), NEW n, ShimStopped(f, r, list)
  PROVE  ShimOK(f, r) /\ UnpackShape(r) /\ Extends(list, r.list) /\ Paced(n, r)
  BY DEF ShimStopped, UnpackShape, Extends, Paced

\* A step of the shim, where there is a character: it keeps to its shape and its pace.
LEMMA UnpackShimGoes ==
  ASSUME NEW v \in BOOLEAN, NEW f \in Formats, NEW m, ShimOK(f, m), UnpackShape(m),
         NEW n \in Nat, Paced(n, m), m.at \in {"value", "items"} => m.scan.tok <= Len(f)
  PROVE  LET r == UnpackShimStep(v, f, m)
         IN ShimOK(f, r) /\ UnpackShape(r) /\ Extends(m.list, r.list) /\ Paced(n + 1, r)
<1> DEFINE r == UnpackShimStep(v, f, m)
           tok == m.scan.tok
           c == CharOf(f, tok)
           Goes == ShimOK(f, r) /\ UnpackShape(r) /\ Extends(m.list, r.list) /\ Paced(n + 1, r)
<1>1. m.list \in Seq(Entries) /\ m.open \in Seq(Brackets) /\ Extends(m.list, m.list) /\ tok \in Nat
  BY DEF ShimOK, Extends, Scans
<1>2. CASE m.at \in {"done", "stop"}
  <2>1. r = m
    BY <1>2, UnpackShimRests
  <2>2. Paced(n + 1, m)
    BY <1>2 DEF Paced
  <2> QED
    BY <1>1, <2>1, <2>2
<1>3. CASE m.at = "value"
  <2>1. tok \in 0 .. Len(f) /\ n <= 2 * tok
    BY <1>1, <1>3 DEF Paced
  <2>2. /\ NextPlace(f, tok) \in tok + 1 .. Len(f) + 1
        /\ TargetEnd(v, f, tok) \in tok .. Len(f) /\ tok \in tok .. Len(f)
        /\ NextPlace(f, tok) \in Nat /\ NextPlace(f, tok) > tok
    <3>1. /\ Len(f) \in Nat /\ NextPlace(f, tok) \in tok + 1 .. Len(f) + 1
          /\ TargetEnd(v, f, tok) \in tok .. Len(f)
      BY <2>1, EndsAreBehind
    <3> HIDE DEF tok
    <3> QED
      BY <2>1, <3>1
  <2> DEFINE list == TargetList(v, f, tok, m.list)
  <2>3. /\ c \in Brackets => UnpackIs(f, r, NextPlace(f, tok), Append(m.open, c), "items", m.list, m.strict)
        /\ c = "n" => UnpackPast(f, r, tok, m.open, m.list, m.strict)
        /\ c \in Targets => UnpackPast(f, r, TargetEnd(v, f, tok), m.open, list, m.strict)
        /\ c \notin Brackets \cup {"n"} \cup Targets => ShimStopped(f, r, m.list)
    BY <1>3, UnpackValueGoes
  <2>4. c \in Targets => Extends(m.list, list)
    BY <1>1, TargetListExtends
  <2>5. Append(m.open, c) # << >>
    BY <1>1
  <2> HIDE DEF r, list, tok, c
  <2>6. ASSUME c \in Brackets PROVE Goes
    BY <1>1, <2>1, <2>2, <2>3, <2>5, <2>6, IsPaced DEF tok
  <2>7. ASSUME c = "n" PROVE Goes
    BY <1>1, <2>1, <2>2, <2>3, <2>7, PastIsPaced DEF tok
  <2>8. ASSUME c \in Targets PROVE Goes
    BY <1>1, <2>1, <2>2, <2>3, <2>4, <2>8, PastIsPaced DEF tok
  <2>9. ASSUME c \notin Brackets \cup {"n"} \cup Targets PROVE Goes
    BY <1>1, <2>3, <2>9, StoppedIsPaced
  <2>10. Goes
    BY <2>6, <2>7, <2>8, <2>9
  <2> QED
    BY <2>10 DEF r
<1>4. CASE m.at = "items"
  <2>1. tok \in 0 .. Len(f) /\ n < 2 * tok /\ n <= 2 * tok /\ m.open # << >>
    BY <1>1, <1>4 DEF Paced, UnpackShape
  <2>2. /\ NextPlace(f, tok) \in Nat /\ NextPlace(f, tok) > tok /\ tok \in tok .. Len(f)
        /\ NextPlace(f, KeyEnd(f, tok)) \in Nat /\ NextPlace(f, KeyEnd(f, tok)) > tok
    <3>1. /\ Len(f) \in Nat /\ NextPlace(f, tok) \in tok + 1 .. Len(f) + 1
          /\ KeyEnd(f, tok) \in tok .. Len(f)
          /\ \A p \in tok .. Len(f) : NextPlace(f, p) \in tok + 1 .. Len(f) + 1
      BY <2>1, EndsAreBehind
    <3> HIDE DEF tok
    <3>2. NextPlace(f, KeyEnd(f, tok)) \in tok + 1 .. Len(f) + 1
      BY <3>1
    <3> QED
      BY <2>1, <3>1, <3>2
  <2> DEFINE list == Append(m.list, Entry("KEY", "s"))
  <2>3. \/ UnpackPast(f, r, tok, Front(m.open), m.list, FALSE)
        \/ ShimStopped(f, r, m.list)
        \/ UnpackIs(f, r, NextPlace(f, tok), m.open, "items", m.list, TRUE)
        \/ UnpackIs(f, r, tok, m.open, "value", m.list, FALSE)
        \/ UnpackIs(f, r, NextPlace(f, KeyEnd(f, tok)), m.open, "value", list, FALSE)
    BY <1>4, <2>1, UnpackItemsGo
  <2>4. Extends(m.list, list)
    <3>1. Entry("KEY", "s") \in Entries
      BY DEF Entry, Entries, Kinds, Sources
    <3> QED
      BY <1>1, <3>1, ListingExtends
  <2> HIDE DEF r, list, tok
  <2>6. ASSUME UnpackPast(f, r, tok, Front(m.open), m.list, FALSE) PROVE Goes
    BY <1>1, <2>1, <2>2, <2>6, PastIsPaced DEF tok
  <2>7. ASSUME UnpackIs(f, r, NextPlace(f, tok), m.open, "items", m.list, TRUE) PROVE Goes
    BY <1>1, <2>1, <2>2, <2>7, IsPaced DEF tok
  <2>8. ASSUME UnpackIs(f, r, tok, m.open, "value", m.list, FALSE) PROVE Goes
    BY <1>1, <2>1, <2>2, <2>8, IsPaced DEF tok
  <2>9. ASSUME UnpackIs(f, r, NextPlace(f, KeyEnd(f, tok)), m.open, "value", list, FALSE) PROVE Goes
    BY <1>1, <2>1, <2>2, <2>4, <2>9, IsPaced DEF tok
  <2>10. ASSUME ShimStopped(f, r, m.list) PROVE Goes
    BY <1>1, <2>10, StoppedIsPaced
  <2>11. Goes
    BY <2>3, <2>6, <2>7, <2>8, <2>9, <2>10
  <2> QED
    BY <2>11 DEF r
<1> QED
  BY <1>2, <1>3, <1>4 DEF UnpackShape

\* Behind the last character there is nothing but the end of the walk.
LEMMA UnpackShimKeeps ==
  ASSUME NEW v \in BOOLEAN, NEW f \in Formats, NEW m, ShimOK(f, m), UnpackShape(m),
         NEW n \in Nat, Paced(n, m)
  PROVE  LET r == UnpackShimStep(v, f, m)
         IN ShimOK(f, r) /\ UnpackShape(r) /\ Extends(m.list, r.list) /\ Paced(n + 1, r)
<1> DEFINE r == UnpackShimStep(v, f, m)
           tok == m.scan.tok
<1>1. CASE m.at \in {"value", "items"} => tok <= Len(f)
  BY <1>1, UnpackShimGoes
<1>2. CASE ~(m.at \in {"value", "items"} => tok <= Len(f))
  <2>1. CharOf(f, tok) = "end"
    <3>1. tok \notin DOMAIN f
      BY <1>2 DEF Formats, ShimOK, Scans
    <3> QED
      BY <3>1 DEF CharOf
  <2>2. m.list \in Seq(Entries)
    BY DEF ShimOK
  <2>3. ShimStopped(f, r, m.list)
    <3>1. CASE m.at = "value"
      <4>1. "end" \notin Brackets \cup {"n"} \cup Targets
        BY DEF Brackets, Targets
      <4> QED
        BY <2>1, <3>1, <4>1, UnpackValueGoes
    <3>2. CASE m.at = "items"
      <4>1. m.open # << >> /\ \A of : Closes(of) # "end"
        BY <3>2 DEF UnpackShape, Closes
      <4> QED
        BY <2>1, <3>2, <4>1, UnpackItemsGo
    <3> QED
      BY <1>2, <3>1, <3>2
  <2> HIDE DEF r
  <2>4. ShimOK(f, r) /\ UnpackShape(r) /\ Extends(m.list, r.list) /\ Paced(n + 1, r)
    BY <2>2, <2>3, StoppedIsPaced
  <2> QED
    BY <2>4 DEF r
<1> QED
  BY <1>1, <1>2

\* The two ways of the walk of json_unpack.
UnpackCallOf(v) == IF v THEN "validate" ELSE "unpack"

LEMMA UnpackKindsAreListed ==
  ASSUME NEW f \in Formats, NEW v \in BOOLEAN
  PROVE  \E run : IsRun(UnpackCallOf(v), f, run) /\ UnpackKinds(f, v) = run[Steps(f)].list
<1> DEFINE n == Steps(f)
           call == UnpackCallOf(v)
           src == [i \in 1 .. n |-> i]
           goes(h) == h = [s \in SUBSET (1 .. n) |->
                             IF s = {} THEN ShimStart(f) ELSE UnpackShimStep(v, f, h[s \ {Max(s)}])]
           g == CHOOSE h : goes(h)
           run == [j \in 0 .. n |-> g[1 .. j]]
<1>1. n \in Nat
  BY DEF Steps, Formats
<1>0. \A m : Turn(call, f, m) = UnpackShimStep(v, f, m)
  <2>1. CASE v = TRUE
    BY <2>1 DEF Turn, UnpackCallOf
  <2>2. CASE v = FALSE
    BY <2>2 DEF Turn, UnpackCallOf
  <2> QED
    BY <2>1, <2>2
<1> HIDE DEF call
<1>2. goes(g)
  <2>1. PICK h : Walks(call, f, n, h)
    BY <1>1, WalksExist, Zenon
  <2>2. goes(h)
    BY <1>0, <2>1 DEF Walks
  <2> QED
    BY <2>2, Zenon
<1>3. UnpackKinds(f, v) = g[DOMAIN src].list
  <2>1. f # << >>
    BY DEF Formats
  <2> QED
    BY <2>1 DEF UnpackKinds, Listed, FoldLeft, MapThenFoldSet, Steps
<1>4. DOMAIN src = 1 .. n
  OBVIOUS
<1> HIDE DEF g
<1>5. Walks(call, f, n, g)
  BY <1>0, <1>2 DEF Walks
<1> HIDE DEF goes
<1>6. IsRun(call, f, run)
  BY <1>5, WalkIsRun
<1>7. run[n] = g[1 .. n]
  BY <1>1
<1> HIDE DEF run
<1> QED
  BY <1>3, <1>4, <1>6, <1>7 DEF call

\* The walk of the shim of json_unpack through a format, and what it lists in the end.
UnpackRun(f, v) ==
  CHOOSE run : IsRun(UnpackCallOf(v), f, run) /\ UnpackKinds(f, v) = run[Steps(f)].list

LEMMA UnpackRunIsRun ==
  ASSUME NEW f \in Formats, NEW v \in BOOLEAN
  PROVE  /\ Steps(f) \in Nat
         /\ UnpackRun(f, v)[0] = ShimStart(f)
         /\ \A j \in 0 .. Steps(f) :
              j < Steps(f) => UnpackRun(f, v)[j + 1] = UnpackShimStep(v, f, UnpackRun(f, v)[j])
         /\ UnpackKinds(f, v) = UnpackRun(f, v)[Steps(f)].list
<1> DEFINE run == UnpackRun(f, v)
           n == Steps(f)
           call == UnpackCallOf(v)
<1>1. IsRun(call, f, run) /\ UnpackKinds(f, v) = run[Steps(f)].list
  BY UnpackKindsAreListed, Zenon DEF UnpackRun
<1>2. n \in Nat
  BY DEF Steps, Formats
<1>0. \A m : Turn(call, f, m) = UnpackShimStep(v, f, m)
  <2>1. CASE v = TRUE
    BY <2>1 DEF Turn, UnpackCallOf
  <2>2. CASE v = FALSE
    BY <2>2 DEF Turn, UnpackCallOf
  <2> QED
    BY <2>1, <2>2
<1> HIDE DEF run, call
<1>3. ASSUME NEW j \in 0 .. n, j < n PROVE run[j + 1] = UnpackShimStep(v, f, run[j])
  <2> DEFINE i == j + 1
  <2>1. i \in 1 .. n /\ i - 1 = j
    BY <1>2, <1>3
  <2> HIDE DEF i, n
  <2>2. run[i] = Turn(call, f, run[i - 1])
    BY <1>1, <2>1 DEF IsRun, n
  <2>3. run[i] = UnpackShimStep(v, f, run[j])
    BY <1>0, <2>1, <2>2
  <2> QED
    BY <2>3 DEF i
<1> QED
  BY <1>1, <1>2, <1>3 DEF IsRun, run

LEMMA UnpackRunIsOK ==
  ASSUME NEW f \in Formats, NEW v \in BOOLEAN, NEW j \in 0 .. Steps(f)
  PROVE  LET m == UnpackRun(f, v)[j] IN ShimOK(f, m) /\ UnpackShape(m) /\ Paced(j, m)
<1> DEFINE run == UnpackRun(f, v)
           n == Steps(f)
           S == {i \in Nat : i <= n => ShimOK(f, run[i]) /\ UnpackShape(run[i]) /\ Paced(i, run[i])}
<1>1. /\ n \in Nat /\ run[0] = ShimStart(f)
      /\ \A i \in 0 .. n : i < n => run[i + 1] = UnpackShimStep(v, f, run[i])
  BY UnpackRunIsRun
<1> HIDE DEF run, n
<1>2. 0 \in S
  <2>1. /\ ShimOK(f, ShimStart(f))
        /\ ShimIs(f, ShimStart(f), Advanced(f, ScanStart).tok, << >>, "value", << >>)
    BY StartIsThere
  <2>2. ShimStart(f).at = "value" /\ ShimStart(f).scan.tok \in Nat
    BY <2>1 DEF ShimIs, ShimOK, Scans
  <2>3. UnpackShape(ShimStart(f)) /\ Paced(0, ShimStart(f))
    BY <2>2 DEF UnpackShape, Paced
  <2> QED
    BY <1>1, <2>1, <2>3
<1>3. ASSUME NEW i \in S PROVE i + 1 \in S
  <2> SUFFICES ASSUME i + 1 <= n
      PROVE ShimOK(f, run[i + 1]) /\ UnpackShape(run[i + 1]) /\ Paced(i + 1, run[i + 1])
    OBVIOUS
  <2>1. i \in 0 .. n /\ i < n /\ ShimOK(f, run[i]) /\ UnpackShape(run[i]) /\ Paced(i, run[i])
    BY <1>1
  <2>2. run[i + 1] = UnpackShimStep(v, f, run[i])
    BY <1>1, <2>1
  <2>3. i \in Nat
    OBVIOUS
  <2> QED
    BY <2>1, <2>2, <2>3, UnpackShimKeeps
<1>4. S \in SUBSET Nat
  OBVIOUS
<1> HIDE DEF S
<1>5. S = Nat
  BY <1>2, <1>3, <1>4, InductionOverSet
<1> QED
  BY <1>1, <1>5 DEF S, run, n

LEMMA UnpackRunExtends ==
  ASSUME NEW f \in Formats, NEW v \in BOOLEAN, NEW j \in 0 .. Steps(f)
  PROVE  Extends(UnpackRun(f, v)[j].list, UnpackKinds(f, v))
<1> DEFINE run == UnpackRun(f, v)
           n == Steps(f)
           S == {k \in Nat : j + k <= n => Extends(run[j].list, run[j + k].list)}
<1>1. /\ n \in Nat /\ j \in 0 .. n
      /\ \A i \in 0 .. n : i < n => run[i + 1] = UnpackShimStep(v, f, run[i])
      /\ UnpackKinds(f, v) = run[n].list
  BY UnpackRunIsRun
<1>2. \A i \in 0 .. n : ShimOK(f, run[i]) /\ UnpackShape(run[i]) /\ Paced(i, run[i])
  BY UnpackRunIsOK
<1> HIDE DEF run, n
<1>3. 0 \in S
  <2>1. run[j].list \in Seq(Entries) /\ j + 0 = j
    BY <1>1, <1>2 DEF ShimOK
  <2> QED
    BY <2>1 DEF Extends
<1>4. ASSUME NEW k \in S PROVE k + 1 \in S
  <2> DEFINE i == j + k
  <2> SUFFICES ASSUME j + (k + 1) <= n PROVE Extends(run[j].list, run[j + (k + 1)].list)
    OBVIOUS
  <2>1. /\ i \in 0 .. n /\ i \in Nat /\ i < n /\ Extends(run[j].list, run[i].list)
        /\ j + (k + 1) = i + 1
    BY <1>1
  <2> HIDE DEF i
  <2>2. run[i + 1] = UnpackShimStep(v, f, run[i])
    BY <1>1, <2>1
  <2>3. Extends(run[i].list, run[i + 1].list)
    BY <1>2, <2>1, <2>2, UnpackShimKeeps
  <2> QED
    BY <2>1, <2>3, ExtendsFurther
<1>5. S \in SUBSET Nat
  OBVIOUS
<1> HIDE DEF S
<1>6. S = Nat
  BY <1>3, <1>4, <1>5, InductionOverSet
<1>7. n - j \in Nat /\ j + (n - j) = n /\ n <= n
  BY <1>1
<1>8. n - j \in S
  BY <1>6, <1>7
<1> QED
  BY <1>1, <1>7, <1>8 DEF S, run

LEMMA UnpackRunRests ==
  ASSUME NEW f \in Formats, NEW v \in BOOLEAN, NEW j \in 0 .. Steps(f),
         UnpackRun(f, v)[j].at \in {"done", "stop"}
  PROVE  UnpackKinds(f, v) = UnpackRun(f, v)[j].list
<1> DEFINE run == UnpackRun(f, v)
           n == Steps(f)
           S == {k \in Nat : j + k <= n => run[j + k] = run[j]}
<1>1. /\ n \in Nat /\ j \in 0 .. n
      /\ \A i \in 0 .. n : i < n => run[i + 1] = UnpackShimStep(v, f, run[i])
      /\ UnpackKinds(f, v) = run[n].list
      /\ run[j].at \in {"done", "stop"}
  BY UnpackRunIsRun
<1> HIDE DEF run, n
<1>3. 0 \in S
  BY <1>1
<1>4. ASSUME NEW k \in S PROVE k + 1 \in S
  <2> DEFINE i == j + k
  <2> SUFFICES ASSUME j + (k + 1) <= n PROVE run[j + (k + 1)] = run[j]
    OBVIOUS
  <2>1. i \in 0 .. n /\ i < n /\ run[i] = run[j] /\ j + (k + 1) = i + 1
    BY <1>1
  <2> HIDE DEF i
  <2>2. run[i + 1] = UnpackShimStep(v, f, run[i])
    BY <1>1, <2>1
  <2> QED
    BY <1>1, <2>1, <2>2, UnpackShimRests
<1>5. S \in SUBSET Nat
  OBVIOUS
<1> HIDE DEF S
<1>6. S = Nat
  BY <1>3, <1>4, <1>5, InductionOverSet
<1>7. n - j \in Nat /\ j + (n - j) = n /\ n <= n
  BY <1>1
<1>8. n - j \in S
  BY <1>6, <1>7
<1> QED
  BY <1>1, <1>7, <1>8 DEF S, run

OnUnpackRun(f, v, m) == \E n \in 0 .. Steps(f) : m = UnpackRun(f, v)[n]

\* At a character the walk goes on: it has taken two steps at most for each before it.
LEMMA UnpackRunIsListed ==
  ASSUME NEW f \in Formats, NEW v \in BOOLEAN, NEW m, OnUnpackRun(f, v, m)
  PROVE  /\ ShimOK(f, m) /\ UnpackShape(m) /\ Extends(m.list, UnpackKinds(f, v))
         /\ m.at \in {"done", "stop"} => m.list = UnpackKinds(f, v)
         /\ m.at \in {"value", "items"} /\ CharOf(f, m.scan.tok) # "end" =>
              OnUnpackRun(f, v, UnpackShimStep(v, f, m))
<1>1. PICK n \in 0 .. Steps(f) : m = UnpackRun(f, v)[n]
  BY DEF OnUnpackRun
<1>2. ShimOK(f, m) /\ UnpackShape(m) /\ Paced(n, m) /\ Extends(m.list, UnpackKinds(f, v))
  BY <1>1, UnpackRunIsOK, UnpackRunExtends
<1>3. m.at \in {"done", "stop"} => m.list = UnpackKinds(f, v)
  BY <1>1, UnpackRunRests
<1>4. ASSUME m.at \in {"value", "items"}, CharOf(f, m.scan.tok) # "end"
      PROVE  OnUnpackRun(f, v, UnpackShimStep(v, f, m))
  <2>1. m.scan.tok \in 1 .. Len(f) /\ Len(f) \in Nat
    BY <1>4 DEF CharOf, Formats
  <2>2. n <= 2 * m.scan.tok
    <3>1. m.at = "value" \/ m.at = "items"
      BY <1>4
    <3> QED
      BY <1>2, <2>1, <3>1 DEF Paced
  <2>3. Steps(f) \in Nat /\ n < Steps(f) /\ n + 1 \in 0 .. Steps(f)
    BY <2>1, <2>2 DEF Steps
  <2>4. UnpackRun(f, v)[n + 1] = UnpackShimStep(v, f, UnpackRun(f, v)[n])
    BY <2>3, UnpackRunIsRun
  <2> QED
    BY <1>1, <2>3, <2>4 DEF OnUnpackRun
<1> QED
  BY <1>2, <1>3, <1>4

-----------------------------------------------------------------------------
(* The levels of json_unpack, the sets of keys and what is written         *)

\* Of what the levels hold, only the bracket and the mark count here.
LevelsOf(V) ==
  [of : Brackets, value : V, strict : {"no", "!", "*"}, index : V, key : V, seen : V]
Sets(s) == {i \in DOMAIN s : s[i].of = "{"}

LEMMA SeqsGrow ==
  ASSUME NEW S, NEW T, S \subseteq T
  PROVE  Seq(S) \subseteq Seq(T)
  OBVIOUS

LEMMA LevelsGrow ==
  ASSUME NEW V, NEW W, V \subseteq W
  PROVE  LevelsOf(V) \subseteq LevelsOf(W) /\ Seq(LevelsOf(V)) \subseteq Seq(LevelsOf(W))
<1>1. LevelsOf(V) \subseteq LevelsOf(W)
  BY DEF LevelsOf
<1> QED
  BY <1>1, SeqsGrow

LEMMA OpensOfLevels ==
  ASSUME NEW V, NEW s \in Seq(LevelsOf(V))
  PROVE  /\ OpensOf(s) \in Seq(Brackets) /\ Len(OpensOf(s)) = Len(s)
         /\ \A i \in 1 .. Len(s) : OpensOf(s)[i] = s[i].of
<1>1. ASSUME NEW i \in 1 .. Len(s) PROVE s[i].of \in Brackets
  <2>1. s[i] \in LevelsOf(V)
    OBVIOUS
  <2> QED
    BY <2>1 DEF LevelsOf
<1> QED
  BY <1>1 DEF OpensOf

LEMMA SetsAre ==
  ASSUME NEW V, NEW s \in Seq(LevelsOf(V))
  PROVE  /\ Sets(s) = {i \in 1 .. Len(s) : s[i].of = "{"}
         /\ IsFiniteSet(Sets(s)) /\ Cardinality(Sets(s)) \in Nat
<1>1. Len(s) \in Nat /\ DOMAIN s = 1 .. Len(s)
  OBVIOUS
<1>2. IsFiniteSet(1 .. Len(s)) /\ Sets(s) \subseteq 1 .. Len(s)
  <2>1. IsFiniteSet(1 .. Len(s))
    BY <1>1, FS_Interval
  <2>2. Sets(s) \subseteq 1 .. Len(s)
    BY <1>1 DEF Sets
  <2> QED
    BY <2>1, <2>2
<1>3. IsFiniteSet(Sets(s)) /\ Cardinality(Sets(s)) \in Nat
  BY <1>2, FS_Subset, FS_CardinalityType
<1> QED
  BY <1>1, <1>3 DEF Sets

\* One more, or one less: a set of keys with each object.
LEMMA LevelMore ==
  ASSUME NEW V, NEW s \in Seq(LevelsOf(V)), NEW x \in LevelsOf(V)
  PROVE  LET t == Append(s, x)
         IN /\ t \in Seq(LevelsOf(V)) /\ t # << >> /\ Last(t) = x
            /\ OpensOf(t) = Append(OpensOf(s), x.of)
            /\ Cardinality(Sets(t)) = Cardinality(Sets(s)) + (IF x.of = "{" THEN 1 ELSE 0)
<1> DEFINE n == Len(s)
           t == Append(s, x)
           a == OpensOf(t)
           b == Append(OpensOf(s), x.of)
<1>1. /\ n \in Nat /\ t \in Seq(LevelsOf(V)) /\ Len(t) = n + 1 /\ t[n + 1] = x
      /\ \A i \in 1 .. n : t[i] = s[i]
  OBVIOUS
<1>2. t # << >> /\ Last(t) = x
  BY <1>1 DEF Last
<1> HIDE DEF t
<1>3. a \in Seq(Brackets) /\ Len(a) = Len(t) /\ \A i \in 1 .. Len(t) : a[i] = t[i].of
  BY <1>1, OpensOfLevels
<1>4. /\ OpensOf(s) \in Seq(Brackets) /\ Len(OpensOf(s)) = Len(s)
      /\ \A i \in 1 .. Len(s) : OpensOf(s)[i] = s[i].of
  BY OpensOfLevels
<1>5. x.of \in Brackets
  BY DEF LevelsOf
<1>6. /\ b \in Seq(Brackets) /\ Len(b) = n + 1 /\ b[n + 1] = x.of
      /\ \A i \in 1 .. n : b[i] = s[i].of
  BY <1>4, <1>5
<1> HIDE DEF a, b
<1>7. \A i \in 1 .. n + 1 : i \in 1 .. n \/ i = n + 1
  BY <1>1
<1>8. a = b
  <2>1. \A i \in 1 .. Len(a) : a[i] = b[i]
    BY <1>1, <1>3, <1>6, <1>7
  <2> QED
    BY <1>1, <1>3, <1>6, <2>1
<1>9. /\ Sets(s) = {i \in 1 .. n : s[i].of = "{"} /\ Sets(t) = {i \in 1 .. n + 1 : t[i].of = "{"}
      /\ IsFiniteSet(Sets(s)) /\ Cardinality(Sets(s)) \in Nat
  BY <1>1, SetsAre
<1> HIDE DEF n
<1>10. \A i \in 1 .. n : i \in 1 .. n + 1
  BY <1>1
<1>11. n + 1 \notin Sets(s) /\ n + 1 \in 1 .. n + 1
  <2>1. n + 1 \in 1 .. n + 1 /\ n + 1 \notin 1 .. n
    BY <1>1
  <2> QED
    BY <1>9, <2>1
<1>12. Sets(t) = IF x.of = "{" THEN Sets(s) \cup {n + 1} ELSE Sets(s)
  BY <1>1, <1>7, <1>9, <1>10, <1>11
<1>13. Cardinality(Sets(s) \cup {n + 1}) = Cardinality(Sets(s)) + 1
  BY <1>9, <1>11, FS_AddElement
<1>14. Cardinality(Sets(t)) = Cardinality(Sets(s)) + (IF x.of = "{" THEN 1 ELSE 0)
  <2> DEFINE c == Cardinality(Sets(s))
             d == Cardinality(Sets(t))
  <2>0. c \in Nat
    BY <1>9
  <2>1. CASE x.of = "{"
    BY <1>12, <1>13, <2>1
  <2>2. CASE x.of # "{"
    <3>1. Sets(t) = Sets(s)
      BY <1>12, <2>2
    <3>2. d = c
      BY <3>1
    <3> HIDE DEF c, d
    <3> DEFINE a0 == IF x.of = "{" THEN 1 ELSE 0
    <3>3. a0 = 0
      BY <2>2
    <3> HIDE DEF a0
    <3>4. d = c + a0
      BY <2>0, <3>2, <3>3
    <3> QED
      BY <3>4 DEF c, d, a0
  <2> QED
    BY <2>1, <2>2
<1> QED
  BY <1>1, <1>2, <1>8, <1>14 DEF t, a, b

LEMMA LevelLess ==
  ASSUME NEW V, NEW s \in Seq(LevelsOf(V)), s # << >>
  PROVE  /\ Front(s) \in Seq(LevelsOf(V)) /\ Last(s) \in LevelsOf(V)
         /\ OpensOf(Front(s)) = Front(OpensOf(s))
         /\ OpensOf(s) # << >> /\ Last(OpensOf(s)) = Last(s).of
         /\ Cardinality(Sets(Front(s))) = Cardinality(Sets(s)) - (IF Last(s).of = "{" THEN 1 ELSE 0)
<1> DEFINE n == Len(s)
<1>1. /\ n \in Nat \ {0} /\ Front(s) \in Seq(LevelsOf(V)) /\ Len(Front(s)) = n - 1
      /\ \A i \in 1 .. n - 1 : Front(s)[i] = s[i]
      /\ Last(s) = s[n] /\ Last(s) \in LevelsOf(V)
  BY FrontAndLast
<1>2. /\ OpensOf(s) \in Seq(Brackets) /\ Len(OpensOf(s)) = n
      /\ \A i \in 1 .. n : OpensOf(s)[i] = s[i].of
  BY OpensOfLevels
<1>3. OpensOf(s) # << >>
  BY <1>1, <1>2
<1>4. /\ Front(OpensOf(s)) \in Seq(Brackets) /\ Len(Front(OpensOf(s))) = n - 1
      /\ \A i \in 1 .. n - 1 : Front(OpensOf(s))[i] = OpensOf(s)[i]
      /\ Last(OpensOf(s)) = OpensOf(s)[n]
  BY <1>2, <1>3, FrontAndLast
<1>5. /\ OpensOf(Front(s)) \in Seq(Brackets) /\ Len(OpensOf(Front(s))) = n - 1
      /\ \A i \in 1 .. n - 1 : OpensOf(Front(s))[i] = Front(s)[i].of
  BY <1>1, OpensOfLevels
<1>6. /\ Sets(s) = {i \in 1 .. n : s[i].of = "{"}
      /\ Sets(Front(s)) = {i \in 1 .. n - 1 : Front(s)[i].of = "{"}
      /\ IsFiniteSet(Sets(Front(s))) /\ Cardinality(Sets(Front(s))) \in Nat
  BY <1>1, SetsAre
<1> HIDE DEF n
<1>7. /\ \A i \in 1 .. n - 1 : i \in 1 .. n /\ i # n
      /\ \A i \in 1 .. n : i \in 1 .. n - 1 \/ i = n
      /\ n \in 1 .. n
  BY <1>1
<1>8. OpensOf(Front(s)) = Front(OpensOf(s))
  <2>1. \A i \in 1 .. n - 1 : OpensOf(Front(s))[i] = Front(OpensOf(s))[i]
    BY <1>1, <1>2, <1>4, <1>5, <1>7
  <2> QED
    BY <1>4, <1>5, <2>1
<1>9. Last(OpensOf(s)) = Last(s).of
  BY <1>1, <1>2, <1>4, <1>7
<1>10. n \notin Sets(Front(s))
  BY <1>6, <1>7
<1>11. Sets(s) = IF Last(s).of = "{" THEN Sets(Front(s)) \cup {n} ELSE Sets(Front(s))
  BY <1>1, <1>6, <1>7
<1>12. Cardinality(Sets(Front(s)) \cup {n}) = Cardinality(Sets(Front(s))) + 1
  BY <1>6, <1>10, FS_AddElement
<1>13. Cardinality(Sets(Front(s))) = Cardinality(Sets(s)) - (IF Last(s).of = "{" THEN 1 ELSE 0)
  <2> DEFINE c == Cardinality(Sets(s))
             d == Cardinality(Sets(Front(s)))
  <2>0. d \in Nat
    BY <1>6
  <2>1. Last(s).of = "{" => Sets(s) = Sets(Front(s)) \cup {n}
    BY <1>11
  <2>2. Last(s).of # "{" => Sets(s) = Sets(Front(s))
    BY <1>11
  <2> DEFINE less == IF Last(s).of = "{" THEN 1 ELSE 0
  <2>3. \/ c = d + 1 /\ less = 1
        \/ c = d /\ less = 0
    <3>1. CASE Last(s).of = "{"
      BY <1>12, <2>1, <3>1
    <3>2. CASE Last(s).of # "{"
      BY <2>2, <3>2
    <3> QED
      BY <3>1, <3>2
  <2> HIDE DEF c, d, less
  <2>4. d = c - less
    BY <2>0, <2>3
  <2> QED
    BY <2>4 DEF c, d, less
<1> QED
  BY <1>1, <1>3, <1>8, <1>9, <1>13

LEMMA TopChanges ==
  ASSUME NEW V, NEW s \in Seq(LevelsOf(V)), s # << >>, NEW W, V \subseteq W,
         NEW x \in LevelsOf(W), x.of = Last(s).of
  PROVE  LET t == [s EXCEPT ![Len(s)] = x]
         IN /\ t \in Seq(LevelsOf(W)) /\ t # << >> /\ Last(t) = x
            /\ OpensOf(t) = OpensOf(s) /\ Sets(t) = Sets(s)
<1> DEFINE n == Len(s)
           t == [s EXCEPT ![n] = x]
<1>1. n \in Nat \ {0} /\ n \in 1 .. n /\ Last(s) = s[n]
  BY DEF Last
<1>2. s \in Seq(LevelsOf(W))
  BY LevelsGrow
<1>3. /\ t \in Seq(LevelsOf(W)) /\ Len(t) = n /\ t[n] = x
      /\ \A i \in 1 .. n : i # n => t[i] = s[i]
  BY <1>1, <1>2, PutAt
<1> HIDE DEF t
<1>4. t # << >> /\ Last(t) = x
  BY <1>1, <1>3 DEF Last
<1>5. \A i \in 1 .. n : t[i].of = s[i].of
  BY <1>1, <1>3
<1>6. OpensOf(t) = OpensOf(s)
  BY <1>3, <1>5 DEF OpensOf
<1>7. Sets(t) = {i \in 1 .. n : t[i].of = "{"} /\ Sets(s) = {i \in 1 .. n : s[i].of = "{"}
  BY <1>2, <1>3, SetsAre
<1>8. Sets(t) = Sets(s)
  BY <1>5, <1>7
<1> QED
  BY <1>3, <1>4, <1>6, <1>8 DEF t

\* What is written, and which of it is kept.
Writes(V) == Seq([arg : Nat, value : V])
KeptOf(o, a) == {k \in DOMAIN o : o[k].arg # 0 /\ a[o[k].arg].from = "O"}
Lent(o, l, a) ==
  /\ Len(l) = Cardinality(KeptOf(o, a))
  /\ \A k \in KeptOf(o, a) : l[Cardinality({j \in KeptOf(o, a) : j <= k})] = o[k].value

LEMMA KeptAre ==
  ASSUME NEW V, NEW o \in Writes(V), NEW a
  PROVE  /\ IsFiniteSet(KeptOf(o, a)) /\ Cardinality(KeptOf(o, a)) \in Nat
         /\ KeptOf(o, a) \in SUBSET (1 .. Len(o)) /\ Len(o) \in Nat
         /\ \A k \in KeptOf(o, a) :
              Cardinality({j \in KeptOf(o, a) : j <= k}) \in 1 .. Cardinality(KeptOf(o, a))
<1> DEFINE K == KeptOf(o, a)
<1>1. Len(o) \in Nat /\ DOMAIN o = 1 .. Len(o)
  BY DEF Writes
<1>2. K \subseteq 1 .. Len(o) /\ IsFiniteSet(1 .. Len(o))
  BY <1>1, FS_Interval DEF KeptOf
<1>3. IsFiniteSet(K) /\ Cardinality(K) \in Nat
  BY <1>2, FS_Subset, FS_CardinalityType
<1> HIDE DEF K
<1>4. ASSUME NEW k \in K PROVE Cardinality({j \in K : j <= k}) \in 1 .. Cardinality(K)
  <2> DEFINE S == {j \in K : j <= k}
  <2>1. S \subseteq K /\ k \in S
    BY <1>1, <1>2
  <2> HIDE DEF S
  <2>2. IsFiniteSet(S) /\ Cardinality(S) \in Nat /\ Cardinality(S) <= Cardinality(K)
    BY <1>3, <2>1, FS_Subset, FS_CardinalityType
  <2>3. Cardinality(S) # 0
    BY <2>1, <2>2, FS_EmptySet
  <2> QED
    BY <1>3, <2>2, <2>3 DEF S
<1> QED
  BY <1>1, <1>2, <1>3, <1>4 DEF K

\* Something is written to the target of another character.
LEMMA OtherWritten ==
  ASSUME NEW V, NEW o \in Writes(V), NEW a, NEW l, Lent(o, l, a),
         NEW n \in Nat, NEW v \in V, n = 0 \/ a[n].from # "O"
  PROVE  Lent(Append(o, [arg |-> n, value |-> v]), l, a)
<1> DEFINE x == [arg |-> n, value |-> v]
           p == Append(o, x)
           K == KeptOf(o, a)
<1>1. /\ Len(o) \in Nat /\ DOMAIN o = 1 .. Len(o) /\ DOMAIN p = 1 .. Len(o) + 1
      /\ p[Len(o) + 1] = x /\ \A i \in 1 .. Len(o) : p[i] = o[i]
  BY DEF Writes
<1>2. x.arg = n
  OBVIOUS
<1> HIDE DEF p, x
<1>3. /\ \A i \in 1 .. Len(o) + 1 : i \in 1 .. Len(o) \/ i = Len(o) + 1
      /\ \A i \in 1 .. Len(o) : i \in 1 .. Len(o) + 1
  BY <1>1
<1>4. KeptOf(p, a) = K
  BY <1>1, <1>2, <1>3 DEF KeptOf
<1>5. \A k \in K : p[k] = o[k]
  BY <1>1 DEF KeptOf
<1> HIDE DEF K
<1>6. Lent(p, l, a)
  BY <1>4, <1>5 DEF Lent, K
<1> QED
  BY <1>6 DEF p, x

\* A reference is taken, and written to the target of its 'O'.
LEMMA LentWritten ==
  ASSUME NEW V, NEW o \in Writes(V), NEW a, NEW l \in Seq(V), Lent(o, l, a),
         NEW n \in Nat, NEW v \in V, n # 0, a[n].from = "O"
  PROVE  Lent(Append(o, [arg |-> n, value |-> v]), Append(l, v), a)
<1> DEFINE x == [arg |-> n, value |-> v]
           p == Append(o, x)
           m == Append(l, v)
           K == KeptOf(o, a)
           L == KeptOf(p, a)
           new == Len(o) + 1
<1>1. /\ Len(o) \in Nat /\ DOMAIN o = 1 .. Len(o) /\ DOMAIN p = 1 .. Len(o) + 1
      /\ p[Len(o) + 1] = x /\ \A i \in 1 .. Len(o) : p[i] = o[i]
  BY DEF Writes
<1>2. x.arg = n /\ x.value = v
  OBVIOUS
<1>3. /\ IsFiniteSet(K) /\ Cardinality(K) \in Nat /\ K \in SUBSET (1 .. Len(o))
      /\ \A k \in K : Cardinality({j \in K : j <= k}) \in 1 .. Cardinality(K)
  BY KeptAre
<1>4. Len(l) = Cardinality(K) /\ \A k \in K : l[Cardinality({j \in K : j <= k})] = o[k].value
  BY DEF Lent
<1>5. Len(m) = Len(l) + 1 /\ m[Len(l) + 1] = v /\ \A i \in 1 .. Len(l) : m[i] = l[i]
  OBVIOUS
<1> HIDE DEF p, x, m
<1>6. /\ \A i \in 1 .. Len(o) + 1 : i \in 1 .. Len(o) \/ i = Len(o) + 1
      /\ \A i \in 1 .. Len(o) : i \in 1 .. Len(o) + 1
      /\ new \in 1 .. Len(o) + 1
  BY <1>1
<1>7. L = K \cup {new}
  BY <1>1, <1>2, <1>6 DEF KeptOf
<1>8. new \notin K /\ \A k \in K : k <= new /\ ~(new <= k) /\ p[k] = o[k] /\ new \in Nat
  BY <1>1, <1>3
<1>9. p[new] = x /\ new <= new
  BY <1>1
<1> HIDE DEF K, L, new
<1>10. Cardinality(L) = Cardinality(K) + 1
  BY <1>3, <1>7, <1>8, FS_AddElement
<1>11. ASSUME NEW k \in K PROVE m[Cardinality({j \in L : j <= k})] = p[k].value
  <2>1. {j \in L : j <= k} = {j \in K : j <= k}
    BY <1>7, <1>8
  <2> QED
    BY <1>3, <1>4, <1>5, <1>8, <2>1
<1>12. m[Cardinality({j \in L : j <= new})] = p[new].value
  <2>1. {j \in L : j <= new} = L
    BY <1>7, <1>8, <1>9
  <2> QED
    BY <1>2, <1>4, <1>5, <1>9, <1>10, <2>1
<1>13. Lent(p, m, a)
  BY <1>4, <1>5, <1>7, <1>10, <1>11, <1>12 DEF Lent, L
<1> QED
  BY <1>13 DEF p, m, x

LEMMA NothingLent ==
  ASSUME NEW a
  PROVE  Lent(<< >>, << >>, a)
<1>1. KeptOf(<< >>, a) = {}
  BY DEF KeptOf
<1> QED
  BY <1>1, FS_EmptySet DEF Lent

-----------------------------------------------------------------------------
(* The state of json_unpack                                                *)

Reads == {"match", "matched", "level"}

\* The arguments are those that the format asks for.
UnpackArgs ==
  /\ flags \in [strict : BOOLEAN, validate : BOOLEAN]
  /\ fmt # << >> => fmt \in Formats
  /\ Len(args) \in Nat /\ Len(args) = Len(UnpackKinds(fmt, flags.validate))
  /\ \A k \in 1 .. Len(args) :
       /\ args[k].kind = UnpackKinds(fmt, flags.validate)[k].kind
       /\ args[k].from = UnpackKinds(fmt, flags.validate)[k].from
  /\ taken \in 0 .. Len(args)

UnpackTyped == \E V : levels \in Seq(LevelsOf(V)) /\ out \in Writes(V) /\ lent \in Seq(V)

UnpackPhased ==
  /\ pc \in UnpackPhases
  /\ pc \in Reads => fmt \in Formats /\ Sane(fmt, scan)
  /\ pc \notin Reads => levels = << >>
  /\ pc = "level" => levels # << >>
  /\ pc = "unpack" => taken = 0
  /\ pc # "unpacked" => result = "none"

\* Where the shim is in each phase, with what it has listed taken.
UnpackAt(f, m, p, n, tok, open, mark) ==
  /\ n = Len(m.list)
  /\ p = "match" => UnpackIs(f, m, tok, open, "value", m.list, FALSE)
  /\ p = "level" => ShimIs(f, m, tok, open, "items", m.list) /\ (m.strict => mark # "no")
  /\ p = "matched" => UnpackPast(f, m, tok, open, m.list, FALSE)

UnpackInStep ==
  pc \in Reads =>
    \E m : /\ OnUnpackRun(fmt, flags.validate, m)
           /\ UnpackAt(fmt, m, pc, taken, scan.tok, OpensOf(levels), Last(levels).strict)

\* No argument was missing or of another kind, and a call that goes well has taken all.
Taking ==
  /\ err # "mismatch"
  /\ result = "ok" => taken = Len(args)

Lending ==
  /\ flags.validate => out = << >> /\ lent = << >>
  /\ Lent(out, lent, args)
  /\ buffers = Cardinality(Sets(levels))

Unpacks == UnpackArgs /\ UnpackTyped /\ UnpackPhased /\ UnpackInStep /\ Taking /\ Lending

LEMMA UnpackListedAreArgs ==
  ASSUME UnpackArgs, fmt \in Formats, NEW r, OnUnpackRun(fmt, flags.validate, r)
  PROVE  /\ Len(r.list) \in 0 .. Len(args)
         /\ \A k \in 1 .. Len(r.list) :
              k <= Len(args) /\ args[k].kind = r.list[k].kind /\ args[k].from = r.list[k].from
         /\ r.at \in {"done", "stop"} => Len(r.list) = Len(args)
<1>1. flags.validate \in BOOLEAN
  BY DEF UnpackArgs
<1>2. /\ Extends(r.list, UnpackKinds(fmt, flags.validate))
      /\ r.at \in {"done", "stop"} => r.list = UnpackKinds(fmt, flags.validate)
  BY <1>1, UnpackRunIsListed
<1> QED
  BY <1>2 DEF UnpackArgs, Extends

\* What is known of the shim before a step.
LEMMA UnpackBefore ==
  ASSUME Unpacks, pc \in Reads
  PROVE  \E m :
           /\ OnUnpackRun(fmt, flags.validate, m)
           /\ UnpackAt(fmt, m, pc, taken, scan.tok, OpensOf(levels), Last(levels).strict)
           /\ ShimOK(fmt, m)
           /\ m.at \in {"value", "items"} /\ CharOf(fmt, m.scan.tok) # "end" =>
                OnUnpackRun(fmt, flags.validate, UnpackShimStep(flags.validate, fmt, m))
<1>1. fmt \in Formats /\ flags.validate \in BOOLEAN
  BY DEF Unpacks, UnpackArgs, UnpackPhased
<1>2. PICK m : /\ OnUnpackRun(fmt, flags.validate, m)
               /\ UnpackAt(fmt, m, pc, taken, scan.tok, OpensOf(levels), Last(levels).strict)
  BY DEF Unpacks, UnpackInStep
<1> QED
  BY <1>1, <1>2, UnpackRunIsListed

\* A step that goes on in the format.
LEMMA UnpackGoesOn ==
  ASSUME Unpacks, fmt \in Formats, pc # "unpacked",
         fmt' = fmt, args' = args, flags' = flags, err' = err, result' = result,
         pc' \in Reads, Sane(fmt, scan'),
         NEW W, levels' \in Seq(LevelsOf(W)), pc' = "level" => levels' # << >>,
         buffers' = Cardinality(Sets(levels')),
         NEW U, out' \in Writes(U), lent' \in Seq(U), Lent(out', lent', args),
         flags.validate => out' = << >> /\ lent' = << >>,
         NEW r, OnUnpackRun(fmt, flags.validate, r),
         UnpackAt(fmt, r, pc', taken', scan'.tok, OpensOf(levels'), Last(levels').strict)
  PROVE  Unpacks'
<1>1. UnpackArgs'
  <2>1. taken' \in 0 .. Len(args)
    BY UnpackListedAreArgs DEF Unpacks, UnpackAt
  <2> QED
    BY <2>1 DEF Unpacks, UnpackArgs
<1>2. UnpackTyped'
  <2> DEFINE V == W \cup U
  <2>1. levels' \in Seq(LevelsOf(V))
    BY LevelsGrow
  <2>2. out' \in Writes(V) /\ lent' \in Seq(V)
    <3>1. Writes(U) \subseteq Writes(V)
      <4>1. [arg : Nat, value : U] \subseteq [arg : Nat, value : V]
        OBVIOUS
      <4> QED
        BY <4>1, SeqsGrow DEF Writes
    <3>2. Seq(U) \subseteq Seq(V)
      <4>1. U \subseteq V
        OBVIOUS
      <4> QED
        BY <4>1, SeqsGrow
    <3> HIDE DEF V
    <3> QED
      BY <3>1, <3>2
  <2> QED
    BY <2>1, <2>2 DEF UnpackTyped
<1>3. UnpackPhased'
  <2>1. pc' \in UnpackPhases /\ pc' # "unpack" /\ pc' # "unpacked"
    BY DEF Reads, UnpackPhases
  <2>2. result' = "none"
    BY DEF Unpacks, UnpackPhased
  <2> QED
    BY <2>1, <2>2 DEF UnpackPhased
<1>4. UnpackInStep'
  BY DEF UnpackInStep
<1>5. Taking'
  BY DEF Unpacks, Taking, UnpackPhased
<1>6. Lending'
  BY DEF Lending
<1> QED
  BY <1>1, <1>2, <1>3, <1>4, <1>5, <1>6 DEF Unpacks

LEMMA UnpackWritesNothing ==
  ASSUME Unpacks, fmt \in Formats, pc # "unpacked",
         fmt' = fmt, args' = args, flags' = flags, err' = err, result' = result,
         out' = out, lent' = lent,
         pc' \in Reads, Sane(fmt, scan'),
         NEW W, levels' \in Seq(LevelsOf(W)), pc' = "level" => levels' # << >>,
         buffers' = Cardinality(Sets(levels')),
         NEW r, OnUnpackRun(fmt, flags.validate, r),
         UnpackAt(fmt, r, pc', taken', scan'.tok, OpensOf(levels'), Last(levels').strict)
  PROVE  Unpacks'
<1>1. PICK V : levels \in Seq(LevelsOf(V)) /\ out \in Writes(V) /\ lent \in Seq(V)
  BY DEF Unpacks, UnpackTyped
<1>2. Lent(out, lent, args) /\ (flags.validate => out = << >> /\ lent = << >>)
  BY DEF Unpacks, Lending
<1> QED
  BY <1>1, <1>2, UnpackGoesOn

\* A step that ends the call with an error.
LEMMA UnpackStops ==
  ASSUME Unpacks, pc # "unpacked",
         fmt' = fmt, args' = args, flags' = flags, out' = out, lent' = lent,
         taken' \in 0 .. Len(args),
         NEW code, code # "mismatch", NEW sets, sets = buffers, Fails(code, sets)
  PROVE  Unpacks'
<1>1. /\ pc' = "unpacked" /\ levels' = << >> /\ buffers' = buffers - buffers
      /\ err' = Reported(err, code) /\ result' = "failed"
  BY DEF Fails, FailsAfter
<1>2. UnpackArgs'
  BY DEF Unpacks, UnpackArgs
<1>3. PICK V : levels \in Seq(LevelsOf(V)) /\ out \in Writes(V) /\ lent \in Seq(V)
  BY DEF Unpacks, UnpackTyped
<1>4. UnpackTyped'
  <2>1. levels' \in Seq(LevelsOf(V)) /\ out' \in Writes(V) /\ lent' \in Seq(V)
    BY <1>1, <1>3
  <2> QED
    BY <2>1 DEF UnpackTyped
<1>5. UnpackPhased' /\ UnpackInStep'
  BY <1>1 DEF UnpackPhased, UnpackInStep, UnpackPhases, Reads
<1>6. Taking'
  BY <1>1 DEF Unpacks, Taking, Reported
<1>7. Lending'
  <2>1. buffers \in Nat
    BY <1>3, SetsAre DEF Unpacks, Lending
  <2>2. Sets(levels') = {}
    BY <1>1 DEF Sets
  <2>3. buffers' = Cardinality(Sets(levels'))
    BY <1>1, <2>1, <2>2, FS_EmptySet
  <2> QED
    BY <2>3 DEF Unpacks, Lending
<1> QED
  BY <1>2, <1>4, <1>5, <1>6, <1>7 DEF Unpacks

LEMMA SetsOfKeysAre ==
  ASSUME Unpacks
  PROVE  SetsOfKeys = buffers
  BY DEF Unpacks, Lending, SetsOfKeys, Sets

LEMMA UnpackIsTyped ==
  ASSUME Unpacks
  PROVE  \E V : levels \in Seq(LevelsOf(V)) /\ out \in Writes(V) /\ lent \in Seq(V)
  BY DEF Unpacks, UnpackTyped

-----------------------------------------------------------------------------
(* The steps of json_unpack                                                *)

LEMMA UnpackCallStays ==
  ASSUME Unpacks, UnpackCall
  PROVE  Unpacks'
<1>1. /\ pc = "unpack" /\ levels = << >> /\ taken = 0 /\ buffers = 0
  <2>1. pc = "unpack"
    BY DEF UnpackCall
  <2>2. levels = << >> /\ taken = 0
    BY <2>1 DEF Unpacks, UnpackPhased, Reads
  <2>3. Sets(levels) = {}
    BY <2>2 DEF Sets
  <2> QED
    BY <2>1, <2>2, <2>3, FS_EmptySet DEF Unpacks, Lending
<1>2. /\ fmt' = fmt /\ args' = args /\ taken' = taken /\ flags' = flags /\ out' = out /\ lent' = lent
      /\ taken \in 0 .. Len(args)
  BY DEF UnpackCall, Unpacks, UnpackArgs
<1>3. CASE root = None \/ fmt = << >>
  <2> DEFINE code == IF root = None THEN "null" ELSE "argument"
  <2>1. Fails(code, 0) /\ code # "mismatch"
    BY <1>3 DEF UnpackCall
  <2> HIDE DEF code
  <2> QED
    BY <1>1, <1>2, <2>1, UnpackStops
<1>4. CASE ~(root = None \/ fmt = << >>)
  <2> DEFINE r == ShimStart(fmt)
  <2>1. /\ scan' = Advanced(fmt, ScanStart) /\ pc' = "match" /\ err' = err /\ result' = result
        /\ levels' = levels /\ buffers' = buffers
    BY <1>4 DEF UnpackCall
  <2>2. fmt \in Formats /\ flags.validate \in BOOLEAN
    BY <1>4 DEF Unpacks, UnpackArgs
  <2>3. Sane(fmt, scan')
    BY <2>1, <2>2, StartIsSane, AdvancedIsSane
  <2>4. OnUnpackRun(fmt, flags.validate, r)
    <3>1. Steps(fmt) \in Nat /\ UnpackRun(fmt, flags.validate)[0] = r
      BY <2>2, UnpackRunIsRun
    <3>2. 0 \in 0 .. Steps(fmt)
      BY <3>1
    <3> QED
      BY <3>1, <3>2 DEF OnUnpackRun
  <2>5. UnpackAt(fmt, r, pc', taken', scan'.tok, OpensOf(levels'), Last(levels').strict)
    <3>1. ShimIs(fmt, r, Advanced(fmt, ScanStart).tok, << >>, "value", << >>)
      BY <2>2, StartIsThere
    <3>2. r.strict = FALSE /\ r.list = << >>
      BY DEF ShimStart
    <3>3. OpensOf(levels') = << >>
      BY <1>1, <2>1 DEF OpensOf
    <3> HIDE DEF r
    <3> QED
      BY <1>1, <1>2, <2>1, <3>1, <3>2, <3>3 DEF UnpackAt, UnpackIs
  <2>6. PICK V : levels \in Seq(LevelsOf(V)) /\ out \in Writes(V) /\ lent \in Seq(V)
    BY UnpackIsTyped
  <2>7. buffers' = Cardinality(Sets(levels')) /\ levels' \in Seq(LevelsOf(V))
    BY <2>1, <2>6 DEF Unpacks, Lending
  <2>8. pc' \in Reads /\ pc' # "level" /\ pc # "unpacked"
    BY <1>1, <2>1 DEF Reads
  <2> HIDE DEF r
  <2> QED
    BY <1>2, <2>1, <2>2, <2>3, <2>4, <2>5, <2>7, <2>8, UnpackWritesNothing
<1> QED
  BY <1>3, <1>4

LEMMA UnpackStarvedStays ==
  ASSUME Unpacks, UnpackCallStarved
  PROVE  Unpacks'
<1>1. pc = "unpack" /\ levels = << >> /\ buffers = 0
  <2>1. pc = "unpack"
    BY DEF UnpackCallStarved
  <2>2. levels = << >>
    BY <2>1 DEF Unpacks, UnpackPhased, Reads
  <2>3. Sets(levels) = {}
    BY <2>2 DEF Sets
  <2> QED
    BY <2>1, <2>2, <2>3, FS_EmptySet DEF Unpacks, Lending
<1>2. /\ fmt' = fmt /\ args' = args /\ taken' = taken /\ flags' = flags /\ out' = out /\ lent' = lent
      /\ taken \in 0 .. Len(args) /\ Fails("memory", 0) /\ "memory" # "mismatch"
  BY DEF UnpackCallStarved, Unpacks, UnpackArgs
<1> QED
  BY <1>1, <1>2, UnpackStops

LEMMA UnpackFinishStays ==
  ASSUME Unpacks, UnpackFinish
  PROVE  Unpacks'
<1>1. pc = "matched" /\ levels = << >> /\ buffers = 0
  <2>1. pc = "matched" /\ levels = << >>
    BY DEF UnpackFinish
  <2>2. Sets(levels) = {}
    BY <2>1 DEF Sets
  <2> QED
    BY <2>1, <2>2, FS_EmptySet DEF Unpacks, Lending
<1>2. /\ fmt' = fmt /\ args' = args /\ taken' = taken /\ flags' = flags /\ out' = out /\ lent' = lent
      /\ taken \in 0 .. Len(args)
  BY DEF UnpackFinish, Unpacks, UnpackArgs
<1>3. CASE TokenOf(NextToken(scan)) # "end"
  <2>1. Fails("format", 0) /\ "format" # "mismatch" /\ pc # "unpacked"
    BY <1>1, <1>3 DEF UnpackFinish
  <2> QED
    BY <1>1, <1>2, <2>1, UnpackStops
<1>4. CASE TokenOf(NextToken(scan)) = "end"
  <2>1. /\ pc' = "unpacked" /\ result' = "ok" /\ err' = err /\ levels' = levels /\ buffers' = buffers
    BY <1>4 DEF UnpackFinish
  <2>2. UnpackArgs' /\ UnpackTyped' /\ Lending'
    BY <1>2, <2>1, Zenon DEF Unpacks, UnpackArgs, UnpackTyped, Lending
  <2>3. UnpackPhased' /\ UnpackInStep'
    BY <1>1, <2>1 DEF UnpackPhased, UnpackInStep, UnpackPhases, Reads
  <2>4. Taking'
    <3>1. pc \in Reads
      BY <1>1 DEF Reads
    <3>2. PICK m : /\ OnUnpackRun(fmt, flags.validate, m)
                   /\ UnpackAt(fmt, m, pc, taken, scan.tok, OpensOf(levels), Last(levels).strict)
      BY <3>1, UnpackBefore
    <3>3. OpensOf(levels) = << >>
      BY <1>1 DEF OpensOf
    <3>4. m.at = "done" /\ taken = Len(m.list)
      BY <1>1, <3>2, <3>3 DEF UnpackAt, UnpackPast, ShimPast
    <3>5. fmt \in Formats /\ UnpackArgs
      BY <3>1 DEF Unpacks, UnpackPhased
    <3>6. taken = Len(args)
      BY <3>2, <3>4, <3>5, UnpackListedAreArgs
    <3> QED
      BY <1>2, <2>1, <3>6 DEF Taking, Unpacks
  <2> QED
    BY <2>2, <2>3, <2>4 DEF Unpacks
<1> QED
  BY <1>3, <1>4

LEMMA StopsWhereItIs ==
  ASSUME Unpacks, pc # "unpacked",
         fmt' = fmt, args' = args, flags' = flags, out' = out, lent' = lent, taken' = taken,
         NEW code, code # "mismatch", Fails(code, SetsOfKeys)
  PROVE  Unpacks'
<1>1. taken' \in 0 .. Len(args) /\ SetsOfKeys = buffers
  BY SetsOfKeysAre DEF Unpacks, UnpackArgs
<1> QED
  BY <1>1, UnpackStops

LEMMA UnpackErrorsStay ==
  ASSUME Unpacks, NoMatch \/ OpenStarved \/ BrokenLevel
  PROVE  Unpacks'
<1> DEFINE Rest == /\ pc # "unpacked" /\ fmt' = fmt /\ args' = args /\ flags' = flags
                   /\ out' = out /\ lent' = lent /\ taken' = taken
           Ends == Fails("format", SetsOfKeys) \/ Fails("type", SetsOfKeys) \/ Fails("memory", SetsOfKeys)
<1>1. NoMatch => Rest /\ Ends
  BY DEF NoMatch
<1>2. OpenStarved => Rest /\ Ends
  BY DEF OpenStarved
<1>3. BrokenLevel => Rest /\ Ends
  BY DEF BrokenLevel, InLevel
<1>4. "format" # "mismatch" /\ "type" # "mismatch" /\ "memory" # "mismatch"
  OBVIOUS
<1> QED
  BY <1>1, <1>2, <1>3, <1>4, StopsWhereItIs

LEMMA LetsAre ==
  /\ DOMAIN Lets = Brackets \cup {"n"} \cup Targets
  /\ "end" \notin DOMAIN Lets
  /\ \A c \in DOMAIN Lets : c \notin {"!", "*", "end", "}", "]"}
<1>1. DOMAIN Lets = {"{", "[", "n"} \cup DOMAIN TargetKind
  BY DEF Lets
<1>2. DOMAIN Lets = Brackets \cup {"n"} \cup Targets
  BY <1>1, TargetsAre DEF Brackets
<1> QED
  BY <1>2 DEF Brackets, Targets

\* The shim at a value, and after it.
LEMMA InMatch ==
  ASSUME Unpacks, pc = "match"
  PROVE  /\ fmt \in Formats /\ Sane(fmt, scan) /\ flags.validate \in BOOLEAN
         /\ \E m : /\ ShimOK(fmt, m) /\ m.at = "value" /\ m.scan.tok = scan.tok
                   /\ m.open = OpensOf(levels) /\ m.strict = FALSE /\ taken = Len(m.list)
                   /\ CharOf(fmt, scan.tok) = Token
                   /\ Token # "end" =>
                        OnUnpackRun(fmt, flags.validate, UnpackShimStep(flags.validate, fmt, m))
<1>1. fmt \in Formats /\ Sane(fmt, scan) /\ flags.validate \in BOOLEAN /\ pc \in Reads
  BY DEF Unpacks, UnpackArgs, UnpackPhased, Reads
<1>2. PICK m :
        /\ OnUnpackRun(fmt, flags.validate, m)
        /\ UnpackAt(fmt, m, pc, taken, scan.tok, OpensOf(levels), Last(levels).strict)
        /\ ShimOK(fmt, m)
        /\ m.at \in {"value", "items"} /\ CharOf(fmt, m.scan.tok) # "end" =>
             OnUnpackRun(fmt, flags.validate, UnpackShimStep(flags.validate, fmt, m))
  BY <1>1, UnpackBefore
<1>3. /\ m.at = "value" /\ m.scan.tok = scan.tok /\ m.open = OpensOf(levels) /\ m.strict = FALSE
      /\ taken = Len(m.list)
  BY <1>2 DEF UnpackAt, UnpackIs, ShimIs
<1>4. CharOf(fmt, scan.tok) = Token
  BY DEF Token, TokenOf
<1> QED
  BY <1>1, <1>2, <1>3, <1>4

\* The shim in a bracket, and after a step.
LEMMA InLevelIs ==
  ASSUME Unpacks, pc = "level"
  PROVE  /\ fmt \in Formats /\ Sane(fmt, scan) /\ flags.validate \in BOOLEAN /\ levels # << >>
         /\ \E m : /\ ShimOK(fmt, m) /\ m.at = "items" /\ m.scan.tok = scan.tok
                   /\ m.open = OpensOf(levels) /\ m.open # << >> /\ Last(m.open) = Level.of
                   /\ (Level.strict = "no" => ~m.strict) /\ taken = Len(m.list)
                   /\ CharOf(fmt, scan.tok) = Token
                   /\ Token # "end" =>
                        OnUnpackRun(fmt, flags.validate, UnpackShimStep(flags.validate, fmt, m))
<1>1. /\ fmt \in Formats /\ Sane(fmt, scan) /\ flags.validate \in BOOLEAN /\ pc \in Reads
      /\ levels # << >>
  BY DEF Unpacks, UnpackArgs, UnpackPhased, Reads
<1>2. PICK m :
        /\ OnUnpackRun(fmt, flags.validate, m)
        /\ UnpackAt(fmt, m, pc, taken, scan.tok, OpensOf(levels), Last(levels).strict)
        /\ ShimOK(fmt, m)
        /\ m.at \in {"value", "items"} /\ CharOf(fmt, m.scan.tok) # "end" =>
             OnUnpackRun(fmt, flags.validate, UnpackShimStep(flags.validate, fmt, m))
  BY <1>1, UnpackBefore
<1>3. /\ m.at = "items" /\ m.scan.tok = scan.tok /\ m.open = OpensOf(levels)
      /\ (Level.strict = "no" => ~m.strict) /\ taken = Len(m.list)
  BY <1>2 DEF UnpackAt, ShimIs, Level
<1>4. CharOf(fmt, scan.tok) = Token
  BY DEF Token, TokenOf
<1>5. OpensOf(levels) # << >> /\ Last(OpensOf(levels)) = Level.of
  <2>1. PICK V : levels \in Seq(LevelsOf(V))
    BY UnpackIsTyped
  <2> QED
    BY <1>1, <2>1, LevelLess DEF Level
<1> QED
  BY <1>1, <1>2, <1>3, <1>4, <1>5

\* The scanner after the next token, and after a look at it.
LEMMA UnpackScans ==
  ASSUME fmt \in Formats, Sane(fmt, scan)
  PROVE  /\ Sane(fmt, NextToken(scan)) /\ NextToken(scan).tok = NextPlace(fmt, scan.tok)
         /\ TokenOf(NextToken(scan)) = Behind(fmt, scan.tok) /\ LookAhead = Behind(fmt, scan.tok)
         /\ Sane(fmt, Looked) /\ Looked.tok = scan.tok
         /\ Sane(fmt, NextToken(NextToken(scan)))
         /\ NextToken(NextToken(scan)).tok = NextPlace(fmt, NextPlace(fmt, scan.tok))
<1>1. Sane(fmt, NextToken(scan)) /\ NextToken(scan).tok = NextPlace(fmt, scan.tok)
  BY AdvancedIsSane DEF NextToken
<1>2. Sane(fmt, Looked) /\ Looked.tok = scan.tok
  BY LookedIsSane DEF Looked, NextToken
<1>3. /\ Sane(fmt, NextToken(NextToken(scan)))
      /\ NextToken(NextToken(scan)).tok = NextPlace(fmt, NextToken(scan).tok)
  <2> DEFINE s == NextToken(scan)
  <2> HIDE DEF s
  <2>1. Sane(fmt, Advanced(fmt, s)) /\ Advanced(fmt, s).tok = NextPlace(fmt, s.tok)
    BY <1>1, AdvancedIsSane DEF s
  <2> QED
    BY <2>1 DEF s, NextToken
<1> QED
  BY <1>1, <1>2, <1>3 DEF TokenOf, LookAhead, Behind

LEMMA NullMatchStays ==
  ASSUME Unpacks, NullMatch
  PROVE  Unpacks'
<1>1. /\ pc = "match" /\ pc' = "matched" /\ Token = "n"
      /\ fmt' = fmt /\ args' = args /\ taken' = taken /\ scan' = scan /\ err' = err
      /\ buffers' = buffers
      /\ flags' = flags /\ levels' = levels /\ out' = out /\ lent' = lent /\ result' = result
  BY DEF NullMatch, unpackVars
<1>2. fmt \in Formats /\ Sane(fmt, scan) /\ flags.validate \in BOOLEAN
  BY <1>1, InMatch
<1>3. PICK m :
        /\ ShimOK(fmt, m) /\ m.at = "value" /\ m.scan.tok = scan.tok
        /\ m.open = OpensOf(levels) /\ m.strict = FALSE /\ taken = Len(m.list)
        /\ CharOf(fmt, scan.tok) = Token
        /\ Token # "end" =>
             OnUnpackRun(fmt, flags.validate, UnpackShimStep(flags.validate, fmt, m))
  BY <1>1, InMatch
<1> DEFINE r == UnpackShimStep(flags.validate, fmt, m)
<1>4. OnUnpackRun(fmt, flags.validate, r)
  BY <1>1, <1>3
<1>5. UnpackPast(fmt, r, scan.tok, OpensOf(levels), m.list, FALSE)
  BY <1>1, <1>2, <1>3, UnpackValueGoes
<1> HIDE DEF r
<1>6. UnpackAt(fmt, r, pc', taken', scan'.tok, OpensOf(levels'), Last(levels').strict)
  BY <1>1, <1>3, <1>5 DEF UnpackAt, UnpackPast, ShimPast, ShimIs
<1>7. PICK V : levels \in Seq(LevelsOf(V))
  BY UnpackIsTyped
<1>8. buffers = Cardinality(Sets(levels)) /\ "matched" \in Reads
  BY DEF Unpacks, Lending, Reads
<1> QED
  BY <1>1, <1>2, <1>4, <1>6, <1>7, <1>8, UnpackWritesNothing

LEMMA OpenMatchStays ==
  ASSUME Unpacks, OpenMatch
  PROVE  Unpacks'
<1> DEFINE x == [of |-> Token, value |-> item, strict |-> "no", index |-> 1, key |-> NoKey, seen |-> {}]
           more == IF Token = "{" THEN 1 ELSE 0
<1>1. /\ pc = "match" /\ pc' = "level" /\ Token \in Brackets
      /\ fmt' = fmt /\ args' = args /\ taken' = taken /\ scan' = NextToken(scan) /\ err' = err
      /\ buffers' = buffers + more /\ levels' = Append(levels, x)
      /\ flags' = flags /\ out' = out /\ lent' = lent /\ result' = result
  BY DEF OpenMatch, Brackets
<1>2. fmt \in Formats /\ Sane(fmt, scan) /\ flags.validate \in BOOLEAN
  BY <1>1, InMatch
<1>3. PICK m :
        /\ ShimOK(fmt, m) /\ m.at = "value" /\ m.scan.tok = scan.tok
        /\ m.open = OpensOf(levels) /\ m.strict = FALSE /\ taken = Len(m.list)
        /\ CharOf(fmt, scan.tok) = Token
        /\ Token # "end" =>
             OnUnpackRun(fmt, flags.validate, UnpackShimStep(flags.validate, fmt, m))
  BY <1>1, InMatch
<1> DEFINE r == UnpackShimStep(flags.validate, fmt, m)
<1>4. OnUnpackRun(fmt, flags.validate, r)
  BY <1>1, <1>3 DEF Brackets
<1>5. UnpackIs(fmt, r, NextPlace(fmt, scan.tok), Append(OpensOf(levels), Token), "items", m.list, FALSE)
  BY <1>1, <1>2, <1>3, UnpackValueGoes
<1>6. PICK V : levels \in Seq(LevelsOf(V))
  BY UnpackIsTyped
<1> DEFINE W == V \cup {item, 1, NoKey, {}}
<1>7. /\ levels' \in Seq(LevelsOf(W)) /\ levels' # << >> /\ Last(levels').strict = "no"
      /\ OpensOf(levels') = Append(OpensOf(levels), Token)
      /\ buffers' = Cardinality(Sets(levels'))
  <2>1. levels \in Seq(LevelsOf(W))
    BY <1>6, LevelsGrow
  <2>2. x \in LevelsOf(W) /\ x.of = Token /\ x.strict = "no"
    BY <1>1 DEF LevelsOf
  <2> DEFINE plus == IF x.of = "{" THEN 1 ELSE 0
  <2>0. plus = more
    BY <2>2
  <2> HIDE DEF x, W, more
  <2>3. /\ levels' \in Seq(LevelsOf(W)) /\ levels' # << >> /\ Last(levels') = x
        /\ OpensOf(levels') = Append(OpensOf(levels), x.of)
        /\ Cardinality(Sets(levels')) = Cardinality(Sets(levels)) + plus
    BY <1>1, <2>1, <2>2, LevelMore
  <2> HIDE DEF plus
  <2>4. buffers = Cardinality(Sets(levels))
    BY DEF Unpacks, Lending
  <2> QED
    BY <1>1, <2>0, <2>2, <2>3, <2>4
<1> HIDE DEF r, x, W, more
<1>8. UnpackAt(fmt, r, pc', taken', scan'.tok, OpensOf(levels'), Last(levels').strict)
  <2>1. scan'.tok = NextPlace(fmt, scan.tok)
    BY <1>1, <1>2, UnpackScans
  <2> QED
    BY <1>1, <1>3, <1>5, <1>7, <2>1 DEF UnpackAt, UnpackIs, ShimIs
<1>9. Sane(fmt, scan') /\ "level" \in Reads
  BY <1>1, <1>2, UnpackScans DEF Reads
<1> QED
  BY <1>1, <1>2, <1>4, <1>7, <1>8, <1>9, UnpackWritesNothing

LEMMA StrictMarkStays ==
  ASSUME Unpacks, StrictMark
  PROVE  Unpacks'
<1>1. /\ pc = "level" /\ pc' = pc /\ Token # Closes(Level.of) /\ Level.strict = "no"
      /\ Token \in {"!", "*"}
      /\ fmt' = fmt /\ args' = args /\ taken' = taken /\ scan' = NextToken(scan) /\ err' = err
      /\ buffers' = buffers /\ levels' = [levels EXCEPT ![Len(levels)].strict = Token]
      /\ flags' = flags /\ out' = out /\ lent' = lent /\ result' = result
  BY DEF StrictMark, InLevel
<1>2. fmt \in Formats /\ Sane(fmt, scan) /\ flags.validate \in BOOLEAN /\ levels # << >>
  BY <1>1, InLevelIs
<1>3. PICK m :
        /\ ShimOK(fmt, m) /\ m.at = "items" /\ m.scan.tok = scan.tok
        /\ m.open = OpensOf(levels) /\ m.open # << >> /\ Last(m.open) = Level.of
        /\ (Level.strict = "no" => ~m.strict) /\ taken = Len(m.list)
        /\ CharOf(fmt, scan.tok) = Token
        /\ Token # "end" =>
             OnUnpackRun(fmt, flags.validate, UnpackShimStep(flags.validate, fmt, m))
  BY <1>1, InLevelIs
<1> DEFINE r == UnpackShimStep(flags.validate, fmt, m)
<1>4. OnUnpackRun(fmt, flags.validate, r)
  BY <1>1, <1>3
<1>5. UnpackIs(fmt, r, NextPlace(fmt, scan.tok), OpensOf(levels), "items", m.list, TRUE)
  BY <1>1, <1>2, <1>3, UnpackItemsGo
<1>6. PICK V : levels \in Seq(LevelsOf(V))
  BY UnpackIsTyped
<1> DEFINE W == V \cup {Token}
           x == [Level EXCEPT !.strict = Token]
<1>7. /\ levels' \in Seq(LevelsOf(W)) /\ levels' # << >> /\ Last(levels').strict # "no"
      /\ OpensOf(levels') = OpensOf(levels) /\ Sets(levels') = Sets(levels)
  <2>1. Level \in LevelsOf(V) /\ Level = levels[Len(levels)] /\ Len(levels) \in DOMAIN levels
    BY <1>2, <1>6, FrontAndLast DEF Level
  <2>2. x \in LevelsOf(W) /\ x.of = Level.of /\ x.strict = Token
    BY <1>1, <2>1 DEF LevelsOf
  <2>3. levels' = [levels EXCEPT ![Len(levels)] = x] /\ V \subseteq W
    BY <1>1, <2>1
  <2> HIDE DEF x, W
  <2>4. /\ levels' \in Seq(LevelsOf(W)) /\ levels' # << >> /\ Last(levels') = x
        /\ OpensOf(levels') = OpensOf(levels) /\ Sets(levels') = Sets(levels)
    <3> DEFINE t == [levels EXCEPT ![Len(levels)] = x]
    <3>1. x.of = Last(levels).of
      BY <2>2 DEF Level
    <3>2. /\ t \in Seq(LevelsOf(W)) /\ t # << >> /\ Last(t) = x
          /\ OpensOf(t) = OpensOf(levels) /\ Sets(t) = Sets(levels)
      BY <1>2, <1>6, <2>2, <2>3, <3>1, TopChanges
    <3> HIDE DEF t
    <3>3. levels' = t
      BY <2>3 DEF t
    <3> QED
      BY <3>2, <3>3
  <2> QED
    BY <1>1, <2>2, <2>4
<1> HIDE DEF r, x, W
<1>8. Sane(fmt, scan') /\ scan'.tok = NextPlace(fmt, scan.tok) /\ "level" \in Reads
  BY <1>1, <1>2, UnpackScans DEF Reads
<1>9. UnpackAt(fmt, r, pc', taken', scan'.tok, OpensOf(levels'), Last(levels').strict)
  BY <1>1, <1>3, <1>5, <1>7, <1>8 DEF UnpackAt, UnpackIs, ShimIs
<1>10. buffers' = Cardinality(Sets(levels'))
  BY <1>1, <1>7 DEF Unpacks, Lending
<1> QED
  BY <1>1, <1>2, <1>4, <1>7, <1>8, <1>9, <1>10, UnpackWritesNothing

LEMMA MatchItemStays ==
  ASSUME Unpacks, MatchItem
  PROVE  Unpacks'
<1>1. /\ pc = "level" /\ Level.of = "[" /\ Level.strict = "no" /\ Token \in DOMAIN Lets
      /\ Token # Closes(Level.of)
      /\ fmt' = fmt /\ args' = args /\ taken' = taken /\ scan' = scan
      /\ flags' = flags /\ out' = out /\ lent' = lent
  BY DEF MatchItem, InLevel, Starters
<1>2. CASE Level.value # None /\ ~InRange
  <2>1. Fails("index", SetsOfKeys) /\ "index" # "mismatch"
    BY <1>2 DEF MatchItem
  <2> QED
    BY <1>1, <2>1, StopsWhereItIs
<1>3. CASE ~(Level.value # None /\ ~InRange)
  <2>1. /\ pc' = "match" /\ err' = err /\ buffers' = buffers /\ levels' = levels /\ result' = result
    BY <1>3 DEF MatchItem
  <2>2. fmt \in Formats /\ Sane(fmt, scan) /\ flags.validate \in BOOLEAN /\ levels # << >>
    BY <1>1, InLevelIs
  <2>3. PICK m :
          /\ ShimOK(fmt, m) /\ m.at = "items" /\ m.scan.tok = scan.tok
          /\ m.open = OpensOf(levels) /\ m.open # << >> /\ Last(m.open) = Level.of
          /\ (Level.strict = "no" => ~m.strict) /\ taken = Len(m.list)
          /\ CharOf(fmt, scan.tok) = Token
          /\ Token # "end" =>
               OnUnpackRun(fmt, flags.validate, UnpackShimStep(flags.validate, fmt, m))
    BY <1>1, InLevelIs
  <2> DEFINE r == UnpackShimStep(flags.validate, fmt, m)
  <2>4. Token \notin {"!", "*", "end"}
    BY <1>1, LetsAre
  <2>5. OnUnpackRun(fmt, flags.validate, r)
    BY <2>3, <2>4
  <2>6. UnpackIs(fmt, r, scan.tok, OpensOf(levels), "value", m.list, FALSE)
    BY <1>1, <2>2, <2>3, <2>4, UnpackItemsGo
  <2> HIDE DEF r
  <2>7. UnpackAt(fmt, r, pc', taken', scan'.tok, OpensOf(levels'), Last(levels').strict)
    BY <1>1, <2>1, <2>3, <2>6 DEF UnpackAt, UnpackIs, ShimIs
  <2>8. PICK V : levels \in Seq(LevelsOf(V))
    BY UnpackIsTyped
  <2>9. buffers' = Cardinality(Sets(levels')) /\ pc' \in Reads
    BY <2>1 DEF Unpacks, Lending, Reads
  <2> QED
    BY <1>1, <2>1, <2>2, <2>5, <2>7, <2>8, <2>9, UnpackWritesNothing
<1> QED
  BY <1>2, <1>3

LEMMA MatchMemberStays ==
  ASSUME Unpacks, MatchMember
  PROVE  Unpacks'
<1> DEFINE key == IF Fits("KEY") THEN args[taken + 1].value ELSE NoText
           s == NextToken(scan)
           optional == TokenOf(s) = "?"
           value == IF Level.value = None THEN None ELSE Member(Level.value, key)
           end == KeyEnd(fmt, scan.tok)
<1>1. /\ pc = "level" /\ Level.of = "{" /\ Level.strict = "no" /\ Token = "s"
      /\ fmt' = fmt /\ args' = args
      /\ taken' = IF taken < Len(args) THEN taken + 1 ELSE taken
      /\ flags' = flags /\ out' = out /\ lent' = lent
  BY DEF MatchMember, InLevel, TakeArg
<1>2. fmt \in Formats /\ Sane(fmt, scan) /\ flags.validate \in BOOLEAN /\ levels # << >>
  BY <1>1, InLevelIs
<1>3. PICK m :
        /\ ShimOK(fmt, m) /\ m.at = "items" /\ m.scan.tok = scan.tok
        /\ m.open = OpensOf(levels) /\ m.open # << >> /\ Last(m.open) = Level.of
        /\ (Level.strict = "no" => ~m.strict) /\ taken = Len(m.list)
        /\ CharOf(fmt, scan.tok) = Token
        /\ Token # "end" =>
             OnUnpackRun(fmt, flags.validate, UnpackShimStep(flags.validate, fmt, m))
  BY <1>1, InLevelIs
<1> DEFINE r == UnpackShimStep(flags.validate, fmt, m)
           list == Append(m.list, Entry("KEY", "s"))
<1>4. OnUnpackRun(fmt, flags.validate, r)
  BY <1>1, <1>3
<1>5. UnpackIs(fmt, r, NextPlace(fmt, end), OpensOf(levels), "value", list, FALSE)
  <2>1. "s" # Closes("{") /\ "s" \notin {"!", "*", "end"} /\ "{" # "["
    BY DEF Closes
  <2> QED
    BY <1>1, <1>2, <1>3, <2>1, UnpackItemsGo
<1>6. /\ r.list = list /\ Len(list) = taken + 1 /\ taken < Len(args) /\ taken' = taken + 1
      /\ Fits("KEY")
  <2>1. r.list = list /\ UnpackArgs
    BY <1>5 DEF UnpackIs, ShimIs, Unpacks
  <2>2. /\ Len(r.list) \in 0 .. Len(args)
        /\ \A k \in 1 .. Len(r.list) : args[k].kind = r.list[k].kind
    BY <1>2, <1>4, <2>1, UnpackListedAreArgs
  <2>3. /\ Len(list) = Len(m.list) + 1 /\ Len(m.list) \in Nat
        /\ list[Len(m.list) + 1] = Entry("KEY", "s") /\ Entry("KEY", "s").kind = "KEY"
    BY <1>3 DEF ShimOK, Entry
  <2>4. Len(args) \in Nat
    BY DEF Unpacks, UnpackArgs
  <2>5. taken = Len(m.list)
    BY <1>3
  <2> HIDE DEF list, r
  <2>6. taken < Len(args) /\ Len(list) = taken + 1
    BY <2>1, <2>2, <2>3, <2>4, <2>5
  <2>7. args[taken + 1].kind = "KEY"
    BY <2>1, <2>2, <2>3, <2>5
  <2> QED
    BY <1>1, <2>1, <2>6, <2>7 DEF Fits
<1>7. \/ Fails("null", SetsOfKeys)
      \/ Fails("not found", SetsOfKeys)
      \/ /\ scan' = IF optional THEN NextToken(s) ELSE s
         /\ levels' = [levels EXCEPT ![Len(levels)].key = key]
         /\ pc' = "match" /\ err' = err /\ buffers' = buffers /\ result' = result
  <2>1. Mismatch("KEY") = err
    BY <1>6 DEF Mismatch
  <2> QED
    BY <2>1 DEF MatchMember, Fails, FailsAfter
<1>8. CASE Fails("null", SetsOfKeys) \/ Fails("not found", SetsOfKeys)
  <2>1. "null" # "mismatch" /\ "not found" # "mismatch" /\ "level" # "unpacked"
    OBVIOUS
  <2>2. taken' \in 0 .. Len(args) /\ SetsOfKeys = buffers
    <3>1. taken \in 0 .. Len(args) /\ Len(args) \in Nat /\ SetsOfKeys = buffers
      BY SetsOfKeysAre DEF Unpacks, UnpackArgs
    <3> QED
      BY <1>6, <3>1
  <2> QED
    BY <1>1, <1>8, <2>1, <2>2, UnpackStops
<1>9. CASE /\ scan' = IF optional THEN NextToken(s) ELSE s
           /\ levels' = [levels EXCEPT ![Len(levels)].key = key]
           /\ pc' = "match" /\ err' = err /\ buffers' = buffers /\ result' = result
  <2>1. Sane(fmt, scan') /\ scan'.tok = NextPlace(fmt, end)
    <3>1. /\ Sane(fmt, s) /\ s.tok = NextPlace(fmt, scan.tok) /\ TokenOf(s) = Behind(fmt, scan.tok)
          /\ Sane(fmt, NextToken(s)) /\ NextToken(s).tok = NextPlace(fmt, NextPlace(fmt, scan.tok))
      BY <1>2, UnpackScans
    <3>2. CASE optional
      <4>1. end = NextPlace(fmt, scan.tok)
        BY <3>1, <3>2 DEF KeyEnd
      <4> QED
        BY <1>9, <3>1, <3>2, <4>1
    <3>3. CASE ~optional
      <4>1. end = scan.tok
        BY <3>1, <3>3 DEF KeyEnd
      <4> QED
        BY <1>9, <3>1, <3>3, <4>1
    <3> QED
      BY <3>2, <3>3
  <2>2. PICK V : levels \in Seq(LevelsOf(V))
    BY UnpackIsTyped
  <2> DEFINE W == V \cup {key}
             x == [Level EXCEPT !.key = key]
  <2> HIDE DEF r, key
  <2>3. /\ levels' \in Seq(LevelsOf(W))
        /\ OpensOf(levels') = OpensOf(levels) /\ Sets(levels') = Sets(levels)
    <3>1. Level \in LevelsOf(V) /\ Level = levels[Len(levels)] /\ Len(levels) \in DOMAIN levels
      BY <1>2, <2>2, FrontAndLast DEF Level
    <3>2. x \in LevelsOf(W) /\ x.of = Level.of
      BY <3>1 DEF LevelsOf
    <3>3. levels' = [levels EXCEPT ![Len(levels)] = x]
      BY <1>9, <3>1
    <3>4. V \subseteq W /\ x.of = Last(levels).of
      BY <3>2 DEF Level
    <3> HIDE DEF x, W
    <3> QED
      BY <1>2, <2>2, <3>2, <3>3, <3>4, TopChanges
  <2>4. taken' = Len(list)
    BY <1>6
  <2> HIDE DEF list, W, end
  <2>5. UnpackAt(fmt, r, pc', taken', scan'.tok, OpensOf(levels'), Last(levels').strict)
    BY <1>5, <1>6, <1>9, <2>1, <2>3, <2>4 DEF UnpackAt
  <2>6. buffers' = Cardinality(Sets(levels')) /\ pc' \in Reads /\ pc' # "level"
    BY <1>9, <2>3 DEF Unpacks, Lending, Reads
  <2> QED
    BY <1>1, <1>2, <1>4, <1>9, <2>1, <2>3, <2>5, <2>6, UnpackWritesNothing
<1> QED
  BY <1>7, <1>8, <1>9

LEMMA MatchedStays ==
  ASSUME Unpacks, Matched
  PROVE  Unpacks'
<1> DEFINE again == Level.of = "{"
           seen == IF again THEN Level.seen \cup {Level.key} ELSE Level.seen
           x == [Level EXCEPT !.index = @ + 1, !.seen = seen]
           y == [Level EXCEPT !.index = @ + 1]
<1>1. /\ pc = "matched" /\ levels # << >> /\ pc' = "level"
      /\ fmt' = fmt /\ args' = args /\ taken' = taken /\ scan' = NextToken(scan) /\ err' = err
      /\ buffers' = buffers
      /\ flags' = flags /\ out' = out /\ lent' = lent /\ result' = result
  BY DEF Matched
<1>2. fmt \in Formats /\ Sane(fmt, scan) /\ flags.validate \in BOOLEAN /\ pc \in Reads
  BY <1>1 DEF Unpacks, UnpackArgs, UnpackPhased, Reads
<1>3. PICK m : /\ OnUnpackRun(fmt, flags.validate, m)
               /\ UnpackAt(fmt, m, pc, taken, scan.tok, OpensOf(levels), Last(levels).strict)
  BY <1>2, UnpackBefore
<1>4. PICK V : levels \in Seq(LevelsOf(V))
  BY UnpackIsTyped
<1>5. /\ Level \in LevelsOf(V) /\ Level = levels[Len(levels)] /\ Len(levels) \in DOMAIN levels
      /\ OpensOf(levels) # << >>
  <2>1. Level \in LevelsOf(V) /\ Level = levels[Len(levels)] /\ Len(levels) \in DOMAIN levels
    BY <1>1, <1>4, FrontAndLast DEF Level
  <2>2. OpensOf(levels) # << >>
    BY <1>1, <1>4, LevelLess
  <2> QED
    BY <2>1, <2>2
<1>6. levels' = [levels EXCEPT ![Len(levels)] = x] \/ levels' = [levels EXCEPT ![Len(levels)] = y]
  <2>1. \/ levels' = [levels EXCEPT ![Len(levels)].index = @ + 1, ![Len(levels)].seen = seen]
        \/ levels' = [levels EXCEPT ![Len(levels)].index = @ + 1]
    BY <1>5 DEF Matched, LevelsOf
  <2>2. CASE levels' = [levels EXCEPT ![Len(levels)].index = @ + 1, ![Len(levels)].seen = seen]
    BY <1>5, <2>2 DEF LevelsOf
  <2>3. CASE levels' = [levels EXCEPT ![Len(levels)].index = @ + 1]
    BY <1>5, <2>3 DEF LevelsOf
  <2> QED
    BY <2>1, <2>2, <2>3
<1> DEFINE W == V \cup {Level.index + 1, seen}
<1>7. x \in LevelsOf(W) /\ x.of = Level.of /\ y \in LevelsOf(W) /\ y.of = Level.of
  BY <1>5 DEF LevelsOf
<1>8. /\ levels' \in Seq(LevelsOf(W)) /\ levels' # << >>
      /\ OpensOf(levels') = OpensOf(levels) /\ Sets(levels') = Sets(levels)
  <2>1. V \subseteq W /\ x.of = Last(levels).of /\ y.of = Last(levels).of
    BY <1>7 DEF Level
  <2> HIDE DEF x, y, W
  <2> QED
    BY <1>1, <1>4, <1>6, <1>7, <2>1, TopChanges
<1> HIDE DEF x, y, W
<1>9. Sane(fmt, scan') /\ scan'.tok = NextPlace(fmt, scan.tok) /\ "level" \in Reads
  BY <1>1, <1>2, UnpackScans DEF Reads
<1>10. UnpackAt(fmt, m, pc', taken', scan'.tok, OpensOf(levels'), Last(levels').strict)
  BY <1>1, <1>3, <1>5, <1>8, <1>9 DEF UnpackAt, UnpackPast, ShimPast
<1>11. buffers' = Cardinality(Sets(levels'))
  BY <1>1, <1>8 DEF Unpacks, Lending
<1> QED
  BY <1>1, <1>2, <1>3, <1>8, <1>9, <1>10, <1>11, UnpackWritesNothing

LEMMA CloseMatchStays ==
  ASSUME Unpacks, CloseMatch
  PROVE  Unpacks'
<1>1. /\ pc = "level" /\ Token = Closes(Level.of)
      /\ fmt' = fmt /\ args' = args /\ taken' = taken /\ scan' = scan
      /\ flags' = flags /\ out' = out /\ lent' = lent
  BY DEF CloseMatch
<1>2. CASE Level.value # None /\ Checks /\ ~AllUnpacked
  <2>1. Fails("left over", SetsOfKeys) /\ "left over" # "mismatch"
    BY <1>2 DEF CloseMatch
  <2> QED
    BY <1>1, <2>1, StopsWhereItIs
<1>3. CASE ~(Level.value # None /\ Checks /\ ~AllUnpacked)
  <2> DEFINE less == IF Level.of = "{" THEN 1 ELSE 0
  <2>1. /\ pc' = "matched" /\ err' = err /\ result' = result
        /\ levels' = Front(levels) /\ buffers' = buffers - less
    BY <1>3 DEF CloseMatch
  <2>2. fmt \in Formats /\ Sane(fmt, scan) /\ flags.validate \in BOOLEAN /\ levels # << >>
    BY <1>1, InLevelIs
  <2>3. PICK m :
          /\ ShimOK(fmt, m) /\ m.at = "items" /\ m.scan.tok = scan.tok
          /\ m.open = OpensOf(levels) /\ m.open # << >> /\ Last(m.open) = Level.of
          /\ (Level.strict = "no" => ~m.strict) /\ taken = Len(m.list)
          /\ CharOf(fmt, scan.tok) = Token
          /\ Token # "end" =>
               OnUnpackRun(fmt, flags.validate, UnpackShimStep(flags.validate, fmt, m))
    BY <1>1, InLevelIs
  <2> DEFINE r == UnpackShimStep(flags.validate, fmt, m)
  <2>4. OnUnpackRun(fmt, flags.validate, r)
    <3>1. \A of : Closes(of) # "end"
      BY DEF Closes
    <3> QED
      BY <1>1, <2>3, <3>1
  <2>5. UnpackPast(fmt, r, scan.tok, Front(OpensOf(levels)), m.list, FALSE)
    BY <1>1, <2>2, <2>3, UnpackItemsGo
  <2>6. PICK V : levels \in Seq(LevelsOf(V))
    BY UnpackIsTyped
  <2>7. /\ levels' \in Seq(LevelsOf(V)) /\ OpensOf(levels') = Front(OpensOf(levels))
        /\ buffers' = Cardinality(Sets(levels'))
    <3>1. /\ Front(levels) \in Seq(LevelsOf(V)) /\ OpensOf(Front(levels)) = Front(OpensOf(levels))
          /\ Cardinality(Sets(Front(levels))) = Cardinality(Sets(levels)) - less
      BY <2>2, <2>6, LevelLess DEF Level
    <3>2. buffers = Cardinality(Sets(levels))
      BY DEF Unpacks, Lending
    <3> HIDE DEF less
    <3> QED
      BY <2>1, <3>1, <3>2
  <2> HIDE DEF r
  <2>8. r.list = m.list
    BY <2>5 DEF UnpackPast, ShimPast, ShimIs
  <2>9. UnpackAt(fmt, r, pc', taken', scan'.tok, OpensOf(levels'), Last(levels').strict)
    BY <1>1, <2>1, <2>3, <2>5, <2>7, <2>8 DEF UnpackAt
  <2>10. pc' \in Reads /\ pc' # "level"
    BY <2>1 DEF Reads
  <2> HIDE DEF less
  <2> QED
    BY <1>1, <2>1, <2>2, <2>4, <2>7, <2>9, <2>10, UnpackWritesNothing
<1> QED
  BY <1>2, <1>3

\* A value passes the character that its target is for.
LEMMA TargetMatchStays ==
  ASSUME Unpacks, TargetMatch
  PROVE  Unpacks'
<1> DEFINE v == flags.validate
           kind == TargetKind[Token]
           at == IF Fits(kind) THEN taken + 1 ELSE 0
<1>1. /\ pc = "match" /\ pc' = "matched" /\ Token \in Targets /\ Token # "s"
      /\ fmt' = fmt /\ args' = args /\ scan' = scan /\ buffers' = buffers
      /\ flags' = flags /\ levels' = levels /\ result' = result
      /\ lent' = IF Lends THEN Append(lent, item) ELSE lent
  BY TargetsAre DEF TargetMatch
<1>2. /\ v => taken' = taken /\ err' = err /\ out' = out
      /\ ~v => /\ taken' = IF taken < Len(args) THEN taken + 1 ELSE taken
               /\ err' = Mismatch(kind)
               /\ out' = Written(at)
  BY DEF TargetMatch, TakeArg
<1>3. fmt \in Formats /\ Sane(fmt, scan) /\ v \in BOOLEAN
  BY <1>1, InMatch
<1>4. PICK m :
        /\ ShimOK(fmt, m) /\ m.at = "value" /\ m.scan.tok = scan.tok
        /\ m.open = OpensOf(levels) /\ m.strict = FALSE /\ taken = Len(m.list)
        /\ CharOf(fmt, scan.tok) = Token
        /\ Token # "end" => OnUnpackRun(fmt, v, UnpackShimStep(v, fmt, m))
  BY <1>1, InMatch
<1> DEFINE r == UnpackShimStep(v, fmt, m)
           entry == Entry(kind, Token)
           list == IF v THEN m.list ELSE Append(m.list, entry)
<1>5. OnUnpackRun(fmt, v, r)
  <2>1. Token # "end"
    BY <1>1 DEF Targets
  <2> QED
    BY <1>4, <2>1
<1>6. UnpackPast(fmt, r, scan.tok, OpensOf(levels), list, FALSE)
  <2>1. UnpackPast(fmt, r, TargetEnd(v, fmt, scan.tok), OpensOf(levels),
                   TargetList(v, fmt, scan.tok, m.list), FALSE)
    BY <1>1, <1>3, <1>4, UnpackValueGoes
  <2>2. TargetEnd(v, fmt, scan.tok) = scan.tok
    BY <1>1, <1>4 DEF TargetEnd
  <2>3. TargetList(v, fmt, scan.tok, m.list) = list
    BY <1>1, <1>4 DEF TargetList
  <2> QED
    BY <2>1, <2>2, <2>3
<1>7. r.list = list
  BY <1>6 DEF UnpackPast, ShimPast, ShimIs
<1>8. /\ m.list \in Seq(Entries) /\ entry \in Entries
      /\ entry.kind = kind /\ entry.from = Token
  BY <1>1, <1>4, TargetsAre DEF ShimOK, Entry, Entries
<1>9. PICK V : levels \in Seq(LevelsOf(V)) /\ out \in Writes(V) /\ lent \in Seq(V)
  BY UnpackIsTyped
<1>10. /\ taken \in Nat /\ Len(args) \in Nat /\ UnpackArgs /\ buffers = Cardinality(Sets(levels))
       /\ Lent(out, lent, args) /\ (v => out = << >> /\ lent = << >>)
  BY DEF Unpacks, UnpackArgs, Lending
<1> DEFINE W == V \cup {item}
<1>11. out \in Writes(W) /\ lent \in Seq(W) /\ item \in W
  <2>1. Writes(V) \subseteq Writes(W)
    <3>1. [arg : Nat, value : V] \subseteq [arg : Nat, value : W]
      OBVIOUS
    <3> QED
      BY <3>1, SeqsGrow DEF Writes
  <2>2. Seq(V) \subseteq Seq(W)
    <3>1. V \subseteq W
      OBVIOUS
    <3> QED
      BY <3>1, SeqsGrow
  <2>3. item \in W
    OBVIOUS
  <2> HIDE DEF W
  <2> QED
    BY <1>9, <2>1, <2>2, <2>3
<1> HIDE DEF W
<1>12. /\ taken' = Len(list) /\ err' = err
       /\ out' \in Writes(W) /\ lent' \in Seq(W) /\ Lent(out', lent', args)
       /\ v => out' = << >> /\ lent' = << >>
  <2>1. CASE v
    <3>1. lent' = lent /\ out' = out /\ err' = err /\ taken' = taken
      BY <1>1, <1>2, <2>1 DEF Lends
    <3> QED
      BY <1>4, <1>10, <1>11, <2>1, <3>1
  <2>2. CASE ~v
    <3> DEFINE n == taken + 1
               x == [arg |-> n, value |-> item]
    <3>1. /\ list = Append(m.list, entry) /\ Len(list) = n /\ list[n] = entry /\ n \in Nat \ {0}
      BY <1>4, <1>8, <1>10, <2>2
    <3>2. n <= Len(args) /\ args[n].kind = kind /\ args[n].from = Token
      <4>1. \A k \in 1 .. Len(r.list) :
              k <= Len(args) /\ args[k].kind = r.list[k].kind /\ args[k].from = r.list[k].from
        BY <1>3, <1>5, <1>10, UnpackListedAreArgs
      <4> HIDE DEF list, entry, r, n
      <4>2. n \in 1 .. Len(list)
        BY <3>1
      <4> QED
        BY <1>7, <1>8, <3>1, <4>1, <4>2
    <3>3. taken < Len(args) /\ Fits(kind)
      BY <1>10, <3>2 DEF Fits
    <3>4. taken' = n /\ err' = err /\ out' = Written(n)
      BY <1>2, <2>2, <3>3 DEF Mismatch
    <3>5. out' = IF item = None THEN out ELSE Append(out, x)
      BY <3>4 DEF Written
    <3>6. out' \in Writes(W)
      <4>1. x \in [arg : Nat, value : W]
        BY <1>11, <3>1
      <4>2. Append(out, x) \in Writes(W)
        BY <1>11, <4>1 DEF Writes
      <4> HIDE DEF x
      <4> QED
        BY <1>11, <3>5, <4>2
    <3>7. lent' \in Seq(W)
      BY <1>1, <1>11
    <3>8. Lent(out', lent', args)
      <4>1. CASE item = None
        BY <1>1, <1>10, <3>5, <4>1 DEF Lends
      <4>2. CASE item # None /\ Token = "O"
        <5>1. lent' = Append(lent, item) /\ out' = Append(out, x)
          BY <1>1, <2>2, <3>5, <4>2 DEF Lends
        <5>2. n \in Nat /\ n # 0 /\ args[n].from = "O"
          BY <3>1, <3>2, <4>2
        <5> HIDE DEF n
        <5> QED
          BY <1>10, <1>11, <5>1, <5>2, LentWritten
      <4>3. CASE item # None /\ Token # "O"
        <5>1. lent' = lent /\ out' = Append(out, x)
          BY <1>1, <2>2, <3>5, <4>3 DEF Lends
        <5>2. n \in Nat /\ args[n].from # "O"
          BY <3>1, <3>2, <4>3
        <5> HIDE DEF n
        <5> QED
          BY <1>10, <1>11, <5>1, <5>2, OtherWritten
      <4> QED
        BY <4>1, <4>2, <4>3
    <3> HIDE DEF list, x, n
    <3> QED
      BY <2>2, <3>1, <3>4, <3>6, <3>7, <3>8
  <2> QED
    BY <2>1, <2>2
<1> HIDE DEF r, list
<1>13. UnpackAt(fmt, r, pc', taken', scan'.tok, OpensOf(levels'), Last(levels').strict)
  BY <1>1, <1>6, <1>7, <1>12 DEF UnpackAt
<1>14. pc' \in Reads /\ pc' # "level" /\ pc # "unpacked"
  BY <1>1 DEF Reads
<1> QED
  BY <1>1, <1>3, <1>5, <1>9, <1>10, <1>12, <1>13, <1>14, UnpackGoesOn

\* A string, and its length after it if that is asked for.
LEMMA StringMatchStays ==
  ASSUME Unpacks, StringMatch
  PROVE  Unpacks'
<1> DEFINE v == flags.validate
           tok == scan.tok
           size == Behind(fmt, tok) = "%"
           n == taken + 1
<1>1. /\ pc = "match" /\ Token = "s"
      /\ fmt' = fmt /\ args' = args /\ flags' = flags /\ lent' = lent
  BY DEF StringMatch
<1>2. fmt \in Formats /\ Sane(fmt, scan) /\ v \in BOOLEAN
  BY <1>1, InMatch
<1>3. PICK m :
        /\ ShimOK(fmt, m) /\ m.at = "value" /\ m.scan.tok = tok
        /\ m.open = OpensOf(levels) /\ m.strict = FALSE /\ taken = Len(m.list)
        /\ CharOf(fmt, tok) = Token
        /\ Token # "end" => OnUnpackRun(fmt, v, UnpackShimStep(v, fmt, m))
  BY <1>1, InMatch
<1> DEFINE r == UnpackShimStep(v, fmt, m)
           target == Append(m.list, Entry("STRING", "s"))
           list == IF v THEN m.list
                   ELSE IF size THEN Append(target, Entry("SIZE", "%"))
                   ELSE target
           end == IF ~v /\ size THEN NextPlace(fmt, tok) ELSE tok
<1>4. OnUnpackRun(fmt, v, r)
  BY <1>1, <1>3
<1>5. UnpackPast(fmt, r, end, OpensOf(levels), list, FALSE)
  <2>1. "s" \in Targets /\ TargetKind["s"] = "STRING"
    BY TargetsAre DEF Targets
  <2>2. UnpackPast(fmt, r, TargetEnd(v, fmt, tok), OpensOf(levels), TargetList(v, fmt, tok, m.list), FALSE)
    BY <1>1, <1>2, <1>3, <2>1, UnpackValueGoes
  <2>3. TargetEnd(v, fmt, tok) = end
    BY <1>1, <1>3 DEF TargetEnd
  <2>4. TargetList(v, fmt, tok, m.list) = list
    BY <1>1, <1>3, <2>1 DEF TargetList
  <2> QED
    BY <2>2, <2>3, <2>4
<1>6. r.list = list
  BY <1>5 DEF UnpackPast, ShimPast, ShimIs
<1>7. /\ m.list \in Seq(Entries) /\ Entry("STRING", "s") \in Entries /\ Entry("SIZE", "%") \in Entries
      /\ Entry("STRING", "s").from = "s"
  BY <1>3 DEF ShimOK, Entry, Entries, Kinds, Sources
<1>8. PICK V : levels \in Seq(LevelsOf(V)) /\ out \in Writes(V) /\ lent \in Seq(V)
  BY UnpackIsTyped
<1>9. /\ taken \in 0 .. Len(args) /\ Len(args) \in Nat /\ UnpackArgs /\ buffers = Cardinality(Sets(levels))
      /\ Lent(out, lent, args) /\ (v => out = << >> /\ lent = << >>) /\ SetsOfKeys = buffers
  BY SetsOfKeysAre DEF Unpacks, UnpackArgs, Lending
<1>10. /\ Sane(fmt, NextToken(scan)) /\ NextToken(scan).tok = NextPlace(fmt, tok)
       /\ (LookAhead = "%" <=> size)
       /\ Sane(fmt, Looked) /\ Looked.tok = tok
  BY <1>2, UnpackScans
<1>11. ~v => /\ Len(target) = n /\ target[n] = Entry("STRING", "s") /\ n \in Nat \ {0}
             /\ Len(list) = (IF size THEN n + 1 ELSE n) /\ list[n] = Entry("STRING", "s")
             /\ size => list[n + 1] = Entry("SIZE", "%")
  BY <1>3, <1>7
\* The arguments are there and of the kinds that are asked for.
<1>12. ~v => /\ FitsAt("STRING", n) /\ args[n].from = "s"
             /\ size => FitsAt("SIZE", n + 1)
  <2>1. \A k \in 1 .. Len(r.list) :
            k <= Len(args) /\ args[k].kind = r.list[k].kind /\ args[k].from = r.list[k].from
    BY <1>2, <1>4, <1>9, UnpackListedAreArgs
  <2>2. ~v => n \in 1 .. Len(list) /\ (size => n + 1 \in 1 .. Len(list))
    <3> HIDE DEF n, list, size, target
    <3> QED
      BY <1>11
  <2>3. Entry("STRING", "s").kind = "STRING" /\ Entry("SIZE", "%").kind = "SIZE"
    BY DEF Entry
  <2> HIDE DEF r, list, n, size, target
  <2> QED
    BY <1>6, <1>7, <1>11, <2>1, <2>2, <2>3 DEF FitsAt
<1> DEFINE Stops == /\ Fails("null", SetsOfKeys) /\ out' = out
                    /\ taken' \in {taken, taken + 1, taken + 2} /\ taken' <= Len(args)
           Goes == /\ pc' = "matched" /\ err' = err /\ buffers' = buffers /\ levels' = levels
                   /\ result' = result
<1>13. \/ Stops
       \/ Goes /\ v /\ taken' = taken /\ scan' = scan /\ out' = out
       \/ Goes /\ ~v /\ ~size /\ n <= Len(args) /\ taken' = n /\ scan' = Looked /\ out' = Written(n)
       \/ /\ Goes /\ ~v /\ size /\ n + 1 <= Len(args) /\ taken' = n + 1 /\ scan' = NextToken(scan)
          /\ out' = Written(n)
  <2>1. CASE v
    BY <2>1 DEF StringMatch
  <2>2. CASE ~v /\ ~HasTarget("STRING", n)
    <3>1. Fails("null", SetsOfKeys) /\ out' = out
      <4>1. FailsAtTarget("STRING", n) /\ out' = out
        BY <2>2 DEF StringMatch
      <4>2. FitsAt("STRING", n)
        BY <1>12, <2>2
      <4> HIDE DEF n
      <4> QED
        BY <4>1, <4>2 DEF FailsAtTarget, Fails, FailsAfter
    <3>2. taken' = IF taken < Len(args) THEN n ELSE taken
      BY <2>2 DEF StringMatch, TakeArg
    <3>3. (taken < Len(args) /\ taken' = n) \/ taken' = taken
      BY <3>2
    <3>4. taken' \in {taken, taken + 1, taken + 2} /\ taken' <= Len(args)
      BY <1>9, <3>3
    <3> QED
      BY <3>1, <3>4
  <2>3. CASE ~v /\ HasTarget("STRING", n) /\ ~size
    <3>1. n <= Len(args) /\ taken < Len(args)
      BY <1>9, <2>3 DEF HasTarget, FitsAt
    <3>2. Goes /\ scan' = Looked /\ out' = Written(n) /\ TakeArg
      BY <1>10, <2>3 DEF StringMatch
    <3> QED
      BY <2>3, <3>1, <3>2 DEF TakeArg
  <2>4. CASE ~v /\ HasTarget("STRING", n) /\ size
    <3>1. n <= Len(args)
      BY <2>4 DEF HasTarget, FitsAt
    <3>2. /\ taken' = (IF taken + 2 <= Len(args) THEN taken + 2 ELSE n) /\ scan' = NextToken(scan)
          /\ IF HasTarget("SIZE", taken + 2) THEN out' = Written(n) /\ Goes
             ELSE FailsAtTarget("SIZE", taken + 2) /\ out' = out
      BY <1>10, <2>4 DEF StringMatch
    <3>3. \/ taken + 2 <= Len(args) /\ taken' = taken + 2
          \/ ~(taken + 2 <= Len(args)) /\ taken' = n
      BY <3>2
    <3>4. n + 1 = taken + 2 /\ taken' \in {taken, taken + 1, taken + 2} /\ taken' <= Len(args)
      BY <1>9, <3>1, <3>3
    <3>5. FitsAt("SIZE", taken + 2) /\ taken + 2 <= Len(args)
      <4>1. FitsAt("SIZE", n + 1)
        BY <1>12, <2>4
      <4>2. FitsAt("SIZE", taken + 2)
        BY <3>4, <4>1
      <4> QED
        BY <4>2 DEF FitsAt
    <3>6. FailsAtTarget("SIZE", taken + 2) => Fails("null", SetsOfKeys)
      BY <3>5 DEF FailsAtTarget, Fails, FailsAfter
    <3> HIDE DEF n
    <3> QED
      BY <2>4, <3>2, <3>3, <3>4, <3>5, <3>6
  <2> QED
    BY <2>1, <2>2, <2>3, <2>4
<1>14. CASE Stops
  <2>1. taken' \in 0 .. Len(args) /\ "null" # "mismatch" /\ pc # "unpacked"
    BY <1>1, <1>9, <1>14
  <2> QED
    BY <1>1, <1>9, <1>14, <2>1, UnpackStops
<1> DEFINE W == V \cup {item}
<1>15. out \in Writes(W) /\ lent \in Seq(W) /\ item \in W
  <2>1. Writes(V) \subseteq Writes(W)
    <3>1. [arg : Nat, value : V] \subseteq [arg : Nat, value : W]
      OBVIOUS
    <3> QED
      BY <3>1, SeqsGrow DEF Writes
  <2>2. Seq(V) \subseteq Seq(W)
    <3>1. V \subseteq W
      OBVIOUS
    <3> QED
      BY <3>1, SeqsGrow
  <2>3. item \in W
    OBVIOUS
  <2> HIDE DEF W
  <2> QED
    BY <1>8, <2>1, <2>2, <2>3
<1> HIDE DEF W
<1>16. ASSUME ~v, out' = Written(n)
       PROVE  out' \in Writes(W) /\ Lent(out', lent', args)
  <2> DEFINE x == [arg |-> n, value |-> item]
  <2>1. out' = IF item = None THEN out ELSE Append(out, x)
    BY <1>16 DEF Written
  <2>2. args[n].from # "O" /\ n \in Nat
    BY <1>11, <1>16, <1>12
  <2>3. x \in [arg : Nat, value : W]
    BY <1>15, <2>2
  <2>4. out' \in Writes(W)
    <3>1. Append(out, x) \in Writes(W)
      BY <1>15, <2>3 DEF Writes
    <3> HIDE DEF x
    <3> QED
      BY <1>15, <2>1, <3>1
  <2>5. Lent(out', lent', args)
    <3>1. CASE item = None
      BY <1>1, <1>9, <2>1, <3>1
    <3>2. CASE item # None
      <4>1. out' = Append(out, x)
        BY <2>1, <3>2
      <4> HIDE DEF n
      <4> QED
        BY <1>1, <1>9, <1>15, <2>2, <4>1, OtherWritten
    <3> QED
      BY <3>1, <3>2
  <2> QED
    BY <2>4, <2>5
<1>17. CASE ~Stops
  <2>1. Goes /\ Sane(fmt, scan') /\ scan'.tok = end /\ taken' = Len(list)
    <3>1. CASE v
      <4>1. Goes /\ taken' = taken /\ scan' = scan
        BY <1>13, <1>17, <3>1
      <4> QED
        BY <1>2, <1>3, <3>1, <4>1
    <3>2. CASE ~v /\ ~size
      <4>1. Goes /\ taken' = n /\ scan' = Looked
        BY <1>13, <1>17, <3>2
      <4>2. Len(list) = n
        BY <1>11, <3>2
      <4> QED
        BY <1>10, <3>2, <4>1, <4>2
    <3>3. CASE ~v /\ size
      <4>1. Goes /\ taken' = n + 1 /\ scan' = NextToken(scan)
        BY <1>13, <1>17, <3>3
      <4>2. Len(list) = n + 1
        BY <1>11, <3>3
      <4> QED
        BY <1>10, <3>3, <4>1, <4>2
    <3> QED
      BY <3>1, <3>2, <3>3
  <2>2. /\ out' \in Writes(W) /\ lent' \in Seq(W) /\ Lent(out', lent', args)
        /\ v => out' = << >> /\ lent' = << >>
    <3>1. CASE v
      <4>1. out' = out
        BY <1>13, <1>17, <3>1
      <4> QED
        BY <1>1, <1>9, <1>15, <3>1, <4>1
    <3>2. CASE ~v
      <4>1. out' = Written(n)
        BY <1>13, <1>17, <3>2
      <4> QED
        BY <1>1, <1>15, <1>16, <3>2, <4>1
    <3> QED
      BY <3>1, <3>2
  <2> HIDE DEF r, list, end, Stops
  <2>3. pc' = "matched" /\ err' = err /\ buffers' = buffers /\ levels' = levels /\ result' = result
    BY <2>1
  <2>4. UnpackAt(fmt, r, pc', taken', scan'.tok, OpensOf(levels'), Last(levels').strict)
    BY <1>5, <1>6, <2>1, <2>3 DEF UnpackAt
  <2>5. pc' \in Reads /\ pc' # "level" /\ pc # "unpacked"
    BY <1>1, <2>3 DEF Reads
  <2>6. Sane(fmt, scan') /\ levels' \in Seq(LevelsOf(V)) /\ buffers' = Cardinality(Sets(levels'))
    BY <1>8, <1>9, <2>1, <2>3
  <2> QED
    BY <1>1, <1>2, <1>4, <2>2, <2>3, <2>4, <2>5, <2>6, UnpackGoesOn
<1> HIDE DEF Stops
<1> QED
  BY <1>14, <1>17

LEMMA UnpacksStays ==
  ASSUME Unpacks, UnpackNext
  PROVE  Unpacks'
<1>1. ASSUME UnpackCall \/ UnpackCallStarved \/ UnpackFinish PROVE Unpacks'
  BY <1>1, UnpackCallStays, UnpackStarvedStays, UnpackFinishStays
<1>2. ASSUME NoMatch \/ OpenStarved \/ BrokenLevel PROVE Unpacks'
  BY <1>2, UnpackErrorsStay
<1>3. ASSUME NullMatch \/ TargetMatch \/ StringMatch \/ OpenMatch PROVE Unpacks'
  BY <1>3, NullMatchStays, TargetMatchStays, StringMatchStays, OpenMatchStays
<1>4. ASSUME StrictMark \/ MatchMember \/ MatchItem \/ Matched \/ CloseMatch PROVE Unpacks'
  BY <1>4, StrictMarkStays, MatchMemberStays, MatchItemStays, MatchedStays, CloseMatchStays
<1> QED
  BY <1>1, <1>2, <1>3, <1>4, Zenon DEF UnpackNext

LEMMA UnpackArgsAreFit ==
  ASSUME NEW kinds \in Seq(Entries), NEW a \in ArgsOf(kinds, OddToUnpack)
  PROVE  /\ Len(a) = Len(kinds)
         /\ \A k \in 1 .. Len(kinds) : a[k].kind = kinds[k].kind /\ a[k].from = kinds[k].from
<1> DEFINE n == Len(kinds)
           Odds(O) == {v \in [O -> UNION {OddToUnpack(kinds[k].kind) : k \in O}] :
                         \A k \in O : v[k] \in OddToUnpack(kinds[k].kind)}
           With(v) == [k \in DOMAIN kinds |->
                         [kind |-> kinds[k].kind, from |-> kinds[k].from,
                          value |-> IF k \in DOMAIN v THEN v[k] ELSE Plain(kinds[k].kind, k)]]
<1>1. n \in Nat /\ DOMAIN kinds = 1 .. n
  OBVIOUS
<1>2. PICK O \in SUBSET DOMAIN kinds : a \in {With(v) : v \in Odds(O)}
  BY DEF ArgsOf
<1>3. PICK v \in Odds(O) : a = With(v)
  BY <1>2
<1> HIDE DEF Odds
<1> HIDE DEF n
<1>4. Len(a) = n
  <2> DEFINE S == {a[k] : k \in 1 .. n}
  <2>1. a \in [1 .. n -> S]
    <3>1. a = [k \in 1 .. n |-> a[k]]
      BY <1>1, <1>3
    <3> HIDE DEF S
    <3> QED
      BY <3>1 DEF S
  <2> HIDE DEF S
  <2>2. a \in Seq(S)
    BY <1>1, <2>1
  <2>3. DOMAIN a = 1 .. n
    BY <1>1, <1>3
  <2> QED
    BY <1>1, <2>2, <2>3
<1>5. \A k \in 1 .. n : a[k].kind = kinds[k].kind /\ a[k].from = kinds[k].from
  BY <1>1, <1>3
<1> QED
  BY <1>4, <1>5 DEF n

\* Until json_unpack is called there is nothing that it has written or taken.
UnpackRests == levels = << >> /\ out = << >> /\ lent = << >> /\ result = "none"

UnpackInv ==
  /\ pc \in PackPhases \cup UnpackPhases
  /\ pc \in PackPhases => UnpackRests
  /\ pc \in UnpackPhases => Unpacks

LEMMA UnpackBegins ==
  ASSUME Packs, UnpackRests, ThenUnpack
  PROVE  Unpacks'
<1>1. /\ pc = "packed" /\ pc' = "unpack" /\ fmt' \in UnpackFormats /\ flags' \in FlagSets
      /\ args' \in ArgsOf(UnpackKinds(fmt', flags'.validate), OddToUnpack)
      /\ taken' = 0 /\ scan' = ScanStart /\ err' = NoError
      /\ buffers' = buffers /\ levels' = levels /\ out' = out /\ lent' = lent /\ result' = result
  BY DEF ThenUnpack
<1>2. flags' \in [strict : BOOLEAN, validate : BOOLEAN] /\ flags'.validate \in BOOLEAN
  BY <1>1, FlagsAssumption
<1>3. fmt' \in Formats \/ fmt' = << >>
  BY <1>1, FormatsAssumption DEF Formats
<1>4. UnpackKinds(fmt', flags'.validate) \in Seq(Entries)
  <2>1. CASE fmt' \in Formats
    <3> DEFINE f == fmt'
               v == flags'.validate
               m == UnpackRun(f, v)[Steps(f)]
    <3>1. Steps(f) \in 0 .. Steps(f) /\ UnpackKinds(f, v) = m.list
      BY <1>2, <2>1, UnpackRunIsRun
    <3>2. ShimOK(f, m)
      BY <1>2, <2>1, <3>1, UnpackRunIsOK
    <3> HIDE DEF m
    <3> QED
      BY <3>1, <3>2 DEF ShimOK
  <2>2. CASE fmt' = << >>
    BY <2>2 DEF UnpackKinds
  <2> QED
    BY <1>3, <2>1, <2>2
<1>5. UnpackArgs'
  <2> DEFINE kinds == UnpackKinds(fmt', flags'.validate)
  <2>1. /\ Len(args') = Len(kinds) /\ Len(kinds) \in Nat
        /\ \A k \in 1 .. Len(kinds) : args'[k].kind = kinds[k].kind /\ args'[k].from = kinds[k].from
    BY <1>1, <1>4, UnpackArgsAreFit
  <2> QED
    BY <1>1, <1>2, <1>3, <2>1 DEF UnpackArgs
<1>6. UnpackTyped'
  <2>1. levels' \in Seq(LevelsOf({})) /\ out' \in Writes({}) /\ lent' \in Seq({})
    BY <1>1 DEF UnpackRests, Writes
  <2> QED
    BY <2>1 DEF UnpackTyped
<1>7. UnpackPhased' /\ UnpackInStep'
  BY <1>1 DEF UnpackPhased, UnpackInStep, UnpackPhases, Reads, UnpackRests
<1>8. Taking'
  BY <1>1 DEF Taking, UnpackRests, NoError
<1>9. Lending'
  <2>1. Lent(out', lent', args')
    BY <1>1, NothingLent DEF UnpackRests
  <2>2. buffers = 0
    <3>1. stack = << >>
      BY <1>1 DEF Packs, Control, Phased
    <3>2. Cardinality(Owners(stack)) = 0
      <4>1. Owners(stack) = {}
        BY <3>1 DEF Owners
      <4> QED
        BY <4>1, FS_EmptySet
    <3> QED
      BY <1>1, <3>2 DEF Packs, BuffersFit, Joining
  <2>3. Cardinality(Sets(levels')) = 0
    <3>1. Sets(levels') = {}
      BY <1>1 DEF UnpackRests, Sets
    <3> QED
      BY <3>1, FS_EmptySet
  <2> QED
    BY <1>1, <2>1, <2>2, <2>3 DEF Lending, UnpackRests
<1> QED
  BY <1>5, <1>6, <1>7, <1>8, <1>9 DEF Unpacks

LEMMA UnpackInvHolds ==
  ASSUME PackInv, UnpackInv, [Next]_vars
  PROVE  UnpackInv'
<1>1. CASE Packing
  <2>1. PackNext /\ unpackVars' = unpackVars
    BY <1>1 DEF Packing
  <2>2. pc \in PackPhases
    BY <2>1, PackNeedsItsPhases
  <2>3. pc' \in PackPhases
    <3>1. Packs'
      BY <2>1, <2>2, PacksStays DEF PackInv
    <3> QED
      BY <3>1 DEF Packs, Control, Phased
  <2>4. UnpackRests'
    BY <2>1, <2>2 DEF UnpackInv, UnpackRests, unpackVars
  <2> QED
    BY <2>3, <2>4, NotBoth DEF UnpackInv
<1>2. CASE ThenUnpack
  <2>1. pc = "packed" /\ pc' = "unpack"
    BY <1>2 DEF ThenUnpack
  <2>2. pc \in PackPhases /\ pc' \in UnpackPhases
    BY <2>1 DEF PackPhases, UnpackPhases
  <2>3. Unpacks'
    BY <1>2, <2>2, UnpackBegins DEF PackInv, UnpackInv
  <2> QED
    BY <2>2, <2>3, NotBoth DEF UnpackInv
<1>3. CASE Unpacking
  <2>1. UnpackNext
    BY <1>3 DEF Unpacking
  <2>2. pc \in UnpackPhases /\ pc' \in UnpackPhases
    BY <2>1, UnpackStaysUnpacking
  <2>3. Unpacks'
    BY <2>1, <2>2, UnpacksStays DEF UnpackInv
  <2> QED
    BY <2>2, <2>3, NotBoth DEF UnpackInv
<1>4. CASE UNCHANGED vars
  <2>0. /\ pc' = pc /\ fmt' = fmt /\ args' = args /\ taken' = taken /\ scan' = scan /\ err' = err
        /\ buffers' = buffers
        /\ flags' = flags /\ levels' = levels /\ out' = out /\ lent' = lent /\ result' = result
    BY <1>4, Zenon DEF vars, formatVars, unpackVars
  <2>1. UnpackRests => UnpackRests'
    BY <2>0, Zenon DEF UnpackRests
  <2>2. Unpacks => Unpacks'
    <3>1. UnpackArgs => UnpackArgs'
      BY <2>0, Zenon DEF UnpackArgs
    <3>2. (UnpackTyped => UnpackTyped') /\ (UnpackPhased => UnpackPhased')
      BY <2>0, Zenon DEF UnpackTyped, UnpackPhased
    <3>3. UnpackInStep => UnpackInStep'
      BY <2>0, Zenon DEF UnpackInStep
    <3>4. (Taking => Taking') /\ (Lending => Lending')
      BY <2>0, Zenon DEF Taking, Lending
    <3> QED
      BY <3>1, <3>2, <3>3, <3>4 DEF Unpacks
  <2> QED
    BY <2>0, <2>1, <2>2, Zenon DEF UnpackInv
<1> QED
  BY <1>1, <1>2, <1>3, <1>4 DEF Next

LEMMA InvBegins ==
  Init => PackInv /\ UnpackInv
<1> SUFFICES ASSUME Init PROVE PackInv /\ UnpackInv
  OBVIOUS
<1>1. PackInv
  BY PackBegins DEF PackInv
<1>2. pc = "call" /\ levels = << >> /\ out = << >> /\ lent = << >> /\ result = "none"
  BY DEF Init
<1>3. pc \in PackPhases
  BY <1>2 DEF PackPhases
<1>4. UnpackInv
  BY <1>2, <1>3, NotBoth DEF UnpackInv, UnpackRests
<1> QED
  BY <1>1, <1>4

\* Whatever the format, the arguments, the value and the allocations that fail, the
\* program that calls json_unpack can release exactly the references that an 'O' has
\* taken: each was written to the target of that 'O', in the order they were taken,
\* and none without being written, when the call fails too.
THEOREM LendsWhatIsWritten == Spec => []LentIsWritten
<1>1. Init => PackInv /\ UnpackInv
  BY InvBegins
<1>2. PackInv /\ UnpackInv /\ [Next]_vars => PackInv' /\ UnpackInv'
  BY PackInvHolds, UnpackInvHolds
<1>3. PackInv /\ UnpackInv => LentIsWritten
  <2> SUFFICES ASSUME UnpackInv PROVE LentIsWritten
    OBVIOUS
  <2>1. Lent(out, lent, args)
    BY NothingLent DEF UnpackInv, UnpackRests, Unpacks, Lending
  <2>2. pc \in UnpackPhases => buffers = SetsOfKeys
    BY SetsOfKeysAre DEF UnpackInv
  <2>3. Kept = KeptOf(out, args)
    BY DEF Kept, KeptOf
  <2> QED
    BY <2>1, <2>2, <2>3 DEF LentIsWritten, Lent, UnpackPhases
<1> QED
  BY <1>1, <1>2, <1>3, PTL DEF Spec

\* While json_unpack runs, and when it has returned, no argument was missing or of
\* another kind than the one that it took it for, whatever the format, and if the call
\* has gone well it has taken all of them.
UnpackTakesAll == pc \in UnpackPhases => Taking

THEOREM UnpackTakesTheRight == Spec => []UnpackTakesAll
<1>1. Init => PackInv /\ UnpackInv
  BY InvBegins
<1>2. PackInv /\ UnpackInv /\ [Next]_vars => PackInv' /\ UnpackInv'
  BY PackInvHolds, UnpackInvHolds
<1>3. PackInv /\ UnpackInv => UnpackTakesAll
  BY DEF UnpackInv, Unpacks, UnpackTakesAll
<1> QED
  BY <1>1, <1>2, <1>3, PTL DEF Spec
=============================================================================
