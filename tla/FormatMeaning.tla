---------------------------- MODULE FormatMeaning ---------------------------
(***************************************************************************)
(* What the documentation of json_pack and json_unpack says of a format:   *)
(* its grammar, the arguments it asks for, the value it builds and what it *)
(* takes from a value.  A format is parsed here by recursive descent, with *)
(* no push-back and no notes of errors to come back to.                    *)
(***************************************************************************)
EXTENDS Integers, Sequences, SequencesExt, FiniteSets

At(w, i) == IF i \in DOMAIN w THEN w[i] ELSE "end"

\* A format, or a part of one, and the place after it.
Part(of, mark, parts, kids) == [of |-> of, mark |-> mark, parts |-> parts, kids |-> kids]
Read(part, next) == [part |-> part, next |-> next, good |-> TRUE]
NoPart == [part |-> Part("none", "no", << >>, << >>), next |-> 0, good |-> FALSE]

Closing(c) == IF c = "{" THEN "}" ELSE "]"

-----------------------------------------------------------------------------
(* json_pack                                                               *)

RECURSIVE MoreParts(_, _, _), PackPart(_, _), PackParts(_, _, _, _)

\* The parts of a string, from the place after its 's' or '+'.
MoreParts(w, i, parts) ==
  LET length == IF At(w, i) \in {"#", "%"} THEN At(w, i) ELSE "no"
      j == IF length = "no" THEN i ELSE i + 1
      now == Append(parts, length)
  IN IF At(w, j) = "+" THEN MoreParts(w, j + 1, now)
     ELSE Read(Part("s", "no", now, << >>), j)

PackPart(w, i) ==
  LET c == At(w, i)
      mark == IF At(w, i + 1) \in {"?", "*"} THEN At(w, i + 1) ELSE "no"
      after == IF mark = "no" THEN i + 1 ELSE i + 2
  IN CASE c \in {"n", "b", "i", "I", "f"} -> Read(Part(c, "no", << >>, << >>), i + 1)
       [] c \in {"o", "O"} -> Read(Part(c, mark, << >>, << >>), after)
       [] c = "s" /\ mark = "no" -> MoreParts(w, i + 1, << >>)
       [] c = "s" /\ mark # "no" /\ At(w, after) \notin {"#", "%", "+"} ->
            Read(Part("s", mark, <<"no">>, << >>), after)
       [] c \in {"{", "["} -> PackParts(w, i + 1, c, << >>)
       [] OTHER -> NoPart

\* What a bracket holds, from a place in it.
PackParts(w, i, of, kids) ==
  LET key == IF of = "[" THEN Read(Part("none", "no", << >>, << >>), i)
             ELSE IF At(w, i) = "s" THEN MoreParts(w, i + 1, << >>) ELSE NoPart
      value == IF key.good THEN PackPart(w, key.next) ELSE NoPart
  IN IF At(w, i) = Closing(of) THEN Read(Part(of, "no", << >>, kids), i + 1)
     ELSE IF value.good
     THEN PackParts(w, value.next, of, Append(kids, [key |-> key.part, value |-> value.part]))
     ELSE NoPart

PackFormat(w) ==
  LET whole == PackPart(w, 1) IN IF whole.next = Len(w) + 1 THEN whole ELSE NoPart

\* A value as a tree.
Tree(of, text, kids) == [of |-> of, text |-> text, kids |-> kids]
Omitted == Tree("omitted", << >>, << >>)
NullTree == Tree("null", << >>, << >>)
GivenTree(k) == Tree("given", <<ToString(k)>>, << >>)

\* A meaning: the value, the number of the next argument and the first fault.
Means(value, next, fault) == [value |-> value, next |-> next, fault |-> fault]
First(f, g) == IF f = "none" THEN g ELSE f

Valid(text) ==
  \A i \in DOMAIN text :
    /\ text[i] = "lead" => At(text, i + 1) = "trail"
    /\ text[i] = "trail" => At(text, i - 1) = "lead"

\* The texts that a string takes, one for each of its parts.
PartArg(part, k, i) == k + i - 1 + Cardinality({j \in 1 .. i - 1 : part.parts[j] # "no"})
TextsOf(a, part, k) == [i \in DOMAIN part.parts |-> a[PartArg(part, k, i)].value]
AfterString(part, k) == PartArg(part, k, Len(part.parts) + 1)
TextFault(texts) ==
  IF <<"NULL">> \in ToSet(texts) THEN "null"
  ELSE IF Valid(FlattenSeq(texts)) THEN "none" ELSE "utf8"

RECURSIVE PackMeaning(_, _, _)
PackMeaning(a, part, k) ==
  LET texts == TextsOf(a, part, k)
      absent == a[k].value = (IF part.of = "s" THEN <<"NULL">> ELSE <<"none", 0>>)
      empty == CASE part.mark = "?" -> Means(NullTree, k + 1, "none")
                 [] part.mark = "*" -> Means(Omitted, k + 1, "none")
                 [] OTHER           -> Means(Omitted, k + 1, "null")
      Add(m, kid) ==
        LET keyTexts == TextsOf(a, kid.key, m.next)
            key == FlattenSeq(keyTexts)
            value == PackMeaning(a, kid.value, AfterString(kid.key, m.next))
            fault == First(m.fault, First(TextFault(keyTexts), value.fault))
            same == {i \in DOMAIN m.value : m.value[i].key = key}
            member == [key |-> key, value |-> value.value]
        IN Means(IF value.value = Omitted THEN m.value
                 ELSE IF part.of = "[" \/ same = {} THEN Append(m.value, member)
                 ELSE [i \in DOMAIN m.value |-> IF i \in same THEN member ELSE m.value[i]],
                 value.next, fault)
      held == FoldLeft(Add, Means(<< >>, k, "none"), part.kids)
  IN CASE part.of = "n" -> Means(NullTree, k, "none")
       [] part.of = "b" -> Means(Tree("boolean", << >>, << >>), k + 1, "none")
       [] part.of \in {"i", "I"} -> Means(Tree("integer", << >>, << >>), k + 1, "none")
       [] part.of = "f" -> Means(Tree("real", << >>, << >>), k + 1,
                                 IF a[k].value = <<"nan">> THEN "overflow" ELSE "none")
       [] part.of \in {"o", "O"} -> IF absent THEN empty ELSE Means(GivenTree(k), k + 1, "none")
       [] part.of = "s" /\ part.mark # "no" /\ absent -> empty
       [] part.of = "s" -> Means(Tree("string", FlattenSeq(texts), << >>), AfterString(part, k),
                                 TextFault(texts))
       [] part.of \in {"{", "["} -> Means(Tree(part.of, << >>, held.value), held.next, held.fault)

-----------------------------------------------------------------------------
(* json_unpack                                                             *)

RECURSIVE UnpackPart(_, _), UnpackParts(_, _, _, _)

UnpackPart(w, i) ==
  LET c == At(w, i)
      length == c = "s" /\ At(w, i + 1) = "%"
  IN CASE c \in {"n", "b", "i", "I", "f", "F", "o", "O"} -> Read(Part(c, "no", << >>, << >>), i + 1)
       [] c = "s" -> Read(Part(c, "no", IF length THEN <<"%">> ELSE << >>, << >>),
                          IF length THEN i + 2 ELSE i + 1)
       [] c \in {"{", "["} -> UnpackParts(w, i + 1, c, << >>)
       [] OTHER -> NoPart

\* The mark of a bracket is '!' or '*', that of a key is '?'.
UnpackParts(w, i, of, kids) ==
  LET c == At(w, i)
      optional == of = "{" /\ At(w, i + 1) = "?"
      value == UnpackPart(w, IF of = "[" THEN i ELSE IF optional THEN i + 2 ELSE i + 1)
  IN IF c = Closing(of) THEN Read(Part(of, "no", << >>, kids), i + 1)
     ELSE IF c \in {"!", "*"}
     THEN IF At(w, i + 1) = Closing(of) THEN Read(Part(of, c, << >>, kids), i + 2) ELSE NoPart
     ELSE IF value.good /\ (of = "[" \/ c = "s")
     THEN UnpackParts(w, value.next, of, Append(kids, [optional |-> optional, value |-> value.part]))
     ELSE NoPart

UnpackFormat(w) ==
  LET whole == UnpackPart(w, 1) IN IF whole.next = Len(w) + 1 THEN whole ELSE NoPart

\* The type that each character stands for.
TypesOf(c) ==
  CASE c \in {"i", "I"} -> {"integer"}
    [] c = "b" -> {"boolean"}
    [] c = "f" -> {"real", "given"}
    [] c = "F" -> {"real", "given", "integer"}
    [] c = "n" -> {"null"}
    [] c = "s" -> {"string"}
    [] c \in {"{", "["} -> {c}
    [] c \in {"o", "O"} -> {"{", "[", "string", "integer", "real", "given", "boolean", "null"}

\* What a format takes from a value, the number of the next argument, the first
\* fault and the keys that were asked for.  Nothing is taken from a value that is not
\* there, and nothing after the first fault.
Takes(out, next, fault) == [out |-> out, next |-> next, fault |-> fault, keys |-> {}]
NoValue == Tree("no value", << >>, << >>)

\* The targets of a part that is no bracket.
Targets(part, flags) ==
  IF flags.validate \/ part.of = "n" THEN 0 ELSE IF part.of = "s" THEN 1 + Len(part.parts) ELSE 1

RECURSIVE UnpackMeaning(_, _, _, _, _)
UnpackMeaning(a, part, x, k, flags) ==
  LET there == x # NoValue
      targets == Targets(part, flags)
      null == part.of = "s" /\ \E i \in k .. k + targets - 1 : a[i].value = <<"NULL">>
      Under(key) == LET s == {i \in DOMAIN x.kids : x.kids[i].key = key}
                    IN IF s = {} THEN NoValue ELSE x.kids[CHOOSE i \in s : TRUE].value
      Nth(i) == IF i \in DOMAIN x.kids THEN x.kids[i].value ELSE NoValue
      \* a member, whose key is passed, or the next item
      Add(m, i) ==
        LET keyed == part.of = "{"
            key == a[m.next].value
            value == IF ~there THEN NoValue ELSE IF keyed THEN Under(key) ELSE Nth(i)
            sub == UnpackMeaning(a, part.kids[i].value, value,
                                 IF keyed THEN m.next + 1 ELSE m.next, flags)
            fault == CASE keyed /\ key = <<"NULL">> -> "null"
                       [] there /\ value = NoValue /\ ~part.kids[i].optional ->
                            IF keyed THEN "not found" ELSE "index"
                       [] OTHER -> "none"
        IN IF m.fault # "none" THEN m
           ELSE IF fault # "none" THEN [m EXCEPT !.fault = fault]
           ELSE [sub EXCEPT !.out = m.out \o sub.out,
                            !.keys = m.keys \cup IF keyed THEN {key} ELSE {}]
      inside == FoldLeft(Add, Takes(<< >>, k, "none"), [i \in DOMAIN part.kids |-> i])
      all == part.mark = "!" \/ (part.mark = "no" /\ flags.strict)
      left == IF part.of = "{" THEN \E i \in DOMAIN x.kids : x.kids[i].key \notin inside.keys
              ELSE Len(x.kids) # Len(part.kids)
  IN CASE there /\ x.of \notin TypesOf(part.of) -> Takes(<< >>, k, "type")
       [] part.of \in {"{", "["} ->
            IF inside.fault = "none" /\ there /\ all /\ left
            THEN [inside EXCEPT !.fault = "left over"] ELSE inside
       [] OTHER ->
            IF null THEN Takes(<< >>, k, "null")
            ELSE Takes(IF there /\ targets > 0 THEN <<[arg |-> k, value |-> x]>> ELSE << >>,
                       k + targets, "none")
=============================================================================
