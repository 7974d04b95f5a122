----------------------------- MODULE PackUnpack -----------------------------
(***************************************************************************)
(* A program that packs a value and may then unpack what it has got: every *)
(* format of a set, with every choice of arguments that the format asks    *)
(* for, of which a bounded number is out of the ordinary.                  *)
(***************************************************************************)
EXTENDS Pack, Unpack

CONSTANTS
  MaxOdd,         \* how many arguments are out of the ordinary
  PackFormats,    \* the formats that are packed
  RootFormats,    \* those of them that go on to be unpacked
  UnpackFormats,  \* the formats for that
  FlagSets        \* and the flags: [strict, validate]

\* A format ends with a NUL and has none in it.
ASSUME FormatsAssumption ==
  \A f \in PackFormats \cup UnpackFormats :
    f \in Seq(STRING) /\ \A i \in DOMAIN f : f[i] # "end"

\* The two bits of the flags that json_unpack looks at.
ASSUME FlagsAssumption == FlagSets \subseteq [strict : BOOLEAN, validate : BOOLEAN]

vars == <<formatVars, packVars, unpackVars>>

\* The ordinary value of the k-th argument, and the others.
Plain(kind, k) ==
  CASE kind \in {"CSTR", "KEY"} -> <<"a">>
    [] kind = "DOUBLE"          -> <<"finite">>
    [] kind = "JSON"            -> Given(k)
    [] OTHER                    -> <<"any">>

OddText == {<<"b">>, <<"lead">>, <<"trail">>, NoText}
OddToPack(kind) ==
  CASE kind = "CSTR"   -> OddText
    [] kind = "DOUBLE" -> {<<"nan">>}
    [] kind = "JSON"   -> {None}
    [] OTHER           -> {}
OddToUnpack(kind) ==
  CASE kind = "KEY"               -> {<<"b">>, NoText}
    [] kind \in {"STRING", "SIZE"} -> {NoText}
    [] OTHER                      -> {}

\* The lists of arguments of these kinds: those at the places O are out of the ordinary.
ArgsOf(kinds, Odd(_)) ==
  LET Places == {O \in SUBSET DOMAIN kinds : Cardinality(O) <= MaxOdd}
      Odds(O) == {v \in [O -> UNION {Odd(kinds[k].kind) : k \in O}] :
                    \A k \in O : v[k] \in Odd(kinds[k].kind)}
      With(v) == [k \in DOMAIN kinds |->
                    [kind |-> kinds[k].kind, from |-> kinds[k].from,
                     value |-> IF k \in DOMAIN v THEN v[k] ELSE Plain(kinds[k].kind, k)]]
  IN UNION {{With(v) : v \in Odds(O)} : O \in Places}

Init ==
  /\ pc = "call"
  /\ fmt \in PackFormats
  /\ \E kinds \in {PackKinds(fmt)} : args \in ArgsOf(kinds, OddToPack)
  /\ taken = 0
  /\ scan = ScanStart
  /\ err = NoError
  /\ heap = << >>
  /\ live = {}
  /\ buffers = 0
  /\ starved = 0
  /\ stack = << >>
  /\ str = NoString
  /\ ret = None
  /\ failed = FALSE
  /\ strayed = FALSE
  /\ held = [k \in DOMAIN args |-> 1]
  /\ root = None
  /\ flags = [strict |-> FALSE, validate |-> FALSE]
  /\ item = None
  /\ levels = << >>
  /\ out = << >>
  /\ lent = << >>
  /\ result = "none"

Packing == PackNext /\ UNCHANGED unpackVars
Unpacking == UnpackNext /\ UNCHANGED packVars

\* What was packed, or NULL, is given to json_unpack.  Memory runs out in one of the
\* two calls at most, and one NULL is enough.
ThenUnpack ==
  /\ pc = "packed"
  /\ fmt \in RootFormats
  /\ starved = 0
  /\ ret # None \/ Len(args) = 1
  /\ pc' = "unpack"
  /\ root' = ret
  /\ fmt' \in UnpackFormats
  /\ flags' \in FlagSets
  /\ \E kinds \in {UnpackKinds(fmt', flags'.validate)} : args' \in ArgsOf(kinds, OddToUnpack)
  /\ taken' = 0
  /\ scan' = ScanStart
  /\ err' = NoError
  /\ UNCHANGED <<heap, live, buffers, starved, item, levels, out, lent, result>>
  /\ UNCHANGED packVars

Next == Packing \/ ThenUnpack \/ Unpacking

Spec == Init /\ [][Next]_vars /\ WF_vars(Packing) /\ WF_vars(Unpacking)
=============================================================================
