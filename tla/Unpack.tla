------------------------------- MODULE Unpack -------------------------------
(***************************************************************************)
(* json_unpack: a value checked against a format, and its parts written to *)
(* the targets that the program has passed.                                *)
(*                                                                         *)
(* The calls of unpack, unpack_object and unpack_array are a stack of      *)
(* levels.  The first error ends them all.  A key marked '?' that is not   *)
(* there is unpacked as NULL: the format below it is walked through and    *)
(* its targets are passed over.                                            *)
(***************************************************************************)
EXTENDS Format

VARIABLES
  root,    \* the value that is unpacked
  flags,   \* [strict, validate]
  item,    \* the argument of the call of unpack in progress
  levels,  \* [of, value, strict, index, key, seen]
  out,     \* what has been written: [arg, value]
  lent,    \* the references that 'O' has taken
  result

unpackVars == <<root, flags, item, levels, out, lent, result>>

-----------------------------------------------------------------------------
(* The shim's grammar                                                      *)

TargetKind ==
  [c \in {"s", "i", "I", "b", "f", "F", "o", "O"} |->
     CASE c = "s"           -> "STRING"
       [] c \in {"i", "b"}  -> "INT"
       [] c = "I"           -> "JSON_INT"
       [] c \in {"f", "F"}  -> "DOUBLE"
       [] c \in {"o", "O"}  -> "JSON"]

\* Mutant: the target of a length is fetched as that of an integer.
ShimTargetInt(f, m, validate) ==
  LET c == CharOf(f, m.scan.tok)
      target == Emitted(m, TargetKind[c], c)
      s == Advanced(f, m.scan)
      length == CharOf(f, s.tok) = "%"
  IN IF validate THEN m
     ELSE IF c # "s" THEN target
     ELSE IF length THEN Emitted([target EXCEPT !.scan = s], "INT", "%")
     ELSE [target EXCEPT !.scan = PushedBack(s)]

\* marshal_unpack_value
ShimTarget(f, m, validate) ==
  LET c == CharOf(f, m.scan.tok)
      target == Emitted(m, TargetKind[c], c)
      s == Advanced(f, m.scan)
      length == CharOf(f, s.tok) = "%"
  IN IF validate THEN m
     ELSE IF c # "s" THEN target
     ELSE IF length THEN Emitted([target EXCEPT !.scan = s], "SIZE", "%")
     ELSE [target EXCEPT !.scan = PushedBack(s)]

\* marshal_unpack_object, marshal_unpack_array
ShimUnpackItems(f, m) ==
  LET c == CharOf(f, m.scan.tok)
      key == Emitted(m, "KEY", "s")
      s == Advanced(f, m.scan)
  IN IF c = Closes(Last(m.open)) THEN ShimClose(f, m)
     ELSE IF m.strict \/ c = "end" THEN ShimStop(m)
     ELSE IF c \in {"!", "*"} THEN [m EXCEPT !.strict = TRUE, !.scan = s]
     ELSE IF Last(m.open) = "[" THEN [m EXCEPT !.at = "value"]
     ELSE IF c = "s" THEN [key EXCEPT !.at = "value",
                             !.scan = IF CharOf(f, s.tok) = "?" THEN Advanced(f, s) ELSE s]
     ELSE ShimStop(m)

UnpackShimStep(validate, f, m) ==
  LET c == CharOf(f, m.scan.tok)
  IN CASE m.at = "value" /\ c \in {"{", "["} -> ShimOpen(f, m)
       [] m.at = "value" /\ c = "n" -> ShimValueDone(f, m)
       [] m.at = "value" /\ c \in DOMAIN TargetKind ->
            ShimValueDone(f, ShimTarget(f, m, validate))
       [] m.at = "value" /\ c \notin {"{", "[", "n"} \cup DOMAIN TargetKind -> ShimStop(m)
       [] m.at = "items" -> ShimUnpackItems(f, m)
       [] OTHER -> m

UnpackKinds(f, validate) ==
  IF f = << >> THEN << >> ELSE Listed(LAMBDA g, m : UnpackShimStep(validate, g, m), f)

-----------------------------------------------------------------------------
(* What is unpacked                                                        *)

TypeOf(x) ==
  CASE x[1] = "node"  -> heap[x[2]].of
    [] x[1] = "given" -> "real"
    [] x = Null       -> "null"
    [] x = True       -> "boolean"

Types == {"{", "[", "string", "integer", "real", "boolean", "null"}

\* The types that a character of a format lets pass.
Lets ==
  [c \in {"{", "[", "n"} \cup DOMAIN TargetKind |->
     CASE c \in {"{", "["} -> {c}
       [] c = "n"          -> {"null"}
       [] c = "s"          -> {"string"}
       [] c \in {"i", "I"} -> {"integer"}
       [] c = "b"          -> {"boolean"}
       [] c = "f"          -> {"real"}
       [] c = "F"          -> {"real", "integer"}
       [] c \in {"o", "O"} -> Types]

HeldBy(x) == heap[x[2]].kids
Keys(x) == {k.key : k \in ToSet(HeldBy(x))}
Member(x, key) ==
  IF key \in Keys(x) THEN (CHOOSE k \in ToSet(HeldBy(x)) : k.key = key).value ELSE None

Level == Last(levels)

-----------------------------------------------------------------------------
(* The call and its end                                                    *)

\* return -1, through all of the levels, each of which releases its set of keys, after
\* the error that the buffer holds by then
FailsAfter(first, code, sets) ==
  /\ err' = Reported(first, code)
  /\ pc' = "unpacked"
  /\ result' = "failed"
  /\ levels' = << >>
  /\ buffers' = buffers - sets

Fails(code, sets) == FailsAfter(err, code, sets)

SetsOfKeys == Cardinality({i \in DOMAIN levels : levels[i].of = "{"})

\* jsonp_unpack_marshaled, and json_vunpack_ex before it
UnpackCall ==
  /\ pc = "unpack"
  /\ IF root = None \/ fmt = << >>
     THEN /\ Fails(IF root = None THEN "null" ELSE "argument", 0)
          /\ UNCHANGED <<scan, item>>
     ELSE /\ scan' = Advanced(fmt, ScanStart)
          /\ item' = root
          /\ pc' = "match"
          /\ UNCHANGED <<err, result, levels, buffers>>
  /\ UNCHANGED <<fmt, args, taken, heap, live, starved, root, flags, out, lent>>

UnpackCallStarved ==
  /\ pc = "unpack"
  /\ root # None
  /\ Len(args) > 0
  /\ Starve
  /\ Fails("memory", 0)
  /\ UNCHANGED <<fmt, args, taken, scan, heap, live, root, flags, item, out, lent>>

UnpackFinish ==
  /\ pc = "matched"
  /\ levels = << >>
  /\ scan' = NextToken(scan)
  /\ IF TokenOf(NextToken(scan)) = "end"
     THEN /\ pc' = "unpacked"
          /\ result' = "ok"
          /\ UNCHANGED <<err, levels, buffers>>
     ELSE Fails("format", 0)
  /\ UNCHANGED <<fmt, args, taken, heap, live, starved, root, flags, item, out, lent>>

-----------------------------------------------------------------------------
(* unpack                                                                  *)

LetsPass == item # None => TypeOf(item) \in Lets[Token]

\* The character is none, or does not let the value pass.
NoMatch ==
  /\ pc = "match"
  /\ \/ Token \notin DOMAIN Lets /\ Fails("format", SetsOfKeys)
     \/ Token \in DOMAIN Lets /\ ~LetsPass /\ Fails("type", SetsOfKeys)
  /\ UNCHANGED <<fmt, args, taken, scan, heap, live, starved, root, flags, item, out, lent>>

\* *target = ...
Written(at) == IF item = None THEN out ELSE Append(out, [arg |-> at, value |-> item])

NullMatch ==
  /\ pc = "match"
  /\ Token = "n"
  /\ LetsPass
  /\ pc' = "matched"
  /\ UNCHANGED <<fmt, args, taken, scan, err, heap, live, buffers, starved>>
  /\ UNCHANGED unpackVars

\* Mutant: a reference is taken in a call that only validates, too.
LendsAlways == Token = "O" /\ item # None

Lends == Token = "O" /\ item # None /\ ~flags.validate

\* unpack_integer, unpack_json_int, unpack_boolean, unpack_real, unpack_number,
\* unpack_object_ref, which takes the reference before it looks for its target
TargetMatch ==
  /\ pc = "match"
  /\ Token \in DOMAIN TargetKind \ {"s"}
  /\ LetsPass
  /\ pc' = "matched"
  /\ lent' = IF Lends THEN Append(lent, item) ELSE lent
  /\ IF flags.validate THEN UNCHANGED <<taken, err, out>>
     ELSE /\ TakeArg
          /\ err' = Mismatch(TargetKind[Token])
          /\ out' = Written(IF Fits(TargetKind[Token]) THEN taken + 1 ELSE 0)
  /\ UNCHANGED <<fmt, args, scan, heap, live, buffers, starved, root, flags, item, levels, result>>

\* The target of that kind is there and is no NULL.
FitsAt(kind, at) == at <= Len(args) /\ args[at].kind = kind
HasTarget(kind, at) == FitsAt(kind, at) /\ args[at].value # NoText

\* The argument is found to be missing or of another kind before it is found to be NULL.
FailsAtTarget(kind, at) ==
  FailsAfter(IF FitsAt(kind, at) THEN err ELSE Reported(err, "mismatch"), "null", SetsOfKeys)

\* unpack_string
StringMatch ==
  /\ pc = "match"
  /\ Token = "s"
  /\ LetsPass
  /\ IF flags.validate
     THEN pc' = "matched" /\ UNCHANGED <<taken, scan, err, buffers, levels, out, result>>
     ELSE IF ~HasTarget("STRING", taken + 1)
     THEN /\ TakeArg
          /\ FailsAtTarget("STRING", taken + 1)
          /\ UNCHANGED <<scan, out>>
     ELSE IF LookAhead # "%"
     THEN /\ TakeArg
          /\ scan' = Looked
          /\ out' = Written(taken + 1)
          /\ pc' = "matched"
          /\ UNCHANGED <<err, buffers, levels, result>>
     ELSE /\ taken' = IF taken + 2 <= Len(args) THEN taken + 2 ELSE taken + 1
          /\ scan' = NextToken(scan)
          /\ IF HasTarget("SIZE", taken + 2)
             THEN /\ out' = Written(taken + 1)
                  /\ pc' = "matched"
                  /\ UNCHANGED <<err, buffers, levels, result>>
             ELSE FailsAtTarget("SIZE", taken + 2) /\ UNCHANGED out
  /\ UNCHANGED <<fmt, args, heap, live, starved, root, flags, item, lent>>

-----------------------------------------------------------------------------
(* unpack_object and unpack_array                                          *)

OpenMatch ==
  /\ pc = "match"
  /\ Token \in {"{", "["}
  /\ LetsPass
  /\ levels' = Append(levels, [of |-> Token, value |-> item, strict |-> "no",
                              index |-> 1, key |-> NoKey, seen |-> {}])
  /\ buffers' = buffers + IF Token = "{" THEN 1 ELSE 0
  /\ scan' = NextToken(scan)
  /\ pc' = "level"
  /\ UNCHANGED <<fmt, args, taken, err, heap, live, starved, root, flags, item, out, lent, result>>

\* The set of keys is made before the type of the value is looked at.
OpenStarved ==
  /\ pc = "match"
  /\ Token = "{"
  /\ Starve
  /\ Fails("memory", SetsOfKeys)
  /\ UNCHANGED <<fmt, args, taken, scan, heap, live, root, flags, item, out, lent>>

InLevel == pc = "level" /\ Token # Closes(Level.of)

\* '!' and '*'
StrictMark ==
  /\ InLevel
  /\ Level.strict = "no"
  /\ Token \in {"!", "*"}
  /\ levels' = [levels EXCEPT ![Len(levels)].strict = Token]
  /\ scan' = NextToken(scan)
  /\ UNCHANGED <<pc, fmt, args, taken, err, heap, live, buffers, starved, root, flags, item, out, lent, result>>

Starters == [of \in {"{", "["} |-> IF of = "{" THEN {"s"} ELSE DOMAIN Lets]

BrokenLevel ==
  /\ InLevel
  /\ Level.strict # "no" \/ Token \notin Starters[Level.of] \cup {"!", "*"}
  /\ Fails("format", SetsOfKeys)
  /\ UNCHANGED <<fmt, args, taken, scan, heap, live, starved, root, flags, item, out, lent>>

\* A key, its mark and the value that is there.
MatchMember ==
  /\ InLevel
  /\ Level.of = "{"
  /\ Level.strict = "no"
  /\ Token = "s"
  /\ TakeArg
  /\ LET key == IF Fits("KEY") THEN args[taken + 1].value ELSE NoText
         s == NextToken(scan)
         optional == TokenOf(s) = "?"
         value == IF Level.value = None THEN None ELSE Member(Level.value, key)
     IN IF key = NoText
        THEN FailsAfter(Mismatch("KEY"), "null", SetsOfKeys) /\ UNCHANGED <<scan, item>>
        ELSE /\ scan' = IF optional THEN NextToken(s) ELSE s
             /\ IF Level.value # None /\ value = None /\ ~optional
                THEN Fails("not found", SetsOfKeys) /\ UNCHANGED item
                ELSE /\ item' = value
                     /\ levels' = [levels EXCEPT ![Len(levels)].key = key]
                     /\ pc' = "match"
                     /\ UNCHANGED <<err, buffers, result>>
  /\ UNCHANGED <<fmt, args, heap, live, starved, root, flags, out, lent>>

InRange == Level.index <= Len(HeldBy(Level.value))

MatchItem ==
  /\ InLevel
  /\ Level.of = "["
  /\ Level.strict = "no"
  /\ Token \in Starters["["]
  /\ IF Level.value # None /\ ~InRange
     THEN Fails("index", SetsOfKeys) /\ UNCHANGED item
     ELSE /\ item' = IF Level.value = None THEN None ELSE HeldBy(Level.value)[Level.index].value
          /\ pc' = "match"
          /\ UNCHANGED <<err, buffers, levels, result>>
  /\ UNCHANGED <<fmt, args, taken, scan, heap, live, starved, root, flags, out, lent>>

\* The value has passed.  Whether its key could be remembered is not looked at.
Matched ==
  /\ pc = "matched"
  /\ levels # << >>
  /\ scan' = NextToken(scan)
  /\ pc' = "level"
  /\ \/ /\ levels' = [levels EXCEPT ![Len(levels)].index = @ + 1,
                        ![Len(levels)].seen = IF Level.of = "{" THEN @ \cup {Level.key} ELSE @]
        /\ UNCHANGED starved
     \/ /\ Level.of = "{"
        /\ Level.key \notin Level.seen
        /\ Starve
        /\ levels' = [levels EXCEPT ![Len(levels)].index = @ + 1]
  /\ UNCHANGED <<fmt, args, taken, err, heap, live, buffers, root, flags, item, out, lent, result>>

\* Mutant: '*' does not lift the flag.
ChecksStar == Level.strict = "!" \/ flags.strict

Checks == Level.strict = "!" \/ (Level.strict = "no" /\ flags.strict)

\* Nothing in the value was passed over.
AllUnpacked ==
  IF Level.of = "{" THEN Keys(Level.value) \subseteq Level.seen
  ELSE Level.index = Len(HeldBy(Level.value)) + 1

CloseMatch ==
  /\ pc = "level"
  /\ Token = Closes(Level.of)
  /\ IF Level.value # None /\ Checks /\ ~AllUnpacked
     THEN Fails("left over", SetsOfKeys)
     ELSE /\ levels' = Front(levels)
          /\ buffers' = buffers - IF Level.of = "{" THEN 1 ELSE 0
          /\ pc' = "matched"
          /\ UNCHANGED <<err, result>>
  /\ UNCHANGED <<fmt, args, taken, scan, heap, live, starved, root, flags, item, out, lent>>

UnpackNext ==
  \/ UnpackCall \/ UnpackCallStarved \/ UnpackFinish
  \/ NoMatch \/ NullMatch \/ TargetMatch \/ StringMatch
  \/ OpenMatch \/ OpenStarved \/ StrictMark \/ BrokenLevel
  \/ MatchMember \/ MatchItem \/ Matched \/ CloseMatch

-----------------------------------------------------------------------------
(* Properties                                                              *)

\* The writes to the targets of 'O'.
Kept == {k \in DOMAIN out : out[k].arg # 0 /\ args[out[k].arg].from = "O"}

\* The program can release exactly the references that 'O' has taken: each was
\* written to the target of an 'O', in the order they were taken, whether the call went
\* well or an error came after it, and none was taken where nothing is to be extracted.
\* The sets of keys are released on every way out.
LentIsWritten ==
  /\ Len(lent) = Cardinality(Kept)
  /\ \A k \in Kept : lent[Cardinality({j \in Kept : j <= k})] = out[k].value
  /\ pc \in {"unpack", "match", "matched", "level", "unpacked"} => buffers = SetsOfKeys
=============================================================================
