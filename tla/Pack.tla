-------------------------------- MODULE Pack --------------------------------
(***************************************************************************)
(* json_pack: a value built from a format and a list of arguments.         *)
(*                                                                         *)
(* The calls of pack, pack_object and pack_array are a stack of frames.    *)
(* An error does not end the call: the packer notes it and goes on through *)
(* the format, so that the arguments of 'o', whose references it was       *)
(* given, are read and released.  Only the end of the format, and a key    *)
(* that is not an 's', end a level at once.  Allocations may fail.         *)
(*                                                                         *)
(* A text is a sequence of bytes, a 'lead' byte of a character needs a     *)
(* 'trail' byte after it.  The lengths of '#' and '%' are those of the     *)
(* texts they come with.                                                   *)
(***************************************************************************)
EXTENDS Format

VARIABLES
  stack,    \* the containers begun: [of, node, key, own, opt]
  str,      \* the string that is being read: [use, mark, text]
  ret,      \* what the last call of pack has returned
  failed,   \* has_error
  strayed,  \* whether part of the format was not gone through for want of memory
  held      \* the references there are to the k-th argument

packVars == <<stack, str, ret, failed, strayed, held>>

NoString == [use |-> "none", mark |-> "no", text |-> << >>]
String(use, mark) == [use |-> use, mark |-> mark, text |-> << >>]

\* utf::validate_ptr
IsUtf8(text) ==
  \A i \in DOMAIN text :
    /\ text[i] = "lead" => i < Len(text) /\ text[i + 1] = "trail"
    /\ text[i] = "trail" => i > 1 /\ text[i - 1] = "lead"

-----------------------------------------------------------------------------
(* The shim's grammar                                                      *)

Modifiers == {"#", "%", "+"}
LengthKind == [m \in {"#", "%"} |-> IF m = "#" THEN "INT" ELSE "SIZE"]

\* pack_read_string, entered in front of the modifiers
ShimPlainString(f, m) ==
  LET s == Advanced(f, m.scan)
  IN IF CharOf(f, s.tok) \in Modifiers
     THEN [m EXCEPT !.at = IF m.at = "key" THEN "key-part" ELSE "part", !.scan = PushedBack(s)]
     ELSE LET done == Emitted([m EXCEPT !.scan = PushedBack(s)], "CSTR", "s")
          IN IF m.at = "key" THEN [done EXCEPT !.at = "value", !.scan = Advanced(f, @)]
             ELSE ShimValueDone(f, done)

\* one pass through its loop
ShimPart(f, m) ==
  LET text == Emitted(m, "CSTR", "+")
      s == Advanced(f, m.scan)
      c == CharOf(f, s.tok)
      measured == IF c \in DOMAIN LengthKind
                  THEN Emitted([text EXCEPT !.scan = s], LengthKind[c], c)
                  ELSE [text EXCEPT !.scan = PushedBack(s)]
      t == Advanced(f, measured.scan)
      more == CharOf(f, t.tok) = "+"
      read == [measured EXCEPT !.scan = IF more THEN t ELSE PushedBack(t)]
  IN IF more THEN read
     ELSE IF m.at = "key-part" THEN [read EXCEPT !.at = "value", !.scan = Advanced(f, @)]
     ELSE ShimValueDone(f, read)

ShimArg == [c \in {"b", "i", "I", "f"} |-> IF c = "f" THEN "DOUBLE" ELSE "INT"]

\* marshal_pack_value
ShimValue(f, m) ==
  LET c == CharOf(f, m.scan.tok)
      s == Advanced(f, m.scan)
      marked == CharOf(f, s.tok) \in {"?", "*"}
      past == [m EXCEPT !.scan = IF marked THEN s ELSE PushedBack(s)]
  IN CASE c \in {"{", "["} -> ShimOpen(f, m)
       [] c = "s" -> IF marked /\ CharOf(f, Advanced(f, s).tok) \in Modifiers
                     THEN ShimStop(m)
                     ELSE ShimPlainString(f, [past EXCEPT !.at = "string"])
       [] c = "n" -> ShimValueDone(f, m)
       [] c \in DOMAIN ShimArg -> ShimValueDone(f, Emitted(m, ShimArg[c], c))
       [] c \in {"o", "O"} -> ShimValueDone(f, Emitted(past, "JSON", c))
       [] OTHER -> ShimStop(m)

\* marshal_pack_object, marshal_pack_array
ShimItems(f, m) ==
  LET c == CharOf(f, m.scan.tok)
  IN IF c = Closes(Last(m.open)) THEN ShimClose(f, m)
     ELSE IF c = "end" THEN ShimStop(m)
     ELSE IF Last(m.open) = "[" THEN [m EXCEPT !.at = "value"]
     ELSE IF c = "s" THEN ShimPlainString(f, [m EXCEPT !.at = "key"])
     ELSE ShimStop(m)

PackShimStep(f, m) ==
  CASE m.at = "value" -> ShimValue(f, m)
    [] m.at = "items" -> ShimItems(f, m)
    [] m.at \in {"key-part", "part"} -> ShimPart(f, m)
    [] OTHER -> m

\* The arguments that a program passes for a format.
PackKinds(f) == IF f = << >> THEN << >> ELSE Listed(PackShimStep, f)

-----------------------------------------------------------------------------
(* Memory                                                                  *)

\* json_decref of all of the values
Release(xs) ==
  LET gone == UNION {Below(x) : x \in xs}
  IN /\ live' = {n \in live : Node(n) \notin gone}
     /\ held' = [k \in DOMAIN held |-> held[k] - IF Given(k) \in gone THEN 1 ELSE 0]

ReleaseNothing == UNCHANGED <<live, held>>

\* json_object_setn_new_nocheck: a key that is there gets the new value in its place.
Same(key, kids) == {i \in DOMAIN kids : kids[i].key = key}
WithMember(kids, key, value) ==
  IF Same(key, kids) = {} THEN Append(kids, [key |-> key, value |-> value])
  ELSE [i \in DOMAIN kids |-> IF i \in Same(key, kids) THEN [key |-> key, value |-> value]
                              ELSE kids[i]]
Replaced(kids, key) == {kids[i].value : i \in Same(key, kids)}

-----------------------------------------------------------------------------
(* The call and its end                                                    *)

Return(x) == pc' = "back" /\ ret' = x

\* jsonp_pack_marshaled, and json_vpack_ex before it
PackCall ==
  /\ pc = "call"
  /\ IF fmt = << >>
     THEN /\ err' = "argument"
          /\ pc' = "packed"
          /\ UNCHANGED scan
     ELSE /\ scan' = NextToken(ScanStart)
          /\ pc' = "value"
          /\ UNCHANGED err
  /\ UNCHANGED <<strayed, fmt, args, taken, stack, str, ret, failed, heap, live, buffers, held, starved>>

\* The shim gets no memory for the list.
PackCallStarved ==
  /\ pc = "call"
  /\ Len(args) > 0
  /\ Starve
  /\ err' = "memory"
  /\ pc' = "packed"
  /\ UNCHANGED <<strayed, fmt, args, taken, scan, stack, str, ret, failed, heap, live, buffers, held>>

PackFinish ==
  /\ pc = "back"
  /\ stack = << >>
  /\ pc' = "packed"
  /\ IF ret = None
     THEN UNCHANGED <<scan, err, ret, live, held>>
     ELSE /\ scan' = NextToken(scan)
          /\ IF TokenOf(NextToken(scan)) = "end"
             THEN UNCHANGED <<err, ret, live, held>>
             ELSE /\ err' = Reported(err, "format")
                  /\ Release({ret})
                  /\ ret' = None
  /\ UNCHANGED <<strayed, fmt, args, taken, stack, str, failed, heap, buffers, starved>>

-----------------------------------------------------------------------------
(* pack: the values other than strings and containers                      *)

\* An argument is taken.  If it is not there, or is of another kind, that is noted.
TakeOf(kind) ==
  /\ TakeArg
  /\ err' = Mismatch(kind)
  /\ failed' = (failed \/ ~Fits(kind))

NullValue ==
  /\ pc = "value"
  /\ Token = "n"
  /\ Return(Null)
  /\ UNCHANGED <<strayed, fmt, args, taken, scan, err, stack, str, failed, heap, live, buffers, held, starved>>

BooleanValue ==
  /\ pc = "value"
  /\ Token = "b"
  /\ TakeOf("INT")
  /\ Return(True)
  /\ UNCHANGED <<strayed, fmt, args, scan, stack, str, heap, live, buffers, held, starved>>

\* pack_integer and pack_real, which refuses what is not finite
NumberKind == [c \in {"i", "I", "f"} |-> IF c = "f" THEN "DOUBLE" ELSE "INT"]
NumberType(c) == IF c = "f" THEN "real" ELSE "integer"

NumberValue ==
  /\ pc = "value"
  /\ Token \in DOMAIN NumberKind
  /\ LET kind == NumberKind[Token]
         refused == kind = "DOUBLE" /\ Fits(kind) /\ args[taken + 1].value = <<"nan">>
     IN /\ TakeArg
        /\ \/ /\ ~refused
              /\ err' = Mismatch(kind)
              /\ failed' = (failed \/ ~Fits(kind))
              /\ Make(NumberType(Token), << >>)
              /\ Return(Fresh)
              /\ UNCHANGED starved
           \/ /\ refused
              /\ err' = Reported(err, "overflow")
              /\ failed' = TRUE
              /\ Return(None)
              /\ UNCHANGED <<heap, live, starved>>
           \/ /\ Starve
              /\ err' = Reported(Mismatch(kind), "memory")
              /\ failed' = TRUE
              /\ Return(None)
              /\ UNCHANGED <<heap, live>>
  /\ UNCHANGED <<strayed, fmt, args, scan, stack, str, buffers, held>>

\* pack_object_inter
RefValue ==
  /\ pc = "value"
  /\ Token \in {"o", "O"}
  /\ LET mark == MarkIn({"?", "*"})
         value == IF Fits("JSON") THEN args[taken + 1].value ELSE None
         asked == Mismatch("JSON")
     IN /\ scan' = PastMark({"?", "*"})
        /\ TakeArg
        /\ held' = IF value # None /\ Token = "O"
                   THEN [held EXCEPT ![value[2]] = @ + 1] ELSE held
        /\ Return(IF value = None /\ mark = "?" THEN Null ELSE value)
        /\ err' = IF value = None /\ mark = "no" THEN Reported(asked, "null") ELSE asked
        /\ failed' = (failed \/ ~Fits("JSON") \/ (value = None /\ mark = "no"))
  /\ UNCHANGED <<strayed, fmt, args, stack, str, heap, live, buffers, starved>>

ValueStarters == {"{", "[", "s", "n", "b", "i", "I", "f", "O", "o"}

Unexpected ==
  /\ pc = "value"
  /\ Token \notin ValueStarters
  /\ err' = Reported(err, "format")
  /\ failed' = TRUE
  /\ Return(None)
  /\ UNCHANGED <<strayed, fmt, args, taken, scan, stack, str, heap, live, buffers, held, starved>>
-----------------------------------------------------------------------------
(* read_string, for a value and for a key                                  *)

Optional == str.mark \in {"?", "*"}

StringValue ==
  /\ pc = "value"
  /\ Token = "s"
  /\ str' = String("value", MarkIn({"?", "*"}))
  /\ scan' = PastMark({"?", "*"})
  /\ pc' = "string"
  /\ UNCHANGED <<strayed, fmt, args, taken, err, stack, ret, failed, heap, live, buffers, held, starved>>

\* pack_string makes a value of the text; no error is noted where it cannot.  For
\* a key, pack_object goes on to the value and looks at what follows its first token.
\* Lost: how many allocations have failed on the way here.
StringRead(text, own, s, fails, lost) ==
  /\ failed' = fails
  /\ str' = NoString
  /\ UNCHANGED held
  /\ IF str.use = "key"
     THEN /\ scan' = PushedBack(NextToken(NextToken(s)))
          /\ stack' = [stack EXCEPT ![Len(stack)].key = text, ![Len(stack)].own = own,
                          ![Len(stack)].opt = TokenOf(NextToken(NextToken(s)))]
          /\ pc' = "value"
          /\ starved' = starved + lost
          /\ UNCHANGED <<ret, heap, live>>
     ELSE /\ scan' = s
          /\ UNCHANGED stack
          /\ \/ /\ text = NoText \/ fails
                /\ Return(IF text = NoText /\ str.mark = "?" /\ ~fails THEN Null ELSE None)
                /\ starved' = starved + lost
                /\ UNCHANGED <<heap, live>>
             \/ /\ text # NoText /\ ~fails
                /\ Make("string", text)
                /\ Return(Fresh)
                /\ UNCHANGED starved
             \/ /\ text # NoText /\ ~fails
                /\ Starve
                /\ Return(None)
                /\ UNCHANGED <<heap, live>>

\* One C string and nothing to be joined to it.
PlainString ==
  /\ pc = "string"
  /\ LookAhead \notin Modifiers
  /\ LET text == IF Fits("CSTR") THEN args[taken + 1].value ELSE NoText
         asked == Mismatch("CSTR")
         missing == text = NoText /\ ~Optional
         bad == text # NoText /\ ~IsUtf8(text)
     IN /\ TakeArg
        /\ err' = IF missing THEN Reported(asked, "null")
                  ELSE IF bad THEN Reported(asked, "utf8") ELSE asked
        /\ StringRead(IF bad THEN NoText ELSE text, FALSE, Looked,
                      failed \/ ~Fits("CSTR") \/ missing \/ bad, 0)
  /\ UNCHANGED <<strayed, fmt, args, buffers>>

OptionalWithModifier ==
  /\ pc = "string"
  /\ LookAhead \in Modifiers
  /\ Optional
  /\ err' = Reported(err, "format")
  /\ StringRead(NoText, FALSE, Looked, TRUE, 0)
  /\ UNCHANGED <<strayed, fmt, args, taken, buffers>>

\* RawBuf::init.  Where it fails, the parts and their arguments are left where they are.
JoinStart ==
  /\ pc = "string"
  /\ LookAhead \in Modifiers
  /\ ~Optional
  /\ \/ /\ pc' = "parts"
        /\ scan' = Looked
        /\ buffers' = buffers + 1
        /\ UNCHANGED <<err, stack, str, ret, failed, strayed, heap, live, held, starved>>
     \/ /\ CanStarve
        /\ strayed' = TRUE
        /\ err' = Reported(err, "memory")
        /\ StringRead(NoText, FALSE, Looked, TRUE, 1)
        /\ UNCHANGED buffers
  /\ UNCHANGED <<fmt, args, taken>>

\* One pass through the loop that joins the parts.
JoinPart ==
  /\ pc = "parts"
  /\ LET text == IF Fits("CSTR") THEN args[taken + 1].value ELSE NoText
         first == IF text = NoText THEN Reported(Mismatch("CSTR"), "null") ELSE err
         s == NextToken(scan)
         measured == TokenOf(s) \in DOMAIN LengthKind
         there == taken + 1 < Len(args) /\ args[taken + 2].kind = LengthKind[TokenOf(s)]
         astray == measured /\ ~there
         t == NextToken(IF measured THEN s ELSE PushedBack(s))
         more == TokenOf(t) = "+"
         fails == failed \/ text = NoText \/ astray
         noted == IF astray THEN Reported(first, "mismatch") ELSE first
     IN /\ taken' = IF measured /\ taken + 1 < Len(args) THEN taken + 2
                    ELSE IF taken < Len(args) THEN taken + 1 ELSE taken
        /\ scan' = IF more THEN t ELSE PushedBack(t)
        /\ pc' = IF more THEN "parts" ELSE "joined"
        /\ \/ /\ str' = IF fails THEN str ELSE [str EXCEPT !.text = @ \o text]
              /\ failed' = fails
              /\ err' = noted
              /\ UNCHANGED starved
           \/ /\ ~fails
              /\ Starve
              /\ failed' = TRUE
              /\ err' = Reported(noted, "memory")
              /\ UNCHANGED str
  /\ UNCHANGED <<strayed, fmt, args, stack, ret, heap, live, buffers, held>>

\* The text of a key is freed with the key, that of a value becomes the string's.
JoinEnd ==
  /\ pc = "joined"
  /\ LET bad == ~failed /\ ~IsUtf8(str.text)
     IN /\ err' = IF bad THEN Reported(err, "utf8") ELSE err
        /\ buffers' = buffers - IF str.use = "key" /\ ~failed /\ ~bad THEN 0 ELSE 1
        /\ StringRead(IF failed \/ bad THEN NoText ELSE str.text, ~failed /\ ~bad, scan,
                      failed \/ bad, 0)
  /\ UNCHANGED <<strayed, fmt, args, taken>>

-----------------------------------------------------------------------------
(* pack_object and pack_array                                              *)

\* Mutant: the end of the format is not looked for.
FormatOverNever == FALSE

FormatOver == Token = "end"

Top == Last(stack)
Contents == heap[Top.node].kids

\* Where json_object or json_array fails, the contents are left, and are then read as
\* contents of the container around it.
Open ==
  /\ pc = "value"
  /\ Token \in {"{", "["}
  /\ \/ /\ Make(Token, << >>)
        /\ stack' = Append(stack, [of |-> Token, node |-> Len(heap) + 1, key |-> NoText,
                                   own |-> FALSE, opt |-> "no"])
        /\ scan' = NextToken(scan)
        /\ pc' = "items"
        /\ UNCHANGED <<ret, strayed, starved>>
     \/ /\ Starve
        /\ strayed' = TRUE
        /\ Return(None)
        /\ UNCHANGED <<scan, stack, heap, live>>
  /\ UNCHANGED <<fmt, args, taken, err, str, failed, buffers, held>>

Close ==
  /\ pc = "items"
  /\ Token = Closes(Top.of)
  /\ stack' = Front(stack)
  /\ IF failed
     THEN Release({Node(Top.node)}) /\ Return(None)
     ELSE ReleaseNothing /\ Return(Node(Top.node))
  /\ UNCHANGED <<strayed, fmt, args, taken, scan, err, str, failed, heap, buffers, starved>>

\* The format ends, or a key is not an 's': the level ends at once.
Broken ==
  /\ pc = "items"
  /\ Token # Closes(Top.of)
  /\ FormatOver \/ (Top.of = "{" /\ Token # "s")
  /\ err' = Reported(err, "format")
  /\ Release({Node(Top.node)})
  /\ stack' = Front(stack)
  /\ Return(None)
  /\ UNCHANGED <<strayed, fmt, args, taken, scan, str, failed, heap, buffers, starved>>

NextKey ==
  /\ pc = "items"
  /\ Top.of = "{"
  /\ Token = "s"
  /\ str' = String("key", "no")
  /\ pc' = "string"
  /\ UNCHANGED <<strayed, fmt, args, taken, scan, err, stack, ret, failed, heap, live, buffers, held, starved>>

NextItem ==
  /\ pc = "items"
  /\ Top.of = "["
  /\ Token # "]"
  /\ ~FormatOver
  /\ stack' = [stack EXCEPT ![Len(stack)].opt = LookAhead]
  /\ scan' = Looked
  /\ pc' = "value"
  /\ UNCHANGED <<strayed, fmt, args, taken, err, str, ret, failed, heap, live, buffers, held, starved>>

\* What came back goes into the container, or is released when there has been an
\* error.  Then the key is freed and the loop goes on.
ItemDone ==
  /\ scan' = NextToken(scan)
  /\ pc' = "items"
  /\ ret' = None
  /\ stack' = [stack EXCEPT ![Len(stack)].key = NoText, ![Len(stack)].own = FALSE,
                            ![Len(stack)].opt = "no"]
  /\ buffers' = buffers - IF Top.own THEN 1 ELSE 0
  /\ UNCHANGED <<strayed, fmt, args, taken, str>>

LeavesOut == Top.opt = "*"

\* Mutant: the first value that is missing ends the level, and the call.
NothingCameLeaves ==
  /\ pc = "back"
  /\ stack # << >>
  /\ ret = None
  /\ IF LeavesOut THEN UNCHANGED <<err, failed, live, held>> /\ ItemDone
     ELSE /\ err' = Reported(err, "null")
          /\ failed' = TRUE
          /\ Release({Node(Top.node)})
          /\ stack' = Front(stack)
          /\ buffers' = buffers - IF Top.own THEN 1 ELSE 0
          /\ UNCHANGED <<pc, strayed, fmt, args, taken, scan, str, ret>>
  /\ UNCHANGED <<heap, starved>>

NothingCame ==
  /\ pc = "back"
  /\ stack # << >>
  /\ ret = None
  /\ err' = IF LeavesOut \/ Top.of = "[" THEN err ELSE Reported(err, "null")
  /\ failed' = (failed \/ ~LeavesOut)
  /\ ItemDone
  /\ UNCHANGED <<heap, live, held, starved>>

\* Mutant: a value that comes after an error is dropped and not released.
DropsAfterError == ReleaseNothing

ReleasesAfterError == Release({ret})

CameAfterError ==
  /\ pc = "back"
  /\ stack # << >>
  /\ ret # None
  /\ failed
  /\ ReleasesAfterError
  /\ ItemDone
  /\ UNCHANGED <<err, failed, heap, starved>>

\* json_object_setn_new_nocheck, json_array_append_new: the setter releases what it
\* cannot take.
Put ==
  /\ pc = "back"
  /\ stack # << >>
  /\ ret # None
  /\ ~failed
  /\ \/ /\ heap' = [heap EXCEPT ![Top.node].kids =
                     IF Top.of = "{" THEN WithMember(@, Top.key, ret)
                     ELSE Append(@, [key |-> NoKey, value |-> ret])]
        /\ Release(IF Top.of = "{" THEN Replaced(Contents, Top.key) ELSE {})
        /\ UNCHANGED <<err, failed, starved>>
     \/ /\ Starve
        /\ Release({ret})
        /\ err' = Reported(err, "memory")
        /\ failed' = TRUE
        /\ UNCHANGED heap
  /\ ItemDone

PackNext ==
  \/ PackCall \/ PackCallStarved \/ PackFinish
  \/ NullValue \/ BooleanValue \/ NumberValue \/ RefValue \/ Unexpected
  \/ StringValue \/ PlainString \/ OptionalWithModifier
  \/ JoinStart \/ JoinPart \/ JoinEnd
  \/ Open \/ Close \/ Broken \/ NextKey \/ NextItem
  \/ NothingCame \/ CameAfterError \/ Put

-----------------------------------------------------------------------------
(* Properties                                                              *)

PackPhases == {"call", "value", "string", "parts", "joined", "items", "back", "packed"}

\* What is in the hands of the call: what it returns and the containers begun.
InHand ==
  (IF pc \in {"back", "packed"} THEN Below(ret) ELSE {})
    \cup UNION {Below(Node(f.node)) : f \in ToSet(stack)}

\* Every value that was made and not freed is in the hands of the call, with every
\* argument of 'o' that has been read, and once: on no way through an error, in the
\* format, an argument or an allocation, is a reference lost, or released twice, and
\* an argument that was not read is as it was.  'O' has taken one more for what is
\* in the value, and none for what is not.  Of the arguments this is so only while the
\* packer reads each for the token it was passed for, which it does not after it has
\* left a part of the format for want of memory.
PackOwns ==
  pc \in PackPhases =>
  /\ {Node(n) : n \in live} = {x \in InHand : x[1] = "node"}
  /\ ~strayed => \A k \in DOMAIN args :
       args[k].kind = "JSON" /\ args[k].value # None =>
         held[k] = (IF k <= taken /\ args[k].from = "o" THEN 0 ELSE 1)
                     + (IF Given(k) \in InHand THEN 1 ELSE 0)
  /\ buffers = Cardinality({i \in DOMAIN stack : stack[i].own})
                 + (IF pc \in {"parts", "joined"} THEN 1 ELSE 0)
=============================================================================
