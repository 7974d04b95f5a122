------------------------------- MODULE Parser -------------------------------
(***************************************************************************)
(* parse_json (load.rs): the loop that turns the tokens of the lexer into  *)
(* a tree of JSON values, with a stack of frames for the containers that   *)
(* are open, and what it does with the values and the key texts it owns    *)
(* when it fails.  Each turn of the loop is a step.                        *)
(*                                                                         *)
(* A value has one owner here (a frame, pending, or the container it was   *)
(* added to), so its count is always 1 and releasing it frees it.          *)
(***************************************************************************)
EXTENDS Integers, Sequences, SequencesExt, FiniteSets

CONSTANTS
  Strings,     \* the string tokens
  NulStrings,  \* those of them that have a NUL byte
  MaxDepth,    \* JSON_PARSER_MAX_DEPTH
  InitialRoom, \* INITIAL_ARRAY_CAPACITY, and the buckets of a new object
  MaxTokens,   \* bound of the model: the length of the input
  FlagSets,    \* the combinations of flags that callers pass
  NoKey, NoValue

ASSUME StringsAssumption == NulStrings \subseteq Strings /\ NoKey \notin Strings
ASSUME BoundsAssumption == {MaxDepth, InitialRoom, MaxTokens} \subseteq Nat \ {0}
ASSUME FlagsAssumption ==
  FlagSets \subseteq SUBSET {"reject_duplicates", "disable_eof_check", "decode_any", "allow_nul"}
ASSUME NoValueAssumption == NoValue \notin Nat

VARIABLES
  flags,
  input,        \* the tokens scanned so far; the last one is lex.token
  frames,       \* the stack: [node, state, key]
  pending,      \* a value that is complete and not yet in its container
  heap,         \* the values made: heap[r] is value r
  live,         \* those that are not freed
  keyTexts,     \* how many stolen key texts are allocated
  overreleased, \* whether a reference was released that was no longer there
  err,          \* the code in error->text
  status

vars == <<flags, input, frames, pending, heap, live, keyTexts, overreleased, err, status>>

\* The number that is followed by a byte which is not UTF-8 is a good token, but
\* the lexer has read that byte and has reported it.  A literal before such a byte
\* is treated alike and is left out.
Numbers == {"number", "number_before_bad_byte"}

\* "junk" is a word that is no literal, "nul" a NUL byte outside a string, and
\* "broken" whatever the lexer itself reports.
Junk == {"junk", "nul", "broken"}

Containers == {"[", "{"}
Tokens == Strings \cup Numbers \cup Junk \cup Containers
            \cup {"literal", "]", "}", ",", ":", "eof"}

\* No string token is a token of another kind.
ASSUME TokensAssumption ==
  Strings \cap (Numbers \cup Junk \cup Containers \cup {"literal", "]", "}", ",", ":", "eof"}) = {}

Literal == 0   \* the immortal values of true, false and null

token == Last(input)
Top == Last(frames)

-----------------------------------------------------------------------------
(* Values                                                                  *)

\* The values that are freed when the last reference to r goes.
Below(r) ==
  LET tree[n \in 0 .. Len(heap)] ==
        IF n = Literal THEN {}
        ELSE {n} \cup UNION {tree[i.value] : i \in ToSet(heap[n].items)}
  IN IF r = NoValue THEN {} ELSE tree[r]

\* The JSON value that r stands for.
Denoted(r) ==
  LET value[n \in Nat] ==
        IF n = Literal THEN [kind |-> "literal", items |-> << >>]
        ELSE [kind |-> heap[n].kind,
              items |-> [i \in DOMAIN heap[n].items |->
                           [key |-> heap[n].items[i].key,
                            value |-> value[heap[n].items[i].value]]]]
  IN value[r]

Node(kind) == [kind |-> kind, items |-> << >>]
Fresh == Len(heap) + 1

\* The items of an object with this key: one or none.  None for an array.
Present(items, key) == {i \in DOMAIN items : key # NoKey /\ items[i].key = key}

\* Mutant: the present item is not looked for.
PutNew(items, key, r) == Append(items, [key |-> key, value |-> r])

\* json_array_append_new and json_object_setn_new_nocheck.
Put(items, key, r) ==
  IF Present(items, key) = {} THEN Append(items, [key |-> key, value |-> r])
  ELSE [i \in DOMAIN items |->
          IF i \in Present(items, key) THEN [items[i] EXCEPT !.value = r] ELSE items[i]]

\* Whether Put may have to allocate: an entry for a key that is not present, or
\* more room when what there is (InitialRoom doubled some times) is full.
Allocates(node, key) ==
  \/ node.kind = "object" /\ Present(node.items, key) = {}
  \/ \E k \in 0 .. Len(node.items) : Len(node.items) = InitialRoom * 2 ^ k

-----------------------------------------------------------------------------
(* Errors and tokens                                                       *)

\* Mutant: a later error replaces the first.
ReportedLast(code) == code

\* jsonp_error_vformat: the first error stays.
Reported(code) == IF err = "none" THEN code ELSE err

\* lex.error_set: with no text of a token to show, bad syntax is taken for an
\* early end.
Syntax == IF token \in {"eof", "nul"} THEN "premature_end" ELSE "syntax"

\* What the lexer may find next.  After the end it finds the end again, and
\* after a byte that is not UTF-8 nothing good.
NextTokens ==
  IF input = << >> THEN Tokens
  ELSE IF token = "eof" THEN {"eof"}
  ELSE IF token = "number_before_bad_byte" THEN {"broken"}
  ELSE IF Len(input) >= MaxTokens THEN {"eof"}
  ELSE Tokens

\* lex.scan
Scan ==
  \E t \in NextTokens :
    /\ input' = Append(input, t)
    /\ err' = IF t \in {"broken", "number_before_bad_byte"} THEN Reported("lexical") ELSE err

-----------------------------------------------------------------------------
(* Giving up                                                               *)

Keyed(fs) == {i \in DOMAIN fs : fs[i].key # NoKey}

\* Mutant: the loop over the frames ends before the last one.
ReleasedByAllButRoot(fs, child) ==
  Below(child) \cup UNION {Below(fs[i].node) : i \in 2 .. Len(fs)}

ReleasedBy(fs, child) ==
  Below(child) \cup UNION {Below(f.node) : f \in ToSet(fs)}

\* The error is set and cleanup_frames(fs, child) releases what is owned, with
\* held key texts and the values of alive still allocated.  What becomes of a
\* value that is released once more than it may be is not followed further.
GiveUp(code, fs, child, held, alive) ==
  /\ status' = "failed"
  /\ err' = Reported(code)
  /\ frames' = << >>
  /\ pending' = NoValue
  /\ keyTexts' = held - Cardinality(Keyed(fs))
  /\ live' = alive \ ReleasedBy(fs, child)
  /\ overreleased' = (child \notin alive \cup {NoValue, Literal})
  /\ UNCHANGED <<flags, input, heap>>

Fail(code) == GiveUp(code, frames, NoValue, keyTexts, live)

-----------------------------------------------------------------------------
(* The turns of the loop                                                   *)

Init ==
  /\ flags \in FlagSets
  /\ input = << >>
  /\ frames = << >>
  /\ pending = NoValue
  /\ heap = << >>
  /\ live = {}
  /\ keyTexts = 0
  /\ overreleased = FALSE
  /\ err = "none"
  /\ status = "start"

\* The first token.
Start ==
  /\ status = "start"
  /\ Scan
  /\ status' = "root"
  /\ UNCHANGED <<flags, frames, pending, heap, live, keyTexts, overreleased>>

CheckRoot ==
  /\ status = "root"
  /\ IF "decode_any" \notin flags /\ token \notin Containers
     THEN Fail(Syntax)
     ELSE status' = "running"
          /\ UNCHANGED <<flags, input, frames, pending, heap, live, keyTexts, overreleased, err>>

\* The loop reads the token for the frame on top, or for the root.
Reading == status = "running" /\ pending = NoValue
InState(S) == Reading /\ frames # << >> /\ Top.state \in S

Opener == [kind \in {"array", "object"} |-> IF kind = "array" THEN "[" ELSE "{"]
Closer == [kind \in {"array", "object"} |-> IF kind = "array" THEN "]" ELSE "}"]
KindOfTop == heap[Top.node].kind

TopTo(state, key) == [frames EXCEPT ![Len(frames)].state = state, ![Len(frames)].key = key]

\* pending = *value; frames.pop()
Close ==
  /\ InState({"ExpectFirstValueOrEnd", "ExpectFirstKeyOrEnd", "ExpectCommaOrEnd"})
  /\ token = Closer[KindOfTop]
  /\ pending' = Top.node
  /\ frames' = Front(frames)
  /\ UNCHANGED <<flags, input, heap, live, keyTexts, overreleased, err, status>>

Comma ==
  /\ InState({"ExpectCommaOrEnd"})
  /\ token = ","
  /\ frames' = TopTo(IF KindOfTop = "array" THEN "ExpectValue" ELSE "ExpectKey", NoKey)
  /\ Scan
  /\ UNCHANGED <<flags, pending, heap, live, keyTexts, overreleased, status>>

\* Mutant: only the end of the input is noticed.
NoCommaOrEndAtEnd ==
  /\ InState({"ExpectCommaOrEnd"})
  /\ token = "eof"
  /\ Fail(Syntax)

NoCommaOrEnd ==
  /\ InState({"ExpectCommaOrEnd"})
  /\ token \notin {",", Closer[KindOfTop]}
  /\ Fail(Syntax)

\* A key text is taken from the lexer, and freed again if it will not do.
Key ==
  /\ InState({"ExpectFirstKeyOrEnd", "ExpectKey"})
  /\ token \in Strings
  /\ IF token \in NulStrings THEN Fail("null_byte_in_key")
     ELSE IF "reject_duplicates" \in flags /\ Present(heap[Top.node].items, token) # {}
     THEN Fail("duplicate_key")
     ELSE /\ frames' = TopTo("ExpectColon", token)
          /\ keyTexts' = keyTexts + 1
          /\ Scan
          /\ UNCHANGED <<flags, pending, heap, live, overreleased, status>>

NoKeyHere ==
  /\ \/ InState({"ExpectFirstKeyOrEnd"}) /\ token \notin Strings \cup {"}"}
     \/ InState({"ExpectKey"}) /\ token \notin Strings
  /\ Fail(Syntax)

Colon ==
  /\ InState({"ExpectColon"})
  /\ IF token = ":"
     THEN /\ frames' = TopTo("ExpectValue", Top.key)
          /\ Scan
          /\ UNCHANGED <<flags, pending, heap, live, keyTexts, overreleased, status>>
     ELSE Fail(Syntax)

\* push_value_frame is called for the root, an array's item or a member's value.
ExpectsValue ==
  \/ Reading /\ frames = << >>
  \/ InState({"ExpectValue"})
  \/ InState({"ExpectFirstValueOrEnd"}) /\ token # "]"

\* Making a value may fail for want of memory.
Make(node) ==
  /\ heap' = Append(heap, node)
  /\ live' = live \cup {Fresh}

PushScalar ==
  /\ ExpectsValue
  /\ token \in Strings \cup Numbers
  /\ IF token \in NulStrings /\ "allow_nul" \notin flags
     THEN Fail("null_character")
     ELSE \/ /\ Make(Node(token))
             /\ pending' = Fresh
             /\ UNCHANGED <<flags, input, frames, keyTexts, overreleased, err, status>>
          \/ Fail("out_of_memory")

PushLiteral ==
  /\ ExpectsValue
  /\ token = "literal"
  /\ pending' = Literal
  /\ UNCHANGED <<flags, input, frames, heap, live, keyTexts, overreleased, err, status>>

\* Mutant: the frame that is about to be pushed is counted twice.
MayNestOneLess == Len(frames) + 1 < MaxDepth

\* The depth is checked before anything is made.
MayNest == Len(frames) < MaxDepth

PushContainer ==
  /\ ExpectsValue
  /\ token \in Containers
  /\ IF ~MayNest THEN Fail("stack_overflow")
     ELSE \/ \E kind \in {"array", "object"} :
               /\ token = Opener[kind]
               /\ Make(Node(kind))
               /\ frames' = Append(frames,
                    [node |-> Fresh, key |-> NoKey,
                     state |-> IF kind = "array" THEN "ExpectFirstValueOrEnd"
                               ELSE "ExpectFirstKeyOrEnd"])
               /\ Scan
               /\ UNCHANGED <<flags, pending, keyTexts, overreleased, status>>
          \/ Fail("out_of_memory")

PushUnexpected ==
  /\ ExpectsValue
  /\ token \notin Strings \cup Numbers \cup Containers \cup {"literal"}
  /\ Fail(Syntax)

\* The key texts that are left when the one of the frame on top is freed.
KeyTextsLeft == keyTexts - Cardinality({f \in {Top} : f.key # NoKey})

\* The value that is complete goes into the frame on top.
Attach ==
  /\ status = "running"
  /\ pending # NoValue
  /\ frames # << >>
  /\ LET items == heap[Top.node].items
         replaced == UNION {Below(items[i].value) : i \in Present(items, Top.key)}
     IN /\ heap' = [heap EXCEPT ![Top.node].items = Put(items, Top.key, pending)]
        /\ live' = live \ replaced
  /\ keyTexts' = KeyTextsLeft
  /\ frames' = TopTo("ExpectCommaOrEnd", NoKey)
  /\ pending' = NoValue
  /\ Scan
  /\ UNCHANGED <<flags, overreleased, status>>

\* json_array_append_new and json_object_setn_new_nocheck release the value when
\* they fail, and cleanup_frames is given it too.
AttachFails ==
  /\ status = "running"
  /\ pending # NoValue
  /\ frames # << >>
  /\ Allocates(heap[Top.node], Top.key)
  /\ GiveUp("out_of_memory", TopTo(Top.state, NoKey), pending, KeyTextsLeft,
            live \ Below(pending))

\* break pending, and the look for what follows.
Complete ==
  /\ status = "running"
  /\ pending # NoValue
  /\ frames = << >>
  /\ IF "disable_eof_check" \in flags
     THEN status' = "ok" /\ UNCHANGED <<input, err>>
     ELSE status' = "trailer" /\ Scan
  /\ UNCHANGED <<flags, frames, pending, heap, live, keyTexts, overreleased>>

CheckEnd ==
  /\ status = "trailer"
  /\ IF token = "eof"
     THEN status' = "ok"
          /\ UNCHANGED <<flags, input, frames, pending, heap, live, keyTexts, overreleased, err>>
     ELSE GiveUp("end_of_input_expected", << >>, pending, keyTexts, live)

Next ==
  \/ Start \/ CheckRoot
  \/ Close \/ Comma \/ NoCommaOrEnd
  \/ Key \/ NoKeyHere \/ Colon
  \/ PushScalar \/ PushLiteral \/ PushContainer \/ PushUnexpected
  \/ Attach \/ AttachFails
  \/ Complete \/ CheckEnd

\* The loop is one thread's, and a call to json_loads runs until it returns.
Spec == Init /\ [][Next]_vars /\ WF_vars(Next)

-----------------------------------------------------------------------------
(* Properties                                                              *)

FrameOK(f) ==
  /\ f.node \in 1 .. Len(heap)
  /\ f.key \in Strings \cup {NoKey}
  /\ f.state \in {"ExpectFirstValueOrEnd", "ExpectValue", "ExpectCommaOrEnd",
                  "ExpectFirstKeyOrEnd", "ExpectKey", "ExpectColon"}

\* The stack of load.rs never holds more than JSON_PARSER_MAX_DEPTH frames.
DepthBounded == Len(frames) <= MaxDepth

\* The key texts that were taken from the lexer and not freed are those of the
\* frames, one each: none is lost, and none is freed twice, where a key is refused,
\* its value fails, or the text ends.
KeyTextsOwned == keyTexts = Cardinality(Keyed(frames))

\* Every variable has a value of its kind.
TypeOK ==
  /\ flags \in FlagSets
  /\ ToSet(input) \subseteq Tokens
  /\ \A f \in ToSet(frames) : FrameOK(f)
  /\ pending \in 0 .. Len(heap) \cup {NoValue}
  /\ \A n \in ToSet(heap) : \A i \in ToSet(n.items) :
       i.key \in Strings \cup {NoKey} /\ i.value \in 0 .. Len(heap)
  /\ live \subseteq 1 .. Len(heap)
  /\ keyTexts \in Nat
  /\ overreleased \in BOOLEAN
  /\ err \in {"none", "lexical", "syntax", "premature_end", "stack_overflow",
              "null_character", "null_byte_in_key", "duplicate_key",
              "end_of_input_expected", "out_of_memory"}
  /\ status \in {"start", "root", "running", "trailer", "ok", "failed"}

\* Where the references to r are.
Owners(r) ==
  {<<"frame", i>> : i \in {j \in DOMAIN frames : frames[j].node = r}}
    \cup {<<"pending", 0>> : p \in {pending} \cap {r}}
    \cup UNION {{<<n, i>> : i \in {j \in DOMAIN heap[n].items : heap[n].items[j].value = r}} :
                  n \in live}

\* What is allocated, in a stack that never outgrows its bound, is exactly what
\* the parser still owns: after every turn each value that is not freed has one
\* owner and each key text belongs to a frame.  So when parse_json fails nothing
\* is left behind, whatever it failed at, and when it succeeds what is left is the
\* tree it returns.  (TypeOK is part of it.)
NothingLeaks ==
  /\ TypeOK
  /\ DepthBounded
  /\ live = ReleasedBy(frames, pending)
  /\ \A r \in live : Cardinality(Owners(r)) = 1
  /\ KeyTextsOwned

\* The texts that these flags admit, with their values: the reference for the
\* two properties below.
Grammar == INSTANCE JsonGrammar WITH
  Leaves <- Strings \cup Numbers \cup {"literal"},
  KeyStrings <- Strings \ NulStrings,
  MaxText <- MaxTokens

Nesting(text) ==
  LET depth(n) == Cardinality({i \in 1 .. n : text[i] \in Containers})
                    - Cardinality({i \in 1 .. n : text[i] \in {"]", "}"}})
  IN {depth(n) : n \in DOMAIN text}

Admits(F, t) ==
  /\ "decode_any" \in F \/ t.text[1] \in Containers
  /\ "allow_nul" \in F \/ ToSet(t.text) \cap NulStrings = {}
  /\ "reject_duplicates" \notin F \/ ~t.dup
  /\ \A n \in Nesting(t.text) : n <= MaxDepth

Language == [F \in FlagSets |-> {t \in Grammar!Texts : Admits(F, t)}]

Meanings == [F \in FlagSets |-> {<<t.text, t.value>> : t \in Language[F]}]
Sentences == [F \in FlagSets |-> {t.text : t \in Language[F]}]
Beginnings == [F \in FlagSets |-> UNION {Prefixes(s) : s \in Sentences[F]}]

\* Unless JSON_DISABLE_EOF_CHECK was passed, a success is one at the end of the
\* input, and no error is left in *error.
SuccessIsQuiet ==
  status = "ok" => "disable_eof_check" \in flags \/ (token = "eof" /\ err = "none")

\* What parse_json returns is the value of the text that it read, under the
\* grammar and the flags, and unless JSON_DISABLE_EOF_CHECK was passed nothing
\* follows that text and no error is left in *error.
Accepts ==
  /\ SuccessIsQuiet
  /\ status = "ok" =>
       LET text == IF "disable_eof_check" \in flags THEN input ELSE Front(input)
       IN <<text, Denoted(pending)>> \in Meanings[flags]

\* parse_json gives up only on input that no text admitted by the flags begins
\* with, or that ended before a text did, unless memory ran out or the lexer had
\* an error of its own: what it has accepted so far, the flags and the depth never
\* make it refuse a good text.
Rejects ==
  status = "failed" /\ err \notin {"out_of_memory", "lexical"} =>
    IF token = "eof" THEN Front(input) \notin Sentences[flags]
    ELSE input \notin Beginnings[flags]

\* The error that is reported is the first that was met: an error of the lexer is
\* not overwritten by the complaint of the parser about the token, and an early
\* end is reported only at the end (or at a NUL byte, which hides the text that
\* lex.error_set looks at).
FirstErrorStays ==
  status = "failed" =>
    /\ err # "none"
    /\ err = "lexical" <=> ToSet(input) \cap {"broken", "number_before_bad_byte"} # {}
    /\ err = "premature_end" => token \in {"eof", "nul"}
    /\ err = "null_character" => token \in NulStrings
    /\ err = "duplicate_key" => token \in ToSet(Front(input))

\* FirstErrorStays, and something is called superfluous only behind a good text.
ErrorNamesCause ==
  /\ FirstErrorStays
  /\ status = "failed" /\ err = "end_of_input_expected" => Front(input) \in Sentences[flags]

\* Every finite input is decided.
Terminates == <>(status \in {"ok", "failed"})

\* A reference is released once: "steal" means "the same result as if the user
\* called json_decref() on the argument right after calling the function"
\* (apiref.rst), so a value that json_array_append_new or
\* json_object_setn_new_nocheck has refused is not the parser's to release.
NoDoubleRelease == ~overreleased
=============================================================================
