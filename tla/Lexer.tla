-------------------------------- MODULE Lexer --------------------------------
(***************************************************************************)
(* The lexer of load.rs: the stream that checks UTF-8 and counts lines,    *)
(* columns and bytes, with its one character of push-back; the growing     *)
(* buffer for the text of a token; and lex.scan with scan_string and       *)
(* scan_number.  Each step looks at the last character, c, and reads the   *)
(* next one.                                                               *)
(*                                                                         *)
(* A byte is one of the classes below: "[" stands for the six structural   *)
(* characters, "n" for the escapes \b \f \n \r \t (and for a letter), "e"  *)
(* also for E and for a hexadecimal digit, "1" for 1 to 9, "/" also for    *)
(* what can stand in no text outside strings.                              *)
(***************************************************************************)
EXTENDS Integers, Sequences, SequencesExt, FiniteSets

CONSTANTS
  EscapeDigits,  \* how many digits follow \u: 4 in the code
  Leading,       \* \uD800 to \uDBFF: the digits of the first half of a pair
  Trailing,      \* \uDC00 to \uDFFF: those of the second half
  Keywords,      \* true, false, null
  LeadWidth,     \* how many bytes the byte "lead" announces
  WellFormed(_), \* check_full: whether these bytes are one character
  MinSize,       \* STRBUFFER_MIN_SIZE
  MaxLost,       \* bound of the model: the appends that fail in one scan
  Within(_)      \* bound of the model: the inputs whose next byte is explored

Quote == "quote"
Backslash == "backslash"
Blanks == {" ", "\n"}
Digits == {"0", "1"}
Letters == {"n", "u", "e"}
HexDigits == Digits \cup {"e"}
Signs == {"-", "+"}
Controls == {"\n", "nul"}
Ascii == Blanks \cup Digits \cup Letters \cup Signs \cup Controls
           \cup {"[", Quote, Backslash, "/", "."}
Bytes == Ascii \cup {"lead", "cont"}
NoChar == {"EOF", "ERROR"}  \* STREAM_STATE_EOF and STREAM_STATE_ERROR

Units == [1 .. EscapeDigits -> HexDigits]

ASSUME EscapeAssumption ==
  EscapeDigits \in Nat \ {0} /\ Leading \cup Trailing \subseteq Units /\ Leading \cap Trailing = {}
ASSUME SizesAssumption == LeadWidth \in 2 .. 4 /\ MinSize \in Nat \ {0, 1} /\ MaxLost \in Nat
\* The bytes of a character after its first are 0x80 to 0xBF.
ASSUME WellFormedAssumption ==
  \A s \in [1 .. LeadWidth -> Bytes] : WellFormed(s) => \A i \in 2 .. LeadWidth : s[i] = "cont"
ASSUME KeywordsAssumption == Keywords \subseteq Seq(Letters) \ {<< >>}

VARIABLES
  intAsReal,    \* JSON_DECODE_INT_AS_REAL
  input,        \* the bytes that the stream has fetched
  stream,       \* [state, buffer, pos, line, column, lastColumn, position]
  savedText,    \* the bytes in saved_text, of which size are allocated
  size,
  lost,         \* how often saved_text has failed to grow during this scan
  c,            \* the last character read
  pc,           \* what the scanner is in the middle of
  due,          \* the digits that are still to come after \u
  from,         \* the bytes before the token
  token,
  value,        \* string_val, integer or real of the token
  held,         \* whether string_val is the lexer's to free
  err           \* the code in error->text

text == <<savedText, size, lost>>
result == <<token, value, held>>
vars == <<intAsReal, input, stream, text, c, pc, due, from, result, err>>

\* jsonp_error_vformat: the first error stays.
Reported(code) == IF err = "none" THEN code ELSE err

-----------------------------------------------------------------------------
(* The stream                                                              *)

\* check_first: the length of the character that begins with b, or 0.
Width(b) == IF b = "lead" THEN LeadWidth ELSE IF b = "cont" THEN 0 ELSE 1

\* The places that one more byte moves the stream to.
Advanced(s, b) ==
  [s EXCEPT !.pos = @ + 1, !.position = @ + 1,
            !.line = IF b = "\n" THEN @ + 1 ELSE @,
            !.lastColumn = IF b = "\n" THEN s.column ELSE @,
            !.column = IF b = "\n" THEN 0 ELSE IF Width(b) # 0 THEN @ + 1 ELSE @]

Ends(state) == stream' = [stream EXCEPT !.state = state] /\ c' = state

\* The source has no more: at the NUL of json_loads, the end of the buffer or the
\* file, or when read or the callback fails.
SourceEnds == Ends("EOF") /\ UNCHANGED <<input, err>>

\* The source gives a whole character, or ends before one, or gives something
\* that is not UTF-8.
Fetch ==
  \/ SourceEnds
  \/ \E b \in Bytes, more \in UNION {[1 .. n -> Bytes] : n \in 0 .. LeadWidth - 1} :
       LET fetched == <<b>> \o more
       IN /\ Within(input)
          /\ Len(fetched) <= IF Width(b) = 0 THEN 1 ELSE Width(b)
          /\ input' = input \o fetched
          /\ IF Len(fetched) = Width(b) /\ (Width(b) > 1 => WellFormed(fetched))
             THEN /\ stream' = Advanced([stream EXCEPT !.buffer = fetched, !.pos = 0], b)
                  /\ c' = b
                  /\ UNCHANGED err
             ELSE Ends("ERROR") /\ err' = Reported("invalid_utf8")

\* get_char
GetChar ==
  IF stream.state # "OK" THEN c' = stream.state /\ UNCHANGED <<input, stream, err>>
  ELSE IF stream.pos >= Len(stream.buffer) THEN Fetch
  ELSE /\ c' = stream.buffer[stream.pos + 1]
       /\ stream' = Advanced(stream, c')
       /\ UNCHANGED <<input, err>>

\* Mutant: the column is not restored when a newline is put back.
PutBackAnyColumn ==
  IF c \in NoChar THEN stream
  ELSE [stream EXCEPT !.pos = @ - 1, !.position = @ - 1,
                      !.line = IF c = "\n" THEN @ - 1 ELSE @,
                      !.column = IF c # "\n" /\ Width(c) # 0 THEN @ - 1 ELSE @]

\* unget_char(c)
PutBack ==
  IF c \in NoChar THEN stream
  ELSE [stream EXCEPT !.pos = @ - 1, !.position = @ - 1,
                      !.line = IF c = "\n" THEN @ - 1 ELSE @,
                      !.column = IF c = "\n" THEN stream.lastColumn
                                 ELSE IF Width(c) # 0 THEN @ - 1 ELSE @]

-----------------------------------------------------------------------------
(* The text of the token                                                   *)

\* append_bytes fails when it cannot get more memory, which nobody looks at.
AppendBytes(bytes) ==
  \/ /\ Len(bytes) < size - Len(savedText)
     /\ savedText' = savedText \o bytes
     /\ UNCHANGED <<size, lost>>
  \/ /\ Len(bytes) >= size - Len(savedText)
     /\ \/ savedText' = savedText \o bytes
           /\ size' = Max({size * 2, Len(savedText) + Len(bytes) + 1})
           /\ UNCHANGED lost
        \/ lost < MaxLost /\ lost' = lost + 1 /\ UNCHANGED <<savedText, size>>

GetAndSave == GetChar /\ IF c' \in NoChar THEN UNCHANGED text ELSE AppendBytes(<<c'>>)

\* unget_and_unsave(c)
Unsave ==
  /\ savedText' = IF c \in NoChar \/ savedText = << >> THEN savedText ELSE Front(savedText)
  /\ UNCHANGED <<size, lost>>

-----------------------------------------------------------------------------
(* What scan returns                                                       *)

\* The token is complete and the scanner waits for the next call.
Return(t, v, code) ==
  /\ token' = t
  /\ value' = v
  /\ held' = (t = "string")
  /\ err' = IF code = "none" THEN err ELSE Reported(code)
  /\ pc' = "returned"
  /\ UNCHANGED <<intAsReal, input, c, due, from>>

Invalid(code) == Return("invalid", << >>, code)

\* The scanner has read the next character and will look at it as to says.
GoesOn(to) == pc' = to /\ UNCHANGED <<intAsReal, due, from, result>>

\* Which numbers do not fit json_int_t or a double is left to libc, and so is what
\* strtoll and strtod make of a text with holes.
ReturnNumber(t) == Return(t, savedText', "none") \/ Invalid("overflow")

Init ==
  /\ intAsReal \in BOOLEAN
  /\ input = << >>
  /\ stream = [state |-> "OK", buffer |-> << >>, pos |-> 0, line |-> 1, column |-> 0,
               lastColumn |-> 0, position |-> 0]
  /\ savedText = << >>
  /\ size = MinSize
  /\ lost = 0
  /\ c = "EOF"
  /\ pc = "returned"
  /\ due = 0
  /\ from = 0
  /\ token = "none"
  /\ value = << >>
  /\ held = FALSE
  /\ err = "none"

-----------------------------------------------------------------------------
(* scan                                                                    *)

\* The string that is left when a string token's has been freed.
StringLeft == held /\ token # "string"

\* The parser calls scan again unless the last token was the end or invalid.
Scan ==
  /\ pc = "returned"
  /\ token \notin {"invalid", "eof"}
  /\ savedText' = << >>
  /\ lost' = 0
  /\ held' = StringLeft
  /\ GetChar
  /\ pc' = "blank"
  /\ from' = stream.position
  /\ UNCHANGED <<intAsReal, size, due, token, value>>

SkipBlank ==
  /\ pc = "blank"
  /\ c \in Blanks
  /\ GetChar
  /\ from' = stream.position
  /\ UNCHANGED <<intAsReal, text, pc, due, result>>

NoToken ==
  /\ pc = "blank"
  /\ c \in NoChar
  /\ Return(IF c = "EOF" THEN "eof" ELSE "invalid", << >>, "none")
  /\ UNCHANGED <<stream, text>>

Structural ==
  /\ pc = "blank"
  /\ c = "["
  /\ AppendBytes(<<c>>)
  /\ token' = c
  /\ pc' = "returned"
  /\ UNCHANGED <<intAsReal, input, stream, c, due, from, value, held, err>>

\* What kind of token the first character begins.
Begun ==
  IF c = Quote THEN "quote" ELSE IF c \in Letters THEN "word"
  ELSE IF c \in Digits \cup {"-"} THEN "number" ELSE "none"

Begin ==
  /\ pc = "blank"
  /\ Begun # "none"
  /\ AppendBytes(<<c>>)
  /\ pc' = Begun
  /\ UNCHANGED <<intAsReal, input, stream, c, due, from, result, err>>

\* save_cached takes the rest of the character into the text, which no one but
\* an error message will read.
Unknown ==
  /\ pc = "blank"
  /\ c \notin Blanks \cup NoChar \cup {"["}
  /\ Begun = "none"
  /\ LET rest == SubSeq(stream.buffer, stream.pos + 1, Len(stream.buffer))
     IN /\ AppendBytes(<<c>> \o rest)
        /\ stream' = [stream EXCEPT !.pos = Len(stream.buffer), !.position = @ + Len(rest)]
  /\ token' = "invalid"
  /\ pc' = "returned"
  /\ UNCHANGED <<intAsReal, input, c, due, from, value, held, err>>

Word ==
  /\ pc = "word"
  /\ IF c \in Letters
     THEN GetAndSave /\ GoesOn("word")
     ELSE /\ stream' = PutBack
          /\ Unsave
          /\ IF savedText' \in Keywords THEN Return("literal", savedText', "none")
             ELSE Invalid("none")

-----------------------------------------------------------------------------
(* scan_string                                                             *)

OpenString ==
  /\ pc = "quote"
  /\ GetAndSave
  /\ GoesOn("string")

StringGoesOn ==
  /\ pc = "string"
  /\ c \notin {Quote} \cup Controls \cup NoChar
  /\ GetAndSave
  /\ GoesOn(IF c = Backslash THEN "escape" ELSE "string")

StringBroken ==
  /\ pc = "string"
  /\ c \in Controls \cup NoChar
  /\ stream' = PutBack
  /\ Unsave
  /\ Invalid(IF c = "ERROR" THEN "none" ELSE IF c = "EOF" THEN "premature_end" ELSE "syntax")

\* Mutant: the solidus is forgotten.
SimpleEscapesOfC == {Quote, Backslash, "n"}

SimpleEscapes == {Quote, Backslash, "/", "n"}

Escape ==
  /\ pc = "escape"
  /\ IF c \in {"u"} \cup SimpleEscapes
     THEN /\ GetAndSave
          /\ pc' = IF c = "u" THEN "digits" ELSE "string"
          /\ due' = IF c = "u" THEN EscapeDigits ELSE 0
          /\ UNCHANGED <<intAsReal, from, result>>
     ELSE Invalid("syntax") /\ UNCHANGED <<stream, text>>

EscapeDigit ==
  /\ pc = "digits"
  /\ IF c \in HexDigits
     THEN /\ GetAndSave
          /\ due' = due - 1
          /\ pc' = IF due = 1 THEN "string" ELSE "digits"
          /\ UNCHANGED <<intAsReal, from, result>>
     ELSE Invalid("syntax") /\ UNCHANGED <<stream, text>>

\* The two outcomes of the decoding that are not a string.
BadEscape == <<<<"bad escape">>>>
Unreachable == <<<<"unreachable">>>>

\* decode_unicode_escape(bytes[i..]): whether there is one.
IsUnitAt(bytes, i) ==
  /\ Len(bytes) >= i + EscapeDigits
  /\ bytes[i] = "u"
  /\ \A j \in i + 1 .. i + EscapeDigits : bytes[j] \in HexDigits

UnitAt(bytes, i) == SubSeq(bytes, i + 1, i + EscapeDigits)

\* Mutant: the second half of a pair is not checked.
IsTrailingAny(unit) == TRUE

\* 0xDC00..=0xDFFF
IsTrailing(unit) == unit \in Trailing

\* What the text between the quotes stands for: a byte, <<b>>, for itself, and a
\* unit or a pair of units, <<"u">> \o digits, for a code point.
Decoded(bytes) ==
  LET Then(first, others) ==
        IF others \in {BadEscape, Unreachable} THEN others ELSE <<first>> \o others
      next == EscapeDigits + 2
      rest[i \in Nat] ==
        IF i >= Len(bytes) THEN << >>
        ELSE IF bytes[i] # Backslash THEN Then(<<bytes[i]>>, rest[i + 1])
        ELSE IF bytes[i + 1] = "n" THEN Then(<<"newline">>, rest[i + 2])
        ELSE IF bytes[i + 1] \in {Quote, Backslash, "/"} THEN Then(<<bytes[i + 1]>>, rest[i + 2])
        ELSE IF bytes[i + 1] # "u" THEN Unreachable
        ELSE IF ~IsUnitAt(bytes, i + 1) THEN BadEscape
        ELSE LET unit == UnitAt(bytes, i + 1)
             IN IF unit \in Leading
                THEN IF /\ IsUnitAt(bytes, i + next + 1)
                        /\ bytes[i + next] = Backslash
                        /\ IsTrailing(UnitAt(bytes, i + next + 1))
                     THEN Then(<<"u">> \o unit \o UnitAt(bytes, i + next + 1), rest[i + 2 * next])
                     ELSE BadEscape
                ELSE IF unit \in Trailing THEN BadEscape
                ELSE Then(<<"u">> \o unit, rest[i + next])
  IN rest[2]

CloseString ==
  /\ pc = "string"
  /\ c = Quote
  /\ UNCHANGED <<stream, text>>
  /\ \/ Invalid("out_of_memory")
     \/ LET decoded == Decoded(savedText)
        IN CASE decoded = BadEscape -> Invalid("syntax")
             [] decoded = Unreachable -> Return("panic", << >>, "none")
             [] OTHER -> Return("string", decoded, "none")

\* steal_string: the parser takes the string.
StealString ==
  /\ pc = "returned"
  /\ held
  /\ held' = FALSE
  /\ UNCHANGED <<intAsReal, input, stream, text, c, pc, due, from, token, value, err>>

\* close, when the parser has what it wants or has failed
Close ==
  /\ pc = "returned"
  /\ pc' = "closed"
  /\ held' = StringLeft
  /\ savedText' = << >>
  /\ size' = 0
  /\ UNCHANGED <<intAsReal, input, stream, lost, c, due, from, token, value, err>>

-----------------------------------------------------------------------------
(* scan_number                                                             *)

NumberStates == {"number", "integer", "zero", "whole", "fraction", "exponent", "sign", "power"}

\* <<at, b, to>>: the scan of a number that is at at and comes to b goes on to to.
NumberNext ==
  ({"number"} \X {"-"} \X {"integer"})
    \cup ({"number", "integer"} \X {"0"} \X {"zero"})
    \cup ({"number", "integer"} \X {"1"} \X {"whole"})
    \cup ({"whole"} \X Digits \X {"whole"})
    \cup ({"zero", "whole"} \X {"."} \X {"point"})
    \cup ({"fraction"} \X Digits \X {"fraction"})
    \cup ({"zero", "whole", "fraction"} \X {"e"} \X {"exponent"})
    \cup ({"exponent"} \X Signs \X {"sign"})
    \cup ({"exponent", "sign", "power"} \X Digits \X {"power"})

\* Whether the character belongs to the number.
InNumber == \E to \in NumberStates \cup {"point"} : <<pc, c, to>> \in NumberNext

NumberGoesOn ==
  \E to \in NumberStates :
    /\ <<pc, c, to>> \in NumberNext
    /\ GetAndSave
    /\ GoesOn(to)

\* The character after a point is read without being saved.
Point ==
  /\ <<pc, c, "point">> \in NumberNext
  /\ GetChar
  /\ GoesOn("point")
  /\ UNCHANGED text

AfterPoint ==
  /\ pc = "point"
  /\ IF c \in Digits
     THEN AppendBytes(<<c>>) /\ GoesOn("fraction") /\ UNCHANGED <<input, stream, c, err>>
     ELSE stream' = PutBack /\ UNCHANGED text /\ Invalid("none")

NumberBroken ==
  /\ pc \in NumberStates
  /\ ~InNumber
  /\ pc \in {"integer", "exponent", "sign"} \/ (pc = "zero" /\ c \in Digits)
  /\ stream' = PutBack
  /\ Unsave
  /\ Invalid("none")

IntegerEnds ==
  /\ pc \in {"zero", "whole"}
  /\ c \notin Digits \cup {".", "e"}
  /\ stream' = PutBack
  /\ Unsave
  /\ ReturnNumber(IF intAsReal THEN "real" ELSE "integer")

RealEnds ==
  /\ pc \in {"fraction", "power"}
  /\ ~InNumber
  /\ stream' = PutBack
  /\ Unsave
  /\ ReturnNumber("real")

-----------------------------------------------------------------------------
Next ==
  \/ Scan \/ SkipBlank \/ NoToken \/ Structural \/ Begin \/ Unknown \/ Word
  \/ OpenString \/ StringGoesOn \/ StringBroken \/ Escape \/ EscapeDigit \/ CloseString
  \/ StealString \/ Close
  \/ NumberGoesOn \/ Point \/ AfterPoint \/ NumberBroken \/ IntegerEnds \/ RealEnds

Spec == Init /\ [][Next]_vars

-----------------------------------------------------------------------------
(* The tokens of RFC 8259                                                  *)

\* A part of a string and what it stands for: a character, an escape, a unit that
\* is no half of a pair, or a pair of units.
Pieces ==
  LET unit(u) == <<Backslash, "u">> \o u
      Characters == {<<b>> : b \in Ascii \ (Controls \cup {Quote, Backslash})}
                      \cup {s \in [1 .. LeadWidth -> Bytes] : s[1] = "lead" /\ WellFormed(s)}
  IN {[text |-> s, value |-> [i \in DOMAIN s |-> <<s[i]>>]] : s \in Characters}
     \cup {[text |-> <<Backslash, b>>, value |-> <<<<b>>>>] : b \in {Quote, Backslash, "/"}}
     \cup {[text |-> <<Backslash, "n">>, value |-> <<<<"newline">>>>]}
     \cup {[text |-> unit(u), value |-> <<<<"u">> \o u>>] : u \in Units \ (Leading \cup Trailing)}
     \cup {[text |-> unit(u) \o unit(v), value |-> <<<<"u">> \o u \o v>>] :
             u \in Leading, v \in Trailing}

\* The values of the text s between quotes: one, or none if s is not made of pieces.
\* With cut, the last piece may be incomplete.
Readings(s, cut) ==
  LET rest(i) == SubSeq(s, i, Len(s))
      from1[i \in Nat] ==
        IF i > Len(s) THEN {<< >>}
        ELSE UNION {LET others == from1[i + Len(p.text)]
                    IN {p.value \o v : v \in others} : p \in {q \in Pieces : IsPrefix(q.text, rest(i))}}
             \cup IF cut /\ \E p \in Pieces : IsStrictPrefix(rest(i), p.text) THEN {<< >>} ELSE {}
  IN from1[1]

StringValues(s) ==
  IF Len(s) >= 2 /\ s[1] = Quote /\ Last(s) = Quote
  THEN Readings(SubSeq(s, 2, Len(s) - 1), FALSE) ELSE {}

AllIn(s, S) == ToSet(s) \subseteq S

\* [ minus ] int [ frac ] [ exp ], in parts that end before j, k and l.
IsInteger(s) ==
  \E j \in 1 .. 2 :
    /\ j = 2 => Len(s) > 0 /\ s[1] = "-"
    /\ LET int == SubSeq(s, j, Len(s))
       IN AllIn(int, Digits) /\ int # << >> /\ (int[1] = "0" => Len(int) = 1)

IsFraction(s) == s = << >> \/ (s[1] = "." /\ Len(s) > 1 /\ AllIn(Tail(s), Digits))

IsExponent(s) ==
  \/ s = << >>
  \/ /\ s[1] = "e"
     /\ \E j \in 2 .. 3 :
          /\ j = 3 => Len(s) > 1 /\ s[2] \in Signs
          /\ Len(s) >= j
          /\ AllIn(SubSeq(s, j, Len(s)), Digits)

IsNumber(s) ==
  \E i \in 0 .. Len(s) : \E k \in i .. Len(s) :
    /\ IsInteger(SubSeq(s, 1, i))
    /\ IsFraction(SubSeq(s, i + 1, k))
    /\ IsExponent(SubSeq(s, k + 1, Len(s)))

IsLexeme(s) == s = <<"[">> \/ s \in Keywords \/ IsNumber(s) \/ StringValues(s) # {}

\* Whether s is a lexeme or the beginning of one.
BeginsLexeme(s) ==
  \/ IsLexeme(s)
  \/ \E k \in Keywords : IsPrefix(s, k)
  \/ IsNumber(Append(s, "1"))
  \/ s # << >> /\ s[1] = Quote /\ Readings(Tail(s), TRUE) # {}

-----------------------------------------------------------------------------
(* Properties                                                              *)

Between(first, last) == SubSeq(input, first + 1, last)

\* Nothing is put back that was not read, and nothing is written behind the end of
\* saved_text, which always has room for the NUL; and a string is the lexer's to
\* free only while the token says so, which is all that close and the next scan
\* look at.
TypeOK ==
  /\ intAsReal \in BOOLEAN
  /\ AllIn(input, Bytes)
  /\ stream.state \in {"OK", "EOF", "ERROR"}
  /\ stream.pos \in 0 .. Len(stream.buffer)
  /\ stream.position \in 0 .. Len(input)
  /\ stream.line \in Nat \ {0} /\ stream.column \in Nat
  /\ pc # "closed" => Len(savedText) < size
  /\ lost \in 0 .. MaxLost
  /\ c \in Bytes \cup NoChar
  /\ due \in 0 .. EscapeDigits
  /\ from \in 0 .. Len(input)
  /\ held => token = "string" /\ pc = "returned"
  /\ err \in {"none", "invalid_utf8", "premature_end", "syntax", "overflow", "out_of_memory"}

\* The places in an error (and the position that json_loads reports to a caller who
\* goes on with the next text) are those of the bytes read and not put back: after
\* any number of push-backs, at the ends of lines and in the middle of characters,
\* position counts them, line the newlines, and column the characters of the line.
\* (TypeOK is part of it.)
PositionsAgree ==
  /\ TypeOK
  /\ LET done == Between(0, stream.position)
         newlines == {i \in DOMAIN done : done[i] = "\n"}
         lineStart == Max({0} \cup newlines)
     IN /\ stream.line = 1 + Cardinality(newlines)
        /\ stream.column = Cardinality({i \in lineStart + 1 .. Len(done) : Width(done[i]) # 0})
        /\ stream.state # "ERROR" =>
             Between(stream.position, Len(input))
               = SubSeq(stream.buffer, stream.pos + 1, Len(stream.buffer))

\* A token that scan returns is a lexeme of RFC 8259 which the input has at that
\* place, with the value it denotes there; it is the longest one; and all of the
\* input after it is left for the next scan.  This needs that no byte was lost.
TokensAreLexemes ==
  pc = "returned" /\ token \notin {"none", "eof", "invalid"} /\ lost = 0 =>
    LET s == Between(from, stream.position)
        more == Between(from, stream.position + 1)
    IN /\ CASE token = "string" -> value \in StringValues(s)
            [] token = "integer" -> value = s /\ IsInteger(s) /\ ~intAsReal
            [] token = "real" -> value = s /\ IsNumber(s) /\ (intAsReal \/ ~IsInteger(s))
            [] token = "literal" -> value = s /\ s \in Keywords
            [] token = "[" -> s = <<"[">>
            [] OTHER -> FALSE
       /\ token # "string" /\ Len(input) > stream.position => ~BeginsLexeme(more)

\* scan refuses only what it has to: unless memory ran out or a number is too big,
\* what it has read begins no lexeme, or the input ended before one did, or has a
\* byte that is not UTF-8; and no lexeme was refused for a byte after it that
\* cannot make it longer and is neither letter nor digit.  The error names the cause.
RejectsOnlyNonLexemes ==
  pc = "returned" /\ token = "invalid" /\ err \notin {"out_of_memory", "overflow"} /\ lost = 0 =>
    /\ stream.state = "OK" => ~BeginsLexeme(Between(from, Len(input)))
    /\ stream.state # "ERROR" =>
         \A k \in from + 1 .. Len(input) :
           IsLexeme(Between(from, k)) =>
             /\ k < Len(input)
             /\ input[k + 1] \in Digits \cup Letters \/ BeginsLexeme(Between(from, k + 1))
    /\ stream.state = "ERROR" <=> err = "invalid_utf8"
    /\ err = "premature_end" => stream.state = "EOF"

\* What scan returns is what the bytes say, also when memory runs out: otherwise it
\* returns an error ("NULL on error, in which case error is filled with information
\* about the error", apiref.rst).
NoWrongToken ==
  pc = "returned" =>
    /\ token # "panic"
    /\ token \in {"integer", "real", "literal"} => value = Between(from, stream.position)
    /\ token = "string" => value \in StringValues(Between(from, stream.position))
=============================================================================
