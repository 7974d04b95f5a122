---------------------------- MODULE LexerProofs ----------------------------
(***************************************************************************)
(* That the places the lexer reports are those of the bytes it has read    *)
(* and not put back, for every input, any character set in which only the  *)
(* bytes behind the first of a character are continuation bytes, and any   *)
(* width of characters; and with it that nothing is put back that was not  *)
(* read, that the text of a token always has room for its NUL, and that no *)
(* string is lost.                                                         *)
(*                                                                         *)
(* First what one more byte does to the lines and columns of a text, then  *)
(* what get_char and unget_char do to the stream, and from these the       *)
(* steps.                                                                  *)
(*                                                                         *)
(* Then that the tokens are lexemes: what a text that the scanner is in    *)
(* the middle of may be, for a number as the state the scan is in, for a   *)
(* string as the places where its parts begin; that the grammar and the    *)
(* decoding of load.rs read the same parts; that the text is the input     *)
(* from the token on; and again the steps.                                 *)
(*                                                                         *)
(* At the end that only what is no lexeme is refused: which parts the      *)
(* grammar can read of a text that the scanner gives up, that none of them *)
(* leads to its end, that the stream is the only one to report an error    *)
(* before the scanner does; and the steps that refuse.                     *)
(***************************************************************************)
EXTENDS Lexer, FiniteSetTheorems, SequenceTheorems, WellFoundedInduction, TLAPS

-----------------------------------------------------------------------------
(* Lines and columns of the first n bytes of a text                        *)

Newlines(s, n) == {i \in 1 .. n : s[i] = "\n"}
LineStart(s, n) == Max({0} \cup Newlines(s, n))
Characters(s, n) == {i \in LineStart(s, n) + 1 .. n : Width(s[i]) # 0}

\* Whether the places of the stream x are those behind the first n bytes of s.
At(x, s, n) ==
  /\ x.line = 1 + Cardinality(Newlines(s, n))
  /\ x.column = Cardinality(Characters(s, n))

\* A set of naturals has a smallest member.
LEMMA SmallestExists ==
  ASSUME NEW S \in SUBSET Nat, S # {}
  PROVE  \E x \in S : \A y \in S : x <= y
<1>1. PICK x \in S : \A y \in S : ~ (<<y, x>> \in OpToRel(<, Nat))
  BY WFMin, NatLessThanWellFounded, Zenon
<1>2. \A y \in Nat : y < x => <<y, x>> \in OpToRel(<, Nat)
  BY DEF OpToRel
<1>3. \A y \in S : ~ (y < x)
  BY <1>1, <1>2, Zenon
<1>4. \A y \in S : x <= y
  BY <1>3
<1> QED
  BY <1>4

\* Max of a set of numbers up to n is what its name says.
LEMMA MaxIsLargest ==
  ASSUME NEW n \in Nat, NEW S \in SUBSET (0 .. n), S # {}
  PROVE  Max(S) \in S /\ \A y \in S : y <= Max(S)
<1> DEFINE U == {u \in Nat : \A y \in S : y <= u}
<1>1. n \in U
  OBVIOUS
<1>2. PICK u \in U : \A v \in U : u <= v
  <2> HIDE DEF U
  <2>1. U \in SUBSET Nat
    BY DEF U
  <2> QED
    BY <1>1, <2>1, SmallestExists
<1>3. u \in S
  <2> SUFFICES ASSUME u \notin S PROVE FALSE
    OBVIOUS
  <2>1. PICK y \in S : TRUE
    OBVIOUS
  <2>2. u > 0 /\ u - 1 \in Nat
    BY <2>1
  <2>3. \A z \in S : z <= u - 1
    BY <2>2
  <2>4. u - 1 \in U
    BY <2>2, <2>3
  <2> QED
    BY <1>2, <2>4, <2>2
<1>4. \A x \in S : (\A y \in S : x >= y) => x = u
  BY <1>3, <1>2
<1>5. \A y \in S : u >= y
  BY <1>2
<1>6. Max(S) = u
  BY <1>3, <1>4, <1>5 DEF Max
<1> QED
  BY <1>3, <1>5, <1>6

\* Where the last line begins.
LEMMA LineStartIs ==
  ASSUME NEW s, NEW n \in Nat
  PROVE  /\ LineStart(s, n) \in {0} \cup Newlines(s, n)
         /\ LineStart(s, n) \in 0 .. n
         /\ \A i \in Newlines(s, n) : i <= LineStart(s, n)
<1> DEFINE S == {0} \cup Newlines(s, n)
<1>1. S \in SUBSET (0 .. n) /\ S # {}
  BY DEF Newlines
<1>2. Max(S) \in S /\ \A y \in S : y <= Max(S)
  BY <1>1, MaxIsLargest
<1> QED
  BY <1>1, <1>2 DEF LineStart

\* A line start is the only number that is one.
LEMMA LineStartIsOnly ==
  ASSUME NEW s, NEW n \in Nat, NEW m \in {0} \cup Newlines(s, n),
         \A i \in Newlines(s, n) : i <= m
  PROVE  LineStart(s, n) = m
<1>1. m \in Nat
  BY DEF Newlines
<1> QED
  BY <1>1, LineStartIs DEF Newlines

\* What one more byte does to the newlines, the line and its characters.
LEMMA OneMoreByte ==
  ASSUME NEW s, NEW n \in Nat
  PROVE  /\ Newlines(s, n + 1)
              = IF s[n + 1] = "\n" THEN Newlines(s, n) \cup {n + 1} ELSE Newlines(s, n)
         /\ LineStart(s, n + 1) = IF s[n + 1] = "\n" THEN n + 1 ELSE LineStart(s, n)
         /\ Characters(s, n + 1)
              = IF s[n + 1] = "\n" THEN {}
                ELSE IF Width(s[n + 1]) # 0 THEN Characters(s, n) \cup {n + 1}
                ELSE Characters(s, n)
<1>1. Newlines(s, n + 1)
        = IF s[n + 1] = "\n" THEN Newlines(s, n) \cup {n + 1} ELSE Newlines(s, n)
  BY DEF Newlines
<1>2. LineStart(s, n + 1) = IF s[n + 1] = "\n" THEN n + 1 ELSE LineStart(s, n)
  <2>1. CASE s[n + 1] = "\n"
    <3>1. \A i \in Newlines(s, n + 1) : i <= n + 1
      BY DEF Newlines
    <3>2. n + 1 \in Newlines(s, n + 1)
      BY <2>1 DEF Newlines
    <3> QED
      BY <2>1, <3>1, <3>2, LineStartIsOnly
  <2>2. CASE s[n + 1] # "\n"
    <3>1. LineStart(s, n) \in {0} \cup Newlines(s, n + 1)
      BY <1>1, <2>2, LineStartIs
    <3>2. \A i \in Newlines(s, n + 1) : i <= LineStart(s, n)
      BY <1>1, <2>2, LineStartIs
    <3>3. n + 1 \in Nat
      OBVIOUS
    <3>4. LineStart(s, n + 1) = LineStart(s, n)
      BY <3>1, <3>2, <3>3, LineStartIsOnly, Zenon
    <3> QED
      BY <2>2, <3>4
  <2> QED
    BY <2>1, <2>2
<1>3. LineStart(s, n) \in 0 .. n
  BY LineStartIs
<1>4. Characters(s, n + 1)
        = {i \in LineStart(s, n + 1) + 1 .. n + 1 : Width(s[i]) # 0}
  BY DEF Characters
<1>5. Characters(s, n) = {i \in LineStart(s, n) + 1 .. n : Width(s[i]) # 0}
  BY DEF Characters
<1>6. Characters(s, n + 1)
        = IF s[n + 1] = "\n" THEN {}
          ELSE IF Width(s[n + 1]) # 0 THEN Characters(s, n) \cup {n + 1}
          ELSE Characters(s, n)
  <2>1. CASE s[n + 1] = "\n"
    BY <2>1, <1>2, <1>4
  <2>2. CASE s[n + 1] # "\n"
    <3>1. LineStart(s, n + 1) + 1 .. n + 1 = (LineStart(s, n) + 1 .. n) \cup {n + 1}
      BY <2>2, <1>2, <1>3
    <3> QED
      BY <2>2, <1>4, <1>5, <3>1
  <2> QED
    BY <2>1, <2>2
<1> QED
  BY <1>1, <1>2, <1>6

\* The numbers of lines and of characters are numbers.
LEMMA Counted ==
  ASSUME NEW s, NEW n \in Nat
  PROVE  /\ IsFiniteSet(Newlines(s, n)) /\ Cardinality(Newlines(s, n)) \in Nat
         /\ IsFiniteSet(Characters(s, n)) /\ Cardinality(Characters(s, n)) \in Nat
<1>1. IsFiniteSet(1 .. n)
  BY FS_Interval
<1>2. Newlines(s, n) \in SUBSET (1 .. n)
  BY DEF Newlines
<1>3. Characters(s, n) \in SUBSET (1 .. n)
  BY LineStartIs DEF Characters
<1>4. IsFiniteSet(Newlines(s, n)) /\ IsFiniteSet(Characters(s, n))
  BY <1>1, <1>2, <1>3, FS_Subset
<1> QED
  BY <1>4, FS_CardinalityType

\* The same in numbers.
LEMMA OneMoreCounted ==
  ASSUME NEW s, NEW n \in Nat
  PROVE  /\ Cardinality(Newlines(s, n + 1))
              = Cardinality(Newlines(s, n)) + IF s[n + 1] = "\n" THEN 1 ELSE 0
         /\ Cardinality(Characters(s, n + 1))
              = IF s[n + 1] = "\n" THEN 0
                ELSE Cardinality(Characters(s, n)) + IF Width(s[n + 1]) # 0 THEN 1 ELSE 0
<1>1. n + 1 \notin Newlines(s, n) /\ n + 1 \notin Characters(s, n)
  BY DEF Newlines, Characters
<1>2. Cardinality(Newlines(s, n) \cup {n + 1}) = Cardinality(Newlines(s, n)) + 1
  BY <1>1, Counted, FS_AddElement
<1>3. Cardinality(Characters(s, n) \cup {n + 1}) = Cardinality(Characters(s, n)) + 1
  BY <1>1, Counted, FS_AddElement
<1>4. Cardinality({}) = 0
  BY FS_EmptySet
<1>5. Newlines(s, n + 1)
        = IF s[n + 1] = "\n" THEN Newlines(s, n) \cup {n + 1} ELSE Newlines(s, n)
  BY OneMoreByte
<1>6. Characters(s, n + 1)
        = IF s[n + 1] = "\n" THEN {}
          ELSE IF Width(s[n + 1]) # 0 THEN Characters(s, n) \cup {n + 1}
          ELSE Characters(s, n)
  BY OneMoreByte
<1>7. Cardinality(Newlines(s, n)) \in Nat /\ Cardinality(Characters(s, n)) \in Nat
  BY Counted
<1> QED
  BY <1>2, <1>3, <1>4, <1>5, <1>6, <1>7

\* Only the bytes up to n count.
LEMMA SameBytesSamePlaces ==
  ASSUME NEW s, NEW t, NEW n \in Nat, \A i \in 1 .. n : s[i] = t[i]
  PROVE  /\ Newlines(s, n) = Newlines(t, n)
         /\ Characters(s, n) = Characters(t, n)
<1>1. Newlines(s, n) = Newlines(t, n)
  BY DEF Newlines
<1>2. LineStart(s, n) = LineStart(t, n) /\ LineStart(s, n) \in 0 .. n
  BY <1>1, LineStartIs DEF LineStart
<1> QED
  BY <1>1, <1>2 DEF Characters

-----------------------------------------------------------------------------
(* The stream                                                              *)

Codes == {"none", "invalid_utf8", "premature_end", "syntax", "overflow", "out_of_memory"}

Streams ==
  [state: {"OK", "EOF", "ERROR"}, buffer: Seq(Bytes), pos: Nat, line: Nat \ {0},
   column: Nat, lastColumn: Nat, position: Nat]

\* s has behind n what b has behind p.
Continues(s, n, b, p) ==
  /\ Len(s) - n = Len(b) - p
  /\ \A k \in 1 .. Len(b) - p : s[n + k] = b[p + k]

\* Between position and the end of the input lies what is left of the buffer, which
\* is one character; and line and column are those of position.
StreamOK ==
  /\ input \in Seq(Bytes)
  /\ stream \in Streams
  /\ stream.pos <= Len(stream.buffer)
  /\ stream.position <= Len(input)
  /\ At(stream, input, stream.position)
  /\ stream.state # "ERROR" =>
       Continues(input, stream.position, stream.buffer, stream.pos)
  /\ \A i \in 2 .. Len(stream.buffer) : stream.buffer[i] = "cont"

\* c is the last byte of the stream and can be put back; or the stream has ended.
CharRead ==
  /\ c \in Bytes \cup NoChar
  /\ c \notin NoChar =>
       /\ stream.state = "OK"
       /\ stream.pos > 0 /\ stream.position > 0
       /\ stream.buffer[stream.pos] = c
       /\ input[stream.position] = c
       /\ c = "\n" => stream.lastColumn = Cardinality(Characters(input, stream.position - 1))

LEMMA WidthIs ==
  /\ \A b \in Bytes : Width(b) \in 0 .. 4
  /\ Width("cont") = 0 /\ Width("\n") = 1
  /\ \A b \in Bytes : Width(b) > 1 => Width(b) = LeadWidth
BY SizesAssumption DEF Width

\* One byte on, and one byte back.
LEMMA ContinuesOneOn ==
  ASSUME NEW s \in Seq(Bytes), NEW b \in Seq(Bytes), NEW n \in Nat, NEW p \in Nat,
         Continues(s, n, b, p), p < Len(b)
  PROVE  s[n + 1] = b[p + 1] /\ Continues(s, n + 1, b, p + 1) /\ n < Len(s)
<1>1. Len(s) \in Nat /\ Len(b) \in Nat
  OBVIOUS
<1>2. Len(s) - (n + 1) = Len(b) - (p + 1) /\ s[n + 1] = b[p + 1] /\ n < Len(s)
  BY <1>1 DEF Continues
<1>3. ASSUME NEW k \in 1 .. Len(b) - (p + 1) PROVE s[n + 1 + k] = b[p + 1 + k]
  <2>1. k + 1 \in 1 .. Len(b) - p
    BY <1>1
  <2>2. s[n + (k + 1)] = b[p + (k + 1)]
    BY <2>1 DEF Continues
  <2>3. n + (k + 1) = n + 1 + k /\ p + (k + 1) = p + 1 + k
    OBVIOUS
  <2> QED
    BY <2>2, <2>3
<1> QED
  BY <1>2, <1>3 DEF Continues

LEMMA ContinuesOneBack ==
  ASSUME NEW s \in Seq(Bytes), NEW b \in Seq(Bytes), NEW n \in Nat, NEW p \in Nat,
         Continues(s, n + 1, b, p + 1), s[n + 1] = b[p + 1]
  PROVE  Continues(s, n, b, p)
<1>1. Len(s) \in Nat /\ Len(b) \in Nat
  OBVIOUS
<1>2. Len(s) - n = Len(b) - p
  BY <1>1 DEF Continues
<1>3. ASSUME NEW k \in 1 .. Len(b) - p PROVE s[n + k] = b[p + k]
  <2>1. CASE k = 1
    BY <2>1
  <2>2. CASE k # 1
    <3>1. k - 1 \in 1 .. Len(b) - (p + 1)
      BY <1>1, <2>2
    <3>2. s[n + 1 + (k - 1)] = b[p + 1 + (k - 1)]
      BY <3>1 DEF Continues
    <3>3. k \in Int
      OBVIOUS
    <3>4. n + 1 + (k - 1) = n + k /\ p + 1 + (k - 1) = p + k
      BY <3>3
    <3> QED
      BY <3>2, <3>4
  <2> QED
    BY <2>1, <2>2
<1> QED
  BY <1>2, <1>3 DEF Continues

LEMMA CharsAreNoBytes == Bytes \cap NoChar = {}
BY DEF Bytes, Ascii, Blanks, Digits, Letters, Signs, Controls, Quote, Backslash, NoChar

\* The places of a stream follow the bytes.
LEMMA AdvancedWorks ==
  ASSUME NEW x \in Streams, NEW b \in Bytes, NEW s, At(x, s, x.position), s[x.position + 1] = b
  PROVE  LET y == Advanced(x, b)
         IN /\ y \in Streams
            /\ y.state = x.state /\ y.buffer = x.buffer
            /\ y.pos = x.pos + 1 /\ y.position = x.position + 1
            /\ At(y, s, y.position)
            /\ b = "\n" => y.lastColumn = Cardinality(Characters(s, x.position))
<1> DEFINE y == Advanced(x, b)
           n == x.position
<1>1. n \in Nat /\ x.line \in Nat \ {0} /\ x.column \in Nat /\ x.pos \in Nat /\ x.lastColumn \in Nat
  BY DEF Streams
<1>2. /\ y.state = x.state /\ y.buffer = x.buffer
      /\ y.pos = x.pos + 1 /\ y.position = n + 1
      /\ y.line = IF b = "\n" THEN x.line + 1 ELSE x.line
      /\ y.lastColumn = IF b = "\n" THEN x.column ELSE x.lastColumn
      /\ y.column = IF b = "\n" THEN 0 ELSE IF Width(b) # 0 THEN x.column + 1 ELSE x.column
  BY DEF Advanced, Streams
<1>9. y \in Streams
  <2>1. ASSUME NEW pos \in Nat, NEW position \in Nat, NEW line \in Nat \ {0},
               NEW lastColumn \in Nat, NEW column \in Nat
        PROVE  [x EXCEPT !.pos = pos, !.position = position, !.line = line,
                         !.lastColumn = lastColumn, !.column = column] \in Streams
    BY DEF Streams
  <2>3. /\ x.pos + 1 \in Nat /\ x.position + 1 \in Nat
        /\ (IF b = "\n" THEN x.line + 1 ELSE x.line) \in Nat \ {0}
        /\ (IF b = "\n" THEN x.column ELSE x.lastColumn) \in Nat
        /\ (IF b = "\n" THEN 0 ELSE IF Width(b) # 0 THEN x.column + 1 ELSE x.column) \in Nat
    BY <1>1
  <2> QED
    BY <2>1, <2>3 DEF Advanced
<1>3. Cardinality(Newlines(s, n)) \in Nat /\ Cardinality(Characters(s, n)) \in Nat
  BY <1>1, Counted
<1>4. /\ Cardinality(Newlines(s, n + 1))
           = Cardinality(Newlines(s, n)) + IF b = "\n" THEN 1 ELSE 0
      /\ Cardinality(Characters(s, n + 1))
           = IF b = "\n" THEN 0
             ELSE Cardinality(Characters(s, n)) + IF Width(b) # 0 THEN 1 ELSE 0
  BY <1>1, OneMoreCounted
<1>5. x.line = 1 + Cardinality(Newlines(s, n)) /\ x.column = Cardinality(Characters(s, n))
  BY DEF At
<1>6. At(y, s, n + 1)
  BY <1>2, <1>3, <1>4, <1>5 DEF At
<1> QED
  BY <1>2, <1>5, <1>6, <1>9

\* unget_char takes the places back.
LEMMA PutBackWorks ==
  ASSUME StreamOK, CharRead, stream' = PutBack, input' = input
  PROVE  StreamOK'
<1>1. CASE c \in NoChar
  <2>1. stream' = stream
    BY <1>1 DEF PutBack
  <2> QED
    BY <2>1 DEF StreamOK, At
<1>2. CASE c \notin NoChar
  <2> DEFINE n == stream.position - 1
  <2>1. /\ stream.state = "OK" /\ stream.pos > 0 /\ stream.position > 0
        /\ stream.buffer[stream.pos] = c /\ input[stream.position] = c
        /\ c = "\n" => stream.lastColumn = Cardinality(Characters(input, n))
        /\ c \in Bytes
    BY <1>2 DEF CharRead
  <2>2. /\ stream.pos \in Nat /\ stream.position \in Nat /\ n \in Nat /\ n + 1 = stream.position
        /\ stream.line \in Nat \ {0} /\ stream.column \in Nat /\ stream.lastColumn \in Nat
        /\ stream.buffer \in Seq(Bytes)
    BY <2>1 DEF StreamOK, Streams
  <2>3. /\ stream'.state = "OK" /\ stream'.buffer = stream.buffer
        /\ stream'.pos = stream.pos - 1 /\ stream'.position = n
        /\ stream'.lastColumn = stream.lastColumn
        /\ stream'.line = IF c = "\n" THEN stream.line - 1 ELSE stream.line
        /\ stream'.column = IF c = "\n" THEN stream.lastColumn
                            ELSE IF Width(c) # 0 THEN stream.column - 1 ELSE stream.column
    BY <1>2, <2>1, <2>2 DEF PutBack, StreamOK, Streams
  <2>4. Cardinality(Newlines(input, n)) \in Nat /\ Cardinality(Characters(input, n)) \in Nat
    BY <2>2, Counted
  <2>5. /\ Cardinality(Newlines(input, n + 1))
             = Cardinality(Newlines(input, n)) + IF c = "\n" THEN 1 ELSE 0
        /\ Cardinality(Characters(input, n + 1))
             = IF c = "\n" THEN 0
               ELSE Cardinality(Characters(input, n)) + IF Width(c) # 0 THEN 1 ELSE 0
    BY <2>1, <2>2, OneMoreCounted
  <2>6. /\ stream.line = 1 + Cardinality(Newlines(input, n + 1))
        /\ stream.column = Cardinality(Characters(input, n + 1))
    BY <2>2 DEF StreamOK, At
  <2>7. At(stream', input, n)
    BY <2>1, <2>3, <2>4, <2>5, <2>6 DEF At
  <2>8. stream' \in Streams
    <3>1. stream'.line \in Nat \ {0} /\ stream'.column \in Nat
      BY <2>7, <2>4 DEF At
    <3>2. stream' = [state |-> stream'.state, buffer |-> stream'.buffer, pos |-> stream'.pos,
                     line |-> stream'.line, column |-> stream'.column,
                     lastColumn |-> stream'.lastColumn, position |-> stream'.position]
      BY <1>2, <2>2 DEF PutBack, StreamOK, Streams
    <3> HIDE DEF n
    <3> QED
      BY <3>1, <3>2, <2>1, <2>2, <2>3 DEF Streams
  <2>9. Continues(input, n, stream.buffer, stream.pos - 1)
    <3>1. Continues(input, stream.position, stream.buffer, stream.pos)
      BY <2>1 DEF StreamOK
    <3>2. stream.pos - 1 \in Nat /\ (stream.pos - 1) + 1 = stream.pos /\ input \in Seq(Bytes)
      BY <2>1, <2>2 DEF StreamOK
    <3> QED
      BY <3>1, <3>2, <2>1, <2>2, ContinuesOneBack
  <2> QED
    BY <2>2, <2>3, <2>7, <2>8, <2>9 DEF StreamOK
<1> QED
  BY <1>1, <1>2
\* What is fetched is put behind the input.
LEMMA InputGrows ==
  ASSUME StreamOK, NEW f \in Seq(Bytes)
  PROVE  /\ input \o f \in Seq(Bytes)
         /\ Len(input \o f) = Len(input) + Len(f)
         /\ stream.position <= Len(input \o f)
         /\ At(stream, input \o f, stream.position)
         /\ \A k \in 1 .. Len(f) : (input \o f)[Len(input) + k] = f[k]
<1>1. stream.position \in Nat /\ stream.position <= Len(input) /\ Len(input) \in Nat /\ Len(f) \in Nat
  BY DEF StreamOK, Streams
<1>2. /\ input \o f \in Seq(Bytes)
      /\ Len(input \o f) = Len(input) + Len(f)
      /\ \A i \in 1 .. Len(input) + Len(f) :
           (input \o f)[i] = IF i <= Len(input) THEN input[i] ELSE f[i - Len(input)]
  BY ConcatProperties DEF StreamOK
<1>3. \A i \in 1 .. stream.position : (input \o f)[i] = input[i]
  BY <1>1, <1>2
<1>4. /\ Newlines(input \o f, stream.position) = Newlines(input, stream.position)
      /\ Characters(input \o f, stream.position) = Characters(input, stream.position)
  BY <1>1, <1>3, SameBytesSamePlaces
<1>5. At(stream, input \o f, stream.position)
  BY <1>4 DEF At, StreamOK
<1>6. ASSUME NEW k \in 1 .. Len(f) PROVE (input \o f)[Len(input) + k] = f[k]
  <2>1. Len(input) + k \in 1 .. Len(input) + Len(f) /\ ~ (Len(input) + k <= Len(input))
        /\ (Len(input) + k) - Len(input) = k
    BY <1>1
  <2> QED
    BY <1>2, <2>1
<1> QED
  BY <1>1, <1>2, <1>5, <1>6

\* get_char where the source has no more, or nothing that is UTF-8.
LEMMA EndsWorks ==
  ASSUME StreamOK, stream.state = "OK", NEW f \in Seq(Bytes), input' = input \o f,
         NEW state \in NoChar, state = "EOF" => f = << >>, Ends(state)
  PROVE  StreamOK' /\ CharRead'
<1>1. /\ stream' \in Streams /\ stream'.state = state
      /\ stream'.buffer = stream.buffer /\ stream'.pos = stream.pos
      /\ stream'.position = stream.position
      /\ stream'.line = stream.line /\ stream'.column = stream.column
  BY DEF StreamOK, Streams, NoChar, Ends
<1>2. At(stream', input', stream'.position)
  BY <1>1, InputGrows DEF At
<1>3. state # "ERROR" => Continues(input', stream'.position, stream'.buffer, stream'.pos)
  <2> SUFFICES ASSUME state # "ERROR"
               PROVE  Continues(input', stream'.position, stream'.buffer, stream'.pos)
    OBVIOUS
  <2>1. input' = input
    BY ConcatEmptySeq DEF NoChar, StreamOK
  <2> QED
    BY <1>1, <2>1 DEF StreamOK
<1>4. StreamOK'
  BY <1>1, <1>2, <1>3, InputGrows DEF StreamOK
<1>5. CharRead'
  BY DEF CharRead, Ends
<1> QED
  BY <1>4, <1>5

\* get_char where the next byte is in the buffer.
LEMMA NextByteWorks ==
  ASSUME NEW x \in Streams, NEW s \in Seq(Bytes),
         x.state = "OK", x.pos < Len(x.buffer), At(x, s, x.position),
         Continues(s, x.position, x.buffer, x.pos),
         \A i \in 2 .. Len(x.buffer) : x.buffer[i] = "cont",
         input' = s, c' = x.buffer[x.pos + 1], stream' = Advanced(x, c')
  PROVE  StreamOK' /\ CharRead'
<1>1. x.buffer \in Seq(Bytes) /\ x.pos \in Nat /\ x.position \in Nat
  BY DEF Streams
<1>2. /\ s[x.position + 1] = c' /\ x.position < Len(s)
      /\ Continues(s, x.position + 1, x.buffer, x.pos + 1)
  BY <1>1, ContinuesOneOn
<1>3. c' \in Bytes
  BY <1>1
<1>4. /\ stream' \in Streams
      /\ stream'.state = "OK" /\ stream'.buffer = x.buffer
      /\ stream'.pos = x.pos + 1 /\ stream'.position = x.position + 1
      /\ At(stream', s, stream'.position)
      /\ c' = "\n" => stream'.lastColumn = Cardinality(Characters(s, x.position))
  BY <1>2, <1>3, AdvancedWorks
<1>5. StreamOK'
  BY <1>1, <1>2, <1>4 DEF StreamOK
<1>6. stream'.position - 1 = x.position
  BY <1>1, <1>4
<1>7. CharRead'
  BY <1>1, <1>2, <1>3, <1>4, <1>6 DEF CharRead
<1> QED
  BY <1>5, <1>7

\* A whole character is fetched.
LEMMA FetchWorks ==
  ASSUME StreamOK, stream.state = "OK", stream.pos >= Len(stream.buffer),
         NEW f \in Seq(Bytes), f # << >>, \A i \in 2 .. Len(f) : f[i] = "cont",
         input' = input \o f, c' = f[1],
         stream' = Advanced([stream EXCEPT !.buffer = f, !.pos = 0], f[1])
  PROVE  StreamOK' /\ CharRead'
<1> DEFINE x == [stream EXCEPT !.buffer = f, !.pos = 0]
<1>1. /\ x \in Streams /\ x.state = "OK" /\ x.buffer = f /\ x.pos = 0
      /\ x.position = stream.position /\ x.line = stream.line /\ x.column = stream.column
  BY DEF StreamOK, Streams
<1>2. At(x, input', x.position)
  BY <1>1, InputGrows DEF At
<1>3. stream.position = Len(input)
  <2>1. /\ stream.pos \in Nat /\ Len(stream.buffer) \in Nat /\ stream.position \in Nat
        /\ Len(input) \in Nat
    BY DEF StreamOK, Streams
  <2>2. stream.pos = Len(stream.buffer) /\ Len(input) - stream.position = Len(stream.buffer) - stream.pos
    BY <2>1 DEF StreamOK, Continues
  <2> QED
    BY <2>1, <2>2
<1>4. Continues(input', x.position, x.buffer, x.pos)
  <2>1. Len(input) \in Nat /\ Len(f) \in Nat
    BY DEF StreamOK
  <2>2. Len(input') - Len(input) = Len(f) - 0 /\ Len(f) - 0 = Len(f)
    BY <2>1, InputGrows
  <2>3. ASSUME NEW k \in 1 .. Len(f) - 0 PROVE input'[Len(input) + k] = f[0 + k]
    BY <2>1, InputGrows
  <2> QED
    BY <1>1, <1>3, <2>2, <2>3 DEF Continues
<1>5. x.pos < Len(x.buffer) /\ c' = x.buffer[x.pos + 1]
  BY <1>1, EmptySeq
<1>6. input' \in Seq(Bytes)
  BY InputGrows
<1>7. stream' = Advanced(x, c')
  OBVIOUS
<1> HIDE DEF x
<1> QED
  BY <1>1, <1>2, <1>4, <1>5, <1>6, <1>7, NextByteWorks

\* get_char
LEMMA GetCharWorks ==
  ASSUME StreamOK, GetChar, err \in Codes
  PROVE  /\ StreamOK' /\ CharRead'
         /\ err' \in Codes
         /\ Len(input) \in Nat /\ Len(input') \in Nat /\ Len(input) <= Len(input')
<1>0. Len(input) \in Nat /\ << >> \in Seq(Bytes) /\ input \o << >> = input
  BY ConcatEmptySeq DEF StreamOK
<1>1. CASE stream.state # "OK"
  <2>1. c' = stream.state /\ input' = input /\ stream' = stream /\ err' = err
    BY <1>1 DEF GetChar
  <2>2. stream.state \in NoChar
    BY <1>1 DEF StreamOK, Streams, NoChar
  <2>3. StreamOK'
    BY <2>1 DEF StreamOK, At, Continues
  <2>4. CharRead'
    BY <2>1, <2>2 DEF CharRead
  <2> QED
    BY <1>0, <2>1, <2>3, <2>4
<1>2. CASE stream.state = "OK" /\ ~ (stream.pos >= Len(stream.buffer))
  <2>1. c' = stream.buffer[stream.pos + 1] /\ stream' = Advanced(stream, c')
        /\ input' = input /\ err' = err
    BY <1>2 DEF GetChar
  <2>2. stream.pos < Len(stream.buffer)
    BY <1>2 DEF StreamOK, Streams
  <2>3. StreamOK' /\ CharRead'
    BY <1>2, <2>1, <2>2, NextByteWorks DEF StreamOK
  <2> QED
    BY <1>0, <2>1, <2>3
<1>3. CASE stream.state = "OK" /\ stream.pos >= Len(stream.buffer)
  <2>1. Fetch
    BY <1>3 DEF GetChar
  <2>2. CASE SourceEnds
    <3>1. input' = input \o << >> /\ err' = err /\ Ends("EOF") /\ "EOF" \in NoChar
      BY <1>0, <2>2 DEF SourceEnds, NoChar
    <3>2. StreamOK' /\ CharRead'
      BY <1>0, <1>3, <3>1, EndsWorks
    <3> QED
      BY <1>0, <3>1, <3>2
  <2>3. CASE ~ SourceEnds
    <3>1. PICK b \in Bytes, more \in UNION {[1 .. n -> Bytes] : n \in 0 .. LeadWidth - 1} :
            LET fetched == <<b>> \o more
            IN /\ Len(fetched) <= IF Width(b) = 0 THEN 1 ELSE Width(b)
               /\ input' = input \o fetched
               /\ IF Len(fetched) = Width(b) /\ (Width(b) > 1 => WellFormed(fetched))
                  THEN /\ stream' = Advanced([stream EXCEPT !.buffer = fetched, !.pos = 0], b)
                       /\ c' = b
                       /\ UNCHANGED err
                  ELSE Ends("ERROR") /\ err' = Reported("invalid_utf8")
      BY <2>1, <2>3 DEF Fetch
    <3> DEFINE f == <<b>> \o more
    <3>2. more \in Seq(Bytes)
      <4>1. PICK n \in 0 .. LeadWidth - 1 : more \in [1 .. n -> Bytes]
        BY <3>1
      <4>2. n \in Nat
        BY SizesAssumption
      <4> QED
        BY <4>1, <4>2
    <3>3. /\ f \in Seq(Bytes) /\ Len(f) = 1 + Len(more) /\ f[1] = b /\ f # << >>
          /\ Len(f) \in Nat
      <4>1. <<b>> \in Seq(Bytes) /\ Len(<<b>>) = 1
        OBVIOUS
      <4>2. f \in Seq(Bytes) /\ Len(f) = 1 + Len(more) /\ f[1] = <<b>>[1]
        BY <3>2, <4>1, ConcatProperties
      <4> QED
        BY <3>2, <4>2
    <3> HIDE DEF f
    <3>4. Len(input') \in Nat /\ Len(input) <= Len(input')
      BY <1>0, <3>1, <3>3, InputGrows DEF f
    <3>5. CASE Len(f) = Width(b) /\ (Width(b) > 1 => WellFormed(f))
      <4>1. input' = input \o f /\ c' = f[1] /\ err' = err
            /\ stream' = Advanced([stream EXCEPT !.buffer = f, !.pos = 0], f[1])
        BY <3>1, <3>3, <3>5 DEF f
      <4>2. \A i \in 2 .. Len(f) : f[i] = "cont"
        <5>1. CASE Width(b) > 1
          <6>1. Len(f) = LeadWidth
            BY <3>5, <5>1, WidthIs
          <6>2. f \in [1 .. LeadWidth -> Bytes]
            BY <3>3, <6>1, LenProperties
          <6> QED
            BY <3>5, <5>1, <6>1, <6>2, WellFormedAssumption
        <5>2. CASE ~ (Width(b) > 1)
          BY <3>5, <5>2, WidthIs
        <5> QED
          BY <5>1, <5>2
      <4>3. StreamOK' /\ CharRead'
        BY <1>3, <3>3, <4>1, <4>2, FetchWorks
      <4> QED
        BY <1>0, <3>4, <4>1, <4>3
    <3>6. CASE ~ (Len(f) = Width(b) /\ (Width(b) > 1 => WellFormed(f)))
      <4>1. input' = input \o f /\ Ends("ERROR") /\ err' = Reported("invalid_utf8")
        BY <3>1, <3>6 DEF f
      <4>2. StreamOK' /\ CharRead'
        <5>1. "ERROR" \in NoChar
          BY DEF NoChar
        <5> QED
          BY <1>3, <3>3, <4>1, <5>1, EndsWorks
      <4>3. err' \in Codes
        BY <4>1 DEF Reported, Codes
      <4> QED
        BY <1>0, <3>4, <4>2, <4>3
    <3> QED
      BY <3>5, <3>6
  <2> QED
    BY <2>2, <2>3
<1> QED
  BY <1>1, <1>2, <1>3
-----------------------------------------------------------------------------
(* The text of the token                                                   *)

\* There is always room for the NUL.
TextOK ==
  /\ savedText \in Seq(Bytes)
  /\ size \in Nat
  /\ Len(savedText) < size
  /\ lost \in 0 .. MaxLost

LEMMA AppendBytesWorks ==
  ASSUME TextOK, NEW b \in Seq(Bytes), AppendBytes(b)
  PROVE  TextOK'
<1>1. /\ savedText \o b \in Seq(Bytes) /\ Len(savedText \o b) = Len(savedText) + Len(b)
      /\ Len(savedText) \in Nat /\ Len(b) \in Nat /\ size \in Nat /\ lost \in Nat /\ MaxLost \in Nat
  BY ConcatProperties, SizesAssumption DEF TextOK
<1>2. CASE /\ Len(b) < size - Len(savedText)
           /\ savedText' = savedText \o b
           /\ UNCHANGED <<size, lost>>
  BY <1>1, <1>2 DEF TextOK
<1>3. CASE /\ savedText' = savedText \o b
           /\ size' = Max({size * 2, Len(savedText) + Len(b) + 1})
           /\ UNCHANGED lost
  <2> DEFINE more == Len(savedText) + Len(b) + 1
             twice == size * 2
             S == {twice, more}
  <2>1. more \in Nat /\ twice \in Nat
    BY <1>1
  <2> HIDE DEF more, twice
  <2>2. S \in SUBSET (0 .. twice + more) /\ S # {} /\ twice + more \in Nat
    BY <2>1
  <2>3. Max(S) \in S /\ \A y \in S : y <= Max(S)
    BY <2>2, MaxIsLargest
  <2>4. Max(S) \in Nat /\ more <= Max(S)
    BY <2>1, <2>3
  <2>5. size' = Max(S)
    BY <1>3 DEF more, twice
  <2> QED
    BY <1>1, <1>3, <2>4, <2>5 DEF TextOK, more
<1>4. CASE lost < MaxLost /\ lost' = lost + 1 /\ UNCHANGED <<savedText, size>>
  BY <1>1, <1>4 DEF TextOK
<1> QED
  BY <1>2, <1>3, <1>4 DEF AppendBytes

LEMMA UnsaveWorks ==
  ASSUME TextOK, Unsave
  PROVE  TextOK'
<1>1. savedText \in Seq(Bytes) /\ size \in Nat /\ Len(savedText) \in Nat
  BY DEF TextOK
<1>2. CASE savedText' = savedText
  BY <1>2 DEF TextOK, Unsave
<1>3. CASE savedText # << >> /\ savedText' = Front(savedText)
  <2>1. Len(savedText) > 0
    BY <1>1, <1>3, EmptySeq
  <2>2. \A i \in 1 .. Len(savedText) - 1 : savedText[i] \in Bytes
    BY <1>1
  <2>3. savedText' = SubSeq(savedText, 1, Len(savedText) - 1)
    BY <1>3 DEF Front
  <2>4. 1 \in Int /\ Len(savedText) - 1 \in Int
    BY <1>1
  <2>5. /\ SubSeq(savedText, 1, Len(savedText) - 1) \in Seq(Bytes)
        /\ Len(SubSeq(savedText, 1, Len(savedText) - 1))
             = IF 1 <= Len(savedText) - 1 THEN Len(savedText) - 1 - 1 + 1 ELSE 0
    BY <2>2, <2>4, SubSeqProperties
  <2>6. Len(savedText') < Len(savedText)
    BY <1>1, <2>1, <2>3, <2>5
  <2> QED
    BY <1>1, <2>3, <2>5, <2>6 DEF TextOK, Unsave
<1> QED
  BY <1>2, <1>3 DEF Unsave

LEMMA GetAndSaveWorks ==
  ASSUME StreamOK, TextOK, err \in Codes, GetAndSave
  PROVE  TextOK'
<1>1. CharRead'
  BY GetCharWorks DEF GetAndSave
<1>2. CASE c' \in NoChar
  BY <1>2 DEF GetAndSave, TextOK, text
<1>3. CASE c' \notin NoChar
  <2>1. <<c'>> \in Seq(Bytes)
    BY <1>1, <1>3 DEF CharRead
  <2> QED
    BY <1>3, <2>1, AppendBytesWorks DEF GetAndSave
<1> QED
  BY <1>2, <1>3

-----------------------------------------------------------------------------
(* The invariant                                                           *)

PCs == NumberStates \cup {"returned", "closed", "blank", "word", "quote", "string", "escape",
                          "digits", "point"}

\* The scanner is in the middle of a call.
Scanning == pc \notin {"returned", "closed"}

\* After \u digits are due until there are enough.
Control ==
  /\ intAsReal \in BOOLEAN
  /\ pc \in PCs
  /\ due \in 0 .. EscapeDigits
  /\ pc = "digits" => due > 0
  /\ from \in Nat /\ from <= Len(input)
  /\ err \in Codes
  /\ held => token = "string" /\ pc = "returned"

IInv ==
  /\ StreamOK
  /\ c \in Bytes \cup NoChar
  /\ Scanning => CharRead
  /\ lost \in 0 .. MaxLost
  /\ pc # "closed" => TextOK
  /\ Control

LEMMA InvImpliesTypes == IInv => TypeOK
<1> SUFFICES ASSUME IInv PROVE TypeOK
  OBVIOUS
<1>1. AllIn(input, Bytes)
  BY DEF IInv, StreamOK, AllIn, ToSet
<1>2. /\ stream.state \in {"OK", "EOF", "ERROR"}
      /\ stream.pos \in 0 .. Len(stream.buffer)
      /\ stream.position \in 0 .. Len(input)
      /\ stream.line \in Nat \ {0} /\ stream.column \in Nat
  BY DEF IInv, StreamOK, Streams
<1>3. from \in 0 .. Len(input)
  BY DEF IInv, Control, StreamOK
<1> QED
  BY <1>1, <1>2, <1>3 DEF IInv, TypeOK, Control, TextOK, Codes

LEMMA InvImpliesPlaces == IInv => PositionsAgree
<1> SUFFICES ASSUME IInv PROVE PositionsAgree
  OBVIOUS
<1> DEFINE n == stream.position
           done == Between(0, n)
<1>1. n \in Nat /\ n <= Len(input) /\ Len(input) \in Nat /\ input \in Seq(Bytes)
      /\ stream.buffer \in Seq(Bytes) /\ stream.pos \in Nat
  BY DEF IInv, StreamOK, Streams
<1>2. Len(done) = n /\ DOMAIN done = 1 .. n /\ \A i \in 1 .. n : done[i] = input[i]
  <2>1. \A i \in 1 .. n : input[i] \in Bytes
    BY <1>1
  <2>2. done = SubSeq(input, 1, n)
    BY DEF Between
  <2> HIDE DEF done, n
  <2>3. /\ SubSeq(input, 1, n) \in Seq(Bytes)
        /\ Len(SubSeq(input, 1, n)) = IF 1 <= n THEN n - 1 + 1 ELSE 0
        /\ \A i \in 1 .. n - 1 + 1 : SubSeq(input, 1, n)[i] = input[1 + i - 1]
    BY <1>1, <2>1, SubSeqProperties
  <2> QED
    BY <1>1, <2>2, <2>3
<1> HIDE DEF done
<1>3. {i \in DOMAIN done : done[i] = "\n"} = Newlines(input, n)
  BY <1>2 DEF Newlines
<1>4. LineStart(input, n) \in 0 .. n
  BY <1>1, LineStartIs
<1>5. {i \in LineStart(input, n) + 1 .. Len(done) : Width(done[i]) # 0} = Characters(input, n)
  BY <1>1, <1>2, <1>4 DEF Characters
<1>6. stream.state # "ERROR" =>
        Between(n, Len(input)) = SubSeq(stream.buffer, stream.pos + 1, Len(stream.buffer))
  <2> SUFFICES ASSUME stream.state # "ERROR"
               PROVE  Between(n, Len(input)) = SubSeq(stream.buffer, stream.pos + 1, Len(stream.buffer))
    OBVIOUS
  <2> DEFINE s == SubSeq(input, n + 1, Len(input))
             t == SubSeq(stream.buffer, stream.pos + 1, Len(stream.buffer))
             l == Len(input) - n
  <2>1. Continues(input, n, stream.buffer, stream.pos)
    BY DEF IInv, StreamOK
  <2>2. l \in Nat /\ l = Len(stream.buffer) - stream.pos /\ Len(stream.buffer) \in Nat
    BY <1>1, <2>1 DEF Continues
  <2> HIDE DEF n, l
  <2>3. s \in Seq(Bytes) /\ Len(s) = l /\ \A i \in 1 .. l : s[i] = input[n + i]
    <3>1. \A i \in n + 1 .. Len(input) : input[i] \in Bytes
      BY <1>1
    <3>2. /\ s \in Seq(Bytes)
          /\ Len(s) = IF n + 1 <= Len(input) THEN Len(input) - (n + 1) + 1 ELSE 0
          /\ \A i \in 1 .. Len(input) - (n + 1) + 1 : s[i] = input[n + 1 + i - 1]
      BY <1>1, <3>1, SubSeqProperties
    <3> HIDE DEF s
    <3> QED
      BY <1>1, <3>2 DEF l
  <2>4. t \in Seq(Bytes) /\ Len(t) = l /\ \A i \in 1 .. l : t[i] = stream.buffer[stream.pos + i]
    <3> DEFINE p == stream.pos
               b == stream.buffer
    <3>0. p \in Nat /\ b \in Seq(Bytes)
      BY <1>1
    <3> HIDE DEF p, b
    <3>1. \A i \in p + 1 .. Len(b) : b[i] \in Bytes
      BY <3>0
    <3> DEFINE u == SubSeq(b, p + 1, Len(b))
    <3>2. /\ u \in Seq(Bytes)
          /\ Len(u) = IF p + 1 <= Len(b) THEN Len(b) - (p + 1) + 1 ELSE 0
          /\ \A i \in 1 .. Len(b) - (p + 1) + 1 : u[i] = b[p + 1 + i - 1]
      BY <3>0, <3>1, SubSeqProperties
    <3>3. l = Len(b) - p /\ Len(b) \in Nat
      BY <2>2 DEF p, b
    <3>4. t = u
      BY DEF p, b
    <3> HIDE DEF u, t
    <3>5. t \in Seq(Bytes) /\ Len(t) = l /\ \A i \in 1 .. l : t[i] = b[p + i]
      BY <2>2, <3>0, <3>2, <3>3, <3>4
    <3> QED
      BY <3>5 DEF p, b
  <2>5. \A i \in 1 .. l : s[i] = t[i]
    BY <2>1, <2>2, <2>3, <2>4 DEF Continues
  <2> HIDE DEF s, t
  <2>6. s = t
    BY <2>3, <2>4, <2>5, SeqEqual
  <2> QED
    BY <2>6 DEF Between, s, t, n
<1>7. stream.line = 1 + Cardinality(Newlines(input, n)) /\ stream.column = Cardinality(Characters(input, n))
  BY DEF IInv, StreamOK, At
<1> QED
  BY <1>3, <1>5, <1>6, <1>7, InvImpliesTypes DEF PositionsAgree, LineStart, done
LEMMA InitEstablishes == Init => IInv
<1> SUFFICES ASSUME Init PROVE IInv
  OBVIOUS
<1>1. Newlines(input, 0) = {} /\ Characters(input, 0) = {}
  BY LineStartIs DEF Newlines, Characters
<1>2. At(stream, input, stream.position)
  BY <1>1, FS_EmptySet DEF Init, At
<1>3. StreamOK
  <2>1. stream \in Streams
    BY DEF Init, Streams
  <2>2. Continues(input, stream.position, stream.buffer, stream.pos)
    BY DEF Init, Continues
  <2> QED
    BY <1>2, <2>1, <2>2 DEF Init, StreamOK
<1>4. TextOK
  BY SizesAssumption DEF Init, TextOK
<1>5. Control
  BY EscapeAssumption DEF Init, Control, PCs, Codes
<1>6. c \in NoChar /\ ~ Scanning
  BY DEF Init, NoChar, Scanning
<1> QED
  BY <1>3, <1>4, <1>5, <1>6 DEF IInv, TextOK

-----------------------------------------------------------------------------
(* What the steps are made of                                              *)

\* A step that reads and goes on.
LEMMA ReadsOn ==
  ASSUME IInv, Scanning, GetChar, TextOK',
         pc' \in PCs \ {"returned", "closed"}, due' \in 0 .. EscapeDigits, pc' = "digits" => due' > 0,
         UNCHANGED <<intAsReal, held>>, from' \in {from, stream.position}
  PROVE  IInv'
<1>1. /\ StreamOK' /\ CharRead' /\ err' \in Codes
      /\ Len(input) \in Nat /\ Len(input') \in Nat /\ Len(input) <= Len(input')
  BY GetCharWorks DEF IInv, Control
<1>2. from' \in Nat /\ from' <= Len(input')
  <2>1. from \in Nat /\ from <= Len(input)
    BY DEF IInv, Control
  <2>2. stream.position \in Nat /\ stream.position <= Len(input)
    BY DEF IInv, StreamOK, Streams
  <2> QED
    BY <1>1, <2>1, <2>2
<1>3. ~ held'
  BY DEF IInv, Control, Scanning
<1>4. Control'
  BY <1>1, <1>2, <1>3 DEF IInv, Control
<1> QED
  BY <1>1, <1>4 DEF IInv, TextOK, CharRead

\* A step that returns a token.
LEMMA Returns ==
  ASSUME IInv, StreamOK', TextOK', NEW t, NEW v, NEW code \in Codes, Return(t, v, code)
  PROVE  IInv'
<1>1. Control'
  <2>1. err' \in Codes
    BY DEF IInv, Control, Return, Reported
  <2>2. /\ UNCHANGED <<intAsReal, input, due, from>> /\ pc' = "returned"
        /\ held' = (t = "string") /\ token' = t
    BY DEF Return
  <2>3. "returned" \in PCs /\ (held' => token' = "string")
    BY <2>2 DEF PCs
  <2> QED
    BY <2>1, <2>2, <2>3 DEF IInv, Control
<1>2. ~ Scanning' /\ c' = c
  BY DEF Return, Scanning
<1> QED
  BY <1>1, <1>2 DEF IInv, TextOK

\* A step that leaves the stream as it is.
LEMMA SameStream ==
  ASSUME StreamOK, UNCHANGED <<input, stream>>
  PROVE  StreamOK'
BY DEF StreamOK, At, Continues

\* A step that puts the last character back and returns a token.
LEMMA PutsBackAndReturns ==
  ASSUME IInv, Scanning, stream' = PutBack, Unsave \/ UNCHANGED text,
         NEW t, NEW v, NEW code \in Codes, Return(t, v, code)
  PROVE  IInv'
<1>1. input' = input
  BY DEF Return
<1>2. StreamOK'
  BY <1>1, PutBackWorks DEF IInv
<1>3. TextOK
  BY DEF IInv, Scanning
<1>4. TextOK'
  <2>1. CASE Unsave
    BY <1>3, <2>1, UnsaveWorks
  <2>2. CASE UNCHANGED text
    BY <1>3, <2>2 DEF TextOK, text
  <2> QED
    BY <2>1, <2>2
<1> QED
  BY <1>2, <1>4, Returns

\* A step that returns a token and changes neither stream nor text.
LEMMA ReturnsAtOnce ==
  ASSUME IInv, Scanning, UNCHANGED <<stream, text>>,
         NEW t, NEW v, NEW code \in Codes, Return(t, v, code)
  PROVE  IInv'
<1>1. StreamOK'
  BY SameStream DEF IInv, Return
<1>2. TextOK'
  BY DEF IInv, Scanning, TextOK, text
<1> QED
  BY <1>1, <1>2, Returns

\* A step that appends the character it has read.
LEMMA AppendsChar ==
  ASSUME IInv, Scanning, c \notin NoChar, AppendBytes(<<c>>), UNCHANGED <<intAsReal, input, stream, c, due, from, held, err>>,
         pc' \in PCs \ {"closed", "digits"}
  PROVE  IInv'
<1>1. TextOK'
  <2>1. <<c>> \in Seq(Bytes) /\ TextOK
    BY DEF IInv, Scanning
  <2> QED
    BY <2>1, AppendBytesWorks
<1>2. StreamOK'
  BY SameStream DEF IInv
<1>3. CharRead'
  BY DEF IInv, CharRead
<1>4. Control'
  BY DEF IInv, Control, Scanning
<1> QED
  BY <1>1, <1>2, <1>3, <1>4 DEF IInv, TextOK

\* A step that reads a character into the text and goes on.
LEMMA SavesOn ==
  ASSUME IInv, Scanning, GetAndSave, pc' \in PCs \ {"returned", "closed"},
         due' \in 0 .. EscapeDigits, pc' = "digits" => due' > 0, UNCHANGED <<intAsReal, from, held>>
  PROVE  IInv'
<1>1. GetChar
  BY DEF GetAndSave
<1>2. TextOK'
  BY GetAndSaveWorks DEF IInv, Scanning, Control
<1> QED
  BY <1>1, <1>2, ReadsOn
-----------------------------------------------------------------------------
(* The steps                                                               *)

LEMMA CodesAre ==
  /\ "none" \in Codes /\ "premature_end" \in Codes /\ "syntax" \in Codes /\ "overflow" \in Codes
  /\ "out_of_memory" \in Codes
BY DEF Codes

LEMMA ScanStep == IInv /\ Scan => IInv'
<1> SUFFICES ASSUME IInv, Scan PROVE IInv'
  OBVIOUS
<1>1. /\ pc = "returned" /\ savedText' = << >> /\ lost' = 0 /\ held' = StringLeft /\ GetChar
      /\ pc' = "blank" /\ from' = stream.position /\ UNCHANGED <<intAsReal, size, due, token>>
  BY DEF Scan
<1>2. /\ StreamOK' /\ CharRead' /\ err' \in Codes
      /\ Len(input) \in Nat /\ Len(input') \in Nat /\ Len(input) <= Len(input')
  BY <1>1, GetCharWorks DEF IInv, Control
<1>3. TextOK'
  <2>1. size \in Nat /\ size > 0
    BY <1>1, LenProperties DEF IInv, TextOK
  <2> QED
    BY <1>1, <2>1, SizesAssumption DEF TextOK
<1>4. Control'
  <2>1. ~ held'
    BY <1>1 DEF IInv, Control, StringLeft
  <2>2. from' \in Nat /\ from' <= Len(input')
    BY <1>1, <1>2 DEF IInv, StreamOK, Streams
  <2>3. pc' \in PCs
    BY <1>1 DEF PCs
  <2> QED
    BY <1>1, <1>2, <2>1, <2>2, <2>3 DEF IInv, Control
<1> QED
  BY <1>2, <1>3, <1>4 DEF IInv, CharRead, TextOK

LEMMA SkipBlankStep == IInv /\ SkipBlank => IInv'
<1> SUFFICES ASSUME IInv, SkipBlank PROVE IInv'
  OBVIOUS
<1>1. pc = "blank" /\ GetChar /\ from' = stream.position /\ UNCHANGED <<intAsReal, text, pc, due, result>>
  BY DEF SkipBlank
<1>2. Scanning /\ TextOK' /\ pc' \in PCs \ {"returned", "closed"} /\ pc' # "digits"
      /\ due' \in 0 .. EscapeDigits /\ UNCHANGED <<intAsReal, held>>
  BY <1>1 DEF IInv, Scanning, TextOK, text, result, Control
<1> QED
  BY <1>1, <1>2, ReadsOn

LEMMA NoTokenStep == IInv /\ NoToken => IInv'
<1> SUFFICES ASSUME IInv, NoToken PROVE IInv'
  OBVIOUS
<1>1. Scanning /\ Return(IF c = "EOF" THEN "eof" ELSE "invalid", << >>, "none")
      /\ UNCHANGED <<stream, text>>
  BY DEF NoToken, Scanning
<1> QED
  BY <1>1, CodesAre, ReturnsAtOnce

LEMMA StructuralStep == IInv /\ Structural => IInv'
<1> SUFFICES ASSUME IInv, Structural PROVE IInv'
  OBVIOUS
<1>1. /\ Scanning /\ c \notin NoChar /\ AppendBytes(<<c>>)
      /\ UNCHANGED <<intAsReal, input, stream, c, due, from, held, err>>
      /\ pc' \in PCs \ {"closed", "digits"}
  BY DEF Structural, Scanning, NoChar, PCs
<1> QED
  BY <1>1, AppendsChar

LEMMA BeginStep == IInv /\ Begin => IInv'
<1> SUFFICES ASSUME IInv, Begin PROVE IInv'
  OBVIOUS
<1>1. pc = "blank" /\ Begun # "none" /\ AppendBytes(<<c>>) /\ pc' = Begun
      /\ UNCHANGED <<intAsReal, input, stream, c, due, from, result, err>>
  BY DEF Begin
<1>2. c \notin NoChar
  BY <1>1 DEF Begun, NoChar, Quote, Letters, Digits
<1>3. Begun \in PCs \ {"closed", "digits"}
  BY <1>1 DEF Begun, PCs, NumberStates
<1> QED
  BY <1>1, <1>2, <1>3, AppendsChar DEF Scanning, result

\* The rest of a character has no byte that counts.
LEMMA RestOfCharacter ==
  ASSUME NEW s, NEW n \in Nat, NEW l \in Nat, \A k \in 1 .. l : s[n + k] = "cont"
  PROVE  /\ Cardinality(Newlines(s, n + l)) = Cardinality(Newlines(s, n))
         /\ Cardinality(Characters(s, n + l)) = Cardinality(Characters(s, n))
<1> DEFINE m == n + l
<1>1. m \in Nat /\ LineStart(s, n) \in 0 .. n
  BY LineStartIs
<1>2. \A i \in n + 1 .. m : s[i] = "cont"
  <2> TAKE i \in n + 1 .. m
  <2>1. i - n \in 1 .. l /\ n + (i - n) = i
    OBVIOUS
  <2> QED
    BY <2>1
<1>3. n <= m
  OBVIOUS
<1> HIDE DEF m
<1>4. Newlines(s, m) = Newlines(s, n)
  <2>1. \A i \in 1 .. m : s[i] = "\n" => i <= n
    BY <1>1, <1>2
  <2> QED
    BY <1>1, <1>3, <2>1 DEF Newlines
<1>5. LineStart(s, m) = LineStart(s, n)
  BY <1>4 DEF LineStart
<1>6. Characters(s, m) = Characters(s, n)
  <2>1. \A i \in LineStart(s, n) + 1 .. m : Width(s[i]) # 0 => i <= n
    BY <1>1, <1>2, WidthIs
  <2> QED
    BY <1>1, <1>3, <1>5, <2>1 DEF Characters
<1> QED
  BY <1>4, <1>6 DEF m

LEMMA UnknownStep == IInv /\ Unknown => IInv'
<1> SUFFICES ASSUME IInv, Unknown PROVE IInv'
  OBVIOUS
<1> DEFINE b == stream.buffer
           p == stream.pos
           n == stream.position
           rest == SubSeq(b, p + 1, Len(b))
<1>1. /\ pc = "blank" /\ c \notin NoChar
      /\ AppendBytes(<<c>> \o rest)
      /\ stream' = [stream EXCEPT !.pos = Len(b), !.position = @ + Len(rest)]
      /\ token' = "invalid" /\ pc' = "returned"
      /\ UNCHANGED <<intAsReal, input, c, due, from, held, err>>
  BY DEF Unknown
<1>2. /\ StreamOK /\ CharRead /\ TextOK /\ c \in Bytes
  BY <1>1 DEF IInv, Scanning
<1>3. /\ b \in Seq(Bytes) /\ Len(b) \in Nat /\ p \in Nat /\ n \in Nat /\ p <= Len(b) /\ p > 0
      /\ stream.state = "OK" /\ input \in Seq(Bytes) /\ Len(input) \in Nat
      /\ Continues(input, n, b, p)
      /\ \A i \in 2 .. Len(b) : b[i] = "cont"
  BY <1>1, <1>2 DEF StreamOK, CharRead, Streams
<1> DEFINE l == Len(b) - p
<1>4. l \in Nat /\ Len(input) = n + l
  BY <1>3 DEF Continues
<1>5. rest \in Seq(Bytes) /\ Len(rest) = l
  <2> HIDE DEF b, p
  <2>1. \A i \in p + 1 .. Len(b) : b[i] \in Bytes
    BY <1>3
  <2>2. /\ rest \in Seq(Bytes)
        /\ Len(rest) = IF p + 1 <= Len(b) THEN Len(b) - (p + 1) + 1 ELSE 0
    BY <1>3, <2>1, SubSeqProperties
  <2> QED
    BY <1>3, <2>2
<1>6. TextOK'
  <2>1. <<c>> \in Seq(Bytes)
    BY <1>2
  <2>2. <<c>> \o rest \in Seq(Bytes)
    BY <1>5, <2>1, ConcatProperties
  <2> QED
    BY <1>1, <1>2, <2>2, AppendBytesWorks
<1>7. /\ stream' \in Streams /\ stream'.state = "OK" /\ stream'.buffer = b
      /\ stream'.pos = Len(b) /\ stream'.position = n + l
      /\ stream'.line = stream.line /\ stream'.column = stream.column
  <2>1. stream \in Streams
    BY <1>2 DEF StreamOK
  <2>2. n + l \in Nat
    BY <1>3, <1>4
  <2> QED
    BY <1>1, <1>3, <1>5, <2>1, <2>2 DEF Streams
<1>8. \A k \in 1 .. l : input[n + k] = "cont"
  <2> TAKE k \in 1 .. l
  <2>1. input[n + k] = b[p + k]
    BY <1>3, <1>4 DEF Continues
  <2>2. p + k \in 2 .. Len(b)
    BY <1>3, <1>4
  <2> QED
    BY <1>3, <2>1, <2>2
<1>9. At(stream', input, n + l)
  <2> HIDE DEF n, l
  <2>1. /\ Cardinality(Newlines(input, n + l)) = Cardinality(Newlines(input, n))
        /\ Cardinality(Characters(input, n + l)) = Cardinality(Characters(input, n))
    BY <1>3, <1>4, <1>8, RestOfCharacter
  <2>2. At(stream, input, n)
    BY <1>2 DEF StreamOK, n
  <2> QED
    BY <1>7, <2>1, <2>2 DEF At
<1>10. Continues(input, n + l, b, Len(b))
  BY <1>3, <1>4 DEF Continues
<1>11. StreamOK'
  <2>1. input' = input /\ n + l <= Len(input) /\ Len(b) <= Len(b)
    BY <1>1, <1>3, <1>4
  <2> HIDE DEF n, l, b
  <2> QED
    BY <1>3, <1>7, <1>9, <1>10, <2>1 DEF StreamOK
<1>12. Control'
  <2>1. ~ held'
    BY <1>1 DEF IInv, Control
  <2>2. pc' \in PCs
    BY <1>1 DEF PCs
  <2> QED
    BY <1>1, <2>1, <2>2 DEF IInv, Control
<1> QED
  BY <1>1, <1>2, <1>6, <1>11, <1>12 DEF IInv, Scanning, TextOK

LEMMA WordStep == IInv /\ Word => IInv'
<1> SUFFICES ASSUME IInv, Word PROVE IInv'
  OBVIOUS
<1>1. pc = "word" /\ Scanning
  BY DEF Word, Scanning
<1>2. CASE c \in Letters
  <2>1. GetAndSave /\ pc' = "word" /\ UNCHANGED <<intAsReal, due, from, result>>
    BY <1>2 DEF Word, GoesOn
  <2>2. /\ pc' \in PCs \ {"returned", "closed"} /\ pc' # "digits"
        /\ due' \in 0 .. EscapeDigits /\ UNCHANGED <<intAsReal, from, held>>
    BY <2>1 DEF PCs, IInv, Control, result
  <2> QED
    BY <1>1, <2>1, <2>2, SavesOn
<1>3. CASE c \notin Letters
  <2>1. stream' = PutBack /\ Unsave
        /\ (Return("literal", savedText', "none") \/ Return("invalid", << >>, "none"))
    BY <1>3 DEF Word, Invalid
  <2> QED
    BY <1>1, <2>1, CodesAre, PutsBackAndReturns
<1> QED
  BY <1>2, <1>3

LEMMA OpenStringStep == IInv /\ OpenString => IInv'
<1> SUFFICES ASSUME IInv, OpenString PROVE IInv'
  OBVIOUS
<1>1. Scanning /\ GetAndSave /\ pc' = "string" /\ UNCHANGED <<intAsReal, due, from, result>>
  BY DEF OpenString, GoesOn, Scanning
<1>2. /\ pc' \in PCs \ {"returned", "closed"} /\ pc' # "digits"
      /\ due' \in 0 .. EscapeDigits /\ UNCHANGED <<intAsReal, from, held>>
  BY <1>1 DEF PCs, IInv, Control, result
<1> QED
  BY <1>1, <1>2, SavesOn

LEMMA StringGoesOnStep == IInv /\ StringGoesOn => IInv'
<1> SUFFICES ASSUME IInv, StringGoesOn PROVE IInv'
  OBVIOUS
<1>1. Scanning /\ GetAndSave /\ pc' \in {"escape", "string"} /\ UNCHANGED <<intAsReal, due, from, result>>
  BY DEF StringGoesOn, GoesOn, Scanning
<1>2. /\ pc' \in PCs \ {"returned", "closed"} /\ pc' # "digits"
      /\ due' \in 0 .. EscapeDigits /\ UNCHANGED <<intAsReal, from, held>>
  BY <1>1 DEF PCs, IInv, Control, result
<1> QED
  BY <1>1, <1>2, SavesOn

LEMMA StringBrokenStep == IInv /\ StringBroken => IInv'
<1> SUFFICES ASSUME IInv, StringBroken PROVE IInv'
  OBVIOUS
<1>1. PICK code \in {"none", "premature_end", "syntax"} :
        Scanning /\ stream' = PutBack /\ Unsave /\ Return("invalid", << >>, code)
  BY DEF StringBroken, Scanning, Invalid
<1> QED
  BY <1>1, CodesAre, PutsBackAndReturns

LEMMA EscapeStep == IInv /\ Escape => IInv'
<1> SUFFICES ASSUME IInv, Escape PROVE IInv'
  OBVIOUS
<1>1. pc = "escape" /\ Scanning
  BY DEF Escape, Scanning
<1>2. CASE c \in {"u"} \cup SimpleEscapes
  <2>1. /\ GetAndSave /\ pc' = (IF c = "u" THEN "digits" ELSE "string")
        /\ due' = (IF c = "u" THEN EscapeDigits ELSE 0) /\ UNCHANGED <<intAsReal, from, result>>
    BY <1>2 DEF Escape
  <2>2. /\ pc' \in PCs \ {"returned", "closed"} /\ (pc' = "digits" => due' > 0)
        /\ due' \in 0 .. EscapeDigits /\ UNCHANGED <<intAsReal, from, held>>
    BY <2>1, EscapeAssumption DEF PCs, result
  <2> QED
    BY <1>1, <2>1, <2>2, SavesOn
<1>3. CASE c \notin {"u"} \cup SimpleEscapes
  <2>1. Return("invalid", << >>, "syntax") /\ UNCHANGED <<stream, text>>
    BY <1>3 DEF Escape, Invalid
  <2> QED
    BY <1>1, <2>1, CodesAre, ReturnsAtOnce
<1> QED
  BY <1>2, <1>3

LEMMA EscapeDigitStep == IInv /\ EscapeDigit => IInv'
<1> SUFFICES ASSUME IInv, EscapeDigit PROVE IInv'
  OBVIOUS
<1>1. pc = "digits" /\ Scanning
  BY DEF EscapeDigit, Scanning
<1>2. CASE c \in HexDigits
  <2>1. /\ GetAndSave /\ pc' = (IF due = 1 THEN "string" ELSE "digits") /\ due' = due - 1
        /\ UNCHANGED <<intAsReal, from, result>>
    BY <1>2 DEF EscapeDigit
  <2>2. due \in 0 .. EscapeDigits /\ due > 0 /\ EscapeDigits \in Nat
    BY <1>1, EscapeAssumption DEF IInv, Control
  <2>3. /\ pc' \in PCs \ {"returned", "closed"} /\ (pc' = "digits" => due' > 0)
        /\ due' \in 0 .. EscapeDigits /\ UNCHANGED <<intAsReal, from, held>>
    BY <2>1, <2>2 DEF PCs, result
  <2> QED
    BY <1>1, <2>1, <2>3, SavesOn
<1>3. CASE c \notin HexDigits
  <2>1. Return("invalid", << >>, "syntax") /\ UNCHANGED <<stream, text>>
    BY <1>3 DEF EscapeDigit, Invalid
  <2> QED
    BY <1>1, <2>1, CodesAre, ReturnsAtOnce
<1> QED
  BY <1>2, <1>3

LEMMA CloseStringStep == IInv /\ CloseString => IInv'
<1> SUFFICES ASSUME IInv, CloseString PROVE IInv'
  OBVIOUS
<1>1. Scanning /\ UNCHANGED <<stream, text>>
  BY DEF CloseString, Scanning
<1>2. \E t, v : \E code \in Codes : Return(t, v, code)
  BY CodesAre DEF CloseString, Invalid
<1> QED
  BY <1>1, <1>2, ReturnsAtOnce

LEMMA StealStringStep == IInv /\ StealString => IInv'
<1> SUFFICES ASSUME IInv, StealString PROVE IInv'
  OBVIOUS
<1>1. pc = "returned" /\ ~ held'
      /\ UNCHANGED <<intAsReal, input, stream, text, c, pc, due, from, token, err>>
  BY DEF StealString
<1>2. StreamOK'
  BY <1>1, SameStream DEF IInv
<1> QED
  BY <1>1, <1>2 DEF IInv, Scanning, TextOK, text, Control

LEMMA CloseStep == IInv /\ Close => IInv'
<1> SUFFICES ASSUME IInv, Close PROVE IInv'
  OBVIOUS
<1>1. pc = "returned" /\ pc' = "closed" /\ held' = StringLeft
      /\ UNCHANGED <<intAsReal, input, stream, lost, c, due, from, token, err>>
  BY DEF Close
<1>2. StreamOK'
  BY <1>1, SameStream DEF IInv
<1>3. ~ held' /\ pc' \in PCs
  BY <1>1 DEF IInv, Control, StringLeft, PCs
<1> QED
  BY <1>1, <1>2, <1>3 DEF IInv, Scanning, Control

LEMMA NumberGoesOnStep == IInv /\ NumberGoesOn => IInv'
<1> SUFFICES ASSUME IInv, NumberGoesOn PROVE IInv'
  OBVIOUS
<1>1. Scanning /\ GetAndSave /\ UNCHANGED <<intAsReal, due, from, result>> /\ pc' \in NumberStates
  BY DEF NumberGoesOn, GoesOn, Scanning, NumberNext
<1>2. /\ pc' \in PCs \ {"returned", "closed"} /\ pc' # "digits"
      /\ due' \in 0 .. EscapeDigits /\ UNCHANGED <<intAsReal, from, held>>
  BY <1>1 DEF PCs, NumberStates, IInv, Control, result
<1> QED
  BY <1>1, <1>2, SavesOn

LEMMA PointStep == IInv /\ Point => IInv'
<1> SUFFICES ASSUME IInv, Point PROVE IInv'
  OBVIOUS
<1>1. Scanning /\ GetChar /\ pc' = "point" /\ UNCHANGED <<intAsReal, due, from, result, text>>
  BY DEF Point, GoesOn, Scanning, NumberNext
<1>2. /\ pc' \in PCs \ {"returned", "closed"} /\ pc' # "digits" /\ TextOK'
      /\ due' \in 0 .. EscapeDigits /\ UNCHANGED <<intAsReal, from, held>>
  BY <1>1 DEF PCs, IInv, Control, result, text, TextOK, Scanning
<1> QED
  BY <1>1, <1>2, ReadsOn

LEMMA AfterPointStep == IInv /\ AfterPoint => IInv'
<1> SUFFICES ASSUME IInv, AfterPoint PROVE IInv'
  OBVIOUS
<1>1. pc = "point" /\ Scanning
  BY DEF AfterPoint, Scanning
<1>2. CASE c \in Digits
  <2>1. AppendBytes(<<c>>) /\ pc' = "fraction" /\ UNCHANGED <<intAsReal, due, from, result, input, stream, c, err>>
    BY <1>2 DEF AfterPoint, GoesOn
  <2>2. pc' \in PCs \ {"closed", "digits"} /\ c \notin NoChar /\ UNCHANGED held
    BY <1>2, <2>1 DEF PCs, NumberStates, NoChar, Digits, result
  <2> QED
    BY <1>1, <2>1, <2>2, AppendsChar
<1>3. CASE c \notin Digits
  <2>1. stream' = PutBack /\ UNCHANGED text /\ Return("invalid", << >>, "none")
    BY <1>3 DEF AfterPoint, Invalid
  <2> QED
    BY <1>1, <2>1, CodesAre, PutsBackAndReturns
<1> QED
  BY <1>2, <1>3

LEMMA NumberEndsStep == IInv /\ (NumberBroken \/ IntegerEnds \/ RealEnds) => IInv'
<1> SUFFICES ASSUME IInv, NumberBroken \/ IntegerEnds \/ RealEnds PROVE IInv'
  OBVIOUS
<1>1. Scanning /\ stream' = PutBack /\ Unsave
  BY DEF NumberBroken, IntegerEnds, RealEnds, Scanning, NumberStates
<1>2. \E t, v : \E code \in Codes : Return(t, v, code)
  BY CodesAre DEF NumberBroken, IntegerEnds, RealEnds, ReturnNumber, Invalid
<1> QED
  BY <1>1, <1>2, PutsBackAndReturns

LEMMA StutterStep == IInv /\ UNCHANGED vars => IInv'
<1> SUFFICES ASSUME IInv, UNCHANGED vars PROVE IInv'
  OBVIOUS
<1>1. UNCHANGED <<intAsReal, input, stream, savedText, size, lost, c, pc, due, from, token, held, err>>
  BY DEF vars, text, result
<1>2. StreamOK'
  BY <1>1, SameStream DEF IInv
<1>3. TextOK' <=> TextOK
  BY <1>1 DEF TextOK
<1>4. CharRead' <=> CharRead
  BY <1>1 DEF CharRead
<1>5. Control' /\ (Scanning' <=> Scanning)
  BY <1>1 DEF IInv, Control, Scanning
<1> QED
  BY <1>1, <1>2, <1>3, <1>4, <1>5 DEF IInv

-----------------------------------------------------------------------------
\* IInv is inductive.
THEOREM Inductive == Spec => []IInv
<1>1. IInv /\ [Next]_vars => IInv'
  BY ScanStep, SkipBlankStep, NoTokenStep, StructuralStep, BeginStep, UnknownStep, WordStep,
     OpenStringStep, StringGoesOnStep, StringBrokenStep, EscapeStep, EscapeDigitStep,
     CloseStringStep, StealStringStep, CloseStep, NumberGoesOnStep, PointStep, AfterPointStep,
     NumberEndsStep, StutterStep DEF Next
<1> QED
  BY InitEstablishes, <1>1, PTL DEF Spec

\* Typing, and with it the room for the NUL behind the text of a token, and the string that
\* is the lexer's to free.
THEOREM Typing == Spec => []TypeOK
BY Inductive, InvImpliesTypes, PTL

\* Line, column and position are those of the bytes read and not put back.
THEOREM PlacesAgree == Spec => []PositionsAgree
BY Inductive, InvImpliesPlaces, PTL

-----------------------------------------------------------------------------
(* Numbers                                                                 *)

\* The first i bytes of s are an integer; those behind them up to k a fraction or
\* none; and the first k both.
IntegerTo(s, i) ==
  \E j \in 1 .. 2 :
    /\ j <= i
    /\ j = 2 => s[1] = "-"
    /\ \A m \in j .. i : s[m] \in Digits
    /\ s[j] = "0" => i = j

FractionTo(s, i, k) ==
  i = k \/ (i + 1 < k /\ s[i + 1] = "." /\ \A m \in i + 2 .. k : s[m] \in Digits)

MantissaTo(s, k) == \E i \in 1 .. k : IntegerTo(s, i) /\ FractionTo(s, i, k)

\* The first n bytes of s lead the scan of a number to at.
NumberTo(at, s, n) ==
  \/ at = "number" /\ n = 0
  \/ at = "integer" /\ n = 1 /\ s[1] = "-"
  \/ at = "zero" /\ s[n] = "0" /\ (n = 1 \/ (n = 2 /\ s[1] = "-"))
  \/ at = "whole" /\ IntegerTo(s, n) /\ (s[1] = "1" \/ (s[1] = "-" /\ s[2] = "1"))
  \/ at = "point" /\ n > 1 /\ s[n] = "." /\ IntegerTo(s, n - 1)
  \/ at = "fraction" /\ MantissaTo(s, n) /\ ~ IntegerTo(s, n)
  \/ at = "exponent" /\ n > 1 /\ s[n] = "e" /\ MantissaTo(s, n - 1)
  \/ at = "sign" /\ n > 2 /\ s[n] \in Signs /\ s[n - 1] = "e" /\ MantissaTo(s, n - 2)
  \/ /\ at = "power"
     /\ \E k \in 1 .. n - 1 :
          /\ MantissaTo(s, k)
          /\ s[k + 1] = "e"
          /\ \E j \in 2 .. 3 :
               /\ j = 3 => s[k + 2] \in Signs
               /\ k + j <= n
               /\ \A m \in k + j .. n : s[m] \in Digits

\* The character behind a point leads to the fraction when it is saved.
NumberSteps == NumberNext \cup ({"point"} \X Digits \X {"fraction"})

\* An integer has digits and perhaps a minus, a number up to its exponent also a point.
LEMMA MantissaBytes ==
  ASSUME NEW s, NEW n \in Nat
  PROVE  /\ IntegerTo(s, n) =>
              /\ n > 0 /\ s[n] \in Digits /\ (s[1] \in Digits \/ (s[1] = "-" /\ n > 1))
              /\ \A m \in 1 .. n : s[m] \in Digits \cup {"-"}
         /\ MantissaTo(s, n) =>
              /\ n > 0 /\ s[n] \in Digits /\ (s[1] \in Digits \/ (s[1] = "-" /\ n > 1))
              /\ \A m \in 1 .. n : s[m] \in Digits \cup {"-", "."}
              /\ ~ IntegerTo(s, n) => \E m \in 1 .. n : s[m] = "."
<1>1. ASSUME NEW k \in Nat, IntegerTo(s, k)
      PROVE  /\ k > 0 /\ s[k] \in Digits /\ (s[1] \in Digits \/ (s[1] = "-" /\ k > 1))
             /\ \A m \in 1 .. k : s[m] \in Digits \cup {"-"}
  <2>1. PICK j \in 1 .. 2 :
          /\ j <= k
          /\ j = 2 => s[1] = "-"
          /\ \A m \in j .. k : s[m] \in Digits
    BY <1>1 DEF IntegerTo
  <2>2. k \in j .. k /\ j \in j .. k
    BY <2>1
  <2>3. s[k] \in Digits /\ s[j] \in Digits
    BY <2>1, <2>2
  <2>4. ASSUME NEW m \in 1 .. k PROVE s[m] \in Digits \cup {"-"}
    <3>1. m \in j .. k \/ (m = 1 /\ j = 2)
      BY <2>1
    <3> QED
      BY <2>1, <3>1
  <2>5. s[1] \in Digits \/ (s[1] = "-" /\ k > 1)
    BY <2>1, <2>3
  <2> QED
    BY <2>1, <2>3, <2>4, <2>5
<1>2. ASSUME MantissaTo(s, n)
      PROVE  /\ n > 0 /\ s[n] \in Digits /\ (s[1] \in Digits \/ (s[1] = "-" /\ n > 1))
             /\ \A m \in 1 .. n : s[m] \in Digits \cup {"-", "."}
             /\ ~ IntegerTo(s, n) => \E m \in 1 .. n : s[m] = "."
  <2>1. PICK i \in 1 .. n : IntegerTo(s, i) /\ FractionTo(s, i, n)
    BY <1>2 DEF MantissaTo
  <2>2. CASE i = n
    BY <1>1, <2>1, <2>2
  <2>3. CASE i # n
    <3>1. i + 1 < n /\ s[i + 1] = "." /\ \A m \in i + 2 .. n : s[m] \in Digits
      BY <2>1, <2>3 DEF FractionTo
    <3>2. i \in Nat /\ i + 1 \in 1 .. n /\ n \in i + 2 .. n
      BY <3>1
    <3>3. /\ i > 0 /\ (s[1] \in Digits \/ (s[1] = "-" /\ i > 1))
          /\ \A m \in 1 .. i : s[m] \in Digits \cup {"-"}
      BY <1>1, <2>1, <3>2
    <3>4. ASSUME NEW m \in 1 .. n PROVE s[m] \in Digits \cup {"-", "."}
      <4>1. m \in 1 .. i \/ m = i + 1 \/ m \in i + 2 .. n
        BY <3>2
      <4> QED
        BY <3>1, <3>3, <4>1
    <3> QED
      BY <3>1, <3>2, <3>3, <3>4
  <2> QED
    BY <2>2, <2>3
<1> QED
  BY <1>1, <1>2

\* What the scan is at can be read off the bytes.
LEMMA NumberBytes ==
  ASSUME NEW s, NEW n \in Nat, NEW at, NumberTo(at, s, n)
  PROVE  /\ at = "number" <=> n = 0
         /\ at \in {"exponent", "sign", "power"} <=> \E m \in 1 .. n : s[m] = "e"
         /\ at \in {"integer", "zero", "whole"} => ~ \E m \in 1 .. n : s[m] = "."
         /\ at \in {"point", "fraction"} => \E m \in 1 .. n : s[m] = "."
         /\ at \in {"point", "exponent"} => s[n] \notin Digits \cup Signs
         /\ at \in {"integer", "sign"} => s[n] \in Signs
         /\ at \in {"zero", "whole", "fraction", "power"} => s[n] \in Digits
         /\ at = "zero" => s[1] = "0" \/ (s[1] = "-" /\ s[2] = "0")
         /\ at = "whole" => s[1] = "1" \/ (s[1] = "-" /\ s[2] = "1")
         /\ n > 0 => s[1] \in Digits \cup {"-"}
         /\ at \in NumberStates \cup {"point"}
<1> USE DEF Digits, Signs, NumberStates
<1>1. CASE at \in {"number", "integer", "zero"}
  BY <1>1 DEF NumberTo
<1>2. CASE at = "whole"
  <2>1. IntegerTo(s, n) /\ (s[1] = "1" \/ (s[1] = "-" /\ s[2] = "1"))
    BY <1>2 DEF NumberTo
  <2>2. n > 0 /\ s[n] \in Digits /\ \A m \in 1 .. n : s[m] \in Digits \cup {"-"}
    BY <2>1, MantissaBytes
  <2> QED
    BY <1>2, <2>1, <2>2
<1>3. CASE at = "point"
  <2>1. n > 1 /\ s[n] = "." /\ IntegerTo(s, n - 1) /\ n - 1 \in Nat
    BY <1>3 DEF NumberTo
  <2>2. /\ s[1] \in Digits \/ s[1] = "-"
        /\ \A m \in 1 .. n - 1 : s[m] \in Digits \cup {"-"}
    BY <2>1, MantissaBytes
  <2>3. \A m \in 1 .. n : m \in 1 .. n - 1 \/ m = n
    BY <2>1
  <2> QED
    BY <1>3, <2>1, <2>2, <2>3
<1>4. CASE at = "fraction"
  <2>1. MantissaTo(s, n) /\ ~ IntegerTo(s, n)
    BY <1>4 DEF NumberTo
  <2>2. /\ n > 0 /\ s[n] \in Digits /\ (s[1] \in Digits \/ (s[1] = "-" /\ n > 1))
        /\ \A m \in 1 .. n : s[m] \in Digits \cup {"-", "."}
        /\ \E m \in 1 .. n : s[m] = "."
    BY <2>1, MantissaBytes
  <2> QED
    BY <1>4, <2>2
<1>5. CASE at = "exponent"
  <2>1. n > 1 /\ s[n] = "e" /\ MantissaTo(s, n - 1) /\ n - 1 \in Nat
    BY <1>5 DEF NumberTo
  <2>2. s[1] \in Digits \/ s[1] = "-"
    BY <2>1, MantissaBytes
  <2> QED
    BY <1>5, <2>1, <2>2
<1>6. CASE at = "sign"
  <2>1. n > 2 /\ s[n] \in Signs /\ s[n - 1] = "e" /\ MantissaTo(s, n - 2) /\ n - 2 \in Nat
    BY <1>6 DEF NumberTo
  <2>2. s[1] \in Digits \/ s[1] = "-"
    BY <2>1, MantissaBytes
  <2>3. n - 1 \in 1 .. n
    BY <2>1
  <2> QED
    BY <1>6, <2>1, <2>2, <2>3
<1>7. CASE at = "power"
  <2>1. PICK k \in 1 .. n - 1 :
          /\ MantissaTo(s, k)
          /\ s[k + 1] = "e"
          /\ \E j \in 2 .. 3 : k + j <= n /\ \A m \in k + j .. n : s[m] \in Digits
    BY <1>7 DEF NumberTo
  <2>2. k \in Nat /\ k + 1 \in 1 .. n
    OBVIOUS
  <2>3. s[1] \in Digits \/ s[1] = "-"
    BY <2>1, <2>2, MantissaBytes
  <2>4. s[n] \in Digits
    <3>1. PICK j \in 2 .. 3 : k + j <= n /\ \A m \in k + j .. n : s[m] \in Digits
      BY <2>1
    <3>2. n \in k + j .. n
      BY <3>1
    <3> QED
      BY <3>1, <3>2
  <2> QED
    BY <1>7, <2>1, <2>2, <2>3, <2>4
<1>8. at \in {"number", "integer", "zero", "whole", "point", "fraction", "exponent", "sign", "power"}
  BY DEF NumberTo
<1> QED
  BY <1>1, <1>2, <1>3, <1>4, <1>5, <1>6, <1>7, <1>8

\* The bytes lead the scan to one state only.
LEMMA NumberToOne ==
  ASSUME NEW s, NEW n \in Nat, NEW at, NEW to, NumberTo(at, s, n), NumberTo(to, s, n)
  PROVE  at = to
<1>1. /\ at \in {"number", "integer", "zero", "whole", "point", "fraction", "exponent", "sign", "power"}
      /\ to \in {"number", "integer", "zero", "whole", "point", "fraction", "exponent", "sign", "power"}
  BY DEF NumberTo
<1> DEFINE E == \E m \in 1 .. n : s[m] = "e"
           P == \E m \in 1 .. n : s[m] = "."
           Is(x) ==
             /\ x = "number" <=> n = 0
             /\ x \in {"exponent", "sign", "power"} <=> E
             /\ x \in {"integer", "zero", "whole"} => ~ P
             /\ x \in {"point", "fraction"} => P
             /\ x \in {"point", "exponent"} => s[n] \notin Digits \cup Signs
             /\ x \in {"integer", "sign"} => s[n] \in Signs
             /\ x \in {"zero", "whole", "fraction", "power"} => s[n] \in Digits
             /\ x = "zero" => s[1] = "0" \/ (s[1] = "-" /\ s[2] = "0")
             /\ x = "whole" => s[1] = "1" \/ (s[1] = "-" /\ s[2] = "1")
<1>2. Is(at) /\ Is(to)
  BY NumberBytes
<1> HIDE DEF E, P
<1> QED
  BY <1>1, <1>2 DEF Digits, Signs

\* Only the bytes up to n count.
LEMMA SameBytesSameNumber ==
  ASSUME NEW s, NEW t, NEW n \in Nat, \A m \in 1 .. n : s[m] = t[m]
  PROVE  /\ IntegerTo(s, n) => IntegerTo(t, n)
         /\ MantissaTo(s, n) => MantissaTo(t, n)
         /\ \A at : NumberTo(at, s, n) => NumberTo(at, t, n)
<1>1. ASSUME NEW k \in 0 .. n, IntegerTo(s, k) PROVE IntegerTo(t, k)
  <2>1. PICK j \in 1 .. 2 :
          /\ j <= k
          /\ j = 2 => s[1] = "-"
          /\ \A m \in j .. k : s[m] \in Digits
          /\ s[j] = "0" => k = j
    BY <1>1 DEF IntegerTo
  <2>2. \A m \in j .. k : t[m] = s[m]
    OBVIOUS
  <2>3. t[j] = s[j] /\ t[1] = s[1]
    BY <2>1
  <2> QED
    BY <2>1, <2>2, <2>3 DEF IntegerTo
<1>2. ASSUME NEW k \in 0 .. n, MantissaTo(s, k) PROVE MantissaTo(t, k)
  <2>1. PICK i \in 1 .. k : IntegerTo(s, i) /\ FractionTo(s, i, k)
    BY <1>2 DEF MantissaTo
  <2>2. IntegerTo(t, i)
    BY <1>1, <2>1
  <2>3. FractionTo(t, i, k)
    <3>1. CASE i = k
      BY <3>1 DEF FractionTo
    <3>2. CASE i # k
      <4>1. i + 1 < k /\ s[i + 1] = "." /\ \A m \in i + 2 .. k : s[m] \in Digits
        BY <2>1, <3>2 DEF FractionTo
      <4>2. t[i + 1] = s[i + 1] /\ \A m \in i + 2 .. k : t[m] = s[m]
        BY <4>1
      <4> QED
        BY <4>1, <4>2 DEF FractionTo
    <3> QED
      BY <3>1, <3>2
  <2> QED
    BY <2>2, <2>3 DEF MantissaTo
<1>3. ASSUME NEW k \in 0 .. n, IntegerTo(t, k) PROVE IntegerTo(s, k)
  <2>1. PICK j \in 1 .. 2 :
          /\ j <= k
          /\ j = 2 => t[1] = "-"
          /\ \A m \in j .. k : t[m] \in Digits
          /\ t[j] = "0" => k = j
    BY <1>3 DEF IntegerTo
  <2>2. \A m \in j .. k : t[m] = s[m]
    OBVIOUS
  <2>3. t[j] = s[j] /\ t[1] = s[1]
    BY <2>1
  <2> QED
    BY <2>1, <2>2, <2>3 DEF IntegerTo
<1>4. ASSUME NEW at, NumberTo(at, s, n) PROVE NumberTo(at, t, n)
  <2>1. at \in NumberStates \cup {"point"}
    BY <1>4, NumberBytes
  <2>2. CASE at \in {"number", "integer", "zero"}
    BY <1>4, <2>2 DEF NumberTo
  <2>3. CASE at = "whole"
    <3>1. IntegerTo(s, n) /\ (s[1] = "1" \/ (s[1] = "-" /\ s[2] = "1"))
      BY <1>4, <2>3 DEF NumberTo
    <3>2. n > 0 /\ (s[1] \in Digits \/ (s[1] = "-" /\ n > 1))
      BY <3>1, MantissaBytes
    <3>3. t[1] = "1" \/ (t[1] = "-" /\ t[2] = "1")
      BY <3>1, <3>2 DEF Digits
    <3> QED
      BY <1>1, <2>3, <3>1, <3>3 DEF NumberTo
  <2>4. CASE at = "point"
    <3>1. n > 1 /\ s[n] = "." /\ IntegerTo(s, n - 1)
      BY <1>4, <2>4 DEF NumberTo
    <3>2. IntegerTo(t, n - 1)
      BY <1>1, <3>1
    <3> QED
      BY <2>4, <3>1, <3>2 DEF NumberTo
  <2>5. CASE at = "fraction"
    BY <1>2, <1>3, <1>4, <2>5 DEF NumberTo
  <2>6. CASE at = "exponent"
    <3>1. n > 1 /\ s[n] = "e" /\ MantissaTo(s, n - 1)
      BY <1>4, <2>6 DEF NumberTo
    <3>2. MantissaTo(t, n - 1)
      BY <1>2, <3>1
    <3> QED
      BY <2>6, <3>1, <3>2 DEF NumberTo
  <2>7. CASE at = "sign"
    <3>1. n > 2 /\ s[n] \in Signs /\ s[n - 1] = "e" /\ MantissaTo(s, n - 2)
      BY <1>4, <2>7 DEF NumberTo
    <3>2. MantissaTo(t, n - 2)
      BY <1>2, <3>1
    <3> QED
      BY <2>7, <3>1, <3>2 DEF NumberTo
  <2>8. CASE at = "power"
    <3>1. PICK k \in 1 .. n - 1, j \in 2 .. 3 :
            /\ MantissaTo(s, k)
            /\ s[k + 1] = "e"
            /\ j = 3 => s[k + 2] \in Signs
            /\ k + j <= n
            /\ \A m \in k + j .. n : s[m] \in Digits
      BY <1>4, <2>8 DEF NumberTo
    <3>2. MantissaTo(t, k)
      BY <1>2, <3>1
    <3>3. t[k + 1] = s[k + 1] /\ t[k + 2] = s[k + 2] /\ \A m \in k + j .. n : t[m] = s[m]
      BY <3>1
    <3> QED
      BY <2>8, <3>1, <3>2, <3>3 DEF NumberTo
  <2> QED
    BY <2>1, <2>2, <2>3, <2>4, <2>5, <2>6, <2>7, <2>8 DEF NumberStates
<1> QED
  BY <1>1, <1>2, <1>4

\* One more digit.
LEMMA IntegerGrows ==
  ASSUME NEW s, NEW n \in Nat, n > 0, IntegerTo(s, n),
         s[1] = "1" \/ (s[1] = "-" /\ s[2] = "1"), s[n + 1] \in Digits
  PROVE  IntegerTo(s, n + 1)
<1>1. PICK j \in 1 .. 2 :
        /\ j <= n
        /\ j = 2 => s[1] = "-"
        /\ \A m \in j .. n : s[m] \in Digits
        /\ s[j] = "0" => n = j
  BY DEF IntegerTo
<1>2. j \in j .. n
  BY <1>1
<1>3. s[j] # "0"
  BY <1>1, <1>2 DEF Digits
<1>4. \A m \in j .. n + 1 : s[m] \in Digits
  <2>1. \A m \in j .. n + 1 : m \in j .. n \/ m = n + 1
    OBVIOUS
  <2> QED
    BY <1>1, <2>1
<1> QED
  BY <1>1, <1>3, <1>4 DEF IntegerTo

LEMMA MantissaIs ==
  ASSUME NEW s, NEW n \in Nat
  PROVE  MantissaTo(s, n) <=>
           \/ IntegerTo(s, n)
           \/ \E i \in 1 .. n - 2 : IntegerTo(s, i) /\ s[i + 1] = "." /\ \A m \in i + 2 .. n : s[m] \in Digits
<1>1. ASSUME MantissaTo(s, n), ~ IntegerTo(s, n)
      PROVE  \E i \in 1 .. n - 2 : IntegerTo(s, i) /\ s[i + 1] = "." /\ \A m \in i + 2 .. n : s[m] \in Digits
  <2>1. PICK i \in 1 .. n : IntegerTo(s, i) /\ FractionTo(s, i, n)
    BY <1>1 DEF MantissaTo
  <2>2. i # n
    BY <1>1, <2>1
  <2>3. i + 1 < n /\ s[i + 1] = "." /\ \A m \in i + 2 .. n : s[m] \in Digits
    BY <2>1, <2>2 DEF FractionTo
  <2> QED
    BY <2>1, <2>3
<1>2. ASSUME IntegerTo(s, n) PROVE MantissaTo(s, n)
  <2>1. n \in 1 .. n
    BY <1>2 DEF IntegerTo
  <2> QED
    BY <1>2, <2>1 DEF MantissaTo, FractionTo
<1>3. ASSUME NEW i \in 1 .. n - 2, IntegerTo(s, i), s[i + 1] = ".", \A m \in i + 2 .. n : s[m] \in Digits
      PROVE  MantissaTo(s, n)
  <2>1. i \in 1 .. n /\ i + 1 < n
    OBVIOUS
  <2> QED
    BY <1>3, <2>1 DEF MantissaTo, FractionTo
<1> QED
  BY <1>1, <1>2, <1>3

\* A step of the scan.
LEMMA NumberGrows ==
  ASSUME NEW s, NEW n \in Nat, NEW at, NEW to, NumberTo(at, s, n), <<at, s[n + 1], to>> \in NumberSteps
  PROVE  NumberTo(to, s, n + 1)
<1> DEFINE b == s[n + 1]
<1>0. n + 1 - 1 = n /\ n + 1 \in Nat /\ n + 1 - 2 = n - 1
  OBVIOUS
<1>1. \/ at = "number" /\ b = "-" /\ to = "integer"
      \/ at \in {"number", "integer"} /\ b = "0" /\ to = "zero"
      \/ at \in {"number", "integer"} /\ b = "1" /\ to = "whole"
      \/ at = "whole" /\ b \in Digits /\ to = "whole"
      \/ at \in {"zero", "whole"} /\ b = "." /\ to = "point"
      \/ at \in {"point", "fraction"} /\ b \in Digits /\ to = "fraction"
      \/ at \in {"zero", "whole", "fraction"} /\ b = "e" /\ to = "exponent"
      \/ at = "exponent" /\ b \in Signs /\ to = "sign"
      \/ at \in {"exponent", "sign", "power"} /\ b \in Digits /\ to = "power"
  BY DEF NumberSteps, NumberNext
<1>2. CASE at = "number"
  <2>1. n = 0
    BY <1>2, NumberBytes
  <2>2. s[1] = "1" => IntegerTo(s, 1)
    BY DEF IntegerTo, Digits
  <2> QED
    BY <1>1, <1>2, <2>1, <2>2 DEF NumberTo
<1>3. CASE at = "integer"
  <2>1. n = 1 /\ s[1] = "-"
    BY <1>3 DEF NumberTo
  <2>2. s[2] = "1" => IntegerTo(s, 2)
    <3>1. s[2] = "1" => \A m \in 2 .. 2 : s[m] \in Digits
      BY DEF Digits
    <3> QED
      BY <2>1, <3>1 DEF IntegerTo
  <2> QED
    BY <1>1, <1>3, <2>1, <2>2 DEF NumberTo
<1>4. CASE at \in {"zero", "whole"}
  <2>1. IntegerTo(s, n)
    <3>1. CASE at = "zero"
      <4>1. s[n] = "0" /\ (n = 1 \/ (n = 2 /\ s[1] = "-"))
        BY <3>1 DEF NumberTo
      <4>2. \A m \in n .. n : s[m] \in Digits
        BY <4>1 DEF Digits
      <4> QED
        BY <4>1, <4>2 DEF IntegerTo
    <3> QED
      BY <1>4, <3>1 DEF NumberTo
  <2>2. n > 0 /\ MantissaTo(s, n)
    BY <2>1, MantissaBytes, MantissaIs
  <2>3. CASE b \in Digits
    <3>1. at = "whole" /\ to = "whole"
      BY <1>1, <1>4, <2>3 DEF Digits
    <3>2. s[1] = "1" \/ (s[1] = "-" /\ s[2] = "1")
      BY <3>1 DEF NumberTo
    <3> QED
      BY <2>1, <2>2, <2>3, <3>1, <3>2, IntegerGrows DEF NumberTo
  <2>4. CASE b = "."
    <3>1. to = "point"
      BY <1>1, <1>4, <2>4 DEF Digits
    <3> QED
      BY <1>0, <2>1, <2>2, <2>4, <3>1 DEF NumberTo
  <2>5. CASE b = "e"
    <3>1. to = "exponent"
      BY <1>1, <1>4, <2>5 DEF Digits
    <3> QED
      BY <1>0, <2>2, <2>5, <3>1 DEF NumberTo
  <2> QED
    BY <1>1, <1>4, <2>3, <2>4, <2>5 DEF Digits
<1>5. CASE at \in {"point", "fraction"} /\ b \in Digits
  <2>1. to = "fraction"
    BY <1>1, <1>5 DEF Digits
  <2>2. \E i \in 1 .. n - 1 : IntegerTo(s, i) /\ s[i + 1] = "." /\ \A m \in i + 2 .. n : s[m] \in Digits
    <3>1. CASE at = "point"
      <4>1. n > 1 /\ s[n] = "." /\ IntegerTo(s, n - 1)
        BY <3>1 DEF NumberTo
      <4>2. n - 1 \in 1 .. n - 1 /\ (n - 1) + 1 = n /\ (n - 1) + 2 .. n = {}
        BY <4>1
      <4> QED
        BY <4>1, <4>2
    <3>2. CASE at = "fraction"
      <4>1. MantissaTo(s, n) /\ ~ IntegerTo(s, n)
        BY <3>2 DEF NumberTo
      <4>2. PICK i \in 1 .. n - 2 :
              IntegerTo(s, i) /\ s[i + 1] = "." /\ \A m \in i + 2 .. n : s[m] \in Digits
        BY <4>1, MantissaIs
      <4> QED
        BY <4>2
    <3> QED
      BY <1>5, <3>1, <3>2
  <2>3. PICK i \in 1 .. n - 1 : IntegerTo(s, i) /\ s[i + 1] = "." /\ \A m \in i + 2 .. n : s[m] \in Digits
    BY <2>2
  <2>4. i \in 1 .. n + 1 - 2 /\ i + 1 \in 1 .. n + 1
    OBVIOUS
  <2>5. \A m \in i + 2 .. n + 1 : m \in i + 2 .. n \/ m = n + 1
    OBVIOUS
  <2>6. MantissaTo(s, n + 1)
    BY <1>0, <1>5, <2>3, <2>4, <2>5, MantissaIs
  <2>7. ~ IntegerTo(s, n + 1)
    BY <1>0, <2>3, <2>4, MantissaBytes DEF Digits
  <2> QED
    BY <2>1, <2>6, <2>7 DEF NumberTo
<1>6. CASE at = "fraction" /\ b \notin Digits
  <2>1. b = "e" /\ to = "exponent" /\ MantissaTo(s, n)
    BY <1>1, <1>6 DEF NumberTo
  <2> QED
    BY <1>0, <2>1, MantissaBytes DEF NumberTo
<1>7. CASE at = "exponent"
  <2>1. n > 1 /\ s[n] = "e" /\ MantissaTo(s, n - 1)
    BY <1>7 DEF NumberTo
  <2>2. CASE to = "sign"
    BY <1>0, <1>1, <1>7, <2>1, <2>2 DEF NumberTo
  <2>3. CASE to = "power"
    <3>1. n - 1 \in 1 .. (n + 1) - 1 /\ (n - 1) + 1 = n /\ (n - 1) + 2 = n + 1
      BY <2>1
    <3>2. \A m \in (n - 1) + 2 .. n + 1 : s[m] \in Digits
      BY <1>1, <1>7, <2>3, <3>1
    <3> QED
      BY <2>1, <2>3, <3>1, <3>2 DEF NumberTo
  <2> QED
    BY <1>1, <1>7, <2>2, <2>3
<1>8. CASE at = "sign"
  <2>1. n > 2 /\ s[n] \in Signs /\ s[n - 1] = "e" /\ MantissaTo(s, n - 2)
    BY <1>8 DEF NumberTo
  <2>2. /\ n - 2 \in 1 .. (n + 1) - 1 /\ (n - 2) + 1 = n - 1 /\ (n - 2) + 2 = n
        /\ (n - 2) + 3 = n + 1
    BY <2>1
  <2>3. \A m \in (n - 2) + 3 .. n + 1 : s[m] \in Digits
    BY <1>1, <1>8, <2>2
  <2>4. to = "power"
    BY <1>1, <1>8
  <2> QED
    BY <2>1, <2>2, <2>3, <2>4 DEF NumberTo
<1>9. CASE at = "power"
  <2>1. PICK k \in 1 .. n - 1, j \in 2 .. 3 :
          /\ MantissaTo(s, k)
          /\ s[k + 1] = "e"
          /\ j = 3 => s[k + 2] \in Signs
          /\ k + j <= n
          /\ \A m \in k + j .. n : s[m] \in Digits
    BY <1>9 DEF NumberTo
  <2>2. k \in 1 .. (n + 1) - 1 /\ k + j <= n + 1
    BY <2>1
  <2>3. \A m \in k + j .. n + 1 : m \in k + j .. n \/ m = n + 1
    BY <2>1
  <2>4. to = "power" /\ b \in Digits
    BY <1>1, <1>9
  <2> QED
    BY <2>1, <2>2, <2>3, <2>4 DEF NumberTo
<1> QED
  BY <1>1, <1>2, <1>3, <1>4, <1>5, <1>6, <1>7, <1>8, <1>9

\* A step back.
LEMMA NumberCameFrom ==
  ASSUME NEW s, NEW n \in Nat, NEW to, NumberTo(to, s, n + 1)
  PROVE  \E at : NumberTo(at, s, n) /\ <<at, s[n + 1], to>> \in NumberSteps
<1> DEFINE b == s[n + 1]
<1> HIDE DEF b
<1>0. n + 1 - 1 = n /\ n + 1 \in Nat /\ n + 1 - 2 = n - 1 /\ b = s[n + 1]
  BY DEF b
<1>1. ASSUME NEW m \in Nat, m > 0, IntegerTo(s, m)
      PROVE  NumberTo("zero", s, m) \/ NumberTo("whole", s, m)
  <2>1. PICK j \in 1 .. 2 :
          /\ j <= m
          /\ j = 2 => s[1] = "-"
          /\ \A i \in j .. m : s[i] \in Digits
          /\ s[j] = "0" => m = j
    BY <1>1 DEF IntegerTo
  <2>2. j \in j .. m
    BY <2>1
  <2>3. CASE s[j] = "0"
    BY <2>1, <2>3 DEF NumberTo
  <2>4. CASE s[j] = "1"
    <3>1. s[1] = "1" \/ (s[1] = "-" /\ s[2] = "1")
      BY <2>1, <2>4
    <3> QED
      BY <1>1, <3>1 DEF NumberTo
  <2> QED
    BY <2>1, <2>2, <2>3, <2>4 DEF Digits
<1>2. ASSUME NEW m \in Nat, MantissaTo(s, m)
      PROVE  \E at \in {"zero", "whole", "fraction"} : NumberTo(at, s, m)
  <2>1. CASE IntegerTo(s, m)
    <3>1. m > 0
      BY <2>1, MantissaBytes
    <3> QED
      BY <1>1, <2>1, <3>1
  <2>2. CASE ~ IntegerTo(s, m)
    BY <1>2, <2>2 DEF NumberTo
  <2> QED
    BY <2>1, <2>2
<1>3. /\ \A at \in {"zero", "whole", "fraction"} : <<at, "e", "exponent">> \in NumberSteps
      /\ \A at \in {"zero", "whole"} : <<at, ".", "point">> \in NumberSteps
      /\ \A x \in Digits : \A at \in {"exponent", "sign", "power"} : <<at, x, "power">> \in NumberSteps
      /\ \A x \in Digits : \A at \in {"point", "fraction"} : <<at, x, "fraction">> \in NumberSteps
      /\ \A x \in Digits : <<"whole", x, "whole">> \in NumberSteps
      /\ \A x \in Signs : <<"exponent", x, "sign">> \in NumberSteps
      /\ <<"number", "-", "integer">> \in NumberSteps
      /\ \A at \in {"number", "integer"} :
           <<at, "0", "zero">> \in NumberSteps /\ <<at, "1", "whole">> \in NumberSteps
  BY DEF NumberSteps, NumberNext
<1>4. CASE to = "number"
  BY <1>4 DEF NumberTo
<1>5. CASE to = "integer"
  <2>1. n = 0 /\ b = "-"
    BY <1>0, <1>5 DEF NumberTo
  <2>2. NumberTo("number", s, n)
    BY <2>1 DEF NumberTo
  <2> QED
    BY <1>0, <1>3, <1>5, <2>1, <2>2
<1>6. CASE to = "zero"
  <2>1. b = "0" /\ (n = 0 \/ (n = 1 /\ s[1] = "-"))
    BY <1>0, <1>6 DEF NumberTo
  <2>2. NumberTo("number", s, n) \/ NumberTo("integer", s, n)
    BY <2>1 DEF NumberTo
  <2> QED
    BY <1>0, <1>3, <1>6, <2>1, <2>2
<1>7. CASE to = "whole"
  <2>1. IntegerTo(s, n + 1) /\ (s[1] = "1" \/ (s[1] = "-" /\ s[2] = "1"))
    BY <1>0, <1>7 DEF NumberTo
  <2>2. PICK j \in 1 .. 2 :
          /\ j <= n + 1
          /\ j = 2 => s[1] = "-"
          /\ \A i \in j .. n + 1 : s[i] \in Digits
          /\ s[j] = "0" => n + 1 = j
    BY <2>1 DEF IntegerTo
  <2>3. j \in j .. n + 1 /\ n + 1 \in j .. n + 1
    BY <2>2
  <2>4. s[j] = "1" /\ b \in Digits
    BY <1>0, <2>1, <2>2, <2>3 DEF Digits
  <2>5. CASE j = n + 1
    <3>1. b = "1"
      BY <1>0, <2>4, <2>5
    <3>2. NumberTo("number", s, n) \/ NumberTo("integer", s, n)
      BY <2>2, <2>5 DEF NumberTo
    <3> QED
      BY <1>0, <1>3, <1>7, <3>1, <3>2
  <2>6. CASE j # n + 1
    <3>1. j <= n
      BY <2>2, <2>6
    <3>2. \A i \in j .. n : i \in j .. n + 1
      OBVIOUS
    <3>3. IntegerTo(s, n)
      BY <2>2, <2>4, <3>1, <3>2 DEF IntegerTo
    <3>4. NumberTo("whole", s, n)
      BY <2>1, <3>3 DEF NumberTo
    <3> QED
      BY <1>0, <1>3, <1>7, <2>4, <3>4
  <2> QED
    BY <2>5, <2>6
<1>8. CASE to = "point"
  <2>1. n > 0 /\ b = "." /\ IntegerTo(s, n)
    BY <1>0, <1>8 DEF NumberTo
  <2> QED
    BY <1>0, <1>1, <1>3, <1>8, <2>1
<1>9. CASE to = "fraction"
  <2>1. MantissaTo(s, n + 1) /\ ~ IntegerTo(s, n + 1)
    BY <1>9 DEF NumberTo
  <2>2. PICK i \in 1 .. (n + 1) - 2 :
          IntegerTo(s, i) /\ s[i + 1] = "." /\ \A m \in i + 2 .. n + 1 : s[m] \in Digits
    BY <1>0, <2>1, MantissaIs
  <2>3. b \in Digits /\ n > 1
    BY <1>0, <2>2
  <2>4. CASE i = n - 1
    <3>1. NumberTo("point", s, n)
      BY <2>2, <2>3, <2>4 DEF NumberTo
    <3> QED
      BY <1>0, <1>3, <1>9, <2>3, <3>1
  <2>5. CASE i # n - 1
    <3>1. i \in 1 .. n - 2 /\ \A m \in i + 2 .. n : m \in i + 2 .. n + 1
      BY <2>5
    <3>2. MantissaTo(s, n)
      BY <2>2, <3>1, MantissaIs
    <3>3. ~ IntegerTo(s, n)
      <4>1. i + 1 \in 1 .. n
        BY <3>1
      <4> QED
        BY <2>2, <4>1, MantissaBytes DEF Digits
    <3>4. NumberTo("fraction", s, n)
      BY <3>2, <3>3 DEF NumberTo
    <3> QED
      BY <1>0, <1>3, <1>9, <2>3, <3>4
  <2> QED
    BY <2>4, <2>5
<1>10. CASE to = "exponent"
  <2>1. n > 0 /\ b = "e" /\ MantissaTo(s, n)
    BY <1>0, <1>10 DEF NumberTo
  <2> QED
    BY <1>0, <1>2, <1>3, <1>10, <2>1
<1>11. CASE to = "sign"
  <2>1. n > 1 /\ b \in Signs /\ s[n] = "e" /\ MantissaTo(s, n - 1)
    BY <1>0, <1>11 DEF NumberTo
  <2>2. NumberTo("exponent", s, n)
    BY <2>1 DEF NumberTo
  <2> QED
    BY <1>0, <1>3, <1>11, <2>1, <2>2
<1>12. CASE to = "power"
  <2>1. PICK k \in 1 .. (n + 1) - 1, j \in 2 .. 3 :
          /\ MantissaTo(s, k)
          /\ s[k + 1] = "e"
          /\ j = 3 => s[k + 2] \in Signs
          /\ k + j <= n + 1
          /\ \A m \in k + j .. n + 1 : s[m] \in Digits
    BY <1>12 DEF NumberTo
  <2>2. n + 1 \in k + j .. n + 1 /\ k \in Nat
    BY <2>1
  <2>3. b \in Digits
    BY <1>0, <2>1, <2>2
  <2>4. CASE k + j = n + 1 /\ j = 2
    <3>1. n - 1 = k /\ s[n] = "e" /\ n > 1
      BY <2>1, <2>4
    <3>2. NumberTo("exponent", s, n)
      BY <2>1, <3>1 DEF NumberTo
    <3> QED
      BY <1>0, <1>3, <1>12, <2>3, <3>2
  <2>5. CASE k + j = n + 1 /\ j = 3
    <3>1. n - 2 = k /\ k + 2 = n /\ k + 1 = n - 1 /\ n > 2
      BY <2>1, <2>5
    <3>2. NumberTo("sign", s, n)
      BY <2>1, <2>5, <3>1 DEF NumberTo
    <3> QED
      BY <1>0, <1>3, <1>12, <2>3, <3>2
  <2>6. CASE k + j # n + 1
    <3>1. k + j <= n /\ k \in 1 .. n - 1
      BY <2>1, <2>6
    <3>2. \A m \in k + j .. n : m \in k + j .. n + 1
      OBVIOUS
    <3>3. NumberTo("power", s, n)
      BY <2>1, <3>1, <3>2 DEF NumberTo
    <3> QED
      BY <1>0, <1>3, <1>12, <2>3, <3>3
  <2> QED
    BY <2>4, <2>5, <2>6
<1>13. to \in NumberStates \cup {"point"}
  BY <1>0, NumberBytes
<1> QED
  BY <1>4, <1>5, <1>6, <1>7, <1>8, <1>9, <1>10, <1>11, <1>12, <1>13 DEF NumberStates

\* The part of s behind i up to k.
LEMMA PartIs ==
  ASSUME NEW s \in Seq(Bytes), NEW i \in Nat, NEW k \in i .. Len(s)
  PROVE  /\ SubSeq(s, i + 1, k) \in Seq(Bytes)
         /\ Len(SubSeq(s, i + 1, k)) = k - i
         /\ \A m \in 1 .. k - i : SubSeq(s, i + 1, k)[m] = s[i + m]
<1>1. Len(s) \in Nat /\ k \in Nat
  OBVIOUS
<1>2. \A m \in i + 1 .. k : s[m] \in Bytes
  BY <1>1
<1>3. i + 1 \in Int /\ k \in Int
  BY <1>1
<1> DEFINE u == SubSeq(s, i + 1, k)
<1>4. /\ u \in Seq(Bytes)
      /\ Len(u) = IF i + 1 <= k THEN k - (i + 1) + 1 ELSE 0
      /\ \A m \in 1 .. k - (i + 1) + 1 : u[m] = s[i + 1 + m - 1]
  BY <1>2, <1>3, SubSeqProperties
<1> HIDE DEF u
<1>5. Len(u) = k - i
  BY <1>1, <1>4
<1>6. ASSUME NEW m \in 1 .. k - i PROVE u[m] = s[i + m]
  <2>1. m \in 1 .. k - (i + 1) + 1 /\ i + 1 + m - 1 = i + m
    BY <1>1
  <2> QED
    BY <1>4, <2>1
<1> QED
  BY <1>4, <1>5, <1>6 DEF u

LEMMA AllInIs ==
  ASSUME NEW s \in Seq(Bytes), NEW S
  PROVE  AllIn(s, S) <=> \A m \in 1 .. Len(s) : s[m] \in S
<1>1. DOMAIN s = 1 .. Len(s)
  OBVIOUS
<1> QED
  BY <1>1 DEF AllIn, ToSet

LEMMA IntegerIs ==
  ASSUME NEW s \in Seq(Bytes)
  PROVE  IsInteger(s) <=> IntegerTo(s, Len(s))
<1>1. Len(s) \in Nat
  OBVIOUS
<1>2. ASSUME NEW j \in 1 .. 2, j <= Len(s) + 1
      PROVE  LET int == SubSeq(s, j, Len(s))
             IN (AllIn(int, Digits) /\ int # << >> /\ (int[1] = "0" => Len(int) = 1))
                  <=> /\ j <= Len(s)
                      /\ \A m \in j .. Len(s) : s[m] \in Digits
                      /\ s[j] = "0" => Len(s) = j
  <2> DEFINE int == SubSeq(s, j, Len(s))
             l == Len(s) - (j - 1)
  <2>1. j - 1 \in Nat /\ Len(s) \in j - 1 .. Len(s) /\ (j - 1) + 1 = j /\ l \in Nat
    BY <1>1, <1>2
  <2>2. /\ int \in Seq(Bytes) /\ Len(int) = l
        /\ \A m \in 1 .. l : int[m] = s[(j - 1) + m]
    BY <2>1, PartIs
  <2>3. AllIn(int, Digits) <=> \A m \in 1 .. l : int[m] \in Digits
    BY <2>2, AllInIs
  <2> HIDE DEF int
  <2>4. (\A m \in 1 .. l : int[m] \in Digits) <=> \A m \in j .. Len(s) : s[m] \in Digits
    <3>1. ASSUME \A m \in 1 .. l : int[m] \in Digits, NEW m \in j .. Len(s) PROVE s[m] \in Digits
      <4>1. m - (j - 1) \in 1 .. l /\ (j - 1) + (m - (j - 1)) = m
        BY <1>1
      <4> QED
        BY <2>2, <3>1, <4>1
    <3>2. ASSUME \A m \in j .. Len(s) : s[m] \in Digits, NEW m \in 1 .. l PROVE int[m] \in Digits
      <4>1. (j - 1) + m \in j .. Len(s)
        BY <1>1
      <4> QED
        BY <2>2, <3>2, <4>1
    <3> QED
      BY <3>1, <3>2
  <2>5. int # << >> <=> j <= Len(s)
    <3>1. int # << >> <=> l > 0
      BY <2>1, <2>2, EmptySeq
    <3> QED
      BY <1>1, <3>1
  <2>6. j <= Len(s) => int[1] = s[j]
    BY <1>1, <2>2
  <2>7. Len(int) = 1 <=> Len(s) = j
    BY <1>1, <2>2
  <2> QED
    BY <2>3, <2>4, <2>5, <2>6, <2>7 DEF int
<1>3. ASSUME IsInteger(s) PROVE IntegerTo(s, Len(s))
  <2>1. PICK j \in 1 .. 2 :
          /\ j = 2 => Len(s) > 0 /\ s[1] = "-"
          /\ LET int == SubSeq(s, j, Len(s))
             IN AllIn(int, Digits) /\ int # << >> /\ (int[1] = "0" => Len(int) = 1)
    BY <1>3 DEF IsInteger
  <2>2. j <= Len(s) + 1
    BY <1>1, <2>1
  <2>3. /\ j <= Len(s)
        /\ \A m \in j .. Len(s) : s[m] \in Digits
        /\ s[j] = "0" => Len(s) = j
    BY <1>2, <2>1, <2>2
  <2> QED
    BY <2>1, <2>3 DEF IntegerTo
<1>4. ASSUME IntegerTo(s, Len(s)) PROVE IsInteger(s)
  <2>1. PICK j \in 1 .. 2 :
          /\ j <= Len(s)
          /\ j = 2 => s[1] = "-"
          /\ \A m \in j .. Len(s) : s[m] \in Digits
          /\ s[j] = "0" => Len(s) = j
    BY <1>4 DEF IntegerTo
  <2>2. j <= Len(s) + 1 /\ (j = 2 => Len(s) > 0)
    BY <1>1, <2>1
  <2>3. LET int == SubSeq(s, j, Len(s))
        IN AllIn(int, Digits) /\ int # << >> /\ (int[1] = "0" => Len(int) = 1)
    BY <1>2, <2>1, <2>2
  <2> QED
    BY <2>1, <2>2, <2>3 DEF IsInteger
<1> QED
  BY <1>3, <1>4

LEMMA FractionIs ==
  ASSUME NEW s \in Seq(Bytes), NEW i \in Nat, NEW k \in i .. Len(s)
  PROVE  IsFraction(SubSeq(s, i + 1, k)) <=> FractionTo(s, i, k)
<1> DEFINE u == SubSeq(s, i + 1, k)
           l == k - i
<1>0. Len(s) \in Nat /\ k \in Nat /\ l \in Nat
  OBVIOUS
<1>1. u \in Seq(Bytes) /\ Len(u) = l /\ \A m \in 1 .. l : u[m] = s[i + m]
  BY PartIs
<1> HIDE DEF u
<1>2. u = << >> <=> l = 0
  BY <1>0, <1>1, EmptySeq
<1>3. CASE l = 0
  <2>1. i = k
    BY <1>0, <1>3
  <2> QED
    BY <1>2, <1>3, <2>1 DEF IsFraction, FractionTo, u
<1>4. CASE l # 0
  <2>1. u[1] = s[i + 1] /\ u # << >> /\ i # k
    BY <1>0, <1>1, <1>2, <1>4
  <2>2. /\ Tail(u) \in Seq(Bytes) /\ Len(Tail(u)) = l - 1
        /\ \A m \in 1 .. l - 1 : Tail(u)[m] = u[m + 1]
    BY <1>1, <2>1, HeadTailProperties
  <2>3. AllIn(Tail(u), Digits) <=> \A m \in 1 .. l - 1 : u[m + 1] \in Digits
    BY <2>2, AllInIs
  <2>4. (\A m \in 1 .. l - 1 : u[m + 1] \in Digits) <=> \A m \in i + 2 .. k : s[m] \in Digits
    <3>1. ASSUME \A m \in 1 .. l - 1 : u[m + 1] \in Digits, NEW m \in i + 2 .. k PROVE s[m] \in Digits
      <4>1. m - i - 1 \in 1 .. l - 1 /\ (m - i - 1) + 1 \in 1 .. l /\ i + ((m - i - 1) + 1) = m
        BY <1>0
      <4>2. u[(m - i - 1) + 1] = s[i + ((m - i - 1) + 1)] /\ u[(m - i - 1) + 1] \in Digits
        BY <1>1, <3>1, <4>1
      <4> QED
        BY <4>1, <4>2
    <3>2. ASSUME \A m \in i + 2 .. k : s[m] \in Digits, NEW m \in 1 .. l - 1 PROVE u[m + 1] \in Digits
      <4>1. m + 1 \in 1 .. l /\ i + (m + 1) \in i + 2 .. k
        BY <1>0
      <4> QED
        BY <1>1, <3>2, <4>1
    <3> QED
      BY <3>1, <3>2
  <2>5. Len(u) > 1 <=> i + 1 < k
    BY <1>0, <1>1
  <2> QED
    BY <2>1, <2>3, <2>4, <2>5 DEF IsFraction, FractionTo, u
<1> QED
  BY <1>3, <1>4

ExponentTo(s, k, n) ==
  \/ k = n
  \/ /\ s[k + 1] = "e"
     /\ \E j \in 2 .. 3 :
          /\ j = 3 => s[k + 2] \in Signs
          /\ k + j <= n
          /\ \A m \in k + j .. n : s[m] \in Digits

LEMMA ExponentIs ==
  ASSUME NEW s \in Seq(Bytes), NEW i \in 0 .. Len(s)
  PROVE  IsExponent(SubSeq(s, i + 1, Len(s))) <=> ExponentTo(s, i, Len(s))
<1> DEFINE k == Len(s)
           u == SubSeq(s, i + 1, k)
           l == k - i
<1>0. k \in Nat /\ k \in i .. Len(s) /\ l \in Nat /\ i \in Nat
  OBVIOUS
<1>1. u \in Seq(Bytes) /\ Len(u) = l /\ \A m \in 1 .. l : u[m] = s[i + m]
  BY <1>0, PartIs
<1> HIDE DEF u, k
<1>2. u = << >> <=> l = 0
  BY <1>0, <1>1, EmptySeq
<1>3. CASE l = 0
  <2>1. i = k
    BY <1>0, <1>3
  <2> QED
    BY <1>2, <1>3, <2>1 DEF IsExponent, ExponentTo, u, k
<1>4. CASE l # 0
  <2>1. u[1] = s[i + 1] /\ u # << >> /\ i # k
    BY <1>0, <1>1, <1>2, <1>4
  <2>2. ASSUME NEW j \in 2 .. 3
        PROVE  (/\ j = 3 => Len(u) > 1 /\ u[2] \in Signs
                /\ Len(u) >= j
                /\ AllIn(SubSeq(u, j, Len(u)), Digits))
                 <=> /\ j = 3 => s[i + 2] \in Signs
                     /\ i + j <= k
                     /\ \A m \in i + j .. k : s[m] \in Digits
    <3>1. CASE l < j
      BY <1>0, <1>1, <3>1
    <3>2. CASE l >= j
      <4>1. j - 1 \in Nat /\ l \in j - 1 .. Len(u) /\ (j - 1) + 1 = j /\ l - (j - 1) \in Nat
        BY <1>0, <1>1, <3>2
      <4> DEFINE v == SubSeq(u, j, l)
      <4> HIDE DEF l
      <4>6. /\ SubSeq(u, (j - 1) + 1, l) \in Seq(Bytes)
            /\ Len(SubSeq(u, (j - 1) + 1, l)) = l - (j - 1)
            /\ \A m \in 1 .. l - (j - 1) : SubSeq(u, (j - 1) + 1, l)[m] = u[(j - 1) + m]
        BY <1>1, <4>1, PartIs
      <4>2. /\ v \in Seq(Bytes) /\ Len(v) = l - (j - 1)
            /\ \A m \in 1 .. l - (j - 1) : v[m] = u[(j - 1) + m]
        BY <4>1, <4>6
      <4> USE DEF l
      <4> HIDE DEF v
      <4>7. AllIn(v, Digits) <=> \A m \in 1 .. l - (j - 1) : v[m] \in Digits
        BY <4>2, AllInIs
      <4>3. AllIn(v, Digits) <=> \A m \in 1 .. l - (j - 1) : u[(j - 1) + m] \in Digits
        BY <4>2, <4>7
      <4>4. (\A m \in 1 .. l - (j - 1) : u[(j - 1) + m] \in Digits) <=> \A m \in i + j .. k : s[m] \in Digits
        <5>1. ASSUME \A m \in 1 .. l - (j - 1) : u[(j - 1) + m] \in Digits, NEW m \in i + j .. k
              PROVE  s[m] \in Digits
          <6> DEFINE x == m - i - (j - 1)
          <6>1. x \in 1 .. l - (j - 1) /\ (j - 1) + x \in 1 .. l /\ i + ((j - 1) + x) = m
            BY <1>0
          <6> HIDE DEF x
          <6> QED
            BY <1>1, <5>1, <6>1
        <5>2. ASSUME \A m \in i + j .. k : s[m] \in Digits, NEW m \in 1 .. l - (j - 1)
              PROVE  u[(j - 1) + m] \in Digits
          <6>1. (j - 1) + m \in 1 .. l /\ i + ((j - 1) + m) \in i + j .. k
            BY <1>0
          <6> QED
            BY <1>1, <5>2, <6>1
        <5> QED
          BY <5>1, <5>2
      <4>5. i + j <= k /\ u[2] = s[i + 2] /\ Len(u) > 1 /\ Len(u) >= j
        BY <1>0, <1>1, <3>2
      <4> QED
        BY <1>1, <4>3, <4>4, <4>5 DEF v
    <3> QED
      BY <1>0, <3>1, <3>2
  <2> QED
    BY <2>1, <2>2 DEF IsExponent, ExponentTo, u, k
<1> QED
  BY <1>3, <1>4

\* A text is a number if the scan of it is where a number may end.
LEMMA NumberIs ==
  ASSUME NEW s \in Seq(Bytes)
  PROVE  IsNumber(s) <=> \E at \in {"zero", "whole", "fraction", "power"} : NumberTo(at, s, Len(s))
<1> DEFINE n == Len(s)
<1>0. n \in Nat
  OBVIOUS
<1>1. ASSUME NEW i \in 0 .. n, NEW k \in i .. n
      PROVE  (/\ IsInteger(SubSeq(s, 1, i))
              /\ IsFraction(SubSeq(s, i + 1, k))
              /\ IsExponent(SubSeq(s, k + 1, n)))
               <=> IntegerTo(s, i) /\ FractionTo(s, i, k) /\ ExponentTo(s, k, n)
  <2>1. i \in Nat /\ k \in 0 .. n /\ i \in 0 .. n /\ 0 \in Nat /\ k \in i .. Len(s)
    OBVIOUS
  <2>2. SubSeq(s, 1, i) \in Seq(Bytes) /\ Len(SubSeq(s, 1, i)) = i
        /\ \A m \in 1 .. i : SubSeq(s, 1, i)[m] = s[m]
    <3>1. 0 + 1 = 1 /\ i - 0 = i /\ \A m \in 1 .. i : 0 + m = m
      OBVIOUS
    <3> QED
      BY <2>1, <3>1, PartIs
  <2>3. IsInteger(SubSeq(s, 1, i)) <=> IntegerTo(SubSeq(s, 1, i), i)
    BY <2>2, IntegerIs
  <2>4. IntegerTo(SubSeq(s, 1, i), i) <=> IntegerTo(s, i)
    BY <2>1, <2>2, SameBytesSameNumber
  <2> QED
    BY <2>1, <2>3, <2>4, FractionIs, ExponentIs
<1>2. IsNumber(s) <=> \E k \in 0 .. n : MantissaTo(s, k) /\ ExponentTo(s, k, n)
  <2>1. ASSUME IsNumber(s) PROVE \E k \in 0 .. n : MantissaTo(s, k) /\ ExponentTo(s, k, n)
    <3>1. PICK i \in 0 .. n :
            \E k \in i .. n : IntegerTo(s, i) /\ FractionTo(s, i, k) /\ ExponentTo(s, k, n)
      BY <1>1, <2>1 DEF IsNumber
    <3>2. PICK k \in i .. n : IntegerTo(s, i) /\ FractionTo(s, i, k) /\ ExponentTo(s, k, n)
      BY <3>1
    <3>3. i > 0 /\ k \in 0 .. n
      BY <3>2, MantissaBytes
    <3> QED
      BY <3>2, <3>3 DEF MantissaTo
  <2>2. ASSUME NEW k \in 0 .. n, MantissaTo(s, k), ExponentTo(s, k, n) PROVE IsNumber(s)
    <3>1. PICK i \in 1 .. k : IntegerTo(s, i) /\ FractionTo(s, i, k)
      BY <2>2 DEF MantissaTo
    <3>2. i \in 0 .. n /\ k \in i .. n
      BY <1>0
    <3> QED
      BY <1>1, <2>2, <3>1, <3>2 DEF IsNumber
  <2> QED
    BY <2>1, <2>2
<1> HIDE DEF n
<1>3. ASSUME NEW k \in 0 .. n, MantissaTo(s, k), ExponentTo(s, k, n)
      PROVE  \E at \in {"zero", "whole", "fraction", "power"} : NumberTo(at, s, n)
  <2>1. CASE k = n
    <3>1. CASE ~ IntegerTo(s, n)
      BY <1>3, <2>1, <3>1 DEF NumberTo
    <3>2. CASE IntegerTo(s, n)
      <4>1. PICK j \in 1 .. 2 :
              /\ j <= n
              /\ j = 2 => s[1] = "-"
              /\ \A i \in j .. n : s[i] \in Digits
              /\ s[j] = "0" => n = j
        BY <3>2 DEF IntegerTo
      <4>2. j \in j .. n
        BY <1>0, <4>1
      <4>3. CASE s[j] = "0"
        BY <1>0, <4>1, <4>3 DEF NumberTo
      <4>4. CASE s[j] = "1"
        <5>1. s[1] = "1" \/ (s[1] = "-" /\ s[2] = "1")
          BY <4>1, <4>4
        <5> QED
          BY <3>2, <5>1 DEF NumberTo
      <4> QED
        BY <4>1, <4>2, <4>3, <4>4 DEF Digits
    <3> QED
      BY <3>1, <3>2
  <2>2. CASE k # n
    <3>1. /\ s[k + 1] = "e"
          /\ \E j \in 2 .. 3 :
               /\ j = 3 => s[k + 2] \in Signs
               /\ k + j <= n
               /\ \A m \in k + j .. n : s[m] \in Digits
      BY <1>3, <2>2 DEF ExponentTo
    <3>2. k > 0
      BY <1>3, MantissaBytes
    <3>3. k \in 1 .. n - 1
      BY <1>0, <2>2, <3>2
    <3> QED
      BY <1>3, <3>1, <3>3 DEF NumberTo
  <2> QED
    BY <2>1, <2>2
<1>4. ASSUME NEW at \in {"zero", "whole", "fraction", "power"}, NumberTo(at, s, n)
      PROVE  \E k \in 0 .. n : MantissaTo(s, k) /\ ExponentTo(s, k, n)
  <2>1. CASE at \in {"zero", "whole", "fraction"}
    <3>1. MantissaTo(s, n)
      <4>1. CASE at = "zero"
        <5>1. s[n] = "0" /\ (n = 1 \/ (n = 2 /\ s[1] = "-"))
          BY <1>4, <4>1 DEF NumberTo
        <5>2. \A m \in n .. n : s[m] \in Digits
          BY <5>1 DEF Digits
        <5>3. IntegerTo(s, n)
          BY <5>1, <5>2 DEF IntegerTo
        <5> QED
          BY <1>0, <5>3, MantissaIs
      <4>2. CASE at = "whole"
        BY <1>0, <1>4, <4>2, MantissaIs DEF NumberTo
      <4>3. CASE at = "fraction"
        BY <1>4, <4>3 DEF NumberTo
      <4> QED
        BY <2>1, <4>1, <4>2, <4>3
    <3> QED
      BY <1>0, <3>1 DEF ExponentTo
  <2>2. CASE at = "power"
    <3>1. PICK k \in 1 .. n - 1 :
            /\ MantissaTo(s, k)
            /\ s[k + 1] = "e"
            /\ \E j \in 2 .. 3 :
                 /\ j = 3 => s[k + 2] \in Signs
                 /\ k + j <= n
                 /\ \A m \in k + j .. n : s[m] \in Digits
      BY <1>4, <2>2 DEF NumberTo
    <3>2. k \in 0 .. n
      BY <1>0
    <3> QED
      BY <3>1, <3>2 DEF ExponentTo
  <2> QED
    BY <2>1, <2>2
<1> QED
  BY <1>2, <1>3, <1>4 DEF n

-----------------------------------------------------------------------------
(* The longest token                                                       *)

LEMMA AppendIs ==
  ASSUME NEW s \in Seq(Bytes), NEW x \in Bytes
  PROVE  /\ Append(s, x) \in Seq(Bytes)
         /\ Len(Append(s, x)) = Len(s) + 1 /\ Append(s, x)[Len(s) + 1] = x
         /\ \A m \in 1 .. Len(s) : Append(s, x)[m] = s[m]
OBVIOUS

\* A number does not go on where the scan of it does not.
LEMMA NumberIsWhole ==
  ASSUME NEW s \in Seq(Bytes), NEW x \in Bytes, NEW at, NumberTo(at, s, Len(s)),
         ~ \E to : <<at, x, to>> \in NumberSteps
  PROVE  ~ IsNumber(Append(s, x)) /\ ~ IsNumber(Append(Append(s, x), "1"))
<1> DEFINE n == Len(s)
           t == Append(s, x)
           u == Append(t, "1")
<1>0. n \in Nat /\ n + 1 \in Nat /\ "1" \in Bytes
  BY DEF Bytes, Ascii, Digits
<1>1. t \in Seq(Bytes) /\ Len(t) = n + 1 /\ t[n + 1] = x /\ \A m \in 1 .. n : t[m] = s[m]
  BY AppendIs
<1> HIDE DEF t
<1>2. u \in Seq(Bytes) /\ Len(u) = (n + 1) + 1 /\ \A m \in 1 .. n + 1 : u[m] = t[m]
  BY <1>0, <1>1, AppendIs
<1> HIDE DEF u, n
<1>3. ASSUME NEW to, NumberTo(to, t, n + 1) PROVE FALSE
  <2>1. PICK a : NumberTo(a, t, n) /\ <<a, t[n + 1], to>> \in NumberSteps
    BY <1>0, <1>3, NumberCameFrom
  <2>2. NumberTo(a, s, n)
    BY <1>0, <1>1, <2>1, SameBytesSameNumber
  <2>3. a = at
    BY <1>0, <2>2, NumberToOne DEF n
  <2> QED
    BY <1>1, <2>1, <2>3
<1>4. ~ IsNumber(t)
  BY <1>1, <1>3, NumberIs
<1>5. ASSUME IsNumber(u) PROVE FALSE
  <2>1. PICK to : NumberTo(to, u, (n + 1) + 1)
    BY <1>2, <1>5, NumberIs
  <2>2. PICK a : NumberTo(a, u, n + 1)
    BY <1>0, <2>1, NumberCameFrom
  <2>3. NumberTo(a, t, n + 1)
    BY <1>0, <1>2, <2>2, SameBytesSameNumber
  <2> QED
    BY <1>3, <2>3
<1> QED
  BY <1>4, <1>5 DEF t, u

\* The first byte says what kind of lexeme it may be.
LEMMA FirstByteTells ==
  ASSUME NEW t \in Seq(Bytes), Len(t) > 0, BeginsLexeme(t)
  PROVE  /\ t[1] \in Digits \cup {"-"} => IsNumber(t) \/ IsNumber(Append(t, "1"))
         /\ t[1] \in Letters => \E k \in Keywords : IsPrefix(t, k)
         /\ t[1] = "[" => t = <<"[">>
         /\ t[1] \in Digits \cup {"-"} \cup Letters \cup {"[", Quote}
<1>0. Len(t) \in Nat /\ t # << >> /\ "1" \in Bytes
  BY DEF Bytes, Ascii, Digits
<1>1. ASSUME NEW s \in Seq(Bytes), Len(s) > 0, s[1] = t[1], IsNumber(s) PROVE t[1] \in Digits \cup {"-"}
  <2>1. PICK at : NumberTo(at, s, Len(s))
    BY <1>1, NumberIs
  <2>2. Len(s) \in Nat
    OBVIOUS
  <2> QED
    BY <1>1, <2>1, <2>2, NumberBytes
<1>2. ASSUME IsNumber(t) \/ IsNumber(Append(t, "1")) PROVE t[1] \in Digits \cup {"-"}
  <2>1. Append(t, "1") \in Seq(Bytes) /\ Len(Append(t, "1")) > 0 /\ Append(t, "1")[1] = t[1]
    BY <1>0
  <2> QED
    BY <1>1, <1>2, <2>1
<1>3. ASSUME NEW k \in Keywords, IsPrefix(t, k) PROVE t[1] \in Letters
  <2>1. k \in Seq(Letters) /\ Len(t) <= Len(k) /\ SubSeq(t, 1, Len(t)) = SubSeq(k, 1, Len(t))
    BY <1>3, KeywordsAssumption DEF IsPrefix
  <2>2. SubSeq(t, 1, Len(t))[1] = t[1] /\ SubSeq(k, 1, Len(t))[1] = k[1] /\ k[1] \in Letters
    BY <1>0, <2>1
  <2> QED
    BY <2>1, <2>2
<1>4. ASSUME t \in Keywords PROVE IsPrefix(t, t)
  BY DEF IsPrefix
<1>5. ASSUME StringValues(t) # {} \/ (t # << >> /\ t[1] = Quote) PROVE t[1] = Quote
  BY <1>5 DEF StringValues
<1>6. <<"[">>[1] = "["
  OBVIOUS
<1>7. \/ t = <<"[">>
      \/ \E k \in Keywords : IsPrefix(t, k)
      \/ IsNumber(t) \/ IsNumber(Append(t, "1"))
      \/ t[1] = Quote
  BY <1>4, <1>5 DEF BeginsLexeme, IsLexeme
<1> QED
  BY <1>2, <1>3, <1>6, <1>7 DEF Digits, Letters, Quote

\* A number, a word and a bracket go on with no byte that the scanner has not taken.
LEMMA NumberIsLongest ==
  ASSUME NEW s \in Seq(Bytes), NEW x \in Bytes, NEW at, Len(s) > 0, NumberTo(at, s, Len(s)),
         ~ \E to : <<at, x, to>> \in NumberSteps
  PROVE  ~ BeginsLexeme(Append(s, x))
<1> DEFINE t == Append(s, x)
<1>1. t \in Seq(Bytes) /\ Len(t) > 0 /\ t[1] = s[1] /\ Len(s) \in Nat
  BY AppendIs
<1>2. t[1] \in Digits \cup {"-"}
  BY <1>1, NumberBytes
<1>3. ~ IsNumber(t) /\ ~ IsNumber(Append(t, "1"))
  BY NumberIsWhole
<1> HIDE DEF t
<1>4. ~ BeginsLexeme(t)
  BY <1>1, <1>2, <1>3, FirstByteTells
<1> QED
  BY <1>4 DEF t

LEMMA WordIsLongest ==
  ASSUME NEW s \in Seq(Letters), NEW x \in Bytes \ Letters, Len(s) > 0
  PROVE  ~ BeginsLexeme(Append(s, x))
<1> DEFINE t == Append(s, x)
           n == Len(s)
<1>0. n \in Nat /\ Letters \subseteq Bytes
  BY DEF Bytes, Ascii
<1>1. s \in Seq(Bytes)
  BY <1>0, SeqMonotonic
<1>2. t \in Seq(Bytes) /\ Len(t) = n + 1 /\ t[n + 1] = x /\ t[1] = s[1] /\ s[1] \in Letters
  BY <1>0, <1>1, AppendIs
<1>3. ASSUME NEW k \in Keywords, IsPrefix(t, k) PROVE FALSE
  <2> HIDE DEF t, n
  <2>1. k \in Seq(Letters) /\ Len(t) <= Len(k) /\ SubSeq(t, 1, Len(t)) = SubSeq(k, 1, Len(t))
    BY <1>3, KeywordsAssumption DEF IsPrefix
  <2>2. /\ SubSeq(t, 1, Len(t))[n + 1] = t[n + 1]
        /\ SubSeq(k, 1, Len(t))[n + 1] = k[n + 1] /\ k[n + 1] \in Letters
    BY <1>0, <1>2, <2>1
  <2> QED
    BY <1>2, <2>1, <2>2
<1> HIDE DEF t
<1>4. ~ BeginsLexeme(t)
  BY <1>0, <1>2, <1>3, FirstByteTells
<1> QED
  BY <1>4 DEF t

LEMMA BracketIsLongest ==
  ASSUME NEW x \in Bytes
  PROVE  ~ BeginsLexeme(Append(<<"[">>, x))
<1> DEFINE t == Append(<<"[">>, x)
<1>1. <<"[">> \in Seq(Bytes) /\ Len(<<"[">>) = 1 /\ <<"[">>[1] = "["
  BY DEF Bytes, Ascii
<1>2. t \in Seq(Bytes) /\ Len(t) = 2 /\ t[1] = "["
  BY <1>1, AppendIs
<1> HIDE DEF t
<1>4. t # <<"[">> /\ Len(t) > 0
  BY <1>1, <1>2
<1>3. ~ BeginsLexeme(t)
  BY <1>2, <1>4, FirstByteTells
<1> QED
  BY <1>3 DEF t

-----------------------------------------------------------------------------
(* Strings                                                                 *)

Broken == {BadEscape, Unreachable}

Then(first, others) == IF others \in Broken THEN others ELSE <<first>> \o others

\* What Decoded says of the text from i on, if f says it of what follows.
DecodedFrom(bytes, f, i) ==
  IF i >= Len(bytes) THEN << >>
  ELSE IF bytes[i] # Backslash THEN Then(<<bytes[i]>>, f[i + 1])
  ELSE IF bytes[i + 1] = "n" THEN Then(<<"newline">>, f[i + 2])
  ELSE IF bytes[i + 1] \in {Quote, Backslash, "/"} THEN Then(<<bytes[i + 1]>>, f[i + 2])
  ELSE IF bytes[i + 1] # "u" THEN Unreachable
  ELSE IF ~IsUnitAt(bytes, i + 1) THEN BadEscape
  ELSE IF UnitAt(bytes, i + 1) \in Leading
       THEN IF /\ IsUnitAt(bytes, i + (EscapeDigits + 2) + 1)
               /\ bytes[i + (EscapeDigits + 2)] = Backslash
               /\ IsTrailing(UnitAt(bytes, i + (EscapeDigits + 2) + 1))
            THEN Then(<<"u">> \o UnitAt(bytes, i + 1) \o UnitAt(bytes, i + (EscapeDigits + 2) + 1),
                      f[i + 2 * (EscapeDigits + 2)])
            ELSE BadEscape
       ELSE IF UnitAt(bytes, i + 1) \in Trailing THEN BadEscape
       ELSE Then(<<"u">> \o UnitAt(bytes, i + 1), f[i + (EscapeDigits + 2)])

Rests(bytes) == CHOOSE f : f = [i \in Nat |-> DecodedFrom(bytes, f, i)]

LEMMA DecodedIs ==
  ASSUME NEW bytes
  PROVE  Decoded(bytes) = Rests(bytes)[2]
BY DEF Decoded, Rests, DecodedFrom, Then, Broken

\* The same for Readings.
Rest(s, i) == SubSeq(s, i, Len(s))

ReadFrom(s, cut, f, i) ==
  IF i > Len(s) THEN {<< >>}
  ELSE UNION {{p.value \o v : v \in f[i + Len(p.text)]} : p \in {q \in Pieces : IsPrefix(q.text, Rest(s, i))}}
       \cup IF cut /\ \E p \in Pieces : IsStrictPrefix(Rest(s, i), p.text) THEN {<< >>} ELSE {}

Reads(s, cut) == CHOOSE f : f = [i \in Nat |-> ReadFrom(s, cut, f, i)]

LEMMA ReadingsAre ==
  ASSUME NEW s, NEW cut
  PROVE  Readings(s, cut) = Reads(s, cut)[1]
BY DEF Readings, Reads, ReadFrom, Rest

\* Induction over the numbers of a set.
LEMMA SetInduction ==
  ASSUME NEW S, 0 \in S, \A k \in Nat : k \in S => k + 1 \in S
  PROVE  Nat \subseteq S
<1> SUFFICES ASSUME Nat \ S # {} PROVE FALSE
  OBVIOUS
<1>1. PICK x \in Nat \ S : \A y \in Nat \ S : x <= y
  <2>1. Nat \ S \in SUBSET Nat
    OBVIOUS
  <2> QED
    BY <2>1, SmallestExists
<1>2. x - 1 \in Nat /\ x - 1 + 1 = x
  BY <1>1
<1>3. x - 1 \in S
  BY <1>1, <1>2
<1> QED
  BY <1>1, <1>2, <1>3

\* What the definitions by recursion say at i depends on what lies behind i.
LEMMA DecodedFromLocal ==
  ASSUME NEW bytes, NEW f, NEW g, NEW i \in Nat, \A j \in Nat : j > i => f[j] = g[j]
  PROVE  DecodedFrom(bytes, f, i) = DecodedFrom(bytes, g, i)
<1>1. \A k \in Nat \ {0} : f[i + k] = g[i + k]
  OBVIOUS
<1>2. /\ 1 \in Nat \ {0} /\ 2 \in Nat \ {0} /\ EscapeDigits + 2 \in Nat \ {0}
      /\ 2 * (EscapeDigits + 2) \in Nat \ {0}
  BY EscapeAssumption
<1>3. /\ f[i + 1] = g[i + 1] /\ f[i + 2] = g[i + 2] /\ f[i + (EscapeDigits + 2)] = g[i + (EscapeDigits + 2)]
      /\ f[i + 2 * (EscapeDigits + 2)] = g[i + 2 * (EscapeDigits + 2)]
  BY <1>1, <1>2
<1> QED
  BY <1>3 DEF DecodedFrom

LEMMA RestsAre ==
  ASSUME NEW bytes \in Seq(Bytes)
  PROVE  \A i \in Nat : Rests(bytes)[i] = DecodedFrom(bytes, Rests(bytes), i)
<1> DEFINE l == Len(bytes)
           Solves(f, k) == f = [i \in Nat |-> f[i]] /\ \A i \in Nat : i + k >= l => f[i] = DecodedFrom(bytes, f, i)
           K == {k \in Nat : \E f : Solves(f, k)}
<1>0. l \in Nat
  OBVIOUS
<1> HIDE DEF l
<1>1. 0 \in K
  <2> DEFINE f == [i \in Nat |-> << >>]
  <2>1. \A i \in Nat : i + 0 >= l => f[i] = DecodedFrom(bytes, f, i)
    BY <1>0 DEF DecodedFrom, l
  <2>2. f = [i \in Nat |-> f[i]]
    OBVIOUS
  <2>3. Solves(f, 0)
    BY <2>1, <2>2
  <2> QED
    BY <2>3
<1>2. ASSUME NEW k \in Nat, k \in K PROVE k + 1 \in K
  <2>1. PICK f : Solves(f, k)
    BY <1>2
  <2>2. CASE l < k + 1
    <3>1. \A i \in Nat : i + (k + 1) >= l => i + k >= l
      BY <1>0, <2>2
    <3>2. Solves(f, k + 1)
      BY <2>1, <3>1
    <3> QED
      BY <3>2
  <2>3. CASE l >= k + 1
    <3> DEFINE m == l - (k + 1)
               g == [i \in Nat |-> IF i = m THEN DecodedFrom(bytes, f, m) ELSE f[i]]
    <3>1. m \in Nat
      BY <1>0, <2>3
    <3>2. ASSUME NEW i \in Nat, i >= m PROVE DecodedFrom(bytes, g, i) = DecodedFrom(bytes, f, i)
      <4>1. \A j \in Nat : j > i => g[j] = f[j]
        BY <3>1, <3>2
      <4> HIDE DEF g
      <4> QED
        BY <4>1, DecodedFromLocal
    <3>3. ASSUME NEW i \in Nat, i + (k + 1) >= l PROVE g[i] = DecodedFrom(bytes, g, i)
      <4>1. i >= m
        BY <1>0, <3>3
      <4>2. CASE i = m
        BY <3>1, <3>2, <4>1, <4>2
      <4>3. CASE i # m
        <5>1. i + k >= l
          BY <1>0, <3>3, <4>3
        <5>2. f[i] = DecodedFrom(bytes, f, i)
          BY <2>1, <5>1
        <5>3. g[i] = f[i]
          BY <4>3
        <5> HIDE DEF g
        <5> QED
          BY <3>2, <4>1, <5>2, <5>3
      <4> QED
        BY <4>2, <4>3
    <3>4. g = [i \in Nat |-> g[i]]
      OBVIOUS
    <3> HIDE DEF g
    <3>5. Solves(g, k + 1)
      BY <3>3, <3>4
    <3> QED
      BY <3>5
  <2> QED
    BY <1>0, <2>2, <2>3
<1>3. l \in K
  <2> HIDE DEF K
  <2>1. \A k \in Nat : k \in K => k + 1 \in K
    BY <1>2
  <2> QED
    BY <1>0, <1>1, <2>1, SetInduction
<1>4. PICK f : Solves(f, l)
  BY <1>3
<1>5. f = [i \in Nat |-> DecodedFrom(bytes, f, i)]
  <2>1. \A i \in Nat : i + l >= l
    BY <1>0
  <2>2. \A i \in Nat : f[i] = DecodedFrom(bytes, f, i)
    BY <1>4, <2>1
  <2> QED
    BY <1>4, <2>2
<1>6. Rests(bytes) = [i \in Nat |-> DecodedFrom(bytes, Rests(bytes), i)]
  BY <1>5 DEF Rests
<1> QED
  BY <1>6

\* The kinds of pieces.
CharacterTexts ==
  {<<b>> : b \in Ascii \ (Controls \cup {Quote, Backslash})}
    \cup {s \in [1 .. LeadWidth -> Bytes] : s[1] = "lead" /\ WellFormed(s)}
CharacterPiece(s) == [text |-> s, value |-> [i \in DOMAIN s |-> <<s[i]>>]]
EscapePiece(b, x) == [text |-> <<Backslash, b>>, value |-> <<<<x>>>>]
UnitText(u) == <<Backslash, "u">> \o u
UnitPiece(u) == [text |-> UnitText(u), value |-> <<<<"u">> \o u>>]
PairPiece(u, v) == [text |-> UnitText(u) \o UnitText(v), value |-> <<<<"u">> \o u \o v>>]

LEMMA PiecesAre ==
  Pieces = {CharacterPiece(s) : s \in CharacterTexts}
             \cup {EscapePiece(b, b) : b \in {Quote, Backslash, "/"}} \cup {EscapePiece("n", "newline")}
             \cup {UnitPiece(u) : u \in Units \ (Leading \cup Trailing)}
             \cup {PairPiece(u, v) : u \in Leading, v \in Trailing}
BY DEF Pieces, CharacterPiece, CharacterTexts, EscapePiece, UnitPiece, PairPiece, UnitText

LEMMA UnitsAreTexts ==
  /\ \A u \in Units : u \in Seq(Bytes) /\ Len(u) = EscapeDigits /\ \A i \in 1 .. EscapeDigits : u[i] \in HexDigits
  /\ \A u \in Units : UnitText(u) \in Seq(Bytes) /\ Len(UnitText(u)) = EscapeDigits + 2
  /\ EscapeDigits \in Nat \ {0} /\ Leading \subseteq Units /\ Trailing \subseteq Units
  /\ {Quote, Backslash, "/", "n", "u"} \subseteq Bytes /\ HexDigits \subseteq Bytes
<1>1. Units = [1 .. EscapeDigits -> HexDigits] /\ EscapeDigits \in Nat \ {0}
  BY EscapeAssumption DEF Units
<1>2. {Quote, Backslash, "/", "n", "u"} \subseteq Bytes /\ HexDigits \subseteq Bytes
  BY DEF HexDigits, Bytes, Ascii, Digits, Letters, Blanks
<1>3. ASSUME NEW u \in Units
      PROVE  u \in Seq(Bytes) /\ Len(u) = EscapeDigits /\ \A i \in 1 .. EscapeDigits : u[i] \in HexDigits
  <2>1. u \in [1 .. EscapeDigits -> Bytes]
    BY <1>1, <1>2
  <2> QED
    BY <1>1, <2>1
<1>4. Leading \subseteq Units /\ Trailing \subseteq Units
  BY EscapeAssumption
<1>5. ASSUME NEW u \in Units PROVE UnitText(u) \in Seq(Bytes) /\ Len(UnitText(u)) = EscapeDigits + 2
  <2>1. <<Backslash, "u">> \in Seq(Bytes) /\ Len(<<Backslash, "u">>) = 2
    BY <1>2
  <2>2. u \in Seq(Bytes) /\ Len(u) = EscapeDigits
    BY <1>3
  <2> QED
    BY <1>1, <2>1, <2>2, ConcatProperties DEF UnitText
<1> QED
  BY <1>1, <1>2, <1>3, <1>4, <1>5

LEMMA PiecesAreTexts ==
  ASSUME NEW p \in Pieces
  PROVE  p.text \in Seq(Bytes) /\ Len(p.text) \in Nat \ {0}
<1>1. CASE \E s \in CharacterTexts : p = CharacterPiece(s)
  <2>1. PICK s \in CharacterTexts : p = CharacterPiece(s)
    BY <1>1
  <2>2. p.text = s
    BY <2>1 DEF CharacterPiece
  <2>3. CASE \E b \in Ascii : s = <<b>>
    <3>1. PICK b \in Bytes : s = <<b>>
      BY <2>3 DEF Bytes
    <3>2. <<b>> \in Seq(Bytes) /\ Len(<<b>>) = 1
      OBVIOUS
    <3> QED
      BY <2>2, <3>1, <3>2
  <2>4. CASE s \in [1 .. LeadWidth -> Bytes]
    BY <2>2, <2>4, SizesAssumption
  <2> QED
    BY <2>3, <2>4 DEF CharacterTexts
<1>2. CASE \E b \in {Quote, Backslash, "/", "n"}, x \in {Quote, Backslash, "/", "newline"} : p = EscapePiece(b, x)
  <2>1. PICK b \in {Quote, Backslash, "/", "n"} : p.text = <<Backslash, b>>
    BY <1>2 DEF EscapePiece
  <2>2. b \in Bytes /\ Backslash \in Bytes
    BY UnitsAreTexts
  <2> QED
    BY <2>1, <2>2
<1>3. CASE \E u \in Units : p = UnitPiece(u)
  BY <1>3, UnitsAreTexts DEF UnitPiece
<1>4. CASE \E u \in Units, v \in Units : p = PairPiece(u, v)
  <2>0. PICK u \in Units, v \in Units : p = PairPiece(u, v)
    BY <1>4, Zenon
  <2>1. p.text = UnitText(u) \o UnitText(v)
    BY <2>0 DEF PairPiece
  <2>2. /\ UnitText(u) \in Seq(Bytes) /\ Len(UnitText(u)) = EscapeDigits + 2
        /\ UnitText(v) \in Seq(Bytes) /\ Len(UnitText(v)) = EscapeDigits + 2
        /\ EscapeDigits \in Nat
    BY UnitsAreTexts
  <2>3. /\ UnitText(u) \o UnitText(v) \in Seq(Bytes)
        /\ Len(UnitText(u) \o UnitText(v)) = (EscapeDigits + 2) + (EscapeDigits + 2)
    BY <2>2
  <2> QED
    BY <2>1, <2>2, <2>3
<1> QED
  BY <1>1, <1>2, <1>3, <1>4, PiecesAre, UnitsAreTexts

LEMMA ReadFromLocal ==
  ASSUME NEW s, NEW cut, NEW f, NEW g, NEW i \in Nat, \A j \in Nat : j > i => f[j] = g[j]
  PROVE  ReadFrom(s, cut, f, i) = ReadFrom(s, cut, g, i)
<1>1. ASSUME NEW p \in Pieces PROVE f[i + Len(p.text)] = g[i + Len(p.text)]
  <2>1. Len(p.text) \in Nat \ {0}
    BY PiecesAreTexts
  <2> QED
    BY <2>1
<1>2. {{p.value \o v : v \in f[i + Len(p.text)]} : p \in {q \in Pieces : IsPrefix(q.text, Rest(s, i))}}
        = {{p.value \o v : v \in g[i + Len(p.text)]} : p \in {q \in Pieces : IsPrefix(q.text, Rest(s, i))}}
  BY <1>1
<1> QED
  BY <1>2 DEF ReadFrom

LEMMA ReadsAre ==
  ASSUME NEW s \in Seq(Bytes), NEW cut
  PROVE  \A i \in Nat : Reads(s, cut)[i] = ReadFrom(s, cut, Reads(s, cut), i)
<1> DEFINE l == Len(s) + 1
           Solves(f, k) == f = [i \in Nat |-> f[i]] /\ \A i \in Nat : i + k >= l => f[i] = ReadFrom(s, cut, f, i)
           K == {k \in Nat : \E f : Solves(f, k)}
<1>0. l \in Nat
  OBVIOUS
<1>1. 0 \in K
  <2> DEFINE f == [i \in Nat |-> {<< >>}]
  <2>1. \A i \in Nat : i + 0 >= l => f[i] = ReadFrom(s, cut, f, i)
    <3>1. \A i \in Nat : i + 0 >= l => i > Len(s)
      OBVIOUS
    <3> QED
      BY <3>1 DEF ReadFrom
  <2>2. f = [i \in Nat |-> f[i]]
    OBVIOUS
  <2>3. Solves(f, 0)
    BY <2>1, <2>2
  <2> QED
    BY <2>3
<1> HIDE DEF l
<1>2. ASSUME NEW k \in Nat, k \in K PROVE k + 1 \in K
  <2>1. PICK f : Solves(f, k)
    BY <1>2
  <2>2. CASE l < k + 1
    <3>1. \A i \in Nat : i + (k + 1) >= l => i + k >= l
      BY <1>0, <2>2
    <3>2. Solves(f, k + 1)
      BY <2>1, <3>1
    <3> QED
      BY <3>2
  <2>3. CASE l >= k + 1
    <3> DEFINE m == l - (k + 1)
               g == [i \in Nat |-> IF i = m THEN ReadFrom(s, cut, f, m) ELSE f[i]]
    <3>1. m \in Nat
      BY <1>0, <2>3
    <3>2. ASSUME NEW i \in Nat, i >= m PROVE ReadFrom(s, cut, g, i) = ReadFrom(s, cut, f, i)
      <4>1. \A j \in Nat : j > i => g[j] = f[j]
        BY <3>1, <3>2
      <4> HIDE DEF g
      <4> QED
        BY <4>1, ReadFromLocal
    <3>3. ASSUME NEW i \in Nat, i + (k + 1) >= l PROVE g[i] = ReadFrom(s, cut, g, i)
      <4>1. i >= m
        BY <1>0, <3>3
      <4>2. CASE i = m
        BY <3>1, <3>2, <4>1, <4>2
      <4>3. CASE i # m
        <5>1. i + k >= l
          BY <1>0, <3>3, <4>3
        <5>2. f[i] = ReadFrom(s, cut, f, i)
          BY <2>1, <5>1
        <5>3. g[i] = f[i]
          BY <4>3
        <5> HIDE DEF g
        <5> QED
          BY <3>2, <4>1, <5>2, <5>3
      <4> QED
        BY <4>2, <4>3
    <3>4. g = [i \in Nat |-> g[i]]
      OBVIOUS
    <3> HIDE DEF g
    <3>5. Solves(g, k + 1)
      BY <3>3, <3>4
    <3> QED
      BY <3>5
  <2> QED
    BY <1>0, <2>2, <2>3
<1>3. l \in K
  <2> HIDE DEF K
  <2>1. \A k \in Nat : k \in K => k + 1 \in K
    BY <1>2
  <2> QED
    BY <1>0, <1>1, <2>1, SetInduction
<1>4. PICK f : Solves(f, l)
  BY <1>3
<1>5. f = [i \in Nat |-> ReadFrom(s, cut, f, i)]
  <2>1. \A i \in Nat : i + l >= l
    BY <1>0
  <2>2. \A i \in Nat : f[i] = ReadFrom(s, cut, f, i)
    BY <1>4, <2>1
  <2> QED
    BY <1>4, <2>2
<1>6. Reads(s, cut) = [i \in Nat |-> ReadFrom(s, cut, Reads(s, cut), i)]
  BY <1>5 DEF Reads
<1> QED
  BY <1>6

-----------------------------------------------------------------------------
(* The parts of a string that the scanner takes one by one                 *)

UnitLen(s, b) ==
  IF s[b] = "lead" THEN LeadWidth
  ELSE IF s[b] # Backslash THEN 1
  ELSE IF s[b + 1] = "u" THEN EscapeDigits + 2 ELSE 2

CharacterAt(s, b) == [i \in 1 .. LeadWidth |-> s[b + i - 1]]

UnitOK(s, b) ==
  \/ s[b] \in Ascii \ (Controls \cup {Quote, Backslash})
  \/ s[b] = "lead" /\ WellFormed(CharacterAt(s, b)) /\ \A i \in b + 1 .. b + LeadWidth - 1 : s[i] = "cont"
  \/ s[b] = Backslash /\ s[b + 1] \in SimpleEscapes
  \/ s[b] = Backslash /\ s[b + 1] = "u" /\ \A i \in b + 2 .. b + EscapeDigits + 1 : s[i] \in HexDigits

\* s is whole parts from the quote up to e, and B is where they begin and end.
Whole(s, B, e) ==
  /\ B \subseteq 2 .. e
  /\ 2 \in B /\ e \in B
  /\ \A b \in B : b < e => UnitOK(s, b) /\ b + UnitLen(s, b) \in B

LEMMA UnitLenIs ==
  ASSUME NEW s, NEW b
  PROVE  /\ UnitLen(s, b) \in Nat \ {0}
         /\ s[b] = Backslash => UnitLen(s, b) > 1
BY SizesAssumption, EscapeAssumption DEF UnitLen, Backslash

\* Only what is in front of e counts.
LEMMA WholeLocal ==
  ASSUME NEW s, NEW t, NEW B, NEW e \in Nat, Whole(s, B, e), \A i \in 1 .. e - 1 : s[i] = t[i]
  PROVE  Whole(t, B, e)
<1>1. B \subseteq 2 .. e /\ 2 \in B /\ e \in B
  BY DEF Whole
<1>2. ASSUME NEW b \in B, b < e PROVE UnitOK(t, b) /\ b + UnitLen(t, b) \in B
  <2>1. UnitOK(s, b) /\ b + UnitLen(s, b) \in B
    BY <1>2 DEF Whole
  <2>2. b \in Nat /\ b + UnitLen(s, b) <= e /\ UnitLen(s, b) \in Nat \ {0} /\ b >= 2
    BY <1>1, <2>1, UnitLenIs
  <2>3. s[b] = t[b]
    BY <1>2, <2>2
  <2>4. s[b] = Backslash => s[b + 1] = t[b + 1]
    <3>1. s[b] = Backslash => b + 1 \in 1 .. e - 1
      BY <2>2, UnitLenIs
    <3> QED
      BY <3>1
  <2>5. UnitLen(t, b) = UnitLen(s, b)
    BY <2>3, <2>4 DEF UnitLen
  <2>6. \A i \in b .. b + UnitLen(s, b) - 1 : s[i] = t[i]
    BY <2>2
  <2>7. UnitOK(t, b)
    <3>1. CASE s[b] \in Ascii \ (Controls \cup {Quote, Backslash})
      BY <2>3, <3>1 DEF UnitOK
    <3>2. CASE s[b] = "lead" /\ WellFormed(CharacterAt(s, b)) /\ \A i \in b + 1 .. b + LeadWidth - 1 : s[i] = "cont"
      <4>1. UnitLen(s, b) = LeadWidth /\ LeadWidth \in Nat
        BY <3>2, SizesAssumption DEF UnitLen
      <4>2. \A i \in 1 .. LeadWidth : b + i - 1 \in b .. b + LeadWidth - 1
        BY <2>2, <4>1
      <4>3. CharacterAt(t, b) = CharacterAt(s, b)
        BY <2>6, <4>1, <4>2 DEF CharacterAt
      <4>4. \A i \in b + 1 .. b + LeadWidth - 1 : t[i] = "cont"
        BY <2>2, <2>6, <3>2, <4>1
      <4> QED
        BY <2>3, <3>2, <4>3, <4>4 DEF UnitOK
    <3>3. CASE s[b] = Backslash /\ s[b + 1] \in SimpleEscapes
      BY <2>3, <2>4, <3>3 DEF UnitOK
    <3>4. CASE s[b] = Backslash /\ s[b + 1] = "u" /\ \A i \in b + 2 .. b + EscapeDigits + 1 : s[i] \in HexDigits
      <4>1. UnitLen(s, b) = EscapeDigits + 2 /\ EscapeDigits \in Nat
        BY <3>4, EscapeAssumption DEF UnitLen, Backslash
      <4>2. \A i \in b + 2 .. b + EscapeDigits + 1 : t[i] \in HexDigits
        BY <2>2, <2>6, <3>4, <4>1
      <4> QED
        BY <2>3, <2>4, <3>4, <4>2 DEF UnitOK
    <3> QED
      BY <2>1, <3>1, <3>2, <3>3, <3>4 DEF UnitOK
  <2> QED
    BY <2>1, <2>5, <2>7
<1> QED
  BY <1>1, <1>2 DEF Whole

LEMMA WholeGrows ==
  ASSUME NEW s, NEW B, NEW e \in Nat, Whole(s, B, e), UnitOK(s, e), NEW d, d = e + UnitLen(s, e)
  PROVE  Whole(s, B \cup {d}, d)
<1>1. d \in Nat /\ d > e
  BY UnitLenIs
<1>2. B \subseteq 2 .. e /\ 2 \in B /\ e \in B /\ \A b \in B : b < e => UnitOK(s, b) /\ b + UnitLen(s, b) \in B
  BY DEF Whole
<1>3. B \cup {d} \subseteq 2 .. d
  <2>1. e >= 2 /\ 2 .. e \subseteq 2 .. d /\ d \in 2 .. d
    BY <1>1, <1>2
  <2> QED
    BY <1>2, <2>1
<1>4. ASSUME NEW b \in B \cup {d}, b < d PROVE UnitOK(s, b) /\ b + UnitLen(s, b) \in B \cup {d}
  <2>1. b \in B /\ (b < e \/ b = e)
    BY <1>1, <1>2, <1>4
  <2> QED
    BY <1>2, <2>1
<1> QED
  BY <1>2, <1>3, <1>4 DEF Whole

\* What a string may stand for: neither of the outcomes that are none is among it.
Symbols == Bytes \cup {"newline"}
Values == Seq(Seq(Symbols))

LEMMA BrokenAreNoValues == Broken \cap Values = {}
<1>1. ASSUME NEW x, <<<<x>>>> \in Values PROVE x \in Symbols
  <2>1. <<<<x>>>>[1] \in Seq(Symbols)
    BY <1>1 DEF Values
  <2>2. <<x>> \in Seq(Symbols)
    BY <2>1
  <2>3. <<x>>[1] \in Symbols
    BY <2>2
  <2> QED
    BY <2>3
<1>2. "bad escape" \notin Symbols /\ "unreachable" \notin Symbols
  BY DEF Symbols, Bytes, Ascii, Blanks, Digits, Letters, Signs, Controls, Quote, Backslash
<1> QED
  BY <1>1, <1>2 DEF Broken, BadEscape, Unreachable

LEMMA ThenIs ==
  ASSUME NEW first \in Seq(Symbols)
  PROVE  /\ Then(first, BadEscape) = BadEscape
         /\ \A v \in Values : Then(first, v) = <<first>> \o v /\ <<first>> \o v \in Values
<1>1. ASSUME NEW v \in Values PROVE Then(first, v) = <<first>> \o v /\ <<first>> \o v \in Values
  <2>1. v \notin Broken
    BY BrokenAreNoValues
  <2>2. <<first>> \in Seq(Seq(Symbols))
    OBVIOUS
  <2> QED
    BY <2>1, <2>2 DEF Then, Values
<1> QED
  BY <1>1 DEF Then, Broken

\* A run of bytes none of which is a backslash stands for itself.
LEMMA PlainRun ==
  ASSUME NEW s \in Seq(Bytes), NEW b \in Nat \ {0}, NEW w \in Nat, b + w <= Len(s),
         \A i \in b .. b + w - 1 : s[i] # Backslash
  PROVE  /\ Rests(s)[b + w] = BadEscape => Rests(s)[b] = BadEscape
         /\ \A v \in Values : Rests(s)[b + w] = v => Rests(s)[b] = [i \in 1 .. w |-> <<s[b + i - 1]>>] \o v
<1> DEFINE f == Rests(s)
           Run(l) == [i \in 1 .. l |-> <<s[b + w - l + i - 1]>>]
           Says(l) ==
             /\ f[b + w] = BadEscape => f[b + w - l] = BadEscape
             /\ \A v \in Values : f[b + w] = v => f[b + w - l] = Run(l) \o v
           K == {l \in Nat : l <= w => Says(l)}
<1>0. Len(s) \in Nat
  OBVIOUS
<1>1. 0 \in K
  <2>1. b + w - 0 = b + w
    OBVIOUS
  <2>2. Run(0) = << >>
    OBVIOUS
  <2>3. \A v \in Values : << >> \o v = v
    BY ConcatEmptySeq DEF Values
  <2> HIDE DEF f, Run
  <2> QED
    BY <2>1, <2>2, <2>3
<1>2. ASSUME NEW l \in Nat, l \in K PROVE l + 1 \in K
  <2> SUFFICES ASSUME l + 1 <= w PROVE Says(l + 1)
    <3> HIDE DEF Says
    <3>1. l + 1 \in Nat
      OBVIOUS
    <3> QED
      BY <3>1
  <2> DEFINE i == b + w - (l + 1)
  <2>1. i \in Nat /\ i + 1 = b + w - l /\ i \in b .. b + w - 1 /\ i \in 1 .. Len(s) /\ i < Len(s)
    BY <1>0
  <2>2. /\ f[b + w] = BadEscape => f[i + 1] = BadEscape
        /\ \A v \in Values : f[b + w] = v => f[i + 1] = Run(l) \o v
    BY <1>2, <2>1
  <2>3. f[i] = Then(<<s[i]>>, f[i + 1])
    <3>1. f[i] = DecodedFrom(s, f, i)
      BY <2>1, RestsAre
    <3>2. ~ (i >= Len(s)) /\ s[i] # Backslash
      BY <1>0, <2>1
    <3> HIDE DEF i, f
    <3> QED
      BY <3>1, <3>2 DEF DecodedFrom
  <2>4. <<s[i]>> \in Seq(Symbols)
    <3>1. s[i] \in Symbols
      BY <2>1 DEF Symbols
    <3> QED
      BY <3>1
  <2>5. Run(l) \in Seq(Seq(Symbols)) /\ Run(l + 1) = <<<<s[i]>>>> \o Run(l)
    <3>1. \A k \in 1 .. l + 1 : <<s[b + w - (l + 1) + k - 1]>> \in Seq(Symbols)
      <4> TAKE k \in 1 .. l + 1
      <4>1. b + w - (l + 1) + k - 1 \in 1 .. Len(s)
        BY <1>0
      <4>2. s[b + w - (l + 1) + k - 1] \in Symbols
        BY <4>1 DEF Symbols
      <4> QED
        BY <4>2
    <3>2. Run(l + 1) \in Seq(Seq(Symbols)) /\ Len(Run(l + 1)) = l + 1
      <4> DEFINE e(k) == <<s[b + w - (l + 1) + k - 1]>>
      <4>0. Run(l + 1) = [k \in 1 .. l + 1 |-> e(k)] /\ \A k \in 1 .. l + 1 : e(k) \in Seq(Symbols)
        BY <3>1
      <4> HIDE DEF e, Run
      <4>1. Run(l + 1) \in [1 .. l + 1 -> Seq(Symbols)] /\ l + 1 \in Nat
        BY <4>0
      <4> QED
        BY <4>1
    <3>3. \A k \in 1 .. l : b + w - l + k - 1 = b + w - (l + 1) + (k + 1) - 1 /\ k + 1 \in 1 .. l + 1
      OBVIOUS
    <3>4. \A k \in 1 .. l : <<s[b + w - l + k - 1]>> \in Seq(Symbols)
      BY <3>1, <3>3
    <3>5. Run(l) \in Seq(Seq(Symbols)) /\ Len(Run(l)) = l
      <4>1. Run(l) \in [1 .. l -> Seq(Symbols)]
        BY <3>4
      <4> HIDE DEF Run
      <4> QED
        BY <4>1
    <3>6. <<<<s[i]>>>> \in Seq(Seq(Symbols)) /\ Len(<<<<s[i]>>>>) = 1
      BY <2>4
    <3>7. /\ <<<<s[i]>>>> \o Run(l) \in Seq(Seq(Symbols))
          /\ Len(<<<<s[i]>>>> \o Run(l)) = 1 + l
          /\ \A k \in 1 .. 1 + l : (<<<<s[i]>>>> \o Run(l))[k] = IF k <= 1 THEN <<<<s[i]>>>>[k] ELSE Run(l)[k - 1]
      <4> HIDE DEF Run, i
      <4> QED
        BY <3>5, <3>6, ConcatProperties
    <3>8. \A k \in 1 .. l + 1 : Run(l + 1)[k] = (<<<<s[i]>>>> \o Run(l))[k]
      <4> TAKE k \in 1 .. l + 1
      <4>1. CASE k = 1
        <5>1. Run(l + 1)[1] = <<s[b + w - (l + 1) + 1 - 1]>> /\ b + w - (l + 1) + 1 - 1 = i
          OBVIOUS
        <5>2. (<<<<s[i]>>>> \o Run(l))[1] = <<s[i]>>
          BY <3>7
        <5> QED
          BY <4>1, <5>1, <5>2
      <4>2. CASE k # 1
        <5>1. k - 1 \in 1 .. l /\ b + w - l + (k - 1) - 1 = b + w - (l + 1) + k - 1
          BY <4>2
        <5>2. Run(l)[k - 1] = <<s[b + w - l + (k - 1) - 1]>>
          BY <5>1
        <5>3. (<<<<s[i]>>>> \o Run(l))[k] = Run(l)[k - 1]
          BY <3>7, <4>2
        <5> QED
          BY <5>1, <5>2, <5>3
      <4> QED
        BY <4>1, <4>2
    <3> HIDE DEF Run, i
    <3>9. Len(Run(l + 1)) = Len(<<<<s[i]>>>> \o Run(l))
      BY <3>2, <3>7
    <3>10. \A k \in 1 .. Len(Run(l + 1)) : Run(l + 1)[k] = (<<<<s[i]>>>> \o Run(l))[k]
      BY <3>2, <3>8
    <3>11. Run(l + 1) = <<<<s[i]>>>> \o Run(l)
      BY <3>2, <3>7, <3>9, <3>10, SeqEqual
    <3> QED
      BY <3>5, <3>11
  <2> HIDE DEF Run, f, K
  <2>6. f[b + w] = BadEscape => f[i] = BadEscape
    BY <2>2, <2>3, <2>4, ThenIs
  <2>7. ASSUME NEW v \in Values, f[b + w] = v PROVE f[i] = Run(l + 1) \o v
    <3>1. f[i + 1] = Run(l) \o v /\ Run(l) \o v \in Values
      BY <2>2, <2>5, <2>7 DEF Values
    <3>2. f[i] = <<<<s[i]>>>> \o (Run(l) \o v)
      BY <2>3, <2>4, <3>1, ThenIs
    <3>3. <<<<s[i]>>>> \in Seq(Seq(Symbols))
      BY <2>4
    <3>4. (<<<<s[i]>>>> \o Run(l)) \o v = <<<<s[i]>>>> \o (Run(l) \o v)
      BY <2>5, <3>3, ConcatAssociative DEF Values
    <3>5. Run(l + 1) \o v = (<<<<s[i]>>>> \o Run(l)) \o v
      BY <2>5
    <3> QED
      BY <3>2, <3>4, <3>5
  <2> QED
    BY <2>6, <2>7 DEF i
<1>3. w \in K
  <2> HIDE DEF K
  <2>1. \A l \in Nat : l \in K => l + 1 \in K
    BY <1>2
  <2> QED
    BY <1>1, <2>1, SetInduction
<1>4. b + w - w = b /\ Run(w) = [i \in 1 .. w |-> <<s[b + i - 1]>>]
  <2>1. \A i \in 1 .. w : b + w - w + i - 1 = b + i - 1
    OBVIOUS
  <2> QED
    BY <2>1
<1> HIDE DEF f, Run
<1>5. w <= w
  OBVIOUS
<1> QED
  BY <1>3, <1>4, <1>5 DEF f

\* The text between the quotes.
Inner(s) == SubSeq(s, 2, Len(s) - 1)

LEMMA InnerIs ==
  ASSUME NEW s \in Seq(Bytes), Len(s) >= 2
  PROVE  /\ Inner(s) \in Seq(Bytes) /\ Len(Inner(s)) = Len(s) - 2
         /\ \A m \in 1 .. Len(s) - 2 : Inner(s)[m] = s[m + 1]
<1>1. Len(s) \in Nat /\ 1 \in Nat /\ Len(s) - 1 \in 1 .. Len(s)
  OBVIOUS
<1>2. /\ SubSeq(s, 1 + 1, Len(s) - 1) \in Seq(Bytes)
      /\ Len(SubSeq(s, 1 + 1, Len(s) - 1)) = (Len(s) - 1) - 1
      /\ \A m \in 1 .. (Len(s) - 1) - 1 : SubSeq(s, 1 + 1, Len(s) - 1)[m] = s[1 + m]
  BY <1>1, PartIs
<1>3. 1 + 1 = 2 /\ (Len(s) - 1) - 1 = Len(s) - 2 /\ \A m \in 1 .. Len(s) - 2 : 1 + m = m + 1
  BY <1>1
<1> QED
  BY <1>2, <1>3 DEF Inner

\* A piece in front of what can be read can be read.
LEMMA PieceReads ==
  ASSUME NEW t \in Seq(Bytes), NEW cut, NEW i \in Nat \ {0}, NEW p \in Pieces, NEW v,
         i + Len(p.text) <= Len(t) + 1,
         \A m \in 1 .. Len(p.text) : p.text[m] = t[i + m - 1],
         v \in Reads(t, cut)[i + Len(p.text)]
  PROVE  p.value \o v \in Reads(t, cut)[i]
<1> DEFINE w == Len(p.text)
           r == Rest(t, i)
<1>1. p.text \in Seq(Bytes) /\ w \in Nat \ {0} /\ Len(t) \in Nat
  BY PiecesAreTexts
<1>2. i <= Len(t)
  BY <1>1
<1>3. Reads(t, cut)[i] = ReadFrom(t, cut, Reads(t, cut), i)
  BY ReadsAre
<1>4. IsPrefix(p.text, r)
  <2>1. i - 1 \in Nat /\ Len(t) \in i - 1 .. Len(t) /\ (i - 1) + 1 = i
    BY <1>1, <1>2
  <2>2. /\ SubSeq(t, (i - 1) + 1, Len(t)) \in Seq(Bytes)
        /\ Len(SubSeq(t, (i - 1) + 1, Len(t))) = Len(t) - (i - 1)
        /\ \A m \in 1 .. Len(t) - (i - 1) : SubSeq(t, (i - 1) + 1, Len(t))[m] = t[(i - 1) + m]
    BY <2>1, PartIs
  <2>3. r \in Seq(Bytes) /\ Len(r) = Len(t) - (i - 1) /\ \A m \in 1 .. Len(t) - (i - 1) : r[m] = t[(i - 1) + m]
    BY <2>1, <2>2 DEF Rest
  <2> HIDE DEF r
  <2>4. w <= Len(r)
    BY <1>1, <2>3
  <2>5. \A m \in 1 .. w : p.text[m] = r[m]
    <3> TAKE m \in 1 .. w
    <3>1. m \in 1 .. Len(t) - (i - 1) /\ (i - 1) + m = i + m - 1
      BY <1>1, <2>3, <2>4
    <3> QED
      BY <2>3, <3>1
  <2> DEFINE a == SubSeq(p.text, 1, w)
             b == SubSeq(r, 1, w)
  <2>6. a \in Seq(Bytes) /\ Len(a) = w /\ \A m \in 1 .. w : a[m] = p.text[m]
    BY <1>1
  <2>7. b \in Seq(Bytes) /\ Len(b) = w /\ \A m \in 1 .. w : b[m] = r[m]
    BY <1>1, <2>3, <2>4
  <2> HIDE DEF a, b
  <2>8. a = b
    BY <2>5, <2>6, <2>7, SeqEqual
  <2> QED
    BY <2>4, <2>8 DEF IsPrefix, a, b
<1>5. p \in {q \in Pieces : IsPrefix(q.text, Rest(t, i))}
  BY <1>4
<1>6. p.value \o v \in {p.value \o x : x \in Reads(t, cut)[i + Len(p.text)]}
  OBVIOUS
<1>7. ~ (i > Len(t))
  BY <1>1, <1>2
<1> HIDE DEF w, r
<1> DEFINE g == Reads(t, cut)
           Family == {{q.value \o x : x \in g[i + Len(q.text)]} : q \in {q \in Pieces : IsPrefix(q.text, Rest(t, i))}}
           X == {p.value \o x : x \in g[i + Len(p.text)]}
<1>8. X \in Family
  BY <1>5
<1>9. UNION Family \subseteq ReadFrom(t, cut, g, i)
  BY <1>7, Zenon DEF ReadFrom
<1> HIDE DEF Family
<1> QED
  BY <1>3, <1>6, <1>8, <1>9

\* What is decoded from b on is what can be read there, or a half of a pair is alone.
Agree(s, b) ==
  \/ Rests(s)[b] = BadEscape
  \/ Rests(s)[b] \in Values /\ Rests(s)[b] \in Reads(Inner(s), FALSE)[b - 1]

LEMMA PieceAgrees ==
  ASSUME NEW s \in Seq(Bytes), NEW b \in Nat, b >= 2, NEW p \in Pieces,
         b + Len(p.text) <= Len(s), \A m \in 1 .. Len(p.text) : p.text[m] = s[b + m - 1],
         p.value \in Values, Agree(s, b + Len(p.text)),
         Rests(s)[b + Len(p.text)] = BadEscape => Rests(s)[b] = BadEscape,
         \A v \in Values : Rests(s)[b + Len(p.text)] = v => Rests(s)[b] = p.value \o v
  PROVE  Agree(s, b)
<1> DEFINE w == Len(p.text)
           t == Inner(s)
           i == b - 1
           v == Rests(s)[b + w]
<1>1. w \in Nat \ {0} /\ Len(s) \in Nat
  BY PiecesAreTexts
<1>2. t \in Seq(Bytes) /\ Len(t) = Len(s) - 2 /\ \A m \in 1 .. Len(s) - 2 : t[m] = s[m + 1]
  BY <1>1, InnerIs
<1>3. CASE v = BadEscape
  BY <1>3 DEF Agree
<1>4. CASE v \in Values /\ v \in Reads(t, FALSE)[b + w - 1]
  <2>1. i \in Nat \ {0} /\ i + w = b + w - 1 /\ i + w <= Len(t) + 1
    <3> HIDE DEF t
    <3>1. b + w <= Len(s)
      OBVIOUS
    <3> HIDE DEF w
    <3> QED
      BY <1>1, <1>2, <3>1
  <2>2. \A m \in 1 .. w : p.text[m] = t[i + m - 1]
    <3> TAKE m \in 1 .. w
    <3>1. i + m - 1 \in 1 .. Len(s) - 2 /\ (i + m - 1) + 1 = b + m - 1
      BY <1>1
    <3>2. t[i + m - 1] = s[b + m - 1]
      BY <1>2, <3>1
    <3> QED
      BY <3>2
  <2> HIDE DEF t, i, v
  <2>3. p.value \o v \in Reads(t, FALSE)[i]
    BY <1>2, <1>4, <2>1, <2>2, PieceReads
  <2>4. Rests(s)[b] = p.value \o v /\ p.value \o v \in Values
    <3>1. p.value \o v \in Values
      BY <1>4, ConcatProperties DEF Values
    <3> QED
      BY <1>4, <3>1 DEF v
  <2> QED
    BY <2>3, <2>4 DEF Agree, t, i
<1>5. v = BadEscape \/ (v \in Values /\ v \in Reads(t, FALSE)[b + w - 1])
  <2> DEFINE j == b + w
  <2>1. Agree(s, j)
    OBVIOUS
  <2>2. v = Rests(s)[j] /\ j - 1 = b + w - 1
    OBVIOUS
  <2> HIDE DEF j, v, w
  <2>3. v = BadEscape \/ (v \in Values /\ v \in Reads(t, FALSE)[j - 1])
    BY <2>1, <2>2 DEF Agree
  <2> QED
    BY <2>2, <2>3
<1> HIDE DEF v, w, t
<1> QED
  BY <1>3, <1>4, <1>5, Zenon

\* A character is decoded as it is ...
LEMMA CharacterDecodes ==
  ASSUME NEW s \in Seq(Bytes), NEW b \in Nat, b >= 2, NEW a \in CharacterTexts,
         b + Len(a) <= Len(s), \A m \in 1 .. Len(a) : a[m] = s[b + m - 1]
  PROVE  /\ CharacterPiece(a) \in Pieces /\ CharacterPiece(a).text = a /\ CharacterPiece(a).value \in Values
         /\ Rests(s)[b + Len(a)] = BadEscape => Rests(s)[b] = BadEscape
         /\ \A v \in Values : Rests(s)[b + Len(a)] = v => Rests(s)[b] = CharacterPiece(a).value \o v
<1> DEFINE p == CharacterPiece(a)
           w == Len(a)
<1>0. Len(s) \in Nat
  OBVIOUS
<1>1. a \in Seq(Bytes) /\ w \in Nat /\ w > 0 /\ \A m \in 1 .. w : a[m] # Backslash
  <2>1. CASE a \in {<<x>> : x \in Ascii \ (Controls \cup {Quote, Backslash})}
    <3>1. PICK x \in Ascii \ {Backslash} : a = <<x>>
      BY <2>1
    <3>2. <<x>> \in Seq(Bytes) /\ Len(<<x>>) = 1 /\ <<x>>[1] = x
      BY DEF Bytes
    <3> QED
      BY <3>1, <3>2
  <2>2. CASE a \in [1 .. LeadWidth -> Bytes] /\ a[1] = "lead" /\ WellFormed(a)
    <3>1. a \in Seq(Bytes) /\ Len(a) = LeadWidth /\ LeadWidth \in Nat /\ LeadWidth > 0
      BY <2>2, SizesAssumption
    <3>2. \A m \in 1 .. LeadWidth : a[m] = "lead" \/ a[m] = "cont"
      <4>1. \A m \in 2 .. LeadWidth : a[m] = "cont"
        BY <2>2, WellFormedAssumption
      <4>2. \A m \in 1 .. LeadWidth : m = 1 \/ m \in 2 .. LeadWidth
        BY <3>1
      <4> QED
        BY <2>2, <4>1, <4>2
    <3> QED
      BY <3>1, <3>2 DEF Backslash
  <2> QED
    BY <2>1, <2>2 DEF CharacterTexts
<1>2. p \in Pieces
  BY PiecesAre
<1>3. p.text = a /\ p.value = [i \in 1 .. w |-> <<a[i]>>]
  BY <1>1 DEF CharacterPiece
<1>4. p.value \in Values
  <2>1. \A i \in 1 .. w : a[i] \in Symbols
    BY <1>1 DEF Symbols
  <2>2. \A i \in 1 .. w : <<a[i]>> \in Seq(Symbols)
    BY <2>1
  <2> DEFINE e(i) == <<a[i]>>
  <2>3. p.value = [i \in 1 .. w |-> e(i)] /\ \A i \in 1 .. w : e(i) \in Seq(Symbols)
    BY <1>3, <2>2
  <2> HIDE DEF p, e
  <2>4. p.value \in [1 .. w -> Seq(Symbols)]
    BY <2>3
  <2>5. w \in Nat
    BY <1>1
  <2> HIDE DEF w
  <2>6. p.value \in Seq(Seq(Symbols))
    BY <2>4, <2>5
  <2> QED
    BY <2>6 DEF Values
<1>5. \A i \in b .. b + w - 1 : s[i] # Backslash
  <2> TAKE i \in b .. b + w - 1
  <2>1. i - b + 1 \in 1 .. w /\ b + (i - b + 1) - 1 = i
    BY <1>1
  <2> QED
    BY <1>1, <2>1
<1>6. p.value = [i \in 1 .. w |-> <<s[b + i - 1]>>]
  BY <1>3
<1>7. /\ Rests(s)[b + w] = BadEscape => Rests(s)[b] = BadEscape
      /\ \A v \in Values : Rests(s)[b + w] = v => Rests(s)[b] = p.value \o v
  <2>1. /\ Rests(s)[b + w] = BadEscape => Rests(s)[b] = BadEscape
        /\ \A v \in Values : Rests(s)[b + w] = v => Rests(s)[b] = [i \in 1 .. w |-> <<s[b + i - 1]>>] \o v
    <3>1. b \in Nat \ {0}
      OBVIOUS
    <3> HIDE DEF p, w
    <3> QED
      BY <1>1, <1>5, <3>1, PlainRun DEF w
  <2> QED
    BY <1>6, <2>1
<1> QED
  BY <1>2, <1>3, <1>4, <1>7

\* ... and so is a part that is one.
LEMMA CharacterAgrees ==
  ASSUME NEW s \in Seq(Bytes), NEW b \in Nat, b >= 2, NEW a \in CharacterTexts,
         b + Len(a) <= Len(s), \A m \in 1 .. Len(a) : a[m] = s[b + m - 1], Agree(s, b + Len(a))
  PROVE  Agree(s, b)
<1> DEFINE p == CharacterPiece(a)
<1>1. /\ p \in Pieces /\ p.text = a /\ p.value \in Values
      /\ Rests(s)[b + Len(a)] = BadEscape => Rests(s)[b] = BadEscape
      /\ \A v \in Values : Rests(s)[b + Len(a)] = v => Rests(s)[b] = p.value \o v
  BY CharacterDecodes
<1> HIDE DEF p
<1> QED
  BY <1>1, PieceAgrees

\* An escape of one letter ...
LEMMA EscapeDecodes ==
  ASSUME NEW s \in Seq(Bytes), NEW b \in Nat, b >= 2, b + 2 <= Len(s),
         s[b] = Backslash, s[b + 1] \in SimpleEscapes
  PROVE  LET x == s[b + 1]
             p == EscapePiece(x, IF x = "n" THEN "newline" ELSE x)
         IN /\ p \in Pieces /\ Len(p.text) = 2 /\ p.value \in Values
            /\ \A m \in 1 .. Len(p.text) : p.text[m] = s[b + m - 1]
            /\ Rests(s)[b + Len(p.text)] = BadEscape => Rests(s)[b] = BadEscape
            /\ \A v \in Values : Rests(s)[b + Len(p.text)] = v => Rests(s)[b] = p.value \o v
<1> DEFINE x == s[b + 1]
           y == IF x = "n" THEN "newline" ELSE x
           p == EscapePiece(x, y)
<1>0. Len(s) \in Nat
  OBVIOUS
<1>1. x \in {Quote, Backslash, "/", "n"} /\ x # "u"
  BY DEF SimpleEscapes, Quote, Backslash
<1>2. p \in Pieces
  BY <1>1, PiecesAre DEF Quote, Backslash
<1>3. p.text = <<Backslash, x>> /\ p.value = <<<<y>>>>
  BY DEF EscapePiece
<1>4. <<y>> \in Seq(Symbols)
  <2>1. y \in Symbols
    BY <1>1, UnitsAreTexts DEF Symbols
  <2> HIDE DEF y
  <2> QED
    BY <2>1
<1>5. Rests(s)[b] = Then(<<y>>, Rests(s)[b + 2])
  <2>1. Rests(s)[b] = DecodedFrom(s, Rests(s), b)
    BY RestsAre
  <2>2. ~ (b >= Len(s))
    BY <1>0
  <2>3. (x = "n" /\ y = "newline") \/ (x # "n" /\ x \in {Quote, Backslash, "/"} /\ y = x)
    BY <1>1
  <2> HIDE DEF y
  <2> QED
    BY <2>1, <2>2, <2>3 DEF DecodedFrom
<1> HIDE DEF y
<1>6. p.value \in Values
  BY <1>3, <1>4 DEF Values
<1>7. Len(p.text) = 2 /\ p.text[1] = s[b] /\ p.text[2] = s[b + 1]
  BY <1>3
<1> HIDE DEF p
<1>8. \A m \in 1 .. Len(p.text) : p.text[m] = s[b + m - 1]
  <2>1. \A m \in 1 .. 2 : (m = 1 /\ b + m - 1 = b) \/ (m = 2 /\ b + m - 1 = b + 1)
    OBVIOUS
  <2> QED
    BY <1>7, <2>1
<1>9. /\ Rests(s)[b + Len(p.text)] = BadEscape => Rests(s)[b] = BadEscape
      /\ \A v \in Values : Rests(s)[b + Len(p.text)] = v => Rests(s)[b] = p.value \o v
  BY <1>3, <1>4, <1>5, <1>7, ThenIs
<1> QED
  BY <1>2, <1>6, <1>7, <1>8, <1>9 DEF p, y

\* ... and a part that is one.
LEMMA EscapeAgrees ==
  ASSUME NEW s \in Seq(Bytes), NEW b \in Nat, b >= 2, b + 2 <= Len(s),
         s[b] = Backslash, s[b + 1] \in SimpleEscapes, Agree(s, b + 2)
  PROVE  Agree(s, b)
<1> DEFINE p == EscapePiece(s[b + 1], IF s[b + 1] = "n" THEN "newline" ELSE s[b + 1])
<1>1. /\ p \in Pieces /\ Len(p.text) = 2 /\ p.value \in Values
      /\ \A m \in 1 .. Len(p.text) : p.text[m] = s[b + m - 1]
      /\ Rests(s)[b + Len(p.text)] = BadEscape => Rests(s)[b] = BadEscape
      /\ \A v \in Values : Rests(s)[b + Len(p.text)] = v => Rests(s)[b] = p.value \o v
  BY EscapeDecodes
<1> HIDE DEF p
<1>2. b + Len(p.text) <= Len(s) /\ Agree(s, b + Len(p.text))
  BY <1>1
<1> QED
  BY <1>1, <1>2, PieceAgrees

\* The digits behind \u.
LEMMA UnitAtIs ==
  ASSUME NEW s \in Seq(Bytes), NEW b \in Nat \ {0}, s[b] = Backslash, IsUnitAt(s, b + 1)
  PROVE  /\ UnitAt(s, b + 1) \in Units
         /\ b + EscapeDigits + 2 <= Len(s) + 1
         /\ Len(UnitText(UnitAt(s, b + 1))) = EscapeDigits + 2
         /\ \A m \in 1 .. EscapeDigits + 2 : UnitText(UnitAt(s, b + 1))[m] = s[b + m - 1]
<1> DEFINE E == EscapeDigits
           u == UnitAt(s, b + 1)
<1>1. E \in Nat \ {0} /\ Len(s) \in Nat
  BY EscapeAssumption
<1>2. Len(s) >= b + 1 + E /\ s[b + 1] = "u" /\ \A j \in b + 1 + 1 .. b + 1 + E : s[j] \in HexDigits
  BY DEF IsUnitAt
<1>3. u \in Seq(Bytes) /\ Len(u) = E /\ \A m \in 1 .. E : u[m] = s[b + 1 + m]
  <2>1. b + 1 \in Nat /\ b + 1 + E \in b + 1 .. Len(s) /\ (b + 1 + E) - (b + 1) = E
    BY <1>1, <1>2
  <2> DEFINE k == b + 1 + E
             n == b + 1
  <2>2. n \in Nat /\ k \in n .. Len(s) /\ k - n = E
    BY <2>1
  <2>3. u = SubSeq(s, n + 1, k)
    BY DEF UnitAt
  <2> HIDE DEF n, k, u
  <2>4. /\ SubSeq(s, n + 1, k) \in Seq(Bytes) /\ Len(SubSeq(s, n + 1, k)) = k - n
        /\ \A m \in 1 .. k - n : SubSeq(s, n + 1, k)[m] = s[n + m]
    BY <2>2, PartIs
  <2> QED
    BY <2>2, <2>3, <2>4 DEF n
<1> HIDE DEF u
<1>4. u \in Units
  <2>1. \A m \in 1 .. E : u[m] \in HexDigits
    <3> TAKE m \in 1 .. E
    <3>1. b + 1 + m \in b + 1 + 1 .. b + 1 + E
      BY <1>1
    <3> QED
      BY <1>2, <1>3, <3>1
  <2>2. u = [m \in 1 .. E |-> u[m]]
    BY <1>3
  <2> QED
    BY <2>1, <2>2 DEF Units
<1>5. /\ Len(UnitText(u)) = E + 2
      /\ \A m \in 1 .. E + 2 : UnitText(u)[m] = IF m <= 2 THEN <<Backslash, "u">>[m] ELSE u[m - 2]
  <2>1. <<Backslash, "u">> \in Seq(Bytes) /\ Len(<<Backslash, "u">>) = 2
    BY UnitsAreTexts
  <2>2. /\ Len(UnitText(u)) = 2 + E
        /\ \A m \in 1 .. 2 + E : UnitText(u)[m] = IF m <= 2 THEN <<Backslash, "u">>[m] ELSE u[m - 2]
    BY <1>3, <2>1, ConcatProperties DEF UnitText
  <2> QED
    BY <1>1, <2>2
<1>6. ASSUME NEW m \in 1 .. E + 2 PROVE UnitText(u)[m] = s[b + m - 1]
  <2>1. CASE m = 1
    <3>1. b + m - 1 = b /\ <<Backslash, "u">>[m] = Backslash /\ m <= 2
      BY <2>1
    <3> QED
      BY <1>5, <3>1
  <2>2. CASE m = 2
    <3>1. b + m - 1 = b + 1 /\ <<Backslash, "u">>[m] = "u" /\ m <= 2
      BY <2>2
    <3> QED
      BY <1>2, <1>5, <3>1
  <2>3. CASE m > 2
    <3>1. m - 2 \in 1 .. E /\ b + 1 + (m - 2) = b + m - 1 /\ ~ (m <= 2)
      BY <1>1, <2>3
    <3>2. UnitText(u)[m] = u[m - 2]
      BY <1>5, <3>1
    <3>3. u[m - 2] = s[b + 1 + (m - 2)]
      BY <1>3, <3>1
    <3> QED
      BY <3>1, <3>2, <3>3
  <2>4. m = 1 \/ m = 2 \/ m > 2
    BY <1>1
  <2> QED
    BY <2>1, <2>2, <2>3, <2>4
<1> QED
  BY <1>1, <1>2, <1>4, <1>5, <1>6 DEF u

\* What a unit, or two of them, stand for.
LEMMA UnitValues ==
  /\ \A u \in Units : <<"u">> \o u \in Seq(Symbols)
  /\ \A u, v \in Units : <<"u">> \o u \o v \in Seq(Symbols)
<1>1. \A u \in Units : u \in Seq(Symbols)
  <2>1. Seq(Bytes) \subseteq Seq(Symbols)
    BY SeqMonotonic DEF Symbols
  <2> QED
    BY <2>1, UnitsAreTexts
<1>2. <<"u">> \in Seq(Symbols)
  <2>1. "u" \in Symbols
    BY UnitsAreTexts DEF Symbols
  <2> QED
    BY <2>1
<1>3. ASSUME NEW u \in Units, NEW v \in Units PROVE <<"u">> \o u \in Seq(Symbols) /\ <<"u">> \o u \o v \in Seq(Symbols)
  <2>1. u \in Seq(Symbols) /\ v \in Seq(Symbols)
    BY <1>1
  <2>2. <<"u">> \o u \in Seq(Symbols)
    BY <1>2, <2>1, ConcatProperties
  <2> QED
    BY <2>1, <2>2, ConcatProperties
<1> QED
  BY <1>3

\* What the decoding makes of a unit.
LEMMA RestsAtUnit ==
  ASSUME NEW s \in Seq(Bytes), NEW b \in Nat, b >= 2, s[b] = Backslash, IsUnitAt(s, b + 1),
         NEW d, d = b + EscapeDigits + 2, d <= Len(s), NEW e, e = d + EscapeDigits + 2
  PROVE  LET u == UnitAt(s, b + 1)
             v == UnitAt(s, d + 1)
         IN Rests(s)[b] =
              IF u \in Leading
              THEN IF IsUnitAt(s, d + 1) /\ s[d] = Backslash /\ IsTrailing(v)
                   THEN Then(<<"u">> \o u \o v, Rests(s)[e]) ELSE BadEscape
              ELSE IF u \in Trailing THEN BadEscape ELSE Then(<<"u">> \o u, Rests(s)[d])
<1> DEFINE E == EscapeDigits
           u == UnitAt(s, b + 1)
           v == UnitAt(s, d + 1)
<1>0. Len(s) \in Nat /\ E \in Nat \ {0} /\ b \in Nat \ {0} /\ d \in Nat \ {0}
  BY EscapeAssumption
<1>2. /\ b + (E + 2) + 1 = d + 1 /\ b + (E + 2) = d /\ b + 2 * (E + 2) = e
      /\ ~ (b >= Len(s)) /\ e \in Nat /\ d >= 2
  BY <1>0
<1>3. s[b + 1] = "u"
  BY DEF IsUnitAt
<1>4. Rests(s)[b] =
        IF u \in Leading
        THEN IF IsUnitAt(s, d + 1) /\ s[d] = Backslash /\ IsTrailing(v)
             THEN Then(<<"u">> \o u \o v, Rests(s)[e]) ELSE BadEscape
        ELSE IF u \in Trailing THEN BadEscape ELSE Then(<<"u">> \o u, Rests(s)[d])
  <2>1. Rests(s)[b] = DecodedFrom(s, Rests(s), b)
    BY RestsAre
  <2>2. "u" # "n" /\ "u" \notin {Quote, Backslash, "/"}
    BY DEF Quote, Backslash
  <2> DEFINE x == b + (E + 2)
             y == b + (E + 2) + 1
             z == b + 2 * (E + 2)
  <2>3. x = d /\ y = d + 1 /\ z = e
    BY <1>2
  <2>4. DecodedFrom(s, Rests(s), b) =
          IF u \in Leading
          THEN IF IsUnitAt(s, y) /\ s[x] = Backslash /\ IsTrailing(UnitAt(s, y))
               THEN Then(<<"u">> \o u \o UnitAt(s, y), Rests(s)[z]) ELSE BadEscape
          ELSE IF u \in Trailing THEN BadEscape ELSE Then(<<"u">> \o u, Rests(s)[x])
    <3>1. s[b] = Backslash /\ s[b + 1] = "u" /\ IsUnitAt(s, b + 1) /\ ~ (b >= Len(s))
      BY <1>2, <1>3
    <3> HIDE DEF x, y, z
    <3>2. DecodedFrom(s, Rests(s), b) =
            IF UnitAt(s, b + 1) \in Leading
            THEN IF IsUnitAt(s, b + (E + 2) + 1) /\ s[b + (E + 2)] = Backslash /\ IsTrailing(UnitAt(s, b + (E + 2) + 1))
                 THEN Then(<<"u">> \o UnitAt(s, b + 1) \o UnitAt(s, b + (E + 2) + 1), Rests(s)[b + 2 * (E + 2)]) ELSE BadEscape
            ELSE IF UnitAt(s, b + 1) \in Trailing THEN BadEscape ELSE Then(<<"u">> \o UnitAt(s, b + 1), Rests(s)[b + (E + 2)])
      BY <2>2, <3>1, Zenon DEF DecodedFrom
    <3> QED
      BY <3>2, Zenon DEF x, y, z
  <2> HIDE DEF x, y, z, u
  <2> QED
    BY <2>1, <2>3, <2>4, Zenon
<1> QED
  BY <1>4

\* A part that is a unit: no half of a pair, the first half or the second.
LEMMA UnitAgrees ==
  ASSUME NEW s \in Seq(Bytes), NEW b \in Nat, b >= 2, s[b] = Backslash, IsUnitAt(s, b + 1),
         NEW d, d = b + EscapeDigits + 2, d <= Len(s), Agree(s, d),
         s[d] = Backslash /\ s[d + 1] = "u" => d + EscapeDigits + 2 <= Len(s) /\ Agree(s, d + EscapeDigits + 2)
  PROVE  Agree(s, b)
<1> DEFINE E == EscapeDigits
           u == UnitAt(s, b + 1)
           v == UnitAt(s, d + 1)
           e == d + E + 2
<1>0. Len(s) \in Nat /\ E \in Nat \ {0} /\ b \in Nat \ {0} /\ d \in Nat \ {0}
  BY EscapeAssumption
<1>1. /\ u \in Units /\ Len(UnitText(u)) = E + 2
      /\ \A m \in 1 .. E + 2 : UnitText(u)[m] = s[b + m - 1]
  BY <1>0, UnitAtIs
<1>2. /\ b + (E + 2) + 1 = d + 1 /\ b + (E + 2) = d /\ b + 2 * (E + 2) = e
      /\ ~ (b >= Len(s)) /\ e \in Nat /\ d >= 2
  BY <1>0
<1>4. Rests(s)[b] =
        IF u \in Leading
        THEN IF IsUnitAt(s, d + 1) /\ s[d] = Backslash /\ IsTrailing(v)
             THEN Then(<<"u">> \o u \o v, Rests(s)[e]) ELSE BadEscape
        ELSE IF u \in Trailing THEN BadEscape ELSE Then(<<"u">> \o u, Rests(s)[d])
  BY RestsAtUnit
<1>5. CASE u \notin Leading /\ u \in Trailing
  BY <1>4, <1>5 DEF Agree
<1>6. CASE u \notin Leading /\ u \notin Trailing
  <2> DEFINE p == UnitPiece(u)
  <2> HIDE DEF u, e
  <2>1. p \in Pieces
    BY <1>1, <1>6, PiecesAre
  <2>2. p.text = UnitText(u) /\ p.value = <<<<"u">> \o u>> /\ Len(p.text) = E + 2 /\ b + Len(p.text) = d
    BY <1>1, <1>2 DEF UnitPiece
  <2>3. <<"u">> \o u \in Seq(Symbols)
    BY <1>1, UnitValues
  <2> HIDE DEF p
  <2>4. p.value \in Values
    <3>1. <<<<"u">> \o u>> \in Seq(Seq(Symbols))
      BY <2>3
    <3> QED
      BY <2>2, <3>1 DEF Values
  <2>5. Rests(s)[b] = Then(<<"u">> \o u, Rests(s)[d])
    BY <1>4, <1>6
  <2>6. /\ Rests(s)[d] = BadEscape => Rests(s)[b] = BadEscape
        /\ \A w \in Values : Rests(s)[d] = w => Rests(s)[b] = p.value \o w
    BY <2>2, <2>3, <2>5, ThenIs
  <2>7. \A m \in 1 .. Len(p.text) : p.text[m] = s[b + m - 1]
    BY <1>1, <2>2
  <2>8. b + Len(p.text) <= Len(s) /\ Agree(s, b + Len(p.text))
    BY <2>2
  <2>9. /\ Rests(s)[b + Len(p.text)] = BadEscape => Rests(s)[b] = BadEscape
        /\ \A w \in Values : Rests(s)[b + Len(p.text)] = w => Rests(s)[b] = p.value \o w
    BY <2>2, <2>6
  <2> QED
    BY <2>1, <2>4, <2>7, <2>8, <2>9, PieceAgrees
<1>7. CASE u \in Leading /\ ~ (IsUnitAt(s, d + 1) /\ s[d] = Backslash /\ IsTrailing(v))
  BY <1>4, <1>7 DEF Agree
<1>8. CASE u \in Leading /\ IsUnitAt(s, d + 1) /\ s[d] = Backslash /\ IsTrailing(v)
  <2>1. /\ v \in Units /\ Len(UnitText(v)) = E + 2
        /\ \A m \in 1 .. E + 2 : UnitText(v)[m] = s[d + m - 1]
    BY <1>0, <1>8, UnitAtIs
  <2>2. s[d + 1] = "u"
    BY <1>8 DEF IsUnitAt
  <2>3. e <= Len(s) /\ Agree(s, e)
    BY <1>8, <2>2
  <2> DEFINE p == PairPiece(u, v)
  <2> HIDE DEF u, v
  <2>4. p \in Pieces
    BY <1>8, PiecesAre DEF IsTrailing
  <2>5. p.text = UnitText(u) \o UnitText(v) /\ p.value = <<<<"u">> \o u \o v>>
    BY DEF PairPiece
  <2>6. /\ Len(p.text) = (E + 2) + (E + 2)
        /\ \A m \in 1 .. (E + 2) + (E + 2) :
             p.text[m] = IF m <= E + 2 THEN UnitText(u)[m] ELSE UnitText(v)[m - (E + 2)]
    <3>1. UnitText(u) \in Seq(Bytes) /\ UnitText(v) \in Seq(Bytes)
      BY <1>1, <2>1, UnitsAreTexts
    <3> DEFINE a == UnitText(u)
               z == UnitText(v)
    <3>2. a \in Seq(Bytes) /\ z \in Seq(Bytes) /\ Len(a) = E + 2 /\ Len(z) = E + 2 /\ p.text = a \o z
      BY <1>1, <2>1, <2>5, <3>1
    <3> HIDE DEF p, a, z
    <3>3. /\ Len(a \o z) = Len(a) + Len(z)
          /\ \A m \in 1 .. Len(a) + Len(z) : (a \o z)[m] = IF m <= Len(a) THEN a[m] ELSE z[m - Len(a)]
      BY <3>2, ConcatProperties
    <3> QED
      BY <3>2, <3>3 DEF a, z
  <2> HIDE DEF p, e
  <2>7. ASSUME NEW m \in 1 .. Len(p.text) PROVE p.text[m] = s[b + m - 1]
    <3>1. CASE m <= E + 2
      <4>1. m \in 1 .. E + 2 /\ m \in 1 .. (E + 2) + (E + 2)
        BY <1>0, <2>6, <3>1
      <4>2. p.text[m] = UnitText(u)[m]
        BY <2>6, <3>1, <4>1
      <4>3. UnitText(u)[m] = s[b + m - 1]
        BY <1>1, <4>1
      <4> QED
        BY <4>2, <4>3
    <3>2. CASE ~ (m <= E + 2)
      <4>0. m \in 1 .. (E + 2) + (E + 2)
        BY <2>6
      <4>1. m - (E + 2) \in 1 .. E + 2 /\ m \in 1 .. (E + 2) + (E + 2) /\ d + (m - (E + 2)) - 1 = b + m - 1
        BY <1>0, <3>2, <4>0
      <4>2. UnitText(v)[m - (E + 2)] = s[d + (m - (E + 2)) - 1]
        BY <2>1, <4>1
      <4> QED
        BY <2>6, <3>2, <4>1, <4>2
    <3> QED
      BY <3>1, <3>2
  <2>8. <<"u">> \o u \o v \in Seq(Symbols)
    BY <1>1, <2>1, UnitValues
  <2>9. p.value \in Values
    <3>1. <<<<"u">> \o u \o v>> \in Seq(Seq(Symbols))
      BY <2>8
    <3> QED
      BY <2>5, <3>1 DEF Values
  <2>10. Rests(s)[b] = Then(<<"u">> \o u \o v, Rests(s)[e])
    BY <1>4, <1>8
  <2>11. /\ Rests(s)[e] = BadEscape => Rests(s)[b] = BadEscape
         /\ \A w \in Values : Rests(s)[e] = w => Rests(s)[b] = p.value \o w
    BY <2>5, <2>8, <2>10, ThenIs
  <2>12. b + Len(p.text) = e
    BY <1>0, <1>2, <2>6 DEF e
  <2> QED
    BY <2>3, <2>4, <2>7, <2>9, <2>11, <2>12, PieceAgrees
<1> QED
  BY <1>5, <1>6, <1>7, <1>8

\* Of a text between quotes that is whole parts, what begins with a part is read as what
\* it is decoded to, or there is a half of a pair in it.
LEMMA PartsAgree ==
  ASSUME NEW s \in Seq(Bytes), Len(s) >= 2, s[1] = Quote, s[Len(s)] = Quote, NEW B, Whole(s, B, Len(s))
  PROVE  \A b \in B : Agree(s, b)
<1> DEFINE n == Len(s)
           t == Inner(s)
           K == {k \in Nat : \A b \in B : n - b <= k => Agree(s, b)}
<1>0. n \in Nat /\ n >= 2
  OBVIOUS
<1>1. /\ B \subseteq 2 .. n /\ 2 \in B
      /\ \A b \in B : b < n => UnitOK(s, b) /\ b + UnitLen(s, b) \in B
  BY DEF Whole
<1>2. t \in Seq(Bytes) /\ Len(t) = n - 2
  BY InnerIs
<1>3. Agree(s, n)
  <2>1. Rests(s)[n] = << >>
    <3>1. Rests(s)[n] = DecodedFrom(s, Rests(s), n)
      BY <1>0, RestsAre
    <3> QED
      BY <1>0, <3>1 DEF DecodedFrom
  <2>2. Reads(t, FALSE)[n - 1] = {<< >>}
    <3>0. n - 1 \in Nat
      BY <1>0
    <3>1. Reads(t, FALSE)[n - 1] = ReadFrom(t, FALSE, Reads(t, FALSE), n - 1)
      <4> HIDE DEF t
      <4> QED
        BY <1>2, <3>0, ReadsAre
    <3>2. n - 1 > Len(t)
      BY <1>0, <1>2
    <3> HIDE DEF t
    <3> QED
      BY <3>1, <3>2 DEF ReadFrom
  <2>3. << >> \in Values
    BY DEF Values
  <2> QED
    BY <2>1, <2>2, <2>3 DEF Agree
<1>4. 0 \in K
  <2>1. \A b \in B : n - b <= 0 => b = n
    BY <1>0, <1>1
  <2> QED
    BY <1>3, <2>1
<1>5. ASSUME NEW k \in Nat, k \in K PROVE k + 1 \in K
  <2> SUFFICES ASSUME NEW b \in B, n - b <= k + 1 PROVE Agree(s, b)
    OBVIOUS
  <2>1. b \in Nat /\ b >= 2 /\ b <= n
    BY <1>0, <1>1
  <2>2. CASE b = n
    BY <1>3, <2>2
  <2>3. CASE b < n
    <3> DEFINE d == b + UnitLen(s, b)
    <3>1. UnitOK(s, b) /\ d \in B /\ UnitLen(s, b) \in Nat \ {0}
      BY <1>1, <2>3, UnitLenIs
    <3>2. d \in Nat /\ d > b /\ d <= n
      BY <1>1, <2>1, <3>1
    <3>3. \A x \in B : x > b => Agree(s, x)
      <4>1. \A x \in B : x > b => n - x <= k
        BY <1>0, <1>1, <2>1
      <4> QED
        BY <1>5, <4>1
    <3>4. Agree(s, d)
      BY <3>1, <3>2, <3>3
    <3>5. CASE s[b] \in Ascii \ (Controls \cup {Quote, Backslash})
      <4> DEFINE a == <<s[b]>>
      <4>1. a \in CharacterTexts
        BY <3>5 DEF CharacterTexts
      <4>2. UnitLen(s, b) = 1
        BY <3>5 DEF UnitLen, Ascii, Blanks, Digits, Letters, Signs, Controls, Quote, Backslash
      <4>3. Len(a) = 1 /\ a[1] = s[b]
        OBVIOUS
      <4> HIDE DEF a
      <4>4. b + Len(a) = d /\ \A m \in 1 .. Len(a) : a[m] = s[b + m - 1]
        BY <2>1, <4>2, <4>3
      <4>5. b + Len(a) <= Len(s) /\ Agree(s, b + Len(a))
        BY <3>2, <3>4, <4>4
      <4> QED
        BY <2>1, <4>1, <4>4, <4>5, CharacterAgrees
    <3>6. CASE s[b] = "lead" /\ WellFormed(CharacterAt(s, b))
      <4> DEFINE a == CharacterAt(s, b)
      <4>1. UnitLen(s, b) = LeadWidth /\ LeadWidth \in Nat /\ LeadWidth >= 1
        BY <3>6, SizesAssumption DEF UnitLen
      <4>2. a = [i \in 1 .. LeadWidth |-> s[b + i - 1]]
        BY DEF CharacterAt
      <4>3. \A i \in 1 .. LeadWidth : b + i - 1 \in 1 .. n
        BY <2>1, <3>2, <4>1
      <4>4. a \in [1 .. LeadWidth -> Bytes]
        BY <4>2, <4>3
      <4>5. a[1] = "lead"
        <5>1. a[1] = s[b + 1 - 1] /\ b + 1 - 1 = b
          BY <2>1, <4>1, <4>2
        <5> QED
          BY <3>6, <5>1
      <4>6. a \in CharacterTexts
        BY <3>6, <4>4, <4>5 DEF CharacterTexts
      <4>7. Len(a) = LeadWidth
        BY <4>1, <4>4
      <4> HIDE DEF a
      <4>8. b + Len(a) = d /\ \A m \in 1 .. Len(a) : a[m] = s[b + m - 1]
        BY <4>1, <4>2, <4>7
      <4>9. b + Len(a) <= Len(s) /\ Agree(s, b + Len(a))
        BY <3>2, <3>4, <4>8
      <4> QED
        BY <2>1, <4>6, <4>8, <4>9, CharacterAgrees
    <3>7. CASE s[b] = Backslash /\ s[b + 1] \in SimpleEscapes
      <4>1. UnitLen(s, b) = 2
        BY <3>7 DEF UnitLen, SimpleEscapes, Quote, Backslash
      <4>2. d = b + 2
        BY <4>1
      <4> QED
        BY <2>1, <3>2, <3>4, <3>7, <4>2, EscapeAgrees
    <3>8. CASE s[b] = Backslash /\ s[b + 1] = "u" /\ \A i \in b + 2 .. b + EscapeDigits + 1 : s[i] \in HexDigits
      <4>0. EscapeDigits \in Nat
        BY EscapeAssumption
      <4>1. UnitLen(s, b) = EscapeDigits + 2
        BY <3>8 DEF UnitLen, Backslash
      <4>2. d = b + EscapeDigits + 2
        BY <2>1, <4>0, <4>1
      <4>3. IsUnitAt(s, b + 1)
        <5>1. Len(s) >= b + 1 + EscapeDigits
          BY <1>0, <2>1, <3>2, <4>0, <4>2
        <5>2. b + 1 + 1 = b + 2 /\ b + 1 + EscapeDigits = b + EscapeDigits + 1
          BY <2>1, <4>0
        <5> QED
          BY <3>8, <5>1, <5>2 DEF IsUnitAt
      <4>4. ASSUME s[d] = Backslash, s[d + 1] = "u"
            PROVE  d + EscapeDigits + 2 <= Len(s) /\ Agree(s, d + EscapeDigits + 2)
        <5>1. d # n
          BY <4>4 DEF Quote, Backslash
        <5>2. d < n
          BY <1>0, <3>2, <5>1
        <5>3. UnitLen(s, d) = EscapeDigits + 2
          BY <4>4 DEF UnitLen, Backslash
        <5>4. d + (EscapeDigits + 2) \in B
          BY <1>1, <3>1, <5>2, <5>3
        <5> DEFINE e == d + (EscapeDigits + 2)
        <5> HIDE DEF d
        <5>5. e > b /\ e <= n /\ e = d + EscapeDigits + 2
          BY <1>1, <2>1, <3>2, <4>0, <5>4
        <5>6. Agree(s, e)
          BY <3>3, <5>4, <5>5
        <5> QED
          BY <5>5, <5>6
      <4> HIDE DEF d
      <4> QED
        BY <2>1, <3>2, <3>4, <3>8, <4>2, <4>3, <4>4, UnitAgrees
    <3> QED
      BY <3>1, <3>5, <3>6, <3>7, <3>8 DEF UnitOK
  <2> QED
    BY <1>0, <2>1, <2>2, <2>3
<1>6. n \in K
  <2> HIDE DEF K
  <2>1. \A k \in Nat : k \in K => k + 1 \in K
    BY <1>5
  <2> QED
    BY <1>0, <1>4, <2>1, SetInduction
<1> QED
  <2>1. \A b \in B : b \in Nat /\ n - b <= n
    BY <1>0, <1>1
  <2> QED
    BY <1>6, <2>1

\* The value of a string, which the part behind the first quote says.
LEMMA StringValuesAre ==
  ASSUME NEW s \in Seq(Bytes), Len(s) >= 2, s[1] = Quote, s[Len(s)] = Quote
  PROVE  StringValues(s) = Reads(Inner(s), FALSE)[1]
<1>1. Last(s) = Quote
  BY DEF Last
<1>2. StringValues(s) = Readings(Inner(s), FALSE)
  BY <1>1 DEF StringValues, Inner
<1> QED
  BY <1>2, ReadingsAre

\* So is all that is between the quotes.
LEMMA WholeIsRead ==
  ASSUME NEW s \in Seq(Bytes), Len(s) >= 2, s[1] = Quote, s[Len(s)] = Quote, NEW B, Whole(s, B, Len(s))
  PROVE  Decoded(s) = BadEscape \/ (Decoded(s) \in Values /\ Decoded(s) \in StringValues(s))
<1>1. 2 \in B /\ 2 - 1 = 1
  BY DEF Whole
<1>2. Agree(s, 2)
  BY <1>1, PartsAgree
<1> QED
  BY <1>1, <1>2, StringValuesAre, DecodedIs DEF Agree

-----------------------------------------------------------------------------
(* What the stream holds of the input                                      *)

\* Where the last character stands, or would stand.
Before == IF c \in NoChar THEN stream.position ELSE stream.position - 1

\* The buffer is one character of the input.
BufferOK ==
  /\ stream.pos <= stream.position
  /\ (stream.position - stream.pos) + Len(stream.buffer) <= Len(input)
  /\ \A k \in 1 .. Len(stream.buffer) : input[(stream.position - stream.pos) + k] = stream.buffer[k]
  /\ stream.buffer # << >> =>
       /\ Len(stream.buffer) = Width(stream.buffer[1])
       /\ Len(stream.buffer) > 1 => WellFormed(stream.buffer)

\* When the stream has ended, c says so; and an error is at the first byte of a
\* character that is none.
StateOK ==
  /\ stream.state # "OK" => c = stream.state /\ stream.pos = Len(stream.buffer)
  /\ stream.state = "ERROR" => stream.position < Len(input) /\ input[stream.position + 1] \in {"lead", "cont"}

\* What get_char has done to the input and the buffer.
Read ==
  /\ Len(input) <= Len(input') /\ \A i \in 1 .. Len(input) : input'[i] = input[i]
  /\ \/ /\ c' \in NoChar /\ stream'.state = c'
        /\ stream'.position = stream.position /\ stream'.pos = stream.pos
        /\ stream.pos = Len(stream.buffer)
     \/ /\ c' \notin NoChar
        /\ stream'.position = stream.position + 1
        /\ \/ stream.pos < Len(stream.buffer) /\ stream'.pos = stream.pos + 1 /\ stream'.buffer = stream.buffer
           \/ stream.pos = Len(stream.buffer) /\ stream'.pos = 1

LEMMA AdvancedIs ==
  ASSUME NEW x \in Streams, NEW b
  PROVE  /\ Advanced(x, b).state = x.state /\ Advanced(x, b).buffer = x.buffer
         /\ Advanced(x, b).pos = x.pos + 1 /\ Advanced(x, b).position = x.position + 1
BY DEF Streams, Advanced

\* What the source gives and what becomes of it.
LEMMA FetchIs ==
  ASSUME Fetch, input \in Seq(Bytes)
  PROVE  \/ SourceEnds
         \/ \E f \in Seq(Bytes) :
              /\ Len(f) \in Nat /\ Len(f) > 0
              /\ input' = input \o f
              /\ \/ /\ Len(f) = Width(f[1]) /\ (Len(f) > 1 => WellFormed(f))
                    /\ stream' = Advanced([stream EXCEPT !.buffer = f, !.pos = 0], f[1])
                    /\ c' = f[1]
                 \/ f[1] \in {"lead", "cont"} /\ Ends("ERROR")
<1> SUFFICES ASSUME ~ SourceEnds
             PROVE \E f \in Seq(Bytes) :
              /\ Len(f) \in Nat /\ Len(f) > 0
              /\ input' = input \o f
              /\ \/ /\ Len(f) = Width(f[1]) /\ (Len(f) > 1 => WellFormed(f))
                    /\ stream' = Advanced([stream EXCEPT !.buffer = f, !.pos = 0], f[1])
                    /\ c' = f[1]
                 \/ f[1] \in {"lead", "cont"} /\ Ends("ERROR")
  OBVIOUS
<1>1. PICK b \in Bytes, more \in UNION {[1 .. n -> Bytes] : n \in 0 .. LeadWidth - 1} :
        LET fetched == <<b>> \o more
        IN /\ Len(fetched) <= IF Width(b) = 0 THEN 1 ELSE Width(b)
           /\ input' = input \o fetched
           /\ IF Len(fetched) = Width(b) /\ (Width(b) > 1 => WellFormed(fetched))
              THEN /\ stream' = Advanced([stream EXCEPT !.buffer = fetched, !.pos = 0], b)
                   /\ c' = b
                   /\ UNCHANGED err
              ELSE Ends("ERROR") /\ err' = Reported("invalid_utf8")
  BY DEF Fetch
<1> DEFINE f == <<b>> \o more
<1>2. more \in Seq(Bytes)
  <2>1. PICK n \in 0 .. LeadWidth - 1 : more \in [1 .. n -> Bytes]
    BY <1>1
  <2>2. n \in Nat
    BY SizesAssumption
  <2> QED
    BY <2>1, <2>2
<1>3. f \in Seq(Bytes) /\ Len(f) = 1 + Len(more) /\ f[1] = b /\ Len(f) \in Nat /\ Len(f) > 0
  <2>1. <<b>> \in Seq(Bytes) /\ Len(<<b>>) = 1
    OBVIOUS
  <2>2. f \in Seq(Bytes) /\ Len(f) = 1 + Len(more) /\ f[1] = <<b>>[1]
    BY <1>2, <2>1, ConcatProperties
  <2> QED
    BY <1>2, <2>2
<1>4. /\ Len(f) <= IF Width(b) = 0 THEN 1 ELSE Width(b)
      /\ input' = input \o f
      /\ IF Len(f) = Width(b) /\ (Width(b) > 1 => WellFormed(f))
         THEN stream' = Advanced([stream EXCEPT !.buffer = f, !.pos = 0], b) /\ c' = b
         ELSE Ends("ERROR")
  BY <1>1
<1> HIDE DEF f
<1>5. CASE Len(f) = Width(b) /\ (Width(b) > 1 => WellFormed(f))
  BY <1>3, <1>4, <1>5
<1>6. CASE ~ (Len(f) = Width(b) /\ (Width(b) > 1 => WellFormed(f)))
  <2>1. b \in {"lead", "cont"}
    <3>1. b \notin {"lead", "cont"} => Width(b) = 1
      BY DEF Width
    <3> QED
      BY <1>3, <1>4, <1>6, <3>1
  <2>2. Ends("ERROR")
    BY <1>4, <1>6
  <2> QED
    BY <1>3, <1>4, <2>1, <2>2
<1> QED
  BY <1>5, <1>6

\* get_char
LEMMA GetCharReads ==
  ASSUME StreamOK, BufferOK, StateOK, GetChar, err \in Codes
  PROVE  BufferOK' /\ StateOK' /\ Read
<1> DEFINE b == stream.buffer
           p == stream.pos
           n == stream.position
<1>0. /\ input \in Seq(Bytes) /\ Len(input) \in Nat /\ stream \in Streams
      /\ b \in Seq(Bytes) /\ Len(b) \in Nat /\ p \in Nat /\ n \in Nat /\ p <= Len(b) /\ p <= n /\ n <= Len(input)
      /\ "EOF" \in NoChar /\ "ERROR" \in NoChar
  BY DEF StreamOK, Streams, BufferOK, NoChar
<1>1. CASE stream.state # "OK"
  <2>1. c' = stream.state /\ input' = input /\ stream' = stream
    BY <1>1 DEF GetChar
  <2>2. stream.state \in NoChar
    BY <1>1 DEF StreamOK, Streams, NoChar
  <2> QED
    BY <1>0, <1>1, <2>1, <2>2 DEF BufferOK, StateOK, Read
<1>2. CASE stream.state = "OK" /\ p < Len(b)
  <2>1. c' = b[p + 1] /\ stream' = Advanced(stream, c') /\ input' = input
    BY <1>0, <1>2 DEF GetChar
  <2>2. stream'.state = "OK" /\ stream'.buffer = b /\ stream'.pos = p + 1 /\ stream'.position = n + 1
    BY <1>0, <1>2, <2>1, AdvancedIs
  <2>3. c' \in Bytes /\ c' \notin NoChar
    BY <1>0, <1>2, <2>1, CharsAreNoBytes
  <2>4. (n + 1) - (p + 1) = n - p /\ p + 1 <= n + 1
    BY <1>0
  <2>5. BufferOK'
    BY <2>1, <2>2, <2>4 DEF BufferOK
  <2>6. StateOK'
    BY <2>2 DEF StateOK
  <2>7. Read
    BY <1>0, <1>2, <2>1, <2>2, <2>3 DEF Read
  <2> QED
    BY <2>5, <2>6, <2>7
<1>3. CASE stream.state = "OK" /\ p = Len(b)
  <2>1. Fetch
    BY <1>0, <1>3 DEF GetChar
  <2>0. n = Len(input)
    BY <1>0, <1>3 DEF StreamOK, Continues
  <2>2. CASE SourceEnds
    <3>1. c' = "EOF" /\ input' = input /\ stream' = [stream EXCEPT !.state = "EOF"]
      BY <2>2 DEF SourceEnds, Ends
    <3>2. /\ stream'.state = "EOF" /\ stream'.buffer = b /\ stream'.pos = p /\ stream'.position = n
      BY <1>0, <3>1 DEF Streams
    <3> QED
      BY <1>0, <1>3, <3>1, <3>2 DEF BufferOK, StateOK, Read
  <2>3. CASE ~ SourceEnds
    <3>1. PICK f \in Seq(Bytes) :
            /\ Len(f) \in Nat /\ Len(f) > 0
            /\ input' = input \o f
            /\ \/ /\ Len(f) = Width(f[1]) /\ (Len(f) > 1 => WellFormed(f))
                  /\ stream' = Advanced([stream EXCEPT !.buffer = f, !.pos = 0], f[1])
                  /\ c' = f[1]
               \/ f[1] \in {"lead", "cont"} /\ Ends("ERROR")
      BY <1>0, <2>1, <2>3, FetchIs
    <3>2. /\ input \o f \in Seq(Bytes) /\ Len(input \o f) = Len(input) + Len(f)
          /\ \A i \in 1 .. Len(input) + Len(f) : (input \o f)[i] = IF i <= Len(input) THEN input[i] ELSE f[i - Len(input)]
      BY <1>0, ConcatProperties
    <3>3. /\ Len(input') = Len(input) + Len(f)
          /\ \A i \in 1 .. Len(input) : input'[i] = input[i]
          /\ \A k \in 1 .. Len(f) : input'[n + k] = f[k]
      <4>1. \A k \in 1 .. Len(f) : n + k \in 1 .. Len(input) + Len(f) /\ ~ (n + k <= Len(input)) /\ (n + k) - Len(input) = k
        BY <1>0, <2>0, <3>1
      <4>2. \A i \in 1 .. Len(input) : i \in 1 .. Len(input) + Len(f) /\ i <= Len(input)
        BY <1>0, <3>1
      <4> QED
        BY <3>1, <3>2, <4>1, <4>2
    <3>4. f[1] \in Bytes /\ f[1] \notin NoChar /\ f # << >>
      BY <3>1, CharsAreNoBytes
    <3>5. CASE /\ Len(f) = Width(f[1]) /\ (Len(f) > 1 => WellFormed(f))
               /\ stream' = Advanced([stream EXCEPT !.buffer = f, !.pos = 0], f[1])
               /\ c' = f[1]
      <4> DEFINE x == [stream EXCEPT !.buffer = f, !.pos = 0]
      <4>1. x \in Streams /\ x.state = "OK" /\ x.buffer = f /\ x.pos = 0 /\ x.position = n
        BY <1>0, <1>3 DEF Streams
      <4>2. stream' = Advanced(x, f[1])
        BY <3>5
      <4> HIDE DEF x
      <4>3. stream'.state = "OK" /\ stream'.buffer = f /\ stream'.pos = 0 + 1 /\ stream'.position = n + 1
        BY <4>1, <4>2, AdvancedIs
      <4>4. (n + 1) - (0 + 1) = n /\ 0 + 1 <= n + 1 /\ 0 + 1 = 1
        BY <1>0
      <4>5. n + Len(f) <= Len(input')
        BY <1>0, <2>0, <3>3
      <4>6. BufferOK'
        BY <3>3, <3>5, <4>3, <4>4, <4>5 DEF BufferOK
      <4>7. StateOK'
        BY <4>3 DEF StateOK
      <4>8. Read
        <5>1. Len(input) <= Len(input')
          BY <1>0, <3>1, <3>3
        <5> QED
          BY <1>3, <3>3, <3>4, <3>5, <4>3, <4>4, <5>1 DEF Read
      <4> QED
        BY <4>6, <4>7, <4>8
    <3>6. CASE f[1] \in {"lead", "cont"} /\ Ends("ERROR")
      <4>1. c' = "ERROR" /\ stream' = [stream EXCEPT !.state = "ERROR"]
        BY <3>6 DEF Ends
      <4>2. stream'.state = "ERROR" /\ stream'.buffer = b /\ stream'.pos = p /\ stream'.position = n
        BY <1>0, <4>1 DEF Streams
      <4>3. Len(input) <= Len(input') /\ n < Len(input') /\ input'[n + 1] = f[1]
        BY <1>0, <2>0, <3>1, <3>3
      <4>4. BufferOK'
        <5>1. \A k \in 1 .. Len(b) : (n - p) + k \in 1 .. Len(input)
          BY <1>0 DEF BufferOK
        <5>2. (n - p) + Len(b) <= Len(input')
          BY <1>0, <4>3 DEF BufferOK
        <5>3. \A k \in 1 .. Len(b) : input'[(n - p) + k] = b[k]
          BY <3>3, <5>1 DEF BufferOK
        <5> QED
          BY <4>2, <5>2, <5>3 DEF BufferOK
      <4>5. StateOK'
        BY <1>3, <3>6, <4>1, <4>2, <4>3 DEF StateOK
      <4>6. Read
        BY <1>0, <1>3, <3>3, <4>1, <4>2, <4>3 DEF Read
      <4> QED
        BY <4>4, <4>5, <4>6
    <3> QED
      BY <3>1, <3>5, <3>6
  <2> QED
    BY <2>2, <2>3
<1> QED
  BY <1>0, <1>1, <1>2, <1>3

\* unget_char
LEMMA PutBackIs ==
  ASSUME StreamOK, CharRead, BufferOK, StateOK, stream.state = c \/ c \notin NoChar,
         stream' = PutBack, UNCHANGED <<input, c>>
  PROVE  /\ BufferOK' /\ StateOK'
         /\ stream'.position = Before /\ Before \in Nat /\ Before <= Len(input)
         /\ Before < Len(input) =>
              /\ input[Before + 1] \in Bytes
              /\ input[Before + 1] = c \/ (c \in NoChar /\ input[Before + 1] \in {"lead", "cont"})
<1>0. /\ input \in Seq(Bytes) /\ Len(input) \in Nat /\ stream \in Streams
      /\ stream.pos \in Nat /\ stream.position \in Nat /\ stream.position <= Len(input)
  BY DEF StreamOK, Streams
<1>1. CASE c \in NoChar
  <2>1. stream' = stream /\ Before = stream.position /\ stream.state = c
    BY <1>1 DEF PutBack, Before
  <2>2. ASSUME stream.position < Len(input) PROVE c = "ERROR"
    <3>1. stream.state # "OK"
      BY <1>1, <2>1 DEF NoChar
    <3>2. stream.pos = Len(stream.buffer)
      BY <3>1 DEF StateOK
    <3>3. stream.state # "ERROR" => Len(input) - stream.position = Len(stream.buffer) - stream.pos
      BY DEF StreamOK, Continues
    <3> QED
      BY <1>0, <2>1, <2>2, <3>2, <3>3
  <2>3. stream.position < Len(input) => input[stream.position + 1] \in {"lead", "cont"}
    BY <2>1, <2>2 DEF StateOK
  <2>4. {"lead", "cont"} \subseteq Bytes
    BY DEF Bytes
  <2> QED
    BY <1>0, <1>1, <2>1, <2>3, <2>4 DEF BufferOK, StateOK
<1>2. CASE c \notin NoChar
  <2>1. /\ stream.state = "OK" /\ stream.pos > 0 /\ stream.position > 0
        /\ input[stream.position] = c /\ c \in Bytes
    BY <1>2 DEF CharRead
  <2>2. /\ stream'.state = "OK" /\ stream'.buffer = stream.buffer
        /\ stream'.pos = stream.pos - 1 /\ stream'.position = stream.position - 1
    BY <1>0, <1>2, <2>1 DEF PutBack, Streams
  <2>3. Before = stream.position - 1
    BY <1>2 DEF Before
  <2>4. (stream.position - 1) - (stream.pos - 1) = stream.position - stream.pos
    BY <1>0
  <2>5. BufferOK'
    <3>1. stream.pos - 1 <= stream.position - 1
      BY <1>0 DEF BufferOK
    <3> QED
      BY <2>2, <2>4, <3>1 DEF BufferOK
  <2>6. StateOK'
    BY <2>2 DEF StateOK
  <2>7. Before \in Nat /\ Before <= Len(input) /\ Before + 1 = stream.position
    BY <1>0, <2>1, <2>3
  <2> QED
    BY <2>1, <2>2, <2>3, <2>5, <2>6, <2>7
<1> QED
  BY <1>1, <1>2

\* A character that is one byte is alone in the buffer.
LEMMA AsciiIsAlone ==
  ASSUME StreamOK, CharRead, BufferOK, c \in Ascii
  PROVE  stream.pos = 1 /\ Len(stream.buffer) = 1
<1>1. c \notin NoChar /\ c \notin {"lead", "cont"}
  BY CharsAreNoBytes DEF Bytes, Ascii, Blanks, Digits, Letters, Signs, Controls, Quote, Backslash
<1>2. /\ stream.pos \in Nat /\ stream.pos > 0 /\ stream.pos <= Len(stream.buffer) /\ stream.buffer[stream.pos] = c
      /\ stream.buffer \in Seq(Bytes) /\ Len(stream.buffer) \in Nat
      /\ \A i \in 2 .. Len(stream.buffer) : stream.buffer[i] = "cont"
  BY <1>1 DEF CharRead, StreamOK, Streams
<1>3. stream.pos = 1
  BY <1>1, <1>2
<1>4. Len(stream.buffer) = Width(stream.buffer[1])
  BY <1>2, <1>3 DEF BufferOK
<1> QED
  BY <1>1, <1>2, <1>3, <1>4 DEF Width

-----------------------------------------------------------------------------
(* What the text holds of the input                                        *)

\* What has been read of the token, without the last character.
Taken == Before - from

\* s has t behind i and up to n.
Has(s, i, t, n) == i + Len(t) = n /\ \A m \in 1 .. Len(t) : t[m] = s[i + m]

\* The text is the input from the token on up to n.
TextTo(n) == Has(input, from, savedText, n)

\* The text lags behind the input where the last character is not in it.
TextIsInput ==
  /\ from <= Before
  /\ TextTo(IF pc \in {"blank", "point"} THEN Before ELSE stream.position)

Parts(s, e) == \E B \in SUBSET (2 .. e) : Whole(s, B, e)

\* What the text is in the middle of.
Shape ==
  /\ pc = "blank" => savedText = << >>
  /\ pc \in NumberStates \cup {"point"} =>
       \/ NumberTo(pc, savedText, Taken)
       \/ pc = "fraction" /\ c \in Digits /\ NumberTo("point", savedText, Taken)
  /\ pc = "quote" => c = Quote /\ Taken = 0
  /\ pc \in {"string", "escape", "digits"} => savedText[1] = Quote /\ Taken > 0
  /\ pc = "string" => Parts(savedText, IF c \in NoChar THEN Taken + 1 ELSE Taken + 2 - stream.pos)
  /\ pc = "escape" => savedText[Taken] = Backslash /\ Parts(savedText, Taken)
  /\ pc = "digits" =>
       LET b == Taken - 1 - (EscapeDigits - due)
       IN /\ savedText[b] = Backslash /\ savedText[b + 1] = "u"
          /\ \A i \in b + 2 .. Taken : savedText[i] \in HexDigits
          /\ Parts(savedText, b)

\* The invariant that makes the tokens lexemes.
TInv ==
  /\ BufferOK /\ StateOK
  /\ Scanning /\ c \in NoChar => stream.state = c
  /\ Scanning /\ lost = 0 => TextIsInput /\ Shape
  /\ TokensAreLexemes

\* A part of s and the one byte behind it.
LEMMA PartAndNext ==
  ASSUME NEW s \in Seq(Bytes), NEW i \in Nat, NEW t \in Seq(Bytes), NEW n \in Nat,
         Has(s, i, t, n), n <= Len(s)
  PROVE  /\ SubSeq(s, i + 1, n) = t
         /\ n < Len(s) => s[n + 1] \in Bytes /\ SubSeq(s, i + 1, n + 1) = Append(t, s[n + 1])
<1>0. /\ Len(s) \in Nat /\ Len(t) \in Nat /\ i <= n /\ n - i = Len(t)
      /\ \A m \in 1 .. Len(t) : t[m] = s[i + m]
  BY DEF Has
<1>1. n \in i .. Len(s)
  BY <1>0
<1> DEFINE u == SubSeq(s, i + 1, n)
           w == SubSeq(s, i + 1, n + 1)
           v == Append(t, s[n + 1])
<1>2. u \in Seq(Bytes) /\ Len(u) = n - i /\ \A m \in 1 .. n - i : u[m] = s[i + m]
  BY <1>1, PartIs
<1>3. u = t
  <2> HIDE DEF u
  <2>1. Len(u) = Len(t) /\ \A m \in 1 .. Len(u) : u[m] = t[m]
    BY <1>0, <1>2
  <2> QED
    BY <1>2, <2>1, SeqEqual
<1>4. ASSUME n < Len(s) PROVE s[n + 1] \in Bytes /\ w = v
  <2>1. n + 1 \in i .. Len(s) /\ s[n + 1] \in Bytes /\ (n + 1) - i = Len(t) + 1
    BY <1>0, <1>4
  <2>2. w \in Seq(Bytes) /\ Len(w) = (n + 1) - i /\ \A m \in 1 .. (n + 1) - i : w[m] = s[i + m]
    <3> DEFINE k == n + 1
    <3>1. k \in i .. Len(s)
      BY <2>1
    <3> HIDE DEF k
    <3>2. /\ SubSeq(s, i + 1, k) \in Seq(Bytes) /\ Len(SubSeq(s, i + 1, k)) = k - i
          /\ \A m \in 1 .. k - i : SubSeq(s, i + 1, k)[m] = s[i + m]
      BY <3>1, PartIs
    <3> QED
      BY <3>2 DEF k
  <2>3. /\ v \in Seq(Bytes) /\ Len(v) = Len(t) + 1 /\ v[Len(t) + 1] = s[n + 1]
        /\ \A m \in 1 .. Len(t) : v[m] = t[m]
    BY <2>1, AppendIs
  <2> HIDE DEF w, v
  <2>4. ASSUME NEW m \in 1 .. Len(w) PROVE w[m] = v[m]
    <3>1. m \in 1 .. (n + 1) - i /\ (m \in 1 .. Len(t) \/ (m = Len(t) + 1 /\ i + m = n + 1))
      BY <1>0, <2>1, <2>2, <2>4
    <3>2. w[m] = s[i + m]
      BY <2>2, <3>1
    <3> QED
      BY <1>0, <2>3, <3>1, <3>2
  <2>5. Len(w) = Len(v)
    BY <2>1, <2>2, <2>3
  <2> QED
    BY <2>1, <2>2, <2>3, <2>4, <2>5, SeqEqual
<1> QED
  BY <1>3, <1>4

-----------------------------------------------------------------------------
(* The steps and the text                                                  *)

\* A step that reads a character.
LEMMA ReadsStream ==
  ASSUME IInv, TInv, GetChar
  PROVE  /\ BufferOK' /\ StateOK' /\ Read /\ StreamOK' /\ CharRead'
         /\ c' \in NoChar => stream'.state = c'
         /\ Before' = stream.position /\ stream.position \in Nat /\ stream.position <= Len(input)
<1>1. BufferOK' /\ StateOK' /\ Read
  BY GetCharReads DEF IInv, TInv, Control
<1>2. StreamOK' /\ CharRead'
  BY GetCharWorks DEF IInv, Control
<1>3. stream.position \in Nat /\ stream.position <= Len(input)
  BY DEF IInv, StreamOK, Streams
<1>4. Before' = stream.position
  BY <1>1, <1>3 DEF Before, Read
<1> QED
  BY <1>1, <1>2, <1>3, <1>4 DEF Read

\* A step that returns no token.
LEMMA ReturnsNone ==
  ASSUME IInv, TInv, Scanning, stream' = PutBack \/ UNCHANGED stream,
         NEW t \in {"invalid", "eof"}, NEW v, NEW code, Return(t, v, code)
  PROVE  TInv'
<1>1. pc' = "returned" /\ token' = t /\ UNCHANGED <<input, c>>
  BY DEF Return
<1>2. BufferOK' /\ StateOK'
  <2>1. CASE stream' = PutBack
    <3>1. StreamOK /\ CharRead /\ BufferOK /\ StateOK /\ (stream.state = c \/ c \notin NoChar)
      BY DEF IInv, TInv
    <3> QED
      BY <1>1, <2>1, <3>1, PutBackIs
  <2>2. CASE UNCHANGED stream
    BY <1>1, <2>2 DEF TInv, BufferOK, StateOK
  <2> QED
    BY <2>1, <2>2
<1>3. ~ Scanning' /\ TokensAreLexemes'
  BY <1>1 DEF Scanning, TokensAreLexemes
<1> QED
  BY <1>2, <1>3 DEF TInv

\* A step that reads a character which will be the first of the token.
LEMMA ScanTokens == IInv /\ TInv /\ (Scan \/ SkipBlank) => TInv'
<1> SUFFICES ASSUME IInv, TInv, Scan \/ SkipBlank PROVE TInv'
  OBVIOUS
<1>1. GetChar /\ pc' = "blank" /\ from' = stream.position /\ (lost' = 0 => savedText' = << >>)
  <2>1. CASE Scan
    BY <2>1 DEF Scan
  <2>2. CASE SkipBlank
    <3>1. Scanning /\ pc = "blank" /\ UNCHANGED text /\ GetChar /\ pc' = pc /\ from' = stream.position
      BY <2>2 DEF SkipBlank, Scanning
    <3>2. lost = 0 => savedText = << >>
      BY <3>1 DEF TInv, Shape
    <3> QED
      BY <3>1, <3>2 DEF text
  <2> QED
    BY <2>1, <2>2
<1>2. /\ BufferOK' /\ StateOK' /\ (c' \in NoChar => stream'.state = c')
      /\ Before' = stream.position /\ stream.position \in Nat
  BY <1>1, ReadsStream
<1>3. ASSUME lost' = 0 PROVE TextIsInput' /\ Shape'
  <2>1. savedText' = << >> /\ Len(savedText') = 0
    BY <1>1, <1>3
  <2>2. TextIsInput'
    BY <1>1, <1>2, <2>1 DEF TextIsInput, TextTo, Has
  <2>3. Shape'
    BY <1>1, <2>1 DEF Shape, NumberStates
  <2> QED
    BY <2>2, <2>3
<1>4. TokensAreLexemes'
  BY <1>1 DEF TokensAreLexemes
<1> QED
  BY <1>2, <1>3, <1>4 DEF TInv

LEMMA NoTokenTokens == IInv /\ TInv /\ NoToken => TInv'
<1> SUFFICES ASSUME IInv, TInv, NoToken PROVE TInv'
  OBVIOUS
<1>1. /\ Scanning /\ UNCHANGED stream
      /\ \E t \in {"invalid", "eof"} : Return(t, << >>, "none")
  BY DEF NoToken, Scanning
<1> QED
  BY <1>1, ReturnsNone

LEMMA StealStringTokens == IInv /\ TInv /\ StealString => TInv'
<1> SUFFICES ASSUME IInv, TInv, StealString PROVE TInv'
  OBVIOUS
<1>1. pc = "returned" /\ UNCHANGED <<intAsReal, input, stream, text, c, pc, from, token, value>>
  BY DEF StealString
<1>2. UNCHANGED lost
  BY <1>1 DEF text
<1>3. BufferOK' /\ StateOK'
  BY <1>1 DEF TInv, BufferOK, StateOK
<1>4. TokensAreLexemes'
  BY <1>1, <1>2 DEF TInv, TokensAreLexemes, Between
<1> QED
  BY <1>1, <1>3, <1>4 DEF TInv, Scanning

LEMMA CloseTokens == IInv /\ TInv /\ Close => TInv'
<1> SUFFICES ASSUME IInv, TInv, Close PROVE TInv'
  OBVIOUS
<1>1. pc' = "closed" /\ UNCHANGED <<input, stream, c>>
  BY DEF Close
<1>2. BufferOK' /\ StateOK'
  BY <1>1 DEF TInv, BufferOK, StateOK
<1> QED
  BY <1>1, <1>2 DEF TInv, Scanning, TokensAreLexemes

LEMMA StutterTokens == IInv /\ TInv /\ UNCHANGED vars => TInv'
<1> SUFFICES ASSUME IInv, TInv, UNCHANGED vars PROVE TInv'
  OBVIOUS
<1>1. UNCHANGED <<intAsReal, input, stream, savedText, size, lost, c, pc, due, from, token, value>>
  BY DEF vars, text, result
<1>2. BufferOK' /\ StateOK'
  BY <1>1 DEF TInv, BufferOK, StateOK
<1>3. TextIsInput' = TextIsInput /\ Shape' = Shape /\ Scanning' = Scanning
  BY <1>1 DEF TextIsInput, TextTo, Has, Before, Shape, Taken, Scanning
<1>4. TokensAreLexemes'
  BY <1>1 DEF TInv, TokensAreLexemes, Between
<1> QED
  BY <1>1, <1>2, <1>3, <1>4 DEF TInv

LEMMA UnknownTokens == IInv /\ TInv /\ Unknown => TInv'
<1> SUFFICES ASSUME IInv, TInv, Unknown PROVE TInv'
  OBVIOUS
<1> DEFINE b == stream.buffer
           p == stream.pos
           n == stream.position
           rest == SubSeq(b, p + 1, Len(b))
<1>1. /\ pc = "blank" /\ c \notin NoChar
      /\ stream' = [stream EXCEPT !.pos = Len(b), !.position = @ + Len(rest)]
      /\ token' = "invalid" /\ pc' = "returned" /\ UNCHANGED <<input, c>>
  BY DEF Unknown
<1>2. /\ stream \in Streams /\ b \in Seq(Bytes) /\ Len(b) \in Nat /\ p \in Nat /\ n \in Nat /\ p <= Len(b)
      /\ stream.state = "OK" /\ p <= n /\ (n - p) + Len(b) <= Len(input)
  BY <1>1 DEF IInv, Scanning, StreamOK, CharRead, Streams, TInv, BufferOK
<1>3. Len(rest) = Len(b) - p
  <2> HIDE DEF b, p
  <2>1. Len(b) \in p .. Len(b)
    BY <1>2
  <2> QED
    BY <1>2, <2>1, PartIs
<1>4. /\ stream'.pos = Len(b) /\ stream'.position = n + (Len(b) - p)
      /\ stream'.buffer = b /\ stream'.state = "OK"
  <2>1. stream' = [stream EXCEPT !.pos = Len(b), !.position = @ + (Len(b) - p)]
    BY <1>1, <1>3
  <2> QED
    BY <1>2, <2>1 DEF Streams
<1>5. (n + (Len(b) - p)) - Len(b) = n - p /\ Len(b) <= n + (Len(b) - p)
  BY <1>2
<1>6. BufferOK'
  BY <1>1, <1>4, <1>5 DEF TInv, BufferOK
<1>7. StateOK'
  BY <1>4 DEF StateOK
<1> QED
  BY <1>1, <1>6, <1>7 DEF TInv, Scanning, TokensAreLexemes

\* append_bytes of one byte that is not lost.
LEMMA AppendsOne ==
  ASSUME IInv, Scanning, NEW x \in Bytes, AppendBytes(<<x>>), lost' = 0
  PROVE  /\ lost = 0 /\ Len(savedText) \in Nat
         /\ savedText' = savedText \o <<x>>
         /\ savedText' \in Seq(Bytes) /\ Len(savedText') = Len(savedText) + 1
         /\ savedText'[Len(savedText) + 1] = x
         /\ \A i \in 1 .. Len(savedText) : savedText'[i] = savedText[i]
<1>1. savedText \in Seq(Bytes) /\ lost \in Nat
  BY SizesAssumption DEF IInv, TextOK, Scanning
<1>2. lost = 0 /\ savedText' = savedText \o <<x>>
  BY <1>1 DEF AppendBytes
<1>3. <<x>> \in Seq(Bytes) /\ Len(<<x>>) = 1 /\ <<x>>[1] = x
  OBVIOUS
<1>4. /\ savedText \o <<x>> \in Seq(Bytes) /\ Len(savedText \o <<x>>) = Len(savedText) + 1
      /\ \A i \in 1 .. Len(savedText) + 1 :
           (savedText \o <<x>>)[i] = IF i <= Len(savedText) THEN savedText[i] ELSE <<x>>[i - Len(savedText)]
  BY <1>1, <1>3, ConcatProperties
<1> DEFINE t == savedText \o <<x>>
           l == Len(savedText)
<1>5. l \in Nat /\ l + 1 \in 1 .. l + 1 /\ ~ (l + 1 <= l) /\ (l + 1) - l = 1 /\ \A i \in 1 .. l : i \in 1 .. l + 1 /\ i <= l
  BY <1>1
<1> HIDE DEF t, l
<1>6. t[l + 1] = x /\ \A i \in 1 .. l : t[i] = savedText[i]
  BY <1>3, <1>4, <1>5 DEF t, l
<1> QED
  BY <1>2, <1>4, <1>5, <1>6 DEF t, l

\* The step takes the character it has looked at into the text.
LEMMA TakesChar ==
  ASSUME IInv, TInv, Scanning, pc \in {"blank", "point"}, c \notin NoChar,
         AppendBytes(<<c>>), lost' = 0, UNCHANGED <<input, stream, c, from>>
  PROVE  /\ TextIsInput /\ Shape
         /\ Taken = Len(savedText) /\ Taken' = Taken /\ Taken \in Nat
         /\ savedText' \in Seq(Bytes) /\ Len(savedText') = Len(savedText) + 1
         /\ savedText'[Len(savedText) + 1] = c
         /\ \A i \in 1 .. Len(savedText) : savedText'[i] = savedText[i]
         /\ TextTo(stream.position)'
<1>1. c \in Bytes /\ from \in Nat
  BY DEF IInv, Control
<1>2. /\ lost = 0 /\ Len(savedText) \in Nat
      /\ savedText' = savedText \o <<c>>
      /\ savedText' \in Seq(Bytes) /\ Len(savedText') = Len(savedText) + 1
      /\ savedText'[Len(savedText) + 1] = c
      /\ \A i \in 1 .. Len(savedText) : savedText'[i] = savedText[i]
  BY <1>1, AppendsOne
<1>3. TextIsInput /\ Shape
  BY <1>2 DEF TInv
<1>4. TextTo(Before) /\ Before = stream.position - 1 /\ stream.position \in Nat /\ input[stream.position] = c
  BY <1>3 DEF TextIsInput, Before, IInv, StreamOK, Streams, CharRead
<1>5. from + Len(savedText) = stream.position - 1 /\ \A i \in 1 .. Len(savedText) : savedText[i] = input[from + i]
  BY <1>4 DEF TextTo, Has
<1>6. Taken = Len(savedText) /\ Taken' = Taken
  BY <1>1, <1>2, <1>4, <1>5 DEF Taken, Before
<1>7. TextTo(stream.position)'
  <2>1. from + (Len(savedText) + 1) = stream.position
    BY <1>1, <1>2, <1>4, <1>5
  <2>2. ASSUME NEW i \in 1 .. Len(savedText) + 1 PROVE savedText'[i] = input[from + i]
    <3>1. i \in 1 .. Len(savedText) \/ i = Len(savedText) + 1
      BY <1>2
    <3> QED
      BY <1>2, <1>4, <1>5, <2>1, <3>1
  <2> QED
    BY <1>2, <2>1, <2>2 DEF TextTo, Has
<1> QED
  BY <1>2, <1>3, <1>6, <1>7

\* The token and the one byte behind it are the text and what follows in the input.
LEMMA TokenAndNext ==
  ASSUME input' \in Seq(Bytes), from' \in Nat, savedText' \in Seq(Bytes), TextTo(stream.position)',
         stream'.position \in Nat, stream'.position <= Len(input')
  PROVE  /\ Between(from, stream.position)' = savedText'
         /\ stream'.position < Len(input') =>
              /\ input'[stream'.position + 1] \in Bytes
              /\ Between(from, stream.position + 1)' = Append(savedText', input'[stream'.position + 1])
<1> DEFINE s == input'
           i == from'
           t == savedText'
           n == stream'.position
<1>1. Has(s, i, t, n)
  BY DEF TextTo
<1>2. s \in Seq(Bytes) /\ i \in Nat /\ t \in Seq(Bytes) /\ n \in Nat /\ n <= Len(s)
  OBVIOUS
<1> HIDE DEF s, i, t, n
<1>3. /\ SubSeq(s, i + 1, n) = t
      /\ n < Len(s) => s[n + 1] \in Bytes /\ SubSeq(s, i + 1, n + 1) = Append(t, s[n + 1])
  BY <1>1, <1>2, PartAndNext
<1>4. Between(from, stream.position)' = SubSeq(s, i + 1, n) /\ Between(from, stream.position + 1)' = SubSeq(s, i + 1, n + 1)
  BY DEF s, i, n, Between
<1>5. SubSeq(s, i + 1, n) = savedText'
  BY <1>3 DEF t
<1>6. ASSUME stream'.position < Len(input')
      PROVE  /\ input'[stream'.position + 1] \in Bytes
             /\ SubSeq(s, i + 1, n + 1) = Append(savedText', input'[stream'.position + 1])
  <2>1. n < Len(s)
    BY <1>6 DEF n, s
  <2>2. s[n + 1] \in Bytes /\ SubSeq(s, i + 1, n + 1) = Append(t, s[n + 1])
    BY <1>3, <2>1
  <2>3. s[n + 1] = input'[stream'.position + 1] /\ t = savedText'
    BY DEF n, s, t
  <2> QED
    BY <2>2, <2>3
<1> QED
  BY <1>4, <1>5, <1>6

LEMMA StructuralTokens == IInv /\ TInv /\ Structural => TInv'
<1> SUFFICES ASSUME IInv, TInv, Structural PROVE TInv'
  OBVIOUS
<1>1. /\ Scanning /\ pc = "blank" /\ c = "[" /\ c \notin NoChar /\ AppendBytes(<<c>>)
      /\ token' = c /\ pc' = "returned" /\ UNCHANGED <<intAsReal, input, stream, c, from, value>>
  BY DEF Structural, Scanning, NoChar
<1>2. BufferOK' /\ StateOK'
  BY <1>1 DEF TInv, BufferOK, StateOK
<1>3. ASSUME lost' = 0
      PROVE  LET s == Between(from, stream.position)'
                 more == Between(from, stream.position + 1)'
             IN s = <<"[">> /\ (Len(input') > stream'.position => ~ BeginsLexeme(more))
  <2>1. /\ Shape /\ savedText' \in Seq(Bytes) /\ Len(savedText') = Len(savedText) + 1
        /\ savedText'[Len(savedText) + 1] = c /\ TextTo(stream.position)'
    BY <1>1, <1>3, TakesChar
  <2>2. savedText = << >> /\ Len(savedText) = 0
    BY <1>1, <2>1 DEF Shape
  <2>3. savedText' = <<"[">>
    <3> DEFINE t == <<"[">>
    <3>1. t \in Seq(Bytes) /\ Len(t) = 1 /\ t[1] = "["
      BY DEF Bytes, Ascii
    <3> HIDE DEF t
    <3>2. Len(savedText') = 1 /\ savedText'[1] = "["
      BY <1>1, <2>1, <2>2
    <3>3. \A i \in 1 .. Len(savedText') : savedText'[i] = t[i]
      BY <3>1, <3>2
    <3>4. savedText' = t
      BY <2>1, <3>1, <3>2, <3>3, SeqEqual
    <3> QED
      BY <3>4 DEF t
  <2>4. /\ input' \in Seq(Bytes) /\ from' \in Nat /\ stream'.position \in Nat
        /\ stream'.position <= Len(input') /\ Len(input') \in Nat
    BY <1>1 DEF IInv, Control, StreamOK, Streams
  <2>5. /\ Between(from, stream.position)' = savedText'
        /\ stream'.position < Len(input') =>
             /\ input'[stream'.position + 1] \in Bytes
             /\ Between(from, stream.position + 1)' = Append(savedText', input'[stream'.position + 1])
    BY <2>1, <2>4, TokenAndNext
  <2> QED
    BY <2>3, <2>4, <2>5, BracketIsLongest
<1>4. TokensAreLexemes'
  BY <1>1, <1>3 DEF TokensAreLexemes
<1> QED
  BY <1>1, <1>2, <1>4 DEF TInv, Scanning

LEMMA BeginTokens == IInv /\ TInv /\ Begin => TInv'
<1> SUFFICES ASSUME IInv, TInv, Begin PROVE TInv'
  OBVIOUS
<1>1. /\ Scanning /\ pc = "blank" /\ Begun # "none" /\ AppendBytes(<<c>>) /\ pc' = Begun
      /\ UNCHANGED <<input, stream, c, from>>
  BY DEF Begin, Scanning
<1>2. /\ c \notin NoChar
      /\ pc' \in {"quote", "word", "number"} /\ (pc' = "quote" => c = Quote)
  BY <1>1 DEF Begun, NoChar, Quote, Letters, Digits
<1>3. BufferOK' /\ StateOK'
  BY <1>1 DEF TInv, BufferOK, StateOK
<1>4. ASSUME lost' = 0 PROVE TextIsInput' /\ Shape'
  <2>1. /\ Shape /\ Taken = Len(savedText) /\ Taken' = Taken /\ TextTo(stream.position)'
    BY <1>1, <1>2, <1>4, TakesChar
  <2>2. Taken' = 0
    BY <1>1, <2>1 DEF Shape
  <2>3. TextIsInput'
    <3>1. Before' = Before /\ from' = from
      BY <1>1 DEF Before
    <3>2. from <= Before
      BY <1>1, <1>2, <1>4, TakesChar DEF TextIsInput
    <3> QED
      BY <1>2, <2>1, <3>1, <3>2 DEF TextIsInput
  <2>4. NumberTo("number", savedText', 0)
    BY DEF NumberTo
  <2>5. Shape'
    BY <1>1, <1>2, <2>2, <2>4 DEF Shape, NumberStates
  <2> QED
    BY <2>3, <2>5
<1>5. TokensAreLexemes'
  BY <1>2 DEF TokensAreLexemes
<1> QED
  BY <1>1, <1>2, <1>3, <1>4, <1>5 DEF TInv, Scanning

\* The step puts the last character back and takes it out of the text.
LEMMA LeavesChar ==
  ASSUME IInv, TInv, Scanning, stream' = PutBack, UNCHANGED <<input, c, from>>, lost' = 0,
         \/ pc # "point" /\ pc # "blank" /\ Unsave
         \/ pc = "point" /\ UNCHANGED text
  PROVE  /\ lost = 0 /\ TextIsInput /\ Shape
         /\ savedText \in Seq(Bytes) /\ savedText' \in Seq(Bytes)
         /\ Len(savedText') = Taken /\ Taken \in Nat
         /\ \A i \in 1 .. Taken : savedText'[i] = savedText[i]
         /\ Between(from, stream.position)' = savedText'
         /\ stream'.position < Len(input') =>
              \E x \in Bytes :
                /\ x = c \/ (c \in NoChar /\ x \in {"lead", "cont"})
                /\ Between(from, stream.position + 1)' = Append(savedText', x)
<1>1. /\ StreamOK /\ CharRead /\ BufferOK /\ StateOK /\ (stream.state = c \/ c \notin NoChar)
      /\ savedText \in Seq(Bytes) /\ Len(savedText) \in Nat /\ from \in Nat /\ input \in Seq(Bytes)
  BY DEF IInv, TInv, Scanning, TextOK, Control, StreamOK
<1>2. /\ stream'.position = Before /\ Before \in Nat /\ Before <= Len(input)
      /\ Before < Len(input) => input[Before + 1] = c \/ (c \in NoChar /\ input[Before + 1] \in {"lead", "cont"})
  BY <1>1, PutBackIs
<1>3. lost = 0
  BY DEF Unsave, text
<1>4. TextIsInput /\ Shape
  BY <1>3 DEF TInv
<1>5. stream.position \in Nat
  BY <1>1 DEF StreamOK, Streams
<1>6. /\ savedText' \in Seq(Bytes) /\ Len(savedText') = Taken /\ Taken \in Nat
      /\ \A i \in 1 .. Taken : savedText'[i] = savedText[i] /\ savedText[i] = input[from + i]
  <2>1. CASE pc = "point" /\ UNCHANGED text
    <3>1. Has(input, from, savedText, Before)
      BY <1>4, <2>1 DEF TextIsInput, TextTo
    <3>2. from + Len(savedText) = Before /\ \A m \in 1 .. Len(savedText) : savedText[m] = input[from + m]
      BY <3>1 DEF Has
    <3>3. Len(savedText) = Taken /\ savedText' = savedText
      BY <1>1, <1>2, <2>1, <3>2 DEF Taken, text
    <3> QED
      BY <1>1, <3>2, <3>3
  <2>2. CASE pc # "point" /\ pc # "blank" /\ Unsave
    <3>1. Has(input, from, savedText, stream.position)
      BY <1>4, <2>2 DEF TextIsInput, TextTo
    <3>2. from + Len(savedText) = stream.position /\ \A m \in 1 .. Len(savedText) : savedText[m] = input[from + m]
      BY <3>1 DEF Has
    <3>3. CASE c \in NoChar
      <4>1. Len(savedText) = Taken /\ savedText' = savedText
        BY <1>1, <1>5, <2>2, <3>2, <3>3 DEF Taken, Before, Unsave
      <4> QED
        BY <1>1, <3>2, <4>1
    <3>4. CASE c \notin NoChar /\ savedText # << >>
      <4>1. Len(savedText) > 0 /\ Taken = Len(savedText) - 1
        BY <1>1, <1>5, <3>2, <3>4, EmptySeq DEF Taken, Before
      <4>2. savedText' = SubSeq(savedText, 1, Len(savedText) - 1)
        BY <2>2, <3>4 DEF Unsave, Front
      <4>3. Taken \in Nat /\ Taken \in 0 .. Len(savedText) /\ Taken - 0 = Taken /\ 0 + 1 = 1
        BY <1>1, <4>1
      <4>4. savedText' = SubSeq(savedText, 0 + 1, Taken)
        BY <4>1, <4>2, <4>3
      <4> DEFINE k == Taken
      <4>5. k \in 0 .. Len(savedText) /\ k - 0 = k /\ savedText' = SubSeq(savedText, 0 + 1, k) /\ k \in Nat
        BY <4>3, <4>4
      <4> HIDE DEF k
      <4>6. /\ SubSeq(savedText, 0 + 1, k) \in Seq(Bytes) /\ Len(SubSeq(savedText, 0 + 1, k)) = k - 0
            /\ \A m \in 1 .. k - 0 : SubSeq(savedText, 0 + 1, k)[m] = savedText[0 + m]
        BY <1>1, <4>5, PartIs
      <4>7. \A m \in 1 .. k : 0 + m = m
        BY <4>5
      <4>8. savedText' \in Seq(Bytes) /\ Len(savedText') = k /\ \A m \in 1 .. k : savedText'[m] = savedText[m]
        BY <4>5, <4>6, <4>7
      <4>9. \A m \in 1 .. k : m \in 1 .. Len(savedText)
        BY <1>1, <4>5
      <4> QED
        BY <3>2, <4>3, <4>8, <4>9 DEF k
    <3>5. CASE c \notin NoChar /\ savedText = << >>
      <4>1. Len(savedText) = 0
        BY <3>5
      <4> QED
        BY <1>1, <1>4, <1>5, <3>2, <3>5, <4>1 DEF TextIsInput, Before
    <3> QED
      BY <3>3, <3>4, <3>5
  <2> QED
    BY <2>1, <2>2
<1>7. TextTo(stream.position)'
  <2>1. from + Taken = Before
    BY <1>1, <1>2 DEF Taken
  <2>2. Has(input', from', savedText', stream'.position)
    BY <1>2, <1>6, <2>1 DEF Has
  <2> QED
    BY <2>2 DEF TextTo
<1>8. input' \in Seq(Bytes) /\ from' \in Nat /\ stream'.position \in Nat /\ stream'.position <= Len(input')
  BY <1>1, <1>2
<1>9. /\ Between(from, stream.position)' = savedText'
      /\ stream'.position < Len(input') =>
           /\ input'[stream'.position + 1] \in Bytes
           /\ Between(from, stream.position + 1)' = Append(savedText', input'[stream'.position + 1])
  BY <1>6, <1>7, <1>8, TokenAndNext
<1>10. stream'.position < Len(input') =>
         input'[stream'.position + 1] = c \/ (c \in NoChar /\ input'[stream'.position + 1] \in {"lead", "cont"})
  BY <1>2
<1> QED
  BY <1>1, <1>3, <1>4, <1>6, <1>9, <1>10

\* The last character of the text is the last one read.
LEMMA LastOfText ==
  ASSUME savedText \in Seq(Bytes), from \in Nat, stream.position \in Nat, from <= Before,
         from + Len(savedText) = stream.position,
         \A i \in 1 .. Len(savedText) : savedText[i] = input[from + i],
         c \notin NoChar, stream.position > 0, input[stream.position] = c
  PROVE  Len(savedText) = Taken + 1 /\ Taken \in Nat /\ savedText[Taken + 1] = c
<1> DEFINE n == Len(savedText)
           q == stream.position
           b == Before
<1>1. b = q - 1
  BY DEF Before
<1>2. n \in Nat /\ q \in Nat /\ from + n = q /\ from <= b
  OBVIOUS
<1>3. \A i \in 1 .. n : savedText[i] = input[from + i]
  OBVIOUS
<1>4. Taken = b - from
  BY DEF Taken
<1>5. input[q] = c
  OBVIOUS
<1> HIDE DEF n, q, b
<1>6. n \in 1 .. n /\ b - from + 1 = n /\ b - from \in Nat
  BY <1>1, <1>2
<1>7. savedText[n] = c
  BY <1>2, <1>3, <1>5, <1>6
<1> QED
  BY <1>4, <1>6, <1>7 DEF n

\* The step reads the next character into the text: what that does to the text ...
LEMMA SavesText ==
  ASSUME IInv, TInv, Scanning, pc \notin {"blank", "point"}, GetAndSave, UNCHANGED from, lost' = 0
  PROVE  /\ lost = 0 /\ Shape
         /\ savedText \in Seq(Bytes) /\ Len(savedText) \in Nat
         /\ Len(savedText) = stream.position - from
         /\ Taken' = Len(savedText)
         /\ Len(savedText) <= Len(savedText')
         /\ \A i \in 1 .. Len(savedText) : savedText'[i] = savedText[i] /\ savedText[i] = input[from + i]
         /\ c \notin NoChar => Len(savedText) = Taken + 1 /\ Taken \in Nat /\ savedText[Taken + 1] = c
         /\ from <= Before' /\ TextTo(stream.position)'
<1>0. /\ savedText \in Seq(Bytes) /\ Len(savedText) \in Nat /\ from \in Nat
      /\ input \in Seq(Bytes) /\ Len(input) \in Nat
      /\ GetChar /\ CharRead
  BY DEF IInv, Scanning, TextOK, Control, StreamOK, GetAndSave
<1>1. Read /\ CharRead' /\ Before' = stream.position /\ stream.position \in Nat /\ stream.position <= Len(input)
  BY <1>0, ReadsStream
<1>2. IF c' \in NoChar THEN UNCHANGED text ELSE AppendBytes(<<c'>>)
  BY DEF GetAndSave
<1>5. c \notin NoChar => stream.position > 0 /\ input[stream.position] = c
  BY <1>0 DEF CharRead
<1>3. CASE c' \in NoChar
  <2>1. savedText' = savedText /\ lost = 0 /\ stream'.position = stream.position
    BY <1>1, <1>2, <1>3, CharsAreNoBytes DEF text, Read
  <2> DEFINE n == stream.position
  <2>2. Has(input, from, savedText, n) /\ from <= Before /\ Shape
    BY <2>1 DEF TInv, TextIsInput, TextTo
  <2>3. from + Len(savedText) = n /\ \A i \in 1 .. Len(savedText) : savedText[i] = input[from + i]
    BY <2>2 DEF Has
  <2>4. \A i \in 1 .. Len(savedText) : from + i \in 1 .. Len(input)
    BY <1>0, <1>1, <2>3
  <2>5. TextTo(stream.position)'
    BY <1>1, <2>1, <2>3, <2>4 DEF TextTo, Has, Read
  <2>6. c \notin NoChar => Len(savedText) = Taken + 1 /\ Taken \in Nat /\ savedText[Taken + 1] = c
    BY <1>0, <1>1, <1>5, <2>2, <2>3, LastOfText
  <2> QED
    BY <1>0, <1>1, <2>1, <2>2, <2>3, <2>5, <2>6 DEF Taken
<1>4. CASE c' \notin NoChar
  <2>1. c' \in Bytes /\ stream'.position = stream.position + 1 /\ input'[stream'.position] = c'
    BY <1>1, <1>4 DEF Read, CharRead
  <2>2. /\ lost = 0
        /\ savedText' \in Seq(Bytes) /\ Len(savedText') = Len(savedText) + 1
        /\ savedText'[Len(savedText) + 1] = c'
        /\ \A i \in 1 .. Len(savedText) : savedText'[i] = savedText[i]
    BY <1>2, <1>4, <2>1, AppendsOne
  <2> DEFINE n == stream.position
  <2>3. Has(input, from, savedText, n) /\ from <= Before /\ Shape
    BY <2>2 DEF TInv, TextIsInput, TextTo
  <2>4. from + Len(savedText) = n /\ \A i \in 1 .. Len(savedText) : savedText[i] = input[from + i]
    BY <2>3 DEF Has
  <2>5. \A i \in 1 .. Len(savedText) : from + i \in 1 .. Len(input)
    BY <1>0, <1>1, <2>4
  <2>6. ASSUME NEW i \in 1 .. Len(savedText') PROVE savedText'[i] = input'[from + i]
    <3>1. i \in 1 .. Len(savedText) \/ (i = Len(savedText) + 1 /\ from + i = stream'.position)
      BY <1>0, <1>1, <2>1, <2>2, <2>4
    <3>2. CASE i \in 1 .. Len(savedText)
      BY <1>1, <2>2, <2>4, <2>5, <3>2 DEF Read
    <3>3. CASE i = Len(savedText) + 1 /\ from + i = stream'.position
      BY <2>1, <2>2, <3>3
    <3> QED
      BY <3>1, <3>2, <3>3
  <2>7. TextTo(stream.position)'
    BY <1>0, <1>1, <2>1, <2>2, <2>4, <2>6 DEF TextTo, Has
  <2>8. c \notin NoChar => Len(savedText) = Taken + 1 /\ Taken \in Nat /\ savedText[Taken + 1] = c
    BY <1>0, <1>1, <1>5, <2>3, <2>4, LastOfText
  <2> QED
    BY <1>0, <1>1, <2>2, <2>3, <2>4, <2>7, <2>8 DEF Taken
<1> QED
  BY <1>3, <1>4

\* ... and that the invariant holds if the text has its shape.
LEMMA SavesTokens ==
  ASSUME IInv, TInv, Scanning, pc \notin {"blank", "point"}, GetAndSave, UNCHANGED from,
         pc' \notin {"returned", "closed", "blank", "point"}, lost' = 0 => Shape'
  PROVE  TInv'
<1>1. GetChar
  BY DEF GetAndSave
<1>2. BufferOK' /\ StateOK' /\ (c' \in NoChar => stream'.state = c')
  BY <1>1, ReadsStream
<1>3. ASSUME lost' = 0 PROVE TextIsInput' /\ Shape'
  <2>1. from <= Before' /\ TextTo(stream.position)'
    BY <1>3, SavesText
  <2> QED
    BY <1>3, <2>1 DEF TextIsInput
<1>4. TokensAreLexemes'
  BY DEF TokensAreLexemes
<1> QED
  BY <1>2, <1>3, <1>4 DEF TInv

LEMMA WordTokens == IInv /\ TInv /\ Word => TInv'
<1> SUFFICES ASSUME IInv, TInv, Word PROVE TInv'
  OBVIOUS
<1>1. pc = "word" /\ Scanning
  BY DEF Word, Scanning
<1>2. CASE c \in Letters
  <2>1. GetAndSave /\ pc' = "word" /\ UNCHANGED from
    BY <1>2 DEF Word, GoesOn
  <2>2. Shape'
    BY <2>1 DEF Shape, NumberStates
  <2> QED
    BY <1>1, <2>1, <2>2, SavesTokens
<1>3. CASE c \notin Letters /\ savedText' \notin Keywords
  <2>1. stream' = PutBack /\ Return("invalid", << >>, "none")
    BY <1>3 DEF Word, Invalid
  <2> QED
    BY <1>1, <2>1, ReturnsNone
<1>4. CASE c \notin Letters /\ savedText' \in Keywords
  <2>1. /\ stream' = PutBack /\ Unsave /\ pc' = "returned" /\ token' = "literal" /\ value' = savedText'
        /\ UNCHANGED <<input, c, from>>
    BY <1>4 DEF Word, Return
  <2>0. /\ StreamOK /\ CharRead /\ BufferOK /\ StateOK /\ (stream.state = c \/ c \notin NoChar)
        /\ Len(input) \in Nat
    BY <1>1 DEF IInv, TInv, StreamOK
  <2>2. BufferOK' /\ StateOK' /\ stream'.position \in Nat
    BY <2>0, <2>1, PutBackIs
  <2>3. TokensAreLexemes'
    <3> SUFFICES ASSUME lost' = 0 PROVE TokensAreLexemes'
      BY DEF TokensAreLexemes
    <3>1. /\ Between(from, stream.position)' = savedText'
          /\ stream'.position < Len(input') =>
               \E x \in Bytes :
                 /\ x = c \/ (c \in NoChar /\ x \in {"lead", "cont"})
                 /\ Between(from, stream.position + 1)' = Append(savedText', x)
      BY <1>1, <2>1, LeavesChar
    <3>2. savedText' \in Seq(Letters) /\ Len(savedText') > 0
      <4>1. savedText' \in Seq(Letters) /\ savedText' # << >>
        BY <1>4, KeywordsAssumption
      <4> QED
        BY <4>1, EmptySeq
    <3>3. \A x \in Bytes : x = c \/ x \in {"lead", "cont"} => ~ BeginsLexeme(Append(savedText', x))
      <4>1. \A x \in Bytes : x = c \/ x \in {"lead", "cont"} => x \in Bytes \ Letters
        BY <1>4 DEF Letters
      <4> QED
        BY <3>2, <4>1, WordIsLongest
    <3>4. stream'.position \in Nat /\ Len(input') \in Nat
      BY <2>0, <2>1, <2>2
    <3>5. Len(input') > stream'.position => ~ BeginsLexeme(Between(from, stream.position + 1)')
      BY <3>1, <3>3, <3>4
    <3> QED
      BY <1>4, <2>1, <3>1, <3>5 DEF TokensAreLexemes
  <2> QED
    BY <2>1, <2>2, <2>3 DEF TInv, Scanning
<1> QED
  BY <1>2, <1>3, <1>4

-----------------------------------------------------------------------------
(* The steps of a number and the text                                      *)

\* A number that grows is still the number of the same bytes.
LEMMA SaveMoreOfNumber ==
  ASSUME NEW s, NEW t, NEW n \in Nat, NEW at, NEW to, NumberTo(at, s, n),
         <<at, s[n + 1], to>> \in NumberSteps, \A m \in 1 .. n + 1 : t[m] = s[m]
  PROVE  NumberTo(to, t, n + 1)
<1> DEFINE k == n + 1
<1>1. NumberTo(to, s, k)
  BY NumberGrows
<1>2. k \in Nat /\ \A m \in 1 .. k : s[m] = t[m]
  OBVIOUS
<1> HIDE DEF k
<1>3. NumberTo(to, t, k)
  BY <1>1, <1>2, SameBytesSameNumber
<1> QED
  BY <1>3 DEF k

LEMMA NumberGoesOnTokens == IInv /\ TInv /\ NumberGoesOn => TInv'
<1> SUFFICES ASSUME IInv, TInv, NumberGoesOn PROVE TInv'
  OBVIOUS
<1>1. PICK to \in NumberStates : <<pc, c, to>> \in NumberNext /\ GetAndSave /\ pc' = to /\ UNCHANGED from
  BY DEF NumberGoesOn, GoesOn
<1>2. /\ Scanning /\ pc \in NumberStates /\ pc # "point" /\ pc # "blank" /\ c \notin NoChar
      /\ pc = "fraction" /\ c \in Digits => to = "fraction"
      /\ <<pc, c, to>> \in NumberSteps
  BY <1>1 DEF NumberNext, NumberStates, NumberSteps, Scanning, NoChar, Digits, Signs
<1>3. ASSUME lost' = 0 PROVE Shape'
  <2>1. /\ Shape /\ Taken' = Len(savedText) /\ Len(savedText) = Taken + 1 /\ Taken \in Nat
        /\ savedText[Taken + 1] = c /\ \A i \in 1 .. Len(savedText) : savedText'[i] = savedText[i]
    BY <1>1, <1>2, <1>3, SavesText
  <2> DEFINE s == savedText
             t == savedText'
             n == Taken
  <2>2. \E at : NumberTo(at, s, n) /\ <<at, s[n + 1], to>> \in NumberSteps
    <3>1. CASE NumberTo(pc, s, n)
      BY <1>2, <2>1, <3>1
    <3>2. CASE pc = "fraction" /\ c \in Digits /\ NumberTo("point", s, n)
      <4>1. <<"point", c, to>> \in NumberSteps
        BY <1>2, <3>2 DEF NumberSteps
      <4> QED
        BY <2>1, <3>2, <4>1
    <3> QED
      BY <1>2, <2>1, <3>1, <3>2 DEF Shape
  <2>3. n \in Nat /\ \A m \in 1 .. n + 1 : t[m] = s[m]
    BY <2>1
  <2> HIDE DEF s, t, n
  <2>4. NumberTo(to, t, n + 1)
    BY <2>2, <2>3, SaveMoreOfNumber
  <2>5. NumberTo(to, savedText', Taken')
    BY <2>1, <2>4 DEF t, n
  <2> QED
    BY <1>1, <2>5 DEF Shape, NumberStates
<1>4. pc' \notin {"returned", "closed", "blank", "point"} /\ pc \notin {"blank", "point"}
  BY <1>1, <1>2 DEF NumberStates
<1> QED
  BY <1>1, <1>2, <1>3, <1>4, SavesTokens

LEMMA PointTokens == IInv /\ TInv /\ Point => TInv'
<1> SUFFICES ASSUME IInv, TInv, Point PROVE TInv'
  OBVIOUS
<1>1. GetChar /\ pc' = "point" /\ UNCHANGED <<savedText, lost, from>> /\ <<pc, c, "point">> \in NumberNext
  BY DEF Point, GoesOn, text
<1>2. Scanning /\ pc \in {"zero", "whole"} /\ c = "." /\ <<pc, c, "point">> \in NumberSteps /\ c \notin NoChar
  BY <1>1 DEF NumberNext, NumberSteps, Scanning, NoChar
<1>3. /\ BufferOK' /\ StateOK' /\ (c' \in NoChar => stream'.state = c') /\ Read
      /\ Before' = stream.position /\ stream.position \in Nat /\ stream.position <= Len(input)
  BY <1>1, ReadsStream
<1>4. ASSUME lost' = 0 PROVE TextIsInput' /\ Shape'
  <2>1. TextIsInput /\ Shape /\ lost = 0
    BY <1>1, <1>2, <1>4 DEF TInv
  <2>2. /\ savedText \in Seq(Bytes) /\ Len(savedText) \in Nat /\ from \in Nat /\ input \in Seq(Bytes) /\ Len(input) \in Nat
    BY <1>2 DEF IInv, Scanning, TextOK, Control, StreamOK
  <2>3. Has(input, from, savedText, stream.position)
    BY <1>2, <2>1 DEF TextIsInput, TextTo
  <2>4. from + Len(savedText) = stream.position /\ \A i \in 1 .. Len(savedText) : savedText[i] = input[from + i]
    BY <2>3 DEF Has
  <2>5. \A i \in 1 .. Len(savedText) : from + i \in 1 .. Len(input)
    BY <1>3, <2>2, <2>4
  <2>6. TextIsInput'
    <3>1. \A i \in 1 .. Len(savedText) : savedText'[i] = input'[from + i]
      BY <1>1, <1>3, <2>4, <2>5 DEF Read
    <3>2. TextTo(Before)'
      BY <1>1, <1>3, <2>2, <2>4, <3>1 DEF TextTo, Has
    <3>3. from <= stream.position
      BY <1>3, <2>2, <2>4
    <3> QED
      BY <1>1, <1>3, <3>2, <3>3 DEF TextIsInput
  <2>7. stream.position > 0 /\ input[stream.position] = c /\ from <= Before
    BY <1>2, <2>1 DEF IInv, CharRead, TextIsInput
  <2>8. Len(savedText) = Taken + 1 /\ Taken \in Nat /\ savedText[Taken + 1] = c
    BY <1>2, <1>3, <2>2, <2>4, <2>7, LastOfText
  <2>9. NumberTo(pc, savedText, Taken)
    BY <1>2, <2>1 DEF Shape, NumberStates
  <2>10. NumberTo("point", savedText, Taken + 1)
    BY <1>2, <2>8, <2>9, NumberGrows
  <2>11. Taken' = Len(savedText)
    BY <1>1, <1>3, <2>2, <2>4 DEF Taken
  <2>12. NumberTo("point", savedText', Taken')
    BY <1>1, <2>8, <2>10, <2>11
  <2> QED
    BY <1>1, <2>6, <2>12 DEF Shape
<1>5. TokensAreLexemes'
  BY <1>1 DEF TokensAreLexemes
<1> QED
  BY <1>3, <1>4, <1>5 DEF TInv

LEMMA AfterPointTokens == IInv /\ TInv /\ AfterPoint => TInv'
<1> SUFFICES ASSUME IInv, TInv, AfterPoint PROVE TInv'
  OBVIOUS
<1>1. Scanning /\ pc = "point"
  BY DEF AfterPoint, Scanning
<1>2. CASE c \notin Digits
  <2>1. stream' = PutBack /\ Return("invalid", << >>, "none")
    BY <1>2 DEF AfterPoint, Invalid
  <2> QED
    BY <1>1, <2>1, ReturnsNone
<1>3. CASE c \in Digits
  <2>1. AppendBytes(<<c>>) /\ pc' = "fraction" /\ UNCHANGED <<from, input, stream, c>> /\ c \notin NoChar
    BY <1>3 DEF AfterPoint, GoesOn, Digits, NoChar
  <2>2. BufferOK' /\ StateOK'
    BY <2>1 DEF TInv, BufferOK, StateOK
  <2>3. ASSUME lost' = 0 PROVE TextIsInput' /\ Shape'
    <3>1. /\ TextIsInput /\ Shape /\ Taken = Len(savedText) /\ Taken' = Taken /\ Taken \in Nat
          /\ TextTo(stream.position)' /\ \A i \in 1 .. Len(savedText) : savedText'[i] = savedText[i]
      BY <1>1, <2>1, <2>3, TakesChar
    <3>2. TextIsInput'
      <4>1. Before' = Before /\ from' = from
        BY <2>1 DEF Before
      <4> QED
        BY <2>1, <3>1, <4>1 DEF TextIsInput
    <3>3. NumberTo("point", savedText, Taken)
      BY <1>1, <3>1 DEF Shape
    <3>4. NumberTo("point", savedText', Taken)
      BY <3>1, <3>3, SameBytesSameNumber
    <3>5. NumberTo("point", savedText', Taken')
      BY <3>1, <3>4
    <3> QED
      BY <1>3, <2>1, <3>2, <3>5 DEF Shape
  <2>4. TokensAreLexemes'
    BY <2>1 DEF TokensAreLexemes
  <2> QED
    BY <2>1, <2>2, <2>3, <2>4 DEF TInv
<1> QED
  BY <1>2, <1>3

LEMMA NumberBrokenTokens == IInv /\ TInv /\ NumberBroken => TInv'
<1> SUFFICES ASSUME IInv, TInv, NumberBroken PROVE TInv'
  OBVIOUS
<1>1. Scanning /\ stream' = PutBack /\ Return("invalid", << >>, "none")
  BY DEF NumberBroken, Scanning, NumberStates, Invalid
<1> QED
  BY <1>1, ReturnsNone

\* What the text of a number is when it ends at at.
LEMMA NumberEnds ==
  ASSUME NEW s \in Seq(Bytes), NEW at \in {"zero", "whole", "fraction", "power"}, NumberTo(at, s, Len(s))
  PROVE  /\ Len(s) > 0 /\ IsNumber(s)
         /\ IsInteger(s) <=> at \in {"zero", "whole"}
<1> DEFINE n == Len(s)
<1>1. n \in Nat
  OBVIOUS
<1>2. IsNumber(s) /\ (IsInteger(s) <=> IntegerTo(s, n))
  BY NumberIs, IntegerIs
<1> HIDE DEF n
<1>0. NumberTo(at, s, n)
  BY DEF n
<1>3. n > 0
  BY <1>0, <1>1, NumberBytes
<1>4. CASE at = "zero"
  <2>1. s[n] = "0" /\ (n = 1 \/ (n = 2 /\ s[1] = "-"))
    BY <1>0, <1>4 DEF NumberTo
  <2>2. IntegerTo(s, n)
    BY <2>1 DEF IntegerTo, Digits
  <2> QED
    BY <1>2, <1>3, <1>4, <2>2 DEF n
<1>5. CASE at = "whole"
  BY <1>0, <1>2, <1>3, <1>5 DEF NumberTo, n
<1>6. CASE at = "fraction"
  BY <1>0, <1>2, <1>3, <1>6 DEF NumberTo, n
<1>7. CASE at = "power"
  <2>1. PICK m \in 1 .. n : s[m] = "e"
    BY <1>0, <1>1, <1>7, NumberBytes
  <2>2. "e" \notin Digits \cup {"-"}
    BY DEF Digits
  <2>3. ~ IntegerTo(s, n)
    BY <1>1, <2>1, <2>2, MantissaBytes
  <2> QED
    BY <1>2, <1>3, <1>7, <2>3 DEF n
<1> QED
  BY <1>4, <1>5, <1>6, <1>7

LEMMA NumberEndsTokens == IInv /\ TInv /\ (IntegerEnds \/ RealEnds) => TInv'
<1> SUFFICES ASSUME IInv, TInv, IntegerEnds \/ RealEnds PROVE TInv'
  OBVIOUS
<1> DEFINE t == IF pc \in {"zero", "whole"} /\ ~ intAsReal THEN "integer" ELSE "real"
<1>1. /\ Scanning /\ pc \in {"zero", "whole", "fraction", "power"}
      /\ stream' = PutBack /\ Unsave /\ ReturnNumber(t)
      /\ c \notin Digits \cup {".", "e"} \/ (pc \in {"fraction", "power"} /\ ~ InNumber)
  BY DEF IntegerEnds, RealEnds, Scanning
<1>2. CASE Invalid("overflow")
  BY <1>1, <1>2, ReturnsNone DEF Invalid
<1>3. CASE Return(t, savedText', "none")
  <2>1. pc' = "returned" /\ token' = t /\ value' = savedText' /\ UNCHANGED <<intAsReal, input, c, from>>
    BY <1>3 DEF Return
  <2>2. StreamOK /\ CharRead /\ BufferOK /\ StateOK /\ (stream.state = c \/ c \notin NoChar)
    BY <1>1 DEF IInv, TInv
  <2>3. Len(input) \in Nat
    BY <2>2 DEF StreamOK
  <2>4. BufferOK' /\ StateOK' /\ stream'.position \in Nat
    BY <1>1, <2>1, <2>2, PutBackIs
  <2>5. ASSUME lost' = 0
        PROVE  /\ Between(from, stream.position)' = savedText'
               /\ IsNumber(savedText') /\ (IsInteger(savedText') <=> pc \in {"zero", "whole"})
               /\ Len(input') > stream'.position => ~ BeginsLexeme(Between(from, stream.position + 1)')
    <3>1. pc # "point" /\ pc # "blank"
      BY <1>1
    <3>2. /\ Shape /\ savedText' \in Seq(Bytes) /\ Len(savedText') = Taken /\ Taken \in Nat
          /\ \A i \in 1 .. Taken : savedText'[i] = savedText[i]
          /\ Between(from, stream.position)' = savedText'
          /\ stream'.position < Len(input') =>
               \E x \in Bytes :
                 /\ x = c \/ (c \in NoChar /\ x \in {"lead", "cont"})
                 /\ Between(from, stream.position + 1)' = Append(savedText', x)
      BY <1>1, <2>1, <2>5, <3>1, LeavesChar
    <3>3. ~ (pc = "fraction" /\ c \in Digits)
      BY <1>1 DEF InNumber, NumberNext, NumberStates
    <3>4. NumberTo(pc, savedText, Taken)
      BY <1>1, <3>2, <3>3 DEF Shape, NumberStates
    <3>5. NumberTo(pc, savedText', Taken)
      BY <3>2, <3>4, SameBytesSameNumber
    <3>6. NumberTo(pc, savedText', Len(savedText'))
      BY <3>2, <3>5
    <3>7. /\ Len(savedText') > 0 /\ IsNumber(savedText')
          /\ IsInteger(savedText') <=> pc \in {"zero", "whole"}
      BY <1>1, <3>2, <3>6, NumberEnds
    <3>8. ASSUME NEW x \in Bytes, x = c \/ x \in {"lead", "cont"}
          PROVE  ~ \E to : <<pc, x, to>> \in NumberSteps
      <4>1. CASE x \notin Digits \cup {".", "e"}
        BY <1>1, <4>1 DEF NumberSteps, NumberNext
      <4>2. CASE x = c /\ pc \in {"fraction", "power"} /\ ~ InNumber
        BY <4>2 DEF NumberSteps, NumberNext, InNumber, NumberStates
      <4>3. x \in {"lead", "cont"} => x \notin Digits \cup {".", "e"}
        BY DEF Digits
      <4> QED
        BY <1>1, <3>8, <4>1, <4>2, <4>3
    <3>9. \A x \in Bytes : x = c \/ x \in {"lead", "cont"} => ~ BeginsLexeme(Append(savedText', x))
      BY <3>2, <3>6, <3>7, <3>8, NumberIsLongest
    <3>10. Len(input') > stream'.position => ~ BeginsLexeme(Between(from, stream.position + 1)')
      BY <2>1, <2>3, <2>4, <3>2, <3>9
    <3> QED
      BY <3>2, <3>7, <3>10
  <2>6. t \in {"integer", "real"} /\ (t = "integer" => pc \in {"zero", "whole"} /\ ~ intAsReal)
        /\ (t = "real" => intAsReal \/ pc \notin {"zero", "whole"})
    OBVIOUS
  <2> HIDE DEF t
  <2>7. TokensAreLexemes'
    BY <2>1, <2>5, <2>6 DEF TokensAreLexemes
  <2> QED
    BY <2>1, <2>4, <2>7 DEF TInv, Scanning
<1> QED
  BY <1>1, <1>2, <1>3 DEF ReturnNumber

-----------------------------------------------------------------------------
(* The steps of a string and the text                                      *)

\* Where the character that c belongs to begins in the text.
Start == IF c \in NoChar THEN Taken + 1 ELSE Taken + 2 - stream.pos

\* Behind the last byte of a character begins the next.
LEMMA StartsNext ==
  ASSUME IInv, Read, stream.pos = Len(stream.buffer), Taken' \in Nat
  PROVE  Start' = Taken' + 1
<1>1. stream.pos \in Nat /\ Len(stream.buffer) \in Nat
  BY DEF IInv, StreamOK, Streams
<1>2. c' \notin NoChar => stream'.pos = 1
  BY <1>1 DEF Read
<1> QED
  BY <1>2 DEF Start

\* The parts of the text stay when it grows.
LEMMA PartsStay ==
  ASSUME NEW s \in Seq(Bytes), NEW t, NEW e \in Nat, Parts(s, e), e <= Len(s) + 1,
         \A i \in 1 .. Len(s) : s[i] = t[i]
  PROVE  Parts(t, e)
<1>1. PICK B \in SUBSET (2 .. e) : Whole(s, B, e)
  BY DEF Parts
<1>2. \A i \in 1 .. e - 1 : i \in 1 .. Len(s)
  OBVIOUS
<1>3. Whole(t, B, e)
  BY <1>1, <1>2, WholeLocal
<1> QED
  BY <1>3 DEF Parts

LEMMA PartsGrow ==
  ASSUME NEW s, NEW e \in Nat, Parts(s, e), UnitOK(s, e), NEW d \in Nat, d = e + UnitLen(s, e)
  PROVE  Parts(s, d)
<1>1. PICK B \in SUBSET (2 .. e) : Whole(s, B, e)
  BY DEF Parts
<1>2. Whole(s, B \cup {d}, d)
  BY <1>1, WholeGrows
<1>3. B \cup {d} \in SUBSET (2 .. d)
  BY <1>2 DEF Whole
<1> QED
  BY <1>2, <1>3 DEF Parts

LEMMA PartsBegin ==
  ASSUME NEW s, NEW e, Parts(s, e), e \in Int
  PROVE  e >= 2
BY DEF Parts, Whole

LEMMA OpenStringTokens == IInv /\ TInv /\ OpenString => TInv'
<1> SUFFICES ASSUME IInv, TInv, OpenString PROVE TInv'
  OBVIOUS
<1>1. Scanning /\ pc = "quote" /\ GetAndSave /\ GetChar /\ pc' = "string" /\ UNCHANGED from
  BY DEF OpenString, GoesOn, Scanning, GetAndSave
<1>2. ASSUME lost' = 0 PROVE Shape'
  <2>1. /\ Shape /\ Taken' = Len(savedText)
        /\ \A i \in 1 .. Len(savedText) : savedText'[i] = savedText[i]
        /\ c \notin NoChar => Len(savedText) = Taken + 1 /\ Taken \in Nat /\ savedText[Taken + 1] = c
    BY <1>1, <1>2, SavesText
  <2>2. c = Quote /\ Taken = 0 /\ c \in Ascii /\ c \notin NoChar
    BY <1>1, <2>1 DEF Shape, Quote, Ascii, NoChar
  <2>3. Taken' = 1 /\ savedText'[1] = Quote
    BY <2>1, <2>2
  <2>4. stream.pos = Len(stream.buffer)
    <3>1. StreamOK /\ CharRead /\ BufferOK
      BY <1>1 DEF IInv, TInv
    <3> QED
      BY <2>2, <3>1, AsciiIsAlone
  <2>5. Read
    BY <1>1, ReadsStream
  <2>6. Start' = 2
    BY <2>3, <2>4, <2>5, StartsNext
  <2>7. Parts(savedText', 2)
    <3>1. Whole(savedText', {2}, 2) /\ {2} \in SUBSET (2 .. 2)
      BY DEF Whole
    <3> QED
      BY <3>1 DEF Parts
  <2>8. Parts(savedText, Start)'
    BY <2>6, <2>7
  <2> QED
    BY <1>1, <2>3, <2>8 DEF Shape, NumberStates, Start
<1> QED
  BY <1>1, <1>2, SavesTokens

\* The p bytes of b are a character that may stand in a string.
IsCharacter(b, p) ==
  /\ p = Len(b) /\ p > 0
  /\ p = Width(b[1])
  /\ p > 1 => WellFormed(b)
  /\ \A i \in 2 .. p : b[i] = "cont"
  /\ b[p] \notin {Quote, Backslash} \cup Controls

\* s has the p bytes of b behind i.
Holds(s, i, b, p) == \A k \in 1 .. p : s[i + k] = b[k]

\* The bytes of a character are a part of a string.
LEMMA CharacterIsUnit ==
  ASSUME NEW s, NEW b \in Seq(Bytes), NEW p \in Nat, IsCharacter(b, p), NEW e \in Nat, Holds(s, e - 1, b, p)
  PROVE  UnitOK(s, e) /\ UnitLen(s, e) = p
<1>0. /\ p = Len(b) /\ p > 0
      /\ p = Width(b[1])
      /\ p > 1 => WellFormed(b)
      /\ \A i \in 2 .. p : b[i] = "cont"
      /\ b[p] \notin {Quote, Backslash} \cup Controls
      /\ \A k \in 1 .. p : s[(e - 1) + k] = b[k]
  BY DEF IsCharacter, Holds
<1>1. b[1] \in Bytes /\ s[e] = b[1]
  <2>1. 1 \in 1 .. p /\ (e - 1) + 1 = e
    BY <1>0
  <2>2. s[(e - 1) + 1] = b[1]
    BY <1>0, <2>1
  <2>3. b[1] \in Bytes
    <3>1. 1 \in 1 .. Len(b)
      BY <1>0
    <3> QED
      BY <3>1
  <2> QED
    BY <2>1, <2>2, <2>3
<1>2. b[1] # "cont"
  BY <1>0 DEF Width
<1>3. CASE b[1] = "lead"
  <2>1. p = LeadWidth /\ LeadWidth \in 2 .. 4 /\ WellFormed(b)
    BY <1>0, <1>3, SizesAssumption DEF Width
  <2>2. CharacterAt(s, e) = b
    <3>1. b = [i \in 1 .. Len(b) |-> b[i]]
      OBVIOUS
    <3>2. \A i \in 1 .. LeadWidth : e + i - 1 = (e - 1) + i
      BY <2>1
    <3>3. \A i \in 1 .. LeadWidth : s[e + i - 1] = b[i]
      BY <1>0, <2>1, <3>2
    <3>4. CharacterAt(s, e) = [i \in 1 .. LeadWidth |-> b[i]]
      BY <3>3 DEF CharacterAt
    <3> QED
      BY <1>0, <2>1, <3>1, <3>4
  <2>3. ASSUME NEW i \in e + 1 .. e + LeadWidth - 1 PROVE s[i] = "cont"
    <3> DEFINE j == i - (e - 1)
    <3>1. j \in 2 .. p /\ (e - 1) + j = i
      BY <2>1
    <3> HIDE DEF j
    <3>2. j \in 1 .. p
      BY <3>1
    <3>3. s[(e - 1) + j] = b[j]
      BY <1>0, <3>2
    <3> QED
      BY <1>0, <3>1, <3>3
  <2> QED
    BY <1>1, <1>3, <2>1, <2>2, <2>3 DEF UnitOK, UnitLen
<1>4. CASE b[1] # "lead"
  <2>1. p = 1
    BY <1>0, <1>2, <1>4 DEF Width
  <2>2. b[1] \in Ascii \ (Controls \cup {Quote, Backslash}) /\ b[1] # Backslash /\ b[1] # "lead"
    BY <1>0, <1>1, <1>2, <1>4, <2>1 DEF Bytes
  <2> QED
    BY <1>1, <2>1, <2>2 DEF UnitOK, UnitLen
<1> QED
  BY <1>3, <1>4

\* The buffer holds the end of the text.
LEMMA BufferInText ==
  ASSUME NEW s, NEW f \in Nat, NEW t \in Seq(Bytes), NEW n \in Nat, Has(s, f, t, n),
         NEW b, NEW p \in Nat, Holds(s, n - p, b, p), NEW e \in Nat, e >= 2, e = Len(t) + 1 - p
  PROVE  Holds(t, e - 1, b, p)
<1> DEFINE l == Len(t)
<1>0. \A m \in 1 .. l : t[m] = s[f + m]
  BY DEF Has
<1>5. l \in Nat /\ f + l = n /\ e = l + 1 - p
  BY DEF Has
<1> HIDE DEF l
<1> SUFFICES ASSUME NEW k \in 1 .. p PROVE t[(e - 1) + k] = b[k]
  BY DEF Holds
<1> DEFINE m == (e - 1) + k
<1>1. k \in Nat /\ 1 <= k /\ k <= p
  OBVIOUS
<1>2. m \in 1 .. l /\ f + m = (n - p) + k
  <2>1. m \in Int /\ m >= 1
    BY <1>1, <1>5
  <2>2. m <= l
    BY <1>1, <1>5
  <2>3. f + m = (n - p) + k
    BY <1>1, <1>5
  <2> QED
    BY <1>5, <2>1, <2>2, <2>3
<1>3. s[(n - p) + k] = b[k]
  BY DEF Holds
<1> HIDE DEF m
<1>4. t[m] = b[k]
  BY <1>0, <1>2, <1>3
<1> QED
  BY <1>4 DEF m

\* What the buffer holds is a part of the string.
LEMMA BufferIsUnit ==
  ASSUME IInv, TInv, Scanning, pc = "string", c \notin {Quote, Backslash} \cup Controls \cup NoChar,
         stream.pos = Len(stream.buffer), TextIsInput,
         savedText \in Seq(Bytes), NEW e \in Nat, e = Len(savedText) + 1 - stream.pos, e >= 2
  PROVE  UnitOK(savedText, e) /\ UnitLen(savedText, e) = stream.pos
<1> DEFINE b == stream.buffer
           p == stream.pos
           n == stream.position
<1>1. /\ b \in Seq(Bytes) /\ p \in Nat /\ n \in Nat /\ p = Len(b) /\ from \in Nat
      /\ p > 0 /\ b[p] = c /\ \A i \in 2 .. Len(b) : b[i] = "cont"
  BY DEF IInv, CharRead, StreamOK, Streams, Control
<1>2. /\ Len(b) = Width(b[1])
      /\ Len(b) > 1 => WellFormed(b)
  BY <1>1, EmptySeq DEF TInv, BufferOK
<1>3. IsCharacter(b, p)
  BY <1>1, <1>2 DEF IsCharacter
<1>4. Holds(input, n - p, b, p)
  BY DEF TInv, BufferOK, Holds
<1>5. Has(input, from, savedText, n) /\ e = Len(savedText) + 1 - p /\ p = stream.pos
  BY DEF TextIsInput, TextTo
<1> HIDE DEF b, p, n
<1>6. Holds(savedText, e - 1, b, p)
  BY <1>1, <1>4, <1>5, BufferInText
<1>7. UnitOK(savedText, e) /\ UnitLen(savedText, e) = p
  BY <1>1, <1>3, <1>6, CharacterIsUnit
<1> QED
  BY <1>5, <1>7

LEMMA StringGoesOnTokens == IInv /\ TInv /\ StringGoesOn => TInv'
<1> SUFFICES ASSUME IInv, TInv, StringGoesOn PROVE TInv'
  OBVIOUS
<1>1. /\ Scanning /\ pc = "string" /\ GetAndSave /\ GetChar /\ UNCHANGED from
      /\ pc' = IF c = Backslash THEN "escape" ELSE "string"
      /\ c \notin {Quote} \cup Controls \cup NoChar
  BY DEF StringGoesOn, GoesOn, Scanning, GetAndSave
<1>2. ASSUME lost' = 0 PROVE Shape'
  <2>1. /\ Shape /\ lost = 0 /\ Taken' = Len(savedText) /\ savedText \in Seq(Bytes)
        /\ \A i \in 1 .. Len(savedText) : savedText'[i] = savedText[i]
        /\ Len(savedText) = Taken + 1 /\ Taken \in Nat /\ savedText[Taken + 1] = c
    BY <1>1, <1>2, SavesText
  <2>2. savedText[1] = Quote /\ Taken > 0 /\ Parts(savedText, Taken + 2 - stream.pos)
    BY <1>1, <2>1 DEF Shape
  <2>3. TextIsInput
    BY <1>1, <2>1 DEF TInv
  <2>4. Read
    BY <1>1, ReadsStream
  <2>5. /\ StreamOK /\ CharRead /\ BufferOK
        /\ stream.pos \in Nat /\ stream.pos > 0 /\ stream.pos <= Len(stream.buffer) /\ Len(stream.buffer) \in Nat
    BY <1>1 DEF IInv, TInv, CharRead, StreamOK, Streams
  <2> DEFINE e == Taken + 2 - stream.pos
  <2>6. e \in Nat /\ e >= 2 /\ Parts(savedText, e) /\ e <= Len(savedText)
    <3>1. e \in Int
      BY <2>1, <2>5
    <3>2. e >= 2
      BY <2>2, <3>1, PartsBegin
    <3> QED
      BY <2>1, <2>2, <2>5, <3>1, <3>2
  <2>10. e = Len(savedText) + 1 - stream.pos
    BY <2>1, <2>5
  <2>7. savedText'[1] = Quote /\ Taken' = Taken + 1 /\ Taken' > 0 /\ savedText'[Taken'] = c
    BY <2>1, <2>2
  <2>8. CASE c = Backslash
    <3>1. stream.pos = 1
      BY <2>5, <2>8, AsciiIsAlone DEF Ascii
    <3>2. e = Taken + 1
      BY <2>1, <3>1
    <3>3. Parts(savedText', e)
      BY <2>1, <2>6, PartsStay
    <3>4. Parts(savedText', Taken')
      BY <2>7, <3>2, <3>3
    <3> QED
      BY <1>1, <2>7, <2>8, <3>4 DEF Shape, NumberStates
  <2>9. CASE c # Backslash
    <3>1. Parts(savedText, Start)'
      <4>1. CASE stream.pos < Len(stream.buffer)
        <5>1. c' \notin NoChar /\ stream'.pos = stream.pos + 1
          BY <2>4, <2>5, <4>1 DEF Read
        <5>2. Start' = e
          BY <2>1, <2>5, <2>7, <5>1 DEF Start
        <5>3. Parts(savedText', e)
          BY <2>1, <2>6, PartsStay
        <5> QED
          BY <5>2, <5>3
      <4>2. CASE stream.pos = Len(stream.buffer)
        <5>1. Start' = Taken + 2
          BY <2>1, <2>4, <2>7, <4>2, StartsNext
        <5> DEFINE d == Taken + 2
        <5>2. UnitOK(savedText, e) /\ UnitLen(savedText, e) = stream.pos
          BY <1>1, <2>1, <2>3, <2>6, <2>9, <2>10, <4>2, BufferIsUnit
        <5>3. d \in Nat /\ d = e + stream.pos /\ d <= Len(savedText) + 1
          BY <2>1, <2>5
        <5> HIDE DEF d, e
        <5>4. Parts(savedText, d)
          BY <2>6, <5>2, <5>3, PartsGrow
        <5>5. Parts(savedText', d)
          BY <2>1, <5>3, <5>4, PartsStay
        <5> QED
          BY <5>1, <5>5 DEF d
      <4> QED
        BY <2>5, <4>1, <4>2
    <3> QED
      BY <1>1, <2>7, <2>9, <3>1 DEF Shape, NumberStates, Start
  <2> QED
    BY <2>8, <2>9
<1> QED
  BY <1>1, <1>2, SavesTokens

LEMMA StringBrokenTokens == IInv /\ TInv /\ StringBroken => TInv'
<1> SUFFICES ASSUME IInv, TInv, StringBroken PROVE TInv'
  OBVIOUS
<1>1. Scanning /\ stream' = PutBack /\ \E code : Return("invalid", << >>, code)
  BY DEF StringBroken, Scanning, Invalid
<1> QED
  BY <1>1, ReturnsNone

LEMMA EscapeTokens == IInv /\ TInv /\ Escape => TInv'
<1> SUFFICES ASSUME IInv, TInv, Escape PROVE TInv'
  OBVIOUS
<1>1. Scanning /\ pc = "escape"
  BY DEF Escape, Scanning
<1>2. CASE c \notin {"u"} \cup SimpleEscapes
  BY <1>1, <1>2, ReturnsNone DEF Escape, Invalid
<1>3. CASE c \in {"u"} \cup SimpleEscapes
  <2>1. /\ GetAndSave /\ GetChar /\ UNCHANGED from
        /\ pc' = IF c = "u" THEN "digits" ELSE "string"
        /\ c = "u" => due' = EscapeDigits
    BY <1>3 DEF Escape, GetAndSave
  <2>2. c \in Ascii /\ c \notin NoChar
    BY <1>3 DEF SimpleEscapes, Ascii, Letters, NoChar, Quote, Backslash
  <2>3. ASSUME lost' = 0 PROVE Shape'
    <3>1. /\ Shape /\ Taken' = Len(savedText) /\ savedText \in Seq(Bytes)
          /\ \A i \in 1 .. Len(savedText) : savedText'[i] = savedText[i]
          /\ Len(savedText) = Taken + 1 /\ Taken \in Nat /\ savedText[Taken + 1] = c
      BY <1>1, <2>1, <2>2, <2>3, SavesText
    <3>2. /\ savedText[1] = Quote /\ Taken > 0
          /\ savedText[Taken] = Backslash /\ Parts(savedText, Taken)
      BY <1>1, <3>1 DEF Shape
    <3>3. /\ Taken' = Taken + 1 /\ Taken' > 0
          /\ savedText'[1] = Quote /\ savedText'[Taken] = Backslash /\ savedText'[Taken + 1] = c
      BY <3>1, <3>2
    <3>4. CASE c = "u"
      <4>1. Parts(savedText', Taken)
        <5>1. Taken <= Len(savedText) + 1
          BY <3>1
        <5> QED
          BY <3>1, <3>2, <5>1, PartsStay
      <4>2. EscapeDigits \in Nat
        BY EscapeAssumption
      <4>3. Taken' - 1 - (EscapeDigits - due') = Taken
        BY <2>1, <3>1, <3>3, <3>4, <4>2
      <4>4. \A i \in Taken + 2 .. Taken' : savedText'[i] \in HexDigits
        BY <3>1, <3>3
      <4> QED
        BY <2>1, <3>3, <3>4, <4>1, <4>3, <4>4 DEF Shape, NumberStates
    <3>5. CASE c # "u"
      <4>1. UnitOK(savedText, Taken) /\ UnitLen(savedText, Taken) = 2
        BY <1>3, <3>1, <3>2, <3>5 DEF UnitOK, UnitLen, Backslash
      <4> DEFINE d == Taken + 2
      <4>2. d \in Nat /\ d = Taken + 2 /\ d <= Len(savedText) + 1
        BY <3>1
      <4> HIDE DEF d
      <4>3. Parts(savedText, d)
        BY <3>1, <3>2, <4>1, <4>2, PartsGrow
      <4>4. Parts(savedText', d)
        BY <3>1, <4>2, <4>3, PartsStay
      <4>5. Start' = d
        <5>1. StreamOK /\ CharRead /\ BufferOK
          BY <1>1 DEF IInv, TInv
        <5>2. stream.pos = Len(stream.buffer)
          BY <2>2, <5>1, AsciiIsAlone
        <5>3. Read
          BY <2>1, ReadsStream
        <5>4. Start' = Taken' + 1
          BY <3>1, <5>2, <5>3, StartsNext
        <5> QED
          BY <3>1, <3>3, <4>2, <5>4
      <4>6. Parts(savedText, Start)'
        BY <4>4, <4>5
      <4> QED
        BY <2>1, <3>3, <3>5, <4>6 DEF Shape, NumberStates, Start
    <3> QED
      BY <3>4, <3>5
  <2> QED
    BY <1>1, <2>1, <2>3, SavesTokens
<1> QED
  BY <1>2, <1>3

LEMMA EscapeDigitTokens == IInv /\ TInv /\ EscapeDigit => TInv'
<1> SUFFICES ASSUME IInv, TInv, EscapeDigit PROVE TInv'
  OBVIOUS
<1>1. Scanning /\ pc = "digits"
  BY DEF EscapeDigit, Scanning
<1>2. CASE c \notin HexDigits
  BY <1>1, <1>2, ReturnsNone DEF EscapeDigit, Invalid
<1>3. CASE c \in HexDigits
  <2>1. /\ GetAndSave /\ GetChar /\ UNCHANGED from
        /\ pc' = IF due = 1 THEN "string" ELSE "digits"
        /\ due' = due - 1
    BY <1>3 DEF EscapeDigit, GetAndSave
  <2>2. c \in Ascii /\ c \notin NoChar
    BY <1>3 DEF HexDigits, Digits, Ascii, Letters, NoChar
  <2>3. ASSUME lost' = 0 PROVE Shape'
    <3>1. /\ Shape /\ Taken' = Len(savedText) /\ savedText \in Seq(Bytes)
          /\ \A i \in 1 .. Len(savedText) : savedText'[i] = savedText[i]
          /\ Len(savedText) = Taken + 1 /\ Taken \in Nat /\ savedText[Taken + 1] = c
      BY <1>1, <2>1, <2>2, <2>3, SavesText
    <3> DEFINE b == Taken - 1 - (EscapeDigits - due)
    <3>2. /\ savedText[1] = Quote /\ Taken > 0
          /\ savedText[b] = Backslash /\ savedText[b + 1] = "u"
          /\ \A i \in b + 2 .. Taken : savedText[i] \in HexDigits
          /\ Parts(savedText, b)
      BY <1>1, <3>1 DEF Shape
    <3>3. EscapeDigits \in Nat /\ due \in Nat /\ due <= EscapeDigits /\ due > 0
      BY <1>1, EscapeAssumption DEF IInv, Control
    <3>4. b \in Int /\ b + 1 <= Taken + due - EscapeDigits
      BY <3>1, <3>3
    <3>5. b >= 2
      BY <3>2, <3>4, PartsBegin
    <3>6. b \in Nat /\ b + 1 <= Taken /\ b = Taken' - 1 - (EscapeDigits - due')
      BY <2>1, <3>1, <3>3, <3>4, <3>5
    <3>7. due = 1 => b + EscapeDigits + 1 = Taken + 1
      BY <3>1, <3>3
    <3> HIDE DEF b
    <3>8. \A i \in b + 2 .. Taken + 1 : savedText[i] \in HexDigits
      <4>1. \A i \in b + 2 .. Taken + 1 : i \in b + 2 .. Taken \/ i = Taken + 1
        BY <3>1, <3>6
      <4> QED
        BY <1>3, <3>1, <3>2, <4>1
    <3>9. /\ Taken' = Taken + 1 /\ Taken' > 0 /\ savedText'[1] = Quote
      BY <3>1, <3>2
    <3>10. CASE due # 1
      <4>1. Parts(savedText', b)
        <5>1. b <= Len(savedText) + 1
          BY <3>1, <3>6
        <5> QED
          BY <3>1, <3>2, <3>6, <5>1, PartsStay
      <4>2. savedText'[b] = Backslash /\ savedText'[b + 1] = "u"
        <5>1. b \in 1 .. Len(savedText) /\ b + 1 \in 1 .. Len(savedText)
          BY <3>1, <3>5, <3>6
        <5> QED
          BY <3>1, <3>2, <5>1
      <4>3. \A i \in b + 2 .. Taken' : savedText'[i] \in HexDigits
        <5>1. \A i \in b + 2 .. Taken' : i \in b + 2 .. Taken + 1 /\ i \in 1 .. Len(savedText)
          BY <3>1, <3>6, <3>9
        <5> QED
          BY <3>1, <3>8, <5>1
      <4> QED
        BY <2>1, <3>6, <3>9, <3>10, <4>1, <4>2, <4>3 DEF Shape, NumberStates
    <3>11. CASE due = 1
      <4>1. \A i \in b + 2 .. b + EscapeDigits + 1 : savedText[i] \in HexDigits
        BY <3>7, <3>8, <3>11
      <4>2. UnitOK(savedText, b) /\ UnitLen(savedText, b) = EscapeDigits + 2
        BY <3>2, <4>1 DEF UnitOK, UnitLen, Backslash
      <4> DEFINE d == Taken + 2
      <4>3. d \in Nat /\ d = b + (EscapeDigits + 2) /\ d <= Len(savedText) + 1
        BY <3>1, <3>3, <3>6, <3>7, <3>11
      <4>4. d = Taken' + 1
        BY <3>1, <3>9
      <4> HIDE DEF d
      <4>5. Parts(savedText, d)
        BY <3>2, <3>6, <4>2, <4>3, PartsGrow
      <4>6. Parts(savedText', d)
        BY <3>1, <4>3, <4>5, PartsStay
      <4>7. Start' = d
        <5>1. StreamOK /\ CharRead /\ BufferOK
          BY <1>1 DEF IInv, TInv
        <5>2. stream.pos = Len(stream.buffer)
          BY <2>2, <5>1, AsciiIsAlone
        <5>3. Read
          BY <2>1, ReadsStream
        <5> QED
          BY <3>1, <4>4, <5>2, <5>3, StartsNext
      <4>8. Parts(savedText, Start)'
        BY <4>6, <4>7
      <4> QED
        BY <2>1, <3>9, <3>11, <4>8 DEF Shape, NumberStates, Start
    <3> QED
      BY <3>10, <3>11
  <2> QED
    BY <1>1, <2>1, <2>3, SavesTokens
<1> QED
  BY <1>2, <1>3

LEMMA CloseStringTokens == IInv /\ TInv /\ CloseString => TInv'
<1> SUFFICES ASSUME IInv, TInv, CloseString PROVE TInv'
  OBVIOUS
<1> DEFINE decoded == Decoded(savedText)
<1>1. Scanning /\ pc = "string" /\ c = Quote /\ UNCHANGED <<stream, savedText, lost>>
  BY DEF CloseString, Scanning, text
<1>2. \/ \E code : Return("invalid", << >>, code)
      \/ decoded # BadEscape /\ decoded = Unreachable /\ Return("panic", << >>, "none")
      \/ decoded \notin Broken /\ Return("string", decoded, "none")
  <2>1. BadEscape # Unreachable
    BY DEF BadEscape, Unreachable
  <2> QED
    BY <2>1 DEF CloseString, Invalid, Broken
<1> HIDE DEF decoded
<1>3. CASE \E code : Return("invalid", << >>, code)
  BY <1>1, <1>3, ReturnsNone
<1>4. CASE /\ \/ decoded # BadEscape /\ decoded = Unreachable /\ Return("panic", << >>, "none")
              \/ decoded \notin Broken /\ Return("string", decoded, "none")
  <2>1. /\ pc' = "returned" /\ token' \in {"string", "panic"} /\ UNCHANGED <<input, c, from>>
        /\ token' = "string" => value' = decoded
        /\ token' = "panic" => decoded = Unreachable
        /\ decoded # BadEscape
    BY <1>4 DEF Return, Broken
  <2>2. BufferOK' /\ StateOK'
    BY <1>1, <2>1 DEF TInv, BufferOK, StateOK
  <2>3. ASSUME lost' = 0
        PROVE  decoded \in StringValues(savedText) /\ decoded # Unreachable
               /\ Between(from, stream.position)' = savedText'
    <3>1. TextIsInput /\ Shape
      BY <1>1, <2>3 DEF TInv
    <3>2. /\ savedText \in Seq(Bytes) /\ Len(savedText) \in Nat /\ from \in Nat /\ input \in Seq(Bytes)
          /\ stream.position \in Nat /\ stream.position <= Len(input) /\ stream.position > 0
          /\ input[stream.position] = c /\ StreamOK /\ CharRead /\ BufferOK /\ c \in Ascii /\ c \notin NoChar
      BY <1>1 DEF IInv, TInv, TextOK, Scanning, Control, StreamOK, Streams, CharRead, Ascii, Quote, NoChar
    <3>3. TextTo(stream.position) /\ from <= Before
      BY <1>1, <3>1 DEF TextIsInput
    <3>4. from + Len(savedText) = stream.position /\ \A i \in 1 .. Len(savedText) : savedText[i] = input[from + i]
      BY <3>3 DEF TextTo, Has
    <3>5. Len(savedText) = Taken + 1 /\ Taken \in Nat /\ savedText[Taken + 1] = c
      BY <3>2, <3>3, <3>4, LastOfText
    <3>6. stream.pos = 1
      BY <3>2, AsciiIsAlone
    <3>7. savedText[1] = Quote /\ Taken > 0 /\ Parts(savedText, Taken + 2 - stream.pos)
      BY <1>1, <3>1, <3>2 DEF Shape
    <3>8. Taken + 2 - stream.pos = Len(savedText)
      BY <3>5, <3>6
    <3>9. Parts(savedText, Len(savedText))
      BY <3>7, <3>8
    <3>10. PICK B \in SUBSET (2 .. Len(savedText)) : Whole(savedText, B, Len(savedText))
      BY <3>9 DEF Parts
    <3>11. Len(savedText) >= 2 /\ savedText[Len(savedText)] = Quote
      BY <1>1, <3>5, <3>7
    <3>12. decoded = BadEscape \/ (decoded \in Values /\ decoded \in StringValues(savedText))
      BY <3>2, <3>7, <3>10, <3>11, WholeIsRead DEF decoded
    <3>13. decoded # Unreachable
      BY <2>1, <3>12, BrokenAreNoValues DEF Broken
    <3>14. TextTo(stream.position)'
      BY <1>1, <2>1, <3>3 DEF TextTo
    <3>15. input' \in Seq(Bytes) /\ from' \in Nat /\ savedText' \in Seq(Bytes)
           /\ stream'.position \in Nat /\ stream'.position <= Len(input')
      BY <1>1, <2>1, <3>2
    <3>16. Between(from, stream.position)' = savedText'
      BY <3>14, <3>15, TokenAndNext
    <3> QED
      BY <2>1, <3>12, <3>13, <3>16
  <2>4. TokensAreLexemes'
    BY <1>1, <2>1, <2>3 DEF TokensAreLexemes
  <2> QED
    BY <2>1, <2>2, <2>4 DEF TInv, Scanning
<1> QED
  BY <1>2, <1>3, <1>4

-----------------------------------------------------------------------------
LEMMA InitTokens == Init => TInv
<1> SUFFICES ASSUME Init PROVE TInv
  OBVIOUS
<1>1. BufferOK /\ StateOK
  BY DEF Init, BufferOK, StateOK
<1> QED
  BY <1>1 DEF Init, TInv, Scanning, TokensAreLexemes

LEMMA TokensStep == IInv /\ TInv /\ [Next]_vars => TInv'
BY ScanTokens, NoTokenTokens, StructuralTokens, BeginTokens, UnknownTokens, WordTokens,
   OpenStringTokens, StringGoesOnTokens, StringBrokenTokens, EscapeTokens, EscapeDigitTokens,
   CloseStringTokens, StealStringTokens, CloseTokens, NumberGoesOnTokens, PointTokens,
   AfterPointTokens, NumberBrokenTokens, NumberEndsTokens, StutterTokens DEF Next

\* What scan returns as a token is the longest lexeme at its place, with its value.
THEOREM TokensLexemes == Spec => []TokensAreLexemes
<1>1. TInv => TokensAreLexemes
  BY DEF TInv
<1> QED
  BY InitTokens, TokensStep, <1>1, Inductive, PTL DEF Spec

-----------------------------------------------------------------------------
(* What the grammar reads of a text                                        *)

\* Nothing that s has from b on differs from t.
Fits(s, b, t) == \A m \in 1 .. Len(t) : b + m - 1 <= Len(s) => t[m] = s[b + m - 1]

\* The bytes of a piece.
LEMMA PieceIs ==
  ASSUME NEW p \in Pieces
  PROVE  \/ \E a \in CharacterTexts : p = CharacterPiece(a) /\ p.text = a
         \/ \E x \in SimpleEscapes : p.text = <<Backslash, x>> /\ p = EscapePiece(x, IF x = "n" THEN "newline" ELSE x)
         \/ \E u \in Units : u \notin Leading \cup Trailing /\ p = UnitPiece(u) /\ p.text = UnitText(u)
         \/ \E u \in Leading, v \in Trailing : p = PairPiece(u, v) /\ p.text = UnitText(u) \o UnitText(v)
<1>1. CASE \E s \in CharacterTexts : p = CharacterPiece(s)
  <2>1. PICK a \in CharacterTexts : p = CharacterPiece(a)
    BY <1>1
  <2>2. p.text = a
    BY <2>1, Zenon DEF CharacterPiece
  <2> QED
    BY <2>1, <2>2
<1>2. CASE (\E b \in {Quote, Backslash, "/"} : p = EscapePiece(b, b)) \/ p = EscapePiece("n", "newline")
  <2>1. PICK x \in SimpleEscapes : p = EscapePiece(x, IF x = "n" THEN "newline" ELSE x)
    BY <1>2 DEF SimpleEscapes, Quote, Backslash
  <2>2. p.text = <<Backslash, x>>
    BY <2>1, Zenon DEF EscapePiece
  <2> QED
    BY <2>1, <2>2
<1>3. CASE \E u \in Units \ (Leading \cup Trailing) : p = UnitPiece(u)
  <2>1. PICK u \in Units \ (Leading \cup Trailing) : p = UnitPiece(u)
    BY <1>3
  <2>2. p.text = UnitText(u)
    BY <2>1, Zenon DEF UnitPiece
  <2> QED
    BY <2>1, <2>2
<1>4. CASE \E u \in Leading, v \in Trailing : p = PairPiece(u, v)
  <2>1. PICK u \in Leading, v \in Trailing : p = PairPiece(u, v)
    BY <1>4, Zenon
  <2>2. p.text = UnitText(u) \o UnitText(v)
    BY <2>1, Zenon DEF PairPiece
  <2> QED
    BY <2>1, <2>2
<1> QED
  BY <1>1, <1>2, <1>3, <1>4, PiecesAre

LEMMA CharacterTextIs ==
  ASSUME NEW a \in CharacterTexts
  PROVE  \/ Len(a) = 1 /\ a[1] \in Ascii \ (Controls \cup {Quote, Backslash}) /\ a[1] # "lead" /\ a[1] # Backslash
         \/ Len(a) = LeadWidth /\ a[1] = "lead" /\ WellFormed(a)
<1>1. CASE a \in {<<x>> : x \in Ascii \ (Controls \cup {Quote, Backslash})}
  <2>1. PICK x \in Ascii \ (Controls \cup {Quote, Backslash}) : a = <<x>>
    BY <1>1
  <2>2. Len(a) = 1 /\ a[1] = x
    BY <2>1
  <2>3. x # "lead"
    BY DEF Ascii, Blanks, Digits, Letters, Signs, Controls, Quote, Backslash
  <2> QED
    BY <2>2, <2>3
<1>2. CASE a \in [1 .. LeadWidth -> Bytes] /\ a[1] = "lead" /\ WellFormed(a)
  <2>1. LeadWidth \in Nat
    BY SizesAssumption
  <2>2. Len(a) = LeadWidth
    BY <1>2, <2>1
  <2> QED
    BY <1>2, <2>2
<1> QED
  BY <1>1, <1>2 DEF CharacterTexts

LEMMA UnitTextIs ==
  ASSUME NEW u \in Units
  PROVE  /\ UnitText(u) \in Seq(Bytes) /\ Len(UnitText(u)) = EscapeDigits + 2
         /\ UnitText(u)[1] = Backslash /\ UnitText(u)[2] = "u"
         /\ \A m \in 1 .. EscapeDigits : UnitText(u)[m + 2] = u[m]
<1> DEFINE h == <<Backslash, "u">>
<1>1. h \in Seq(Bytes) /\ Len(h) = 2 /\ h[1] = Backslash /\ h[2] = "u"
  BY UnitsAreTexts
<1>2. u \in Seq(Bytes) /\ Len(u) = EscapeDigits /\ EscapeDigits \in Nat \ {0}
  BY UnitsAreTexts
<1>3. UnitText(u) = h \o u
  BY DEF UnitText
<1> HIDE DEF h
<1>4. /\ h \o u \in Seq(Bytes) /\ Len(h \o u) = Len(h) + Len(u)
      /\ \A m \in 1 .. Len(h) + Len(u) : (h \o u)[m] = IF m <= Len(h) THEN h[m] ELSE u[m - Len(h)]
  BY <1>1, <1>2, ConcatProperties
<1>5. \A m \in 1 .. EscapeDigits : m + 2 \in 1 .. Len(h) + Len(u) /\ ~ (m + 2 <= Len(h)) /\ (m + 2) - Len(h) = m
  BY <1>1, <1>2
<1>6. 1 \in 1 .. Len(h) + Len(u) /\ 2 \in 1 .. Len(h) + Len(u) /\ 1 <= Len(h) /\ 2 <= Len(h)
  BY <1>1, <1>2
<1> QED
  BY <1>1, <1>2, <1>3, <1>4, <1>5, <1>6

\* t is the text of u and then that of v.
IsPairText(t, u, v) ==
  /\ t \in Seq(Bytes) /\ Len(t) = (EscapeDigits + 2) + (EscapeDigits + 2)
  /\ \A m \in 1 .. EscapeDigits + 2 : t[m] = UnitText(u)[m] /\ t[(EscapeDigits + 2) + m] = UnitText(v)[m]

LEMMA PairTextIs ==
  ASSUME NEW u \in Units, NEW v \in Units
  PROVE  IsPairText(UnitText(u) \o UnitText(v), u, v)
<1> DEFINE a == UnitText(u)
           b == UnitText(v)
           w == EscapeDigits + 2
<1>1. a \in Seq(Bytes) /\ Len(a) = w /\ b \in Seq(Bytes) /\ Len(b) = w /\ w \in Nat
  BY UnitTextIs, UnitsAreTexts
<1> HIDE DEF a, b, w
<1>2. /\ a \o b \in Seq(Bytes) /\ Len(a \o b) = w + w
      /\ \A m \in 1 .. w + w : (a \o b)[m] = IF m <= w THEN a[m] ELSE b[m - w]
  <2>1. /\ a \o b \in Seq(Bytes) /\ Len(a \o b) = Len(a) + Len(b)
        /\ \A m \in 1 .. Len(a) + Len(b) : (a \o b)[m] = IF m <= Len(a) THEN a[m] ELSE b[m - Len(a)]
    <3>1. a \in Seq(Bytes) /\ b \in Seq(Bytes)
      BY <1>1
    <3> QED
      BY <3>1, ConcatProperties, Zenon
  <2> QED
    BY <1>1, <2>1
<1>3. ASSUME NEW m \in 1 .. w PROVE (a \o b)[m] = a[m] /\ (a \o b)[w + m] = b[m]
  <2>1. m \in 1 .. w + w /\ m <= w /\ w + m \in 1 .. w + w /\ ~ (w + m <= w) /\ (w + m) - w = m
    BY <1>1
  <2> QED
    BY <1>2, <2>1
<1> QED
  BY <1>2, <1>3 DEF a, b, w, IsPairText

\* A text that fits from b on, and the bytes of s there.
LEMMA FitsAt ==
  ASSUME NEW s, NEW b \in Nat, NEW t, Fits(s, b, t), NEW m \in 1 .. Len(t), b + m - 1 <= Len(s)
  PROVE  t[m] = s[b + m - 1]
BY DEF Fits

\* Where a piece fits, the part that is there is the piece, or its first half; then
\* the second half begins where the next part does.
LEMMA LandsOnPart ==
  ASSUME NEW s \in Seq(Bytes), NEW B, NEW e \in Nat, Whole(s, B, e), e <= Len(s) + 1,
         NEW b \in B, b < e, NEW p \in Pieces, Fits(s, b, p.text)
  PROVE  \/ b + Len(p.text) \in B
         \/ e + EscapeDigits + 2 = b + Len(p.text) /\ \E v \in Units : Fits(s, e, UnitText(v))
<1> DEFINE E == EscapeDigits
           w == UnitLen(s, b)
<1>1. /\ B \subseteq 2 .. e /\ UnitOK(s, b) /\ b + w \in B
      /\ \A x \in B : x < e => UnitOK(s, x) /\ x + UnitLen(s, x) \in B
  BY DEF Whole
<1>2. w \in Nat \ {0} /\ (s[b] = Backslash => w > 1) /\ E \in Nat \ {0} /\ Len(s) \in Nat
  BY UnitLenIs, EscapeAssumption
<1>3. b \in Nat /\ b >= 2 /\ b <= Len(s) /\ b + w <= e /\ (s[b] = Backslash => b + 1 <= Len(s))
  BY <1>1, <1>2
<1> HIDE DEF w
<1>4. ASSUME NEW t, Fits(s, b, t), Len(t) >= 2, Len(t) \in Nat, t[1] = Backslash PROVE s[b] = Backslash /\ s[b + 1] = t[2]
  <2>1. 1 \in 1 .. Len(t) /\ 2 \in 1 .. Len(t) /\ b + 1 - 1 = b /\ b + 2 - 1 = b + 1
    BY <1>3, <1>4
  <2>2. s[b] = Backslash
    BY <1>3, <1>4, <2>1, FitsAt
  <2>3. b + 2 - 1 <= Len(s)
    BY <1>3, <2>2
  <2>4. t[2] = s[b + 2 - 1]
    BY <1>3, <1>4, <2>1, <2>3, FitsAt
  <2> QED
    BY <2>1, <2>2, <2>4
<1>5. CASE \E a \in CharacterTexts : p = CharacterPiece(a) /\ p.text = a
  <2>1. PICK a \in CharacterTexts : p.text = a
    BY <1>5
  <2>2. Len(a) \in Nat /\ Len(a) > 0
    BY <2>1, PiecesAreTexts
  <2>3. a[1] = s[b]
    <3>1. 1 \in 1 .. Len(a) /\ b + 1 - 1 = b
      BY <1>3, <2>2
    <3>2. Fits(s, b, a)
      BY <2>1
    <3>4. \A m \in 1 .. Len(a) : b + m - 1 <= Len(s) => a[m] = s[b + m - 1]
      BY <3>2 DEF Fits
    <3>3. a[1] = s[b + 1 - 1]
      BY <1>3, <3>1, <3>4
    <3> QED
      BY <3>1, <3>3
  <2>4. w = Len(a)
    BY <2>3, CharacterTextIs DEF w, UnitLen, Ascii, Blanks, Digits, Letters, Signs, Controls, Quote, Backslash
  <2> QED
    BY <1>1, <2>1, <2>4
<1>6. CASE \E x \in SimpleEscapes : p.text = <<Backslash, x>>
  <2>1. PICK x \in SimpleEscapes : p.text = <<Backslash, x>>
    BY <1>6
  <2>2. Len(p.text) = 2 /\ p.text[1] = Backslash /\ p.text[2] = x
    BY <2>1
  <2>3. s[b] = Backslash /\ s[b + 1] = x
    BY <1>4, <2>2
  <2>4. w = 2
    BY <2>3 DEF w, UnitLen, Backslash, SimpleEscapes, Quote
  <2> QED
    BY <1>1, <2>2, <2>4
<1>7. CASE \E u \in Units : p.text = UnitText(u)
  <2>1. PICK u \in Units : p.text = UnitText(u)
    BY <1>7
  <2>2. Len(p.text) = E + 2 /\ p.text[1] = Backslash /\ p.text[2] = "u"
    BY <2>1, UnitTextIs
  <2>3. s[b] = Backslash /\ s[b + 1] = "u"
    BY <1>2, <1>4, <2>2
  <2>4. w = E + 2
    BY <2>3 DEF w, UnitLen, Backslash
  <2> QED
    BY <1>1, <2>2, <2>4
<1>8. CASE \E u \in Leading, v \in Trailing : p.text = UnitText(u) \o UnitText(v)
  <2>1. PICK u \in Units, v \in Units : p.text = UnitText(u) \o UnitText(v)
    BY <1>8, UnitsAreTexts
  <2>2. /\ Len(p.text) = (E + 2) + (E + 2)
        /\ \A m \in 1 .. E + 2 : p.text[m] = UnitText(u)[m] /\ p.text[(E + 2) + m] = UnitText(v)[m]
    <3>1. IsPairText(p.text, u, v)
      BY <2>1, PairTextIs
    <3> QED
      BY <3>1 DEF IsPairText
  <2>3. /\ UnitText(u)[1] = Backslash /\ UnitText(u)[2] = "u"
        /\ UnitText(v)[1] = Backslash /\ UnitText(v)[2] = "u" /\ Len(UnitText(v)) = E + 2
    BY UnitTextIs
  <2>4. 1 \in 1 .. E + 2 /\ 2 \in 1 .. E + 2
    BY <1>2
  <2>5. s[b] = Backslash /\ s[b + 1] = "u"
    <3>1. p.text[1] = Backslash /\ p.text[2] = "u" /\ Len(p.text) >= 2 /\ Len(p.text) \in Nat
      BY <1>2, <2>2, <2>3, <2>4
    <3> QED
      BY <1>4, <3>1
  <2>6. w = E + 2
    BY <2>5 DEF w, UnitLen, Backslash
  <2> DEFINE d == b + w
  <2>7. d \in Nat /\ d \in B /\ d <= e /\ d = b + (E + 2) /\ d + (E + 2) = b + Len(p.text)
    BY <1>1, <1>2, <1>3, <2>2, <2>6
  <2> HIDE DEF d
  <2>8. Fits(s, d, UnitText(v))
    <3> SUFFICES ASSUME NEW m \in 1 .. E + 2, d + m - 1 <= Len(s) PROVE UnitText(v)[m] = s[d + m - 1]
      BY <2>3 DEF Fits
    <3> DEFINE k == (E + 2) + m
    <3>1. k \in 1 .. Len(p.text) /\ b + k - 1 = d + m - 1
      BY <1>2, <1>3, <2>2, <2>7
    <3>2. p.text[k] = UnitText(v)[m]
      BY <2>2
    <3> HIDE DEF k
    <3>3. p.text[k] = s[b + k - 1]
      <4>1. b + k - 1 <= Len(s)
        BY <3>1
      <4> QED
        BY <1>3, <3>1, <4>1, FitsAt
    <3> QED
      BY <3>1, <3>2, <3>3
  <2>9. CASE d = e
    <3>1. e + E + 2 = b + Len(p.text)
      BY <1>2, <2>7, <2>9
    <3>2. Fits(s, e, UnitText(v))
      BY <2>8, <2>9
    <3> QED
      BY <3>1, <3>2
  <2>10. CASE d < e
    <3>1. UnitOK(s, d) /\ d + UnitLen(s, d) \in B
      BY <1>1, <2>7, <2>10
    <3>2. d <= Len(s)
      BY <1>2, <2>7, <2>10
    <3>3. s[d] = Backslash
      <4>1. 1 \in 1 .. Len(UnitText(v)) /\ d + 1 - 1 = d
        BY <2>3, <2>4, <2>7
      <4>2. UnitText(v)[1] = s[d + 1 - 1]
        BY <2>7, <2>8, <3>2, <4>1, FitsAt
      <4> QED
        BY <2>3, <4>1, <4>2
    <3>4. d + 1 <= Len(s)
      <4>1. UnitLen(s, d) \in Nat /\ UnitLen(s, d) > 1
        BY <3>3, UnitLenIs
      <4> DEFINE l == UnitLen(s, d)
                 f == d + l
      <4>0. f \in B
        BY <3>1
      <4>2. f <= e
        <5> HIDE DEF f
        <5> QED
          BY <1>1, <4>0
      <4> QED
        BY <1>2, <2>7, <4>1, <4>2 DEF f
    <3>5. s[d + 1] = "u"
      <4>1. 2 \in 1 .. Len(UnitText(v)) /\ d + 2 - 1 = d + 1
        BY <2>3, <2>4, <2>7
      <4>2. UnitText(v)[2] = s[d + 2 - 1]
        BY <2>7, <2>8, <3>4, <4>1, FitsAt
      <4> QED
        BY <2>3, <4>1, <4>2
    <3>6. UnitLen(s, d) = E + 2
      BY <3>3, <3>5 DEF UnitLen, Backslash
    <3> QED
      BY <2>7, <3>1, <3>6
  <2> QED
    BY <2>7, <2>9, <2>10
<1> QED
  BY <1>5, <1>6, <1>7, <1>8, PieceIs

\* The bytes of s from b on are those of t.
Occurs(s, b, t) == \A m \in 1 .. Len(t) : t[m] = s[b + m - 1]

\* Where the text of a unit is, the unit is found.
LEMMA UnitOccurs ==
  ASSUME NEW s \in Seq(Bytes), NEW b \in Nat \ {0}, NEW u \in Units,
         Occurs(s, b, UnitText(u)), b + EscapeDigits + 2 <= Len(s) + 1
  PROVE  s[b] = Backslash /\ IsUnitAt(s, b + 1) /\ UnitAt(s, b + 1) = u
<1> DEFINE E == EscapeDigits
           t == UnitText(u)
<1>1. /\ Len(t) = E + 2 /\ t[1] = Backslash /\ t[2] = "u" /\ E \in Nat \ {0}
      /\ \A m \in 1 .. E : t[m + 2] = u[m]
  BY UnitTextIs, UnitsAreTexts
<1>2. u \in Seq(Bytes) /\ Len(u) = E /\ \A m \in 1 .. E : u[m] \in HexDigits
  BY UnitsAreTexts
<1>3. \A m \in 1 .. E + 2 : t[m] = s[b + m - 1]
  BY <1>1 DEF Occurs
<1> HIDE DEF t
<1>4. s[b] = Backslash /\ s[b + 1] = "u"
  <2>1. 1 \in 1 .. E + 2 /\ 2 \in 1 .. E + 2 /\ b + 1 - 1 = b /\ b + 2 - 1 = b + 1
    BY <1>1
  <2>2. t[1] = s[b + 1 - 1] /\ t[2] = s[b + 2 - 1]
    BY <1>3, <2>1
  <2> QED
    BY <1>1, <2>1, <2>2
<1>5. ASSUME NEW m \in 1 .. E PROVE u[m] = s[b + 1 + m]
  <2>1. m + 2 \in 1 .. E + 2 /\ b + (m + 2) - 1 = b + 1 + m
    BY <1>1
  <2>2. t[m + 2] = s[b + (m + 2) - 1]
    BY <1>3, <2>1
  <2> QED
    BY <1>1, <2>1, <2>2
<1>6. IsUnitAt(s, b + 1)
  <2>1. Len(s) >= b + 1 + E
    BY <1>1
  <2>2. ASSUME NEW j \in b + 1 + 1 .. b + 1 + E PROVE s[j] \in HexDigits
    <3>1. j - (b + 1) \in 1 .. E /\ b + 1 + (j - (b + 1)) = j
      BY <1>1
    <3>2. u[j - (b + 1)] = s[b + 1 + (j - (b + 1))]
      BY <1>5, <3>1
    <3> QED
      BY <1>2, <3>1, <3>2
  <2> QED
    BY <1>4, <2>1, <2>2 DEF IsUnitAt
<1>7. UnitAt(s, b + 1) = u
  <2>1. b + 1 \in Nat /\ b + 1 + E \in (b + 1) .. Len(s)
    BY <1>1
  <2> DEFINE x == SubSeq(s, (b + 1) + 1, b + 1 + E)
  <2>2. x \in Seq(Bytes) /\ Len(x) = (b + 1 + E) - (b + 1)
        /\ \A m \in 1 .. (b + 1 + E) - (b + 1) : x[m] = s[b + 1 + m]
    BY <2>1, PartIs
  <2>3. Len(x) = E /\ \A m \in 1 .. E : x[m] = u[m]
    BY <1>1, <1>5, <2>2
  <2> HIDE DEF x
  <2>4. x = u
    BY <1>1, <1>2, <2>2, <2>3
  <2> QED
    BY <2>4 DEF UnitAt, x
<1> QED
  BY <1>4, <1>6, <1>7

\* Where a character of one or more bytes stands, it is decoded ahead of the rest.
LEMMA CharacterOccurs ==
  ASSUME NEW s \in Seq(Bytes), NEW b \in Nat, b >= 2, NEW a \in CharacterTexts, Occurs(s, b, a),
         b + Len(a) <= Len(s)
  PROVE  /\ CharacterPiece(a).value \in Values
         /\ \A w \in Values : Rests(s)[b + Len(a)] = w => Rests(s)[b] = CharacterPiece(a).value \o w
<1>1. \A m \in 1 .. Len(a) : a[m] = s[b + m - 1]
  BY DEF Occurs
<1> QED
  BY <1>1, CharacterDecodes

\* The text is decoded from a piece on if it is behind the piece.
LEMMA PieceDecodes ==
  ASSUME NEW s \in Seq(Bytes), NEW b \in Nat, b >= 2, NEW p \in Pieces, Occurs(s, b, p.text),
         b + Len(p.text) <= Len(s), NEW r \in Values, Rests(s)[b + Len(p.text)] = r
  PROVE  Rests(s)[b] \in Values
<1> DEFINE E == EscapeDigits
<1>0. \A x, y \in Values : x \o y \in Values
  BY DEF Values
<1>1. CASE \E a \in CharacterTexts : p = CharacterPiece(a) /\ p.text = a
  <2>1. PICK a \in CharacterTexts : p.text = a
    BY <1>1
  <2>2. b + Len(a) <= Len(s) /\ Rests(s)[b + Len(a)] = r
    BY <2>1
  <2>4. Occurs(s, b, a)
    BY <2>1
  <2>5. /\ CharacterPiece(a).value \in Values
        /\ \A x \in Values : Rests(s)[b + Len(a)] = x => Rests(s)[b] = CharacterPiece(a).value \o x
    BY <2>2, <2>4, CharacterOccurs
  <2> DEFINE v == CharacterPiece(a).value
             g == Rests(s)[b + Len(a)]
  <2>6. g = r
    BY <2>2
  <2>7. v \in Values /\ \A x \in Values : g = x => Rests(s)[b] = v \o x
    BY <2>5
  <2> HIDE DEF v, g
  <2>8. v \in Values /\ Rests(s)[b] = v \o r
    BY <2>6, <2>7
  <2>3. CharacterPiece(a).value \in Values /\ Rests(s)[b] = CharacterPiece(a).value \o r
    BY <2>8 DEF v
  <2> QED
    BY <1>0, <2>3
<1>2. CASE \E x \in SimpleEscapes : p.text = <<Backslash, x>> /\ p = EscapePiece(x, IF x = "n" THEN "newline" ELSE x)
  <2>1. PICK x \in SimpleEscapes : p.text = <<Backslash, x>> /\ p = EscapePiece(x, IF x = "n" THEN "newline" ELSE x)
    BY <1>2
  <2>2. Len(p.text) = 2 /\ p.text[1] = Backslash /\ p.text[2] = x
    BY <2>1
  <2>3. s[b] = Backslash /\ s[b + 1] = x
    <3>1. 1 \in 1 .. Len(p.text) /\ 2 \in 1 .. Len(p.text) /\ b + 1 - 1 = b /\ b + 2 - 1 = b + 1
      BY <2>2
    <3>2. p.text[1] = s[b + 1 - 1] /\ p.text[2] = s[b + 2 - 1]
      BY <3>1 DEF Occurs
    <3> QED
      BY <2>2, <3>1, <3>2
  <2>4. b + 2 <= Len(s) /\ s[b + 1] \in SimpleEscapes
    BY <2>2, <2>3
  <2> DEFINE q == EscapePiece(x, IF x = "n" THEN "newline" ELSE x)
  <2>5. q.value \in Values /\ \A w \in Values : Rests(s)[b + Len(q.text)] = w => Rests(s)[b] = q.value \o w
    BY <2>3, <2>4, EscapeDecodes
  <2>6. q = p
    BY <2>1
  <2> HIDE DEF q
  <2>7. p.value \in Values /\ Rests(s)[b] = p.value \o r
    BY <2>5, <2>6
  <2> QED
    BY <1>0, <2>7
<1>3. ASSUME NEW u \in Units, \A m \in 1 .. E + 2 : UnitText(u)[m] = s[b + m - 1], b + E + 2 <= Len(s)
      PROVE  s[b] = Backslash /\ IsUnitAt(s, b + 1) /\ UnitAt(s, b + 1) = u
  <2>1. Occurs(s, b, UnitText(u))
    BY <1>3, UnitsAreTexts DEF Occurs
  <2>2. b + EscapeDigits + 2 <= Len(s) + 1 /\ b \in Nat \ {0}
    BY <1>3, UnitsAreTexts
  <2> QED
    BY <2>1, <2>2, UnitOccurs
<1>4. CASE \E u \in Units : u \notin Leading \cup Trailing /\ p = UnitPiece(u) /\ p.text = UnitText(u)
  <2>1. PICK u \in Units : u \notin Leading \cup Trailing /\ p.text = UnitText(u)
    BY <1>4
  <2>2. Len(p.text) = E + 2 /\ E \in Nat \ {0}
    BY <2>1, UnitsAreTexts
  <2>3. \A m \in 1 .. E + 2 : UnitText(u)[m] = s[b + m - 1]
    BY <2>1, <2>2 DEF Occurs
  <2> DEFINE d == b + E + 2
             e == d + E + 2
  <2>4. d = b + EscapeDigits + 2 /\ d <= Len(s) /\ e = d + EscapeDigits + 2 /\ d = b + Len(p.text)
    BY <2>2
  <2>5. s[b] = Backslash /\ IsUnitAt(s, b + 1) /\ UnitAt(s, b + 1) = u
    BY <1>3, <2>3, <2>4
  <2> HIDE DEF d, e
  <2>6. Rests(s)[b] = Then(<<"u">> \o u, Rests(s)[d])
    BY <2>1, <2>4, <2>5, RestsAtUnit
  <2>7. Rests(s)[d] = r
    BY <2>4
  <2> QED
    BY <2>6, <2>7, UnitValues, ThenIs
<1>5. CASE \E u \in Leading, v \in Trailing : p = PairPiece(u, v) /\ p.text = UnitText(u) \o UnitText(v)
  <2>1. PICK u \in Leading, v \in Trailing : p.text = UnitText(u) \o UnitText(v)
    BY <1>5
  <2>0. u \in Units /\ v \in Units /\ E \in Nat \ {0}
    BY UnitsAreTexts
  <2>2. IsPairText(p.text, u, v)
    BY <2>0, <2>1, PairTextIs
  <2> DEFINE d == b + E + 2
             e == d + E + 2
  <2>3. Len(p.text) = (E + 2) + (E + 2)
    BY <2>2 DEF IsPairText
  <2>4. d = b + EscapeDigits + 2 /\ d <= Len(s) /\ e = d + EscapeDigits + 2 /\ e = b + Len(p.text) /\ d \in Nat /\ d >= 2 /\ e <= Len(s)
    BY <2>0, <2>3
  <2>5. s[b] = Backslash /\ IsUnitAt(s, b + 1) /\ UnitAt(s, b + 1) = u
    <3>1. \A m \in 1 .. E + 2 : UnitText(u)[m] = s[b + m - 1]
      <4> SUFFICES ASSUME NEW m \in 1 .. E + 2 PROVE UnitText(u)[m] = s[b + m - 1]
        OBVIOUS
      <4>1. p.text[m] = UnitText(u)[m]
        BY <2>2 DEF IsPairText
      <4>2. m \in 1 .. Len(p.text)
        BY <2>0, <2>3
      <4> QED
        BY <4>1, <4>2 DEF Occurs
    <3> QED
      BY <1>3, <2>0, <2>4, <3>1
  <2>6. s[d] = Backslash /\ IsUnitAt(s, d + 1) /\ UnitAt(s, d + 1) = v
    <3>1. Occurs(s, d, UnitText(v))
      <4> SUFFICES ASSUME NEW m \in 1 .. E + 2 PROVE UnitText(v)[m] = s[d + m - 1]
        BY <2>0, UnitsAreTexts DEF Occurs
      <4>1. p.text[(E + 2) + m] = UnitText(v)[m]
        BY <2>2 DEF IsPairText
      <4>2. (E + 2) + m \in 1 .. Len(p.text) /\ b + ((E + 2) + m) - 1 = d + m - 1
        BY <2>0, <2>3
      <4>3. p.text[(E + 2) + m] = s[b + ((E + 2) + m) - 1]
        BY <4>2 DEF Occurs
      <4> QED
        BY <4>1, <4>2, <4>3
    <3>2. d + EscapeDigits + 2 <= Len(s) + 1 /\ d \in Nat \ {0}
      BY <2>0, <2>4
    <3> HIDE DEF d
    <3> QED
      BY <2>0, <3>1, <3>2, UnitOccurs
  <2> HIDE DEF d, e
  <2>7. Rests(s)[b] = Then(<<"u">> \o u \o v, Rests(s)[e])
    <3>1. IsTrailing(v)
      BY DEF IsTrailing
    <3> QED
      BY <2>4, <2>5, <2>6, <3>1, RestsAtUnit
  <2>8. Rests(s)[e] = r
    BY <2>4
  <2> QED
    <3> DEFINE x == <<"u">> \o u \o v
    <3>1. x \in Seq(Symbols)
      BY <2>0, UnitValues
    <3>2. Rests(s)[b] = Then(x, r)
      BY <2>7, <2>8
    <3> HIDE DEF x
    <3> QED
      BY <3>1, <3>2, ThenIs
<1> QED
  BY <1>1, <1>2, <1>4, <1>5, PieceIs

LEMMA PrefixIs ==
  ASSUME NEW s \in Seq(Bytes), NEW t \in Seq(Bytes), IsPrefix(s, t)
  PROVE  Len(s) <= Len(t) /\ \A m \in 1 .. Len(s) : s[m] = t[m]
<1> DEFINE n == Len(s)
<1>1. n \in Nat /\ n <= Len(t) /\ SubSeq(s, 1, n) = SubSeq(t, 1, n)
  BY DEF IsPrefix
<1>2. \A m \in 1 .. n : SubSeq(s, 1, n)[m] = s[m] /\ SubSeq(t, 1, n)[m] = t[m]
  BY <1>1
<1> HIDE DEF n
<1>3. \A m \in 1 .. n : s[m] = t[m]
  BY <1>1, <1>2
<1> QED
  BY <1>1, <1>3 DEF n

LEMMA RestIs ==
  ASSUME NEW t \in Seq(Bytes), NEW i \in 1 .. Len(t)
  PROVE  /\ Rest(t, i) \in Seq(Bytes) /\ Len(Rest(t, i)) = Len(t) - i + 1
         /\ \A m \in 1 .. Len(t) - i + 1 : Rest(t, i)[m] = t[i + m - 1]
<1>1. i - 1 \in Nat /\ Len(t) \in i - 1 .. Len(t) /\ (i - 1) + 1 = i /\ Len(t) - (i - 1) = Len(t) - i + 1
  OBVIOUS
<1>2. /\ SubSeq(t, (i - 1) + 1, Len(t)) \in Seq(Bytes)
      /\ Len(SubSeq(t, (i - 1) + 1, Len(t))) = Len(t) - (i - 1)
      /\ \A m \in 1 .. Len(t) - (i - 1) : SubSeq(t, (i - 1) + 1, Len(t))[m] = t[(i - 1) + m]
  BY <1>1, PartIs
<1>3. \A m \in 1 .. Len(t) - i + 1 : (i - 1) + m = i + m - 1
  OBVIOUS
<1> QED
  BY <1>1, <1>2, <1>3 DEF Rest

\* s, a text with the quote in front, has no reading from b on that stays within t: no
\* piece is there that something can be read behind, nor, with cut, the beginning of one.
NoPiece(s, t, cut, b) ==
  \A p \in Pieces :
    /\ b + Len(p.text) <= Len(t) + 2 /\ Occurs(s, b, p.text) => Reads(t, cut)[b + Len(p.text) - 1] = {}
    /\ cut /\ b + Len(p.text) > Len(t) + 2 => \E m \in 1 .. Len(t) + 2 - b : p.text[m] # s[b + m - 1]

LEMMA ReadsNothing ==
  ASSUME NEW s \in Seq(Bytes), NEW t \in Seq(Bytes), \A m \in 1 .. Len(t) : t[m] = s[m + 1],
         NEW cut, NEW b \in 2 .. Len(t) + 1, NoPiece(s, t, cut, b)
  PROVE  Reads(t, cut)[b - 1] = {}
<1> DEFINE i == b - 1
           r == Rest(t, i)
<1>0. Len(t) \in Nat /\ b \in Nat /\ b >= 2 /\ b <= Len(t) + 1
  OBVIOUS
<1>a. i \in Nat /\ i = b - 1
  BY <1>0
<1> HIDE DEF i, r
<1>1. i \in 1 .. Len(t) /\ i \in Nat /\ Len(t) \in Nat /\ ~ (i > Len(t)) /\ b \in Nat /\ b = i + 1
  BY <1>0, <1>a
<1>2. r \in Seq(Bytes) /\ Len(r) = Len(t) + 2 - b
  <2>1. r \in Seq(Bytes) /\ Len(r) = Len(t) - i + 1
    BY <1>1, RestIs DEF r
  <2> QED
    BY <1>1, <2>1
<1>3. \A m \in 1 .. Len(t) + 2 - b : r[m] = s[b + m - 1]
  <2> TAKE m \in 1 .. Len(t) + 2 - b
  <2>1. m \in 1 .. Len(t) - i + 1 /\ i + m - 1 \in 1 .. Len(t) /\ (i + m - 1) + 1 = b + m - 1
    BY <1>1
  <2>2. r[m] = t[i + m - 1]
    BY <1>1, <2>1, RestIs DEF r
  <2>3. t[i + m - 1] = s[(i + m - 1) + 1]
    BY <2>1
  <2> QED
    BY <2>1, <2>2, <2>3
<1>4. ASSUME NEW p \in Pieces, IsPrefix(p.text, r) PROVE Reads(t, cut)[i + Len(p.text)] = {}
  <2> HIDE DEF r
  <2>0. p.text \in Seq(Bytes) /\ Len(p.text) \in Nat
    BY PiecesAreTexts
  <2>1. Len(p.text) <= Len(r) /\ \A m \in 1 .. Len(p.text) : p.text[m] = r[m]
    BY <1>2, <1>4, <2>0, PrefixIs
  <2>2. Occurs(s, b, p.text)
    <3> SUFFICES ASSUME NEW m \in 1 .. Len(p.text) PROVE p.text[m] = s[b + m - 1]
      BY DEF Occurs
    <3>1. m \in 1 .. Len(t) + 2 - b
      BY <1>2, <2>0, <2>1
    <3> QED
      BY <1>3, <2>1, <3>1
  <2>3. b + Len(p.text) <= Len(t) + 2 /\ i + Len(p.text) = b + Len(p.text) - 1
    <3> DEFINE l == Len(p.text)
               n == Len(t)
    <3>1. l \in Nat /\ n \in Nat /\ l <= n + 2 - b /\ b \in Nat /\ i \in Nat /\ b = i + 1
      BY <1>1, <1>2, <2>0, <2>1
    <3> HIDE DEF l, n
    <3>2. b + l <= n + 2 /\ i + l = b + l - 1
      BY <3>1
    <3> QED
      BY <3>2 DEF l, n
  <2> QED
    BY <2>2, <2>3 DEF NoPiece
<1>5. ASSUME cut, NEW p \in Pieces, IsStrictPrefix(r, p.text) PROVE FALSE
  <2> HIDE DEF r
  <2>0. p.text \in Seq(Bytes) /\ Len(p.text) \in Nat
    BY PiecesAreTexts
  <2>1. Len(r) <= Len(p.text) /\ (\A m \in 1 .. Len(r) : r[m] = p.text[m]) /\ r # p.text
    BY <1>2, <1>5, <2>0, PrefixIs DEF IsStrictPrefix
  <2>2. Len(r) # Len(p.text)
    BY <1>2, <2>0, <2>1, SeqEqual
  <2>3. b + Len(p.text) > Len(t) + 2
    <3> DEFINE l == Len(p.text)
               n == Len(t)
               k == Len(r)
    <3>1. l \in Nat /\ n \in Nat /\ k = n + 2 - b /\ k <= l /\ k # l /\ b \in Nat
      BY <1>1, <1>2, <2>0, <2>1, <2>2
    <3> HIDE DEF l, n, k
    <3>2. b + l > n + 2
      BY <3>1
    <3> QED
      BY <3>2 DEF l, n
  <2>4. PICK m \in 1 .. Len(t) + 2 - b : p.text[m] # s[b + m - 1]
    BY <1>5, <2>3 DEF NoPiece
  <2>5. m \in 1 .. Len(r)
    BY <1>2
  <2> QED
    BY <1>3, <2>1, <2>4, <2>5
<1> DEFINE g == Reads(t, cut)
<1>6. g[i] = ReadFrom(t, cut, g, i)
  BY <1>1, ReadsAre
<1> HIDE DEF g
<1>7. \A p \in {q \in Pieces : IsPrefix(q.text, Rest(t, i))} : {p.value \o v : v \in g[i + Len(p.text)]} = {}
  BY <1>4 DEF g, r
<1>8. ~ (cut /\ \E p \in Pieces : IsStrictPrefix(Rest(t, i), p.text))
  BY <1>5 DEF r
<1>9. ReadFrom(t, cut, g, i) = {}
  BY <1>1, <1>7, <1>8 DEF ReadFrom
<1> QED
  BY <1>6, <1>9 DEF g, i

\* From D the pieces of s lead to D only, which they cannot leave through the end of t.
NoWayOut(s, t, cut, D) ==
  /\ D \subseteq 2 .. Len(t) + 1
  /\ \A b \in D, p \in Pieces :
       /\ b + Len(p.text) <= Len(t) + 2 /\ Occurs(s, b, p.text) => b + Len(p.text) \in D
       /\ cut /\ b + Len(p.text) > Len(t) + 2 => \E m \in 1 .. Len(t) + 2 - b : p.text[m] # s[b + m - 1]

LEMMA NoWayOutReadsNothing ==
  ASSUME NEW s \in Seq(Bytes), NEW t \in Seq(Bytes), \A m \in 1 .. Len(t) : t[m] = s[m + 1],
         NEW cut, NEW D, NoWayOut(s, t, cut, D)
  PROVE  \A b \in D : Reads(t, cut)[b - 1] = {}
<1> DEFINE n == Len(t) + 2
           K == {k \in Nat : \A b \in D : n - b <= k => Reads(t, cut)[b - 1] = {}}
<1>1. n \in Nat
  OBVIOUS
<1>2. \A b \in D : b \in 2 .. Len(t) + 1
  BY DEF NoWayOut
<1>3. \A b \in D : b \in Nat /\ b < n
  BY <1>2
<1>4. ASSUME NEW k \in Nat, NEW b \in D, n - b <= k,
             \A d \in D : n - d < k => Reads(t, cut)[d - 1] = {}
      PROVE  Reads(t, cut)[b - 1] = {}
  <2>1. ASSUME NEW p \in Pieces, b + Len(p.text) <= Len(t) + 2, Occurs(s, b, p.text)
        PROVE  Reads(t, cut)[b + Len(p.text) - 1] = {}
    <3> DEFINE d == b + Len(p.text)
    <3>1. d \in D
      BY <2>1 DEF NoWayOut
    <3>2. Len(p.text) \in Nat \ {0}
      BY PiecesAreTexts
    <3>3. d > b /\ d - 1 = b + Len(p.text) - 1
      BY <1>3, <3>2
    <3> HIDE DEF d
    <3>4. n - d < k
      <4> HIDE DEF n
      <4> QED
        BY <1>1, <1>3, <1>4, <3>1, <3>3
    <3>5. Reads(t, cut)[d - 1] = {}
      BY <1>4, <3>1, <3>4
    <3> QED
      BY <3>3, <3>5
  <2>2. NoPiece(s, t, cut, b)
    BY <2>1 DEF NoPiece, NoWayOut
  <2> QED
    BY <1>2, <2>2, ReadsNothing
<1>5. 0 \in K
  <2>1. \A b \in D : ~ (n - b <= 0)
    <3> HIDE DEF n
    <3> QED
      BY <1>1, <1>3
  <2> QED
    BY <2>1
<1>6. ASSUME NEW k \in Nat, k \in K PROVE k + 1 \in K
  <2> SUFFICES ASSUME NEW b \in D, n - b <= k + 1 PROVE Reads(t, cut)[b - 1] = {}
    OBVIOUS
  <2>1. ASSUME NEW d \in D, n - d < k + 1 PROVE Reads(t, cut)[d - 1] = {}
    <3>1. n - d <= k
      <4> HIDE DEF n
      <4> QED
        BY <1>1, <1>3, <2>1
    <3> QED
      BY <1>6, <3>1
  <2>2. k + 1 \in Nat
    OBVIOUS
  <2> HIDE DEF n, K
  <2> QED
    BY <1>4, <2>1, <2>2
<1>7. Nat \subseteq K
  <2> HIDE DEF K
  <2> QED
    BY <1>5, <1>6, SetInduction
<1> SUFFICES ASSUME NEW b \in D PROVE Reads(t, cut)[b - 1] = {}
  OBVIOUS
<1>8. n \in K /\ n - b <= n
  <2> HIDE DEF n
  <2> QED
    BY <1>1, <1>3, <1>7
<1> HIDE DEF n
<1> QED
  BY <1>8

\* At e nothing begins that belongs into a string: neither a piece nor the second half
\* of a pair; or what begins there is not complete.
Hopeless(s, e) ==
  /\ \A p \in Pieces : ~ Fits(s, e, p.text)
  /\ \A v \in Units : ~ Fits(s, e, UnitText(v))

Stuck(s, e) ==
  /\ \A p \in Pieces : e + Len(p.text) <= Len(s) => ~ Fits(s, e, p.text)
  /\ \A v \in Units : e + EscapeDigits + 2 <= Len(s) => ~ Fits(s, e, UnitText(v))

\* Then no string begins with s,
LEMMA NothingRead ==
  ASSUME NEW s \in Seq(Bytes), Len(s) > 0, NEW e \in Nat, e <= Len(s), NEW B, Whole(s, B, e), Hopeless(s, e)
  PROVE  Readings(Tail(s), TRUE) = {}
<1> DEFINE t == Tail(s)
<1>1. t \in Seq(Bytes) /\ Len(t) = Len(s) - 1 /\ \A m \in 1 .. Len(t) : t[m] = s[m + 1]
  OBVIOUS
<1>2. B \subseteq 2 .. e /\ 2 \in B
  BY DEF Whole
<1>3. Len(t) + 2 = Len(s) + 1 /\ Len(s) \in Nat
  BY <1>1
<1> HIDE DEF t
<1>4. \A b \in B : b \in Nat /\ b >= 2 /\ b <= e
  BY <1>2
<1>5. ASSUME NEW b \in B, NEW p \in Pieces, Fits(s, b, p.text)
      PROVE  b + Len(p.text) \in B
  <2>1. b # e
    BY <1>5 DEF Hopeless
  <2>2. b < e
    BY <1>4, <2>1
  <2>3. e <= Len(s) + 1
    BY <1>3
  <2> QED
    BY <1>5, <2>2, <2>3, LandsOnPart DEF Hopeless
<1>6. NoWayOut(s, t, TRUE, B)
  <2>1. B \subseteq 2 .. Len(t) + 1
    BY <1>1, <1>2
  <2>2. ASSUME NEW b \in B, NEW p \in Pieces, Occurs(s, b, p.text) PROVE b + Len(p.text) \in B
    <3>1. Fits(s, b, p.text)
      BY <2>2 DEF Occurs, Fits
    <3> QED
      BY <1>5, <3>1
  <2>3. ASSUME NEW b \in B, NEW p \in Pieces, b + Len(p.text) > Len(t) + 2,
               \A m \in 1 .. Len(t) + 2 - b : p.text[m] = s[b + m - 1]
        PROVE  FALSE
    <3> DEFINE l == Len(p.text)
               k == Len(s)
    <3>1. l \in Nat /\ k \in Nat /\ b + l > k + 1 /\ b \in Nat
      BY <1>3, <1>4, <2>3, PiecesAreTexts
    <3>2. Fits(s, b, p.text)
      <4> SUFFICES ASSUME NEW m \in 1 .. l, b + m - 1 <= k PROVE p.text[m] = s[b + m - 1]
        BY DEF Fits
      <4>1. m \in 1 .. k + 1 - b
        <5> HIDE DEF k, l
        <5> QED
          BY <3>1
      <4>2. Len(t) + 2 - b = k + 1 - b
        <5> DEFINE n == Len(t)
        <5>1. n + 2 = k + 1 /\ n \in Nat /\ k \in Nat /\ b \in Nat
          BY <1>1, <1>3, <3>1
        <5> HIDE DEF n, k
        <5>2. n + 2 - b = k + 1 - b
          BY <5>1
        <5> QED
          BY <5>2 DEF n
      <4>3. m \in 1 .. Len(t) + 2 - b
        BY <4>1, <4>2
      <4> QED
        BY <2>3, <4>3
    <3>3. b + l \in B
      BY <1>5, <3>2
    <3> HIDE DEF k, l
    <3>4. b + l <= e /\ e <= k
      BY <1>4, <3>3 DEF k
    <3> QED
      BY <3>1, <3>4
  <2> QED
    BY <2>1, <2>2, <2>3 DEF NoWayOut
<1>7. Reads(t, TRUE)[2 - 1] = {}
  BY <1>1, <1>2, <1>6, NoWayOutReadsNothing
<1>8. 2 - 1 = 1
  OBVIOUS
<1> QED
  BY <1>7, <1>8, ReadingsAre DEF t

\* and none ends within s.
LEMMA NoneWithin ==
  ASSUME NEW s \in Seq(Bytes), NEW e \in Nat, e <= Len(s) + 1, NEW B, Whole(s, B, e), Stuck(s, e),
         NEW k \in 1 .. Len(s), k = e => s[e] # Quote
  PROVE  StringValues(SubSeq(s, 1, k)) = {}
<1> DEFINE x == SubSeq(s, 1, k)
<1>1. k \in Nat /\ Len(s) \in Nat /\ k <= Len(s)
  OBVIOUS
<1>2. x \in Seq(Bytes) /\ Len(x) = k /\ \A m \in 1 .. k : x[m] = s[m]
  BY <1>1
<1> HIDE DEF x
<1>3. CASE ~ (k >= 2 /\ x[1] = Quote /\ x[k] = Quote)
  BY <1>2, <1>3 DEF StringValues, Last, x
<1>4. CASE k >= 2 /\ x[1] = Quote /\ x[k] = Quote
  <2> DEFINE t == Inner(x)
             D == {b \in B : b < k}
  <2>1. t \in Seq(Bytes) /\ Len(t) = k - 2 /\ \A m \in 1 .. k - 2 : t[m] = x[m + 1]
    BY <1>2, <1>4, InnerIs
  <2>2. \A m \in 1 .. Len(t) : t[m] = s[m + 1]
    <3> TAKE m \in 1 .. Len(t)
    <3>1. m \in 1 .. k - 2 /\ m + 1 \in 1 .. k
      BY <1>1, <2>1
    <3> QED
      BY <1>2, <2>1, <3>1
  <2>3. B \subseteq 2 .. e /\ 2 \in B /\ \A b \in B : b < e => UnitOK(s, b)
    BY DEF Whole
  <2>4. s[k] = Quote
    BY <1>1, <1>2, <1>4
  <2>5. k \notin B
    <3> SUFFICES ASSUME k \in B PROVE FALSE
      OBVIOUS
    <3>1. k # e
      BY <2>4
    <3>2. k < e
      BY <1>1, <2>3, <3>1
    <3>3. UnitOK(s, k)
      BY <2>3, <3>2
    <3> QED
      BY <2>4, <3>3 DEF UnitOK, Quote, Backslash
  <2> HIDE DEF t
  <2>6. Len(t) + 2 = k /\ Len(t) + 1 = k - 1
    BY <1>1, <1>4, <2>1
  <2>7. ASSUME NEW b \in B, b < k, NEW p \in Pieces, b + Len(p.text) <= k, Occurs(s, b, p.text)
        PROVE  b + Len(p.text) \in B /\ b + Len(p.text) < k
    <3> DEFINE l == Len(p.text)
    <3>0. l \in Nat /\ b \in Nat /\ b <= e
      BY <2>3, PiecesAreTexts
    <3>1. Fits(s, b, p.text)
      BY <2>7 DEF Occurs, Fits
    <3>2. b + l <= Len(s)
      <4>1. b + l <= k
        BY <2>7
      <4> HIDE DEF l
      <4> QED
        BY <1>1, <3>0, <4>1
    <3>3. b # e
      BY <3>1, <3>2 DEF Stuck
    <3>4. b < e
      BY <3>0, <3>3
    <3>5. \/ b + l \in B
          \/ e + EscapeDigits + 2 = b + l /\ \E v \in Units : Fits(s, e, UnitText(v))
      BY <3>1, <3>4, LandsOnPart
    <3>6. b + l \in B
      BY <3>2, <3>5 DEF Stuck
    <3>7. b + l # k
      BY <2>5, <3>6
    <3>8. b + l < k
      <4>1. b + l <= k
        BY <2>7
      <4> HIDE DEF l
      <4> QED
        BY <1>1, <3>0, <3>7, <4>1
    <3> QED
      BY <3>6, <3>8
  <2>8. NoWayOut(s, t, FALSE, D)
    <3>1. D \subseteq 2 .. Len(t) + 1
      <4> SUFFICES ASSUME NEW b \in B, b < k PROVE b \in 2 .. Len(t) + 1
        OBVIOUS
      <4>1. b \in Nat /\ b >= 2
        BY <2>3
      <4>2. b \in 2 .. k - 1
        BY <1>1, <4>1
      <4> QED
        BY <2>6, <4>2
    <3>2. ASSUME NEW b \in D, NEW p \in Pieces, b + Len(p.text) <= Len(t) + 2, Occurs(s, b, p.text)
          PROVE  b + Len(p.text) \in D
      <4>1. b \in B /\ b < k /\ b + Len(p.text) <= k
        BY <2>6, <3>2
      <4>2. b + Len(p.text) \in B /\ b + Len(p.text) < k
        BY <2>7, <3>2, <4>1
      <4> QED
        BY <4>2
    <3> HIDE DEF D
    <3> QED
      BY <3>1, <3>2 DEF NoWayOut
  <2>9. 2 # k
    BY <2>3, <2>5
  <2>10. 2 \in D
    BY <1>1, <1>4, <2>3, <2>9
  <2> HIDE DEF D
  <2>11. Reads(t, FALSE)[2 - 1] = {}
    BY <1>2, <2>1, <2>2, <2>8, <2>10, NoWayOutReadsNothing
  <2>12. StringValues(x) = Reads(t, FALSE)[1]
    <3>1. Len(x) >= 2 /\ x[Len(x)] = Quote
      BY <1>2, <1>4
    <3> QED
      BY <1>2, <1>4, <3>1, StringValuesAre DEF t
  <2>13. 2 - 1 = 1
    OBVIOUS
  <2> QED
    BY <2>11, <2>12, <2>13 DEF x
<1> QED
  BY <1>3, <1>4

\* What is between quotes and has a half of a pair alone is no string.
LEMMA BadIsNotRead ==
  ASSUME NEW s \in Seq(Bytes), Len(s) >= 2, s[1] = Quote, s[Len(s)] = Quote, NEW B, Whole(s, B, Len(s)),
         Decoded(s) = BadEscape
  PROVE  StringValues(s) = {}
<1> DEFINE t == Inner(s)
           n == Len(s)
           D == {b \in B : Rests(s)[b] = BadEscape}
<1>1. t \in Seq(Bytes) /\ Len(t) = n - 2 /\ \A m \in 1 .. n - 2 : t[m] = s[m + 1]
  BY InnerIs
<1>2. n \in Nat /\ n >= 2 /\ B \subseteq 2 .. n /\ 2 \in B
  BY DEF Whole
<1> HIDE DEF t
<1>3. Rests(s)[n] = << >>
  <2>1. Rests(s)[n] = DecodedFrom(s, Rests(s), n)
    BY <1>2, RestsAre
  <2> QED
    BY <1>2, <2>1 DEF DecodedFrom
<1>4. n \notin D
  <2>1. << >> # BadEscape
    <3>1. Len(<< >>) = 0 /\ Len(BadEscape) = 1
      BY DEF BadEscape
    <3>2. 0 # 1
      OBVIOUS
    <3> QED
      BY <3>1, <3>2, Zenon
  <2> QED
    BY <1>3, <2>1
<1>5. Len(t) + 2 = n /\ Len(t) + 1 = n - 1
  BY <1>1, <1>2
<1>6. \A b \in D : b \in B /\ b \in Nat /\ b >= 2 /\ b < n
  <2> SUFFICES ASSUME NEW b \in D PROVE b \in B /\ b \in Nat /\ b >= 2 /\ b < n
    OBVIOUS
  <2>1. b \in B /\ b # n
    BY <1>4
  <2> QED
    BY <1>2, <2>1
<1>7. ASSUME NEW b \in D, NEW p \in Pieces, b + Len(p.text) <= n, Occurs(s, b, p.text)
      PROVE  b + Len(p.text) \in D
  <2> DEFINE l == Len(p.text)
  <2>0. l \in Nat /\ b \in Nat /\ b >= 2 /\ b < n /\ b \in B /\ Rests(s)[b] = BadEscape
    BY <1>6, PiecesAreTexts
  <2>1. Fits(s, b, p.text)
    BY <1>7 DEF Occurs, Fits
  <2>2. \/ b + l \in B
        \/ n + EscapeDigits + 2 = b + l
    <3>1. n <= Len(s) + 1
      BY <1>2
    <3> QED
      BY <1>2, <2>0, <2>1, <3>1, LandsOnPart
  <2>3. n + EscapeDigits + 2 # b + l
    <3>1. b + l <= n /\ EscapeDigits \in Nat
      BY <1>7, EscapeAssumption
    <3> HIDE DEF l, n
    <3> QED
      BY <1>2, <2>0, <3>1
  <2>4. b + l \in B
    BY <2>2, <2>3
  <2>5. Rests(s)[b + l] = BadEscape \/ Rests(s)[b + l] \in Values
    BY <2>4, PartsAgree DEF Agree
  <2>6. Rests(s)[b + l] \notin Values
    <3> SUFFICES ASSUME Rests(s)[b + l] \in Values PROVE FALSE
      OBVIOUS
    <3>1. Rests(s)[b] \in Values
      BY <1>7, <2>0, PieceDecodes
    <3> QED
      BY <2>0, <3>1, BrokenAreNoValues DEF Broken
  <2> QED
    BY <2>4, <2>5, <2>6
<1>8. NoWayOut(s, t, FALSE, D)
  <2>1. D \subseteq 2 .. Len(t) + 1
    <3> SUFFICES ASSUME NEW b \in D PROVE b \in 2 .. Len(t) + 1
      BY Zenon
    <3>1. b \in Nat /\ b >= 2 /\ b < n
      BY <1>6
    <3> HIDE DEF n
    <3>2. b \in 2 .. n - 1
      BY <1>2, <3>1
    <3> QED
      BY <1>5, <3>2
  <2>2. ASSUME NEW b \in D, NEW p \in Pieces, b + Len(p.text) <= Len(t) + 2, Occurs(s, b, p.text)
        PROVE  b + Len(p.text) \in D
    <3>1. b + Len(p.text) <= n
      BY <1>5, <2>2
    <3> QED
      BY <1>7, <2>2, <3>1
  <2> HIDE DEF D
  <2> QED
    BY <2>1, <2>2 DEF NoWayOut
<1>9. 2 \in D
  BY <1>2, DecodedIs
<1> HIDE DEF D
<1>10. Reads(t, FALSE)[2 - 1] = {}
  <2>1. \A m \in 1 .. Len(t) : t[m] = s[m + 1]
    BY <1>1
  <2> QED
    BY <1>1, <1>8, <1>9, <2>1, NoWayOutReadsNothing
<1>11. 2 - 1 = 1
  OBVIOUS
<1> QED
  BY <1>10, <1>11, StringValuesAre DEF t

-----------------------------------------------------------------------------
(* What is refused                                                         *)

\* The bytes g from the token on, to which more may come unless the input has ended,
\* begin no lexeme; and a lexeme in front of them is not the end of a token.
Rejected(g, ended) ==
  /\ ~ ended => ~ BeginsLexeme(g)
  /\ \A m \in 1 .. Len(g) :
       IsLexeme(SubSeq(g, 1, m)) =>
         m < Len(g) /\ (g[m + 1] \in Digits \cup Letters \/ BeginsLexeme(SubSeq(g, 1, m + 1)))

LEMMA BeginningIs ==
  ASSUME NEW g \in Seq(Bytes), NEW m \in 0 .. Len(g)
  PROVE  /\ SubSeq(g, 1, m) \in Seq(Bytes) /\ Len(SubSeq(g, 1, m)) = m
         /\ \A i \in 1 .. m : SubSeq(g, 1, m)[i] = g[i]
OBVIOUS

LEMMA NumberPrefix ==
  ASSUME NEW s, NEW n \in Nat, NEW at, NumberTo(at, s, n), NEW m \in 0 .. n
  PROVE  \E to : NumberTo(to, s, m)
<1> DEFINE K == {k \in Nat : \A i \in 0 .. n : n - i <= k => \E to : NumberTo(to, s, i)}
<1>1. 0 \in K
  <2>1. \A i \in 0 .. n : n - i <= 0 => i = n
    OBVIOUS
  <2> QED
    BY <2>1
<1>2. ASSUME NEW k \in Nat, k \in K PROVE k + 1 \in K
  <2> SUFFICES ASSUME NEW i \in 0 .. n, n - i <= k + 1 PROVE \E to : NumberTo(to, s, i)
    OBVIOUS
  <2>1. CASE i = n
    BY <2>1
  <2>2. CASE i < n
    <3>1. i + 1 \in 0 .. n /\ n - (i + 1) <= k /\ i \in Nat
      BY <2>2
    <3>2. PICK to : NumberTo(to, s, i + 1)
      BY <1>2, <3>1
    <3> QED
      BY <3>1, <3>2, NumberCameFrom
  <2> QED
    BY <2>1, <2>2
<1>3. n \in K
  <2> HIDE DEF K
  <2> QED
    BY <1>1, <1>2, SetInduction
<1>4. n - m <= n
  OBVIOUS
<1> QED
  BY <1>3, <1>4

\* What the scan of a number has taken begins one.
LEMMA NumberBegins ==
  ASSUME NEW s \in Seq(Bytes), Len(s) > 0, NEW at, NumberTo(at, s, Len(s))
  PROVE  BeginsLexeme(s)
<1> DEFINE n == Len(s)
           t == Append(s, "1")
<1>1. n \in Nat /\ n # 0 /\ "1" \in Bytes /\ "1" \in Digits
  BY DEF Bytes, Ascii, Digits
<1>2. t \in Seq(Bytes) /\ Len(t) = n + 1 /\ t[n + 1] = "1" /\ \A m \in 1 .. n : t[m] = s[m]
  BY <1>1, AppendIs
<1>3. at \in NumberStates \cup {"point"} /\ at # "number"
  BY <1>1, NumberBytes
<1> HIDE DEF t
<1>4. CASE at \in {"zero", "whole", "fraction", "power"}
  BY <1>4, NumberIs DEF BeginsLexeme, IsLexeme
<1>5. CASE at \in {"integer", "point", "exponent", "sign"}
  <2>1. PICK to \in {"whole", "fraction", "power"} : <<at, "1", to>> \in NumberSteps
    BY <1>1, <1>5 DEF NumberSteps, NumberNext
  <2> HIDE DEF n
  <2>2. \A m \in 1 .. n : s[m] = t[m]
    BY <1>2
  <2>3. NumberTo(at, t, n)
    BY <1>1, <2>2, SameBytesSameNumber DEF n
  <2>4. NumberTo(to, t, n + 1)
    BY <1>1, <1>2, <2>1, <2>3, NumberGrows
  <2>5. IsNumber(t)
    BY <1>2, <2>4, NumberIs
  <2> QED
    BY <2>5 DEF BeginsLexeme, t
<1> QED
  BY <1>3, <1>4, <1>5 DEF NumberStates

LEMMA LexemeIs ==
  ASSUME NEW t \in Seq(Bytes), Len(t) > 0, IsLexeme(t)
  PROVE  /\ t[1] \in Digits \cup {"-"} => IsNumber(t)
         /\ t[1] \in Letters => t \in Keywords
         /\ t[1] = Quote => StringValues(t) # {}
         /\ t[1] \in Digits \cup {"-"} \cup Letters \cup {"[", Quote}
<1>1. BeginsLexeme(t)
  BY DEF BeginsLexeme
<1>2. IsNumber(t) => t[1] \in Digits \cup {"-"}
  <2> SUFFICES ASSUME IsNumber(t) PROVE t[1] \in Digits \cup {"-"}
    OBVIOUS
  <2>1. PICK at : NumberTo(at, t, Len(t))
    BY NumberIs
  <2>2. Len(t) \in Nat
    OBVIOUS
  <2> QED
    BY <2>1, <2>2, NumberBytes
<1>3. t \in Keywords => t[1] \in Letters
  BY KeywordsAssumption
<1>4. StringValues(t) # {} => t[1] = Quote
  BY DEF StringValues
<1>5. t = <<"[">> => t[1] = "["
  OBVIOUS
<1>6. t[1] \in Digits \cup {"-"} \cup Letters \cup {"[", Quote}
  BY <1>1, FirstByteTells
<1> QED
  BY <1>2, <1>3, <1>4, <1>5, <1>6 DEF IsLexeme, Digits, Letters, Quote

LEMMA NothingRejected ==
  ASSUME NEW g \in Seq(Bytes), Len(g) > 0, g[1] \notin Digits \cup {"-"} \cup Letters \cup {"[", Quote},
         NEW ended
  PROVE  Rejected(g, ended)
<1>1. ~ BeginsLexeme(g)
  BY FirstByteTells
<1>2. ASSUME NEW m \in 1 .. Len(g) PROVE ~ IsLexeme(SubSeq(g, 1, m))
  <2> DEFINE t == SubSeq(g, 1, m)
  <2>1. t \in Seq(Bytes) /\ Len(t) > 0 /\ t[1] = g[1]
    BY BeginningIs
  <2> HIDE DEF t
  <2>2. ~ IsLexeme(t)
    BY <2>1, LexemeIs
  <2> QED
    BY <2>2 DEF t
<1> QED
  BY <1>1, <1>2 DEF Rejected

LEMMA WordRejected ==
  ASSUME NEW g \in Seq(Bytes), NEW n \in 1 .. Len(g), \A i \in 1 .. n : g[i] \in Letters,
         n < Len(g) => g[n + 1] \notin Letters, SubSeq(g, 1, n) \notin Keywords,
         NEW ended, ended \/ n < Len(g)
  PROVE  Rejected(g, ended)
<1>0. n \in Nat /\ Len(g) \in Nat /\ 1 \in 1 .. n /\ n <= Len(g)
  OBVIOUS
<1>1. g[1] \in Letters
  BY <1>0
<1>2. ASSUME NEW k \in Keywords, n < Len(g), IsPrefix(g, k) PROVE FALSE
  <2>1. k \in Seq(Letters) /\ Letters \subseteq Bytes
    BY KeywordsAssumption DEF Bytes, Ascii
  <2>2. k \in Seq(Bytes)
    BY <2>1, SeqMonotonic
  <2>3. Len(g) <= Len(k) /\ \A m \in 1 .. Len(g) : g[m] = k[m]
    BY <1>2, <2>2, PrefixIs
  <2>4. n + 1 \in 1 .. Len(g) /\ n + 1 \in 1 .. Len(k)
    BY <1>0, <1>2, <2>1, <2>3
  <2>5. k[n + 1] \in Letters
    BY <2>1, <2>4
  <2> QED
    BY <1>2, <2>3, <2>4, <2>5
<1>3. ~ ended => ~ BeginsLexeme(g)
  <2>1. Len(g) > 0
    BY <1>0
  <2> QED
    BY <1>1, <1>2, <2>1, FirstByteTells
<1>4. ASSUME NEW m \in 1 .. Len(g), IsLexeme(SubSeq(g, 1, m))
      PROVE  m < Len(g) /\ g[m + 1] \in Digits \cup Letters
  <2> DEFINE t == SubSeq(g, 1, m)
  <2>1. t \in Seq(Bytes) /\ Len(t) = m /\ \A i \in 1 .. m : t[i] = g[i]
    BY BeginningIs
  <2>2. m \in Nat /\ m > 0 /\ 1 \in 1 .. m /\ m <= Len(g)
    OBVIOUS
  <2> HIDE DEF t
  <2>3. t \in Keywords
    <3>1. Len(t) > 0 /\ t[1] \in Letters /\ IsLexeme(t)
      BY <1>1, <1>4, <2>1, <2>2 DEF t
    <3> QED
      BY <2>1, <3>1, LexemeIs
  <2>4. m # n
    BY <2>3 DEF t
  <2>5. CASE m < n
    BY <1>0, <2>2, <2>5
  <2>6. CASE m > n
    <3>1. t \in Seq(Letters)
      BY <2>3, KeywordsAssumption
    <3>2. n + 1 \in 1 .. m /\ n < Len(g)
      BY <1>0, <2>2, <2>6
    <3>3. t[n + 1] \in Letters
      BY <2>1, <3>1, <3>2
    <3> QED
      BY <2>1, <3>2, <3>3
  <2> QED
    BY <1>0, <2>2, <2>4, <2>5, <2>6
<1> QED
  BY <1>3, <1>4 DEF Rejected

\* A number that is not one yet, or that begins with a zero and another digit.
LEMMA NumberRejected ==
  ASSUME NEW g \in Seq(Bytes), NEW n \in 1 .. Len(g), NEW at, NumberTo(at, g, n),
         n < Len(g) => ~ \E to : <<at, g[n + 1], to>> \in NumberSteps,
         at \in {"zero", "whole", "fraction", "power"} => n < Len(g) /\ g[n + 1] \in Digits,
         NEW ended, ended \/ n < Len(g)
  PROVE  Rejected(g, ended)
<1>0. n \in Nat /\ Len(g) \in Nat /\ n # 0 /\ n <= Len(g)
  OBVIOUS
<1>1. g[1] \in Digits \cup {"-"}
  BY <1>0, NumberBytes
<1>2. ASSUME NEW t \in Seq(Bytes), NEW m \in Nat, m > n, n < Len(g), \A i \in 1 .. n + 1 : t[i] = g[i],
             NEW to, NumberTo(to, t, m)
      PROVE  FALSE
  <2>1. n + 1 \in 0 .. m
    BY <1>0, <1>2
  <2>2. PICK x : NumberTo(x, t, n + 1)
    BY <1>2, <2>1, NumberPrefix
  <2>3. NumberTo(x, g, n + 1)
    <3> DEFINE l == n + 1
    <3>1. l \in Nat /\ (\A i \in 1 .. l : t[i] = g[i]) /\ NumberTo(x, t, l)
      BY <1>0, <1>2, <2>2
    <3> HIDE DEF l
    <3>2. NumberTo(x, g, l)
      BY <3>1, SameBytesSameNumber
    <3> QED
      BY <3>2 DEF l
  <2>4. PICK y : NumberTo(y, g, n) /\ <<y, g[n + 1], x>> \in NumberSteps
    BY <1>0, <2>3, NumberCameFrom
  <2>5. y = at
    BY <1>0, <2>4, NumberToOne
  <2> QED
    BY <1>2, <2>4, <2>5
<1>3. ~ ended => ~ BeginsLexeme(g)
  <2> SUFFICES ASSUME n < Len(g), BeginsLexeme(g) PROVE FALSE
    OBVIOUS
  <2> DEFINE t == Append(g, "1")
  <2>0. "1" \in Bytes /\ Len(g) > 0
    BY <1>0 DEF Bytes, Ascii, Digits
  <2>1. t \in Seq(Bytes) /\ Len(t) = Len(g) + 1 /\ \A m \in 1 .. Len(g) : t[m] = g[m]
    BY <2>0, AppendIs
  <2>2. IsNumber(g) \/ IsNumber(t)
    BY <1>1, <2>0, FirstByteTells
  <2> HIDE DEF t
  <2>3. CASE IsNumber(g)
    <3>1. PICK to : NumberTo(to, g, Len(g))
      BY <2>3, NumberIs
    <3>2. \A i \in 1 .. n + 1 : g[i] = g[i]
      OBVIOUS
    <3> QED
      BY <1>0, <1>2, <3>1, <3>2
  <2>4. CASE IsNumber(t)
    <3>1. PICK to : NumberTo(to, t, Len(t))
      BY <2>1, <2>4, NumberIs
    <3>2. \A i \in 1 .. n + 1 : t[i] = g[i]
      BY <1>0, <2>1
    <3>3. Len(t) \in Nat /\ Len(t) > n
      BY <1>0, <2>1
    <3> QED
      BY <1>2, <2>1, <3>1, <3>2, <3>3
  <2> QED
    BY <2>2, <2>3, <2>4
<1>4. ASSUME NEW m \in 1 .. Len(g), IsLexeme(SubSeq(g, 1, m))
      PROVE  m < Len(g) /\ (g[m + 1] \in Digits \/ BeginsLexeme(SubSeq(g, 1, m + 1)))
  <2> DEFINE t == SubSeq(g, 1, m)
  <2>1. t \in Seq(Bytes) /\ Len(t) = m /\ \A i \in 1 .. m : t[i] = g[i]
    BY BeginningIs
  <2>2. m \in Nat /\ m > 0 /\ 1 \in 1 .. m /\ m <= Len(g)
    OBVIOUS
  <2> HIDE DEF t
  <2>3. IsNumber(t)
    <3>1. Len(t) > 0 /\ t[1] \in Digits \cup {"-"} /\ IsLexeme(t)
      BY <1>1, <1>4, <2>1, <2>2 DEF t
    <3> QED
      BY <2>1, <3>1, LexemeIs
  <2>4. PICK to \in {"zero", "whole", "fraction", "power"} : NumberTo(to, t, m)
    BY <2>1, <2>3, NumberIs
  <2>5. CASE m < n
    <3> DEFINE u == SubSeq(g, 1, m + 1)
    <3>0. m + 1 \in 0 .. Len(g) /\ m + 1 \in 0 .. n /\ m + 1 > 0 /\ m < Len(g)
      BY <1>0, <2>2, <2>5
    <3>1. u \in Seq(Bytes) /\ Len(u) = m + 1 /\ \A i \in 1 .. m + 1 : u[i] = g[i]
      BY <3>0, BeginningIs
    <3>2. PICK x : NumberTo(x, g, m + 1)
      BY <1>0, <3>0, NumberPrefix
    <3> HIDE DEF u
    <3>3. NumberTo(x, u, m + 1)
      <4> DEFINE l == m + 1
      <4>1. l \in Nat /\ (\A i \in 1 .. l : g[i] = u[i]) /\ NumberTo(x, g, l)
        BY <2>2, <3>1, <3>2
      <4> HIDE DEF l
      <4>2. NumberTo(x, u, l)
        BY <4>1, SameBytesSameNumber
      <4> QED
        BY <4>2 DEF l
    <3>4. BeginsLexeme(u)
      BY <3>0, <3>1, <3>3, NumberBegins
    <3> QED
      BY <3>0, <3>4 DEF u
  <2>6. CASE m = n
    <3>1. NumberTo(to, g, n)
      BY <1>0, <2>1, <2>4, <2>6, SameBytesSameNumber
    <3>2. to = at
      BY <1>0, <3>1, NumberToOne
    <3> QED
      BY <2>4, <2>6, <3>2
  <2>7. CASE m > n
    <3>1. n < Len(g) /\ \A i \in 1 .. n + 1 : t[i] = g[i]
      BY <1>0, <2>1, <2>2, <2>7
    <3> QED
      BY <1>2, <2>1, <2>2, <2>4, <2>7, <3>1
  <2> QED
    BY <1>0, <2>2, <2>5, <2>6, <2>7
<1> QED
  BY <1>3, <1>4 DEF Rejected

LEMMA StringRejected ==
  ASSUME NEW g \in Seq(Bytes), Len(g) > 0, g[1] = Quote, NEW e \in Nat, e <= Len(g) + 1,
         NEW B, Whole(g, B, e), Stuck(g, e),
         e <= Len(g) /\ g[e] = Quote => e = Len(g) /\ StringValues(g) = {},
         NEW ended, ended \/ (e <= Len(g) /\ Hopeless(g, e))
  PROVE  Rejected(g, ended)
<1>0. Len(g) \in Nat
  OBVIOUS
<1>1. ASSUME NEW m \in 1 .. Len(g) PROVE StringValues(SubSeq(g, 1, m)) = {}
  <2>1. CASE m = e /\ g[e] = Quote
    <3>1. m = Len(g) /\ StringValues(g) = {}
      BY <2>1
    <3>2. SubSeq(g, 1, Len(g)) = g
      OBVIOUS
    <3> QED
      BY <3>1, <3>2
  <2>2. CASE ~ (m = e /\ g[e] = Quote)
    BY <2>2, NoneWithin
  <2> QED
    BY <2>1, <2>2
<1>2. ASSUME NEW m \in 1 .. Len(g) PROVE ~ IsLexeme(SubSeq(g, 1, m))
  <2> DEFINE t == SubSeq(g, 1, m)
  <2>1. t \in Seq(Bytes) /\ Len(t) > 0 /\ t[1] = Quote
    BY BeginningIs
  <2>2. StringValues(t) = {}
    BY <1>1
  <2> HIDE DEF t
  <2>3. ~ IsLexeme(t)
    BY <2>1, <2>2, LexemeIs
  <2> QED
    BY <2>3 DEF t
<1>3. ~ ended => ~ BeginsLexeme(g)
  <2> SUFFICES ASSUME e <= Len(g), Hopeless(g, e), BeginsLexeme(g) PROVE FALSE
    OBVIOUS
  <2>1. Readings(Tail(g), TRUE) = {}
    BY NothingRead
  <2>2. ~ IsLexeme(g)
    <3>1. Len(g) \in 1 .. Len(g) /\ SubSeq(g, 1, Len(g)) = g
      OBVIOUS
    <3> QED
      BY <1>2, <3>1
  <2>3. ~ IsNumber(Append(g, "1")) /\ ~ \E k \in Keywords : IsPrefix(g, k)
    <3>1. ASSUME NEW k \in Keywords, IsPrefix(g, k) PROVE FALSE
      <4>1. k \in Seq(Letters) /\ Letters \subseteq Bytes
        BY KeywordsAssumption DEF Bytes, Ascii
      <4>2. k \in Seq(Bytes)
        BY <4>1, SeqMonotonic
      <4>3. Len(g) <= Len(k) /\ \A m \in 1 .. Len(g) : g[m] = k[m]
        BY <3>1, <4>2, PrefixIs
      <4>4. 1 \in 1 .. Len(g) /\ 1 \in 1 .. Len(k)
        BY <4>1, <4>3
      <4>5. k[1] \in Letters /\ k[1] = Quote
        BY <4>1, <4>3, <4>4
      <4> QED
        BY <4>5 DEF Letters, Quote
    <3>2. ASSUME IsNumber(Append(g, "1")) PROVE FALSE
      <4> DEFINE t == Append(g, "1")
      <4>0. "1" \in Bytes
        BY DEF Bytes, Ascii, Digits
      <4>1. t \in Seq(Bytes) /\ Len(t) = Len(g) + 1 /\ t[1] = Quote
        BY <4>0, AppendIs
      <4> HIDE DEF t
      <4>2. IsNumber(t)
        BY <3>2 DEF t
      <4>3. PICK to : NumberTo(to, t, Len(t))
        BY <4>1, <4>2, NumberIs
      <4>4. Len(t) \in Nat /\ Len(t) > 0
        BY <1>0, <4>1
      <4>5. t[1] \in Digits \cup {"-"}
        BY <4>3, <4>4, NumberBytes
      <4> QED
        BY <4>1, <4>5 DEF Digits, Quote
    <3> QED
      BY <3>1, <3>2
  <2> QED
    BY <2>1, <2>2, <2>3 DEF BeginsLexeme
<1> QED
  BY <1>2, <1>3 DEF Rejected

\* How a piece begins: what follows a backslash, and what follows \u.
PieceBegin(t) ==
  /\ Len(t) \in Nat /\ Len(t) > 0 /\ t[1] \notin Controls \cup {Quote}
  /\ t[1] = Backslash => Len(t) > 1 /\ t[2] \in {"u"} \cup SimpleEscapes
  /\ t[1] = Backslash /\ t[2] = "u" =>
       Len(t) >= EscapeDigits + 2 /\ \A m \in 1 .. EscapeDigits : t[m + 2] \in HexDigits

LEMMA UnitBegins ==
  ASSUME NEW u \in Units
  PROVE  PieceBegin(UnitText(u))
<1> DEFINE t == UnitText(u)
           E == EscapeDigits
<1>1. /\ Len(t) = E + 2 /\ E \in Nat \ {0} /\ t[1] = Backslash /\ t[2] = "u"
      /\ \A m \in 1 .. E : t[m + 2] = u[m] /\ u[m] \in HexDigits
  BY UnitTextIs, UnitsAreTexts
<1>2. Backslash \notin Controls \cup {Quote}
  BY DEF Controls, Backslash, Quote
<1> HIDE DEF t
<1>3. Len(t) \in Nat /\ Len(t) > 1 /\ Len(t) > 0 /\ Len(t) >= EscapeDigits + 2
  BY <1>1
<1>4. t[1] \notin Controls \cup {Quote} /\ t[2] = "u"
  BY <1>1, <1>2
<1>5. \A m \in 1 .. EscapeDigits : t[m + 2] \in HexDigits
  BY <1>1
<1>6. PieceBegin(t)
  BY <1>3, <1>4, <1>5, Zenon DEF PieceBegin
<1> QED
  BY <1>6 DEF t

LEMMA PieceBegins ==
  ASSUME NEW p \in Pieces
  PROVE  PieceBegin(p.text)
<1> DEFINE E == EscapeDigits
<1>1. CASE \E a \in CharacterTexts : p = CharacterPiece(a) /\ p.text = a
  <2>1. PICK a \in CharacterTexts : p.text = a
    BY <1>1
  <2>2. Len(a) \in Nat /\ Len(a) > 0
    BY <2>1, PiecesAreTexts
  <2>3. a[1] \notin Controls \cup {Quote} /\ a[1] # Backslash
    BY CharacterTextIs DEF Controls, Quote, Backslash
  <2> QED
    BY <2>1, <2>2, <2>3 DEF PieceBegin
<1>2. CASE \E x \in SimpleEscapes : p.text = <<Backslash, x>>
  <2>1. PICK x \in SimpleEscapes : p.text = <<Backslash, x>>
    BY <1>2
  <2>2. Len(p.text) = 2 /\ p.text[1] = Backslash /\ p.text[2] = x
    BY <2>1
  <2>3. x # "u" /\ Backslash \notin Controls \cup {Quote}
    BY DEF SimpleEscapes, Controls, Quote, Backslash
  <2> QED
    BY <2>2, <2>3 DEF PieceBegin
<1>3. CASE \E u \in Units : p.text = UnitText(u)
  BY <1>3, UnitBegins
<1>4. CASE \E u \in Leading, v \in Trailing : p.text = UnitText(u) \o UnitText(v)
  <2>1. PICK u \in Units, v \in Units : p.text = UnitText(u) \o UnitText(v)
    BY <1>4, UnitsAreTexts
  <2> DEFINE t == p.text
             a == UnitText(u)
  <2>2. E \in Nat \ {0} /\ Len(t) = (E + 2) + (E + 2) /\ \A m \in 1 .. E + 2 : t[m] = a[m]
    BY <2>1, PairTextIs, UnitsAreTexts DEF IsPairText
  <2>3. /\ Len(a) = E + 2 /\ a[1] = Backslash /\ a[2] = "u"
        /\ \A m \in 1 .. E : a[m + 2] = u[m] /\ u[m] \in HexDigits
    BY UnitTextIs, UnitsAreTexts
  <2> HIDE DEF t, a
  <2>4. t[1] = Backslash /\ t[2] = "u"
    BY <2>2, <2>3
  <2>5. \A m \in 1 .. E : t[m + 2] \in HexDigits
    <3> SUFFICES ASSUME NEW m \in 1 .. E PROVE t[m + 2] \in HexDigits
      OBVIOUS
    <3>1. m + 2 \in 1 .. E + 2
      BY <2>2
    <3> QED
      BY <2>2, <2>3, <3>1
  <2>6. Backslash \notin Controls \cup {Quote}
    BY DEF Controls, Backslash, Quote
  <2>7. Len(t) \in Nat /\ Len(t) > 1 /\ Len(t) >= E + 2
    BY <2>2
  <2> QED
    BY <2>4, <2>5, <2>6, <2>7 DEF PieceBegin, t
<1> QED
  BY <1>1, <1>2, <1>3, <1>4, PieceIs

LEMMA BeginFits ==
  ASSUME NEW s \in Seq(Bytes), NEW e \in Nat, NEW t, PieceBegin(t), Fits(s, e, t)
  PROVE  /\ e <= Len(s) => s[e] \notin Controls \cup {Quote}
         /\ e + 1 <= Len(s) /\ s[e] = Backslash => s[e + 1] \in {"u"} \cup SimpleEscapes
         /\ e + 1 <= Len(s) /\ s[e] = Backslash /\ s[e + 1] = "u" =>
              /\ Len(t) >= EscapeDigits + 2
              /\ \A m \in 1 .. EscapeDigits : e + 1 + m <= Len(s) => s[e + 1 + m] \in HexDigits
<1> DEFINE n == Len(s)
           l == Len(t)
<1>0. n \in Nat /\ l \in Nat /\ l > 0 /\ EscapeDigits \in Nat
  BY EscapeAssumption DEF PieceBegin
<1>9. \A m \in 1 .. l : e + m - 1 <= n => t[m] = s[e + m - 1]
  BY DEF Fits
<1> HIDE DEF n, l
<1>1. ASSUME e <= n PROVE t[1] = s[e]
  <2>1. 1 \in 1 .. l /\ e + 1 - 1 <= n /\ e + 1 - 1 = e
    BY <1>0, <1>1
  <2>2. t[1] = s[e + 1 - 1]
    BY <2>1, <1>9
  <2> QED
    BY <2>1, <2>2
<1>2. ASSUME e + 1 <= n, l > 1 PROVE t[2] = s[e + 1]
  <2>1. 2 \in 1 .. l /\ e + 2 - 1 <= n /\ e + 2 - 1 = e + 1
    BY <1>0, <1>2
  <2>2. t[2] = s[e + 2 - 1]
    BY <2>1, <1>9
  <2> QED
    BY <2>1, <2>2
<1>3. ASSUME e + 1 <= n, s[e] = Backslash PROVE t[1] = Backslash /\ l > 1 /\ t[2] = s[e + 1]
  <2>1. e <= n
    BY <1>0, <1>3
  <2>2. t[1] = Backslash /\ l > 1
    BY <1>1, <1>3, <2>1 DEF PieceBegin, l
  <2> QED
    BY <1>2, <1>3, <2>2
<1>4. ASSUME e + 1 <= n, s[e] = Backslash, s[e + 1] = "u"
      PROVE  l >= EscapeDigits + 2 /\ \A m \in 1 .. EscapeDigits : e + 1 + m <= n => s[e + 1 + m] \in HexDigits
  <2>1. l >= EscapeDigits + 2 /\ \A m \in 1 .. EscapeDigits : t[m + 2] \in HexDigits
    BY <1>3, <1>4 DEF PieceBegin, l
  <2>2. ASSUME NEW m \in 1 .. EscapeDigits, e + 1 + m <= n PROVE s[e + 1 + m] \in HexDigits
    <3> DEFINE k == m + 2
    <3>1. k \in 1 .. l /\ e + k - 1 <= n /\ e + k - 1 = e + 1 + m /\ t[k] \in HexDigits
      BY <1>0, <2>1, <2>2
    <3> HIDE DEF k
    <3>2. t[k] = s[e + k - 1]
      BY <3>1, <1>9
    <3> QED
      BY <3>1, <3>2
  <2> QED
    BY <2>1, <2>2
<1>5. e + 1 <= n /\ s[e] = Backslash => s[e + 1] \in {"u"} \cup SimpleEscapes
  BY <1>3 DEF PieceBegin
<1>6. e <= n => s[e] \notin Controls \cup {Quote}
  BY <1>1 DEF PieceBegin
<1> QED
  BY <1>4, <1>5, <1>6 DEF n, l

\* Where the scanner refuses a string, nothing begins that belongs into it.
LEMMA HopelessAt ==
  ASSUME NEW s \in Seq(Bytes), NEW e \in Nat,
         \/ e <= Len(s) /\ s[e] \in Controls \cup {Quote}
         \/ e + 1 <= Len(s) /\ s[e] = Backslash /\ s[e + 1] \notin {"u"} \cup SimpleEscapes
         \/ /\ e + 1 <= Len(s) /\ s[e] = Backslash /\ s[e + 1] = "u"
            /\ \E m \in 1 .. EscapeDigits : e + 1 + m <= Len(s) /\ s[e + 1 + m] \notin HexDigits
  PROVE  Hopeless(s, e) /\ Stuck(s, e)
<1>1. ASSUME NEW t, PieceBegin(t), Fits(s, e, t) PROVE FALSE
  BY <1>1, BeginFits
<1> QED
  BY <1>1, PieceBegins, UnitBegins DEF Hopeless, Stuck

LEMMA StuckAt ==
  ASSUME NEW s \in Seq(Bytes), NEW e \in Nat,
         \/ e >= Len(s)
         \/ e + 1 <= Len(s) /\ s[e] = Backslash /\ s[e + 1] = "u" /\ Len(s) < e + EscapeDigits + 2
  PROVE  Stuck(s, e)
<1>0. Len(s) \in Nat /\ EscapeDigits \in Nat
  BY EscapeAssumption
<1>1. ASSUME NEW t, PieceBegin(t), Fits(s, e, t) PROVE ~ (e + Len(t) <= Len(s))
  <2>1. Len(t) \in Nat /\ Len(t) > 0
    BY <1>1 DEF PieceBegin
  <2>2. CASE e >= Len(s)
    BY <1>0, <2>1, <2>2
  <2>3. CASE e + 1 <= Len(s) /\ s[e] = Backslash /\ s[e + 1] = "u" /\ Len(s) < e + EscapeDigits + 2
    <3>1. Len(t) >= EscapeDigits + 2
      BY <1>1, <2>3, BeginFits
    <3> QED
      BY <1>0, <2>1, <2>3, <3>1
  <2> QED
    BY <2>2, <2>3
<1>2. \A u \in Units : Len(UnitText(u)) = EscapeDigits + 2
  BY UnitsAreTexts
<1>3. \A u \in Units : e + EscapeDigits + 2 <= Len(s) => ~ Fits(s, e, UnitText(u))
  <2> SUFFICES ASSUME NEW u \in Units, e + EscapeDigits + 2 <= Len(s), Fits(s, e, UnitText(u)) PROVE FALSE
    OBVIOUS
  <2>1. e + Len(UnitText(u)) <= Len(s)
    BY <1>0, <1>2
  <2> QED
    BY <1>1, <2>1, UnitBegins
<1> QED
  BY <1>1, <1>3, PieceBegins DEF Stuck

-----------------------------------------------------------------------------
(* The errors                                                              *)

\* While there is no other error, the stream is the only one to report.
Cause ==
  /\ err \in {"none", "invalid_utf8"}
  /\ err = "invalid_utf8" <=> stream.state = "ERROR"

ErrOK == Scanning \/ (pc = "returned" /\ token \notin {"invalid", "eof"}) => Cause

WordOK ==
  Scanning /\ lost = 0 /\ pc = "word" =>
    /\ \A i \in 1 .. Taken : savedText[i] \in Letters
    /\ Taken = 0 => c \in Letters

\* The invariant that makes scan refuse only what it has to.
RInv == ErrOK /\ WordOK /\ RejectsOnlyNonLexemes

LEMMA GetCharCause ==
  ASSUME StreamOK, GetChar, Cause
  PROVE  Cause'
<1>0. stream \in Streams
  BY DEF StreamOK
<1>1. CASE stream.state # "OK"
  BY <1>1 DEF GetChar, Cause
<1>2. CASE stream.state = "OK" /\ stream.pos >= Len(stream.buffer)
  <2>1. Fetch
    BY <1>2 DEF GetChar
  <2>2. err = "none"
    BY <1>2 DEF Cause
  <2>3. ASSUME NEW x \in {"EOF", "ERROR"}, Ends(x) PROVE stream'.state = x
    BY <1>0, <2>3 DEF Ends, Streams
  <2>4. CASE SourceEnds
    BY <2>2, <2>3, <2>4 DEF SourceEnds, Cause
  <2>5. CASE ~ SourceEnds
    <3>1. PICK f, b : \/ stream' = Advanced([stream EXCEPT !.buffer = f, !.pos = 0], b) /\ UNCHANGED err
                      \/ Ends("ERROR") /\ err' = Reported("invalid_utf8")
      BY <2>1, <2>5 DEF Fetch
    <3>2. CASE Ends("ERROR") /\ err' = Reported("invalid_utf8")
      BY <2>2, <2>3, <3>2 DEF Reported, Cause
    <3>3. CASE stream' = Advanced([stream EXCEPT !.buffer = f, !.pos = 0], b) /\ UNCHANGED err
      <4> DEFINE x == [stream EXCEPT !.buffer = f, !.pos = 0]
      <4>1. stream'.state = x.state
        BY <3>3 DEF Advanced
      <4>2. x.state = stream.state
        BY <1>0 DEF Streams
      <4> QED
        BY <1>2, <2>2, <3>3, <4>1, <4>2 DEF Cause
    <3> QED
      BY <3>1, <3>2, <3>3
  <2> QED
    BY <2>4, <2>5
<1>3. CASE stream.state = "OK" /\ ~ (stream.pos >= Len(stream.buffer))
  <2>1. stream' = Advanced(stream, c') /\ UNCHANGED err
    BY <1>3 DEF GetChar
  <2>2. stream'.state = stream.state
    BY <1>0, <2>1, AdvancedIs
  <2> QED
    BY <2>1, <2>2 DEF Cause
<1> QED
  BY <1>1, <1>2, <1>3

\* What is refused is what the property says.
LEMMA Refuses ==
  ASSUME IInv, TInv, RInv, Scanning,
         pc' = "returned", token' = "invalid", UNCHANGED <<input, from>>, stream'.state = stream.state,
         NEW code \in {"none", "syntax", "premature_end"},
         err' = IF code = "none" THEN err ELSE Reported(code),
         code = "premature_end" => c = "EOF",
         lost' = 0 /\ stream.state # "ERROR" => Rejected(Between(from, Len(input)), c \in NoChar)
  PROVE  RInv'
<1>0. /\ input \in Seq(Bytes) /\ Len(input) \in Nat /\ from \in Nat /\ from <= Len(input)
      /\ stream.state \in {"OK", "EOF", "ERROR"}
  BY DEF IInv, StreamOK, Streams, Control
<1>1. ErrOK' /\ WordOK'
  BY DEF ErrOK, WordOK, Scanning
<1>2. Cause
  BY DEF RInv, ErrOK
<1>3. stream'.state = "ERROR" <=> err' = "invalid_utf8"
  BY <1>2 DEF Cause, Reported
<1>4. ASSUME err' = "premature_end" PROVE stream'.state = "EOF"
  <2>1. code = "premature_end"
    BY <1>2, <1>4 DEF Cause, Reported
  <2>2. stream.state = c
    BY <2>1 DEF TInv, NoChar
  <2> QED
    BY <2>1, <2>2
<1> DEFINE g == Between(from, Len(input))
<1>5. /\ g \in Seq(Bytes) /\ Len(g) = Len(input) - from
      /\ \A m \in 1 .. Len(input) - from : g[m] = input[from + m]
  <2>1. Len(input) \in from .. Len(input)
    BY <1>0
  <2> QED
    BY <1>0, <2>1, PartIs DEF Between
<1>6. ASSUME NEW k \in from + 1 .. Len(input) PROVE Between(from, k) = SubSeq(g, 1, k - from)
  <2> DEFINE x == SubSeq(input, from + 1, k)
             y == SubSeq(g, 1, k - from)
  <2>1. k \in from .. Len(input) /\ k - from \in 0 .. Len(g) /\ k - from \in Nat
    BY <1>0, <1>5
  <2>2. x \in Seq(Bytes) /\ Len(x) = k - from /\ \A m \in 1 .. k - from : x[m] = input[from + m]
    BY <1>0, <2>1, PartIs
  <2> HIDE DEF g
  <2>3. y \in Seq(Bytes) /\ Len(y) = k - from /\ \A m \in 1 .. k - from : y[m] = g[m]
    BY <1>5, <2>1, BeginningIs
  <2>4. \A m \in 1 .. k - from : m \in 1 .. Len(input) - from
    BY <1>5, <2>1
  <2> HIDE DEF x, y
  <2>5. \A m \in 1 .. Len(x) : x[m] = y[m]
    BY <1>5, <2>2, <2>3, <2>4
  <2>6. x = y
    BY <2>2, <2>3, <2>5, SeqEqual
  <2> QED
    BY <2>6 DEF x, y, Between
<1>7. ASSUME lost' = 0, stream.state # "ERROR"
      PROVE  /\ stream'.state = "OK" => ~ BeginsLexeme(Between(from, Len(input)))
             /\ \A k \in from + 1 .. Len(input) :
                  IsLexeme(Between(from, k)) =>
                    k < Len(input) /\ (input[k + 1] \in Digits \cup Letters \/ BeginsLexeme(Between(from, k + 1)))
  <2>1. Rejected(g, c \in NoChar)
    BY <1>7
  <2>2. stream.state = "OK" => c \notin NoChar
    BY DEF TInv, NoChar
  <2> HIDE DEF g
  <2>3. ASSUME NEW k \in from + 1 .. Len(input), IsLexeme(Between(from, k))
        PROVE  k < Len(input) /\ (input[k + 1] \in Digits \cup Letters \/ BeginsLexeme(Between(from, k + 1)))
    <3> DEFINE m == k - from
    <3>1. m \in 1 .. Len(g) /\ m \in Nat /\ from + m = k /\ k \in Nat
      BY <1>0, <1>5
    <3>2. IsLexeme(SubSeq(g, 1, m))
      BY <1>6, <2>3
    <3> HIDE DEF m
    <3>3. m < Len(g) /\ (g[m + 1] \in Digits \cup Letters \/ BeginsLexeme(SubSeq(g, 1, m + 1)))
      BY <2>1, <3>1, <3>2 DEF Rejected
    <3>4. /\ k < Len(input) /\ m + 1 \in 1 .. Len(input) - from /\ from + (m + 1) = k + 1
          /\ k + 1 \in from + 1 .. Len(input) /\ (k + 1) - from = m + 1
      BY <1>0, <1>5, <3>1, <3>3
    <3>5. g[m + 1] = input[from + (m + 1)]
      BY <1>5, <3>4
    <3>6. Between(from, k + 1) = SubSeq(g, 1, (k + 1) - from)
      BY <1>6, <3>4
    <3> QED
      BY <3>3, <3>4, <3>5, <3>6
  <2>4. stream'.state = "OK" => ~ BeginsLexeme(g)
    BY <2>1, <2>2 DEF Rejected
  <2> QED
    BY <2>3, <2>4 DEF g
<1>8. RejectsOnlyNonLexemes'
  <2> SUFFICES ASSUME lost' = 0
               PROVE  /\ stream'.state = "OK" => ~ BeginsLexeme(Between(from, Len(input)))
                      /\ stream'.state # "ERROR" =>
                           \A k \in from + 1 .. Len(input) :
                             IsLexeme(Between(from, k)) =>
                               /\ k < Len(input)
                               /\ input[k + 1] \in Digits \cup Letters \/ BeginsLexeme(Between(from, k + 1))
                      /\ stream'.state = "ERROR" <=> err' = "invalid_utf8"
                      /\ err' = "premature_end" => stream'.state = "EOF"
    BY DEF RejectsOnlyNonLexemes, Between
  <2> QED
    BY <1>3, <1>4, <1>7
<1> QED
  BY <1>1, <1>8 DEF RInv

\* The input from the token on: the text, the last character and the rest of it.
LEMMA BytesOfToken ==
  ASSUME IInv, TInv, Scanning, lost = 0, stream.state # "ERROR", NEW g, g = Between(from, Len(input))
  PROVE  /\ Shape
         /\ g \in Seq(Bytes) /\ savedText \in Seq(Bytes) /\ Taken \in Nat
         /\ Len(savedText) = IF pc \in {"blank", "point"} \/ c \in NoChar THEN Taken ELSE Taken + 1
         /\ Len(savedText) <= Len(g) /\ \A i \in 1 .. Len(savedText) : savedText[i] = g[i]
         /\ c \in NoChar => Len(g) = Taken
         /\ c \notin NoChar => Taken < Len(g) /\ g[Taken + 1] = c
<1>0. /\ input \in Seq(Bytes) /\ Len(input) \in Nat /\ from \in Nat /\ from <= Len(input)
      /\ savedText \in Seq(Bytes) /\ Len(savedText) \in Nat
      /\ stream.position \in Nat /\ stream.position <= Len(input)
  BY DEF IInv, StreamOK, Streams, Control, Scanning, TextOK
<1>1. from <= Before /\ TextTo(IF pc \in {"blank", "point"} THEN Before ELSE stream.position) /\ Shape
  BY DEF TInv, TextIsInput
<1>2. c \notin NoChar => stream.position > 0 /\ input[stream.position] = c
  BY DEF IInv, CharRead
<1>3. c \in NoChar => stream.position = Len(input)
  <2> SUFFICES ASSUME c \in NoChar PROVE stream.position = Len(input)
    OBVIOUS
  <2>1. stream.state = c /\ stream.state # "OK"
    BY DEF TInv, NoChar
  <2>2. stream.pos = Len(stream.buffer)
    BY <2>1 DEF TInv, StateOK
  <2>3. Continues(input, stream.position, stream.buffer, stream.pos)
    BY DEF IInv, StreamOK
  <2>4. Len(stream.buffer) \in Nat
    BY DEF IInv, StreamOK, Streams
  <2> QED
    BY <1>0, <2>2, <2>3, <2>4 DEF Continues
<1> DEFINE n == IF pc \in {"blank", "point"} THEN Before ELSE stream.position
<1>4. Before = IF c \in NoChar THEN stream.position ELSE stream.position - 1
  BY DEF Before
<1>5. Before \in Nat /\ n \in Nat /\ n <= Len(input) /\ Taken \in Nat /\ from + Taken = Before
  BY <1>0, <1>1, <1>2, <1>4 DEF Taken
<1>6. from + Len(savedText) = n /\ \A m \in 1 .. Len(savedText) : savedText[m] = input[from + m]
  BY <1>1 DEF TextTo, Has
<1>7. Len(savedText) = IF pc \in {"blank", "point"} \/ c \in NoChar THEN Taken ELSE Taken + 1
  BY <1>0, <1>4, <1>5, <1>6
<1>8. /\ g \in Seq(Bytes) /\ Len(g) = Len(input) - from
      /\ \A m \in 1 .. Len(input) - from : g[m] = input[from + m]
  <2>1. Len(input) \in from .. Len(input)
    BY <1>0
  <2> QED
    BY <1>0, <2>1, PartIs DEF Between
<1>9. Len(savedText) <= Len(g) /\ Len(savedText) <= Len(input) - from
  BY <1>0, <1>5, <1>6, <1>8
<1>10. \A i \in 1 .. Len(savedText) : savedText[i] = g[i]
  BY <1>0, <1>6, <1>8, <1>9
<1>11. c \in NoChar => Len(g) = Taken
  BY <1>0, <1>3, <1>4, <1>5, <1>8
<1>12. ASSUME c \notin NoChar PROVE Taken < Len(g) /\ g[Taken + 1] = c
  <2> DEFINE p == stream.position
             l == Len(input)
             k == Taken
             f == Len(g)
  <2>0. /\ p \in Nat /\ p > 0 /\ p <= l /\ l \in Nat /\ k \in Nat /\ from \in Nat
        /\ from + k = p - 1 /\ f = l - from
    BY <1>0, <1>2, <1>4, <1>5, <1>8, <1>12
  <2> HIDE DEF p, l, k, f
  <2>3. from + (k + 1) = p /\ k + 1 \in 1 .. l - from /\ k < f
    BY <2>0
  <2>1. from + (Taken + 1) = stream.position /\ Taken + 1 \in 1 .. Len(input) - from /\ Taken < Len(g)
    BY <2>3 DEF p, l, k, f
  <2>2. g[Taken + 1] = input[from + (Taken + 1)]
    BY <1>8, <2>1
  <2> QED
    BY <1>2, <1>12, <2>1, <2>2
<1> QED
  BY <1>0, <1>1, <1>5, <1>7, <1>8, <1>9, <1>10, <1>11, <1>12


\* A character that is put back does not end the stream, nor undo its end.
LEMMA PutBackState ==
  ASSUME IInv, stream' = PutBack
  PROVE  stream'.state = stream.state
<1>1. stream \in Streams
  BY DEF IInv, StreamOK
<1> QED
  BY <1>1 DEF PutBack, Streams

\* When nothing was lost before, nothing is lost by not appending.
LEMMA NothingWasLost ==
  ASSUME IInv, lost' = 0, (\E x : AppendBytes(x)) \/ Unsave \/ UNCHANGED text
  PROVE  lost = 0
<1>1. lost \in Nat
  BY SizesAssumption DEF IInv
<1>2. ASSUME NEW x, AppendBytes(x) PROVE UNCHANGED lost \/ lost' = lost + 1
  BY <1>2, Zenon DEF AppendBytes
<1>3. Unsave \/ UNCHANGED text => UNCHANGED lost
  BY DEF Unsave, text
<1> QED
  BY <1>1, <1>2, <1>3

-----------------------------------------------------------------------------
(* The steps that refuse                                                   *)

\* A byte that begins no token.
LEMMA UnknownRefuses == IInv /\ TInv /\ RInv /\ Unknown => RInv'
<1> SUFFICES ASSUME IInv, TInv, RInv, Unknown PROVE RInv'
  OBVIOUS
<1> DEFINE rest == SubSeq(stream.buffer, stream.pos + 1, Len(stream.buffer))
           g == Between(from, Len(input))
<1>1. /\ pc = "blank" /\ Scanning /\ c \notin NoChar
      /\ c \notin Digits \cup {"-"} \cup Letters \cup {"[", Quote}
      /\ AppendBytes(<<c>> \o rest)
      /\ stream' = [stream EXCEPT !.pos = Len(stream.buffer), !.position = @ + Len(rest)]
      /\ token' = "invalid" /\ pc' = "returned" /\ UNCHANGED <<input, from, err>>
  BY DEF Unknown, Begun, Scanning
<1>2. stream'.state = stream.state
  <2>1. stream \in Streams
    BY DEF IInv, StreamOK
  <2> QED
    BY <1>1, <2>1 DEF Streams
<1> HIDE DEF rest
<1>3. ASSUME lost' = 0, stream.state # "ERROR" PROVE Rejected(g, c \in NoChar)
  <2>1. lost = 0
    BY <1>1, <1>3, NothingWasLost
  <2>2. /\ Shape /\ g \in Seq(Bytes) /\ Taken \in Nat /\ Len(savedText) = Taken
        /\ Taken < Len(g) /\ g[Taken + 1] = c
    BY <1>1, <1>3, <2>1, BytesOfToken
  <2> HIDE DEF g
  <2>3. savedText = << >>
    BY <1>1, <2>2 DEF Shape
  <2>4. Taken = 0 /\ Len(g) > 0 /\ g[1] = c
    BY <2>2, <2>3
  <2> QED
    BY <1>1, <2>2, <2>4, NothingRejected
<1> QED
  BY <1>1, <1>2, <1>3, Refuses

\* The end of the input, or bytes that are no character, where a token would begin.
LEMMA NoTokenRefuses == IInv /\ TInv /\ RInv /\ NoToken => RInv'
<1> SUFFICES ASSUME IInv, TInv, RInv, NoToken PROVE RInv'
  OBVIOUS
<1>1. /\ Scanning /\ pc' = "returned" /\ UNCHANGED <<input, from, err, stream>>
      /\ token' = IF c = "EOF" THEN "eof" ELSE "invalid"
      /\ c \in NoChar /\ stream.state = c
  BY DEF NoToken, Return, Scanning, TInv
<1>2. CASE c = "EOF"
  BY <1>1, <1>2 DEF RInv, ErrOK, WordOK, RejectsOnlyNonLexemes, Scanning
<1>3. CASE c # "EOF"
  <2>1. stream.state = "ERROR" /\ stream'.state = stream.state /\ token' = "invalid"
    BY <1>1, <1>3 DEF NoChar
  <2> QED
    BY <1>1, <2>1, Refuses
<1> QED
  BY <1>2, <1>3

\* Letters that are no keyword.
LEMMA WordRefuses ==
  ASSUME IInv, TInv, RInv, Word, c \notin Letters, savedText' \notin Keywords
  PROVE  RInv'
<1> DEFINE g == Between(from, Len(input))
           n == Taken
<1>1. /\ pc = "word" /\ Scanning /\ stream' = PutBack /\ Unsave
      /\ pc' = "returned" /\ token' = "invalid" /\ UNCHANGED <<input, c, from, err>>
  BY DEF Word, Invalid, Return, Scanning
<1>2. stream'.state = stream.state
  BY <1>1, PutBackState
<1>3. ASSUME lost' = 0, stream.state # "ERROR" PROVE Rejected(g, c \in NoChar)
  <2>1. lost = 0
    BY <1>1, <1>3, NothingWasLost
  <2>2. /\ g \in Seq(Bytes) /\ savedText \in Seq(Bytes) /\ n \in Nat
        /\ Len(savedText) = IF c \in NoChar THEN n ELSE n + 1
        /\ Len(savedText) <= Len(g) /\ \A i \in 1 .. Len(savedText) : savedText[i] = g[i]
        /\ c \in NoChar => Len(g) = n
        /\ c \notin NoChar => n < Len(g) /\ g[n + 1] = c
    BY <1>1, <1>3, <2>1, BytesOfToken
  <2>3. /\ savedText' \in Seq(Bytes) /\ Len(savedText') = n
        /\ \A i \in 1 .. n : savedText'[i] = savedText[i]
    BY <1>1, <1>3, LeavesChar
  <2>4. /\ \A i \in 1 .. n : savedText[i] \in Letters
        /\ n = 0 => c \in Letters
    BY <1>1, <2>1 DEF RInv, WordOK
  <2> HIDE DEF g, n
  <2>5. n # 0 /\ n \in 1 .. Len(g) /\ n \in 0 .. Len(g)
    BY <2>2, <2>4
  <2>6. \A i \in 1 .. n : i \in 1 .. Len(savedText)
    BY <2>2
  <2>7. \A i \in 1 .. n : g[i] \in Letters /\ savedText'[i] = g[i]
    BY <2>2, <2>3, <2>4, <2>6
  <2>8. SubSeq(g, 1, n) = savedText'
    <3> DEFINE x == SubSeq(g, 1, n)
               y == savedText'
    <3>1. x \in Seq(Bytes) /\ Len(x) = n /\ \A i \in 1 .. n : x[i] = g[i]
      BY <2>2, <2>5, BeginningIs
    <3> HIDE DEF x
    <3> QED
      BY <2>3, <2>7, <3>1, SeqEqual DEF x
  <2>9. SubSeq(g, 1, n) \notin Keywords
    BY <2>8
  <2>10. n < Len(g) => g[n + 1] \notin Letters
    BY <2>2
  <2> QED
    BY <2>2, <2>5, <2>7, <2>9, <2>10, WordRejected
<1> QED
  BY <1>1, <1>2, <1>3, Refuses


\* What the scan of a number has taken is in the input, and cannot go on.
LEMMA NumberStops ==
  ASSUME IInv, TInv, Scanning, lost = 0, stream.state # "ERROR",
         pc \in {"integer", "exponent", "sign", "point"} \/ (pc = "zero" /\ c \in Digits),
         ~ \E to : <<pc, c, to>> \in NumberSteps
  PROVE  Rejected(Between(from, Len(input)), c \in NoChar)
<1> DEFINE g == Between(from, Len(input))
           n == Taken
           t == savedText
<1>1. /\ Shape /\ g \in Seq(Bytes) /\ n \in Nat
      /\ Len(t) = IF pc \in {"blank", "point"} \/ c \in NoChar THEN n ELSE n + 1
      /\ Len(t) <= Len(g) /\ \A i \in 1 .. Len(t) : t[i] = g[i]
      /\ c \in NoChar => Len(g) = n
      /\ c \notin NoChar => n < Len(g) /\ g[n + 1] = c
  BY BytesOfToken
<1>2. NumberTo(pc, t, n)
  BY <1>1 DEF Shape, NumberStates
<1> HIDE DEF g, n, t
<1>3. n # 0
  <2>1. pc # "number"
    OBVIOUS
  <2> QED
    BY <1>1, <1>2, <2>1, NumberBytes
<1>4. \A i \in 1 .. n : i \in 1 .. Len(t)
  BY <1>1
<1>5. NumberTo(pc, g, n)
  <2>1. \A i \in 1 .. n : t[i] = g[i]
    BY <1>1, <1>4
  <2> QED
    BY <1>1, <1>2, <2>1, SameBytesSameNumber
<1>6. n \in 1 .. Len(g)
  BY <1>1, <1>3
<1>7. n < Len(g) => c \notin NoChar /\ g[n + 1] = c
  BY <1>1
<1>8. pc \in {"zero", "whole", "fraction", "power"} => n < Len(g) /\ g[n + 1] \in Digits
  BY <1>1, CharsAreNoBytes DEF Digits, NoChar
<1>9. n < Len(g) => ~ \E to : <<pc, g[n + 1], to>> \in NumberSteps
  BY <1>7
<1>10. c \in NoChar \/ n < Len(g)
  BY <1>1
<1> QED
  BY <1>1, <1>5, <1>6, <1>8, <1>9, <1>10, NumberRejected DEF g

\* A point that no digit follows.
LEMMA AfterPointRefuses ==
  ASSUME IInv, TInv, RInv, AfterPoint, c \notin Digits
  PROVE  RInv'
<1>1. /\ pc = "point" /\ Scanning /\ stream' = PutBack /\ UNCHANGED text
      /\ pc' = "returned" /\ token' = "invalid" /\ UNCHANGED <<input, from, err>>
  BY DEF AfterPoint, Invalid, Return, Scanning
<1>2. stream'.state = stream.state
  BY <1>1, PutBackState
<1>3. ASSUME lost' = 0, stream.state # "ERROR" PROVE Rejected(Between(from, Len(input)), c \in NoChar)
  <2>1. lost = 0
    BY <1>1, <1>3, NothingWasLost
  <2>2. ~ \E to : <<pc, c, to>> \in NumberSteps
    BY <1>1 DEF NumberSteps, NumberNext
  <2> QED
    BY <1>1, <1>3, <2>1, <2>2, NumberStops
<1> QED
  BY <1>1, <1>2, <1>3, Refuses

\* A number that ends too early, or has a digit behind its zero.
LEMMA NumberBrokenRefuses == IInv /\ TInv /\ RInv /\ NumberBroken => RInv'
<1> SUFFICES ASSUME IInv, TInv, RInv, NumberBroken PROVE RInv'
  OBVIOUS
<1>1. /\ pc \in NumberStates /\ ~ InNumber /\ Scanning /\ stream' = PutBack /\ Unsave
      /\ pc \in {"integer", "exponent", "sign"} \/ (pc = "zero" /\ c \in Digits)
      /\ pc' = "returned" /\ token' = "invalid" /\ UNCHANGED <<input, from, err>>
  BY DEF NumberBroken, Invalid, Return, Scanning, NumberStates
<1>2. stream'.state = stream.state
  BY <1>1, PutBackState
<1>3. ASSUME lost' = 0, stream.state # "ERROR" PROVE Rejected(Between(from, Len(input)), c \in NoChar)
  <2>1. lost = 0
    BY <1>1, <1>3, NothingWasLost
  <2>2. ~ \E to : <<pc, c, to>> \in NumberSteps
    BY <1>1 DEF NumberSteps, NumberNext, InNumber, NumberStates
  <2> QED
    BY <1>1, <1>3, <2>1, <2>2, NumberStops
<1> QED
  BY <1>1, <1>2, <1>3, Refuses

\* An error other than those that the property is about.
LEMMA OtherError ==
  ASSUME IInv, TInv, RInv, Scanning, pc' = "returned", token' = "invalid",
         UNCHANGED <<input, from>>, stream'.state = stream.state,
         NEW code \in {"out_of_memory", "overflow"}, err' = Reported(code)
  PROVE  RInv'
<1>1. CASE err = "none"
  BY <1>1 DEF RInv, ErrOK, WordOK, RejectsOnlyNonLexemes, Scanning, Reported
<1>2. CASE err # "none"
  <2>1. err' = err /\ stream.state = "ERROR"
    BY <1>2 DEF RInv, ErrOK, Cause, Reported
  <2> QED
    BY <2>1, Refuses
<1> QED
  BY <1>1, <1>2

\* A number that does not fit.
LEMMA NumberTooBig ==
  ASSUME IInv, TInv, RInv, IntegerEnds \/ RealEnds, Invalid("overflow")
  PROVE  RInv'
<1>1. Scanning /\ stream' = PutBack
  BY DEF IntegerEnds, RealEnds, Scanning
<1>2. pc' = "returned" /\ token' = "invalid" /\ UNCHANGED <<input, from>> /\ err' = Reported("overflow")
  BY DEF Invalid, Return
<1>3. stream'.state = stream.state
  BY <1>1, PutBackState
<1> QED
  BY <1>1, <1>2, <1>3, OtherError


\* A string that breaks off where nothing begins that belongs into it.
LEMMA StringStops ==
  ASSUME IInv, TInv, Scanning, lost = 0, stream.state # "ERROR", pc \in {"string", "escape", "digits"},
         NEW g, g = Between(from, Len(input)),
         NEW e \in Nat, Parts(savedText, e), e <= Len(savedText) + 1, Stuck(g, e),
         e <= Len(g) => g[e] # Quote, c \in NoChar \/ (e <= Len(g) /\ Hopeless(g, e))
  PROVE  Rejected(g, c \in NoChar)
<1>1. /\ Shape /\ g \in Seq(Bytes) /\ savedText \in Seq(Bytes) /\ Taken \in Nat
      /\ Len(savedText) = IF pc \in {"blank", "point"} \/ c \in NoChar THEN Taken ELSE Taken + 1
      /\ Len(savedText) <= Len(g) /\ \A i \in 1 .. Len(savedText) : savedText[i] = g[i]
  BY BytesOfToken
<1>2. savedText[1] = Quote /\ Taken > 0
  BY <1>1 DEF Shape
<1>3. 1 \in 1 .. Len(savedText) /\ Len(g) > 0 /\ e <= Len(g) + 1
  BY <1>1, <1>2
<1>4. g[1] = Quote
  BY <1>1, <1>2, <1>3
<1>5. Parts(g, e)
  BY <1>1, PartsStay
<1>6. PICK B \in SUBSET (2 .. e) : Whole(g, B, e)
  BY <1>5 DEF Parts
<1> QED
  BY <1>1, <1>3, <1>4, <1>6, StringRejected

\* A control character or the end of the input in a string.
LEMMA StringBrokenRefuses == IInv /\ TInv /\ RInv /\ StringBroken => RInv'
<1> SUFFICES ASSUME IInv, TInv, RInv, StringBroken PROVE RInv'
  OBVIOUS
<1> DEFINE code == IF c = "ERROR" THEN "none" ELSE IF c = "EOF" THEN "premature_end" ELSE "syntax"
           g == Between(from, Len(input))
           e == Taken + 1
<1>1. /\ pc = "string" /\ c \in Controls \cup NoChar /\ Scanning /\ stream' = PutBack /\ Unsave
      /\ pc' = "returned" /\ token' = "invalid" /\ UNCHANGED <<input, from>>
      /\ err' = IF code = "none" THEN err ELSE Reported(code)
  BY DEF StringBroken, Invalid, Return, Scanning
<1>2. stream'.state = stream.state
  BY <1>1, PutBackState
<1>3. ASSUME lost' = 0, stream.state # "ERROR" PROVE Rejected(g, c \in NoChar)
  <2>1. lost = 0
    BY <1>1, <1>3, NothingWasLost
  <2>2. /\ Shape /\ g \in Seq(Bytes) /\ savedText \in Seq(Bytes) /\ Taken \in Nat
        /\ Len(savedText) = IF c \in NoChar THEN Taken ELSE Taken + 1
        /\ Len(savedText) <= Len(g)
        /\ c \in NoChar => Len(g) = Taken
        /\ c \notin NoChar => Taken < Len(g) /\ g[Taken + 1] = c
    BY <1>1, <1>3, <2>1, BytesOfToken
  <2> HIDE DEF g
  <2>3. c \notin NoChar => stream.pos = 1 /\ c \in Controls
    <3> SUFFICES ASSUME c \notin NoChar PROVE stream.pos = 1 /\ c \in Controls
      OBVIOUS
    <3>1. c \in Controls /\ c \in Ascii
      BY <1>1 DEF Ascii
    <3>2. StreamOK /\ CharRead /\ BufferOK
      BY <1>1 DEF IInv, TInv
    <3> QED
      BY <3>1, <3>2, AsciiIsAlone
  <2>4. Parts(savedText, e)
    <3>1. Parts(savedText, IF c \in NoChar THEN Taken + 1 ELSE Taken + 2 - stream.pos)
      BY <1>1, <2>2 DEF Shape
    <3>2. Taken + 2 - 1 = Taken + 1
      BY <2>2
    <3> QED
      BY <2>3, <3>1, <3>2
  <2>5. /\ e \in Nat /\ e <= Len(savedText) + 1
        /\ c \in NoChar => e >= Len(g) /\ ~ (e <= Len(g))
        /\ c \notin NoChar => e <= Len(g) /\ g[e] \in Controls
    BY <2>2, <2>3
  <2> HIDE DEF e
  <2>6. Stuck(g, e) /\ (c \notin NoChar => Hopeless(g, e))
    <3>1. CASE c \in NoChar
      BY <2>2, <2>5, <3>1, StuckAt
    <3>2. CASE c \notin NoChar
      BY <2>2, <2>5, <3>2, HopelessAt
    <3> QED
      BY <3>1, <3>2
  <2>7. e <= Len(g) => g[e] # Quote
    BY <2>5 DEF Controls, Quote
  <2> QED
    BY <1>1, <1>3, <2>1, <2>4, <2>5, <2>6, <2>7, StringStops DEF g
<1>4. code \in {"none", "syntax", "premature_end"} /\ (code = "premature_end" => c = "EOF")
  OBVIOUS
<1> HIDE DEF code, g
<1> QED
  BY <1>1, <1>2, <1>3, <1>4, Refuses DEF g

\* What follows a backslash and is no escape.
LEMMA EscapeRefuses ==
  ASSUME IInv, TInv, RInv, Escape, c \notin {"u"} \cup SimpleEscapes
  PROVE  RInv'
<1> DEFINE g == Between(from, Len(input))
           e == Taken
<1>1. /\ pc = "escape" /\ Scanning /\ UNCHANGED <<stream, text>>
      /\ pc' = "returned" /\ token' = "invalid" /\ UNCHANGED <<input, from>>
      /\ err' = Reported("syntax")
  BY DEF Escape, Invalid, Return, Scanning
<1>2. ASSUME lost' = 0, stream.state # "ERROR" PROVE Rejected(g, c \in NoChar)
  <2>1. lost = 0
    BY <1>1, <1>2, NothingWasLost
  <2>2. /\ Shape /\ g \in Seq(Bytes) /\ savedText \in Seq(Bytes) /\ e \in Nat
        /\ Len(savedText) = IF c \in NoChar THEN e ELSE e + 1
        /\ Len(savedText) <= Len(g) /\ \A i \in 1 .. Len(savedText) : savedText[i] = g[i]
        /\ c \in NoChar => Len(g) = e
        /\ c \notin NoChar => e < Len(g) /\ g[e + 1] = c
    BY <1>1, <1>2, <2>1, BytesOfToken
  <2>3. savedText[e] = Backslash /\ Parts(savedText, e) /\ e > 0
    BY <1>1, <2>2 DEF Shape
  <2> HIDE DEF g, e
  <2>4. /\ e \in 1 .. Len(savedText) /\ e <= Len(savedText) + 1
        /\ c \in NoChar => e >= Len(g)
        /\ c \notin NoChar => e + 1 <= Len(g) /\ e <= Len(g)
    BY <2>2, <2>3
  <2>5. g[e] = Backslash
    BY <2>2, <2>3, <2>4
  <2>6. Stuck(g, e) /\ (c \notin NoChar => Hopeless(g, e))
    <3>1. CASE c \in NoChar
      BY <2>2, <2>4, <3>1, StuckAt
    <3>2. CASE c \notin NoChar
      <4>1. e + 1 <= Len(g) /\ g[e] = Backslash /\ g[e + 1] \notin {"u"} \cup SimpleEscapes
        BY <2>2, <2>4, <2>5, <3>2
      <4> QED
        BY <2>2, <4>1, HopelessAt
    <3> QED
      BY <3>1, <3>2
  <2>7. g[e] # Quote
    BY <2>5 DEF Backslash, Quote
  <2> QED
    BY <1>1, <1>2, <2>1, <2>2, <2>3, <2>4, <2>6, <2>7, StringStops DEF g
<1>3. stream'.state = stream.state
  BY <1>1
<1> HIDE DEF g
<1> QED
  BY <1>1, <1>2, <1>3, Refuses DEF g

\* A digit of \u that is none.
LEMMA EscapeDigitRefuses ==
  ASSUME IInv, TInv, RInv, EscapeDigit, c \notin HexDigits
  PROVE  RInv'
<1> DEFINE g == Between(from, Len(input))
           n == Taken
           E == EscapeDigits
           e == n - 1 - (E - due)
<1>1. /\ pc = "digits" /\ Scanning /\ UNCHANGED <<stream, text>>
      /\ pc' = "returned" /\ token' = "invalid" /\ UNCHANGED <<input, from>>
      /\ err' = Reported("syntax")
  BY DEF EscapeDigit, Invalid, Return, Scanning
<1>2. ASSUME lost' = 0, stream.state # "ERROR" PROVE Rejected(g, c \in NoChar)
  <2>1. lost = 0
    BY <1>1, <1>2, NothingWasLost
  <2>2. /\ Shape /\ g \in Seq(Bytes) /\ savedText \in Seq(Bytes) /\ n \in Nat
        /\ Len(savedText) = IF c \in NoChar THEN n ELSE n + 1
        /\ Len(savedText) <= Len(g) /\ \A i \in 1 .. Len(savedText) : savedText[i] = g[i]
        /\ c \in NoChar => Len(g) = n
        /\ c \notin NoChar => n < Len(g) /\ g[n + 1] = c
    BY <1>1, <1>2, <2>1, BytesOfToken
  <2>3. savedText[e] = Backslash /\ savedText[e + 1] = "u" /\ Parts(savedText, e)
    BY <1>1, <2>2 DEF Shape
  <2>4. E \in Nat /\ due \in Nat /\ due <= E /\ due > 0
    BY <1>1, EscapeAssumption DEF IInv, Control
  <2> DEFINE k == Len(savedText)
             l == Len(g)
  <2>5. /\ k \in Nat /\ l \in Nat /\ k <= l /\ k = IF c \in NoChar THEN n ELSE n + 1
        /\ c \in NoChar => l = n
        /\ c \notin NoChar => n < l
    BY <2>2
  <2> HIDE DEF g, n, E, k, l
  <2>6. e \in Int
    BY <2>2, <2>4
  <2>7. e >= 2
    BY <2>3, <2>6, PartsBegin
  <2>8. /\ e \in Nat /\ e + 1 <= n /\ e \in 1 .. k /\ e + 1 \in 1 .. k /\ e <= k + 1
        /\ e <= l /\ e + 1 <= l
        /\ c \in NoChar => l < e + E + 2
        /\ n - e \in 1 .. E /\ e + 1 + (n - e) = n + 1
    BY <2>2, <2>4, <2>5, <2>7
  <2> HIDE DEF e
  <2>9. g[e] = Backslash /\ g[e + 1] = "u"
    BY <2>2, <2>3, <2>8 DEF k
  <2>10. Stuck(g, e) /\ (c \notin NoChar => Hopeless(g, e))
    <3>1. CASE c \in NoChar
      <4>1. e + 1 <= Len(g) /\ g[e] = Backslash /\ g[e + 1] = "u" /\ Len(g) < e + EscapeDigits + 2
        BY <2>8, <2>9, <3>1 DEF l, E
      <4> QED
        BY <2>2, <2>8, <3>1, <4>1, StuckAt
    <3>2. CASE c \notin NoChar
      <4> DEFINE m == n - e
      <4>1. m \in 1 .. E /\ e + 1 + m <= l /\ g[e + 1 + m] \notin HexDigits
        BY <2>2, <2>5, <2>8, <3>2
      <4> HIDE DEF m
      <4>2. \E i \in 1 .. EscapeDigits : e + 1 + i <= Len(g) /\ g[e + 1 + i] \notin HexDigits
        BY <4>1 DEF l, E
      <4>3. e + 1 <= Len(g) /\ g[e] = Backslash /\ g[e + 1] = "u"
        BY <2>8, <2>9 DEF l
      <4> QED
        BY <2>2, <2>8, <4>2, <4>3, HopelessAt
    <3> QED
      BY <3>1, <3>2
  <2>11. g[e] # Quote /\ e <= Len(savedText) + 1 /\ e <= Len(g)
    BY <2>8, <2>9 DEF Backslash, Quote, k, l
  <2> QED
    BY <1>1, <1>2, <2>1, <2>2, <2>3, <2>8, <2>10, <2>11, StringStops DEF g
<1>3. stream'.state = stream.state
  BY <1>1
<1> HIDE DEF g
<1> QED
  BY <1>1, <1>2, <1>3, Refuses DEF g


\* A step that returns a token, or goes on, without any error.
LEMMA NoErrorYet ==
  ASSUME IInv, RInv, Scanning, UNCHANGED err, stream'.state = stream.state,
         pc' # "returned" \/ token' # "invalid", pc' # "word"
  PROVE  RInv'
<1>1. Cause'
  BY DEF RInv, ErrOK, Cause
<1> QED
  BY <1>1 DEF RInv, ErrOK, WordOK, RejectsOnlyNonLexemes

\* A string with a half of a pair alone: the quote is the last that was read.
LEMMA HalfAloneRefuses ==
  ASSUME IInv, TInv, RInv, pc = "string", c = Quote, UNCHANGED <<stream, text>>,
         Decoded(savedText) = BadEscape, Invalid("syntax")
  PROVE  RInv'
<1> DEFINE g == Between(from, Len(input))
           s == savedText
<1>1. /\ Scanning /\ pc' = "returned" /\ token' = "invalid" /\ UNCHANGED <<input, from>>
      /\ err' = Reported("syntax") /\ c \in Ascii /\ c \notin NoChar
  BY DEF Invalid, Return, Scanning, Ascii, NoChar, Quote
<1>2. ASSUME lost' = 0, stream.state # "ERROR" PROVE Rejected(g, c \in NoChar)
  <2>1. lost = 0
    BY <1>1, <1>2, NothingWasLost
  <2>2. /\ Shape /\ g \in Seq(Bytes) /\ s \in Seq(Bytes) /\ Taken \in Nat
        /\ Len(s) = Taken + 1
        /\ Len(s) <= Len(g) /\ \A i \in 1 .. Len(s) : s[i] = g[i]
        /\ Taken < Len(g) /\ g[Taken + 1] = c
    BY <1>1, <1>2, <2>1, BytesOfToken
  <2>3. stream.pos = 1 /\ Len(stream.buffer) = 1
    <3>1. StreamOK /\ CharRead /\ BufferOK
      BY <1>1 DEF IInv, TInv
    <3> QED
      BY <1>1, <3>1, AsciiIsAlone
  <2>4. stream.position = Len(input)
    <3>1. /\ Continues(input, stream.position, stream.buffer, stream.pos)
          /\ stream.position \in Nat /\ Len(input) \in Nat
      BY <1>2 DEF IInv, StreamOK, Streams
    <3> QED
      BY <2>3, <3>1 DEF Continues
  <2>5. Len(g) = Len(s)
    <3>1. /\ input \in Seq(Bytes) /\ from \in Nat /\ from <= Len(input) /\ Len(input) \in Nat
          /\ stream.position \in Nat
      BY DEF IInv, StreamOK, Streams, Control
    <3>2. Len(g) = Len(input) - from
      <4>1. Len(input) \in from .. Len(input)
        BY <3>1
      <4> QED
        BY <3>1, <4>1, PartIs DEF Between
    <3>3. Taken = stream.position - 1 - from
      BY <1>1 DEF Taken, Before
    <3> HIDE DEF g, s
    <3> QED
      BY <2>2, <2>4, <3>1, <3>2, <3>3
  <2>6. s[1] = Quote /\ Taken > 0 /\ Parts(s, Taken + 2 - stream.pos)
    BY <1>1, <2>2 DEF Shape
  <2> HIDE DEF g
  <2>7. Taken + 2 - stream.pos = Len(s) /\ Len(s) \in Nat /\ Len(s) >= 2 /\ Len(s) = Taken + 1
    BY <2>2, <2>3, <2>6
  <2>8. s = g
    <3> HIDE DEF s
    <3> QED
      BY <2>2, <2>5, SeqEqual
  <2>9. PICK B \in SUBSET (2 .. Len(s)) : Whole(s, B, Len(s))
    BY <2>6, <2>7 DEF Parts
  <2>10. g[Len(g)] = Quote
    BY <2>2, <2>5
  <2> HIDE DEF s
  <2>11. StringValues(g) = {}
    BY <2>2, <2>5, <2>6, <2>7, <2>8, <2>9, <2>10, BadIsNotRead DEF s
  <2> DEFINE e == Len(g)
  <2>12. e \in Nat /\ e <= Len(g) /\ e <= Len(g) + 1 /\ e = Len(g) /\ Len(g) > 0 /\ g[1] = Quote /\ Whole(g, B, e)
    BY <2>5, <2>6, <2>7, <2>8, <2>9
  <2> HIDE DEF e
  <2>13. Hopeless(g, e) /\ Stuck(g, e)
    <3>1. e <= Len(g) /\ g[e] \in Controls \cup {Quote}
      BY <2>10, <2>12
    <3> QED
      BY <2>2, <2>12, <3>1, HopelessAt
  <2> QED
    BY <2>2, <2>11, <2>12, <2>13, StringRejected
<1> HIDE DEF g
<1> QED
  BY <1>1, <1>2, Refuses DEF g

LEMMA CloseStringRefuses == IInv /\ TInv /\ RInv /\ CloseString => RInv'
<1> SUFFICES ASSUME IInv, TInv, RInv, CloseString PROVE RInv'
  OBVIOUS
<1> DEFINE decoded == Decoded(savedText)
<1>1. pc = "string" /\ c = Quote /\ Scanning /\ UNCHANGED <<stream, text>>
  BY DEF CloseString, Scanning
<1>2. \/ Invalid("out_of_memory")
      \/ decoded = BadEscape /\ Invalid("syntax")
      \/ \E t \in {"panic", "string"} : \E v : Return(t, v, "none")
  <2>1. "panic" \in {"panic", "string"} /\ "string" \in {"panic", "string"}
    OBVIOUS
  <2> HIDE DEF decoded
  <2> QED
    BY <2>1 DEF CloseString, decoded
<1> HIDE DEF decoded
<1>3. CASE Invalid("out_of_memory")
  <2>1. pc' = "returned" /\ token' = "invalid" /\ UNCHANGED <<input, from>> /\ err' = Reported("out_of_memory")
    BY <1>3 DEF Invalid, Return
  <2> QED
    BY <1>1, <2>1, OtherError
<1>4. CASE decoded = BadEscape /\ Invalid("syntax")
  BY <1>1, <1>4, HalfAloneRefuses DEF decoded
<1>5. CASE \E t \in {"panic", "string"} : \E v : Return(t, v, "none")
  <2>1. pc' = "returned" /\ token' # "invalid" /\ UNCHANGED err
    BY <1>5 DEF Return
  <2> QED
    BY <1>1, <2>1, NoErrorYet
<1> QED
  BY <1>2, <1>3, <1>4, <1>5

-----------------------------------------------------------------------------
(* The other steps                                                         *)

\* A step that reads a character and goes on.
LEMMA ReadsWithoutRefusing ==
  ASSUME IInv, RInv, GetChar, Scanning \/ (pc = "returned" /\ token \notin {"invalid", "eof"}),
         pc' \notin {"returned", "closed", "word"}
  PROVE  RInv'
<1>1. Cause
  BY DEF RInv, ErrOK
<1>2. StreamOK
  BY DEF IInv
<1>3. Cause'
  BY <1>1, <1>2, GetCharCause
<1> QED
  BY <1>3 DEF RInv, ErrOK, WordOK, RejectsOnlyNonLexemes

LEMMA BeginRefusesNothing == IInv /\ TInv /\ RInv /\ Begin => RInv'
<1> SUFFICES ASSUME IInv, TInv, RInv, Begin PROVE RInv'
  OBVIOUS
<1>1. /\ Scanning /\ pc = "blank" /\ c \notin NoChar /\ AppendBytes(<<c>>) /\ UNCHANGED <<input, stream, c, from, err>>
      /\ pc' \in {"quote", "word", "number"} /\ (pc' = "word" => c \in Letters)
  BY DEF Begin, Begun, Scanning, NoChar, Letters, Digits, Quote
<1>2. Cause'
  BY <1>1 DEF RInv, ErrOK, Cause
<1>3. WordOK'
  <2> SUFFICES ASSUME lost' = 0, pc' = "word"
               PROVE  /\ \A i \in 1 .. Taken' : savedText'[i] \in Letters
                      /\ Taken' = 0 => c' \in Letters
    BY DEF WordOK
  <2>1. Shape /\ Taken = Len(savedText) /\ Taken' = Taken
    BY <1>1, TakesChar
  <2>2. Taken' = 0
    BY <1>1, <2>1 DEF Shape
  <2> QED
    BY <1>1, <2>2
<1> QED
  BY <1>1, <1>2, <1>3 DEF RInv, ErrOK, RejectsOnlyNonLexemes

LEMMA WordRefusesOthers == IInv /\ TInv /\ RInv /\ Word => RInv'
<1> SUFFICES ASSUME IInv, TInv, RInv, Word PROVE RInv'
  OBVIOUS
<1>1. pc = "word" /\ Scanning
  BY DEF Word, Scanning
<1>2. CASE c \in Letters
  <2>1. GetAndSave /\ GetChar /\ pc' = "word" /\ UNCHANGED from /\ c \notin NoChar
    BY <1>2 DEF Word, GoesOn, GetAndSave, Letters, NoChar
  <2>2. Cause'
    <3>1. Cause /\ StreamOK
      BY <1>1 DEF RInv, ErrOK, IInv
    <3> QED
      BY <2>1, <3>1, GetCharCause
  <2>3. WordOK'
    <3> SUFFICES ASSUME lost' = 0
                 PROVE  /\ \A i \in 1 .. Taken' : savedText'[i] \in Letters
                        /\ Taken' = 0 => c' \in Letters
      BY DEF WordOK
    <3>1. /\ lost = 0 /\ Taken' = Len(savedText)
          /\ \A i \in 1 .. Len(savedText) : savedText'[i] = savedText[i]
          /\ Len(savedText) = Taken + 1 /\ Taken \in Nat /\ savedText[Taken + 1] = c
      BY <1>1, <2>1, SavesText
    <3>2. \A i \in 1 .. Taken : savedText[i] \in Letters
      BY <1>1, <3>1 DEF RInv, WordOK
    <3>3. ASSUME NEW i \in 1 .. Taken' PROVE savedText'[i] \in Letters
      <4>1. i \in 1 .. Len(savedText) /\ (i \in 1 .. Taken \/ i = Taken + 1)
        BY <3>1
      <4> QED
        BY <1>2, <3>1, <3>2, <4>1
    <3>4. Taken' # 0
      BY <3>1
    <3> QED
      BY <3>3, <3>4
  <2> QED
    BY <2>1, <2>2, <2>3 DEF RInv, ErrOK, RejectsOnlyNonLexemes
<1>3. CASE c \notin Letters /\ savedText' \notin Keywords
  BY <1>3, WordRefuses
<1>4. CASE c \notin Letters /\ savedText' \in Keywords
  <2>1. stream' = PutBack /\ pc' = "returned" /\ token' = "literal" /\ UNCHANGED err
    BY <1>4 DEF Word, Return
  <2>2. stream'.state = stream.state
    BY <2>1, PutBackState
  <2> QED
    BY <1>1, <2>1, <2>2, NoErrorYet
<1> QED
  BY <1>2, <1>3, <1>4


\* The steps that only read on, whatever they do with the text.
LEMMA OthersRefuseNothing ==
  IInv /\ TInv /\ RInv /\ (Scan \/ SkipBlank \/ OpenString \/ StringGoesOn \/ NumberGoesOn \/ Point) => RInv'
<1> SUFFICES ASSUME IInv, TInv, RInv,
                    Scan \/ SkipBlank \/ OpenString \/ StringGoesOn \/ NumberGoesOn \/ Point
             PROVE  RInv'
  OBVIOUS
<1>1. CASE Scan
  BY <1>1, ReadsWithoutRefusing DEF Scan
<1>2. CASE SkipBlank
  BY <1>2, ReadsWithoutRefusing DEF SkipBlank, Scanning
<1>3. CASE OpenString
  BY <1>3, ReadsWithoutRefusing DEF OpenString, GetAndSave, GoesOn, Scanning
<1>4. CASE StringGoesOn
  BY <1>4, ReadsWithoutRefusing DEF StringGoesOn, GetAndSave, GoesOn, Scanning
<1>5. CASE NumberGoesOn
  <2>1. PICK to \in NumberStates : <<pc, c, to>> \in NumberNext /\ GetChar /\ pc' = to
    BY <1>5 DEF NumberGoesOn, GetAndSave, GoesOn
  <2>2. Scanning /\ pc' \notin {"returned", "closed", "word"}
    BY <2>1 DEF NumberNext, NumberStates, Scanning
  <2> QED
    BY <2>1, <2>2, ReadsWithoutRefusing
<1>6. CASE Point
  <2>1. GetChar /\ pc' = "point" /\ Scanning
    BY <1>6 DEF Point, GoesOn, Scanning, NumberNext
  <2> QED
    BY <2>1, ReadsWithoutRefusing
<1> QED
  BY <1>1, <1>2, <1>3, <1>4, <1>5, <1>6

LEMMA EscapesRefuse == IInv /\ TInv /\ RInv /\ (Escape \/ EscapeDigit) => RInv'
<1> SUFFICES ASSUME IInv, TInv, RInv, Escape \/ EscapeDigit PROVE RInv'
  OBVIOUS
<1>1. CASE Escape /\ c \in {"u"} \cup SimpleEscapes
  <2>1. Scanning /\ GetChar /\ pc' \in {"digits", "string"}
    BY <1>1 DEF Escape, GetAndSave, Scanning
  <2> QED
    BY <2>1, ReadsWithoutRefusing
<1>2. CASE EscapeDigit /\ c \in HexDigits
  <2>1. Scanning /\ GetChar /\ pc' \in {"digits", "string"}
    BY <1>2 DEF EscapeDigit, GetAndSave, Scanning
  <2> QED
    BY <2>1, ReadsWithoutRefusing
<1> QED
  BY <1>1, <1>2, EscapeRefuses, EscapeDigitRefuses

LEMMA StructuralRefusesNothing == IInv /\ TInv /\ RInv /\ Structural => RInv'
<1> SUFFICES ASSUME IInv, TInv, RInv, Structural PROVE RInv'
  OBVIOUS
<1>1. Scanning /\ UNCHANGED <<err, stream>> /\ token' # "invalid" /\ pc' = "returned"
  BY DEF Structural, Scanning
<1> QED
  BY <1>1, NoErrorYet

LEMMA AfterPointStops == IInv /\ TInv /\ RInv /\ AfterPoint => RInv'
<1> SUFFICES ASSUME IInv, TInv, RInv, AfterPoint PROVE RInv'
  OBVIOUS
<1>1. CASE c \in Digits
  <2>1. Scanning /\ UNCHANGED <<err, stream>> /\ pc' = "fraction"
    BY <1>1 DEF AfterPoint, GoesOn, Scanning
  <2> QED
    BY <2>1, NoErrorYet
<1> QED
  BY <1>1, AfterPointRefuses

LEMMA NumberEndsRefuse == IInv /\ TInv /\ RInv /\ (IntegerEnds \/ RealEnds) => RInv'
<1> SUFFICES ASSUME IInv, TInv, RInv, IntegerEnds \/ RealEnds PROVE RInv'
  OBVIOUS
<1>1. Scanning /\ stream' = PutBack /\ \E t \in {"integer", "real"} : ReturnNumber(t)
  BY DEF IntegerEnds, RealEnds, Scanning
<1>2. CASE Invalid("overflow")
  BY <1>2, NumberTooBig
<1>3. CASE \E t \in {"integer", "real"} : Return(t, savedText', "none")
  <2>1. pc' = "returned" /\ token' # "invalid" /\ UNCHANGED err
    BY <1>3 DEF Return
  <2>2. stream'.state = stream.state
    BY <1>1, PutBackState
  <2> QED
    BY <1>1, <2>1, <2>2, NoErrorYet
<1> QED
  BY <1>1, <1>2, <1>3 DEF ReturnNumber

LEMMA StealStringRefusesNothing == IInv /\ RInv /\ StealString => RInv'
<1> SUFFICES ASSUME IInv, RInv, StealString PROVE RInv'
  OBVIOUS
<1>1. pc = "returned" /\ token = "string" /\ UNCHANGED <<pc, token, err, stream>>
  BY DEF StealString, IInv, Control
<1> QED
  BY <1>1 DEF RInv, ErrOK, WordOK, RejectsOnlyNonLexemes, Scanning, Cause

LEMMA CloseRefusesNothing == Close => RInv'
BY DEF Close, RInv, ErrOK, WordOK, RejectsOnlyNonLexemes, Scanning

LEMMA StutterRefusesNothing == RInv /\ UNCHANGED vars => RInv'
<1> SUFFICES ASSUME RInv, UNCHANGED vars PROVE RInv'
  OBVIOUS
<1>1. UNCHANGED <<input, stream, savedText, lost, c, pc, from, token, err>>
  BY DEF vars, text, result
<1>2. ErrOK'
  BY <1>1 DEF RInv, ErrOK, Cause, Scanning
<1>3. WordOK'
  BY <1>1 DEF RInv, WordOK, Scanning, Taken, Before
<1>4. RejectsOnlyNonLexemes'
  BY <1>1 DEF RInv, RejectsOnlyNonLexemes, Between
<1> QED
  BY <1>2, <1>3, <1>4 DEF RInv

-----------------------------------------------------------------------------
LEMMA InitRefusesNothing == Init => RInv
BY DEF Init, RInv, ErrOK, Cause, WordOK, RejectsOnlyNonLexemes, Scanning

\* What scan refuses begins no lexeme, or ended too early, and no lexeme was refused for
\* what follows it; and the error says which it was.
THEOREM RefusesOnlyNonLexemes == Spec => []RejectsOnlyNonLexemes
<1>1. IInv /\ TInv /\ RInv /\ [Next]_vars => RInv'
  BY OthersRefuseNothing, NoTokenRefuses, StructuralRefusesNothing, BeginRefusesNothing, UnknownRefuses,
     WordRefusesOthers, StringBrokenRefuses, EscapesRefuse, CloseStringRefuses,
     StealStringRefusesNothing, CloseRefusesNothing, AfterPointStops, NumberBrokenRefuses,
     NumberEndsRefuse, StutterRefusesNothing DEF Next
<1>2. RInv => RejectsOnlyNonLexemes
  BY DEF RInv
<1> QED
  BY InitTokens, TokensStep, InitRefusesNothing, <1>1, <1>2, Inductive, PTL DEF Spec
=============================================================================
