------------------------------- MODULE Format -------------------------------
(***************************************************************************)
(* What json_pack and json_unpack share: the scanner of the format string, *)
(* with one token of push-back, and the list of arguments.                 *)
(*                                                                         *)
(* The variadic arguments are fetched by a C shim, which scans the format  *)
(* on its own and makes a list of what it finds the format to ask for.     *)
(* The Rust code scans the format again and takes the list one by one.     *)
(* Nothing but the two grammars being the same keeps the two in step.      *)
(*                                                                         *)
(* A format is a sequence of characters, a token is a place in it.  Line   *)
(* and column of an error are left out.                                    *)
(***************************************************************************)
EXTENDS Integers, Sequences, FiniteSets, SequencesExt

CONSTANTS
  MaxStarved  \* how many allocations may fail in one call

ASSUME StarvedAssumption == MaxStarved \in Nat

VARIABLES
  pc,       \* where the call is
  fmt,      \* the format string
  args,     \* what the shim has fetched: [kind, from, value]
  taken,    \* how many of them have been taken
  scan,     \* the scanner: [prev, tok, ahead, index]
  err,      \* the code in the error buffer
  heap,     \* the values made: [of, text, kids], kids a sequence of [key, value]
  live,     \* those of them that are not freed
  buffers,  \* the other allocations in use: strings read, sets of keys
  starved   \* how many allocations have failed

formatVars == <<pc, fmt, args, taken, scan, err, heap, live, buffers, starved>>

NoError == "none"

\* jsonp_error_vformat: the first error stays.
Reported(e, code) == IF e = NoError THEN code ELSE e

-----------------------------------------------------------------------------
(* The scanner                                                             *)

Blanks == {" ", ",", ":"}

\* The character at a place; at the end, and before the first token, NUL.
CharOf(f, p) == IF p \in DOMAIN f THEN f[p] ELSE "end"

\* The next place that is not blank.
SkipFrom(f, i) ==
  CHOOSE p \in i .. Len(f) + 1 :
    /\ CharOf(f, p) \notin Blanks
    /\ \A q \in i .. p - 1 : f[q] \in Blanks

ScanStart == [prev |-> 0, tok |-> 0, ahead |-> 0, index |-> 1]

Advanced(f, s) ==
  IF s.ahead # 0 THEN [s EXCEPT !.prev = s.tok, !.tok = s.ahead, !.ahead = 0]
  ELSE IF CharOf(f, s.tok) = "end" /\ s.index > Len(f) THEN [s EXCEPT !.prev = s.tok]
  ELSE LET p == SkipFrom(f, s.index)
       IN [prev |-> s.tok, tok |-> p, ahead |-> 0,
           index |-> IF p > Len(f) THEN p ELSE p + 1]

PushedBack(s) == [s EXCEPT !.ahead = s.tok, !.tok = s.prev]

NextToken(s) == Advanced(fmt, s)
TokenOf(s) == CharOf(fmt, s.tok)
Token == TokenOf(scan)

\* A look at the token after this one, and the scanner after the look.
LookAhead == TokenOf(NextToken(scan))
Looked == PushedBack(NextToken(scan))

\* The scanner after the next token if it is one of the marks, or else as it is.
MarkIn(marks) == IF LookAhead \in marks THEN LookAhead ELSE "no"
PastMark(marks) == IF LookAhead \in marks THEN NextToken(scan) ELSE Looked

-----------------------------------------------------------------------------
(* The shim: it walks through the format, one step per token, and lists    *)
(* the arguments.  It knows which brackets are open, and it stops where    *)
(* the format goes wrong.                                                  *)

ShimStart(f) ==
  [scan |-> Advanced(f, ScanStart), open |-> << >>, at |-> "value",
   strict |-> FALSE, list |-> << >>]

Emitted(m, kind, from) == [m EXCEPT !.list = Append(@, [kind |-> kind, from |-> from])]

\* A value is complete: the shim is done, or goes on in the bracket it is in.
ShimValueDone(f, m) ==
  IF m.open = << >> THEN [m EXCEPT !.at = "done"]
  ELSE [m EXCEPT !.at = "items", !.scan = Advanced(f, @)]

ShimOpen(f, m) ==
  [m EXCEPT !.open = Append(@, CharOf(f, m.scan.tok)), !.at = "items",
            !.scan = Advanced(f, @)]
ShimClose(f, m) == ShimValueDone(f, [m EXCEPT !.open = Front(@), !.strict = FALSE])
ShimStop(m) == [m EXCEPT !.at = "stop"]

Closes(bracket) == IF bracket = "{" THEN "}" ELSE "]"

\* What a shim with such steps lists for a format.
Listed(Step(_, _), f) ==
  FoldLeft(LAMBDA m, i : Step(f, m), ShimStart(f), [i \in 1 .. 3 * Len(f) + 1 |-> i]).list

-----------------------------------------------------------------------------
(* PackArgs and UnpackArgs                                                 *)

\* The next argument is there and is of the kind that is asked for.
Fits(kind) == taken < Len(args) /\ args[taken + 1].kind = kind

\* It is taken even if it is of another kind.
TakeArg == taken' = IF taken < Len(args) THEN taken + 1 ELSE taken

Mismatch(kind) == IF Fits(kind) THEN err ELSE Reported(err, "mismatch")

-----------------------------------------------------------------------------
(* Values                                                                  *)

None     == <<"none", 0>>     \* NULL
Null     == <<"literal", 0>>  \* the literals are nobody's to release
True     == <<"literal", 1>>
Node(n)  == <<"node", n>>
Given(k) == <<"given", k>>    \* the value that is the k-th argument of json_pack
NoText   == <<"NULL">>
NoKey    == << >>

CanStarve == starved < MaxStarved
Starve == CanStarve /\ starved' = starved + 1

Fresh == Node(Len(heap) + 1)
Make(of, text) ==
  /\ heap' = Append(heap, [of |-> of, text |-> text, kids |-> << >>])
  /\ live' = live \cup {Len(heap) + 1}

\* A value and all that it holds.
Below(x) ==
  LET tree[n \in 1 .. Len(heap)] ==
        {Node(n)} \cup UNION {IF v[1] = "node" THEN tree[v[2]] ELSE {v} :
                              v \in {k.value : k \in ToSet(heap[n].kids)}}
  IN IF x[1] = "node" THEN tree[x[2]] ELSE {x} \ {None, Null, True}

=============================================================================
