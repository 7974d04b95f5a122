-------------------------- MODULE PackUnpackMeaning --------------------------
(***************************************************************************)
(* What json_pack and json_unpack promise the program of PackUnpack, in    *)
(* terms of FormatMeaning.                                                 *)
(***************************************************************************)
EXTENDS PackUnpack, FormatMeaning

-----------------------------------------------------------------------------
(* What the two calls are to do                                            *)

Words == SelectSeq(fmt, LAMBDA c : c \notin Blanks)

\* The tree that a value stands for.
Unfold(x) ==
  LET Leaf(v) == CASE v[1] = "given" -> GivenTree(v[2])
                   [] v = Null       -> NullTree
                   [] v = True       -> Tree("boolean", << >>, << >>)
                   [] OTHER          -> NoValue
      tree[n \in Nat] ==
        Tree(heap[n].of, heap[n].text,
             [i \in DOMAIN heap[n].kids |->
               [key |-> heap[n].kids[i].key,
                value |-> LET v == heap[n].kids[i].value
                          IN IF v[1] = "node" THEN tree[v[2]] ELSE Leaf(v)]])
  IN IF x[1] = "node" THEN tree[x[2]] ELSE Leaf(x)

PackPromise == PackMeaning(args, PackFormat(Words).part, 1)
UnpackPromise == UnpackMeaning(args, UnpackFormat(Words).part, Unfold(root), 1, flags)

-----------------------------------------------------------------------------
(* Properties                                                              *)

\* The format is one optional value, and nothing was passed for it.
NothingToPack ==
  /\ Len(Words) > 1
  /\ Words[1] \in {"s", "o", "O"}
  /\ Words[2] = "*"
  /\ args # << >>
  /\ args[1].value \in {None, NoText}

\* The format has an '*' right after a '{'.  The '*' ends the object with an error that
\* is not noted in has_error, and the container around it takes the same '*' for the
\* mark of a value to be left out.
BraceStar == \E i \in 2 .. Len(Words) : Words[i - 1] = "{" /\ Words[i] = "*"

\* A value is returned only if the format is one and the arguments are in order, and
\* it is the value that they stand for: members and items in their order, a key that
\* comes again in the place where it first was, the parts of a string joined, null or
\* nothing where an optional argument is NULL.  This is so when allocations fail too,
\* unless the format has a '*': what there was no memory for is then taken for what
\* is to be left out.  A '*' after '{' can pass for a mark, too: it is left out here.
PackBuilds ==
  ret # None /\ ~BraceStar /\ (starved = 0 \/ \A i \in DOMAIN fmt : fmt[i] # "*") =>
    /\ PackFormat(Words).good
    /\ PackPromise.fault = "none"
    /\ Unfold(ret) = PackPromise.value

\* When NULL is returned and no allocation has failed, there is something wrong with
\* the format or with an argument, and the error names what is wrong first.  If the
\* format is one, every argument has been taken, those after the fault too: the
\* references passed with 'o' are the call's to release whichever argument is wrong.
PackRefuses ==
  ret = None /\ starved = 0 /\ ~NothingToPack =>
    /\ err # NoError
    /\ (fmt = << >>) <=> err = "argument"
    /\ PackFormat(Words).good =>
         /\ PackPromise.fault = err
         /\ taken = Len(args)

\* json_pack does what the format says, or says what is wrong with it: PackBuilds and
\* PackRefuses.
PackKeepsPromise == pc = "packed" => PackBuilds /\ PackRefuses

\* The shim and the scanner stay in step: whatever the format, the first error is never
\* that an argument is missing or of another kind, nor is it when memory runs out, if
\* the format is one; a call that goes well has taken every argument there is, and the
\* arguments are those that the format asks for.
ArgumentsAgree ==
  /\ err = "mismatch" => starved > 0 /\ pc \in PackPhases /\ ~PackFormat(Words).good
  /\ (pc = "packed" /\ ret # None) \/ (pc = "unpacked" /\ result = "ok") => taken = Len(args)
  /\ pc = "packed" /\ PackFormat(Words).good => PackPromise.next = Len(args) + 1

\* What has been written, with the trees that the values stand for.
Extracted == [i \in DOMAIN out |-> [out[i] EXCEPT !.value = Unfold(@)]]

\* If the call goes well, the format is one, the value is as it says and exactly the
\* targets of what is there have been written, with what is there, even when the call
\* has run out of memory on the way.
UnpackExtracts ==
  result = "ok" =>
    /\ UnpackFormat(Words).good
    /\ UnpackPromise.fault = "none"
    /\ Extracted = UnpackPromise.out

\* If it fails and no allocation has failed, there is something wrong with the format,
\* an argument or the value, the error names what is wrong first, and what was written
\* is what the format takes from the value before it.  With JSON_VALIDATE_ONLY the
\* code does not know the '%' of a string, so such formats are left out.
UnpackRefuses ==
  result = "failed" /\ starved = 0 =>
    /\ err # NoError
    /\ UnpackFormat(Words).good /\ root # None
         /\ ~(flags.validate /\ \E i \in DOMAIN fmt : fmt[i] = "%") =>
         /\ UnpackPromise.fault = err
         /\ Extracted = UnpackPromise.out

\* json_unpack takes what the format says, or says what is wrong: UnpackExtracts and
\* UnpackRefuses.
UnpackKeepsPromise == pc = "unpacked" => UnpackExtracts /\ UnpackRefuses

\* Every call returns.
CallsReturn == []<>(pc \in {"packed", "unpacked"})
=============================================================================
