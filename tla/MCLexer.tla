------------------------------ MODULE MCLexer -------------------------------
(* Inputs of any two bytes; of three bytes out of a smaller set with words,   *)
(* lines, strings and UTF-8 and any byte after them; numbers of four bytes    *)
(* and any byte after them; and strings that begin with an escape, of up to   *)
(* six bytes between the quotes, which with one digit in an escape is enough  *)
(* for a pair.  The text of a token starts with room for one byte, and one    *)
(* byte of it may be lost.                                                    *)
EXTENDS Lexer

MCLeading == {<<"1">>}
MCTrailing == {<<"e">>}
MCKeywords == {<<"n", "u">>}
MCWellFormed(s) == \A i \in 2 .. Len(s) : s[i] = "cont"

MCWithin(s) ==
  \/ Len(s) < 2
  \/ Len(s) < 4 /\ AllIn(s, {"\n", " ", "n", "u", "1", "lead", "cont"})
  \/ Len(s) < 4 /\ AllIn(s, {Quote, Backslash, "n", "/", "lead", "cont", "-"})
  \/ Len(s) < 5 /\ AllIn(s, {"0", "1", "-", ".", "e"})
  \/ Len(s) < 8 /\ IsPrefix(<<Quote, Backslash>>, s) /\ AllIn(Tail(s), {Backslash, "u", "1", "e"})
=============================================================================
