---------------------------- MODULE MCPackUnpack ----------------------------
(***************************************************************************)
(* Formats for PackUnpack: all of the short ones, and longer ones put      *)
(* together from parts, a few of them broken.                              *)
(***************************************************************************)
EXTENDS PackUnpackMeaning

Short(alphabet, n) == UNION {[1 .. m -> alphabet] : m \in 0 .. n}

\* One of the parts after the other.
Joined(A, B) == {a \o b : a \in A, b \in B}
Between(open, A, close) == {<<open>> \o a \o <<close>> : a \in A}

Optionals == {<<"s", "?">>, <<"s", "*">>, <<"o", "?">>, <<"o", "*">>, <<"O", "*">>}
Values == {<<"n">>, <<"i">>, <<"f">>, <<"s">>, <<"o">>, <<"O">>, <<"s", "#">>} \cup Optionals
Strings == {<<"s">>, <<"s", "%">>, <<"s", "+">>, <<"s", "#", "+", "%">>, <<"s", "+", "+">>}
Small == {<<"o">>, <<"o", "*">>, <<"[", "o", "]">>, <<"{", "s", ":", "o", "}">>}

MCRootFormats ==
  {<<"n">>, <<"i">>, <<"s">>, <<"[", "o", "]">>, <<"[", "o", "b", "]">>,
   <<"{", "s", ":", "o", ",", "s", ":", "o", "}">>,
   <<"{", "s", ":", "[", "o", "]", ",", "s", ":", "i", "}">>}

MCPackFormats ==
  MCRootFormats \cup Short({"{", "}", "[", "]", "s", "i", "o", "?", "*", "#", "+", " "}, 3)
    \cup Short({"{", "}", "[", "]", "s", "o", "*"}, 4)
    \cup {<<"n">>, <<"b">>, <<"I">>, <<"O">>, <<"O", "?">>}
    \cup Strings \cup Joined(Optionals, {<<"%">>, <<"x">>})
    \cup Between("{", Joined(Strings, Values), "}")
    \cup Between("[", Joined(Values, Optionals \cup {<<"n">>, <<"f">>, <<"o">>, <<",", "]", "o">>, <<"x", "o">>}), "]")
    \cup Between("{", {<<"s">> \o a \o <<",", "s">> \o b : a \in Small, b \in Small}, "}")
    \cup Between("[", Joined(Small, Small), "]")
    \cup Between("{", {<<"s", "+", "o", "s", "+">> \o a : a \in {<<"o">>, <<"x">>, << >>}}, "}")
    \cup {<<"[", "s", "#", "o", "i", "O", "]">>, <<"[", "{", "s", "[", "o", "i", "]", "}", "]">>}

Targets1 == {<<"s">>, <<"s", "%">>, <<"i">>, <<"F">>, <<"o">>, <<"O">>, <<"n">>,
             <<"[", "f", "]">>, <<"[", "O", "!", "]">>, <<"{", "s", "o", "}">>}

MCUnpackFormats ==
  Short({"{", "}", "]", "s", "O", "%", "!", "*", "?"}, 2)
    \cup {<<"i">>, <<"n">>, <<"b">>, <<"f">>, <<"F">>, <<"I">>, <<"o">>, <<"s", "%", "%">>}
    \cup Between("{", Joined({<<"s">>, <<"s", "?">>}, Targets1), "}")
    \cup Between("[", Joined(Targets1, {<< >>, <<"!">>, <<"*">>, <<"O">>, <<"O", "*">>, <<"!", "O">>, <<"x">>}), "]")
    \cup Between("{", {<<"s", "O">> \o a \o b : a \in {<<"s", "O">>, <<"s", "?", "i">>, << >>},
                                               b \in {<<"!">>, <<"*">>, <<"!", "!">>, <<"O">>}}, "}")

MCFlagSets == {f \in [strict : BOOLEAN, validate : BOOLEAN] : ~(f.strict /\ f.validate)}
=============================================================================
