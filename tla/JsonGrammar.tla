---------------------------- MODULE JsonGrammar -----------------------------
(***************************************************************************)
(* The JSON texts of at most MaxText tokens and what each of them denotes, *)
(* built up from the grammar of RFC 8259: the reference the parser of      *)
(* load.rs is compared with.                                               *)
(*                                                                         *)
(* A denoted value is [kind, items]: a leaf has no items; an item of an    *)
(* array has the key NoKey, an item of an object the key of the member.    *)
(***************************************************************************)
EXTENDS Integers, Sequences, SequencesExt, FiniteSets

CONSTANTS
  Leaves,      \* the tokens that are a value on their own
  KeyStrings,  \* those of them that may be the key of a member
  NoKey,
  MaxText

Leaf(t) == [kind |-> t, items |-> << >>]
Item(k, v) == [key |-> k, value |-> v]

\* Of the members with equal keys, the last one gives the value and the first
\* one the place.
MergeMembers(ms) ==
  LET First(i) == \A j \in 1 .. i - 1 : ms[j].key # ms[i].key
      Latest(k) == CHOOSE i \in DOMAIN ms :
                     ms[i].key = k /\ \A j \in i + 1 .. Len(ms) : ms[j].key # k
      firsts == SelectSeq([i \in DOMAIN ms |-> i], First)
  IN [n \in DOMAIN firsts |-> ms[Latest(ms[firsts[n]].key)]]

HasDuplicates(ms) ==
  \E i, j \in DOMAIN ms : i # j /\ ms[i].key # NoKey /\ ms[i].key = ms[j].key

(***************************************************************************)
(* Phrases of n tokens, given in g the phrases of fewer.  A phrase is      *)
(* [text, items, dup]: a list of items for elements and members, and one   *)
(* item with the key NoKey for a value.  dup tells whether some object in  *)
(* it has two members with one key.                                        *)
(***************************************************************************)
Phrase(text, items, dup) == [text |-> text, items |-> items, dup |-> dup]

Enclosed(open, p, close, kind, items) ==
  Phrase(<<open>> \o p.text \o <<close>>,
         <<Item(NoKey, [kind |-> kind, items |-> items])>>,
         p.dup \/ HasDuplicates(p.items))

Empty == Phrase(<< >>, << >>, FALSE)

ValuePhrases(n, g) ==
  LET inside(part) == IF n = 2 THEN {Empty} ELSE IF n > 2 THEN g[n - 2][part] ELSE {}
  IN (IF n = 1 THEN {Phrase(<<t>>, <<Item(NoKey, Leaf(t))>>, FALSE) : t \in Leaves}
      ELSE {})
     \cup {Enclosed("[", p, "]", "array", p.items) : p \in inside("elements")}
     \cup {Enclosed("{", p, "}", "object", MergeMembers(p.items)) : p \in inside("members")}

Joined(p, q) ==
  Phrase(p.text \o <<",">> \o q.text, p.items \o q.items, p.dup \/ q.dup)

\* value | elements "," value
Extended(g, n, part, single) ==
  {Joined(pq[1], pq[2]) :
     pq \in UNION {g[i][part] \X (IF part = "elements" THEN g[n - 1 - i].values
                                  ELSE g[n - 1 - i].pairs) : i \in 1 .. n - 2}}
  \cup single

Pairs(n, g) ==
  IF n < 3 THEN {}
  ELSE {Phrase(<<k, ":">> \o v.text, <<Item(k, v.items[1].value)>>, v.dup) :
          k \in KeyStrings, v \in g[n - 2].values}

Phrases ==
  LET Longer(g, n) ==
        LET values == ValuePhrases(n, g)
            pairs == Pairs(n, g)
        IN Append(g, [values |-> values, pairs |-> pairs,
                      elements |-> Extended(g, n, "elements", values),
                      members |-> Extended(g, n, "members", pairs)])
  IN FoldLeft(Longer, << >>, [n \in 1 .. MaxText |-> n])

\* The texts, each with the value it denotes.
Texts ==
  LET all == Phrases
  IN UNION {{[text |-> p.text, value |-> p.items[1].value, dup |-> p.dup] :
               p \in all[n].values} : n \in 1 .. MaxText}
=============================================================================
