----------------------------- MODULE MCTraversal ----------------------------
(* Every graph of three containers with at most two items each that is in   *)
(* one piece, which has knots of length one to three and shared values; and *)
(* some in which the object has three members, for the keys that agree up   *)
(* to a NUL.                                                                *)
EXTENDS Traversal

CONSTANTS c1, c2, c3

MCContainers == {c1, c2, c3}
MCItems == {<< >>} \cup {<<x>> : x \in MCContainers \cup Leaves}
             \cup {<<x, y>> : x, y \in MCContainers \cup {"scalar"}}

MCTriples == {<<c3, "scalar", "literal">>, <<"scalar", c3, c3>>, <<"scalar", "literal", c3>>}

\* c1 holds c2, and c1 or c2 holds c3.
MCPairs == {g \in [MCContainers -> MCItems] :
              c2 \in ToSet(g[c1]) /\ c3 \in ToSet(g[c1]) \cup ToSet(g[c2])}
MCGraphs ==
  MCPairs \cup {[g EXCEPT ![c2] = three] :
                 g \in {h \in MCPairs : h[c1] = <<c2>> /\ Len(h[c3]) < 2}, three \in MCTriples}

MCNamings == {[c \in {c2} |-> n] : n \in {<<"a", "b", "c">>, <<"a", "a", "b">>,
                                         <<"a", "b", "a">>, <<"a", "b", "b">>, <<"a", "a", "a">>}}
=============================================================================
