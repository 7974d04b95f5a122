------------------------------- MODULE MCMerge -------------------------------
EXTENDS MergeMeaning, TLC

CONSTANTS c1, c2, c3, c4, c5, k1, k2, kNul, x, y

MCCString == [k \in Keys |-> IF k = kNul THEN k1 ELSE k]
MCSlots == <<k1, k2>>
MCArguments == {<<c1, c2>>, <<c1, c1>>, <<c1, x>>}

E(k, v) == [key |-> k, value |-> v]
None == {<< >>}
OneOf(ks, vs) == {<<E(k, v)>> : k \in ks, v \in vs}
TwoOf(k, vs, l, ws) == {<<E(k, v), E(l, w)>> : v \in vs, w \in ws}

\* The roots are c1 and c2.  The inner ones, when nothing refers to them, are empty.
Ends1 == None \cup OneOf({k1}, {c2, c3, c4, x}) \cup TwoOf(k1, {c3, x}, k2, {c3, c4, x})
              \cup TwoOf(kNul, {c3}, k1, {x})
Ends2 == None \cup OneOf({k1}, {c2, c3, c4, x, y}) \cup TwoOf(k1, {c3, c4, y}, k2, {c3, c4})
              \cup TwoOf(k1, {c3, c4}, kNul, {c4})
Ends3 == None \cup OneOf({k1}, {c1, c3, c4, x}) \cup OneOf({k2}, {x})
Ends4 == None \cup OneOf({k1}, {c1, c2, c3, c4, x}) \cup TwoOf(k1, {c3, x}, k2, {y})

\* All are objects, or one inner one is an array, or both roots are.
MCGraphs ==
  {g \in [objects : {{c1, c2, c3, c4}, {c1, c2, c3}, {c3, c4}},
          kids : {(c1 :> a) @@ (c2 :> b) @@ (c3 :> c) @@ (c4 :> d) @@ (c5 :> << >>) :
                    a \in Ends1, b \in Ends2, c \in Ends3, d \in Ends4}] :
     LET kids == KidsOf(g.kids, c1) \cup KidsOf(g.kids, c2)
     IN /\ \A c \in {c3, c4} : g.kids[c] # << >> =>
             c \in kids \cup UNION {KidsOf(g.kids, d) : d \in kids}
        /\ c1 \notin g.objects =>
             /\ g.kids[c4] = << >>
             /\ \A c \in {c1, c2} : \A i \in DOMAIN g.kids[c] : g.kids[c][i].key = MCSlots[i]}
=============================================================================
