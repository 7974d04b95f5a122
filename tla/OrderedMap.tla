----------------------------- MODULE OrderedMap -----------------------------
(***************************************************************************)
(* What a JSON object promises its users: a map that remembers the order   *)
(* its keys were inserted in.  A call that fails changes nothing.          *)
(*                                                                         *)
(* Everything ObjectTable does with buckets, links and capacities has to   *)
(* look like a step of this specification, or like none.                   *)
(***************************************************************************)
EXTENDS Integers, SequencesExt

CONSTANTS Keys, Values

VARIABLE map  \* the entries in insertion order, as pairs of key and value

KeysOf(m)  == {m[i][1] : i \in DOMAIN m}

Init == map = << >>

\* A present key keeps its place and takes the new value.
Overwrite(k, v) ==
  /\ k \in KeysOf(map)
  /\ map' = [i \in DOMAIN map |-> IF map[i][1] = k THEN <<k, v>> ELSE map[i]]

Insert(k, v) ==
  /\ k \notin KeysOf(map)
  /\ map' = Append(map, <<k, v>>)

Delete(k) ==
  \E i \in DOMAIN map : map[i][1] = k /\ map' = RemoveAt(map, i)

Clear == map' = << >>

Next ==
  \/ \E k \in Keys, v \in Values : Overwrite(k, v) \/ Insert(k, v)
  \/ \E k \in Keys : Delete(k)
  \/ Clear

Spec == Init /\ [][Next]_map
=============================================================================
