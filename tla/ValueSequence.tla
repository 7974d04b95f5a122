--------------------------- MODULE ValueSequence ----------------------------
(***************************************************************************)
(* What a JSON array promises its users: a sequence of values, indexed     *)
(* from 0.  A call that fails changes nothing.                             *)
(***************************************************************************)
EXTENDS Integers, Sequences

CONSTANTS
  Values,
  Others  \* the contents of the other arrays of the program

VARIABLE seq

Init == seq = << >>

Put(i, v) ==
  /\ i \in 0 .. Len(seq) - 1
  /\ seq' = [seq EXCEPT ![i + 1] = v]

\* The value arrives at index i; those from i on move one place up.
Insert(i, v) ==
  /\ i \in 0 .. Len(seq)
  /\ seq' = [j \in 1 .. Len(seq) + 1 |->
               IF j <= i THEN seq[j] ELSE IF j = i + 1 THEN v ELSE seq[j - 1]]

Remove(i) ==
  /\ i \in 0 .. Len(seq) - 1
  /\ seq' = [j \in 1 .. Len(seq) - 1 |-> IF j <= i THEN seq[j] ELSE seq[j + 1]]

Clear == seq' = << >>

\* Another sequence, or this one as it was, is appended as a whole.
Extend(other) == seq' = seq \o other

Next ==
  \/ \E i \in 0 .. Len(seq), v \in Values : Put(i, v) \/ Insert(i, v)
  \/ \E i \in 0 .. Len(seq) : Remove(i)
  \/ Clear
  \/ \E other \in Others \cup {seq} : Extend(other)

Spec == Init /\ [][Next]_seq
=============================================================================
