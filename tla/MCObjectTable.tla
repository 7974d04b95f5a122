--------------------------- MODULE MCObjectTable ----------------------------
(* Four keys, three of which share a bucket until the table has grown; one *)
(* has a NUL in it and is cut to another key by strlen.                    *)
EXTENDS ObjectTable

CONSTANTS k1, k2, k3, kNul, v1, v2

MCKeys    == {k1, k2, k3, kNul}
MCHash    == [k \in MCKeys |-> CASE k = k1 -> 0 [] k = k2 -> 2
                                 [] k = kNul -> 4 [] k = k3 -> 1]
MCCString == [k \in MCKeys |-> IF k = kNul THEN k1 ELSE k]
MCOthers  == {<< <<kNul, v1>>, <<k2, v2>> >>, << <<k3, v1>>, <<k2, v2>> >>}
=============================================================================
