------------------------------ MODULE MCArray -------------------------------
(* A table of two slots that may grow until it has 12, the most that a     *)
(* usize of this model can address.                                        *)
EXTENDS Array

CONSTANTS v1, v2

MCOthers == {<< >>, <<v1>>, <<v2, v1, v1>>}
=============================================================================
