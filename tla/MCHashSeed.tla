---------------------------- MODULE MCHashSeed -----------------------------
(* Three threads, and seeds below 3: the 0 that stands for no seed and two  *)
(* that differ.                                                             *)
EXTENDS HashSeed
=============================================================================
