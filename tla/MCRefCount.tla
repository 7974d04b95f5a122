---------------------------- MODULE MCRefCount ----------------------------
(* Two threads, two containers, a leaf and a singleton.                    *)
EXTENDS RefCount
=============================================================================
