------------------------------ MODULE MCParser ------------------------------
(* Keys "a" and "b" and a string with a NUL byte, inputs of up to nine      *)
(* tokens (an object with two members), containers two deep.                *)
EXTENDS Parser

MCFlagSets ==
  {{}, {"reject_duplicates"}, {"decode_any", "allow_nul"}, {"disable_eof_check", "decode_any"}}
=============================================================================
