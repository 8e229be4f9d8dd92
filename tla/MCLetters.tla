------------------------------ MODULE MCLetters ------------------------------
(* Model values; no symmetry, for the liveness properties.                 *)
EXTENDS Letters
=============================================================================
