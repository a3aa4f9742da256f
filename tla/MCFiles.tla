------------------------------ MODULE MCFiles ------------------------------
(* Model-checking instance of Files.                                       *)
EXTENDS Files
=============================================================================
