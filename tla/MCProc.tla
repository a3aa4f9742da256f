------------------------------- MODULE MCProc -------------------------------
(* Model-checking instance of Proc.                                        *)
EXTENDS Proc
=============================================================================
