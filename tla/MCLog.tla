------------------------------- MODULE MCLog -------------------------------
(* Model-checking instance of Log.                                         *)
EXTENDS Log, TLC

MCSymmetry == Permutations(Proc) \cup Permutations(Block)
=============================================================================
