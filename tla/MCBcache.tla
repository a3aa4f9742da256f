------------------------------ MODULE MCBcache ------------------------------
(* Model-checking instance of Bcache.                                      *)
EXTENDS Bcache, TLC

MCSymmetry == Permutations(Proc) \cup Permutations(Block \ Changed)
=============================================================================
