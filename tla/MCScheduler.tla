---------------------------- MODULE MCScheduler ----------------------------
(* Model-checking instances of Scheduler.                                  *)
EXTENDS Scheduler, TLC

MCSymmetry == Permutations(Harts)
=============================================================================
