---------------------------- MODULE MCScheduler ----------------------------
(* The scheduler on small instances; each .cfg gives the constants.         *)
EXTENDS Scheduler, TLC

(* Endpoints differ only by the interval they are registered with, which    *)
(* Init lets be anything, and workers by their id alone.                    *)
Symmetric == Permutations(Endpoints) \cup Permutations(Workers)
=============================================================================
