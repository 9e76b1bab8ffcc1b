------------------------------ MODULE MCRollup ------------------------------
(* The rollup on a small instance: two results of one endpoint, in the same  *)
(* minute and hour.                                                         *)
EXTENDS Rollup, TLC

CONSTANTS r1, r2, e1

MCOrigin == r1 :> [endpoint |-> e1, started_at |-> 0]
            @@ r2 :> [endpoint |-> e1, started_at |-> 1]

MCWidth == [m1 |-> 2, h1 |-> 4]

Symmetric == Permutations(Workers)
=============================================================================
