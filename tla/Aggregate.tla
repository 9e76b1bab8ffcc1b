------------------------------ MODULE Aggregate ------------------------------
(***************************************************************************)
(* What the rollup promises those who read probe_stats: every stored       *)
(* result is counted once in each of its cells, or not yet in any.         *)
(***************************************************************************)
EXTENDS Naturals, FiniteSets

CONSTANTS Results, Cells, CellsOf

VARIABLES stored, counted, stats

vars == <<stored, counted, stats>>

Counts(S) == [c \in Cells |-> Cardinality({r \in S : c \in CellsOf[r]})]

Init ==
  /\ stored = {}
  /\ counted = {}
  /\ stats = [c \in Cells |-> 0]

Store(r) ==
  /\ r \notin stored
  /\ stored' = stored \cup {r}
  /\ UNCHANGED <<counted, stats>>

Count(S) ==
  /\ S \subseteq stored \ counted
  /\ counted' = counted \cup S
  /\ stats' = [c \in Cells |-> stats[c] + Counts(S)[c]]
  /\ UNCHANGED stored

Next ==
  \/ \E r \in Results : Store(r)
  \/ \E S \in SUBSET Results : Count(S)

Spec == Init /\ [][Next]_vars
=============================================================================
