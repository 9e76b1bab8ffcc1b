------------------------------- MODULE MCStats -------------------------------
(* Days of two hours of two minutes, months of two days; latencies on both  *)
(* sides of an edge, on it, and beyond the last one.                        *)
EXTENDS Stats, TLC

MCLatency == (0 :> 4) @@ (3 :> 5) @@ (4 :> NULL) @@ (6 :> 6) @@ (9 :> 30) @@ (11 :> 12)
MCEdges == <<5, 10>>
=============================================================================
