--------------------------- MODULE MCAuthAttempts ---------------------------
(* The limiter with four interchangeable requests.                          *)
EXTENDS AuthAttempts, TLC

Symmetric == Permutations(Requests) \cup Permutations(Ips)
=============================================================================
