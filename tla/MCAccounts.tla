----------------------------- MODULE MCAccounts -----------------------------
(* Accounts on one account that exists and one that may come to exist, with *)
(* one provider account of each provider.                                   *)
EXTENDS Accounts, TLC

CONSTANTS r1, r2, r3, f1, f2, home, other, google, github

\* With one account of each provider, the account stands for the provider.
MCProviderOf == [i \in Identities |-> i]

Symmetric == Permutations(Requests) \cup Permutations(Flows) \cup Permutations(Identities)
=============================================================================
