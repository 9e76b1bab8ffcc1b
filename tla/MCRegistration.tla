--------------------------- MODULE MCRegistration ---------------------------
(* The bodies of the requests TLC combines: each asks for one thing, so that *)
(* what two of them do together is neither's own doing.                     *)
EXTENDS Registration, TLC

CONSTANTS o1, o2, p1, p2, n1, n2

Body(op) == [op |-> op, origin |-> NULL, path |-> NULL, interval |-> NULL, timeout |-> NULL,
             headers |-> NULL]

Rotate == n1 :> "secret"
Swap == n2 :> "plain"
Cleared == [n \in {} |-> "plain"]
KeepBoth == (n1 :> "keep") @@ (n2 :> "plain")

Creations ==
  { [Body("createService") EXCEPT !.origin = o2, !.headers = Rotate],
    [Body("createImplicit") EXCEPT !.origin = o2, !.path = p1],
    [Body("createImplicit") EXCEPT !.origin = o1, !.path = p2, !.headers = Rotate],
    [Body("createImplicit") EXCEPT !.origin = o2, !.path = p2, !.headers = KeepBoth],
    [Body("createEndpoint") EXCEPT !.path = p2, !.interval = 2, !.headers = Swap] }

Updates ==
  { [Body("updateEndpoint") EXCEPT !.path = p1],
    [Body("updateEndpoint") EXCEPT !.path = p2],
    [Body("updateEndpoint") EXCEPT !.interval = 2],
    [Body("updateEndpoint") EXCEPT !.timeout = 2],
    [Body("updateEndpoint") EXCEPT !.headers = Rotate],
    [Body("updateEndpoint") EXCEPT !.headers = Swap],
    [Body("updateEndpoint") EXCEPT !.path = p2, !.headers = KeepBoth],
    [Body("updateEndpoint") EXCEPT !.headers = Cleared],
    [Body("updateService") EXCEPT !.origin = o2, !.headers = KeepBoth],
    [Body("updateService") EXCEPT !.origin = o1],
    [Body("updateService") EXCEPT !.origin = o2],
    [Body("updateService") EXCEPT !.headers = KeepBoth],
    [Body("updateService") EXCEPT !.headers = Rotate] }

Statements == {Body("deleteService"), Body("deleteEndpoint"), Body("setEnabled")}

AllCalls == Creations \cup Updates \cup Statements

Symmetric == Permutations(Requests)
=============================================================================
