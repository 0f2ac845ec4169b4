-------------------------- MODULE MCSessionJournal --------------------------
(* Small instances of SessionJournal: requests r1 and r2 of one server, or   *)
(* of a server each.                                                         *)
EXTENDS SessionJournal, TLC

CONSTANTS r1, r2, x1, x2, a, b, c, ok1, ok2

OneServer == [r \in {r1, r2} |-> x1]
TwoServers == (r1 :> x1) @@ (r2 :> x2)

Symmetry == Permutations({a, b, c}) \cup Permutations({ok1, ok2}) \cup Permutations({r1, r2})
=============================================================================
