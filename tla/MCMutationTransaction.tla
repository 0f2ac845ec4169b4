------------------------- MODULE MCMutationTransaction -------------------------
(* Small instances of MutationTransaction for TLC. *)
EXTENDS MutationTransaction

CONSTANTS e1, e2, e3, s1, s2, p1, p2

TwoExecutors   == {e1, e2}
ThreeExecutors == {e1, e2, e3}
TwoServers     == {s1, s2}
TwoProposals   == {p1, p2}

(* e1 and e2 are calls in different servers, e3 in the server of e2.       *)
ServerOfEach == [e \in Executors |-> IF e = e1 THEN s1 ELSE s2]

(* One approved proposal executed twice, or a proposal each.               *)
OneProposal  == [e \in Executors |-> p1]
OwnProposals == [e \in Executors |-> IF e = e1 THEN p1 ELSE p2]
===============================================================================
