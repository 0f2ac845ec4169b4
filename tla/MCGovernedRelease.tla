-------------------------- MODULE MCGovernedRelease --------------------------
(* Small instance: two screens, two rules of one category, and a category    *)
(* nothing is observed in.  A capture finds polish, or both rules broken; a  *)
(* round may have seen something critical, or what matches no rule.          *)
EXTENDS GovernedRelease, TLC
CONSTANTS Rule, Visual, Navigation

Sees(severity) == {[rule |-> Rule, severity |-> severity]}
Breaks == {[rule |-> r, severity |-> "IMPORTANT"] : r \in Rules}
Clean     == [observed |-> {}, verified |-> {Visual, Navigation}, checks |-> "PASS"]
Unchecked == [Clean EXCEPT !.verified = {Navigation}]
Polish    == [Clean EXCEPT !.observed = Sees("POLISH")]
Broken    == [Clean EXCEPT !.observed = Breaks]

MCVerdicts == {Clean, Unchecked, Polish, Broken}
MCScopes == {[screens |-> {p}, whole |-> FALSE] : p \in Pairs} \union {[screens |-> Pairs, whole |-> TRUE]}
MCRoundDrift == {Sees("CRITICAL"), {[rule |-> Unmatched, severity |-> "POLISH"]}}
MCCategory == [r \in Rules \union {Unmatched} |-> Visual]
Symmetric == Permutations(Pairs) \union Permutations(Sources)
=============================================================================
