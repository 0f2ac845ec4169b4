--------------------------- MODULE MCLearnSession ---------------------------
(* Small instance: every request works on the one reference.                *)
EXTENDS LearnSession, TLC
CONSTANT Reference
MCTarget == [p \in Requests |-> Reference]
Symmetric == Permutations(Scans) \union Permutations(Approvers)
=============================================================================
