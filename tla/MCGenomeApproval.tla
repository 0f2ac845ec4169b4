--------------------------- MODULE MCGenomeApproval ---------------------------
(* Small instances of GenomeApproval.                                        *)
EXTENDS GenomeApproval, TLC

CONSTANTS p1, p2, c1, c2

Symmetry == Permutations({p1, p2}) \cup Permutations({c1, c2})
=============================================================================
