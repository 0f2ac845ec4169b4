--------------------------- MODULE MCSafeExecution ---------------------------
(* Small instances of SafeExecution.                                         *)
EXTENDS SafeExecution, TLC

CONSTANTS d1, d2, r1, r2

Symmetry == Permutations({d1, d2}) \cup Permutations({r1, r2})
=============================================================================
