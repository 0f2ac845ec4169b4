-------------------------- MODULE MCAuditGenerations --------------------------
(* Small instances of AuditGenerations.                                      *)
EXTENDS AuditGenerations, TLC

CONSTANTS w1, w2, r1

Symmetry == Permutations({w1, w2})
=============================================================================
