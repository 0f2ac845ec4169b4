---------------------------- MODULE MCMangekyoLoop ----------------------------
(* Small instances of MangekyoLoop for TLC. *)
EXTENDS MangekyoLoop, TLC

CONSTANTS s1, s2

OneStopper  == {s1}
TwoStoppers == {s1, s2}
NoStopper   == {}
AllChanges  == Change

(* Clients that press Stop are interchangeable. *)
StopperSymmetry == Permutations(Stoppers)
===============================================================================
