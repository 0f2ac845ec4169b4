----------------------------- MODULE MCWorkerLease -----------------------------
(* Small instances of WorkerLease for TLC. *)
EXTENDS WorkerLease, TLC

CONSTANTS w1, w2, w3

TwoWorkers   == {w1, w2}
ThreeWorkers == {w1, w2, w3}

(* Workers differ only in their random workerId. *)
WorkerSymmetry == Permutations(Workers)
===============================================================================
