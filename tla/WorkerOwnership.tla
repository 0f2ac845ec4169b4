--------------------------- MODULE WorkerOwnership ---------------------------
(* What the worker lease of a Mangekyo loop promises: the loop has at most  *)
(* one owner, and a new one only after the last one has given it up or lost *)
(* it.                                                                     *)
CONSTANT Workers
VARIABLE owners

Init == owners = {}

Acquire(w) == owners = {} /\ owners' = {w}

Lose(w) == w \in owners /\ owners' = owners \ {w}

Next == \E w \in Workers : Acquire(w) \/ Lose(w)

Spec == Init /\ [][Next]_owners
===============================================================================
