-------------------------- MODULE CommittedSessions --------------------------
(* What the session store promises: every session has a history of committed *)
(* contents that only ever grows at its end, by one content at a time.       *)
EXTENDS Sequences, Naturals

CONSTANTS Sessions, Contents

VARIABLE history

Init == history = [s \in Sessions |-> <<>>]

Commit(s, c) == history' = [history EXCEPT ![s] = Append(@, c)]

Next == \E s \in Sessions, c \in Contents : Commit(s, c)

Spec == Init /\ [][Next]_history
=============================================================================
