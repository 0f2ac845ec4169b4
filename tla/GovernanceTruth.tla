--------------------------- MODULE GovernanceTruth ---------------------------
(* What the audit generations of packages/governance promise to a reader: the *)
(* Screen Registry, the Drift Report and the evidence catalog change together *)
(* in one step, an audit or an edit of the registry, each on top of the last.  *)
EXTENDS Naturals

CONSTANT Ids  \* audits and edits

VARIABLES registry, report, catalog

NoReport == [rev |-> 0, by |-> 0, registry |-> 0]

Init ==
  /\ registry = [rev |-> 1, by |-> 0]
  /\ report = NoReport
  /\ catalog = {}

\* A report on a registry that records the verification, with its evidence.
Audit(id) ==
  /\ registry' = [rev |-> registry.rev + 1, by |-> id]
  /\ report' = [rev |-> report.rev + 1, by |-> id, registry |-> registry.rev + 1]
  /\ catalog' = catalog \cup {id}

\* The last report no longer speaks of this registry.
Edit(id) ==
  /\ registry' = [rev |-> registry.rev + 1, by |-> id]
  /\ UNCHANGED <<report, catalog>>

Next == \E id \in Ids : Audit(id) \/ Edit(id)

Spec == Init /\ [][Next]_<<registry, report, catalog>>
=============================================================================
