CONSTANTS
    Scans = {s1, s2}
    Evolves = {e1}
    Analyses = {n1}
    Approvers = {a1, a2}
    Reference = ref
    References = {ref}
    None = None
    MaxEvidence = 1
    MaxFaults = 2
    Target <- MCTarget
SYMMETRY Symmetric
SPECIFICATION Spec
INVARIANTS OutcomesHold OneApproval EvidenceInForce
PROPERTIES DecisionKept
CHECK_DEADLOCK FALSE
