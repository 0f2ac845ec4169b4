---------------------------- MODULE LearnSession ----------------------------
(***************************************************************************)
(* The Learn requests of the studio and the artifacts they share: SCAN of a *)
(* reference, EVOLVE of a feature, the read-only ASSIMILATION and VERIFY,   *)
(* and the approval of an EVOLVE direction.  Every request but an approval  *)
(* creates a session of its own, asks the agent and commits the result; a   *)
(* SCAN also replaces the analysis of its reference, which other requests   *)
(* read meanwhile.                                                          *)
(*                                                                          *)
(* How one session record is made durable is the subject of SessionJournal; *)
(* here a save is one step that succeeds, fails without effect, or reports  *)
(* a failure although recovery commits it.  A request may die at any step:  *)
(* each is taken to run in a server process of its own.                     *)
(***************************************************************************)
EXTENDS Naturals, FiniteSets

CONSTANTS
    Scans,        \* SCAN requests
    Evolves,      \* EVOLVE requests
    Analyses,     \* ASSIMILATION and VERIFY requests
    Approvers,    \* approvals of an EVOLVE direction
    References,   \* uploaded references
    Target,       \* the reference each request of the first three kinds reads
    None,
    MaxEvidence,  \* bound: changes of the approved Genome or linked finding
    MaxFaults     \* bound: failed writes, deaths and expired leases

Requests == Scans \union Evolves \union Analyses

ASSUME RequestsAssumption ==
    /\ Scans \intersect Evolves = {} /\ Scans \intersect Analyses = {}
    /\ Evolves \intersect Analyses = {} /\ Requests \intersect Approvers = {}
    /\ Target \in [Requests -> References]
    /\ None \notin Requests \union Approvers
    /\ MaxEvidence \in Nat /\ MaxFaults \in Nat

VARIABLES
    status,       \* reference.json: the analysis status of each reference
    dna,          \* design-dna.json: the SCAN whose Design DNA it holds, or None
    session,      \* the visible session record of each request
    drafts,       \* SAFE_EXECUTION drafts, with the approver that made each
    evidence,     \* revision of the approved Genome and the linked finding
    claim,        \* the approval claim of each EVOLVE session
    pc,           \* next step of each request and approver
    kept,         \* what a request or an approver has read and still uses
    faults,       \* faults so far
    torn,         \* history: references whose SCANs overlapped or half undone
    lost,         \* history: requests whose failure could not be recorded
    evicted,      \* history: approvers whose lease expired while they worked
    answeredAt    \* history: the evidence in force when the agent answered

vars == <<status, dna, session, drafts, evidence, claim, pc, kept, faults,
          torn, lost, evicted, answeredAt>>
artifacts == <<status, dna>>
approvals == <<drafts, claim>>
history   == <<torn, lost, evicted, answeredAt>>

-----------------------------------------------------------------------------
(* Records.                                                                 *)

\* canTransitionLearnSession
learnSessionTransitions ==
    [DRAFT |-> {"ANALYZING"}, ANALYZING |-> {"RESULT_READY"},
     RESULT_READY |-> {"AWAITING_DECISION"},
     AWAITING_DECISION |-> {"APPROVED", "REVISE", "REJECT"},
     APPROVED |-> {}, REVISE |-> {}, REJECT |-> {}]

NoSession == [status |-> "NONE", error |-> FALSE, evidence |-> 0, chosen |-> None]

\* None is not taken for an approval claim.
Record == [status : {"NONE"} \union DOMAIN learnSessionTransitions, error : BOOLEAN,
           evidence : 0 .. MaxEvidence, chosen : Approvers \union {None}]
ASSUME ClaimAssumption == None \notin [owner : Approvers, record : Record]

Pending(s)  == s.status \in {"DRAFT", "ANALYZING"}
Result(s)   == s.status \in {"RESULT_READY", "AWAITING_DECISION"}
Approved(s) == s.status = "APPROVED"

\* A change of status with the identity of the record kept: the session must
\* still be in the expected status, and the table must have the edge.
MayTransition(p, expected, to) ==
    /\ session[p].status = expected
    /\ to \in learnSessionTransitions[expected]

At(p, label) == pc[p] = label
Goto(p, label) == pc' = [pc EXCEPT ![p] = label]

Fault == faults < MaxFaults /\ faults' = faults + 1

\* The visible session after a save that reported success, or failure.
Saved(p, s)   == session' = [session EXCEPT ![p] = s] /\ UNCHANGED faults
Unsure(p, s)  == Fault /\ session' \in {session, [session EXCEPT ![p] = s]}

Init ==
    /\ status = [r \in References |-> "READY"]
    /\ dna = [r \in References |-> None]
    /\ session = [p \in Requests |-> NoSession]
    /\ drafts = {}
    /\ evidence = 0
    /\ claim = [e \in Evolves |-> None]
    /\ pc = [p \in Requests \union Approvers |-> "idle"]
    /\ kept = [p \in Requests \union Approvers |-> None]
    /\ faults = 0
    /\ torn = {} /\ lost = {} /\ evicted = {}
    /\ answeredAt = [e \in Evolves |-> 0]

-----------------------------------------------------------------------------
(* What the three kinds of request have in common.                          *)

HasAnalysis(r) == dna[r] # None

\* SCAN loads the reference and its image, which an upload has made durable.
StartScan(s) ==
    /\ At(s, "idle") /\ Goto(s, "draft")
    /\ UNCHANGED <<artifacts, session, approvals, evidence, kept, faults, history>>

\* EVOLVE loads the approved Genome and finding, then the references ...
StartEvolve(e) ==
    /\ At(e, "idle")
    /\ Goto(e, IF status[Target[e]] = "ANALYZED" THEN "analyses" ELSE "done")
    /\ kept' = [kept EXCEPT ![e] = evidence]
    /\ UNCHANGED <<artifacts, session, approvals, evidence, faults, history>>

\* ... and, one read later, the Design DNA of each.
LoadAnalyses(e) ==
    /\ At(e, "analyses")
    /\ Goto(e, IF HasAnalysis(Target[e]) THEN "draft" ELSE "done")
    /\ UNCHANGED <<artifacts, session, approvals, evidence, kept, faults, history>>

StartAnalysis(n) ==
    /\ At(n, "idle")
    /\ Goto(n, IF HasAnalysis(Target[n]) THEN "draft" ELSE "done")
    /\ UNCHANGED <<artifacts, session, approvals, evidence, kept, faults, history>>

\* saveReadonlyLearnSession looks up the Design DNA of its references again.
Refused(p) == p \in Analyses /\ ~HasAnalysis(Target[p])

Draft(p) == [NoSession EXCEPT !.status = "DRAFT",
                              !.evidence = IF p \in Evolves THEN kept[p] ELSE 0]

\* The DRAFT is saved; a failure here ends the request without a trace or with
\* a DRAFT nobody continues.
SaveDraft(p) ==
    /\ At(p, "draft")
    /\ \/ ~Refused(p) /\ Saved(p, Draft(p)) /\ Goto(p, "begin")
       \/ ~Refused(p) /\ Unsure(p, Draft(p)) /\ Goto(p, "done")
       \/ Refused(p) /\ Goto(p, "done") /\ UNCHANGED <<session, faults>>
    /\ UNCHANGED <<artifacts, approvals, evidence, kept, history>>

Analyzing(p) == [session[p] EXCEPT !.status = "ANALYZING"]

\* DRAFT becomes ANALYZING.  SCAN and EVOLVE note the session as theirs to
\* fail before the transition, the read-only modes only after it.
\* As a bug: every route notes the session only after the transition.
NotedLate(p) == "done"
OnRefusedBegin(p) == IF p \in Analyses THEN "done" ELSE "catch"
UnrecordedBegin(p) == IF p \in Analyses THEN {p} ELSE {}
Begin(p) ==
    /\ At(p, "begin")
    /\ \/ /\ ~Refused(p) /\ MayTransition(p, "DRAFT", "ANALYZING")
          /\ Saved(p, Analyzing(p)) /\ Goto(p, "agent") /\ UNCHANGED lost
       \/ /\ ~Refused(p) /\ Unsure(p, Analyzing(p))
          /\ Goto(p, OnRefusedBegin(p)) /\ lost' = lost \union UnrecordedBegin(p)
       \/ /\ Refused(p) /\ Goto(p, "done") /\ UNCHANGED <<session, faults, lost>>
    /\ UNCHANGED <<artifacts, approvals, evidence, kept, torn, evicted, answeredAt>>

\* The agent answers; an answer that is not of the required shape is a failure.
Answer(p, next) ==
    /\ At(p, "agent")
    /\ Goto(p, next) \/ Goto(p, "catch")
    /\ UNCHANGED <<artifacts, session, approvals, evidence, kept, faults, torn, lost, evicted>>

ScanAnswer(s)     == Answer(s, "check") /\ UNCHANGED answeredAt
AnalysisAnswer(n) == Answer(n, "commit") /\ UNCHANGED answeredAt
EvolveAnswer(e)   == Answer(e, "recheck") /\ answeredAt' = [answeredAt EXCEPT ![e] = evidence]

Failed(p) == [session[p] EXCEPT !.status = "ANALYZING", !.error = TRUE]

\* The route's catch: the session is saved as ANALYZING with an error, whatever
\* its status has become; a failure of that save is swallowed, and so is the
\* refusal of an analysis whose reference has lost its Design DNA meanwhile.
Catch(p) ==
    /\ At(p, "catch") /\ Goto(p, "done")
    /\ \/ ~Refused(p) /\ Saved(p, Failed(p)) /\ UNCHANGED lost
       \/ ~Refused(p) /\ Unsure(p, Failed(p)) /\ lost' = lost \union {p}
       \/ Refused(p) /\ UNCHANGED <<session, faults, lost>>
    /\ UNCHANGED <<artifacts, approvals, evidence, kept, torn, evicted, answeredAt>>

-----------------------------------------------------------------------------
(* EVOLVE and the read-only modes.                                          *)

\* As a bug: the result is committed without a second look.
Trust(e) ==
    /\ At(e, "recheck") /\ Goto(e, "commit")
    /\ UNCHANGED <<artifacts, session, approvals, evidence, kept, faults, history>>

\* The Genome and the finding are read again after the agent's answer.
Recheck(e) ==
    /\ At(e, "recheck")
    /\ Goto(e, IF evidence = kept[e] THEN "commit" ELSE "catch")
    /\ UNCHANGED <<artifacts, session, approvals, evidence, kept, faults, history>>

Ready(p) == [session[p] EXCEPT !.status = "RESULT_READY"]

\* commitFeatureEvolveResult
CommitResult(e) ==
    /\ At(e, "commit") /\ Pending(session[e])
    /\ MayTransition(e, "ANALYZING", "RESULT_READY")
    /\ \/ Saved(e, Ready(e)) /\ Goto(e, "await")
       \/ Unsure(e, Ready(e)) /\ Goto(e, "catch")
    /\ UNCHANGED <<artifacts, approvals, evidence, kept, history>>

Awaiting(e) == [session[e] EXCEPT !.status = "AWAITING_DECISION"]

\* RESULT_READY becomes AWAITING_DECISION; once the result is persisted the
\* catch leaves the session alone.
\* As a bug: the catch no longer asks whether the result is persisted.
FailPersisted(e) == "catch"
OnPersistedFailure(e) == "done"
Await(e) ==
    /\ At(e, "await")
    /\ MayTransition(e, "RESULT_READY", "AWAITING_DECISION")
    /\ \/ Saved(e, Awaiting(e)) /\ Goto(e, "done")
       \/ Unsure(e, Awaiting(e)) /\ Goto(e, OnPersistedFailure(e))
    /\ UNCHANGED <<artifacts, approvals, evidence, kept, history>>

CommitAnalysis(n) ==
    /\ At(n, "commit")
    /\ \/ /\ ~Refused(n) /\ MayTransition(n, "ANALYZING", "RESULT_READY")
          /\ \/ Saved(n, Ready(n)) /\ Goto(n, "done")
             \/ Unsure(n, Ready(n)) /\ Goto(n, "catch")
       \/ Refused(n) /\ Goto(n, "catch") /\ UNCHANGED <<session, faults>>
    /\ UNCHANGED <<artifacts, approvals, evidence, kept, history>>

-----------------------------------------------------------------------------
(* SCAN: the commit of a reference, its Design DNA and the session.         *)

Committing == {"original", "dna", "reference", "body", "undoDNA", "undoReference"}
Undoing    == {"undoDNA", "undoReference"}
Overlapped(s) == \E o \in Scans \ {s} : Target[o] = Target[s] /\ pc[o] \in Committing

\* commitReferenceScan loads the reference and the session ...
CheckScan(s) ==
    /\ At(s, "check") /\ Goto(s, "original")
    /\ Pending(session[s]) /\ MayTransition(s, "ANALYZING", "RESULT_READY")
    /\ kept' = [kept EXCEPT ![s] = [status |-> status[Target[s]], dna |-> None]]
    /\ torn' = torn \union (IF Overlapped(s) THEN {Target[s]} ELSE {})
    /\ UNCHANGED <<artifacts, session, approvals, evidence, faults, lost, evicted, answeredAt>>

\* ... then the Design DNA to restore, and opens the commit of the session.
OpenCommit(s) ==
    /\ At(s, "original")
    /\ kept' = [kept EXCEPT ![s].dna = dna[Target[s]]]
    /\ \/ Goto(s, "dna") /\ UNCHANGED faults
       \/ Fault /\ Goto(s, "catch")
    /\ UNCHANGED <<artifacts, session, approvals, evidence, history>>

WriteDNA(s) ==
    /\ At(s, "dna")
    /\ LET new == [dna EXCEPT ![Target[s]] = s] IN
       \/ dna' = new /\ Goto(s, "reference") /\ UNCHANGED faults
       \/ Fault /\ dna' \in {dna, new} /\ Goto(s, "undoDNA")
    /\ UNCHANGED <<status, session, approvals, evidence, kept, history>>

WriteReference(s) ==
    /\ At(s, "reference")
    /\ LET new == [status EXCEPT ![Target[s]] = "ANALYZED"] IN
       \/ status' = new /\ Goto(s, "body") /\ UNCHANGED faults
       \/ Fault /\ status' \in {status, new} /\ Goto(s, "undoDNA")
    /\ UNCHANGED <<dna, session, approvals, evidence, kept, history>>

\* With the body durable the session is RESULT_READY to every later reader.
WriteBody(s) ==
    /\ At(s, "body")
    /\ \/ Saved(s, Ready(s)) /\ Goto(s, "head")
       \/ Fault /\ Goto(s, "undoDNA") /\ UNCHANGED session
    /\ UNCHANGED <<artifacts, approvals, evidence, kept, history>>

\* A head that cannot be written is rolled forward, and the failure reported.
\* As a bug: the commit is rolled back although its session is durable.
UndoDurable(s) == "undoDNA"
OnFailedHead(s) == "catch"
PublishHead(s) ==
    /\ At(s, "head")
    /\ \/ Goto(s, "done") /\ UNCHANGED faults
       \/ Fault /\ Goto(s, OnFailedHead(s))
    /\ UNCHANGED <<artifacts, session, approvals, evidence, kept, history>>

\* As a bug: rollback removes the Design DNA instead of restoring it.
UnlinkDNA(s) ==
    /\ At(s, "undoDNA") /\ Goto(s, "undoReference")
    /\ dna' = [dna EXCEPT ![Target[s]] = None] /\ UNCHANGED <<faults, torn>>
    /\ UNCHANGED <<status, session, approvals, evidence, kept, lost, evicted, answeredAt>>

\* Rollback: each artifact is restored on its own, failures are collected.
UndoDNA(s) ==
    /\ At(s, "undoDNA") /\ Goto(s, "undoReference")
    /\ \/ dna' = [dna EXCEPT ![Target[s]] = kept[s].dna] /\ UNCHANGED <<faults, torn>>
       \/ Fault /\ torn' = torn \union {Target[s]} /\ UNCHANGED dna
    /\ UNCHANGED <<status, session, approvals, evidence, kept, lost, evicted, answeredAt>>

UndoReference(s) ==
    /\ At(s, "undoReference") /\ Goto(s, "catch")
    /\ \/ status' = [status EXCEPT ![Target[s]] = kept[s].status] /\ UNCHANGED <<faults, torn>>
       \/ Fault /\ torn' = torn \union {Target[s]} /\ UNCHANGED status
    /\ UNCHANGED <<dna, session, approvals, evidence, kept, lost, evicted, answeredAt>>

-----------------------------------------------------------------------------
(* Approval of an EVOLVE direction.  kept[a] is the session an approver     *)
(* works on and the record it has read.                                     *)

SessionOf(a) == kept[a].session

\* The route reads the session, the claim notes what it read.
OpenApproval(a, e) ==
    /\ At(a, "idle") /\ Goto(a, "claim")
    /\ session[e].status = "AWAITING_DECISION"
    /\ kept' = [kept EXCEPT ![a] = [session |-> e, record |-> session[e]]]
    /\ UNCHANGED <<artifacts, session, approvals, evidence, faults, history>>

Owner(e) == claim[e].owner
\* A claim found in the way is stale if the session has moved on or its owner
\* is gone; a lease that expired under a live owner counts as a fault.
Stale(e) == \/ session[e] # claim[e].record
            \/ pc[Owner(e)] \in {"done", "dead"}
TakeClaim(a) ==
    LET e == SessionOf(a)
        mine == [claim EXCEPT ![e] = [owner |-> a, record |-> kept[a].record]]
    IN /\ At(a, "claim")
       /\ \/ /\ claim[e] = None
             /\ claim' = mine /\ Goto(a, "reread") /\ UNCHANGED <<faults, evicted>>
          \/ /\ claim[e] # None /\ Stale(e)
             /\ claim' = mine /\ Goto(a, "reread") /\ UNCHANGED <<faults, evicted>>
          \/ /\ claim[e] # None /\ ~Stale(e) /\ Fault
             /\ claim' = mine /\ Goto(a, "reread") /\ evicted' = evicted \union {Owner(e)}
          \/ /\ claim[e] # None /\ ~Stale(e)
             /\ Goto(a, "done") /\ UNCHANGED <<claim, faults, evicted>>
       /\ UNCHANGED <<artifacts, session, drafts, evidence, kept, torn, lost, answeredAt>>

\* As a bug: what the route read before the claim is relied upon.
NoReread(a) ==
    /\ At(a, "reread") /\ Goto(a, "pair")
    /\ UNCHANGED <<artifacts, session, approvals, evidence, kept, faults, history>>

\* A request queued behind a completed approval sees APPROVED and fails closed.
Reread(a) ==
    LET e == SessionOf(a) IN
    /\ At(a, "reread")
    /\ Goto(a, IF Result(session[e]) /\ MayTransition(e, "AWAITING_DECISION", "APPROVED")
               THEN "pair" ELSE "release")
    /\ UNCHANGED <<artifacts, session, approvals, evidence, kept, faults, history>>

\* The approved session and its execution draft are committed as a pair, or
\* the session record is put back; a failing head is rolled forward.
Approve(a) ==
    LET e == SessionOf(a)
        approved == [kept[a].record EXCEPT !.status = "APPROVED", !.chosen = a]
        Commit == /\ session' = [session EXCEPT ![e] = approved]
                  /\ drafts' = drafts \union {[session |-> e, by |-> a]}
    IN /\ At(a, "pair") /\ Goto(a, "release")
       /\ \/ Commit /\ UNCHANGED faults
          \/ Fault /\ Commit
          \/ Fault /\ session' = [session EXCEPT ![e] = kept[a].record] /\ UNCHANGED drafts
       /\ UNCHANGED <<artifacts, claim, evidence, kept, history>>

\* The claim is removed if it is still this approver's own; a failure of the
\* removal is swallowed.
Release(a) ==
    LET e == SessionOf(a)
        mine == claim[e] # None /\ Owner(e) = a
    IN /\ At(a, "release") /\ Goto(a, "done")
       /\ \/ claim' = [claim EXCEPT ![e] = IF mine THEN None ELSE @] /\ UNCHANGED faults
          \/ Fault /\ UNCHANGED claim
       /\ UNCHANGED <<artifacts, session, drafts, evidence, kept, history>>

\* loadApprovedExecutionDirection: the one draft, if its source agrees with it.
Direction == {d \in drafts : /\ drafts = {d}
                             /\ Approved(session[d.session])
                             /\ session[d.session].chosen = d.by}

-----------------------------------------------------------------------------
(* The environment.                                                         *)

\* A Genome is approved, or an audit changes the linked finding.
ChangeEvidence ==
    /\ evidence < MaxEvidence /\ evidence' = evidence + 1
    /\ UNCHANGED <<artifacts, session, approvals, pc, kept, faults, history>>

Die(p) ==
    /\ pc[p] \notin {"idle", "done", "dead"} /\ Fault /\ Goto(p, "dead")
    /\ torn' = torn \union (IF pc[p] \in Undoing THEN {Target[p]} ELSE {})
    /\ UNCHANGED <<artifacts, session, approvals, evidence, kept, lost, evicted, answeredAt>>

ScanStep(s) ==
    \/ StartScan(s) \/ SaveDraft(s) \/ Begin(s) \/ ScanAnswer(s) \/ CheckScan(s)
    \/ OpenCommit(s) \/ WriteDNA(s) \/ WriteReference(s) \/ WriteBody(s)
    \/ PublishHead(s) \/ UndoDNA(s) \/ UndoReference(s) \/ Catch(s)
EvolveStep(e) ==
    \/ StartEvolve(e) \/ LoadAnalyses(e) \/ SaveDraft(e) \/ Begin(e)
    \/ EvolveAnswer(e) \/ Recheck(e) \/ CommitResult(e) \/ Await(e) \/ Catch(e)
AnalysisStep(n) ==
    \/ StartAnalysis(n) \/ SaveDraft(n) \/ Begin(n) \/ AnalysisAnswer(n)
    \/ CommitAnalysis(n) \/ Catch(n)
ApprovalStep(a) ==
    \/ \E e \in Evolves : OpenApproval(a, e)
    \/ TakeClaim(a) \/ Reread(a) \/ Approve(a) \/ Release(a)

Next ==
    \/ \E s \in Scans : ScanStep(s)
    \/ \E e \in Evolves : EvolveStep(e)
    \/ \E n \in Analyses : AnalysisStep(n)
    \/ \E a \in Approvers : ApprovalStep(a)
    \/ \E p \in Requests \union Approvers : Die(p)
    \/ ChangeEvidence

Spec == Init /\ [][Next]_vars

-----------------------------------------------------------------------------
(* Properties.                                                              *)

\* Every record keeps its shape: an EVOLVE result names the evidence it was
\* made on, and only an EVOLVE session is ever put up for decision.
TypeOK ==
    /\ status \in [References -> {"READY", "ANALYZED"}]
    /\ dna \in [References -> Scans \union {None}]
    /\ \A p \in Requests :
          /\ session[p].status \in {"NONE"} \union DOMAIN learnSessionTransitions
          /\ session[p].error \in BOOLEAN
          /\ session[p].evidence \in 0 .. MaxEvidence
          /\ session[p].status \in {"AWAITING_DECISION", "APPROVED"} => p \in Evolves
          /\ Result(session[p]) => ~session[p].error
    /\ drafts \subseteq [session : Evolves, by : Approvers]
    /\ evidence \in 0 .. MaxEvidence
    /\ faults \in 0 .. MaxFaults
    /\ torn \subseteq References /\ lost \subseteq Requests /\ evicted \subseteq Approvers

RollingBack(r) == \E s \in Scans : Target[s] = r /\ pc[s] \in Undoing

\* A reference that says ANALYZED has its Design DNA, through failures and
\* deaths at every write of a commit; otherwise EVOLVE and the report of the
\* project fail on it for good.  Excepted: references two SCANs committed at
\* once, or whose rollback was itself cut short.
AnalyzedHasDNA ==
    \A r \in References :
        status[r] = "ANALYZED" => \/ HasAnalysis(r)
                                  \/ r \in torn
                                  \/ RollingBack(r)

\* A SCAN whose session is visible as RESULT_READY has its reference ANALYZED:
\* rollback never follows a durable session (same exceptions).
ResultBacked ==
    \A s \in Scans :
        session[s].status = "RESULT_READY" =>
            \/ status[Target[s]] = "ANALYZED" /\ HasAnalysis(Target[s])
            \/ Target[s] \in torn

\* A result is only taken back by the request whose own commit reported a
\* failure, and a session that awaits a decision or is approved never is, as
\* long as no approver outlives its lease.
DecisionKept ==
    [][\A p \in Requests :
          /\ session[p].status = "RESULT_READY" /\ session'[p].status # "RESULT_READY"
               => session'[p].status = "AWAITING_DECISION" \/ At(p, "catch")
          /\ session[p].status = "AWAITING_DECISION" /\ session'[p] # session[p]
               => Approved(session'[p])
          /\ Approved(session[p]) /\ evicted = {} => session'[p] = session[p]]_vars

\* A session is approved once, with one execution draft that agrees with it,
\* so that a single approved direction can always be executed.
OneApproval ==
    evicted = {} =>
        \A e \in Evolves :
            /\ Cardinality({d \in drafts : d.session = e}) <= 1
            /\ Approved(session[e]) <=> \E d \in drafts : d.session = e
            /\ Approved(session[e]) /\ Cardinality(drafts) = 1 => Direction = drafts

\* What the user is asked to decide on was made under the Genome and finding
\* that were still in force when the agent had answered.
EvidenceInForce ==
    \A e \in Evolves :
        (Result(session[e]) \/ Approved(session[e])) => session[e].evidence = answeredAt[e]

\* A SCAN of the reference has undone its commit, or ended without a result.
Abandoned(r) ==
    \E s \in Scans :
        /\ Target[s] = r /\ session[s].status = "ANALYZING"
        /\ pc[s] \in {"undoReference", "catch", "done", "dead"}

\* A request that ended leaves no session that claims to be analyzing: it has
\* a result or an error, unless the process died or the error was not saved.
\* Excepted: an analysis of a reference on which a SCAN failed meanwhile; the
\* rollback may take the Design DNA away, without which the analysis can save
\* neither result nor error.
Told ==
    \A p \in Requests :
        At(p, "done") /\ session[p].status = "ANALYZING"
            => \/ session[p].error
               \/ p \in lost
               \/ p \in Analyses /\ Abandoned(Target[p])

\* However a request ends, what the user sees of it holds: the analysis is
\* whole, a result has its analysis, and a request that ended says so.
OutcomesHold == AnalyzedHasDNA /\ ResultBacked /\ Told
=============================================================================
