--------------------------- MODULE GovernedRelease ---------------------------
(***************************************************************************)
(* From a render to a release: a governed capture inspects the screens of   *)
(* its scope, an audit looks at renders other work has left, both save a    *)
(* Drift Report that keeps every earlier finding nobody has rechecked, a    *)
(* human may document polish as debt, and the release gate answers on the   *)
(* report, the decisions and the worktree as it is by then.                 *)
(*                                                                          *)
(* How a report, the Screen Registry and the evidence catalog change        *)
(* together is the subject of AuditGenerations; here a save is one step     *)
(* under the Registry revision it started from.  The approved Genome cannot *)
(* change while a report exists (only a DRAFT is approved, and a report     *)
(* needs an approved one), so its rules are a constant.                     *)
(***************************************************************************)
EXTENDS Naturals, FiniteSets

CONSTANTS
    Pairs,         \* registered screens, each with its one required state
    Rules,         \* rules of the approved Genome
    Unmatched,     \* what an observation names that matches no rule
    Categories,    \* audit categories
    Category,      \* the category of each rule, and of Unmatched
    Scopes,        \* screens a capture is asked for, and whether as the whole product
    Verdicts,      \* what the inspection of one screen may yield
    RoundDrift,    \* what a Mangekyo round may have observed on a screen
    Sources,       \* contents of the worktree
    Captures,      \* governed captures that may run at a time
    Audits,        \* audits that may run at a time
    None,
    MaxCatalog,    \* the catalog's capacity: 32 in the code
    MaxSaves       \* bound: reports saved

Severities == {"CRITICAL", "IMPORTANT", "POLISH"}
Observations == [rule : Rules \union {Unmatched}, severity : Severities]
Checks == {"PASS", "FAIL", "NOT_VERIFIED"}
Statuses == {"PASS", "PASS_WITH_DEBT", "NOT_VERIFIED", "BLOCKED"}

\* Entries of the evidence catalog, findings, and Drift Reports.
Renders == [pair : Pairs, at : Nat, source : Sources, full : BOOLEAN, checks : Checks]
Notes == [pair : Pairs, rule : Rules \union {Unmatched}, severity : Severities,
          status : {"OPEN", "RESOLVED"}, at : Nat]
Reports == [whole : BOOLEAN, expected : SUBSET Pairs, inspected : SUBSET Pairs,
            unverified : BOOLEAN, overall : Statuses, findings : SUBSET Notes,
            evidence : SUBSET Renders, proofs : SUBSET Renders, captured : BOOLEAN]

ASSUME VerdictsAssumption ==
    /\ Verdicts \subseteq [observed : SUBSET Observations,
                           verified : SUBSET Categories, checks : Checks]
    /\ Scopes \subseteq [screens : (SUBSET Pairs) \ {{}}, whole : BOOLEAN]
    /\ \A s \in Scopes : s.whole => s.screens = Pairs
    /\ RoundDrift \subseteq SUBSET Observations
    /\ Category \in [Rules \union {Unmatched} -> Categories]
    /\ Unmatched \notin Rules
    /\ Captures \intersect Audits = {}
    /\ IsFiniteSet(Pairs) /\ MaxCatalog \in Nat /\ MaxSaves \in Nat
    /\ None \notin Reports

VARIABLES
    source,     \* the worktree
    revision,   \* of the Screen Registry; each save increments it
    stored,     \* number of entries of the evidence catalog
    report,     \* the active Drift Report, or None
    debts,      \* documented polish: the scope and rule each decision names
    asked,      \* the finding a user is about to document, or None
    work,       \* what each capture and audit has established
    gate,       \* the release evaluation under way: the report it has read, or
                \* its answer; and the session it authenticates, if any
    session,    \* the recorded release session under consideration, or None
    open        \* history: observed by a saved report and not rechecked since

vars == <<source, revision, stored, report, debts, asked, work, gate, session,
          open>>
governed == <<revision, stored, report, open>>
human    == <<debts, asked>>
release  == <<gate, session>>


Idle == [pc |-> "idle", revision |-> 0, source |-> None, whole |-> FALSE,
         expected |-> {}, seen |-> {}]
Workers == Captures \union Audits


-----------------------------------------------------------------------------
(* Evidence and findings.                                                   *)

Severe(s) == s \in {"CRITICAL", "IMPORTANT"}

\* captureFullyVerified
FullyVerified(v) ==
    /\ v.verified = Categories
    /\ \A o \in v.observed : ~Severe(o.severity)
    /\ v.checks = "PASS"

\* What was seen of one screen: its verdict, or None, and the worktree then.
Inspected(job) == {s \in job.seen : s.verdict # None}

\* The catalog entries a job's renders become in the save numbered n.
Entry(s, n) == [pair |-> s.pair, at |-> n, source |-> s.source,
                full |-> FullyVerified(s.verdict), checks |-> s.verdict.checks]
Entries(job, n) == {Entry(s, n) : s \in Inspected(job)}

\* findingsFromEvidence
Findings(job, n) ==
    UNION {{[pair |-> s.pair, rule |-> o.rule, severity |-> o.severity,
             status |-> "OPEN", at |-> n] : o \in s.verdict.observed} : s \in Inspected(job)}

SameFinding(f, g) == f.pair = g.pair /\ f.rule = g.rule
Open(findings) == {f \in findings : f.status = "OPEN"}

\* What a report leaves unverified: screens without evidence, categories that
\* were neither observed nor verified, observations bound to no approved rule,
\* checks the browser has not passed, a whole product of one screen.
Unverified(job) ==
    \/ {s.pair : s \in Inspected(job)} # job.expected
    \/ \E s \in Inspected(job) :
          \/ \E c \in Categories : /\ c \notin s.verdict.verified
                                   /\ \A o \in s.verdict.observed : Category[o.rule] # c
          \/ \E o \in s.verdict.observed : o.rule \notin Rules
          \/ s.verdict.checks # "PASS"
    \/ job.whole /\ Cardinality(job.expected) < 2

\* auditResultStatus
AuditStatus(unverified, findings) ==
    LET severities == {f.severity : f \in findings} IN
    CASE unverified                  -> "NOT_VERIFIED"
      [] ~unverified /\ "CRITICAL" \in severities -> "BLOCKED"
      [] ~unverified /\ "CRITICAL" \notin severities /\ "IMPORTANT" \in severities -> "NOT_VERIFIED"
      [] ~unverified /\ severities = {"POLISH"} -> "PASS_WITH_DEBT"
      [] ~unverified /\ severities = {} -> "PASS"

-----------------------------------------------------------------------------
(* The report a save would publish.                                         *)

Earlier == IF report = None THEN {} ELSE report.findings

\* A capture has rechecked an earlier finding when it has verified the finding's
\* category on that screen and observed nothing there in it ...
Rechecked(job, f) ==
    \E s \in Inspected(job) :
        /\ s.pair = f.pair /\ Category[f.rule] \in s.verdict.verified
        /\ \A o \in s.verdict.observed : Category[o.rule] # Category[f.rule]
Gone(job) == {f \in Earlier : Rechecked(job, f)}

\* ... and marks it RESOLVED unless its own findings hold one of that screen and
\* category; they do after the first, so that it marks one of each (which one
\* depends on the order of the report's findings).
SameClaim(f, g) == f.pair = g.pair /\ Category[f.rule] = Category[g.rule]
FirstGone(job) ==
    {first \in SUBSET Gone(job) :
        /\ \A f, g \in first : SameClaim(f, g) => f = g
        /\ \A f \in Gone(job) : \E g \in first : SameClaim(f, g)}
Resolved(first, n) == {[f EXCEPT !.status = "RESOLVED", !.at = n] : f \in first}

\* unresolvedFindings.  As a bug: only the new findings are saved.
OnlyNew(next) == next
Merged(next) ==
    next \union {f \in Open(Earlier) :
                    ~\E g \in next : SameFinding(f, g) /\ g.status = "RESOLVED"}

\* reportEvidenceIds: a captured report cites only its own renders.
\* As a bug: it also keeps the evidence of the report before.
CitesAll(own) == own \union (IF report = None THEN {} ELSE report.evidence)
Cited(own) == own

CapturedReport(job, first, n) ==
    [whole |-> job.whole, expected |-> job.expected,
     inspected |-> {s.pair : s \in Inspected(job)}, unverified |-> Unverified(job),
     overall |-> AuditStatus(Unverified(job), Findings(job, n)),
     findings |-> Merged(Findings(job, n) \union Resolved(first, n)),
     evidence |-> Cited(Entries(job, n)), proofs |-> Entries(job, n), captured |-> TRUE]

\* An audit verifies no category: it is NOT_VERIFIED whatever it finds.
AuditedReport(job, n) ==
    [whole |-> TRUE, expected |-> Pairs,
     inspected |-> {s.pair : s \in Inspected(job)}, unverified |-> TRUE,
     overall |-> "NOT_VERIFIED",
     findings |-> Merged(Findings(job, n)),
     evidence |-> Entries(job, n) \union (IF report = None THEN {} ELSE report.evidence),
     proofs |-> {}, captured |-> FALSE]

\* validateIntrinsicReportTruth
Bound(r) == \A f \in r.findings :
                /\ f.rule \in Rules
                /\ \E e \in r.evidence : e.pair = f.pair /\ e.at = f.at
SelfEvident(r) ==
    r.overall \in {"PASS", "PASS_WITH_DEBT"} =>
        /\ \A p \in r.expected : \E e \in r.proofs : e.pair = p /\ e.full
        /\ \A f \in Open(r.findings) : ~Severe(f.severity)
        /\ r.overall = "PASS" => Open(r.findings) = {}

\* mergeCatalog.  As a bug: the capacity is not checked.
NoBound(entries, more) == TRUE
Fits(entries, more) == stored + Cardinality(entries) + more <= MaxCatalog

\* saveDriftReport: refused as a whole, or published under the next revision.
Accepted(job, r, entries, more) ==
    /\ revision = job.revision
    /\ Fits(entries, more)
    /\ Bound(r) /\ SelfEvident(r)

Observed(findings) == {[pair |-> f.pair, rule |-> f.rule, severity |-> f.severity] : f \in findings}

Publish(r, entries, more, rechecked) ==
    /\ revision' = revision + 1
    /\ stored' = stored + Cardinality(entries) + more
    /\ report' = r
    /\ open' = {o \in open : o \notin rechecked}
               \union Observed({f \in r.findings : f.at = revision + 1 /\ f.status = "OPEN"})

Init ==
    /\ source \in Sources
    /\ revision = 1 /\ stored = 0 /\ report = None
    /\ debts = {} /\ asked = None
    /\ work = [w \in Workers |-> Idle]
    /\ gate = None /\ session = None /\ open = {}

-----------------------------------------------------------------------------
(* Governed capture.                                                        *)

\* The scope is a selection of registered screens, or all of them.
BeginCapture(c) ==
    /\ work[c].pc = "idle" /\ revision <= MaxSaves
    /\ \E s \in Scopes :
          work' = [work EXCEPT ![c] = [Idle EXCEPT !.pc = "inspect", !.revision = revision,
                                                   !.expected = s.screens, !.whole = s.whole]]
    /\ UNCHANGED <<source, governed, human, release>>

\* One screen is rendered, checked and analyzed; its proof is stored.  What
\* cannot be established is UNAVAILABLE.
Inspect(c) ==
    /\ work[c].pc = "inspect"
    /\ \E p \in work[c].expected \ {s.pair : s \in work[c].seen}, v \in Verdicts \union {None} :
          work' = [work EXCEPT ![c].seen = @ \union {[pair |-> p, verdict |-> v, source |-> source]}]
    /\ UNCHANGED <<source, governed, human, release>>

\* As a bug: the worktree is not compared with the renders.
FinishUnchecked(c) ==
    /\ work[c].pc = "inspect" /\ {s.pair : s \in work[c].seen} = work[c].expected
    /\ work' = [work EXCEPT ![c].pc = "save"]
    /\ UNCHANGED <<source, governed, human, release>>

\* Nothing is saved if the worktree changed since one of the renders.
Finish(c) ==
    /\ work[c].pc = "inspect" /\ {s.pair : s \in work[c].seen} = work[c].expected
    /\ work' = [work EXCEPT ![c] = IF \A s \in Inspected(work[c]) : s.source = source
                                   THEN [@ EXCEPT !.pc = "save"] ELSE Idle]
    /\ UNCHANGED <<source, governed, human, release>>

SaveCapture(c) ==
    /\ work[c].pc = "save"
    /\ work' = [work EXCEPT ![c] = Idle]
    /\ \E first \in FirstGone(work[c]) :
          LET job == work[c]
              n == revision + 1
              r == CapturedReport(job, first, n)
          IN IF Accepted(job, r, Entries(job, n), 0)
             THEN Publish(r, Entries(job, n), 0, {o \in open : Rechecked(job, o)})
             ELSE UNCHANGED governed
    /\ UNCHANGED <<source, human, release>>

-----------------------------------------------------------------------------
(* Audit of the renders that Mangekyo rounds have left of the worktree.     *)

\* Such a render proves no category; its round may have observed drift.
RoundVerdict(observed) == [observed |-> observed, verified |-> {}, checks |-> "NOT_VERIFIED"]

\* The audit notes the Registry's revision, and then the worktree's.
BeginAudit(a) ==
    /\ work[a].pc = "idle" /\ revision <= MaxSaves
    /\ work' = [work EXCEPT ![a] = [Idle EXCEPT !.pc = "save", !.revision = revision,
                                               !.expected = Pairs, !.source = source]]
    /\ UNCHANGED <<source, governed, human, release>>

\* What the rounds may have left of the worktree: renders of some screens,
\* with what was observed on each.
AuditJobs(a) ==
    UNION {{[work[a] EXCEPT !.seen = {[pair |-> p, verdict |-> RoundVerdict(o[p]),
                                       source |-> work[a].source] : p \in rendered}]
              : o \in [rendered -> RoundDrift]} : rendered \in SUBSET Pairs}

\* Every audit adds the route of each screen to the catalog once more.
SaveAudit(a) ==
    /\ work[a].pc = "save"
    /\ work' = [work EXCEPT ![a] = Idle]
    /\ \E job \in AuditJobs(a) :
          LET n == revision + 1
              r == AuditedReport(job, n)
              routes == Cardinality(Pairs)
          IN IF Accepted(job, r, Entries(job, n), routes)
             THEN Publish(r, Entries(job, n), routes, {})
             ELSE UNCHANGED governed
    /\ UNCHANGED <<source, human, release>>

-----------------------------------------------------------------------------
(* Documented polish debt and the release gate.                             *)

\* resolveGovernanceFinding: exactly one open finding has this identity.
ReadFinding ==
    /\ asked = None /\ report # None
    /\ \E f \in Open(report.findings) :
          /\ \A g \in Open(report.findings) : SameFinding(f, g) => g = f
          /\ f.severity = "POLISH"
          /\ asked' = [pair |-> f.pair, rule |-> f.rule]
    /\ UNCHANGED <<source, governed, debts, work, release>>

\* recordProjectPolishDebt: a second decision on the same polish is refused.
RecordDebt ==
    /\ asked # None /\ asked' = None
    /\ debts' = debts \union {asked}
    /\ UNCHANGED <<source, governed, work, release>>

\* As a bug: a decision on the rule counts for every screen.
DocumentedRule(f) == \E d \in debts : d.rule = f.rule
Documented(f) == [pair |-> f.pair, rule |-> f.rule] \in debts

\* deriveDocumentedPolishDebt: all of the open findings, or none.
Debt(r) == LET unresolved == Open(r.findings) IN
           IF \A f \in unresolved : f.severity = "POLISH" /\ Documented(f)
           THEN unresolved ELSE {}

\* As a bug: that the source was known is taken for freshness.
SomeSource(e) == e.source # None
Fresh(e) == e.source = source

Runtime(r) ==
    IF \E e \in r.proofs : e.checks = "FAIL" THEN "FAIL"
    ELSE IF r.proofs # {} /\ \A e \in r.proofs : e.checks = "PASS" THEN "PASS"
    ELSE "NOT_VERIFIED"

ScopeComplete(r) ==
    /\ r.inspected = r.expected
    /\ r.whole => Cardinality(r.expected) >= 2

\* Every check passes and is bound to fresh evidence of the whole scope.
ChecksPass(r) ==
    /\ Runtime(r) = "PASS" /\ ~r.unverified
    /\ \A p \in r.expected : \E e \in r.proofs : e.pair = p /\ Fresh(e)
    /\ r.evidence # {} /\ \A e \in r.evidence : Fresh(e)
    /\ Cardinality(r.evidence) = Cardinality(r.expected)
    /\ {e.pair : e \in r.evidence} = r.expected

\* evaluateReleaseGate
GateStatus(r) ==
    IF Runtime(r) = "FAIL" \/ \E f \in Open(r.findings) : f.severity = "CRITICAL"
    THEN "BLOCKED"
    ELSE IF ~ScopeComplete(r) \/ ~ChecksPass(r) \/ (Open(r.findings) # {} /\ Debt(r) = {})
    THEN "NOT_VERIFIED"
    ELSE IF Debt(r) # {} THEN "PASS_WITH_DEBT" ELSE "PASS"

\* The report is read first, to evaluate a release or to authenticate what
\* was recorded of an earlier one ...
ReadReport ==
    /\ gate = None /\ report # None
    /\ \E retained \in {None, session} :
          gate' = [pc |-> "read", report |-> report, open |-> open, at |-> revision,
                   retained |-> retained]
    /\ UNCHANGED <<source, governed, human, work, session>>

\* ... the decisions, the catalog and the worktree after it.
Evaluate ==
    /\ gate # None /\ gate.pc = "read"
    /\ gate' = [pc |-> "evaluated", status |-> GateStatus(gate.report), at |-> gate.at,
                retained |-> gate.retained]
    /\ UNCHANGED <<source, governed, human, work, session>>

\* releaseSessionCheckpoint: the answer, under the report as it is read again.
Checkpoint == [status |-> gate.status, revision |-> revision]

\* evaluateProjectRelease ends with a session that retains its checkpoint.
RecordRelease ==
    /\ gate # None /\ gate.pc = "evaluated" /\ gate.retained = None
    /\ session' = Checkpoint /\ gate' = None
    /\ UNCHANGED <<source, governed, human, work>>

\* authenticateGovernanceReportSession: the retained checkpoint is compared
\* with the one a new evaluation arrives at, and else shown as unavailable.
\* As a bug: only the answers are compared.
SameAnswer == gate.retained.status = gate.status
Authentic == gate.retained = Checkpoint
Authenticate ==
    /\ gate # None /\ gate.pc = "evaluated" /\ gate.retained # None
    /\ gate' = None
    /\ UNCHANGED <<source, governed, human, work, session>>

EditSource ==
    /\ source' \in Sources \ {source}
    /\ UNCHANGED <<governed, human, work, release>>

Next ==
    \/ \E c \in Captures : BeginCapture(c) \/ Inspect(c) \/ Finish(c) \/ SaveCapture(c)
    \/ \E a \in Audits : BeginAudit(a) \/ SaveAudit(a)
    \/ ReadFinding \/ RecordDebt
    \/ ReadReport \/ Evaluate \/ RecordRelease \/ Authenticate
    \/ EditSource

Spec == Init /\ [][Next]_vars

-----------------------------------------------------------------------------
(* Properties.                                                              *)

\* Records keep their shape.
TypeOK ==
    /\ source \in Sources /\ revision \in 1 .. MaxSaves + 1
    /\ stored \in 0 .. MaxCatalog
    /\ report \in Reports \union {None}
    /\ report # None =>
          /\ report.proofs \subseteq report.evidence
          /\ \A e \in report.evidence : e.at \in 2 .. revision
          /\ Cardinality(report.evidence) <= stored
    /\ debts \subseteq [pair : Pairs, rule : Rules]
    /\ session # None =>
          /\ session.status \in Statuses
          /\ session.revision \in 2 .. revision

\* The report's open findings are what saved reports have observed and no saved
\* capture has rechecked since: a later report drops no finding it does not
\* mention, and keeps none its own capture has seen to be gone.  (Of two findings
\* of one category on one screen only the first is marked RESOLVED; a capture
\* that has seen both gone is refused for the other, and neither is forgotten.)
NothingForgotten ==
    report # None => Observed(Open(report.findings)) = open

\* A captured report rests on its own renders alone: each finding cites one of
\* them.  (So a capture that leaves an earlier finding open cannot be saved.)
OwnEvidence ==
    report # None /\ report.captured =>
        \A f \in report.findings : \E e \in report.proofs : e.pair = f.pair /\ e.at = f.at

\* The renders of one captured report show one and the same worktree.
OneSource ==
    report # None =>
        \A e, f \in report.proofs : e.source = f.source

\* A saved report is one every later reader accepts: of its own renders, of one
\* worktree, beside a catalog within the capacity readers insist on.
SoundReport == OwnEvidence /\ OneSource /\ stored <= MaxCatalog

Answered(statuses) ==
    /\ gate # None /\ gate.pc = "read"
    /\ gate' # None /\ gate'.pc = "evaluated" /\ gate'.status \in statuses

\* A release passes only on the worktree as it is when the gate answers: each
\* screen of the scope has a fully verified capture of it, and a whole product
\* is all registered screens, more than one.
FreshRelease ==
    [][Answered({"PASS", "PASS_WITH_DEBT"}) =>
          /\ \A p \in gate.report.expected :
                \E e \in gate.report.proofs : e.pair = p /\ e.full /\ e.source = source
          /\ gate.report.whole => gate.report.expected = Pairs /\ Cardinality(Pairs) > 1]_vars

\* Nothing known is left out of the answer: PASS means that no finding was
\* open when the report was read, PASS_WITH_DEBT that each one is polish a
\* human has documented for that very screen.
HonestRelease ==
    [][/\ Answered({"PASS"}) => gate.open = {}
       /\ Answered({"PASS_WITH_DEBT"}) =>
             \A o \in gate.open : /\ o.severity = "POLISH"
                                  /\ [pair |-> o.pair, rule |-> o.rule] \in debts]_vars

\* A report of the studio shows a release session as authentic only if its
\* status is the gate's answer on the very report the session names, although
\* the report may be replaced while a release is evaluated, between the
\* evaluation and its record, and again while the session is authenticated.
AuthenticRelease ==
    [][Authenticate /\ Authentic =>
          /\ gate.at = gate.retained.revision
          /\ gate.status = gate.retained.status]_vars
=============================================================================
