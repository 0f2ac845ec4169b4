------------------------- MODULE GovernedReleaseProofs -------------------------
(***************************************************************************)
(* Proofs about GovernedRelease, for every scope, verdict, worktree, number *)
(* of captures and audits, and capacity.                                    *)
(***************************************************************************)
EXTENDS GovernedRelease, FiniteSetTheorems, FunctionTheorems, TLAPS

-----------------------------------------------------------------------------
(* The inductive invariant.                                                 *)

Views == [pair : Pairs, verdict : Verdicts \union {None}, source : Sources]
Jobs == [pc : {"idle", "inspect", "save"}, revision : Nat, source : Sources \union {None},
         whole : BOOLEAN, expected : SUBSET Pairs, seen : SUBSET Views]

\* What a worker has established while its work lasts.
Established(w, job) ==
    /\ IsFiniteSet(job.seen)
    /\ job.pc # "idle" => job.revision \in 1 .. MaxSaves
    /\ w \in Captures /\ job.whole => job.expected = Pairs
    /\ w \in Captures /\ job.pc = "save" => \A s, t \in Inspected(job) : s.source = t.source
    /\ w \in Audits /\ job.pc = "save" => job.source \in Sources

\* A report with only polish open is one that says so.
Decided(r) ==
    ~r.unverified =>
        /\ r.captured
        /\ \/ r.overall \in {"PASS", "PASS_WITH_DEBT"}
           \/ \E f \in Open(r.findings) : Severe(f.severity)

\* What a report keeps of the save that accepted it.
Sound(r) ==
    /\ r \in Reports
    /\ r.proofs \subseteq r.evidence
    /\ IsFiniteSet(r.evidence)
    /\ Bound(r) /\ SelfEvident(r) /\ Decided(r)
    /\ r.captured => r.evidence = r.proofs
    /\ \A e, f \in r.proofs : e.source = f.source
    /\ r.whole => r.expected = Pairs

Dated(r, last) == \A e \in r.evidence : e.at \in 2 .. last

\* The report and the history agree.
Current ==
    /\ report = None => open = {}
    /\ report # None =>
          /\ Sound(report) /\ Dated(report, revision) /\ revision >= 2
          /\ Cardinality(report.evidence) <= stored
          /\ Observed(Open(report.findings)) = open

\* A checkpoint names a report saved by then.
Recorded(checkpoint, last) ==
    checkpoint.status \in Statuses /\ checkpoint.revision \in 2 .. last

\* An evaluation is under way on a report saved since what it authenticates.
Evaluating ==
    gate # None =>
        /\ gate.at \in 2 .. revision
        /\ gate.retained # None => Recorded(gate.retained, gate.at)
        /\ gate.pc = "read" =>
              Sound(gate.report) /\ Observed(Open(gate.report.findings)) = gate.open
        /\ gate.pc = "evaluated" => gate.status \in Statuses

Typed ==
    /\ source \in Sources
    /\ revision \in 1 .. MaxSaves + 1
    /\ stored \in 0 .. MaxCatalog
    /\ report \in Reports \union {None}
    /\ debts \subseteq [pair : Pairs, rule : Rules]
    /\ asked # None => asked \in [pair : Pairs, rule : Rules]
    /\ work \in [Workers -> Jobs]

ReleaseInv ==
    /\ Typed
    /\ \A w \in Workers : Established(w, work[w])
    /\ Current
    /\ Evaluating
    /\ session # None => Recorded(session, revision)

-----------------------------------------------------------------------------
(* What the operators yield.                                                *)

\* A function has finitely many values on a finite set.
LEMMA FiniteImage ==
  ASSUME NEW S, IsFiniteSet(S), NEW f, f = [x \in S |-> f[x]]
  PROVE  IsFiniteSet({f[x] : x \in S})
<1> DEFINE T == {f[x] : x \in S}
<1>1. f \in Surjection(S, T)
  <2>1. f \in [S -> T]
    OBVIOUS
  <2>2. \A t \in T : \E x \in S : f[x] = t
    OBVIOUS
  <2> QED BY <2>1, <2>2 DEF Surjection
<1> QED BY <1>1, FS_Surjection

\* What a job must have for its renders and findings to be well formed.
Rendered(job) ==
    /\ IsFiniteSet(job.seen)
    /\ job.expected \subseteq Pairs
    /\ \A s \in Inspected(job) :
          /\ s.pair \in Pairs /\ s.source \in Sources
          /\ s.verdict.observed \subseteq Observations /\ s.verdict.checks \in Checks

\* What a worker has rendered is well formed.
LEMMA WorkRendered ==
  ASSUME NEW w \in Workers, Typed, Established(w, work[w])
  PROVE  Rendered(work[w]) /\ work[w].whole \in BOOLEAN
<1>1. work[w] \in Jobs
  BY DEF Typed
<1>2. IsFiniteSet(work[w].seen) /\ work[w].expected \subseteq Pairs /\ work[w].whole \in BOOLEAN
  BY <1>1 DEF Jobs, Established
<1>3. ASSUME NEW s \in Inspected(work[w])
      PROVE  /\ s.pair \in Pairs /\ s.source \in Sources
             /\ s.verdict.observed \subseteq Observations /\ s.verdict.checks \in Checks
  <2>1. s \in Views /\ s.verdict # None
    BY <1>1, <1>3 DEF Jobs, Inspected
  <2>2. s.pair \in Pairs /\ s.source \in Sources /\ s.verdict \in Verdicts
    BY <2>1 DEF Views
  <2>3. s.verdict \in [observed : SUBSET Observations, verified : SUBSET Categories, checks : Checks]
    BY <2>2, VerdictsAssumption
  <2> QED BY <2>2, <2>3
<1> QED BY <1>2, <1>3 DEF Rendered

\* So is whatever an audit may find the rounds to have left.
LEMMA AuditRendered ==
  ASSUME NEW a \in Audits, Typed, Established(a, work[a]), work[a].pc = "save",
         NEW job \in AuditJobs(a)
  PROVE  Rendered(job)
<1> USE DEF Workers
<1>1. work[a] \in Jobs
  BY DEF Typed
<1>0. PICK rendered \in SUBSET Pairs :
        \E o \in [rendered -> RoundDrift] :
          job = [work[a] EXCEPT !.seen = {[pair |-> p, verdict |-> RoundVerdict(o[p]),
                                           source |-> work[a].source] : p \in rendered}]
  BY DEF AuditJobs
<1>2. PICK o \in [rendered -> RoundDrift] :
        job = [work[a] EXCEPT !.seen = {[pair |-> p, verdict |-> RoundVerdict(o[p]),
                                         source |-> work[a].source] : p \in rendered}]
  BY <1>0
<1> DEFINE f == [p \in rendered |-> [pair |-> p, verdict |-> RoundVerdict(o[p]),
                                     source |-> work[a].source]]
<1>3. job.seen = {f[p] : p \in rendered} /\ job.expected \subseteq Pairs
  BY <1>1, <1>2 DEF Jobs
<1>4. IsFiniteSet(job.seen)
  <2>1. IsFiniteSet(rendered)
    BY FS_Subset, VerdictsAssumption
  <2>2. f = [p \in rendered |-> f[p]]
    OBVIOUS
  <2> HIDE DEF f
  <2> QED BY <1>3, <2>1, <2>2, FiniteImage
<1>5. ASSUME NEW s \in Inspected(job)
      PROVE  /\ s.pair \in Pairs /\ s.source \in Sources
             /\ s.verdict.observed \subseteq Observations /\ s.verdict.checks \in Checks
  <2>1. PICK p \in rendered : s = f[p]
    BY <1>3, <1>5 DEF Inspected
  <2>2. s.pair = p /\ s.source = work[a].source /\ s.verdict = RoundVerdict(o[p])
    BY <2>1
  <2>3. o[p] \subseteq Observations
    BY VerdictsAssumption
  <2>4. s.source \in Sources
    BY <2>2 DEF Established
  <2> QED BY <2>2, <2>3, <2>4 DEF RoundVerdict, Checks
<1> QED BY <1>3, <1>4, <1>5 DEF Rendered

\* The catalog entries of a save are finitely many and bear its number.
LEMMA EntriesKnown ==
  ASSUME NEW job, Rendered(job), NEW n \in Nat
  PROVE  /\ IsFiniteSet(Entries(job, n)) /\ Entries(job, n) \subseteq Renders
         /\ \A e \in Entries(job, n) : e.at = n
<1> DEFINE f == [s \in Inspected(job) |-> Entry(s, n)]
<1>1. IsFiniteSet(Inspected(job))
  BY FS_Subset DEF Rendered, Inspected
<1>2. f = [s \in Inspected(job) |-> f[s]] /\ Entries(job, n) = {f[s] : s \in Inspected(job)}
  BY DEF Entries
<1>3. IsFiniteSet(Entries(job, n))
  <2> HIDE DEF f
  <2> QED BY <1>1, <1>2, FiniteImage
<1>4. ASSUME NEW s \in Inspected(job)
      PROVE  Entry(s, n) \in Renders /\ Entry(s, n).at = n
  <2>1. FullyVerified(s.verdict) \in BOOLEAN
    BY DEF FullyVerified
  <2> QED BY <1>4, <2>1 DEF Entry, Renders, Rendered
<1> QED BY <1>3, <1>4 DEF Entries

\* The new findings are open, bear the number of the save, and each is about a
\* screen with an entry.
LEMMA FindingsKnown ==
  ASSUME NEW job, Rendered(job), NEW n \in Nat
  PROVE  /\ Findings(job, n) \subseteq Notes
         /\ \A f \in Findings(job, n) : f.status = "OPEN" /\ f.at = n
<1>1. ASSUME NEW f \in Findings(job, n)
      PROVE  f \in Notes /\ f.status = "OPEN" /\ f.at = n
  <2>0. PICK s \in Inspected(job) :
          f \in {[pair |-> s.pair, rule |-> o.rule, severity |-> o.severity,
                  status |-> "OPEN", at |-> n] : o \in s.verdict.observed}
    BY <1>1 DEF Findings
  <2>1. PICK o \in s.verdict.observed :
          f = [pair |-> s.pair, rule |-> o.rule, severity |-> o.severity,
               status |-> "OPEN", at |-> n]
    BY <2>0
  <2>2. o \in Observations /\ s.pair \in Pairs
    BY DEF Rendered
  <2> QED BY <2>1, <2>2 DEF Notes, Observations
<1> QED BY <1>1

\* A report is always given a status, and one without unverified parts passes
\* unless something severe was found.
LEMMA StatusKnown ==
  ASSUME NEW unverified \in BOOLEAN, NEW findings, findings \subseteq Notes
  PROVE  /\ AuditStatus(unverified, findings) \in Statuses
         /\ ~unverified => \/ AuditStatus(unverified, findings) \in {"PASS", "PASS_WITH_DEBT"}
                           \/ \E f \in findings : Severe(f.severity)
<1> DEFINE severities == {f.severity : f \in findings}
<1>1. severities \subseteq Severities
  BY DEF Notes
<1>2. \/ "CRITICAL" \in severities \/ "IMPORTANT" \in severities
      \/ severities = {"POLISH"} \/ severities = {}
  BY <1>1 DEF Severities
<1>3. "CRITICAL" \in severities \/ "IMPORTANT" \in severities => \E f \in findings : Severe(f.severity)
  BY DEF Severe
<1>4. AuditStatus(unverified, findings) =
        CASE unverified                  -> "NOT_VERIFIED"
          [] ~unverified /\ "CRITICAL" \in severities -> "BLOCKED"
          [] ~unverified /\ "CRITICAL" \notin severities /\ "IMPORTANT" \in severities -> "NOT_VERIFIED"
          [] ~unverified /\ severities = {"POLISH"} -> "PASS_WITH_DEBT"
          [] ~unverified /\ severities = {} -> "PASS"
  BY DEF AuditStatus
<1>5. "CRITICAL" # "IMPORTANT" /\ "POLISH" # "CRITICAL" /\ "POLISH" # "IMPORTANT"
  OBVIOUS
<1> HIDE DEF severities
<1>6. CASE unverified
  BY <1>4, <1>6 DEF Statuses
<1>7. CASE ~unverified /\ "CRITICAL" \in severities
  <2>1. severities # {"POLISH"} /\ severities # {}
    BY <1>5, <1>7
  <2>2. AuditStatus(unverified, findings) = "BLOCKED"
    BY <1>4, <1>7, <2>1
  <2> QED BY <1>3, <1>7, <2>2 DEF Statuses
<1>8. CASE ~unverified /\ "CRITICAL" \notin severities /\ "IMPORTANT" \in severities
  <2>1. severities # {"POLISH"} /\ severities # {}
    BY <1>5, <1>8
  <2>2. AuditStatus(unverified, findings) = "NOT_VERIFIED"
    BY <1>4, <1>8, <2>1
  <2> QED BY <1>3, <1>8, <2>2 DEF Statuses
<1>9. CASE ~unverified /\ severities = {"POLISH"}
  <2>1. severities # {} /\ "CRITICAL" \notin severities /\ "IMPORTANT" \notin severities
    BY <1>5, <1>9
  <2>2. AuditStatus(unverified, findings) = "PASS_WITH_DEBT"
    BY <1>4, <1>9, <2>1
  <2> QED BY <2>2 DEF Statuses
<1>10. CASE ~unverified /\ severities = {}
  <2>1. severities # {"POLISH"} /\ "CRITICAL" \notin severities /\ "IMPORTANT" \notin severities
    BY <1>10
  <2>2. AuditStatus(unverified, findings) = "PASS"
    BY <1>4, <1>10, <2>1
  <2> QED BY <2>2 DEF Statuses
<1> QED BY <1>2, <1>6, <1>7, <1>8, <1>9, <1>10

-----------------------------------------------------------------------------
(* The reports a save would publish.                                        *)

\* The findings of the active report.
LEMMA EarlierKnown ==
  ASSUME Typed
  PROVE  Earlier \subseteq Notes
BY DEF Typed, Earlier, Reports

\* A resolved finding bears the number of the save that resolved it.
LEMMA ResolvedKnown ==
  ASSUME Typed, NEW job, NEW first \in FirstGone(job), NEW n \in Nat
  PROVE  /\ Resolved(first, n) \subseteq Notes
         /\ \A f \in Resolved(first, n) : f.status = "RESOLVED" /\ f.at = n
<1>1. first \subseteq Earlier
  BY DEF FirstGone, Gone
<1>2. ASSUME NEW f \in Resolved(first, n)
      PROVE  f \in Notes /\ f.status = "RESOLVED" /\ f.at = n
  <2>1. PICK g \in first : f = [g EXCEPT !.status = "RESOLVED", !.at = n]
    BY <1>2 DEF Resolved
  <2>2. g \in Notes
    BY <1>1, EarlierKnown
  <2> QED BY <2>1, <2>2 DEF Notes
<1> QED BY <1>2

\* Merging keeps the shape of findings.
LEMMA MergedKnown ==
  ASSUME Typed, NEW next, next \subseteq Notes
  PROVE  Merged(next) \subseteq Notes
BY EarlierKnown DEF Merged, Open

\* The report a capture would save has the shape of a report.
LEMMA CapturedKnown ==
  ASSUME Typed, NEW job, Rendered(job), job.whole \in BOOLEAN,
         NEW first \in FirstGone(job), NEW n \in Nat
  PROVE  CapturedReport(job, first, n) \in Reports
<1> DEFINE findings == Merged(Findings(job, n) \union Resolved(first, n))
           entries == Entries(job, n)
           inspected == {s.pair : s \in Inspected(job)}
           overall == AuditStatus(Unverified(job), Findings(job, n))
<1>1. findings \subseteq Notes
  BY FindingsKnown, ResolvedKnown, MergedKnown
<1>2. entries \subseteq Renders
  BY EntriesKnown
<1>3. inspected \subseteq Pairs
  BY DEF Rendered
<1>4. Unverified(job) \in BOOLEAN
  BY DEF Unverified
<1>5. overall \in Statuses
  BY <1>4, FindingsKnown, StatusKnown
<1>6. job.expected \subseteq Pairs
  BY DEF Rendered
<1>7. CapturedReport(job, first, n) =
        [whole |-> job.whole, expected |-> job.expected, inspected |-> inspected,
         unverified |-> Unverified(job), overall |-> overall, findings |-> findings,
         evidence |-> entries, proofs |-> entries, captured |-> TRUE]
  BY DEF CapturedReport, Cited
<1> HIDE DEF findings, entries, inspected, overall
<1> QED BY <1>1, <1>2, <1>3, <1>4, <1>5, <1>6, <1>7 DEF Reports

\* So has the report of an audit.
LEMMA AuditedKnown ==
  ASSUME Typed, NEW job, Rendered(job), NEW n \in Nat
  PROVE  AuditedReport(job, n) \in Reports
<1> DEFINE findings == Merged(Findings(job, n))
           evidence == Entries(job, n) \union (IF report = None THEN {} ELSE report.evidence)
           inspected == {s.pair : s \in Inspected(job)}
<1>1. findings \subseteq Notes
  BY FindingsKnown, MergedKnown
<1>2. evidence \subseteq Renders
  <2>1. (IF report = None THEN {} ELSE report.evidence) \subseteq Renders
    BY DEF Typed, Reports
  <2> QED BY <2>1, EntriesKnown
<1>3. inspected \subseteq Pairs
  BY DEF Rendered
<1>4. AuditedReport(job, n) =
        [whole |-> TRUE, expected |-> Pairs, inspected |-> inspected,
         unverified |-> TRUE, overall |-> "NOT_VERIFIED", findings |-> findings,
         evidence |-> evidence, proofs |-> {}, captured |-> FALSE]
  BY DEF AuditedReport
<1> HIDE DEF findings, evidence, inspected
<1> QED BY <1>1, <1>2, <1>3, <1>4 DEF Reports, Statuses

\* An earlier open finding is kept unless the capture has resolved it.
LEMMA OpenAfterCapture ==
  ASSUME Typed, NEW job, Rendered(job), NEW first \in FirstGone(job), NEW n \in Nat
  PROVE  Open(Merged(Findings(job, n) \union Resolved(first, n)))
           = Findings(job, n) \union
             {f \in Open(Earlier) : ~\E g \in first : SameFinding(f, g)}
<1> DEFINE next == Findings(job, n) \union Resolved(first, n)
           kept == {f \in Open(Earlier) : ~\E g \in next : SameFinding(f, g) /\ g.status = "RESOLVED"}
<1>1. \A f \in Findings(job, n) : f.status = "OPEN"
  BY FindingsKnown
<1>2. \A f \in Resolved(first, n) : f.status = "RESOLVED"
  BY ResolvedKnown
<1>3. \A g \in first : g \in Notes
  BY EarlierKnown DEF FirstGone, Gone
<1>4. ASSUME NEW f \in Open(Earlier)
      PROVE  (\E g \in next : SameFinding(f, g) /\ g.status = "RESOLVED")
                <=> \E g \in first : SameFinding(f, g)
  <2>1. ASSUME NEW h \in first, SameFinding(f, h)
        PROVE  \E g \in next : SameFinding(f, g) /\ g.status = "RESOLVED"
    <3> DEFINE g == [h EXCEPT !.status = "RESOLVED", !.at = n]
    <3>1. g \in Resolved(first, n)
      BY DEF Resolved
    <3>2. g.pair = h.pair /\ g.rule = h.rule /\ g.status = "RESOLVED"
      BY <1>3 DEF Notes
    <3> HIDE DEF g
    <3> QED BY <2>1, <3>1, <3>2 DEF SameFinding
  <2>2. ASSUME NEW g \in next, SameFinding(f, g), g.status = "RESOLVED"
        PROVE  \E h \in first : SameFinding(f, h)
    <3>1. g \in Resolved(first, n)
      BY <2>2, <1>1
    <3>2. PICK h \in first : g = [h EXCEPT !.status = "RESOLVED", !.at = n]
      BY <3>1 DEF Resolved
    <3>3. h.pair = g.pair /\ h.rule = g.rule
      BY <1>3, <3>2 DEF Notes
    <3> QED BY <2>2, <3>3 DEF SameFinding
  <2> QED BY <2>1, <2>2
<1>5. kept = {f \in Open(Earlier) : ~\E g \in first : SameFinding(f, g)}
  BY <1>4
<1>6. Merged(next) = next \union kept
  BY DEF Merged
<1>7. \A f \in kept : f.status = "OPEN"
  BY DEF Open
<1>8. Open(next \union kept) = Findings(job, n) \union kept
  <2> HIDE DEF kept
  <2> QED BY <1>1, <1>2, <1>7 DEF Open
<1> QED BY <1>5, <1>6, <1>8

\* An audit rechecks nothing.
LEMMA OpenAfterAudit ==
  ASSUME Typed, NEW job, Rendered(job), NEW n \in Nat
  PROVE  Open(Merged(Findings(job, n))) = Findings(job, n) \union Open(Earlier)
<1>1. \A f \in Findings(job, n) : f.status = "OPEN"
  BY FindingsKnown
<1>2. Merged(Findings(job, n)) = Findings(job, n) \union Open(Earlier)
  <2>1. \A f \in Open(Earlier) : ~\E g \in Findings(job, n) : SameFinding(f, g) /\ g.status = "RESOLVED"
    BY <1>1
  <2> QED BY <2>1 DEF Merged
<1> QED BY <1>1, <1>2 DEF Open

-----------------------------------------------------------------------------
(* A save.                                                                  *)

\* A capture's report that is accepted is sound, and cites its own renders.
LEMMA CapturedSound ==
  ASSUME Typed, Current, NEW c \in Captures, Established(c, work[c]), work[c].pc = "save",
         NEW first \in FirstGone(work[c]),
         Accepted(work[c], CapturedReport(work[c], first, revision + 1),
                  Entries(work[c], revision + 1), 0)
  PROVE  LET r == CapturedReport(work[c], first, revision + 1)
         IN  /\ Sound(r) /\ Dated(r, revision + 1)
             /\ r.evidence = Entries(work[c], revision + 1)
<1> USE DEF Workers
<1> DEFINE job == work[c]
           n == revision + 1
           r == CapturedReport(job, first, n)
<1>1. n \in Nat /\ n >= 2
  BY DEF Typed
<1>2. Rendered(job) /\ job.whole \in BOOLEAN
  BY WorkRendered
<1>3. r \in Reports
  BY <1>1, <1>2, CapturedKnown
<1>4. /\ r.proofs = Entries(job, n) /\ r.evidence = Entries(job, n) /\ r.captured
      /\ r.whole = job.whole /\ r.expected = job.expected /\ r.unverified = Unverified(job)
      /\ r.overall = AuditStatus(Unverified(job), Findings(job, n))
      /\ r.findings = Merged(Findings(job, n) \union Resolved(first, n))
  BY DEF CapturedReport, Cited
<1>5. IsFiniteSet(r.evidence) /\ Dated(r, n)
  <2>1. \A e \in Entries(job, n) : e.at = n
    BY <1>1, <1>2, EntriesKnown
  <2>2. n \in 2 .. n
    BY <1>1
  <2> HIDE DEF n, r, job
  <2> QED BY <1>1, <1>2, <1>4, <2>1, <2>2, EntriesKnown DEF Dated
<1>6. Bound(r) /\ SelfEvident(r)
  BY DEF Accepted
<1>7. Decided(r)
  <2>1. Unverified(job) \in BOOLEAN
    BY DEF Unverified
  <2>2. Findings(job, n) \subseteq Open(r.findings)
    BY <1>1, <1>2, <1>4, OpenAfterCapture
  <2>3. Findings(job, n) \subseteq Notes
    BY <1>1, <1>2, FindingsKnown
  <2> HIDE DEF n, r, job
  <2>4. ~r.unverified => \/ r.overall \in {"PASS", "PASS_WITH_DEBT"}
                         \/ \E f \in Findings(job, n) : Severe(f.severity)
    BY <1>4, <2>1, <2>3, StatusKnown
  <2> QED BY <1>4, <2>2, <2>4 DEF Decided
<1>8. \A e, f \in r.proofs : e.source = f.source
  <2>1. ASSUME NEW e \in Entries(job, n), NEW f \in Entries(job, n)
        PROVE  e.source = f.source
    <3>1. PICK s \in Inspected(job) : e = Entry(s, n)
      BY DEF Entries
    <3>2. PICK t \in Inspected(job) : f = Entry(t, n)
      BY DEF Entries
    <3>3. s.source = t.source
      BY DEF Established
    <3> QED BY <3>1, <3>2, <3>3 DEF Entry
  <2> QED BY <1>4, <2>1
<1>9. r.whole => r.expected = Pairs
  BY <1>4 DEF Established
<1> HIDE DEF r, n, job
<1>10. Sound(r) /\ Dated(r, n) /\ r.evidence = Entries(job, n)
  BY <1>3, <1>4, <1>5, <1>6, <1>7, <1>8, <1>9 DEF Sound
<1> QED BY <1>10 DEF r, n, job

\* An audit's report that is accepted is sound, and with the evidence it keeps
\* stays within what the catalog holds.
LEMMA AuditedSound ==
  ASSUME Typed, Current, NEW a \in Audits, Established(a, work[a]), work[a].pc = "save",
         NEW job \in AuditJobs(a), NEW routes,
         Accepted(job, AuditedReport(job, revision + 1), Entries(job, revision + 1), routes)
  PROVE  LET r == AuditedReport(job, revision + 1)
             entries == Entries(job, revision + 1)
         IN  /\ Sound(r) /\ Dated(r, revision + 1)
             /\ Cardinality(r.evidence) <= stored + Cardinality(entries)
<1> DEFINE n == revision + 1
           r == AuditedReport(job, n)
           before == IF report = None THEN {} ELSE report.evidence
<1>1. n \in Nat /\ n >= 2 /\ revision \in Nat /\ stored \in Nat
  BY DEF Typed
<1>2. Rendered(job)
  BY AuditRendered
<1>3. r \in Reports
  BY <1>1, <1>2, AuditedKnown
<1>4. /\ r.proofs = {} /\ r.evidence = Entries(job, n) \union before /\ ~r.captured
      /\ r.expected = Pairs /\ r.unverified
  BY DEF AuditedReport
<1>5. /\ IsFiniteSet(before) /\ Cardinality(before) <= stored
      /\ \A e \in before : e.at \in 2 .. revision
  BY <1>1, FS_EmptySet DEF Current, Sound, Dated
<1>6. /\ IsFiniteSet(Entries(job, n))
      /\ \A e \in Entries(job, n) : e.at = n
  BY <1>1, <1>2, EntriesKnown
<1> HIDE DEF before
<1>7. IsFiniteSet(r.evidence) /\ Cardinality(r.evidence) <= stored + Cardinality(Entries(job, n))
  <2>1. /\ Cardinality(Entries(job, n)) \in Nat /\ Cardinality(before) \in Nat
        /\ Cardinality(Entries(job, n) \cap before) \in Nat
    BY <1>5, <1>6, FS_CardinalityType, FS_Intersection
  <2>2. /\ IsFiniteSet(Entries(job, n) \union before)
        /\ Cardinality(Entries(job, n) \union before)
             = Cardinality(Entries(job, n)) + Cardinality(before) - Cardinality(Entries(job, n) \cap before)
    BY <1>5, <1>6, FS_Union
  <2> HIDE DEF r, n
  <2> QED BY <1>1, <1>4, <1>5, <2>1, <2>2
<1>8. Dated(r, n)
  <2> HIDE DEF r
  <2> QED BY <1>1, <1>4, <1>5, <1>6 DEF Dated
<1>9. Bound(r) /\ SelfEvident(r)
  BY DEF Accepted
<1> HIDE DEF r, n
<1>10. Sound(r)
  BY <1>3, <1>4, <1>7, <1>9 DEF Sound, Decided
<1> QED BY <1>7, <1>8, <1>10 DEF r, n

\* A capture whose report cites its own renders alone has resolved all of the
\* earlier findings that were open, and so rechecked each of them.
LEMMA HistoryAfterCapture ==
  ASSUME Typed, Current, NEW job, Rendered(job), NEW first \in FirstGone(job),
         \A f \in Merged(Findings(job, revision + 1) \union Resolved(first, revision + 1)) :
            f.at = revision + 1
  PROVE  LET n == revision + 1
             next == Merged(Findings(job, n) \union Resolved(first, n))
         IN  Observed(Open(next)) =
                {o \in open : o \notin {q \in open : Rechecked(job, q)}}
                \union Observed({f \in next : f.at = n /\ f.status = "OPEN"})
<1> DEFINE n == revision + 1
           next == Merged(Findings(job, n) \union Resolved(first, n))
           kept == {f \in Open(Earlier) : ~\E g \in first : SameFinding(f, g)}
<1>1. n \in Nat /\ revision \in Nat
  BY DEF Typed
<1>2. Open(next) = Findings(job, n) \union kept
  BY <1>1, OpenAfterCapture
<1>3. Observed(Open(Earlier)) = open
  <2>1. CASE report = None
    BY <2>1 DEF Current, Earlier, Open, Observed
  <2>2. CASE report # None
    BY <2>2 DEF Current, Earlier
  <2> QED BY <2>1, <2>2
<1>4. \A f \in Earlier : f.at # n
  <2>1. \A f \in Earlier : f.at \in 2 .. revision
    BY <1>1 DEF Current, Earlier, Sound, Bound, Dated
  <2> QED BY <1>1, <2>1
<1>5. kept = {}
  <2>1. \A f \in kept : f \in next /\ f \in Earlier
    BY <1>2 DEF Open
  <2> QED BY <1>4, <2>1
<1>6. {f \in next : f.at = n /\ f.status = "OPEN"} = Open(next)
  BY DEF Open
<1>7. ASSUME NEW o \in open
      PROVE  Rechecked(job, o)
  <2>1. PICK f \in Open(Earlier) : o = [pair |-> f.pair, rule |-> f.rule, severity |-> f.severity]
    BY <1>3 DEF Observed
  <2>2. PICK g \in first : SameFinding(f, g)
    BY <1>5
  <2>3. Rechecked(job, g)
    BY <2>2 DEF FirstGone, Gone
  <2>4. o.pair = g.pair /\ o.rule = g.rule
    BY <2>1, <2>2 DEF SameFinding
  <2> QED BY <2>3, <2>4 DEF Rechecked
<1>8. {o \in open : o \notin {q \in open : Rechecked(job, q)}} = {}
  BY <1>7
<1> QED BY <1>6, <1>8

\* An audit adds to the history and takes nothing from it.
LEMMA HistoryAfterAudit ==
  ASSUME Typed, Current, NEW job, Rendered(job)
  PROVE  LET n == revision + 1
             next == Merged(Findings(job, n))
         IN  Observed(Open(next)) =
                {o \in open : o \notin {}}
                \union Observed({f \in next : f.at = n /\ f.status = "OPEN"})
<1> DEFINE n == revision + 1
           next == Merged(Findings(job, n))
<1>1. n \in Nat /\ revision \in Nat
  BY DEF Typed
<1>2. Open(next) = Findings(job, n) \union Open(Earlier)
  BY <1>1, OpenAfterAudit
<1>3. \A f \in Findings(job, n) : f.at = n
  BY <1>1, FindingsKnown
<1>4. Observed(Open(Earlier)) = open
  <2>1. CASE report = None
    BY <2>1 DEF Current, Earlier, Open, Observed
  <2>2. CASE report # None
    BY <2>2 DEF Current, Earlier
  <2> QED BY <2>1, <2>2
<1>5. \A f \in Earlier : f.at # n
  <2>1. \A f \in Earlier : f.at \in 2 .. revision
    BY <1>1 DEF Current, Earlier, Sound, Bound, Dated
  <2> QED BY <1>1, <2>1
<1>6. {f \in next : f.at = n /\ f.status = "OPEN"} = Findings(job, n)
  <2>1. {f \in next : f.at = n /\ f.status = "OPEN"} = {f \in Open(next) : f.at = n}
    BY DEF Open
  <2>2. \A f \in Open(Earlier) : f.at # n
    BY <1>5 DEF Open
  <2> HIDE DEF next, n
  <2> QED BY <1>2, <1>3, <2>1, <2>2
<1>7. Observed(Findings(job, n) \union Open(Earlier))
        = Observed(Findings(job, n)) \union Observed(Open(Earlier))
  BY DEF Observed
<1> HIDE DEF next, n
<1>8. Observed(Open(next)) =
         {o \in open : o \notin {}}
         \union Observed({f \in next : f.at = n /\ f.status = "OPEN"})
  BY <1>2, <1>4, <1>6, <1>7
<1> QED BY <1>8 DEF next, n

\* What is published is current, whatever it was saved by.
LEMMA PublishKept ==
  ASSUME ReleaseInv, NEW r, NEW entries, NEW more \in Nat, NEW rechecked,
         Publish(r, entries, more, rechecked), Fits(entries, more),
         Sound(r), Dated(r, revision + 1), IsFiniteSet(entries),
         Cardinality(r.evidence) <= stored + Cardinality(entries),
         revision <= MaxSaves,
         Observed(Open(r.findings)) =
            {o \in open : o \notin rechecked}
            \union Observed({f \in r.findings : f.at = revision + 1 /\ f.status = "OPEN"})
  PROVE  /\ Current'
         /\ revision' = revision + 1 /\ revision' \in 1 .. MaxSaves + 1
         /\ stored' \in 0 .. MaxCatalog /\ report' \in Reports
<1>1. revision \in Nat /\ revision >= 1 /\ stored \in Nat /\ MaxSaves \in Nat /\ MaxCatalog \in Nat
  BY VerdictsAssumption DEF ReleaseInv, Typed
<1>2. Cardinality(entries) \in Nat /\ Cardinality(r.evidence) \in Nat
  BY FS_CardinalityType DEF Sound
<1>3. /\ revision' = revision + 1 /\ report' = r
      /\ stored' = stored + Cardinality(entries) + more
      /\ stored + Cardinality(entries) + more <= MaxCatalog
      /\ open' = Observed(Open(r.findings))
  BY DEF Publish, Fits
<1>4. r \in Reports /\ r # None
  BY VerdictsAssumption DEF Sound
<1>5. Dated(r, revision')
  BY <1>3
<1>6. revision' >= 2 /\ Cardinality(r.evidence) <= stored'
  BY <1>1, <1>2, <1>3
<1>7. Current'
  BY <1>3, <1>4, <1>5, <1>6 DEF Current, Sound, Bound, SelfEvident, Decided, Dated, Open, Observed
<1> QED BY <1>1, <1>2, <1>3, <1>4, <1>7

-----------------------------------------------------------------------------
(* One lemma per action.                                                    *)

\* A worker goes on with what it has established.
LEMMA WorkKept ==
  ASSUME ReleaseInv, NEW w \in Workers, NEW job \in Jobs, Established(w, job),
         work' = [work EXCEPT ![w] = job]
  PROVE  work' \in [Workers -> Jobs] /\ \A v \in Workers : Established(v, work'[v])
<1>1. work \in [Workers -> Jobs] /\ \A v \in Workers : Established(v, work[v])
  BY DEF ReleaseInv, Typed
<1>2. work' \in [Workers -> Jobs]
  BY <1>1
<1>3. \A v \in Workers : work'[v] = IF v = w THEN job ELSE work[v]
  BY <1>1
<1> QED BY <1>1, <1>2, <1>3

\* A worker at rest has established nothing.
LEMMA IdleKept ==
  ASSUME NEW w
  PROVE  Idle \in Jobs /\ Established(w, Idle)
<1>1. Idle \in Jobs
  BY DEF Idle, Jobs
<1>2. Idle.pc = "idle" /\ Idle.seen = {} /\ Idle.whole = FALSE
  BY DEF Idle
<1> QED BY <1>1, <1>2, FS_EmptySet DEF Established

\* A step of a worker that saves nothing.
LEMMA WorkStep ==
  ASSUME ReleaseInv, NEW w \in Workers, NEW job \in Jobs, Established(w, job),
         work' = [work EXCEPT ![w] = job], UNCHANGED <<source, governed, human, release>>
  PROVE  ReleaseInv'
<1>1. work' \in [Workers -> Jobs] /\ \A v \in Workers : Established(v, work'[v])
  BY WorkKept
<1>2. /\ UNCHANGED <<source, revision, stored, report, open, debts, asked, gate, session>>
  BY DEF governed, human, release
<1>3. Typed'
  BY <1>1, <1>2 DEF ReleaseInv, Typed
<1>4. Current'
  BY <1>2 DEF ReleaseInv, Current, Sound, Bound, SelfEvident, Decided, Dated, Open, Observed
<1>5. Evaluating'
  BY <1>2 DEF ReleaseInv, Evaluating, Sound, Bound, SelfEvident, Decided, Recorded, Open, Observed
<1>6. (session # None => Recorded(session, revision))'
  BY <1>2 DEF ReleaseInv, Recorded
<1>7. (\A v \in Workers : Established(v, work[v]))'
  BY <1>1 DEF Established, Inspected
<1> QED BY <1>3, <1>4, <1>5, <1>6, <1>7 DEF ReleaseInv

\* The capture starts from the revision it reads.
LEMMA BeginCaptureKept ==
  ASSUME ReleaseInv, NEW c \in Captures, BeginCapture(c)
  PROVE  ReleaseInv'
<1>1. PICK s \in Scopes :
        work' = [work EXCEPT ![c] = [Idle EXCEPT !.pc = "inspect", !.revision = revision,
                                                 !.expected = s.screens, !.whole = s.whole]]
  BY DEF BeginCapture
<1> DEFINE job == [Idle EXCEPT !.pc = "inspect", !.revision = revision,
                               !.expected = s.screens, !.whole = s.whole]
<1>2. /\ s.screens \subseteq Pairs /\ s.whole \in BOOLEAN /\ (s.whole => s.screens = Pairs)
  <2>1. s \in [screens : (SUBSET Pairs) \ {{}}, whole : BOOLEAN]
    BY VerdictsAssumption
  <2> QED BY <2>1, VerdictsAssumption
<1>3. revision \in 1 .. MaxSaves /\ revision \in Nat
  BY VerdictsAssumption DEF BeginCapture, ReleaseInv, Typed
<1>4. Idle \in Jobs /\ Idle.seen = {}
  BY IdleKept DEF Idle
<1>5. /\ job \in Jobs /\ job.pc = "inspect" /\ job.revision = revision
      /\ job.expected = s.screens /\ job.whole = s.whole /\ job.seen = {}
  BY <1>2, <1>3, <1>4 DEF Jobs
<1> HIDE DEF job
<1>6. Established(c, job)
  BY <1>2, <1>3, <1>5, FS_EmptySet, VerdictsAssumption DEF Established
<1>7. work' = [work EXCEPT ![c] = job]
  BY <1>1 DEF job
<1> QED BY <1>5, <1>6, <1>7, WorkStep DEF BeginCapture, Workers

\* One more screen is seen.
LEMMA InspectKept ==
  ASSUME ReleaseInv, NEW c \in Captures, Inspect(c)
  PROVE  ReleaseInv'
<1> USE DEF Workers
<1>1. PICK p \in work[c].expected \ {s.pair : s \in work[c].seen}, v \in Verdicts \union {None} :
        work' = [work EXCEPT ![c].seen = @ \union {[pair |-> p, verdict |-> v, source |-> source]}]
  BY DEF Inspect
<1> DEFINE view == [pair |-> p, verdict |-> v, source |-> source]
           job == [work[c] EXCEPT !.seen = @ \union {view}]
<1>2. work[c] \in Jobs /\ Established(c, work[c]) /\ source \in Sources /\ work \in [Workers -> Jobs]
  BY DEF ReleaseInv, Typed
<1>3. view \in Views
  BY <1>1, <1>2 DEF Views, Jobs
<1>4. work' = [work EXCEPT ![c] = job]
  BY <1>1, <1>2
<1>5. /\ job.seen = work[c].seen \union {view} /\ job.pc = "inspect"
      /\ job.revision = work[c].revision /\ job.whole = work[c].whole
      /\ job.expected = work[c].expected
  BY <1>2 DEF Inspect, Jobs
<1>6. job \in Jobs
  <2> HIDE DEF view
  <2> QED BY <1>2, <1>3 DEF Jobs
<1> HIDE DEF job, view
<1>7. IsFiniteSet(job.seen)
  BY <1>2, <1>5, FS_AddElement DEF Established
<1>8. Established(c, job)
  BY <1>2, <1>5, <1>7, VerdictsAssumption DEF Established, Inspect
<1> QED BY <1>4, <1>6, <1>8, WorkStep DEF Inspect

\* A capture goes on to save only renders of one worktree.
LEMMA FinishKept ==
  ASSUME ReleaseInv, NEW c \in Captures, Finish(c)
  PROVE  ReleaseInv'
<1> USE DEF Workers
<1>1. work[c] \in Jobs /\ Established(c, work[c]) /\ work \in [Workers -> Jobs]
  BY DEF ReleaseInv, Typed
<1>2. CASE \A s \in Inspected(work[c]) : s.source = source
  <2> DEFINE job == [work[c] EXCEPT !.pc = "save"]
  <2>1. work' = [work EXCEPT ![c] = job]
    BY <1>1, <1>2 DEF Finish
  <2>2. /\ job.seen = work[c].seen /\ job.pc = "save" /\ job.revision = work[c].revision
        /\ job.whole = work[c].whole /\ job.expected = work[c].expected
    BY <1>1 DEF Jobs
  <2>3. job \in Jobs
    BY <1>1 DEF Jobs
  <2>4. work[c].pc = "inspect"
    BY DEF Finish
  <2> HIDE DEF job
  <2>5. Established(c, job)
    BY <1>1, <1>2, <2>2, <2>4, VerdictsAssumption DEF Established, Inspected
  <2> QED BY <2>1, <2>3, <2>5, WorkStep DEF Finish
<1>3. CASE ~\A s \in Inspected(work[c]) : s.source = source
  <2>1. work' = [work EXCEPT ![c] = Idle]
    BY <1>1, <1>3 DEF Finish
  <2> QED BY <2>1, IdleKept, WorkStep DEF Finish
<1> QED BY <1>2, <1>3

\* The audit starts from the revision and the worktree it reads.
LEMMA BeginAuditKept ==
  ASSUME ReleaseInv, NEW a \in Audits, BeginAudit(a)
  PROVE  ReleaseInv'
<1> DEFINE job == [Idle EXCEPT !.pc = "save", !.revision = revision,
                               !.expected = Pairs, !.source = source]
<1>1. work' = [work EXCEPT ![a] = job]
  BY DEF BeginAudit
<1>2. revision \in 1 .. MaxSaves /\ revision \in Nat /\ source \in Sources
  BY VerdictsAssumption DEF BeginAudit, ReleaseInv, Typed
<1>3. Idle \in Jobs /\ Idle.seen = {} /\ Idle.whole = FALSE
  BY IdleKept DEF Idle
<1>4. /\ job \in Jobs /\ job.pc = "save" /\ job.revision = revision
      /\ job.whole = FALSE /\ job.seen = {} /\ job.source = source
  BY <1>2, <1>3 DEF Jobs
<1> HIDE DEF job
<1>5. Inspected(job) = {}
  BY <1>4 DEF Inspected
<1>6. Established(a, job)
  BY <1>2, <1>4, <1>5, FS_EmptySet DEF Established
<1> QED BY <1>1, <1>4, <1>6, WorkStep DEF BeginAudit, Workers

\* A save that is accepted, or refused as a whole.
LEMMA SaveStep ==
  ASSUME ReleaseInv, NEW w \in Workers, work' = [work EXCEPT ![w] = Idle],
         UNCHANGED <<source, human, release>>,
         Current', revision' = revision + 1, revision' \in 1 .. MaxSaves + 1,
         stored' \in 0 .. MaxCatalog, report' \in Reports
  PROVE  ReleaseInv'
<1>1. work' \in [Workers -> Jobs] /\ \A v \in Workers : Established(v, work'[v])
  BY WorkKept, IdleKept
<1>2. /\ UNCHANGED <<source, debts, asked, gate, session>>
  BY DEF human, release
<1>3. Typed'
  BY <1>1, <1>2 DEF ReleaseInv, Typed
<1>4. \A i \in 2 .. revision : i \in 2 .. revision'
  BY DEF ReleaseInv, Typed
<1>5. Evaluating'
  BY <1>2, <1>4 DEF ReleaseInv, Evaluating, Sound, Bound, SelfEvident, Decided, Recorded, Open, Observed
<1>6. (session # None => Recorded(session, revision))'
  BY <1>2, <1>4 DEF ReleaseInv, Recorded
<1>7. (\A v \in Workers : Established(v, work[v]))'
  BY <1>1 DEF Established, Inspected
<1> QED BY <1>3, <1>5, <1>6, <1>7 DEF ReleaseInv

\* A capture is saved, or refused as a whole.
LEMMA SaveCaptureKept ==
  ASSUME ReleaseInv, NEW c \in Captures, SaveCapture(c)
  PROVE  ReleaseInv'
<1> USE DEF Workers
<1>1. /\ work[c].pc = "save" /\ work' = [work EXCEPT ![c] = Idle]
      /\ UNCHANGED <<source, human, release>>
  BY DEF SaveCapture
<1> DEFINE job == work[c]
           n == revision + 1
<1>4. PICK first \in FirstGone(job) :
        IF Accepted(job, CapturedReport(job, first, n), Entries(job, n), 0)
        THEN Publish(CapturedReport(job, first, n), Entries(job, n), 0,
                     {o \in open : Rechecked(job, o)})
        ELSE UNCHANGED governed
  BY DEF SaveCapture
<1> DEFINE r == CapturedReport(job, first, n)
<1>2. CASE Accepted(job, r, Entries(job, n), 0)
  <2>1. Publish(r, Entries(job, n), 0, {o \in open : Rechecked(job, o)})
    BY <1>2, <1>4
  <2>2. Typed /\ Current /\ Established(c, work[c]) /\ revision \in Nat /\ stored \in Nat
    BY DEF ReleaseInv, Typed
  <2>3. Sound(r) /\ Dated(r, n) /\ r.evidence = Entries(job, n)
    BY <1>1, <1>2, <2>2, CapturedSound
  <2>4. Rendered(job)
    BY <2>2, WorkRendered
  <2>5. IsFiniteSet(Entries(job, n)) /\ Cardinality(Entries(job, n)) \in Nat
    BY <2>2, <2>4, EntriesKnown, FS_CardinalityType
  <2>6. r.findings = Merged(Findings(job, n) \union Resolved(first, n))
    BY DEF CapturedReport
  <2>7. Observed(Open(r.findings)) =
          {o \in open : o \notin {q \in open : Rechecked(job, q)}}
          \union Observed({f \in r.findings : f.at = n /\ f.status = "OPEN"})
    <3>1. \A e \in r.evidence : e.at = n
      BY <2>2, <2>3, <2>4, EntriesKnown
    <3>2. \A f \in r.findings : f.at = n
      BY <2>3, <3>1 DEF Sound, Bound
    <3> HIDE DEF r, job
    <3> QED BY <2>2, <2>4, <2>6, <3>2, HistoryAfterCapture
  <2>8. revision <= MaxSaves /\ Fits(Entries(job, n), 0)
    BY <1>1, <1>2, <2>2 DEF Accepted, Established
  <2>9. Cardinality(r.evidence) <= stored + Cardinality(Entries(job, n))
    BY <2>2, <2>3, <2>5
  <2> HIDE DEF job, r
  <2>10. /\ Current' /\ revision' = revision + 1 /\ revision' \in 1 .. MaxSaves + 1
         /\ stored' \in 0 .. MaxCatalog /\ report' \in Reports
    BY <2>1, <2>3, <2>5, <2>7, <2>8, <2>9, PublishKept
  <2> QED BY <1>1, <2>10, SaveStep
<1>3. CASE ~Accepted(job, r, Entries(job, n), 0)
  <2>1. UNCHANGED governed
    BY <1>3, <1>4
  <2> QED BY <1>1, <2>1, IdleKept, WorkStep
<1> QED BY <1>2, <1>3

\* An audit is saved, or refused as a whole.
LEMMA SaveAuditKept ==
  ASSUME ReleaseInv, NEW a \in Audits, SaveAudit(a)
  PROVE  ReleaseInv'
<1> USE DEF Workers
<1> DEFINE n == revision + 1
           routes == Cardinality(Pairs)
<1>1. /\ work[a].pc = "save" /\ work' = [work EXCEPT ![a] = Idle]
      /\ UNCHANGED <<source, human, release>>
  BY DEF SaveAudit
<1>2. PICK job \in AuditJobs(a) :
        IF Accepted(job, AuditedReport(job, n), Entries(job, n), routes)
        THEN Publish(AuditedReport(job, n), Entries(job, n), routes, {})
        ELSE UNCHANGED governed
  BY DEF SaveAudit
<1> DEFINE r == AuditedReport(job, n)
<1>3. CASE Accepted(job, r, Entries(job, n), routes)
  <2>1. Publish(r, Entries(job, n), routes, {})
    BY <1>2, <1>3
  <2>2. Typed /\ Current /\ Established(a, work[a]) /\ revision \in Nat
    BY DEF ReleaseInv, Typed
  <2>3. Sound(r) /\ Dated(r, n) /\ Cardinality(r.evidence) <= stored + Cardinality(Entries(job, n))
    BY <1>1, <1>3, <2>2, AuditedSound
  <2>4. Rendered(job)
    BY <1>1, <2>2, AuditRendered
  <2>5. IsFiniteSet(Entries(job, n)) /\ routes \in Nat
    BY <2>2, <2>4, EntriesKnown, FS_CardinalityType, VerdictsAssumption
  <2>6. r.findings = Merged(Findings(job, n))
    BY DEF AuditedReport
  <2>7. Observed(Open(r.findings)) =
          {o \in open : o \notin {}}
          \union Observed({f \in r.findings : f.at = n /\ f.status = "OPEN"})
    BY <2>2, <2>4, <2>6, HistoryAfterAudit
  <2>8. job.revision = work[a].revision
    <3>1. work[a] \in Jobs
      BY <2>2 DEF Typed
    <3> QED BY <3>1 DEF AuditJobs, Jobs
  <2>9. revision <= MaxSaves /\ Fits(Entries(job, n), routes)
    BY <1>1, <1>3, <2>2, <2>8 DEF Accepted, Established
  <2> HIDE DEF r, routes
  <2>10. /\ Current' /\ revision' = revision + 1 /\ revision' \in 1 .. MaxSaves + 1
         /\ stored' \in 0 .. MaxCatalog /\ report' \in Reports
    BY <2>1, <2>3, <2>5, <2>7, <2>9, PublishKept
  <2> QED BY <1>1, <2>10, SaveStep
<1>4. CASE ~Accepted(job, r, Entries(job, n), routes)
  <2>1. UNCHANGED governed
    BY <1>2, <1>4
  <2> QED BY <1>1, <2>1, IdleKept, WorkStep
<1> QED BY <1>3, <1>4

\* The gate answers with one of the four statuses.
LEMMA GateAnswers ==
  ASSUME NEW r
  PROVE  GateStatus(r) \in Statuses
BY DEF GateStatus, Statuses

\* A step that leaves the governed documents and the workers alone.
LEMMA HumanStep ==
  ASSUME ReleaseInv, UNCHANGED <<governed, work>>,
         source' \in Sources, debts' \subseteq [pair : Pairs, rule : Rules],
         asked' # None => asked' \in [pair : Pairs, rule : Rules],
         Evaluating', session' # None => Recorded(session', revision)
  PROVE  ReleaseInv'
<1>1. UNCHANGED <<revision, stored, report, open, work>>
  BY DEF governed
<1>2. Typed'
  BY <1>1 DEF ReleaseInv, Typed
<1>3. Current'
  BY <1>1 DEF ReleaseInv, Current, Sound, Bound, SelfEvident, Decided, Dated, Open, Observed
<1>4. (\A w \in Workers : Established(w, work[w]))'
  BY <1>1 DEF ReleaseInv, Established, Inspected
<1>5. (session # None => Recorded(session, revision))'
  BY <1>1 DEF Recorded
<1> QED BY <1>2, <1>3, <1>4, <1>5 DEF ReleaseInv

\* An evaluation is not disturbed by what leaves reports alone.
LEMMA EvaluatingKept ==
  ASSUME ReleaseInv, UNCHANGED <<governed, gate>>
  PROVE  Evaluating'
BY DEF governed, ReleaseInv, Evaluating, Sound, Bound, SelfEvident, Decided, Recorded, Open, Observed

\* The finding a user documents is one of the active report.
LEMMA ReadFindingKept ==
  ASSUME ReleaseInv, ReadFinding
  PROVE  ReleaseInv'
<1>1. UNCHANGED <<source, governed, debts, work, gate, session>> /\ report # None
  BY DEF ReadFinding, release
<1>2. PICK f \in Open(report.findings) : asked' = [pair |-> f.pair, rule |-> f.rule]
  BY DEF ReadFinding
<1>3. f \in Notes /\ f.rule \in Rules
  BY <1>1 DEF ReleaseInv, Current, Sound, Bound, Reports, Open
<1>4. asked' \in [pair : Pairs, rule : Rules]
  BY <1>2, <1>3 DEF Notes
<1>5. Evaluating'
  BY <1>1, EvaluatingKept
<1> QED BY <1>1, <1>4, <1>5, HumanStep DEF ReleaseInv, Typed

\* The decision is recorded.
LEMMA RecordDebtKept ==
  ASSUME ReleaseInv, RecordDebt
  PROVE  ReleaseInv'
<1>1. UNCHANGED <<source, governed, work, gate, session>>
  BY DEF RecordDebt, release
<1>2. debts' \subseteq [pair : Pairs, rule : Rules] /\ asked' = None
  BY DEF RecordDebt, ReleaseInv, Typed
<1>3. Evaluating'
  BY <1>1, EvaluatingKept
<1> QED BY <1>1, <1>2, <1>3, HumanStep DEF ReleaseInv, Typed

\* The worktree is edited.
LEMMA EditSourceKept ==
  ASSUME ReleaseInv, EditSource
  PROVE  ReleaseInv'
<1>1. UNCHANGED <<governed, debts, asked, work, gate, session>> /\ source' \in Sources
  BY DEF EditSource, release, human
<1>2. Evaluating'
  BY <1>1, EvaluatingKept
<1> QED BY <1>1, <1>2, HumanStep DEF ReleaseInv, Typed

\* An evaluation starts from a sound report and what was open by it.
LEMMA ReadReportKept ==
  ASSUME ReleaseInv, ReadReport
  PROVE  ReleaseInv'
<1>1. UNCHANGED <<source, governed, debts, asked, work, session>> /\ report # None
  BY DEF ReadReport, human
<1>2. PICK retained \in {None, session} :
        gate' = [pc |-> "read", report |-> report, open |-> open, at |-> revision,
                 retained |-> retained]
  BY DEF ReadReport
<1>3. /\ gate'.pc = "read" /\ gate'.report = report /\ gate'.open = open
      /\ gate'.at = revision /\ gate'.retained = retained
  BY <1>2
<1>4. /\ Sound(report) /\ Observed(Open(report.findings)) = open
      /\ revision \in 2 .. revision
  BY <1>1 DEF ReleaseInv, Current, Typed
<1>5. retained # None => Recorded(retained, revision)
  BY <1>2 DEF ReleaseInv
<1>6. revision' = revision
  BY <1>1 DEF governed
<1>7. Evaluating'
  BY <1>3, <1>4, <1>5, <1>6
     DEF Evaluating, Sound, Bound, SelfEvident, Decided, Recorded, Open, Observed
<1> QED BY <1>1, <1>7, HumanStep DEF ReleaseInv, Typed

\* The gate answers.
LEMMA EvaluateKept ==
  ASSUME ReleaseInv, Evaluate
  PROVE  ReleaseInv'
<1>1. UNCHANGED <<source, governed, debts, asked, work, session>> /\ gate # None
  BY DEF Evaluate, human
<1>2. /\ gate'.pc = "evaluated" /\ gate'.status = GateStatus(gate.report)
      /\ gate'.at = gate.at /\ gate'.retained = gate.retained
  BY DEF Evaluate
<1>3. gate'.status \in Statuses
  BY <1>2, GateAnswers
<1>4. revision' = revision
  BY <1>1 DEF governed
<1>5. Evaluating'
  BY <1>1, <1>2, <1>3, <1>4 DEF ReleaseInv, Evaluating, Recorded
<1> QED BY <1>1, <1>5, HumanStep DEF ReleaseInv, Typed

\* The recorded session names the revision as it is by then.
LEMMA RecordReleaseKept ==
  ASSUME ReleaseInv, RecordRelease
  PROVE  ReleaseInv'
<1>1. /\ UNCHANGED <<source, governed, debts, asked, work>> /\ gate # None
      /\ gate.pc = "evaluated" /\ gate' = None /\ session' = Checkpoint
  BY DEF RecordRelease, human
<1>2. Evaluating'
  BY <1>1 DEF Evaluating
<1>3. gate.status \in Statuses /\ revision \in 2 .. revision
  BY <1>1 DEF ReleaseInv, Evaluating, Typed
<1>4. Recorded(session', revision)
  BY <1>1, <1>3 DEF Recorded, Checkpoint
<1> QED BY <1>1, <1>2, <1>4, HumanStep DEF ReleaseInv, Typed

\* The comparison ends the evaluation.
LEMMA AuthenticateKept ==
  ASSUME ReleaseInv, Authenticate
  PROVE  ReleaseInv'
<1>1. UNCHANGED <<source, governed, debts, asked, work, session>> /\ gate' = None
  BY DEF Authenticate, human
<1>2. Evaluating'
  BY <1>1 DEF Evaluating
<1> QED BY <1>1, <1>2, HumanStep DEF ReleaseInv, Typed

-----------------------------------------------------------------------------
(* The invariant.                                                           *)

\* The initial state.
LEMMA InitKept ==
  ASSUME Init
  PROVE  ReleaseInv
<1>1. Typed
  BY IdleKept, VerdictsAssumption DEF Init, Typed, Workers
<1>2. ASSUME NEW w \in Workers
      PROVE  Established(w, work[w])
  BY IdleKept DEF Init
<1>3. Current /\ Evaluating /\ session = None
  BY DEF Init, Current, Evaluating
<1> QED BY <1>1, <1>2, <1>3 DEF ReleaseInv

\* A step that changes nothing.
LEMMA StutterKept ==
  ASSUME ReleaseInv, UNCHANGED vars
  PROVE  ReleaseInv'
<1>1. UNCHANGED <<governed, work, source, debts, asked, gate, session>>
  BY DEF vars, governed
<1>2. Evaluating'
  BY <1>1, EvaluatingKept
<1> QED BY <1>1, <1>2, HumanStep DEF ReleaseInv, Typed

\* Every step keeps the invariant.
LEMMA NextKept ==
  ASSUME ReleaseInv, [Next]_vars
  PROVE  ReleaseInv'
<1>1. ASSUME NEW c \in Captures, BeginCapture(c) \/ Inspect(c) \/ Finish(c) \/ SaveCapture(c)
      PROVE  ReleaseInv'
  BY <1>1, BeginCaptureKept, InspectKept, FinishKept, SaveCaptureKept
<1>2. ASSUME NEW a \in Audits, BeginAudit(a) \/ SaveAudit(a)
      PROVE  ReleaseInv'
  BY <1>2, BeginAuditKept, SaveAuditKept
<1>3. CASE ReadFinding \/ RecordDebt
  BY <1>3, ReadFindingKept, RecordDebtKept
<1>4. CASE ReadReport \/ Evaluate \/ RecordRelease \/ Authenticate
  BY <1>4, ReadReportKept, EvaluateKept, RecordReleaseKept, AuthenticateKept
<1>5. CASE EditSource
  BY <1>5, EditSourceKept
<1>6. CASE UNCHANGED vars
  BY <1>6, StutterKept
<1> QED BY <1>1, <1>2, <1>3, <1>4, <1>5, <1>6 DEF Next

\* The invariant holds in every state of the specification.
THEOREM ReleaseInvariant == Spec => []ReleaseInv
<1>1. Init => ReleaseInv
  BY InitKept
<1>2. ReleaseInv /\ [Next]_vars => ReleaseInv'
  BY NextKept
<1> QED BY <1>1, <1>2, PTL DEF Spec

\* Reports, decisions and recorded sessions keep their shape, and the evidence of a
\* report is of saves made by then and fits beside the rest of the catalog.
THEOREM TypeCorrect == Spec => []TypeOK
<1>1. ReleaseInv => TypeOK
  BY DEF ReleaseInv, Typed, Current, Sound, Dated, Recorded, TypeOK
<1> QED BY <1>1, ReleaseInvariant, PTL

\* A finding is open in the active report exactly if a saved report observed it
\* and no saved capture has rechecked it since, whatever captures and audits
\* interleave, and whichever finding of a category a capture resolves first.
THEOREM FindingsKept == Spec => []NothingForgotten
<1>1. ReleaseInv => NothingForgotten
  BY DEF ReleaseInv, Current, NothingForgotten
<1> QED BY <1>1, ReleaseInvariant, PTL

\* A saved report rests on its own renders, of one worktree, and the catalog stays
\* within its capacity.
THEOREM ReportsSound == Spec => []SoundReport
<1>1. ASSUME ReleaseInv
      PROVE  SoundReport
  <2>1. OwnEvidence
    BY <1>1 DEF ReleaseInv, Current, Sound, Bound, OwnEvidence
  <2>2. OneSource
    BY <1>1 DEF ReleaseInv, Current, Sound, OneSource
  <2>3. stored <= MaxCatalog
    BY <1>1 DEF ReleaseInv, Typed
  <2> QED BY <2>1, <2>2, <2>3 DEF SoundReport
<1> QED BY <1>1, ReleaseInvariant, PTL

-----------------------------------------------------------------------------
(* The release gate.                                                        *)

\* Only an evaluation answers.
LEMMA AnswerIsEvaluated ==
  ASSUME [Next]_vars, NEW statuses, Answered(statuses)
  PROVE  Evaluate
<1>1. gate # None /\ gate.pc = "read" /\ gate' # gate
  BY DEF Answered
<1>2. gate' # gate => ReadReport \/ Evaluate \/ RecordRelease \/ Authenticate
  BY DEF Next, vars, release, BeginCapture, Inspect, Finish, SaveCapture, BeginAudit, SaveAudit,
         ReadFinding, RecordDebt, EditSource
<1>3. ~ReadReport /\ ~RecordRelease /\ ~Authenticate
  BY <1>1 DEF ReadReport, RecordRelease, Authenticate
<1> QED BY <1>1, <1>2, <1>3

\* What an answer that lets a release pass says of the report.
LEMMA PassingGate ==
  ASSUME NEW r, Sound(r), GateStatus(r) \in {"PASS", "PASS_WITH_DEBT"}
  PROVE  /\ ScopeComplete(r) /\ ChecksPass(r)
         /\ \A f \in Open(r.findings) : ~Severe(f.severity)
<1>1. /\ ScopeComplete(r) /\ ChecksPass(r)
      /\ ~(Open(r.findings) # {} /\ Debt(r) = {})
      /\ ~\E f \in Open(r.findings) : f.severity = "CRITICAL"
  BY DEF GateStatus
<1>2. ASSUME NEW f \in Open(r.findings)
      PROVE  f.severity = "POLISH"
  BY <1>1, <1>2 DEF Debt
<1> QED BY <1>1, <1>2 DEF Severe

\* A release that passes has a fully verified capture of the present worktree for
\* each screen of its scope, whatever was edited since the report was saved.
THEOREM ReleaseIsFresh == Spec => FreshRelease
<1>1. ASSUME ReleaseInv, [Next]_vars, Answered({"PASS", "PASS_WITH_DEBT"})
      PROVE  /\ \A p \in gate.report.expected :
                   \E e \in gate.report.proofs : e.pair = p /\ e.full /\ e.source = source
             /\ gate.report.whole => gate.report.expected = Pairs /\ Cardinality(Pairs) > 1
  <2> DEFINE r == gate.report
  <2>1. Evaluate
    BY <1>1, AnswerIsEvaluated
  <2>2. GateStatus(r) \in {"PASS", "PASS_WITH_DEBT"}
    BY <1>1, <2>1 DEF Answered, Evaluate
  <2>3. Sound(r)
    BY <1>1, <2>1 DEF Evaluate, ReleaseInv, Evaluating
  <2> HIDE DEF r
  <2>4. ScopeComplete(r) /\ ChecksPass(r) /\ \A f \in Open(r.findings) : ~Severe(f.severity)
    BY <2>2, <2>3, PassingGate
  <2>5. \A p \in r.expected : \E e \in r.proofs : e.pair = p /\ e.full
    BY <2>3, <2>4 DEF ChecksPass, Sound, Decided, SelfEvident
  <2>6. \A p \in r.expected : \E e \in r.proofs : e.pair = p /\ e.source = source
    BY <2>4 DEF ChecksPass, Fresh
  <2>7. \A e, f \in r.proofs : e.source = f.source
    BY <2>3 DEF Sound
  <2>8. \A p \in r.expected : \E e \in r.proofs : e.pair = p /\ e.full /\ e.source = source
    BY <2>5, <2>6, <2>7
  <2>9. Cardinality(Pairs) \in Nat
    BY FS_CardinalityType, VerdictsAssumption
  <2>10. r.whole => r.expected = Pairs /\ Cardinality(Pairs) > 1
    BY <2>3, <2>4, <2>9 DEF Sound, ScopeComplete
  <2> QED BY <2>8, <2>10 DEF r
<1> QED BY <1>1, ReleaseInvariant, PTL DEF Spec, FreshRelease

\* A release that passes leaves out no finding that was open when the report was
\* read, except polish a human documented for that very screen.
THEOREM ReleaseIsHonest == Spec => HonestRelease
<1>1. ASSUME ReleaseInv, [Next]_vars
      PROVE  /\ Answered({"PASS"}) => gate.open = {}
             /\ Answered({"PASS_WITH_DEBT"}) =>
                   \A o \in gate.open : /\ o.severity = "POLISH"
                                        /\ [pair |-> o.pair, rule |-> o.rule] \in debts
  <2> DEFINE r == gate.report
  <2>1. ASSUME NEW statuses, Answered(statuses)
        PROVE  /\ GateStatus(r) \in statuses
               /\ Observed(Open(r.findings)) = gate.open
    <3>1. Evaluate
      BY <1>1, <2>1, AnswerIsEvaluated
    <3> QED BY <1>1, <2>1, <3>1 DEF Answered, Evaluate, ReleaseInv, Evaluating
  <2> HIDE DEF r
  <2>2. ASSUME Answered({"PASS"})
        PROVE  gate.open = {}
    <3>1. GateStatus(r) = "PASS" /\ Observed(Open(r.findings)) = gate.open
      BY <2>1, <2>2
    <3>2. Open(r.findings) = {}
      BY <3>1 DEF GateStatus
    <3> QED BY <3>1, <3>2 DEF Observed
  <2>3. ASSUME Answered({"PASS_WITH_DEBT"}), NEW o \in gate.open
        PROVE  o.severity = "POLISH" /\ [pair |-> o.pair, rule |-> o.rule] \in debts
    <3>1. GateStatus(r) = "PASS_WITH_DEBT" /\ Observed(Open(r.findings)) = gate.open
      BY <2>1, <2>3
    <3>2. Debt(r) # {}
      BY <3>1 DEF GateStatus
    <3>3. \A f \in Open(r.findings) : f.severity = "POLISH" /\ Documented(f)
      BY <3>2 DEF Debt
    <3>4. PICK f \in Open(r.findings) :
            o = [pair |-> f.pair, rule |-> f.rule, severity |-> f.severity]
      BY <2>3, <3>1 DEF Observed
    <3> QED BY <3>3, <3>4 DEF Documented
  <2> QED BY <2>2, <2>3
<1> QED BY <1>1, ReleaseInvariant, PTL DEF Spec, HonestRelease

\* A session is shown as authentic only if its status is the gate's answer on the
\* report the session names, whenever the report was replaced in between.
THEOREM ReleaseIsAuthentic == Spec => AuthenticRelease
<1>1. ASSUME ReleaseInv, Authenticate /\ Authentic
      PROVE  /\ gate.at = gate.retained.revision
             /\ gate.status = gate.retained.status
  <2>1. /\ gate # None /\ gate.retained # None
        /\ gate.retained = [status |-> gate.status, revision |-> revision]
    BY <1>1 DEF Authenticate, Authentic, Checkpoint
  <2>2. gate.retained.status = gate.status /\ gate.retained.revision = revision
    BY <2>1
  <2>3. gate.at \in 2 .. revision /\ gate.retained.revision \in 2 .. gate.at
    BY <1>1, <2>1 DEF ReleaseInv, Evaluating, Recorded
  <2>4. revision \in Nat
    BY <1>1 DEF ReleaseInv, Typed
  <2> QED BY <2>2, <2>3, <2>4
<1> QED BY <1>1, ReleaseInvariant, PTL DEF Spec, AuthenticRelease

=============================================================================
